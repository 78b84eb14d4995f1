--------------------------- MODULE MCChannelCache ---------------------------
(***************************************************************************)
(* Model values for module ChannelCache.                                   *)
(***************************************************************************)
EXTENDS ChannelCache, TLC

Request(n, a) == [limit |-> n, activeOnly |-> a]

(* Requests whose limit counts every entry, or that have none.             *)
PlainRequests == {Request(0, FALSE), Request(1, FALSE)}

UnlimitedRequests == {Request(0, FALSE)}

(* Requests for a number of active entries.                                *)
ActiveRequests == {Request(1, TRUE)}

Symmetric == Permutations(Docs) \cup Permutations(Readers)

-----------------------------------------------------------------------------
(* Two kinds of instance in one run, picked in the initial state: several  *)
(* readers, some with a limit, that race for the view lock over a bucket   *)
(* that stores a write as soon as it has its sequence; and one reader      *)
(* without a limit, of two documents and from the channel's start, against *)
(* delayed writes and a purge.                                             *)
VARIABLES
    kind,       \* "readers", or "races" and then "purged"
    used        \* the documents of this instance

MCInit ==
    /\ Init
    /\ used \in SUBSET Docs
    /\ \A d \in Docs \ used : bucket[d] = NoEntry
    /\ \A e \in allocated : e.doc \in used
    /\ \/ kind = "readers" /\ used = Docs /\ allocated = {}
       \/ kind = "races" /\ Cardinality(used) = 2

Busy == {r \in Readers : reader[r].pc # "idle"}

MCNext ==
    /\ Next
    /\ kind' = IF purge' # NoPurge THEN "purged" ELSE kind
    /\ \A e \in allocated' : e.doc \in used
    /\ Cardinality(allocated') <= 1
    /\ kind = "readers" => /\ purge' = NoPurge
                           /\ allocated # {} => allocated' = {}
    /\ kind # "readers" => /\ \A r \in Busy' : /\ reader'[r].limit = 0
                                               /\ reader'[r].since = 0
                           /\ Cardinality(Busy') <= 1
    /\ kind = "purged" /\ purge = NoPurge => purge' = NoPurge
    /\ UNCHANGED used

MCSpec == MCInit /\ [][MCNext]_<<kind, used, vars>>

=============================================================================
