----------------------------- MODULE MCIndexFeed -----------------------------
(***************************************************************************)
(* The parts of a gateway that follow vbucket sequences: a feed over the   *)
(* channel index, the hasher of its since values, the sharded clocks of    *)
(* the index, and the receiver of a DCP feed.  They share no state; a      *)
(* behaviour is one of one part, picked in the initial state, and the      *)
(* others stay as they were initialised.  The receiver is checked once     *)
(* with two vbuckets and no failover, and once with mutations of one       *)
(* vbucket only, which fails over.  A clock whose bucket fails is written  *)
(* twice.                                                                  *)
(***************************************************************************)
EXTENDS IndexFeed, SequenceHasher, ShardedClock, DcpFeed, TLC

VARIABLE part

partVars == <<part, indexFeedVars, hasherVars, shardedClockVars, dcpVars>>

MCInit ==
    /\ part \in {"feed", "resume", "hasher", "clock", "dcp", "failover"}
    /\ IndexFeedInit /\ HasherInit /\ ShardedClockInit /\ DcpInit

(* The second feed of a client, which has got something from the first, is *)
(* a longpoll request.  In the part that resumes a backfill, the index has *)
(* two entries of a channel before the channel is granted, which is all    *)
(* that happens later, and the first feed starts; backfills fail and feeds *)
(* end early in this part only.                                            *)
FeedBounded ==
    /\ feeds # feeds' /\ feeds' = 2 => mode' = "longpoll" /\ got # {}
    /\ CASE part = "feed" ->
                /\ Mutations' <= 2
                /\ ~ \E c \in Channels : BackfillError(c)
                /\ pc' = "off" => pc \in {"off", "ended", "wait"} \/ sentSomething
         [] part = "resume" /\ Mutations < 2 ->
                member'["A"] = {} /\ access' = access /\ pc' = "off"
         [] OTHER -> Mutations' > Mutations => access' # access /\ member' = member

MCNext ==
    /\ UNCHANGED part
    /\ IF part \in {"feed", "resume"} THEN IndexFeedNext /\ FeedBounded
       ELSE UNCHANGED indexFeedVars
    /\ IF part = "hasher" THEN HasherNext ELSE UNCHANGED hasherVars
    /\ IF part = "clock"  THEN ShardedClockNext ELSE UNCHANGED shardedClockVars
    /\ clockUsed'.errors > 0 => clockUsed'.writes <= 2
    /\ CASE part = "dcp"      -> DcpNext /\ UNCHANGED failoverLog
         [] part = "failover" -> DcpNext /\ UNCHANGED high[1]
         [] OTHER             -> UNCHANGED dcpVars

MCSpec == MCInit /\ [][MCNext]_partVars

(* A continuous feed, and a longpoll request for a single entry.           *)
ContinuousAndLimited == {<<"continuous", 0>>, <<"longpoll", 1>>}

(* Two of three clocks have the same hash value.                           *)
HashClocks == {[v \in Vbs |-> IF v = 0 THEN n ELSE 0] : n \in 1..3}

(* Two writers share a partition; a sequence needs up to two words.        *)
TwoPartitions == <<<<"a", "b">>, <<"c">>>>
OwnerOf == [v \in {"a", "b", "c"} |-> IF v = "b" THEN "w2" ELSE "w1"]

(* Mutations of one vbucket, which may fail over, and one of another.      *)
VbSeqs == 0 :> 2 @@ 1 :> 1
Failovers == 0 :> 1 @@ 1 :> 0

=============================================================================
