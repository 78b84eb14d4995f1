------------------------------ MODULE BulkOps ------------------------------
(***************************************************************************)
(* SetBulk and GetBulkRaw / GetBulkCounters (base/bucket_gocb.go): the     *)
(* keys of a bulk operation are sent in batches, each key fails or         *)
(* succeeds on its own, and the keys with a temporary error are meant to   *)
(* be tried again by RetryLoop until its sleeper gives up.                 *)
(*                                                                         *)
(* The server is external: it answers every key of a batch with "ok", with *)
(* a final refusal (a CAS mismatch, or a missing key) or with a temporary  *)
(* error, or fails the batch as a whole.                                   *)
(***************************************************************************)
EXTENDS Integers, Sequences, FiniteSets

CONSTANTS
    NumKeys,            \* keys of the bulk operation
    MaxBulkBatchSize,   \* keys per batch
    MaxBulkAttempts     \* attempts of the sleeper

ASSUME BulkAssumption ==
    /\ NumKeys \in Nat /\ MaxBulkAttempts \in Nat \ {0}
    /\ MaxBulkBatchSize \in Nat \ {0}

VARIABLES
    bulk,       \* the operation: what it does and how far it has come
    entryError, \* [Keys -> the error of the entry after its last attempt]
    stored      \* the keys whose value the server has accepted or returned

bulkVars == <<bulk, entryError, stored>>

Keys == 1..NumKeys

\* createBatchesEntries, createBatchesKeys: a batch is complete when it is full
\* or when the last key is in it.  Keys are sent in their order, also when they
\* are tried again, and within a batch it does not matter.
CreateBatches(keys) ==
    LET place(k) == Cardinality({j \in keys : j <= k})
        batch(b) == {k \in keys : /\ place(k) > (b - 1) * MaxBulkBatchSize
                                  /\ place(k) <= b * MaxBulkBatchSize}
        count == (Cardinality(keys) + MaxBulkBatchSize - 1) \div MaxBulkBatchSize
    IN [b \in 1..count |-> batch(b)]

BulkInit ==
    /\ bulk = [pc |-> "idle", kind |-> "none", batches |-> <<>>, retry |-> {},
               attempts |-> 0, error |-> FALSE]
    /\ entryError = [k \in Keys |-> "none"]
    /\ stored = {}

----------------------------------------------------------------------------
StartBulk(kind) ==
    /\ bulk.pc = "idle"
    /\ bulk' = [bulk EXCEPT !.pc = "batches", !.kind = kind, !.attempts = 1,
                            !.batches = CreateBatches(Keys)]
    /\ UNCHANGED <<entryError, stored>>

\* As if SetBulk lost them in the same way.
ToRetryNone(batch, answer) == {}

\* What is added to the keys to try again.  processBulkSetEntriesBatch returns
\* them; processGetRawBatch and processGetCountersBatch append them to a slice
\* that their caller never sees.
ToRetry(batch, answer) ==
    IF bulk.kind = "get" THEN {}
    ELSE {k \in batch : answer[k] = "temporary"}

\* One batch is sent and its answers are read.
ProcessBatch ==
    /\ bulk.pc = "batches" /\ bulk.batches # <<>>
    /\ LET batch == Head(bulk.batches)
       IN \E answer \in [batch -> {"ok", "refused", "temporary"}] :
             /\ bulk' = [bulk EXCEPT !.batches = Tail(@),
                                     !.retry = @ \cup ToRetry(batch, answer)]
             /\ entryError' = [k \in Keys |-> IF k \in batch THEN answer[k]
                                              ELSE entryError[k]]
             /\ stored' = stored \cup {k \in batch : answer[k] = "ok"}

\* The batch as a whole fails: the operation returns the error.
BatchFails ==
    /\ bulk.pc = "batches" /\ bulk.batches # <<>>
    /\ bulk' = [bulk EXCEPT !.pc = "done", !.error = TRUE]
    /\ UNCHANGED <<entryError, stored>>

\* All batches were sent.  Without keys to try again the operation is done; else
\* the sleeper decides whether there is another attempt.
EndAttempt ==
    /\ bulk.pc = "batches" /\ bulk.batches = <<>>
    /\ bulk' = IF bulk.retry = {} THEN [bulk EXCEPT !.pc = "done"]
               ELSE IF bulk.attempts >= MaxBulkAttempts
                 THEN [bulk EXCEPT !.pc = "done", !.error = TRUE]
               ELSE [bulk EXCEPT !.attempts = @ + 1, !.retry = {},
                                 !.batches = CreateBatches(bulk.retry)]
    /\ UNCHANGED <<entryError, stored>>

BulkNext ==
    \/ \E kind \in {"set", "get"} : StartBulk(kind)
    \/ ProcessBatch \/ BatchFails \/ EndAttempt

\* The calls of the server and the sleeper return.
BulkFairness == WF_bulkVars(ProcessBatch \/ EndAttempt)

BulkSpec == BulkInit /\ [][BulkNext]_bulkVars /\ BulkFairness

----------------------------------------------------------------------------
(* Properties.                                                             *)

\* A SetBulk that returns no error has settled every entry: its value was
\* stored, or the server refused it and the entry says so.
SetBulkSettled ==
    bulk.pc = "done" /\ bulk.kind = "set" /\ ~bulk.error =>
        \A k \in Keys : k \in stored \/ entryError[k] = "refused"

\* A bulk read that returns no error has the value of every key that exists:
\* "If there are errors on individual keys [...] such as QueueOverflow errors
\* that can be retried successfully, they will be retried".
GetBulkComplete ==
    bulk.pc = "done" /\ bulk.kind = "get" /\ ~bulk.error =>
        \A k \in Keys : k \in stored \/ entryError[k] = "refused"

\* Bulk operations have ended.
BulkEnded == bulk.pc # "batches"

============================================================================
