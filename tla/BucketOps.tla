----------------------------- MODULE BucketOps -----------------------------
(***************************************************************************)
(* Operations on one key of the bucket (base/bucket_gocb.go) by concurrent *)
(* callers: the limit on concurrent single operations, RetryLoop           *)
(* (base/util.go) around the server's temporary errors, and the            *)
(* read-modify-write loops of Update and WriteUpdate.                      *)
(*                                                                         *)
(* A temporary error leaves open whether the server has done what was      *)
(* asked (a timeout).  The content of the document is the operations it    *)
(* reflects: one that only writes replaces it, one that computes its value *)
(* from what was read adds itself.  The server is external; deleted        *)
(* documents keep no CAS.                                                  *)
(***************************************************************************)
EXTENDS Naturals, FiniteSets

CONSTANTS
    MaxOps,             \* bound on the operations, each of its own caller
    Kinds,              \* kinds of operations that are made
    MaxSingleOps,       \* capacity of bucket.singleOps
    MaxNumAttempts,     \* retries of the sleeper
    MaxFaults           \* bound on the temporary errors

ASSUME BucketOpsAssumption ==
    /\ Kinds \subseteq {"add", "set", "delete", "writeCas", "update", "incr",
                        "purge"}
    /\ MaxOps \in Nat
    /\ MaxSingleOps \in Nat \ {0} /\ MaxNumAttempts \in Nat /\ MaxFaults \in Nat

VARIABLES
    doc,                \* the document in the bucket
    lastCas,
    op,                 \* the operations
    slots,              \* length of bucket.singleOps
    faults,             \* temporary errors so far
    applied,            \* history: how often the server has carried out each
    ambiguous,          \* history: operations carried out with an error
    wiped               \* history: operations replaced or removed by others

(* Operations are numbered in the order in which they start.               *)
Ops == 1..MaxOps

docVars == <<doc, lastCas, applied, wiped>>
bucketOpVars == <<docVars, op, slots, faults, ambiguous>>

NoDoc == [cas |-> 0, content |-> {}]

NewOp == [pc |-> "idle", kind |-> "none", cas |-> 0, base |-> {},
          attempts |-> 0, rounds |-> 0, result |-> "none"]

OpRecord ==
    [pc : {"idle", "slot", "call", "readSlot", "read", "write", "purge",
           "xattrRead", "nestedSlot", "nestedRead", "remove", "done"},
     kind : Kinds \cup {"none"}, cas : Nat, base : SUBSET Ops,
     attempts : 0..MaxNumAttempts, rounds : 0..MaxNumAttempts,
     result : {"none", "ok", "exists", "missing", "failed"}]

BucketTypeOK ==
    /\ doc \in [cas : Nat, content : SUBSET Ops]
    /\ lastCas \in Nat
    /\ op \in [Ops -> OpRecord]
    /\ slots \in 0..MaxSingleOps
    /\ faults \in 0..MaxFaults
    /\ applied \in [Ops -> Nat]
    /\ ambiguous \subseteq Ops /\ wiped \subseteq Ops

BucketInit ==
    /\ doc = NoDoc /\ lastCas = 0
    /\ op = [o \in Ops |-> NewOp]
    /\ slots = 0 /\ faults = 0
    /\ applied = [o \in Ops |-> 0]
    /\ ambiguous = {} /\ wiped = {}

----------------------------------------------------------------------------
(* The server                                                              *)

(* Mutant: the document is replaced whatever its CAS is.                   *)
AnswerIgnoringCas(o) ==
    LET k == op[o].kind
        exists == doc.cas # 0
    IN  CASE k = "add" -> IF exists THEN "exists" ELSE "ok"
          [] k = "delete" -> IF exists THEN "ok" ELSE "missing"
          [] OTHER -> "ok"

(* Its answer to operation o; Update's Insert and Replace are those of     *)
(* WriteCas, with the CAS of its own read.                                 *)
Answer(o) ==
    LET k == op[o].kind
        exists == doc.cas # 0
    IN  CASE k = "add" -> IF exists THEN "exists" ELSE "ok"
          [] k \in {"set", "incr"} -> "ok"
          [] k = "delete" -> IF exists THEN "ok" ELSE "missing"
          [] k \in {"writeCas", "update"} ->
                IF op[o].cas = doc.cas THEN "ok"
                ELSE IF exists THEN "exists" ELSE "missing"
          [] OTHER -> IF op[o].cas = doc.cas THEN "ok" ELSE "exists"

(* What the server does when the answer is "ok".                           *)
Apply(o) ==
    LET k == op[o].kind
        content == CASE k \in {"add", "set"} -> {o}
                     [] k = "incr" -> doc.content \cup {o}
                     [] k \in {"writeCas", "update"} -> op[o].base \cup {o}
                     [] OTHER -> {}
    IN  /\ lastCas' = lastCas + 1
        /\ doc' = IF k \in {"delete", "purge"} THEN NoDoc
                  ELSE [cas |-> lastCas', content |-> content]
        /\ applied' = [applied EXCEPT ![o] = @ + 1]
        /\ wiped' = IF k \in {"set", "delete", "purge"}
                    THEN wiped \cup doc.content ELSE wiped

(* A call of the server with its answer r, or with a temporary error.      *)
Called(o, r) ==
    /\ Answer(o) = r
    /\ IF r = "ok" THEN Apply(o) ELSE UNCHANGED docVars
    /\ UNCHANGED <<faults, ambiguous>>

Fault(o) ==
    /\ faults < MaxFaults
    /\ faults' = faults + 1
    /\ \/ UNCHANGED <<docVars, ambiguous>>
       \/ Answer(o) = "ok" /\ Apply(o) /\ ambiguous' = ambiguous \cup {o}

----------------------------------------------------------------------------
(* Callers                                                                 *)

(* An operation is called; WriteCas with the CAS and content of an earlier *)
(* read, and Update goes on to read the document itself.                   *)
Start(o, k) ==
    /\ op[o].pc = "idle" /\ \A p \in 1..(o - 1) : op[p].pc # "idle"
    /\ op' = [op EXCEPT ![o] =
                [pc |-> IF k = "update" THEN "readSlot" ELSE "slot", kind |-> k,
                 cas |-> IF k = "writeCas" THEN doc.cas ELSE 0,
                 base |-> IF k = "writeCas" THEN doc.content ELSE {},
                 attempts |-> 0, rounds |-> 0, result |-> "none"]]
    /\ UNCHANGED <<docVars, slots, faults, ambiguous>>

(* bucket.singleOps <- struct{}{}, at the start of an operation, of        *)
(* Update's Get, and of the Get inside deleteDocBodyOnly.                  *)
TakeSlot(o) ==
    /\ op[o].pc \in {"slot", "readSlot", "nestedSlot"}
    /\ slots < MaxSingleOps
    /\ slots' = slots + 1
    /\ op' = [op EXCEPT ![o].pc =
                CASE @ = "slot" -> IF op[o].kind = "purge" THEN "purge"
                                   ELSE "call"
                  [] @ = "readSlot" -> "read"
                  [] OTHER -> "nestedRead"]
    /\ UNCHANGED <<docVars, faults, ambiguous>>

End(o, r) == op' = [op EXCEPT ![o].pc = "done", ![o].result = r]

(* The worker's call of the server, and the end of the operation.          *)
Call(o) ==
    /\ op[o].pc = "call"
    /\ \E r \in {"ok", "exists", "missing"} : Called(o, r) /\ End(o, r)
    /\ slots' = slots - 1

(* RetryLoop: a temporary error is retried after a sleep until the sleeper *)
(* gives up.  Delete has a loop of its own around that of Remove, which    *)
(* then gives back the slot and takes another.                             *)
CallFault(o) ==
    /\ op[o].pc = "call"
    /\ Fault(o)
    /\ IF op[o].attempts < MaxNumAttempts
       THEN op' = [op EXCEPT ![o].attempts = @ + 1] /\ UNCHANGED slots
       ELSE /\ IF op[o].kind = "delete" /\ op[o].rounds < MaxNumAttempts
               THEN op' = [op EXCEPT ![o].pc = "slot", ![o].attempts = 0,
                                     ![o].rounds = @ + 1]
               ELSE End(o, "failed")
            /\ slots' = slots - 1

(* Get, as part of Update, and its retries.                                *)
Read(o) ==
    /\ op[o].pc = "read"
    /\ \/ /\ op' = [op EXCEPT ![o].pc = "write", ![o].cas = doc.cas,
                              ![o].base = doc.content, ![o].attempts = 0]
          /\ slots' = slots - 1
          /\ UNCHANGED faults
       \/ /\ faults < MaxFaults /\ faults' = faults + 1
          /\ IF op[o].attempts < MaxNumAttempts
             THEN op' = [op EXCEPT ![o].attempts = @ + 1] /\ UNCHANGED slots
             ELSE End(o, "failed") /\ slots' = slots - 1
    /\ UNCHANGED <<docVars, ambiguous>>

(* Update's write, without a slot.  Insert fails if the key exists,        *)
(* Replace if the CAS has changed: both start over.                        *)
WriteBack(o) ==
    /\ op[o].pc = "write"
    /\ \E r \in {"ok", "exists", "missing"} :
        /\ Called(o, r)
        /\ IF r = "exists" THEN op' = [op EXCEPT ![o].pc = "readSlot"]
                           ELSE End(o, r)
    /\ UNCHANGED slots

(* A temporary error starts over as well, however often.                   *)
WriteFault(o) ==
    /\ op[o].pc = "write"
    /\ Fault(o)
    /\ op' = [op EXCEPT ![o].pc = "readSlot"]
    /\ UNCHANGED slots

(* deleteWithXattrInternal on a document without the xattr: its single     *)
(* operation fails.  deleteDocBodyOnly then reads the CAS with Get, or, if *)
(* there was no body, deleteDocXattrOnly reads the document; both hold the *)
(* slot.                                                                   *)
PurgeFirst(o) ==
    /\ op[o].pc = "purge"
    /\ op' = [op EXCEPT ![o].pc = IF doc.cas = 0 THEN "xattrRead" ELSE "nestedSlot"]
    /\ UNCHANGED <<docVars, slots, faults, ambiguous>>

(* There is no document, or one came back: the purge is cancelled.         *)
PurgeXattrRead(o) ==
    /\ op[o].pc = "xattrRead"
    /\ End(o, IF doc.cas = 0 THEN "missing" ELSE "exists")
    /\ slots' = slots - 1
    /\ UNCHANGED <<docVars, faults, ambiguous>>

PurgeRead(o) ==
    /\ op[o].pc = "nestedRead"
    /\ IF doc.cas = 0
       THEN End(o, "missing") /\ slots' = slots - 2
       ELSE /\ op' = [op EXCEPT ![o].pc = "remove", ![o].cas = doc.cas]
            /\ slots' = slots - 1
    /\ UNCHANGED <<docVars, faults, ambiguous>>

(* ... and removes the body if the CAS is still the same.                  *)
PurgeRemove(o) ==
    /\ op[o].pc = "remove"
    /\ \E r \in {"ok", "exists"} : Called(o, r) /\ End(o, r)
    /\ slots' = slots - 1

CallerStep(o) ==
    \/ TakeSlot(o) \/ Call(o) \/ Read(o) \/ WriteBack(o)
    \/ PurgeFirst(o) \/ PurgeXattrRead(o) \/ PurgeRead(o) \/ PurgeRemove(o)

BucketNext ==
    \E o \in Ops : \/ \E k \in Kinds : Start(o, k)
                   \/ CallerStep(o) \/ CallFault(o) \/ WriteFault(o)

(* Calls return, and a free slot is eventually given to each who waits     *)
(* (senders on a channel are served in turn).                              *)
BucketFairness ==
    \A o \in Ops : /\ SF_bucketOpVars(TakeSlot(o))
                   /\ WF_bucketOpVars(Call(o)) /\ WF_bucketOpVars(Read(o)) /\ WF_bucketOpVars(WriteBack(o))
                   /\ WF_bucketOpVars(PurgeFirst(o)) /\ WF_bucketOpVars(PurgeXattrRead(o))
                   /\ WF_bucketOpVars(PurgeRead(o)) /\ WF_bucketOpVars(PurgeRemove(o))

BucketSpec == BucketInit /\ [][BucketNext]_bucketOpVars /\ BucketFairness

----------------------------------------------------------------------------
(* Properties                                                              *)

Modifies(o) == op[o].kind \in {"writeCas", "update", "incr"}

(* No update is lost: what a read-modify-write was told is stored stays in *)
(* the document, whoever else updates it, until somebody overwrites or     *)
(* removes the document as a whole.                                        *)
NoLostWrite ==
    \A o \in Ops : Modifies(o) /\ op[o].result = "ok" /\ o \notin wiped
        => o \in doc.content

(* No operation is carried out twice by its retries, unless one was        *)
(* carried out and reported as an error (then Incr counts twice, and       *)
(* Update applies its callback to its own result).                         *)
AppliedOnce == \A o \in Ops : applied[o] <= 1 \/ o \in ambiguous

(* An operation that was refused has changed nothing, with the same        *)
(* exception: Add may answer that its own document exists, WriteCas that   *)
(* its own write is a conflict, and Delete that the document was missing.  *)
RefusedChangesNothing ==
    \A o \in Ops : op[o].result \in {"exists", "missing"}
        => applied[o] = 0 \/ o \in ambiguous

(* Operations that hold a slot, and that hold a second one.                *)
HoldingSlot ==
    {o \in Ops : op[o].pc \in {"call", "read", "purge", "xattrRead", "nestedSlot",
                               "nestedRead", "remove"}}
HoldingTwo == {o \in Ops : op[o].pc = "nestedRead"}

(* Every operation gives back the slots it has taken.                      *)
SlotsReturned == slots = Cardinality(HoldingSlot) + Cardinality(HoldingTwo)

(* Concurrent operations on a key neither lose nor repeat one another's    *)
(* updates (Update, WriteCas, Incr, Add and their retry loops), and give   *)
(* back the slots of singleOps.                                            *)
UpdatesApplied ==
    /\ BucketTypeOK /\ SlotsReturned
    /\ NoLostWrite /\ AppliedOnce /\ RefusedChangesNothing

(* All slots are held by purges that wait for a second one: nothing moves  *)
(* any more.                                                               *)
PurgesWaitForEachOther ==
    Cardinality({o \in Ops : op[o].pc = "nestedSlot"}) = MaxSingleOps

(* Every operation has ended, however many compete for the document and    *)
(* for the slots, unless purges use up the slots.                          *)
OpsEnded ==
    PurgesWaitForEachOther \/ \A o \in Ops : op[o].pc \in {"idle", "done"}

=============================================================================
