------------------------- MODULE SequenceAllocator -------------------------
(***************************************************************************)
(* Sequence allocation (db/sequence_allocator.go): the allocators of       *)
(* several Sync Gateway nodes draw ranges of sequence numbers from the     *)
(* _sync:seq counter of the shared bucket and hand them out one by one.    *)
(*                                                                         *)
(* An allocator's mutex is held during Incr and its retries, so one call   *)
(* per node is in progress at a time; Incr itself is atomic in the bucket, *)
(* but its answer may be an error even though the counter has moved.       *)
(***************************************************************************)
EXTENDS Naturals

CONSTANTS
    Nodes,
    MaxSeq,             \* bound on the counter
    MaxReserve,         \* largest argument of ReserveSequences
    kMaxIncrRetries

ASSUME AllocatorAssumption ==
    /\ MaxSeq \in Nat
    /\ MaxReserve \in Nat \ {0}
    /\ kMaxIncrRetries \in Nat \ {0}

VARIABLES
    counter,    \* the bucket's _sync:seq document
    last,       \* last sequence assigned, per node
    max,        \* last sequence reserved, per node
    call,       \* the call that holds the node's mutex
    issued      \* history: sequences returned by nextSequence, per node

vars == <<counter, last, max, call, issued>>

Seqs == 1..MaxSeq

(* op: the operation; num: numToReserve; got: the answer of Incr, once     *)
(* answered.                                                               *)
NewCall(op, num) == [op |-> op, num |-> num, retries |-> 0,
                     answered |-> FALSE, got |-> 0]
NoCall == NewCall("none", 0)

(* The variables hold values the fields of the code can have.              *)
TypeOK ==
    /\ counter \in 0..MaxSeq
    /\ last \in [Nodes -> 0..MaxSeq]
    /\ max \in [Nodes -> 0..MaxSeq]
    /\ call \in [Nodes -> [op : {"none", "next", "reserve", "restart"},
                           num : 0..MaxReserve, retries : 0..kMaxIncrRetries,
                           answered : BOOLEAN, got : 0..MaxSeq]]
    /\ issued \in [Nodes -> SUBSET Seqs]

Init ==
    /\ counter = 0
    /\ last = [n \in Nodes |-> 0]
    /\ max = [n \in Nodes |-> 0]
    /\ call = [n \in Nodes |-> NoCall]
    /\ issued = [n \in Nodes |-> {}]

Begin(n, op, num) ==
    /\ call[n] = NoCall
    /\ call' = [call EXCEPT ![n] = NewCall(op, num)]

(* Mutant: nextSequence believes that max itself is still to be handed out *)
(* when last has reached it.                                               *)
NextFromReserveOffByOne(n) ==
    /\ call[n] = NoCall
    /\ last[n] <= max[n] /\ last[n] < MaxSeq
    /\ last' = [last EXCEPT ![n] = @ + 1]
    /\ issued' = [issued EXCEPT ![n] = @ \cup {last[n] + 1}]
    /\ UNCHANGED <<counter, max, call>>

(* nextSequence while reserved sequences are left.                         *)
NextFromReserve(n) ==
    /\ call[n] = NoCall
    /\ last[n] < max[n]
    /\ last' = [last EXCEPT ![n] = @ + 1]
    /\ issued' = [issued EXCEPT ![n] = @ \cup {last[n] + 1}]
    /\ UNCHANGED <<counter, max, call>>

(* nextSequence when none is left: _reserveSequences(1).                   *)
NextSequence(n) ==
    /\ last[n] >= max[n]
    /\ Begin(n, "next", 1)
    /\ UNCHANGED <<counter, last, max, issued>>

(* reserveSequences(num); it does nothing while some are left.             *)
ReserveSequences(n, num) ==
    /\ last[n] >= max[n]
    /\ Begin(n, "reserve", num)
    /\ UNCHANGED <<counter, last, max, issued>>

(* The process ends and another one starts: newSequenceAllocator           *)
(* reserves 0 sequences to read the counter.                               *)
Restart(n) ==
    /\ last' = [last EXCEPT ![n] = 0]
    /\ max' = [max EXCEPT ![n] = 0]
    /\ call' = [call EXCEPT ![n] = NewCall("restart", 0)]
    /\ UNCHANGED <<counter, issued>>

Waiting(n) == call[n].op # "none" /\ ~call[n].answered

(* Incr succeeds.                                                          *)
IncrApplied(n) ==
    /\ Waiting(n)
    /\ counter + call[n].num <= MaxSeq
    /\ counter' = counter + call[n].num
    /\ call' = [call EXCEPT ![n].answered = TRUE, ![n].got = counter']
    /\ UNCHANGED <<last, max, issued>>

(* Incr reports an error, before or after the counter was moved.  The call *)
(* is repeated up to kMaxIncrRetries times and then fails; without an      *)
(* allocator the database does not open, and opening it is tried again.    *)
IncrError(n) ==
    /\ Waiting(n)
    /\ \/ UNCHANGED counter
       \/ /\ counter + call[n].num <= MaxSeq
          /\ counter' = counter + call[n].num
    /\ call' = [call EXCEPT ![n] =
                  IF call[n].retries + 1 < kMaxIncrRetries
                  THEN [call[n] EXCEPT !.retries = call[n].retries + 1]
                  ELSE IF call[n].op = "restart"
                       THEN [call[n] EXCEPT !.retries = 0]
                       ELSE NoCall]
    /\ UNCHANGED <<last, max, issued>>

(* Mutant: last keeps its value when a new range is taken over.            *)
CompleteKeepsLast(n) ==
    /\ call[n].answered
    /\ max' = [max EXCEPT ![n] = call[n].got]
    /\ IF call[n].op = "next"
       THEN /\ last' = [last EXCEPT ![n] = @ + 1]
            /\ issued' = [issued EXCEPT ![n] = @ \cup {last[n] + 1}]
       ELSE UNCHANGED <<last, issued>>
    /\ call' = [call EXCEPT ![n] = NoCall]
    /\ UNCHANGED counter

(* _reserveSequences takes over the answer; nextSequence then hands out    *)
(* the first of the range.                                                 *)
Complete(n) ==
    /\ call[n].answered
    /\ max' = [max EXCEPT ![n] = call[n].got]
    /\ LET first == call[n].got - call[n].num
       IN  IF call[n].op = "next"
           THEN /\ last' = [last EXCEPT ![n] = first + 1]
                /\ issued' = [issued EXCEPT ![n] = @ \cup {first + 1}]
           ELSE /\ last' = [last EXCEPT ![n] = first]
                /\ UNCHANGED issued
    /\ call' = [call EXCEPT ![n] = NoCall]
    /\ UNCHANGED counter

Next ==
    \E n \in Nodes :
        \/ NextFromReserve(n) \/ NextSequence(n)
        \/ \E num \in 1..MaxReserve : ReserveSequences(n, num)
        \/ Restart(n)
        \/ IncrApplied(n) \/ IncrError(n) \/ Complete(n)

Spec == Init /\ [][Next]_vars

----------------------------------------------------------------------------
(* Properties                                                              *)

(* What node n has been given and has not handed out yet.                  *)
Holding(n) ==
    {s \in Seqs :
        \/ last[n] < s /\ s <= max[n]
        \/ /\ call[n].answered
           /\ call[n].got < s + call[n].num
           /\ s <= call[n].got}

(* No sequence is in two hands: what a node holds is covered by the        *)
(* counter, was never issued by any node, and is held by no other node -   *)
(* whatever mix of reservations, Incr answers that were lost after the     *)
(* counter moved, and restarts led to it.                                  *)
HoldingsDisjoint ==
    \A n \in Nodes : \A s \in Holding(n) :
        /\ s <= counter
        /\ \A m \in Nodes : s \notin issued[m]
        /\ \A m \in Nodes \ {n} : s \notin Holding(m)

(* nextSequence returns on node n in this step.                            *)
Issues(n) == NextFromReserve(n) \/ (Complete(n) /\ call[n].op = "next")

(* nextSequence never returns a number that it, or the allocator of        *)
(* another node, has returned before.                                      *)
NoDuplicateSequence ==
    [][\A n \in Nodes : Issues(n) =>
            \A m \in Nodes : last'[n] \notin issued[m]]_vars

=============================================================================
