---------------------------- MODULE ServiceProofs ---------------------------
(***************************************************************************)
(* Proofs about the sequence allocator, the replication manager, the event *)
(* manager, the revision cache and the single-key and bulk operations of   *)
(* the bucket, for any number of nodes, replications, events, requests,    *)
(* revisions, operations, keys, slots and attempts, any sets of IDs,       *)
(* parameters and handlers and any limits.                                 *)
(***************************************************************************)
EXTENDS SequenceAllocator, Replicator, EventManager, RevisionCache, BucketOps,
        BulkOps, FiniteSetTheorems, SequenceTheorems, TLAPS

----------------------------------------------------------------------------
(* The sequence allocator.                                                 *)

(* What the calls in progress and the fields of the allocators look like.  *)
CallsOK ==
    \A n \in Nodes :
        /\ call[n].op = "none" => call[n] = NoCall
        /\ call[n].op = "next" => call[n].num = 1
        /\ call[n].op = "restart" => call[n].num = 0
        /\ call[n].answered => call[n].num <= call[n].got
        /\ call[n].answered => call[n].got <= counter
        /\ last[n] <= max[n]
        /\ max[n] <= counter
        /\ call[n].op # "none" => last[n] = max[n]

(* Nothing above the counter has been issued.                              *)
IssuedBelowCounter == \A n \in Nodes : \A s \in issued[n] : s <= counter

IndInv ==
    /\ TypeOK
    /\ CallsOK
    /\ IssuedBelowCounter
    /\ HoldingsDisjoint

----------------------------------------------------------------------------
(* Types and the shape of calls are preserved by every step.               *)
LEMMA ShapePreserved ==
    ASSUME TypeOK, CallsOK, IssuedBelowCounter, [Next]_vars
    PROVE  TypeOK' /\ CallsOK' /\ IssuedBelowCounter'
<1> DEFINE CallRecord == [op : {"none", "next", "reserve", "restart"},
                    num : 0..MaxReserve, retries : 0..kMaxIncrRetries,
                    answered : BOOLEAN, got : 0..MaxSeq]
           Good(m, c) == /\ c.op = "none" => c = NoCall
                         /\ c.op = "next" => c.num = 1
                         /\ c.op = "restart" => c.num = 0
                         /\ c.answered => c.num <= c.got /\ c.got <= counter'
                         /\ c.op # "none" => last'[m] = max'[m]
<1> USE AllocatorAssumption DEF Seqs
<1>1. CASE UNCHANGED vars
  BY <1>1 DEF vars, TypeOK, CallsOK, IssuedBelowCounter
<1>2. ASSUME NEW n \in Nodes, NextFromReserve(n)
      PROVE  TypeOK' /\ CallsOK' /\ IssuedBelowCounter'
  BY <1>2 DEF NextFromReserve, TypeOK, CallsOK, IssuedBelowCounter, NoCall, NewCall
(* A step that only replaces call[n] by a well-formed call and possibly    *)
(* raises the counter.                                                     *)
<1>a. ASSUME NEW n \in Nodes, NEW c \in CallRecord,
             call' = [call EXCEPT ![n] = c], Good(n, c),
             counter' \in 0..MaxSeq, counter <= counter',
             UNCHANGED <<last, max, issued>>
      PROVE  TypeOK' /\ CallsOK' /\ IssuedBelowCounter'
  <2>1. TypeOK'
    BY <1>a DEF TypeOK
  <2>2. IssuedBelowCounter'
    BY <1>a DEF TypeOK, IssuedBelowCounter
  <2>3. ASSUME NEW m \in Nodes
        PROVE  /\ Good(m, call'[m])
               /\ last'[m] <= max'[m]
               /\ max'[m] <= counter'
    <3>1. CASE m = n
      <4>1. call'[m] = c
        BY <1>a, <3>1 DEF TypeOK
      <4>2. last[m] <= max[m] /\ max[m] <= counter'
        BY <1>a DEF TypeOK, CallsOK
      <4>3. QED
        BY <1>a, <3>1, <4>1, <4>2
    <3>2. CASE m # n
      <4>1. call'[m] = call[m] /\ call[m] \in CallRecord
        BY <1>a, <3>2 DEF TypeOK
      <4>2. call[m].got \in 0..MaxSeq
        BY <4>1
      <4>3. call[m].answered => call[m].got <= counter'
        BY <1>a, <4>2 DEF TypeOK, CallsOK
      <4>4. last[m] <= max[m] /\ max[m] <= counter'
        BY <1>a DEF TypeOK, CallsOK
      <4>5. QED
        BY <1>a, <4>1, <4>3, <4>4 DEF CallsOK
    <3>3. QED
      BY <3>1, <3>2
  <2>4. CallsOK'
    BY <2>3 DEF CallsOK
  <2>5. QED
    BY <2>1, <2>2, <2>4
<1>3. ASSUME NEW n \in Nodes, NextSequence(n)
      PROVE  TypeOK' /\ CallsOK' /\ IssuedBelowCounter'
  <2> DEFINE c == NewCall("next", 1)
  <2>1. c \in CallRecord
    BY DEF NewCall
  <2>2. last'[n] = max'[n]
    <3>1. last[n] <= max[n] /\ last[n] >= max[n]
      BY <1>3 DEF NextSequence, CallsOK
    <3>2. last[n] \in Nat /\ max[n] \in Nat
      BY DEF TypeOK
    <3>3. last' = last /\ max' = max
      BY <1>3 DEF NextSequence
    <3>4. QED
      BY <3>1, <3>2, <3>3
  <2>3. Good(n, c)
    BY <2>2 DEF NewCall
  <2>4. call' = [call EXCEPT ![n] = c] /\ UNCHANGED <<counter, last, max, issued>>
    BY <1>3 DEF NextSequence, Begin
  <2>5. counter' \in 0..MaxSeq /\ counter <= counter'
    BY <2>4 DEF TypeOK
  <2> HIDE DEF c, Good
  <2>6. QED
    BY <1>a, <2>1, <2>3, <2>4, <2>5
<1>4. ASSUME NEW n \in Nodes, NEW num \in 1..MaxReserve, ReserveSequences(n, num)
      PROVE  TypeOK' /\ CallsOK' /\ IssuedBelowCounter'
  <2> DEFINE c == NewCall("reserve", num)
  <2>1. c \in CallRecord
    BY DEF NewCall
  <2>2. last'[n] = max'[n]
    <3>1. last[n] <= max[n] /\ last[n] >= max[n]
      BY <1>4 DEF ReserveSequences, CallsOK
    <3>2. last[n] \in Nat /\ max[n] \in Nat
      BY DEF TypeOK
    <3>3. last' = last /\ max' = max
      BY <1>4 DEF ReserveSequences
    <3>4. QED
      BY <3>1, <3>2, <3>3
  <2>3. Good(n, c)
    BY <2>2 DEF NewCall
  <2>4. call' = [call EXCEPT ![n] = c] /\ UNCHANGED <<counter, last, max, issued>>
    BY <1>4 DEF ReserveSequences, Begin
  <2>5. counter' \in 0..MaxSeq /\ counter <= counter'
    BY <2>4 DEF TypeOK
  <2> HIDE DEF c, Good
  <2>6. QED
    BY <1>a, <2>1, <2>3, <2>4, <2>5
<1>5. ASSUME NEW n \in Nodes, Restart(n)
      PROVE  TypeOK' /\ CallsOK' /\ IssuedBelowCounter'
  <2>1. TypeOK'
    BY <1>5 DEF Restart, TypeOK, NewCall
  <2>2. IssuedBelowCounter'
    BY <1>5 DEF Restart, TypeOK, IssuedBelowCounter
  <2>3. ASSUME NEW m \in Nodes, m # n
        PROVE  call'[m] = call[m] /\ last'[m] = last[m] /\ max'[m] = max[m]
    BY <1>5, <2>3 DEF Restart, TypeOK
  <2>4. /\ call'[n] = NewCall("restart", 0)
        /\ last'[n] = 0 /\ max'[n] = 0 /\ counter' = counter
    BY <1>5 DEF Restart, TypeOK
  <2>5. CallsOK'
    BY <2>3, <2>4 DEF CallsOK, NewCall, TypeOK
  <2>6. QED
    BY <2>1, <2>2, <2>5
<1>6. ASSUME NEW n \in Nodes, IncrApplied(n)
      PROVE  TypeOK' /\ CallsOK' /\ IssuedBelowCounter'
  <2> DEFINE c == [call[n] EXCEPT !.answered = TRUE, !.got = counter']
  <2>1. call' = [call EXCEPT ![n] = c]
    BY <1>6 DEF IncrApplied, TypeOK
  <2>2. counter' \in 0..MaxSeq /\ counter <= counter' /\ call[n].num <= counter'
    BY <1>6 DEF IncrApplied, TypeOK
  <2>3. c \in CallRecord
    BY ZenonT(30), <2>2 DEF TypeOK
  <2>4. /\ c.op = call[n].op /\ c.num = call[n].num
        /\ c.got = counter' /\ c.op # "none"
    BY <1>6 DEF IncrApplied, Waiting, TypeOK
  <2>5. Good(n, c)
    BY <1>6, <2>2, <2>4 DEF IncrApplied, TypeOK, CallsOK
  <2>6. QED
    BY <1>6, <1>a, <2>1, <2>2, <2>3, <2>5 DEF IncrApplied
<1>7. ASSUME NEW n \in Nodes, IncrError(n)
      PROVE  TypeOK' /\ CallsOK' /\ IssuedBelowCounter'
  <2> DEFINE c == IF call[n].retries + 1 < kMaxIncrRetries
                  THEN [call[n] EXCEPT !.retries = call[n].retries + 1]
                  ELSE IF call[n].op = "restart"
                       THEN [call[n] EXCEPT !.retries = 0]
                       ELSE NoCall
  <2>1. call' = [call EXCEPT ![n] = c]
    BY <1>7 DEF IncrError
  <2>2. counter' \in 0..MaxSeq /\ counter <= counter'
    BY <1>7 DEF IncrError, TypeOK
  <2>3. call[n] \in CallRecord
    BY DEF TypeOK
  <2>4. c \in CallRecord
    BY <2>3 DEF NoCall, NewCall
  <2>5. \/ c = NoCall
        \/ /\ c.op = call[n].op /\ c.num = call[n].num
           /\ ~c.answered /\ c.op # "none"
    BY <1>7, <2>3 DEF IncrError, Waiting
  <2>6. Good(n, c)
    <3>1. CASE c = NoCall
      BY <3>1 DEF NoCall, NewCall
    <3>2. CASE c # NoCall
      BY <1>7, <2>5, <3>2 DEF IncrError, CallsOK
    <3>3. QED
      BY <3>1, <3>2
  <2>7. QED
    BY ZenonT(30), <1>7, <1>a, <2>1, <2>2, <2>4, <2>6 DEF IncrError
<1>8. ASSUME NEW n \in Nodes, Complete(n)
      PROVE  TypeOK' /\ CallsOK' /\ IssuedBelowCounter'
  BY SMTT(30), <1>8 DEF Complete, TypeOK, CallsOK, IssuedBelowCounter, NoCall, NewCall
<1>9. QED
  BY <1>1, <1>2, <1>3, <1>4, <1>5, <1>6, <1>7, <1>8 DEF Next

(* No step puts a sequence in two hands.                                   *)
LEMMA HoldingsPreserved ==
    ASSUME IndInv, [Next]_vars
    PROVE  HoldingsDisjoint'
<1> USE AllocatorAssumption DEF Seqs
<1> DEFINE Free(n, s) == /\ s <= counter'
                         /\ \A m \in Nodes : s \notin issued'[m]
                         /\ \A m \in Nodes \ {n} : s \notin Holding(m)'
<1>s. SUFFICES ASSUME NEW a \in Nodes, NEW s \in Holding(a)'
               PROVE  Free(a, s)
  BY DEF HoldingsDisjoint
<1>t. TypeOK /\ CallsOK /\ IssuedBelowCounter /\ HoldingsDisjoint
  BY DEF IndInv
<1>u. s \in Seqs
  BY <1>s DEF Holding
<1>1. CASE UNCHANGED vars
  BY <1>1, <1>s, <1>t DEF vars, HoldingsDisjoint, Holding
(* The steps of n that leave the holdings of the other nodes alone, issue  *)
(* only what n held, and give n nothing new.                               *)
<1>a. ASSUME NEW n \in Nodes,
             counter <= counter', counter' \in Nat,
             \A m \in Nodes \ {n} : Holding(m)' = Holding(m) /\ issued'[m] = issued[m],
             Holding(n)' \subseteq Holding(n),
             issued'[n] \subseteq issued[n] \cup (Holding(n) \ Holding(n)')
      PROVE  Free(a, s)
  <2>1. s \in Holding(a)
    BY <1>a, <1>s
  <2>2. s <= counter
    BY <1>t, <2>1 DEF HoldingsDisjoint
  <2>3. s <= counter'
    BY <1>a, <1>t, <1>u, <2>2 DEF TypeOK
  <2>4. ASSUME NEW m \in Nodes PROVE s \notin issued'[m]
    BY <1>a, <1>s, <1>t, <2>1 DEF HoldingsDisjoint
  <2>5. ASSUME NEW m \in Nodes \ {a} PROVE s \notin Holding(m)'
    BY <1>a, <1>t, <2>1 DEF HoldingsDisjoint
  <2>6. QED
    BY <2>3, <2>4, <2>5
<1>2. ASSUME NEW n \in Nodes, NextFromReserve(n) PROVE Free(a, s)
  <2>1. \A m \in Nodes \ {n} : Holding(m)' = Holding(m) /\ issued'[m] = issued[m]
    BY <1>2, <1>t DEF NextFromReserve, Holding, TypeOK
  <2>2. ~call[n].answered /\ call' = call
    BY <1>2 DEF NextFromReserve, NoCall, NewCall
  <2>3. last'[n] = last[n] + 1 /\ max' = max /\ last[n] \in Nat /\ max[n] \in 0..MaxSeq
    BY <1>2, <1>t DEF NextFromReserve, TypeOK
  <2>4. Holding(n)' \subseteq Holding(n)
    BY <2>2, <2>3 DEF Holding
  <2>5. last[n] + 1 \in Holding(n) /\ last[n] + 1 \notin Holding(n)'
    BY <1>2, <2>2, <2>3 DEF Holding, NextFromReserve
  <2>6. issued'[n] = issued[n] \cup {last[n] + 1}
    BY <1>2, <1>t DEF NextFromReserve, TypeOK
  <2>7. counter' = counter /\ counter \in Nat
    BY <1>2, <1>t DEF NextFromReserve, TypeOK
  <2>8. QED
    BY <1>a, <2>1, <2>4, <2>5, <2>6, <2>7
<1>3. ASSUME NEW n \in Nodes,
             NextSequence(n) \/ \E num \in 1..MaxReserve : ReserveSequences(n, num)
      PROVE  Free(a, s)
  <2>1. /\ UNCHANGED <<counter, last, max, issued>> /\ last[n] >= max[n]
    BY <1>3 DEF NextSequence, ReserveSequences
  <2>c. PICK kind, num : call' = [call EXCEPT ![n] = NewCall(kind, num)]
    BY <1>3 DEF NextSequence, ReserveSequences, Begin
  <2>2. ~call'[n].answered
    BY <2>c, <1>t DEF TypeOK, NewCall
  <2>3. \A m \in Nodes \ {n} : Holding(m)' = Holding(m) /\ issued'[m] = issued[m]
    BY <2>1, <2>c, <1>t DEF Holding, TypeOK
  <2>4. Holding(n)' = {}
    BY <2>1, <2>2, <1>t DEF Holding, TypeOK
  <2>5. counter' = counter /\ counter \in Nat
    BY <2>1, <1>t DEF TypeOK
  <2>6. QED
    BY <1>a, <2>1, <2>3, <2>4, <2>5
<1>4. ASSUME NEW n \in Nodes, Restart(n) PROVE Free(a, s)
  <2>1. \A m \in Nodes \ {n} : Holding(m)' = Holding(m) /\ issued'[m] = issued[m]
    BY <1>4, <1>t DEF Restart, Holding, TypeOK
  <2>2. last'[n] = 0 /\ max'[n] = 0 /\ call'[n] = NewCall("restart", 0)
    BY <1>4, <1>t DEF Restart, TypeOK
  <2>3. Holding(n)' = {}
    BY <2>2 DEF Holding, NewCall
  <2>4. counter' = counter /\ counter \in Nat /\ issued' = issued
    BY <1>4, <1>t DEF Restart, TypeOK
  <2>5. QED
    BY <1>a, <2>1, <2>3, <2>4
<1>5. ASSUME NEW n \in Nodes, IncrApplied(n) PROVE Free(a, s)
  <2>1. /\ \A m \in Nodes \ {n} : Holding(m)' = Holding(m)
        /\ issued' = issued
    BY <1>5, <1>t DEF IncrApplied, Holding, TypeOK
  <2>2. counter' = counter + call[n].num /\ counter \in Nat /\ call[n].num \in Nat
    BY <1>5, <1>t DEF IncrApplied, TypeOK
  <2>3. call'[n].got = counter' /\ call'[n].num = call[n].num
    BY <1>5, <1>t DEF IncrApplied, TypeOK
  <2>4. last'[n] = max'[n] /\ last'[n] \in Nat
    BY <1>5, <1>t DEF IncrApplied, Waiting, TypeOK, CallsOK
  <2>5. \A x \in Holding(n)' : x > counter /\ x <= counter'
    BY <2>2, <2>3, <2>4 DEF Holding
  <2>6. \A m \in Nodes : \A x \in Holding(m) : x <= counter
    BY <1>t DEF HoldingsDisjoint
  <2>7. \A m \in Nodes : \A x \in issued[m] : x <= counter
    BY <1>t DEF IssuedBelowCounter
  <2>8. CASE a = n
    <3>1. s > counter /\ s <= counter'
      BY <1>s, <2>5, <2>8
    <3>2. \A m \in Nodes : s \notin issued'[m]
      BY <1>u, <2>1, <2>2, <2>7, <3>1
    <3>3. \A m \in Nodes \ {a} : s \notin Holding(m)'
      BY <1>u, <2>1, <2>2, <2>6, <2>8, <3>1
    <3>4. QED
      BY <3>1, <3>2, <3>3
  <2>9. CASE a # n
    <3>1. s \in Holding(a)
      BY <1>s, <2>1, <2>9
    <3>2. s <= counter /\ s <= counter'
      BY <1>u, <2>2, <2>6, <3>1
    <3>3. \A m \in Nodes : s \notin issued'[m]
      BY <1>t, <2>1, <3>1 DEF HoldingsDisjoint
    <3>4. \A m \in Nodes \ {a} : s \notin Holding(m)'
      <4>1. TAKE m \in Nodes \ {a}
      <4>2. CASE m = n
        BY <1>u, <2>2, <2>5, <3>2, <4>2
      <4>3. CASE m # n
        BY <1>t, <2>1, <3>1, <4>3 DEF HoldingsDisjoint
      <4>4. QED
        BY <4>2, <4>3
    <3>5. QED
      BY <3>2, <3>3, <3>4
  <2>10. QED
    BY <2>8, <2>9
<1>6. ASSUME NEW n \in Nodes, IncrError(n) PROVE Free(a, s)
  <2>1. \A m \in Nodes \ {n} : Holding(m)' = Holding(m)
    BY <1>6, <1>t DEF IncrError, Holding, TypeOK
  <2>2. last' = last /\ max' = max /\ issued' = issued
    BY <1>6 DEF IncrError
  <2>3. ~call'[n].answered
    BY <1>6, <1>t DEF IncrError, Waiting, TypeOK, NoCall, NewCall
  <2>4. Holding(n)' \subseteq Holding(n)
    BY <2>2, <2>3 DEF Holding
  <2>5. counter <= counter' /\ counter' \in Nat
    BY <1>6, <1>t DEF IncrError, TypeOK
  <2>6. QED
    BY <1>a, <2>1, <2>2, <2>4, <2>5
<1>7. ASSUME NEW n \in Nodes, Complete(n) PROVE Free(a, s)
  <2>1. \A m \in Nodes \ {n} : Holding(m)' = Holding(m) /\ issued'[m] = issued[m]
    BY <1>7, <1>t DEF Complete, Holding, TypeOK
  <2>2. /\ call[n].answered /\ call'[n] = NoCall
        /\ max'[n] = call[n].got /\ call[n].got \in 0..MaxSeq /\ call[n].num \in Nat
        /\ call[n].num <= call[n].got
    BY <1>7, <1>t DEF Complete, TypeOK, CallsOK
  <2>3. ~call'[n].answered
    BY <2>2 DEF NoCall, NewCall
  <2>4. counter' = counter /\ counter \in Nat
    BY <1>7, <1>t DEF Complete, TypeOK
  <2>5. CASE call[n].op = "next"
    <3>1. /\ last'[n] = call[n].got /\ call[n].num = 1
          /\ issued'[n] = issued[n] \cup {call[n].got}
      BY <1>7, <1>t, <2>2, <2>5 DEF Complete, TypeOK, CallsOK
    <3>2. Holding(n)' = {}
      BY <2>2, <2>3, <3>1 DEF Holding
    <3>3. call[n].got \in Holding(n)
      BY <2>2, <3>1 DEF Holding
    <3>4. QED
      BY <1>a, <2>1, <2>4, <3>1, <3>2, <3>3
  <2>6. CASE call[n].op # "next"
    <3>1. last'[n] = call[n].got - call[n].num /\ issued' = issued
      BY <1>7, <1>t, <2>6 DEF Complete, TypeOK
    <3>2. Holding(n)' \subseteq Holding(n)
      BY <2>2, <2>3, <3>1 DEF Holding
    <3>3. QED
      BY <1>a, <2>1, <2>4, <3>1, <3>2
  <2>7. QED
    BY <2>5, <2>6
<1>8. QED
  BY <1>1, <1>2, <1>3, <1>4, <1>5, <1>6, <1>7 DEF Next

----------------------------------------------------------------------------
(* The inductive invariant holds in every reachable state.                 *)
THEOREM AllocatorInductive == Spec => []IndInv
<1>1. Init => IndInv
  BY AllocatorAssumption
     DEF Init, IndInv, TypeOK, CallsOK, IssuedBelowCounter, HoldingsDisjoint,
         Holding, NoCall, NewCall, Seqs
<1>2. IndInv /\ [Next]_vars => IndInv'
  BY ShapePreserved, HoldingsPreserved DEF IndInv
<1>3. QED
  BY <1>1, <1>2, PTL DEF Spec

(* What the allocators of any number of nodes hold is never shared and     *)
(* never reissued, whichever Incr answers are lost and whenever a node is  *)
(* restarted.                                                              *)
THEOREM HoldingsAreDisjoint == Spec => []HoldingsDisjoint
<1>1. IndInv => HoldingsDisjoint
  BY DEF IndInv
<1>2. QED
  BY <1>1, AllocatorInductive, PTL

(* nextSequence never returns the same number twice, on any nodes.         *)
THEOREM SequencesUnique == Spec => NoDuplicateSequence
<1>1. IndInv /\ [Next]_vars => [\A n \in Nodes : Issues(n) =>
            \A m \in Nodes : last'[n] \notin issued[m]]_vars
  <2>1. SUFFICES ASSUME IndInv, NEW n \in Nodes, Issues(n)
                 PROVE  \A m \in Nodes : last'[n] \notin issued[m]
    OBVIOUS
  <2>2. last'[n] \in Holding(n)
    <3>1. CASE NextFromReserve(n)
      BY <2>1, <3>1, AllocatorAssumption DEF NextFromReserve, IndInv, TypeOK, Holding, Seqs
    <3>2. CASE Complete(n) /\ call[n].op = "next"
      <4>1. /\ call[n].answered /\ call[n].num = 1
            /\ call[n].got \in 0..MaxSeq /\ call[n].num <= call[n].got
        BY <2>1, <3>2 DEF Complete, IndInv, TypeOK, CallsOK
      <4>2. last'[n] = call[n].got
        BY <2>1, <3>2, <4>1, AllocatorAssumption DEF Complete, IndInv, TypeOK
      <4>3. QED
        BY <4>1, <4>2, AllocatorAssumption DEF Holding, Seqs
    <3>3. QED
      BY <2>1, <3>1, <3>2 DEF Issues
  <2>3. QED
    BY <2>1, <2>2 DEF IndInv, HoldingsDisjoint
<1>2. QED
  BY <1>1, AllocatorInductive, PTL DEF Spec, NoDuplicateSequence

----------------------------------------------------------------------------
(* The replication manager.                                                *)

(* An entry of the map is a replication of that ID that nobody has removed *)
(* yet: removal by ID never leaves the entry of the removed one behind.    *)
EntriesOwnTheirId ==
    \A i \in Ids : replications[i] # NoRun =>
        /\ run[replications[i]].pc \in {"running", "ended"}
        /\ run[replications[i]].id = i

(* A start that has not reached the lock has its statistics, or lost them  *)
(* to a stop.                                                              *)
StartingHasStats ==
    \A n \in Runs : run[n].pc = "starting" => run[n].id \in stats \/ n \in raced

ReplicatorInd == ReplicationsTracked /\ EntriesOwnTheirId /\ StartingHasStats

(* Runs that are not "none" are records with an ID and parameters.         *)
LEMMA RunShape ==
    ASSUME ReplicatorTypeOK, NEW n \in Runs, run[n].pc # "none"
    PROVE  /\ run[n] \in RunRecord
           /\ run[n].id \in Ids
           /\ \A pc \in {"starting", "running", "ended", "gone"} :
                  /\ [run[n] EXCEPT !.pc = pc] \in RunRecord
                  /\ [run[n] EXCEPT !.pc = pc].pc = pc
                  /\ [run[n] EXCEPT !.pc = pc].id = run[n].id
                  /\ [run[n] EXCEPT !.pc = pc].parameters = run[n].parameters
<1>1. run[n] \in RunRecord
  BY DEF ReplicatorTypeOK, NotYet
<1>2. QED
  BY <1>1 DEF RunRecord

(* Every operation of the replication manager preserves the invariant.     *)
LEMMA ReplicatorStep ==
    ASSUME ReplicatorInd, [ReplicatorNext]_replicatorVars
    PROVE  ReplicatorInd'
<1> USE DEF ReplicatorInd, ReplicationsTracked
<1>type. ReplicatorTypeOK
  OBVIOUS
<1>zero. NoRun \notin Runs
  BY ReplicatorAssumption DEF Runs, NoRun
<1>1. CASE UNCHANGED replicatorVars
  BY <1>1 DEF replicatorVars, ReplicatorTypeOK, RunningIsTracked, NoDuplicates,
     StatsOfTracked, EntriesOwnTheirId, StartingHasStats, Tracked
<1>2. ASSUME NEW n \in Runs, NEW id \in Ids, NEW p \in Parameters,
             StartReplication(n, id, p)
      PROVE  ReplicatorInd'
  <2> DEFINE r == [pc |-> "starting", id |-> id, parameters |-> p]
  <2>1. /\ run' = [run EXCEPT ![n] = r] /\ run[n].pc = "none"
        /\ stats' = stats \cup {id}
        /\ UNCHANGED <<replications, orphaned, raced>>
    BY <1>2 DEF StartReplication, NotYet
  <2>2. r \in RunRecord /\ r.pc = "starting" /\ r.id = id
    BY DEF RunRecord
  <2> HIDE DEF r
  <2>3. /\ run'[n] = r
        /\ \A m \in Runs : m # n => run'[m] = run[m]
    BY <2>1 DEF ReplicatorTypeOK
  <2>4. ReplicatorTypeOK'
    BY <2>1, <2>2 DEF ReplicatorTypeOK
  <2>5. RunningIsTracked' /\ NoDuplicates'
    BY <2>1, <2>2, <2>3 DEF RunningIsTracked, NoDuplicates, Tracked
  <2>6. StatsOfTracked'
    BY <2>1 DEF StatsOfTracked
  <2>7. EntriesOwnTheirId'
    BY <2>1, <2>3 DEF EntriesOwnTheirId, ReplicatorTypeOK
  <2>8. StartingHasStats'
    BY <2>1, <2>2, <2>3 DEF StartingHasStats
  <2>9. QED
    BY <2>4, <2>5, <2>6, <2>7, <2>8
<1>3. ASSUME NEW n \in Runs, RunReplication(n)
      PROVE  ReplicatorInd'
  <2>0. run[n].pc = "starting" /\ UNCHANGED <<stats, orphaned, raced>>
    BY <1>3 DEF RunReplication
  <2>1. CASE Matches(run[n].id, run[n].parameters) # {}
    <3> DEFINE r == [run[n] EXCEPT !.pc = "gone"]
    <3>1. run' = [run EXCEPT ![n] = r] /\ UNCHANGED replications
      BY <1>3, <2>1 DEF RunReplication
    <3>2. r \in RunRecord /\ r.pc = "gone"
      BY <2>0, RunShape
    <3> HIDE DEF r
    <3>3. /\ run'[n] = r
          /\ \A m \in Runs : m # n => run'[m] = run[m]
      BY <3>1 DEF ReplicatorTypeOK
    <3>4. ReplicatorTypeOK'
      BY <2>0, <3>1, <3>2 DEF ReplicatorTypeOK
    <3>5. RunningIsTracked' /\ NoDuplicates'
      BY <2>0, <3>1, <3>2, <3>3 DEF RunningIsTracked, NoDuplicates, Tracked
    <3>6. StatsOfTracked' /\ StartingHasStats'
      BY <2>0, <3>1, <3>2, <3>3 DEF StatsOfTracked, StartingHasStats
    <3>7. EntriesOwnTheirId'
      BY <2>0, <3>1, <3>3 DEF EntriesOwnTheirId, ReplicatorTypeOK
    <3>8. QED
      BY <3>4, <3>5, <3>6, <3>7
  <2>2. CASE Matches(run[n].id, run[n].parameters) = {}
    <3> DEFINE r == [run[n] EXCEPT !.pc = "running"]
               id == run[n].id
    <3>1. run' = [run EXCEPT ![n] = r]
          /\ replications' = [replications EXCEPT ![id] = n]
      BY <1>3, <2>2 DEF RunReplication
    <3>2. /\ r \in RunRecord /\ r.pc = "running" /\ id \in Ids
          /\ r.id = id /\ r.parameters = run[n].parameters
      BY <2>0, RunShape
    <3> HIDE DEF r
    <3>3. /\ run'[n] = r
          /\ \A m \in Runs : m # n => run'[m] = run[m]
      BY <3>1 DEF ReplicatorTypeOK
    <3>4. /\ replications'[id] = n
          /\ \A i \in Ids : i # id => replications'[i] = replications[i]
      BY <3>1, <3>2 DEF ReplicatorTypeOK
    <3>5. \A m \in Runs : Tracked(m) => run[m].id # id
                                        /\ run[m].parameters # r.parameters
      BY <2>2, <3>2 DEF Matches
    <3>6. \A m \in Runs : Tracked(m) => Tracked(m)'
      (* The entry of the ID was free: its owner would have matched.       *)
      <4>1. replications[id] = NoRun
        BY <3>2, <3>5 DEF EntriesOwnTheirId, Tracked, ReplicatorTypeOK
      <4>2. QED
        BY <1>zero, <3>2, <3>4, <4>1 DEF Tracked
    <3>7. Tracked(n)'
      BY <3>2, <3>4 DEF Tracked
    <3>8. ReplicatorTypeOK'
      BY <2>0, <3>1, <3>2 DEF ReplicatorTypeOK
    <3>9. RunningIsTracked'
      BY <2>0, <3>3, <3>6, <3>7 DEF RunningIsTracked
    <3>10. NoDuplicates'
      <4>1. \A m \in Runs : m # n /\ run[m].pc = "running" =>
                \/ m \in orphaned
                \/ run[m].id # id /\ run[m].parameters # r.parameters
        BY <3>5 DEF RunningIsTracked
      <4>2. \A m, k \in Runs : m # k /\ run'[m].pc = "running" /\ run'[k].pc = "running"
                => \/ run'[m].id # run'[k].id /\ run'[m].parameters # run'[k].parameters
                   \/ {m, k} \cap orphaned # {}
        BY <3>2, <3>3, <4>1 DEF NoDuplicates
      <4>3. QED
        BY <2>0, <4>2 DEF NoDuplicates
    <3>11. StatsOfTracked'
      BY <2>0, <3>2, <3>4 DEF StatsOfTracked, StartingHasStats
    <3>12. EntriesOwnTheirId'
      <4>1. \A i \in Ids : i # id /\ replications[i] # NoRun => replications[i] # n
        BY <2>0 DEF EntriesOwnTheirId
      <4>2. QED
        BY <3>2, <3>3, <3>4, <4>1 DEF EntriesOwnTheirId, ReplicatorTypeOK
    <3>13. StartingHasStats'
      BY <2>0, <3>2, <3>3 DEF StartingHasStats
    <3>14. QED
      BY <3>8, <3>9, <3>10, <3>11, <3>12, <3>13
  <2>3. QED
    BY <2>1, <2>2
<1>4. ASSUME NEW n \in Runs, Ends(n)
      PROVE  ReplicatorInd'
  <2> DEFINE r == [run[n] EXCEPT !.pc = "ended"]
  <2>1. /\ run' = [run EXCEPT ![n] = r] /\ run[n].pc = "running"
        /\ UNCHANGED <<replications, stats, orphaned, raced>>
    BY <1>4 DEF Ends
  <2>2. r \in RunRecord /\ r.pc = "ended" /\ r.id = run[n].id
    BY <2>1, RunShape
  <2> HIDE DEF r
  <2>3. /\ run'[n] = r
        /\ \A m \in Runs : m # n => run'[m] = run[m]
    BY <2>1 DEF ReplicatorTypeOK
  <2>4. ReplicatorTypeOK'
    BY <2>1, <2>2 DEF ReplicatorTypeOK
  <2>5. RunningIsTracked' /\ NoDuplicates'
    BY <2>1, <2>2, <2>3 DEF RunningIsTracked, NoDuplicates, Tracked
  <2>6. StatsOfTracked' /\ StartingHasStats'
    BY <2>1, <2>2, <2>3 DEF StatsOfTracked, StartingHasStats
  <2>7. EntriesOwnTheirId'
    BY <2>1, <2>2, <2>3 DEF EntriesOwnTheirId, ReplicatorTypeOK
  <2>8. QED
    BY <2>4, <2>5, <2>6, <2>7
<1>5. ASSUME NEW n \in Runs, RemoveReplication(n)
      PROVE  ReplicatorInd'
  <2> DEFINE r == [run[n] EXCEPT !.pc = "gone"]
             id == run[n].id
  <2>1. /\ run' = [run EXCEPT ![n] = r] /\ run[n].pc = "ended"
        /\ replications' = [replications EXCEPT ![id] = NoRun]
        /\ orphaned' = orphaned \cup ({replications[id]} \ {n, NoRun})
        /\ UNCHANGED <<stats, raced>>
    BY <1>5 DEF RemoveReplication
  <2>2. r \in RunRecord /\ r.pc = "gone" /\ id \in Ids
    BY <2>1, RunShape
  <2> HIDE DEF r
  <2>3. /\ run'[n] = r
        /\ \A m \in Runs : m # n => run'[m] = run[m]
    BY <2>1 DEF ReplicatorTypeOK
  <2>4. /\ replications'[id] = NoRun
        /\ \A i \in Ids : i # id => replications'[i] = replications[i]
    BY <2>1, <2>2 DEF ReplicatorTypeOK
  <2>5. ReplicatorTypeOK'
    BY <2>1, <2>2 DEF ReplicatorTypeOK
  <2>6. \A m \in Runs : Tracked(m) /\ m # n => Tracked(m)' \/ m \in orphaned'
    BY <1>zero, <2>1, <2>4 DEF Tracked
  <2>7. RunningIsTracked'
    BY <2>1, <2>2, <2>3, <2>6 DEF RunningIsTracked
  <2>8. NoDuplicates'
    BY <2>1, <2>2, <2>3 DEF NoDuplicates
  <2>9. StatsOfTracked' /\ StartingHasStats'
    BY <2>1, <2>2, <2>3, <2>4 DEF StatsOfTracked, StartingHasStats
  <2>10. EntriesOwnTheirId'
    BY <2>1, <2>2, <2>3, <2>4 DEF EntriesOwnTheirId, ReplicatorTypeOK
  <2>11. QED
    BY <2>5, <2>7, <2>8, <2>9, <2>10
<1>6. ASSUME NEW n \in Runs, StopReplication(n)
      PROVE  ReplicatorInd'
  <2> DEFINE r == [run[n] EXCEPT !.pc = "ended"]
             id == run[n].id
  <2>1. /\ run' = [run EXCEPT ![n] = r] /\ run[n].pc = "running"
        /\ replications' = [replications EXCEPT ![id] = NoRun]
        /\ stats' = stats \ {id}
        /\ raced' = raced \cup {m \in Runs : run[m].pc = "starting" /\ run[m].id = id}
        /\ UNCHANGED orphaned
        /\ Tracked(n)
    BY <1>6 DEF StopReplication
  <2>2. r \in RunRecord /\ r.pc = "ended" /\ r.id = id /\ id \in Ids
    BY <2>1, RunShape
  <2> HIDE DEF r
  <2>3. /\ run'[n] = r
        /\ \A m \in Runs : m # n => run'[m] = run[m]
    BY <2>1 DEF ReplicatorTypeOK
  <2>4. /\ replications'[id] = NoRun
        /\ \A i \in Ids : i # id => replications'[i] = replications[i]
    BY <2>1, <2>2 DEF ReplicatorTypeOK
  <2>5. replications[id] = n
    BY <1>zero, <2>1 DEF Tracked, EntriesOwnTheirId
  <2>6. ReplicatorTypeOK'
    BY <2>1, <2>2 DEF ReplicatorTypeOK
  <2>7. \A m \in Runs : Tracked(m) /\ m # n => Tracked(m)'
    BY <2>4, <2>5 DEF Tracked
  <2>8. RunningIsTracked'
    BY <2>1, <2>2, <2>3, <2>7 DEF RunningIsTracked
  <2>9. NoDuplicates'
    BY <2>1, <2>2, <2>3 DEF NoDuplicates
  <2>10. StatsOfTracked' /\ StartingHasStats'
    BY <2>1, <2>2, <2>3, <2>4 DEF StatsOfTracked, StartingHasStats
  <2>11. EntriesOwnTheirId'
    BY <2>1, <2>2, <2>3, <2>4 DEF EntriesOwnTheirId, ReplicatorTypeOK
  <2>12. QED
    BY <2>6, <2>8, <2>9, <2>10, <2>11
<1>7. ASSUME StopReplications
      PROVE  ReplicatorInd'
  <2>1. /\ replications' = [i \in Ids |-> NoRun]
        /\ UNCHANGED <<stats, orphaned, raced>>
    BY <1>7 DEF StopReplications
  <2>2. \A n \in Runs : run'[n] = IF Tracked(n) /\ run[n].pc = "running"
                                  THEN [run[n] EXCEPT !.pc = "ended"] ELSE run[n]
    BY <1>7 DEF StopReplications
  <2>3. \A n \in Runs :
            \/ run'[n] = run[n] /\ ~(Tracked(n) /\ run[n].pc = "running")
            \/ run'[n] \in RunRecord /\ run'[n].pc = "ended"
    BY ZenonT(30), <2>2, RunShape
  <2>4. ReplicatorTypeOK'
    <3>1. DOMAIN run' = Runs /\ run' = [n \in Runs |-> run'[n]]
      BY <1>7 DEF StopReplications
    <3>2. \A n \in Runs : run'[n] \in RunRecord \cup {NotYet}
      BY <2>3 DEF ReplicatorTypeOK
    <3>3. QED
      BY <2>1, <3>1, <3>2 DEF ReplicatorTypeOK
  <2>5. RunningIsTracked'
    BY <2>1, <2>3 DEF RunningIsTracked
  <2>6. NoDuplicates'
    <3>1. \A n \in Runs : run'[n].pc = "running" => run'[n] = run[n]
      BY <2>3
    <3>2. QED
      BY <2>1, <3>1 DEF NoDuplicates
  <2>7. StatsOfTracked' /\ EntriesOwnTheirId'
    BY <2>1 DEF StatsOfTracked, EntriesOwnTheirId
  <2>8. StartingHasStats'
    BY <2>1, <2>3 DEF StartingHasStats
  <2>9. QED
    BY <2>4, <2>5, <2>6, <2>7, <2>8
<1>8. QED
  BY <1>1, <1>2, <1>3, <1>4, <1>5, <1>6, <1>7 DEF ReplicatorNext

(* However many replications are started, refused, stopped and removed at  *)
(* once (startReplication, stopReplication, removeReplication), a running  *)
(* one is in the map and without a duplicate, unless an older watcher      *)
(* removed its entry by ID, and has its statistics, unless a stop raced    *)
(* with its start.                                                         *)
THEOREM ReplicationsAreTracked == ReplicatorSpec => []ReplicationsTracked
<1>1. ReplicatorInit => ReplicatorInd
  <2> SUFFICES ASSUME ReplicatorInit PROVE ReplicatorInd
    OBVIOUS
  <2>1. /\ \A n \in Runs : run[n] = NotYet
        /\ \A i \in Ids : replications[i] = NoRun
    BY DEF ReplicatorInit
  <2>2. ReplicatorTypeOK
    BY DEF ReplicatorInit, ReplicatorTypeOK
  <2>3. RunningIsTracked /\ NoDuplicates /\ StartingHasStats
    BY <2>1 DEF RunningIsTracked, NoDuplicates, StartingHasStats, NotYet
  <2>4. StatsOfTracked /\ EntriesOwnTheirId
    BY <2>1 DEF StatsOfTracked, EntriesOwnTheirId
  <2>5. QED
    BY <2>2, <2>3, <2>4 DEF ReplicatorInd, ReplicationsTracked
<1>2. ReplicatorInd /\ [ReplicatorNext]_replicatorVars => ReplicatorInd'
  BY ReplicatorStep
<1>3. ReplicatorInd => ReplicationsTracked
  BY DEF ReplicatorInd
<1>4. QED
  BY <1>1, <1>2, <1>3, PTL DEF ReplicatorSpec

----------------------------------------------------------------------------
(* The event manager.                                                      *)

(* No event is queued twice.                                               *)
QueuedOnce ==
    \A i, j \in 1..Len(asyncEventChannel) :
        asyncEventChannel[i] = asyncEventChannel[j] => i = j

EventsInd == NothingLost /\ QueuedOnce

(* What NothingLost says of one event, with its places told apart.         *)
InOnePlace(raised, queued, held, processed) ==
    /\ ~raised => ~queued /\ ~held /\ ~processed
    /\ raised => \/ queued /\ ~held /\ ~processed
                 \/ ~queued /\ held /\ ~processed
                 \/ ~queued /\ ~held /\ processed

EventPlace(e) == InOnePlace(raiser[e] = "accepted", e \in Range(asyncEventChannel),
                            worker = e, processing[e] # "no")

(* The property without its sum: every event is in exactly one of the      *)
(* places that count.                                                      *)
LEMMA NothingLostByPlace ==
    NothingLost <=> /\ EventsTypeOK
                    /\ Cardinality(Active) <= maxProcesses
                    /\ Len(asyncEventChannel) <= 3 * maxProcesses
                    /\ \A e \in Events : EventPlace(e)
<1> DEFINE Places(e) == (IF raiser[e] # "accepted" THEN 1 ELSE 0)
                        + (IF e \in Range(asyncEventChannel) THEN 1 ELSE 0)
                        + (IF worker = e THEN 1 ELSE 0)
                        + (IF processing[e] # "no" THEN 1 ELSE 0)
<1>1. \A e \in Events : Places(e) = 1 <=> EventPlace(e)
  BY DEF EventPlace, InOnePlace
<1>2. QED
  BY <1>1 DEF NothingLost

(* The events of a queue after an append and after the removal of its      *)
(* head.                                                                   *)
LEMMA QueueAppend ==
    ASSUME NEW S, NEW q \in Seq(S), NEW e \in S, e \notin Range(q),
           \A i, j \in 1..Len(q) : q[i] = q[j] => i = j
    PROVE  /\ Range(Append(q, e)) = Range(q) \cup {e}
           /\ \A i, j \in 1..Len(Append(q, e)) :
                  Append(q, e)[i] = Append(q, e)[j] => i = j
<1>1. /\ DOMAIN q = 1..Len(q) /\ Len(Append(q, e)) = Len(q) + 1
      /\ DOMAIN Append(q, e) = 1..Len(q) + 1 /\ Len(q) \in Nat
  OBVIOUS
<1>2. /\ Append(q, e)[Len(q) + 1] = e
      /\ \A i \in 1..Len(q) : Append(q, e)[i] = q[i]
  OBVIOUS
<1>3. \A i \in 1..Len(q) + 1 : i \in 1..Len(q) \/ i = Len(q) + 1
  BY <1>1
<1>4. \A i \in 1..Len(q) : q[i] # e
  BY <1>1 DEF Range
<1> QED
  BY <1>1, <1>2, <1>3, <1>4 DEF Range

(* Taking the head of a queue without duplicates removes exactly that      *)
(* event.                                                                  *)
LEMMA QueueTail ==
    ASSUME NEW S, NEW q \in Seq(S), q # <<>>,
           \A i, j \in 1..Len(q) : q[i] = q[j] => i = j
    PROVE  /\ Range(Tail(q)) = Range(q) \ {Head(q)}
           /\ Head(q) \in Range(q)
           /\ \A i, j \in 1..Len(Tail(q)) : Tail(q)[i] = Tail(q)[j] => i = j
<1>1. /\ DOMAIN q = 1..Len(q) /\ Len(q) \in Nat \ {0} /\ Len(Tail(q)) = Len(q) - 1
      /\ DOMAIN Tail(q) = 1..Len(q) - 1
  OBVIOUS
<1>2. /\ Head(q) = q[1]
      /\ \A i \in 1..Len(q) - 1 : Tail(q)[i] = q[i + 1]
  OBVIOUS
<1>3. \A i \in 1..Len(q) : i = 1 \/ \E j \in 1..Len(q) - 1 : i = j + 1
  <2> TAKE i \in 1..Len(q)
  <2>1. i # 1 => i - 1 \in 1..Len(q) - 1 /\ i = (i - 1) + 1
    BY <1>1
  <2> QED
    BY <2>1
<1>4. \A j \in 1..Len(q) - 1 : j + 1 \in 1..Len(q) /\ j + 1 # 1
  BY <1>1
<1>5. 1 \in 1..Len(q)
  BY <1>1
<1>6. \A i, j \in 1..Len(q) - 1 : i + 1 = j + 1 => i = j
  OBVIOUS
<1>7. Range(Tail(q)) = Range(q) \ {Head(q)}
  <2>1. ASSUME NEW x \in Range(Tail(q))
        PROVE  x \in Range(q) /\ x # Head(q)
    <3>1. PICK j \in 1..Len(q) - 1 : x = Tail(q)[j]
      BY <1>1, <2>1 DEF Range
    <3>2. x = q[j + 1] /\ j + 1 \in 1..Len(q) /\ j + 1 # 1
      BY <1>2, <1>4, <3>1
    <3> QED
      BY <1>1, <1>2, <1>5, <3>2 DEF Range
  <2>2. ASSUME NEW x \in Range(q), x # Head(q)
        PROVE  x \in Range(Tail(q))
    <3>1. PICK i \in 1..Len(q) : x = q[i]
      BY <1>1, <2>2 DEF Range
    <3>2. PICK j \in 1..Len(q) - 1 : i = j + 1
      BY <1>2, <1>3, <2>2, <3>1
    <3> QED
      BY <1>1, <1>2, <3>1, <3>2 DEF Range
  <2> QED
    BY <2>1, <2>2
<1>8. \A i, j \in 1..Len(Tail(q)) : Tail(q)[i] = Tail(q)[j] => i = j
  BY <1>1, <1>2, <1>4, <1>6
<1>9. Head(q) \in Range(q)
  BY <1>1, <1>2, <1>5 DEF Range
<1> QED
  BY <1>7, <1>8, <1>9

(* Every step of the event manager preserves the invariant.                *)
LEMMA EventsStep ==
    ASSUME EventsInd, [EventsNext]_eventVars
    PROVE  EventsInd'
<1>type. EventsTypeOK /\ Len(asyncEventChannel) \in Nat
  BY DEF EventsInd, NothingLost, EventsTypeOK
<1>old. /\ Cardinality(Active) <= maxProcesses
        /\ Len(asyncEventChannel) <= 3 * maxProcesses
        /\ QueuedOnce
        /\ \A e \in Events : EventPlace(e)
  BY NothingLostByPlace DEF EventsInd
<1>const. /\ MaxEvents \in Nat /\ maxProcesses \in Nat
          /\ NoEvent \notin Events
  BY EventManagerAssumption DEF NoEvent, Events
<1>new. ASSUME EventsTypeOK', Cardinality(Active') <= maxProcesses,
               Len(asyncEventChannel') <= 3 * maxProcesses,
               \A e \in Events : EventPlace(e)', QueuedOnce'
        PROVE  EventsInd'
  <2> DEFINE Places(e) == (IF raiser[e] # "accepted" THEN 1 ELSE 0)
                          + (IF e \in Range(asyncEventChannel) THEN 1 ELSE 0)
                          + (IF worker = e THEN 1 ELSE 0)
                          + (IF processing[e] # "no" THEN 1 ELSE 0)
  <2>1. \A e \in Events : Places(e)' = 1 <=> EventPlace(e)'
    BY DEF EventPlace, InOnePlace
  <2> QED
    BY <1>new, <2>1 DEF EventsInd, NothingLost
<1>finite. IsFiniteSet(Active) /\ Cardinality(Active) \in Nat
  <2>1. Active \subseteq Events /\ IsFiniteSet(Events)
    BY <1>const, FS_Interval DEF Active, Events
  <2> QED
    BY <2>1, FS_Subset, FS_CardinalityType
<1>same. UNCHANGED processing => Active' = Active
  BY DEF Active
<1>1. CASE UNCHANGED eventVars
  <2>1. EventsTypeOK'
    BY <1>1, <1>type DEF eventVars, EventsTypeOK
  <2>2. QueuedOnce' /\ \A e \in Events : EventPlace(e)'
    BY <1>1, <1>old DEF eventVars, QueuedOnce, EventPlace
  <2> QED
    BY <1>1, <1>old, <1>new, <1>same, <2>1, <2>2 DEF eventVars
<1>2. ASSUME NEW e \in Events, RaiseEvent(e)
      PROVE  EventsInd'
  <2>0. /\ UNCHANGED <<worker, processing, handled>>
        /\ raiser[e] # "accepted"
    BY <1>2 DEF RaiseEvent
  <2>1. CASE Room
    <3>1. /\ asyncEventChannel' = Append(asyncEventChannel, e)
          /\ raiser' = [raiser EXCEPT ![e] = "accepted"]
      BY <1>2, <2>1 DEF RaiseEvent
    <3>2. EventsTypeOK'
      BY <2>0, <3>1, <1>type DEF EventsTypeOK
    <3>3. e \notin Range(asyncEventChannel)
      BY <1>old, <2>0 DEF EventPlace, InOnePlace
    <3>4. /\ Range(asyncEventChannel') = Range(asyncEventChannel) \cup {e}
          /\ QueuedOnce'
      BY <1>type, <1>old, <3>1, <3>3, QueueAppend DEF EventsTypeOK, QueuedOnce
    <3>5. Len(asyncEventChannel') <= 3 * maxProcesses
      BY <1>type, <1>const, <2>1, <3>1 DEF EventsTypeOK, Room
    <3>6. ASSUME NEW d \in Events PROVE EventPlace(d)'
      <4>1. raiser'[d] = IF d = e THEN "accepted" ELSE raiser[d]
        BY <1>type, <3>1 DEF EventsTypeOK
      <4>2. EventPlace(d) /\ EventPlace(e)
        BY <1>old
      <4> QED
        BY <2>0, <3>4, <4>1, <4>2 DEF EventPlace, InOnePlace
    <3> QED
      BY <1>old, <1>new, <1>same, <2>0, <3>2, <3>4, <3>5, <3>6
  <2>2. CASE ~Room
    <3>1. raiser' = [raiser EXCEPT ![e] = "blocked"] /\ UNCHANGED asyncEventChannel
      BY <1>2, <2>2 DEF RaiseEvent
    <3>2. EventsTypeOK'
      BY <2>0, <3>1, <1>type DEF EventsTypeOK
    <3>3. ASSUME NEW d \in Events PROVE EventPlace(d)'
      <4>1. raiser'[d] = IF d = e THEN "blocked" ELSE raiser[d]
        BY <1>type, <3>1 DEF EventsTypeOK
      <4>2. EventPlace(d)
        BY <1>old
      <4> QED
        BY <2>0, <3>1, <4>1, <4>2 DEF EventPlace, InOnePlace
    <3>4. QueuedOnce'
      BY <1>old, <3>1 DEF QueuedOnce
    <3> QED
      BY <1>old, <1>new, <1>same, <2>0, <3>1, <3>2, <3>3, <3>4
  <2> QED
    BY <2>1, <2>2
<1>3. ASSUME NEW e \in Events, Discard(e)
      PROVE  EventsInd'
  <2>1. /\ raiser' = [raiser EXCEPT ![e] = "refused"] /\ raiser[e] = "blocked"
        /\ UNCHANGED <<asyncEventChannel, worker, processing, handled>>
    BY <1>3 DEF Discard
  <2>2. EventsTypeOK'
    BY <2>1, <1>type DEF EventsTypeOK
  <2>3. ASSUME NEW d \in Events PROVE EventPlace(d)'
    <3>1. raiser'[d] = IF d = e THEN "refused" ELSE raiser[d]
      BY <1>type, <2>1 DEF EventsTypeOK
    <3>2. EventPlace(d)
      BY <1>old
    <3> QED
      BY <2>1, <3>1, <3>2 DEF EventPlace, InOnePlace
  <2>4. QueuedOnce'
    BY <1>old, <2>1 DEF QueuedOnce
  <2> QED
    BY <1>old, <1>new, <1>same, <2>1, <2>2, <2>3, <2>4
<1>4. CASE Receive
  <2> DEFINE q == asyncEventChannel
  <2>1. /\ worker = NoEvent /\ q # <<>>
        /\ worker' = Head(q) /\ q' = Tail(q)
        /\ UNCHANGED <<raiser, processing, handled>>
    BY <1>4 DEF Receive
  <2>2. /\ Range(q') = Range(q) \ {Head(q)}
        /\ Head(q) \in Range(q)
        /\ QueuedOnce'
    BY <1>type, <1>old, <2>1, QueueTail DEF EventsTypeOK, QueuedOnce
  <2>3. Head(q) \in Events /\ q' \in Seq(Events) /\ Len(q') <= Len(q) /\ Len(q') \in Nat
    BY <1>type, <2>1 DEF EventsTypeOK
  <2>4. EventsTypeOK'
    BY <1>type, <2>1, <2>3 DEF EventsTypeOK
  <2>5. ASSUME NEW d \in Events PROVE EventPlace(d)'
    <3>1. EventPlace(d)
      BY <1>old
    <3> QED
      BY <1>const, <2>1, <2>2, <3>1 DEF EventPlace, InOnePlace
  <2>6. Len(q') <= 3 * maxProcesses
    BY <1>old, <1>type, <1>const, <2>3
  <2> QED
    BY <1>old, <1>new, <1>same, <2>1, <2>2, <2>4, <2>5, <2>6
<1>5. CASE Spawn
  <2>1. /\ worker # NoEvent /\ worker' = NoEvent
        /\ processing' = [processing EXCEPT ![worker] = "running"]
        /\ Cardinality(Active) < maxProcesses
        /\ UNCHANGED <<raiser, asyncEventChannel, handled>>
    BY <1>5 DEF Spawn
  <2>2. worker \in Events
    BY <1>type, <2>1 DEF EventsTypeOK
  <2>3. \A d \in Events : processing'[d] = IF d = worker THEN "running" ELSE processing[d]
    BY <1>type, <2>1, <2>2 DEF EventsTypeOK
  <2>4. EventsTypeOK'
    BY <1>type, <2>1, <2>2 DEF EventsTypeOK
  <2>5. Active' = Active \cup {worker}
    BY <2>2, <2>3 DEF Active
  <2>6. Cardinality(Active') <= maxProcesses
    <3>1. \/ Cardinality(Active') = Cardinality(Active)
          \/ Cardinality(Active') = Cardinality(Active) + 1
      BY <1>finite, <2>5, FS_AddElement
    <3> QED
      BY <1>finite, <1>const, <2>1, <3>1
  <2>7. ASSUME NEW d \in Events PROVE EventPlace(d)'
    <3>1. EventPlace(d)
      BY <1>old
    <3> QED
      BY <1>const, <2>1, <2>3, <3>1 DEF EventPlace, InOnePlace
  <2>8. QueuedOnce'
    BY <1>old, <2>1 DEF QueuedOnce
  <2> QED
    BY <1>old, <1>new, <2>1, <2>4, <2>6, <2>7, <2>8
<1>6. ASSUME NEW e \in Events, Finish(e)
      PROVE  EventsInd'
  <2>1. /\ processing' = [processing EXCEPT ![e] = "done"] /\ processing[e] = "running"
        /\ UNCHANGED <<raiser, asyncEventChannel, worker, handled>>
    BY <1>6 DEF Finish
  <2>2. \A d \in Events : processing'[d] = IF d = e THEN "done" ELSE processing[d]
    BY <1>type, <2>1 DEF EventsTypeOK
  <2>3. EventsTypeOK'
    BY <1>type, <2>1 DEF EventsTypeOK
  <2>4. Active' \subseteq Active
    BY <2>2 DEF Active
  <2>5. Cardinality(Active') <= maxProcesses
    <3>1. Cardinality(Active') <= Cardinality(Active) /\ Cardinality(Active') \in Nat
      BY <1>finite, <2>4, FS_Subset, FS_CardinalityType
    <3> QED
      BY <1>finite, <1>const, <1>old, <3>1
  <2>6. ASSUME NEW d \in Events PROVE EventPlace(d)'
    <3>1. EventPlace(d)
      BY <1>old
    <3> QED
      BY <2>1, <2>2, <3>1 DEF EventPlace, InOnePlace
  <2>7. QueuedOnce'
    BY <1>old, <2>1 DEF QueuedOnce
  <2> QED
    BY <1>old, <1>new, <2>1, <2>3, <2>5, <2>6, <2>7
<1>7. ASSUME NEW e \in Events, NEW h \in Handlers, HandleEvent(e, h)
      PROVE  EventsInd'
  <2>1. /\ handled' = [handled EXCEPT ![e][h] = @ + 1] /\ handled[e][h] = 0
        /\ UNCHANGED <<raiser, asyncEventChannel, worker, processing>>
    BY <1>7 DEF HandleEvent
  <2>2. handled' \in [Events -> [Handlers -> 0..2]]
    BY <1>type, <2>1 DEF EventsTypeOK
  <2>3. EventsTypeOK'
    BY <1>type, <2>1, <2>2 DEF EventsTypeOK
  <2>4. QueuedOnce' /\ \A d \in Events : EventPlace(d)'
    BY <1>old, <2>1 DEF QueuedOnce, EventPlace
  <2> QED
    BY <1>old, <1>new, <1>same, <2>1, <2>3, <2>4
<1>8. QED
  BY <1>1, <1>2, <1>3, <1>4, <1>5, <1>6, <1>7 DEF EventsNext

(* For any number of events, handlers and processes: an event that         *)
(* raiseEvent accepted is in exactly one of the queue, the worker's hands  *)
(* and ProcessEvent, one that was refused or waits is in none, and the     *)
(* queue and activeCountChannel never exceed their capacities.             *)
THEOREM NoEventIsLost == EventsSpec => []NothingLost
<1>1. EventsInit => EventsInd
  <2> SUFFICES ASSUME EventsInit PROVE EventsInd
    OBVIOUS
  <2>1. EventsTypeOK /\ QueuedOnce
    BY DEF EventsInit, EventsTypeOK, QueuedOnce
  <2>2. Cardinality(Active) = 0
    <3>1. Active = {}
      BY DEF EventsInit, Active
    <3> QED
      BY <3>1, FS_EmptySet
  <2>3. \A e \in Events : EventPlace(e)
    <3>1. NoEvent \notin Events
      BY EventManagerAssumption DEF Events, NoEvent
    <3> QED
      BY <3>1 DEF EventsInit, EventPlace, InOnePlace, Range
  <2>4. Cardinality(Active) <= maxProcesses /\ Len(asyncEventChannel) <= 3 * maxProcesses
    BY <2>2, EventManagerAssumption DEF EventsInit
  <2> QED
    BY <2>1, <2>3, <2>4, NothingLostByPlace DEF EventsInd
<1>2. EventsInd /\ [EventsNext]_eventVars => EventsInd'
  BY EventsStep
<1>3. EventsInd => NothingLost
  BY ZenonT(30) DEF EventsInd
<1>4. QED
  BY <1>1, <1>2, <1>3, PTL DEF EventsSpec

----------------------------------------------------------------------------
(* The revision cache.                                                     *)

(* A request in state me, when f are the values and c is the current       *)
(* revision: it refers to a value exactly from getValue on, that value     *)
(* keeps its revision, a value that is being loaded is empty, and what was *)
(* read is not newer than the document.                                    *)
RequestOK(me, f, c) ==
    /\ me.pc \in {"idle", "getValue"} => me.val = NoValue
    /\ me.pc # "idle" => me.rev \in Revs
    /\ me.pc \notin {"idle", "getValue"} => me.val \in Values /\ f[me.val].rev = me.rev
    /\ me.goal \in {"from", "to"} => me.from \in Revs /\ me.to \in Revs
    /\ me.goal = "put" => me.rev <= c
    /\ me.pc = "store" => me.goal = "put"
    /\ me.doc <= c
    /\ me.pc = "loading" => ~f[me.val].body /\ ~f[me.val].err
    /\ me.pc = "done" => (me.rev <= me.atts /\ me.atts <= c) \/ me.rev < c

(* The attachments of a loaded value are those of its revision or of a     *)
(* later one, or the revision is not the current one.                      *)
ValueOK(x, c) == x.body => (x.rev <= x.atts /\ x.atts <= c) \/ x.rev < c

(* value.lock: a value is loaded by one request at a time.                 *)
LocksExclusive ==
    \A p, q \in Requests :
        /\ request[p].pc = "loading" /\ request[q].pc = "loading"
        /\ request[p].val = request[q].val
        => p = q

RevisionCacheInd ==
    /\ RevisionCacheTypeOK /\ MapMatchesList /\ FailuresLeave /\ LocksExclusive
    /\ \A q \in Requests : RequestOK(request[q], value, current)
    /\ \A v \in Values : ValueOK(value[v], current)

(* Removing the element of v from a list that holds it once.               *)
LEMMA ListRemove ==
    ASSUME NEW S, NEW l \in Seq(S), IsInjective(l), NEW v \in Range(l),
           NEW m, m = RemoveAt(l, CHOOSE i \in DOMAIN l : l[i] = v)
    PROVE  /\ m \in Seq(S) /\ IsInjective(m)
           /\ Range(m) = Range(l) \ {v} /\ Len(m) = Len(l) - 1
<1> DEFINE n == Len(l)
           i == CHOOSE j \in DOMAIN l : l[j] = v
           a == SubSeq(l, 1, i - 1)
           b == SubSeq(l, i + 1, n)
<1>1. n \in Nat /\ DOMAIN l = 1..n /\ \A j \in 1..n : l[j] \in S
  OBVIOUS
<1>2. i \in 1..n /\ l[i] = v
  BY <1>1 DEF Range
<1>3. m = a \o b
  BY DEF RemoveAt
<1> HIDE DEF n, i
<1>4. /\ a \in Seq(S) /\ Len(a) = i - 1
      /\ \A j \in 1..(i - 1) : a[j] = l[j]
  <2>1. \A j \in 1..(i - 1) : l[j] \in S
    BY <1>1, <1>2
  <2>2. /\ a \in Seq(S) /\ Len(a) = IF 1 <= i - 1 THEN (i - 1) - 1 + 1 ELSE 0
        /\ \A j \in 1..((i - 1) - 1 + 1) : a[j] = l[1 + j - 1]
    BY <1>1, <1>2, <2>1, SubSeqProperties
  <2> HIDE DEF a
  <2>3. QED
    BY <1>1, <1>2, <2>2
<1>5. /\ b \in Seq(S) /\ Len(b) = n - i
      /\ \A j \in 1..(n - i) : b[j] = l[i + j]
  <2>1. \A j \in (i + 1)..n : l[j] \in S
    BY <1>1, <1>2
  <2>2. /\ b \in Seq(S) /\ Len(b) = IF i + 1 <= n THEN n - (i + 1) + 1 ELSE 0
        /\ \A j \in 1..(n - (i + 1) + 1) : b[j] = l[(i + 1) + j - 1]
    BY <1>1, <1>2, <2>1, SubSeqProperties
  <2> HIDE DEF b
  <2>3. /\ n - (i + 1) + 1 = n - i
        /\ \A j \in 1..(n - i) : (i + 1) + j - 1 = i + j
    BY <1>1, <1>2
  <2>4. Len(b) = n - i
    BY <1>1, <1>2, <2>2
  <2>5. ASSUME NEW j \in 1..(n - i) PROVE b[j] = l[i + j]
    BY <2>2, <2>3
  <2>6. QED
    BY <2>2, <2>4, <2>5
<1> HIDE DEF a, b
<1>6. /\ m \in Seq(S) /\ Len(m) = n - 1
      /\ \A j \in 1..(n - 1) : m[j] = IF j < i THEN l[j] ELSE l[j + 1]
  <2>0. /\ a \o b \in Seq(S) /\ Len(a \o b) = Len(a) + Len(b)
        /\ \A j \in 1..(Len(a) + Len(b)) :
               (a \o b)[j] = IF j <= Len(a) THEN a[j] ELSE b[j - Len(a)]
    BY <1>4, <1>5, ConcatProperties
  <2>1. /\ m \in Seq(S) /\ Len(m) = Len(a) + Len(b)
        /\ \A j \in 1..(Len(a) + Len(b)) :
               m[j] = IF j <= Len(a) THEN a[j] ELSE b[j - Len(a)]
    BY <1>3, <2>0
  <2>2. Len(m) = n - 1
    BY <1>1, <1>2, <1>4, <1>5, <2>1
  <2>3. ASSUME NEW j \in 1..(n - 1)
        PROVE  m[j] = IF j < i THEN l[j] ELSE l[j + 1]
    <3>1. m[j] = IF j <= i - 1 THEN a[j] ELSE b[j - (i - 1)]
      BY SMTT(30), <1>1, <1>2, <1>4, <1>5, <2>1
    <3>2. CASE j < i
      BY <1>1, <1>2, <1>4, <3>1, <3>2
    <3>3. CASE ~(j < i)
      <4>1. j - (i - 1) \in 1..(n - i) /\ i + (j - (i - 1)) = j + 1
        BY <1>1, <1>2, <3>3
      <4>2. QED
        BY <1>1, <1>2, <1>5, <3>1, <3>3, <4>1
    <3>4. QED
      BY <3>2, <3>3
  <2>4. QED
    BY <2>1, <2>2, <2>3
<1>7. DOMAIN m = 1..(n - 1)
  BY <1>1, <1>6
<1> DEFINE pos(j) == IF j < i THEN j ELSE j + 1
<1>pos. /\ \A j \in 1..(n - 1) : pos(j) \in 1..n /\ pos(j) # i /\ m[j] = l[pos(j)]
        /\ \A j, k \in 1..(n - 1) : pos(j) = pos(k) => j = k
  BY <1>1, <1>2, <1>6
<1>inj. \A j, k \in 1..n : l[j] = l[k] => j = k
  BY <1>1 DEF IsInjective
<1> HIDE DEF pos
<1>8. IsInjective(m)
  <2> SUFFICES ASSUME NEW j \in 1..(n - 1), NEW k \in 1..(n - 1), m[j] = m[k]
               PROVE  j = k
    BY <1>7 DEF IsInjective
  <2>1. l[pos(j)] = l[pos(k)]
    BY <1>pos
  <2>2. QED
    BY <1>pos, <1>inj, <2>1
<1>9. ASSUME NEW x
      PROVE  x \in Range(m) <=> x \in Range(l) /\ x # v
  <2>1. ASSUME NEW j \in 1..(n - 1)
        PROVE  m[j] \in Range(l) /\ m[j] # v
    BY <1>1, <1>2, <1>pos, <1>inj DEF Range
  <2>2. ASSUME NEW j \in 1..n, l[j] # v
        PROVE  l[j] \in Range(m)
    <3>1. CASE j < i
      <4>1. j \in 1..(n - 1) /\ m[j] = l[j]
        BY <1>1, <1>2, <1>6, <3>1
      <4>2. QED
        BY <1>7, <4>1 DEF Range
    <3>2. CASE j > i
      <4>1. j - 1 \in 1..(n - 1) /\ ~(j - 1 < i) /\ (j - 1) + 1 = j
        BY <1>1, <1>2, <3>2
      <4>2. m[j - 1] = l[j]
        BY <1>6, <4>1
      <4>3. QED
        BY <1>7, <4>1, <4>2 DEF Range
    <3>3. j # i
      BY <1>2, <2>2
    <3>4. QED
      BY <1>1, <1>2, <3>1, <3>2, <3>3
  <2>3. x \in Range(m) <=> \E j \in 1..(n - 1) : m[j] = x
    BY <1>7 DEF Range
  <2>4. x \in Range(l) <=> \E j \in 1..n : l[j] = x
    BY <1>1 DEF Range
  <2>5. QED
    BY <2>1, <2>2, <2>3, <2>4
<1>10. Range(m) = Range(l) \ {v}
  BY <1>9
<1>11. QED
  BY ZenonT(30), <1>6, <1>8, <1>10 DEF n

(* Pushing a new element to the front.                                     *)
LEMMA ListPush ==
    ASSUME NEW S, NEW l \in Seq(S), IsInjective(l), NEW v \in S, v \notin Range(l)
    PROVE  /\ <<v>> \o l \in Seq(S) /\ IsInjective(<<v>> \o l)
           /\ Range(<<v>> \o l) = Range(l) \cup {v}
           /\ Len(<<v>> \o l) = Len(l) + 1
<1> DEFINE n == Len(l)
           m == <<v>> \o l
<1>1. n \in Nat /\ DOMAIN l = 1..n
  OBVIOUS
<1>2. /\ m \in Seq(S) /\ Len(m) = 1 + n /\ DOMAIN m = 1..(n + 1)
      /\ m[1] = v /\ \A j \in 1..n : m[j + 1] = l[j]
  <2>1. /\ <<v>> \in Seq(S) /\ Len(<<v>>) = 1 /\ <<v>>[1] = v
    OBVIOUS
  <2> DEFINE h == <<v>>
  <2>2. h \in Seq(S) /\ Len(h) = 1 /\ h[1] = v
    BY <2>1
  <2> HIDE DEF h
  <2>3. /\ h \o l \in Seq(S) /\ Len(h \o l) = Len(h) + Len(l)
        /\ \A j \in 1..(Len(h) + Len(l)) :
              (h \o l)[j] = IF j <= Len(h) THEN h[j] ELSE l[j - Len(h)]
    BY <2>2, ConcatProperties
  <2>4. m = h \o l
    BY DEF h
  <2> HIDE DEF m
  <2>5. m \in Seq(S) /\ Len(m) = 1 + n /\ DOMAIN m = 1..(n + 1)
    BY <1>1, <2>2, <2>3, <2>4
  <2>6. m[1] = v
    BY <1>1, <2>2, <2>3, <2>4
  <2>7. ASSUME NEW j \in 1..n
        PROVE  m[j + 1] = l[j]
    <3>1. j + 1 \in 1..(1 + n) /\ ~(j + 1 <= 1) /\ (j + 1) - 1 = j
      BY <1>1
    <3>2. QED
      BY <2>2, <2>3, <2>4, <3>1
  <2>8. QED
    BY <2>5, <2>6, <2>7
<1> HIDE DEF n, m
<1>3. \A j \in 1..(n + 1) : j = 1 \/ (j - 1 \in 1..n /\ m[j] = l[j - 1])
  <2>1. ASSUME NEW j \in 1..(n + 1), j # 1
        PROVE  j - 1 \in 1..n /\ m[j] = l[j - 1]
    <3>1. j - 1 \in 1..n /\ (j - 1) + 1 = j
      BY <1>1, <2>1
    <3>2. QED
      BY <1>2, <3>1
  <2>2. QED
    BY <2>1
<1>4. \A j \in 1..n : l[j] # v
  BY <1>1 DEF Range
<1>5. IsInjective(m)
  <2> SUFFICES ASSUME NEW j \in 1..(n + 1), NEW k \in 1..(n + 1), m[j] = m[k]
               PROVE  j = k
    BY <1>2 DEF IsInjective
  <2>1. CASE j = 1 /\ k # 1
    BY <1>2, <1>3, <1>4, <2>1
  <2>2. CASE j # 1 /\ k = 1
    BY <1>2, <1>3, <1>4, <2>2
  <2>3. CASE j # 1 /\ k # 1
    <3>1. l[j - 1] = l[k - 1] /\ j - 1 \in 1..n /\ k - 1 \in 1..n
      BY <1>3, <2>3
    <3>2. j - 1 = k - 1
      BY <1>1, <3>1 DEF IsInjective
    <3>3. QED
      BY <1>1, <3>2
  <2>4. QED
    BY <2>1, <2>2, <2>3
<1>6. ASSUME NEW x
      PROVE  x \in Range(m) <=> x \in Range(l) \/ x = v
  <2>1. x \in Range(m) <=> \E j \in 1..(n + 1) : m[j] = x
    BY <1>2 DEF Range
  <2>2. x \in Range(l) <=> \E j \in 1..n : l[j] = x
    BY <1>1 DEF Range
  <2>3. (\E j \in 1..(n + 1) : m[j] = x) => x = v \/ \E j \in 1..n : l[j] = x
    BY <1>2, <1>3
  <2>4. ASSUME NEW j \in 1..n
        PROVE  \E k \in 1..(n + 1) : m[k] = l[j]
    <3>1. j + 1 \in 1..(n + 1)
      BY <1>1
    <3>2. QED
      BY <1>2, <3>1
  <2>5. \E k \in 1..(n + 1) : m[k] = v
    BY <1>1, <1>2
  <2>6. QED
    BY <2>1, <2>2, <2>3, <2>4, <2>5
<1>7. Range(m) = Range(l) \cup {v}
  BY <1>6
<1>8. QED
  BY <1>1, <1>2, <1>5, <1>7 DEF n, m

(* Removing the last element.                                              *)
LEMMA ListFront ==
    ASSUME NEW S, NEW l \in Seq(S), IsInjective(l), Len(l) > 0
    PROVE  /\ Last(l) \in Range(l)
           /\ Front(l) \in Seq(S) /\ IsInjective(Front(l))
           /\ Range(Front(l)) = Range(l) \ {Last(l)} /\ Len(Front(l)) = Len(l) - 1
<1> DEFINE n == Len(l)
           m == Front(l)
<1>1. n \in Nat /\ n > 0 /\ DOMAIN l = 1..n /\ \A j \in 1..n : l[j] \in S
  OBVIOUS
<1>2. Last(l) = l[n] /\ m = SubSeq(l, 1, n - 1)
  BY DEF Last, Front
<1> HIDE DEF n, m
<1>3. /\ m \in Seq(S) /\ Len(m) = n - 1
      /\ \A j \in 1..(n - 1) : m[j] = l[j]
  <2>1. \A j \in 1..(n - 1) : l[j] \in S
    BY <1>1
  <2>2. /\ m \in Seq(S) /\ Len(m) = IF 1 <= n - 1 THEN (n - 1) - 1 + 1 ELSE 0
        /\ \A j \in 1..((n - 1) - 1 + 1) : m[j] = l[1 + j - 1]
    BY <1>1, <1>2, <2>1, SubSeqProperties
  <2>3. QED
    BY <1>1, <2>2
<1>4. DOMAIN m = 1..(n - 1)
  BY <1>1, <1>3
<1>5. IsInjective(m)
  BY <1>1, <1>3, <1>4 DEF IsInjective
<1>6. ASSUME NEW x
      PROVE  x \in Range(m) <=> x \in Range(l) /\ x # l[n]
  <2>1. x \in Range(m) <=> \E j \in 1..(n - 1) : l[j] = x
    BY <1>3, <1>4 DEF Range
  <2>2. x \in Range(l) <=> \E j \in 1..n : l[j] = x
    BY <1>1 DEF Range
  <2>3. \A j \in 1..(n - 1) : l[j] # l[n]
    BY <1>1 DEF IsInjective
  <2>4. QED
    BY <1>1, <2>1, <2>2, <2>3
<1>7. Range(m) = Range(l) \ {Last(l)}
  BY <1>2, <1>6
<1>8. Last(l) \in Range(l)
  BY <1>1, <1>2 DEF Range
<1>9. QED
  BY <1>3, <1>5, <1>7, <1>8 DEF n, m

(* There is a value object for a request that has none: the list holds at  *)
(* most Capacity values, and the other requests one each.                  *)
LEMMA FreshValue ==
    ASSUME RevisionCacheInd, NEW q \in Requests, request[q].val = NoValue,
           NEW v, v = Min(Values \ Referenced)
    PROVE  v \in Values /\ v \notin Referenced
<1> DEFINE others == Requests \ {q}
           A == Range(lruList)
           B == {request[p].val : p \in others}
<1>1. /\ IsFiniteSet(Requests) /\ IsFiniteSet(others)
      /\ Cardinality(Requests) \in Nat
      /\ Cardinality(others) = Cardinality(Requests) - 1
  BY RevisionCacheAssumption, FS_CardinalityType, FS_RemoveElement
<1>2. IsFiniteSet(A) /\ Cardinality(A) \in Nat /\ Cardinality(A) <= Capacity
  <2> DEFINE n == Len(lruList)
  <2>1. n \in Nat /\ n <= Capacity /\ DOMAIN lruList = 1..n
    BY DEF RevisionCacheInd, RevisionCacheTypeOK, MapMatchesList
  <2>3. lruList \in Surjection(1..n, A)
    BY <2>1 DEF RevisionCacheInd, RevisionCacheTypeOK, Surjection, Range
  <2> HIDE DEF n, A
  <2>2. IsFiniteSet(1..n) /\ Cardinality(1..n) = n
    <3>1. /\ IsFiniteSet(1..n)
          /\ Cardinality(1..n) = IF 1 > n THEN 0 ELSE n - 1 + 1
      BY <2>1, FS_Interval
    <3>2. QED
      BY <2>1, <3>1
  <2>4. IsFiniteSet(A) /\ Cardinality(A) <= n
    BY <2>2, <2>3, FS_Surjection
  <2>5. Cardinality(A) \in Nat
    BY <2>4, FS_CardinalityType
  <2>6. QED
    BY <2>1, <2>4, <2>5, RevisionCacheAssumption
<1>3. /\ IsFiniteSet(B) /\ Cardinality(B) \in Nat
      /\ Cardinality(B) <= Cardinality(others)
  <2> DEFINE g == [p \in others |-> request[p].val]
  <2>1. g \in Surjection(others, B)
    BY DEF Surjection
  <2> HIDE DEF g, B, others
  <2>2. QED
    BY <1>1, <2>1, FS_Surjection, FS_CardinalityType
<1>4. IsFiniteSet(Values) /\ Cardinality(Values) = Capacity + Cardinality(Requests)
  <2> DEFINE n == Capacity + Cardinality(Requests)
  <2>1. n \in Nat /\ n >= 1
    BY <1>1, RevisionCacheAssumption
  <2> HIDE DEF n
  <2>2. IsFiniteSet(1..n) /\ Cardinality(1..n) = IF 1 > n THEN 0 ELSE n - 1 + 1
    BY <2>1, FS_Interval
  <2>3. QED
    BY <2>1, <2>2 DEF Values, n
<1>5. IsFiniteSet(A \cup B) /\ Cardinality(A \cup B) <= Cardinality(A) + Cardinality(B)
  <2> HIDE DEF A, B
  <2>1. /\ IsFiniteSet(A \cup B)
        /\ Cardinality(A \cup B) =
               Cardinality(A) + Cardinality(B) - Cardinality(A \cap B)
    BY <1>2, <1>3, FS_Union
  <2>2. IsFiniteSet(A \cap B)
    BY <1>2, FS_Subset
  <2>3. Cardinality(A \cap B) \in Nat
    BY <2>2, FS_CardinalityType
  <2>4. QED
    BY <1>2, <1>3, <2>1, <2>3
<1>6. /\ A \cup B \subseteq Referenced
      /\ Referenced \subseteq A \cup B \cup {NoValue}
  BY DEF Referenced
<1> HIDE DEF A, B, others
<1>7. ~(Values \subseteq A \cup B)
  <2>1. Cardinality(A \cup B) \in Nat
    BY <1>5, FS_CardinalityType
  <2>2. Cardinality(A \cup B) < Cardinality(Values)
    BY <1>1, <1>2, <1>3, <1>4, <1>5, <2>1, RevisionCacheAssumption
  <2>3. Values \subseteq A \cup B => Cardinality(Values) <= Cardinality(A \cup B)
    BY <1>5, FS_Subset
  <2>4. Cardinality(Values) \in Nat
    BY <1>4, FS_CardinalityType
  <2>5. QED
    BY <2>1, <2>2, <2>3, <2>4
<1> DEFINE F == Values \ Referenced
<1>8. NoValue \notin Values /\ Values \subseteq Nat
  BY <1>1, RevisionCacheAssumption DEF NoValue, Values
<1>9. F # {} /\ F \subseteq Nat
  BY <1>6, <1>7, <1>8
<1> HIDE DEF F
<1>10. \E x \in F : \A y \in F : x <= y
  <2> DEFINE R == {ss \in Nat \X Nat : ss[1] < ss[2]}
  <2>1. IsWellFoundedOn(R, Nat)
    BY NatLessThanWellFounded DEF OpToRel
  <2> HIDE DEF R
  <2>2. PICK x \in F : \A y \in F : ~(<<y, x>> \in R)
    BY <1>9, <2>1, WFMin
  <2>3. \A y \in F : ~(y < x)
    BY <1>9, <2>2 DEF R
  <2>4. QED
    BY <1>9, <2>3
<1>11. Min(F) \in F
  BY <1>10 DEF Min
<1>12. QED
  BY <1>11 DEF F

(* What SetValues(f) leaves: f for what is referred to, and empty values.  *)
LEMMA ValuesSet ==
    ASSUME NEW f \in [Values -> ValueRecord], SetValues(f)
    PROVE  /\ value' \in [Values -> ValueRecord]
           /\ \A v \in Values : v \in Referenced' => value'[v] = f[v]
           /\ \A v \in Values : value'[v] = f[v] \/ value'[v] = EmptyValue(0)
<1>1. EmptyValue(0) \in ValueRecord
  BY RevisionCacheAssumption DEF EmptyValue, ValueRecord, NoDelta
<1>2. QED
  BY <1>1 DEF SetValues

(* A step of request q that leaves the map alone and at most reorders the  *)
(* list.  The only value it changes is u, to x, and what nobody refers to. *)
LEMMA QuietStep ==
    ASSUME RevisionCacheInd, NEW q \in Requests, NEW R \in RequestRecord,
           NEW u \in Values, NEW x \in ValueRecord,
           UNCHANGED cache, lruList' \in Seq(Values), IsInjective(lruList'),
           Range(lruList') = Range(lruList), Len(lruList') = Len(lruList),
           request' = [request EXCEPT ![q] = R],
           value' \in [Values -> ValueRecord],
           \A v \in Values : v \in Referenced' =>
               value'[v] = IF v = u THEN x ELSE value[v],
           \A v \in Values : \/ value'[v] = IF v = u THEN x ELSE value[v]
                             \/ value'[v] = EmptyValue(0),
           current' \in 0..MaxRev, current <= current', backups' \subseteq Revs,
           errors' \in 0..MaxErrors,
           (* The value keeps its revision and, if it is loaded, its body. *)
           x.rev = value[u].rev, ValueOK(x, current'),
           value[u].body => x.body /\ x.atts = value[u].atts,
           \/ x = value[u]
           \/ \A p \in Requests \ {q} :
                 ~(request[p].pc = "loading" /\ request[p].val = u)
           \/ x.body = value[u].body /\ x.err = value[u].err,
           (* A new error has a request that removes the value.            *)
           \/ R.pc = "remove" /\ R.val = u
           \/ x.err => value[u].err,
           \/ request[q].pc # "remove"
           \/ \A r \in Revs : cache[r] # request[q].val,
           R.pc = "loading" => \A p \in Requests \ {q} :
               ~(request[p].pc = "loading" /\ request[p].val = R.val),
           \A f \in [Values -> ValueRecord] :
               (R.val \in Values => f[R.val] = IF R.val = u THEN x ELSE value[R.val])
               => RequestOK(R, f, current')
    PROVE  RevisionCacheInd' /\ KeepsBodies
<1> USE DEF RevisionCacheInd
<1>1. /\ request \in [Requests -> RequestRecord] /\ value \in [Values -> ValueRecord]
      /\ cache \in [Revs -> Values \cup {NoValue}] /\ current \in 0..MaxRev
      /\ NoValue \notin Values
  <2>1. NoValue \notin Values
    BY RevisionCacheAssumption DEF Values, NoValue
  <2>2. QED
    BY <2>1 DEF RevisionCacheTypeOK
<1>2. request'[q] = R /\ \A p \in Requests : p # q => request'[p] = request[p]
  BY <1>1
<1>3. RevisionCacheTypeOK'
  BY <1>1 DEF RevisionCacheTypeOK
<1>4. \A p \in Requests : request'[p].val \in Referenced'
  BY DEF Referenced
<1>5. \A r \in Revs : cache[r] # NoValue =>
          /\ cache[r] \in Values /\ cache[r] \in Range(lruList)
          /\ cache[r] \in Referenced'
  BY <1>1 DEF MapMatchesList, Referenced
<1>6. \A v \in Values : v \in Referenced' => value'[v].rev = value[v].rev
  OBVIOUS
<1>7. MapMatchesList'
  <2>1. Len(lruList') <= Capacity /\ IsInjective(lruList')
        /\ Range(lruList') = {cache'[r] : r \in Revs} \ {NoValue}
    BY DEF MapMatchesList
  <2>2. \A r \in Revs : cache'[r] # NoValue => value'[cache'[r]].rev = r
    BY <1>5, <1>6 DEF MapMatchesList
  <2>3. QED
    BY <2>1, <2>2 DEF MapMatchesList
<1>8. LocksExclusive'
  BY <1>2 DEF LocksExclusive
<1>9. FailuresLeave'
  <2> SUFFICES ASSUME NEW r \in Revs, cache[r] # NoValue, value'[cache[r]].err
               PROVE  \E p \in Requests : request'[p].pc = "remove"
                                          /\ request'[p].val = cache[r]
    BY DEF FailuresLeave
  <2>1. CASE R.pc = "remove" /\ R.val = cache[r]
    BY <1>2, <2>1
  <2>2. CASE value[cache[r]].err
    <3>1. PICK p \in Requests : request[p].pc = "remove" /\ request[p].val = cache[r]
      BY <2>2 DEF FailuresLeave
    <3>2. p # q
      BY <3>1
    <3>3. QED
      BY <1>2, <3>1, <3>2
  <2>3. value'[cache[r]] = IF cache[r] = u THEN x ELSE value[cache[r]]
    BY <1>5
  <2>4. QED
    BY <2>1, <2>2, <2>3
<1>10. \A v \in Values : ValueOK(value'[v], current')
  <2> SUFFICES ASSUME NEW v \in Values
               PROVE  ValueOK(value'[v], current')
    OBVIOUS
  <2>1. ValueOK(EmptyValue(0), current')
    BY DEF ValueOK, EmptyValue
  <2>2. ValueOK(value[v], current')
    <3> DEFINE y == value[v]
    <3>1. y \in ValueRecord /\ ValueOK(y, current)
      BY <1>1
    <3> HIDE DEF y, RevisionCacheInd
    <3>2. y.atts \in Int /\ y.rev \in Int /\ current \in Int /\ current' \in Int
      BY <1>1, <3>1 DEF ValueRecord
    <3>3. ValueOK(y, current')
      BY <3>1, <3>2 DEF ValueOK
    <3>4. QED
      BY <3>3 DEF y
  <2>3. QED
    BY <2>1, <2>2
<1>11. \A p \in Requests : RequestOK(request'[p], value', current')
  <2> SUFFICES ASSUME NEW p \in Requests
               PROVE  RequestOK(request'[p], value', current')
    OBVIOUS
  <2>1. CASE p = q
    <3>1. R.val \in Referenced'
      BY <1>2, <1>4
    <3>2. R.val \in Values => value'[R.val] = IF R.val = u THEN x ELSE value[R.val]
      BY <3>1
    <3>3. QED
      BY <1>2, <2>1, <3>2
  <2>2. CASE p # q
    <3> DEFINE me == request[p]
    <3>1. request'[p] = me /\ me.val \in Referenced' /\ me \in RequestRecord
      BY <1>1, <1>2, <1>4, <2>2
    <3>2. RequestOK(me, value, current)
      OBVIOUS
    <3>3. me.val \in Values => value'[me.val].rev = value[me.val].rev
      BY <1>6, <3>1
    <3>4. me.pc = "loading" => /\ me.val \in Values
                               /\ ~value[me.val].body /\ ~value[me.val].err
      BY <3>2 DEF RequestOK
    <3>5. me.pc = "loading" => ~value'[me.val].body /\ ~value'[me.val].err
      <4>1. CASE me.val = u
        BY <2>2, <3>1, <3>4, <4>1
      <4>2. CASE me.val # u
        BY <3>1, <3>4, <4>2
      <4>3. QED
        BY <4>1, <4>2
    <3>6. /\ me.rev \in Nat /\ me.doc \in Nat /\ me.atts \in Nat
          /\ current \in Nat /\ current' \in Nat
      BY <1>1, <3>1 DEF RequestRecord
    <3> HIDE DEF me
    <3>7. RequestOK(me, value', current')
      BY <3>2, <3>3, <3>5, <3>6 DEF RequestOK
    <3>8. QED
      BY <3>1, <3>7
  <2>3. QED
    BY <2>1, <2>2
<1>12. KeepsBodies
  <2>1. ASSUME NEW v \in Range(lruList) \cap Range(lruList'), value[v].body
        PROVE  value'[v].body /\ value'[v].atts = value[v].atts
    <3>1. v \in Values /\ v \in Referenced'
      BY DEF RevisionCacheTypeOK, Range, Referenced
    <3>2. value'[v] = IF v = u THEN x ELSE value[v]
      BY <3>1
    <3>3. QED
      BY <2>1, <3>2
  <2>2. QED
    BY <2>1 DEF KeepsBodies
<1>13. QED
  BY <1>3, <1>7, <1>8, <1>9, <1>10, <1>11, <1>12

(* A request goes on and may reorder the list: no value changes, but some  *)
(* may be forgotten.                                                       *)
LEMMA ReorderOnly ==
    ASSUME RevisionCacheInd, NEW q \in Requests, NEW R \in RequestRecord,
           UNCHANGED cache, lruList' \in Seq(Values), IsInjective(lruList'),
           Range(lruList') = Range(lruList), Len(lruList') = Len(lruList),
           request' = [request EXCEPT ![q] = R],
           UNCHANGED value \/ SetValues(value),
           current' \in 0..MaxRev, current <= current', backups' \subseteq Revs,
           errors' \in 0..MaxErrors,
           \/ request[q].pc # "remove"
           \/ \A r \in Revs : cache[r] # request[q].val,
           R.pc # "loading",
           \A f \in [Values -> ValueRecord] :
               (R.val \in Values => f[R.val] = value[R.val]) => RequestOK(R, f, current')
    PROVE  RevisionCacheInd' /\ KeepsBodies
<1> DEFINE u == 1
           x == value[u]
<1>1. /\ value \in [Values -> ValueRecord] /\ lruList \in Seq(Values)
      /\ IsInjective(lruList) /\ current \in 0..MaxRev
  BY DEF RevisionCacheInd, RevisionCacheTypeOK, MapMatchesList
<1>2. u \in Values
  <2>1. Cardinality(Requests) \in Nat
    BY RevisionCacheAssumption, FS_CardinalityType
  <2>2. QED
    BY <2>1, RevisionCacheAssumption DEF Values
<1>3. x \in ValueRecord /\ ValueOK(x, current)
  BY <1>1, <1>2 DEF RevisionCacheInd
<1>4. ValueOK(x, current')
  BY <1>1, <1>3 DEF ValueOK, ValueRecord
<1>5. /\ value' \in [Values -> ValueRecord]
      /\ \A v \in Values : v \in Referenced' => value'[v] = value[v]
      /\ \A v \in Values : value'[v] = value[v] \/ value'[v] = EmptyValue(0)
  <2>1. CASE UNCHANGED value
    BY <1>1, <2>1
  <2>2. CASE SetValues(value)
    BY <1>1, <2>2, ValuesSet
  <2>3. QED
    BY <2>1, <2>2
<1>6. \A v \in Values : (IF v = u THEN x ELSE value[v]) = value[v]
  OBVIOUS
<1> HIDE DEF u, x
<1>7. x = value[u]
  BY DEF x
<1>8. /\ \A v \in Values : v \in Referenced' =>
             value'[v] = IF v = u THEN x ELSE value[v]
      /\ \A v \in Values : \/ value'[v] = IF v = u THEN x ELSE value[v]
                           \/ value'[v] = EmptyValue(0)
  BY <1>5, <1>7
<1>9. \A f \in [Values -> ValueRecord] :
          (R.val \in Values => f[R.val] = IF R.val = u THEN x ELSE value[R.val])
          => RequestOK(R, f, current')
  BY <1>7
<1>10. QED
  BY ZenonT(30), <1>1, <1>2, <1>3, <1>4, <1>5, <1>7, <1>8, <1>9, QuietStep

(* A request that ends or begins, or goes on without a value: no value     *)
(* changes, but some may be forgotten.                                     *)
LEMMA RequestOnly ==
    ASSUME RevisionCacheInd, NEW q \in Requests, NEW R \in RequestRecord,
           UNCHANGED <<cache, lruList>>, request' = [request EXCEPT ![q] = R],
           UNCHANGED value \/ SetValues(value),
           current' \in 0..MaxRev, current <= current', backups' \subseteq Revs,
           errors' \in 0..MaxErrors,
           \/ request[q].pc # "remove"
           \/ \A r \in Revs : cache[r] # request[q].val,
           R.pc # "loading",
           \A f \in [Values -> ValueRecord] :
               (R.val \in Values => f[R.val] = value[R.val]) => RequestOK(R, f, current')
    PROVE  RevisionCacheInd' /\ KeepsBodies
<1>1. lruList \in Seq(Values) /\ IsInjective(lruList)
  BY DEF RevisionCacheInd, RevisionCacheTypeOK, MapMatchesList
<1>2. /\ UNCHANGED cache /\ lruList' \in Seq(Values) /\ IsInjective(lruList')
      /\ Range(lruList') = Range(lruList) /\ Len(lruList') = Len(lruList)
  BY <1>1
<1>3. QED
  BY <1>2, ReorderOnly

(* What follows a load: the request with the loaded value x.               *)
LEMMA Continued ==
    ASSUME RevisionCacheInd, NEW q \in Requests,
           request[q].pc \in {"load", "loading"},
           NEW x \in ValueRecord, x.rev = request[q].rev, x.body \/ x.err,
           ValueOK(x, current)
    PROVE  /\ Continue(q, x) \in RequestRecord
           /\ Continue(q, x).pc # "loading"
           /\ x.err => Continue(q, x).pc = "remove" /\ Continue(q, x).val = request[q].val
           /\ Continue(q, x).val \in {request[q].val, NoValue}
           /\ \A f \in [Values -> ValueRecord] :
                 (Continue(q, x).val \in Values => f[Continue(q, x).val].rev = x.rev)
                 => RequestOK(Continue(q, x), f, current)
<1> DEFINE me == request[q]
           R == Continue(q, x)
<1>1. me \in RequestRecord /\ RequestOK(me, value, current) /\ current \in 0..MaxRev
  BY DEF RevisionCacheInd, RevisionCacheTypeOK
<1>2. /\ me.rev \in Revs /\ me.val \in Values
      /\ me.goal \in {"from", "to"} => me.from \in Revs /\ me.to \in Revs
      /\ me.goal = "put" => me.rev <= current
      /\ me.doc <= current /\ NoValue \notin Values
  <2>1. NoValue \notin Values
    BY RevisionCacheAssumption DEF NoValue, Values
  <2>2. QED
    BY <1>1, <2>1 DEF RequestOK
<1>3. R = IF x.err THEN [me EXCEPT !.pc = "remove"]
          ELSE IF me.goal = "from" /\ x.delta # me.to
          THEN [me EXCEPT !.pc = "getValue", !.goal = "to", !.rev = me.to,
                          !.val = NoValue, !.doc = 0]
          ELSE IF me.goal = "to"
          THEN [me EXCEPT !.pc = "getValue", !.goal = "delta", !.rev = me.from,
                          !.val = NoValue, !.doc = 0]
          ELSE [me EXCEPT !.pc = "done", !.atts = x.atts]
  BY DEF Continue
<1> HIDE DEF R
<1>4. x.atts \in 0..MaxRev /\ x.delta \in 0..MaxRev /\ x.rev = me.rev
  BY DEF ValueRecord
<1>zero. 0 \in 0..MaxRev /\ Revs \subseteq 0..MaxRev /\ Revs \subseteq Nat
  BY RevisionCacheAssumption DEF Revs
<1> HIDE DEF me
<1>5. CASE x.err
  <2>1. R = [me EXCEPT !.pc = "remove"]
    BY <1>3, <1>5
  <2>2. /\ R \in RequestRecord /\ R.pc = "remove" /\ R.val = me.val /\ R.rev = me.rev
        /\ R.goal = me.goal /\ R.from = me.from /\ R.to = me.to /\ R.doc = me.doc
    BY <1>1, <2>1 DEF RequestRecord
  <2>3. \A f \in [Values -> ValueRecord] :
            (R.val \in Values => f[R.val].rev = x.rev) => RequestOK(R, f, current)
    BY <1>2, <1>4, <2>2 DEF RequestOK
  <2>4. QED
    BY <2>2, <2>3 DEF R, me
<1>6. CASE ~x.err /\ me.goal = "from" /\ x.delta # me.to
  <2>1. R = [me EXCEPT !.pc = "getValue", !.goal = "to", !.rev = me.to,
                       !.val = NoValue, !.doc = 0]
    BY <1>3, <1>6
  <2>2. /\ R \in RequestRecord /\ R.pc = "getValue" /\ R.val = NoValue /\ R.rev = me.to
        /\ R.goal = "to" /\ R.from = me.from /\ R.to = me.to /\ R.doc = 0
    BY <1>1, <1>2, <1>6, <1>zero, <2>1 DEF RequestRecord
  <2>3. \A f \in [Values -> ValueRecord] : RequestOK(R, f, current)
    BY <1>1, <1>2, <1>6, <2>2 DEF RequestOK
  <2>4. QED
    BY <1>6, <2>2, <2>3 DEF R, me
<1>7. CASE ~x.err /\ me.goal = "to"
  <2>1. R = [me EXCEPT !.pc = "getValue", !.goal = "delta", !.rev = me.from,
                       !.val = NoValue, !.doc = 0]
    BY <1>3, <1>7
  <2>2. /\ R \in RequestRecord /\ R.pc = "getValue" /\ R.val = NoValue
        /\ R.rev = me.from /\ R.goal = "delta" /\ R.doc = 0
    BY <1>1, <1>2, <1>7, <1>zero, <2>1 DEF RequestRecord
  <2>3. \A f \in [Values -> ValueRecord] : RequestOK(R, f, current)
    BY <1>1, <1>2, <1>7, <2>2 DEF RequestOK
  <2>4. QED
    BY <1>7, <2>2, <2>3 DEF R, me
<1>8. CASE ~x.err /\ ~(me.goal = "from" /\ x.delta # me.to) /\ me.goal # "to"
  <2>1. R = [me EXCEPT !.pc = "done", !.atts = x.atts]
    BY <1>3, <1>8
  <2>2. /\ R \in RequestRecord /\ R.pc = "done" /\ R.val = me.val /\ R.rev = me.rev
        /\ R.goal = me.goal /\ R.from = me.from /\ R.to = me.to /\ R.doc = me.doc
        /\ R.atts = x.atts
    BY <1>1, <1>4, <2>1 DEF RequestRecord
  <2>3. (me.rev <= x.atts /\ x.atts <= current) \/ me.rev < current
    BY <1>4, <1>8 DEF ValueOK
  <2>4. \A f \in [Values -> ValueRecord] :
            (R.val \in Values => f[R.val].rev = x.rev) => RequestOK(R, f, current)
    BY <1>2, <1>4, <2>2, <2>3 DEF RequestOK
  <2>5. QED
    BY <1>8, <2>2, <2>4 DEF R, me
<1>9. QED
  BY <1>5, <1>6, <1>7, <1>8

(* A request that is idle, or that has not called getValue yet.            *)
LEMMA NewRequest ==
    ASSUME NEW c \in 0..MaxRev, NEW R \in RequestRecord,
           R.val = NoValue, R.doc <= c,
           \/ R.pc = "idle" /\ R.goal = "none"
           \/ R.pc = "getValue" /\ R.rev \in Revs,
           R.goal \in {"from", "to"} => R.from \in Revs /\ R.to \in Revs,
           R.goal = "put" => R.rev <= c
    PROVE  \A f \in [Values -> ValueRecord] : RequestOK(R, f, c)
  BY DEF RequestOK

(* The idle request is a request.                                          *)
LEMMA IdleIsRequest ==
    /\ IdleRequest \in RequestRecord /\ IdleRequest.pc = "idle"
    /\ IdleRequest.val = NoValue /\ IdleRequest.goal = "none" /\ IdleRequest.doc = 0
    /\ \A c \in 0..MaxRev : \A f \in [Values -> ValueRecord] :
           RequestOK(IdleRequest, f, c)
<1>1. /\ IdleRequest \in RequestRecord /\ IdleRequest.pc = "idle"
      /\ IdleRequest.val = NoValue /\ IdleRequest.goal = "none" /\ IdleRequest.doc = 0
  BY RevisionCacheAssumption DEF IdleRequest, RequestRecord
<1>2. QED
  BY <1>1, NewRequest

(* A request begins, with or without writing a revision.                   *)
LEMMA BeginStep ==
    ASSUME RevisionCacheInd, NEW q \in Requests,
           \/ WriteRevision(q)
           \/ GetActive(q)
           \/ \E r \in Revs, goal \in {"get", "cached"} : Get(q, r, goal)
           \/ \E r, s \in Revs : r < s /\ GetDelta(q, r, s)
    PROVE  RevisionCacheInd' /\ KeepsBodies
<1>0. /\ current \in 0..MaxRev /\ backups \subseteq Revs /\ errors \in 0..MaxErrors
      /\ Revs \subseteq 0..MaxRev /\ 0 \in 0..MaxRev /\ MaxRev \in Nat
  BY RevisionCacheAssumption DEF RevisionCacheInd, RevisionCacheTypeOK, Revs
<1>1. CASE WriteRevision(q)
  <2> DEFINE R == [IdleRequest EXCEPT !.pc = "getValue", !.goal = "put", !.rev = current']
  <2>1. /\ request' = [request EXCEPT ![q] = R] /\ request[q].pc = "idle"
        /\ current < MaxRev /\ current' = current + 1
        /\ backups' = backups \cup ({current} \ {0})
        /\ UNCHANGED <<cache, lruList, value, errors>>
    BY <1>1 DEF WriteRevision, cacheVars
  <2>2. current' \in Revs /\ current <= current' /\ backups' \subseteq Revs
        /\ current' \in 0..MaxRev
    BY <1>0, <2>1 DEF Revs
  <2>3. /\ R \in RequestRecord /\ R.pc = "getValue" /\ R.val = NoValue
        /\ R.goal = "put" /\ R.rev = current' /\ R.doc = 0
    BY <1>0, <2>2 DEF IdleRequest, RequestRecord
  <2> HIDE DEF R
  <2>4. \A f \in [Values -> ValueRecord] : RequestOK(R, f, current')
    BY <2>2, <2>3, NewRequest
  <2>5. QED
    BY <1>0, <2>1, <2>2, <2>3, <2>4, RequestOnly
<1>2. CASE GetActive(q)
  <2> DEFINE R == [IdleRequest EXCEPT !.pc = "getValue", !.goal = "active",
                                      !.rev = current, !.doc = current]
  <2>1. /\ request' = [request EXCEPT ![q] = R] /\ request[q].pc = "idle"
        /\ current # 0 /\ UNCHANGED <<cache, lruList, value, current, backups, errors>>
    BY <1>2 DEF GetActive, cacheVars, bucketVars
  <2>2. current \in Revs
    BY <1>0, <2>1 DEF Revs
  <2>3. /\ R \in RequestRecord /\ R.pc = "getValue" /\ R.val = NoValue
        /\ R.goal = "active" /\ R.rev = current /\ R.doc = current
    BY <1>0, <2>2 DEF IdleRequest, RequestRecord
  <2> HIDE DEF R
  <2>4. \A f \in [Values -> ValueRecord] : RequestOK(R, f, current)
    BY <1>0, <2>2, <2>3, NewRequest
  <2>5. /\ current' \in 0..MaxRev /\ current <= current' /\ backups' \subseteq Revs
        /\ errors' \in 0..MaxErrors /\ R.pc # "loading" /\ request[q].pc # "remove"
        /\ \A f \in [Values -> ValueRecord] : RequestOK(R, f, current')
    BY <1>0, <2>1, <2>3, <2>4
  <2>6. QED
    BY <2>1, <2>3, <2>5, RequestOnly
<1>3. ASSUME NEW r \in Revs, NEW goal \in {"get", "cached"}, Get(q, r, goal)
      PROVE  RevisionCacheInd' /\ KeepsBodies
  <2> DEFINE R == [IdleRequest EXCEPT !.pc = "getValue", !.goal = goal, !.rev = r]
  <2>1. /\ request' = [request EXCEPT ![q] = R] /\ request[q].pc = "idle"
        /\ UNCHANGED <<cache, lruList, value, current, backups, errors>>
    BY <1>3 DEF Get, cacheVars, bucketVars
  <2>3. /\ R \in RequestRecord /\ R.pc = "getValue" /\ R.val = NoValue
        /\ R.goal = goal /\ R.rev = r /\ R.doc = 0
    BY <1>0 DEF IdleRequest, RequestRecord
  <2> HIDE DEF R
  <2>4. \A f \in [Values -> ValueRecord] : RequestOK(R, f, current)
    BY <1>0, <2>3, NewRequest
  <2>5. /\ current' \in 0..MaxRev /\ current <= current' /\ backups' \subseteq Revs
        /\ errors' \in 0..MaxErrors /\ R.pc # "loading" /\ request[q].pc # "remove"
        /\ \A f \in [Values -> ValueRecord] : RequestOK(R, f, current')
    BY <1>0, <2>1, <2>3, <2>4
  <2>6. QED
    BY <2>1, <2>3, <2>5, RequestOnly
<1>4. ASSUME NEW r \in Revs, NEW s \in Revs, GetDelta(q, r, s)
      PROVE  RevisionCacheInd' /\ KeepsBodies
  <2> DEFINE R == [IdleRequest EXCEPT !.pc = "getValue", !.goal = "from",
                                      !.rev = r, !.from = r, !.to = s]
  <2>1. /\ request' = [request EXCEPT ![q] = R] /\ request[q].pc = "idle"
        /\ UNCHANGED <<cache, lruList, value, current, backups, errors>>
    BY <1>4 DEF GetDelta, cacheVars, bucketVars
  <2>3. /\ R \in RequestRecord /\ R.pc = "getValue" /\ R.val = NoValue
        /\ R.goal = "from" /\ R.rev = r /\ R.from = r /\ R.to = s /\ R.doc = 0
    BY <1>0 DEF IdleRequest, RequestRecord
  <2> HIDE DEF R
  <2>4. \A f \in [Values -> ValueRecord] : RequestOK(R, f, current)
    BY <1>0, <2>3, NewRequest
  <2>5. /\ current' \in 0..MaxRev /\ current <= current' /\ backups' \subseteq Revs
        /\ errors' \in 0..MaxErrors /\ R.pc # "loading" /\ request[q].pc # "remove"
        /\ \A f \in [Values -> ValueRecord] : RequestOK(R, f, current')
    BY <1>0, <2>1, <2>3, <2>4
  <2>6. QED
    BY <2>1, <2>3, <2>5, RequestOnly
<1>5. QED
  BY <1>1, <1>2, <1>3, <1>4

(* What getValue leaves of a request that has found or created value v of  *)
(* its revision.                                                           *)
LEMMA Obtained ==
    ASSUME RevisionCacheInd, NEW q \in Requests, request[q].pc = "getValue",
           NEW v \in Values
    PROVE  LET R == [request[q] EXCEPT !.pc = Use(q), !.val = v]
           IN /\ R \in RequestRecord /\ R.pc \in {"store", "update", "load"}
              /\ R.val = v
              /\ \A f \in [Values -> ValueRecord] :
                    f[v].rev = request[q].rev => RequestOK(R, f, current)
<1> DEFINE me == request[q]
           R == [me EXCEPT !.pc = Use(q), !.val = v]
<1>1. me \in RequestRecord /\ RequestOK(me, value, current) /\ me.pc = "getValue"
  BY DEF RevisionCacheInd, RevisionCacheTypeOK
<1>2. Use(q) \in {"store", "update", "load"} /\ (Use(q) = "store" => me.goal = "put")
  BY DEF Use
<1> HIDE DEF me
<1>4. /\ R \in RequestRecord /\ R.pc = Use(q) /\ R.val = v
      /\ R.rev = me.rev /\ R.goal = me.goal /\ R.from = me.from /\ R.to = me.to
      /\ R.doc = me.doc
  BY <1>1, <1>2 DEF RequestRecord
<1> HIDE DEF R
<1>5. \A f \in [Values -> ValueRecord] : f[v].rev = me.rev => RequestOK(R, f, current)
  BY <1>1, <1>2, <1>4 DEF RequestOK
<1>6. QED
  BY <1>2, <1>4, <1>5 DEF R, me

(* getValue finds the revision in the cache, or does not and creates none. *)
LEMMA FoundStep ==
    ASSUME RevisionCacheInd, NEW q \in Requests, GetValue(q),
           cache[request[q].rev] # NoValue
             \/ request[q].goal \in {"cached", "delta"}
    PROVE  RevisionCacheInd' /\ KeepsBodies
<1> DEFINE r == request[q].rev
<1>0. /\ request[q].pc = "getValue" /\ r \in Revs
      /\ UNCHANGED <<current, backups, errors>>
      /\ current \in 0..MaxRev /\ backups \subseteq Revs /\ errors \in 0..MaxErrors
      /\ value \in [Values -> ValueRecord] /\ current <= current
  BY DEF GetValue, bucketVars, RevisionCacheInd, RequestOK, RevisionCacheTypeOK
<1>1. CASE cache[r] = NoValue
  <2>1. request' = [request EXCEPT ![q] = IdleRequest] /\ UNCHANGED <<cache, lruList, value>>
    BY <1>1 DEF GetValue, cacheVars
  <2>2. QED
    BY <1>0, <2>1, IdleIsRequest, RequestOnly
<1>2. CASE cache[r] # NoValue
  <2> DEFINE v == cache[r]
             R == [request[q] EXCEPT !.pc = Use(q), !.val = v]
             rest == ListWithout(v)
  <2>1. /\ lruList' = <<v>> \o rest /\ UNCHANGED <<cache, value>>
        /\ request' = [request EXCEPT ![q].pc = Use(q), ![q].val = v]
    BY ZenonT(30), <1>2 DEF GetValue
  <2>2. request' = [request EXCEPT ![q] = R]
    BY <2>1
  <2>3. /\ v \in Range(lruList) /\ v \in Values /\ value[v].rev = r
        /\ lruList \in Seq(Values) /\ IsInjective(lruList)
    BY <1>0, <1>2 DEF RevisionCacheInd, RevisionCacheTypeOK, MapMatchesList
  <2>4. /\ rest \in Seq(Values) /\ IsInjective(rest)
        /\ Range(rest) = Range(lruList) \ {v} /\ Len(rest) = Len(lruList) - 1
    <3>1. rest = RemoveAt(lruList, CHOOSE i \in DOMAIN lruList : lruList[i] = v)
      BY DEF ListWithout
    <3> HIDE DEF rest, v
    <3>2. QED
      BY <2>3, <3>1, ListRemove
  <2>5. /\ lruList' \in Seq(Values) /\ IsInjective(lruList')
        /\ Range(lruList') = Range(rest) \cup {v} /\ Len(lruList') = Len(rest) + 1
    <3> HIDE DEF rest, v
    <3>1. v \notin Range(rest) /\ v \in Values
      BY <2>3, <2>4
    <3>2. rest \in Seq(Values) /\ IsInjective(rest) /\ lruList' = <<v>> \o rest
      BY <2>1, <2>4
    <3> DEFINE new == <<v>> \o rest
    <3>3. /\ new \in Seq(Values) /\ IsInjective(new)
          /\ Range(new) = Range(rest) \cup {v} /\ Len(new) = Len(rest) + 1
      BY <3>1, <3>2, ListPush
    <3>4. new = lruList'
      BY <3>2
    <3> HIDE DEF new
    <3>5. QED
      BY <3>3, <3>4
  <2>6. /\ R \in RequestRecord /\ R.pc \in {"store", "update", "load"} /\ R.val = v
        /\ \A f \in [Values -> ValueRecord] :
              f[v].rev = request[q].rev => RequestOK(R, f, current)
    <3> HIDE DEF v
    <3>1. v \in Values
      BY <2>3
    <3>2. request[q].pc = "getValue"
      BY <1>0
    <3>3. QED
      BY <3>1, <3>2, Obtained
  <2>7. Range(lruList') = Range(lruList) /\ Len(lruList') = Len(lruList)
    <3>1. Len(lruList) \in Nat
      BY <2>3
    <3>2. QED
      BY <2>3, <2>4, <2>5, <3>1
  <2> HIDE DEF R, v, rest
  <2>8. /\ UNCHANGED <<cache, value>> /\ request[q].pc # "remove" /\ R.pc # "loading"
        /\ current' \in 0..MaxRev /\ current <= current' /\ backups' \subseteq Revs
        /\ errors' \in 0..MaxErrors
    BY <1>0, <2>1, <2>6
  <2>9. \A f \in [Values -> ValueRecord] :
            (R.val \in Values => f[R.val] = value[R.val]) => RequestOK(R, f, current')
    BY <1>0, <2>3, <2>6
  <2>10. QED
    BY <2>2, <2>5, <2>6, <2>7, <2>8, <2>9, ReorderOnly
<1>3. QED
  BY <1>1, <1>2

(* getValue creates a value, and the oldest is purged from a full cache.   *)
LEMMA CreatedStep ==
    ASSUME RevisionCacheInd, NEW q \in Requests, GetValue(q),
           cache[request[q].rev] = NoValue,
           request[q].goal \notin {"cached", "delta"}
    PROVE  RevisionCacheInd' /\ KeepsBodies
<1> DEFINE r == request[q].rev
           v == Min(Values \ Referenced)
           R == [request[q] EXCEPT !.pc = Use(q), !.val = v]
           full == Len(lruList) = Capacity
           oldest == Last(lruList)
           rest == IF full THEN Front(lruList) ELSE lruList
           f == [value EXCEPT ![v] = EmptyValue(r)]
<1>0. /\ request[q].pc = "getValue" /\ r \in Revs /\ request[q].val = NoValue
      /\ UNCHANGED <<current, backups, errors>>
      /\ current \in 0..MaxRev /\ value \in [Values -> ValueRecord]
      /\ request \in [Requests -> RequestRecord]
      /\ cache \in [Revs -> Values \cup {NoValue}]
      /\ lruList \in Seq(Values) /\ IsInjective(lruList)
      /\ Range(lruList) = {cache[x] : x \in Revs} \ {NoValue}
      /\ \A x \in Revs : cache[x] # NoValue => value[cache[x]].rev = x
      /\ Len(lruList) <= Capacity /\ Len(lruList) \in Nat
  BY DEF GetValue, bucketVars, RevisionCacheInd, RequestOK, RevisionCacheTypeOK,
     MapMatchesList
<1>1. /\ request' = [request EXCEPT ![q].pc = Use(q), ![q].val = v]
      /\ lruList' = <<v>> \o rest
      /\ cache' = IF full THEN [cache EXCEPT ![value[oldest].rev] = NoValue, ![r] = v]
                  ELSE [cache EXCEPT ![r] = v]
      /\ SetValues(f)
  BY DEF GetValue
<1>2. request' = [request EXCEPT ![q] = R]
  BY <1>1
<1>3. v \in Values /\ v \notin Referenced
  BY <1>0, FreshValue
<1>4. NoValue \notin Values /\ Capacity \in Nat /\ Capacity > 0
  BY RevisionCacheAssumption DEF Values, NoValue
<1>5. /\ R \in RequestRecord /\ R.pc \in {"store", "update", "load"} /\ R.val = v
      /\ \A g \in [Values -> ValueRecord] : g[v].rev = r => RequestOK(R, g, current)
  <2> HIDE DEF v
  <2>1. QED
    BY ZenonT(30), <1>0, <1>3, Obtained
<1> HIDE DEF v, R
(* The list: its last value leaves it if it is full.                       *)
<1>6. /\ rest \in Seq(Values) /\ IsInjective(rest)
      /\ Range(rest) = {w \in Range(lruList) : ~(full /\ w = oldest)}
      /\ Len(rest) = (IF full THEN Capacity - 1 ELSE Len(lruList))
      /\ full => oldest \in Range(lruList)
  <2>1. CASE full
    <3>1. Len(lruList) > 0
      BY <1>4, <2>1
    <3>2. /\ Last(lruList) \in Range(lruList)
          /\ Front(lruList) \in Seq(Values) /\ IsInjective(Front(lruList))
          /\ Range(Front(lruList)) = Range(lruList) \ {Last(lruList)}
          /\ Len(Front(lruList)) = Len(lruList) - 1
      BY <1>0, <3>1, ListFront
    <3>3. QED
      BY <2>1, <3>2
  <2>2. CASE ~full
    BY <1>0, <2>2
  <2>3. QED
    BY <2>1, <2>2
<1> HIDE DEF rest, oldest
<1>7. /\ lruList' \in Seq(Values) /\ IsInjective(lruList')
      /\ Range(lruList') = Range(rest) \cup {v} /\ Len(lruList') = Len(rest) + 1
  <2>1. v \notin Range(rest)
    BY <1>3, <1>6 DEF Referenced
  <2> DEFINE new == <<v>> \o rest
  <2>2. /\ new \in Seq(Values) /\ IsInjective(new)
        /\ Range(new) = Range(rest) \cup {v} /\ Len(new) = Len(rest) + 1
    BY <1>3, <1>6, <2>1, ListPush
  <2>3. new = lruList'
    BY <1>1
  <2> HIDE DEF new
  <2>4. QED
    BY <2>2, <2>3
<1>8. Len(lruList') <= Capacity /\ (full => Len(lruList') = Capacity)
  BY <1>0, <1>4, <1>6, <1>7
(* The map: the entry of that value is deleted and the new one is added.   *)
<1>9. full => /\ oldest \in Values /\ value[oldest].rev \in Revs
              /\ value[oldest].rev # r /\ cache[value[oldest].rev] = oldest
  BY <1>0, <1>4, <1>6
<1>10. /\ cache' \in [Revs -> Values \cup {NoValue}]
       /\ cache'[r] = v
       /\ \A x \in Revs : x # r =>
             cache'[x] = IF full /\ x = value[oldest].rev THEN NoValue ELSE cache[x]
  <2>1. CASE full
    BY <1>0, <1>1, <1>3, <1>9, <2>1
  <2>2. CASE ~full
    BY <1>0, <1>1, <1>3, <2>2
  <2>3. QED
    BY <2>1, <2>2
<1> HIDE DEF full
<1>11. \A x \in Revs : x # r /\ cache'[x] # NoValue =>
           /\ cache'[x] = cache[x] /\ cache[x] \in Range(lruList) /\ cache[x] \in Values
           /\ cache[x] # v /\ cache[x] \in Range(lruList') /\ cache[x] \in Referenced'
  <2> SUFFICES ASSUME NEW x \in Revs, x # r, cache'[x] # NoValue
               PROVE  /\ cache'[x] = cache[x] /\ cache[x] \in Range(lruList)
                      /\ cache[x] \in Values /\ cache[x] # v
                      /\ cache[x] \in Range(lruList') /\ cache[x] \in Referenced'
    OBVIOUS
  <2>1. cache'[x] = cache[x] /\ ~(full /\ x = value[oldest].rev)
    BY <1>10
  <2>2. cache[x] \in Range(lruList) /\ cache[x] \in Values /\ value[cache[x]].rev = x
    BY <1>0, <2>1
  <2>3. ~(full /\ cache[x] = oldest)
    BY <2>1, <2>2
  <2>4. cache[x] \in Range(rest) /\ cache[x] # v
    BY <1>3, <1>6, <2>2, <2>3 DEF Referenced
  <2>5. QED
    BY <1>7, <2>1, <2>2, <2>4 DEF Referenced
<1>12. Range(lruList') = {cache'[x] : x \in Revs} \ {NoValue}
  <2>1. \A w \in {cache'[x] : x \in Revs} \ {NoValue} : w \in Range(lruList')
    BY <1>7, <1>10, <1>11
  <2>2. ASSUME NEW w \in Range(lruList')
        PROVE  w \in {cache'[x] : x \in Revs} \ {NoValue}
    <3>1. CASE w = v
      BY <1>0, <1>3, <1>4, <1>10, <3>1
    <3>2. CASE w # v
      <4>1. w \in Range(lruList) /\ ~(full /\ w = oldest)
        BY <1>6, <1>7, <3>2
      <4>2. PICK x \in Revs : cache[x] = w /\ w # NoValue
        BY <1>0, <4>1
      <4>3. x # r /\ ~(full /\ x = value[oldest].rev)
        BY <1>9, <4>1, <4>2
      <4>4. cache'[x] = w
        BY <1>10, <4>2, <4>3
      <4>5. QED
        BY <4>2, <4>4
    <3>3. QED
      BY <3>1, <3>2
  <2>3. QED
    BY <2>1, <2>2
(* The values: the new one is empty, the others are as they were.          *)
<1>13. /\ f \in [Values -> ValueRecord] /\ f[v] = EmptyValue(r)
       /\ \A w \in Values : w # v => f[w] = value[w]
       /\ EmptyValue(r).rev = r /\ EmptyValue(r).body = FALSE
       /\ EmptyValue(r).err = FALSE
  <2>1. /\ EmptyValue(r) \in ValueRecord /\ EmptyValue(r).rev = r
        /\ EmptyValue(r).body = FALSE /\ EmptyValue(r).err = FALSE
    BY <1>0, RevisionCacheAssumption DEF EmptyValue, ValueRecord, Revs, NoDelta
  <2>2. QED
    BY <1>0, <1>3, <2>1
<1>14. /\ value' \in [Values -> ValueRecord]
       /\ \A w \in Values : w \in Referenced' => value'[w] = f[w]
       /\ \A w \in Values : value'[w] = f[w] \/ value'[w] = EmptyValue(0)
  <2> HIDE DEF f
  <2>1. QED
    BY <1>1, <1>13, ValuesSet
<1> HIDE DEF f
<1>15. v \in Referenced' /\ \A p \in Requests : request'[p].val \in Referenced'
  BY <1>7 DEF Referenced
<1>16. request'[q] = R /\ \A p \in Requests : p # q => request'[p] = request[p]
  BY <1>0, <1>2
<1>17. RevisionCacheTypeOK'
  <2>1. request' \in [Requests -> RequestRecord]
    BY <1>0, <1>2, <1>5
  <2>2. QED
    BY <1>0, <1>7, <1>10, <1>14, <2>1 DEF RevisionCacheTypeOK, RevisionCacheInd
<1>18. MapMatchesList'
  <2>1. ASSUME NEW x \in Revs, cache'[x] # NoValue
        PROVE  value'[cache'[x]].rev = x
    <3>1. CASE x = r
      BY <1>3, <1>10, <1>13, <1>14, <1>15, <3>1
    <3>2. CASE x # r
      <4>1. value'[cache'[x]] = value[cache[x]]
        BY <1>11, <1>13, <1>14, <2>1, <3>2
      <4>2. QED
        BY <1>0, <1>11, <2>1, <3>2, <4>1
    <3>3. QED
      BY <3>1, <3>2
  <2>2. QED
    BY <1>7, <1>8, <1>12, <2>1 DEF MapMatchesList
<1>19. FailuresLeave'
  <2> SUFFICES ASSUME NEW x \in Revs, cache'[x] # NoValue, value'[cache'[x]].err
               PROVE  \E p \in Requests : request'[p].pc = "remove"
                                          /\ request'[p].val = cache'[x]
    BY DEF FailuresLeave
  <2>1. x # r
    BY <1>3, <1>10, <1>13, <1>14, <1>15
  <2>2. cache'[x] = cache[x] /\ cache[x] # NoValue /\ value[cache[x]].err
    BY <1>11, <1>13, <1>14, <2>1
  <2>3. PICK p \in Requests : request[p].pc = "remove" /\ request[p].val = cache[x]
    BY <2>2 DEF RevisionCacheInd, FailuresLeave
  <2>4. p # q
    BY <1>0, <2>3
  <2>5. QED
    BY <1>16, <2>2, <2>3, <2>4
<1>20. LocksExclusive'
  BY <1>5, <1>16 DEF RevisionCacheInd, LocksExclusive
<1>21. \A p \in Requests : RequestOK(request'[p], value', current')
  <2> SUFFICES ASSUME NEW p \in Requests
               PROVE  RequestOK(request'[p], value', current')
    OBVIOUS
  <2>1. CASE p = q
    BY <1>0, <1>3, <1>5, <1>13, <1>14, <1>15, <1>16, <2>1
  <2>2. CASE p # q
    <3> DEFINE me == request[p]
    <3>1. request'[p] = me /\ me.val \in Referenced' /\ me.val \in Referenced
      BY <1>15, <1>16, <2>2 DEF Referenced
    <3>2. RequestOK(me, value, current)
      BY DEF RevisionCacheInd
    <3>3. me.val \in Values => value'[me.val] = value[me.val]
      BY <1>3, <1>13, <1>14, <3>1
    <3> HIDE DEF me
    <3>4. RequestOK(me, value', current)
      BY <3>2, <3>3 DEF RequestOK
    <3>5. QED
      BY <1>0, <3>1, <3>4
  <2>3. QED
    BY <2>1, <2>2
<1>22. \A w \in Values : ValueOK(value'[w], current')
  <2> SUFFICES ASSUME NEW w \in Values
               PROVE  ValueOK(value'[w], current)
    BY <1>0
  <2>1. ValueOK(EmptyValue(0), current) /\ ValueOK(EmptyValue(r), current)
    BY DEF ValueOK, EmptyValue
  <2>2. ValueOK(value[w], current)
    BY DEF RevisionCacheInd
  <2>3. QED
    BY <1>13, <1>14, <2>1, <2>2
<1>23. KeepsBodies
  <2>1. ASSUME NEW w \in Range(lruList) \cap Range(lruList')
        PROVE  value'[w] = value[w]
    <3>1. w \in Values /\ w # v /\ w \in Referenced'
      BY <1>0, <1>3 DEF Referenced, Range
    <3>2. QED
      BY <1>13, <1>14, <3>1
  <2>2. ASSUME NEW x \in Revs, cache[x] # NoValue, cache'[x] # cache[x]
        PROVE  Len(lruList) = Capacity /\ Len(lruList') = Capacity
    <3>1. x # r
      BY <2>2
    <3>2. full
      BY <1>10, <2>2, <3>1
    <3>3. QED
      BY <1>8, <3>2 DEF full
  <2>3. QED
    BY <2>1, <2>2 DEF KeepsBodies
<1>24. QED
  BY <1>17, <1>18, <1>19, <1>20, <1>21, <1>22, <1>23 DEF RevisionCacheInd

(* A request uses the value it has: QuietStep with that value.             *)
LEMMA UseStep ==
    ASSUME RevisionCacheInd, NEW q \in Requests, NEW R \in RequestRecord,
           NEW x \in ValueRecord, request[q].val \in Values,
           request[q].pc # "remove", UNCHANGED <<cache, lruList, current, backups>>,
           errors' \in 0..MaxErrors, request' = [request EXCEPT ![q] = R],
           \/ SetValues([value EXCEPT ![request[q].val] = x])
           \/ value' = [value EXCEPT ![request[q].val] = x],
           x.rev = value[request[q].val].rev, ValueOK(x, current),
           value[request[q].val].body =>
               x.body /\ x.atts = value[request[q].val].atts,
           \/ x = value[request[q].val]
           \/ \A p \in Requests \ {q} :
                 ~(request[p].pc = "loading" /\ request[p].val = request[q].val)
           \/ /\ x.body = value[request[q].val].body
              /\ x.err = value[request[q].val].err,
           \/ R.pc = "remove" /\ R.val = request[q].val
           \/ x.err => value[request[q].val].err,
           R.pc = "loading" => \A p \in Requests \ {q} :
               ~(request[p].pc = "loading" /\ request[p].val = R.val),
           R.val \in {request[q].val, NoValue},
           \A f \in [Values -> ValueRecord] :
               (R.val \in Values => f[R.val] = x) => RequestOK(R, f, current)
    PROVE  RevisionCacheInd' /\ KeepsBodies
<1> DEFINE u == request[q].val
           g == [value EXCEPT ![u] = x]
<1>1. /\ value \in [Values -> ValueRecord] /\ lruList \in Seq(Values)
      /\ IsInjective(lruList) /\ current \in 0..MaxRev /\ backups \subseteq Revs
      /\ NoValue \notin Values
  <2>1. NoValue \notin Values
    BY RevisionCacheAssumption DEF Values, NoValue
  <2>2. QED
    BY <2>1 DEF RevisionCacheInd, RevisionCacheTypeOK, MapMatchesList
<1>2. g \in [Values -> ValueRecord] /\ \A v \in Values : g[v] = IF v = u THEN x ELSE value[v]
  BY <1>1
<1>3. /\ value' \in [Values -> ValueRecord]
      /\ \A v \in Values : v \in Referenced' => value'[v] = g[v]
      /\ \A v \in Values : value'[v] = g[v] \/ value'[v] = EmptyValue(0)
  <2>1. CASE value' = g
    BY <1>2, <2>1
  <2>2. CASE SetValues(g)
    <3> HIDE DEF g
    <3>1. QED
      BY <1>2, <2>2, ValuesSet
  <2>3. QED
    BY <2>1, <2>2
<1> HIDE DEF g
<1>4. /\ \A v \in Values : v \in Referenced' =>
             value'[v] = IF v = u THEN x ELSE value[v]
      /\ \A v \in Values : \/ value'[v] = IF v = u THEN x ELSE value[v]
                           \/ value'[v] = EmptyValue(0)
  BY <1>2, <1>3
<1>5. \A f \in [Values -> ValueRecord] :
          (R.val \in Values => f[R.val] = IF R.val = u THEN x ELSE value[R.val])
          => RequestOK(R, f, current')
  BY <1>1
<1>6. /\ current' \in 0..MaxRev /\ current <= current' /\ backups' \subseteq Revs
      /\ ValueOK(x, current')
  BY <1>1
<1>7. /\ lruList' \in Seq(Values) /\ IsInjective(lruList')
      /\ Range(lruList') = Range(lruList) /\ Len(lruList') = Len(lruList)
  BY <1>1
<1>8. QED
  BY ZenonT(30), <1>3, <1>4, <1>5, <1>6, <1>7, QuietStep

(* Loading a value, storing into it, and leaving with it.                  *)
LEMMA ValueStep ==
    ASSUME RevisionCacheInd, NEW q \in Requests,
           \/ LoadHit(q) \/ LoadMiss(q) \/ LoadRevision(q) \/ LoadRemoval(q) \/ LoadError(q)
           \/ Store(q) \/ UpdateDelta(q) \/ Return(q)
    PROVE  RevisionCacheInd' /\ KeepsBodies
<1> DEFINE me == request[q]
           u == me.val
<1>0. /\ me \in RequestRecord /\ RequestOK(me, value, current)
      /\ current \in 0..MaxRev /\ errors \in 0..MaxErrors /\ MaxErrors \in Nat
      /\ value \in [Values -> ValueRecord]
      /\ me.pc \in {"load", "loading", "store", "update", "done"}
  BY RevisionCacheAssumption DEF RevisionCacheInd, RevisionCacheTypeOK, LoadHit, LoadMiss,
     LoadRevision, LoadRemoval, LoadError, Store, UpdateDelta, Return
<1>1. /\ u \in Values /\ value[u] \in ValueRecord /\ value[u].rev = me.rev
      /\ ValueOK(value[u], current) /\ me.rev \in Revs
  BY <1>0 DEF RequestOK, RevisionCacheInd
<1>2. value = [value EXCEPT ![u] = value[u]]
  BY <1>0, <1>1
<1>3. CASE LoadHit(q)
  <2> DEFINE R == Continue(q, value[u])
  <2>1. /\ me.pc = "load" /\ (value[u].body \/ value[u].err)
        /\ request' = [request EXCEPT ![q] = R] /\ SetValues(value)
        /\ UNCHANGED <<cache, lruList, current, backups, errors>>
    BY <1>3 DEF LoadHit, Filled, bucketVars
  <2>2. /\ R \in RequestRecord /\ R.pc # "loading" /\ R.val \in {u, NoValue}
        /\ \A f \in [Values -> ValueRecord] :
              (R.val \in Values => f[R.val].rev = value[u].rev) => RequestOK(R, f, current)
    BY <1>1, <2>1, Continued
  <2> HIDE DEF R
  <2>3. NoValue \notin Values
    BY RevisionCacheAssumption DEF NoValue, Values
  <2>4. \A f \in [Values -> ValueRecord] :
            (R.val \in Values => f[R.val] = value[R.val]) => RequestOK(R, f, current')
    BY <1>1, <2>1, <2>2, <2>3
  <2>5. /\ current' \in 0..MaxRev /\ current <= current' /\ backups' \subseteq Revs
        /\ errors' \in 0..MaxErrors /\ me.pc # "remove"
    <3>1. backups \subseteq Revs
      BY DEF RevisionCacheInd, RevisionCacheTypeOK
    <3>2. current \in 0..MaxRev /\ errors \in 0..MaxErrors
      BY <1>0
    <3>3. current <= current
      BY SMTT(30), <3>2
    <3>4. QED
      BY <2>1, <3>1, <3>2, <3>3
  <2>6. QED
    BY <1>0, <2>1, <2>2, <2>4, <2>5, RequestOnly
<1>4. CASE LoadMiss(q)
  <2> DEFINE R == [me EXCEPT !.pc = "loading",
                             !.doc = IF me.doc = 0 THEN current ELSE me.doc]
  <2>1. /\ me.pc = "load" /\ ~value[u].body /\ ~value[u].err
        /\ \A p \in Requests : ~(request[p].pc = "loading" /\ request[p].val = u)
        /\ request' = [request EXCEPT ![q].pc = "loading",
                           ![q].doc = IF me.doc = 0 THEN current ELSE me.doc]
        /\ UNCHANGED <<cache, lruList, value, current, backups, errors>>
    BY <1>4 DEF LoadMiss, Filled, Unlocked, cacheVars, bucketVars
  <2>2. request' = [request EXCEPT ![q] = R]
    BY <2>1
  <2>3. /\ R \in RequestRecord /\ R.pc = "loading" /\ R.val = u /\ R.rev = me.rev
        /\ R.goal = me.goal /\ R.from = me.from /\ R.to = me.to
        /\ R.doc = IF me.doc = 0 THEN current ELSE me.doc
    BY <1>0 DEF RequestRecord
  <2> HIDE DEF R
  <2>4. \A f \in [Values -> ValueRecord] : f[u] = value[u] => RequestOK(R, f, current)
    BY <1>0, <1>1, <2>1, <2>3 DEF RequestOK
  <2>5. \A f \in [Values -> ValueRecord] :
            (R.val \in Values => f[R.val] = value[u]) => RequestOK(R, f, current)
    BY <1>1, <2>3, <2>4
  <2>6. /\ value' = [value EXCEPT ![u] = value[u]] /\ errors' \in 0..MaxErrors
        /\ \A p \in Requests \ {q} : ~(request[p].pc = "loading" /\ request[p].val = u)
        /\ R.val \in {u, NoValue} /\ me.pc # "remove"
    BY <1>0, <1>2, <2>1, <2>3
  <2> DEFINE x == value[u]
  <2>7. /\ x \in ValueRecord /\ x = value[u] /\ value' = [value EXCEPT ![u] = x]
        /\ x.rev = value[u].rev /\ ValueOK(x, current) /\ ~value[u].body
        /\ x.err => value[u].err
        /\ \A f \in [Values -> ValueRecord] :
              (R.val \in Values => f[R.val] = x) => RequestOK(R, f, current)
    BY <1>1, <2>1, <2>5, <2>6
  <2>8. R.pc = "loading" => \A p \in Requests \ {q} :
            ~(request[p].pc = "loading" /\ request[p].val = R.val)
    BY <2>3, <2>6
  <2> HIDE DEF x
  <2>9. QED
    BY <1>1, <2>1, <2>2, <2>3, <2>6, <2>7, <2>8, UseStep
<1>5. CASE LoadRevision(q)
  <2> DEFINE found == me.rev = me.doc \/ (me.rev < me.doc /\ me.rev \in backups)
             x == [value[u] EXCEPT !.body = found, !.err = ~found,
                                   !.atts = IF found THEN me.doc ELSE 0]
             R == Continue(q, x)
  <2>1. /\ me.pc = "loading" /\ request' = [request EXCEPT ![q] = R]
        /\ SetValues([value EXCEPT ![u] = x])
        /\ UNCHANGED <<cache, lruList, current, backups, errors>>
    BY <1>5 DEF LoadRevision, bucketVars
  <2>2. /\ ~value[u].body /\ me.doc <= current /\ me.doc \in 0..MaxRev
        /\ me.rev \in Nat /\ found \in BOOLEAN
    BY <1>0, <1>1, <2>1 DEF RequestOK, RequestRecord, Revs
  <2>3. found => me.rev <= me.doc
    BY <2>2
  <2> HIDE DEF found
  <2>4. /\ x \in ValueRecord /\ x.rev = me.rev /\ x.body = found /\ x.err = ~found
        /\ x.atts = IF found THEN me.doc ELSE 0
    <3>1. CASE found
      <4>1. x = [value[u] EXCEPT !.body = TRUE, !.err = FALSE, !.atts = me.doc]
        BY <2>2, <3>1
      <4>2. QED
        BY <1>1, <2>2, <3>1, <4>1 DEF ValueRecord
    <3>2. CASE ~found
      <4>1. x = [value[u] EXCEPT !.body = FALSE, !.err = TRUE, !.atts = 0]
        BY <2>2, <3>2
      <4>2. 0 \in 0..MaxRev
        BY RevisionCacheAssumption
      <4> DEFINE y == [value[u] EXCEPT !.body = FALSE, !.err = TRUE, !.atts = 0]
      <4>3. /\ y \in ValueRecord /\ y.rev = value[u].rev /\ y.body = FALSE
            /\ y.err = TRUE /\ y.atts = 0
        BY <1>1, <4>2 DEF ValueRecord
      <4> HIDE DEF x, y
      <4>4. x = y
        BY <4>1 DEF y
      <4>5. found = FALSE
        BY <2>2, <3>2
      <4>6. QED
        BY <1>1, <4>3, <4>4, <4>5
    <3>3. QED
      BY <3>1, <3>2
  <2> HIDE DEF x
  <2>5. (x.body \/ x.err) /\ ValueOK(x, current)
    BY <2>2, <2>3, <2>4 DEF ValueOK
  <2>6. /\ R \in RequestRecord /\ R.pc # "loading" /\ R.val \in {u, NoValue}
        /\ x.err => R.pc = "remove" /\ R.val = u
        /\ \A f \in [Values -> ValueRecord] :
              (R.val \in Values => f[R.val].rev = x.rev) => RequestOK(R, f, current)
    BY <2>1, <2>4, <2>5, Continued
  <2> HIDE DEF R
  <2>7. \A p \in Requests \ {q} : ~(request[p].pc = "loading" /\ request[p].val = u)
    BY <2>1 DEF RevisionCacheInd, LocksExclusive
  <2>8. \A f \in [Values -> ValueRecord] :
            (R.val \in Values => f[R.val] = x) => RequestOK(R, f, current)
    BY <2>6
  <2>9. QED
    BY <1>0, <1>1, <2>1, <2>2, <2>4, <2>5, <2>6, <2>7, <2>8, UseStep
<1>6. CASE LoadRemoval(q)
  <2> DEFINE x == [value[u] EXCEPT !.body = TRUE, !.err = FALSE, !.atts = 0]
             R == Continue(q, x)
  <2>1. /\ me.pc = "loading" /\ me.rev < me.doc /\ request' = [request EXCEPT ![q] = R]
        /\ SetValues([value EXCEPT ![u] = x])
        /\ UNCHANGED <<cache, lruList, current, backups, errors>>
    BY <1>6 DEF LoadRemoval, bucketVars
  <2>2. /\ ~value[u].body /\ me.doc <= current /\ me.doc \in 0..MaxRev /\ me.rev \in Nat
    BY <1>0, <1>1, <2>1 DEF RequestOK, RequestRecord, Revs
  <2>3. 0 \in 0..MaxRev
    BY RevisionCacheAssumption
  <2>4. x \in ValueRecord /\ x.rev = me.rev /\ x.body /\ ~x.err /\ x.atts = 0
    BY <1>1, <2>3 DEF ValueRecord
  <2> HIDE DEF x
  <2>5. (x.body \/ x.err) /\ ValueOK(x, current)
    BY <1>0, <2>1, <2>2, <2>4 DEF ValueOK
  <2>6. /\ R \in RequestRecord /\ R.pc # "loading" /\ R.val \in {u, NoValue}
        /\ x.err => R.pc = "remove" /\ R.val = u
        /\ \A f \in [Values -> ValueRecord] :
              (R.val \in Values => f[R.val].rev = x.rev) => RequestOK(R, f, current)
    BY <2>1, <2>4, <2>5, Continued
  <2> HIDE DEF R
  <2>7. \A p \in Requests \ {q} : ~(request[p].pc = "loading" /\ request[p].val = u)
    BY <2>1 DEF RevisionCacheInd, LocksExclusive
  <2>8. \A f \in [Values -> ValueRecord] :
            (R.val \in Values => f[R.val] = x) => RequestOK(R, f, current)
    BY <2>6
  <2>9. QED
    BY <1>0, <1>1, <2>1, <2>2, <2>4, <2>5, <2>6, <2>7, <2>8, UseStep
<1>7. CASE LoadError(q)
  <2> DEFINE x == [value[u] EXCEPT !.err = TRUE]
             R == [me EXCEPT !.pc = "remove"]
  <2>1. /\ me.pc = "loading" /\ request' = [request EXCEPT ![q].pc = "remove"]
        /\ errors < MaxErrors /\ errors' = errors + 1
        /\ value' = [value EXCEPT ![u].err = TRUE]
        /\ UNCHANGED <<cache, lruList, current, backups>>
    BY <1>7 DEF LoadError, bucketVars
  <2>2. request' = [request EXCEPT ![q] = R] /\ value' = [value EXCEPT ![u] = x]
    BY <2>1
  <2>3. /\ x \in ValueRecord /\ x.rev = value[u].rev /\ x.body = value[u].body
        /\ x.atts = value[u].atts
    BY <1>1 DEF ValueRecord
  <2>4. ValueOK(x, current)
    BY <1>1, <2>3 DEF ValueOK
  <2>5. /\ R \in RequestRecord /\ R.pc = "remove" /\ R.val = u /\ R.rev = me.rev
        /\ R.goal = me.goal /\ R.from = me.from /\ R.to = me.to /\ R.doc = me.doc
    BY <1>0 DEF RequestRecord
  <2> HIDE DEF x, R
  <2>6. \A f \in [Values -> ValueRecord] : f[u] = x => RequestOK(R, f, current)
    BY <1>0, <1>1, <2>3, <2>5 DEF RequestOK
  <2>7. \A f \in [Values -> ValueRecord] :
            (R.val \in Values => f[R.val] = x) => RequestOK(R, f, current)
    BY <1>1, <2>5, <2>6
  <2>8. \A p \in Requests \ {q} : ~(request[p].pc = "loading" /\ request[p].val = u)
    BY <2>1 DEF RevisionCacheInd, LocksExclusive
  <2>9. errors' \in 0..MaxErrors
    <3>1. /\ errors \in 0..MaxErrors /\ MaxErrors \in Nat /\ errors < MaxErrors
          /\ errors' = errors + 1
      BY SMTT(30), <1>0, <2>1
    <3>2. QED
      BY <3>1
  <2>10. QED
    BY <1>0, <1>1, <2>1, <2>2, <2>3, <2>4, <2>5, <2>7, <2>8, <2>9, UseStep
<1>8. CASE Store(q)
  <2> DEFINE x == IF value[u].body THEN value[u]
                  ELSE [value[u] EXCEPT !.body = TRUE, !.err = FALSE, !.atts = me.rev]
  <2>1. /\ me.pc = "store" /\ request' = [request EXCEPT ![q] = IdleRequest]
        /\ \A p \in Requests : ~(request[p].pc = "loading" /\ request[p].val = u)
        /\ SetValues(IF value[u].body THEN value
                     ELSE [value EXCEPT ![u].body = TRUE, ![u].err = FALSE,
                                        ![u].atts = me.rev])
        /\ UNCHANGED <<cache, lruList, current, backups, errors>>
    BY <1>8 DEF Store, Unlocked, bucketVars
  <2>2. me.rev <= current /\ me.rev \in 0..MaxRev /\ me.rev \in Nat
    BY <1>0, <1>1, <2>1 DEF RequestOK, RequestRecord, Revs
  <2>3. SetValues([value EXCEPT ![u] = x])
    <3>1. CASE value[u].body
      BY <1>2, <2>1, <3>1
    <3>2. CASE ~value[u].body
      BY <2>1, <3>2
    <3>3. QED
      BY <3>1, <3>2
  <2>4. /\ x \in ValueRecord /\ x.rev = value[u].rev /\ ValueOK(x, current)
        /\ value[u].body => x.body /\ x.atts = value[u].atts
        /\ x.err => value[u].err
    <3>1. CASE value[u].body
      BY <1>1, <3>1
    <3>2. CASE ~value[u].body
      <4> DEFINE y == [value[u] EXCEPT !.body = TRUE, !.err = FALSE, !.atts = me.rev]
      <4>1. x = y
        BY <3>2
      <4>2. /\ y \in ValueRecord /\ y.rev = me.rev /\ y.atts = me.rev
            /\ y.err = FALSE
        BY <1>1, <2>2 DEF ValueRecord
      <4> HIDE DEF y, x
      <4>3. QED
        BY <1>1, <2>2, <3>2, <4>1, <4>2 DEF ValueOK
    <3>3. QED
      BY <3>1, <3>2
  <2> HIDE DEF x
  <2>5. QED
    BY <1>0, <1>1, <2>1, <2>3, <2>4, IdleIsRequest, UseStep
<1>9. CASE UpdateDelta(q)
  <2> DEFINE x == [value[u] EXCEPT !.delta = me.to]
  <2>1. /\ me.pc = "update" /\ request' = [request EXCEPT ![q] = IdleRequest]
        /\ SetValues([value EXCEPT ![u].delta = me.to])
        /\ UNCHANGED <<cache, lruList, current, backups, errors>>
    BY <1>9 DEF UpdateDelta, bucketVars
  <2>2. SetValues([value EXCEPT ![u] = x])
    BY <2>1
  <2>3. /\ x \in ValueRecord /\ x.rev = value[u].rev /\ x.body = value[u].body
        /\ x.atts = value[u].atts /\ x.err = value[u].err
    BY <1>0, <1>1 DEF ValueRecord, RequestRecord
  <2> HIDE DEF x
  <2>4. ValueOK(x, current)
    BY <1>1, <2>3 DEF ValueOK
  <2>5. QED
    BY <1>0, <1>1, <2>1, <2>2, <2>3, <2>4, IdleIsRequest, UseStep
<1>10. CASE Return(q)
  <2>1. /\ me.pc = "done" /\ request' = [request EXCEPT ![q] = IdleRequest]
        /\ SetValues(value) /\ UNCHANGED <<cache, lruList, current, backups, errors>>
    BY <1>10 DEF Return, bucketVars
  <2>2. QED
    BY <1>0, <1>1, <1>2, <2>1, IdleIsRequest, UseStep
<1>11. QED
  BY <1>3, <1>4, <1>5, <1>6, <1>7, <1>8, <1>9, <1>10

(* A failed value is removed, or has already left the cache.               *)
LEMMA RemoveStep ==
    ASSUME RevisionCacheInd, NEW q \in Requests, RemoveValue(q)
    PROVE  RevisionCacheInd' /\ KeepsBodies
<1> DEFINE me == request[q]
           u == me.val
           r == me.rev
<1>0. /\ request \in [Requests -> RequestRecord] /\ value \in [Values -> ValueRecord]
      /\ cache \in [Revs -> Values \cup {NoValue}] /\ lruList \in Seq(Values)
      /\ current \in 0..MaxRev /\ backups \subseteq Revs /\ errors \in 0..MaxErrors
      /\ IsInjective(lruList) /\ Len(lruList) <= Capacity
      /\ Range(lruList) = {cache[x] : x \in Revs} \ {NoValue}
      /\ \A x \in Revs : cache[x] # NoValue => value[cache[x]].rev = x
  BY DEF RevisionCacheInd, RevisionCacheTypeOK, MapMatchesList
<1>1. /\ me.pc = "remove" /\ request' = [request EXCEPT ![q] = IdleRequest]
      /\ SetValues(value) /\ UNCHANGED <<current, backups, errors>>
  BY DEF RemoveValue, bucketVars
<1>2. /\ r \in Revs /\ u \in Values /\ value[u].rev = r /\ NoValue \notin Values
  <2>1. NoValue \notin Values
    BY RevisionCacheAssumption DEF Values, NoValue
  <2>2. QED
    BY <1>1, <2>1 DEF RevisionCacheInd, RequestOK
<1>3. CASE cache[r] # u
  <2>1. UNCHANGED <<cache, lruList>>
    BY <1>3 DEF RemoveValue
  <2>2. \A x \in Revs : cache[x] # u
    BY <1>0, <1>2, <1>3
  <2>3. /\ current' \in 0..MaxRev /\ current <= current' /\ backups' \subseteq Revs
        /\ errors' \in 0..MaxErrors
    BY <1>0, <1>1
  <2>4. \A f \in [Values -> ValueRecord] : RequestOK(IdleRequest, f, current')
    BY <2>3, IdleIsRequest
  <2>5. QED
    BY <1>1, <2>1, <2>2, <2>3, <2>4, IdleIsRequest, RequestOnly
<1>4. CASE cache[r] = u
  <2>1. /\ cache' = [cache EXCEPT ![r] = NoValue]
        /\ lruList' = RemoveAt(lruList, CHOOSE i \in DOMAIN lruList : lruList[i] = u)
    BY <1>4 DEF RemoveValue, ListWithout
  <2>2. u \in Range(lruList)
    BY <1>0, <1>2, <1>4
  <2>3. /\ lruList' \in Seq(Values) /\ IsInjective(lruList')
        /\ Range(lruList') = Range(lruList) \ {u} /\ Len(lruList') = Len(lruList) - 1
    <3> HIDE DEF me, u, r
    <3> DEFINE rest == lruList'
    <3>1. rest = RemoveAt(lruList, CHOOSE i \in DOMAIN lruList : lruList[i] = u)
      BY <2>1
    <3> HIDE DEF rest
    <3>2. /\ rest \in Seq(Values) /\ IsInjective(rest)
          /\ Range(rest) = Range(lruList) \ {u} /\ Len(rest) = Len(lruList) - 1
      <4>1. lruList \in Seq(Values) /\ IsInjective(lruList)
        BY <1>0
      <4>2. QED
        BY <2>2, <3>1, <4>1, ListRemove
    <3>3. QED
      BY <3>2 DEF rest
  <2>4. /\ value' \in [Values -> ValueRecord]
        /\ \A v \in Values : v \in Referenced' => value'[v] = value[v]
        /\ \A v \in Values : value'[v] = value[v] \/ value'[v] = EmptyValue(0)
    BY <1>0, <1>1, ValuesSet
  <2>5. /\ cache' \in [Revs -> Values \cup {NoValue}] /\ cache'[r] = NoValue
        /\ \A x \in Revs : x # r => cache'[x] = cache[x]
    BY <1>0, <1>2, <2>1
  <2>6. /\ request' \in [Requests -> RequestRecord] /\ request'[q] = IdleRequest
        /\ \A p \in Requests : p # q => request'[p] = request[p]
    BY <1>0, <1>1, IdleIsRequest
  <2>7. \A x \in Revs : x # r /\ cache[x] # NoValue => cache[x] # u
    BY <1>0, <1>2
  <2>8. Range(lruList') = {cache'[x] : x \in Revs} \ {NoValue}
    <3> HIDE DEF me, u, r
    <3>1. ASSUME NEW v \in Range(lruList')
          PROVE  v # NoValue /\ \E x \in Revs : v = cache'[x]
      <4>1. PICK x \in Revs : v = cache[x] /\ v # NoValue /\ v # u
        BY <1>0, <2>3, <3>1
      <4>2. x # r
        BY <1>4, <4>1
      <4>3. QED
        BY <2>5, <4>1, <4>2
    <3>2. ASSUME NEW x \in Revs, cache'[x] # NoValue
          PROVE  cache'[x] \in Range(lruList')
      <4>1. x # r /\ cache'[x] = cache[x] /\ cache[x] # u
        BY <2>5, <2>7, <3>2
      <4>2. QED
        BY <1>0, <2>3, <3>2, <4>1
    <3>3. QED
      BY <3>1, <3>2
  <2>9. RevisionCacheTypeOK'
    BY <1>0, <1>1, <2>3, <2>4, <2>5, <2>6 DEF RevisionCacheTypeOK
  <2>10. ASSUME NEW x \in Revs, cache'[x] # NoValue
         PROVE  x # r /\ cache'[x] = cache[x] /\ value'[cache'[x]] = value[cache[x]]
    <3>1. x # r /\ cache'[x] = cache[x] /\ cache[x] \in Values
      BY <1>0, <2>5, <2>10
    <3>2. cache'[x] \in Referenced'
      BY <2>8, <2>10 DEF Referenced
    <3>3. QED
      BY <2>4, <3>1, <3>2
  <2>11. MapMatchesList'
    <3>1. Len(lruList') <= Capacity
      BY <1>0, <2>3, RevisionCacheAssumption
    <3>2. \A x \in Revs : cache'[x] # NoValue => value'[cache'[x]].rev = x
      BY <1>0, <2>10
    <3>3. QED
      BY <2>3, <2>8, <3>1, <3>2 DEF MapMatchesList
  <2>12. FailuresLeave'
    <3> SUFFICES ASSUME NEW x \in Revs, cache'[x] # NoValue, value'[cache'[x]].err
                 PROVE  \E p \in Requests : /\ request'[p].pc = "remove"
                                            /\ request'[p].val = cache'[x]
      BY DEF FailuresLeave
    <3>1. x # r /\ cache'[x] = cache[x] /\ value[cache[x]].err
      BY <2>10
    <3>2. PICK p \in Requests : request[p].pc = "remove" /\ request[p].val = cache[x]
      BY <3>1 DEF RevisionCacheInd, FailuresLeave
    <3>3. p # q
      BY <2>7, <3>1, <3>2
    <3>4. QED
      BY <2>6, <3>1, <3>2, <3>3
  <2>13. LocksExclusive'
    <3>1. \A p \in Requests : request'[p].pc = "loading" =>
              request'[p] = request[p]
      BY <2>6, IdleIsRequest
    <3>2. QED
      BY <3>1 DEF RevisionCacheInd, LocksExclusive
  <2>14. \A p \in Requests : RequestOK(request'[p], value', current')
    <3>2. ASSUME NEW p \in Requests, p # q
          PROVE  RequestOK(request'[p], value', current')
      <4> DEFINE R == request[p]
      <4>1. request'[p] = R /\ RequestOK(R, value, current) /\ current' = current
        BY <1>1, <2>6, <3>2 DEF RevisionCacheInd
      <4>2. R.val \in Values => value'[R.val] = value[R.val]
        <5>1. R.val \in Referenced'
          BY <4>1 DEF Referenced
        <5>2. QED
          BY <2>4, <5>1
      <4> HIDE DEF R
      <4>3. RequestOK(R, value', current)
        BY <4>1, <4>2 DEF RequestOK
      <4>4. QED
        BY <4>1, <4>3
    <3>3. RequestOK(request'[q], value', current')
      BY <1>0, <1>1, <2>4, <2>6, IdleIsRequest
    <3>4. QED
      BY <3>2, <3>3
  <2>15. \A v \in Values : ValueOK(value'[v], current')
    <3>1. ValueOK(EmptyValue(0), current)
      BY DEF ValueOK, EmptyValue
    <3>2. QED
      BY <1>1, <2>4, <3>1 DEF RevisionCacheInd
  <2>16. KeepsBodies
    <3>1. ASSUME NEW v \in Range(lruList) \cap Range(lruList')
          PROVE  value'[v] = value[v]
      <4>1. v \in Values /\ v \in Referenced'
        BY <1>0 DEF Referenced, Range
      <4>2. QED
        BY <2>4, <4>1
    <3>2. ASSUME NEW x \in Revs, cache'[x] # cache[x]
          PROVE  request[q].pc = "remove" /\ request[q].val = cache[x]
      BY <1>1, <1>4, <2>5, <3>2
    <3>3. QED
      BY <3>1, <3>2 DEF KeepsBodies
  <2>17. QED
    BY <2>9, <2>11, <2>12, <2>13, <2>14, <2>15, <2>16 DEF RevisionCacheInd
<1>5. QED
  BY <1>3, <1>4

(* Every step preserves the invariant, and takes no body from the cache    *)
(* that is to stay.                                                        *)
LEMMA RevisionCacheStep ==
    ASSUME RevisionCacheInd, [RevisionCacheNext]_revisionCacheVars
    PROVE  RevisionCacheInd' /\ [KeepsBodies]_revisionCacheVars
<1>1. ASSUME NEW r \in Revs, BackupExpires(r)
      PROVE  RevisionCacheInd' /\ KeepsBodies
  <2>1. /\ UNCHANGED <<cache, lruList, value, request, current, errors>>
        /\ backups' \subseteq backups
    BY <1>1 DEF BackupExpires, cacheVars
  <2>2. RevisionCacheInd'
    <3>1. RevisionCacheTypeOK' /\ MapMatchesList' /\ FailuresLeave' /\ LocksExclusive'
      BY <2>1 DEF RevisionCacheInd, RevisionCacheTypeOK, MapMatchesList, FailuresLeave,
         LocksExclusive
    <3>2. /\ \A q \in Requests : RequestOK(request'[q], value', current')
          /\ \A v \in Values : ValueOK(value'[v], current')
      BY <2>1 DEF RevisionCacheInd
    <3>3. QED
      BY <3>1, <3>2 DEF RevisionCacheInd
  <2>3. KeepsBodies
    BY <2>1 DEF KeepsBodies
  <2>4. QED
    BY <2>2, <2>3
<1>2. ASSUME NEW q \in Requests, GetValue(q)
      PROVE  RevisionCacheInd' /\ KeepsBodies
  BY <1>2, FoundStep, CreatedStep
<1>3. CASE UNCHANGED revisionCacheVars
  <2>1. UNCHANGED <<cache, lruList, value, request, current, backups, errors>>
    BY <1>3 DEF revisionCacheVars, cacheVars, bucketVars
  <2>2. RevisionCacheTypeOK' /\ MapMatchesList' /\ FailuresLeave' /\ LocksExclusive'
    BY <2>1 DEF RevisionCacheInd, RevisionCacheTypeOK, MapMatchesList, FailuresLeave,
       LocksExclusive
  <2>3. /\ \A q \in Requests : RequestOK(request'[q], value', current')
        /\ \A v \in Values : ValueOK(value'[v], current')
    BY <2>1 DEF RevisionCacheInd
  <2>4. QED
    BY <1>3, <2>2, <2>3 DEF RevisionCacheInd
<1>4. CASE RevisionCacheNext
  BY <1>1, <1>2, <1>4, BeginStep, ValueStep, RemoveStep DEF RevisionCacheNext
<1>5. QED
  BY <1>3, <1>4

(* Requests that read, store, diff and remove revisions concurrently keep  *)
(* the cache consistent, whatever the capacity: the map and the LRU list   *)
(* hold the same values, a failed load always has a request that removes   *)
(* it, GetActive returns its own revision's attachments, and a body stays  *)
(* until the cache is full (db/revision_cache.go).                         *)
THEOREM RevisionCacheIsSafe == RevisionCacheSpec => RevisionCacheSafe
<1>1. RevisionCacheInit => RevisionCacheInd
  <2> SUFFICES ASSUME RevisionCacheInit
               PROVE  RevisionCacheInd
    OBVIOUS
  <2>0. /\ MaxRev \in Nat /\ 0 \in 0..MaxRev /\ 0 \in 0..MaxErrors /\ Capacity \in Nat
        /\ 0 <= Capacity /\ 0 <= 0
    BY RevisionCacheAssumption
  <2>1. EmptyValue(0) \in ValueRecord
    BY <2>0 DEF EmptyValue, ValueRecord, NoDelta
  <2>2. /\ lruList = <<>> /\ current = 0 /\ backups = {} /\ errors = 0
        /\ \A r \in Revs : cache[r] = NoValue
        /\ \A v \in Values : value[v] = EmptyValue(0)
        /\ \A q \in Requests : request[q] = IdleRequest
    BY DEF RevisionCacheInit
  <2>3. RevisionCacheTypeOK
    BY <2>0, <2>1, IdleIsRequest DEF RevisionCacheInit, RevisionCacheTypeOK
  <2>4. MapMatchesList
    <3>1. Len(lruList) = 0 /\ IsInjective(lruList) /\ Range(lruList) = {}
      BY <2>2 DEF IsInjective, Range
    <3>2. QED
      BY <2>0, <2>2, <3>1 DEF MapMatchesList
  <2>5. FailuresLeave
    BY <2>2 DEF FailuresLeave
  <2>6. LocksExclusive
    BY <2>2, IdleIsRequest DEF LocksExclusive
  <2>7. \A q \in Requests : RequestOK(request[q], value, current)
    BY <2>0, <2>2, <2>3, IdleIsRequest DEF RevisionCacheTypeOK
  <2>8. \A v \in Values : ValueOK(value[v], current)
    BY <2>2 DEF ValueOK, EmptyValue
  <2>9. QED
    BY <2>3, <2>4, <2>5, <2>6, <2>7, <2>8 DEF RevisionCacheInd
<1>2. RevisionCacheInd /\ [RevisionCacheNext]_revisionCacheVars
        => RevisionCacheInd' /\ [KeepsBodies]_revisionCacheVars
  BY RevisionCacheStep
<1>3. RevisionCacheInd => CacheConsistent
  <2> SUFFICES ASSUME RevisionCacheInd
               PROVE  ActiveIsOwn
    BY DEF RevisionCacheInd, CacheConsistent
  <2>1. ASSUME NEW q \in Requests, request[q].pc = "done"
        PROVE  request[q].rev = current => request[q].atts = request[q].rev
    <3>1. (request[q].rev <= request[q].atts /\ request[q].atts <= current) \/ request[q].rev < current
      BY <2>1 DEF RevisionCacheInd, RequestOK
    <3>2. request[q].rev \in Nat /\ request[q].atts \in Nat /\ current \in Nat
      BY DEF RevisionCacheInd, RevisionCacheTypeOK, RequestRecord
    <3>3. QED
      BY <3>1, <3>2
  <2>2. QED
    BY <2>1 DEF ActiveIsOwn
<1>4. QED
  BY <1>1, <1>2, <1>3, PTL DEF RevisionCacheSpec, RevisionCacheSafe, BodiesStay

----------------------------------------------------------------------------
(* Single-key and bulk operations of the bucket.                           *)

(* A document that does not exist has no content and CAS 0, which is that  *)
(* of no document; other CAS values are given out in order.                *)
DocOK == doc.cas <= lastCas /\ (doc.cas = 0 => doc.content = {})

(* What an operation read is what the document holds, as long as the CAS   *)
(* it read is that of the document.                                        *)
BaseOK(q) ==
    /\ q.cas <= lastCas
    /\ q.kind \in {"writeCas", "update"} =>
          (q.cas = 0 => q.base = {}) /\ (q.cas = doc.cas => q.base = doc.content)

StageOK(q) ==
    /\ q.pc # "idle" => q.kind # "none"
    /\ q.pc \in {"purge", "xattrRead", "nestedSlot", "nestedRead", "remove"} => q.kind = "purge"
    /\ q.pc # "done" => q.result = "none"

(* An operation that has not ended was not carried out, or was with an     *)
(* error.                                                                  *)
UnendedNotApplied(o) == op[o].pc # "done" => applied[o] = 0 \/ o \in ambiguous

BucketInd ==
    /\ UpdatesApplied
    /\ DocOK
    /\ \A o \in Ops : BaseOK(op[o]) /\ StageOK(op[o]) /\ UnendedNotApplied(o)

----------------------------------------------------------------------------
(* The slots an operation holds at its stage.                              *)
Holds(q) ==
    (IF q.pc \in {"call", "read", "purge", "xattrRead", "nestedSlot", "nestedRead", "remove"}
     THEN 1 ELSE 0) + (IF q.pc = "nestedRead" THEN 1 ELSE 0)

(* The cardinality of a set of operations when one of them may enter or    *)
(* leave it.                                                               *)
LEMMA OneMoves ==
    ASSUME NEW S, NEW T, NEW o, IsFiniteSet(S), S \ {o} = T \ {o}
    PROVE  /\ IsFiniteSet(T) /\ Cardinality(S) \in Nat /\ Cardinality(T) \in Nat
           /\ Cardinality(T) = Cardinality(S) + (IF o \in T THEN 1 ELSE 0)
                                              - (IF o \in S THEN 1 ELSE 0)
<1> DEFINE R == S \ {o}
<1>1. IsFiniteSet(R) /\ Cardinality(R) \in Nat /\ Cardinality(S) \in Nat
  BY FS_RemoveElement, FS_CardinalityType
<1>2. S = IF o \in S THEN R \cup {o} ELSE R
  OBVIOUS
<1>3. T = IF o \in T THEN R \cup {o} ELSE R
  OBVIOUS
<1>4. o \notin R
  OBVIOUS
<1> HIDE DEF R
<1>5. IsFiniteSet(R \cup {o}) /\ Cardinality(R \cup {o}) = Cardinality(R) + 1
  BY <1>1, <1>4, FS_AddElement
<1>6. Cardinality(S) = Cardinality(R) + (IF o \in S THEN 1 ELSE 0)
  BY <1>1, <1>2, <1>5
<1>7. Cardinality(T) = Cardinality(R) + (IF o \in T THEN 1 ELSE 0) /\ IsFiniteSet(T)
  <2>1. CASE o \in T
    <3>1. T = R \cup {o}
      BY <1>3, <2>1
    <3> QED
      BY <1>1, <1>5, <2>1, <3>1
  <2>2. CASE o \notin T
    <3>1. T = R
      BY <1>3, <2>2
    <3> QED
      BY <1>1, <2>2, <3>1
  <2> QED
    BY <2>1, <2>2
<1> QED
  BY <1>1, <1>6, <1>7

(* The count of the slots follows the stage of the operation that moves.   *)
LEMMA SlotsStep ==
    ASSUME BucketTypeOK, SlotsReturned, NEW o \in Ops, NEW q \in OpRecord,
           op' = [op EXCEPT ![o] = q], slots' = slots + Holds(q) - Holds(op[o])
    PROVE  SlotsReturned'
<1>1. /\ op'[o] = q /\ \A p \in Ops : p # o => op'[p] = op[p]
  BY DEF BucketTypeOK
<1>2. IsFiniteSet(Ops)
  BY FS_Interval, BucketOpsAssumption DEF Ops
<1>3. IsFiniteSet(HoldingSlot) /\ IsFiniteSet(HoldingTwo)
  <2>1. HoldingSlot \in SUBSET Ops /\ HoldingTwo \in SUBSET Ops
    BY DEF HoldingSlot, HoldingTwo
  <2> QED
    BY <1>2, <2>1, FS_Subset
<1>4. HoldingSlot \ {o} = HoldingSlot' \ {o} /\ HoldingTwo \ {o} = HoldingTwo' \ {o}
  BY <1>1 DEF HoldingSlot, HoldingTwo
<1>5. /\ o \in HoldingSlot <=>
            op[o].pc \in {"call", "read", "purge", "xattrRead", "nestedSlot", "nestedRead", "remove"}
      /\ o \in HoldingSlot' <=>
            q.pc \in {"call", "read", "purge", "xattrRead", "nestedSlot", "nestedRead", "remove"}
      /\ o \in HoldingTwo <=> op[o].pc = "nestedRead"
      /\ o \in HoldingTwo' <=> q.pc = "nestedRead"
  BY <1>1 DEF HoldingSlot, HoldingTwo
<1>6. /\ Cardinality(HoldingSlot) \in Nat /\ Cardinality(HoldingSlot') \in Nat
      /\ Cardinality(HoldingSlot') = Cardinality(HoldingSlot)
            + (IF o \in HoldingSlot' THEN 1 ELSE 0) - (IF o \in HoldingSlot THEN 1 ELSE 0)
  BY <1>3, <1>4, OneMoves
<1>7. /\ Cardinality(HoldingTwo) \in Nat /\ Cardinality(HoldingTwo') \in Nat
      /\ Cardinality(HoldingTwo') = Cardinality(HoldingTwo)
            + (IF o \in HoldingTwo' THEN 1 ELSE 0) - (IF o \in HoldingTwo THEN 1 ELSE 0)
  BY <1>3, <1>4, OneMoves
<1>8. slots' = Cardinality(HoldingSlot') + Cardinality(HoldingTwo')
  BY <1>5, <1>6, <1>7 DEF Holds, SlotsReturned
<1> QED
  BY <1>8 DEF SlotsReturned

(* The slots are at least those that one operation holds.                  *)
LEMMA SlotsHeld ==
    ASSUME BucketTypeOK, SlotsReturned, NEW o \in Ops
    PROVE  Holds(op[o]) <= slots
<1>1. IsFiniteSet(Ops)
  BY FS_Interval, BucketOpsAssumption DEF Ops
<1>2. /\ IsFiniteSet(HoldingSlot) /\ IsFiniteSet(HoldingTwo)
      /\ Cardinality(HoldingSlot) \in Nat /\ Cardinality(HoldingTwo) \in Nat
  <2>1. HoldingSlot \in SUBSET Ops /\ HoldingTwo \in SUBSET Ops
    BY DEF HoldingSlot, HoldingTwo
  <2> QED
    BY <1>1, <2>1, FS_Subset, FS_CardinalityType
<1>3. o \in HoldingSlot => Cardinality(HoldingSlot) >= 1
  <2>1. o \in HoldingSlot => Cardinality(HoldingSlot) # 0
    BY <1>2, FS_EmptySet
  <2> QED
    BY <1>2, <2>1
<1>4. o \in HoldingTwo => Cardinality(HoldingTwo) >= 1
  <2>1. o \in HoldingTwo => Cardinality(HoldingTwo) # 0
    BY <1>2, FS_EmptySet
  <2> QED
    BY <1>2, <2>1
<1> QED
  BY <1>2, <1>3, <1>4 DEF Holds, HoldingSlot, HoldingTwo, SlotsReturned

----------------------------------------------------------------------------
(* A step of one operation that leaves the document alone.                 *)
LEMMA BucketQuietStep ==
    ASSUME BucketInd, NEW o \in Ops, NEW q \in OpRecord,
           op' = [op EXCEPT ![o] = q], op[o].pc # "done",
           slots' = slots + Holds(q) - Holds(op[o]), slots' \in 0..MaxSingleOps,
           faults' \in 0..MaxFaults, UNCHANGED docVars, UNCHANGED ambiguous,
           q.result # "ok", BaseOK(q), StageOK(q)
    PROVE  BucketInd'
<1>1. op'[o] = q /\ \A p \in Ops : p # o => op'[p] = op[p]
  BY DEF BucketInd, UpdatesApplied, BucketTypeOK
<1>2. UNCHANGED <<doc, lastCas, applied, wiped>>
  BY DEF docVars
<1>3. BucketTypeOK'
  BY <1>2 DEF BucketInd, UpdatesApplied, BucketTypeOK
<1>4. SlotsReturned'
  BY SlotsStep DEF BucketInd, UpdatesApplied
<1>5. NoLostWrite'
  BY <1>1, <1>2 DEF BucketInd, UpdatesApplied, NoLostWrite, Modifies
<1>6. AppliedOnce' /\ RefusedChangesNothing'
  BY <1>1, <1>2 DEF BucketInd, UpdatesApplied, AppliedOnce, RefusedChangesNothing,
     UnendedNotApplied
<1>7. DocOK'
  BY <1>2 DEF BucketInd, DocOK
<1>8. ASSUME NEW p \in Ops
      PROVE  BaseOK(op[p])' /\ StageOK(op[p])' /\ UnendedNotApplied(p)'
  BY <1>1, <1>2 DEF BucketInd, BaseOK, StageOK, UnendedNotApplied
<1> QED
  BY <1>3, <1>4, <1>5, <1>6, <1>7, <1>8 DEF BucketInd, UpdatesApplied

(* A step in which the server carries out the operation.  A new CAS value  *)
(* is larger than all that were read, so a write whose CAS matches adds to *)
(* exactly what the document holds.                                        *)
LEMMA ApplyStep ==
    ASSUME BucketInd, NEW o \in Ops, NEW q \in OpRecord,
           op' = [op EXCEPT ![o] = q], op[o].pc \notin {"idle", "done"},
           slots' = slots + Holds(q) - Holds(op[o]), slots' \in 0..MaxSingleOps,
           faults' \in 0..MaxFaults, Answer(o) = "ok", Apply(o),
           q.kind = op[o].kind, q.cas = op[o].cas, q.base = op[o].base, StageOK(q),
           \/ q.pc = "done" /\ q.result = "ok" /\ UNCHANGED ambiguous
           \/ q.result # "ok" /\ ambiguous' = ambiguous \cup {o}
    PROVE  BucketInd'
<1> DEFINE k == op[o].kind
<1>t. BucketTypeOK /\ op[o] \in OpRecord /\ k \in Kinds
  <2>1. BucketTypeOK /\ op[o] \in OpRecord /\ k # "none"
    BY DEF BucketInd, UpdatesApplied, BucketTypeOK, StageOK
  <2> QED
    BY <2>1 DEF OpRecord
<1>k. k \in {"add", "set", "delete", "writeCas", "update", "incr", "purge"}
  BY <1>t, BucketOpsAssumption
<1>1. op'[o] = q /\ \A p \in Ops : p # o => op'[p] = op[p]
  BY <1>t DEF BucketTypeOK
<1>2. /\ lastCas' = lastCas + 1
      /\ applied'[o] = applied[o] + 1 /\ \A p \in Ops : p # o => applied'[p] = applied[p]
      /\ applied' \in [Ops -> Nat]
  BY <1>t DEF Apply, BucketTypeOK
<1>3. /\ k \in {"delete", "purge"} => doc' = NoDoc
      /\ k \in {"add", "set"} => doc' = [cas |-> lastCas + 1, content |-> {o}]
      /\ k = "incr" => doc' = [cas |-> lastCas + 1, content |-> doc.content \cup {o}]
      /\ k \in {"writeCas", "update"} =>
            doc' = [cas |-> lastCas + 1, content |-> op[o].base \cup {o}]
  BY DEF Apply
<1>4. /\ k \in {"set", "delete", "purge"} => wiped' = wiped \cup doc.content
      /\ k \notin {"set", "delete", "purge"} => wiped' = wiped
  BY DEF Apply
<1>5. /\ k = "add" => doc.cas = 0
      /\ k \in {"writeCas", "update"} => op[o].cas = doc.cas
  BY DEF Answer
<1>6. /\ k = "add" => doc.content = {}
      /\ k \in {"writeCas", "update"} => op[o].base = doc.content
  BY <1>5 DEF BucketInd, DocOK, BaseOK
<1>7. /\ lastCas \in Nat /\ doc.content \subseteq Ops /\ wiped \subseteq Ops
      /\ op[o].base \subseteq Ops
  BY <1>t DEF BucketTypeOK, OpRecord
<1>d. doc' \in [cas : Nat, content : SUBSET Ops] /\ wiped' \subseteq Ops
  BY <1>k, <1>3, <1>4, <1>7 DEF NoDoc
<1>8. (doc'.cas = 0 /\ doc'.content = {}) \/ doc'.cas = lastCas + 1
  BY <1>k, <1>3 DEF NoDoc
<1>9. BucketTypeOK'
  <2>1. op' \in [Ops -> OpRecord] /\ ambiguous' \subseteq Ops /\ lastCas' \in Nat
    BY <1>t, <1>2 DEF BucketTypeOK
  <2> QED
    BY <1>d, <1>2, <2>1 DEF BucketTypeOK
<1>10. SlotsReturned'
  BY SlotsStep DEF BucketInd, UpdatesApplied
<1>11. NoLostWrite'
  <2> SUFFICES ASSUME NEW p \in Ops, Modifies(p)', op'[p].result = "ok", p \notin wiped'
               PROVE  p \in doc'.content
    BY DEF NoLostWrite
  <2>1. CASE p = o
    <3>1. k \in {"writeCas", "update", "incr"}
      BY <1>1, <2>1 DEF Modifies
    <3> QED
      BY <1>3, <2>1, <3>1
  <2>2. CASE p # o
    <3>1. op'[p] = op[p] /\ p \notin wiped
      BY <1>1, <1>k, <1>4, <2>2
    <3>2. p \in doc.content
      BY <3>1 DEF BucketInd, UpdatesApplied, NoLostWrite, Modifies
    <3>3. k \in {"writeCas", "update", "incr"}
      BY <1>k, <1>4, <1>6, <3>2
    <3> QED
      BY <1>3, <1>6, <3>2, <3>3
  <2> QED
    BY <2>1, <2>2
<1>12. applied[o] = 0 \/ o \in ambiguous
  BY DEF BucketInd, UnendedNotApplied
<1>13. AppliedOnce' /\ RefusedChangesNothing'
  <2>1. ASSUME NEW p \in Ops PROVE applied'[p] <= 1 \/ p \in ambiguous'
    BY <1>t, <1>2, <1>12 DEF BucketInd, UpdatesApplied, AppliedOnce
  <2>2. ASSUME NEW p \in Ops, op'[p].result \in {"exists", "missing"}
        PROVE  applied'[p] = 0 \/ p \in ambiguous'
    BY <2>2, <1>1, <1>2 DEF BucketInd, UpdatesApplied, RefusedChangesNothing
  <2> QED
    BY <2>1, <2>2 DEF AppliedOnce, RefusedChangesNothing
<1>14. DocOK'
  BY <1>2, <1>7, <1>8 DEF DocOK
<1>15. ASSUME NEW p \in Ops
       PROVE  BaseOK(op[p])'
  <2>1. /\ op'[p].cas = op[p].cas /\ op'[p].base = op[p].base /\ op'[p].kind = op[p].kind
        /\ op[p].cas \in Nat /\ op[p].cas <= lastCas
    BY <1>1, <1>t DEF BucketInd, BaseOK, BucketTypeOK, OpRecord
  <2>2. op[p].cas # lastCas + 1 /\ op[p].cas <= lastCas + 1
    BY <1>7, <2>1
  <2>3. op[p].kind \in {"writeCas", "update"} /\ op[p].cas = 0 => op[p].base = {}
    BY DEF BucketInd, BaseOK
  <2> QED
    BY <1>2, <1>8, <2>1, <2>2, <2>3 DEF BaseOK
<1>16. ASSUME NEW p \in Ops
       PROVE  StageOK(op[p])' /\ UnendedNotApplied(p)'
  BY <1>1, <1>2 DEF BucketInd, StageOK, UnendedNotApplied
<1> QED
  BY <1>9, <1>10, <1>11, <1>13, <1>14, <1>15, <1>16 DEF BucketInd, UpdatesApplied

----------------------------------------------------------------------------
(* What the proofs about the steps of an operation start from.             *)
LEMMA StepFacts ==
    ASSUME BucketInd, NEW o \in Ops
    PROVE  /\ op \in [Ops -> OpRecord] /\ op[o] \in OpRecord
           /\ slots \in Nat /\ slots <= MaxSingleOps /\ MaxSingleOps \in Nat
           /\ faults \in 0..MaxFaults /\ MaxFaults \in Nat /\ MaxNumAttempts \in Nat
           /\ Holds(op[o]) <= slots
           /\ BaseOK(op[o]) /\ StageOK(op[o])
           /\ doc.cas \in Nat /\ doc.content \subseteq Ops /\ lastCas \in Nat
           /\ doc.cas <= lastCas /\ (doc.cas = 0 => doc.content = {})
<1>1. BucketTypeOK /\ SlotsReturned /\ DocOK /\ BaseOK(op[o]) /\ StageOK(op[o])
  BY DEF BucketInd, UpdatesApplied
<1>2. Holds(op[o]) <= slots
  BY <1>1, SlotsHeld
<1> QED
  BY <1>1, <1>2, BucketOpsAssumption DEF BucketTypeOK, DocOK

(* An operation is called.                                                 *)
LEMMA StartStep ==
    ASSUME BucketInd, NEW o \in Ops, NEW k \in Kinds, Start(o, k) PROVE BucketInd'
<1> DEFINE q == [pc |-> IF k = "update" THEN "readSlot" ELSE "slot", kind |-> k,
                 cas |-> IF k = "writeCas" THEN doc.cas ELSE 0,
                 base |-> IF k = "writeCas" THEN doc.content ELSE {},
                 attempts |-> 0, rounds |-> 0, result |-> "none"]
<1>1. op' = [op EXCEPT ![o] = q] /\ op[o].pc = "idle"
  BY DEF Start
<1>2. UNCHANGED docVars /\ UNCHANGED <<slots, faults, ambiguous>>
  BY DEF Start
<1>3. q \in OpRecord
  BY StepFacts DEF OpRecord
<1>4. slots' = slots + Holds(q) - Holds(op[o]) /\ slots' \in 0..MaxSingleOps
  BY <1>1, <1>2, StepFacts DEF Holds
<1>5. k # "none"
  BY BucketOpsAssumption
<1>6. BaseOK(q)
  <2>1. /\ k = "writeCas" => q.cas = doc.cas /\ q.base = doc.content
        /\ k # "writeCas" => q.cas = 0 /\ q.base = {}
        /\ q.kind = k
    OBVIOUS
  <2>2. doc.cas \in Nat /\ lastCas \in Nat /\ doc.cas <= lastCas
        /\ (doc.cas = 0 => doc.content = {})
    BY StepFacts
  <2> HIDE DEF q
  <2> QED
    BY <2>1, <2>2 DEF BaseOK
<1>7. StageOK(q) /\ q.result # "ok"
  BY <1>5 DEF StageOK
<1>8. faults' \in 0..MaxFaults
  BY <1>2, StepFacts
<1> HIDE DEF q
<1> QED
  BY <1>1, <1>2, <1>3, <1>4, <1>6, <1>7, <1>8, BucketQuietStep

(* An operation gets a slot of bucket.singleOps.                           *)
LEMMA TakeSlotStep ==
    ASSUME BucketInd, NEW o \in Ops, TakeSlot(o) PROVE BucketInd'
<1> DEFINE pc == CASE op[o].pc = "slot" -> IF op[o].kind = "purge" THEN "purge" ELSE "call"
                   [] op[o].pc = "readSlot" -> "read"
                   [] OTHER -> "nestedRead"
           q == [op[o] EXCEPT !.pc = pc]
<1>1. op' = [op EXCEPT ![o] = q] /\ op[o].pc \in {"slot", "readSlot", "nestedSlot"}
  BY StepFacts DEF TakeSlot
<1>2. /\ UNCHANGED docVars /\ UNCHANGED <<faults, ambiguous>>
      /\ slots' = slots + 1 /\ slots < MaxSingleOps
  BY DEF TakeSlot
<1>3. pc \in {"purge", "call", "read", "nestedRead"}
      /\ (pc = "nestedRead" <=> op[o].pc = "nestedSlot")
      /\ (pc = "purge" => op[o].kind = "purge")
  BY <1>1
<1> HIDE DEF pc
<1>4. /\ q \in OpRecord /\ q.pc = pc /\ q.kind = op[o].kind /\ q.cas = op[o].cas
      /\ q.base = op[o].base /\ q.result = op[o].result
  BY <1>3, StepFacts DEF OpRecord
<1> HIDE DEF q
<1>5. slots' = slots + Holds(q) - Holds(op[o]) /\ slots' \in 0..MaxSingleOps
  BY <1>1, <1>2, <1>3, <1>4, StepFacts DEF Holds
<1>6. BaseOK(q) /\ StageOK(q) /\ q.result # "ok"
  BY <1>1, <1>3, <1>4, StepFacts DEF BaseOK, StageOK
<1>7. faults' \in 0..MaxFaults
  BY <1>2, StepFacts
<1> QED
  BY <1>1, <1>2, <1>4, <1>5, <1>6, <1>7, BucketQuietStep

(* An operation goes on with what it read before.                          *)
SameRead(q, p) == q.kind = p.kind /\ q.cas = p.cas /\ q.base = p.base

Stages == {"idle", "slot", "call", "readSlot", "read", "write", "purge",
           "xattrRead", "nestedSlot", "nestedRead", "remove", "done"}
Results == {"none", "ok", "exists", "missing", "failed"}

(* The record of an operation that ends.                                   *)
LEMMA Ended ==
    ASSUME BucketInd, NEW o \in Ops, NEW r \in Results, End(o, r)
    PROVE  \E q \in OpRecord : /\ op' = [op EXCEPT ![o] = q]
                                /\ q.pc = "done" /\ q.result = r /\ SameRead(q, op[o])
<1> DEFINE q == [op[o] EXCEPT !.pc = "done", !.result = r]
<1>1. op[o] \in OpRecord
  BY StepFacts
<1>2. q \in OpRecord /\ q.pc = "done" /\ q.result = r /\ SameRead(q, op[o])
  BY <1>1 DEF OpRecord, SameRead, Results
<1>3. op' = [op EXCEPT ![o] = q]
  BY StepFacts DEF End
<1> QED
  BY <1>2, <1>3

(* The record of an operation that goes to another stage.                  *)
LEMMA Moved ==
    ASSUME BucketInd, NEW o \in Ops, NEW pc \in Stages, op' = [op EXCEPT ![o].pc = pc]
    PROVE  \E q \in OpRecord : /\ op' = [op EXCEPT ![o] = q]
                                /\ q.pc = pc /\ q.result = op[o].result /\ SameRead(q, op[o])
<1> DEFINE q == [op[o] EXCEPT !.pc = pc]
<1>1. op[o] \in OpRecord
  BY StepFacts
<1>2. q \in OpRecord /\ q.pc = pc /\ q.result = op[o].result /\ SameRead(q, op[o])
  BY <1>1 DEF OpRecord, SameRead, Stages
<1>3. op' = [op EXCEPT ![o] = q]
  BY StepFacts
<1> QED
  BY <1>2, <1>3

(* The record of an operation that tries again.                            *)
LEMMA Retried ==
    ASSUME BucketInd, NEW o \in Ops, op' = [op EXCEPT ![o].attempts = @ + 1],
           op[o].attempts < MaxNumAttempts
    PROVE  \E q \in OpRecord : /\ op' = [op EXCEPT ![o] = q] /\ q.pc = op[o].pc
                                /\ q.result = op[o].result /\ SameRead(q, op[o])
<1> DEFINE q == [op[o] EXCEPT !.attempts = op[o].attempts + 1]
<1>1. op[o] \in OpRecord /\ MaxNumAttempts \in Nat
  BY StepFacts
<1>2. op[o].attempts + 1 \in 0..MaxNumAttempts
  BY <1>1 DEF OpRecord
<1>3. q \in OpRecord /\ q.pc = op[o].pc /\ q.result = op[o].result /\ SameRead(q, op[o])
  BY <1>1, <1>2 DEF OpRecord, SameRead
<1>4. op' = [op EXCEPT ![o] = q]
  BY StepFacts
<1> QED
  BY <1>3, <1>4

(* A step of an operation that has read nothing new.                       *)
LEMMA MoveStep ==
    ASSUME BucketInd, NEW o \in Ops, NEW q \in OpRecord,
           op' = [op EXCEPT ![o] = q], SameRead(q, op[o]), op[o].pc \notin {"idle", "done"},
           slots' <= slots, slots' = slots + Holds(q) - Holds(op[o]),
           faults' \in 0..MaxFaults,
           q.pc \notin {"purge", "nestedRead", "remove"},
           q.pc \in {"xattrRead", "nestedSlot"} => op[o].kind = "purge",
           q.pc # "done" => q.result = "none",
           \/ UNCHANGED docVars /\ UNCHANGED ambiguous /\ q.result # "ok"
           \/ /\ Answer(o) = "ok" /\ Apply(o)
              /\ \/ q.pc = "done" /\ q.result = "ok" /\ UNCHANGED ambiguous
                 \/ q.result # "ok" /\ ambiguous' = ambiguous \cup {o}
    PROVE  BucketInd'
<1>1. Holds(q) \in Nat /\ Holds(op[o]) \in Nat
  BY DEF Holds
<1>2. slots' \in 0..MaxSingleOps
  <2>1. slots \in Nat /\ slots <= MaxSingleOps /\ MaxSingleOps \in Nat /\ Holds(op[o]) <= slots
    BY StepFacts
  <2> QED
    BY <1>1, <2>1
<1>3. BaseOK(q)
  BY StepFacts DEF BaseOK, SameRead
<1>4. StageOK(q)
  BY StepFacts DEF StageOK, SameRead
<1>5. CASE UNCHANGED docVars /\ UNCHANGED ambiguous /\ q.result # "ok"
  BY <1>2, <1>3, <1>4, <1>5, BucketQuietStep
<1>6. CASE /\ Answer(o) = "ok" /\ Apply(o)
           /\ \/ q.pc = "done" /\ q.result = "ok" /\ UNCHANGED ambiguous
              \/ q.result # "ok" /\ ambiguous' = ambiguous \cup {o}
  BY <1>2, <1>4, <1>6, ApplyStep DEF SameRead
<1> QED
  BY <1>5, <1>6

(* The server's answer to an operation.                                    *)
LEMMA CalledFacts ==
    ASSUME BucketInd, NEW o \in Ops, NEW r, Called(o, r)
    PROVE  /\ faults' \in 0..MaxFaults /\ UNCHANGED ambiguous
           /\ r = "ok" => Answer(o) = "ok" /\ Apply(o)
           /\ r # "ok" => UNCHANGED docVars
BY StepFacts DEF Called

(* A temporary error: the server has carried out the operation or not.     *)
LEMMA FaultFacts ==
    ASSUME BucketInd, NEW o \in Ops, Fault(o)
    PROVE  /\ faults' \in 0..MaxFaults
           /\ \/ UNCHANGED docVars /\ UNCHANGED ambiguous
              \/ Answer(o) = "ok" /\ Apply(o) /\ ambiguous' = ambiguous \cup {o}
BY StepFacts DEF Fault

----------------------------------------------------------------------------
(* One lemma per action.                                                   *)

(* The server answers a single operation.                                  *)
LEMMA CallStep ==
    ASSUME BucketInd, NEW o \in Ops, Call(o) PROVE BucketInd'
<1>1. PICK r \in {"ok", "exists", "missing"} : Called(o, r) /\ End(o, r)
  BY DEF Call
<1>2. PICK q \in OpRecord : /\ op' = [op EXCEPT ![o] = q]
                            /\ q.pc = "done" /\ q.result = r /\ SameRead(q, op[o])
  BY <1>1, Ended DEF Results
<1>3. op[o].pc = "call" /\ slots' = slots - 1
  BY DEF Call
<1>4. slots' <= slots /\ slots' = slots + Holds(q) - Holds(op[o])
  BY <1>2, <1>3, StepFacts DEF Holds
<1> QED
  BY <1>1, <1>2, <1>3, <1>4, CalledFacts, MoveStep

(* A temporary error is retried by RetryLoop, until it gives up.           *)
LEMMA CallFaultStep ==
    ASSUME BucketInd, NEW o \in Ops, CallFault(o) PROVE BucketInd'
<1>1. op[o].pc = "call" /\ Fault(o) /\ op[o].result = "none"
  BY StepFacts DEF CallFault, StageOK
<1>2. CASE op[o].attempts < MaxNumAttempts
  <2>1. op' = [op EXCEPT ![o].attempts = @ + 1] /\ slots' = slots
    BY <1>2 DEF CallFault
  <2>2. PICK q \in OpRecord : /\ op' = [op EXCEPT ![o] = q] /\ q.pc = op[o].pc
                              /\ q.result = op[o].result /\ SameRead(q, op[o])
    BY <1>2, <2>1, Retried
  <2>3. slots' <= slots /\ slots' = slots + Holds(q) - Holds(op[o])
    BY <1>1, <2>1, <2>2, StepFacts DEF Holds
  <2> QED
    BY <1>1, <2>2, <2>3, FaultFacts, MoveStep
<1>3. CASE ~(op[o].attempts < MaxNumAttempts)
  <2>1. slots' = slots - 1
    BY <1>3 DEF CallFault
  <2>2. PICK q \in OpRecord :
            /\ op' = [op EXCEPT ![o] = q] /\ SameRead(q, op[o])
            /\ \/ q.pc = "done" /\ q.result = "failed"
               \/ q.pc = "slot" /\ q.result = "none"
    <3>1. CASE op[o].kind = "delete" /\ op[o].rounds < MaxNumAttempts
      <4> DEFINE q == [op[o] EXCEPT !.pc = "slot", !.attempts = 0, !.rounds = op[o].rounds + 1]
      <4>1. op[o] \in OpRecord /\ MaxNumAttempts \in Nat
        BY StepFacts
      <4>2. op[o].rounds + 1 \in 0..MaxNumAttempts /\ 0 \in 0..MaxNumAttempts
        BY <3>1, <4>1 DEF OpRecord
      <4>3. q \in OpRecord /\ q.pc = "slot" /\ q.result = op[o].result /\ SameRead(q, op[o])
        BY <4>1, <4>2 DEF OpRecord, SameRead
      <4>4. op' = [op EXCEPT ![o] = q]
        BY <1>3, <3>1, StepFacts DEF CallFault
      <4> QED
        BY <1>1, <4>3, <4>4
    <3>2. CASE ~(op[o].kind = "delete" /\ op[o].rounds < MaxNumAttempts)
      <4>1. End(o, "failed")
        BY <1>3, <3>2 DEF CallFault
      <4>2. PICK q \in OpRecord : /\ op' = [op EXCEPT ![o] = q] /\ q.pc = "done"
                                  /\ q.result = "failed" /\ SameRead(q, op[o])
        BY <4>1, Ended DEF Results
      <4> QED
        BY <4>2
    <3> QED
      BY <3>1, <3>2
  <2>3. slots' <= slots /\ slots' = slots + Holds(q) - Holds(op[o])
    BY <1>1, <2>1, <2>2, StepFacts DEF Holds
  <2> QED
    BY <1>1, <2>2, <2>3, FaultFacts, MoveStep
<1> QED
  BY <1>2, <1>3

(* Update reads the document, with the retries of Get.                     *)
LEMMA ReadStep ==
    ASSUME BucketInd, NEW o \in Ops, Read(o) PROVE BucketInd'
<1>1. /\ op[o].pc = "read" /\ UNCHANGED docVars /\ UNCHANGED ambiguous
      /\ op[o].result = "none" /\ op[o].kind # "none"
  BY StepFacts DEF Read, StageOK
<1>2. CASE /\ op' = [op EXCEPT ![o].pc = "write", ![o].cas = doc.cas,
                              ![o].base = doc.content, ![o].attempts = 0]
           /\ slots' = slots - 1 /\ UNCHANGED faults
  <2> DEFINE q == [op[o] EXCEPT !.pc = "write", !.cas = doc.cas, !.base = doc.content,
                                !.attempts = 0]
  <2>1. op' = [op EXCEPT ![o] = q]
    BY <1>2, StepFacts
  <2>2. /\ op[o] \in OpRecord /\ doc.cas \in Nat /\ doc.content \in SUBSET Ops
        /\ 0 \in 0..MaxNumAttempts
    BY StepFacts
  <2>3. /\ q \in OpRecord /\ q.pc = "write" /\ q.kind = op[o].kind /\ q.cas = doc.cas
        /\ q.base = doc.content /\ q.result = op[o].result
    BY <2>2 DEF OpRecord
  <2> HIDE DEF q
  <2>4. slots' = slots + Holds(q) - Holds(op[o]) /\ slots' \in 0..MaxSingleOps
    BY <1>1, <1>2, <2>3, StepFacts DEF Holds
  <2>5. BaseOK(q) /\ StageOK(q)
    BY <1>1, <2>3, StepFacts DEF BaseOK, StageOK
  <2>6. faults' \in 0..MaxFaults
    BY <1>2, StepFacts
  <2> QED
    BY <1>1, <2>1, <2>3, <2>4, <2>5, <2>6, BucketQuietStep
<1>3. CASE /\ faults < MaxFaults /\ faults' = faults + 1 /\ op[o].attempts < MaxNumAttempts
           /\ op' = [op EXCEPT ![o].attempts = @ + 1] /\ UNCHANGED slots
  <2>1. PICK q \in OpRecord : /\ op' = [op EXCEPT ![o] = q] /\ q.pc = op[o].pc
                              /\ q.result = op[o].result /\ SameRead(q, op[o])
    BY <1>3, Retried
  <2>2. /\ slots' <= slots /\ slots' = slots + Holds(q) - Holds(op[o])
        /\ faults' \in 0..MaxFaults
    BY <1>1, <1>3, <2>1, StepFacts DEF Holds
  <2> QED
    BY <1>1, <2>1, <2>2, MoveStep
<1>4. CASE /\ faults < MaxFaults /\ faults' = faults + 1 /\ End(o, "failed")
           /\ slots' = slots - 1
  <2>1. PICK q \in OpRecord : /\ op' = [op EXCEPT ![o] = q] /\ q.pc = "done"
                              /\ q.result = "failed" /\ SameRead(q, op[o])
    BY <1>4, Ended DEF Results
  <2>2. /\ slots' <= slots /\ slots' = slots + Holds(q) - Holds(op[o])
        /\ faults' \in 0..MaxFaults
    BY <1>1, <1>4, <2>1, StepFacts DEF Holds
  <2> QED
    BY <1>1, <2>1, <2>2, MoveStep
<1> QED
  BY <1>2, <1>3, <1>4 DEF Read

(* Update writes what its callback has made of what it read, or starts     *)
(* over.                                                                   *)
LEMMA WriteBackStep ==
    ASSUME BucketInd, NEW o \in Ops, WriteBack(o) PROVE BucketInd'
<1>1. PICK r \in {"ok", "exists", "missing"} :
        /\ Called(o, r)
        /\ IF r = "exists" THEN op' = [op EXCEPT ![o].pc = "readSlot"] ELSE End(o, r)
  BY DEF WriteBack
<1>2. op[o].pc = "write" /\ slots' = slots /\ op[o].result = "none"
  BY StepFacts DEF WriteBack, StageOK
<1>3. CASE r = "exists"
  <2>1. PICK q \in OpRecord : /\ op' = [op EXCEPT ![o] = q] /\ q.pc = "readSlot"
                              /\ q.result = op[o].result /\ SameRead(q, op[o])
    BY <1>1, <1>3, Moved DEF Stages
  <2>2. slots' <= slots /\ slots' = slots + Holds(q) - Holds(op[o])
    BY <1>2, <2>1, StepFacts DEF Holds
  <2> QED
    BY <1>1, <1>2, <1>3, <2>1, <2>2, CalledFacts, MoveStep
<1>4. CASE r # "exists"
  <2>1. PICK q \in OpRecord : /\ op' = [op EXCEPT ![o] = q] /\ q.pc = "done"
                              /\ q.result = r /\ SameRead(q, op[o])
    BY <1>1, <1>4, Ended DEF Results
  <2>2. slots' <= slots /\ slots' = slots + Holds(q) - Holds(op[o])
    BY <1>2, <2>1, StepFacts DEF Holds
  <2> QED
    BY <1>1, <1>2, <1>4, <2>1, <2>2, CalledFacts, MoveStep
<1> QED
  BY <1>3, <1>4

(* A temporary error of Update's write starts over.                        *)
LEMMA WriteFaultStep ==
    ASSUME BucketInd, NEW o \in Ops, WriteFault(o) PROVE BucketInd'
<1>1. op[o].pc = "write" /\ Fault(o) /\ slots' = slots /\ op[o].result = "none"
  BY StepFacts DEF WriteFault, StageOK
<1>2. PICK q \in OpRecord : /\ op' = [op EXCEPT ![o] = q] /\ q.pc = "readSlot"
                            /\ q.result = op[o].result /\ SameRead(q, op[o])
  BY Moved DEF WriteFault, Stages
<1>3. slots' <= slots /\ slots' = slots + Holds(q) - Holds(op[o])
  BY <1>1, <1>2, StepFacts DEF Holds
<1> QED
  BY <1>1, <1>2, <1>3, FaultFacts, MoveStep

(* deleteWithXattr finds the document without the xattr, or not at all.    *)
LEMMA PurgeFirstStep ==
    ASSUME BucketInd, NEW o \in Ops, PurgeFirst(o) PROVE BucketInd'
<1> DEFINE pc == IF doc.cas = 0 THEN "xattrRead" ELSE "nestedSlot"
<1>1. /\ op[o].pc = "purge" /\ op[o].kind = "purge" /\ op[o].result = "none"
      /\ UNCHANGED docVars /\ UNCHANGED ambiguous /\ faults' \in 0..MaxFaults
      /\ op' = [op EXCEPT ![o].pc = pc] /\ slots' = slots
  BY StepFacts DEF PurgeFirst, StageOK
<1>2. pc \in {"xattrRead", "nestedSlot"}
  OBVIOUS
<1> HIDE DEF pc
<1>3. PICK q \in OpRecord : /\ op' = [op EXCEPT ![o] = q] /\ q.pc = pc
                            /\ q.result = op[o].result /\ SameRead(q, op[o])
  <2>1. pc \in Stages
    BY <1>2 DEF Stages
  <2> QED
    BY Zenon, <1>1, <2>1, Moved
<1>4. slots' <= slots /\ slots' = slots + Holds(q) - Holds(op[o])
  BY <1>1, <1>2, <1>3, StepFacts DEF Holds
<1> QED
  BY <1>1, <1>2, <1>3, <1>4, MoveStep

(* deleteDocXattrOnly finds no document, or one that came back.            *)
LEMMA PurgeXattrReadStep ==
    ASSUME BucketInd, NEW o \in Ops, PurgeXattrRead(o) PROVE BucketInd'
<1> DEFINE r == IF doc.cas = 0 THEN "missing" ELSE "exists"
<1>1. /\ op[o].pc = "xattrRead" /\ op[o].result = "none" /\ End(o, r) /\ slots' = slots - 1
      /\ UNCHANGED docVars /\ UNCHANGED ambiguous /\ faults' \in 0..MaxFaults
  BY StepFacts DEF PurgeXattrRead, StageOK
<1>2. r \in {"missing", "exists"}
  OBVIOUS
<1> HIDE DEF r
<1>3. PICK q \in OpRecord : /\ op' = [op EXCEPT ![o] = q] /\ q.pc = "done"
                            /\ q.result = r /\ SameRead(q, op[o])
  BY <1>1, <1>2, Ended DEF Results
<1>4. slots' <= slots /\ slots' = slots + Holds(q) - Holds(op[o])
  BY <1>1, <1>3, StepFacts DEF Holds
<1> QED
  BY <1>1, <1>2, <1>3, <1>4, MoveStep

(* deleteDocBodyOnly reads the CAS in a slot of its own.                   *)
LEMMA PurgeReadStep ==
    ASSUME BucketInd, NEW o \in Ops, PurgeRead(o) PROVE BucketInd'
<1>1. /\ op[o].pc = "nestedRead" /\ op[o].kind = "purge" /\ op[o].result = "none"
      /\ UNCHANGED docVars /\ UNCHANGED ambiguous /\ faults' \in 0..MaxFaults
  BY StepFacts DEF PurgeRead, StageOK
<1>2. CASE doc.cas = 0
  <2>1. End(o, "missing") /\ slots' = slots - 2
    BY <1>2 DEF PurgeRead
  <2>2. PICK q \in OpRecord : /\ op' = [op EXCEPT ![o] = q] /\ q.pc = "done"
                              /\ q.result = "missing" /\ SameRead(q, op[o])
    BY <2>1, Ended DEF Results
  <2>3. slots' <= slots /\ slots' = slots + Holds(q) - Holds(op[o])
    BY <1>1, <2>1, <2>2, StepFacts DEF Holds
  <2> QED
    BY <1>1, <2>2, <2>3, MoveStep
<1>3. CASE doc.cas # 0
  <2> DEFINE q == [op[o] EXCEPT !.pc = "remove", !.cas = doc.cas]
  <2>1. op' = [op EXCEPT ![o] = q] /\ slots' = slots - 1
    BY <1>3, StepFacts DEF PurgeRead
  <2>2. op[o] \in OpRecord /\ doc.cas \in Nat
    BY StepFacts
  <2>3. /\ q \in OpRecord /\ q.pc = "remove" /\ q.kind = op[o].kind /\ q.cas = doc.cas
        /\ q.result = op[o].result
    BY <2>2 DEF OpRecord
  <2> HIDE DEF q
  <2>4. slots' = slots + Holds(q) - Holds(op[o]) /\ slots' \in 0..MaxSingleOps
    BY <1>1, <2>1, <2>3, StepFacts DEF Holds
  <2>5. BaseOK(q) /\ StageOK(q)
    BY <1>1, <2>3, StepFacts DEF BaseOK, StageOK
  <2> QED
    BY <1>1, <2>1, <2>3, <2>4, <2>5, BucketQuietStep
<1> QED
  BY <1>2, <1>3

(* deleteDocBodyOnly removes the document if its CAS is still the same.    *)
LEMMA PurgeRemoveStep ==
    ASSUME BucketInd, NEW o \in Ops, PurgeRemove(o) PROVE BucketInd'
<1>1. PICK r \in {"ok", "exists"} : Called(o, r) /\ End(o, r)
  BY DEF PurgeRemove
<1>2. PICK q \in OpRecord : /\ op' = [op EXCEPT ![o] = q]
                            /\ q.pc = "done" /\ q.result = r /\ SameRead(q, op[o])
  BY <1>1, Ended DEF Results
<1>3. op[o].pc = "remove" /\ slots' = slots - 1
  BY DEF PurgeRemove
<1>4. slots' <= slots /\ slots' = slots + Holds(q) - Holds(op[o])
  BY <1>2, <1>3, StepFacts DEF Holds
<1> QED
  BY <1>1, <1>2, <1>3, <1>4, CalledFacts, MoveStep

----------------------------------------------------------------------------
(* However many operations race on a key, and however many temporary       *)
(* errors they meet, no update that was reported as stored is lost to      *)
(* another update, no operation is carried out twice or after it was       *)
(* refused unless the server had carried it out and reported an error, and *)
(* every slot is given back (bucket_gocb.go: WriteCas, Update, Incr, Add,  *)
(* Delete, deleteDocBodyOnly).                                             *)
THEOREM UpdatesAreApplied == BucketSpec => []UpdatesApplied
<1>1. BucketInit => BucketInd
  <2> SUFFICES ASSUME BucketInit PROVE BucketInd
    OBVIOUS
  <2>1. NewOp \in OpRecord
    BY BucketOpsAssumption DEF NewOp, OpRecord
  <2>2. BucketTypeOK
    BY <2>1, BucketOpsAssumption DEF BucketInit, BucketTypeOK, NoDoc
  <2>3. HoldingSlot = {} /\ HoldingTwo = {}
    BY DEF BucketInit, HoldingSlot, HoldingTwo, NewOp
  <2>4. SlotsReturned
    BY <2>3, FS_EmptySet DEF SlotsReturned, BucketInit
  <2>5. NoLostWrite /\ AppliedOnce /\ RefusedChangesNothing
    BY DEF BucketInit, NoLostWrite, AppliedOnce, RefusedChangesNothing, NewOp
  <2>6. DocOK
    BY DEF BucketInit, DocOK, NoDoc
  <2>7. \A o \in Ops : BaseOK(op[o]) /\ StageOK(op[o]) /\ UnendedNotApplied(o)
    BY DEF BucketInit, BaseOK, StageOK, UnendedNotApplied, NewOp
  <2> QED
    BY <2>2, <2>4, <2>5, <2>6, <2>7 DEF BucketInd, UpdatesApplied
<1>2. BucketInd /\ [BucketNext]_bucketOpVars => BucketInd'
  <2> SUFFICES ASSUME BucketInd, [BucketNext]_bucketOpVars PROVE BucketInd'
    OBVIOUS
  <2>1. ASSUME NEW o \in Ops, NEW k \in Kinds, Start(o, k) PROVE BucketInd'
    BY <2>1, StartStep
  <2>2. ASSUME NEW o \in Ops, CallerStep(o) \/ CallFault(o) \/ WriteFault(o) PROVE BucketInd'
    BY <2>2, TakeSlotStep, CallStep, ReadStep, WriteBackStep, PurgeFirstStep,
       PurgeXattrReadStep, PurgeReadStep, PurgeRemoveStep, CallFaultStep, WriteFaultStep DEF CallerStep
  <2>3. CASE UNCHANGED bucketOpVars
    BY <2>3 DEF bucketOpVars, docVars, BucketInd, UpdatesApplied, BucketTypeOK, SlotsReturned,
       HoldingSlot, HoldingTwo, NoLostWrite, Modifies, AppliedOnce, RefusedChangesNothing,
       DocOK, BaseOK, StageOK, UnendedNotApplied
  <2> QED
    BY <2>1, <2>2, <2>3 DEF BucketNext
<1>3. BucketInd => UpdatesApplied
  BY DEF BucketInd
<1> QED
  BY <1>1, <1>2, <1>3, PTL DEF BucketSpec

----------------------------------------------------------------------------
(* Bulk operations.                                                        *)

Settled(k) == k \in stored \/ entryError[k] = "refused"

(* While SetBulk works, a key is settled, in a batch that is still to be   *)
(* sent, or among those to try again.                                      *)
KeysTracked ==
    bulk.pc = "batches" /\ bulk.kind = "set" =>
        \A k \in Keys :
            \/ Settled(k) \/ k \in bulk.retry
            \/ \E b \in DOMAIN bulk.batches : k \in bulk.batches[b]

BulkTypeOK ==
    /\ bulk \in [pc : {"idle", "batches", "done"}, kind : {"none", "set", "get"},
                 batches : Seq(SUBSET Keys), retry : SUBSET Keys, attempts : Nat,
                 error : BOOLEAN]
    /\ entryError \in [Keys -> {"none", "ok", "refused", "temporary"}]
    /\ stored \subseteq Keys

BulkInd == BulkTypeOK /\ KeysTracked /\ SetBulkSettled

(* The number of batches: enough for all, and none is empty.               *)
LEMMA BatchCount ==
    ASSUME NEW n \in Nat, NEW m \in Nat \ {0}
    PROVE  /\ (n + m - 1) \div m \in Nat
           /\ n <= ((n + m - 1) \div m) * m
  OBVIOUS

(* A number of places is in one of the batches that hold them.             *)
LEMMA BatchOfPlace ==
    ASSUME NEW p \in Nat \ {0}, NEW m \in Nat \ {0}, NEW c \in Nat, p <= c * m
    PROVE  \E b \in 1..c : p > (b - 1) * m /\ p <= b * m
<1> DEFINE b == (p + m - 1) \div m
<1>1. b \in Nat /\ b * m <= p + m - 1 /\ p <= b * m
  OBVIOUS
<1>2. b >= 1 /\ b <= c
  BY <1>1
<1>3. p > (b - 1) * m
  BY <1>1
<1> HIDE DEF b
<1>4. b \in 1..c
  BY <1>1, <1>2
<1>5. QED
  BY <1>1, <1>3, <1>4

(* The batches of a set of keys hold each of them, and nothing else.       *)
LEMMA BatchesCover ==
    ASSUME NEW S \in SUBSET Keys
    PROVE  /\ CreateBatches(S) \in Seq(SUBSET Keys)
           /\ \A k \in S : \E b \in DOMAIN CreateBatches(S) : k \in CreateBatches(S)[b]
<1> DEFINE place(k) == Cardinality({j \in S : j <= k})
           m == MaxBulkBatchSize
           count == (Cardinality(S) + m - 1) \div m
           batch(b) == {k \in S : place(k) > (b - 1) * m /\ place(k) <= b * m}
<1>1. CreateBatches(S) = [b \in 1..count |-> batch(b)]
  BY DEF CreateBatches
<1>2. IsFiniteSet(S) /\ Cardinality(S) \in Nat
  <2>1. IsFiniteSet(Keys)
    BY BulkAssumption, FS_Interval DEF Keys
  <2>2. QED
    BY <2>1, FS_Subset, FS_CardinalityType
<1>3. count \in Nat /\ Cardinality(S) <= count * m
  BY <1>2, BatchCount, BulkAssumption
<1>4. \A b \in 1..count : batch(b) \in SUBSET Keys
  OBVIOUS
<1>5. ASSUME NEW k \in S
      PROVE  \E b \in 1..count : k \in batch(b)
  <2> DEFINE T == {j \in S : j <= k}
  <2>1. IsFiniteSet(T) /\ Cardinality(T) \in Nat /\ Cardinality(T) <= Cardinality(S)
    BY <1>2, FS_Subset, FS_CardinalityType
  <2>2. k \in T
    BY DEF Keys
  <2>3. Cardinality(T) # 0
    BY <2>1, <2>2, FS_EmptySet
  <2>4. place(k) \in Nat \ {0} /\ place(k) <= count * m
    <3> HIDE DEF count
    <3>1. count * m \in Nat
      BY <1>3, BulkAssumption
    <3>2. QED
      BY <1>2, <1>3, <2>1, <2>3, <3>1
  <2> HIDE DEF place, count
  <2>5. \E b \in 1..count : place(k) > (b - 1) * m /\ place(k) <= b * m
    BY <1>3, <2>4, BatchOfPlace, BulkAssumption
  <2>6. QED
    BY <2>5
<1> HIDE DEF batch, count
<1>6. QED
  BY <1>1, <1>3, <1>4, <1>5

(* Every step of a bulk operation preserves the invariant.                 *)
LEMMA BulkStep ==
    ASSUME BulkInd, [BulkNext]_bulkVars
    PROVE  BulkInd'
<1> USE DEF BulkInd
<1>1. CASE UNCHANGED bulkVars
  BY <1>1 DEF bulkVars, BulkTypeOK, KeysTracked, SetBulkSettled, Settled
<1>2. ASSUME NEW kind \in {"set", "get"}, StartBulk(kind)
      PROVE  BulkInd'
  <2> DEFINE c == CreateBatches(Keys)
  <2>1. /\ c \in Seq(SUBSET Keys)
        /\ \A k \in Keys : \E b \in DOMAIN c : k \in c[b]
    BY BatchesCover
  <2> HIDE DEF c
  <2>2. /\ bulk' = [bulk EXCEPT !.pc = "batches", !.kind = kind, !.attempts = 1,
                                !.batches = c]
        /\ UNCHANGED <<entryError, stored>>
    BY <1>2 DEF StartBulk, c
  <2>3. BulkTypeOK'
    BY <2>1, <2>2 DEF BulkTypeOK
  <2>4. bulk'.batches = c /\ bulk'.pc = "batches"
    BY <2>2 DEF BulkTypeOK
  <2>5. KeysTracked' /\ SetBulkSettled'
    BY <2>1, <2>4 DEF KeysTracked, SetBulkSettled
  <2>6. QED
    BY <2>3, <2>5
<1>3. CASE ProcessBatch
  <2> DEFINE batch == Head(bulk.batches)
  <2>1. PICK answer \in [batch -> {"ok", "refused", "temporary"}] :
          /\ bulk' = [bulk EXCEPT !.batches = Tail(@),
                                  !.retry = @ \cup ToRetry(batch, answer)]
          /\ entryError' = [k \in Keys |-> IF k \in batch THEN answer[k]
                                           ELSE entryError[k]]
          /\ stored' = stored \cup {k \in batch : answer[k] = "ok"}
    BY <1>3 DEF ProcessBatch
  <2>2. /\ bulk.pc = "batches" /\ bulk.batches # <<>>
        /\ bulk.batches \in Seq(SUBSET Keys)
    BY <1>3 DEF ProcessBatch, BulkTypeOK
  <2>3. /\ batch \subseteq Keys /\ Tail(bulk.batches) \in Seq(SUBSET Keys)
        /\ \A k : (\E b \in DOMAIN bulk.batches : k \in bulk.batches[b]) =>
                \/ k \in batch
                \/ \E b \in DOMAIN Tail(bulk.batches) : k \in Tail(bulk.batches)[b]
    <3> DEFINE s == bulk.batches
    <3>1. s \in Seq(SUBSET Keys) /\ s # <<>>
      BY <2>2
    <3> HIDE DEF s
    <3>2. /\ Head(s) = s[1] /\ Len(s) \in Nat /\ Len(s) >= 1
          /\ Tail(s) \in Seq(SUBSET Keys) /\ Len(Tail(s)) = Len(s) - 1
          /\ DOMAIN s = 1..Len(s) /\ DOMAIN Tail(s) = 1..(Len(s) - 1)
          /\ \A i \in 1..(Len(s) - 1) : Tail(s)[i] = s[i + 1]
      BY <3>1
    <3>3. ASSUME NEW k, NEW b \in DOMAIN s, k \in s[b], k \notin Head(s)
          PROVE  \E i \in DOMAIN Tail(s) : k \in Tail(s)[i]
      <4>1. b - 1 \in 1..(Len(s) - 1) /\ (b - 1) + 1 = b
        BY <3>2, <3>3
      <4>2. QED
        BY <3>2, <3>3, <4>1
    <3>4. Head(s) \subseteq Keys
      BY <3>1, <3>2
    <3>5. QED
      BY <3>2, <3>3, <3>4 DEF s
  <2> HIDE DEF batch
  <2>4. /\ bulk'.pc = "batches" /\ bulk'.kind = bulk.kind
        /\ bulk'.batches = Tail(bulk.batches)
        /\ bulk'.retry = bulk.retry \cup ToRetry(batch, answer)
    BY <2>1, <2>2 DEF BulkTypeOK
  <2>5. ToRetry(batch, answer) \subseteq Keys
    BY <2>3 DEF ToRetry
  <2>6. BulkTypeOK'
    <3>1. bulk' \in [pc : {"idle", "batches", "done"}, kind : {"none", "set", "get"},
                     batches : Seq(SUBSET Keys), retry : SUBSET Keys,
                     attempts : Nat, error : BOOLEAN]
      BY <2>1, <2>3, <2>5 DEF BulkTypeOK
    <3>2. entryError' \in [Keys -> {"none", "ok", "refused", "temporary"}]
      BY <2>1 DEF BulkTypeOK
    <3>3. stored' \subseteq Keys
      BY <2>1, <2>3 DEF BulkTypeOK
    <3>4. QED
      BY <3>1, <3>2, <3>3 DEF BulkTypeOK
  <2>7. KeysTracked'
    <3> SUFFICES ASSUME bulk.kind = "set", NEW k \in Keys
                 PROVE  \/ Settled(k)' \/ k \in bulk'.retry
                        \/ \E b \in DOMAIN bulk'.batches : k \in bulk'.batches[b]
      BY <2>4 DEF KeysTracked
    <3>1. CASE k \in batch
      <4>1. answer[k] \in {"ok", "refused", "temporary"}
        BY <3>1
      <4>2. answer[k] = "temporary" => k \in bulk'.retry
        BY <2>4, <3>1 DEF ToRetry
      <4>3. answer[k] # "temporary" => Settled(k)'
        BY <2>1, <3>1, <4>1 DEF Settled
      <4>4. QED
        BY <4>2, <4>3
    <3>2. CASE k \notin batch
      <4>1. Settled(k) => Settled(k)'
        BY <2>1, <3>2 DEF Settled
      <4>2. QED
        BY <2>2, <2>3, <2>4, <3>2, <4>1 DEF KeysTracked
    <3>3. QED
      BY <3>1, <3>2
  <2>8. SetBulkSettled'
    BY <2>4 DEF SetBulkSettled
  <2>9. QED
    BY <2>6, <2>7, <2>8
<1>4. CASE BatchFails
  <2>1. bulk'.pc = "done" /\ bulk'.error = TRUE
    BY <1>4 DEF BatchFails, BulkTypeOK
  <2>2. QED
    BY <1>4, <2>1 DEF BatchFails, BulkTypeOK, KeysTracked, SetBulkSettled
<1>5. CASE EndAttempt
  <2>0. /\ bulk.pc = "batches" /\ bulk.batches = <<>> /\ DOMAIN bulk.batches = {}
        /\ UNCHANGED <<entryError, stored>> /\ bulk.retry \in SUBSET Keys
    BY <1>5 DEF EndAttempt, BulkTypeOK
  <2>1. CASE bulk.retry = {}
    <3>1. bulk' = [bulk EXCEPT !.pc = "done"]
      BY <1>5, <2>1 DEF EndAttempt
    <3>2. bulk'.pc = "done" /\ bulk'.kind = bulk.kind
      BY <3>1 DEF BulkTypeOK
    <3>3. bulk.kind = "set" => \A k \in Keys : Settled(k)
      BY <2>0, <2>1 DEF KeysTracked
    <3>4. KeysTracked' /\ SetBulkSettled'
      BY <2>0, <3>2, <3>3 DEF KeysTracked, SetBulkSettled, Settled
    <3>5. BulkTypeOK'
      BY <2>0, <3>1 DEF BulkTypeOK
    <3>6. QED
      BY <3>4, <3>5
  <2>2. CASE bulk.retry # {} /\ bulk.attempts >= MaxBulkAttempts
    <3>1. bulk' = [bulk EXCEPT !.pc = "done", !.error = TRUE]
      BY <1>5, <2>2 DEF EndAttempt
    <3>2. bulk'.pc = "done" /\ bulk'.error = TRUE
      BY <3>1 DEF BulkTypeOK
    <3>3. QED
      BY <2>0, <3>1, <3>2 DEF BulkTypeOK, KeysTracked, SetBulkSettled
  <2>3. CASE bulk.retry # {} /\ ~(bulk.attempts >= MaxBulkAttempts)
    <3> DEFINE c == CreateBatches(bulk.retry)
    <3>1. /\ c \in Seq(SUBSET Keys)
          /\ \A k \in bulk.retry : \E b \in DOMAIN c : k \in c[b]
      BY <2>0, BatchesCover
    <3> HIDE DEF c
    <3>2. bulk' = [bulk EXCEPT !.attempts = @ + 1, !.retry = {}, !.batches = c]
      BY <1>5, <2>3 DEF EndAttempt, c
    <3>3. /\ bulk'.pc = "batches" /\ bulk'.kind = bulk.kind
          /\ bulk'.batches = c
      BY <2>0, <3>2 DEF BulkTypeOK
    <3>4. BulkTypeOK'
      <4>1. bulk.attempts + 1 \in Nat
        BY DEF BulkTypeOK
      <4>2. QED
        BY <2>0, <3>1, <3>2, <4>1 DEF BulkTypeOK
    <3>5. KeysTracked'
      BY <2>0, <3>1, <3>3 DEF KeysTracked, Settled
    <3>6. SetBulkSettled'
      BY <3>3 DEF SetBulkSettled
    <3>7. QED
      BY <3>4, <3>5, <3>6
  <2>4. QED
    BY <2>1, <2>2, <2>3
<1>6. QED
  BY <1>1, <1>2, <1>3, <1>4, <1>5 DEF BulkNext

(* A SetBulk that reports success has stored each of its values, or the    *)
(* entry says that the server refused it: temporary errors of single keys  *)
(* in whatever batches and attempts are not passed over (SetBulk,          *)
(* processBulkSetEntriesBatch, createBatchesEntries).                      *)
THEOREM BulkWritesSettle == BulkSpec => []SetBulkSettled
<1>1. BulkInit => BulkInd
  BY DEF BulkInit, BulkInd, BulkTypeOK, KeysTracked, SetBulkSettled
<1>2. BulkInd /\ [BulkNext]_bulkVars => BulkInd'
  BY BulkStep
<1>3. BulkInd => SetBulkSettled
  BY DEF BulkInd
<1>4. QED
  BY <1>1, <1>2, <1>3, PTL DEF BulkSpec

=============================================================================
