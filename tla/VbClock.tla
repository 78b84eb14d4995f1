------------------------------- MODULE VbClock -------------------------------
(***************************************************************************)
(* Sequence clocks (base/sequence_clock.go): one sequence per vbucket.  A  *)
(* PartitionClock that lacks a vbucket reads as 0 there, so both kinds of  *)
(* clock are functions on Vbs.  A PartitionRange is a pair of clocks; the  *)
(* vbuckets it covers are the ones that changed between them.              *)
(***************************************************************************)
EXTENDS Naturals

CONSTANT Vbs        \* vbucket numbers

ASSUME VbsAssumption == Vbs \subseteq Nat

ZeroClock == [v \in Vbs |-> 0]

(* "ALL vb values in the clock are greater than or equal to".              *)
AllAfter(c, other) == \A v \in Vbs : other[v] <= c[v]

(* Element-wise minimum: LimitTo, GetMinimumClock.                         *)
LimitTo(c, other) ==
    [v \in Vbs |-> IF other[v] < c[v] THEN other[v] ELSE c[v]]

(* Element-wise maximum: a clock update that lowers no sequence.           *)
UpdateWithClock(c, update) ==
    [v \in Vbs |-> IF c[v] < update[v] THEN update[v] ELSE c[v]]

SetMaxSequence(c, v, s) == IF c[v] < s THEN [c EXCEPT ![v] = s] ELSE c

(* calculateChanged: the vbuckets of the range (since, to].                *)
Changed(since, to) == {v \in Vbs : since[v] < to[v]}

(* Some since value of the range is earlier than the clock.                *)
SinceBefore(since, to, clock) ==
    \E v \in Changed(since, to) : since[v] < clock[v]

(* All since values of the range are equal to or later than the clock.     *)
SinceAfter(since, to, clock) ==
    \A v \in Changed(since, to) : clock[v] <= since[v]

(* PartitionRangeWithin                                                    *)
Within(since, to, v, s) == since[v] < s /\ s <= to[v]

=============================================================================
