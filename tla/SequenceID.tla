----------------------------- MODULE SequenceID -----------------------------
(***************************************************************************)
(* The sequence identifiers of a changes feed (db/sequence_id.go), integer *)
(* sequences only.                                                         *)
(*                                                                         *)
(* An identifier is the change's sequence, the sequence that triggered a   *)
(* backfill (0 if none), and the low sequence: one less than the oldest    *)
(* sequence that was skipped when the change was sent (0 if none).  What a *)
(* client gets to see is a text of one, two or three numbers, modelled as  *)
(* the tuple of its components.                                            *)
(***************************************************************************)
EXTENDS Naturals, Sequences

SequenceIDs(n) == [triggeredBy : 0..n, lowSeq : 0..n, seq : 0..n]

SeqID(s) == [triggeredBy |-> 0, lowSeq |-> 0, seq |-> s]
Triggered(t, s) == [triggeredBy |-> t, lowSeq |-> 0, seq |-> s]

(* A component of the text: a number, or nothing as in "low::seq".         *)
Component(n) == <<n>>
Empty == <<>>

IntSeqToStringNoLow(id) ==
    IF id.triggeredBy > 0 THEN <<Component(id.triggeredBy), Component(id.seq)>>
    ELSE <<Component(id.seq)>>

(* A low sequence at or above the sequence is left out.                    *)
IntSeqToString(id) ==
    IF id.lowSeq > 0 /\ id.lowSeq < id.seq
    THEN <<Component(id.lowSeq),
           IF id.triggeredBy > 0 THEN Component(id.triggeredBy) ELSE Empty,
           Component(id.seq)>>
    ELSE IF id.triggeredBy > 0 THEN <<Component(id.triggeredBy), Component(id.seq)>>
    ELSE <<Component(id.seq)>>

ParseIntSequenceComponent(part) == IF part = Empty THEN 0 ELSE part[1]

ParseIntegerSequenceID(text) ==
    LET n == Len(text)
    IN  [triggeredBy |-> IF n = 1 THEN 0
                         ELSE ParseIntSequenceComponent(text[n - 1]),
         lowSeq      |-> IF n = 3 THEN ParseIntSequenceComponent(text[1]) ELSE 0,
         seq         |-> ParseIntSequenceComponent(text[n])]

SafeSequence(id) == IF id.lowSeq > 0 THEN id.lowSeq ELSE id.seq

(* The most significant number is triggeredBy, unless it is zero; "n"      *)
(* sorts after "n:m".                                                      *)
Before(a, b) ==
    IF a.triggeredBy = b.triggeredBy THEN SafeSequence(a) < SafeSequence(b)
    ELSE IF a.triggeredBy = 0        THEN SafeSequence(a) < b.triggeredBy
    ELSE IF b.triggeredBy = 0        THEN a.triggeredBy <= SafeSequence(b)
    ELSE a.triggeredBy < b.triggeredBy

=============================================================================
