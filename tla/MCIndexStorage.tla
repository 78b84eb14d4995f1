--------------------------- MODULE MCIndexStorage ---------------------------
(* Instances of IndexStorage for TLC.                                      *)
EXTENDS IndexStorage

(* Two documents of vbucket 0 and one of vbucket 1.                        *)
ThreeDocs == {<<0, "a">>, <<0, "b">>, <<1, "c">>}

(* From the start, and after the first mutation of vbucket 0.              *)
TwoClocks == {ZeroClock, [ZeroClock EXCEPT ![0] = 1]}

(* A block of size 1 takes two entries of "a" or one of "c".               *)
Sizes == [d \in Docs |-> IF d[2] = "c" THEN 2 ELSE 1]

=============================================================================
