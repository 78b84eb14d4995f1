--------------------------- MODULE MCChangesFeed ---------------------------
(***************************************************************************)
(* The changes feed for model checking.  A second request that starts from *)
(* where the first did adds nothing: it is only made by a client that has  *)
(* received an entry.                                                      *)
(***************************************************************************)
EXTENDS ChangesFeed

MCNext ==
    /\ Next
    /\ requests' = requests \/ requests = 0 \/ received # {}

MCSpec == Init /\ [][MCNext]_vars

=============================================================================
