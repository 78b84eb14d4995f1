----------------------------- MODULE MCDocuments -----------------------------
(***************************************************************************)
(* Documents and the principals they grant access to.  The two models      *)
(* share no state: a behaviour is one of the updates of a document, or one *)
(* of the requests on the principals and the documents that grant to them. *)
(***************************************************************************)
EXTENDS Documents, Access

VARIABLE subject

subjectVars == <<subject, vars, accessVars>>

(* Two conflicting first revisions, one deletable, and four more           *)
(* generations on the other branch: the last is so far ahead of the        *)
(* tombstone that this is pruned.                                          *)
TwoBranches ==
    {<<1>>, <<2>>, <<2, 0>>, <<1, 2>>, <<1, 2, 1>>, <<1, 2, 1, 1>>, <<1, 2, 1, 1, 1>>}

MCInit ==
    /\ subject \in {"document", "principals"} /\ Init /\ AccessInit
    /\ subject = "document" => \A p \in Principals : princ[p] = Absent

MCNext ==
    /\ UNCHANGED subject
    /\ IF subject = "document" THEN Next ELSE UNCHANGED vars
    /\ IF subject = "principals" THEN AccessNext ELSE UNCHANGED accessVars

MCSpec == MCInit /\ [][MCNext]_subjectVars

=============================================================================
