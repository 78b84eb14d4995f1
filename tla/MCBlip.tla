------------------------------- MODULE MCBlip -------------------------------
(***************************************************************************)
(* Pulls and pushes over BLIP.  The two directions share no state of the   *)
(* connection: a behaviour is one of one direction, picked in the initial  *)
(* state.  A client that subscribes twice asks for a continuous feed the   *)
(* second time.  One push at a time has the noconflicts flag, and it is    *)
(* one without an attachment.                                              *)
(***************************************************************************)
EXTENDS Blip, BlipPush

VARIABLE direction

(* Later revisions have an attachment that they share.                     *)
MCAttachments ==
    [d \in Docs |-> [n \in 1..MaxRev |-> IF n = 1 THEN {} ELSE Digests]]

MCRequests ==
    {[continuous |-> TRUE, filter |-> "none"],
     [continuous |-> TRUE, filter |-> "invalid"],
     [continuous |-> FALSE, filter |-> "none"],
     [continuous |-> FALSE, filter |-> "bychannel"]}

(* The bucket of a database without conflicts may hold one of the          *)
(* attachments already.                                                    *)
MCInit ==
    /\ direction \in {"pull", "push"} /\ Init /\ PushInit
    /\ IF direction = "pull" THEN conflictFree /\ attData = {}
       ELSE /\ client.seen = 0
            /\ \/ attData = {}
               \/ conflictFree /\ attData = {CHOOSE a \in AttDigests : TRUE}

MCNext ==
    /\ UNCHANGED direction
    /\ IF direction = "pull" THEN Next ELSE UNCHANGED vars
    /\ used.subs = 1 /\ used'.subs = 2 => feed'.continuous
    /\ IF direction = "push" THEN PushNext ELSE UNCHANGED pushVars
    /\ \A h \in Handlers : handler'[h].noConflicts /\ ~handler[h].noConflicts =>
          handler[h].digest = NoDigest /\ \A g \in Handlers : ~handler[g].noConflicts

(* Nothing is fair before the client's first request: the direction that   *)
(* was not picked asks for nothing.                                        *)
MCSpec == MCInit /\ [][MCNext]_<<direction, vars, pushVars>> /\ Fairness /\ PushFairness


=============================================================================
