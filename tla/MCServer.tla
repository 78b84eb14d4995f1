------------------------------ MODULE MCServer ------------------------------
(***************************************************************************)
(* The contexts of a database under its requests, and the waiting of its   *)
(* feeds.  The two share no state: a behaviour is one of one part, picked  *)
(* in the initial state.                                                   *)
(***************************************************************************)
EXTENDS Server, ChangeListener

VARIABLE part

MCInit ==
    /\ part \in {"contexts", "feeds"} /\ Init /\ ListenerInit
    /\ IF part = "feeds" THEN ~startOffline
       ELSE access = [f \in Feeds |-> {}]

MCNext ==
    /\ UNCHANGED part
    /\ IF part = "contexts" THEN Next ELSE UNCHANGED vars
    /\ IF part = "feeds" THEN ListenerNext ELSE UNCHANGED feedVars

(* Goroutines that can run do run: the tasks (clients need not leave,      *)
(* feeds need not drop and nobody has to ask for anything), the feeds, and *)
(* Notify follows what it announces.                                       *)
MCSpec ==
    /\ MCInit /\ [][MCNext]_<<part, vars, feedVars>>
    /\ \A t \in Tasks : WF_vars(Step(t))
    /\ \A k \in Keys : WF_feedVars(Notify({k}))
    /\ \A f \in Feeds : /\ WF_feedVars(NotifyCheckForTermination(f))
                        /\ WF_feedVars(part = "feeds" /\ FeedStep(f))

(* Nobody waits for ever: the tasks get the locks they wait for (TasksEnd),*)
(* and a feed that waits is woken by changes, grants and its forced end    *)
(* (WakeUpsReachFeeds).                                                    *)
ServerProgress == TasksEnd /\ WakeUpsReachFeeds

=============================================================================
