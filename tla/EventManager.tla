---------------------------- MODULE EventManager ----------------------------
(***************************************************************************)
(* The event manager (db/event_manager.go): events raised by document      *)
(* updates and by changes of the database's state go through a bounded     *)
(* channel to a worker goroutine, which starts at most maxProcesses        *)
(* goroutines; each hands its event to every registered handler.  Each     *)
(* event is raised by a goroutine of its own.                              *)
(***************************************************************************)
EXTENDS Naturals, Sequences, SequencesExt, FiniteSets

CONSTANTS
    MaxEvents,          \* bound on the events that are raised
    Handlers,           \* the handlers registered for their type
    maxProcesses        \* events that are processed concurrently

ASSUME EventManagerAssumption ==
    MaxEvents \in Nat /\ maxProcesses \in Nat \ {0}

VARIABLES
    raiser,             \* where the goroutine that raises the event is
    asyncEventChannel,
    worker,             \* the event the worker holds
    processing,         \* events being processed, with the handlers running
    handled             \* history: how often each handler had each event

(* Events are numbered in the order in which they are raised.              *)
Events == 1..MaxEvents
NoEvent == 0

eventVars == <<raiser, asyncEventChannel, worker, processing, handled>>

EventsTypeOK ==
    /\ raiser \in [Events -> {"none", "blocked", "accepted", "refused"}]
    /\ asyncEventChannel \in Seq(Events)
    /\ worker \in Events \cup {NoEvent}
    /\ processing \in [Events -> {"no", "running", "done"}]
    /\ handled \in [Events -> [Handlers -> 0..2]]

EventsInit ==
    /\ raiser = [e \in Events |-> "none"]
    /\ asyncEventChannel = <<>>
    /\ worker = NoEvent
    /\ processing = [e \in Events |-> "no"]
    /\ handled = [e \in Events |-> [h \in Handlers |-> 0]]

Room == Len(asyncEventChannel) < 3 * maxProcesses

(* What activeCountChannel counts.                                         *)
Active == {e \in Events : processing[e] = "running"}

(* raiseEvent puts the event on the channel, or blocks while it is full.   *)
RaiseEvent(e) ==
    /\ \/ raiser[e] = "none" /\ \A d \in 1..(e - 1) : raiser[d] # "none"
       \/ raiser[e] = "blocked" /\ Room
    /\ IF Room
       THEN /\ asyncEventChannel' = Append(asyncEventChannel, e)
            /\ raiser' = [raiser EXCEPT ![e] = "accepted"]
       ELSE /\ raiser' = [raiser EXCEPT ![e] = "blocked"]
            /\ UNCHANGED asyncEventChannel
    /\ UNCHANGED <<worker, processing, handled>>

(* Mutant: a full queue is not reported to the caller.                     *)
DiscardSilently(e) ==
    /\ raiser[e] = "blocked"
    /\ raiser' = [raiser EXCEPT ![e] = "accepted"]
    /\ UNCHANGED <<asyncEventChannel, worker, processing, handled>>

(* waitTime runs out - the select may take this branch although there is   *)
(* room by now - and the caller gets an error.                             *)
Discard(e) ==
    /\ raiser[e] = "blocked"
    /\ raiser' = [raiser EXCEPT ![e] = "refused"]
    /\ UNCHANGED <<asyncEventChannel, worker, processing, handled>>

(* The worker takes the next event, ...                                    *)
Receive ==
    /\ worker = NoEvent /\ asyncEventChannel # <<>>
    /\ worker' = Head(asyncEventChannel)
    /\ asyncEventChannel' = Tail(asyncEventChannel)
    /\ UNCHANGED <<raiser, processing, handled>>

(* ... and starts ProcessEvent once a slot of activeCountChannel is free.  *)
Spawn ==
    /\ worker # NoEvent
    /\ Cardinality(Active) < maxProcesses
    /\ worker' = NoEvent
    /\ processing' = [processing EXCEPT ![worker] = "running"]
    /\ UNCHANGED <<raiser, asyncEventChannel, handled>>

(* A handler of ProcessEvent runs; handlers of one event are concurrent.   *)
HandleEvent(e, h) ==
    /\ processing[e] = "running"
    /\ handled[e][h] = 0
    /\ handled' = [handled EXCEPT ![e][h] = @ + 1]
    /\ UNCHANGED <<raiser, asyncEventChannel, worker, processing>>

(* Mutant: the slot is not given back.                                     *)
FinishKeepingSlot(e) ==
    /\ processing[e] = "running" /\ \A h \in Handlers : handled[e][h] > 0
    /\ asyncEventChannel = <<>> /\ worker = NoEvent
    /\ processing' = [processing EXCEPT ![e] = "done"]
    /\ UNCHANGED <<raiser, asyncEventChannel, worker, handled>>

(* wg.Wait returns, and the slot is free again.                            *)
Finish(e) ==
    /\ processing[e] = "running" /\ \A h \in Handlers : handled[e][h] > 0
    /\ processing' = [processing EXCEPT ![e] = "done"]
    /\ UNCHANGED <<raiser, asyncEventChannel, worker, handled>>

EventsNext ==
    \/ Receive \/ Spawn
    \/ \E e \in Events : RaiseEvent(e) \/ Discard(e) \/ Finish(e)
                          \/ \E h \in Handlers : HandleEvent(e, h)

(* The goroutines run, and handlers return (webhooks have a timeout).      *)
EventsFairness ==
    /\ WF_eventVars(Receive) /\ WF_eventVars(Spawn)
    /\ \A e \in Events : WF_eventVars(Finish(e))
    /\ \A e \in Events, h \in Handlers : WF_eventVars(HandleEvent(e, h))

EventsSpec == EventsInit /\ [][EventsNext]_eventVars /\ EventsFairness

----------------------------------------------------------------------------
(* Properties                                                              *)

(* An event is in one place only: its caller is told that it was refused,  *)
(* or it is queued, held, being processed or done; a slow handler holds    *)
(* back no more than the slots and the queue.                              *)
NothingLost ==
    /\ EventsTypeOK
    /\ Cardinality(Active) <= maxProcesses
    /\ Len(asyncEventChannel) <= 3 * maxProcesses
    /\ \A e \in Events :
        LET places == (IF raiser[e] # "accepted" THEN 1 ELSE 0)
                      + (IF e \in Range(asyncEventChannel) THEN 1 ELSE 0)
                      + (IF worker = e THEN 1 ELSE 0)
                      + (IF processing[e] # "no" THEN 1 ELSE 0)
        IN  places = 1

(* Every accepted event has reached every handler.                         *)
EventsHandled ==
    \A e \in Events : raiser[e] = "accepted" =>
        \A h \in Handlers : handled[e][h] = 1

=============================================================================
