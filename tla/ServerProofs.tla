---------------------------- MODULE ServerProofs ----------------------------
(***************************************************************************)
(* Proofs about what one gateway process keeps and shares: the database    *)
(* contexts of a server, for any number of tasks and contexts; the change  *)
(* listener and the wait loop of the changes feeds, for any number of      *)
(* feeds, channels and changes; the hashes of clocks, for any number of    *)
(* gateways, requests and failing operations, any clocks, any modulus and  *)
(* any cache capacity; and resuming a DCP feed, for any vbuckets and any   *)
(* number of mutations and of failovers.                                   *)
(***************************************************************************)
EXTENDS Server, ChangeListener, SequenceHasher, DcpFeed, SequenceTheorems,
        FiniteSetTheorems, WellFoundedInduction, TLAPS

States == {"Offline", "Starting", "Online", "Stopping", "Resyncing"}

ContextRecords ==
    [state : States, open : BOOLEAN, exits : 0..MaxTasks, readers : SUBSET Tasks,
     writer : Tasks \cup {NoTask}]

(* The tasks that may still take a database offline.                       *)
Untaken == {t \in Tasks : task[t].pc # "idle" /\ ~task[t].took}

(* Each close of ExitChanges used up a task.                               *)
ExitsCounted ==
    /\ IsFiniteSet(Untaken)
    /\ \A c \in Contexts : ctx[c].exits + Cardinality(Untaken) <= tasks
    /\ \A t \in Tasks : task[t].pc \in {"act", "add", "rlock", "run", "reconnect"} => ~task[t].took

(* Only a request that is looking its database up has no context.          *)
ContextHeld ==
    \A t \in Tasks : task[t].pc \notin {"idle", "add"} => task[t].ctx \in Contexts

(* Nobody uses a context that is offline, being replaced or resynced.      *)
NoReaders ==
    \A c \in Contexts : ctx[c].state \in {"Offline", "Starting", "Resyncing"} => ctx[c].readers = {}

TakingOffline == {"offlineLock", "offlineWait"}
Replacing == {"reload", "load", "force"}
Claiming == TakingOffline \cup {"resync"} \cup Replacing

(* The steps before a task takes its database offline.                     *)
Early == {"act", "add", "rlock", "run", "reconnect"}

(* A task that changes the state of a context in several steps finds it as *)
(* it left it, unless the state was overwritten.                           *)
StateOf(pcs, state) ==
    \A t \in Tasks : task[t].pc \in pcs /\ task[t].ctx \notin overridden
                     => ctx[task[t].ctx].state = state
AloneIn(pcs) ==
    \A t, u \in Tasks :
        /\ task[t].pc \in pcs /\ task[u].pc \in pcs
        /\ task[t].ctx = task[u].ctx /\ task[t].ctx \notin overridden
        => t = u

StatesKept ==
    /\ StateOf(TakingOffline, "Stopping") /\ AloneIn(TakingOffline)
    /\ StateOf({"resync"}, "Resyncing") /\ AloneIn({"resync"})
    /\ StateOf(Replacing, "Starting")

(* A reload that is about to store the state of its new context.           *)
ForcesSound ==
    \A t \in Tasks : task[t].pc = "force" =>
        LET n == task[t].reloaded IN
        /\ n \in Contexts
        /\ ctx[n].open => n = registry
        /\ n \notin overridden /\ task[t].loadedAs = "Offline"
           => ctx[n].exits = 0 /\ ctx[n].state # "Online"
        /\ \A u \in Tasks : task[u].pc = "force" /\ task[u].reloaded = n => u = t

(* A context that was closed, but not by a removal, is being replaced.     *)
ClosedForReload ==
    \A c \in Contexts \ (yanked \cup overridden) : ~ctx[c].open => ctx[c].state = "Starting"

(* The close of ExitChanges belongs to leaving the state Online.           *)
ExitsFresh ==
    \A c \in Contexts \ overridden :
        ctx[c].exits <= 1 /\ (ctx[c].state = "Online" => ctx[c].exits = 0)

(* A task that holds the lock of the databases has removed the database.   *)
LockedEmpty == lock # NoTask => registry = None

(* How contexts pass through their states.                                 *)
Flow ==
    /\ ContextHeld /\ NoReaders /\ StatesKept /\ ForcesSound
    /\ ClosedForReload /\ ExitsFresh /\ LockedEmpty /\ OneServing

(* The inductive invariant.                                                *)
ServerInv ==
    /\ TypeOK /\ ctx \in Seq(ContextRecords) /\ 1 \in Contexts
    /\ ExitsCounted /\ Flow

TaskRecords ==
    [pc : {"idle", "act", "rlock", "run", "offlineLock", "offlineWait", "refresh", "timer", "onlineWait",
           "reload", "load", "force", "resync", "reconnect", "add"},
     kind : Kinds, ctx : Contexts \cup {None}, reloaded : Contexts \cup {None},
     loadedAs : {"Offline", "Online"}, took : BOOLEAN]

(* What a step of task t makes of the tasks and of context c.              *)
TaskBecomes(t, q) == \A u \in Tasks : task'[u] = IF u = t THEN q ELSE task[u]
ContextBecomes(c, e) == \A k \in Contexts : ctx'[k] = IF k = c THEN e ELSE ctx[k]

-----------------------------------------------------------------------------

(* A step that gives task t a new record gives it that record, and leaves  *)
(* the records of the others alone.                                        *)
LEMMA TaskStep ==
    ASSUME TypeOK, NEW t \in Tasks, NEW q \in TaskRecords, task' = [task EXCEPT ![t] = q]
    PROVE  TaskBecomes(t, q) /\ task' \in [Tasks -> TaskRecords]
BY DEF TypeOK, TaskBecomes, TaskRecords

(* A step that changes one context changes no other, and adds none.        *)
LEMMA ContextStep ==
    ASSUME ctx \in Seq(ContextRecords), NEW c \in Contexts, NEW e \in ContextRecords,
           ctx' = [ctx EXCEPT ![c] = e]
    PROVE  /\ ContextBecomes(c, e) /\ ctx' \in Seq(ContextRecords)
           /\ Len(ctx') = Len(ctx) /\ Contexts' = Contexts
<1>1. c \in 1..Len(ctx) /\ Contexts = 1..Len(ctx) BY LenProperties DEF Contexts
<1>2. /\ ctx' \in Seq(ContextRecords) /\ Len(ctx') = Len(ctx)
      /\ \A k \in 1..Len(ctx) : ctx'[k] = IF k = c THEN e ELSE ctx[k]
    <2>1. /\ [ctx EXCEPT ![c] = e] \in Seq(ContextRecords) /\ Len([ctx EXCEPT ![c] = e]) = Len(ctx)
          /\ \A k \in 1..Len(ctx) : [ctx EXCEPT ![c] = e][k] = IF k = c THEN e ELSE ctx[k]
        BY <1>1, ExceptSeq
    <2> QED BY <2>1
<1>3. Contexts' = 1..Len(ctx') BY <1>2, LenProperties DEF Contexts
<1> QED BY <1>1, <1>2, <1>3 DEF ContextBecomes

(* Contexts and tasks are functions to their records.                      *)
LEMMA Functional ==
    ASSUME ServerInv
    PROVE  ctx \in [Contexts -> ContextRecords] /\ task \in [Tasks -> TaskRecords]
<1>1. ctx \in [Contexts -> ContextRecords] BY LenProperties DEF ServerInv, Contexts
<1>2. task \in [Tasks -> TaskRecords] BY DEF ServerInv, TypeOK, TaskRecords
<1> QED BY <1>1, <1>2

(* A task that ended holds no database and claims no state.                *)
LEMMA IdleFacts ==
    /\ Idle.pc = "idle" /\ ~Idle.took /\ Idle.ctx = None
    /\ Idle.pc \notin Early /\ Idle.pc \notin Claiming
BY DEF Idle, NewTask, Early, Claiming, TakingOffline, Replacing

(* The record of a task that ended is a record of a task.                  *)
LEMMA IdleTyped == Idle \in TaskRecords
BY DEF Idle, NewTask, TaskRecords, Kinds, Served, None

(* Types are kept by a step that neither registers a context nor changes a *)
(* lock.                                                                   *)
LEMMA Typed ==
    ASSUME TypeOK, ctx' \in Seq(ContextRecords), Len(ctx') = Len(ctx), Contexts' = Contexts,
           task' \in [Tasks -> TaskRecords], UNCHANGED <<registry, lock, yanked>>,
           overridden' \subseteq Contexts, tasks' \in 0..MaxTasks, startOffline' \in BOOLEAN
    PROVE  TypeOK'
<1>1. \A c \in Contexts' : ctx'[c] \in ContextRecords
    BY LenProperties, ElementOfSeq DEF Contexts
<1>2. task' \in [Tasks -> TaskRecords'] BY DEF TaskRecords
<1> QED BY <1>1, <1>2 DEF TypeOK, ContextRecords, TaskRecords, States

(* A step which makes no task one that may still take a database offline.  *)
LEMMA UntakenShrinks ==
    ASSUME IsFiniteSet(Untaken), Untaken' \subseteq Untaken
    PROVE  IsFiniteSet(Untaken') /\ Cardinality(Untaken') <= Cardinality(Untaken)
           /\ Cardinality(Untaken') \in Nat /\ Cardinality(Untaken) \in Nat
BY FS_Subset, FS_CardinalityType



(* The steps of a task that change at most the state of one context, which *)
(* neither open nor close it nor bring it online.                          *)
Allowed(t, c, e, q) ==
    /\ q.pc \notin {"idle", "add"} => q.ctx \in Contexts
    /\ e.state \in {"Offline", "Starting", "Resyncing"} => e.readers = {}
    /\ e.open = ctx[c].open
    /\ e.state # ctx[c].state /\ c \notin overridden
       => \A u \in Tasks \ {t} : task[u].pc \in Claiming => task[u].ctx # c
    /\ q.pc # "force"
    /\ q.pc \in Claiming
       => /\ q.ctx = c
          /\ \/ task[t].ctx = c /\ e.state = ctx[c].state
                /\ \E pcs \in {TakingOffline, {"resync"}, Replacing} : q.pc \in pcs /\ task[t].pc \in pcs
             \/ /\ e.state # ctx[c].state
                /\ q.pc \in TakingOffline => e.state = "Stopping"
                /\ q.pc = "resync" => e.state = "Resyncing"
                /\ q.pc \in Replacing => e.state = "Starting"
    /\ e.state = "Online" => ctx[c].state = "Online"
    /\ e.state = "Online" => e.exits = ctx[c].exits
    /\ e.exits = ctx[c].exits \/ (ctx[c].state = "Online" /\ e.exits = ctx[c].exits + 1)
    /\ ctx[c].state = "Starting" /\ c \notin overridden => e.state = "Starting"

(* A change of one context and one task that is allowed, in the sense of   *)
(* Allowed, preserves the flow of the states.                              *)
LEMMA AllowedKeepsFlow ==
    ASSUME Flow, registry \in Contexts \cup {None},
           NEW t \in Tasks, NEW c \in Contexts, NEW e, NEW q, Contexts' = Contexts,
           ContextBecomes(c, e), TaskBecomes(t, q), UNCHANGED <<registry, lock, yanked, overridden>>,
           Allowed(t, c, e, q)
    PROVE  Flow'
<1>1. ContextHeld' /\ NoReaders'
    BY DEF Flow, ContextHeld, NoReaders, ContextBecomes, TaskBecomes, Allowed
<1>2. StateOf(TakingOffline, "Stopping")' /\ StateOf({"resync"}, "Resyncing")' /\ StateOf(Replacing, "Starting")'
    BY DEF Flow, ContextHeld, StatesKept, StateOf, ContextBecomes, TaskBecomes, Allowed, Claiming, TakingOffline, Replacing
<1>3. AloneIn(TakingOffline)' /\ AloneIn({"resync"})'
    BY DEF Flow, ContextHeld, StatesKept, AloneIn, ContextBecomes, TaskBecomes, Allowed, Claiming, TakingOffline, Replacing
<1>4. ForcesSound'
    BY DEF Flow, ForcesSound, ContextBecomes, TaskBecomes, Allowed
<1>5. ClosedForReload' /\ LockedEmpty' 
    BY DEF Flow, ClosedForReload, LockedEmpty, ContextBecomes, Allowed
<1>6. ExitsFresh' 
    BY DEF Flow, ExitsFresh, ContextBecomes, Allowed
<1>7. OneServing'
    BY DEF Flow, OneServing, ContextBecomes, Allowed
<1> QED BY <1>1, <1>2, <1>3, <1>4, <1>5, <1>6, <1>7 DEF Flow, StatesKept


(* A step that closes no ExitChanges of an existing context keeps the      *)
(* count of the closes: no task becomes one that may still take its        *)
(* database offline.                                                       *)
LEMMA CountKept ==
    ASSUME TypeOK, ctx \in Seq(ContextRecords), 1 \in Contexts, ExitsCounted, NEW t \in Tasks, NEW q, TaskBecomes(t, q), tasks' = tasks,
           q.pc # "idle" /\ ~q.took => task[t].pc # "idle" /\ ~task[t].took,
           q.pc \in Early => ~q.took,
           \A k \in Contexts' : \/ k \in Contexts /\ ctx'[k].exits = ctx[k].exits
                                \/ ctx'[k].exits = 0
    PROVE  ExitsCounted'
<1>1. Untaken' \subseteq Untaken BY DEF Untaken, TaskBecomes
<1>2. /\ IsFiniteSet(Untaken') /\ Cardinality(Untaken') <= Cardinality(Untaken)
      /\ Cardinality(Untaken') \in Nat /\ Cardinality(Untaken) \in Nat
    BY <1>1, UntakenShrinks DEF ExitsCounted
<1>3. \A k \in Contexts : ctx[k].exits \in 0..MaxTasks BY DEF TypeOK
<1>4. tasks \in Nat /\ MaxTasks \in Nat BY ServerAssumption DEF TypeOK
<1>5. Cardinality(Untaken) <= tasks BY <1>2, <1>3, <1>4 DEF ExitsCounted
<1>6. \A k \in Contexts' : ctx'[k].exits + Cardinality(Untaken') <= tasks'
    <2> TAKE k \in Contexts'
    <2>1. CASE k \in Contexts /\ ctx'[k].exits = ctx[k].exits
        <3>1. ctx[k].exits + Cardinality(Untaken) <= tasks BY <2>1 DEF ExitsCounted
        <3> QED BY <2>1, <3>1, <1>2, <1>3, <1>4
    <2>2. CASE ctx'[k].exits = 0 BY <2>2, <1>2, <1>4, <1>5
    <2> QED BY <2>1, <2>2
<1>7. \A u \in Tasks : task'[u].pc \in Early => ~task'[u].took
    BY DEF ExitsCounted, TaskBecomes, Early
<1> QED BY <1>2, <1>6, <1>7 DEF ExitsCounted, Early

(* An allowed change of one context and one task preserves the invariant.  *)
LEMMA AllowedKeepsInv ==
    ASSUME ServerInv, NEW t \in Tasks, NEW c \in Contexts, NEW e \in ContextRecords, NEW q \in TaskRecords,
           ctx' = [ctx EXCEPT ![c] = e], task' = [task EXCEPT ![t] = q],
           UNCHANGED <<registry, lock, tasks, yanked, overridden>>, startOffline' \in BOOLEAN,
           Allowed(t, c, e, q), e.exits = ctx[c].exits,
           q.pc # "idle" /\ ~q.took => task[t].pc # "idle" /\ ~task[t].took,
           q.pc \in Early => ~q.took
    PROVE  ServerInv'
<1>1. /\ ContextBecomes(c, e) /\ ctx' \in Seq(ContextRecords)
      /\ Len(ctx') = Len(ctx) /\ Contexts' = Contexts
    BY ContextStep DEF ServerInv
<1>2. TaskBecomes(t, q) /\ task' \in [Tasks -> TaskRecords] BY TaskStep DEF ServerInv
<1>3. TypeOK' 
    <2>1. overridden' \subseteq Contexts /\ tasks' \in 0..MaxTasks BY DEF ServerInv, TypeOK
    <2> QED BY <1>1, <1>2, <2>1, Typed DEF ServerInv
<1>4. Flow' 
    <2>1. registry \in Contexts \cup {None} BY DEF ServerInv, TypeOK
    <2> QED BY <1>1, <1>2, <2>1, AllowedKeepsFlow DEF ServerInv
<1>5. ExitsCounted'
    <2>1. \A k \in Contexts' : k \in Contexts /\ ctx'[k].exits = ctx[k].exits
        BY <1>1 DEF ContextBecomes
    <2>2. tasks' = tasks OBVIOUS
    <2> QED BY <1>2, <2>1, <2>2, CountKept DEF ServerInv
<1> QED BY <1>1, <1>3, <1>4, <1>5 DEF ServerInv

(* While a context that nobody overrode is online or offline, or while     *)
(* task t changes its state, no other task is in the middle of changing    *)
(* it.                                                                     *)
LEMMA StateHolder ==
    ASSUME ServerInv, NEW c \in Contexts, c \notin overridden, NEW t \in Tasks,
           \/ ctx[c].state \in {"Online", "Offline"}
           \/ task[t].ctx = c /\ task[t].pc \in TakingOffline \cup {"resync"}
    PROVE  \A u \in Tasks \ {t} : task[u].pc \in Claiming => task[u].ctx # c
BY DEF ServerInv, Flow, StatesKept, StateOf, AloneIn, Claiming, TakingOffline, Replacing

(* TakeDbOffline stores the state Offline, having waited for the requests: *)
(* the invariant is preserved.                                             *)
LEMMA SetOfflineStep ==
    ASSUME ServerInv, NEW t \in Tasks, SetOffline(t)
    PROVE  ServerInv'
<1> DEFINE c == task[t].ctx
           e == [ctx[c] EXCEPT !.writer = NoTask, !.state = "Offline"]
           q == IF task[t].kind = "drop" THEN [task[t] EXCEPT !.pc = "refresh"] ELSE Idle
<1>1. c \in Contexts /\ ctx[c] \in ContextRecords /\ task[t] \in TaskRecords
    BY DEF SetOffline, ServerInv, TypeOK, Flow, ContextHeld, ContextRecords, TaskRecords, States
<1>2. e \in ContextRecords /\ q \in TaskRecords
    BY ZenonT(30), <1>1 DEF ContextRecords, States, TaskRecords, Idle, NewTask, Kinds, Served, None
<1>3. ctx' = [ctx EXCEPT ![c] = e] /\ task' = [task EXCEPT ![t] = q]
    <2>1. ctx' = [ctx EXCEPT ![c] = e]
        BY <1>1, Functional DEF SetOffline, Unlocked, ContextRecords
    <2>2. task' = [task EXCEPT ![t] = q]
        BY <1>1, Functional DEF SetOffline, AfterOffline, Goto, End, TaskRecords
    <2> QED BY <2>1, <2>2
<1>4. c \notin overridden => \A u \in Tasks \ {t} : task[u].pc \in Claiming => task[u].ctx # c
    BY <1>1, StateHolder DEF SetOffline, TakingOffline
<1>5. c \notin overridden => ctx[c].state = "Stopping"
    BY DEF SetOffline, ServerInv, Flow, StatesKept, StateOf, TakingOffline
<1>6. Allowed(t, c, e, q)
    BY <1>1, <1>4, <1>5 DEF Allowed, SetOffline, CanLock, Idle, NewTask, ContextRecords, TaskRecords, Claiming, TakingOffline, Replacing, None
<1>7. e.exits = ctx[c].exits /\ q.pc \notin Early BY <1>1 DEF Early, Idle, NewTask, ContextRecords, TaskRecords
<1>8. q.pc # "idle" /\ ~q.took => task[t].pc # "idle" /\ ~task[t].took
    BY <1>1 DEF Idle, NewTask, SetOffline, TaskRecords
<1>9. UNCHANGED <<registry, lock, tasks, yanked, overridden>> /\ startOffline' \in BOOLEAN
    BY DEF SetOffline, ServerInv, TypeOK
<1> QED 
  <2> HIDE DEF c, e, q
  <2> QED BY <1>1, <1>2, <1>3, <1>6, <1>7, <1>8, <1>9, AllowedKeepsInv

(* The end of a resync preserves the invariant.                            *)
LEMMA ResyncDoneStep ==
    ASSUME ServerInv, NEW t \in Tasks, ResyncDone(t)
    PROVE  ServerInv'
<1> DEFINE c == task[t].ctx
           e == [ctx[c] EXCEPT !.state = IF @ = "Resyncing" THEN "Offline" ELSE @]
<1>1. c \in Contexts /\ ctx[c] \in ContextRecords /\ task[t] \in TaskRecords
    BY Functional DEF ResyncDone, ServerInv, Flow, ContextHeld
<1>2. e \in ContextRecords /\ Idle \in TaskRecords BY <1>1, IdleTyped DEF ContextRecords, States
<1>3. ctx' = [ctx EXCEPT ![c] = e] BY <1>1, Functional DEF ResyncDone, ContextRecords
<1>4. task' = [task EXCEPT ![t] = Idle] BY DEF ResyncDone, End
<1>5. c \notin overridden => \A u \in Tasks \ {t} : task[u].pc \in Claiming => task[u].ctx # c
    BY <1>1, StateHolder DEF ResyncDone
<1>6. Allowed(t, c, e, Idle)
    BY <1>1, <1>5, IdleFacts DEF Allowed, ServerInv, Flow, NoReaders, ContextRecords, Claiming, TakingOffline, Replacing
<1>7. e.exits = ctx[c].exits BY <1>1 DEF ContextRecords
<1>8. UNCHANGED <<registry, lock, tasks, yanked, overridden>> /\ startOffline' \in BOOLEAN
    BY DEF ResyncDone, ServerInv, TypeOK
<1> QED
  <2> HIDE DEF c, e
  <2> QED BY <1>1, <1>2, <1>3, <1>4, <1>6, <1>7, <1>8, IdleFacts, AllowedKeepsInv

(* The compare-and-swap that begins a resync preserves the invariant.      *)
LEMMA HandleResyncStep ==
    ASSUME ServerInv, NEW t \in Tasks, HandleResync(t), ctx[task[t].ctx].state = "Offline"
    PROVE  ServerInv'
<1> DEFINE c == task[t].ctx
           e == [ctx[c] EXCEPT !.state = "Resyncing"]
           q == [task[t] EXCEPT !.pc = "resync"]
<1>1. c \in Contexts /\ ctx[c] \in ContextRecords /\ task[t] \in TaskRecords
    BY Functional DEF HandleResync, ServerInv, Flow, ContextHeld
<1>2. e \in ContextRecords /\ q \in TaskRecords BY <1>1 DEF ContextRecords, TaskRecords, States
<1>3. ctx' = [ctx EXCEPT ![c] = e] BY <1>1, Functional DEF HandleResync, ContextRecords
<1>4. task' = [task EXCEPT ![t] = q] BY <1>1, Functional DEF HandleResync, Goto, TaskRecords
<1>5. c \notin overridden => \A u \in Tasks \ {t} : task[u].pc \in Claiming => task[u].ctx # c
    BY <1>1, StateHolder
<1>6. Allowed(t, c, e, q)
    BY <1>1, <1>5 DEF Allowed, ServerInv, Flow, NoReaders, ContextRecords, TaskRecords, TakingOffline, Replacing, Claiming
<1>7. e.exits = ctx[c].exits BY <1>1 DEF ContextRecords
<1>8. UNCHANGED <<registry, lock, tasks, yanked, overridden>> /\ startOffline' \in BOOLEAN
    BY DEF HandleResync, ServerInv, TypeOK
<1>9. /\ q.pc \notin Early
      /\ q.pc # "idle" /\ ~q.took => task[t].pc # "idle" /\ ~task[t].took
    BY <1>1 DEF Early, HandleResync, TaskRecords
<1> QED
  <2> HIDE DEF c, e, q
  <2> QED BY <1>1, <1>2, <1>3, <1>4, <1>6, <1>7, <1>8, <1>9, AllowedKeepsInv

(* TakeDbOnline's compare-and-swap preserves the invariant.                *)
LEMMA TakeDbOnlineStep ==
    ASSUME ServerInv, NEW t \in Tasks, TakeDbOnline(t)
    PROVE  ServerInv'
<1> DEFINE c == task[t].ctx
           offline == ctx[c].state = "Offline"
           e == IF offline THEN [ctx[c] EXCEPT !.state = "Starting"] ELSE [ctx[c] EXCEPT !.writer = NoTask]
           q == IF offline THEN [task[t] EXCEPT !.pc = "reload"] ELSE Idle
<1>1. c \in Contexts /\ ctx[c] \in ContextRecords /\ task[t] \in TaskRecords
    BY Functional DEF TakeDbOnline, ServerInv, Flow, ContextHeld
<1>2. e \in ContextRecords /\ q \in TaskRecords BY <1>1, IdleTyped DEF ContextRecords, TaskRecords, States
<1>3. ctx' = [ctx EXCEPT ![c] = e] BY <1>1, Functional DEF TakeDbOnline, Unlocked, ContextRecords
<1>4. task' = [task EXCEPT ![t] = q] BY <1>1, Functional DEF TakeDbOnline, Goto, End, TaskRecords
<1>5. offline /\ c \notin overridden => \A u \in Tasks \ {t} : task[u].pc \in Claiming => task[u].ctx # c
    BY <1>1, StateHolder
<1>6. Allowed(t, c, e, q)
    BY <1>1, <1>5, IdleFacts DEF Allowed, TakeDbOnline, CanLock, ContextRecords, TaskRecords, TakingOffline, Replacing, Claiming
<1>7. e.exits = ctx[c].exits BY <1>1 DEF ContextRecords
<1>8. UNCHANGED <<registry, lock, tasks, yanked, overridden>> /\ startOffline' \in BOOLEAN
    BY DEF TakeDbOnline, ServerInv, TypeOK
<1>9. /\ q.pc \notin Early
      /\ q.pc # "idle" /\ ~q.took => task[t].pc # "idle" /\ ~task[t].took
    BY <1>1, IdleFacts DEF Early, TakeDbOnline, TaskRecords
<1> QED
  <2> HIDE DEF c, e, q, offline
  <2> QED BY <1>1, <1>2, <1>3, <1>4, <1>6, <1>7, <1>8, <1>9, AllowedKeepsInv

(* Asking for the write lock of the access lock, to take a context offline *)
(* or bring it online, preserves the invariant.                            *)
LEMMA AnnounceStep ==
    ASSUME ServerInv, NEW t \in Tasks, NEW c \in Contexts, c = task[t].ctx,
           NEW pc \in {"offlineWait", "onlineWait"}, Announce(t, c), Goto(t, pc),
           task[t].pc \in {"offlineLock", "timer"}, task[t].pc = "offlineLock" <=> pc = "offlineWait",
           UNCHANGED <<registry, lock, startOffline, tasks, yanked, overridden>>
    PROVE  ServerInv'
<1> DEFINE e == [ctx[c] EXCEPT !.writer = t]
           q == [task[t] EXCEPT !.pc = pc]
<1>1. ctx[c] \in ContextRecords /\ task[t] \in TaskRecords BY Functional
<1>2. e \in ContextRecords /\ q \in TaskRecords BY <1>1 DEF ContextRecords, TaskRecords
<1>3. ctx' = [ctx EXCEPT ![c] = e] BY <1>1, Functional DEF Announce, ContextRecords
<1>4. task' = [task EXCEPT ![t] = q] BY <1>1, Functional DEF Goto, TaskRecords
<1>6. Allowed(t, c, e, q)
    BY <1>1 DEF Allowed, ServerInv, Flow, NoReaders, ContextRecords, TaskRecords, TakingOffline, Replacing, Claiming
<1>7. e.exits = ctx[c].exits BY <1>1 DEF ContextRecords
<1>8. startOffline' \in BOOLEAN BY DEF ServerInv, TypeOK
<1>9. /\ q.pc \notin Early
      /\ q.pc # "idle" /\ ~q.took => task[t].pc # "idle" /\ ~task[t].took
    BY <1>1 DEF Early, TaskRecords
<1> QED
  <2> HIDE DEF e, q
  <2> QED BY <1>1, <1>2, <1>3, <1>4, <1>6, <1>7, <1>8, <1>9, AllowedKeepsInv

(* A request that gets the read lock preserves the invariant.              *)
LEMMA EnterStep ==
    ASSUME ServerInv, NEW t \in Tasks, Enter(t)
    PROVE  ServerInv'
<1> DEFINE c == task[t].ctx
           online == ctx[c].state = "Online"
           e == IF online THEN [ctx[c] EXCEPT !.readers = @ \cup {t}] ELSE ctx[c]
           q == IF online THEN [task[t] EXCEPT !.pc = "run"] ELSE Idle
<1>1. c \in Contexts /\ ctx[c] \in ContextRecords /\ task[t] \in TaskRecords
    BY Functional DEF Enter, ServerInv, Flow, ContextHeld
<1>2. e \in ContextRecords /\ q \in TaskRecords BY <1>1, IdleTyped DEF ContextRecords, TaskRecords, States
<1>3. ctx' = [ctx EXCEPT ![c] = e] BY <1>1, Functional DEF Enter, ContextRecords
<1>4. task' = [task EXCEPT ![t] = q] BY <1>1, Functional DEF Enter, Goto, End, TaskRecords
<1>6. Allowed(t, c, e, q)
    BY <1>1, IdleFacts DEF Allowed, ServerInv, Flow, NoReaders, ContextRecords, TaskRecords, TakingOffline, Replacing, Claiming
<1>7. e.exits = ctx[c].exits BY <1>1 DEF ContextRecords
<1>8. UNCHANGED <<registry, lock, tasks, yanked, overridden>> /\ startOffline' \in BOOLEAN
    BY DEF Enter, ServerInv, TypeOK
<1>9. /\ q.pc \in Early => ~q.took
      /\ q.pc # "idle" /\ ~q.took => task[t].pc # "idle" /\ ~task[t].took
    BY <1>1, IdleFacts DEF Early, Enter, TaskRecords, ServerInv, ExitsCounted
<1> QED
  <2> HIDE DEF c, e, q, online
  <2> QED BY <1>1, <1>2, <1>3, <1>4, <1>6, <1>7, <1>8, <1>9, AllowedKeepsInv

(* A request that gives the read lock back preserves the invariant.        *)
LEMMA LeaveStep ==
    ASSUME ServerInv, NEW t \in Tasks, task[t].ctx \in Contexts,
           ctx' = RUnlocked(t, task[t].ctx), End(t),
           UNCHANGED <<registry, lock, startOffline, tasks, yanked, overridden>>
    PROVE  ServerInv'
<1> DEFINE c == task[t].ctx
           e == [ctx[c] EXCEPT !.readers = @ \ {t}]
<1>1. c \in Contexts /\ ctx[c] \in ContextRecords /\ task[t] \in TaskRecords BY Functional
<1>2. e \in ContextRecords /\ Idle \in TaskRecords BY <1>1, IdleTyped DEF ContextRecords
<1>3. ctx' = [ctx EXCEPT ![c] = e] BY <1>1, Functional DEF RUnlocked, ContextRecords
<1>4. task' = [task EXCEPT ![t] = Idle] BY DEF End
<1>6. Allowed(t, c, e, Idle)
    BY <1>1, IdleFacts DEF Allowed, ServerInv, Flow, NoReaders, ContextRecords, TakingOffline, Replacing, Claiming
<1>7. e.exits = ctx[c].exits BY <1>1 DEF ContextRecords
<1>8. startOffline' \in BOOLEAN BY DEF ServerInv, TypeOK
<1> QED
  <2> HIDE DEF c, e
  <2> QED BY <1>1, <1>2, <1>3, <1>4, <1>6, <1>7, <1>8, IdleFacts, AllowedKeepsInv

(* A step which leaves the contexts as they are.                           *)
LEMMA QuietStep ==
    ASSUME ServerInv, NEW t \in Tasks, NEW q \in TaskRecords, task' = [task EXCEPT ![t] = q],
           UNCHANGED <<ctx, registry, lock, tasks, yanked, overridden>>, startOffline' \in BOOLEAN,
           q.pc \notin {"idle", "add"} => q.ctx \in Contexts, q.pc \notin Claiming,
           q.pc # "idle" /\ ~q.took => task[t].pc # "idle" /\ ~task[t].took,
           q.pc \in Early => ~q.took
    PROVE  ServerInv'
<1> DEFINE e == ctx[1]
<1>1. 1 \in Contexts /\ e \in ContextRecords BY Functional DEF ServerInv
<1>2. ctx' = [ctx EXCEPT ![1] = e] BY <1>1, Functional
<1>3. Allowed(t, 1, e, q)
    BY <1>1 DEF Allowed, ServerInv, Flow, NoReaders, Replacing, Claiming
<1>4. e.exits = ctx[1].exits OBVIOUS
<1>5. UNCHANGED <<registry, lock, tasks, yanked, overridden>> OBVIOUS
<1> QED
  <2> HIDE DEF e
  <2> QED BY <1>1, <1>2, <1>3, <1>4, <1>5, AllowedKeepsInv

(* A task that begins has not taken a database offline, so one more task   *)
(* is one more close it may make: the invariant is preserved.              *)
LEMMA StartStep ==
    ASSUME ServerInv, NEW t \in Tasks, task[t].pc = "idle", tasks < MaxTasks, tasks' = tasks + 1,
           NEW q \in TaskRecords, task' = [task EXCEPT ![t] = q],
           q.pc \in {"act", "add", "rlock"}, ~q.took, q.pc # "add" => q.ctx \in Contexts,
           UNCHANGED <<registry, lock, startOffline, ctx, yanked, overridden>>
    PROVE  ServerInv'
<1> DEFINE e == ctx[1]
<1>1. 1 \in Contexts /\ e \in ContextRecords BY Functional DEF ServerInv
<1>2. ctx' = [ctx EXCEPT ![1] = e] BY <1>1, Functional
<1>3. /\ ContextBecomes(1, e) /\ ctx' \in Seq(ContextRecords)
      /\ Len(ctx') = Len(ctx) /\ Contexts' = Contexts
    BY <1>1, <1>2, ContextStep DEF ServerInv
<1>4. TaskBecomes(t, q) /\ task' \in [Tasks -> TaskRecords] BY TaskStep DEF ServerInv
<1>5. tasks \in 0..MaxTasks /\ MaxTasks \in Nat BY ServerAssumption DEF ServerInv, TypeOK
<1>6. TypeOK'
    <2>1. /\ overridden' \subseteq Contexts /\ tasks' \in 0..MaxTasks /\ startOffline' \in BOOLEAN
          /\ UNCHANGED <<registry, lock, yanked>>
        BY <1>5 DEF ServerInv, TypeOK
    <2> QED BY <1>3, <1>4, <2>1, Typed DEF ServerInv
<1>7. Flow'
    <2>1. registry \in Contexts \cup {None} BY DEF ServerInv, TypeOK
    <2>2. Allowed(t, 1, e, q)
        BY <1>1 DEF Allowed, ServerInv, Flow, NoReaders, TakingOffline, Replacing, Claiming
    <2>3. UNCHANGED <<registry, lock, yanked, overridden>> OBVIOUS
    <2> HIDE DEF e
    <2> QED BY <1>1, <1>3, <1>4, <2>1, <2>2, <2>3, AllowedKeepsFlow DEF ServerInv
<1>8. ExitsCounted'
    <2>1. t \notin Untaken /\ Untaken' = Untaken \cup {t} BY <1>4 DEF Untaken, TaskBecomes
    <2>2. IsFiniteSet(Untaken) BY DEF ServerInv, ExitsCounted
    <2>3. IsFiniteSet(Untaken') /\ Cardinality(Untaken') = Cardinality(Untaken) + 1
        BY <2>1, <2>2, FS_AddElement
    <2>4. Cardinality(Untaken) \in Nat BY <2>2, FS_CardinalityType
    <2>5. \A k \in Contexts : ctx[k].exits \in 0..MaxTasks /\ ctx[k].exits + Cardinality(Untaken) <= tasks
        BY DEF ServerInv, TypeOK, ExitsCounted
    <2>6. \A k \in Contexts' : ctx'[k].exits + Cardinality(Untaken') <= tasks'
        <3> TAKE k \in Contexts'
        <3>1. k \in Contexts /\ ctx'[k].exits = ctx[k].exits BY <1>3
        <3> HIDE DEF e
        <3> QED BY <2>3, <2>4, <2>5, <3>1, <1>5
    <2>7. \A u \in Tasks : task'[u].pc \in Early => ~task'[u].took
        BY <1>4 DEF TaskBecomes, ServerInv, ExitsCounted, Early
    <2> QED BY <2>3, <2>6, <2>7 DEF ExitsCounted, Early
<1> QED BY <1>1, <1>3, <1>6, <1>7, <1>8 DEF ServerInv

(* The beginning of each kind of task preserves the invariant.             *)
LEMMA StartsKeep ==
    ASSUME ServerInv, NEW t \in Tasks, Start(t)
    PROVE  ServerInv'
<1>1. registry \in Contexts \cup {None} BY DEF ServerInv, TypeOK
<1>2. ASSUME CreateDB(t) PROVE ServerInv'
    <2> DEFINE q == [NewTask("create", None) EXCEPT !.pc = "add"]
    <2>1. q \in TaskRecords /\ q.pc = "add" /\ ~q.took
        BY DEF NewTask, TaskRecords, Kinds, None
    <2> QED
        <3> HIDE DEF q
        <3>1. task' = [task EXCEPT ![t] = q] BY <1>2 DEF CreateDB, q
        <3> QED BY <1>2, <2>1, <3>1, StartStep DEF CreateDB, contextVars
<1>3. ASSUME FeedDrops(t) PROVE ServerInv'
    <2>1. PICK c \in Contexts : task' = [task EXCEPT ![t] = NewTask("drop", c)] BY <1>3 DEF FeedDrops
    <2> DEFINE q == NewTask("drop", c)
    <2>2. q \in TaskRecords /\ q.pc = "act" /\ ~q.took /\ q.ctx = c
        BY DEF NewTask, TaskRecords, Kinds, None
    <2> QED
        <3> HIDE DEF q
        <3>1. task' = [task EXCEPT ![t] = q] BY <2>1 DEF q
        <3> QED BY <1>3, <2>2, <3>1, StartStep DEF FeedDrops, contextVars
<1>4. ASSUME NEW kind \in Served \cup Admin, GetDatabase(t, kind) PROVE ServerInv'
    <2>1. CASE registry # None /\ task' = [task EXCEPT ![t] =
                [NewTask(kind, registry) EXCEPT !.pc = IF kind \in Served THEN "rlock" ELSE "act"]]
        <3> DEFINE q == [NewTask(kind, registry) EXCEPT !.pc = IF kind \in Served THEN "rlock" ELSE "act"]
        <3>1. q \in TaskRecords /\ q.pc \in {"act", "rlock"} /\ ~q.took /\ q.ctx = registry
            BY <1>1, <2>1 DEF NewTask, TaskRecords, Kinds, None
        <3> QED
            <4> HIDE DEF q
            <4>1. task' = [task EXCEPT ![t] = q] BY <2>1 DEF q
            <4> QED BY <1>1, <1>4, <2>1, <3>1, <4>1, StartStep DEF GetDatabase, contextVars
    <2>2. CASE task' = [task EXCEPT ![t] = [NewTask(kind, None) EXCEPT !.pc = "add"]]
        <3> DEFINE q == [NewTask(kind, None) EXCEPT !.pc = "add"]
        <3>1. q \in TaskRecords /\ q.pc = "add" /\ ~q.took
            BY DEF NewTask, TaskRecords, Kinds, None
        <3> QED
            <4> HIDE DEF q
            <4>1. task' = [task EXCEPT ![t] = q] BY <2>2 DEF q
            <4> QED BY <1>4, <3>1, <4>1, StartStep DEF GetDatabase, contextVars
    <2> QED BY <1>4, <2>1, <2>2 DEF GetDatabase
<1> QED BY <1>2, <1>3, <1>4 DEF Start

(* The steps that only decide what a task does next preserve the           *)
(* invariant.                                                              *)
LEMMA QuietSteps ==
    ASSUME ServerInv, NEW t \in Tasks,
           RefreshBucket(t) \/ HandleDbOnline(t) \/ HandlePutDbConfig(t)
    PROVE  ServerInv'
<1>1. task[t] \in TaskRecords /\ task \in [Tasks -> TaskRecords] BY Functional
<1>2. task[t].ctx \in Contexts
    BY DEF RefreshBucket, HandleDbOnline, HandlePutDbConfig, ServerInv, Flow, ContextHeld
<1>3. /\ UNCHANGED <<ctx, registry, lock, tasks, yanked, overridden>> /\ startOffline' \in BOOLEAN
    BY DEF RefreshBucket, HandleDbOnline, HandlePutDbConfig, contextVars, ServerInv, TypeOK
<1>4. CASE End(t)
    <2>1. task' = [task EXCEPT ![t] = Idle] BY <1>4 DEF End
    <2> QED BY <1>3, <2>1, IdleTyped, IdleFacts, QuietStep
<1>5. CASE Goto(t, "timer")
    <2> DEFINE q == [task[t] EXCEPT !.pc = "timer"]
    <2>1. q \in TaskRecords /\ q.pc = "timer" /\ q.ctx = task[t].ctx /\ q.took = task[t].took
        BY <1>1 DEF TaskRecords
    <2>2. task[t].pc # "idle" BY DEF RefreshBucket, HandleDbOnline, HandlePutDbConfig
    <2>3. task' = [task EXCEPT ![t] = q] BY <1>1, <1>5 DEF Goto, TaskRecords
    <2>4. q.pc \notin Early /\ q.pc \notin Claiming BY <2>1 DEF Early, Claiming, TakingOffline, Replacing
    <2>5. q.pc # "idle" /\ ~q.took => task[t].pc # "idle" /\ ~task[t].took BY <2>1, <2>2
    <2> HIDE DEF q
    <2> QED BY <1>2, <1>3, <2>1, <2>3, <2>4, <2>5, QuietStep
<1> QED BY <1>4, <1>5 DEF RefreshBucket, HandleDbOnline, HandlePutDbConfig

(* The flush of the bucket, after which the database is added again,       *)
(* preserves the invariant.                                                *)
LEMMA FlushBucketStep ==
    ASSUME ServerInv, NEW t \in Tasks, FlushBucket(t)
    PROVE  ServerInv'
<1>1. task[t] \in TaskRecords /\ task \in [Tasks -> TaskRecords] BY Functional
<1>2. task[t].ctx \in Contexts /\ ~task[t].took
    BY DEF FlushBucket, ServerInv, Flow, ContextHeld, ExitsCounted
<1>3. CASE Goto(t, "add") /\ UNCHANGED ctx
    <2> DEFINE q == [task[t] EXCEPT !.pc = "add"]
    <2>1. q \in TaskRecords /\ q.pc = "add" /\ ~q.took
        BY <1>1, <1>2 DEF TaskRecords
    <2>2. task[t].pc # "idle" BY DEF FlushBucket
    <2>3. task' = [task EXCEPT ![t] = q] BY <1>1, <1>3 DEF Goto, TaskRecords
    <2>4. q.pc \notin Claiming BY <2>1 DEF Claiming, TakingOffline, Replacing
    <2>5. UNCHANGED <<ctx, registry, lock, tasks, yanked, overridden>> /\ startOffline' \in BOOLEAN
        BY <1>3 DEF FlushBucket, ServerInv, TypeOK
    <2> HIDE DEF q
    <2> QED BY <1>2, <2>1, <2>2, <2>3, <2>4, <2>5, QuietStep
<1>4. CASE End(t) /\ ctx' = RUnlocked(t, task[t].ctx)
    BY <1>2, <1>4, LeaveStep DEF FlushBucket
<1> QED BY <1>3, <1>4 DEF FlushBucket

(* TakeDbOffline's compare-and-swap and the close of ExitChanges preserve  *)
(* the invariant: the task that closes cannot close again.                 *)
LEMMA TakeDbOfflineStep ==
    ASSUME ServerInv, NEW t \in Tasks, TakeDbOffline(t)
    PROVE  ServerInv'
<1> DEFINE c == task[t].ctx
<1>1. c \in Contexts /\ ctx[c] \in ContextRecords /\ task[t] \in TaskRecords /\ ~task[t].took
    BY Functional DEF TakeDbOffline, ServerInv, Flow, ContextHeld, ExitsCounted
<1>2. UNCHANGED <<registry, lock, startOffline, tasks, yanked, overridden>> /\ startOffline' \in BOOLEAN
    BY DEF TakeDbOffline, ServerInv, TypeOK
<1>3. ASSUME UNCHANGED ctx, AfterOffline(t) \/ End(t) PROVE ServerInv'
    <2>1. CASE End(t)
        <3>1. task' = [task EXCEPT ![t] = Idle] BY <2>1 DEF End
        <3> QED BY <1>2, <1>3, <3>1, IdleTyped, IdleFacts, QuietStep
    <2>2. CASE Goto(t, "refresh")
        <3> DEFINE q == [task[t] EXCEPT !.pc = "refresh"]
        <3>1. q \in TaskRecords /\ q.pc = "refresh" /\ q.ctx = task[t].ctx /\ q.took = task[t].took
            BY <1>1 DEF TaskRecords
        <3>2. task[t].pc # "idle" BY DEF TakeDbOffline
        <3>3. task' = [task EXCEPT ![t] = q] BY <1>1, <2>2, Functional DEF Goto, TaskRecords
        <3>4. q.pc \notin Early /\ q.pc \notin Claiming BY <3>1 DEF Early, Claiming, TakingOffline, Replacing
        <3> HIDE DEF q
        <3> QED BY <1>1, <1>2, <1>3, <3>1, <3>2, <3>3, <3>4, QuietStep
    <2> QED BY <1>3, <2>1, <2>2 DEF AfterOffline
<1>4. ASSUME ctx[c].state = "Online",
             ctx' = [ctx EXCEPT ![c].state = "Stopping", ![c].exits = @ + 1],
             task' = [task EXCEPT ![t].pc = "offlineLock", ![t].took = TRUE]
      PROVE  ServerInv'
    <2> DEFINE e == [ctx[c] EXCEPT !.state = "Stopping", !.exits = @ + 1]
               q == [task[t] EXCEPT !.pc = "offlineLock", !.took = TRUE]
    <2>1. IsFiniteSet(Untaken) /\ Cardinality(Untaken) \in Nat
        BY FS_CardinalityType DEF ServerInv, ExitsCounted
    <2>2. tasks \in 0..MaxTasks /\ MaxTasks \in Nat BY ServerAssumption DEF ServerInv, TypeOK
    <2>3. \A k \in Contexts : ctx[k].exits \in 0..MaxTasks /\ ctx[k].exits + Cardinality(Untaken) <= tasks
        BY DEF ServerInv, TypeOK, ExitsCounted
    <2>4. t \in Untaken BY <1>1 DEF Untaken, TakeDbOffline
    <2>5. IsFiniteSet(Untaken \ {t}) /\ Cardinality(Untaken \ {t}) = Cardinality(Untaken) - 1
          /\ Cardinality(Untaken \ {t}) \in Nat
        BY <2>1, <2>4, FS_RemoveElement, FS_CardinalityType
    <2>6. ctx[c].exits + 1 \in 0..MaxTasks /\ ctx[c].exits \in Nat BY <1>1, <2>1, <2>2, <2>3, <2>5
    <2>7. e \in ContextRecords /\ e.exits = ctx[c].exits + 1 /\ e.state = "Stopping" /\ e.open = ctx[c].open
        BY <1>1, <2>6 DEF ContextRecords, States
    <2>8. q \in TaskRecords /\ q.pc = "offlineLock" /\ q.took /\ q.ctx = c BY <1>1 DEF TaskRecords
    <2>9. ctx' = [ctx EXCEPT ![c] = e] BY <1>1, <1>4, Functional DEF ContextRecords
    <2>10. task' = [task EXCEPT ![t] = q] BY <1>1, <1>4, Functional DEF TaskRecords
    <2>11. c \notin overridden => \A u \in Tasks \ {t} : task[u].pc \in Claiming => task[u].ctx # c
        BY <1>1, <1>4, StateHolder
    <2> HIDE DEF e, q
    <2>12. Allowed(t, c, e, q)
        BY <1>1, <1>4, <2>7, <2>8, <2>11 DEF Allowed, TakingOffline, Replacing
    <2>13. /\ ContextBecomes(c, e) /\ ctx' \in Seq(ContextRecords)
           /\ Len(ctx') = Len(ctx) /\ Contexts' = Contexts
        BY <1>1, <2>7, <2>9, ContextStep DEF ServerInv
    <2>14. TaskBecomes(t, q) /\ task' \in [Tasks -> TaskRecords] BY <2>8, <2>10, TaskStep DEF ServerInv
    <2>15. TypeOK'
        <3>1. overridden' \subseteq Contexts /\ tasks' \in 0..MaxTasks BY <1>2 DEF ServerInv, TypeOK
        <3> QED BY <1>2, <2>13, <2>14, <3>1, Typed DEF ServerInv
    <2>16. Flow'
        <3>1. registry \in Contexts \cup {None} BY DEF ServerInv, TypeOK
        <3> QED BY <1>1, <1>2, <2>12, <2>13, <2>14, <3>1, AllowedKeepsFlow DEF ServerInv
    <2>17. ExitsCounted'
        <3>1. Untaken' = Untaken \ {t} BY <2>8, <2>14 DEF Untaken, TaskBecomes
        <3>2. \A k \in Contexts' : ctx'[k].exits + Cardinality(Untaken') <= tasks'
            <4> TAKE k \in Contexts'
            <4>1. k \in Contexts BY <2>13
            <4>2. ctx'[k].exits = ctx[k].exits \/ ctx'[k].exits = ctx[k].exits + 1
                BY <4>1, <2>7, <2>13 DEF ContextBecomes
            <4>3. tasks' = tasks BY <1>2
            <4>4. ctx[k].exits \in Nat /\ ctx[k].exits + Cardinality(Untaken) <= tasks BY <4>1, <2>3, <2>2
            <4>5. Cardinality(Untaken') = Cardinality(Untaken) - 1 BY <3>1, <2>5
            <4> HIDE DEF c
            <4> QED BY <4>2, <4>3, <4>4, <4>5, <2>1, <2>2
        <3>3. \A u \in Tasks : task'[u].pc \in Early => ~task'[u].took
            BY <2>8, <2>14 DEF TaskBecomes, ServerInv, ExitsCounted, Early
        <3> QED BY <2>5, <3>1, <3>2, <3>3 DEF ExitsCounted, Early
    <2> QED BY <2>13, <2>15, <2>16, <2>17 DEF ServerInv
<1> QED BY <1>3, <1>4 DEF TakeDbOffline

-----------------------------------------------------------------------------
(* Steps which open, close or replace a context.                           *)

(* Of the contexts there were, at most their AccessLocks are released.     *)
LocksReleased(cs) ==
    \A k \in Contexts : /\ cs[k].state = ctx[k].state /\ cs[k].open = ctx[k].open
                        /\ cs[k].exits = ctx[k].exits /\ cs[k].readers \subseteq ctx[k].readers

(* A registered context is closed, under its lock or by force.             *)
LEMMA RemoveStep ==
    ASSUME ServerInv, NEW t \in Tasks, NEW q \in TaskRecords, task' = [task EXCEPT ![t] = q],
           ctx' = RemoveDatabase(ctx), registry' = None, lock' \in Tasks \cup {NoTask},
           UNCHANGED <<startOffline, tasks, overridden>>,
           yanked \subseteq yanked', yanked' \subseteq yanked \cup {registry},
           registry \notin yanked' \cup overridden /\ registry # None => ctx[registry].state = "Starting",
           None \notin yanked',
           q.ctx = task[t].ctx \/ q.pc = "idle", q.pc \notin {"idle", "add"} => q.ctx \in Contexts,
           q.pc \in Claiming => q.pc = "load" /\ task[t].pc \in Replacing,
           q.pc # "idle" /\ ~q.took => task[t].pc # "idle" /\ ~task[t].took,
           q.pc \in Early => ~q.took
    PROVE  ServerInv'
<1>1. registry \in Contexts \cup {None} BY DEF ServerInv, TypeOK
<1>2. /\ ctx' \in Seq(ContextRecords) /\ Len(ctx') = Len(ctx) /\ Contexts' = Contexts
      /\ \A k \in Contexts : /\ ctx'[k].state = ctx[k].state /\ ctx'[k].exits = ctx[k].exits
                             /\ ctx'[k].readers = ctx[k].readers
                             /\ k # registry => ctx'[k].open = ctx[k].open
                             /\ k = registry => ~ctx'[k].open
    <2>1. CASE registry = None
        <3>1. ctx' = ctx BY <2>1 DEF RemoveDatabase
        <3>2. registry \notin Contexts BY <2>1, LenProperties DEF ServerInv, Contexts, None
        <3> QED BY <3>1, <3>2 DEF ServerInv, Contexts
    <2>2. CASE registry # None
        <3> DEFINE e == [ctx[registry] EXCEPT !.open = FALSE]
        <3>1. registry \in Contexts /\ ctx[registry] \in ContextRecords BY <1>1, <2>2, Functional
        <3>2. e \in ContextRecords /\ ~e.open /\ e.state = ctx[registry].state
              /\ e.exits = ctx[registry].exits /\ e.readers = ctx[registry].readers
            BY <3>1 DEF ContextRecords
        <3>3. ctx' = [ctx EXCEPT ![registry] = e] BY <2>2, <3>1, Functional DEF RemoveDatabase, ContextRecords
        <3> HIDE DEF e
        <3>4. /\ ContextBecomes(registry, e) /\ ctx' \in Seq(ContextRecords)
              /\ Len(ctx') = Len(ctx) /\ Contexts' = Contexts
            BY <3>1, <3>2, <3>3, ContextStep DEF ServerInv
        <3> QED BY <3>2, <3>4 DEF ContextBecomes
    <2> QED BY <2>1, <2>2
<1>3. TaskBecomes(t, q) /\ task' \in [Tasks -> TaskRecords] BY TaskStep DEF ServerInv
<1>4. TypeOK'
    <2>1. \A c \in Contexts' : ctx'[c] \in ContextRecords
        BY <1>2, LenProperties, ElementOfSeq DEF Contexts
    <2>2. task' \in [Tasks -> TaskRecords'] BY <1>2, <1>3 DEF TaskRecords
    <2>3. yanked' \subseteq Contexts' /\ overridden' \subseteq Contexts'
        BY <1>1, <1>2 DEF ServerInv, TypeOK
    <2> QED BY <1>2, <2>1, <2>2, <2>3 DEF ServerInv, TypeOK, ContextRecords, TaskRecords, States
<1>5. ExitsCounted'
    <2>1. \A k \in Contexts' : k \in Contexts /\ ctx'[k].exits = ctx[k].exits BY <1>2
    <2>2. tasks' = tasks OBVIOUS
    <2> QED BY <1>3, <2>1, <2>2, CountKept DEF ServerInv
<1>6. ContextHeld' /\ NoReaders'
    BY <1>2, <1>3 DEF ServerInv, Flow, ContextHeld, NoReaders, TaskBecomes
<1>7. StatesKept'
    <2>1. StateOf(TakingOffline, "Stopping")' /\ StateOf({"resync"}, "Resyncing")' /\ StateOf(Replacing, "Starting")'
        BY SMTT(30), <1>2, <1>3 DEF ServerInv, Flow, ContextHeld, StatesKept, StateOf, TaskBecomes, Claiming, TakingOffline, Replacing
    <2>2. AloneIn(TakingOffline)' /\ AloneIn({"resync"})'
        BY <1>2, <1>3 DEF ServerInv, Flow, StatesKept, AloneIn, TaskBecomes, Claiming, TakingOffline, Replacing
    <2> QED BY <2>1, <2>2 DEF StatesKept
<1>8. ForcesSound'
    BY <1>2, <1>3 DEF ServerInv, Flow, ForcesSound, TaskBecomes, Claiming, Replacing
<1>9. ClosedForReload' /\ ExitsFresh'
    <2>1. None \notin Contexts BY LenProperties DEF ServerInv, Contexts, None
    <2>2. ClosedForReload' BY <1>2, <2>1 DEF ServerInv, Flow, ClosedForReload
    <2>3. ExitsFresh' BY SMTT(30), <1>2 DEF ServerInv, Flow, ExitsFresh
    <2> QED BY <2>2, <2>3
<1>10. LockedEmpty' /\ OneServing'
    BY <1>1, <1>2 DEF ServerInv, Flow, LockedEmpty, OneServing
<1> QED BY <1>2, <1>4, <1>5, <1>6, <1>7, <1>8, <1>9, <1>10 DEF ServerInv, Flow

(* What loading a context makes of the invariant: the step adds at most    *)
(* one context, while none is registered.                                  *)
LEMMA LoadStep ==
    ASSUME ServerInv, registry = None, NEW t \in Tasks, NEW cs \in Seq(ContextRecords),
           Len(cs) = Len(ctx), LocksReleased(cs), NEW q, TaskBecomes(t, q),
           UNCHANGED <<tasks, yanked, overridden, startOffline>>, lock' = NoTask,
           task' \in [Tasks -> TaskRecords'],
           \/ ctx' = cs /\ registry' = None /\ q.pc # "force"
           \/ /\ Len(ctx) < MaxContexts
              /\ \E s \in {"Offline", "Online"} :
                   /\ ctx' = Append(cs, NewContext(s))
                   /\ registry' = Len(cs) + 1 \/ (registry' = None /\ s = "Offline")
                   /\ q.pc = "force" => q.reloaded = Len(cs) + 1 /\ registry' = Len(cs) + 1 /\ q.loadedAs = s,
           q.pc \notin {"idle", "add"} => q.ctx \in Contexts',
           q.pc \in Claiming => q.pc = "force" /\ task[t].pc = "load" /\ q.ctx = task[t].ctx,
           q.pc # "idle" /\ ~q.took => task[t].pc # "idle" /\ ~task[t].took,
           q.pc \in Early => ~q.took
    PROVE  ServerInv'
<1>1. /\ Contexts = 1..Len(ctx) /\ Len(ctx) \in Nat /\ \A k \in Contexts : cs[k] \in ContextRecords
    BY LenProperties, ElementOfSeq DEF ServerInv, Contexts
<1>2. \A s \in {"Offline", "Online"} : /\ NewContext(s) \in ContextRecords
          /\ NewContext(s).state = s /\ NewContext(s).open /\ NewContext(s).exits = 0 /\ NewContext(s).readers = {}
    BY ServerAssumption DEF NewContext, ContextRecords, States
<1> DEFINE n == Len(ctx) + 1
<1>3. n \notin Contexts /\ None \notin Contexts /\ n # None BY <1>1 DEF None
<1>4. ASSUME NEW s \in {"Offline", "Online"}, ctx' = Append(cs, NewContext(s))
      PROVE  /\ ctx' \in Seq(ContextRecords) /\ Len(ctx') = n /\ Contexts' = Contexts \cup {n}
             /\ \A k \in Contexts : ctx'[k] = cs[k]
             /\ ctx'[n] = NewContext(s)
    <2>1. NewContext(s) \in ContextRecords BY <1>2
    <2> HIDE DEF NewContext
    <2>2. ctx' \in Seq(ContextRecords) /\ Len(ctx') = n
          /\ (\A k \in 1..Len(cs) : ctx'[k] = cs[k]) /\ ctx'[n] = NewContext(s)
        BY <1>4, <2>1, AppendProperties
    <2>3. DOMAIN ctx' = 1..n BY <2>2, LenProperties
    <2> QED BY <2>2, <2>3, <1>1 DEF Contexts
<1> DEFINE Adds == Contexts' = Contexts \cup {n} /\ Len(ctx') = n /\ Len(ctx) < MaxContexts
                   /\ \E s \in {"Offline", "Online"} :
                      /\ ctx'[n] = NewContext(s)
                      /\ registry' = n \/ (registry' = None /\ s = "Offline")
                      /\ q.pc = "force" => q.reloaded = n /\ registry' = n /\ q.loadedAs = s
           Same == Contexts' = Contexts /\ Len(ctx') = Len(ctx) /\ registry' = None /\ q.pc # "force"
<1>5. /\ ctx' \in Seq(ContextRecords)
      /\ Adds \/ Same
      /\ \A k \in Contexts : ctx'[k] = cs[k]
    <2>1. CASE ctx' = cs /\ registry' = None /\ q.pc # "force"
        BY <2>1, <1>1, LenProperties DEF Contexts
    <2>2. CASE /\ Len(ctx) < MaxContexts
               /\ \E s \in {"Offline", "Online"} :
                   /\ ctx' = Append(cs, NewContext(s))
                   /\ registry' = Len(cs) + 1 \/ (registry' = None /\ s = "Offline")
                   /\ q.pc = "force" => q.reloaded = Len(cs) + 1 /\ registry' = Len(cs) + 1 /\ q.loadedAs = s
        BY <2>2, <1>4
    <2> QED BY <2>1, <2>2
<1> HIDE DEF n
<1>6. \A k \in Contexts : /\ ctx'[k].state = ctx[k].state /\ ctx'[k].open = ctx[k].open
                          /\ ctx'[k].exits = ctx[k].exits /\ ctx'[k].readers \subseteq ctx[k].readers
    BY <1>5 DEF LocksReleased
<1>7. Adds \/ Same BY <1>5
<1>8. Contexts \subseteq Contexts' /\ \A k \in Contexts' : k \in Contexts \/ (k = n /\ Adds) BY <1>7
<1>9. Adds => /\ ctx'[n].open /\ ctx'[n].exits = 0 /\ ctx'[n].readers = {}
              /\ ctx'[n].state \in {"Offline", "Online"}
              /\ registry' = n \/ (registry' = None /\ ctx'[n].state = "Offline")
              /\ q.pc = "force" => q.reloaded = n /\ registry' = n /\ q.loadedAs = ctx'[n].state
    BY <1>2
<1> HIDE DEF Adds, Same
<1>10. TypeOK'
    <2>1. \A c \in Contexts' : ctx'[c] \in ContextRecords
        BY <1>5, LenProperties, ElementOfSeq DEF Contexts
    <2>2. yanked' \subseteq Contexts' /\ overridden' \subseteq Contexts'
        BY <1>8 DEF ServerInv, TypeOK
    <2>3. Len(ctx') <= MaxContexts /\ registry' \in Contexts' \cup {None}
        BY <1>7, <1>1, <1>9, ServerAssumption DEF ServerInv, TypeOK, Adds, Same, n
    <2> QED BY <2>1, <2>2, <2>3 DEF ServerInv, TypeOK, ContextRecords, TaskRecords, States
<1>11. ExitsCounted'
    <2>1. \A k \in Contexts' : \/ k \in Contexts /\ ctx'[k].exits = ctx[k].exits
                               \/ ctx'[k].exits = 0
        BY <1>6, <1>8, <1>9
    <2>2. tasks' = tasks OBVIOUS
    <2> QED BY <2>1, <2>2, CountKept DEF ServerInv
<1>12. ContextHeld' /\ NoReaders'
    BY <1>6, <1>8, <1>9 DEF ServerInv, Flow, ContextHeld, NoReaders, TaskBecomes
<1>13. StatesKept'
    <2>1. \A u \in Tasks : task'[u].pc \in Claiming =>
              /\ task'[u].ctx = task[u].ctx /\ task[u].ctx \in Contexts
              /\ \/ task[u].pc = task'[u].pc
                 \/ task'[u].pc = "force" /\ task[u].pc = "load"
        BY DEF ServerInv, Flow, ContextHeld, TaskBecomes, Claiming, TakingOffline, Replacing
    <2>2. StateOf(TakingOffline, "Stopping")' /\ StateOf({"resync"}, "Resyncing")' /\ StateOf(Replacing, "Starting")'
        <3>1. /\ StateOf(TakingOffline, "Stopping") /\ StateOf({"resync"}, "Resyncing")
              /\ StateOf(Replacing, "Starting") /\ overridden' = overridden
            BY DEF ServerInv, Flow, StatesKept
        <3>2. StateOf(TakingOffline, "Stopping")' BY <1>6, <2>1, <3>1 DEF StateOf, Claiming, TakingOffline
        <3>3. StateOf({"resync"}, "Resyncing")' BY <1>6, <2>1, <3>1 DEF StateOf, Claiming
        <3>4. StateOf(Replacing, "Starting")' BY <1>6, <2>1, <3>1 DEF StateOf, Claiming, Replacing
        <3> QED BY <3>2, <3>3, <3>4
    <2>3. AloneIn(TakingOffline)' /\ AloneIn({"resync"})'
        BY DEF ServerInv, Flow, StatesKept, AloneIn, TaskBecomes, Claiming, TakingOffline, Replacing
    <2> QED BY <2>2, <2>3 DEF StatesKept
<1>14. ForcesSound'
    <2>1. q.pc = "force" => /\ n \in Contexts' /\ q.reloaded = n /\ registry' = n
                            /\ q.loadedAs = ctx'[n].state /\ ctx'[n].exits = 0
        BY <1>7, <1>9 DEF Same, Adds
    <2>2. \A u \in Tasks \ {t} : task'[u] = task[u] BY DEF TaskBecomes
    <2>3. task'[t] = q BY DEF TaskBecomes
    <2>4. \A u \in Tasks : task[u].pc = "force" =>
              /\ task[u].reloaded \in Contexts /\ ~ctx[task[u].reloaded].open
              /\ task[u].reloaded \notin overridden /\ task[u].loadedAs = "Offline"
                 => ctx[task[u].reloaded].exits = 0 /\ ctx[task[u].reloaded].state # "Online"
              /\ \A v \in Tasks : task[v].pc = "force" /\ task[v].reloaded = task[u].reloaded => v = u
        BY <1>3 DEF ServerInv, Flow, ForcesSound
    <2>5. overridden' = overridden OBVIOUS
    <2> QED BY SMTT(30), <1>3, <1>6, <1>8, <2>1, <2>2, <2>3, <2>4, <2>5 DEF ForcesSound
<1>15. ClosedForReload' /\ ExitsFresh'
    <2>1. UNCHANGED <<yanked, overridden>> /\ ClosedForReload /\ ExitsFresh BY DEF ServerInv, Flow
    <2>2. ClosedForReload' BY <1>6, <1>8, <1>9, <2>1 DEF ClosedForReload
    <2>3. ExitsFresh' BY <1>6, <1>8, <1>9, <2>1 DEF ExitsFresh
    <2> QED BY <2>2, <2>3
<1>16. LockedEmpty' /\ OneServing'
    BY <1>3, <1>6, <1>7, <1>8, <1>9 DEF ServerInv, Flow, LockedEmpty, OneServing, Same
<1>17. 1 \in Contexts' BY <1>8 DEF ServerInv
<1> QED BY <1>5, <1>10, <1>11, <1>12, <1>13, <1>14, <1>15, <1>16, <1>17 DEF ServerInv, Flow

(* The last step of a reload, which stores the state of the new context    *)
(* without looking at it, preserves the invariant.                         *)
LEMMA ForceOnlineStep ==
    ASSUME ServerInv, NEW t \in Tasks, ForceOnline(t)
    PROVE  ServerInv'
<1> DEFINE c == task[t].ctx
           n == task[t].reloaded
           d == [ctx[c] EXCEPT !.writer = NoTask]
           cs == [ctx EXCEPT ![c] = d]
           e == [cs[n] EXCEPT !.state = "Online"]
<1>1. /\ c \in Contexts /\ n \in Contexts /\ ctx[c] \in ContextRecords /\ ctx[n] \in ContextRecords
      /\ task[t] \in TaskRecords /\ task[t].pc = "force"
    BY Functional DEF ForceOnline, ServerInv, Flow, ContextHeld, ForcesSound
<1>2. d \in ContextRecords /\ d.state = ctx[c].state /\ d.open = ctx[c].open
      /\ d.exits = ctx[c].exits /\ d.readers = ctx[c].readers
    BY <1>1 DEF ContextRecords
<1>3. cs = Unlocked(c) BY <1>1, Functional DEF Unlocked, ContextRecords
<1>4. cs \in Seq(ContextRecords) /\ Len(cs) = Len(ctx)
      /\ \A k \in 1..Len(ctx) : cs[k] = IF k = c THEN d ELSE ctx[k]
    <2>1. c \in 1..Len(ctx) BY <1>1, LenProperties DEF Contexts, ServerInv
    <2> HIDE DEF c, d
    <2> QED BY <1>2, <2>1, ExceptSeq DEF ServerInv
<1>5. Contexts = 1..Len(ctx) BY LenProperties DEF Contexts, ServerInv
<1> HIDE DEF d, cs
<1>6. cs[n] \in ContextRecords /\ cs[n].state = ctx[n].state /\ cs[n].open = ctx[n].open
      /\ cs[n].exits = ctx[n].exits /\ cs[n].readers = ctx[n].readers
    BY <1>1, <1>2, <1>4, <1>5
<1>7. e \in ContextRecords /\ e.state = "Online" /\ e.open = ctx[n].open
      /\ e.exits = ctx[n].exits /\ e.readers = ctx[n].readers
    BY <1>6 DEF ContextRecords, States
<1>8. ctx' = [cs EXCEPT ![n] = e]
    <2>1. cs \in [1..Len(ctx) -> ContextRecords] BY <1>4, LenProperties
    <2> QED BY <1>1, <1>3, <1>5, <2>1 DEF ForceOnline, ContextRecords
<1> HIDE DEF e
<1>9. ctx' \in Seq(ContextRecords) /\ Len(ctx') = Len(ctx)
      /\ \A k \in 1..Len(ctx) : ctx'[k] = IF k = n THEN e ELSE cs[k]
    <2>1. /\ [cs EXCEPT ![n] = e] \in Seq(ContextRecords) /\ Len([cs EXCEPT ![n] = e]) = Len(cs)
          /\ \A k \in 1..Len(cs) : [cs EXCEPT ![n] = e][k] = IF k = n THEN e ELSE cs[k]
        BY <1>1, <1>4, <1>5, <1>7, ExceptSeq
    <2> QED BY <1>4, <1>8, <2>1
<1>10. Contexts' = Contexts BY <1>5, <1>9, LenProperties DEF Contexts
<1>11. \A k \in Contexts : /\ ctx'[k].open = ctx[k].open /\ ctx'[k].exits = ctx[k].exits
                           /\ ctx'[k].readers = ctx[k].readers
                           /\ ctx'[k].state = IF k = n THEN "Online" ELSE ctx[k].state
    BY <1>2, <1>4, <1>5, <1>7, <1>9
<1>12. /\ task' = [task EXCEPT ![t] = Idle] /\ UNCHANGED <<registry, lock, startOffline, tasks, yanked>>
       /\ overridden' = IF ctx[n].state = task[t].loadedAs THEN overridden ELSE overridden \cup {n}
    BY DEF ForceOnline, End
<1>13. TaskBecomes(t, Idle) /\ task' \in [Tasks -> TaskRecords]
    BY <1>12, IdleTyped, TaskStep DEF ServerInv
<1>14. TypeOK'
    <2>1. overridden' \subseteq Contexts /\ tasks' \in 0..MaxTasks /\ startOffline' \in BOOLEAN
        BY <1>1, <1>12 DEF ServerInv, TypeOK
    <2> QED BY <1>9, <1>10, <1>12, <1>13, <2>1, Typed DEF ServerInv
<1>15. ExitsCounted'
    <2>1. \A k \in Contexts' : k \in Contexts /\ ctx'[k].exits = ctx[k].exits BY <1>10, <1>11
    <2>2. tasks' = tasks BY <1>12
    <2> QED BY <1>13, <2>1, <2>2, IdleFacts, CountKept DEF ServerInv
<1>16. n \notin overridden' =>
           /\ ctx[n].state \in {"Offline", "Online"} /\ ctx[n].exits = 0 /\ n \notin overridden
    BY <1>1, <1>12 DEF ServerInv, Flow, ForcesSound, ExitsFresh, TaskRecords
<1>17. overridden \subseteq overridden' /\ overridden' \subseteq overridden \cup {n} BY <1>12
<1>18. \A u \in Tasks : u # t => task'[u] = task[u] BY <1>13 DEF TaskBecomes
<1>19. task'[t] = Idle BY <1>13 DEF TaskBecomes
<1>20. ContextHeld' /\ NoReaders'
    BY <1>10, <1>11, <1>18, <1>19, IdleFacts DEF ServerInv, Flow, ContextHeld, NoReaders
<1>21. StatesKept'
    <2>1. \A u \in Tasks : task'[u].pc \in Claiming => u # t BY <1>19, IdleFacts
    <2>2. StateOf(TakingOffline, "Stopping")'
        BY <1>11, <1>16, <1>17, <1>18, <2>1 DEF ServerInv, Flow, ContextHeld, StatesKept, StateOf, Claiming, TakingOffline
    <2>3. StateOf({"resync"}, "Resyncing")'
        BY <1>11, <1>16, <1>17, <1>18, <2>1 DEF ServerInv, Flow, ContextHeld, StatesKept, StateOf, Claiming
    <2>4. StateOf(Replacing, "Starting")'
        BY <1>11, <1>16, <1>17, <1>18, <2>1 DEF ServerInv, Flow, ContextHeld, StatesKept, StateOf, Claiming, Replacing
    <2>5. AloneIn(TakingOffline)' /\ AloneIn({"resync"})'
        BY <1>17, <1>18, <2>1 DEF ServerInv, Flow, StatesKept, AloneIn, Claiming, TakingOffline
    <2> QED BY <2>2, <2>3, <2>4, <2>5 DEF StatesKept
<1>22. ForcesSound'
    <2>1. \A u \in Tasks : task'[u].pc = "force" =>
             u # t /\ task[u].pc = "force" /\ task[u].reloaded # n /\ task'[u] = task[u]
        BY <1>1, <1>18, <1>19, IdleFacts DEF ServerInv, Flow, ForcesSound
    <2>2. ForcesSound /\ registry' = registry BY <1>12 DEF ServerInv, Flow
    <2> QED BY <1>10, <1>11, <1>17, <2>1, <2>2 DEF ForcesSound
<1>23. ClosedForReload'
    BY <1>10, <1>11, <1>12, <1>16, <1>17 DEF ServerInv, Flow, ClosedForReload
<1>24. ExitsFresh'
    BY <1>10, <1>11, <1>16, <1>17 DEF ServerInv, Flow, ExitsFresh
<1>25. LockedEmpty' /\ OneServing'
    <2>1. ctx[n].open => n = registry BY <1>1 DEF ServerInv, Flow, ForcesSound
    <2>2. registry \in Contexts \cup {None} BY DEF ServerInv, TypeOK
    <2> QED BY <1>10, <1>11, <1>12, <2>1, <2>2 DEF ServerInv, Flow, LockedEmpty, OneServing
<1> QED BY <1>9, <1>10, <1>14, <1>15, <1>20, <1>21, <1>22, <1>23, <1>24, <1>25 DEF ServerInv, Flow

(* The first step of a reload, which removes and closes the old context,   *)
(* preserves the invariant.                                                *)
LEMMA ReloadRemoveStep ==
    ASSUME ServerInv, NEW t \in Tasks, ReloadRemove(t)
    PROVE  ServerInv'
<1> DEFINE q == [task[t] EXCEPT !.pc = "load"]
<1>1. task[t] \in TaskRecords /\ task \in [Tasks -> TaskRecords] /\ task[t].pc = "reload"
      /\ task[t].ctx \in Contexts
    BY Functional DEF ReloadRemove, ServerInv, Flow, ContextHeld
<1>2. q \in TaskRecords /\ q.pc = "load" /\ q.ctx = task[t].ctx /\ q.took = task[t].took
    BY <1>1 DEF TaskRecords
<1>3. task' = [task EXCEPT ![t] = q] BY <1>1 DEF ReloadRemove, Goto, TaskRecords
<1>4. task[t].ctx \notin overridden => ctx[task[t].ctx].state = "Starting"
    BY <1>1 DEF ServerInv, Flow, StatesKept, StateOf, Replacing
<1>5. None \notin yanked BY LenProperties DEF ServerInv, TypeOK, Contexts, None
<1>6. /\ yanked \subseteq yanked' /\ yanked' \subseteq yanked \cup {registry} /\ None \notin yanked'
      /\ registry \notin yanked' \cup overridden /\ registry # None => ctx[registry].state = "Starting"
    BY <1>4, <1>5 DEF ReloadRemove
<1>7. q.pc \notin Early /\ task[t].pc \in Replacing BY <1>1, <1>2 DEF Early, Replacing
<1>8. /\ ctx' = RemoveDatabase(ctx) /\ registry' = None /\ lock' \in Tasks \cup {NoTask}
      /\ UNCHANGED <<startOffline, tasks, overridden>>
    BY DEF ReloadRemove
<1>9. q.pc # "idle" /\ ~q.took => task[t].pc # "idle" /\ ~task[t].took BY <1>1, <1>2
<1> HIDE DEF q
<1> QED BY <1>1, <1>2, <1>3, <1>6, <1>7, <1>8, <1>9, RemoveStep

(* The removal of the context of a bucket to be flushed preserves the      *)
(* invariant.                                                              *)
LEMMA FlushRemoveStep ==
    ASSUME ServerInv, NEW t \in Tasks, FlushRemove(t)
    PROVE  ServerInv'
<1> DEFINE q == [task[t] EXCEPT !.pc = "reconnect"]
<1>1. task[t] \in TaskRecords /\ task \in [Tasks -> TaskRecords] /\ task[t].pc = "run"
      /\ task[t].ctx \in Contexts /\ ~task[t].took
    BY Functional DEF FlushRemove, ServerInv, Flow, ContextHeld, ExitsCounted
<1>2. q \in TaskRecords /\ q.pc = "reconnect" /\ q.ctx = task[t].ctx /\ ~q.took
    BY <1>1 DEF TaskRecords
<1>3. task' = [task EXCEPT ![t] = q] BY <1>1 DEF FlushRemove, Goto, TaskRecords
<1>4. None \notin yanked BY LenProperties DEF ServerInv, TypeOK, Contexts, None
<1>5. /\ yanked \subseteq yanked' /\ yanked' \subseteq yanked \cup {registry} /\ None \notin yanked'
      /\ registry \notin yanked' \cup overridden /\ registry # None => ctx[registry].state = "Starting"
    BY <1>4 DEF FlushRemove
<1>6. q.pc \notin Claiming BY <1>2 DEF Claiming, TakingOffline, Replacing
<1>7. /\ ctx' = RemoveDatabase(ctx) /\ registry' = None /\ lock' \in Tasks \cup {NoTask}
      /\ UNCHANGED <<startOffline, tasks, overridden>>
    BY DEF FlushRemove
<1> HIDE DEF q
<1> QED BY <1>1, <1>2, <1>3, <1>5, <1>6, <1>7, RemoveStep

(* The removal of a database preserves the invariant.                      *)
LEMMA HandleDeleteDBStep ==
    ASSUME ServerInv, NEW t \in Tasks, HandleDeleteDB(t)
    PROVE  ServerInv'
<1>1. task' = [task EXCEPT ![t] = Idle] BY DEF HandleDeleteDB, End
<1>2. None \notin yanked BY LenProperties DEF ServerInv, TypeOK, Contexts, None
<1>3. /\ yanked \subseteq yanked' /\ yanked' \subseteq yanked \cup {registry} /\ None \notin yanked'
      /\ registry \notin yanked' \cup overridden /\ registry # None => ctx[registry].state = "Starting"
    BY <1>2 DEF HandleDeleteDB
<1>4. /\ ctx' = RemoveDatabase(ctx) /\ registry' = None /\ lock' \in Tasks \cup {NoTask}
      /\ UNCHANGED <<startOffline, tasks, overridden>>
    BY DEF HandleDeleteDB
<1> QED BY <1>1, <1>3, <1>4, IdleTyped, IdleFacts, RemoveStep

(* Contexts are only ever added.                                           *)
LEMMA Grown ==
    ASSUME ServerInv, NEW cs \in Seq(ContextRecords), Len(cs) = Len(ctx),
           \/ ctx' = cs
           \/ \E s \in {"Offline", "Online"} : ctx' = Append(cs, NewContext(s))
    PROVE  /\ Contexts \subseteq Contexts' /\ task \in [Tasks -> TaskRecords'] /\ Idle \in TaskRecords'
           /\ ctx' # cs => Len(cs) + 1 \in Contexts'
<1>1. Contexts = 1..Len(ctx) /\ Len(ctx) \in Nat /\ DOMAIN cs = 1..Len(ctx)
    BY LenProperties DEF ServerInv, Contexts
<1>2. \A s \in {"Offline", "Online"} : NewContext(s) \in ContextRecords
    BY ServerAssumption DEF NewContext, ContextRecords, States
<1>3. Contexts \subseteq Contexts' /\ (ctx' # cs => Len(cs) + 1 \in Contexts')
    <2>1. CASE ctx' = cs BY <1>1, <2>1 DEF Contexts
    <2>2. ASSUME NEW s \in {"Offline", "Online"}, ctx' = Append(cs, NewContext(s))
          PROVE  Contexts \subseteq Contexts' /\ (ctx' # cs => Len(cs) + 1 \in Contexts')
        <3>1. NewContext(s) \in ContextRecords BY <1>2
        <3>2. ctx' \in Seq(ContextRecords) /\ Len(ctx') = Len(cs) + 1 BY <2>2, <3>1, AppendProperties
        <3>3. DOMAIN ctx' = 1..(Len(cs) + 1) BY <3>2, LenProperties
        <3> QED BY <1>1, <3>3 DEF Contexts
    <2> QED BY <2>1, <2>2
<1>4. TaskRecords \subseteq TaskRecords' BY <1>3 DEF TaskRecords
<1> QED BY <1>3, <1>4, Functional, IdleTyped

(* A load that fails, after which its task ends.                           *)
LEMMA LoadFailsStep ==
    ASSUME ServerInv, registry = None, NEW t \in Tasks, NEW cs \in Seq(ContextRecords),
           Len(cs) = Len(ctx), LocksReleased(cs), LoadFails(cs), End(t), lock' = NoTask,
           UNCHANGED <<tasks, yanked, overridden, startOffline>>
    PROVE  ServerInv'
<1>1. /\ registry' = None
      /\ ctx' = cs \/ (Len(ctx) < MaxContexts /\ ctx' = Append(cs, NewContext("Offline")))
    BY DEF LoadFails
<1>2. task \in [Tasks -> TaskRecords'] /\ Idle \in TaskRecords' BY <1>1, Grown
<1>3. task' = [task EXCEPT ![t] = Idle] /\ task \in [Tasks -> TaskRecords] BY Functional DEF End
<1>4. task' \in [Tasks -> TaskRecords'] BY <1>2, <1>3
<1>5. TaskBecomes(t, Idle) BY <1>3 DEF TaskBecomes
<1>6. \/ ctx' = cs /\ registry' = None /\ Idle.pc # "force"
      \/ /\ Len(ctx) < MaxContexts
         /\ \E s \in {"Offline", "Online"} :
              /\ ctx' = Append(cs, NewContext(s))
              /\ registry' = Len(cs) + 1 \/ (registry' = None /\ s = "Offline")
              /\ Idle.pc = "force" => Idle.reloaded = Len(cs) + 1 /\ registry' = Len(cs) + 1 /\ Idle.loadedAs = s
    BY <1>1, IdleFacts
<1> QED BY <1>4, <1>5, <1>6, IdleFacts, LoadStep

(* A load that succeeds.                                                   *)
LEMMA LoadedStep ==
    ASSUME ServerInv, registry = None, NEW t \in Tasks, NEW cs \in Seq(ContextRecords),
           Len(cs) = Len(ctx), LocksReleased(cs), LoadFromConfig(cs), NEW q,
           task' = [task EXCEPT ![t] = q], q \in TaskRecords', lock' = NoTask,
           UNCHANGED <<tasks, yanked, overridden, startOffline>>,
           q.pc = "force" => q.reloaded = registry' /\ q.loadedAs = LoadedState,
           q.pc \notin {"idle", "add"} => q.ctx \in Contexts',
           q.pc \in Claiming => q.pc = "force" /\ task[t].pc = "load" /\ q.ctx = task[t].ctx,
           q.pc # "idle" /\ ~q.took => task[t].pc # "idle" /\ ~task[t].took,
           q.pc \in Early => ~q.took
    PROVE  ServerInv'
<1>1. LoadedState \in {"Offline", "Online"} BY DEF LoadedState
<1>2. /\ Len(ctx) < MaxContexts /\ ctx' = Append(cs, NewContext(LoadedState)) /\ registry' = Len(cs) + 1
    BY DEF LoadFromConfig
<1> HIDE DEF LoadedState
<1>3. task \in [Tasks -> TaskRecords'] /\ task \in [Tasks -> TaskRecords] BY <1>1, <1>2, Grown, Functional
<1>4. task' \in [Tasks -> TaskRecords'] BY <1>3
<1>5. TaskBecomes(t, q) BY <1>3 DEF TaskBecomes
<1>6. \/ ctx' = cs /\ registry' = None /\ q.pc # "force"
      \/ /\ Len(ctx) < MaxContexts
         /\ \E s \in {"Offline", "Online"} :
              /\ ctx' = Append(cs, NewContext(s))
              /\ registry' = Len(cs) + 1 \/ (registry' = None /\ s = "Offline")
              /\ q.pc = "force" => q.reloaded = Len(cs) + 1 /\ registry' = Len(cs) + 1 /\ q.loadedAs = s
    BY <1>1, <1>2
<1> QED BY <1>4, <1>5, <1>6, LoadStep

(* Nothing, or one AccessLock, is released.                                *)
LEMMA Released ==
    ASSUME ServerInv
    PROVE  /\ ctx \in Seq(ContextRecords) /\ LocksReleased(ctx)
           /\ \A c \in Contexts : /\ Unlocked(c) \in Seq(ContextRecords) /\ Len(Unlocked(c)) = Len(ctx)
                                  /\ LocksReleased(Unlocked(c))
           /\ \A c \in Contexts, t \in Tasks :
                 /\ RUnlocked(t, c) \in Seq(ContextRecords) /\ Len(RUnlocked(t, c)) = Len(ctx)
                 /\ LocksReleased(RUnlocked(t, c))
<1>1. ctx \in Seq(ContextRecords) /\ Contexts = 1..Len(ctx) BY LenProperties DEF ServerInv, Contexts
<1>2. ASSUME NEW c \in Contexts, NEW e \in ContextRecords, e.state = ctx[c].state, e.open = ctx[c].open,
             e.exits = ctx[c].exits, e.readers \subseteq ctx[c].readers
      PROVE  /\ [ctx EXCEPT ![c] = e] \in Seq(ContextRecords) /\ Len([ctx EXCEPT ![c] = e]) = Len(ctx)
             /\ LocksReleased([ctx EXCEPT ![c] = e])
    <2>1. /\ [ctx EXCEPT ![c] = e] \in Seq(ContextRecords) /\ Len([ctx EXCEPT ![c] = e]) = Len(ctx)
          /\ \A k \in 1..Len(ctx) : [ctx EXCEPT ![c] = e][k] = IF k = c THEN e ELSE ctx[k]
        BY <1>1, ExceptSeq
    <2> QED BY <1>1, <1>2, <2>1 DEF LocksReleased
<1>3. ASSUME NEW c \in Contexts
      PROVE  /\ Unlocked(c) \in Seq(ContextRecords) /\ Len(Unlocked(c)) = Len(ctx)
             /\ LocksReleased(Unlocked(c))
    <2> DEFINE e == [ctx[c] EXCEPT !.writer = NoTask]
    <2>1. ctx[c] \in ContextRecords BY Functional
    <2>2. /\ e \in ContextRecords /\ e.state = ctx[c].state /\ e.open = ctx[c].open
          /\ e.exits = ctx[c].exits /\ e.readers \subseteq ctx[c].readers
        BY <2>1 DEF ContextRecords
    <2>3. Unlocked(c) = [ctx EXCEPT ![c] = e] BY <2>1, Functional DEF Unlocked, ContextRecords
    <2> HIDE DEF e
    <2>4. /\ [ctx EXCEPT ![c] = e] \in Seq(ContextRecords) /\ Len([ctx EXCEPT ![c] = e]) = Len(ctx)
          /\ LocksReleased([ctx EXCEPT ![c] = e])
        BY <1>2, <2>2
    <2> QED BY <2>3, <2>4, Zenon
<1>4. ASSUME NEW c \in Contexts, NEW t \in Tasks
      PROVE  /\ RUnlocked(t, c) \in Seq(ContextRecords) /\ Len(RUnlocked(t, c)) = Len(ctx)
             /\ LocksReleased(RUnlocked(t, c))
    <2> DEFINE e == [ctx[c] EXCEPT !.readers = @ \ {t}]
    <2>1. ctx[c] \in ContextRecords BY Functional
    <2>2. /\ e \in ContextRecords /\ e.state = ctx[c].state /\ e.open = ctx[c].open
          /\ e.exits = ctx[c].exits /\ e.readers \subseteq ctx[c].readers
        BY <2>1 DEF ContextRecords
    <2>3. RUnlocked(t, c) = [ctx EXCEPT ![c] = e] BY <2>1, Functional DEF RUnlocked, ContextRecords
    <2> HIDE DEF e
    <2>4. /\ [ctx EXCEPT ![c] = e] \in Seq(ContextRecords) /\ Len([ctx EXCEPT ![c] = e]) = Len(ctx)
          /\ LocksReleased([ctx EXCEPT ![c] = e])
        BY <1>2, <2>2
    <2> QED BY <2>3, <2>4, Zenon
<1> QED BY <1>1, <1>3, <1>4 DEF LocksReleased

(* The second step of a reload, which registers the new context, preserves *)
(* the invariant.                                                          *)
LEMMA ReloadLoadStep ==
    ASSUME ServerInv, NEW t \in Tasks, ReloadLoad(t)
    PROVE  ServerInv'
<1>1. registry = None BY ServerAssumption DEF ReloadLoad, ServerInv, Flow, LockedEmpty
<1>2. task[t] \in TaskRecords /\ task \in [Tasks -> TaskRecords] /\ task[t].pc = "load" /\ task[t].ctx \in Contexts
    BY Functional DEF ReloadLoad, ServerInv, Flow, ContextHeld
<1>3. lock' = NoTask /\ UNCHANGED <<tasks, yanked, overridden, startOffline>> BY DEF ReloadLoad
<1>4. CASE LoadFails(Unlocked(task[t].ctx)) /\ End(t)
    <2> DEFINE cs == Unlocked(task[t].ctx)
    <2>1. cs \in Seq(ContextRecords) /\ Len(cs) = Len(ctx) /\ LocksReleased(cs) BY <1>2, Released
    <2>2. LoadFails(cs) /\ End(t) BY <1>4
    <2> HIDE DEF cs
    <2> QED BY <1>1, <1>3, <2>1, <2>2, LoadFailsStep
<1>5. CASE /\ LoadFromConfig(ctx)
           /\ task' = [task EXCEPT ![t].pc = "force", ![t].reloaded = registry', ![t].loadedAs = LoadedState]
    <2> DEFINE q == [task[t] EXCEPT !.pc = "force", !.reloaded = registry', !.loadedAs = LoadedState]
    <2>1. LoadedState \in {"Offline", "Online"} BY DEF LoadedState
    <2>2. ctx' = Append(ctx, NewContext(LoadedState)) /\ registry' = Len(ctx) + 1 BY <1>5 DEF LoadFromConfig
    <2> HIDE DEF LoadedState
    <2>3. ctx' # ctx
        <3>1. ctx \in Seq(ContextRecords) BY DEF ServerInv
        <3>2. Len(Append(ctx, NewContext(LoadedState))) = Len(ctx) + 1 /\ Len(ctx) \in Nat BY <3>1
        <3> QED BY <2>2, <3>2
    <2>4. Contexts \subseteq Contexts' /\ registry' \in Contexts' /\ task[t] \in TaskRecords'
        BY <2>1, <2>2, <2>3, Grown DEF ServerInv
    <2>5. /\ q \in TaskRecords' /\ q.pc = "force" /\ q.reloaded = registry' /\ q.loadedAs = LoadedState
          /\ q.ctx = task[t].ctx /\ q.took = task[t].took
        BY <1>2, <2>1, <2>4 DEF TaskRecords
    <2>6. task' = [task EXCEPT ![t] = q] BY <1>2, <1>5 DEF TaskRecords
    <2>7. q.pc \notin Early BY <2>5 DEF Early
    <2>8. q.pc # "idle" /\ ~q.took => task[t].pc # "idle" /\ ~task[t].took BY <1>2, <2>5
    <2>9. ctx \in Seq(ContextRecords) /\ LocksReleased(ctx) /\ LoadFromConfig(ctx) BY <1>5, Released
    <2>10. q.ctx \in Contexts' BY <1>2, <2>4, <2>5
    <2> HIDE DEF q
    <2> QED BY <1>1, <1>2, <1>3, <2>5, <2>6, <2>7, <2>8, <2>9, <2>10, LoadedStep
<1> QED BY <1>4, <1>5 DEF ReloadLoad

(* The registration of a database preserves the invariant.                 *)
LEMMA AddDatabaseStep ==
    ASSUME ServerInv, NEW t \in Tasks, AddDatabase(t)
    PROVE  ServerInv'
<1> DEFINE looking == task[t].kind # "create" /\ task[t].ctx = None
           found(c) == [task EXCEPT ![t].ctx = c, ![t].pc = IF task[t].kind \in Served THEN "rlock" ELSE "act"]
           asked(c) == [task[t] EXCEPT !.ctx = c, !.pc = IF task[t].kind \in Served THEN "rlock" ELSE "act"]
           released == IF task[t].ctx = None THEN ctx ELSE RUnlocked(t, task[t].ctx)
<1>1. /\ task[t] \in TaskRecords /\ task \in [Tasks -> TaskRecords] /\ task[t].pc = "add" /\ ~task[t].took
      /\ task[t].ctx \in Contexts \cup {None} /\ registry \in Contexts \cup {None}
    BY Functional DEF AddDatabase, ServerInv, TypeOK, ExitsCounted
<1>2. lock = NoTask /\ UNCHANGED <<lock, tasks, yanked, overridden, startOffline>> /\ startOffline' \in BOOLEAN
    BY DEF AddDatabase, ServerInv, TypeOK
<1>3. released \in Seq(ContextRecords) /\ Len(released) = Len(ctx) /\ LocksReleased(released)
    BY <1>1, Released
<1>4. \A c : /\ found(c) = [task EXCEPT ![t] = asked(c)]
             /\ asked(c).pc \in {"rlock", "act"} /\ asked(c).ctx = c /\ ~asked(c).took
    BY <1>1 DEF TaskRecords
<1>5. CASE registry # None /\ looking /\ task' = found(registry) /\ UNCHANGED <<ctx, registry>>
    <2> DEFINE q == asked(registry)
    <2>1. registry \in Contexts BY <1>1, <1>5
    <2>2. q \in TaskRecords BY <1>1, <2>1 DEF TaskRecords
    <2>3. task' = [task EXCEPT ![t] = q] /\ q.pc \in {"rlock", "act"} /\ q.ctx = registry /\ ~q.took
        BY <1>4, <1>5
    <2> HIDE DEF q
    <2>4. q.pc \notin Claiming BY <2>3 DEF Claiming, TakingOffline, Replacing
    <2> QED BY <1>1, <1>2, <1>5, <2>1, <2>2, <2>3, <2>4, QuietStep
<1>6. CASE ctx' = released /\ End(t) /\ UNCHANGED registry
    <2>1. CASE task[t].ctx = None
        <3>1. task' = [task EXCEPT ![t] = Idle] /\ UNCHANGED ctx BY <1>6, <2>1 DEF End
        <3> QED BY <1>2, <1>6, <3>1, IdleTyped, IdleFacts, QuietStep
    <2>2. CASE task[t].ctx # None
        <3>1. task[t].ctx \in Contexts /\ ctx' = RUnlocked(t, task[t].ctx) /\ End(t) BY <1>1, <1>6, <2>2
        <3> QED BY <1>2, <1>6, <3>1, LeaveStep
    <2> QED BY <2>1, <2>2
<1>7. CASE registry = None /\ LoadFromConfig(released) /\ IF looking THEN task' = found(registry') ELSE End(t)
    <2>1. LoadedState \in {"Offline", "Online"} BY DEF LoadedState
    <2>2. ctx' = Append(released, NewContext(LoadedState)) /\ registry' = Len(released) + 1
        BY <1>7 DEF LoadFromConfig
    <2> HIDE DEF LoadedState
    <2> DEFINE q == IF looking THEN asked(registry') ELSE Idle
    <2>3. task' = [task EXCEPT ![t] = q] BY <1>4, <1>7 DEF End
    <2>4. /\ q.pc \in {"rlock", "act", "idle"} /\ ~q.took
          /\ q.pc # "idle" => q.ctx = registry'
        BY <1>4, IdleFacts
    <2>5. registry' \in Contexts' /\ task[t] \in TaskRecords' /\ Idle \in TaskRecords'
        <3> HIDE DEF released
        <3>1. ctx' # released
            <4>1. Len(Append(released, NewContext(LoadedState))) = Len(released) + 1 /\ Len(released) \in Nat BY <1>3
            <4> QED BY <2>2, <4>1
        <3> QED BY <1>3, <2>1, <2>2, <3>1, Grown
    <2>6. q \in TaskRecords'
        <3>1. asked(registry') \in TaskRecords' BY <1>1, <2>5 DEF TaskRecords
        <3> HIDE DEF asked
        <3> QED BY <2>5, <3>1
    <2>7. q.pc \notin Claiming /\ q.pc # "force" BY <2>4 DEF Claiming, TakingOffline, Replacing
    <2>8. LoadFromConfig(released) /\ registry = None BY <1>7
    <2> HIDE DEF q, released
    <2> QED BY <1>1, <1>2, <1>3, <2>3, <2>4, <2>5, <2>6, <2>7, <2>8, LoadedStep
<1>8. CASE registry = None /\ LoadFails(released) /\ End(t)
    <2> HIDE DEF released
    <2> QED BY <1>2, <1>3, <1>8, LoadFailsStep
<1> QED BY <1>5, <1>6, <1>7, <1>8 DEF AddDatabase

(* The invariant holds of a server that was just started.                  *)
LEMMA ServerInitially ==
    ASSUME Init
    PROVE  ServerInv
<1> DEFINE s == IF startOffline THEN "Offline" ELSE "Online"
<1>1. s \in {"Offline", "Online"} /\ ctx = <<NewContext(s)>> BY DEF Init
<1> HIDE DEF s
<1>2. /\ NewContext(s) \in ContextRecords /\ NewContext(s).exits = 0 /\ NewContext(s).open
      /\ NewContext(s).state = s /\ NewContext(s).readers = {}
    BY <1>1, ServerAssumption DEF NewContext, ContextRecords, States
<1>3. ctx \in Seq(ContextRecords) /\ Len(ctx) = 1 /\ Contexts = {1} /\ ctx[1] = NewContext(s)
    BY <1>1, <1>2 DEF Contexts
<1>4. task \in [Tasks -> TaskRecords] /\ \A t \in Tasks : task[t] = Idle
    BY IdleTyped DEF Init
<1>5. TypeOK
    BY <1>2, <1>3, <1>4, ServerAssumption DEF Init, TypeOK, TaskRecords, ContextRecords, States
<1>6. ExitsCounted
    <2>1. Untaken = {} BY <1>4, IdleFacts DEF Untaken
    <2>2. IsFiniteSet(Untaken) /\ Cardinality(Untaken) = 0 BY <2>1, FS_EmptySet
    <2> QED BY <1>2, <1>3, <1>4, <2>2, IdleFacts DEF ExitsCounted, Init
<1>7. Flow
    <2>1. ContextHeld /\ NoReaders /\ ForcesSound /\ ClosedForReload /\ ExitsFresh
        BY <1>1, <1>2, <1>3, <1>4, IdleFacts
        DEF ContextHeld, NoReaders, ForcesSound, ClosedForReload, ExitsFresh
    <2>2. StatesKept
        BY <1>4, IdleFacts DEF StatesKept, StateOf, AloneIn, Claiming
    <2>3. LockedEmpty /\ OneServing BY <1>2, <1>3 DEF Init, LockedEmpty, OneServing
    <2> QED BY <2>1, <2>2, <2>3 DEF Flow
<1> QED BY <1>3, <1>5, <1>6, <1>7 DEF ServerInv

(* Every step preserves the invariant.                                     *)
LEMMA ServerInductive ==
    ASSUME ServerInv, [Next]_vars
    PROVE  ServerInv'
<1>1. CASE UNCHANGED vars
    BY <1>1 DEF vars, ServerInv, TypeOK, Contexts, ExitsCounted, Untaken, Flow, ContextHeld, NoReaders,
           StatesKept, StateOf, AloneIn, ForcesSound, ClosedForReload, ExitsFresh, LockedEmpty, OneServing
<1>2. ASSUME NEW t \in Tasks, Start(t) PROVE ServerInv' BY <1>2, StartsKeep
<1>3. ASSUME NEW t \in Tasks, Step(t) PROVE ServerInv'
    <2>1. ASSUME NEW kinds, Leave(t, kinds) PROVE ServerInv'
        <3>1. task[t].ctx \in Contexts BY <2>1 DEF Leave, ServerInv, Flow, ContextHeld
        <3> QED BY <2>1, <3>1, LeaveStep DEF Leave
    <2>2. CASE FinishOp(t) \/ FeedExits(t) BY <2>1, <2>2 DEF FinishOp, FeedExits
    <2>3. CASE OfflineLock(t)
        <3>1. task[t].ctx \in Contexts BY <2>3 DEF OfflineLock, ServerInv, Flow, ContextHeld
        <3> QED BY <2>3, <3>1, AnnounceStep DEF OfflineLock
    <2>4. CASE TimerFires(t)
        <3>1. task[t].ctx \in Contexts BY <2>4 DEF TimerFires, ServerInv, Flow, ContextHeld
        <3> QED BY <2>4, <3>1, AnnounceStep DEF TimerFires
    <2>5. CASE HandleResync(t)
        <3>1. CASE ctx[task[t].ctx].state = "Offline" BY <2>5, <3>1, HandleResyncStep
        <3>2. CASE ctx[task[t].ctx].state # "Offline"
            <4>1. task' = [task EXCEPT ![t] = Idle] BY <2>5, <3>2 DEF HandleResync, End
            <4>2. UNCHANGED <<ctx, registry, lock, tasks, yanked, overridden>> /\ startOffline' \in BOOLEAN
                BY <2>5, <3>2 DEF HandleResync, ServerInv, TypeOK
            <4> QED BY <4>1, <4>2, IdleTyped, IdleFacts, QuietStep
        <3> QED BY <3>1, <3>2
    <2> QED
        BY <1>3, <2>2, <2>3, <2>4, <2>5, AddDatabaseStep, EnterStep, FlushRemoveStep, FlushBucketStep,
           TakeDbOfflineStep, SetOfflineStep, QuietSteps, TakeDbOnlineStep, ReloadRemoveStep,
           ReloadLoadStep, ForceOnlineStep, ResyncDoneStep, HandleDeleteDBStep
        DEF Step
<1>4. ASSUME NEW t \in Tasks, ClientLeaves(t) PROVE ServerInv'
    <2>1. task[t].ctx \in Contexts BY <1>4 DEF ClientLeaves, Leave, ServerInv, Flow, ContextHeld
    <2> QED BY <1>4, <2>1, LeaveStep DEF ClientLeaves, Leave
<1> QED BY <1>1, <1>2, <1>3, <1>4 DEF Next

(* The invariant implies that contexts are safe.                           *)
LEMMA ServerInvImpliesSafe ==
    ASSUME ServerInv
    PROVE  ContextsSafe
<1>1. QuietWhenOffline
    <2>1. \A c \in Contexts : ctx[c].state \in {"Offline", "Starting", "Resyncing"} => Running(c) = {}
        BY DEF ServerInv, Flow, NoReaders, Running
    <2>2. ASSUME NEW t \in Tasks, task[t].pc = "resync", task[t].ctx \notin overridden
          PROVE  Running(task[t].ctx) = {}
        BY <2>1, <2>2 DEF ServerInv, Flow, StatesKept, StateOf, ContextHeld
    <2> QED BY <2>1, <2>2 DEF QuietWhenOffline
<1>2. ExitClosedOnce BY DEF ServerInv, Flow, ExitsFresh, ExitClosedOnce
<1>3. RunningOnOpen
    BY DEF ServerInv, Flow, ClosedForReload, NoReaders, Running, RunningOnOpen
<1> QED BY <1>1, <1>2, <1>3 DEF ServerInv, Flow, ContextsSafe

(* For any number of tasks and contexts: two contexts of the database      *)
(* never serve side by side, no request runs on a context that is offline, *)
(* being replaced or resynced, ExitChanges of a context is closed at most  *)
(* once and requests run on open contexts, but for the races Server names  *)
(* with yanked and overridden.                                             *)
THEOREM ServerContextsSafe == Spec => []ContextsSafe
<1>1. Init => ServerInv BY ServerInitially
<1>2. ServerInv /\ [Next]_vars => ServerInv' BY ServerInductive
<1>3. ServerInv => ContextsSafe BY ServerInvImpliesSafe
<1> QED BY <1>1, <1>2, <1>3, PTL DEF Spec

-----------------------------------------------------------------------------
(* A feed never counts higher than the listener would count for it, so     *)
(* that Wait does not mistake a lower count for the end of the listener:   *)
(* its channels are still its user's, and one of its keys has a count that *)
(* is not below lastCounter.                                               *)
CountsUp(f) ==
    stopping = "no" /\ f \notin revoked =>
        /\ feed[f].channels \subseteq access[f]
        /\ \E k \in feed[f].channels \cup {f} : feed[f].lastCounter <= keyCounts[k]
        /\ ~(feed[f].pc = "returned" /\ feed[f].wake = "closed")

EndedFor(f) ==
    feed[f].pc = "ended" => Terminated(f) \/ stopping # "no" \/ f \in revoked

ListenerInd ==
    /\ ListenerTypeOK
    /\ \A k \in Keys : keyCounts[k] <= counter
    /\ \A f \in Feeds : CountsUp(f) /\ EndedFor(f)

(* A set of numbers that is bounded and not empty has a greatest one.      *)
LEMMA GreatestNumber ==
    ASSUME NEW T, T \subseteq Nat, T # {}, NEW n \in Nat, \A x \in T : x <= n
    PROVE  \E x \in T : \A y \in T : x >= y
<1> DEFINE R == {ss \in Nat \X Nat : ss[1] < ss[2]}
           U == {n - x : x \in T}
<1>1. IsWellFoundedOn(R, Nat)
  BY NatLessThanWellFounded DEF OpToRel
<1>2. U \subseteq Nat /\ U # {}
  <2>1. \A x \in T : n - x \in Nat
    OBVIOUS
  <2>2. U \subseteq Nat
    BY <2>1
  <2>3. PICK x : x \in T
    OBVIOUS
  <2>4. n - x \in U
    BY <2>3
  <2> QED
    BY <2>2, <2>4
<1> HIDE DEF R, U
<1>3. PICK u \in U : \A v \in U : ~(<<v, u>> \in R)
  BY <1>1, <1>2, WFMin
<1>4. \A v \in U : ~(v < u)
  BY <1>2, <1>3 DEF R
<1>5. PICK x \in T : u = n - x
  BY DEF U
<1>6. ASSUME NEW y \in T PROVE x >= y
  <2>1. n - y \in U
    BY DEF U
  <2>2. ~(n - y < n - x)
    BY <1>4, <1>5, <2>1
  <2> QED
    BY <2>2
<1> QED
  BY <1>6

(* _currentCount is the count of one of the keys, and the highest.         *)
LEMMA CurrentCountIsHighest ==
    ASSUME ListenerInd, NEW f \in Feeds, NEW S \in SUBSET Channels
    PROVE  /\ CurrentCount(f, S) \in Nat
           /\ \E k \in S \cup {f} : CurrentCount(f, S) = keyCounts[k]
           /\ \A k \in S \cup {f} : keyCounts[k] <= CurrentCount(f, S)
<1> DEFINE T == {keyCounts[k] : k \in S \cup {f}}
<1>1. /\ \A k \in S \cup {f} : keyCounts[k] \in Nat /\ keyCounts[k] <= counter
      /\ counter \in Nat
  BY DEF ListenerInd, ListenerTypeOK, Keys
<1>2. T \subseteq Nat /\ T # {} /\ \A x \in T : x <= counter
  BY <1>1
<1> HIDE DEF T
<1>3. \E x \in T : \A y \in T : x >= y
  BY <1>1, <1>2, GreatestNumber
<1>4. Max(T) \in T /\ \A y \in T : Max(T) >= y
  BY <1>3 DEF Max
<1>5. CurrentCount(f, S) = Max(T)
  BY DEF CurrentCount, T
<1>6. PICK m : m = Max(T)
  OBVIOUS
<1>7. m \in T /\ m \in Nat /\ \A y \in T : m >= y
  BY <1>2, <1>4, <1>6
<1> QED
  BY <1>1, <1>5, <1>6, <1>7 DEF T

(* What no step takes back.                                                *)
Onward ==
    /\ stopping' = "no" => /\ stopping = "no"
                           /\ \A k \in Keys : keyCounts[k] <= keyCounts'[k]
    /\ revoked \subseteq revoked'
    /\ \A f \in Feeds : f \notin revoked' => access[f] \subseteq access'[f]
    /\ \A f \in Feeds : closing[f] # "no" => closing'[f] # "no"
    /\ \A k \in Keys : keyCounts'[k] <= counter'

(* A feed that a step leaves alone, or only wakes.                         *)
LEMMA FeedKept ==
    ASSUME ListenerInd, Onward, NEW f \in Feeds, keyCounts' \in [Keys -> Nat],
           feed'[f].channels = feed[f].channels,
           feed'[f].lastCounter = feed[f].lastCounter,
           feed'[f].wake = feed[f].wake,
           feed'[f].pc = feed[f].pc \/ feed'[f].pc = "woken"
    PROVE  CountsUp(f)' /\ EndedFor(f)'
<1>0. feed[f] \in FeedState
  BY DEF ListenerInd, ListenerTypeOK
<1>1. EndedFor(f)'
  BY DEF ListenerInd, EndedFor, Onward, Terminated
<1>2. CountsUp(f)'
  <2> SUFFICES ASSUME stopping' = "no", f \notin revoked'
               PROVE  /\ feed'[f].channels \subseteq access'[f]
                      /\ \E k \in feed'[f].channels \cup {f} : feed'[f].lastCounter <= keyCounts'[k]
                      /\ ~(feed'[f].pc = "returned" /\ feed'[f].wake = "closed")
    BY DEF CountsUp
  <2>1. stopping = "no" /\ f \notin revoked /\ access[f] \subseteq access'[f]
    BY DEF Onward
  <2>2. /\ feed[f].channels \subseteq access[f]
        /\ ~(feed[f].pc = "returned" /\ feed[f].wake = "closed")
    BY <2>1 DEF ListenerInd, CountsUp
  <2>3. PICK k \in feed[f].channels \cup {f} : feed[f].lastCounter <= keyCounts[k]
    BY <2>1 DEF ListenerInd, CountsUp
  <2>4. feed[f].lastCounter \in Nat /\ k \in Keys
    BY <1>0 DEF FeedState, Keys
  <2>5. keyCounts[k] \in Nat /\ keyCounts'[k] \in Nat /\ keyCounts[k] <= keyCounts'[k]
    BY <2>4 DEF ListenerInd, ListenerTypeOK, Onward
  <2>6. feed'[f].lastCounter <= keyCounts'[k]
    BY <2>3, <2>4, <2>5
  <2> QED
    BY <2>1, <2>2, <2>6
<1> QED
  BY <1>1, <1>2

----------------------------------------------------------------------------
(* The world around the feeds, and notifications.                          *)

(* Broadcast changes nothing but the feeds that are asleep.                *)
LEMMA BroadcastKept ==
    ASSUME ListenerTypeOK, feed' = Broadcast(feed), NEW f \in Feeds
    PROVE  /\ feed' \in [Feeds -> FeedState]
           /\ feed'[f].channels = feed[f].channels
           /\ feed'[f].lastCounter = feed[f].lastCounter
           /\ feed'[f].wake = feed[f].wake
           /\ feed'[f].pc = feed[f].pc \/ (feed'[f].pc = "woken" /\ feed[f].pc = "asleep")
<1>1. \A g \in Feeds : feed[g] \in FeedState
  BY DEF ListenerTypeOK
<1>2. \A g \in Feeds : /\ [feed[g] EXCEPT !.pc = "woken"] \in FeedState
                       /\ [feed[g] EXCEPT !.pc = "woken"].channels = feed[g].channels
                       /\ [feed[g] EXCEPT !.pc = "woken"].lastCounter = feed[g].lastCounter
                       /\ [feed[g] EXCEPT !.pc = "woken"].wake = feed[g].wake
                       /\ [feed[g] EXCEPT !.pc = "woken"].pc = "woken"
  BY <1>1 DEF FeedState
<1>3. feed' = [g \in Feeds |-> IF feed[g].pc = "asleep" THEN [feed[g] EXCEPT !.pc = "woken"]
                                                      ELSE feed[g]]
  BY DEF Broadcast
<1> QED
  BY <1>1, <1>2, <1>3

(* A step that leaves the feeds as they are or wakes some of them.         *)
LEMMA WorldStep ==
    ASSUME ListenerInd, Onward, ListenerTypeOK',
           UNCHANGED feed \/ feed' = Broadcast(feed)
    PROVE  ListenerInd'
<1>1. \A f \in Feeds : /\ feed'[f].channels = feed[f].channels
                       /\ feed'[f].lastCounter = feed[f].lastCounter
                       /\ feed'[f].wake = feed[f].wake
                       /\ feed'[f].pc = feed[f].pc \/ feed'[f].pc = "woken"
  BY BroadcastKept DEF ListenerInd
<1>2. keyCounts' \in [Keys -> Nat]
  BY DEF ListenerTypeOK
<1>3. ASSUME NEW f \in Feeds PROVE CountsUp(f)' /\ EndedFor(f)'
  <2>1. /\ feed'[f].channels = feed[f].channels
        /\ feed'[f].lastCounter = feed[f].lastCounter
        /\ feed'[f].wake = feed[f].wake
        /\ feed'[f].pc = feed[f].pc \/ feed'[f].pc = "woken"
    BY <1>1
  <2>2. ListenerInd /\ Onward
    OBVIOUS
  <2> QED
    BY <1>2, <2>1, <2>2, FeedKept, Zenon
<1> QED
  BY <1>3 DEF ListenerInd, Onward

(* The lock is held by the feed that is about to sleep; Broadcast does not *)
(* concern it.                                                             *)
LEMMA LockKept ==
    ASSUME ListenerTypeOK, feed' = Broadcast(feed), UNCHANGED notifierLock
    PROVE  \A f \in Feeds : notifierLock' = f <=> feed'[f].pc = "enlist"
<1>1. \A f \in Feeds : notifierLock = f <=> feed[f].pc = "enlist"
  BY DEF ListenerTypeOK
<1>2. \A f \in Feeds : feed'[f].pc = feed[f].pc \/ (feed'[f].pc = "woken" /\ feed[f].pc = "asleep")
  BY BroadcastKept
<1> QED
  BY <1>1, <1>2

(* Publish, ChangeUser and CloseRequest.                                   *)
LEMMA RequestStep ==
    ASSUME ListenerInd,
           \/ \E c \in Channels : Publish(c)
           \/ \E f \in Feeds, S \in SUBSET Channels : ChangeUser(f, S)
           \/ \E f \in Feeds, how \in {"quiet", "forced"} : CloseRequest(f, how)
           \/ Stop
    PROVE  ListenerInd'
<1>0. /\ ListenerTypeOK /\ MaxChanges \in Nat /\ MaxUserChanges \in Nat
      /\ \A k \in Keys : keyCounts[k] <= counter /\ keyCounts[k] \in Nat
  BY ChangeListenerAssumption DEF ListenerInd, ListenerTypeOK
<1>1. ASSUME NEW c \in Channels, Publish(c) PROVE ListenerTypeOK' /\ Onward
  <2>1. c \in Keys
    BY DEF Keys
  <2> QED
    BY <1>0, <1>1, <2>1 DEF Publish, ListenerTypeOK, Onward, listenerVars
<1>2. ASSUME NEW f \in Feeds, NEW S \in SUBSET Channels, ChangeUser(f, S)
      PROVE  ListenerTypeOK' /\ Onward
  <2>1. f \in Keys
    BY DEF Keys
  <2>2. ListenerTypeOK'
    BY <1>0, <1>2, <2>1 DEF ChangeUser, ListenerTypeOK, listenerVars
  <2>3. Onward
    BY <1>0, <1>2, <2>1 DEF ChangeUser, ListenerTypeOK, Onward, listenerVars
  <2> QED
    BY <2>2, <2>3
<1>3. ASSUME NEW f \in Feeds, NEW how \in {"quiet", "forced"}, CloseRequest(f, how)
      PROVE  ListenerTypeOK' /\ Onward
  BY <1>0, <1>3 DEF CloseRequest, ListenerTypeOK, Onward, listenerVars, worldVars
<1>4. Stop => ListenerTypeOK' /\ Onward
  BY <1>0 DEF Stop, ListenerTypeOK, Onward, listenerVars, worldVars
<1>5. UNCHANGED feed
  BY DEF Publish, ChangeUser, CloseRequest, Stop
<1> QED
  BY <1>1, <1>2, <1>3, <1>4, <1>5, WorldStep

(* Notify, NotifyCheckForTermination and the rest of Stop.                 *)
LEMMA NotifyStep ==
    ASSUME ListenerInd,
           \/ \E K \in SUBSET Keys : Notify(K)
           \/ \E f \in Feeds : NotifyCheckForTermination(f)
           \/ StopBroadcast \/ NotifyStopping
    PROVE  ListenerInd'
<1>0. /\ ListenerTypeOK /\ counter \in Nat
      /\ \A k \in Keys : keyCounts[k] <= counter /\ keyCounts[k] \in Nat
  BY DEF ListenerInd, ListenerTypeOK
<1>1. feed' = Broadcast(feed) /\ UNCHANGED notifierLock
  BY DEF Notify, NotifyCheckForTermination, StopBroadcast, NotifyStopping
<1>2. feed' \in [Feeds -> FeedState]
  <2>1. feed' = [g \in Feeds |-> feed'[g]]
    BY <1>1 DEF Broadcast
  <2>2. \A g \in Feeds : feed'[g] \in FeedState
    BY <1>0, <1>1, BroadcastKept
  <2> QED
    BY <2>1, <2>2
<1>3. \A f \in Feeds : notifierLock' = f <=> feed'[f].pc = "enlist"
  BY <1>0, <1>1, LockKept
<1>4. ASSUME NEW K \in SUBSET Keys, Notify(K) PROVE ListenerTypeOK' /\ Onward
  <2>1. /\ counter' = counter + 1
        /\ UNCHANGED <<terminateCheckCounter, notifierLock, stopping, published, access,
                       userChanges, revoked, closing, seen>>
        /\ \A k \in K : due[k] > 0
    BY <1>4 DEF Notify
  <2>2. /\ keyCounts' = [k \in Keys |-> IF k \in K THEN counter' ELSE keyCounts[k]]
        /\ due' = [k \in Keys |-> IF k \in K THEN due[k] - 1 ELSE due[k]]
    BY <1>4 DEF Notify
  <2>3. keyCounts' \in [Keys -> Nat] /\ due' \in [Keys -> Nat]
    <3>1. \A k \in Keys : due[k] \in Nat
      BY <1>0 DEF ListenerTypeOK
    <3>2. counter' \in Nat /\ \A k \in K : due[k] - 1 \in Nat
      BY <1>0, <2>1, <3>1
    <3> QED
      BY <1>0, <2>2, <3>1, <3>2
  <2>4. ListenerTypeOK'
    BY <1>0, <1>2, <1>3, <2>1, <2>3 DEF ListenerTypeOK
  <2>5. \A k \in Keys : keyCounts[k] <= keyCounts'[k] /\ keyCounts'[k] <= counter'
    <3> SUFFICES ASSUME NEW k \in Keys
                 PROVE  keyCounts[k] <= keyCounts'[k] /\ keyCounts'[k] <= counter'
      OBVIOUS
    <3>1. keyCounts'[k] = counter + 1 \/ keyCounts'[k] = keyCounts[k]
      BY <2>1, <2>2
    <3> QED
      BY <1>0, <2>1, <3>1
  <2> QED
    BY <2>1, <2>4, <2>5 DEF Onward
<1>5. ASSUME NEW f \in Feeds, NotifyCheckForTermination(f) PROVE ListenerTypeOK' /\ Onward
  <2>1. ListenerTypeOK'
    BY <1>0, <1>2, <1>3, <1>5 DEF NotifyCheckForTermination, ListenerTypeOK, worldVars
  <2>2. Onward
    BY <1>0, <1>5 DEF NotifyCheckForTermination, Onward, worldVars, ListenerTypeOK
  <2> QED
    BY <2>1, <2>2
<1>6. ASSUME StopBroadcast PROVE ListenerTypeOK' /\ Onward
  <2>1. ListenerTypeOK'
    BY <1>0, <1>2, <1>3, <1>6 DEF StopBroadcast, ListenerTypeOK, worldVars, listenerVars
  <2>2. Onward
    BY <1>0, <1>6 DEF StopBroadcast, Onward, worldVars, listenerVars
  <2> QED
    BY <2>1, <2>2
<1>7. ASSUME NotifyStopping PROVE ListenerTypeOK' /\ Onward
  <2>1. ListenerTypeOK'
    BY <1>0, <1>2, <1>3, <1>7 DEF NotifyStopping, ListenerTypeOK, worldVars
  <2>2. Onward
    BY <1>0, <1>7 DEF NotifyStopping, Onward, worldVars
  <2> QED
    BY <2>1, <2>2
<1> QED
  BY <1>1, <1>4, <1>5, <1>6, <1>7, WorldStep

----------------------------------------------------------------------------
(* The feeds.                                                              *)

(* A step of feed f keeps the invariant if f's new state is in order.      *)
LEMMA FeedUpdate ==
    ASSUME ListenerInd, NEW f \in Feeds, NEW v \in FeedState,
           feed' = [feed EXCEPT ![f] = v],
           UNCHANGED <<listenerVars, stopping, worldVars, closing>>,
           notifierLock' \in Feeds \cup {NoFeed}, notifierLock' = f <=> v.pc = "enlist",
           \A g \in Feeds : g # f => (notifierLock' = g <=> notifierLock = g),
           seen' \in [Feeds -> [Channels -> 0..MaxChanges]],
           stopping = "no" /\ f \notin revoked =>
               /\ v.channels \subseteq access[f]
               /\ \E k \in v.channels \cup {f} : v.lastCounter <= keyCounts[k]
               /\ ~(v.pc = "returned" /\ v.wake = "closed"),
           v.pc = "ended" => Terminated(f) \/ stopping # "no" \/ f \in revoked
    PROVE  ListenerInd'
<1>1. /\ UNCHANGED <<counter, keyCounts, terminateCheckCounter, stopping, published, access,
                     userChanges, due, revoked, closing>>
      /\ ListenerTypeOK
  BY DEF listenerVars, worldVars, ListenerInd
<1>2. feed'[f] = v /\ \A g \in Feeds : g # f => feed'[g] = feed[g]
  BY <1>1 DEF ListenerTypeOK
<1>3. ListenerTypeOK'
  <2>1. feed' \in [Feeds -> FeedState]
    BY <1>1 DEF ListenerTypeOK
  <2>2. \A g \in Feeds : notifierLock' = g <=> feed'[g].pc = "enlist"
    BY <1>1, <1>2 DEF ListenerTypeOK
  <2> QED
    BY <1>1, <2>1, <2>2 DEF ListenerTypeOK
<1>4. CountsUp(f)' /\ EndedFor(f)'
  BY <1>1, <1>2 DEF CountsUp, EndedFor, Terminated
<1>5. ASSUME NEW g \in Feeds, g # f PROVE CountsUp(g)' /\ EndedFor(g)'
  BY <1>1, <1>2, <1>5 DEF ListenerInd, CountsUp, EndedFor, Terminated
<1>6. \A k \in Keys : keyCounts'[k] <= counter'
  BY <1>1 DEF ListenerInd
<1> QED
  BY <1>3, <1>4, <1>5, <1>6 DEF ListenerInd

(* The steps before the first wait, and reading.                           *)
LEMMA ReadStep ==
    ASSUME ListenerInd, NEW f \in Feeds,
           \/ NewWaiter(f) \/ NewWaiterUserCount(f) \/ ReloadUser(f)
           \/ \E c \in Channels : ReadChannel(f, c)
    PROVE  ListenerInd'
<1>0. /\ feed \in [Feeds -> FeedState] /\ feed[f] \in FeedState
      /\ terminateCheckCounter \in Nat /\ NoFeed \notin Feeds
      /\ notifierLock \in Feeds \cup {NoFeed} /\ (notifierLock = f <=> feed[f].pc = "enlist")
      /\ access[f] \in SUBSET Channels /\ seen \in [Feeds -> [Channels -> 0..MaxChanges]]
      /\ published \in [Channels -> 0..MaxChanges]
      /\ keyCounts[f] \in Nat
  BY ChangeListenerAssumption DEF ListenerInd, ListenerTypeOK, Keys
<1>1. /\ CurrentCount(f, {}) \in Nat /\ CurrentCount(f, {}) = keyCounts[f]
  BY CurrentCountIsHighest
<1>2. UNCHANGED <<listenerVars, notifierLock, stopping, worldVars, closing>>
  BY DEF NewWaiter, NewWaiterUserCount, ReloadUser, ReadChannel
<1>3. /\ CountsUp(f) /\ EndedFor(f)
  BY DEF ListenerInd
<1>4. CASE NewWaiter(f)
  <2>1. PICK v : v = [feed[f] EXCEPT !.pc = "waiter", !.lastCounter = CurrentCount(f, {}),
                                     !.lastTerminate = terminateCheckCounter,
                                     !.deaf = closing[f] = "notified"]
    OBVIOUS
  <2>2. /\ v \in FeedState /\ v.pc = "waiter" /\ v.lastCounter = keyCounts[f]
        /\ v.channels = feed[f].channels
    <3>1. (closing[f] = "notified") \in BOOLEAN
      OBVIOUS
    <3> QED
      BY <1>0, <1>1, <2>1, <3>1 DEF FeedState
  <2>3. feed' = [feed EXCEPT ![f] = v] /\ seen' = seen /\ feed[f].pc = "new"
    BY <1>4, <2>1 DEF NewWaiter
  <2>4. v.lastCounter <= keyCounts[f]
    BY <1>0, <2>2
  <2>5. stopping = "no" /\ f \notin revoked => v.channels \subseteq access[f]
    BY <1>3, <2>2 DEF CountsUp
  <2> QED
    BY <1>0, <1>2, <2>2, <2>3, <2>4, <2>5, FeedUpdate
<1>5. CASE NewWaiterUserCount(f)
  <2>1. PICK v : v = [feed[f] EXCEPT !.pc = "reload", !.userCount = CurrentCount(f, {})]
    OBVIOUS
  <2>2. /\ v \in FeedState /\ v.pc = "reload" /\ v.lastCounter = feed[f].lastCounter
        /\ v.channels = feed[f].channels
    BY <1>0, <1>1, <2>1 DEF FeedState
  <2>3. feed' = [feed EXCEPT ![f] = v] /\ seen' = seen /\ feed[f].pc = "waiter"
    BY <1>5, <2>1 DEF NewWaiterUserCount
  <2>4. stopping = "no" /\ f \notin revoked =>
          /\ v.channels \subseteq access[f]
          /\ \E k \in v.channels \cup {f} : v.lastCounter <= keyCounts[k]
    BY <1>3, <2>2 DEF CountsUp
  <2> QED
    BY <1>0, <1>2, <2>2, <2>3, <2>4, FeedUpdate
<1>6. CASE ReloadUser(f)
  <2>1. PICK v : v = [feed[f] EXCEPT !.pc = "read", !.channels = access[f], !.unread = access[f]]
    OBVIOUS
  <2>2. /\ v \in FeedState /\ v.pc = "read" /\ v.lastCounter = feed[f].lastCounter
        /\ v.channels = access[f]
    BY <1>0, <2>1 DEF FeedState
  <2>3. feed' = [feed EXCEPT ![f] = v] /\ seen' = seen /\ feed[f].pc = "reload"
    BY <1>6, <2>1 DEF ReloadUser
  <2>4. stopping = "no" /\ f \notin revoked =>
          \E k \in v.channels \cup {f} : v.lastCounter <= keyCounts[k]
    BY <1>3, <2>2 DEF CountsUp
  <2> QED
    BY <1>0, <1>2, <2>2, <2>3, <2>4, FeedUpdate
<1>7. ASSUME NEW c \in Channels, ReadChannel(f, c) PROVE ListenerInd'
  <2>1. PICK p \in {"read", "ended"}, u \in SUBSET Channels :
          /\ feed' = [feed EXCEPT ![f] = [feed[f] EXCEPT !.pc = p, !.unread = u]]
          /\ p = "ended" => Terminated(f)
    <3>1. CASE feed' = [feed EXCEPT ![f].unread = @ \ {c}]
      <4>1. feed[f].unread \ {c} \in SUBSET Channels /\ feed[f].pc = "read"
        BY <1>0, <1>7 DEF FeedState, ReadChannel
      <4>2. [feed[f] EXCEPT !.pc = "read", !.unread = feed[f].unread \ {c}]
              = [feed[f] EXCEPT !.unread = @ \ {c}]
        BY <1>0, <4>1 DEF FeedState
      <4>3. feed' = [feed EXCEPT ![f] = [feed[f] EXCEPT !.unread = @ \ {c}]]
        BY <3>1
      <4> QED
        BY <4>1, <4>2, <4>3
    <3>2. CASE Terminated(f) /\ feed' = [feed EXCEPT ![f].pc = "ended"]
      <4>1. feed[f].unread \in SUBSET Channels
        BY <1>0 DEF FeedState
      <4>2. [feed[f] EXCEPT !.pc = "ended", !.unread = feed[f].unread]
              = [feed[f] EXCEPT !.pc = "ended"]
        BY <1>0 DEF FeedState
      <4>3. feed' = [feed EXCEPT ![f] = [feed[f] EXCEPT !.pc = "ended"]]
        BY <3>2
      <4> QED
        BY <3>2, <4>1, <4>2, <4>3
    <3> QED
      BY ZenonT(30), <1>7, <3>1, <3>2 DEF ReadChannel
  <2>2. PICK v : v = [feed[f] EXCEPT !.pc = p, !.unread = u]
    OBVIOUS
  <2>3. /\ v \in FeedState /\ v.pc = p /\ v.lastCounter = feed[f].lastCounter
        /\ v.channels = feed[f].channels
    BY <1>0, <2>2 DEF FeedState
  <2>4. stopping = "no" /\ f \notin revoked =>
          /\ v.channels \subseteq access[f]
          /\ \E k \in v.channels \cup {f} : v.lastCounter <= keyCounts[k]
    BY <1>3, <2>3 DEF CountsUp
  <2>5. seen' \in [Feeds -> [Channels -> 0..MaxChanges]]
    BY <1>0, <1>7 DEF ReadChannel
  <2>6. feed[f].pc = "read"
    BY <1>7 DEF ReadChannel
  <2> QED
    BY <1>0, <1>2, <2>1, <2>2, <2>3, <2>4, <2>5, <2>6, FeedUpdate
<1> QED
  BY <1>4, <1>5, <1>6, <1>7

(* Wait returns "closed" only if the listener was stopped or the user has  *)
(* lost a channel: otherwise the count is not below lastCounter.           *)
LEMMA WaitStep ==
    ASSUME ListenerInd, NEW f \in Feeds, Wait(f)
    PROVE  ListenerInd'
<1>0. /\ feed \in [Feeds -> FeedState] /\ feed[f] \in FeedState
      /\ terminateCheckCounter \in Nat /\ NoFeed \notin Feeds
      /\ notifierLock \in Feeds \cup {NoFeed}
      /\ keyCounts \in [Keys -> Nat] /\ seen \in [Feeds -> [Channels -> 0..MaxChanges]]
      /\ feed[f].channels \in SUBSET Channels /\ feed[f].lastCounter \in Nat
  BY ChangeListenerAssumption DEF ListenerInd, ListenerTypeOK, FeedState
<1>1. /\ notifierLock = NoFeed
      /\ UNCHANGED <<listenerVars, stopping, worldVars, closing, seen>>
      /\ feed[f].pc \in {"woken", "read"}
  BY DEF Wait, LockFree, HasReadAll
<1>2. CountsUp(f) /\ EndedFor(f)
  BY DEF ListenerInd
<1>3. PICK n : n = CurrentCount(f, feed[f].channels)
  OBVIOUS
<1>4. /\ n \in Nat /\ \E k \in feed[f].channels \cup {f} : n = keyCounts[k]
      /\ \A k \in feed[f].channels \cup {f} : keyCounts[k] <= n
  BY <1>0, <1>3, CurrentCountIsHighest
<1>5. \A k \in feed[f].channels \cup {f} : keyCounts[k] \in Nat
  BY <1>0 DEF Keys
<1>6. stopping = "no" /\ f \notin revoked => feed[f].lastCounter <= n
  BY <1>0, <1>2, <1>4, <1>5 DEF CountsUp
<1>7. ASSUME NEW count \in Nat, NEW terminate \in Nat, ReturnFromWait(f, count, terminate),
             UNCHANGED notifierLock,
             \/ stopping # "no"
             \/ /\ count = n
                /\ count # feed[f].lastCounter \/ terminate # feed[f].lastTerminate
      PROVE  ListenerInd'
  <2>1. PICK wake : wake = IF count > feed[f].lastCounter THEN "changes"
                           ELSE IF terminate # feed[f].lastTerminate THEN "check"
                           ELSE "closed"
    OBVIOUS
  <2>2. PICK v : v = [feed[f] EXCEPT !.pc = "returned", !.lastCounter = count,
                                     !.lastTerminate = terminate, !.wake = wake]
    OBVIOUS
  <2>3. /\ v \in FeedState /\ v.pc = "returned" /\ v.lastCounter = count
        /\ v.wake = wake /\ v.channels = feed[f].channels
    BY <1>0, <1>7, <2>1, <2>2 DEF FeedState
  <2>4. feed' = [feed EXCEPT ![f] = v]
    BY <1>7, <2>1, <2>2 DEF ReturnFromWait
  <2>5. ASSUME stopping = "no", f \notin revoked
        PROVE  /\ v.channels \subseteq access[f]
               /\ \E k \in v.channels \cup {f} : v.lastCounter <= keyCounts[k]
               /\ ~(v.pc = "returned" /\ v.wake = "closed")
    <3>1. count = n /\ feed[f].lastCounter <= count
      BY <1>6, <1>7, <2>5
    <3>a. PICK last : last = feed[f].lastCounter
      OBVIOUS
    <3>b. last \in Nat /\ last <= count
      BY <1>0, <3>1, <3>a
    <3>c. count > last \/ terminate # feed[f].lastTerminate
      <4>1. count # last => count > last
        BY <1>7, <3>b
      <4> QED
        BY <1>7, <2>5, <3>a, <4>1
    <3>2. wake # "closed"
      BY <2>1, <3>a, <3>c
    <3>3. v.channels \subseteq access[f]
      BY <1>2, <2>3, <2>5 DEF CountsUp
    <3>4. \E k \in v.channels \cup {f} : v.lastCounter <= keyCounts[k]
      BY <1>4, <1>5, <2>3, <3>1
    <3> QED
      BY <2>3, <3>2, <3>3, <3>4
  <2> QED
    BY <1>0, <1>1, <1>7, <2>3, <2>4, <2>5, FeedUpdate
<1>8. ASSUME feed' = [feed EXCEPT ![f].pc = "enlist"], notifierLock' = f
      PROVE  ListenerInd'
  <2>1. PICK v : v = [feed[f] EXCEPT !.pc = "enlist"]
    OBVIOUS
  <2>2. /\ v \in FeedState /\ v.pc = "enlist" /\ v.lastCounter = feed[f].lastCounter
        /\ v.channels = feed[f].channels
    BY <1>0, <2>1 DEF FeedState
  <2>3. feed' = [feed EXCEPT ![f] = v]
    BY <1>8, <2>1
  <2>4. stopping = "no" /\ f \notin revoked =>
          /\ v.channels \subseteq access[f]
          /\ \E k \in v.channels \cup {f} : v.lastCounter <= keyCounts[k]
    BY <1>2, <2>2 DEF CountsUp
  <2>5. /\ notifierLock' \in Feeds \cup {NoFeed} /\ (notifierLock' = f <=> v.pc = "enlist")
        /\ \A g \in Feeds : g # f => (notifierLock' = g <=> notifierLock = g)
    BY <1>0, <1>1, <1>8, <2>2
  <2>6. seen' \in [Feeds -> [Channels -> 0..MaxChanges]]
    BY <1>0, <1>1
  <2> QED
    BY <1>1, <2>2, <2>3, <2>4, <2>5, <2>6, FeedUpdate
<1>9. CASE feed[f].pc = "woken" /\ stopping # "no"
  <2>1. ReturnFromWait(f, 0, 0) /\ UNCHANGED notifierLock /\ 0 \in Nat
    BY <1>9 DEF Wait
  <2> QED
    BY <1>7, <1>9, <2>1
<1>10. CASE ~(feed[f].pc = "woken" /\ stopping # "no")
  <2>1. CASE n # feed[f].lastCounter \/ terminateCheckCounter # feed[f].lastTerminate
    <3>1. ReturnFromWait(f, n, terminateCheckCounter) /\ UNCHANGED notifierLock
      BY <1>3, <1>10, <2>1 DEF Wait
    <3> QED
      BY <1>0, <1>4, <1>7, <2>1, <3>1
  <2>2. CASE ~(n # feed[f].lastCounter \/ terminateCheckCounter # feed[f].lastTerminate)
    <3>1. feed' = [feed EXCEPT ![f].pc = "enlist"] /\ notifierLock' = f
      BY <1>3, <1>10, <2>2 DEF Wait
    <3> QED
      BY <1>8, <3>1
  <2> QED
    BY <2>1, <2>2
<1> QED
  BY <1>9, <1>10

(* Falling asleep, and going on after a wait.                              *)
LEMMA AfterStep ==
    ASSUME ListenerInd, NEW f \in Feeds, Enlist(f) \/ AfterWait(f)
    PROVE  ListenerInd'
<1>0. /\ feed \in [Feeds -> FeedState] /\ feed[f] \in FeedState
      /\ NoFeed \notin Feeds /\ notifierLock \in Feeds \cup {NoFeed}
      /\ \A g \in Feeds : notifierLock = g <=> feed[g].pc = "enlist"
      /\ seen \in [Feeds -> [Channels -> 0..MaxChanges]]
      /\ feed[f].channels \in SUBSET Channels /\ feed[f].userCount \in Nat
  BY ChangeListenerAssumption DEF ListenerInd, ListenerTypeOK, FeedState
<1>1. CountsUp(f) /\ EndedFor(f)
  BY DEF ListenerInd
<1>2. CASE Enlist(f)
  <2>1. PICK v : v = [feed[f] EXCEPT !.pc = "asleep"]
    OBVIOUS
  <2>2. /\ v \in FeedState /\ v.pc = "asleep" /\ v.lastCounter = feed[f].lastCounter
        /\ v.channels = feed[f].channels
    BY <1>0, <2>1 DEF FeedState
  <2>3. /\ feed' = [feed EXCEPT ![f] = v] /\ notifierLock' = NoFeed /\ notifierLock = f
        /\ UNCHANGED <<listenerVars, stopping, worldVars, closing, seen>>
    BY <1>0, <1>2, <2>1 DEF Enlist
  <2>4. stopping = "no" /\ f \notin revoked =>
          /\ v.channels \subseteq access[f]
          /\ \E k \in v.channels \cup {f} : v.lastCounter <= keyCounts[k]
    BY <1>1, <2>2 DEF CountsUp
  <2> QED
    BY <1>0, <2>2, <2>3, <2>4, FeedUpdate
<1>3. CASE AfterWait(f)
  <2>0. PICK count : count = CurrentCount(f, {})
    OBVIOUS
  <2>1. count \in Nat
    BY <2>0, CurrentCountIsHighest
  <2>2. PICK next : next = IF feed[f].wake = "closed" \/ Terminated(f) THEN "ended"
                           ELSE IF feed[f].wake = "changes" /\ count > feed[f].userCount
                           THEN "reload" ELSE "read"
    OBVIOUS
  <2>3. PICK u : u = IF next = "read" /\ feed[f].wake = "changes"
                     THEN feed[f].channels ELSE {}
    OBVIOUS
  <2>4. PICK n : n = IF next = "reload" THEN count ELSE feed[f].userCount
    OBVIOUS
  <2>5. PICK v : v = [feed[f] EXCEPT !.pc = next, !.wake = "none", !.unread = u, !.userCount = n]
    OBVIOUS
  <2>6. /\ v \in FeedState /\ v.pc = next /\ v.lastCounter = feed[f].lastCounter
        /\ v.channels = feed[f].channels /\ next \in {"ended", "reload", "read"}
    <3>1. next \in {"ended", "reload", "read"} /\ u \in SUBSET Channels /\ n \in Nat
      BY <1>0, <2>1, <2>2, <2>3, <2>4
    <3> QED
      BY <1>0, <2>5, <3>1 DEF FeedState
  <2>7. feed' = [feed EXCEPT ![f] = v]
    <3>1. feed' = [feed EXCEPT ![f] =
               [@ EXCEPT !.pc = next, !.wake = "none",
                         !.unread = IF next = "read" /\ feed[f].wake = "changes"
                                    THEN feed[f].channels ELSE {},
                         !.userCount = IF next = "reload" THEN count
                                       ELSE feed[f].userCount]]
      BY <1>3, <2>0, <2>2 DEF AfterWait
    <3> QED
      BY <2>3, <2>4, <2>5, <3>1
  <2>8. /\ notifierLock' = NoFeed /\ notifierLock = NoFeed /\ feed[f].pc = "returned"
        /\ UNCHANGED <<listenerVars, stopping, worldVars, closing, seen>>
    BY <1>3 DEF AfterWait, LockFree
  <2>9. stopping = "no" /\ f \notin revoked =>
          /\ v.channels \subseteq access[f]
          /\ \E k \in v.channels \cup {f} : v.lastCounter <= keyCounts[k]
          /\ feed[f].wake # "closed"
    BY <1>1, <2>6, <2>8 DEF CountsUp
  <2>10. v.pc = "ended" => Terminated(f) \/ stopping # "no" \/ f \in revoked
    BY <2>2, <2>6, <2>9
  <2> QED
    BY <1>0, <2>6, <2>7, <2>8, <2>9, <2>10, FeedUpdate
<1> QED
  BY <1>2, <1>3

(* ListenerInd is inductive.                                               *)
THEOREM ListenerInductive == ListenerSpec => []ListenerInd
<1>1. ListenerInit => ListenerInd
  <2> SUFFICES ASSUME ListenerInit PROVE ListenerInd
    OBVIOUS
  <2>1. /\ NewFeed \in FeedState /\ NewFeed.pc = "new" /\ NewFeed.channels = {}
        /\ NewFeed.lastCounter = 0
    BY DEF NewFeed, FeedState
  <2>2. \A f \in Feeds : feed[f] = NewFeed /\ keyCounts[f] = 0
    BY DEF ListenerInit, Keys
  <2>3. ListenerTypeOK
    BY <2>1, <2>2, ChangeListenerAssumption DEF ListenerInit, ListenerTypeOK
  <2>4. \A f \in Feeds : CountsUp(f) /\ EndedFor(f)
    BY <2>1, <2>2 DEF CountsUp, EndedFor
  <2>5. \A k \in Keys : keyCounts[k] <= counter
    BY DEF ListenerInit
  <2> QED
    BY <2>3, <2>4, <2>5 DEF ListenerInd
<1>2. ListenerInd /\ [ListenerNext]_feedVars => ListenerInd'
  <2> SUFFICES ASSUME ListenerInd, [ListenerNext]_feedVars PROVE ListenerInd'
    OBVIOUS
  <2>1. CASE UNCHANGED feedVars
    BY <2>1 DEF feedVars, listenerVars, worldVars, ListenerInd, ListenerTypeOK, CountsUp,
                EndedFor, Terminated
  <2>2. ASSUME NEW f \in Feeds, FeedStep(f) PROVE ListenerInd'
    BY <2>2, ReadStep, WaitStep, AfterStep DEF FeedStep
  <2> QED
    BY <2>1, <2>2, RequestStep, NotifyStep DEF ListenerNext
<1> QED
  BY <1>1, <1>2, PTL DEF ListenerSpec

(* A changes feed ends only because its request was closed, the listener   *)
(* was stopped, or its user has lost a channel: it never takes a           *)
(* notification for the end of the listener.                               *)
THEOREM FeedsEndForAReason == ListenerSpec => []EndsForAReason
<1>1. ListenerInd => EndsForAReason
  BY DEF ListenerInd, EndedFor, EndsForAReason
<1> QED
  BY <1>1, ListenerInductive, PTL

-----------------------------------------------------------------------------
ClockValues == Clocks \cup {ZeroClock}
Doc == [cas : Nat, clocks : Seq(ClockValues)]
CacheValue == [key : Hashes, loaded : BOOLEAN, cas : Nat, clocks : Seq(ClockValues)]
HashRequest == [pc : {"none", "load", "update", "write", "reread", "done"},
                op : {"none", "GetHash", "GetClock"}, clock : ClockValues,
                hash : Hashes, index : Nat, value : HashRequests, seen : Nat,
                write : Doc]
Answer == [hash : Hashes, index : Nat \ {0}, clock : ClockValues, agrees : BOOLEAN]

(* Requests that have made their call; their values may be in use.         *)
Created == {v \in HashRequests : hashReq[v].pc # "none"}

HasherTypeOK ==
    /\ stored \in [Hashes -> Doc]
    /\ hashCache \in [Gateways -> Seq(Created)]
    /\ values \in [HashRequests -> CacheValue]
    /\ hashReq \in [HashRequests -> HashRequest]
    /\ issued \subseteq Answer /\ resolved \subseteq Answer
    /\ hashErrors \in Nat

(* s is where t starts.                                                    *)
Starts(s, t) == Len(s) <= Len(t) /\ \A i \in 1..Len(s) : s[i] = t[i]

(* A document that was never written has no clocks.                        *)
DocsOK == \A h \in Hashes : stored[h].cas = 0 => stored[h].clocks = <<>>

(* Cached clocks whose CAS is still that of the document extend the stored *)
(* ones, also where the load failed, as CAS 0 is that of no document.      *)
ValueOK(x) ==
    /\ x.cas <= stored[x.key].cas
    /\ x.cas = stored[x.key].cas => Starts(stored[x.key].clocks, x.clocks)

(* The value a request works on is one of its hash.                        *)
HoldsOK(q) ==
    q.pc \in {"load", "update", "write", "reread"} =>
        q.value \in Created /\ values[q.value].key = q.hash

(* What a request is about to write extends what it replaces, and ends     *)
(* with its clock, at the index it will give out.                          *)
WriteOK(q) ==
    /\ q.pc = "load" /\ q.op = "GetClock" => q.index # 0
    /\ q.pc \in {"write", "reread"} => q.index # 0
    /\ q.pc = "write" =>
          /\ q.index = Len(q.write.clocks) /\ q.write.clocks[q.index] = q.clock
          /\ q.write.cas <= stored[q.hash].cas
          /\ q.write.cas = stored[q.hash].cas =>
                 Starts(stored[q.hash].clocks, q.write.clocks)

StoredAt(a) ==
    /\ a.index \in 1..Len(stored[a.hash].clocks)
    /\ stored[a.hash].clocks[a.index] = a.clock

AnswersOK ==
    /\ \A a \in issued : a.agrees => StoredAt(a)
    /\ \A b \in resolved : b.agrees => b.clock = ZeroClock \/ StoredAt(b)

HasherInd ==
    /\ HasherTypeOK
    /\ DocsOK
    /\ \A v \in HashRequests : ValueOK(values[v])
    /\ \A r \in HashRequests : HoldsOK(hashReq[r]) /\ WriteOK(hashReq[r])
    /\ AnswersOK

----------------------------------------------------------------------------
(* Lemmas about the operators.                                             *)

(* The library's prefix relation, index by index.                          *)
LEMMA PrefixStarts ==
    ASSUME NEW S, NEW s \in Seq(S), NEW t \in Seq(S), IsPrefix(s, t)
    PROVE  Starts(s, t)
<1>1. Len(s) <= Len(t) /\ Len(s) \in Nat /\ Len(t) \in Nat
  BY DEF IsPrefix
<1>2. SubSeq(s, 1, Len(s)) = SubSeq(t, 1, Len(s))
  BY DEF IsPrefix
<1>3. ASSUME NEW i \in 1..Len(s) PROVE s[i] = t[i]
  <2>1. /\ SubSeq(s, 1, Len(s))[i] = s[1 + i - 1]
        /\ SubSeq(t, 1, Len(s))[i] = t[1 + i - 1]
    BY <1>1, SubSeqProperties
  <2> QED
    BY <1>1, <1>2, <2>1
<1> QED
  BY <1>1, <1>3 DEF Starts

(* An index found is that of the clock.                                    *)
LEMMA IndexFound ==
    ASSUME NEW S, NEW clocks \in Seq(S), NEW clock, IndexOf(clocks, clock) > 0
    PROVE  /\ IndexOf(clocks, clock) \in 1..Len(clocks)
           /\ clocks[IndexOf(clocks, clock)] = clock
<1>1. \E i \in DOMAIN clocks : clocks[i] = clock
  BY DEF IndexOf
<1>2. DOMAIN clocks = 1..Len(clocks)
  OBVIOUS
<1> QED
  BY <1>1, <1>2 DEF IndexOf

(* The index that the loop over the clocks of a hash finds is a number, 0  *)
(* when there is none.                                                     *)
LEMMA IndexNat ==
    ASSUME NEW S, NEW clocks \in Seq(S), NEW clock
    PROVE  IndexOf(clocks, clock) \in Nat
<1>1. CASE \E i \in DOMAIN clocks : clocks[i] = clock
  <2>1. IndexOf(clocks, clock) \in DOMAIN clocks
    BY <1>1 DEF IndexOf
  <2> QED
    BY <2>1
<1>2. CASE ~\E i \in DOMAIN clocks : clocks[i] = clock
  BY <1>2 DEF IndexOf
<1> QED
  BY <1>1, <1>2

(* addClock: appending a clock keeps every stored prefix where it was.     *)
LEMMA AppendStarts ==
    ASSUME NEW S, NEW s \in Seq(S), NEW c \in S
    PROVE  /\ Append(s, c) \in Seq(S)
           /\ Len(Append(s, c)) \in Nat \ {0}
           /\ Append(s, c)[Len(Append(s, c))] = c
           /\ \A t \in Seq(S) : Starts(t, s) => Starts(t, Append(s, c))
<1>1. Len(Append(s, c)) = Len(s) + 1 /\ Len(s) \in Nat
  OBVIOUS
<1>2. /\ \A i \in 1..Len(s) : Append(s, c)[i] = s[i]
      /\ Append(s, c)[Len(s) + 1] = c
  OBVIOUS
<1>3. ASSUME NEW t \in Seq(S), Starts(t, s)
      PROVE  Starts(t, Append(s, c))
  <2>1. Len(t) \in Nat /\ Len(t) <= Len(s) /\ \A i \in 1..Len(t) : t[i] = s[i]
    BY <1>3 DEF Starts
  <2>2. \A i \in 1..Len(t) : i \in 1..Len(s)
    BY <1>1, <2>1
  <2> QED
    BY <1>1, <1>2, <2>1, <2>2 DEF Starts
<1>4. Append(s, c) \in Seq(S)
  OBVIOUS
<1> QED
  BY <1>1, <1>2, <1>3, <1>4

(* What load leaves in a value it had not loaded.                          *)
LEMMA LoadedValue ==
    ASSUME HasherTypeOK, DocsOK, NEW x \in CacheValue, NEW fails \in BOOLEAN
    PROVE  /\ LoadClocks(x, fails) \in CacheValue
           /\ LoadClocks(x, fails).key = x.key
           /\ ValueOK(LoadClocks(x, fails))
<1> DEFINE d == IF fails THEN NoDoc ELSE stored[x.key]
           y == [x EXCEPT !.loaded = TRUE, !.cas = d.cas, !.clocks = d.clocks]
<1>1. x.key \in Hashes
  BY DEF CacheValue
<1>2. stored[x.key] \in Doc
  BY <1>1 DEF HasherTypeOK
<1>3. NoDoc \in Doc
  BY DEF NoDoc, Doc
<1>4. d \in Doc /\ d.cas \in Nat /\ d.clocks \in Seq(ClockValues)
  BY <1>2, <1>3 DEF Doc
<1>5. d.cas <= stored[x.key].cas
  <2>1. stored[x.key].cas \in Nat
    BY <1>2 DEF Doc
  <2> QED
    BY <2>1 DEF NoDoc
<1>6. d.cas = stored[x.key].cas => Starts(stored[x.key].clocks, d.clocks)
  <2>1. CASE fails
    <3>1. d = NoDoc
      BY <2>1
    <3>2. d.cas = stored[x.key].cas => stored[x.key].clocks = <<>>
      BY <1>1, <3>1 DEF DocsOK, NoDoc
    <3>3. Starts(<<>>, d.clocks)
      BY <3>1 DEF Starts, NoDoc
    <3> QED
      BY <3>2, <3>3
  <2>2. CASE ~fails
    <3>1. d = stored[x.key] /\ Len(d.clocks) \in Nat
      BY <1>4, <2>2
    <3> QED
      BY <3>1 DEF Starts
  <2> QED
    BY <2>1, <2>2
<1> HIDE DEF d
<1>7. y \in CacheValue /\ y.key = x.key /\ y.cas = d.cas /\ y.clocks = d.clocks
  BY <1>4 DEF CacheValue
<1>8. LoadClocks(x, fails) = y
  BY DEF LoadClocks, d
<1> HIDE DEF y
<1> QED
  BY <1>5, <1>6, <1>7, <1>8 DEF ValueOK

(* The values of the cache and the request's value after getCacheValue.    *)
LEMMA CacheStep ==
    ASSUME HasherTypeOK, NEW r \in HashRequests, NEW g \in Gateways, NEW h \in Hashes,
           GetCacheValue(r, g, h)
    PROVE  /\ hashCache' \in [Gateways -> Seq(Created \cup {r})]
           /\ Head(hashCache'[g]) \in Created \cup {r}
           /\ \/ values' = values /\ values[Head(hashCache'[g])].key = h
                 /\ Head(hashCache'[g]) \in Created
              \/ /\ Head(hashCache'[g]) = r
                 /\ values' = [values EXCEPT ![r] = NewValue(h)]
<1> DEFINE c == hashCache[g]
           C == Created \cup {r}
<1>1. c \in Seq(Created) /\ c \in Seq(C) /\ Len(c) \in Nat
      /\ \A i \in 1..Len(c) : c[i] \in Created
  <2>1. c \in Seq(Created)
    BY DEF HasherTypeOK
  <2>2. Created \subseteq C
    OBVIOUS
  <2>3. c \in Seq(C)
    BY <2>1, <2>2, SeqMonotonic
  <2> QED
    BY <2>1, <2>3, ElementOfSeq
<1>2. \A f \in Seq(C) : hashCache' = [hashCache EXCEPT ![g] = f] =>
          hashCache' \in [Gateways -> Seq(C)] /\ hashCache'[g] = f
  <2>1. hashCache \in [Gateways -> Seq(C)]
    <3>1. \A k \in Gateways : hashCache[k] \in Seq(C)
      BY SeqMonotonic DEF HasherTypeOK
    <3> QED
      BY <3>1 DEF HasherTypeOK
  <2> QED
    BY <2>1
<1>3. \A v \in C, s \in Seq(C) : <<v>> \o s \in Seq(C) /\ Head(<<v>> \o s) = v
  <2> TAKE v \in C, s \in Seq(C)
  <2>1. <<v>> \in Seq(C) /\ Len(<<v>>) = 1
    OBVIOUS
  <2>2. /\ <<v>> \o s \in Seq(C) /\ Len(<<v>> \o s) = 1 + Len(s)
        /\ (<<v>> \o s)[1] = <<v>>[1]
    BY <2>1, ConcatProperties
  <2> QED
    BY <2>2
<1>4. CASE CachedValues(g, h) # {}
  <2> DEFINE i == CHOOSE i \in CachedValues(g, h) : TRUE
             rest == RemoveAt(c, i)
  <2>1. i \in CachedValues(g, h)
    BY SMTT(30), <1>4
  <2>2. i \in 1..Len(c) /\ values[c[i]].key = h
    BY <2>1 DEF CachedValues
  <2>3. /\ hashCache' = [hashCache EXCEPT ![g] = <<c[i]>> \o rest]
        /\ UNCHANGED values
    BY <1>4 DEF GetCacheValue
  <2> HIDE DEF i
  <2>4. rest \in Seq(C)
    <3>1. SubSeq(c, 1, i - 1) \in Seq(C)
      <4>1. \A j \in 1..(i - 1) : c[j] \in C
        BY <1>1, <2>2
      <4> QED
        BY <2>2, <4>1, SubSeqProperties
    <3>2. SubSeq(c, i + 1, Len(c)) \in Seq(C)
      <4>1. \A j \in (i + 1)..Len(c) : c[j] \in C
        BY <1>1, <2>2
      <4> QED
        BY <1>1, <2>2, <4>1, SubSeqProperties
    <3> QED
      BY <3>1, <3>2, ConcatProperties DEF RemoveAt
  <2>5. c[i] \in Created
    BY <1>1, <2>2
  <2> HIDE DEF rest
  <2>6. hashCache' \in [Gateways -> Seq(C)] /\ hashCache'[g] = <<c[i]>> \o rest
    BY <1>2, <1>3, <2>3, <2>4, <2>5
  <2>7. Head(hashCache'[g]) = c[i]
    BY <1>3, <2>4, <2>5, <2>6
  <2> QED
    BY <2>2, <2>3, <2>5, <2>6, <2>7
<1>5. CASE CachedValues(g, h) = {}
  <2> DEFINE m == Min({Len(c), CacheCapacity - 1})
             rest == SubSeq(c, 1, m)
  <2>1. /\ hashCache' = [hashCache EXCEPT ![g] = <<r>> \o rest]
        /\ values' = [values EXCEPT ![r] = NewValue(h)]
    BY <1>5 DEF GetCacheValue
  <2>2. m \in Int /\ m <= Len(c)
    <3> DEFINE S == {Len(c), CacheCapacity - 1}
    <3>1. Len(c) \in Int /\ CacheCapacity - 1 \in Int
      BY <1>1, HasherAssumption
    <3>2. \E x \in S : \A y \in S : x <= y
      BY <3>1
    <3>3. m \in S /\ \A y \in S : m <= y
      BY <3>2 DEF Min
    <3> QED
      BY <3>1, <3>3
  <2> HIDE DEF m
  <2>3. rest \in Seq(C)
    <3>1. \A j \in 1..m : c[j] \in C
      BY <1>1, <2>2
    <3> QED
      BY <2>2, <3>1, SubSeqProperties
  <2> HIDE DEF rest
  <2>4. hashCache' \in [Gateways -> Seq(C)] /\ hashCache'[g] = <<r>> \o rest
    BY <1>2, <1>3, <2>1, <2>3
  <2>5. Head(hashCache'[g]) = r
    BY <1>3, <2>3, <2>4
  <2> QED
    BY <2>1, <2>4, <2>5
<1> QED
  BY <1>4, <1>5

----------------------------------------------------------------------------
(* A step of a request that leaves the documents alone: it replaces its    *)
(* own state by q and one value, v, by x.                                  *)
LEMMA HashRequestStep ==
    ASSUME HasherInd,
           NEW r \in HashRequests, NEW q \in HashRequest, q.pc # "none",
           NEW v \in HashRequests, NEW x \in CacheValue,
           hashReq' = [hashReq EXCEPT ![r] = q],
           values' = [values EXCEPT ![v] = x],
           x.key = values[v].key \/ (v = r /\ hashReq[r].pc = "none"),
           ValueOK(x), WriteOK(q),
           q.pc \in {"load", "update", "write", "reread"} =>
               q.value \in Created \cup {r} /\ values'[q.value].key = q.hash,
           UNCHANGED stored, hashErrors' \in Nat,
           hashCache' \in [Gateways -> Seq(Created \cup {r})],
           issued \subseteq issued', resolved \subseteq resolved',
           \A a \in issued' \ issued : a \in Answer /\ (a.agrees => StoredAt(a)),
           \A b \in resolved' \ resolved :
               b \in Answer /\ (b.agrees => b.clock = ZeroClock \/ StoredAt(b))
    PROVE  HasherInd'
<1>1. /\ hashReq \in [HashRequests -> HashRequest]
      /\ values \in [HashRequests -> CacheValue]
  BY DEF HasherInd, HasherTypeOK
<1>2. /\ hashReq'[r] = q /\ values'[v] = x
      /\ \A k \in HashRequests : k # r => hashReq'[k] = hashReq[k]
      /\ \A k \in HashRequests : k # v => values'[k] = values[k]
  BY <1>1
<1>3. Created' = Created \cup {r}
  BY <1>2 DEF Created
<1>4. HasherTypeOK'
  <2>1. hashReq' \in [HashRequests -> HashRequest] /\ values' \in [HashRequests -> CacheValue]
    BY <1>1
  <2>2. issued' \subseteq Answer /\ resolved' \subseteq Answer
    BY DEF HasherInd, HasherTypeOK
  <2> QED
    BY <1>3, <2>1, <2>2 DEF HasherInd, HasherTypeOK
<1>5. DocsOK'
  BY DEF HasherInd, DocsOK
<1>6. ASSUME NEW k \in HashRequests PROVE ValueOK(values[k])'
  BY <1>2 DEF HasherInd, ValueOK
<1>7. ASSUME NEW k \in HashRequests PROVE HoldsOK(hashReq[k])'
  <2>1. CASE k = r
    BY <1>2, <1>3, <2>1 DEF HoldsOK
  <2>2. CASE k # r
    <3>1. hashReq'[k] = hashReq[k] /\ HoldsOK(hashReq[k]) /\ hashReq[k] \in HashRequest
      BY <1>1, <1>2, <2>2 DEF HasherInd
    <3>2. hashReq[k].value \in HashRequests
      BY <3>1 DEF HashRequest
    <3>3. hashReq[k].value \in Created =>
              values'[hashReq[k].value].key = values[hashReq[k].value].key
      BY <1>2, <3>2 DEF Created
    <3> QED
      BY <1>3, <3>1, <3>3 DEF HoldsOK
  <2> QED
    BY <2>1, <2>2
<1>8. ASSUME NEW k \in HashRequests PROVE WriteOK(hashReq[k])'
  <2>1. CASE k = r
    BY <1>2, <2>1 DEF WriteOK
  <2>2. CASE k # r
    <3>1. hashReq'[k] = hashReq[k] /\ WriteOK(hashReq[k])
      BY <1>2, <2>2 DEF HasherInd
    <3> QED
      BY <3>1 DEF WriteOK
  <2> QED
    BY <2>1, <2>2
<1>9. AnswersOK'
  BY DEF HasherInd, AnswersOK, StoredAt
<1> QED
  BY <1>4, <1>5, <1>6, <1>7, <1>8, <1>9 DEF HasherInd

(* The request r returns with a hash of its clock at the given index,      *)
(* where a hash that agrees is of a stored clock.                          *)
LEMMA GiveStep ==
    ASSUME HasherInd, NEW r \in HashRequests, hashReq[r].pc # "none",
           NEW index \in Nat \ {0}, NEW agrees \in BOOLEAN, GiveHash(r, index, agrees),
           agrees => /\ index \in 1..Len(stored[hashReq[r].hash].clocks)
                     /\ stored[hashReq[r].hash].clocks[index] = hashReq[r].clock,
           NEW v \in HashRequests, NEW x \in CacheValue,
           values' = [values EXCEPT ![v] = x], x.key = values[v].key, ValueOK(x),
           UNCHANGED <<stored, hashCache, resolved>>, hashErrors' \in Nat
    PROVE  HasherInd'
<1> DEFINE q == [NewRequest(r) EXCEPT !.pc = "done"]
           a == HashAnswer(hashReq[r].hash, index, hashReq[r].clock, agrees)
<1>1. hashReq' = [hashReq EXCEPT ![r] = q] /\ issued' = issued \cup {a}
  BY DEF GiveHash, HashReturn
<1>2. q \in HashRequest /\ q.pc = "done"
  <2>1. 0 \in Hashes
    BY HasherAssumption DEF Hashes
  <2>2. NewRequest(r) \in HashRequest
    BY <2>1 DEF NewRequest, HashRequest, NoDoc, Doc, ClockValues
  <2> QED
    BY <2>2 DEF HashRequest
<1>3. hashReq[r] \in HashRequest
  BY DEF HasherInd, HasherTypeOK
<1>4. a \in Answer /\ (a.agrees => StoredAt(a))
  <2>1. hashReq[r].hash \in Hashes /\ hashReq[r].clock \in ClockValues
    BY <1>3 DEF HashRequest
  <2> QED
    BY <2>1 DEF Answer, HashAnswer, StoredAt
<1> HIDE DEF q, a
<1>5. WriteOK(q)
  BY <1>2 DEF WriteOK
<1>6. hashCache' \in [Gateways -> Seq(Created \cup {r})]
  <2>1. r \in Created
    BY DEF Created
  <2>2. Created \cup {r} = Created
    BY <2>1
  <2> QED
    BY <2>2 DEF HasherInd, HasherTypeOK
<1> QED
  BY <1>1, <1>2, <1>4, <1>5, <1>6, HashRequestStep

(* Some facts about a request in progress.                                 *)
LEMMA RequestFacts ==
    ASSUME HasherInd, NEW r \in HashRequests,
           hashReq[r].pc \in {"load", "update", "write", "reread"}
    PROVE  LET q == hashReq[r]
           IN  /\ q \in HashRequest /\ q.hash \in Hashes /\ q.clock \in ClockValues
               /\ q.index \in Nat /\ q.value \in Created /\ q.value \in HashRequests
               /\ values[q.value] \in CacheValue /\ values[q.value].key = q.hash
               /\ ValueOK(values[q.value]) /\ WriteOK(q)
               /\ stored[q.hash] \in Doc
               /\ Created \cup {r} = Created
               /\ hashCache \in [Gateways -> Seq(Created \cup {r})]
               /\ values = [values EXCEPT ![q.value] = values[q.value]]
<1> DEFINE q == hashReq[r]
<1>1. q \in HashRequest
  BY DEF HasherInd, HasherTypeOK
<1>2. /\ q.hash \in Hashes /\ q.clock \in ClockValues /\ q.index \in Nat
      /\ q.value \in HashRequests
  BY <1>1 DEF HashRequest
<1>3. q.value \in Created /\ values[q.value].key = q.hash /\ WriteOK(q)
  BY DEF HasherInd, HoldsOK
<1>4. values[q.value] \in CacheValue /\ ValueOK(values[q.value]) /\ stored[q.hash] \in Doc
  BY <1>2 DEF HasherInd, HasherTypeOK
<1>5. Created \cup {r} = Created
  BY DEF Created
<1>6. values = [values EXCEPT ![q.value] = values[q.value]]
  BY <1>2 DEF HasherInd, HasherTypeOK
<1> QED
  BY <1>1, <1>2, <1>3, <1>4, <1>5, <1>6 DEF HasherInd, HasherTypeOK

(* Cached clocks that agree have a clock at the index of the stored one.   *)
LEMMA AgreeingIndex ==
    ASSUME HasherTypeOK, NEW x \in CacheValue, Agrees(x), NEW i \in 1..Len(x.clocks)
    PROVE  /\ i \in 1..Len(stored[x.key].clocks)
           /\ stored[x.key].clocks[i] = x.clocks[i]
<1>1. x.key \in Hashes /\ x.clocks \in Seq(ClockValues)
  BY DEF CacheValue
<1>2. stored[x.key].clocks \in Seq(ClockValues)
  BY <1>1 DEF HasherTypeOK, Doc
<1>3. Starts(x.clocks, stored[x.key].clocks)
  BY <1>1, <1>2, PrefixStarts DEF Agrees
<1>4. Len(x.clocks) \in Nat /\ Len(stored[x.key].clocks) \in Nat
  BY <1>1, <1>2
<1> QED
  BY <1>3, <1>4 DEF Starts

(* GetHash and GetClock look up or make the cache value of their hash.     *)
LEMMA BeginStep ==
    ASSUME HasherInd, NEW r \in HashRequests, NEW g \in Gateways,
           NEW op \in {"GetHash", "GetClock"}, NEW clock \in ClockValues,
           NEW h \in Hashes, NEW i \in Nat, op = "GetClock" => i # 0,
           BeginHash(r, g, op, clock, h, i)
    PROVE  HasherInd'
<1> DEFINE v == Head(hashCache'[g])
           q == [hashReq[r] EXCEPT !.pc = "load", !.op = op, !.clock = clock, !.hash = h,
                                   !.index = i, !.value = v]
<1>1. /\ hashReq[r].pc = "none" /\ GetCacheValue(r, g, h)
      /\ hashReq' = [hashReq EXCEPT ![r] = q]
      /\ UNCHANGED <<stored, issued, resolved, hashErrors>>
  BY DEF BeginHash
<1>2. HasherTypeOK /\ hashReq[r] \in HashRequest
  BY DEF HasherInd, HasherTypeOK
<1>3. /\ hashCache' \in [Gateways -> Seq(Created \cup {r})]
      /\ v \in Created \cup {r}
      /\ \/ values' = values /\ values[v].key = h /\ v \in Created
         \/ /\ v = r
            /\ values' = [values EXCEPT ![r] = NewValue(h)]
  BY <1>1, <1>2, CacheStep
<1>4. v \in HashRequests
  BY <1>3 DEF Created
<1> HIDE DEF v
<1>5. /\ q \in HashRequest /\ q.pc = "load" /\ q.op = op /\ q.index = i
      /\ q.value = v /\ q.hash = h
  BY <1>2, <1>4 DEF HashRequest
<1> HIDE DEF q
<1>6. WriteOK(q)
  BY <1>5 DEF WriteOK
<1>7. hashErrors' \in Nat
  BY <1>1, <1>2 DEF HasherTypeOK
<1>8. CASE values' = values /\ values[v].key = h /\ v \in Created
  <2>1. /\ values[v] \in CacheValue /\ ValueOK(values[v])
        /\ values' = [values EXCEPT ![v] = values[v]]
    BY <1>2, <1>4, <1>8 DEF HasherInd, HasherTypeOK
  <2>2. values'[q.value].key = q.hash
    BY <1>5, <1>8
  <2> QED
    BY <1>1, <1>3, <1>4, <1>5, <1>6, <1>7, <2>1, <2>2, HashRequestStep
<1>9. CASE v = r /\ values' = [values EXCEPT ![r] = NewValue(h)]
  <2> DEFINE x == NewValue(h)
  <2>1. x \in CacheValue /\ x.key = h /\ x.cas = 0 /\ x.clocks = <<>>
    BY DEF NewValue, CacheValue
  <2> HIDE DEF x
  <2>2. values' = [values EXCEPT ![r] = x] /\ values'[r] = x
    BY <1>2, <1>9 DEF x, HasherTypeOK
  <2>3. ValueOK(x)
    <3>1. stored[h].cas \in Nat
      BY <1>2 DEF HasherTypeOK, Doc
    <3>2. stored[h].cas = 0 => Starts(stored[h].clocks, <<>>)
      BY DEF HasherInd, DocsOK, Starts
    <3> QED
      BY <2>1, <3>1, <3>2 DEF ValueOK
  <2>4. values'[q.value].key = q.hash
    BY <1>5, <1>9, <2>1, <2>2
  <2> QED
    BY ZenonT(30), <1>1, <1>3, <1>5, <1>6, <1>7, <1>9, <2>1, <2>2, <2>3, <2>4, HashRequestStep
<1> QED
  BY <1>3, <1>8, <1>9

(* hashCacheValue.load: the clocks of the hash are read from the bucket,   *)
(* or the read fails.                                                      *)
LEMMA LoadHashStep ==
    ASSUME HasherInd, NEW r \in HashRequests, NEW fails \in BOOLEAN, LoadHash(r, fails)
    PROVE  HasherInd'
<1> DEFINE q == hashReq[r]
           x == IF values[q.value].loaded THEN values[q.value]
                ELSE LoadClocks(values[q.value], fails)
           i == IndexOf(x.clocks, q.clock)
<1>1. /\ q.pc = "load" /\ values' = [values EXCEPT ![q.value] = x] /\ Fails(fails)
      /\ UNCHANGED <<stored, hashCache, resolved>>
      /\ IF i > 0 THEN GiveHash(r, i, Agrees(x))
         ELSE /\ hashReq' = [hashReq EXCEPT ![r].pc = "update", ![r].seen = Len(x.clocks)]
              /\ UNCHANGED issued
  BY DEF LoadHash
<1>2. /\ q \in HashRequest /\ q.hash \in Hashes /\ q.clock \in ClockValues
      /\ q.index \in Nat /\ q.value \in Created /\ q.value \in HashRequests
      /\ values[q.value] \in CacheValue /\ values[q.value].key = q.hash
      /\ ValueOK(values[q.value])
      /\ hashCache \in [Gateways -> Seq(Created \cup {r})]
  BY <1>1, RequestFacts
<1>3. HasherTypeOK /\ DocsOK /\ hashErrors \in Nat
  BY DEF HasherInd, HasherTypeOK
<1>4. x \in CacheValue /\ x.key = q.hash /\ ValueOK(x)
  BY <1>2, <1>3, LoadedValue
<1> HIDE DEF x
<1>5. x.clocks \in Seq(ClockValues) /\ Len(x.clocks) \in Nat
  BY <1>4 DEF CacheValue
<1>6. hashErrors' \in Nat
  BY <1>1, <1>3 DEF Fails
<1>7. CASE i > 0
  <2>1. i \in 1..Len(x.clocks) /\ x.clocks[i] = q.clock
    BY <1>5, <1>7, IndexFound
  <2>2. i \in Nat \ {0} /\ GiveHash(r, i, Agrees(x))
    BY <1>1, <1>7, <2>1
  <2> HIDE DEF i
  <2>3. Agrees(x) => /\ i \in 1..Len(stored[q.hash].clocks)
                     /\ stored[q.hash].clocks[i] = q.clock
    BY <1>3, <1>4, <2>1, AgreeingIndex
  <2>4. Agrees(x) \in BOOLEAN
    BY DEF Agrees, IsPrefix
  <2> HIDE DEF q
  <2> QED
    BY <1>1, <1>2, <1>4, <1>6, <2>2, <2>3, <2>4, GiveStep DEF q
<1>8. CASE ~(i > 0)
  <2> DEFINE p == [q EXCEPT !.pc = "update", !.seen = Len(x.clocks)]
  <2>1. hashReq' = [hashReq EXCEPT ![r] = p] /\ UNCHANGED issued
    BY <1>1, <1>8
  <2>2. /\ p \in HashRequest /\ p.pc = "update" /\ p.value = q.value /\ p.hash = q.hash
    BY <1>2, <1>5 DEF HashRequest
  <2> HIDE DEF p
  <2>3. WriteOK(p)
    BY <2>2 DEF WriteOK
  <2>4. values'[p.value].key = p.hash
    BY <1>1, <1>2, <1>3, <1>4, <2>2 DEF HasherTypeOK
  <2> HIDE DEF q, i
  <2> QED
    BY <1>1, <1>2, <1>4, <1>6, <2>1, <2>2, <2>3, <2>4, HashRequestStep
<1> QED
  BY <1>7, <1>8

(* GetHash finds its clock in the cache value, or appends it and goes on   *)
(* to write.                                                               *)
LEMMA UpdateHashStep ==
    ASSUME HasherInd, NEW r \in HashRequests, UpdateHash(r)
    PROVE  HasherInd'
<1> DEFINE q == hashReq[r]
           x == values[q.value]
           i == IF Len(x.clocks) > q.seen THEN IndexOf(x.clocks, q.clock) ELSE 0
           clocks == Append(x.clocks, q.clock)
<1>1. /\ q.pc = "update" /\ UNCHANGED <<stored, hashCache, resolved, hashErrors>>
      /\ IF i > 0 THEN GiveHash(r, i, Agrees(x)) /\ UNCHANGED values
         ELSE /\ values' = [values EXCEPT ![q.value].clocks = clocks]
              /\ hashReq' = [hashReq EXCEPT ![r].pc = "write",
                                ![r].index = LastIndex(clocks),
                                ![r].write = [cas |-> x.cas, clocks |-> clocks]]
              /\ UNCHANGED issued
  BY ZenonT(30) DEF UpdateHash
<1>2. /\ q \in HashRequest /\ q.hash \in Hashes /\ q.clock \in ClockValues
      /\ q.index \in Nat /\ q.value \in Created /\ q.value \in HashRequests
      /\ x \in CacheValue /\ x.key = q.hash /\ ValueOK(x)
      /\ stored[q.hash] \in Doc
      /\ hashCache \in [Gateways -> Seq(Created \cup {r})]
      /\ values = [values EXCEPT ![q.value] = x]
  BY <1>1, RequestFacts
<1>3. HasherTypeOK /\ hashErrors' \in Nat
  BY <1>1 DEF HasherInd, HasherTypeOK
<1>4. x.clocks \in Seq(ClockValues) /\ x.cas \in Nat
  BY <1>2 DEF CacheValue
<1>5. CASE i > 0
  <2>1. i \in 1..Len(x.clocks) /\ x.clocks[i] = q.clock
    <3>1. i = IndexOf(x.clocks, q.clock)
      BY SMTT(30), <1>5
    <3> QED
      BY <1>4, <1>5, <3>1, IndexFound
  <2>2. i \in Nat \ {0} /\ GiveHash(r, i, Agrees(x)) /\ UNCHANGED values
    <3>1. GiveHash(r, i, Agrees(x)) /\ UNCHANGED values
      <4> HIDE DEF i
      <4> QED
        BY <1>1, <1>5, Zenon
    <3>2. i \in Nat \ {0}
      <4> HIDE DEF i
      <4> QED
        BY <1>4, <2>1
    <3> QED
      BY <3>1, <3>2, Zenon
  <2> HIDE DEF i
  <2>3. Agrees(x) => /\ i \in 1..Len(stored[q.hash].clocks)
                     /\ stored[q.hash].clocks[i] = q.clock
    BY ZenonT(30), <1>2, <1>3, <2>1, AgreeingIndex
  <2>4. Agrees(x) \in BOOLEAN
    BY DEF Agrees, IsPrefix
  <2>5. values' = [values EXCEPT ![q.value] = x]
    BY <1>2, <2>2
  <2>6. x.key = values[q.value].key /\ hashReq[r].pc # "none"
    BY <1>1
  <2>7. UNCHANGED <<stored, hashCache, resolved>>
    BY <1>1
  <2>8. q.value \in HashRequests /\ x \in CacheValue /\ ValueOK(x)
    BY <1>2
  <2> HIDE DEF x
  <2> QED
    BY <1>3, <2>2, <2>3, <2>4, <2>5, <2>6, <2>7, <2>8, GiveStep
<1>6. CASE ~(i > 0)
  <2> DEFINE y == [x EXCEPT !.clocks = clocks]
             w == [cas |-> x.cas, clocks |-> clocks]
             p == [q EXCEPT !.pc = "write", !.index = LastIndex(clocks), !.write = w]
  <2>1. /\ values' = [values EXCEPT ![q.value] = y] /\ UNCHANGED issued
        /\ hashReq' = [hashReq EXCEPT ![r] = p]
    BY <1>1, <1>6
  <2>2. /\ clocks \in Seq(ClockValues) /\ Len(clocks) \in Nat \ {0}
        /\ clocks[Len(clocks)] = q.clock
        /\ \A t \in Seq(ClockValues) : Starts(t, x.clocks) => Starts(t, clocks)
    <3>1. \A s \in Seq(ClockValues), c \in ClockValues :
              /\ Append(s, c) \in Seq(ClockValues)
              /\ Len(Append(s, c)) \in Nat \ {0}
              /\ Append(s, c)[Len(Append(s, c))] = c
              /\ \A t \in Seq(ClockValues) : Starts(t, s) => Starts(t, Append(s, c))
      BY AppendStarts
    <3> QED
      BY <1>2, <1>4, <3>1, Zenon
  <2>3. LastIndex(clocks) = Len(clocks)
    BY DEF LastIndex
  <2> HIDE DEF clocks, i
  <2>4. y \in CacheValue /\ y.key = x.key /\ y.cas = x.cas /\ y.clocks = clocks
    BY <1>2, <2>2 DEF CacheValue
  <2>5. w \in Doc /\ w.cas = x.cas /\ w.clocks = clocks
    BY <1>4, <2>2 DEF Doc
  <2> HIDE DEF y, w
  <2>6. /\ p \in HashRequest /\ p.pc = "write" /\ p.value = q.value /\ p.hash = q.hash
        /\ p.index = Len(clocks) /\ p.write = w /\ p.clock = q.clock
    BY <1>2, <2>2, <2>3, <2>5 DEF HashRequest
  <2> HIDE DEF p
  <2>7. stored[q.hash].clocks \in Seq(ClockValues)
    BY <1>2 DEF Doc
  <2>8. ValueOK(y)
    BY <1>2, <2>2, <2>4, <2>7 DEF ValueOK
  <2>9. WriteOK(p)
    BY <1>2, <2>2, <2>5, <2>6, <2>7 DEF WriteOK, ValueOK
  <2>10. values'[p.value].key = p.hash
    BY <1>2, <1>3, <2>1, <2>4, <2>6 DEF HasherTypeOK
  <2> HIDE DEF q, x
  <2> QED
    BY <1>1, <1>2, <1>3, <2>1, <2>4, <2>6, <2>8, <2>9, <2>10, HashRequestStep DEF x
<1> QED
  BY SMTT(30), <1>5, <1>6

(* The read of the CAS loop after another gateway has written the          *)
(* document.                                                               *)
LEMMA RereadHashStep ==
    ASSUME HasherInd, NEW r \in HashRequests, RereadHash(r)
    PROVE  HasherInd'
<1> DEFINE q == hashReq[r]
           doc == stored[q.hash]
           i == IndexOf(doc.clocks, q.clock)
           clocks == Append(doc.clocks, q.clock)
<1>1. /\ q.pc = "reread" /\ UNCHANGED <<stored, hashCache, values, resolved, hashErrors>>
      /\ IF i > 0 THEN GiveHash(r, i, TRUE)
         ELSE /\ hashReq' = [hashReq EXCEPT ![r].pc = "write",
                                ![r].index = LastIndex(clocks),
                                ![r].write = [cas |-> doc.cas, clocks |-> clocks]]
              /\ UNCHANGED issued
  BY DEF RereadHash
<1>2. /\ q \in HashRequest /\ q.hash \in Hashes /\ q.clock \in ClockValues
      /\ q.value \in Created /\ q.value \in HashRequests
      /\ values[q.value] \in CacheValue /\ values[q.value].key = q.hash
      /\ ValueOK(values[q.value]) /\ doc \in Doc
      /\ hashCache \in [Gateways -> Seq(Created \cup {r})]
      /\ values = [values EXCEPT ![q.value] = values[q.value]]
  BY <1>1, RequestFacts
<1>3. hashErrors' \in Nat
  BY <1>1 DEF HasherInd, HasherTypeOK
<1>4. doc.clocks \in Seq(ClockValues) /\ doc.cas \in Nat
  BY SMTT(30), <1>2 DEF Doc
<1>5. CASE i > 0
  <2>1. i \in 1..Len(doc.clocks) /\ doc.clocks[i] = q.clock
    BY <1>4, <1>5, IndexFound
  <2>2. GiveHash(r, i, TRUE)
    BY <1>1, <1>5
  <2>2a. i \in Nat \ {0}
    BY <1>4, <1>5, <2>1
  <2> HIDE DEF i
  <2>3. values' = [values EXCEPT ![q.value] = values[q.value]]
    BY <1>1, <1>2
  <2> QED
    BY ZenonT(30), <1>1, <1>2, <1>3, <2>1, <2>2, <2>2a, <2>3, GiveStep
<1>6. CASE ~(i > 0)
  <2> DEFINE w == [cas |-> doc.cas, clocks |-> clocks]
             p == [q EXCEPT !.pc = "write", !.index = LastIndex(clocks), !.write = w]
  <2>1. hashReq' = [hashReq EXCEPT ![r] = p] /\ UNCHANGED issued
    BY <1>1, <1>6
  <2>2. /\ clocks \in Seq(ClockValues) /\ Len(clocks) \in Nat \ {0}
        /\ clocks[Len(clocks)] = q.clock
        /\ \A t \in Seq(ClockValues) : Starts(t, doc.clocks) => Starts(t, clocks)
    <3>1. \A s \in Seq(ClockValues), c \in ClockValues :
              /\ Append(s, c) \in Seq(ClockValues)
              /\ Len(Append(s, c)) \in Nat \ {0}
              /\ Append(s, c)[Len(Append(s, c))] = c
              /\ \A t \in Seq(ClockValues) : Starts(t, s) => Starts(t, Append(s, c))
      BY AppendStarts
    <3> QED
      BY <1>2, <1>4, <3>1, Zenon
  <2>3. LastIndex(clocks) = Len(clocks)
    BY DEF LastIndex
  <2> HIDE DEF clocks, i
  <2>4. w \in Doc /\ w.cas = doc.cas /\ w.clocks = clocks
    BY <1>4, <2>2 DEF Doc
  <2> HIDE DEF w
  <2>5. /\ p \in HashRequest /\ p.pc = "write" /\ p.value = q.value /\ p.hash = q.hash
        /\ p.index = Len(clocks) /\ p.write = w /\ p.clock = q.clock
    BY <1>2, <2>2, <2>3, <2>4 DEF HashRequest
  <2> HIDE DEF p
  <2>6. WriteOK(p)
    <3>1. Starts(doc.clocks, doc.clocks) /\ doc.cas <= doc.cas
      BY <1>4 DEF Starts
    <3>2. Starts(doc.clocks, clocks)
      BY <1>4, <2>2, <3>1
    <3> QED
      BY <2>2, <2>4, <2>5, <3>1, <3>2 DEF WriteOK
  <2>7. values' = [values EXCEPT ![q.value] = values[q.value]]
        /\ values'[p.value].key = p.hash
    BY <1>1, <1>2, <2>5
  <2> HIDE DEF q
  <2> QED
    BY <1>1, <1>2, <1>3, <2>1, <2>5, <2>6, <2>7, HashRequestStep
<1> QED
  BY <1>5, <1>6

(* WriteCasRaw fails, and its error is dropped.                            *)
LEMMA HashWriteFailsStep ==
    ASSUME HasherInd, NEW r \in HashRequests, HashWriteFails(r)
    PROVE  HasherInd'
<1> DEFINE q == hashReq[r]
<1>1. /\ q.pc \in {"write", "reread"} /\ Fails(TRUE) /\ GiveHash(r, q.index, FALSE)
      /\ UNCHANGED <<stored, hashCache, values, resolved>>
  BY DEF HashWriteFails
<1>2. /\ q \in HashRequest /\ q.index \in Nat /\ WriteOK(q)
      /\ q.value \in HashRequests /\ values[q.value] \in CacheValue
      /\ ValueOK(values[q.value])
      /\ values = [values EXCEPT ![q.value] = values[q.value]]
  BY <1>1, RequestFacts
<1>3. hashErrors' \in Nat
  BY <1>1 DEF HasherInd, HasherTypeOK, Fails
<1>4. q.index \in Nat \ {0}
  BY <1>1, <1>2 DEF WriteOK
<1>5. values' = [values EXCEPT ![q.value] = values[q.value]]
  BY <1>1, <1>2
<1> QED
  BY <1>1, <1>2, <1>3, <1>4, <1>5, GiveStep

(* GetClock reloads the clocks when the cached ones do not reach its       *)
(* index.                                                                  *)
LEMMA LoadForIndexStep ==
    ASSUME HasherInd, NEW r \in HashRequests, NEW fails \in BOOLEAN, LoadForIndex(r, fails)
    PROVE  HasherInd'
<1> DEFINE q == hashReq[r]
           known == values[q.value].loaded /\ q.index <= Len(values[q.value].clocks)
           x == IF known THEN values[q.value] ELSE LoadClocks(values[q.value], fails)
           clock == IF q.index <= Len(x.clocks) THEN x.clocks[q.index] ELSE ZeroClock
           b == HashAnswer(q.hash, q.index, clock, Agrees(x))
           p == [NewRequest(r) EXCEPT !.pc = "done"]
<1>1. /\ q.pc = "load" /\ q.op = "GetClock" /\ Fails(fails)
      /\ values' = [values EXCEPT ![q.value] = x]
      /\ resolved' = resolved \cup {b}
      /\ hashReq' = [hashReq EXCEPT ![r] = p]
      /\ UNCHANGED <<stored, hashCache, issued>>
  BY DEF LoadForIndex, HashReturn
<1>2. /\ q \in HashRequest /\ q.hash \in Hashes /\ q.index \in Nat
      /\ q.value \in Created /\ q.value \in HashRequests
      /\ values[q.value] \in CacheValue /\ values[q.value].key = q.hash
      /\ ValueOK(values[q.value]) /\ WriteOK(q)
      /\ hashCache \in [Gateways -> Seq(Created \cup {r})]
  BY <1>1, RequestFacts
<1>3. HasherTypeOK /\ DocsOK /\ hashErrors \in Nat
  BY DEF HasherInd, HasherTypeOK
<1>4. x \in CacheValue /\ x.key = q.hash /\ ValueOK(x)
  BY <1>2, <1>3, LoadedValue
<1> HIDE DEF x
<1>5. x.clocks \in Seq(ClockValues) /\ Len(x.clocks) \in Nat
  BY <1>4 DEF CacheValue
<1>6. q.index \in Nat \ {0}
  BY <1>1, <1>2 DEF WriteOK
<1>7. clock \in ClockValues
  BY <1>5, <1>6 DEF ClockValues
<1>8. Agrees(x) /\ q.index <= Len(x.clocks) =>
          /\ q.index \in 1..Len(stored[q.hash].clocks)
          /\ stored[q.hash].clocks[q.index] = clock
  BY SMTT(30), <1>3, <1>4, <1>5, <1>6, AgreeingIndex
<1>9. ~(q.index <= Len(x.clocks)) => clock = ZeroClock
  OBVIOUS
<1>10. Agrees(x) \in BOOLEAN
  BY DEF Agrees, IsPrefix
<1> HIDE DEF clock
<1>11. b \in Answer /\ (b.agrees => b.clock = ZeroClock \/ StoredAt(b))
  BY <1>2, <1>6, <1>7, <1>8, <1>9, <1>10 DEF HashAnswer, Answer, StoredAt
<1>12. p \in HashRequest /\ p.pc = "done"
  <2>1. 0 \in Hashes
    BY HasherAssumption DEF Hashes
  <2>2. NewRequest(r) \in HashRequest
    BY <2>1 DEF NewRequest, HashRequest, NoDoc, Doc, ClockValues
  <2> QED
    BY <2>2 DEF HashRequest
<1> HIDE DEF b, p, q
<1>13. WriteOK(p)
  BY <1>12 DEF WriteOK
<1>14. hashErrors' \in Nat
  BY <1>1, <1>3 DEF Fails
<1> QED
  BY <1>1, <1>2, <1>4, <1>11, <1>12, <1>13, <1>14, HashRequestStep

(* A write whose CAS is that of the document: what it replaces is where    *)
(* the new clocks start, so no stored clock changes its index; no other    *)
(* request and no cached value has the new CAS.                            *)
LEMMA StoreStep ==
    ASSUME HasherInd, NEW r \in HashRequests, hashReq[r].pc = "write",
           hashReq[r].write.cas = stored[hashReq[r].hash].cas, WriteHash(r)
    PROVE  HasherInd'
<1> DEFINE q == hashReq[r]
           h == q.hash
           doc == stored[h]
           d == [cas |-> doc.cas + 1, clocks |-> q.write.clocks]
           p == [NewRequest(r) EXCEPT !.pc = "done"]
           a == HashAnswer(h, q.index, q.clock, TRUE)
<1>1. /\ stored' = [stored EXCEPT ![h] = d]
      /\ hashReq' = [hashReq EXCEPT ![r] = p]
      /\ issued' = issued \cup {a}
      /\ UNCHANGED <<hashCache, values, resolved, hashErrors>>
  BY DEF WriteHash, GiveHash, HashReturn
<1>2. /\ q \in HashRequest /\ h \in Hashes /\ q.clock \in ClockValues
      /\ q.index \in Nat /\ WriteOK(q) /\ doc \in Doc
      /\ Created \cup {r} = Created
  BY RequestFacts
<1>3. q.write \in Doc /\ q.write.clocks \in Seq(ClockValues)
  BY <1>2 DEF HashRequest, Doc
<1>4. doc.cas \in Nat /\ doc.clocks \in Seq(ClockValues)
  BY <1>2 DEF Doc
<1>5. d \in Doc /\ d.cas = doc.cas + 1 /\ d.clocks = q.write.clocks
  BY <1>3, <1>4 DEF Doc
<1>6. Starts(doc.clocks, d.clocks) /\ q.index = Len(d.clocks) /\ d.clocks[q.index] = q.clock
      /\ q.index # 0
  BY <1>2, <1>5 DEF WriteOK
<1>7. p \in HashRequest /\ p.pc = "done"
  <2>1. 0 \in Hashes
    BY HasherAssumption DEF Hashes
  <2>2. NewRequest(r) \in HashRequest
    BY <2>1 DEF NewRequest, HashRequest, NoDoc, Doc, ClockValues
  <2> QED
    BY <2>2 DEF HashRequest
<1>8. a \in Answer /\ a.hash = h /\ a.index = q.index /\ a.clock = q.clock
  BY <1>2, <1>6 DEF HashAnswer, Answer
<1> HIDE DEF d, p, a, q
<1>9. HasherTypeOK
  BY DEF HasherInd
<1>10. /\ stored'[h] = d /\ hashReq'[r] = p
       /\ \A k \in Hashes : k # h => stored'[k] = stored[k]
       /\ \A k \in HashRequests : k # r => hashReq'[k] = hashReq[k]
  BY <1>1, <1>2, <1>9 DEF HasherTypeOK
<1>11. Created' = Created
  <2>1. r \in Created
    BY <1>2
  <2> QED
    BY <1>7, <1>10, <2>1 DEF Created
<1>12. HasherTypeOK'
  BY <1>1, <1>2, <1>5, <1>7, <1>8, <1>9, <1>11 DEF HasherTypeOK
<1>13. DocsOK'
  <2>1. d.cas # 0
    BY <1>4, <1>5
  <2> QED
    BY <1>10, <2>1 DEF HasherInd, DocsOK
<1>14. ASSUME NEW v \in HashRequests PROVE ValueOK(values[v])'
  <2>1. values'[v] = values[v] /\ values[v] \in CacheValue /\ ValueOK(values[v])
    BY <1>1, <1>9 DEF HasherInd, HasherTypeOK
  <2>2. values[v].key \in Hashes /\ values[v].cas \in Nat
    BY <2>1 DEF CacheValue
  <2>3. CASE values[v].key = h
    <3>1. values[v].cas <= doc.cas
      BY <2>1, <2>3 DEF ValueOK
    <3>2. values[v].cas < d.cas
      BY <1>4, <1>5, <2>2, <3>1
    <3>3. values[v].cas <= d.cas /\ values[v].cas # d.cas
      BY <1>4, <1>5, <2>2, <3>2
    <3> QED
      BY <1>10, <2>1, <2>3, <3>3 DEF ValueOK
  <2>4. CASE values[v].key # h
    BY <1>10, <2>1, <2>2, <2>4 DEF ValueOK
  <2> QED
    BY <2>3, <2>4
<1>15. ASSUME NEW k \in HashRequests PROVE HoldsOK(hashReq[k])' /\ WriteOK(hashReq[k])'
  <2>1. CASE k = r
    BY <1>7, <1>10, <2>1 DEF HoldsOK, WriteOK
  <2>2. CASE k # r
    <3>1. /\ hashReq'[k] = hashReq[k] /\ hashReq[k] \in HashRequest
          /\ HoldsOK(hashReq[k]) /\ WriteOK(hashReq[k])
      BY <1>9, <1>10, <2>2 DEF HasherInd, HasherTypeOK
    <3>2. HoldsOK(hashReq[k])'
      BY <1>1, <1>11, <3>1 DEF HoldsOK
    <3>3. hashReq[k].hash \in Hashes /\ hashReq[k].write.cas \in Nat
      BY <3>1 DEF HashRequest, Doc
    <3>4. CASE hashReq[k].hash = h /\ hashReq[k].pc = "write"
      <4>1. hashReq[k].write.cas <= doc.cas
        BY <3>1, <3>4 DEF WriteOK
      <4>2. hashReq[k].write.cas <= d.cas /\ hashReq[k].write.cas # d.cas
        BY <1>4, <1>5, <3>3, <4>1
      <4> QED
        BY <1>10, <3>1, <3>2, <3>4, <4>2 DEF WriteOK
    <3>5. CASE hashReq[k].hash # h \/ hashReq[k].pc # "write"
      BY <1>10, <3>1, <3>2, <3>3, <3>5 DEF WriteOK
    <3> QED
      BY <3>4, <3>5
  <2> QED
    BY <2>1, <2>2
<1>16. \A b \in Answer : StoredAt(b) => StoredAt(b)'
  <2> SUFFICES ASSUME NEW b \in Answer, StoredAt(b) PROVE StoredAt(b)'
    OBVIOUS
  <2>1. b.hash \in Hashes
    BY DEF Answer
  <2>2. CASE b.hash = h
    <3>1. /\ b.index \in 1..Len(doc.clocks) /\ doc.clocks[b.index] = b.clock
      BY <2>2 DEF StoredAt
    <3>2. b.index \in 1..Len(d.clocks) /\ d.clocks[b.index] = b.clock
      <4>1. Len(doc.clocks) \in Nat /\ Len(d.clocks) \in Nat
        BY <1>3, <1>4, <1>5
      <4> QED
        BY <1>6, <3>1, <4>1 DEF Starts
    <3> QED
      BY <1>10, <2>2, <3>2 DEF StoredAt
  <2>3. CASE b.hash # h
    BY <1>10, <2>1, <2>3 DEF StoredAt
  <2> QED
    BY <2>2, <2>3
<1>17. \A b \in Answer : b = a => StoredAt(b)'
  <2>1. q.index \in 1..Len(d.clocks)
    BY <1>2, <1>6
  <2> QED
    BY <1>6, <1>8, <1>10, <2>1 DEF StoredAt
<1>18. AnswersOK'
  <2>1. issued \subseteq Answer /\ resolved \subseteq Answer
    BY <1>9 DEF HasherTypeOK
  <2> QED
    BY <1>1, <1>8, <1>16, <1>17, <2>1 DEF HasherInd, AnswersOK
<1> QED
  BY <1>12, <1>13, <1>14, <1>15, <1>18 DEF HasherInd

(* WriteCasRaw: the document is replaced if its CAS has not changed.       *)
LEMMA WriteHashStep ==
    ASSUME HasherInd, NEW r \in HashRequests, WriteHash(r)
    PROVE  HasherInd'
<1> DEFINE q == hashReq[r]
<1>1. q.pc = "write"
  BY DEF WriteHash
<1>2. CASE q.write.cas = stored[q.hash].cas
  BY <1>1, <1>2, StoreStep
<1>3. CASE q.write.cas # stored[q.hash].cas
  <2> DEFINE p == [q EXCEPT !.pc = "reread"]
  <2>1. /\ hashReq' = [hashReq EXCEPT ![r] = p]
        /\ UNCHANGED <<stored, issued, hashCache, values, resolved, hashErrors>>
    BY <1>3 DEF WriteHash
  <2>2. /\ q \in HashRequest /\ q.index \in Nat /\ WriteOK(q) /\ q.value \in Created
        /\ q.value \in HashRequests
        /\ values[q.value] \in CacheValue /\ values[q.value].key = q.hash
        /\ ValueOK(values[q.value])
        /\ hashCache \in [Gateways -> Seq(Created \cup {r})]
        /\ values = [values EXCEPT ![q.value] = values[q.value]]
    BY <1>1, RequestFacts
  <2>3. /\ p \in HashRequest /\ p.pc = "reread" /\ p.value = q.value /\ p.hash = q.hash
        /\ p.index = q.index
    BY <2>2 DEF HashRequest
  <2> HIDE DEF p
  <2>4. WriteOK(p)
    BY <1>1, <2>2, <2>3 DEF WriteOK
  <2>5. hashErrors' \in Nat
    BY <2>1 DEF HasherInd, HasherTypeOK
  <2>6. values' = [values EXCEPT ![q.value] = values[q.value]]
        /\ values'[p.value].key = p.hash
    BY <2>1, <2>2, <2>3
  <2> HIDE DEF q
  <2> QED
    BY <2>1, <2>2, <2>3, <2>4, <2>5, <2>6, HashRequestStep
<1> QED
  BY <1>2, <1>3

----------------------------------------------------------------------------
(* GetHash and GetClock of any number of gateways, with losing writes and  *)
(* failing operations in between: a hash given out from clocks that agree  *)
(* with the document stays the hash of its clock for good, and resolves to *)
(* it wherever it is resolved from clocks that agree.                      *)
THEOREM HashesStay == HasherSpec => []HashesKept
<1>1. HasherInit => HasherInd
  <2> SUFFICES ASSUME HasherInit PROVE HasherInd
    OBVIOUS
  <2>0. 0 \in Hashes
    BY HasherAssumption DEF Hashes
  <2>1. NoDoc \in Doc /\ NoDoc.cas = 0 /\ NoDoc.clocks = <<>>
    BY DEF NoDoc, Doc
  <2>2. /\ NewValue(0) \in CacheValue /\ NewValue(0).key = 0 /\ NewValue(0).cas = 0
        /\ NewValue(0).clocks = <<>>
    BY <2>0 DEF NewValue, CacheValue
  <2>3. \A r \in HashRequests : NewRequest(r) \in HashRequest /\ NewRequest(r).pc = "none"
    BY <2>0, <2>1 DEF NewRequest, HashRequest, ClockValues
  <2>4. /\ \A h \in Hashes : stored[h] = NoDoc
        /\ \A r \in HashRequests : values[r] = NewValue(0) /\ hashReq[r] = NewRequest(r)
    BY DEF HasherInit
  <2>5. HasherTypeOK
    <3>1. hashCache \in [Gateways -> Seq(Created)]
      BY DEF HasherInit
    <3>2. /\ stored \in [Hashes -> Doc]
          /\ values \in [HashRequests -> CacheValue]
          /\ hashReq \in [HashRequests -> HashRequest]
      BY <2>1, <2>2, <2>3 DEF HasherInit
    <3> QED
      BY <3>1, <3>2 DEF HasherInit, HasherTypeOK
  <2>6. DocsOK
    BY <2>1, <2>4 DEF DocsOK
  <2>7. \A v \in HashRequests : ValueOK(values[v])
    BY <2>0, <2>1, <2>2, <2>4 DEF ValueOK, Starts
  <2>8. \A r \in HashRequests : HoldsOK(hashReq[r]) /\ WriteOK(hashReq[r])
    BY <2>3, <2>4 DEF HoldsOK, WriteOK
  <2>9. AnswersOK
    BY DEF HasherInit, AnswersOK
  <2> QED
    BY <2>5, <2>6, <2>7, <2>8, <2>9 DEF HasherInd
<1>2. HasherInd /\ [HasherNext]_hasherVars => HasherInd'
  <2> SUFFICES ASSUME HasherInd, [HasherNext]_hasherVars PROVE HasherInd'
    OBVIOUS
  <2>1. ASSUME NEW r \in HashRequests, NEW g \in Gateways, NEW clock \in Clocks,
               GetHash(r, g, clock)
        PROVE  HasherInd'
    BY <2>1, HashesAssumption, BeginStep DEF GetHash, ClockValues
  <2>2. ASSUME NEW r \in HashRequests, NEW g \in Gateways, NEW a \in issued,
               GetClock(r, g, a.hash, a.index)
        PROVE  HasherInd'
    <3>1. a \in Answer
      BY DEF HasherInd, HasherTypeOK
    <3>2. a.hash \in Hashes /\ a.index \in Nat /\ a.index # 0
      BY <3>1 DEF Answer
    <3> QED
      BY <2>2, <3>2, BeginStep DEF GetClock, ClockValues
  <2>3. CASE UNCHANGED hasherVars
    BY <2>3 DEF hasherVars, HasherInd, HasherTypeOK, Created, DocsOK, ValueOK, HoldsOK,
       WriteOK, AnswersOK, StoredAt
  <2> QED
    BY <2>1, <2>2, <2>3, LoadHashStep, LoadForIndexStep, UpdateHashStep, WriteHashStep,
       RereadHashStep, HashWriteFailsStep DEF HasherNext
<1>3. HasherInd => HashesKept
  BY DEF HasherInd, AnswersOK, StoredAt, HashesKept, SameClock
<1>4. QED
  BY <1>1, <1>2, <1>3, PTL DEF HasherSpec

-----------------------------------------------------------------------------
Meta == [uuid : Nat, snapStart : Nat, snapEnd : Nat]
Stream == [pc : {"closed", "open", "callback"}, uuid : Nat, seq : Nat,
           snapStart : Nat, snapEnd : Nat, saved : BOOLEAN]

(* Nothing is asked of the counters of the backfill, nor of the snapshot   *)
(* in meta, which only the vbucket's uuid is read from.                    *)
DcpTypeOK ==
    /\ high \in [FeedVbs -> Nat]
    /\ failoverLog \in [FeedVbs -> Seq(Nat)]
    /\ checkpoints \in [FeedVbs -> Meta]
    /\ backfillDoc.seqs \in [FeedVbs -> Nat] /\ backfillDoc.of \in [FeedVbs -> Nat]
    /\ seqs \in [FeedVbs -> Nat]
    /\ meta = [v \in FeedVbs |-> meta[v]]
    /\ \A v \in FeedVbs : "uuid" \in DOMAIN meta[v] /\ meta[v].uuid \in Nat
    /\ stream \in [FeedVbs -> Stream]
    /\ handled \in [FeedVbs -> SUBSET Nat]
    /\ running \in [FeedVbs -> SUBSET Nat]
    /\ missed \in [FeedVbs -> SUBSET Nat]

(* No uuid is one of the future.                                           *)
UuidsOK(v) ==
    /\ meta[v].uuid <= Uuid(v)
    /\ checkpoints[v].uuid <= Uuid(v)
    /\ backfillDoc.of[v] <= Uuid(v)

(* A stream is at the receiver's position and on its branch.               *)
StreamOK(v) ==
    stream[v].pc # "closed" =>
        /\ stream[v].seq = seqs[v]
        /\ stream[v].uuid = meta[v].uuid
        /\ stream[v].snapStart <= stream[v].seq

(* The sequences up to seq that the server has kept of the branch uuid are *)
(* handled, missed by a named race, or in the set runs.                    *)
Covers(v, uuid, seq, runs) ==
    \A s \in 1..seq : Kept(v, uuid, s) => s \in handled[v] \cup missed[v] \cup runs

(* The strengthening of FeedComplete: it speaks of each sequence that is   *)
(* kept, and not only of a position that is, so that a position which was  *)
(* dropped still tells where to roll back to.                              *)
DcpInd ==
    /\ DcpTypeOK
    /\ \A v \in FeedVbs :
        /\ UuidsOK(v) /\ StreamOK(v)
        /\ Covers(v, meta[v].uuid, seqs[v], InCallback(v))
        /\ Covers(v, checkpoints[v].uuid, checkpoints[v].snapStart, {})
        /\ Covers(v, backfillDoc.of[v], backfillDoc.seqs[v], running[v])

----------------------------------------------------------------------------
(* A sequence before a kept one is kept.                                   *)
LEMMA KeptBefore ==
    ASSUME DcpTypeOK, NEW v \in FeedVbs, NEW uuid \in Nat, NEW t \in Nat,
           NEW s \in 1..t, Kept(v, uuid, t)
    PROVE  Kept(v, uuid, s)
<1>1. failoverLog[v] \in Seq(Nat) /\ Uuid(v) = Len(failoverLog[v])
  BY DEF DcpTypeOK, Uuid
<1>2. \A i \in 1..Uuid(v) : failoverLog[v][i] \in Nat
  BY SMTT(30), <1>1
<1> QED
  BY <1>1, <1>2 DEF Kept

(* What is kept after a failover was kept before and is not after it.      *)
LEMMA KeptAfterFailover ==
    ASSUME DcpTypeOK, NEW v \in FeedVbs, NEW at \in Nat,
           failoverLog' = [failoverLog EXCEPT ![v] = Append(@, at)],
           NEW w \in FeedVbs, NEW uuid \in Nat, uuid <= Uuid(w), NEW s \in Nat,
           Kept(w, uuid, s)'
    PROVE  Kept(w, uuid, s) /\ (w = v => s <= at)
<1>1. failoverLog[w] \in Seq(Nat) /\ Len(failoverLog[w]) \in Nat
  BY DEF DcpTypeOK
<1>2. CASE w # v
  <2>1. failoverLog'[w] = failoverLog[w]
    BY <1>2 DEF DcpTypeOK
  <2> QED
    BY <1>2, <2>1 DEF Kept, Uuid
<1>3. CASE w = v
  <2> DEFINE log == failoverLog[v]
  <2>1. failoverLog'[v] = Append(log, at)
    BY DEF DcpTypeOK
  <2>2. /\ Len(Append(log, at)) = Len(log) + 1
        /\ Append(log, at)[Len(log) + 1] = at
        /\ \A i \in 1..Len(log) : Append(log, at)[i] = log[i]
    BY <1>1, <1>3
  <2>3. \A i \in 1..Len(log) + 1 : i > uuid => s <= Append(log, at)[i]
    BY <1>3, <2>1, <2>2 DEF Kept, Uuid
  <2>4. \A i \in 1..Len(log) : i \in 1..Len(log) + 1
    BY <1>1, <1>3
  <2>5. Len(log) + 1 \in 1..Len(log) + 1 /\ Len(log) + 1 > uuid
    BY <1>1, <1>3 DEF Uuid
  <2>6. s <= at
    BY <2>2, <2>3, <2>5
  <2>7. \A i \in 1..Len(log) : i > uuid => s <= log[i]
    BY <2>2, <2>3, <2>4
  <2> QED
    BY <1>3, <2>6, <2>7 DEF Kept, Uuid
<1> QED
  BY <1>2, <1>3

(* updateSeq at a position whose sequences are handled or run: the         *)
(* document with the positions of all vbuckets passes over none.           *)
LEMMA PersistedPositions ==
    ASSUME DcpInd, NEW v \in FeedVbs, NEW seq \in Nat, NEW persist \in BOOLEAN,
           NEW runs \in SUBSET Nat, UpdateSeq(v, seq, persist, runs),
           UNCHANGED <<failoverLog, handled, missed>>,
           Covers(v, meta[v].uuid, seq, runs)
    PROVE  /\ seqs' = [seqs EXCEPT ![v] = seq]
           /\ backfillDoc'.seqs \in [FeedVbs -> Nat] /\ backfillDoc'.of \in [FeedVbs -> Nat]
           /\ running' \in [FeedVbs -> SUBSET Nat]
           /\ \A w \in FeedVbs : /\ backfillDoc'.of[w] <= Uuid(w)
                                 /\ Covers(w, backfillDoc.of[w], backfillDoc.seqs[w],
                                           running[w])'
<1> DEFINE purge == /\ backfill.active /\ backfill.vbActive[v]
                    /\ ~UpdatedStats(v, seqs[v], seq).active
<1>1. /\ seqs' = [seqs EXCEPT ![v] = seq]
      /\ backfillDoc' = CASE purge -> NoBackfillDoc
                          [] persist /\ ~purge ->
                               [seqs |-> seqs', snapStart |-> backfill.snapStart,
                                snapEnd |-> backfill.snapEnd,
                                of |-> [w \in FeedVbs |-> meta[w].uuid]]
                          [] OTHER -> backfillDoc
      /\ running' = CASE purge -> [w \in FeedVbs |-> {}]
                      [] persist /\ ~purge ->
                           [w \in FeedVbs |-> IF w = v THEN runs ELSE InCallback(w)]
                      [] OTHER -> running
  BY DEF UpdateSeq
<1>2. DcpTypeOK /\ \A w \in FeedVbs : Uuid(w) \in Nat
  BY SMTT(30) DEF DcpInd, DcpTypeOK, Uuid
<1>3. seqs' \in [FeedVbs -> Nat] /\ seqs'[v] = seq
      /\ \A w \in FeedVbs : w # v => seqs'[w] = seqs[w]
  BY <1>1, <1>2 DEF DcpTypeOK
<1>4. \A w \in FeedVbs, uuid \in Nat, s \in Nat : Kept(w, uuid, s)' <=> Kept(w, uuid, s)
  BY DEF Kept, Uuid
<1> HIDE DEF purge
<1>5. CASE purge
  <2>1. backfillDoc' = NoBackfillDoc /\ running' = [w \in FeedVbs |-> {}]
    BY <1>1, <1>5
  <2>2. /\ backfillDoc'.seqs = Zeros /\ backfillDoc'.of = Zeros
        /\ Zeros \in [FeedVbs -> Nat] /\ \A w \in FeedVbs : Zeros[w] = 0
    BY <2>1 DEF NoBackfillDoc, Zeros
  <2>3. ASSUME NEW w \in FeedVbs
        PROVE  /\ backfillDoc'.of[w] <= Uuid(w)
               /\ Covers(w, backfillDoc.of[w], backfillDoc.seqs[w], running[w])'
    <3>1. backfillDoc'.of[w] = 0 /\ backfillDoc'.seqs[w] = 0 /\ Uuid(w) \in Nat
      BY <1>2, <2>2
    <3> QED
      BY <3>1 DEF Covers
  <2>4. running' \in [FeedVbs -> SUBSET Nat]
    BY <2>1
  <2> QED
    BY <1>1, <2>2, <2>3, <2>4
<1>6. CASE ~purge /\ persist
  <2>1. /\ backfillDoc'.seqs = seqs'
        /\ backfillDoc'.of = [w \in FeedVbs |-> meta[w].uuid]
        /\ running' = [w \in FeedVbs |-> IF w = v THEN runs ELSE InCallback(w)]
    BY <1>1, <1>6
  <2>2. \A w \in FeedVbs : InCallback(w) \in SUBSET Nat
    BY <1>2 DEF InCallback, DcpTypeOK, Stream
  <2>3. running' \in [FeedVbs -> SUBSET Nat]
    BY <2>1, <2>2
  <2>4. /\ backfillDoc'.of \in [FeedVbs -> Nat]
        /\ \A w \in FeedVbs : backfillDoc'.of[w] = meta[w].uuid /\ meta[w].uuid \in Nat
    BY <1>2, <2>1 DEF DcpTypeOK
  <2>5. ASSUME NEW w \in FeedVbs
        PROVE  Covers(w, backfillDoc.of[w], backfillDoc.seqs[w], running[w])'
    <3>1. CASE w = v
      <4>1. running'[w] = runs /\ backfillDoc'.seqs[w] = seq
        BY <1>3, <2>1, <3>1
      <4> QED
        BY <1>4, <2>4, <3>1, <4>1 DEF Covers
    <3>2. CASE w # v
      <4>1. running'[w] = InCallback(w) /\ backfillDoc'.seqs[w] = seqs[w]
        BY <1>3, <2>1, <3>2
      <4>2. Covers(w, meta[w].uuid, seqs[w], InCallback(w)) /\ seqs[w] \in Nat
        BY <1>2 DEF DcpInd, DcpTypeOK
      <4> QED
        BY <1>4, <2>4, <4>1, <4>2 DEF Covers
    <3> QED
      BY <3>1, <3>2
  <2> QED
    BY <1>1, <1>3, <2>1, <2>3, <2>4, <2>5 DEF DcpInd, UuidsOK
<1>7. CASE ~purge /\ ~persist
  <2>1. backfillDoc' = backfillDoc /\ running' = running
    BY <1>1, <1>7
  <2>2. ASSUME NEW w \in FeedVbs
        PROVE  /\ backfillDoc'.of[w] <= Uuid(w)
               /\ Covers(w, backfillDoc.of[w], backfillDoc.seqs[w], running[w])'
    <3>1. /\ backfillDoc.of[w] \in Nat /\ backfillDoc.seqs[w] \in Nat
          /\ backfillDoc.of[w] <= Uuid(w)
          /\ Covers(w, backfillDoc.of[w], backfillDoc.seqs[w], running[w])
      BY DEF DcpInd, DcpTypeOK, UuidsOK
    <3> QED
      BY <1>4, <2>1, <3>1 DEF Covers
  <2> QED
    BY <1>1, <1>2, <2>1, <2>2 DEF DcpTypeOK
<1> QED
  BY <1>5, <1>6, <1>7

(* A step that fails over nothing and keeps what is handled or missed      *)
(* leaves what is covered so.                                              *)
LEMMA CoversStays ==
    ASSUME DcpTypeOK, UNCHANGED failoverLog, NEW w \in FeedVbs, NEW uuid \in Nat,
           NEW seq \in Nat, NEW runs, Covers(w, uuid, seq, runs),
           handled[w] \subseteq handled'[w], missed[w] \subseteq missed'[w]
    PROVE  \A s \in 1..seq : Kept(w, uuid, s)' => s \in handled'[w] \cup missed'[w] \cup runs
<1>1. \A s \in Nat : Kept(w, uuid, s)' <=> Kept(w, uuid, s)
  BY DEF Kept, Uuid
<1> QED
  BY <1>1 DEF Covers

----------------------------------------------------------------------------
(* One lemma for each kind of step.                                        *)

(* A failover truncates the vbucket's history and gives it another uuid.   *)
LEMMA FailoverStep ==
    ASSUME DcpInd, NEW v \in FeedVbs, NEW at \in 0..MaxVbSeq[v], Failover(v, at)
    PROVE  DcpInd'
<1>1. /\ at <= high[v] /\ failoverLog' = [failoverLog EXCEPT ![v] = Append(@, at)]
      /\ high' = [high EXCEPT ![v] = at]
      /\ handled' = [handled EXCEPT ![v] = @ \cap 1..at]
      /\ missed' = [missed EXCEPT ![v] = @ \cap 1..at]
      /\ stream' = IF stream[v].pc = "callback" THEN stream
                   ELSE [stream EXCEPT ![v] = ClosedStream]
      /\ UNCHANGED <<checkpoints, backfillDoc, seqs, meta, updates, backfill, running>>
  BY DEF Failover, receiverVars
<1>2. at \in Nat /\ DcpTypeOK
  BY DcpAssumption DEF DcpInd
<1>3. ClosedStream \in Stream /\ ClosedStream.pc = "closed"
  BY DEF ClosedStream, Stream
<1>4. DcpTypeOK'
  <2>1. failoverLog' \in [FeedVbs -> Seq(Nat)]
    BY <1>1, <1>2 DEF DcpTypeOK
  <2>2. stream' \in [FeedVbs -> Stream]
    BY <1>1, <1>2, <1>3 DEF DcpTypeOK
  <2> QED
    BY <1>1, <1>2, <2>1, <2>2 DEF DcpTypeOK
<1>5. ASSUME NEW w \in FeedVbs PROVE Uuid(w) <= Uuid(w)' /\ Uuid(w) \in Nat /\ Uuid(w)' \in Nat
  <2>1. failoverLog[w] \in Seq(Nat)
    BY <1>2 DEF DcpTypeOK
  <2>2. failoverLog'[w] = failoverLog[w] \/ failoverLog'[w] = Append(failoverLog[w], at)
    BY <1>1, <1>2 DEF DcpTypeOK
  <2> QED
    BY <1>2, <2>1, <2>2 DEF Uuid
<1>6. ASSUME NEW w \in FeedVbs, NEW uuid \in Nat, uuid <= Uuid(w), NEW seq \in Nat,
             NEW runs, Covers(w, uuid, seq, runs)
      PROVE  \A s \in 1..seq : Kept(w, uuid, s)' =>
                 s \in handled'[w] \cup missed'[w] \cup runs
  <2> SUFFICES ASSUME NEW s \in 1..seq, Kept(w, uuid, s)'
               PROVE  s \in handled'[w] \cup missed'[w] \cup runs
    OBVIOUS
  <2>1. s \in Nat /\ s >= 1
    OBVIOUS
  <2>2. Kept(w, uuid, s) /\ (w = v => s <= at)
    BY <1>1, <1>2, <1>6, <2>1, KeptAfterFailover
  <2>3. s \in handled[w] \cup missed[w] \cup runs
    BY <1>6, <2>2 DEF Covers
  <2>4. CASE w = v
    <3>1. s \in 1..at
      BY <1>2, <2>1, <2>2, <2>4
    <3>2. handled'[w] = handled[w] \cap 1..at /\ missed'[w] = missed[w] \cap 1..at
      BY <1>1, <1>2, <2>4 DEF DcpTypeOK
    <3> QED
      BY <2>3, <3>1, <3>2
  <2>5. CASE w # v
    <3>1. handled'[w] = handled[w] /\ missed'[w] = missed[w]
      BY <1>1, <1>2, <2>5 DEF DcpTypeOK
    <3> QED
      BY <2>3, <3>1
  <2> QED
    BY <2>4, <2>5
<1>7. ASSUME NEW w \in FeedVbs
      PROVE  /\ UuidsOK(w)' /\ StreamOK(w)'
             /\ Covers(w, meta[w].uuid, seqs[w], InCallback(w))'
             /\ Covers(w, checkpoints[w].uuid, checkpoints[w].snapStart, {})'
             /\ Covers(w, backfillDoc.of[w], backfillDoc.seqs[w], running[w])'
  <2>1. /\ UuidsOK(w) /\ StreamOK(w)
        /\ Covers(w, meta[w].uuid, seqs[w], InCallback(w))
        /\ Covers(w, checkpoints[w].uuid, checkpoints[w].snapStart, {})
        /\ Covers(w, backfillDoc.of[w], backfillDoc.seqs[w], running[w])
    BY DEF DcpInd
  <2>2. /\ meta[w].uuid \in Nat /\ seqs[w] \in Nat
        /\ checkpoints[w].uuid \in Nat /\ checkpoints[w].snapStart \in Nat
        /\ backfillDoc.of[w] \in Nat /\ backfillDoc.seqs[w] \in Nat
    BY <1>2 DEF DcpTypeOK, Meta
  <2>3. UuidsOK(w)'
    BY SMTT(30), <1>1, <1>5, <2>1, <2>2 DEF UuidsOK
  <2>4. \/ stream'[w] = stream[w]
        \/ stream'[w] = ClosedStream /\ stream[w].pc # "callback"
    BY <1>1, <1>2 DEF DcpTypeOK
  <2>5. StreamOK(w)' /\ InCallback(w)' = InCallback(w)
    BY <1>1, <1>3, <2>1, <2>4 DEF StreamOK, InCallback
  <2>6. Covers(w, meta[w].uuid, seqs[w], InCallback(w))'
    BY <1>1, <1>6, <2>1, <2>2, <2>5 DEF Covers, UuidsOK
  <2>7. Covers(w, checkpoints[w].uuid, checkpoints[w].snapStart, {})'
    BY <1>1, <1>6, <2>1, <2>2 DEF Covers, UuidsOK
  <2>8. Covers(w, backfillDoc.of[w], backfillDoc.seqs[w], running[w])'
    BY ZenonT(30), <1>1, <1>6, <2>1, <2>2 DEF Covers, UuidsOK
  <2> QED
    BY <2>3, <2>5, <2>6, <2>7, <2>8
<1> QED
  BY <1>4, <1>7 DEF DcpInd

(* A step of the stream of vbucket v.                                      *)
LEMMA StreamStep ==
    ASSUME DcpInd, NEW v \in FeedVbs, UNCHANGED failoverLog, DcpTypeOK',
           \A w \in FeedVbs : handled[w] \subseteq handled'[w] /\ missed[w] \subseteq missed'[w],
           \A w \in FeedVbs \ {v} :
               /\ meta'[w] = meta[w] /\ seqs'[w] = seqs[w] /\ stream'[w] = stream[w]
               /\ checkpoints'[w] = checkpoints[w],
           meta'[v].uuid <= Uuid(v), checkpoints'[v].uuid <= Uuid(v), StreamOK(v)',
           Covers(v, meta[v].uuid, seqs[v], InCallback(v))',
           Covers(v, checkpoints[v].uuid, checkpoints[v].snapStart, {})',
           \A w \in FeedVbs : /\ backfillDoc'.of[w] <= Uuid(w)
                              /\ Covers(w, backfillDoc.of[w], backfillDoc.seqs[w],
                                        running[w])'
    PROVE  DcpInd'
<1>1. DcpTypeOK
  BY DEF DcpInd
<1>2. \A w \in FeedVbs : Uuid(w)' = Uuid(w)
  BY DEF Uuid
<1>3. ASSUME NEW w \in FeedVbs, w # v
      PROVE  /\ UuidsOK(w)' /\ StreamOK(w)'
             /\ Covers(w, meta[w].uuid, seqs[w], InCallback(w))'
             /\ Covers(w, checkpoints[w].uuid, checkpoints[w].snapStart, {})'
  <2>1. /\ UuidsOK(w) /\ StreamOK(w)
        /\ Covers(w, meta[w].uuid, seqs[w], InCallback(w))
        /\ Covers(w, checkpoints[w].uuid, checkpoints[w].snapStart, {})
    BY DEF DcpInd
  <2>2. /\ meta[w].uuid \in Nat /\ seqs[w] \in Nat
        /\ checkpoints[w].uuid \in Nat /\ checkpoints[w].snapStart \in Nat
    BY <1>1 DEF DcpTypeOK, Meta
  <2>3. /\ meta'[w] = meta[w] /\ seqs'[w] = seqs[w] /\ stream'[w] = stream[w]
        /\ checkpoints'[w] = checkpoints[w]
    BY <1>3
  <2>4. UuidsOK(w)'
    BY <1>2, <2>1, <2>3 DEF UuidsOK
  <2>5. StreamOK(w)' /\ InCallback(w)' = InCallback(w)
    BY <2>1, <2>3 DEF StreamOK, InCallback
  <2>6. Covers(w, meta[w].uuid, seqs[w], InCallback(w))'
    BY <1>1, <2>1, <2>2, <2>3, <2>5, CoversStays DEF Covers
  <2>7. Covers(w, checkpoints[w].uuid, checkpoints[w].snapStart, {})'
    BY <1>1, <2>1, <2>2, <2>3, CoversStays DEF Covers
  <2> QED
    BY <2>4, <2>5, <2>6, <2>7
<1>4. UuidsOK(v)'
  BY <1>2 DEF UuidsOK
<1> QED
  BY <1>3, <1>4 DEF DcpInd

(* The positions in the bucket when a step leaves them alone.              *)
LEMMA DocumentStays ==
    ASSUME DcpInd, UNCHANGED <<failoverLog, backfillDoc, running>>,
           \A w \in FeedVbs : handled[w] \subseteq handled'[w] /\ missed[w] \subseteq missed'[w]
    PROVE  \A w \in FeedVbs : /\ backfillDoc'.of[w] <= Uuid(w)
                              /\ Covers(w, backfillDoc.of[w], backfillDoc.seqs[w],
                                        running[w])'
<1> SUFFICES ASSUME NEW w \in FeedVbs
             PROVE  /\ backfillDoc'.of[w] <= Uuid(w)
                    /\ Covers(w, backfillDoc.of[w], backfillDoc.seqs[w], running[w])'
  OBVIOUS
<1>1. /\ DcpTypeOK /\ backfillDoc.of[w] \in Nat /\ backfillDoc.seqs[w] \in Nat
      /\ backfillDoc.of[w] <= Uuid(w)
      /\ Covers(w, backfillDoc.of[w], backfillDoc.seqs[w], running[w])
  BY DEF DcpInd, DcpTypeOK, UuidsOK
<1>2. \A s \in 1..backfillDoc.seqs[w] : Kept(w, backfillDoc.of[w], s)' =>
          s \in handled'[w] \cup missed'[w] \cup running[w]
  BY <1>1, CoversStays
<1> QED
  BY <1>1, <1>2 DEF Covers

(* What is known of the vbucket of a step.                                 *)
LEMMA VbFacts ==
    ASSUME DcpInd, NEW v \in FeedVbs
    PROVE  /\ DcpTypeOK /\ Uuid(v) \in Nat /\ high[v] \in Nat /\ seqs[v] \in Nat
           /\ meta[v].uuid \in Nat /\ checkpoints[v] \in Meta
           /\ checkpoints[v].uuid \in Nat /\ checkpoints[v].snapStart \in Nat
           /\ stream[v] \in Stream /\ stream[v].seq \in Nat /\ stream[v].uuid \in Nat
           /\ stream[v].snapStart \in Nat /\ stream[v].snapEnd \in Nat
           /\ UuidsOK(v) /\ StreamOK(v)
           /\ Covers(v, meta[v].uuid, seqs[v], InCallback(v))
           /\ Covers(v, checkpoints[v].uuid, checkpoints[v].snapStart, {})
<1>1. DcpTypeOK
  BY DEF DcpInd
<1>2. failoverLog[v] \in Seq(Nat) /\ Uuid(v) \in Nat
  BY <1>1 DEF DcpTypeOK, Uuid
<1>3. /\ high[v] \in Nat /\ seqs[v] \in Nat /\ meta[v].uuid \in Nat
      /\ checkpoints[v] \in Meta /\ stream[v] \in Stream
  BY <1>1 DEF DcpTypeOK
<1>4. checkpoints[v].uuid \in Nat /\ checkpoints[v].snapStart \in Nat
  BY <1>3 DEF Meta
<1>5. /\ stream[v].seq \in Nat /\ stream[v].uuid \in Nat
      /\ stream[v].snapStart \in Nat /\ stream[v].snapEnd \in Nat
  BY <1>3 DEF Stream
<1> QED
  BY <1>1, <1>2, <1>3, <1>4, <1>5 DEF DcpInd

(* The server stores another mutation.                                     *)
LEMMA MutationStep ==
    ASSUME DcpInd, NEW v \in FeedVbs, ServerMutation(v)
    PROVE  DcpInd'
<1>1. /\ high' = [high EXCEPT ![v] = @ + 1]
      /\ UNCHANGED <<failoverLog, checkpoints, backfillDoc, seqs, meta, stream, handled,
                     running, missed>>
  BY DEF ServerMutation, receiverVars
<1>2. DcpTypeOK'
  BY <1>1 DEF DcpInd, DcpTypeOK
<1>3. \A w \in FeedVbs : (UuidsOK(w) /\ StreamOK(w)) => (UuidsOK(w)' /\ StreamOK(w)')
  BY <1>1 DEF UuidsOK, StreamOK, Uuid
<1>4. \A w \in FeedVbs :
          /\ Covers(w, meta[w].uuid, seqs[w], InCallback(w)) =>
                 Covers(w, meta[w].uuid, seqs[w], InCallback(w))'
          /\ Covers(w, checkpoints[w].uuid, checkpoints[w].snapStart, {}) =>
                 Covers(w, checkpoints[w].uuid, checkpoints[w].snapStart, {})'
          /\ Covers(w, backfillDoc.of[w], backfillDoc.seqs[w], running[w]) =>
                 Covers(w, backfillDoc.of[w], backfillDoc.seqs[w], running[w])'
  BY <1>1 DEF Covers, Kept, Uuid, InCallback
<1> QED
  BY <1>2, <1>3, <1>4 DEF DcpInd

(* A stream is opened where the metadata says, and the server may ask for  *)
(* a rollback.                                                             *)
LEMMA OpenStreamStep ==
    ASSUME DcpInd, NEW v \in FeedVbs, OpenStream(v)
    PROVE  DcpInd'
<1> DEFINE t == [pc |-> "open", uuid |-> Uuid(v), seq |-> seqs[v],
                 snapStart |-> seqs[v], snapEnd |-> seqs[v], saved |-> TRUE]
           m == [meta[v] EXCEPT !.uuid = Uuid(v)]
<1>1. /\ stream[v].pc = "closed" /\ ~MustRollBack(v)
      /\ stream' = [stream EXCEPT ![v] = t]
      /\ meta' = [meta EXCEPT ![v] = m]
      /\ UNCHANGED <<high, failoverLog, checkpoints, backfillDoc, seqs, handled,
                     running, missed>>
  BY DEF OpenStream, serverVars
<1>2. /\ DcpTypeOK /\ Uuid(v) \in Nat /\ seqs[v] \in Nat /\ meta[v].uuid \in Nat
      /\ checkpoints[v].uuid \in Nat /\ checkpoints[v].snapStart \in Nat /\ UuidsOK(v)
      /\ Covers(v, meta[v].uuid, seqs[v], InCallback(v))
      /\ Covers(v, checkpoints[v].uuid, checkpoints[v].snapStart, {})
  BY VbFacts
<1>3. /\ t \in Stream /\ t.pc = "open" /\ t.uuid = Uuid(v) /\ t.seq = seqs[v]
      /\ t.snapStart = seqs[v]
  BY <1>2 DEF Stream
<1>4. "uuid" \in DOMAIN m /\ m.uuid = Uuid(v)
  <2>1. "uuid" \in DOMAIN meta[v]
    BY <1>2 DEF DcpTypeOK
  <2> QED
    BY <2>1
<1> HIDE DEF t, m
<1>5. /\ meta'[v] = m /\ \A w \in FeedVbs : w # v => meta'[w] = meta[w]
      /\ meta' = [w \in FeedVbs |-> meta'[w]]
      /\ stream'[v] = t /\ \A w \in FeedVbs : w # v => stream'[w] = stream[w]
  BY <1>1, <1>2 DEF DcpTypeOK
<1>6. DcpTypeOK'
  <2>1. \A w \in FeedVbs : "uuid" \in DOMAIN meta'[w] /\ meta'[w].uuid \in Nat
    BY <1>2, <1>4, <1>5 DEF DcpTypeOK
  <2>2. stream' \in [FeedVbs -> Stream]
    BY <1>1, <1>2, <1>3 DEF DcpTypeOK
  <2> QED
    BY <1>1, <1>2, <1>5, <2>1, <2>2 DEF DcpTypeOK
<1>7. StreamOK(v)'
  BY <1>1, <1>2, <1>3, <1>4, <1>5 DEF StreamOK
<1>8. \A s \in 1..seqs[v] : s \in handled[v] \cup missed[v]
  <2>1. InCallback(v) = {}
    BY <1>1 DEF InCallback
  <2>2. \A s \in 1..seqs[v] : Kept(v, meta[v].uuid, s)
    BY <1>1, <1>2, KeptBefore DEF MustRollBack
  <2> QED
    BY <1>2, <2>1, <2>2 DEF Covers
<1>9. Covers(v, meta[v].uuid, seqs[v], InCallback(v))'
  BY <1>1, <1>8 DEF Covers
<1>10. Covers(v, checkpoints[v].uuid, checkpoints[v].snapStart, {})'
  BY <1>1, <1>2, CoversStays DEF Covers
<1>11. \A w \in FeedVbs : /\ backfillDoc'.of[w] <= Uuid(w)
                          /\ Covers(w, backfillDoc.of[w], backfillDoc.seqs[w], running[w])'
  BY <1>1, DocumentStays
<1>12. meta'[v].uuid <= Uuid(v) /\ checkpoints'[v].uuid <= Uuid(v)
  BY <1>1, <1>2, <1>4, <1>5 DEF UuidsOK
<1> QED
  BY <1>1, <1>5, <1>6, <1>7, <1>9, <1>10, <1>11, <1>12, StreamStep

(* A snapshot begins, or the stream ends: neither is in a callback.        *)
LEMMA StreamOnlyStep ==
    ASSUME DcpInd, NEW v \in FeedVbs, NEW t \in Stream, stream[v].pc = "open",
           stream' = [stream EXCEPT ![v] = t],
           \/ t.pc = "closed"
           \/ t.pc = "open" /\ t.seq = stream[v].seq /\ t.uuid = stream[v].uuid
              /\ t.snapStart <= t.seq,
           UNCHANGED <<serverVars, checkpoints, backfillDoc, seqs, meta, handled, running,
                       missed>>
    PROVE  DcpInd'
<1>1. /\ DcpTypeOK /\ seqs[v] \in Nat /\ meta[v].uuid \in Nat
      /\ checkpoints[v].uuid \in Nat /\ checkpoints[v].snapStart \in Nat
      /\ UuidsOK(v) /\ StreamOK(v)
      /\ Covers(v, meta[v].uuid, seqs[v], InCallback(v))
      /\ Covers(v, checkpoints[v].uuid, checkpoints[v].snapStart, {})
  BY VbFacts
<1>2. stream'[v] = t /\ \A w \in FeedVbs : w # v => stream'[w] = stream[w]
  BY <1>1 DEF DcpTypeOK
<1>3. DcpTypeOK'
  BY <1>1 DEF DcpTypeOK, serverVars
<1>4. InCallback(v)' = InCallback(v)
  BY <1>2 DEF InCallback
<1>5. StreamOK(v)'
  BY <1>1, <1>2 DEF StreamOK
<1>6. Covers(v, meta[v].uuid, seqs[v], InCallback(v))'
  BY <1>1, <1>4, CoversStays DEF Covers, serverVars
<1>7. Covers(v, checkpoints[v].uuid, checkpoints[v].snapStart, {})'
  BY <1>1, CoversStays DEF Covers, serverVars
<1>8. \A w \in FeedVbs : /\ backfillDoc'.of[w] <= Uuid(w)
                         /\ Covers(w, backfillDoc.of[w], backfillDoc.seqs[w], running[w])'
  BY DocumentStays DEF serverVars
<1> QED
  BY <1>1, <1>2, <1>3, <1>5, <1>6, <1>7, <1>8, StreamStep DEF serverVars, UuidsOK

(* SnapshotStart marks the snapshot that will be persisted with the next   *)
(* update.                                                                 *)
LEMMA SnapshotStartStep ==
    ASSUME DcpInd, NEW v \in FeedVbs, SnapshotStart(v)
    PROVE  DcpInd'
<1> DEFINE s == stream[v]
           t == [s EXCEPT !.snapStart = s.seq, !.snapEnd = high[v], !.saved = FALSE]
<1>1. /\ s.pc = "open" /\ stream' = [stream EXCEPT ![v] = t]
      /\ UNCHANGED <<serverVars, checkpoints, backfillDoc, seqs, meta, handled, running,
                     missed>>
  BY DEF SnapshotStart
<1>2. s \in Stream /\ s.seq \in Nat /\ high[v] \in Nat
  BY VbFacts
<1>3. /\ t \in Stream /\ t.pc = s.pc /\ t.seq = s.seq /\ t.uuid = s.uuid
      /\ t.snapStart = s.seq
  BY <1>2 DEF Stream
<1> HIDE DEF t
<1>4. t.snapStart <= t.seq
  BY <1>2, <1>3
<1> QED
  BY <1>1, <1>3, <1>4, StreamOnlyStep

(* A stream ends and is opened again.                                      *)
LEMMA StreamErrorStep ==
    ASSUME DcpInd, NEW v \in FeedVbs, StreamError(v)
    PROVE  DcpInd'
<1>1. ClosedStream \in Stream /\ ClosedStream.pc = "closed"
  BY DEF ClosedStream, Stream
<1> QED
  BY <1>1, StreamOnlyStep DEF StreamError, receiverVars

(* The position is persisted at the start of a snapshot, or the write      *)
(* fails.                                                                  *)
LEMMA SaveSnapshotStep ==
    ASSUME DcpInd, NEW v \in FeedVbs, NEW persisted \in BOOLEAN, SaveSnapshot(v, persisted)
    PROVE  DcpInd'
<1> DEFINE s == stream[v]
           m == [uuid |-> s.uuid, snapStart |-> s.snapStart, snapEnd |-> s.snapEnd]
           t == [s EXCEPT !.saved = TRUE]
<1>1. /\ s.pc = "open" /\ stream' = [stream EXCEPT ![v] = t]
      /\ meta' = [meta EXCEPT ![v] = m]
      /\ checkpoints' = checkpoints \/ checkpoints' = [checkpoints EXCEPT ![v] = m]
      /\ UNCHANGED <<high, failoverLog, backfillDoc, seqs, handled, running, missed>>
  BY DEF SaveSnapshot, SetMetaData, serverVars
<1>2. /\ DcpTypeOK /\ s \in Stream /\ s.seq \in Nat /\ s.uuid \in Nat /\ seqs[v] \in Nat
      /\ s.snapStart \in Nat /\ s.snapEnd \in Nat /\ meta[v].uuid \in Nat
      /\ checkpoints[v].uuid \in Nat /\ checkpoints[v].snapStart \in Nat
      /\ UuidsOK(v) /\ StreamOK(v)
      /\ Covers(v, meta[v].uuid, seqs[v], InCallback(v))
      /\ Covers(v, checkpoints[v].uuid, checkpoints[v].snapStart, {})
  BY VbFacts
<1>3. /\ m \in Meta /\ m.uuid = s.uuid /\ m.snapStart = s.snapStart
      /\ "uuid" \in DOMAIN m
  BY <1>2 DEF Meta
<1>4. /\ t \in Stream /\ t.pc = "open" /\ t.seq = s.seq /\ t.uuid = s.uuid
      /\ t.snapStart = s.snapStart
  BY <1>1, <1>2 DEF Stream
<1> HIDE DEF m, t
<1>5. /\ meta'[v] = m /\ \A w \in FeedVbs : w # v => meta'[w] = meta[w]
      /\ meta' = [w \in FeedVbs |-> meta'[w]]
      /\ stream'[v] = t /\ \A w \in FeedVbs : w # v => stream'[w] = stream[w]
      /\ checkpoints'[v] = m \/ checkpoints'[v] = checkpoints[v]
      /\ \A w \in FeedVbs : w # v => checkpoints'[w] = checkpoints[w]
  BY <1>1, <1>2 DEF DcpTypeOK
<1>6. DcpTypeOK'
  <2>1. \A w \in FeedVbs : "uuid" \in DOMAIN meta'[w] /\ meta'[w].uuid \in Nat
    BY <1>2, <1>3, <1>5 DEF DcpTypeOK
  <2>2. stream' \in [FeedVbs -> Stream] /\ checkpoints' \in [FeedVbs -> Meta]
    BY ZenonT(30), <1>1, <1>2, <1>3, <1>4 DEF DcpTypeOK
  <2> QED
    BY <1>1, <1>2, <1>5, <2>1, <2>2 DEF DcpTypeOK
<1>7. s.seq = seqs[v] /\ s.uuid = meta[v].uuid /\ s.snapStart <= seqs[v]
  BY <1>1, <1>2 DEF StreamOK
<1>8. StreamOK(v)'
  BY <1>1, <1>3, <1>4, <1>5, <1>7 DEF StreamOK
<1>9. Covers(v, meta[v].uuid, seqs[v], {})
  BY <1>1, <1>2 DEF InCallback
<1>10. \A u \in Nat, x \in 1..seqs[v] :
           u = meta[v].uuid /\ Kept(v, u, x)' => x \in handled'[v] \cup missed'[v]
  BY <1>1, <1>2, <1>9, CoversStays
<1>11. Covers(v, meta[v].uuid, seqs[v], InCallback(v))'
  BY <1>1, <1>2, <1>3, <1>5, <1>7, <1>10 DEF Covers
<1>12. Covers(v, checkpoints[v].uuid, checkpoints[v].snapStart, {})'
  <2>1. CASE checkpoints'[v] = m
    <3>1. \A x \in 1..s.snapStart : x \in 1..seqs[v]
      BY <1>2, <1>7
    <3> QED
      BY <1>2, <1>3, <1>7, <1>10, <2>1, <3>1 DEF Covers
  <2>2. CASE checkpoints'[v] = checkpoints[v]
    <3>1. \A u \in Nat, x \in 1..checkpoints[v].snapStart :
              u = checkpoints[v].uuid /\ Kept(v, u, x)' =>
                  x \in handled'[v] \cup missed'[v] \cup {}
      BY <1>1, <1>2, CoversStays
    <3> QED
      BY <1>2, <2>2, <3>1 DEF Covers
  <2> QED
    BY <1>5, <2>1, <2>2
<1>13. \A w \in FeedVbs : /\ backfillDoc'.of[w] <= Uuid(w)
                          /\ Covers(w, backfillDoc.of[w], backfillDoc.seqs[w], running[w])'
  BY <1>1, DocumentStays
<1>14. meta'[v].uuid <= Uuid(v) /\ checkpoints'[v].uuid <= Uuid(v)
  BY <1>2, <1>3, <1>5, <1>7 DEF UuidsOK
<1> QED
  BY <1>1, <1>5, <1>6, <1>8, <1>11, <1>12, <1>13, <1>14, StreamStep

(* DataUpdate moves the position, and the backfill's with it, before the   *)
(* callback.                                                               *)
LEMMA DataUpdateStep ==
    ASSUME DcpInd, NEW v \in FeedVbs, NEW persist \in BOOLEAN, DataUpdate(v, persist)
    PROVE  DcpInd'
<1> DEFINE s == stream[v]
           n == s.seq + 1
           t == [s EXCEPT !.pc = "callback", !.seq = n]
<1>1. /\ s.pc = "open" /\ stream' = [stream EXCEPT ![v] = t]
      /\ UpdateSeq(v, n, persist, {n})
      /\ UNCHANGED <<high, failoverLog, checkpoints, meta, updates, handled, missed>>
  BY DEF DataUpdate, serverVars
<1>2. /\ DcpTypeOK /\ s \in Stream /\ s.seq \in Nat /\ seqs[v] \in Nat /\ meta[v].uuid \in Nat
      /\ s.snapStart \in Nat
      /\ checkpoints[v].uuid \in Nat /\ checkpoints[v].snapStart \in Nat
      /\ UuidsOK(v) /\ StreamOK(v)
      /\ Covers(v, meta[v].uuid, seqs[v], InCallback(v))
      /\ Covers(v, checkpoints[v].uuid, checkpoints[v].snapStart, {})
  BY VbFacts
<1>3. s.seq = seqs[v] /\ s.uuid = meta[v].uuid /\ s.snapStart <= s.seq /\ InCallback(v) = {}
  BY <1>1, <1>2 DEF StreamOK, InCallback
<1>4. n \in Nat /\ {n} \in SUBSET Nat
  BY <1>2
<1>5. Covers(v, meta[v].uuid, n, {n})
  <2>1. \A x \in 1..n : x \in 1..seqs[v] \/ x = n
    BY <1>2, <1>3
  <2> QED
    BY <1>2, <1>3, <2>1 DEF Covers
<1>6. /\ t \in Stream /\ t.pc = "callback" /\ t.seq = n /\ t.uuid = s.uuid
      /\ t.snapStart = s.snapStart
  BY <1>2, <1>4 DEF Stream
<1>7. s.snapStart <= n
  BY <1>2, <1>3
<1> HIDE DEF t, n
<1>8. /\ seqs' = [seqs EXCEPT ![v] = n]
      /\ backfillDoc'.seqs \in [FeedVbs -> Nat] /\ backfillDoc'.of \in [FeedVbs -> Nat]
      /\ running' \in [FeedVbs -> SUBSET Nat]
      /\ \A w \in FeedVbs : /\ backfillDoc'.of[w] <= Uuid(w)
                            /\ Covers(w, backfillDoc.of[w], backfillDoc.seqs[w], running[w])'
  BY <1>1, <1>4, <1>5, PersistedPositions
<1>9. /\ stream'[v] = t /\ \A w \in FeedVbs : w # v => stream'[w] = stream[w]
      /\ seqs'[v] = n /\ \A w \in FeedVbs : w # v => seqs'[w] = seqs[w]
  BY <1>1, <1>2, <1>8 DEF DcpTypeOK
<1>10. DcpTypeOK'
  BY <1>1, <1>2, <1>4, <1>6, <1>8 DEF DcpTypeOK
<1>11. StreamOK(v)'
  BY <1>1, <1>3, <1>6, <1>7, <1>9 DEF StreamOK
<1>12. InCallback(v)' = {n}
  BY <1>6, <1>9 DEF InCallback
<1>13. Covers(v, meta[v].uuid, seqs[v], InCallback(v))'
  BY <1>1, <1>2, <1>4, <1>5, <1>9, <1>12, CoversStays DEF Covers
<1>14. Covers(v, checkpoints[v].uuid, checkpoints[v].snapStart, {})'
  BY <1>1, <1>2, CoversStays DEF Covers
<1> QED
  BY <1>1, <1>2, <1>8, <1>9, <1>10, <1>11, <1>13, <1>14, StreamStep DEF UuidsOK

(* RollbackEx: the position goes back to the one the server asks for.      *)
LEMMA RollbackStep ==
    ASSUME DcpInd, NEW v \in FeedVbs, NEW rollbackSeq \in 0..MaxVbSeq[v],
           NEW persist \in BOOLEAN, NEW persisted \in BOOLEAN,
           RollbackEx(v, rollbackSeq, persist, persisted)
    PROVE  DcpInd'
<1> DEFINE m == [uuid |-> Uuid(v), snapStart |-> rollbackSeq, snapEnd |-> rollbackSeq]
<1>1. /\ stream[v].pc = "closed" /\ MustRollBack(v)
      /\ Kept(v, meta[v].uuid, rollbackSeq)
      /\ UpdateSeq(v, rollbackSeq, persist, {})
      /\ meta' = [meta EXCEPT ![v] = m]
      /\ checkpoints' = checkpoints \/ checkpoints' = [checkpoints EXCEPT ![v] = m]
      /\ UNCHANGED <<high, failoverLog, stream, handled, missed>>
  BY DEF RollbackEx, SetMetaData, serverVars
<1>2. /\ DcpTypeOK /\ Uuid(v) \in Nat /\ seqs[v] \in Nat /\ meta[v].uuid \in Nat
      /\ checkpoints[v].uuid \in Nat /\ checkpoints[v].snapStart \in Nat
      /\ UuidsOK(v)
      /\ Covers(v, meta[v].uuid, seqs[v], InCallback(v))
      /\ Covers(v, checkpoints[v].uuid, checkpoints[v].snapStart, {})
  BY VbFacts
<1>3. rollbackSeq \in Nat
  BY DcpAssumption
<1>4. \A x \in 1..rollbackSeq : Kept(v, meta[v].uuid, x)
  BY <1>1, <1>2, <1>3, KeptBefore
<1>5. rollbackSeq <= seqs[v]
  (* The receiver's position is not kept, and all before a kept one are.   *)
  <2>1. seqs[v] < rollbackSeq /\ seqs[v] # 0 => seqs[v] \in 1..rollbackSeq
    BY <1>2, <1>3
  <2>2. seqs[v] # 0
    <3>1. Kept(v, meta[v].uuid, 0)
      <4>1. \A i \in 1..Uuid(v) : failoverLog[v][i] \in Nat
        BY <1>2 DEF DcpTypeOK, Uuid
      <4> QED
        BY <4>1 DEF Kept
    <3> QED
      BY <1>1, <3>1 DEF MustRollBack
  <2> QED
    BY <1>1, <1>2, <1>3, <1>4, <2>1, <2>2 DEF MustRollBack
<1>6. \A x \in 1..rollbackSeq : x \in handled[v] \cup missed[v]
  <2>1. InCallback(v) = {}
    BY <1>1 DEF InCallback
  <2>2. \A x \in 1..rollbackSeq : x \in 1..seqs[v]
    BY <1>2, <1>3, <1>5
  <2> QED
    BY <1>2, <1>4, <2>1, <2>2 DEF Covers
<1>7. Covers(v, meta[v].uuid, rollbackSeq, {})
  BY <1>6 DEF Covers
<1>8. /\ seqs' = [seqs EXCEPT ![v] = rollbackSeq]
      /\ backfillDoc'.seqs \in [FeedVbs -> Nat] /\ backfillDoc'.of \in [FeedVbs -> Nat]
      /\ running' \in [FeedVbs -> SUBSET Nat]
      /\ \A w \in FeedVbs : /\ backfillDoc'.of[w] <= Uuid(w)
                            /\ Covers(w, backfillDoc.of[w], backfillDoc.seqs[w], running[w])'
  BY <1>1, <1>3, <1>7, PersistedPositions
<1>9. m \in Meta /\ m.uuid = Uuid(v) /\ m.snapStart = rollbackSeq /\ "uuid" \in DOMAIN m
  BY <1>2, <1>3 DEF Meta
<1> HIDE DEF m
<1>10. /\ meta'[v] = m /\ \A w \in FeedVbs : w # v => meta'[w] = meta[w]
       /\ meta' = [w \in FeedVbs |-> meta'[w]]
       /\ seqs'[v] = rollbackSeq /\ \A w \in FeedVbs : w # v => seqs'[w] = seqs[w]
       /\ checkpoints'[v] = m \/ checkpoints'[v] = checkpoints[v]
       /\ \A w \in FeedVbs : w # v => checkpoints'[w] = checkpoints[w]
  BY <1>1, <1>2, <1>8 DEF DcpTypeOK
<1>11. DcpTypeOK'
  <2>1. \A w \in FeedVbs : "uuid" \in DOMAIN meta'[w] /\ meta'[w].uuid \in Nat
    BY <1>2, <1>9, <1>10 DEF DcpTypeOK
  <2>2. seqs' \in [FeedVbs -> Nat] /\ checkpoints' \in [FeedVbs -> Meta]
    BY ZenonT(30), <1>1, <1>2, <1>3, <1>8, <1>9 DEF DcpTypeOK
  <2> QED
    BY <1>1, <1>2, <1>8, <1>10, <2>1, <2>2 DEF DcpTypeOK
<1>12. StreamOK(v)'
  BY <1>1 DEF StreamOK
<1>13. Covers(v, meta[v].uuid, seqs[v], InCallback(v))'
  BY <1>1, <1>6, <1>10 DEF Covers
<1>14. Covers(v, checkpoints[v].uuid, checkpoints[v].snapStart, {})'
  <2>1. CASE checkpoints'[v] = m
    BY <1>1, <1>6, <1>9, <2>1 DEF Covers
  <2>2. CASE checkpoints'[v] = checkpoints[v]
    BY <1>1, <1>2, <2>2, CoversStays DEF Covers
  <2> QED
    BY <1>10, <2>1, <2>2
<1>15. meta'[v].uuid <= Uuid(v) /\ checkpoints'[v].uuid <= Uuid(v)
  BY <1>2, <1>9, <1>10 DEF UuidsOK
<1> QED
  BY <1>1, <1>8, <1>10, <1>11, <1>12, <1>13, <1>14, <1>15, StreamStep

(* The callback has processed the mutation.                                *)
LEMMA CallbackStep ==
    ASSUME DcpInd, NEW v \in FeedVbs, NEW counts \in BOOLEAN, CallbackReturns(v, counts)
    PROVE  DcpInd'
<1> DEFINE s == stream[v]
           t == [s EXCEPT !.pc = "open"]
<1>1. /\ s.pc = "callback"
      /\ handled' = IF Kept(v, s.uuid, s.seq) THEN [handled EXCEPT ![v] = @ \cup {s.seq}]
                    ELSE handled
      /\ stream' = [stream EXCEPT ![v] = t] \/ stream' = [stream EXCEPT ![v] = ClosedStream]
      /\ UNCHANGED <<high, failoverLog, checkpoints, backfillDoc, seqs, meta, running,
                     missed>>
  BY DEF CallbackReturns, serverVars
<1>2. /\ DcpTypeOK /\ s \in Stream /\ s.seq \in Nat /\ seqs[v] \in Nat /\ meta[v].uuid \in Nat
      /\ checkpoints[v].uuid \in Nat /\ checkpoints[v].snapStart \in Nat
      /\ UuidsOK(v) /\ StreamOK(v)
      /\ Covers(v, meta[v].uuid, seqs[v], InCallback(v))
      /\ Covers(v, checkpoints[v].uuid, checkpoints[v].snapStart, {})
  BY VbFacts
<1>3. /\ t \in Stream /\ t.pc = "open" /\ t.seq = s.seq /\ t.uuid = s.uuid
      /\ t.snapStart = s.snapStart
  BY <1>2 DEF Stream
<1>4. ClosedStream \in Stream /\ ClosedStream.pc = "closed"
  BY DEF ClosedStream, Stream
<1> HIDE DEF t
<1>5. /\ stream'[v] = t \/ stream'[v] = ClosedStream
      /\ \A w \in FeedVbs : w # v => stream'[w] = stream[w]
      /\ stream' \in [FeedVbs -> Stream]
  BY ZenonT(30), <1>1, <1>2, <1>3, <1>4 DEF DcpTypeOK
<1>6. /\ handled' \in [FeedVbs -> SUBSET Nat]
      /\ \A w \in FeedVbs : handled[w] \subseteq handled'[w]
      /\ Kept(v, s.uuid, s.seq) => s.seq \in handled'[v]
  BY <1>1, <1>2 DEF DcpTypeOK
<1>7. DcpTypeOK'
  BY <1>1, <1>2, <1>5, <1>6 DEF DcpTypeOK
<1>8. StreamOK(v)'
  BY <1>1, <1>2, <1>3, <1>4, <1>5 DEF StreamOK
<1>9. Covers(v, meta[v].uuid, seqs[v], InCallback(v))'
  <2>1. s.uuid = meta[v].uuid /\ InCallback(v) = {s.seq}
    BY <1>1, <1>2 DEF StreamOK, InCallback
  <2>2. \A x \in 1..seqs[v] : Kept(v, meta[v].uuid, x) => x \in handled'[v] \cup missed'[v]
    BY <1>1, <1>2, <1>6, <2>1 DEF Covers
  <2>3. \A x \in Nat : Kept(v, meta[v].uuid, x)' <=> Kept(v, meta[v].uuid, x)
    BY <1>1 DEF Kept, Uuid
  <2> QED
    BY <1>1, <1>2, <2>2, <2>3 DEF Covers
<1>10. Covers(v, checkpoints[v].uuid, checkpoints[v].snapStart, {})'
  BY ZenonT(30), <1>1, <1>2, <1>6, CoversStays DEF Covers
<1>11. \A w \in FeedVbs : /\ backfillDoc'.of[w] <= Uuid(w)
                          /\ Covers(w, backfillDoc.of[w], backfillDoc.seqs[w], running[w])'
  BY <1>1, <1>6, DocumentStays
<1> QED
  BY <1>1, <1>2, <1>5, <1>6, <1>7, <1>8, <1>9, <1>10, <1>11, StreamStep DEF UuidsOK

(* Where a feed resumes.                                                   *)
LEMMA StartPosition ==
    ASSUME DcpInd, NEW v \in FeedVbs
    PROVE  /\ StartSeq(v) \in Nat
           /\ FromBackfill(v) =>
                  \A s \in 1..StartSeq(v) : s \in handled[v] \cup missed[v] \cup RacedBy(v)
           /\ ~FromBackfill(v) => StartSeq(v) = checkpoints[v].snapStart
<1>1. /\ DcpTypeOK /\ checkpoints[v].snapStart \in Nat
      /\ backfillDoc.of[v] \in Nat /\ backfillDoc.seqs[v] \in Nat
      /\ Covers(v, backfillDoc.of[v], backfillDoc.seqs[v], running[v])
  BY VbFacts DEF DcpInd, DcpTypeOK
<1>2. PartialBackfill(v) \in {0, backfillDoc.seqs[v]}
  BY DEF PartialBackfill
<1>3. CASE FromBackfill(v)
  <2>1. StartSeq(v) = backfillDoc.seqs[v] /\ PartialBackfill(v) = backfillDoc.seqs[v]
    BY <1>1, <1>2, <1>3 DEF StartSeq, FromBackfill
  <2>2. CASE Kept(v, backfillDoc.of[v], PartialBackfill(v))
    <3>1. \A s \in 1..backfillDoc.seqs[v] : Kept(v, backfillDoc.of[v], s)
      BY <1>1, <2>1, <2>2, KeptBefore
    <3>2. RacedBy(v) = running[v]
      BY <1>3, <2>2 DEF RacedBy
    <3> QED
      BY <1>1, <1>3, <2>1, <3>1, <3>2 DEF Covers
  <2>3. CASE ~Kept(v, backfillDoc.of[v], PartialBackfill(v))
    BY <1>1, <1>3, <2>1, <2>3 DEF RacedBy
  <2> QED
    BY <2>2, <2>3
<1>4. CASE ~FromBackfill(v)
  BY <1>1, <1>4 DEF StartSeq
<1> QED
  BY <1>3, <1>4

(* The process restarts, from the persisted positions or from those of a   *)
(* backfill.                                                               *)
LEMMA RestartStep ==
    ASSUME DcpInd, Restart
    PROVE  DcpInd'
<1>1. /\ seqs' = [v \in FeedVbs |-> StartSeq(v)]
      /\ meta' = [v \in FeedVbs |->
                     IF FromBackfill(v)
                     THEN [uuid |-> Uuid(v), snapStart |-> backfillDoc.snapStart[v],
                           snapEnd |-> backfillDoc.snapEnd[v]]
                     ELSE checkpoints[v]]
      /\ stream' = [v \in FeedVbs |-> ClosedStream]
      /\ missed' = [v \in FeedVbs |-> missed[v] \cup (RacedBy(v) \ handled[v])]
      /\ UNCHANGED <<high, failoverLog, checkpoints, backfillDoc, handled, running>>
  BY DEF Restart, serverVars
<1>2. ClosedStream \in Stream /\ ClosedStream.pc = "closed"
  BY DEF ClosedStream, Stream
<1>3. \A v \in FeedVbs : /\ FromBackfill(v) => /\ "uuid" \in DOMAIN meta'[v]
                                               /\ meta'[v].uuid = Uuid(v)
                         /\ ~FromBackfill(v) => meta'[v] = checkpoints[v]
                         /\ seqs'[v] = StartSeq(v) /\ stream'[v] = ClosedStream
  BY <1>1
<1>4. \A v \in FeedVbs : RacedBy(v) \in SUBSET Nat
  <2> TAKE v \in FeedVbs
  <2>1. running[v] \in SUBSET Nat /\ \A x : 1..x \in SUBSET Nat
    BY DEF DcpInd, DcpTypeOK
  <2> QED
    BY <2>1 DEF RacedBy
<1>5. \A v \in FeedVbs : /\ missed'[v] = missed[v] \cup (RacedBy(v) \ handled[v])
                         /\ missed[v] \subseteq missed'[v]
  BY <1>1
<1>6. DcpTypeOK'
  <2>0. DcpTypeOK
    BY DEF DcpInd
  <2>1. seqs' \in [FeedVbs -> Nat]
    BY <1>1, StartPosition
  <2>2. \A v \in FeedVbs : "uuid" \in DOMAIN meta'[v] /\ meta'[v].uuid \in Nat
    <3> TAKE v \in FeedVbs
    <3>1. checkpoints[v] \in Meta /\ Uuid(v) \in Nat
      BY VbFacts
    <3> QED
      BY <1>3, <3>1 DEF Meta
  <2>3. meta' = [v \in FeedVbs |-> meta'[v]]
    BY <1>1
  <2>4. missed' \in [FeedVbs -> SUBSET Nat]
    BY <1>1, <1>4, <2>0 DEF DcpTypeOK
  <2>5. stream' \in [FeedVbs -> Stream]
    BY <1>1, <1>2
  <2> QED
    BY <1>1, <2>0, <2>1, <2>2, <2>3, <2>4, <2>5 DEF DcpTypeOK
<1>7. \A v \in FeedVbs : /\ backfillDoc'.of[v] <= Uuid(v)
                         /\ Covers(v, backfillDoc.of[v], backfillDoc.seqs[v], running[v])'
  BY <1>1, <1>5, DocumentStays
<1>8. ASSUME NEW v \in FeedVbs
      PROVE  /\ UuidsOK(v)' /\ StreamOK(v)'
             /\ Covers(v, meta[v].uuid, seqs[v], InCallback(v))'
             /\ Covers(v, checkpoints[v].uuid, checkpoints[v].snapStart, {})'
  <2>1. /\ DcpTypeOK /\ Uuid(v) \in Nat /\ UuidsOK(v)
        /\ checkpoints[v].uuid \in Nat /\ checkpoints[v].snapStart \in Nat
        /\ Covers(v, checkpoints[v].uuid, checkpoints[v].snapStart, {})
    BY VbFacts
  <2>2. UuidsOK(v)'
    <3>1. Uuid(v)' = Uuid(v)
      BY <1>1 DEF Uuid
    <3> QED
      BY <1>1, <1>3, <2>1, <3>1 DEF UuidsOK
  <2>3. StreamOK(v)'
    BY <1>2, <1>3 DEF StreamOK
  <2>4. Covers(v, checkpoints[v].uuid, checkpoints[v].snapStart, {})'
    BY <1>1, <1>5, <2>1, CoversStays DEF Covers
  <2>5. Covers(v, meta[v].uuid, seqs[v], InCallback(v))'
    <3>1. CASE FromBackfill(v)
      <4>1. \A s \in 1..StartSeq(v) : s \in handled'[v] \cup missed'[v]
        BY <1>1, <1>5, <3>1, StartPosition
      <4> QED
        BY <1>3, <4>1 DEF Covers
    <3>2. CASE ~FromBackfill(v)
      <4>1. seqs'[v] = checkpoints'[v].snapStart /\ meta'[v].uuid = checkpoints'[v].uuid
        BY <1>1, <1>3, <3>2, StartPosition
      <4> QED
        BY <2>4, <4>1 DEF Covers
    <3> QED
      BY <3>1, <3>2
  <2> QED
    BY <2>2, <2>3, <2>4, <2>5
<1> QED
  BY <1>6, <1>7, <1>8 DEF DcpInd

----------------------------------------------------------------------------
(* For any vbuckets, mutations, snapshots, failovers, rollbacks, errors    *)
(* and restarts in any order: initMetadata resumes from a position that    *)
(* has only handled mutations before it, except the ones in their callback *)
(* when the positions of the backfill were persisted and those of a branch *)
(* the server has dropped.                                                 *)
THEOREM FeedMissesNothing == DcpSpec => []FeedComplete
<1>1. DcpInit => DcpInd
  <2> SUFFICES ASSUME DcpInit PROVE DcpInd
    OBVIOUS
  <2>1. /\ Zeros \in [FeedVbs -> Nat] /\ \A v \in FeedVbs : Zeros[v] = 0
        /\ NoMeta \in Meta /\ NoMeta.uuid = 0 /\ NoMeta.snapStart = 0
        /\ "uuid" \in DOMAIN NoMeta
        /\ ClosedStream \in Stream /\ ClosedStream.pc = "closed"
        /\ NoBackfillDoc.seqs = Zeros /\ NoBackfillDoc.of = Zeros
    BY DEF Zeros, NoMeta, Meta, ClosedStream, Stream, NoBackfillDoc
  <2>2. DcpTypeOK
    <3>1. failoverLog \in [FeedVbs -> Seq(Nat)]
      BY DEF DcpInit
    <3>2. /\ checkpoints \in [FeedVbs -> Meta] /\ stream \in [FeedVbs -> Stream]
          /\ \A v \in FeedVbs : meta[v] = NoMeta
          /\ meta = [v \in FeedVbs |-> meta[v]]
      BY <2>1 DEF DcpInit
    <3> QED
      BY <2>1, <3>1, <3>2 DEF DcpInit, DcpTypeOK
  <2>3. ASSUME NEW v \in FeedVbs
        PROVE  /\ UuidsOK(v) /\ StreamOK(v)
               /\ Covers(v, meta[v].uuid, seqs[v], InCallback(v))
               /\ Covers(v, checkpoints[v].uuid, checkpoints[v].snapStart, {})
               /\ Covers(v, backfillDoc.of[v], backfillDoc.seqs[v], running[v])
    <3>1. /\ meta[v].uuid = 0 /\ checkpoints[v].uuid = 0 /\ checkpoints[v].snapStart = 0
          /\ backfillDoc.of[v] = 0 /\ backfillDoc.seqs[v] = 0 /\ seqs[v] = 0
          /\ stream[v].pc = "closed"
      BY <2>1 DEF DcpInit
    <3>2. Uuid(v) = 0
      BY DEF DcpInit, Uuid
    <3> QED
      BY <3>1, <3>2 DEF UuidsOK, StreamOK, Covers
  <2> QED
    BY <2>2, <2>3 DEF DcpInd
<1>2. DcpInd /\ [DcpNext]_dcpVars => DcpInd'
  <2> SUFFICES ASSUME DcpInd, [DcpNext]_dcpVars PROVE DcpInd'
    OBVIOUS
  <2>1. CASE UNCHANGED dcpVars
    <3>1. UNCHANGED <<high, failoverLog, checkpoints, backfillDoc, seqs, meta, stream,
                      handled, running, missed>>
      BY <2>1 DEF dcpVars, serverVars, receiverVars
    <3>2. DcpTypeOK'
      BY <3>1 DEF DcpInd, DcpTypeOK
    <3>3. \A v \in FeedVbs :
              /\ UuidsOK(v) => UuidsOK(v)'
              /\ StreamOK(v) => StreamOK(v)'
              /\ Covers(v, meta[v].uuid, seqs[v], InCallback(v)) =>
                     Covers(v, meta[v].uuid, seqs[v], InCallback(v))'
              /\ Covers(v, checkpoints[v].uuid, checkpoints[v].snapStart, {}) =>
                     Covers(v, checkpoints[v].uuid, checkpoints[v].snapStart, {})'
              /\ Covers(v, backfillDoc.of[v], backfillDoc.seqs[v], running[v]) =>
                     Covers(v, backfillDoc.of[v], backfillDoc.seqs[v], running[v])'
      BY <3>1 DEF UuidsOK, StreamOK, Covers, Kept, Uuid, InCallback
    <3> QED
      BY <3>2, <3>3 DEF DcpInd
  <2> QED
    BY <2>1, RestartStep, MutationStep, OpenStreamStep, SnapshotStartStep, StreamErrorStep,
       FailoverStep, RollbackStep, SaveSnapshotStep, DataUpdateStep, CallbackStep
       DEF DcpNext
<1>3. DcpInd => FeedComplete
  <2> SUFFICES ASSUME DcpInd, NEW v \in FeedVbs
               PROVE  /\ \/ ~FromBackfill(v) /\ ~Kept(v, checkpoints[v].uuid, StartSeq(v))
                         \/ \A s \in 1..StartSeq(v) :
                                s \in handled[v] \cup missed[v] \cup RacedBy(v)
                      /\ \/ MustRollBack(v)
                         \/ \A s \in 1..seqs[v] :
                                s \in handled[v] \cup missed[v] \cup InCallback(v)
    BY DEF FeedComplete
  <2>1. /\ DcpTypeOK /\ seqs[v] \in Nat /\ meta[v].uuid \in Nat
        /\ checkpoints[v].uuid \in Nat /\ checkpoints[v].snapStart \in Nat
        /\ Covers(v, meta[v].uuid, seqs[v], InCallback(v))
        /\ Covers(v, checkpoints[v].uuid, checkpoints[v].snapStart, {})
    BY VbFacts
  <2>2. Kept(v, meta[v].uuid, seqs[v]) => \A s \in 1..seqs[v] : Kept(v, meta[v].uuid, s)
    BY <2>1, KeptBefore
  <2>3. Kept(v, checkpoints[v].uuid, checkpoints[v].snapStart) =>
            \A s \in 1..checkpoints[v].snapStart : Kept(v, checkpoints[v].uuid, s)
    BY <2>1, KeptBefore
  <2>4. \/ MustRollBack(v)
        \/ \A s \in 1..seqs[v] : s \in handled[v] \cup missed[v] \cup InCallback(v)
    BY <2>1, <2>2 DEF MustRollBack, Covers
  <2>5. ~FromBackfill(v) /\ Kept(v, checkpoints[v].uuid, StartSeq(v)) =>
            \A s \in 1..StartSeq(v) : s \in handled[v] \cup missed[v]
    BY <2>1, <2>3, StartPosition DEF Covers
  <2> QED
    BY <2>4, <2>5, StartPosition
<1>4. QED
  BY <1>1, <1>2, <1>3, PTL DEF DcpSpec

=============================================================================
