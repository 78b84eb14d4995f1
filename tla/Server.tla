------------------------------- MODULE Server -------------------------------
(***************************************************************************)
(* The life of a database in a gateway (rest/server_context.go, the        *)
(* lifecycle of db/database.go, the request wrapper of rest/handler.go and *)
(* the administrator's operations of rest/admin_api.go and rest/api.go).   *)
(*                                                                         *)
(* A database is served by a context, found by name in the server's        *)
(* registry.  A context is never reopened: bringing a database online      *)
(* closes its context and loads a new one from the configuration.  Each    *)
(* context has an AccessLock, which requests hold for reading while they   *)
(* run, and a State which is changed by compare-and-swap and by plain      *)
(* stores.  The registry has a lock of its own.                            *)
(*                                                                         *)
(* One database name is modelled.  A task is a goroutine: a request, or    *)
(* the callback of a dropped mutation feed.  Loading a context is one step *)
(* under the registry's lock, with the outcomes the loader can have.       *)
(***************************************************************************)
EXTENDS Integers, Sequences, FiniteSets

CONSTANTS
    Tasks,
    NoTask,         \* not a task
    ConfigServer,   \* is there a configuration server to ask for a database?
    MaxContexts,    \* bound: contexts loaded
    MaxTasks        \* bound: tasks started

ASSUME ServerAssumption ==
    /\ NoTask \notin Tasks /\ ConfigServer \in BOOLEAN
    /\ MaxContexts \in Nat \ {0} /\ MaxTasks \in Nat

VARIABLES
    registry,      \* databases_[name]: the context, or None
    lock,          \* the task that holds sc.lock between two steps
    ctx,           \* the contexts loaded so far, each with its AccessLock
    startOffline,  \* StartOffline of the stored configuration
    task,          \* [Tasks -> local state]
    tasks,         \* tasks started
    yanked,        \* history: contexts closed without their AccessLock
    overridden     \* history: contexts whose state TakeDbOnline overwrote

vars == <<registry, lock, ctx, startOffline, task, tasks, yanked, overridden>>
contextVars == <<ctx, yanked, overridden>>

None == 0
Contexts == DOMAIN ctx

(* Requests that hold the AccessLock while they run, administrators'       *)
(* requests, which run whatever the state is, and the feed's callback.     *)
Served == {"op", "changes", "blipsync", "flush"}
Admin == {"online", "offline", "resync", "delete", "config"}
Kinds == Served \cup Admin \cup {"create", "drop"}

NewTask(kind, c) ==
    [pc |-> "act", kind |-> kind, ctx |-> c, reloaded |-> None, loadedAs |-> "Offline", took |-> FALSE]
Idle == [NewTask("op", None) EXCEPT !.pc = "idle"]

(* DatabaseContext: exits counts the close calls on its ExitChanges.       *)
NewContext(state) ==
    [state |-> state, open |-> TRUE, exits |-> 0, readers |-> {}, writer |-> NoTask]

(* The variables hold values the fields of the code can have.              *)
TypeOK ==
    /\ Len(ctx) <= MaxContexts
    /\ registry \in Contexts \cup {None}
    /\ lock \in Tasks \cup {NoTask}
    /\ \A c \in Contexts : ctx[c] \in
         [state : {"Offline", "Starting", "Online", "Stopping", "Resyncing"}, open : BOOLEAN,
          exits : 0..MaxTasks, readers : SUBSET Tasks, writer : Tasks \cup {NoTask}]
    /\ startOffline \in BOOLEAN
    /\ task \in [Tasks ->
         [pc : {"idle", "act", "rlock", "run", "offlineLock", "offlineWait", "refresh", "timer", "onlineWait",
                "reload", "load", "force", "resync", "reconnect", "add"},
          kind : Kinds, ctx : Contexts \cup {None}, reloaded : Contexts \cup {None},
          loadedAs : {"Offline", "Online"}, took : BOOLEAN]]
    /\ tasks \in 0..MaxTasks
    /\ yanked \subseteq Contexts /\ overridden \subseteq Contexts

Init ==
    /\ startOffline \in BOOLEAN
    /\ ctx = <<NewContext(IF startOffline THEN "Offline" ELSE "Online")>>
    /\ registry = 1 /\ lock = NoTask
    /\ task = [t \in Tasks |-> Idle] /\ tasks = 0
    /\ yanked = {} /\ overridden = {}

-----------------------------------------------------------------------------
(* The AccessLock, Go's RWMutex: a writer announces itself, which keeps    *)
(* new readers and writers out, and waits for the readers inside.          *)

Goto(t, pc) == task' = [task EXCEPT ![t].pc = pc]
End(t) == task' = [task EXCEPT ![t] = Idle]

Running(c) == {t \in ctx[c].readers : task[t].pc # "idle"}
CanRLock(c) == ctx[c].writer = NoTask
RUnlocked(t, c) == [ctx EXCEPT ![c].readers = @ \ {t}]

Announce(t, c) ==
    /\ ctx[c].writer = NoTask
    /\ ctx' = [ctx EXCEPT ![c].writer = t]

(* Mutant: the writer does not wait for readers.                           *)
CanLockAtOnce(c) == TRUE

(* AccessLock is free once its readers have left.                          *)
CanLock(c) == ctx[c].readers = {}

Unlocked(c) == [ctx EXCEPT ![c].writer = NoTask]

-----------------------------------------------------------------------------
(* The registry.                                                           *)

(* A request finds its context; without one, a configuration server may    *)
(* know the database.                                                      *)
GetDatabase(t, kind) ==
    /\ task[t].pc = "idle" /\ tasks < MaxTasks /\ lock = NoTask
    /\ \/ registry # None
          /\ task' = [task EXCEPT ![t] =
                [NewTask(kind, registry) EXCEPT !.pc = IF kind \in Served THEN "rlock" ELSE "act"]]
       \/ registry = None /\ ConfigServer
          /\ task' = [task EXCEPT ![t] = [NewTask(kind, None) EXCEPT !.pc = "add"]]
    /\ tasks' = tasks + 1
    /\ UNCHANGED <<registry, lock, startOffline, contextVars>>

(* handleCreateDB: no context to look up.                                  *)
CreateDB(t) ==
    /\ task[t].pc = "idle" /\ tasks < MaxTasks
    /\ task' = [task EXCEPT ![t] = [NewTask("create", None) EXCEPT !.pc = "add"]]
    /\ tasks' = tasks + 1
    /\ UNCHANGED <<registry, lock, startOffline, contextVars>>

(* Close the context that is registered and forget it, without taking its  *)
(* AccessLock.                                                             *)
RemoveDatabase(cs) == IF registry = None THEN cs ELSE [cs EXCEPT ![registry].open = FALSE]

(* Load a context from the configuration.  An error after the context was  *)
(* made (sync function, principals, event handlers) leaves it open,        *)
(* unregistered and with its feed running; an earlier one leaves nothing.  *)
(* At the bound every load fails early.                                    *)
LoadedState == IF startOffline THEN "Offline" ELSE "Online"

LoadFromConfig(cs) ==
    /\ Len(ctx) < MaxContexts
    /\ ctx' = Append(cs, NewContext(LoadedState))
    /\ registry' = Len(cs) + 1

LoadFails(cs) ==
    /\ registry' = None
    /\ \/ ctx' = cs
       \/ Len(ctx) < MaxContexts /\ ctx' = Append(cs, NewContext("Offline"))

(* _getOrAddDatabaseFromConfig for a request that is looking its database  *)
(* up, for handleCreateDB and for the end of handleFlush.                  *)
AddDatabase(t) ==
    LET looking == task[t].kind # "create" /\ task[t].ctx = None
        found(c) == [task EXCEPT ![t].ctx = c, ![t].pc = IF task[t].kind \in Served THEN "rlock" ELSE "act"]
        released == IF task[t].ctx = None THEN ctx ELSE RUnlocked(t, task[t].ctx)
    IN
    /\ task[t].pc = "add" /\ lock = NoTask
    /\ \/ /\ registry # None /\ looking
          /\ task' = found(registry)
          /\ UNCHANGED <<ctx, registry>>
       \/ /\ registry # None /\ ~looking   \* duplicate database name
          /\ ctx' = released
          /\ End(t) /\ UNCHANGED registry
       \/ /\ registry = None
          /\ LoadFromConfig(released)
          /\ IF looking THEN task' = found(registry') ELSE End(t)
       \/ registry = None /\ LoadFails(released) /\ End(t)
    /\ UNCHANGED <<lock, startOffline, tasks, yanked, overridden>>

-----------------------------------------------------------------------------
(* Requests that hold the AccessLock.                                      *)

(* invoke: take the lock for reading, then look at the state.              *)
Enter(t) ==
    LET c == task[t].ctx IN
    /\ task[t].pc = "rlock" /\ CanRLock(c)
    /\ IF ctx[c].state = "Online"
       THEN ctx' = [ctx EXCEPT ![c].readers = @ \cup {t}] /\ Goto(t, "run")
       ELSE End(t) /\ UNCHANGED ctx
    /\ UNCHANGED <<registry, lock, startOffline, tasks, yanked, overridden>>

Leave(t, kinds) ==
    /\ task[t].pc = "run" /\ task[t].kind \in kinds
    /\ ctx' = RUnlocked(t, task[t].ctx)
    /\ End(t)
    /\ UNCHANGED <<registry, lock, startOffline, tasks, yanked, overridden>>

(* An ordinary request ends by itself, a changes feed when ExitChanges is  *)
(* closed, and both kinds of feed when the client goes away.               *)
FinishOp(t) == Leave(t, {"op"})
FeedExits(t) == task[t].pc = "run" /\ ctx[task[t].ctx].exits > 0 /\ Leave(t, {"changes"})
ClientLeaves(t) == Leave(t, {"changes", "blipsync"})

(* handleFlush runs as a request: it removes its own database, flushes the *)
(* bucket over another connection, which may fail, and adds the database   *)
(* again.                                                                  *)
FlushRemove(t) ==
    /\ task[t].pc = "run" /\ task[t].kind = "flush" /\ lock = NoTask
    /\ ctx' = RemoveDatabase(ctx)
    /\ yanked' = yanked \cup ({registry} \ {None}) /\ registry' = None
    /\ Goto(t, "reconnect")
    /\ UNCHANGED <<lock, startOffline, tasks, overridden>>

FlushBucket(t) ==
    /\ task[t].pc = "reconnect"
    /\ \/ Goto(t, "add") /\ UNCHANGED ctx
       \/ End(t) /\ ctx' = RUnlocked(t, task[t].ctx)
    /\ UNCHANGED <<registry, lock, startOffline, tasks, yanked, overridden>>

-----------------------------------------------------------------------------
(* Taking a database offline.                                              *)

(* The mutation feed of a context drops.  Its own callback names that      *)
(* context; the bucket's callback names the one registered now, whose lock *)
(* it does not take.                                                       *)
FeedDrops(t) ==
    /\ task[t].pc = "idle" /\ tasks < MaxTasks
    /\ \E c \in Contexts :
         /\ ctx[c].open \/ c = registry
         /\ task' = [task EXCEPT ![t] = NewTask("drop", c)]
    /\ tasks' = tasks + 1
    /\ UNCHANGED <<registry, lock, startOffline, contextVars>>

(* The callback goes on to reconnect when TakeDbOffline reports no error.  *)
AfterOffline(t) == IF task[t].kind = "drop" THEN Goto(t, "refresh") ELSE End(t)

TakeDbOffline(t) ==
    LET c == task[t].ctx IN
    /\ task[t].pc = "act" /\ task[t].kind \in {"offline", "drop"}
    /\ \/ /\ ctx[c].state \in {"Offline", "Resyncing", "Stopping"}
          /\ AfterOffline(t) /\ UNCHANGED ctx
       \/ /\ ctx[c].state = "Online"
          /\ ctx' = [ctx EXCEPT ![c].state = "Stopping", ![c].exits = @ + 1]
          /\ task' = [task EXCEPT ![t].pc = "offlineLock", ![t].took = TRUE]
       \/ ctx[c].state = "Starting" /\ End(t) /\ UNCHANGED ctx
    /\ UNCHANGED <<registry, lock, startOffline, tasks, yanked, overridden>>

OfflineLock(t) ==
    /\ task[t].pc = "offlineLock" /\ Announce(t, task[t].ctx)
    /\ Goto(t, "offlineWait")
    /\ UNCHANGED <<registry, lock, startOffline, tasks, yanked, overridden>>

SetOffline(t) ==
    LET c == task[t].ctx IN
    /\ task[t].pc = "offlineWait" /\ CanLock(c)
    /\ ctx' = [Unlocked(c) EXCEPT ![c].state = "Offline"]
    /\ AfterOffline(t)
    /\ UNCHANGED <<registry, lock, startOffline, tasks, yanked, overridden>>

(* The retry loop: a context whose bucket is gone is left alone.           *)
RefreshBucket(t) ==
    /\ task[t].pc = "refresh"
    /\ \/ ctx[task[t].ctx].open /\ Goto(t, "timer")
       \/ End(t)
    /\ UNCHANGED <<registry, lock, startOffline, tasks, contextVars>>

-----------------------------------------------------------------------------
(* Bringing a database online.                                             *)

(* handleDbOnline answers at once and leaves a timer behind.               *)
HandleDbOnline(t) ==
    /\ task[t].pc = "act" /\ task[t].kind = "online"
    /\ IF ctx[task[t].ctx].state \in {"Online", "Starting", "Resyncing"} THEN End(t) ELSE Goto(t, "timer")
    /\ UNCHANGED <<registry, lock, startOffline, tasks, contextVars>>

TimerFires(t) ==
    /\ task[t].pc = "timer" /\ Announce(t, task[t].ctx)
    /\ Goto(t, "onlineWait")
    /\ UNCHANGED <<registry, lock, startOffline, tasks, yanked, overridden>>

(* TakeDbOnline of the context that was found when the timer was set.      *)
TakeDbOnline(t) ==
    LET c == task[t].ctx IN
    /\ task[t].pc = "onlineWait" /\ CanLock(c)
    /\ IF ctx[c].state = "Offline"
       THEN ctx' = [ctx EXCEPT ![c].state = "Starting"] /\ Goto(t, "reload")
       ELSE ctx' = Unlocked(c) /\ End(t)
    /\ UNCHANGED <<registry, lock, startOffline, tasks, yanked, overridden>>

(* ReloadDatabaseFromConfig: remove whatever is registered under the name, *)
(* and load.  An error leaves the database unknown to the gateway.         *)
ReloadRemove(t) ==
    /\ task[t].pc = "reload" /\ lock = NoTask
    /\ lock' = t
    /\ ctx' = RemoveDatabase(ctx)
    /\ yanked' = yanked \cup ({registry} \ {None, task[t].ctx}) /\ registry' = None
    /\ Goto(t, "load")
    /\ UNCHANGED <<startOffline, tasks, overridden>>

ReloadLoad(t) ==
    /\ task[t].pc = "load" /\ lock = t
    /\ lock' = NoTask
    /\ \/ LoadFails(Unlocked(task[t].ctx)) /\ End(t)
       \/ /\ LoadFromConfig(ctx)
          /\ task' = [task EXCEPT ![t].pc = "force", ![t].reloaded = registry', ![t].loadedAs = LoadedState]
    /\ UNCHANGED <<startOffline, tasks, yanked, overridden>>

(* The new context is visible to everybody before its state is stored.     *)
ForceOnline(t) ==
    LET n == task[t].reloaded IN
    /\ task[t].pc = "force"
    /\ ctx' = [Unlocked(task[t].ctx) EXCEPT ![n].state = "Online"]
    /\ overridden' = IF ctx[n].state = task[t].loadedAs THEN overridden ELSE overridden \cup {n}
    /\ End(t)
    /\ UNCHANGED <<registry, lock, startOffline, tasks, yanked>>

-----------------------------------------------------------------------------
(* Other operations of the administrator.                                  *)

HandleResync(t) ==
    LET c == task[t].ctx IN
    /\ task[t].pc = "act" /\ task[t].kind = "resync"
    /\ IF ctx[c].state = "Offline"
       THEN ctx' = [ctx EXCEPT ![c].state = "Resyncing"] /\ Goto(t, "resync")
       ELSE End(t) /\ UNCHANGED ctx
    /\ UNCHANGED <<registry, lock, startOffline, tasks, yanked, overridden>>

ResyncDone(t) ==
    LET c == task[t].ctx IN
    /\ task[t].pc = "resync"
    /\ ctx' = [ctx EXCEPT ![c].state = IF @ = "Resyncing" THEN "Offline" ELSE @]
    /\ End(t)
    /\ UNCHANGED <<registry, lock, startOffline, tasks, yanked, overridden>>

HandleDeleteDB(t) ==
    /\ task[t].pc = "act" /\ task[t].kind = "delete" /\ lock = NoTask
    /\ ctx' = RemoveDatabase(ctx)
    /\ yanked' = yanked \cup ({registry} \ {None}) /\ registry' = None
    /\ End(t)
    /\ UNCHANGED <<lock, startOffline, tasks, overridden>>

HandlePutDbConfig(t) ==
    /\ task[t].pc = "act" /\ task[t].kind = "config" /\ lock = NoTask
    /\ startOffline' \in BOOLEAN
    /\ End(t)
    /\ UNCHANGED <<registry, lock, tasks, contextVars>>

-----------------------------------------------------------------------------
Start(t) == CreateDB(t) \/ FeedDrops(t) \/ \E kind \in Served \cup Admin : GetDatabase(t, kind)

Step(t) ==
    \/ AddDatabase(t) \/ Enter(t) \/ FinishOp(t) \/ FeedExits(t) \/ FlushRemove(t) \/ FlushBucket(t)
    \/ TakeDbOffline(t) \/ OfflineLock(t) \/ SetOffline(t) \/ RefreshBucket(t)
    \/ HandleDbOnline(t) \/ TimerFires(t) \/ TakeDbOnline(t) \/ ReloadRemove(t) \/ ReloadLoad(t) \/ ForceOnline(t)
    \/ HandleResync(t) \/ ResyncDone(t) \/ HandleDeleteDB(t) \/ HandlePutDbConfig(t)

Next == \E t \in Tasks : Start(t) \/ Step(t) \/ ClientLeaves(t)

(* A goroutine that can go on does so; clients need not leave, feeds need  *)
(* not drop and nobody has to ask for anything.                            *)
Spec == Init /\ [][Next]_vars /\ \A t \in Tasks : WF_vars(Step(t))

-----------------------------------------------------------------------------
(* Properties.                                                             *)

(* Taking a database offline waits for every request that uses it: none    *)
(* runs while the context is offline, resyncing or being replaced.  A      *)
(* resync stays alone to its end, unless TakeDbOnline overwrites the state *)
(* of a context it has just made visible (server_context.go).              *)
QuietWhenOffline ==
    /\ \A c \in Contexts : ctx[c].state \in {"Offline", "Starting", "Resyncing"} => Running(c) = {}
    /\ \A t \in Tasks : task[t].pc = "resync" /\ task[t].ctx \notin overridden => Running(task[t].ctx) = {}

(* ExitChanges is closed at most once, closing it again is a panic, except *)
(* for a context whose offline state was overwritten.                      *)
ExitClosedOnce == \A c \in Contexts \ overridden : ctx[c].exits <= 1

(* No request runs on a context whose bucket is closed, whatever order a   *)
(* reload and a request come in, unless the context was closed without its *)
(* AccessLock: by a delete, by a flush, or by the reload of an older       *)
(* context of that name.                                                   *)
RunningOnOpen ==
    \A c \in Contexts \ (yanked \cup overridden) : Running(c) # {} => ctx[c].open

(* Two contexts of the database never serve requests side by side, and the *)
(* registered one is open.                                                 *)
OneServing ==
    /\ registry # None => ctx[registry].open
    /\ \A c \in Contexts : ctx[c].open /\ ctx[c].state = "Online" => c = registry

(* What the server promises of its database contexts while they are taken  *)
(* offline and online, resynced, reloaded and deleted under requests.      *)
ContextsSafe == TypeOK /\ QuietWhenOffline /\ ExitClosedOnce /\ RunningOnOpen /\ OneServing

(* Everything that waits for a lock gets it, unless it waits for a request *)
(* that nothing tells to end: a BLIP connection, which does not watch      *)
(* ExitChanges, or a changes feed of a context that is not being stopped.  *)
Endless(c) ==
    \E t \in Running(c) : \/ task[t].kind = "blipsync"
                          \/ task[t].kind = "changes" /\ ctx[c].state # "Stopping"

TasksEnd ==
    []<>(\A t \in Tasks : \/ task[t].pc \in {"idle", "run"}
                          \/ task[t].ctx # None /\ Endless(task[t].ctx))

=============================================================================
