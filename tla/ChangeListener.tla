--------------------------- MODULE ChangeListener ---------------------------
(***************************************************************************)
(* Waking the changes feeds (db/change_listener.go) and the wait loop of   *)
(* SimpleMultiChangesFeed (db/changes.go).                                 *)
(*                                                                         *)
(* The change cache notifies the listener of the channels in which a       *)
(* change has become visible, and the mutation feed of the users that were *)
(* modified.  The listener numbers the notifications and keeps the latest  *)
(* number of each key.  A feed reads its channels and then waits, on a     *)
(* condition variable, for the highest number of its keys to change.       *)
(*                                                                         *)
(* A feed is a continuous one; what it sends is reduced to how many        *)
(* changes of a channel it has seen.  Each feed belongs to a user of its   *)
(* own without roles, and the feed itself names that user's key.  The      *)
(* counters are bounded by the changes that are made.                      *)
(***************************************************************************)
EXTENDS Naturals, FiniteSets, FiniteSetsExt

CONSTANTS
    Channels,
    Feeds,              \* changes feeds, and the keys of their users
    NoFeed,             \* not a feed
    MaxChanges,         \* bound on the changes of a channel
    MaxUserChanges      \* bound on the changes of a user's channels

ASSUME ChangeListenerAssumption ==
    /\ Channels \cap Feeds = {}
    /\ NoFeed \notin Feeds
    /\ MaxChanges \in Nat /\ MaxUserChanges \in Nat

VARIABLES
    counter, keyCounts, terminateCheckCounter,  \* fields of changeListener
    notifierLock,   \* the feed that holds tapNotifier.L between two steps
    stopping,       \* how far Stop has got
    published,      \* visible changes of each channel
    access,         \* channels of each feed's user, in the bucket
    userChanges,    \* user changes so far
    due,            \* Notify calls still to be made, per key
    closing,        \* whether the feed's request has ended, and how
    feed,           \* state of each feed and of its changeWaiter
    seen,           \* changes of each channel the feed has sent
    revoked         \* history: feeds whose user has lost a channel

listenerVars == <<counter, keyCounts, terminateCheckCounter>>
worldVars == <<published, access, userChanges, due, revoked>>
feedVars == <<listenerVars, notifierLock, stopping, worldVars, closing, feed, seen>>

Keys == Channels \cup Feeds

NewFeed == [pc |-> "new", channels |-> {}, unread |-> {}, lastCounter |-> 0,
            lastTerminate |-> 0, userCount |-> 0, wake |-> "none",
            deaf |-> FALSE]

FeedState ==
    [pc : {"new", "waiter", "reload", "read", "enlist", "asleep", "woken",
           "returned", "ended"},
     channels : SUBSET Channels, unread : SUBSET Channels,
     lastCounter : Nat, lastTerminate : Nat, userCount : Nat,
     wake : {"none", "changes", "check", "closed"}, deaf : BOOLEAN]

ListenerTypeOK ==
    /\ counter \in Nat
    /\ keyCounts \in [Keys -> Nat]
    /\ terminateCheckCounter \in Nat
    /\ notifierLock \in Feeds \cup {NoFeed}
    /\ \A f \in Feeds : notifierLock = f <=> feed[f].pc = "enlist"
    /\ stopping \in {"no", "closed", "broadcast", "notified"}
    /\ published \in [Channels -> 0..MaxChanges]
    /\ access \in [Feeds -> SUBSET Channels]
    /\ userChanges \in 0..MaxUserChanges
    /\ due \in [Keys -> Nat]
    /\ closing \in [Feeds -> {"no", "quiet", "forced", "notified"}]
    /\ feed \in [Feeds -> FeedState]
    /\ seen \in [Feeds -> [Channels -> 0..MaxChanges]]
    /\ revoked \subseteq Feeds

ListenerInit ==
    /\ counter = 1 /\ terminateCheckCounter = 0
    /\ keyCounts = [k \in Keys |-> 0]
    /\ notifierLock = NoFeed /\ stopping = "no"
    /\ published = [c \in Channels |-> 0]
    /\ access \in [Feeds -> SUBSET Channels]
    /\ userChanges = 0
    /\ due = [k \in Keys |-> 0]
    /\ closing = [f \in Feeds |-> "no"]
    /\ feed = [f \in Feeds |-> NewFeed]
    /\ seen = [f \in Feeds |-> [c \in Channels |-> 0]]
    /\ revoked = {}

LockFree == notifierLock = NoFeed

(* tapNotifier.Broadcast wakes every feed that is asleep.                  *)
Broadcast(fs) ==
    [f \in Feeds |-> IF fs[f].pc = "asleep" THEN [fs[f] EXCEPT !.pc = "woken"]
                                            ELSE fs[f]]

----------------------------------------------------------------------------
(* Notifications                                                           *)

(* A change becomes visible in a channel's cache; Notify is still to come. *)
Publish(c) ==
    /\ published[c] < MaxChanges
    /\ published' = [published EXCEPT ![c] = @ + 1]
    /\ due' = [due EXCEPT ![c] = @ + 1]
    /\ UNCHANGED <<listenerVars, notifierLock, stopping, access, userChanges, revoked,
                   closing, feed, seen>>

(* The user of a feed is given other channels.                             *)
ChangeUser(f, S) ==
    /\ userChanges < MaxUserChanges /\ S # access[f]
    /\ userChanges' = userChanges + 1
    /\ access' = [access EXCEPT ![f] = S]
    /\ due' = [due EXCEPT ![f] = @ + 1]
    /\ revoked' = IF access[f] \subseteq S THEN revoked ELSE revoked \cup {f}
    /\ UNCHANGED <<listenerVars, notifierLock, stopping, published, closing, feed,
                   seen>>

(* Notify for a set of keys, such as the channels of one change.           *)
Notify(K) ==
    /\ K # {} /\ \A k \in K : due[k] > 0
    /\ LockFree
    /\ counter' = counter + 1
    /\ keyCounts' = [k \in Keys |-> IF k \in K THEN counter' ELSE keyCounts[k]]
    /\ due' = [k \in Keys |-> IF k \in K THEN due[k] - 1 ELSE due[k]]
    /\ feed' = Broadcast(feed)
    /\ UNCHANGED <<terminateCheckCounter, notifierLock, stopping, published, access,
                   userChanges, revoked, closing, seen>>

(* A feed's request ends and closes options.Terminator.  A forced end also *)
(* calls NotifyTerminatedChanges; after a write error it does not.         *)
CloseRequest(f, how) ==
    /\ closing[f] = "no"
    /\ closing' = [closing EXCEPT ![f] = how]
    /\ UNCHANGED <<listenerVars, notifierLock, stopping, worldVars, feed, seen>>

NotifyCheckForTermination(f) ==
    /\ closing[f] = "forced"
    /\ LockFree
    /\ closing' = [closing EXCEPT ![f] = "notified"]
    /\ terminateCheckCounter' = terminateCheckCounter + 1
    /\ feed' = Broadcast(feed)
    /\ UNCHANGED <<counter, keyCounts, notifierLock, stopping, worldVars, seen>>

(* Stop closes listener.terminator, ...                                    *)
Stop ==
    /\ stopping = "no"
    /\ stopping' = "closed"
    /\ UNCHANGED <<listenerVars, notifierLock, worldVars, closing, feed, seen>>

(* ... broadcasts without holding tapNotifier.L ...                        *)
StopBroadcast ==
    /\ stopping = "closed"
    /\ stopping' = "broadcast"
    /\ feed' = Broadcast(feed)
    /\ UNCHANGED <<listenerVars, notifierLock, worldVars, closing, seen>>

(* ... and closes a TAP feed, whose goroutine calls notifyStopping.        *)
NotifyStopping ==
    /\ stopping = "broadcast"
    /\ LockFree
    /\ stopping' = "notified"
    /\ counter' = 0
    /\ keyCounts' = [k \in Keys |-> 0]
    /\ feed' = Broadcast(feed)
    /\ UNCHANGED <<terminateCheckCounter, notifierLock, worldVars, closing, seen>>

----------------------------------------------------------------------------
(* A changes feed                                                          *)

(* _currentCount of a feed's keys: its channels and its user.              *)
CurrentCount(f, S) == Max({keyCounts[k] : k \in S \cup {f}})

Terminated(f) == closing[f] # "no"

(* Mutant: the waiter starts from the listener's own counter.              *)
NewWaiterGlobal(f) ==
    /\ feed[f].pc = "new"
    /\ LockFree
    /\ feed' = [feed EXCEPT ![f] =
          [@ EXCEPT !.pc = "waiter", !.lastCounter = counter,
                    !.lastTerminate = terminateCheckCounter,
                    !.deaf = closing[f] = "notified"]]
    /\ UNCHANGED <<listenerVars, notifierLock, stopping, worldVars, closing, seen>>

(* startChangeWaiter: the waiter has no channels yet.  `deaf' is history:  *)
(* the request was closed, and the notification sent, before that.         *)
NewWaiter(f) ==
    /\ feed[f].pc = "new"
    /\ LockFree
    /\ feed' = [feed EXCEPT ![f] =
          [@ EXCEPT !.pc = "waiter", !.lastCounter = CurrentCount(f, {}),
                    !.lastTerminate = terminateCheckCounter,
                    !.deaf = closing[f] = "notified"]]
    /\ UNCHANGED <<listenerVars, notifierLock, stopping, worldVars, closing, seen>>

(* NewWaiterWithChannels takes the lock again for the user's own count.    *)
NewWaiterUserCount(f) ==
    /\ feed[f].pc = "waiter"
    /\ LockFree
    /\ feed' = [feed EXCEPT ![f].pc = "reload",
                            ![f].userCount = CurrentCount(f, {})]
    /\ UNCHANGED <<listenerVars, notifierLock, stopping, worldVars, closing, seen>>

(* ReloadUser, then UpdateChannels at the top of the outer loop, which     *)
(* leaves lastCounter as it is.                                            *)
ReloadUser(f) ==
    /\ feed[f].pc = "reload"
    /\ feed' = [feed EXCEPT ![f].pc = "read", ![f].channels = access[f],
                            ![f].unread = access[f]]
    /\ UNCHANGED <<listenerVars, notifierLock, stopping, worldVars, closing, seen>>

(* The feed reads a channel and sends what is new, unless it finds there   *)
(* that it was terminated.                                                 *)
ReadChannel(f, c) ==
    /\ feed[f].pc = "read" /\ c \in feed[f].unread
    /\ \/ /\ seen' = [seen EXCEPT ![f][c] = published[c]]
          /\ feed' = [feed EXCEPT ![f].unread = @ \ {c}]
       \/ /\ Terminated(f) /\ seen[f][c] < published[c]
          /\ feed' = [feed EXCEPT ![f].pc = "ended"]
          /\ UNCHANGED seen
    /\ UNCHANGED <<listenerVars, notifierLock, stopping, worldVars, closing>>

HasReadAll(f) == feed[f].pc = "read" /\ feed[f].unread = {}

(* changeListener.Wait returns these counters to changeWaiter.Wait, which  *)
(* compares them with the previous ones.                                   *)
ReturnFromWait(f, count, terminate) ==
    LET wake == IF count > feed[f].lastCounter THEN "changes"
                ELSE IF terminate # feed[f].lastTerminate THEN "check"
                ELSE "closed"
    IN  feed' = [feed EXCEPT ![f] =
                    [@ EXCEPT !.pc = "returned", !.lastCounter = count,
                              !.lastTerminate = terminate, !.wake = wake]]

(* Mutant: the lock is released before the feed is on the wait list.       *)
WaitUnlocked(f) ==
    /\ feed[f].pc = "woken" \/ HasReadAll(f)
    /\ LockFree
    /\ LET count == CurrentCount(f, feed[f].channels)
       IN  IF feed[f].pc = "woken" /\ stopping # "no"
           THEN ReturnFromWait(f, 0, 0)
           ELSE IF \/ count # feed[f].lastCounter
                   \/ terminateCheckCounter # feed[f].lastTerminate
           THEN ReturnFromWait(f, count, terminateCheckCounter)
           ELSE feed' = [feed EXCEPT ![f].pc = "enlist"]
    /\ UNCHANGED <<listenerVars, notifierLock, stopping, worldVars, closing, seen>>

(* One pass of changeListener.Wait under tapNotifier.L.  Only a feed that  *)
(* was woken looks whether the listener was stopped.                       *)
Wait(f) ==
    /\ feed[f].pc = "woken" \/ HasReadAll(f)
    /\ LockFree
    /\ LET count == CurrentCount(f, feed[f].channels)
       IN  IF feed[f].pc = "woken" /\ stopping # "no"
           THEN ReturnFromWait(f, 0, 0) /\ UNCHANGED notifierLock
           ELSE IF \/ count # feed[f].lastCounter
                   \/ terminateCheckCounter # feed[f].lastTerminate
           THEN ReturnFromWait(f, count, terminateCheckCounter) /\ UNCHANGED notifierLock
           ELSE /\ feed' = [feed EXCEPT ![f].pc = "enlist"]
                /\ notifierLock' = f
    /\ UNCHANGED <<listenerVars, stopping, worldVars, closing, seen>>

(* tapNotifier.Wait puts the feed on the wait list and releases the lock.  *)
Enlist(f) ==
    /\ feed[f].pc = "enlist"
    /\ feed' = [feed EXCEPT ![f].pc = "asleep"]
    /\ notifierLock' = NoFeed
    /\ UNCHANGED <<listenerVars, stopping, worldVars, closing, seen>>

(* changeWaiter.Wait notes the user's count and returns; the feed ends,    *)
(* waits again, or starts over, with the user reloaded if it has changed.  *)
AfterWait(f) ==
    /\ feed[f].pc = "returned"
    /\ LockFree
    /\ LET wake  == feed[f].wake
           count == CurrentCount(f, {})
           next  == IF wake = "closed" \/ Terminated(f) THEN "ended"
                    ELSE IF wake = "changes" /\ count > feed[f].userCount
                    THEN "reload" ELSE "read"
       IN  feed' = [feed EXCEPT ![f] =
               [@ EXCEPT !.pc = next, !.wake = "none",
                         !.unread = IF next = "read" /\ wake = "changes"
                                    THEN feed[f].channels ELSE {},
                         !.userCount = IF next = "reload" THEN count
                                       ELSE feed[f].userCount]]
    /\ UNCHANGED <<listenerVars, notifierLock, stopping, worldVars, closing, seen>>

FeedStep(f) ==
    \/ NewWaiter(f) \/ NewWaiterUserCount(f) \/ ReloadUser(f)
    \/ \E c \in Channels : ReadChannel(f, c)
    \/ Wait(f) \/ Enlist(f) \/ AfterWait(f)

ListenerNext ==
    \/ \E c \in Channels : Publish(c)
    \/ \E f \in Feeds, S \in SUBSET Channels : ChangeUser(f, S)
    \/ \E K \in SUBSET Keys : Notify(K)
    \/ \E f \in Feeds, how \in {"quiet", "forced"} : CloseRequest(f, how)
    \/ \E f \in Feeds : NotifyCheckForTermination(f)
    \/ Stop \/ StopBroadcast \/ NotifyStopping
    \/ \E f \in Feeds : FeedStep(f)

ListenerSpec == ListenerInit /\ [][ListenerNext]_feedVars

----------------------------------------------------------------------------
(* Properties                                                              *)

Waiting(f) == feed[f].pc # "ended" /\ ~Terminated(f) /\ stopping = "no"

(* No wake-up is lost: a change that is visible in a channel of the feed's *)
(* user is sent, even if it was published, or access to the channel was    *)
(* granted, while the feed was reading, about to wait or being woken.  And *)
(* "On forceClose, send notify to trigger immediate exit from change       *)
(* waiter": a feed whose request was closed by force ends, whether it was  *)
(* reading or waiting, unless the notification came before its waiter was  *)
(* created.                                                                *)
WakeUpsReachFeeds ==
    []<>(\A f \in Feeds :
            /\ Waiting(f) => \A c \in access[f] : seen[f][c] = published[c]
            /\ closing[f] \in {"forced", "notified"} =>
                 feed[f].pc = "ended" \/ feed[f].deaf \/ stopping # "no")

(* The highest count of a feed's keys does not fall, so that a feed never  *)
(* takes a notification for the end of the listener - unless it has given  *)
(* up a channel since it last counted.                                     *)
EndsForAReason ==
    /\ ListenerTypeOK
    /\ \A f \in Feeds : feed[f].pc = "ended" =>
         Terminated(f) \/ stopping # "no" \/ f \in revoked

=============================================================================
