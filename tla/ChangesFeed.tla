---------------------------- MODULE ChangesFeed ----------------------------
(***************************************************************************)
(* One client's changes feed over several channels (db/changes.go,         *)
(* SimpleMultiChangesFeed), with the late sequence log of every channel    *)
(* cache (db/channel_cache.go) and the request loop that restarts a feed   *)
(* from the last identifier sent (rest/changes_api.go).                    *)
(*                                                                         *)
(* The change cache is reduced to what a feed sees of it: the sequences    *)
(* each channel holds, the next expected sequence and the skipped ones     *)
(* (ChangeCache and ChannelCache model how these come about).  The feed    *)
(* takes a step at every point where it reads shared state: the skipped    *)
(* list, a channel's cache and a channel's late log are read one after the *)
(* other, with nothing locked in between.                                  *)
(*                                                                         *)
(* The user has the channels of Owned from the start and is granted        *)
(* GrantedChannel while the system runs.                                   *)
(***************************************************************************)
EXTENDS SequenceID, FiniteSets, FiniteSetsExt, SequencesExt

CONSTANTS
    Owned,           \* channels the user can read since sequence 1
    GrantedChannel,  \* the channel a document or an administrator grants
    ChannelSets,     \* the sets of channels a document may be in
    AdminSeqs,       \* sequences an administrator's user update would take
    MaxSeq,          \* bound: sequences 1..MaxSeq
    MaxSkip,         \* bound: sequences skipped at a time
    MaxAhead,        \* bound: how far ahead of the cache a grant is saved
    MaxRequests      \* bound: requests the client makes

Channels == Owned \cup {GrantedChannel}
Modes == {"continuous", "longpoll"}
None == "none"

ASSUME ChangesFeedAssumption ==
    /\ MaxSeq \in Nat \ {0} /\ MaxSkip \in Nat /\ MaxRequests \in Nat /\ MaxAhead \in Nat
    /\ GrantedChannel \notin Owned

VARIABLES
    next,       \* changeCache.nextSequence
    skipped,    \* changeCache.skippedSeqs
    cache,      \* [Channels -> SUBSET 1..MaxSeq]: the changes of each channel
    lateLogs,   \* [Channels -> Seq([seq, listeners])]: channelCache.lateLogs
    finishing,  \* the late sequence in the caches but still in skippedSeqs
    access,     \* [Channels -> 0..MaxSeq]: since when the user has the channel
    userSeq,    \* user.Sequence()
    revoked,    \* the granted channel has been revoked again
    userChanged,\* the user changed since the running feed loaded it
    feed,       \* local state of SimpleMultiChangesFeed
    received,   \* sequences the client has received
    lastId,     \* the last identifier sent, as the client has it
    requests,   \* requests made so far
    missed      \* history: changes lost to one of the races named below

world == <<next, skipped, cache, lateLogs, finishing, access, revoked, userSeq>>
client == <<received, lastId, requests>>
vars == <<world, userChanged, feed, client, missed>>

Stable == next - 1

LowSequenceOldest == IF skipped = {} THEN 0 ELSE Min(skipped)

(* getOldestSkippedSequence - 1, or 0 when nothing is skipped.             *)
LowSequence == IF skipped = {} THEN 0 ELSE Min(skipped) - 1

NoLate == [pos |-> 0, active |-> FALSE, open |-> FALSE]
NoFeed == [pc |-> "ended", mode |-> "longpoll", since |-> SeqID(0), stable |-> 0,
           low |-> 0, requestLow |-> 0, chans |-> [c \in Channels |-> 0], userSeq |-> 0,
           added |-> {}, todo |-> {}, at |-> None, batch |-> {},
           late |-> [c \in Channels |-> NoLate],
           sent |-> FALSE]

(* Sequence 1 has been seen: if it is skipped the low sequence is 0, which *)
(* stands for none.                                                        *)
Init ==
    /\ next = 2 /\ skipped = {} /\ finishing = 0
    /\ cache = [c \in Channels |-> {}]
    /\ lateLogs = [c \in Channels |-> <<[seq |-> 0, listeners |-> 0]>>]
    /\ access = [c \in Channels |-> IF c \in Owned THEN 1 ELSE 0]
    /\ userSeq = 0 /\ userChanged = FALSE /\ revoked = FALSE
    /\ feed = NoFeed
    /\ received = {} /\ lastId = IntSeqToString(SeqID(0)) /\ requests = 0
    /\ missed = {}

-----------------------------------------------------------------------------
(* The late sequence log of one channel cache.                             *)

PurgeLateLogEntries(log) ==
    LET used == {i \in 1..Len(log) : log[i].listeners > 0 \/ i = Len(log)}
    IN  SubSeq(log, Min(used), Len(log))

AddLateSequence(log, s) ==
    PurgeLateLogEntries(Append(log, [seq |-> s, listeners |-> 0]))

Position(log, s) == {i \in 1..Len(log) : log[i].seq = s}

AddListenerNone(log) == log

(* InitLateSequenceClient and the end of GetLateSequencesSince.            *)
AddListener(log) == [log EXCEPT ![Len(log)].listeners = @ + 1]

RemoveListener(log, s) ==
    IF Position(log, s) = {} THEN log
    ELSE [log EXCEPT ![Min(Position(log, s))].listeners = @ - 1]

(* The entries that arrived after position s.                              *)
LateSince(log, s) ==
    {log[i].seq : i \in (Min(Position(log, s)) + 1)..Len(log)}

-----------------------------------------------------------------------------
(* Where a feed at `since' reads a channel from, that the user got at      *)
(* addedAt; isNew if the channel was added while the feed runs.            *)
ChannelSince(since, addedAt, isNew) ==
    LET backfillRequired == addedAt > 1 /\ Before(since, SeqID(addedAt))
        backfillPending  == since.triggeredBy = 0 \/ since.triggeredBy < addedAt
        backfillInOtherChannel == since.triggeredBy # 0 /\ since.triggeredBy > addedAt
    IN  IF isNew \/ (backfillRequired /\ backfillPending) THEN Triggered(addedAt, 0)
        ELSE IF backfillInOtherChannel THEN SeqID(since.triggeredBy)
        ELSE since

(* The changes of a channel from `since' on: changesFeed.                  *)
ChannelChanges(c, since) ==
    {[triggeredBy |-> IF s >= since.triggeredBy THEN 0 ELSE since.triggeredBy,
      lowSeq |-> 0, seq |-> s] : s \in {t \in cache[c] : t > SafeSequence(since)}}

-----------------------------------------------------------------------------
(* The change cache and the user, as the feed sees them.                   *)

(* The entry k is added to its channels; the sequences it was waiting for  *)
(* are skipped.                                                            *)
AddToCache(k, C) ==
    /\ k >= next /\ k <= MaxSeq /\ k - next <= MaxSkip
    /\ next' = k + 1
    /\ skipped' = skipped \cup (next..(k - 1))
    /\ cache' = [c \in Channels |-> IF c \in C THEN cache[c] \cup {k} ELSE cache[c]]
    /\ UNCHANGED <<lateLogs, finishing, access, revoked, userSeq, userChanged, feed, client, missed>>

(* Race: a late entry that a continuous feed sees neither in the channel's *)
(* changes (already read, or read from a position past it) nor in the late *)
(* feed (not yet opened, or opened past it).                               *)
LateWindow(s, c) ==
    /\ feed.mode = "continuous" /\ ~ feed.late[c].open
    /\ \/ feed.pc = "late" /\ feed.at = c
       \/ /\ c \in feed.todo
          /\ s <= SafeSequence(ChannelSince(feed.since, feed.chans[c], c \in feed.added))

AddLate(s, C) ==
    /\ finishing = 0 /\ s \in skipped
    /\ cache' = [c \in Channels |-> IF c \in C THEN cache[c] \cup {s} ELSE cache[c]]
    /\ lateLogs' = [c \in Channels |->
                      IF c \in C THEN AddLateSequence(lateLogs[c], s) ELSE lateLogs[c]]
    /\ finishing' = s
    /\ missed' = IF \E c \in C : LateWindow(s, c) THEN missed \cup {s} ELSE missed
    /\ UNCHANGED <<next, skipped, access, revoked, userSeq, userChanged, feed, client>>

(* processEntry removes the sequence from the skipped list only once it is *)
(* in the caches.                                                          *)
FinishLate ==
    /\ finishing # 0
    /\ skipped' = skipped \ {finishing}
    /\ finishing' = 0
    /\ UNCHANGED <<next, cache, lateLogs, access, revoked, userSeq, userChanged, feed,
                   client, missed>>

(* CleanSkippedSequenceQueue gives up on a sequence no document has.       *)
Abandon(s) ==
    /\ finishing = 0 /\ s \in skipped
    /\ skipped' = skipped \ {s}
    /\ UNCHANGED <<next, cache, lateLogs, finishing, access, revoked, userSeq, userChanged, feed,
                   client, missed>>

(* A document or an administrator's update, saved at a sequence the cache  *)
(* has not seen yet, grants the channel.                                   *)
Grant(g) ==
    /\ access[GrantedChannel] = 0 /\ ~ revoked
    /\ g \in next..(next + MaxAhead) /\ g <= MaxSeq
    /\ access' = [access EXCEPT ![GrantedChannel] = g]
    /\ userSeq' = IF g \in AdminSeqs THEN g ELSE userSeq
    /\ userChanged' = (feed.pc # "ended")
    /\ UNCHANGED <<next, skipped, cache, lateLogs, finishing, revoked, feed, client, missed>>

Revoke ==
    /\ access[GrantedChannel] # 0
    /\ access' = [access EXCEPT ![GrantedChannel] = 0]
    /\ revoked' = TRUE
    /\ userChanged' = (feed.pc # "ended")
    /\ UNCHANGED <<next, skipped, cache, lateLogs, finishing, userSeq, feed, client,
                   missed>>

-----------------------------------------------------------------------------
(* The feed.                                                               *)

Available(acc) == {c \in Channels : acc[c] # 0}

(* A request: a first one, or one from the last identifier the client has. *)
(* The late feeds of the request before are never released.                *)
StartFeed(mode) ==
    /\ feed.pc = "ended" /\ requests < MaxRequests
    /\ LET since == ParseIntegerSequenceID(lastId)
       IN  feed' = [NoFeed EXCEPT !.pc = "begin", !.mode = mode, !.since = since,
                                  !.requestLow = since.lowSeq, !.stable = Stable,
                                  !.chans = access, !.userSeq = userSeq]
    /\ requests' = requests + 1
    /\ UNCHANGED <<world, userChanged, received, lastId, missed>>

(* appendUserFeed: the pseudo entry of a changed user document, as the     *)
(* feed has loaded it; it is not a change of a channel.                    *)
UserFeed(since) ==
    IF Before(since, SeqID(feed.userSeq)) THEN {SeqID(feed.userSeq)} ELSE {}

(* Race: what stood between the low sequence and the sequence of a request *)
(* is not sent while the low sequence is the same; a continuous feed       *)
(* forgets the low sequence altogether.                                    *)
ForgottenLow(since, dropped) ==
    UNION {{s \in cache[c] :
              /\ s > SafeSequence(ChannelSince(since, feed.chans[c], FALSE))
              /\ s <= SafeSequence(ChannelSince(dropped, feed.chans[c], FALSE))} :
           c \in Available(feed.chans)}

BeginIteration ==
    /\ feed.pc = "begin"
    /\ LET low == LowSequence
           drop == feed.since.lowSeq # 0 /\ feed.since.lowSeq = low
           since == IF drop THEN [feed.since EXCEPT !.lowSeq = 0] ELSE feed.since
       IN  /\ feed' = [feed EXCEPT !.pc = "reading", !.low = low, !.since = since,
                                   !.todo = Available(feed.chans), !.batch = UserFeed(since),
                                   !.sent = FALSE]
           /\ missed' = IF drop /\ feed.mode = "continuous"
                        THEN missed \cup ForgottenLow(feed.since, since) ELSE missed
    /\ UNCHANGED <<world, userChanged, client>>

ReadChannel(c) ==
    /\ feed.pc = "reading" /\ c \in feed.todo
    /\ feed' =
         IF feed.chans[c] > feed.stable
         THEN [feed EXCEPT !.todo = @ \ {c}]
         ELSE [feed EXCEPT !.todo = @ \ {c},
                           !.at = IF feed.mode = "continuous" THEN c ELSE None,
                           !.pc = IF feed.mode = "continuous" THEN "late" ELSE "reading",
                           !.batch = @ \cup ChannelChanges(c,
                               ChannelSince(feed.since, feed.chans[c], c \in feed.added))]
    /\ UNCHANGED <<world, userChanged, client, missed>>

(* getLateFeed; when the position is gone the late feed is left out of     *)
(* this iteration.                                                         *)
GetLateFeed ==
    /\ feed.pc = "late" /\ feed.late[feed.at].open
    /\ LET c   == feed.at
           log == lateLogs[c]
           pos == feed.late[c].pos
       IN  \/ /\ pos = Last(log).seq
              /\ feed' = [feed EXCEPT !.pc = "reading", !.at = None,
                                      !.late[c].active = TRUE]
              /\ UNCHANGED lateLogs
           \/ /\ pos # Last(log).seq /\ Position(log, pos) # {}
              /\ feed' = [feed EXCEPT !.pc = "reading", !.at = None,
                                      !.late[c].active = TRUE, !.late[c].pos = Last(log).seq,
                                      !.batch = @ \cup {SeqID(s) : s \in LateSince(log, pos)}]
              /\ lateLogs' = [lateLogs EXCEPT ![c] = AddListener(RemoveListener(@, pos))]
    /\ UNCHANGED <<next, skipped, cache, finishing, access, revoked, userSeq, userChanged,
                   client, missed>>

NewLateSequenceFeed ==
    /\ feed.pc = "late" /\ ~ feed.late[feed.at].open
    /\ feed' = [feed EXCEPT !.pc = "reading", !.at = None,
                            !.late[feed.at] = [pos |-> Last(lateLogs[feed.at]).seq,
                                               active |-> TRUE, open |-> TRUE]]
    /\ lateLogs' = [lateLogs EXCEPT ![feed.at] = AddListener(@)]
    /\ UNCHANGED <<next, skipped, cache, finishing, access, revoked, userSeq, userChanged,
                   client, missed>>

(* Race: the feed has not loaded the grant yet, and an identifier past the *)
(* grant makes a later request see no reason to backfill the channel.      *)
UnseenGrant(id) ==
    IF \E c \in Available(access) : feed.chans[c] # access[c] /\ ~ Before(id, SeqID(access[c]))
    THEN 1..id.seq ELSE {}

(* Race: a request in the middle of a backfill reads the other channels    *)
(* from after the sequence that triggered it, whatever its low sequence    *)
(* is.                                                                     *)
CutOffByBackfill(id) ==
    IF id.triggeredBy = 0 THEN {}
    ELSE {id.triggeredBy} \cup
         (IF feed.low = 0 THEN {} ELSE (feed.low + 1)..id.triggeredBy)

(* The entry with the smallest identifier is sent, with the low sequence   *)
(* of this iteration.                                                      *)
SendEntry ==
    /\ feed.pc = "reading" /\ feed.todo = {} /\ feed.batch # {}
    /\ LET min == CHOOSE id \in feed.batch :
                     \A other \in feed.batch \ {id} : Before(id, other)
           id  == [min EXCEPT !.lowSeq = feed.low]
       IN  IF feed.stable < min.seq
           THEN /\ feed' = [feed EXCEPT !.batch = @ \ {min}]
                /\ UNCHANGED <<received, lastId, missed>>
           ELSE /\ feed' = [feed EXCEPT !.batch = @ \ {min}, !.sent = (feed.mode = "longpoll"),
                              !.since = IF Before(@, min) THEN min ELSE @]
                /\ received' = received \cup {min.seq}
                /\ lastId' = IntSeqToString(id)
                /\ missed' = missed \cup UnseenGrant(id) \cup CutOffByBackfill(id)
    /\ UNCHANGED <<world, userChanged, requests>>

BatchSent == feed.pc = "reading" /\ feed.todo = {} /\ feed.batch = {}

(* A longpoll request ends with the first iteration that sent something.   *)
EndRequest ==
    /\ BatchSent /\ feed.mode = "longpoll" /\ feed.sent
    /\ feed' = NoFeed /\ userChanged' = FALSE
    /\ UNCHANGED <<world, client, missed>>

(* The feed has waited and runs again, a longpoll with the low sequence it *)
(* came with.  ChangeListener models the wait; here it may end at any      *)
(* time.  The user is reloaded if its notification has come by now, by a   *)
(* longpoll always.  Late feeds the last iteration did not read are        *)
(* closed.                                                                 *)
Wake(reload) ==
    /\ BatchSent /\ (feed.mode = "longpoll" => ~ feed.sent)
    /\ reload => userChanged \/ feed.mode = "longpoll"
    /\ feed.mode = "longpoll" => reload
    /\ LET closed == {c \in Channels : feed.late[c].open /\ ~ feed.late[c].active}
       IN  /\ feed' = [feed EXCEPT
                  !.pc = "begin", !.stable = Stable, !.low = 0,
                  !.since.lowSeq = IF feed.mode = "longpoll" THEN feed.requestLow ELSE @,
                  !.chans = IF reload THEN access ELSE @,
                  !.userSeq = IF reload THEN userSeq ELSE @,
                  !.added = IF reload THEN Available(access) \ Available(feed.chans) ELSE {},
                  !.late = [c \in Channels |->
                              IF c \in closed THEN NoLate
                              ELSE [@[c] EXCEPT !.active = FALSE]]]
           /\ lateLogs' = [c \in Channels |->
                 IF c \in closed THEN RemoveListener(lateLogs[c], feed.late[c].pos)
                 ELSE lateLogs[c]]
    /\ userChanged' = (userChanged /\ ~ reload)
    /\ UNCHANGED <<next, skipped, cache, finishing, access, revoked, userSeq, client, missed>>

(* The client disconnects, a timeout or the limit ends the request, or the *)
(* database goes offline.                                                  *)
Disconnect ==
    /\ feed.pc # "ended" /\ requests < MaxRequests
    /\ feed' = NoFeed /\ userChanged' = FALSE
    /\ UNCHANGED <<world, client, missed>>

FeedStep ==
    \/ BeginIteration \/ \E c \in Channels : ReadChannel(c)
    \/ GetLateFeed \/ NewLateSequenceFeed \/ SendEntry
    \/ EndRequest \/ \E reload \in BOOLEAN : Wake(reload)

Next ==
    \/ \E k \in 1..MaxSeq, C \in ChannelSets : AddToCache(k, C) \/ AddLate(k, C)
    \/ FinishLate \/ \E s \in 1..MaxSeq : Abandon(s)
    \/ \E g \in 1..MaxSeq : Grant(g)
    \/ Revoke
    \/ \E mode \in Modes : StartFeed(mode)
    \/ FeedStep \/ Disconnect

Spec == Init /\ [][Next]_vars

-----------------------------------------------------------------------------
(* Every variable has its type, and every identifier handed out can be     *)
(* parsed back.                                                            *)
TypeOK ==
    /\ next \in 1..(MaxSeq + 1) /\ skipped \subseteq 1..MaxSeq
    /\ finishing \in 0..MaxSeq
    /\ cache \in [Channels -> SUBSET (1..MaxSeq)]
    /\ access \in [Channels -> 0..MaxSeq] /\ userSeq \in 0..MaxSeq
    /\ userChanged \in BOOLEAN /\ revoked \in BOOLEAN
    /\ feed.pc \in {"ended", "begin", "reading", "late"}
    /\ feed.since \in SequenceIDs(MaxSeq) /\ feed.batch \subseteq SequenceIDs(MaxSeq)
    /\ received \subseteq 1..MaxSeq /\ missed \subseteq 1..MaxSeq
    /\ ParseIntegerSequenceID(lastId) \in SequenceIDs(MaxSeq)

ResumeFrom(c) == ChannelSince(ParseIntegerSequenceID(lastId), access[c], FALSE)

(* Whatever the interleaving, a request from the last identifier the       *)
(* client holds reads every channel from before each of its changes the    *)
(* client has not got, those still skipped included: the compound          *)
(* identifier (changes.go:421, "so that they can obtain any currently      *)
(* skipped sequences in a future iteration or request") loses nothing      *)
(* outside the four races that fill `missed'.                              *)
ResumeSafe ==
    \A c \in Available(access) :
        \A s \in (cache[c] \cup skipped) \ (received \cup missed) :
            s > SafeSequence(ResumeFrom(c))

(* The entry an open late feed has read up to is still in the log and is   *)
(* counted as listened to, so that GetLateSequencesSince never answers     *)
(* "Missing previous sequence - rollback required" (the feed would go on   *)
(* without the late entries).                                              *)
LatePositionKept ==
    \A c \in Channels : feed.late[c].open =>
        \E i \in 1..Len(lateLogs[c]) :
            lateLogs[c][i].seq = feed.late[c].pos /\ lateLogs[c][i].listeners > 0

(* A continuous feed knows every late entry of a channel it serves: what   *)
(* arrived late since the feed first read the channel is delivered, still  *)
(* ahead in the late log, in the batch at hand, or lost to a named race.   *)
LateEntriesKnown ==
    \A c \in Available(access) :
        feed.late[c].open /\ feed.chans[c] = access[c] =>
            \A s \in cache[c] \ (received \cup missed) :
                \/ s > SafeSequence(feed.since)
                \/ \E id \in feed.batch : id.seq = s
                \/ s \in LateSince(lateLogs[c], feed.late[c].pos)

(* The late log of a channel keeps what each of its listeners has yet to   *)
(* see, and a feed's late entries are sent, in its batch, or in that log.  *)
LateEntriesKept == TypeOK /\ LatePositionKept /\ LateEntriesKnown

(* The feed implements at-least-once delivery across requests.             *)
Delivery == INSTANCE ChangesDelivery WITH
    due       <- UNION {{c} \X (cache[c] \cup skipped \cup next..MaxSeq) :
                        c \in Available(access)},
    covered   <- UNION {{c} \X (1..SafeSequence(ResumeFrom(c))) : c \in Available(access)},
    delivered <- received,
    givenUp   <- missed

(* Every step of cache, feed and client is one that ChangesDelivery        *)
(* allows.                                                                 *)
ImplementsDelivery == Delivery!Spec

=============================================================================
