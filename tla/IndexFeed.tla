------------------------------ MODULE IndexFeed ------------------------------
(***************************************************************************)
(* A changes feed over the channel index of Sync Gateway Accel: the        *)
(* polling of the index by a gateway (db/kv_change_index_reader.go,        *)
(* kv_change_index.go, kv_channel_index.go) and VectorMultiChangesFeed,    *)
(* which merges the channels of one user by vbucket and sequence           *)
(* (db/index_changes.go).                                                  *)
(*                                                                         *)
(* The index is written by Accel, which is not part of the repository:     *)
(* mutations get their vbucket's next sequence, the clock of a channel     *)
(* follows the entries written to it, and the stable clock follows the     *)
(* clocks of all channels.  What a channel's storage returns for a range   *)
(* of clocks is exact here; IndexStorage is about that.  A since value     *)
(* that a client got is the clock itself; SequenceHasher is about the      *)
(* hashes that stand for it.  Roles, limits by activity and the bodies of  *)
(* documents are left out.                                                 *)
(***************************************************************************)
EXTENDS VbClock, FiniteSets, SequencesExt

CONSTANTS Channels,     \* channels of the index
          Owned,        \* those the user's document grants from the start
          ChannelSets,  \* the channels a mutation may be in
          UserVb,       \* vbucket of the user's document
          MaxMutations, \* mutations after the user's document was made (bound)
          HashFrequency,        \* entries between two hashes of a feed
          FeedOptions,  \* requests: <<"normal", "longpoll" or "continuous",
                        \* options.Limit (0: none)>>
          kMaxUnreadPollCount,  \* polls nobody read before one is cancelled
          MaxFeeds,     \* requests of the client (bound)
          None          \* no clock, no reader, no trigger

VARIABLES
    head, member, chClock, stable, access, userSeq,
    rStable, counterMoved, readers, principals, polling, notified,
    pc, mode, limit, since, cum, fStable, chans, fUserSeq, added, todo, log, stage,
    postStable, sentSomething, hashCount, lastHash,
    got, lastSent, feeds, excused, staleUser

indexVars  == <<head, member, chClock, stable, access, userSeq>>
readerVars == <<rStable, counterMoved, readers, principals, polling, notified>>
requestVars == <<mode, since, fUserSeq, chans, added>>
roundVars  == <<fStable, todo, log, stage>>
sendVars   == <<limit, cum, postStable, sentSomething, hashCount, lastHash>>
clientVars == <<got, lastSent, feeds>>
ghostVars  == <<excused, staleUser>>
feedVars   == <<pc, requestVars, roundVars, sendVars, clientVars, ghostVars>>
indexFeedVars == <<indexVars, readerVars, feedVars>>

User == "user"
At(clock, e) == e[2] <= clock[e[1]]           \* the clock is at or past e
Through(c, from, to) == {e \in member[c] : ~At(from, e) /\ At(to, e)}

-----------------------------------------------------------------------------
(* The index, as Accel writes it.                                          *)

(* A grant that the user's document got from an administrator has no       *)
(* vbucket sequence until Accel has stamped it.                            *)
Stamped(v, s) == [vb |-> v, seq |-> s, stamped |-> TRUE]
Grants == {c \in Channels : access[c] # None}
SeqAddedAt(a) == IF a.stamped THEN a.seq ELSE 0

NoSince == [clock |-> ZeroClock, trigger |-> None, pos |-> <<0, 0>>]

IndexFeedInit ==
    /\ head = [v \in Vbs |-> IF v = UserVb THEN 1 ELSE 0]
    /\ member = [c \in Channels |-> {}]
    /\ chClock = [c \in Channels |-> ZeroClock]
    /\ stable = head
    /\ access = [c \in Channels |-> IF c \in Owned THEN Stamped(UserVb, 1) ELSE None]
    /\ userSeq = 1
    /\ rStable = None /\ counterMoved = TRUE
    /\ readers = [c \in Channels |-> None]
    /\ principals = "unknown" /\ polling = "idle" /\ notified = {}
    /\ pc = "off" /\ mode = "normal" /\ limit = 0
    /\ since = NoSince /\ cum = ZeroClock /\ fStable = ZeroClock
    /\ chans = access /\ fUserSeq = 0 /\ added = {} /\ todo = {}
    /\ log = [c \in Channels \cup {User} |-> <<>>]
    /\ stage = [c \in Channels |-> "none"]
    /\ postStable = FALSE /\ sentSomething = FALSE
    /\ hashCount = 0 /\ lastHash = ZeroClock
    /\ got = {} /\ lastSent = NoSince /\ feeds = 0
    /\ excused = {} /\ staleUser = FALSE

(* A document of the channels cs is written, and its entries and the       *)
(* clocks of its channels reach the index; it may grant a channel.         *)
Mutations == MapThenSumSet(LAMBDA v : head[v], Vbs) - 1

Mutate(v, cs, granted) ==
    LET s == head[v] + 1
    IN  /\ Mutations < MaxMutations
        /\ head' = [head EXCEPT ![v] = s]
        /\ member' = [c \in Channels |-> IF c \in cs THEN member[c] \cup {<<v, s>>}
                                         ELSE member[c]]
        /\ chClock' = [c \in Channels |-> IF c \in cs THEN [chClock[c] EXCEPT ![v] = s]
                                          ELSE chClock[c]]
        /\ access' = [c \in Channels |-> IF c \in granted THEN Stamped(v, s) ELSE access[c]]
        /\ UNCHANGED <<stable, userSeq, readerVars, feedVars>>

(* An administrator adds a channel to the user's document.                 *)
AdminGrant(c) ==
    /\ Mutations < MaxMutations
    /\ head' = [head EXCEPT ![UserVb] = @ + 1]
    /\ access' = [access EXCEPT ![c] = [vb |-> UserVb, seq |-> head[UserVb] + 1,
                                        stamped |-> FALSE]]
    /\ UNCHANGED <<member, chClock, stable, userSeq, readerVars, feedVars>>

(* The stable clock follows; the grants of the user's document are stamped *)
(* and the principals that changed are counted.                            *)
WriteStable ==
    LET unstamped == {c \in Grants : ~access[c].stamped}
    IN  /\ stable # head
        /\ stable' = head /\ counterMoved' = TRUE
        /\ access' = [c \in Channels |-> IF c \in unstamped
                                         THEN [access[c] EXCEPT !.stamped = TRUE]
                                         ELSE access[c]]
        /\ userSeq' = Max({userSeq} \cup {access[c].seq : c \in unstamped})
        /\ principals' = IF /\ principals = "current"
                            /\ \E c \in Grants : access[c].seq > stable[access[c].vb]
                         THEN "changed" ELSE principals
        /\ UNCHANGED <<head, member, chClock, rStable, readers, polling, notified,
                       feedVars>>

AccelStep ==
    \/ \E v \in Vbs, cs \in ChannelSets : Mutate(v, cs, {})
    \/ \E v \in Vbs, cs \in ChannelSets \cup {{}}, c \in Channels \ Grants : Mutate(v, cs, {c})
    \/ \E c \in Channels \ Grants : AdminGrant(c)
    \/ WriteStable

-----------------------------------------------------------------------------
(* The gateway polls the index.                                            *)

(* stableSequenceChanged: ShardedClock.Load, when its counter moved.       *)
StableSequenceChanged ==
    /\ polling = "idle" /\ polling' = "poll"
    /\ counterMoved /\ counterMoved' = FALSE
    /\ rStable' = stable
    /\ UNCHANGED <<indexVars, readers, principals, notified, feedVars>>

(* pollForChanges on the clock the bulk read returned for the channel.  It *)
(* is rolled back to the stable clock where it is later than that.         *)
NewReader(c) == [loaded |-> chClock[c], clock |-> None, unread |-> 0, post |-> FALSE]

Polled(r, clock) ==
    LET first == IF r.clock # None THEN r
                 ELSE [r EXCEPT !.clock = r.loaded, !.post = TRUE]
        later == {v \in Vbs : first.clock[v] < clock[v]}
        post  == {v \in later : rStable[v] < clock[v]}
        to    == [v \in Vbs |-> IF v \in post THEN rStable[v] ELSE clock[v]]
        changed == \E v \in later : first.clock[v] < to[v]
        unread == IF r.unread > 0 THEN r.unread + 1 ELSE 0
    IN  IF r.unread > kMaxUnreadPollCount THEN [reader |-> None, changes |-> FALSE]
        ELSE IF ~changed /\ ~first.post
        THEN [reader |-> [first EXCEPT !.unread = unread], changes |-> FALSE]
        ELSE [reader |-> [first EXCEPT !.clock = to, !.post = post # {},
                                       !.unread = IF unread = 0 THEN 1 ELSE unread],
              changes |-> TRUE]

(* The keys notified since the feed's waiter last returned: a key's count  *)
(* only goes up, so these are what makes the next Wait return.             *)
Notify(keys) == notified' = IF pc \in {"off", "authenticated"} THEN {} ELSE notified \cup keys

(* pollReaders and pollPrincipals run side by side; neither reads what the *)
(* other writes.  One user has feeds, so its count and the overall count   *)
(* of changed principals move together.                                    *)
PolledReaders ==
    [c \in {d \in Channels : readers[d] # None} |-> Polled(readers[c], chClock[c])]

PolledPrincipals == IF principals = "changed" THEN {User} ELSE {}

Poll ==
    /\ polling = "poll" /\ polling' = "idle"
    /\ readers' = [c \in Channels |-> IF c \in DOMAIN PolledReaders
                                      THEN PolledReaders[c].reader ELSE None]
    /\ principals' = IF principals = "changed" THEN "current" ELSE principals
    /\ Notify({c \in DOMAIN PolledReaders : PolledReaders[c].changes} \cup PolledPrincipals)
    /\ UNCHANGED <<indexVars, rStable, counterMoved, feedVars>>

-----------------------------------------------------------------------------
(* Reading a channel of the index.                                         *)

(* GetChangesForRange gets or creates the channel's reader; someone is     *)
(* still interested in the channel, so its count of unread polls restarts. *)
GetOrCreateReader(c) ==
    readers' = [readers EXCEPT ![c] = IF @ = None THEN NewReader(c)
                                      ELSE [@ EXCEPT !.unread = 0]]

(* The clock last polled; before the first poll, the stored one.           *)
ReaderClock(c) ==
    IF readers[c] # None /\ readers[c].clock # None THEN readers[c].clock ELSE chClock[c]

VbBefore(e, f) == e[1] < f[1] \/ (e[1] = f[1] /\ e[2] < f[2])
InOrder(entries) == SetToSortSeq(entries, VbBefore)
FirstOf(n, entries) == IF n = 0 THEN InOrder(entries)
                       ELSE SubSeq(InOrder(entries), 1, Min({n, Cardinality(entries)}))

(* Entries after from that the reader returns up to the clock to.          *)
GetChangesForRange(c, from, to) ==
    FirstOf(limit, Through(c, from, LimitTo(to, ReaderClock(c))))

(* Those up to the clock to that it does not return because the poll after *)
(* the stable clock moved has not reached the channel.                     *)
Unpolled(c, from, to) == Through(c, from, to) \ Through(c, from, ReaderClock(c))

-----------------------------------------------------------------------------
(* The feed.                                                               *)

Item(kind, e, trigger) == [kind |-> kind, at |-> e, trigger |-> trigger]
Items(kind, es, trigger) == [i \in 1..Len(es) |-> Item(kind, es[i], trigger)]
Position(a) == <<a.vb, SeqAddedAt(a)>>
SinceClock(s) == IF s.trigger # None THEN s.trigger.clock ELSE s.clock

(* The request is authenticated: the user is loaded.                       *)
StartFeed(m, n) ==
    /\ pc = "off" /\ feeds < MaxFeeds
    /\ pc' = "authenticated" /\ feeds' = feeds + 1
    /\ mode' = m /\ limit' = n /\ since' = lastSent
    /\ chans' = access /\ fUserSeq' = userSeq
    /\ UNCHANGED <<indexVars, readerVars, added, roundVars, cum,
                   postStable, sentSomething, hashCount, lastHash, got, lastSent, ghostVars>>

(* The stable clock last polled; before the first poll, the stored one.    *)
GetStableClock == IF rStable = None THEN stable ELSE rStable

(* appendVectorUserFeed                                                    *)
UserFeed(seq) == IF SinceClock(since)[UserVb] < seq
                 THEN <<Item("entry", <<UserVb, seq>>, None)>> ELSE <<>>

(* A round of the feed: nothing later than its stable clock is sent in it. *)
StartRound ==
    /\ pc' = "round"
    /\ fStable' = GetStableClock
    /\ todo' = {c \in Channels : chans'[c] # None}
    /\ log' = [c \in DOMAIN log |-> IF c = User THEN UserFeed(fUserSeq') ELSE <<>>]
    /\ stage' = [c \in Channels |-> "none"]
    /\ postStable' = FALSE /\ sentSomething' = FALSE
    /\ UNCHANGED <<indexVars, rStable, counterMoved, readers, polling, mode,
                   since, limit, hashCount, lastHash, clientVars, excused>>

(* The count of the user's changes is polled from its first waiter on.     *)
AddActivePrincipals == principals' = IF principals = "unknown" THEN "current" ELSE principals

(* With a change waiter the user is loaded again, but the channels stay    *)
(* the ones of the user first loaded.                                      *)
InitializeFeed ==
    /\ pc = "authenticated"
    /\ cum' = SinceClock(since)
    /\ IF mode = "normal"
       THEN UNCHANGED <<principals, fUserSeq, staleUser>>
       ELSE /\ AddActivePrincipals
            /\ fUserSeq' = userSeq
            /\ staleUser' = (chans # access)
    /\ notified' = {}
    /\ UNCHANGED <<chans, added>>
    /\ StartRound

(* calculateBackfillRange: what is left of a backfill at a position.       *)
BackfillFrom(trigger, pos) ==
    [v \in Vbs |-> IF v < pos[1] THEN trigger.clock[v]
                   ELSE IF v > pos[1] THEN 0 ELSE pos[2]]

(* Whether the since value is one of the channel's own backfill, and       *)
(* whether the channel was granted after it.                               *)
BackfillInProgress(s, a) ==
    /\ s.trigger # None
    /\ s.trigger.vb = a.vb /\ s.trigger.clock[a.vb] = SeqAddedAt(a) - 1

BackfillRequired(s, a) == SinceClock(s)[a.vb] < SeqAddedAt(a)

Skip(c) == UNCHANGED <<readers, log, stage, excused>>

PendingBackfill(c) ==
    /\ stage' = [stage EXCEPT ![c] = "pending"]
    /\ excused' = IF BackfillRequired(since, chans[c]) THEN excused
                  ELSE excused \cup member[c]          \* added after its trigger passed
    /\ UNCHANGED <<readers, log>>

(* With nothing left of the channel the feed is closed empty, without the  *)
(* notification of completion.                                             *)
ActiveBackfill(c) ==
    LET trigger  == [since.trigger EXCEPT !.seq = SeqAddedAt(chans[c])]
        from     == BackfillFrom(trigger, since.pos)
        backfill == GetChangesForRange(c, from, trigger.clock)
        others   == IF limit = 0 \/ Len(backfill) < limit
                    THEN GetChangesForRange(c, trigger.clock, head) ELSE <<>>
        complete == IF backfill = <<>> /\ others = <<>> THEN <<>>
                    ELSE <<Item("complete", Position(chans[c]), None)>>
    IN  /\ log' = [log EXCEPT ![c] = Items("entry", backfill, trigger) \o complete
                                     \o Items("entry", others, None)]
        /\ excused' = excused \cup Unpolled(c, from, fStable)
        /\ GetOrCreateReader(c) /\ UNCHANGED stage

StandardFeed(c) ==
    /\ log' = [log EXCEPT ![c] = Items("entry", GetChangesForRange(c, SinceClock(since),
                                                                   fStable), None)]
    /\ excused' = excused \cup Unpolled(c, SinceClock(since), fStable)
    /\ GetOrCreateReader(c) /\ UNCHANGED stage

InitializeChannelFeed(c) ==
    LET a == chans[c]
        s == SeqAddedAt(a)
        later == s # 0 /\ BackfillRequired(since, a) /\ fStable[a.vb] < s
    IN  /\ c \in todo /\ todo' = todo \ {c}
        /\ postStable' = (postStable \/ later)
        /\ \/ (s = 0 \/ later) /\ Skip(c)
           \/ /\ s # 0 /\ ~later
              /\ \/ /\ c \in added \/ (BackfillRequired(since, a)
                                       /\ ~BackfillInProgress(since, a))
                    /\ PendingBackfill(c)
                 \/ c \notin added /\ BackfillInProgress(since, a) /\ ActiveBackfill(c)
                 \/ /\ c \notin added /\ ~BackfillRequired(since, a)
                    /\ StandardFeed(c)
        /\ UNCHANGED <<indexVars, rStable, counterMoved, principals, polling, notified, pc,
                       requestVars, fStable, limit, cum, sentSomething, hashCount,
                       lastHash, clientVars, staleUser>>

-----------------------------------------------------------------------------
(* The rounds of a feed: the logs are merged.                              *)

(* The goroutine of a pending backfill blocks on the second of its three   *)
(* notifications until the first one was taken.                            *)
Pending == {c \in Channels : stage[c] = "pending"}
HeadItem(c) == IF c \in Pending THEN Item("pending", Position(chans[c]), None)
               ELSE Head(log[c])
Nonempty == Pending \cup {c \in DOMAIN log : log[c] # <<>>}

(* VectorChangesBefore                                                     *)
ItemBefore(x, y) ==
    CASE x.trigger # None                     -> y.trigger = None \/ VbBefore(x.at, y.at)
      [] x.trigger = None /\ y.trigger # None -> FALSE
      [] OTHER -> IF x.kind = "complete" /\ y.kind # "complete" THEN x.at # y.at
                  ELSE IF x.kind # "complete" /\ y.kind = "complete" THEN x.at = y.at
                  ELSE VbBefore(x.at, y.at)

(* getNextSequenceFromFeeds scans the logs in the order of a map; that of  *)
(* the user's document is the last.                                        *)
FirstInScan(order) ==
    FoldLeft(LAMBDA m, c : IF ItemBefore(HeadItem(c), HeadItem(m)) THEN c ELSE m,
             Head(order), Tail(order))

Earliest ==
    LET users == IF User \in Nonempty THEN <<User>> ELSE <<>>
    IN  IF Nonempty = {} THEN {}
        ELSE {FirstInScan(order \o users) : order \in SetToSeqs(Nonempty \ {User})}

(* VectorChangesEquals, of items that are not pending: a notification of   *)
(* completion is dropped with the entry that triggered the backfill.       *)
SameItem(x, y) ==
    /\ x.at = y.at
    /\ x.trigger # None /\ y.trigger # None
          => x.trigger.vb = y.trigger.vb /\ x.trigger.seq = y.trigger.seq

Dropped(x) ==
    [c \in DOMAIN log |-> IF c \notin Pending /\ log[c] # <<>> /\ SameItem(Head(log[c]), x)
                          THEN Tail(log[c]) ELSE log[c]]

Merging == pc = "round" /\ todo = {} /\ \A c \in Channels : stage[c] \in {"none", "pending"}

(* A pending notification compares equal to every other pending one, so    *)
(* all pending backfills start with the first whose trigger is reached.    *)
Started(c) == Pending

CatchUp ==
    \E c \in Earliest :
        LET before(d) == {e \in UNION {member[k] : k \in Channels} :
                             /\ e[1] = chans[d].vb /\ e[2] <= SeqAddedAt(chans[d])
                             /\ e \notin got}
            early == Started(c) \ {c}
        IN  /\ Merging /\ c \in Pending
            /\ stage' = [d \in Channels |-> IF d \in Started(c) THEN "calculate"
                                            ELSE stage[d]]
            /\ excused' = excused \cup UNION {before(d) : d \in early}
            /\ UNCHANGED <<indexVars, readerVars, pc, requestVars, fStable, todo, log,
                           sendVars, clientVars, staleUser>>

(* The goroutine adds the sequence before the trigger to the feed's clock  *)
(* and reads the backfill up to that clock ...                             *)
AtTrigger(a) == SeqAddedAt(a)

BeforeTrigger(a) == SeqAddedAt(a) - 1

CalculateBackfill(c) ==
    LET a == chans[c]
        clock == SetMaxSequence(cum, a.vb, BeforeTrigger(a))
        trigger == [clock |-> clock, vb |-> a.vb, seq |-> SeqAddedAt(a)]
        backfill == GetChangesForRange(c, ZeroClock, clock)
    IN  /\ stage[c] = "calculate"
        /\ stage' = [stage EXCEPT ![c] = "remainder"]
        /\ cum' = clock
        /\ log' = [log EXCEPT ![c] = Items("entry", backfill, trigger)
                                     \o <<Item("complete", Position(a), None)>>]
        /\ excused' = excused \cup Unpolled(c, ZeroClock, clock)
        /\ GetOrCreateReader(c)
        /\ UNCHANGED <<indexVars, rStable, counterMoved, principals, polling, notified, pc,
                       requestVars, fStable, todo, limit, postStable, sentSomething,
                       hashCount, lastHash, clientVars, staleUser>>

(* ... and then the rest from that clock on, which another backfill may    *)
(* have moved in between.                                                  *)
CalculateRemainder(c) ==
    LET backfill == Len(log[c]) - 1
        read == IF backfill = 0 THEN cum ELSE log[c][1].trigger.clock
    IN  /\ stage[c] = "remainder"
        /\ stage' = [stage EXCEPT ![c] = "none"]
        /\ log' = IF limit = 0 \/ backfill < limit
                  THEN [log EXCEPT ![c] = @ \o Items("entry",
                                                GetChangesForRange(c, cum, fStable), None)]
                  ELSE log
        /\ excused' = excused \cup Unpolled(c, cum, fStable) \cup Through(c, read, cum)
        /\ GetOrCreateReader(c)
        /\ UNCHANGED <<indexVars, rStable, counterMoved, principals, polling, notified, pc,
                       requestVars, fStable, todo, sendVars, clientVars, staleUser>>

(* When hashing the clock or reading the index fails, the goroutine only   *)
(* closes its feed: the feed's clock passes the trigger and the entries of *)
(* the backfill are never sent.  When the channel has no reader yet, none  *)
(* is made, and a feed that waits is not told of the channel's later       *)
(* entries (the mark <<c>> in excused).                                    *)
BackfillError(c) ==
    /\ stage[c] \in {"calculate", "remainder"}
    /\ stage' = [stage EXCEPT ![c] = "none"]
    /\ cum' = IF stage[c] = "remainder" THEN cum
              ELSE SetMaxSequence(cum, chans[c].vb, BeforeTrigger(chans[c]))
    /\ log' = [log EXCEPT ![c] = <<>>]
    /\ excused' = excused \cup member[c] \cup (IF readers[c] = None THEN {<<c>>} ELSE {})
    /\ UNCHANGED <<indexVars, readerVars, pc, requestVars, fStable, todo, limit,
                   postStable, sentSomething, hashCount, lastHash, clientVars, staleUser>>

(* clockSeqToString: the identifier of an entry is a hash of a clock, or   *)
(* the hash of its trigger's clock, the vbucket of the trigger and the     *)
(* position of the entry.  The sequence of the trigger is not part of it.  *)
ClockSeqToString(x, hash) ==
    IF x.trigger # None THEN <<x.trigger.clock, x.trigger.vb, x.at>> ELSE <<hash>>

(* parseClockSequenceID                                                    *)
ParseClockSequenceID(id) ==
    IF Len(id) = 1 THEN [NoSince EXCEPT !.clock = id[1]]
    ELSE [NoSince EXCEPT !.trigger = [clock |-> id[1], vb |-> id[2], seq |-> 0], !.pos = id[3]]

(* calculateHashWhenNeeded, and the since value that the client has then:  *)
(* an entry without a trigger is sent with the clock that was hashed last. *)
Hashed(x, clock, force) ==
    /\ IF x.trigger # None THEN UNCHANGED <<hashCount, lastHash>>
       ELSE LET due == hashCount = 0 \/ force
            IN  /\ lastHash' = IF due THEN clock ELSE lastHash
                /\ hashCount' = IF due THEN HashFrequency ELSE hashCount - 1
    /\ lastSent' = ParseClockSequenceID(ClockSeqToString(x, lastHash'))

(* Entries of channels whose grant the feed's clock passes unseen: of      *)
(* channels it does not know of yet, or whose trigger is the entry sent.   *)
Overtaken(x, clock) ==
    UNION {IF chans[c] = None \/ SeqAddedAt(chans[c]) = 0
           THEN IF access[c].seq <= clock[access[c].vb]
                THEN {e \in member[c] : At(clock, e)} ELSE {}
           ELSE IF c \in Pending /\ Position(chans[c]) = x.at THEN member[c] ELSE {}
           : c \in Grants}

Send(c, x) ==
    LET clock == SetMaxSequence(cum, x.at[1], x.at[2])
        rest  == Dropped(x)
        final == Pending = {} /\ \A d \in DOMAIN rest : rest[d] = <<>>
    IN  /\ log' = rest /\ cum' = clock
        /\ Hashed(x, clock, mode # "continuous" /\ (final \/ limit = 1))
        /\ got' = IF c = User THEN got ELSE got \cup {x.at}
        /\ excused' = excused \cup Overtaken(x, clock)
        /\ sentSomething' = TRUE
        /\ limit' = IF limit > 0 THEN limit - 1 ELSE 0
        /\ pc' = IF limit = 1 THEN "ended" ELSE pc
        /\ UNCHANGED postStable

(* An entry later than the stable clock of the round waits for another.    *)
MergeEntry ==
    \E c \in Earliest :
        LET x == HeadItem(c)
        IN  /\ Merging /\ x.kind # "pending"
            /\ IF x.kind = "complete"
               THEN /\ log' = Dropped(x)
                    /\ cum' = SetMaxSequence(cum, x.at[1], x.at[2])
                    /\ excused' = excused \cup ({x.at} \cap member[c])
                    /\ UNCHANGED <<pc, limit, postStable, sentSomething, hashCount,
                                   lastHash, got, lastSent>>
               ELSE IF ~At(fStable, x.at)
               THEN /\ log' = Dropped(x) /\ postStable' = TRUE
                    /\ UNCHANGED <<pc, limit, cum, sentSomething, hashCount, lastHash,
                                   got, lastSent, excused>>
               ELSE Send(c, x)
            /\ UNCHANGED <<indexVars, readerVars, requestVars, fStable, todo, stage,
                           feeds, staleUser>>

EndRound ==
    /\ Merging /\ Nonempty = {}
    /\ IF mode # "continuous" /\ (sentSomething \/ mode = "normal")
       THEN pc' = "ended" /\ UNCHANGED since
       ELSE pc' = "wait" /\ since' = [since EXCEPT !.clock = cum]
    /\ UNCHANGED <<indexVars, readerVars, mode, fUserSeq, chans, added, roundVars,
                   sendVars, clientVars, ghostVars>>

(* After entries later than the stable clock the feed only sleeps.  The    *)
(* user is loaded again when its count went up; by a feed that is not      *)
(* continuous, always.                                                     *)
Wait ==
    LET keys == {User} \cup {c \in Channels : chans[c] # None}
        userChanged == ~postStable /\ User \in notified
    IN  /\ pc = "wait"
        /\ postStable \/ notified \cap keys # {}
        /\ IF userChanged \/ mode # "continuous"
           THEN /\ chans' = access /\ fUserSeq' = userSeq
                /\ added' = {c \in Channels : chans[c] = None /\ access[c] # None}
                /\ staleUser' = FALSE
           ELSE added' = {} /\ UNCHANGED <<chans, fUserSeq, staleUser>>
        /\ notified' = IF postStable THEN notified ELSE {}
        /\ UNCHANGED <<cum, principals>>
        /\ StartRound

(* The client has its answer or leaves, or the user or the index could not *)
(* be read; the client comes back with the since value of the last entry   *)
(* it got.                                                                 *)
EndFeed ==
    /\ pc # "off"
    /\ pc' = "off"
    /\ mode' = "normal" /\ limit' = 0 /\ since' = NoSince
    /\ cum' = ZeroClock /\ fStable' = ZeroClock
    /\ chans' = access /\ fUserSeq' = 0 /\ added' = {} /\ todo' = {}
    /\ log' = [c \in DOMAIN log |-> <<>>] /\ stage' = [c \in Channels |-> "none"]
    /\ postStable' = FALSE /\ sentSomething' = FALSE
    /\ hashCount' = 0 /\ lastHash' = ZeroClock /\ notified' = {} /\ staleUser' = FALSE
    /\ UNCHANGED <<indexVars, rStable, counterMoved, readers, principals, polling,
                   clientVars, excused>>

RoundStep ==
    \/ InitializeFeed \/ CatchUp \/ MergeEntry \/ EndRound \/ Wait
    \/ \E c \in Channels : \/ InitializeChannelFeed(c) \/ CalculateBackfill(c)
                           \/ CalculateRemainder(c)
                           \/ BackfillError(c)

IndexFeedNext ==
    \/ AccelStep \/ StableSequenceChanged \/ Poll \/ RoundStep \/ EndFeed
    \/ \E o \in FeedOptions : StartFeed(o[1], o[2])

(* The index is written, the gateway polls and a feed that can go on does; *)
(* no client has to ask, to leave or to stay.                              *)
IndexFeedFairness ==
    /\ WF_indexFeedVars(WriteStable) /\ WF_indexFeedVars(RoundStep)
    /\ WF_indexFeedVars(StableSequenceChanged) /\ WF_indexFeedVars(Poll)

IndexFeedSpec == IndexFeedInit /\ [][IndexFeedNext]_indexFeedVars /\ IndexFeedFairness

-----------------------------------------------------------------------------
(* Properties.                                                             *)

(* What a feed that starts with the since value s would not send again of  *)
(* the channel's entries.                                                  *)
NotResent(s, c) ==
    LET a == access[c]
    IN  CASE BackfillInProgress(s, a) ->
                 {e \in member[c] : At(BackfillFrom(s.trigger, s.pos), e)}
          [] ~BackfillInProgress(s, a) /\ BackfillRequired(s, a) -> {}
          [] OTHER -> {e \in member[c] : At(SinceClock(s), e)}

(* A client may start a new feed from any since value it was sent: what    *)
(* that feed leaves out, of every channel the user has by then, the client *)
(* already got ("restart a new changes feed based on any sequence").       *)
ResumeFromAnySequence ==
    \A c \in Grants : access[c].stamped => NotResent(lastSent, c) \subseteq got

IndexFeedTypeOK ==
    LET clocks == [Vbs -> Nat]
    IN  /\ {head, stable, cum, fStable, lastHash} \cup Range(chClock) \subseteq clocks
        /\ rStable \in clocks \cup {None}
        /\ \A c \in Channels : readers[c] # None => readers[c].loaded \in clocks
        /\ polling \in {"idle", "poll"} /\ principals \in {"unknown", "current", "changed"}
        /\ pc \in {"off", "authenticated", "round", "wait", "ended"}
        /\ stage \in [Channels -> {"none", "pending", "calculate", "remainder"}]
        /\ lastSent.clock \in clocks /\ hashCount \in 0..HashFrequency

(* The same, but for the entries the races named above let it lose.        *)
IndexResumeSafe ==
    /\ IndexFeedTypeOK
    /\ \A c \in Grants : access[c].stamped => NotResent(lastSent, c) \subseteq got \cup excused

(* The clock of a reader is not rolled back to the stable clock when the   *)
(* reader is made: the poll that could tell of an entry beyond the stable  *)
(* clock of the round finds that clock unchanged.                          *)
LoadedAhead == \E c \in Channels :
                   readers[c] # None /\ \E v \in Vbs : fStable[v] < readers[c].loaded[v]

(* A continuous feed that stays sends every entry of the user's channels,  *)
(* unless the user changed before the feed waited for it, a reader was     *)
(* made ahead of the stable clock, or a backfill failed before the channel *)
(* had a reader.                                                           *)
AllSent ==
    \/ pc \in {"off", "ended"} \/ mode # "continuous" \/ limit > 0 \/ staleUser
    \/ LoadedAhead
    \/ \A c \in Grants : <<c>> \notin excused => member[c] \subseteq got \cup excused

IndexFeedDelivers == <>[]AllSent

=============================================================================
