----------------------------- MODULE FeedProofs -----------------------------
(***************************************************************************)
(* Proofs about the changes feed, for any number of channels, sequences    *)
(* and requests: what a client has not got is ahead of the identifier it   *)
(* holds, late entries are kept for a continuous feed, and the feed        *)
(* implements at-least-once delivery.                                      *)
(***************************************************************************)
EXTENDS ChangesFeed, WellFoundedInduction, SequenceTheorems, TLAPS

(* The identifier the client holds, as the next request parses it.         *)
ClientId == ParseIntegerSequenceID(lastId)

Got == received \cup missed
Running == feed.pc # "ended"
Reading == feed.pc \in {"reading", "late"}
Continuous == feed.mode = "continuous"

(* The channels the feed reads as the user has them now.                   *)
Served(c) == access[c] # 0 /\ feed.chans[c] = access[c]

(* Where the feed reads channel c from.                                    *)
Start(c) == SafeSequence(ChannelSince(feed.since, feed.chans[c], c \in feed.added))

(* The channel has been read in this iteration.                            *)
ReadNow(c) == Reading /\ c \notin feed.todo /\ feed.chans[c] \in 1..feed.stable

LateRecords == [pos : 0..MaxSeq, active : BOOLEAN, open : BOOLEAN]
FeedRecords ==
    [pc : {"ended", "begin", "reading", "late"}, mode : Modes,
     since : SequenceIDs(MaxSeq), stable : 0..MaxSeq, low : 0..MaxSeq,
     requestLow : 0..MaxSeq, chans : [Channels -> 0..MaxSeq], userSeq : 0..MaxSeq,
     added : SUBSET Channels, todo : SUBSET Channels, at : Channels \cup {None},
     batch : SUBSET SequenceIDs(MaxSeq), late : [Channels -> LateRecords],
     sent : BOOLEAN]
LogEntries == [seq : 0..MaxSeq, listeners : Nat]

(* An identifier up to `limit': a low sequence is below the sequence, a    *)
(* backfilled sequence below the one that triggered the backfill.          *)
IdUpTo(id, limit) ==
    /\ id \in SequenceIDs(MaxSeq)
    /\ id.seq <= limit /\ id.triggeredBy <= limit
    /\ id.lowSeq # 0 => id.lowSeq < id.seq
    /\ id.triggeredBy # 0 => id.seq < id.triggeredBy /\ id.triggeredBy > 1

(* The entries of a late log are different, and only the first may be the  *)
(* one the log starts with.                                                *)
LogShape(log) ==
    /\ log \in Seq(LogEntries) /\ Len(log) > 0
    /\ \A i, j \in 1..Len(log) : log[i].seq = log[j].seq => i = j
    /\ \A i \in 2..Len(log) : log[i].seq > 0

(* No sequence that may still arrive late is in a log.                     *)
LogOK(log) ==
    /\ LogShape(log)
    /\ \A i \in 1..Len(log) :
          log[i].seq < next /\ (log[i].seq \in skipped => log[i].seq = finishing)

(* Position p of the log is in use.                                        *)
ListenedTo(log, p) ==
    \E i \in 1..Len(log) : log[i].seq = p /\ log[i].listeners > 0

(* The shared state: sequences that were seen are below `next'.            *)
WorldOK ==
    /\ next \in 2..(MaxSeq + 1)
    /\ skipped \subseteq 2..(next - 1) /\ finishing \in {0} \cup skipped
    /\ cache \in [Channels -> SUBSET (1..(next - 1))]
    /\ DOMAIN lateLogs = Channels /\ \A c \in Channels : LogOK(lateLogs[c])
    /\ access \in [Channels -> 0..MaxSeq]
    /\ \A c \in Owned : access[c] = 1
    /\ access[GrantedChannel] # 1
    /\ userSeq \in 0..MaxSeq /\ userChanged \in BOOLEAN /\ revoked \in BOOLEAN
    /\ received \subseteq 1..MaxSeq /\ missed \subseteq 1..MaxSeq
    /\ IdUpTo(ClientId, next - 1)

(* The entries of a batch.                                                 *)
BatchOK ==
    \A id \in feed.batch :
        /\ id.lowSeq = 0 /\ id.seq > 0
        /\ id.triggeredBy \in {0, feed.chans[GrantedChannel]}
        /\ id.triggeredBy # 0 =>
              /\ id.seq < id.triggeredBy /\ id.triggeredBy <= feed.stable
              /\ GrantedChannel \notin feed.todo

FeedOK ==
    /\ feed \in FeedRecords
    /\ LatePositionKept
    /\ Running =>
          /\ feed.stable \in 1..(next - 1)
          /\ IdUpTo(feed.since, feed.stable)
          /\ \A c \in Owned : feed.chans[c] = 1
          /\ feed.chans[GrantedChannel] # 1
          /\ feed.todo \subseteq Available(feed.chans)
          /\ BatchOK
          /\ \A c \in Channels : feed.late[c].open =>
                Continuous /\ feed.chans[c] <= feed.stable
    /\ ~ Running => \A c \in Channels : ~ feed.late[c].open
    /\ feed.pc = "begin" => feed.todo = {} /\ feed.batch = {} /\ ~ feed.sent
    /\ feed.todo # {} \/ Continuous => ~ feed.sent
    /\ feed.pc = "late" =>
          Continuous /\ feed.at \in Channels \ feed.todo
          /\ feed.chans[feed.at] \in 1..feed.stable

(* A backfill is triggered by the one grant there is.                      *)
TriggerOK ==
    /\ access[GrantedChannel] = 0 /\ ~ revoked =>
          /\ ClientId.triggeredBy = 0
          /\ Running => /\ feed.chans[GrantedChannel] = 0 /\ feed.since.triggeredBy = 0
                        /\ ~ feed.late[GrantedChannel].open
    /\ access[GrantedChannel] # 0 =>
          /\ ClientId.triggeredBy \in {0, access[GrantedChannel]}
          /\ Running => /\ feed.chans[GrantedChannel] \in {0, access[GrantedChannel]}
                        /\ feed.since.triggeredBy \in {0, access[GrantedChannel]}
                        /\ feed.chans[GrantedChannel] = 0 =>
                              /\ feed.since.triggeredBy = 0 /\ ClientId.triggeredBy = 0
                              /\ ~ feed.late[GrantedChannel].open
    /\ Running /\ feed.chans[GrantedChannel] # 0 =>
          feed.since.triggeredBy \in {0, feed.chans[GrantedChannel]}

(* What may still arrive late is after the low sequence of the iteration.  *)
AfterLow(s) == s > feed.stable \/ (feed.low # 0 /\ s > feed.low)
SkippedOK == Reading => \A s \in skipped : AfterLow(s)

(* A longpoll reads from where the client is, but for a low sequence that  *)
(* is still that of the cache.                                             *)
LongpollOK ==
    Running /\ ~ Continuous /\ ~ feed.sent =>
        /\ feed.requestLow = ClientId.lowSeq
        /\ \/ feed.since = ClientId
           \/ /\ Reading /\ ClientId.lowSeq # 0 /\ ClientId.lowSeq = feed.low
              /\ feed.since = [ClientId EXCEPT !.lowSeq = 0]

LateOf(c) == LateSince(lateLogs[c], feed.late[c].pos)

InBatch(c, s) ==
    IF c = GrantedChannel THEN \E id \in feed.batch : id.seq = s
    ELSE SeqID(s) \in feed.batch

(* Before a continuous feed reads a channel.                               *)
AheadOK(c) ==
    IF feed.late[c].open
    THEN \A s \in cache[c] \ Got :
            (s > feed.since.seq /\ s > feed.since.triggeredBy) \/ s \in LateOf(c)
    ELSE \A s \in (cache[c] \cup IF feed.pc = "begin" THEN skipped ELSE {}) \ Got :
            s > Start(c)

(* A longpoll does not read again what follows an unchanged low sequence.  *)
LeftOut(c, s) ==
    /\ ~ Continuous /\ feed.low # 0
    /\ \/ s > feed.low
       \/ /\ c = GrantedChannel /\ feed.low < access[c]
          /\ \A id \in feed.batch : id.triggeredBy = 0

Pending(c, s) ==
    \/ InBatch(c, s) \/ s > feed.stable \/ LeftOut(c, s)
    \/ feed.late[c].open /\ s \in LateOf(c)

KnownOK ==
    \A c \in Channels :
        /\ Running /\ Continuous /\ Served(c) /\ (feed.pc = "begin" \/ c \in feed.todo) =>
              AheadOK(c)
        /\ Served(c) /\ ReadNow(c) => \A s \in cache[c] \ Got : Pending(c, s)
        /\ Continuous /\ ReadNow(c) /\ ~ (feed.pc = "late" /\ feed.at = c) =>
              /\ feed.late[c].open /\ feed.late[c].active
              /\ \A s \in LateOf(c) : AfterLow(s)

FeedInv ==
    /\ WorldOK /\ FeedOK /\ TriggerOK /\ SkippedOK /\ LongpollOK /\ KnownOK
    /\ ResumeSafe

-----------------------------------------------------------------------------
(* Identifiers.                                                            *)

(* A text is parsed back to its identifier, without a low sequence that is *)
(* not below the sequence.                                                 *)
LEMMA TextParsed ==
    ASSUME NEW id \in SequenceIDs(MaxSeq)
    PROVE  ParseIntegerSequenceID(IntSeqToString(id)) =
               [triggeredBy |-> id.triggeredBy,
                lowSeq |-> IF id.lowSeq > 0 /\ id.lowSeq < id.seq THEN id.lowSeq ELSE 0,
                seq |-> id.seq]
<1> USE ChangesFeedAssumption
<1>1. id.triggeredBy \in Nat /\ id.lowSeq \in Nat /\ id.seq \in Nat
  BY DEF SequenceIDs
<1>2. \A n \in Nat : ParseIntSequenceComponent(Component(n)) = n
  BY DEF ParseIntSequenceComponent, Component, Empty
<1>3. ParseIntSequenceComponent(Empty) = 0
  BY DEF ParseIntSequenceComponent
<1> HIDE DEF ParseIntSequenceComponent, Component, Empty
<1>4. CASE id.lowSeq > 0 /\ id.lowSeq < id.seq
  <2>1. CASE id.triggeredBy > 0
    BY <1>1, <1>2, <1>4, <2>1 DEF IntSeqToString, ParseIntegerSequenceID
  <2>2. CASE id.triggeredBy = 0
    BY <1>1, <1>2, <1>3, <1>4, <2>2 DEF IntSeqToString, ParseIntegerSequenceID
  <2>3. QED
    BY <1>1, <2>1, <2>2
<1>5. CASE ~ (id.lowSeq > 0 /\ id.lowSeq < id.seq)
  <2>1. CASE id.triggeredBy > 0
    BY <1>1, <1>2, <1>5, <2>1 DEF IntSeqToString, ParseIntegerSequenceID
  <2>2. CASE id.triggeredBy = 0
    BY <1>1, <1>2, <1>5, <2>2 DEF IntSeqToString, ParseIntegerSequenceID
  <2>3. QED
    BY <1>1, <2>1, <2>2
<1>6. QED
  BY <1>4, <1>5

(* The components of an identifier are numbers within its limit.           *)
LEMMA IdFacts ==
    ASSUME NEW m \in Nat, NEW id, IdUpTo(id, m)
    PROVE  /\ id.seq \in 0..MaxSeq /\ id.lowSeq \in 0..MaxSeq /\ id.triggeredBy \in 0..MaxSeq
           /\ id.seq \in Nat /\ id.lowSeq \in Nat /\ id.triggeredBy \in Nat
           /\ id = [triggeredBy |-> id.triggeredBy, lowSeq |-> id.lowSeq, seq |-> id.seq]
           /\ id.seq <= m /\ id.triggeredBy <= m
           /\ SafeSequence(id) \in 0..m /\ SafeSequence(id) <= id.seq
BY ChangesFeedAssumption DEF IdUpTo, SequenceIDs, SafeSequence

(* The sequence after which a channel is read that the user got at a.      *)
From(id, a) == SafeSequence(ChannelSince(id, a, FALSE))

(* Where a channel is read from that the user always had.                  *)
LEMMA OwnedSince ==
    ASSUME NEW m \in Nat, NEW id, IdUpTo(id, m)
    PROVE  From(id, 1) =
               IF id.triggeredBy # 0 THEN id.triggeredBy ELSE SafeSequence(id)
<1>1. /\ id.seq \in Nat /\ id.lowSeq \in Nat /\ id.triggeredBy \in Nat
      /\ id.triggeredBy # 0 => id.triggeredBy > 1
  BY IdFacts DEF IdUpTo
<1>2. QED
  BY <1>1 DEF From, ChannelSince, SafeSequence, SeqID

(* Where a granted channel is read from.                                   *)
LEMMA GrantedSince ==
    ASSUME NEW m \in Nat, NEW id, IdUpTo(id, m), NEW g \in Nat, g > 1,
           id.triggeredBy \in {0, g}
    PROVE  From(id, g) =
               IF id.triggeredBy = 0 /\ SafeSequence(id) < g THEN 0 ELSE SafeSequence(id)
<1>1. /\ id.seq \in Nat /\ id.lowSeq \in Nat /\ id.triggeredBy \in Nat
  BY IdFacts DEF IdUpTo
<1>2. QED
  BY <1>1 DEF From, ChannelSince, SafeSequence, SeqID, Triggered, Before

-----------------------------------------------------------------------------
(* The late log.                                                           *)

(* The least of a set of numbers.                                          *)
LEMMA LeastFacts ==
    ASSUME NEW T, T \subseteq Nat, T # {}
    PROVE  Min(T) \in T /\ \A y \in T : Min(T) <= y
<1> DEFINE R == OpToRel(<, Nat)
<1>1. IsWellFoundedOn(R, Nat)
  BY NatLessThanWellFounded
<1>2. PICK x \in T : \A y \in T : ~ (<<y, x>> \in R)
  <2> HIDE DEF R
  <2>1. QED
    BY <1>1, WFMin
<1>3. \A y \in T : x <= y
  <2>1. ASSUME NEW y \in T PROVE x <= y
    <3>1. ~ (y < x)
      BY <1>2 DEF OpToRel
    <3>2. x \in Nat /\ y \in Nat
      OBVIOUS
    <3>3. QED
      BY <3>1, <3>2
  <2>2. QED
    BY <2>1
<1>4. QED
  BY <1>3 DEF Min

(* What follows an entry of a log.                                         *)
After(log, i) == {log[j].seq : j \in (i + 1)..Len(log)}

(* The place of a position is unique.                                      *)
LEMMA LateFacts ==
    ASSUME NEW log, LogShape(log), NEW i \in 1..Len(log), NEW p, log[i].seq = p
    PROVE  /\ Position(log, p) = {i}
           /\ Min(Position(log, p)) = i
           /\ LateSince(log, p) = After(log, i)
<1>1. Position(log, p) = {i}
  BY DEF Position, LogShape
<1>2. Min({i}) = i
  BY LeastFacts
<1>3. QED
  BY <1>1, <1>2 DEF LateSince, After

(* Nothing follows the last entry.                                         *)
LEMMA LastFacts ==
    ASSUME NEW log, LogShape(log)
    PROVE  /\ Len(log) \in 1..Len(log) /\ Last(log) = log[Len(log)]
           /\ Last(log).seq \in 0..MaxSeq
           /\ LateSince(log, Last(log).seq) = {}
<1>1. Len(log) \in 1..Len(log) /\ log[Len(log)] \in LogEntries
  BY DEF LogShape
<1>2. LateSince(log, log[Len(log)].seq) = After(log, Len(log))
  BY <1>1, LateFacts
<1>3. (Len(log) + 1)..Len(log) = {}
  BY <1>1
<1>4. QED
  BY <1>1, <1>2, <1>3 DEF Last, LogEntries, After

(* Two logs with the same entries, but for who listens.                    *)
SameEntries(log, new) ==
    /\ new \in Seq(LogEntries) /\ Len(new) = Len(log)
    /\ \A i \in 1..Len(log) : new[i].seq = log[i].seq

(* What is late does not depend on who listens.                            *)
LEMMA SameLate ==
    ASSUME NEW log, LogShape(log), NEW new, SameEntries(log, new)
    PROVE  /\ LogShape(new)
           /\ LogOK(log) => LogOK(new)
           /\ \A p : ListenedTo(log, p) => LateSince(new, p) = LateSince(log, p)
<1>1. LogShape(new)
  BY DEF LogShape, SameEntries
<1>2. LogOK(log) => LogOK(new)
  BY <1>1 DEF LogOK, SameEntries
<1>3. ASSUME NEW p, ListenedTo(log, p)
      PROVE  LateSince(new, p) = LateSince(log, p)
  <2>1. PICK i \in 1..Len(log) : log[i].seq = p
    BY <1>3 DEF ListenedTo
  <2>2. i \in 1..Len(new)
    BY <2>1 DEF SameEntries
  <2>p. new[i].seq = p
    BY <2>1 DEF SameEntries
  <2>3. LateSince(log, p) = After(log, i)
    BY <2>1, LateFacts
  <2>4. LateSince(new, p) = After(new, i)
    BY <1>1, <2>2, <2>p, LateFacts
  <2>5. \A j \in (i + 1)..Len(log) : new[j].seq = log[j].seq
    BY DEF SameEntries, LogShape
  <2>6. Len(new) = Len(log)
    BY DEF SameEntries
  <2>7. QED
    BY <2>3, <2>4, <2>5, <2>6 DEF After
<1>4. QED
  BY <1>1, <1>2, <1>3

(* A log where d listeners come to entry i.                                *)
Counted(log, i, d) == [log EXCEPT ![i].listeners = @ + d]

(* The listeners of an entry change.                                       *)
LEMMA CountChanged ==
    ASSUME NEW log, LogShape(log), NEW i \in 1..Len(log), NEW d \in Int,
           log[i].listeners + d \in Nat,
           NEW new, new = Counted(log, i, d)
    PROVE  /\ SameEntries(log, new)
           /\ new[i].listeners = log[i].listeners + d
           /\ \A j \in 1..Len(log) : j # i => new[j] = log[j]
<1> DEFINE e == [seq |-> log[i].seq, listeners |-> log[i].listeners + d]
<1>1. log \in Seq(LogEntries) /\ log[i] \in LogEntries
  BY DEF LogShape
<1>2. e \in LogEntries /\ e.seq = log[i].seq /\ e.listeners = log[i].listeners + d
  BY <1>1 DEF LogEntries
<1>3. new = [log EXCEPT ![i] = e]
  <2>0. ASSUME NEW r \in LogEntries
        PROVE  [r EXCEPT !.listeners = @ + d] = [seq |-> r.seq, listeners |-> r.listeners + d]
    BY DEF LogEntries
  <2>1. [log[i] EXCEPT !.listeners = @ + d] = e
    BY <1>1, <2>0
  <2>2. new = [log EXCEPT ![i] = [log[i] EXCEPT !.listeners = @ + d]]
    BY <1>1 DEF Counted
  <2>3. QED
    BY <2>1, <2>2
<1> HIDE DEF e
<1>4. /\ new \in Seq(LogEntries) /\ Len(new) = Len(log)
      /\ \A j \in 1..Len(log) : new[j] = IF j = i THEN e ELSE log[j]
  BY <1>1, <1>2, <1>3, ExceptSeq
<1>5. QED
  BY <1>2, <1>4 DEF SameEntries

(* A listener is added at the last entry.                                  *)
LEMMA AddListenerFacts ==
    ASSUME NEW log, LogShape(log), NEW new, new = AddListener(log)
    PROVE  /\ SameEntries(log, new)
           /\ ListenedTo(new, Last(log).seq)
           /\ \A p : ListenedTo(log, p) => ListenedTo(new, p)
<1> DEFINE n == Len(log)
<1>1. n \in 1..Len(log) /\ log[n] \in LogEntries /\ Last(log) = log[n]
  BY LastFacts DEF LogShape
<1>2. log[n].listeners \in Nat /\ 1 \in Int
  BY <1>1 DEF LogEntries
<1>3. log[n].listeners + 1 \in Nat /\ log[n].listeners + 1 > 0
  BY SMTT(30), <1>2
<1>4. new = Counted(log, n, 1)
  BY DEF AddListener, Counted
<1> HIDE DEF n
<1>5. /\ SameEntries(log, new)
      /\ new[n].listeners = log[n].listeners + 1
      /\ \A j \in 1..Len(log) : j # n => new[j] = log[j]
  BY <1>1, <1>2, <1>3, <1>4, CountChanged
<1>6. Len(new) = Len(log) /\ \A j \in 1..Len(log) : new[j].seq = log[j].seq
  BY <1>5 DEF SameEntries
<1>7. ListenedTo(new, Last(log).seq)
  BY <1>1, <1>3, <1>5, <1>6 DEF ListenedTo
<1>8. ASSUME NEW p, ListenedTo(log, p) PROVE ListenedTo(new, p)
  <2>1. PICK j \in 1..Len(log) : log[j].seq = p /\ log[j].listeners > 0
    BY <1>8 DEF ListenedTo
  <2>2. new[j].seq = p /\ new[j].listeners > 0
    BY <1>3, <1>5, <1>6, <2>1
  <2>3. QED
    BY <1>6, <2>1, <2>2 DEF ListenedTo
<1>9. QED
  BY <1>5, <1>7, <1>8

(* A listener is removed at a position that has one.                       *)
LEMMA RemoveListenerFacts ==
    ASSUME NEW log, LogShape(log), NEW p, ListenedTo(log, p),
           NEW new, new = RemoveListener(log, p)
    PROVE  SameEntries(log, new)
<1>1. PICK i \in 1..Len(log) : log[i].seq = p /\ log[i].listeners > 0
  BY DEF ListenedTo
<1>2. Position(log, p) = {i} /\ Min(Position(log, p)) = i
  BY <1>1, LateFacts
<1>3. new = [log EXCEPT ![i].listeners = @ - 1]
  BY <1>2 DEF RemoveListener
<1>4. log[i] \in LogEntries
  BY DEF LogShape
<1>5. log[i].listeners \in Nat /\ log[i].listeners + (0 - 1) \in Nat
  BY <1>1, <1>4 DEF LogEntries
<1>6. log[i].listeners - 1 = log[i].listeners + (0 - 1)
  BY <1>5
<1>7. new = Counted(log, i, 0 - 1)
  BY <1>3, <1>6 DEF Counted
<1>8. 0 - 1 \in Int
  OBVIOUS
<1>9. QED
  BY <1>5, <1>7, <1>8, CountChanged

(* The end of a log, from an entry on.                                     *)
LEMMA TailFacts ==
    ASSUME NEW log, LogShape(log), NEW k \in 1..Len(log),
           NEW new, new = SubSeq(log, k, Len(log))
    PROVE  /\ new \in Seq(LogEntries) /\ Len(new) = Len(log) - k + 1
           /\ \A i \in 1..Len(new) : new[i] = log[i + k - 1]
<1>1. Len(log) \in Nat /\ k \in Int /\ Len(log) \in Int
  BY DEF LogShape
<1>2. \A i \in k..Len(log) : log[i] \in LogEntries
  BY <1>1 DEF LogShape
<1>3. /\ new \in Seq(LogEntries)
      /\ Len(new) = IF k <= Len(log) THEN Len(log) - k + 1 ELSE 0
      /\ \A i \in 1..(Len(log) - k + 1) : new[i] = log[k + i - 1]
  BY <1>1, <1>2, SubSeqProperties
<1>4. Len(new) = Len(log) - k + 1
  BY <1>1, <1>3
<1>5. ASSUME NEW i \in 1..Len(new) PROVE new[i] = log[i + k - 1]
  <2>1. k + i - 1 = i + k - 1
    BY <1>1, <1>4
  <2>2. QED
    BY <1>3, <1>4, <2>1
<1>6. QED
  BY <1>3, <1>4, <1>5

(* A late entry is appended, and what nobody listens to any more is purged *)
(* from the front: who listens at p sees one more late entry.              *)
LEMMA AddLateFacts ==
    ASSUME NEW log, LogShape(log), NEW s \in 1..MaxSeq,
           \A i \in 1..Len(log) : log[i].seq # s,
           NEW new, new = AddLateSequence(log, s)
    PROVE  /\ LogShape(new)
           /\ \A i \in 1..Len(new) :
                 new[i].seq = s \/ \E j \in 1..Len(log) : new[i].seq = log[j].seq
           /\ \A p : ListenedTo(log, p) =>
                 ListenedTo(new, p) /\ LateSince(new, p) = LateSince(log, p) \cup {s}
<1> DEFINE e == [seq |-> s, listeners |-> 0]
           app == Append(log, e)
           n == Len(log)
           used == {i \in 1..Len(app) : app[i].listeners > 0 \/ i = Len(app)}
           k == Min(used)
<1>1. log \in Seq(LogEntries) /\ n \in Nat /\ n > 0
  BY DEF LogShape
<1>2. e \in LogEntries
  BY ChangesFeedAssumption DEF LogEntries
<1>3. /\ app \in Seq(LogEntries) /\ Len(app) = n + 1
      /\ \A i \in 1..n : app[i] = log[i]
      /\ app[n + 1] = e
  BY <1>1, <1>2, AppendProperties
<1>4. e.seq = s
  OBVIOUS
<1>5. new = SubSeq(app, k, Len(app))
  BY DEF AddLateSequence, PurgeLateLogEntries
<1>6. k \in 1..(n + 1) /\ \A i \in 1..n : log[i].listeners > 0 => k <= i
  <2>1. used \subseteq Nat /\ n + 1 \in used
    BY <1>1, <1>3
  <2>2. k \in used /\ \A y \in used : k <= y
    <3> HIDE DEF used
    <3>1. QED
      BY <2>1, LeastFacts
  <2>3. \A i \in 1..n : log[i].listeners > 0 => i \in used
    BY <1>1, <1>3
  <2>4. QED
    BY <1>3, <2>2, <2>3
<1> HIDE DEF e, app, n, used, k
<1>7. LogShape(app)
  <2>1. ASSUME NEW i \in 1..(n + 1), NEW j \in 1..(n + 1), app[i].seq = app[j].seq
        PROVE  i = j
    <3>1. CASE i \in 1..n /\ j \in 1..n
      BY <1>3, <2>1, <3>1 DEF LogShape, n
    <3>2. CASE i = n + 1 /\ j \in 1..n
      BY <1>3, <1>4, <2>1, <3>2 DEF n
    <3>3. CASE j = n + 1 /\ i \in 1..n
      BY <1>3, <1>4, <2>1, <3>3 DEF n
    <3>4. QED
      BY <1>1, <3>1, <3>2, <3>3
  <2>2. ASSUME NEW i \in 2..(n + 1) PROVE app[i].seq > 0
    <3>1. CASE i \in 2..n
      <4>1. i \in 1..n /\ app[i] = log[i]
        BY <1>1, <1>3, <3>1
      <4>2. QED
        BY <3>1, <4>1 DEF LogShape, n
    <3>2. CASE i = n + 1
      BY <1>3, <1>4, <3>2
    <3>3. QED
      BY <1>1, <3>1, <3>2
  <2>3. QED
    BY <1>1, <1>3, <2>1, <2>2 DEF LogShape
<1>8. /\ new \in Seq(LogEntries) /\ Len(new) = n + 1 - k + 1
      /\ \A i \in 1..Len(new) : new[i] = app[i + k - 1]
  <2>1. k \in 1..Len(app)
    BY <1>3, <1>6
  <2>2. /\ new \in Seq(LogEntries) /\ Len(new) = Len(app) - k + 1
        /\ \A i \in 1..Len(new) : new[i] = app[i + k - 1]
    BY <1>5, <1>7, <2>1, TailFacts, SMTT(30)
  <2>3. Len(new) = n + 1 - k + 1
    BY <1>1, <1>3, <1>6, <2>2
  <2>4. QED
    BY <2>2, <2>3, Zenon
<1>9. \A i \in 1..Len(new) : i + k - 1 \in 1..(n + 1)
  BY <1>1, <1>6, <1>8
<1>10. LogShape(new)
  <2>1. ASSUME NEW i \in 1..Len(new), NEW j \in 1..Len(new), new[i].seq = new[j].seq
        PROVE  i = j
    <3>1. i + k - 1 \in 1..Len(app) /\ j + k - 1 \in 1..Len(app)
      BY <1>3, <1>9
    <3>2. app[i + k - 1].seq = app[j + k - 1].seq
      BY <1>8, <2>1
    <3>3. i + k - 1 = j + k - 1
      BY <1>7, <3>1, <3>2 DEF LogShape
    <3>4. QED
      BY <1>1, <1>6, <1>8, <3>3
  <2>2. ASSUME NEW i \in 2..Len(new) PROVE new[i].seq > 0
    <3>1. i \in 1..Len(new) /\ i + k - 1 \in 2..Len(app)
      BY <1>1, <1>3, <1>6, <1>8
    <3>2. app[i + k - 1].seq > 0
      BY <1>7, <3>1 DEF LogShape
    <3>3. QED
      BY <1>8, <3>1, <3>2
  <2>3. Len(new) > 0
    BY <1>1, <1>6, <1>8
  <2>4. QED
    BY <1>8, <2>1, <2>2, <2>3 DEF LogShape
<1>11. ASSUME NEW i \in 1..Len(new)
       PROVE  new[i].seq = s \/ \E j \in 1..Len(log) : new[i].seq = log[j].seq
  <2>1. CASE i + k - 1 = n + 1
    BY <1>3, <1>4, <1>8, <2>1
  <2>2. CASE i + k - 1 \in 1..n
    BY <1>3, <1>8, <2>2 DEF n
  <2>3. QED
    BY <1>1, <1>9, <2>1, <2>2
<1>12. ASSUME NEW p, ListenedTo(log, p)
       PROVE  ListenedTo(new, p) /\ LateSince(new, p) = LateSince(log, p) \cup {s}
  <2>1. PICK i \in 1..n : log[i].seq = p /\ log[i].listeners > 0
    BY <1>12 DEF ListenedTo, n
  <2> DEFINE h == i - k + 1
  <2>2. h \in 1..Len(new) /\ h + k - 1 = i
    BY <1>1, <1>6, <1>8, <2>1
  <2>3. new[h] = log[i]
    BY <1>3, <1>8, <2>2
  <2>4. ListenedTo(new, p)
    BY <2>1, <2>2, <2>3 DEF ListenedTo
  <2>5. LateSince(new, p) = After(new, h)
    BY <1>10, <2>1, <2>2, <2>3, LateFacts
  <2>6. LateSince(log, p) = After(log, i)
    BY <2>1, LateFacts DEF n
  <2>7. ASSUME NEW x \in After(new, h) PROVE x \in After(log, i) \cup {s}
    <3>1. PICK j \in (h + 1)..Len(new) : x = new[j].seq
      BY DEF After
    <3>2. j \in 1..Len(new) /\ j + k - 1 \in (i + 1)..(n + 1)
      BY <1>1, <1>6, <1>8, <2>2, <3>1
    <3>3. x = app[j + k - 1].seq
      BY <1>8, <3>1, <3>2
    <3>4. CASE j + k - 1 = n + 1
      BY <1>3, <1>4, <3>3, <3>4
    <3>5. CASE j + k - 1 \in (i + 1)..n
      BY <1>3, <3>3, <3>5 DEF After, n
    <3>6. QED
      BY <1>1, <3>2, <3>4, <3>5
  <2>8. ASSUME NEW j \in (i + 1)..(n + 1) PROVE app[j].seq \in After(new, h)
    <3>1. j - k + 1 \in (h + 1)..Len(new) /\ j - k + 1 \in 1..Len(new)
      BY <1>1, <1>6, <1>8, <2>2
    <3>2. (j - k + 1) + k - 1 = j
      BY <1>1, <1>6
    <3>3. new[j - k + 1] = app[j]
      BY <1>8, <3>1, <3>2
    <3>4. QED
      BY <3>1, <3>3 DEF After
  <2>9. s \in After(new, h)
    BY <1>1, <1>3, <1>4, <2>8
  <2>10. ASSUME NEW x \in After(log, i) PROVE x \in After(new, h)
    <3>1. PICK j \in (i + 1)..n : x = log[j].seq
      BY DEF After, n
    <3>2. j \in (i + 1)..(n + 1) /\ app[j] = log[j]
      BY <1>1, <1>3, <3>1
    <3>3. QED
      BY <2>8, <3>1, <3>2
  <2> HIDE DEF h
  <2>11. After(new, h) = After(log, i) \cup {s}
    BY <2>7, <2>9, <2>10
  <2>12. QED
    BY <2>4, <2>5, <2>6, <2>11
<1>13. QED
  BY <1>10, <1>11, <1>12

-----------------------------------------------------------------------------
(* Where the feed and the next request read from.                          *)

(* A channel is never read from after the limit of the identifier.         *)
LEMMA SinceBounded ==
    ASSUME NEW m \in Nat, NEW id, IdUpTo(id, m), NEW a \in Nat, a > 0,
           a # 1 => id.triggeredBy \in {0, a}
    PROVE  From(id, a) \in 0..m
<1>1. SafeSequence(id) \in 0..m /\ id.triggeredBy \in Nat /\ id.triggeredBy <= m
  BY IdFacts
<1>2. CASE a = 1
  <2>1. From(id, 1) = IF id.triggeredBy # 0 THEN id.triggeredBy ELSE SafeSequence(id)
    BY OwnedSince
  <2>2. QED
    BY <1>1, <1>2, <2>1
<1>3. CASE a > 1
  <2>1. From(id, a) =
            IF id.triggeredBy = 0 /\ SafeSequence(id) < a THEN 0 ELSE SafeSequence(id)
    BY <1>3, GrantedSince
  <2>2. QED
    BY <1>1, <2>1
<1>4. QED
  BY <1>2, <1>3

(* The channels are the owned ones and the granted one.                    *)
LEMMA ChannelFacts ==
    /\ GrantedChannel \in Channels /\ GrantedChannel \notin Owned
    /\ \A c \in Channels : c \in Owned \/ c = GrantedChannel
    /\ Owned \subseteq Channels
BY ChangesFeedAssumption DEF Channels

(* The next request reads a channel from below `next'.                     *)
LEMMA ResumeBounded ==
    ASSUME WorldOK, TriggerOK, NEW c \in Channels, access[c] # 0
    PROVE  SafeSequence(ResumeFrom(c)) \in 0..(next - 1)
<1>1. access[c] \in Nat /\ access[c] > 0 /\ next - 1 \in Nat
  BY ChangesFeedAssumption DEF WorldOK
<1>2. IdUpTo(ClientId, next - 1)
  BY DEF WorldOK
<1>3. access[c] # 1 => ClientId.triggeredBy \in {0, access[c]}
  BY ChannelFacts DEF WorldOK, TriggerOK
<1>4. SafeSequence(ResumeFrom(c)) = From(ClientId, access[c])
  BY DEF ResumeFrom, ClientId, From
<1>5. QED
  BY <1>1, <1>2, <1>3, <1>4, SinceBounded

(* A feed reads a channel that was added while it runs from the start.     *)
LEMMA StartFacts ==
    ASSUME NEW c
    PROVE  Start(c) = IF c \in feed.added THEN 0 ELSE From(feed.since, feed.chans[c])
BY DEF Start, From, ChannelSince, SafeSequence, Triggered

(* A running feed reads a channel from below its stable sequence.          *)
LEMMA StartBounded ==
    ASSUME FeedOK, TriggerOK, Running, NEW c \in Channels, feed.chans[c] # 0
    PROVE  Start(c) \in 0..feed.stable
<1>1. feed.chans[c] \in Nat /\ feed.chans[c] > 0 /\ feed.stable \in Nat
  BY ChangesFeedAssumption DEF FeedOK, FeedRecords
<1>2. IdUpTo(feed.since, feed.stable)
  BY DEF FeedOK
<1>3. feed.chans[c] # 1 => feed.since.triggeredBy \in {0, feed.chans[c]}
  BY ChannelFacts DEF FeedOK, TriggerOK
<1>4. From(feed.since, feed.chans[c]) \in 0..feed.stable
  BY <1>1, <1>2, <1>3, SinceBounded
<1>5. QED
  BY <1>1, <1>4, StartFacts

-----------------------------------------------------------------------------
(* Steps of the cache and the user: the feed does not move.                *)

(* The feed's own notions do not depend on the cache.                      *)
LEMMA FeedSame ==
    ASSUME feed' = feed
    PROVE  /\ Running' = Running /\ Reading' = Reading /\ Continuous' = Continuous
           /\ \A c : /\ Start(c)' = Start(c) /\ ReadNow(c)' = ReadNow(c)
                     /\ \A s : InBatch(c, s)' = InBatch(c, s)
           /\ \A s : AfterLow(s)' = AfterLow(s)
BY DEF Running, Reading, Continuous, Start, ReadNow, InBatch, AfterLow

(* What a channel's cache gains is ahead of the feed: after its stable     *)
(* sequence, in the late log it listens to, where it has yet to read,      *)
(* after the low sequence of a longpoll, or the feed is not concerned.     *)
Fresh(c, s) ==
    \/ s > feed.stable
    \/ feed.late[c].open /\ s \in LateOf(c)'
    \/ /\ Continuous /\ ~ feed.late[c].open /\ (feed.pc = "begin" \/ c \in feed.todo)
       /\ s > Start(c)
    \/ ~ Continuous /\ ReadNow(c) /\ AfterLow(s)
    \/ ~ ReadNow(c) /\ ~ (Continuous /\ (feed.pc = "begin" \/ c \in feed.todo))

GainsFresh ==
    /\ Got \subseteq Got'
    /\ \A c \in Channels : Served(c)' =>
          /\ Served(c)
          /\ \A s \in cache'[c] \ Got' : s \in cache[c] \/ Fresh(c, s)
    /\ feed.pc = "begin" => \A s \in skipped' : s \in skipped \/ s > feed.stable
    /\ \A c \in Channels : feed.late[c].open =>
          /\ LateOf(c) \subseteq LateOf(c)'
          /\ Reading => \A s \in LateOf(c)' : s \in LateOf(c) \/ AfterLow(s)

(* Steps of the cache keep what a feed knows.                              *)
LEMMA KnownStep ==
    ASSUME WorldOK, FeedOK, TriggerOK, KnownOK, feed' = feed, WorldOK',
           Running => GainsFresh
    PROVE  KnownOK'
<1> SUFFICES ASSUME NEW c \in Channels, Running
             PROVE
        /\ Continuous /\ Served(c)' /\ (feed.pc = "begin" \/ c \in feed.todo) => AheadOK(c)'
        /\ Served(c)' /\ ReadNow(c) => \A s \in cache'[c] \ Got' : Pending(c, s)'
        /\ Continuous /\ ReadNow(c) /\ ~ (feed.pc = "late" /\ feed.at = c) =>
              /\ feed.late[c].open /\ feed.late[c].active
              /\ \A s \in LateOf(c)' : AfterLow(s)
  BY FeedSame DEF KnownOK, ReadNow, Reading, Running
<1>g. GainsFresh
  OBVIOUS
<1>f. /\ Start(c)' = Start(c) /\ Continuous' = Continuous
      /\ \A s : InBatch(c, s)' = InBatch(c, s)
  BY FeedSame
<1>t. feed.stable \in Nat /\ cache'[c] \subseteq Nat /\ skipped' \subseteq Nat
      /\ feed.since.seq \in Nat /\ feed.since.triggeredBy \in Nat
      /\ feed.since.seq <= feed.stable /\ feed.since.triggeredBy <= feed.stable
  BY IdFacts DEF FeedOK, FeedRecords, WorldOK
<1>1. ASSUME Continuous, Served(c)', feed.pc = "begin" \/ c \in feed.todo
      PROVE  AheadOK(c)'
  <2>1. Served(c) /\ AheadOK(c)
    BY <1>1, <1>g DEF KnownOK, GainsFresh
  <2>2. Start(c) \in 0..feed.stable
    BY <2>1, StartBounded DEF Served
  <2>3. CASE feed.late[c].open
    <3>1. ASSUME NEW s \in cache'[c] \ Got'
          PROVE (s > feed.since.seq /\ s > feed.since.triggeredBy) \/ s \in LateOf(c)'
      <4>1. CASE s \in cache[c]
        BY <1>g, <2>1, <2>3, <3>1, <4>1 DEF GainsFresh, AheadOK
      <4>2. CASE Fresh(c, s)
        BY <1>1, <1>t, <2>3, <3>1, <4>2 DEF Fresh
      <4>3. QED
        BY <1>1, <1>g, <3>1, <4>1, <4>2 DEF GainsFresh
    <3>2. QED
      BY <2>3, <3>1 DEF AheadOK
  <2>4. CASE ~ feed.late[c].open
    <3>1. ASSUME NEW s \in cache'[c] \ Got' PROVE s > Start(c)
      <4>1. CASE s \in cache[c]
        BY <1>g, <2>1, <2>4, <3>1, <4>1 DEF GainsFresh, AheadOK
      <4>2. CASE Fresh(c, s)
        BY <1>1, <1>t, <2>2, <2>4, <3>1, <4>2 DEF Fresh
      <4>3. QED
        BY <1>1, <1>g, <3>1, <4>1, <4>2 DEF GainsFresh
    <3>2. ASSUME feed.pc = "begin", NEW s \in skipped' \ Got' PROVE s > Start(c)
      <4>1. CASE s \in skipped
        BY <1>g, <2>1, <2>4, <3>2, <4>1 DEF GainsFresh, AheadOK
      <4>2. CASE s > feed.stable
        BY <1>t, <2>2, <3>2, <4>2
      <4>3. QED
        BY <1>g, <3>2, <4>1, <4>2 DEF GainsFresh
    <3>3. QED
      BY <1>f, <2>4, <3>1, <3>2 DEF AheadOK
  <2>5. QED
    BY <2>3, <2>4
<1>2. ASSUME Served(c)', ReadNow(c), NEW s \in cache'[c] \ Got' PROVE Pending(c, s)'
  <2>1. Served(c) /\ access'[c] = access[c]
    BY <1>2, <1>g DEF GainsFresh, Served
  <2>r. c \notin feed.todo /\ feed.pc # "begin"
    BY <1>2 DEF ReadNow, Reading
  <2>2. CASE s \in cache[c]
    <3>1. Pending(c, s)
      BY <1>2, <1>g, <2>1, <2>2 DEF KnownOK, GainsFresh
    <3>2. LeftOut(c, s)' = LeftOut(c, s)
      BY <1>f, <2>1 DEF LeftOut
    <3>3. feed.late[c].open /\ s \in LateOf(c) => s \in LateOf(c)'
      BY <1>g DEF GainsFresh
    <3>4. QED
      BY <1>f, <3>1, <3>2, <3>3 DEF Pending
  <2>3. CASE Fresh(c, s)
    <3>1. \/ s > feed.stable
          \/ feed.late[c].open /\ s \in LateOf(c)'
          \/ ~ Continuous /\ AfterLow(s)
      BY <1>2, <2>3, <2>r DEF Fresh, ReadNow
    <3>2. ~ Continuous /\ AfterLow(s) => s > feed.stable \/ LeftOut(c, s)'
      BY <1>f DEF AfterLow, LeftOut
    <3>3. QED
      BY <3>1, <3>2 DEF Pending
  <2>4. QED
    BY <1>2, <1>g, <2>2, <2>3 DEF GainsFresh
<1>3. ASSUME Continuous, ReadNow(c), ~ (feed.pc = "late" /\ feed.at = c)
      PROVE  /\ feed.late[c].open /\ feed.late[c].active
             /\ \A s \in LateOf(c)' : AfterLow(s)
  BY <1>3, <1>g DEF KnownOK, GainsFresh, ReadNow
<1>4. QED
  BY <1>1, <1>2, <1>3

(* The sequences of the cache are numbers below `next'.                    *)
LEMMA WorldFacts ==
    ASSUME WorldOK
    PROVE  /\ MaxSeq \in Nat /\ next \in Nat /\ next >= 2 /\ next <= MaxSeq + 1
           /\ next - 1 \in Nat /\ next - 1 <= MaxSeq
           /\ \A s \in skipped : s \in Nat /\ s >= 2 /\ s < next
           /\ \A c \in Channels : \A s \in cache[c] : s \in Nat /\ s >= 1 /\ s < next
<1>1. MaxSeq \in Nat /\ next \in 2..(MaxSeq + 1)
  BY ChangesFeedAssumption DEF WorldOK
<1>2. skipped \subseteq 2..(next - 1)
  BY DEF WorldOK
<1>3. \A c \in Channels : cache[c] \subseteq 1..(next - 1)
  BY DEF WorldOK
<1>4. QED
  BY <1>1, <1>2, <1>3

(* The numbers of an interval.                                             *)
LEMMA IntervalFacts ==
    ASSUME NEW n \in Nat, NEW s \in 1..(n - 1) PROVE s \in Nat
OBVIOUS

(* Sequences are numbers after a step as well.                             *)
LEMMA WorldFactsNext ==
    ASSUME WorldOK'
    PROVE  /\ next' \in Nat
           /\ \A s \in skipped' : s \in Nat
           /\ \A c \in Channels : \A s \in cache'[c] : s \in Nat
<1>1. MaxSeq \in Nat /\ next' \in 2..(MaxSeq + 1)
  BY ChangesFeedAssumption DEF WorldOK
<1>2. next' \in Nat
  BY <1>1
<1>3. \A c \in Channels : cache'[c] \subseteq 1..(next' - 1)
  BY DEF WorldOK
<1>4. \A c \in Channels : \A s \in cache'[c] : s \in Nat
  BY <1>2, <1>3, IntervalFacts, Zenon
<1>5. ASSUME NEW n \in Nat PROVE 2..(n - 1) \subseteq 1..(n - 1)
  OBVIOUS
<1>6. skipped' \subseteq 1..(next' - 1)
  <2>1. skipped' \subseteq 2..(next' - 1)
    BY DEF WorldOK
  <2>2. QED
    BY <1>2, <1>5, <2>1, Zenon
<1>7. \A s \in skipped' : s \in Nat
  BY <1>2, <1>6, IntervalFacts, Zenon
<1>8. QED
  BY <1>2, <1>4, <1>7

(* What the cache gains was skipped, or is new.                            *)
GainsNew ==
    /\ Got \subseteq Got'
    /\ \A c \in Channels : access'[c] # 0 => access'[c] = access[c]
    /\ \A c \in Channels :
          \A s \in cache'[c] \cup skipped' : s \in cache[c] \cup skipped \/ s >= next

(* Steps of the cache keep what the client has not got ahead of its        *)
(* identifier.                                                             *)
LEMMA ResumeStep ==
    ASSUME WorldOK, TriggerOK, ResumeSafe, WorldOK', lastId' = lastId, GainsNew
    PROVE  ResumeSafe'
<1> SUFFICES ASSUME NEW c \in Channels, access'[c] # 0,
                    NEW s \in (cache'[c] \cup skipped') \ Got'
             PROVE  s > SafeSequence(ResumeFrom(c)')
  BY DEF ResumeSafe, Available, Got
<1>1. access'[c] = access[c] /\ access[c] # 0
  BY DEF GainsNew
<1>2. ResumeFrom(c)' = ResumeFrom(c)
  BY <1>1 DEF ResumeFrom
<1>3. CASE s \in cache[c] \cup skipped
  BY <1>1, <1>2, <1>3 DEF ResumeSafe, Available, Got, GainsNew
<1>4. CASE s >= next
  <2>1. SafeSequence(ResumeFrom(c)) \in 0..(next - 1)
    BY <1>1, ResumeBounded
  <2>2. s \in Nat /\ next \in Nat
    BY WorldFacts, WorldFactsNext
  <2>3. QED
    BY <1>2, <1>4, <2>1, <2>2
<1>5. QED
  BY <1>3, <1>4 DEF GainsNew

(* An identifier stays within a limit that grows.                          *)
LEMMA IdGrows ==
    ASSUME NEW m \in Nat, NEW n \in Nat, m <= n, NEW id, IdUpTo(id, m)
    PROVE  IdUpTo(id, n)
<1>1. id.seq \in Nat /\ id.triggeredBy \in Nat /\ id.seq <= m /\ id.triggeredBy <= m
  BY IdFacts
<1>2. id.seq <= n /\ id.triggeredBy <= n
  BY <1>1
<1>3. QED
  BY <1>2 DEF IdUpTo

(* What a running feed relies on survives a step that leaves the feed and  *)
(* the positions it listens to.                                            *)
LEMMA FeedKept ==
    ASSUME WorldOK, FeedOK, feed' = feed, next' \in Nat, next <= next',
           \A c \in Channels : feed.late[c].open =>
               (ListenedTo(lateLogs[c], feed.late[c].pos) =>
                    ListenedTo(lateLogs'[c], feed.late[c].pos))
    PROVE  FeedOK'
<1>1. LatePositionKept'
  BY DEF FeedOK, LatePositionKept, ListenedTo
<1>2. feed.stable \in 1..(next - 1) => feed.stable \in 1..(next' - 1)
  BY DEF WorldOK
<1>3. QED
  BY <1>1, <1>2, FeedSame DEF FeedOK, BatchOK, Continuous, Running

(* An entry arrives in sequence, or skips the ones before it.              *)
LEMMA AddToCacheStep ==
    ASSUME FeedInv, NEW k \in 1..MaxSeq, NEW C, AddToCache(k, C)
    PROVE  FeedInv'
<1> USE DEF FeedInv
<1>1. /\ next \in 2..(MaxSeq + 1) /\ k >= next /\ next' = k + 1 /\ next <= next' - 1
      /\ next' \in Nat /\ next \in Nat
  BY ChangesFeedAssumption DEF AddToCache, WorldOK
<1>2. /\ skipped' = skipped \cup (next..(k - 1))
      /\ cache' = [c \in Channels |-> IF c \in C THEN cache[c] \cup {k} ELSE cache[c]]
      /\ lateLogs' = lateLogs /\ finishing' = finishing /\ access' = access
      /\ revoked' = revoked /\ userSeq' = userSeq /\ userChanged' = userChanged
      /\ feed' = feed /\ received' = received /\ lastId' = lastId /\ missed' = missed
  BY DEF AddToCache, client
<1>3. Got' = Got /\ ClientId' = ClientId
  BY <1>2 DEF Got, ClientId
<1>4. \A s \in skipped' : s \in skipped \/ s >= next
  BY <1>1, <1>2
<1>5. ASSUME NEW c \in Channels
      PROVE  cache'[c] \subseteq 1..k /\ \A s \in cache'[c] : s \in cache[c] \/ s >= next
  <2>1. cache[c] \subseteq 1..(next - 1)
    BY DEF WorldOK
  <2>2. cache'[c] = cache[c] \/ cache'[c] = cache[c] \cup {k}
    BY <1>2
  <2>3. 1..(next - 1) \subseteq 1..k /\ k \in 1..k
    BY <1>1
  <2>4. QED
    BY <1>1, <2>1, <2>2, <2>3
<1>6. WorldOK'
  <2>1. next' \in 2..(MaxSeq + 1) /\ skipped' \subseteq 2..(next' - 1)
    BY <1>1, <1>2, WorldFacts
  <2>2. cache' \in [Channels -> SUBSET (1..(next' - 1))]
    <3>1. next' - 1 = k
      BY <1>1
    <3>2. DOMAIN cache' = Channels /\ cache' = [c \in Channels |-> cache'[c]]
      BY <1>2
    <3>3. QED
      BY <1>5, <3>1, <3>2
  <2>3. ASSUME NEW c \in Channels PROVE LogOK(lateLogs[c])'
    <3>1. LogOK(lateLogs[c])
      BY DEF WorldOK
    <3>2. ASSUME NEW i \in 1..Len(lateLogs[c])
          PROVE  /\ lateLogs[c][i].seq < next'
                 /\ lateLogs[c][i].seq \in skipped' => lateLogs[c][i].seq = finishing
      <4>1. lateLogs[c][i] \in LogEntries
        BY <3>1 DEF LogOK, LogShape
      <4>2. lateLogs[c][i].seq \in Nat
        BY <4>1, ChangesFeedAssumption DEF LogEntries
      <4>3. QED
        BY <1>1, <1>4, <3>1, <4>2 DEF LogOK
    <3>3. QED
      BY <1>2, <3>1, <3>2 DEF LogOK
  <2>4. IdUpTo(ClientId, next' - 1)
    BY <1>1, IdGrows DEF WorldOK
  <2>5. QED
    BY <1>2, <1>3, <2>1, <2>2, <2>3, <2>4 DEF WorldOK
<1>7. FeedOK'
  BY <1>1, <1>2, FeedKept
<1>8. TriggerOK' /\ LongpollOK'
  BY <1>2, <1>3, FeedSame DEF TriggerOK, LongpollOK
<1>9. Running => feed.stable < next /\ feed.stable \in Nat
  BY <1>1 DEF FeedOK
<1>10. Reading => Running
  BY DEF Reading, Running
<1>11. SkippedOK'
  <2>1. \A s \in skipped' : s \in Nat
    BY <1>6, WorldFactsNext
  <2>2. Reading => \A s \in skipped' : AfterLow(s)
    BY <1>1, <1>4, <1>9, <1>10, <2>1 DEF SkippedOK, AfterLow
  <2>3. QED
    BY <1>2, <2>2, FeedSame DEF SkippedOK
<1>12. Running => GainsFresh
  <2> SUFFICES ASSUME Running PROVE GainsFresh
    OBVIOUS
  <2>1. ASSUME NEW s \in Nat, s >= next PROVE s > feed.stable
    BY <1>1, <1>9, <2>1
  <2>2. \A c \in Channels : Served(c)' = Served(c) /\ LateOf(c)' = LateOf(c)
    BY <1>2 DEF Served, LateOf
  <2>3. ASSUME NEW c \in Channels, NEW s \in cache'[c], s \notin cache[c] PROVE Fresh(c, s)
    BY <1>5, <2>1, <2>3 DEF Fresh
  <2>4. \A s \in skipped' : s \in skipped \/ s > feed.stable
    BY <1>4, <1>6, <2>1, WorldFactsNext
  <2>5. QED
    BY <1>3, <2>2, <2>3, <2>4 DEF GainsFresh
<1>13. KnownOK'
  BY <1>2, <1>6, <1>12, KnownStep
<1>14. GainsNew
  BY <1>2, <1>3, <1>4, <1>5 DEF GainsNew
<1>15. ResumeSafe'
  BY <1>2, <1>6, <1>14, ResumeStep
<1>16. QED
  BY <1>6, <1>7, <1>8, <1>11, <1>13, <1>15

(* A sequence leaves the skipped list: it is in the caches, or no document *)
(* has it.                                                                 *)
LEMMA UnskipStep ==
    ASSUME FeedInv,
           skipped' \subseteq skipped, finishing' \in {0} \cup skipped',
           \A c \in Channels : \A i \in 1..Len(lateLogs[c]) :
               lateLogs[c][i].seq \in skipped' => lateLogs[c][i].seq = finishing',
           next' = next, cache' = cache, lateLogs' = lateLogs, access' = access,
           revoked' = revoked, userSeq' = userSeq, userChanged' = userChanged,
           feed' = feed, received' = received, lastId' = lastId, missed' = missed
    PROVE  FeedInv'
<1> USE DEF FeedInv
<1>1. Got' = Got /\ ClientId' = ClientId
  BY DEF Got, ClientId
<1>2. WorldOK'
  <2>1. \A c \in Channels : LogOK(lateLogs[c])'
    BY DEF WorldOK, LogOK
  <2>2. QED
    BY <1>1, <2>1 DEF WorldOK
<1>3. FeedOK'
  <2>1. next' \in Nat /\ next <= next'
    BY WorldFacts
  <2>2. QED
    BY <2>1, FeedKept
<1>4. TriggerOK' /\ LongpollOK'
  BY <1>1, FeedSame DEF TriggerOK, LongpollOK
<1>5. SkippedOK'
  BY FeedSame DEF SkippedOK
<1>6. GainsFresh
  <2>1. \A c \in Channels : Served(c)' = Served(c) /\ LateOf(c)' = LateOf(c)
    BY DEF Served, LateOf
  <2>2. QED
    BY <1>1, <2>1 DEF GainsFresh
<1>7. KnownOK'
  BY <1>2, <1>6, KnownStep
<1>8. ResumeSafe'
  <2>1. GainsNew
    BY <1>1 DEF GainsNew
  <2>2. QED
    BY <1>2, <2>1, ResumeStep
<1>9. QED
  BY <1>2, <1>3, <1>4, <1>5, <1>7, <1>8

(* The late entry is taken off the skipped list.                           *)
LEMMA FinishLateStep == ASSUME FeedInv, FinishLate PROVE FeedInv'
<1>1. /\ skipped' = skipped \ {finishing} /\ finishing' = 0
      /\ next' = next /\ cache' = cache /\ lateLogs' = lateLogs /\ access' = access
      /\ revoked' = revoked /\ userSeq' = userSeq /\ userChanged' = userChanged
      /\ feed' = feed /\ received' = received /\ lastId' = lastId /\ missed' = missed
  BY DEF FinishLate, client
<1>2. \A c \in Channels : \A i \in 1..Len(lateLogs[c]) :
          lateLogs[c][i].seq \in skipped' => lateLogs[c][i].seq = finishing'
  BY <1>1 DEF FeedInv, WorldOK, LogOK
<1>3. QED
  BY <1>1, <1>2, UnskipStep

(* A sequence is given up.                                                 *)
LEMMA AbandonStep == ASSUME FeedInv, NEW s, Abandon(s) PROVE FeedInv'
<1>1. /\ skipped' = skipped \ {s} /\ finishing' = finishing /\ finishing = 0
      /\ next' = next /\ cache' = cache /\ lateLogs' = lateLogs /\ access' = access
      /\ revoked' = revoked /\ userSeq' = userSeq /\ userChanged' = userChanged
      /\ feed' = feed /\ received' = received /\ lastId' = lastId /\ missed' = missed
  BY DEF Abandon, client
<1>2. \A c \in Channels : \A i \in 1..Len(lateLogs[c]) :
          lateLogs[c][i].seq \in skipped' => lateLogs[c][i].seq = finishing'
  BY <1>1 DEF FeedInv, WorldOK, LogOK
<1>3. QED
  BY <1>1, <1>2, UnskipStep

(* The user's access changes, to that of the one granted channel.          *)
LEMMA AccessStep ==
    ASSUME FeedInv,
           NEW g \in 0..MaxSeq, access' = [access EXCEPT ![GrantedChannel] = g], g # 1,
           userSeq' \in 0..MaxSeq, userChanged' \in BOOLEAN, revoked' \in BOOLEAN,
           g # 0 => access[GrantedChannel] = 0 /\ ~ revoked /\ g >= next,
           g = 0 => revoked',
           next' = next, skipped' = skipped, cache' = cache, lateLogs' = lateLogs,
           finishing' = finishing, feed' = feed,
           received' = received, lastId' = lastId, missed' = missed
    PROVE  FeedInv'
<1> USE DEF FeedInv
<1>1. Got' = Got /\ ClientId' = ClientId
  BY DEF Got, ClientId
<1>2. /\ access' \in [Channels -> 0..MaxSeq] /\ access'[GrantedChannel] = g
      /\ \A c \in Channels : c # GrantedChannel => access'[c] = access[c]
  BY ChannelFacts DEF WorldOK
<1>3. WorldOK'
  <2>1. \A c \in Channels : LogOK(lateLogs[c])'
    BY DEF WorldOK, LogOK
  <2>2. \A c \in Owned : access'[c] = 1
    BY <1>2, ChannelFacts DEF WorldOK
  <2>3. QED
    BY <1>1, <1>2, <2>1, <2>2 DEF WorldOK
<1>4. FeedOK'
  <2>1. next' \in Nat /\ next <= next'
    BY WorldFacts
  <2>2. QED
    BY <2>1, FeedKept
<1>5. TriggerOK'
  BY <1>1, <1>2, FeedSame DEF TriggerOK
<1>6. LongpollOK' /\ SkippedOK'
  BY <1>1, FeedSame DEF LongpollOK, SkippedOK
<1>7. Running => GainsFresh
  <2>1. ASSUME NEW c \in Channels, Running, Served(c)' PROVE Served(c)
    <3>1. CASE c = GrantedChannel
      <4>1. g # 0 /\ feed.chans[GrantedChannel] = g
        BY <1>2, <2>1, <3>1 DEF Served
      <4>2. feed.chans[GrantedChannel] = 0
        BY <2>1, <4>1 DEF TriggerOK
      <4>3. QED
        BY <4>1, <4>2
    <3>2. CASE c # GrantedChannel
      BY <1>2, <2>1, <3>2 DEF Served
    <3>3. QED
      BY <3>1, <3>2
  <2>2. \A c \in Channels : LateOf(c)' = LateOf(c)
    BY DEF LateOf
  <2>3. QED
    BY <1>1, <2>1, <2>2 DEF GainsFresh
<1>8. KnownOK'
  BY <1>3, <1>7, KnownStep
<1>9. ResumeSafe'
  <2> SUFFICES ASSUME NEW c \in Channels, access'[c] # 0,
                      NEW s \in (cache[c] \cup skipped) \ Got
               PROVE  s > SafeSequence(ResumeFrom(c)')
    BY <1>1 DEF ResumeSafe, Available, Got
  <2>1. CASE c # GrantedChannel
    <3>1. ResumeFrom(c)' = ResumeFrom(c) /\ access[c] # 0
      BY <1>2, <2>1 DEF ResumeFrom
    <3>2. QED
      BY <3>1 DEF ResumeSafe, Available, Got
  <2>2. CASE c = GrantedChannel
    <3>1. g # 0 /\ g \in Nat /\ g > 1
      BY <1>2, <2>2, WorldFacts
    <3>2. ClientId.triggeredBy = 0 /\ IdUpTo(ClientId, next - 1) /\ next - 1 \in Nat
      BY <3>1, WorldFacts DEF TriggerOK, WorldOK
    <3>3. SafeSequence(ClientId) < g
      <4>1. SafeSequence(ClientId) \in 0..(next - 1)
        BY <3>2, IdFacts
      <4>2. QED
        BY <3>1, <4>1, WorldFacts
    <3>4. From(ClientId, g) = 0
      <4>1. From(ClientId, g) =
               IF ClientId.triggeredBy = 0 /\ SafeSequence(ClientId) < g THEN 0
               ELSE SafeSequence(ClientId)
        BY <3>1, <3>2, GrantedSince
      <4>2. QED
        BY <3>2, <3>3, <4>1
    <3>5. SafeSequence(ResumeFrom(c)') = From(ClientId, g)
      BY <1>1, <1>2, <2>2 DEF ResumeFrom, ClientId, From
    <3>6. s > 0
      BY WorldFacts
    <3>7. QED
      BY <3>4, <3>5, <3>6
  <2>3. QED
    BY <2>1, <2>2
<1>10. QED
  BY <1>3, <1>4, <1>5, <1>6, <1>8, <1>9

(* A grant lies ahead of everything the client has.                        *)
LEMMA GrantStep == ASSUME FeedInv, NEW g, Grant(g) PROVE FeedInv'
<1>1. /\ access' = [access EXCEPT ![GrantedChannel] = g]
      /\ next' = next /\ skipped' = skipped /\ cache' = cache /\ lateLogs' = lateLogs
      /\ finishing' = finishing /\ feed' = feed /\ revoked' = revoked
      /\ received' = received /\ lastId' = lastId /\ missed' = missed
      /\ access[GrantedChannel] = 0 /\ ~ revoked
      /\ g \in next..(next + MaxAhead) /\ g <= MaxSeq
      /\ userSeq' = IF g \in AdminSeqs THEN g ELSE userSeq
      /\ userChanged' = (feed.pc # "ended")
  BY DEF Grant, client
<1>2. MaxSeq \in Nat /\ next \in Nat /\ next >= 2
  BY WorldFacts DEF FeedInv
<1>3. g \in Nat /\ g >= next /\ g \in 0..MaxSeq /\ g # 0 /\ g # 1
  BY <1>1, <1>2, ChangesFeedAssumption
<1>4. userSeq' \in 0..MaxSeq /\ userChanged' \in BOOLEAN /\ revoked' \in BOOLEAN
  BY <1>1, <1>3 DEF FeedInv, WorldOK
<1>5. QED
  BY <1>1, <1>3, <1>4, AccessStep

(* The channel is revoked.                                                 *)
LEMMA RevokeStep == ASSUME FeedInv, Revoke PROVE FeedInv'
<1>1. /\ access' = [access EXCEPT ![GrantedChannel] = 0]
      /\ next' = next /\ skipped' = skipped /\ cache' = cache /\ lateLogs' = lateLogs
      /\ finishing' = finishing /\ feed' = feed /\ revoked' = TRUE
      /\ received' = received /\ lastId' = lastId /\ missed' = missed
      /\ userSeq' = userSeq /\ userChanged' = (feed.pc # "ended")
  BY DEF Revoke, client
<1>2. 0 \in 0..MaxSeq /\ 0 # 1
  BY WorldFacts DEF FeedInv
<1>3. userSeq' \in 0..MaxSeq /\ userChanged' \in BOOLEAN /\ revoked' \in BOOLEAN
  BY <1>1 DEF FeedInv, WorldOK
<1>4. QED
  BY <1>1, <1>2, <1>3, AccessStep

(* A skipped sequence arrives: a feed that listens finds it in the log, a  *)
(* feed that has yet to read the channel finds it there, and what neither  *)
(* finds is counted as missed.                                             *)
LEMMA AddLateStep ==
    ASSUME FeedInv, NEW s, NEW C, AddLate(s, C)
    PROVE  FeedInv'
<1> USE DEF FeedInv
<1>1. /\ finishing = 0 /\ s \in skipped /\ finishing' = s
      /\ cache' = [c \in Channels |-> IF c \in C THEN cache[c] \cup {s} ELSE cache[c]]
      /\ lateLogs' = [c \in Channels |->
                        IF c \in C THEN AddLateSequence(lateLogs[c], s) ELSE lateLogs[c]]
      /\ missed' = IF \E c \in C : LateWindow(s, c) THEN missed \cup {s} ELSE missed
      /\ next' = next /\ skipped' = skipped /\ access' = access
      /\ revoked' = revoked /\ userSeq' = userSeq /\ userChanged' = userChanged
      /\ feed' = feed /\ received' = received /\ lastId' = lastId
  BY DEF AddLate, client
<1>2. s \in Nat /\ s >= 2 /\ s < next /\ s \in 1..MaxSeq /\ next \in Nat
      /\ s \in 1..(next - 1)
  BY <1>1, WorldFacts
<1>3. Got \subseteq Got' /\ ClientId' = ClientId
  BY <1>1 DEF Got, ClientId
<1>4. ASSUME NEW c \in Channels
      PROVE  /\ LogShape(lateLogs[c])
             /\ \A i \in 1..Len(lateLogs[c]) :
                   lateLogs[c][i].seq < next /\ lateLogs[c][i].seq \notin skipped
  <2>1. LogOK(lateLogs[c])
    BY DEF WorldOK
  <2>2. 0 \notin skipped
    BY WorldFacts
  <2>3. QED
    BY <1>1, <2>1, <2>2 DEF LogOK
<1>5. ASSUME NEW c \in Channels, c \in C
      PROVE  /\ LogShape(lateLogs'[c])
             /\ \A i \in 1..Len(lateLogs'[c]) :
                   \/ lateLogs'[c][i].seq = s
                   \/ \E j \in 1..Len(lateLogs[c]) : lateLogs'[c][i].seq = lateLogs[c][j].seq
             /\ \A p : ListenedTo(lateLogs[c], p) =>
                   /\ ListenedTo(lateLogs'[c], p)
                   /\ LateSince(lateLogs'[c], p) = LateSince(lateLogs[c], p) \cup {s}
  <2>1. lateLogs'[c] = AddLateSequence(lateLogs[c], s)
    BY <1>1, <1>5
  <2>2. \A i \in 1..Len(lateLogs[c]) : lateLogs[c][i].seq # s
    BY <1>1, <1>4
  <2>3. LogShape(lateLogs[c])
    BY <1>4
  <2>4. s \in 1..MaxSeq
    BY <1>2
  <2>5. QED
    BY ONLY SMTT(30), <2>1, <2>2, <2>3, <2>4, AddLateFacts
<1>6. ASSUME NEW c \in Channels, c \notin C
      PROVE  lateLogs'[c] = lateLogs[c] /\ cache'[c] = cache[c]
  BY <1>1, <1>6
<1>7. ASSUME NEW c \in Channels PROVE LogOK(lateLogs[c])'
  <2>1. CASE c \in C
    <3>1. ASSUME NEW i \in 1..Len(lateLogs'[c])
          PROVE  /\ lateLogs'[c][i].seq < next
                 /\ lateLogs'[c][i].seq \in skipped => lateLogs'[c][i].seq = s
      <4>1. CASE lateLogs'[c][i].seq = s
        BY <1>2, <4>1
      <4>2. CASE \E j \in 1..Len(lateLogs[c]) : lateLogs'[c][i].seq = lateLogs[c][j].seq
        BY <1>4, <4>2
      <4>3. QED
        BY <1>5, <2>1, <4>1, <4>2
    <3>2. QED
      BY <1>1, <1>5, <2>1, <3>1 DEF LogOK
  <2>2. CASE c \notin C
    BY <1>1, <1>4, <1>6, <2>2 DEF LogOK
  <2>3. QED
    BY <2>1, <2>2
<1>8. ASSUME NEW c \in Channels
      PROVE  cache'[c] \subseteq 1..(next - 1) /\ \A x \in cache'[c] : x \in cache[c] \/ x = s
  <2>1. cache[c] \subseteq 1..(next - 1)
    BY DEF WorldOK
  <2>2. cache'[c] = cache[c] \/ cache'[c] = cache[c] \cup {s}
    BY <1>1
  <2>3. QED
    BY <1>2, <2>1, <2>2
<1>9. WorldOK'
  <2>1. cache' \in [Channels -> SUBSET (1..(next' - 1))]
    <3>1. cache' = [c \in Channels |-> cache'[c]]
      BY <1>1
    <3>2. QED
      BY <1>1, <1>8, <3>1
  <2>2. missed' \subseteq 1..MaxSeq
    BY <1>1, <1>2 DEF WorldOK
  <2>3. DOMAIN lateLogs' = Channels
    BY <1>1
  <2>4. QED
    BY <1>1, <1>3, <1>7, <2>1, <2>2, <2>3 DEF WorldOK
<1>10. FeedOK'
  <2>1. next' \in Nat /\ next <= next'
    BY <1>1, <1>2
  <2>2. \A c \in Channels : feed.late[c].open =>
            (ListenedTo(lateLogs[c], feed.late[c].pos) =>
                 ListenedTo(lateLogs'[c], feed.late[c].pos))
    BY <1>5, <1>6
  <2>3. QED
    BY <1>1, <2>1, <2>2, FeedKept
<1>11. TriggerOK' /\ LongpollOK' /\ SkippedOK'
  BY <1>1, <1>3, FeedSame DEF TriggerOK, LongpollOK, SkippedOK
<1>12. Running => GainsFresh
  <2> SUFFICES ASSUME Running PROVE GainsFresh
    OBVIOUS
  <2>1. Reading => AfterLow(s)
    BY <1>1 DEF SkippedOK
  <2>2. ASSUME NEW c \in Channels, feed.late[c].open
        PROVE  /\ c \in C => LateOf(c)' = LateOf(c) \cup {s}
               /\ c \notin C => LateOf(c)' = LateOf(c)
    <3>1. ListenedTo(lateLogs[c], feed.late[c].pos)
      BY <2>2 DEF FeedOK, LatePositionKept, ListenedTo
    <3>2. QED
      BY <1>1, <1>5, <1>6, <3>1 DEF LateOf
  <2>3. \A c \in Channels : Served(c)' = Served(c)
    BY <1>1 DEF Served
  <2>4. ASSUME NEW c \in Channels, Served(c), c \in C, s \notin Got' PROVE Fresh(c, s)
    <3>1. ~ LateWindow(s, c)
      BY <1>1, <2>4 DEF Got
    <3>2. CASE feed.late[c].open
      BY <2>2, <2>4, <3>2 DEF Fresh
    <3>3. CASE ~ feed.late[c].open /\ Continuous
      <4>1. ~ (feed.pc = "late" /\ feed.at = c)
        BY <3>1, <3>3 DEF LateWindow, Continuous
      <4>2. CASE c \in feed.todo
        <5>1. ~ (s <= Start(c))
          BY <3>1, <3>3, <4>2 DEF LateWindow, Continuous, Start
        <5>2. Start(c) \in 0..feed.stable
          BY <2>4, StartBounded DEF Served
        <5>3. feed.stable \in Nat
          BY DEF FeedOK, FeedRecords
        <5>4. s > Start(c)
          BY <1>2, <5>1, <5>2, <5>3
        <5>5. QED
          BY <3>3, <4>2, <5>4 DEF Fresh
      <4>3. CASE feed.pc = "begin"
        <5>1. s > Start(c)
          BY <1>1, <1>3, <2>4, <3>3, <4>3 DEF KnownOK, AheadOK
        <5>2. QED
          BY <3>3, <4>3, <5>1 DEF Fresh
      <4>4. CASE c \notin feed.todo /\ feed.pc # "begin"
        <5>1. ~ ReadNow(c)
          BY <3>3, <4>1 DEF KnownOK
        <5>2. QED
          BY <4>4, <5>1 DEF Fresh
      <4>5. QED
        BY <4>2, <4>3, <4>4
    <3>4. CASE ~ Continuous
      BY <2>1, <3>4 DEF Fresh, ReadNow
    <3>5. QED
      BY <3>2, <3>3, <3>4
  <2>5. ASSUME NEW c \in Channels, Served(c), NEW x \in cache'[c] \ Got'
        PROVE  x \in cache[c] \/ Fresh(c, x)
    BY <1>6, <1>8, <2>4, <2>5
  <2>6. QED
    BY <1>1, <1>3, <2>1, <2>2, <2>3, <2>5 DEF GainsFresh
<1>13. KnownOK'
  BY <1>1, <1>9, <1>12, KnownStep
<1>14. ResumeSafe'
  <2>1. GainsNew
    BY <1>1, <1>3, <1>8 DEF GainsNew
  <2>2. QED
    BY <1>1, <1>9, <2>1, ResumeStep
<1>15. QED
  BY <1>9, <1>10, <1>11, <1>13, <1>14

-----------------------------------------------------------------------------
(* Steps of the feed: the cache and the user stay.                         *)

WorldStays ==
    /\ next' = next /\ skipped' = skipped /\ cache' = cache /\ finishing' = finishing
    /\ access' = access /\ revoked' = revoked /\ userSeq' = userSeq

(* A step of the feed that sends nothing leaves the client where it is.    *)
LEMMA ResumeKept ==
    ASSUME ResumeSafe, WorldStays, lastId' = lastId, Got \subseteq Got'
    PROVE  ResumeSafe'
<1>1. \A c \in Channels : ResumeFrom(c)' = ResumeFrom(c)
  BY DEF ResumeFrom, WorldStays
<1>2. QED
  BY <1>1 DEF ResumeSafe, WorldStays, Available, Got

(* The shared state stays well-formed when only the late logs change.      *)
LEMMA WorldKept ==
    ASSUME WorldOK, WorldStays, userChanged' \in BOOLEAN,
           DOMAIN lateLogs' = Channels, \A c \in Channels : LogOK(lateLogs'[c]),
           received' \subseteq 1..MaxSeq, missed' \subseteq 1..MaxSeq,
           IdUpTo(ClientId', next - 1)
    PROVE  WorldOK'
<1>1. \A c \in Channels : LogOK(lateLogs[c])'
  BY DEF LogOK, WorldStays
<1>2. QED
  BY <1>1 DEF WorldOK, WorldStays

(* The same when the late logs stay too.                                   *)
LEMMA WorldKeptAll ==
    ASSUME WorldOK, WorldStays, userChanged' \in BOOLEAN, lateLogs' = lateLogs,
           received' = received, missed' \subseteq 1..MaxSeq, lastId' = lastId
    PROVE  WorldOK'
<1>1. DOMAIN lateLogs' = Channels /\ \A c \in Channels : LogOK(lateLogs'[c])
  BY DEF WorldOK
<1>2. received' \subseteq 1..MaxSeq /\ IdUpTo(ClientId', next - 1)
  BY DEF WorldOK, ClientId
<1>3. QED
  BY <1>1, <1>2, WorldKept

(* No feed.                                                                *)
LEMMA NoFeedFacts ==
    /\ NoFeed \in FeedRecords
    /\ NoFeed.pc = "ended" /\ NoFeed.todo = {} /\ ~ NoFeed.sent
    /\ \A c \in Channels : ~ NoFeed.late[c].open
<1>1. MaxSeq \in Nat /\ 0 \in 0..MaxSeq
  BY ChangesFeedAssumption
<1>2. NoLate \in LateRecords /\ ~ NoLate.open
  BY <1>1 DEF NoLate, LateRecords
<1>3. SeqID(0) \in SequenceIDs(MaxSeq)
  BY <1>1 DEF SeqID, SequenceIDs
<1>4. [c \in Channels |-> NoLate] \in [Channels -> LateRecords]
  BY <1>2
<1>5. QED
  BY <1>1, <1>2, <1>3, <1>4 DEF NoFeed, FeedRecords, Modes

(* The request ends.                                                       *)
LEMMA EndStep ==
    ASSUME FeedInv, feed' = NoFeed, WorldStays, lateLogs' = lateLogs,
           userChanged' = FALSE, received' = received, lastId' = lastId, missed' = missed
    PROVE  FeedInv'
<1> USE DEF FeedInv
<1>1. WorldOK'
  <2>1. userChanged' \in BOOLEAN /\ missed' \subseteq 1..MaxSeq
    BY DEF WorldOK
  <2>2. QED
    BY <2>1, WorldKeptAll
<1>2. ~ Running' /\ ~ Reading'
  BY NoFeedFacts DEF Running, Reading
<1>3. FeedOK'
  BY <1>2, NoFeedFacts DEF FeedOK, LatePositionKept, Running
<1>4. ClientId' = ClientId /\ Got' = Got
  BY DEF ClientId, Got
<1>5. TriggerOK'
  BY <1>2, <1>4 DEF TriggerOK, WorldStays
<1>6. SkippedOK' /\ LongpollOK'
  BY <1>2 DEF SkippedOK, LongpollOK
<1>7. KnownOK'
  BY <1>2 DEF KnownOK, ReadNow
<1>8. ResumeSafe'
  BY <1>4, ResumeKept
<1>9. QED
  BY <1>1, <1>3, <1>5, <1>6, <1>7, <1>8

(* A longpoll ends after an iteration that sent something, and any request *)
(* when the client is gone.                                                *)
LEMMA EndRequestStep == ASSUME FeedInv, EndRequest \/ Disconnect PROVE FeedInv'
<1>1. /\ feed' = NoFeed /\ WorldStays /\ lateLogs' = lateLogs /\ userChanged' = FALSE
      /\ received' = received /\ lastId' = lastId /\ missed' = missed
  BY DEF EndRequest, Disconnect, WorldStays, world, client
<1>2. QED
  BY <1>1, EndStep

(* A request starts from the identifier the client holds.                  *)
LEMMA StartFeedStep ==
    ASSUME FeedInv, NEW mode \in Modes, StartFeed(mode)
    PROVE  FeedInv'
<1> USE DEF FeedInv
<1>1. /\ WorldStays /\ lateLogs' = lateLogs /\ userChanged' = userChanged
      /\ received' = received /\ lastId' = lastId /\ missed' = missed
  BY DEF StartFeed, WorldStays, world
<1>2. feed' = [NoFeed EXCEPT !.pc = "begin", !.mode = mode, !.since = ClientId,
                             !.requestLow = ClientId.lowSeq, !.stable = Stable,
                             !.chans = access, !.userSeq = userSeq]
  BY DEF StartFeed, ClientId
<1>3. /\ IdUpTo(ClientId, next - 1) /\ ClientId \in SequenceIDs(MaxSeq)
      /\ ClientId.lowSeq \in 0..MaxSeq
  BY WorldFacts, IdFacts DEF WorldOK, IdUpTo
<1>4. Stable \in 0..MaxSeq /\ Stable = next - 1 /\ Stable \in 1..(next - 1) /\ Stable \in Nat
  BY WorldFacts DEF Stable
<1>5. access \in [Channels -> 0..MaxSeq] /\ userSeq \in 0..MaxSeq
  BY DEF WorldOK
<1>6. /\ feed' \in FeedRecords
      /\ feed'.pc = "begin" /\ feed'.mode = mode /\ feed'.since = ClientId
      /\ feed'.requestLow = ClientId.lowSeq /\ feed'.stable = Stable
      /\ feed'.chans = access /\ feed'.userSeq = userSeq
      /\ feed'.added = {} /\ feed'.todo = {} /\ feed'.batch = {} /\ feed'.sent = FALSE
      /\ feed'.late = NoFeed.late
  <2>1. NoFeed \in FeedRecords
    BY NoFeedFacts
  <2>2. NoFeed.added = {} /\ NoFeed.todo = {} /\ NoFeed.batch = {} /\ NoFeed.sent = FALSE
    BY DEF NoFeed
  <2> HIDE DEF NoFeed
  <2>3. QED
    BY <1>2, <1>3, <1>4, <1>5, <2>1, <2>2 DEF FeedRecords
<1>7. Running' /\ ~ Reading' /\ ClientId' = ClientId /\ Got' = Got
  BY <1>1, <1>6 DEF Running, Reading, ClientId, Got
<1>8. \A c \in Channels : ~ feed'.late[c].open
  BY <1>6, NoFeedFacts
<1>9. WorldOK'
  <2>1. userChanged' \in BOOLEAN /\ missed' \subseteq 1..MaxSeq
    BY <1>1 DEF WorldOK
  <2>2. QED
    BY <1>1, <2>1, WorldKeptAll
<1>10. FeedOK'
  <2>1. LatePositionKept'
    BY <1>8 DEF LatePositionKept
  <2>2. feed'.stable \in 1..(next' - 1)
    BY <1>1, <1>4, <1>6 DEF WorldStays
  <2>3. IdUpTo(feed'.since, feed'.stable)
    BY <1>3, <1>4, <1>6
  <2>4. (\A c \in Owned : feed'.chans[c] = 1) /\ feed'.chans[GrantedChannel] # 1
    BY <1>6 DEF WorldOK
  <2>5. BatchOK'
    BY <1>6 DEF BatchOK
  <2>6. QED
    BY <1>6, <1>8, <2>1, <2>2, <2>3, <2>4, <2>5 DEF FeedOK
<1>11. TriggerOK'
  <2>1. /\ access[GrantedChannel] = 0 /\ ~ revoked => ClientId.triggeredBy = 0
        /\ access[GrantedChannel] # 0 => ClientId.triggeredBy \in {0, access[GrantedChannel]}
    BY DEF TriggerOK
  <2>2. QED
    BY <1>1, <1>6, <1>7, <1>8, <2>1, ChannelFacts DEF TriggerOK, WorldStays
<1>12. SkippedOK' /\ LongpollOK'
  BY <1>6, <1>7 DEF SkippedOK, LongpollOK
<1>13. KnownOK'
  <2>1. ASSUME NEW c \in Channels, Served(c)' PROVE AheadOK(c)'
    <3>1. access[c] # 0 /\ Start(c)' = From(ClientId, access[c])
      <4>1. Start(c)' = SafeSequence(ChannelSince(ClientId, access[c], FALSE))
        BY <1>6 DEF Start, ChannelSince
      <4>2. QED
        BY <1>1, <2>1, <4>1 DEF From, Served, WorldStays
    <3>2. From(ClientId, access[c]) = SafeSequence(ResumeFrom(c))
      BY DEF From, ResumeFrom, ClientId
    <3>3. \A s \in (cache[c] \cup skipped) \ Got : s > Start(c)'
      BY <3>1, <3>2 DEF ResumeSafe, Available, Got
    <3>4. QED
      BY <1>1, <1>6, <1>7, <1>8, <3>3 DEF AheadOK, WorldStays
  <2>2. QED
    BY <1>7, <2>1 DEF KnownOK, ReadNow
<1>14. ResumeSafe'
  BY <1>1, <1>7, ResumeKept
<1>15. QED
  BY <1>9, <1>10, <1>11, <1>12, <1>13, <1>14

(* An identifier without its low sequence.                                 *)
Dropped(id) == [triggeredBy |-> id.triggeredBy, lowSeq |-> 0, seq |-> id.seq]

(* The low sequence of the cache is below everything that is skipped.      *)
LEMMA LowFacts ==
    ASSUME WorldOK
    PROVE  /\ LowSequence \in 0..MaxSeq
           /\ \A s \in skipped : LowSequence # 0 /\ s > LowSequence
<1>1. CASE skipped = {}
  BY <1>1, WorldFacts DEF LowSequence
<1>2. CASE skipped # {}
  <2>1. skipped \subseteq Nat
    BY WorldFacts
  <2>2. Min(skipped) \in skipped /\ \A y \in skipped : Min(skipped) <= y
    BY <1>2, <2>1, LeastFacts
  <2>3. LowSequence = Min(skipped) - 1
    BY <1>2 DEF LowSequence
  <2>4. Min(skipped) \in Nat /\ Min(skipped) >= 2 /\ Min(skipped) < next
    BY <2>2, WorldFacts
  <2>5. LowSequence \in 0..MaxSeq /\ LowSequence # 0
    BY <2>3, <2>4, WorldFacts
  <2>6. ASSUME NEW s \in skipped PROVE s > LowSequence
    <3>1. s \in Nat /\ Min(skipped) <= s
      BY <2>1, <2>2
    <3>2. QED
      BY <2>3, <2>4, <3>1
  <2>7. QED
    BY <2>5, <2>6
<1>3. QED
  BY <1>1, <1>2

(* What a continuous feed forgets with a low sequence.                     *)
LEMMA ForgottenFacts ==
    ASSUME NEW a, NEW b, NEW c \in Available(feed.chans), NEW s \in cache[c],
           s > From(a, feed.chans[c]), s <= From(b, feed.chans[c])
    PROVE  s \in ForgottenLow(a, b)
<1>1. s \in {t \in cache[c] : /\ t > SafeSequence(ChannelSince(a, feed.chans[c], FALSE))
                           /\ t <= SafeSequence(ChannelSince(b, feed.chans[c], FALSE))}
  BY Zenon DEF From
<1>2. QED
  BY <1>1, Zenon DEF ForgottenLow

(* An iteration begins: the low sequence is read, and a low sequence that  *)
(* is still the same is dropped.                                           *)
LEMMA BeginIterationStep == ASSUME FeedInv, BeginIteration PROVE FeedInv'
<1> USE DEF FeedInv
<1> DEFINE low == LowSequence
           drop == feed.since.lowSeq # 0 /\ feed.since.lowSeq = low
           since == IF drop THEN [feed.since EXCEPT !.lowSeq = 0] ELSE feed.since
<1>1. /\ WorldStays /\ lateLogs' = lateLogs /\ userChanged' = userChanged
      /\ received' = received /\ lastId' = lastId
      /\ feed.pc = "begin"
  BY DEF BeginIteration, WorldStays, world, client
<1>2. /\ feed' = [feed EXCEPT !.pc = "reading", !.low = low, !.since = since,
                              !.todo = Available(feed.chans), !.batch = UserFeed(since),
                              !.sent = FALSE]
      /\ missed' = IF drop /\ Continuous THEN missed \cup ForgottenLow(feed.since, since)
                   ELSE missed
  BY DEF BeginIteration, Continuous
<1>3. Running /\ feed \in FeedRecords /\ feed.stable \in Nat /\ IdUpTo(feed.since, feed.stable)
  BY <1>1 DEF Running, FeedOK, FeedRecords
<1>4. /\ feed.since.seq \in Nat /\ feed.since.triggeredBy \in Nat /\ feed.since.lowSeq \in Nat
      /\ feed.since \in SequenceIDs(MaxSeq) /\ 0 \in 0..MaxSeq
  BY <1>3, IdFacts, WorldFacts DEF IdUpTo
<1>5. since = IF drop THEN Dropped(feed.since) ELSE feed.since
  <2>1. ASSUME NEW id \in SequenceIDs(MaxSeq) PROVE [id EXCEPT !.lowSeq = 0] = Dropped(id)
    BY DEF SequenceIDs, Dropped
  <2>2. QED
    BY <1>4, <2>1
<1>6. /\ IdUpTo(since, feed.stable) /\ since \in SequenceIDs(MaxSeq)
      /\ since.seq = feed.since.seq /\ since.triggeredBy = feed.since.triggeredBy
  <2>1. IdUpTo(Dropped(feed.since), feed.stable)
    BY <1>3, <1>4 DEF IdUpTo, Dropped, SequenceIDs
  <2>2. QED
    BY <1>3, <1>5, <2>1 DEF IdUpTo, Dropped
<1> HIDE DEF since
<1>7. /\ UserFeed(since) \subseteq SequenceIDs(MaxSeq)
      /\ \A id \in UserFeed(since) : id.lowSeq = 0 /\ id.seq > 0 /\ id.triggeredBy = 0
  <2>1. feed.userSeq \in 0..MaxSeq /\ feed.userSeq \in Nat
    BY <1>3, WorldFacts DEF FeedRecords
  <2>2. SafeSequence(since) \in Nat /\ since.triggeredBy \in Nat
    BY <1>3, <1>6, IdFacts
  <2>3. Before(since, SeqID(feed.userSeq)) => feed.userSeq > 0
    <3>1. /\ SeqID(feed.userSeq).triggeredBy = 0
          /\ SafeSequence(SeqID(feed.userSeq)) = feed.userSeq
      BY DEF SeqID, SafeSequence
    <3>2. QED
      BY <2>1, <2>2, <3>1 DEF Before
  <2>4. SeqID(feed.userSeq) \in SequenceIDs(MaxSeq)
    BY <1>4, <2>1 DEF SeqID, SequenceIDs
  <2>5. QED
    BY <2>3, <2>4 DEF UserFeed, SeqID
<1>8. Available(feed.chans) \subseteq Channels /\ LowSequence \in 0..MaxSeq
  BY LowFacts DEF Available
<1>9. /\ feed' \in FeedRecords
      /\ feed'.pc = "reading" /\ feed'.low = low /\ feed'.since = since
      /\ feed'.todo = Available(feed.chans) /\ feed'.batch = UserFeed(since)
      /\ feed'.sent = FALSE
      /\ feed'.mode = feed.mode /\ feed'.stable = feed.stable /\ feed'.late = feed.late
      /\ feed'.requestLow = feed.requestLow /\ feed'.chans = feed.chans
      /\ feed'.added = feed.added
  BY <1>2, <1>3, <1>6, <1>7, <1>8 DEF FeedRecords
<1>10. ClientId' = ClientId /\ Got \subseteq Got' /\ Running' /\ Continuous' = Continuous
  BY <1>1, <1>2, <1>9 DEF ClientId, Got, Running, Continuous
<1>11. missed' \subseteq 1..MaxSeq
  <2>1. ForgottenLow(feed.since, since) \subseteq 1..MaxSeq
    <3>1. \A c \in Channels : cache[c] \subseteq 1..MaxSeq
      BY WorldFacts
    <3>2. QED
      BY <1>8, <3>1 DEF ForgottenLow
  <2>2. QED
    BY <1>2, <2>1 DEF WorldOK
<1>12. WorldOK'
  <2>1. userChanged' \in BOOLEAN
    BY <1>1 DEF WorldOK
  <2>2. QED
    BY <1>1, <1>11, <2>1, WorldKeptAll
<1>13. FeedOK'
  <2>1. LatePositionKept'
    BY <1>1, <1>9 DEF FeedOK, LatePositionKept
  <2>2. BatchOK'
    BY <1>7, <1>9 DEF BatchOK
  <2>3. feed'.stable \in 1..(next' - 1)
    BY <1>1, <1>3, <1>9 DEF FeedOK, WorldStays
  <2>4. QED
    BY <1>3, <1>6, <1>9, <1>10, <2>1, <2>2, <2>3 DEF FeedOK
<1>14. TriggerOK'
  BY <1>1, <1>3, <1>6, <1>9, <1>10 DEF TriggerOK, WorldStays
<1>15. SkippedOK'
  BY <1>1, <1>9, LowFacts DEF SkippedOK, AfterLow, WorldStays
<1>16. LongpollOK'
  <2> SUFFICES ASSUME ~ Continuous
               PROVE  /\ feed'.requestLow = ClientId.lowSeq
                      /\ \/ feed'.since = ClientId
                         \/ /\ ClientId.lowSeq # 0 /\ ClientId.lowSeq = feed'.low
                            /\ feed'.since = Dropped(ClientId)
    <3>1. ASSUME NEW id \in SequenceIDs(MaxSeq) PROVE [id EXCEPT !.lowSeq = 0] = Dropped(id)
      BY DEF SequenceIDs, Dropped
    <3>2. ClientId \in SequenceIDs(MaxSeq)
      BY DEF WorldOK, IdUpTo
    <3>3. [ClientId EXCEPT !.lowSeq = 0] = Dropped(ClientId)
      BY <3>1, <3>2
    <3>4. Reading'
      BY <1>9 DEF Reading
    <3>5. QED
      BY <1>10, <3>3, <3>4 DEF LongpollOK
  <2>1. ~ feed.sent /\ ~ Reading
    BY <1>1 DEF FeedOK, Reading
  <2>2. feed.requestLow = ClientId.lowSeq /\ feed.since = ClientId
    BY <1>3, <2>1 DEF LongpollOK
  <2>3. QED
    BY <1>5, <1>9, <2>2
<1>17. KnownOK'
  <2>1. \A c \in Channels : ~ ReadNow(c)'
    <3>1. ASSUME NEW c \in Channels, feed.chans[c] # 0 PROVE c \in feed'.todo
      BY <1>9, <3>1 DEF Available
    <3>2. QED
      BY <1>9, <3>1 DEF ReadNow
  <2>2. ASSUME NEW c \in Channels, Served(c)', Continuous PROVE AheadOK(c)'
    <3>1. Served(c) /\ AheadOK(c) /\ feed.chans[c] # 0
      BY <1>1, <1>3, <1>9, <2>2 DEF KnownOK, Served, WorldStays
    <3>2. LateOf(c)' = LateOf(c)
      BY <1>1, <1>9 DEF LateOf
    <3>3. CASE feed.late[c].open
      BY <1>1, <1>6, <1>9, <1>10, <3>1, <3>2, <3>3 DEF AheadOK, WorldStays
    <3>4. CASE ~ feed.late[c].open
      <4>1. ASSUME NEW s \in cache[c] \ Got' PROVE s > Start(c)'
        <5>1. s > Start(c) /\ s \in Nat
          BY <1>10, <3>1, <3>4, <4>1, WorldFacts DEF AheadOK
        <5>2. Start(c)' = IF c \in feed.added THEN 0 ELSE From(since, feed.chans[c])
          BY <1>9 DEF Start, From, ChannelSince, SafeSequence, Triggered
        <5>3. CASE c \in feed.added
          BY <5>1, <5>2, <5>3, StartFacts
        <5>4. CASE c \notin feed.added /\ ~ drop
          <6>1. since = feed.since
            BY <1>5, <5>4
          <6>2. QED
            BY <5>1, <5>2, <5>4, <6>1, StartFacts
        <5>5. CASE c \notin feed.added /\ drop
          <6>1. s \notin ForgottenLow(feed.since, since)
            BY <1>2, <2>2, <4>1, <5>5 DEF Got
          <6>2. c \in Available(feed.chans)
            BY <3>1 DEF Available
          <6>3. s > From(feed.since, feed.chans[c])
            BY <5>1, <5>5, StartFacts
          <6>4. ~ (s <= From(since, feed.chans[c]))
            BY <4>1, <6>1, <6>2, <6>3, ForgottenFacts
          <6>5. From(since, feed.chans[c]) \in 0..feed.stable
            <7>1. feed.chans[c] \in Nat /\ feed.chans[c] > 0
              BY <1>3, <3>1, WorldFacts DEF FeedRecords
            <7>2. feed.chans[c] # 1 => since.triggeredBy \in {0, feed.chans[c]}
              BY <1>3, <1>6, <3>1, ChannelFacts DEF FeedOK, TriggerOK
            <7>3. QED
              BY <1>3, <1>6, <7>1, <7>2, SinceBounded
          <6>6. s > From(since, feed.chans[c])
            BY <1>3, <5>1, <6>4, <6>5
          <6>7. QED
            BY <5>2, <5>5, <6>6
        <5>6. QED
          BY <5>3, <5>4, <5>5
      <4>2. QED
        BY <1>1, <1>9, <3>4, <4>1 DEF AheadOK, WorldStays
    <3>5. QED
      BY <3>3, <3>4
  <2>3. QED
    BY <1>10, <2>1, <2>2 DEF KnownOK
<1>18. ResumeSafe'
  BY <1>1, <1>10, ResumeKept
<1>19. QED
  BY <1>12, <1>13, <1>14, <1>15, <1>16, <1>17, <1>18

(* The sequence a channel's backfill is triggered by, as the feed reads    *)
(* the channel.                                                            *)
TriggerOf(c) == ChannelSince(feed.since, feed.chans[c], c \in feed.added).triggeredBy

(* The changes of a channel are its entries from where it is read, those   *)
(* before the grant marked as backfill.                                    *)
LEMMA ChangesFacts ==
    ASSUME WorldOK, FeedOK, TriggerOK, Running, NEW c \in Channels, feed.chans[c] # 0,
           NEW changes, changes = ChannelChanges(c,
               ChannelSince(feed.since, feed.chans[c], c \in feed.added))
    PROVE  /\ changes \subseteq SequenceIDs(MaxSeq)
           /\ \A id \in changes :
                 /\ id.lowSeq = 0 /\ id.seq > 0
                 /\ id.triggeredBy \in {0, TriggerOf(c)}
                 /\ c # GrantedChannel => id.triggeredBy = 0
                 /\ id.triggeredBy # 0 =>
                       id.triggeredBy = feed.chans[c] /\ id.seq < id.triggeredBy
           /\ \A s \in cache[c] : s > Start(c) => \E id \in changes : id.seq = s
           /\ c # GrantedChannel =>
                 \A s \in cache[c] : s > Start(c) => SeqID(s) \in changes
<1> DEFINE t == TriggerOf(c)
           Id(s) == [triggeredBy |-> IF s >= t THEN 0 ELSE t, lowSeq |-> 0, seq |-> s]
<1>1. changes = {Id(s) : s \in {x \in cache[c] : x > Start(c)}}
  BY DEF ChannelChanges, Start, TriggerOf
<1>2. /\ feed.chans[c] \in 0..MaxSeq /\ feed.chans[c] \in Nat /\ MaxSeq \in Nat
      /\ feed.since.triggeredBy \in Nat /\ feed.since.triggeredBy \in 0..MaxSeq
  <2>1. feed.stable \in Nat /\ IdUpTo(feed.since, feed.stable)
    BY DEF FeedOK, FeedRecords
  <2>2. feed.chans[c] \in 0..MaxSeq
    BY DEF FeedOK, FeedRecords
  <2>3. QED
    BY <2>1, <2>2, IdFacts, WorldFacts
<1>3. /\ t \in {0, feed.chans[c]}
      /\ c # GrantedChannel => t \in {0, 1}
  <2>1. t \in {0, feed.chans[c], feed.since.triggeredBy}
    BY DEF TriggerOf, ChannelSince, SeqID, Triggered
  <2>2. CASE c = GrantedChannel
    BY <2>1, <2>2 DEF TriggerOK
  <2>3. CASE c # GrantedChannel
    <3>1. feed.chans[c] = 1
      BY <2>3, ChannelFacts DEF FeedOK
    <3>2. feed.since.triggeredBy # 0 => feed.since.triggeredBy > 1
      BY DEF FeedOK, IdUpTo
    <3>3. t \in {0, 1}
      BY <1>2, <3>1, <3>2 DEF TriggerOf, ChannelSince, SeqID, Triggered
    <3>4. QED
      BY <3>1, <3>3
  <2>4. QED
    BY <2>2, <2>3
<1> HIDE DEF t
<1>4. ASSUME NEW s \in cache[c]
      PROVE  /\ Id(s) \in SequenceIDs(MaxSeq)
             /\ Id(s).lowSeq = 0 /\ Id(s).seq = s /\ s > 0
             /\ Id(s).triggeredBy \in {0, t}
             /\ c # GrantedChannel => Id(s) = SeqID(s) /\ Id(s).triggeredBy = 0
             /\ Id(s).triggeredBy # 0 => Id(s).triggeredBy = feed.chans[c] /\ s < Id(s).triggeredBy
  <2>1. s \in Nat /\ s >= 1 /\ s <= MaxSeq /\ s \in 0..MaxSeq /\ 0 \in 0..MaxSeq
    BY WorldFacts
  <2>2. t \in 0..MaxSeq /\ t \in Nat
    BY <1>2, <1>3, <2>1
  <2>3. c # GrantedChannel => s >= t
    BY <1>3, <2>1
  <2>4. QED
    BY <1>3, <2>1, <2>2, <2>3 DEF SequenceIDs, SeqID
<1> HIDE DEF Id
<1>5. QED
  BY <1>1, <1>4 DEF t

(* What a longpoll that has sent nothing reads of a channel: everything    *)
(* the client has not got, but for what follows an unchanged low sequence. *)
LEMMA LongpollReads ==
    ASSUME WorldOK, FeedOK, TriggerOK, LongpollOK, ResumeSafe, Reading, ~ Continuous,
           ~ feed.sent, NEW c \in Channels, Served(c), NEW s \in cache[c] \ Got
    PROVE  \/ s > Start(c)
           \/ feed.low # 0 /\ s > feed.low
           \/ /\ c = GrantedChannel /\ feed.low # 0 /\ feed.low < access[c]
              /\ TriggerOf(c) = 0
<1>1. access[c] # 0 /\ feed.chans[c] = access[c] /\ access[c] \in Nat
      /\ MaxSeq \in Nat /\ next - 1 \in Nat
  BY WorldFacts DEF Served, WorldOK
<1>2. s > From(ClientId, access[c])
  <2>1. SafeSequence(ResumeFrom(c)) = From(ClientId, access[c])
    BY DEF ResumeFrom, From, ClientId
  <2>2. QED
    BY <1>1, <2>1 DEF ResumeSafe, Available, Got
<1>3. s \in Nat /\ s >= 1
  BY WorldFacts
<1>4. CASE c \in feed.added
  BY <1>3, <1>4, StartFacts
<1>5. CASE c \notin feed.added /\ feed.since = ClientId
  BY <1>1, <1>2, <1>5, StartFacts
<1>6. CASE c \notin feed.added /\ feed.since # ClientId
  <2>1. /\ IdUpTo(ClientId, next - 1)
        /\ ClientId.lowSeq \in Nat /\ ClientId.seq \in Nat /\ ClientId.triggeredBy \in Nat
        /\ ClientId \in SequenceIDs(MaxSeq)
    BY <1>1, IdFacts DEF WorldOK, IdUpTo
  <2>2. /\ ClientId.lowSeq # 0 /\ ClientId.lowSeq = feed.low
        /\ feed.since = Dropped(ClientId)
    <3>1. ASSUME NEW id \in SequenceIDs(MaxSeq) PROVE [id EXCEPT !.lowSeq = 0] = Dropped(id)
      BY DEF SequenceIDs, Dropped
    <3>2. Running
      BY DEF Reading, Running
    <3>3. QED
      BY <1>6, <2>1, <3>1, <3>2 DEF LongpollOK
  <2>3. SafeSequence(ClientId) = feed.low /\ SafeSequence(feed.since) = ClientId.seq
    BY <2>1, <2>2 DEF SafeSequence, Dropped
  <2>4. feed.since.triggeredBy = ClientId.triggeredBy
    BY <2>2 DEF Dropped
  <2>5. Start(c) = From(feed.since, access[c])
    BY <1>1, <1>6, StartFacts
  <2>6. IdUpTo(feed.since, next - 1)
    <3>1. 0 \in 0..MaxSeq
      BY <1>1
    <3>2. IdUpTo(Dropped(ClientId), next - 1)
      BY <2>1, <3>1 DEF IdUpTo, Dropped, SequenceIDs
    <3>3. QED
      BY <2>2, <3>2
  <2>7. CASE c # GrantedChannel
    <3>1. access[c] = 1
      BY <2>7, ChannelFacts DEF WorldOK
    <3>2. /\ From(ClientId, 1) = IF ClientId.triggeredBy # 0 THEN ClientId.triggeredBy
                                 ELSE SafeSequence(ClientId)
          /\ From(feed.since, 1) = IF feed.since.triggeredBy # 0 THEN feed.since.triggeredBy
                                   ELSE SafeSequence(feed.since)
      BY <1>1, <2>1, <2>6, OwnedSince
    <3>3. CASE ClientId.triggeredBy # 0
      BY <1>2, <2>4, <2>5, <3>1, <3>2, <3>3
    <3>4. CASE ClientId.triggeredBy = 0
      BY <1>2, <2>2, <2>3, <3>1, <3>2, <3>4
    <3>5. QED
      BY <3>3, <3>4
  <2>8. CASE c = GrantedChannel
    <3>1. access[c] > 1 /\ ClientId.triggeredBy \in {0, access[c]}
      BY <1>1, <2>8 DEF WorldOK, TriggerOK
    <3>2. /\ From(ClientId, access[c]) =
                IF ClientId.triggeredBy = 0 /\ SafeSequence(ClientId) < access[c] THEN 0
                ELSE SafeSequence(ClientId)
          /\ From(feed.since, access[c]) =
                IF feed.since.triggeredBy = 0 /\ SafeSequence(feed.since) < access[c] THEN 0
                ELSE SafeSequence(feed.since)
      BY <1>1, <2>1, <2>4, <2>6, <3>1, GrantedSince
    <3>3. CASE ~ (ClientId.triggeredBy = 0 /\ feed.low < access[c])
      BY <1>2, <2>2, <2>3, <3>2, <3>3
    <3>4. CASE ClientId.triggeredBy = 0 /\ feed.low < access[c] /\ ClientId.seq < access[c]
      BY <1>3, <2>3, <2>4, <2>5, <3>2, <3>4
    <3>5. CASE ClientId.triggeredBy = 0 /\ feed.low < access[c] /\ ~ (ClientId.seq < access[c])
      <4>1. TriggerOf(c) = ChannelSince(feed.since, access[c], FALSE).triggeredBy
        BY <1>1, <1>6 DEF TriggerOf, ChannelSince
      <4>2. ChannelSince(feed.since, access[c], FALSE).triggeredBy = 0
        <5>1. ~ Before(feed.since, SeqID(access[c]))
          <6>1. SeqID(access[c]).triggeredBy = 0 /\ SafeSequence(SeqID(access[c])) = access[c]
            BY DEF SeqID, SafeSequence
          <6>2. QED
            BY <2>3, <2>4, <3>5, <6>1 DEF Before
        <5>2. QED
          BY <2>4, <3>5, <5>1 DEF ChannelSince
      <4>3. QED
        BY <2>2, <2>8, <3>5, <4>1, <4>2
    <3>6. QED
      BY <3>3, <3>4, <3>5
  <2>9. QED
    BY <2>7, <2>8
<1>7. QED
  BY <1>4, <1>5, <1>6

(* What is ahead of both components of the feed's position is read.        *)
LEMMA AheadOfStart ==
    ASSUME FeedOK, TriggerOK, Running, NEW c \in Channels, feed.chans[c] # 0,
           NEW s \in Nat, s > feed.since.seq, s > feed.since.triggeredBy
    PROVE  s > Start(c)
<1>1. /\ feed.stable \in Nat /\ IdUpTo(feed.since, feed.stable)
      /\ feed.chans[c] \in Nat /\ MaxSeq \in Nat
  BY ChangesFeedAssumption DEF FeedOK, FeedRecords
<1>2. /\ SafeSequence(feed.since) \in Nat /\ SafeSequence(feed.since) <= feed.since.seq
      /\ feed.since.seq \in Nat /\ feed.since.triggeredBy \in Nat
  BY <1>1, IdFacts
<1>3. CASE c \in feed.added
  BY <1>2, <1>3, StartFacts
<1>4. CASE c \notin feed.added /\ c # GrantedChannel
  <2>1. feed.chans[c] = 1
    BY <1>4, ChannelFacts DEF FeedOK
  <2>2. From(feed.since, 1) = IF feed.since.triggeredBy # 0 THEN feed.since.triggeredBy
                              ELSE SafeSequence(feed.since)
    BY <1>1, OwnedSince
  <2>3. QED
    BY <1>2, <1>4, <2>1, <2>2, StartFacts
<1>5. CASE c \notin feed.added /\ c = GrantedChannel
  <2>1. feed.chans[c] > 1 /\ feed.since.triggeredBy \in {0, feed.chans[c]}
    BY <1>1, <1>5 DEF FeedOK, TriggerOK
  <2>2. From(feed.since, feed.chans[c]) =
            IF feed.since.triggeredBy = 0 /\ SafeSequence(feed.since) < feed.chans[c] THEN 0
            ELSE SafeSequence(feed.since)
    BY <1>1, <2>1, GrantedSince
  <2>3. QED
    BY <1>2, <1>5, <2>2, StartFacts
<1>6. QED
  BY <1>3, <1>4, <1>5

(* A channel whose grant the cache has not reached is left for later.      *)
LEMMA ReadNothingStep ==
    ASSUME FeedInv, NEW c \in Channels, ReadChannel(c), feed.chans[c] > feed.stable
    PROVE  FeedInv'
<1> USE DEF FeedInv
<1>1. /\ WorldStays /\ lateLogs' = lateLogs /\ userChanged' = userChanged
      /\ received' = received /\ lastId' = lastId /\ missed' = missed
      /\ feed.pc = "reading" /\ c \in feed.todo
      /\ feed' = [feed EXCEPT !.todo = @ \ {c}]
  BY DEF ReadChannel, WorldStays, world, client
<1>2. feed \in FeedRecords /\ feed.stable \in Nat /\ feed.chans[c] \in Nat
  BY ChangesFeedAssumption DEF FeedOK, FeedRecords
<1>3. /\ feed' \in FeedRecords /\ feed'.todo = feed.todo \ {c}
      /\ feed'.pc = feed.pc /\ feed'.mode = feed.mode /\ feed'.since = feed.since
      /\ feed'.stable = feed.stable /\ feed'.low = feed.low
      /\ feed'.requestLow = feed.requestLow /\ feed'.chans = feed.chans
      /\ feed'.added = feed.added /\ feed'.at = feed.at /\ feed'.batch = feed.batch
      /\ feed'.late = feed.late /\ feed'.sent = feed.sent
  BY <1>1, <1>2 DEF FeedRecords
<1>4. /\ ClientId' = ClientId /\ Got' = Got /\ Running' = Running /\ Reading' = Reading
      /\ Continuous' = Continuous
  BY <1>1, <1>3 DEF ClientId, Got, Running, Reading, Continuous
<1>5. WorldOK'
  <2>1. userChanged' \in BOOLEAN /\ missed' \subseteq 1..MaxSeq
    BY <1>1 DEF WorldOK
  <2>2. QED
    BY <1>1, <2>1, WorldKeptAll
<1>6. FeedOK'
  <2>1. LatePositionKept'
    BY <1>1, <1>3 DEF FeedOK, LatePositionKept
  <2>2. BatchOK' \/ ~ Running
    BY <1>3 DEF FeedOK, BatchOK
  <2>3. QED
    BY <1>1, <1>3, <1>4, <2>1, <2>2 DEF FeedOK, WorldStays
<1>7. TriggerOK' /\ SkippedOK' /\ LongpollOK'
  BY <1>1, <1>3, <1>4 DEF TriggerOK, SkippedOK, LongpollOK, AfterLow, WorldStays
<1>8. KnownOK'
  <2> SUFFICES ASSUME NEW d \in Channels
               PROVE
        /\ Running' /\ Continuous' /\ Served(d)' /\ (feed'.pc = "begin" \/ d \in feed'.todo)
              => AheadOK(d)'
        /\ Served(d)' /\ ReadNow(d)' => \A s \in cache'[d] \ Got' : Pending(d, s)'
        /\ Continuous' /\ ReadNow(d)' /\ ~ (feed'.pc = "late" /\ feed'.at = d) =>
              /\ feed'.late[d].open /\ feed'.late[d].active
              /\ \A s \in LateOf(d)' : AfterLow(s)'
    BY DEF KnownOK
  <2>1. /\ Served(d)' = Served(d) /\ Start(d)' = Start(d) /\ LateOf(d)' = LateOf(d)
        /\ \A s : InBatch(d, s)' = InBatch(d, s) /\ LeftOut(d, s)' = LeftOut(d, s)
        /\ \A s : AfterLow(s)' = AfterLow(s)
    BY <1>1, <1>3, <1>4 DEF Served, Start, LateOf, InBatch, LeftOut, AfterLow, WorldStays
  <2>2. AheadOK(d) => AheadOK(d)'
    BY <1>1, <1>3, <1>4, <2>1 DEF AheadOK, WorldStays
  <2>3. \A s : Pending(d, s)' = Pending(d, s)
    BY <1>3, <2>1 DEF Pending
  <2>4. ReadNow(d)' => ReadNow(d)
    <3>1. CASE d = c
      BY <1>2, <1>3, <3>1 DEF ReadNow
    <3>2. CASE d # c
      BY <1>3, <1>4, <3>2 DEF ReadNow
    <3>3. QED
      BY <3>1, <3>2
  <2>5. cache' = cache
    BY <1>1 DEF WorldStays
  <2>6. QED
    BY <1>1, <1>3, <1>4, <2>1, <2>2, <2>3, <2>4, <2>5 DEF KnownOK
<1>9. ResumeSafe'
  BY <1>1, <1>4, ResumeKept
<1>10. QED
  BY <1>5, <1>6, <1>7, <1>8, <1>9

(* A channel is read: what the client has not got is in the batch, after   *)
(* the stable sequence, left out by a longpoll, or in the late log.        *)
LEMMA ReadChannelStep ==
    ASSUME FeedInv, NEW c \in Channels, ReadChannel(c), ~ (feed.chans[c] > feed.stable)
    PROVE  FeedInv'
<1> USE DEF FeedInv
<1> DEFINE changes == ChannelChanges(c,
               ChannelSince(feed.since, feed.chans[c], c \in feed.added))
<1>1. /\ WorldStays /\ lateLogs' = lateLogs /\ userChanged' = userChanged
      /\ received' = received /\ lastId' = lastId /\ missed' = missed
      /\ feed.pc = "reading" /\ c \in feed.todo
      /\ feed' = [feed EXCEPT !.todo = @ \ {c},
                              !.at = IF feed.mode = "continuous" THEN c ELSE None,
                              !.pc = IF feed.mode = "continuous" THEN "late" ELSE "reading",
                              !.batch = @ \cup changes]
  BY DEF ReadChannel, WorldStays, world, client
<1>2. /\ feed \in FeedRecords /\ feed.stable \in Nat /\ feed.chans[c] \in Nat
      /\ feed.mode \in {"continuous", "longpoll"}
  BY ChangesFeedAssumption DEF FeedOK, FeedRecords, Modes
<1>3. Running /\ Reading /\ feed.chans[c] # 0 /\ feed.chans[c] \in 1..feed.stable
  BY <1>1, <1>2 DEF Running, Reading, FeedOK, Available
<1>4. /\ changes \subseteq SequenceIDs(MaxSeq)
      /\ \A id \in changes :
            /\ id.lowSeq = 0 /\ id.seq > 0
            /\ id.triggeredBy \in {0, TriggerOf(c)}
            /\ c # GrantedChannel => id.triggeredBy = 0
            /\ id.triggeredBy # 0 =>
                  id.triggeredBy = feed.chans[c] /\ id.seq < id.triggeredBy
      /\ \A s \in cache[c] : s > Start(c) => \E id \in changes : id.seq = s
      /\ c # GrantedChannel =>
            \A s \in cache[c] : s > Start(c) => SeqID(s) \in changes
  BY <1>3, ChangesFacts
<1> HIDE DEF changes
<1>5. /\ feed' \in FeedRecords /\ feed'.todo = feed.todo \ {c}
      /\ feed'.at = (IF Continuous THEN c ELSE None)
      /\ feed'.pc = (IF Continuous THEN "late" ELSE "reading")
      /\ feed'.batch = feed.batch \cup changes
      /\ feed'.mode = feed.mode /\ feed'.since = feed.since
      /\ feed'.stable = feed.stable /\ feed'.low = feed.low
      /\ feed'.requestLow = feed.requestLow /\ feed'.chans = feed.chans
      /\ feed'.added = feed.added /\ feed'.late = feed.late /\ feed'.sent = feed.sent
  BY <1>1, <1>2, <1>4 DEF FeedRecords, Continuous
<1>6. /\ ClientId' = ClientId /\ Got' = Got /\ Running' /\ Reading'
      /\ Continuous' = Continuous
  BY <1>1, <1>5 DEF ClientId, Got, Running, Reading, Continuous
<1>7. WorldOK'
  <2>1. userChanged' \in BOOLEAN /\ missed' \subseteq 1..MaxSeq
    BY <1>1 DEF WorldOK
  <2>2. QED
    BY <1>1, <2>1, WorldKeptAll
<1>8. FeedOK'
  <2>1. LatePositionKept'
    BY <1>1, <1>5 DEF FeedOK, LatePositionKept
  <2>2. BatchOK'
    <3>1. ASSUME NEW id \in feed.batch \cup changes
          PROVE  /\ id.lowSeq = 0 /\ id.seq > 0
                 /\ id.triggeredBy \in {0, feed.chans[GrantedChannel]}
                 /\ id.triggeredBy # 0 =>
                       /\ id.seq < id.triggeredBy /\ id.triggeredBy <= feed.stable
                       /\ GrantedChannel \notin feed.todo \ {c}
      <4>1. CASE id \in feed.batch
        BY <1>3, <4>1 DEF FeedOK, BatchOK
      <4>2. CASE id \in changes
        BY <1>2, <1>3, <1>4, <4>2
      <4>3. QED
        BY <3>1, <4>1, <4>2
    <3>2. QED
      BY <1>5, <3>1 DEF BatchOK
  <2>3. /\ feed'.pc # "begin" /\ (feed'.todo # {} => ~ feed'.sent)
        /\ feed'.todo \subseteq Available(feed'.chans)
    BY <1>1, <1>3, <1>5 DEF FeedOK
  <2>4. feed'.pc = "late" => Continuous /\ feed'.at \in Channels \ feed'.todo
            /\ feed'.chans[feed'.at] \in 1..feed'.stable
    BY <1>3, <1>5
  <2>5. /\ feed'.stable \in 1..(next' - 1) /\ IdUpTo(feed'.since, feed'.stable)
        /\ (\A d \in Owned : feed'.chans[d] = 1) /\ feed'.chans[GrantedChannel] # 1
    BY <1>1, <1>3, <1>5 DEF FeedOK, WorldStays
  <2>6. \A d \in Channels : feed'.late[d].open =>
            Continuous' /\ feed'.chans[d] <= feed'.stable
    BY <1>3, <1>5, <1>6 DEF FeedOK
  <2>7. QED
    BY <1>5, <1>6, <2>1, <2>2, <2>3, <2>4, <2>5, <2>6 DEF FeedOK
<1>9. TriggerOK' /\ SkippedOK'
  BY <1>1, <1>3, <1>5, <1>6 DEF TriggerOK, SkippedOK, AfterLow, WorldStays
<1>10. LongpollOK'
  BY <1>1, <1>3, <1>5, <1>6 DEF LongpollOK
<1>11. /\ \A d : Served(d)' = Served(d) /\ Start(d)' = Start(d) /\ LateOf(d)' = LateOf(d)
       /\ \A s : AfterLow(s)' = AfterLow(s)
       /\ cache' = cache /\ access' = access
  BY <1>1, <1>5 DEF Served, Start, LateOf, AfterLow, WorldStays
<1>12. ASSUME Served(c), NEW s \in cache[c] \ Got PROVE Pending(c, s)'
  <2>1. ASSUME s > Start(c) PROVE InBatch(c, s)'
    BY <1>4, <1>5, <1>12, <2>1 DEF InBatch
  <2>2. CASE Continuous
    <3>1. AheadOK(c)
      BY <1>1, <1>3, <1>12, <2>2 DEF KnownOK
    <3>2. CASE feed.late[c].open
      <4>1. CASE s \in LateOf(c)
        BY <1>5, <1>11, <3>2, <4>1 DEF Pending
      <4>2. CASE s > feed.since.seq /\ s > feed.since.triggeredBy
        <5>1. s \in Nat
          BY WorldFacts
        <5>2. s > Start(c)
          BY <1>3, <4>2, <5>1, AheadOfStart
        <5>3. QED
          BY <2>1, <5>2 DEF Pending
      <4>3. QED
        BY <3>1, <3>2, <4>1, <4>2 DEF AheadOK
    <3>3. CASE ~ feed.late[c].open
      BY <2>1, <3>1, <3>3 DEF AheadOK, Pending
    <3>4. QED
      BY <3>2, <3>3
  <2>3. CASE ~ Continuous
    <3>1. ~ feed.sent
      BY <1>1 DEF FeedOK
    <3>2. \/ s > Start(c)
          \/ feed.low # 0 /\ s > feed.low
          \/ /\ c = GrantedChannel /\ feed.low # 0 /\ feed.low < access[c]
             /\ TriggerOf(c) = 0
      BY <1>3, <1>12, <2>3, <3>1, LongpollReads
    <3>3. CASE s > Start(c)
      BY <2>1, <3>3 DEF Pending
    <3>4. CASE feed.low # 0 /\ s > feed.low
      BY <1>5, <1>6, <2>3, <3>4 DEF Pending, LeftOut
    <3>5. CASE /\ c = GrantedChannel /\ feed.low # 0 /\ feed.low < access[c]
               /\ TriggerOf(c) = 0
      <4>1. \A id \in feed'.batch : id.triggeredBy = 0
        BY <1>1, <1>3, <1>4, <1>5, <3>5 DEF FeedOK, BatchOK
      <4>2. QED
        BY <1>5, <1>6, <1>11, <2>3, <3>5, <4>1 DEF Pending, LeftOut
    <3>6. QED
      BY <3>2, <3>3, <3>4, <3>5
  <2>4. QED
    BY <2>2, <2>3
<1>13. ASSUME NEW d \in Channels, d # c, NEW s, Pending(d, s) PROVE Pending(d, s)'
  <2>1. InBatch(d, s) => InBatch(d, s)'
    BY <1>5 DEF InBatch
  <2>2. LeftOut(d, s) => LeftOut(d, s)'
    <3>1. CASE d = GrantedChannel
      BY <1>4, <1>5, <1>6, <1>11, <1>13, <3>1 DEF LeftOut
    <3>2. CASE d # GrantedChannel
      BY <1>5, <1>6, <3>2 DEF LeftOut
    <3>3. QED
      BY <3>1, <3>2
  <2>3. QED
    BY <1>5, <1>11, <1>13, <2>1, <2>2 DEF Pending
<1>14. KnownOK'
  <2>1. ASSUME NEW d \in Channels, d # c
        PROVE  /\ ReadNow(d)' = ReadNow(d) /\ (d \in feed'.todo) = (d \in feed.todo)
               /\ ~ (feed'.pc = "late" /\ feed'.at = d) /\ ~ (feed.pc = "late" /\ feed.at = d)
               /\ feed'.pc # "begin" /\ (d \in feed.todo /\ AheadOK(d) => AheadOK(d)')
    BY <1>1, <1>3, <1>5, <1>6, <1>11, <2>1 DEF ReadNow, AheadOK
  <2>2. c \notin feed'.todo /\ feed'.pc # "begin"
        /\ (Continuous => feed'.pc = "late" /\ feed'.at = c)
    BY <1>5
  <2>3. ASSUME NEW d \in Channels, d # c
        PROVE  /\ Continuous /\ Served(d) /\ d \in feed.todo => AheadOK(d)'
               /\ Served(d) /\ ReadNow(d) => \A s \in cache[d] \ Got : Pending(d, s)'
               /\ Continuous /\ ReadNow(d) =>
                     /\ feed.late[d].open /\ feed.late[d].active
                     /\ \A s \in LateOf(d) : AfterLow(s)
    BY <1>3, <1>13, <2>1, <2>3 DEF KnownOK
  <2>4. QED
    BY <1>5, <1>6, <1>11, <1>12, <2>1, <2>2, <2>3 DEF KnownOK
<1>15. ResumeSafe'
  BY <1>1, <1>6, ResumeKept
<1>16. QED
  BY <1>7, <1>8, <1>9, <1>10, <1>14, <1>15

(* The late feed of a channel is opened or read: it listens at the end of  *)
(* the log, and what was late is in the batch.                             *)
LEMMA LateReadStep ==
    ASSUME FeedInv, feed.pc = "late", NEW c, c = feed.at,
           NEW l \in LateRecords, l.open, l.active,
           NEW log, SameEntries(lateLogs[c], log), lateLogs'[c] = log,
           \A d \in Channels : d # c => lateLogs'[d] = lateLogs[d],
           DOMAIN lateLogs' = Channels,
           ListenedTo(log, l.pos), LateSince(log, l.pos) = {},
           NEW new, new \subseteq SequenceIDs(MaxSeq),
           \A id \in new : id.triggeredBy = 0 /\ id.lowSeq = 0 /\ id.seq > 0,
           feed.late[c].open => \A s \in LateOf(c) : SeqID(s) \in new,
           WorldStays, userChanged' = userChanged,
           received' = received, lastId' = lastId, missed' = missed,
           feed' \in FeedRecords, feed'.pc = "reading",
           feed'.late = [feed.late EXCEPT ![c] = l], feed'.batch = feed.batch \cup new,
           feed'.mode = feed.mode, feed'.since = feed.since, feed'.stable = feed.stable,
           feed'.low = feed.low, feed'.requestLow = feed.requestLow,
           feed'.chans = feed.chans, feed'.added = feed.added, feed'.todo = feed.todo,
           feed'.sent = feed.sent
    PROVE  FeedInv'
<1> USE DEF FeedInv
<1>1. /\ Running /\ Reading /\ Continuous /\ c \in Channels /\ c \notin feed.todo
      /\ feed.chans[c] \in 1..feed.stable /\ feed.stable \in Nat
      /\ feed.late \in [Channels -> LateRecords]
  BY DEF Running, Reading, FeedOK, FeedRecords
<1>2. /\ Running' /\ Reading' /\ Continuous' /\ ClientId' = ClientId /\ Got' = Got
  BY <1>1 DEF Running, Reading, Continuous, ClientId, Got
<1>3. /\ feed'.late[c] = l /\ lateLogs'[c] = log
      /\ \A d \in Channels : d # c =>
            feed'.late[d] = feed.late[d] /\ lateLogs'[d] = lateLogs[d]
      /\ DOMAIN lateLogs' = Channels
  BY <1>1 DEF WorldOK
<1>4. \A d \in Channels : LogOK(lateLogs[d]) /\ LogShape(lateLogs[d])
  BY DEF WorldOK, LogOK
<1>5. WorldOK'
  <2>1. LogOK(log)
    BY <1>1, <1>4, SameLate
  <2>2. \A d \in Channels : LogOK(lateLogs'[d])
    BY <1>3, <1>4, <2>1
  <2>3. /\ userChanged' \in BOOLEAN /\ received' \subseteq 1..MaxSeq
        /\ missed' \subseteq 1..MaxSeq /\ IdUpTo(ClientId', next - 1)
    BY <1>2 DEF WorldOK
  <2>4. QED
    BY <1>3, <2>2, <2>3, WorldKept
<1>6. FeedOK'
  <2>1. LatePositionKept'
    <3>1. ASSUME NEW d \in Channels, feed'.late[d].open
          PROVE  ListenedTo(lateLogs'[d], feed'.late[d].pos)
      <4>1. CASE d = c
        BY <1>3, <4>1
      <4>2. CASE d # c
        BY SMTT(30), <1>3, <3>1, <4>2 DEF FeedOK, LatePositionKept, ListenedTo
      <4>3. QED
        BY <4>1, <4>2
    <3>2. QED
      BY <3>1 DEF LatePositionKept, ListenedTo
  <2>2. BatchOK'
    BY <1>1 DEF FeedOK, BatchOK
  <2>3. /\ feed'.stable \in 1..(next' - 1) /\ IdUpTo(feed'.since, feed'.stable)
        /\ (\A d \in Owned : feed'.chans[d] = 1) /\ feed'.chans[GrantedChannel] # 1
        /\ feed'.todo \subseteq Available(feed'.chans)
        /\ (feed'.todo # {} => ~ feed'.sent)
    BY <1>1 DEF FeedOK, WorldStays
  <2>4. feed.chans[c] <= feed.stable
    BY <1>1
  <2>5. \A d \in Channels : feed'.late[d].open =>
            Continuous' /\ feed'.chans[d] <= feed'.stable
    BY <1>1, <1>2, <1>3, <2>4 DEF FeedOK
  <2>6. QED
    BY <1>2, <2>1, <2>2, <2>3, <2>5 DEF FeedOK
<1>7. TriggerOK' /\ SkippedOK' /\ LongpollOK'
  BY <1>1, <1>2 DEF TriggerOK, SkippedOK, LongpollOK, AfterLow, WorldStays
<1>8. /\ \A d : Served(d)' = Served(d) /\ Start(d)' = Start(d) /\ ReadNow(d)' = ReadNow(d)
      /\ \A s : AfterLow(s)' = AfterLow(s)
      /\ cache' = cache /\ access' = access /\ skipped' = skipped
  BY <1>1, <1>2 DEF Served, Start, AfterLow, WorldStays, ReadNow
<1>9. /\ LateOf(c)' = {}
      /\ \A d \in Channels : d # c => LateOf(d)' = LateOf(d)
  BY <1>3 DEF LateOf
<1>10. ASSUME NEW s, Pending(c, s) PROVE Pending(c, s)'
  <2>1. InBatch(c, s) => InBatch(c, s)'
    BY DEF InBatch
  <2>2. ~ LeftOut(c, s)
    BY <1>1 DEF LeftOut
  <2>3. ASSUME feed.late[c].open, s \in LateOf(c) PROVE InBatch(c, s)'
    <3>1. SeqID(s) \in feed'.batch /\ SeqID(s).seq = s
      BY <2>3 DEF SeqID
    <3>2. QED
      BY <3>1 DEF InBatch
  <2>4. QED
    BY <1>10, <2>1, <2>2, <2>3 DEF Pending
<1>11. ASSUME NEW d \in Channels, d # c, NEW s, Pending(d, s) PROVE Pending(d, s)'
  <2>1. InBatch(d, s) => InBatch(d, s)'
    BY DEF InBatch
  <2>2. ~ LeftOut(d, s)
    BY <1>1 DEF LeftOut
  <2>3. QED
    BY <1>3, <1>9, <1>11, <2>1, <2>2 DEF Pending
<1>12. KnownOK'
  <2>1. ASSUME NEW d \in Channels, d # c
        PROVE  /\ Served(d) /\ d \in feed.todo => AheadOK(d)'
               /\ Served(d) /\ ReadNow(d) => \A s \in cache[d] \ Got : Pending(d, s)'
               /\ ReadNow(d) => /\ feed'.late[d].open /\ feed'.late[d].active
                                /\ \A s \in LateOf(d)' : AfterLow(s)
    <3>1. ~ (feed.pc = "late" /\ feed.at = d) /\ feed.pc # "begin"
      BY <2>1
    <3>2. Served(d) /\ d \in feed.todo => AheadOK(d)
      BY <1>1 DEF KnownOK
    <3>3. AheadOK(d) => AheadOK(d)'
      BY <1>2, <1>3, <1>8, <1>9, <2>1, <3>1 DEF AheadOK
    <3>4. Served(d) /\ ReadNow(d) => \A s \in cache[d] \ Got : Pending(d, s)'
      BY <1>11, <2>1 DEF KnownOK
    <3>5. ReadNow(d) => /\ feed.late[d].open /\ feed.late[d].active
                        /\ \A s \in LateOf(d) : AfterLow(s)
      BY <1>1, <3>1 DEF KnownOK
    <3>6. QED
      BY <1>3, <1>9, <2>1, <3>2, <3>3, <3>4, <3>5
  <2>2. c \notin feed'.todo /\ feed'.pc # "begin"
    BY <1>1
  <2>3. Served(c) /\ ReadNow(c) => \A s \in cache[c] \ Got : Pending(c, s)'
    BY <1>1, <1>10 DEF KnownOK
  <2>4. feed'.late[c].open /\ feed'.late[c].active /\ \A s \in LateOf(c)' : AfterLow(s)
    BY <1>3, <1>9
  <2>5. QED
    BY <1>2, <1>8, <2>1, <2>2, <2>3, <2>4 DEF KnownOK
<1>13. ResumeSafe'
  BY <1>2, ResumeKept
<1>14. QED
  BY <1>5, <1>6, <1>7, <1>12, <1>13

(* What is late since a position in use is a sequence.                     *)
LEMMA LateNumbers ==
    ASSUME NEW log, LogShape(log), NEW p, ListenedTo(log, p), NEW s \in LateSince(log, p)
    PROVE  s \in 0..MaxSeq /\ s > 0
<1>1. PICK i \in 1..Len(log) : log[i].seq = p
  BY DEF ListenedTo
<1>2. LateSince(log, p) = After(log, i)
  BY <1>1, LateFacts
<1>3. PICK j \in (i + 1)..Len(log) : s = log[j].seq
  BY <1>2 DEF After
<1>4. j \in 2..Len(log) /\ j \in 1..Len(log)
  BY <1>3 DEF LogShape
<1>5. log[j] \in LogEntries /\ log[j].seq > 0
  BY <1>4 DEF LogShape
<1>6. QED
  BY <1>3, <1>5 DEF LogEntries

(* A late feed that is open is read: it moves to the end of the log.       *)
LEMMA GetLateFeedStep == ASSUME FeedInv, GetLateFeed PROVE FeedInv'
<1> USE DEF FeedInv
<1> DEFINE c == feed.at
           log == lateLogs[c]
           pos == feed.late[c].pos
           end == Last(log).seq
           stay == [feed.late[c] EXCEPT !.active = TRUE]
           move == [feed.late[c] EXCEPT !.active = TRUE, !.pos = end]
<1>1. /\ WorldStays /\ userChanged' = userChanged
      /\ received' = received /\ lastId' = lastId /\ missed' = missed
      /\ feed.pc = "late" /\ feed.late[c].open
  BY DEF GetLateFeed, WorldStays, client
<1>2. /\ feed \in FeedRecords /\ c \in Channels /\ feed.late[c] \in LateRecords
      /\ LogShape(log) /\ ListenedTo(log, pos) /\ DOMAIN lateLogs = Channels
  BY <1>1 DEF FeedOK, FeedRecords, WorldOK, LogOK, LatePositionKept, ListenedTo
<1>3. /\ Last(log) = log[Len(log)] /\ end \in 0..MaxSeq /\ LateSince(log, end) = {}
  BY <1>2, LastFacts
<1>4. pos \in 0..MaxSeq
  BY <1>2 DEF LateRecords
<1>5. ASSUME NEW r \in LateRecords, r.open
      PROVE  /\ [r EXCEPT !.active = TRUE] \in LateRecords
             /\ [r EXCEPT !.active = TRUE].open /\ [r EXCEPT !.active = TRUE].active
             /\ [r EXCEPT !.active = TRUE].pos = r.pos
  BY <1>5 DEF LateRecords
<1>6. ASSUME NEW r \in LateRecords, r.open, NEW p \in 0..MaxSeq
      PROVE  /\ [r EXCEPT !.active = TRUE, !.pos = p] \in LateRecords
             /\ [r EXCEPT !.active = TRUE, !.pos = p].open
             /\ [r EXCEPT !.active = TRUE, !.pos = p].active
             /\ [r EXCEPT !.active = TRUE, !.pos = p].pos = p
  BY <1>6 DEF LateRecords
<1>7. /\ stay \in LateRecords /\ stay.open /\ stay.active /\ stay.pos = pos
      /\ move \in LateRecords /\ move.open /\ move.active /\ move.pos = end
  BY <1>1, <1>2, <1>3, <1>5, <1>6
<1>8. CASE /\ pos = end
           /\ feed' = [feed EXCEPT !.pc = "reading", !.at = None, !.late[c].active = TRUE]
           /\ lateLogs' = lateLogs
  <2>1. feed' = [feed EXCEPT !.pc = "reading", !.at = None,
                             !.late = [feed.late EXCEPT ![c] = stay]]
    BY <1>2, <1>8 DEF FeedRecords
  <2>3. /\ feed' \in FeedRecords /\ feed'.pc = "reading"
        /\ feed'.late = [feed.late EXCEPT ![c] = stay]
        /\ feed'.batch = feed.batch
        /\ feed'.mode = feed.mode /\ feed'.since = feed.since
        /\ feed'.stable = feed.stable /\ feed'.low = feed.low
        /\ feed'.requestLow = feed.requestLow /\ feed'.chans = feed.chans
        /\ feed'.added = feed.added /\ feed'.todo = feed.todo /\ feed'.sent = feed.sent
    <3> HIDE DEF stay, move
    <3>1. QED
      BY <1>2, <1>7, <2>1, ZenonT(30) DEF FeedRecords
  <2>4. feed'.batch = feed.batch \cup {}
    BY <2>3
  <2>5. stay.open /\ stay.active /\ stay.pos = pos
    BY <1>7
  <2>6. /\ SameEntries(log, log) /\ lateLogs'[c] = log /\ DOMAIN lateLogs' = Channels
        /\ \A d \in Channels : d # c => lateLogs'[d] = lateLogs[d]
    BY <1>2, <1>8 DEF SameEntries, LogShape
  <2>7. \A s \in LateOf(c) : SeqID(s) \in {}
    BY <1>3, <1>8 DEF LateOf
  <2>8. ListenedTo(log, stay.pos) /\ LateSince(log, stay.pos) = {}
    BY <1>2, <1>3, <1>8, <2>5
  <2>9. /\ stay \in LateRecords /\ {} \subseteq SequenceIDs(MaxSeq)
        /\ \A id \in {} : id.triggeredBy = 0 /\ id.lowSeq = 0 /\ id.seq > 0
    BY <1>7
  <2> HIDE DEF stay, move, log, pos, end
  <2>10. QED
    BY <1>1, <2>3, <2>4, <2>5, <2>6, <2>7, <2>8, <2>9, LateReadStep DEF log
<1>9. CASE /\ pos # end
           /\ feed' = [feed EXCEPT !.pc = "reading", !.at = None,
                                   !.late[c].active = TRUE, !.late[c].pos = end,
                                   !.batch = @ \cup {SeqID(s) : s \in LateSince(log, pos)}]
           /\ lateLogs' = [lateLogs EXCEPT ![c] = AddListener(RemoveListener(@, pos))]
  <2> DEFINE new == {SeqID(s) : s \in LateSince(log, pos)}
             cut == RemoveListener(log, pos)
             nlog == AddListener(cut)
  <2>2. feed' = [feed EXCEPT !.pc = "reading", !.at = None,
                             !.late = [feed.late EXCEPT ![c] = move],
                             !.batch = @ \cup new]
    <3>1. feed' = [feed EXCEPT !.pc = "reading", !.at = None,
                               !.late = [feed.late EXCEPT ![c].active = TRUE, ![c].pos = end],
                               !.batch = @ \cup new]
      BY ZenonT(30), <1>2, <1>9 DEF FeedRecords
    <3>2. ASSUME NEW f \in [Channels -> LateRecords], NEW d \in Channels,
                 NEW p \in 0..MaxSeq
          PROVE  [f EXCEPT ![d].active = TRUE, ![d].pos = p] =
                     [f EXCEPT ![d] = [f[d] EXCEPT !.active = TRUE, !.pos = p]]
      OBVIOUS
    <3>3. feed.late \in [Channels -> LateRecords]
      BY <1>2, SMTT(30) DEF FeedRecords
    <3>4. [feed.late EXCEPT ![c].active = TRUE, ![c].pos = end] =
              [feed.late EXCEPT ![c] = move]
      BY ZenonT(30), <1>2, <1>3, <3>2, <3>3
    <3>5. QED
      BY <3>1, <3>4
  <2>1. /\ new \subseteq SequenceIDs(MaxSeq)
        /\ \A id \in new : id.triggeredBy = 0 /\ id.lowSeq = 0 /\ id.seq > 0
    <3>1. ASSUME NEW s \in LateSince(log, pos)
          PROVE  /\ SeqID(s) \in SequenceIDs(MaxSeq) /\ SeqID(s).triggeredBy = 0
                 /\ SeqID(s).lowSeq = 0 /\ SeqID(s).seq > 0
      <4>1. s \in 0..MaxSeq /\ s > 0 /\ 0 \in 0..MaxSeq
        BY <1>2, LateNumbers, ChangesFeedAssumption
      <4>2. QED
        BY <4>1 DEF SeqID, SequenceIDs
    <3>2. QED
      BY <3>1
  <2>4. \A s \in LateOf(c) : SeqID(s) \in new
    BY DEF LateOf
  <2> HIDE DEF new
  <2>5. /\ feed' \in FeedRecords /\ feed'.pc = "reading"
        /\ feed'.late = [feed.late EXCEPT ![c] = move]
        /\ feed'.batch = feed.batch \cup new
        /\ feed'.mode = feed.mode /\ feed'.since = feed.since
        /\ feed'.stable = feed.stable /\ feed'.low = feed.low
        /\ feed'.requestLow = feed.requestLow /\ feed'.chans = feed.chans
        /\ feed'.added = feed.added /\ feed'.todo = feed.todo /\ feed'.sent = feed.sent
    <3> HIDE DEF stay, move
    <3>1. QED
      BY <1>2, <1>7, <2>1, <2>2, ZenonT(30) DEF FeedRecords
  <2>6. move.open /\ move.active /\ move.pos = end /\ move \in LateRecords
    BY <1>7
  <2>7. SameEntries(log, cut) /\ LogShape(cut)
    BY <1>2, RemoveListenerFacts, SameLate
  <2>8. SameEntries(cut, nlog) /\ ListenedTo(nlog, Last(cut).seq)
    BY <2>7, AddListenerFacts
  <2>9. SameEntries(log, nlog)
    BY ZenonT(30), <2>7, <2>8 DEF SameEntries
  <2>10. LogShape(nlog)
    BY <1>2, <2>9, SameLate
  <2>11. Last(cut).seq = end /\ Last(nlog).seq = end
    <3>1. Last(cut) = cut[Len(cut)] /\ Last(nlog) = nlog[Len(nlog)]
      BY <2>7, <2>10, LastFacts
    <3>2. Len(log) \in 1..Len(log)
      BY <1>2, LastFacts
    <3> HIDE DEF cut, nlog
    <3>3. QED
      BY <1>3, <2>7, <2>9, <3>1, <3>2 DEF SameEntries
  <2>12. LateSince(nlog, Last(nlog).seq) = {}
    BY <2>10, LastFacts
  <2>13. ListenedTo(nlog, move.pos) /\ LateSince(nlog, move.pos) = {}
    BY <2>6, <2>8, <2>11, <2>12
  <2>14. /\ lateLogs'[c] = nlog /\ DOMAIN lateLogs' = Channels
         /\ \A d \in Channels : d # c => lateLogs'[d] = lateLogs[d]
    BY <1>2, <1>9
  <2> HIDE DEF stay, move, log, nlog, pos, end
  <2>15. QED
    BY <1>1, <2>1, <2>4, <2>5, <2>6, <2>9, <2>13, <2>14, LateReadStep DEF log
<1>10. QED
  BY <1>8, <1>9 DEF GetLateFeed

(* A late feed is opened at the end of the log.                            *)
LEMMA NewLateSequenceFeedStep == ASSUME FeedInv, NewLateSequenceFeed PROVE FeedInv'
<1> USE DEF FeedInv
<1> DEFINE c == feed.at
           log == lateLogs[c]
           end == Last(log).seq
           l == [pos |-> end, active |-> TRUE, open |-> TRUE]
           new == AddListener(log)
<1>1. /\ WorldStays /\ userChanged' = userChanged
      /\ received' = received /\ lastId' = lastId /\ missed' = missed
      /\ feed.pc = "late" /\ ~ feed.late[c].open
      /\ feed' = [feed EXCEPT !.pc = "reading", !.at = None, !.late[c] = l]
      /\ lateLogs' = [lateLogs EXCEPT ![c] = new]
  BY DEF NewLateSequenceFeed, WorldStays, client
<1>2. /\ feed \in FeedRecords /\ c \in Channels /\ LogShape(log)
      /\ DOMAIN lateLogs = Channels
  BY <1>1 DEF FeedOK, WorldOK, LogOK
<1>3. end \in 0..MaxSeq /\ LateSince(log, end) = {} /\ Len(log) \in 1..Len(log)
      /\ Last(log) = log[Len(log)]
  BY <1>2, LastFacts
<1>4. l \in LateRecords /\ l.open /\ l.active /\ l.pos = end
  BY <1>3 DEF LateRecords
<1>5. SameEntries(log, new) /\ ListenedTo(new, end)
  BY <1>2, AddListenerFacts
<1>6. LateSince(new, end) = {}
  <2>1. LogShape(new)
    BY <1>2, <1>5, SameLate
  <2>2. Last(new) = new[Len(new)] /\ LateSince(new, Last(new).seq) = {}
    BY <2>1, LastFacts
  <2>3. Last(new).seq = end
    <3> HIDE DEF new
    <3>1. QED
      BY <1>3, <1>5, <2>2 DEF SameEntries
  <2>4. QED
    BY <2>2, <2>3
<1> HIDE DEF l, end
<1>7. /\ feed' \in FeedRecords /\ feed'.pc = "reading"
      /\ feed'.late = [feed.late EXCEPT ![c] = l]
      /\ feed'.batch = feed.batch \cup {}
      /\ feed'.mode = feed.mode /\ feed'.since = feed.since
      /\ feed'.stable = feed.stable /\ feed'.low = feed.low
      /\ feed'.requestLow = feed.requestLow /\ feed'.chans = feed.chans
      /\ feed'.added = feed.added /\ feed'.todo = feed.todo /\ feed'.sent = feed.sent
  BY <1>1, <1>2, <1>4, ZenonT(30) DEF FeedRecords
<1>8. ListenedTo(new, l.pos) /\ LateSince(new, l.pos) = {}
  BY <1>4, <1>5, <1>6
<1>9. /\ {} \subseteq SequenceIDs(MaxSeq)
      /\ \A id \in {} : id.triggeredBy = 0 /\ id.lowSeq = 0 /\ id.seq > 0
  OBVIOUS
<1>10. /\ lateLogs'[c] = new /\ DOMAIN lateLogs' = Channels
       /\ \A d \in Channels : d # c => lateLogs'[d] = lateLogs[d]
  BY <1>1, <1>2
<1> HIDE DEF log, new
<1>11. QED
  BY <1>1, <1>4, <1>5, <1>7, <1>8, <1>9, <1>10, LateReadStep DEF log

-----------------------------------------------------------------------------
(* Sending.                                                                *)

(* An entry of a batch, when the one backfill there may be is triggered    *)
(* by g, and its place in the order of identifiers.                        *)
BatchId(id, g) ==
    /\ id \in SequenceIDs(MaxSeq) /\ id.lowSeq = 0 /\ id.seq > 0
    /\ id.triggeredBy \in {0, g} /\ (id.triggeredBy # 0 => id.seq < id.triggeredBy)
Rank(id, g) == IF id.triggeredBy = 0 /\ id.seq < g THEN id.seq ELSE g + id.seq

(* The order of identifiers is that of the ranks.                          *)
LEMMA RankFacts ==
    ASSUME NEW g \in Nat, NEW a, BatchId(a, g), NEW b, BatchId(b, g)
    PROVE  /\ Rank(a, g) \in Nat
           /\ Rank(a, g) = Rank(b, g) => a = b
           /\ Rank(a, g) < Rank(b, g) => Before(a, b)
<1>1. /\ a.seq \in Nat /\ a.triggeredBy \in Nat /\ b.seq \in Nat /\ b.triggeredBy \in Nat
      /\ a.lowSeq = 0 /\ b.lowSeq = 0
      /\ a.triggeredBy \in {0, g} /\ b.triggeredBy \in {0, g}
      /\ (a.triggeredBy # 0 => a.seq < g) /\ (b.triggeredBy # 0 => b.seq < g)
  BY ChangesFeedAssumption DEF BatchId, SequenceIDs
<1>2. SafeSequence(a) = a.seq /\ SafeSequence(b) = b.seq
  BY <1>1 DEF SafeSequence
<1>3. ASSUME Rank(a, g) = Rank(b, g) PROVE a = b
  <2>1. a.seq = b.seq /\ a.triggeredBy = b.triggeredBy
    BY <1>1, <1>3 DEF Rank
  <2>2. /\ a = [triggeredBy |-> a.triggeredBy, lowSeq |-> a.lowSeq, seq |-> a.seq]
        /\ b = [triggeredBy |-> b.triggeredBy, lowSeq |-> b.lowSeq, seq |-> b.seq]
    BY DEF BatchId, SequenceIDs
  <2>3. QED
    BY <1>1, <2>1, <2>2
<1>4. Rank(a, g) < Rank(b, g) => Before(a, b)
  BY <1>1, <1>2 DEF Rank, Before
<1>5. QED
  BY <1>1, <1>3, <1>4 DEF Rank

(* A batch has an entry before all others.                                 *)
LEMMA LeastEntry ==
    ASSUME NEW g \in Nat, NEW B, B # {}, \A id \in B : BatchId(id, g)
    PROVE  \E id \in B : \A other \in B \ {id} : Before(id, other)
<1> DEFINE ranks == {Rank(id, g) : id \in B}
<1>1. ranks \subseteq Nat /\ ranks # {}
  BY RankFacts
<1>2. Min(ranks) \in ranks /\ \A y \in ranks : Min(ranks) <= y
  <2> HIDE DEF ranks
  <2>1. QED
    BY <1>1, LeastFacts
<1>3. PICK id \in B : Rank(id, g) = Min(ranks)
  BY <1>2
<1>4. ASSUME NEW other \in B \ {id} PROVE Before(id, other)
  <2>1. Rank(id, g) <= Rank(other, g)
    BY <1>2, <1>3
  <2>2. Rank(id, g) # Rank(other, g) /\ Rank(id, g) \in Nat /\ Rank(other, g) \in Nat
    BY RankFacts
  <2>3. Rank(id, g) < Rank(other, g)
    BY <2>1, <2>2
  <2>4. QED
    BY <2>3, RankFacts
<1>5. QED
  BY <1>4

(* The entry a feed sends next is in its batch and before all others.      *)
LEMMA LeastSent ==
    ASSUME FeedOK, Running, feed.batch # {}, NEW min,
           min = CHOOSE id \in feed.batch :
                     \A other \in feed.batch \ {id} : Before(id, other)
    PROVE  /\ min \in feed.batch
           /\ \A other \in feed.batch \ {min} : Before(min, other)
           /\ \A id \in feed.batch : BatchId(id, feed.chans[GrantedChannel])
<1>1. feed.chans[GrantedChannel] \in Nat
  BY ChangesFeedAssumption, ChannelFacts DEF FeedOK, FeedRecords
<1>2. \A id \in feed.batch : BatchId(id, feed.chans[GrantedChannel])
  BY DEF FeedOK, FeedRecords, BatchOK, BatchId
<1>3. \E id \in feed.batch : \A other \in feed.batch \ {id} : Before(id, other)
  BY <1>1, <1>2, LeastEntry
<1>4. QED
  BY <1>2, <1>3

(* Where the feed stands in an iteration that has read every channel, but  *)
(* for the batch and where it reads from next.                             *)
SameReading ==
    /\ feed' \in FeedRecords /\ feed'.pc = feed.pc /\ feed'.mode = feed.mode
    /\ feed'.stable = feed.stable /\ feed'.low = feed.low /\ feed'.chans = feed.chans
    /\ feed'.todo = feed.todo /\ feed'.late = feed.late
    /\ feed'.batch \subseteq feed.batch
    /\ WorldStays /\ lateLogs' = lateLogs /\ userChanged' = userChanged

(* An entry leaves the batch that the client gets, or that is after the    *)
(* stable sequence.                                                        *)
LEMMA BatchShrinks ==
    ASSUME FeedInv, feed.pc = "reading", feed.todo = {}, SameReading, Got \subseteq Got',
           \A id \in feed.batch : id \in feed'.batch \/ id.seq \in Got' \/ id.seq > feed.stable
    PROVE  KnownOK' /\ SkippedOK'
<1> USE DEF FeedInv
<1>1. /\ Running /\ Running' /\ Reading' = Reading /\ Continuous' = Continuous
      /\ feed'.pc = "reading" /\ feed'.todo = {}
      /\ cache' = cache /\ access' = access /\ skipped' = skipped
      /\ feed'.late = feed.late /\ feed'.stable = feed.stable /\ feed'.low = feed.low
      /\ feed'.batch \subseteq feed.batch
  BY DEF SameReading, WorldStays, Running, Reading, Continuous
<1>2. /\ \A s : AfterLow(s)' = AfterLow(s)
      /\ \A c : ReadNow(c)' = ReadNow(c) /\ Served(c)' = Served(c) /\ LateOf(c)' = LateOf(c)
  BY DEF SameReading, WorldStays, AfterLow, ReadNow, Reading, Served, LateOf
<1>3. ASSUME NEW c \in Channels, NEW s, Pending(c, s), s \notin Got' PROVE Pending(c, s)'
  <2>1. InBatch(c, s) => InBatch(c, s)' \/ s > feed.stable
    <3>1. CASE c = GrantedChannel
      BY <1>3, <3>1 DEF InBatch
    <3>2. CASE c # GrantedChannel
      <4>1. SeqID(s).seq = s
        BY DEF SeqID
      <4>2. QED
        BY <1>3, <3>2, <4>1 DEF InBatch
    <3>3. QED
      BY <3>1, <3>2
  <2>2. LeftOut(c, s) => LeftOut(c, s)'
    BY <1>1 DEF LeftOut
  <2>3. QED
    BY <1>1, <1>2, <1>3, <2>1, <2>2 DEF Pending
<1>4. KnownOK'
  <2>1. ASSUME NEW c \in Channels, Served(c), ReadNow(c), NEW s \in cache[c] \ Got'
        PROVE  Pending(c, s)'
    BY <1>3, <2>1 DEF KnownOK
  <2>2. ASSUME NEW c \in Channels, Continuous, ReadNow(c)
        PROVE  /\ feed.late[c].open /\ feed.late[c].active
               /\ \A s \in LateOf(c) : AfterLow(s)
    BY <2>2 DEF KnownOK
  <2>3. QED
    BY <1>1, <1>2, <2>1, <2>2 DEF KnownOK
<1>5. SkippedOK'
  BY <1>1, <1>2 DEF SkippedOK
<1>6. QED
  BY <1>4, <1>5

(* An entry after the stable sequence is not sent.                         *)
LEMMA SkipEntryStep ==
    ASSUME FeedInv, feed.pc = "reading", feed.todo = {}, NEW min, feed.stable < min.seq,
           feed' = [feed EXCEPT !.batch = @ \ {min}],
           WorldStays, lateLogs' = lateLogs, userChanged' = userChanged,
           received' = received, lastId' = lastId, missed' = missed
    PROVE  FeedInv'
<1> USE DEF FeedInv
<1>1. /\ feed' \in FeedRecords /\ feed'.pc = feed.pc /\ feed'.mode = feed.mode
      /\ feed'.stable = feed.stable /\ feed'.low = feed.low /\ feed'.chans = feed.chans
      /\ feed'.todo = feed.todo /\ feed'.late = feed.late
      /\ feed'.batch = feed.batch \ {min} /\ feed'.since = feed.since
      /\ feed'.requestLow = feed.requestLow /\ feed'.sent = feed.sent
  BY DEF FeedOK, FeedRecords
<1>2. SameReading
  BY <1>1 DEF SameReading
<1>3. /\ ClientId' = ClientId /\ Got' = Got /\ Running' /\ Running /\ Reading' = Reading
      /\ Continuous' = Continuous
  BY <1>1 DEF ClientId, Got, Running, Reading, Continuous
<1>4. WorldOK'
  <2>1. userChanged' \in BOOLEAN /\ missed' \subseteq 1..MaxSeq
    BY DEF WorldOK
  <2>2. QED
    BY <2>1, WorldKeptAll
<1>5. FeedOK'
  <2>1. LatePositionKept'
    BY <1>1 DEF FeedOK, LatePositionKept
  <2>2. BatchOK'
    BY <1>1, <1>3 DEF FeedOK, BatchOK
  <2>3. QED
    BY <1>1, <1>3, <2>1, <2>2 DEF FeedOK, WorldStays
<1>6. TriggerOK' /\ LongpollOK'
  BY <1>1, <1>3 DEF TriggerOK, LongpollOK, WorldStays
<1>7. KnownOK' /\ SkippedOK'
  <2>1. \A id \in feed.batch : id \in feed'.batch \/ id.seq \in Got' \/ id.seq > feed.stable
    BY <1>1
  <2>2. QED
    BY <1>2, <1>3, <2>1, BatchShrinks
<1>8. ResumeSafe'
  BY <1>3, ResumeKept
<1>9. QED
  BY <1>4, <1>5, <1>6, <1>7, <1>8

(* The identifier of an entry as it is sent, with the low sequence.        *)
WithLow(id, low) == [id EXCEPT !.lowSeq = low]

(* What the client gets of an identifier: the low sequence only if it is   *)
(* below the sequence.                                                     *)
LEMMA SentFacts ==
    ASSUME NEW g \in Nat, NEW m, BatchId(m, g), NEW low \in 0..MaxSeq,
           NEW top \in Nat, m.seq <= top, m.triggeredBy <= top,
           NEW p, p = ParseIntegerSequenceID(IntSeqToString(WithLow(m, low)))
    PROVE  /\ IdUpTo(p, top) /\ p.triggeredBy = m.triggeredBy
           /\ SafeSequence(p) \in Nat /\ SafeSequence(p) <= m.seq
           /\ low # 0 => SafeSequence(p) <= low
           /\ SafeSequence(WithLow(m, low)) \in Nat
           /\ SafeSequence(p) <= SafeSequence(WithLow(m, low))
           /\ WithLow(m, low).triggeredBy = m.triggeredBy /\ WithLow(m, low).seq = m.seq
<1> DEFINE w == WithLow(m, low)
<1>1. /\ m \in SequenceIDs(MaxSeq) /\ m.seq \in Nat /\ m.triggeredBy \in Nat /\ low \in Nat
      /\ m.seq \in 0..MaxSeq /\ m.triggeredBy \in 0..MaxSeq /\ 0 \in 0..MaxSeq /\ m.seq > 0
      /\ (m.triggeredBy # 0 => m.seq < m.triggeredBy)
  BY ChangesFeedAssumption DEF BatchId, SequenceIDs
<1>2. w = [triggeredBy |-> m.triggeredBy, lowSeq |-> low, seq |-> m.seq]
  <2>1. ASSUME NEW id \in SequenceIDs(MaxSeq)
        PROVE  [id EXCEPT !.lowSeq = low] =
                   [triggeredBy |-> id.triggeredBy, lowSeq |-> low, seq |-> id.seq]
    BY DEF SequenceIDs
  <2>2. QED
    BY <1>1, <2>1 DEF WithLow
<1> HIDE DEF w
<1>3. w \in SequenceIDs(MaxSeq) /\ w.triggeredBy = m.triggeredBy /\ w.seq = m.seq
      /\ w.lowSeq = low
  BY <1>1, <1>2 DEF SequenceIDs
<1>4. p = [triggeredBy |-> w.triggeredBy,
           lowSeq |-> IF w.lowSeq > 0 /\ w.lowSeq < w.seq THEN w.lowSeq ELSE 0,
           seq |-> w.seq]
  BY <1>3, TextParsed DEF w
<1> DEFINE pl == IF low > 0 /\ low < m.seq THEN low ELSE 0
<1>5. p.triggeredBy = m.triggeredBy /\ p.seq = m.seq /\ p.lowSeq = pl
  BY <1>3, <1>4
<1>6. pl \in 0..MaxSeq /\ (pl # 0 => pl < m.seq /\ pl = low) /\ (pl = 0 /\ low # 0 => m.seq <= low)
  BY <1>1
<1>7. p \in SequenceIDs(MaxSeq)
  BY <1>1, <1>3, <1>4, <1>6 DEF SequenceIDs
<1> HIDE DEF pl
<1>8. IdUpTo(p, top)
  <2>1. m.triggeredBy # 0 => m.triggeredBy > 1
    BY <1>1
  <2>2. QED
    BY <1>1, <1>5, <1>6, <1>7, <2>1 DEF IdUpTo
<1>9. SafeSequence(p) = (IF pl = 0 THEN m.seq ELSE low)
  BY <1>1, <1>5, <1>6 DEF SafeSequence
<1>10. SafeSequence(w) = (IF low > 0 THEN low ELSE m.seq)
  BY <1>3 DEF SafeSequence
<1>11. /\ SafeSequence(p) \in Nat /\ SafeSequence(p) <= m.seq
       /\ (low # 0 => SafeSequence(p) <= low)
       /\ SafeSequence(w) \in Nat /\ SafeSequence(p) <= SafeSequence(w)
  BY <1>1, <1>6, <1>9, <1>10
<1>12. QED
  BY <1>3, <1>5, <1>8, <1>11 DEF w

(* What the client has not got when an entry is sent is ahead of the       *)
(* entry's identifier: it is not yet sent in this iteration, comes after   *)
(* the stable or the low sequence, or is counted as missed.                *)
LEMMA SentSafe ==
    ASSUME FeedInv, feed.pc = "reading", feed.todo = {}, NEW min \in feed.batch,
           \A other \in feed.batch \ {min} : Before(min, other),
           \A id \in feed.batch : BatchId(id, feed.chans[GrantedChannel]),
           min.seq <= feed.stable, WorldStays,
           received' = received \cup {min.seq},
           lastId' = IntSeqToString(WithLow(min, feed.low)),
           missed' = missed \cup UnseenGrant(WithLow(min, feed.low))
                            \cup CutOffByBackfill(WithLow(min, feed.low))
    PROVE  ResumeSafe' /\ IdUpTo(ClientId', feed.stable) /\ missed' \subseteq 1..MaxSeq
           /\ ClientId'.triggeredBy = min.triggeredBy /\ Got \subseteq Got'
<1> USE DEF FeedInv
<1> DEFINE g == feed.chans[GrantedChannel]
           p == ClientId'
           w == WithLow(min, feed.low)
           t == min.triggeredBy
           q == min.seq
           L == feed.low
<1>1. /\ g \in Nat /\ g \in 0..MaxSeq /\ L \in 0..MaxSeq /\ L \in Nat /\ MaxSeq \in Nat
      /\ feed.stable \in Nat /\ feed.stable <= MaxSeq
  BY ChannelFacts, ChangesFeedAssumption DEF FeedOK, FeedRecords
<1>2. Running /\ Reading
  BY DEF Running, Reading
<1>3. /\ BatchId(min, g) /\ t \in {0, g} /\ q > 0 /\ t \in Nat /\ q \in Nat /\ q <= MaxSeq
      /\ t <= feed.stable /\ (t # 0 => q < t)
  <2>1. BatchId(min, g)
    OBVIOUS
  <2>2. t \in Nat /\ q \in Nat /\ q <= MaxSeq /\ t \in {0, g} /\ q > 0 /\ (t # 0 => q < t)
    BY <1>1, <2>1 DEF BatchId, SequenceIDs
  <2>3. t <= feed.stable
    BY <1>1, <1>2, <2>2 DEF FeedOK, BatchOK
  <2>4. QED
    BY <2>1, <2>2, <2>3
<1>4. p = ParseIntegerSequenceID(IntSeqToString(w))
  BY DEF ClientId
<1>5. /\ IdUpTo(p, feed.stable) /\ p.triggeredBy = t
      /\ SafeSequence(p) \in Nat /\ SafeSequence(p) <= q
      /\ L # 0 => SafeSequence(p) <= L
      /\ SafeSequence(w) \in Nat /\ SafeSequence(p) <= SafeSequence(w)
      /\ w.triggeredBy = t /\ w.seq = q
  <2> HIDE DEF p
  <2>1. QED
    BY <1>1, <1>3, <1>4, SentFacts
<1> HIDE DEF p, w
<1>6. /\ Got \subseteq Got' /\ q \in Got' /\ UnseenGrant(w) \subseteq Got'
      /\ CutOffByBackfill(w) \subseteq Got'
  BY DEF Got, w
<1>7. missed' \subseteq 1..MaxSeq
  <2>1. UnseenGrant(w) \subseteq 1..MaxSeq
    BY <1>1, <1>3, <1>5 DEF UnseenGrant
  <2>2. CutOffByBackfill(w) \subseteq 1..MaxSeq
    BY <1>1, <1>3, <1>5 DEF CutOffByBackfill
  <2>3. QED
    BY <2>1, <2>2 DEF WorldOK, w
<1>8. ASSUME NEW c \in Channels, access[c] # 0
      PROVE  /\ access[c] \in Nat /\ (c # GrantedChannel => access[c] = 1 /\ feed.chans[c] = 1)
             /\ c = GrantedChannel => access[c] > 1 /\ g \in {0, access[c]}
             /\ access[c] # 1 => t \in {0, access[c]}
             /\ From(p, access[c]) \in 0..feed.stable
  <2>1. access[c] \in Nat
    BY <1>1 DEF WorldOK
  <2>2. c # GrantedChannel => access[c] = 1 /\ feed.chans[c] = 1
    BY <1>2, ChannelFacts DEF WorldOK, FeedOK
  <2>3. c = GrantedChannel => access[c] # 1 /\ g \in {0, access[c]}
    BY <1>2, <1>8 DEF TriggerOK, WorldOK
  <2>4. c = GrantedChannel => access[c] > 1
    BY <1>8, <2>1, <2>3
  <2>5. access[c] # 1 => t \in {0, access[c]}
    BY <1>3, <2>2, <2>3
  <2>6. From(p, access[c]) \in 0..feed.stable
    <3>1. access[c] > 0
      BY <1>8, <2>1
    <3>2. QED
      BY <1>1, <1>5, <2>1, <2>5, <3>1, SinceBounded
  <2>7. QED
    BY <2>1, <2>2, <2>3, <2>4, <2>5, <2>6
<1>9. From(p, 1) = IF t # 0 THEN t ELSE SafeSequence(p)
  BY <1>1, <1>5, OwnedSince
<1>10. ASSUME access[GrantedChannel] # 0
       PROVE  From(p, access[GrantedChannel]) =
                  IF t = 0 /\ SafeSequence(p) < access[GrantedChannel] THEN 0
                  ELSE SafeSequence(p)
  <2>1. GrantedChannel \in Channels
    BY ChannelFacts
  <2>2. /\ access[GrantedChannel] \in Nat /\ access[GrantedChannel] > 1
        /\ t \in {0, access[GrantedChannel]}
    BY <1>8, <1>10, <2>1
  <2>3. QED
    BY <1>1, <1>5, <2>2, GrantedSince
<1>11. ASSUME NEW c \in Channels, access[c] # 0, NEW s \in Nat, s > 0, s \notin Got',
              AfterLow(s)
       PROVE  s > From(p, access[c])
  <2>1. CASE s > feed.stable
    BY <1>1, <1>8, <1>11, <2>1
  <2>2. CASE L # 0 /\ s > L
    <3>1. s > SafeSequence(p)
      BY <1>1, <1>5, <1>11, <2>2
    <3>2. CASE c # GrantedChannel /\ t = 0
      BY <1>8, <1>9, <1>11, <3>1, <3>2
    <3>3. CASE c # GrantedChannel /\ t # 0
      <4>1. s \notin (L + 1)..t
        BY <1>5, <1>6, <1>11, <2>2, <3>3 DEF CutOffByBackfill
      <4>2. s > t
        BY <1>1, <1>3, <1>11, <2>2, <4>1
      <4>3. QED
        BY <1>8, <1>9, <1>11, <3>3, <4>2
    <3>4. CASE c = GrantedChannel
      BY <1>10, <1>11, <3>1, <3>4
    <3>5. QED
      BY <3>2, <3>3, <3>4
  <2>3. QED
    BY <1>11, <2>1, <2>2 DEF AfterLow
<1>12. ASSUME NEW c \in Channels, access[c] # 0, Served(c), ReadNow(c),
              NEW s \in cache[c] \ Got'
       PROVE  s > From(p, access[c])
  <2>1. s \in Nat /\ s > 0 /\ s # q
    BY <1>6, WorldFacts
  <2>2. Pending(c, s)
    BY <1>6, <1>12 DEF KnownOK
  <2>3. CASE InBatch(c, s)
    <3>1. ASSUME c # GrantedChannel PROVE s > From(p, access[c])
      <4>1. SeqID(s) \in feed.batch /\ SeqID(s).seq = s /\ SeqID(s).triggeredBy = 0
            /\ SafeSequence(SeqID(s)) = s
        BY <2>3, <3>1 DEF InBatch, SeqID, SafeSequence
      <4>2. Before(min, SeqID(s))
        BY <2>1, <4>1
      <4>3. SafeSequence(min) = q
        BY <1>3 DEF BatchId, SafeSequence
      <4>4. CASE t = 0
        <5>1. q < s
          BY <4>1, <4>2, <4>3, <4>4 DEF Before
        <5>2. QED
          BY <1>3, <1>5, <1>8, <1>9, <1>12, <2>1, <3>1, <4>4, <5>1
      <4>5. CASE t # 0
        <5>1. t <= s
          BY <1>3, <2>1, <4>1, <4>2, <4>3, <4>5 DEF Before
        <5>2. t \in Got'
          BY <1>5, <1>6, <4>5 DEF CutOffByBackfill
        <5>3. s > t
          BY <1>3, <1>12, <2>1, <5>1, <5>2
        <5>4. QED
          BY <1>8, <1>9, <1>12, <3>1, <4>5, <5>3
      <4>6. QED
        BY <4>4, <4>5
    <3>2. ASSUME c = GrantedChannel PROVE s > From(p, access[c])
      <4>1. PICK id \in feed.batch : id.seq = s
        BY <2>3, <3>2 DEF InBatch
      <4>2. BatchId(id, g) /\ Before(min, id)
        BY <2>1, <4>1
      <4>3. SafeSequence(min) = q /\ SafeSequence(id) = s
        BY <1>3, <4>1, <4>2 DEF BatchId, SafeSequence
      <4>4. id.triggeredBy \in {0, g} /\ (id.triggeredBy # 0 => s < id.triggeredBy)
        BY <4>1, <4>2 DEF BatchId
      <4>5. q < s \/ (t = 0 /\ q < g)
        BY <1>1, <1>3, <2>1, <4>2, <4>3, <4>4 DEF Before
      <4>6. g # 0 => g = access[c]
        BY <1>8, <1>12, <3>2
      <4>7. CASE q < s
        BY <1>3, <1>5, <1>10, <1>12, <2>1, <3>2, <4>7
      <4>8. CASE t = 0 /\ q < g
        <5>1. g = access[c]
          BY <1>1, <1>3, <4>6, <4>8
        <5>2. SafeSequence(p) < access[c]
          BY <1>1, <1>3, <1>5, <4>8, <5>1
        <5>3. QED
          BY <1>10, <1>12, <2>1, <3>2, <4>8, <5>2
      <4>9. QED
        BY <4>5, <4>7, <4>8
    <3>3. QED
      BY <3>1, <3>2
  <2>4. CASE s > feed.stable
    BY <1>11, <1>12, <2>1, <2>4 DEF AfterLow
  <2>5. CASE LeftOut(c, s)
    <3>1. CASE L # 0 /\ s > L
      BY <1>11, <1>12, <2>1, <3>1 DEF AfterLow
    <3>2. CASE /\ L # 0 /\ c = GrantedChannel /\ L < access[c]
               /\ \A id \in feed.batch : id.triggeredBy = 0
      <4>1. t = 0 /\ SafeSequence(p) < access[c]
        BY <1>1, <1>5, <1>8, <1>12, <3>2
      <4>2. QED
        BY <1>10, <1>12, <2>1, <3>2, <4>1
    <3>3. QED
      BY <2>5, <3>1, <3>2 DEF LeftOut
  <2>6. CASE feed.late[c].open /\ s \in LateOf(c)
    <3>1. Continuous
      BY <1>2, <2>6 DEF FeedOK
    <3>2. AfterLow(s)
      BY <1>12, <2>6, <3>1 DEF KnownOK
    <3>3. QED
      BY <1>11, <1>12, <2>1, <3>2
  <2>7. QED
    BY <2>2, <2>3, <2>4, <2>5, <2>6 DEF Pending
<1>13. ASSUME access[GrantedChannel] # 0, feed.stable < g, NEW s \in cache[GrantedChannel]
       PROVE  s > From(p, access[GrantedChannel])
  <2>1. t = 0
    BY <1>1, <1>3, <1>13
  <2>2. GrantedChannel \in Channels /\ g = access[GrantedChannel]
    BY <1>1, <1>8, <1>13, ChannelFacts
  <2>3. SafeSequence(p) < access[GrantedChannel]
    BY <1>1, <1>3, <1>5, <1>13, <2>2
  <2>4. s > 0
    BY <2>2, WorldFacts
  <2>5. QED
    BY <1>10, <1>13, <2>1, <2>3, <2>4
<1>14. ASSUME access[GrantedChannel] # 0, g = 0, NEW s \in cache[GrantedChannel] \ Got'
       PROVE  s > From(p, access[GrantedChannel])
  <2> DEFINE a == access[GrantedChannel]
  <2>1. t = 0 /\ GrantedChannel \in Channels /\ s \in Nat /\ s > 0
    BY <1>3, <1>14, ChannelFacts, WorldFacts
  <2>2. a \in Nat /\ a > 1
    BY <1>8, <1>14, <2>1
  <2>3. CASE Before(w, SeqID(a))
    <3>1. SeqID(a).triggeredBy = 0 /\ SafeSequence(SeqID(a)) = a
      BY DEF SeqID, SafeSequence
    <3>2. SafeSequence(w) < a
      BY <1>5, <2>1, <2>3, <3>1 DEF Before
    <3>3. SafeSequence(p) < a
      BY <1>5, <2>2, <3>2
    <3>4. QED
      BY <1>10, <1>14, <2>1, <3>3
  <2>4. CASE ~ Before(w, SeqID(a))
    <3>1. GrantedChannel \in Available(access)
      BY <1>14, <2>1 DEF Available
    <3>2. UnseenGrant(w) = 1..w.seq
      BY <1>14, <2>4, <3>1 DEF UnseenGrant
    <3>3. s \notin 1..q
      BY <1>5, <1>6, <1>14, <3>2
    <3>4. s > q
      BY <1>3, <2>1, <3>3
    <3>5. QED
      BY <1>3, <1>5, <1>10, <1>14, <2>1, <3>4
  <2>5. QED
    BY <2>3, <2>4
<1>15. ResumeSafe'
  <2> SUFFICES ASSUME NEW c \in Channels, access[c] # 0,
                      NEW s \in (cache[c] \cup skipped) \ Got'
               PROVE  s > From(p, access[c])
    <3>1. access' = access /\ cache' = cache /\ skipped' = skipped
      BY DEF WorldStays
    <3>2. \A c \in Channels : SafeSequence(ResumeFrom(c)') = From(p, access[c])
      BY <3>1 DEF ResumeFrom, From, p, ClientId
    <3>3. QED
      BY <3>1, <3>2 DEF ResumeSafe, Available, Got
  <2>1. CASE s \in skipped
    <3>1. s \in Nat /\ s > 0 /\ AfterLow(s)
      BY <1>2, <2>1, WorldFacts DEF SkippedOK
    <3>2. QED
      BY <1>11, <3>1
  <2>2. CASE s \in cache[c]
    <3>1. CASE c # GrantedChannel
      <4>1. feed.chans[c] = 1 /\ access[c] = 1
        BY <1>8, <3>1
      <4>2. feed.stable >= 1
        BY <1>1, <1>3
      <4>3. Served(c) /\ ReadNow(c)
        BY <1>1, <1>2, <4>1, <4>2 DEF Served, ReadNow
      <4>4. QED
        BY <1>12, <2>2, <4>3
    <3>2. CASE c = GrantedChannel /\ g # 0
      <4>1. g = access[c] /\ Served(c)
        BY <1>8, <3>2 DEF Served
      <4>2. CASE feed.stable < g
        BY <1>13, <2>2, <3>2, <4>2
      <4>3. CASE g <= feed.stable
        <5>1. ReadNow(c)
          BY <1>1, <1>2, <3>2, <4>3 DEF ReadNow
        <5>2. QED
          BY <1>12, <2>2, <4>1, <5>1
      <4>4. QED
        BY <1>1, <4>2, <4>3
    <3>3. CASE c = GrantedChannel /\ g = 0
      BY <1>14, <2>2, <3>3
    <3>4. QED
      BY <3>1, <3>2, <3>3
  <2>3. QED
    BY <2>1, <2>2
<1>16. QED
  BY <1>5, <1>6, <1>7, <1>15 DEF p

(* An entry is sent.                                                       *)
LEMMA SentStep ==
    ASSUME FeedInv, feed.pc = "reading", feed.todo = {}, NEW min \in feed.batch,
           \A other \in feed.batch \ {min} : Before(min, other),
           \A id \in feed.batch : BatchId(id, feed.chans[GrantedChannel]),
           min.seq <= feed.stable, WorldStays, lateLogs' = lateLogs,
           userChanged' = userChanged,
           NEW since \in {feed.since, min},
           feed' = [feed EXCEPT !.batch = @ \ {min}, !.sent = (feed.mode = "longpoll"),
                                !.since = since],
           received' = received \cup {min.seq},
           lastId' = IntSeqToString(WithLow(min, feed.low)),
           missed' = missed \cup UnseenGrant(WithLow(min, feed.low))
                            \cup CutOffByBackfill(WithLow(min, feed.low))
    PROVE  FeedInv'
<1> USE DEF FeedInv
<1>1. /\ feed \in FeedRecords /\ feed.stable \in Nat /\ MaxSeq \in Nat
      /\ feed.stable \in 1..(next - 1) /\ Running
      /\ IdUpTo(feed.since, feed.stable) /\ feed.mode \in Modes
  BY ChangesFeedAssumption DEF FeedOK, FeedRecords, Running
<1>2. /\ min \in SequenceIDs(MaxSeq) /\ min.lowSeq = 0 /\ min.seq > 0
      /\ min.seq \in 0..MaxSeq /\ min.seq \in Nat /\ min.triggeredBy \in Nat
      /\ min.triggeredBy \in {0, feed.chans[GrantedChannel]}
      /\ (min.triggeredBy # 0 => min.seq < min.triggeredBy)
  <2>1. BatchId(min, feed.chans[GrantedChannel])
    OBVIOUS
  <2>2. QED
    BY <1>1, <2>1 DEF BatchId, SequenceIDs
<1>3. IdUpTo(since, feed.stable) /\ since \in SequenceIDs(MaxSeq)
  <2>1. min.triggeredBy <= feed.stable
    BY <1>1, <1>2 DEF FeedOK, BatchOK
  <2>2. min.triggeredBy # 0 => min.triggeredBy > 1
    BY <1>2
  <2>3. IdUpTo(min, feed.stable)
    BY <1>2, <2>1, <2>2 DEF IdUpTo
  <2>4. QED
    BY <1>1, <2>3 DEF IdUpTo
<1>4. /\ feed' \in FeedRecords /\ feed'.pc = feed.pc /\ feed'.mode = feed.mode
      /\ feed'.stable = feed.stable /\ feed'.low = feed.low /\ feed'.chans = feed.chans
      /\ feed'.todo = feed.todo /\ feed'.late = feed.late
      /\ feed'.batch = feed.batch \ {min} /\ feed'.since = since
      /\ feed'.sent = (feed.mode = "longpoll")
  BY <1>1, <1>3 DEF FeedRecords
<1>5. /\ ResumeSafe' /\ IdUpTo(ClientId', feed.stable) /\ missed' \subseteq 1..MaxSeq
      /\ ClientId'.triggeredBy = min.triggeredBy /\ Got \subseteq Got'
  BY SentSafe
<1>6. Running' /\ Continuous' = Continuous
  BY <1>4 DEF Running, Continuous
<1>7. WorldOK'
  <2>1. IdUpTo(ClientId', next - 1)
    <3>1. next - 1 \in Nat /\ feed.stable <= next - 1
      BY <1>1, WorldFacts
    <3> HIDE DEF ClientId
    <3>2. QED
      BY <1>1, <1>5, <3>1, IdGrows
  <2>2. received' \subseteq 1..MaxSeq
    BY <1>1, <1>2 DEF WorldOK
  <2>3. userChanged' \in BOOLEAN /\ DOMAIN lateLogs' = Channels
        /\ \A c \in Channels : LogOK(lateLogs'[c])
    BY DEF WorldOK
  <2>4. QED
    BY <1>5, <2>1, <2>2, <2>3, WorldKept
<1>8. FeedOK'
  <2>1. LatePositionKept'
    BY <1>4 DEF FeedOK, LatePositionKept
  <2>2. BatchOK'
    BY <1>1, <1>4 DEF FeedOK, BatchOK
  <2>3. Continuous => ~ feed'.sent
    BY <1>4 DEF Continuous
  <2>4. QED
    BY <1>1, <1>3, <1>4, <1>6, <2>1, <2>2, <2>3 DEF FeedOK, WorldStays
<1>9. TriggerOK'
  <2>1. since.triggeredBy \in {feed.since.triggeredBy, min.triggeredBy}
    OBVIOUS
  <2>2. QED
    BY <1>1, <1>2, <1>4, <1>5, <2>1 DEF TriggerOK, WorldStays
<1>10. LongpollOK'
  BY <1>1, <1>4 DEF LongpollOK, Continuous, Modes
<1>11. KnownOK' /\ SkippedOK'
  <2>1. SameReading
    BY <1>4 DEF SameReading
  <2>2. min.seq \in Got'
    BY DEF Got
  <2>3. \A id \in feed.batch : id \in feed'.batch \/ id.seq \in Got' \/ id.seq > feed.stable
    BY <1>4, <2>2, Zenon
  <2>4. QED
    BY <1>5, <2>1, <2>3, BatchShrinks
<1>12. QED
  BY <1>5, <1>7, <1>8, <1>9, <1>10, <1>11

(* What a feed does with the entry before all others.                      *)
LEMMA SendCases ==
    ASSUME FeedInv, SendEntry
    PROVE  /\ feed.pc = "reading" /\ feed.todo = {} /\ Running
           /\ WorldStays /\ lateLogs' = lateLogs /\ userChanged' = userChanged
           /\ \E min \in feed.batch :
                 /\ \A other \in feed.batch \ {min} : Before(min, other)
                 /\ \A id \in feed.batch : BatchId(id, feed.chans[GrantedChannel])
                 /\ \/ /\ feed.stable < min.seq /\ feed' = [feed EXCEPT !.batch = @ \ {min}]
                       /\ received' = received /\ lastId' = lastId /\ missed' = missed
                    \/ /\ ~ (feed.stable < min.seq)
                       /\ \E since \in {feed.since, min} :
                             feed' = [feed EXCEPT !.batch = @ \ {min},
                                         !.sent = (feed.mode = "longpoll"), !.since = since]
                       /\ received' = received \cup {min.seq}
                       /\ lastId' = IntSeqToString(WithLow(min, feed.low))
                       /\ missed' = missed \cup UnseenGrant(WithLow(min, feed.low))
                                        \cup CutOffByBackfill(WithLow(min, feed.low))
<1> DEFINE min == CHOOSE id \in feed.batch :
                     \A other \in feed.batch \ {id} : Before(id, other)
<1>1. /\ feed.pc = "reading" /\ feed.todo = {} /\ feed.batch # {} /\ Running
      /\ WorldStays /\ lateLogs' = lateLogs /\ userChanged' = userChanged
  BY DEF SendEntry, WorldStays, world, Running
<1>2. IF feed.stable < min.seq
      THEN /\ feed' = [feed EXCEPT !.batch = @ \ {min}]
           /\ UNCHANGED <<received, lastId, missed>>
      ELSE /\ feed' = [feed EXCEPT !.batch = @ \ {min}, !.sent = (feed.mode = "longpoll"),
                         !.since = IF Before(@, min) THEN min ELSE @]
           /\ received' = received \cup {min.seq}
           /\ lastId' = IntSeqToString(WithLow(min, feed.low))
           /\ missed' = missed \cup UnseenGrant(WithLow(min, feed.low))
                            \cup CutOffByBackfill(WithLow(min, feed.low))
  BY SMTT(30) DEF SendEntry, WithLow
<1>3. /\ min \in feed.batch
      /\ \A other \in feed.batch \ {min} : Before(min, other)
      /\ \A id \in feed.batch : BatchId(id, feed.chans[GrantedChannel])
  BY <1>1, LeastSent DEF FeedInv
<1> HIDE DEF min
<1>4. CASE feed.stable < min.seq
  BY <1>1, <1>2, <1>3, <1>4
<1>5. CASE ~ (feed.stable < min.seq)
  <2>1. \E since \in {feed.since, min} :
           feed' = [feed EXCEPT !.batch = @ \ {min},
                       !.sent = (feed.mode = "longpoll"), !.since = since]
    BY <1>2, <1>5
  <2>2. QED
    BY <1>1, <1>2, <1>3, <1>5, <2>1
<1>6. QED
  BY <1>4, <1>5, Zenon

(* Sending keeps the invariant.                                            *)
LEMMA SendEntryStep == ASSUME FeedInv, SendEntry PROVE FeedInv'
<1>1. /\ feed.pc = "reading" /\ feed.todo = {} /\ Running
      /\ WorldStays /\ lateLogs' = lateLogs /\ userChanged' = userChanged
  BY SendCases
<1>2. PICK min \in feed.batch :
          /\ \A other \in feed.batch \ {min} : Before(min, other)
          /\ \A id \in feed.batch : BatchId(id, feed.chans[GrantedChannel])
          /\ \/ /\ feed.stable < min.seq /\ feed' = [feed EXCEPT !.batch = @ \ {min}]
                /\ received' = received /\ lastId' = lastId /\ missed' = missed
             \/ /\ ~ (feed.stable < min.seq)
                /\ \E since \in {feed.since, min} :
                      feed' = [feed EXCEPT !.batch = @ \ {min},
                                  !.sent = (feed.mode = "longpoll"), !.since = since]
                /\ received' = received \cup {min.seq}
                /\ lastId' = IntSeqToString(WithLow(min, feed.low))
                /\ missed' = missed \cup UnseenGrant(WithLow(min, feed.low))
                                 \cup CutOffByBackfill(WithLow(min, feed.low))
  BY SendCases, Zenon
<1>3. CASE feed.stable < min.seq
  BY <1>1, <1>2, <1>3, SkipEntryStep
<1>4. CASE ~ (feed.stable < min.seq)
  <2>1. PICK since \in {feed.since, min} :
            feed' = [feed EXCEPT !.batch = @ \ {min},
                        !.sent = (feed.mode = "longpoll"), !.since = since]
    BY <1>2, <1>4
  <2>2. min.seq <= feed.stable
    <3>1. feed.stable \in Nat /\ min.seq \in Nat
      BY <1>2, ChangesFeedAssumption DEF FeedInv, FeedOK, FeedRecords, BatchId, SequenceIDs
    <3>2. QED
      BY <1>4, <3>1
  <2>3. QED
    BY <1>1, <1>2, <1>4, <2>1, <2>2, SentStep
<1>5. QED
  BY <1>3, <1>4

-----------------------------------------------------------------------------
(* The next iteration.                                                     *)

(* The late feeds after an iteration: what it did not read is closed.      *)
Closed == {c \in Channels : feed.late[c].open /\ ~ feed.late[c].active}
NextLate ==
    [c \in Channels |-> IF c \in Closed THEN NoLate
                        ELSE [feed.late[c] EXCEPT !.active = FALSE]]
NextSince ==
    [feed.since EXCEPT !.lowSeq = IF feed.mode = "longpoll" THEN feed.requestLow ELSE @]

(* The late feeds that stay open are those that were read, where they      *)
(* were.                                                                   *)
LEMMA NextLateFacts ==
    ASSUME feed \in FeedRecords
    PROVE  /\ NextLate \in [Channels -> LateRecords]
           /\ \A c \in Channels :
                 NextLate[c].open =>
                     /\ c \notin Closed /\ feed.late[c].open
                     /\ NextLate[c].pos = feed.late[c].pos
           /\ \A c \in Channels : feed.late[c].open /\ feed.late[c].active => NextLate[c].open
<1>1. NoLate \in LateRecords /\ ~ NoLate.open
  BY ChangesFeedAssumption DEF NoLate, LateRecords
<1>2. ASSUME NEW r \in LateRecords
      PROVE  /\ [r EXCEPT !.active = FALSE] \in LateRecords
             /\ [r EXCEPT !.active = FALSE].open = r.open
             /\ [r EXCEPT !.active = FALSE].pos = r.pos
  BY DEF LateRecords
<1>3. ASSUME NEW c \in Channels
      PROVE  /\ feed.late[c] \in LateRecords
             /\ NextLate[c] = IF c \in Closed THEN NoLate
                              ELSE [feed.late[c] EXCEPT !.active = FALSE]
  BY DEF NextLate, FeedRecords
<1>4. ASSUME NEW c \in Channels
      PROVE  /\ NextLate[c] \in LateRecords
             /\ NextLate[c].open =>
                   /\ c \notin Closed /\ feed.late[c].open
                   /\ NextLate[c].pos = feed.late[c].pos
             /\ feed.late[c].open /\ feed.late[c].active => NextLate[c].open
  <2>1. CASE c \in Closed
    BY <1>1, <1>3, <2>1 DEF Closed
  <2>2. CASE c \notin Closed
    <3>1. NextLate[c] = [feed.late[c] EXCEPT !.active = FALSE]
      BY <1>3, <2>2
    <3>2. /\ NextLate[c] \in LateRecords /\ NextLate[c].open = feed.late[c].open
          /\ NextLate[c].pos = feed.late[c].pos
      BY <1>2, <1>3, <3>1
    <3>3. QED
      BY <2>2, <3>2
  <2>3. QED
    BY <2>1, <2>2
<1>5. NextLate = [c \in Channels |-> NextLate[c]]
  BY DEF NextLate
<1>6. NextLate \in [Channels -> LateRecords]
  BY <1>4, <1>5
<1>7. QED
  BY <1>4, <1>6

(* A continuous feed goes on from where it is, a longpoll from where the   *)
(* client is.                                                              *)
LEMMA NextSinceFacts ==
    ASSUME WorldOK, FeedOK, LongpollOK, Running, Continuous \/ ~ feed.sent
    PROVE  /\ NextSince \in SequenceIDs(MaxSeq)
           /\ Continuous => NextSince = feed.since
           /\ ~ Continuous => NextSince = ClientId
           /\ NextSince.triggeredBy = feed.since.triggeredBy
           /\ IdUpTo(NextSince, next - 1)
           /\ ~ Continuous => feed.requestLow = ClientId.lowSeq
<1>1. /\ feed.since \in SequenceIDs(MaxSeq) /\ feed.mode \in Modes /\ feed.stable \in Nat
      /\ feed.requestLow \in 0..MaxSeq /\ IdUpTo(feed.since, feed.stable)
      /\ feed.stable \in 1..(next - 1)
  BY DEF FeedOK, FeedRecords
<1>2. next - 1 \in Nat /\ feed.stable <= next - 1 /\ IdUpTo(ClientId, next - 1)
  BY <1>1, WorldFacts DEF WorldOK
<1>3. CASE Continuous
  <2>1. ASSUME NEW id \in SequenceIDs(MaxSeq) PROVE [id EXCEPT !.lowSeq = id.lowSeq] = id
    BY DEF SequenceIDs
  <2>2. NextSince = [feed.since EXCEPT !.lowSeq = feed.since.lowSeq]
    BY <1>3 DEF NextSince, Continuous
  <2>3. NextSince = feed.since
    BY <1>1, <2>1, <2>2
  <2>4. IdUpTo(feed.since, next - 1)
    BY <1>1, <1>2, IdGrows
  <2>5. QED
    BY <1>1, <1>3, <2>3, <2>4
<1>4. CASE ~ Continuous
  <2>1. feed.mode = "longpoll" /\ ~ feed.sent
    BY <1>1, <1>4 DEF Continuous, Modes
  <2>2. /\ feed.requestLow = ClientId.lowSeq
        /\ feed.since = ClientId \/ feed.since = [ClientId EXCEPT !.lowSeq = 0]
    BY <1>4, <2>1 DEF LongpollOK
  <2>3. ClientId \in SequenceIDs(MaxSeq)
    BY <1>2 DEF IdUpTo
  <2>4. ASSUME NEW id \in SequenceIDs(MaxSeq)
        PROVE  /\ [id EXCEPT !.lowSeq = id.lowSeq] = id
               /\ [[id EXCEPT !.lowSeq = 0] EXCEPT !.lowSeq = id.lowSeq] = id
               /\ [id EXCEPT !.lowSeq = 0].triggeredBy = id.triggeredBy
    BY DEF SequenceIDs
  <2>5. NextSince = [feed.since EXCEPT !.lowSeq = ClientId.lowSeq]
    BY <2>1, <2>2 DEF NextSince
  <2> HIDE DEF ClientId
  <2>6. NextSince = ClientId /\ ClientId.triggeredBy = feed.since.triggeredBy
    BY <2>2, <2>3, <2>4, <2>5
  <2>7. QED
    BY <1>2, <1>4, <2>2, <2>3, <2>6
<1>5. QED
  BY <1>3, <1>4

(* What a feed that goes on leaves behind is ahead of where it reads next. *)
LEMMA NextAhead ==
    ASSUME FeedInv, BatchSent, Continuous, NEW c \in Channels, access[c] # 0,
           NEW s \in (cache[c] \cup skipped) \ Got
    PROVE  /\ feed.late[c].open /\ feed.late[c].active /\ s \in cache[c] =>
                 \/ s > feed.since.seq /\ s > feed.since.triggeredBy
                 \/ s \in LateOf(c)
           /\ ~ (feed.late[c].open /\ feed.late[c].active) /\ feed.chans[c] = access[c] =>
                 s > From(feed.since, access[c])
<1> USE DEF FeedInv
<1>1. /\ Running /\ Reading /\ feed.todo = {} /\ feed.batch = {} /\ feed.pc = "reading"
  BY DEF BatchSent, Running, Reading
<1>2. /\ feed.stable \in Nat /\ feed.stable >= 1 /\ IdUpTo(feed.since, feed.stable)
      /\ feed.chans[c] \in Nat /\ access[c] \in Nat
  BY <1>1, ChangesFeedAssumption DEF FeedOK, FeedRecords, WorldOK
<1>3. /\ feed.since.seq \in Nat /\ feed.since.triggeredBy \in Nat
      /\ feed.since.seq <= feed.stable /\ feed.since.triggeredBy <= feed.stable
      /\ SafeSequence(feed.since) \in 0..feed.stable
  BY <1>2, IdFacts
<1>4. s \in Nat /\ s > 0
  BY WorldFacts
<1>5. ASSUME feed.late[c].open, feed.late[c].active, s \in cache[c]
      PROVE  \/ s > feed.since.seq /\ s > feed.since.triggeredBy
             \/ s \in LateOf(c)
  <2>1. feed.chans[c] = access[c]
    <3>1. CASE c = GrantedChannel
      BY <1>1, <1>5, <3>1 DEF TriggerOK
    <3>2. CASE c # GrantedChannel
      BY <1>1, <3>2, ChannelFacts DEF FeedOK, WorldOK
    <3>3. QED
      BY <3>1, <3>2
  <2>2. feed.chans[c] <= feed.stable
    BY <1>1, <1>5 DEF FeedOK
  <2>3. Served(c) /\ ReadNow(c)
    BY <1>1, <1>2, <2>1, <2>2 DEF Served, ReadNow
  <2>4. Pending(c, s)
    BY <1>5, <2>3 DEF KnownOK
  <2>5. ~ InBatch(c, s) /\ ~ LeftOut(c, s)
    BY <1>1 DEF InBatch, LeftOut
  <2>6. s > feed.stable \/ s \in LateOf(c)
    BY <2>4, <2>5 DEF Pending
  <2>7. QED
    BY <1>2, <1>3, <1>4, <2>6
<1>6. ASSUME ~ (feed.late[c].open /\ feed.late[c].active), feed.chans[c] = access[c]
      PROVE  s > From(feed.since, access[c])
  <2>1. ~ ReadNow(c)
    BY <1>1, <1>6 DEF KnownOK
  <2>2. feed.chans[c] > feed.stable
    BY <1>1, <1>2, <1>6, <2>1 DEF ReadNow
  <2>3. c = GrantedChannel
    <3>1. c \in Owned => feed.chans[c] = 1
      BY <1>1 DEF FeedOK
    <3>2. QED
      BY <1>2, <2>2, <3>1, ChannelFacts
  <2>4. feed.since.triggeredBy \in {0, access[c]}
    BY <1>1, <1>6, <2>3 DEF TriggerOK
  <2>5. feed.since.triggeredBy = 0 /\ SafeSequence(feed.since) < access[c] /\ access[c] > 1
    BY <1>2, <1>3, <1>6, <2>2, <2>4
  <2>6. From(feed.since, access[c]) =
            IF feed.since.triggeredBy = 0 /\ SafeSequence(feed.since) < access[c] THEN 0
            ELSE SafeSequence(feed.since)
    BY <1>2, <2>4, <2>5, GrantedSince
  <2>7. QED
    BY <1>4, <2>5, <2>6
<1>7. QED
  BY <1>5, <1>6

(* The feed runs again.                                                    *)
LEMMA WakeStep == ASSUME FeedInv, NEW reload \in BOOLEAN, Wake(reload) PROVE FeedInv'
<1> USE DEF FeedInv
<1> DEFINE chans == IF reload THEN access ELSE feed.chans
           added == IF reload THEN Available(access) \ Available(feed.chans) ELSE {}
           user == IF reload THEN userSeq ELSE feed.userSeq
<1>1. /\ WorldStays /\ received' = received /\ lastId' = lastId /\ missed' = missed
      /\ BatchSent /\ (feed.mode = "longpoll" => ~ feed.sent)
      /\ userChanged' = (userChanged /\ ~ reload)
      /\ lateLogs' = [c \in Channels |->
            IF c \in Closed THEN RemoveListener(lateLogs[c], feed.late[c].pos)
            ELSE lateLogs[c]]
  BY DEF Wake, WorldStays, client, Closed
<1>2. feed' = [feed EXCEPT !.pc = "begin", !.stable = Stable, !.low = 0, !.since = NextSince,
                           !.chans = chans, !.userSeq = user, !.added = added,
                           !.late = NextLate]
  BY DEF Wake, Closed, NextLate, NextSince
<1>3. /\ Running /\ Reading /\ feed.pc = "reading" /\ feed.todo = {} /\ feed.batch = {}
      /\ feed \in FeedRecords /\ feed.mode \in Modes
  BY <1>1 DEF BatchSent, Running, Reading, FeedOK, FeedRecords
<1>4. ~ feed.sent
  BY <1>1, <1>3 DEF FeedOK, Continuous, Modes
<1>5. /\ NextLate \in [Channels -> LateRecords]
      /\ \A c \in Channels :
            NextLate[c].open =>
                /\ c \notin Closed /\ feed.late[c].open
                /\ NextLate[c].pos = feed.late[c].pos
      /\ \A c \in Channels : feed.late[c].open /\ feed.late[c].active => NextLate[c].open
  BY <1>3, NextLateFacts
<1>6. /\ NextSince \in SequenceIDs(MaxSeq)
      /\ Continuous => NextSince = feed.since
      /\ ~ Continuous => NextSince = ClientId
      /\ NextSince.triggeredBy = feed.since.triggeredBy
      /\ IdUpTo(NextSince, next - 1)
      /\ ~ Continuous => feed.requestLow = ClientId.lowSeq
  BY <1>3, <1>4, NextSinceFacts
<1>7. /\ Stable \in 0..MaxSeq /\ Stable = next - 1 /\ Stable \in 1..(next - 1)
      /\ Stable \in Nat /\ 0 \in 0..MaxSeq
  BY WorldFacts DEF Stable
<1>8. /\ chans \in [Channels -> 0..MaxSeq] /\ user \in 0..MaxSeq /\ added \subseteq Channels
      /\ access \in [Channels -> 0..MaxSeq] /\ feed.chans \in [Channels -> 0..MaxSeq]
  BY <1>3 DEF WorldOK, FeedRecords, Available
<1>9. /\ (\A c \in Owned : chans[c] = 1) /\ chans[GrantedChannel] # 1
      /\ chans[GrantedChannel] \in {access[GrantedChannel], feed.chans[GrantedChannel]}
      /\ reload => chans[GrantedChannel] = access[GrantedChannel]
      /\ ~ reload => chans[GrantedChannel] = feed.chans[GrantedChannel]
  BY <1>3 DEF WorldOK, FeedOK
<1> HIDE DEF NextLate, NextSince
<1>10. /\ feed' \in FeedRecords /\ feed'.pc = "begin" /\ feed'.stable = Stable
       /\ feed'.low = 0 /\ feed'.since = NextSince /\ feed'.chans = chans
       /\ feed'.added = added /\ feed'.late = NextLate
       /\ feed'.mode = feed.mode /\ feed'.todo = {} /\ feed'.batch = {}
       /\ feed'.sent = feed.sent /\ feed'.requestLow = feed.requestLow
  <2> HIDE DEF chans, added, user
  <2>1. QED
    BY <1>2, <1>3, <1>5, <1>6, <1>7, <1>8 DEF FeedRecords
<1>11. /\ Running' /\ ~ Reading' /\ Continuous' = Continuous
       /\ ClientId' = ClientId /\ Got' = Got
  BY <1>1, <1>10 DEF Running, Reading, Continuous, ClientId, Got
<1>12. ASSUME NEW c \in Channels
       PROVE  /\ LogOK(lateLogs'[c]) /\ (c \notin Closed => lateLogs'[c] = lateLogs[c])
  <2>1. LogOK(lateLogs[c]) /\ LogShape(lateLogs[c])
    BY DEF WorldOK, LogOK
  <2>2. CASE c \in Closed
    <3>1. ListenedTo(lateLogs[c], feed.late[c].pos)
      BY <2>2 DEF Closed, FeedOK, LatePositionKept, ListenedTo
    <3>2. lateLogs'[c] = RemoveListener(lateLogs[c], feed.late[c].pos)
      BY <1>1, <2>2
    <3>3. SameEntries(lateLogs[c], lateLogs'[c])
      BY <2>1, <3>1, <3>2, RemoveListenerFacts
    <3>4. QED
      BY <2>1, <2>2, <3>3, SameLate
  <2>3. CASE c \notin Closed
    BY <1>1, <2>1, <2>3
  <2>4. QED
    BY <2>2, <2>3
<1>13. WorldOK'
  <2>1. DOMAIN lateLogs' = Channels /\ userChanged' \in BOOLEAN
    BY <1>1 DEF WorldOK
  <2>2. /\ received' \subseteq 1..MaxSeq /\ missed' \subseteq 1..MaxSeq
        /\ IdUpTo(ClientId', next - 1)
    BY <1>1, <1>11 DEF WorldOK
  <2>3. QED
    BY <1>1, <1>12, <2>1, <2>2, WorldKept
<1>14. FeedOK'
  <2>1. LatePositionKept'
    BY <1>5, <1>10, <1>12 DEF FeedOK, LatePositionKept
  <2>2. BatchOK'
    BY <1>10 DEF BatchOK
  <2>3. feed'.stable \in 1..(next' - 1) /\ IdUpTo(feed'.since, feed'.stable)
    BY <1>1, <1>6, <1>7, <1>10 DEF WorldStays
  <2>4. ASSUME NEW c \in Channels, NextLate[c].open
        PROVE  Continuous /\ chans[c] <= Stable
    <3>1. feed.late[c].open /\ Continuous /\ feed.chans[c] <= feed.stable
      BY <1>3, <1>5, <2>4 DEF FeedOK
    <3>2. feed.stable \in Nat /\ feed.stable <= Stable /\ feed.chans[c] \in Nat
      BY <1>3, <1>7, <1>8, WorldFacts DEF FeedOK, FeedRecords
    <3>3. CASE c = GrantedChannel
      <4>1. access[c] = 0 \/ access[c] = feed.chans[c]
        BY <1>3, <3>1, <3>3 DEF TriggerOK
      <4>2. chans[c] = 0 \/ chans[c] = feed.chans[c]
        BY <1>9, <3>3, <4>1
      <4>3. QED
        BY <1>7, <3>1, <3>2, <4>2
    <3>4. CASE c # GrantedChannel
      <4>1. chans[c] = 1
        BY <1>9, <3>4, ChannelFacts
      <4>2. QED
        BY <1>7, <3>1, <4>1
    <3>5. QED
      BY <3>3, <3>4
  <2>5. feed'.todo \subseteq Available(feed'.chans)
    BY <1>10
  <2> HIDE DEF chans
  <2>6. QED
    BY <1>4, <1>9, <1>10, <1>11, <2>1, <2>2, <2>3, <2>4, <2>5 DEF FeedOK
<1>15. TriggerOK'
  <2>1. NextLate[GrantedChannel].open => feed.late[GrantedChannel].open
    BY <1>5, ChannelFacts
  <2> HIDE DEF chans
  <2>2. QED
    BY <1>1, <1>3, <1>6, <1>9, <1>10, <1>11, <2>1 DEF TriggerOK, WorldStays
<1>16. SkippedOK' /\ LongpollOK'
  BY <1>6, <1>10, <1>11 DEF SkippedOK, LongpollOK
<1>17. KnownOK'
  <2>1. ASSUME NEW c \in Channels, Served(c)', Continuous PROVE AheadOK(c)'
    <3>1. access[c] # 0 /\ chans[c] = access[c] /\ NextSince = feed.since
      BY <1>1, <1>6, <1>10, <2>1 DEF Served, WorldStays
    <3>2. cache' = cache /\ skipped' = skipped
      BY <1>1 DEF WorldStays
    <3>3. CASE NextLate[c].open
      <4>1. LateOf(c)' = LateOf(c) /\ feed.late[c].open /\ feed.late[c].active
        BY <1>5, <1>10, <1>12, <3>3 DEF LateOf, Closed
      <4>2. ASSUME NEW s \in cache[c] \ Got
            PROVE  (s > feed.since.seq /\ s > feed.since.triggeredBy) \/ s \in LateOf(c)
        BY <1>1, <2>1, <3>1, <4>1, NextAhead
      <4>3. QED
        BY <1>10, <1>11, <3>1, <3>2, <3>3, <4>1, <4>2 DEF AheadOK
    <3>4. CASE ~ NextLate[c].open
      <4>1. ~ (feed.late[c].open /\ feed.late[c].active)
        BY <1>5, <3>4
      <4>2. Start(c)' = IF c \in added THEN 0 ELSE From(feed.since, access[c])
        <5> HIDE DEF chans, added
        <5>1. QED
          BY <1>10, <3>1 DEF Start, From, ChannelSince, SafeSequence, Triggered
      <4>3. c \notin added => feed.chans[c] = access[c]
        <5>1. CASE c # GrantedChannel
          BY <1>3, <5>1, ChannelFacts DEF FeedOK, WorldOK
        <5>2. CASE c = GrantedChannel /\ reload
          BY <1>3, <3>1, <5>2 DEF Available, TriggerOK
        <5>3. CASE ~ reload
          BY <3>1, <5>3
        <5>4. QED
          BY <5>1, <5>2, <5>3
      <4>4. ASSUME NEW s \in (cache[c] \cup skipped) \ Got PROVE s > Start(c)'
        <5>1. s > 0
          BY WorldFacts
        <5>2. feed.chans[c] = access[c] => s > From(feed.since, access[c])
          BY <1>1, <2>1, <3>1, <4>1, NextAhead
        <5> HIDE DEF added
        <5>3. QED
          BY <4>2, <4>3, <5>1, <5>2
      <4>5. QED
        BY <1>10, <1>11, <3>2, <3>4, <4>4 DEF AheadOK
    <3>5. QED
      BY <3>3, <3>4
  <2>2. QED
    BY <1>11, <2>1 DEF KnownOK, ReadNow
<1>18. ResumeSafe'
  BY <1>1, <1>11, ResumeKept
<1>19. QED
  BY <1>13, <1>14, <1>15, <1>16, <1>17, <1>18

-----------------------------------------------------------------------------
(* The invariant, and what it says of every behaviour.                     *)

(* The first identifier is that of sequence 0.                             *)
LEMMA InitialId ==
    ASSUME Init
    PROVE  ClientId = SeqID(0) /\ IdUpTo(ClientId, 1) /\ From(ClientId, 1) = 0
<1>1. SeqID(0) \in SequenceIDs(MaxSeq)
  BY ChangesFeedAssumption DEF SeqID, SequenceIDs
<1>2. /\ SeqID(0).triggeredBy = 0 /\ SeqID(0).lowSeq = 0 /\ SeqID(0).seq = 0
      /\ SeqID(0) = [triggeredBy |-> 0, lowSeq |-> 0, seq |-> 0]
  BY DEF SeqID
<1>3. ClientId = SeqID(0)
  <2>1. ClientId = ParseIntegerSequenceID(IntSeqToString(SeqID(0)))
    BY DEF Init, ClientId
  <2> HIDE DEF SeqID, ClientId
  <2>2. QED
    BY <1>1, <1>2, <2>1, TextParsed
<1>4. IdUpTo(ClientId, 1)
  BY <1>1, <1>2, <1>3 DEF IdUpTo
<1>5. From(ClientId, 1) = IF ClientId.triggeredBy # 0 THEN ClientId.triggeredBy
                          ELSE SafeSequence(ClientId)
  <2>1. 1 \in Nat
    OBVIOUS
  <2> HIDE DEF ClientId
  <2>2. QED
    BY <1>4, <2>1, OwnedSince
<1>6. SafeSequence(ClientId) = 0 /\ ClientId.triggeredBy = 0
  BY <1>2, <1>3 DEF SafeSequence
<1>7. QED
  BY <1>3, <1>4, <1>5, <1>6

(* The invariant holds initially.                                          *)
LEMMA FeedInit == Init => FeedInv
<1> SUFFICES ASSUME Init PROVE FeedInv
  OBVIOUS
<1>1. ClientId = SeqID(0) /\ IdUpTo(ClientId, 1)
  BY InitialId
<1>2. /\ next = 2 /\ skipped = {} /\ finishing = 0 /\ feed = NoFeed
      /\ cache = [c \in Channels |-> {}]
      /\ lateLogs = [c \in Channels |-> <<[seq |-> 0, listeners |-> 0]>>]
      /\ access = [c \in Channels |-> IF c \in Owned THEN 1 ELSE 0]
      /\ userSeq = 0 /\ userChanged = FALSE /\ revoked = FALSE
      /\ received = {} /\ missed = {}
  BY DEF Init
<1>3. MaxSeq \in Nat /\ MaxSeq >= 1 /\ 0 \in 0..MaxSeq /\ 1 \in 0..MaxSeq
  BY ChangesFeedAssumption
<1>4. ~ Running /\ ~ Reading
  BY <1>2, NoFeedFacts DEF Running, Reading
<1>5. WorldOK
  <2>1. ASSUME NEW c \in Channels PROVE LogOK(lateLogs[c])
    <3>1. lateLogs[c] = <<[seq |-> 0, listeners |-> 0]>>
      BY <1>2
    <3>2. [seq |-> 0, listeners |-> 0] \in LogEntries
      BY <1>3 DEF LogEntries
    <3>3. lateLogs[c] \in Seq(LogEntries) /\ Len(lateLogs[c]) = 1 /\ lateLogs[c][1].seq = 0
      BY <3>1, <3>2
    <3>4. QED
      BY <1>2, <3>3 DEF LogOK, LogShape
  <2>2. next \in 2..(MaxSeq + 1) /\ next - 1 = 1
    BY <1>2, <1>3
  <2>3. /\ access \in [Channels -> 0..MaxSeq] /\ \A c \in Owned : access[c] = 1
        /\ access[GrantedChannel] = 0
    BY <1>2, <1>3, ChannelFacts
  <2>4. /\ cache \in [Channels -> SUBSET (1..(next - 1))] /\ DOMAIN lateLogs = Channels
    BY <1>2
  <2>5. userChanged \in BOOLEAN /\ revoked \in BOOLEAN
    BY <1>2, Zenon
  <2>6. /\ skipped \subseteq 2..(next - 1) /\ finishing \in {0} \cup skipped
        /\ userSeq \in 0..MaxSeq /\ received \subseteq 1..MaxSeq /\ missed \subseteq 1..MaxSeq
        /\ access[GrantedChannel] # 1
    BY <1>2, <1>3, <2>3
  <2>7. IdUpTo(ClientId, next - 1)
    BY <1>1, <2>2
  <2> HIDE DEF ClientId
  <2>8. QED
    BY <2>1, <2>2, <2>3, <2>4, <2>5, <2>6, <2>7, Zenon DEF WorldOK
<1>6. FeedOK
  BY <1>2, <1>4, NoFeedFacts DEF FeedOK, LatePositionKept, Running
<1>7. TriggerOK
  <2>1. access[GrantedChannel] = 0 /\ ClientId.triggeredBy = 0
    BY <1>1, <1>2, ChannelFacts DEF SeqID
  <2>2. QED
    BY <1>4, <2>1 DEF TriggerOK
<1>8. SkippedOK /\ LongpollOK /\ KnownOK
  BY <1>4 DEF SkippedOK, LongpollOK, KnownOK, ReadNow
<1>9. ResumeSafe
  BY <1>2 DEF ResumeSafe, Available
<1>10. QED
  BY <1>5, <1>6, <1>7, <1>8, <1>9 DEF FeedInv

(* Every step keeps the invariant.                                         *)
LEMMA FeedStepKept == FeedInv /\ [Next]_vars => FeedInv'
<1> SUFFICES ASSUME FeedInv, [Next]_vars PROVE FeedInv'
  OBVIOUS
<1>1. ASSUME NEW k \in 1..MaxSeq, NEW C \in ChannelSets, AddToCache(k, C) PROVE FeedInv'
  BY <1>1, AddToCacheStep
<1>2. ASSUME NEW k \in 1..MaxSeq, NEW C \in ChannelSets, AddLate(k, C) PROVE FeedInv'
  BY <1>2, AddLateStep
<1>3. CASE FinishLate
  BY <1>3, FinishLateStep
<1>4. ASSUME NEW s \in 1..MaxSeq, Abandon(s) PROVE FeedInv'
  BY <1>4, AbandonStep
<1>5. ASSUME NEW g \in 1..MaxSeq, Grant(g) PROVE FeedInv'
  BY <1>5, GrantStep
<1>6. CASE Revoke
  BY <1>6, RevokeStep
<1>7. ASSUME NEW mode \in Modes, StartFeed(mode) PROVE FeedInv'
  BY <1>7, StartFeedStep
<1>8. CASE BeginIteration
  BY <1>8, BeginIterationStep
<1>9. ASSUME NEW c \in Channels, ReadChannel(c) PROVE FeedInv'
  BY <1>9, ReadNothingStep, ReadChannelStep
<1>10. CASE GetLateFeed
  BY <1>10, GetLateFeedStep
<1>11. CASE NewLateSequenceFeed
  BY <1>11, NewLateSequenceFeedStep
<1>12. CASE SendEntry
  BY <1>12, SendEntryStep
<1>13. CASE EndRequest \/ Disconnect
  BY <1>13, EndRequestStep
<1>14. ASSUME NEW reload \in BOOLEAN, Wake(reload) PROVE FeedInv'
  BY <1>14, WakeStep
<1>15. CASE UNCHANGED vars
  <2>1. /\ skipped' = skipped /\ finishing' = finishing /\ next' = next /\ cache' = cache
        /\ lateLogs' = lateLogs /\ access' = access /\ revoked' = revoked
        /\ userSeq' = userSeq /\ userChanged' = userChanged /\ feed' = feed
        /\ received' = received /\ lastId' = lastId /\ missed' = missed
    BY <1>15 DEF vars, world, client
  <2>2. /\ finishing' \in {0} \cup skipped'
        /\ \A c \in Channels : \A i \in 1..Len(lateLogs[c]) :
              lateLogs[c][i].seq \in skipped' => lateLogs[c][i].seq = finishing'
    BY <2>1 DEF FeedInv, WorldOK, LogOK
  <2>3. QED
    BY <2>1, <2>2, UnskipStep
<1>16. QED
  BY <1>1, <1>2, <1>3, <1>4, <1>5, <1>6, <1>7, <1>8, <1>9, <1>10, <1>11, <1>12, <1>13,
     <1>14, <1>15 DEF Next, FeedStep

(* The invariant holds in every state.                                     *)
THEOREM FeedInvariant == Spec => []FeedInv
BY FeedInit, FeedStepKept, PTL DEF Spec

(* Whatever the interleaving of cache, grants, feed and client, a request  *)
(* from the last identifier the client holds reads every channel from      *)
(* before each of its changes the client has not got: the compound         *)
(* identifier loses nothing outside the named races.                       *)
THEOREM ClientResumesSafely == Spec => []ResumeSafe
<1>1. FeedInv => ResumeSafe
  BY DEF FeedInv
<1>2. QED
  BY <1>1, FeedInvariant, PTL

(* What the invariant says of late entries.                                *)
LEMMA LateEntries == FeedInv => LateEntriesKept
<1> SUFFICES ASSUME FeedInv PROVE LateEntriesKept
  OBVIOUS
<1> USE DEF FeedInv
<1>1. TypeOK
  <2>1. /\ next \in 1..(MaxSeq + 1) /\ skipped \subseteq 1..MaxSeq /\ finishing \in 0..MaxSeq
    BY WorldFacts DEF WorldOK
  <2>2. cache \in [Channels -> SUBSET (1..MaxSeq)]
    <3>1. 1..(next - 1) \subseteq 1..MaxSeq
      BY WorldFacts
    <3>2. QED
      BY <3>1 DEF WorldOK
  <2>3. ParseIntegerSequenceID(lastId) \in SequenceIDs(MaxSeq)
    BY DEF WorldOK, IdUpTo, ClientId
  <2>4. /\ feed.pc \in {"ended", "begin", "reading", "late"}
        /\ feed.since \in SequenceIDs(MaxSeq) /\ feed.batch \subseteq SequenceIDs(MaxSeq)
    BY DEF FeedOK, FeedRecords
  <2>5. QED
    BY <2>1, <2>2, <2>3, <2>4 DEF TypeOK, WorldOK
<1>2. LatePositionKept
  BY DEF FeedOK
<1>3. LateEntriesKnown
  <2> SUFFICES ASSUME NEW c \in Channels, access[c] # 0, feed.late[c].open,
                      feed.chans[c] = access[c], NEW s \in cache[c] \ Got
               PROVE  \/ s > SafeSequence(feed.since)
                      \/ \E id \in feed.batch : id.seq = s
                      \/ s \in LateOf(c)
    BY DEF LateEntriesKnown, Available, Got, LateOf
  <2>1. /\ Running /\ Continuous /\ Served(c) /\ feed.chans[c] <= feed.stable
        /\ feed.stable \in Nat /\ feed.chans[c] \in Nat /\ IdUpTo(feed.since, feed.stable)
    BY ChangesFeedAssumption DEF FeedOK, FeedRecords, Served
  <2>2. /\ feed.since.seq \in Nat /\ SafeSequence(feed.since) \in 0..feed.stable
        /\ SafeSequence(feed.since) <= feed.since.seq /\ s \in Nat
    BY <2>1, IdFacts, WorldFacts
  <2>3. CASE feed.pc = "begin" \/ c \in feed.todo
    <3>1. AheadOK(c)
      BY <2>1, <2>3 DEF KnownOK
    <3>2. s > feed.since.seq \/ s \in LateOf(c)
      BY <3>1 DEF AheadOK
    <3>3. QED
      BY <2>1, <2>2, <3>2
  <2>4. CASE feed.pc # "begin" /\ c \notin feed.todo
    <3>1. Reading
      BY <2>1, <2>4 DEF FeedOK, FeedRecords, Running, Reading
    <3>2. ReadNow(c)
      BY <2>1, <2>4, <3>1 DEF ReadNow
    <3>3. Pending(c, s)
      BY <2>1, <3>2 DEF KnownOK
    <3>4. CASE InBatch(c, s)
      <4>1. SeqID(s).seq = s
        BY DEF SeqID
      <4>2. QED
        BY <3>4, <4>1 DEF InBatch
    <3>5. CASE s > feed.stable
      BY <2>1, <2>2, <3>5
    <3>6. ~ LeftOut(c, s)
      BY <2>1 DEF LeftOut
    <3>7. QED
      BY <3>3, <3>4, <3>5, <3>6 DEF Pending
  <2>5. QED
    BY <2>3, <2>4
<1>4. QED
  BY <1>1, <1>2, <1>3 DEF LateEntriesKept

(* The late log keeps the position of every open late feed, and a          *)
(* continuous feed knows every late entry of the channels it serves: it is *)
(* sent, ahead of it, in its batch or in the late log.                     *)
THEOREM LateEntriesStay == Spec => []LateEntriesKept
BY LateEntries, FeedInvariant, PTL

-----------------------------------------------------------------------------
(* At-least-once delivery.                                                 *)

(* The changes that are due and those a request would leave out, as the    *)
(* refinement maps them.                                                   *)
Due ==
    UNION {{c} \X (cache[c] \cup skipped \cup next..MaxSeq) : c \in Available(access)}
Covered ==
    UNION {{c} \X (1..SafeSequence(ResumeFrom(c))) : c \in Available(access)}

(* What a new request would leave out has been dealt with.                 *)
Dealt == Delivery!Settled(Due, Covered, received, missed)

(* The invariant settles what a request leaves out.                        *)
LEMMA InvariantSettles == FeedInv => Dealt
<1> SUFFICES ASSUME FeedInv, NEW x \in Covered, x \in Due
             PROVE  x[2] \in received \cup missed
  BY DEF Dealt, Delivery!Settled
<1>1. PICK c \in Available(access) : x \in {c} \X (1..SafeSequence(ResumeFrom(c)))
  BY DEF Covered
<1>2. PICK d \in Available(access) : x \in {d} \X (cache[d] \cup skipped \cup next..MaxSeq)
  BY DEF Due
<1>3. x[1] = c /\ x[1] = d
  BY <1>1, <1>2
<1>4. x[2] \in 1..SafeSequence(ResumeFrom(c)) /\ x[2] \in cache[c] \cup skipped \cup next..MaxSeq
  BY <1>1, <1>2, <1>3
<1>5. SafeSequence(ResumeFrom(c)) \in 0..(next - 1) /\ next \in Nat /\ MaxSeq \in Nat
  BY ResumeBounded, WorldFacts DEF FeedInv, Available
<1>6. CASE x[2] \in next..MaxSeq
  BY <1>4, <1>5, <1>6
<1>7. CASE x[2] \in cache[c] \cup skipped
  <2>1. ~ (x[2] > SafeSequence(ResumeFrom(c)))
    BY <1>4, <1>5
  <2>2. QED
    BY <1>7, <2>1 DEF FeedInv, ResumeSafe
<1>8. QED
  BY <1>4, <1>6, <1>7

(* Nothing is covered when no request has been made.                       *)
LEMMA DeliveryInit == Init => Delivery!Init
<1> SUFFICES ASSUME Init PROVE Delivery!Init
  OBVIOUS
<1>1. received = {} /\ missed = {}
  BY DEF Init
<1>2. ASSUME NEW c \in Available(access) PROVE 1..SafeSequence(ResumeFrom(c)) = {}
  <2>1. access[c] = 1
    BY DEF Init, Available
  <2>2. SafeSequence(ResumeFrom(c)) = From(ClientId, 1)
    BY <2>1 DEF ResumeFrom, From, ClientId
  <2>3. From(ClientId, 1) = 0
    BY InitialId
  <2>4. QED
    BY <2>2, <2>3
<1>3. Covered = {}
  BY <1>2 DEF Covered
<1>4. QED
  BY <1>1, <1>3 DEF Delivery!Init, Covered

(* A step sends one entry, or nothing.                                     *)
LEMMA StepSends ==
    ASSUME FeedInv, [Next]_vars
    PROVE  /\ missed \subseteq missed'
           /\ \/ received' = received
              \/ WorldStays /\ \E s \in received' : received' = received \cup {s}
<1>1. CASE SendEntry
  <2>1. /\ WorldStays
        /\ \E min \in feed.batch :
              \/ received' = received /\ missed' = missed
              \/ /\ received' = received \cup {min.seq}
                 /\ missed' = missed \cup UnseenGrant(WithLow(min, feed.low))
                                  \cup CutOffByBackfill(WithLow(min, feed.low))
    BY <1>1, SendCases
  <2>2. QED
    BY <2>1, ZenonT(30)
<1>2. CASE BeginIteration
  BY <1>2 DEF BeginIteration, client
<1>3. ASSUME NEW k \in 1..MaxSeq, NEW C \in ChannelSets, AddToCache(k, C) \/ AddLate(k, C)
      PROVE  missed \subseteq missed' /\ received' = received
  BY <1>3 DEF AddToCache, AddLate, client
<1>4. CASE FinishLate \/ (\E s \in 1..MaxSeq : Abandon(s)) \/ (\E g \in 1..MaxSeq : Grant(g))
  BY <1>4 DEF FinishLate, Abandon, Grant, client
<1>5. CASE Revoke \/ (\E mode \in Modes : StartFeed(mode)) \/ Disconnect
  BY <1>5, ZenonT(30) DEF Revoke, StartFeed, Disconnect, client
<1>6. CASE (\E c \in Channels : ReadChannel(c)) \/ GetLateFeed \/ NewLateSequenceFeed
  BY <1>6, ZenonT(30) DEF ReadChannel, GetLateFeed, NewLateSequenceFeed, client
<1>7. CASE EndRequest \/ (\E reload \in BOOLEAN : Wake(reload))
  BY <1>7 DEF EndRequest, Wake, client
<1>8. CASE UNCHANGED vars
  BY <1>8 DEF vars, client
<1>9. QED
  BY <1>1, <1>2, <1>3, <1>4, <1>5, <1>6, <1>7, <1>8 DEF Next, FeedStep

(* Every step is one of the abstract specification.                        *)
LEMMA DeliveryStep ==
    FeedInv /\ [Next]_vars /\ Dealt' => Delivery!Next
<1> SUFFICES ASSUME FeedInv, [Next]_vars, Dealt' PROVE Delivery!Next
  OBVIOUS
<1>1. /\ missed \subseteq missed'
      /\ \/ received' = received
         \/ WorldStays /\ \E s \in received' : received' = received \cup {s}
  BY StepSends
<1>2. Delivery!Settled(Due', Covered', received', missed')
  BY DEF Dealt
<1>3. CASE received' = received
  <2>1. Delivery!Settled(Due', Covered', received, missed')
    BY <1>2, <1>3
  <2>2. Delivery!ChangeDue
    BY <1>1, <1>3, <2>1 DEF Delivery!ChangeDue, Due, Covered
  <2>3. QED
    BY <2>2 DEF Delivery!Next
<1>4. CASE WorldStays /\ \E s \in received' : received' = received \cup {s}
  <2>1. Due' = Due
    BY <1>4 DEF Due, WorldStays, Available
  <2>2. Delivery!Settled(Due, Covered', received', missed')
    BY <1>2, <2>1
  <2>3. Delivery!Deliver
    BY <1>1, <1>4, <2>1, <2>2 DEF Delivery!Deliver, Due, Covered
  <2>4. QED
    BY <2>3 DEF Delivery!Next
<1>5. QED
  BY <1>1, <1>3, <1>4

(* The feed, with its cache, its late logs and the requests of its client, *)
(* implements at-least-once delivery: every step is one the abstract       *)
(* specification allows.                                                   *)
THEOREM FeedImplementsDelivery == Spec => ImplementsDelivery
<1>1. FeedInv /\ [Next]_vars /\ Dealt' => Delivery!Next
  BY DeliveryStep
<1>2. Init => Delivery!Init
  BY DeliveryInit
<1>3. FeedInv => Dealt
  BY InvariantSettles
<1>4. QED
  BY <1>1, <1>2, <1>3, FeedInvariant, PTL DEF Spec, ImplementsDelivery, Delivery!Spec

=============================================================================
