---------------------------- MODULE IndexStorage ----------------------------
(***************************************************************************)
(* Storage of the Accel channel index, for one channel and one partition:  *)
(* blocks of entries (db/kv_dense_block.go), the list of blocks and its    *)
(* rotation (db/kv_dense_channel_storage.go), and the reader with its      *)
(* cache of the last two blocks (db/kv_dense_channel_storage_reader.go).   *)
(*                                                                         *)
(* The loop that calls the write operations is the index writer, another   *)
(* program: a writer takes mutations of its vbuckets from the feed,        *)
(* appends them to the active block, removes what they replace from older  *)
(* blocks, and then moves the channel clock.  Writers may overlap while    *)
(* partitions are reassigned, and may die between any two writes.          *)
(***************************************************************************)
EXTENDS VbClock, Sequences, SequencesExt, FiniteSets

CONSTANTS
    Docs,               \* documents, each a pair <<vbucket, name>>
    Writers,
    EntrySize,          \* the size of a document's entry
    MaxBlockSize,       \* a block is full when its entries are larger
    MaxListBlockCount,  \* a longer active list is rotated out
    MaxMutations,       \* bound on the mutations of the channel
    MaxBatch,           \* largest set of entries written at once
    MaxCrashes,         \* bound on the writers that die
    MaxListWrites,      \* bound on the writes of the active list
    SinceClocks,        \* since values of the changes requests
    Limits              \* their limits (0: none)

ASSUME IndexAssumption ==
    /\ \A d \in Docs : d[1] \in Vbs
    /\ {MaxBlockSize, MaxListBlockCount, MaxMutations, MaxCrashes,
        MaxListWrites} \subseteq Nat
    /\ MaxBatch \in Nat \ {0}
    /\ EntrySize \in [Docs -> Nat]
    /\ SinceClocks \subseteq [Vbs -> Nat]
    /\ Limits \subseteq Nat

VARIABLES
    log,        \* the channel's mutations, per vbucket
    blockDoc,   \* stored blocks, by block index
    listDoc,    \* the active block list document
    rotated,    \* the rotated block list documents, oldest first
    truncated,  \* history: a list reloaded after its start index moved was
                \* written, without the blocks before that index
    clock,      \* the channel clock
    writer,     \* state of each writer
    crashes,
    reader,     \* the partition storage reader with its cache
    request     \* the changes request in progress

bucketVars == <<blockDoc, listDoc, rotated, truncated, clock>>
vars == <<log, bucketVars, writer, crashes, reader, request>>

VbOf(d) == d[1]

Mutations == LET sum[S \in SUBSET Vbs] ==
                     IF S = {} THEN 0
                     ELSE LET v == CHOOSE x \in S : TRUE
                          IN  Len(log[v]) + sum[S \ {v}]
             IN  sum[Vbs]

(* LogEntry: prev is PrevSequence, 0 when unknown; added is the Added      *)
(* flag.                                                                   *)
Entry(v, s) ==
    [vb |-> v, seq |-> s, doc |-> log[v][s].doc, prev |-> log[v][s].prev,
     added |-> log[v][s].added, purge |-> log[v][s].purge]

----------------------------------------------------------------------------
(* Blocks                                                                  *)

NewDenseBlock(i, start) ==
    [index |-> i, start |-> start, cas |-> 0, entries |-> <<>>,
     clock |-> start]

(* Mutant: the sequence of the last entry is taken for every vbucket.      *)
InitClockOfLast(start, entries) ==
    [v \in Vbs |-> IF entries = <<>> THEN start[v] ELSE Last(entries).seq]

(* initClock: the last sequence of each vbucket in the block, from the     *)
(* start clock on.                                                         *)
InitClock(start, entries) ==
    [v \in Vbs |->
        LET of == {i \in DOMAIN entries : entries[i].vb = v}
        IN  IF of = {} THEN start[v]
            ELSE entries[CHOOSE i \in of : \A j \in of : j <= i].seq]

(* LoadBlock: a block that was never written is left as a new block.       *)
LoadBlock(e) ==
    IF blockDoc[e.index].cas = 0
    THEN NewDenseBlock(e.index, e.start)
    ELSE [NewDenseBlock(e.index, e.start) EXCEPT
             !.cas = blockDoc[e.index].cas,
             !.entries = blockDoc[e.index].entries,
             !.clock = InitClock(e.start, blockDoc[e.index].entries)]

(* getCumulativeClock: the start clock, updated with the block's entries.  *)
CumulativeClock(block) == block.clock

Full(entries) ==
    FoldLeft(LAMBDA size, e : size + EntrySize[e.doc], 0, entries) > MaxBlockSize

(* findEntry: by vbucket and sequence.                                     *)
FindEntry(block, v, s) ==
    {i \in DOMAIN block.entries :
        /\ block.start[v] < s
        /\ block.entries[i].vb = v /\ block.entries[i].seq = s}

(* findEntryByKey: the first entry of the document.                        *)
FindEntryByKey(block, d) ==
    {i \in DOMAIN block.entries :
        /\ block.entries[i].doc = d
        /\ \A j \in 1..(i - 1) : block.entries[j].doc # d}

(* findLogEntry: the entry that e replaces, as a set of at most one.       *)
FindLogEntry(block, e) ==
    IF e.prev # 0 THEN FindEntry(block, e.vb, e.prev)
    ELSE {i \in FindEntryByKey(block, e.doc) : block.entries[i].seq # e.seq}

Without(entries, S) ==
    [k \in 1..(Len(entries) - Cardinality(S)) |->
        entries[IF \E i \in S : i <= k THEN k + 1 ELSE k]]

Stored(e) == [vb |-> e.vb, seq |-> e.seq, doc |-> e.doc]

(* addEntry.  A sequence the block's clock has reached was written by      *)
(* another writer; an entry whose predecessor is not in this block is left *)
(* for removal from the older ones.                                        *)
AddEntry(acc, e) ==
    LET old == FindLogEntry(acc.block, e)
        rest == Without(acc.block.entries, old)
    IN  IF e.purge
        THEN IF old = {} THEN [acc EXCEPT !.removal = Append(@, e)]
             ELSE [acc EXCEPT !.block.entries = rest, !.changed = TRUE]
        ELSE IF e.seq <= acc.block.clock[e.vb] THEN acc
        ELSE [acc EXCEPT
                !.block.entries = Append(IF e.added THEN @ ELSE rest, Stored(e)),
                !.block.clock[e.vb] = e.seq,
                !.removal = IF e.added \/ old # {} THEN @ ELSE Append(@, e),
                !.changed = TRUE]

(* addEntries: what does not fit is returned as overflow; the clock        *)
(* covers the entries that were looked at, except purges.                  *)
AddEntries(block, batch) ==
    LET step(acc, e) ==
            IF acc.overflow # <<>> \/ Full(acc.block.entries)
            THEN [acc EXCEPT !.overflow = Append(@, e)]
            ELSE LET added == AddEntry(acc, e)
                 IN  IF e.purge THEN added
                     ELSE [added EXCEPT !.update[e.vb] = e.seq]
    IN  FoldLeft(step, [block |-> block, overflow |-> <<>>, removal |-> <<>>,
                        update |-> ZeroClock, changed |-> FALSE], batch)

(* removeEntries: the entries of the block that are left, and the removals *)
(* that found nothing.                                                     *)
RemoveEntries(block, removal) ==
    LET step(acc, e) ==
            LET old == FindLogEntry(acc.block, e)
            IN  IF old = {} THEN [acc EXCEPT !.pending = Append(@, e)]
                ELSE [acc EXCEPT !.block.entries = Without(@, old)]
    IN  FoldLeft(step, [block |-> block, pending |-> <<>>], removal)

----------------------------------------------------------------------------
(* Block lists                                                             *)

NewList == [blocks |-> <<>>, cas |-> 0, startIndex |-> 0, counter |-> 0,
            from |-> 0, reloaded |-> FALSE]

(* loadDenseBlockList, of an existing list: activeStartIndex is kept.      *)
(* (reloaded is not in the code: it records a start index that is wrong    *)
(* for the blocks.)                                                        *)
Loaded(list) ==
    [list EXCEPT !.blocks = listDoc.blocks, !.cas = listDoc.cas,
                 !.reloaded = @ \/ list.startIndex # 0,
                 !.counter = listDoc.counter, !.from = listDoc.counter]

(* loadActiveBlock                                                         *)
ActiveBlock(list) ==
    IF list.blocks = <<>> THEN NewDenseBlock(0, ZeroClock)
    ELSE LoadBlock(Last(list.blocks))

(* marshalAsStorage: the blocks of the active list document.               *)
Marshalled(list) ==
    SubSeq(list.blocks, list.startIndex + 1, Len(list.blocks))

(* The CAS of a rotated list document differs from every CAS of the active *)
(* one.                                                                    *)
RotatedCas == 0

CanLoadPrevious(list) == list.from > 0 /\ list.from <= Len(rotated)

(* LoadPrevious: activeCas becomes that of the rotated document.           *)
WithPrevious(list) ==
    LET older == rotated[list.from]
    IN  [list EXCEPT !.blocks = older \o @, !.startIndex = @ + Len(older),
                     !.from = @ - 1, !.cas = RotatedCas]

ValidFrom(list) ==
    IF list.blocks = <<>> THEN ZeroClock ELSE Head(list.blocks).start

Position(list, i) == {p \in DOMAIN list.blocks : list.blocks[p].index = i}

----------------------------------------------------------------------------
(* The channel's mutations                                                 *)

LastSeq(v, d) ==
    LET of == {s \in DOMAIN log[v] : log[v][s].doc = d}
    IN  IF of = {} THEN 0 ELSE CHOOSE s \in of : \A t \in of : t <= s

(* The document is in the channel.                                         *)
InChannel(d) ==
    LET s == LastSeq(VbOf(d), d) IN s > 0 /\ ~log[VbOf(d)][s].purge

(* A mutation only matters when a writer takes it: it waits until none is  *)
(* busy, which leaves out no behaviour of the index.                       *)
Mutate(d, purge, prevKnown) ==
    /\ Mutations < MaxMutations
    /\ \A w \in Writers : writer[w].pc \in {"down", "idle"}
    /\ purge \/ prevKnown => InChannel(d)
    /\ log' = [log EXCEPT ![VbOf(d)] = Append(@,
                  [doc |-> d, purge |-> purge, added |-> ~InChannel(d),
                   prev |-> IF prevKnown THEN LastSeq(VbOf(d), d) ELSE 0])]
    /\ UNCHANGED <<bucketVars, writer, crashes, reader, request>>

----------------------------------------------------------------------------
(* Writers                                                                 *)

Down == [pc |-> "down", list |-> NewList,
         block |-> NewDenseBlock(0, ZeroClock),
         next |-> [index |-> 0, start |-> ZeroClock],
         pos |-> ZeroClock, batch |-> <<>>, removal |-> <<>>,
         cursor |-> 0, update |-> ZeroClock]

Reloaded(wr) ==
    [wr EXCEPT !.list = Loaded(wr.list), !.block = ActiveBlock(Loaded(wr.list))]

(* NewDenseBlockList; the feed starts at the channel clock.  A list that   *)
(* is not found is created with its first block.                           *)
StartWriter(w) ==
    /\ writer[w].pc = "down"
    /\ writer' = [writer EXCEPT ![w] =
          IF listDoc.cas = 0 THEN [Down EXCEPT !.pc = "persist", !.pos = clock]
          ELSE [Reloaded(Down) EXCEPT !.pc = "idle", !.pos = clock]]
    /\ UNCHANGED <<log, bucketVars, crashes, reader, request>>

(* The writer takes the next mutations of a vbucket.                       *)
TakeBatch(w, v, n) ==
    /\ writer[w].pc = "idle"
    /\ writer[w].pos[v] + n <= Len(log[v])
    /\ writer' = [writer EXCEPT
          ![w].pc = "add",
          ![w].batch = [k \in 1..n |-> Entry(v, writer[w].pos[v] + k)],
          ![w].pos[v] = @ + n]
    /\ UNCHANGED <<log, bucketVars, crashes, reader, request>>

(* What is left to do once a set was added, with its removals.             *)
Continue(wr) ==
    [wr EXCEPT !.pc = IF wr.removal # <<>> THEN "remove"
                      ELSE IF wr.batch # <<>> THEN "add" ELSE "clock"]

(* AddEntrySet on the active block: if it is full a block is added first   *)
(* (AddBlock: the next block starts where this one ends).  A failed write  *)
(* makes the writer reload the list and its active block.                  *)
AddEntrySet(w) ==
    /\ writer[w].pc = "add"
    /\ LET wr == writer[w]
           r  == AddEntries(wr.block, wr.batch)
           i  == wr.block.index
           done == [wr EXCEPT !.block = r.block, !.batch = r.overflow,
                              !.removal = r.removal, !.cursor = i,
                              !.update = UpdateWithClock(@, r.update)]
       IN  IF Full(wr.block.entries)
           THEN /\ writer' = [writer EXCEPT
                      ![w].pc = IF Len(wr.list.blocks) >
                                   wr.list.startIndex + MaxListBlockCount
                                THEN "rotate" ELSE "persist",
                      ![w].next = [index |-> IF wr.list.blocks = <<>> THEN 0
                                             ELSE Last(wr.list.blocks).index + 1,
                                   start |-> CumulativeClock(wr.block)]]
                /\ UNCHANGED blockDoc
           ELSE IF ~r.changed
           THEN /\ writer' = [writer EXCEPT ![w] = Continue(done)]
                /\ UNCHANGED blockDoc
           ELSE IF blockDoc[i].cas = wr.block.cas
           THEN /\ blockDoc' = [blockDoc EXCEPT
                      ![i] = [cas |-> @.cas + 1, entries |-> r.block.entries]]
                /\ writer' = [writer EXCEPT
                      ![w] = Continue([done EXCEPT !.block.cas = @ + 1])]
           ELSE /\ writer' = [writer EXCEPT ![w] = Reloaded(wr)]
                /\ UNCHANGED blockDoc
    /\ UNCHANGED <<log, listDoc, rotated, truncated, clock, crashes, reader, request>>

(* rotate, first write: the active blocks go to a numbered list document,  *)
(* unless another writer has done so.                                      *)
RotateOut(w) ==
    /\ writer[w].pc = "rotate"
    /\ LET list == writer[w].list
       IN  /\ rotated' = IF list.counter < Len(rotated) THEN rotated
                         ELSE Append(rotated, Marshalled(list))
           /\ truncated' = (truncated \/ list.reloaded)
           /\ writer' = [writer EXCEPT ![w].pc = "empty",
                             ![w].list.counter = @ + 1,
                             ![w].list.startIndex = Len(list.blocks)]
    /\ UNCHANGED <<log, blockDoc, listDoc, clock, crashes, reader, request>>

(* rotate, second write: the active list document is emptied.              *)
EmptyActive(w) ==
    /\ writer[w].pc = "empty"
    /\ listDoc.cas < MaxListWrites
    /\ LET list == writer[w].list
       IN  IF listDoc.cas = list.cas
           THEN /\ listDoc' = [cas |-> listDoc.cas + 1, counter |-> list.counter,
                               blocks |-> Marshalled(list)]
                /\ truncated' = (truncated \/ list.reloaded)
                /\ writer' = [writer EXCEPT ![w].pc = "persist",
                                            ![w].list.cas = listDoc.cas + 1]
           ELSE /\ writer' = [writer EXCEPT ![w] =
                                [Reloaded(@) EXCEPT !.pc = "persist"]]
                /\ UNCHANGED <<listDoc, truncated>>
    /\ UNCHANGED <<log, blockDoc, rotated, clock, crashes, reader, request>>

(* AddBlock, last write: the list with the new block.  After a CAS error   *)
(* the writer takes the active block of the list it finds.                 *)
PersistList(w) ==
    /\ writer[w].pc = "persist"
    /\ listDoc.cas < MaxListWrites
    /\ LET wr   == writer[w]
           list == [wr.list EXCEPT !.blocks = Append(@, wr.next)]
           pc   == IF wr.batch = <<>> THEN "idle" ELSE "add"
       IN  IF listDoc.cas = list.cas
           THEN /\ listDoc' = [cas |-> listDoc.cas + 1, counter |-> list.counter,
                               blocks |-> Marshalled(list)]
                /\ truncated' = (truncated \/ list.reloaded)
                /\ writer' = [writer EXCEPT ![w] =
                      [wr EXCEPT !.pc = pc,
                                 !.list = [list EXCEPT !.cas = @ + 1],
                                 !.block = NewDenseBlock(wr.next.index,
                                                         wr.next.start),
                                 !.next = Down.next]]
           ELSE /\ writer' = [writer EXCEPT ![w] =
                      [Reloaded(wr) EXCEPT !.pc = pc, !.next = Down.next]]
                /\ UNCHANGED <<listDoc, truncated>>
    /\ UNCHANGED <<log, blockDoc, rotated, clock, crashes, reader, request>>

(* PreviousBlock and RemoveEntrySet: the replaced entries are removed from *)
(* the block before, whose write is repeated until it succeeds; earlier    *)
(* list documents are loaded when the list ends.                           *)
RemoveEntrySet(w) ==
    /\ writer[w].pc = "remove"
    /\ LET wr  == writer[w]
           at  == Position(wr.list, wr.cursor)
           p   == CHOOSE q \in at : \A r \in at : q <= r
           older == wr.list.blocks[p - 1]
           r   == RemoveEntries(LoadBlock(older), wr.removal)
       IN  IF at = {} \/ (p = 1 /\ ~CanLoadPrevious(wr.list))
           THEN /\ writer' = [writer EXCEPT
                      ![w] = Continue([wr EXCEPT !.removal = <<>>])]
                /\ UNCHANGED blockDoc
           ELSE IF p = 1
           THEN /\ writer' = [writer EXCEPT ![w].list = WithPrevious(@)]
                /\ UNCHANGED blockDoc
           ELSE /\ writer' = [writer EXCEPT
                      ![w] = Continue([wr EXCEPT !.removal = r.pending,
                                                 !.cursor = older.index])]
                /\ blockDoc' = IF Len(r.pending) = Len(wr.removal) THEN blockDoc
                               ELSE [blockDoc EXCEPT ![older.index] =
                                       [cas |-> @.cas + 1,
                                        entries |-> r.block.entries]]
    /\ UNCHANGED <<log, listDoc, rotated, truncated, clock, crashes, reader, request>>

(* The channel clock is moved.                                             *)
WriteClock(w) ==
    /\ writer[w].pc = "clock"
    /\ clock' = UpdateWithClock(clock, writer[w].update)
    /\ writer' = [writer EXCEPT ![w].pc = "idle", ![w].cursor = 0,
                                ![w].update = ZeroClock]
    /\ UNCHANGED <<log, blockDoc, listDoc, rotated, truncated, crashes, reader, request>>

Crash(w) ==
    /\ writer[w].pc # "down"
    /\ crashes < MaxCrashes
    /\ crashes' = crashes + 1
    /\ writer' = [writer EXCEPT ![w] = Down]
    /\ UNCHANGED <<log, bucketVars, reader, request>>

----------------------------------------------------------------------------
(* The partition storage reader's cache: the active block and the one      *)
(* before it (kCachedBlocksPerShard = 2).  UpdateCache holds pr.lock.      *)

(* The channel index is created, loading the channel clock, and polled     *)
(* for the first time: that clock is the last polled one.                  *)
StartPolling ==
    /\ reader.pc = "none"
    /\ reader' = [reader EXCEPT !.pc = "free", !.polled = clock]
    /\ UNCHANGED <<log, bucketVars, writer, crashes, request>>

(* pollForChanges: the channel clock has moved since the last poll.  The   *)
(* poll holds lastPolledLock to its end.                                   *)
PollForChanges ==
    /\ reader.pc = "free"
    /\ Changed(reader.polled, clock) # {}
    /\ reader' = [reader EXCEPT !.pc = "poll", !.target = clock]
    /\ UNCHANGED <<log, bucketVars, writer, crashes, request>>

(* UpdateCache: the list is loaded; without one the poll fails.            *)
ReaderLoadList ==
    /\ reader.pc = "poll"
    /\ reader' = IF listDoc.cas = 0 THEN [reader EXCEPT !.pc = "free"]
                 ELSE [reader EXCEPT !.pc = "list", !.loaded = TRUE,
                                     !.list = Loaded(@)]
    /\ UNCHANGED <<log, bucketVars, writer, crashes, request>>

(* Earlier list documents are loaded until there are two blocks; with none *)
(* at all UpdateCache fails.  A reader never writes its list: the start    *)
(* index, which grows with every poll, is left out.                        *)
ReaderExtendList ==
    /\ reader.pc = "list"
    /\ reader' = IF Len(reader.list.blocks) < 2 /\ CanLoadPrevious(reader.list)
                 THEN [reader EXCEPT
                          !.list = [WithPrevious(@) EXCEPT !.startIndex = 0]]
                 ELSE [reader EXCEPT !.pc = IF reader.list.blocks = <<>>
                                            THEN "free" ELSE "active"]
    /\ UNCHANGED <<log, bucketVars, writer, crashes, request>>

Cache(cache, i) == [cache EXCEPT ![i] = <<blockDoc[i].entries>>]

(* The active block is loaded; UpdateCache fails if it does not exist yet. *)
ReaderLoadActive ==
    /\ reader.pc = "active"
    /\ LET active == Last(reader.list.blocks)
       IN  reader' = IF blockDoc[active.index].cas = 0
                     THEN [reader EXCEPT !.pc = "free"]
                     ELSE [reader EXCEPT !.pc = "older",
                              !.cache = Cache(@, active.index),
                              !.validFrom = active.start]
    /\ UNCHANGED <<log, bucketVars, writer, crashes, request>>

(* Mutant: a cached older block is never loaded again.                     *)
ReaderLoadOlderOnce ==
    /\ reader.pc = "older"
    /\ LET n == Len(reader.list.blocks)
           older == reader.list.blocks[n - 1]
           active == reader.list.blocks[n].index
       IN  reader' = IF n < 2
                     THEN [reader EXCEPT !.pc = "free", !.active = active,
                              !.polled = reader.target]
                     ELSE [reader EXCEPT !.pc = "free", !.active = active,
                              !.polled = reader.target,
                              !.cache = IF @[older.index] # <<>> THEN @
                                        ELSE Cache(@, older.index),
                              !.validFrom = older.start]
    /\ UNCHANGED <<log, bucketVars, writer, crashes, request>>

(* The block before it is loaded if it is not cached, was the active block *)
(* of the cache, or was found to be stale; other blocks leave the cache.   *)
(* The poll ends: the clock it began with is the last polled one.          *)
ReaderLoadOlder ==
    /\ reader.pc = "older"
    /\ LET n      == Len(reader.list.blocks)
           active == reader.list.blocks[n].index
           older  == reader.list.blocks[n - 1]
           stale  == older.index \in reader.pendingReload \cup {reader.active}
           keep   == IF n < 2 THEN {active} ELSE {active, older.index}
           load   == n >= 2 /\ blockDoc[older.index].cas # 0
                        /\ (reader.cache[older.index] = <<>> \/ stale)
           cache  == IF load THEN Cache(reader.cache, older.index)
                     ELSE reader.cache
       IN  reader' = [reader EXCEPT
              !.pc = "free", !.active = active, !.polled = reader.target,
              !.cache = [i \in DOMAIN cache |->
                            IF i \in keep THEN cache[i] ELSE <<>>],
              !.validFrom = IF n < 2 THEN @ ELSE older.start,
              !.pendingReload = IF n < 2 THEN @ ELSE @ \ {older.index}]
    /\ UNCHANGED <<log, bucketVars, writer, crashes, request>>

----------------------------------------------------------------------------
(* Changes requests                                                        *)

Idle == [pc |-> "idle", since |-> ZeroClock, to |-> ZeroClock, limit |-> 0,
         list |-> NewList, read |-> <<>>, result |-> <<>>]

(* The entries of one block in the range.                                  *)
InRange(entries) ==
    SelectSeq(entries, LAMBDA e : Within(request.since, request.to, e.vb, e.seq))

(* The first block to read: reading goes backwards and stops at a block    *)
(* that starts before the since values.                                    *)
FirstBlock(blocks) ==
    LET before == {p \in DOMAIN blocks :
                      SinceAfter(request.since, request.to, blocks[p].start)}
    IN  IF before = {} THEN 1 ELSE CHOOSE p \in before : \A q \in before : q <= p

(* Deduplication: of the blocks' entries (oldest block first) an entry is  *)
(* dropped if its document is in a later block or earlier in its own.      *)
Duplicate(blocks, p, k) ==
    \/ \E q \in (p + 1)..Len(blocks) :
            \E l \in DOMAIN blocks[q] : blocks[q][l].doc = blocks[p][k].doc
    \/ \E l \in 1..(k - 1) : blocks[p][l].doc = blocks[p][k].doc

Deduplicated(blocks) ==
    LET kept(p) == LET ks == SelectSeq([k \in DOMAIN blocks[p] |-> k],
                                       LAMBDA k : ~Duplicate(blocks, p, k))
                   IN  [i \in DOMAIN ks |-> blocks[p][ks[i]]]
    IN  FlattenSeq([p \in DOMAIN blocks |-> kept(p)])

(* Blocks in which a duplicate is found.                                   *)
Stale(blocks) ==
    {p \in DOMAIN blocks : \E k \in DOMAIN blocks[p] : Duplicate(blocks, p, k)}

(* DenseStorageReader.GetChanges: the changes by vbucket, until there are  *)
(* more than the limit.                                                    *)
ByVbucket(changes) ==
    LET of(v) == SelectSeq(changes, LAMBDA e : e.vb = v)
        upTo(v) == Len(SelectSeq(changes, LAMBDA e : e.vb < v))
        sent(v) == request.limit = 0 \/ upTo(v) <= request.limit
        vbs == SetToSortSeq({v \in Changed(request.since, request.to) : sent(v)},
                            <)
    IN  FlattenSeq([k \in DOMAIN vbs |-> of(vbs[k])])

(* getChannelClock: the last polled clock, or the stored one before the    *)
(* channel is polled.                                                      *)
ChannelClock == IF reader.pc = "none" THEN clock ELSE reader.polled

(* A request for the changes from since up to the channel clock.           *)
GetChanges(since, limit) ==
    /\ request.pc = "idle"
    /\ reader.pc \in {"none", "free"}
    /\ Changed(since, ChannelClock) # {}
    /\ request' = [Idle EXCEPT !.pc = "cached", !.since = since,
                               !.to = ChannelClock, !.limit = limit]
    /\ UNCHANGED <<log, bucketVars, writer, crashes, reader>>

(* getCachedChanges, under pr.lock: usable if the cache reaches back to    *)
(* the since values and holds the blocks; duplicates mark their block for  *)
(* a reload.                                                               *)
GetCachedChanges ==
    /\ request.pc = "cached"
    /\ reader.pc \in {"none", "free", "poll"}
    /\ LET blocks == reader.list.blocks
           needed == SubSeq(blocks, FirstBlock(blocks), Len(blocks))
           hit    == /\ reader.loaded
                     /\ ~SinceBefore(request.since, request.to, reader.validFrom)
                     /\ \A p \in DOMAIN needed :
                            reader.cache[needed[p].index] # <<>>
           found  == [p \in DOMAIN needed |->
                        InRange(reader.cache[needed[p].index][1])]
       IN  IF hit
           THEN /\ request' = [request EXCEPT !.pc = "done",
                                   !.list = [reader.list EXCEPT !.cas = 0],
                                   !.result = ByVbucket(Deduplicated(found))]
                /\ reader' = [reader EXCEPT !.pendingReload =
                                 @ \cup {needed[p].index : p \in Stale(found)}]
           ELSE /\ request' = [request EXCEPT !.pc = "list"]
                /\ UNCHANGED reader
    /\ UNCHANGED <<log, bucketVars, writer, crashes>>

(* getIndexedChanges: the list is loaded.                                  *)
IndexedLoadList ==
    /\ request.pc = "list"
    /\ request' = [request EXCEPT !.pc = "populate", !.list = Loaded(NewList)]
    /\ UNCHANGED <<log, bucketVars, writer, crashes, reader>>

(* populateForRange, then the blocks from the newest on.                   *)
IndexedPopulate ==
    /\ request.pc = "populate"
    /\ LET blocks == request.list.blocks
       IN  request' =
              IF SinceBefore(request.since, request.to, ValidFrom(request.list))
              THEN IF CanLoadPrevious(request.list)
                   THEN [request EXCEPT !.list = WithPrevious(@)]
                   ELSE [request EXCEPT !.pc = "error"]
              ELSE IF blocks = <<>> THEN [request EXCEPT !.pc = "done"]
              ELSE [request EXCEPT !.pc = "read"]
    /\ UNCHANGED <<log, bucketVars, writer, crashes, reader>>

(* The next older block is read; one that is not stored fails the request. *)
IndexedReadBlock ==
    /\ request.pc = "read"
    /\ LET blocks == request.list.blocks
           p      == Len(blocks) - Len(request.read)
           read   == <<InRange(blockDoc[blocks[p].index].entries)>>
                        \o request.read
       IN  request' =
              IF blockDoc[blocks[p].index].cas = 0
              THEN [request EXCEPT !.pc = "error"]
              ELSE IF p = FirstBlock(blocks)
              THEN [request EXCEPT !.pc = "done", !.read = <<>>,
                                   !.result = ByVbucket(Deduplicated(read))]
              ELSE [request EXCEPT !.read = read]
    /\ UNCHANGED <<log, bucketVars, writer, crashes, reader>>

EndRequest ==
    /\ request.pc \in {"done", "error"}
    /\ request' = Idle
    /\ UNCHANGED <<log, bucketVars, writer, crashes, reader>>

----------------------------------------------------------------------------

BlockIndexes == 0..(MaxMutations + MaxCrashes)

Clocks == [Vbs -> 0..MaxMutations]

Init ==
    /\ log = [v \in Vbs |-> <<>>]
    /\ blockDoc = [i \in BlockIndexes |-> [cas |-> 0, entries |-> <<>>]]
    /\ listDoc = [cas |-> 0, counter |-> 0, blocks |-> <<>>]
    /\ rotated = <<>>
    /\ truncated = FALSE
    /\ clock = ZeroClock
    /\ writer = [w \in Writers |-> Down]
    /\ crashes = 0
    /\ reader = [pc |-> "none", loaded |-> FALSE, list |-> NewList,
                 polled |-> ZeroClock, target |-> ZeroClock,
                 cache |-> [i \in BlockIndexes |-> <<>>],
                 validFrom |-> ZeroClock, active |-> MaxMutations + MaxCrashes + 1,
                 pendingReload |-> {}]
    /\ request = Idle

WriterStep(w) ==
    \/ StartWriter(w)
    \/ \E v \in Vbs, n \in 1..MaxBatch : TakeBatch(w, v, n)
    \/ AddEntrySet(w) \/ RotateOut(w) \/ EmptyActive(w) \/ PersistList(w)
    \/ RemoveEntrySet(w) \/ WriteClock(w)

UpdateCache ==
    StartPolling \/ PollForChanges
    \/ ReaderLoadList \/ ReaderExtendList \/ ReaderLoadActive \/ ReaderLoadOlder

Request ==
    \/ \E since \in SinceClocks, limit \in Limits :
            AllAfter(ChannelClock, since) /\ GetChanges(since, limit)
    \/ GetCachedChanges \/ IndexedLoadList \/ IndexedPopulate
    \/ IndexedReadBlock \/ EndRequest

Next ==
    \/ \E d \in Docs, purge \in BOOLEAN, prevKnown \in BOOLEAN :
            Mutate(d, purge, prevKnown)
    \/ \E w \in Writers : WriterStep(w) \/ Crash(w)
    \/ UpdateCache
    \/ Request

Spec == Init /\ [][Next]_vars

----------------------------------------------------------------------------
(* Properties                                                              *)

StoredEntry == [vb : Vbs, seq : Nat, doc : Docs]
ListEntry == [index : BlockIndexes, start : Clocks]

(* The documents have the shape the code gives them, and the channel clock *)
(* never runs ahead of the channel's mutations.                            *)
TypeOK ==
    /\ blockDoc \in [BlockIndexes -> [cas : Nat, entries : Seq(StoredEntry)]]
    /\ listDoc \in [cas : Nat, counter : Nat, blocks : Seq(ListEntry)]
    /\ rotated \in Seq(Seq(ListEntry))
    /\ clock \in Clocks
    /\ AllAfter([v \in Vbs |-> Len(log[v])], clock)
    /\ crashes \in 0..MaxCrashes

(* The readers' deduplication relies on it: "Writers guarantee no          *)
(* duplicates within a given block", also when a set of entries is written *)
(* again after a crash.                                                    *)
NoDuplicatesInBlock ==
    \A i \in BlockIndexes : LET es == blockDoc[i].entries IN
        \A k, l \in DOMAIN es : es[k].doc = es[l].doc => k = l

(* Every listed block, the rotated ones first.  Until the active list is   *)
(* emptied the last rotated document repeats it.                           *)
AllBlocks ==
    FlattenSeq(SubSeq(rotated, 1, listDoc.counter)) \o listDoc.blocks

(* Every block with entries can be found from the active list document,    *)
(* through rotations and crashes between their writes, unless a list that  *)
(* kept an old start index over a reload was written.                      *)
BlocksListed ==
    ~truncated => \A i \in BlockIndexes : blockDoc[i].entries # <<>> =>
        \E p \in DOMAIN AllBlocks : AllBlocks[p].index = i

(* A block's entries are later than its start clock and not later than the *)
(* start clocks of the blocks after it: what lets a reader stop at a block *)
(* that starts before its since value.                                     *)
StartClockSeparates ==
    ~truncated => \A p \in DOMAIN AllBlocks : LET es == blockDoc[AllBlocks[p].index].entries IN
        \A k \in DOMAIN es :
            /\ AllBlocks[p].start[es[k].vb] < es[k].seq
            /\ \A q \in (p + 1)..Len(AllBlocks) :
                  es[k].seq <= AllBlocks[q].start[es[k].vb]

Latest(v, s) == s = LastSeq(v, log[v][s].doc) /\ ~log[v][s].purge

(* A purge that looks its entry up by key may be repeated after a restart, *)
(* when the document has been added again.                                 *)
PurgedByKey(v, s) ==
    /\ crashes > 0
    /\ \E t \in 1..(s - 1) :
          log[v][t].doc = log[v][s].doc /\ log[v][t].purge /\ log[v][t].prev = 0

(* What the channel clock announces is stored: the current entry of every  *)
(* document up to the clock is in a block, whatever crash came between the *)
(* append, the removal of the entry it replaces and the clock.             *)
Announced ==
    \A v \in Vbs : \A s \in 1..clock[v] : Latest(v, s) /\ ~PurgedByKey(v, s) =>
        \E i \in BlockIndexes : \E k \in DOMAIN blockDoc[i].entries :
            blockDoc[i].entries[k] = Stored(Entry(v, s))

(* The documents of the index, written by a batch that may crash anywhere: *)
(* blocks are listed and separated by their clocks, hold an entry once,    *)
(* and hold all that the channel clock announces.                          *)
IndexSafe ==
    /\ TypeOK /\ NoDuplicatesInBlock /\ BlocksListed /\ StartClockSeparates
    /\ Announced

(* A result is in the order of the vbuckets and of their sequences, as the *)
(* merge of several channels needs, lies within the request's range and    *)
(* names a document once, although blocks are read while writers append to *)
(* the newest and remove from the older ones.                              *)
ResultOrdered ==
    LET r == request.result
    IN  /\ \A k \in DOMAIN r : Within(request.since, request.to, r[k].vb, r[k].seq)
        /\ \A k, l \in DOMAIN r : k < l =>
              /\ r[k].doc # r[l].doc
              /\ r[k].vb < r[l].vb \/ (r[k].vb = r[l].vb /\ r[k].seq < r[l].seq)

(* rotate empties the active list before AddBlock writes the next one: a   *)
(* request that reads the list in between returns nothing, without error.  *)
ListReadDuringRotation == request.list.blocks = <<>>

(* A successful request returns the current entry of every document that   *)
(* changed in its range, from the cache (filled by an earlier poll, with   *)
(* older blocks loaded once) or from the index, except what lies behind    *)
(* the vbucket at which the limit was exceeded.                            *)
ResultComplete ==
    request.pc = "done" /\ ~truncated /\ ~ListReadDuringRotation =>
        \A v \in Changed(request.since, request.to) :
            \A s \in (request.since[v] + 1)..request.to[v] :
                Latest(v, s) /\ ~PurgedByKey(v, s) =>
                  \/ \E k \in DOMAIN request.result :
                        request.result[k] = Stored(Entry(v, s))
                  \/ /\ request.limit # 0 /\ Len(request.result) > request.limit
                     /\ Last(request.result).vb < v

(* What GetChanges reads from the blocks while a writer adds to them is    *)
(* ordered and complete within the range of the request.                   *)
ResultCorrect == ResultOrdered /\ ResultComplete

=============================================================================
