--------------------------- MODULE SequenceHasher ---------------------------
(***************************************************************************)
(* Hashes that stand for clocks in the since values of an index feed       *)
(* (db/sequence_hasher.go).  A hash is the sum of a clock modulo a power   *)
(* of two, with the index of the clock among those of the same sum, which  *)
(* all gateways keep in one document of the bucket and cache.              *)
(*                                                                         *)
(* A cache value is an object that requests hold on to after the cache has *)
(* dropped it; it has the identity of the request that made it.  That the  *)
(* documents expire (after 30 days) is left out.                           *)
(***************************************************************************)
EXTENDS VbClock, FiniteSetsExt, SequencesExt

CONSTANTS
    Gateways,
    HashRequests,   \* requests, at most one per member (bound)
    Clocks,         \* clocks that feeds hash
    Mod,            \* 2^exp
    CacheCapacity,  \* hash values that a gateway caches
    MaxHashErrors   \* failed operations of the bucket (bound)

ASSUME HasherAssumption ==
    /\ Clocks \subseteq [Vbs -> Nat] /\ Mod \in Nat \ {0}
    /\ CacheCapacity \in Nat \ {0} /\ MaxHashErrors \in Nat

VARIABLES
    stored,     \* the document of each hash value: [cas, clocks]
    hashCache,  \* the values each gateway caches, most recently used first
    values,     \* the values: [key, loaded, cas, clocks]
    hashReq,    \* state of each request
    issued,     \* history: hashes given out, with the clock and whether the
                \* cached clocks were the first ones of the stored
    resolved,   \* history: hashes resolved, likewise
    hashErrors

hasherVars == <<stored, hashCache, values, hashReq, issued, resolved, hashErrors>>

-----------------------------------------------------------------------------
(* Hashes.                                                                 *)

CalculateHash(clock) == MapThenSumSet(LAMBDA v : clock[v] % Mod, Vbs) % Mod
Hashes == 0..Mod - 1

(* The sum of the finitely many sequences of a clock, modulo Mod.          *)
ASSUME HashesAssumption == \A clock \in Clocks : CalculateHash(clock) \in Hashes

(* storedClocks.Contains, with the index from 1.                           *)
IndexOf(clocks, clock) ==
    IF \E i \in DOMAIN clocks : clocks[i] = clock
    THEN CHOOSE i \in DOMAIN clocks : clocks[i] = clock ELSE 0

NoDoc == [cas |-> 0, clocks |-> <<>>]
NewValue(h) == [key |-> h, loaded |-> FALSE, cas |-> 0, clocks |-> <<>>]
NewRequest(r) == [pc |-> "none", op |-> "none", clock |-> ZeroClock, hash |-> 0, index |-> 0,
                  value |-> r, seen |-> 0, write |-> NoDoc]

HasherInit ==
    /\ stored = [h \in Hashes |-> NoDoc]
    /\ hashCache = [g \in Gateways |-> <<>>]
    /\ values = [r \in HashRequests |-> NewValue(0)]
    /\ hashReq = [r \in HashRequests |-> NewRequest(r)]
    /\ issued = {} /\ resolved = {} /\ hashErrors = 0

-----------------------------------------------------------------------------
(* The cache.                                                              *)

(* getCacheValue: the value of the hash becomes the most recently used; a  *)
(* new one may push out the least recently used.                           *)
CachedValues(g, h) == {i \in 1..Len(hashCache[g]) : values[hashCache[g][i]].key = h}

GetCacheValue(r, g, h) ==
    IF CachedValues(g, h) # {}
    THEN LET i == CHOOSE i \in CachedValues(g, h) : TRUE
         IN  /\ hashCache' = [hashCache EXCEPT ![g] = <<@[i]>> \o RemoveAt(@, i)]
             /\ UNCHANGED values
    ELSE /\ hashCache' = [hashCache EXCEPT
                ![g] = <<r>> \o SubSeq(@, 1, Min({Len(@), CacheCapacity - 1}))]
         /\ values' = [values EXCEPT ![r] = NewValue(h)]

(* GetHash and GetClock start with it.                                     *)
BeginHash(r, g, op, clock, h, i) ==
    /\ hashReq[r].pc = "none"
    /\ GetCacheValue(r, g, h)
    /\ hashReq' = [hashReq EXCEPT ![r] =
                      [@ EXCEPT !.pc = "load", !.op = op, !.clock = clock, !.hash = h,
                                !.index = i, !.value = Head(hashCache'[g])]]
    /\ UNCHANGED <<stored, issued, resolved, hashErrors>>

GetHash(r, g, clock) == BeginHash(r, g, "GetHash", clock, CalculateHash(clock), 0)

GetClock(r, g, h, i) == BeginHash(r, g, "GetClock", ZeroClock, h, i)

(* The lock of a value is held while its document is written.              *)
ValueUnlocked(v) == \A r \in HashRequests :
                   hashReq[r].value = v => hashReq[r].pc \notin {"write", "reread"}

(* loadClocks: an error is taken for a document that is not there.         *)
Fails(fails) == /\ fails => hashErrors < MaxHashErrors
                /\ hashErrors' = IF fails THEN hashErrors + 1 ELSE hashErrors

LoadClocks(value, fails) ==
    LET d == IF fails THEN NoDoc ELSE stored[value.key]
    IN  [value EXCEPT !.loaded = TRUE, !.cas = d.cas, !.clocks = d.clocks]

(* The cached clocks are the ones stored first: they have the same index.  *)
Agrees(value) == IsPrefix(value.clocks, stored[value.key].clocks)

HashAnswer(hash, index, clock, agrees) ==
    [hash |-> hash, index |-> index, clock |-> clock, agrees |-> agrees]

-----------------------------------------------------------------------------
(* GetHash                                                                 *)

HashReturn(r) == hashReq' = [hashReq EXCEPT ![r] = [NewRequest(r) EXCEPT !.pc = "done"]]

GiveHash(r, index, agrees) ==
    /\ issued' = issued \cup {HashAnswer(hashReq[r].hash, index, hashReq[r].clock, agrees)}
    /\ HashReturn(r)

(* load, and the look for the clock in what it returned.                   *)
LoadHash(r, fails) ==
    LET q == hashReq[r]
        value == IF values[q.value].loaded THEN values[q.value]
                 ELSE LoadClocks(values[q.value], fails)
        i == IndexOf(value.clocks, q.clock)
    IN  /\ q.pc = "load" /\ q.op = "GetHash" /\ ValueUnlocked(q.value)
        /\ fails => ~values[q.value].loaded
        /\ Fails(fails)
        /\ values' = [values EXCEPT ![q.value] = value]
        /\ IF i > 0 THEN GiveHash(r, i, Agrees(value))
           ELSE /\ hashReq' = [hashReq EXCEPT ![r].pc = "update",
                                              ![r].seen = Len(value.clocks)]
                /\ UNCHANGED issued
        /\ UNCHANGED <<stored, hashCache, resolved>>

(* The index of the clock just appended.                                   *)
LastIndexBefore(clocks) == Len(clocks) - 1

LastIndex(clocks) == Len(clocks)

(* Under the lock: another request may have added the clock meanwhile.  If *)
(* not, it is added to the cached clocks, which are then written.          *)
UpdateHash(r) ==
    LET q == hashReq[r]
        value == values[q.value]
        i == IF Len(value.clocks) > q.seen THEN IndexOf(value.clocks, q.clock) ELSE 0
        clocks == Append(value.clocks, q.clock)
    IN  /\ q.pc = "update" /\ ValueUnlocked(q.value)
        /\ IF i > 0 THEN GiveHash(r, i, Agrees(value)) /\ UNCHANGED values
           ELSE /\ values' = [values EXCEPT ![q.value].clocks = clocks]
                /\ hashReq' = [hashReq EXCEPT ![r].pc = "write",
                                  ![r].index = LastIndex(clocks),
                                  ![r].write = [cas |-> value.cas, clocks |-> clocks]]
                /\ UNCHANGED issued
        /\ UNCHANGED <<stored, hashCache, resolved, hashErrors>>

(* WriteCasRaw.  The CAS of the cached clocks stays the one they were      *)
(* loaded with, and so do the clocks when others are written in the end.   *)
WriteHash(r) ==
    LET q == hashReq[r]
        doc == stored[q.hash]
    IN  /\ q.pc = "write"
        /\ IF q.write.cas = doc.cas
           THEN /\ stored' = [stored EXCEPT ![q.hash] = [cas |-> doc.cas + 1,
                                                         clocks |-> q.write.clocks]]
                /\ GiveHash(r, q.index, TRUE)
           ELSE /\ hashReq' = [hashReq EXCEPT ![r].pc = "reread"]
                /\ UNCHANGED <<stored, issued>>
        /\ UNCHANGED <<hashCache, values, resolved, hashErrors>>

RereadHash(r) ==
    LET q == hashReq[r]
        doc == stored[q.hash]
        i == IndexOf(doc.clocks, q.clock)
        clocks == Append(doc.clocks, q.clock)
    IN  /\ q.pc = "reread"
        /\ IF i > 0 THEN GiveHash(r, i, TRUE)
           ELSE /\ hashReq' = [hashReq EXCEPT ![r].pc = "write",
                                  ![r].index = LastIndex(clocks),
                                  ![r].write = [cas |-> doc.cas, clocks |-> clocks]]
                /\ UNCHANGED issued
        /\ UNCHANGED <<stored, hashCache, values, resolved, hashErrors>>

(* An error of the write and of the read after it is dropped: the hash is  *)
(* given out although no document has the clock.                           *)
HashWriteFails(r) ==
    /\ hashReq[r].pc \in {"write", "reread"}
    /\ Fails(TRUE)
    /\ GiveHash(r, hashReq[r].index, FALSE)
    /\ UNCHANGED <<stored, hashCache, values, resolved>>

-----------------------------------------------------------------------------
(* GetClock: the clocks are loaded again when the index is not among the   *)
(* cached ones; one that is not stored either is the zero clock.           *)
LoadForIndex(r, fails) ==
    LET q == hashReq[r]
        known == values[q.value].loaded /\ q.index <= Len(values[q.value].clocks)
        value == IF known THEN values[q.value] ELSE LoadClocks(values[q.value], fails)
        clock == IF q.index <= Len(value.clocks) THEN value.clocks[q.index] ELSE ZeroClock
    IN  /\ q.pc = "load" /\ q.op = "GetClock" /\ ValueUnlocked(q.value)
        /\ fails => ~known
        /\ Fails(fails)
        /\ values' = [values EXCEPT ![q.value] = value]
        /\ resolved' = resolved \cup {HashAnswer(q.hash, q.index, clock, Agrees(value))}
        /\ HashReturn(r)
        /\ UNCHANGED <<stored, hashCache, issued>>

HasherNext ==
    \E r \in HashRequests :
        \/ \E g \in Gateways, clock \in Clocks : GetHash(r, g, clock)
        \/ \E g \in Gateways, a \in issued : GetClock(r, g, a.hash, a.index)
        \/ \E fails \in BOOLEAN : LoadHash(r, fails) \/ LoadForIndex(r, fails)
        \/ UpdateHash(r) \/ WriteHash(r) \/ RereadHash(r) \/ HashWriteFails(r)

HasherSpec == HasherInit /\ [][HasherNext]_hasherVars

-----------------------------------------------------------------------------
(* Properties.                                                             *)

SameClock(a, b) == a.hash = b.hash /\ a.index = b.index => a.clock = b.clock

(* A hash stands for one clock, whichever gateway gives it out or resolves *)
(* it, other gateways updating the document at the same time: "writeCas    *)
(* handling below handles the case where other SGs are updating the value  *)
(* concurrently".                                                          *)
HashUnambiguous ==
    \A a \in issued : /\ \A b \in issued : SameClock(a, b)
                      /\ \A b \in resolved : b.clock = ZeroClock \/ SameClock(a, b)

(* The same of hashes taken from cached clocks that are the first of the   *)
(* stored ones, which those of a gateway that lost a race to write the     *)
(* document, or whose write failed, no longer are.  No stored clock ever   *)
(* changes its index.                                                      *)
HashesKept ==
    /\ \A a \in issued : a.agrees =>
           /\ a.index \in 1..Len(stored[a.hash].clocks)
           /\ stored[a.hash].clocks[a.index] = a.clock
    /\ \A a \in issued, b \in resolved :
           a.agrees /\ b.agrees => b.clock = ZeroClock \/ SameClock(a, b)

=============================================================================
