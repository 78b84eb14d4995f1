---------------------------- MODULE RevisionCache ----------------------------
(***************************************************************************)
(* One shard of the revision cache (db/revision_cache.go) under the        *)
(* requests of db/crud.go that read, store and diff revisions.             *)
(*                                                                         *)
(* The cache maps revisions to values, an LRU list orders the values, and  *)
(* each value has a lock of its own under which it is loaded.  A request   *)
(* keeps its pointer to a value while others evict it, remove it or put a  *)
(* new value under the same key: values are objects, named by elements of  *)
(* Values that are used again once nothing refers to them.                 *)
(*                                                                         *)
(* The bucket holds one document whose revisions are 1, 2, ... `current';  *)
(* the bodies of older revisions are backups that expire.  A body is       *)
(* reduced to its being there and the attachments to the revision they     *)
(* belong to.                                                              *)
(***************************************************************************)
EXTENDS Naturals, Sequences, SequencesExt, FiniteSets, FiniteSetsExt

CONSTANTS
    Requests,       \* concurrent requests
    Capacity,       \* revisions kept by the shard
    MaxRev,         \* bound on the revisions written
    MaxErrors       \* bound on the failed reads of the bucket

ASSUME RevisionCacheAssumption ==
    /\ IsFiniteSet(Requests)
    /\ Capacity \in Nat \ {0} /\ MaxRev \in Nat \ {0} /\ MaxErrors \in Nat

VARIABLES
    cache,          \* rc.cache: the value of each revision, or NoValue
    lruList,        \* rc.lruList: values, the most recent first
    value,          \* the value objects
    request,        \* the requests in progress
    current,        \* the document's current revision in the bucket, 0 if none
    backups,        \* older revisions whose bodies can still be read
    errors          \* failed reads of the bucket so far

cacheVars == <<cache, lruList, value>>
bucketVars == <<current, backups>>
revisionCacheVars == <<cacheVars, request, bucketVars, errors>>

Revs == 1..MaxRev
Values == 1..(Capacity + Cardinality(Requests))
NoValue == 0
NoDelta == 0      \* otherwise the revision a delta leads to

EmptyValue(r) == [rev |-> r, body |-> FALSE, err |-> FALSE, atts |-> 0,
                  delta |-> NoDelta]

(* goal: why the revision is wanted; from and to: the pair GetDelta works  *)
(* on; doc: the current revision of the document the request has read.     *)
IdleRequest == [pc |-> "idle", goal |-> "none", rev |-> 0, val |-> NoValue,
         doc |-> 0, from |-> 0, to |-> 0, atts |-> 0]

ValueRecord ==
    [rev : 0..MaxRev, body : BOOLEAN, err : BOOLEAN, atts : 0..MaxRev,
     delta : 0..MaxRev]

RequestRecord ==
    [pc : {"idle", "getValue", "load", "loading", "remove", "store", "update",
           "done"},
     goal : {"none", "get", "cached", "active", "put", "from", "to", "delta"},
     rev : 0..MaxRev, val : Values \cup {NoValue}, doc : 0..MaxRev,
     from : 0..MaxRev, to : 0..MaxRev, atts : 0..MaxRev]

RevisionCacheTypeOK ==
    /\ cache \in [Revs -> Values \cup {NoValue}]
    /\ lruList \in Seq(Values)
    /\ value \in [Values -> ValueRecord]
    /\ request \in [Requests -> RequestRecord]
    /\ current \in 0..MaxRev
    /\ backups \subseteq Revs
    /\ errors \in 0..MaxErrors

RevisionCacheInit ==
    /\ cache = [r \in Revs |-> NoValue]
    /\ lruList = <<>>
    /\ value = [v \in Values |-> EmptyValue(0)]
    /\ request = [q \in Requests |-> IdleRequest]
    /\ current = 0
    /\ backups = {}
    /\ errors = 0

Referenced == Range(lruList) \cup {request[q].val : q \in Requests}

(* value' is f; what nothing refers to any more is forgotten.              *)
SetValues(f) ==
    value' = [v \in Values |-> IF v \in Referenced' THEN f[v] ELSE EmptyValue(0)]

(* value.lock: held by the request that is loading the value.              *)
Unlocked(v) ==
    \A q \in Requests : ~(request[q].pc = "loading" /\ request[q].val = v)

Filled(v) == value[v].body \/ value[v].err

(* rc.lruList without the element of v.                                    *)
ListWithout(v) == RemoveAt(lruList, CHOOSE i \in DOMAIN lruList : lruList[i] = v)

----------------------------------------------------------------------------
(* The bucket                                                              *)

(* A revision is written, backing up the current one; Put is to follow.    *)
WriteRevision(q) ==
    /\ request[q].pc = "idle"
    /\ current < MaxRev
    /\ current' = current + 1
    /\ backups' = backups \cup ({current} \ {0})
    /\ request' = [request EXCEPT ![q] =
                      [IdleRequest EXCEPT !.pc = "getValue", !.goal = "put",
                                   !.rev = current']]
    /\ UNCHANGED <<cacheVars, errors>>

(* A backup reaches its expiry, or was never made.                         *)
BackupExpires(r) ==
    /\ r \in backups
    /\ backups' = backups \ {r}
    /\ UNCHANGED <<cacheVars, request, current, errors>>

----------------------------------------------------------------------------
(* Requests                                                                *)

(* Get, GetWithCopy and GetCached of a revision.                           *)
Get(q, r, goal) ==
    /\ request[q].pc = "idle"
    /\ request' = [request EXCEPT ![q] = [IdleRequest EXCEPT !.pc = "getValue",
                                              !.goal = goal, !.rev = r]]
    /\ UNCHANGED <<cacheVars, bucketVars, errors>>

(* GetActive reads the document first; without one it returns.             *)
GetActive(q) ==
    /\ request[q].pc = "idle" /\ current # 0
    /\ request' = [request EXCEPT ![q] =
                      [IdleRequest EXCEPT !.pc = "getValue", !.goal = "active",
                                   !.rev = current, !.doc = current]]
    /\ UNCHANGED <<cacheVars, bucketVars, errors>>

(* GetDelta starts with the source revision.                               *)
GetDelta(q, from, to) ==
    /\ request[q].pc = "idle"
    /\ request' = [request EXCEPT ![q] =
                      [IdleRequest EXCEPT !.pc = "getValue", !.goal = "from",
                                   !.rev = from, !.from = from, !.to = to]]
    /\ UNCHANGED <<cacheVars, bucketVars, errors>>

(* The step that follows getValue.                                         *)
Use(q) ==
    CASE request[q].goal = "put" -> "store"
      [] request[q].goal = "delta" -> "update"
      [] OTHER -> "load"

(* getValue under rc.lock: the value moves to the front, or is created     *)
(* and the oldest is purged; GetCached and UpdateDelta do not create one,  *)
(* and end without.                                                        *)
GetValue(q) ==
    LET r == request[q].rev
        v == Min(Values \ Referenced)
        oldest == Last(lruList)
    IN  /\ request[q].pc = "getValue"
        /\ \/ /\ cache[r] # NoValue
              /\ lruList' = <<cache[r]>> \o ListWithout(cache[r])
              /\ request' = [request EXCEPT ![q].pc = Use(q),
                                            ![q].val = cache[r]]
              /\ UNCHANGED <<cache, value>>
           \/ /\ cache[r] = NoValue /\ request[q].goal \notin {"cached", "delta"}
              /\ request' = [request EXCEPT ![q].pc = Use(q), ![q].val = v]
              /\ IF Len(lruList) = Capacity
                 THEN /\ lruList' = <<v>> \o Front(lruList)
                      /\ cache' = [cache EXCEPT ![value[oldest].rev] = NoValue,
                                                ![r] = v]
                 ELSE /\ lruList' = <<v>> \o lruList
                      /\ cache' = [cache EXCEPT ![r] = v]
              /\ SetValues([value EXCEPT ![v] = EmptyValue(r)])
           \/ /\ cache[r] = NoValue /\ request[q].goal \in {"cached", "delta"}
              /\ request' = [request EXCEPT ![q] = IdleRequest]
              /\ UNCHANGED cacheVars
        /\ UNCHANGED <<bucketVars, errors>>

(* What the caller does with the loaded value v: a failed one is removed   *)
(* from the cache; GetDelta uses a cached delta, fetches the target, or    *)
(* stores the delta it has computed.                                       *)
Continue(q, v) ==
    LET me == request[q]
    IN  IF v.err THEN [me EXCEPT !.pc = "remove"]
        ELSE IF me.goal = "from" /\ v.delta # me.to
        THEN [me EXCEPT !.pc = "getValue", !.goal = "to", !.rev = me.to,
                        !.val = NoValue, !.doc = 0]
        ELSE IF me.goal = "to"
        THEN [me EXCEPT !.pc = "getValue", !.goal = "delta", !.rev = me.from,
                        !.val = NoValue, !.doc = 0]
        ELSE [me EXCEPT !.pc = "done", !.atts = v.atts]

(* load and loadForDoc find the value filled, by whichever request.        *)
LoadHit(q) ==
    /\ request[q].pc = "load"
    /\ Unlocked(request[q].val)
    /\ Filled(request[q].val)
    /\ request' = [request EXCEPT ![q] = Continue(q, value[request[q].val])]
    /\ UNCHANGED <<cache, lruList, bucketVars, errors>>
    /\ SetValues(value)

(* They find it empty, take its lock, and read the document unless the     *)
(* caller has.                                                             *)
LoadMiss(q) ==
    /\ request[q].pc = "load"
    /\ Unlocked(request[q].val)
    /\ ~Filled(request[q].val)
    /\ request' = [request EXCEPT ![q].pc = "loading",
                       ![q].doc = IF @ = 0 THEN current ELSE @]
    /\ UNCHANGED <<cacheVars, bucketVars, errors>>

(* revCacheLoaderForDocument fills the value: the body is the document's   *)
(* or a backup, the attachments are always the document's.  (History is    *)
(* without cycles, so getHistory has no error.)                            *)
LoadRevision(q) ==
    LET me    == request[q]
        found == me.rev = me.doc \/ (me.rev < me.doc /\ me.rev \in backups)
        new   == [value[me.val] EXCEPT !.body = found, !.err = ~found,
                                       !.atts = IF found THEN me.doc ELSE 0]
    IN  /\ me.pc = "loading"
        /\ request' = [request EXCEPT ![q] = Continue(q, new)]
        /\ UNCHANGED <<cache, lruList, bucketVars, errors>>
        /\ SetValues([value EXCEPT ![me.val] = new])

(* The document says instead that the revision removed it from a channel   *)
(* (IsChannelRemoval): a body that says so, without attachments.           *)
LoadRemoval(q) ==
    LET me  == request[q]
        new == [value[me.val] EXCEPT !.body = TRUE, !.err = FALSE, !.atts = 0]
    IN  /\ me.pc = "loading"
        /\ me.rev < me.doc /\ me.rev \notin backups
        /\ request' = [request EXCEPT ![q] = Continue(q, new)]
        /\ UNCHANGED <<cache, lruList, bucketVars, errors>>
        /\ SetValues([value EXCEPT ![me.val] = new])

(* The bucket fails while the revision is loaded.                          *)
LoadError(q) ==
    /\ request[q].pc = "loading"
    /\ errors < MaxErrors
    /\ errors' = errors + 1
    /\ value' = [value EXCEPT ![request[q].val].err = TRUE]
    /\ request' = [request EXCEPT ![q].pc = "remove"]
    /\ UNCHANGED <<cache, lruList, bucketVars>>

(* Mutant: whatever value the revision has now is removed.                 *)
RemoveValueByKey(q) ==
    LET me == request[q]
    IN  /\ me.pc = "remove"
        /\ IF cache[me.rev] # NoValue
           THEN /\ cache' = [cache EXCEPT ![me.rev] = NoValue]
                /\ lruList' = ListWithout(cache[me.rev])
           ELSE UNCHANGED <<cache, lruList>>
        /\ request' = [request EXCEPT ![q] = IdleRequest]
        /\ SetValues(value)
        /\ UNCHANGED <<bucketVars, errors>>

(* removeValue: the failed value is removed if it is still the one of its  *)
(* revision, and the request returns the error - or, GetDelta with a       *)
(* source that has no body, the delta left there.                          *)
RemoveValue(q) ==
    LET me == request[q]
    IN  /\ me.pc = "remove"
        /\ IF cache[me.rev] = me.val
           THEN /\ cache' = [cache EXCEPT ![me.rev] = NoValue]
                /\ lruList' = ListWithout(me.val)
           ELSE UNCHANGED <<cache, lruList>>
        /\ request' = [request EXCEPT ![q] = IdleRequest]
        /\ SetValues(value)
        /\ UNCHANGED <<bucketVars, errors>>

(* Put stores the revision unless the value has a body, clearing the error *)
(* of a failed load.                                                       *)
Store(q) ==
    LET v == request[q].val
    IN  /\ request[q].pc = "store"
        /\ Unlocked(v)
        /\ request' = [request EXCEPT ![q] = IdleRequest]
        /\ UNCHANGED <<cache, lruList, bucketVars, errors>>
        /\ SetValues(IF value[v].body THEN value
                     ELSE [value EXCEPT ![v].body = TRUE, ![v].err = FALSE,
                                        ![v].atts = request[q].rev])

(* updateDelta on whatever value the source has now, loaded or not.        *)
UpdateDelta(q) ==
    LET v == request[q].val
    IN  /\ request[q].pc = "update"
        /\ Unlocked(v)
        /\ request' = [request EXCEPT ![q] = IdleRequest]
        /\ UNCHANGED <<cache, lruList, bucketVars, errors>>
        /\ SetValues([value EXCEPT ![v].delta = request[q].to])

Return(q) ==
    /\ request[q].pc = "done"
    /\ request' = [request EXCEPT ![q] = IdleRequest]
    /\ UNCHANGED <<cache, lruList, bucketVars, errors>>
    /\ SetValues(value)

RevisionCacheNext ==
    \/ \E r \in Revs : BackupExpires(r)
    \/ \E q \in Requests :
        \/ WriteRevision(q) \/ GetActive(q)
        \/ \E r \in Revs, goal \in {"get", "cached"} : Get(q, r, goal)
        \/ \E r, s \in Revs : r < s /\ GetDelta(q, r, s)
        \/ GetValue(q) \/ LoadHit(q) \/ LoadMiss(q) \/ LoadRevision(q)
        \/ LoadRemoval(q) \/ LoadError(q) \/ RemoveValue(q) \/ Store(q) \/ UpdateDelta(q)
        \/ Return(q)

RevisionCacheSpec == RevisionCacheInit /\ [][RevisionCacheNext]_revisionCacheVars

----------------------------------------------------------------------------
(* Properties                                                              *)

(* The map and the list hold the same values, each under its revision and  *)
(* once, and no more than the capacity.                                    *)
MapMatchesList ==
    /\ Len(lruList) <= Capacity
    /\ IsInjective(lruList)
    /\ Range(lruList) = {cache[r] : r \in Revs} \ {NoValue}
    /\ \A r \in Revs : cache[r] # NoValue => value[cache[r]].rev = r

(* "don't keep failed loads in the cache": a failed value in the cache is  *)
(* about to be removed by a request that saw it fail, so that a later read *)
(* tries again.                                                            *)
FailuresLeave ==
    \A r \in Revs : cache[r] # NoValue /\ value[cache[r]].err =>
        \E q \in Requests : request[q].pc = "remove" /\ request[q].val = cache[r]

(* What GetActive returns is the revision it has read with the attachments *)
(* of that revision, whoever loaded it, unless it was superseded meanwhile *)
(* (the loader gives an old revision the document's attachments).          *)
ActiveIsOwn ==
    \A q \in Requests :
        request[q].pc = "done" /\ request[q].goal = "active"
            => request[q].atts = request[q].rev \/ request[q].rev # current

(* The map, the list and the values of the cache belong together, and what *)
(* is in it is what its readers may get.                                   *)
CacheConsistent ==
    RevisionCacheTypeOK /\ MapMatchesList /\ FailuresLeave /\ ActiveIsOwn

(* "the loader will only be called once even if multiple goroutines try to *)
(* load at the same time": a body, once there, is not replaced by another  *)
(* load or by a Put.  And a revision that is in the cache with its body    *)
(* stays until the cache is full, however many failed loads of it are      *)
(* being cleaned up - unless a Put has filled the value of such a load.    *)
KeepsBodies ==
    /\ \A v \in Range(lruList) \cap Range(lruList') :
          value[v].body /\ value'[v].rev = value[v].rev
            => value'[v].body /\ value'[v].atts = value[v].atts
    /\ \A r \in Revs :
          cache[r] # NoValue /\ value[cache[r]].body /\ cache'[r] # cache[r] =>
            \/ Len(lruList) = Capacity /\ Len(lruList') = Capacity
            \/ \E q \in Requests : request[q].pc = "remove" /\ request[q].val = cache[r]

(* A body stays: no step breaks KeepsBodies.                               *)
BodiesStay == [][KeepsBodies]_revisionCacheVars

(* The cache is consistent in every state, and no step takes from it what  *)
(* it is to keep.                                                          *)
RevisionCacheSafe == []CacheConsistent /\ BodiesStay

=============================================================================
