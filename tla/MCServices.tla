----------------------------- MODULE MCServices -----------------------------
(***************************************************************************)
(* The services of a gateway that share no state with one another: the     *)
(* sequence allocator, a shard of the revision cache, the event manager,   *)
(* the replication manager, the single-key and bulk operations of the      *)
(* bucket, and a feed over the channel index.  A behaviour is one of one   *)
(* service, picked in the initial state; the others stay as they were      *)
(* initialised.                                                            *)
(***************************************************************************)
EXTENDS SequenceAllocator, RevisionCache, EventManager, Replicator, BucketOps,
        BulkOps, IndexFeed

VARIABLE service

allocatorVars == vars

(* The variables of each service.                                          *)
serviceVars == <<allocatorVars, revisionCacheVars, eventVars, replicatorVars,
                 bucketOpVars, bulkVars, indexFeedVars>>
servicesVars == <<service, serviceVars>>

MCInit ==
    /\ service \in {"allocator", "revisions", "events", "replicator", "bucket",
                    "bulk", "index"}
    /\ Init /\ RevisionCacheInit /\ EventsInit /\ ReplicatorInit
    /\ BucketInit /\ BulkInit /\ IndexFeedInit

(* The bucket fails a read of the revision cache or forgets a backup, not  *)
(* both.                                                                   *)
OneFailure == errors' = 0 \/ backups' = 1..current' - 1

(* A backfill of the feed over the index fails before the last mutation,   *)
(* and only where nothing was lost before.                                 *)
FailsOnce ==
    \A c \in Channels : BackfillError(c) => excused = {} /\ Mutations < MaxMutations

MCNext ==
    /\ UNCHANGED service
    /\ IF service = "allocator"  THEN Next ELSE UNCHANGED allocatorVars
    /\ IF service = "revisions"  THEN RevisionCacheNext /\ OneFailure ELSE UNCHANGED revisionCacheVars
    /\ IF service = "events"     THEN EventsNext ELSE UNCHANGED eventVars
    /\ IF service = "replicator" THEN ReplicatorNext ELSE UNCHANGED replicatorVars
    /\ IF service = "bucket"     THEN BucketNext ELSE UNCHANGED bucketOpVars
    /\ IF service = "bulk"       THEN BulkNext ELSE UNCHANGED bulkVars
    /\ IF service = "index"      THEN IndexFeedNext /\ FailsOnce ELSE UNCHANGED indexFeedVars

(* Each service has its own fairness, which asks nothing of one that was   *)
(* not picked: its fair actions are disabled before its first request, but *)
(* for the polling of the index.                                           *)
MCSpec ==
    /\ MCInit /\ [][MCNext]_servicesVars
    /\ EventsFairness /\ ReplicatorFairness /\ BucketFairness /\ BulkFairness
    /\ WF_indexFeedVars(WriteStable) /\ WF_indexFeedVars(RoundStep)
    /\ WF_indexFeedVars(service = "index" /\ StableSequenceChanged)
    /\ WF_indexFeedVars(Poll)

(* A single continuous feed over the index.                                *)
Continuous == {<<"continuous", 0>>}

(* Whatever is waited for happens, the requests being finitely many: in    *)
(* the end every accepted event has reached its handlers, no replication   *)
(* that ended is left in the maps, the operations of the bucket have       *)
(* returned, and a continuous feed over the index has sent its entries.    *)
ServicesEnd == <>[](EventsHandled /\ EndedRemoved /\ OpsEnded /\ BulkEnded /\ AllSent)

=============================================================================
