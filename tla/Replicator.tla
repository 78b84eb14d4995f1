----------------------------- MODULE Replicator -----------------------------
(***************************************************************************)
(* The replication manager (base/replicator.go) behind /_replicate, the    *)
(* replications of the configuration file and the end of the server.       *)
(*                                                                         *)
(* A replication is an object of the sg-replicate library with a goroutine *)
(* or a caller that waits for its end and then removes it from the maps -  *)
(* by its ID, which a newer replication may have by then.  Runs are        *)
(* numbered in the order of their requests; a request without an ID gets   *)
(* one that is not in use.  What a replication copies is left out.         *)
(***************************************************************************)
EXTENDS Naturals, FiniteSets

CONSTANTS
    Ids,            \* replication IDs
    Parameters,     \* what is compared of the other parameters
    MaxRuns         \* bound on the requests to start a replication

ASSUME ReplicatorAssumption == MaxRuns \in Nat

VARIABLES
    run,            \* the requests to start a replication and their objects
    replications,   \* the run of each ID, in replications, replicationParams
    stats,          \* IDs in PerReplicationStats
    orphaned,       \* history: runs whose entry an older run has removed
    raced           \* history: runs whose statistics a concurrent stop removed

replicatorVars == <<run, replications, stats, orphaned, raced>>

Runs == 1..MaxRuns
NoRun == 0
NotYet == [pc |-> "none"]

RunRecord == [pc : {"starting", "running", "ended", "gone"}, id : Ids,
              parameters : Parameters]

ReplicatorTypeOK ==
    /\ run \in [Runs -> RunRecord \cup {NotYet}]
    /\ replications \in [Ids -> Runs \cup {NoRun}]
    /\ stats \subseteq Ids
    /\ orphaned \subseteq Runs /\ raced \subseteq Runs

ReplicatorInit ==
    /\ run = [n \in Runs |-> NotYet]
    /\ replications = [i \in Ids |-> NoRun]
    /\ stats = {}
    /\ orphaned = {} /\ raced = {}

Tracked(n) == n \in {replications[i] : i \in Ids}

(* Mutant: only the ID is compared.                                        *)
MatchesId(id, p) == {n \in Runs : Tracked(n) /\ run[n].id = id}

(* _findReplication: the replications a request stands for.                *)
Matches(id, p) ==
    {n \in Runs : Tracked(n) /\ (run[n].id = id \/ run[n].parameters = p)}

----------------------------------------------------------------------------
(* startReplication creates the statistics before it takes the lock.       *)
StartReplication(n, id, p) ==
    /\ run[n] = NotYet /\ \A m \in 1..(n - 1) : run[m] # NotYet
    /\ run' = [run EXCEPT ![n] = [pc |-> "starting", id |-> id,
                                  parameters |-> p]]
    /\ stats' = stats \cup {id}
    /\ UNCHANGED <<replications, orphaned, raced>>

(* runOneShotReplication and runContinuousReplication: start it and add it *)
(* under the lock, or answer with a conflict.                              *)
RunReplication(n) ==
    /\ run[n].pc = "starting"
    /\ IF Matches(run[n].id, run[n].parameters) # {}
       THEN /\ run' = [run EXCEPT ![n].pc = "gone"]
            /\ UNCHANGED replications
       ELSE /\ run' = [run EXCEPT ![n].pc = "running"]
            /\ replications' = [replications EXCEPT ![run[n].id] = n]
    /\ UNCHANGED <<stats, orphaned, raced>>

(* The replication completes, fails or is aborted inside the library.      *)
Ends(n) ==
    /\ run[n].pc = "running"
    /\ run' = [run EXCEPT ![n].pc = "ended"]
    /\ UNCHANGED <<replications, stats, orphaned, raced>>

(* Whoever waits for the end - the watcher of a continuous replication,    *)
(* the goroutine of an asynchronous or the caller of a synchronous one -   *)
(* removes what is there under the ID.                                     *)
RemoveReplication(n) ==
    /\ run[n].pc = "ended"
    /\ run' = [run EXCEPT ![n].pc = "gone"]
    /\ replications' = [replications EXCEPT ![run[n].id] = NoRun]
    /\ orphaned' = orphaned \cup ({replications[run[n].id]} \ {n, NoRun})
    /\ UNCHANGED <<stats, raced>>

(* stopReplication of the replication a cancel request names, by ID or by  *)
(* parameters; one that has ended answers with an error and is left to     *)
(* its watcher.                                                            *)
StopReplication(n) ==
    /\ Tracked(n) /\ run[n].pc = "running"
    /\ run' = [run EXCEPT ![n].pc = "ended"]
    /\ replications' = [replications EXCEPT ![run[n].id] = NoRun]
    /\ stats' = stats \ {run[n].id}
    /\ raced' = raced \cup {m \in Runs : run[m].pc = "starting"
                                         /\ run[m].id = run[n].id}
    /\ UNCHANGED orphaned

(* StopReplications, when the server is closed.                            *)
StopReplications ==
    /\ \E i \in Ids : replications[i] # NoRun
    /\ run' = [n \in Runs |-> IF Tracked(n) /\ run[n].pc = "running"
                              THEN [run[n] EXCEPT !.pc = "ended"] ELSE run[n]]
    /\ replications' = [i \in Ids |-> NoRun]
    /\ UNCHANGED <<stats, orphaned, raced>>

ReplicatorNext ==
    \/ \E n \in Runs, id \in Ids, p \in Parameters : StartReplication(n, id, p)
    \/ \E n \in Runs : RunReplication(n) \/ Ends(n) \/ RemoveReplication(n)
                         \/ StopReplication(n)
    \/ StopReplications

(* Waiting for the end returns once the replication has ended.             *)
ReplicatorFairness == \A n \in Runs : WF_replicatorVars(RemoveReplication(n))

ReplicatorSpec == ReplicatorInit /\ [][ReplicatorNext]_replicatorVars /\ ReplicatorFairness

----------------------------------------------------------------------------
(* Properties                                                              *)

(* A replication that runs can be listed and cancelled - unless the        *)
(* watcher of a stopped one with the same ID has removed its entry.        *)
RunningIsTracked ==
    \A n \in Runs : run[n].pc = "running" => Tracked(n) \/ n \in orphaned

(* "Replication already active for specified parameters": no two           *)
(* replications with the same ID or parameters run at once, with the same  *)
(* exception.                                                              *)
NoDuplicates ==
    \A m, n \in Runs : m # n /\ run[m].pc = "running" /\ run[n].pc = "running"
        => \/ run[m].id # run[n].id /\ run[m].parameters # run[n].parameters
           \/ {m, n} \cap orphaned # {}

(* SnapshotStats finds the statistics of every replication in the map,     *)
(* without which it fails - unless they were removed by a stop that came   *)
(* between the two halves of its start.                                    *)
StatsOfTracked ==
    \A i \in Ids : replications[i] # NoRun =>
        i \in stats \/ replications[i] \in raced

(* The replicator's maps and the replications that run agree: what runs is *)
(* listed under its ID, runs once, and has its statistics (replicator.go). *)
ReplicationsTracked ==
    ReplicatorTypeOK /\ RunningIsTracked /\ NoDuplicates /\ StatsOfTracked

(* Replications that have ended have left the maps, so that they can be    *)
(* started again.                                                          *)
EndedRemoved == \A n \in Runs : run[n].pc = "ended" => ~Tracked(n)

=============================================================================
