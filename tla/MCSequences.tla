---------------------------- MODULE MCSequences ----------------------------
(***************************************************************************)
(* The change cache in two environments, chosen once: entries that come    *)
(* from a feed in any order, resyncs included, as in ChangeCache; and the  *)
(* document updates, allocators and feed of SequencePipeline.              *)
(***************************************************************************)
EXTENDS SequencePipeline

VARIABLE environment

allVars == <<pvars, environment>>

MCInit == PipelineInit /\ environment \in {"feed", "updates"}

(* Bounds of the second environment: the bulk updates and the crashes are  *)
(* those of the other node, a crash loses something, and the write that is *)
(* not answered is one of this node.  The errors of the skipped sequence   *)
(* task are left to the first environment.                                 *)
Bounded ==
    /\ \A w \in LocalWriters : reserved'[w] = {} /\ ~Crash(w)
    /\ \A w \in Writers \ LocalWriters :
        /\ reserved[w] = {} => Cardinality(reserved'[w]) \in {0, MaxReserve}
        /\ ~WriteDocUnanswered(w)
        /\ Crash(w) => lost' # lost
    /\ ~CleanQueryError
    /\ \A s \in Seqs : ~CleanGetDocumentError(s)

MCNext ==
    /\ UNCHANGED environment
    /\ \/ /\ environment = "feed" /\ Next
          /\ lost' = 1..counter'     \* who holds the sequences is not modelled
          /\ UNCHANGED <<doc, writer, reserved, history, faults, feedVars>>
       \/ environment = "updates" /\ PipelineNext /\ Bounded

MCSpec == MCInit /\ [][MCNext]_allVars /\ Fairness /\ PipelineFairness

=============================================================================
