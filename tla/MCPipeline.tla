----------------------------- MODULE MCPipeline -----------------------------
(* Pipeline for TLC: one partition. *)
EXTENDS Pipeline

CONSTANTS e1, e2, p1

MCEvents == {e1, e2}
MCPartitions == {p1}
MCPartitionOf == [e \in MCEvents |-> p1]
=============================================================================
