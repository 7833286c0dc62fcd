----------------------------- MODULE MCConsumer -----------------------------
(* Instances of Consumer for TLC.                                          *)
EXTENDS Consumer, TLC

CONSTANTS c1, c2, p1, p2, e1, e2

\* events.raw with two partitions, one event id in each.
KeyedPartition == (e1 :> p1) @@ (e2 :> p2)
\* Two event ids in one partition.
SinglePartition == (e1 :> p1) @@ (e2 :> p1)

Symmetry == Permutations(Consumers)
\* With one partition the event ids are interchangeable too.
SymmetrySingle == Permutations(Consumers) \cup Permutations(Events)
=============================================================================
