------------------------------ MODULE MCIngest ------------------------------
(* Ingest for TLC: two sources, polled in a fixed order. *)
EXTENDS Ingest

CONSTANTS s1, s2

MCSources == {s1, s2}
MCOrder == <<s1, s2>>
=============================================================================
