----------------------------- MODULE MCMetrics -----------------------------
(* Metrics for TLC. *)
EXTENDS Metrics

CONSTANTS x, y

MCSeqs == 1 .. MaxRequests
MCTokens == {x, y}

\* A block, part of it, and a second block that repeats the first.
SharingPrompts == {<<x>>, <<x, y>>, <<x, y, x, y>>}

=============================================================================
