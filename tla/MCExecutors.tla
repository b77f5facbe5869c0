---------------------------- MODULE MCExecutors ----------------------------
(* Executors for TLC. *)
EXTENDS Executors

CONSTANTS x, y

MCSeqs == 1 .. MaxRequests
MCTokens == {x, y}

\* Chunks within a block, of a whole block, and across two blocks.
AllLengths == {<<x>>, <<x, y>>, <<y, x, y, y>>}

=============================================================================
