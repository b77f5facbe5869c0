-------------------------- MODULE MCLegacyExecutor --------------------------
(* LegacyExecutor for TLC. *)
EXTENDS LegacyExecutor

CONSTANTS x, y

MCSeqs == 1 .. 3
MCTokens == {x, y}

\* Less than a block, and two blocks whose ends are not those of the chunks:
\* after a hit on the first, two chunks are left.
ShortAndLong == {<<x>>, <<x, y, y, x, x, y>>}

=============================================================================
