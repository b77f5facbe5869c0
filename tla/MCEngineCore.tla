---------------------------- MODULE MCEngineCore ----------------------------
(* EngineCore for TLC: sets of short prompts over two tokens. *)
EXTENDS EngineCore

CONSTANTS x, y

MCSeqs == 1 .. MaxRequests
MCTokens == {x, y}

\* Lengths only: no two prompts share a block.
LongAndShort == {<<x>>, <<y, y, y>>}
\* The longest of them has more tokens than a batch of six.
Lengths == {<<x>>, <<y, y, y>>, <<x, y, y, y, y, y, y>>}

=============================================================================
