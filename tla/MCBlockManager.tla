--------------------------- MODULE MCBlockManager ---------------------------
(* BlockManager for TLC: prompts over two tokens, of one to two blocks. *)
EXTENDS BlockManager

CONSTANTS x, y

MCTokens == {x, y}

MCPrompts == {<<x>>, <<x, y>>, <<x, y, x, y>>, <<x, y, x>>}

=============================================================================
