------------------------------ MODULE MCPagedKV ------------------------------
(* PagedKV for TLC. *)
EXTENDS PagedKV

CONSTANTS x, y

MCSeqs == 1 .. MaxRequests
MCTokens == {x, y}

\* Two prompts with the same second block after different first ones.
SameSuffix == {<<x, y>>, <<y, y>>}

=============================================================================
