----------------------------- MODULE MCServing -----------------------------
(* Serving for TLC. *)
EXTENDS Serving

CONSTANTS x, y

MCSeqs == 1 .. MaxRequests
MCTokens == {x, y}

TwoPrompts == {<<x>>, <<y, x>>}

=============================================================================
