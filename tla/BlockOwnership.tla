--------------------------- MODULE BlockOwnership ---------------------------
(***************************************************************************)
(* What BlockManager promises its callers, free of counts and lists: the   *)
(* set of table entries that hold each block, and the block known for each *)
(* content key.  A block is granted, and may become known under a key,     *)
(* only when nobody holds it; a block somebody holds gains holders only by *)
(* being known; a sequence gives up all its entries at once.               *)
(***************************************************************************)
EXTENDS Integers

CONSTANTS Seqs, Blocks, Keys, NoBlock

VARIABLES
  holders,   \* holders[b]: the entries <<sequence, index>> that hold b
  known      \* known[k]: the block last granted under the key k

Init ==
  /\ holders = [b \in Blocks |-> {}]
  /\ known = [k \in Keys |-> NoBlock]

EntriesOf(s) == UNION {{h \in holders[b] : h[1] = s} : b \in Blocks}

(* A new entry of s on a block that nobody holds, under a key or none. *)
Grant(s, b) ==
  /\ holders[b] = {}
  /\ \E h \in holders'[b] :
       /\ h[1] = s /\ h \notin EntriesOf(s)
       /\ holders' = [holders EXCEPT ![b] = {h}]
  /\ known' = known \/ \E k \in Keys : known' = [known EXCEPT ![k] = b]

(* New entries of s on known blocks that are held already, at most one *)
(* block for each index.                                                *)
Share(s) ==
  /\ \A b \in Blocks :
       /\ holders[b] \subseteq holders'[b]
       /\ \A h \in holders'[b] \ holders[b] :
            /\ h[1] = s /\ h \notin EntriesOf(s)
            /\ holders[b] # {}
            /\ \E k \in Keys : known[k] = b
  /\ \A b, c \in Blocks : b # c => holders'[b] \cap holders'[c] = {}
  /\ holders' = [b \in Blocks |-> holders'[b]]
  /\ UNCHANGED known

(* All entries of s are given up; what is known stays known. *)
Leave(s) ==
  /\ holders' = [b \in Blocks |-> {h \in holders[b] : h[1] # s}]
  /\ UNCHANGED known

Next == \E s \in Seqs :
          \/ \E b \in Blocks : Grant(s, b)
          \/ Share(s)
          \/ Leave(s)

Spec == Init /\ [][Next]_<<holders, known>>

=============================================================================
