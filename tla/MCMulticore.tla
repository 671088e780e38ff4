----------------------------- MODULE MCMulticore -----------------------------
(***************************************************************************)
(* Constants of the TLC runs of Coherence.                                 *)
(***************************************************************************)
EXTENDS DataInv

CONSTANT NUM_VALUES   \* how many values a word may take

MCWord == 0 .. NUM_VALUES - 1
MCMemIn == [a \in Addr |-> 0]

InBlocks(B) == {a \in Addr : a \div WORDS_IN_BLOCK \in B}
LastWord == {a \in Addr : get_block_offset(a) = BLOCK_SIZE - 1}

(* Addresses that each core's program loads from or stores to: every word; *)
(* every word of the first block, and of the others the last one, which    *)
(* crosses the bus last; the first block; the core's own block, or the     *)
(* last word of it; the last word of a block that all read.                *)
Everything == [c \in Core |-> Addr]
FirstBlock == [c \in Core |-> InBlocks({0})]
OwnBlock == [c \in Core |-> InBlocks({c})]
OwnLast == [c \in Core |-> InBlocks({c}) \cap LastWord]
FirstOrLast == [c \in Core |-> InBlocks({0}) \cup LastWord]
CommonLast == [c \in Core |-> InBlocks({NUM_CORES}) \cap LastWord]

(* Core 0 stores to a block that the other cores load from, and to one of  *)
(* its own, which it evicts: it has two dirty blocks, in two sets.         *)
SharedAndOwn ==
  [c \in Core |-> IF c = 0 THEN InBlocks({0, 1}) \ LastWord ELSE {}]
SharedOrConflict ==
  [c \in Core |-> InBlocks(IF c = 0 THEN {NUM_SETS + 1} ELSE {0}) \cap LastWord]

(* The programs of the Coherence run, in which both cores write the first  *)
(* block back, are such as the theorems of DataInv_proofs are about.       *)
ASSUME EvictsOneBlock == (Loads = FirstOrLast /\ Stores = FirstBlock) => WriteBacksApart

(* Those of LostWords lose no store, and miss the condition in one point.  *)
ASSUME EvictsOwnBesideShared ==
  (Loads = SharedOrConflict /\ Stores = SharedAndOwn) => StoresFit /\ ~WriteBacksApart

(* State constraint for programs that store to a set holding another dirty *)
(* block: words_left and pending_addr then drift without end.              *)
DriftBound ==
  /\ pending_addr <= NUM_BLOCKS * WORDS_IN_BLOCK
  /\ \A c \in Core : need_to_clean_first[c] => words_left[c] >= -3
=============================================================================
