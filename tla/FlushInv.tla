------------------------------- MODULE FlushInv -------------------------------
(***************************************************************************)
(* Who flushes what, as an inductive invariant of the executions in which  *)
(* no store is lost (StoreIsInCache): a core cleans the set that its       *)
(* access needs, word by word, and of the agents that hold a word of the   *)
(* block on the bus only one may put it there.  OneSupplier and            *)
(* CleanCounterInRange follow.                                             *)
(***************************************************************************)
EXTENDS MemoryInv

(* Core d's MEM stage has had its turn in this cycle.                      *)
AfterCoreOf(d) ==
  phase \in {"edge", "memory", "bus"} \/ (phase = "core" /\ turn > d)

FlushPosted(a) == slot[a].cmd = "BUS_FLUSH"

(* The block that core d's access finds in its set, and that it is another *)
(* than the one it needs.                                                  *)
AccessSet(d) == get_index(access[d].addr)
VictimBlock(d) == BlockOf(tag[d][AccessSet(d)], AccessSet(d))
MissesOther(d) ==
  /\ access[d] # NoAccess /\ ~waiting_for_bus[d]
  /\ tag[d][AccessSet(d)] # get_tag(access[d].addr)

(* Core d sends the block on the bus, or has posted the last word of it.   *)
Supplies(d) == busy /\ (sending_flush[d] \/ (flush_count > 0 /\ bus_origid = d))

-----------------------------------------------------------------------------
(* A core cleans a Modified block, or one that it supplies meanwhile; the  *)
(* word in its line is the one before words_left.                          *)
CleaningOf(d) ==
  need_to_clean_first[d] =>
    /\ MissesOther(d)
    /\ \/ state[d][AccessSet(d)] = "M"
       \/ Supplies(d) /\ RequestedBlock = VictimBlock(d)
    /\ words_left[d] \in 0 .. WORDS_IN_BLOCK - 1
    /\ ~sending_flush[d] =>
         /\ AfterCoreOf(d) \/ BeforeSnoop(d) => words_left[d] > 0
         /\ AfterCoreOf(d) =>
              FlushPosted(d) /\ slot[d].addr = VictimBlock(d) + words_left[d] - 1

CleanInv == \A d \in Core : CleaningOf(d)

(* A supplier keeps pace with the bus, and is alone.                       *)
SupplyPace ==
  \A a \in Core :
    sending_flush[a] =>
      /\ flush_count + words_left_to_flush[a] =
           IF BeforeClock(a) THEN WORDS_IN_BLOCK ELSE WORDS_IN_BLOCK - 1
      /\ ~BeforeClock(a) => FlushPosted(a) /\ slot[a].addr = pending_addr
      /\ flush_count > 0 => bus_origid = a
      /\ BeforeSnoop(a) => flush_count > 0
      /\ \A d \in Core \ {a} : ~sending_flush[d] /\ ~Present(d, flush_block_addr[a])

(* A word of the block on the bus is in the line of a core only if it has  *)
(* sent the words before, or will send all of them.                        *)
SourceOf(a) ==
  (busy /\ FlushPosted(a) /\ get_block_addr(slot[a].addr) = RequestedBlock) =>
    /\ flush_count > 0 => bus_origid = a
    /\ flush_count = 0 /\ AfterCoreOf(a) => sending_flush[a]

OneSource == \A a \in Core : SourceOf(a)

(* A posted word is one of the set being cleaned, or of the block supplied.*)
PostedOf(d) ==
  FlushPosted(d) =>
    \/ /\ MissesOther(d) /\ get_block_addr(slot[d].addr) = VictimBlock(d)
       /\ ~need_to_clean_first[d] => slot[d].addr = VictimBlock(d) + WORDS_IN_BLOCK - 1
    \/ Supplies(d) /\ get_block_addr(slot[d].addr) = RequestedBlock

PostedInv == \A d \in Core : PostedOf(d)

(* The first cycle, in which the memory's line holds what malloc returned. *)
AtStart ==
  /\ phase \in {"memory", "bus"} /\ ~busy /\ ~delay_in_progress
  /\ bus_cmd = "BUS_NO_CMD"
  /\ \A c \in Core : slot[c] = NoRequest /\ access[c] = NoAccess

(* Otherwise a word is in the memory's line only from memory_clock to      *)
(* bus_clock, which takes it.                                              *)
MemoryWordInv ==
  FlushPosted(MAIN_MEMORY) =>
    \/ AtStart
    \/ /\ phase = "bus" /\ busy /\ slot[MAIN_MEMORY].addr = pending_addr
       /\ flush_count > 0 => bus_origid = MAIN_MEMORY

FlushInvariant ==
  CleanInv /\ SupplyPace /\ OneSource /\ PostedInv /\ MemoryWordInv

-----------------------------------------------------------------------------
(* A program whose stores to one set are all to one block.  Its dirty      *)
(* blocks are cleaned for loads only, so that no store is lost.            *)
StoresFit ==
  \A c \in Core : \A a, b \in Stores[c] :
    get_index(a) = get_index(b) => get_tag(a) = get_tag(b)

ModifiedByStore ==
  \A c \in Core, i \in Set :
    state[c][i] = "M"
      => \E a \in Stores[c] : get_index(a) = i /\ get_tag(a) = tag[c][i]

CleansForLoad ==
  \A c \in Core : need_to_clean_first[c] => MissesOther(c) /\ access[c].op = "lw"

FitInv == ModifiedByStore /\ CleansForLoad
=============================================================================
