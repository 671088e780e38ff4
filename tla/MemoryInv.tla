------------------------------ MODULE MemoryInv ------------------------------
(***************************************************************************)
(* Main memory's answer to a transaction, as an inductive invariant: it is *)
(* prepared while the bus waits for its first word, it is cancelled by the *)
(* first word of a core that owns the block, and once its own first word   *)
(* has gone out it keeps pace with the bus.  MemoryAnswersAlone follows,   *)
(* for every program.                                                      *)
(***************************************************************************)
EXTENDS ProtocolInv

(* The block that the core waiting for the bus's transaction asked for.    *)
RequestedBlock == get_block_addr(waiting_addr[pending_origid])

(* Core c has a copy of the block it waits for only to get rid of the      *)
(* other copies.                                                           *)
WaitingInv ==
  \A c \in Core :
    (waiting_for_bus[c] /\ Present(c, waiting_addr[c]))
      => state[c][get_index(waiting_addr[c])] = "S"

(* An answer is to the transaction on the bus, and no cache but the        *)
(* requester's may have the block in a state it could write to.            *)
RespondInv ==
  /\ waiting_to_respond <=> words_to_send > 0
  /\ wait_cycles > 0 => words_to_send = WORDS_IN_BLOCK
  /\ words_to_send > 0 =>
       /\ busy /\ block_addr = RequestedBlock
       /\ \A d \in Core \ {pending_origid} :
            Present(d, waiting_addr[pending_origid])
              => state[d][get_index(waiting_addr[pending_origid])] = "S"

(* Before its first word the bus has carried none, or just the word that   *)
(* is about to cancel the answer; after it, the bus takes in every cycle   *)
(* the word that memory_clock has posted in the same cycle.                *)
PaceInv ==
  /\ words_to_send = WORDS_IN_BLOCK =>
       flush_count = 0 \/ (flush_count = 1 /\ CoreFlushOnBus /\ phase # "bus")
  /\ words_to_send \in 1 .. WORDS_IN_BLOCK - 1 =>
       IF phase = "bus"
       THEN /\ flush_count + words_to_send + 1 = WORDS_IN_BLOCK
            /\ slot[MAIN_MEMORY].cmd = "BUS_FLUSH"
            /\ slot[MAIN_MEMORY].addr = pending_addr
       ELSE flush_count + words_to_send = WORDS_IN_BLOCK \/ CoreFlushOnBus

(* A word in memory's line, be it one that memory_init did not clear, is   *)
(* not there when a transaction takes the bus.                             *)
MemorySlotInv ==
  slot[MAIN_MEMORY].cmd = "BUS_FLUSH" =>
    /\ ~delay_in_progress
    /\ busy => flush_count > 0 \/ words_to_send = WORDS_IN_BLOCK - 1

(* While a core supplies the block, memory has no answer, or one that this *)
(* cycle's word cancels; the first word is in the line before the bus      *)
(* looks at it again.                                                      *)
SupplierInv ==
  \A d \in Core :
    sending_flush[d] =>
      /\ flush_count = 0 =>
           /\ words_to_send = 0 \/ (words_to_send = WORDS_IN_BLOCK /\ phase = "bus")
           /\ words_left_to_flush[d] =
                IF BeforeClock(d) THEN WORDS_IN_BLOCK ELSE WORDS_IN_BLOCK - 1
           /\ ~BeforeClock(d) =>
                slot[d].cmd = "BUS_FLUSH" /\ slot[d].addr = pending_addr
      /\ flush_count > 0 =>
           \/ words_to_send = 0
           \/ words_to_send = WORDS_IN_BLOCK /\ CoreFlushOnBus /\ phase # "bus"

MemoryInvariant ==
  RespondInv /\ PaceInv /\ MemorySlotInv /\ SupplierInv /\ WaitingInv
=============================================================================
