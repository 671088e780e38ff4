----------------------------- MODULE ProtocolInv -----------------------------
(***************************************************************************)
(* The life of one bus transaction, as an inductive invariant: a request   *)
(* is posted, waits out its delay, holds the bus while its block crosses   *)
(* it, and ends when the requester has taken the last word.  SingleWriter, *)
(* FillsOwnBlock and SupplyServesTransaction follow from it, for every     *)
(* program, also one whose stores the cache loses (StoreIsInCache).        *)
(***************************************************************************)
EXTENDS Coherence

(* The request of core c's cache is the transaction <<cmd, a>>.            *)
RequestMatches(c, cmd, a) ==
  /\ waiting_for_bus[c]
  /\ waiting_addr[c] = a
  /\ (is_write_request[c] <=> cmd = "BUS_RDX")

(* Where the loop stands, as seen by one cache in this cycle.              *)
InCachePhases == phase \in {"snoop", "response", "clock"}

BeforeSnoop(c) ==
  InCachePhases /\ (turn < c \/ (turn = c /\ phase = "snoop"))

BeforeResponse(c) ==
  InCachePhases /\ (turn < c \/ (turn = c /\ phase # "clock"))

BeforeClock(c) == InCachePhases /\ turn <= c

(* Core c has taken its block in this cycle and not retried its access.    *)
BeforeRetry(c) ==
  \/ InCachePhases /\ ~BeforeResponse(c)
  \/ phase = "core" /\ turn <= c

(* The last word of c's block is on a bus already free again.              *)
Completing(c) ==
  /\ ~busy /\ ~delay_in_progress /\ pending_origid = c /\ is_mine[c]
  /\ BeforeResponse(c)
  /\ RequestMatches(c, pending_cmd, waiting_addr[c])
  /\ bus_cmd = "BUS_FLUSH"
  /\ bus_addr = get_block_addr(waiting_addr[c]) + (WORDS_IN_BLOCK - 1)

(* Core d has answered the transaction that is on the bus.                 *)
Snooped(d) == flush_count > 0 \/ ~BeforeSnoop(d)

-----------------------------------------------------------------------------
SlotInv ==
  \A c \in Core :
    slot[c].cmd \in Transaction =>
      RequestMatches(c, slot[c].cmd, slot[c].addr) /\ ~is_mine[c]

DelayInv ==
  delay_in_progress =>
    /\ ~busy
    /\ RequestMatches(pending_origid, pending_cmd, pending_addr)
    /\ ~is_mine[pending_origid]
    /\ slot[pending_origid].cmd \notin Transaction

BusyInv ==
  busy =>
    LET a == waiting_addr[pending_origid]
    IN  /\ ~delay_in_progress
        /\ pending_cmd \in Transaction
        /\ RequestMatches(pending_origid, pending_cmd, a)
        /\ slot[pending_origid].cmd \notin Transaction
        /\ pending_addr = get_block_addr(a) + flush_count
        /\ Snooped(pending_origid) => is_mine[pending_origid]
        /\ flush_count = 0 => /\ bus_cmd = pending_cmd
                              /\ bus_origid = pending_origid /\ bus_addr = a
        /\ flush_count > 0 => bus_cmd = "BUS_FLUSH" /\ bus_addr = pending_addr - 1

IdleInv == ~busy => bus_cmd \notin Transaction

(* is_mine is raised by the core's own transaction ...                     *)
MineInv ==
  \A c \in Core :
    (is_mine[c] /\ waiting_for_bus[c]) =>
      (busy /\ pending_origid = c) \/ Completing(c)

(* ... and, after the block has come, lowered by the hit of the same cycle.*)
FilledInv ==
  \A c \in Core :
    (is_mine[c] /\ ~waiting_for_bus[c]) =>
      /\ BeforeRetry(c) /\ bus_cmd \notin Transaction /\ ~sending_flush[c]
      /\ access[c] # NoAccess
      /\ Present(c, access[c].addr)
      /\ access[c].op = "sw" => state[c][get_index(access[c].addr)] = "M"

AccessInv ==
  \A c \in Core :
    waiting_for_bus[c] =>
      /\ access[c] # NoAccess
      /\ waiting_addr[c] = access[c].addr
      /\ (is_write_request[c] <=> access[c].op = "sw")

(* A supplier posts a word per cycle and the bus takes at most one.        *)
SupplyInv ==
  \A d \in Core :
    sending_flush[d] =>
      /\ busy /\ pending_origid # d
      /\ flush_block_addr[d] = get_block_addr(waiting_addr[pending_origid])
      /\ words_left_to_flush[d] > 0
      /\ flush_count + words_left_to_flush[d] <=
           IF BeforeClock(d) THEN WORDS_IN_BLOCK ELSE WORDS_IN_BLOCK - 1

(* What other cores may still hold of the block under way to core c.       *)
OthersInv ==
  \A c, d \in Core :
    (/\ c # d
     /\ (busy /\ pending_origid = c /\ Snooped(d)) \/ Completing(c)
     /\ Present(d, waiting_addr[c]))
    => /\ pending_cmd = "BUS_RD"
       /\ state[d][get_index(waiting_addr[c])] = "S"
       /\ busy => shared_D
       /\ (~busy \/ flush_count > 0 \/ phase \in {"memory", "bus"}) => shared_Q

ProtocolInvariant ==
  /\ SlotInv /\ DelayInv /\ BusyInv /\ IdleInv /\ MineInv /\ FilledInv
  /\ AccessInv /\ SupplyInv /\ OthersInv /\ SingleWriter
=============================================================================
