------------------------------ MODULE Coherence ------------------------------
(***************************************************************************)
(* What the four files promise together: the MESI invariants, the order    *)
(* and origin of the words of a block, the agreement of clean copies with  *)
(* memory, and the refinement of AtomicMemory.                             *)
(***************************************************************************)
EXTENDS Multicore

(* Word k of the block that set i of core c has a copy of.                 *)
CopyAddr(c, i, k) == BlockOf(tag[c][i], i) + k

(* The block of the transaction that has the bus.                          *)
TransactionBlock == get_block_addr(pending_addr)

-----------------------------------------------------------------------------
(* A Modified or Exclusive copy is the only valid copy of its block, at    *)
(* every point between two calls of a cycle.                               *)
SingleWriter ==
  \A c, d \in Core, i \in Set :
    (c # d /\ tag[c][i] = tag[d][i] /\ state[c][i] \in {"M", "E"})
      => state[d][i] = "I"

(* A word is taken into a cache only from the cache's own transaction, and *)
(* only of the block it asked for (is_mine is never reset by the bus).     *)
FillsOwnBlock ==
  \A c \in Core :
    (phase = "response" /\ turn = c /\ Filling(c))
      => /\ pending_origid = c
         /\ get_block_addr(bus_addr) = get_block_addr(waiting_addr[c])

(* A core that flushes a block for others does so for the transaction that *)
(* has the bus, and never has more words left than the bus still expects.  *)
SupplyServesTransaction ==
  \A c \in Core :
    sending_flush[c] =>
      /\ busy /\ pending_origid # c
      /\ flush_block_addr[c] = TransactionBlock
      /\ flush_count + words_left_to_flush[c] <= WORDS_IN_BLOCK

(* Once memory has begun to send a block, no cache has that block Modified *)
(* and none is flushing it: memory's answer is never a stale one.          *)
MemoryAnswersAlone ==
  words_to_send \in 1 .. WORDS_IN_BLOCK - 1 =>
    \A c \in Core :
      /\ ~sending_flush[c]
      /\ Present(c, block_addr) => state[c][get_index(block_addr)] # "M"

(* The counter of a block being cleaned stays inside the block.            *)
CleanCounterInRange ==
  \A c \in Core : need_to_clean_first[c] => words_left[c] \in 0 .. BLOCK_SIZE - 1

(* Set i of core c is the target of the fill in progress.                  *)
BeingFilled(c, i) == waiting_for_bus[c] /\ get_index(waiting_addr[c]) = i

OnTheBus(a) == bus_cmd = "BUS_FLUSH" /\ bus_addr = a

(* A valid copy that is not Modified holds what memory holds, except for   *)
(* the block whose transaction is on the bus and for the word that memory  *)
(* is about to take.                                                       *)
CleanCopiesMatchMemory ==
  \A c \in Core, i \in Set, k \in 0 .. BLOCK_SIZE - 1 :
    LET a == CopyAddr(c, i, k)
    IN  (/\ state[c][i] \in {"S", "E"}
         /\ ~BeingFilled(c, i)
         /\ ~(busy /\ TransactionBlock = BlockOf(tag[c][i], i))
         /\ ~OnTheBus(a))
        => dsram[c][i * BLOCK_SIZE + k] = mem[a]

(* All words of a transaction come from one agent: memory or one owner.    *)
OneSupplier ==
  [][(busy /\ flush_count > 0 /\ pending_addr' # pending_addr)
       => bus_origid' = bus_origid]_vars

(* Round robin: a grant brings every core still waiting closer to its own. *)
RoundRobin ==
  [][\A c, d \in Core :
       (phase = "bus" /\ GrantRequest(c) /\ d \in Requesting \ {c})
         => Distance(d)' < Distance(d)]_vars

(* README.md:188 - the arbitration is fair: a BusRd/BusRdX stays a         *)
(* candidate, as it was posted, until it is granted.                       *)
RequestKept ==
  [][\A c \in Core : slot[c].cmd \in Transaction
                      => slot'[c] \in {slot[c], NoRequest}]_vars

(* A store that leaves the MEM stage in this step is in the core's cache.  *)
StoreCompletes ==
  \A c \in Core, a \in Addr, d \in Word :
    (/\ phase = "core" /\ turn = c
     /\ retired'[c] = [op |-> "sw", addr |-> a, data |-> d])
      => Present(c, a)' /\ dsram'[c][line(a)] = d

(* cache.h:95 - *ready is TRUE "if write completes, false if cache miss":  *)
(* no store leaves the MEM stage without being performed.                  *)
StoreIsInCache == [][StoreCompletes]_vars

(* A core invalidates a Modified block of its own when, by its counter, it *)
(* has written the block back (cache.c:101-105).                           *)
GivesUp(c, i) ==
  phase = "core" /\ turn = c /\ state[c][i] = "M" /\ state'[c][i] = "I"

WrittenBackStep ==
  \A c \in Core, i \in Set, k \in 0 .. BLOCK_SIZE - 1 :
    LET a == CopyAddr(c, i, k)
        d == dsram[c][i * BLOCK_SIZE + k]
    IN  GivesUp(c, i) =>
          \/ mem[a] = d
          \/ OnTheBus(a) /\ CoreFlushOnBus /\ bus_data = d
          \/ slot'[c] = [cmd |-> "BUS_FLUSH", addr |-> a, data |-> d]

(* README.md:158 - the cache is write-back: every word of a dirty block    *)
(* that a core gives up is in memory, or on its way there on the bus or in *)
(* the core's request line.  The core goes by the number of cycles in      *)
(* which it saw a word under its name on the bus (cache.c:223-226).        *)
WritesWholeBlockBack == [][WrittenBackStep]_vars

-----------------------------------------------------------------------------
(* The value of an address, wherever its last word is.                     *)
Owners(a) == {c \in Core : Present(c, a) /\ state[c][get_index(a)] = "M"}

Suppliers(a) ==
  {c \in Core : busy /\ TransactionBlock = get_block_addr(a) /\
                (sending_flush[c] \/ (bus_cmd = "BUS_FLUSH" /\ bus_origid = c))}

LastWordPosted(c, a) ==
  slot[c].cmd = "BUS_FLUSH" /\ slot[c].addr = a /\ state[c][get_index(a)] = "I"

Current(a) ==
  LET Pick(C) == dsram[CHOOSE c \in C : TRUE][line(a)]
      posted == {c \in Core : LastWordPosted(c, a)}
  IN  IF Owners(a) # {} THEN Pick(Owners(a))
      ELSE IF Suppliers(a) # {} THEN Pick(Suppliers(a))
      ELSE IF posted # {} THEN slot[CHOOSE c \in posted : TRUE].data
      ELSE IF OnTheBus(a) /\ CoreFlushOnBus THEN bus_data
      ELSE mem[a]

Abstract == INSTANCE AtomicMemory WITH
  memory <- [a \in Addr |-> Current(a)],
  performed <- [c \in Core |-> access[c].op = "sw" /\ is_mine[c]
                               /\ ~waiting_for_bus[c]]

(* Every load returns the last value stored, for any interleaving.         *)
ImplementsAtomicMemory == Abstract!Spec

-----------------------------------------------------------------------------
(* The loop goes on until every core has halted.                           *)
FairSpec == Spec /\ WF_vars(Next)

(* A load or store that has entered the MEM stage leaves it.               *)
AccessCompletes ==
  \A c \in Core : (access[c] # NoAccess) ~> (access[c] = NoAccess)
=============================================================================
