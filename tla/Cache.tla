-------------------------------- MODULE Cache --------------------------------
(***************************************************************************)
(* The cache of each core (sim/cache.c, sim/cache.h): a direct-mapped,     *)
(* write-back, write-allocate MESI cache.  cache_read and cache_write are  *)
(* called by the core's MEM stage, cache_snoop, cache_handle_bus_response  *)
(* and cache_clock by the main loop, once per cycle each.                  *)
(*                                                                         *)
(* A field that the code will not read before writing it again is set back *)
(* to its initial value: waiting_addr, is_write_request and write_data     *)
(* when a fill completes, flush_block_addr when a block has been sent,     *)
(* words_left when a block has been cleaned.  The retry at the end of      *)
(* cache_clock (cache.c:339-350) follows a return under the same condition *)
(* and is never reached.  The performance counters are left out.           *)
(***************************************************************************)
EXTENDS BusSystem

CONSTANT NUM_SETS   \* 64 in the code

ASSUME CacheAssumption == NUM_SETS \in Nat \ {0}

BLOCK_SIZE == WORDS_IN_BLOCK
Set == 0 .. NUM_SETS - 1
Line == 0 .. NUM_SETS * BLOCK_SIZE - 1
MESI == {"I", "S", "E", "M"}

VARIABLES
  tag, state,           \* tsram[]
  dsram,
  is_mine, waiting_for_bus, waiting_addr, is_write_request, write_data,
  sending_flush, flush_block_addr, words_left_to_flush,
  need_to_clean_first, words_left

arrays   == <<tag, state, dsram>>
request  == <<waiting_for_bus, waiting_addr, is_write_request, write_data>>
supply   == <<sending_flush, flush_block_addr, words_left_to_flush>>
cleaning == <<need_to_clean_first, words_left>>
cacheVars == <<arrays, is_mine, request, supply, cleaning>>

get_tag(a) == (a \div BLOCK_SIZE) \div NUM_SETS
get_index(a) == (a \div BLOCK_SIZE) % NUM_SETS
line(a) == get_index(a) * BLOCK_SIZE + get_block_offset(a)

(* The first word of the block that a tag and a set name.                  *)
BlockOf(t, i) == (t * NUM_SETS + i) * BLOCK_SIZE

(* The set has a valid copy of the block of address a.                     *)
Present(c, a) == tag[c][get_index(a)] = get_tag(a) /\ state[c][get_index(a)] # "I"

(* dsram[] read at an index that may lie outside it.                       *)
DsramWord(c, i) == IF i \in Line THEN {dsram[c][i]} ELSE Word

SetState(c, a, s) == state' = [state EXCEPT ![c][get_index(a)] = s]

CacheInit ==
  /\ tag = [c \in Core |-> [i \in Set |-> 0]]
  /\ state = [c \in Core |-> [i \in Set |-> "I"]]
  /\ dsram = [c \in Core |-> [i \in Line |-> 0]]
  /\ is_mine = [c \in Core |-> FALSE]
  /\ waiting_for_bus = [c \in Core |-> FALSE]
  /\ waiting_addr = [c \in Core |-> 0]
  /\ is_write_request = [c \in Core |-> FALSE]
  /\ write_data = [c \in Core |-> 0]
  /\ sending_flush = [c \in Core |-> FALSE]
  /\ flush_block_addr = [c \in Core |-> 0]
  /\ words_left_to_flush = [c \in Core |-> 0]
  /\ need_to_clean_first = [c \in Core |-> FALSE]
  /\ words_left = [c \in Core |-> -1]

-----------------------------------------------------------------------------
(* cache_read and cache_write.  `ready' is the value left in *ready, which *)
(* the caller has set to TRUE.                                             *)

Blocked(c) == waiting_for_bus[c] \/ sending_flush[c]

Refuse(c) ==
  /\ Blocked(c)
  /\ UNCHANGED <<cacheVars, slot, shared_D>>

(* The transaction that fetches the block of address a for core c.         *)
RequestBlock(c, a, cmd, d) ==
  /\ waiting_for_bus' = [waiting_for_bus EXCEPT ![c] = TRUE]
  /\ waiting_addr' = [waiting_addr EXCEPT ![c] = a]
  /\ is_write_request' = [is_write_request EXCEPT ![c] = (cmd = "BUS_RDX")]
  /\ write_data' = [write_data EXCEPT ![c] = d]
  /\ BusRequest(c, cmd, a, 0)
  /\ UNCHANGED <<arrays, is_mine, supply, cleaning>>

(* Mutant: the arguments of bus_request are evaluated left to right.       *)
Bug_CleanWord(c, a, k) ==
  LET i == get_index(a)
  IN  \E d \in DsramWord(c, i * BLOCK_SIZE + k) :
        BusRequest(c, "BUS_FLUSH", BlockOf(tag[c][i], i) + k - 1, d)

(* Word k of the block in the set of address a is flushed to clean it.     *)
(* One argument of bus_request increments words_left and another reads it, *)
(* which C leaves unsequenced.  The project's build evaluates the last one *)
(* first, and the `- 1' of the address makes up for it: the bus traces of  *)
(* counter/ and addserial/ show whole, aligned blocks.                     *)
CleanWord(c, a, k) ==
  LET i == get_index(a)
  IN  \E d \in DsramWord(c, i * BLOCK_SIZE + k) :
        BusRequest(c, "BUS_FLUSH", BlockOf(tag[c][i], i) + k, d)

(* Mutant: any valid block is cleaned, dirty or not.                       *)
Bug_StartCleaning(c, a) ==
  /\ state[c][get_index(a)] # "I" /\ ~need_to_clean_first[c]
  /\ need_to_clean_first' = [need_to_clean_first EXCEPT ![c] = TRUE]
  /\ words_left' = [words_left EXCEPT ![c] = 1]
  /\ CleanWord(c, a, 0)
  /\ UNCHANGED <<arrays, is_mine, request, supply, shared_D>>

StartCleaning(c, a) ==
  /\ state[c][get_index(a)] = "M" /\ ~need_to_clean_first[c]
  /\ need_to_clean_first' = [need_to_clean_first EXCEPT ![c] = TRUE]
  /\ words_left' = [words_left EXCEPT ![c] = 1]
  /\ CleanWord(c, a, 0)
  /\ UNCHANGED <<arrays, is_mine, request, supply, shared_D>>

(* Mutant: one word too many.                                              *)
Bug_LastWordToClean(c) == words_left[c] = BLOCK_SIZE

LastWordToClean(c) == words_left[c] + 1 = BLOCK_SIZE

ContinueCleaning(c, a) ==
  /\ need_to_clean_first[c]
  /\ CleanWord(c, a, words_left[c])
  /\ IF LastWordToClean(c)
     THEN /\ need_to_clean_first' = [need_to_clean_first EXCEPT ![c] = FALSE]
          /\ words_left' = [words_left EXCEPT ![c] = -1]
     ELSE /\ words_left' = [words_left EXCEPT ![c] = @ + 1]
          /\ UNCHANGED need_to_clean_first
  /\ UNCHANGED <<tag, dsram, is_mine, request, supply, shared_D>>

NothingToClean(c, a) ==
  state[c][get_index(a)] # "M" /\ ~need_to_clean_first[c]

ReadHit(c, a) ==
  /\ ~Blocked(c) /\ Present(c, a)
  /\ is_mine' = [is_mine EXCEPT ![c] = FALSE]
  /\ UNCHANGED <<arrays, request, supply, cleaning, slot, shared_D>>

ReadMiss(c, a) ==
  /\ ~Blocked(c) /\ ~Present(c, a)
  /\ \/ StartCleaning(c, a)
     \/ /\ ContinueCleaning(c, a)
        /\ IF LastWordToClean(c) THEN SetState(c, a, "I") ELSE UNCHANGED state
     \/ NothingToClean(c, a) /\ RequestBlock(c, a, "BUS_RD", 0) /\ UNCHANGED shared_D

CacheRead(c, a, ready) ==
  \/ ready  /\ ReadHit(c, a)
  \/ ~ready /\ (Refuse(c) \/ ReadMiss(c, a))

WriteHit(c, a, d) ==
  /\ ~Blocked(c) /\ Present(c, a) /\ state[c][get_index(a)] # "S"
  /\ dsram' = [dsram EXCEPT ![c][line(a)] = d]
  /\ SetState(c, a, "M")
  /\ is_mine' = [is_mine EXCEPT ![c] = FALSE]
  /\ UNCHANGED <<tag, request, supply, cleaning, slot, shared_D>>

(* The tag matches but the copy is shared, or invalid: no cleaning here.   *)
WriteUpgrade(c, a, d) ==
  /\ ~Blocked(c)
  /\ tag[c][get_index(a)] = get_tag(a) /\ state[c][get_index(a)] \in {"S", "I"}
  /\ RequestBlock(c, a, "BUS_RDX", d)
  /\ IF state[c][get_index(a)] = "S" THEN BusSetShared ELSE UNCHANGED shared_D

WriteMiss(c, a, d, ready) ==
  /\ ~Blocked(c) /\ tag[c][get_index(a)] # get_tag(a)
  /\ \/ ~ready /\ StartCleaning(c, a)
     \/ /\ ContinueCleaning(c, a)   \* *ready stays TRUE until the last word
        /\ ready = ~LastWordToClean(c)
        /\ UNCHANGED state
     \/ /\ ~ready /\ NothingToClean(c, a)
        /\ RequestBlock(c, a, "BUS_RDX", d)
        /\ UNCHANGED shared_D

CacheWrite(c, a, d, ready) ==
  \/ ready  /\ WriteHit(c, a, d)
  \/ ~ready /\ (Refuse(c) \/ WriteUpgrade(c, a, d))
  \/ WriteMiss(c, a, d, ready)

-----------------------------------------------------------------------------
(* cache_snoop                                                             *)

SnoopOwnRequest(c) ==
  /\ bus_origid = c /\ bus_cmd \in Transaction
  /\ is_mine' = [is_mine EXCEPT ![c] = TRUE]
  /\ UNCHANGED <<arrays, request, supply, cleaning, shared_D>>

(* Mutant: a word that did not get onto the bus is not repeated.           *)
Bug_RepeatCleanWord(c) == UNCHANGED words_left

(* A cleaning core whose word is not the one on the bus sends it again.    *)
RepeatCleanWord(c) ==
  IF need_to_clean_first[c] /\ (bus_cmd # "BUS_FLUSH" \/ bus_origid # c)
  THEN words_left' = [words_left EXCEPT ![c] = @ - 1]
  ELSE UNCHANGED words_left

(* The dirty block asked for on the bus is to be flushed word by word.     *)
StartSupply(c) ==
  /\ sending_flush' = [sending_flush EXCEPT ![c] = TRUE]
  /\ flush_block_addr' = [flush_block_addr EXCEPT ![c] = get_block_addr(bus_addr)]
  /\ words_left_to_flush' = [words_left_to_flush EXCEPT ![c] = BLOCK_SIZE]

SnoopState(c) == state[c][get_index(bus_addr)]

(* Mutant: an Exclusive copy is not downgraded.                            *)
Bug_SnoopRead(c) ==
  /\ bus_cmd = "BUS_RD" /\ Present(c, bus_addr)
  /\ BusSetShared
  /\ IF SnoopState(c) = "M"
     THEN StartSupply(c) /\ SetState(c, bus_addr, "S")
     ELSE UNCHANGED <<supply, state>>

SnoopRead(c) ==
  /\ bus_cmd = "BUS_RD" /\ Present(c, bus_addr)
  /\ BusSetShared
  /\ SetState(c, bus_addr, "S")
  /\ IF SnoopState(c) = "M" THEN StartSupply(c) ELSE UNCHANGED supply

(* Mutants: a shared copy is kept; a Modified block is dropped.            *)
Bug_KeepShared(c) ==
  /\ bus_cmd = "BUS_RDX" /\ Present(c, bus_addr)
  /\ IF SnoopState(c) = "S" THEN UNCHANGED state ELSE SetState(c, bus_addr, "I")
  /\ IF SnoopState(c) = "M" THEN StartSupply(c) ELSE UNCHANGED supply
  /\ UNCHANGED shared_D
Bug_DropModified(c) ==
  /\ bus_cmd = "BUS_RDX" /\ Present(c, bus_addr)
  /\ SetState(c, bus_addr, "I")
  /\ UNCHANGED <<supply, shared_D>>

SnoopReadX(c) ==
  /\ bus_cmd = "BUS_RDX" /\ Present(c, bus_addr)
  /\ SetState(c, bus_addr, "I")
  /\ IF SnoopState(c) = "M" THEN StartSupply(c) ELSE UNCHANGED supply
  /\ UNCHANGED shared_D

SnoopNothing(c) ==
  /\ bus_cmd \notin Transaction \/ ~Present(c, bus_addr)
  /\ UNCHANGED <<state, supply, shared_D>>

SnoopOther(c) ==
  /\ ~(bus_origid = c /\ bus_cmd \in Transaction)
  /\ RepeatCleanWord(c)
  /\ SnoopRead(c) \/ SnoopReadX(c) \/ SnoopNothing(c)
  /\ UNCHANGED <<tag, dsram, is_mine, request, need_to_clean_first>>

CacheSnoop(c) == (SnoopOwnRequest(c) \/ SnoopOther(c)) /\ UNCHANGED slot

-----------------------------------------------------------------------------
(* cache_handle_bus_response                                               *)

Filling(c) == waiting_for_bus[c] /\ is_mine[c] /\ bus_cmd = "BUS_FLUSH"

LastWordOnBus == get_block_offset(bus_addr) = BLOCK_SIZE - 1

FillWord(c) ==
  /\ Filling(c) /\ ~LastWordOnBus
  /\ dsram' = [dsram EXCEPT ![c][line(bus_addr)] = bus_data]
  /\ UNCHANGED <<tag, state, request>>

(* The last word of the block: tag and state change, a pending store is    *)
(* performed, and the request is over.                                     *)
FillLastWord(c) ==
  LET i == get_index(bus_addr)
      target == i * BLOCK_SIZE + get_block_offset(waiting_addr[c])
      filled == [dsram[c] EXCEPT ![line(bus_addr)] = bus_data]
  IN  /\ Filling(c) /\ LastWordOnBus
      /\ dsram' = [dsram EXCEPT ![c] =
                     IF is_write_request[c]
                     THEN [filled EXCEPT ![target] = write_data[c]] ELSE filled]
      /\ tag' = [tag EXCEPT ![c][i] = get_tag(bus_addr)]
      /\ SetState(c, bus_addr, IF is_write_request[c] THEN "M"
                               ELSE IF shared_Q THEN "S" ELSE "E")
      /\ waiting_for_bus' = [waiting_for_bus EXCEPT ![c] = FALSE]
      /\ waiting_addr' = [waiting_addr EXCEPT ![c] = 0]
      /\ is_write_request' = [is_write_request EXCEPT ![c] = FALSE]
      /\ write_data' = [write_data EXCEPT ![c] = 0]

CacheHandleBusResponse(c) ==
  /\ \/ FillWord(c)
     \/ FillLastWord(c)
     \/ ~Filling(c) /\ UNCHANGED <<arrays, request>>
  /\ UNCHANGED <<is_mine, supply, cleaning, slot, shared_D>>

-----------------------------------------------------------------------------
(* cache_clock                                                             *)

(* Mutant: sending_flush is not cleared after the last word.               *)
Bug_EndSupply(c) == UNCHANGED <<sending_flush, flush_block_addr>>

EndSupply(c) ==
  IF words_left_to_flush[c] = 1
  THEN /\ sending_flush' = [sending_flush EXCEPT ![c] = FALSE]
       /\ flush_block_addr' = [flush_block_addr EXCEPT ![c] = 0]
  ELSE UNCHANGED <<sending_flush, flush_block_addr>>

(* The next word of a block asked for goes to the slot, whatever it holds. *)
SendBlockWord(c) ==
  LET k == BLOCK_SIZE - words_left_to_flush[c]
      i == get_index(flush_block_addr[c])
  IN  /\ sending_flush[c] /\ words_left_to_flush[c] > 0
      /\ BusRequest(c, "BUS_FLUSH", flush_block_addr[c] + k,
                    dsram[c][i * BLOCK_SIZE + k])
      /\ words_left_to_flush' = [words_left_to_flush EXCEPT ![c] = @ - 1]
      /\ EndSupply(c)

CacheClock(c) ==
  /\ \/ SendBlockWord(c)
     \/ /\ ~(sending_flush[c] /\ words_left_to_flush[c] > 0)
        /\ UNCHANGED <<supply, slot>>
  /\ UNCHANGED <<arrays, is_mine, request, cleaning, shared_D>>

-----------------------------------------------------------------------------
CacheTypeOK ==
  /\ tag \in [Core -> [Set -> Int]]
  /\ state \in [Core -> [Set -> MESI]]
  /\ dsram \in [Core -> [Line -> Word]]
  /\ is_mine \in [Core -> BOOLEAN]
  /\ waiting_for_bus \in [Core -> BOOLEAN]
  /\ waiting_addr \in [Core -> Addr]
  /\ is_write_request \in [Core -> BOOLEAN]
  /\ write_data \in [Core -> Word]
  /\ sending_flush \in [Core -> BOOLEAN]
  /\ flush_block_addr \in [Core -> Int]
  /\ words_left_to_flush \in [Core -> 0 .. BLOCK_SIZE]
  /\ need_to_clean_first \in [Core -> BOOLEAN]
  /\ words_left \in [Core -> Int]
=============================================================================
