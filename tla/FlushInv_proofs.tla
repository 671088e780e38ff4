--------------------------- MODULE FlushInv_proofs ---------------------------
(***************************************************************************)
(* MemoryInvariant is inductive, for every value of the constants and      *)
(* every program; MemoryAnswersAlone follows.                              *)
(*                                                                         *)
(* FlushInvariant holds, for every value of the constants, in every        *)
(* execution in which no store is lost; OneSupplier and                    *)
(* CleanCounterInRange follow.  No store is lost by programs whose stores  *)
(* to one set are all to one block (StoresFit).                            *)
(***************************************************************************)
EXTENDS FlushInv, ProtocolInv_proofs

-----------------------------------------------------------------------------
(* Ranges and positions that every step uses.                              *)
LEMMA MemoryTypes ==
  ASSUME TypeOK
  PROVE  /\ WORDS_IN_BLOCK \in Nat \ {0, 1}
         /\ words_to_send \in 0 .. WORDS_IN_BLOCK
         /\ wait_cycles \in Nat
         /\ flush_count \in 0 .. WORDS_IN_BLOCK - 1
         /\ pending_origid \in Core /\ pending_addr \in Int
         /\ RequestedBlock \in Int
         /\ words_left_to_flush \in [Core -> 0 .. WORDS_IN_BLOCK]
         /\ slot \in [Agent -> Request \cup {NoRequest}]
         /\ MAIN_MEMORY \in Agent /\ Core \subseteq Agent
         /\ \A c \in Core : c # MAIN_MEMORY
<1>1. waiting_addr[pending_origid] \in Int
  BY TypeOKParts, ZeroInAddr DEF CacheTypeOK, BusTypeOK
<1>2. RequestedBlock \in Int
  BY <1>1, BlockAddr DEF RequestedBlock
<1>3. MAIN_MEMORY \in Agent /\ Core \subseteq Agent /\ \A c \in Core : c # MAIN_MEMORY
  BY BusAssumption DEF Core, Agent, MAIN_MEMORY
<1> QED
  BY <1>2, <1>3, TypeOKParts, BusAssumption, MemoryAssumption
     DEF BusTypeOK, CacheTypeOK, MemoryTypeOK, BLOCK_SIZE

(* On a busy bus without a word of the block yet, no flush is on the lines; *)
(* the address of the next word is in the block asked for.                  *)
LEMMA NextWord ==
  ASSUME TypeOK, ProtocolInvariant, busy
  PROVE  /\ ~delay_in_progress
         /\ pending_addr = RequestedBlock + flush_count
         /\ flush_count = 0 => ~CoreFlushOnBus
  BY TypeOKParts DEF ProtocolInvariant, BusyInv, CoreFlushOnBus, RequestedBlock, Transaction,
     BusTypeOK

-----------------------------------------------------------------------------
(* memory_clock.                                                           *)

(* The word that memory posts is the one the bus expects.                  *)
LEMMA SentWord ==
  ASSUME TypeOK, ProtocolInvariant, MemoryInvariant, phase = "memory", SendWord
  PROVE  /\ words_to_send > 0 /\ busy /\ flush_count + words_to_send = WORDS_IN_BLOCK
         /\ slot'[MAIN_MEMORY].cmd = "BUS_FLUSH" /\ slot'[MAIN_MEMORY].addr = pending_addr
         /\ flush_count > 0 => bus_origid = MAIN_MEMORY
<1>1. words_to_send > 0 /\ busy /\ ~CoreFlushOnBus /\ block_addr = RequestedBlock
  BY DEF SendWord, MemoryInvariant, RespondInv
<1>2. flush_count + words_to_send = WORDS_IN_BLOCK
  BY <1>1, MemoryTypes DEF MemoryInvariant, PaceInv
<1>3. block_addr + (WORDS_IN_BLOCK - words_to_send) = pending_addr
  BY <1>1, <1>2, NextWord, MemoryTypes
<1>4. slot'[MAIN_MEMORY].cmd = "BUS_FLUSH" /\ slot'[MAIN_MEMORY].addr = pending_addr
  BY <1>3, MemoryTypes DEF SendWord, BusRequest
<1>5. flush_count > 0 => bus_origid = MAIN_MEMORY
  BY <1>1 DEF CoreFlushOnBus, ProtocolInvariant, BusyInv
<1> QED
  BY <1>1, <1>2, <1>4, <1>5

LEMMA MemoryKeepsAnswer ==
  ASSUME TypeOK, ProtocolInvariant, MemoryInvariant, MemoryPhase
  PROVE  MemoryInvariant'
<1>1. /\ phase = "memory" /\ phase' = "bus"
      /\ UNCHANGED <<lines, shared, delay, control, pending, cacheVars, cores>>
  BY DEF MemoryPhase, MemoryClock, GoTo
<1>2. \A c \in Core : ~BeforeClock(c) /\ ~BeforeClock(c)' /\ Snooped(c)
  BY <1>1, OutsideCachePhases DEF InCachePhases, BeforeClock
<1>3. WaitingInv'
  BY <1>1 DEF MemoryInvariant, WaitingInv, Present, cacheVars, arrays, request
<1> USE <1>1, <1>2, <1>3, MemoryTypes, NextWord
        DEF MemoryInvariant, lines, delay, control, pending, cacheVars, arrays, request, supply
<1>4. CASE TakeFlushedWord
  <2>1. words_to_send' = 0 /\ wait_cycles' = 0 /\ ~waiting_to_respond' /\ slot' = slot
    BY <1>4 DEF TakeFlushedWord, CancelResponse, RespondInv, response
  <2>2. busy => flush_count > 0
    BY <1>4 DEF TakeFlushedWord
  <2> QED
    BY <2>1, <2>2 DEF RespondInv, PaceInv, MemorySlotInv, SupplierInv
<1>5. CASE CountDown
  <2>1. /\ words_to_send = WORDS_IN_BLOCK /\ flush_count = 0 /\ busy
        /\ wait_cycles' \in Nat /\ ~CoreFlushOnBus'
        /\ UNCHANGED <<waiting_to_respond, block_addr, words_to_send, slot>>
    BY <1>5 DEF CountDown, RespondInv, PaceInv, CoreFlushOnBus
  <2>2. RespondInv' /\ PaceInv'
    BY <2>1 DEF RespondInv, PaceInv, RequestedBlock, Present
  <2>3. MemorySlotInv' /\ SupplierInv'
    BY <2>1 DEF MemorySlotInv, SupplierInv
  <2> QED
    BY <2>2, <2>3
<1>6. CASE SendWord
  <2>1. /\ wait_cycles = 0 /\ words_to_send > 0 /\ busy
        /\ words_to_send' = words_to_send - 1
        /\ waiting_to_respond' <=> words_to_send' # 0
        /\ words_to_send' # 0 => block_addr' = block_addr
        /\ wait_cycles' = wait_cycles /\ ~CoreFlushOnBus
    BY <1>6 DEF SendWord, RespondInv
  <2>2. /\ flush_count + words_to_send = WORDS_IN_BLOCK
        /\ slot'[MAIN_MEMORY].cmd = "BUS_FLUSH" /\ slot'[MAIN_MEMORY].addr = pending_addr
    BY <1>6, SentWord
  <2>3. \A d \in Core : ~sending_flush[d]
    BY <2>1 DEF SupplierInv
  <2>4. RespondInv'
    BY <2>1 DEF RespondInv, RequestedBlock, Present
  <2>5. PaceInv' /\ MemorySlotInv' /\ SupplierInv'
    BY <2>1, <2>2, <2>3 DEF PaceInv, MemorySlotInv, SupplierInv
  <2> QED
    BY <2>4, <2>5
<1>7. CASE StartResponse
  <2>1. /\ bus_cmd \in Transaction /\ words_to_send = 0
        /\ waiting_to_respond' /\ wait_cycles' \in Nat
        /\ block_addr' = get_block_addr(bus_addr)
        /\ words_to_send' = WORDS_IN_BLOCK /\ slot' = slot
    BY <1>7, MemoryAssumption DEF StartResponse, Responding, RespondInv
  <2>2. busy /\ flush_count = 0 /\ bus_addr = waiting_addr[pending_origid]
    BY <2>1, TransactionOnBus
  <2>3. RespondInv'
    BY <2>1, <2>2 DEF RespondInv, RequestedBlock, ProtocolInvariant, OthersInv, Present
  <2>4. PaceInv' /\ MemorySlotInv'
    BY <2>1, <2>2 DEF PaceInv, MemorySlotInv
  <2>5. SupplierInv'
    BY <2>1, <2>2 DEF SupplierInv
  <2> QED
    BY <2>3, <2>4, <2>5
<1>8. CASE MemoryIdle
  <2>1. /\ words_to_send = 0
        /\ UNCHANGED <<waiting_to_respond, wait_cycles, block_addr, words_to_send, slot>>
    BY <1>8 DEF MemoryIdle, Responding, RespondInv, memoryVars, response
  <2> QED
    BY <2>1 DEF RespondInv, PaceInv, MemorySlotInv, SupplierInv
<1> QED
  BY <1>4, <1>5, <1>6, <1>7, <1>8 DEF MemoryPhase, MemoryClock

(* The edge of the shared line touches nothing of this.                    *)
LEMMA EdgeKeepsAnswer ==
  ASSUME TypeOK, MemoryInvariant, EdgePhase
  PROVE  MemoryInvariant'
<1>1. /\ phase = "edge" /\ phase' = "memory"
      /\ UNCHANGED <<lines, slot, delay, control, pending, cacheVars, memoryVars>>
  BY DEF EdgePhase, SharedEdge, GoTo
<1>2. \A c \in Core : ~BeforeClock(c) /\ ~BeforeClock(c)'
  BY <1>1 DEF InCachePhases, BeforeClock
<1> USE <1>1, <1>2, MemoryTypes
        DEF MemoryInvariant, lines, delay, control, pending, cacheVars, arrays, request, supply,
            memoryVars, response
<1>a. RespondInv' /\ WaitingInv'
  BY DEF RespondInv, WaitingInv, RequestedBlock, Present
<1>b. PaceInv' /\ MemorySlotInv' /\ SupplierInv'
  BY DEF PaceInv, MemorySlotInv, SupplierInv, CoreFlushOnBus
<1> QED
  BY <1>a, <1>b

-----------------------------------------------------------------------------
(* bus_clock.                                                              *)
LEMMA BusKeepsAnswer ==
  ASSUME TypeOK, ProtocolInvariant, MemoryInvariant, BusPhase
  PROVE  MemoryInvariant'
<1>1. /\ phase = "bus" /\ phase' = "snoop"
      /\ \A c \in Core : ~BeforeClock(c) /\ BeforeClock(c)' /\ (sending_flush[c] => busy)
      /\ UNCHANGED <<cacheVars, memoryVars>>
  BY BeforeBusClock DEF BusPhase
<1>2. WaitingInv'
  BY <1>1 DEF MemoryInvariant, WaitingInv, Present, cacheVars, arrays, request
<1> USE <1>1, <1>2, MemoryTypes, NextWord
        DEF MemoryInvariant, cacheVars, arrays, request, supply, memoryVars, response
<1>3. CASE DelayStep
  <2>1. delay_in_progress /\ ~busy /\ words_to_send = 0 /\ slot' = slot
    BY <1>3 DEF DelayStep, ProtocolInvariant, DelayInv, RespondInv
  <2> QED
    BY <2>1 DEF RespondInv, PaceInv, MemorySlotInv, SupplierInv
<1>4. ASSUME NEW a \in Agent, GrantFlush(a) PROVE MemoryInvariant'
  <2>1. /\ ~delay_in_progress /\ ~delay_in_progress' /\ slot[a].cmd = "BUS_FLUSH"
        /\ busy => slot[a].addr = pending_addr
        /\ bus_cmd' = "BUS_FLUSH" /\ bus_origid' = a
        /\ slot' = [slot EXCEPT ![a] = NoRequest]
        /\ pending_origid' = pending_origid
    BY <1>4 DEF GrantFlush, LowestFlush, FlushReady, FlushAllowed, PutOnBus, delay
  <2>2. CASE ~busy
    <3>1. ~busy' /\ words_to_send = 0 /\ \A c \in Core : ~sending_flush[c]
      BY <1>4, <2>2 DEF GrantFlush, CountWord, BlockComplete, RespondInv
    <3> QED
      BY <2>1, <3>1 DEF RespondInv, PaceInv, MemorySlotInv, SupplierInv
  <2>3. CASE BlockComplete
    <3>1. /\ busy /\ flush_count + 1 = WORDS_IN_BLOCK /\ ~busy' /\ flush_count' = 0
      BY <1>4, <2>3 DEF GrantFlush, CountWord, BlockComplete
    <3>2. words_to_send = 0
      BY <3>1 DEF PaceInv
    <3>3. \A c \in Core : ~sending_flush[c]
      BY <3>1 DEF ProtocolInvariant, SupplyInv
    <3> QED
      BY <2>1, <3>1, <3>2, <3>3 DEF RespondInv, PaceInv, MemorySlotInv, SupplierInv
  <2>4. CASE busy /\ ~BlockComplete
    <3>1. busy' /\ flush_count' = flush_count + 1
      BY <1>4, <2>4 DEF GrantFlush, CountWord
    <3>2. words_to_send = WORDS_IN_BLOCK => flush_count = 0 /\ CoreFlushOnBus'
      BY <2>1, <2>4 DEF PaceInv, MemorySlotInv, CoreFlushOnBus
    <3>3. RespondInv'
      BY <2>1, <3>1 DEF RespondInv, RequestedBlock, Present
    <3>4. PaceInv'
      BY <3>1, <3>2 DEF PaceInv
    <3>5. MemorySlotInv'
      BY <2>1, <3>1 DEF MemorySlotInv
    <3>6. SupplierInv'
      BY <3>1, <3>2 DEF SupplierInv
    <3> QED
      BY <3>3, <3>4, <3>5, <3>6
  <2> QED
    BY <2>2, <2>3, <2>4
<1>5. ASSUME NEW g \in Core, GrantRequest(g) PROVE MemoryInvariant'
  <2>1. /\ ~busy /\ ~busy' /\ words_to_send = 0 /\ MAIN_MEMORY \notin FlushReady
        /\ slot'[MAIN_MEMORY] = slot[MAIN_MEMORY]
    BY <1>5 DEF GrantRequest, RespondInv
  <2> QED
    BY <2>1 DEF RespondInv, PaceInv, MemorySlotInv, SupplierInv, FlushReady, FlushAllowed
<1>6. CASE WaitForWord
  <2>1. /\ busy /\ FlushReady = {}
        /\ UNCHANGED <<lines, slot, delay, control, pending>>
    BY <1>6 DEF WaitForWord, busVars
  <2>2. /\ words_to_send = 0 \/ (words_to_send = WORDS_IN_BLOCK /\ flush_count = 0)
        /\ \A d \in Core : sending_flush[d] => flush_count > 0 /\ words_to_send = 0
    BY <2>1 DEF PaceInv, SupplierInv, FlushReady, FlushAllowed
  <2> USE <2>1 DEF lines, delay, control, pending
  <2>3. RespondInv'
    BY DEF RespondInv, RequestedBlock, Present
  <2>4. PaceInv' /\ MemorySlotInv' /\ SupplierInv'
    BY <2>2 DEF PaceInv, MemorySlotInv, SupplierInv
  <2> QED
    BY <2>3, <2>4
<1>7. CASE GoIdle
  <2>1. ~busy /\ words_to_send = 0 /\ UNCHANGED <<slot, delay, control>>
    BY <1>7 DEF GoIdle, RespondInv
  <2> QED
    BY <2>1 DEF RespondInv, PaceInv, MemorySlotInv, SupplierInv, delay, control
<1> QED
  BY <1>3, <1>4, <1>5, <1>6, <1>7 DEF BusPhase, BusClock

-----------------------------------------------------------------------------
(* cache_snoop: copies are only given up, and a Modified one only while    *)
(* memory has no answer.                                                   *)
LEMMA SnoopKeepsAnswer ==
  ASSUME TypeOK, ProtocolInvariant, MemoryInvariant, NEW c \in Core, SnoopPhase(c)
  PROVE  MemoryInvariant'
<1> DEFINE i == get_index(bus_addr)
           o == pending_origid
<1>1. /\ phase = "snoop" /\ phase' = "response" /\ BeforeClock(c)
      /\ \A d \in Core : BeforeClock(d)' = BeforeClock(d)
  BY SnoopPosition
<1>2. UNCHANGED <<lines, slot, delay, control, pending, tag, request, memoryVars>>
  BY DEF SnoopPhase, CacheSnoop, SnoopOwnRequest, SnoopOther, arrays
<1>3. state' = state \/ (i \in Set /\ \E m \in {"I", "S"} : state' = [state EXCEPT ![c][i] = m])
  <2>1. i \in Set
    BY TypeOKParts, IndexInSet DEF BusTypeOK
  <2> QED
    BY <2>1 DEF SnoopPhase, CacheSnoop, SnoopOwnRequest, SnoopOther, SnoopRead, SnoopReadX,
       SnoopNothing, SetState, arrays
<1>4. supply' = supply \/ (/\ bus_cmd \in Transaction /\ bus_origid # c
                           /\ Present(c, bus_addr) /\ SnoopState(c) = "M" /\ StartSupply(c))
  BY DEF SnoopPhase, CacheSnoop, SnoopOwnRequest, SnoopOther, SnoopRead, SnoopReadX,
     SnoopNothing, Transaction
<1>5. \A d \in Core, j \in Set : state'[d][j] = state[d][j] \/ state'[d][j] \in {"I", "S"}
  <2>1. state \in [Core -> [Set -> MESI]]
    BY TypeOKParts DEF CacheTypeOK
  <2> HIDE DEF i
  <2> QED
    BY <1>3, <2>1
<1>6. \A d \in Core : get_index(waiting_addr[d]) \in Set
  BY TypeOKParts, ZeroInAddr, IndexInSet DEF CacheTypeOK
<1>7. /\ sending_flush \in [Core -> BOOLEAN]
      /\ words_left_to_flush \in [Core -> 0 .. WORDS_IN_BLOCK]
  BY TypeOKParts DEF CacheTypeOK, BLOCK_SIZE
<1> USE <1>1, <1>2, MemoryTypes
        DEF MemoryInvariant, lines, delay, control, pending, request, memoryVars, response
<1>a. RespondInv'
  BY <1>5, <1>6 DEF RespondInv, RequestedBlock, Present
<1>b. PaceInv' /\ MemorySlotInv'
  BY DEF PaceInv, MemorySlotInv, CoreFlushOnBus
<1>c. SupplierInv'
  <2>1. CASE supply' = supply
    BY <2>1 DEF SupplierInv, supply, CoreFlushOnBus
  <2>2. CASE supply' # supply
    <3>1. /\ bus_cmd \in Transaction /\ bus_origid # c
          /\ Present(c, bus_addr) /\ SnoopState(c) = "M" /\ StartSupply(c)
      BY <1>4, <2>2
    <3>2. busy /\ flush_count = 0 /\ o # c /\ bus_addr = waiting_addr[o]
      BY <3>1, TransactionOnBus
    <3>3. words_to_send = 0
      BY <3>1, <3>2 DEF RespondInv, SnoopState
    <3>4. /\ words_left_to_flush'[c] = WORDS_IN_BLOCK
          /\ \A d \in Core : d # c => /\ words_left_to_flush'[d] = words_left_to_flush[d]
                                      /\ sending_flush'[d] = sending_flush[d]
      BY <1>7, <3>1 DEF StartSupply, BLOCK_SIZE
    <3> QED
      BY <3>2, <3>3, <3>4 DEF SupplierInv
  <2> QED
    BY <2>1, <2>2
<1>d. WaitingInv'
  BY <1>5, <1>6 DEF WaitingInv, Present
<1> QED
  BY <1>a, <1>b, <1>c, <1>d

(* cache_handle_bus_response: with its last word the bus is free.          *)
LEMMA ResponseKeepsAnswer ==
  ASSUME TypeOK, ProtocolInvariant, MemoryInvariant, NEW c \in Core, ResponsePhase(c)
  PROVE  MemoryInvariant'
<1>1. /\ phase = "response" /\ phase' = "clock"
      /\ \A d \in Core : BeforeClock(d)' = BeforeClock(d)
  BY ResponsePosition
<1>2. UNCHANGED <<lines, slot, delay, control, pending, supply, memoryVars>>
  BY DEF ResponsePhase, CacheHandleBusResponse
<1> USE <1>1, <1>2, MemoryTypes
        DEF MemoryInvariant, lines, delay, control, pending, supply, memoryVars, response
<1>a. PaceInv' /\ MemorySlotInv' /\ SupplierInv'
  BY DEF PaceInv, MemorySlotInv, SupplierInv, CoreFlushOnBus
<1>3. CASE UNCHANGED <<tag, state, request>>
  BY <1>a, <1>3 DEF RespondInv, WaitingInv, RequestedBlock, Present, request
<1>4. CASE FillLastWord(c)
  <2>1. ~busy /\ words_to_send = 0
    BY <1>4, WordTaken DEF FillLastWord, Completing, RespondInv
  <2>2. RespondInv'
    BY <2>1 DEF RespondInv
  <2>3. /\ ~waiting_for_bus'[c]
        /\ \A d \in Core \ {c} : /\ waiting_for_bus'[d] = waiting_for_bus[d]
                                 /\ waiting_addr'[d] = waiting_addr[d]
                                 /\ tag'[d] = tag[d] /\ state'[d] = state[d]
    BY <1>4, TypeOKParts DEF FillLastWord, SetState, CacheTypeOK
  <2>4. WaitingInv'
    BY <2>3 DEF WaitingInv, Present
  <2> QED
    BY <1>a, <2>2, <2>4
<1> QED
  BY <1>3, <1>4 DEF ResponsePhase, CacheHandleBusResponse, FillWord, arrays

(* cache_clock: the first word of a supplied block goes to the line.       *)
LEMMA ClockKeepsAnswer ==
  ASSUME TypeOK, ProtocolInvariant, MemoryInvariant, NEW c \in Core, ClockPhase(c)
  PROVE  MemoryInvariant'
<1>1. /\ BeforeClock(c) /\ ~BeforeClock(c)'
      /\ phase \notin {"memory", "bus"} /\ phase' \notin {"memory", "bus"}
      /\ \A d \in Core \ {c} : BeforeClock(d)' = BeforeClock(d)
  BY ClockPosition
<1>2. UNCHANGED <<lines, delay, control, pending, tag, state, request, memoryVars>>
  BY DEF ClockPhase, CacheClock, arrays
<1>3. \A a \in Agent : a # c => slot'[a] = slot[a]
  BY MemoryTypes DEF ClockPhase, CacheClock, SendBlockWord, BusRequest
<1>4. \A d \in Core \ {c} : /\ sending_flush'[d] = sending_flush[d]
                            /\ words_left_to_flush'[d] = words_left_to_flush[d]
  BY TypeOKParts DEF ClockPhase, CacheClock, SendBlockWord, EndSupply, supply, CacheTypeOK
<1> USE <1>1, <1>2, <1>3, <1>4, MemoryTypes
        DEF MemoryInvariant, lines, delay, control, pending, request, memoryVars, response
<1>a. RespondInv' /\ WaitingInv'
  BY DEF RespondInv, WaitingInv, RequestedBlock, Present
<1>b. PaceInv' /\ MemorySlotInv'
  BY DEF PaceInv, MemorySlotInv, CoreFlushOnBus
<1>c. SupplierInv'
  <2>1. ASSUME sending_flush'[c]
        PROVE  /\ sending_flush[c]
               /\ words_left_to_flush'[c] = words_left_to_flush[c] - 1
               /\ flush_count = 0 => slot'[c].cmd = "BUS_FLUSH" /\ slot'[c].addr = pending_addr
    <3>1. SendBlockWord(c)
      BY <2>1 DEF ClockPhase, CacheClock, ProtocolInvariant, SupplyInv, supply
    <3>2. sending_flush[c] /\ words_left_to_flush'[c] = words_left_to_flush[c] - 1
      BY <3>1 DEF SendBlockWord
    <3>3. ASSUME flush_count = 0 PROVE flush_block_addr[c] + (BLOCK_SIZE - words_left_to_flush[c]) = pending_addr
      BY <3>2, <3>3, NextWord DEF SupplierInv, ProtocolInvariant, SupplyInv, RequestedBlock, BLOCK_SIZE
    <3> QED
      BY <3>1, <3>2, <3>3 DEF SendBlockWord, BusRequest
  <2> QED
    BY <2>1 DEF SupplierInv, CoreFlushOnBus
<1> QED
  BY <1>a, <1>b, <1>c

-----------------------------------------------------------------------------
(* core_memory.                                                            *)

(* What an access of core c may do to what this invariant is about.        *)
LEMMA CoreAccessFrame ==
  ASSUME TypeOK, NEW c \in Core, CorePhase(c)
  PROVE  /\ UNCHANGED <<lines, delay, control, pending, memoryVars, tag, supply>>
         /\ \A a \in Agent : a # c \/ Blocked(c) => slot'[a] = slot[a]
         /\ \A d \in Core : d # c \/ Blocked(c) =>
              /\ waiting_for_bus'[d] = waiting_for_bus[d]
              /\ waiting_addr'[d] = waiting_addr[d]
              /\ state'[d] = state[d]
         /\ \A i \in Set : \/ state'[c][i] \in {state[c][i], "I"}
                           \/ state'[c][i] = "M" /\ state[c][i] \in {"E", "M"}
         /\ waiting_for_bus'[c] /\ ~waiting_for_bus[c] =>
              /\ state' = state
              /\ Present(c, waiting_addr'[c]) => state[c][get_index(waiting_addr'[c])] = "S"
<1> DEFINE Quiet == UNCHANGED <<cacheVars, slot>>
           Cleans(a) == \/ StartCleaning(c, a)
                        \/ ContinueCleaning(c, a) /\ (SetState(c, a, "I") \/ UNCHANGED state)
<1>1. /\ UNCHANGED <<lines, delay, control, pending, memoryVars>>
      /\ slot \in [Agent -> Request \cup {NoRequest}] /\ Core \subseteq Agent
      /\ state \in [Core -> [Set -> MESI]]
      /\ waiting_for_bus \in [Core -> BOOLEAN] /\ waiting_addr \in [Core -> Addr]
  BY TypeOKParts, MemoryTypes DEF CorePhase, CacheTypeOK
<1>2. CASE Quiet
  <2>1. UNCHANGED <<tag, state, waiting_for_bus, waiting_addr, supply, slot>>
    BY <1>2 DEF cacheVars, arrays, request
  <2> QED
    BY <1>1, <2>1
<1>3. ASSUME NEW a \in Addr, NEW d, ~Blocked(c), ReadHit(c, a) \/ WriteHit(c, a, d)
      PROVE  /\ UNCHANGED <<tag, supply, slot, waiting_for_bus, waiting_addr>>
             /\ \A e \in Core : e # c => state'[e] = state[e]
             /\ \A i \in Set : \/ state'[c][i] = state[c][i]
                               \/ state'[c][i] = "M" /\ state[c][i] \in {"E", "M"}
  <2>1. get_index(a) \in Set
    BY IndexInSet, ZeroInAddr
  <2>2. UNCHANGED <<tag, supply, slot, waiting_for_bus, waiting_addr>>
    BY <1>3 DEF ReadHit, WriteHit, arrays, request
  <2>3. \/ state' = state
        \/ /\ state' = [state EXCEPT ![c][get_index(a)] = "M"]
           /\ state[c][get_index(a)] \in {"E", "M"}
    BY <1>1, <1>3, <2>1 DEF ReadHit, WriteHit, arrays, SetState, Present, MESI
  <2> QED
    BY <1>1, <2>1, <2>2, <2>3
<1>4. ASSUME NEW a \in Addr, ~Blocked(c), Cleans(a)
      PROVE  /\ UNCHANGED <<tag, supply, waiting_for_bus, waiting_addr>>
             /\ \A b \in Agent : b # c => slot'[b] = slot[b]
             /\ \A e \in Core : e # c => state'[e] = state[e]
             /\ \A i \in Set : state'[c][i] = state[c][i] \/ state'[c][i] = "I"
  <2>1. get_index(a) \in Set
    BY IndexInSet, ZeroInAddr
  <2>2. UNCHANGED <<tag, supply, waiting_for_bus, waiting_addr>>
    BY <1>4 DEF StartCleaning, ContinueCleaning, arrays, request
  <2>3. \A b \in Agent : b # c => slot'[b] = slot[b]
    BY <1>1, <1>4 DEF StartCleaning, ContinueCleaning, CleanWord, BusRequest
  <2>4. state' = state \/ state' = [state EXCEPT ![c][get_index(a)] = "I"]
    BY <1>4 DEF StartCleaning, ContinueCleaning, arrays, SetState
  <2> QED
    BY <1>1, <2>1, <2>2, <2>3, <2>4
<1>5. ASSUME NEW a \in Addr, NEW cmd, NEW d, ~Blocked(c), RequestBlock(c, a, cmd, d),
             Present(c, a) => state[c][get_index(a)] = "S"
      PROVE  /\ UNCHANGED <<tag, state, supply>> /\ waiting_addr'[c] = a
             /\ \A b \in Agent : b # c => slot'[b] = slot[b]
             /\ \A e \in Core : e # c => /\ waiting_for_bus'[e] = waiting_for_bus[e]
                                         /\ waiting_addr'[e] = waiting_addr[e]
  BY <1>1, <1>5 DEF RequestBlock, BusRequest, arrays
<1>6. ASSUME NEW r \in AccessOf(c), NEW ready \in BOOLEAN, Offer(c, r, ready)
      PROVE  \/ Quiet
             \/ ~Blocked(c) /\ (ReadHit(c, r.addr) \/ WriteHit(c, r.addr, r.data))
             \/ ~Blocked(c) /\ Cleans(r.addr)
             \/ ~Blocked(c) /\ (Present(c, r.addr) => state[c][get_index(r.addr)] = "S")
                            /\ \E cmd, d : RequestBlock(c, r.addr, cmd, d)
  <2>1. CASE CacheRead(c, r.addr, ready)
    BY <2>1 DEF CacheRead, Refuse, ReadHit, ReadMiss
  <2>2. CASE CacheWrite(c, r.addr, r.data, ready)
    BY <2>2 DEF CacheWrite, Refuse, WriteHit, WriteUpgrade, WriteMiss, Present
  <2> QED
    BY <1>6, <2>1, <2>2 DEF Offer
<1>7. CASE MemoryAccess(c)
  <2>1. PICK r \in IF access[c] = NoAccess THEN AccessOf(c) ELSE {access[c]}, ready \in BOOLEAN :
          Offer(c, r, ready)
    BY <1>7 DEF MemoryAccess
  <2>2. r \in AccessOf(c) /\ r.addr \in Addr
    <3>1. r \in AccessOf(c)
      BY TypeOKParts DEF CoresTypeOK
    <3> QED
      BY <3>1, ProgramAssumption DEF AccessOf, LoadOf, StoreOf
  <2> HIDE DEF Quiet, Cleans
  <2>3. CASE Quiet
    BY <1>2, <2>3
  <2>4. CASE ~Blocked(c) /\ (ReadHit(c, r.addr) \/ WriteHit(c, r.addr, r.data))
    BY <1>1, <1>3, <2>2, <2>4 DEF Blocked
  <2>5. CASE ~Blocked(c) /\ Cleans(r.addr)
    <3>1. /\ UNCHANGED <<tag, supply, waiting_for_bus, waiting_addr>>
          /\ \A b \in Agent : b # c => slot'[b] = slot[b]
          /\ \A e \in Core : e # c => state'[e] = state[e]
          /\ \A i \in Set : state'[c][i] = state[c][i] \/ state'[c][i] = "I"
      BY <1>4, <2>2, <2>5
    <3> QED
      BY <1>1, <2>5, <3>1
  <2>6. CASE /\ ~Blocked(c) /\ (Present(c, r.addr) => state[c][get_index(r.addr)] = "S")
             /\ \E cmd, d : RequestBlock(c, r.addr, cmd, d)
    <3>1. /\ UNCHANGED <<tag, state, supply>> /\ waiting_addr'[c] = r.addr
          /\ \A b \in Agent : b # c => slot'[b] = slot[b]
          /\ \A e \in Core : e # c => /\ waiting_for_bus'[e] = waiting_for_bus[e]
                                      /\ waiting_addr'[e] = waiting_addr[e]
      BY <1>5, <2>2, <2>6
    <3> QED
      BY <1>1, <2>6, <3>1
  <2> QED
    BY <1>6, <2>1, <2>2, <2>3, <2>4, <2>5, <2>6
<1>8. CASE NoMemoryAccess(c)
  BY <1>2, <1>8 DEF NoMemoryAccess
<1> QED
  BY <1>7, <1>8 DEF CorePhase

LEMMA CoreKeepsAnswer ==
  ASSUME TypeOK, ProtocolInvariant, MemoryInvariant, NEW c \in Core, CorePhase(c)
  PROVE  MemoryInvariant'
<1> DEFINE o == pending_origid
<1>1. /\ phase \notin {"memory", "bus"} /\ phase' \notin {"memory", "bus"}
      /\ \A d \in Core : ~BeforeClock(d) /\ ~BeforeClock(d)'
  BY CorePosition
<1>2. \A d \in Core : get_index(waiting_addr[d]) \in Set
  BY TypeOKParts, ZeroInAddr, IndexInSet DEF CacheTypeOK
<1>3. busy => waiting_for_bus[o]
  BY DEF ProtocolInvariant, BusyInv, RequestMatches
<1> USE <1>1, CoreAccessFrame, MemoryTypes
        DEF MemoryInvariant, lines, delay, control, pending, memoryVars, response, supply
<1>a. RespondInv'
  <2> DEFINE j == get_index(waiting_addr[o])
  <2>1. words_to_send > 0 => waiting_addr'[o] = waiting_addr[o]
    BY <1>3 DEF RespondInv, Blocked
  <2>2. ASSUME words_to_send > 0, NEW d \in Core \ {o}, tag[d][j] = get_tag(waiting_addr[o]),
               state'[d][j] # "I"
        PROVE  state'[d][j] = "S"
    <3>1. j \in Set /\ (state[d][j] # "I" => state[d][j] = "S")
      BY <1>2, <2>2 DEF RespondInv, Present
    <3> QED
      BY <2>2, <3>1
  <2> QED
    BY <2>1, <2>2 DEF RespondInv, RequestedBlock, Present
<1>b. PaceInv' /\ MemorySlotInv' /\ SupplierInv'
  BY DEF PaceInv, MemorySlotInv, SupplierInv, CoreFlushOnBus, Blocked
<1>c. WaitingInv'
  BY <1>2 DEF WaitingInv, Present, Blocked
<1> QED
  BY <1>a, <1>b, <1>c

-----------------------------------------------------------------------------
LEMMA InitAnswer == Init => MemoryInvariant
<1> SUFFICES ASSUME Init PROVE MemoryInvariant
  OBVIOUS
<1>1. /\ phase = "memory" /\ ~busy /\ ~delay_in_progress /\ words_to_send = 0
      /\ wait_cycles = 0 /\ ~waiting_to_respond
      /\ \A c \in Core : ~waiting_for_bus[c] /\ ~sending_flush[c]
  BY DEF Init, BusInit, MemoryInit, CacheInit
<1> QED
  BY <1>1, BusAssumption
     DEF MemoryInvariant, RespondInv, PaceInv, MemorySlotInv, SupplierInv, WaitingInv

LEMMA StutterKeepsAnswer ==
  ASSUME TypeOK, MemoryInvariant, UNCHANGED vars
  PROVE  MemoryInvariant'
<1>1. /\ UNCHANGED <<lines, slot, delay, control, pending, cacheVars, memoryVars>>
      /\ UNCHANGED <<phase, turn>>
  BY DEF vars, busVars, loop
<1>2. \A c \in Core : BeforeClock(c)' = BeforeClock(c)
  BY <1>1 DEF InCachePhases, BeforeClock
<1> USE <1>1, <1>2, MemoryTypes
        DEF MemoryInvariant, lines, delay, control, pending, cacheVars, arrays, request, supply,
            memoryVars, response
<1>a. RespondInv' /\ WaitingInv'
  BY DEF RespondInv, WaitingInv, RequestedBlock, Present
<1>b. PaceInv' /\ MemorySlotInv' /\ SupplierInv'
  BY DEF PaceInv, MemorySlotInv, SupplierInv, CoreFlushOnBus
<1> QED
  BY <1>a, <1>b

(* Memory's answer to a transaction, for any number of cores, any sizes    *)
(* and latency and any programs: see MemoryInv.                            *)
THEOREM MemoryInvariantHolds == Spec => []MemoryInvariant
<1>1. TypeOK /\ ProtocolInvariant /\ MemoryInvariant /\ [Next]_vars => MemoryInvariant'
  <2> SUFFICES ASSUME TypeOK, ProtocolInvariant, MemoryInvariant, [Next]_vars
               PROVE  MemoryInvariant'
    OBVIOUS
  <2>1. CASE Next
    BY <2>1, MemoryKeepsAnswer, BusKeepsAnswer, EdgeKeepsAnswer, SnoopKeepsAnswer,
       ResponseKeepsAnswer, ClockKeepsAnswer, CoreKeepsAnswer DEF Next, Tick
  <2>2. CASE UNCHANGED vars
    BY <2>2, StutterKeepsAnswer
  <2> QED
    BY <2>1, <2>2
<1> QED
  BY <1>1, InitAnswer, TypeCorrect, ProtocolHolds, PTL DEF Spec

(* Once memory has begun to send a block, no cache has that block Modified *)
(* and none is flushing it, whatever the programs do.                      *)
THEOREM MemoryAnswersAloneHolds == Spec => []MemoryAnswersAlone
<1>1. ASSUME TypeOK, ProtocolInvariant, MemoryInvariant PROVE MemoryAnswersAlone
  <2> SUFFICES ASSUME words_to_send \in 1 .. WORDS_IN_BLOCK - 1, NEW c \in Core
               PROVE  /\ ~sending_flush[c]
                      /\ Present(c, block_addr) => state[c][get_index(block_addr)] # "M"
    BY DEF MemoryAnswersAlone
  <2> DEFINE o == pending_origid
  <2>1. /\ get_index(block_addr) = get_index(waiting_addr[o])
        /\ get_tag(block_addr) = get_tag(waiting_addr[o])
        /\ busy /\ words_to_send > 0
    <3>1. words_to_send > 0 /\ busy /\ block_addr = RequestedBlock
      BY <1>1, MemoryTypes DEF MemoryInvariant, RespondInv
    <3>2. waiting_addr[o] \in Int /\ 0 \in 0 .. WORDS_IN_BLOCK - 1
      <4>1. o \in Core /\ waiting_addr \in [Core -> Addr]
        BY <1>1, TypeOKParts DEF CacheTypeOK, BusTypeOK
      <4>2. waiting_addr[o] \in Int
        BY <4>1, ZeroInAddr
      <4> QED
        BY <4>2, BusAssumption
    <3>3. block_addr = get_block_addr(waiting_addr[o]) + 0
      BY <1>1, <3>1, MemoryTypes DEF RequestedBlock
    <3> QED
      BY <3>1, <3>2, <3>3, WordInBlock
  <2>2. Present(c, block_addr) <=> Present(c, waiting_addr[o])
    BY <2>1 DEF Present
  <2>3. ASSUME c = o, Present(c, waiting_addr[o]) PROVE state[c][get_index(waiting_addr[o])] = "S"
    BY <1>1, <2>1, <2>3
       DEF MemoryInvariant, WaitingInv, ProtocolInvariant, BusyInv, RequestMatches
  <2>4. ASSUME c # o, Present(c, waiting_addr[o]) PROVE state[c][get_index(waiting_addr[o])] = "S"
    BY <1>1, <2>1, <2>4 DEF MemoryInvariant, RespondInv
  <2>5. ~sending_flush[c]
    BY <1>1, MemoryTypes DEF MemoryInvariant, SupplierInv
  <2> QED
    BY <2>1, <2>2, <2>3, <2>4, <2>5
<1> QED
  BY <1>1, MemoryInvariantHolds, ProtocolHolds, TypeCorrect, PTL

-----------------------------------------------------------------------------
(* The block that a tag and a set name (the address cache_read flushes to).*)
LEMMA BlockOfTag ==
  ASSUME NEW t \in Int, NEW i \in Set, NEW k \in 0 .. WORDS_IN_BLOCK - 1
  PROVE  /\ BlockOf(t, i) \in Int
         /\ get_block_addr(BlockOf(t, i) + k) = BlockOf(t, i)
         /\ get_index(BlockOf(t, i) + k) = i /\ get_tag(BlockOf(t, i) + k) = t
<1> DEFINE W == WORDS_IN_BLOCK
           N == NUM_SETS
           q == t * N + i
           x == q * W + k
<1>1. /\ W \in Nat /\ W > 0 /\ N \in Nat /\ N > 0 /\ i \in 0 .. N - 1
      /\ q \in Int /\ q * W \in Int /\ x \in Int /\ BlockOf(t, i) = q * W
  BY BusAssumption, CacheAssumption DEF Set, BlockOf, BLOCK_SIZE
<1>2. q \div N = t /\ q % N = i
  BY <1>1
<1> HIDE DEF q
<1>3. x % W = k /\ x \div W = q
  BY <1>1
<1>4. get_block_addr(x) = q * W
  BY <1>1, <1>3 DEF get_block_addr
<1>5. get_index(x) = i /\ get_tag(x) = t
  BY <1>2, <1>3 DEF get_index, get_tag, BLOCK_SIZE
<1> QED
  BY <1>1, <1>4, <1>5

LEMMA BlockOfAddr ==
  ASSUME NEW a \in Int
  PROVE  BlockOf(get_tag(a), get_index(a)) = get_block_addr(a)
<1> DEFINE W == WORDS_IN_BLOCK
           N == NUM_SETS
           q == a \div W
<1>1. /\ W \in Nat /\ W > 0 /\ N \in Nat /\ N > 0 /\ q \in Int /\ a = W * q + (a % W)
  BY BusAssumption, CacheAssumption
<1> HIDE DEF q
<1>2. q = N * (q \div N) + (q % N) /\ q \div N \in Int
  BY <1>1
<1>3. get_tag(a) * N + get_index(a) = q
  BY <1>1, <1>2 DEF get_tag, get_index, BLOCK_SIZE, q
<1>4. a % W \in Int
  BY <1>1
<1> QED
  BY <1>1, <1>3, <1>4 DEF BlockOf, get_block_addr, BLOCK_SIZE

(* The block that is in the way of core d's access.                        *)
LEMMA Victim ==
  ASSUME TypeOK, NEW d \in Core
  PROVE  /\ AccessSet(d) \in Set /\ VictimBlock(d) \in Int
         /\ \A k \in 0 .. WORDS_IN_BLOCK - 1 :
              get_block_addr(VictimBlock(d) + k) = VictimBlock(d)
         /\ \A a \in Int : get_block_addr(a) = VictimBlock(d) <=>
              get_index(a) = AccessSet(d) /\ get_tag(a) = tag[d][AccessSet(d)]
<1> DEFINE i == AccessSet(d)
           t == tag[d][i]
<1>1. i \in Set /\ t \in Int /\ 0 \in 0 .. WORDS_IN_BLOCK - 1
  <2>1. access[d].addr \in Int
    BY TypeOKParts, ZeroInAddr DEF CoresTypeOK, Access
  <2>2. i \in Set
    BY <2>1, IndexInSet DEF AccessSet
  <2>3. tag \in [Core -> [Set -> Int]] /\ 0 \in 0 .. WORDS_IN_BLOCK - 1
    BY TypeOKParts, BusAssumption DEF CacheTypeOK
  <2> QED
    BY <2>2, <2>3
<1> HIDE DEF i, t
<1>2. /\ BlockOf(t, i) \in Int /\ get_index(BlockOf(t, i) + 0) = i /\ get_tag(BlockOf(t, i) + 0) = t
      /\ \A k \in 0 .. WORDS_IN_BLOCK - 1 : get_block_addr(BlockOf(t, i) + k) = BlockOf(t, i)
  BY <1>1, BlockOfTag
<1>3. ASSUME NEW a \in Int, get_block_addr(a) = BlockOf(t, i)
      PROVE  get_index(a) = i /\ get_tag(a) = t
  BY <1>1, <1>2, <1>3, WordInBlock
<1>4. ASSUME NEW a \in Int, get_index(a) = i, get_tag(a) = t
      PROVE  get_block_addr(a) = BlockOf(t, i)
  BY <1>4, BlockOfAddr
<1>5. VictimBlock(d) = BlockOf(t, i)
  BY DEF VictimBlock, t, i
<1> QED
  BY <1>1, <1>2, <1>3, <1>4, <1>5 DEF t, i

(* Ranges.                                                                 *)
LEMMA FlushTypes ==
  ASSUME TypeOK
  PROVE  /\ tag \in [Core -> [Set -> Int]] /\ state \in [Core -> [Set -> MESI]]
         /\ sending_flush \in [Core -> BOOLEAN] /\ flush_block_addr \in [Core -> Int]
         /\ need_to_clean_first \in [Core -> BOOLEAN] /\ words_left \in [Core -> Int]
         /\ waiting_addr \in [Core -> Int] /\ waiting_for_bus \in [Core -> BOOLEAN]
         /\ \A a \in Agent : FlushPosted(a) => slot[a].addr \in Int
         /\ bus_addr \in Int
<1>1. \A a \in Agent : FlushPosted(a) => slot[a].addr \in Int
  BY TypeOKParts DEF BusTypeOK, Request, NoRequest, FlushPosted, Transaction
<1>2. waiting_addr \in [Core -> Int]
  BY TypeOKParts, ZeroInAddr DEF CacheTypeOK
<1> QED
  BY <1>1, <1>2, TypeOKParts DEF CacheTypeOK, BusTypeOK

(* The next word of the block on the bus is a word of that block.          *)
LEMMA NextWordInBlock ==
  ASSUME TypeOK, ProtocolInvariant, busy
  PROVE  get_block_addr(pending_addr) = RequestedBlock
<1>1. waiting_addr[pending_origid] \in Int /\ flush_count \in 0 .. WORDS_IN_BLOCK - 1
  BY MemoryTypes, FlushTypes
<1> QED
  BY <1>1, NextWord, WordInBlock DEF RequestedBlock

-----------------------------------------------------------------------------
(* memory_clock posts a word only when memory is the one that supplies.    *)
LEMMA MemoryKeepsFlush ==
  ASSUME TypeOK, ProtocolInvariant, MemoryInvariant, FlushInvariant, MemoryPhase
  PROVE  FlushInvariant'
<1>1. /\ phase = "memory" /\ phase' = "bus"
      /\ UNCHANGED <<lines, delay, control, pending, cacheVars, cores>>
  BY DEF MemoryPhase, MemoryClock, GoTo
<1>2. \A c \in Core : slot'[c] = slot[c]
  BY MemoryTypes DEF MemoryPhase, MemoryClock, TakeFlushedWord, CountDown, SendWord,
     StartResponse, MemoryIdle, BusRequest
<1>3. \A c \in Core : /\ AfterCoreOf(c) /\ AfterCoreOf(c)'
                      /\ ~BeforeSnoop(c) /\ ~BeforeSnoop(c)'
                      /\ ~BeforeClock(c) /\ ~BeforeClock(c)'
  BY <1>1 DEF AfterCoreOf, BeforeSnoop, BeforeClock, InCachePhases
<1> USE <1>1, <1>2, <1>3, MemoryTypes, FlushTypes
        DEF FlushInvariant, lines, delay, control, pending, cacheVars, arrays, request, supply,
            cleaning, cores
<1>a. CleanInv'
  BY DEF CleanInv, CleaningOf, MissesOther, Supplies, VictimBlock, AccessSet, RequestedBlock, FlushPosted
<1>b. SupplyPace'
  BY DEF SupplyPace, FlushPosted, Present
<1>c. OneSource'
  BY DEF OneSource, SourceOf, FlushPosted, RequestedBlock
<1>d. PostedInv'
  BY DEF PostedInv, PostedOf, FlushPosted, MissesOther, VictimBlock, AccessSet, Supplies, RequestedBlock
<1>e. MemoryWordInv'
  <2>1. CASE SendWord
    BY <2>1, SentWord DEF MemoryWordInv
  <2>2. CASE slot' = slot
    BY <2>2 DEF MemoryWordInv, AtStart, FlushPosted
  <2> QED
    BY <2>1, <2>2 DEF MemoryPhase, MemoryClock, TakeFlushedWord, CountDown, StartResponse,
       MemoryIdle
<1> QED
  BY <1>a, <1>b, <1>c, <1>d, <1>e

LEMMA EdgeKeepsFlush ==
  ASSUME TypeOK, FlushInvariant, EdgePhase
  PROVE  FlushInvariant'
<1>1. /\ phase = "edge" /\ phase' = "memory"
      /\ UNCHANGED <<lines, slot, delay, control, pending, cacheVars, cores>>
  BY DEF EdgePhase, SharedEdge, GoTo
<1>2. \A c \in Core : /\ AfterCoreOf(c) /\ AfterCoreOf(c)'
                      /\ ~BeforeSnoop(c) /\ ~BeforeSnoop(c)'
                      /\ ~BeforeClock(c) /\ ~BeforeClock(c)'
  BY <1>1 DEF AfterCoreOf, BeforeSnoop, BeforeClock, InCachePhases
<1> USE <1>1, <1>2, MemoryTypes, FlushTypes
        DEF FlushInvariant, lines, delay, control, pending, cacheVars, arrays, request, supply,
            cleaning, cores
<1>a. CleanInv'
  BY DEF CleanInv, CleaningOf, MissesOther, Supplies, VictimBlock, AccessSet, RequestedBlock, FlushPosted
<1>b. SupplyPace'
  BY DEF SupplyPace, FlushPosted, Present
<1>c. OneSource'
  BY DEF OneSource, SourceOf, FlushPosted, RequestedBlock
<1>d. PostedInv'
  BY DEF PostedInv, PostedOf, FlushPosted, MissesOther, VictimBlock, AccessSet, Supplies, RequestedBlock
<1>e. MemoryWordInv'
  BY DEF MemoryWordInv, AtStart, FlushPosted
<1> QED
  BY <1>a, <1>b, <1>c, <1>d, <1>e
(* cache_handle_bus_response: a core that takes its last word is cleaning  *)
(* nothing, and on the bus, free by then, nobody supplies a block.         *)
LEMMA ResponseKeepsFlush ==
  ASSUME TypeOK, ProtocolInvariant, FlushInvariant, NEW c \in Core, ResponsePhase(c)
  PROVE  FlushInvariant'
<1>1. /\ phase = "response" /\ phase' = "clock"
      /\ \A d \in Core : /\ BeforeSnoop(d)' = BeforeSnoop(d)
                         /\ BeforeClock(d)' = BeforeClock(d)
  BY ResponsePosition
<1>2. \A d \in Core : ~AfterCoreOf(d) /\ ~AfterCoreOf(d)'
  BY <1>1 DEF AfterCoreOf
<1>3. UNCHANGED <<lines, slot, delay, control, pending, supply, cleaning, access>>
  BY DEF ResponsePhase, CacheHandleBusResponse, cores
<1> USE <1>1, <1>2, <1>3, MemoryTypes, FlushTypes
        DEF FlushInvariant, lines, delay, control, pending, supply, cleaning
<1>a. MemoryWordInv'
  BY DEF MemoryWordInv, AtStart, FlushPosted
<1>4. CASE UNCHANGED <<tag, state, request>>
  <2>1. CleanInv'
    BY <1>4 DEF CleanInv, CleaningOf, MissesOther, Supplies, VictimBlock, AccessSet, RequestedBlock,
       FlushPosted, request
  <2>2. SupplyPace'
    BY <1>4 DEF SupplyPace, FlushPosted, Present
  <2>3. OneSource'
    BY <1>4 DEF OneSource, SourceOf, FlushPosted, RequestedBlock, request
  <2>4. PostedInv'
    BY <1>4 DEF PostedInv, PostedOf, FlushPosted, MissesOther, VictimBlock, AccessSet, Supplies,
       RequestedBlock, request
  <2> QED
    BY <1>a, <2>1, <2>2, <2>3, <2>4
<1>5. CASE FillLastWord(c)
  <2>1. ~busy /\ waiting_for_bus[c] /\ \A d \in Core : ~sending_flush[d]
    BY <1>5, WordTaken DEF FillLastWord, Filling, Completing, ProtocolInvariant, SupplyInv
  <2>2. ~need_to_clean_first[c] /\ ~FlushPosted(c)
    BY <2>1 DEF CleanInv, CleaningOf, PostedInv, PostedOf, MissesOther, Supplies
  <2>3. \A d \in Core \ {c} : /\ waiting_for_bus'[d] = waiting_for_bus[d]
                              /\ tag'[d] = tag[d] /\ state'[d] = state[d]
    BY <1>5 DEF FillLastWord, SetState
  <2>4. CleanInv'
    BY <2>1, <2>2, <2>3 DEF CleanInv, CleaningOf, MissesOther, Supplies, VictimBlock, AccessSet, FlushPosted
  <2>5. SupplyPace' /\ OneSource'
    BY <2>1 DEF SupplyPace, OneSource, SourceOf
  <2>6. PostedInv'
    BY <2>1, <2>2, <2>3 DEF PostedInv, PostedOf, MissesOther, Supplies, VictimBlock, AccessSet, FlushPosted
  <2> QED
    BY <1>a, <2>4, <2>5, <2>6
<1> QED
  BY <1>4, <1>5 DEF ResponsePhase, CacheHandleBusResponse, FillWord, arrays

(* cache_clock: the supplier posts the word that the bus expects next.     *)
LEMMA ClockKeepsFlush ==
  ASSUME TypeOK, ProtocolInvariant, FlushInvariant, NEW c \in Core, ClockPhase(c)
  PROVE  FlushInvariant'
<1>1. /\ BeforeClock(c) /\ ~BeforeClock(c)' /\ ~BeforeSnoop(c) /\ ~BeforeSnoop(c)'
      /\ phase \notin {"memory", "bus", "edge"} /\ phase' \notin {"memory", "bus", "edge"}
      /\ \A d \in Core : /\ BeforeSnoop(d)' = BeforeSnoop(d)
                         /\ d # c => BeforeClock(d)' = BeforeClock(d)
      /\ \A d \in Core : ~AfterCoreOf(d) /\ ~AfterCoreOf(d)'
  <2>1. /\ phase = "clock" /\ turn = c
        /\ IF c = NUM_CORES - 1 THEN phase' = "core" /\ turn' = 0
                                ELSE phase' = "snoop" /\ turn' = c + 1
    BY DEF ClockPhase, GoTo
  <2>2. \A d \in Core : ~AfterCoreOf(d) /\ ~AfterCoreOf(d)'
    BY <2>1, BusAssumption DEF AfterCoreOf, Core
  <2>3. ~BeforeSnoop(c)
    BY <2>1, BusAssumption DEF BeforeSnoop, Core
  <2> QED
    BY <2>1, <2>2, <2>3, ClockPosition
<1>2. UNCHANGED <<lines, delay, control, pending, tag, state, request, cleaning, access>>
  BY DEF ClockPhase, CacheClock, arrays, cores
<1> USE <1>1, <1>2, MemoryTypes, FlushTypes
        DEF FlushInvariant, lines, delay, control, pending, request, cleaning
<1>3. CASE UNCHANGED <<supply, slot>> /\ ~sending_flush[c]
  <2>1. CleanInv'
    BY <1>3 DEF CleanInv, CleaningOf, MissesOther, Supplies, VictimBlock, AccessSet, RequestedBlock,
       FlushPosted, supply
  <2>2. SupplyPace'
    BY <1>3 DEF SupplyPace, FlushPosted, Present, supply
  <2>3. OneSource'
    BY <1>3 DEF OneSource, SourceOf, FlushPosted, RequestedBlock
  <2>4. PostedInv'
    BY <1>3 DEF PostedInv, PostedOf, FlushPosted, MissesOther, VictimBlock, AccessSet, Supplies,
       RequestedBlock, supply
  <2>5. MemoryWordInv'
    BY <1>3 DEF MemoryWordInv, AtStart, FlushPosted
  <2> QED
    BY <2>1, <2>2, <2>3, <2>4, <2>5
<1>4. CASE SendBlockWord(c)
  <2>1. /\ busy /\ sending_flush[c] /\ flush_block_addr[c] = RequestedBlock
        /\ flush_count + words_left_to_flush[c] = WORDS_IN_BLOCK
        /\ flush_count > 0 => bus_origid = c
    BY <1>4 DEF SendBlockWord, ProtocolInvariant, SupplyInv, RequestedBlock, SupplyPace
  <2>2. pending_addr = flush_block_addr[c] + (BLOCK_SIZE - words_left_to_flush[c])
    BY <2>1, NextWord DEF BLOCK_SIZE
  <2>3. /\ slot'[c].cmd = "BUS_FLUSH" /\ slot'[c].addr = pending_addr
        /\ \A a \in Agent : a # c => slot'[a] = slot[a]
    BY <1>4, <2>2 DEF SendBlockWord, BusRequest
  <2>4. /\ words_left_to_flush'[c] = words_left_to_flush[c] - 1
        /\ sending_flush'[c] => words_left_to_flush'[c] > 0 /\ flush_block_addr'[c] = flush_block_addr[c]
        /\ ~sending_flush'[c] => flush_count > 0
        /\ \A d \in Core : d # c => /\ words_left_to_flush'[d] = words_left_to_flush[d]
                                    /\ sending_flush'[d] = sending_flush[d]
                                    /\ flush_block_addr'[d] = flush_block_addr[d]
    <3>1. CASE words_left_to_flush[c] = 1
      BY <1>4, <2>1, <3>1 DEF SendBlockWord, EndSupply
    <3>2. CASE words_left_to_flush[c] # 1
      <4>1. words_left_to_flush[c] - 1 > 0
        BY <1>4, <3>2 DEF SendBlockWord
      <4> QED
        BY <1>4, <2>1, <3>2, <4>1 DEF SendBlockWord, EndSupply
    <3> QED
      BY <3>1, <3>2
  <2>5. Supplies(c) /\ Supplies(c)' /\ \A d \in Core : d # c => Supplies(d)' = Supplies(d)
    BY <2>1, <2>4 DEF Supplies
  <2>6. RequestedBlock' = RequestedBlock /\ get_block_addr(pending_addr) = RequestedBlock
    BY <2>1, NextWordInBlock DEF RequestedBlock
  <2>7. CleanInv'
    BY <2>3, <2>4, <2>5, <2>6 DEF CleanInv, CleaningOf, MissesOther, VictimBlock, AccessSet, FlushPosted
  <2>8. SupplyPace'
    <3>1. ASSUME NEW d \in Core \ {c} PROVE ~sending_flush'[d]
      BY <2>1, <2>4 DEF SupplyPace
    <3>2. sending_flush'[c] => \A d \in Core \ {c} : ~Present(d, flush_block_addr[c])
      BY <2>1 DEF SupplyPace
    <3>3. words_left_to_flush[c] \in Int /\ words_left_to_flush'[c] = words_left_to_flush[c] - 1
      BY <2>4
    <3>4. sending_flush'[c] => \A d \in Core \ {c} : ~Present(d, flush_block_addr[c])'
      BY <2>4, <3>2 DEF Present
    <3>5. flush_count + words_left_to_flush'[c] = WORDS_IN_BLOCK - 1
      BY <2>1, <3>3
    <3> QED
      BY <2>1, <2>3, <3>1, <3>4, <3>5 DEF SupplyPace, FlushPosted
  <2>9. OneSource'
    BY <2>1, <2>3, <2>6 DEF OneSource, SourceOf, FlushPosted
  <2>10. PostedInv'
    BY <2>3, <2>5, <2>6 DEF PostedInv, PostedOf, FlushPosted, MissesOther, VictimBlock, AccessSet
  <2>11. MemoryWordInv'
    BY <2>3 DEF MemoryWordInv, AtStart, FlushPosted
  <2> QED
    BY <2>7, <2>8, <2>9, <2>10, <2>11
<1> QED
  BY <1>3, <1>4 DEF ClockPhase, CacheClock, ProtocolInvariant, SupplyInv
(* cache_snoop: a core that must give up the block it is cleaning supplies *)
(* it, and no other core has a copy; a cleaning core steps back by one     *)
(* word, when its word has not been taken.                                 *)
LEMMA SnoopFrame ==
  ASSUME TypeOK, ProtocolInvariant, NEW c \in Core, SnoopPhase(c)
  PROVE  /\ phase = "snoop" /\ phase' = "response"
         /\ BeforeSnoop(c) /\ ~BeforeSnoop(c)' /\ BeforeClock(c)
         /\ \A d \in Core : /\ BeforeClock(d)' = BeforeClock(d)
                            /\ d # c => BeforeSnoop(d)' = BeforeSnoop(d)
                            /\ ~AfterCoreOf(d) /\ ~AfterCoreOf(d)'
         /\ UNCHANGED <<lines, slot, delay, control, pending, tag, request, access,
                        need_to_clean_first>>
         /\ \A d \in Core : d # c => words_left'[d] = words_left[d]
         /\ words_left'[c] = words_left[c] \/ ( /\ words_left'[c] = words_left[c] - 1
                                                /\ bus_cmd # "BUS_FLUSH" \/ bus_origid # c )
<1>1. /\ phase = "snoop" /\ turn = c /\ phase' = "response"
      /\ ~BeforeSnoop(c)' /\ BeforeClock(c)
      /\ \A d \in Core : /\ BeforeClock(d)' = BeforeClock(d)
                         /\ d # c => BeforeSnoop(d)' = BeforeSnoop(d)
  BY SnoopPosition
<1>2. BeforeSnoop(c) /\ \A d \in Core : ~AfterCoreOf(d) /\ ~AfterCoreOf(d)'
  BY <1>1 DEF AfterCoreOf, BeforeSnoop, InCachePhases
<1>3. UNCHANGED <<lines, slot, delay, control, pending, tag, request, access, need_to_clean_first>>
  BY DEF SnoopPhase, CacheSnoop, SnoopOwnRequest, SnoopOther, arrays, cleaning, cores
<1>4. words_left' = words_left \/ ( /\ words_left' = [words_left EXCEPT ![c] = @ - 1]
                                    /\ bus_cmd # "BUS_FLUSH" \/ bus_origid # c )
  BY DEF SnoopPhase, CacheSnoop, SnoopOwnRequest, SnoopOther, RepeatCleanWord, cleaning
<1>5. words_left \in [Core -> Int]
  BY FlushTypes
<1> QED
  BY <1>1, <1>2, <1>3, <1>4, <1>5

(* What a snoop does to the copies and to the supply.                      *)
LEMMA SnoopGivesUp ==
  ASSUME TypeOK, ProtocolInvariant, FlushInvariant, NEW c \in Core, SnoopPhase(c)
  PROVE  /\ \A d \in Core : d # c => state'[d] = state[d]
         /\ \A j \in Set : state'[c][j] # "I" => state[c][j] # "I"
         /\ \A d \in Core : d # c => /\ sending_flush'[d] = sending_flush[d]
                                     /\ flush_block_addr'[d] = flush_block_addr[d]
                                     /\ words_left_to_flush'[d] = words_left_to_flush[d]
         /\ \/ supply' = supply
            \/ /\ busy /\ flush_count = 0
               /\ sending_flush'[c] /\ flush_block_addr'[c] = RequestedBlock
               /\ words_left_to_flush'[c] = WORDS_IN_BLOCK
               /\ \A d \in Core \ {c} : ~sending_flush[d] /\ ~Present(d, RequestedBlock)
         /\ \A a \in Core : sending_flush[a] /\ a # c => supply' = supply
         /\ (state[c][AccessSet(c)] = "M" /\ state'[c][AccessSet(c)] # "M") =>
              sending_flush'[c] /\ busy /\ RequestedBlock = VictimBlock(c)
<1> DEFINE i == get_index(bus_addr)
           o == pending_origid
           Gives == /\ bus_cmd \in Transaction /\ bus_origid # c /\ Present(c, bus_addr)
                    /\ SnoopState(c) = "M" /\ StartSupply(c)
<1>1. i \in Set /\ state \in [Core -> [Set -> MESI]] /\ bus_addr \in Int
  BY TypeOKParts, IndexInSet DEF BusTypeOK, CacheTypeOK
<1>2. \/ state' = state /\ supply' = supply
      \/ /\ bus_cmd \in Transaction /\ bus_origid # c /\ Present(c, bus_addr)
         /\ \E m \in {"I", "S"} : state' = [state EXCEPT ![c][i] = m]
         /\ Gives \/ (supply' = supply /\ SnoopState(c) # "M")
  BY DEF SnoopPhase, CacheSnoop, SnoopOwnRequest, SnoopOther, SnoopRead, SnoopReadX,
     SnoopNothing, SetState, Transaction, arrays
<1> HIDE DEF i
<1>3. /\ \A d \in Core : d # c => state'[d] = state[d]
      /\ \A j \in Set : j # i => state'[c][j] = state[c][j]
  BY <1>1, <1>2
<1>4. \A j \in Set : state'[c][j] # "I" => state[c][j] # "I"
  BY <1>1, <1>2, <1>3 DEF Present, i
<1>5. ASSUME Present(c, bus_addr), bus_cmd \in Transaction
      PROVE  /\ busy /\ flush_count = 0 /\ RequestedBlock = get_block_addr(bus_addr)
             /\ get_index(RequestedBlock) = i /\ get_tag(RequestedBlock) = get_tag(bus_addr)
             /\ \A a \in Core \ {c} : ~sending_flush[a]
  <2>1. /\ busy /\ flush_count = 0 /\ RequestedBlock = get_block_addr(bus_addr)
    BY <1>5, TransactionOnBus DEF RequestedBlock
  <2>2. 0 \in 0 .. WORDS_IN_BLOCK - 1 /\ get_block_addr(bus_addr) + 0 = RequestedBlock
    BY <1>1, <2>1, BusAssumption, MemoryTypes
  <2>3. get_index(RequestedBlock) = i /\ get_tag(RequestedBlock) = get_tag(bus_addr)
    BY <1>1, <2>2, WordInBlock DEF i
  <2>4. ASSUME NEW a \in Core \ {c}, sending_flush[a] PROVE FALSE
    <3>1. flush_block_addr[a] = RequestedBlock
      BY <2>4 DEF ProtocolInvariant, SupplyInv, RequestedBlock
    <3>2. ~Present(c, RequestedBlock)
      BY <2>4, <3>1 DEF FlushInvariant, SupplyPace
    <3> QED
      BY <1>5, <2>3, <3>2 DEF Present, i
  <2> QED
    BY <2>1, <2>3, <2>4
<1>6. ASSUME Gives
      PROVE  /\ busy /\ flush_count = 0
             /\ sending_flush'[c] /\ flush_block_addr'[c] = RequestedBlock
             /\ words_left_to_flush'[c] = WORDS_IN_BLOCK
             /\ \A d \in Core \ {c} : ~sending_flush[d] /\ ~Present(d, RequestedBlock)
             /\ \A d \in Core : d # c => /\ sending_flush'[d] = sending_flush[d]
                                         /\ flush_block_addr'[d] = flush_block_addr[d]
                                         /\ words_left_to_flush'[d] = words_left_to_flush[d]
  <2>1. \A d \in Core \ {c} : ~Present(d, RequestedBlock)
    BY <1>1, <1>5, <1>6 DEF ProtocolInvariant, SingleWriter, Present, SnoopState, i
  <2>2. /\ sending_flush'[c] /\ flush_block_addr'[c] = get_block_addr(bus_addr)
        /\ words_left_to_flush'[c] = WORDS_IN_BLOCK
        /\ \A d \in Core : d # c => /\ sending_flush'[d] = sending_flush[d]
                                    /\ flush_block_addr'[d] = flush_block_addr[d]
                                    /\ words_left_to_flush'[d] = words_left_to_flush[d]
    BY <1>6, FlushTypes, MemoryTypes DEF StartSupply, BLOCK_SIZE
  <2> QED
    BY <1>5, <1>6, <2>1, <2>2
<1>7. \A a \in Core : sending_flush[a] /\ a # c => supply' = supply
  BY <1>2, <1>5
<1>8. ASSUME state[c][AccessSet(c)] = "M", state'[c][AccessSet(c)] # "M"
      PROVE  sending_flush'[c] /\ busy /\ RequestedBlock = VictimBlock(c)
  <2>1. AccessSet(c) = i /\ Gives
    BY <1>2, <1>3, <1>8, Victim DEF SnoopState, i
  <2>2. get_block_addr(bus_addr) = VictimBlock(c)
    BY <1>1, <2>1, Victim DEF Present, i
  <2> QED
    BY <1>5, <1>6, <2>1, <2>2
<1>9. \A d \in Core : d # c => /\ sending_flush'[d] = sending_flush[d]
                               /\ flush_block_addr'[d] = flush_block_addr[d]
                               /\ words_left_to_flush'[d] = words_left_to_flush[d]
  BY <1>2, <1>6 DEF supply
<1>10. \/ supply' = supply
       \/ /\ busy /\ flush_count = 0
          /\ sending_flush'[c] /\ flush_block_addr'[c] = RequestedBlock
          /\ words_left_to_flush'[c] = WORDS_IN_BLOCK
          /\ \A d \in Core \ {c} : ~sending_flush[d] /\ ~Present(d, RequestedBlock)
  BY <1>2, <1>6
<1> QED
  BY <1>3, <1>4, <1>7, <1>8, <1>9, <1>10

LEMMA SnoopKeepsFlush ==
  ASSUME TypeOK, ProtocolInvariant, FlushInvariant, NEW c \in Core, SnoopPhase(c)
  PROVE  FlushInvariant'
<1>f. /\ phase = "snoop" /\ phase' = "response"
      /\ BeforeSnoop(c) /\ ~BeforeSnoop(c)' /\ BeforeClock(c)
      /\ \A d \in Core : /\ BeforeClock(d)' = BeforeClock(d)
                         /\ d # c => BeforeSnoop(d)' = BeforeSnoop(d)
                         /\ ~AfterCoreOf(d) /\ ~AfterCoreOf(d)'
      /\ UNCHANGED <<bus_cmd, bus_origid, slot, busy, flush_count, pending_addr, pending_origid,
                     tag, waiting_for_bus, waiting_addr, access, need_to_clean_first>>
      /\ \A d \in Core : d # c => words_left'[d] = words_left[d]
      /\ words_left'[c] = words_left[c] \/ ( /\ words_left'[c] = words_left[c] - 1
                                             /\ bus_cmd # "BUS_FLUSH" \/ bus_origid # c )
  BY SnoopFrame DEF lines, control, pending, request
<1>g. /\ \A d \in Core : d # c => state'[d] = state[d]
      /\ \A j \in Set : state'[c][j] # "I" => state[c][j] # "I"
      /\ \A d \in Core : d # c => /\ sending_flush'[d] = sending_flush[d]
                                  /\ flush_block_addr'[d] = flush_block_addr[d]
                                  /\ words_left_to_flush'[d] = words_left_to_flush[d]
      /\ \/ supply' = supply
         \/ /\ busy /\ flush_count = 0
            /\ sending_flush'[c] /\ flush_block_addr'[c] = RequestedBlock
            /\ words_left_to_flush'[c] = WORDS_IN_BLOCK
            /\ \A d \in Core \ {c} : ~sending_flush[d] /\ ~Present(d, RequestedBlock)
      /\ (state[c][AccessSet(c)] = "M" /\ state'[c][AccessSet(c)] # "M") =>
           sending_flush'[c] /\ busy /\ RequestedBlock = VictimBlock(c)
  BY SnoopGivesUp
<1> USE <1>f, <1>g, MemoryTypes, FlushTypes
<1>1. CleanInv /\ SupplyPace /\ OneSource /\ PostedInv /\ MemoryWordInv
  BY DEF FlushInvariant
<1>2. RequestedBlock' = RequestedBlock
  BY DEF RequestedBlock
<1>3. \A d \in Core : /\ AccessSet(d)' = AccessSet(d) /\ VictimBlock(d)' = VictimBlock(d)
                      /\ MissesOther(d)' = MissesOther(d) /\ FlushPosted(d)' = FlushPosted(d)
                      /\ AccessSet(d) \in Set
  BY Victim DEF AccessSet, VictimBlock, MissesOther, FlushPosted
<1>4. \A d \in Core : Supplies(d) => Supplies(d)'
  BY DEF Supplies, supply
<1>a. CleanInv'
  <2>1. ASSUME NEW d \in Core, need_to_clean_first[d]
        PROVE  words_left'[d] \in 0 .. WORDS_IN_BLOCK - 1
    <3>1. words_left[d] \in 0 .. WORDS_IN_BLOCK - 1
      BY <1>1, <2>1 DEF CleanInv, CleaningOf
    <3>2. CASE words_left'[d] = words_left[d]
      BY <3>1, <3>2
    <3>3. CASE words_left'[d] # words_left[d]
      <4>1. d = c /\ words_left'[d] = words_left[d] - 1 /\ (bus_cmd # "BUS_FLUSH" \/ bus_origid # c)
        BY <3>3
      <4>2. ~sending_flush[c]
        BY <1>1, <4>1 DEF SupplyPace, ProtocolInvariant, BusyInv, SupplyInv
      <4>3. words_left[d] > 0
        BY <1>1, <2>1, <4>1, <4>2 DEF CleanInv, CleaningOf
      <4> QED
        BY <3>1, <4>1, <4>3
    <3> QED
      BY <3>2, <3>3
  <2>2. ASSUME NEW d \in Core, need_to_clean_first[d]
        PROVE  \/ state'[d][AccessSet(d)] = "M"
               \/ Supplies(d)' /\ RequestedBlock = VictimBlock(d)
    <3>1. \/ state[d][AccessSet(d)] = "M"
          \/ Supplies(d) /\ RequestedBlock = VictimBlock(d)
      BY <1>1, <2>2 DEF CleanInv, CleaningOf
    <3>2. CASE Supplies(d) /\ RequestedBlock = VictimBlock(d)
      BY <1>4, <3>2
    <3>3. CASE d = c /\ state[d][AccessSet(d)] = "M" /\ state'[d][AccessSet(d)] # "M"
      BY <3>3 DEF Supplies
    <3> QED
      BY <3>1, <3>2, <3>3
  <2>3. ASSUME NEW d \in Core, need_to_clean_first[d], ~sending_flush'[d], BeforeSnoop(d)'
        PROVE  words_left'[d] > 0
    <3>1. d # c /\ ~sending_flush[d] /\ BeforeSnoop(d) /\ words_left'[d] = words_left[d]
      BY <2>3
    <3> QED
      BY <1>1, <2>3, <3>1 DEF CleanInv, CleaningOf
  <2>4. \A d \in Core : need_to_clean_first'[d] = need_to_clean_first[d]
    OBVIOUS
  <2>5. \A d \in Core : need_to_clean_first[d] => MissesOther(d)
    BY <1>1 DEF CleanInv, CleaningOf
  <2> QED
    BY <1>2, <1>3, <2>1, <2>2, <2>3, <2>4, <2>5 DEF CleanInv, CleaningOf
<1>b. SupplyPace'
  <2>1. CASE supply' = supply
    <3>1. \A a, d \in Core : Present(d, flush_block_addr[a])' => Present(d, flush_block_addr[a])
      <4>1. \A a \in Core : get_index(flush_block_addr[a]) \in Set
        BY IndexInSet
      <4> QED
        BY <2>1, <4>1 DEF Present, supply
    <3> QED
      BY <1>1, <1>3, <2>1, <3>1 DEF SupplyPace, supply
  <2>2. CASE supply' # supply
    <3>1. /\ busy /\ flush_count = 0
          /\ sending_flush'[c] /\ flush_block_addr'[c] = RequestedBlock
          /\ words_left_to_flush'[c] = WORDS_IN_BLOCK
          /\ \A d \in Core \ {c} : ~sending_flush'[d] /\ ~Present(d, RequestedBlock)'
      BY <1>2, <2>2 DEF Present
    <3> QED
      BY <1>1, <1>2, <3>1 DEF SupplyPace
  <2> QED
    BY <2>1, <2>2
<1>c. OneSource'
  BY <1>1, <1>2, <1>3 DEF OneSource, SourceOf
<1>d. PostedInv'
  BY <1>1, <1>2, <1>3, <1>4 DEF PostedInv, PostedOf
<1>e. MemoryWordInv'
  BY <1>1 DEF MemoryWordInv, AtStart, FlushPosted
<1> QED
  BY <1>a, <1>b, <1>c, <1>d, <1>e DEF FlushInvariant
-----------------------------------------------------------------------------
(* core_memory.                                                            *)
LEMMA CoreTurn ==
  ASSUME TypeOK, NEW c \in Core, CorePhase(c)
  PROVE  /\ phase = "core" /\ phase' \in {"core", "edge"} /\ turn = c
         /\ ~AfterCoreOf(c) /\ AfterCoreOf(c)'
         /\ \A d \in Core : /\ d # c => AfterCoreOf(d)' = AfterCoreOf(d)
                            /\ ~BeforeSnoop(d) /\ ~BeforeSnoop(d)'
                            /\ ~BeforeClock(d) /\ ~BeforeClock(d)'
<1>1. /\ phase = "core" /\ turn = c
      /\ IF c = NUM_CORES - 1 THEN phase' = "edge" /\ turn' = 0
                              ELSE phase' = "core" /\ turn' = c + 1
  BY DEF CorePhase, AfterCore, GoTo
<1> QED
  BY <1>1, BusAssumption DEF AfterCoreOf, BeforeSnoop, BeforeClock, InCachePhases, Core

(* Nothing of another core's part changes.                                 *)
LEMMA OwnPartKeepsFlush ==
  ASSUME TypeOK, ProtocolInvariant, FlushInvariant, NEW c \in Core, CorePhase(c),
         \A d \in Core : d # c => /\ access'[d] = access[d]
                                  /\ need_to_clean_first'[d] = need_to_clean_first[d]
                                  /\ words_left'[d] = words_left[d],
         CleaningOf(c)', SourceOf(c)', PostedOf(c)'
  PROVE  FlushInvariant'
<1>1. CleanInv /\ SupplyPace /\ OneSource /\ PostedInv /\ MemoryWordInv
  BY DEF FlushInvariant
<1>2. /\ UNCHANGED <<bus_cmd, bus_origid, busy, flush_count, delay_in_progress, pending_addr,
                     pending_origid, tag, sending_flush, flush_block_addr, words_left_to_flush>>
      /\ \A a \in Agent : a # c \/ sending_flush[c] => slot'[a] = slot[a]
      /\ \A d \in Core : d # c => /\ waiting_for_bus'[d] = waiting_for_bus[d]
                                  /\ state'[d] = state[d]
      /\ \A d \in Core : waiting_for_bus[d] => waiting_addr'[d] = waiting_addr[d]
  BY CoreAccessFrame DEF Blocked, lines, delay, control, pending, supply
<1>3. busy => RequestedBlock' = RequestedBlock
  BY <1>2, MemoryTypes DEF ProtocolInvariant, BusyInv, RequestMatches, RequestedBlock
<1>4. \A d \in Core, i \in Set : state'[d][i] # "I" => state[d][i] # "I"
  <2>1. \A i \in Set : state'[c][i] # "I" => state[c][i] # "I"
    BY CoreAccessFrame
  <2> QED
    BY <1>2, <2>1
<1> USE <1>1, <1>2, <1>3, CoreTurn, MemoryTypes, FlushTypes
<1>5. ASSUME NEW d \in Core, d # c
      PROVE  /\ AccessSet(d)' = AccessSet(d) /\ VictimBlock(d)' = VictimBlock(d)
             /\ MissesOther(d)' = MissesOther(d) /\ FlushPosted(d)' = FlushPosted(d)
             /\ Supplies(d)' = Supplies(d)
             /\ slot'[d] = slot[d] /\ AfterCoreOf(d)' = AfterCoreOf(d)
             /\ need_to_clean_first'[d] = need_to_clean_first[d] /\ words_left'[d] = words_left[d]
             /\ state'[d] = state[d] /\ ~BeforeSnoop(d)'
  BY <1>5 DEF AccessSet, VictimBlock, MissesOther, FlushPosted, Supplies
<1>a. CleanInv'
  <2>1. ASSUME NEW d \in Core, d # c PROVE CleaningOf(d)'
    <3>1. CleaningOf(d)
      BY DEF CleanInv
    <3> QED
      BY <1>5, <2>1, <3>1 DEF CleaningOf, Supplies
  <2> QED
    BY <2>1 DEF CleanInv
<1>b. SupplyPace'
  <2>1. \A a, d \in Core : Present(d, flush_block_addr[a])' => Present(d, flush_block_addr[a])
    <3>1. \A a \in Core : get_index(flush_block_addr[a]) \in Set
      BY IndexInSet
    <3> QED
      BY <1>4, <3>1 DEF Present
  <2> QED
    BY <2>1 DEF SupplyPace, FlushPosted
<1>c. OneSource'
  <2>1. ASSUME NEW d \in Core, d # c PROVE SourceOf(d)'
    <3>1. SourceOf(d)
      BY DEF OneSource
    <3> QED
      BY <1>5, <2>1, <3>1 DEF SourceOf
  <2> QED
    BY <2>1 DEF OneSource
<1>d. PostedInv'
  <2>1. ASSUME NEW d \in Core, d # c PROVE PostedOf(d)'
    <3>1. PostedOf(d)
      BY DEF PostedInv
    <3> QED
      BY <1>5, <2>1, <3>1 DEF PostedOf, Supplies
  <2> QED
    BY <2>1 DEF PostedInv
<1>e. MemoryWordInv'
  BY DEF MemoryWordInv, AtStart, FlushPosted
<1> QED
  BY <1>a, <1>b, <1>c, <1>d, <1>e DEF FlushInvariant

(* A core that is refused, or has nothing to access.                       *)
LEMMA QuietKeepsFlush ==
  ASSUME TypeOK, ProtocolInvariant, FlushInvariant, NEW c \in Core, CorePhase(c),
         UNCHANGED <<cacheVars, slot>>,
         access[c] # NoAccess => Blocked(c) /\ access'[c] = access[c],
         \A d \in Core : d # c => access'[d] = access[d]
  PROVE  FlushInvariant'
<1>1. CleaningOf(c) /\ SourceOf(c) /\ PostedOf(c)
  BY DEF FlushInvariant, CleanInv, OneSource, PostedInv
<1>2. UNCHANGED <<busy, flush_count, bus_origid, slot, tag, state, waiting_for_bus, waiting_addr,
                  sending_flush, need_to_clean_first, words_left, pending_origid>>
  BY CoreAccessFrame DEF lines, control, pending, cacheVars, arrays, request, supply, cleaning
<1>3. /\ RequestedBlock' = RequestedBlock /\ FlushPosted(c)' = FlushPosted(c)
      /\ Supplies(c)' = Supplies(c)
      /\ MissesOther(c) => /\ sending_flush[c] /\ MissesOther(c)'
                           /\ AccessSet(c)' = AccessSet(c) /\ VictimBlock(c)' = VictimBlock(c)
  BY <1>2 DEF RequestedBlock, FlushPosted, Supplies, MissesOther, AccessSet, VictimBlock, Blocked
<1>4. CleaningOf(c)'
  BY <1>1, <1>2, <1>3 DEF CleaningOf
<1>5. SourceOf(c)'
  BY <1>1, <1>2, <1>3, CoreTurn, MemoryTypes DEF SourceOf, PostedOf, Supplies
<1>6. PostedOf(c)'
  BY <1>1, <1>2, <1>3 DEF PostedOf
<1>7. \A d \in Core : d # c => /\ need_to_clean_first'[d] = need_to_clean_first[d]
                               /\ words_left'[d] = words_left[d]
  BY <1>2
<1> QED
  BY <1>4, <1>5, <1>6, <1>7, OwnPartKeepsFlush

(* A hit, or a request for a block: the core is cleaning nothing.          *)
LEMMA HitKeepsFlush ==
  ASSUME TypeOK, ProtocolInvariant, FlushInvariant, NEW c \in Core, CorePhase(c),
         ~MissesOther(c), UNCHANGED <<supply, slot, cleaning>>,
         \A d \in Core : d # c => access'[d] = access[d]
  PROVE  FlushInvariant'
<1>1. CleaningOf(c) /\ SourceOf(c) /\ PostedOf(c)
  BY DEF FlushInvariant, CleanInv, OneSource, PostedInv
<1>2. /\ UNCHANGED <<busy, flush_count, bus_origid, slot, sending_flush, need_to_clean_first,
                     words_left>>
      /\ Supplies(c) => RequestedBlock' = RequestedBlock
  <2>1. busy => RequestedBlock' = RequestedBlock
    BY CoreAccessFrame, MemoryTypes DEF Blocked, ProtocolInvariant, BusyInv, RequestMatches, RequestedBlock,
       pending
  <2> QED
    BY <2>1, CoreAccessFrame DEF lines, control, supply, cleaning, Supplies
<1>3. ~need_to_clean_first[c] /\ (FlushPosted(c) => Supplies(c))
  BY <1>1 DEF CleaningOf, PostedOf
<1>4. CleaningOf(c)'
  BY <1>2, <1>3 DEF CleaningOf
<1>5. SourceOf(c)'
  BY <1>1, <1>2, <1>3, MemoryTypes DEF SourceOf, Supplies, FlushPosted
<1>6. PostedOf(c)'
  BY <1>1, <1>2, <1>3 DEF PostedOf, Supplies, FlushPosted
<1>7. \A d \in Core : d # c => /\ need_to_clean_first'[d] = need_to_clean_first[d]
                               /\ words_left'[d] = words_left[d]
  BY <1>2
<1> QED
  BY <1>4, <1>5, <1>6, <1>7, OwnPartKeepsFlush

LEMMA RequestKeepsFlush ==
  ASSUME TypeOK, ProtocolInvariant, FlushInvariant, NEW c \in Core, CorePhase(c),
         ~need_to_clean_first[c], UNCHANGED cleaning, slot'[c].cmd # "BUS_FLUSH",
         \A d \in Core : d # c => access'[d] = access[d]
  PROVE  FlushInvariant'
<1>1. CleaningOf(c)' /\ SourceOf(c)' /\ PostedOf(c)'
  BY DEF CleaningOf, SourceOf, PostedOf, FlushPosted, cleaning
<1>2. \A d \in Core : d # c => /\ need_to_clean_first'[d] = need_to_clean_first[d]
                               /\ words_left'[d] = words_left[d]
  BY DEF cleaning
<1> QED
  BY <1>1, <1>2, OwnPartKeepsFlush
(* A core that posts a word of the set it cleans.  The block that is on the *)
(* bus is Modified in no cache, so the word is one of it only if the core   *)
(* has supplied it up to its last word.                                     *)
LEMMA CleanKeepsFlush ==
  ASSUME TypeOK, ProtocolInvariant, FlushInvariant, NEW c \in Core, CorePhase(c),
         NEW r \in Access, r # NoAccess, access'[c] = r, ~Blocked(c), ~Blocked(c)',
         access[c] # NoAccess => r = access[c],
         \A d \in Core : d # c => access'[d] = access[d],
         NEW i, i = get_index(r.addr), tag[c][i] # get_tag(r.addr),
         NEW k \in 0 .. WORDS_IN_BLOCK - 1,
         IF need_to_clean_first[c] THEN k = words_left[c] ELSE k = 0 /\ state[c][i] = "M",
         slot'[c].cmd = "BUS_FLUSH", slot'[c].addr = BlockOf(tag[c][i], i) + k,
         \/ /\ need_to_clean_first' = [need_to_clean_first EXCEPT ![c] = TRUE]
            /\ words_left' = [words_left EXCEPT ![c] = k + 1]
            /\ k # WORDS_IN_BLOCK - 1 /\ state' = state
         \/ /\ need_to_clean_first' = [need_to_clean_first EXCEPT ![c] = FALSE]
            /\ words_left' = [words_left EXCEPT ![c] = -1]
            /\ k = WORDS_IN_BLOCK - 1
  PROVE  FlushInvariant'
<1> DEFINE v == BlockOf(tag[c][i], i)
           o == pending_origid
<1>1. CleaningOf(c) /\ SourceOf(c) /\ PostedOf(c)
  BY DEF FlushInvariant, CleanInv, OneSource, PostedInv
<1>2. /\ i \in Set /\ tag[c][i] \in Int /\ v \in Int
      /\ get_block_addr(v + k) = v /\ get_index(v + 0) = i /\ get_tag(v + 0) = tag[c][i]
      /\ v + 0 = v
  <2>1. r.addr \in Int /\ i \in Set
    BY ZeroInAddr, IndexInSet DEF Access
  <2>2. tag[c][i] \in Int /\ 0 \in 0 .. WORDS_IN_BLOCK - 1
    BY <2>1, FlushTypes, BusAssumption
  <2>3. v \in Int
    BY <2>1, <2>2, BlockOfTag
  <2> QED
    BY <2>1, <2>2, <2>3, BlockOfTag
<1>3. /\ UNCHANGED <<busy, flush_count, bus_origid, tag, sending_flush, pending_origid>>
      /\ busy => RequestedBlock' = RequestedBlock
      /\ ~waiting_for_bus'[c] /\ ~sending_flush[c] /\ ~waiting_for_bus[c]
  <2>1. busy => RequestedBlock' = RequestedBlock
    BY CoreAccessFrame, MemoryTypes DEF Blocked, ProtocolInvariant, BusyInv, RequestMatches,
       RequestedBlock, pending
  <2>2. UNCHANGED <<busy, flush_count, bus_origid, tag, sending_flush, pending_origid>>
    BY CoreAccessFrame DEF lines, control, supply, pending
  <2> QED
    BY <2>1, <2>2 DEF Blocked
<1> HIDE DEF v, o
<1>4. AccessSet(c)' = i /\ VictimBlock(c)' = v /\ MissesOther(c)'
  BY <1>3 DEF AccessSet, VictimBlock, MissesOther, v
<1>5. need_to_clean_first[c] =>
        /\ k = words_left[c]
        /\ state[c][i] = "M" \/ (Supplies(c) /\ RequestedBlock = v)
  BY <1>1 DEF CleaningOf, MissesOther, AccessSet, VictimBlock, v
<1>6. ASSUME busy, RequestedBlock = v PROVE state[c][i] # "M"
  <2>1. waiting_for_bus[o] /\ o \in Core /\ waiting_addr[o] \in Int
    BY <1>6, MemoryTypes, FlushTypes, TypeOKParts, ZeroInAddr
       DEF ProtocolInvariant, BusyInv, RequestMatches, o, CacheTypeOK
  <2>2. get_block_addr(waiting_addr[o]) + 0 = v + 0 /\ 0 \in 0 .. WORDS_IN_BLOCK - 1
    BY <1>2, <1>6, BusAssumption DEF RequestedBlock, o
  <2>3. get_index(waiting_addr[o]) = i /\ get_tag(waiting_addr[o]) = tag[c][i]
    BY <1>2, <2>1, <2>2, WordInBlock
  <2>4. o # c /\ Snooped(c)
    BY <1>3, <2>1, CorePosition
  <2> QED
    BY <1>6, <2>1, <2>3, <2>4 DEF ProtocolInvariant, OthersInv, Present, o
<1>7. busy /\ RequestedBlock = v => flush_count > 0 /\ bus_origid = c
  BY <1>3, <1>5, <1>6 DEF Supplies
<1>8. SourceOf(c)'
  <2>1. get_block_addr(slot'[c].addr) = v
    BY <1>2 DEF v
  <2> QED
    BY <1>3, <1>7, <2>1, MemoryTypes DEF SourceOf
<1>9. \/ /\ need_to_clean_first'[c] /\ words_left'[c] = k + 1
         /\ k + 1 \in 1 .. WORDS_IN_BLOCK - 1 /\ state' = state
      \/ ~need_to_clean_first'[c] /\ k = WORDS_IN_BLOCK - 1
  <2>1. k # WORDS_IN_BLOCK - 1 => k + 1 \in 1 .. WORDS_IN_BLOCK - 1
    BY MemoryTypes
  <2> QED
    BY <2>1, FlushTypes
<1>10. PostedOf(c)'
  <2>1. ~need_to_clean_first'[c] => slot'[c].addr = v + WORDS_IN_BLOCK - 1
    BY <1>2, <1>9, MemoryTypes DEF v
  <2>2. get_block_addr(slot'[c].addr) = v
    BY <1>2 DEF v
  <2> QED
    BY <1>4, <2>1, <2>2 DEF PostedOf
<1>11. CleaningOf(c)'
  <2>1. SUFFICES ASSUME need_to_clean_first'[c] PROVE CleaningOf(c)'
    BY DEF CleaningOf
  <2>2. /\ words_left'[c] = k + 1 /\ k + 1 \in 1 .. WORDS_IN_BLOCK - 1 /\ state' = state
        /\ slot'[c].addr = v + words_left'[c] - 1
    BY <1>2, <1>9, <2>1 DEF v
  <2>3. state'[c][i] = "M" \/ (Supplies(c)' /\ RequestedBlock' = v)
    BY <1>3, <1>5, <2>2 DEF Supplies
  <2>4. words_left'[c] \in 0 .. WORDS_IN_BLOCK - 1 /\ words_left'[c] > 0
    BY <2>2, MemoryTypes
  <2> QED
    BY <1>4, <2>2, <2>3, <2>4 DEF CleaningOf, FlushPosted
<1>12. \A d \in Core : d # c => /\ need_to_clean_first'[d] = need_to_clean_first[d]
                                /\ words_left'[d] = words_left[d]
  BY FlushTypes
<1> QED
  BY <1>8, <1>10, <1>11, <1>12, OwnPartKeepsFlush
(* A store whose set is being cleaned does not leave the MEM stage, when   *)
(* no store is lost.                                                       *)
LEMMA StoreStays ==
  ASSUME TypeOK, StoreCompletes, NEW c \in Core, phase = "core", turn = c,
         NEW r \in StoreOf(c), r.addr \in Addr, NEW ready \in BOOLEAN, Offer(c, r, ready),
         UNCHANGED tag, tag[c][get_index(r.addr)] # get_tag(r.addr)
  PROVE  ~ready
<1> SUFFICES ASSUME ready PROVE FALSE
  OBVIOUS
<1>1. r = [op |-> "sw", addr |-> r.addr, data |-> r.data] /\ r.data \in Word
  BY DEF StoreOf
<1>2. retired'[c] = r
  BY <1>1, TypeOKParts DEF Offer, CoresTypeOK
<1>3. Present(c, r.addr)'
  BY <1>1, <1>2 DEF StoreCompletes
<1> QED
  BY <1>3 DEF Present

LEMMA OfferKeepsFlush ==
  ASSUME TypeOK, ProtocolInvariant, FlushInvariant, StoreCompletes,
         NEW c \in Core, CorePhase(c), NEW ready \in BOOLEAN,
         NEW r \in IF access[c] = NoAccess THEN AccessOf(c) ELSE {access[c]},
         Offer(c, r, ready)
  PROVE  FlushInvariant'
<1> DEFINE a == r.addr
           i == get_index(a)
<1>1. /\ r \in AccessOf(c) /\ r \in Access /\ a \in Addr /\ r.op \in {"lw", "sw"} /\ r # NoAccess
      /\ access[c] # NoAccess => r = access[c]
      /\ r.op = "sw" => r \in StoreOf(c)
  <2>1. r \in AccessOf(c) /\ (access[c] # NoAccess => r = access[c])
    BY TypeOKParts DEF CoresTypeOK
  <2>2. a \in Addr /\ r.op \in {"lw", "sw"} /\ r # NoAccess /\ (r.op = "sw" => r \in StoreOf(c))
    BY <2>1, ProgramAssumption DEF AccessOf, LoadOf, StoreOf, NoAccess
  <2>3. r \in Access
    BY <2>1, ProgramAssumption, BusAssumption DEF AccessOf, LoadOf, StoreOf, Access
  <2> QED
    BY <2>1, <2>2, <2>3
<1>2. /\ access'[c] = IF ready THEN NoAccess ELSE r
      /\ \A b \in Core : b # c => access'[b] = access[b]
  BY TypeOKParts DEF Offer, CoresTypeOK
<1>3. \/ r.op = "lw" /\ CacheRead(c, a, ready)
      \/ r.op = "sw" /\ CacheWrite(c, a, r.data, ready)
  BY DEF Offer
<1>c. CleaningOf(c)
  BY DEF FlushInvariant, CleanInv
<1>m. MissesOther(c) => tag[c][i] # get_tag(a)
  BY <1>1 DEF MissesOther, AccessSet
<1>4. CASE Refuse(c)
  <2>1. ~ready \/ WriteMiss(c, a, r.data, ready) \/ ReadHit(c, a) \/ WriteHit(c, a, r.data)
    BY <1>3 DEF CacheRead, CacheWrite
  <2>2. ~ready
    BY <1>4, <2>1 DEF Refuse, WriteMiss, ReadHit, WriteHit
  <2> QED
    BY <1>1, <1>2, <1>4, <2>2, QuietKeepsFlush DEF Refuse
<1>5. CASE ReadHit(c, a) \/ WriteHit(c, a, r.data)
  <2>1. ~MissesOther(c)
    BY <1>5, <1>m DEF ReadHit, WriteHit, Present
  <2>2. UNCHANGED <<supply, slot, cleaning>>
    BY <1>5 DEF ReadHit, WriteHit
  <2> QED
    BY <1>2, <2>1, <2>2, HitKeepsFlush
<1>6. ASSUME NEW cmd \in Transaction, NEW d, RequestBlock(c, a, cmd, d), ~need_to_clean_first[c]
      PROVE  FlushInvariant'
  <2>1. slot'[c].cmd # "BUS_FLUSH" /\ UNCHANGED cleaning
    BY <1>6, MemoryTypes DEF RequestBlock, BusRequest, Transaction
  <2> QED
    BY <1>2, <1>6, <2>1, RequestKeepsFlush
<1>7. CASE r.op = "sw" /\ ~ready /\ WriteUpgrade(c, a, r.data)
  <2>1. ~need_to_clean_first[c]
    BY <1>7, <1>c, <1>m DEF WriteUpgrade, CleaningOf
  <2> QED
    BY <1>6, <1>7, <2>1 DEF WriteUpgrade, Transaction
<1>8. ASSUME ~ready, ~Blocked(c), StartCleaning(c, a), tag[c][i] # get_tag(a) PROVE FlushInvariant'
  <2>1. /\ ~need_to_clean_first[c] /\ state[c][i] = "M" /\ state' = state
        /\ need_to_clean_first' = [need_to_clean_first EXCEPT ![c] = TRUE]
        /\ words_left' = [words_left EXCEPT ![c] = 0 + 1]
        /\ ~Blocked(c)'
    BY <1>8 DEF StartCleaning, arrays, request, supply, Blocked
  <2>2. slot'[c].cmd = "BUS_FLUSH" /\ slot'[c].addr = BlockOf(tag[c][i], i) + 0
    BY <1>8, MemoryTypes DEF StartCleaning, CleanWord, BusRequest
  <2>3. 0 \in 0 .. WORDS_IN_BLOCK - 1 /\ 0 # WORDS_IN_BLOCK - 1
    BY MemoryTypes
  <2> HIDE DEF i
  <2>4. i = get_index(r.addr)
    BY DEF i
  <2> QED
    BY <1>1, <1>2, <1>8, <2>1, <2>2, <2>3, <2>4, CleanKeepsFlush
<1>9. ASSUME ~ready, ~Blocked(c), ContinueCleaning(c, a), LastWordToClean(c) \/ state' = state
      PROVE  FlushInvariant'
  <2> DEFINE k == words_left[c]
  <2>1. need_to_clean_first[c] /\ k \in 0 .. WORDS_IN_BLOCK - 1 /\ tag[c][i] # get_tag(a)
    BY <1>9, <1>c, <1>m DEF ContinueCleaning, CleaningOf
  <2>2. ~Blocked(c)'
    BY <1>9 DEF ContinueCleaning, request, supply, Blocked
  <2>3. slot'[c].cmd = "BUS_FLUSH" /\ slot'[c].addr = BlockOf(tag[c][i], i) + k
    BY <1>9, MemoryTypes DEF ContinueCleaning, CleanWord, BusRequest
  <2>4. \/ /\ need_to_clean_first' = [need_to_clean_first EXCEPT ![c] = TRUE]
           /\ words_left' = [words_left EXCEPT ![c] = k + 1]
           /\ k # WORDS_IN_BLOCK - 1 /\ state' = state
        \/ /\ need_to_clean_first' = [need_to_clean_first EXCEPT ![c] = FALSE]
           /\ words_left' = [words_left EXCEPT ![c] = -1]
           /\ k = WORDS_IN_BLOCK - 1
    <3>1. CASE LastWordToClean(c)
      BY <1>9, <2>1, <3>1, MemoryTypes DEF ContinueCleaning, LastWordToClean, BLOCK_SIZE
    <3>2. CASE ~LastWordToClean(c)
      <4>1. k # WORDS_IN_BLOCK - 1
        BY <2>1, <3>2, MemoryTypes DEF LastWordToClean, BLOCK_SIZE
      <4>2. need_to_clean_first' = need_to_clean_first /\ words_left' = [words_left EXCEPT ![c] = k + 1]
        BY <1>9, <3>2 DEF ContinueCleaning
      <4>3. need_to_clean_first = [need_to_clean_first EXCEPT ![c] = TRUE]
        BY <2>1, FlushTypes
      <4> QED
        BY <1>9, <3>2, <4>1, <4>2, <4>3
    <3> QED
      BY <3>1, <3>2
  <2> HIDE DEF i, k
  <2>5. i = get_index(r.addr) /\ (IF need_to_clean_first[c] THEN k = words_left[c]
                                  ELSE k = 0 /\ state[c][i] = "M")
    BY <2>1 DEF i, k
  <2> QED
    BY <1>1, <1>2, <1>9, <2>1, <2>2, <2>3, <2>4, <2>5, CleanKeepsFlush
<1>10. CASE r.op = "lw" /\ ~ready /\ ReadMiss(c, a)
  <2>1. ~Blocked(c) /\ ~Present(c, a)
    BY <1>10 DEF ReadMiss
  <2>2. CASE StartCleaning(c, a)
    <3>1. tag[c][i] # get_tag(a)
      BY <2>1, <2>2 DEF StartCleaning, Present
    <3> QED
      BY <1>8, <1>10, <2>1, <2>2, <3>1
  <2>3. CASE ContinueCleaning(c, a) /\ (LastWordToClean(c) \/ state' = state)
    BY <1>9, <1>10, <2>1, <2>3
  <2>4. CASE NothingToClean(c, a) /\ RequestBlock(c, a, "BUS_RD", 0)
    BY <1>6, <2>4 DEF NothingToClean, Transaction
  <2> QED
    BY <1>10, <2>2, <2>3, <2>4 DEF ReadMiss
<1>11. CASE r.op = "sw" /\ WriteMiss(c, a, r.data, ready)
  <2>1. ~Blocked(c) /\ tag[c][i] # get_tag(a)
    BY <1>11 DEF WriteMiss
  <2>2. CASE ~ready /\ StartCleaning(c, a)
    BY <1>8, <2>1, <2>2
  <2>3. CASE ContinueCleaning(c, a) /\ UNCHANGED state
    <3>1. UNCHANGED tag
      BY <2>3 DEF ContinueCleaning
    <3>2. ~ready
      BY <1>1, <1>11, <2>1, <3>1, StoreStays, CoreTurn
    <3> QED
      BY <1>9, <2>1, <2>3, <3>2
  <2>4. CASE NothingToClean(c, a) /\ RequestBlock(c, a, "BUS_RDX", r.data)
    BY <1>6, <2>4 DEF NothingToClean, Transaction
  <2> QED
    BY <1>11, <2>2, <2>3, <2>4 DEF WriteMiss
<1> QED
  BY <1>3, <1>4, <1>5, <1>7, <1>10, <1>11 DEF CacheRead, CacheWrite

LEMMA CoreKeepsFlush ==
  ASSUME TypeOK, ProtocolInvariant, FlushInvariant, StoreCompletes, NEW c \in Core, CorePhase(c)
  PROVE  FlushInvariant'
<1>1. CASE NoMemoryAccess(c)
  <2>1. UNCHANGED <<cacheVars, slot>> /\ access[c] = NoAccess /\ access' = access
    BY <1>1 DEF NoMemoryAccess
  <2> QED
    BY <2>1, QuietKeepsFlush
<1>2. CASE MemoryAccess(c)
  BY <1>2, OfferKeepsFlush DEF MemoryAccess
<1> QED
  BY <1>1, <1>2 DEF CorePhase
-----------------------------------------------------------------------------
(* bus_clock.                                                              *)

(* What remains to be seen, the caches being as they were: the supplier's  *)
(* word goes out, and whoever has sent a word of the block goes on.        *)
LEMMA BusPartKeepsFlush ==
  ASSUME TypeOK, ProtocolInvariant, FlushInvariant, BusPhase,
         \A d \in Core : (Supplies(d) /\ need_to_clean_first[d] /\ RequestedBlock = VictimBlock(d))
                           => Supplies(d)' /\ RequestedBlock' = RequestedBlock,
         \A d \in Core : sending_flush[d] => flush_count' = flush_count + 1 /\ bus_origid' = d,
         \A d \in Core : busy' /\ FlushPosted(d)' /\ get_block_addr(slot[d].addr)' = RequestedBlock'
                           /\ flush_count' > 0 => bus_origid' = d,
         \A d \in Core : FlushPosted(d)' => /\ slot'[d] = slot[d]
                                            /\ Supplies(d) => /\ Supplies(d)'
                                                              /\ RequestedBlock' = RequestedBlock,
         ~FlushPosted(MAIN_MEMORY)'
  PROVE  FlushInvariant'
<1>1. CleanInv /\ SupplyPace /\ OneSource /\ PostedInv
  BY DEF FlushInvariant
<1>2. \A d \in Core : /\ AfterCoreOf(d) /\ ~AfterCoreOf(d)' /\ BeforeSnoop(d)'
                      /\ BeforeClock(d)' /\ ~BeforeClock(d)
  BY BeforeBusClock, BusAssumption DEF AfterCoreOf, BeforeSnoop, InCachePhases, Core
<1>3. UNCHANGED <<tag, state, waiting_for_bus, waiting_addr, sending_flush, flush_block_addr,
                  words_left_to_flush, need_to_clean_first, words_left, access>>
  BY DEF BusPhase, cacheVars, arrays, request, supply, cleaning, cores
<1>4. \A d \in Core : /\ AccessSet(d)' = AccessSet(d) /\ VictimBlock(d)' = VictimBlock(d)
                      /\ MissesOther(d)' = MissesOther(d)
  BY <1>3 DEF AccessSet, VictimBlock, MissesOther
<1>a. CleanInv'
  BY <1>1, <1>2, <1>3, <1>4 DEF CleanInv, CleaningOf
<1>b. SupplyPace'
  BY <1>1, <1>2, <1>3, MemoryTypes DEF SupplyPace, Present
<1>c. OneSource'
  BY <1>2 DEF OneSource, SourceOf
<1>d. PostedInv'
  BY <1>1, <1>3, <1>4 DEF PostedInv, PostedOf, FlushPosted
<1>e. MemoryWordInv'
  BY DEF MemoryWordInv
<1> QED
  BY <1>a, <1>b, <1>c, <1>d, <1>e DEF FlushInvariant

(* The word that a busy bus takes is the only one of its block posted.     *)
LEMMA OnlyWordOfBlock ==
  ASSUME TypeOK, ProtocolInvariant, MemoryInvariant, FlushInvariant, phase = "bus",
         NEW a \in Agent, GrantFlush(a), busy
  PROVE  /\ \A d \in Core :
              FlushPosted(d) /\ get_block_addr(slot[d].addr) = RequestedBlock => d = a
         /\ FlushPosted(MAIN_MEMORY) => a = MAIN_MEMORY
         /\ \A d \in Core : sending_flush[d] => d = a /\ ~BlockComplete
         /\ flush_count > 0 => bus_origid = a
<1>1. CleanInv /\ SupplyPace /\ OneSource /\ PostedInv /\ MemoryWordInv
  BY DEF FlushInvariant
<1>2. \A d \in Core : AfterCoreOf(d) /\ ~BeforeClock(d)
  BY DEF AfterCoreOf, BeforeClock, InCachePhases
<1>3. FlushPosted(a) /\ slot[a].addr = pending_addr /\ \A b \in FlushReady : a <= b
  BY DEF GrantFlush, LowestFlush, FlushReady, FlushAllowed, FlushPosted
<1>4. get_block_addr(pending_addr) = RequestedBlock
  BY NextWordInBlock
<1>5. ASSUME NEW d \in Core, FlushPosted(d), get_block_addr(slot[d].addr) = RequestedBlock
      PROVE  /\ flush_count > 0 => bus_origid = d
             /\ flush_count = 0 => sending_flush[d]
  BY <1>1, <1>2, <1>5 DEF OneSource, SourceOf
<1>6. ASSUME FlushPosted(MAIN_MEMORY) PROVE flush_count > 0 => bus_origid = MAIN_MEMORY
  BY <1>1, <1>6 DEF MemoryWordInv, AtStart
<1>7. ASSUME NEW d \in Core, sending_flush[d] PROVE d = a /\ ~BlockComplete
  <2>1. /\ FlushPosted(d) /\ slot[d].addr = pending_addr
        /\ flush_count + words_left_to_flush[d] = WORDS_IN_BLOCK - 1
        /\ flush_count > 0 => bus_origid = d
        /\ \A x \in Core \ {d} : ~sending_flush[x]
    BY <1>1, <1>2, <1>7 DEF SupplyPace
  <2>2. ~BlockComplete
    BY <1>7, <2>1, MemoryTypes DEF BlockComplete, ProtocolInvariant, SupplyInv
  <2>3. a <= d
    BY <1>3, <2>1, MemoryTypes DEF FlushReady, FlushAllowed, FlushPosted
  <2>4. a \in Core
    BY <2>3, BusAssumption DEF Agent, Core
  <2> QED
    BY <1>3, <1>4, <1>5, <2>1, <2>2, <2>4, MemoryTypes
<1>8. flush_count > 0 => bus_origid = a
  BY <1>3, <1>4, <1>5, <1>6, BusAssumption DEF Agent, Core, MAIN_MEMORY
<1>9. \A d \in Core : FlushPosted(d) /\ get_block_addr(slot[d].addr) = RequestedBlock => d = a
  BY <1>5, <1>7, <1>8, MemoryTypes
<1>10. ASSUME FlushPosted(MAIN_MEMORY), a # MAIN_MEMORY PROVE FALSE
  <2>1. a \in Core
    BY <1>10, BusAssumption DEF Agent, Core, MAIN_MEMORY
  <2>2. flush_count = 0 /\ sending_flush[a]
    BY <1>3, <1>4, <1>5, <1>6, <1>8, <1>10, <2>1, MemoryTypes
  <2>3. words_to_send = 0 \/ words_to_send = WORDS_IN_BLOCK
    BY <2>1, <2>2 DEF MemoryInvariant, SupplierInv
  <2>4. words_to_send = WORDS_IN_BLOCK - 1
    BY <1>10, <2>2 DEF MemoryInvariant, MemorySlotInv, FlushPosted
  <2> QED
    BY <2>3, <2>4, MemoryTypes
<1> QED
  BY <1>7, <1>8, <1>9, <1>10

LEMMA BusKeepsFlush ==
  ASSUME TypeOK, ProtocolInvariant, MemoryInvariant, FlushInvariant, BusPhase
  PROVE  FlushInvariant'
<1>1. CleanInv /\ SupplyPace /\ OneSource /\ PostedInv /\ MemoryWordInv
  BY DEF FlushInvariant
<1>2. /\ phase = "bus" /\ phase' = "snoop" /\ \A d \in Core : AfterCoreOf(d) /\ ~BeforeClock(d)
      /\ UNCHANGED <<waiting_addr, sending_flush>>
      /\ \A d \in Core : sending_flush[d] => busy
  BY BeforeBusClock DEF AfterCoreOf, BeforeClock, InCachePhases, cacheVars, request, supply
<1>3. ~busy => \A d \in Core : ~Supplies(d) /\ ~sending_flush[d]
  BY <1>2 DEF Supplies
<1>4. CASE DelayStep
  <2>1. ~busy /\ slot' = slot /\ delay_in_progress /\ delay_cycles = 1
    BY <1>4, TypeOKParts DEF DelayStep, ProtocolInvariant, DelayInv, BusTypeOK
  <2>2. flush_count' = 0
    BY <1>4, <2>1 DEF DelayStep
  <2>3. ~FlushPosted(MAIN_MEMORY)'
    BY <1>1, <2>1 DEF MemoryWordInv, AtStart, FlushPosted
  <2> QED
    BY <1>3, <2>1, <2>2, <2>3, BusPartKeepsFlush
<1>5. ASSUME NEW a \in Agent, GrantFlush(a), ~busy PROVE FlushInvariant'
  <2>1. ~busy' /\ slot' = [slot EXCEPT ![a] = NoRequest]
    BY <1>5 DEF GrantFlush, PutOnBus, CountWord, BlockComplete
  <2>2. ASSUME FlushPosted(MAIN_MEMORY) PROVE a = MAIN_MEMORY
    <3>1. AtStart /\ slot[a].cmd = "BUS_FLUSH"
      BY <1>1, <1>5, <2>2 DEF MemoryWordInv, GrantFlush, LowestFlush, FlushReady, FlushAllowed
    <3> QED
      BY <3>1, BusAssumption DEF AtStart, NoRequest, Agent, Core, MAIN_MEMORY
  <2>3. \A b \in Agent : FlushPosted(b)' => b # a /\ slot'[b] = slot[b] /\ FlushPosted(b)
    BY <2>1, MemoryTypes DEF FlushPosted, NoRequest
  <2> QED
    BY <1>3, <1>5, <2>1, <2>2, <2>3, MemoryTypes, BusPartKeepsFlush
<1>6. ASSUME NEW a \in Agent, GrantFlush(a), busy PROVE FlushInvariant'
  <2>1. /\ bus_origid' = a /\ slot' = [slot EXCEPT ![a] = NoRequest]
        /\ ~BlockComplete => busy' /\ flush_count' = flush_count + 1
        /\ BlockComplete => ~busy'
        /\ pending_origid' = pending_origid /\ slot[a].addr = pending_addr
    BY <1>6 DEF GrantFlush, LowestFlush, FlushReady, FlushAllowed, PutOnBus, CountWord
  <2>2. RequestedBlock' = RequestedBlock
    BY <1>2, <2>1 DEF RequestedBlock
  <2>3. \A b \in Agent : FlushPosted(b)' => b # a /\ slot'[b] = slot[b] /\ FlushPosted(b)
    BY <2>1, MemoryTypes DEF FlushPosted, NoRequest
  <2>4. /\ \A d \in Core :
             FlushPosted(d) /\ get_block_addr(slot[d].addr) = RequestedBlock => d = a
        /\ FlushPosted(MAIN_MEMORY) => a = MAIN_MEMORY
        /\ \A d \in Core : sending_flush[d] => d = a /\ ~BlockComplete
        /\ flush_count > 0 => bus_origid = a
    BY <1>2, <1>6, OnlyWordOfBlock
  <2>5. ASSUME NEW d \in Core, Supplies(d), need_to_clean_first[d], RequestedBlock = VictimBlock(d)
        PROVE  Supplies(d)'
    <3>1. CASE sending_flush[d]
      BY <1>2, <2>1, <2>4, <3>1 DEF Supplies
    <3>2. CASE ~sending_flush[d]
      <4>1. flush_count > 0 /\ d = a
        BY <2>4, <2>5, <3>2 DEF Supplies
      <4>2. /\ words_left[d] \in 1 .. WORDS_IN_BLOCK - 1
            /\ slot[d].addr = RequestedBlock + words_left[d] - 1
        BY <1>1, <1>2, <2>5, <3>2 DEF CleanInv, CleaningOf
      <4>3. flush_count = words_left[d] - 1
        <5>1. pending_addr = RequestedBlock + flush_count
          BY <1>6, NextWord
        <5>2. slot[d].addr = pending_addr /\ words_left[d] \in Int
          BY <2>1, <4>1, <4>2
        <5> QED
          BY <4>2, <5>1, <5>2, MemoryTypes
      <4>4. ~BlockComplete
        BY <4>2, <4>3, MemoryTypes DEF BlockComplete
      <4> QED
        BY <2>1, <4>1, <4>4, MemoryTypes DEF Supplies
    <3> QED
      BY <3>1, <3>2
  <2>6. ASSUME NEW d \in Core, FlushPosted(d)'
        PROVE  get_block_addr(slot[d].addr) # RequestedBlock /\ slot'[d] = slot[d]
    BY <2>3, <2>4, <2>6, MemoryTypes
  <2>7. \A d \in Core : FlushPosted(d)' => ~Supplies(d)
    BY <2>3, <2>4, MemoryTypes DEF Supplies
  <2>8. \A d \in Core : sending_flush[d] => flush_count' = flush_count + 1 /\ bus_origid' = d
    BY <2>1, <2>4
  <2>9. ~FlushPosted(MAIN_MEMORY)'
    BY <2>3, <2>4, MemoryTypes
  <2>10. \A d \in Core : FlushPosted(d)' => get_block_addr(slot[d].addr)' # RequestedBlock'
    BY <2>2, <2>6
  <2> QED
    BY <2>2, <2>5, <2>6, <2>7, <2>8, <2>9, <2>10, BusPartKeepsFlush
<1>7. ASSUME NEW g \in Core, GrantRequest(g) PROVE FlushInvariant'
  <2>1. /\ ~busy /\ ~busy' /\ slot' = [slot EXCEPT ![g] = NoRequest]
        /\ \A b \in Agent : ~FlushPosted(b)
    BY <1>7 DEF GrantRequest, FlushReady, FlushAllowed, FlushPosted
  <2>2. \A b \in Agent : ~FlushPosted(b)'
    BY <2>1, MemoryTypes DEF FlushPosted, NoRequest
  <2> QED
    BY <1>3, <2>1, <2>2, MemoryTypes, BusPartKeepsFlush
<1>8. CASE WaitForWord
  <2>1. /\ busy /\ \A b \in Agent : FlushPosted(b) => slot[b].addr # pending_addr
        /\ UNCHANGED <<slot, busy, flush_count, bus_origid, pending_origid>>
    BY <1>8 DEF WaitForWord, FlushReady, FlushAllowed, FlushPosted, busVars, lines, control, pending
  <2>2. \A d \in Core : ~sending_flush[d]
    BY <1>1, <1>2, <2>1, MemoryTypes DEF SupplyPace
  <2>3. ~FlushPosted(MAIN_MEMORY)
    BY <1>1, <2>1, MemoryTypes DEF MemoryWordInv, AtStart
  <2>4. RequestedBlock' = RequestedBlock /\ \A d \in Core : Supplies(d)' = Supplies(d)
    BY <1>2, <2>1 DEF RequestedBlock, Supplies
  <2> QED
    BY <1>1, <2>1, <2>2, <2>3, <2>4, BusPartKeepsFlush DEF OneSource, SourceOf, FlushPosted
<1>9. CASE GoIdle
  <2>1. ~busy /\ ~busy' /\ slot' = slot /\ \A b \in Agent : ~FlushPosted(b)
    BY <1>9 DEF GoIdle, FlushReady, FlushAllowed, FlushPosted, control
  <2> QED
    BY <1>3, <2>1, MemoryTypes, BusPartKeepsFlush DEF FlushPosted
<1> QED
  BY <1>4, <1>5, <1>6, <1>7, <1>8, <1>9 DEF BusPhase, BusClock
-----------------------------------------------------------------------------
LEMMA InitFlush == Init => FlushInvariant
<1> SUFFICES ASSUME Init PROVE FlushInvariant
  OBVIOUS
<1>1. /\ phase = "memory" /\ ~busy /\ ~delay_in_progress /\ bus_cmd = "BUS_NO_CMD"
      /\ \A c \in Core : /\ ~sending_flush[c] /\ ~need_to_clean_first[c]
                         /\ access[c] = NoAccess /\ slot[c] = NoRequest
  <2>1. \A c \in Core : c \in Agent /\ c # MAIN_MEMORY
    BY BusAssumption DEF Core, Agent, MAIN_MEMORY
  <2>2. \A c \in Core : slot[c] = NoRequest
    BY <2>1 DEF Init, BusInit
  <2> QED
    BY <2>2 DEF Init, BusInit, CacheInit
<1>2. \A c \in Core : ~FlushPosted(c)
  BY <1>1 DEF FlushPosted, NoRequest
<1>3. AtStart
  BY <1>1 DEF AtStart
<1> QED
  BY <1>1, <1>2, <1>3 DEF FlushInvariant, CleanInv, CleaningOf, SupplyPace, OneSource, SourceOf,
     PostedInv, PostedOf, MemoryWordInv

LEMMA StutterKeepsFlush ==
  ASSUME TypeOK, FlushInvariant, UNCHANGED vars
  PROVE  FlushInvariant'
<1>1. /\ UNCHANGED <<lines, slot, delay, control, pending, cacheVars, cores>>
      /\ UNCHANGED <<phase, turn>>
  BY DEF vars, busVars, loop
<1>2. \A c \in Core : /\ AfterCoreOf(c)' = AfterCoreOf(c) /\ BeforeSnoop(c)' = BeforeSnoop(c)
                      /\ BeforeClock(c)' = BeforeClock(c)
  BY <1>1 DEF AfterCoreOf, BeforeSnoop, BeforeClock, InCachePhases
<1> USE <1>1, <1>2, MemoryTypes, FlushTypes
        DEF FlushInvariant, lines, delay, control, pending, cacheVars, arrays, request, supply,
            cleaning, cores
<1>a. CleanInv'
  BY DEF CleanInv, CleaningOf, MissesOther, Supplies, VictimBlock, AccessSet, RequestedBlock,
     FlushPosted
<1>b. SupplyPace'
  BY DEF SupplyPace, FlushPosted, Present
<1>c. OneSource'
  BY DEF OneSource, SourceOf, FlushPosted, RequestedBlock
<1>d. PostedInv'
  BY DEF PostedInv, PostedOf, FlushPosted, MissesOther, VictimBlock, AccessSet, Supplies,
     RequestedBlock
<1>e. MemoryWordInv'
  BY DEF MemoryWordInv, AtStart, FlushPosted
<1> QED
  BY <1>a, <1>b, <1>c, <1>d, <1>e

(* Who flushes what, in every execution in which no store is lost: see     *)
(* FlushInv.                                                               *)
THEOREM FlushInvariantHolds == Spec /\ StoreIsInCache => []FlushInvariant
<1>1. TypeOK /\ ProtocolInvariant /\ MemoryInvariant /\ FlushInvariant /\ [Next]_vars
        /\ [StoreCompletes]_vars => FlushInvariant'
  <2> SUFFICES ASSUME TypeOK, ProtocolInvariant, MemoryInvariant, FlushInvariant, [Next]_vars,
                      [StoreCompletes]_vars
               PROVE  FlushInvariant'
    OBVIOUS
  <2>1. CASE Next /\ StoreCompletes
    BY <2>1, MemoryKeepsFlush, BusKeepsFlush, EdgeKeepsFlush, SnoopKeepsFlush,
       ResponseKeepsFlush, ClockKeepsFlush, CoreKeepsFlush DEF Next, Tick
  <2>2. CASE UNCHANGED vars
    BY <2>2, StutterKeepsFlush
  <2> QED
    BY <2>1, <2>2
<1> QED
  BY <1>1, InitFlush, TypeCorrect, ProtocolHolds, MemoryInvariantHolds, PTL
     DEF Spec, StoreIsInCache

(* When no store is lost, all words of a block that crosses the bus come   *)
(* from one agent, whatever else is posted meanwhile.                      *)
THEOREM OneSupplierHolds == Spec /\ StoreIsInCache => OneSupplier
<1>1. ASSUME TypeOK, ProtocolInvariant, MemoryInvariant, FlushInvariant, [Next]_vars,
             busy, flush_count > 0, pending_addr' # pending_addr
      PROVE  bus_origid' = bus_origid
  <2>1. BusPhase
    BY <1>1 DEF Next, Tick, MemoryPhase, MemoryClock, EdgePhase, SharedEdge, SnoopPhase,
       ResponsePhase, ClockPhase, CorePhase, vars, busVars, pending
  <2>2. PICK a \in Agent : GrantFlush(a)
    BY <1>1, <2>1 DEF BusPhase, BusClock, DelayStep, GrantRequest, WaitForWord, GoIdle, busVars,
       pending, ProtocolInvariant, DelayInv
  <2>3. bus_origid = a
    BY <1>1, <2>1, <2>2, OnlyWordOfBlock DEF BusPhase
  <2> QED
    BY <2>2, <2>3 DEF GrantFlush, PutOnBus
<1>2. TypeOK /\ ProtocolInvariant /\ MemoryInvariant /\ FlushInvariant /\ [Next]_vars
        => [(busy /\ flush_count > 0 /\ pending_addr' # pending_addr)
              => bus_origid' = bus_origid]_vars
  BY <1>1
<1> QED
  BY <1>2, FlushInvariantHolds, TypeCorrect, ProtocolHolds, MemoryInvariantHolds, PTL
     DEF Spec, OneSupplier

(* When no store is lost, the counter of a block being cleaned stays       *)
(* inside the block, however often a word has to be sent again.            *)
THEOREM CleanCounterHolds == Spec /\ StoreIsInCache => []CleanCounterInRange
<1>1. FlushInvariant => CleanCounterInRange
  BY DEF FlushInvariant, CleanInv, CleaningOf, CleanCounterInRange, BLOCK_SIZE
<1> QED
  BY <1>1, FlushInvariantHolds, PTL
-----------------------------------------------------------------------------
(* Programs whose stores fit lose none.                                    *)

LEMMA SameCachesFit ==
  ASSUME FitInv, UNCHANGED <<tag, state, waiting_for_bus, need_to_clean_first, access>>
  PROVE  FitInv'
BY DEF FitInv, ModifiedByStore, CleansForLoad, MissesOther, AccessSet

LEMMA SnoopFits ==
  ASSUME TypeOK, FitInv, NEW c \in Core, SnoopPhase(c)
  PROVE  FitInv'
<1> DEFINE i == get_index(bus_addr)
<1>1. UNCHANGED <<tag, waiting_for_bus, need_to_clean_first, access>>
  BY DEF SnoopPhase, CacheSnoop, SnoopOwnRequest, SnoopOther, arrays, request, cleaning, cores
<1>2. state' = state \/ \E m \in {"I", "S"} : state' = [state EXCEPT ![c][i] = m]
  BY DEF SnoopPhase, CacheSnoop, SnoopOwnRequest, SnoopOther, SnoopRead, SnoopReadX,
     SnoopNothing, SetState, arrays
<1>3. i \in Set
  BY TypeOKParts, IndexInSet DEF BusTypeOK
<1> HIDE DEF i
<1>4. \A d \in Core, j \in Set : state'[d][j] = "M" => state[d][j] = "M"
  <2>1. state \in [Core -> [Set -> MESI]]
    BY FlushTypes
  <2>2. CASE \E m \in {"I", "S"} : state' = [state EXCEPT ![c][i] = m]
    <3>1. PICK m \in {"I", "S"} : state' = [state EXCEPT ![c][i] = m]
      BY <2>2
    <3>2. m # "M"
      OBVIOUS
    <3> QED
      BY <1>3, <2>1, <3>1, <3>2
  <2> QED
    BY <1>2, <2>2
<1> QED
  BY <1>1, <1>4 DEF FitInv, ModifiedByStore, CleansForLoad, MissesOther, AccessSet

(* The address of a store is one of those that the core's program stores to. *)
LEMMA StoreAddress ==
  ASSUME TypeOK, NEW c \in Core, NEW r \in IF access[c] = NoAccess THEN AccessOf(c) ELSE {access[c]}
  PROVE  /\ r \in AccessOf(c) /\ r.addr \in Addr /\ r.op \in {"lw", "sw"} /\ r # NoAccess
         /\ access[c] # NoAccess => r = access[c]
         /\ r.op = "sw" => r.addr \in Stores[c]
<1>1. r \in AccessOf(c) /\ (access[c] # NoAccess => r = access[c])
  BY TypeOKParts DEF CoresTypeOK
<1> QED
  BY <1>1, ProgramAssumption DEF AccessOf, LoadOf, StoreOf, NoAccess

(* A filled block is Modified only for a store to it.                      *)
LEMMA ResponseFits ==
  ASSUME TypeOK, ProtocolInvariant, FitInv, NEW c \in Core, ResponsePhase(c)
  PROVE  FitInv'
<1>1. UNCHANGED <<need_to_clean_first, access>>
  BY DEF ResponsePhase, CacheHandleBusResponse, cleaning, cores
<1>2. CASE UNCHANGED <<tag, state, request>>
  BY <1>1, <1>2, SameCachesFit DEF request
<1>3. CASE FillLastWord(c)
  <2> DEFINE i == get_index(bus_addr)
  <2>1. /\ Filling(c) /\ i = get_index(waiting_addr[c])
        /\ get_tag(bus_addr) = get_tag(waiting_addr[c])
    BY <1>3, WordTaken DEF FillLastWord
  <2>2. waiting_for_bus[c] /\ ~need_to_clean_first[c]
    BY <2>1 DEF Filling, FitInv, CleansForLoad, MissesOther
  <2>3. is_write_request[c] => waiting_addr[c] \in Stores[c]
    <3>1. /\ access[c] # NoAccess /\ waiting_addr[c] = access[c].addr
          /\ is_write_request[c] => access[c].op = "sw"
      BY <2>2 DEF ProtocolInvariant, AccessInv
    <3> QED
      BY <3>1, StoreAddress
  <2>4. /\ i \in Set
        /\ tag' = [tag EXCEPT ![c][i] = get_tag(bus_addr)]
        /\ \E m \in MESI : /\ state' = [state EXCEPT ![c][i] = m]
                           /\ m = "M" => is_write_request[c]
    BY <1>3, TypeOKParts, IndexInSet DEF FillLastWord, SetState, BusTypeOK, MESI
  <2>5. \A d \in Core \ {c} : waiting_for_bus'[d] = waiting_for_bus[d]
    BY <1>3 DEF FillLastWord
  <2> HIDE DEF i
  <2>6. ASSUME NEW d \in Core, NEW j \in Set, state'[d][j] = "M"
        PROVE  \E a \in Stores[d] : get_index(a) = j /\ get_tag(a) = tag'[d][j]
    <3>1. CASE d = c /\ j = i
      <4>1. is_write_request[c] /\ tag'[d][j] = get_tag(waiting_addr[c])
        BY <2>1, <2>4, <2>6, <3>1, FlushTypes
      <4> QED
        BY <2>1, <2>3, <3>1, <4>1
    <3>2. CASE ~(d = c /\ j = i)
      <4>1. state[d][j] = "M" /\ tag'[d][j] = tag[d][j]
        BY <2>4, <2>6, <3>2, FlushTypes
      <4> QED
        BY <4>1 DEF FitInv, ModifiedByStore
    <3> QED
      BY <3>1, <3>2
  <2>7. ASSUME NEW d \in Core, need_to_clean_first'[d]
        PROVE  MissesOther(d)' /\ access'[d].op = "lw"
    <3>1. d # c /\ MissesOther(d) /\ access[d].op = "lw"
      BY <1>1, <2>2, <2>7 DEF FitInv, CleansForLoad
    <3>2. tag'[d] = tag[d] /\ waiting_for_bus'[d] = waiting_for_bus[d]
      BY <2>4, <2>5, <3>1, FlushTypes
    <3> QED
      BY <1>1, <3>1, <3>2 DEF MissesOther, AccessSet
  <2> QED
    BY <2>6, <2>7 DEF FitInv, ModifiedByStore, CleansForLoad
<1> QED
  BY <1>2, <1>3 DEF ResponsePhase, CacheHandleBusResponse, FillWord, arrays

(* A store hits, or finds a clean block in its way.                        *)
LEMMA OfferFits ==
  ASSUME StoresFit, TypeOK, ProtocolInvariant, FitInv,
         NEW c \in Core, CorePhase(c), NEW ready \in BOOLEAN,
         NEW r \in IF access[c] = NoAccess THEN AccessOf(c) ELSE {access[c]},
         Offer(c, r, ready)
  PROVE  /\ FitInv'
         /\ r.op = "sw" /\ ready => WriteHit(c, r.addr, r.data)
<1> DEFINE a == r.addr
           i == get_index(a)
<1>1. /\ r \in AccessOf(c) /\ a \in Addr /\ a \in Int /\ r.op \in {"lw", "sw"} /\ r # NoAccess
      /\ access[c] # NoAccess => r = access[c]
      /\ r.op = "sw" => a \in Stores[c]
      /\ i \in Set
  BY StoreAddress, ZeroInAddr, IndexInSet
<1>2. /\ access'[c] = IF ready THEN NoAccess ELSE r
      /\ \A b \in Core : b # c => access'[b] = access[b]
  BY TypeOKParts DEF Offer, CoresTypeOK
<1>3. \/ r.op = "lw" /\ CacheRead(c, a, ready)
      \/ r.op = "sw" /\ CacheWrite(c, a, r.data, ready)
  BY DEF Offer
<1>4. /\ tag' = tag
      /\ \A d \in Core : d # c \/ Blocked(c) => /\ waiting_for_bus'[d] = waiting_for_bus[d]
                                                /\ state'[d] = state[d]
  BY CoreAccessFrame
<1>5. need_to_clean_first[c] => MissesOther(c) /\ access[c] = r /\ r.op = "lw" /\ tag[c][i] # get_tag(a)
  BY <1>1 DEF FitInv, CleansForLoad, MissesOther, AccessSet
<1>6. (r.op = "sw" /\ state[c][i] = "M") => tag[c][i] = get_tag(a)
  <2> SUFFICES ASSUME r.op = "sw", state[c][i] = "M" PROVE tag[c][i] = get_tag(a)
    OBVIOUS
  <2>1. PICK b \in Stores[c] : get_index(b) = i /\ get_tag(b) = tag[c][i]
    BY <1>1 DEF FitInv, ModifiedByStore
  <2> QED
    BY <1>1, <2>1 DEF StoresFit
<1> HIDE DEF i
<1>7. ASSUME \A j \in Set : state'[c][j] = "M"
               => state[c][j] = "M" \/ (j = i /\ r.op = "sw" /\ tag[c][i] = get_tag(a)),
             \A d \in Core : d # c => need_to_clean_first'[d] = need_to_clean_first[d],
             need_to_clean_first'[c] => MissesOther(c)' /\ access'[c].op = "lw"
      PROVE  FitInv'
  <2>1. ASSUME NEW d \in Core, NEW j \in Set, state'[d][j] = "M"
        PROVE  \E b \in Stores[d] : get_index(b) = j /\ get_tag(b) = tag'[d][j]
    <3>1. CASE state[d][j] = "M"
      BY <1>4, <3>1 DEF FitInv, ModifiedByStore
    <3>2. CASE state[d][j] # "M"
      <4>1. d = c /\ j = i /\ r.op = "sw" /\ tag[c][i] = get_tag(a)
        BY <1>4, <1>7, <2>1, <3>2
      <4> QED
        BY <1>1, <1>4, <4>1 DEF i
    <3> QED
      BY <3>1, <3>2
  <2>2. ASSUME NEW d \in Core, need_to_clean_first'[d]
        PROVE  MissesOther(d)' /\ access'[d].op = "lw"
    <3>1. CASE d = c
      BY <1>7, <2>2, <3>1
    <3>2. CASE d # c
      <4>1. MissesOther(d) /\ access[d].op = "lw"
        BY <1>7, <2>2, <3>2 DEF FitInv, CleansForLoad
      <4> QED
        BY <1>2, <1>4, <3>2, <4>1 DEF MissesOther, AccessSet
    <3> QED
      BY <3>1, <3>2
  <2> QED
    BY <2>1, <2>2 DEF FitInv, ModifiedByStore, CleansForLoad
<1>8. CASE Refuse(c)
  <2>1. ~ready \/ WriteMiss(c, a, r.data, ready) \/ ReadHit(c, a) \/ WriteHit(c, a, r.data)
    BY <1>3 DEF CacheRead, CacheWrite
  <2>2. ~ready
    BY <1>8, <2>1 DEF Refuse, WriteMiss, ReadHit, WriteHit
  <2>3. UNCHANGED <<state, need_to_clean_first, waiting_for_bus>>
    BY <1>8 DEF Refuse, cacheVars, arrays, cleaning, request
  <2>4. need_to_clean_first'[c] => MissesOther(c)' /\ access'[c].op = "lw"
    BY <1>2, <1>4, <1>5, <2>2, <2>3 DEF MissesOther, AccessSet
  <2> QED
    BY <1>7, <2>2, <2>3, <2>4
<1>9. CASE ReadHit(c, a) \/ WriteHit(c, a, r.data)
  <2>1. ~need_to_clean_first[c]
    BY <1>5, <1>9 DEF ReadHit, WriteHit, Present, i
  <2>2. UNCHANGED need_to_clean_first
    BY <1>9 DEF ReadHit, WriteHit, cleaning
  <2>3. \A j \in Set : state'[c][j] = "M"
          => state[c][j] = "M" \/ (j = i /\ r.op = "sw" /\ tag[c][i] = get_tag(a))
    <3>1. CASE ReadHit(c, a)
      BY <3>1 DEF ReadHit, arrays
    <3>2. CASE WriteHit(c, a, r.data) /\ r.op = "sw"
      <4>1. state' = [state EXCEPT ![c][i] = "M"] /\ tag[c][i] = get_tag(a)
        BY <3>2 DEF WriteHit, SetState, Present, i
      <4> QED
        BY <1>1, <3>2, <4>1, FlushTypes
    <3>3. WriteHit(c, a, r.data) /\ r.op # "sw" => ReadHit(c, a)
      BY <1>3 DEF CacheRead, Refuse, WriteHit, ReadMiss
    <3> QED
      BY <1>9, <3>1, <3>2, <3>3
  <2>4. r.op = "sw" => WriteHit(c, a, r.data) \/ ~ready
    BY <1>3, <1>9 DEF CacheWrite, WriteMiss, ReadHit, Present
  <2> QED
    BY <1>7, <2>1, <2>2, <2>3, <2>4
<1>10. ASSUME NEW cmd, NEW d, RequestBlock(c, a, cmd, d), ~need_to_clean_first[c]
       PROVE  FitInv'
  <2>1. UNCHANGED <<state, need_to_clean_first>>
    BY <1>10 DEF RequestBlock, arrays, cleaning
  <2> QED
    BY <1>7, <1>10, <2>1
<1>11. ASSUME r.op = "lw", ~ready, ~waiting_for_bus[c], tag[c][i] # get_tag(a),
              \/ StartCleaning(c, a)
              \/ ContinueCleaning(c, a) /\ (SetState(c, a, "I") \/ UNCHANGED state)
       PROVE  FitInv'
  <2>1. \A j \in Set : state'[c][j] = "M" => state[c][j] = "M"
    <3>1. state' = state \/ state' = [state EXCEPT ![c][i] = "I"]
      BY <1>11 DEF StartCleaning, ContinueCleaning, SetState, arrays, i
    <3> QED
      BY <1>1, <3>1, FlushTypes
  <2>2. \A d \in Core : d # c => need_to_clean_first'[d] = need_to_clean_first[d]
    BY <1>11, FlushTypes DEF StartCleaning, ContinueCleaning
  <2>3. waiting_for_bus' = waiting_for_bus
    BY <1>11 DEF StartCleaning, ContinueCleaning, request
  <2>4. MissesOther(c)' /\ access'[c].op = "lw"
    BY <1>1, <1>2, <1>4, <1>11, <2>3 DEF MissesOther, AccessSet, i
  <2> QED
    BY <1>7, <2>1, <2>2, <2>4
<1>12. CASE r.op = "lw" /\ ~ready /\ ReadMiss(c, a)
  <2>1. ~waiting_for_bus[c] /\ (StartCleaning(c, a) => tag[c][i] # get_tag(a))
    BY <1>12 DEF ReadMiss, Blocked, StartCleaning, Present, i
  <2>2. ContinueCleaning(c, a) => tag[c][i] # get_tag(a)
    BY <1>5 DEF ContinueCleaning
  <2> QED
    BY <1>10, <1>11, <1>12, <2>1, <2>2 DEF ReadMiss, NothingToClean
<1>13. CASE r.op = "sw" /\ ~ready /\ WriteUpgrade(c, a, r.data)
  <2>1. ~need_to_clean_first[c]
    BY <1>5, <1>13
  <2> QED
    BY <1>10, <1>13, <2>1 DEF WriteUpgrade
<1>14. CASE r.op = "sw" /\ WriteMiss(c, a, r.data, ready)
  <2>1. /\ ~StartCleaning(c, a) /\ ~ContinueCleaning(c, a)
    BY <1>5, <1>6, <1>14 DEF WriteMiss, StartCleaning, ContinueCleaning, i
  <2> QED
    BY <1>10, <1>14, <2>1 DEF WriteMiss, NothingToClean
<1> QED
  BY <1>3, <1>8, <1>9, <1>12, <1>13, <1>14 DEF CacheRead, CacheWrite

LEMMA NextFits ==
  ASSUME StoresFit, TypeOK, ProtocolInvariant, FitInv, [Next]_vars
  PROVE  FitInv'
<1>1. CASE \E c \in Core : SnoopPhase(c)
  BY <1>1, SnoopFits
<1>2. CASE \E c \in Core : ResponsePhase(c)
  BY <1>2, ResponseFits
<1>3. ASSUME NEW c \in Core, CorePhase(c) PROVE FitInv'
  <2>1. CASE NoMemoryAccess(c)
    BY <2>1, SameCachesFit DEF NoMemoryAccess, cacheVars, arrays, request, cleaning
  <2>2. CASE MemoryAccess(c)
    BY <1>3, <2>2, OfferFits DEF MemoryAccess
  <2> QED
    BY <1>3, <2>1, <2>2 DEF CorePhase
<1>4. CASE \E c \in Core : ClockPhase(c)
  BY <1>4, SameCachesFit DEF ClockPhase, CacheClock, arrays, request, cleaning, cores
<1>5. CASE MemoryPhase \/ BusPhase \/ EdgePhase \/ UNCHANGED vars
  BY <1>5, SameCachesFit
     DEF MemoryPhase, BusPhase, EdgePhase, vars, cacheVars, arrays, request, cleaning, cores
<1> QED
  BY <1>1, <1>2, <1>3, <1>4, <1>5 DEF Next, Tick

(* When every core's stores to one set are to one block, a store that      *)
(* leaves the MEM stage is in the core's cache, for all loads.             *)
THEOREM StoreIsInCacheHolds ==
  ASSUME StoresFit
  PROVE  Spec => StoreIsInCache
<1>1. Init => FitInv
  BY DEF Init, CacheInit, FitInv, ModifiedByStore, CleansForLoad
<1>2. TypeOK /\ ProtocolInvariant /\ FitInv /\ [Next]_vars => FitInv'
  BY NextFits
<1>3. ASSUME TypeOK, ProtocolInvariant, FitInv, Next PROVE StoreCompletes
  <2> SUFFICES ASSUME NEW c \in Core, NEW a \in Addr, NEW d \in Word,
                      phase = "core", turn = c,
                      retired'[c] = [op |-> "sw", addr |-> a, data |-> d]
               PROVE  Present(c, a)' /\ dsram'[c][line(a)] = d
    BY DEF StoreCompletes
  <2>1. CorePhase(c)
    BY <1>3 DEF Next, Tick, MemoryPhase, BusPhase, EdgePhase, SnoopPhase, ResponsePhase,
       ClockPhase, CorePhase
  <2>2. /\ dsram \in [Core -> [Line -> Word]] /\ state \in [Core -> [Set -> MESI]]
        /\ retired \in [Core -> Access]
        /\ a \in Int /\ get_index(a) \in Set
    BY <1>3, TypeOKParts, ZeroInAddr, IndexInSet DEF CacheTypeOK, CoresTypeOK
  <2>3. line(a) \in Line
    <3>1. get_block_offset(a) \in 0 .. BLOCK_SIZE - 1
      BY <2>2, BusAssumption DEF get_block_offset, BLOCK_SIZE
    <3> QED
      BY <2>2, <3>1, WordOfSet DEF line
  <2>4. PICK r \in IF access[c] = NoAccess THEN AccessOf(c) ELSE {access[c]}, ready \in BOOLEAN :
          Offer(c, r, ready)
    BY <2>1, <2>2 DEF CorePhase, NoMemoryAccess, NoAccess, MemoryAccess
  <2>5. retired'[c] = CASE ~ready -> NoAccess
                        [] ready /\ r.op = "sw" -> r
                        [] OTHER -> [r EXCEPT !.data = dsram[c][line(r.addr)]]
    BY <2>2, <2>4 DEF Offer
  <2>6. ready /\ r.op = "sw" /\ r.addr = a /\ r.data = d
    <3>1. ready
      BY <2>5 DEF NoAccess
    <3>2. r.op = "sw"
      <4>1. [r EXCEPT !.data = dsram[c][line(r.addr)]].op = r.op
        BY <1>3, <2>4, StoreAddress DEF AccessOf, LoadOf, StoreOf
      <4> QED
        BY <2>5, <3>1, <4>1
    <3> QED
      BY <2>5, <3>1, <3>2
  <2>7. WriteHit(c, a, d)
    BY <1>3, <2>1, <2>4, <2>6, OfferFits
  <2>8. tag' = tag /\ tag[c][get_index(a)] = get_tag(a) /\ state'[c][get_index(a)] = "M"
    BY <2>2, <2>7 DEF WriteHit, Present, SetState
  <2>9. dsram'[c][line(a)] = d
    BY <2>2, <2>3, <2>7 DEF WriteHit
  <2> QED
    BY <2>8, <2>9 DEF Present
<1>4. TypeOK /\ ProtocolInvariant /\ FitInv /\ [Next]_vars => [StoreCompletes]_vars
  BY <1>3
<1> QED
  BY <1>1, <1>2, <1>4, TypeCorrect, ProtocolHolds, PTL DEF Spec, StoreIsInCache
(* So for such programs write-backs and supplies stay apart, without any   *)
(* assumption about the execution.                                         *)
THEOREM FittingProgramsSupplyInOrder ==
  ASSUME StoresFit
  PROVE  Spec => []FlushInvariant /\ OneSupplier /\ []CleanCounterInRange
BY StoreIsInCacheHolds, FlushInvariantHolds, OneSupplierHolds, CleanCounterHolds, PTL
=============================================================================
