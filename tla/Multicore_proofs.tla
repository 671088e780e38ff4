--------------------------- MODULE Multicore_proofs ---------------------------
(***************************************************************************)
(* Type correctness of Multicore, for every value of its constants, and    *)
(* the arithmetic of addresses that it rests on.                           *)
(***************************************************************************)
EXTENDS Multicore, TLAPS

-----------------------------------------------------------------------------
(* Addresses: blocks, words, sets (get_block_addr, get_block_offset and    *)
(* get_index in cache.c).                                                  *)

(* The words of a block of memory are words of memory.                     *)
LEMMA WordOfBlock ==
  ASSUME NEW b \in Addr, b % WORDS_IN_BLOCK = 0, NEW k \in 0 .. WORDS_IN_BLOCK - 1
  PROVE  b + k \in Addr
<1> DEFINE W == WORDS_IN_BLOCK
           q == b \div W
<1>1. W \in Nat /\ W > 0 /\ NUM_BLOCKS \in Nat
  BY BusAssumption
<1>2. q \in Int /\ b = W * q
  BY <1>1 DEF Addr
<1>3. q <= NUM_BLOCKS - 1
  BY <1>1, <1>2 DEF Addr
<1> HIDE DEF q
<1>4. b + W <= W * NUM_BLOCKS
  <2> DEFINE r == NUM_BLOCKS - 1 - q
  <2>1. r \in Nat /\ NUM_BLOCKS = q + r + 1
    BY <1>1, <1>2, <1>3
  <2>2. W * r \in Nat
    BY <1>1, <2>1
  <2>3. W * NUM_BLOCKS = W * q + W * r + W
    BY <1>1, <1>2, <2>1
  <2> QED
    BY <1>1, <1>2, <2>2, <2>3
<1> QED
  BY <1>1, <1>4 DEF Addr

(* An address lies in its block, and the block is aligned.                 *)
LEMMA BlockAddr ==
  ASSUME NEW a \in Int
  PROVE  /\ get_block_addr(a) \in Int
         /\ get_block_addr(a) % WORDS_IN_BLOCK = 0
         /\ a \in Addr => get_block_addr(a) \in Addr
<1>1. a % WORDS_IN_BLOCK \in 0 .. WORDS_IN_BLOCK - 1
  BY BusAssumption
<1>2. get_block_addr(a) \in Int /\ get_block_addr(a) % WORDS_IN_BLOCK = 0
  BY BusAssumption DEF get_block_addr
<1>3. ASSUME a \in Addr PROVE get_block_addr(a) \in Addr
  <2>1. a \in Nat /\ a % WORDS_IN_BLOCK \in 0 .. a
    BY <1>3, BusAssumption DEF Addr
  <2>2. \A r \in 0 .. a : a - r \in Addr
    BY <1>3, BusAssumption DEF Addr
  <2> QED
    BY <2>1, <2>2 DEF get_block_addr
<1> QED
  BY <1>2, <1>3

(* Every address falls in a set.                                           *)
LEMMA IndexInSet ==
  ASSUME NEW a \in Int
  PROVE  get_index(a) \in Set /\ get_tag(a) \in Int
  BY BusAssumption, CacheAssumption DEF get_index, get_tag, Set, BLOCK_SIZE

(* The words of a set lie in dsram.                                        *)
LEMMA WordOfSet ==
  ASSUME NEW i \in Set, NEW k \in 0 .. BLOCK_SIZE - 1
  PROVE  i * BLOCK_SIZE + k \in Line
  BY BusAssumption, CacheAssumption DEF Set, Line, BLOCK_SIZE

LEMMA ZeroInAddr == 0 \in Addr /\ 0 % WORDS_IN_BLOCK = 0 /\ Addr \subseteq Int
<1>1. 0 % WORDS_IN_BLOCK = 0
  BY BusAssumption
<1>2. NUM_BLOCKS * WORDS_IN_BLOCK \in Nat /\ NUM_BLOCKS * WORDS_IN_BLOCK > 0
  BY BusAssumption
<1> QED
  BY <1>1, <1>2 DEF Addr

-----------------------------------------------------------------------------
(* Type correctness.                                                       *)

LoopTypeOK ==
  /\ phase \in {"memory", "bus", "snoop", "response", "clock", "core", "edge"}
  /\ turn \in Core

CoresTypeOK ==
  /\ access \in [Core -> Access]
  /\ \A c \in Core : access[c] \in AccessOf(c) \cup {NoAccess}
  /\ retired \in [Core -> Access]

LEMMA TypeOKParts ==
  TypeOK <=> BusTypeOK /\ MemoryTypeOK /\ CacheTypeOK /\ LoopTypeOK /\ CoresTypeOK
  BY DEF TypeOK, LoopTypeOK, CoresTypeOK

LEMMA NoRequestType == NoRequest \in Request \cup {NoRequest}
  OBVIOUS

LEMMA NextTurn ==
  ASSUME NEW c \in Core
  PROVE  /\ 0 \in Core
         /\ c # NUM_CORES - 1 => c + 1 \in Core
  BY BusAssumption DEF Core

LEMMA InitType == Init => TypeOK
<1> SUFFICES ASSUME Init PROVE TypeOK
  OBVIOUS
<1> USE BusAssumption, ZeroInAddr
<1>1. BusTypeOK
  <2>1. PICK garbage \in {NoRequest} \cup [cmd : {"BUS_FLUSH"}, addr : Addr, data : Word] :
          slot = [a \in Agent |-> IF a = MAIN_MEMORY THEN garbage ELSE NoRequest]
    BY DEF Init, BusInit
  <2>2. garbage \in Request \cup {NoRequest}
    BY DEF Request, Addr
  <2>3. slot \in [Agent -> Request \cup {NoRequest}]
    BY <2>1, <2>2
  <2>4. /\ 0 \in Core /\ 0 \in Agent /\ NUM_CORES - 1 \in Core
        /\ 0 \in 0 .. WORDS_IN_BLOCK - 1
    BY DEF Core, Agent
  <2> QED
    BY <2>3, <2>4 DEF Init, BusInit, BusTypeOK, BusCmd, Transaction
<1>2. MemoryTypeOK
  <2>1. waiting_to_respond \in BOOLEAN
    BY Zenon DEF Init, MemoryInit
  <2>2. /\ mem \in [Addr -> Word] /\ wait_cycles \in 0 .. RESPONSE_DELAY
        /\ block_addr \in Addr /\ block_addr % WORDS_IN_BLOCK = 0
        /\ words_to_send \in 0 .. WORDS_IN_BLOCK
    BY MemoryAssumption DEF Init, MemoryInit
  <2> QED
    BY <2>1, <2>2 DEF MemoryTypeOK
<1>3. CacheTypeOK
  BY DEF Init, CacheInit, CacheTypeOK, MESI, BLOCK_SIZE
<1>4. LoopTypeOK /\ CoresTypeOK
  BY DEF Init, LoopTypeOK, CoresTypeOK, Core, Access, NoAccess
<1> QED
  BY <1>1, <1>2, <1>3, <1>4, TypeOKParts

LEMMA MemoryType == TypeOK /\ MemoryPhase => TypeOK'
<1> SUFFICES ASSUME TypeOK, MemoryPhase PROVE TypeOK'
  OBVIOUS
<1> USE BusAssumption, MemoryAssumption
<1>1. CacheTypeOK' /\ CoresTypeOK' /\ LoopTypeOK'
  BY TypeOKParts, NextTurn DEF MemoryPhase, CacheTypeOK, cacheVars, arrays, request,
     supply, cleaning, CoresTypeOK, cores, LoopTypeOK, GoTo, Core
<1>2. BusTypeOK' /\ MemoryTypeOK'
  <2> USE TypeOKParts DEF MemoryPhase, MemoryClock, lines, shared, delay, control,
          pending, BusTypeOK, MemoryTypeOK
  <2>1. CASE TakeFlushedWord
    <3>1. mem' \in [Addr -> Word] /\ slot' = slot
      BY <2>1 DEF TakeFlushedWord, WriteMemory
    <3>2. waiting_to_respond' \in BOOLEAN
      BY <2>1, Zenon DEF TakeFlushedWord, CancelResponse, response
    <3>3. /\ wait_cycles' \in 0 .. RESPONSE_DELAY
          /\ block_addr' \in Addr /\ block_addr' % WORDS_IN_BLOCK = 0
          /\ words_to_send' \in 0 .. WORDS_IN_BLOCK
      BY <2>1, ZeroInAddr DEF TakeFlushedWord, CancelResponse, response
    <3> QED
      BY <3>1, <3>2, <3>3
  <2>2. CASE CountDown
    BY <2>2 DEF CountDown
  <2>3. CASE SendWord
    <3> DEFINE w == block_addr + (WORDS_IN_BLOCK - words_to_send)
    <3>1. w \in Addr
      BY <2>3, WordOfBlock DEF SendWord
    <3>2. slot' \in [Agent -> Request \cup {NoRequest}]
      <4>1. mem[w] \in Word /\ w \in Int
        BY <3>1, ZeroInAddr
      <4>2. [cmd |-> "BUS_FLUSH", addr |-> w, data |-> mem[w]] \in Request
        BY <4>1 DEF Request
      <4> QED
        BY <2>3, <4>2 DEF SendWord, BusRequest
    <3>3. MemoryTypeOK'
      <4>1. waiting_to_respond' \in BOOLEAN
        BY <2>3, Zenon DEF SendWord
      <4>2. words_to_send' \in 0 .. WORDS_IN_BLOCK
        BY <2>3 DEF SendWord
      <4>3. block_addr' \in Addr /\ block_addr' % WORDS_IN_BLOCK = 0
        BY <2>3, ZeroInAddr DEF SendWord
      <4> QED
        BY <2>3, <4>1, <4>2, <4>3 DEF SendWord
    <3> QED
      BY <3>2, <3>3
  <2>4. CASE StartResponse
    <3>1. get_block_addr(bus_addr) \in Addr /\ get_block_addr(bus_addr) % WORDS_IN_BLOCK = 0
      BY <2>4, BlockAddr DEF StartResponse
    <3> QED
      BY <2>4, <3>1 DEF StartResponse
  <2>5. CASE MemoryIdle
    BY <2>5 DEF MemoryIdle, memoryVars, response
  <2> QED
    BY <2>1, <2>2, <2>3, <2>4, <2>5
<1> QED
  BY <1>1, <1>2 DEF TypeOK, LoopTypeOK, CoresTypeOK

LEMMA BusType == TypeOK /\ BusPhase => TypeOK'
<1> SUFFICES ASSUME TypeOK, BusPhase PROVE TypeOK'
  OBVIOUS
<1> USE BusAssumption
<1>1. MemoryTypeOK' /\ CacheTypeOK' /\ CoresTypeOK' /\ LoopTypeOK'
  BY TypeOKParts, NextTurn DEF BusPhase, memoryVars, response, MemoryTypeOK, CacheTypeOK,
     cacheVars, arrays, request, supply, cleaning, CoresTypeOK, cores, LoopTypeOK, GoTo, Core
<1>2. BusTypeOK'
  <2> USE TypeOKParts DEF BusTypeOK
  <2>1. CASE DelayStep
    <3>1. delay_cycles' = 0 /\ pending_addr \in Addr /\ pending_cmd \in Transaction
      BY <2>1 DEF DelayStep
    <3>2. get_block_addr(pending_addr) \in Int /\ pending_addr \in Int
      BY <3>1, BlockAddr, ZeroInAddr
    <3>3. pending_origid \in Agent /\ pending_cmd \in BusCmd
      BY <3>1 DEF Agent, Core, BusCmd
    <3>4. busy' \in BOOLEAN /\ delay_in_progress' \in BOOLEAN /\ ~delay_in_progress'
      BY <2>1, <3>1, Zenon DEF DelayStep
    <3>5. flush_count' \in 0 .. WORDS_IN_BLOCK - 1
      BY <2>1, <3>1 DEF DelayStep
    <3>6. /\ bus_cmd' = pending_cmd /\ bus_origid' = pending_origid
          /\ bus_addr' = pending_addr /\ bus_data' = pending_data
          /\ pending_addr' \in Int
      BY <2>1, <3>1, <3>2 DEF DelayStep
    <3>7. UNCHANGED <<shared, slot, last_granted, pending_cmd, pending_origid, pending_data>>
      BY <2>1 DEF DelayStep
    <3> QED
      BY <3>1, <3>2, <3>3, <3>4, <3>5, <3>6, <3>7 DEF shared
  <2>2. ASSUME NEW a \in Agent, GrantFlush(a) PROVE BusTypeOK'
    <3>1. slot[a] \in Request /\ slot[a].cmd = "BUS_FLUSH"
      BY <2>2 DEF GrantFlush, LowestFlush, FlushReady, FlushAllowed, NoRequest
    <3>2. slot[a].addr \in Int /\ slot[a].data \in Word
      BY <3>1 DEF Request, Addr
    <3>3. bus_cmd' \in BusCmd /\ bus_cmd' \notin Transaction
      BY <2>2 DEF GrantFlush, PutOnBus, BusCmd, Transaction
    <3>4. slot' \in [Agent -> Request \cup {NoRequest}]
      BY <2>2 DEF GrantFlush, PutOnBus
    <3>5. ~delay_in_progress
      BY <2>2 DEF GrantFlush, LowestFlush
    <3>6. /\ bus_origid' \in Agent /\ bus_addr' \in Int /\ bus_data' \in Word
          /\ pending_addr' \in Int
      BY <2>2, <3>2 DEF GrantFlush, PutOnBus
    <3>7. /\ busy' \in BOOLEAN /\ shared_D' \in BOOLEAN
          /\ flush_count' \in 0 .. WORDS_IN_BLOCK - 1
      <4>1. CASE BlockComplete
        <5>1. busy' \in BOOLEAN /\ shared_D' \in BOOLEAN
          BY <2>2, <4>1, Zenon DEF GrantFlush, CountWord
        <5>2. flush_count' = 0
          BY <2>2, <4>1 DEF GrantFlush, CountWord
        <5> QED
          BY <5>1, <5>2
      <4>2. CASE ~BlockComplete
        <5>1. /\ flush_count' = IF busy THEN flush_count + 1 ELSE flush_count
              /\ busy' = busy /\ shared_D' = shared_D
          BY <2>2, <4>2 DEF GrantFlush, CountWord
        <5> QED
          BY <4>2, <5>1 DEF BlockComplete
      <4> QED
        BY <4>1, <4>2
    <3> QED
      BY <2>2, <3>3, <3>4, <3>5, <3>6, <3>7 DEF GrantFlush, delay
  <2>3. ASSUME NEW c \in Core, GrantRequest(c) PROVE BusTypeOK'
    <3>1. slot[c] \in Request /\ slot[c].cmd \in Transaction
      BY <2>3 DEF GrantRequest, Requesting, Agent, Core, NoRequest, Transaction
    <3>2. slot[c].addr \in Addr /\ slot[c].data \in Word
      BY <3>1 DEF Request, Transaction
    <3>3. slot' \in [Agent -> Request \cup {NoRequest}]
      BY <2>3 DEF GrantRequest
    <3> QED
      BY <2>3, <3>1, <3>2, <3>3 DEF GrantRequest, MovePointer, lines, shared, Addr
  <2>4. CASE WaitForWord
    BY <2>4 DEF WaitForWord, busVars, lines, shared, delay, control, pending
  <2>5. CASE GoIdle
    BY <2>5 DEF GoIdle, shared, delay, control, pending, BusCmd, Transaction
  <2> QED
    BY <2>1, <2>2, <2>3, <2>4, <2>5 DEF BusPhase, BusClock
<1> QED
  BY <1>1, <1>2 DEF TypeOK, LoopTypeOK, CoresTypeOK

(* A request line stays typed when a transaction or a word is posted.      *)
LEMMA PostTransaction ==
  ASSUME slot \in [Agent -> Request \cup {NoRequest}],
         NEW a \in Agent, NEW cmd \in Transaction, NEW addr \in Addr, NEW data \in Word,
         BusRequest(a, cmd, addr, data)
  PROVE  slot' \in [Agent -> Request \cup {NoRequest}]
<1>1. [cmd |-> cmd, addr |-> addr, data |-> data] \in Request
  BY DEF Request
<1> QED
  BY <1>1 DEF BusRequest

LEMMA PostFlush ==
  ASSUME slot \in [Agent -> Request \cup {NoRequest}],
         NEW a \in Agent, NEW addr \in Int, NEW data \in Word,
         BusRequest(a, "BUS_FLUSH", addr, data)
  PROVE  slot' \in [Agent -> Request \cup {NoRequest}]
<1>1. [cmd |-> "BUS_FLUSH", addr |-> addr, data |-> data] \in Request
  BY DEF Request
<1> QED
  BY <1>1 DEF BusRequest

LEMMA SetStateType ==
  ASSUME CacheTypeOK, NEW c \in Core, NEW a, NEW m \in MESI, SetState(c, a, m)
  PROVE  state' \in [Core -> [Set -> MESI]]
<1> DEFINE row == [state[c] EXCEPT ![get_index(a)] = m]
<1>1. row \in [Set -> MESI]
  BY DEF CacheTypeOK
<1>2. state' = [state EXCEPT ![c] = row]
  BY DEF SetState
<1> QED
  BY <1>1, <1>2 DEF CacheTypeOK

LEMMA CoreIsAgent == Core \subseteq Agent
  BY BusAssumption DEF Core, Agent

LEMMA SnoopType == TypeOK => \A c \in Core : SnoopPhase(c) => TypeOK'
<1> SUFFICES ASSUME TypeOK, NEW c \in Core, SnoopPhase(c) PROVE TypeOK'
  OBVIOUS
<1> USE BusAssumption, TypeOKParts
<1>1. MemoryTypeOK' /\ CoresTypeOK' /\ LoopTypeOK'
  BY DEF SnoopPhase, MemoryTypeOK, memoryVars, response, CoresTypeOK, cores,
     LoopTypeOK, GoTo
<1>2. BusTypeOK'
  <2>1. shared_D' \in BOOLEAN
    BY Zenon DEF SnoopPhase, CacheSnoop, SnoopOwnRequest, SnoopOther, SnoopRead,
       SnoopReadX, SnoopNothing, BusSetShared, BusTypeOK
  <2> QED
    BY <2>1 DEF SnoopPhase, CacheSnoop, BusTypeOK, lines, delay, control, pending
<1>3. CacheTypeOK'
  <2> USE DEF CacheTypeOK, SnoopPhase, CacheSnoop, arrays, request, supply, cleaning
  <2>1. CASE SnoopOwnRequest(c)
    BY <2>1 DEF SnoopOwnRequest
  <2>2. CASE SnoopOther(c)
    <3>0. UNCHANGED <<tag, dsram, is_mine, request, need_to_clean_first>>
      BY <2>2 DEF SnoopOther
    <3>1. words_left' \in [Core -> Int]
      BY <2>2 DEF SnoopOther, RepeatCleanWord
    <3>2. state' \in [Core -> [Set -> MESI]]
      <4>1. \/ SetState(c, bus_addr, "S") \/ SetState(c, bus_addr, "I")
            \/ UNCHANGED state
        BY <2>2 DEF SnoopOther, SnoopRead, SnoopReadX, SnoopNothing
      <4> QED
        BY <4>1, SetStateType DEF MESI
    <3>3. /\ sending_flush' \in [Core -> BOOLEAN]
          /\ flush_block_addr' \in [Core -> Int]
          /\ words_left_to_flush' \in [Core -> 0 .. BLOCK_SIZE]
      <4>1. get_block_addr(bus_addr) \in Int /\ BLOCK_SIZE \in 0 .. BLOCK_SIZE
        BY BlockAddr DEF BusTypeOK, BLOCK_SIZE
      <4>2. CASE StartSupply(c)
        BY <4>1, <4>2 DEF StartSupply
      <4>3. CASE UNCHANGED supply
        BY <4>3
      <4> QED
        BY <2>2, <4>2, <4>3 DEF SnoopOther, SnoopRead, SnoopReadX, SnoopNothing
    <3> QED
      BY <3>0, <3>1, <3>2, <3>3
  <2> QED
    BY <2>1, <2>2
<1> QED
  BY <1>1, <1>2, <1>3 DEF TypeOK, LoopTypeOK, CoresTypeOK

LEMMA ResponseType == TypeOK => \A c \in Core : ResponsePhase(c) => TypeOK'
<1> SUFFICES ASSUME TypeOK, NEW c \in Core, ResponsePhase(c) PROVE TypeOK'
  OBVIOUS
<1> USE BusAssumption, TypeOKParts
<1>1. MemoryTypeOK' /\ CoresTypeOK' /\ LoopTypeOK' /\ BusTypeOK'
  BY DEF ResponsePhase, CacheHandleBusResponse, MemoryTypeOK, memoryVars, response,
     CoresTypeOK, cores, LoopTypeOK, GoTo, BusTypeOK, lines, delay, control, pending
<1>2. CacheTypeOK'
  <2> USE DEF CacheTypeOK, ResponsePhase, CacheHandleBusResponse, arrays, request,
          supply, cleaning
  <2>1. CASE FillWord(c)
    BY <2>1 DEF FillWord, BusTypeOK
  <2>2. CASE FillLastWord(c)
    <3>1. dsram' \in [Core -> [Line -> Word]]
      BY <2>2 DEF FillLastWord, BusTypeOK
    <3>2. tag' \in [Core -> [Set -> Int]]
      BY <2>2, IndexInSet DEF FillLastWord, BusTypeOK
    <3>3. state' \in [Core -> [Set -> MESI]]
      BY <2>2 DEF FillLastWord, SetState, MESI
    <3>4. /\ waiting_for_bus' \in [Core -> BOOLEAN]
          /\ waiting_addr' \in [Core -> Addr]
          /\ is_write_request' \in [Core -> BOOLEAN]
          /\ write_data' \in [Core -> Word]
      BY <2>2, ZeroInAddr DEF FillLastWord
    <3> QED
      BY <3>1, <3>2, <3>3, <3>4
  <2>3. CASE UNCHANGED <<arrays, request>>
    BY <2>3
  <2> QED
    BY <2>1, <2>2, <2>3
<1> QED
  BY <1>1, <1>2 DEF TypeOK, LoopTypeOK, CoresTypeOK

LEMMA ClockType == TypeOK => \A c \in Core : ClockPhase(c) => TypeOK'
<1> SUFFICES ASSUME TypeOK, NEW c \in Core, ClockPhase(c) PROVE TypeOK'
  OBVIOUS
<1> USE BusAssumption, TypeOKParts
<1>1. MemoryTypeOK' /\ CoresTypeOK' /\ LoopTypeOK'
  BY NextTurn DEF ClockPhase, MemoryTypeOK, memoryVars, response, CoresTypeOK, cores,
     LoopTypeOK, GoTo
<1>2. BusTypeOK' /\ CacheTypeOK'
  <2> USE DEF ClockPhase, CacheClock, arrays, request, supply, cleaning
  <2>1. CASE SendBlockWord(c)
    <3> DEFINE k == BLOCK_SIZE - words_left_to_flush[c]
               i == get_index(flush_block_addr[c])
    <3>1. /\ words_left_to_flush[c] \in 1 .. BLOCK_SIZE /\ flush_block_addr[c] \in Int
          /\ BLOCK_SIZE \in Nat
      BY <2>1 DEF SendBlockWord, CacheTypeOK, BLOCK_SIZE
    <3>2. k \in 0 .. BLOCK_SIZE - 1 /\ i \in Set
      BY <3>1, IndexInSet
    <3>3. dsram[c][i * BLOCK_SIZE + k] \in Word /\ flush_block_addr[c] + k \in Int
      BY <3>1, <3>2, WordOfSet DEF CacheTypeOK
    <3>4. slot' \in [Agent -> Request \cup {NoRequest}]
      BY <2>1, <3>3, PostFlush, CoreIsAgent DEF SendBlockWord, BusTypeOK
    <3>5. BusTypeOK'
      BY <3>4 DEF BusTypeOK, lines, delay, control, pending
    <3>6. words_left_to_flush' \in [Core -> 0 .. BLOCK_SIZE]
      BY <2>1, <3>1 DEF SendBlockWord, CacheTypeOK
    <3>7. /\ sending_flush' \in [Core -> BOOLEAN]
          /\ flush_block_addr' \in [Core -> Int]
      <4>1. \/ /\ sending_flush' = [sending_flush EXCEPT ![c] = FALSE]
               /\ flush_block_addr' = [flush_block_addr EXCEPT ![c] = 0]
            \/ UNCHANGED <<sending_flush, flush_block_addr>>
        BY <2>1, Zenon DEF SendBlockWord, EndSupply
      <4>2. CASE UNCHANGED <<sending_flush, flush_block_addr>>
        BY <4>2 DEF CacheTypeOK
      <4>3. CASE /\ sending_flush' = [sending_flush EXCEPT ![c] = FALSE]
                 /\ flush_block_addr' = [flush_block_addr EXCEPT ![c] = 0]
        <5>1. sending_flush' \in [Core -> BOOLEAN]
          BY <4>3 DEF CacheTypeOK
        <5>2. flush_block_addr' \in [Core -> Int]
          BY <4>3 DEF CacheTypeOK
        <5> QED
          BY <5>1, <5>2
      <4> QED
        BY <4>1, <4>2, <4>3
    <3> QED
      BY <3>5, <3>6, <3>7 DEF CacheTypeOK
  <2>2. CASE UNCHANGED <<supply, slot>>
    BY <2>2 DEF BusTypeOK, lines, delay, control, pending, CacheTypeOK
  <2> QED
    BY <2>1, <2>2
<1> QED
  BY <1>1, <1>2 DEF TypeOK, LoopTypeOK, CoresTypeOK

LEMMA EdgeType == TypeOK /\ EdgePhase => TypeOK'
<1> SUFFICES ASSUME TypeOK, EdgePhase PROVE TypeOK'
  OBVIOUS
<1> USE BusAssumption, TypeOKParts
<1>1. MemoryTypeOK' /\ CacheTypeOK' /\ CoresTypeOK' /\ LoopTypeOK'
  BY NextTurn DEF EdgePhase, memoryVars, response, MemoryTypeOK, CacheTypeOK, cacheVars,
     arrays, request, supply, cleaning, CoresTypeOK, cores, LoopTypeOK, GoTo
<1>2. BusTypeOK'
  <2>1. shared_Q' \in BOOLEAN
    BY Zenon DEF EdgePhase, SharedEdge, BusTypeOK
  <2> QED
    BY <2>1 DEF EdgePhase, SharedEdge, BusTypeOK, lines, delay, control, pending
<1> QED
  BY <1>1, <1>2 DEF TypeOK, LoopTypeOK, CoresTypeOK

-----------------------------------------------------------------------------
(* The MEM stage: what cache_read and cache_write post and record.         *)

LEMMA RequestBlockType ==
  ASSUME TypeOK, NEW c \in Core, NEW a \in Addr, NEW cmd \in Transaction, NEW d \in Word,
         RequestBlock(c, a, cmd, d)
  PROVE  CacheTypeOK' /\ slot' \in [Agent -> Request \cup {NoRequest}]
<1> USE TypeOKParts, BusAssumption
<1>1. slot' \in [Agent -> Request \cup {NoRequest}]
  BY PostTransaction, CoreIsAgent DEF RequestBlock, BusTypeOK
<1>2. is_write_request' \in [Core -> BOOLEAN]
  BY DEF RequestBlock, CacheTypeOK
<1> QED
  BY <1>1, <1>2 DEF RequestBlock, CacheTypeOK, arrays, supply, cleaning

LEMMA CleanWordType ==
  ASSUME TypeOK, NEW c \in Core, NEW a \in Addr, NEW k \in Int, CleanWord(c, a, k)
  PROVE  slot' \in [Agent -> Request \cup {NoRequest}]
<1> USE TypeOKParts, BusAssumption, CacheAssumption
<1> DEFINE i == get_index(a)
<1>1. i \in Set
  BY IndexInSet, ZeroInAddr
<1>2. PICK d \in DsramWord(c, i * BLOCK_SIZE + k) :
        BusRequest(c, "BUS_FLUSH", BlockOf(tag[c][i], i) + k, d)
  BY DEF CleanWord
<1>3. d \in Word
  BY <1>2 DEF DsramWord, CacheTypeOK
<1>4. BlockOf(tag[c][i], i) + k \in Int
  <2>1. tag[c][i] \in Int /\ i \in Int /\ NUM_SETS \in Int /\ BLOCK_SIZE \in Int
    BY <1>1 DEF CacheTypeOK, Set, BLOCK_SIZE
  <2> HIDE DEF i
  <2> QED
    BY <2>1 DEF BlockOf
<1> QED
  BY <1>2, <1>3, <1>4, PostFlush, CoreIsAgent DEF BusTypeOK

LEMMA CleaningType ==
  ASSUME TypeOK, NEW c \in Core, NEW a \in Addr,
         \/ StartCleaning(c, a)
         \/ ContinueCleaning(c, a) /\ (SetState(c, a, "I") \/ UNCHANGED state)
  PROVE  CacheTypeOK' /\ slot' \in [Agent -> Request \cup {NoRequest}]
<1> USE TypeOKParts DEF arrays, request, supply, cleaning
<1>1. CASE StartCleaning(c, a)
  BY <1>1, CleanWordType DEF StartCleaning, CacheTypeOK
<1>2. CASE ContinueCleaning(c, a) /\ (SetState(c, a, "I") \/ UNCHANGED state)
  <2>1. slot' \in [Agent -> Request \cup {NoRequest}]
    <3>1. words_left[c] \in Int
      BY DEF CacheTypeOK
    <3> QED
      BY <1>2, <3>1, CleanWordType DEF ContinueCleaning
  <2>2. state' \in [Core -> [Set -> MESI]]
    BY <1>2, SetStateType DEF CacheTypeOK, MESI
  <2>3. words_left' \in [Core -> Int]
    BY <1>2 DEF ContinueCleaning, CacheTypeOK
  <2>4. need_to_clean_first' \in [Core -> BOOLEAN]
    <3>1. \/ need_to_clean_first' = [need_to_clean_first EXCEPT ![c] = FALSE]
          \/ UNCHANGED need_to_clean_first
      BY <1>2, Zenon DEF ContinueCleaning
    <3> QED
      BY <3>1 DEF CacheTypeOK
  <2> QED
    BY <1>2, <2>1, <2>2, <2>3, <2>4 DEF ContinueCleaning, CacheTypeOK
<1> QED
  BY <1>1, <1>2

LEMMA ReadType ==
  ASSUME TypeOK, NEW c \in Core, NEW a \in Addr, NEW ready \in BOOLEAN,
         CacheRead(c, a, ready)
  PROVE  /\ CacheTypeOK' /\ slot' \in [Agent -> Request \cup {NoRequest}]
         /\ shared_D' \in BOOLEAN
<1> USE TypeOKParts, BusAssumption
<1>1. CASE ReadHit(c, a)
  BY <1>1 DEF ReadHit, CacheTypeOK, arrays, request, supply, cleaning, BusTypeOK
<1>2. CASE Refuse(c)
  BY <1>2 DEF Refuse, CacheTypeOK, cacheVars, arrays, request, supply, cleaning, BusTypeOK
<1>3. CASE ReadMiss(c, a)
  <2>1. shared_D' = shared_D
    BY <1>3 DEF ReadMiss, StartCleaning, ContinueCleaning
  <2>2. CASE StartCleaning(c, a)
    BY <2>1, <2>2, CleaningType DEF BusTypeOK
  <2>3. CASE ContinueCleaning(c, a) /\ (SetState(c, a, "I") \/ UNCHANGED state)
    BY <2>1, <2>3, CleaningType DEF BusTypeOK
  <2>4. CASE RequestBlock(c, a, "BUS_RD", 0)
    BY <2>1, <2>4, RequestBlockType DEF BusTypeOK, Transaction
  <2> QED
    BY <1>3, <2>2, <2>3, <2>4 DEF ReadMiss
<1> QED
  BY <1>1, <1>2, <1>3 DEF CacheRead

LEMMA WriteType ==
  ASSUME TypeOK, NEW c \in Core, NEW a \in Addr, NEW d \in Word, NEW ready \in BOOLEAN,
         CacheWrite(c, a, d, ready)
  PROVE  /\ CacheTypeOK' /\ slot' \in [Agent -> Request \cup {NoRequest}]
         /\ shared_D' \in BOOLEAN
<1> USE TypeOKParts, BusAssumption
<1>1. CASE WriteHit(c, a, d)
  <2>1. state' \in [Core -> [Set -> MESI]]
    BY <1>1 DEF WriteHit, SetState, CacheTypeOK, MESI
  <2> QED
    BY <1>1, <2>1 DEF WriteHit, CacheTypeOK, request, supply, cleaning, BusTypeOK
<1>2. CASE Refuse(c)
  BY <1>2 DEF Refuse, CacheTypeOK, cacheVars, arrays, request, supply, cleaning, BusTypeOK
<1>3. CASE WriteUpgrade(c, a, d)
  <2>1. shared_D' \in BOOLEAN
    BY <1>3, Zenon DEF WriteUpgrade, BusSetShared, BusTypeOK
  <2> QED
    BY <1>3, <2>1, RequestBlockType DEF WriteUpgrade, Transaction
<1>4. CASE WriteMiss(c, a, d, ready)
  <2>1. shared_D' = shared_D
    BY <1>4 DEF WriteMiss, StartCleaning, ContinueCleaning
  <2>2. CASE StartCleaning(c, a)
    BY <2>1, <2>2, CleaningType DEF BusTypeOK
  <2>3. CASE ContinueCleaning(c, a) /\ UNCHANGED state
    BY <2>1, <2>3, CleaningType DEF BusTypeOK
  <2>4. CASE RequestBlock(c, a, "BUS_RDX", d)
    BY <2>1, <2>4, RequestBlockType DEF BusTypeOK, Transaction
  <2> QED
    BY <1>4, <2>2, <2>3, <2>4 DEF WriteMiss
<1> QED
  BY <1>1, <1>2, <1>3, <1>4 DEF CacheWrite

LEMMA CoreType == TypeOK => \A c \in Core : CorePhase(c) => TypeOK'
<1> SUFFICES ASSUME TypeOK, NEW c \in Core, CorePhase(c) PROVE TypeOK'
  OBVIOUS
<1> USE TypeOKParts, BusAssumption
<1>1. MemoryTypeOK' /\ LoopTypeOK'
  BY NextTurn DEF CorePhase, AfterCore, MemoryTypeOK, memoryVars, response, LoopTypeOK, GoTo
<1>2. NoAccess \in Access
  BY ZeroInAddr DEF NoAccess, Access
<1>3. CASE NoMemoryAccess(c)
  <2>1. CacheTypeOK' /\ BusTypeOK'
    BY <1>3 DEF NoMemoryAccess, CorePhase, CacheTypeOK, cacheVars, arrays, request, supply,
       cleaning, BusTypeOK, lines, delay, control, pending
  <2>2. CoresTypeOK'
    BY <1>2, <1>3 DEF NoMemoryAccess, CoresTypeOK, AccessOf, LoadOf, StoreOf
  <2> QED
    BY <1>1, <2>1, <2>2 DEF TypeOK, LoopTypeOK, CoresTypeOK
<1>4. ASSUME NEW r \in AccessOf(c), NEW ready \in BOOLEAN, Offer(c, r, ready)
      PROVE  TypeOK'
  <2>1. /\ r.addr \in Addr /\ r.data \in Word /\ r \in Access
    BY ProgramAssumption DEF AccessOf, LoadOf, StoreOf, Access
  <2>2. /\ CacheTypeOK' /\ slot' \in [Agent -> Request \cup {NoRequest}]
        /\ shared_D' \in BOOLEAN
    BY <1>4, <2>1, ReadType, WriteType DEF Offer
  <2>3. BusTypeOK'
    BY <2>2 DEF CorePhase, BusTypeOK, lines, delay, control, pending
  <2>4. dsram[c][line(r.addr)] \in Word
    <3>1. get_index(r.addr) \in Set /\ get_block_offset(r.addr) \in 0 .. BLOCK_SIZE - 1
      <4>1. r.addr \in Int
        BY <2>1, ZeroInAddr
      <4> QED
        BY <4>1, IndexInSet DEF get_block_offset, BLOCK_SIZE
    <3> QED
      BY <3>1, WordOfSet DEF line, CacheTypeOK
  <2>5. retired' \in [Core -> Access]
    <3>1. [r EXCEPT !.data = dsram[c][line(r.addr)]] \in Access
      BY <2>1, <2>4 DEF Access
    <3> QED
      BY <1>2, <1>4, <2>1, <3>1 DEF Offer, CoresTypeOK
  <2>6. /\ access' \in [Core -> Access]
        /\ \A b \in Core : access'[b] \in AccessOf(b) \cup {NoAccess}
    BY <1>2, <1>4, <2>1 DEF Offer, CoresTypeOK
  <2>7. CoresTypeOK'
    BY <2>5, <2>6 DEF CoresTypeOK, AccessOf, LoadOf, StoreOf
  <2> QED
    BY <1>1, <2>2, <2>3, <2>7 DEF TypeOK, LoopTypeOK, CoresTypeOK
<1>5. CASE MemoryAccess(c)
  BY <1>4, <1>5 DEF MemoryAccess, CoresTypeOK
<1> QED
  BY <1>3, <1>5 DEF CorePhase

LEMMA NextType == TypeOK /\ [Next]_vars => TypeOK'
<1> SUFFICES ASSUME TypeOK, [Next]_vars PROVE TypeOK'
  OBVIOUS
<1>1. CASE Next
  BY <1>1, MemoryType, BusType, EdgeType, SnoopType, ResponseType, ClockType, CoreType
     DEF Next, Tick
<1>2. CASE UNCHANGED vars
  BY <1>2 DEF vars, busVars, memoryVars, cacheVars, loop, cores, lines, shared, delay,
     control, pending, response, arrays, request, supply, cleaning, TypeOK, BusTypeOK,
     MemoryTypeOK, CacheTypeOK, AccessOf, LoadOf, StoreOf
<1> QED
  BY <1>1, <1>2

-----------------------------------------------------------------------------
(* Every reachable state is type correct: in particular the counters stay  *)
(* in range and no transaction leaves memory, whatever the programs do.    *)
THEOREM TypeCorrect == Spec => []TypeOK
BY InitType, NextType, PTL DEF Spec

=============================================================================
