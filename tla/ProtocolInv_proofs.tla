-------------------------- MODULE ProtocolInv_proofs --------------------------
(***************************************************************************)
(* ProtocolInvariant is inductive, for every value of the constants and    *)
(* every program; SingleWriter, FillsOwnBlock and SupplyServesTransaction  *)
(* follow.  So does the fairness of the arbitration (RoundRobin).          *)
(***************************************************************************)
EXTENDS ProtocolInv, Multicore_proofs

-----------------------------------------------------------------------------
(* Addresses: word k of the block of address a.                            *)
LEMMA WordInBlock ==
  ASSUME NEW a \in Int, NEW k \in 0 .. WORDS_IN_BLOCK - 1
  PROVE  /\ get_block_addr(get_block_addr(a) + k) = get_block_addr(a)
         /\ get_block_offset(get_block_addr(a) + k) = k
         /\ get_index(get_block_addr(a) + k) = get_index(a)
         /\ get_tag(get_block_addr(a) + k) = get_tag(a)
<1> DEFINE W == WORDS_IN_BLOCK
           q == a \div W
           x == get_block_addr(a) + k
<1>1. W \in Nat /\ W > 0 /\ q \in Int /\ a % W \in 0 .. W - 1 /\ a = W * q + (a % W)
  BY BusAssumption
<1>2. get_block_addr(a) = W * q
  BY <1>1 DEF get_block_addr
<1> HIDE DEF q
<1>3. x = W * q + k /\ x \in Int
  BY <1>1, <1>2
<1>4. x % W = k /\ x \div W = q
  BY <1>1, <1>3
<1> HIDE DEF x
<1>5. get_block_addr(x) = W * q /\ get_block_offset(x) = k
  BY <1>1, <1>3, <1>4 DEF get_block_addr, get_block_offset
<1>6. get_index(x) = get_index(a) /\ get_tag(x) = get_tag(a)
  BY <1>4 DEF get_index, get_tag, BLOCK_SIZE, q
<1> QED
  BY <1>2, <1>5, <1>6 DEF x

-----------------------------------------------------------------------------
(* Where the loop stands.                                                  *)
LEMMA OutsideCachePhases ==
  ASSUME phase \in {"memory", "bus", "core", "edge"}, NEW c \in Core
  PROVE  /\ ~BeforeSnoop(c) /\ ~BeforeResponse(c) /\ ~BeforeClock(c)
         /\ ~Completing(c) /\ Snooped(c)
         /\ phase # "core" => ~BeforeRetry(c)
  BY DEF InCachePhases, BeforeSnoop, BeforeResponse, BeforeClock, Completing, Snooped,
     BeforeRetry

(* Memory writes no request line of a core.                                 *)
LEMMA MemoryKeepsProtocol ==
  ASSUME TypeOK, ProtocolInvariant, MemoryPhase
  PROVE  ProtocolInvariant'
<1>1. /\ phase = "memory" /\ phase' = "bus"
      /\ UNCHANGED <<lines, shared, delay, control, pending, cacheVars, cores>>
  BY DEF MemoryPhase, MemoryClock, GoTo
<1>2. \A c \in Core : slot'[c] = slot[c]
  <2>1. \A c \in Core : c # MAIN_MEMORY
    BY BusAssumption DEF Core, MAIN_MEMORY
  <2>2. slot' = slot \/ \E x : slot' = [slot EXCEPT ![MAIN_MEMORY] = x]
    BY DEF MemoryPhase, MemoryClock, TakeFlushedWord, CountDown, SendWord,
       StartResponse, MemoryIdle, BusRequest
  <2> QED
    BY <2>1, <2>2, TypeOKParts, CoreIsAgent DEF BusTypeOK
<1>3. \A c \in Core :
        /\ ~Completing(c) /\ ~Completing(c)' /\ Snooped(c) /\ Snooped(c)'
        /\ ~BeforeRetry(c) /\ ~BeforeRetry(c)' /\ ~BeforeClock(c) /\ ~BeforeClock(c)'
  BY <1>1, OutsideCachePhases DEF InCachePhases, BeforeSnoop, BeforeResponse,
     BeforeClock, Completing, Snooped, BeforeRetry
<1> USE <1>1, <1>2, <1>3 DEF ProtocolInvariant, lines, shared, delay, control,
        pending, cacheVars, cores, arrays, request, supply
<1>a. SlotInv'
  BY DEF SlotInv, RequestMatches
<1>b. DelayInv'
  BY TypeOKParts DEF DelayInv, RequestMatches, BusTypeOK
<1>c. BusyInv'
  BY TypeOKParts DEF BusyInv, RequestMatches, BusTypeOK
<1>d. IdleInv' /\ MineInv'
  BY DEF IdleInv, MineInv
<1>e. FilledInv'
  BY DEF FilledInv, Present
<1>f. AccessInv'
  BY DEF AccessInv
<1>g. SupplyInv'
  BY DEF SupplyInv
<1>h. OthersInv'
  BY DEF OthersInv, Present
<1>i. SingleWriter'
  BY DEF SingleWriter
<1> QED
  BY <1>a, <1>b, <1>c, <1>d, <1>e, <1>f, <1>g, <1>h, <1>i

(* The edge of the shared line: shared_Q takes the value of shared_D.      *)
LEMMA EdgeKeepsProtocol ==
  ASSUME TypeOK, ProtocolInvariant, EdgePhase
  PROVE  ProtocolInvariant'
<1>1. /\ phase = "edge" /\ phase' = "memory" /\ shared_Q' = shared_D
      /\ UNCHANGED <<lines, shared_D, slot, delay, control, pending, cacheVars, cores>>
  BY DEF EdgePhase, SharedEdge, GoTo
<1>2. \A c \in Core :
        /\ ~Completing(c) /\ ~Completing(c)' /\ Snooped(c) /\ Snooped(c)'
        /\ ~BeforeRetry(c) /\ ~BeforeRetry(c)' /\ ~BeforeClock(c) /\ ~BeforeClock(c)'
  BY <1>1, OutsideCachePhases DEF InCachePhases, BeforeSnoop, BeforeResponse,
     BeforeClock, Completing, Snooped, BeforeRetry
<1> USE <1>1, <1>2 DEF ProtocolInvariant, lines, delay, control, pending, cacheVars,
        cores, arrays, request, supply
<1>a. SlotInv' /\ DelayInv'
  BY DEF SlotInv, DelayInv, RequestMatches
<1>b. BusyInv'
  BY DEF BusyInv, RequestMatches, Snooped, BeforeSnoop, InCachePhases
<1>c. IdleInv' /\ MineInv'
  BY DEF IdleInv, MineInv
<1>d. FilledInv'
  BY DEF FilledInv, Present
<1>e. AccessInv' /\ SupplyInv'
  BY DEF AccessInv, SupplyInv
<1>f. OthersInv'
  BY DEF OthersInv, Present
<1>g. SingleWriter'
  BY DEF SingleWriter
<1> QED
  BY <1>a, <1>b, <1>c, <1>d, <1>e, <1>f, <1>g

-----------------------------------------------------------------------------
(* bus_clock.                                                              *)

(* What holds before bus_clock: nobody completes, nobody retries; on a     *)
(* free bus nobody's own transaction and nobody's supply is under way.     *)
LEMMA BeforeBusClock ==
  ASSUME TypeOK, ProtocolInvariant, BusPhase
  PROVE  /\ phase = "bus" /\ phase' = "snoop" /\ turn' = 0
         /\ \A c \in Core : 
              /\ Snooped(c) /\ BeforeResponse(c)' /\ BeforeClock(c)' /\ ~BeforeClock(c)
              /\ Snooped(c)' <=> flush_count' > 0
              /\ ~(is_mine[c] /\ ~waiting_for_bus[c])
              /\ is_mine[c] => busy /\ pending_origid = c
              /\ sending_flush[c] => busy
         /\ UNCHANGED <<cacheVars, cores>>
<1>1. /\ phase = "bus" /\ phase' = "snoop" /\ turn' = 0 /\ UNCHANGED <<cacheVars, cores>>
  BY DEF BusPhase, GoTo
<1>2. ASSUME NEW c \in Core
      PROVE  /\ BeforeResponse(c)' /\ BeforeClock(c)' /\ ~BeforeClock(c)
             /\ Snooped(c)' <=> flush_count' > 0
  BY <1>1, <1>2, BusAssumption DEF BeforeSnoop, BeforeResponse, BeforeClock, InCachePhases,
     Snooped, Core
<1>3. ASSUME NEW c \in Core
      PROVE  /\ Snooped(c) 
             /\ ~(is_mine[c] /\ ~waiting_for_bus[c])
             /\ is_mine[c] => busy /\ pending_origid = c
             /\ sending_flush[c] => busy
  BY <1>1, OutsideCachePhases DEF ProtocolInvariant, FilledInv, MineInv, SupplyInv
<1> QED
  BY <1>1, <1>2, <1>3

LEMMA DelayKeepsProtocol ==
  ASSUME TypeOK, ProtocolInvariant, BusPhase, DelayStep
  PROVE  ProtocolInvariant'
<1> DEFINE o == pending_origid
<1>1. /\ o \in Core /\ pending_addr \in Addr /\ delay_cycles = 1 /\ pending_cmd \in Transaction
  BY TypeOKParts DEF BusTypeOK, DelayStep
<1>2. /\ delay_in_progress /\ ~delay_in_progress' /\ busy' /\ flush_count' = 0
      /\ bus_cmd' = pending_cmd /\ bus_origid' = o /\ bus_addr' = pending_addr
      /\ pending_addr' = get_block_addr(pending_addr)
      /\ UNCHANGED <<shared, slot, pending_cmd, pending_origid>>
  BY <1>1 DEF DelayStep
<1>3. /\ ~busy /\ RequestMatches(o, pending_cmd, pending_addr) /\ ~is_mine[o]
      /\ slot[o].cmd \notin Transaction
  BY <1>2 DEF ProtocolInvariant, DelayInv
<1>4. \A c \in Core : ~is_mine[c] /\ ~sending_flush[c] /\ ~Snooped(c)' /\ ~Completing(c)'
  BY <1>2, <1>3, BeforeBusClock DEF Completing
<1>5. UNCHANGED <<cacheVars, cores>>
  BY BeforeBusClock
<1> USE <1>1, <1>2, <1>3, <1>4, <1>5
        DEF ProtocolInvariant, shared, cacheVars, cores, arrays, request, supply
<1>a. SlotInv' /\ DelayInv' /\ IdleInv' /\ MineInv' /\ FilledInv' /\ SupplyInv'
  BY DEF SlotInv, DelayInv, IdleInv, MineInv, FilledInv, SupplyInv, RequestMatches
<1>b. BusyInv'
  <2>1. get_block_addr(pending_addr) \in Int
    BY BlockAddr, ZeroInAddr
  <2> QED
    BY <2>1 DEF BusyInv, RequestMatches
<1>c. AccessInv' /\ SingleWriter'
  BY DEF AccessInv, SingleWriter
<1>d. OthersInv'
  BY DEF OthersInv
<1> QED
  BY <1>a, <1>b, <1>c, <1>d

(* A flush on a busy bus is the next word of the transaction's block; with *)
(* the last one the bus is free and its requester completes.               *)
LEMMA FlushKeepsProtocol ==
  ASSUME TypeOK, ProtocolInvariant, BusPhase, NEW a \in Agent, GrantFlush(a)
  PROVE  ProtocolInvariant'
<1> DEFINE o == pending_origid
           b == get_block_addr(waiting_addr[o])
<1>1. /\ o \in Core /\ b \in Int /\ pending_addr \in Int /\ shared_D \in BOOLEAN
      /\ flush_count \in 0 .. WORDS_IN_BLOCK - 1 /\ WORDS_IN_BLOCK \in Nat \ {0, 1}
      /\ slot \in [Agent -> Request \cup {NoRequest}] /\ busy \in BOOLEAN
      /\ words_left_to_flush \in [Core -> 0 .. WORDS_IN_BLOCK]
  <2>1. waiting_addr[o] \in Int
    BY TypeOKParts, ZeroInAddr DEF BusTypeOK, CacheTypeOK
  <2> QED
    BY <2>1, TypeOKParts, BlockAddr, BusAssumption DEF BusTypeOK, CacheTypeOK, BLOCK_SIZE
<1>2. /\ ~delay_in_progress /\ ~delay_in_progress'
      /\ busy => slot[a].addr = pending_addr
      /\ pending_addr' = pending_addr + 1 /\ bus_addr' = slot[a].addr
      /\ bus_cmd' = "BUS_FLUSH" /\ bus_cmd' \notin Transaction
      /\ slot' = [slot EXCEPT ![a] = NoRequest]
      /\ UNCHANGED <<shared_Q, pending_cmd, pending_origid>>
  BY DEF GrantFlush, LowestFlush, FlushReady, FlushAllowed, PutOnBus, delay, Transaction
<1>3. UNCHANGED <<cacheVars, cores>>
  BY BeforeBusClock
<1>4. \A c \in Core : slot'[c].cmd \in Transaction => slot'[c] = slot[c]
  BY <1>1, <1>2, CoreIsAgent DEF NoRequest, Transaction
<1> USE <1>1, <1>2, <1>3, <1>4, BeforeBusClock
        DEF ProtocolInvariant, cacheVars, cores, arrays, request, supply
<1>a. SlotInv' /\ DelayInv' /\ IdleInv' /\ FilledInv' /\ AccessInv' /\ SingleWriter'
  BY DEF SlotInv, DelayInv, IdleInv, FilledInv, AccessInv, SingleWriter, RequestMatches
<1>5. CASE BlockComplete
  <2>1. /\ busy /\ flush_count + 1 = WORDS_IN_BLOCK /\ ~busy' /\ flush_count' = 0
        /\ pending_addr = b + (WORDS_IN_BLOCK - 1)
    BY <1>5 DEF GrantFlush, CountWord, BlockComplete, BusyInv
  <2>2. BusyInv'
    BY <2>1 DEF BusyInv
  <2>3. MineInv'
    BY <2>1 DEF BusyInv, MineInv, Completing, RequestMatches
  <2>4. SupplyInv'
    BY <2>1 DEF SupplyInv
  <2>5. OthersInv'
    BY <2>1 DEF OthersInv, Completing, Present
  <2> QED
    BY <1>a, <2>2, <2>3, <2>4, <2>5
<1>6. CASE busy /\ ~BlockComplete
  <2>1. /\ busy' /\ flush_count' = flush_count + 1 /\ shared_D' = shared_D
    BY <1>6 DEF GrantFlush, CountWord
  <2>2. \A c \in Core : Snooped(c)' /\ ~Completing(c)'
    BY <2>1 DEF Completing
  <2>3. BusyInv'
    BY <1>6, <2>1, <2>2 DEF BusyInv, RequestMatches
  <2>4. MineInv'
    BY <1>6, <2>1 DEF MineInv
  <2>5. SupplyInv'
    BY <1>6, <2>1 DEF SupplyInv
  <2>6. OthersInv'
    BY <1>6, <2>1, <2>2 DEF OthersInv, Present
  <2> QED
    BY <1>a, <2>3, <2>4, <2>5, <2>6
<1>7. CASE ~busy
  <2>1. ~busy'
    BY <1>7 DEF GrantFlush, CountWord, BlockComplete
  <2>2. BusyInv' /\ MineInv' /\ SupplyInv'
    BY <1>7, <2>1 DEF BusyInv, MineInv, SupplyInv
  <2>3. OthersInv'
    BY <1>7, <2>1 DEF OthersInv, Completing
  <2> QED
    BY <1>a, <2>2, <2>3
<1> QED
  BY <1>5, <1>6, <1>7 DEF BlockComplete

LEMMA GrantKeepsProtocol ==
  ASSUME TypeOK, ProtocolInvariant, BusPhase, NEW g \in Core, GrantRequest(g)
  PROVE  ProtocolInvariant'
<1>1. slot \in [Agent -> Request \cup {NoRequest}] /\ Core \subseteq Agent
  BY TypeOKParts, CoreIsAgent DEF BusTypeOK
<1>2. /\ ~busy /\ ~busy' /\ delay_in_progress' /\ bus_cmd' = bus_cmd
      /\ slot[g].cmd \in Transaction
      /\ pending_cmd' = slot[g].cmd /\ pending_origid' = g /\ pending_addr' = slot[g].addr
      /\ slot' = [slot EXCEPT ![g] = NoRequest]
      /\ UNCHANGED shared
  BY DEF GrantRequest, Requesting, lines
<1>3. UNCHANGED <<cacheVars, cores>>
  BY BeforeBusClock
<1>4. \A c \in Core :
        /\ ~is_mine[c] /\ ~sending_flush[c]
        /\ slot'[c].cmd \in Transaction => slot'[c] = slot[c] /\ c # g
  BY <1>1, <1>2, BeforeBusClock DEF NoRequest, Transaction
<1> USE <1>1, <1>2, <1>3, <1>4
        DEF ProtocolInvariant, shared, cacheVars, cores, arrays, request, supply
<1>a. SlotInv' /\ IdleInv' /\ MineInv' /\ FilledInv' /\ SupplyInv' /\ BusyInv'
  BY DEF SlotInv, IdleInv, MineInv, FilledInv, SupplyInv, BusyInv, RequestMatches
<1>b. DelayInv'
  BY DEF SlotInv, DelayInv, RequestMatches
<1>c. AccessInv' /\ SingleWriter'
  BY DEF AccessInv, SingleWriter
<1>d. OthersInv'
  BY DEF OthersInv, Completing
<1> QED
  BY <1>a, <1>b, <1>c, <1>d

LEMMA QuietBusKeepsProtocol ==
  ASSUME TypeOK, ProtocolInvariant, BusPhase, WaitForWord \/ GoIdle
  PROVE  ProtocolInvariant'
<1>1. UNCHANGED <<cacheVars, cores>>
  BY BeforeBusClock
<1> USE <1>1, BeforeBusClock
        DEF ProtocolInvariant, shared, delay, control, pending, cacheVars, cores, arrays,
            request, supply
<1>2. CASE WaitForWord
  <2>1. busy /\ ~delay_in_progress /\ UNCHANGED <<lines, shared, slot, delay, control, pending>>
    BY <1>2 DEF WaitForWord, busVars
  <2> USE <2>1 DEF lines
  <2>a. SlotInv' /\ DelayInv' /\ IdleInv' /\ FilledInv' /\ MineInv'
    BY DEF SlotInv, DelayInv, IdleInv, FilledInv, MineInv, RequestMatches
  <2>b. BusyInv'
    BY TypeOKParts DEF BusyInv, RequestMatches, BusTypeOK
  <2>c. AccessInv' /\ SingleWriter'
    BY DEF AccessInv, SingleWriter
  <2>d. SupplyInv'
    <3>1. \A c \in Core : words_left_to_flush[c] \in Int /\ flush_count \in Int /\ WORDS_IN_BLOCK \in Int
      BY TypeOKParts, BusAssumption DEF BusTypeOK, CacheTypeOK, BLOCK_SIZE
    <3> QED
      BY <3>1 DEF SupplyInv
  <2>e. OthersInv'
    BY DEF OthersInv, Completing, Present
  <2> QED
    BY <2>a, <2>b, <2>c, <2>d, <2>e
<1>3. CASE GoIdle
  <2>1. /\ ~busy /\ ~delay_in_progress /\ bus_cmd' \notin Transaction
        /\ UNCHANGED <<shared, slot, delay, control, pending>>
    BY <1>3 DEF GoIdle, Transaction
  <2> USE <2>1
  <2>a. SlotInv' /\ DelayInv' /\ IdleInv' /\ FilledInv' /\ MineInv' /\ BusyInv' /\ SupplyInv'
    BY DEF SlotInv, DelayInv, IdleInv, FilledInv, MineInv, RequestMatches, BusyInv, SupplyInv
  <2>b. AccessInv' /\ SingleWriter'
    BY DEF AccessInv, SingleWriter
  <2>c. OthersInv'
    BY DEF OthersInv, Completing
  <2> QED
    BY <2>a, <2>b, <2>c
<1> QED
  BY <1>2, <1>3

LEMMA BusKeepsProtocol ==
  ASSUME TypeOK, ProtocolInvariant, BusPhase
  PROVE  ProtocolInvariant'
  BY DelayKeepsProtocol, FlushKeepsProtocol, GrantKeepsProtocol, QuietBusKeepsProtocol
     DEF BusPhase, BusClock

-----------------------------------------------------------------------------
(* cache_snoop.                                                            *)

(* Only core c's own position in the cycle changes.                        *)
LEMMA SnoopPosition ==
  ASSUME TypeOK, NEW c \in Core, SnoopPhase(c)
  PROVE  /\ phase = "snoop" /\ turn = c /\ phase' = "response" /\ turn' = c
         /\ ~BeforeSnoop(c)' /\ BeforeClock(c) /\ ~BeforeRetry(c)
         /\ \A d \in Core :
              /\ d # c => BeforeSnoop(d)' = BeforeSnoop(d)
              /\ BeforeResponse(d)' = BeforeResponse(d)
              /\ BeforeClock(d)' = BeforeClock(d)
              /\ BeforeRetry(d)' = BeforeRetry(d)
<1>1. phase = "snoop" /\ turn = c /\ phase' = "response" /\ turn' = c /\ c \in Int
  BY BusAssumption DEF SnoopPhase, GoTo, Core
<1> QED
  BY <1>1, BusAssumption DEF BeforeSnoop, BeforeResponse, BeforeClock, BeforeRetry, InCachePhases,
     Core

(* A transaction on the bus has just been put there, by its requester.     *)
LEMMA TransactionOnBus ==
  ASSUME TypeOK, ProtocolInvariant, bus_cmd \in Transaction
  PROVE  /\ busy /\ flush_count = 0 /\ bus_cmd = pending_cmd /\ bus_origid = pending_origid
         /\ bus_addr = waiting_addr[pending_origid] /\ pending_origid \in Core
  BY TypeOKParts DEF ProtocolInvariant, BusyInv, IdleInv, BusTypeOK, Transaction

LEMMA OwnSnoopKeepsProtocol ==
  ASSUME TypeOK, ProtocolInvariant, NEW c \in Core, SnoopPhase(c), SnoopOwnRequest(c)
  PROVE  ProtocolInvariant'
<1>1. /\ is_mine' = [is_mine EXCEPT ![c] = TRUE]
      /\ bus_origid = c /\ bus_cmd \in Transaction
      /\ UNCHANGED <<lines, shared, slot, delay, control, pending, arrays, request, supply, cores>>
  BY DEF SnoopPhase, CacheSnoop, SnoopOwnRequest, shared
<1>2. /\ busy /\ flush_count = 0 /\ pending_origid = c /\ ~delay_in_progress
      /\ waiting_for_bus[c] /\ slot[c].cmd \notin Transaction
  BY <1>1, TransactionOnBus DEF ProtocolInvariant, BusyInv, RequestMatches
<1>3. is_mine \in [Core -> BOOLEAN] /\ is_mine'[c] /\ \A d \in Core \ {c} : is_mine'[d] = is_mine[d]
  BY <1>1, TypeOKParts DEF CacheTypeOK
<1>4. \A d \in Core : d # c => Snooped(d)' = Snooped(d)
  BY <1>1, SnoopPosition DEF Snooped, control
<1> USE <1>1, <1>2, <1>3, SnoopPosition
        DEF ProtocolInvariant, lines, shared, delay, control, pending, cores, arrays,
            request, supply
<1>a. SlotInv' /\ DelayInv' /\ IdleInv'
  BY DEF SlotInv, DelayInv, IdleInv, RequestMatches
<1>b. BusyInv'
  BY TypeOKParts DEF BusyInv, RequestMatches, BusTypeOK
<1>c. MineInv' /\ FilledInv'
  <2>1. \A d \in Core : is_mine[d] => d = c
    BY DEF MineInv, FilledInv, Completing
  <2> QED
    BY <2>1 DEF MineInv, FilledInv
<1>d. AccessInv' /\ SupplyInv' /\ SingleWriter'
  BY DEF AccessInv, SupplyInv, SingleWriter
<1>e. OthersInv'
  BY <1>4 DEF OthersInv, Present, Completing
<1> QED
  BY <1>a, <1>b, <1>c, <1>d, <1>e

(* The answer of another cache to the transaction, or to none.             *)
LEMMA OtherSnoopKeepsProtocol ==
  ASSUME TypeOK, ProtocolInvariant, NEW c \in Core, SnoopPhase(c), SnoopOther(c)
  PROVE  ProtocolInvariant'
<1> DEFINE o == pending_origid
           i == get_index(bus_addr)
<1>1. /\ UNCHANGED <<lines, shared_Q, slot, delay, control, pending, tag, is_mine, request, cores>>
      /\ ~(bus_origid = c /\ bus_cmd \in Transaction)
      /\ SnoopRead(c) \/ SnoopReadX(c) \/ SnoopNothing(c)
  BY DEF SnoopPhase, CacheSnoop, SnoopOther
<1>2. /\ o \in Core /\ i \in Set /\ state \in [Core -> [Set -> MESI]]
      /\ words_left_to_flush \in [Core -> 0 .. WORDS_IN_BLOCK]
      /\ sending_flush \in [Core -> BOOLEAN]
      /\ flush_block_addr \in [Core -> Int]
      /\ flush_count \in 0 .. WORDS_IN_BLOCK - 1 /\ WORDS_IN_BLOCK \in Nat \ {0, 1}
  BY TypeOKParts, IndexInSet, BusAssumption DEF BusTypeOK, CacheTypeOK, BLOCK_SIZE
<1>3. /\ \A d \in Core : d # c => Snooped(d)' = Snooped(d)
      /\ \A d \in Core : Completing(d)' => Completing(d)
  BY <1>1, SnoopPosition DEF Snooped, control, Completing, RequestMatches, lines, pending,
     request, delay
<1>4. shared_D' = shared_D \/ shared_D'
  BY <1>1 DEF SnoopRead, SnoopReadX, SnoopNothing, BusSetShared
<1>5. bus_cmd \in Transaction =>
        busy /\ o # c /\ flush_count = 0 /\ bus_cmd = pending_cmd /\ bus_addr = waiting_addr[o]
  BY <1>1, TransactionOnBus
<1>6. state' = state \/ (bus_cmd \in Transaction /\ Present(c, bus_addr) /\
        \E m \in {"I", "S"} : state' = [state EXCEPT ![c][i] = m])
  BY <1>1 DEF SnoopRead, SnoopReadX, SnoopNothing, SetState, Transaction
<1>7. supply' = supply \/ (bus_cmd \in Transaction /\ StartSupply(c))
  BY <1>1 DEF SnoopRead, SnoopReadX, SnoopNothing, Transaction
<1> USE <1>1, <1>2, SnoopPosition
        DEF ProtocolInvariant, lines, delay, control, pending, cores, request
<1>a. SlotInv' /\ DelayInv' /\ IdleInv' /\ AccessInv'
  BY DEF SlotInv, DelayInv, IdleInv, AccessInv, RequestMatches
<1>b. BusyInv'
  <2>1. ASSUME busy, Snooped(o)' PROVE is_mine[o]
    <3>1. CASE Snooped(o)
      BY <2>1, <3>1 DEF BusyInv
    <3>2. CASE ~Snooped(o)
      <4>1. o = c /\ flush_count = 0
        BY <1>3, <2>1, <3>2 DEF Snooped
      <4> QED
        BY <2>1, <4>1 DEF BusyInv
    <3> QED
      BY <3>1, <3>2
  <2> QED
    BY <2>1 DEF BusyInv, RequestMatches
<1>c. MineInv'
  BY DEF MineInv, Completing, RequestMatches
<1>d. FilledInv'
  BY <1>5, <1>6, <1>7 DEF FilledInv, Present, supply
<1>e. SupplyInv'
  <2>1. CASE supply' = supply
    BY <2>1 DEF SupplyInv, supply
  <2>2. CASE bus_cmd \in Transaction /\ StartSupply(c)
    BY <1>5, <2>2 DEF SupplyInv, StartSupply, BLOCK_SIZE
  <2> QED
    BY <1>7, <2>1, <2>2
<1>f. OthersInv'
  <2>1. CASE UNCHANGED state /\ (bus_cmd \notin Transaction \/ ~Present(c, bus_addr))
    BY <1>3, <1>4, <1>5, <2>1 DEF OthersInv, Present, Snooped, BusyInv
  <2>2. CASE SnoopRead(c)
    BY <1>3, <1>5, <2>2 DEF SnoopRead, SetState, BusSetShared, OthersInv, Present, Completing, Transaction
  <2>3. CASE SnoopReadX(c)
    BY <1>3, <1>4, <1>5, <2>3 DEF SnoopReadX, SetState, OthersInv, Present, Completing, Transaction
  <2> QED
    BY <2>1, <2>2, <2>3 DEF SnoopNothing
<1>g. SingleWriter'
  BY <1>6 DEF SingleWriter, Present
<1> QED
  BY <1>a, <1>b, <1>c, <1>d, <1>e, <1>f, <1>g

LEMMA SnoopKeepsProtocol ==
  ASSUME TypeOK, ProtocolInvariant, NEW c \in Core, SnoopPhase(c)
  PROVE  ProtocolInvariant'
  BY OwnSnoopKeepsProtocol, OtherSnoopKeepsProtocol DEF SnoopPhase, CacheSnoop

-----------------------------------------------------------------------------
(* cache_handle_bus_response.                                              *)

LEMMA ResponsePosition ==
  ASSUME TypeOK, NEW c \in Core, ResponsePhase(c)
  PROVE  /\ phase = "response" /\ turn = c /\ phase' = "clock" /\ turn' = c
         /\ BeforeResponse(c) /\ ~BeforeResponse(c)' /\ ~BeforeRetry(c) /\ BeforeRetry(c)'
         /\ \A d \in Core :
              /\ BeforeSnoop(d)' = BeforeSnoop(d)
              /\ d # c => BeforeResponse(d)' = BeforeResponse(d)
              /\ BeforeClock(d)' = BeforeClock(d)
              /\ d # c => BeforeRetry(d)' = BeforeRetry(d)
<1>1. phase = "response" /\ turn = c /\ phase' = "clock" /\ turn' = c /\ c \in Int
  BY BusAssumption DEF ResponsePhase, GoTo, Core
<1> QED
  BY <1>1, BusAssumption DEF BeforeSnoop, BeforeResponse, BeforeClock, BeforeRetry, InCachePhases,
     Core

(* A word taken by a core is one of its block; the last one comes when the *)
(* bus is already free.                                                    *)
LEMMA WordTaken ==
  ASSUME TypeOK, ProtocolInvariant, NEW c \in Core, Filling(c)
  PROVE  /\ pending_origid = c
         /\ get_block_addr(bus_addr) = get_block_addr(waiting_addr[c])
         /\ LastWordOnBus <=> Completing(c)
         /\ get_index(bus_addr) = get_index(waiting_addr[c])
         /\ get_tag(bus_addr) = get_tag(waiting_addr[c])
<1> DEFINE b == get_block_addr(waiting_addr[c])
           W == WORDS_IN_BLOCK
<1>1. /\ waiting_addr[c] \in Int /\ W \in Nat \ {0, 1} /\ flush_count \in 0 .. W - 1
      /\ b \in Int
  <2>1. waiting_addr[c] \in Int
    BY TypeOKParts, ZeroInAddr DEF CacheTypeOK
  <2> QED
    BY <2>1, TypeOKParts, BlockAddr, BusAssumption DEF BusTypeOK
<1>2. waiting_for_bus[c] /\ is_mine[c] /\ bus_cmd = "BUS_FLUSH"
  BY DEF Filling
<1>3. CASE Completing(c)
  <2>1. pending_origid = c /\ bus_addr = b + (W - 1) /\ W - 1 \in 0 .. W - 1
    BY <1>1, <1>3 DEF Completing
  <2> QED
    BY <1>1, <1>3, <2>1, WordInBlock DEF LastWordOnBus, BLOCK_SIZE
<1>4. CASE busy /\ pending_origid = c
  <2>1. flush_count > 0 /\ bus_addr = b + (flush_count - 1)
    BY <1>1, <1>2, <1>4 DEF ProtocolInvariant, BusyInv, Transaction
  <2>2. flush_count - 1 \in 0 .. W - 1 /\ flush_count - 1 # W - 1
    BY <1>1, <2>1
  <2> QED
    BY <1>1, <1>4, <2>1, <2>2, WordInBlock DEF LastWordOnBus, BLOCK_SIZE, Completing
<1> QED
  BY <1>2, <1>3, <1>4 DEF ProtocolInvariant, MineInv

LEMMA FirstWordsKeepProtocol ==
  ASSUME TypeOK, ProtocolInvariant, NEW c \in Core, ResponsePhase(c),
         ~Completing(c), UNCHANGED <<tag, state, request>>
  PROVE  ProtocolInvariant'
<1>1. UNCHANGED <<lines, shared, slot, delay, control, pending, is_mine, supply, cores>>
  BY DEF ResponsePhase, CacheHandleBusResponse, shared
<1>2. \A d \in Core : /\ Snooped(d)' = Snooped(d)
                      /\ d # c => Completing(d)' = Completing(d)
                      /\ ~Completing(c)'
  BY <1>1, ResponsePosition DEF Snooped, control, Completing, RequestMatches, lines,
     pending, request, delay
<1> USE <1>1, <1>2, ResponsePosition
        DEF ProtocolInvariant, lines, shared, delay, control, pending, cores, request, supply
<1>a. SlotInv' /\ DelayInv' /\ IdleInv' /\ AccessInv' /\ SingleWriter'
  BY DEF SlotInv, DelayInv, IdleInv, AccessInv, SingleWriter, RequestMatches
<1>b. BusyInv'
  BY TypeOKParts DEF BusyInv, RequestMatches, BusTypeOK
<1>c. MineInv' /\ SupplyInv'
  BY DEF MineInv, SupplyInv
<1>d. FilledInv'
  BY DEF FilledInv, Present
<1>e. OthersInv'
  BY DEF OthersInv, Present
<1> QED
  BY <1>a, <1>b, <1>c, <1>d, <1>e

(* The last word: the block is the requester's, in the state it may have.  *)
LEMMA LastWordKeepsProtocol ==
  ASSUME TypeOK, ProtocolInvariant, NEW c \in Core, ResponsePhase(c), FillLastWord(c)
  PROVE  ProtocolInvariant'
<1> DEFINE a == waiting_addr[c]
           i == get_index(a)
           m == IF is_write_request[c] THEN "M" ELSE IF shared_Q THEN "S" ELSE "E"
<1>1. /\ Completing(c) /\ get_index(bus_addr) = i /\ get_tag(bus_addr) = get_tag(a)
      /\ is_mine[c] /\ waiting_for_bus[c]
  BY WordTaken DEF FillLastWord, Filling
<1>2. /\ ~busy /\ ~delay_in_progress /\ pending_origid = c
      /\ RequestMatches(c, pending_cmd, a) /\ bus_cmd \notin Transaction
  BY <1>1 DEF Completing, Transaction
<1>3. i \in Set /\ tag \in [Core -> [Set -> Int]] /\ state \in [Core -> [Set -> MESI]]
      /\ waiting_for_bus \in [Core -> BOOLEAN]
  BY TypeOKParts, IndexInSet, ZeroInAddr DEF CacheTypeOK
<1>4. /\ tag' = [tag EXCEPT ![c][i] = get_tag(a)]
      /\ state' = [state EXCEPT ![c][i] = m]
      /\ waiting_for_bus' = [waiting_for_bus EXCEPT ![c] = FALSE]
      /\ \A d \in Core : d # c => /\ waiting_addr'[d] = waiting_addr[d]
                                  /\ is_write_request'[d] = is_write_request[d]
  BY <1>1, TypeOKParts DEF FillLastWord, SetState, CacheTypeOK
<1>5. UNCHANGED <<lines, shared, slot, delay, control, pending, is_mine, supply, cores>>
  BY DEF ResponsePhase, CacheHandleBusResponse, shared
<1>6. /\ ~waiting_for_bus'[c] /\ \A d \in Core : d # c => waiting_for_bus'[d] = waiting_for_bus[d]
      /\ tag'[c][i] = get_tag(a) /\ state'[c][i] = m
  BY <1>3, <1>4
<1>7. access[c] # NoAccess /\ a = access[c].addr /\ (is_write_request[c] <=> access[c].op = "sw")
  BY <1>1 DEF ProtocolInvariant, AccessInv
<1> HIDE DEF a, i
<1> USE <1>1, <1>2, <1>5, <1>6, ResponsePosition
        DEF ProtocolInvariant, lines, shared, delay, control, pending, cores, supply
<1>a. SlotInv' /\ DelayInv' /\ IdleInv' /\ BusyInv' /\ SupplyInv'
  BY <1>4 DEF SlotInv, DelayInv, IdleInv, BusyInv, SupplyInv, RequestMatches
<1>b. MineInv' /\ OthersInv'
  BY DEF MineInv, OthersInv, Completing, RequestMatches
<1>c. AccessInv'
  BY <1>4 DEF AccessInv
<1>d. FilledInv'
  <2>1. ASSUME NEW d \in Core, is_mine'[d], ~waiting_for_bus'[d], d # c
        PROVE  /\ BeforeRetry(d)' /\ bus_cmd' \notin Transaction /\ ~sending_flush'[d]
               /\ access'[d] # NoAccess
               /\ Present(d, access[d].addr)'
               /\ access'[d].op = "sw" => state'[d][get_index(access[d].addr)] = "M"
    BY <1>3, <1>4, <2>1 DEF FilledInv, Present
  <2>2. /\ BeforeRetry(c)' /\ bus_cmd' \notin Transaction /\ ~sending_flush'[c]
        /\ access'[c] # NoAccess
        /\ Present(c, access[c].addr)'
        /\ access'[c].op = "sw" => state'[c][get_index(access[c].addr)] = "M"
    BY <1>7 DEF Present, SupplyInv, i
  <2> QED
    BY <2>1, <2>2 DEF FilledInv, Present
<1>e. SingleWriter'
  <2>1. ASSUME NEW d \in Core, d # c, tag[d][i] = get_tag(a), state[d][i] # "I"
        PROVE  state[d][i] = "S" /\ m = "S"
    BY <1>2, <2>1 DEF OthersInv, Present, RequestMatches, a, i
  <2>2. \A d \in Core, j \in Set : (d # c \/ j # i) =>
          tag'[d][j] = tag[d][j] /\ state'[d][j] = state[d][j]
    BY <1>3, <1>4
  <2> QED
    BY <1>3, <2>1, <2>2 DEF SingleWriter
<1> QED
  BY <1>a, <1>b, <1>c, <1>d, <1>e

LEMMA ResponseKeepsProtocol ==
  ASSUME TypeOK, ProtocolInvariant, NEW c \in Core, ResponsePhase(c)
  PROVE  ProtocolInvariant'
<1>1. CASE FillWord(c)
  BY <1>1, WordTaken, FirstWordsKeepProtocol DEF FillWord
<1>2. CASE FillLastWord(c)
  BY <1>2, LastWordKeepsProtocol
<1>3. CASE ~Filling(c) /\ UNCHANGED <<arrays, request>>
  <2>1. ~Completing(c)
    BY <1>3 DEF Filling, Completing, RequestMatches
  <2> QED
    BY <1>3, <2>1, FirstWordsKeepProtocol DEF arrays
<1> QED
  BY <1>1, <1>2, <1>3 DEF ResponsePhase, CacheHandleBusResponse

-----------------------------------------------------------------------------
(* cache_clock: after it, core c has at most WORDS_IN_BLOCK - 1 words to   *)
(* come on the bus or to post.                                             *)

LEMMA ClockPosition ==
  ASSUME TypeOK, NEW c \in Core, ClockPhase(c)
  PROVE  /\ phase = "clock" /\ turn = c /\ BeforeClock(c) /\ ~BeforeClock(c)'
         /\ phase \notin {"memory", "bus"} /\ phase' \notin {"memory", "bus"}
         /\ \A d \in Core :
              /\ BeforeSnoop(d)' = BeforeSnoop(d)
              /\ BeforeResponse(d)' = BeforeResponse(d)
              /\ d # c => BeforeClock(d)' = BeforeClock(d)
              /\ BeforeRetry(d)' = BeforeRetry(d)
<1>1. /\ phase = "clock" /\ turn = c
      /\ IF c = NUM_CORES - 1 THEN phase' = "core" /\ turn' = 0
                              ELSE phase' = "snoop" /\ turn' = c + 1
  BY DEF ClockPhase, GoTo
<1> QED
  BY <1>1, BusAssumption DEF BeforeSnoop, BeforeResponse, BeforeClock, BeforeRetry, InCachePhases,
     Core

LEMMA ClockKeepsProtocol ==
  ASSUME TypeOK, ProtocolInvariant, NEW c \in Core, ClockPhase(c)
  PROVE  ProtocolInvariant'
<1>1. UNCHANGED <<lines, shared, delay, control, pending, arrays, is_mine, request, cores>>
  BY DEF ClockPhase, CacheClock, shared
<1>2. /\ slot \in [Agent -> Request \cup {NoRequest}] /\ Core \subseteq Agent
      /\ sending_flush \in [Core -> BOOLEAN]
      /\ flush_block_addr \in [Core -> Int]
      /\ words_left_to_flush \in [Core -> 0 .. WORDS_IN_BLOCK]
      /\ flush_count \in 0 .. WORDS_IN_BLOCK - 1 /\ WORDS_IN_BLOCK \in Nat
  BY TypeOKParts, CoreIsAgent, BusAssumption DEF BusTypeOK, CacheTypeOK, BLOCK_SIZE
<1>3. \A d \in Core : slot'[d] = slot[d] \/ slot'[d].cmd \notin Transaction
  BY <1>2 DEF ClockPhase, CacheClock, SendBlockWord, BusRequest, Transaction
<1>4. \A d \in Core : Snooped(d)' = Snooped(d) /\ Completing(d)' = Completing(d)
  BY <1>1, ClockPosition DEF Snooped, control, Completing, RequestMatches, lines,
     pending, request, delay
<1>5. \A d \in Core :
        /\ sending_flush'[d] => /\ sending_flush[d]
                                /\ flush_block_addr'[d] = flush_block_addr[d]
        /\ d # c => words_left_to_flush'[d] = words_left_to_flush[d]
  BY <1>2 DEF ClockPhase, CacheClock, SendBlockWord, EndSupply, supply
<1>6. sending_flush'[c] => /\ words_left_to_flush[c] > 1
                           /\ words_left_to_flush'[c] = words_left_to_flush[c] - 1
  <2>1. CASE SendBlockWord(c)
    BY <1>2, <2>1 DEF SendBlockWord, EndSupply
  <2>2. CASE UNCHANGED supply /\ ~(sending_flush[c] /\ words_left_to_flush[c] > 0)
    BY <2>2 DEF ProtocolInvariant, SupplyInv, supply
  <2> QED
    BY <2>1, <2>2 DEF ClockPhase, CacheClock
<1> USE <1>1, <1>2, <1>3, <1>4, <1>5, <1>6, ClockPosition
        DEF ProtocolInvariant, lines, shared, delay, control, pending, cores, request, arrays
<1>a. SlotInv' /\ DelayInv' /\ IdleInv' /\ AccessInv' /\ SingleWriter'
  BY TypeOKParts DEF SlotInv, DelayInv, IdleInv, AccessInv, SingleWriter, RequestMatches, BusTypeOK
<1>b. BusyInv'
  BY TypeOKParts DEF BusyInv, RequestMatches, BusTypeOK
<1>c. MineInv' /\ SupplyInv'
  BY DEF MineInv, SupplyInv
<1>d. FilledInv'
  BY DEF FilledInv, Present
<1>e. OthersInv'
  BY DEF OthersInv, Present
<1> QED
  BY <1>a, <1>b, <1>c, <1>d, <1>e

-----------------------------------------------------------------------------
(* core_memory.                                                            *)

LEMMA CorePosition ==
  ASSUME TypeOK, NEW c \in Core, CorePhase(c)
  PROVE  /\ phase \notin {"memory", "bus"} /\ phase' \notin {"memory", "bus"}
         /\ ~BeforeRetry(c)'
         /\ \A d \in Core :
              /\ Snooped(d) /\ Snooped(d)' /\ ~Completing(d) /\ ~Completing(d)'
              /\ ~BeforeClock(d) /\ ~BeforeClock(d)'
              /\ d # c => BeforeRetry(d)' = BeforeRetry(d)
<1>1. /\ phase = "core" /\ turn = c
      /\ IF c = NUM_CORES - 1 THEN phase' = "edge" /\ turn' = 0
                              ELSE phase' = "core" /\ turn' = c + 1
  BY DEF CorePhase, AfterCore, GoTo
<1> QED
  BY <1>1, BusAssumption DEF Snooped, Completing, BeforeSnoop, BeforeResponse, BeforeClock,
     BeforeRetry, InCachePhases, Core

(* A core whose block has just come hits with the access it waited with.   *)
LEMMA RetryHits ==
  ASSUME TypeOK, ProtocolInvariant, NEW c \in Core, NEW r, is_mine[c], ~waiting_for_bus[c],
         r \in IF access[c] = NoAccess THEN AccessOf(c) ELSE {access[c]}
  PROVE  /\ ~Blocked(c) /\ Present(c, r.addr)
         /\ r.op = "sw" => state[c][get_index(r.addr)] = "M"
  BY DEF ProtocolInvariant, FilledInv, Blocked

(* The frame of the three kinds of calls: nothing but the core's own part. *)
LEMMA IdleCoreKeepsProtocol ==
  ASSUME TypeOK, ProtocolInvariant, NEW c \in Core, CorePhase(c),
         UNCHANGED <<cacheVars, slot, shared_D>>,
         access'[c] = access[c] \/ ~waiting_for_bus[c],
         \A d \in Core : d # c => access'[d] = access[d],
         ~(is_mine[c] /\ ~waiting_for_bus[c])
  PROVE  ProtocolInvariant'
<1>1. UNCHANGED <<lines, shared, delay, control, pending, cacheVars, slot>>
  BY DEF CorePhase, shared
<1> USE <1>1, CorePosition
        DEF ProtocolInvariant, lines, shared, delay, control, pending, cacheVars, arrays,
            request, supply
<1>a. SlotInv' /\ DelayInv' /\ IdleInv' /\ MineInv' /\ SupplyInv'
  BY DEF SlotInv, DelayInv, IdleInv, MineInv, SupplyInv, RequestMatches
<1>b. BusyInv'
  BY TypeOKParts DEF BusyInv, RequestMatches, BusTypeOK
<1>c. FilledInv' 
  BY DEF FilledInv, Present
<1>d. AccessInv' /\ SingleWriter'
  BY DEF AccessInv, SingleWriter
<1>e. OthersInv'
  BY DEF OthersInv, Present
<1> QED
  BY <1>a, <1>b, <1>c, <1>d, <1>e

(* A hit, or a word flushed to clean a set.                                *)
LEMMA OwnBlockKeepsProtocol ==
  ASSUME TypeOK, ProtocolInvariant, NEW c \in Core, CorePhase(c), ~waiting_for_bus[c],
         UNCHANGED <<tag, request, supply, shared_D>>,
         ~is_mine'[c], \A d \in Core : d # c => is_mine'[d] = is_mine[d],
         \A d \in Core : slot'[d] = slot[d] \/ slot'[d].cmd \notin Transaction,
         \A d \in Core : d # c => access'[d] = access[d],
         \A d \in Core, i \in Set :
           \/ state'[d][i] = state[d][i]
           \/ d = c /\ state'[d][i] = "I"
           \/ d = c /\ state'[d][i] = "M" /\ state[d][i] \in {"E", "M"}
  PROVE  ProtocolInvariant'
<1>1. UNCHANGED <<lines, shared, delay, control, pending>>
  BY DEF CorePhase, shared
<1>2. \A a \in Int : get_index(a) \in Set
  BY IndexInSet
<1>3. waiting_addr \in [Core -> Int] /\ pending_origid \in Core
  BY TypeOKParts, ZeroInAddr DEF CacheTypeOK, BusTypeOK
<1>4. \A d \in Core : access[d].addr \in Int
  BY TypeOKParts, ZeroInAddr DEF CoresTypeOK, Access
<1> USE <1>1, CorePosition
        DEF ProtocolInvariant, lines, shared, delay, control, pending, request, supply
<1>a. SlotInv' /\ DelayInv' /\ IdleInv' /\ MineInv' /\ SupplyInv'
  BY <1>3 DEF SlotInv, DelayInv, IdleInv, MineInv, SupplyInv, RequestMatches
<1>b. BusyInv'
  BY <1>3 DEF BusyInv, RequestMatches
<1>c. FilledInv'
  BY <1>2, <1>4 DEF FilledInv, Present
<1>d. AccessInv'
  BY DEF AccessInv
<1>e. OthersInv'
  BY <1>2, <1>3 DEF OthersInv, Present
<1>f. SingleWriter'
  BY DEF SingleWriter
<1> QED
  BY <1>a, <1>b, <1>c, <1>d, <1>e, <1>f

(* A miss on a set that needs no cleaning, or an upgrade.                  *)
LEMMA RequestKeepsProtocol ==
  ASSUME TypeOK, ProtocolInvariant, NEW c \in Core, CorePhase(c), ~waiting_for_bus[c],
         ~is_mine[c], NEW r, r # NoAccess, r.op \in {"lw", "sw"},
         NEW d0, RequestBlock(c, r.addr, IF r.op = "sw" THEN "BUS_RDX" ELSE "BUS_RD", d0),
         UNCHANGED shared_D \/ BusSetShared,
         access'[c] = r, \A d \in Core : d # c => access'[d] = access[d]
  PROVE  ProtocolInvariant'
<1>1. UNCHANGED <<lines, shared_Q, delay, control, pending, arrays, is_mine, supply>>
  BY DEF CorePhase, RequestBlock
<1>2. shared_D => shared_D'
  BY DEF BusSetShared
<1>3. /\ waiting_for_bus \in [Core -> BOOLEAN] /\ waiting_addr \in [Core -> Addr]
      /\ is_write_request \in [Core -> BOOLEAN] /\ pending_origid \in Core
      /\ slot \in [Agent -> Request \cup {NoRequest}] /\ Core \subseteq Agent
  BY TypeOKParts, CoreIsAgent DEF CacheTypeOK, BusTypeOK
<1>4. /\ waiting_for_bus'[c] /\ waiting_addr'[c] = r.addr
      /\ is_write_request'[c] <=> r.op = "sw"
      /\ slot'[c].cmd = "BUS_RDX" <=> r.op = "sw"
      /\ slot'[c].addr = r.addr
  BY <1>3 DEF RequestBlock, BusRequest
<1>5. \A d \in Core : d # c => /\ waiting_for_bus'[d] = waiting_for_bus[d]
                               /\ waiting_addr'[d] = waiting_addr[d]
                               /\ is_write_request'[d] = is_write_request[d]
                               /\ slot'[d] = slot[d]
  BY <1>3 DEF RequestBlock, BusRequest
<1> USE <1>1, <1>2, <1>3, <1>4, <1>5, CorePosition
        DEF ProtocolInvariant, lines, delay, control, pending, supply, arrays
<1>a. SlotInv'
  BY DEF SlotInv, RequestMatches
<1>b. DelayInv' /\ BusyInv'
  BY DEF DelayInv, BusyInv, RequestMatches
<1>c. IdleInv' /\ MineInv' /\ SupplyInv' /\ SingleWriter'
  BY DEF IdleInv, MineInv, SupplyInv, SingleWriter, BusyInv, RequestMatches
<1>d. FilledInv' 
  BY DEF FilledInv, Present
<1>e. AccessInv'
  BY DEF AccessInv
<1>f. OthersInv'
  BY DEF OthersInv, Present, BusyInv, RequestMatches
<1> QED
  BY <1>a, <1>b, <1>c, <1>d, <1>e, <1>f

LEMMA HitKeepsProtocol ==
  ASSUME TypeOK, ProtocolInvariant, NEW c \in Core, CorePhase(c), NEW a \in Addr, NEW d,
         ReadHit(c, a) \/ WriteHit(c, a, d),
         \A b \in Core : b # c => access'[b] = access[b]
  PROVE  ProtocolInvariant'
<1>1. /\ ~waiting_for_bus[c] /\ UNCHANGED <<tag, request, supply, slot, shared_D>>
      /\ is_mine' = [is_mine EXCEPT ![c] = FALSE]
  BY DEF ReadHit, WriteHit, Blocked, arrays
<1>2. ~is_mine'[c] /\ \A b \in Core : b # c => is_mine'[b] = is_mine[b]
  BY <1>1, TypeOKParts DEF CacheTypeOK
<1>3. get_index(a) \in Set
  BY IndexInSet, ZeroInAddr
<1>4. \A b \in Core, i \in Set :
        \/ state'[b][i] = state[b][i]
        \/ b = c /\ state'[b][i] = "M" /\ state[b][i] \in {"E", "M"}
  BY <1>3, TypeOKParts DEF ReadHit, WriteHit, SetState, Present, arrays, CacheTypeOK, MESI
<1> QED
  BY <1>1, <1>2, <1>4, OwnBlockKeepsProtocol

(* Cleaning never begins between a fill and the hit that ends it.          *)
LEMMA CleanKeepsProtocol ==
  ASSUME TypeOK, ProtocolInvariant, NEW c \in Core, CorePhase(c), NEW a \in Addr,
         ~waiting_for_bus[c], ~is_mine[c],
         \/ StartCleaning(c, a)
         \/ ContinueCleaning(c, a) /\ (SetState(c, a, "I") \/ UNCHANGED state),
         \A b \in Core : b # c => access'[b] = access[b]
  PROVE  ProtocolInvariant'
<1>1. UNCHANGED <<tag, is_mine, request, supply, shared_D>>
  BY DEF StartCleaning, ContinueCleaning, arrays
<1>2. \A b \in Core : slot'[b] = slot[b] \/ slot'[b].cmd \notin Transaction
  <2>1. \E x, y : BusRequest(c, "BUS_FLUSH", x, y)
    BY DEF StartCleaning, ContinueCleaning, CleanWord
  <2> QED
    BY <2>1, TypeOKParts, CoreIsAgent DEF BusRequest, BusTypeOK, Transaction
<1>3. get_index(a) \in Set
  BY IndexInSet, ZeroInAddr
<1>4. \A b \in Core, i \in Set :
        state'[b][i] = state[b][i] \/ (b = c /\ state'[b][i] = "I")
  BY <1>3, TypeOKParts DEF StartCleaning, ContinueCleaning, SetState, arrays, CacheTypeOK
<1> QED
  BY <1>1, <1>2, <1>4, OwnBlockKeepsProtocol

LEMMA OfferKeepsProtocol ==
  ASSUME TypeOK, ProtocolInvariant, NEW c \in Core, CorePhase(c), NEW ready \in BOOLEAN,
         NEW r \in IF access[c] = NoAccess THEN AccessOf(c) ELSE {access[c]},
         Offer(c, r, ready)
  PROVE  ProtocolInvariant'
<1> DEFINE a == r.addr
           i == get_index(a)
<1>1. r \in AccessOf(c) /\ a \in Addr /\ r.op \in {"lw", "sw"} /\ r # NoAccess
  <2>1. r \in AccessOf(c)
    BY TypeOKParts DEF CoresTypeOK
  <2> QED
    BY <2>1, ProgramAssumption DEF AccessOf, LoadOf, StoreOf, NoAccess
<1>2. /\ access'[c] = IF ready THEN NoAccess ELSE r
      /\ \A b \in Core : b # c => access'[b] = access[b]
  BY TypeOKParts DEF Offer, CoresTypeOK
<1>3. \/ r.op = "lw" /\ CacheRead(c, a, ready)
      \/ r.op = "sw" /\ CacheWrite(c, a, r.data, ready)
  BY DEF Offer
<1>4. CASE Refuse(c)
  <2>1. ~(is_mine[c] /\ ~waiting_for_bus[c])
    BY <1>4, RetryHits DEF Refuse
  <2>2. ~ready \/ WriteMiss(c, a, r.data, ready) \/ ReadHit(c, a) \/ WriteHit(c, a, r.data)
    BY <1>3 DEF CacheRead, CacheWrite
  <2>3. ~ready
    BY <1>4, <2>2 DEF Refuse, WriteMiss, ReadHit, WriteHit
  <2>4. access'[c] = access[c] \/ ~waiting_for_bus[c]
    BY <1>2, <2>3 DEF ProtocolInvariant, AccessInv
  <2> QED
    BY <1>2, <1>4, <2>1, <2>4, IdleCoreKeepsProtocol DEF Refuse
<1>5. CASE ReadHit(c, a) \/ WriteHit(c, a, r.data)
  BY <1>1, <1>2, <1>5, HitKeepsProtocol
<1>6. ASSUME ~Blocked(c), ~(Present(c, a) /\ (r.op = "sw" => state[c][i] = "M"))
      PROVE  ~waiting_for_bus[c] /\ ~is_mine[c]
  BY <1>6, RetryHits DEF Blocked
<1>7. CASE r.op = "lw" /\ ~ready /\ ReadMiss(c, a)
  <2>1. ~waiting_for_bus[c] /\ ~is_mine[c]
    BY <1>6, <1>7 DEF ReadMiss
  <2>2. CASE RequestBlock(c, a, "BUS_RD", 0) /\ UNCHANGED shared_D
    BY <1>1, <1>2, <1>7, <2>1, <2>2, RequestKeepsProtocol
  <2>3. CASE \/ StartCleaning(c, a)
             \/ ContinueCleaning(c, a) /\ (SetState(c, a, "I") \/ UNCHANGED state)
    BY <1>1, <1>2, <2>1, <2>3, CleanKeepsProtocol
  <2> QED
    BY <1>7, <2>2, <2>3 DEF ReadMiss
<1>8. CASE r.op = "sw" /\ ~ready /\ WriteUpgrade(c, a, r.data)
  <2>1. ~waiting_for_bus[c] /\ ~is_mine[c]
    BY <1>6, <1>8 DEF WriteUpgrade
  <2>2. RequestBlock(c, a, "BUS_RDX", r.data) /\ (UNCHANGED shared_D \/ BusSetShared)
    BY <1>8 DEF WriteUpgrade
  <2> QED
    BY <1>1, <1>2, <1>8, <2>1, <2>2, RequestKeepsProtocol
<1>9. CASE r.op = "sw" /\ WriteMiss(c, a, r.data, ready)
  <2>1. ~waiting_for_bus[c] /\ ~is_mine[c]
    BY <1>6, <1>9 DEF WriteMiss, Present
  <2>2. CASE ~ready /\ RequestBlock(c, a, "BUS_RDX", r.data) /\ UNCHANGED shared_D
    BY <1>1, <1>2, <1>9, <2>1, <2>2, RequestKeepsProtocol
  <2>3. CASE StartCleaning(c, a) \/ (ContinueCleaning(c, a) /\ UNCHANGED state)
    BY <1>1, <1>2, <2>1, <2>3, CleanKeepsProtocol
  <2> QED
    BY <1>9, <2>2, <2>3 DEF WriteMiss
<1> QED
  BY <1>3, <1>4, <1>5, <1>7, <1>8, <1>9 DEF CacheRead, CacheWrite

LEMMA CoreKeepsProtocol ==
  ASSUME TypeOK, ProtocolInvariant, NEW c \in Core, CorePhase(c)
  PROVE  ProtocolInvariant'
<1>1. CASE NoMemoryAccess(c)
  <2>1. ~(is_mine[c] /\ ~waiting_for_bus[c])
    BY <1>1 DEF NoMemoryAccess, ProtocolInvariant, FilledInv
  <2> QED
    BY <1>1, <2>1, IdleCoreKeepsProtocol DEF NoMemoryAccess
<1>2. CASE MemoryAccess(c)
  BY <1>2, OfferKeepsProtocol DEF MemoryAccess
<1> QED
  BY <1>1, <1>2 DEF CorePhase

-----------------------------------------------------------------------------
LEMMA InitProtocol == Init => ProtocolInvariant
<1> SUFFICES ASSUME Init PROVE ProtocolInvariant
  OBVIOUS
<1>1. \A c \in Core : /\ slot[c] = NoRequest /\ ~waiting_for_bus[c] /\ ~is_mine[c]
                      /\ ~sending_flush[c] /\ \A i \in Set : state[c][i] = "I"
  BY BusAssumption DEF Init, BusInit, CacheInit, Core, Agent, MAIN_MEMORY
<1>2. ~busy /\ ~delay_in_progress /\ bus_cmd = "BUS_NO_CMD" /\ phase = "memory"
  BY DEF Init, BusInit
<1> QED
  BY <1>1, <1>2 DEF ProtocolInvariant, SlotInv, DelayInv, BusyInv, IdleInv, MineInv, FilledInv,
     AccessInv, SupplyInv, OthersInv, SingleWriter, Completing, InCachePhases, BeforeResponse,
     NoRequest, Transaction

LEMMA StutterKeepsProtocol ==
  ASSUME TypeOK, ProtocolInvariant, UNCHANGED vars
  PROVE  ProtocolInvariant'
<1>1. UNCHANGED <<lines, shared, slot, delay, control, pending, arrays, is_mine, request, supply>>
      /\ UNCHANGED <<phase, turn, access>>
  BY DEF vars, busVars, cacheVars, loop, cores
<1> USE <1>1 DEF lines, shared, delay, control, pending, arrays, request, supply
<1>2. \A c \in Core : /\ Snooped(c)' = Snooped(c) /\ Completing(c)' = Completing(c)
                      /\ BeforeClock(c)' = BeforeClock(c) /\ BeforeRetry(c)' = BeforeRetry(c)
  BY DEF Snooped, Completing, RequestMatches, BeforeClock, BeforeRetry, BeforeSnoop, BeforeResponse,
     InCachePhases
<1> USE <1>2 DEF ProtocolInvariant
<1>a. SlotInv' /\ DelayInv' /\ IdleInv' /\ MineInv' /\ SupplyInv'
  BY DEF SlotInv, DelayInv, IdleInv, MineInv, SupplyInv, RequestMatches
<1>b. BusyInv'
  BY TypeOKParts DEF BusyInv, RequestMatches, BusTypeOK
<1>c. FilledInv' /\ AccessInv' /\ SingleWriter'
  BY DEF FilledInv, AccessInv, SingleWriter, Present
<1>d. OthersInv'
  BY DEF OthersInv, Present
<1> QED
  BY <1>a, <1>b, <1>c, <1>d

(* The life of a bus transaction, for any number of cores, size of blocks, *)
(* caches and memory, and any programs: see ProtocolInv.                   *)
THEOREM ProtocolHolds == Spec => []ProtocolInvariant
<1>1. TypeOK /\ ProtocolInvariant /\ [Next]_vars => ProtocolInvariant'
  <2> SUFFICES ASSUME TypeOK, ProtocolInvariant, [Next]_vars PROVE ProtocolInvariant'
    OBVIOUS
  <2>1. CASE Next
    BY <2>1, MemoryKeepsProtocol, BusKeepsProtocol, EdgeKeepsProtocol, SnoopKeepsProtocol,
       ResponseKeepsProtocol, ClockKeepsProtocol, CoreKeepsProtocol DEF Next, Tick
  <2>2. CASE UNCHANGED vars
    BY <2>2, StutterKeepsProtocol
  <2> QED
    BY <2>1, <2>2
<1> QED
  BY <1>1, InitProtocol, TypeCorrect, PTL DEF Spec

(* MESI: a Modified or Exclusive copy is the only valid copy of its block. *)
THEOREM SingleWriterHolds == Spec => []SingleWriter
<1>1. ProtocolInvariant => SingleWriter
  BY DEF ProtocolInvariant
<1> QED
  BY <1>1, ProtocolHolds, PTL

(* A cache takes words of its own transaction only (cache.c, is_mine).     *)
THEOREM FillsOwnBlockHolds == Spec => []FillsOwnBlock
<1>1. TypeOK /\ ProtocolInvariant => FillsOwnBlock
  BY WordTaken DEF FillsOwnBlock
<1> QED
  BY <1>1, ProtocolHolds, TypeCorrect, PTL

(* A core flushes a block to others only for the transaction on the bus,   *)
(* and has never more words left to send than the bus has left to carry.   *)
THEOREM SupplyServesTransactionHolds == Spec => []SupplyServesTransaction
<1>1. ASSUME TypeOK, ProtocolInvariant PROVE SupplyServesTransaction
  <2>1. flush_count \in 0 .. WORDS_IN_BLOCK - 1 /\ pending_origid \in Core
        /\ waiting_addr[pending_origid] \in Int
        /\ words_left_to_flush \in [Core -> 0 .. WORDS_IN_BLOCK]
    BY <1>1, TypeOKParts, ZeroInAddr DEF BusTypeOK, CacheTypeOK, BLOCK_SIZE
  <2>2. get_block_addr(waiting_addr[pending_origid]) \in Int
    BY <2>1, BlockAddr
  <2>3. busy => TransactionBlock = get_block_addr(waiting_addr[pending_origid])
    BY <1>1, <2>1, <2>2, WordInBlock DEF TransactionBlock, ProtocolInvariant, BusyInv
  <2> QED
    BY <1>1, <2>1, <2>3, BusAssumption DEF SupplyServesTransaction, ProtocolInvariant, SupplyInv
<1> QED
  BY <1>1, ProtocolHolds, TypeCorrect, PTL

-----------------------------------------------------------------------------
(* The arbitration of bus_clock.                                           *)

LEMMA RemainderOfCore ==
  ASSUME NEW x \in Int, -NUM_CORES <= x, x < NUM_CORES
  PROVE  x % NUM_CORES = IF x < 0 THEN x + NUM_CORES ELSE x
<1>1. NUM_CORES \in Nat \ {0}
  BY BusAssumption
<1> QED
  BY <1>1

(* Of two requesting cores the one granted is the nearer, and the distance *)
(* of the other shrinks by one more than the distance of the first.        *)
LEMMA GrantIsNearer ==
  ASSUME NEW l \in Core, NEW c \in Core, NEW d \in Core, c # d,
         (c - l - 1) % NUM_CORES <= (d - l - 1) % NUM_CORES
  PROVE  (d - c - 1) % NUM_CORES < (d - l - 1) % NUM_CORES
<1>1. /\ NUM_CORES \in Nat \ {0} /\ l \in 0 .. NUM_CORES - 1
      /\ c \in 0 .. NUM_CORES - 1 /\ d \in 0 .. NUM_CORES - 1
  BY BusAssumption DEF Core
<1>2. (c - l - 1) % NUM_CORES = IF c - l - 1 < 0 THEN c - l - 1 + NUM_CORES ELSE c - l - 1
  BY <1>1, RemainderOfCore
<1>3. (d - l - 1) % NUM_CORES = IF d - l - 1 < 0 THEN d - l - 1 + NUM_CORES ELSE d - l - 1
  BY <1>1, RemainderOfCore
<1>4. (d - c - 1) % NUM_CORES = IF d - c - 1 < 0 THEN d - c - 1 + NUM_CORES ELSE d - c - 1
  BY <1>1, RemainderOfCore
<1> QED
  BY <1>1, <1>2, <1>3, <1>4

(* Round robin, for any number of cores: a grant brings every core that    *)
(* still waits closer to its own turn, so that it waits for at most        *)
(* NUM_CORES - 1 grants to others.                                         *)
THEOREM RoundRobinHolds == Spec => RoundRobin
<1>1. ASSUME TypeOK, NEW c \in Core, NEW d \in Core, GrantRequest(c), d \in Requesting \ {c}
      PROVE  Distance(d)' < Distance(d)
  <2>1. last_granted \in Core /\ last_granted' = c /\ Distance(c) <= Distance(d) /\ c # d
    BY <1>1, TypeOKParts DEF BusTypeOK, GrantRequest, MovePointer
  <2> QED
    BY <2>1, GrantIsNearer DEF Distance
<1>2. TypeOK => [\A c, d \in Core :
                   (phase = "bus" /\ GrantRequest(c) /\ d \in Requesting \ {c})
                     => Distance(d)' < Distance(d)]_vars
  BY <1>1
<1> QED
  BY <1>2, TypeCorrect, PTL DEF RoundRobin
=============================================================================
