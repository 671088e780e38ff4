------------------------- MODULE SimulatorInv_proofs -------------------------
(***************************************************************************)
(* The counters and the bus trace agree, for any programs, as long as no   *)
(* store is lost, and what is saved at the end of the loop is final.  The  *)
(* invariants are those of SimulatorInv; the memory system comes in by     *)
(* SimulatorImplementsMulticore.                                           *)
(***************************************************************************)
EXTENDS SimulatorInv, Simulator_proofs, DataInv_proofs, ProgramFlow_proofs

LogTypes ==
  /\ bus_trace \in [Agent -> [BusCmd -> Int]]
  /\ completed \in [Core -> [{"lw", "sw"} -> Int]]

-----------------------------------------------------------------------------
(* Between the calls of core_clock nothing is counted, and what the trace  *)
(* gains is no longer owed.                                                *)

LEMMA OneIsInt == \A P \in BOOLEAN : One(P) \in Int
  BY DEF One

LEMMA InTraceWaits ==
  ASSUME TypeOK, ProtocolInvariant, NEW c \in Core, InTrace(c)
  PROVE  waiting_for_bus[c] /\ pending_origid = c /\ (is_write_request[c] <=> pending_cmd = "BUS_RDX")
  BY DEF InTrace, ProtocolInvariant, BusyInv, Completing, RequestMatches

(* bus_clock: a transaction that takes the bus has not been logged, one    *)
(* that holds it has been.                                                 *)
LEMMA BusKeepsOwed ==
  ASSUME TypeOK, ProtocolInvariant, ProtocolInvariant', TraceFlag, SimBusPhase,
         NEW c \in Core, waiting_for_bus[c]
  PROVE  InTrace(c)' <=> InTrace(c)
<1>1. /\ phase = "bus" /\ ~new_request /\ ~Completing(c) /\ ~BeforeResponse(c)
      /\ UNCHANGED <<waiting_for_bus, is_mine>> /\ phase' = "snoop" /\ turn' = 0
  BY OutsideCachePhases DEF SimBusPhase, BusPhase, TraceFlag, GoTo, cacheVars, request
<1>2. InTrace(c) <=> busy /\ pending_origid = c
  BY <1>1 DEF InTrace
<1>3. ~busy => ~is_mine[c]
  BY <1>1 DEF ProtocolInvariant, MineInv
<1>4. CASE DelayStep
  <2>1. ~busy /\ pending_origid' = pending_origid
    BY <1>4 DEF DelayStep, ProtocolInvariant, DelayInv
  <2>2. delay_cycles = 1 /\ busy' /\ flush_count' = 0
    BY <1>4, TypeOKParts DEF DelayStep, BusTypeOK
  <2>3. new_request'
    BY <1>4, <2>2 DEF SimBusPhase, PutsOnLines, DelayStep
  <2> QED
    BY <1>2, <2>1, <2>2, <2>3 DEF InTrace, Completing
<1>5. ASSUME NEW a \in Agent, GrantFlush(a) PROVE InTrace(c)' <=> InTrace(c)
  <2>1. /\ pending_origid' = pending_origid /\ flush_count \in Nat
        /\ IF BlockComplete THEN ~busy' ELSE flush_count' = flush_count + One(busy) /\ busy' = busy
    BY <1>5, TypeOKParts DEF GrantFlush, CountWord, BusTypeOK, One
  <2>2. CASE ~busy
    <3>1. ~busy'
      BY <2>1, <2>2 DEF BlockComplete
    <3>2. ~is_mine'[c]
      BY <1>1, <1>3, <2>2
    <3> QED
      BY <1>2, <2>2, <3>1, <3>2 DEF InTrace, Completing
  <2>3. CASE busy /\ pending_origid # c
    BY <1>2, <2>1, <2>3 DEF InTrace, Completing
  <2>4. CASE busy /\ pending_origid = c
    <3>1. is_mine[c]
      BY <1>1, <2>4, OutsideCachePhases DEF ProtocolInvariant, BusyInv
    <3>2. (busy' /\ pending_origid' = c) \/ Completing(c)'
      BY <1>1, <3>1 DEF ProtocolInvariant, MineInv
    <3>3. busy' => flush_count' > 0
      BY <2>1, <2>4 DEF One, BlockComplete
    <3> QED
      BY <1>2, <2>4, <3>2, <3>3 DEF InTrace
  <2> QED
    BY <2>2, <2>3, <2>4
<1>6. ASSUME NEW g \in Core, GrantRequest(g) PROVE InTrace(c)' <=> InTrace(c)
  BY <1>2, <1>6 DEF GrantRequest, InTrace, Completing
<1>7. CASE WaitForWord
  BY <1>1, <1>2, <1>7 DEF WaitForWord, busVars, control, pending, InTrace, Completing, SimBusPhase,
     PutsOnLines
<1>8. CASE GoIdle
  BY <1>2, <1>8 DEF GoIdle, control, InTrace, Completing
<1> QED
  BY <1>4, <1>5, <1>6, <1>7, <1>8 DEF SimBusPhase, BusPhase, BusClock
(* The edge: the first cycle of a transaction gives its line of the trace. *)
LEMMA EdgeKeepsOwed ==
  ASSUME TypeOK, ProtocolInvariant, LogTypes, SimEdgePhase,
         NEW c \in Core, NEW cmd \in Transaction
  PROVE  bus_trace'[c][cmd] + One(Owes(c, cmd)') = bus_trace[c][cmd] + One(Owes(c, cmd))
<1>1. /\ phase = "edge" /\ phase' = "memory" /\ LogBus
      /\ UNCHANGED <<waiting_for_bus, is_write_request, busy, flush_count, bus_cmd, bus_origid>>
      /\ UNCHANGED <<pending_origid, is_mine, tag, state>>
  BY DEF SimEdgePhase, EdgePhase, SharedEdge, GoTo, cacheVars, request, control, lines, pending, arrays
<1>2. ~Completing(c) /\ ~Completing(c)'
  BY <1>1, OutsideCachePhases DEF Completing, BeforeResponse, InCachePhases
<1>3. bus_origid \in Agent /\ bus_cmd \in BusCmd /\ Core \subseteq Agent /\ cmd \in BusCmd
  BY TypeOKParts, CoreIsAgent DEF BusTypeOK, BusCmd
<1>4. CASE Logged /\ bus_cmd \in Transaction
  <2>1. /\ busy /\ flush_count = 0 /\ bus_cmd = pending_cmd /\ bus_origid = pending_origid
    BY <1>4, TransactionOnBus
  <2>2. /\ bus_trace' = [bus_trace EXCEPT ![bus_origid][bus_cmd] = @ + 1]
        /\ new_request /\ ~new_request'
    BY <1>1, <1>4 DEF LogBus, Logged
  <2>3. CASE c = bus_origid
    <3>1. ~InTrace(c) /\ InTrace(c)'
      BY <1>1, <1>2, <2>1, <2>2, <2>3 DEF InTrace
    <3>2. waiting_for_bus[c] /\ (is_write_request[c] <=> bus_cmd = "BUS_RDX")
      BY <2>1, <2>3 DEF ProtocolInvariant, BusyInv, RequestMatches
    <3>3. Owes(c, cmd) <=> cmd = bus_cmd
      BY <1>4, <3>1, <3>2 DEF Owes, Transaction
    <3>4. ~Owes(c, cmd)'
      BY <1>1, <3>1 DEF Owes
    <3>5. bus_trace'[c][cmd] = bus_trace[c][cmd] + One(cmd = bus_cmd) /\ bus_trace[c][cmd] \in Int
      BY <1>3, <2>2, <2>3 DEF LogTypes, One
    <3> QED
      BY <3>3, <3>4, <3>5 DEF One
  <2>4. CASE c # bus_origid
    <3>1. bus_trace'[c] = bus_trace[c]
      BY <1>3, <2>2, <2>4 DEF LogTypes
    <3>2. InTrace(c)' <=> InTrace(c)
      BY <1>1, <1>2, <2>1, <2>4 DEF InTrace
    <3>3. Owes(c, cmd)' <=> Owes(c, cmd)
      BY <1>1, <3>2 DEF Owes
    <3> QED
      BY <3>1, <3>3 DEF One
  <2> QED
    BY <2>3, <2>4
<1>5. CASE Logged /\ bus_cmd \notin Transaction
  <2>1. /\ bus_trace' = [bus_trace EXCEPT ![bus_origid][bus_cmd] = @ + 1]
        /\ bus_cmd # cmd
    BY <1>1, <1>5 DEF LogBus
  <2>2. bus_trace'[c][cmd] = bus_trace[c][cmd]
    BY <1>3, <2>1 DEF LogTypes
  <2>3. busy => flush_count > 0
    BY <1>5, TypeOKParts DEF ProtocolInvariant, BusyInv, BusTypeOK
  <2>4. InTrace(c)' <=> InTrace(c)
    BY <1>1, <1>2, <2>3 DEF InTrace
  <2>5. Owes(c, cmd)' <=> Owes(c, cmd)
    BY <1>1, <2>4 DEF Owes
  <2> QED
    BY <2>2, <2>5 DEF One
<1>6. CASE ~Logged
  <2>1. bus_trace' = bus_trace /\ (new_request' <=> new_request)
    BY <1>1, <1>6 DEF LogBus
  <2>2. InTrace(c)' <=> InTrace(c)
    BY <1>1, <1>2, <2>1 DEF InTrace
  <2>3. Owes(c, cmd)' <=> Owes(c, cmd)
    BY <1>1, <2>2 DEF Owes
  <2> QED
    BY <2>1, <2>3 DEF One
<1> QED
  BY <1>4, <1>5, <1>6

(* memory_clock and the three calls of a cache: the fill ends a request    *)
(* that has been logged.                                                   *)
LEMMA CachesKeepOwed ==
  ASSUME TypeOK, ProtocolInvariant, SimOtherPhase, NEW c \in Core, NEW cmd \in Transaction
  PROVE  Owes(c, cmd)' <=> Owes(c, cmd)
<1>1. UNCHANGED <<busy, flush_count, pending_origid, new_request, delay_in_progress, bus_cmd,
                  bus_addr, pending_cmd>>
  BY DEF SimOtherPhase, MemoryPhase, MemoryClock, SnoopPhase, ResponsePhase, ClockPhase, control,
     pending, logs, lines, delay
<1>2. CASE MemoryPhase
  <2>1. /\ phase = "memory" /\ phase' = "bus" /\ UNCHANGED <<waiting_for_bus, is_write_request>>
    BY <1>2 DEF MemoryPhase, GoTo, cacheVars, request
  <2>2. ~Completing(c) /\ ~Completing(c)'
    BY <2>1, OutsideCachePhases DEF Completing, BeforeResponse, InCachePhases
  <2> QED
    BY <1>1, <2>1, <2>2 DEF Owes, InTrace
<1>3. ASSUME NEW d \in Core, SnoopPhase(d) PROVE Owes(c, cmd)' <=> Owes(c, cmd)
  <2>1. /\ BeforeResponse(c)' = BeforeResponse(c)
        /\ UNCHANGED request
    BY <1>3, SnoopPosition DEF SnoopPhase, CacheSnoop, SnoopOwnRequest, SnoopOther
  <2>2. bus_cmd = "BUS_FLUSH" => is_mine' = is_mine
    BY <1>3 DEF SnoopPhase, CacheSnoop, SnoopOwnRequest, SnoopOther, Transaction
  <2>3. Completing(c)' <=> Completing(c)
    BY <1>1, <2>1, <2>2 DEF Completing, RequestMatches, request
  <2> QED
    BY <1>1, <2>1, <2>3 DEF Owes, InTrace, request
<1>4. ASSUME NEW d \in Core, ResponsePhase(d) PROVE Owes(c, cmd)' <=> Owes(c, cmd)
  <2>1. /\ d # c => BeforeResponse(c)' = BeforeResponse(c)
        /\ UNCHANGED is_mine
    BY <1>4, ResponsePosition DEF ResponsePhase, CacheHandleBusResponse
  <2>2. CASE FillLastWord(d)
    <3>1. Completing(d)
      BY <2>2, WordTaken DEF FillLastWord
    <3>2. CASE c = d
      <4>1. ~waiting_for_bus'[c]
        BY <2>2, <3>2, TypeOKParts DEF FillLastWord, CacheTypeOK
      <4> QED
        BY <3>1, <3>2, <4>1 DEF Owes, InTrace
    <3>3. CASE c # d
      <4>1. /\ waiting_for_bus'[c] = waiting_for_bus[c] /\ waiting_addr'[c] = waiting_addr[c]
            /\ is_write_request'[c] = is_write_request[c]
        BY <2>2, <3>3, TypeOKParts DEF FillLastWord, CacheTypeOK
      <4>2. Completing(c)' <=> Completing(c)
        BY <1>1, <2>1, <3>3, <4>1 DEF Completing, RequestMatches
      <4> QED
        BY <1>1, <4>1, <4>2 DEF Owes, InTrace
    <3> QED
      BY <3>2, <3>3
  <2>3. CASE ~FillLastWord(d)
    <3>1. UNCHANGED request
      BY <1>4, <2>3 DEF ResponsePhase, CacheHandleBusResponse, FillWord
    <3>2. ~Completing(d)
      <4>1. SUFFICES ASSUME Completing(d) PROVE FALSE
        OBVIOUS
      <4>2. Filling(d)
        BY <4>1 DEF Completing, RequestMatches, Filling
      <4>3. LastWordOnBus
        BY <4>1, <4>2, WordTaken
      <4> QED
        BY <1>4, <2>3, <4>2, <4>3 DEF ResponsePhase, CacheHandleBusResponse, FillWord
    <3>3. ~Completing(d)'
      BY <1>4, ResponsePosition DEF Completing
    <3>4. Completing(c)' <=> Completing(c)
      <4>1. CASE c = d
        BY <3>2, <3>3, <4>1
      <4>2. CASE c # d
        BY <1>1, <2>1, <3>1, <4>2 DEF Completing, RequestMatches, request
      <4> QED
        BY <4>1, <4>2
    <3> QED
      BY <1>1, <3>1, <3>4 DEF Owes, InTrace, request
  <2> QED
    BY <2>2, <2>3
<1>5. ASSUME NEW d \in Core, ClockPhase(d) PROVE Owes(c, cmd)' <=> Owes(c, cmd)
  <2>1. /\ BeforeResponse(c)' = BeforeResponse(c)
        /\ UNCHANGED <<is_mine, request>>
    BY <1>5, ClockPosition DEF ClockPhase, CacheClock
  <2>2. Completing(c)' <=> Completing(c)
    BY <1>1, <2>1 DEF Completing, RequestMatches, request
  <2> QED
    BY <1>1, <2>1, <2>2 DEF Owes, InTrace, request
<1> QED
  BY <1>2, <1>3, <1>4, <1>5 DEF SimOtherPhase
-----------------------------------------------------------------------------
(* The call of core_clock.                                                 *)

HitOf(op) == IF op = "lw" THEN "read_hit" ELSE "write_hit"
CmdOf(op) == IF op = "lw" THEN "BUS_RD" ELSE "BUS_RDX"
Asks(c) == waiting_for_bus'[c] /\ ~waiting_for_bus[c]

(* The hits that a cycle counts, and takes back.                           *)
LEMMA HitsCounted ==
  ASSUME NEW s, CountersAreInt(s), NEW c \in Core, NEW r, NEW ready \in BOOLEAN,
         NEW k, NEW next
  PROVE  LET t == CountCycle(CountAccess(s, c, r, ready), k, next, ~ready)
         IN  \A n \in {"read_hit", "write_hit"} :
               t[n] = IF n = HitOf(r.op)
                      THEN s[n] + One(ready /\ Present(c, r.addr)) - One(Asks(c)) ELSE s[n]
<1> DEFINE hit  == HitOf(r.op)
           miss == IF r.op = "lw" THEN "read_miss" ELSE "write_miss"
           up   == One(ready /\ Present(c, r.addr))
           down == One(Asks(c))
           more == One(~ready /\ ~Blocked(c))
           u    == CountAccess(s, c, r, ready)
           t    == CountCycle(u, k, next, ~ready)
<1>1. up \in Int /\ down \in Int /\ more \in Int
  BY DEF One
<1>2. /\ hit \in {"read_hit", "write_hit"} /\ miss \in Counter \ {"read_hit", "write_hit"}
      /\ {"read_hit", "write_hit"} \subseteq Counter \ CoreCounter
  BY DEF Counter, CoreCounter, CacheCounter, HitOf
<1>3. u = [s EXCEPT ![hit] = @ + up - down, ![miss] = @ + more]
  BY DEF CountAccess, HitOf, Asks
<1>4. CountersAreInt(u)
  BY CountAccessKeeps
<1> DEFINE a == One(~next.halted \/ ~pipeline_is_empty(k))
           b == One(~ready)
           d == One(ready /\ Stalls(k))
           e == One(ready /\ ~Stalls(k) /\ ~next.halted)
<1>5. t = [u EXCEPT !["cycles"] = @ + a, !["mem_stalls"] = @ + b,
                    !["decode_stalls"] = @ + d, !["instructions"] = @ + e]
  BY DEF CountCycle, One
<1> HIDE DEF hit, miss, up, down, more, a, b, d, e, u, t
<1>6. \A n \in {"read_hit", "write_hit"} : t[n] = u[n]
  BY <1>2, <1>4, <1>5 DEF CountersAreInt
<1>7. \A n \in {"read_hit", "write_hit"} :
        u[n] = IF n = hit THEN s[n] + up - down ELSE s[n]
  BY <1>1, <1>2, <1>3 DEF CountersAreInt
<1> QED
  BY <1>6, <1>7 DEF t, u, hit, up, down

LEMMA HitsUncounted ==
  ASSUME NEW s, CountersAreInt(s), NEW k, NEW next
  PROVE  \A n \in {"read_hit", "write_hit"} : CountCycle(s, k, next, FALSE)[n] = s[n]
<1> DEFINE a == One(~next.halted \/ ~pipeline_is_empty(k))
           b == One(FALSE)
           d == One(~FALSE /\ Stalls(k))
           e == One(~FALSE /\ ~Stalls(k) /\ ~next.halted)
           t == CountCycle(s, k, next, FALSE)
<1>1. t = [s EXCEPT !["cycles"] = @ + a, !["mem_stalls"] = @ + b,
                    !["decode_stalls"] = @ + d, !["instructions"] = @ + e]
  BY DEF CountCycle
<1> HIDE DEF a, b, d, e, t
<1>2. \A n \in {"read_hit", "write_hit"} : t[n] = s[n]
  BY <1>1 DEF CountersAreInt, Counter, CacheCounter
<1> QED
  BY <1>2 DEF t

(* What an access does to the request of its core: a hit leaves it, a miss *)
(* makes one only for a block that is not there, and the MEM stage goes on *)
(* without a hit only when a store is lost.                                *)
LEMMA AccessAsks ==
  ASSUME TypeOK, NEW c \in Core, NEW r, r.op \in {"lw", "sw"}, NEW ready \in BOOLEAN,
         Offer(c, r, ready)
  PROVE  /\ Asks(c) => ~ready /\ (is_write_request'[c] <=> r.op = "sw")
         /\ ~Asks(c) => /\ waiting_for_bus'[c] = waiting_for_bus[c]
                        /\ is_write_request'[c] = is_write_request[c]
         /\ ready => \/ Present(c, r.addr)
                     \/ r.op = "sw" /\ tag'[c] = tag[c] /\ tag[c][get_index(r.addr)] # get_tag(r.addr)
         /\ \A d \in Core \ {c} : /\ waiting_for_bus'[d] = waiting_for_bus[d]
                                  /\ is_write_request'[d] = is_write_request[d]
<1>1. waiting_for_bus \in [Core -> BOOLEAN] /\ is_write_request \in [Core -> BOOLEAN]
  BY TypeOKParts DEF CacheTypeOK
<1>2. ASSUME ~ready, UNCHANGED request
      PROVE  /\ ~Asks(c) /\ UNCHANGED <<waiting_for_bus, is_write_request>> /\ ~ready
  BY <1>2 DEF Asks, request
<1>3. ASSUME ready, UNCHANGED request, Present(c, r.addr)
      PROVE  ~Asks(c) /\ UNCHANGED <<waiting_for_bus, is_write_request>> /\ Present(c, r.addr)
  BY <1>3 DEF Asks, request
<1>4. ASSUME ~ready, ~waiting_for_bus[c], NEW d,
             RequestBlock(c, r.addr, CmdOf(r.op), d)
      PROVE  /\ Asks(c) /\ ~ready /\ (is_write_request'[c] <=> r.op = "sw")
             /\ \A e \in Core \ {c} : /\ waiting_for_bus'[e] = waiting_for_bus[e]
                                      /\ is_write_request'[e] = is_write_request[e]
  BY <1>1, <1>4 DEF RequestBlock, Asks, CmdOf
<1>5. CASE r.op = "lw"
  <2>1. CacheRead(c, r.addr, ready)
    BY <1>5 DEF Offer
  <2>2. CASE ready
    <3>1. Present(c, r.addr) /\ UNCHANGED request
      BY <2>1, <2>2 DEF CacheRead, ReadHit
    <3> QED
      BY <1>3, <2>2, <3>1
  <2>3. CASE ~ready
    <3>1. CASE UNCHANGED request
      BY <1>2, <2>3, <3>1
    <3>2. CASE ~(UNCHANGED request)
      <4>1. ~waiting_for_bus[c] /\ RequestBlock(c, r.addr, "BUS_RD", 0)
        BY <2>1, <2>3, <3>2 DEF CacheRead, Refuse, ReadMiss, cacheVars, StartCleaning,
           ContinueCleaning, Blocked
      <4> QED
        BY <1>4, <1>5, <2>3, <4>1 DEF CmdOf
    <3> QED
      BY <3>1, <3>2
  <2> QED
    BY <2>2, <2>3
<1>6. CASE r.op = "sw"
  <2>1. CacheWrite(c, r.addr, r.data, ready)
    BY <1>6 DEF Offer
  <2>2. CASE ready
    <3>1. CASE WriteHit(c, r.addr, r.data)
      BY <1>3, <2>2, <3>1 DEF WriteHit
    <3>2. CASE ~WriteHit(c, r.addr, r.data)
      <4>1. /\ UNCHANGED request /\ UNCHANGED tag
            /\ tag[c][get_index(r.addr)] # get_tag(r.addr)
        BY <2>1, <2>2, <3>2 DEF CacheWrite, WriteMiss, ContinueCleaning
      <4> QED
        BY <1>6, <4>1 DEF Asks, request
    <3> QED
      BY <3>1, <3>2
  <2>3. CASE ~ready
    <3>1. CASE UNCHANGED request
      BY <1>2, <2>3, <3>1
    <3>2. CASE ~(UNCHANGED request)
      <4>1. ~waiting_for_bus[c] /\ RequestBlock(c, r.addr, "BUS_RDX", r.data)
        BY <2>1, <2>3, <3>2 DEF CacheWrite, Refuse, WriteUpgrade, WriteMiss, cacheVars,
           StartCleaning, ContinueCleaning, Blocked
      <4> QED
        BY <1>4, <1>6, <2>3, <4>1 DEF CmdOf
    <3> QED
      BY <3>1, <3>2
  <2> QED
    BY <2>2, <2>3
<1> QED
  BY <1>5, <1>6
Balanced(c, op) ==
  stats[c][HitOf(op)] + bus_trace[c][CmdOf(op)] + One(Owes(c, CmdOf(op))) = completed[c][op]

LEMMA CoreKeepsBalance ==
  ASSUME CountInv, ProtocolInvariant, LogTypes, NEW c \in Core, SimCorePhase(c),
         NEW d \in Core, NEW op \in {"lw", "sw"}, op = "lw" \/ StoreCompletes, Balanced(d, op)
  PROVE  Balanced(d, op)'
<1> DEFINE hit == HitOf(op)
           cmd == CmdOf(op)
<1>1. /\ UNCHANGED <<bus_trace, new_request, busy, flush_count, pending_origid>>
      /\ phase = "core" /\ turn = c /\ phase' \in {"core", "edge"}
  BY DEF SimCorePhase, AfterCore, GoTo, control, pending
<1>2. ~Completing(d) /\ ~Completing(d)'
  BY <1>1 DEF Completing, BeforeResponse, InCachePhases
<1>3. InTrace(d)' <=> InTrace(d)
  BY <1>1, <1>2 DEF InTrace
<1>4. /\ TypeOK /\ CountersAreInt(stats[c]) /\ stats = [e \in Core |-> stats[e]]
      /\ cpu = [e \in Core |-> cpu[e]]
  BY DEF CountInv, HeldInv, CoresShape
<1>5. hit \in {"read_hit", "write_hit"} /\ stats[c][hit] \in Int /\ completed[c][op] \in Int
  BY <1>4 DEF HitOf, CountersAreInt, Counter, CacheCounter, LogTypes
<1>6. ASSUME waiting_for_bus'[d] = waiting_for_bus[d], is_write_request'[d] = is_write_request[d],
             stats'[d][hit] = stats[d][hit], completed'[d][op] = completed[d][op]
      PROVE  Balanced(d, op)'
  <2>1. Owes(d, cmd)' <=> Owes(d, cmd)
    BY <1>3, <1>6 DEF Owes
  <2> QED
    BY <1>1, <1>6, <2>1 DEF Balanced, One
<1>7. CASE NoAccessCycle(c)
  <2>1. UNCHANGED <<waiting_for_bus, is_write_request, completed>>
    BY <1>7 DEF NoAccessCycle, NoMemoryAccess, cacheVars, request
  <2>2. stats' = [stats EXCEPT ![c] = CountCycle(stats[c], cpu[c], cpu'[c], FALSE)]
    BY <1>7 DEF NoAccessCycle
  <2>3. CountCycle(stats[c], cpu[c], cpu'[c], FALSE)[hit] = stats[c][hit]
    BY <1>4, <1>5, HitsUncounted
  <2>4. stats'[d][hit] = stats[d][hit]
    BY <1>4, <2>2, <2>3
  <2> QED
    BY <1>6, <2>1, <2>4
<1>8. ASSUME NEW ready \in BOOLEAN, AccessCycle(c, ready) PROVE Balanced(d, op)'
  <2> DEFINE r == AccessIn(cpu[c].ex_mem)
             t == CountCycle(CountAccess(stats[c], c, r, ready), cpu[c], cpu'[c], ~ready)
  <2>1. /\ r \in AccessOf(c) /\ Offer(c, r, ready) /\ r.op \in {"lw", "sw"}
        /\ stats' = [stats EXCEPT ![c] = t]
        /\ completed' = [completed EXCEPT ![c][r.op] = @ + One(ready)]
    BY <1>8 DEF AccessCycle, AccessIn
  <2>2. /\ Asks(c) => ~ready /\ (is_write_request'[c] <=> r.op = "sw")
        /\ ~Asks(c) => /\ waiting_for_bus'[c] = waiting_for_bus[c]
                       /\ is_write_request'[c] = is_write_request[c]
        /\ ready => \/ Present(c, r.addr)
                    \/ /\ r.op = "sw" /\ tag'[c] = tag[c]
                       /\ tag[c][get_index(r.addr)] # get_tag(r.addr)
        /\ \A e \in Core \ {c} : /\ waiting_for_bus'[e] = waiting_for_bus[e]
                                 /\ is_write_request'[e] = is_write_request[e]
    BY <1>4, <2>1, AccessAsks
  <2>3. \A n \in {"read_hit", "write_hit"} :
          t[n] = IF n = HitOf(r.op)
                 THEN stats[c][n] + One(ready /\ Present(c, r.addr)) - One(Asks(c))
                 ELSE stats[c][n]
    BY <1>4, HitsCounted
  <2>4. ready /\ r.op = op => Present(c, r.addr)
    <3> SUFFICES ASSUME ready, r.op = op, ~Present(c, r.addr) PROVE FALSE
      OBVIOUS
    <3>1. /\ op = "sw" /\ tag'[c] = tag[c]
          /\ tag[c][get_index(r.addr)] # get_tag(r.addr)
      BY <2>2
    <3>2. /\ r \in StoreOf(c) /\ r = [op |-> "sw", addr |-> r.addr, data |-> r.data]
          /\ r.addr \in Addr /\ r.data \in Word
      BY <2>1, <3>1, ProgramAssumption DEF AccessOf, LoadOf, StoreOf
    <3>3. retired'[c] = r
      BY <1>4, <2>1, <3>1 DEF Offer, TypeOK
    <3>4. PICK a \in Addr : a = r.addr
      BY <3>2
    <3>5. PICK v \in Word : v = r.data
      BY <3>2
    <3>6. retired'[c] = [op |-> "sw", addr |-> a, data |-> v]
      BY <3>2, <3>3, <3>4, <3>5
    <3> HIDE DEF r
    <3>7. Present(c, a)'
      BY <1>1, <3>1, <3>6 DEF StoreCompletes
    <3>8. tag'[c][get_index(a)] # get_tag(a)
      BY <3>1, <3>4
    <3> QED
      BY <3>7, <3>8 DEF Present
  <2> HIDE DEF r, t
  <2>5. CASE d # c
    <3>1. stats'[d] = stats[d] /\ completed'[d] = completed[d]
      BY <1>4, <2>1, <2>5 DEF LogTypes
    <3> QED
      BY <1>6, <2>2, <2>5, <3>1
  <2>6. CASE d = c /\ r.op # op
    <3>1. stats'[c][hit] = stats[c][hit]
      BY <1>4, <1>5, <2>1, <2>3, <2>6 DEF HitOf
    <3>2. completed'[c][op] = completed[c][op]
      BY <2>1, <2>6 DEF LogTypes
    <3>3. CASE ~Asks(c)
      BY <1>6, <2>2, <2>6, <3>1, <3>2, <3>3
    <3>4. CASE Asks(c)
      <4>1. ~waiting_for_bus[c] /\ (is_write_request'[c] <=> r.op = "sw")
        BY <2>2, <3>4 DEF Asks
      <4>2. ~Owes(c, cmd) /\ ~Owes(c, cmd)'
        BY <2>1, <2>6, <4>1 DEF Owes, CmdOf
      <4> QED
        BY <1>1, <2>6, <3>1, <3>2, <4>2 DEF Balanced, One
    <3> QED
      BY <3>3, <3>4
  <2>7. CASE d = c /\ r.op = op
    <3>1. stats'[c][hit] = stats[c][hit] + One(ready) - One(Asks(c))
      <4>1. One(ready /\ Present(c, r.addr)) = One(ready)
        BY <2>4, <2>7 DEF One
      <4>2. stats'[c] = t
        BY <1>4, <2>1
      <4> QED
        BY <1>5, <2>3, <2>7, <4>1, <4>2
    <3>2. completed'[c][op] = completed[c][op] + One(ready)
      BY <2>1, <2>7 DEF LogTypes
    <3>3. One(Owes(c, cmd)') = One(Owes(c, cmd)) + One(Asks(c))
      <4>1. CASE ~Asks(c)
        <5>1. Owes(c, cmd)' <=> Owes(c, cmd)
          BY <1>3, <2>2, <2>7, <4>1 DEF Owes
        <5> QED
          BY <4>1, <5>1 DEF One
      <4>2. CASE Asks(c)
        <5>1. ~waiting_for_bus[c] /\ waiting_for_bus'[c] /\ (is_write_request'[c] <=> r.op = "sw")
          BY <2>2, <4>2 DEF Asks
        <5>2. ~InTrace(c)
          BY <1>4, <5>1, InTraceWaits
        <5>3. Owes(c, cmd)' /\ ~Owes(c, cmd)
          BY <1>3, <2>1, <2>7, <5>1, <5>2 DEF Owes, CmdOf
        <5> QED
          BY <4>2, <5>3 DEF One
      <4> QED
        BY <4>1, <4>2
    <3>4. bus_trace[c][cmd] \in Int
      <4>1. c \in Agent /\ cmd \in BusCmd
        BY CoreIsAgent DEF CmdOf, BusCmd, Transaction
      <4> QED
        BY <4>1 DEF LogTypes
    <3>5. One(ready) \in Int /\ One(Asks(c)) \in Int /\ One(Owes(c, cmd)) \in Int
      BY DEF One
    <3> QED
      BY <1>1, <1>5, <2>7, <3>1, <3>2, <3>3, <3>4, <3>5 DEF Balanced
  <2> QED
    BY <2>5, <2>6, <2>7
<1> QED
  BY <1>7, <1>8 DEF SimCorePhase
-----------------------------------------------------------------------------
(* All calls of the loop together.                                         *)

AccountInv == CountInv /\ LogTypes /\ TraceFlag

LEMMA AccountInit ==
  SimInit => /\ AccountInv
             /\ \A c \in Core : Balanced(c, "lw") /\ Balanced(c, "sw")
<1> SUFFICES ASSUME SimInit
             PROVE  /\ AccountInv
                    /\ \A c \in Core : Balanced(c, "lw") /\ Balanced(c, "sw")
  OBVIOUS
<1>1. CountInv
  BY CountInit
<1>2. LogTypes /\ TraceFlag
  BY DEF SimInit, LogTypes, TraceFlag
<1>3. ASSUME NEW c \in Core PROVE Balanced(c, "lw") /\ Balanced(c, "sw")
  <2>1. ~waiting_for_bus[c]
    BY DEF SimInit, Init, CacheInit
  <2>2. c \in Agent /\ {"BUS_RD", "BUS_RDX"} \subseteq BusCmd
    BY CoreIsAgent DEF BusCmd, Transaction
  <2>3. /\ stats[c]["read_hit"] = 0 /\ stats[c]["write_hit"] = 0
        /\ bus_trace[c]["BUS_RD"] = 0 /\ bus_trace[c]["BUS_RDX"] = 0
        /\ completed[c]["lw"] = 0 /\ completed[c]["sw"] = 0
    BY <2>2 DEF SimInit, Counter, CacheCounter
  <2> QED
    BY <2>1, <2>3 DEF Balanced, HitOf, CmdOf, Owes, One
<1> QED
  BY <1>1, <1>2, <1>3 DEF AccountInv

LEMMA FlagStep ==
  ASSUME TypeOK, TraceFlag, SimNext
  PROVE  TraceFlag'
<1>1. CASE SimBusPhase
  <2>1. /\ phase = "bus" /\ BusClock /\ phase' = "snoop" /\ ~new_request
        /\ new_request' => PutsOnLines
    BY <1>1 DEF SimBusPhase, BusPhase, GoTo, TraceFlag
  <2>2. CASE delay_in_progress
    <3>1. delay_cycles = 1 /\ pending_cmd \in Transaction /\ delay_cycles' = 0
      BY <2>1, <2>2, TypeOKParts
         DEF BusTypeOK, BusClock, DelayStep, GrantFlush, LowestFlush, GrantRequest, WaitForWord,
             GoIdle
    <3>2. bus_cmd' = pending_cmd
      BY <2>1, <2>2, <3>1 DEF BusClock, DelayStep, GrantFlush, LowestFlush, GrantRequest,
         WaitForWord, GoIdle
    <3> QED
      BY <2>1, <3>1, <3>2 DEF TraceFlag, Transaction
  <2>3. CASE ~delay_in_progress /\ FlushReady # {}
    <3>1. bus_cmd' = "BUS_FLUSH"
      BY <2>1, <2>3 DEF BusClock, DelayStep, GrantFlush, PutOnBus, GrantRequest, WaitForWord, GoIdle
    <3> QED
      BY <2>1, <3>1 DEF TraceFlag
  <2>4. CASE ~delay_in_progress /\ FlushReady = {}
    BY <2>1, <2>4 DEF TraceFlag, PutsOnLines
  <2> QED
    BY <2>2, <2>3, <2>4
<1>2. CASE SimEdgePhase
  BY <1>2 DEF SimEdgePhase, EdgePhase, LogBus, Logged, TraceFlag
<1>3. ASSUME UNCHANGED <<bus_cmd, new_request>>, phase # "memory", phase' \notin {"memory", "bus"},
             phase # "bus"
      PROVE  TraceFlag'
  BY <1>3 DEF TraceFlag
<1>4. CASE SimOtherPhase
  <2>1. UNCHANGED <<bus_cmd, new_request>>
    BY <1>4 DEF SimOtherPhase, MemoryPhase, MemoryClock, SnoopPhase, ResponsePhase, ClockPhase,
       logs, lines
  <2>2. phase = "memory" \/ (phase \notin {"memory", "bus"} /\ phase' \notin {"memory", "bus"})
    BY <1>4 DEF SimOtherPhase, MemoryPhase, SnoopPhase, ResponsePhase, ClockPhase, GoTo
  <2> QED
    BY <2>1, <2>2 DEF TraceFlag
<1>5. ASSUME NEW c \in Core, SimCorePhase(c) PROVE TraceFlag'
  <2>1. /\ UNCHANGED <<bus_cmd, new_request>> /\ phase = "core"
        /\ phase' \notin {"memory", "bus"}
    BY <1>5 DEF SimCorePhase, AfterCore, GoTo, lines
  <2> QED
    BY <1>3, <2>1
<1> QED
  BY <1>1, <1>2, <1>4, <1>5 DEF SimNext

LEMMA LogTypesStep ==
  ASSUME TypeOK, LogTypes,
         SimBusPhase \/ SimEdgePhase \/ SimOtherPhase \/ \E c \in Core : SimCorePhase(c)
  PROVE  LogTypes'
<1>1. CASE SimEdgePhase
  <2>1. bus_origid \in Agent /\ bus_cmd \in BusCmd
    BY TypeOKParts DEF BusTypeOK
  <2>2. bus_trace' \in [Agent -> [BusCmd -> Int]]
    BY <1>1, <2>1 DEF SimEdgePhase, LogBus, LogTypes
  <2> QED
    BY <1>1, <2>2 DEF SimEdgePhase, LogTypes
<1>2. CASE SimBusPhase \/ SimOtherPhase
  BY <1>2 DEF SimBusPhase, SimOtherPhase, logs, LogTypes
<1>3. ASSUME NEW c \in Core, SimCorePhase(c) PROVE LogTypes'
  <2>1. bus_trace' = bus_trace
    BY <1>3 DEF SimCorePhase
  <2>2. ASSUME NEW ready \in BOOLEAN, AccessCycle(c, ready)
        PROVE  completed' \in [Core -> [{"lw", "sw"} -> Int]]
    <3> DEFINE r == AccessIn(cpu[c].ex_mem)
    <3>1. /\ r.op \in {"lw", "sw"} /\ One(ready) \in Int
          /\ completed' = [completed EXCEPT ![c][r.op] = @ + One(ready)]
      BY <2>2 DEF AccessCycle, AccessIn, One
    <3> HIDE DEF r
    <3> QED
      BY <3>1 DEF LogTypes
  <2>3. completed' \in [Core -> [{"lw", "sw"} -> Int]]
    BY <1>3, <2>2 DEF SimCorePhase, NoAccessCycle, LogTypes
  <2> QED
    BY <2>1, <2>3 DEF LogTypes
<1> QED
  BY <1>1, <1>2, <1>3

LEMMA AccountStep == AccountInv /\ [SimNext]_simVars => AccountInv'
<1> SUFFICES ASSUME AccountInv, [SimNext]_simVars PROVE AccountInv'
  OBVIOUS
<1>1. CountInv'
  BY CountStep DEF AccountInv
<1>2. TypeOK
  BY DEF AccountInv, CountInv, HeldInv
<1>3. CASE SimNext
  BY <1>1, <1>2, <1>3, FlagStep, LogTypesStep DEF AccountInv, SimNext
<1>4. CASE UNCHANGED simVars
  BY <1>1, <1>4 DEF AccountInv, LogTypes, TraceFlag, simVars, vars, busVars, lines, loop, logs
<1> QED
  BY <1>3, <1>4

LEMMA BalanceStep ==
  ASSUME AccountInv, ProtocolInvariant, ProtocolInvariant', [SimNext]_simVars,
         NEW op \in {"lw", "sw"}, op = "lw" \/ [StoreCompletes]_vars,
         NEW c \in Core, Balanced(c, op)
  PROVE  Balanced(c, op)'
<1> DEFINE cmd == CmdOf(op)
<1>1. TypeOK /\ CountInv /\ LogTypes /\ TraceFlag
  BY DEF AccountInv, CountInv, HeldInv
<1>2. cmd \in Transaction /\ cmd \in BusCmd /\ c \in Agent
  BY CoreIsAgent DEF CmdOf, Transaction, BusCmd
<1>3. CASE SimBusPhase
  <2>1. UNCHANGED <<stats, completed, bus_trace, waiting_for_bus, is_write_request>>
    BY <1>3 DEF SimBusPhase, BusPhase, cacheVars, request
  <2>2. waiting_for_bus[c] => (InTrace(c)' <=> InTrace(c))
    BY <1>1, <1>3, BusKeepsOwed
  <2>3. Owes(c, cmd)' <=> Owes(c, cmd)
    BY <2>1, <2>2 DEF Owes
  <2> QED
    BY <2>1, <2>3 DEF Balanced, One
<1>4. CASE SimEdgePhase
  <2>1. UNCHANGED <<stats, completed>>
    BY <1>4 DEF SimEdgePhase
  <2>2. bus_trace'[c][cmd] + One(Owes(c, cmd)') = bus_trace[c][cmd] + One(Owes(c, cmd))
    BY <1>1, <1>2, <1>4, EdgeKeepsOwed
  <2>3. LogTypes'
    BY <1>1, <1>4, LogTypesStep
  <2>4. /\ stats[c][HitOf(op)] \in Int /\ bus_trace[c][cmd] \in Int
        /\ One(Owes(c, cmd)) \in Int /\ One(Owes(c, cmd)') \in Int
    BY <1>1, <1>2 DEF CountInv, CountersAreInt, HitOf, Counter, CacheCounter, LogTypes, One
  <2>5. bus_trace'[c][cmd] \in Int
    BY <1>2, <2>3 DEF LogTypes
  <2> QED
    BY <2>1, <2>2, <2>4, <2>5 DEF Balanced
<1>5. CASE SimOtherPhase
  <2>1. UNCHANGED <<stats, completed, bus_trace>>
    BY <1>5 DEF SimOtherPhase, logs
  <2>2. Owes(c, cmd)' <=> Owes(c, cmd)
    BY <1>1, <1>2, <1>5, CachesKeepOwed
  <2> QED
    BY <2>1, <2>2 DEF Balanced, One
<1>6. ASSUME NEW d \in Core, SimCorePhase(d) PROVE Balanced(c, op)'
  <2>1. ~UNCHANGED vars
    BY <1>6 DEF SimCorePhase, AfterCore, GoTo, vars, loop, Core
  <2> QED
    BY <1>1, <1>6, <2>1, CoreKeepsBalance
<1>7. CASE UNCHANGED simVars
  BY <1>7 DEF simVars, vars, busVars, cacheVars, loop, logs, Balanced, Owes, InTrace, Completing,
     BeforeResponse, InCachePhases, RequestMatches, request, control, pending, delay, lines, One
<1> QED
  BY <1>3, <1>4, <1>5, <1>6, <1>7 DEF SimNext
LEMMA AccountHolds == SimSpec => []AccountInv
<1>1. SimInit => AccountInv
  BY AccountInit
<1> QED
  BY <1>1, AccountStep, PTL DEF SimSpec

(* Every load that completed hit, or asked for its block in one            *)
(* transaction that has its line of the trace, whatever the programs are,  *)
(* and whichever of the calls of a cycle comes next.                       *)
THEOREM ReadsBalanceHolds == SimSpec => []ReadsBalance
<1>1. ReadsBalance <=> \A c \in Core : Balanced(c, "lw")
  BY DEF ReadsBalance, Balanced, HitOf, CmdOf
<1>2. SimInit => ReadsBalance
  BY <1>1, AccountInit
<1>3. ASSUME AccountInv, ProtocolInvariant, ProtocolInvariant', [SimNext]_simVars, ReadsBalance
      PROVE  ReadsBalance'
  <2>1. \A c \in Core : Balanced(c, "lw")'
    BY <1>1, <1>3, BalanceStep
  <2> QED
    BY <2>1 DEF ReadsBalance, Balanced, HitOf, CmdOf
<1> QED
  BY <1>2, <1>3, AccountHolds, SimulatorIsCoherent, PTL DEF SimSpec

(* The same of the stores, when none of them is lost.                      *)
THEOREM WritesBalanceHolds == SimSpec /\ StoreIsInCache => []WritesBalance
<1>1. WritesBalance <=> \A c \in Core : Balanced(c, "sw")
  BY DEF WritesBalance, Balanced, HitOf, CmdOf
<1>2. SimInit => WritesBalance
  BY <1>1, AccountInit
<1>3. ASSUME AccountInv, ProtocolInvariant, ProtocolInvariant', [SimNext]_simVars,
             [StoreCompletes]_vars, WritesBalance
      PROVE  WritesBalance'
  <2>1. \A c \in Core : Balanced(c, "sw")'
    BY <1>1, <1>3, BalanceStep
  <2> QED
    BY <2>1 DEF WritesBalance, Balanced, HitOf, CmdOf
<1> QED
  BY <1>2, <1>3, AccountHolds, SimulatorIsCoherent, PTL DEF SimSpec, StoreIsInCache

(* When the loop has ended no access waits.                                *)
LEMMA NothingWaits ==
  ASSUME AccessIsHeld, ProtocolInvariant, LoopHasEnded, NEW c \in Core
  PROVE  access[c] = NoAccess /\ ~waiting_for_bus[c]
<1>1. access[c] = NoAccess
  BY DEF AccessIsHeld, IsAccess, LoopHasEnded, AllDone, Done, pipeline_is_empty
<1> QED
  BY <1>1 DEF ProtocolInvariant, AccessInv

(* The statistics, the bus trace and the programs agree when the loop has  *)
(* ended, for any programs that lose no store.                             *)
THEOREM StatsMatchTraceHolds == SimSpec /\ StoreIsInCache => []StatsMatchTrace
<1>1. ASSUME AccountInv, ProtocolInvariant, ReadsBalance, WritesBalance
      PROVE  StatsMatchTrace
  <2> SUFFICES ASSUME LoopHasEnded, NEW c \in Core
               PROVE  /\ stats[c]["read_hit"] + bus_trace[c]["BUS_RD"] = completed[c]["lw"]
                      /\ stats[c]["write_hit"] + bus_trace[c]["BUS_RDX"] = completed[c]["sw"]
    BY DEF StatsMatchTrace
  <2>1. \A cmd \in Transaction : One(Owes(c, cmd)) = 0
    BY <1>1, NothingWaits DEF AccountInv, CountInv, HeldInv, Owes, One
  <2>2. c \in Agent /\ {"BUS_RD", "BUS_RDX"} \subseteq BusCmd
    BY CoreIsAgent DEF BusCmd, Transaction
  <2>3. /\ stats[c]["read_hit"] \in Int /\ bus_trace[c]["BUS_RD"] \in Int
        /\ stats[c]["write_hit"] \in Int /\ bus_trace[c]["BUS_RDX"] \in Int
    BY <1>1, <2>2 DEF AccountInv, CountInv, CountersAreInt, Counter, CacheCounter, LogTypes
  <2> QED
    BY <1>1, <2>1, <2>3 DEF ReadsBalance, WritesBalance, Transaction
<1> QED
  BY <1>1, AccountHolds, SimulatorIsCoherent, ReadsBalanceHolds, WritesBalanceHolds, PTL

-----------------------------------------------------------------------------
(* What is under way when the loop ends.                                   *)

LEMMA HaltStopsFetching ==
  ASSUME NEW k, CoreShape(k), k.halted => k.pc = -1, NEW program, NEW loaded
  PROVE  /\ core_clock(k, program, loaded).halted => core_clock(k, program, loaded).pc = -1
         /\ handle_cache_miss(k).halted => handle_cache_miss(k).pc = -1
<1> DEFINE m == [k EXCEPT !.registers = core_writeback(k),
                          !.mem_wb = core_memory(k.ex_mem, loaded),
                          !.ex_mem = core_execute(k.id_ex)]
           i == k.if_id.instruction
           n == core_clock(k, program, loaded)
<1>1. DOMAIN m = Fields /\ m = [f \in Fields |-> m[f]] /\ m.halted = k.halted /\ m.pc = k.pc
  BY DEF CoreShape, Fields
<1> HIDE DEF m
<1>2. ASSUME NEW x, DOMAIN x = Fields, x = [f \in Fields |-> x[f]], NEW after,
             core_fetch(x, program, after).halted
      PROVE  core_fetch(x, program, after).pc = -1
  BY <1>2 DEF core_fetch, Fields
<1>3. CASE k.if_id = NOP
  <2> DEFINE x == [m EXCEPT !.id_ex = NOP]
  <2>1. n = core_fetch(x, program, k.pc + 1)
    BY <1>3 DEF core_clock, m, Stalls
  <2>2. DOMAIN x = Fields /\ x = [f \in Fields |-> x[f]]
    BY <1>1 DEF Fields
  <2> HIDE DEF x
  <2>3. n.halted => n.pc = -1
    BY <1>2, <2>1, <2>2
  <2>4. handle_cache_miss(k).halted => handle_cache_miss(k).pc = -1
    BY DEF handle_cache_miss, CoreShape, Fields
  <2> QED
    BY <2>3, <2>4
<1>4. CASE Stalls(k)
  <2>1. n = stall_pipeline(m)
    BY <1>4 DEF core_clock, m, Stalls
  <2>2. n.halted = k.halted /\ n.pc = k.pc
    BY <1>1, <2>1 DEF stall_pipeline, Fields
  <2>3. handle_cache_miss(k).halted => handle_cache_miss(k).pc = -1
    BY DEF handle_cache_miss, CoreShape, Fields
  <2> QED
    BY <2>2, <2>3
<1>5. CASE ~(k.if_id = NOP \/ Stalls(k))
  <2> DEFINE x == core_decode(k, i, m)
  <2>1. n = core_fetch(x, program, After(k, i))
    BY <1>5 DEF core_clock, m
  <2>2. DOMAIN x = Fields /\ x = [f \in Fields |-> x[f]]
    BY <1>1 DEF core_decode, Fields
  <2> HIDE DEF x
  <2>3. n.halted => n.pc = -1
    BY <1>2, <2>1, <2>2
  <2>4. handle_cache_miss(k).halted => handle_cache_miss(k).pc = -1
    BY DEF handle_cache_miss, CoreShape, Fields
  <2> QED
    BY <2>3, <2>4
<1> QED
  BY <1>3, <1>4, <1>5
LEMMA HaltedPcStep ==
  ASSUME HeldInv, HaltedPc, [SimNext]_simVars
  PROVE  HaltedPc'
<1>1. /\ cpu = [c \in Core |-> cpu[c]] /\ \A c \in Core : CoreShape(cpu[c])
  BY DEF HeldInv, CoresShape
<1>2. CASE UNCHANGED cpu
  BY <1>2 DEF HaltedPc
<1>3. ASSUME NEW c \in Core, SimCorePhase(c) PROVE HaltedPc'
  <2>1. ASSUME NEW n, cpu' = [cpu EXCEPT ![c] = n], n.halted => n.pc = -1 PROVE HaltedPc'
    BY <1>1, <2>1 DEF HaltedPc
  <2>2. cpu[c].halted => cpu[c].pc = -1
    BY DEF HaltedPc
  <2>3. CASE NoAccessCycle(c)
    <3> DEFINE n == core_clock(cpu[c], imem[c], 0)
    <3>1. cpu' = [cpu EXCEPT ![c] = n]
      BY <2>3 DEF NoAccessCycle
    <3>2. n.halted => n.pc = -1
      BY <1>1, <2>2, HaltStopsFetching
    <3> HIDE DEF n
    <3> QED
      BY <2>1, <3>1, <3>2
  <2>4. ASSUME NEW ready \in BOOLEAN, AccessCycle(c, ready) PROVE HaltedPc'
    <3> DEFINE a == core_clock(cpu[c], imem[c], retired'[c].data)
               b == handle_cache_miss(cpu[c])
    <3>1. cpu' = [cpu EXCEPT ![c] = IF ready THEN a ELSE b]
      BY <2>4 DEF AccessCycle
    <3>2. (a.halted => a.pc = -1) /\ (b.halted => b.pc = -1)
      BY <1>1, <2>2, HaltStopsFetching
    <3> HIDE DEF a, b
    <3> QED
      BY <2>1, <3>1, <3>2
  <2> QED
    BY <1>3, <2>3, <2>4 DEF SimCorePhase
<1>4. CASE SimBusPhase \/ SimEdgePhase \/ SimOtherPhase
  BY <1>2, <1>4 DEF SimBusPhase, SimEdgePhase, SimOtherPhase
<1> QED
  BY <1>2, <1>3, <1>4 DEF SimNext, simVars

LEMMA MemoryLineStep ==
  ASSUME TypeOK, FlushInvariant, MemoryLine, [Next]_vars
  PROVE  MemoryLine'
<1>1. /\ slot \in [Agent -> Request \cup {NoRequest}] /\ MAIN_MEMORY \in Agent
      /\ \A c \in Core : c # MAIN_MEMORY
  BY MemoryTypes
<1>2. ASSUME slot'[MAIN_MEMORY] \in {slot[MAIN_MEMORY], NoRequest}, phase' # "memory"
      PROVE  MemoryLine'
  BY <1>2 DEF MemoryLine, FlushPosted
<1>3. CASE MemoryPhase
  <2>1. phase = "memory" /\ phase' = "bus" /\ MemoryClock
    BY <1>3 DEF MemoryPhase, GoTo
  <2>2. CASE SendWord
    <3>1. slot'[MAIN_MEMORY].cmd = "BUS_FLUSH"
      BY <1>1, <2>2 DEF SendWord, BusRequest
    <3> QED
      BY <2>1, <3>1 DEF MemoryLine, FlushPosted
  <2>3. CASE ~SendWord
    <3>1. slot' = slot
      BY <2>1, <2>3 DEF MemoryClock, TakeFlushedWord, CountDown, StartResponse, MemoryIdle
    <3> QED
      BY <1>2, <2>1, <3>1
  <2> QED
    BY <2>2, <2>3
<1>4. CASE BusPhase
  <2>1. phase' = "snoop" /\ BusClock
    BY <1>4 DEF BusPhase, GoTo
  <2>2. slot'[MAIN_MEMORY] \in {slot[MAIN_MEMORY], NoRequest}
    BY <1>1, <2>1 DEF BusClock, DelayStep, GrantFlush, PutOnBus, GrantRequest, WaitForWord, GoIdle,
       busVars
  <2> QED
    BY <1>2, <2>1, <2>2
<1>5. CASE EdgePhase
  <2>1. phase = "edge" /\ slot' = slot
    BY <1>5 DEF EdgePhase, SharedEdge
  <2>2. slot[MAIN_MEMORY] = NoRequest
    BY <2>1 DEF FlushInvariant, MemoryWordInv, AtStart, MemoryLine
  <2> QED
    BY <2>1, <2>2 DEF MemoryLine
<1>6. ASSUME NEW c \in Core, SnoopPhase(c) \/ ResponsePhase(c) \/ ClockPhase(c) PROVE MemoryLine'
  <2>1. phase' # "memory" /\ slot'[MAIN_MEMORY] = slot[MAIN_MEMORY]
    BY <1>1, <1>6 DEF SnoopPhase, ResponsePhase, ClockPhase, GoTo, CacheSnoop,
       CacheHandleBusResponse, CacheClock, SendBlockWord, BusRequest
  <2> QED
    BY <1>2, <2>1
<1>7. ASSUME NEW c \in Core, CorePhase(c) PROVE MemoryLine'
  <2>1. phase' # "memory"
    BY <1>7 DEF CorePhase, AfterCore, GoTo
  <2>2. slot'[MAIN_MEMORY] = slot[MAIN_MEMORY]
    BY <1>1, <1>7 DEF CorePhase, NoMemoryAccess, MemoryAccess, Offer, CacheRead, CacheWrite, Refuse,
       ReadHit, ReadMiss, WriteHit, WriteUpgrade, WriteMiss, StartCleaning, ContinueCleaning,
       CleanWord, RequestBlock, BusRequest
  <2> QED
    BY <1>2, <2>1, <2>2
<1>8. CASE UNCHANGED vars
  BY <1>8 DEF vars, busVars, loop, MemoryLine, FlushPosted
<1> QED
  BY <1>3, <1>4, <1>5, <1>6, <1>7, <1>8 DEF Next, Tick
(* bus_clock: whoever is on the bus, or may get it, belongs to an access.  *)
LEMMA BusFlushIsHeld ==
  ASSUME TypeOK, ProtocolInvariant, FlushInvariant, BusPhase, CoreFlushOnBus'
  PROVE  \E c \in Core : access'[c] # NoAccess
<1>1. access' = access /\ BusClock
  BY DEF BusPhase, cores
<1>2. pending_origid \in Core /\ Core \subseteq Agent /\ slot \in [Agent -> Request \cup {NoRequest}]
  BY TypeOKParts, CoreIsAgent DEF BusTypeOK
<1>3. ASSUME NEW c \in Core, waiting_for_bus[c] PROVE \E d \in Core : access'[d] # NoAccess
  BY <1>1, <1>3 DEF ProtocolInvariant, AccessInv
<1>4. busy \/ delay_in_progress => waiting_for_bus[pending_origid]
  BY DEF ProtocolInvariant, BusyInv, DelayInv, RequestMatches
<1>5. CASE busy \/ delay_in_progress
  BY <1>2, <1>3, <1>4, <1>5
<1>6. CASE ~busy /\ ~delay_in_progress
  <2>1. ASSUME NEW a \in Agent, GrantFlush(a) PROVE \E d \in Core : access'[d] # NoAccess
    <3>1. bus_origid' = a /\ FlushPosted(a)
      BY <2>1 DEF GrantFlush, LowestFlush, FlushReady, FlushAllowed, PutOnBus, FlushPosted
    <3>2. a \in Core
      BY <3>1, BusAssumption DEF CoreFlushOnBus, Agent, Core, MAIN_MEMORY
    <3>3. MissesOther(a)
      BY <1>6, <3>1, <3>2 DEF FlushInvariant, PostedInv, PostedOf, Supplies
    <3> QED
      BY <1>1, <3>2, <3>3 DEF MissesOther
  <2>2. ASSUME NEW g \in Core, GrantRequest(g) PROVE \E d \in Core : access'[d] # NoAccess
    <3>1. waiting_for_bus[g]
      BY <2>2 DEF GrantRequest, Requesting, ProtocolInvariant, SlotInv, RequestMatches
    <3> QED
      BY <1>3, <3>1
  <2>3. ~GoIdle
    BY DEF GoIdle, CoreFlushOnBus
  <2> QED
    BY <1>1, <1>6, <2>1, <2>2, <2>3 DEF BusClock, DelayStep, WaitForWord
<1> QED
  BY <1>5, <1>6

LEMMA FlushIsHeldStep ==
  ASSUME HeldInv, ProtocolInvariant, FlushInvariant, FlushIsHeld, [SimNext]_simVars
  PROVE  FlushIsHeld'
<1>1. /\ TypeOK /\ cpu = [c \in Core |-> cpu[c]] /\ \A c \in Core : CoreShape(cpu[c])
  BY DEF HeldInv, CoresShape
<1>2. CASE SimBusPhase
  BY <1>1, <1>2, BusFlushIsHeld DEF SimBusPhase, FlushIsHeld
<1>3. ASSUME UNCHANGED <<bus_cmd, bus_origid, access, cpu>>, phase # "bus",
             \A c \in Core : AfterCoreOf(c) => AfterCoreOf(c)'
      PROVE  FlushIsHeld'
  BY <1>3 DEF FlushIsHeld, CoreFlushOnBus
<1>4. CASE SimEdgePhase
  <2>1. /\ UNCHANGED <<bus_cmd, bus_origid, access, cpu>> /\ phase = "edge" /\ phase' = "memory"
    BY <1>4 DEF SimEdgePhase, EdgePhase, SharedEdge, GoTo, lines, cores
  <2> QED
    BY <1>3, <2>1 DEF AfterCoreOf
<1>5. CASE SimOtherPhase
  <2>1. UNCHANGED <<bus_cmd, bus_origid, access, cpu>>
    BY <1>5 DEF SimOtherPhase, MemoryPhase, MemoryClock, SnoopPhase, ResponsePhase, ClockPhase,
       lines, cores
  <2>2. CASE MemoryPhase
    BY <2>2 DEF MemoryPhase, GoTo, FlushIsHeld
  <2>3. CASE ~MemoryPhase
    <3>1. phase \in {"snoop", "response", "clock"}
      BY <1>5, <2>3 DEF SimOtherPhase, SnoopPhase, ResponsePhase, ClockPhase
    <3> QED
      BY <1>3, <2>1, <3>1 DEF AfterCoreOf
  <2> QED
    BY <2>2, <2>3
<1>6. ASSUME NEW c \in Core, SimCorePhase(c) PROVE FlushIsHeld'
  <2>1. /\ UNCHANGED <<bus_cmd, bus_origid>> /\ phase = "core" /\ turn = c /\ AfterCore(c)
        /\ turn \in Core
    BY <1>6 DEF SimCorePhase, lines
  <2>2. AfterCoreOf(c)' /\ ~AfterCoreOf(c) /\ \A d \in Core : AfterCoreOf(d) => AfterCoreOf(d)'
    BY <2>1 DEF AfterCoreOf, AfterCore, GoTo, Core
  <2>3. \A d \in Core \ {c} : cpu'[d] = cpu[d] /\ access'[d] = access[d]
    BY <1>1, <1>6 DEF SimCorePhase, NoAccessCycle, NoMemoryAccess, AccessCycle, Offer, TypeOK
  <2>4. access[c] # NoAccess => access'[c] # NoAccess \/ cpu'[c].mem_wb # NOP
    <3> SUFFICES ASSUME access[c] # NoAccess
                 PROVE  access'[c] # NoAccess \/ cpu'[c].mem_wb # NOP
      OBVIOUS
    <3>1. PICK ready \in BOOLEAN : AccessCycle(c, ready)
      BY <1>6 DEF SimCorePhase, NoAccessCycle, NoMemoryAccess
    <3> DEFINE r == AccessIn(cpu[c].ex_mem)
               n == core_clock(cpu[c], imem[c], retired'[c].data)
    <3>2. /\ access' = [access EXCEPT ![c] = IF ready THEN NoAccess ELSE r]
          /\ cpu' = [cpu EXCEPT ![c] = IF ready THEN n ELSE handle_cache_miss(@)]
          /\ cpu[c].ex_mem # NOP /\ r.op \in {"lw", "sw"}
      BY <3>1 DEF AccessCycle, Offer, IsAccess, AccessIn
    <3>3. n.mem_wb # NOP
      BY <1>1, <3>2, ClockMoves, BubbleOrNot
    <3> HIDE DEF r, n
    <3>4. r # NoAccess
      BY <3>2 DEF NoAccess
    <3> QED
      BY <1>1, <3>2, <3>3, <3>4 DEF TypeOK
  <2> QED
    BY <2>1, <2>2, <2>3, <2>4 DEF FlushIsHeld, CoreFlushOnBus
<1>7. CASE UNCHANGED simVars
  BY <1>7 DEF simVars, vars, busVars, lines, loop, cores, FlushIsHeld, CoreFlushOnBus, AfterCoreOf
<1> QED
  BY <1>2, <1>4, <1>5, <1>6, <1>7 DEF SimNext

(* The program counter of a core that is done.                             *)
LEMMA DoneHasHalted ==
  ASSUME HeldInv, ProtocolInvariant, HaltedPc, LoopHasEnded
  PROVE  Shared!AllHalted
<1> SUFFICES ASSUME NEW c \in Core PROVE Oldest(c) \notin Pc
  BY DEF Shared!AllHalted, Shared!Pc, Pc
<1>1. /\ cpu[c].pc = -1
      /\ cpu[c].ex_mem = NOP /\ cpu[c].id_ex = NOP /\ cpu[c].if_id = NOP
  BY DEF LoopHasEnded, AllDone, Done, pipeline_is_empty, HaltedPc
<1> QED
  BY <1>1 DEF Oldest, InMem, Behind, Pc
LEMMA SavedInit == SimInit => SavedInv
  BY DEF SimInit, Init, BusInit, core_init, SavedInv, HaltedPc, MemoryLine, FlushIsHeld,
     CoreFlushOnBus

LEMMA SavedStep ==
  ASSUME HeldInv, ProtocolInvariant, FlushInvariant, SavedInv, [SimNext]_simVars
  PROVE  SavedInv'
<1>1. [Next]_vars /\ TypeOK
  BY SimStepIsNext DEF HeldInv
<1> QED
  BY <1>1, HaltedPcStep, MemoryLineStep, FlushIsHeldStep DEF SavedInv

(* What main saves when the loop ends is final, for any programs that lose *)
(* no store: no access, no request and no word is on its way.              *)
THEOREM SavedStateIsFinalHolds == SimSpec /\ StoreIsInCache => []SavedStateIsFinal
<1>1. ASSUME HeldInv, ProtocolInvariant, FlushInvariant, SavedInv PROVE SavedStateIsFinal
  <2> SUFFICES ASSUME LoopHasEnded
               PROVE  /\ Shared!AllHalted
                      /\ \A c \in Core : /\ access[c] = NoAccess /\ ~Blocked(c)
                                         /\ ~need_to_clean_first[c]
                      /\ ~busy /\ ~delay_in_progress /\ \A a \in Agent : slot[a] = NoRequest
                      /\ ~(bus_cmd = "BUS_FLUSH" /\ bus_origid # MAIN_MEMORY)
    BY DEF SavedStateIsFinal
  <2>1. Shared!AllHalted
    BY <1>1, DoneHasHalted DEF SavedInv
  <2>2. \A c \in Core : access[c] = NoAccess /\ ~waiting_for_bus[c]
    BY <1>1, NothingWaits DEF HeldInv
  <2>3. pending_origid \in Core /\ slot \in [Agent -> Request \cup {NoRequest}]
    BY <1>1, MemoryTypes DEF HeldInv
  <2>4. ~busy /\ ~delay_in_progress
    BY <1>1, <2>2, <2>3 DEF ProtocolInvariant, BusyInv, DelayInv, RequestMatches
  <2>5. \A c \in Core : ~sending_flush[c] /\ ~need_to_clean_first[c]
    BY <1>1, <2>2, <2>4 DEF ProtocolInvariant, SupplyInv, FlushInvariant, CleanInv, CleaningOf,
       MissesOther
  <2>6. ASSUME NEW a \in Agent PROVE slot[a] = NoRequest
    <3>1. CASE a = MAIN_MEMORY
      BY <1>1, <3>1 DEF SavedInv, MemoryLine, LoopHasEnded
    <3>2. CASE a # MAIN_MEMORY
      <4>1. a \in Core
        BY <3>2, BusAssumption DEF Core, Agent, MAIN_MEMORY
      <4>2. ~FlushPosted(a)
        BY <1>1, <2>2, <2>4, <4>1 DEF FlushInvariant, PostedInv, PostedOf, MissesOther, Supplies
      <4>3. slot[a].cmd \notin Transaction
        BY <1>1, <2>2, <4>1 DEF ProtocolInvariant, SlotInv, RequestMatches
      <4> QED
        BY <2>3, <4>2, <4>3 DEF Request, FlushPosted
    <3> QED
      BY <3>1, <3>2
  <2>7. ~(bus_cmd = "BUS_FLUSH" /\ bus_origid # MAIN_MEMORY)
    <3>1. \A c \in Core : cpu[c].mem_wb = NOP
      BY DEF LoopHasEnded, AllDone, Done, pipeline_is_empty
    <3> QED
      BY <1>1, <2>2, <3>1 DEF SavedInv, FlushIsHeld, CoreFlushOnBus, LoopHasEnded
  <2> QED
    BY <2>1, <2>2, <2>4, <2>5, <2>6, <2>7 DEF Blocked
<1>2. SimSpec => []HeldInv
  BY HeldInit, HeldStep, PTL DEF SimSpec
<1>3. SimSpec /\ StoreIsInCache => []FlushInvariant
  BY SimulatorImplementsMulticore, FlushInvariantHolds, PTL
<1> QED
  BY <1>1, <1>2, <1>3, SavedInit, SavedStep, SimulatorIsCoherent, PTL DEF SimSpec
-----------------------------------------------------------------------------
(* Run with programs that keep the write-backs of their cores apart, the   *)
(* whole simulator, pipelines included, uses its caches, its bus and its   *)
(* memory as one memory, and its statistics agree with its bus trace.      *)
THEOREM FittingSimulatorIsCoherent ==
  ASSUME WriteBacksApart
  PROVE  SimSpec => /\ ImplementsAtomicMemory
                    /\ [](DataInvariant /\ WritesBalance /\ StatsMatchTrace /\ SavedStateIsFinal)
BY SimulatorImplementsMulticore, LosslessHolds, FittingProgramsAreCoherent, WritesBalanceHolds,
   StatsMatchTraceHolds, SavedStateIsFinalHolds, PTL DEF Lossless
-----------------------------------------------------------------------------
(* The programs' meaning: what is in EX and MEM computes what it would     *)
(* compute if it were decoded now.                                         *)

LEMMA MissKeepsOrder ==
  ASSUME NEW p, NEW k, IsCore(k), InOrder(k, p)
  PROVE  LET n == handle_cache_miss(k)
         IN  /\ InOrder(n, p) /\ core_writeback(n) = core_writeback(k)
             /\ Behind(n) = Behind(k) /\ SecondBehind(n) = SecondBehind(k)
<1> DEFINE n == handle_cache_miss(k)
<1>1. /\ n.registers = core_writeback(k) /\ n.mem_wb = NOP /\ n.ex_mem = k.ex_mem
      /\ n.id_ex = k.id_ex /\ n.if_id = k.if_id /\ n.halted = k.halted /\ n.pc = k.pc
  BY MissFields
<1> HIDE DEF n
<1>2. core_writeback(n) = core_writeback(k)
  BY <1>1 DEF core_writeback
<1>3. Behind(n) = Behind(k) /\ SecondBehind(n) = SecondBehind(k)
  BY <1>1 DEF Behind, SecondBehind
<1>4. \A a, b : Now(n, a, b) = Now(k, a, b)
  BY <1>2 DEF Now
<1>5. \A a : ExecutedNow(n, p, a) = ExecutedNow(k, p, a)
  BY <1>4 DEF ExecutedNow
<1>6. \A a, b, c : GoesTo(n, p, a, b, c) <=> GoesTo(k, p, a, b, c)
  BY <1>4 DEF GoesTo
<1>7. InOrder(n, p)
  BY <1>1, <1>3, <1>5, <1>6 DEF InOrder
<1> QED
  BY <1>2, <1>3, <1>7 DEF n

(* Two states of a core in which i would do the same.                      *)
LEMMA SameNow ==
  ASSUME NEW p \in [Pc -> Instruction], NoJal(p), NEW j, NEW k, NEW a \in Pc,
         RegistersOK(core_writeback(j)), RegistersOK(core_writeback(k)),
         SameReads(p[a], core_writeback(j), core_writeback(k))
  PROVE  /\ ExecutedNow(j, p, a) = ExecutedNow(k, p, a)
         /\ \A b : After(Now(j, a, b), p[a]) = After(Now(k, a, b), p[a])
<1>1. p[a] \in Instruction /\ p[a].op # "jal"
  BY DEF NoJal
<1>2. ASSUME NEW b
      PROVE  /\ core_execute(Decoded(Now(j, a, b), p[a])) = core_execute(Decoded(Now(k, a, b), p[a]))
             /\ After(Now(j, a, b), p[a]) = After(Now(k, a, b), p[a])
  <2> DEFINE x == Now(j, a, b)
             y == Now(k, a, b)
  <2>1. /\ x.registers = core_writeback(j) /\ y.registers = core_writeback(k)
        /\ x.if_id.pc = a /\ y.if_id.pc = a /\ x.pc = b /\ y.pc = b
    BY DEF Now
  <2> HIDE DEF x, y
  <2>2. /\ core_execute(Decoded(x, p[a])) = core_execute(Decoded(y, p[a]))
        /\ After(x, p[a]) = After(y, p[a])
    BY <1>1, <2>1, SameExecution
  <2> QED
    BY <2>2 DEF x, y
<1> QED
  BY <1>2 DEF ExecutedNow

(* The registers after a cycle without a miss, and what it leaves of them. *)
LEMMA ClockWrites ==
  ASSUME NEW p \in [Pc -> Instruction], NoJal(p), NEW k, CoreInv(k, p), NEW loaded \in Uint
  PROVE  LET n == core_clock(k, p, loaded)
         IN  /\ RegistersOK(core_writeback(k)) /\ RegistersOK(core_writeback(n))
             /\ core_writeback(n) = Written(core_writeback(k), n.mem_wb)
             /\ n.mem_wb = core_memory(k.ex_mem, loaded) /\ WriteOK(n.mem_wb)
             /\ \A i \in Instruction : Fresh(i, k.ex_mem) =>
                  SameReads(i, core_writeback(k), core_writeback(n))
<1> DEFINE n == core_clock(k, p, loaded)
           w == core_memory(k.ex_mem, loaded)
<1>1. /\ IsCore(k) /\ k.ex_mem \in {NOP} \cup EX_MEM
      /\ k.if_id # NOP => k.if_id \in IF_ID /\ k.if_id.instruction = p[k.if_id.pc]
  BY DEF CoreInv, CoreTypeOK, IsCore
<1>2. /\ AfterStages(k, n, loaded)
      /\ k.if_id = NOP => Fetches(k, n, p)
      /\ Stalls(k) => Waits(k, n)
      /\ k.if_id # NOP /\ ~Stalls(k) => Decodes(k, n, p)
  BY <1>1, ClockFields
<1>3. n.mem_wb \in {NOP} \cup MEM_WB /\ Carries(n.mem_wb, p)
  BY StagesMove
<1> HIDE DEF n
<1>4. n.mem_wb = w
  BY <1>2 DEF AfterStages
<1>5. k.if_id # NOP => k.if_id.instruction.op # "jal"
  BY <1>1 DEF NoJal, IF_ID
<1>6. n.registers = core_writeback(k)
  BY <1>2, <1>5 DEF Fetches, Waits, Decodes
<1>7. core_writeback(n) = Written(core_writeback(k), n.mem_wb)
  BY <1>6, WritebackIs
<1>8. RegistersOK(core_writeback(k)) /\ WriteOK(n.mem_wb)
  BY <1>3, WritebackOK, StageWrites
<1>9. RegistersOK(core_writeback(n))
  BY <1>7, <1>8, WrittenOK
<1>10. /\ w = NOP <=> k.ex_mem = NOP
       /\ k.ex_mem # NOP => w.rd = k.ex_mem.rd /\ w.write_reg = k.ex_mem.write_reg
  BY <1>1, MemoryStage
<1> HIDE DEF w
<1>11. ASSUME NEW i \in Instruction, Fresh(i, k.ex_mem)
       PROVE  SameReads(i, core_writeback(k), core_writeback(n))
  <2>1. Fresh(i, n.mem_wb)
    BY <1>4, <1>10, <1>11 DEF Fresh
  <2> QED
    BY <1>7, <1>8, <2>1, FreshReads
<1> QED
  BY <1>4, <1>7, <1>8, <1>9, <1>11 DEF n, w
(* The instructions move on in their order.                                *)
LEMMA ClockQueue ==
  ASSUME NEW p \in [Pc -> Instruction], NEW k, CoreInv(k, p), InOrder(k, p),
         NEW loaded \in Uint
  PROVE  LET n == core_clock(k, p, loaded)
         IN  /\ (IF n.ex_mem # NOP THEN n.ex_mem.pc ELSE Behind(n)) = Behind(k)
             /\ ~Ends(p, Behind(k)) =>
                  (IF n.ex_mem # NOP THEN Behind(n) ELSE SecondBehind(n)) = SecondBehind(k)
<1> DEFINE n == core_clock(k, p, loaded)
           i == k.if_id.instruction
<1>1. /\ IsCore(k) /\ k.halted \in BOOLEAN
      /\ k.halted => k.if_id = NOP /\ k.pc = -1
      /\ k.if_id = NOP /\ ~k.halted => k.id_ex = NOP /\ k.pc = 0
      /\ k.if_id # NOP => k.if_id \in IF_ID /\ i = p[k.if_id.pc]
  BY DEF CoreInv, CoreTypeOK, IsCore, core_init
<1>2. /\ k.if_id = NOP => Fetches(k, n, p)
      /\ Stalls(k) => Waits(k, n)
      /\ k.if_id # NOP /\ ~Stalls(k) => Decodes(k, n, p)
  BY <1>1, ClockFields
<1>3. /\ n.ex_mem = NOP <=> k.id_ex = NOP
      /\ k.id_ex # NOP => n.ex_mem.pc = k.id_ex.pc
  BY StagesMove
<1> HIDE DEF n
<1>4. CASE k.if_id = NOP
  <2>1. /\ n.id_ex = NOP /\ n.halted = k.halted
        /\ n.if_id = IF k.halted THEN NOP ELSE Fetched(k, p)
        /\ n.pc = IF k.halted THEN -1 ELSE k.pc + 1
    BY <1>2, <1>4 DEF Fetches
  <2>2. Fetched(k, p) # NOP /\ Fetched(k, p).pc = k.pc
    BY DEF Fetched, NOP
  <2> QED
    BY <1>1, <1>3, <1>4, <2>1, <2>2 DEF n, Behind, SecondBehind
<1>5. CASE Stalls(k)
  <2>1. n.id_ex = NOP /\ n.if_id = k.if_id /\ n.pc = k.pc /\ k.if_id # NOP
    BY <1>2, <1>5 DEF Waits, Stalls
  <2> QED
    BY <1>3, <2>1 DEF n, Behind, SecondBehind
<1>6. CASE k.if_id # NOP /\ ~Stalls(k)
  <2>1. /\ n.id_ex = Decoded(k, i)
        /\ n.halted = (k.halted \/ i.op = "halt")
        /\ n.if_id = IF n.halted THEN NOP ELSE Fetched(k, p)
        /\ n.pc = IF n.halted THEN -1 ELSE After(k, i)
    BY <1>2, <1>6 DEF Decodes
  <2>2. Fetched(k, p) # NOP /\ Fetched(k, p).pc = k.pc
    BY DEF Fetched, NOP
  <2>3. Decoded(k, i) # NOP /\ Decoded(k, i).pc = k.if_id.pc
    <3>1. "rd" \in DOMAIN Decoded(k, i) /\ "rd" \notin DOMAIN NOP
      BY DEF Decoded, NOP
    <3>2. Decoded(k, i).pc = k.if_id.pc
      BY DEF Decoded
    <3> QED
      BY <3>1, <3>2
  <2>4. ~k.halted /\ k.if_id.pc \in Pc /\ (i.op = "halt" => Ends(p, k.if_id.pc))
    BY <1>1, <1>6 DEF IF_ID, Ends
  <2> QED
    BY <1>3, <1>6, <2>1, <2>2, <2>3, <2>4 DEF n, Behind, SecondBehind
<1> QED
  BY <1>4, <1>5, <1>6
(* What ID forwards is what it would forward after the cycle as well: the  *)
(* hazard check has kept it from reading what is still to be written.      *)
LEMMA DecodedIsNow ==
  ASSUME NEW p \in [Pc -> Instruction], NoJal(p), Protected(p), NEW k, CoreInv(k, p),
         NEW loaded \in Uint, k.if_id # NOP, ~Stalls(k)
  PROVE  LET n == core_clock(k, p, loaded)
             a == k.if_id.pc
             i == k.if_id.instruction
         IN  /\ core_execute(Decoded(k, i)) = ExecutedNow(n, p, a)
             /\ After(k, i) = After(Now(n, a, k.pc), p[a])
             /\ Fresh(p[a], n.ex_mem)
<1> DEFINE n == core_clock(k, p, loaded)
           a == k.if_id.pc
           i == k.if_id.instruction
<1>1. /\ i = p[a] /\ a \in Pc /\ i \in Instruction /\ i.op # "jal"
      /\ RegistersOK(k.registers) /\ Carries(k.mem_wb, p) /\ k.mem_wb \in {NOP} \cup MEM_WB
  BY DEF CoreInv, CoreTypeOK, IF_ID, NoJal, RegistersOK
<1>2. Fresh(i, k.mem_wb) /\ Fresh(i, k.ex_mem) /\ Fresh(i, k.id_ex)
  BY DecodesFresh
<1>3. /\ RegistersOK(core_writeback(n))
      /\ SameReads(i, core_writeback(k), core_writeback(n))
  BY <1>1, <1>2, ClockWrites
<1>4. SameReads(i, k.registers, core_writeback(k))
  BY <1>1, <1>2, FreshReads, StageWrites, WritebackIs
<1>5. SameReads(i, k.registers, core_writeback(n))
  BY <1>3, <1>4 DEF SameReads
<1>6. ASSUME NEW b
      PROVE  /\ core_execute(Decoded(k, i)) = core_execute(Decoded(Now(n, a, b), i))
             /\ b = k.pc => After(k, i) = After(Now(n, a, b), i)
  <2> DEFINE x == Now(n, a, b)
  <2>1. x.registers = core_writeback(n) /\ x.if_id.pc = a /\ x.pc = b
    BY DEF Now
  <2> HIDE DEF x, n
  <2>2. /\ core_execute(Decoded(k, i)) = core_execute(Decoded(x, i))
        /\ b = k.pc => After(k, i) = After(x, i)
    BY <1>1, <1>3, <1>5, <2>1, SameExecution
  <2> QED
    BY <2>2 DEF x
<1>7. Fresh(i, n.ex_mem)
  <2>1. /\ AfterStages(k, n, loaded) /\ k.id_ex \in {NOP} \cup ID_EX
    BY ClockFields DEF CoreInv, CoreTypeOK, IsCore
  <2>2. n.ex_mem = core_execute(k.id_ex)
    BY <2>1 DEF AfterStages
  <2>3. /\ n.ex_mem = NOP <=> k.id_ex = NOP
        /\ k.id_ex # NOP => n.ex_mem.rd = k.id_ex.rd /\ n.ex_mem.write_reg = k.id_ex.write_reg
    BY <2>1, <2>2, ExecuteStage
  <2> QED
    BY <1>2, <2>3 DEF Fresh
<1> QED
  BY <1>1, <1>6, <1>7 DEF ExecutedNow

LEMMA ClockKeepsOrder ==
  ASSUME NEW p \in [Pc -> Instruction], NoJal(p), Protected(p), NEW k, CoreInv(k, p),
         InOrder(k, p), NEW loaded \in Uint
  PROVE  InOrder(core_clock(k, p, loaded), p)
<1> DEFINE n == core_clock(k, p, loaded)
           i == k.if_id.instruction
           a == k.id_ex.pc
           d == k.if_id.pc
<1>1. /\ IsCore(k) /\ k.halted \in BOOLEAN /\ k.id_ex \in {NOP} \cup ID_EX
      /\ k.halted => k.if_id = NOP
      /\ k.if_id = NOP /\ ~k.halted => k.id_ex = NOP
      /\ k.if_id # NOP => k.if_id \in IF_ID /\ i = p[d]
  BY DEF CoreInv, CoreTypeOK, IsCore, core_init
<1>2. /\ k.if_id = NOP => Fetches(k, n, p)
      /\ Stalls(k) => Waits(k, n)
      /\ k.if_id # NOP /\ ~Stalls(k) => Decodes(k, n, p)
      /\ n.ex_mem = core_execute(k.id_ex)
  BY <1>1, ClockFields DEF AfterStages
<1>3. /\ n.ex_mem = NOP <=> k.id_ex = NOP
      /\ k.id_ex # NOP => n.ex_mem.pc = a
  BY StagesMove
<1>4. /\ (IF n.ex_mem # NOP THEN n.ex_mem.pc ELSE Behind(n)) = Behind(k)
      /\ ~Ends(p, Behind(k)) =>
           (IF n.ex_mem # NOP THEN Behind(n) ELSE SecondBehind(n)) = SecondBehind(k)
  BY ClockQueue
<1>5. Fetched(k, p) # NOP /\ Fetched(k, p).pc = k.pc
  BY DEF Fetched, NOP
<1>6. k.id_ex # NOP =>
        /\ core_execute(k.id_ex) = ExecutedNow(k, p, a) /\ a \in Pc
        /\ k.if_id # NOP => GoesTo(k, p, a, d, k.pc)
        /\ p[a].op = "halt" <=> k.halted
        /\ Fresh(p[a], k.ex_mem)
  BY <1>1 DEF InOrder, ID_EX
<1>7. k.id_ex # NOP => /\ ExecutedNow(k, p, a) = ExecutedNow(n, p, a)
                       /\ \A b : After(Now(k, a, b), p[a]) = After(Now(n, a, b), p[a])
  BY <1>6, ClockWrites, SameNow
<1>8. k.if_id # NOP /\ ~Stalls(k) =>
        /\ core_execute(Decoded(k, i)) = ExecutedNow(n, p, d)
        /\ After(k, i) = After(Now(n, d, k.pc), p[d])
        /\ Fresh(p[d], n.ex_mem)
  BY DecodedIsNow
<1>9. k.if_id # NOP => d \in Pc
  BY <1>1 DEF IF_ID
<1> HIDE DEF n, a, d, i
<1>10. Stalls(k) => k.if_id # NOP
  BY DEF Stalls
<1>11. ASSUME n.ex_mem # NOP
       PROVE  /\ n.ex_mem = ExecutedNow(n, p, n.ex_mem.pc)
              /\ GoesTo(n, p, n.ex_mem.pc, Behind(n), SecondBehind(n))
              /\ p[n.ex_mem.pc].op = "halt" => n.halted /\ n.id_ex = NOP
  <2>1. k.id_ex # NOP /\ n.ex_mem.pc = a
    BY <1>3, <1>11
  <2>2. n.ex_mem = ExecutedNow(n, p, a)
    BY <1>2, <1>6, <1>7, <2>1
  <2>3. p[a].op = "halt" => n.halted /\ n.id_ex = NOP
    BY <1>1, <1>2, <1>6, <2>1 DEF Fetches
  <2>4. ASSUME ~Ends(p, a), ~Ends(p, Behind(n))
        PROVE  SecondBehind(n) = After(Now(n, a, Behind(n)), p[a])
    <3>1. k.if_id # NOP /\ ~k.halted
      BY <1>1, <1>6, <2>1, <2>4 DEF Ends
    <3>2. Behind(k) = a /\ SecondBehind(k) = d
      BY <2>1, <3>1 DEF Behind, SecondBehind, a, d
    <3>3. Behind(n) = d
      BY <1>4, <1>11, <2>4, <3>2
    <3>4. k.pc = After(Now(n, a, d), p[a])
      BY <1>6, <1>7, <2>1, <2>4, <3>1, <3>3 DEF GoesTo
    <3>5. CASE Stalls(k)
      <4>1. n.id_ex = NOP /\ n.if_id = k.if_id /\ n.pc = k.pc
        BY <1>2, <3>5 DEF Waits
      <4> QED
        BY <3>1, <3>3, <3>4, <4>1 DEF SecondBehind
    <3>6. CASE ~Stalls(k)
      <4>1. i.op # "halt"
        BY <1>1, <2>4, <3>1, <3>3 DEF Ends
      <4>2. n.id_ex = Decoded(k, i) /\ n.if_id = Fetched(k, p)
        BY <1>2, <3>1, <3>6, <4>1 DEF Decodes, i
      <4>3. n.id_ex # NOP
        <5>1. "rd" \in DOMAIN Decoded(k, i) /\ "rd" \notin DOMAIN NOP
          BY DEF Decoded, NOP
        <5> QED
          BY <4>2, <5>1
      <4> QED
        BY <1>5, <3>3, <3>4, <4>2, <4>3 DEF SecondBehind
    <3> QED
      BY <3>5, <3>6
  <2> QED
    BY <2>1, <2>2, <2>3, <2>4 DEF GoesTo
<1>12. ASSUME n.id_ex # NOP
       PROVE  /\ core_execute(n.id_ex) = ExecutedNow(n, p, n.id_ex.pc)
              /\ n.if_id # NOP => GoesTo(n, p, n.id_ex.pc, n.if_id.pc, n.pc)
              /\ p[n.id_ex.pc].op = "halt" <=> n.halted
              /\ Fresh(p[n.id_ex.pc], n.ex_mem)
  <2>1. k.if_id # NOP /\ ~Stalls(k)
    BY <1>2, <1>12 DEF Fetches, Waits
  <2>2. /\ n.id_ex = Decoded(k, i) /\ ~k.halted
        /\ n.halted = (k.halted \/ i.op = "halt")
        /\ n.if_id = IF n.halted THEN NOP ELSE Fetched(k, p)
        /\ n.pc = IF n.halted THEN -1 ELSE After(k, i)
    BY <1>1, <1>2, <2>1 DEF Decodes, i
  <2>3. n.id_ex.pc = d
    BY <2>2 DEF Decoded, d
  <2>4. i = p[d]
    BY <1>1, <2>1
  <2>5. n.if_id # NOP => n.if_id.pc = k.pc /\ n.pc = After(k, i)
    BY <1>5, <2>2
  <2> QED
    BY <1>8, <2>1, <2>2, <2>3, <2>4, <2>5 DEF GoesTo
<1> QED
  BY <1>11, <1>12 DEF InOrder, n
-----------------------------------------------------------------------------
(* The cores' cycles in the whole program: with a miss or without one.     *)

Clocked(c, loaded) == cpu' = [cpu EXCEPT ![c] = core_clock(cpu[c], imem[c], loaded)]

Missed(c) ==
  /\ cpu' = [cpu EXCEPT ![c] = handle_cache_miss(cpu[c])]
  /\ IsAccess(cpu[c].ex_mem) /\ access'[c] # NoAccess

LEMMA CoreCycle ==
  ASSUME TypeOK, TypeOK', NEW c \in Core, SimCorePhase(c)
  PROVE  /\ imem' = imem
         /\ \/ NoAccessCycle(c) /\ Clocked(c, 0)
            \/ Missed(c) /\ AccessCycle(c, FALSE)
            \/ /\ AccessCycle(c, TRUE) /\ Clocked(c, retired'[c].data)
               /\ retired'[c].data \in Uint
<1>1. imem' = imem
  BY DEF SimCorePhase
<1>2. retired'[c].data \in Uint /\ access \in [Core -> Access]
  BY TypeOKParts, SimulatorAssumption DEF TypeOK, Access
<1>3. CASE NoAccessCycle(c)
  BY <1>1, <1>3 DEF NoAccessCycle, Clocked
<1>4. CASE AccessCycle(c, TRUE)
  BY <1>1, <1>2, <1>4 DEF AccessCycle, Clocked
<1>5. CASE AccessCycle(c, FALSE)
  <2>1. access'[c] = AccessIn(cpu[c].ex_mem)
    BY <1>2, <1>5 DEF AccessCycle, Offer
  <2>2. access'[c].op # "nop"
    BY <2>1 DEF AccessIn
  <2>3. access'[c] # NoAccess
    BY <2>2 DEF NoAccess
  <2>4. IsAccess(cpu[c].ex_mem) /\ cpu' = [cpu EXCEPT ![c] = handle_cache_miss(cpu[c])]
    BY <1>5 DEF AccessCycle
  <2> QED
    BY <1>1, <1>5, <2>3, <2>4 DEF Missed
<1> QED
  BY <1>3, <1>4, <1>5 DEF SimCorePhase

LEMMA CoresInit ==
  ASSUME SimInit
  PROVE  CoresInv
<1>1. \A c \in Core : cpu[c] = core_init
  BY DEF SimInit
<1>2. \A p : InOrder(core_init, p)
  BY DEF InOrder, core_init
<1> QED
  BY <1>1, <1>2, CoreInvInit DEF SimInit, CoresInv, AllInOrder

LEMMA CoresStay ==
  ASSUME ProgramsProtected, HeldInv, TypeOK', CoresInv, NEW c \in Core, SimCorePhase(c)
  PROVE  CoresInv'
<1> DEFINE k == cpu[c]
           p == imem[c]
<1>1. /\ imem' = imem /\ p \in [Pc -> Instruction] /\ Protected(p) /\ NoJal(p) /\ StaysInside(p)
      /\ cpu = [d \in Core |-> cpu[d]]
  BY SimulatorAssumption DEF CoresInv, ProgramsProtected, SimCorePhase, Protected, HeldInv, CoresShape
<1>2. CoreInv(k, p) /\ InOrder(k, p) /\ IsCore(k)
  BY DEF CoresInv, AllInOrder, CoreInv, CoreTypeOK, IsCore
<1>3. ASSUME NEW n, cpu' = [cpu EXCEPT ![c] = n], CoreInv(n, p), InOrder(n, p)
      PROVE  CoresInv'
  BY <1>1, <1>3 DEF CoresInv, AllInOrder
<1>4. ASSUME NEW loaded \in Uint, Clocked(c, loaded) PROVE CoresInv'
  <2>1. CoreInv(core_clock(k, p, loaded), p) /\ InOrder(core_clock(k, p, loaded), p)
    BY <1>1, <1>2, ClockKeepsCoreInv, ClockKeepsOrder
  <2> QED
    BY <1>3, <1>4, <2>1 DEF Clocked
<1>5. CASE Missed(c)
  <2>1. k.ex_mem # NOP
    BY <1>5 DEF Missed, IsAccess
  <2>2. CoreInv(handle_cache_miss(k), p) /\ InOrder(handle_cache_miss(k), p)
    BY <1>1, <1>2, <2>1, MissKeepsCoreInv, MissKeepsOrder
  <2> QED
    BY <1>3, <1>5, <2>2 DEF Missed
<1>6. 0 \in Uint
  BY Numbers
<1> QED
  BY <1>4, <1>5, <1>6, CoreCycle DEF HeldInv

LEMMA CoresStep ==
  ProgramsProtected =>
    (HeldInv /\ TypeOK' /\ CoresInv /\ [SimNext]_simVars => CoresInv')
<1> SUFFICES ASSUME ProgramsProtected, HeldInv, TypeOK', CoresInv, [SimNext]_simVars
             PROVE  CoresInv'
  OBVIOUS
<1>1. CASE UNCHANGED <<imem, cpu>>
  BY <1>1 DEF CoresInv, AllInOrder
<1>2. CASE SimBusPhase \/ SimEdgePhase \/ SimOtherPhase
  BY <1>1, <1>2 DEF SimBusPhase, SimEdgePhase, SimOtherPhase
<1>3. CASE UNCHANGED simVars
  BY <1>1, <1>3 DEF simVars
<1> QED
  BY <1>2, <1>3, CoresStay DEF SimNext

(* What a core has in EX and MEM it computes as if it were decoded now,    *)
(* and its branches there have led to where they would lead now.           *)
THEOREM AllInOrderHolds ==
  ASSUME ProgramsProtected
  PROVE  SimSpec => []AllInOrder
<1>1. SimInit => CoresInv
  BY CoresInit
<1>2. HeldInv /\ HeldInv' /\ CoresInv /\ [SimNext]_simVars => CoresInv'
  BY CoresStep DEF HeldInv
<1>3. CoresInv => AllInOrder
  BY DEF CoresInv
<1> QED
  BY <1>1, <1>2, <1>3, HeldInit, HeldStep, PTL DEF SimSpec
-----------------------------------------------------------------------------
(* The simulator implements the machine on one memory: an instruction      *)
(* takes effect when it leaves MEM, a store that missed when its block     *)
(* comes; every other step is a stutter.                                   *)

Regs(c) == core_writeback(cpu[c])
NextPc(c) == IF Ends(imem[c], Oldest(c)) THEN -1 ELSE Second(c)

(* The shared machine has the same instruction set.                        *)
LEMMA SharedIsa ==
  /\ Shared!Pc = Pc /\ Shared!Register = Register
  /\ Shared!AluOp = AluOp /\ Shared!BranchOp = BranchOp /\ Shared!Instruction = Instruction
  /\ \A i : Shared!immediate(i) = immediate(i)
  /\ \A a : Shared!wrap(a) = wrap(a) /\ Shared!target(a) = target(a)
  /\ \A op, a, b : Shared!alu_execute(op, a, b) = alu_execute(op, a, b)
  /\ \A op, a, b : Shared!evaluate_branch(op, a, b) = evaluate_branch(op, a, b)
  /\ \A r, x, v : Shared!SetRegister(r, x, v) = SetRegister(r, x, v)
<1>1. /\ Shared!Pc = Pc /\ Shared!Register = Register
      /\ Shared!AluOp = AluOp /\ Shared!BranchOp = BranchOp
  BY DEF Shared!Pc, Pc, Shared!Register, Register, Shared!AluOp, AluOp, Shared!BranchOp, BranchOp
<1>2. Shared!Instruction = Instruction
  BY <1>1 DEF Shared!Instruction, Instruction, Shared!Opcode, Opcode
<1>3. \A a : Shared!wrap(a) = wrap(a) /\ Shared!target(a) = target(a)
  BY DEF Shared!wrap, wrap, Shared!target, target
<1>4. \A i : Shared!immediate(i) = immediate(i)
  BY <1>3 DEF Shared!immediate, immediate
<1>5. \A a : Shared!signed(a) = signed(a)
  BY DEF Shared!signed, signed
<1>6. \A a : Shared!bits(a) = bits(a)
  BY DEF Shared!bits, bits
<1>7. Shared!Uint = Uint
  BY DEF Shared!Uint, Uint
<1>8. \A B : Shared!word(B) = word(B)
  BY <1>6, <1>7 DEF Shared!word, word
<1>9. ASSUME NEW op, NEW a, NEW b PROVE Shared!alu_execute(op, a, b) = alu_execute(op, a, b)
  BY <1>3, <1>5, <1>6, <1>8 DEF Shared!alu_execute, alu_execute
<1>10. ASSUME NEW op, NEW a, NEW b
       PROVE  Shared!evaluate_branch(op, a, b) = evaluate_branch(op, a, b)
  BY <1>5 DEF Shared!evaluate_branch, evaluate_branch
<1>11. ASSUME NEW r, NEW x, NEW v PROVE Shared!SetRegister(r, x, v) = SetRegister(r, x, v)
  BY DEF Shared!SetRegister, SetRegister
<1> QED
  BY <1>1, <1>2, <1>3, <1>4, <1>9, <1>10, <1>11

LEMMA SharedStutters ==
  ASSUME imem' = imem, Memory' = Memory,
         \A c \in Core : /\ Regs(c)' = Regs(c)
                         /\ Oldest(c)' = Oldest(c) /\ NextPc(c)' = NextPc(c)
  PROVE  UNCHANGED Shared!seqVars
  BY DEF Shared!seqVars, Regs, NextPc, Memory

(* Only core c moves.                                                      *)
OthersStay(c) ==
  /\ imem' = imem
  /\ \A d \in Core \ {c} : /\ Regs(d)' = Regs(d)
                           /\ Oldest(d)' = Oldest(d) /\ NextPc(d)' = NextPc(d)

LEMMA SharedGoesOn ==
  ASSUME NEW c \in Core, OthersStay(c), Oldest(c)' = NextPc(c), NEW after,
         NextPc(c)' = IF Ends(imem[c], NextPc(c)) THEN -1 ELSE after
  PROVE  Shared!GoOn(c, after)
<1> DEFINE old == [d \in Core |-> Oldest(d)]
           next == [d \in Core |-> NextPc(d)]
<1>1. old' = [old EXCEPT ![c] = next[c]]
  BY DEF OthersStay
<1>2. Shared!Following(c, NextPc(c), after) = NextPc(c)'
  BY SharedIsa DEF Shared!Following, Shared!IsHalt, Ends
<1>3. next' = [next EXCEPT ![c] = Shared!Following(c, next[c], after)]
  BY <1>2 DEF OthersStay
<1>4. imem' = imem
  BY DEF OthersStay
<1> QED
  BY <1>1, <1>3, <1>4 DEF Shared!GoOn, NextPc

(* The registers of the shared machine, by their names here.               *)
LEMMA SharedState ==
  ASSUME NEW c \in Core
  PROVE  /\ \A i, r : Shared!R(c, i, r) = IF r = 1 THEN immediate(i) ELSE Regs(c)[r]
         /\ \A i : Shared!MemAddr(c, i) = wrap(Shared!R(c, i, i.rs) + Shared!R(c, i, i.rt))
         /\ \A r, v : (OthersStay(c) /\ Regs(c)' = SetRegister(Regs(c), r, v)) => Shared!Set(c, r, v)
         /\ (OthersStay(c) /\ Regs(c)' = Regs(c)) =>
              UNCHANGED [d \in Core |-> core_writeback(cpu[d])]
<1>1. \A i, r : Shared!R(c, i, r) = IF r = 1 THEN immediate(i) ELSE Regs(c)[r]
  BY SharedIsa DEF Shared!R, Regs
<1>2. \A i : Shared!MemAddr(c, i) = wrap(Shared!R(c, i, i.rs) + Shared!R(c, i, i.rt))
  BY SharedIsa DEF Shared!MemAddr
<1>3. ASSUME NEW r, NEW v, OthersStay(c), Regs(c)' = SetRegister(Regs(c), r, v)
      PROVE  Shared!Set(c, r, v)
  <2> DEFINE all == [d \in Core |-> Regs(d)]
  <2>1. all' = [all EXCEPT ![c] = SetRegister(@, r, v)]
    BY <1>3 DEF OthersStay
  <2> QED
    BY <2>1, SharedIsa DEF Shared!Set, Regs
<1>4. (OthersStay(c) /\ Regs(c)' = Regs(c)) => UNCHANGED [d \in Core |-> core_writeback(cpu[d])]
  BY DEF OthersStay, Regs
<1> QED
  BY <1>1, <1>2, <1>3, <1>4
(* An instruction that takes effect is a step of the shared machine.       *)
TakesEffect(c, loaded, after) ==
  LET p == imem[c]
      a == Oldest(c)
      x == ExecutedNow(cpu[c], p, a)
  IN  /\ OthersStay(c) /\ a \in Pc
      /\ Oldest(c)' = NextPc(c)
      /\ NextPc(c)' = IF Ends(p, NextPc(c)) THEN -1 ELSE after
      /\ GoesTo(cpu[c], p, a, NextPc(c), after)
      /\ Regs(c)' = Written(Regs(c), core_memory(x, loaded))
      /\ p[a].op = "lw" => loaded = Memory[x.mem_addr]
      /\ Memory' = IF p[a].op = "sw" THEN [Memory EXCEPT ![x.mem_addr] = x.rd] ELSE Memory

LEMMA SharedSteps ==
  ASSUME NEW c \in Core, imem[c] \in [Pc -> Instruction], NoJal(imem[c]),
         NEW loaded, NEW after, TakesEffect(c, loaded, after)
  PROVE  Shared!Step(c)
<1> DEFINE p == imem[c]
           a == Oldest(c)
           i == p[a]
           x == ExecutedNow(cpu[c], p, a)
           w == core_memory(x, loaded)
           s == Shared!R(c, i, i.rs)
           t == Shared!R(c, i, i.rt)
           d == Shared!R(c, i, i.rd)
           I == Shared!Compute(c, i) \/ Shared!Load(c, i) \/ Shared!Store(c, i) \/ Shared!Branch(c, i)
                \/ Shared!Jump(c, i) \/ Shared!NoOperation(c, i) \/ Shared!Halt(c, i)
<1>1. /\ OthersStay(c) /\ a \in Pc /\ i \in Instruction /\ i.op # "jal" /\ i.op \in Opcode
      /\ Oldest(c)' = NextPc(c)
      /\ NextPc(c)' = IF Ends(p, NextPc(c)) THEN -1 ELSE after
      /\ GoesTo(cpu[c], p, a, NextPc(c), after)
      /\ Regs(c)' = Written(Regs(c), w)
      /\ i.op = "lw" => loaded = Memory[x.mem_addr]
      /\ Memory' = IF i.op = "sw" THEN [Memory EXCEPT ![x.mem_addr] = x.rd] ELSE Memory
  BY DEF TakesEffect, NoJal, Instruction
<1>2. \A b, r : Operand(Now(cpu[c], a, b), i, r) = Shared!R(c, i, r)
  BY SharedState DEF Operand, Now, Regs
<1>3. /\ x # NOP /\ x.is_mem_read = (i.op = "lw") /\ x.write_reg = write_reg(i.op)
      /\ x.rd = IF i.op = "sw" THEN d ELSE i.rd
      /\ x.alu_result = Result(i.op, s, t) /\ x.mem_addr = Result(i.op, s, t)
  BY <1>2, ExecutedFields DEF ExecutedNow
<1>4. \A n : (i.op # "halt" => n = After(Now(cpu[c], a, NextPc(c)), i)) => Shared!GoOn(c, n)
  <2> SUFFICES ASSUME NEW n, i.op # "halt" => n = After(Now(cpu[c], a, NextPc(c)), i)
               PROVE  Shared!GoOn(c, n)
    OBVIOUS
  <2>1. i.op = "halt" => NextPc(c) = -1
    BY DEF NextPc, Ends
  <2>2. NextPc(c)' = IF Ends(p, NextPc(c)) THEN -1 ELSE n
    BY <1>1, <2>1 DEF GoesTo, Ends, Pc
  <2> QED
    BY <1>1, <2>2, SharedGoesOn
<1>5. /\ Shared!MemAddr(c, i) = wrap(s + t)
      /\ \A r, v : Regs(c)' = SetRegister(Regs(c), r, v) => Shared!Set(c, r, v)
      /\ Regs(c)' = Regs(c) => UNCHANGED [e \in Core |-> core_writeback(cpu[e])]
  BY <1>1, SharedState
<1> HIDE DEF x, s, t, d
<1>6. /\ w # NOP /\ w.rd = x.rd /\ w.write_reg = x.write_reg
      /\ w.write_data = IF x.is_mem_read THEN loaded ELSE x.alu_result
  <2>1. w = [pc |-> x.pc, write_data |-> IF x.is_mem_read THEN loaded ELSE x.alu_result,
             rd |-> x.rd, write_reg |-> x.write_reg]
    BY <1>3 DEF core_memory
  <2>2. "rd" \in DOMAIN w /\ "rd" \notin DOMAIN NOP
    BY <2>1 DEF NOP
  <2> QED
    BY <2>1, <2>2
<1> HIDE DEF w
<1>7. Regs(c)' = IF write_reg(i.op) THEN SetRegister(Regs(c), x.rd, w.write_data) ELSE Regs(c)
  BY <1>1, <1>3, <1>6 DEF Written
<1>8. i.op \notin BranchOp \cup {"halt"} => Shared!GoOn(c, NextPc(c) + 1)
  BY <1>1, <1>4 DEF After, Now
<1>9. /\ [e \in Core |-> IF Ends(imem[e], Oldest(e)) THEN -1 ELSE Second(e)][c] = NextPc(c)
      /\ Memory = [e \in Addr |-> Current(e)] /\ Memory' = [e \in Addr |-> Current(e)]'
  BY DEF NextPc, Memory
<1> HIDE DEF i
<1>10. ASSUME i.op \in AluOp PROVE Shared!Compute(c, i)
  <2>1. i.op \notin BranchOp \cup {"jal", "halt", "nop", "sw", "lw"} /\ write_reg(i.op)
    BY <1>10 DEF AluOp, BranchOp, write_reg
  <2>2. Regs(c)' = SetRegister(Regs(c), i.rd, alu_execute(i.op, s, t))
    BY <1>3, <1>6, <1>7, <1>10, <2>1 DEF Result
  <2>3. Memory' = Memory /\ Shared!GoOn(c, NextPc(c) + 1)
    BY <1>1, <1>8, <2>1
  <2>4. Shared!Set(c, i.rd, Shared!alu_execute(i.op, s, t))
    BY <1>5, <2>2, SharedIsa
  <2> QED
    BY <1>9, <1>10, <2>3, <2>4, SharedIsa DEF Shared!Compute, s, t
<1>11. ASSUME i.op = "lw" PROVE Shared!Load(c, i)
  <2>1. i.op \notin BranchOp \cup AluOp \cup {"jal", "halt", "nop", "sw"} /\ write_reg(i.op)
    BY <1>11 DEF AluOp, BranchOp, write_reg
  <2>2. Regs(c)' = SetRegister(Regs(c), i.rd, Memory[wrap(s + t)])
    BY <1>1, <1>3, <1>6, <1>7, <1>11, <2>1 DEF Result
  <2>3. Memory' = Memory /\ Shared!GoOn(c, NextPc(c) + 1)
    BY <1>1, <1>8, <2>1
  <2>4. Shared!Set(c, i.rd, Memory[Shared!MemAddr(c, i)])
    BY <1>5, <2>2
  <2> QED
    BY <1>9, <1>11, <2>3, <2>4 DEF Shared!Load
<1>12. ASSUME i.op = "sw" PROVE Shared!Store(c, i)
  <2>1. i.op \notin BranchOp \cup AluOp \cup {"jal", "halt", "nop", "lw"} /\ ~write_reg(i.op)
    BY <1>12 DEF AluOp, BranchOp, write_reg
  <2>2. Memory' = [Memory EXCEPT ![Shared!MemAddr(c, i)] = d]
    BY <1>1, <1>3, <1>5, <1>12, <2>1 DEF Result
  <2>3. Regs(c)' = Regs(c) /\ Shared!GoOn(c, NextPc(c) + 1)
    BY <1>7, <1>8, <2>1, <1>12
  <2> QED
    BY <1>5, <1>9, <1>12, <2>2, <2>3 DEF Shared!Store, d
<1>13. ASSUME i.op \in BranchOp PROVE Shared!Branch(c, i)
  <2>1. i.op \notin AluOp \cup {"jal", "halt", "nop", "sw", "lw"} /\ ~write_reg(i.op)
    BY <1>13 DEF BranchOp, AluOp, write_reg
  <2>2. Regs(c)' = Regs(c) /\ Memory' = Memory
    BY <1>1, <1>7, <2>1
  <2>3. Shared!GoOn(c, After(Now(cpu[c], a, NextPc(c)), i))
    BY <1>4, <2>1 DEF i
  <2>4. After(Now(cpu[c], a, NextPc(c)), i)
          = IF evaluate_branch(i.op, s, t) THEN target(d) ELSE NextPc(c) + 1
    <3>1. /\ Operand(Now(cpu[c], a, NextPc(c)), i, i.rs) = s
          /\ Operand(Now(cpu[c], a, NextPc(c)), i, i.rt) = t
          /\ Operand(Now(cpu[c], a, NextPc(c)), i, i.rd) = d
          /\ Now(cpu[c], a, NextPc(c)).pc = NextPc(c)
      BY <1>2 DEF s, t, d, i, Now
    <3> QED
      BY <1>13, <2>1, <3>1 DEF After
  <2>5. Shared!GoOn(c, IF evaluate_branch(i.op, s, t) THEN target(d) ELSE NextPc(c) + 1)
    BY <2>3, <2>4
  <2> QED
    BY <1>5, <1>9, <1>13, <2>2, <2>5, SharedIsa DEF Shared!Branch, s, t, d
<1>14. ASSUME i.op = "nop" PROVE Shared!NoOperation(c, i)
  <2>1. i.op \notin BranchOp \cup AluOp \cup {"jal", "halt", "sw", "lw"} /\ ~write_reg(i.op)
    BY <1>14 DEF BranchOp, AluOp, write_reg
  <2>2. Regs(c)' = Regs(c) /\ Memory' = Memory /\ Shared!GoOn(c, NextPc(c) + 1)
    BY <1>1, <1>7, <1>8, <2>1
  <2> QED
    BY <1>5, <1>9, <1>14, <2>2 DEF Shared!NoOperation
<1>15. ASSUME i.op = "halt" PROVE Shared!Halt(c, i)
  <2>1. i.op \notin AluOp \cup {"jal", "sw", "lw"} /\ ~write_reg(i.op)
    BY <1>15 DEF AluOp, write_reg
  <2>2. Regs(c)' = Regs(c) /\ Memory' = Memory /\ Shared!GoOn(c, -1)
    BY <1>1, <1>4, <1>7, <1>15, <2>1 DEF i
  <2> QED
    BY <1>5, <1>9, <1>15, <2>2 DEF Shared!Halt
<1>16. I
  BY <1>1, <1>10, <1>11, <1>12, <1>13, <1>14, <1>15 DEF Opcode
<1> QED
  BY <1>1, <1>16, SharedIsa DEF Shared!Step, i
-----------------------------------------------------------------------------
(* What follows in core c when the instruction in MEM is out of it.        *)
Follows(c) == IF Ends(imem[c], Behind(cpu[c])) THEN -1 ELSE SecondBehind(cpu[c])

LEMMA OnlyCoreMoves ==
  ASSUME CoresShape, NEW c \in Core, NEW n, cpu' = [cpu EXCEPT ![c] = n], imem' = imem,
         \A d \in Core \ {c} : Performed(d)' <=> Performed(d)
  PROVE  OthersStay(c) /\ cpu'[c] = n
  BY DEF CoresShape, OthersStay, Regs, Oldest, NextPc, Second, InMem

LEMMA NothingInMem ==
  ASSUME NEW c \in Core, ~InMem(c)
  PROVE  Oldest(c) = Behind(cpu[c]) /\ NextPc(c) = Follows(c)
  BY DEF Oldest, Second, NextPc, Follows

LEMMA HeldInMem ==
  ASSUME CoresInv, NEW c \in Core, InMem(c)
  PROVE  LET k == cpu[c]
             p == imem[c]
             a == Oldest(c)
         IN  /\ a = k.ex_mem.pc /\ a \in Pc /\ NextPc(c) = Behind(k)
             /\ k.ex_mem = ExecutedNow(k, p, a)
             /\ GoesTo(k, p, a, Behind(k), SecondBehind(k))
             /\ k.ex_mem.is_mem_read = (p[a].op = "lw")
             /\ k.ex_mem.is_mem_write = (p[a].op = "sw")
<1> DEFINE k == cpu[c]
           p == imem[c]
           a == Oldest(c)
<1>1. CoreInv(k, p) /\ InOrder(k, p) /\ k.ex_mem # NOP
  BY DEF CoresInv, AllInOrder, InMem
<1>2. a = k.ex_mem.pc /\ Second(c) = Behind(k)
  BY DEF Oldest, Second
<1>3. a \in Pc
  BY <1>1, <1>2 DEF CoreInv, CoreTypeOK, EX_MEM
<1>4. /\ k.ex_mem = ExecutedNow(k, p, a) /\ GoesTo(k, p, a, Behind(k), SecondBehind(k))
      /\ p[a].op = "halt" => k.halted /\ k.id_ex = NOP
  BY <1>1, <1>2 DEF InOrder
<1>5. p[a].op = "halt" => Behind(k) = -1
  BY <1>1, <1>4 DEF CoreInv, CoreTypeOK, Behind
<1>6. NextPc(c) = Behind(k)
  BY <1>2, <1>3, <1>5 DEF NextPc, Ends
<1>7. k.ex_mem.is_mem_read = (p[a].op = "lw") /\ k.ex_mem.is_mem_write = (p[a].op = "sw")
  BY <1>4, ExecutedFields DEF ExecutedNow
<1> QED
  BY <1>2, <1>3, <1>4, <1>6, <1>7

(* A cycle of core c without a miss.                                       *)
LEMMA ClockedOn ==
  ASSUME ProgramsProtected, CoresShape, CoresInv, NEW c \in Core, imem' = imem,
         NEW loaded \in Uint, Clocked(c, loaded), ~Performed(c)',
         \A d \in Core \ {c} : Performed(d)' <=> Performed(d)
  PROVE  /\ OthersStay(c) /\ Oldest(c)' = Behind(cpu[c]) /\ NextPc(c)' = Follows(c)
         /\ Regs(c)' = Written(Regs(c), core_memory(cpu[c].ex_mem, loaded))
<1> DEFINE k == cpu[c]
           p == imem[c]
           n == core_clock(k, p, loaded)
<1>1. CoreInv(k, p) /\ InOrder(k, p) /\ p \in [Pc -> Instruction] /\ NoJal(p)
  BY SimulatorAssumption DEF CoresInv, AllInOrder, ProgramsProtected
<1>2. OthersStay(c) /\ cpu'[c] = n
  BY OnlyCoreMoves DEF Clocked
<1>3. Regs(c)' = Written(Regs(c), core_memory(k.ex_mem, loaded))
  BY <1>1, <1>2, ClockWrites DEF Regs
<1>4. /\ (IF n.ex_mem # NOP THEN n.ex_mem.pc ELSE Behind(n)) = Behind(k)
      /\ ~Ends(p, Behind(k)) =>
           (IF n.ex_mem # NOP THEN Behind(n) ELSE SecondBehind(n)) = SecondBehind(k)
  BY <1>1, ClockQueue
<1> HIDE DEF n
<1>5. /\ Oldest(c)' = IF n.ex_mem # NOP THEN n.ex_mem.pc ELSE Behind(n)
      /\ Second(c)' = IF n.ex_mem # NOP THEN Behind(n) ELSE SecondBehind(n)
  BY <1>2 DEF Oldest, Second, InMem
<1>6. Oldest(c)' = Behind(k) /\ (~Ends(p, Behind(k)) => Second(c)' = SecondBehind(k))
  BY <1>4, <1>5
<1>7. NextPc(c)' = Follows(c)
  BY <1>6 DEF NextPc, Follows
<1> QED
  BY <1>2, <1>3, <1>6, <1>7

LEMMA StutterOrStep ==
  ASSUME NEW c \in Core, OthersStay(c), Memory' = Memory,
         Regs(c)' = Regs(c), Oldest(c)' = Oldest(c), NextPc(c)' = NextPc(c)
  PROVE  UNCHANGED Shared!seqVars
  BY SharedStutters DEF OthersStay

(* An instruction that is no load or store leaves MEM, or none.            *)
LEMMA NoAccessImplements ==
  ASSUME ProgramsProtected, CoresShape, CoresInv, NEW c \in Core, imem' = imem, Clocked(c, 0),
         ~IsAccess(cpu[c].ex_mem), Memory' = Memory, ~Performed(c), ~Performed(c)',
         \A d \in Core \ {c} : Performed(d)' <=> Performed(d)
  PROVE  Shared!Step(c) \/ UNCHANGED Shared!seqVars
<1> DEFINE k == cpu[c]
           p == imem[c]
<1>1. /\ OthersStay(c) /\ Oldest(c)' = Behind(k) /\ NextPc(c)' = Follows(c)
      /\ Regs(c)' = Written(Regs(c), core_memory(k.ex_mem, 0))
  BY ClockedOn, Numbers
<1>2. CASE k.ex_mem = NOP
  <2>1. Oldest(c) = Behind(k) /\ NextPc(c) = Follows(c)
    BY <1>2, NothingInMem DEF InMem
  <2>2. Regs(c)' = Regs(c)
    BY <1>1, <1>2 DEF Written, core_memory
  <2> QED
    BY <1>1, <2>1, <2>2, StutterOrStep
<1>3. CASE k.ex_mem # NOP
  <2> DEFINE a == Oldest(c)
  <2>1. InMem(c)
    BY <1>3 DEF InMem
  <2>2. /\ a \in Pc /\ NextPc(c) = Behind(k) /\ k.ex_mem = ExecutedNow(k, p, a)
        /\ GoesTo(k, p, a, Behind(k), SecondBehind(k))
        /\ p[a].op # "lw" /\ p[a].op # "sw"
    BY <1>3, <2>1, HeldInMem DEF IsAccess
  <2>3. TakesEffect(c, 0, SecondBehind(k))
    BY <1>1, <2>2 DEF TakesEffect, Follows
  <2>4. p \in [Pc -> Instruction] /\ NoJal(p)
    BY SimulatorAssumption DEF CoresInv, ProgramsProtected
  <2> QED
    BY <2>3, <2>4, SharedSteps
<1> QED
  BY <1>2, <1>3
(* A load or store leaves MEM: its effect, unless the fill had performed   *)
(* the store.                                                              *)
LEMMA AccessImplements ==
  ASSUME ProgramsProtected, CoresShape, CoresInv, AccessIsHeld, NEW c \in Core, imem' = imem,
         NEW loaded \in Uint, Clocked(c, loaded), IsAccess(cpu[c].ex_mem), ~Performed(c)',
         \A d \in Core \ {c} : Performed(d)' <=> Performed(d),
         LET r == AccessIn(cpu[c].ex_mem)
         IN  /\ r.op = "lw" => loaded = Memory[r.addr] /\ Memory' = Memory
             /\ r.op = "sw" => /\ Memory' = [Memory EXCEPT ![r.addr] = r.data]
                               /\ Performed(c) => Memory' = Memory
  PROVE  Shared!Step(c) \/ UNCHANGED Shared!seqVars
<1> DEFINE k == cpu[c]
           p == imem[c]
           a == Oldest(c)
<1>1. /\ OthersStay(c) /\ Oldest(c)' = Behind(k) /\ NextPc(c)' = Follows(c)
      /\ Regs(c)' = Written(Regs(c), core_memory(k.ex_mem, loaded))
  BY ClockedOn
<1>2. k.ex_mem # NOP /\ (k.ex_mem.is_mem_read \/ k.ex_mem.is_mem_write)
  BY DEF IsAccess
<1>3. CASE Performed(c)
  <2>1. Oldest(c) = Behind(k) /\ NextPc(c) = Follows(c)
    BY <1>3, NothingInMem DEF InMem
  <2>2. access[c] = AccessIn(k.ex_mem) /\ AccessIn(k.ex_mem).op = "sw"
    <3>1. access[c].op = "sw"
      BY <1>3 DEF Performed
    <3>2. access[c] # NoAccess
      BY <3>1 DEF NoAccess
    <3> QED
      BY <3>1, <3>2 DEF AccessIsHeld
  <2>3. ~k.ex_mem.is_mem_read /\ k.ex_mem.is_mem_write
    BY <1>2, <2>2 DEF AccessIn
  <2>4. ~k.ex_mem.write_reg
    <3>1. InOrder(k, p)
      BY DEF CoresInv, AllInOrder
    <3>2. k.ex_mem = ExecutedNow(k, p, k.ex_mem.pc)
      BY <1>2, <3>1 DEF InOrder
    <3>3. /\ k.ex_mem.is_mem_write = (p[k.ex_mem.pc].op = "sw")
          /\ k.ex_mem.write_reg = write_reg(p[k.ex_mem.pc].op)
      BY <3>2, ExecutedFields DEF ExecutedNow
    <3> QED
      BY <2>3, <3>3 DEF write_reg, AluOp
  <2>5. Regs(c)' = Regs(c)
    BY <1>1, <1>2, <2>4 DEF Written, core_memory
  <2> QED
    BY <1>1, <1>3, <2>1, <2>2, <2>5, StutterOrStep
<1>4. CASE ~Performed(c)
  <2>1. InMem(c)
    BY <1>2, <1>4 DEF InMem
  <2>2. /\ a \in Pc /\ NextPc(c) = Behind(k) /\ k.ex_mem = ExecutedNow(k, p, a)
        /\ GoesTo(k, p, a, Behind(k), SecondBehind(k))
        /\ k.ex_mem.is_mem_read = (p[a].op = "lw") /\ k.ex_mem.is_mem_write = (p[a].op = "sw")
    BY <2>1, HeldInMem
  <2>3. p[a].op = "lw" =>
          AccessIn(k.ex_mem).op = "lw" /\ AccessIn(k.ex_mem).addr = k.ex_mem.mem_addr
    BY <2>2 DEF AccessIn
  <2>4. p[a].op # "lw" =>
          /\ p[a].op = "sw" /\ AccessIn(k.ex_mem).op = "sw"
          /\ AccessIn(k.ex_mem).addr = k.ex_mem.mem_addr /\ AccessIn(k.ex_mem).data = k.ex_mem.rd
    BY <1>2, <2>2 DEF AccessIn
  <2>5. TakesEffect(c, loaded, SecondBehind(k))
    BY <1>1, <2>2, <2>3, <2>4 DEF TakesEffect, Follows
  <2>6. p \in [Pc -> Instruction] /\ NoJal(p)
    BY SimulatorAssumption DEF CoresInv, ProgramsProtected
  <2> QED
    BY <2>5, <2>6, SharedSteps
<1> QED
  BY <1>3, <1>4

LEMMA MissImplements ==
  ASSUME CoresShape, CoresInv, NEW c \in Core, imem' = imem, Missed(c), Memory' = Memory,
         \A d \in Core : Performed(d)' <=> Performed(d)
  PROVE  UNCHANGED Shared!seqVars
<1> DEFINE k == cpu[c]
           n == handle_cache_miss(k)
<1>1. OthersStay(c) /\ cpu'[c] = n
  BY OnlyCoreMoves DEF Missed
<1>2. IsCore(k) /\ InOrder(k, imem[c])
  BY DEF CoresInv, AllInOrder, CoreInv, CoreTypeOK, IsCore
<1>3. /\ core_writeback(n) = core_writeback(k) /\ n.ex_mem = k.ex_mem
      /\ Behind(n) = Behind(k) /\ SecondBehind(n) = SecondBehind(k)
  BY <1>2, MissKeepsOrder, MissFields
<1> HIDE DEF n
<1>4. /\ Regs(c)' = core_writeback(n)
      /\ Oldest(c)' = IF n.ex_mem # NOP /\ ~Performed(c)' THEN n.ex_mem.pc ELSE Behind(n)
      /\ Second(c)' = IF n.ex_mem # NOP /\ ~Performed(c)' THEN Behind(n) ELSE SecondBehind(n)
  BY <1>1 DEF Regs, Oldest, Second, InMem
<1>5. Regs(c)' = Regs(c) /\ Oldest(c)' = Oldest(c) /\ Second(c)' = Second(c)
  BY <1>3, <1>4 DEF Regs, Oldest, Second, InMem
<1>6. NextPc(c)' = NextPc(c)
  BY <1>5 DEF NextPc
<1> QED
  BY <1>1, <1>5, <1>6, StutterOrStep

(* The fill of a block performs the store that waits for it.               *)
LEMMA FillImplements ==
  ASSUME ProgramsProtected, CoresShape, CoresInv, AccessIsHeld, NEW c \in Core,
         imem' = imem, cpu' = cpu, access[c].op = "sw", ~Performed(c), Performed(c)',
         \A d \in Core \ {c} : Performed(d)' <=> Performed(d),
         Memory' = [Memory EXCEPT ![access[c].addr] = access[c].data]
  PROVE  Shared!Step(c)
<1> DEFINE k == cpu[c]
           p == imem[c]
           a == Oldest(c)
<1>1. OthersStay(c)
  BY DEF OthersStay, Regs, Oldest, NextPc, Second, InMem
<1>2. /\ k.ex_mem # NOP /\ access[c] = AccessIn(k.ex_mem)
      /\ k.ex_mem.is_mem_read \/ k.ex_mem.is_mem_write
  <2>1. access[c] # NoAccess
    BY DEF NoAccess
  <2> QED
    BY <2>1 DEF AccessIsHeld, IsAccess
<1>3. ~k.ex_mem.is_mem_read /\ k.ex_mem.is_mem_write
  BY <1>2 DEF AccessIn
<1>4. InMem(c)
  BY <1>2 DEF InMem
<1>5. /\ a \in Pc /\ NextPc(c) = Behind(k) /\ k.ex_mem = ExecutedNow(k, p, a)
      /\ GoesTo(k, p, a, Behind(k), SecondBehind(k))
      /\ p[a].op = "sw"
  BY <1>3, <1>4, HeldInMem
<1>6. access[c].addr = k.ex_mem.mem_addr /\ access[c].data = k.ex_mem.rd
  BY <1>2, <1>3 DEF AccessIn
<1>7. Oldest(c)' = Behind(k) /\ Second(c)' = SecondBehind(k)
  BY DEF Oldest, Second, InMem
<1>8. NextPc(c)' = Follows(c)
  BY <1>7 DEF NextPc, Follows
<1>9. Regs(c)' = Regs(c)
  BY DEF Regs
<1>10. ~k.ex_mem.write_reg
  <2>1. k.ex_mem.write_reg = write_reg(p[a].op)
    BY <1>5, ExecutedFields DEF ExecutedNow
  <2> QED
    BY <1>5, <2>1 DEF write_reg, AluOp
<1>11. Regs(c)' = Written(Regs(c), core_memory(k.ex_mem, 0))
  BY <1>2, <1>9, <1>10 DEF Written, core_memory
<1>12. TakesEffect(c, 0, SecondBehind(k))
  BY <1>1, <1>5, <1>6, <1>7, <1>8, <1>11 DEF TakesEffect, Follows
<1>13. p \in [Pc -> Instruction] /\ NoJal(p)
  BY SimulatorAssumption DEF CoresInv, ProgramsProtected
<1> QED
  BY <1>12, <1>13, SharedSteps
-----------------------------------------------------------------------------
LEMMA AccessesAreTyped == \A c \in Core : AccessOf(c) \subseteq Access
<1>1. 0 \in Word
  BY Numbers, SimulatorAssumption
<1> QED
  BY <1>1, ProgramAssumption DEF AccessOf, LoadOf, StoreOf, Access

LEMMA CoreImplements ==
  ASSUME ProgramsProtected, HeldInv, TypeOK', CoresInv, MemorySteps, NEW c \in Core, SimCorePhase(c)
  PROVE  Shared!Step(c) \/ UNCHANGED Shared!seqVars
<1>1. PICK m, n : m = Memory /\ n = Memory' /\ AtomicStep(m, n)
  BY DEF MemorySteps
<1>2. WaitStep(c, m, n) \/ \E r \in Offered(c) : LeaveStep(c, r, m, n)
  BY <1>1 DEF AtomicStep, SimCorePhase
<1>t. /\ m = [a \in Addr |-> m[a]] /\ n = [a \in Addr |-> n[a]]
      /\ access \in [Core -> Access] /\ retired \in [Core -> Access]
      /\ imem' = imem /\ CoresShape /\ AccessIsHeld
      /\ \A d \in Core : StorePerformed(d) = Performed(d) /\ StorePerformed(d)' = Performed(d)'
  BY <1>1, TypeOKParts DEF Memory, HeldInv, CoresTypeOK, SimCorePhase, StorePerformed, Performed
<1>3. ASSUME retired'[c] = NoAccess
      PROVE  Memory' = Memory /\ \A d \in Core : Performed(d)' <=> Performed(d)
  <2>1. ASSUME NEW r \in Offered(c), LeaveStep(c, r, m, n) PROVE FALSE
    <3>1. r \in Access /\ retired'[c] \in {r, [r EXCEPT !.data = m[r.addr]]}
      <4>1. r \in Access
        BY <1>t, AccessesAreTyped DEF Offered
      <4> QED
        BY <1>t, <2>1, <4>1 DEF LeaveStep
    <3>2. retired'[c].op = r.op /\ r.op \in {"lw", "sw"}
      BY <2>1, <3>1 DEF LeaveStep, Access
    <3> QED
      BY <1>3, <3>2 DEF NoAccess
  <2>2. WaitStep(c, m, n)
    BY <1>2, <2>1
  <2>3. n = m
    BY <1>t, <2>2 DEF WaitStep, Same
  <2> QED
    BY <1>1, <1>t, <2>2, <2>3 DEF WaitStep
<1>4. CASE NoAccessCycle(c) /\ Clocked(c, 0)
  <2>1. access[c] = NoAccess /\ access' = access /\ retired'[c] = NoAccess /\ ~IsAccess(cpu[c].ex_mem)
    BY <1>4, <1>t DEF NoAccessCycle, NoMemoryAccess
  <2>2. ~Performed(c)
    BY <2>1 DEF Performed, NoAccess
  <2> QED
    BY <1>3, <1>4, <1>t, <2>1, <2>2, NoAccessImplements
<1>5. CASE Missed(c) /\ AccessCycle(c, FALSE)
  <2>1. retired'[c] = NoAccess
    BY <1>5, <1>t DEF AccessCycle, Offer
  <2> QED
    BY <1>3, <1>5, <1>t, <2>1, MissImplements
<1>6. CASE AccessCycle(c, TRUE) /\ Clocked(c, retired'[c].data) /\ retired'[c].data \in Uint
  <2> DEFINE q == AccessIn(cpu[c].ex_mem)
  <2>1. /\ IsAccess(cpu[c].ex_mem) /\ access'[c] = NoAccess
        /\ retired'[c] = IF q.op = "sw" THEN q ELSE [q EXCEPT !.data = dsram[c][line(q.addr)]]
    BY <1>6, <1>t DEF AccessCycle, Offer
  <2>2. /\ q.op \in {"lw", "sw"} /\ retired'[c].op = q.op /\ retired'[c].addr = q.addr
        /\ q.op = "sw" => retired'[c].data = q.data
    <3>1. q = [op |-> q.op, addr |-> q.addr, data |-> q.data] /\ q.op \in {"lw", "sw"}
      BY DEF AccessIn
    <3> HIDE DEF q
    <3> QED
      BY <2>1, <3>1
  <2> HIDE DEF q
  <2>3. PICK r \in Offered(c) : LeaveStep(c, r, m, n)
    <3>1. retired'[c].op # NoAccess.op
      BY <2>2 DEF NoAccess
    <3>2. ~WaitStep(c, m, n)
      BY <1>t, <3>1 DEF WaitStep
    <3> QED
      BY <1>2, <3>2
  <2>4. r \in Access
    BY <1>t, AccessesAreTyped DEF Offered
  <2>5. /\ r.op = q.op /\ r.addr = q.addr /\ (q.op = "sw" => r.data = q.data)
        /\ q.op = "lw" => retired'[c].data = m[q.addr]
    <3>1. retired'[c] = IF r.op = "lw" THEN [r EXCEPT !.data = m[r.addr]] ELSE r
      BY <1>t, <2>3 DEF LeaveStep
    <3> QED
      BY <2>2, <2>4, <3>1 DEF Access
  <2>6. q.op = "lw" => n = m
    BY <1>t, <2>3, <2>5 DEF LeaveStep, Same
  <2>7. q.op = "sw" => n = [m EXCEPT ![q.addr] = q.data] /\ (Performed(c) => n = m)
    <3>1. ASSUME q.op = "sw" PROVE n = [m EXCEPT ![q.addr] = q.data] /\ (Performed(c) => n = m)
      <4>1. /\ \A a \in Addr : n[a] = IF a = q.addr THEN q.data ELSE m[a]
            /\ Performed(c) => m[q.addr] = q.data
        BY <1>t, <2>3, <2>5, <3>1 DEF LeaveStep, Stored
      <4> QED
        BY <1>t, <4>1
    <3> QED
      BY <3>1
  <2>8. ~Performed(c)' /\ \A d \in Core \ {c} : Performed(d)' <=> Performed(d)
    BY <1>t, <2>3 DEF LeaveStep
  <2>9. PICK loaded : loaded = retired'[c].data
    OBVIOUS
  <2>10. loaded \in Uint /\ Clocked(c, loaded)
    BY <1>6, <2>9
  <2>11. /\ q.op = "lw" => loaded = Memory[q.addr] /\ Memory' = Memory
         /\ q.op = "sw" => /\ Memory' = [Memory EXCEPT ![q.addr] = q.data]
                           /\ Performed(c) => Memory' = Memory
    BY <1>1, <2>5, <2>6, <2>7, <2>9
  <2> QED
    BY <1>t, <2>1, <2>8, <2>10, <2>11, AccessImplements DEF q
<1> QED
  BY <1>4, <1>5, <1>6, CoreCycle DEF HeldInv

LEMMA OtherImplements ==
  ASSUME ProgramsProtected, HeldInv, CoresInv, MemorySteps, phase # "core", imem' = imem, cpu' = cpu
  PROVE  (\E c \in Core : Shared!Step(c)) \/ UNCHANGED Shared!seqVars
<1>1. PICK m, n : m = Memory /\ n = Memory' /\ AtomicStep(m, n)
  BY DEF MemorySteps
<1>2. SilentStep(m, n) \/ \E c \in Core : PerformStep(c, m, n)
  BY <1>1 DEF AtomicStep
<1>t. /\ m = [a \in Addr |-> m[a]] /\ n = [a \in Addr |-> n[a]] /\ CoresShape /\ AccessIsHeld
      /\ \A d \in Core : StorePerformed(d) = Performed(d) /\ StorePerformed(d)' = Performed(d)'
  BY <1>1 DEF Memory, HeldInv, StorePerformed, Performed
<1>3. CASE SilentStep(m, n)
  <2>1. n = m /\ \A d \in Core : Performed(d)' <=> Performed(d)
    BY <1>3, <1>t DEF SilentStep, Same
  <2>2. \A d \in Core : /\ Regs(d)' = Regs(d)
                        /\ Oldest(d)' = Oldest(d) /\ NextPc(d)' = NextPc(d)
    BY <2>1 DEF Regs, Oldest, NextPc, Second, InMem
  <2> QED
    BY <1>1, <2>1, <2>2, SharedStutters
<1>4. ASSUME NEW c \in Core, PerformStep(c, m, n) PROVE Shared!Step(c)
  <2>1. /\ access[c].op = "sw" /\ ~Performed(c) /\ Performed(c)'
        /\ \A d \in Core \ {c} : Performed(d)' <=> Performed(d)
        /\ Stored(m, n, access[c])
    BY <1>4, <1>t DEF PerformStep
  <2>2. n = [m EXCEPT ![access[c].addr] = access[c].data]
    BY <1>t, <2>1 DEF Stored
  <2>3. Memory' = [Memory EXCEPT ![access[c].addr] = access[c].data]
    BY <1>1, <2>2
  <2> QED
    BY <1>t, <2>1, <2>3, FillImplements
<1> QED
  BY <1>2, <1>3, <1>4

LEMMA SharedInit ==
  ASSUME SimInit, Memory = MemIn
  PROVE  Shared!Init
<1>1. \A c \in Core : cpu[c] = core_init
  BY DEF SimInit
<1>2. \A c \in Core : /\ Regs(c) = [r \in Register |-> 0]
                      /\ Oldest(c) = 0 /\ Second(c) = 1
  BY <1>1 DEF Regs, core_writeback, core_init, Oldest, Second, InMem, Behind, SecondBehind
<1>3. imem \in [Core -> [Shared!Pc -> Shared!Instruction]]
  BY SharedIsa, SimulatorAssumption DEF SimInit
<1>4. \A c \in Core : NextPc(c) = Shared!Following(c, 0, 1)
  BY <1>2, SharedIsa DEF NextPc, Ends, Shared!Following, Shared!IsHalt
<1>5. [c \in Core |-> core_writeback(cpu[c])] = [c \in Core |-> [r \in Shared!Register |-> 0]]
  BY <1>2, SharedIsa DEF Regs
<1>6. /\ [c \in Core |-> Oldest(c)] = [c \in Core |-> 0]
      /\ [c \in Core |-> IF Ends(imem[c], Oldest(c)) THEN -1 ELSE Second(c)]
           = [c \in Core |-> Shared!Following(c, 0, 1)]
  BY <1>2, <1>4 DEF NextPc
<1> QED
  BY <1>3, <1>5, <1>6 DEF Shared!Init, Memory

LEMMA PhaseMoves ==
  ASSUME TypeOK, SimNext
  PROVE  vars' # vars
<1>1. phase' # phase \/ turn' # turn
  BY DEF TypeOK, Core, SimNext, SimBusPhase, BusPhase, SimEdgePhase, EdgePhase, SimOtherPhase, MemoryPhase, SnoopPhase,
     ResponsePhase, ClockPhase, SimCorePhase, AfterCore, GoTo
<1> QED
  BY <1>1 DEF vars, loop

LEMMA SharedStep ==
  ASSUME ProgramsProtected, HeldInv, TypeOK', CoresInv, Base, Base', Agrees(Memory), [SimNext]_simVars,
         [StoreCompletes]_vars, [WriteBackStep]_vars
  PROVE  [\E c \in Core : Shared!Step(c)]_(Shared!seqVars)
<1>1. ASSUME SimNext PROVE MemorySteps
  <2>1. [Next]_vars /\ vars' # vars
    BY <1>1, SimStepIsNext, PhaseMoves DEF HeldInv
  <2> QED
    BY <2>1, MemoryStepsOn
<1>2. ASSUME NEW c \in Core, SimNext, SimCorePhase(c) PROVE Shared!Step(c) \/ UNCHANGED Shared!seqVars
  BY <1>1, <1>2, CoreImplements
<1>3. ASSUME SimNext, SimBusPhase \/ SimEdgePhase \/ SimOtherPhase
      PROVE  (\E c \in Core : Shared!Step(c)) \/ UNCHANGED Shared!seqVars
  <2>1. phase # "core" /\ imem' = imem /\ cpu' = cpu
    BY <1>3 DEF SimBusPhase, SimEdgePhase, SimOtherPhase, BusPhase, EdgePhase, MemoryPhase, SnoopPhase,
       ResponsePhase, ClockPhase
  <2> QED
    BY <1>1, <1>3, <2>1, OtherImplements
<1>4. CASE UNCHANGED simVars
  <2>1. UNCHANGED <<imem, cpu, access, is_mine, waiting_for_bus>> /\ UNCHANGED vars
    BY <1>4 DEF simVars, vars, cores, cacheVars, request
  <2>2. \A d \in Core : /\ Regs(d)' = Regs(d)
                        /\ Oldest(d)' = Oldest(d) /\ NextPc(d)' = NextPc(d)
    BY <2>1 DEF Regs, Oldest, NextPc, Second, InMem, Performed
  <2>3. Memory' = Memory
    BY <2>1, DataStutters DEF Abstract!vars, Memory
  <2> QED
    BY <2>1, <2>2, <2>3, SharedStutters
<1> QED
  BY <1>2, <1>3, <1>4 DEF SimNext

(* When nothing is lost, and the hazard check protects the programs, the   *)
(* simulator is sequentially consistent: the cores execute their programs  *)
(* as if one at a time executed a whole instruction on one memory.         *)
THEOREM ImplementsSharedMachineHolds ==
  ASSUME ProgramsProtected
  PROVE  SimSpec /\ Lossless => ImplementsSharedMachine
<1>1. HeldInv /\ HeldInv' /\ CoresInv /\ [SimNext]_simVars => CoresInv'
  BY CoresStep DEF HeldInv
<1>2. SimInit => CoresInv
  BY CoresInit
<1>3. SimSpec => [](HeldInv /\ CoresInv)
  BY <1>1, <1>2, HeldInit, HeldStep, PTL DEF SimSpec
<1>4. SimInit /\ Base => Shared!Init
  <2> SUFFICES ASSUME SimInit, Base PROVE Shared!Init
    OBVIOUS
  <2>1. Memory = MemIn
    BY InitImplements DEF SimInit, Abstract!Init, Memory
  <2> QED
    BY <2>1, SharedInit
<1>5. HeldInv /\ HeldInv' /\ CoresInv /\ (Base /\ Agrees(Memory)) /\ (Base /\ Agrees(Memory))'
        /\ [SimNext]_simVars /\ [StoreCompletes]_vars /\ [WriteBackStep]_vars
        => [\E c \in Core : Shared!Step(c)]_(Shared!seqVars)
  BY SharedStep DEF HeldInv
<1>6. Spec /\ Lossless => [](Base /\ Agrees(Memory))
  BY DataHolds, PTL
<1>7. Lossless => [][StoreCompletes]_vars /\ [][WriteBackStep]_vars
  BY PTL DEF Lossless, StoreIsInCache, WriteBackKept
<1> QED
  BY <1>3, <1>4, <1>5, <1>6, <1>7, SimulatorImplementsMulticore, PTL
     DEF SimSpec, ImplementsSharedMachine, Shared!Spec

(* Programs that keep the write-backs of their cores apart lose nothing:   *)
(* every execution of them is one of the shared machine.                   *)
THEOREM FittingSimulatorIsSequential ==
  ASSUME ProgramsProtected, WriteBacksApart
  PROVE  SimSpec => ImplementsSharedMachine
BY ImplementsSharedMachineHolds, SimulatorImplementsMulticore, LosslessHolds, PTL
=============================================================================
