--------------------------- MODULE Simulator_proofs ---------------------------
(***************************************************************************)
(* Proofs about the whole program, for any number of cores, any cache      *)
(* geometry and any programs: the loop with its pipelines does nothing to  *)
(* the memory system that Multicore does not allow, so what is proved of   *)
(* Multicore holds of the program; and the cycle counters add up.          *)
(***************************************************************************)
EXTENDS SimulatorCorrect, ProtocolInv_proofs

(* The state of a core has its fields, and IF/ID is empty behind a halt.   *)
CoreShape(k) ==
  /\ DOMAIN k = Fields /\ k = [f \in Fields |-> k[f]]
  /\ k.halted \in BOOLEAN
  /\ k.halted => k.if_id = NOP

CoresShape == cpu = [c \in Core |-> cpu[c]] /\ \A c \in Core : CoreShape(cpu[c])

HeldInv == TypeOK /\ CoresShape /\ AccessIsHeld

-----------------------------------------------------------------------------
(* One cycle of a core.                                                    *)

LEMMA BubbleOrNot ==
  /\ \A k, i : Decoded(k, i) # NOP
  /\ \A e : e # NOP => core_execute(e) # NOP
  /\ \A m, d : m # NOP => core_memory(m, d) # NOP
  /\ core_execute(NOP) = NOP /\ \A d : core_memory(NOP, d) = NOP
<1>1. "rd" \notin DOMAIN NOP
  BY DEF NOP
<1>2. ASSUME NEW k, NEW i PROVE "rd" \in DOMAIN Decoded(k, i)
  BY DEF Decoded
<1>3. ASSUME NEW e, e # NOP PROVE "rd" \in DOMAIN core_execute(e)
  BY <1>3 DEF core_execute
<1>4. ASSUME NEW m, NEW d, m # NOP PROVE "rd" \in DOMAIN core_memory(m, d)
  BY <1>4 DEF core_memory
<1> QED
  BY <1>1, <1>2, <1>3, <1>4 DEF core_execute, core_memory

(* A miss holds the stages before MEM.                                     *)
LEMMA MissHolds ==
  ASSUME NEW k, CoreShape(k)
  PROVE  /\ CoreShape(handle_cache_miss(k))
         /\ handle_cache_miss(k).halted = k.halted
         /\ handle_cache_miss(k).if_id = k.if_id
         /\ handle_cache_miss(k).id_ex = k.id_ex
         /\ handle_cache_miss(k).ex_mem = k.ex_mem
         /\ handle_cache_miss(k).mem_wb = NOP
  BY DEF CoreShape, handle_cache_miss, Fields

(* A cycle without a miss moves every instruction to the next stage.       *)
LEMMA ClockMoves ==
  ASSUME NEW k, CoreShape(k), NEW program, NEW loaded
  PROVE  LET n == core_clock(k, program, loaded)
         IN  /\ CoreShape(n)
             /\ k.halted => n.halted
             /\ n.mem_wb = core_memory(k.ex_mem, loaded)
             /\ n.ex_mem = core_execute(k.id_ex)
             /\ k.if_id = NOP \/ Stalls(k) => n.id_ex = NOP /\ n.halted = k.halted
             /\ ~(k.if_id = NOP \/ Stalls(k)) => n.id_ex # NOP
<1> DEFINE m == [k EXCEPT !.registers = core_writeback(k),
                          !.mem_wb = core_memory(k.ex_mem, loaded),
                          !.ex_mem = core_execute(k.id_ex)]
           i == k.if_id.instruction
           n == core_clock(k, program, loaded)
<1>1. /\ DOMAIN m = Fields /\ m = [f \in Fields |-> m[f]]
      /\ m.halted = k.halted /\ m.if_id = k.if_id
      /\ m.mem_wb = core_memory(k.ex_mem, loaded) /\ m.ex_mem = core_execute(k.id_ex)
  BY DEF CoreShape, Fields
<1> HIDE DEF m
<1>2. ASSUME NEW x, DOMAIN x = Fields, x = [f \in Fields |-> x[f]],
             x.halted \in BOOLEAN, NEW after
      PROVE  LET y == core_fetch(x, program, after)
             IN  /\ CoreShape(y)
                 /\ y.halted = x.halted /\ y.mem_wb = x.mem_wb
                 /\ y.ex_mem = x.ex_mem /\ y.id_ex = x.id_ex
  BY <1>2 DEF core_fetch, CoreShape, Fields
<1>3. CASE k.if_id = NOP
  <2> DEFINE x == [m EXCEPT !.id_ex = NOP]
  <2>1. n = core_fetch(x, program, k.pc + 1)
    BY <1>3 DEF core_clock, m, Stalls
  <2>2. /\ DOMAIN x = Fields /\ x = [f \in Fields |-> x[f]] /\ x.halted = k.halted
        /\ x.mem_wb = m.mem_wb /\ x.ex_mem = m.ex_mem /\ x.id_ex = NOP
    BY <1>1 DEF Fields
  <2> HIDE DEF x, n
  <2>3. x.halted \in BOOLEAN /\ ~Stalls(k)
    BY <1>3, <2>2 DEF CoreShape, Stalls
  <2>4. /\ CoreShape(n) /\ n.halted = x.halted /\ n.mem_wb = x.mem_wb
        /\ n.ex_mem = x.ex_mem /\ n.id_ex = x.id_ex
    BY <1>2, <2>1, <2>2, <2>3
  <2> QED
    BY <1>1, <1>3, <2>2, <2>4 DEF n
<1>4. CASE Stalls(k)
  <2>1. n = stall_pipeline(m)
    BY <1>4 DEF core_clock, m, Stalls
  <2>2. /\ DOMAIN n = Fields /\ n = [f \in Fields |-> n[f]] /\ n.halted = k.halted
        /\ n.if_id = k.if_id /\ n.mem_wb = m.mem_wb /\ n.ex_mem = m.ex_mem /\ n.id_ex = NOP
    BY <1>1, <2>1 DEF stall_pipeline, Fields
  <2> QED
    BY <1>1, <1>4, <2>2 DEF CoreShape
<1>5. CASE ~(k.if_id = NOP \/ Stalls(k))
  <2> DEFINE x == core_decode(k, i, m)
  <2>1. n = core_fetch(x, program, After(k, i))
    BY <1>5 DEF core_clock, m
  <2>2. /\ DOMAIN x = Fields /\ x = [f \in Fields |-> x[f]]
        /\ x.halted = (k.halted \/ i.op = "halt")
        /\ x.mem_wb = m.mem_wb /\ x.ex_mem = m.ex_mem /\ x.id_ex = Decoded(k, i)
    BY <1>1 DEF core_decode, Fields
  <2> HIDE DEF x, n
  <2>3. x.halted \in BOOLEAN
    BY <2>2 DEF CoreShape
  <2>4. /\ CoreShape(n) /\ n.halted = x.halted /\ n.mem_wb = x.mem_wb
        /\ n.ex_mem = x.ex_mem /\ n.id_ex = x.id_ex
    BY <1>2, <2>1, <2>2, <2>3
  <2>5. n.id_ex # NOP
    BY <2>2, <2>4, BubbleOrNot
  <2> QED
    BY <1>1, <1>5, <2>2, <2>4, <2>5 DEF n
<1> QED
  BY <1>3, <1>4, <1>5

-----------------------------------------------------------------------------
(* The program's steps are steps of the memory system: an access that      *)
(* waits is offered again as it was.                                       *)

LEMMA CoreStepIsNext ==
  ASSUME AccessIsHeld, NEW c \in Core, SimCorePhase(c)
  PROVE  CorePhase(c)
<1>1. CASE NoAccessCycle(c)
  BY <1>1 DEF SimCorePhase, NoAccessCycle, CorePhase
<1>2. ASSUME NEW ready \in BOOLEAN, AccessCycle(c, ready)
      PROVE  CorePhase(c)
  <2> DEFINE r == AccessIn(cpu[c].ex_mem)
  <2>1. r \in AccessOf(c) /\ Offer(c, r, ready)
    BY <1>2 DEF AccessCycle
  <2>2. access[c] # NoAccess => r = access[c]
    BY DEF AccessIsHeld
  <2> HIDE DEF r
  <2>3. MemoryAccess(c)
    BY <2>1, <2>2 DEF MemoryAccess
  <2> QED
    BY <2>3 DEF SimCorePhase, CorePhase
<1> QED
  BY <1>1, <1>2 DEF SimCorePhase

LEMMA SimStepIsNext == AccessIsHeld /\ [SimNext]_simVars => [Next]_vars
<1> SUFFICES ASSUME AccessIsHeld, [SimNext]_simVars PROVE [Next]_vars
  OBVIOUS
<1>1. ASSUME NEW c \in Core, SimCorePhase(c) PROVE Next
  BY <1>1, CoreStepIsNext DEF Next
<1>2. CASE SimBusPhase \/ SimEdgePhase \/ SimOtherPhase
  BY <1>2 DEF SimBusPhase, SimEdgePhase, SimOtherPhase, Next, Tick
<1> QED
  BY <1>1, <1>2 DEF SimNext, simVars

LEMMA HeldInit == SimInit => HeldInv
<1> SUFFICES ASSUME SimInit PROVE HeldInv
  OBVIOUS
<1>1. TypeOK
  BY InitType DEF SimInit
<1>2. CoreShape(core_init)
  BY DEF core_init, CoreShape, Fields
<1> QED
  BY <1>1, <1>2 DEF SimInit, Init, HeldInv, CoresShape, AccessIsHeld

(* What a call of core_clock leaves of the accesses that are held.         *)
LEMMA HeldCore ==
  ASSUME HeldInv, NEW c \in Core, SimCorePhase(c)
  PROVE  CoresShape' /\ AccessIsHeld'
<1>1. /\ cpu = [d \in Core |-> cpu[d]] /\ \A d \in Core : CoreShape(cpu[d])
      /\ access \in [Core -> Access]
  BY DEF HeldInv, CoresShape, TypeOK
<1>2. CASE NoAccessCycle(c)
  <2>1. cpu' = [cpu EXCEPT ![c] = core_clock(cpu[c], imem[c], 0)]
    BY <1>2 DEF NoAccessCycle
  <2>2. CoreShape(core_clock(cpu[c], imem[c], 0))
    BY <1>1, ClockMoves
  <2>3. CoresShape'
    BY <1>1, <2>1, <2>2 DEF CoresShape
  <2>4. access' = access /\ access[c] = NoAccess
    BY <1>2 DEF NoAccessCycle, NoMemoryAccess
  <2>5. \A d \in Core \ {c} : cpu'[d] = cpu[d]
    BY <1>1, <2>1
  <2>6. AccessIsHeld'
    BY <2>4, <2>5 DEF HeldInv, AccessIsHeld
  <2> QED
    BY <2>3, <2>6
<1>3. ASSUME NEW ready \in BOOLEAN, AccessCycle(c, ready)
      PROVE  CoresShape' /\ AccessIsHeld'
  <2> DEFINE k == cpu[c]
             r == AccessIn(k.ex_mem)
             next == IF ready THEN core_clock(k, imem[c], retired'[c].data)
                     ELSE handle_cache_miss(k)
  <2>1. /\ IsAccess(k.ex_mem) /\ cpu' = [cpu EXCEPT ![c] = next]
        /\ access' = [access EXCEPT ![c] = IF ready THEN NoAccess ELSE r]
    BY <1>3 DEF AccessCycle, Offer
  <2>2. CoreShape(next) /\ (~ready => next.ex_mem = k.ex_mem)
    BY <1>1, ClockMoves, MissHolds
  <2> HIDE DEF next
  <2>3. \A d \in Core \ {c} : cpu'[d] = cpu[d] /\ access'[d] = access[d]
    BY <1>1, <2>1
  <2>4. cpu'[c] = next /\ access'[c] = IF ready THEN NoAccess ELSE r
    BY <1>1, <2>1
  <2>5. CoresShape'
    BY <1>1, <2>1, <2>2 DEF CoresShape
  <2>6. AccessIsHeld'
    BY <2>1, <2>2, <2>3, <2>4 DEF HeldInv, AccessIsHeld
  <2> QED
    BY <2>5, <2>6
<1> QED
  BY <1>2, <1>3 DEF SimCorePhase

LEMMA HeldStep == HeldInv /\ [SimNext]_simVars => HeldInv'
<1> SUFFICES ASSUME HeldInv, [SimNext]_simVars PROVE HeldInv'
  OBVIOUS
<1>1. TypeOK'
  BY SimStepIsNext, NextType DEF HeldInv
<1>2. ASSUME NEW c \in Core, SimCorePhase(c) PROVE HeldInv'
  BY <1>1, <1>2, HeldCore DEF HeldInv
<1>3. CASE UNCHANGED <<cpu, access>>
  BY <1>1, <1>3 DEF HeldInv, CoresShape, AccessIsHeld
<1>4. CASE SimBusPhase \/ SimEdgePhase \/ SimOtherPhase
  <2>1. UNCHANGED <<cpu, access>>
    BY <1>4 DEF SimBusPhase, SimEdgePhase, SimOtherPhase, BusPhase, EdgePhase, MemoryPhase,
       SnoopPhase, ResponsePhase, ClockPhase, cores
  <2> QED
    BY <1>3, <2>1
<1> QED
  BY <1>2, <1>3, <1>4 DEF SimNext, simVars, vars, cores

-----------------------------------------------------------------------------
(* The access a core offers is always the one its pipeline holds in MEM:   *)
(* a miss never loses or changes an access, whatever the program.          *)
THEOREM AccessIsHeldHolds == SimSpec => []AccessIsHeld
<1>1. HeldInv => AccessIsHeld
  BY DEF HeldInv
<1> QED
  BY <1>1, HeldInit, HeldStep, PTL DEF SimSpec

(* Refinement: the program with its pipelines implements the memory system *)
(* whose accesses are free.                                                *)
THEOREM SimulatorImplementsMulticore == SimSpec => Spec
<1>1. SimInit => Init
  BY DEF SimInit
<1> QED
  BY <1>1, AccessIsHeldHolds, SimStepIsNext, PTL DEF SimSpec, Spec

(* So the caches of the program that is run obey the protocol.             *)
THEOREM SimulatorIsCoherent ==
  SimSpec => [](TypeOK /\ ProtocolInvariant /\ SingleWriter /\ FillsOwnBlock)
BY SimulatorImplementsMulticore, TypeCorrect, ProtocolHolds, SingleWriterHolds,
   FillsOwnBlockHolds, PTL

-----------------------------------------------------------------------------
(* The counters.                                                           *)

CountersAreInt(s) == s \in [Counter -> Int]

Balance(s, k) ==
  s["cycles"] = s["instructions"] + s["decode_stalls"] + s["mem_stalls"] + Drain(k)

CountInv ==
  /\ HeldInv
  /\ stats = [c \in Core |-> stats[c]]
  /\ \A c \in Core : CountersAreInt(stats[c]) /\ Balance(stats[c], cpu[c])

(* A hit or a miss of the cache counts in the cache's own counters.        *)
LEMMA CountAccessKeeps ==
  ASSUME NEW s, CountersAreInt(s), NEW c \in Core, NEW r, NEW ready \in BOOLEAN
  PROVE  LET t == CountAccess(s, c, r, ready)
         IN  CountersAreInt(t) /\ \A n \in CoreCounter : t[n] = s[n]
<1> DEFINE hit  == IF r.op = "lw" THEN "read_hit" ELSE "write_hit"
           miss == IF r.op = "lw" THEN "read_miss" ELSE "write_miss"
           up   == One(ready /\ Present(c, r.addr))
           down == One(waiting_for_bus'[c] /\ ~waiting_for_bus[c])
           more == One(~ready /\ ~Blocked(c))
           t    == CountAccess(s, c, r, ready)
<1>1. up \in Int /\ down \in Int /\ more \in Int
  BY DEF One
<1>2. /\ hit \in Counter \ CoreCounter /\ miss \in Counter \ CoreCounter
      /\ CoreCounter \subseteq Counter /\ hit # miss
  BY DEF Counter, CoreCounter, CacheCounter
<1>3. t = [s EXCEPT ![hit] = @ + up - down, ![miss] = @ + more]
  BY DEF CountAccess
<1> HIDE DEF hit, miss, up, down, more, t
<1> DEFINE u == [s EXCEPT ![hit] = s[hit] + up - down]
<1>4. u \in [Counter -> Int] /\ \A n \in CoreCounter : u[n] = s[n]
  BY <1>1, <1>2 DEF CountersAreInt
<1>5. t = [u EXCEPT ![miss] = u[miss] + more]
  BY <1>2, <1>3 DEF CountersAreInt
<1> HIDE DEF u
<1>6. t \in [Counter -> Int] /\ \A n \in CoreCounter : t[n] = s[n]
  BY <1>1, <1>2, <1>4, <1>5
<1> QED
  BY <1>6 DEF CountersAreInt, t

(* What a cycle adds to the counters.                                      *)
LEMMA CountCycleAdds ==
  ASSUME NEW s, CountersAreInt(s), NEW k, NEW next, NEW missed \in BOOLEAN
  PROVE  LET t == CountCycle(s, k, next, missed)
         IN  /\ CountersAreInt(t)
             /\ t["cycles"] = s["cycles"] + One(~next.halted \/ ~pipeline_is_empty(k))
             /\ t["mem_stalls"] = s["mem_stalls"] + One(missed)
             /\ t["decode_stalls"] = s["decode_stalls"] + One(~missed /\ Stalls(k))
             /\ t["instructions"] =
                  s["instructions"] + One(~missed /\ ~Stalls(k) /\ ~next.halted)
<1> DEFINE a == One(~next.halted \/ ~pipeline_is_empty(k))
           b == One(missed)
           d == One(~missed /\ Stalls(k))
           e == One(~missed /\ ~Stalls(k) /\ ~next.halted)
           t == CountCycle(s, k, next, missed)
<1>1. a \in Int /\ b \in Int /\ d \in Int /\ e \in Int
  BY DEF One
<1>2. t = [s EXCEPT !["cycles"] = @ + a, !["mem_stalls"] = @ + b,
                    !["decode_stalls"] = @ + d, !["instructions"] = @ + e]
  BY DEF CountCycle
<1>3. {"cycles", "mem_stalls", "decode_stalls", "instructions"} \subseteq Counter
  BY DEF Counter, CoreCounter
<1> HIDE DEF a, b, d, e, t
<1>4. /\ t["cycles"] = s["cycles"] + a /\ t["mem_stalls"] = s["mem_stalls"] + b
      /\ t["decode_stalls"] = s["decode_stalls"] + d
      /\ t["instructions"] = s["instructions"] + e
  BY <1>2, <1>3 DEF CountersAreInt
<1>5. CountersAreInt(t)
  <2> DEFINE u == [s EXCEPT !["cycles"] = s["cycles"] + a]
             v == [u EXCEPT !["mem_stalls"] = u["mem_stalls"] + b]
             w == [v EXCEPT !["decode_stalls"] = v["decode_stalls"] + d]
  <2>1. t = [w EXCEPT !["instructions"] = w["instructions"] + e]
    BY <1>2, <1>3 DEF CountersAreInt
  <2>2. u \in [Counter -> Int]
    BY <1>1, <1>3 DEF CountersAreInt
  <2> HIDE DEF u
  <2>3. v \in [Counter -> Int]
    BY <1>1, <1>3, <2>2
  <2> HIDE DEF v
  <2>4. w \in [Counter -> Int]
    BY <1>1, <1>3, <2>3
  <2> HIDE DEF w
  <2> QED
    BY <1>1, <1>3, <2>1, <2>4 DEF CountersAreInt
<1> QED
  BY <1>4, <1>5 DEF a, b, d, e, t

(* A cycle that misses is counted as a stall of MEM and drains nothing.    *)
LEMMA MissBalances ==
  ASSUME NEW s, CountersAreInt(s), NEW k, CoreShape(k), Balance(s, k), IsAccess(k.ex_mem)
  PROVE  Balance(CountCycle(s, k, handle_cache_miss(k), TRUE), handle_cache_miss(k))
<1> DEFINE n == handle_cache_miss(k)
           t == CountCycle(s, k, n, TRUE)
<1>1. Drain(n) = Drain(k)
  BY MissHolds DEF Drain, IsAccess
<1>2. ~pipeline_is_empty(k)
  BY DEF pipeline_is_empty, IsAccess
<1>3. /\ t["cycles"] = s["cycles"] + 1 /\ t["mem_stalls"] = s["mem_stalls"] + 1
      /\ t["decode_stalls"] = s["decode_stalls"] + 0
      /\ t["instructions"] = s["instructions"] + 0
  BY <1>2, CountCycleAdds DEF One
<1>4. /\ s["cycles"] \in Int /\ s["mem_stalls"] \in Int
      /\ s["decode_stalls"] \in Int /\ s["instructions"] \in Int /\ Drain(k) \in Int
  BY DEF CountersAreInt, Counter, CoreCounter, Drain
<1> HIDE DEF n, t
<1>5. Balance(t, n)
  BY <1>1, <1>3, <1>4 DEF Balance
<1> QED
  BY <1>5 DEF n, t

(* A cycle without a miss fetches, stalls in ID or drains by one stage.    *)
LEMMA ClockBalances ==
  ASSUME NEW s, CountersAreInt(s), NEW k, CoreShape(k), Balance(s, k),
         NEW program, NEW loaded
  PROVE  LET n == core_clock(k, program, loaded)
         IN  Balance(CountCycle(s, k, n, FALSE), n)
<1> DEFINE n == core_clock(k, program, loaded)
           t == CountCycle(s, k, n, FALSE)
<1>1. /\ t["cycles"] = s["cycles"] + One(~n.halted \/ ~pipeline_is_empty(k))
      /\ t["mem_stalls"] = s["mem_stalls"] + 0
      /\ t["decode_stalls"] = s["decode_stalls"] + One(Stalls(k))
      /\ t["instructions"] = s["instructions"] + One(~Stalls(k) /\ ~n.halted)
  <2>1. /\ t["cycles"] = s["cycles"] + One(~n.halted \/ ~pipeline_is_empty(k))
        /\ t["mem_stalls"] = s["mem_stalls"] + One(FALSE)
        /\ t["decode_stalls"] = s["decode_stalls"] + One(~FALSE /\ Stalls(k))
        /\ t["instructions"] = s["instructions"] + One(~FALSE /\ ~Stalls(k) /\ ~n.halted)
    BY CountCycleAdds
  <2> HIDE DEF n, t
  <2> QED
    BY <2>1 DEF One
<1>2. /\ s["cycles"] \in Int /\ s["mem_stalls"] \in Int
      /\ s["decode_stalls"] \in Int /\ s["instructions"] \in Int
      /\ Drain(k) \in Int /\ Drain(n) \in Int
  BY DEF CountersAreInt, Counter, CoreCounter, Drain
<1>3. /\ CoreShape(n) /\ (k.halted => n.halted)
      /\ n.mem_wb = core_memory(k.ex_mem, loaded) /\ n.ex_mem = core_execute(k.id_ex)
      /\ (k.if_id = NOP \/ Stalls(k) => n.id_ex = NOP /\ n.halted = k.halted)
      /\ (~(k.if_id = NOP \/ Stalls(k)) => n.id_ex # NOP)
  BY ClockMoves
<1> HIDE DEF n, t
<1>4. One(~n.halted \/ ~pipeline_is_empty(k)) + Drain(k)
        = One(Stalls(k)) + One(~Stalls(k) /\ ~n.halted) + Drain(n)
  <2>1. CASE ~n.halted
    <3>1. ~k.halted
      BY <1>3, <2>1
    <3> QED
      BY <2>1, <3>1 DEF One, Drain
  <2>2. CASE n.halted /\ ~k.halted
    <3>1. ~Stalls(k) /\ n.id_ex # NOP /\ k.if_id # NOP
      BY <1>3, <2>2
    <3>2. ~pipeline_is_empty(k)
      BY <3>1 DEF pipeline_is_empty
    <3> QED
      BY <2>2, <3>1, <3>2 DEF One, Drain
  <2>3. CASE k.halted
    <3>1. k.if_id = NOP /\ ~Stalls(k) /\ n.halted /\ n.id_ex = NOP
      BY <1>3, <2>3 DEF CoreShape, Stalls
    <3>2. CASE k.id_ex # NOP
      <4>1. n.ex_mem # NOP
        BY <1>3, <3>2, BubbleOrNot
      <4> QED
        BY <2>3, <3>1, <3>2, <4>1 DEF One, Drain, pipeline_is_empty
    <3>3. CASE k.id_ex = NOP /\ k.ex_mem # NOP
      <4>1. n.ex_mem = NOP /\ n.mem_wb # NOP
        BY <1>3, <3>3, BubbleOrNot
      <4> QED
        BY <2>3, <3>1, <3>3, <4>1 DEF One, Drain, pipeline_is_empty
    <3>4. CASE k.id_ex = NOP /\ k.ex_mem = NOP
      <4>1. n.ex_mem = NOP /\ n.mem_wb = NOP
        BY <1>3, <3>4, BubbleOrNot
      <4> QED
        BY <2>3, <3>1, <3>4, <4>1 DEF One, Drain, pipeline_is_empty
    <3> QED
      BY <3>2, <3>3, <3>4
  <2> QED
    BY <2>1, <2>2, <2>3
<1>5. /\ One(~n.halted \/ ~pipeline_is_empty(k)) \in Int /\ One(Stalls(k)) \in Int
      /\ One(~Stalls(k) /\ ~n.halted) \in Int
  BY DEF One
<1>6. Balance(t, n)
  BY <1>1, <1>2, <1>4, <1>5 DEF Balance
<1> QED
  BY <1>6 DEF n, t

LEMMA CountInit == SimInit => CountInv
<1> SUFFICES ASSUME SimInit PROVE CountInv
  OBVIOUS
<1>1. Drain(core_init) = 0
  BY DEF Drain, core_init
<1>2. HeldInv
  BY HeldInit
<1> QED
  BY <1>1, <1>2 DEF SimInit, CountInv, CountersAreInt, Balance, Counter, CoreCounter,
     CacheCounter

LEMMA CountCore ==
  ASSUME CountInv, NEW c \in Core, SimCorePhase(c)
  PROVE  /\ stats' = [d \in Core |-> stats'[d]]
         /\ \A d \in Core : CountersAreInt(stats'[d]) /\ Balance(stats'[d], cpu'[d])
<1> DEFINE k == cpu[c]
           s == stats[c]
<1>1. /\ CoreShape(k) /\ CountersAreInt(s) /\ Balance(s, k)
      /\ cpu = [d \in Core |-> cpu[d]] /\ stats = [d \in Core |-> stats[d]]
  BY DEF CountInv, HeldInv, CoresShape
<1>2. ASSUME NEW n, NEW t, cpu' = [cpu EXCEPT ![c] = n], stats' = [stats EXCEPT ![c] = t],
             CountersAreInt(t), Balance(t, n)
      PROVE  /\ stats' = [d \in Core |-> stats'[d]]
             /\ \A d \in Core : CountersAreInt(stats'[d]) /\ Balance(stats'[d], cpu'[d])
  <2>1. stats' = [d \in Core |-> stats'[d]]
    BY <1>1, <1>2
  <2>2. stats'[c] = t /\ cpu'[c] = n
    BY <1>1, <1>2
  <2>3. \A d \in Core \ {c} : stats'[d] = stats[d] /\ cpu'[d] = cpu[d]
    BY <1>1, <1>2
  <2> QED
    BY <1>2, <2>1, <2>2, <2>3 DEF CountInv
<1>3. CASE NoAccessCycle(c)
  <2> DEFINE n == core_clock(k, imem[c], 0)
             t == CountCycle(s, k, n, FALSE)
  <2>1. cpu' = [cpu EXCEPT ![c] = n]
    BY <1>3 DEF NoAccessCycle
  <2>2. stats' = [stats EXCEPT ![c] = t]
    <3>1. cpu'[c] = n
      BY <1>1, <2>1
    <3> QED
      BY <1>3, <3>1 DEF NoAccessCycle
  <2>3. CountersAreInt(t) /\ Balance(t, n)
    BY <1>1, CountCycleAdds, ClockBalances
  <2> HIDE DEF n, t
  <2> QED
    BY <1>2, <2>1, <2>2, <2>3
<1>4. ASSUME NEW ready \in BOOLEAN, AccessCycle(c, ready)
      PROVE  /\ stats' = [d \in Core |-> stats'[d]]
             /\ \A d \in Core : CountersAreInt(stats'[d]) /\ Balance(stats'[d], cpu'[d])
  <2> DEFINE r == AccessIn(k.ex_mem)
             u == CountAccess(s, c, r, ready)
             n == IF ready THEN core_clock(k, imem[c], retired'[c].data)
                  ELSE handle_cache_miss(k)
             t == CountCycle(u, k, n, ~ready)
  <2>1. IsAccess(k.ex_mem) /\ cpu' = [cpu EXCEPT ![c] = n]
    BY <1>4 DEF AccessCycle
  <2>2. stats' = [stats EXCEPT ![c] = t]
    <3>1. cpu'[c] = n
      BY <1>1, <2>1
    <3>2. stats' = [stats EXCEPT ![c] = CountCycle(u, k, cpu'[c], ~ready)]
      BY <1>4 DEF AccessCycle
    <3> QED
      BY <3>1, <3>2
  <2>3. CountersAreInt(u) /\ \A m \in CoreCounter : u[m] = s[m]
    BY <1>1, CountAccessKeeps
  <2> HIDE DEF u
  <2>4. Balance(u, k)
    BY <1>1, <2>3 DEF Balance, CoreCounter
  <2>5. CountersAreInt(t)
    BY <2>3, CountCycleAdds
  <2>6. CASE ready
    <3> DEFINE m == core_clock(k, imem[c], retired'[c].data)
    <3>1. n = m /\ t = CountCycle(u, k, m, FALSE)
      BY <2>6
    <3>2. Balance(CountCycle(u, k, m, FALSE), m)
      BY <1>1, <2>3, <2>4, ClockBalances
    <3> HIDE DEF m, n, t
    <3>3. Balance(t, n)
      BY <3>1, <3>2
    <3> QED
      BY <1>2, <2>1, <2>2, <2>5, <3>3
  <2>7. CASE ~ready
    <3> DEFINE m == handle_cache_miss(k)
    <3>1. n = m /\ t = CountCycle(u, k, m, TRUE)
      BY <2>7
    <3>2. Balance(CountCycle(u, k, m, TRUE), m)
      BY <1>1, <2>1, <2>3, <2>4, MissBalances
    <3> HIDE DEF m, n, t
    <3>3. Balance(t, n)
      BY <3>1, <3>2
    <3> QED
      BY <1>2, <2>1, <2>2, <2>5, <3>3
  <2> QED
    BY <2>6, <2>7
<1> QED
  BY <1>3, <1>4 DEF SimCorePhase

LEMMA CountStep == CountInv /\ [SimNext]_simVars => CountInv'
<1> SUFFICES ASSUME CountInv, [SimNext]_simVars PROVE CountInv'
  OBVIOUS
<1>1. HeldInv'
  BY HeldStep DEF CountInv
<1>2. ASSUME NEW c \in Core, SimCorePhase(c) PROVE CountInv'
  BY <1>1, <1>2, CountCore DEF CountInv
<1>3. CASE UNCHANGED <<cpu, stats>>
  BY <1>1, <1>3 DEF CountInv
<1>4. CASE SimBusPhase \/ SimEdgePhase \/ SimOtherPhase
  BY <1>3, <1>4 DEF SimBusPhase, SimEdgePhase, SimOtherPhase, logs
<1> QED
  BY <1>2, <1>3, <1>4 DEF SimNext, simVars, logs

(* Every cycle of a core is counted exactly once, as an instruction, as a  *)
(* stall in MEM or in ID, or as one of the four that drain the pipeline.   *)
THEOREM CyclesAddUpHolds == SimSpec => []CyclesAddUp
<1>1. CountInv => CyclesAddUp
  BY DEF CountInv, Balance, CyclesAddUp
<1> QED
  BY <1>1, CountInit, CountStep, PTL DEF SimSpec
=============================================================================
