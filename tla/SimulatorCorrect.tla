--------------------------- MODULE SimulatorCorrect ---------------------------
(***************************************************************************)
(* What the whole program promises: the meaning of its cores' programs on  *)
(* one shared memory, counters and a trace that tell what happened, and    *)
(* results that are complete when the loop ends.                           *)
(***************************************************************************)
EXTENDS Coherence, Simulator

(* core_memory offers a missing access again in every cycle, and the cache *)
(* remembers it meanwhile: it is the same access each time, because a miss *)
(* holds EX/MEM (core.c:53-59).                                            *)
AccessIsHeld ==
  \A c \in Core :
    access[c] # NoAccess =>
      IsAccess(cpu[c].ex_mem) /\ access[c] = AccessIn(cpu[c].ex_mem)

(* The cycles in which the pipeline of a halted core has drained.          *)
Drain(k) ==
  IF ~k.halted THEN 0
  ELSE IF k.id_ex # NOP THEN 1
  ELSE IF k.ex_mem # NOP THEN 2
  ELSE IF k.mem_wb # NOP THEN 3 ELSE 4

(* Every cycle of a core fetches one instruction, stalls in MEM, stalls in *)
(* ID, or drains behind a halt, and is counted as exactly one of these,    *)
(* whatever happens in the same cycle (core.c:54, 245, 322, 436).          *)
CyclesAddUp ==
  \A c \in Core :
    stats[c]["cycles"] = stats[c]["instructions"] + stats[c]["decode_stalls"]
                           + stats[c]["mem_stalls"] + Drain(cpu[c])

(* The statistics, the bus trace and the programs agree when the loop has  *)
(* ended: a load or store that completed either hit, or asked for its      *)
(* block in exactly one transaction, which was logged exactly once; the    *)
(* hit counters that are lowered and raised on the way come out right.     *)
StatsMatchTrace ==
  LoopHasEnded =>
    \A c \in Core :
      /\ stats[c]["read_hit"] + bus_trace[c]["BUS_RD"] = completed[c]["lw"]
      /\ stats[c]["write_hit"] + bus_trace[c]["BUS_RDX"] = completed[c]["sw"]

(* cache.h:64-67 and README.md:133, "Number of read hits", "Number of read *)
(* misses": every load is the one or the other.                            *)
LoadsAreHitsOrMisses ==
  LoopHasEnded =>
    \A c \in Core :
      stats[c]["read_hit"] + stats[c]["read_miss"] = completed[c]["lw"]

-----------------------------------------------------------------------------
(* Core c's store is in its cache, performed by the fill, and the MEM      *)
(* stage has not been told.                                                *)
Performed(c) == access[c].op = "sw" /\ is_mine[c] /\ ~waiting_for_bus[c]

(* The pcs of the two instructions behind the one in MEM.                  *)
Behind(k) ==
  IF k.id_ex # NOP THEN k.id_ex.pc ELSE IF k.if_id # NOP THEN k.if_id.pc ELSE k.pc
SecondBehind(k) ==
  IF k.if_id = NOP THEN IF k.id_ex # NOP THEN k.pc ELSE k.pc + 1
  ELSE IF k.id_ex # NOP THEN k.if_id.pc ELSE k.pc

(* Those of the two oldest instructions that have still to be executed,    *)
(* fetched or not.                                                         *)
InMem(c) == cpu[c].ex_mem # NOP /\ ~Performed(c)
Oldest(c) == IF InMem(c) THEN cpu[c].ex_mem.pc ELSE Behind(cpu[c])
Second(c) == IF InMem(c) THEN Behind(cpu[c]) ELSE SecondBehind(cpu[c])

(* Nothing follows a halt, and a core without a pc has halted.             *)
Ends(p, a) == a \notin Pc \/ p[a].op = "halt"

Shared == INSTANCE Sequential WITH
  DataIn <- MemIn,
  program <- imem,
  registers <- [c \in Core |-> core_writeback(cpu[c])],
  memory <- [a \in Addr |-> Current(a)],
  pc <- [c \in Core |-> Oldest(c)],
  next_pc <- [c \in Core |-> IF Ends(imem[c], Oldest(c)) THEN -1 ELSE Second(c)]

(* Sequential consistency: whatever the timing of pipelines, caches, bus   *)
(* and memory, the cores execute their programs as if one at a time        *)
(* executed a whole instruction on one memory, each in its own order.      *)
ImplementsSharedMachine == Shared!Spec

(* What main saves when the loop ends is the result: every core's program  *)
(* has been executed up to its halt, and nothing is under way, no access,  *)
(* no request, no word on the bus that memory has still to take.           *)
SavedStateIsFinal ==
  LoopHasEnded =>
    /\ Shared!AllHalted
    /\ \A c \in Core : access[c] = NoAccess /\ ~Blocked(c) /\ ~need_to_clean_first[c]
    /\ ~busy /\ ~delay_in_progress /\ \A a \in Agent : slot[a] = NoRequest
    /\ ~(bus_cmd = "BUS_FLUSH" /\ bus_origid # MAIN_MEMORY)
=============================================================================
