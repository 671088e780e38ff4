------------------------------ MODULE Simulator ------------------------------
(***************************************************************************)
(* The whole program (sim/main.c): the memory system of Multicore with     *)
(* four whole cores in front of it, each with its instruction memory, its  *)
(* pipeline (CoreClock) and its performance counters, and the bus trace.   *)
(* The access in a core's MEM stage is no free choice any more: it is that *)
(* of its program.  The loop ends when every core is done.                 *)
(*                                                                         *)
(* Of the trace only the number of lines per agent and command is kept.    *)
(* `completed' counts the accesses that left each MEM stage; no code keeps *)
(* it, it is there to say what the counters count.                         *)
(***************************************************************************)
EXTENDS Multicore, CoreClock

CONSTANTS
  Programs,    \* the contents of the instruction memories to be run
  MAX_CYCLES   \* bound: a program that runs longer is given up

ASSUME SimulatorAssumption ==
  /\ Programs \subseteq [Core -> [Pc -> Instruction]]
  /\ Word = Uint
  /\ MAX_CYCLES \in Nat

VARIABLES
  imem, cpu,                \* cores[i].imem[]; the rest of cores[i] but its cache
  stats,                    \* the counters of cores[i] and of its cache
  new_request, bus_trace,
  completed

logs == <<stats, new_request, bus_trace, completed>>
simVars == <<vars, imem, cpu, logs>>

AllDone == \A c \in Core : Done(cpu[c])
LoopHasEnded == phase = "memory" /\ AllDone

CoreCounter == {"cycles", "instructions", "decode_stalls", "mem_stalls"}
CacheCounter == {"read_hit", "write_hit", "read_miss", "write_miss"}
Counter == CoreCounter \cup CacheCounter

(* As in the shipped builds, the memory's request line is down at first;   *)
(* Multicore also has other contents.                                      *)
SimInit ==
  /\ Init /\ slot[MAIN_MEMORY] = NoRequest
  /\ imem \in Programs
  /\ cpu = [c \in Core |-> core_init]
  /\ stats = [c \in Core |-> [n \in Counter |-> 0]]
  /\ new_request = FALSE
  /\ bus_trace = [a \in Agent |-> [cmd \in BusCmd |-> 0]]
  /\ completed = [c \in Core |-> [op \in {"lw", "sw"} |-> 0]]

-----------------------------------------------------------------------------
One(P) == IF P THEN 1 ELSE 0

(* Mutant: a fetch that a stall in ID discards is counted.                 *)
Bug_CountCycle(s, k, next, missed) ==
  [s EXCEPT !["cycles"] = @ + One(~next.halted \/ ~pipeline_is_empty(k)),
            !["mem_stalls"] = @ + One(missed),
            !["decode_stalls"] = @ + One(~missed /\ Stalls(k)),
            !["instructions"] = @ + One(~missed /\ ~next.halted)]

(* The counters of a core after a cycle from state k to `next'.            *)
CountCycle(s, k, next, missed) ==
  [s EXCEPT !["cycles"] = @ + One(~next.halted \/ ~pipeline_is_empty(k)),
            !["mem_stalls"] = @ + One(missed),
            !["decode_stalls"] = @ + One(~missed /\ Stalls(k)),
            !["instructions"] = @ + One(~missed /\ ~Stalls(k) /\ ~next.halted)]

(* Mutant: the hit that a request takes back is taken back in each retry.  *)
Bug_CountAccess(s, c, r, ready) ==
  LET hit  == IF r.op = "lw" THEN "read_hit" ELSE "write_hit"
      miss == IF r.op = "lw" THEN "read_miss" ELSE "write_miss"
  IN  [s EXCEPT ![hit] = @ + One(ready /\ Present(c, r.addr)) - One(waiting_for_bus'[c]),
                ![miss] = @ + One(~ready /\ ~Blocked(c))]

(* cache_read and cache_write count a hit, and take one back when they ask *)
(* for a block, since the retry will hit; every call that is neither a hit *)
(* nor refused counts a miss, also each word of a block written back.      *)
CountAccess(s, c, r, ready) ==
  LET hit  == IF r.op = "lw" THEN "read_hit" ELSE "write_hit"
      miss == IF r.op = "lw" THEN "read_miss" ELSE "write_miss"
      asks == waiting_for_bus'[c] /\ ~waiting_for_bus[c]
  IN  [s EXCEPT ![hit] = @ + One(ready /\ Present(c, r.addr)) - One(asks),
                ![miss] = @ + One(~ready /\ ~Blocked(c))]

-----------------------------------------------------------------------------
(* The call of core_clock for core c.                                      *)
AccessIn(m) == [op |-> IF m.is_mem_read THEN "lw" ELSE "sw", addr |-> m.mem_addr,
                data |-> IF m.is_mem_read THEN 0 ELSE m.rd]

NoAccessCycle(c) ==
  /\ ~IsAccess(cpu[c].ex_mem)
  /\ NoMemoryAccess(c)
  /\ cpu' = [cpu EXCEPT ![c] = core_clock(@, imem[c], 0)]
  /\ stats' = [stats EXCEPT ![c] = CountCycle(@, cpu[c], cpu'[c], FALSE)]
  /\ UNCHANGED completed

AccessCycle(c, ready) ==
  LET r == AccessIn(cpu[c].ex_mem)
  IN  /\ IsAccess(cpu[c].ex_mem)
      /\ r \in AccessOf(c)
      /\ Offer(c, r, ready)
      /\ cpu' = [cpu EXCEPT ![c] = IF ready THEN core_clock(@, imem[c], retired'[c].data)
                                   ELSE handle_cache_miss(@)]
      /\ stats' = [stats EXCEPT ![c] =
                     CountCycle(CountAccess(@, c, r, ready), cpu[c], cpu'[c], ~ready)]
      /\ completed' = [completed EXCEPT ![c][r.op] = @ + One(ready)]

SimCorePhase(c) ==
  /\ phase = "core" /\ turn = c
  /\ NoAccessCycle(c) \/ \E ready \in BOOLEAN : AccessCycle(c, ready)
  /\ AfterCore(c)
  /\ UNCHANGED <<lines, shared_Q, delay, control, pending, memoryVars,
                 imem, new_request, bus_trace>>

-----------------------------------------------------------------------------
(* bus_clock raises new_request when it puts something on the lines and    *)
(* lowers it when the bus goes idle.                                       *)
PutsOnLines == IF delay_in_progress THEN delay_cycles = 1 ELSE FlushReady # {}

SimBusPhase ==
  /\ BusPhase
  /\ new_request' = (PutsOnLines \/ (new_request /\ bus_cmd' # "BUS_NO_CMD"))
  /\ UNCHANGED <<imem, cpu, stats, bus_trace, completed>>

(* The line of the bus trace, and the clock edge.                          *)
Logged == bus_cmd # "BUS_NO_CMD" /\ new_request

(* Mutant: new_request stays up, and a command is logged again.            *)
Bug_LogBus ==
  /\ bus_trace' = IF Logged THEN [bus_trace EXCEPT ![bus_origid][bus_cmd] = @ + 1]
                  ELSE bus_trace
  /\ UNCHANGED new_request

LogBus ==
  /\ bus_trace' = IF Logged THEN [bus_trace EXCEPT ![bus_origid][bus_cmd] = @ + 1]
                  ELSE bus_trace
  /\ new_request' = (new_request /\ ~Logged)

SimEdgePhase ==
  /\ EdgePhase
  /\ LogBus
  /\ UNCHANGED <<imem, cpu, stats, completed>>

SimOtherPhase ==
  /\ \/ MemoryPhase
     \/ \E c \in Core : SnoopPhase(c) \/ ResponsePhase(c) \/ ClockPhase(c)
  /\ UNCHANGED <<imem, cpu, logs>>

(* When the loop has ended, main saves memory, registers, caches and       *)
(* counters as they are.                                                   *)
SimNext ==
  /\ ~LoopHasEnded
  /\ \A c \in Core : stats[c]["cycles"] < MAX_CYCLES
  /\ \/ SimBusPhase \/ SimEdgePhase \/ SimOtherPhase
     \/ \E c \in Core : SimCorePhase(c)

SimSpec == SimInit /\ [][SimNext]_simVars

(* The do-while loop of main makes one call after the other.               *)
SimFairSpec == SimSpec /\ WF_simVars(SimNext)
=============================================================================
