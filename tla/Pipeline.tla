------------------------------- MODULE Pipeline -------------------------------
(***************************************************************************)
(* One core on its own.  The data memory behind the cache is `data': an    *)
(* access may miss in any number of cycles and then takes effect at once,  *)
(* as the cache promises (AtomicMemory).  Simulator puts the caches there. *)
(***************************************************************************)
EXTENDS CoreClock

CONSTANTS
  Programs,   \* the contents of instruction memory to be run
  DataIn

ASSUME PipelineAssumption ==
  /\ Programs \subseteq [Pc -> Instruction]
  /\ DataIn \in [Uint -> Uint]

VARIABLES imem, data, core

pipelineVars == <<imem, data, core>>

Init == imem \in Programs /\ data = DataIn /\ core = core_init

(* The memory after the access of the instruction m in MEM.                *)
Stored(m, mem) ==
  IF m # NOP /\ m.is_mem_write THEN [mem EXCEPT ![m.mem_addr] = m.rd] ELSE mem

Loaded(m, mem) == IF IsAccess(m) THEN mem[m.mem_addr] ELSE 0

CacheMiss ==
  /\ IsAccess(core.ex_mem)
  /\ core' = handle_cache_miss(core)
  /\ UNCHANGED <<imem, data>>

Advance ==
  /\ core' = core_clock(core, imem, Loaded(core.ex_mem, data))
  /\ data' = Stored(core.ex_mem, data)
  /\ UNCHANGED imem

Next == CacheMiss \/ Advance

Spec == Init /\ [][Next]_pipelineVars
=============================================================================
