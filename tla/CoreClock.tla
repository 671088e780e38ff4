------------------------------ MODULE CoreClock ------------------------------
(***************************************************************************)
(* One clock cycle of one core (core_clock in sim/core.c, with             *)
(* sim/register.c and sim/pipeline_regs.c) as a function of the core's     *)
(* state, a record with the fields of core_t.  The stages run from WB to   *)
(* IF on the values at the beginning of the cycle, Q, and the enabled      *)
(* registers then take their next value, D: the state returned holds the   *)
(* new Q, and a register that is not enabled keeps its value.  A pipeline  *)
(* register is NOP (pc = -1 in the code) or the record of its fields.      *)
(*                                                                         *)
(* The flags that are no registers (write_reg, is_mem_read, is_mem_write)  *)
(* change at once when their stage runs.  MEM, WB and EX read them before  *)
(* they change, so they belong to the record; decode reads write_reg after *)
(* MEM and EX have run (WriteRegOfMem, WriteRegOfWb).                      *)
(***************************************************************************)
EXTENDS Isa

NOP == [pc |-> -1]

IF_ID == [pc : Pc, instruction : Instruction]
ID_EX == [pc : Pc, opcode : Opcode, rd : Uint, rs_value : Uint, rt_value : Uint,
          write_reg : BOOLEAN]
EX_MEM == [pc : Pc, alu_result : Uint, rd : Uint, mem_addr : Uint,
           is_mem_read : BOOLEAN, is_mem_write : BOOLEAN, write_reg : BOOLEAN]
MEM_WB == [pc : Pc, write_data : Uint, rd : Uint, write_reg : BOOLEAN]

Fields == {"pc", "registers", "halted", "if_id", "id_ex", "ex_mem", "mem_wb"}

(* A core that has met its halt fetches and decodes nothing any more.      *)
CoreTypeOK(k) ==
  /\ k = [f \in Fields |-> k[f]]
  /\ k.registers \in [Register -> Uint] /\ k.registers[0] = 0 /\ k.registers[1] = 0
  /\ k.halted \in BOOLEAN
  /\ k.pc \in IF k.halted THEN {-1} ELSE Pc \cup {IMEM_SIZE}
  /\ k.if_id \in {NOP} \cup IF_ID
  /\ k.halted => k.if_id = NOP
  /\ k.id_ex \in {NOP} \cup ID_EX
  /\ k.ex_mem \in {NOP} \cup EX_MEM
  /\ k.mem_wb \in {NOP} \cup MEM_WB

core_init ==
  [pc |-> 0, registers |-> [r \in Register |-> 0], halted |-> FALSE,
   if_id |-> NOP, id_ex |-> NOP, ex_mem |-> NOP, mem_wb |-> NOP]

pipeline_is_empty(k) ==
  k.if_id = NOP /\ k.id_ex = NOP /\ k.ex_mem = NOP /\ k.mem_wb = NOP

(* Mutant: main does not wait for the pipeline to drain.                   *)
Bug_Done(k) == k.halted

(* core_run_pipeline and the end of main's loop: the core is done.         *)
Done(k) == k.halted /\ pipeline_is_empty(k)

-----------------------------------------------------------------------------
(* The register file after WB.                                             *)
core_writeback(k) ==
  IF k.mem_wb # NOP /\ k.mem_wb.write_reg
  THEN SetRegister(k.registers, k.mem_wb.rd, k.mem_wb.write_data) ELSE k.registers

IsAccess(m) == m # NOP /\ (m.is_mem_read \/ m.is_mem_write)

(* What MEM hands to WB, with no access or one that is ready.              *)
core_memory(m, loaded) ==
  IF m = NOP THEN NOP
  ELSE [pc |-> m.pc, write_data |-> IF m.is_mem_read THEN loaded ELSE m.alu_result,
        rd |-> m.rd, write_reg |-> m.write_reg]

core_execute(e) ==
  IF e = NOP THEN NOP
  ELSE LET result ==
             CASE e.opcode \in AluOp -> alu_execute(e.opcode, e.rs_value, e.rt_value)
               [] e.opcode \in {"lw", "sw"} -> wrap(e.rs_value + e.rt_value)
               [] OTHER -> 0
       IN  [pc |-> e.pc, alu_result |-> result, rd |-> e.rd, mem_addr |-> result,
            is_mem_read |-> e.opcode = "lw", is_mem_write |-> e.opcode = "sw",
            write_reg |-> e.write_reg]

-----------------------------------------------------------------------------
(* Hazard detection.  The rd of a store in a stage is the stored data.     *)
is_hazard_reg(reg, dest) == reg \notin {0, 1} /\ reg = dest % 256

check_hazard_stage(i, stage, flag) ==
  /\ flag /\ stage # NOP
  /\ \/ is_hazard_reg(i.rs, stage.rd)
     \/ is_hazard_reg(i.rt, stage.rd)
     \/ i.op = "sw" /\ is_hazard_reg(i.rd, stage.rd)

Writes(stage) == stage # NOP /\ stage.write_reg

(* The flag of EX/MEM has already been overwritten by the instruction in   *)
(* EX, and that of MEM/WB by the instruction in MEM.                       *)
WriteRegOfMem(k) == IF k.id_ex # NOP THEN k.id_ex.write_reg ELSE Writes(k.ex_mem)
WriteRegOfWb(k) == IF k.ex_mem # NOP THEN k.ex_mem.write_reg ELSE Writes(k.mem_wb)

HazardOp == AluOp \cup BranchOp \cup {"lw", "sw"}

(* Mutant: the registers are taken to be written before ID reads them.     *)
Bug_check_data_hazards(k, i) ==
  /\ i.op \in HazardOp
  /\ \/ check_hazard_stage(i, k.id_ex, Writes(k.id_ex))
     \/ check_hazard_stage(i, k.ex_mem, WriteRegOfMem(k))

check_data_hazards(k, i) ==
  /\ i.op \in HazardOp
  /\ \/ check_hazard_stage(i, k.id_ex, Writes(k.id_ex))
     \/ check_hazard_stage(i, k.ex_mem, WriteRegOfMem(k))
     \/ check_hazard_stage(i, k.mem_wb, WriteRegOfWb(k))

Stalls(k) == k.if_id # NOP /\ check_data_hazards(k, k.if_id.instruction)

-----------------------------------------------------------------------------
(* register_get_value during decode.                                       *)
Operand(k, i, r) == IF r = 1 THEN immediate(i) ELSE k.registers[r]

Decoded(k, i) ==
  [pc |-> k.if_id.pc, opcode |-> i.op,
   rd |-> IF i.op = "sw" THEN Operand(k, i, i.rd) ELSE i.rd,
   rs_value |-> Operand(k, i, i.rs), rt_value |-> Operand(k, i, i.rt),
   write_reg |-> write_reg(i.op)]

(* Mutant: a halted core goes on fetching.                                 *)
Bug_core_fetch(n, program, after) ==
  [n EXCEPT !.if_id = [pc |-> n.pc, instruction |-> program[n.pc]], !.pc = after]

(* core_fetch; `after' is the next pc, set by a branch in ID or not.       *)
core_fetch(n, program, after) ==
  IF n.halted THEN [n EXCEPT !.if_id = NOP, !.pc = -1]
  ELSE [n EXCEPT !.if_id = [pc |-> n.pc, instruction |-> program[n.pc]], !.pc = after]

(* Mutant: the stall holds ID/EX and puts no bubble there.                 *)
Bug_stall_pipeline(n) == n

(* stall_pipeline: a bubble to EX; what IF fetches is not taken.           *)
stall_pipeline(n) == [n EXCEPT !.id_ex = NOP]

(* Where IF goes on after the instruction fetched in this cycle.           *)
After(k, i) ==
  CASE /\ i.op \in BranchOp
       /\ evaluate_branch(i.op, Operand(k, i, i.rs), Operand(k, i, i.rt))
         -> target(Operand(k, i, i.rd))
    [] i.op = "jal" -> target(i.rd)
    [] OTHER -> k.pc + 1

(* What decode leaves of state n when it forwards instruction i.           *)
core_decode(k, i, n) ==
  [n EXCEPT !.id_ex = Decoded(k, i),
            !.halted = @ \/ i.op = "halt",
            !.registers = IF i.op = "jal" THEN [@ EXCEPT ![Link] = wrap(k.pc + 1)]
                          ELSE @]

-----------------------------------------------------------------------------
(* Mutant: EX goes on and overwrites the access in EX/MEM.                 *)
Bug_handle_cache_miss(k) ==
  [k EXCEPT !.registers = core_writeback(k), !.mem_wb = NOP,
            !.ex_mem = core_execute(k.id_ex)]

(* A bubble to WB, the stages before MEM stand still.                      *)
handle_cache_miss(k) == [k EXCEPT !.registers = core_writeback(k), !.mem_wb = NOP]

(* A cycle in which MEM does not miss; `loaded' is the word it has read.   *)
core_clock(k, program, loaded) ==
  LET n == [k EXCEPT !.registers = core_writeback(k),
                     !.mem_wb = core_memory(k.ex_mem, loaded),
                     !.ex_mem = core_execute(k.id_ex)]
      i == k.if_id.instruction
  IN  CASE k.if_id = NOP -> core_fetch([n EXCEPT !.id_ex = NOP], program, k.pc + 1)
        [] Stalls(k)     -> stall_pipeline(n)
        [] OTHER         -> core_fetch(core_decode(k, i, n), program, After(k, i))
=============================================================================
