--------------------------- MODULE PipelineCorrect ---------------------------
(***************************************************************************)
(* What the pipeline of a core must not lose: the program's meaning.       *)
(***************************************************************************)
EXTENDS Pipeline, ProgramFlow

(* A core that has met its halt has nothing in IF/ID and no pc; registers  *)
(* 0 and 1 are never written; every stage holds a record of its kind.      *)
TypeOK ==
  /\ imem \in [Pc -> Instruction] /\ data \in [Uint -> Uint]
  /\ CoreTypeOK(core)

(* Why: what is in the stages comes from a path of the program.            *)
PipelineInvariant ==
  /\ imem \in [Pc -> Instruction] /\ data \in [Uint -> Uint]
  /\ CoreInv(core, imem)

(* The state the programmer sees between the decoding of two instructions: *)
(* everything that is in the pipeline behind ID completes.                 *)
InMem(k, m) == [k EXCEPT !.registers = core_writeback(k),
                         !.mem_wb = core_memory(m, Loaded(m, data))]
Executed == core_execute(core.id_ex)
AfterMem == Stored(core.ex_mem, data)
Drained ==
  LET k == InMem(core, core.ex_mem)
  IN  [k EXCEPT !.registers = core_writeback(k),
                !.mem_wb = core_memory(Executed, Loaded(Executed, AfterMem))]

Oldest == IF core.if_id # NOP THEN core.if_id.pc ELSE core.pc
Second == IF core.if_id # NOP THEN core.pc ELSE core.pc + 1

Seq == INSTANCE Sequential WITH
  Core <- {0},
  program <- [c \in {0} |-> imem],
  registers <- [c \in {0} |-> core_writeback(Drained)],
  memory <- Stored(Executed, AfterMem),
  pc <- [c \in {0} |-> Oldest],
  next_pc <- [c \in {0} |-> IF Oldest \notin Pc \/ imem[Oldest].op = "halt" THEN -1
                            ELSE Second]

(* A program computes in the pipeline what it computes one instruction at  *)
(* a time, whatever misses and stalls it meets.                            *)
ImplementsSequential == Seq!Spec

Decoding == Advance /\ core.if_id # NOP /\ core'.id_ex # NOP

(* README.md:143-146 and core.c:199, "all data hazards": no instruction is *)
(* decoded while an earlier one has still to write a register that it      *)
(* reads.                                                                  *)
NoStaleOperand ==
  [][LET i == core.if_id.instruction
     IN  (Decoding /\ i.op \notin {"jal", "halt", "nop"}) =>
           \A s \in {core.id_ex, core.ex_mem, core.mem_wb} :
             Writes(s) => s.rd \notin Sources(i)]_pipelineVars

-----------------------------------------------------------------------------
(* The main loop clocks every core again and again, and an access that is  *)
(* offered in every cycle does not miss for ever (AccessCompletes).        *)
FairSpec == Spec /\ WF_pipelineVars(Advance)

(* Every branch goes forward, over its delay slot at least.                *)
ForwardBranches ==
  \A a \in Pc : LET i == imem[a]
                IN  /\ i.op \in BranchOp => i.rd = 1 /\ i.imm > a + 1
                    /\ i.op = "jal" => i.rd > a + 1

(* A program without backward branches comes to its end: no hazard holds   *)
(* an instruction in ID for ever, not even one that check_data_hazards     *)
(* sees in the data of a store, and a halt empties the pipeline.           *)
Halts == ForwardBranches => <>Done(core)
=============================================================================
