------------------------------ MODULE MCPipeline ------------------------------
(***************************************************************************)
(* Programs for TLC: four free instructions, then the core halts.          *)
(***************************************************************************)
EXTENDS PipelineCorrect

Instr(op, rd, rs, rt, imm) == [op |-> op, rd |-> rd, rs |-> rs, rt |-> rt, imm |-> imm]
HaltInstr == Instr("halt", 0, 0, 0, 0)

Length == 4
ProgramsOf(M) ==
  {[k \in 0 .. IMEM_SIZE - 1 |-> IF k < Length THEN p[k] ELSE HaltInstr] :
     p \in [0 .. Length - 1 -> M]}

Memory == [a \in 0 .. 2^WIDTH - 1 |-> (a + 3) % 2^WIDTH]

-----------------------------------------------------------------------------
Mixed == {
  Instr("add", 2, 2, 1, 1), Instr("sub", 3, 1, 2, 2), Instr("sll", 2, 3, 1, 1),
  Instr("lw", 2, 3, 1, 1), Instr("lw", 3, 2, 0, 0),
  Instr("sw", 2, 3, 0, 0), Instr("sw", 3, 1, 0, 2),
  Instr("beq", 1, 2, 3, 4), Instr("blt", 1, 3, 2, 3), Instr("jal", 4, 0, 0, 0),
  Instr("xor", 3, 7, 2, 0), Instr("nop", 0, 0, 0, 0) }

Hazards == {
  Instr("add", 2, 2, 1, 1), Instr("sw", 3, 1, 0, 2), Instr("lw", 3, 2, 0, 0),
  Instr("beq", 1, 2, 3, 3) }

MixedPrograms == {p \in ProgramsOf(Mixed) : Protected(p)}
HazardPrograms == ProgramsOf(Hazards)
=============================================================================
