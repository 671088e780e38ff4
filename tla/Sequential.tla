------------------------------ MODULE Sequential ------------------------------
(***************************************************************************)
(* What the simulator promises its programmers: cores that complete one    *)
(* instruction before they begin the next, on one memory.  A branch takes  *)
(* effect after the instruction that follows it, as the programs of        *)
(* counter/ and addserial/ say where they fill the delay slot.             *)
(***************************************************************************)
EXTENDS Isa

CONSTANTS Core, DataIn

VARIABLES program, registers, memory, pc, next_pc

seqVars == <<program, registers, memory, pc, next_pc>>

(* Nothing follows a halt, and a core whose pc is -1 has halted.           *)
IsHalt(c, p) == p \notin Pc \/ program[c][p].op = "halt"
AllHalted == \A c \in Core : pc[c] \notin Pc
Following(c, p, next) == IF IsHalt(c, p) THEN -1 ELSE next

Init ==
  /\ program \in [Core -> [Pc -> Instruction]]
  /\ registers = [c \in Core |-> [r \in Register |-> 0]]
  /\ memory = DataIn
  /\ pc = [c \in Core |-> 0]
  /\ next_pc = [c \in Core |-> Following(c, 0, 1)]

R(c, i, r) == IF r = 1 THEN immediate(i) ELSE registers[c][r]
MemAddr(c, i) == wrap(R(c, i, i.rs) + R(c, i, i.rt))

GoOn(c, after) ==
  /\ pc' = [pc EXCEPT ![c] = next_pc[c]]
  /\ next_pc' = [next_pc EXCEPT ![c] = Following(c, next_pc[c], after)]
  /\ UNCHANGED program

Set(c, r, v) == registers' = [registers EXCEPT ![c] = SetRegister(@, r, v)]

Compute(c, i) ==
  /\ i.op \in AluOp
  /\ Set(c, i.rd, alu_execute(i.op, R(c, i, i.rs), R(c, i, i.rt)))
  /\ GoOn(c, next_pc[c] + 1) /\ UNCHANGED memory

Load(c, i) ==
  /\ i.op = "lw"
  /\ Set(c, i.rd, memory[MemAddr(c, i)])
  /\ GoOn(c, next_pc[c] + 1) /\ UNCHANGED memory

Store(c, i) ==
  /\ i.op = "sw"
  /\ memory' = [memory EXCEPT ![MemAddr(c, i)] = R(c, i, i.rd)]
  /\ GoOn(c, next_pc[c] + 1) /\ UNCHANGED registers

Branch(c, i) ==
  /\ i.op \in BranchOp
  /\ GoOn(c, IF evaluate_branch(i.op, R(c, i, i.rs), R(c, i, i.rt))
             THEN target(R(c, i, i.rd)) ELSE next_pc[c] + 1)
  /\ UNCHANGED <<registers, memory>>

Jump(c, i) ==
  /\ i.op = "jal"
  /\ registers' = [registers EXCEPT ![c] =
                     SetRegister(SetRegister(@, Link, wrap(next_pc[c] + 1)), i.rd, 0)]
  /\ GoOn(c, target(i.rd)) /\ UNCHANGED memory

NoOperation(c, i) ==
  /\ i.op = "nop"
  /\ GoOn(c, next_pc[c] + 1) /\ UNCHANGED <<registers, memory>>

Halt(c, i) ==
  /\ i.op = "halt"
  /\ GoOn(c, -1) /\ UNCHANGED <<registers, memory>>

Step(c) ==
  /\ pc[c] \in Pc
  /\ LET i == program[c][pc[c]]
     IN  \/ Compute(c, i) \/ Load(c, i) \/ Store(c, i) \/ Branch(c, i)
         \/ Jump(c, i) \/ NoOperation(c, i) \/ Halt(c, i)

Spec == Init /\ [][\E c \in Core : Step(c)]_seqVars
=============================================================================
