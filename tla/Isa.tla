--------------------------------- MODULE Isa ---------------------------------
(***************************************************************************)
(* The instruction set of a core: what an instruction names and computes   *)
(* (core_decode, evaluate_branch in sim/core.c; sim/alu.c).  Opcodes are   *)
(* written as the assembler programs of counter/ and addserial/ write      *)
(* them, and an instruction word as the record of its fields; "nop" stands *)
(* for the opcodes the code gives no meaning (18, 19, above 20).           *)
(***************************************************************************)
EXTENDS Integers

CONSTANTS
  WIDTH,           \* bits of a word: 32 in the code
  IMMEDIATE_BITS,  \* 12 in the code
  NUM_REGISTERS,   \* 16 in the code
  IMEM_SIZE        \* 1024 in the code

ASSUME IsaAssumption ==
  /\ WIDTH \in Nat \ {0}
  /\ IMMEDIATE_BITS \in 1 .. WIDTH
  /\ NUM_REGISTERS \in 3 .. 256 /\ NUM_REGISTERS <= 2^WIDTH
  /\ IMEM_SIZE \in Nat \ {0}

(* What the powers of two are, for the provers, who have no definition of  *)
(* ^; no constant violates it.                                             *)
ASSUME Doubling == \A n \in 0 .. WIDTH - 1 : 2^(n + 1) = 2 * 2^n

Uint == 0 .. 2^WIDTH - 1
Register == 0 .. NUM_REGISTERS - 1
Link == NUM_REGISTERS - 1
Pc == 0 .. IMEM_SIZE - 1

AluOp == {"add", "sub", "and", "or", "xor", "mul", "sll", "sra", "srl"}
BranchOp == {"beq", "bne", "blt", "bgt", "ble", "bge"}
Opcode == AluOp \cup BranchOp \cup {"jal", "lw", "sw", "halt", "nop"}

Instruction == [op : Opcode, rd : Register, rs : Register, rt : Register,
                imm : 0 .. 2^IMMEDIATE_BITS - 1]

-----------------------------------------------------------------------------
signed(a) == IF a < 2^(WIDTH - 1) THEN a ELSE a - 2^WIDTH
wrap(a) == a % 2^WIDTH

bits(a) == {i \in 0 .. WIDTH - 1 : (a \div 2^i) % 2 = 1}
word(B) == CHOOSE a \in Uint : bits(a) = B

(* A shift looks at the lower bits of its second operand (5 of 32).        *)
alu_execute(op, a, b) ==
  LET k == b % WIDTH
  IN  CASE op = "add" -> wrap(a + b)
        [] op = "sub" -> wrap(a - b)
        [] op = "and" -> word(bits(a) \cap bits(b))
        [] op = "or"  -> word(bits(a) \cup bits(b))
        [] op = "xor" -> word((bits(a) \cup bits(b)) \ (bits(a) \cap bits(b)))
        [] op = "mul" -> wrap(a * b)
        [] op = "sll" -> wrap(a * 2^k)
        [] op = "sra" -> wrap(signed(a) \div 2^k)
        [] op = "srl" -> a \div 2^k

evaluate_branch(op, a, b) ==
  CASE op = "beq" -> a = b
    [] op = "bne" -> a # b
    [] op = "blt" -> signed(a) < signed(b)
    [] op = "bgt" -> signed(a) > signed(b)
    [] op = "ble" -> signed(a) <= signed(b)
    [] op = "bge" -> signed(a) >= signed(b)
    [] OTHER -> FALSE

(* The value of register 1 while instruction i is decoded.  The cast of    *)
(* the 12-bit field to int16_t leaves it as it is: never negative.         *)
immediate(i) == wrap(i.imm)

(* jal writes rd too, which is also its target: 0, the result of EX.       *)
write_reg(op) == op \in AluOp \cup {"jal", "lw"}

target(a) == a % IMEM_SIZE

(* A store to the register file: registers 0 and 1 are not written.        *)
SetRegister(registers, r, v) == IF r > 1 THEN [registers EXCEPT ![r] = v] ELSE registers
=============================================================================
