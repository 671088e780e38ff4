-------------------------- MODULE ProgramFlow_proofs --------------------------
(***************************************************************************)
(* Proofs about one core, for any word width and any program: what the ALU *)
(* returns, and that the stages hold a path of the program (CoreInv).      *)
(***************************************************************************)
EXTENDS ProgramFlow, TLAPS, NaturalsInduction, WellFoundedInduction

-----------------------------------------------------------------------------
(* Arithmetic.                                                             *)

LEMMA LeastElement ==
  ASSUME NEW T, T \subseteq Nat, T # {}
  PROVE  \E n \in T : \A m \in T : n <= m
<1> DEFINE R == OpToRel(<, Nat)
<1>1. IsWellFoundedOn(R, Nat)
  BY NatLessThanWellFounded
<1>2. \A m, n \in Nat : m < n => <<m, n>> \in R
  BY DEF OpToRel
<1> HIDE DEF R
<1>3. \E n \in T : \A m \in T : ~(<<m, n>> \in R)
  BY <1>1, WFMin, Zenon
<1>4. PICK n \in T : \A m \in T : ~(<<m, n>> \in R)
  BY <1>3
<1>5. \A m \in T : ~(m < n)
  BY <1>2, <1>4
<1>6. \A m \in T : n <= m
  BY <1>5
<1> QED
  BY <1>6

(* A property of 0 that passes from each number to the next, up to n.      *)
LEMMA UpTo ==
  ASSUME NEW n \in Nat, NEW S, 0 \in S, \A m \in 0 .. n - 1 : m \in S => m + 1 \in S
  PROVE  0 .. n \subseteq S
<1> DEFINE T == (0 .. n) \ S
<1>1. CASE T = {}
  BY <1>1
<1>2. CASE T # {}
  <2>0. T \subseteq Nat
    OBVIOUS
  <2>1. PICK k \in T : \A m \in T : k <= m
    <3> HIDE DEF T
    <3> QED
      BY <1>2, <2>0, LeastElement
  <2>2. k # 0 /\ k - 1 \in 0 .. n - 1 /\ k - 1 \notin T
    BY <2>1
  <2>3. k - 1 \in S
    BY <2>2
  <2>4. (k - 1) + 1 \in S
    BY <2>2, <2>3
  <2> QED
    BY <2>4, <2>1
<1> QED
  BY <1>1, <1>2

LEMMA PowersOfTwo ==
  /\ \A n \in 0 .. WIDTH : 2^n \in Nat \ {0}
  /\ \A n \in 0 .. WIDTH - 1 : 2^(n + 1) = 2 * 2^n
<1> DEFINE S == {n \in 0 .. WIDTH : 2^n \in Nat \ {0}}
<1>1. WIDTH \in Nat \ {0}
  BY IsaAssumption
<1>2. 2^0 = 1
  OBVIOUS
<1>3. 0 \in S
  BY <1>1, <1>2
<1>4. ASSUME NEW m \in 0 .. WIDTH - 1, m \in S PROVE m + 1 \in S
  <2>1. 2^(m + 1) = 2 * 2^m
    BY Doubling
  <2>2. 2^m \in Nat \ {0}
    BY <1>4
  <2>3. 2 * 2^m \in Nat \ {0}
    BY <2>2
  <2>4. 2^(m + 1) \in Nat \ {0}
    BY <2>1, <2>3
  <2>5. m + 1 \in 0 .. WIDTH
    BY <1>1
  <2> QED
    BY <2>4, <2>5
<1>5. 0 .. WIDTH \subseteq S
  BY <1>1, <1>3, <1>4, UpTo
<1> QED
  BY <1>5, Doubling

LEMMA WordSize == 2^WIDTH \in Nat \ {0} /\ Uint = 0 .. 2^WIDTH - 1
  BY PowersOfTwo, IsaAssumption DEF Uint

LEMMA WrapInUint == \A a \in Int : wrap(a) \in Uint
  BY WordSize DEF wrap
-----------------------------------------------------------------------------
(* What the ALU returns is a word.                                         *)

LEMMA Quotient ==
  ASSUME NEW a \in Int, NEW p \in Int, p > 0
  PROVE  /\ a \div p \in Int
         /\ \A q \in Int : (a + (q * p)) \div p = (a \div p) + q
         /\ 0 <= a => 0 <= a \div p /\ a \div p <= a
         /\ 0 <= a /\ a < p => a \div p = 0
<1>1. a \div p \in Int
  OBVIOUS
<1>2. \A q \in Int : (a + (q * p)) \div p = (a \div p) + q
  OBVIOUS
<1>3. 0 <= a => 0 <= a \div p /\ a \div p <= a
  OBVIOUS
<1>4. 0 <= a /\ a < p => a \div p = 0
  OBVIOUS
<1> QED
  BY <1>1, <1>2, <1>3, <1>4

LEMMA HigherPower ==
  ASSUME NEW i \in 0 .. WIDTH - 1, NEW m \in i + 1 .. WIDTH
  PROVE  \E q \in Nat : 2^m = (2 * q) * 2^i
<1> DEFINE d == (m - i) - 1
           E(j) == \E q \in Nat : 2^((i + 1) + j) = (2 * q) * 2^i
           S == {j \in 0 .. d : E(j)}
<1>0. WIDTH \in Nat /\ d \in Nat /\ (i + 1) + d = m /\ 2^i \in Nat
  BY PowersOfTwo, IsaAssumption
<1>1. 0 \in S
  <2>1. (i + 1) + 0 = i + 1 /\ 2^(i + 1) = 2 * 2^i
    BY PowersOfTwo
  <2>2. 2^((i + 1) + 0) = (2 * 1) * 2^i
    BY <2>1
  <2> QED
    BY <2>2, <1>0
<1>2. ASSUME NEW j \in 0 .. d - 1, j \in S PROVE j + 1 \in S
  <2>1. PICK q \in Nat : 2^((i + 1) + j) = (2 * q) * 2^i
    BY <1>2
  <2>2. (i + 1) + j \in 0 .. WIDTH - 1 /\ (i + 1) + (j + 1) = ((i + 1) + j) + 1
    BY <1>0
  <2>3. 2^((i + 1) + (j + 1)) = 2 * 2^((i + 1) + j)
    BY <2>2, PowersOfTwo
  <2>4. 2 * ((2 * q) * 2^i) = (2 * (2 * q)) * 2^i
    <3> DEFINE p == 2^i
    <3>1. p \in Nat
      BY <1>0
    <3> HIDE DEF p
    <3>2. 2 * ((2 * q) * p) = (2 * (2 * q)) * p
      BY <3>1
    <3> QED
      BY <3>2 DEF p
  <2>5. 2^((i + 1) + (j + 1)) = (2 * (2 * q)) * 2^i /\ 2 * q \in Nat
    BY <2>1, <2>3, <2>4
  <2>6. E(j + 1)
    BY <2>5
  <2> HIDE DEF E
  <2> QED
    BY <2>6, <1>0
<1>3. d \in S
  <2> HIDE DEF S, d
  <2> QED
    BY <1>0, <1>1, <1>2, UpTo
<1>4. 2^((i + 1) + d) = 2^m
  BY <1>0
<1> QED
  BY <1>3, <1>4

(* Every set of bit numbers is the set of bits of a word.                  *)
LEMMA WordOfBits ==
  ASSUME NEW B \in SUBSET (0 .. WIDTH - 1)
  PROVE  word(B) \in Uint /\ bits(word(B)) = B
<1> DEFINE Bit(a, i) == (a \div 2^i) % 2 = 1
           Below(n) == \A C \in SUBSET (0 .. n - 1) :
                         \E a \in 0 .. 2^n - 1 : \A i \in 0 .. n - 1 : Bit(a, i) <=> i \in C
           S == {n \in 0 .. WIDTH : Below(n)}
<1>0. WIDTH \in Nat /\ WIDTH # 0
  BY IsaAssumption
<1>1. 0 \in S
  <2>1. 2^0 = 1
    OBVIOUS
  <2>2. 0 \in 0 .. 2^0 - 1
    BY <2>1
  <2>3. 0 .. (0 - 1) = {}
    OBVIOUS
  <2>4. Below(0)
    BY <2>2, <2>3
  <2> QED
    BY <2>4, <1>0
<1>2. ASSUME NEW n \in 0 .. WIDTH - 1, n \in S PROVE n + 1 \in S
  <2> DEFINE P == 2^n
  <2>1. P \in Nat \ {0} /\ 2^(n + 1) = 2 * P
    BY PowersOfTwo, <1>0
  <2>2. ASSUME NEW C \in SUBSET (0 .. n)
        PROVE  \E a \in 0 .. 2 * P - 1 : \A i \in 0 .. n : Bit(a, i) <=> i \in C
    <3>1. PICK a \in 0 .. P - 1 : \A i \in 0 .. n - 1 : Bit(a, i) <=> i \in C \ {n}
      <4>1. C \ {n} \in SUBSET (0 .. n - 1)
        OBVIOUS
      <4> QED
        BY <1>2, <4>1
    <3>2. CASE n \notin C
      <4>1. a \div P = 0
        BY <2>1, Quotient
      <4>2. ~Bit(a, n)
        BY <4>1
      <4>3. \A i \in 0 .. n : Bit(a, i) <=> i \in C
        BY <3>1, <3>2, <4>2
      <4>4. a \in 0 .. 2 * P - 1
        BY <2>1
      <4> QED
        BY <4>3, <4>4
    <3>3. CASE n \in C
      <4>1. a + P \in 0 .. 2 * P - 1
        BY <2>1
      <4>2. a \div P = 0 /\ (a + (1 * P)) \div P = (a \div P) + 1
        BY <2>1, Quotient
      <4>3. Bit(a + P, n)
        <5>1. (a + P) \div P = 1
          BY <4>2, <2>1
        <5> QED
          BY <5>1
      <4>4. ASSUME NEW i \in 0 .. n - 1 PROVE Bit(a + P, i) <=> Bit(a, i)
        <5> DEFINE p == 2^i
        <5>1. p \in Nat \ {0}
          BY PowersOfTwo, <1>0
        <5>2. PICK q \in Nat : P = (2 * q) * p
          <6>1. i \in 0 .. WIDTH - 1 /\ n \in i + 1 .. WIDTH
            BY <1>0
          <6> QED
            BY HigherPower, <6>1
        <5>3. (a + ((2 * q) * p)) \div p = (a \div p) + 2 * q
          <6> HIDE DEF p
          <6>1. 2 * q \in Int /\ p \in Int /\ p > 0 /\ a \in Int
            BY <5>1
          <6> QED
            BY <6>1, Quotient
        <5>4. (a + P) \div p = (a \div p) + 2 * q /\ a \div p \in Int
          BY <5>1, <5>2, <5>3, Quotient
        <5>5. ASSUME NEW x \in Int PROVE (x + 2 * q) % 2 = x % 2
          OBVIOUS
        <5> QED
          BY <5>4, <5>5
      <4>5. \A i \in 0 .. n : Bit(a + P, i) <=> i \in C
        BY <3>1, <3>3, <4>3, <4>4
      <4> QED
        BY <4>1, <4>5
    <3> QED
      BY <3>2, <3>3
  <2>3. (n + 1) - 1 = n /\ n + 1 \in 0 .. WIDTH
    BY <1>0
  <2>4. Below(n + 1)
    BY <2>1, <2>2, <2>3
  <2> QED
    BY <2>3, <2>4
<1>3. WIDTH \in S
  <2> HIDE DEF S
  <2> QED
    BY <1>0, <1>1, <1>2, UpTo
<1>4. PICK a \in Uint : \A i \in 0 .. WIDTH - 1 : Bit(a, i) <=> i \in B
  BY <1>3 DEF Uint
<1>5. bits(a) = B
  BY <1>4 DEF bits
<1> QED
  BY <1>5 DEF word
LEMMA AluResult ==
  ASSUME NEW op \in AluOp, NEW a \in Uint, NEW b \in Uint
  PROVE  alu_execute(op, a, b) \in Uint
<1> DEFINE k == b % WIDTH
           p == 2^k
<1>1. a \in Int /\ b \in Int /\ a >= 0 /\ a \in 0 .. 2^WIDTH - 1
  BY WordSize
<1>2. k \in 0 .. WIDTH - 1
  BY <1>1, IsaAssumption
<1>3. p \in Nat \ {0}
  BY <1>2, PowersOfTwo, IsaAssumption
<1>4. bits(a) \in SUBSET (0 .. WIDTH - 1) /\ bits(b) \in SUBSET (0 .. WIDTH - 1)
  BY DEF bits
<1>5. signed(a) \in Int
  BY <1>1, WordSize DEF signed
<1> HIDE DEF p
<1>6. a + b \in Int /\ a - b \in Int /\ a * b \in Int /\ a * p \in Int /\ signed(a) \div p \in Int
  BY <1>1, <1>3, <1>5
<1>7. a \div p \in Uint
  <2>1. 0 <= a \div p /\ a \div p <= a /\ a \div p \in Int
    BY <1>1, <1>3, Quotient
  <2> QED
    BY <2>1, <1>1, WordSize
<1>8. CASE op = "add"
  BY <1>8, <1>6, WrapInUint DEF alu_execute
<1>9. CASE op = "sub"
  BY <1>9, <1>6, WrapInUint DEF alu_execute
<1>10. CASE op = "mul"
  BY <1>10, <1>6, WrapInUint DEF alu_execute
<1>11. CASE op = "and"
  <2>1. bits(a) \cap bits(b) \in SUBSET (0 .. WIDTH - 1)
    BY <1>4
  <2> QED
    BY <1>11, <2>1, WordOfBits DEF alu_execute
<1>12. CASE op = "or"
  <2>1. bits(a) \cup bits(b) \in SUBSET (0 .. WIDTH - 1)
    BY <1>4
  <2> QED
    BY <1>12, <2>1, WordOfBits DEF alu_execute
<1>13. CASE op = "xor"
  <2>1. (bits(a) \cup bits(b)) \ (bits(a) \cap bits(b)) \in SUBSET (0 .. WIDTH - 1)
    BY <1>4
  <2> QED
    BY <1>13, <2>1, WordOfBits DEF alu_execute
<1>14. CASE op = "sll"
  <2>1. alu_execute(op, a, b) = wrap(a * p)
    BY <1>14 DEF alu_execute, p
  <2> QED
    BY <2>1, <1>6, WrapInUint
<1>15. CASE op = "sra"
  <2>1. alu_execute(op, a, b) = wrap(signed(a) \div p)
    BY <1>15 DEF alu_execute, p
  <2> QED
    BY <2>1, <1>6, WrapInUint
<1>16. CASE op = "srl"
  <2>1. alu_execute(op, a, b) = a \div p
    BY <1>16 DEF alu_execute, p
  <2> QED
    BY <2>1, <1>7
<1> QED
  BY <1>8, <1>9, <1>10, <1>11, <1>12, <1>13, <1>14, <1>15, <1>16 DEF AluOp
-----------------------------------------------------------------------------
(* What the stages hand on is of their kind.                               *)

RegistersOK(r) == r \in [Register -> Uint] /\ r[0] = 0 /\ r[1] = 0

LEMMA Numbers ==
  /\ 0 \in Uint /\ 0 \in Register /\ 1 \in Register /\ Link \in Register /\ Link > 1
  /\ Register \subseteq Uint /\ \A r \in Register : r % 256 = r
  /\ \A a \in Uint : target(a) \in Pc
  /\ \A i \in Instruction : immediate(i) \in Uint
<1>1. /\ 0 \in Register /\ 1 \in Register /\ Link \in Register /\ Link > 1
      /\ \A r \in Register : r % 256 = r
  BY IsaAssumption DEF Register, Link
<1>2. 0 \in Uint /\ Register \subseteq Uint
  BY IsaAssumption, WordSize DEF Register
<1>3. \A a \in Uint : target(a) \in Pc
  BY IsaAssumption, WordSize DEF target, Pc
<1>4. \A i \in Instruction : i.imm \in Int
  <2>1. 2^IMMEDIATE_BITS \in Nat
    BY PowersOfTwo, IsaAssumption
  <2> QED
    BY <2>1 DEF Instruction
<1>5. \A i \in Instruction : immediate(i) \in Uint
  BY <1>4, WrapInUint DEF immediate
<1> QED
  BY <1>1, <1>2, <1>3, <1>5

LEMMA SetRegisterOK ==
  ASSUME NEW registers, RegistersOK(registers), NEW r \in Register, NEW v \in Uint
  PROVE  RegistersOK(SetRegister(registers, r, v))
  BY Numbers DEF RegistersOK, SetRegister

LEMMA NopIsEmpty == NOP \notin IF_ID \cup ID_EX \cup EX_MEM \cup MEM_WB
<1>1. "rd" \notin DOMAIN NOP /\ "instruction" \notin DOMAIN NOP
  BY DEF NOP
<1> QED
  BY <1>1 DEF IF_ID, ID_EX, EX_MEM, MEM_WB

LEMMA MemoryStage ==
  ASSUME NEW m \in {NOP} \cup EX_MEM, NEW loaded \in Uint
  PROVE  LET w == core_memory(m, loaded)
         IN  /\ w \in {NOP} \cup MEM_WB /\ (w = NOP <=> m = NOP)
             /\ m # NOP => w.pc = m.pc /\ w.rd = m.rd /\ w.write_reg = m.write_reg
<1>1. CASE m = NOP
  BY <1>1 DEF core_memory
<1>2. CASE m # NOP
  <2> DEFINE w == [pc |-> m.pc, write_data |-> IF m.is_mem_read THEN loaded ELSE m.alu_result,
                   rd |-> m.rd, write_reg |-> m.write_reg]
  <2>1. core_memory(m, loaded) = w
    BY <1>2 DEF core_memory
  <2>2. w \in MEM_WB
    BY <1>2 DEF EX_MEM, MEM_WB
  <2>3. w.pc = m.pc /\ w.rd = m.rd /\ w.write_reg = m.write_reg
    OBVIOUS
  <2> HIDE DEF w
  <2> QED
    BY <1>2, <2>1, <2>2, <2>3, NopIsEmpty
<1> QED
  BY <1>1, <1>2

LEMMA ExecuteStage ==
  ASSUME NEW e \in {NOP} \cup ID_EX
  PROVE  LET m == core_execute(e)
         IN  /\ m \in {NOP} \cup EX_MEM /\ (m = NOP <=> e = NOP)
             /\ e # NOP => m.pc = e.pc /\ m.rd = e.rd /\ m.write_reg = e.write_reg
<1>1. CASE e = NOP
  BY <1>1 DEF core_execute
<1>2. CASE e # NOP
  <2> DEFINE x == CASE e.opcode \in AluOp -> alu_execute(e.opcode, e.rs_value, e.rt_value)
                    [] e.opcode \in {"lw", "sw"} -> wrap(e.rs_value + e.rt_value)
                    [] OTHER -> 0
             m == [pc |-> e.pc, alu_result |-> x, rd |-> e.rd, mem_addr |-> x,
                   is_mem_read |-> e.opcode = "lw", is_mem_write |-> e.opcode = "sw",
                   write_reg |-> e.write_reg]
  <2>1. /\ e \in ID_EX /\ e.pc \in Pc /\ e.opcode \in Opcode /\ e.rd \in Uint
        /\ e.rs_value \in Uint /\ e.rt_value \in Uint /\ e.write_reg \in BOOLEAN
    BY <1>2 DEF ID_EX
  <2>2. x \in Uint
    <3>1. CASE e.opcode \in AluOp
      <4>1. e.opcode \notin {"lw", "sw"}
        BY <3>1 DEF AluOp
      <4>2. x = alu_execute(e.opcode, e.rs_value, e.rt_value)
        BY <3>1, <4>1
      <4> QED
        BY <3>1, <4>2, <2>1, AluResult
    <3>2. CASE e.opcode \in {"lw", "sw"}
      <4>1. e.rs_value + e.rt_value \in Int
        BY <2>1, WordSize
      <4>2. e.opcode \notin AluOp
        BY <3>2 DEF AluOp
      <4> QED
        BY <3>2, <4>1, <4>2, WrapInUint
    <3>3. CASE e.opcode \notin AluOp \cup {"lw", "sw"}
      BY <3>3, Numbers
    <3> QED
      BY <3>1, <3>2, <3>3
  <2>3. core_execute(e) = m
    BY <1>2 DEF core_execute
  <2> HIDE DEF x
  <2>4. m \in EX_MEM
    BY <2>1, <2>2 DEF EX_MEM
  <2>5. m.pc = e.pc /\ m.rd = e.rd /\ m.write_reg = e.write_reg
    OBVIOUS
  <2> HIDE DEF m
  <2> QED
    BY <1>2, <2>3, <2>4, <2>5, NopIsEmpty
<1> QED
  BY <1>1, <1>2

LEMMA OperandInUint ==
  ASSUME NEW k, RegistersOK(k.registers), NEW i \in Instruction, NEW r \in Register
  PROVE  Operand(k, i, r) \in Uint
  BY Numbers DEF Operand, RegistersOK

LEMMA DecodeStage ==
  ASSUME NEW k, RegistersOK(k.registers), k.if_id.pc \in Pc, NEW i \in Instruction
  PROVE  LET e == Decoded(k, i)
         IN  /\ e \in ID_EX /\ e # NOP /\ e.pc = k.if_id.pc
             /\ e.write_reg = write_reg(i.op) /\ (e.write_reg => e.rd = i.rd)
<1> DEFINE e == Decoded(k, i)
<1>1. i.op \in Opcode /\ i.rd \in Register /\ i.rs \in Register /\ i.rt \in Register
  BY DEF Instruction
<1>2. /\ Operand(k, i, i.rd) \in Uint /\ Operand(k, i, i.rs) \in Uint
      /\ Operand(k, i, i.rt) \in Uint
  BY <1>1, OperandInUint
<1>3. write_reg(i.op) \in BOOLEAN /\ (write_reg(i.op) => i.op # "sw")
  BY DEF write_reg, AluOp
<1>4. e \in ID_EX
  BY <1>1, <1>2, <1>3, Numbers DEF Decoded, ID_EX
<1>5. /\ e.pc = k.if_id.pc /\ e.write_reg = write_reg(i.op)
      /\ e.write_reg => e.rd = i.rd
  BY <1>3 DEF Decoded
<1> QED
  BY <1>4, <1>5, NopIsEmpty
-----------------------------------------------------------------------------
(* The fields of a core after a cycle without a miss: nothing in ID, a     *)
(* stall, or an instruction decoded.                                       *)

IsCore(k) == k = [f \in Fields |-> k[f]] /\ k.halted \in BOOLEAN

AfterStages(k, n, loaded) ==
  /\ IsCore(n)
  /\ n.mem_wb = core_memory(k.ex_mem, loaded) /\ n.ex_mem = core_execute(k.id_ex)

Fetched(k, p) == [pc |-> k.pc, instruction |-> p[k.pc]]

Fetches(k, n, p) ==
  /\ n.id_ex = NOP /\ n.registers = core_writeback(k)
  /\ n.halted = k.halted
  /\ n.if_id = IF k.halted THEN NOP ELSE Fetched(k, p)
  /\ n.pc = IF k.halted THEN -1 ELSE k.pc + 1

Waits(k, n) ==
  /\ n.id_ex = NOP /\ n.registers = core_writeback(k)
  /\ n.halted = k.halted /\ n.if_id = k.if_id /\ n.pc = k.pc

Decodes(k, n, p) ==
  LET i == k.if_id.instruction
  IN  /\ n.id_ex = Decoded(k, i)
      /\ n.registers = IF i.op = "jal" THEN [core_writeback(k) EXCEPT ![Link] = wrap(k.pc + 1)]
                       ELSE core_writeback(k)
      /\ n.halted = (k.halted \/ i.op = "halt")
      /\ n.if_id = IF n.halted THEN NOP ELSE Fetched(k, p)
      /\ n.pc = IF n.halted THEN -1 ELSE After(k, i)

LEMMA MissFields ==
  ASSUME NEW k, IsCore(k)
  PROVE  LET n == handle_cache_miss(k)
         IN  /\ IsCore(n)
             /\ n.registers = core_writeback(k) /\ n.mem_wb = NOP
             /\ n.ex_mem = k.ex_mem /\ n.id_ex = k.id_ex /\ n.if_id = k.if_id
             /\ n.halted = k.halted /\ n.pc = k.pc
  BY DEF IsCore, handle_cache_miss, Fields

LEMMA ClockFields ==
  ASSUME NEW k, IsCore(k), NEW p, NEW loaded
  PROVE  LET n == core_clock(k, p, loaded)
         IN  /\ AfterStages(k, n, loaded)
             /\ k.if_id = NOP => Fetches(k, n, p)
             /\ Stalls(k) => Waits(k, n)
             /\ k.if_id # NOP /\ ~Stalls(k) => Decodes(k, n, p)
<1> DEFINE i == k.if_id.instruction
           m == [k EXCEPT !.registers = core_writeback(k),
                          !.mem_wb = core_memory(k.ex_mem, loaded),
                          !.ex_mem = core_execute(k.id_ex)]
           n == core_clock(k, p, loaded)
<1>1. /\ IsCore(m)
      /\ m.registers = core_writeback(k) /\ m.mem_wb = core_memory(k.ex_mem, loaded)
      /\ m.ex_mem = core_execute(k.id_ex) /\ m.id_ex = k.id_ex /\ m.if_id = k.if_id
      /\ m.halted = k.halted /\ m.pc = k.pc
  BY DEF IsCore, Fields
<1>2. ASSUME NEW x, IsCore(x), NEW after
      PROVE  LET y == core_fetch(x, p, after)
             IN  /\ IsCore(y)
                 /\ y.registers = x.registers /\ y.mem_wb = x.mem_wb
                 /\ y.ex_mem = x.ex_mem /\ y.id_ex = x.id_ex /\ y.halted = x.halted
                 /\ y.if_id = IF x.halted THEN NOP ELSE Fetched(x, p)
                 /\ y.pc = IF x.halted THEN -1 ELSE after
  BY <1>2 DEF IsCore, core_fetch, Fields, Fetched
<1>3. n = CASE k.if_id = NOP -> core_fetch([m EXCEPT !.id_ex = NOP], p, k.pc + 1)
            [] Stalls(k)     -> stall_pipeline(m)
            [] OTHER         -> core_fetch(core_decode(k, i, m), p, After(k, i))
  BY DEF core_clock
<1> HIDE DEF m, n
<1>4. CASE k.if_id = NOP
  <2> DEFINE x == [m EXCEPT !.id_ex = NOP]
  <2>1. /\ IsCore(x)
        /\ x.registers = m.registers /\ x.mem_wb = m.mem_wb /\ x.ex_mem = m.ex_mem
        /\ x.id_ex = NOP /\ x.halted = m.halted /\ x.pc = m.pc
    BY <1>1 DEF IsCore, Fields
  <2> HIDE DEF x
  <2>2. ~Stalls(k)
    BY <1>4 DEF Stalls
  <2>3. n = core_fetch(x, p, k.pc + 1)
    BY <1>3, <1>4, <2>2 DEF x
  <2> QED
    BY <1>1, <1>2, <1>4, <2>1, <2>2, <2>3 DEF AfterStages, Fetched, Fetches, n
<1>5. CASE k.if_id # NOP /\ Stalls(k)
  <2>1. n = stall_pipeline(m)
    BY <1>3, <1>5
  <2>2. LET y == stall_pipeline(m)
        IN  /\ IsCore(y)
            /\ y.registers = m.registers /\ y.mem_wb = m.mem_wb /\ y.ex_mem = m.ex_mem
            /\ y.id_ex = NOP /\ y.if_id = m.if_id /\ y.halted = m.halted /\ y.pc = m.pc
    BY <1>1 DEF IsCore, stall_pipeline, Fields
  <2> QED
    BY <1>1, <1>5, <2>1, <2>2 DEF AfterStages, Waits, n
<1>6. CASE k.if_id # NOP /\ ~Stalls(k)
  <2> DEFINE x == core_decode(k, i, m)
  <2>1. /\ IsCore(x)
        /\ x.mem_wb = m.mem_wb /\ x.ex_mem = m.ex_mem
        /\ x.id_ex = Decoded(k, i) /\ x.halted = (m.halted \/ i.op = "halt") /\ x.pc = m.pc
        /\ x.registers = IF i.op = "jal" THEN [m.registers EXCEPT ![Link] = wrap(k.pc + 1)]
                         ELSE m.registers
    BY <1>1 DEF IsCore, core_decode, Fields
  <2> HIDE DEF x
  <2>2. n = core_fetch(x, p, After(k, i))
    BY <1>3, <1>6 DEF x
  <2> QED
    BY <1>1, <1>2, <1>6, <2>1, <2>2 DEF AfterStages, Fetched, Decodes, n
<1>7. Stalls(k) => k.if_id # NOP
  BY DEF Stalls
<1> QED
  BY <1>4, <1>5, <1>6, <1>7
-----------------------------------------------------------------------------
(* Every cycle keeps CoreInv.                                              *)

LEMMA WritebackOK ==
  ASSUME NEW p \in [Pc -> Instruction], NEW k, CoreInv(k, p)
  PROVE  RegistersOK(core_writeback(k))
<1>1. RegistersOK(k.registers) /\ k.mem_wb \in {NOP} \cup MEM_WB /\ Carries(k.mem_wb, p)
  BY DEF CoreInv, CoreTypeOK, RegistersOK
<1>2. CASE k.mem_wb # NOP /\ k.mem_wb.write_reg
  <2>1. k.mem_wb.pc \in Pc /\ k.mem_wb.write_data \in Uint
    BY <1>1, <1>2 DEF MEM_WB
  <2>2. k.mem_wb.rd \in Register
    BY <1>1, <1>2, <2>1 DEF Carries, Instruction
  <2> QED
    BY <1>1, <1>2, <2>1, <2>2, SetRegisterOK DEF core_writeback
<1>3. CASE ~(k.mem_wb # NOP /\ k.mem_wb.write_reg)
  BY <1>1, <1>3 DEF core_writeback
<1> QED
  BY <1>2, <1>3

LEMMA CarriesOn ==
  ASSUME NEW p, NEW a, NEW b, Carries(a, p), b = NOP <=> a = NOP,
         a # NOP => b.pc = a.pc /\ b.rd = a.rd /\ b.write_reg = a.write_reg
  PROVE  Carries(b, p)
  BY DEF Carries

(* The stages behind ID after a cycle without a miss.                      *)
LEMMA StagesMove ==
  ASSUME NEW p \in [Pc -> Instruction], NEW k, CoreInv(k, p), NEW loaded \in Uint
  PROVE  LET n == core_clock(k, p, loaded)
         IN  /\ n.ex_mem \in {NOP} \cup EX_MEM /\ Carries(n.ex_mem, p)
             /\ n.ex_mem = NOP <=> k.id_ex = NOP
             /\ k.id_ex # NOP => n.ex_mem.pc = k.id_ex.pc
             /\ n.mem_wb \in {NOP} \cup MEM_WB /\ Carries(n.mem_wb, p)
             /\ n.mem_wb = NOP <=> k.ex_mem = NOP
             /\ k.ex_mem # NOP => n.mem_wb.pc = k.ex_mem.pc
<1> DEFINE n == core_clock(k, p, loaded)
<1>1. IsCore(k) /\ k.id_ex \in {NOP} \cup ID_EX /\ k.ex_mem \in {NOP} \cup EX_MEM
  BY DEF CoreInv, CoreTypeOK, IsCore
<1>2. n.ex_mem = core_execute(k.id_ex) /\ n.mem_wb = core_memory(k.ex_mem, loaded)
  <2>1. AfterStages(k, n, loaded)
    BY <1>1, ClockFields
  <2> QED
    BY <2>1 DEF AfterStages
<1>3. Carries(k.id_ex, p) /\ Carries(k.ex_mem, p)
  BY DEF CoreInv
<1> HIDE DEF n
<1>4. /\ n.ex_mem \in {NOP} \cup EX_MEM /\ (n.ex_mem = NOP <=> k.id_ex = NOP)
      /\ k.id_ex # NOP => /\ n.ex_mem.pc = k.id_ex.pc /\ n.ex_mem.rd = k.id_ex.rd
                          /\ n.ex_mem.write_reg = k.id_ex.write_reg
  BY <1>1, <1>2, ExecuteStage
<1>5. /\ n.mem_wb \in {NOP} \cup MEM_WB /\ (n.mem_wb = NOP <=> k.ex_mem = NOP)
      /\ k.ex_mem # NOP => /\ n.mem_wb.pc = k.ex_mem.pc /\ n.mem_wb.rd = k.ex_mem.rd
                           /\ n.mem_wb.write_reg = k.ex_mem.write_reg
  BY <1>1, <1>2, MemoryStage
<1>6. Carries(n.ex_mem, p) /\ Carries(n.mem_wb, p)
  BY <1>3, <1>4, <1>5, CarriesOn
<1> QED
  BY <1>4, <1>5, <1>6 DEF n

LEMMA AfterIsReachable ==
  ASSUME NEW k, k.registers[0] = 0, RegistersOK(k.registers), NEW i \in Instruction
  PROVE  After(k, i) \in Afters(i, k.pc)
<1>1. i.rd \in Register
  BY DEF Instruction
<1>2. target(Operand(k, i, i.rd)) \in Pc
  BY <1>1, OperandInUint, Numbers
<1>3. i.rd = 1 => Operand(k, i, i.rd) = immediate(i)
  BY DEF Operand
<1>4. CASE i.op = "jal"
  <2>1. i.op \notin BranchOp
    BY <1>4 DEF BranchOp
  <2> QED
    BY <1>4, <2>1 DEF After, Afters
<1>5. CASE i.op \in BranchOp
  <2>1. i.op # "jal"
    BY <1>5 DEF BranchOp
  <2> QED
    BY <1>2, <1>3, <1>5, <2>1 DEF After, Afters
<1>6. CASE i.op # "jal" /\ i.op \notin BranchOp
  BY <1>6 DEF After, Afters
<1> QED
  BY <1>4, <1>5, <1>6
LEMMA CoreInvInit == \A p : CoreInv(core_init, p)
<1> DEFINE k == core_init
<1>1. /\ k = [f \in Fields |-> k[f]]
      /\ k.pc = 0 /\ k.registers = [r \in Register |-> 0] /\ k.halted = FALSE
      /\ k.if_id = NOP /\ k.id_ex = NOP /\ k.ex_mem = NOP /\ k.mem_wb = NOP
  BY DEF core_init, Fields
<1>2. 0 \in Pc
  BY IsaAssumption DEF Pc
<1> HIDE DEF k
<1>3. CoreTypeOK(k)
  BY <1>1, <1>2, Numbers DEF CoreTypeOK
<1> QED
  BY <1>1, <1>3 DEF CoreInv, Carries, Waited, k

LEMMA MissKeepsCoreInv ==
  ASSUME NEW p \in [Pc -> Instruction], NEW k, CoreInv(k, p), k.ex_mem # NOP
  PROVE  CoreInv(handle_cache_miss(k), p)
<1> DEFINE n == handle_cache_miss(k)
<1>1. CoreTypeOK(k) /\ IsCore(k)
  BY DEF CoreInv, CoreTypeOK, IsCore
<1>2. /\ IsCore(n)
      /\ n.registers = core_writeback(k) /\ n.mem_wb = NOP
      /\ n.ex_mem = k.ex_mem /\ n.id_ex = k.id_ex /\ n.if_id = k.if_id
      /\ n.halted = k.halted /\ n.pc = k.pc
  BY <1>1, MissFields
<1>3. RegistersOK(n.registers)
  BY <1>2, WritebackOK
<1> HIDE DEF n
<1>4. CoreTypeOK(n)
  BY <1>1, <1>2, <1>3 DEF CoreTypeOK, IsCore, RegistersOK
<1>5. k.if_id = NOP => k.halted
  <2>1. core_init.ex_mem = NOP
    BY DEF core_init
  <2> QED
    BY <2>1 DEF CoreInv, CoreTypeOK
<1>6. k.if_id # NOP => OnPath(n, p)
  <2>1. k.if_id # NOP => OnPath(k, p)
    BY DEF CoreInv
  <2> QED
    BY <1>2, <2>1 DEF OnPath
<1>7. Waited(n, p)
  <2>1. Waited(k, p)
    BY DEF CoreInv
  <2> QED
    BY <1>2, <2>1 DEF Waited
<1> QED
  BY <1>2, <1>4, <1>5, <1>6, <1>7 DEF CoreInv, Carries, n

(* The hazard check sees a writer whose flag it has.                       *)
LEMMA CheckSees ==
  ASSUME NEW i \in Instruction, NEW stage, stage # NOP, stage.rd \in Register,
         ~check_hazard_stage(i, stage, TRUE)
  PROVE  stage.rd \notin Sources(i)
<1>1. stage.rd % 256 = stage.rd
  BY Numbers
<1>2. i.rd \in Register /\ i.rs \in Register /\ i.rt \in Register
  BY DEF Instruction
<1> QED
  BY <1>1, <1>2 DEF check_hazard_stage, is_hazard_reg, Sources, Register

(* An instruction that is decoded needs nothing of a stage whose flag ID    *)
(* has: its own, or that of an instruction that writes, too.               *)
LEMMA DecodeHasWaited ==
  ASSUME NEW p \in [Pc -> Instruction], NEW k, CoreInv(k, p), k.if_id # NOP, ~Stalls(k)
  PROVE  LET i == k.if_id.instruction
             writes(w) == w # NOP /\ write_reg(p[w.pc].op)
         IN  /\ writes(k.id_ex) => ~Needs(i, p[k.id_ex.pc])
             /\ writes(k.ex_mem) /\ (k.id_ex = NOP \/ writes(k.id_ex)) =>
                  ~Needs(i, p[k.ex_mem.pc])
             /\ writes(k.mem_wb) /\ (k.ex_mem = NOP \/ writes(k.ex_mem)) =>
                  ~Needs(i, p[k.mem_wb.pc])
<1> DEFINE i == k.if_id.instruction
           writes(w) == w # NOP /\ write_reg(p[w.pc].op)
<1>1. /\ i \in Instruction
      /\ k.id_ex \in {NOP} \cup ID_EX /\ k.ex_mem \in {NOP} \cup EX_MEM
      /\ k.mem_wb \in {NOP} \cup MEM_WB
  BY DEF CoreInv, CoreTypeOK, IF_ID
<1>2. \A stage \in {k.id_ex, k.ex_mem, k.mem_wb} : Carries(stage, p)
  BY DEF CoreInv
<1>3. i.op \in HazardOp => /\ ~check_hazard_stage(i, k.id_ex, Writes(k.id_ex))
                           /\ ~check_hazard_stage(i, k.ex_mem, WriteRegOfMem(k))
                           /\ ~check_hazard_stage(i, k.mem_wb, WriteRegOfWb(k))
  BY DEF Stalls, check_data_hazards
<1> HIDE DEF i
<1>4. ASSUME NEW stage \in {k.id_ex, k.ex_mem, k.mem_wb}, writes(stage)
      PROVE  /\ stage.write_reg = TRUE
             /\ stage.rd \in Register /\ p[stage.pc].rd = stage.rd
  <2>1. stage.pc \in Pc /\ stage.write_reg \in BOOLEAN
    BY <1>1, <1>4 DEF ID_EX, EX_MEM, MEM_WB
  <2>2. stage.write_reg = TRUE
    BY <1>2, <1>4, <2>1 DEF Carries
  <2>3. stage.rd = p[stage.pc].rd
    BY <1>2, <1>4, <2>2 DEF Carries
  <2>4. p[stage.pc].rd \in Register
    BY <2>1 DEF Instruction
  <2> QED
    BY <2>2, <2>3, <2>4
<1>5. ASSUME NEW stage \in {k.id_ex, k.ex_mem, k.mem_wb}, writes(stage),
             i.op \in HazardOp => ~check_hazard_stage(i, stage, TRUE)
      PROVE  ~Needs(i, p[stage.pc])
  BY <1>1, <1>4, <1>5, CheckSees DEF Needs
<1>6. writes(k.id_ex) => ~Needs(i, p[k.id_ex.pc])
  <2> SUFFICES ASSUME writes(k.id_ex) PROVE ~Needs(i, p[k.id_ex.pc])
    OBVIOUS
  <2>1. Writes(k.id_ex) = TRUE
    BY <1>4 DEF Writes
  <2> QED
    BY <1>3, <1>5, <2>1
<1>7. (writes(k.ex_mem) /\ (k.id_ex = NOP \/ writes(k.id_ex))) => ~Needs(i, p[k.ex_mem.pc])
  <2> SUFFICES ASSUME writes(k.ex_mem), k.id_ex = NOP \/ writes(k.id_ex)
               PROVE  ~Needs(i, p[k.ex_mem.pc])
    OBVIOUS
  <2>1. WriteRegOfMem(k) = TRUE
    BY <1>4 DEF WriteRegOfMem, Writes
  <2> QED
    BY <1>3, <1>5, <2>1
<1>8. (writes(k.mem_wb) /\ (k.ex_mem = NOP \/ writes(k.ex_mem))) => ~Needs(i, p[k.mem_wb.pc])
  <2> SUFFICES ASSUME writes(k.mem_wb), k.ex_mem = NOP \/ writes(k.ex_mem)
               PROVE  ~Needs(i, p[k.mem_wb.pc])
    OBVIOUS
  <2>1. WriteRegOfWb(k) = TRUE
    BY <1>4 DEF WriteRegOfWb, Writes
  <2> QED
    BY <1>3, <1>5, <2>1
<1> QED
  BY <1>6, <1>7, <1>8 DEF i

LEMMA ClockKeepsWaited ==
  ASSUME NEW p \in [Pc -> Instruction], NEW k, CoreInv(k, p), NEW loaded \in Uint
  PROVE  Waited(core_clock(k, p, loaded), p)
<1> DEFINE n == core_clock(k, p, loaded)
           i == k.if_id.instruction
           writes(w) == w # NOP /\ write_reg(p[w.pc].op)
<1>1. IsCore(k) /\ Waited(k, p)
  BY DEF CoreInv, CoreTypeOK, IsCore
<1>2. /\ n.ex_mem = NOP <=> k.id_ex = NOP
      /\ k.id_ex # NOP => n.ex_mem.pc = k.id_ex.pc
      /\ n.mem_wb = NOP <=> k.ex_mem = NOP
      /\ k.ex_mem # NOP => n.mem_wb.pc = k.ex_mem.pc
  BY StagesMove
<1>3. (n.ex_mem # NOP /\ writes(n.mem_wb)) => ~Needs(p[n.ex_mem.pc], p[n.mem_wb.pc])
  <2> HIDE DEF n
  <2> QED
    BY <1>1, <1>2 DEF Waited
<1>4. CASE k.if_id = NOP \/ Stalls(k)
  <2>1. n.id_ex = NOP
    BY <1>1, <1>4, ClockFields DEF Fetches, Waits
  <2> HIDE DEF n
  <2>2. Waited(n, p)
    BY <1>3, <2>1 DEF Waited
  <2> QED
    BY <2>2 DEF n
<1>5. CASE k.if_id # NOP /\ ~Stalls(k)
  <2>1. n.id_ex = Decoded(k, i)
    BY <1>1, <1>5, ClockFields DEF Decodes
  <2>2. k.if_id.pc \in Pc /\ i = p[k.if_id.pc] /\ i \in Instruction /\ RegistersOK(k.registers)
    BY <1>5 DEF CoreInv, CoreTypeOK, IF_ID, RegistersOK
  <2>3. n.id_ex # NOP /\ p[n.id_ex.pc] = i
    BY <2>1, <2>2, DecodeStage
  <2>4. /\ writes(k.id_ex) => ~Needs(i, p[k.id_ex.pc])
        /\ writes(k.ex_mem) /\ (k.id_ex = NOP \/ writes(k.id_ex)) =>
             ~Needs(i, p[k.ex_mem.pc])
    BY <1>5, DecodeHasWaited
  <2> HIDE DEF n, i
  <2>5. Waited(n, p)
    BY <1>2, <1>3, <2>3, <2>4 DEF Waited
  <2> QED
    BY <2>5 DEF n
<1> QED
  BY <1>4, <1>5

LEMMA ClockKeepsCoreInv ==
  ASSUME NEW p \in [Pc -> Instruction], StaysInside(p), NEW k, CoreInv(k, p),
         NEW loaded \in Uint
  PROVE  CoreInv(core_clock(k, p, loaded), p)
<1> DEFINE n == core_clock(k, p, loaded)
           i == k.if_id.instruction
<1>1. CoreTypeOK(k) /\ IsCore(k) /\ RegistersOK(k.registers)
  BY DEF CoreInv, CoreTypeOK, IsCore, RegistersOK
<1>2. IsCore(n)
  <2>1. AfterStages(k, n, loaded)
    BY <1>1, ClockFields
  <2> QED
    BY <2>1 DEF AfterStages
<1>3. RegistersOK(core_writeback(k))
  BY WritebackOK
<1>4. /\ n.ex_mem \in {NOP} \cup EX_MEM /\ Carries(n.ex_mem, p)
      /\ n.ex_mem = NOP <=> k.id_ex = NOP
      /\ k.id_ex # NOP => n.ex_mem.pc = k.id_ex.pc
      /\ n.mem_wb \in {NOP} \cup MEM_WB /\ Carries(n.mem_wb, p)
      /\ n.mem_wb = NOP <=> k.ex_mem = NOP
      /\ k.ex_mem # NOP => n.mem_wb.pc = k.ex_mem.pc
  BY StagesMove
<1>5. /\ Flow(p) \subseteq Pc \X (Pc \cup {IMEM_SIZE}) /\ <<0, 1>> \in Flow(p)
      /\ \A s \in Flow(p) : Successors(p, s) \subseteq Flow(p)
  BY DEF StaysInside
<1>6. Waited(n, p)
  BY ClockKeepsWaited
<1>7. CASE k.if_id = NOP /\ k.halted
  <2>1. /\ n.id_ex = NOP /\ n.registers = core_writeback(k)
        /\ n.halted = k.halted /\ n.if_id = NOP /\ n.pc = -1
    <3>1. Fetches(k, n, p)
      BY <1>1, <1>7, ClockFields
    <3> QED
      BY <1>7, <3>1 DEF Fetches
  <2> HIDE DEF n
  <2>2. CoreTypeOK(n)
    BY <1>2, <1>3, <1>4, <1>7, <2>1 DEF CoreTypeOK, IsCore, RegistersOK
  <2>3. CoreInv(n, p)
    BY <1>6, <1>4, <1>7, <2>1, <2>2 DEF CoreInv, Carries
  <2> QED
    BY <2>3 DEF n
<1>8. CASE k.if_id = NOP /\ ~k.halted
  <2>1. /\ n.id_ex = NOP /\ n.registers = core_writeback(k)
        /\ n.halted = k.halted /\ n.if_id = Fetched(k, p) /\ n.pc = k.pc + 1
    <3>1. Fetches(k, n, p)
      BY <1>1, <1>8, ClockFields
    <3> QED
      BY <1>8, <3>1 DEF Fetches
  <2>2. k = core_init
    BY <1>8 DEF CoreInv
  <2>3. k.pc = 0 /\ k.id_ex = NOP /\ k.ex_mem = NOP
    BY <2>2 DEF core_init
  <2> HIDE DEF n
  <2>4. 0 \in Pc /\ 1 \in Pc \cup {IMEM_SIZE}
    BY IsaAssumption DEF Pc
  <2>5. n.if_id \in IF_ID /\ n.if_id.pc = 0 /\ n.if_id.instruction = p[n.if_id.pc] /\ n.pc = 1
    BY <2>1, <2>3, <2>4 DEF IF_ID, Fetched
  <2>6. CoreTypeOK(n)
    BY <1>2, <1>3, <1>4, <1>8, <2>1, <2>4, <2>5 DEF CoreTypeOK, IsCore, RegistersOK
  <2>7. OnPath(n, p)
    BY <1>4, <1>5, <2>1, <2>3, <2>5 DEF OnPath
  <2>8. CoreInv(n, p)
    BY <1>6, <1>4, <2>1, <2>5, <2>6, <2>7, NopIsEmpty DEF CoreInv, Carries
  <2> QED
    BY <2>8 DEF n
<1>9. CASE k.if_id # NOP
  <2>1. /\ k.if_id \in IF_ID /\ ~k.halted /\ k.if_id.pc \in Pc /\ k.pc \in Pc \cup {IMEM_SIZE}
        /\ i = p[k.if_id.pc] /\ i \in Instruction /\ OnPath(k, p)
    BY <1>1, <1>9 DEF CoreInv, CoreTypeOK, IF_ID
  <2>2. <<k.if_id.pc, k.pc>> \in Flow(p)
    BY <2>1 DEF OnPath
  <2>3. CASE Stalls(k)
    <3>1. /\ n.id_ex = NOP /\ n.registers = core_writeback(k)
          /\ n.halted = k.halted /\ n.if_id = k.if_id /\ n.pc = k.pc
      <4>1. Waits(k, n)
        BY <1>1, <2>3, ClockFields
      <4> QED
        BY <4>1 DEF Waits
    <3> HIDE DEF n
    <3>2. CoreTypeOK(n)
      BY <1>1, <1>2, <1>3, <1>4, <2>1, <3>1 DEF CoreTypeOK, IsCore, RegistersOK
    <3>3. OnPath(n, p)
      BY <1>4, <2>1, <3>1 DEF OnPath
    <3>4. CoreInv(n, p)
      BY <1>6, <1>4, <1>9, <2>1, <3>1, <3>2, <3>3 DEF CoreInv, Carries
    <3> QED
      BY <3>4 DEF n
  <2>4. CASE ~Stalls(k)
    <3>1. /\ n.id_ex = Decoded(k, i)
          /\ n.registers = IF i.op = "jal" THEN [core_writeback(k) EXCEPT ![Link] = wrap(k.pc + 1)]
                           ELSE core_writeback(k)
          /\ n.halted = (k.halted \/ i.op = "halt")
          /\ n.if_id = IF n.halted THEN NOP ELSE Fetched(k, p)
          /\ n.pc = IF n.halted THEN -1 ELSE After(k, i)
      <4>1. Decodes(k, n, p)
        BY <1>1, <1>9, <2>4, ClockFields
      <4> QED
        BY <4>1 DEF Decodes
    <3>2. /\ n.id_ex \in ID_EX /\ n.id_ex # NOP /\ n.id_ex.pc = k.if_id.pc
          /\ n.id_ex.write_reg = write_reg(i.op) /\ (n.id_ex.write_reg => n.id_ex.rd = i.rd)
      BY <1>1, <2>1, <3>1, DecodeStage
    <3>3. RegistersOK(n.registers)
      <4>1. wrap(k.pc + 1) \in Uint
        <5>1. k.pc + 1 \in Int
          BY <2>1, IsaAssumption DEF Pc
        <5> QED
          BY <5>1, WrapInUint
      <4> QED
        BY <1>3, <3>1, <4>1, Numbers DEF RegistersOK
    <3>4. Carries(n.id_ex, p)
      BY <2>1, <3>2 DEF Carries
    <3> DEFINE a == After(k, i)
    <3>5. a \in Afters(i, k.pc)
      BY <1>1, <2>1, AfterIsReachable DEF RegistersOK
    <3> HIDE DEF n, a
    <3>6. CASE i.op = "halt"
      <4>1. CoreTypeOK(n)
        BY <1>2, <1>4, <3>1, <3>2, <3>3, <3>6 DEF CoreTypeOK, IsCore, RegistersOK
      <4>2. CoreInv(n, p)
        BY <1>6, <1>4, <3>1, <3>4, <3>6, <4>1 DEF CoreInv
      <4> QED
        BY <4>2 DEF n
    <3>7. CASE i.op # "halt"
      <4>1. <<k.pc, a>> \in Successors(p, <<k.if_id.pc, k.pc>>)
        BY <2>1, <3>5, <3>7 DEF Successors
      <4>2. <<k.pc, a>> \in Flow(p)
        BY <1>5, <2>2, <4>1
      <4>3. k.pc \in Pc /\ a \in Pc \cup {IMEM_SIZE}
        BY <1>5, <4>2
      <4>4. n.halted = FALSE /\ n.if_id = Fetched(k, p) /\ n.pc = a
        BY <2>1, <3>1, <3>7 DEF a
      <4>5. n.if_id \in IF_ID /\ n.if_id.pc = k.pc /\ n.if_id.instruction = p[n.if_id.pc]
        BY <4>3, <4>4 DEF IF_ID, Fetched
      <4>6. CoreTypeOK(n)
        BY <1>2, <1>4, <3>2, <3>3, <4>3, <4>4, <4>5 DEF CoreTypeOK, IsCore, RegistersOK
      <4>7. OnPath(n, p)
        BY <1>4, <2>1, <2>2, <3>2, <4>1, <4>2, <4>4, <4>5 DEF OnPath, Leads
      <4>8. CoreInv(n, p)
        BY <1>6, <1>4, <3>4, <4>4, <4>5, <4>6, <4>7, NopIsEmpty DEF CoreInv
      <4> QED
        BY <4>8 DEF n
    <3> QED
      BY <3>6, <3>7
  <2> QED
    BY <2>3, <2>4
<1> QED
  BY <1>7, <1>8, <1>9
-----------------------------------------------------------------------------
(* A protected program decodes no instruction too early.                   *)

LEMMA ProtectedWindows ==
  ASSUME NEW p, Protected(p), NEW a, NEW b, NEW c, Leads(p, a, b, c), Writer(p[a]),
         ~Needs(p[b], p[a])
  PROVE  /\ Untouched(p[a], p[b])
         /\ \A d : Leads(p, b, c, d) =>
              /\ Clear(p[a], p[b], p[c])
              /\ \A e : (Leads(p, c, d, e) /\ ~Needs(p[c], p[a])) => Clear(p[a], p[b], p[d])
<1> DEFINE s == <<a, b>>
           t == <<b, c>>
<1>1. s \in Flow(p) /\ t \in Successors(p, s)
  BY DEF Leads
<1>2. /\ Untouched(p[a], p[b])
      /\ \A x \in Successors(p, s) : \A u \in Successors(p, x) :
           /\ Clear(p[a], p[b], p[u[1]])
           /\ ~Needs(p[u[1]], p[a]) =>
                \A v \in Successors(p, u) : Clear(p[a], p[b], p[v[1]])
  <2>1. s[1] = a /\ s[2] = b
    OBVIOUS
  <2> HIDE DEF s
  <2> QED
    BY <1>1, <2>1 DEF Protected
<1>3. \A u \in Successors(p, t) :
        /\ Clear(p[a], p[b], p[u[1]])
        /\ ~Needs(p[u[1]], p[a]) =>
             \A v \in Successors(p, u) : Clear(p[a], p[b], p[v[1]])
  BY <1>1, <1>2
<1>4. ASSUME NEW d, Leads(p, b, c, d)
      PROVE  /\ Clear(p[a], p[b], p[c])
             /\ \A e : (Leads(p, c, d, e) /\ ~Needs(p[c], p[a])) => Clear(p[a], p[b], p[d])
  <2> DEFINE u == <<c, d>>
  <2>1. u \in Successors(p, t) /\ u[1] = c
    BY <1>4 DEF Leads
  <2> HIDE DEF u
  <2>2. /\ Clear(p[a], p[b], p[c])
        /\ ~Needs(p[c], p[a]) => \A v \in Successors(p, u) : Clear(p[a], p[b], p[v[1]])
    BY <1>3, <2>1
  <2>3. ASSUME NEW e, Leads(p, c, d, e), ~Needs(p[c], p[a]) PROVE Clear(p[a], p[b], p[d])
    <3> DEFINE v == <<d, e>>
    <3>1. v \in Successors(p, u) /\ v[1] = d
      BY <2>3 DEF Leads, u
    <3> HIDE DEF v
    <3> QED
      BY <2>2, <2>3, <3>1
  <2> QED
    BY <2>2, <2>3
<1> QED
  BY <1>2, <1>4

LEMMA DecodesFresh ==
  ASSUME NEW p \in [Pc -> Instruction], Protected(p), NEW k, CoreInv(k, p),
         k.if_id # NOP, ~Stalls(k)
  PROVE  \A stage \in {k.id_ex, k.ex_mem, k.mem_wb} : Fresh(k.if_id.instruction, stage)
<1> DEFINE i == k.if_id.instruction
           a == k.if_id.pc
<1>1. /\ k.if_id \in IF_ID /\ a \in Pc /\ i = p[a] /\ i \in Instruction /\ OnPath(k, p)
      /\ k.id_ex \in {NOP} \cup ID_EX /\ k.ex_mem \in {NOP} \cup EX_MEM
      /\ k.mem_wb \in {NOP} \cup MEM_WB
  BY DEF CoreInv, CoreTypeOK, IF_ID
<1>2. \A stage \in {k.id_ex, k.ex_mem, k.mem_wb} : Carries(stage, p)
  BY DEF CoreInv
<1>3. ASSUME NEW stage \in {k.id_ex, k.ex_mem, k.mem_wb}, stage # NOP
      PROVE  /\ stage.pc \in Pc /\ stage.write_reg = write_reg(p[stage.pc].op)
             /\ (stage.write_reg /\ stage.rd > 1) =>
                  Writer(p[stage.pc]) /\ p[stage.pc].rd = stage.rd
  <2>1. stage.pc \in Pc
    BY <1>1, <1>3 DEF ID_EX, EX_MEM, MEM_WB
  <2> QED
    BY <1>2, <1>3, <2>1 DEF Carries, Writer, Instruction
<1>4. /\ k.id_ex # NOP => Leads(p, k.id_ex.pc, a, k.pc)
      /\ k.ex_mem # NOP =>
           /\ k.id_ex = NOP => Leads(p, k.ex_mem.pc, a, k.pc)
           /\ k.id_ex # NOP => Leads(p, k.ex_mem.pc, k.id_ex.pc, a)
      /\ k.mem_wb # NOP =>
           /\ k.ex_mem = NOP /\ k.id_ex = NOP => Leads(p, k.mem_wb.pc, a, k.pc)
           /\ k.ex_mem = NOP /\ k.id_ex # NOP => Leads(p, k.mem_wb.pc, k.id_ex.pc, a)
           /\ k.ex_mem # NOP /\ k.id_ex = NOP => Leads(p, k.mem_wb.pc, k.ex_mem.pc, a)
           /\ k.ex_mem # NOP /\ k.id_ex # NOP =>
                Leads(p, k.mem_wb.pc, k.ex_mem.pc, k.id_ex.pc)
  BY <1>1 DEF OnPath
<1> DEFINE writes(w) == w # NOP /\ write_reg(p[w.pc].op)
<1>5. /\ writes(k.id_ex) => ~Needs(i, p[k.id_ex.pc])
      /\ writes(k.ex_mem) /\ (k.id_ex = NOP \/ writes(k.id_ex)) => ~Needs(i, p[k.ex_mem.pc])
      /\ writes(k.mem_wb) /\ (k.ex_mem = NOP \/ writes(k.ex_mem)) => ~Needs(i, p[k.mem_wb.pc])
  BY DecodeHasWaited
<1>6. Waited(k, p)
  BY DEF CoreInv
<1> HIDE DEF i, a
<1>7. ASSUME NEW stage, stage # NOP, stage.write_reg, p[stage.pc].rd = stage.rd,
             Untouched(p[stage.pc], i), ~Needs(i, p[stage.pc])
      PROVE  Fresh(i, stage)
  <2>1. i.op \notin {"jal", "halt", "nop"} => i.op \in HazardOp
    BY <1>1 DEF Instruction, Opcode, HazardOp
  <2> QED
    BY <1>7, <2>1 DEF Fresh, Untouched, Needs
<1>8. Fresh(i, k.id_ex)
  <2> SUFFICES ASSUME k.id_ex # NOP, k.id_ex.write_reg, k.id_ex.rd > 1 PROVE Fresh(i, k.id_ex)
    BY DEF Fresh
  <2>1. writes(k.id_ex) /\ Writer(p[k.id_ex.pc]) /\ p[k.id_ex.pc].rd = k.id_ex.rd
    BY <1>3
  <2>2. ~Needs(i, p[k.id_ex.pc])
    BY <1>5, <2>1
  <2>3. Untouched(p[k.id_ex.pc], i)
    BY <1>1, <1>4, <2>1, <2>2, ProtectedWindows
  <2> QED
    BY <1>7, <2>1, <2>2, <2>3
<1>9. Fresh(i, k.ex_mem)
  <2> SUFFICES ASSUME k.ex_mem # NOP, k.ex_mem.write_reg, k.ex_mem.rd > 1
               PROVE  Fresh(i, k.ex_mem)
    BY DEF Fresh
  <2>1. writes(k.ex_mem) /\ Writer(p[k.ex_mem.pc]) /\ p[k.ex_mem.pc].rd = k.ex_mem.rd
    BY <1>3
  <2>2. CASE k.id_ex = NOP
    <3>1. ~Needs(i, p[k.ex_mem.pc])
      BY <1>5, <2>1, <2>2
    <3>2. Untouched(p[k.ex_mem.pc], i)
      BY <1>1, <1>4, <2>1, <2>2, <3>1, ProtectedWindows
    <3> QED
      BY <1>7, <2>1, <3>1, <3>2
  <2>3. CASE k.id_ex # NOP
    <3>1. ~Needs(p[k.id_ex.pc], p[k.ex_mem.pc])
      BY <1>6, <2>1, <2>3 DEF Waited
    <3>2. Clear(p[k.ex_mem.pc], p[k.id_ex.pc], i)
      BY <1>1, <1>4, <2>1, <2>3, <3>1, ProtectedWindows
    <3>3. ~Needs(i, p[k.ex_mem.pc])
      BY <1>5, <2>1, <2>3, <3>2 DEF Clear
    <3> QED
      BY <1>7, <2>1, <3>2, <3>3 DEF Clear
  <2> QED
    BY <2>2, <2>3
<1>10. Fresh(i, k.mem_wb)
  <2> SUFFICES ASSUME k.mem_wb # NOP, k.mem_wb.write_reg, k.mem_wb.rd > 1
               PROVE  Fresh(i, k.mem_wb)
    BY DEF Fresh
  <2>1. writes(k.mem_wb) /\ Writer(p[k.mem_wb.pc]) /\ p[k.mem_wb.pc].rd = k.mem_wb.rd
    BY <1>3
  <2>2. CASE k.ex_mem = NOP
    <3>1. ~Needs(i, p[k.mem_wb.pc])
      BY <1>5, <2>1, <2>2
    <3>2. Untouched(p[k.mem_wb.pc], i)
      <4>1. CASE k.id_ex = NOP
        BY <1>1, <1>4, <2>1, <2>2, <3>1, <4>1, ProtectedWindows
      <4>2. CASE k.id_ex # NOP
        <5>1. ~Needs(p[k.id_ex.pc], p[k.mem_wb.pc])
          BY <1>6, <2>1, <2>2, <4>2 DEF Waited
        <5>2. Clear(p[k.mem_wb.pc], p[k.id_ex.pc], i)
          BY <1>1, <1>4, <2>1, <2>2, <4>2, <5>1, ProtectedWindows
        <5> QED
          BY <3>1, <5>2 DEF Clear
      <4> QED
        BY <4>1, <4>2
    <3> QED
      BY <1>7, <2>1, <3>1, <3>2
  <2>3. CASE k.ex_mem # NOP
    <3>1. ~Needs(p[k.ex_mem.pc], p[k.mem_wb.pc])
      BY <1>6, <2>1, <2>3 DEF Waited
    <3>2. CASE k.id_ex = NOP
      <4>1. Clear(p[k.mem_wb.pc], p[k.ex_mem.pc], i)
        BY <1>1, <1>4, <2>1, <2>3, <3>1, <3>2, ProtectedWindows
      <4>2. ~Needs(i, p[k.mem_wb.pc])
        BY <1>5, <2>1, <2>3, <4>1 DEF Clear
      <4> QED
        BY <1>7, <2>1, <4>1, <4>2 DEF Clear
    <3>3. CASE k.id_ex # NOP
      <4>1. Clear(p[k.mem_wb.pc], p[k.ex_mem.pc], p[k.id_ex.pc])
        BY <1>4, <2>1, <2>3, <3>1, <3>3, ProtectedWindows
      <4>2. ~Needs(p[k.id_ex.pc], p[k.mem_wb.pc])
        BY <1>6, <2>1, <2>3, <3>3, <4>1 DEF Waited, Clear
      <4>3. Clear(p[k.mem_wb.pc], p[k.ex_mem.pc], i)
        BY <1>1, <1>4, <2>1, <2>3, <3>1, <3>3, <4>2, ProtectedWindows
      <4>4. ~Needs(i, p[k.mem_wb.pc])
        BY <1>5, <2>1, <2>3, <4>3 DEF Clear
      <4> QED
        BY <1>7, <2>1, <4>3, <4>4 DEF Clear
    <3> QED
      BY <3>2, <3>3
  <2> QED
    BY <2>2, <2>3
<1> QED
  BY <1>8, <1>9, <1>10 DEF i
-----------------------------------------------------------------------------
(* What an instruction hands to MEM: its result, and where it goes.        *)
Result(op, x, y) ==
  IF op \in AluOp THEN alu_execute(op, x, y)
  ELSE IF op \in {"lw", "sw"} THEN wrap(x + y) ELSE 0

LEMMA ExecutedFields ==
  ASSUME NEW k, NEW i
  PROVE  LET m == core_execute(Decoded(k, i))
         IN  /\ m # NOP /\ m.pc = k.if_id.pc
             /\ m.is_mem_read = (i.op = "lw") /\ m.is_mem_write = (i.op = "sw")
             /\ m.write_reg = write_reg(i.op)
             /\ m.rd = IF i.op = "sw" THEN Operand(k, i, i.rd) ELSE i.rd
             /\ m.alu_result = Result(i.op, Operand(k, i, i.rs), Operand(k, i, i.rt))
             /\ m.mem_addr = m.alu_result
<1> DEFINE e == Decoded(k, i)
           x == CASE e.opcode \in AluOp -> alu_execute(e.opcode, e.rs_value, e.rt_value)
                  [] e.opcode \in {"lw", "sw"} -> wrap(e.rs_value + e.rt_value)
                  [] OTHER -> 0
           m == [pc |-> e.pc, alu_result |-> x, rd |-> e.rd, mem_addr |-> x,
                 is_mem_read |-> e.opcode = "lw", is_mem_write |-> e.opcode = "sw",
                 write_reg |-> e.write_reg]
<1>1. "rd" \in DOMAIN e /\ "rd" \notin DOMAIN NOP
  BY DEF Decoded, NOP
<1>2. e # NOP
  BY <1>1
<1>3. /\ e.pc = k.if_id.pc /\ e.opcode = i.op /\ e.write_reg = write_reg(i.op)
      /\ e.rd = IF i.op = "sw" THEN Operand(k, i, i.rd) ELSE i.rd
      /\ e.rs_value = Operand(k, i, i.rs) /\ e.rt_value = Operand(k, i, i.rt)
  BY DEF Decoded
<1> HIDE DEF e
<1>4. core_execute(e) = m
  BY <1>2 DEF core_execute
<1>5. x = Result(i.op, Operand(k, i, i.rs), Operand(k, i, i.rt))
  <2>1. i.op \in AluOp => i.op \notin {"lw", "sw"}
    BY DEF AluOp
  <2> QED
    BY <1>3, <2>1 DEF Result
<1> HIDE DEF x
<1>6. /\ m.pc = e.pc /\ m.alu_result = x /\ m.rd = e.rd /\ m.mem_addr = x
      /\ m.is_mem_read = (e.opcode = "lw") /\ m.is_mem_write = (e.opcode = "sw")
      /\ m.write_reg = e.write_reg /\ "rd" \in DOMAIN m
  OBVIOUS
<1> HIDE DEF m
<1>7. m # NOP
  BY <1>1, <1>6
<1> QED
  BY <1>3, <1>4, <1>5, <1>6, <1>7 DEF e
-----------------------------------------------------------------------------
(* The registers r after WB has handled w.                                 *)
Written(r, w) ==
  IF w # NOP /\ w.write_reg THEN SetRegister(r, w.rd, w.write_data) ELSE r

WriteOK(w) ==
  w # NOP => w.write_data \in Uint /\ (w.write_reg => w.rd \in Register)

LEMMA WrittenOK ==
  ASSUME NEW r, RegistersOK(r), NEW w, WriteOK(w)
  PROVE  RegistersOK(Written(r, w))
  BY SetRegisterOK DEF Written, WriteOK

LEMMA WrittenKeeps ==
  ASSUME NEW r, RegistersOK(r), NEW w, WriteOK(w), NEW x \in Register,
         (w # NOP /\ w.write_reg /\ w.rd > 1) => w.rd # x
  PROVE  Written(r, w)[x] = r[x]
  BY DEF Written, WriteOK, SetRegister, RegistersOK

LEMMA WritebackIs == \A k : core_writeback(k) = Written(k.registers, k.mem_wb)
  BY DEF core_writeback, Written

LEMMA StageWrites ==
  ASSUME NEW p \in [Pc -> Instruction], NEW w \in {NOP} \cup MEM_WB, Carries(w, p)
  PROVE  WriteOK(w)
<1> SUFFICES ASSUME w # NOP PROVE w.write_data \in Uint /\ (w.write_reg => w.rd \in Register)
  BY DEF WriteOK
<1>1. w.pc \in Pc /\ w.write_data \in Uint
  BY DEF MEM_WB
<1>2. w.write_reg => w.rd = p[w.pc].rd
  BY DEF Carries
<1> QED
  BY <1>1, <1>2 DEF Instruction

-----------------------------------------------------------------------------
(* An instruction does the same with two register files that agree on the  *)
(* registers it reads.                                                     *)
Reads(i) == {i.rs, i.rt} \cup (IF i.op \in BranchOp \cup {"sw"} THEN {i.rd} ELSE {})

SameReads(i, r1, r2) ==
  i.op \notin {"jal", "halt", "nop"} => \A r \in Reads(i) : r > 1 => r1[r] = r2[r]

LEMMA FreshReads ==
  ASSUME NEW i \in Instruction, NEW r, RegistersOK(r), NEW w, WriteOK(w), Fresh(i, w)
  PROVE  SameReads(i, r, Written(r, w))
<1> SUFFICES ASSUME i.op \notin {"jal", "halt", "nop"}, NEW x \in Reads(i), x > 1
             PROVE  r[x] = Written(r, w)[x]
  BY DEF SameReads
<1>1. x \in Register
  BY DEF Reads, Instruction
<1>2. x \in Sources(i) \/ (i.op \in BranchOp /\ x = i.rd)
  BY DEF Reads, Sources
<1>3. (w # NOP /\ w.write_reg /\ w.rd > 1) => w.rd # x
  BY <1>2 DEF Fresh
<1> QED
  BY <1>1, <1>3, WrittenKeeps

LEMMA SameOperand ==
  ASSUME NEW i \in Instruction, NEW j, NEW k, RegistersOK(j.registers), RegistersOK(k.registers),
         SameReads(i, j.registers, k.registers), i.op \notin {"jal", "halt", "nop"},
         NEW r \in Reads(i)
  PROVE  Operand(j, i, r) = Operand(k, i, r)
<1>1. r \in Register
  BY DEF Reads, Instruction
<1>2. r = 0 \/ r = 1 \/ r > 1
  BY <1>1 DEF Register
<1> QED
  BY <1>2 DEF Operand, SameReads, RegistersOK

Outcome(e, x) ==
  [pc |-> e.pc, alu_result |-> x, rd |-> e.rd, mem_addr |-> x,
   is_mem_read |-> e.opcode = "lw", is_mem_write |-> e.opcode = "sw",
   write_reg |-> e.write_reg]

LEMMA ExecutedIs ==
  ASSUME NEW e, e # NOP
  PROVE  core_execute(e) = Outcome(e, Result(e.opcode, e.rs_value, e.rt_value))
<1> DEFINE x == CASE e.opcode \in AluOp -> alu_execute(e.opcode, e.rs_value, e.rt_value)
                  [] e.opcode \in {"lw", "sw"} -> wrap(e.rs_value + e.rt_value)
                  [] OTHER -> 0
<1>1. core_execute(e) = Outcome(e, x)
  BY DEF core_execute, Outcome
<1>2. e.opcode \in AluOp => e.opcode \notin {"lw", "sw"}
  BY DEF AluOp
<1>3. x = Result(e.opcode, e.rs_value, e.rt_value)
  BY <1>2 DEF Result
<1> QED
  BY <1>1, <1>3

LEMMA SameExecution ==
  ASSUME NEW i \in Instruction, NEW j, NEW k, RegistersOK(j.registers), RegistersOK(k.registers),
         SameReads(i, j.registers, k.registers), i.op # "jal"
  PROVE  /\ j.if_id.pc = k.if_id.pc => core_execute(Decoded(j, i)) = core_execute(Decoded(k, i))
         /\ j.pc = k.pc => After(j, i) = After(k, i)
<1>1. i.op \notin {"halt", "nop"} => \A r \in Reads(i) : Operand(j, i, r) = Operand(k, i, r)
  BY SameOperand
<1>2. ASSUME j.pc = k.pc PROVE After(j, i) = After(k, i)
  <2>1. i.op \in BranchOp => i.op \notin {"halt", "nop"} /\ {i.rs, i.rt, i.rd} \subseteq Reads(i)
    BY DEF BranchOp, Reads
  <2> QED
    BY <1>1, <1>2, <2>1 DEF After
<1>3. ASSUME j.if_id.pc = k.if_id.pc
      PROVE  core_execute(Decoded(j, i)) = core_execute(Decoded(k, i))
  <2> DEFINE d == Decoded(j, i)
             e == Decoded(k, i)
  <2>1. d # NOP /\ e # NOP
    <3>1. "rd" \in DOMAIN d /\ "rd" \in DOMAIN e /\ "rd" \notin DOMAIN NOP
      BY DEF Decoded, NOP
    <3> QED
      BY <3>1
  <2>2. /\ d.pc = e.pc /\ d.opcode = i.op /\ e.opcode = i.op /\ d.write_reg = e.write_reg
        /\ d.rs_value = Operand(j, i, i.rs) /\ d.rt_value = Operand(j, i, i.rt)
        /\ e.rs_value = Operand(k, i, i.rs) /\ e.rt_value = Operand(k, i, i.rt)
        /\ d.rd = IF i.op = "sw" THEN Operand(j, i, i.rd) ELSE i.rd
        /\ e.rd = IF i.op = "sw" THEN Operand(k, i, i.rd) ELSE i.rd
    BY <1>3 DEF Decoded
  <2>3. {i.rs, i.rt} \subseteq Reads(i) /\ (i.op = "sw" => i.rd \in Reads(i))
    BY DEF Reads
  <2>4. d.rd = e.rd
    BY <1>1, <2>2, <2>3
  <2>5. i.op \notin {"halt", "nop"} => d.rs_value = e.rs_value /\ d.rt_value = e.rt_value
    BY <1>1, <2>2, <2>3
  <2>6. i.op \in {"halt", "nop"} => i.op \notin AluOp \cup {"lw", "sw"}
    BY DEF AluOp
  <2> HIDE DEF d, e
  <2>7. /\ core_execute(d) = Outcome(d, Result(d.opcode, d.rs_value, d.rt_value))
        /\ core_execute(e) = Outcome(e, Result(e.opcode, e.rs_value, e.rt_value))
    BY <2>1, ExecutedIs
  <2>8. Result(d.opcode, d.rs_value, d.rt_value) = Result(e.opcode, e.rs_value, e.rt_value)
    BY <2>2, <2>5, <2>6 DEF Result
  <2> QED
    <3> DEFINE x == Result(d.opcode, d.rs_value, d.rt_value)
    <3>1. Outcome(d, x) = Outcome(e, x)
      BY <2>2, <2>4 DEF Outcome
    <3> QED
      BY <2>7, <2>8, <3>1 DEF d, e
<1> QED
  BY <1>2, <1>3
=============================================================================
