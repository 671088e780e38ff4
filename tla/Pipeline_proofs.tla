--------------------------- MODULE Pipeline_proofs ---------------------------
(***************************************************************************)
(* Proofs about one core on its own, for any word width and any programs:  *)
(* its state is well formed when no program runs off the end of memory,    *)
(* and it implements the sequential machine when the hazard check protects *)
(* the programs.                                                           *)
(***************************************************************************)
EXTENDS PipelineCorrect, ProgramFlow_proofs

PipelineInv == imem \in Programs /\ PipelineInvariant

-----------------------------------------------------------------------------
(* The memory behind the core.                                             *)

MemoryOK(mem) == mem \in [Uint -> Uint]

LEMMA AccessTypes ==
  ASSUME NEW m \in {NOP} \cup EX_MEM, NEW mem, MemoryOK(mem)
  PROVE  MemoryOK(Stored(m, mem)) /\ Loaded(m, mem) \in Uint
<1>1. CASE m = NOP
  BY <1>1, Numbers DEF Stored, Loaded, IsAccess
<1>2. CASE m # NOP
  <2>1. m.mem_addr \in Uint /\ m.rd \in Uint
    BY <1>2 DEF EX_MEM
  <2> QED
    BY <2>1, Numbers DEF Stored, Loaded, MemoryOK
<1> QED
  BY <1>1, <1>2

LEMMA PipelineInit ==
  ASSUME Init
  PROVE  PipelineInv
  BY CoreInvInit, PipelineAssumption DEF Init, PipelineInv, PipelineInvariant

LEMMA PipelineStep ==
  ASSUME \A p \in Programs : StaysInside(p), PipelineInv, [Next]_pipelineVars
  PROVE  PipelineInv'
<1>1. /\ imem \in Programs /\ imem \in [Pc -> Instruction] /\ StaysInside(imem)
      /\ MemoryOK(data) /\ CoreInv(core, imem)
  BY DEF PipelineInv, PipelineInvariant, MemoryOK
<1>2. core.ex_mem \in {NOP} \cup EX_MEM
  BY <1>1 DEF CoreInv, CoreTypeOK
<1>3. CASE CacheMiss
  <2>1. CoreInv(core', imem)
    BY <1>1, <1>3, MissKeepsCoreInv DEF CacheMiss, IsAccess
  <2> QED
    BY <1>1, <1>3, <2>1 DEF CacheMiss, PipelineInv, PipelineInvariant, MemoryOK
<1>4. CASE Advance
  <2>1. MemoryOK(data') /\ Loaded(core.ex_mem, data) \in Uint
    BY <1>1, <1>2, <1>4, AccessTypes DEF Advance
  <2>2. CoreInv(core', imem)
    BY <1>1, <1>4, <2>1, ClockKeepsCoreInv DEF Advance
  <2> QED
    BY <1>1, <1>4, <2>1, <2>2 DEF Advance, PipelineInv, PipelineInvariant, MemoryOK
<1>5. CASE UNCHANGED pipelineVars
  BY <1>5, <1>1 DEF pipelineVars, PipelineInv, PipelineInvariant, MemoryOK
<1> QED
  BY <1>3, <1>4, <1>5 DEF Next

(* The stages of a core hold consecutive instructions of a path of its     *)
(* program, whatever misses and stalls come between, when the program does *)
(* not run off the end of instruction memory (core_clock).                 *)
THEOREM StagesHoldAPath ==
  ASSUME \A p \in Programs : StaysInside(p)
  PROVE  Spec => []PipelineInvariant
<1>1. Init => PipelineInv
  BY PipelineInit
<1>2. PipelineInv /\ [Next]_pipelineVars => PipelineInv'
  BY PipelineStep
<1>3. PipelineInv => PipelineInvariant
  BY DEF PipelineInv
<1> QED
  BY <1>1, <1>2, <1>3, PTL DEF Spec

(* The state of such a core is well formed: a halted core has nothing in   *)
(* IF/ID and no pc, registers 0 and 1 are never written, and every stage   *)
(* and every word of memory holds a value of its kind.                     *)
THEOREM PipelineTypeCorrect ==
  ASSUME \A p \in Programs : StaysInside(p)
  PROVE  Spec => []TypeOK
<1>1. PipelineInvariant => TypeOK
  BY DEF PipelineInvariant, TypeOK, CoreInv
<1> QED
  BY <1>1, StagesHoldAPath, PTL

-----------------------------------------------------------------------------
(* README.md:143-146: while the hazard check protects the programs, no     *)
(* instruction is decoded while an earlier one has still to write a        *)
(* register that it reads.                                                 *)
THEOREM NoStaleOperandHolds ==
  ASSUME \A p \in Programs : Protected(p)
  PROVE  Spec => NoStaleOperand
<1> DEFINE i == core.if_id.instruction
           NoneStale == (Decoding /\ i.op \notin {"jal", "halt", "nop"}) =>
                      \A s \in {core.id_ex, core.ex_mem, core.mem_wb} :
                        Writes(s) => s.rd \notin Sources(i)
<1>1. \A p \in Programs : StaysInside(p)
  BY DEF Protected
<1>2. Init => PipelineInv
  BY PipelineInit
<1>3. PipelineInv /\ [Next]_pipelineVars => PipelineInv'
  BY <1>1, PipelineStep
<1>4. ASSUME PipelineInv PROVE NoneStale
  <2>1. SUFFICES ASSUME Advance, core.if_id # NOP, core'.id_ex # NOP,
                        i.op \notin {"jal", "halt", "nop"},
                        NEW s \in {core.id_ex, core.ex_mem, core.mem_wb}, Writes(s)
                 PROVE  s.rd \notin Sources(i)
    BY DEF Decoding
  <2>2. imem \in [Pc -> Instruction] /\ Protected(imem) /\ CoreInv(core, imem)
    BY <1>4 DEF PipelineInv, PipelineInvariant
  <2>3. IsCore(core)
    BY <2>2 DEF CoreInv, CoreTypeOK, IsCore
  <2>4. ~Stalls(core)
    <3>1. core' = core_clock(core, imem, Loaded(core.ex_mem, data))
      BY <2>1 DEF Advance
    <3>2. Stalls(core) => Waits(core, core')
      BY <2>3, <3>1, ClockFields
    <3> QED
      BY <2>1, <3>2 DEF Waits
  <2>5. Fresh(i, s)
    BY <2>1, <2>2, <2>4, DecodesFresh
  <2>6. \A r \in Sources(i) : r > 1
    BY DEF Sources
  <2> QED
    BY <2>1, <2>5, <2>6 DEF Fresh, Writes
<1>5. PipelineInv => [NoneStale]_pipelineVars
  BY <1>4
<1> QED
  BY <1>2, <1>3, <1>5, PTL DEF Spec, NoStaleOperand
-----------------------------------------------------------------------------
(* The registers and the memory when everything behind ID has completed.   *)

(* What WB writes when the instruction m in MEM gets there.                *)
InWb(m, mem) == core_memory(m, Loaded(m, mem))

AllWritten(k, mem) ==
  LET e == core_execute(k.id_ex)
  IN  Written(Written(Written(k.registers, k.mem_wb), InWb(k.ex_mem, mem)),
              InWb(e, Stored(k.ex_mem, mem)))

AllStored(k, mem) == Stored(core_execute(k.id_ex), Stored(k.ex_mem, mem))

LEMMA WrittenCommutes ==
  ASSUME NEW r, RegistersOK(r), NEW w, WriteOK(w), NEW v \in Uint,
         (w # NOP /\ w.write_reg /\ w.rd > 1) => w.rd # Link
  PROVE  Written([r EXCEPT ![Link] = v], w) = [Written(r, w) EXCEPT ![Link] = v]
  BY Numbers DEF Written, WriteOK, SetRegister, RegistersOK

LEMMA LinkOK ==
  ASSUME NEW r, RegistersOK(r), NEW v \in Uint
  PROVE  RegistersOK([r EXCEPT ![Link] = v]) /\ SetRegister(r, Link, v) = [r EXCEPT ![Link] = v]
  BY Numbers DEF RegistersOK, SetRegister

(* The three writes that are on their way.                                 *)
LEMMA WritesUnderWay ==
  ASSUME NEW p \in [Pc -> Instruction], NEW k, CoreInv(k, p), NEW mem, MemoryOK(mem)
  PROVE  LET e == core_execute(k.id_ex)
             u == InWb(k.ex_mem, mem)
             v == InWb(e, Stored(k.ex_mem, mem))
         IN  /\ WriteOK(k.mem_wb) /\ WriteOK(u) /\ WriteOK(v)
             /\ u = NOP <=> k.ex_mem = NOP
             /\ k.ex_mem # NOP => u.rd = k.ex_mem.rd /\ u.write_reg = k.ex_mem.write_reg
             /\ v = NOP <=> k.id_ex = NOP
             /\ k.id_ex # NOP => v.rd = k.id_ex.rd /\ v.write_reg = k.id_ex.write_reg
             /\ RegistersOK(k.registers) /\ MemoryOK(Stored(k.ex_mem, mem))
             /\ MemoryOK(AllStored(k, mem))
<1> DEFINE e == core_execute(k.id_ex)
           mem1 == Stored(k.ex_mem, mem)
           u == InWb(k.ex_mem, mem)
           v == InWb(e, mem1)
<1>1. /\ k.id_ex \in {NOP} \cup ID_EX /\ k.ex_mem \in {NOP} \cup EX_MEM
      /\ k.mem_wb \in {NOP} \cup MEM_WB /\ RegistersOK(k.registers)
      /\ Carries(k.id_ex, p) /\ Carries(k.ex_mem, p) /\ Carries(k.mem_wb, p)
  BY DEF CoreInv, CoreTypeOK, RegistersOK
<1>2. /\ e \in {NOP} \cup EX_MEM /\ (e = NOP <=> k.id_ex = NOP)
      /\ k.id_ex # NOP => /\ e.pc = k.id_ex.pc /\ e.rd = k.id_ex.rd
                          /\ e.write_reg = k.id_ex.write_reg
  BY <1>1, ExecuteStage
<1> HIDE DEF e
<1>3. MemoryOK(mem1) /\ Loaded(k.ex_mem, mem) \in Uint
  BY <1>1, AccessTypes
<1> HIDE DEF mem1
<1>4. MemoryOK(Stored(e, mem1)) /\ Loaded(e, mem1) \in Uint
  BY <1>2, <1>3, AccessTypes
<1>5. /\ u \in {NOP} \cup MEM_WB /\ (u = NOP <=> k.ex_mem = NOP)
      /\ k.ex_mem # NOP => /\ u.pc = k.ex_mem.pc /\ u.rd = k.ex_mem.rd
                           /\ u.write_reg = k.ex_mem.write_reg
  BY <1>1, <1>3, MemoryStage DEF InWb
<1>6. /\ v \in {NOP} \cup MEM_WB /\ (v = NOP <=> e = NOP)
      /\ e # NOP => v.pc = e.pc /\ v.rd = e.rd /\ v.write_reg = e.write_reg
  BY <1>2, <1>4, MemoryStage DEF InWb
<1> HIDE DEF u, v
<1>7. ASSUME NEW a, Carries(a, p), a.pc \in Pc, a # NOP, a.write_reg
      PROVE  a.rd \in Register
  BY <1>7 DEF Carries, Instruction
<1>8. WriteOK(k.mem_wb)
  BY <1>1, <1>7 DEF WriteOK, MEM_WB
<1>9. WriteOK(u)
  <2>1. k.ex_mem # NOP => k.ex_mem.pc \in Pc
    BY <1>1 DEF EX_MEM
  <2> QED
    BY <1>1, <1>5, <1>7, <2>1 DEF WriteOK, MEM_WB
<1>10. WriteOK(v)
  <2>1. k.id_ex # NOP => k.id_ex.pc \in Pc
    BY <1>1 DEF ID_EX
  <2> QED
    BY <1>1, <1>2, <1>6, <1>7, <2>1 DEF WriteOK, MEM_WB
<1>11. MemoryOK(AllStored(k, mem))
  BY <1>4 DEF AllStored, e, mem1
<1> QED
  BY <1>1, <1>2, <1>3, <1>5, <1>6, <1>8, <1>9, <1>10, <1>11 DEF e, mem1, u, v
LEMMA NothingWritten ==
  /\ \A r : Written(r, NOP) = r
  /\ \A mem : InWb(NOP, mem) = NOP /\ Stored(NOP, mem) = mem
  /\ core_execute(NOP) = NOP
  BY DEF Written, InWb, core_memory, Stored, core_execute

LEMMA MissDrains ==
  ASSUME NEW k, IsCore(k), NEW mem
  PROVE  /\ AllWritten(handle_cache_miss(k), mem) = AllWritten(k, mem)
         /\ AllStored(handle_cache_miss(k), mem) = AllStored(k, mem)
  BY MissFields, WritebackIs, NothingWritten DEF AllWritten, AllStored

(* A cycle without a miss, from k to n, but for what it decodes.           *)
Drains(k, n, mem) ==
  LET m == Stored(k.ex_mem, mem)
      u == InWb(k.ex_mem, mem)
      v == InWb(core_execute(k.id_ex), m)
      x == core_execute(n.id_ex)
  IN  /\ AllStored(n, m) = Stored(x, AllStored(k, mem))
      /\ AllWritten(n, m) = Written(Written(Written(n.registers, u), v), InWb(x, AllStored(k, mem)))
      /\ AllWritten(k, mem) = Written(Written(core_writeback(k), u), v)

LEMMA ClockDrains ==
  ASSUME NEW p, NEW k, IsCore(k), NEW mem
  PROVE  Drains(k, core_clock(k, p, Loaded(k.ex_mem, mem)), mem)
<1> DEFINE n == core_clock(k, p, Loaded(k.ex_mem, mem))
<1>1. AfterStages(k, n, Loaded(k.ex_mem, mem))
  BY ClockFields
<1>2. n.mem_wb = InWb(k.ex_mem, mem) /\ n.ex_mem = core_execute(k.id_ex)
  BY <1>1 DEF AfterStages, InWb
<1> HIDE DEF n
<1>3. AllStored(k, mem) = Stored(n.ex_mem, Stored(k.ex_mem, mem))
  BY <1>2 DEF AllStored
<1> QED
  BY <1>2, <1>3, WritebackIs DEF Drains, AllStored, AllWritten, n

LEMMA StallDrains ==
  ASSUME NEW p, NEW k, IsCore(k), NEW mem, k.if_id = NOP \/ Stalls(k)
  PROVE  LET n == core_clock(k, p, Loaded(k.ex_mem, mem))
             m == Stored(k.ex_mem, mem)
         IN  AllStored(n, m) = AllStored(k, mem) /\ AllWritten(n, m) = AllWritten(k, mem)
<1> DEFINE n == core_clock(k, p, Loaded(k.ex_mem, mem))
<1>1. Fetches(k, n, p) \/ Waits(k, n)
  BY ClockFields
<1>2. n.id_ex = NOP /\ n.registers = core_writeback(k)
  BY <1>1 DEF Fetches, Waits
<1> DEFINE m == Stored(k.ex_mem, mem)
           u == InWb(k.ex_mem, mem)
           v == InWb(core_execute(k.id_ex), m)
           x == core_execute(n.id_ex)
<1>3. /\ AllStored(n, m) = Stored(x, AllStored(k, mem))
      /\ AllWritten(n, m) = Written(Written(Written(n.registers, u), v), InWb(x, AllStored(k, mem)))
      /\ AllWritten(k, mem) = Written(Written(core_writeback(k), u), v)
  <2>1. Drains(k, n, mem)
    BY ClockDrains
  <2> QED
    BY <2>1 DEF Drains
<1>4. x = NOP
  BY <1>2, NothingWritten
<1> HIDE DEF n, m, u, v, x
<1>5. AllStored(n, m) = AllStored(k, mem) /\ AllWritten(n, m) = AllWritten(k, mem)
  BY <1>2, <1>3, <1>4, NothingWritten
<1> QED
  BY <1>5 DEF n, m

(* The instruction that is decoded, on top of all that is under way.       *)
LEMMA DecodeDrains ==
  ASSUME NEW p \in [Pc -> Instruction], Protected(p), NEW k, CoreInv(k, p),
         NEW mem, MemoryOK(mem), k.if_id # NOP, ~Stalls(k)
  PROVE  LET n == core_clock(k, p, Loaded(k.ex_mem, mem))
             m == Stored(k.ex_mem, mem)
             i == k.if_id.instruction
             x == core_execute(Decoded(k, i))
             v == wrap(k.pc + 1)
             A == AllWritten(k, mem)
             B == IF i.op = "jal" THEN SetRegister(A, Link, v) ELSE A
         IN  /\ RegistersOK(A)
             /\ AllStored(n, m) = Stored(x, AllStored(k, mem))
             /\ AllWritten(n, m) = Written(B, InWb(x, AllStored(k, mem)))
<1> DEFINE n == core_clock(k, p, Loaded(k.ex_mem, mem))
           m == Stored(k.ex_mem, mem)
           i == k.if_id.instruction
           x == core_execute(Decoded(k, i))
           w == wrap(k.pc + 1)
           u == InWb(k.ex_mem, mem)
           v == InWb(core_execute(k.id_ex), m)
           R == core_writeback(k)
           A == AllWritten(k, mem)
<1>1. IsCore(k) /\ k.pc \in Int
  BY IsaAssumption DEF CoreInv, CoreTypeOK, IsCore, Pc
<1>2. Decodes(k, n, p)
  BY <1>1, ClockFields
<1>3. /\ n.id_ex = Decoded(k, i)
      /\ n.registers = IF i.op = "jal" THEN [R EXCEPT ![Link] = w] ELSE R
  BY <1>2 DEF Decodes
<1>4. /\ AllStored(n, m) = Stored(x, AllStored(k, mem))
      /\ AllWritten(n, m) = Written(Written(Written(n.registers, u), v), InWb(x, AllStored(k, mem)))
      /\ A = Written(Written(R, u), v)
  <2> DEFINE y == core_execute(n.id_ex)
  <2>1. /\ AllStored(n, m) = Stored(y, AllStored(k, mem))
        /\ AllWritten(n, m) = Written(Written(Written(n.registers, u), v), InWb(y, AllStored(k, mem)))
        /\ AllWritten(k, mem) = Written(Written(core_writeback(k), u), v)
    <3>1. Drains(k, n, mem)
      BY <1>1, ClockDrains
    <3> QED
      BY <3>1 DEF Drains
  <2>2. y = x
    BY <1>3
  <2> HIDE DEF n, m, u, v, x, y
  <2> QED
    BY <2>1, <2>2
<1>5. RegistersOK(R)
  BY WritebackOK
<1>6. /\ WriteOK(u) /\ WriteOK(v)
      /\ u = NOP <=> k.ex_mem = NOP
      /\ k.ex_mem # NOP => u.rd = k.ex_mem.rd /\ u.write_reg = k.ex_mem.write_reg
      /\ v = NOP <=> k.id_ex = NOP
      /\ k.id_ex # NOP => v.rd = k.id_ex.rd /\ v.write_reg = k.id_ex.write_reg
  BY WritesUnderWay
<1>7. w \in Uint
  BY <1>1, WrapInUint
<1>8. Fresh(i, k.id_ex) /\ Fresh(i, k.ex_mem)
  BY DecodesFresh
<1> HIDE DEF n, m, i, x, w, u, v, R, A
<1>9. RegistersOK(Written(R, u)) /\ RegistersOK(A)
  BY <1>4, <1>5, <1>6, WrittenOK
<1>10. CASE i.op = "jal"
  <2>1. /\ (u # NOP /\ u.write_reg /\ u.rd > 1) => u.rd # Link
        /\ (v # NOP /\ v.write_reg /\ v.rd > 1) => v.rd # Link
    BY <1>6, <1>8, <1>10 DEF Fresh
  <2>2. Written([R EXCEPT ![Link] = w], u) = [Written(R, u) EXCEPT ![Link] = w]
    BY <1>5, <1>6, <1>7, <2>1, WrittenCommutes
  <2>3. Written([Written(R, u) EXCEPT ![Link] = w], v) = [A EXCEPT ![Link] = w]
    BY <1>4, <1>6, <1>7, <1>9, <2>1, WrittenCommutes
  <2>4. SetRegister(A, Link, w) = [A EXCEPT ![Link] = w]
    BY <1>7, <1>9, LinkOK
  <2>5. Written(Written(n.registers, u), v) = SetRegister(A, Link, w)
    BY <1>3, <1>10, <2>2, <2>3, <2>4
  <2> QED
    BY <1>4, <1>9, <1>10, <2>5 DEF n, m, i, x, w, A
<1>11. CASE i.op # "jal"
  <2>1. Written(Written(n.registers, u), v) = A
    BY <1>3, <1>4, <1>11
  <2> QED
    BY <1>4, <1>9, <1>11, <2>1 DEF n, m, i, x, w, A
<1> QED
  BY <1>10, <1>11
LEMMA Effect ==
  ASSUME NEW k, NEW i, NEW A, NEW mem
  PROVE  LET x == core_execute(Decoded(k, i))
             a == Operand(k, i, i.rs)
             b == Operand(k, i, i.rt)
             W == Written(A, InWb(x, mem))
         IN  /\ i.op \in AluOp => W = SetRegister(A, i.rd, alu_execute(i.op, a, b))
             /\ i.op = "lw" => W = SetRegister(A, i.rd, mem[wrap(a + b)])
             /\ i.op = "jal" => W = SetRegister(A, i.rd, 0)
             /\ ~write_reg(i.op) => W = A
             /\ i.op = "sw" => Stored(x, mem) = [mem EXCEPT ![wrap(a + b)] = Operand(k, i, i.rd)]
             /\ i.op # "sw" => Stored(x, mem) = mem
<1> DEFINE x == core_execute(Decoded(k, i))
           a == Operand(k, i, i.rs)
           b == Operand(k, i, i.rt)
           d == Operand(k, i, i.rd)
           w == InWb(x, mem)
<1>1. /\ x # NOP
      /\ x.is_mem_read = (i.op = "lw") /\ x.is_mem_write = (i.op = "sw")
      /\ x.write_reg = write_reg(i.op) /\ x.rd = IF i.op = "sw" THEN d ELSE i.rd
      /\ x.alu_result = Result(i.op, a, b) /\ x.mem_addr = Result(i.op, a, b)
  BY ExecutedFields
<1> HIDE DEF x, a, b, d
<1>2. /\ w # NOP /\ w.rd = x.rd /\ w.write_reg = x.write_reg
      /\ w.write_data = IF x.is_mem_read THEN Loaded(x, mem) ELSE x.alu_result
  <2>1. w = [pc |-> x.pc,
             write_data |-> IF x.is_mem_read THEN Loaded(x, mem) ELSE x.alu_result,
             rd |-> x.rd, write_reg |-> x.write_reg]
    BY <1>1 DEF InWb, core_memory
  <2>2. "rd" \in DOMAIN w /\ "rd" \notin DOMAIN NOP
    BY <2>1 DEF NOP
  <2> QED
    BY <2>1, <2>2
<1>3. i.op = "lw" => Loaded(x, mem) = mem[x.mem_addr]
  BY <1>1 DEF Loaded, IsAccess
<1> HIDE DEF w
<1>4. Written(A, w) = IF write_reg(i.op) THEN SetRegister(A, x.rd, w.write_data) ELSE A
  BY <1>1, <1>2 DEF Written
<1>5. i.op \in AluOp => i.op # "lw" /\ i.op # "sw"
  BY DEF AluOp
<1>6. i.op \in AluOp => Written(A, w) = SetRegister(A, i.rd, alu_execute(i.op, a, b))
  BY <1>1, <1>2, <1>4, <1>5 DEF Result, write_reg
<1>7. i.op = "lw" => Written(A, w) = SetRegister(A, i.rd, mem[wrap(a + b)])
  BY <1>1, <1>2, <1>3, <1>4, <1>5 DEF Result, write_reg
<1>8. i.op = "jal" => Written(A, w) = SetRegister(A, i.rd, 0)
  <2>1. "jal" \notin AluOp
    BY DEF AluOp
  <2> QED
    BY <2>1, <1>1, <1>2, <1>4 DEF Result, write_reg
<1>9. i.op = "sw" => Stored(x, mem) = [mem EXCEPT ![wrap(a + b)] = d]
  BY <1>1, <1>5 DEF Stored, Result
<1>10. i.op # "sw" => Stored(x, mem) = mem
  BY <1>1 DEF Stored
<1> QED
  BY <1>4, <1>6, <1>7, <1>8, <1>9, <1>10 DEF x, a, b, d, w

(* ID reads what the registers hold when all that is under way is written. *)
LEMMA OperandIsCurrent ==
  ASSUME NEW p \in [Pc -> Instruction], Protected(p), NEW k, CoreInv(k, p),
         NEW mem, MemoryOK(mem), k.if_id # NOP, ~Stalls(k),
         k.if_id.instruction.op \notin {"jal", "halt", "nop"}, NEW r \in Register,
         LET i == k.if_id.instruction
         IN  \/ r \in {i.rs, i.rt}
             \/ i.op \in BranchOp \cup {"sw"} /\ r = i.rd
  PROVE  Operand(k, k.if_id.instruction, r)
           = IF r = 1 THEN immediate(k.if_id.instruction) ELSE AllWritten(k, mem)[r]
<1> DEFINE i == k.if_id.instruction
           e == core_execute(k.id_ex)
           u == InWb(k.ex_mem, mem)
           v == InWb(e, Stored(k.ex_mem, mem))
           A1 == Written(k.registers, k.mem_wb)
           A2 == Written(A1, u)
           A3 == Written(A2, v)
<1>1. AllWritten(k, mem) = A3
  BY DEF AllWritten
<1>2. /\ WriteOK(k.mem_wb) /\ WriteOK(u) /\ WriteOK(v)
      /\ u = NOP <=> k.ex_mem = NOP
      /\ k.ex_mem # NOP => u.rd = k.ex_mem.rd /\ u.write_reg = k.ex_mem.write_reg
      /\ v = NOP <=> k.id_ex = NOP
      /\ k.id_ex # NOP => v.rd = k.id_ex.rd /\ v.write_reg = k.id_ex.write_reg
      /\ RegistersOK(k.registers)
  BY WritesUnderWay
<1>3. \A stage \in {k.id_ex, k.ex_mem, k.mem_wb} : Fresh(i, stage)
  BY DecodesFresh
<1> HIDE DEF u, v
<1>4. RegistersOK(A1) /\ RegistersOK(A2) /\ RegistersOK(A3)
  BY <1>2, WrittenOK
<1>5. CASE r = 1
  BY <1>5 DEF Operand
<1>6. CASE r = 0
  BY <1>1, <1>2, <1>4, <1>6 DEF Operand, RegistersOK
<1>7. CASE r > 1
  <2>1. r \in Sources(i) \/ (i.op \in BranchOp /\ r = i.rd)
    BY <1>7 DEF Sources
  <2>2. ASSUME NEW stage \in {k.id_ex, k.ex_mem, k.mem_wb}
        PROVE  (stage # NOP /\ stage.write_reg /\ stage.rd > 1) => stage.rd # r
    BY <1>3, <2>1 DEF Fresh
  <2> HIDE DEF i
  <2>3. A1[r] = k.registers[r]
    BY <1>2, <2>2, WrittenKeeps
  <2>4. (u # NOP /\ u.write_reg /\ u.rd > 1) => u.rd # r
    BY <1>2, <2>2
  <2>5. (v # NOP /\ v.write_reg /\ v.rd > 1) => v.rd # r
    BY <1>2, <2>2
  <2> HIDE DEF A1
  <2>6. A2[r] = A1[r]
    BY <1>2, <1>4, <2>4, WrittenKeeps
  <2> HIDE DEF A2
  <2>7. A3[r] = A2[r]
    BY <1>2, <1>4, <2>5, WrittenKeeps
  <2> HIDE DEF A3
  <2> QED
    BY <1>1, <1>7, <2>3, <2>6, <2>7 DEF Operand
<1>8. r = 0 \/ r = 1 \/ r > 1
  BY DEF Register
<1> QED
  BY <1>5, <1>6, <1>7, <1>8
-----------------------------------------------------------------------------
(* The pipeline implements the sequential machine: decoding is the step of *)
(* an instruction, every other cycle a stutter.                            *)

NextPc == IF Oldest \notin Pc \/ imem[Oldest].op = "halt" THEN -1 ELSE Second

LEMMA MappedState ==
  IsCore(core) => /\ core_writeback(Drained) = AllWritten(core, data)
                  /\ Stored(Executed, AfterMem) = AllStored(core, data)
<1> SUFFICES ASSUME IsCore(core)
             PROVE  /\ core_writeback(Drained) = AllWritten(core, data)
                    /\ Stored(Executed, AfterMem) = AllStored(core, data)
  OBVIOUS
<1>1. Stored(Executed, AfterMem) = AllStored(core, data)
  BY DEF Executed, AfterMem, AllStored
<1> DEFINE k == InMem(core, core.ex_mem)
           u == InWb(core.ex_mem, data)
           v == InWb(Executed, AfterMem)
<1>2. IsCore(k) /\ k.registers = core_writeback(core) /\ k.mem_wb = u
  BY DEF IsCore, Fields, InMem, InWb
<1>3. Drained = [k EXCEPT !.registers = core_writeback(k), !.mem_wb = v]
  BY DEF Drained, InWb
<1> HIDE DEF k
<1>4. Drained.registers = core_writeback(k) /\ Drained.mem_wb = v
  BY <1>2, <1>3 DEF IsCore, Fields
<1>5. core_writeback(Drained) = Written(Written(Written(core.registers, core.mem_wb), u), v)
  BY <1>2, <1>4, WritebackIs
<1> QED
  BY <1>1, <1>5 DEF AllWritten, Executed, AfterMem

(* The sequential machine has the same instruction set.                    *)
LEMMA SeqIsa ==
  /\ Seq!Pc = Pc /\ Seq!Register = Register /\ Seq!Link = Link
  /\ Seq!AluOp = AluOp /\ Seq!BranchOp = BranchOp /\ Seq!Instruction = Instruction
  /\ \A i : Seq!immediate(i) = immediate(i)
  /\ \A a : Seq!wrap(a) = wrap(a) /\ Seq!target(a) = target(a)
  /\ \A op, a, b : Seq!alu_execute(op, a, b) = alu_execute(op, a, b)
  /\ \A op, a, b : Seq!evaluate_branch(op, a, b) = evaluate_branch(op, a, b)
  /\ \A r, x, v : Seq!SetRegister(r, x, v) = SetRegister(r, x, v)
<1>1. /\ Seq!Pc = Pc /\ Seq!Register = Register /\ Seq!Link = Link
      /\ Seq!AluOp = AluOp /\ Seq!BranchOp = BranchOp
  BY DEF Seq!Pc, Pc, Seq!Register, Register, Seq!Link, Link, Seq!AluOp, AluOp,
         Seq!BranchOp, BranchOp
<1>2. Seq!Instruction = Instruction
  BY <1>1 DEF Seq!Instruction, Instruction, Seq!Opcode, Opcode
<1>3. \A a : Seq!wrap(a) = wrap(a) /\ Seq!target(a) = target(a)
  BY DEF Seq!wrap, wrap, Seq!target, target
<1>4. \A i : Seq!immediate(i) = immediate(i)
  BY <1>3 DEF Seq!immediate, immediate
<1>5. \A a : Seq!signed(a) = signed(a)
  BY DEF Seq!signed, signed
<1>6. \A a : Seq!bits(a) = bits(a)
  BY DEF Seq!bits, bits
<1>7. Seq!Uint = Uint
  BY DEF Seq!Uint, Uint
<1>8. \A B : Seq!word(B) = word(B)
  BY <1>6, <1>7 DEF Seq!word, word
<1>9. ASSUME NEW op, NEW a, NEW b PROVE Seq!alu_execute(op, a, b) = alu_execute(op, a, b)
  BY <1>3, <1>5, <1>6, <1>8 DEF Seq!alu_execute, alu_execute
<1>10. ASSUME NEW op, NEW a, NEW b
       PROVE  Seq!evaluate_branch(op, a, b) = evaluate_branch(op, a, b)
  BY <1>5 DEF Seq!evaluate_branch, evaluate_branch
<1>11. ASSUME NEW r, NEW x, NEW v PROVE Seq!SetRegister(r, x, v) = SetRegister(r, x, v)
  BY DEF Seq!SetRegister, SetRegister
<1> QED
  BY <1>1, <1>2, <1>3, <1>4, <1>9, <1>10, <1>11

LEMMA SeqStutters ==
  ASSUME core_writeback(Drained)' = core_writeback(Drained),
         Stored(Executed, AfterMem)' = Stored(Executed, AfterMem),
         Oldest' = Oldest, NextPc' = NextPc, imem' = imem
  PROVE  UNCHANGED Seq!seqVars
  BY DEF Seq!seqVars, NextPc

LEMMA SeqGoesOn ==
  ASSUME imem' = imem, Oldest \in Pc, NEW after,
         Oldest' = NextPc,
         NextPc' = IF NextPc \notin Pc \/ imem[NextPc].op = "halt" THEN -1 ELSE after
  PROVE  Seq!GoOn(0, after)
<1> DEFINE next == [c \in {0} |-> IF Oldest \notin Pc \/ imem[Oldest].op = "halt" THEN -1
                                ELSE Second]
<1>1. next = [c \in {0} |-> NextPc] /\ next' = [c \in {0} |-> NextPc']
  BY DEF NextPc
<1>2. next[0] = NextPc /\ \A x : [next EXCEPT ![0] = x] = [c \in {0} |-> x]
  BY <1>1
<1>3. [c \in {0} |-> Oldest'] = [[c \in {0} |-> Oldest] EXCEPT ![0] = NextPc]
  OBVIOUS
<1>4. Seq!Following(0, NextPc, after) = NextPc'
  BY SeqIsa DEF Seq!Following, Seq!IsHalt
<1>5. [c \in {0} |-> NextPc'] = [next EXCEPT ![0] = Seq!Following(0, next[0], after)]
  BY <1>2, <1>4
<1> QED
  BY <1>1, <1>2, <1>3, <1>5 DEF Seq!GoOn
(* The states of the sequential machine, by their names here.              *)
LEMMA SeqState ==
  /\ Seq!R(0, core.if_id.instruction, 1) = immediate(core.if_id.instruction)
  /\ \A i, r : Seq!R(0, i, r) = IF r = 1 THEN immediate(i) ELSE core_writeback(Drained)[r]
  /\ \A i : Seq!MemAddr(0, i) = wrap(Seq!R(0, i, i.rs) + Seq!R(0, i, i.rt))
  /\ \A r, v : Seq!Set(0, r, v) <=>
       core_writeback(Drained)' = SetRegister(core_writeback(Drained), r, v)
<1>1. \A i, r : Seq!R(0, i, r) = IF r = 1 THEN immediate(i) ELSE core_writeback(Drained)[r]
  BY SeqIsa DEF Seq!R
<1>2. \A i : Seq!MemAddr(0, i) = wrap(Seq!R(0, i, i.rs) + Seq!R(0, i, i.rt))
  BY SeqIsa DEF Seq!MemAddr
<1>3. ASSUME NEW r, NEW v
      PROVE  Seq!Set(0, r, v) <=>
               core_writeback(Drained)' = SetRegister(core_writeback(Drained), r, v)
  <2> DEFINE A == core_writeback(Drained)
             S == SetRegister(A, r, v)
  <2>1. [[c \in {0} |-> A] EXCEPT ![0] = Seq!SetRegister(@, r, v)] = [c \in {0} |-> S]
    BY SeqIsa
  <2>2. Seq!Set(0, r, v) <=> [c \in {0} |-> A'] = [c \in {0} |-> S]
    BY <2>1 DEF Seq!Set
  <2> HIDE DEF S
  <2>3. [c \in {0} |-> A'] = [c \in {0} |-> S] <=> A' = S
    <3>1. [c \in {0} |-> A'][0] = A' /\ [c \in {0} |-> S][0] = S
      OBVIOUS
    <3> QED
      BY <3>1
  <2> QED
    BY <2>2, <2>3 DEF S
<1> QED
  BY <1>1, <1>2, <1>3

LEMMA DecodeGoesOn ==
  ASSUME imem \in [Pc -> Instruction], StaysInside(imem), PipelineInv, Advance,
         core.if_id # NOP, ~Stalls(core)
  PROVE  LET i == core.if_id.instruction
         IN  /\ Oldest \in Pc /\ i = imem[Oldest] /\ i \in Instruction
             /\ i.op # "halt" => NextPc = core.pc
             /\ \A after : (i.op # "halt" => after = After(core, i)) => Seq!GoOn(0, after)
<1> DEFINE i == core.if_id.instruction
<1>1. CoreInv(core, imem) /\ IsCore(core) /\ imem' = imem
  BY DEF PipelineInv, PipelineInvariant, CoreInv, CoreTypeOK, IsCore, Advance
<1>2. core.if_id \in IF_ID /\ i = imem[core.if_id.pc] /\ OnPath(core, imem) /\ ~core.halted
  BY <1>1 DEF CoreInv, CoreTypeOK
<1>3. Oldest = core.if_id.pc /\ Oldest \in Pc /\ i = imem[Oldest] /\ i \in Instruction
  BY <1>2 DEF Oldest, IF_ID
<1>4. Second = core.pc
  BY DEF Second
<1>5. NextPc = IF i.op = "halt" THEN -1 ELSE core.pc
  BY <1>3, <1>4 DEF NextPc
<1>6. Decodes(core, core', imem)
  BY <1>1, ClockFields DEF Advance
<1>7. core'.halted = (i.op = "halt")
  BY <1>2, <1>6 DEF Decodes
<1>8. CASE i.op = "halt"
  <2>1. core'.if_id = NOP /\ core'.pc = -1
    BY <1>6, <1>7, <1>8 DEF Decodes
  <2>2. Oldest' = -1 /\ -1 \notin Pc
    BY <2>1 DEF Oldest, Pc
  <2>3. NextPc' = -1
    BY <2>2 DEF NextPc
  <2>4. \A after : Seq!GoOn(0, after)
    BY <1>1, <1>3, <1>5, <1>8, <2>2, <2>3, SeqGoesOn
  <2> QED
    BY <1>3, <1>8, <2>4
<1>9. CASE i.op # "halt"
  <2>1. core'.if_id = Fetched(core, imem) /\ core'.pc = After(core, i)
    BY <1>6, <1>7, <1>9 DEF Decodes
  <2>2. core.pc \in Pc
    <3> DEFINE s == <<core.if_id.pc, core.pc>>
    <3>1. s \in Flow(imem) /\ After(core, i) \in Afters(i, core.pc)
      BY <1>1, <1>2, <1>3, AfterIsReachable DEF OnPath, CoreInv, CoreTypeOK, RegistersOK
    <3>2. <<core.pc, After(core, i)>> \in Successors(imem, s)
      BY <1>2, <1>3, <1>9, <3>1 DEF Successors
    <3>3. <<core.pc, After(core, i)>> \in Pc \X (Pc \cup {IMEM_SIZE})
      BY <3>1, <3>2 DEF StaysInside
    <3> QED
      BY <3>3
  <2>3. core'.if_id # NOP /\ core'.if_id.pc = core.pc
    BY <2>1, <2>2 DEF Fetched, NOP
  <2>4. Oldest' = core.pc /\ Second' = After(core, i)
    BY <2>1, <2>3 DEF Oldest, Second
  <2>5. NextPc' = IF core.pc \notin Pc \/ imem[core.pc].op = "halt" THEN -1 ELSE After(core, i)
    BY <1>1, <2>4 DEF NextPc
  <2>6. Seq!GoOn(0, After(core, i))
    BY <1>1, <1>3, <1>5, <1>9, <2>4, <2>5, SeqGoesOn
  <2> QED
    BY <1>3, <1>5, <1>9, <2>6
<1> QED
  BY <1>8, <1>9
(* What decoding does to the mapped registers and memory.                  *)
LEMMA DecodeMaps ==
  ASSUME imem \in [Pc -> Instruction], Protected(imem), PipelineInv, Advance,
         core.if_id # NOP, ~Stalls(core)
  PROVE  LET i == core.if_id.instruction
             x == core_execute(Decoded(core, i))
             A == core_writeback(Drained)
             M == Stored(Executed, AfterMem)
             B == IF i.op = "jal" THEN SetRegister(A, Link, wrap(core.pc + 1)) ELSE A
         IN  /\ A' = Written(B, InWb(x, M))
             /\ M' = Stored(x, M)
             /\ i.op \notin {"jal", "halt", "nop"} =>
                  \A r \in Register :
                    (r \in {i.rs, i.rt} \/ (i.op \in BranchOp \cup {"sw"} /\ r = i.rd)) =>
                      Operand(core, i, r) = Seq!R(0, i, r)
<1> DEFINE i == core.if_id.instruction
           x == core_execute(Decoded(core, i))
           n == core_clock(core, imem, Loaded(core.ex_mem, data))
<1>1. /\ CoreInv(core, imem) /\ IsCore(core) /\ MemoryOK(data)
      /\ core' = n /\ data' = Stored(core.ex_mem, data)
  BY DEF PipelineInv, PipelineInvariant, CoreInv, CoreTypeOK, IsCore, Advance, MemoryOK
<1>2. IsCore(core')
  BY <1>1, ClockFields DEF AfterStages
<1>3. /\ core_writeback(Drained) = AllWritten(core, data)
      /\ Stored(Executed, AfterMem) = AllStored(core, data)
  BY <1>1, MappedState
<1>4. (IsCore(core) => /\ core_writeback(Drained) = AllWritten(core, data)
                       /\ Stored(Executed, AfterMem) = AllStored(core, data))'
  BY MappedState, PTL
<1>5. LET A == AllWritten(core, data)
          B == IF i.op = "jal" THEN SetRegister(A, Link, wrap(core.pc + 1)) ELSE A
      IN  /\ AllStored(core', data') = Stored(x, AllStored(core, data))
          /\ AllWritten(core', data') = Written(B, InWb(x, AllStored(core, data)))
  BY <1>1, DecodeDrains
<1>6. ASSUME i.op \notin {"jal", "halt", "nop"}, NEW r \in Register,
             r \in {i.rs, i.rt} \/ (i.op \in BranchOp \cup {"sw"} /\ r = i.rd)
      PROVE  Operand(core, i, r) = Seq!R(0, i, r)
  <2>1. Operand(core, i, r) = IF r = 1 THEN immediate(i) ELSE AllWritten(core, data)[r]
    BY <1>1, <1>6, OperandIsCurrent
  <2> QED
    BY <1>3, <2>1, SeqState
<1> HIDE DEF x, n
<1> QED
  BY <1>2, <1>3, <1>4, <1>5, <1>6 DEF x

LEMMA DecodeImplements ==
  ASSUME imem \in [Pc -> Instruction], Protected(imem), PipelineInv, Advance,
         core.if_id # NOP, ~Stalls(core)
  PROVE  Seq!Step(0)
<1> DEFINE i == core.if_id.instruction
           x == core_execute(Decoded(core, i))
           A == core_writeback(Drained)
           M == Stored(Executed, AfterMem)
           B == IF i.op = "jal" THEN SetRegister(A, Link, wrap(core.pc + 1)) ELSE A
           a == Operand(core, i, i.rs)
           b == Operand(core, i, i.rt)
           d == Operand(core, i, i.rd)
           I == Seq!Compute(0, i) \/ Seq!Load(0, i) \/ Seq!Store(0, i) \/ Seq!Branch(0, i)
                \/ Seq!Jump(0, i) \/ Seq!NoOperation(0, i) \/ Seq!Halt(0, i)
<1>1. /\ Oldest \in Pc /\ i = imem[Oldest] /\ i \in Instruction
      /\ i.op # "halt" => NextPc = core.pc
      /\ \A after : (i.op # "halt" => after = After(core, i)) => Seq!GoOn(0, after)
  BY DecodeGoesOn DEF Protected
<1>2. /\ A' = Written(B, InWb(x, M))
      /\ M' = Stored(x, M)
      /\ i.op \notin {"jal", "halt", "nop"} =>
           \A r \in Register :
             (r \in {i.rs, i.rt} \/ (i.op \in BranchOp \cup {"sw"} /\ r = i.rd)) =>
               Operand(core, i, r) = Seq!R(0, i, r)
  BY DecodeMaps
<1>3. i.rd \in Register /\ i.rs \in Register /\ i.rt \in Register /\ i.op \in Opcode
  BY <1>1 DEF Instruction
<1>4. /\ i.op \in AluOp => A' = SetRegister(B, i.rd, alu_execute(i.op, a, b))
      /\ i.op = "lw" => A' = SetRegister(B, i.rd, M[wrap(a + b)])
      /\ i.op = "jal" => A' = SetRegister(B, i.rd, 0)
      /\ ~write_reg(i.op) => A' = B
      /\ i.op = "sw" => M' = [M EXCEPT ![wrap(a + b)] = d]
      /\ i.op # "sw" => M' = M
  BY <1>2, Effect
<1>5. i.op \notin {"jal", "halt", "nop"} =>
        /\ a = Seq!R(0, i, i.rs) /\ b = Seq!R(0, i, i.rt)
        /\ i.op \in BranchOp \cup {"sw"} => d = Seq!R(0, i, i.rd)
  BY <1>2, <1>3
<1>6. i.op # "jal" => B = A
  OBVIOUS
<1>7. /\ \A r, v : Seq!Set(0, r, v) <=> A' = SetRegister(A, r, v)
      /\ Seq!MemAddr(0, i) = wrap(Seq!R(0, i, i.rs) + Seq!R(0, i, i.rt))
  BY SeqState
<1>8. i.op \notin BranchOp \cup {"jal", "halt"} => Seq!GoOn(0, NextPc + 1)
  BY <1>1, <1>3 DEF After
<1>9. [c \in {0} |-> IF Oldest \notin Pc \/ imem[Oldest].op = "halt" THEN -1 ELSE Second][0]
        = NextPc
  BY DEF NextPc
<1>10. ASSUME i.op \in AluOp PROVE Seq!Compute(0, i)
  <2>1. i.op \notin BranchOp \cup {"jal", "halt", "nop", "sw", "lw"}
    BY <1>10 DEF AluOp, BranchOp
  <2>2. A' = SetRegister(A, i.rd, alu_execute(i.op, Seq!R(0, i, i.rs), Seq!R(0, i, i.rt)))
    BY <1>4, <1>5, <1>6, <1>10, <2>1
  <2>3. M' = M /\ Seq!GoOn(0, NextPc + 1)
    BY <1>4, <1>8, <2>1
  <2> HIDE DEF i
  <2> QED
    BY <1>7, <1>9, <1>10, <2>2, <2>3, SeqIsa DEF Seq!Compute
<1>11. ASSUME i.op = "lw" PROVE Seq!Load(0, i)
  <2>1. i.op \notin BranchOp \cup {"jal", "halt", "nop", "sw"}
    BY <1>11 DEF BranchOp
  <2>2. A' = SetRegister(A, i.rd, M[Seq!MemAddr(0, i)])
    BY <1>4, <1>5, <1>6, <1>7, <1>11, <2>1
  <2>3. M' = M /\ Seq!GoOn(0, NextPc + 1)
    BY <1>4, <1>8, <2>1
  <2> HIDE DEF i
  <2> QED
    BY <1>7, <1>9, <1>11, <2>2, <2>3, SeqIsa DEF Seq!Load
<1>12. ASSUME i.op = "sw" PROVE Seq!Store(0, i)
  <2>1. i.op \notin BranchOp \cup {"jal", "halt", "nop"} /\ ~write_reg(i.op)
    BY <1>12 DEF BranchOp, AluOp, write_reg
  <2>2. M' = [M EXCEPT ![Seq!MemAddr(0, i)] = Seq!R(0, i, i.rd)]
    BY <1>4, <1>5, <1>7, <1>12, <2>1
  <2>3. A' = A /\ Seq!GoOn(0, NextPc + 1)
    BY <1>4, <1>6, <1>8, <2>1
  <2> HIDE DEF i
  <2> QED
    BY <1>9, <1>12, <2>2, <2>3 DEF Seq!Store
<1>13. ASSUME i.op \in BranchOp PROVE Seq!Branch(0, i)
  <2>1. i.op \notin {"jal", "halt", "nop", "sw"} /\ ~write_reg(i.op)
    BY <1>13 DEF BranchOp, AluOp, write_reg
  <2>2. A' = A /\ M' = M
    BY <1>4, <1>6, <2>1
  <2>3. Seq!GoOn(0, After(core, i)) /\ NextPc = core.pc
    BY <1>1, <2>1
  <2> DEFINE taken == evaluate_branch(i.op, Seq!R(0, i, i.rs), Seq!R(0, i, i.rt))
  <2>4. After(core, i) = IF taken THEN target(Seq!R(0, i, i.rd)) ELSE NextPc + 1
    BY <1>5, <1>13, <2>1, <2>3 DEF After
  <2>5. Seq!GoOn(0, IF taken THEN target(Seq!R(0, i, i.rd)) ELSE NextPc + 1)
    BY <2>3, <2>4
  <2> HIDE DEF i
  <2> QED
    BY <1>9, <1>13, <2>2, <2>5, SeqIsa DEF Seq!Branch
<1>14. ASSUME i.op = "jal" PROVE Seq!Jump(0, i)
  <2>1. M' = M /\ A' = SetRegister(SetRegister(A, Link, wrap(NextPc + 1)), i.rd, 0)
    BY <1>1, <1>4, <1>14
  <2>2. Seq!GoOn(0, target(i.rd))
    BY <1>1, <1>14 DEF After, BranchOp
  <2> HIDE DEF i
  <2>3. [[c \in {0} |-> A] EXCEPT
           ![0] = Seq!SetRegister(Seq!SetRegister(@, Seq!Link, Seq!wrap(NextPc + 1)), i.rd, 0)]
          = [c \in {0} |-> A']
    BY <2>1, SeqIsa
  <2> QED
    BY <1>9, <1>14, <2>1, <2>2, <2>3, SeqIsa DEF Seq!Jump
<1>15. ASSUME i.op = "nop" PROVE Seq!NoOperation(0, i)
  <2>1. i.op \notin BranchOp \cup {"jal", "halt", "sw"} /\ ~write_reg(i.op)
    BY <1>15 DEF BranchOp, AluOp, write_reg
  <2>2. A' = A /\ M' = M /\ Seq!GoOn(0, NextPc + 1)
    BY <1>4, <1>6, <1>8, <2>1
  <2> HIDE DEF i
  <2> QED
    BY <1>9, <1>15, <2>2 DEF Seq!NoOperation
<1>16. ASSUME i.op = "halt" PROVE Seq!Halt(0, i)
  <2>1. i.op \notin {"jal", "sw"} /\ ~write_reg(i.op)
    BY <1>16 DEF AluOp, write_reg
  <2>2. A' = A /\ M' = M /\ Seq!GoOn(0, -1)
    BY <1>1, <1>4, <1>6, <1>16, <2>1
  <2> HIDE DEF i
  <2> QED
    BY <1>16, <2>2 DEF Seq!Halt
<1>17. I
  BY <1>3, <1>10, <1>11, <1>12, <1>13, <1>14, <1>15, <1>16 DEF Opcode
<1> QED
  BY <1>1, <1>17, SeqIsa DEF Seq!Step, i
(* Every other cycle leaves the sequential machine where it is.            *)
LEMMA MissStutters ==
  ASSUME PipelineInv, CacheMiss
  PROVE  UNCHANGED Seq!seqVars
<1>1. IsCore(core) /\ imem' = imem /\ data' = data /\ core' = handle_cache_miss(core)
  BY DEF PipelineInv, PipelineInvariant, CoreInv, CoreTypeOK, IsCore, CacheMiss
<1>2. IsCore(core') /\ core'.if_id = core.if_id /\ core'.pc = core.pc
  BY <1>1, MissFields
<1>3. /\ core_writeback(Drained) = AllWritten(core, data)
      /\ Stored(Executed, AfterMem) = AllStored(core, data)
  BY <1>1, MappedState
<1>4. (IsCore(core) => /\ core_writeback(Drained) = AllWritten(core, data)
                       /\ Stored(Executed, AfterMem) = AllStored(core, data))'
  BY MappedState, PTL
<1>5. AllWritten(core', data) = AllWritten(core, data) /\ AllStored(core', data) = AllStored(core, data)
  BY <1>1, MissDrains
<1>6. /\ core_writeback(Drained)' = core_writeback(Drained)
      /\ Stored(Executed, AfterMem)' = Stored(Executed, AfterMem)
  BY <1>1, <1>2, <1>3, <1>4, <1>5
<1>7. Oldest' = Oldest /\ Second' = Second
  BY <1>2 DEF Oldest, Second
<1>8. NextPc' = NextPc
  BY <1>1, <1>7 DEF NextPc
<1> QED
  BY <1>1, <1>6, <1>7, <1>8, SeqStutters

LEMMA StallStutters ==
  ASSUME PipelineInv, Advance, core.if_id = NOP \/ Stalls(core)
  PROVE  UNCHANGED Seq!seqVars
<1> DEFINE n == core_clock(core, imem, Loaded(core.ex_mem, data))
<1>1. /\ IsCore(core) /\ imem' = imem /\ data' = Stored(core.ex_mem, data) /\ core' = n
      /\ CoreInv(core, imem)
  BY DEF PipelineInv, PipelineInvariant, CoreInv, CoreTypeOK, IsCore, Advance
<1>2. AfterStages(core, core', Loaded(core.ex_mem, data))
  BY <1>1, ClockFields
<1>3. /\ core_writeback(Drained) = AllWritten(core, data)
      /\ Stored(Executed, AfterMem) = AllStored(core, data)
  BY <1>1, MappedState
<1>4. (IsCore(core) => /\ core_writeback(Drained) = AllWritten(core, data)
                       /\ Stored(Executed, AfterMem) = AllStored(core, data))'
  BY MappedState, PTL
<1>5. /\ AllWritten(core', data') = AllWritten(core, data)
      /\ AllStored(core', data') = AllStored(core, data)
  BY <1>1, StallDrains
<1>6. /\ core_writeback(Drained)' = core_writeback(Drained)
      /\ Stored(Executed, AfterMem)' = Stored(Executed, AfterMem)
  BY <1>2, <1>3, <1>4, <1>5 DEF AfterStages
<1>7. CASE Stalls(core)
  <2>1. Waits(core, core')
    BY <1>1, <1>7, ClockFields
  <2>2. Oldest' = Oldest /\ Second' = Second
    BY <2>1 DEF Oldest, Second, Waits
  <2>3. NextPc' = NextPc
    BY <1>1, <2>2 DEF NextPc
  <2> QED
    BY <1>1, <1>6, <2>2, <2>3, SeqStutters
<1>8. CASE core.if_id = NOP
  <2>1. Fetches(core, core', imem)
    BY <1>1, <1>8, ClockFields
  <2>2. CASE core.halted
    <3>1. core'.if_id = NOP /\ core'.pc = -1 /\ core.pc = -1 /\ -1 \notin Pc
      BY <1>1, <2>1, <2>2 DEF Fetches, CoreInv, CoreTypeOK, Pc
    <3>2. Oldest' = Oldest /\ Oldest \notin Pc
      BY <1>8, <3>1 DEF Oldest
    <3>3. NextPc' = NextPc
      BY <3>2 DEF NextPc
    <3> QED
      BY <1>1, <1>6, <3>2, <3>3, SeqStutters
  <2>3. CASE ~core.halted
    <3>1. core.pc = 0
      BY <1>1, <1>8, <2>3 DEF CoreInv, core_init
    <3>2. core'.if_id = Fetched(core, imem) /\ core'.pc = 1
      BY <2>1, <2>3, <3>1 DEF Fetches
    <3>3. core'.if_id # NOP /\ core'.if_id.pc = 0
      BY <3>1, <3>2 DEF Fetched, NOP
    <3>4. Oldest' = Oldest /\ Second' = Second
      BY <1>8, <3>1, <3>2, <3>3 DEF Oldest, Second
    <3>5. NextPc' = NextPc
      BY <1>1, <3>4 DEF NextPc
    <3> QED
      BY <1>1, <1>6, <3>4, <3>5, SeqStutters
  <2> QED
    BY <2>2, <2>3
<1> QED
  BY <1>7, <1>8

LEMMA InitImplements ==
  ASSUME Init
  PROVE  Seq!Init
<1>1. imem \in [Pc -> Instruction] /\ data = DataIn /\ core = core_init /\ IsCore(core)
  BY PipelineAssumption DEF Init, IsCore, core_init, Fields
<1>2. /\ core_writeback(Drained) = AllWritten(core, data)
      /\ Stored(Executed, AfterMem) = AllStored(core, data)
  BY <1>1, MappedState
<1>3. /\ core.id_ex = NOP /\ core.ex_mem = NOP /\ core.mem_wb = NOP /\ core.if_id = NOP
      /\ core.pc = 0 /\ core.registers = [r \in Register |-> 0]
  BY <1>1 DEF core_init
<1>4. /\ core_writeback(Drained) = [r \in Register |-> 0]
      /\ Stored(Executed, AfterMem) = DataIn
  BY <1>1, <1>2, <1>3, NothingWritten DEF AllWritten, AllStored
<1>5. Oldest = 0 /\ Second = 1
  BY <1>3 DEF Oldest, Second
<1>6. [c \in {0} |-> imem] \in [{0} -> [Seq!Pc -> Seq!Instruction]]
  BY <1>1, SeqIsa
<1>7. [c \in {0} |-> core_writeback(Drained)] = [c \in {0} |-> [r \in Seq!Register |-> 0]]
  BY <1>4, SeqIsa
<1>8. [c \in {0} |-> Oldest] = [c \in {0} |-> 0]
  BY <1>5
<1>9. [c \in {0} |-> IF Oldest \notin Pc \/ imem[Oldest].op = "halt" THEN -1 ELSE Second]
        = [c \in {0} |-> Seq!Following(c, 0, 1)]
  BY <1>5, SeqIsa DEF Seq!Following, Seq!IsHalt
<1> QED
  BY <1>4, <1>6, <1>7, <1>8, <1>9 DEF Seq!Init

(* A program computes in the pipeline what it computes one instruction at  *)
(* a time, whatever misses and stalls it meets (core_clock): decoding is   *)
(* its step in the sequential machine, when the hazard check protects it.  *)
THEOREM PipelineImplementsSequential ==
  ASSUME \A p \in Programs : Protected(p)
  PROVE  Spec => ImplementsSequential
<1>1. \A p \in Programs : StaysInside(p)
  BY DEF Protected
<1>2. Init => PipelineInv
  BY PipelineInit
<1>3. PipelineInv /\ [Next]_pipelineVars => PipelineInv'
  BY <1>1, PipelineStep
<1>4. Init => Seq!Init
  BY InitImplements
<1>5. ASSUME PipelineInv, [Next]_pipelineVars
      PROVE  [\E c \in {0} : Seq!Step(c)]_(Seq!seqVars)
  <2>1. imem \in [Pc -> Instruction] /\ Protected(imem)
    BY <1>5 DEF PipelineInv, PipelineInvariant
  <2>2. CASE CacheMiss
    BY <1>5, <2>2, MissStutters
  <2>3. CASE Advance
    <3>1. CASE core.if_id = NOP \/ Stalls(core)
      BY <1>5, <2>3, <3>1, StallStutters
    <3>2. CASE core.if_id # NOP /\ ~Stalls(core)
      BY <1>5, <2>1, <2>3, <3>2, DecodeImplements
    <3> QED
      BY <3>1, <3>2
  <2>4. CASE UNCHANGED pipelineVars
    BY <2>4 DEF pipelineVars, Seq!seqVars, Drained, InMem, Executed, AfterMem, Oldest, Second
  <2> QED
    BY <1>5, <2>2, <2>3, <2>4 DEF Next
<1> QED
  BY <1>2, <1>3, <1>4, <1>5, PTL DEF Spec, ImplementsSequential, Seq!Spec
=============================================================================
