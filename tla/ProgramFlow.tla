----------------------------- MODULE ProgramFlow -----------------------------
(***************************************************************************)
(* Where the control of a program can go, what the hazard check of ID      *)
(* leaves to the program to avoid, and what the stages of a core hold      *)
(* while it runs a program that avoids it.                                 *)
(*                                                                         *)
(* A point <<a, b>> is the moment in which the instruction at a is decoded *)
(* and that at b, in its delay slot, is fetched.                           *)
(***************************************************************************)
EXTENDS CoreClock

(* The registers an instruction reads in ID.                               *)
Sources(i) ==
  {r \in {i.rs, i.rt} \cup (IF i.op = "sw" THEN {i.rd} ELSE {}) : r > 1}

(* Where IF can go on after b, when i is in ID: a branch to register 1     *)
(* goes to its immediate, one to another register may go anywhere.         *)
Afters(i, b) ==
  IF i.op = "jal" THEN {target(i.rd)}
  ELSE {b + 1} \cup (IF i.op \notin BranchOp THEN {}
                     ELSE IF i.rd = 1 THEN {target(immediate(i))} ELSE Pc)

(* Nothing follows a halt.                                                 *)
Successors(p, s) ==
  IF s[1] \notin Pc \/ p[s[1]].op = "halt" THEN {}
  ELSE {<<s[2], t>> : t \in Afters(p[s[1]], s[2])}

(* The points that control can reach from the beginning of program p.      *)
Flow(p) ==
  LET Reach[S \in SUBSET (Nat \X Nat)] ==
        LET T == S \cup UNION {Successors(p, s) : s \in S}
        IN  IF T = S THEN S ELSE Reach[T]
  IN  Reach[{<<0, 1>>}]

(* The program does not run off the end of instruction memory: core_fetch  *)
(* does not check its pc (core.c:328).                                     *)
StaysInside(p) ==
  LET F == Flow(p)
  IN  /\ F \subseteq Pc \X (Pc \cup {IMEM_SIZE})
      /\ <<0, 1>> \in F
      /\ \A s \in F : Successors(p, s) \subseteq F

Writer(i) == write_reg(i.op) /\ i.rd > 1

(* Instruction i needs what w writes, and waits for it if ID is told so.   *)
Needs(i, w) == i.op \in HazardOp /\ w.rd \in Sources(i)

(* What check_data_hazards never looks at, in up to three instructions     *)
(* after w: the register with a branch target, and the link register.      *)
Untouched(w, i) ==
  /\ i.op \in BranchOp => i.rd # w.rd
  /\ i.op = "jal" => w.rd # Link

(* Behind b, which follows w, ID takes the flag of b for that of w: if b   *)
(* does not write, nobody waits for w any more.                            *)
Clear(w, b, i) == IF Needs(i, w) THEN write_reg(b.op) ELSE Untouched(w, i)

(* The hazard check protects program p: up to the first instruction that   *)
(* waits for w, the three that follow w leave alone what it writes.        *)
Protected(p) ==
  /\ StaysInside(p)
  /\ \A s \in Flow(p) :
       LET w == p[s[1]]
           b == p[s[2]]
       IN  (Writer(w) /\ ~Needs(b, w)) =>
             /\ Untouched(w, b)
             /\ \A t \in Successors(p, s) : \A u \in Successors(p, t) :
                  /\ Clear(w, b, p[u[1]])
                  /\ ~Needs(p[u[1]], w) =>
                       \A v \in Successors(p, u) : Clear(w, b, p[v[1]])

-----------------------------------------------------------------------------
(* The instructions behind IF, oldest first, are consecutive ones of a     *)
(* path of the program, with bubbles between them.                         *)
Leads(p, a, b, c) == <<a, b>> \in Flow(p) /\ <<b, c>> \in Successors(p, <<a, b>>)

OnPath(k, p) ==
  LET afterMem  == IF k.id_ex = NOP THEN k.if_id.pc ELSE k.id_ex.pc
      afterMem2 == IF k.id_ex = NOP THEN k.pc ELSE k.if_id.pc
      afterWb   == IF k.ex_mem = NOP THEN afterMem ELSE k.ex_mem.pc
      afterWb2  == IF k.ex_mem = NOP THEN afterMem2 ELSE afterMem
  IN  /\ <<k.if_id.pc, k.pc>> \in Flow(p)
      /\ k.id_ex # NOP => Leads(p, k.id_ex.pc, k.if_id.pc, k.pc)
      /\ k.ex_mem # NOP => Leads(p, k.ex_mem.pc, afterMem, afterMem2)
      /\ k.mem_wb # NOP => Leads(p, k.mem_wb.pc, afterWb, afterWb2)

(* A stage behind ID knows whether its instruction writes, and where.      *)
Carries(stage, p) ==
  stage # NOP =>
    /\ stage.write_reg = write_reg(p[stage.pc].op)
    /\ stage.write_reg => stage.rd = p[stage.pc].rd

(* An instruction in EX or MEM has waited for what it needs of those in    *)
(* front of it, where the flag has told ID of them.                        *)
Waited(k, p) ==
  LET writes(w)  == write_reg(p[w.pc].op)
      Free(i, w) == (i # NOP /\ w # NOP /\ writes(w)) => ~Needs(p[i.pc], p[w.pc])
  IN  /\ Free(k.id_ex, k.ex_mem) /\ Free(k.ex_mem, k.mem_wb)
      /\ (k.ex_mem = NOP \/ writes(k.ex_mem)) => Free(k.id_ex, k.mem_wb)

(* What stage has still to write is nothing that i reads.                  *)
Fresh(i, stage) ==
  (stage # NOP /\ stage.write_reg /\ stage.rd > 1) =>
    /\ i.op \notin {"jal", "halt", "nop"} => stage.rd \notin Sources(i)
    /\ i.op \in BranchOp => i.rd # stage.rd
    /\ i.op = "jal" => stage.rd # Link

CoreInv(k, p) ==
  /\ CoreTypeOK(k)
  /\ k.if_id # NOP => k.if_id.instruction = p[k.if_id.pc] /\ OnPath(k, p)
  /\ k.if_id = NOP /\ ~k.halted => k = core_init
  /\ \A stage \in {k.id_ex, k.ex_mem, k.mem_wb} : Carries(stage, p)
  /\ Waited(k, p)
=============================================================================
