----------------------------- MODULE TestPrograms -----------------------------
(***************************************************************************)
(* The test programs counter/ and addserial/, with their constants as      *)
(* parameters: the increments per core, the length of the vectors, the     *)
(* words of a cache.  Where imem*.asm and imem*.txt differ, which is in a  *)
(* core's number (counter/) and in the fourth word of the second vector    *)
(* (addserial/), this is imem*.txt, the code that is run.                  *)
(***************************************************************************)
EXTENDS Isa, SequencesExt

CONSTANTS
  MASK,           \* 3 in counter/: the number of cores less one, and all its bits 1
  INCREMENTS,     \* increments per core: 128 in counter/
  LOG_LENGTH,     \* 12 in addserial/: the vectors have 4096 elements
  CACHE_WORDS,    \* 256 in addserial/
  CONFLICT        \* 1024 in counter/: an address in the set of the counter

Instr(op, rd, rs, rt, imm) ==
  [op |-> op, rd |-> rd, rs |-> rs, rt |-> rt, imm |-> imm]

HaltInstr == Instr("halt", 0, 0, 0, 0)
Nop == Instr("add", 0, 0, 0, 0)

(* The instruction memory that begins with the sequence s.                 *)
Imem(s) == [a \in Pc |-> IF a < Len(s) THEN s[a + 1] ELSE HaltInstr]

(* Core c counts up when the counter's lower bits are its number.  `start' *)
(* nops stand in front, to shift the cores against each other.             *)
counter(c, start) ==
  LET wait_for_core_turn == start + 3
  IN  [n \in 1 .. start |-> Nop] \o
      << Instr("add", 2, 1, 0, c),
         Instr("add", 3, 1, 0, INCREMENTS),
         Instr("add", 4, 0, 1, MASK),
         Instr("lw", 5, 0, 0, 0),
         Instr("and", 6, 4, 5, 0),
         Instr("bne", 1, 6, 2, wait_for_core_turn),
         Instr("add", 5, 5, 1, 1),
         Instr("sw", 5, 0, 0, 0),
         Instr("sub", 3, 3, 1, 1),
         Instr("bne", 1, 3, 0, wait_for_core_turn),
         Nop >> \o
      (IF c = 0 THEN << Instr("lw", 0, 1, 0, CONFLICT) >> ELSE << >>)

(* Core 0 adds two vectors, four words at a time, and then reads through a *)
(* whole cache, to have its dirty blocks written back.                     *)
block_loop == 5
update_loop == 28
addserial ==
  << Instr("add", 2, 0, 0, 0),
     Instr("add", 3, 1, 0, 1),
     Instr("sll", 3, 3, 1, LOG_LENGTH),
     Instr("mul", 4, 3, 1, 2),
     Instr("add", 5, 0, 3, 0),
     Instr("lw", 6, 2, 1, 0), Instr("lw", 7, 2, 1, 1),
     Instr("lw", 8, 2, 1, 2), Instr("lw", 9, 2, 1, 3),
     Instr("lw", 10, 3, 1, 0), Instr("add", 6, 6, 10, 0),
     Instr("lw", 10, 3, 1, 1), Instr("add", 7, 7, 10, 0),
     Instr("lw", 10, 3, 1, 2), Instr("add", 8, 8, 10, 0),
     Instr("lw", 10, 3, 1, 3), Instr("add", 9, 9, 10, 0),
     Instr("sub", 5, 5, 1, 4),
     Instr("sw", 6, 4, 1, 0), Instr("sw", 7, 4, 1, 1),
     Instr("sw", 8, 4, 1, 2), Instr("sw", 9, 4, 1, 3),
     Instr("add", 2, 2, 1, 4), Instr("add", 3, 3, 1, 4),
     Instr("bne", 1, 5, 0, block_loop),
     Instr("add", 4, 4, 1, 4),
     Instr("add", 2, 0, 1, CACHE_WORDS),
     Instr("add", 3, 0, 0, 0),
     Instr("lw", 0, 3, 0, 0),
     Instr("bne", 1, 2, 3, update_loop),
     Instr("add", 3, 3, 1, 4) >>
=============================================================================
