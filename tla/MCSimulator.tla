----------------------------- MODULE MCSimulator -----------------------------
(***************************************************************************)
(* Programs for the runs of the whole simulator.                           *)
(***************************************************************************)
EXTENDS SimulatorInv, TestPrograms

CONSTANTS
  Starts,         \* how many nops may stand in front of the counter programs
  LitmusStarts

MCWord == 0 .. 2^WIDTH - 1
MCMemIn == [a \in Addr |-> a]
Everything == [c \in Core |-> Addr]

CounterPrograms ==
  {[c \in Core |-> Imem(counter(c, start[c]))] :
     start \in {f \in [Core -> Starts] : \A c \in Core : c > 1 => f[c] = 0}}

AddSerial == [c \in Core |-> Imem(IF c = 0 THEN addserial ELSE << >>)]

(* Shapes in which a machine that is not sequentially consistent shows     *)
(* itself, on words x and y of one block or of two: each core may start    *)
(* later, puts its mark in register 2, and makes one or two accesses.      *)
(* StoreBuffering on two blocks is left out: there a core always loses its *)
(* own request to the block it must supply (RequestKept), and waits.       *)
Mark(c) == Instr("add", 2, 1, 0, 50 + c)
Put(a) == Instr("sw", 2, 1, 0, a)
Get(r, a) == Instr("lw", r, 1, 0, a)

StoreBuffering(x, y) == << <<Put(x), Get(3, y)>>, <<Put(y), Get(3, x)>> >>
MessagePassing(x, y) == << <<Put(x), Put(y)>>, <<Get(3, y), Get(4, x)>> >>
LoadBuffering(x, y) == << <<Get(3, x), Put(y)>>, <<Get(3, y), Put(x)>> >>
TwoObservers(x, y) ==
  << <<Put(x)>>, <<Put(y)>>, <<Get(3, x), Get(4, y)>>, <<Get(3, y), Get(4, x)>> >>

Shapes ==
  {StoreBuffering(1, 3)}
    \cup UNION {{MessagePassing(1, y), LoadBuffering(1, y), TwoObservers(1, y)} : y \in {3, 4}}

LitmusOf(shape, start) ==
  [c \in Core |->
     Imem(IF c < Len(shape)
          THEN [n \in 1 .. IF c = 1 THEN start ELSE 0 |-> Nop] \o <<Mark(c)>> \o shape[c + 1]
          ELSE << >>)]

LitmusPrograms == {LitmusOf(shape, start) : shape \in Shapes, start \in LitmusStarts}

AllPrograms == CounterPrograms \cup {AddSerial} \cup LitmusPrograms
SerialProgram == {AddSerial}

(* The programs are such as the theorems about the whole simulator are     *)
(* about: the hazard check protects each of them, and none has a jal.      *)
ASSUME RunsProtectedPrograms == ProgramsProtected

-----------------------------------------------------------------------------
(* README.md:205-209: the cores take turns, no increment is lost, and the  *)
(* program ends.                                                           *)
CountsEveryIncrement ==
  (imem \in CounterPrograms) =>
    <>(LoopHasEnded /\ Current(0) = NUM_CORES * INCREMENTS)

(* README.md:238-240: the loop at the end of addserial has the dirty       *)
(* blocks written back, so the sums are in memory when it is saved.        *)
N == 2^LOG_LENGTH
SumsReachMemory ==
  (imem = AddSerial) =>
    <>(LoopHasEnded /\ \A i \in 0 .. N - 1 : mem[2 * N + i] = MemIn[i] + MemIn[N + i])
=============================================================================
