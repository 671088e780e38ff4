----------------------------- MODULE SimulatorInv -----------------------------
(***************************************************************************)
(* The counters, the bus trace and the results of the whole program, as    *)
(* inductive invariants: what an access under way still owes to the trace, *)
(* and which access or instruction a flushed word on the bus belongs to.   *)
(* StatsMatchTrace and SavedStateIsFinal follow.                           *)
(***************************************************************************)
EXTENDS SimulatorCorrect, FlushInv, ProgramFlow

(* Core c waits for its block, and the transaction that fetches it has its *)
(* line in the trace: only the first cycle of a transaction, and of each   *)
(* of its words, raises new_request.                                       *)
InTrace(c) ==
  \/ busy /\ pending_origid = c /\ (flush_count > 0 \/ ~new_request)
  \/ Completing(c)

Owes(c, cmd) ==
  /\ waiting_for_bus[c] /\ (is_write_request[c] <=> cmd = "BUS_RDX")
  /\ ~InTrace(c)

(* Whatever is under way, a load that completed hit, or asked for its      *)
(* block; and one that has asked has been or will be logged.  Asking takes *)
(* back a hit that the load will count when it is offered again.           *)
ReadsBalance ==
  \A c \in Core :
    stats[c]["read_hit"] + bus_trace[c]["BUS_RD"] + One(Owes(c, "BUS_RD"))
      = completed[c]["lw"]

(* The same of stores, when none of them is lost.                          *)
WritesBalance ==
  \A c \in Core :
    stats[c]["write_hit"] + bus_trace[c]["BUS_RDX"] + One(Owes(c, "BUS_RDX"))
      = completed[c]["sw"]

(* new_request is a flag of one cycle, from bus_clock to the trace.        *)
TraceFlag ==
  new_request => bus_cmd # "BUS_NO_CMD" /\ phase \notin {"memory", "bus"}

-----------------------------------------------------------------------------
(* A halted core fetches nothing any more.                                 *)
HaltedPc == \A c \in Core : cpu[c].halted => cpu[c].pc = -1

(* The memory's line is up from memory_clock to bus_clock only.            *)
MemoryLine ==
  slot[MAIN_MEMORY] # NoRequest => FlushPosted(MAIN_MEMORY) /\ phase # "memory"

(* A core's word on the bus is one of a block that some access waits for,  *)
(* or that it has just got, the instruction being in WB now.               *)
FlushIsHeld ==
  (CoreFlushOnBus /\ phase # "bus") =>
    \E c \in Core : \/ access[c] # NoAccess
                    \/ AfterCoreOf(c) /\ cpu[c].mem_wb # NOP

SavedInv == HaltedPc /\ MemoryLine /\ FlushIsHeld

-----------------------------------------------------------------------------
(* The core as ID would see it if the instruction at a were decoded now,   *)
(* and the one at b fetched.                                               *)
Now(k, a, b) == [registers |-> core_writeback(k), if_id |-> [pc |-> a], pc |-> b]
ExecutedNow(k, p, a) == core_execute(Decoded(Now(k, a, 0), p[a]))

GoesTo(k, p, a, b, c) == (~Ends(p, a) /\ ~Ends(p, b)) => c = After(Now(k, a, b), p[a])

(* An instruction in EX or MEM computes what it would compute from the     *)
(* registers of now, and a branch there has led to where it would lead.    *)
InOrder(k, p) ==
  /\ k.ex_mem # NOP =>
       /\ k.ex_mem = ExecutedNow(k, p, k.ex_mem.pc)
       /\ GoesTo(k, p, k.ex_mem.pc, Behind(k), SecondBehind(k))
       /\ p[k.ex_mem.pc].op = "halt" => k.halted /\ k.id_ex = NOP
  /\ k.id_ex # NOP =>
       /\ core_execute(k.id_ex) = ExecutedNow(k, p, k.id_ex.pc)
       /\ k.if_id # NOP => GoesTo(k, p, k.id_ex.pc, k.if_id.pc, k.pc)
       /\ p[k.id_ex.pc].op = "halt" <=> k.halted
       /\ Fresh(p[k.id_ex.pc], k.ex_mem)

AllInOrder == \A c \in Core : InOrder(cpu[c], imem[c])

(* A jal writes its link when it is decoded, before the instructions in EX *)
(* and MEM complete.                                                       *)
NoJal(p) == \A a \in Pc : p[a].op # "jal"

(* The hazard check protects the program of every core.                    *)
ProgramsProtected ==
  \A P \in Programs : \A c \in Core : Protected(P[c]) /\ NoJal(P[c])

(* What every core holds comes from a path of its program, in its order.   *)
CoresInv ==
  /\ imem \in Programs
  /\ \A c \in Core : CoreInv(cpu[c], imem[c])
  /\ AllInOrder
=============================================================================
