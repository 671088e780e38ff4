------------------------------ MODULE Multicore ------------------------------
(***************************************************************************)
(* The simulation loop (sim/main.c): one iteration is one clock cycle.     *)
(* Memory, bus, caches and cores run one after the other in a fixed order; *)
(* each call is one step here, and `phase' and `turn' say which is next.   *)
(*                                                                         *)
(* Of a core's pipeline only the MEM stage (core_memory in sim/core.c)     *)
(* meets the caches: at most one access per cycle, offered again in every  *)
(* cycle until the cache leaves *ready TRUE.  Which accesses a core makes, *)
(* and in which cycles, is its program's choice: the constants Loads and   *)
(* Stores say which addresses that program touches.                        *)
(***************************************************************************)
EXTENDS MainMemory, Cache

CONSTANTS
  Loads, Stores   \* the addresses a core's program reads and writes

ASSUME ProgramAssumption ==
  /\ Loads \in [Core -> SUBSET Addr]
  /\ Stores \in [Core -> SUBSET Addr]

VARIABLES
  phase, turn,
  access,       \* what each core's MEM stage holds (pipe.ex_mem)
  retired       \* what it passed to WB in this cycle (pipe.mem_wb)

loop == <<phase, turn>>
cores == <<access, retired>>
vars == <<busVars, memoryVars, cacheVars, loop, cores>>

Access == [op : {"nop", "lw", "sw"}, addr : Addr, data : Word]
NoAccess == [op |-> "nop", addr |-> 0, data |-> 0]
LoadOf(c) == [op : {"lw"}, addr : Loads[c], data : {0}]
StoreOf(c) == [op : {"sw"}, addr : Stores[c], data : Word]
AccessOf(c) == LoadOf(c) \cup StoreOf(c)

Init ==
  /\ BusInit /\ MemoryInit /\ CacheInit
  /\ phase = "memory" /\ turn = 0
  /\ access = [c \in Core |-> NoAccess]
  /\ retired = [c \in Core |-> NoAccess]

-----------------------------------------------------------------------------
GoTo(p, c) == phase' = p /\ turn' = c

MemoryPhase ==
  /\ phase = "memory" /\ MemoryClock /\ GoTo("bus", 0)
  /\ UNCHANGED <<cacheVars, cores>>

BusPhase ==
  /\ phase = "bus" /\ BusClock /\ GoTo("snoop", 0)
  /\ UNCHANGED <<memoryVars, cacheVars, cores>>

SnoopPhase(c) ==
  /\ phase = "snoop" /\ turn = c /\ CacheSnoop(c) /\ GoTo("response", c)
  /\ UNCHANGED <<lines, shared_Q, delay, control, pending, memoryVars, cores>>

ResponsePhase(c) ==
  /\ phase = "response" /\ turn = c
  /\ CacheHandleBusResponse(c) /\ GoTo("clock", c)
  /\ UNCHANGED <<lines, shared_Q, delay, control, pending, memoryVars, cores>>

ClockPhase(c) ==
  /\ phase = "clock" /\ turn = c /\ CacheClock(c)
  /\ IF c = NUM_CORES - 1 THEN GoTo("core", 0) ELSE GoTo("snoop", c + 1)
  /\ UNCHANGED <<lines, shared_Q, delay, control, pending, memoryVars, cores>>

(* core_memory with nothing to access: a bubble or another instruction.    *)
NoMemoryAccess(c) ==
  /\ access[c] = NoAccess
  /\ retired' = [retired EXCEPT ![c] = NoAccess]
  /\ UNCHANGED <<access, slot, shared_D, cacheVars>>

(* core_memory with a load or store: kept in MEM until *ready is TRUE.     *)
Offer(c, r, ready) ==
  /\ \/ r.op = "lw" /\ CacheRead(c, r.addr, ready)
     \/ r.op = "sw" /\ CacheWrite(c, r.addr, r.data, ready)
  /\ access' = [access EXCEPT ![c] = IF ready THEN NoAccess ELSE r]
  /\ retired' = [retired EXCEPT ![c] =
                   CASE ~ready -> NoAccess
                     [] ready /\ r.op = "sw" -> r
                     [] OTHER -> [r EXCEPT !.data = dsram[c][line(r.addr)]]]

MemoryAccess(c) ==
  \E r \in IF access[c] = NoAccess THEN AccessOf(c) ELSE {access[c]},
     ready \in BOOLEAN : Offer(c, r, ready)

AfterCore(c) == IF c = NUM_CORES - 1 THEN GoTo("edge", 0) ELSE GoTo("core", c + 1)

CorePhase(c) ==
  /\ phase = "core" /\ turn = c
  /\ NoMemoryAccess(c) \/ MemoryAccess(c)
  /\ AfterCore(c)
  /\ UNCHANGED <<lines, shared_Q, delay, control, pending, memoryVars>>

EdgePhase ==
  /\ phase = "edge" /\ SharedEdge /\ GoTo("memory", 0)
  /\ UNCHANGED <<memoryVars, cacheVars, cores>>

Tick ==
  \/ MemoryPhase \/ BusPhase \/ EdgePhase
  \/ \E c \in Core : SnoopPhase(c) \/ ResponsePhase(c) \/ ClockPhase(c)

Next == Tick \/ \E c \in Core : CorePhase(c)

Spec == Init /\ [][Next]_vars

-----------------------------------------------------------------------------
(* Types and counter bounds of the whole system.                            *)
TypeOK ==
  /\ BusTypeOK /\ MemoryTypeOK /\ CacheTypeOK
  /\ phase \in {"memory", "bus", "snoop", "response", "clock", "core", "edge"}
  /\ turn \in Core
  /\ access \in [Core -> Access]
  /\ \A c \in Core : access[c] \in AccessOf(c) \cup {NoAccess}
  /\ retired \in [Core -> Access]
=============================================================================
