---------------------------- MODULE AtomicMemory -----------------------------
(***************************************************************************)
(* What the memory system promises the cores' programs: one memory, in     *)
(* which a load or store that leaves the MEM stage took effect at a single *)
(* moment since it entered.  No caches, no bus, no main memory.  A store   *)
(* may take effect (Perform) before the core is told so (Complete), as     *)
(* cache_handle_bus_response performs the pending store of a miss and the  *)
(* MEM stage only then offers it again.                                    *)
(***************************************************************************)
EXTENDS Integers

CONSTANTS Core, Addr, Word, MemIn, Loads, Stores

VARIABLES
  memory,      \* the value of every address
  access,      \* the access in each core's MEM stage
  performed,   \* the store in the MEM stage has taken effect
  retired      \* the access that has just left it, with the word loaded

vars == <<memory, access, performed, retired>>

NoAccess == [op |-> "nop", addr |-> 0, data |-> 0]
LoadOf(c) == [op : {"lw"}, addr : Loads[c], data : {0}]
StoreOf(c) == [op : {"sw"}, addr : Stores[c], data : Word]

Init ==
  /\ memory = MemIn
  /\ access = [c \in Core |-> NoAccess]
  /\ performed = [c \in Core |-> FALSE]
  /\ retired = [c \in Core |-> NoAccess]

(* An access enters the MEM stage, stays in it, or the stage is empty.     *)
Offer(c, r) == access' = [access EXCEPT ![c] = r]

Begin(c) ==
  /\ access[c] = NoAccess
  /\ \E r \in LoadOf(c) \cup StoreOf(c) : Offer(c, r)
  /\ retired' = [retired EXCEPT ![c] = NoAccess]
  /\ UNCHANGED <<memory, performed>>

Stall(c) ==
  /\ retired' = [retired EXCEPT ![c] = NoAccess]
  /\ UNCHANGED <<memory, access, performed>>

Perform(c) ==
  /\ access[c].op = "sw" /\ ~performed[c]
  /\ memory' = [memory EXCEPT ![access[c].addr] = access[c].data]
  /\ performed' = [performed EXCEPT ![c] = TRUE]
  /\ UNCHANGED <<access, retired>>

Complete(c, r) ==
  /\ Offer(c, NoAccess)
  /\ performed' = [performed EXCEPT ![c] = FALSE]
  /\ \/ /\ r.op = "lw"
        /\ retired' = [retired EXCEPT ![c] = [r EXCEPT !.data = memory[r.addr]]]
        /\ UNCHANGED memory
     \/ /\ r.op = "sw"
        /\ retired' = [retired EXCEPT ![c] = r]
        /\ IF performed[c] THEN UNCHANGED memory
           ELSE memory' = [memory EXCEPT ![r.addr] = r.data]

CompleteAny(c) ==
  \E r \in IF access[c] = NoAccess THEN LoadOf(c) \cup StoreOf(c)
           ELSE {access[c]} : Complete(c, r)

Next == \E c \in Core : Begin(c) \/ Stall(c) \/ Perform(c) \/ CompleteAny(c)

Spec == Init /\ [][Next]_vars
=============================================================================
