------------------------------ MODULE BusSystem ------------------------------
(***************************************************************************)
(* The shared bus of the simulator (sim/bus.c, sim/bus_system.h): one      *)
(* request line per agent, the lines every cache and the memory snoop, the *)
(* one-cycle delay in front of a BusRd/BusRdX, and the arbitration that    *)
(* bus_clock performs once per simulated cycle.                            *)
(*                                                                         *)
(* Abstractions.  bus_request[], bus_cmd_in[], bus_addr_in[] and           *)
(* bus_data_in[] are one record per agent, slot[a]; a line that is down is *)
(* NoRequest, because the code reads the other three fields of an agent    *)
(* only while its line is up.  new_request and global_cycles, which only   *)
(* feed the trace file, are left out.  Addresses are integers; a negative  *)
(* one stands for the 32-bit value it wraps to.                            *)
(***************************************************************************)
EXTENDS Integers

CONSTANTS
  NUM_CORES,       \* number of cores: 4 in the code
  WORDS_IN_BLOCK,  \* words per block: 4 in the code (also named BLOCK_SIZE)
  NUM_BLOCKS,      \* MEMORY_SIZE / WORDS_IN_BLOCK
  Word             \* the values a 32-bit data word may take

ASSUME BusAssumption ==
  /\ NUM_CORES \in Nat \ {0}
  /\ WORDS_IN_BLOCK \in Nat \ {0, 1}
  /\ NUM_BLOCKS \in Nat \ {0}
  /\ 0 \in Word

Core == 0 .. NUM_CORES - 1
MAIN_MEMORY == NUM_CORES
Agent == 0 .. NUM_CORES
Addr == 0 .. NUM_BLOCKS * WORDS_IN_BLOCK - 1

Transaction == {"BUS_RD", "BUS_RDX"}
BusCmd == {"BUS_NO_CMD", "BUS_FLUSH"} \cup Transaction

(* Word offset and block-aligned address, as every file computes them.     *)
get_block_offset(a) == a % WORDS_IN_BLOCK
get_block_addr(a) == a - (a % WORDS_IN_BLOCK)

NoRequest == [cmd |-> "BUS_NO_CMD", addr |-> 0, data |-> 0]
Request == [cmd : Transaction, addr : Addr, data : Word]
             \cup [cmd : {"BUS_FLUSH"}, addr : Int, data : Word]

VARIABLES
  bus_origid, bus_cmd, bus_addr, bus_data,   \* what every agent snoops
  shared_D, shared_Q,                        \* the two sides of bus_shared
  slot,                                      \* the agents' request lines
  delay_in_progress, delay_cycles,
  busy, flush_count, last_granted,
  pending_cmd, pending_origid, pending_addr, pending_data

lines   == <<bus_origid, bus_cmd, bus_addr, bus_data>>
shared  == <<shared_D, shared_Q>>
delay   == <<delay_in_progress, delay_cycles>>
control == <<busy, flush_count, last_granted>>
pending == <<pending_cmd, pending_origid, pending_addr, pending_data>>
busVars == <<lines, shared, slot, delay, control, pending>>

-----------------------------------------------------------------------------
(* bus_init clears the lines of agents 0..3 only: the memory's line holds  *)
(* whatever malloc returned.  Garbage that is not a raised FLUSH is never  *)
(* looked at, so it is NoRequest.                                          *)
BusInit ==
  /\ bus_origid = 0 /\ bus_cmd = "BUS_NO_CMD" /\ bus_addr = 0 /\ bus_data = 0
  /\ shared_D = FALSE /\ shared_Q = FALSE
  /\ \E garbage \in {NoRequest} \cup
                     [cmd : {"BUS_FLUSH"}, addr : Addr, data : Word] :
       slot = [a \in Agent |-> IF a = MAIN_MEMORY THEN garbage ELSE NoRequest]
  /\ delay_in_progress = FALSE /\ delay_cycles = 0
  /\ busy = FALSE /\ flush_count = 0 /\ last_granted = NUM_CORES - 1
  /\ pending_cmd = "BUS_NO_CMD" /\ pending_origid = 0
  /\ pending_addr = 0 /\ pending_data = 0

(* bus_request stores unconditionally: a request already there is gone.    *)
BusRequest(a, cmd, addr, data) ==
  slot' = [slot EXCEPT ![a] = [cmd |-> cmd, addr |-> addr, data |-> data]]

BusSetShared == shared_D' = TRUE

-----------------------------------------------------------------------------
(* bus_clock                                                               *)

(* The initial delay of a granted BusRd/BusRdX runs out and the            *)
(* transaction takes the bus.                                              *)
DelayStep ==
  /\ delay_in_progress
  /\ delay_cycles' = delay_cycles - 1
  /\ IF delay_cycles' = 0
     THEN /\ delay_in_progress' = FALSE
          /\ bus_cmd' = pending_cmd
          /\ bus_origid' = pending_origid
          /\ bus_addr' = pending_addr
          /\ bus_data' = pending_data
          /\ pending_addr' = get_block_addr(pending_addr)
          /\ busy' = TRUE
          /\ flush_count' = 0
     ELSE UNCHANGED <<delay_in_progress, lines, pending_addr, busy, flush_count>>
  /\ UNCHANGED <<shared, slot, last_granted, pending_cmd, pending_origid,
                 pending_data>>

(* Mutant: the address of a FLUSH is not compared.                         *)
Bug_FlushAllowed(a) == slot[a].cmd = "BUS_FLUSH"

(* A FLUSH may go out on a free bus, or on a busy one when it carries the  *)
(* word the current transaction expects next.                              *)
FlushAllowed(a) ==
  /\ slot[a].cmd = "BUS_FLUSH"
  /\ ~busy \/ slot[a].addr = pending_addr

FlushReady == {a \in Agent : FlushAllowed(a)}

LowestFlush(a) ==
  /\ ~delay_in_progress
  /\ a \in FlushReady
  /\ \A b \in FlushReady : a <= b

PutOnBus(a) ==
  /\ pending_addr' = pending_addr + 1
  /\ bus_origid' = a
  /\ bus_cmd' = "BUS_FLUSH"
  /\ bus_addr' = slot[a].addr
  /\ bus_data' = slot[a].data
  /\ slot' = [slot EXCEPT ![a] = NoRequest]

BlockComplete == busy /\ flush_count + 1 = WORDS_IN_BLOCK

(* Mutant: flush_count is not reset when the block is complete.            *)
Bug_CountWord ==
  /\ flush_count' = IF busy THEN flush_count + 1 ELSE flush_count
  /\ IF BlockComplete THEN busy' = FALSE /\ shared_D' = FALSE
     ELSE UNCHANGED <<busy, shared_D>>

CountWord ==
  IF BlockComplete
  THEN busy' = FALSE /\ shared_D' = FALSE /\ flush_count' = 0
  ELSE /\ flush_count' = IF busy THEN flush_count + 1 ELSE flush_count
       /\ UNCHANGED <<busy, shared_D>>

(* FLUSH has fixed priority by agent number, before any other request.     *)
GrantFlush(a) ==
  /\ LowestFlush(a)
  /\ PutOnBus(a)
  /\ CountWord
  /\ UNCHANGED <<shared_Q, delay, last_granted, pending_cmd, pending_origid,
                 pending_data>>

(* Mutant: the requesting core with the lowest number wins.                *)
Bug_Distance(c) == c

(* Steps from the last granted core to core c, going round.                *)
Distance(c) == (c - last_granted - 1) % NUM_CORES

Requesting == {c \in Core : slot[c].cmd \in Transaction}

(* Mutant: the round-robin pointer does not move.                          *)
Bug_MovePointer(c) == UNCHANGED last_granted

MovePointer(c) == last_granted' = c

(* The bus lines keep the previous command while a grant is delayed.       *)
GrantRequest(c) ==
  /\ ~delay_in_progress /\ FlushReady = {} /\ ~busy
  /\ c \in Requesting
  /\ \A d \in Requesting : Distance(c) <= Distance(d)
  /\ delay_in_progress' = TRUE
  /\ delay_cycles' = 1
  /\ pending_cmd' = slot[c].cmd
  /\ pending_origid' = c
  /\ pending_addr' = slot[c].addr
  /\ pending_data' = slot[c].data
  /\ slot' = [slot EXCEPT ![c] = NoRequest]
  /\ MovePointer(c)
  /\ UNCHANGED <<lines, shared, busy, flush_count>>

(* A busy bus waits for the next word and leaves its lines as they are.    *)
WaitForWord ==
  /\ ~delay_in_progress /\ FlushReady = {} /\ busy
  /\ UNCHANGED busVars

GoIdle ==
  /\ ~delay_in_progress /\ FlushReady = {} /\ ~busy /\ Requesting = {}
  /\ bus_cmd' = "BUS_NO_CMD"
  /\ UNCHANGED <<bus_origid, bus_addr, bus_data, shared, slot, delay, control,
                 pending>>

BusClock ==
  \/ DelayStep
  \/ \E a \in Agent : GrantFlush(a)
  \/ \E c \in Core : GrantRequest(c)
  \/ WaitForWord
  \/ GoIdle

(* The clock edge of the shared line, at the end of main's loop body.      *)
SharedEdge ==
  /\ shared_Q' = shared_D
  /\ UNCHANGED <<lines, shared_D, slot, delay, control, pending>>

-----------------------------------------------------------------------------
(* Types, the bounds of the counters, and where an address must be one of  *)
(* memory: those of transactions are, those of flushed words need not be.  *)
BusTypeOK ==
  /\ bus_origid \in Agent
  /\ bus_cmd \in BusCmd
  /\ bus_cmd \in Transaction => bus_addr \in Addr
  /\ bus_addr \in Int
  /\ bus_data \in Word
  /\ shared_D \in BOOLEAN /\ shared_Q \in BOOLEAN
  /\ slot \in [Agent -> Request \cup {NoRequest}]
  /\ delay_in_progress \in BOOLEAN
  /\ delay_cycles = IF delay_in_progress THEN 1 ELSE 0
  /\ delay_in_progress => pending_cmd \in Transaction /\ pending_addr \in Addr
  /\ busy \in BOOLEAN
  /\ flush_count \in 0 .. WORDS_IN_BLOCK - 1
  /\ last_granted \in Core
  /\ pending_cmd \in {"BUS_NO_CMD"} \cup Transaction
  /\ pending_origid \in Core
  /\ pending_addr \in Int
  /\ pending_data \in Word
=============================================================================
