------------------------------ MODULE MainMemory -----------------------------
(***************************************************************************)
(* Main memory (sim/main_memory.c): it takes every word a core flushes,    *)
(* and answers a BusRd/BusRdX with the block, one word per cycle, after    *)
(* RESPONSE_DELAY cycles, unless a core's flush cancels the answer.        *)
(*                                                                         *)
(* block_addr is dead once an answer has ended; the model clears it then.  *)
(* The test bus_data != -1 on a BusRdX is always true: cache_write posts   *)
(* BusRdX with data 0.                                                     *)
(***************************************************************************)
EXTENDS BusSystem

CONSTANTS
  RESPONSE_DELAY,   \* 14 in the code
  MemIn             \* the memory after memory_load: memin.txt, then zeros

ASSUME MemoryAssumption ==
  /\ RESPONSE_DELAY \in Nat
  /\ MemIn \in [Addr -> Word]

VARIABLES
  mem,                  \* data[]
  waiting_to_respond, wait_cycles, block_addr, words_to_send

response == <<waiting_to_respond, wait_cycles, block_addr, words_to_send>>
memoryVars == <<mem, response>>

MemoryInit ==
  /\ mem = MemIn
  /\ waiting_to_respond = FALSE /\ wait_cycles = 0
  /\ block_addr = 0 /\ words_to_send = 0

-----------------------------------------------------------------------------
CoreFlushOnBus == bus_cmd = "BUS_FLUSH" /\ bus_origid # MAIN_MEMORY

(* Mutant: the answer in preparation is not cancelled.                     *)
Bug_CancelResponse == UNCHANGED response

CancelResponse ==
  IF waiting_to_respond
  THEN /\ waiting_to_respond' = FALSE /\ wait_cycles' = 0
       /\ block_addr' = 0 /\ words_to_send' = 0
  ELSE UNCHANGED response

(* Mutant: memory only takes words that no core has asked memory for.      *)
Bug_WriteMemory ==
  IF waiting_to_respond THEN UNCHANGED mem
  ELSE mem' = [mem EXCEPT ![bus_addr] = bus_data]

(* A word outside data[] is written outside the modelled state.            *)
WriteMemory == mem' = [mem EXCEPT ![bus_addr] = bus_data]

TakeFlushedWord ==
  /\ CoreFlushOnBus
  /\ WriteMemory
  /\ CancelResponse
  /\ UNCHANGED slot

CountDown ==
  /\ ~CoreFlushOnBus
  /\ waiting_to_respond /\ wait_cycles > 0
  /\ wait_cycles' = wait_cycles - 1
  /\ UNCHANGED <<mem, waiting_to_respond, block_addr, words_to_send, slot>>

SendWord ==
  /\ ~CoreFlushOnBus
  /\ waiting_to_respond /\ wait_cycles = 0 /\ words_to_send > 0
  /\ LET word_addr == block_addr + (WORDS_IN_BLOCK - words_to_send)
     IN  BusRequest(MAIN_MEMORY, "BUS_FLUSH", word_addr, mem[word_addr])
  /\ words_to_send' = words_to_send - 1
  /\ waiting_to_respond' = (words_to_send' # 0)
  /\ block_addr' = IF words_to_send' = 0 THEN 0 ELSE block_addr
  /\ UNCHANGED <<mem, wait_cycles>>

Responding == waiting_to_respond /\ (wait_cycles > 0 \/ words_to_send > 0)

StartResponse ==
  /\ ~CoreFlushOnBus /\ ~Responding
  /\ bus_cmd \in Transaction
  /\ waiting_to_respond' = TRUE
  /\ wait_cycles' = RESPONSE_DELAY
  /\ block_addr' = get_block_addr(bus_addr)
  /\ words_to_send' = WORDS_IN_BLOCK
  /\ UNCHANGED <<mem, slot>>

MemoryIdle ==
  /\ ~CoreFlushOnBus /\ ~Responding
  /\ bus_cmd \notin Transaction
  /\ UNCHANGED <<memoryVars, slot>>

MemoryClock ==
  /\ TakeFlushedWord \/ CountDown \/ SendWord \/ StartResponse \/ MemoryIdle
  /\ UNCHANGED <<lines, shared, delay, control, pending>>

-----------------------------------------------------------------------------
MemoryTypeOK ==
  /\ mem \in [Addr -> Word]
  /\ waiting_to_respond \in BOOLEAN
  /\ wait_cycles \in 0 .. RESPONSE_DELAY
  /\ block_addr \in Addr /\ block_addr % WORDS_IN_BLOCK = 0
  /\ words_to_send \in 0 .. WORDS_IN_BLOCK
=============================================================================
