-------------------------------- MODULE DataInv -------------------------------
(***************************************************************************)
(* Where the current word of an address is: in a cache, in a request line, *)
(* on the bus, in a block half received, or in memory.  Agrees says which  *)
(* of these places have it, at every point between two calls of a cycle;   *)
(* that a load then reads the last word stored, and that clean copies hold *)
(* what memory holds, follows for every execution that loses no store and  *)
(* no write-back (StoreIsInCache, WriteBackKept, CleansWhatItSupplies).    *)
(***************************************************************************)
EXTENDS FlushInv

(* The last word of a block that core c has cleaned, and given up.         *)
GaveUp(c, a) == LastWordPosted(c, a) /\ c \notin Suppliers(a)

(* In this step the bus takes such a word, or leaves it where it is.       *)
WriteBackStep ==
  \A c \in Core, a \in Addr : GaveUp(c, a) => slot'[c] \in {slot[c], NoRequest}

(* cache.c:101-105 counts the last word of a write-back as sent when it is  *)
(* posted.  It is in no cache any more, so no request may overwrite it     *)
(* before it is on the bus.                                                *)
WriteBackKept == [][WriteBackStep]_vars

(* A core has one request line for the block it cleans and for the block   *)
(* it supplies: when these are two, the words of the one overwrite a word  *)
(* of the other that the bus waits for (cache.c:100, 325).                 *)
CleansWhatItSupplies ==
  \A c \in Core :
    (need_to_clean_first[c] /\ Supplies(c)) => RequestedBlock = VictimBlock(c)

(* An execution that loses no store and no write-back, and whose cores do  *)
(* not clean one block while they supply another.                          *)
Lossless == StoreIsInCache /\ WriteBackKept /\ []CleansWhatItSupplies

(* What core c's program touches, whether it makes its cache write a block *)
(* back, and whether another core touches the block of a.                  *)
Touches(c) == Loads[c] \cup Stores[c]
Evicts(c) ==
  \E a \in Stores[c], b \in Touches(c) : get_index(a) = get_index(b) /\ get_tag(a) # get_tag(b)
OthersTouch(c, a) ==
  \E d \in Core \ {c} : \E b \in Touches(d) : get_block_addr(a) = get_block_addr(b)

(* Programs of which this is true: a core that writes blocks back stores   *)
(* to one block, or to blocks that are its own, and cores that both write  *)
(* back store to the same one.                                             *)
WriteBacksApart ==
  /\ StoresFit
  /\ \A c \in Core : Evicts(c) =>
       /\ \A a, b \in Stores[c] : get_block_addr(a) = get_block_addr(b) \/ ~OthersTouch(c, b)
       /\ \A d \in Core \ {c} : Evicts(d) =>
            \A a \in Stores[c], b \in Stores[d] : get_block_addr(a) = get_block_addr(b)

StoredBlock(c, b) == \E a \in Stores[c] : get_block_addr(a) = b

(* A core sends and posts words of blocks that it stores to.               *)
StoredWords ==
  \A c \in Core :
    /\ Supplies(c) => StoredBlock(c, RequestedBlock)
    /\ FlushPosted(c) => StoredBlock(c, get_block_addr(slot[c].addr))

BusIsFree == ~delay_in_progress /\ ~busy

(* Core c writes back a Modified block: the word that it posted is on a    *)
(* free bus, or is still posted, and then there is another after it.       *)
WritingBack(c) ==
  (need_to_clean_first[c] /\ state[c][AccessSet(c)] = "M" /\ ~AfterCoreOf(c)) =>
    /\ ~FlushPosted(c) => BusIsFree
    /\ (FlushPosted(c) /\ ~BeforeSnoop(c)) => words_left[c] < WORDS_IN_BLOCK - 1

(* So the last word, when it is posted, finds the bus free, and no other   *)
(* core's last word beside it: bus_clock takes it in the next cycle.       *)
GivenUp(c) == GaveUp(c, slot[c].addr)
TakenNext(c) ==
  GivenUp(c) => AfterCoreOf(c) /\ BusIsFree /\ \A d \in Core : GivenUp(d) => d = c

(* How cores that write blocks back share the bus (cache.c:94-107): they   *)
(* send words of blocks that they store to, one a cycle, and only one core *)
(* at a time is at the last word.                                          *)
WriteBackInv == StoredWords /\ \A c \in Core : WritingBack(c) /\ TakenNext(c)

-----------------------------------------------------------------------------
(* The set that a fill is about to overwrite is not dirty, and the store   *)
(* that waits for the fill is the one in the MEM stage.                    *)
WaitingSet ==
  \A c \in Core :
    waiting_for_bus[c] =>
      /\ state[c][get_index(waiting_addr[c])] # "M"
      /\ is_write_request[c] => write_data[c] = access[c].data

SourceIsOther == (busy /\ flush_count > 0) => bus_origid # pending_origid

ValidInMemory ==
  \A c \in Core, i \in Set : state[c][i] # "I" => BlockOf(tag[c][i], i) \in Addr

(* A word that core c has posted to clean a set: the block is Modified, or *)
(* it is the last word, no cache has the block, and no word of it is sent  *)
(* to anyone before the bus has had the chance to take this one.           *)
GivenUpBy(c) ==
  (FlushPosted(c) /\ ~(Supplies(c) /\ get_block_addr(slot[c].addr) = RequestedBlock)) =>
    \/ state[c][AccessSet(c)] = "M"
    \/ /\ state[c][AccessSet(c)] = "I"
       /\ \A d \in Core :
            /\ ~Present(d, slot[c].addr)
            /\ Completing(d) => get_block_addr(waiting_addr[d]) # VictimBlock(c)
       /\ (busy /\ RequestedBlock = VictimBlock(c)) => flush_count = 0 /\ ~AfterCoreOf(c)

PlaceInv ==
  WaitingSet /\ SourceIsOther /\ ValidInMemory /\ \A c \in Core : GivenUpBy(c)

(* A core that supplies a block has not taken another into its place.      *)
SuppliedInPlace ==
  \A c \in Core :
    LET a == waiting_addr[pending_origid]
    IN  Supplies(c) => tag[c][get_index(a)] = get_tag(a)

OwnWordOnBus(c) == bus_cmd = "BUS_FLUSH" /\ bus_origid = c

(* What RepeatCleanWord relies on: a core's own word is on the bus exactly *)
(* when it is the word posted in the cycle before.                         *)
CleanPace ==
  \A c \in Core :
    (need_to_clean_first[c] /\ state[c][AccessSet(c)] = "M" /\ BeforeSnoop(c))
      => (FlushPosted(c) <=> ~OwnWordOnBus(c))

-----------------------------------------------------------------------------
(* How many words of its block a cleaning core has got onto the bus.       *)
Sent(c) ==
  IF AfterCoreOf(c) \/ (BeforeSnoop(c) /\ FlushPosted(c))
  THEN words_left[c] - 1 ELSE words_left[c]

Cleaned(c, a) ==
  /\ need_to_clean_first[c]
  /\ get_block_addr(a) = VictimBlock(c) /\ get_block_offset(a) < Sent(c)

Owns(c, a) == Present(c, a) /\ state[c][get_index(a)] = "M"

(* Neither bus nor memory has the word: a cache or a request line has it.  *)
Dirty(a) ==
  \E c \in Core : (Owns(c, a) /\ ~Cleaned(c, a)) \/ GaveUp(c, a)

(* The word on the lines is one that memory or a requester takes: not the  *)
(* garbage of the first cycle, nor a word of memory already received.      *)
WordMatters == CoreFlushOnBus \/ busy \/ \E o \in Core : Completing(o)

(* Core o has received the word, its block is still under way.             *)
Arrived(o, a) ==
  \/ /\ busy /\ pending_origid = o /\ get_block_addr(a) = RequestedBlock
     /\ get_block_offset(a) < IF BeforeResponse(o) THEN flush_count - 1 ELSE flush_count
  \/ /\ Completing(o) /\ get_block_addr(a) = get_block_addr(waiting_addr[o])
     /\ get_block_offset(a) < WORDS_IN_BLOCK - 1

WrittenBack(a) ==
  /\ ~Dirty(a)
  /\ Suppliers(a) = {} \/ get_block_offset(a) < flush_count
  /\ ~(OnTheBus(a) /\ CoreFlushOnBus /\ phase # "bus")

-----------------------------------------------------------------------------
(* The places that hold m[a], m being the memory the programs see.         *)
CopiesAgree(m) ==
  \A c \in Core, a \in Addr :
    (Present(c, a) /\ ~BeingFilled(c, get_index(a))) => dsram[c][line(a)] = m[a]

SuppliesAgree(m) ==
  \A c \in Core, a \in Addr : c \in Suppliers(a) => dsram[c][line(a)] = m[a]

PostedAgree(m) ==
  \A g \in Agent, a \in Addr :
    (FlushPosted(g) /\ slot[g].addr = a /\ (g = MAIN_MEMORY => busy))
      => slot[g].data = m[a]

BusAgrees(m) ==
  \A a \in Addr : (OnTheBus(a) /\ WordMatters /\ ~Dirty(a)) => bus_data = m[a]

ArrivedAgree(m) ==
  \A o \in Core, a \in Addr : Arrived(o, a) => dsram[o][line(a)] = m[a]

MemoryAgrees(m) == \A a \in Addr : WrittenBack(a) => mem[a] = m[a]

(* A store that the fill has performed and the MEM stage will offer again. *)
PerformedAgree(m) ==
  \A c \in Core :
    (access[c].op = "sw" /\ is_mine[c] /\ ~waiting_for_bus[c])
      => m[access[c].addr] = access[c].data

Agrees(m) ==
  /\ CopiesAgree(m) /\ SuppliesAgree(m) /\ PostedAgree(m) /\ BusAgrees(m)
  /\ ArrivedAgree(m) /\ MemoryAgrees(m) /\ PerformedAgree(m)

(* Every place that should have the current word of an address has it: the *)
(* places agree with m, the memory the programs see (TLC builds it once).  *)
DataInvariant ==
  /\ PlaceInv /\ SuppliedInPlace /\ CleanPace
  /\ \A m \in {[a \in Addr |-> Current(a)]} : Agrees(m)
=============================================================================
