--------------------------- MODULE DataInv_proofs ----------------------------
(***************************************************************************)
(* The value of an address is where DataInv says, for every value of the   *)
(* constants, in every execution that loses no store and no write-back.    *)
(* Hence the caches, the bus and main memory together implement one atomic *)
(* memory, and clean copies hold what memory holds.                        *)
(***************************************************************************)
EXTENDS DataInv, FlushInv_proofs

-----------------------------------------------------------------------------
(* An address is its block and its offset; a cache keeps the words of one  *)
(* block in different lines.                                               *)
LEMMA WordOf ==
  ASSUME NEW a \in Int
  PROVE  /\ get_block_offset(a) \in 0 .. WORDS_IN_BLOCK - 1
         /\ a = get_block_addr(a) + get_block_offset(a)
         /\ get_index(a) \in Set /\ get_tag(a) \in Int
         /\ line(a) \in Line /\ line(a) = get_index(a) * BLOCK_SIZE + get_block_offset(a)
<1>1. get_block_offset(a) \in 0 .. WORDS_IN_BLOCK - 1
  BY BusAssumption DEF get_block_offset
<1>2. a = get_block_addr(a) + get_block_offset(a)
  BY BusAssumption DEF get_block_addr, get_block_offset
<1> QED
  BY <1>1, <1>2, IndexInSet, WordOfSet DEF line, BLOCK_SIZE

LEMMA SameLine ==
  ASSUME NEW a \in Int, NEW b \in Int
  PROVE  line(a) = line(b) <=> /\ get_index(a) = get_index(b)
                               /\ get_block_offset(a) = get_block_offset(b)
<1>1. ASSUME NEW x \in Int
      PROVE  line(x) % WORDS_IN_BLOCK = get_block_offset(x) /\ line(x) \div WORDS_IN_BLOCK = get_index(x)
  <2> DEFINE W == WORDS_IN_BLOCK
             q == get_index(x)
             k == get_block_offset(x)
  <2>1. W \in Nat /\ W > 0 /\ q \in Int /\ k \in 0 .. W - 1 /\ line(x) = q * W + k
    BY WordOf, BusAssumption DEF Set, BLOCK_SIZE
  <2> HIDE DEF q, k
  <2>2. (q * W + k) % W = k /\ (q * W + k) \div W = q
    BY <2>1
  <2> QED
    BY <2>1, <2>2 DEF q, k
<1> QED
  BY <1>1, WordOf

LEMMA SameBlock ==
  ASSUME NEW a \in Int, NEW b \in Int
  PROVE  get_block_addr(a) = get_block_addr(b)
           <=> get_index(a) = get_index(b) /\ get_tag(a) = get_tag(b)
<1>1. ASSUME get_block_addr(a) = get_block_addr(b)
      PROVE  get_index(a) = get_index(b) /\ get_tag(a) = get_tag(b)
  <2>1. 0 \in 0 .. WORDS_IN_BLOCK - 1
    BY BusAssumption
  <2>2. /\ get_index(get_block_addr(a) + 0) = get_index(a) /\ get_tag(get_block_addr(a) + 0) = get_tag(a)
        /\ get_index(get_block_addr(b) + 0) = get_index(b) /\ get_tag(get_block_addr(b) + 0) = get_tag(b)
    BY <2>1, WordInBlock
  <2> QED
    BY <1>1, <2>2
<1> QED
  BY <1>1, BlockOfAddr

LEMMA SameWord ==
  ASSUME NEW a \in Int, NEW b \in Int
  PROVE  /\ a = b <=> /\ get_block_addr(a) = get_block_addr(b)
                      /\ get_block_offset(a) = get_block_offset(b)
         /\ a = b <=> line(a) = line(b) /\ get_tag(a) = get_tag(b)
BY WordOf, SameLine, SameBlock
-----------------------------------------------------------------------------
(* What a core does in its turn, when no store is lost.                    *)
Offered(c) == IF access[c] = NoAccess THEN AccessOf(c) ELSE {access[c]}

QuietStep(c) ==
  /\ UNCHANGED <<cacheVars, slot>>
  /\ retired' = [retired EXCEPT ![c] = NoAccess]
  /\ \/ access[c] = NoAccess /\ access' = access
     \/ Blocked(c) /\ \E r \in Offered(c) : access' = [access EXCEPT ![c] = r]

HitStep(c, r) ==
  /\ \/ r.op = "lw" /\ ReadHit(c, r.addr)
     \/ r.op = "sw" /\ WriteHit(c, r.addr, r.data)
  /\ access' = [access EXCEPT ![c] = NoAccess]
  /\ retired' = [retired EXCEPT ![c] =
                   IF r.op = "sw" THEN r ELSE [r EXCEPT !.data = dsram[c][line(r.addr)]]]

CleanStep(c, r) ==
  /\ ~Blocked(c) /\ tag[c][get_index(r.addr)] # get_tag(r.addr)
  /\ \/ StartCleaning(c, r.addr)
     \/ /\ ContinueCleaning(c, r.addr)
        /\ UNCHANGED state \/ (LastWordToClean(c) /\ SetState(c, r.addr, "I"))
  /\ access' = [access EXCEPT ![c] = r]
  /\ retired' = [retired EXCEPT ![c] = NoAccess]

RequestStep(c, r) ==
  /\ ~Blocked(c) /\ ~need_to_clean_first[c] /\ state[c][get_index(r.addr)] # "M"
  /\ IF r.op = "sw" THEN RequestBlock(c, r.addr, "BUS_RDX", r.data)
     ELSE RequestBlock(c, r.addr, "BUS_RD", 0)
  /\ access' = [access EXCEPT ![c] = r]
  /\ retired' = [retired EXCEPT ![c] = NoAccess]

LEMMA OfferCases ==
  ASSUME TypeOK, ProtocolInvariant, FlushInvariant, StoreCompletes,
         NEW c \in Core, CorePhase(c), NEW ready \in BOOLEAN,
         NEW r \in Offered(c), Offer(c, r, ready)
  PROVE  QuietStep(c) \/ HitStep(c, r) \/ CleanStep(c, r) \/ RequestStep(c, r)
<1> DEFINE a == r.addr
           i == get_index(a)
<1>1. /\ r \in AccessOf(c) /\ a \in Addr /\ r.op \in {"lw", "sw"} /\ r # NoAccess
      /\ access[c] # NoAccess => r = access[c]
      /\ r.op = "sw" => r \in StoreOf(c)
  BY StoreAddress DEF Offered, AccessOf, LoadOf, StoreOf
<1>2. /\ access' = [access EXCEPT ![c] = IF ready THEN NoAccess ELSE r]
      /\ ~ready => retired' = [retired EXCEPT ![c] = NoAccess]
      /\ ready => retired' = [retired EXCEPT ![c] =
                      IF r.op = "sw" THEN r ELSE [r EXCEPT !.data = dsram[c][line(a)]]]
  BY DEF Offer
<1>3. \/ r.op = "lw" /\ CacheRead(c, a, ready)
      \/ r.op = "sw" /\ CacheWrite(c, a, r.data, ready)
  BY DEF Offer
<1>c. CleaningOf(c)
  BY DEF FlushInvariant, CleanInv
<1>m. MissesOther(c) => tag[c][i] # get_tag(a)
  BY <1>1 DEF MissesOther, AccessSet
<1>4. CASE Refuse(c)
  <2>1. ~ready \/ WriteMiss(c, a, r.data, ready) \/ ReadHit(c, a) \/ WriteHit(c, a, r.data)
    BY <1>3 DEF CacheRead, CacheWrite
  <2>2. ~ready
    BY <1>4, <2>1 DEF Refuse, WriteMiss, ReadHit, WriteHit
  <2> QED
    BY <1>2, <1>4, <2>2 DEF Refuse, QuietStep
<1>5. CASE r.op = "lw" /\ ready /\ ReadHit(c, a)
  BY <1>2, <1>5 DEF HitStep
<1>6. CASE r.op = "sw" /\ ready /\ WriteHit(c, a, r.data)
  BY <1>2, <1>6 DEF HitStep
<1>7. CASE r.op = "sw" /\ ~ready /\ WriteUpgrade(c, a, r.data)
  <2>1. ~need_to_clean_first[c]
    BY <1>7, <1>c, <1>m DEF WriteUpgrade, CleaningOf
  <2> QED
    BY <1>2, <1>7, <2>1 DEF WriteUpgrade, RequestStep
<1>8. CASE r.op = "lw" /\ ~ready /\ ReadMiss(c, a)
  <2>1. ~Blocked(c) /\ ~Present(c, a)
    BY <1>8 DEF ReadMiss
  <2>2. CASE StartCleaning(c, a)
    BY <1>2, <1>8, <2>1, <2>2 DEF StartCleaning, Present, CleanStep
  <2>3. CASE /\ ContinueCleaning(c, a)
             /\ IF LastWordToClean(c) THEN SetState(c, a, "I") ELSE UNCHANGED state
    <3>1. tag[c][i] # get_tag(a)
      BY <1>c, <1>m, <2>3 DEF ContinueCleaning, CleaningOf
    <3> QED
      BY <1>2, <1>8, <2>1, <2>3, <3>1 DEF CleanStep
  <2>4. CASE NothingToClean(c, a) /\ RequestBlock(c, a, "BUS_RD", 0)
    BY <1>2, <1>8, <2>1, <2>4 DEF NothingToClean, RequestStep
  <2> QED
    BY <1>8, <2>2, <2>3, <2>4 DEF ReadMiss
<1>9. CASE r.op = "sw" /\ WriteMiss(c, a, r.data, ready)
  <2>1. ~Blocked(c) /\ tag[c][i] # get_tag(a)
    BY <1>9 DEF WriteMiss
  <2>2. CASE ~ready /\ StartCleaning(c, a)
    BY <1>2, <2>1, <2>2 DEF CleanStep
  <2>3. CASE ContinueCleaning(c, a) /\ UNCHANGED state
    <3>1. UNCHANGED tag
      BY <2>3 DEF ContinueCleaning
    <3>2. ~ready
      BY <1>1, <1>9, <2>1, <3>1, StoreStays, CoreTurn
    <3> QED
      BY <1>2, <2>1, <2>3, <3>2 DEF CleanStep
  <2>4. CASE ~ready /\ NothingToClean(c, a) /\ RequestBlock(c, a, "BUS_RDX", r.data)
    BY <1>2, <1>9, <2>1, <2>4 DEF NothingToClean, RequestStep
  <2> QED
    BY <1>9, <2>2, <2>3, <2>4 DEF WriteMiss
<1> QED
  BY <1>3, <1>4, <1>5, <1>6, <1>7, <1>8, <1>9 DEF CacheRead, CacheWrite

LEMMA CoreCases ==
  ASSUME TypeOK, ProtocolInvariant, FlushInvariant, StoreCompletes, NEW c \in Core, CorePhase(c)
  PROVE  \/ QuietStep(c)
         \/ \E r \in Offered(c) : HitStep(c, r) \/ CleanStep(c, r) \/ RequestStep(c, r)
<1>1. CASE NoMemoryAccess(c)
  BY <1>1 DEF NoMemoryAccess, QuietStep
<1>2. CASE MemoryAccess(c)
  BY <1>2, OfferCases DEF MemoryAccess, Offered
<1> QED
  BY <1>1, <1>2 DEF CorePhase
-----------------------------------------------------------------------------
(* The places of dirty words (PlaceInv).                                   *)
LEMMA GivenUpStays ==
  ASSUME NEW c \in Core, GivenUpBy(c),
         slot'[c] = slot[c], access'[c] = access[c], tag'[c] = tag[c], state'[c] = state[c],
         (Supplies(c) /\ get_block_addr(slot[c].addr) = RequestedBlock)
           => Supplies(c)' /\ RequestedBlock' = RequestedBlock,
         \A d \in Core : Present(d, slot[c].addr)' => Present(d, slot[c].addr),
         \A d \in Core : Completing(d)' => Completing(d) /\ waiting_addr'[d] = waiting_addr[d],
         AfterCoreOf(c)' => AfterCoreOf(c),
         busy' => busy /\ RequestedBlock' = RequestedBlock /\ flush_count' = flush_count
  PROVE  GivenUpBy(c)'
<1>1. AccessSet(c)' = AccessSet(c) /\ VictimBlock(c)' = VictimBlock(c) /\ FlushPosted(c)' = FlushPosted(c)
  BY DEF AccessSet, VictimBlock, FlushPosted
<1> SUFFICES ASSUME FlushPosted(c)',
                    ~(Supplies(c) /\ get_block_addr(slot[c].addr) = RequestedBlock)',
                    state'[c][AccessSet(c)'] # "M"
             PROVE  /\ state'[c][AccessSet(c)'] = "I"
                    /\ \A d \in Core :
                         /\ ~Present(d, slot[c].addr)'
                         /\ Completing(d)' => get_block_addr(waiting_addr'[d]) # VictimBlock(c)'
                    /\ (busy' /\ RequestedBlock' = VictimBlock(c)') => flush_count' = 0 /\ ~AfterCoreOf(c)'
  BY DEF GivenUpBy
<1>3. ~(Supplies(c) /\ get_block_addr(slot[c].addr) = RequestedBlock)
  OBVIOUS
<1>4. /\ state[c][AccessSet(c)] = "I"
      /\ \A d \in Core :
           /\ ~Present(d, slot[c].addr)
           /\ Completing(d) => get_block_addr(waiting_addr[d]) # VictimBlock(c)
      /\ (busy /\ RequestedBlock = VictimBlock(c)) => flush_count = 0 /\ ~AfterCoreOf(c)
  BY <1>1, <1>3 DEF GivenUpBy
<1> QED
  BY <1>1, <1>4

LEMMA MemoryKeepsPlaces ==
  ASSUME TypeOK, PlaceInv, MemoryPhase
  PROVE  PlaceInv'
<1>1. /\ UNCHANGED <<cacheVars, access, lines, control, pending>> /\ \A c \in Core : slot'[c] = slot[c]
  <2>1. UNCHANGED <<cacheVars, access, lines, control, pending>>
    BY DEF MemoryPhase, MemoryClock, cores
  <2>2. slot' = slot \/ \E r : slot' = [slot EXCEPT ![MAIN_MEMORY] = r]
    BY DEF MemoryPhase, MemoryClock, TakeFlushedWord, CountDown, SendWord, StartResponse, MemoryIdle,
       BusRequest
  <2> QED
    BY <2>1, <2>2, MemoryTypes
<1>2. /\ phase = "memory" /\ phase' = "bus"
      /\ \A c \in Core : ~Completing(c)' /\ AfterCoreOf(c)
  BY DEF MemoryPhase, GoTo, Completing, BeforeResponse, InCachePhases, AfterCoreOf
<1>3. /\ UNCHANGED <<tag, state, waiting_for_bus, waiting_addr, is_write_request, write_data,
                     sending_flush, busy, flush_count, bus_origid, pending_origid>>
  BY <1>1 DEF cacheVars, arrays, request, supply, lines, control, pending
<1>4. RequestedBlock' = RequestedBlock /\ \A c \in Core : Supplies(c)' = Supplies(c)
  BY <1>3 DEF RequestedBlock, Supplies
<1>5. \A c \in Core : GivenUpBy(c)'
  <2> SUFFICES ASSUME NEW c \in Core PROVE GivenUpBy(c)'
    OBVIOUS
  <2>1. \A d \in Core : Present(d, slot[c].addr)' => Present(d, slot[c].addr)
    BY <1>1, <1>3 DEF Present
  <2> QED
    BY <1>1, <1>2, <1>3, <1>4, <2>1, GivenUpStays DEF PlaceInv
<1> QED
  BY <1>1, <1>3, <1>5 DEF PlaceInv, WaitingSet, SourceIsOther, ValidInMemory

LEMMA EdgeKeepsPlaces ==
  ASSUME TypeOK, PlaceInv, EdgePhase
  PROVE  PlaceInv'
<1>1. UNCHANGED <<cacheVars, access, lines, control, pending, slot>>
  BY DEF EdgePhase, SharedEdge, cores
<1>2. \A c \in Core : ~Completing(c)' /\ AfterCoreOf(c)
  BY DEF EdgePhase, GoTo, Completing, BeforeResponse, InCachePhases, AfterCoreOf
<1>3. /\ UNCHANGED <<tag, state, waiting_for_bus, waiting_addr, is_write_request, write_data,
                     sending_flush, busy, flush_count, bus_origid, pending_origid>>
  BY <1>1 DEF cacheVars, arrays, request, supply, lines, control, pending
<1>4. RequestedBlock' = RequestedBlock /\ \A c \in Core : Supplies(c)' = Supplies(c)
  BY <1>3 DEF RequestedBlock, Supplies
<1>5. \A c \in Core : GivenUpBy(c)'
  <2> SUFFICES ASSUME NEW c \in Core PROVE GivenUpBy(c)'
    OBVIOUS
  <2>1. \A d \in Core : Present(d, slot[c].addr)' => Present(d, slot[c].addr)
    BY <1>1, <1>3 DEF Present
  <2> QED
    BY <1>1, <1>2, <1>3, <1>4, <2>1, GivenUpStays DEF PlaceInv
<1> QED
  BY <1>1, <1>3, <1>5 DEF PlaceInv, WaitingSet, SourceIsOther, ValidInMemory
(* cache_snoop lowers the state of the block on the bus, and of no other;  *)
(* a Modified one is supplied from then on.                                *)
LEMMA SnoopLowers ==
  ASSUME TypeOK, ProtocolInvariant, NEW c \in Core, SnoopPhase(c)
  PROVE  /\ UNCHANGED <<tag, dsram, is_mine, request, access>> \/ SnoopOwnRequest(c)
         /\ UNCHANGED <<tag, dsram, request, access, need_to_clean_first>>
         /\ \A d \in Core : d # c => state'[d] = state[d] /\ is_mine'[d] = is_mine[d]
         /\ \A j \in Set :
              \/ state'[c][j] = state[c][j]
              \/ /\ state[c][j] # "I" /\ state'[c][j] \in {"S", "I"}
                 /\ j = get_index(bus_addr) /\ tag[c][j] = get_tag(bus_addr)
                 /\ bus_cmd \in Transaction /\ c # bus_origid
                 /\ state[c][j] = "M" => sending_flush'[c]
<1>1. /\ get_index(bus_addr) \in Set /\ state \in [Core -> [Set -> MESI]]
      /\ is_mine \in [Core -> BOOLEAN] /\ sending_flush \in [Core -> BOOLEAN]
  BY TypeOKParts, IndexInSet, FlushTypes DEF CacheTypeOK
<1>2. UNCHANGED <<tag, dsram, request, access, need_to_clean_first>>
  BY DEF SnoopPhase, CacheSnoop, SnoopOwnRequest, SnoopOther, arrays, cleaning, cores
<1>3. UNCHANGED <<tag, dsram, is_mine, request, access>> \/ SnoopOwnRequest(c)
  BY <1>2 DEF SnoopPhase, CacheSnoop, SnoopOther
<1>4. \A d \in Core : d # c => is_mine'[d] = is_mine[d]
  BY <1>1, <1>3 DEF SnoopOwnRequest
<1>5. \/ state' = state
      \/ /\ bus_cmd \in Transaction /\ c # bus_origid /\ Present(c, bus_addr)
         /\ \E m \in {"S", "I"} : state' = [state EXCEPT ![c][get_index(bus_addr)] = m]
         /\ SnoopState(c) = "M" => sending_flush'[c]
  <2>1. CASE SnoopOwnRequest(c)
    BY <2>1 DEF SnoopOwnRequest, arrays
  <2>2. CASE SnoopOther(c) /\ SnoopNothing(c)
    BY <2>2 DEF SnoopNothing
  <2>3. CASE SnoopOther(c) /\ (SnoopRead(c) \/ SnoopReadX(c))
    <3>1. bus_cmd \in Transaction /\ c # bus_origid /\ Present(c, bus_addr)
      BY <2>3 DEF SnoopOther, SnoopRead, SnoopReadX, Transaction
    <3>2. \E m \in {"S", "I"} : state' = [state EXCEPT ![c][get_index(bus_addr)] = m]
      BY <2>3 DEF SnoopRead, SnoopReadX, SetState
    <3>3. SnoopState(c) = "M" => sending_flush'[c]
      BY <1>1, <2>3 DEF SnoopRead, SnoopReadX, StartSupply
    <3> QED
      BY <3>1, <3>2, <3>3
  <2> QED
    BY <2>1, <2>2, <2>3 DEF SnoopPhase, CacheSnoop, SnoopOther
<1>6. \A d \in Core : d # c => state'[d] = state[d]
  BY <1>1, <1>5
<1>7. ASSUME NEW j \in Set, state'[c][j] # state[c][j]
      PROVE  /\ state[c][j] # "I" /\ state'[c][j] \in {"S", "I"}
             /\ j = get_index(bus_addr) /\ tag[c][j] = get_tag(bus_addr)
             /\ bus_cmd \in Transaction /\ c # bus_origid
             /\ state[c][j] = "M" => sending_flush'[c]
  BY <1>1, <1>5, <1>7 DEF Present, SnoopState
<1> QED
  BY <1>2, <1>3, <1>4, <1>6, <1>7

LEMMA SnoopKeepsPlaces ==
  ASSUME TypeOK, ProtocolInvariant, FlushInvariant, PlaceInv, NEW c \in Core, SnoopPhase(c)
  PROVE  PlaceInv'
<1>1. /\ UNCHANGED <<lines, slot, delay, control, pending, tag, request, access>>
      /\ \A d \in Core : ~AfterCoreOf(d) /\ ~AfterCoreOf(d)'
  BY SnoopFrame
<1>2. /\ UNCHANGED <<waiting_for_bus, waiting_addr, is_write_request, write_data, busy, flush_count,
                     bus_origid, bus_cmd, bus_addr, delay_in_progress, pending_origid, pending_cmd>>
  BY <1>1 DEF request, lines, control, pending, delay
<1>3. /\ \A d \in Core : d # c => state'[d] = state[d] /\ sending_flush'[d] = sending_flush[d]
                                    /\ is_mine'[d] = is_mine[d]
      /\ \A j \in Set : /\ state'[c][j] # "I" => state[c][j] # "I"
                        /\ state'[c][j] = "M" => state[c][j] = "M"
      /\ sending_flush[c] => sending_flush'[c]
      /\ (state[c][AccessSet(c)] = "M" /\ state'[c][AccessSet(c)] # "M") =>
           sending_flush'[c] /\ busy /\ RequestedBlock = VictimBlock(c)
  <2>1. sending_flush[c] => sending_flush'[c]
    BY SnoopGivesUp DEF supply
  <2>2. \A j \in Set : state'[c][j] = "M" => state[c][j] = "M"
    BY SnoopLowers
  <2> QED
    BY <2>1, <2>2, SnoopGivesUp, SnoopLowers
<1>4. RequestedBlock' = RequestedBlock /\ \A d \in Core : Supplies(d) => Supplies(d)'
  BY <1>2, <1>3 DEF RequestedBlock, Supplies
<1>5. \A d \in Core : Completing(d)' => Completing(d)
  <2>1. \A d \in Core : BeforeResponse(d)' => BeforeResponse(d)
    BY SnoopPosition
  <2>2. ASSUME NEW d \in Core, Completing(d)' PROVE is_mine[d]
    BY <1>2, <1>3, <2>2, SnoopLowers DEF Completing, SnoopOwnRequest, Transaction
  <2> QED
    BY <1>2, <2>1, <2>2 DEF Completing, RequestMatches
<1>6. \A d \in Core, a \in Int : Present(d, a)' => Present(d, a)
  BY <1>1, <1>3, IndexInSet DEF Present
<1>7. ASSUME NEW d \in Core, FlushPosted(d) PROVE slot[d].addr \in Int
  BY <1>7, FlushTypes, MemoryTypes
<1>8. \A d \in Core : GivenUpBy(d)'
  <2> SUFFICES ASSUME NEW d \in Core PROVE GivenUpBy(d)'
    OBVIOUS
  <2>1. CASE state'[d] = state[d] /\ FlushPosted(d)
    <3>1. \A e \in Core : Present(e, slot[d].addr)' => Present(e, slot[d].addr)
      BY <1>1, <1>6, <1>7, <2>1
    <3> QED
      BY <1>1, <1>2, <1>4, <1>5, <2>1, <3>1, GivenUpStays DEF PlaceInv
  <2>2. CASE d = c /\ FlushPosted(d)
    <3> SUFFICES ASSUME ~(Supplies(c) /\ get_block_addr(slot[c].addr) = RequestedBlock)',
                        state'[c][AccessSet(c)'] # "M"
                 PROVE  /\ state'[c][AccessSet(c)'] = "I"
                        /\ \A e \in Core :
                             /\ ~Present(e, slot[c].addr)'
                             /\ Completing(e)' => get_block_addr(waiting_addr'[e]) # VictimBlock(c)'
                        /\ (busy' /\ RequestedBlock' = VictimBlock(c)')
                             => flush_count' = 0 /\ ~AfterCoreOf(c)'
      BY <2>2 DEF GivenUpBy
    <3>1. ~(Supplies(c) /\ get_block_addr(slot[c].addr) = RequestedBlock)
      BY <1>1, <1>4
    <3>2. AccessSet(c)' = AccessSet(c) /\ VictimBlock(c)' = VictimBlock(c) /\ AccessSet(c) \in Set
      BY <1>1, Victim DEF AccessSet, VictimBlock
    <3>3. get_block_addr(slot[c].addr) = VictimBlock(c)
      BY <2>2, <3>1 DEF FlushInvariant, PostedInv, PostedOf
    <3>4. state[c][AccessSet(c)] # "M"
      BY <1>1, <1>2, <1>3, <1>4, <3>2, <3>3 DEF Supplies
    <3>5. /\ state[c][AccessSet(c)] = "I"
          /\ \A e \in Core :
               /\ ~Present(e, slot[c].addr)
               /\ Completing(e) => get_block_addr(waiting_addr[e]) # VictimBlock(c)
          /\ (busy /\ RequestedBlock = VictimBlock(c)) => flush_count = 0
      BY <2>2, <3>1, <3>4 DEF PlaceInv, GivenUpBy
    <3>6. \A e \in Core : ~Present(e, slot[c].addr)'
      BY <1>1, <1>6, <1>7, <2>2, <3>5
    <3> QED
      BY <1>1, <1>2, <1>3, <1>4, <1>5, <3>2, <3>5, <3>6
  <2>3. CASE ~FlushPosted(d)
    BY <1>1, <2>3 DEF GivenUpBy, FlushPosted
  <2> QED
    BY <1>3, <2>1, <2>2, <2>3
<1>9. WaitingSet'
  <2>1. \A d \in Core : get_index(waiting_addr[d]) \in Set
    BY FlushTypes, IndexInSet
  <2>2. \A d \in Core, j \in Set : state'[d][j] = "M" => state[d][j] = "M"
    BY <1>3
  <2> QED
    BY <1>1, <1>2, <2>1, <2>2 DEF PlaceInv, WaitingSet
<1>10. SourceIsOther' /\ ValidInMemory'
  BY <1>1, <1>2, <1>3 DEF PlaceInv, SourceIsOther, ValidInMemory
<1> QED
  BY <1>8, <1>9, <1>10 DEF PlaceInv
(* The last word of a fill does not bring in a block that another core has *)
(* just given up.                                                          *)
LEMMA ResponseKeepsPlaces ==
  ASSUME TypeOK, ProtocolInvariant, FlushInvariant, PlaceInv, NEW c \in Core, ResponsePhase(c)
  PROVE  PlaceInv'
<1> USE DEF FlushPosted
<1>1. /\ UNCHANGED <<lines, delay, control, pending, slot, access, is_mine, sending_flush>>
      /\ \A d \in Core : ~AfterCoreOf(d) /\ ~AfterCoreOf(d)'
  BY DEF ResponsePhase, CacheHandleBusResponse, cores, supply, GoTo, AfterCoreOf
<1>2. UNCHANGED <<busy, flush_count, bus_origid, bus_cmd, bus_addr, delay_in_progress,
                  pending_origid, pending_cmd>>
  BY <1>1 DEF lines, control, pending, delay
<1>3. \A d \in Core : BeforeResponse(d)' => BeforeResponse(d) /\ d # c
  BY ResponsePosition
<1>4. CASE UNCHANGED <<tag, state, request>>
  <2>1. UNCHANGED <<tag, state, waiting_for_bus, waiting_addr, is_write_request, write_data>>
    BY <1>4 DEF request
  <2>2. RequestedBlock' = RequestedBlock /\ \A d \in Core : Supplies(d)' = Supplies(d)
    BY <1>1, <1>2, <2>1 DEF RequestedBlock, Supplies
  <2>3. \A d \in Core : Completing(d)' => Completing(d)
    BY <1>1, <1>2, <1>3, <2>1 DEF Completing, RequestMatches
  <2>4. \A d \in Core : GivenUpBy(d)'
    <3> SUFFICES ASSUME NEW d \in Core PROVE GivenUpBy(d)'
      OBVIOUS
    <3>1. \A e \in Core : Present(e, slot[d].addr)' => Present(e, slot[d].addr)
      BY <1>1, <2>1 DEF Present
    <3> QED
      BY <1>1, <1>2, <2>1, <2>2, <2>3, <3>1, GivenUpStays DEF PlaceInv
  <2> QED
    BY <1>1, <1>2, <2>1, <2>4 DEF PlaceInv, WaitingSet, SourceIsOther, ValidInMemory
<1>5. CASE FillLastWord(c)
  <2> DEFINE i == get_index(waiting_addr[c])
             t == get_tag(waiting_addr[c])
  <2>1. /\ Completing(c) /\ get_index(bus_addr) = i /\ get_tag(bus_addr) = t
        /\ waiting_for_bus[c] /\ ~busy
    BY <1>5, WordTaken DEF FillLastWord, Completing, RequestMatches
  <2>2. /\ waiting_addr \in [Core -> Addr] /\ waiting_for_bus \in [Core -> BOOLEAN]
        /\ is_write_request \in [Core -> BOOLEAN] /\ write_data \in [Core -> Word]
        /\ tag \in [Core -> [Set -> Int]] /\ state \in [Core -> [Set -> MESI]]
        /\ i \in Set /\ t \in Int /\ waiting_addr[c] \in Int
    BY TypeOKParts, ZeroInAddr, IndexInSet DEF CacheTypeOK
  <2>a. BlockOf(t, i) \in Addr
    BY <2>2, BlockOfAddr, BlockAddr
  <2>3. /\ tag' = [tag EXCEPT ![c][i] = t]
        /\ \E m \in MESI \ {"I"} : state' = [state EXCEPT ![c][i] = m]
        /\ waiting_for_bus' = [waiting_for_bus EXCEPT ![c] = FALSE]
        /\ \A d \in Core : d # c => /\ waiting_addr'[d] = waiting_addr[d]
                                    /\ is_write_request'[d] = is_write_request[d]
                                    /\ write_data'[d] = write_data[d]
    BY <1>5, <2>1, <2>2 DEF FillLastWord, SetState, MESI
  <2> HIDE DEF i, t
  <2>4. /\ \A d \in Core : d # c => tag'[d] = tag[d] /\ state'[d] = state[d]
                                      /\ waiting_for_bus'[d] = waiting_for_bus[d]
        /\ ~waiting_for_bus'[c]
        /\ \A d \in Core, j \in Set :
             \/ tag'[d][j] = tag[d][j] /\ state'[d][j] = state[d][j]
             \/ d = c /\ j = i /\ tag'[d][j] = t
    BY <2>2, <2>3
  <2>5. ASSUME NEW d \in Core, FlushPosted(d)
        PROVE  /\ d # c /\ get_block_addr(slot[d].addr) = VictimBlock(d)
               /\ slot[d].addr \in Int
    <3>1. MissesOther(d) /\ get_block_addr(slot[d].addr) = VictimBlock(d)
      BY <2>1, <2>5 DEF FlushInvariant, PostedInv, PostedOf, Supplies
    <3> QED
      BY <2>1, <2>5, <3>1, FlushTypes, MemoryTypes DEF MissesOther
  <2>6. ASSUME NEW d \in Core PROVE GivenUpBy(d)'
    <3> SUFFICES ASSUME FlushPosted(d)', state'[d][AccessSet(d)'] # "M"
                 PROVE  /\ state'[d][AccessSet(d)'] = "I"
                        /\ \A e \in Core :
                             /\ ~Present(e, slot[d].addr)'
                             /\ Completing(e)' => get_block_addr(waiting_addr'[e]) # VictimBlock(d)'
                        /\ ~busy'
      BY DEF GivenUpBy
    <3>1. /\ FlushPosted(d) /\ d # c /\ get_block_addr(slot[d].addr) = VictimBlock(d)
          /\ slot[d].addr \in Int
      BY <1>1, <2>5
    <3>2. AccessSet(d)' = AccessSet(d) /\ VictimBlock(d)' = VictimBlock(d)
      BY <1>1, <2>4, <3>1 DEF AccessSet, VictimBlock
    <3>3. /\ state[d][AccessSet(d)] = "I"
          /\ \A e \in Core :
               /\ ~Present(e, slot[d].addr)
               /\ Completing(e) => get_block_addr(waiting_addr[e]) # VictimBlock(d)
      BY <2>1, <2>4, <3>1, <3>2 DEF PlaceInv, GivenUpBy, Supplies
    <3>4. ASSUME NEW e \in Core, Completing(e)'
          PROVE  Completing(e) /\ waiting_addr'[e] = waiting_addr[e]
      BY <1>1, <1>2, <1>3, <2>3, <2>4, <3>4 DEF Completing, RequestMatches
    <3>5. ASSUME NEW e \in Core PROVE ~Present(e, slot[d].addr)'
      <4>1. get_index(slot[d].addr) \in Set
        BY <3>1, IndexInSet
      <4>2. get_block_addr(waiting_addr[c]) # get_block_addr(slot[d].addr)
        BY <2>1, <3>1, <3>3
      <4>3. ~(get_index(slot[d].addr) = i /\ get_tag(slot[d].addr) = t)
        BY <2>2, <3>1, <4>2, SameBlock DEF i, t
      <4>4. slot'[d] = slot[d]
        BY <1>1
      <4> QED
        BY <2>4, <3>3, <4>1, <4>3, <4>4 DEF Present
    <3> QED
      BY <1>2, <2>1, <2>4, <3>1, <3>2, <3>3, <3>4, <3>5
  <2>7. WaitingSet'
    BY <1>1, <2>3, <2>4 DEF PlaceInv, WaitingSet
  <2>8. ValidInMemory'
    BY <2>a, <2>4 DEF PlaceInv, ValidInMemory
  <2> QED
    BY <1>2, <2>1, <2>6, <2>7, <2>8 DEF PlaceInv, SourceIsOther
<1> QED
  BY <1>4, <1>5 DEF ResponsePhase, CacheHandleBusResponse, FillWord, arrays

(* A word that a supplier sends is not one of a block given up.            *)
LEMMA ClockKeepsPlaces ==
  ASSUME TypeOK, ProtocolInvariant, FlushInvariant, PlaceInv, NEW c \in Core, ClockPhase(c)
  PROVE  PlaceInv'
<1>1. /\ UNCHANGED <<lines, delay, control, pending, access, is_mine, arrays, request>>
      /\ \A d \in Core : ~AfterCoreOf(d)
      /\ \A d \in Core : d # c => slot'[d] = slot[d] /\ sending_flush'[d] = sending_flush[d]
      /\ UNCHANGED <<supply, slot>> \/ SendBlockWord(c)
  <2>1. slot \in [Agent -> Request \cup {NoRequest}] /\ Core \subseteq Agent
    BY MemoryTypes
  <2>2. UNCHANGED <<supply, slot>> \/ SendBlockWord(c)
    BY DEF ClockPhase, CacheClock
  <2>3. \A d \in Core : d # c => slot'[d] = slot[d] /\ sending_flush'[d] = sending_flush[d]
    BY <2>1, <2>2, FlushTypes DEF SendBlockWord, EndSupply, BusRequest, supply
  <2> QED
    BY <2>2, <2>3, ClockPosition DEF ClockPhase, CacheClock, cores, AfterCoreOf
<1>2. UNCHANGED <<busy, flush_count, bus_origid, bus_cmd, bus_addr, delay_in_progress,
                  pending_origid, pending_cmd, tag, state, waiting_for_bus, waiting_addr,
                  is_write_request, write_data, pending_addr>>
  BY <1>1 DEF lines, control, pending, delay, arrays, request
<1>3. RequestedBlock' = RequestedBlock
  BY <1>2 DEF RequestedBlock
<1>4. \A d \in Core : Completing(d)' => Completing(d)
  BY <1>1, <1>2, ClockPosition DEF Completing, RequestMatches
<1>5. ASSUME NEW d \in Core, Supplies(d)' = Supplies(d), slot'[d] = slot[d] PROVE GivenUpBy(d)'
  <2>1. \A e \in Core : Present(e, slot[d].addr)' => Present(e, slot[d].addr)
    BY <1>2, <1>5 DEF Present
  <2>2. ~AfterCoreOf(d)'
    <3>1. d \in Nat /\ (phase' = "snoop" \/ (phase' = "core" /\ turn' = 0))
      BY BusAssumption DEF ClockPhase, GoTo, Core
    <3> QED
      BY <3>1 DEF AfterCoreOf
  <2> QED
    BY <1>1, <1>2, <1>3, <1>4, <1>5, <2>1, <2>2, GivenUpStays DEF PlaceInv
<1>6. ASSUME SendBlockWord(c) PROVE GivenUpBy(c)'
  <2>1. /\ busy /\ sending_flush[c] /\ words_left_to_flush[c] \in 1 .. WORDS_IN_BLOCK
        /\ flush_count + words_left_to_flush[c] = WORDS_IN_BLOCK
        /\ flush_count > 0 => bus_origid = c
        /\ flush_block_addr[c] = RequestedBlock
    <3>1. /\ sending_flush[c] /\ words_left_to_flush[c] > 0 /\ BeforeClock(c)
          /\ words_left_to_flush[c] \in 0 .. WORDS_IN_BLOCK
      BY <1>6, ClockPosition, MemoryTypes DEF SendBlockWord
    <3> QED
      BY <3>1 DEF ProtocolInvariant, SupplyInv, FlushInvariant, SupplyPace, RequestedBlock
  <2>2. /\ words_left_to_flush[c] # 1 => sending_flush'[c]
        /\ slot'[c].addr = RequestedBlock + flush_count
    <3>1. slot'[c].addr = flush_block_addr[c] + (BLOCK_SIZE - words_left_to_flush[c])
      BY <1>6, MemoryTypes DEF SendBlockWord, BusRequest
    <3> QED
      BY <1>6, <2>1, <3>1, MemoryTypes DEF SendBlockWord, EndSupply, BLOCK_SIZE
  <2>3. Supplies(c)'
    BY <1>2, <2>1, <2>2, MemoryTypes DEF Supplies
  <2>4. get_block_addr(slot'[c].addr) = RequestedBlock'
    BY <1>2, <1>3, <2>1, <2>2, WordInBlock, FlushTypes, MemoryTypes DEF RequestedBlock
  <2> QED
    BY <2>3, <2>4 DEF GivenUpBy
<1>7. \A d \in Core : GivenUpBy(d)'
  <2> SUFFICES ASSUME NEW d \in Core, ~(d = c /\ SendBlockWord(c)) PROVE GivenUpBy(d)'
    BY <1>6
  <2>1. slot'[d] = slot[d] /\ sending_flush'[d] = sending_flush[d]
    BY <1>1 DEF supply
  <2> QED
    BY <1>2, <1>5, <2>1 DEF Supplies
<1> QED
  BY <1>1, <1>2, <1>7 DEF PlaceInv, WaitingSet, SourceIsOther, ValidInMemory
(* bus_clock: only words of the block on the bus go out while it is busy,  *)
(* and none comes from the core that waits for them.                       *)
LEMMA BusKeepsPlaces ==
  ASSUME TypeOK, ProtocolInvariant, MemoryInvariant, FlushInvariant, PlaceInv, BusPhase
  PROVE  PlaceInv'
<1>1. /\ phase = "bus" /\ phase' = "snoop"
      /\ UNCHANGED <<tag, state, waiting_for_bus, waiting_addr, is_write_request, write_data,
                     is_mine, sending_flush, access>>
      /\ \A d \in Core : /\ is_mine[d] => busy /\ pending_origid = d
                         /\ AfterCoreOf(d) /\ ~AfterCoreOf(d)'
  BY BeforeBusClock DEF cacheVars, arrays, request, supply, cores, AfterCoreOf
<1>t. /\ flush_count \in Nat /\ slot \in [Agent -> Request \cup {NoRequest}] /\ Core \subseteq Agent
      /\ busy \in BOOLEAN /\ waiting_for_bus \in [Core -> BOOLEAN]
  BY TypeOKParts, MemoryTypes, FlushTypes DEF BusTypeOK
<1>2. \A d \in Core, b \in Int : Present(d, b)' <=> Present(d, b)
  BY <1>1 DEF Present
<1>3. \A d \in Core : AccessSet(d)' = AccessSet(d) /\ VictimBlock(d)' = VictimBlock(d)
  BY <1>1 DEF AccessSet, VictimBlock
<1>4. WaitingSet' /\ ValidInMemory'
  BY <1>1 DEF PlaceInv, WaitingSet, ValidInMemory
<1>5. ASSUME ~busy, ~busy', \A d \in Core : FlushPosted(d)' => slot'[d] = slot[d]
      PROVE  PlaceInv'
  <2>1. ASSUME NEW d \in Core, FlushPosted(d)' PROVE GivenUpBy(d)'
    <3>1. slot'[d] = slot[d] /\ FlushPosted(d) /\ slot[d].addr \in Int
      BY <1>5, <1>t, <2>1, FlushTypes DEF FlushPosted
    <3>2. ~Supplies(d) /\ ~Supplies(d)' /\ \A e \in Core : ~Completing(e)'
      BY <1>1, <1>5 DEF Supplies, Completing
    <3>3. \A e \in Core : Present(e, slot[d].addr)' => Present(e, slot[d].addr)
      BY <1>1, <3>1 DEF Present
    <3> QED
      BY <1>1, <1>5, <3>1, <3>2, <3>3, GivenUpStays DEF PlaceInv
  <2> QED
    BY <1>4, <1>5, <2>1 DEF PlaceInv, SourceIsOther, GivenUpBy
<1>6. CASE WaitForWord
  <2>1. UNCHANGED <<slot, busy, flush_count, bus_origid, pending_origid>> /\ busy
    BY <1>6 DEF WaitForWord, busVars, control, lines, pending
  <2>2. \A d \in Core : GivenUpBy(d)'
    <3> SUFFICES ASSUME NEW d \in Core PROVE GivenUpBy(d)'
      OBVIOUS
    <3>1. RequestedBlock' = RequestedBlock /\ Supplies(d)' = Supplies(d)
      BY <1>1, <2>1 DEF RequestedBlock, Supplies
    <3>2. \A e \in Core : Present(e, slot[d].addr)' => Present(e, slot[d].addr)
      BY <1>1, <2>1 DEF Present
    <3>3. \A e \in Core : ~Completing(e)'
      BY <2>1 DEF Completing
    <3> QED
      BY <1>1, <2>1, <3>1, <3>2, <3>3, GivenUpStays DEF PlaceInv
  <2> QED
    BY <1>4, <2>1, <2>2 DEF PlaceInv, SourceIsOther
<1>7. CASE GoIdle
  BY <1>5, <1>7 DEF GoIdle, control
<1>8. ASSUME NEW g \in Core, GrantRequest(g) PROVE PlaceInv'
  BY <1>t, <1>5, <1>8 DEF GrantRequest, FlushPosted, NoRequest
<1>9. CASE DelayStep
  <2>1. /\ ~busy /\ busy' /\ flush_count' = 0 /\ UNCHANGED <<slot, pending_origid>>
    BY <1>9, TypeOKParts DEF DelayStep, BusTypeOK, ProtocolInvariant, DelayInv
  <2>2. ASSUME NEW d \in Core PROVE GivenUpBy(d)'
    <3> SUFFICES ASSUME FlushPosted(d), state[d][AccessSet(d)] # "M"
                 PROVE  /\ state'[d][AccessSet(d)'] = "I"
                        /\ \A e \in Core : ~Present(e, slot[d].addr)' /\ ~Completing(e)'
                        /\ flush_count' = 0 /\ ~AfterCoreOf(d)'
      BY <1>1, <1>3, <2>1 DEF GivenUpBy, FlushPosted
    <3>1. state[d][AccessSet(d)] = "I" /\ \A e \in Core : ~Present(e, slot[d].addr)
      BY <2>1 DEF PlaceInv, GivenUpBy, Supplies
    <3>2. \A e \in Core : ~Present(e, slot[d].addr)' /\ ~Completing(e)'
      BY <1>1, <2>1, <3>1 DEF Present, Completing
    <3> QED
      BY <1>1, <1>3, <2>1, <3>1, <3>2
  <2> QED
    BY <1>4, <2>1, <2>2 DEF PlaceInv, SourceIsOther
<1>10. ASSUME NEW a \in Agent, GrantFlush(a) PROVE PlaceInv'
  <2>1. /\ slot' = [slot EXCEPT ![a] = NoRequest] /\ bus_origid' = a /\ FlushPosted(a)
        /\ pending_origid' = pending_origid
        /\ busy' => busy /\ flush_count' = flush_count + 1
    BY <1>10, <1>t DEF GrantFlush, PutOnBus, LowestFlush, FlushReady, FlushAllowed, CountWord,
       BlockComplete, FlushPosted
  <2>2. \A d \in Core : FlushPosted(d)' => slot'[d] = slot[d] /\ d # a
    BY <1>t, <2>1 DEF FlushPosted, NoRequest
  <2>3. CASE ~busy
    BY <1>5, <2>1, <2>2, <2>3
  <2>4. CASE busy
    <3>1. RequestedBlock' = RequestedBlock
      BY <1>1, <2>1 DEF RequestedBlock
    <3>2. ASSUME NEW d \in Core PROVE GivenUpBy(d)'
      <4> SUFFICES ASSUME FlushPosted(d)', state[d][AccessSet(d)] # "M"
                   PROVE  /\ state'[d][AccessSet(d)'] = "I"
                          /\ \A e \in Core :
                               /\ ~Present(e, slot[d].addr)'
                               /\ Completing(e)' => get_block_addr(waiting_addr'[e]) # VictimBlock(d)'
                          /\ RequestedBlock' # VictimBlock(d)'
        BY <1>1, <1>3 DEF GivenUpBy
      <4>1. slot'[d] = slot[d] /\ d # a /\ FlushPosted(d) /\ slot[d].addr \in Int
        BY <1>t, <2>2, FlushTypes DEF FlushPosted
      <4>2. get_block_addr(slot[d].addr) # RequestedBlock
        BY <1>1, <1>10, <2>4, <4>1, OnlyWordOfBlock
      <4>3. get_block_addr(slot[d].addr) = VictimBlock(d)
        BY <4>1, <4>2 DEF FlushInvariant, PostedInv, PostedOf
      <4>4. state[d][AccessSet(d)] = "I" /\ \A e \in Core : ~Present(e, slot[d].addr)
        BY <4>1, <4>2 DEF PlaceInv, GivenUpBy
      <4>5. ASSUME NEW e \in Core, Completing(e)'
            PROVE  get_block_addr(waiting_addr'[e]) # VictimBlock(d)'
        <5>1. e = pending_origid
          BY <2>1, <4>5 DEF Completing
        <5> QED
          BY <1>1, <1>3, <4>2, <4>3, <5>1 DEF RequestedBlock
      <4>6. \A e \in Core : ~Present(e, slot[d].addr)'
        BY <1>1, <4>1, <4>4 DEF Present
      <4> QED
        BY <1>1, <1>3, <3>1, <4>1, <4>2, <4>3, <4>4, <4>5, <4>6
    <3>3. a # pending_origid
      <4>1. waiting_for_bus[pending_origid] /\ pending_origid \in Core
        BY <2>4, MemoryTypes DEF ProtocolInvariant, BusyInv, RequestMatches
      <4>2. CASE a \in Core
        <5>1. ~waiting_for_bus[a] \/ Supplies(a)
          BY <2>1, <4>2 DEF FlushInvariant, PostedInv, PostedOf, MissesOther
        <5>2. CASE Supplies(a)
          BY <2>4, <4>2, <5>2 DEF Supplies, ProtocolInvariant, SupplyInv, PlaceInv, SourceIsOther
        <5> QED
          BY <4>1, <5>1, <5>2
      <4> QED
        BY <4>1, <4>2
    <3> QED
      BY <1>4, <2>1, <3>2, <3>3 DEF PlaceInv, SourceIsOther
  <2> QED
    BY <2>3, <2>4
<1> QED
  BY <1>6, <1>7, <1>8, <1>9, <1>10 DEF BusPhase, BusClock
(* A core that cleans gives its block up with the last word, no other core *)
(* has it then, and it is not the block on the bus.                        *)
LEMMA CleanPlace ==
  ASSUME TypeOK, ProtocolInvariant, FlushInvariant, NEW c \in Core, CorePhase(c),
         NEW r \in Offered(c), CleanStep(c, r)
  PROVE  GivenUpBy(c)'
<1> DEFINE i == get_index(r.addr)
           t == tag[c][i]
<1>t. /\ slot \in [Agent -> Request \cup {NoRequest}] /\ c \in Agent
      /\ state \in [Core -> [Set -> MESI]] /\ tag \in [Core -> [Set -> Int]]
      /\ access \in [Core -> Access] /\ waiting_addr \in [Core -> Int] /\ pending_origid \in Core
  BY TypeOKParts, MemoryTypes, FlushTypes DEF CoresTypeOK
<1>r. r.addr \in Addr /\ i \in Set /\ t \in Int /\ (access[c] # NoAccess => r = access[c])
  BY <1>t, StoreAddress, ZeroInAddr, IndexInSet DEF Offered
<1>1. /\ ~Blocked(c) /\ UNCHANGED <<tag, sending_flush, waiting_addr>>
      /\ UNCHANGED <<busy, flush_count, bus_origid, pending_origid>>
      /\ access'[c] = r /\ t # get_tag(r.addr)
  BY <1>t DEF CleanStep, StartCleaning, ContinueCleaning, supply, request, arrays, CorePhase,
     control, lines, pending
<1>2. AccessSet(c)' = i /\ VictimBlock(c)' = BlockOf(t, i)
  BY <1>1 DEF AccessSet, VictimBlock
<1>3. RequestedBlock' = RequestedBlock /\ Supplies(c)' = Supplies(c)
  BY <1>1 DEF RequestedBlock, Supplies
<1>4. CASE StartCleaning(c, r.addr)
  <2>1. state'[c][i] = "M"
    BY <1>4 DEF StartCleaning, arrays
  <2> QED
    BY <1>2, <2>1 DEF GivenUpBy
<1>5. CASE ContinueCleaning(c, r.addr)
  <2>0. UNCHANGED state \/ SetState(c, r.addr, "I")
    BY <1>5 DEF CleanStep, StartCleaning, ContinueCleaning
  <2>1. need_to_clean_first[c] /\ MissesOther(c)
        /\ words_left[c] \in 0 .. WORDS_IN_BLOCK - 1
    BY <1>5 DEF ContinueCleaning, FlushInvariant, CleanInv, CleaningOf
  <2>2. r = access[c] /\ AccessSet(c) = i /\ VictimBlock(c) = BlockOf(t, i)
    BY <1>r, <2>1 DEF MissesOther, AccessSet, VictimBlock
  <2>3. slot'[c].addr = BlockOf(t, i) + words_left[c] /\ slot'[c].addr \in Int
        /\ get_index(slot'[c].addr) = i /\ get_tag(slot'[c].addr) = t
        /\ get_block_addr(slot'[c].addr) = BlockOf(t, i)
    <3>1. slot'[c].addr = BlockOf(t, i) + words_left[c]
      BY <1>t, <1>5 DEF ContinueCleaning, CleanWord, BusRequest
    <3> QED
      BY <1>r, <2>1, <3>1, BlockOfTag
  <2> HIDE DEF i, t
  <2>4. CASE Supplies(c) /\ RequestedBlock = VictimBlock(c)
    BY <1>3, <2>2, <2>3, <2>4 DEF GivenUpBy
  <2>5. CASE ~(Supplies(c) /\ RequestedBlock = VictimBlock(c))
    <3>1. state[c][i] = "M"
      BY <2>1, <2>2, <2>5 DEF FlushInvariant, CleanInv, CleaningOf
    <3>2. CASE UNCHANGED state
      BY <1>2, <3>1, <3>2 DEF GivenUpBy
    <3>3. CASE SetState(c, r.addr, "I")
      <4>1. state'[c][i] = "I" /\ \A d \in Core : d # c => state'[d] = state[d]
        BY <1>t, <1>r, <3>3 DEF SetState, i
      <4>2. ASSUME NEW d \in Core PROVE ~(tag[d][i] = t /\ state'[d][i] # "I")
        BY <1>r, <3>1, <4>1 DEF ProtocolInvariant, SingleWriter, t
      <4>3. ASSUME NEW d \in Core PROVE ~Present(d, slot[c].addr)'
        BY <1>1, <2>3, <4>2 DEF Present
      <4>4. ASSUME busy, RequestedBlock = BlockOf(t, i) PROVE FALSE
        <5>1. waiting_for_bus[pending_origid] /\ c # pending_origid
          BY <1>1, <4>4 DEF ProtocolInvariant, BusyInv, RequestMatches, Blocked
        <5>2. Present(c, waiting_addr[pending_origid]) /\ get_index(waiting_addr[pending_origid]) = i
          <6>1. waiting_addr[pending_origid] \in Int
            BY <1>t
          <6>2. get_index(waiting_addr[pending_origid]) = i /\ get_tag(waiting_addr[pending_origid]) = t
            BY <2>3, <4>4, <6>1, SameBlock DEF RequestedBlock
          <6> QED
            BY <3>1, <6>2 DEF Present, t
        <5>3. Snooped(c)
          BY CorePosition
        <5> QED
          BY <1>t, <3>1, <4>4, <5>1, <5>2, <5>3 DEF ProtocolInvariant, OthersInv
      <4>5. \A d \in Core : ~Completing(d)'
        BY CorePosition
      <4> QED
        BY <1>1, <1>2, <1>3, <4>1, <4>3, <4>4, <4>5 DEF GivenUpBy
    <3> QED
      BY <2>0, <3>2, <3>3
  <2> QED
    BY <2>4, <2>5
<1> QED
  BY <1>4, <1>5 DEF CleanStep

LEMMA CoreKeepsPlaces ==
  ASSUME TypeOK, ProtocolInvariant, FlushInvariant, PlaceInv, StoreCompletes,
         NEW c \in Core, CorePhase(c)
  PROVE  PlaceInv'
<1>t. /\ slot \in [Agent -> Request \cup {NoRequest}] /\ Core \subseteq Agent
      /\ access \in [Core -> Access] /\ waiting_addr \in [Core -> Addr] /\ pending_origid \in Core
      /\ waiting_for_bus \in [Core -> BOOLEAN] /\ is_write_request \in [Core -> BOOLEAN]
      /\ write_data \in [Core -> Word] /\ state \in [Core -> [Set -> MESI]]
      /\ sending_flush \in [Core -> BOOLEAN]
  BY TypeOKParts, MemoryTypes DEF CoresTypeOK, CacheTypeOK
<1>1. /\ UNCHANGED <<tag, sending_flush, busy, flush_count, bus_origid, pending_origid>>
      /\ \A d \in Core : d # c => slot'[d] = slot[d] /\ state'[d] = state[d]
      /\ \A d \in Core, j \in Set : state'[d][j] # "I" => state[d][j] # "I"
      /\ \A d \in Core : ~Completing(d)'
      /\ \A d \in Core : d # c \/ Blocked(c) =>
              waiting_for_bus'[d] = waiting_for_bus[d] /\ waiting_addr'[d] = waiting_addr[d]
  <2>1. /\ UNCHANGED <<tag, supply, lines, control, pending>>
        /\ \A d \in Core : d # c => slot'[d] = slot[d] /\ state'[d] = state[d]
        /\ \A j \in Set : state'[c][j] # "I" => state[c][j] # "I"
        /\ \A d \in Core : d # c \/ Blocked(c) =>
              waiting_for_bus'[d] = waiting_for_bus[d] /\ waiting_addr'[d] = waiting_addr[d]
    BY <1>t, CoreAccessFrame
  <2> QED
    BY <2>1, CorePosition DEF supply, lines, control, pending
<1>2. busy => RequestedBlock' = RequestedBlock
  BY <1>1, <1>t DEF RequestedBlock, ProtocolInvariant, BusyInv, RequestMatches, Blocked
<1>3. \A d \in Core : Supplies(d)' = Supplies(d)
  BY <1>1 DEF Supplies
<1>4. QuietStep(c) \/ \E r \in Offered(c) : HitStep(c, r) \/ CleanStep(c, r) \/ RequestStep(c, r)
  BY CoreCases
<1>5. \A d \in Core : d # c => /\ access'[d] = access[d]
                                 /\ is_write_request'[d] = is_write_request[d]
                                 /\ write_data'[d] = write_data[d]
  <2>1. \E r : access' = access \/ access' = [access EXCEPT ![c] = r]
    BY <1>4 DEF QuietStep, HitStep, CleanStep, RequestStep
  <2>2. UNCHANGED request \/ \E a, cmd, d0 : RequestBlock(c, a, cmd, d0)
    BY <1>4 DEF QuietStep, HitStep, CleanStep, RequestStep, ReadHit, WriteHit, StartCleaning,
       ContinueCleaning, cacheVars
  <2> QED
    BY <1>t, <2>1, <2>2 DEF request, RequestBlock
<1>6. ASSUME NEW d \in Core, d # c PROVE GivenUpBy(d)'
  <2>1. AfterCoreOf(d)' = AfterCoreOf(d)
    BY <1>6, CoreTurn
  <2>2. ASSUME FlushPosted(d) PROVE \A e \in Core : Present(e, slot[d].addr)' => Present(e, slot[d].addr)
    <3>1. get_index(slot[d].addr) \in Set /\ slot'[d] = slot[d]
      BY <1>1, <1>6, <1>t, <2>2, FlushTypes, IndexInSet
    <3> QED
      BY <1>1, <3>1 DEF Present
  <2>3. CASE FlushPosted(d)
    BY <1>1, <1>2, <1>3, <1>5, <1>6, <2>1, <2>2, <2>3, GivenUpStays DEF PlaceInv, Supplies
  <2>4. CASE ~FlushPosted(d)
    BY <1>1, <1>6, <2>4 DEF GivenUpBy, FlushPosted
  <2> QED
    BY <2>3, <2>4
<1>7. ASSUME slot'[c] = slot[c], ~MissesOther(c) \/ Blocked(c) PROVE GivenUpBy(c)'
  <2>1. ASSUME FlushPosted(c) PROVE Supplies(c) /\ get_block_addr(slot[c].addr) = RequestedBlock
    <3>1. CASE sending_flush[c]
      <4>1. busy
        BY <3>1 DEF ProtocolInvariant, SupplyInv
      <4>2. slot[c].addr = pending_addr
        BY <3>1, CorePosition DEF FlushInvariant, SupplyPace
      <4> QED
        BY <3>1, <4>1, <4>2, NextWordInBlock DEF Supplies
    <3>2. CASE ~sending_flush[c]
      BY <1>7, <2>1, <3>2 DEF FlushInvariant, PostedInv, PostedOf, Blocked, MissesOther
    <3> QED
      BY <3>1, <3>2
  <2> QED
    BY <1>2, <1>3, <1>7, <2>1 DEF GivenUpBy, FlushPosted, Supplies
<1>8. /\ GivenUpBy(c)'
      /\ waiting_for_bus'[c] =>
           /\ state'[c][get_index(waiting_addr'[c])] # "M"
           /\ is_write_request'[c] => write_data'[c] = access'[c].data
  <2>1. CASE QuietStep(c)
    <3>1. access[c] # NoAccess => access'[c] = access[c]
      BY <1>t, <2>1 DEF QuietStep, Offered
    <3>2. /\ slot'[c] = slot[c]
          /\ UNCHANGED <<state, waiting_for_bus, waiting_addr, is_write_request, write_data>>
          /\ ~MissesOther(c) \/ Blocked(c)
      BY <2>1 DEF QuietStep, cacheVars, arrays, request, MissesOther
    <3>3. waiting_for_bus[c] => access[c] # NoAccess
      BY DEF ProtocolInvariant, AccessInv
    <3> QED
      BY <1>7, <3>1, <3>2, <3>3 DEF PlaceInv, WaitingSet
  <2>2. ASSUME NEW r \in Offered(c), HitStep(c, r) PROVE <1>8
    <3>1. ~Blocked(c) /\ Present(c, r.addr) /\ UNCHANGED <<slot, waiting_for_bus>>
      BY <2>2 DEF HitStep, ReadHit, WriteHit, request
    <3>2. access[c] # NoAccess => r = access[c]
      BY DEF Offered
    <3>3. ~MissesOther(c)
      BY <3>1, <3>2 DEF MissesOther, AccessSet, Present
    <3> QED
      BY <1>7, <3>1, <3>3 DEF Blocked
  <2>3. ASSUME NEW r \in Offered(c), CleanStep(c, r) PROVE <1>8
    <3>1. ~Blocked(c) /\ UNCHANGED waiting_for_bus
      BY <2>3 DEF CleanStep, StartCleaning, ContinueCleaning, request
    <3> QED
      BY <2>3, <3>1, CleanPlace DEF Blocked
  <2>4. ASSUME NEW r \in Offered(c), RequestStep(c, r) PROVE <1>8
    <3>1. slot'[c].cmd \in Transaction /\ access'[c] = r /\ waiting_addr'[c] = r.addr
          /\ state' = state /\ (is_write_request'[c] => write_data'[c] = r.data)
      <4>1. CASE r.op = "sw"
        BY <1>t, <2>4, <4>1 DEF RequestStep, RequestBlock, BusRequest, Transaction, arrays
      <4>2. CASE r.op # "sw"
        <5>1. RequestBlock(c, r.addr, "BUS_RD", 0) /\ access'[c] = r
          BY <1>t, <2>4, <4>2 DEF RequestStep
        <5>2. is_write_request'[c] = FALSE
          BY <1>t, <5>1 DEF RequestBlock
        <5> QED
          BY <1>t, <5>1, <5>2 DEF RequestBlock, BusRequest, Transaction, arrays
      <4> QED
        BY <4>1, <4>2
    <3>2. state[c][get_index(r.addr)] # "M"
      BY <2>4 DEF RequestStep
    <3> QED
      BY <3>1, <3>2 DEF GivenUpBy, FlushPosted, Transaction
  <2> QED
    BY <1>4, <2>1, <2>2, <2>3, <2>4
<1>9. WaitingSet'
  <2> SUFFICES ASSUME NEW d \in Core, waiting_for_bus'[d]
               PROVE  /\ state'[d][get_index(waiting_addr'[d])] # "M"
                      /\ is_write_request'[d] => write_data'[d] = access'[d].data
    BY DEF WaitingSet
  <2>1. CASE d # c
    BY <1>1, <1>5, <2>1 DEF PlaceInv, WaitingSet
  <2> QED
    BY <1>8, <2>1
<1>10. SourceIsOther' /\ ValidInMemory'
  BY <1>1 DEF PlaceInv, SourceIsOther, ValidInMemory
<1> QED
  BY <1>6, <1>8, <1>9, <1>10 DEF PlaceInv

LEMMA InitPlaces == Init => PlaceInv /\ CleanPace
<1> SUFFICES ASSUME Init PROVE PlaceInv /\ CleanPace
  OBVIOUS
<1>1. /\ ~busy /\ phase = "memory"
      /\ \A c \in Core : /\ ~waiting_for_bus[c] /\ slot[c].cmd = "BUS_NO_CMD"
                         /\ \A i \in Set : state[c][i] = "I"
  <2>1. ASSUME NEW c \in Core PROVE slot[c].cmd = "BUS_NO_CMD"
    <3>1. c \in Agent /\ c # MAIN_MEMORY
      BY BusAssumption DEF Agent, Core, MAIN_MEMORY
    <3>2. slot[c] = NoRequest
      BY <3>1 DEF Init, BusInit
    <3> QED
      BY <3>2 DEF NoRequest
  <2>2. \A c \in Core : ~waiting_for_bus[c] /\ \A i \in Set : state[c][i] = "I"
    BY DEF Init, CacheInit
  <2> QED
    BY <2>1, <2>2 DEF Init, BusInit
<1> QED
  BY <1>1 DEF PlaceInv, WaitingSet, SourceIsOther, ValidInMemory, GivenUpBy, FlushPosted,
     CleanPace, BeforeSnoop, InCachePhases

LEMMA StutterKeepsPlaces ==
  ASSUME PlaceInv, CleanPace, UNCHANGED vars
  PROVE  PlaceInv' /\ CleanPace'
<1>1. UNCHANGED <<slot, bus_cmd, bus_origid, bus_addr, busy, flush_count, pending_origid, pending_cmd,
                  delay_in_progress, tag, state, waiting_for_bus, waiting_addr, is_write_request,
                  write_data, is_mine, sending_flush, need_to_clean_first, access, phase, turn>>
  BY DEF vars, busVars, lines, control, pending, delay, cacheVars, arrays, request, supply,
     cleaning, loop, cores
<1>2. WaitingSet' /\ SourceIsOther' /\ ValidInMemory'
  BY <1>1 DEF PlaceInv, WaitingSet, SourceIsOther, ValidInMemory
<1>3. \A c \in Core : GivenUpBy(c)'
  BY <1>1 DEF PlaceInv, GivenUpBy, FlushPosted, Supplies, RequestedBlock, AccessSet, VictimBlock,
     Present, Completing, RequestMatches, BeforeResponse, InCachePhases, AfterCoreOf
<1>4. CleanPace'
  BY <1>1 DEF CleanPace, FlushPosted, OwnWordOnBus, AccessSet, BeforeSnoop, InCachePhases
<1> QED
  BY <1>2, <1>3, <1>4 DEF PlaceInv

(* A core that cleans a dirty block supplies none, and its word is in its  *)
(* line when the bus comes to it.                                          *)
LEMMA CleaningWaits ==
  ASSUME TypeOK, ProtocolInvariant, FlushInvariant, PlaceInv, CleansWhatItSupplies,
         NEW d \in Core, need_to_clean_first[d], state[d][AccessSet(d)] = "M"
  PROVE  /\ Snooped(d) => ~Supplies(d)
         /\ Snooped(d) /\ AfterCoreOf(d) =>
              /\ FlushPosted(d) /\ words_left[d] \in 1 .. WORDS_IN_BLOCK - 1
              /\ slot[d].addr = VictimBlock(d) + (words_left[d] - 1)
<1>1. ASSUME Snooped(d), Supplies(d) PROVE FALSE
  <2>1. busy /\ d # pending_origid
    BY <1>1 DEF Supplies, PlaceInv, SourceIsOther, ProtocolInvariant, SupplyInv
  <2>2. RequestedBlock = VictimBlock(d) /\ waiting_addr[pending_origid] \in Int
    BY <1>1, FlushTypes, MemoryTypes DEF CleansWhatItSupplies
  <2>3. /\ get_index(waiting_addr[pending_origid]) = AccessSet(d)
        /\ get_tag(waiting_addr[pending_origid]) = tag[d][AccessSet(d)]
    BY <2>2, Victim DEF RequestedBlock
  <2>4. Present(d, waiting_addr[pending_origid])
    BY <2>3 DEF Present
  <2> QED
    BY <1>1, <2>1, <2>3, <2>4, MemoryTypes DEF ProtocolInvariant, OthersInv
<1>2. ASSUME Snooped(d), AfterCoreOf(d)
      PROVE  /\ FlushPosted(d) /\ words_left[d] \in 1 .. WORDS_IN_BLOCK - 1
             /\ slot[d].addr = VictimBlock(d) + (words_left[d] - 1)
  <2>1. ~sending_flush[d]
    BY <1>1, <1>2 DEF ProtocolInvariant, SupplyInv, Supplies
  <2>2. /\ FlushPosted(d) /\ slot[d].addr = VictimBlock(d) + words_left[d] - 1
        /\ words_left[d] \in 0 .. WORDS_IN_BLOCK - 1 /\ words_left[d] > 0
    BY <1>2, <2>1 DEF FlushInvariant, CleanInv, CleaningOf
  <2>3. VictimBlock(d) \in Int
    BY Victim
  <2> QED
    BY <2>2, <2>3, BusAssumption
<1> QED
  BY <1>1, <1>2

LEMMA BusKeepsPace ==
  ASSUME TypeOK, ProtocolInvariant, FlushInvariant, PlaceInv, CleansWhatItSupplies, BusPhase
  PROVE  CleanPace'
<1>1. /\ phase = "bus" /\ UNCHANGED <<state, need_to_clean_first, access>>
      /\ \A d \in Core : Snooped(d) /\ AfterCoreOf(d)
  BY BeforeBusClock DEF cacheVars, arrays, cleaning, cores, AfterCoreOf
<1>t. slot \in [Agent -> Request \cup {NoRequest}] /\ Core \subseteq Agent
  BY MemoryTypes
<1> SUFFICES ASSUME NEW d \in Core, need_to_clean_first[d], state[d][AccessSet(d)] = "M"
             PROVE  FlushPosted(d)' <=> ~OwnWordOnBus(d)'
  BY <1>1 DEF CleanPace, AccessSet
<1>2. FlushPosted(d) /\ ~Supplies(d)
  BY <1>1, CleaningWaits
<1>3. CASE DelayStep
  <2>1. slot' = slot /\ bus_cmd' = pending_cmd /\ pending_cmd \in Transaction
    BY <1>3, TypeOKParts DEF DelayStep, BusTypeOK
  <2> QED
    BY <1>2, <2>1 DEF FlushPosted, OwnWordOnBus, Transaction
<1>4. ASSUME NEW a \in Agent, GrantFlush(a) PROVE FlushPosted(d)' <=> ~OwnWordOnBus(d)'
  <2>1. slot' = [slot EXCEPT ![a] = NoRequest] /\ bus_cmd' = "BUS_FLUSH" /\ bus_origid' = a
    BY <1>4 DEF GrantFlush, PutOnBus
  <2> QED
    BY <1>t, <1>2, <2>1 DEF FlushPosted, OwnWordOnBus, NoRequest
<1>5. ASSUME NEW g \in Core, GrantRequest(g) PROVE FALSE
  BY <1>t, <1>2, <1>5 DEF GrantRequest, FlushReady, FlushAllowed, FlushPosted
<1>6. CASE WaitForWord
  <2>1. UNCHANGED <<slot, bus_cmd, bus_origid>> /\ busy
    BY <1>6 DEF WaitForWord, busVars, lines
  <2>2. ~OwnWordOnBus(d)
    BY <1>2, <2>1, MemoryTypes DEF OwnWordOnBus, Supplies, ProtocolInvariant, BusyInv, Transaction
  <2> QED
    BY <1>2, <2>1, <2>2 DEF FlushPosted, OwnWordOnBus
<1>7. ~GoIdle
  BY <1>t, <1>2 DEF GoIdle, FlushReady, FlushAllowed, FlushPosted
<1> QED
  BY <1>3, <1>4, <1>5, <1>6, <1>7 DEF BusPhase, BusClock

LEMMA NextKeepsPace ==
  ASSUME TypeOK, ProtocolInvariant, FlushInvariant, PlaceInv, CleanPace, CleansWhatItSupplies, Next
  PROVE  CleanPace'
<1> USE DEF FlushPosted
<1>1. CASE MemoryPhase \/ EdgePhase
  BY <1>1 DEF MemoryPhase, EdgePhase, GoTo, CleanPace, BeforeSnoop, InCachePhases
<1>2. CASE BusPhase
  BY <1>2, BusKeepsPace
<1>3. ASSUME NEW c \in Core, SnoopPhase(c) PROVE CleanPace'
  <2>1. /\ UNCHANGED <<lines, slot, access, need_to_clean_first>> /\ ~BeforeSnoop(c)'
        /\ \A d \in Core : d # c => BeforeSnoop(d)' = BeforeSnoop(d) /\ state'[d] = state[d]
    BY <1>3, SnoopFrame, SnoopLowers
  <2> QED
    BY <2>1 DEF CleanPace, OwnWordOnBus, AccessSet, lines
<1>4. ASSUME NEW c \in Core, ResponsePhase(c) PROVE CleanPace'
  <2>1. /\ UNCHANGED <<lines, slot, access, need_to_clean_first>>
        /\ \A d \in Core : d # c => state'[d] = state[d]
    BY <1>4, FlushTypes DEF ResponsePhase, CacheHandleBusResponse, FillWord, FillLastWord, SetState,
       arrays, cores, cleaning
  <2>2. ~BeforeSnoop(c) /\ \A d \in Core : BeforeSnoop(d)' = BeforeSnoop(d)
    <3>1. ~BeforeSnoop(c)
      BY <1>4, ResponsePosition, BusAssumption DEF BeforeSnoop, Core
    <3> QED
      BY <1>4, <3>1, ResponsePosition
  <2> QED
    BY <2>1, <2>2 DEF CleanPace, OwnWordOnBus, AccessSet, lines
<1>5. ASSUME NEW c \in Core, ClockPhase(c) PROVE CleanPace'
  <2>1. /\ UNCHANGED <<lines, state, access, need_to_clean_first>>
        /\ \A d \in Core : d # c => slot'[d] = slot[d]
    BY <1>5, MemoryTypes DEF ClockPhase, CacheClock, SendBlockWord, BusRequest, cores, cleaning, arrays
  <2>2. ~BeforeSnoop(c) /\ \A d \in Core : BeforeSnoop(d)' = BeforeSnoop(d)
    <3>1. ~BeforeSnoop(c)
      BY <1>5, ClockPosition, BusAssumption DEF BeforeSnoop, Core
    <3> QED
      BY <1>5, <3>1, ClockPosition
  <2> QED
    BY <2>1, <2>2 DEF CleanPace, OwnWordOnBus, AccessSet, lines
<1>6. ASSUME NEW c \in Core, CorePhase(c) PROVE CleanPace'
  BY <1>6, CoreTurn DEF CleanPace
<1> QED
  BY <1>1, <1>2, <1>3, <1>4, <1>5, <1>6 DEF Next, Tick
-----------------------------------------------------------------------------
(* Who supplies the block on the bus (SuppliedInPlace).                    *)
LEMMA SnoopSupplies ==
  ASSUME TypeOK, NEW c \in Core, SnoopPhase(c)
  PROVE  \/ supply' = supply
         \/ /\ Present(c, bus_addr) /\ SnoopState(c) = "M" /\ bus_cmd \in Transaction
            /\ \A d \in Core : d # c => sending_flush'[d] = sending_flush[d]
<1>1. CASE SnoopOwnRequest(c) \/ SnoopNothing(c)
  BY <1>1 DEF SnoopOwnRequest, SnoopNothing
<1>2. CASE SnoopRead(c) \/ SnoopReadX(c)
  <2>1. Present(c, bus_addr) /\ bus_cmd \in Transaction
    BY <1>2 DEF SnoopRead, SnoopReadX, Transaction
  <2>2. supply' = supply \/ (SnoopState(c) = "M" /\ StartSupply(c))
    BY <1>2 DEF SnoopRead, SnoopReadX
  <2>3. StartSupply(c) => \A d \in Core : d # c => sending_flush'[d] = sending_flush[d]
    BY FlushTypes DEF StartSupply
  <2> QED
    BY <2>1, <2>2, <2>3
<1> QED
  BY <1>1, <1>2 DEF SnoopPhase, CacheSnoop, SnoopOther

LEMMA BusSupplier ==
  ASSUME TypeOK, ProtocolInvariant, MemoryInvariant, FlushInvariant, phase = "bus",
         NEW a \in Agent, GrantFlush(a), busy
  PROVE  /\ a \in Core => Supplies(a)
         /\ \A d \in Core : Supplies(d) => d = a
<1>1. FlushPosted(a) /\ slot[a].addr = pending_addr
  BY DEF GrantFlush, LowestFlush, FlushReady, FlushAllowed, FlushPosted
<1>2. ASSUME a \in Core PROVE Supplies(a)
  <2>1. get_block_addr(slot[a].addr) = RequestedBlock /\ AfterCoreOf(a) /\ flush_count \in Nat
    BY <1>1, NextWordInBlock, MemoryTypes DEF AfterCoreOf
  <2>2. flush_count > 0 \/ flush_count = 0
    BY <2>1
  <2> QED
    BY <1>1, <1>2, <2>1, <2>2 DEF FlushInvariant, OneSource, SourceOf, Supplies
<1>3. \A d \in Core : Supplies(d) => d = a
  BY OnlyWordOfBlock DEF Supplies
<1> QED
  BY <1>2, <1>3

LEMMA BusSuppliers ==
  ASSUME TypeOK, ProtocolInvariant, MemoryInvariant, FlushInvariant, BusPhase,
         NEW c \in Core, Supplies(c)'
  PROVE  Supplies(c) /\ busy /\ busy' /\ pending_origid' = pending_origid
<1>t. flush_count \in Nat /\ busy \in BOOLEAN
  BY TypeOKParts, MemoryTypes DEF BusTypeOK
<1>1. phase = "bus" /\ sending_flush' = sending_flush /\ (sending_flush[c] => busy)
  BY BeforeBusClock DEF cacheVars, supply
<1>2. ~DelayStep
  <2> SUFFICES ASSUME DelayStep PROVE FALSE
    OBVIOUS
  <2>1. ~busy /\ flush_count' = 0
    BY TypeOKParts DEF DelayStep, BusTypeOK, ProtocolInvariant, DelayInv
  <2> QED
    BY <1>1, <2>1 DEF Supplies
<1>3. ASSUME NEW a \in Agent, GrantFlush(a)
      PROVE  Supplies(c) /\ busy /\ busy' /\ pending_origid' = pending_origid
  <2>1. /\ bus_origid' = a /\ pending_origid' = pending_origid /\ (busy' => busy)
    BY <1>3, <1>t DEF GrantFlush, PutOnBus, CountWord, BlockComplete
  <2> QED
    BY <1>1, <1>3, <2>1, BusSupplier DEF Supplies
<1>4. ASSUME NEW g \in Core, GrantRequest(g) PROVE FALSE
  BY <1>4 DEF GrantRequest, Supplies
<1>5. ASSUME WaitForWord PROVE Supplies(c) /\ busy /\ busy' /\ pending_origid' = pending_origid
  BY <1>1, <1>5 DEF WaitForWord, busVars, lines, control, pending, Supplies
<1>6. ~GoIdle
  BY DEF GoIdle, Supplies, control
<1> QED
  BY <1>2, <1>3, <1>4, <1>5, <1>6 DEF BusPhase, BusClock

LEMMA NextKeepsSuppliers ==
  ASSUME TypeOK, ProtocolInvariant, MemoryInvariant, FlushInvariant, SuppliedInPlace, Next
  PROVE  SuppliedInPlace'
<1> DEFINE b == waiting_addr[pending_origid]
<1>t. pending_origid \in Core /\ flush_count \in Nat /\ busy \in BOOLEAN
      /\ waiting_addr \in [Core -> Int] /\ sending_flush \in [Core -> BOOLEAN]
  BY TypeOKParts, MemoryTypes, FlushTypes DEF BusTypeOK
<1>1. ASSUME UNCHANGED <<tag, waiting_addr, pending_origid>>,
             \A c \in Core : Supplies(c)' => Supplies(c)
      PROVE  SuppliedInPlace'
  BY <1>1 DEF SuppliedInPlace
<1>2. CASE MemoryPhase \/ EdgePhase
  <2>1. UNCHANGED <<cacheVars, lines, control, pending>>
    BY <1>2 DEF MemoryPhase, MemoryClock, EdgePhase, SharedEdge
  <2> QED
    BY <1>1, <2>1 DEF cacheVars, arrays, request, supply, lines, control, pending, Supplies
<1>3. CASE BusPhase
  <2>1. UNCHANGED <<tag, waiting_addr>>
    BY <1>3, BeforeBusClock DEF cacheVars, arrays, request
  <2> QED
    BY <1>3, <2>1, BusSuppliers DEF SuppliedInPlace
<1>4. ASSUME NEW c \in Core, SnoopPhase(c) PROVE SuppliedInPlace'
  <2>1. UNCHANGED <<lines, control, pending, tag, waiting_addr>>
    BY <1>4, SnoopFrame DEF request
  <2>2. UNCHANGED <<busy, flush_count, bus_origid, pending_origid>>
    BY <2>1 DEF lines, control, pending
  <2>3. CASE supply' = supply
    BY <1>1, <2>1, <2>2, <2>3 DEF supply, Supplies
  <2>4. CASE /\ Present(c, bus_addr) /\ bus_cmd \in Transaction
             /\ \A d \in Core : d # c => sending_flush'[d] = sending_flush[d]
    BY <2>1, <2>2, <2>4, TransactionOnBus DEF SuppliedInPlace, Supplies, Present
  <2> QED
    BY <1>4, <2>3, <2>4, SnoopSupplies
<1>5. ASSUME NEW c \in Core, ResponsePhase(c) PROVE SuppliedInPlace'
  <2>1. UNCHANGED <<lines, control, pending, supply>>
    BY <1>5 DEF ResponsePhase, CacheHandleBusResponse
  <2>2. UNCHANGED <<busy, flush_count, bus_origid, pending_origid, sending_flush>>
    BY <2>1 DEF lines, control, pending, supply
  <2>3. CASE UNCHANGED <<tag, request>>
    BY <1>1, <2>2, <2>3 DEF request, Supplies
  <2>4. CASE FillLastWord(c)
    BY <1>5, <2>2, <2>4, WordTaken DEF FillLastWord, Completing, SuppliedInPlace, Supplies
  <2> QED
    BY <1>5, <2>3, <2>4 DEF ResponsePhase, CacheHandleBusResponse, FillWord, arrays
<1>6. ASSUME NEW c \in Core, ClockPhase(c) PROVE SuppliedInPlace'
  <2>1. UNCHANGED <<lines, control, pending, tag, waiting_addr>>
    BY <1>6 DEF ClockPhase, CacheClock, arrays, request
  <2>2. \A d \in Core : sending_flush'[d] => sending_flush[d]
    BY <1>6, <1>t DEF ClockPhase, CacheClock, SendBlockWord, EndSupply, supply
  <2> QED
    BY <1>1, <2>1, <2>2 DEF lines, control, pending, Supplies
<1>7. ASSUME NEW c \in Core, CorePhase(c) PROVE SuppliedInPlace'
  <2>1. UNCHANGED <<lines, control, pending, tag, supply>>
    BY <1>7, CoreAccessFrame
  <2>2. UNCHANGED <<busy, flush_count, bus_origid, pending_origid, sending_flush>>
    BY <2>1 DEF lines, control, pending, supply
  <2>3. busy => waiting_addr'[pending_origid] = b
    BY <1>7, <1>t, CoreAccessFrame DEF ProtocolInvariant, BusyInv, RequestMatches, Blocked
  <2> QED
    BY <2>1, <2>2, <2>3 DEF SuppliedInPlace, Supplies
<1> QED
  BY <1>2, <1>3, <1>4, <1>5, <1>6, <1>7 DEF Next, Tick
-----------------------------------------------------------------------------
(* The values (Agrees).  What is known of every state of the executions    *)
(* in question, and of the places a word may be in.                        *)
Base ==
  /\ TypeOK /\ ProtocolInvariant /\ MemoryInvariant /\ FlushInvariant
  /\ PlaceInv /\ SuppliedInPlace /\ CleanPace /\ CleansWhatItSupplies

LEMMA SuppliersAre ==
  ASSUME TypeOK, ProtocolInvariant
  PROVE  \A c \in Core : \A a :
           c \in Suppliers(a) <=> Supplies(c) /\ get_block_addr(a) = RequestedBlock
<1>1. busy => get_block_addr(pending_addr) = RequestedBlock
  BY NextWordInBlock
<1>2. busy => (bus_cmd = "BUS_FLUSH" <=> flush_count > 0)
  BY MemoryTypes DEF ProtocolInvariant, BusyInv, Transaction
<1> QED
  BY <1>1, <1>2 DEF Suppliers, Supplies, TransactionBlock

LEMMA SuppliersNext ==
  (TypeOK /\ ProtocolInvariant)' =>
    (\A c \in Core : \A a :
       c \in Suppliers(a) <=> Supplies(c) /\ get_block_addr(a) = RequestedBlock)'
<1>1. TypeOK /\ ProtocolInvariant =>
        \A c \in Core : \A a :
          c \in Suppliers(a) <=> Supplies(c) /\ get_block_addr(a) = RequestedBlock
  BY SuppliersAre
<1> QED
  BY <1>1, PTL

(* A block that a core waits for is not dirty in it, and a word that it    *)
(* has posted to clean a set is not one it waits for.                      *)
LEMMA WaiterIsClean ==
  ASSUME Base, NEW c \in Core, waiting_for_bus[c], NEW a \in Int,
         get_block_addr(a) = get_block_addr(waiting_addr[c])
  PROVE  ~Owns(c, a)
<1>1. waiting_addr[c] \in Int
  BY FlushTypes DEF Base
<1>2. get_index(a) = get_index(waiting_addr[c])
  BY <1>1, SameBlock
<1> QED
  BY <1>2 DEF Base, PlaceInv, WaitingSet, Owns

LEMMA GaveUpFacts ==
  ASSUME Base, NEW c \in Core, NEW a \in Int, GaveUp(c, a)
  PROVE  /\ FlushPosted(c) /\ slot[c].addr = a /\ ~need_to_clean_first[c]
         /\ MissesOther(c) /\ get_block_addr(a) = VictimBlock(c) /\ get_index(a) = AccessSet(c)
         /\ ~(Supplies(c) /\ get_block_addr(a) = RequestedBlock)
         /\ get_block_offset(a) = WORDS_IN_BLOCK - 1
         /\ \A d \in Core :
              /\ ~Present(d, a)
              /\ Completing(d) => get_block_addr(waiting_addr[d]) # get_block_addr(a)
         /\ (busy /\ RequestedBlock = get_block_addr(a)) => flush_count = 0 /\ ~AfterCoreOf(c)
<1>1. /\ FlushPosted(c) /\ slot[c].addr = a /\ state[c][get_index(a)] = "I"
      /\ ~(Supplies(c) /\ get_block_addr(a) = RequestedBlock)
  BY SuppliersAre DEF Base, GaveUp, LastWordPosted, FlushPosted
<1>2. /\ MissesOther(c) /\ get_block_addr(a) = VictimBlock(c)
      /\ ~need_to_clean_first[c] => a = VictimBlock(c) + WORDS_IN_BLOCK - 1
  BY <1>1 DEF Base, FlushInvariant, PostedInv, PostedOf
<1>3. get_index(a) = AccessSet(c)
  BY <1>2, Victim DEF Base
<1>4. state[c][AccessSet(c)] # "M"
  BY <1>1, <1>3
<1>5. ~need_to_clean_first[c]
  BY <1>1, <1>2, <1>4 DEF Base, FlushInvariant, CleanInv, CleaningOf
<1>6. get_block_offset(a) = WORDS_IN_BLOCK - 1
  <2>1. a = get_block_addr(a) + (WORDS_IN_BLOCK - 1) /\ WORDS_IN_BLOCK - 1 \in 0 .. WORDS_IN_BLOCK - 1
    BY <1>2, <1>5, Victim, BusAssumption DEF Base
  <2> QED
    BY <2>1, WordInBlock
<1>7. GivenUpBy(c)
  BY DEF Base, PlaceInv
<1> QED
  BY <1>1, <1>2, <1>3, <1>4, <1>5, <1>6, <1>7 DEF GivenUpBy

(* The block that the requester is receiving is dirty nowhere.             *)
LEMMA CleanBlock ==
  ASSUME Base, NEW o \in Core, NEW a \in Int,
         get_block_addr(a) = get_block_addr(waiting_addr[o]),
         (busy /\ pending_origid = o /\ flush_count > 0) \/ Completing(o)
  PROVE  ~Dirty(a)
<1>1. waiting_for_bus[o] /\ waiting_addr[o] \in Int
  BY FlushTypes DEF Base, ProtocolInvariant, BusyInv, Completing, RequestMatches
<1>2. get_index(a) = get_index(waiting_addr[o]) /\ get_tag(a) = get_tag(waiting_addr[o])
  BY <1>1, SameBlock
<1>3. ASSUME NEW d \in Core, Owns(d, a) PROVE FALSE
  <2>1. d # o
    BY <1>1, <1>3, WaiterIsClean
  <2>2. Present(d, waiting_addr[o]) /\ state[d][get_index(waiting_addr[o])] = "M"
    BY <1>2, <1>3 DEF Owns, Present
  <2> QED
    BY <2>1, <2>2 DEF Base, ProtocolInvariant, OthersInv, Snooped
<1>4. ASSUME NEW d \in Core, GaveUp(d, a) PROVE FALSE
  BY <1>4, GaveUpFacts, MemoryTypes DEF RequestedBlock, Base
<1> QED
  BY <1>3, <1>4 DEF Dirty

(* The value of an address is then found where Current looks for it.       *)
LEMMA CurrentIs ==
  ASSUME Base, NEW m, Agrees(m), NEW a \in Addr
  PROVE  Current(a) = m[a]
<1>t. a \in Int
  BY ZeroInAddr
<1>1. CASE Owners(a) # {}
  <2> DEFINE c == CHOOSE c \in Owners(a) : TRUE
  <2>1. c \in Owners(a)
    BY <1>1
  <2> HIDE DEF c
  <2>2. c \in Core /\ Present(c, a) /\ state[c][get_index(a)] = "M"
    BY <2>1 DEF Owners
  <2>3. ~BeingFilled(c, get_index(a))
    BY <2>2 DEF Base, PlaceInv, WaitingSet, BeingFilled
  <2>4. dsram[c][line(a)] = m[a]
    BY <2>2, <2>3 DEF Agrees, CopiesAgree
  <2> QED
    BY <1>1, <2>4 DEF Current, c
<1>2. CASE Owners(a) = {} /\ Suppliers(a) # {}
  <2> DEFINE c == CHOOSE c \in Suppliers(a) : TRUE
  <2>1. c \in Suppliers(a) /\ c \in Core
    BY <1>2 DEF Suppliers
  <2> HIDE DEF c
  <2>2. dsram[c][line(a)] = m[a]
    BY <2>1 DEF Agrees, SuppliesAgree
  <2> QED
    BY <1>2, <2>2 DEF Current, c
<1> DEFINE posted == {c \in Core : LastWordPosted(c, a)}
           p == CHOOSE c \in posted : TRUE
<1>3. CASE Owners(a) = {} /\ Suppliers(a) = {} /\ posted # {}
  <2>1. p \in posted
    BY <1>3
  <2>2. slot[p].data = m[a]
    <3> HIDE DEF p
    <3>1. p \in Core /\ p \in Agent /\ p # MAIN_MEMORY /\ FlushPosted(p) /\ slot[p].addr = a
      BY <2>1, MemoryTypes DEF Base, LastWordPosted, FlushPosted
    <3> QED
      BY <3>1 DEF Agrees, PostedAgree
  <2> QED
    BY <1>3, <2>2 DEF Current
<1>4. CASE Owners(a) = {} /\ Suppliers(a) = {} /\ posted = {}
  <2>1. ~Dirty(a)
    BY <1>4 DEF Dirty, Owns, Owners, GaveUp
  <2>2. CASE OnTheBus(a) /\ CoreFlushOnBus
    BY <1>4, <2>1, <2>2 DEF Current, Agrees, BusAgrees, WordMatters
  <2>3. CASE ~(OnTheBus(a) /\ CoreFlushOnBus)
    <3>1. mem[a] = m[a]
      BY <1>4, <2>1, <2>3 DEF Agrees, MemoryAgrees, WrittenBack
    <3> QED
      BY <1>4, <2>3, <3>1 DEF Current
  <2> QED
    BY <2>2, <2>3
<1> QED
  BY <1>1, <1>2, <1>3, <1>4
(* A step that changes no value keeps them if no place begins to matter.   *)
LEMMA AgreesStays ==
  ASSUME NEW m, Agrees(m), dsram' = dsram,
         \A c \in Core, a \in Addr : (Present(c, a) /\ ~BeingFilled(c, get_index(a)))'
                                       => Present(c, a) /\ ~BeingFilled(c, get_index(a)),
         \A c \in Core, a \in Addr : (c \in Suppliers(a))' =>
            c \in Suppliers(a) \/ (Present(c, a) /\ ~BeingFilled(c, get_index(a))),
         \A o \in Core, a \in Addr : Arrived(o, a)' => Arrived(o, a),
         PostedAgree(m)', BusAgrees(m)', MemoryAgrees(m)', PerformedAgree(m)'
  PROVE  Agrees(m)'
<1>1. CopiesAgree(m)'
  BY DEF Agrees, CopiesAgree
<1>2. SuppliesAgree(m)'
  BY DEF Agrees, SuppliesAgree, CopiesAgree
<1>3. ArrivedAgree(m)'
  BY DEF Agrees, ArrivedAgree
<1> QED
  BY <1>1, <1>2, <1>3 DEF Agrees

LEMMA ZeroInCore == 0 \in Core
BY BusAssumption DEF Core

(* A call that changes neither caches nor bus changes no place.            *)
LEMMA SamePlaces ==
  ASSUME phase \in {"memory", "edge"}, phase' \in {"bus", "memory"},
         UNCHANGED <<cacheVars, lines, control, pending, delay, access>>,
         \A c \in Core : slot'[c] = slot[c]
  PROVE  \A c \in Core, a \in Addr :
           /\ Present(c, a)' = Present(c, a) /\ BeingFilled(c, get_index(a))' = BeingFilled(c, get_index(a))
           /\ Suppliers(a)' = Suppliers(a) /\ Dirty(a)' = Dirty(a)
           /\ OnTheBus(a)' = OnTheBus(a) /\ WordMatters' = WordMatters
           /\ Arrived(c, a)' = Arrived(c, a)
<1>1. /\ UNCHANGED <<tag, state, dsram, is_mine, waiting_for_bus, waiting_addr, sending_flush,
                     need_to_clean_first, words_left>>
      /\ UNCHANGED <<bus_origid, bus_cmd, bus_addr, bus_data, busy, flush_count, pending_origid, pending_addr>>
  BY DEF cacheVars, arrays, request, supply, cleaning, lines, control, pending
<1>2. \A d \in Core : /\ AfterCoreOf(d) /\ AfterCoreOf(d)' /\ ~BeforeSnoop(d) /\ ~BeforeSnoop(d)'
                      /\ ~BeforeResponse(d) /\ ~BeforeResponse(d)' /\ ~Completing(d) /\ ~Completing(d)'
  BY DEF AfterCoreOf, BeforeSnoop, BeforeResponse, InCachePhases, Completing
<1> SUFFICES ASSUME NEW c \in Core, NEW a \in Addr
             PROVE /\ Present(c, a)' = Present(c, a) /\ BeingFilled(c, get_index(a))' = BeingFilled(c, get_index(a))
                   /\ Suppliers(a)' = Suppliers(a) /\ Dirty(a)' = Dirty(a)
                   /\ OnTheBus(a)' = OnTheBus(a) /\ WordMatters' = WordMatters
                   /\ Arrived(c, a)' = Arrived(c, a)
  OBVIOUS
<1>3. /\ \A d \in Core : Present(d, a)' = Present(d, a)
      /\ BeingFilled(c, get_index(a))' = BeingFilled(c, get_index(a))
      /\ OnTheBus(a)' = OnTheBus(a)
  BY <1>1 DEF Present, BeingFilled, OnTheBus
<1>4. Suppliers(a)' = Suppliers(a)
  BY <1>1 DEF Suppliers, TransactionBlock
<1>5. WordMatters' = WordMatters
  BY <1>1, <1>2 DEF WordMatters, CoreFlushOnBus
<1>6. Arrived(c, a)' = Arrived(c, a)
  <2>1. RequestedBlock' = RequestedBlock
    BY <1>1 DEF RequestedBlock
  <2> QED
    BY <1>1, <1>2, <2>1 DEF Arrived
<1>7. Dirty(a)' = Dirty(a)
  <2>1. \A d \in Core : Sent(d)' = Sent(d) /\ VictimBlock(d)' = VictimBlock(d)
    BY <1>1, <1>2 DEF Sent, VictimBlock, AccessSet
  <2>2. \A d \in Core : (Owns(d, a) /\ ~Cleaned(d, a))' <=> Owns(d, a) /\ ~Cleaned(d, a)
    BY <1>1, <1>3, <2>1 DEF Owns, Cleaned
  <2>3. \A d \in Core : GaveUp(d, a)' <=> GaveUp(d, a)
    BY <1>1, <1>4 DEF GaveUp, LastWordPosted
  <2> QED
    BY <2>2, <2>3 DEF Dirty
<1> QED
  BY <1>3, <1>4, <1>5, <1>6, <1>7

(* What memory sends is the current word of a block dirty nowhere.         *)
LEMMA SentIsCurrent ==
  ASSUME Base, NEW m, Agrees(m), phase = "memory", SendWord, NEW a \in Addr, a = pending_addr
  PROVE  mem[a] = m[a]
<1>1. /\ words_to_send > 0 /\ busy /\ ~CoreFlushOnBus /\ words_to_send \in Nat
      /\ flush_count > 0 => bus_origid = MAIN_MEMORY
  BY SentWord, MemoryTypes DEF Base, SendWord
<1>2. /\ get_block_addr(a) = RequestedBlock /\ a \in Int
      /\ pending_origid \in Core /\ waiting_addr[pending_origid] \in Int
      /\ waiting_for_bus[pending_origid]
  BY <1>1, NextWordInBlock, MemoryTypes, FlushTypes, ZeroInAddr
     DEF Base, ProtocolInvariant, BusyInv, RequestMatches
<1>3. ASSUME NEW d \in Core PROVE ~Owns(d, a)
  <2>1. CASE d = pending_origid
    BY <1>2, <2>1, WaiterIsClean DEF RequestedBlock
  <2>2. CASE d # pending_origid
    <3>1. get_index(a) = get_index(waiting_addr[pending_origid]) /\ get_tag(a) = get_tag(waiting_addr[pending_origid])
      BY <1>2, SameBlock DEF RequestedBlock
    <3> QED
      BY <1>1, <2>2, <3>1 DEF Base, MemoryInvariant, RespondInv, Owns, Present
  <2> QED
    BY <2>1, <2>2
<1>4. ASSUME NEW d \in Core PROVE ~GaveUp(d, a)
  BY <1>1, <1>2, GaveUpFacts DEF AfterCoreOf
<1>5. Suppliers(a) = {}
  <2>1. ASSUME NEW d \in Core, Supplies(d) PROVE FALSE
    <3>1. CASE sending_flush[d]
      BY <1>1, <3>1, MemoryTypes DEF Base, MemoryInvariant, SupplierInv
    <3>2. CASE ~sending_flush[d]
      BY <1>1, <2>1, <3>2, MemoryTypes DEF Supplies, Base
    <3> QED
      BY <3>1, <3>2
  <2>2. \A d : d \in Suppliers(a) => d \in Core
    BY DEF Suppliers
  <2> QED
    BY <2>1, <2>2, SuppliersAre DEF Base
<1> QED
  BY <1>1, <1>3, <1>4, <1>5 DEF Agrees, MemoryAgrees, WrittenBack, Dirty

LEMMA MemoryKeepsValues ==
  ASSUME Base, NEW m, Agrees(m), MemoryPhase
  PROVE  Agrees(m)'
<1>1. /\ phase = "memory" /\ phase' = "bus" /\ UNCHANGED <<cacheVars, lines, control, pending, delay, access>>
      /\ slot' = slot \/ SendWord
  BY DEF MemoryPhase, MemoryClock, GoTo, cores, TakeFlushedWord, CountDown, SendWord, StartResponse, MemoryIdle
<1>t. /\ slot \in [Agent -> Request \cup {NoRequest}] /\ Core \subseteq Agent /\ MAIN_MEMORY \in Agent
      /\ \A c \in Core : c # MAIN_MEMORY
      /\ mem \in [Addr -> Word]
  BY MemoryTypes, TypeOKParts DEF Base, MemoryTypeOK
<1>2. \A c \in Core : slot'[c] = slot[c]
  BY <1>1, <1>t DEF SendWord, BusRequest
<1>3. UNCHANGED <<dsram, is_mine, waiting_for_bus, bus_cmd, bus_addr, bus_data, bus_origid, flush_count, busy>>
  BY <1>1 DEF cacheVars, arrays, request, lines, control
<1>4. PostedAgree(m)'
  <2> SUFFICES ASSUME NEW g \in Agent, NEW a \in Addr, FlushPosted(g)', slot'[g].addr = a,
                      g = MAIN_MEMORY => busy
               PROVE  slot'[g].data = m[a]
    BY <1>3 DEF PostedAgree
  <2>1. CASE slot'[g] = slot[g]
    BY <2>1 DEF Agrees, PostedAgree, FlushPosted
  <2>2. CASE g = MAIN_MEMORY /\ SendWord
    <3>1. \E w : slot'[g] = [cmd |-> "BUS_FLUSH", addr |-> w, data |-> mem[w]]
      BY <1>t, <2>2 DEF SendWord, BusRequest
    <3>2. slot'[g].data = mem[a]
      BY <3>1
    <3>3. a = pending_addr
      BY <1>1, <2>2, SentWord DEF Base
    <3> QED
      BY <1>1, <2>2, <3>2, <3>3, SentIsCurrent
  <2>3. slot'[g] = slot[g] \/ (g = MAIN_MEMORY /\ SendWord)
    BY <1>1, <1>2, <1>t DEF SendWord, BusRequest
  <2> QED
    BY <2>1, <2>2, <2>3
<1>5. BusAgrees(m)'
  BY <1>1, <1>2, <1>3, SamePlaces, ZeroInCore DEF Agrees, BusAgrees
<1>6. MemoryAgrees(m)'
  <2> SUFFICES ASSUME NEW a \in Addr, WrittenBack(a)' PROVE mem'[a] = m[a]
    BY DEF MemoryAgrees
  <2>1. ~Dirty(a) /\ (Suppliers(a) = {} \/ get_block_offset(a) < flush_count)
    BY <1>1, <1>2, <1>3, SamePlaces, ZeroInCore DEF WrittenBack
  <2>2. CASE CoreFlushOnBus
    <3>1. mem' = [mem EXCEPT ![bus_addr] = bus_data]
      BY <2>2 DEF MemoryPhase, MemoryClock, TakeFlushedWord, WriteMemory, CountDown, SendWord,
         StartResponse, MemoryIdle
    <3>2. CASE a = bus_addr
      BY <1>t, <2>1, <2>2, <3>1, <3>2 DEF Agrees, BusAgrees, WordMatters, OnTheBus, CoreFlushOnBus
    <3>3. CASE a # bus_addr
      BY <1>t, <2>1, <3>1, <3>3 DEF Agrees, MemoryAgrees, WrittenBack, OnTheBus
    <3> QED
      BY <3>2, <3>3
  <2>3. CASE ~CoreFlushOnBus
    <3>1. mem' = mem
      BY <2>3 DEF MemoryPhase, MemoryClock, TakeFlushedWord, CountDown, SendWord,
         StartResponse, MemoryIdle, memoryVars
    <3> QED
      BY <2>1, <2>3, <3>1 DEF Agrees, MemoryAgrees, WrittenBack
  <2> QED
    BY <2>2, <2>3
<1>7. PerformedAgree(m)'
  BY <1>1, <1>3 DEF Agrees, PerformedAgree
<1> QED
  BY <1>1, <1>2, <1>3, <1>4, <1>5, <1>6, <1>7, SamePlaces, AgreesStays

LEMMA EdgeKeepsValues ==
  ASSUME Base, NEW m, Agrees(m), EdgePhase
  PROVE  Agrees(m)'
<1>1. /\ phase = "edge" /\ phase' = "memory" /\ UNCHANGED <<cacheVars, lines, control, pending, delay, access>>
      /\ slot' = slot /\ mem' = mem
  BY DEF EdgePhase, SharedEdge, GoTo, cores, memoryVars
<1>2. UNCHANGED <<dsram, is_mine, waiting_for_bus, bus_cmd, bus_addr, bus_data, bus_origid, flush_count, busy>>
  BY <1>1 DEF cacheVars, arrays, request, lines, control
<1>3. BusAgrees(m)'
  BY <1>1, <1>2, SamePlaces, ZeroInCore DEF Agrees, BusAgrees
<1>4. MemoryAgrees(m)'
  BY <1>1, <1>2, SamePlaces, ZeroInCore DEF Agrees, MemoryAgrees, WrittenBack, CoreFlushOnBus
<1>5. PostedAgree(m)' /\ PerformedAgree(m)'
  BY <1>1, <1>2 DEF Agrees, PostedAgree, PerformedAgree, FlushPosted
<1> QED
  BY <1>1, <1>2, <1>3, <1>4, <1>5, SamePlaces, AgreesStays
(* bus_clock: a word stops being dirty when it goes onto the bus to clean  *)
(* a set, and only then.                                                   *)
LEMMA BusFrame ==
  ASSUME Base, BusPhase
  PROVE  /\ phase = "bus" /\ phase' = "snoop"
         /\ UNCHANGED <<tag, state, dsram, is_mine, waiting_for_bus, waiting_addr, access, mem,
                        sending_flush, need_to_clean_first, words_left>>
         /\ slot \in [Agent -> Request \cup {NoRequest}] /\ Core \subseteq Agent /\ flush_count \in Nat
         /\ busy \in BOOLEAN /\ pending_origid \in Core
         /\ \A c \in Core : /\ AfterCoreOf(c) /\ ~AfterCoreOf(c)' /\ ~BeforeSnoop(c) /\ Snooped(c)
                            /\ ~BeforeResponse(c) /\ BeforeResponse(c)' /\ ~Completing(c)
                            /\ is_mine[c] => busy /\ pending_origid = c
         /\ \A c \in Core, a \in Addr :
              /\ Present(c, a)' = Present(c, a) /\ Owns(c, a)' = Owns(c, a)
              /\ BeingFilled(c, get_index(a))' = BeingFilled(c, get_index(a))
<1>1. /\ phase = "bus" /\ phase' = "snoop" /\ UNCHANGED <<cacheVars, cores, memoryVars>>
      /\ \A c \in Core : BeforeResponse(c)' /\ Snooped(c) /\ (is_mine[c] => busy /\ pending_origid = c)
  BY BeforeBusClock DEF Base, BusPhase
<1>2. \A c \in Core : /\ AfterCoreOf(c) /\ ~AfterCoreOf(c)' /\ ~BeforeSnoop(c)
                      /\ ~BeforeResponse(c) /\ ~Completing(c)
  BY <1>1 DEF AfterCoreOf, BeforeSnoop, BeforeResponse, InCachePhases, Completing
<1>3. /\ UNCHANGED <<tag, state, dsram, is_mine, waiting_for_bus, waiting_addr, access, mem,
                        sending_flush, need_to_clean_first, words_left>>
  BY <1>1 DEF cacheVars, arrays, request, supply, cleaning, cores, memoryVars
<1>4. /\ slot \in [Agent -> Request \cup {NoRequest}] /\ Core \subseteq Agent /\ flush_count \in Nat
      /\ busy \in BOOLEAN /\ pending_origid \in Core
  BY MemoryTypes, TypeOKParts DEF Base, BusTypeOK
<1>5. \A c \in Core, a \in Addr :
              /\ Present(c, a)' = Present(c, a) /\ Owns(c, a)' = Owns(c, a)
              /\ BeingFilled(c, get_index(a))' = BeingFilled(c, get_index(a))
  BY <1>3 DEF Present, Owns, BeingFilled
<1> QED
  BY <1>1, <1>2, <1>3, <1>4, <1>5

LEMMA BusCleans ==
  ASSUME Base, TypeOK', ProtocolInvariant', BusPhase, NEW a \in Addr, Dirty(a), ~Dirty(a)'
  PROVE  \E c \in Core : /\ FlushPosted(c) /\ ~FlushPosted(c)' /\ slot[c].addr = a
                         /\ ~(Supplies(c) /\ get_block_addr(a) = RequestedBlock)
<1>t. a \in Int
  BY ZeroInAddr
<1>1. ASSUME NEW c \in Core, Owns(c, a), ~Cleaned(c, a), Cleaned(c, a)'
      PROVE  FlushPosted(c) /\ ~FlushPosted(c)' /\ slot[c].addr = a /\ ~Supplies(c)
  <2>1. /\ need_to_clean_first[c] /\ VictimBlock(c)' = VictimBlock(c)
        /\ get_block_addr(a) = VictimBlock(c) /\ words_left' = words_left
    BY <1>1, BusFrame DEF Cleaned, VictimBlock, AccessSet
  <2>2. state[c][AccessSet(c)] = "M"
    BY <1>1, <1>t, <2>1, Victim DEF Base, Owns
  <2>3. /\ FlushPosted(c) /\ ~Supplies(c) /\ words_left[c] \in 1 .. WORDS_IN_BLOCK - 1
        /\ slot[c].addr = VictimBlock(c) + (words_left[c] - 1)
    BY <2>1, <2>2, CleaningWaits, BusFrame DEF Base
  <2>4. Sent(c) = words_left[c] - 1
    BY BusFrame DEF Sent
  <2>5. ~(get_block_offset(a) < words_left[c] - 1)
    BY <1>1, <2>1, <2>4 DEF Cleaned
  <2>6. Sent(c)' = IF (BeforeSnoop(c) /\ FlushPosted(c))' THEN words_left[c] - 1 ELSE words_left[c]
    BY <2>1, BusFrame DEF Sent
  <2>7. get_block_offset(a) < Sent(c)'
    BY <1>1 DEF Cleaned
  <2>8. ~FlushPosted(c)' /\ get_block_offset(a) < words_left[c]
    <3>1. BeforeSnoop(c)'
      BY BeforeBusClock, BusAssumption DEF Base, BeforeSnoop, InCachePhases, Core
    <3> QED
      BY <2>5, <2>6, <2>7, <3>1
  <2>9. a = VictimBlock(c) + (words_left[c] - 1)
    <3>1. get_block_offset(a) \in Int /\ a = get_block_addr(a) + get_block_offset(a)
      BY <1>t, WordOf
    <3> QED
      BY <2>1, <2>3, <2>5, <2>8, <3>1
  <2> QED
    BY <2>3, <2>8, <2>9
<1>2. ASSUME NEW c \in Core, GaveUp(c, a), FlushPosted(c)', slot'[c] = slot[c] PROVE GaveUp(c, a)'
  <2>1. ASSUME (c \in Suppliers(a))' PROVE FALSE
    <3>1. Supplies(c)' /\ get_block_addr(a) = RequestedBlock'
      BY <2>1, SuppliersNext
    <3>2. Supplies(c) /\ RequestedBlock' = RequestedBlock
      BY <3>1, BusFrame, BusSuppliers DEF RequestedBlock, Base
    <3> QED
      BY <1>2, <1>t, <3>1, <3>2, GaveUpFacts
  <2> QED
    BY <1>2, <2>1, BusFrame DEF GaveUp, LastWordPosted
<1>3. \A c \in Core : FlushPosted(c)' => slot'[c] = slot[c]
  <2>1. slot' = slot \/ \E g \in Agent : slot' = [slot EXCEPT ![g] = NoRequest]
    BY CoreIsAgent DEF BusPhase, BusClock, DelayStep, GrantFlush, PutOnBus, GrantRequest, WaitForWord, GoIdle, busVars
  <2> QED
    BY <2>1, BusFrame DEF FlushPosted, NoRequest
<1>4. PICK c \in Core : (Owns(c, a) /\ ~Cleaned(c, a)) \/ GaveUp(c, a)
  BY DEF Dirty
<1>5. CASE Owns(c, a) /\ ~Cleaned(c, a)
  BY <1>1, <1>5, BusFrame DEF Dirty
<1>6. CASE GaveUp(c, a)
  BY <1>2, <1>3, <1>6, <1>t, GaveUpFacts DEF Dirty
<1> QED
  BY <1>4, <1>5, <1>6

(* While no word goes out, every place keeps its word.                     *)
LEMMA NoWordKeepsValues ==
  ASSUME Base, TypeOK', ProtocolInvariant', NEW m, Agrees(m), BusPhase,
         DelayStep \/ WaitForWord \/ GoIdle \/ \E c \in Core : GrantRequest(c)
  PROVE  Agrees(m)'
<1>1. /\ \A g \in Agent : FlushPosted(g) \/ FlushPosted(g)' => slot'[g] = slot[g]
      /\ busy => WaitForWord
  <2>1. DelayStep \/ WaitForWord \/ GoIdle => slot' = slot
    BY DEF DelayStep, WaitForWord, GoIdle, busVars
  <2>2. ASSUME NEW c \in Core, GrantRequest(c), NEW g \in Agent, FlushPosted(g) \/ FlushPosted(g)'
        PROVE  slot'[g] = slot[g]
    BY <2>2, BusFrame DEF GrantRequest, Requesting, FlushPosted, NoRequest, Transaction
  <2>3. busy => WaitForWord
    BY DEF Base, ProtocolInvariant, DelayInv, DelayStep, GrantRequest, GoIdle
  <2> QED
    BY <2>1, <2>2, <2>3
<1>2. WaitForWord => UNCHANGED <<lines, slot, delay, control, pending>> /\ busy
  BY DEF WaitForWord, busVars
<1>3. ~busy =>
        /\ busy' => flush_count' = 0 /\ DelayStep
        /\ bus_cmd' = "BUS_FLUSH" => ~busy' /\ UNCHANGED lines
  <2>1. DelayStep => flush_count' = 0 /\ busy' /\ bus_cmd' \in Transaction
    BY TypeOKParts DEF DelayStep, Base, BusTypeOK
  <2> QED
    BY <1>2, <2>1 DEF GrantRequest, GoIdle, control, Transaction
<1>4. \A a \in Addr : Dirty(a) => Dirty(a)'
  BY <1>1, BusCleans, BusFrame DEF FlushPosted
<1>5. \A o \in Core : ~Completing(o)'
  BY <1>1, <1>2, BusFrame DEF Completing, control
<1>6. \A c \in Core, a \in Addr : (c \in Suppliers(a))' => c \in Suppliers(a)
  <2> SUFFICES ASSUME NEW c \in Core, NEW a \in Addr, (c \in Suppliers(a))' PROVE c \in Suppliers(a)
    OBVIOUS
  <2>1. Supplies(c)' /\ get_block_addr(a) = RequestedBlock'
    BY SuppliersNext
  <2>2. Supplies(c) /\ RequestedBlock' = RequestedBlock
    BY <2>1, BusFrame, BusSuppliers DEF RequestedBlock, Base
  <2> QED
    BY <2>1, <2>2, SuppliersAre DEF Base
<1>7. \A o \in Core, a \in Addr : Arrived(o, a)' => Arrived(o, a)
  <2> SUFFICES ASSUME NEW o \in Core, NEW a \in Addr, Arrived(o, a)' PROVE Arrived(o, a)
    OBVIOUS
  <2>1. /\ busy' /\ pending_origid' = o /\ get_block_addr(a) = RequestedBlock'
        /\ get_block_offset(a) < flush_count' - 1 /\ get_block_offset(a) \in Nat
    BY <1>5, BusFrame, WordOf, ZeroInAddr DEF Arrived
  <2>2. busy
    BY <1>3, <2>1, BusFrame
  <2>3. UNCHANGED <<busy, pending_origid, flush_count, waiting_addr>>
    BY <1>1, <1>2, <2>2, BusFrame DEF control, pending
  <2> QED
    BY <2>1, <2>2, <2>3, BusFrame DEF Arrived, RequestedBlock
<1>8. PostedAgree(m)'
  <2> SUFFICES ASSUME NEW g \in Agent, NEW a \in Addr, FlushPosted(g)', slot'[g].addr = a,
                      g = MAIN_MEMORY => busy'
               PROVE  slot'[g].data = m[a]
    BY DEF PostedAgree
  <2>1. slot'[g] = slot[g] /\ FlushPosted(g)
    BY <1>1 DEF FlushPosted
  <2>2. g = MAIN_MEMORY => busy
    BY <1>3, <2>1, BusFrame DEF Base, MemoryInvariant, MemorySlotInv, FlushPosted, DelayStep
  <2> QED
    BY <2>1, <2>2 DEF Agrees, PostedAgree
<1>9. BusAgrees(m)'
  <2> SUFFICES ASSUME NEW a \in Addr, OnTheBus(a)', WordMatters', ~Dirty(a)' PROVE bus_data' = m[a]
    BY DEF BusAgrees
  <2>1. UNCHANGED lines /\ (busy' => busy)
    BY <1>1, <1>2, <1>3, BusFrame DEF OnTheBus, control
  <2>2. OnTheBus(a) /\ WordMatters /\ ~Dirty(a) /\ bus_data' = bus_data
    BY <1>4, <1>5, <2>1 DEF lines, OnTheBus, WordMatters, CoreFlushOnBus
  <2> QED
    BY <2>2 DEF Agrees, BusAgrees
<1>10. MemoryAgrees(m)'
  <2> SUFFICES ASSUME NEW a \in Addr, WrittenBack(a)' PROVE WrittenBack(a)
    BY BusFrame DEF Agrees, MemoryAgrees
  <2>1. ~Dirty(a)
    BY <1>4 DEF WrittenBack
  <2>2. Suppliers(a) = {} \/ get_block_offset(a) < flush_count
    <3>1. CASE busy
      BY <1>1, <1>2, <3>1, BusFrame DEF WrittenBack, Suppliers, TransactionBlock, lines, control, pending
    <3>2. CASE ~busy
      BY <3>2 DEF Suppliers
    <3> QED
      BY <3>1, <3>2
  <2> QED
    BY <2>1, <2>2, BusFrame DEF WrittenBack
<1>11. PerformedAgree(m)'
  BY BusFrame DEF Agrees, PerformedAgree
<1> QED
  BY <1>6, <1>7, <1>8, <1>9, <1>10, <1>11, BusFrame, AgreesStays
(* A word that goes out is the current one of its address.                 *)
LEMMA WordGoesOut ==
  ASSUME Base, TypeOK', ProtocolInvariant', NEW m, Agrees(m), BusPhase,
         NEW g \in Agent, GrantFlush(g)
  PROVE  Agrees(m)'
<1>1. /\ FlushPosted(g) /\ slot' = [slot EXCEPT ![g] = NoRequest]
      /\ bus_cmd' = "BUS_FLUSH" /\ bus_origid' = g
      /\ bus_addr' = slot[g].addr /\ bus_data' = slot[g].data
      /\ pending_origid' = pending_origid /\ (busy => slot[g].addr = pending_addr)
  BY DEF GrantFlush, PutOnBus, LowestFlush, FlushReady, FlushAllowed, FlushPosted
<1>2. /\ busy' => busy /\ flush_count' = flush_count + 1
      /\ busy /\ ~busy' => flush_count = WORDS_IN_BLOCK - 1
  BY BusFrame, BusAssumption DEF GrantFlush, CountWord, BlockComplete
<1>3. /\ \A h \in Agent : FlushPosted(h)' => h # g /\ slot'[h] = slot[h]
      /\ \A h \in Core : FlushPosted(h) /\ ~FlushPosted(h)' => h = g
  BY <1>1, BusFrame DEF FlushPosted, NoRequest
<1>4. RequestedBlock' = RequestedBlock
  BY <1>1, BusFrame DEF RequestedBlock
<1>5. CoreFlushOnBus' <=> g \in Core
  BY <1>1, BusAssumption DEF CoreFlushOnBus, MAIN_MEMORY, Agent, Core
<1>6. \A o \in Core : Completing(o)' => busy /\ pending_origid = o
  BY BusFrame DEF Completing
<1>7. \A c \in Core, a \in Addr : (c \in Suppliers(a))' => c \in Suppliers(a)
  <2> SUFFICES ASSUME NEW c \in Core, NEW a \in Addr, (c \in Suppliers(a))' PROVE c \in Suppliers(a)
    OBVIOUS
  <2>1. Supplies(c)' /\ get_block_addr(a) = RequestedBlock'
    BY SuppliersNext
  <2> QED
    BY <1>4, <2>1, BusSuppliers, SuppliersAre DEF Base
<1>8. \A o \in Core, a \in Addr : Arrived(o, a)' => Arrived(o, a)
  <2> SUFFICES ASSUME NEW o \in Core, NEW a \in Addr, Arrived(o, a)' PROVE Arrived(o, a)
    OBVIOUS
  <2>1. get_block_offset(a) \in Nat /\ flush_count \in Nat
    BY BusFrame, WordOf, ZeroInAddr
  <2>2. CASE /\ busy' /\ pending_origid' = o /\ get_block_addr(a) = RequestedBlock'
             /\ get_block_offset(a) < flush_count' - 1
    BY <1>1, <1>2, <1>4, <2>1, <2>2, BusFrame DEF Arrived
  <2>3. CASE Completing(o)' /\ get_block_addr(a) = get_block_addr(waiting_addr'[o])
             /\ get_block_offset(a) < WORDS_IN_BLOCK - 1
    <3>1. ~busy' /\ busy /\ pending_origid = o
      BY <1>6, <2>3 DEF Completing
    <3> QED
      BY <1>2, <2>3, <3>1, BusFrame DEF Arrived, RequestedBlock
  <2> QED
    BY <2>2, <2>3, BusFrame DEF Arrived
<1>9. PostedAgree(m)'
  <2> SUFFICES ASSUME NEW h \in Agent, NEW a \in Addr, FlushPosted(h)', slot'[h].addr = a,
                      h = MAIN_MEMORY => busy'
               PROVE  slot'[h].data = m[a]
    BY DEF PostedAgree
  <2>1. slot'[h] = slot[h] /\ FlushPosted(h)
    BY <1>3 DEF FlushPosted
  <2> QED
    BY <1>2, <2>1 DEF Agrees, PostedAgree
<1>10. BusAgrees(m)'
  <2> SUFFICES ASSUME NEW a \in Addr, OnTheBus(a)', WordMatters' PROVE bus_data' = m[a]
    BY DEF BusAgrees
  <2>1. slot[g].addr = a
    BY <1>1 DEF OnTheBus
  <2>2. g = MAIN_MEMORY => busy
    BY <1>2, <1>5, <1>6, MemoryTypes DEF WordMatters, Base
  <2> QED
    BY <1>1, <2>1, <2>2 DEF Agrees, PostedAgree
<1>11. MemoryAgrees(m)'
  <2> SUFFICES ASSUME NEW a \in Addr, WrittenBack(a)' PROVE WrittenBack(a)
    BY BusFrame DEF Agrees, MemoryAgrees
  <2>1. ~(slot[g].addr = a /\ g \in Core)
    BY <1>1, <1>5, BusFrame DEF WrittenBack, OnTheBus
  <2>2. ~Dirty(a)
    BY <1>3, <2>1, BusCleans DEF WrittenBack
  <2>3. ASSUME NEW d \in Suppliers(a), ~(get_block_offset(a) < flush_count) PROVE FALSE
    <3>1. d \in Core /\ Supplies(d) /\ get_block_addr(a) = RequestedBlock /\ busy
      BY SuppliersAre DEF Base, Suppliers
    <3>2. d = g
      BY <3>1, BusFrame, BusSupplier DEF Base
    <3>3. /\ get_block_offset(a) \in 0 .. WORDS_IN_BLOCK - 1
          /\ a = get_block_addr(a) + get_block_offset(a) /\ RequestedBlock \in Int
          /\ flush_count \in Nat /\ WORDS_IN_BLOCK \in Nat
      BY BusFrame, WordOf, ZeroInAddr, MemoryTypes DEF Base
    <3>4. get_block_offset(a) = flush_count
      <4>1. CASE busy'
        <5>1. Supplies(d)' /\ get_block_addr(a) = RequestedBlock'
          BY <1>1, <1>2, <1>4, <3>1, <3>2, <3>3, <4>1 DEF Supplies
        <5>2. (d \in Suppliers(a))'
          BY <3>1, <5>1, SuppliersNext
        <5>3. get_block_offset(a) < flush_count'
          BY <5>2 DEF WrittenBack
        <5> QED
          BY <1>2, <2>3, <3>3, <4>1, <5>3
      <4>2. CASE ~busy'
        BY <1>2, <2>3, <3>1, <3>3, <4>2
      <4> QED
        BY <4>1, <4>2
    <3>5. slot[g].addr = a
      BY <1>1, <3>1, <3>3, <3>4, NextWord DEF Base
    <3> QED
      BY <2>1, <3>1, <3>2, <3>5
  <2> QED
    BY <2>2, <2>3, BusFrame DEF WrittenBack
<1>12. PerformedAgree(m)'
  BY BusFrame DEF Agrees, PerformedAgree
<1> QED
  BY <1>7, <1>8, <1>9, <1>10, <1>11, <1>12, BusFrame, AgreesStays

LEMMA BusKeepsValues ==
  ASSUME Base, TypeOK', ProtocolInvariant', NEW m, Agrees(m), BusPhase
  PROVE  Agrees(m)'
BY NoWordKeepsValues, WordGoesOut DEF BusPhase, BusClock
(* cache_snoop: a word stops being dirty only when its block is supplied   *)
(* from then on; no word of it has come yet.                               *)
LEMMA SnoopDirty ==
  ASSUME Base, TypeOK', ProtocolInvariant', NEW c \in Core, SnoopPhase(c),
         NEW a \in Addr, Dirty(a), ~Dirty(a)'
  PROVE  Suppliers(a)' # {} /\ busy /\ flush_count = 0
<1>t. a \in Int /\ get_index(a) \in Set
  BY ZeroInAddr, IndexInSet
<1>1. /\ UNCHANGED <<lines, slot, control, pending, tag, request, access, need_to_clean_first>>
      /\ BeforeSnoop(c) /\ ~BeforeSnoop(c)'
      /\ \A d \in Core : /\ ~AfterCoreOf(d) /\ ~AfterCoreOf(d)'
                         /\ d # c => words_left'[d] = words_left[d] /\ BeforeSnoop(d)' = BeforeSnoop(d)
  BY SnoopFrame DEF Base
<1>2. /\ \A d \in Core : d # c => state'[d] = state[d] /\ sending_flush'[d] = sending_flush[d]
      /\ RequestedBlock' = RequestedBlock /\ UNCHANGED <<busy, flush_count, bus_origid>>
      /\ \A d \in Core : Supplies(d)' => Supplies(d) \/ (d = c /\ busy /\ flush_count = 0)
  <2>1. /\ UNCHANGED <<busy, flush_count, bus_origid, waiting_addr, pending_origid>>
        /\ \A d \in Core : d # c => state'[d] = state[d] /\ sending_flush'[d] = sending_flush[d]
        /\ supply' = supply \/ (busy /\ flush_count = 0)
    BY <1>1, SnoopLowers, SnoopGivesUp DEF lines, control, pending, request, Base
  <2> QED
    BY <2>1 DEF RequestedBlock, Supplies, supply
<1>3. ASSUME NEW d \in Core, (d \in Suppliers(a))', d \notin Suppliers(a)
      PROVE  Suppliers(a)' # {} /\ busy /\ flush_count = 0
  <2>1. Supplies(d)' /\ get_block_addr(a) = RequestedBlock' /\ ~Supplies(d)
    BY <1>2, <1>3, SuppliersNext, SuppliersAre DEF Base
  <2> QED
    BY <1>2, <1>3, <2>1
<1>4. ASSUME NEW d \in Core, GaveUp(d, a), ~GaveUp(d, a)'
      PROVE  Suppliers(a)' # {} /\ busy /\ flush_count = 0
  <2>1. state'[d][get_index(a)] = "I"
    BY <1>2, <1>4, <1>t, SnoopLowers DEF Base, GaveUp, LastWordPosted
  <2> QED
    BY <1>1, <1>3, <1>4, <2>1 DEF GaveUp, LastWordPosted
<1>5. ASSUME NEW d \in Core, need_to_clean_first[d], state[d][AccessSet(d)] = "M"
      PROVE  Sent(d)' = Sent(d)
  <2>1. CASE d # c
    BY <1>1, <2>1 DEF Sent, FlushPosted
  <2>2. CASE d = c
    <3>1. FlushPosted(c) <=> ~OwnWordOnBus(c)
      BY <1>1, <1>5, <2>2 DEF Base, CleanPace
    <3>2. ~SnoopOwnRequest(c)
      <4> SUFFICES ASSUME SnoopOwnRequest(c) PROVE FALSE
        OBVIOUS
      <4>1. waiting_for_bus[c]
        BY TransactionOnBus DEF Base, SnoopOwnRequest, ProtocolInvariant, BusyInv, RequestMatches
      <4> QED
        BY <1>5, <2>2, <4>1 DEF Base, FlushInvariant, CleanInv, CleaningOf, MissesOther
    <3>3. words_left'[c] = IF OwnWordOnBus(c) THEN words_left[c] ELSE words_left[c] - 1
      <4>1. RepeatCleanWord(c)
        BY <3>2 DEF SnoopPhase, CacheSnoop, SnoopOther
      <4> QED
        BY <1>5, <2>2, <4>1, FlushTypes DEF RepeatCleanWord, OwnWordOnBus, Base
    <3> QED
      BY <1>1, <2>2, <3>1, <3>3 DEF Sent
  <2> QED
    BY <2>1, <2>2
<1>6. ASSUME NEW d \in Core, Owns(d, a), ~Owns(d, a)'
      PROVE  Suppliers(a)' # {} /\ busy /\ flush_count = 0
  <2>1. d = c /\ state[c][get_index(a)] = "M" /\ state'[c][get_index(a)] # state[c][get_index(a)]
    BY <1>1, <1>2, <1>6 DEF Owns, Present
  <2>2. /\ get_index(a) = get_index(bus_addr) /\ tag[c][get_index(a)] = get_tag(bus_addr)
        /\ bus_cmd \in Transaction /\ sending_flush'[c]
    BY <1>t, <2>1, SnoopLowers DEF Base
  <2>3. /\ busy /\ flush_count = 0 /\ bus_addr = waiting_addr[pending_origid] /\ bus_addr \in Int
    BY <2>2, TransactionOnBus, FlushTypes DEF Base
  <2>4. get_block_addr(a) = RequestedBlock
    BY <1>t, <1>6, <2>1, <2>2, <2>3, SameBlock DEF RequestedBlock, Owns, Present
  <2>5. (c \in Suppliers(a))'
    BY <1>2, <2>2, <2>3, <2>4, SuppliersNext DEF Supplies
  <2> QED
    BY <2>3, <2>5
<1>7. ASSUME NEW d \in Core, Owns(d, a), ~Cleaned(d, a), Cleaned(d, a)' PROVE FALSE
  <2>1. need_to_clean_first[d] /\ get_block_addr(a) = VictimBlock(d)
    BY <1>1, <1>7 DEF Cleaned, VictimBlock, AccessSet
  <2>2. state[d][AccessSet(d)] = "M"
    BY <1>7, <1>t, <2>1, Victim DEF Base, Owns
  <2> QED
    BY <1>5, <1>7, <2>1, <2>2 DEF Cleaned
<1>8. PICK d \in Core : (Owns(d, a) /\ ~Cleaned(d, a)) \/ GaveUp(d, a)
  BY DEF Dirty
<1> QED
  BY <1>4, <1>6, <1>7, <1>8 DEF Dirty

LEMMA SnoopKeepsValues ==
  ASSUME Base, TypeOK', ProtocolInvariant', NEW m, Agrees(m), NEW c \in Core, SnoopPhase(c)
  PROVE  Agrees(m)'
<1>1. /\ phase = "snoop" /\ phase' = "response"
      /\ UNCHANGED <<lines, slot, delay, control, pending, tag, dsram, request, access, memoryVars>>
      /\ \A d \in Core : BeforeResponse(d)' = BeforeResponse(d)
  BY SnoopFrame, SnoopLowers, SnoopPosition DEF Base, SnoopPhase
<1>2. UNCHANGED <<bus_cmd, bus_origid, bus_addr, bus_data, busy, flush_count, waiting_for_bus,
                  waiting_addr, is_write_request, pending_origid, pending_cmd, pending_addr, mem,
                  delay_in_progress>>
  BY <1>1 DEF lines, control, pending, request, memoryVars, delay
<1>3. RequestedBlock' = RequestedBlock
  BY <1>2 DEF RequestedBlock
<1>4. \A d \in Core : is_mine'[d] => is_mine[d] \/ (bus_cmd \in Transaction /\ d = pending_origid)
  <2>1. UNCHANGED is_mine \/ (SnoopOwnRequest(c) /\ bus_cmd \in Transaction /\ c = pending_origid)
    BY SnoopLowers, TransactionOnBus DEF Base, SnoopOwnRequest
  <2> QED
    BY <2>1, SnoopLowers DEF Base
<1>5. \A d \in Core : Completing(d)' => Completing(d)
  BY <1>1, <1>2, <1>4 DEF Completing, RequestMatches, Transaction
<1>6. \A d \in Core, a \in Addr : (Present(d, a) /\ ~BeingFilled(d, get_index(a)))'
                                    => Present(d, a) /\ ~BeingFilled(d, get_index(a))
  <2>1. \A d \in Core, j \in Set : state'[d][j] # "I" => state[d][j] # "I"
    BY SnoopLowers DEF Base
  <2> QED
    BY <1>1, <1>2, <2>1, IndexInSet, ZeroInAddr DEF Present, BeingFilled
<1>7. ASSUME NEW d \in Core, NEW a \in Addr, (d \in Suppliers(a))', d \notin Suppliers(a)
      PROVE  Present(d, a) /\ ~BeingFilled(d, get_index(a))
  <2>1. Supplies(d)' /\ get_block_addr(a) = RequestedBlock /\ ~Supplies(d)
    BY <1>3, <1>7, SuppliersNext, SuppliersAre DEF Base
  <2>2. d = c /\ Present(c, bus_addr) /\ SnoopState(c) = "M" /\ bus_cmd \in Transaction
    BY <1>2, <2>1, SnoopSupplies DEF Supplies, supply, Base
  <2>3. bus_addr = waiting_addr[pending_origid] /\ bus_addr \in Int /\ a \in Int
    BY <2>2, TransactionOnBus, FlushTypes, ZeroInAddr DEF Base
  <2>4. Present(d, a) /\ state[d][get_index(a)] = "M"
    BY <2>1, <2>2, <2>3, SameBlock DEF RequestedBlock, Present, SnoopState
  <2> QED
    BY <2>4 DEF Base, PlaceInv, WaitingSet, BeingFilled
<1>8. \A d \in Core, a \in Addr : Arrived(d, a)' => Arrived(d, a)
  BY <1>1, <1>2, <1>3, <1>5 DEF Arrived
<1>9. PostedAgree(m)' /\ PerformedAgree(m)'
  <2>1. PostedAgree(m)'
    BY <1>1, <1>2 DEF Agrees, PostedAgree, FlushPosted
  <2>2. bus_cmd \in Transaction => waiting_for_bus[pending_origid]
    BY TransactionOnBus DEF Base, ProtocolInvariant, BusyInv, RequestMatches
  <2>3. PerformedAgree(m)'
    BY <1>1, <1>2, <1>4, <2>2 DEF Agrees, PerformedAgree
  <2> QED
    BY <2>1, <2>3
<1>10. BusAgrees(m)'
  <2> SUFFICES ASSUME NEW a \in Addr, OnTheBus(a)', WordMatters', ~Dirty(a)' PROVE bus_data' = m[a]
    BY DEF BusAgrees
  <2>1. OnTheBus(a) /\ WordMatters
    BY <1>2, <1>5 DEF OnTheBus, WordMatters, CoreFlushOnBus
  <2>2. ~Dirty(a)
    BY <2>1, SnoopDirty DEF OnTheBus, Base, ProtocolInvariant, BusyInv, Transaction
  <2> QED
    BY <1>2, <2>1, <2>2 DEF Agrees, BusAgrees
<1>11. MemoryAgrees(m)'
  <2> SUFFICES ASSUME NEW a \in Addr, WrittenBack(a)' PROVE WrittenBack(a)
    BY <1>2 DEF Agrees, MemoryAgrees
  <2>1. \A d \in Suppliers(a) : (d \in Suppliers(a))'
    <3> SUFFICES ASSUME NEW d \in Suppliers(a) PROVE (d \in Suppliers(a))'
      OBVIOUS
    <3>1. d \in Core /\ Supplies(d) /\ get_block_addr(a) = RequestedBlock
      BY SuppliersAre DEF Base, Suppliers
    <3>2. sending_flush[d] => sending_flush'[d]
      BY <3>1, SnoopGivesUp DEF supply, Base
    <3> QED
      BY <1>2, <1>3, <3>1, <3>2, SuppliersNext DEF Supplies
  <2>2. get_block_offset(a) \in Nat
    BY WordOf, ZeroInAddr
  <2>3. ~Dirty(a)
    BY <1>2, <2>2, SnoopDirty DEF WrittenBack
  <2>4. Suppliers(a) = {} \/ get_block_offset(a) < flush_count
    BY <1>2, <2>1 DEF WrittenBack
  <2> QED
    BY <1>1, <1>2, <2>3, <2>4 DEF WrittenBack, OnTheBus, CoreFlushOnBus
<1> QED
  BY <1>1, <1>6, <1>7, <1>8, <1>9, <1>10, <1>11, AgreesStays
(* cache_handle_bus_response: the word it takes is the current one.        *)
LEMMA TakenWord ==
  ASSUME Base, NEW m, Agrees(m), NEW c \in Core, phase = "response", turn = c, Filling(c)
  PROVE  /\ waiting_for_bus[c] /\ pending_origid = c /\ bus_addr \in Addr
         /\ get_block_addr(bus_addr) = get_block_addr(waiting_addr[c])
         /\ get_index(bus_addr) = get_index(waiting_addr[c])
         /\ bus_data = m[bus_addr]
         /\ LastWordOnBus <=> Completing(c)
         /\ ~Completing(c) => busy /\ flush_count > 0 /\ get_block_offset(bus_addr) = flush_count - 1
         /\ Completing(c) => get_block_offset(bus_addr) = WORDS_IN_BLOCK - 1
<1>1. /\ waiting_for_bus[c] /\ is_mine[c] /\ bus_cmd = "BUS_FLUSH"
      /\ pending_origid = c /\ (LastWordOnBus <=> Completing(c))
      /\ get_block_addr(bus_addr) = get_block_addr(waiting_addr[c])
      /\ get_index(bus_addr) = get_index(waiting_addr[c])
  BY WordTaken DEF Base, Filling
<1>t. /\ flush_count \in 0 .. WORDS_IN_BLOCK - 1 /\ WORDS_IN_BLOCK \in Nat \ {0, 1}
      /\ waiting_addr[c] \in Addr /\ waiting_addr[c] \in Int
      /\ get_block_addr(waiting_addr[c]) \in Addr /\ get_block_addr(waiting_addr[c]) \in Int
      /\ get_block_addr(waiting_addr[c]) % WORDS_IN_BLOCK = 0
  <2>1. waiting_addr[c] \in Addr /\ waiting_addr[c] \in Int
    BY TypeOKParts, ZeroInAddr DEF Base, CacheTypeOK
  <2> QED
    BY <2>1, MemoryTypes, BlockAddr DEF Base
<1>2. busy \/ Completing(c)
  BY <1>1 DEF Base, ProtocolInvariant, MineInv
<1>3. busy => /\ flush_count > 0 /\ flush_count - 1 \in 0 .. WORDS_IN_BLOCK - 1
              /\ bus_addr = get_block_addr(waiting_addr[c]) + (flush_count - 1)
  <2> SUFFICES ASSUME busy PROVE /\ flush_count > 0 /\ flush_count - 1 \in 0 .. WORDS_IN_BLOCK - 1
                                 /\ bus_addr = get_block_addr(waiting_addr[c]) + (flush_count - 1)
    OBVIOUS
  <2>1. /\ pending_cmd \in Transaction /\ pending_addr = get_block_addr(waiting_addr[c]) + flush_count
        /\ flush_count = 0 => bus_cmd = pending_cmd
        /\ flush_count > 0 => bus_addr = pending_addr - 1
    BY <1>1 DEF Base, ProtocolInvariant, BusyInv
  <2>2. flush_count # 0
    BY <1>1, <2>1 DEF Transaction
  <2>3. flush_count > 0
    BY <1>t, <2>2
  <2> QED
    BY <1>t, <2>1, <2>3
<1>4. Completing(c) => bus_addr = get_block_addr(waiting_addr[c]) + (WORDS_IN_BLOCK - 1)
  BY DEF Completing
<1>5. bus_addr \in Addr /\ bus_addr \in Int
  <2>1. WORDS_IN_BLOCK - 1 \in 0 .. WORDS_IN_BLOCK - 1
    BY <1>t
  <2>2. \E k \in 0 .. WORDS_IN_BLOCK - 1 : bus_addr = get_block_addr(waiting_addr[c]) + k
    BY <1>2, <1>3, <1>4, <2>1
  <2>3. PICK k \in 0 .. WORDS_IN_BLOCK - 1 : bus_addr = get_block_addr(waiting_addr[c]) + k
    BY <2>2
  <2> QED
    BY <1>t, <2>3, WordOfBlock, ZeroInAddr
<1>6. /\ busy => get_block_offset(bus_addr) = flush_count - 1
      /\ Completing(c) => get_block_offset(bus_addr) = WORDS_IN_BLOCK - 1
  <2>1. WORDS_IN_BLOCK - 1 \in 0 .. WORDS_IN_BLOCK - 1
    BY <1>t
  <2>2. \A k \in 0 .. WORDS_IN_BLOCK - 1 :
          get_block_offset(get_block_addr(waiting_addr[c]) + k) = k
    BY <1>t, WordInBlock
  <2> QED
    BY <1>3, <1>4, <2>1, <2>2
<1>7. ~Dirty(bus_addr)
  BY <1>1, <1>2, <1>3, <1>5, CleanBlock
<1>8. bus_data = m[bus_addr]
  BY <1>1, <1>2, <1>5, <1>7 DEF Agrees, BusAgrees, OnTheBus, WordMatters
<1> QED
  BY <1>1, <1>2, <1>3, <1>5, <1>6, <1>8

LEMMA ResponseFrame ==
  ASSUME Base, NEW c \in Core, ResponsePhase(c)
  PROVE  /\ phase = "response" /\ turn = c /\ phase' = "clock"
         /\ UNCHANGED <<bus_cmd, bus_origid, bus_addr, bus_data, busy, flush_count, pending_origid,
                        pending_cmd, pending_addr, delay_in_progress, slot, access, is_mine, mem,
                        sending_flush, need_to_clean_first, words_left>>
         /\ \A d \in Core : /\ ~AfterCoreOf(d) /\ ~AfterCoreOf(d)' /\ BeforeSnoop(d)' = BeforeSnoop(d)
                            /\ d # c => BeforeResponse(d)' = BeforeResponse(d)
         /\ BeforeResponse(c) /\ ~BeforeResponse(c)'
         /\ \A a : Suppliers(a)' = Suppliers(a)
<1>1. /\ phase = "response" /\ turn = c /\ phase' = "clock"
      /\ UNCHANGED <<lines, delay, control, pending, slot, access, is_mine, memoryVars, supply, cleaning>>
      /\ \A d \in Core : ~AfterCoreOf(d) /\ ~AfterCoreOf(d)'
  BY DEF ResponsePhase, CacheHandleBusResponse, cores, GoTo, AfterCoreOf
<1>2. UNCHANGED <<bus_cmd, bus_origid, bus_addr, bus_data, busy, flush_count, pending_origid,
                        pending_cmd, pending_addr, delay_in_progress, slot, access, is_mine, mem,
                        sending_flush, need_to_clean_first, words_left>>
  BY <1>1 DEF lines, delay, control, pending, memoryVars, supply, cleaning
<1>3. \A a : Suppliers(a)' = Suppliers(a)
  BY <1>2 DEF Suppliers, TransactionBlock
<1> QED
  BY <1>1, <1>2, <1>3, ResponsePosition DEF Base

LEMMA FirstWordsKeepValues ==
  ASSUME Base, NEW m, Agrees(m), NEW c \in Core, ResponsePhase(c),
         FillWord(c) \/ (~Filling(c) /\ UNCHANGED <<arrays, request>>)
  PROVE  Agrees(m)'
<1>1. UNCHANGED <<tag, state, waiting_for_bus, waiting_addr, is_write_request>>
  BY DEF FillWord, arrays, request
<1>t. dsram \in [Core -> [Line -> Word]] /\ flush_count \in Nat /\ \A a \in Addr : a \in Int
  BY TypeOKParts, MemoryTypes, ZeroInAddr DEF Base, CacheTypeOK
<1>2. /\ \A d \in Core, l \in Line :
           dsram'[d][l] = dsram[d][l] \/ (FillWord(c) /\ d = c /\ l = line(bus_addr))
      /\ FillWord(c) => dsram'[c][line(bus_addr)] = m[bus_addr]
  <2>1. CASE ~Filling(c) /\ UNCHANGED <<arrays, request>>
    BY <2>1 DEF arrays, FillWord
  <2>2. CASE FillWord(c)
    <3>1. bus_data = m[bus_addr] /\ line(bus_addr) \in Line
      BY <1>t, <2>2, ResponseFrame, TakenWord, WordOf DEF FillWord
    <3> QED
      BY <1>t, <2>2, <3>1 DEF FillWord
  <2> QED
    BY <2>1, <2>2
<1>3. FillWord(c) => /\ busy /\ pending_origid = c /\ waiting_for_bus[c] /\ bus_addr \in Addr
                     /\ get_block_offset(bus_addr) = flush_count - 1
                     /\ get_block_addr(bus_addr) = RequestedBlock
                     /\ get_index(bus_addr) = get_index(waiting_addr[c])
  BY ResponseFrame, TakenWord DEF FillWord, RequestedBlock
<1>4. RequestedBlock' = RequestedBlock
  BY <1>1, ResponseFrame DEF RequestedBlock
<1>5. \A d \in Core, a \in Addr :
        /\ Present(d, a)' = Present(d, a) /\ BeingFilled(d, get_index(a))' = BeingFilled(d, get_index(a))
        /\ Dirty(a)' = Dirty(a)
  <2> SUFFICES ASSUME NEW d \in Core, NEW a \in Addr
               PROVE  /\ Present(d, a)' = Present(d, a)
                      /\ BeingFilled(d, get_index(a))' = BeingFilled(d, get_index(a))
                      /\ Dirty(a)' = Dirty(a)
    OBVIOUS
  <2>1. \A e \in Core : Sent(e)' = Sent(e) /\ VictimBlock(e)' = VictimBlock(e)
    BY <1>1, ResponseFrame DEF Sent, VictimBlock, AccessSet, FlushPosted
  <2>2. \A e \in Core : Present(e, a)' = Present(e, a) /\ Owns(e, a)' = Owns(e, a)
    BY <1>1 DEF Present, Owns
  <2>3. \A e \in Core : Cleaned(e, a)' = Cleaned(e, a) /\ GaveUp(e, a)' = GaveUp(e, a)
    BY <1>1, <2>1, ResponseFrame DEF Cleaned, GaveUp, LastWordPosted
  <2> QED
    BY <1>1, <2>2, <2>3 DEF BeingFilled, Dirty
<1>6. \A d \in Core : Completing(d)' => Completing(d)
  BY <1>1, ResponseFrame DEF Completing, RequestMatches
<1>7. CopiesAgree(m)'
  <2> SUFFICES ASSUME NEW d \in Core, NEW a \in Addr, Present(d, a), ~BeingFilled(d, get_index(a))
               PROVE  dsram'[d][line(a)] = m[a]
    BY <1>5 DEF CopiesAgree
  <2>1. ~(FillWord(c) /\ d = c /\ line(a) = line(bus_addr))
    BY <1>3, <1>t, SameLine DEF BeingFilled
  <2>2. line(a) \in Line
    BY <1>t, WordOf
  <2> QED
    BY <1>2, <2>1, <2>2 DEF Agrees, CopiesAgree
<1>8. SuppliesAgree(m)'
  <2> SUFFICES ASSUME NEW d \in Core, NEW a \in Addr, d \in Suppliers(a) PROVE dsram'[d][line(a)] = m[a]
    BY ResponseFrame DEF SuppliesAgree
  <2>1. Supplies(d)
    BY SuppliersAre DEF Base
  <2>2. d # pending_origid
    BY <2>1 DEF Supplies, Base, ProtocolInvariant, SupplyInv, PlaceInv, SourceIsOther
  <2>3. line(a) \in Line
    BY <1>t, WordOf
  <2> QED
    BY <1>2, <1>3, <2>2, <2>3 DEF Agrees, SuppliesAgree
<1>9. ArrivedAgree(m)'
  <2> SUFFICES ASSUME NEW o \in Core, NEW a \in Addr, Arrived(o, a)' PROVE dsram'[o][line(a)] = m[a]
    BY DEF ArrivedAgree
  <2>t. line(a) \in Line /\ get_block_offset(a) \in Nat
    BY <1>t, WordOf
  <2>1. CASE o # c
    <3>1. Arrived(o, a)
      BY <1>1, <1>4, <1>6, <2>1, ResponseFrame DEF Arrived
    <3> QED
      BY <1>2, <2>1, <2>t, <3>1 DEF Agrees, ArrivedAgree
  <2>2. CASE o = c
    <3>1. /\ busy /\ pending_origid = c /\ get_block_addr(a) = RequestedBlock
          /\ get_block_offset(a) < flush_count
      BY <1>4, <2>2, ResponseFrame DEF Arrived, Completing
    <3>2. FillWord(c)
      <4>1. bus_cmd = "BUS_FLUSH" /\ waiting_for_bus[c] /\ is_mine[c]
        <5>1. flush_count > 0 /\ Snooped(c)
          BY <1>t, <2>t, <3>1 DEF Snooped
        <5> QED
          BY <3>1, <5>1 DEF Base, ProtocolInvariant, BusyInv, RequestMatches
      <4> QED
        BY <4>1 DEF Filling
    <3>3. CASE get_block_offset(a) = flush_count - 1
      <4>1. a = bus_addr
        BY <1>3, <1>t, <3>1, <3>2, <3>3, SameWord
      <4> QED
        BY <1>2, <2>2, <3>2, <4>1
    <3>4. CASE get_block_offset(a) # flush_count - 1
      <4>1. Arrived(c, a)
        BY <1>t, <2>t, <3>1, <3>4, ResponseFrame DEF Arrived
      <4>2. line(a) # line(bus_addr)
        BY <1>3, <1>t, <3>2, <3>4, SameLine
      <4> QED
        BY <1>2, <2>2, <2>t, <4>1, <4>2 DEF Agrees, ArrivedAgree
    <3> QED
      BY <3>3, <3>4
  <2> QED
    BY <2>1, <2>2
<1>10. PostedAgree(m)'
  BY ResponseFrame DEF Agrees, PostedAgree, FlushPosted
<1>11. BusAgrees(m)'
  BY <1>5, <1>6, ResponseFrame DEF Agrees, BusAgrees, OnTheBus, WordMatters, CoreFlushOnBus
<1>12. MemoryAgrees(m)'
  BY <1>5, ResponseFrame, ZeroInCore DEF Agrees, MemoryAgrees, WrittenBack, OnTheBus, CoreFlushOnBus
<1>13. PerformedAgree(m)'
  BY <1>1, ResponseFrame DEF Agrees, PerformedAgree
<1> QED
  BY <1>7, <1>8, <1>9, <1>10, <1>11, <1>12, <1>13 DEF Agrees
LEMMA FillEnds ==
  ASSUME Base, NEW m, Agrees(m), NEW c \in Core, ResponsePhase(c), FillLastWord(c)
  PROVE  /\ Completing(c) /\ ~busy /\ waiting_for_bus[c] /\ ~waiting_for_bus'[c]
         /\ ~need_to_clean_first[c] /\ ~FlushPosted(c) /\ waiting_addr[c] \in Addr
         /\ is_write_request[c] => pending_cmd = "BUS_RDX"
         /\ \A d \in Core : d # c =>
              /\ dsram'[d] = dsram[d] /\ tag'[d] = tag[d] /\ state'[d] = state[d]
              /\ waiting_for_bus'[d] = waiting_for_bus[d] /\ waiting_addr'[d] = waiting_addr[d]
         /\ \A i \in Set : IF i = get_index(waiting_addr[c])
                           THEN /\ tag'[c][i] = get_tag(waiting_addr[c])
                                /\ state'[c][i] # "I" /\ (state'[c][i] = "M" <=> is_write_request[c])
                           ELSE tag'[c][i] = tag[c][i] /\ state'[c][i] = state[c][i]
         /\ \A l \in Line : dsram'[c][l] =
              IF is_write_request[c] /\ l = line(waiting_addr[c]) THEN write_data[c]
              ELSE IF l = line(bus_addr) THEN bus_data ELSE dsram[c][l]
<1>1. Filling(c) /\ LastWordOnBus
  BY DEF FillLastWord
<1>2. /\ Completing(c) /\ waiting_for_bus[c] /\ bus_addr \in Addr
      /\ get_index(bus_addr) = get_index(waiting_addr[c])
      /\ get_tag(bus_addr) = get_tag(waiting_addr[c])
  BY <1>1, ResponseFrame, TakenWord, WordTaken DEF Base
<1>t. /\ waiting_addr[c] \in Addr /\ waiting_addr[c] \in Int /\ bus_addr \in Int
      /\ line(waiting_addr[c]) \in Line /\ line(bus_addr) \in Line /\ get_index(bus_addr) \in Set
      /\ dsram \in [Core -> [Line -> Word]] /\ tag \in [Core -> [Set -> Int]]
      /\ state \in [Core -> [Set -> MESI]] /\ waiting_for_bus \in [Core -> BOOLEAN]
      /\ waiting_addr \in [Core -> Addr] /\ get_tag(bus_addr) \in Int
  <2>1. /\ waiting_addr[c] \in Addr /\ dsram \in [Core -> [Line -> Word]]
        /\ waiting_addr \in [Core -> Addr]
    BY TypeOKParts DEF Base, CacheTypeOK
  <2> QED
    BY <1>2, <2>1, FlushTypes, WordOf, ZeroInAddr DEF Base
<1>3. ~busy /\ (is_write_request[c] => pending_cmd = "BUS_RDX")
  BY <1>2 DEF Completing, RequestMatches
<1>4. ~need_to_clean_first[c]
  BY <1>2 DEF Base, FlushInvariant, CleanInv, CleaningOf, MissesOther
<1>5. ~FlushPosted(c)
  BY <1>2, <1>3 DEF Base, FlushInvariant, PostedInv, PostedOf, MissesOther, Supplies
<1>6. line(waiting_addr[c]) = get_index(bus_addr) * BLOCK_SIZE + get_block_offset(waiting_addr[c])
  BY <1>2 DEF line
<1>7. \A d \in Core : d # c =>
              /\ dsram'[d] = dsram[d] /\ tag'[d] = tag[d] /\ state'[d] = state[d]
              /\ waiting_for_bus'[d] = waiting_for_bus[d] /\ waiting_addr'[d] = waiting_addr[d]
  BY <1>t DEF FillLastWord, SetState
<1>8. \A i \in Set : IF i = get_index(waiting_addr[c])
                           THEN /\ tag'[c][i] = get_tag(waiting_addr[c])
                                /\ state'[c][i] # "I" /\ (state'[c][i] = "M" <=> is_write_request[c])
                           ELSE tag'[c][i] = tag[c][i] /\ state'[c][i] = state[c][i]
  <2> HIDE DEF get_index, get_tag
  <2>1. tag' = [tag EXCEPT ![c][get_index(bus_addr)] = get_tag(bus_addr)]
    BY DEF FillLastWord
  <2>2. state' = [state EXCEPT ![c][get_index(bus_addr)] =
                    IF is_write_request[c] THEN "M" ELSE IF shared_Q THEN "S" ELSE "E"]
    BY DEF FillLastWord, SetState
  <2> QED
    BY <1>2, <1>t, <2>1, <2>2
<1>9. \A l \in Line : dsram'[c][l] =
              IF is_write_request[c] /\ l = line(waiting_addr[c]) THEN write_data[c]
              ELSE IF l = line(bus_addr) THEN bus_data ELSE dsram[c][l]
  <2>1. dsram' = [dsram EXCEPT ![c] =
                    IF is_write_request[c]
                    THEN [[dsram[c] EXCEPT ![line(bus_addr)] = bus_data]
                            EXCEPT ![line(waiting_addr[c])] = write_data[c]]
                    ELSE [dsram[c] EXCEPT ![line(bus_addr)] = bus_data]]
    BY <1>6 DEF FillLastWord
  <2> HIDE DEF line
  <2> QED
    BY <1>t, <2>1
<1>10. ~waiting_for_bus'[c]
  BY <1>t DEF FillLastWord
<1> QED
  BY <1>2, <1>t, <1>3, <1>4, <1>5, <1>7, <1>8, <1>9, <1>10

LEMMA FillDirties ==
  ASSUME Base, NEW m, Agrees(m), NEW c \in Core, ResponsePhase(c), FillLastWord(c), NEW a \in Addr
  PROVE  /\ \A d \in Core : d # c => Present(d, a)' = Present(d, a)
         /\ Present(c, a)' => \/ get_block_addr(a) = get_block_addr(waiting_addr[c])
                              \/ Present(c, a) /\ get_index(a) # get_index(waiting_addr[c])
         /\ IF get_block_addr(a) = get_block_addr(waiting_addr[c])
            THEN ~Dirty(a) /\ (is_write_request[c] => Dirty(a)')
            ELSE Dirty(a) => Dirty(a)'
<1>t. a \in Int /\ get_index(a) \in Set /\ waiting_addr[c] \in Int
  BY FillEnds, ZeroInAddr, IndexInSet
<1>1. \A d \in Core : d # c => Present(d, a)' = Present(d, a) /\ Owns(d, a)' = Owns(d, a)
  BY FillEnds DEF Present, Owns
<1>2. Present(c, a)' => \/ get_block_addr(a) = get_block_addr(waiting_addr[c])
                        \/ Present(c, a) /\ get_index(a) # get_index(waiting_addr[c])
  BY <1>t, FillEnds, SameBlock DEF Present
<1>3. \A d \in Core : Cleaned(d, a)' <=> Cleaned(d, a)
  <2>1. \A d \in Core : d # c => Sent(d)' = Sent(d) /\ VictimBlock(d)' = VictimBlock(d)
    BY FillEnds, ResponseFrame DEF Sent, VictimBlock, AccessSet, FlushPosted
  <2> QED
    BY <2>1, FillEnds, ResponseFrame DEF Cleaned
<1>4. \A d \in Core : GaveUp(d, a) => GaveUp(d, a)'
  BY FillEnds, ResponseFrame DEF GaveUp, LastWordPosted, FlushPosted
<1>5. ASSUME get_block_addr(a) = get_block_addr(waiting_addr[c])
      PROVE  ~Dirty(a) /\ (is_write_request[c] => Dirty(a)')
  <2>1. ~Dirty(a)
    BY <1>5, <1>t, FillEnds, CleanBlock
  <2>2. is_write_request[c] => Owns(c, a)' /\ ~Cleaned(c, a)'
    <3>1. ~Cleaned(c, a)
      BY FillEnds DEF Cleaned
    <3> QED
      BY <1>3, <1>5, <1>t, <3>1, FillEnds, SameBlock DEF Owns, Present
  <2> QED
    BY <2>1, <2>2 DEF Dirty
<1>6. ASSUME get_block_addr(a) # get_block_addr(waiting_addr[c]), Dirty(a)
      PROVE  Dirty(a)'
  <2>1. Owns(c, a) => Owns(c, a)'
    <3>1. Owns(c, a) => get_index(a) # get_index(waiting_addr[c])
      BY FillEnds DEF Owns, Base, PlaceInv, WaitingSet
    <3> QED
      BY <1>t, <3>1, FillEnds DEF Owns, Present
  <2>2. PICK d \in Core : (Owns(d, a) /\ ~Cleaned(d, a)) \/ GaveUp(d, a)
    BY <1>6 DEF Dirty
  <2> QED
    BY <1>1, <1>3, <1>4, <2>1, <2>2 DEF Dirty
<1> QED
  BY <1>1, <1>2, <1>5, <1>6

(* Nobody else has a copy, or a word on the way, of a block that the last  *)
(* word of a fill makes dirty.                                             *)
LEMMA OthersGone ==
  ASSUME Base, NEW m, Agrees(m), NEW c \in Core, ResponsePhase(c), FillLastWord(c),
         is_write_request[c], NEW d \in Core, d # c
  PROVE  /\ ~Present(d, waiting_addr[c])
         /\ FlushPosted(d) => slot[d].addr # waiting_addr[c]
<1>1. ~Present(d, waiting_addr[c])
  BY FillEnds DEF Base, ProtocolInvariant, OthersInv
<1>2. ASSUME FlushPosted(d), slot[d].addr = waiting_addr[c] PROVE FALSE
  <2>1. MissesOther(d) /\ get_block_addr(waiting_addr[c]) = VictimBlock(d)
    BY <1>2, FillEnds DEF Base, FlushInvariant, PostedInv, PostedOf, Supplies
  <2>2. waiting_addr[c] \in Int
    BY FillEnds, ZeroInAddr
  <2>3. CASE state[d][AccessSet(d)] = "M"
    BY <1>1, <2>1, <2>2, <2>3, Victim DEF Present, Base
  <2>4. CASE state[d][AccessSet(d)] # "M"
    BY <1>2, <2>1, <2>4, FillEnds DEF Base, PlaceInv, GivenUpBy, Supplies
  <2> QED
    BY <2>3, <2>4
<1> QED
  BY <1>1, <1>2
LEMMA LastWordKeepsValues ==
  ASSUME Base, NEW m, Agrees(m), NEW c \in Core, ResponsePhase(c), FillLastWord(c), NEW m2,
         \A a \in Addr : m2[a] = IF is_write_request[c] /\ a = waiting_addr[c]
                                 THEN write_data[c] ELSE m[a]
  PROVE  Agrees(m2)'
<1> DEFINE wa == waiting_addr[c]
<1>t. /\ wa \in Addr /\ wa \in Int /\ bus_addr \in Addr /\ \A a \in Addr : a \in Int /\ line(a) \in Line
  BY FillEnds, ResponseFrame, TakenWord, ZeroInAddr, WordOf DEF FillLastWord
<1>1. /\ get_block_addr(bus_addr) = get_block_addr(wa) /\ get_index(bus_addr) = get_index(wa)
      /\ bus_data = m[bus_addr] /\ get_block_offset(bus_addr) = WORDS_IN_BLOCK - 1
  BY FillEnds, ResponseFrame, TakenWord DEF FillLastWord
<1>2. \A d \in Core, a \in Addr : ~Arrived(d, a)'
  BY FillEnds, ResponseFrame DEF Arrived, Completing
<1>3. \A a \in Addr : Suppliers(a) = {} /\ Suppliers(a)' = {}
  BY FillEnds, ResponseFrame DEF Suppliers
<1>4. CopiesAgree(m2)'
  <2> SUFFICES ASSUME NEW d \in Core, NEW a \in Addr, Present(d, a)', ~BeingFilled(d, get_index(a))'
               PROVE  dsram'[d][line(a)] = m2[a]
    BY DEF CopiesAgree
  <2>1. CASE d # c
    <3>1. Present(d, a) /\ ~BeingFilled(d, get_index(a)) /\ dsram'[d] = dsram[d]
      BY <2>1, FillEnds, FillDirties DEF BeingFilled
    <3>2. ~(is_write_request[c] /\ a = wa)
      BY <2>1, <3>1, OthersGone
    <3> QED
      BY <3>1, <3>2 DEF Agrees, CopiesAgree
  <2>2. CASE d = c /\ get_block_addr(a) = get_block_addr(wa)
    <3>1. a = wa <=> line(a) = line(wa)
      BY <1>t, <2>2, SameWord, SameLine
    <3>2. a = bus_addr <=> line(a) = line(bus_addr)
      BY <1>1, <1>t, <2>2, SameWord, SameLine, SameBlock
    <3>3. a # bus_addr => dsram[c][line(a)] = m[a]
      <4> SUFFICES ASSUME a # bus_addr PROVE dsram[c][line(a)] = m[a]
        OBVIOUS
      <4>1. get_block_offset(a) \in 0 .. WORDS_IN_BLOCK - 1 /\ get_block_offset(a) # WORDS_IN_BLOCK - 1
        BY <1>1, <1>t, <2>2, SameWord, WordOf
      <4>2. Arrived(c, a)
        BY <2>2, <4>1, FillEnds, BusAssumption DEF Arrived
      <4> QED
        BY <4>2 DEF Agrees, ArrivedAgree
    <3> QED
      BY <1>1, <1>t, <2>2, <3>1, <3>2, <3>3, FillEnds
  <2>3. CASE d = c /\ get_block_addr(a) # get_block_addr(wa)
    <3>1. Present(c, a) /\ get_index(a) # get_index(wa)
      BY <2>3, FillDirties
    <3>2. ~BeingFilled(c, get_index(a)) /\ a # wa
      BY <3>1 DEF BeingFilled
    <3>3. line(a) # line(wa) /\ line(a) # line(bus_addr)
      BY <1>1, <1>t, <3>1, SameLine
    <3>4. dsram'[c][line(a)] = dsram[c][line(a)]
      BY <1>t, <3>3, FillEnds
    <3> QED
      BY <2>3, <3>1, <3>2, <3>4 DEF Agrees, CopiesAgree
  <2> QED
    BY <2>1, <2>2, <2>3
<1>5. PostedAgree(m2)'
  <2> SUFFICES ASSUME NEW g \in Agent, NEW a \in Addr, FlushPosted(g), slot[g].addr = a,
                      g # MAIN_MEMORY
               PROVE  slot[g].data = m2[a]
    BY FillEnds, ResponseFrame DEF PostedAgree, FlushPosted
  <2>1. g \in Core
    BY BusAssumption DEF Agent, Core, MAIN_MEMORY
  <2>2. ~(is_write_request[c] /\ a = wa)
    BY <2>1, FillEnds, OthersGone
  <2> QED
    BY <2>2 DEF Agrees, PostedAgree
<1>6. BusAgrees(m2)'
  <2> SUFFICES ASSUME NEW a \in Addr, a = bus_addr, ~Dirty(a)' PROVE bus_data = m2[a]
    BY ResponseFrame DEF BusAgrees, OnTheBus
  <2>1. ~is_write_request[c]
    BY <1>1, FillDirties
  <2> QED
    BY <1>1, <2>1
<1>7. MemoryAgrees(m2)'
  <2> SUFFICES ASSUME NEW a \in Addr, WrittenBack(a)' PROVE mem[a] = m2[a]
    BY ResponseFrame DEF MemoryAgrees
  <2>1. ~Dirty(a) /\ ~(is_write_request[c] /\ a = wa)
    BY FillDirties DEF WrittenBack
  <2>2. WrittenBack(a)
    BY <1>3, <2>1, ResponseFrame DEF WrittenBack, OnTheBus, CoreFlushOnBus
  <2> QED
    BY <2>1, <2>2 DEF Agrees, MemoryAgrees
<1>8. PerformedAgree(m2)'
  <2> SUFFICES ASSUME NEW d \in Core, access[d].op = "sw", is_mine[d], ~waiting_for_bus'[d]
               PROVE  m2[access[d].addr] = access[d].data
    BY ResponseFrame DEF PerformedAgree
  <2>1. access[d].addr \in Addr
    BY TypeOKParts DEF Base, CoresTypeOK, Access
  <2>2. CASE d # c
    <3>1. ~waiting_for_bus[d]
      BY <2>2, FillEnds
    <3>2. Present(d, access[d].addr)
      BY <3>1 DEF Base, ProtocolInvariant, FilledInv
    <3>3. ~(is_write_request[c] /\ access[d].addr = wa)
      BY <2>2, <3>2, OthersGone
    <3> QED
      BY <2>1, <3>1, <3>3 DEF Agrees, PerformedAgree
  <2>3. CASE d = c
    <3>1. is_write_request[c] /\ access[c].addr = wa
      BY <2>3, FillEnds DEF Base, ProtocolInvariant, AccessInv
    <3>2. write_data[c] = access[c].data
      BY <3>1, FillEnds DEF Base, PlaceInv, WaitingSet
    <3> QED
      BY <1>t, <2>3, <3>1, <3>2
  <2> QED
    BY <2>2, <2>3
<1> QED
  BY <1>2, <1>3, <1>4, <1>5, <1>6, <1>7, <1>8 DEF Agrees, SuppliesAgree, ArrivedAgree

-----------------------------------------------------------------------------
(* cache_clock: a supplier posts the next word of the block on the bus.    *)
LEMMA SentByClock ==
  ASSUME Base, NEW c \in Core, ClockPhase(c), SendBlockWord(c)
  PROVE  /\ Supplies(c) /\ Supplies(c)'
         /\ slot'[c] = [cmd |-> "BUS_FLUSH", addr |-> pending_addr,
                        data |-> dsram[c][line(pending_addr)]]
         /\ pending_addr \in Int /\ get_block_addr(pending_addr) = RequestedBlock
         /\ get_block_addr(slot'[c].addr) = RequestedBlock
<1>t. /\ WORDS_IN_BLOCK \in Nat \ {0, 1} /\ flush_count \in 0 .. WORDS_IN_BLOCK - 1
      /\ words_left_to_flush[c] \in 0 .. WORDS_IN_BLOCK /\ RequestedBlock \in Int
      /\ waiting_addr[pending_origid] \in Int
      /\ slot \in [Agent -> Request \cup {NoRequest}] /\ c \in Agent
      /\ sending_flush \in [Core -> BOOLEAN]
  BY MemoryTypes, FlushTypes DEF Base
<1>1. sending_flush[c] /\ busy /\ flush_block_addr[c] = RequestedBlock /\ pending_addr = RequestedBlock + flush_count
  BY NextWord DEF SendBlockWord, Base, ProtocolInvariant, SupplyInv, RequestedBlock
<1>2. /\ flush_count = WORDS_IN_BLOCK - words_left_to_flush[c]
      /\ flush_count > 0 => bus_origid = c
  <2>1. /\ flush_count + words_left_to_flush[c] = WORDS_IN_BLOCK
        /\ flush_count > 0 => bus_origid = c
    BY <1>1, ClockPosition DEF Base, FlushInvariant, SupplyPace
  <2> QED
    BY <1>t, <2>1
<1>3. /\ get_block_addr(RequestedBlock + flush_count) = RequestedBlock
      /\ line(pending_addr) = get_index(flush_block_addr[c]) * BLOCK_SIZE + flush_count
  <2>0. 0 \in 0 .. WORDS_IN_BLOCK - 1
    BY <1>t
  <2>1. /\ get_block_addr(RequestedBlock + flush_count) = RequestedBlock
        /\ get_block_offset(RequestedBlock + flush_count) = flush_count
        /\ get_index(RequestedBlock + flush_count) = get_index(waiting_addr[pending_origid])
    BY <1>t, WordInBlock DEF RequestedBlock
  <2>2. get_index(RequestedBlock + 0) = get_index(waiting_addr[pending_origid])
    BY <1>t, <2>0, WordInBlock DEF RequestedBlock
  <2>3. RequestedBlock + 0 = RequestedBlock
    BY <1>t
  <2> QED
    BY <1>1, <2>1, <2>2, <2>3 DEF line
<1>4. sending_flush'[c] \/ (flush_count > 0 /\ bus_origid = c)
  BY <1>1, <1>2, <1>t DEF SendBlockWord, EndSupply
<1>5. slot'[c] = [cmd |-> "BUS_FLUSH", addr |-> flush_block_addr[c] + (WORDS_IN_BLOCK - words_left_to_flush[c]),
                  data |-> dsram[c][get_index(flush_block_addr[c]) * BLOCK_SIZE
                                     + (WORDS_IN_BLOCK - words_left_to_flush[c])]]
  BY <1>t DEF SendBlockWord, BusRequest, BLOCK_SIZE
<1>6. slot'[c] = [cmd |-> "BUS_FLUSH", addr |-> pending_addr, data |-> dsram[c][line(pending_addr)]]
  BY <1>1, <1>2, <1>3, <1>5
<1>7. UNCHANGED <<busy, flush_count, bus_origid>>
  BY DEF ClockPhase, control, lines
<1>8. Supplies(c) /\ Supplies(c)'
  BY <1>1, <1>4, <1>7 DEF Supplies
<1>9. pending_addr \in Int
  BY <1>1, <1>t
<1>10. slot'[c].addr = pending_addr
  BY <1>6
<1>11. get_block_addr(pending_addr) = RequestedBlock
  BY <1>1, <1>3
<1> QED
  BY <1>6, <1>8, <1>9, <1>10, <1>11

LEMMA ClockKeepsValues ==
  ASSUME Base, TypeOK', ProtocolInvariant', NEW m, Agrees(m), NEW c \in Core, ClockPhase(c),
         WriteBackStep
  PROVE  Agrees(m)'
<1>1. /\ phase = "clock" /\ turn = c /\ phase' \in {"core", "snoop"}
      /\ UNCHANGED <<lines, delay, control, pending, arrays, is_mine, request, cleaning, memoryVars, access>>
      /\ \A d \in Core : d # c => sending_flush'[d] = sending_flush[d] /\ slot'[d] = slot[d]
      /\ slot'[MAIN_MEMORY] = slot[MAIN_MEMORY]
  <2>1. \A d \in Core : d \in Agent /\ d # MAIN_MEMORY
    BY BusAssumption DEF Core, Agent, MAIN_MEMORY
  <2>2. slot \in [Agent -> Request \cup {NoRequest}] /\ MAIN_MEMORY \in Agent
    BY MemoryTypes DEF Base
  <2>3. sending_flush \in [Core -> BOOLEAN]
    BY FlushTypes DEF Base
  <2> QED
    BY <2>1, <2>2, <2>3 DEF ClockPhase, CacheClock, SendBlockWord, EndSupply, BusRequest, GoTo, supply, cores
<1>2. UNCHANGED <<bus_cmd, bus_origid, bus_addr, bus_data, busy, flush_count, waiting_for_bus,
                  waiting_addr, is_write_request, pending_origid, pending_cmd, pending_addr, mem,
                  delay_in_progress, tag, state, dsram, need_to_clean_first, words_left>>
  BY <1>1 DEF lines, control, pending, request, memoryVars, delay, arrays, cleaning
<1>3. \A d \in Core : /\ BeforeSnoop(d)' = BeforeSnoop(d) /\ BeforeResponse(d)' = BeforeResponse(d)
                      /\ ~AfterCoreOf(d) /\ ~AfterCoreOf(d)'
  <2>1. phase' = "core" => turn' = 0
    BY DEF ClockPhase, GoTo
  <2>2. \A d \in Core : ~(0 > d)
    BY BusAssumption DEF Core
  <2>3. \A d \in Core : ~AfterCoreOf(d) /\ ~AfterCoreOf(d)'
    BY <1>1, <2>1, <2>2 DEF AfterCoreOf
  <2> QED
    BY <2>3, ClockPosition DEF Base
<1>4. ~BeforeSnoop(c)
  BY <1>1, BusAssumption DEF BeforeSnoop, Core
<1>5. SendBlockWord(c) => /\ Supplies(c) /\ Supplies(c)'
                          /\ slot'[c] = [cmd |-> "BUS_FLUSH", addr |-> pending_addr,
                                         data |-> dsram[c][line(pending_addr)]]
                          /\ pending_addr \in Int /\ get_block_addr(pending_addr) = RequestedBlock
  BY SentByClock
<1>6. ~SendBlockWord(c) => slot'[c] = slot[c] /\ sending_flush'[c] = sending_flush[c]
  BY DEF ClockPhase, CacheClock, supply
<1>7. RequestedBlock' = RequestedBlock
  BY <1>2 DEF RequestedBlock
<1>8. \A d \in Core, a \in Addr : (d \in Suppliers(a))' <=> d \in Suppliers(a)
  <2>1. \A d \in Core : Supplies(d)' <=> Supplies(d)
    BY <1>1, <1>2, <1>5, <1>6 DEF Supplies
  <2>2. \A d \in Core : \A a : d \in Suppliers(a) <=> Supplies(d) /\ get_block_addr(a) = RequestedBlock
    BY SuppliersAre DEF Base
  <2>3. \A d \in Core : \A a : (d \in Suppliers(a))' <=> Supplies(d)' /\ get_block_addr(a) = RequestedBlock
    BY <1>7, SuppliersNext
  <2> QED
    BY <2>1, <2>2, <2>3
<1>9. \A d \in Core, a \in Addr : GaveUp(d, a)' <=> GaveUp(d, a)
  <2> SUFFICES ASSUME NEW d \in Core, NEW a \in Addr PROVE GaveUp(d, a)' <=> GaveUp(d, a)
    OBVIOUS
  <2>1. CASE ~(d = c /\ SendBlockWord(c))
    <3>1. slot'[d] = slot[d]
      BY <1>1, <1>6, <2>1
    <3> QED
      BY <1>2, <1>8, <3>1 DEF GaveUp, LastWordPosted
  <2>2. CASE d = c /\ SendBlockWord(c)
    <3>1. ~GaveUp(c, a)'
      <4>1. LastWordPosted(c, a)' => a = pending_addr
        BY <1>5, <2>2 DEF LastWordPosted
      <4>2. a = pending_addr => c \in Suppliers(a)
        BY <1>5, <2>2, SuppliersAre DEF Base
      <4> QED
        BY <1>8, <4>1, <4>2 DEF GaveUp
    <3>2. ~GaveUp(c, a)
      <4> SUFFICES ASSUME GaveUp(c, a) PROVE FALSE
        OBVIOUS
      <4>1. slot'[c] = slot[c] \/ slot'[c] = NoRequest
        BY DEF WriteBackStep
      <4>2. slot[c].addr = a /\ slot'[c] = slot[c] /\ a = pending_addr
        BY <1>5, <2>2, <4>1 DEF NoRequest, GaveUp, LastWordPosted
      <4>3. c \in Suppliers(a)
        BY <1>5, <2>2, <4>2, SuppliersAre DEF Base
      <4> QED
        BY <4>3 DEF GaveUp
    <3> QED
      BY <2>2, <3>1, <3>2
  <2> QED
    BY <2>1, <2>2
<1>10. \A a \in Addr : Dirty(a)' <=> Dirty(a)
  <2>1. \A d \in Core : Sent(d)' = Sent(d)
    BY <1>1, <1>2, <1>3, <1>4 DEF Sent, FlushPosted
  <2>2. \A d \in Core, a \in Addr : (Owns(d, a) /\ ~Cleaned(d, a))' <=> Owns(d, a) /\ ~Cleaned(d, a)
    BY <1>1, <1>2, <2>1 DEF Owns, Present, Cleaned, VictimBlock, AccessSet
  <2> QED
    BY <1>9, <2>2 DEF Dirty
<1>11. PostedAgree(m)'
  <2> SUFFICES ASSUME NEW g \in Agent, NEW a \in Addr, FlushPosted(g)', slot'[g].addr = a,
                      g = MAIN_MEMORY => busy
               PROVE  slot'[g].data = m[a]
    BY <1>2 DEF PostedAgree
  <2>1. CASE ~(g = c /\ SendBlockWord(c))
    <3>1. slot'[g] = slot[g]
      BY <1>1, <1>6, <2>1, BusAssumption DEF Agent, Core, MAIN_MEMORY
    <3> QED
      BY <3>1 DEF Agrees, PostedAgree, FlushPosted
  <2>2. CASE g = c /\ SendBlockWord(c)
    <3>1. a = pending_addr /\ slot'[g].data = dsram[c][line(a)]
      BY <1>5, <2>2
    <3>2. c \in Suppliers(a)
      BY <1>5, <2>2, <3>1, SuppliersAre DEF Base
    <3> QED
      BY <3>1, <3>2 DEF Agrees, SuppliesAgree
  <2> QED
    BY <2>1, <2>2
<1>12. \A d \in Core, a \in Addr : /\ Present(d, a)' = Present(d, a)
                                   /\ BeingFilled(d, get_index(a))' = BeingFilled(d, get_index(a))
                                   /\ Arrived(d, a)' => Arrived(d, a)
                                   /\ Completing(d)' => Completing(d)
  BY <1>1, <1>2, <1>3, <1>7 DEF Present, BeingFilled, Arrived, Completing, RequestMatches
<1>13. BusAgrees(m)'
  BY <1>2, <1>10, <1>12 DEF Agrees, BusAgrees, OnTheBus, WordMatters, CoreFlushOnBus
<1>14. MemoryAgrees(m)'
  <2> SUFFICES ASSUME NEW a \in Addr, WrittenBack(a)' PROVE WrittenBack(a)
    BY <1>2 DEF Agrees, MemoryAgrees
  <2>1. Suppliers(a)' = {} => Suppliers(a) = {}
    BY <1>8 DEF Suppliers
  <2> QED
    BY <1>1, <1>2, <1>10, <2>1 DEF WrittenBack, OnTheBus, CoreFlushOnBus
<1>15. PerformedAgree(m)'
  BY <1>1, <1>2 DEF Agrees, PerformedAgree
<1> QED
  BY <1>2, <1>8, <1>11, <1>12, <1>13, <1>14, <1>15, AgreesStays
-----------------------------------------------------------------------------
(* core_memory.                                                            *)
LEMMA CoreFrame ==
  ASSUME Base, NEW c \in Core, CorePhase(c)
  PROVE  /\ phase = "core" /\ phase' # "bus"
         /\ UNCHANGED <<bus_cmd, bus_origid, bus_addr, bus_data, busy, flush_count, pending_origid,
                        pending_cmd, pending_addr, mem, tag, sending_flush>>
         /\ \A g \in Agent : g # c => slot'[g] = slot[g]
         /\ \A d \in Core : d # c =>
              /\ state'[d] = state[d] /\ dsram'[d] = dsram[d] /\ is_mine'[d] = is_mine[d]
              /\ waiting_for_bus'[d] = waiting_for_bus[d] /\ waiting_addr'[d] = waiting_addr[d]
              /\ access'[d] = access[d] /\ need_to_clean_first'[d] = need_to_clean_first[d]
              /\ words_left'[d] = words_left[d]
         /\ ~AfterCoreOf(c) /\ AfterCoreOf(c)'
         /\ \A d \in Core : /\ ~BeforeSnoop(d) /\ ~BeforeSnoop(d)' /\ Snooped(d)
                            /\ ~Completing(d) /\ ~Completing(d)'
                            /\ d # c => AfterCoreOf(d)' = AfterCoreOf(d)
         /\ busy => RequestedBlock' = RequestedBlock
<1>t. /\ slot \in [Agent -> Request \cup {NoRequest}] /\ c \in Agent
      /\ TypeOK
  BY MemoryTypes DEF Base
<1>1. /\ phase = "core" /\ phase' \in {"core", "edge"}
      /\ UNCHANGED <<lines, delay, control, pending, memoryVars, tag, supply>>
      /\ \A g \in Agent : g # c => slot'[g] = slot[g]
      /\ \A d \in Core : d # c \/ Blocked(c) =>
           /\ waiting_for_bus'[d] = waiting_for_bus[d] /\ waiting_addr'[d] = waiting_addr[d]
           /\ state'[d] = state[d]
  BY CoreAccessFrame, CoreTurn DEF Base
<1>2. /\ UNCHANGED <<bus_cmd, bus_origid, bus_addr, bus_data, busy, flush_count, pending_origid,
                        pending_cmd, pending_addr, mem, tag, sending_flush>>
  BY <1>1 DEF lines, delay, control, pending, memoryVars, supply
<1>3. \A d \in Core : d # c =>
              /\ dsram'[d] = dsram[d] /\ is_mine'[d] = is_mine[d]
              /\ access'[d] = access[d] /\ need_to_clean_first'[d] = need_to_clean_first[d]
              /\ words_left'[d] = words_left[d]
  <2> SUFFICES ASSUME NEW d \in Core, d # c
               PROVE  /\ dsram'[d] = dsram[d] /\ is_mine'[d] = is_mine[d]
                      /\ access'[d] = access[d] /\ need_to_clean_first'[d] = need_to_clean_first[d]
                      /\ words_left'[d] = words_left[d]
    OBVIOUS
  <2>t. /\ dsram \in [Core -> [Line -> Word]] /\ is_mine \in [Core -> BOOLEAN] /\ access \in [Core -> Access]
        /\ need_to_clean_first \in [Core -> BOOLEAN] /\ words_left \in [Core -> Int]
    BY <1>t, TypeOKParts DEF CacheTypeOK, CoresTypeOK
  <2>1. CASE NoMemoryAccess(c)
    BY <2>1 DEF NoMemoryAccess, cacheVars, arrays, cleaning
  <2>2. ASSUME NEW r, NEW ready \in BOOLEAN, Offer(c, r, ready)
        PROVE  /\ dsram'[d] = dsram[d] /\ is_mine'[d] = is_mine[d]
               /\ access'[d] = access[d] /\ need_to_clean_first'[d] = need_to_clean_first[d]
               /\ words_left'[d] = words_left[d]
    <3>1. access'[d] = access[d]
      BY <2>t, <2>2 DEF Offer
    <3>2. CASE CacheRead(c, r.addr, ready)
      BY <2>t, <3>1, <3>2 DEF CacheRead, ReadHit, ReadMiss, Refuse, StartCleaning, ContinueCleaning,
         RequestBlock, cacheVars, arrays, cleaning
    <3>3. CASE CacheWrite(c, r.addr, r.data, ready)
      BY <2>t, <3>1, <3>3 DEF CacheWrite, WriteHit, WriteUpgrade, WriteMiss, Refuse, StartCleaning,
         ContinueCleaning, RequestBlock, cacheVars, arrays, cleaning
    <3> QED
      BY <2>2, <3>2, <3>3 DEF Offer
  <2> QED
    BY <2>1, <2>2 DEF CorePhase, MemoryAccess
<1>4. busy => RequestedBlock' = RequestedBlock
  <2>1. busy => waiting_for_bus[pending_origid] /\ pending_origid \in Core
    BY MemoryTypes DEF Base, ProtocolInvariant, BusyInv, RequestMatches
  <2> QED
    BY <1>1, <1>2, <2>1 DEF RequestedBlock, Blocked
<1> QED
  BY <1>1, <1>2, <1>3, <1>4, CoreTurn, CorePosition DEF Base
LEMMA CoreOthers ==
  ASSUME Base, NEW c \in Core, CorePhase(c), NEW a \in Addr
  PROVE  /\ Suppliers(a)' = Suppliers(a) /\ OnTheBus(a)' = OnTheBus(a)
         /\ WordMatters' = WordMatters
         /\ \A o \in Core : Arrived(o, a)' => Arrived(o, a)
         /\ \A d \in Core : d # c =>
              /\ Present(d, a)' = Present(d, a)
              /\ BeingFilled(d, get_index(a))' = BeingFilled(d, get_index(a))
              /\ ((Owns(d, a) /\ ~Cleaned(d, a)) \/ GaveUp(d, a))
                   => ((Owns(d, a) /\ ~Cleaned(d, a)) \/ GaveUp(d, a))'
         /\ (WrittenBack(a)' /\ ~Dirty(a)) => WrittenBack(a)
<1>1. Suppliers(a)' = Suppliers(a) /\ OnTheBus(a)' = OnTheBus(a) /\ WordMatters' = WordMatters
  BY CoreFrame DEF Suppliers, TransactionBlock, OnTheBus, WordMatters, CoreFlushOnBus
<1>2. \A o \in Core : Arrived(o, a)' => Arrived(o, a)
  <2>1. phase' \in {"core", "edge"}
    BY CoreTurn DEF Base
  <2>2. \A o \in Core : ~BeforeResponse(o) /\ ~BeforeResponse(o)'
    BY <2>1, CoreFrame DEF BeforeResponse, InCachePhases
  <2> QED
    BY <2>2, CoreFrame DEF Arrived
<1>3. ASSUME NEW d \in Core, d # c
      PROVE  /\ Present(d, a)' = Present(d, a)
             /\ BeingFilled(d, get_index(a))' = BeingFilled(d, get_index(a))
             /\ ((Owns(d, a) /\ ~Cleaned(d, a)) \/ GaveUp(d, a))
                   => ((Owns(d, a) /\ ~Cleaned(d, a)) \/ GaveUp(d, a))'
  <2>1. slot'[d] = slot[d]
    BY <1>3, CoreFrame, CoreIsAgent
  <2>2. Sent(d)' = Sent(d) /\ VictimBlock(d)' = VictimBlock(d)
    BY <1>3, <2>1, CoreFrame DEF Sent, FlushPosted, VictimBlock, AccessSet
  <2>3. Cleaned(d, a)' = Cleaned(d, a)
    BY <1>3, <2>2, CoreFrame DEF Cleaned
  <2>4. GaveUp(d, a)' = GaveUp(d, a)
    BY <1>1, <1>3, <2>1, CoreFrame DEF GaveUp, LastWordPosted
  <2>5. Present(d, a)' = Present(d, a) /\ Owns(d, a)' = Owns(d, a)
        /\ BeingFilled(d, get_index(a))' = BeingFilled(d, get_index(a))
    BY <1>3, CoreFrame DEF Present, Owns, BeingFilled
  <2> QED
    BY <2>3, <2>4, <2>5
<1>4. (WrittenBack(a)' /\ ~Dirty(a)) => WrittenBack(a)
  BY <1>1, CoreFrame DEF WrittenBack, CoreFlushOnBus
<1> QED
  BY <1>1, <1>2, <1>3, <1>4

LEMMA CoreStays ==
  ASSUME Base, NEW m, Agrees(m), NEW c \in Core, CorePhase(c), dsram' = dsram,
         \A a \in Addr : /\ Dirty(a) => Dirty(a)'
                         /\ Present(c, a)' => Present(c, a)
                         /\ (slot'[c].cmd = "BUS_FLUSH" /\ slot'[c].addr = a) => slot'[c].data = m[a],
         waiting_for_bus[c] => waiting_for_bus'[c] /\ waiting_addr'[c] = waiting_addr[c],
         (access'[c].op = "sw" /\ is_mine'[c] /\ ~waiting_for_bus'[c])
           => access[c].op = "sw" /\ is_mine[c] /\ ~waiting_for_bus[c] /\ access'[c] = access[c]
  PROVE  Agrees(m)'
<1>1. \A d \in Core, a \in Addr : (Present(d, a) /\ ~BeingFilled(d, get_index(a)))'
                                       => Present(d, a) /\ ~BeingFilled(d, get_index(a))
  <2>1. \A d \in Core, a \in Addr : d # c => Present(d, a)' = Present(d, a)
                           /\ BeingFilled(d, get_index(a))' = BeingFilled(d, get_index(a))
    BY CoreOthers
  <2>2. \A a \in Addr : BeingFilled(c, get_index(a)) => BeingFilled(c, get_index(a))'
    BY DEF BeingFilled
  <2> QED
    BY <2>1, <2>2
<1>2. \A d \in Core, a \in Addr : (d \in Suppliers(a))' => d \in Suppliers(a)
  BY CoreOthers
<1>3. \A o \in Core, a \in Addr : Arrived(o, a)' => Arrived(o, a)
  BY CoreOthers
<1>4. PostedAgree(m)'
  <2> SUFFICES ASSUME NEW g \in Agent, NEW a \in Addr, FlushPosted(g)', slot'[g].addr = a,
                      g = MAIN_MEMORY => busy'
               PROVE  slot'[g].data = m[a]
    BY DEF PostedAgree
  <2>1. g = c => slot'[g].data = m[a]
    BY DEF FlushPosted
  <2>2. g # c => slot'[g].data = m[a]
    BY CoreFrame DEF Agrees, PostedAgree, FlushPosted
  <2> QED
    BY <2>1, <2>2
<1>5. BusAgrees(m)'
  <2> SUFFICES ASSUME NEW a \in Addr, OnTheBus(a)', WordMatters', ~Dirty(a)' PROVE bus_data' = m[a]
    BY DEF BusAgrees
  <2>1. OnTheBus(a) /\ WordMatters /\ ~Dirty(a)
    BY CoreOthers
  <2> QED
    BY <2>1, CoreFrame DEF Agrees, BusAgrees
<1>6. MemoryAgrees(m)'
  <2> SUFFICES ASSUME NEW a \in Addr, WrittenBack(a)' PROVE mem'[a] = m[a]
    BY DEF MemoryAgrees
  <2>1. ~Dirty(a)
    BY DEF WrittenBack
  <2>2. WrittenBack(a)
    BY <2>1, CoreOthers
  <2> QED
    BY <2>2, CoreFrame DEF Agrees, MemoryAgrees
<1>7. PerformedAgree(m)'
  <2> SUFFICES ASSUME NEW d \in Core, (access[d].op = "sw" /\ is_mine[d] /\ ~waiting_for_bus[d])'
               PROVE  m[access'[d].addr] = access'[d].data
    BY DEF PerformedAgree
  <2>1. access[d].op = "sw" /\ is_mine[d] /\ ~waiting_for_bus[d] /\ access'[d] = access[d]
    BY CoreFrame
  <2> QED
    BY <2>1 DEF Agrees, PerformedAgree
<1> QED
  BY <1>1, <1>2, <1>3, <1>4, <1>5, <1>6, <1>7, AgreesStays

LEMMA QuietKeepsValues ==
  ASSUME Base, NEW m, Agrees(m), NEW c \in Core, CorePhase(c), QuietStep(c)
  PROVE  Agrees(m)'
<1>1. UNCHANGED <<tag, state, dsram, is_mine, waiting_for_bus, waiting_addr, need_to_clean_first,
                  words_left, slot>>
  BY DEF QuietStep, cacheVars, arrays, request, cleaning
<1>2. access[c] # NoAccess => Blocked(c) /\ access'[c] = access[c]
  BY TypeOKParts DEF QuietStep, Offered, Base, CoresTypeOK
<1>3. \A a \in Addr : Dirty(a) => Dirty(a)'
  <2> SUFFICES ASSUME NEW a \in Addr, Dirty(a) PROVE Dirty(a)'
    OBVIOUS
  <2>1. GaveUp(c, a) => GaveUp(c, a)'
    BY <1>1, CoreOthers DEF GaveUp, LastWordPosted
  <2>2. ASSUME Owns(c, a), ~Cleaned(c, a) PROVE Owns(c, a)' /\ ~Cleaned(c, a)'
    <3>1. Owns(c, a)'
      BY <1>1, <2>2 DEF Owns, Present
    <3>2. ASSUME Cleaned(c, a)' PROVE FALSE
      <4>1. need_to_clean_first[c] /\ MissesOther(c)
        BY <1>1, <3>2 DEF Cleaned, Base, FlushInvariant, CleanInv, CleaningOf
      <4>2. access'[c] = access[c] /\ sending_flush[c]
        BY <1>2, <4>1 DEF MissesOther, Blocked
      <4>3. get_block_addr(a) = VictimBlock(c)
        BY <1>1, <3>2, <4>2 DEF Cleaned, VictimBlock, AccessSet
      <4>4. state[c][AccessSet(c)] = "M"
        BY <2>2, <4>3, Victim, ZeroInAddr DEF Owns, Base
      <4>5. ~Supplies(c)
        BY <4>1, <4>4, CleaningWaits, CoreFrame DEF Base
      <4> QED
        BY <4>2, <4>5 DEF Supplies, Base, ProtocolInvariant, SupplyInv
    <3> QED
      BY <3>1, <3>2
  <2> QED
    BY <2>1, <2>2, CoreOthers DEF Dirty
<1>4. \A a \in Addr : /\ Present(c, a)' => Present(c, a)
                      /\ (slot'[c].cmd = "BUS_FLUSH" /\ slot'[c].addr = a) => slot'[c].data = m[a]
  <2>1. c \in Agent /\ c # MAIN_MEMORY
    BY CoreIsAgent, MemoryTypes DEF Base
  <2> QED
    BY <1>1, <2>1 DEF Present, Agrees, PostedAgree, FlushPosted
<1>5. (is_mine[c] /\ ~waiting_for_bus[c]) => access[c] # NoAccess
  BY DEF Base, ProtocolInvariant, FilledInv
<1> QED
  BY <1>1, <1>2, <1>3, <1>4, <1>5, CoreStays
(* A hit: the core holds the block, and has nothing to clean or posted.    *)
LEMMA HitFrame ==
  ASSUME Base, NEW c \in Core, CorePhase(c), NEW r \in Offered(c), HitStep(c, r)
  PROVE  /\ r.addr \in Addr /\ r \in AccessOf(c) /\ ~waiting_for_bus[c] /\ ~sending_flush[c]
         /\ Present(c, r.addr)
         /\ ~MissesOther(c) /\ ~need_to_clean_first[c] /\ need_to_clean_first' = need_to_clean_first
         /\ UNCHANGED <<tag, waiting_for_bus, waiting_addr, slot>>
         /\ access'[c] = NoAccess /\ ~is_mine'[c]
         /\ \A a \in Addr : ~GaveUp(c, a) /\ ~Cleaned(c, a) /\ ~Cleaned(c, a)'
<1>1. r.addr \in Addr /\ r \in AccessOf(c) /\ (access[c] # NoAccess => r = access[c])
  BY StoreAddress DEF Offered, Base
<1>2. /\ ~Blocked(c) /\ Present(c, r.addr)
      /\ UNCHANGED <<tag, waiting_for_bus, waiting_addr, slot, need_to_clean_first>> /\ ~is_mine'[c]
  BY TypeOKParts DEF HitStep, ReadHit, WriteHit, arrays, request, cleaning, Base, CacheTypeOK
<1>3. ~MissesOther(c)
  BY <1>1, <1>2 DEF MissesOther, AccessSet, Present
<1>4. ~need_to_clean_first[c]
  BY <1>3 DEF Base, FlushInvariant, CleanInv, CleaningOf
<1>5. access'[c] = NoAccess
  BY TypeOKParts DEF HitStep, Base, CoresTypeOK
<1>6. \A a \in Addr : ~GaveUp(c, a)
  BY <1>3, GaveUpFacts, ZeroInAddr
<1> QED
  BY <1>1, <1>2, <1>3, <1>4, <1>5, <1>6 DEF Blocked, Cleaned

LEMMA LoadKeepsValues ==
  ASSUME Base, NEW m, Agrees(m), NEW c \in Core, CorePhase(c), NEW r \in Offered(c), HitStep(c, r),
         r.op = "lw"
  PROVE  Agrees(m)' /\ dsram[c][line(r.addr)] = m[r.addr]
<1>1. UNCHANGED <<state, dsram>>
  BY DEF HitStep, ReadHit, arrays
<1>2. \A a \in Addr : Dirty(a) => Dirty(a)'
  <2> SUFFICES ASSUME NEW a \in Addr, Dirty(a) PROVE Dirty(a)'
    OBVIOUS
  <2>1. Owns(c, a) => Owns(c, a)'
    BY <1>1, HitFrame DEF Owns, Present
  <2> QED
    BY <2>1, HitFrame, CoreOthers DEF Dirty
<1>3. \A a \in Addr : /\ Present(c, a)' => Present(c, a)
                      /\ (slot'[c].cmd = "BUS_FLUSH" /\ slot'[c].addr = a) => slot'[c].data = m[a]
  <2>1. c \in Agent /\ c # MAIN_MEMORY
    BY CoreIsAgent, MemoryTypes DEF Base
  <2> QED
    BY <1>1, <2>1, HitFrame DEF Present, Agrees, PostedAgree, FlushPosted
<1>4. Agrees(m)'
  BY <1>1, <1>2, <1>3, HitFrame, CoreStays
<1>5. dsram[c][line(r.addr)] = m[r.addr]
  BY HitFrame DEF Agrees, CopiesAgree, BeingFilled
<1> QED
  BY <1>4, <1>5

(* A store that hits a Modified or Exclusive copy: no other copy, no word  *)
(* on the way.                                                             *)
LEMMA StoreIsAlone ==
  ASSUME Base, NEW c \in Core, CorePhase(c), NEW r \in Offered(c), HitStep(c, r), r.op = "sw"
  PROVE  /\ \A d \in Core : d # c => ~Present(d, r.addr)
         /\ busy => RequestedBlock # get_block_addr(r.addr)
         /\ \A g \in Agent : FlushPosted(g) => slot[g].addr # r.addr
<1> DEFINE i == get_index(r.addr)
<1>t. r.addr \in Int /\ i \in Set /\ state \in [Core -> [Set -> MESI]]
  BY HitFrame, ZeroInAddr, IndexInSet, FlushTypes DEF Base
<1>1. state[c][i] \in {"M", "E"}
  BY <1>t DEF HitStep, WriteHit, Present, MESI
<1>2. \A d \in Core : d # c => ~Present(d, r.addr)
  BY <1>1, <1>t, HitFrame DEF Present, Base, ProtocolInvariant, SingleWriter
<1>3. ASSUME busy, RequestedBlock = get_block_addr(r.addr) PROVE FALSE
  <2>1. /\ pending_origid \in Core /\ waiting_addr[pending_origid] \in Int
        /\ waiting_for_bus[pending_origid]
    BY <1>3, MemoryTypes, FlushTypes DEF Base, ProtocolInvariant, BusyInv, RequestMatches
  <2>2. c # pending_origid
    BY <2>1, HitFrame
  <2>3. get_index(waiting_addr[pending_origid]) = i /\ Present(c, waiting_addr[pending_origid])
    BY <1>3, <1>t, <2>1, HitFrame, SameBlock DEF Present, RequestedBlock
  <2>4. state[c][i] = "S"
    <3>1. Snooped(c)
      BY CoreFrame
    <3>2. OthersInv
      BY DEF Base, ProtocolInvariant
    <3> QED
      BY <1>3, <2>1, <2>2, <2>3, <3>1, <3>2 DEF OthersInv
  <2> QED
    BY <1>1, <2>4
<1>4. ASSUME NEW g \in Agent, FlushPosted(g), slot[g].addr = r.addr PROVE FALSE
  <2>1. g \in Core
    <3>1. g # MAIN_MEMORY
      BY <1>4, CoreFrame DEF Base, FlushInvariant, MemoryWordInv, AtStart
    <3> QED
      BY <3>1, BusAssumption DEF Agent, Core, MAIN_MEMORY
  <2>2. MissesOther(g) /\ get_block_addr(r.addr) = VictimBlock(g)
    BY <1>3, <1>4, <2>1 DEF Base, FlushInvariant, PostedInv, PostedOf, Supplies
  <2>3. g # c
    BY <2>2, HitFrame
  <2>4. state[g][AccessSet(g)] # "M"
    BY <1>2, <1>t, <2>1, <2>2, <2>3, Victim DEF Present, Base
  <2> QED
    BY <1>3, <1>4, <2>1, <2>4, HitFrame DEF Base, PlaceInv, GivenUpBy, Supplies
<1> QED
  BY <1>2, <1>3, <1>4

LEMMA StoreKeepsValues ==
  ASSUME Base, NEW m, Agrees(m), NEW c \in Core, CorePhase(c), NEW r \in Offered(c), HitStep(c, r),
         r.op = "sw", NEW m2, \A a \in Addr : m2[a] = IF a = r.addr THEN r.data ELSE m[a]
  PROVE  Agrees(m2)'
<1> DEFINE i == get_index(r.addr)
<1>t. /\ r.addr \in Int /\ i \in Set /\ state \in [Core -> [Set -> MESI]]
      /\ dsram \in [Core -> [Line -> Word]] /\ line(r.addr) \in Line
      /\ \A a \in Addr : a \in Int /\ line(a) \in Line /\ get_index(a) \in Set
  BY HitFrame, ZeroInAddr, WordOf, TypeOKParts DEF Base, CacheTypeOK
<1>1. /\ state[c][i] # "I"
      /\ \A j \in Set : state'[c][j] = IF j = i THEN "M" ELSE state[c][j]
      /\ \A l \in Line : dsram'[c][l] = IF l = line(r.addr) THEN r.data ELSE dsram[c][l]
  <2>1. /\ state' = [state EXCEPT ![c][i] = "M"]
        /\ dsram' = [dsram EXCEPT ![c][line(r.addr)] = r.data]
        /\ state[c][i] # "I"
    BY DEF HitStep, WriteHit, SetState, Present
  <2> HIDE DEF i, line
  <2> QED
    BY <1>t, <2>1
<1>2. \A a \in Addr : (Dirty(a) => Dirty(a)') /\ (a = r.addr => Dirty(a)')
  <2> SUFFICES ASSUME NEW a \in Addr PROVE (Dirty(a) => Dirty(a)') /\ (a = r.addr => Dirty(a)')
    OBVIOUS
  <2>1. Owns(c, a) \/ a = r.addr => Owns(c, a)'
    BY <1>1, <1>t, HitFrame DEF Owns, Present
  <2>2. ~GaveUp(c, a) /\ ~Cleaned(c, a)'
    BY HitFrame
  <2>3. \A d \in Core : d # c => (((Owns(d, a) /\ ~Cleaned(d, a)) \/ GaveUp(d, a))
                   => ((Owns(d, a) /\ ~Cleaned(d, a)) \/ GaveUp(d, a))')
    BY CoreOthers
  <2>4. a = r.addr => Dirty(a)'
    BY <2>1, <2>2 DEF Dirty
  <2>5. ASSUME Dirty(a) PROVE Dirty(a)'
    <3>1. PICK d \in Core : (Owns(d, a) /\ ~Cleaned(d, a)) \/ GaveUp(d, a)
      BY <2>5 DEF Dirty
    <3>2. ((Owns(d, a) /\ ~Cleaned(d, a)) \/ GaveUp(d, a))'
      BY <2>1, <2>2, <2>3, <3>1
    <3> QED
      BY <3>2 DEF Dirty
  <2> QED
    BY <2>4, <2>5
<1>3. CopiesAgree(m2)'
  <2> SUFFICES ASSUME NEW d \in Core, NEW a \in Addr, Present(d, a)', ~BeingFilled(d, get_index(a))'
               PROVE  dsram'[d][line(a)] = m2[a]
    BY DEF CopiesAgree
  <2>1. CASE d # c
    <3>1. Present(d, a) /\ ~BeingFilled(d, get_index(a)) /\ dsram'[d] = dsram[d]
      BY <2>1, CoreOthers, CoreFrame
    <3> QED
      BY <2>1, <3>1, StoreIsAlone DEF Agrees, CopiesAgree
  <2>2. CASE d = c
    <3>1. Present(c, a) /\ ~BeingFilled(c, get_index(a))
      BY <1>1, <1>t, <2>2, HitFrame DEF Present, BeingFilled
    <3>2. line(a) = line(r.addr) => a = r.addr
      BY <1>t, <3>1, HitFrame, SameLine, SameWord DEF Present
    <3> QED
      BY <1>1, <1>t, <2>2, <3>1, <3>2 DEF Agrees, CopiesAgree
  <2> QED
    BY <2>1, <2>2
<1>4. SuppliesAgree(m2)'
  <2> SUFFICES ASSUME NEW d \in Core, NEW a \in Addr, d \in Suppliers(a) PROVE dsram'[d][line(a)] = m2[a]
    BY CoreOthers DEF SuppliesAgree
  <2>1. Supplies(d) /\ get_block_addr(a) = RequestedBlock /\ dsram[d][line(a)] = m[a]
    BY SuppliersAre DEF Base, Agrees, SuppliesAgree
  <2>2. a # r.addr
    BY <2>1, StoreIsAlone DEF Supplies
  <2>3. d = c => line(a) # line(r.addr)
    <3> SUFFICES ASSUME d = c, line(a) = line(r.addr) PROVE FALSE
      OBVIOUS
    <3>1. waiting_addr[pending_origid] \in Int
      BY MemoryTypes, FlushTypes DEF Base
    <3>2. /\ get_index(a) = get_index(waiting_addr[pending_origid])
          /\ get_tag(a) = get_tag(waiting_addr[pending_origid])
      BY <1>t, <2>1, <3>1, SameBlock DEF RequestedBlock
    <3>3. tag[c][get_index(a)] = get_tag(a)
      BY <2>1, <3>2 DEF Base, SuppliedInPlace
    <3>4. get_tag(a) = get_tag(r.addr)
      BY <1>t, <3>3, SameLine, HitFrame DEF Present
    <3> QED
      BY <1>t, <2>2, <3>4, SameWord
  <2> QED
    BY <1>1, <1>t, <2>1, <2>2, <2>3, CoreFrame
<1>5. PostedAgree(m2)'
  BY HitFrame, StoreIsAlone, CoreFrame DEF Agrees, PostedAgree, FlushPosted
<1>6. BusAgrees(m2)'
  <2> SUFFICES ASSUME NEW a \in Addr, OnTheBus(a)', WordMatters', ~Dirty(a)' PROVE bus_data' = m2[a]
    BY DEF BusAgrees
  <2>1. OnTheBus(a) /\ WordMatters /\ ~Dirty(a) /\ a # r.addr
    BY <1>2, CoreOthers
  <2> QED
    BY <2>1, CoreFrame DEF Agrees, BusAgrees
<1>7. ArrivedAgree(m2)'
  <2> SUFFICES ASSUME NEW o \in Core, NEW a \in Addr, Arrived(o, a) PROVE dsram'[o][line(a)] = m2[a]
    BY CoreOthers DEF ArrivedAgree
  <2>1. busy /\ pending_origid = o /\ get_block_addr(a) = RequestedBlock
    BY CoreFrame DEF Arrived
  <2>2. o # c
    BY <2>1, HitFrame DEF Base, ProtocolInvariant, BusyInv, RequestMatches
  <2>3. dsram'[o] = dsram[o] /\ a # r.addr
    BY <2>1, <2>2, CoreFrame, StoreIsAlone
  <2>4. dsram[o][line(a)] = m[a]
    BY DEF Agrees, ArrivedAgree
  <2> QED
    BY <2>3, <2>4
<1>8. MemoryAgrees(m2)'
  <2> SUFFICES ASSUME NEW a \in Addr, WrittenBack(a)' PROVE mem'[a] = m2[a]
    BY DEF MemoryAgrees
  <2>1. ~Dirty(a) /\ a # r.addr
    BY <1>2 DEF WrittenBack
  <2>2. WrittenBack(a)
    BY <2>1, CoreOthers
  <2> QED
    BY <2>1, <2>2, CoreFrame DEF Agrees, MemoryAgrees
<1>9. PerformedAgree(m2)'
  <2> SUFFICES ASSUME NEW d \in Core, (access[d].op = "sw" /\ is_mine[d] /\ ~waiting_for_bus[d])'
               PROVE  m2[access'[d].addr] = access'[d].data
    BY DEF PerformedAgree
  <2>1. d # c
    BY HitFrame
  <2>2. access[d].op = "sw" /\ is_mine[d] /\ ~waiting_for_bus[d] /\ access'[d] = access[d]
    BY <2>1, CoreFrame
  <2>3. access[d].addr \in Addr /\ Present(d, access[d].addr)
    BY <2>2, TypeOKParts DEF Base, CoresTypeOK, Access, ProtocolInvariant, FilledInv
  <2> QED
    BY <2>1, <2>2, <2>3, StoreIsAlone DEF Agrees, PerformedAgree
<1> QED
  BY <1>3, <1>4, <1>5, <1>6, <1>7, <1>8, <1>9 DEF Agrees
(* A word of the set being cleaned is posted.                              *)
LEMMA CleanWordIs ==
  ASSUME Base, NEW c \in Core, CorePhase(c), NEW r \in Offered(c), CleanStep(c, r)
  PROVE  /\ r.addr \in Addr /\ r \in AccessOf(c) /\ (access[c] # NoAccess => r = access[c])
         /\ access'[c] = r /\ ~waiting_for_bus[c] /\ ~sending_flush[c]
         /\ UNCHANGED <<tag, dsram, is_mine, waiting_for_bus, waiting_addr>>
         /\ AccessSet(c)' = get_index(r.addr) /\ VictimBlock(c)' = BlockOf(tag[c][get_index(r.addr)], get_index(r.addr))
         /\ \E k \in 0 .. WORDS_IN_BLOCK - 1 :
              /\ slot'[c] = [cmd |-> "BUS_FLUSH", addr |-> VictimBlock(c)' + k,
                             data |-> dsram[c][get_index(r.addr) * BLOCK_SIZE + k]]
              /\ \/ /\ ~need_to_clean_first[c] /\ state[c][get_index(r.addr)] = "M"
                    /\ state' = state /\ k = 0 /\ words_left'[c] = 1
                 \/ /\ need_to_clean_first[c] /\ r = access[c] /\ k = words_left[c]
                    /\ IF k = WORDS_IN_BLOCK - 1
                       THEN /\ ~need_to_clean_first'[c]
                            /\ state' = state \/ SetState(c, r.addr, "I")
                       ELSE state' = state /\ words_left'[c] = k + 1
<1> DEFINE i == get_index(r.addr)
<1>1. r.addr \in Addr /\ r \in AccessOf(c) /\ (access[c] # NoAccess => r = access[c])
  BY StoreAddress DEF Offered, Base
<1>t. /\ r.addr \in Int /\ i \in Set /\ WORDS_IN_BLOCK \in Nat \ {0, 1} /\ c \in Agent
      /\ slot \in [Agent -> Request \cup {NoRequest}] /\ access \in [Core -> Access]
      /\ need_to_clean_first \in [Core -> BOOLEAN] /\ words_left \in [Core -> Int]
  BY <1>1, ZeroInAddr, IndexInSet, MemoryTypes, FlushTypes, TypeOKParts DEF Base, CoresTypeOK
<1>2. /\ access'[c] = r /\ ~waiting_for_bus[c] /\ ~sending_flush[c]
      /\ UNCHANGED <<tag, dsram, is_mine, waiting_for_bus, waiting_addr>>
  BY <1>t DEF CleanStep, Blocked, StartCleaning, ContinueCleaning, arrays, request
<1>3. AccessSet(c)' = i /\ VictimBlock(c)' = BlockOf(tag[c][i], i)
  BY <1>2 DEF AccessSet, VictimBlock
<1>4. ASSUME NEW k \in 0 .. WORDS_IN_BLOCK - 1, CleanWord(c, r.addr, k)
      PROVE  slot'[c] = [cmd |-> "BUS_FLUSH", addr |-> VictimBlock(c)' + k,
                         data |-> dsram[c][i * BLOCK_SIZE + k]]
  <2>1. i * BLOCK_SIZE + k \in Line
    BY <1>t, WordOfSet DEF BLOCK_SIZE
  <2>2. BusRequest(c, "BUS_FLUSH", BlockOf(tag[c][i], i) + k, dsram[c][i * BLOCK_SIZE + k])
    BY <1>4, <2>1 DEF CleanWord, DsramWord
  <2> QED
    BY <1>3, <1>t, <2>2 DEF BusRequest
<1>5. CASE StartCleaning(c, r.addr)
  <2>1. 0 \in 0 .. WORDS_IN_BLOCK - 1 /\ CleanWord(c, r.addr, 0)
    BY <1>t, <1>5 DEF StartCleaning
  <2>2. /\ ~need_to_clean_first[c] /\ state[c][i] = "M" /\ state' = state /\ words_left'[c] = 1
    BY <1>t, <1>5 DEF StartCleaning, arrays
  <2> QED
    BY <1>1, <1>2, <1>3, <1>4, <2>1, <2>2
<1>6. CASE ContinueCleaning(c, r.addr) /\ (UNCHANGED state \/ (LastWordToClean(c) /\ SetState(c, r.addr, "I")))
  <2>1. need_to_clean_first[c]
    BY <1>6 DEF ContinueCleaning
  <2>2. words_left[c] \in 0 .. WORDS_IN_BLOCK - 1 /\ access[c] # NoAccess
    BY <2>1 DEF Base, FlushInvariant, CleanInv, CleaningOf, MissesOther
  <2>3. CleanWord(c, r.addr, words_left[c])
    BY <1>6 DEF ContinueCleaning
  <2>4. LastWordToClean(c) <=> words_left[c] = WORDS_IN_BLOCK - 1
    BY <1>t DEF LastWordToClean, BLOCK_SIZE
  <2>5. IF words_left[c] = WORDS_IN_BLOCK - 1
        THEN ~need_to_clean_first'[c] /\ (state' = state \/ SetState(c, r.addr, "I"))
        ELSE state' = state /\ words_left'[c] = words_left[c] + 1
    BY <1>6, <1>t, <2>4 DEF ContinueCleaning
  <2> QED
    BY <1>1, <1>2, <1>3, <1>4, <2>1, <2>2, <2>3, <2>5
<1> QED
  BY <1>5, <1>6 DEF CleanStep
LEMMA CleanKeepsDirty ==
  ASSUME Base, NEW c \in Core, CorePhase(c), NEW r \in Offered(c), CleanStep(c, r), NEW a \in Addr,
         Dirty(a)
  PROVE  Dirty(a)'
<1> DEFINE i == get_index(r.addr)
<1>t. /\ r.addr \in Int /\ i \in Set /\ a \in Int /\ get_index(a) \in Set
      /\ state \in [Core -> [Set -> MESI]] /\ WORDS_IN_BLOCK \in Nat \ {0, 1}
      /\ words_left \in [Core -> Int] /\ get_block_offset(a) \in 0 .. WORDS_IN_BLOCK - 1
      /\ a = get_block_addr(a) + get_block_offset(a)
  BY CleanWordIs, ZeroInAddr, IndexInSet, FlushTypes, MemoryTypes, WordOf DEF Base
<1>1. PICK k \in 0 .. WORDS_IN_BLOCK - 1 :
              /\ slot'[c] = [cmd |-> "BUS_FLUSH", addr |-> VictimBlock(c)' + k,
                             data |-> dsram[c][get_index(r.addr) * BLOCK_SIZE + k]]
              /\ \/ /\ ~need_to_clean_first[c] /\ state[c][get_index(r.addr)] = "M"
                    /\ state' = state /\ k = 0 /\ words_left'[c] = 1
                 \/ /\ need_to_clean_first[c] /\ r = access[c] /\ k = words_left[c]
                    /\ IF k = WORDS_IN_BLOCK - 1
                       THEN /\ ~need_to_clean_first'[c]
                            /\ state' = state \/ SetState(c, r.addr, "I")
                       ELSE state' = state /\ words_left'[c] = k + 1
  BY CleanWordIs
<1>2. /\ AccessSet(c)' = i /\ VictimBlock(c)' = BlockOf(tag[c][i], i) /\ access'[c] = r /\ tag' = tag
  BY CleanWordIs
<1>3. need_to_clean_first[c] => AccessSet(c) = i /\ VictimBlock(c)' = VictimBlock(c)
  <2>1. need_to_clean_first[c] => r = access[c]
    BY <1>1
  <2> QED
    BY <1>2, <2>1 DEF AccessSet, VictimBlock
<1>4. ~GaveUp(c, a)
  <2> SUFFICES ASSUME GaveUp(c, a) PROVE FALSE
    OBVIOUS
  <2>1. ~need_to_clean_first[c] /\ MissesOther(c) /\ get_index(a) = AccessSet(c)
    BY <1>t, GaveUpFacts
  <2>2. r = access[c]
    BY <2>1, CleanWordIs DEF MissesOther
  <2>3. state[c][get_index(a)] = "M"
    BY <1>1, <2>1, <2>2 DEF AccessSet
  <2> QED
    BY <2>3 DEF GaveUp, LastWordPosted
<1>5. AfterCoreOf(c)' /\ ~AfterCoreOf(c) /\ ~BeforeSnoop(c)
  BY CoreFrame
<1>6. ASSUME Owns(c, a), ~Cleaned(c, a) PROVE (Owns(c, a) /\ ~Cleaned(c, a))' \/ GaveUp(c, a)'
  <2>1. CASE state' = state
    <3>1. Owns(c, a)'
      BY <1>2, <1>6, <2>1 DEF Owns, Present
    <3>2. ASSUME Cleaned(c, a)' PROVE FALSE
      <4>1. need_to_clean_first'[c] /\ get_block_addr(a) = VictimBlock(c)'
            /\ get_block_offset(a) < words_left'[c] - 1
        BY <1>5, <3>2 DEF Cleaned, Sent
      <4>2. CASE ~need_to_clean_first[c]
        BY <1>1, <1>t, <4>1, <4>2
      <4>3. CASE need_to_clean_first[c]
        <5>1. words_left'[c] - 1 = words_left[c]
          <6>1. k = words_left[c] /\ words_left'[c] = k + 1
            BY <1>1, <4>1, <4>3
          <6> QED
            BY <1>t, <6>1
        <5> QED
          BY <1>3, <1>5, <1>6, <4>1, <4>3, <5>1 DEF Cleaned, Sent
      <4> QED
        BY <4>2, <4>3
    <3> QED
      BY <3>1, <3>2
  <2>2. CASE state' # state
    <3>1. need_to_clean_first[c] /\ k = WORDS_IN_BLOCK - 1 /\ k = words_left[c] /\ SetState(c, r.addr, "I")
      BY <1>1, <2>2
    <3>2. CASE get_index(a) # i
      <4>1. Owns(c, a)'
        <5>1. state'[c][get_index(a)] = state[c][get_index(a)]
          <6>1. state' = [state EXCEPT ![c][i] = "I"]
            BY <3>1 DEF SetState
          <6> HIDE DEF i
          <6> QED
            BY <1>t, <3>2, <6>1
        <5> QED
          BY <1>2, <1>6, <5>1 DEF Owns, Present
      <4>2. ~Cleaned(c, a)'
        BY <1>1, <3>1 DEF Cleaned
      <4> QED
        BY <4>1, <4>2
    <3>3. CASE get_index(a) = i
      <4>1. get_block_addr(a) = VictimBlock(c) /\ state[c][AccessSet(c)] = "M"
        BY <1>3, <1>6, <1>t, <3>1, <3>3, Victim DEF Owns, Present, Base
      <4>2. ~(get_block_offset(a) < WORDS_IN_BLOCK - 1)
        BY <1>5, <1>6, <3>1, <4>1 DEF Cleaned, Sent
      <4>3. slot'[c].cmd = "BUS_FLUSH" /\ slot'[c].addr = a
        <5>1. a = VictimBlock(c)' + k
          BY <1>3, <1>t, <3>1, <4>1, <4>2
        <5> QED
          BY <1>1, <5>1
      <4>4. state'[c][get_index(a)] = "I"
        <5>1. state' = [state EXCEPT ![c][i] = "I"]
          BY <3>1 DEF SetState
        <5> HIDE DEF i
        <5> QED
          BY <1>t, <3>3, <5>1
      <4>5. c \notin Suppliers(a)'
        <5>1. ~Supplies(c)
          BY <3>1, <4>1, CleaningWaits, CoreFrame DEF Base
        <5> QED
          BY <5>1, SuppliersAre, CoreOthers DEF Base
      <4> QED
        BY <4>3, <4>4, <4>5 DEF GaveUp, LastWordPosted
    <3> QED
      BY <3>2, <3>3
  <2> QED
    BY <2>1, <2>2
<1>7. PICK d \in Core : (Owns(d, a) /\ ~Cleaned(d, a)) \/ GaveUp(d, a)
  BY DEF Dirty
<1>8. ((Owns(d, a) /\ ~Cleaned(d, a)) \/ GaveUp(d, a))'
  BY <1>4, <1>6, <1>7, CoreOthers
<1> QED
  BY <1>8 DEF Dirty

LEMMA CleanKeepsValues ==
  ASSUME Base, NEW m, Agrees(m), NEW c \in Core, CorePhase(c), NEW r \in Offered(c), CleanStep(c, r)
  PROVE  Agrees(m)'
<1> DEFINE i == get_index(r.addr)
<1>t. /\ r.addr \in Int /\ i \in Set /\ \A a \in Addr : a \in Int /\ get_index(a) \in Set
      /\ state \in [Core -> [Set -> MESI]] /\ tag \in [Core -> [Set -> Int]]
  BY CleanWordIs, ZeroInAddr, IndexInSet, FlushTypes DEF Base
<1>1. PICK k \in 0 .. WORDS_IN_BLOCK - 1 :
              /\ slot'[c] = [cmd |-> "BUS_FLUSH", addr |-> VictimBlock(c)' + k,
                             data |-> dsram[c][get_index(r.addr) * BLOCK_SIZE + k]]
              /\ \/ /\ ~need_to_clean_first[c] /\ state[c][get_index(r.addr)] = "M" /\ state' = state
                 \/ need_to_clean_first[c] /\ r = access[c] /\ (state' = state \/ SetState(c, r.addr, "I"))
  BY CleanWordIs
<1>2. \A a \in Addr : Present(c, a)' => Present(c, a)
  <2>1. \A j \in Set : state'[c][j] # "I" => state[c][j] # "I"
    <3>1. state' = state \/ state' = [state EXCEPT ![c][i] = "I"]
      BY <1>1 DEF SetState
    <3> HIDE DEF i
    <3> QED
      BY <1>t, <3>1
  <2> QED
    BY <1>t, <2>1, CleanWordIs DEF Present
<1>3. ASSUME NEW a \in Addr, slot'[c].addr = a PROVE slot'[c].data = m[a]
  <2>1. a = BlockOf(tag[c][i], i) + k
    BY <1>1, <1>3, CleanWordIs
  <2>2. /\ BlockOf(tag[c][i], i) \in Int /\ get_block_addr(a) = BlockOf(tag[c][i], i)
        /\ get_index(a) = i /\ get_tag(a) = tag[c][i]
    BY <1>t, <2>1, BlockOfTag
  <2>3. get_block_offset(a) = k
    <3>1. a = get_block_addr(a) + get_block_offset(a) /\ get_block_offset(a) \in 0 .. WORDS_IN_BLOCK - 1
      BY <1>t, WordOf
    <3>2. k \in Int /\ get_block_offset(a) \in Int /\ WORDS_IN_BLOCK \in Int
      BY <3>1, BusAssumption
    <3> QED
      BY <2>1, <2>2, <3>1, <3>2
  <2>4. slot'[c].data = dsram[c][line(a)]
    BY <1>1, <2>2, <2>3 DEF line
  <2>5. CASE state[c][i] = "M"
    <3>1. Present(c, a) /\ ~BeingFilled(c, get_index(a))
      BY <2>2, <2>5, CleanWordIs DEF Present, BeingFilled
    <3> QED
      BY <2>4, <3>1 DEF Agrees, CopiesAgree
  <2>6. CASE state[c][i] # "M"
    <3>1. need_to_clean_first[c] /\ r = access[c]
      BY <1>1, <2>6
    <3>2. AccessSet(c) = i /\ VictimBlock(c) = get_block_addr(a)
      BY <2>2, <3>1 DEF AccessSet, VictimBlock
    <3>3. Supplies(c) /\ RequestedBlock = get_block_addr(a)
      BY <2>6, <3>1, <3>2 DEF Base, FlushInvariant, CleanInv, CleaningOf
    <3>4. c \in Suppliers(a)
      BY <3>3, SuppliersAre DEF Base
    <3> QED
      BY <2>4, <3>4 DEF Agrees, SuppliesAgree
  <2> QED
    BY <2>5, <2>6
<1>4. ~(is_mine[c] /\ ~waiting_for_bus[c])
  <2> SUFFICES ASSUME is_mine[c], ~waiting_for_bus[c] PROVE FALSE
    OBVIOUS
  <2>1. access[c] # NoAccess /\ Present(c, access[c].addr)
    BY DEF Base, ProtocolInvariant, FilledInv
  <2> QED
    BY <2>1, CleanWordIs DEF CleanStep, Present
<1> QED
  BY <1>2, <1>3, <1>4, CleanWordIs, CleanKeepsDirty, CoreStays

LEMMA RequestKeepsValues ==
  ASSUME Base, NEW m, Agrees(m), NEW c \in Core, CorePhase(c), NEW r \in Offered(c), RequestStep(c, r),
         WriteBackStep
  PROVE  Agrees(m)'
<1>1. /\ UNCHANGED <<tag, state, dsram, is_mine, need_to_clean_first>>
      /\ ~waiting_for_bus[c] /\ ~need_to_clean_first[c]
  BY DEF RequestStep, RequestBlock, Blocked, arrays, cleaning
<1>2. waiting_for_bus'[c] /\ slot'[c].cmd \in Transaction
  <2>1. /\ slot \in [Agent -> Request \cup {NoRequest}] /\ c \in Agent
        /\ waiting_for_bus \in [Core -> BOOLEAN]
    BY MemoryTypes, FlushTypes DEF Base
  <2> QED
    BY <2>1 DEF RequestStep, RequestBlock, BusRequest, Transaction
<1>3. \A a \in Addr : ~GaveUp(c, a)
  <2> SUFFICES ASSUME NEW a \in Addr, GaveUp(c, a) PROVE FALSE
    OBVIOUS
  <2>1. slot[c].cmd = "BUS_FLUSH" /\ slot'[c] \in {slot[c], NoRequest}
    BY DEF GaveUp, LastWordPosted, WriteBackStep
  <2> QED
    BY <1>2, <2>1 DEF NoRequest, Transaction
<1>4. \A a \in Addr : Dirty(a) => Dirty(a)'
  <2> SUFFICES ASSUME NEW a \in Addr, Dirty(a) PROVE Dirty(a)'
    OBVIOUS
  <2>1. PICK d \in Core : (Owns(d, a) /\ ~Cleaned(d, a)) \/ GaveUp(d, a)
    BY DEF Dirty
  <2>2. Owns(c, a) => Owns(c, a)' /\ ~Cleaned(c, a)'
    BY <1>1 DEF Owns, Present, Cleaned
  <2>3. ((Owns(d, a) /\ ~Cleaned(d, a)) \/ GaveUp(d, a))'
    BY <1>3, <2>1, <2>2, CoreOthers
  <2> QED
    BY <2>3 DEF Dirty
<1>5. \A a \in Addr : Present(c, a)' => Present(c, a)
  BY <1>1 DEF Present
<1> QED
  BY <1>1, <1>2, <1>4, <1>5, CoreStays DEF Transaction
-----------------------------------------------------------------------------
(* Every step is a step of one atomic memory, from m to m2.                *)
StorePerformed(c) == access[c].op = "sw" /\ is_mine[c] /\ ~waiting_for_bus[c]

Same(m, m2) == \A a \in Addr : m2[a] = m[a]
Stored(m, m2, r) == \A a \in Addr : m2[a] = IF a = r.addr THEN r.data ELSE m[a]

SilentStep(m, m2) ==
  /\ UNCHANGED <<access, retired>> /\ \A d \in Core : StorePerformed(d)' <=> StorePerformed(d)
  /\ Same(m, m2)

PerformStep(c, m, m2) ==
  /\ UNCHANGED <<access, retired>> /\ access[c].op = "sw" /\ ~StorePerformed(c) /\ StorePerformed(c)'
  /\ \A d \in Core : d # c => (StorePerformed(d)' <=> StorePerformed(d))
  /\ access[c].addr \in Addr /\ Stored(m, m2, access[c])

WaitStep(c, m, m2) ==
  /\ retired' = [retired EXCEPT ![c] = NoAccess]
  /\ \/ access' = access
     \/ access[c] = NoAccess /\ \E r \in AccessOf(c) : access' = [access EXCEPT ![c] = r]
  /\ \A d \in Core : StorePerformed(d)' <=> StorePerformed(d)
  /\ Same(m, m2)

LeaveStep(c, r, m, m2) ==
  /\ r \in Offered(c) /\ r.addr \in Addr /\ access' = [access EXCEPT ![c] = NoAccess]
  /\ ~StorePerformed(c)' /\ \A d \in Core : d # c => (StorePerformed(d)' <=> StorePerformed(d))
  /\ \/ /\ r.op = "lw" /\ retired' = [retired EXCEPT ![c] = [r EXCEPT !.data = m[r.addr]]]
        /\ Same(m, m2)
     \/ /\ r.op = "sw" /\ retired' = [retired EXCEPT ![c] = r]
        /\ Stored(m, m2, r) /\ (StorePerformed(c) => m[r.addr] = r.data)

AtomicStep(m, m2) ==
  \/ /\ phase # "core"
     /\ SilentStep(m, m2) \/ \E c \in Core : PerformStep(c, m, m2)
  \/ /\ phase = "core"
     /\ WaitStep(turn, m, m2) \/ \E r \in Offered(turn) : LeaveStep(turn, r, m, m2)

LEMMA ResponseIsAtomic ==
  ASSUME Base, NEW m, Agrees(m), NEW c \in Core, ResponsePhase(c)
  PROVE  \E m2 : Agrees(m2)' /\ AtomicStep(m, m2)
<1>1. UNCHANGED <<access, retired, is_mine>>
  BY DEF ResponsePhase, CacheHandleBusResponse, cores
<1>a. \A m2 : SilentStep(m, m2) \/ PerformStep(c, m, m2) => AtomicStep(m, m2)
  BY DEF ResponsePhase, AtomicStep
<1>2. CASE FillWord(c) \/ (~Filling(c) /\ UNCHANGED <<arrays, request>>)
  <2>1. Agrees(m)'
    BY <1>2, FirstWordsKeepValues
  <2>2. SilentStep(m, m)
    BY <1>1, <1>2 DEF SilentStep, Same, StorePerformed, FillWord, request
  <2> QED
    BY <1>a, <2>1, <2>2
<1>3. CASE FillLastWord(c)
  <2>1. PICK m2 : m2 = [a \in Addr |-> IF is_write_request[c] /\ a = waiting_addr[c]
                                       THEN write_data[c] ELSE m[a]]
    OBVIOUS
  <2>2. \A a \in Addr : m2[a] = IF is_write_request[c] /\ a = waiting_addr[c]
                                THEN write_data[c] ELSE m[a]
    BY <2>1
  <2>3. Agrees(m2)'
    BY <1>3, <2>2, LastWordKeepsValues
  <2>4. \A d \in Core : d # c => (StorePerformed(d)' <=> StorePerformed(d))
    BY <1>1, <1>3, FillEnds DEF StorePerformed
  <2>5. /\ waiting_for_bus[c] /\ ~waiting_for_bus'[c] /\ is_mine[c]
        /\ waiting_addr[c] = access[c].addr /\ waiting_addr[c] \in Addr
        /\ (is_write_request[c] <=> access[c].op = "sw")
        /\ is_write_request[c] => write_data[c] = access[c].data
    BY <1>3, FillEnds DEF Base, ProtocolInvariant, AccessInv, PlaceInv, WaitingSet, Completing
  <2>6. CASE is_write_request[c]
    <3>1. PerformStep(c, m, m2)
      BY <1>1, <2>2, <2>4, <2>5, <2>6 DEF PerformStep, StorePerformed, Stored
    <3> QED
      BY <1>a, <2>3, <3>1
  <2>7. CASE ~is_write_request[c]
    <3>1. SilentStep(m, m2)
      BY <1>1, <2>2, <2>4, <2>5, <2>7 DEF SilentStep, StorePerformed, Same
    <3> QED
      BY <1>a, <2>3, <3>1
  <2> QED
    BY <2>6, <2>7
<1> QED
  BY <1>2, <1>3 DEF ResponsePhase, CacheHandleBusResponse

LEMMA CoreIsAtomic ==
  ASSUME Base, NEW m, Agrees(m), NEW c \in Core, CorePhase(c), StoreCompletes, WriteBackStep
  PROVE  \E m2 : Agrees(m2)' /\ AtomicStep(m, m2)
<1>1. \A d \in Core : d # c => (StorePerformed(d)' <=> StorePerformed(d))
  BY CoreFrame DEF StorePerformed
<1>2. access \in [Core -> Access] /\ retired \in [Core -> Access]
  BY TypeOKParts DEF Base, CoresTypeOK
<1>3. StorePerformed(c) => /\ access[c] # NoAccess /\ Present(c, access[c].addr)
                      /\ state[c][get_index(access[c].addr)] = "M"
  BY DEF StorePerformed, Base, ProtocolInvariant, FilledInv
<1>a. \A m2 : (WaitStep(c, m, m2) \/ \E r \in Offered(c) : LeaveStep(c, r, m, m2)) => AtomicStep(m, m2)
  BY DEF CorePhase, AtomicStep
<1>4. CASE QuietStep(c)
  <2>1. Agrees(m)'
    BY <1>4, QuietKeepsValues
  <2>2. /\ UNCHANGED <<is_mine, waiting_for_bus>>
        /\ access[c] # NoAccess => access' = access
    BY <1>2, <1>4 DEF QuietStep, cacheVars, request, Offered
  <2>3. \/ access' = access
        \/ access[c] = NoAccess /\ \E r \in AccessOf(c) : access' = [access EXCEPT ![c] = r]
    <3>1. access[c] = NoAccess => Offered(c) = AccessOf(c)
      BY DEF Offered
    <3>2. access' = access \/ \E r \in Offered(c) : access' = [access EXCEPT ![c] = r]
      BY <1>4 DEF QuietStep
    <3>3. CASE access[c] = NoAccess
      BY <3>1, <3>2, <3>3
    <3>4. CASE access[c] # NoAccess
      BY <2>2, <3>4
    <3> QED
      BY <3>3, <3>4
  <2>4. StorePerformed(c)' <=> StorePerformed(c)
    <3>1. access[c] # NoAccess => (StorePerformed(c)' <=> StorePerformed(c))
      BY <2>2 DEF StorePerformed
    <3>2. access[c] = NoAccess => ~(is_mine[c] /\ ~waiting_for_bus[c])
      BY DEF Base, ProtocolInvariant, FilledInv
    <3>3. access[c] = NoAccess => ~StorePerformed(c)' /\ ~StorePerformed(c)
      BY <2>2, <3>2 DEF StorePerformed
    <3> QED
      BY <3>1, <3>3
  <2>5. WaitStep(c, m, m)
    BY <1>1, <1>4, <2>3, <2>4 DEF WaitStep, QuietStep, Same
  <2> QED
    BY <1>a, <2>1, <2>5
<1>5. ASSUME NEW r \in Offered(c), HitStep(c, r)
      PROVE  \E m2 : Agrees(m2)' /\ AtomicStep(m, m2)
  <2>1. r.addr \in Addr /\ access' = [access EXCEPT ![c] = NoAccess] /\ ~StorePerformed(c)'
    BY <1>5, HitFrame DEF HitStep, StorePerformed
  <2>2. CASE r.op = "lw"
    <3>1. Agrees(m)' /\ dsram[c][line(r.addr)] = m[r.addr]
      BY <1>5, <2>2, LoadKeepsValues
    <3>2. retired' = [retired EXCEPT ![c] = [r EXCEPT !.data = m[r.addr]]]
      BY <1>5, <2>2, <3>1 DEF HitStep
    <3>3. LeaveStep(c, r, m, m)
      BY <1>1, <2>1, <2>2, <3>2 DEF LeaveStep, Same
    <3> QED
      BY <1>a, <3>1, <3>3
  <2>3. CASE r.op = "sw"
    <3>1. PICK m2 : m2 = [a \in Addr |-> IF a = r.addr THEN r.data ELSE m[a]]
      OBVIOUS
    <3>2. Stored(m, m2, r)
      BY <3>1 DEF Stored
    <3>3. Agrees(m2)'
      BY <1>5, <2>3, <3>2, StoreKeepsValues DEF Stored
    <3>4. StorePerformed(c) => m[r.addr] = r.data
      <4>1. StorePerformed(c) => r = access[c]
        BY <1>3 DEF Offered
      <4> QED
        BY <4>1 DEF Agrees, PerformedAgree, StorePerformed
    <3>5. retired' = [retired EXCEPT ![c] = r]
      BY <1>5, <2>3 DEF HitStep
    <3>6. LeaveStep(c, r, m, m2)
      BY <1>1, <2>1, <2>3, <3>2, <3>4, <3>5 DEF LeaveStep
    <3> QED
      BY <1>a, <3>3, <3>6
  <2> QED
    BY <1>5, <2>2, <2>3 DEF HitStep
<1>6. ASSUME NEW r \in Offered(c), CleanStep(c, r) \/ RequestStep(c, r)
      PROVE  \E m2 : Agrees(m2)' /\ AtomicStep(m, m2)
  <2>1. Agrees(m)'
    BY <1>6, CleanKeepsValues, RequestKeepsValues
  <2>2. r \in AccessOf(c) /\ (access[c] # NoAccess => r = access[c])
    BY StoreAddress DEF Offered, Base
  <2>3. access' = [access EXCEPT ![c] = r] /\ retired' = [retired EXCEPT ![c] = NoAccess]
    BY <1>6 DEF CleanStep, RequestStep
  <2>4. \/ access' = access
        \/ access[c] = NoAccess /\ \E s \in AccessOf(c) : access' = [access EXCEPT ![c] = s]
    BY <1>2, <2>2, <2>3
  <2>5. ~StorePerformed(c)
    BY <1>3, <1>6, <2>2 DEF CleanStep, RequestStep, Present
  <2>6. ~StorePerformed(c)'
    <3>1. CASE RequestStep(c, r)
      <4>1. waiting_for_bus \in [Core -> BOOLEAN]
        BY FlushTypes DEF Base
      <4> QED
        BY <3>1, <4>1 DEF RequestStep, RequestBlock, StorePerformed
    <3>2. CASE CleanStep(c, r)
      <4>1. UNCHANGED <<is_mine, waiting_for_bus>>
        BY <3>2, CleanWordIs
      <4>2. ~(is_mine[c] /\ ~waiting_for_bus[c])
        <5>1. (is_mine[c] /\ ~waiting_for_bus[c]) => access[c] # NoAccess /\ Present(c, access[c].addr)
          BY DEF Base, ProtocolInvariant, FilledInv
        <5> QED
          BY <2>2, <3>2, <5>1 DEF CleanStep, Present
      <4> QED
        BY <4>1, <4>2 DEF StorePerformed
    <3> QED
      BY <1>6, <3>1, <3>2
  <2>7. WaitStep(c, m, m)
    BY <1>1, <2>3, <2>4, <2>5, <2>6 DEF WaitStep, Same
  <2> QED
    BY <1>a, <2>1, <2>7
<1> QED
  BY <1>4, <1>5, <1>6, CoreCases DEF Base

LEMMA NextIsAtomic ==
  ASSUME Base, TypeOK', ProtocolInvariant', NEW m, Agrees(m), Next, StoreCompletes, WriteBackStep
  PROVE  \E m2 : Agrees(m2)' /\ AtomicStep(m, m2)
<1>1. ASSUME phase # "core", Agrees(m)', UNCHANGED <<access, retired>>, \A d \in Core : StorePerformed(d)' <=> StorePerformed(d)
      PROVE  \E m2 : Agrees(m2)' /\ AtomicStep(m, m2)
  <2>1. SilentStep(m, m)
    BY <1>1 DEF SilentStep, Same
  <2> QED
    BY <1>1, <2>1 DEF AtomicStep
<1>2. CASE MemoryPhase \/ BusPhase \/ EdgePhase
  <2>1. Agrees(m)'
    BY <1>2, MemoryKeepsValues, BusKeepsValues, EdgeKeepsValues
  <2>2. phase # "core" /\ UNCHANGED <<access, retired, is_mine, waiting_for_bus>>
    BY <1>2 DEF MemoryPhase, BusPhase, EdgePhase, cacheVars, cores, request
  <2> QED
    BY <1>1, <2>1, <2>2 DEF StorePerformed
<1>3. ASSUME NEW c \in Core, SnoopPhase(c) PROVE \E m2 : Agrees(m2)' /\ AtomicStep(m, m2)
  <2>1. Agrees(m)'
    BY <1>3, SnoopKeepsValues
  <2>2. phase # "core" /\ UNCHANGED <<access, retired, waiting_for_bus>>
    BY <1>3, SnoopFrame DEF Base, SnoopPhase, cores, request
  <2>3. UNCHANGED is_mine \/ (is_mine' = [is_mine EXCEPT ![c] = TRUE] /\ waiting_for_bus[c])
    <3>1. UNCHANGED is_mine \/ SnoopOwnRequest(c)
      BY <1>3, SnoopLowers DEF Base
    <3>2. SnoopOwnRequest(c) => waiting_for_bus[c]
      BY TransactionOnBus DEF SnoopOwnRequest, Base, ProtocolInvariant, BusyInv, RequestMatches
    <3> QED
      BY <3>1, <3>2 DEF SnoopOwnRequest
  <2>4. \A d \in Core : StorePerformed(d)' <=> StorePerformed(d)
    <3>1. is_mine \in [Core -> BOOLEAN]
      BY TypeOKParts DEF Base, CacheTypeOK
    <3> QED
      BY <2>2, <2>3, <3>1 DEF StorePerformed
  <2> QED
    BY <1>1, <2>1, <2>2, <2>4
<1>4. ASSUME NEW c \in Core, ClockPhase(c) PROVE \E m2 : Agrees(m2)' /\ AtomicStep(m, m2)
  <2>1. Agrees(m)'
    BY <1>4, ClockKeepsValues
  <2>2. phase # "core" /\ UNCHANGED <<access, retired, is_mine, waiting_for_bus>>
    BY <1>4 DEF ClockPhase, CacheClock, cores, request
  <2> QED
    BY <1>1, <2>1, <2>2 DEF StorePerformed
<1> QED
  BY <1>2, <1>3, <1>4, ResponseIsAtomic, CoreIsAtomic DEF Next, Tick

LEMMA InitAgrees == Init => Agrees(MemIn) /\ SuppliedInPlace
<1> SUFFICES ASSUME Init PROVE Agrees(MemIn) /\ SuppliedInPlace
  OBVIOUS
<1>1. /\ \A c \in Core, i \in Set : state[c][i] = "I"
      /\ ~busy /\ bus_cmd = "BUS_NO_CMD" /\ mem = MemIn
      /\ \A c \in Core : slot[c].cmd # "BUS_FLUSH" /\ access[c].op = "nop"
  <2>1. \A c \in Core : c \in Agent /\ c # MAIN_MEMORY
    BY BusAssumption DEF Core, Agent, MAIN_MEMORY
  <2>2. \A c \in Core : slot[c] = NoRequest
    BY <2>1 DEF Init, BusInit
  <2>3. \A c \in Core : slot[c].cmd # "BUS_FLUSH"
    BY <2>2 DEF NoRequest
  <2>4. \A c \in Core : access[c].op = "nop"
    BY DEF Init, NoAccess
  <2>5. ~busy /\ bus_cmd = "BUS_NO_CMD" /\ mem = MemIn
    BY DEF Init, BusInit, MemoryInit
  <2>6. \A c \in Core, i \in Set : state[c][i] = "I"
    BY DEF Init, CacheInit
  <2> QED
    BY <2>3, <2>4, <2>5, <2>6
<1>2. \A c \in Core, a \in Addr : ~Present(c, a) /\ ~Arrived(c, a) /\ c \notin Suppliers(a)
  BY <1>1, IndexInSet, ZeroInAddr DEF Present, Arrived, Completing, Suppliers
<1>3. PostedAgree(MemIn)
  BY <1>1, BusAssumption DEF PostedAgree, FlushPosted, Core, Agent, MAIN_MEMORY
<1>4. BusAgrees(MemIn) /\ MemoryAgrees(MemIn) /\ PerformedAgree(MemIn)
  BY <1>1 DEF BusAgrees, OnTheBus, MemoryAgrees, PerformedAgree
<1> QED
  BY <1>1, <1>2, <1>3, <1>4 DEF Agrees, CopiesAgree, SuppliesAgree, ArrivedAgree, SuppliedInPlace, Supplies

-----------------------------------------------------------------------------
(* The current value of an address is the one that its places hold.        *)
LEMMA CurrentNow == Base => \A m : Agrees(m) => \A a \in Addr : Current(a) = m[a]
BY CurrentIs

LEMMA CurrentNext == Base' => (\A m : Agrees(m) => \A a \in Addr : Current(a) = m[a])'
BY CurrentNow, PTL

Memory == [a \in Addr |-> Current(a)]
PerformedBy == [c \in Core |-> access[c].op = "sw" /\ is_mine[c] /\ ~waiting_for_bus[c]]

LEMMA AtomicImplements ==
  ASSUME TypeOK, TypeOK', NEW m, m = Memory, NEW m2, m2 = Memory', AtomicStep(m, m2)
  PROVE  [Abstract!Next]_(Abstract!vars)
<1>t. /\ access \in [Core -> Access] /\ retired \in [Core -> Access]
      /\ is_mine \in [Core -> BOOLEAN] /\ waiting_for_bus \in [Core -> BOOLEAN]
      /\ is_mine' \in [Core -> BOOLEAN] /\ waiting_for_bus' \in [Core -> BOOLEAN]
      /\ m = [a \in Addr |-> m[a]] /\ m2 = [a \in Addr |-> m2[a]]
  BY TypeOKParts DEF TypeOK, CoresTypeOK, CacheTypeOK, Memory
<1>p. /\ \A d \in Core : PerformedBy[d] = StorePerformed(d) /\ PerformedBy'[d] = StorePerformed(d)'
      /\ PerformedBy = [d \in Core |-> PerformedBy[d]] /\ PerformedBy' = [d \in Core |-> PerformedBy'[d]]
      /\ \A d \in Core : PerformedBy[d] \in BOOLEAN /\ PerformedBy'[d] \in BOOLEAN
  BY DEF PerformedBy, StorePerformed
<1>1. CASE SilentStep(m, m2)
  <2>1. m2 = m
    BY <1>1, <1>t DEF SilentStep, Same
  <2>2. PerformedBy' = PerformedBy
    BY <1>1, <1>p DEF SilentStep
  <2> QED
    BY <1>1, <2>1, <2>2 DEF SilentStep, Abstract!vars, Memory, PerformedBy
<1>2. ASSUME NEW c \in Core, PerformStep(c, m, m2) PROVE Abstract!Perform(c)
  <2>1. m2 = [m EXCEPT ![access[c].addr] = access[c].data]
    BY <1>2, <1>t DEF PerformStep, Stored
  <2>2. PerformedBy' = [PerformedBy EXCEPT ![c] = TRUE] /\ ~PerformedBy[c]
    BY <1>2, <1>p DEF PerformStep
  <2> QED
    BY <1>2, <2>1, <2>2 DEF PerformStep, Abstract!Perform, Memory, PerformedBy
<1>3. ASSUME NEW c \in Core, WaitStep(c, m, m2) PROVE Abstract!Begin(c) \/ Abstract!Stall(c)
  <2>1. m2 = m
    BY <1>3, <1>t DEF WaitStep, Same
  <2>2. PerformedBy' = PerformedBy
    BY <1>3, <1>p DEF WaitStep
  <2> QED
    BY <1>3, <2>1, <2>2 DEF WaitStep, Abstract!Begin, Abstract!Stall, Abstract!Offer, Memory, PerformedBy,
       Abstract!NoAccess, NoAccess, AccessOf, LoadOf, StoreOf, Abstract!LoadOf, Abstract!StoreOf
<1>4. ASSUME NEW c \in Core, NEW r \in Offered(c), LeaveStep(c, r, m, m2) PROVE Abstract!CompleteAny(c)
  <2>1. PerformedBy' = [PerformedBy EXCEPT ![c] = FALSE]
    BY <1>4, <1>p DEF LeaveStep
  <2>2. Abstract!Complete(c, r)
    <3>1. CASE r.op = "lw"
      <4>1. m2 = m
        BY <1>4, <1>t, <3>1 DEF LeaveStep, Same
      <4> QED
        BY <1>4, <2>1, <3>1, <4>1 DEF LeaveStep, Abstract!Complete, Abstract!Offer, Memory, PerformedBy,
           Abstract!NoAccess, NoAccess
    <3>2. CASE r.op = "sw"
      <4>1. m2 = [m EXCEPT ![r.addr] = r.data]
        BY <1>4, <1>t, <3>2 DEF LeaveStep, Stored
      <4>2. PerformedBy[c] => m2 = m
        BY <1>4, <1>p, <1>t, <3>2, <4>1 DEF LeaveStep
      <4> QED
        BY <1>4, <2>1, <3>2, <4>1, <4>2 DEF LeaveStep, Abstract!Complete, Abstract!Offer, Memory,
           PerformedBy, Abstract!NoAccess, NoAccess
    <3> QED
      BY <1>4, <3>1, <3>2 DEF LeaveStep
  <2> QED
    BY <2>2 DEF Abstract!CompleteAny, Offered, AccessOf, LoadOf, StoreOf, Abstract!LoadOf,
       Abstract!StoreOf, NoAccess, Abstract!NoAccess
<1>5. turn \in Core
  BY DEF TypeOK
<1> QED
  BY <1>1, <1>2, <1>3, <1>4, <1>5 DEF AtomicStep, Abstract!Next

(* The step of the memory system, as one of the memory it implements.      *)
MemorySteps == \E m, n : m = Memory /\ n = Memory' /\ AtomicStep(m, n)

LEMMA MemoryStepsOn ==
  ASSUME Base, Base', Agrees(Memory), Next, StoreCompletes, WriteBackStep
  PROVE  Agrees(Memory)' /\ MemorySteps
<1>1. PICK m : m = Memory
  OBVIOUS
<1>2. Agrees(m)
  BY <1>1
<1>3. PICK m2 : Agrees(m2)' /\ AtomicStep(m, m2)
  BY <1>2, NextIsAtomic DEF Base
<1>4. \A a \in Addr : Current(a)' = m2[a]
  BY <1>3, CurrentNext
<1>5. PICK n : n = Memory'
  OBVIOUS
<1>6. \A a \in Addr : n[a] = m2[a]
  BY <1>4, <1>5 DEF Memory
<1>7. AtomicStep(m, n)
  BY <1>3, <1>6 DEF AtomicStep, SilentStep, PerformStep, WaitStep, LeaveStep, Same, Stored
<1>8. MemorySteps
  BY <1>1, <1>5, <1>7 DEF MemorySteps
<1>9. Agrees(n)'
  <2>1. \A c \in Core : access'[c].addr \in Addr
    BY TypeOKParts DEF Base, TypeOK, CoresTypeOK, Access
  <2> QED
    BY <1>3, <1>6, <2>1 DEF Agrees, CopiesAgree, SuppliesAgree, PostedAgree, BusAgrees, ArrivedAgree,
       MemoryAgrees, PerformedAgree
<1>10. Agrees(Memory)'
  BY <1>5, <1>9 DEF Agrees, CopiesAgree, SuppliesAgree, PostedAgree, BusAgrees, ArrivedAgree,
     MemoryAgrees, PerformedAgree
<1> QED
  BY <1>8, <1>10

LEMMA DataStep ==
  ASSUME Base, Base', Agrees(Memory), Next, StoreCompletes, WriteBackStep
  PROVE  Agrees(Memory)' /\ [Abstract!Next]_(Abstract!vars)
BY MemoryStepsOn, AtomicImplements DEF MemorySteps, Base

LEMMA PlacesStay ==
  ASSUME TypeOK, ProtocolInvariant, MemoryInvariant, FlushInvariant, PlaceInv, SuppliedInPlace,
         CleanPace, CleansWhatItSupplies, [Next]_vars, [StoreCompletes]_vars
  PROVE  PlaceInv' /\ SuppliedInPlace' /\ CleanPace'
<1>1. CASE Next /\ StoreCompletes
  BY <1>1, MemoryKeepsPlaces, BusKeepsPlaces, EdgeKeepsPlaces, SnoopKeepsPlaces, ResponseKeepsPlaces,
     ClockKeepsPlaces, CoreKeepsPlaces, NextKeepsSuppliers, NextKeepsPace DEF Next, Tick
<1>2. CASE UNCHANGED vars
  <2>1. SuppliedInPlace'
    BY <1>2 DEF SuppliedInPlace, Supplies, vars, busVars, lines, control, pending, cacheVars, arrays,
       supply, request
  <2> QED
    BY <1>2, <2>1, StutterKeepsPlaces
<1> QED
  BY <1>1, <1>2

LEMMA DataStutters ==
  ASSUME Base, Base', Agrees(Memory), UNCHANGED vars
  PROVE  Agrees(Memory)' /\ UNCHANGED Abstract!vars
<1>1. PICK m : m = Memory
  OBVIOUS
<1>2. Agrees(m)
  BY <1>1
<1>3. /\ UNCHANGED <<bus_cmd, bus_origid, bus_addr, bus_data, busy, flush_count, pending_origid,
                     pending_cmd, pending_addr, delay_in_progress, slot, access, retired, is_mine, mem,
                     sending_flush, need_to_clean_first, words_left, tag, state, dsram,
                     waiting_for_bus, waiting_addr, is_write_request, write_data>>
      /\ UNCHANGED <<phase, turn>>
  BY DEF vars, busVars, memoryVars, cacheVars, loop, cores, lines, control, pending, delay, arrays,
     request, supply, cleaning
<1>4. RequestedBlock' = RequestedBlock /\ WordMatters' = WordMatters
      /\ \A o \in Core : Completing(o)' = Completing(o) /\ BeforeResponse(o)' = BeforeResponse(o)
                         /\ Sent(o)' = Sent(o) /\ VictimBlock(o)' = VictimBlock(o)
  BY <1>3 DEF RequestedBlock, WordMatters, CoreFlushOnBus, Completing, BeforeResponse, BeforeSnoop,
     InCachePhases, RequestMatches, Sent, AfterCoreOf, FlushPosted, VictimBlock, AccessSet
<1>5. \A c \in Core, a \in Addr :
        /\ Present(c, a)' = Present(c, a) /\ BeingFilled(c, get_index(a))' = BeingFilled(c, get_index(a))
        /\ Suppliers(a)' = Suppliers(a) /\ OnTheBus(a)' = OnTheBus(a) /\ Arrived(c, a)' = Arrived(c, a)
        /\ Cleaned(c, a)' = Cleaned(c, a) /\ Owns(c, a)' = Owns(c, a)
  BY <1>3, <1>4 DEF Present, BeingFilled, Suppliers, TransactionBlock, OnTheBus, Arrived, Cleaned, Owns
<1>6. \A a \in Addr : Dirty(a)' = Dirty(a) /\ WrittenBack(a)' = WrittenBack(a)
  <2>1. \A c \in Core, a \in Addr : GaveUp(c, a)' = GaveUp(c, a)
    BY <1>3, <1>5 DEF GaveUp, LastWordPosted
  <2>2. \A a \in Addr : Dirty(a)' = Dirty(a)
    BY <1>5, <2>1 DEF Dirty
  <2> QED
    BY <1>3, <1>5, <2>2, ZeroInCore DEF WrittenBack, CoreFlushOnBus
<1>7. Agrees(m)'
  <2>1. PostedAgree(m)' /\ BusAgrees(m)' /\ MemoryAgrees(m)' /\ PerformedAgree(m)'
    BY <1>2, <1>3, <1>4, <1>5, <1>6, ZeroInCore DEF Agrees, PostedAgree, FlushPosted, BusAgrees,
       MemoryAgrees, PerformedAgree
  <2> QED
    BY <1>2, <1>3, <1>5, <2>1, AgreesStays
<1>8. Memory' = Memory
  <2>1. \A a \in Addr : Current(a)' = m[a]
    BY <1>7, CurrentNext
  <2> QED
    BY <1>1, <2>1 DEF Memory
<1>9. Agrees(Memory)'
  <2>1. Memory' = m
    BY <1>1, <1>8
  <2> QED
    BY <1>7, <2>1 DEF Agrees, CopiesAgree, SuppliesAgree, PostedAgree, BusAgrees, ArrivedAgree,
       MemoryAgrees, PerformedAgree
<1> QED
  BY <1>3, <1>8, <1>9 DEF Abstract!vars, Memory

LEMMA InitImplements ==
  ASSUME Base, Init
  PROVE  Agrees(Memory) /\ Abstract!Init
<1>1. MemIn = Memory
  <2>1. \A a \in Addr : Current(a) = MemIn[a]
    BY InitAgrees, CurrentNow
  <2> QED
    BY <2>1, MemoryAssumption DEF Memory
<1>2. Agrees(Memory)
  BY <1>1, InitAgrees
<1>3. /\ access = [c \in Core |-> NoAccess] /\ retired = [c \in Core |-> NoAccess]
  BY DEF Init
<1>4. [c \in Core |-> access[c].op = "sw" /\ is_mine[c] /\ ~waiting_for_bus[c]] = [c \in Core |-> FALSE]
  BY <1>3 DEF NoAccess
<1> QED
  BY <1>1, <1>2, <1>3, <1>4 DEF Abstract!Init, Memory, NoAccess, Abstract!NoAccess

-----------------------------------------------------------------------------
LEMMA BaseHolds == Spec /\ StoreIsInCache /\ []CleansWhatItSupplies => []Base
<1>1. Init => PlaceInv /\ SuppliedInPlace /\ CleanPace
  BY InitPlaces, InitAgrees
<1>2. TypeOK /\ ProtocolInvariant /\ MemoryInvariant /\ FlushInvariant /\ CleansWhatItSupplies
        /\ (PlaceInv /\ SuppliedInPlace /\ CleanPace) /\ [Next]_vars /\ [StoreCompletes]_vars
        => (PlaceInv /\ SuppliedInPlace /\ CleanPace)'
  BY PlacesStay
<1>3. Spec /\ StoreIsInCache /\ []CleansWhatItSupplies => [](PlaceInv /\ SuppliedInPlace /\ CleanPace)
  BY <1>1, <1>2, TypeCorrect, ProtocolHolds, MemoryInvariantHolds, FlushInvariantHolds, PTL
     DEF Spec, StoreIsInCache
<1>4. TypeOK /\ ProtocolInvariant /\ MemoryInvariant /\ FlushInvariant /\ CleansWhatItSupplies
        /\ (PlaceInv /\ SuppliedInPlace /\ CleanPace) => Base
  BY DEF Base
<1> QED
  BY <1>3, <1>4, TypeCorrect, ProtocolHolds, MemoryInvariantHolds, FlushInvariantHolds, PTL

LEMMA DataHolds == Spec /\ Lossless => [](Base /\ Agrees(Memory)) /\ ImplementsAtomicMemory
<1>1. Base /\ Init => Agrees(Memory) /\ Abstract!Init
  BY InitImplements
<1>2. Base /\ Base' /\ Agrees(Memory) /\ [Next]_vars /\ [StoreCompletes]_vars /\ [WriteBackStep]_vars
        => Agrees(Memory)' /\ [Abstract!Next]_(Abstract!vars)
  BY DataStep, DataStutters
<1> QED
  BY <1>1, <1>2, BaseHolds, PTL
     DEF Spec, Lossless, StoreIsInCache, WriteBackKept, ImplementsAtomicMemory, Abstract!Spec

(* When nothing is lost, every place that should hold the current word of  *)
(* an address holds it: copies, supplied blocks, request lines, the bus,   *)
(* blocks half received, and memory.                                       *)
THEOREM DataInvariantHolds == Spec /\ Lossless => []DataInvariant
<1>1. Base /\ Agrees(Memory) => DataInvariant
  BY DEF Base, DataInvariant, Memory
<1> QED
  BY <1>1, DataHolds, PTL

(* When nothing is lost, the caches, the bus and main memory together are  *)
(* one memory: a load returns the last word stored at its address.         *)
THEOREM ImplementsAtomicMemoryHolds == Spec /\ Lossless => ImplementsAtomicMemory
BY DataHolds

(* Word k of a block in set i, as an address.                              *)
LEMMA WordOfVictim ==
  ASSUME NEW t \in Int, NEW i \in Set, BlockOf(t, i) \in Addr, NEW k \in 0 .. WORDS_IN_BLOCK - 1,
         NEW a, a = BlockOf(t, i) + k
  PROVE  /\ a \in Addr /\ a \in Int /\ get_block_offset(a) = k /\ line(a) = i * BLOCK_SIZE + k
         /\ get_block_addr(a) = BlockOf(t, i) /\ get_index(a) = i /\ get_tag(a) = t
<1>t. BlockOf(t, i) \in Int /\ k \in Int /\ WORDS_IN_BLOCK \in Int /\ 0 \in 0 .. WORDS_IN_BLOCK - 1
  <2>1. WORDS_IN_BLOCK \in Int /\ 0 \in 0 .. WORDS_IN_BLOCK - 1
    BY BusAssumption
  <2>2. k \in Int
    BY <2>1
  <2>3. BlockOf(t, i) \in Int
    BY ZeroInAddr
  <2> QED
    BY <2>1, <2>2, <2>3
<1>1. get_block_addr(a) = BlockOf(t, i) /\ get_index(a) = i /\ get_tag(a) = t
  BY BlockOfTag
<1>2. BlockOf(t, i) % WORDS_IN_BLOCK = 0
  <2>1. get_block_addr(BlockOf(t, i) + 0) = BlockOf(t, i)
    BY <1>t, BlockOfTag
  <2>2. BlockOf(t, i) + 0 = BlockOf(t, i)
    BY <1>t
  <2> QED
    BY <1>t, <2>1, <2>2, BlockAddr
<1>3. a \in Addr /\ a \in Int
  BY <1>t, <1>2, WordOfBlock, ZeroInAddr
<1>4. get_block_offset(a) = k
  <2>1. a = get_block_addr(a) + get_block_offset(a) /\ get_block_offset(a) \in 0 .. WORDS_IN_BLOCK - 1
    BY <1>3, WordOf
  <2>2. get_block_offset(a) \in Int
    BY <1>t, <2>1
  <2> QED
    BY <1>t, <1>1, <2>1, <2>2
<1> QED
  BY <1>1, <1>3, <1>4 DEF line

(* When nothing is lost, a valid copy that is not Modified holds what      *)
(* memory holds, but for the block and the word that are on the bus.       *)
THEOREM CleanCopiesHold == Spec /\ Lossless => []CleanCopiesMatchMemory
<1>1. ASSUME Base, Agrees(Memory) PROVE CleanCopiesMatchMemory
  <2>1. PICK m : m = Memory
    OBVIOUS
  <2>2. Agrees(m)
    BY <1>1, <2>1
  <2> SUFFICES ASSUME NEW c \in Core, NEW i \in Set, NEW k \in 0 .. BLOCK_SIZE - 1, NEW a,
                      a = CopyAddr(c, i, k), state[c][i] \in {"S", "E"}, ~BeingFilled(c, i),
                      ~(busy /\ TransactionBlock = BlockOf(tag[c][i], i)), ~OnTheBus(a)
               PROVE  dsram[c][i * BLOCK_SIZE + k] = mem[a]
    BY DEF CleanCopiesMatchMemory
  <2>t. /\ tag[c][i] \in Int /\ k \in 0 .. WORDS_IN_BLOCK - 1 /\ 0 \in 0 .. WORDS_IN_BLOCK - 1
        /\ BlockOf(tag[c][i], i) \in Addr /\ BlockOf(tag[c][i], i) \in Int
    <3>1. tag[c][i] \in Int
      BY <1>1, FlushTypes DEF Base
    <3>2. BlockOf(tag[c][i], i) \in Addr
      BY <1>1 DEF Base, PlaceInv, ValidInMemory
    <3>3. k \in 0 .. WORDS_IN_BLOCK - 1 /\ 0 \in 0 .. WORDS_IN_BLOCK - 1
      BY BusAssumption DEF BLOCK_SIZE
    <3> QED
      BY <3>1, <3>2, <3>3, ZeroInAddr
  <2>3. a = BlockOf(tag[c][i], i) + k
    BY DEF CopyAddr
  <2>4. /\ a \in Addr /\ a \in Int /\ line(a) = i * BLOCK_SIZE + k
        /\ get_block_addr(a) = BlockOf(tag[c][i], i) /\ get_index(a) = i /\ get_tag(a) = tag[c][i]
    BY <2>t, <2>3, WordOfVictim
  <2>6. Present(c, a) /\ ~BeingFilled(c, get_index(a))
    BY <2>4 DEF Present
  <2>7. dsram[c][line(a)] = m[a]
    BY <2>2, <2>4, <2>6 DEF Agrees, CopiesAgree
  <2>8. ~Dirty(a)
    <3>1. ASSUME NEW d \in Core, Owns(d, a) PROVE FALSE
      BY <1>1, <2>4, <3>1 DEF Owns, Present, Base, ProtocolInvariant, SingleWriter
    <3>2. ASSUME NEW d \in Core, GaveUp(d, a) PROVE FALSE
      BY <1>1, <2>4, <2>6, <3>2, GaveUpFacts
    <3> QED
      BY <3>1, <3>2 DEF Dirty
  <2>9. Suppliers(a) = {}
    BY <2>4 DEF Suppliers
  <2>10. mem[a] = m[a]
    BY <2>2, <2>4, <2>8, <2>9 DEF WrittenBack, Agrees, MemoryAgrees
  <2> QED
    BY <2>4, <2>7, <2>10
<1>2. Base /\ Agrees(Memory) => CleanCopiesMatchMemory
  BY <1>1
<1> QED
  BY <1>2, DataHolds, PTL

(* Only the last word of a write-back makes a core give a block up.        *)
LEMMA GivingUpCleans ==
  ASSUME Base, [Next]_vars, [StoreCompletes]_vars, NEW c \in Core, NEW i \in Set, GivesUp(c, i)
  PROVE  /\ i = AccessSet(c) /\ need_to_clean_first[c] /\ words_left[c] = WORDS_IN_BLOCK - 1
         /\ CorePhase(c) /\ ~waiting_for_bus[c]
         /\ slot'[c] = [cmd |-> "BUS_FLUSH", addr |-> VictimBlock(c) + (WORDS_IN_BLOCK - 1),
                        data |-> dsram[c][i * BLOCK_SIZE + (WORDS_IN_BLOCK - 1)]]
<1>t. state \in [Core -> [Set -> MESI]]
  BY FlushTypes DEF Base
<1>1. state' # state /\ phase = "core" /\ turn = c
  BY DEF GivesUp
<1>2. Next /\ StoreCompletes
  <2>1. vars' # vars
    BY <1>1 DEF vars, cacheVars, arrays
  <2> QED
    BY <1>1, <2>1 DEF vars, cacheVars, arrays
<1>3. CorePhase(c)
  BY <1>1, <1>2 DEF Next, Tick, MemoryPhase, BusPhase, EdgePhase, SnoopPhase, ResponsePhase, ClockPhase,
     CorePhase
<1>4. ~QuietStep(c)
  BY <1>1 DEF QuietStep, cacheVars, arrays
<1>5. PICK r \in Offered(c) : HitStep(c, r) \/ CleanStep(c, r) \/ RequestStep(c, r)
  BY <1>2, <1>3, <1>4, CoreCases DEF Base
<1>6. get_index(r.addr) \in Set
  <2>1. r.addr \in Addr
    BY StoreAddress DEF Offered, Base
  <2> QED
    BY <2>1, ZeroInAddr, IndexInSet
<1>7. ~HitStep(c, r)
  <2>1. ~ReadHit(c, r.addr)
    BY <1>1 DEF ReadHit, arrays
  <2>2. ~WriteHit(c, r.addr, r.data)
    BY <1>t, <1>6 DEF WriteHit, SetState, GivesUp
  <2> QED
    BY <2>1, <2>2 DEF HitStep
<1>8. ~RequestStep(c, r)
  BY <1>1 DEF RequestStep, RequestBlock, arrays
<1>9. CleanStep(c, r)
  BY <1>5, <1>7, <1>8
<1>10. ~waiting_for_bus[c] /\ VictimBlock(c)' = BlockOf(tag[c][get_index(r.addr)], get_index(r.addr))
  BY <1>3, <1>9, CleanWordIs
<1>11. PICK k \in 0 .. WORDS_IN_BLOCK - 1 :
         /\ slot'[c] = [cmd |-> "BUS_FLUSH", addr |-> VictimBlock(c)' + k,
                        data |-> dsram[c][get_index(r.addr) * BLOCK_SIZE + k]]
         /\ need_to_clean_first[c] /\ r = access[c] /\ k = words_left[c]
         /\ k = WORDS_IN_BLOCK - 1 /\ SetState(c, r.addr, "I")
  BY <1>1, <1>3, <1>9, CleanWordIs
<1>12. i = get_index(r.addr)
  BY <1>t, <1>6, <1>11 DEF SetState, GivesUp
<1>13. i = AccessSet(c) /\ VictimBlock(c)' = VictimBlock(c)
  BY <1>10, <1>11, <1>12 DEF AccessSet, VictimBlock
<1> QED
  BY <1>3, <1>10, <1>11, <1>12, <1>13

(* When nothing is lost, a core that gives a dirty block up has written    *)
(* back every word of it, the counting of cache.c:223-226 notwithstanding. *)
LEMMA WrittenBackWhole ==
  ASSUME Base, NEW m, Agrees(m), [Next]_vars, [StoreCompletes]_vars
  PROVE  WrittenBackStep
<1> SUFFICES ASSUME NEW c \in Core, NEW i \in Set, NEW k \in 0 .. BLOCK_SIZE - 1, GivesUp(c, i),
                    NEW a, a = CopyAddr(c, i, k), NEW d, d = dsram[c][i * BLOCK_SIZE + k]
             PROVE  \/ mem[a] = d
                    \/ OnTheBus(a) /\ CoreFlushOnBus /\ bus_data = d
                    \/ slot'[c] = [cmd |-> "BUS_FLUSH", addr |-> a, data |-> d]
  BY DEF WrittenBackStep
<1>1. /\ i = AccessSet(c) /\ need_to_clean_first[c] /\ words_left[c] = WORDS_IN_BLOCK - 1
      /\ CorePhase(c) /\ ~waiting_for_bus[c]
      /\ slot'[c] = [cmd |-> "BUS_FLUSH", addr |-> VictimBlock(c) + (WORDS_IN_BLOCK - 1),
                     data |-> dsram[c][i * BLOCK_SIZE + (WORDS_IN_BLOCK - 1)]]
  BY GivingUpCleans
<1>t. /\ tag[c][i] \in Int /\ k \in 0 .. WORDS_IN_BLOCK - 1 /\ k \in Int /\ WORDS_IN_BLOCK \in Int
      /\ BlockOf(tag[c][i], i) \in Addr /\ BlockOf(tag[c][i], i) \in Int /\ state[c][i] = "M"
  <2>1. state[c][i] = "M"
    BY DEF GivesUp
  <2>2. BlockOf(tag[c][i], i) \in Addr
    BY <2>1 DEF Base, PlaceInv, ValidInMemory
  <2>3. WORDS_IN_BLOCK \in Int /\ k \in 0 .. WORDS_IN_BLOCK - 1
    BY BusAssumption DEF BLOCK_SIZE
  <2>4. k \in Int
    BY <2>3
  <2>5. tag[c][i] \in Int
    BY FlushTypes DEF Base
  <2> QED
    BY <2>1, <2>2, <2>3, <2>4, <2>5, ZeroInAddr
<1>2. /\ a = VictimBlock(c) + k /\ get_block_addr(a) = VictimBlock(c)
      /\ get_index(a) = i /\ get_tag(a) = tag[c][i]
  BY <1>1, <1>t, BlockOfTag DEF CopyAddr, VictimBlock
<1>3. CASE k = WORDS_IN_BLOCK - 1
  BY <1>1, <1>2, <1>3
<1>4. CASE k < WORDS_IN_BLOCK - 1
  <2>1. a \in Addr /\ a \in Int /\ get_block_offset(a) = k /\ line(a) = i * BLOCK_SIZE + k
    <3>1. a = BlockOf(tag[c][i], i) + k
      BY DEF CopyAddr
    <3> QED
      BY <1>t, <3>1, WordOfVictim
  <2>2. Present(c, a) /\ ~BeingFilled(c, get_index(a))
    BY <1>1, <1>2, <1>t DEF Present, BeingFilled
  <2>3. d = m[a]
    BY <2>1, <2>2 DEF Agrees, CopiesAgree
  <2>4. Cleaned(c, a)
    <3>1. Sent(c) = words_left[c]
      BY <1>1, CoreFrame DEF Sent
    <3> QED
      BY <1>1, <1>2, <1>4, <2>1, <3>1 DEF Cleaned
  <2>5. ~Dirty(a)
    <3>1. ASSUME NEW e \in Core, Owns(e, a), ~Cleaned(e, a) PROVE FALSE
      BY <1>2, <1>t, <2>4, <3>1 DEF Owns, Present, Base, ProtocolInvariant, SingleWriter
    <3>2. ASSUME NEW e \in Core, GaveUp(e, a) PROVE FALSE
      BY <2>1, <2>2, <3>2, GaveUpFacts
    <3> QED
      BY <3>1, <3>2 DEF Dirty
  <2>6. Suppliers(a) = {}
    <3> SUFFICES ASSUME busy, get_block_addr(a) = RequestedBlock PROVE FALSE
      BY SuppliersAre DEF Base, Supplies, Suppliers
    <3> DEFINE o == pending_origid
    <3>1. o \in Core /\ waiting_for_bus[o] /\ waiting_addr[o] \in Int /\ Snooped(c)
      BY <1>1, CoreFrame, MemoryTypes, FlushTypes DEF Base, ProtocolInvariant, BusyInv, RequestMatches
    <3>2. get_index(waiting_addr[o]) = i /\ get_tag(waiting_addr[o]) = tag[c][i]
      BY <1>2, <2>1, <3>1, SameBlock DEF RequestedBlock
    <3>3. c # o /\ Present(c, waiting_addr[o]) /\ state[c][get_index(waiting_addr[o])] = "M"
      BY <1>1, <1>t, <3>1, <3>2 DEF Present
    <3> QED
      BY <3>1, <3>3 DEF Base, ProtocolInvariant, OthersInv
  <2>7. CASE OnTheBus(a) /\ CoreFlushOnBus
    BY <2>1, <2>3, <2>5, <2>7 DEF Agrees, BusAgrees, WordMatters
  <2>8. CASE ~(OnTheBus(a) /\ CoreFlushOnBus)
    BY <2>1, <2>3, <2>5, <2>6, <2>8 DEF Agrees, MemoryAgrees, WrittenBack
  <2> QED
    BY <2>7, <2>8
<1> QED
  BY <1>t, <1>3, <1>4

(* Every word of a dirty block that a core gives up is in memory, on the   *)
(* bus or in the request line, in every execution that loses nothing: what *)
(* the core counts in cache.c:223-226 are its words.                       *)
THEOREM WritesWholeBlockBackHolds == Spec /\ Lossless => WritesWholeBlockBack
<1>1. Base /\ Agrees(Memory) /\ [Next]_vars /\ [StoreCompletes]_vars => WrittenBackStep
  <2> SUFFICES ASSUME Base, Agrees(Memory), [Next]_vars, [StoreCompletes]_vars PROVE WrittenBackStep
    OBVIOUS
  <2>1. PICK m : m = Memory
    OBVIOUS
  <2>2. Agrees(m)
    BY <2>1
  <2> QED
    BY <2>2, WrittenBackWhole
<1> QED
  BY <1>1, DataHolds, PTL DEF Spec, Lossless, StoreIsInCache, WritesWholeBlockBack
-----------------------------------------------------------------------------
(* A program that keeps the write-backs of its cores apart loses nothing.  *)
LEMMA ModifiedIsStored ==
  ASSUME TypeOK, ModifiedByStore, NEW c \in Core, NEW a \in Int, tag[c][get_index(a)] = get_tag(a),
         state[c][get_index(a)] = "M"
  PROVE  StoredBlock(c, get_block_addr(a))
<1>1. PICK b \in Stores[c] : get_index(b) = get_index(a) /\ get_tag(b) = get_tag(a)
  BY IndexInSet DEF ModifiedByStore
<1>2. b \in Int
  BY ProgramAssumption, ZeroInAddr
<1> QED
  BY <1>1, <1>2, SameBlock DEF StoredBlock

(* A request line changes when the bus takes the request, when the cache   *)
(* sends a word of the block it supplies, and in its own core's MEM stage. *)
LEMMA SlotStays ==
  ASSUME Base, Next, NEW c \in Core
  PROVE  slot'[c] \in {slot[c], NoRequest} \/ (ClockPhase(c) /\ SendBlockWord(c)) \/ CorePhase(c)
<1>t. Core \subseteq Agent /\ slot \in [Agent -> Request \cup {NoRequest}] /\ MAIN_MEMORY \in Agent
      /\ c # MAIN_MEMORY
  BY MemoryTypes DEF Base
<1>1. CASE MemoryPhase
  <2>1. slot' = slot \/ \E r : slot' = [slot EXCEPT ![MAIN_MEMORY] = r]
    BY <1>1 DEF MemoryPhase, MemoryClock, TakeFlushedWord, CountDown, SendWord, StartResponse, MemoryIdle,
       BusRequest
  <2> QED
    BY <1>t, <2>1
<1>2. CASE BusPhase
  <2>1. slot' = slot \/ \E a \in Agent : slot' = [slot EXCEPT ![a] = NoRequest]
    BY <1>2, <1>t DEF BusPhase, BusClock, DelayStep, GrantFlush, PutOnBus, GrantRequest, WaitForWord,
       GoIdle, busVars
  <2> QED
    BY <1>t, <2>1
<1>3. CASE EdgePhase
  BY <1>3 DEF EdgePhase, SharedEdge
<1>4. ASSUME NEW d \in Core, SnoopPhase(d) \/ ResponsePhase(d) PROVE slot' = slot
  BY <1>4 DEF SnoopPhase, CacheSnoop, ResponsePhase, CacheHandleBusResponse
<1>5. ASSUME NEW d \in Core, ClockPhase(d), ~(d = c /\ SendBlockWord(c)) PROVE slot'[c] = slot[c]
  BY <1>5, <1>t DEF ClockPhase, CacheClock, SendBlockWord, BusRequest
<1>6. ASSUME NEW d \in Core, CorePhase(d), d # c PROVE slot'[c] = slot[c]
  BY <1>t, <1>6, CoreFrame
<1> QED
  BY <1>1, <1>2, <1>3, <1>4, <1>5, <1>6 DEF Next, Tick

LEMMA VictimIsStored ==
  ASSUME TypeOK, ModifiedByStore, NEW c \in Core, state[c][AccessSet(c)] = "M"
  PROVE  StoredBlock(c, VictimBlock(c))
<1>1. VictimBlock(c) \in Int /\ get_block_addr(VictimBlock(c)) = VictimBlock(c)
  <2>1. VictimBlock(c) \in Int /\ get_block_addr(VictimBlock(c) + 0) = VictimBlock(c)
    BY Victim, BusAssumption
  <2> QED
    BY <2>1
<1>2. get_index(VictimBlock(c)) = AccessSet(c) /\ get_tag(VictimBlock(c)) = tag[c][AccessSet(c)]
  BY <1>1, Victim
<1> QED
  BY <1>1, <1>2, ModifiedIsStored

LEMMA CleaningEvicts ==
  ASSUME TypeOK, NEW c \in Core, MissesOther(c), StoredBlock(c, VictimBlock(c))
  PROVE  Evicts(c)
<1>1. PICK a \in Stores[c] : get_block_addr(a) = VictimBlock(c)
  BY DEF StoredBlock
<1>2. a \in Int
  BY ProgramAssumption, ZeroInAddr
<1>3. get_index(a) = AccessSet(c) /\ get_tag(a) = tag[c][AccessSet(c)]
  BY <1>1, <1>2, Victim
<1>4. access[c].addr \in Touches(c)
  <2>1. access[c] \in AccessOf(c)
    BY TypeOKParts DEF MissesOther, CoresTypeOK
  <2> QED
    BY <2>1 DEF AccessOf, LoadOf, StoreOf, Touches
<1> QED
  BY <1>3, <1>4 DEF Evicts, MissesOther, AccessSet

(* A core that writes one block back is not asked for another: its other   *)
(* blocks are its own.                                                     *)
LEMMA CleansSupplied ==
  ASSUME WriteBacksApart, TypeOK, ProtocolInvariant, FlushInvariant, PlaceInv, ModifiedByStore,
         StoredWords
  PROVE  CleansWhatItSupplies
<1> SUFFICES ASSUME NEW c \in Core, need_to_clean_first[c], Supplies(c), state[c][AccessSet(c)] = "M"
             PROVE  RequestedBlock = VictimBlock(c)
  BY DEF CleansWhatItSupplies, FlushInvariant, CleanInv, CleaningOf
<1> DEFINE o == pending_origid
<1>1. busy /\ o \in Core /\ o # c /\ waiting_for_bus[o]
  <2>1. busy /\ o \in Core
    BY MemoryTypes DEF Supplies
  <2>2. o # c
    BY <2>1 DEF Supplies, ProtocolInvariant, SupplyInv, PlaceInv, SourceIsOther
  <2> QED
    BY <2>1, <2>2 DEF ProtocolInvariant, BusyInv, RequestMatches
<1>2. StoredBlock(c, RequestedBlock) /\ StoredBlock(c, VictimBlock(c)) /\ Evicts(c)
  BY VictimIsStored, CleaningEvicts DEF StoredWords, FlushInvariant, CleanInv, CleaningOf
<1>3. waiting_addr[o] \in Touches(o)
  <2>1. access[o] # NoAccess /\ waiting_addr[o] = access[o].addr
    BY <1>1 DEF ProtocolInvariant, AccessInv
  <2>2. access[o] \in AccessOf(o)
    BY <1>1, <2>1, TypeOKParts DEF CoresTypeOK
  <2> QED
    BY <2>1, <2>2 DEF AccessOf, LoadOf, StoreOf, Touches
<1>4. PICK a \in Stores[c], b \in Stores[c] :
        get_block_addr(a) = VictimBlock(c) /\ get_block_addr(b) = RequestedBlock
  BY <1>2 DEF StoredBlock
<1>5. OthersTouch(c, b)
  BY <1>1, <1>3, <1>4 DEF OthersTouch, RequestedBlock
<1>6. get_block_addr(a) = get_block_addr(b) \/ ~OthersTouch(c, b)
  BY <1>2 DEF WriteBacksApart
<1> QED
  BY <1>4, <1>5, <1>6

(* Outside bus_clock the bus does nothing.                                 *)
LEMMA BusStays ==
  ASSUME Base, Next, phase # "bus"
  PROVE  /\ UNCHANGED <<busy, flush_count, bus_origid, pending_origid, delay_in_progress>>
         /\ busy => RequestedBlock' = RequestedBlock
<1>1. CASE MemoryPhase \/ EdgePhase \/ \E c \in Core : SnoopPhase(c) \/ ClockPhase(c)
  <2>1. UNCHANGED <<lines, control, pending, delay, request>>
    <3>1. CASE MemoryPhase \/ EdgePhase
      BY <3>1 DEF MemoryPhase, MemoryClock, EdgePhase, SharedEdge, cacheVars
    <3>2. ASSUME NEW c \in Core, SnoopPhase(c) PROVE UNCHANGED <<lines, control, pending, delay, request>>
      BY <3>2, SnoopFrame DEF Base
    <3>3. ASSUME NEW c \in Core, ClockPhase(c) PROVE UNCHANGED <<lines, control, pending, delay, request>>
      BY <3>3 DEF ClockPhase, CacheClock
    <3> QED
      BY <1>1, <3>1, <3>2, <3>3
  <2> QED
    BY <2>1 DEF lines, control, pending, delay, request, RequestedBlock
<1>2. ASSUME NEW c \in Core, ResponsePhase(c)
      PROVE  /\ UNCHANGED <<busy, flush_count, bus_origid, pending_origid, delay_in_progress>>
             /\ busy => RequestedBlock' = RequestedBlock
  <2>1. UNCHANGED <<busy, flush_count, bus_origid, pending_origid, delay_in_progress>>
    BY <1>2, ResponseFrame
  <2>2. ASSUME busy PROVE waiting_addr' = waiting_addr
    <3>1. ~FillLastWord(c)
      BY <2>2, WordTaken DEF FillLastWord, Completing, Base
    <3> QED
      BY <1>2, <3>1 DEF ResponsePhase, CacheHandleBusResponse, FillWord, request
  <2> QED
    BY <2>1, <2>2 DEF RequestedBlock
<1>3. ASSUME NEW c \in Core, CorePhase(c)
      PROVE  /\ UNCHANGED <<busy, flush_count, bus_origid, pending_origid, delay_in_progress>>
             /\ busy => RequestedBlock' = RequestedBlock
  BY <1>3, CoreFrame, CoreAccessFrame DEF Base, delay
<1> QED
  BY <1>1, <1>2, <1>3 DEF Next, Tick, BusPhase

(* A core supplies on, or is asked for a Modified block by cache_snoop.    *)
LEMMA SuppliesOn ==
  ASSUME Base, Next, NEW c \in Core
  PROVE  /\ Supplies(c)' =>
              /\ RequestedBlock' = RequestedBlock
              /\ Supplies(c) \/ ( /\ SnoopPhase(c) /\ bus_cmd \in Transaction
                                  /\ Present(c, bus_addr) /\ SnoopState(c) = "M" )
         /\ (Supplies(c) /\ phase # "bus" /\ ~ClockPhase(c)) => Supplies(c)'
<1>t. sending_flush \in [Core -> BOOLEAN]
  BY FlushTypes DEF Base
<1>1. CASE BusPhase
  <2>1. phase = "bus" /\ waiting_addr' = waiting_addr
    BY <1>1, BusFrame
  <2> QED
    BY <1>1, <2>1, BusSuppliers DEF RequestedBlock, Base
<1>2. ASSUME phase # "bus", sending_flush'[c] => sending_flush[c],
             sending_flush'[c] = sending_flush[c] \/ ClockPhase(c)
      PROVE  /\ Supplies(c)' => RequestedBlock' = RequestedBlock /\ Supplies(c)
             /\ Supplies(c) /\ ~ClockPhase(c) => Supplies(c)'
  BY <1>2, BusStays DEF Supplies
<1>3. CASE MemoryPhase \/ EdgePhase \/ \E d \in Core : ResponsePhase(d) \/ CorePhase(d)
  <2>1. sending_flush' = sending_flush
    <3>1. CASE MemoryPhase \/ EdgePhase
      BY <3>1 DEF MemoryPhase, EdgePhase, cacheVars, supply
    <3> QED
      BY <1>3, <3>1, ResponseFrame, CoreFrame
  <2>2. phase # "bus"
    BY <1>3 DEF MemoryPhase, EdgePhase, ResponsePhase, CorePhase
  <2> QED
    BY <1>2, <2>1, <2>2
<1>4. ASSUME NEW d \in Core, ClockPhase(d) PROVE /\ Supplies(c)' => RequestedBlock' = RequestedBlock /\ Supplies(c)
                                                 /\ Supplies(c) /\ ~ClockPhase(c) => Supplies(c)'
  <2>1. phase # "bus"
    BY <1>4 DEF ClockPhase
  <2>2. \/ sending_flush' = sending_flush
        \/ sending_flush' = [sending_flush EXCEPT ![d] = FALSE]
    BY <1>4 DEF ClockPhase, CacheClock, SendBlockWord, EndSupply, supply
  <2>3. sending_flush'[c] = sending_flush[c] \/ (c = d /\ ~sending_flush'[c])
    BY <1>t, <2>2
  <2> QED
    BY <1>2, <1>4, <2>1, <2>3
<1>5. ASSUME NEW d \in Core, SnoopPhase(d)
      PROVE  /\ Supplies(c)' =>
                  /\ RequestedBlock' = RequestedBlock
                  /\ Supplies(c) \/ ( /\ SnoopPhase(c) /\ bus_cmd \in Transaction
                                      /\ Present(c, bus_addr) /\ SnoopState(c) = "M" )
             /\ Supplies(c) => Supplies(c)'
  <2>1. phase # "bus"
    BY <1>5 DEF SnoopPhase
  <2>2. CASE sending_flush'[c] = sending_flush[c]
    BY <1>2, <2>1, <2>2, <1>5 DEF SnoopPhase, ClockPhase
  <2>3. CASE sending_flush'[c] # sending_flush[c]
    <3>1. d = c /\ sending_flush'[c] /\ busy
      BY <1>5, <2>3, SnoopGivesUp DEF supply, Base
    <3>2. bus_cmd \in Transaction /\ Present(c, bus_addr) /\ SnoopState(c) = "M"
      BY <1>5, <2>3, <3>1, SnoopSupplies DEF supply, Base
    <3> QED
      BY <1>5, <2>1, <3>1, <3>2, BusStays DEF Supplies
  <2> QED
    BY <2>2, <2>3
<1> QED
  BY <1>1, <1>3, <1>4, <1>5 DEF Next, Tick, BusPhase, SnoopPhase, ClockPhase

(* A word posted to clean a set is one of the block in it.                 *)
LEMMA CleanAddress ==
  ASSUME Base, NEW c \in Core, CorePhase(c), NEW r \in Offered(c), CleanStep(c, r),
         NEW i, i = get_index(r.addr), NEW b, b = BlockOf(tag[c][i], i)
  PROVE  /\ i \in Set /\ b \in Int /\ get_block_addr(b) = b /\ get_index(b) = i /\ get_tag(b) = tag[c][i]
         /\ get_index(slot'[c].addr) = i /\ get_block_addr(slot'[c].addr) = b
         /\ \/ state[c][i] = "M" /\ state' = state
            \/ /\ need_to_clean_first[c] /\ i = AccessSet(c) /\ b = VictimBlock(c)
               /\ words_left[c] # WORDS_IN_BLOCK - 1 => state' = state
<1>1. i \in Set /\ tag[c][i] \in Int
  <2>1. r.addr \in Int
    BY CleanWordIs, ZeroInAddr
  <2>2. tag \in [Core -> [Set -> Int]]
    BY FlushTypes DEF Base
  <2> QED
    BY <2>1, <2>2, IndexInSet
<1>2. VictimBlock(c)' = b
  BY CleanWordIs
<1>3. PICK k \in 0 .. WORDS_IN_BLOCK - 1 :
        /\ slot'[c] = [cmd |-> "BUS_FLUSH", addr |-> VictimBlock(c)' + k,
                       data |-> dsram[c][get_index(r.addr) * BLOCK_SIZE + k]]
        /\ \/ /\ ~need_to_clean_first[c] /\ state[c][get_index(r.addr)] = "M"
              /\ state' = state /\ k = 0 /\ words_left'[c] = 1
           \/ /\ need_to_clean_first[c] /\ r = access[c] /\ k = words_left[c]
              /\ IF k = WORDS_IN_BLOCK - 1
                 THEN /\ ~need_to_clean_first'[c]
                      /\ state' = state \/ SetState(c, r.addr, "I")
                 ELSE state' = state /\ words_left'[c] = k + 1
  BY CleanWordIs
<1>4. slot'[c].addr = b + k
  BY <1>2, <1>3
<1>5. /\ get_block_addr(b + k) = b /\ get_index(b + k) = i /\ b \in Int
      /\ get_block_addr(b + 0) = b /\ get_index(b + 0) = i /\ get_tag(b + 0) = tag[c][i]
  BY <1>1, BlockOfTag, BusAssumption
<1>6. b + 0 = b
  BY <1>5
<1>7. r = access[c] => i = AccessSet(c) /\ b = VictimBlock(c)
  BY DEF AccessSet, VictimBlock
<1>8. \/ state[c][i] = "M" /\ state' = state
      \/ need_to_clean_first[c] /\ r = access[c] /\ (words_left[c] # WORDS_IN_BLOCK - 1 => state' = state)
  BY <1>3
<1> QED
  BY <1>1, <1>4, <1>5, <1>6, <1>7, <1>8


LEMMA CorePostsStored ==
  ASSUME Base, ModifiedByStore, StoredWords, NEW c \in Core, CorePhase(c), StoreCompletes,
         FlushPosted(c)'
  PROVE  StoredBlock(c, get_block_addr(slot'[c].addr))
<1>1. CASE slot' = slot
  BY <1>1 DEF StoredWords, FlushPosted
<1>2. ASSUME NEW r \in Offered(c), HitStep(c, r) PROVE slot' = slot
  BY <1>2, HitFrame
<1>3. ASSUME NEW r \in Offered(c), RequestStep(c, r) PROVE FALSE
  <2>1. slot'[c].cmd \in Transaction
    BY <1>3, MemoryTypes DEF RequestStep, RequestBlock, BusRequest, Transaction, Base
  <2> QED
    BY <2>1 DEF FlushPosted, Transaction
<1>4. ASSUME NEW r \in Offered(c), CleanStep(c, r)
      PROVE  StoredBlock(c, get_block_addr(slot'[c].addr))
  <2> DEFINE i == get_index(r.addr)
             b == BlockOf(tag[c][i], i)
  <2>1. /\ b \in Int /\ get_block_addr(b) = b /\ get_index(b) = i /\ get_tag(b) = tag[c][i]
        /\ get_block_addr(slot'[c].addr) = b
        /\ state[c][i] # "M" => need_to_clean_first[c] /\ i = AccessSet(c) /\ b = VictimBlock(c)
    BY <1>4, CleanAddress
  <2> HIDE DEF i, b
  <2>4. CASE state[c][i] = "M"
    BY <2>1, <2>4, ModifiedIsStored DEF Base
  <2>5. CASE state[c][i] # "M"
    <3>1. b = VictimBlock(c) /\ need_to_clean_first[c] /\ state[c][AccessSet(c)] # "M"
      BY <2>1, <2>5
    <3>2. Supplies(c) /\ RequestedBlock = b
      BY <3>1 DEF Base, FlushInvariant, CleanInv, CleaningOf
    <3> QED
      BY <2>1, <3>2 DEF StoredWords
  <2> QED
    BY <2>4, <2>5
<1>5. QuietStep(c) => slot' = slot
  BY DEF QuietStep
<1> QED
  BY <1>1, <1>2, <1>3, <1>4, <1>5, CoreCases DEF Base

LEMMA StoredWordsStay ==
  ASSUME Base, ModifiedByStore, StoredWords, Next, StoreCompletes
  PROVE  StoredWords'
<1>1. ASSUME NEW c \in Core, Supplies(c)' PROVE StoredBlock(c, RequestedBlock)'
  <2>1. RequestedBlock' = RequestedBlock
    BY <1>1, SuppliesOn
  <2>2. CASE Supplies(c)
    BY <2>1, <2>2 DEF StoredWords, StoredBlock
  <2>3. CASE bus_cmd \in Transaction /\ Present(c, bus_addr) /\ SnoopState(c) = "M"
    <3>1. bus_addr = waiting_addr[pending_origid] /\ bus_addr \in Int
      BY <2>3, TransactionOnBus, FlushTypes DEF Base
    <3>2. StoredBlock(c, RequestedBlock)
      BY <2>3, <3>1, ModifiedIsStored DEF Present, SnoopState, RequestedBlock, Base
    <3> QED
      BY <2>1, <3>2 DEF StoredBlock
  <2> QED
    BY <1>1, <2>2, <2>3, SuppliesOn
<1>2. ASSUME NEW c \in Core, FlushPosted(c)' PROVE StoredBlock(c, get_block_addr(slot'[c].addr))
  <2>1. CASE slot'[c] \in {slot[c], NoRequest}
    BY <1>2, <2>1 DEF StoredWords, FlushPosted, NoRequest
  <2>2. CASE ClockPhase(c) /\ SendBlockWord(c)
    BY <2>2, SentByClock DEF StoredWords
  <2>3. CASE CorePhase(c)
    BY <1>2, <2>3, CorePostsStored
  <2> QED
    BY <2>1, <2>2, <2>3, SlotStays
<1> QED
  BY <1>1, <1>2 DEF StoredWords, FlushPosted, StoredBlock

(* While a Modified block is written back, a free bus has the word posted  *)
(* last, or it is posted still and not the last one of the block.          *)
LEMMA WritingBackStays ==
  ASSUME Base, NEW d \in Core, WritingBack(d), Next, StoreCompletes
  PROVE  WritingBack(d)'
<1>t. Core \subseteq Agent /\ slot \in [Agent -> Request \cup {NoRequest}] /\ MAIN_MEMORY \in Agent
      /\ AccessSet(d) \in Set
  BY MemoryTypes, Victim DEF Base
<1>1. CASE MemoryPhase \/ EdgePhase
  BY <1>1 DEF MemoryPhase, EdgePhase, GoTo, WritingBack, AfterCoreOf
<1>2. CASE BusPhase
  <2> SUFFICES ASSUME need_to_clean_first[d], state[d][AccessSet(d)] = "M"
               PROVE  BeforeSnoop(d)' /\ (~FlushPosted(d)' => BusIsFree')
    BY <1>2, BusFrame DEF WritingBack, AccessSet
  <2>1. BeforeSnoop(d)'
    BY <1>2, BeforeBusClock, BusAssumption DEF Base, BeforeSnoop, InCachePhases, Core
  <2>2. FlushPosted(d) /\ ~Supplies(d)
    BY <1>2, CleaningWaits, BusFrame DEF Base
  <2>3. ASSUME ~FlushPosted(d)' PROVE BusIsFree'
    <3>1. \A a : slot' = [slot EXCEPT ![a] = NoRequest] => a = d
      BY <1>t, <2>2, <2>3 DEF FlushPosted
    <3>2. GrantFlush(d)
      <4>1. slot' # slot
        BY <2>2, <2>3 DEF FlushPosted
      <4>2. ASSUME NEW a \in Agent, GrantFlush(a) PROVE a = d
        BY <3>1, <4>2 DEF GrantFlush, PutOnBus
      <4>3. ASSUME NEW a \in Core, GrantRequest(a) PROVE FALSE
        BY <2>2, <3>1, <4>3 DEF GrantRequest, Requesting, Transaction, FlushPosted
      <4> QED
        BY <1>2, <4>1, <4>2, <4>3 DEF BusPhase, BusClock, DelayStep, WaitForWord, GoIdle, busVars
    <3>3. ~busy
      BY <1>t, <1>2, <2>2, <3>2, BusSupplier, BusFrame DEF Base
    <3> QED
      BY <3>2, <3>3 DEF GrantFlush, LowestFlush, CountWord, BlockComplete, delay, BusIsFree
  <2> QED
    BY <2>1, <2>3
<1>3. ASSUME NEW c \in Core, SnoopPhase(c) PROVE WritingBack(d)'
  <2>1. /\ UNCHANGED <<slot, tag, access, need_to_clean_first, busy, delay_in_progress>>
        /\ ~AfterCoreOf(d) /\ ~AfterCoreOf(d)'
        /\ state'[d][AccessSet(d)] = "M" => state[d][AccessSet(d)] = "M"
        /\ AccessSet(d)' = AccessSet(d)
    <3>1. UNCHANGED <<slot, tag, access, need_to_clean_first>> /\ ~AfterCoreOf(d) /\ ~AfterCoreOf(d)'
      BY <1>3, SnoopFrame DEF Base
    <3>2. state'[d][AccessSet(d)] = "M" => state[d][AccessSet(d)] = "M"
      BY <1>3, <1>t, SnoopLowers DEF Base
    <3>3. phase # "bus"
      BY <1>3 DEF SnoopPhase
    <3> QED
      BY <3>1, <3>2, <3>3, BusStays DEF AccessSet
  <2> SUFFICES ASSUME need_to_clean_first[d], state[d][AccessSet(d)] = "M", ~AfterCoreOf(d),
                      FlushPosted(d), ~BeforeSnoop(d)'
               PROVE  words_left'[d] < WORDS_IN_BLOCK - 1
    BY <2>1 DEF WritingBack, BusIsFree, FlushPosted
  <2>2. CASE d # c
    BY <1>3, <2>2, SnoopFrame DEF WritingBack, Base
  <2>3. CASE d = c
    <3>1. BeforeSnoop(c) /\ ~OwnWordOnBus(c)
      BY <1>3, <2>3, SnoopFrame DEF CleanPace, Base
    <3>2. ~waiting_for_bus[c] /\ words_left[c] \in 0 .. WORDS_IN_BLOCK - 1
      BY <2>3 DEF Base, FlushInvariant, CleanInv, CleaningOf, MissesOther
    <3>3. ~SnoopOwnRequest(c)
      BY <3>2, TransactionOnBus DEF SnoopOwnRequest, Base, ProtocolInvariant, BusyInv, RequestMatches
    <3>4. words_left' = [words_left EXCEPT ![c] = @ - 1]
      BY <1>3, <2>3, <3>1, <3>3 DEF SnoopPhase, CacheSnoop, SnoopOther, RepeatCleanWord, OwnWordOnBus
    <3>5. words_left \in [Core -> Int] /\ WORDS_IN_BLOCK \in Int
      BY FlushTypes, BusAssumption DEF Base
    <3> QED
      BY <2>3, <3>2, <3>4, <3>5
  <2> QED
    BY <2>2, <2>3
<1>4. ASSUME NEW c \in Core, ResponsePhase(c) PROVE WritingBack(d)'
  <2>1. need_to_clean_first[d] => state'[d] = state[d] /\ tag'[d] = tag[d]
    <3> SUFFICES ASSUME need_to_clean_first[d] PROVE state'[d] = state[d] /\ tag'[d] = tag[d]
      OBVIOUS
    <3>1. ~waiting_for_bus[d]
      BY DEF Base, FlushInvariant, CleanInv, CleaningOf, MissesOther
    <3>2. d = c => UNCHANGED <<tag, state>>
      BY <1>4, <3>1 DEF ResponsePhase, CacheHandleBusResponse, Filling, FillWord, FillLastWord, arrays
    <3>3. d # c => state'[d] = state[d] /\ tag'[d] = tag[d]
      BY <1>4, FlushTypes DEF ResponsePhase, CacheHandleBusResponse, FillWord, FillLastWord, SetState, arrays, Base
    <3> QED
      BY <3>2, <3>3
  <2> QED
    BY <1>4, <2>1, ResponseFrame DEF WritingBack, BusIsFree, AccessSet, FlushPosted
<1>5. ASSUME NEW c \in Core, ClockPhase(c) PROVE WritingBack(d)'
  <2>1. /\ UNCHANGED <<tag, state, access, need_to_clean_first, words_left, busy, delay_in_progress>>
        /\ BeforeSnoop(d)' = BeforeSnoop(d) /\ ~AfterCoreOf(d)
    <3>1. UNCHANGED <<tag, state, access, need_to_clean_first, words_left, busy, delay_in_progress>>
      BY <1>5 DEF ClockPhase, CacheClock, arrays, cleaning, cores, control, delay
    <3> QED
      BY <1>5, <3>1, ClockPosition DEF Base, AfterCoreOf, ClockPhase
  <2>2. (need_to_clean_first[d] /\ state[d][AccessSet(d)] = "M") => slot'[d] = slot[d]
    <3> SUFFICES ASSUME need_to_clean_first[d], state[d][AccessSet(d)] = "M" PROVE slot'[d] = slot[d]
      OBVIOUS
    <3>1. CASE d = c
      <4>1. Snooped(c)
        BY <1>5, BusAssumption DEF Snooped, BeforeSnoop, ClockPhase, Core
      <4>2. ~sending_flush[c]
        BY <3>1, <4>1, CleaningWaits DEF Base, Supplies, ProtocolInvariant, SupplyInv
      <4> QED
        BY <1>5, <4>2 DEF ClockPhase, CacheClock, SendBlockWord
    <3>2. CASE d # c
      BY <1>5, <1>t, <3>2 DEF ClockPhase, CacheClock, SendBlockWord, BusRequest
    <3> QED
      BY <3>1, <3>2
  <2> QED
    BY <2>1, <2>2 DEF WritingBack, BusIsFree, AccessSet, FlushPosted
<1>6. ASSUME NEW c \in Core, CorePhase(c) PROVE WritingBack(d)'
  <2>1. CASE d = c
    BY <1>6, <2>1, CoreFrame DEF WritingBack
  <2>2. CASE d # c
    <3>1. UNCHANGED <<tag, busy, delay_in_progress>>
      BY <1>6, CoreAccessFrame DEF Base, control, delay
    <3> QED
      BY <1>6, <1>t, <2>2, <3>1, CoreFrame DEF WritingBack, BusIsFree, AccessSet, FlushPosted
  <2> QED
    BY <2>1, <2>2
<1> QED
  BY <1>1, <1>2, <1>3, <1>4, <1>5, <1>6 DEF Next, Tick

LEMMA GivenUpIs ==
  ASSUME TypeOK, ProtocolInvariant
  PROVE  \A c \in Core :
           GivenUp(c) <=> /\ FlushPosted(c) /\ state[c][get_index(slot[c].addr)] = "I"
                          /\ ~(Supplies(c) /\ get_block_addr(slot[c].addr) = RequestedBlock)
BY SuppliersAre DEF GivenUp, GaveUp, LastWordPosted, FlushPosted

LEMMA GivenUpNext ==
  (TypeOK /\ ProtocolInvariant)' =>
    (\A c \in Core :
       GivenUp(c) <=> /\ FlushPosted(c) /\ state[c][get_index(slot[c].addr)] = "I"
                      /\ ~(Supplies(c) /\ get_block_addr(slot[c].addr) = RequestedBlock))'
<1>1. TypeOK /\ ProtocolInvariant =>
        \A c \in Core :
          GivenUp(c) <=> /\ FlushPosted(c) /\ state[c][get_index(slot[c].addr)] = "I"
                         /\ ~(Supplies(c) /\ get_block_addr(slot[c].addr) = RequestedBlock)
  BY GivenUpIs
<1> QED
  BY <1>1, PTL

(* Only the core that cleans a block gives it up.                          *)
LEMMA GivenUpBefore ==
  ASSUME Base, TypeOK', ProtocolInvariant', Next, NEW c \in Core, GivenUp(c)', ~CorePhase(c)
  PROVE  GivenUp(c) /\ slot'[c] = slot[c]
<1> DEFINE i == get_index(slot[c].addr)
           b == get_block_addr(slot[c].addr)
<1>g. /\ FlushPosted(c)' /\ state'[c][get_index(slot'[c].addr)] = "I"
      /\ ~(Supplies(c)' /\ get_block_addr(slot'[c].addr) = RequestedBlock')
  BY GivenUpNext
<1>s. ~(ClockPhase(c) /\ SendBlockWord(c))
  <2> SUFFICES ASSUME ClockPhase(c), SendBlockWord(c) PROVE FALSE
    OBVIOUS
  <2>1. RequestedBlock' = RequestedBlock
    <3>1. Supplies(c)'
      BY SentByClock
    <3> QED
      BY <3>1, SuppliesOn
  <2>2. Supplies(c)' /\ get_block_addr(slot'[c].addr) = RequestedBlock
    BY SentByClock
  <2> QED
    BY <1>g, <2>1, <2>2
<1>1. slot'[c] = slot[c] /\ FlushPosted(c) /\ slot[c].addr \in Int /\ i \in Set
  <2>1. slot'[c] = slot[c]
    BY <1>g, <1>s, SlotStays DEF FlushPosted, NoRequest
  <2>2. slot[c].addr \in Int
    BY <1>g, <2>1, FlushTypes, CoreIsAgent DEF FlushPosted, Base
  <2> QED
    BY <1>g, <2>1, <2>2, IndexInSet DEF FlushPosted
<1>2. ~(Supplies(c) /\ b = RequestedBlock)
  <2> SUFFICES ASSUME Supplies(c), b = RequestedBlock PROVE FALSE
    OBVIOUS
  <2>1. CASE BusPhase
    <3>1. busy /\ phase = "bus" /\ ~delay_in_progress
      BY <2>1, NextWord DEF Supplies, BusPhase, Base
    <3>2. \A g \in Agent : ~GrantFlush(g)
      <4> SUFFICES ASSUME NEW g \in Agent, GrantFlush(g) PROVE FALSE
        OBVIOUS
      <4>1. g = c
        BY <3>1, BusSupplier DEF Base
      <4>2. slot'[c] = NoRequest
        BY <4>1, MemoryTypes DEF GrantFlush, PutOnBus, Base
      <4> QED
        BY <1>1, <4>2 DEF FlushPosted, NoRequest
    <3>3. UNCHANGED <<busVars, cacheVars>>
      BY <2>1, <3>1, <3>2 DEF BusPhase, BusClock, DelayStep, GrantRequest, WaitForWord, GoIdle
    <3>4. Supplies(c)' /\ RequestedBlock' = RequestedBlock
      BY <3>3 DEF Supplies, RequestedBlock, busVars, cacheVars, lines, control, pending, supply, request
    <3> QED
      BY <1>1, <1>g, <3>4
  <2>2. CASE ~BusPhase
    <3>1. phase # "bus"
      BY <2>2 DEF Next, Tick, MemoryPhase, EdgePhase, SnoopPhase, ResponsePhase, ClockPhase, CorePhase
    <3>2. Supplies(c)'
      <4>1. CASE ~ClockPhase(c)
        BY <3>1, <4>1, SuppliesOn
      <4>2. CASE ClockPhase(c)
        <5>1. UNCHANGED <<supply, lines, control>>
          BY <1>s, <4>2 DEF ClockPhase, CacheClock
        <5> QED
          BY <5>1 DEF Supplies, supply, lines, control
      <4> QED
        BY <4>1, <4>2
    <3> QED
      BY <1>1, <1>g, <3>2, SuppliesOn
  <2> QED
    BY <2>1, <2>2
<1>3. state[c][i] = "I"
  <2>0. state'[c][i] = "I"
    BY <1>1, <1>g
  <2>1. CASE MemoryPhase \/ BusPhase \/ EdgePhase
    BY <2>0, <2>1 DEF MemoryPhase, BusPhase, EdgePhase, cacheVars, arrays
  <2>2. ASSUME NEW d \in Core, SnoopPhase(d) PROVE state[c][i] = "I"
    <3>1. CASE d # c
      BY <2>0, <2>2, <3>1, SnoopLowers DEF Base
    <3>2. CASE d = c
      <4>1. MissesOther(c) /\ b = VictimBlock(c)
        BY <1>1, <1>2 DEF Base, FlushInvariant, PostedInv, PostedOf
      <4>2. i = AccessSet(c)
        BY <1>1, <4>1, Victim DEF Base
      <4>3. state[c][i] \in {"M", "I"}
        BY <1>1, <1>2, <4>2 DEF Base, PlaceInv, GivenUpBy
      <4>4. state[c][i] = "M" => FALSE
        <5> SUFFICES ASSUME state[c][i] = "M" PROVE FALSE
          OBVIOUS
        <5>1. sending_flush'[c] /\ busy /\ RequestedBlock = VictimBlock(c)
          BY <2>0, <2>2, <3>2, <4>2, SnoopGivesUp DEF Base
        <5>2. busy' /\ RequestedBlock' = RequestedBlock
          BY <2>2, <5>1, BusStays DEF SnoopPhase
        <5> QED
          BY <1>1, <1>g, <4>1, <5>1, <5>2 DEF Supplies
      <4> QED
        BY <4>3, <4>4
    <3> QED
      BY <3>1, <3>2
  <2>3. ASSUME NEW d \in Core, ResponsePhase(d) PROVE state[c][i] = "I"
    <3>1. CASE state' = state
      BY <2>0, <3>1
    <3>2. CASE FillLastWord(d)
      <4>1. \E q \in MESI \ {"I"} : SetState(d, bus_addr, q)
        BY <3>2 DEF FillLastWord, MESI
      <4>2. state'[c][i] = state[c][i] \/ state'[c][i] # "I"
        BY <1>1, <4>1, FlushTypes DEF SetState, Base
      <4> QED
        BY <2>0, <4>2
    <3> QED
      BY <2>3, <3>1, <3>2 DEF ResponsePhase, CacheHandleBusResponse, FillWord, arrays
  <2>4. ASSUME NEW d \in Core, ClockPhase(d) PROVE state[c][i] = "I"
    BY <2>0, <2>4 DEF ClockPhase, CacheClock, arrays
  <2>5. ASSUME NEW d \in Core, CorePhase(d) PROVE state[c][i] = "I"
    <3>1. d # c
      BY <2>5
    <3> QED
      BY <2>0, <2>5, <3>1, CoreFrame
  <2> QED
    BY <2>1, <2>2, <2>3, <2>4, <2>5 DEF Next, Tick
<1> QED
  BY <1>1, <1>2, <1>3, GivenUpIs DEF Base

(* A core has given up the last word of a block that it evicts; another    *)
(* that evicts a block evicts the same, and has no copy of it.             *)
LEMMA EvictsOne ==
  ASSUME WriteBacksApart, Base, ModifiedByStore, StoredWords, NEW c \in Core, NEW d \in Core, c # d,
         GivenUp(d), MissesOther(c), state[c][AccessSet(c)] = "M"
  PROVE  FALSE
<1> DEFINE a == slot[d].addr
<1>1. FlushPosted(d) /\ a \in Int
  BY FlushTypes, CoreIsAgent DEF GivenUp, GaveUp, LastWordPosted, FlushPosted, Base
<1>2. MissesOther(d) /\ get_block_addr(a) = VictimBlock(d) /\ ~Present(c, a)
  BY <1>1, GaveUpFacts DEF GivenUp
<1>3. StoredBlock(d, VictimBlock(d)) /\ StoredBlock(c, VictimBlock(c))
  BY <1>1, <1>2, VictimIsStored DEF StoredWords, Base
<1>4. Evicts(c) /\ Evicts(d)
  BY <1>2, <1>3, CleaningEvicts DEF Base
<1>5. VictimBlock(c) = VictimBlock(d)
  BY <1>3, <1>4 DEF WriteBacksApart, StoredBlock
<1>6. get_index(a) = AccessSet(c) /\ get_tag(a) = tag[c][AccessSet(c)]
  BY <1>1, <1>2, <1>5, Victim DEF Base
<1> QED
  BY <1>2, <1>6 DEF Present

(* bus_clock takes the last word of a block on a free bus: no other agent  *)
(* has a word for it.                                                      *)
LEMMA BusTakesGivenUp ==
  ASSUME WriteBacksApart, Base, ModifiedByStore, StoredWords, NEW c \in Core, TakenNext(c), BusPhase,
         GivenUp(c), slot'[c] = slot[c]
  PROVE  FALSE
<1>t. Core \subseteq Agent /\ slot \in [Agent -> Request \cup {NoRequest}] /\ Agent = Core \cup {MAIN_MEMORY}
  BY MemoryTypes, BusAssumption DEF Base, Agent, Core, MAIN_MEMORY
<1>1. BusIsFree /\ FlushPosted(c) /\ \A d \in Core : GivenUp(d) => d = c
  BY DEF TakenNext, GivenUp, GaveUp, LastWordPosted, FlushPosted
<1>2. c \in FlushReady
  BY <1>t, <1>1 DEF BusIsFree, FlushReady, FlushAllowed, FlushPosted
<1>3. PICK g \in Agent : GrantFlush(g)
  BY <1>1, <1>2 DEF BusIsFree, BusPhase, BusClock, DelayStep, GrantRequest, WaitForWord, GoIdle
<1>4. FlushPosted(g) /\ g # c
  <2>1. g # c
    BY <1>t, <1>1, <1>3 DEF GrantFlush, PutOnBus, FlushPosted, NoRequest
  <2> QED
    BY <1>3, <2>1 DEF GrantFlush, LowestFlush, FlushReady, FlushAllowed, FlushPosted
<1>5. g \in Core
  <2>1. FlushPosted(MAIN_MEMORY) => AtStart \/ busy
    BY DEF Base, FlushInvariant, MemoryWordInv
  <2>2. ~AtStart
    BY <1>1 DEF AtStart, FlushPosted, NoRequest
  <2> QED
    BY <1>t, <1>1, <1>4, <2>1, <2>2 DEF BusIsFree
<1>6. ~Supplies(g)
  BY <1>1 DEF BusIsFree, Supplies
<1>7. MissesOther(g) /\ get_block_addr(slot[g].addr) = VictimBlock(g)
  BY <1>4, <1>5, <1>6 DEF Base, FlushInvariant, PostedInv, PostedOf
<1>8. get_index(slot[g].addr) = AccessSet(g)
  <2>1. slot[g].addr \in Int
    BY <1>4, FlushTypes DEF Base
  <2> QED
    BY <1>5, <1>7, <2>1, Victim DEF Base
<1>9. state[g][AccessSet(g)] \in {"M", "I"}
  BY <1>4, <1>5, <1>6 DEF Base, PlaceInv, GivenUpBy
<1>10. state[g][AccessSet(g)] # "I"
  BY <1>1, <1>4, <1>5, <1>6, <1>8, GivenUpIs DEF Base
<1> QED
  BY <1>4, <1>5, <1>7, <1>9, <1>10, EvictsOne

(* The MEM stage gives a block up when it posts the last word of it, and   *)
(* the word before that one is on a free bus.                              *)
LEMMA OwnGivenUp ==
  ASSUME Base, TypeOK', ProtocolInvariant', Next, StoreCompletes, NEW c \in Core, WritingBack(c), TakenNext(c),
         CorePhase(c), GivenUp(c)'
  PROVE  BusIsFree /\ MissesOther(c) /\ state[c][AccessSet(c)] = "M"
<1>g. /\ FlushPosted(c)' /\ state'[c][get_index(slot'[c].addr)] = "I"
      /\ ~(Supplies(c)' /\ get_block_addr(slot'[c].addr) = RequestedBlock')
  BY GivenUpNext
<1>b. Supplies(c) => Supplies(c)' /\ RequestedBlock' = RequestedBlock
  <2>1. phase # "bus" /\ ~ClockPhase(c)
    BY DEF CorePhase, ClockPhase
  <2> QED
    BY <2>1, SuppliesOn
<1>n. ~GivenUp(c) /\ ~AfterCoreOf(c) /\ ~BeforeSnoop(c)
  BY CoreFrame DEF TakenNext
<1>1. QuietStep(c) => FALSE
  <2> SUFFICES ASSUME QuietStep(c) PROVE FALSE
    OBVIOUS
  <2>1. slot' = slot /\ state' = state
    BY DEF QuietStep, cacheVars, arrays
  <2> QED
    BY <1>b, <1>g, <1>n, <2>1, GivenUpIs DEF Base, FlushPosted
<1>2. ASSUME NEW r \in Offered(c), HitStep(c, r) PROVE FALSE
  <2>1. slot' = slot /\ ~MissesOther(c)
    BY <1>2, HitFrame
  <2>2. Supplies(c) /\ get_block_addr(slot[c].addr) = RequestedBlock
    BY <1>g, <2>1 DEF Base, FlushInvariant, PostedInv, PostedOf, FlushPosted
  <2> QED
    BY <1>b, <1>g, <2>1, <2>2
<1>3. ASSUME NEW r \in Offered(c), RequestStep(c, r) PROVE FALSE
  <2>1. slot'[c].cmd \in Transaction
    BY <1>3, MemoryTypes DEF RequestStep, RequestBlock, BusRequest, Transaction, Base
  <2> QED
    BY <1>g, <2>1 DEF FlushPosted, Transaction
<1>4. ASSUME NEW r \in Offered(c), CleanStep(c, r)
      PROVE  BusIsFree /\ MissesOther(c) /\ state[c][AccessSet(c)] = "M"
  <2> DEFINE i == get_index(r.addr)
             b == BlockOf(tag[c][i], i)
  <2>1. /\ get_index(slot'[c].addr) = i /\ get_block_addr(slot'[c].addr) = b
        /\ \/ state[c][i] = "M" /\ state' = state
           \/ /\ need_to_clean_first[c] /\ i = AccessSet(c) /\ b = VictimBlock(c)
              /\ words_left[c] # WORDS_IN_BLOCK - 1 => state' = state
    BY <1>4, CleanAddress
  <2> HIDE DEF i, b
  <2>5. /\ need_to_clean_first[c] /\ i = AccessSet(c) /\ b = VictimBlock(c)
        /\ words_left[c] # WORDS_IN_BLOCK - 1 => state' = state
    BY <1>g, <2>1
  <2>6. MissesOther(c) /\ state[c][i] = "M"
    BY <1>b, <1>g, <2>1, <2>5 DEF Base, FlushInvariant, CleanInv, CleaningOf
  <2>7. words_left[c] = WORDS_IN_BLOCK - 1 /\ WORDS_IN_BLOCK \in Int
    BY <1>g, <2>1, <2>5, <2>6, BusAssumption
  <2>8. BusIsFree
    BY <1>n, <2>5, <2>6, <2>7 DEF WritingBack
  <2> QED
    BY <2>5, <2>6, <2>8
<1> QED
  BY <1>1, <1>2, <1>3, <1>4, CoreCases DEF Base

LEMMA TakenNextStays ==
  ASSUME WriteBacksApart, Base, TypeOK', ProtocolInvariant', ModifiedByStore, WriteBackInv, Next,
         StoreCompletes, NEW c \in Core
  PROVE  TakenNext(c)'
<1> SUFFICES ASSUME GivenUp(c)'
             PROVE  AfterCoreOf(c)' /\ BusIsFree' /\ \A d \in Core : GivenUp(d)' => d = c
  BY DEF TakenNext
<1>w. /\ \A d \in Core : WritingBack(d) /\ TakenNext(d)
      /\ StoredWords
  BY DEF WriteBackInv
<1>f. phase # "bus" /\ BusIsFree => BusIsFree'
  BY BusStays DEF BusIsFree
<1>1. ASSUME ~CorePhase(c) PROVE AfterCoreOf(c) /\ BusIsFree /\ \A d \in Core : GivenUp(d) => d = c
  BY <1>1, <1>w, GivenUpBefore DEF TakenNext
<1>2. CASE MemoryPhase \/ EdgePhase
  <2>1. /\ phase # "bus" /\ phase' \in {"bus", "memory"} /\ \A d \in Core : ~CorePhase(d)
    BY <1>2 DEF MemoryPhase, EdgePhase, CorePhase, GoTo
  <2> QED
    BY <1>1, <1>f, <2>1, GivenUpBefore DEF AfterCoreOf
<1>3. CASE BusPhase
  <2>1. ~CorePhase(c)
    BY <1>3 DEF BusPhase, CorePhase
  <2> QED
    BY <1>3, <1>w, <2>1, GivenUpBefore, BusTakesGivenUp
<1>4. ASSUME NEW d \in Core, SnoopPhase(d) \/ ResponsePhase(d) \/ ClockPhase(d) PROVE FALSE
  <2>1. phase \in {"snoop", "response", "clock"}
    BY <1>4 DEF SnoopPhase, ResponsePhase, ClockPhase
  <2> QED
    BY <1>1, <2>1 DEF AfterCoreOf, CorePhase
<1>5. ASSUME NEW d \in Core, CorePhase(d)
      PROVE  AfterCoreOf(c)' /\ BusIsFree' /\ \A e \in Core : GivenUp(e)' => e = c
  <2>1. phase # "bus" /\ \A e \in Core : CorePhase(e) => e = d
    BY <1>5 DEF CorePhase
  <2>2. CASE d = c
    <3>1. BusIsFree /\ MissesOther(c) /\ state[c][AccessSet(c)] = "M"
      BY <1>5, <1>w, <2>2, OwnGivenUp
    <3>2. ASSUME NEW e \in Core, GivenUp(e)', e # c PROVE FALSE
      <4>1. GivenUp(e)
        BY <2>1, <2>2, <3>2, GivenUpBefore
      <4> QED
        BY <1>w, <3>1, <3>2, <4>1, EvictsOne
    <3> QED
      BY <1>5, <1>f, <2>1, <2>2, <3>1, <3>2, CoreFrame
  <2>3. CASE d # c
    <3>1. GivenUp(c) /\ AfterCoreOf(c) /\ BusIsFree /\ \A e \in Core : GivenUp(e) => e = c
      BY <1>1, <2>1, <2>3, GivenUpBefore
    <3>2. ASSUME NEW e \in Core, GivenUp(e)', e # c PROVE FALSE
      <4>1. CASE e # d
        BY <2>1, <3>1, <3>2, <4>1, GivenUpBefore
      <4>2. CASE e = d
        <5>1. MissesOther(d) /\ state[d][AccessSet(d)] = "M"
          BY <1>5, <1>w, <3>2, <4>2, OwnGivenUp
        <5> QED
          BY <1>w, <2>3, <3>1, <5>1, EvictsOne
      <4> QED
        BY <4>1, <4>2
    <3> QED
      BY <1>5, <1>f, <2>1, <2>3, <3>1, <3>2, CoreFrame
  <2> QED
    BY <2>2, <2>3
<1> QED
  BY <1>2, <1>3, <1>4, <1>5 DEF Next, Tick

(* No request overwrites a word given up: until the bus takes it, its core *)
(* makes no call.                                                          *)
LEMMA WriteBackIsKept ==
  ASSUME Base, WriteBackInv, Next
  PROVE  WriteBackStep
<1> SUFFICES ASSUME NEW c \in Core, NEW a \in Addr, GaveUp(c, a)
             PROVE  slot'[c] \in {slot[c], NoRequest}
  BY DEF WriteBackStep
<1>1. GivenUp(c)
  BY DEF GivenUp, GaveUp, LastWordPosted
<1>2. AfterCoreOf(c)
  BY <1>1 DEF WriteBackInv, TakenNext
<1>3. ~CorePhase(c)
  BY <1>2, CoreFrame
<1>4. ~ClockPhase(c)
  BY <1>2 DEF AfterCoreOf, ClockPhase
<1> QED
  BY <1>3, <1>4, SlotStays

-----------------------------------------------------------------------------
LosslessInv == PlaceInv /\ SuppliedInPlace /\ CleanPace /\ FitInv /\ WriteBackInv

LEMMA InitLossless == Init => LosslessInv
<1> SUFFICES ASSUME Init PROVE LosslessInv
  OBVIOUS
<1>1. PlaceInv /\ CleanPace /\ SuppliedInPlace
  BY InitPlaces, InitAgrees
<1>2. FitInv
  BY DEF Init, CacheInit, FitInv, ModifiedByStore, CleansForLoad
<1>3. \A c \in Core : slot[c].cmd # "BUS_FLUSH" /\ ~need_to_clean_first[c] /\ ~busy
  <2>1. \A c \in Core : slot[c] = NoRequest
    BY BusAssumption DEF Init, BusInit, Agent, Core, MAIN_MEMORY
  <2>2. \A c \in Core : ~need_to_clean_first[c]
    BY DEF Init, CacheInit
  <2>3. ~busy
    BY DEF Init, BusInit
  <2> QED
    BY <2>1, <2>2, <2>3 DEF NoRequest
<1>4. WriteBackInv
  BY <1>3 DEF WriteBackInv, StoredWords, WritingBack, TakenNext, GivenUp, GaveUp, LastWordPosted,
     Supplies, FlushPosted
<1> QED
  BY <1>1, <1>2, <1>4 DEF LosslessInv

LEMMA LosslessIsBase ==
  ASSUME WriteBacksApart, TypeOK, ProtocolInvariant, MemoryInvariant, FlushInvariant, LosslessInv
  PROVE  Base
BY CleansSupplied DEF LosslessInv, Base, FitInv, WriteBackInv

LEMMA WriteBackStays ==
  ASSUME WriteBacksApart, Base, TypeOK', ProtocolInvariant', ModifiedByStore, WriteBackInv,
         Next, StoreCompletes
  PROVE  WriteBackInv'
<1>1. StoredWords'
  BY StoredWordsStay DEF WriteBackInv
<1>2. \A c \in Core : WritingBack(c)' /\ TakenNext(c)'
  BY WritingBackStays, TakenNextStays DEF WriteBackInv
<1> QED
  BY <1>1, <1>2 DEF WriteBackInv

LEMMA LosslessStays ==
  ASSUME WriteBacksApart, TypeOK, ProtocolInvariant, MemoryInvariant, FlushInvariant,
         TypeOK', ProtocolInvariant', LosslessInv, [Next]_vars, [StoreCompletes]_vars
  PROVE  LosslessInv' /\ [WriteBackStep]_vars
<1>b. Base
  BY LosslessIsBase
<1>1. PlaceInv' /\ SuppliedInPlace' /\ CleanPace'
  BY <1>b, PlacesStay DEF Base
<1>2. FitInv'
  BY NextFits DEF LosslessInv, WriteBacksApart
<1>3. CASE Next /\ StoreCompletes
  <2>1. WriteBackInv' /\ WriteBackStep
    BY <1>3, <1>b, WriteBackStays, WriteBackIsKept DEF LosslessInv, FitInv
  <2> QED
    BY <1>1, <1>2, <2>1 DEF LosslessInv
<1>4. CASE UNCHANGED vars
  <2>1. UNCHANGED <<slot, state, tag, access, need_to_clean_first, words_left, sending_flush, waiting_addr,
                    busy, flush_count, bus_origid, bus_cmd, pending_origid, pending_addr, delay_in_progress,
                    phase, turn>>
    BY <1>4 DEF vars, busVars, lines, control, pending, delay, cacheVars, arrays, cleaning, supply, request,
       loop, cores
  <2>2. \A c \in Core : /\ (Supplies(c)' <=> Supplies(c)) /\ (FlushPosted(c)' <=> FlushPosted(c))
                        /\ (AfterCoreOf(c)' <=> AfterCoreOf(c)) /\ (BeforeSnoop(c)' <=> BeforeSnoop(c))
                        /\ AccessSet(c)' = AccessSet(c)
                        /\ (GivenUp(c)' <=> GivenUp(c))
    BY <2>1 DEF Supplies, FlushPosted, AfterCoreOf, BeforeSnoop, InCachePhases, AccessSet, GivenUp, GaveUp,
       LastWordPosted, Suppliers, TransactionBlock
  <2>3. RequestedBlock' = RequestedBlock /\ (BusIsFree' <=> BusIsFree)
    BY <2>1 DEF RequestedBlock, BusIsFree
  <2>4. WriteBackInv'
    BY <2>1, <2>2, <2>3 DEF LosslessInv, WriteBackInv, StoredWords, StoredBlock, WritingBack, TakenNext
  <2> QED
    BY <1>1, <1>2, <1>4, <2>4 DEF LosslessInv
<1> QED
  BY <1>3, <1>4

LEMMA LosslessInvHolds ==
  ASSUME WriteBacksApart
  PROVE  Spec => StoreIsInCache /\ [](Base /\ WriteBackInv) /\ [][WriteBackStep]_vars
<1>1. StoresFit
  BY DEF WriteBacksApart
<1>2. TypeOK /\ ProtocolInvariant /\ MemoryInvariant /\ FlushInvariant /\ TypeOK' /\ ProtocolInvariant'
        /\ LosslessInv /\ [Next]_vars /\ [StoreCompletes]_vars => LosslessInv' /\ [WriteBackStep]_vars
  BY LosslessStays
<1>3. TypeOK /\ ProtocolInvariant /\ MemoryInvariant /\ FlushInvariant /\ LosslessInv => Base /\ WriteBackInv
  BY LosslessIsBase DEF LosslessInv
<1>4. Spec => StoreIsInCache
  BY <1>1, StoreIsInCacheHolds
<1> QED
  BY <1>2, <1>3, <1>4, InitLossless, TypeCorrect, ProtocolHolds, MemoryInvariantHolds,
     FlushInvariantHolds, PTL DEF Spec, StoreIsInCache

(* The words of a write-back go out one a cycle and are alone in doing so: *)
(* the word posted before is on a free bus when the next one is posted,    *)
(* and no two cores have given up a block at once (cache.c:94-107).        *)
THEOREM WriteBackInvHolds ==
  ASSUME WriteBacksApart
  PROVE  Spec => []WriteBackInv
BY LosslessInvHolds, PTL

(* A core cleans no other block than the one it supplies: of the two, the  *)
(* one that another core asks for is not its own, and it stores to no      *)
(* other that is not (cache.c:100, 325).                                   *)
THEOREM CleansWhatItSuppliesHolds ==
  ASSUME WriteBacksApart
  PROVE  Spec => []CleansWhatItSupplies
<1>1. Base => CleansWhatItSupplies
  BY DEF Base
<1> QED
  BY <1>1, LosslessInvHolds, PTL

(* The last word of a write-back, in no cache any more, is on the bus      *)
(* before its core makes another call (cache.c:101-105): the word before   *)
(* it freed the bus, and no other core writes back beside it.              *)
THEOREM WriteBackKeptHolds ==
  ASSUME WriteBacksApart
  PROVE  Spec => WriteBackKept
BY LosslessInvHolds, PTL DEF WriteBackKept

(* Such a program loses no store and no write-back, and never cleans one   *)
(* block while it supplies another, in any execution: the hypothesis of    *)
(* the theorems above is not one about the schedule.                       *)
THEOREM LosslessHolds ==
  ASSUME WriteBacksApart
  PROVE  Spec => Lossless
BY LosslessInvHolds, CleansWhatItSuppliesHolds, WriteBackKeptHolds, PTL DEF Lossless

(* So the caches, the bus and main memory are one memory for every such    *)
(* program, whatever the interleaving of the cores.                        *)
THEOREM FittingProgramsAreCoherent ==
  ASSUME WriteBacksApart
  PROVE  Spec => /\ []DataInvariant /\ ImplementsAtomicMemory
                 /\ []CleanCopiesMatchMemory /\ WritesWholeBlockBack
BY LosslessHolds, DataInvariantHolds, ImplementsAtomicMemoryHolds, CleanCopiesHold,
   WritesWholeBlockBackHolds, PTL
=============================================================================
