------------------------ MODULE EndpointRuntimeProofs ------------------------
(***************************************************************************)
(* What holds of an input device for every number of client slots, of      *)
(* clients and of IO threads, whether or not the host drains the reads of  *)
(* a client it stops.                                                      *)
(***************************************************************************)
EXTENDS EndpointRuntime, FiniteSetTheorems, WellFoundedInduction, TLAPS

(***************************************************************************)
(* Sizes of a finite set that gains, loses or keeps an element.            *)
(***************************************************************************)
LEMMA OneMore ==
  ASSUME NEW S, IsFiniteSet(S), NEW T, NEW x, x \notin S, T = S \cup {x}
  PROVE  IsFiniteSet(T) /\ Cardinality(T) = Cardinality(S) + 1
  BY FS_AddElement

LEMMA OneLess ==
  ASSUME NEW S, IsFiniteSet(S), NEW T, NEW x, x \in S, T = S \ {x}
  PROVE  /\ IsFiniteSet(T)
         /\ Cardinality(T) = Cardinality(S) - 1
         /\ Cardinality(S) \in Nat \ {0}
  BY FS_RemoveElement, FS_CardinalityType, FS_EmptySet

(***************************************************************************)
(* Starts and stops.  The client slot that is being filled in or given     *)
(* back is not active; a slot that is active carries the starts its client *)
(* is owed.                                                                *)
(***************************************************************************)
ActiveSlots == {s \in Slot : clients[s].active}

SlotsCarryStarts ==
  /\ \A s \in ActiveSlots :
       /\ clients[s].clientID \in Client
       /\ clients[s].referenceCount > 0
       /\ clients[s].referenceCount = owed[clients[s].clientID]
  /\ \A s, u \in ActiveSlots : clients[s].clientID = clients[u].clientID => s = u
  /\ \A c \in Client : owed[c] > 0 => \E s \in ActiveSlots : clients[s].clientID = c

ControlSlotIsInactive ==
  /\ control.pc # "idle" => control.slot \notin ActiveSlots
  /\ control.pc = "publishing" =>
       /\ clients[control.slot].clientID \in Client
       /\ clients[control.slot].referenceCount = 1
       /\ owed[clients[control.slot].clientID] = 0

NestingInv == SlotsCarryStarts /\ ControlSlotIsInactive /\ RunningCountIsExact

(***************************************************************************)
(* The tokens of the client slots.  Those of the slots engaged are as      *)
(* ReadersMatchClients says.                                               *)
(***************************************************************************)
Engaged == ActiveSlots \cup (IF control.pc = "idle" THEN {} ELSE {control.slot})

ReadersInv ==
  /\ \A s \in Engaged :
       /\ clients[s].reader \in RealtimeAudioReaderToken
       /\ tokenIsValid(clients[s].reader)
  /\ \A s, u \in Engaged : clients[s].reader.slot = clients[u].reader.slot => s = u
  /\ \A r \in Slot :
       ringReaders[r].active => \E s \in Engaged : clients[s].reader.slot = r

(***************************************************************************)
(* Reads.  A slot counts the reads that are between entering and leaving   *)
(* it.                                                                     *)
(***************************************************************************)
InsideSteps == {"checking", "validating", "reading", "storing", "leaving"}

InFlight(s) == {t \in IOThread : io[t].pc \in InsideSteps /\ io[t].index = s}

Typed(read) ==
  /\ read.pc # "idle" => read.client \in Client
  /\ read.pc \notin {"idle", "scanning", "silent"} => read.index \in Slot
  /\ read.pc \in {"validating", "reading", "storing"} =>
       read.reader \in RealtimeAudioReaderToken

ReadsAreTyped == \A t \in IOThread : Typed(io[t])

ReadsAreCounted == \A s \in Slot : clients[s].readsInFlight = Cardinality(InFlight(s))

ReadsInv == ReadsAreTyped /\ ReadsAreCounted

(***************************************************************************)
(* A read whose client was not stopped meanwhile has its client's slot     *)
(* still ahead, or is in it.                                               *)
(***************************************************************************)
FindsSlot(read, s) ==
  /\ s \in ActiveSlots /\ clients[s].clientID = read.client
  /\ read.pc \in {"scanning", "matching"} => read.index <= s
  /\ read.pc = "matching" =>
       read.index = s \/ clients[read.index].clientID # read.client
  /\ read.pc \in {"entering", "checking"} => read.index = s
  /\ read.pc # "silent"

SlotFound(read) ==
  read.pc # "idle" /\ read.steady => \E s \in Slot : FindsSlot(read, s)

SteadyReadsFindTheirSlot == \A t \in IOThread : SlotFound(io[t])

RuntimeInv ==
  RuntimeTypeOK /\ NestingInv /\ ReadersInv /\ ReadsInv /\ SteadyReadsFindTheirSlot

-----------------------------------------------------------------------------
LEMMA FirstIsIn ==
  ASSUME NEW slots \in SUBSET Slot, slots # {}
  PROVE  First(slots) \in slots
<1>1. slots \in SUBSET Nat
  BY SlotCountAssumption DEF Slot
<1>2. PICK s \in slots : \A other \in slots : <<other, s>> \notin OpToRel(<, Nat)
  BY <1>1, NatLessThanWellFounded, WFMin
<1>3. \A other \in slots : ~(other < s)
  BY <1>1, <1>2 DEF OpToRel
<1>4. \A other \in slots : s <= other
  BY <1>1, <1>3
<1>5. QED
  BY <1>4 DEF First

\* The slot of a client that runs.
LEMMA RunningSlot ==
  ASSUME SlotsCarryStarts, NEW c \in Client, RunningSlots(c) # {},
         NEW slot, slot = First(RunningSlots(c))
  PROVE  /\ slot \in ActiveSlots /\ clients[slot].clientID = c
         /\ \A s \in ActiveSlots : clients[s].clientID = c => s = slot
<1>1. RunningSlots(c) \in SUBSET Slot
  BY DEF RunningSlots
<1>2. slot \in RunningSlots(c)
  BY <1>1, FirstIsIn
<1>3. slot \in ActiveSlots /\ clients[slot].clientID = c
  BY <1>2 DEF RunningSlots, Runs, ActiveSlots
<1>4. QED
  BY <1>3 DEF SlotsCarryStarts

LEMMA FiniteSets ==
  ASSUME NEW s
  PROVE  IsFiniteSet(ActiveSlots) /\ IsFiniteSet(InFlight(s))
<1>1. IsFiniteSet(Slot) /\ ActiveSlots \in SUBSET Slot
  BY SlotCountAssumption, FS_Interval DEF Slot, ActiveSlots
<1>2. InFlight(s) \in SUBSET IOThread
  BY DEF InFlight
<1>3. QED
  BY <1>1, <1>2, IOThreadAssumption, FS_Subset

LEMMA SlotTypes ==
  /\ \A s \in Slot : s \in Nat /\ s < SlotCount /\ s \in 0 .. SlotCount /\ s + 1 \in 0 .. SlotCount
  /\ SlotCount \in Nat /\ SlotCount \notin Slot
  /\ NoReader \notin RealtimeAudioReaderToken
  /\ \A token \in RealtimeAudioReaderToken : token.slot \in Slot
  BY SlotCountAssumption DEF Slot, NoReader, RealtimeAudioReaderToken

-----------------------------------------------------------------------------
(***************************************************************************)
(* What each part of the invariant depends on.                             *)
(***************************************************************************)
LEMMA NestingKept ==
  ASSUME NestingInv, RuntimeTypeOK, UNCHANGED <<owed, control, runningClientCount>>,
         \A s \in Slot : /\ clients'[s].active = clients[s].active
                         /\ clients'[s].clientID = clients[s].clientID
                         /\ clients'[s].referenceCount = clients[s].referenceCount
  PROVE  NestingInv'
<1>1. ActiveSlots' = ActiveSlots /\ ActiveSlots \subseteq Slot /\ control.slot \in Slot
  BY DEF ActiveSlots, RuntimeTypeOK, ControlState
<1>2. SlotsCarryStarts'
  BY <1>1 DEF NestingInv, SlotsCarryStarts
<1>3. ControlSlotIsInactive'
  BY <1>1 DEF NestingInv, ControlSlotIsInactive
<1>4. RunningCountIsExact'
  BY <1>1 DEF NestingInv, RunningCountIsExact, ActiveSlots
<1>5. QED
  BY <1>2, <1>3, <1>4 DEF NestingInv

LEMMA ReadersKept ==
  ASSUME ReadersInv, RuntimeTypeOK, UNCHANGED control,
         \A s \in Slot : /\ clients'[s].active = clients[s].active
                         /\ clients'[s].reader = clients[s].reader
                         /\ ringReaders'[s].active = ringReaders[s].active
                         /\ ringReaders'[s].generation = ringReaders[s].generation
  PROVE  ReadersInv'
<1>1. Engaged' = Engaged /\ Engaged \subseteq Slot
  BY DEF Engaged, ActiveSlots, RuntimeTypeOK, ControlState
<1>2. \A s \in Engaged : tokenIsValid(clients[s].reader)'
  BY <1>1, SlotTypes DEF ReadersInv, tokenIsValid
<1>3. QED
  BY <1>1, <1>2 DEF ReadersInv

LEMMA ReadsKept ==
  ASSUME ReadsInv, UNCHANGED io,
         \A s \in Slot : clients'[s].readsInFlight = clients[s].readsInFlight
  PROVE  ReadsInv'
<1>1. \A s \in Slot : InFlight(s)' = InFlight(s)
  BY DEF InFlight
<1>2. QED
  BY <1>1 DEF ReadsInv, ReadsAreTyped, ReadsAreCounted

\* A read keeps its slot whatever happens to other slots.
LEMMA SlotStaysFound ==
  ASSUME NEW read, Typed(read), SlotFound(read), SlotsCarryStarts,
         \A s \in ActiveSlots :
           clients[s].clientID = read.client =>
             s \in ActiveSlots' /\ clients'[s].clientID = read.client,
         \A s \in Slot :
           clients[s].clientID # read.client /\ clients'[s].clientID = read.client =>
             \A u \in ActiveSlots : clients[u].clientID # read.client
  PROVE  SlotFound(read)'
<1>1. ASSUME read.pc # "idle", read.steady
      PROVE  \E s \in Slot : FindsSlot(read, s)'
  <2>1. PICK s \in Slot : FindsSlot(read, s)
    BY <1>1 DEF SlotFound
  <2>2. s \in ActiveSlots /\ clients[s].clientID = read.client
    BY <2>1 DEF FindsSlot
  <2>3. read.pc = "matching" =>
          read.index = s \/ clients'[read.index].clientID # read.client
    BY <2>1, <2>2 DEF FindsSlot, Typed
  <2>4. FindsSlot(read, s)'
    BY <2>1, <2>2, <2>3 DEF FindsSlot
  <2>5. QED
    BY <2>4
<1>2. QED
  BY <1>1 DEF SlotFound

LEMMA CountKept ==
  ASSUME ReadsAreCounted,
         \A s \in Slot : /\ clients'[s].readsInFlight = clients[s].readsInFlight
                         /\ InFlight(s)' = InFlight(s)
  PROVE  ReadsAreCounted'
  BY DEF ReadsAreCounted

LEMMA CountEnters ==
  ASSUME ReadsAreCounted, NEW slot \in Slot, NEW t \in IOThread, t \notin InFlight(slot),
         InFlight(slot)' = InFlight(slot) \cup {t},
         clients'[slot].readsInFlight = clients[slot].readsInFlight + 1,
         \A s \in Slot : s # slot =>
           /\ clients'[s].readsInFlight = clients[s].readsInFlight
           /\ InFlight(s)' = InFlight(s)
  PROVE  ReadsAreCounted'
<1>1. Cardinality(InFlight(slot)') = Cardinality(InFlight(slot)) + 1
  BY FiniteSets, OneMore
<1>2. QED
  BY <1>1 DEF ReadsAreCounted

LEMMA CountLeaves ==
  ASSUME ReadsAreCounted, NEW slot \in Slot, NEW t \in IOThread, t \in InFlight(slot),
         InFlight(slot)' = InFlight(slot) \ {t},
         clients'[slot].readsInFlight = clients[slot].readsInFlight - 1,
         \A s \in Slot : s # slot =>
           /\ clients'[s].readsInFlight = clients[s].readsInFlight
           /\ InFlight(s)' = InFlight(s)
  PROVE  ReadsAreCounted'
<1>1. Cardinality(InFlight(slot)') = Cardinality(InFlight(slot)) - 1
  BY FiniteSets, OneLess
<1>2. QED
  BY <1>1 DEF ReadsAreCounted

-----------------------------------------------------------------------------
(***************************************************************************)
(* The steps of a read.                                                    *)
(***************************************************************************)
LEMMA ReadStep ==
  ASSUME RuntimeInv, NEW t \in IOThread, NEW state \in IOState, StepIO(t, state),
         clients' \in [Slot -> ClientSlot], position' \in [Slot -> Nat],
         ringReaders' \in [Slot -> RingReader],
         \A s \in Slot : /\ clients'[s].active = clients[s].active
                         /\ clients'[s].clientID = clients[s].clientID
                         /\ clients'[s].referenceCount = clients[s].referenceCount
                         /\ clients'[s].reader = clients[s].reader
                         /\ ringReaders'[s].active = ringReaders[s].active
                         /\ ringReaders'[s].generation = ringReaders[s].generation,
         Typed(state), SlotFound(state), ReadsAreCounted'
  PROVE  RuntimeInv'
<1>1. /\ io \in [IOThread -> IOState] /\ io' = [io EXCEPT ![t] = state]
      /\ UNCHANGED <<runningClientCount, control, published, owed, claims>>
  BY DEF RuntimeInv, RuntimeTypeOK, StepIO
<1>2. /\ io' \in [IOThread -> IOState] /\ io'[t] = state
      /\ \A u \in IOThread : u # t => io'[u] = io[u]
  BY <1>1
<1>3. RuntimeTypeOK'
  BY <1>1, <1>2 DEF RuntimeInv, RuntimeTypeOK
<1>4. NestingInv' /\ ReadersInv'
  BY <1>1, NestingKept, ReadersKept DEF RuntimeInv
<1>5. ReadsAreTyped'
  BY <1>2 DEF RuntimeInv, ReadsInv, ReadsAreTyped, Typed
<1>6. ActiveSlots' = ActiveSlots /\ ActiveSlots \subseteq Slot
  BY DEF ActiveSlots
<1>7. ASSUME NEW read, Typed(read), SlotFound(read)
      PROVE  SlotFound(read)'
  <2>1. SlotsCarryStarts
    BY DEF RuntimeInv, NestingInv
  <2>2. QED
    BY <1>6, <1>7, <2>1, SlotStaysFound
<1>8. SteadyReadsFindTheirSlot'
  <2>1. ASSUME NEW u \in IOThread
        PROVE  SlotFound(io[u])'
    <3>1. \E read : read = io'[u] /\ Typed(read) /\ SlotFound(read)
      BY <1>2 DEF RuntimeInv, ReadsInv, ReadsAreTyped, SteadyReadsFindTheirSlot
    <3>2. PICK read : read = io'[u] /\ Typed(read) /\ SlotFound(read)
      BY <3>1
    <3>3. SlotFound(read)'
      BY <1>7, <3>2
    <3>4. QED
      BY <3>2, <3>3 DEF SlotFound, FindsSlot
  <2>2. QED
    BY <2>1 DEF SteadyReadsFindTheirSlot
<1>9. QED
  BY <1>3, <1>4, <1>5, <1>8 DEF RuntimeInv, ReadsInv

\* A step that neither enters nor leaves a slot.
LEMMA ReadMovesOn ==
  ASSUME RuntimeInv, NEW t \in IOThread, NEW state \in IOState, StepIO(t, state),
         UNCHANGED clients, position' \in [Slot -> Nat],
         ringReaders' \in [Slot -> RingReader],
         \A s \in Slot : /\ ringReaders'[s].active = ringReaders[s].active
                         /\ ringReaders'[s].generation = ringReaders[s].generation,
         Typed(state), SlotFound(state),
         state.pc \in InsideSteps <=> io[t].pc \in InsideSteps,
         state.pc \in InsideSteps => state.index = io[t].index
  PROVE  RuntimeInv'
<1>1. /\ io \in [IOThread -> IOState] /\ io'[t] = state
      /\ \A u \in IOThread : u # t => io'[u] = io[u]
  BY DEF RuntimeInv, RuntimeTypeOK, StepIO
<1>2. \A s \in Slot : InFlight(s)' = InFlight(s)
  BY <1>1 DEF InFlight
<1>3. ReadsAreCounted'
  BY <1>2, CountKept DEF RuntimeInv, ReadsInv
<1>4. QED
  BY <1>3, ReadStep DEF RuntimeInv, RuntimeTypeOK

LEMMA IdleIOType == IdleIO \in IOState
  BY SlotTypes DEF IdleIO, IOState

LEMMA BeginReadKeeps ==
  ASSUME RuntimeInv, NEW t \in IOThread, NEW c \in Client, NEW k \in ReadSize,
         BeginRead(t, c, k)
  PROVE  RuntimeInv'
<1> DEFINE state == [IdleIO EXCEPT !.pc = "scanning", !.client = c,
                                   !.frameCount = k, !.steady = TRUE]
<1>1. /\ state \in IOState
      /\ state.pc = "scanning" /\ state.client = c /\ state.index = 0
  <2>1. k \in Nat
    BY ReadSizeAssumption
  <2>2. state \in IOState
    BY <2>1, IdleIOType DEF IOState
  <2>3. state.pc = "scanning" /\ state.client = c /\ state.index = 0
    BY IdleIOType DEF IOState, IdleIO
  <2>4. QED
    BY <2>2, <2>3
<1>2. PICK s \in ActiveSlots : clients[s].clientID = c
  BY DEF BeginRead, RuntimeInv, NestingInv, SlotsCarryStarts
<1>3. s \in Slot /\ 0 <= s
  BY SlotTypes DEF ActiveSlots
<1>4. FindsSlot(state, s) /\ Typed(state)
  BY <1>1, <1>2, <1>3 DEF FindsSlot, Typed
<1>5. /\ StepIO(t, state) /\ UNCHANGED <<clients, ringReaders, position>>
      /\ io[t].pc = "idle"
  BY DEF BeginRead
<1> HIDE DEF state
<1>6. QED
  BY <1>1, <1>3, <1>4, <1>5, ReadMovesOn
     DEF SlotFound, InsideSteps, RuntimeInv, RuntimeTypeOK

LEMMA ReadFacts ==
  ASSUME RuntimeInv, NEW t \in IOThread
  PROVE  /\ io[t] \in IOState /\ Typed(io[t]) /\ SlotFound(io[t])
         /\ clients \in [Slot -> ClientSlot] /\ position \in [Slot -> Nat]
         /\ ringReaders \in [Slot -> RingReader] /\ published \in Nat
         /\ SlotsCarryStarts
  BY BoundsAssumption
     DEF RuntimeInv, RuntimeTypeOK, ReadsInv, ReadsAreTyped, SteadyReadsFindTheirSlot,
         NestingInv

LEMMA ScanSlotKeeps ==
  ASSUME RuntimeInv, NEW t \in IOThread, ScanSlot(t)
  PROVE  RuntimeInv'
<1> DEFINE slot == io[t].index
<1>1. /\ io[t].pc = "scanning" /\ slot \in Slot
      /\ UNCHANGED <<clients, ringReaders, position>>
  BY DEF ScanSlot
<1>2. CASE clients[slot].active
  <2> DEFINE state == [io[t] EXCEPT !.pc = "matching"]
  <2>1. /\ state \in IOState /\ state.pc = "matching" /\ state.client = io[t].client
        /\ state.index = slot /\ state.steady = io[t].steady
    BY ReadFacts DEF IOState
  <2>2. StepIO(t, state)
    BY <1>2 DEF ScanSlot
  <2> HIDE DEF state
  <2>3. Typed(state)
    BY <1>1, <2>1, ReadFacts DEF Typed
  <2>4. ASSUME NEW s \in Slot, FindsSlot(io[t], s)
        PROVE  FindsSlot(state, s)
    <3>1. clients[slot].clientID = io[t].client => slot = s
      BY <1>1, <1>2, <2>4, ReadFacts DEF SlotsCarryStarts, FindsSlot, ActiveSlots
    <3>2. QED
      BY <1>1, <2>1, <2>4, <3>1 DEF FindsSlot
  <2>5. SlotFound(state)
    BY <1>1, <2>1, <2>4, ReadFacts DEF SlotFound
  <2>6. QED
    BY <1>1, <2>1, <2>2, <2>3, <2>5, ReadFacts, ReadMovesOn DEF InsideSteps
<1>3. CASE ~clients[slot].active
  <2> DEFINE state == NextSlot(t)
  <2>1. /\ state \in IOState /\ state.pc = "scanning" /\ state.client = io[t].client
        /\ state.index = slot + 1 /\ state.steady = io[t].steady
    BY <1>1, ReadFacts, SlotTypes DEF IOState, NextSlot
  <2>2. StepIO(t, state)
    BY <1>3 DEF ScanSlot
  <2> HIDE DEF state
  <2>3. Typed(state)
    BY <1>1, <2>1, ReadFacts DEF Typed
  <2>4. ASSUME NEW s \in Slot, FindsSlot(io[t], s)
        PROVE  FindsSlot(state, s)
    <3>1. slot # s /\ slot <= s
      BY <1>1, <1>3, <2>4 DEF FindsSlot, ActiveSlots
    <3>2. slot + 1 <= s
      BY <1>1, <3>1, SlotTypes
    <3>3. QED
      BY <2>1, <2>4, <3>2 DEF FindsSlot
  <2>5. SlotFound(state)
    BY <1>1, <2>1, <2>4, ReadFacts DEF SlotFound
  <2>6. QED
    BY <1>1, <2>1, <2>2, <2>3, <2>5, ReadFacts, ReadMovesOn DEF InsideSteps
<1>4. QED
  BY <1>2, <1>3

LEMMA MatchClientKeeps ==
  ASSUME RuntimeInv, NEW t \in IOThread, MatchClient(t)
  PROVE  RuntimeInv'
<1> DEFINE slot == io[t].index
<1>1. /\ io[t].pc = "matching" /\ slot \in Slot
      /\ UNCHANGED <<clients, ringReaders, position>>
  BY ReadFacts DEF MatchClient, Typed
<1>2. CASE clients[slot].clientID = io[t].client
  <2> DEFINE state == [io[t] EXCEPT !.pc = "entering"]
  <2>1. /\ state \in IOState /\ state.pc = "entering" /\ state.client = io[t].client
        /\ state.index = slot /\ state.steady = io[t].steady
    BY ReadFacts DEF IOState
  <2>2. StepIO(t, state)
    BY <1>2 DEF MatchClient
  <2> HIDE DEF state
  <2>3. Typed(state)
    BY <1>1, <2>1, ReadFacts DEF Typed
  <2>4. SlotFound(state)
    BY <1>1, <1>2, <2>1, ReadFacts DEF SlotFound, FindsSlot
  <2>5. QED
    BY <1>1, <2>1, <2>2, <2>3, <2>4, ReadFacts, ReadMovesOn DEF InsideSteps
<1>3. CASE clients[slot].clientID # io[t].client
  <2> DEFINE state == NextSlot(t)
  <2>1. /\ state \in IOState /\ state.pc = "scanning" /\ state.client = io[t].client
        /\ state.index = slot + 1 /\ state.steady = io[t].steady
    BY <1>1, ReadFacts, SlotTypes DEF IOState, NextSlot
  <2>2. StepIO(t, state)
    BY <1>3 DEF MatchClient
  <2> HIDE DEF state
  <2>3. Typed(state)
    BY <1>1, <2>1, ReadFacts DEF Typed
  <2>4. ASSUME NEW s \in Slot, FindsSlot(io[t], s)
        PROVE  FindsSlot(state, s)
    <3>1. slot # s /\ slot <= s
      BY <1>1, <1>3, <2>4 DEF FindsSlot
    <3>2. slot + 1 <= s
      BY <1>1, <3>1, SlotTypes
    <3>3. QED
      BY <2>1, <2>4, <3>2 DEF FindsSlot
  <2>5. SlotFound(state)
    BY <1>1, <2>1, <2>4, ReadFacts DEF SlotFound
  <2>6. QED
    BY <1>1, <2>1, <2>2, <2>3, <2>5, ReadFacts, ReadMovesOn DEF InsideSteps
<1>4. QED
  BY <1>2, <1>3

LEMMA ScanFailsKeeps ==
  ASSUME RuntimeInv, NEW t \in IOThread, ScanFails(t)
  PROVE  RuntimeInv'
<1> DEFINE state == [io[t] EXCEPT !.pc = "silent"]
<1>1. /\ io[t].pc = "scanning" /\ io[t].index = SlotCount /\ StepIO(t, state)
      /\ UNCHANGED <<clients, ringReaders, position>>
  BY DEF ScanFails
<1>2. /\ state \in IOState /\ state.pc = "silent" /\ state.client = io[t].client
      /\ state.steady = io[t].steady
  BY ReadFacts DEF IOState
<1> HIDE DEF state
<1>3. Typed(state)
  BY <1>1, <1>2, ReadFacts DEF Typed
<1>4. ~io[t].steady
  BY <1>1, ReadFacts, SlotTypes DEF SlotFound, FindsSlot
<1>5. SlotFound(state)
  BY <1>2, <1>4 DEF SlotFound
<1>6. QED
  BY <1>1, <1>2, <1>3, <1>5, ReadFacts, ReadMovesOn DEF InsideSteps

LEMMA EnterSlotKeeps ==
  ASSUME RuntimeInv, NEW t \in IOThread, EnterSlot(t), NEW slot, slot = io[t].index
  PROVE  RuntimeInv'
<1> DEFINE state == [io[t] EXCEPT !.pc = "checking"]
<1>1. /\ io[t].pc = "entering" /\ slot \in Slot /\ StepIO(t, state)
      /\ UNCHANGED <<ringReaders, position>>
  BY ReadFacts DEF EnterSlot, Typed
<1>2. /\ state \in IOState /\ state.pc = "checking" /\ state.client = io[t].client
      /\ state.index = slot /\ state.steady = io[t].steady
  BY ReadFacts DEF IOState
<1>3. /\ clients' \in [Slot -> ClientSlot]
      /\ clients'[slot].readsInFlight = clients[slot].readsInFlight + 1
      /\ \A s \in Slot : s # slot => clients'[s] = clients[s]
      /\ clients'[slot].active = clients[slot].active
      /\ clients'[slot].clientID = clients[slot].clientID
      /\ clients'[slot].referenceCount = clients[slot].referenceCount
      /\ clients'[slot].reader = clients[slot].reader
  <2>1. clients[slot] \in ClientSlot /\ clients[slot].readsInFlight + 1 \in Nat
    BY <1>1, ReadFacts DEF ClientSlot
  <2>2. /\ clients'[slot] = [clients[slot] EXCEPT !.readsInFlight = @ + 1]
        /\ \A s \in Slot : s # slot => clients'[s] = clients[s]
        /\ clients' \in [Slot -> {clients'[s] : s \in Slot}]
    BY <1>1, ReadFacts DEF EnterSlot
  <2>3. clients'[slot] \in ClientSlot
    BY <2>1, <2>2 DEF ClientSlot
  <2>4. clients' \in [Slot -> ClientSlot]
    BY <2>2, <2>3, ReadFacts
  <2>5. QED
    BY <2>1, <2>2, <2>4 DEF ClientSlot
<1>4. io' = [io EXCEPT ![t] = state] /\ io \in [IOThread -> IOState]
  BY <1>1 DEF StepIO, RuntimeInv, RuntimeTypeOK
<1> HIDE DEF state
<1>5. Typed(state) /\ SlotFound(state)
  BY <1>1, <1>2, ReadFacts DEF Typed, SlotFound, FindsSlot
<1>6. io'[t] = state /\ \A u \in IOThread : u # t => io'[u] = io[u]
  BY <1>4
<1>7. t \notin InFlight(slot) /\ InFlight(slot)' = InFlight(slot) \cup {t}
  BY <1>1, <1>2, <1>6 DEF InFlight, InsideSteps
<1>8. \A s \in Slot : s # slot => InFlight(s)' = InFlight(s)
  BY <1>1, <1>2, <1>6 DEF InFlight, InsideSteps
<1>9. ReadsAreCounted'
  <2>1. ReadsAreCounted
    BY DEF RuntimeInv, ReadsInv
  <2>2. QED
    BY <1>1, <1>3, <1>7, <1>8, <2>1, CountEnters
<1>10. QED
  BY <1>1, <1>2, <1>3, <1>5, <1>9, ReadFacts, ReadStep

\* A read leaves the slot it was inside of.
LEMMA LeavingKeeps ==
  ASSUME RuntimeInv, NEW t \in IOThread, NEW state \in IOState, StepIO(t, state),
         io[t].pc \in InsideSteps, state.pc \notin InsideSteps,
         NEW slot \in Slot, slot = io[t].index,
         clients' = [clients EXCEPT ![slot].readsInFlight = @ - 1],
         UNCHANGED <<ringReaders, position>>, Typed(state), SlotFound(state)
  PROVE  RuntimeInv'
<1>1. io \in [IOThread -> IOState] /\ io' = [io EXCEPT ![t] = state]
  BY DEF StepIO, RuntimeInv, RuntimeTypeOK
<1>2. io'[t] = state /\ \A u \in IOThread : u # t => io'[u] = io[u]
  BY <1>1
<1>3. t \in InFlight(slot) /\ InFlight(slot)' = InFlight(slot) \ {t}
  BY <1>2 DEF InFlight
<1>4. \A s \in Slot : s # slot => InFlight(s)' = InFlight(s)
  BY <1>2 DEF InFlight
<1>5. clients[slot].readsInFlight \in Nat \ {0}
  <2>1. Cardinality(InFlight(slot)) \in Nat \ {0}
    BY <1>3, FiniteSets, OneLess
  <2>2. QED
    BY <2>1 DEF RuntimeInv, ReadsInv, ReadsAreCounted
<1>6. /\ clients' \in [Slot -> ClientSlot]
      /\ clients'[slot].readsInFlight = clients[slot].readsInFlight - 1
      /\ \A s \in Slot : s # slot => clients'[s] = clients[s]
      /\ clients'[slot].active = clients[slot].active
      /\ clients'[slot].clientID = clients[slot].clientID
      /\ clients'[slot].referenceCount = clients[slot].referenceCount
      /\ clients'[slot].reader = clients[slot].reader
  <2>1. clients[slot] \in ClientSlot /\ clients[slot].readsInFlight - 1 \in Nat
    <3>1. clients[slot] \in ClientSlot
      BY ReadFacts
    <3>2. QED
      BY <1>5, <3>1
  <2>2. /\ clients'[slot] = [clients[slot] EXCEPT !.readsInFlight = @ - 1]
        /\ \A s \in Slot : s # slot => clients'[s] = clients[s]
        /\ clients' \in [Slot -> {clients'[s] : s \in Slot}]
    BY ReadFacts
  <2>3. clients'[slot] \in ClientSlot
    BY <2>1, <2>2 DEF ClientSlot
  <2>4. clients' \in [Slot -> ClientSlot]
    BY <2>2, <2>3, ReadFacts
  <2>5. QED
    BY <2>1, <2>2, <2>4 DEF ClientSlot
<1>7. ReadsAreCounted'
  BY <1>3, <1>4, <1>6, CountLeaves DEF RuntimeInv, ReadsInv
<1>8. QED
  <2>1. \A s \in Slot : /\ clients'[s].active = clients[s].active
                         /\ clients'[s].clientID = clients[s].clientID
                         /\ clients'[s].referenceCount = clients[s].referenceCount
                         /\ clients'[s].reader = clients[s].reader
    BY <1>6
  <2>2. /\ position' \in [Slot -> Nat] /\ ringReaders' \in [Slot -> RingReader]
        /\ ringReaders' = ringReaders
    BY ReadFacts
  <2>3. QED
    BY <1>6, <1>7, <2>1, <2>2, ReadStep

LEMMA CheckAgainKeeps ==
  ASSUME RuntimeInv, NEW t \in IOThread, CheckAgain(t)
  PROVE  RuntimeInv'
<1> DEFINE slot == io[t].index
<1>1. /\ io[t].pc = "checking" /\ slot \in Slot /\ UNCHANGED <<ringReaders, position>>
  BY ReadFacts DEF CheckAgain, Typed
<1>2. CASE Runs(slot, io[t].client) /\ clients[slot].reader # NoReader
  <2> DEFINE state == [io[t] EXCEPT !.pc = "validating", !.reader = clients[slot].reader]
  <2>1. clients[slot].reader \in RealtimeAudioReaderToken
    BY <1>1, <1>2, ReadFacts DEF ClientSlot
  <2>2. /\ state \in IOState /\ state.pc = "validating" /\ state.client = io[t].client
        /\ state.index = slot /\ state.steady = io[t].steady
        /\ state.reader \in RealtimeAudioReaderToken
    BY <2>1, ReadFacts DEF IOState
  <2>3. StepIO(t, state) /\ UNCHANGED clients
    BY <1>2 DEF CheckAgain
  <2> HIDE DEF state
  <2>4. Typed(state) /\ SlotFound(state)
    BY <1>1, <2>2, ReadFacts DEF Typed, SlotFound, FindsSlot
  <2>5. QED
    BY <1>1, <2>2, <2>3, <2>4, ReadFacts, ReadMovesOn DEF InsideSteps
<1>3. CASE ~(Runs(slot, io[t].client) /\ clients[slot].reader # NoReader)
  <2> DEFINE state == [io[t] EXCEPT !.pc = "silent"]
  <2>1. /\ state \in IOState /\ state.pc = "silent" /\ state.client = io[t].client
        /\ state.steady = io[t].steady
    BY ReadFacts DEF IOState
  <2>2. /\ StepIO(t, state)
        /\ clients' = [clients EXCEPT ![slot].readsInFlight = @ - 1]
    BY <1>3 DEF CheckAgain
  <2> HIDE DEF state
  <2>3. ~io[t].steady
    <3>1. ASSUME io[t].steady
          PROVE  FALSE
      <4>1. FindsSlot(io[t], slot)
        BY <1>1, <3>1, ReadFacts DEF SlotFound, FindsSlot
      <4>2. clients[slot].reader \in RealtimeAudioReaderToken
        BY <4>1 DEF FindsSlot, RuntimeInv, ReadersInv, Engaged
      <4>3. QED
        BY <1>1, <1>3, <4>1, <4>2, SlotTypes DEF FindsSlot, Runs, ActiveSlots
    <3>2. QED
      BY <3>1
  <2>4. Typed(state) /\ SlotFound(state)
    BY <1>1, <2>1, <2>3, ReadFacts DEF Typed, SlotFound
  <2>5. QED
    BY <1>1, <2>1, <2>2, <2>4, LeavingKeeps DEF InsideSteps
<1>4. QED
  BY <1>2, <1>3

LEMMA ValidateTokenKeeps ==
  ASSUME RuntimeInv, NEW t \in IOThread, ValidateToken(t)
  PROVE  RuntimeInv'
<1> DEFINE pc == IF tokenIsValid(io[t].reader) THEN "reading" ELSE "leaving"
           state == [io[t] EXCEPT !.pc = pc]
<1>1. /\ io[t].pc = "validating" /\ StepIO(t, state)
      /\ UNCHANGED <<clients, ringReaders, position>>
  BY DEF ValidateToken
<1>2. pc \in {"reading", "leaving"}
  OBVIOUS
<1> HIDE DEF pc
<1>3. /\ state \in IOState /\ state.pc = pc /\ state.client = io[t].client
      /\ state.index = io[t].index /\ state.steady = io[t].steady
      /\ state.reader = io[t].reader
  BY <1>2, ReadFacts DEF IOState
<1> HIDE DEF state
<1>4. Typed(state) /\ SlotFound(state)
  BY <1>1, <1>2, <1>3, ReadFacts DEF Typed, SlotFound, FindsSlot
<1>5. QED
  BY <1>1, <1>2, <1>3, <1>4, ReadFacts, ReadMovesOn DEF InsideSteps

LEMMA LoadCursorKeeps ==
  ASSUME RuntimeInv, NEW t \in IOThread, LoadCursor(t)
  PROVE  RuntimeInv'
<1> DEFINE cursor == Smaller(ringReaders[io[t].reader.slot].cursor + io[t].frameCount,
                             published)
           state == [io[t] EXCEPT !.pc = "storing", !.cursor = cursor]
<1>1. /\ io[t].pc = "reading" /\ StepIO(t, state)
      /\ UNCHANGED <<clients, ringReaders, position>>
  BY DEF LoadCursor
<1>2. cursor \in Nat
  <2>1. io[t].reader.slot \in Slot
    BY <1>1, ReadFacts, SlotTypes DEF Typed
  <2>2. ringReaders[io[t].reader.slot].cursor \in Nat /\ io[t].frameCount \in Nat
    BY <2>1, ReadFacts DEF RingReader, IOState
  <2>3. QED
    BY <2>2, ReadFacts DEF Smaller
<1> HIDE DEF cursor
<1>3. /\ state \in IOState /\ state.pc = "storing" /\ state.client = io[t].client
      /\ state.index = io[t].index /\ state.steady = io[t].steady
      /\ state.reader = io[t].reader
  BY <1>2, ReadFacts DEF IOState
<1> HIDE DEF state
<1>4. Typed(state) /\ SlotFound(state)
  BY <1>1, <1>3, ReadFacts DEF Typed, SlotFound, FindsSlot
<1>5. QED
  BY <1>1, <1>3, <1>4, ReadFacts, ReadMovesOn DEF InsideSteps

LEMMA StoreCursorKeeps ==
  ASSUME RuntimeInv, NEW t \in IOThread, StoreCursor(t)
  PROVE  RuntimeInv'
<1> DEFINE state == [io[t] EXCEPT !.pc = "leaving"]
           slot == io[t].reader.slot
<1>1. /\ io[t].pc = "storing" /\ StepIO(t, state) /\ UNCHANGED clients
  BY DEF StoreCursor
<1>2. slot \in Slot /\ io[t].cursor \in Nat
  BY <1>1, ReadFacts, SlotTypes DEF Typed, IOState
<1>3. position' \in [Slot -> Nat]
  BY <1>2, ReadFacts DEF StoreCursor
<1>4. /\ ringReaders' \in [Slot -> RingReader]
      /\ \A s \in Slot : /\ ringReaders'[s].active = ringReaders[s].active
                         /\ ringReaders'[s].generation = ringReaders[s].generation
  BY <1>2, ReadFacts DEF StoreCursor, RingReader
<1>5. /\ state \in IOState /\ state.pc = "leaving" /\ state.client = io[t].client
      /\ state.index = io[t].index /\ state.steady = io[t].steady
      /\ state.reader = io[t].reader
  BY ReadFacts DEF IOState
<1> HIDE DEF state
<1>6. Typed(state) /\ SlotFound(state)
  BY <1>1, <1>5, ReadFacts DEF Typed, SlotFound, FindsSlot
<1>7. QED
  BY <1>1, <1>3, <1>4, <1>5, <1>6, ReadFacts, ReadMovesOn DEF InsideSteps

LEMMA LeaveSlotKeeps ==
  ASSUME RuntimeInv, NEW t \in IOThread, LeaveSlot(t)
  PROVE  RuntimeInv'
<1>1. io[t].index \in Slot /\ io[t].pc = "leaving"
  BY ReadFacts DEF LeaveSlot, Typed
<1>2. IdleIO.pc = "idle" /\ Typed(IdleIO) /\ SlotFound(IdleIO)
  BY DEF IdleIO, Typed, SlotFound
<1>3. QED
  BY <1>1, <1>2, IdleIOType, LeavingKeeps DEF LeaveSlot, InsideSteps

LEMMA ReturnSilenceKeeps ==
  ASSUME RuntimeInv, NEW t \in IOThread, ReturnSilence(t)
  PROVE  RuntimeInv'
<1>1. IdleIO.pc = "idle" /\ Typed(IdleIO) /\ SlotFound(IdleIO)
  BY DEF IdleIO, Typed, SlotFound
<1>2. QED
  BY <1>1, IdleIOType, ReadFacts, ReadMovesOn DEF ReturnSilence, InsideSteps

LEMMA ContinueReadKeeps ==
  ASSUME RuntimeInv, NEW t \in IOThread, ContinueRead(t)
  PROVE  RuntimeInv'
  BY ScanSlotKeeps, MatchClientKeeps, ScanFailsKeeps, EnterSlotKeeps, CheckAgainKeeps,
     ValidateTokenKeeps, LoadCursorKeeps, StoreCursorKeeps, LeaveSlotKeeps,
     ReturnSilenceKeeps DEF ContinueRead

-----------------------------------------------------------------------------
(***************************************************************************)
(* Starts and stops.                                                       *)
(***************************************************************************)
LEMMA SteadyKept ==
  ASSUME RuntimeInv, UNCHANGED io,
         \A s \in ActiveSlots :
           s \in ActiveSlots' /\ clients'[s].clientID = clients[s].clientID,
         \A s \in Slot :
           clients'[s].clientID # clients[s].clientID =>
             \A u \in ActiveSlots : clients[u].clientID # clients'[s].clientID
  PROVE  SteadyReadsFindTheirSlot'
<1>1. ASSUME NEW t \in IOThread
      PROVE  SlotFound(io[t])'
  <2>1. \E read : read = io[t] /\ Typed(read) /\ SlotFound(read)
    BY ReadFacts
  <2>2. PICK read : read = io[t] /\ Typed(read) /\ SlotFound(read)
    BY <2>1
  <2>3. SlotFound(read)'
    BY <2>2, ReadFacts, SlotStaysFound
  <2>4. QED
    BY <2>2, <2>3 DEF SlotFound, FindsSlot
<1>2. QED
  BY <1>1 DEF SteadyReadsFindTheirSlot

\* A client is started again, or stopped and still running.
LEMMA StartsCounted ==
  ASSUME RuntimeInv, control.pc = "idle", NEW c \in Client,
         NEW slot \in ActiveSlots, clients[slot].clientID = c, NEW n \in Nat, n > 0,
         clients' = [clients EXCEPT ![slot].referenceCount = n],
         owed' = [owed EXCEPT ![c] = n],
         UNCHANGED <<runningClientCount, control, ringReaders, published, io, position,
                     claims>>
  PROVE  RuntimeInv'
<1>1. /\ clients \in [Slot -> ClientSlot] /\ owed \in [Client -> Nat]
      /\ slot \in Slot /\ clients[slot] \in ClientSlot
  BY DEF RuntimeInv, RuntimeTypeOK, ActiveSlots
<1>2. /\ clients'[slot] = [clients[slot] EXCEPT !.referenceCount = n]
      /\ \A s \in Slot : s # slot => clients'[s] = clients[s]
      /\ clients' \in [Slot -> {clients'[s] : s \in Slot}]
  BY <1>1
<1>3. clients'[slot] \in ClientSlot
  BY <1>1, <1>2 DEF ClientSlot
<1>4. /\ clients' \in [Slot -> ClientSlot]
      /\ clients'[slot].referenceCount = n
      /\ \A s \in Slot : /\ clients'[s].active = clients[s].active
                         /\ clients'[s].clientID = clients[s].clientID
                         /\ clients'[s].reader = clients[s].reader
                         /\ clients'[s].readsInFlight = clients[s].readsInFlight
  BY <1>1, <1>2, <1>3 DEF ClientSlot
<1>5. /\ owed' \in [Client -> Nat] /\ owed'[c] = n
      /\ \A d \in Client : d # c => owed'[d] = owed[d]
  BY <1>1
<1>6. RuntimeTypeOK'
  BY <1>4, <1>5 DEF RuntimeInv, RuntimeTypeOK
<1>7. ActiveSlots' = ActiveSlots /\ ActiveSlots \subseteq Slot
  BY <1>4 DEF ActiveSlots
<1>8. SlotsCarryStarts'
  <2>1. SlotsCarryStarts
    BY DEF RuntimeInv, NestingInv
  <2>2. ASSUME NEW s \in ActiveSlots
        PROVE  /\ clients'[s].clientID \in Client
               /\ clients'[s].referenceCount > 0
               /\ clients'[s].referenceCount = owed'[clients'[s].clientID]
    <3>1. CASE s = slot
      BY <1>1, <1>4, <1>5, <3>1
    <3>2. CASE s # slot
      <4>1. clients[s].clientID \in Client /\ clients[s].clientID # c
        BY <2>1, <3>2 DEF SlotsCarryStarts
      <4>2. clients'[s] = clients[s] /\ s \in Slot
        BY <1>2, <1>7, <3>2
      <4>3. QED
        BY <1>5, <2>1, <4>1, <4>2 DEF SlotsCarryStarts
    <3>3. QED
      BY <3>1, <3>2
  <2>3. ASSUME NEW d \in Client, owed'[d] > 0
        PROVE  \E s \in ActiveSlots : clients'[s].clientID = d
    <3>1. d = c \/ owed[d] > 0
      BY <1>5, <2>3
    <3>2. QED
      BY <1>4, <1>7, <2>1, <3>1 DEF SlotsCarryStarts
  <2>4. QED
    BY <1>4, <1>7, <2>1, <2>2, <2>3 DEF SlotsCarryStarts
<1>9. ControlSlotIsInactive' /\ RunningCountIsExact'
  BY <1>7 DEF RuntimeInv, NestingInv, ControlSlotIsInactive, RunningCountIsExact,
              ActiveSlots
<1>10. ReadersInv'
  BY <1>4, ReadersKept DEF RuntimeInv
<1>11. ReadsInv'
  BY <1>4, ReadsKept DEF RuntimeInv
<1>12. SteadyReadsFindTheirSlot'
  BY <1>4, <1>7, SteadyKept
<1>13. QED
  BY <1>6, <1>8, <1>9, <1>10, <1>11, <1>12 DEF RuntimeInv, NestingInv

LEMMA StartAgainKeeps ==
  ASSUME RuntimeInv, NEW c \in Client, StartAgain(c)
  PROVE  RuntimeInv'
<1> DEFINE slot == First(RunningSlots(c))
<1>1. SlotsCarryStarts /\ owed \in [Client -> Nat] /\ clients \in [Slot -> ClientSlot]
  BY DEF RuntimeInv, NestingInv, RuntimeTypeOK
<1>2. /\ slot \in ActiveSlots /\ slot \in Slot /\ clients[slot].clientID = c
      /\ clients[slot].referenceCount = owed[c]
  BY <1>1, RunningSlot DEF StartAgain, SlotsCarryStarts, ActiveSlots
<1>3. PICK n \in Nat : n = owed[c] + 1
  BY <1>1
<1>4. owed' = [owed EXCEPT ![c] = n]
  BY <1>3 DEF StartAgain
<1>5. clients' = [clients EXCEPT ![slot].referenceCount = n]
  BY <1>2, <1>3 DEF StartAgain
<1>6. /\ control.pc = "idle" /\ n > 0
      /\ UNCHANGED <<runningClientCount, control, ringReaders, published, io, position,
                     claims>>
  BY <1>1, <1>3 DEF StartAgain
<1> HIDE DEF slot
<1>7. QED
  BY <1>2, <1>4, <1>5, <1>6, StartsCounted

LEMMA StopOnceKeeps ==
  ASSUME RuntimeInv, NEW c \in Client, StopOnce(c)
  PROVE  RuntimeInv'
<1> DEFINE slot == First(RunningSlots(c))
<1>1. SlotsCarryStarts /\ owed \in [Client -> Nat] /\ clients \in [Slot -> ClientSlot]
  BY DEF RuntimeInv, NestingInv, RuntimeTypeOK
<1>2. /\ slot \in ActiveSlots /\ slot \in Slot /\ clients[slot].clientID = c
      /\ clients[slot].referenceCount = owed[c] /\ clients[slot].referenceCount > 1
  BY <1>1, RunningSlot DEF StopOnce, SlotsCarryStarts, ActiveSlots
<1>3. PICK n \in Nat : n = owed[c] - 1
  BY <1>1, <1>2
<1>4. owed' = [owed EXCEPT ![c] = n]
  BY <1>3 DEF StopOnce
<1>5. clients' = [clients EXCEPT ![slot].referenceCount = n]
  BY <1>2, <1>3 DEF StopOnce
<1>6. /\ control.pc = "idle" /\ n > 0
      /\ UNCHANGED <<runningClientCount, control, ringReaders, published, io, position,
                     claims>>
  BY <1>1, <1>2, <1>3 DEF StopOnce
<1> HIDE DEF slot
<1>7. QED
  BY <1>2, <1>4, <1>5, <1>6, StartsCounted

LEMMA WriteMixKeeps ==
  ASSUME RuntimeInv, WriteMix
  PROVE  RuntimeInv'
<1>1. RuntimeTypeOK'
  BY BoundsAssumption DEF WriteMix, RuntimeInv, RuntimeTypeOK
<1>2. NestingInv' /\ ReadersInv' /\ ReadsInv'
  BY NestingKept, ReadersKept, ReadsKept DEF WriteMix, RuntimeInv
<1>3. SteadyReadsFindTheirSlot'
  BY SteadyKept DEF WriteMix, ActiveSlots
<1>4. QED
  BY <1>1, <1>2, <1>3 DEF RuntimeInv

LEMMA NoStartOwed ==
  ASSUME SlotsCarryStarts, NEW c \in Client, owed[c] \in Nat, RunningSlots(c) = {}
  PROVE  owed[c] = 0 /\ \A s \in ActiveSlots : clients[s].clientID # c
  BY DEF SlotsCarryStarts, RunningSlots, Runs, ActiveSlots

LEMMA ClaimSlotKeeps ==
  ASSUME RuntimeInv, NEW c \in Client, ClaimSlot(c),
         NEW slot, slot = First(FreeSlots), NEW ringSlot, ringSlot = First(FreeRingSlots)
  PROVE  RuntimeInv'
<1>1. /\ clients \in [Slot -> ClientSlot] /\ owed \in [Client -> Nat]
      /\ ringReaders \in [Slot -> RingReader] /\ published \in Nat
      /\ position \in [Slot -> Nat] /\ claims \in 0 .. MaxClaims
      /\ SlotsCarryStarts /\ ReadersInv
  BY BoundsAssumption DEF RuntimeInv, RuntimeTypeOK, NestingInv
<1>2. /\ slot \in Slot /\ slot \notin ActiveSlots
      /\ ringSlot \in Slot /\ ~ringReaders[ringSlot].active
      /\ clients[slot] \in ClientSlot
  <2>1. FreeSlots \in SUBSET Slot /\ FreeSlots # {}
        /\ FreeRingSlots \in SUBSET Slot /\ FreeRingSlots # {}
    BY DEF ClaimSlot, StartRefused, FreeSlots, FreeRingSlots
  <2>2. slot \in FreeSlots /\ ringSlot \in FreeRingSlots
    BY <2>1, FirstIsIn
  <2>3. QED
    BY <1>1, <2>2 DEF FreeSlots, FreeRingSlots, ActiveSlots
<1> DEFINE token == [slot |-> ringSlot, generation |-> ringReaders[ringSlot].generation]
<1>3. /\ control.pc = "idle" /\ control' = [pc |-> "publishing", slot |-> slot]
      /\ claims < MaxClaims /\ claims' = claims + 1
      /\ UNCHANGED <<runningClientCount, published, io, owed>>
      /\ position' = [position EXCEPT ![ringSlot] = published]
      /\ ringReaders' = [ringReaders EXCEPT ![ringSlot] =
                           [ringReaders[ringSlot] EXCEPT !.active = TRUE,
                                                         !.cursor = published]]
      /\ clients' = [clients EXCEPT ![slot] =
                       [clients[slot] EXCEPT !.clientID = c, !.referenceCount = 1,
                                             !.reader = token]]
  BY DEF ClaimSlot
<1>4. token \in RealtimeAudioReaderToken
  BY <1>1, <1>2 DEF RealtimeAudioReaderToken, RingReader
<1>5. owed[c] = 0 /\ \A s \in ActiveSlots : clients[s].clientID # c
  BY <1>1, NoStartOwed DEF ClaimSlot
<1>6. /\ clients'[slot] = [clients[slot] EXCEPT !.clientID = c, !.referenceCount = 1,
                                                !.reader = token]
      /\ \A s \in Slot : s # slot => clients'[s] = clients[s]
      /\ clients' \in [Slot -> {clients'[s] : s \in Slot}]
  BY <1>1, <1>2, <1>3
<1> HIDE DEF token
<1>7. /\ clients'[slot] \in ClientSlot
      /\ clients'[slot].active = clients[slot].active
      /\ clients'[slot].readsInFlight = clients[slot].readsInFlight
      /\ clients'[slot].clientID = c /\ clients'[slot].referenceCount = 1
      /\ clients'[slot].reader = token
  <2> DEFINE a == [clients[slot] EXCEPT !.clientID = c]
             b == [a EXCEPT !.referenceCount = 1]
  <2>1. /\ a \in ClientSlot /\ a.clientID = c
        /\ a.active = clients[slot].active
        /\ a.readsInFlight = clients[slot].readsInFlight
    BY <1>2 DEF ClientSlot
  <2>2. clients'[slot] = [b EXCEPT !.reader = token]
    BY <1>6
  <2> HIDE DEF a
  <2>3. /\ b \in ClientSlot /\ b.clientID = c /\ b.referenceCount = 1
        /\ b.active = clients[slot].active
        /\ b.readsInFlight = clients[slot].readsInFlight
    BY <2>1 DEF ClientSlot
  <2> HIDE DEF b
  <2>4. QED
    BY <1>4, <2>2, <2>3 DEF ClientSlot
<1>8. /\ clients' \in [Slot -> ClientSlot]
      /\ clients'[slot].clientID = c /\ clients'[slot].referenceCount = 1
      /\ clients'[slot].reader = token
      /\ \A s \in Slot : /\ clients'[s].active = clients[s].active
                         /\ clients'[s].readsInFlight = clients[s].readsInFlight
  <2>1. clients' \in [Slot -> ClientSlot]
    BY <1>1, <1>6, <1>7
  <2>2. QED
    BY <1>6, <1>7, <2>1
<1>9. /\ ringReaders' \in [Slot -> RingReader]
      /\ ringReaders'[ringSlot].active
      /\ ringReaders'[ringSlot].generation = ringReaders[ringSlot].generation
      /\ \A r \in Slot : r # ringSlot => ringReaders'[r] = ringReaders[r]
  <2>1. /\ ringReaders'[ringSlot] = [ringReaders[ringSlot] EXCEPT !.active = TRUE,
                                                               !.cursor = published]
        /\ \A r \in Slot : r # ringSlot => ringReaders'[r] = ringReaders[r]
        /\ ringReaders' \in [Slot -> {ringReaders'[r] : r \in Slot}]
    BY <1>1, <1>2, <1>3
  <2>2. ringReaders'[ringSlot] \in RingReader
    BY <1>1, <1>2, <2>1 DEF RingReader
  <2>3. ringReaders' \in [Slot -> RingReader]
    BY <1>1, <2>1, <2>2
  <2>4. QED
    BY <1>1, <1>2, <2>1, <2>3 DEF RingReader
<1>10. RuntimeTypeOK'
  <2>1. control' \in ControlState /\ claims' \in 0 .. MaxClaims
    BY <1>1, <1>2, <1>3, BoundsAssumption DEF ControlState
  <2>2. position' \in [Slot -> Nat]
    BY <1>1, <1>3
  <2>3. QED
    BY <1>3, <1>8, <1>9, <2>1, <2>2 DEF RuntimeInv, RuntimeTypeOK
<1>11. ActiveSlots' = ActiveSlots /\ ActiveSlots \subseteq Slot
  BY <1>8 DEF ActiveSlots
<1>12. \A s \in ActiveSlots : clients'[s] = clients[s]
  BY <1>2, <1>6, <1>11
<1>13. SlotsCarryStarts'
  <2>1. \A s \in ActiveSlots :
          /\ clients'[s].clientID \in Client
          /\ clients'[s].referenceCount > 0
          /\ clients'[s].referenceCount = owed'[clients'[s].clientID]
    BY <1>1, <1>3, <1>12 DEF SlotsCarryStarts
  <2>2. \A s, u \in ActiveSlots : clients'[s].clientID = clients'[u].clientID => s = u
    BY <1>1, <1>12 DEF SlotsCarryStarts
  <2>3. \A d \in Client : owed'[d] > 0 => \E s \in ActiveSlots : clients'[s].clientID = d
    BY <1>1, <1>3, <1>12 DEF SlotsCarryStarts
  <2>4. QED
    BY <1>11, <2>1, <2>2, <2>3 DEF SlotsCarryStarts
<1>14. ControlSlotIsInactive'
  BY <1>2, <1>3, <1>5, <1>8, <1>11 DEF ControlSlotIsInactive
<1>15. RunningCountIsExact'
  BY <1>3, <1>11 DEF RuntimeInv, NestingInv, RunningCountIsExact, ActiveSlots
<1>16. ReadersInv'
  <2>1. Engaged = ActiveSlots /\ Engaged' = ActiveSlots \cup {slot}
    BY <1>3, <1>11 DEF Engaged
  <2>2. ASSUME NEW s \in ActiveSlots
        PROVE  /\ clients'[s] = clients[s]
               /\ clients'[s].reader \in RealtimeAudioReaderToken
               /\ clients[s].reader.slot \in Slot /\ clients[s].reader.slot # ringSlot
               /\ tokenIsValid(clients[s].reader)'
    <3>1. clients[s].reader \in RealtimeAudioReaderToken /\ tokenIsValid(clients[s].reader)
      BY <1>1, <2>1 DEF ReadersInv
    <3>2. clients[s].reader.slot \in Slot /\ clients[s].reader.slot # ringSlot
      BY <1>2, <3>1, SlotTypes DEF tokenIsValid
    <3>3. QED
      BY <1>9, <1>12, <3>1, <3>2 DEF tokenIsValid
  <2>3. /\ clients'[slot].reader \in RealtimeAudioReaderToken
        /\ clients'[slot].reader.slot = ringSlot
        /\ tokenIsValid(clients[slot].reader)'
    BY <1>4, <1>8, <1>9 DEF token, tokenIsValid
  <2>4. \A s, u \in ActiveSlots \cup {slot} :
          clients'[s].reader.slot = clients'[u].reader.slot => s = u
    BY <1>1, <2>1, <2>2, <2>3 DEF ReadersInv
  <2>5. ASSUME NEW r \in Slot, ringReaders'[r].active
        PROVE  \E s \in ActiveSlots \cup {slot} : clients'[s].reader.slot = r
    <3>1. CASE r = ringSlot
      BY <2>3, <3>1
    <3>2. CASE r # ringSlot
      <4>1. ringReaders[r].active
        BY <1>9, <2>5, <3>2
      <4>2. QED
        BY <1>1, <2>1, <2>2, <4>1 DEF ReadersInv
    <3>3. QED
      BY <3>1, <3>2
  <2>6. QED
    BY <2>1, <2>2, <2>3, <2>4, <2>5 DEF ReadersInv
<1>17. ReadsInv'
  BY <1>3, <1>8, ReadsKept DEF RuntimeInv
<1>18. SteadyReadsFindTheirSlot'
  <2>1. UNCHANGED io
    BY <1>3
  <2>2. \A s \in ActiveSlots : s \in ActiveSlots' /\ clients'[s].clientID = clients[s].clientID
    BY <1>11, <1>12
  <2>3. \A s \in Slot :
          clients'[s].clientID # clients[s].clientID =>
            \A u \in ActiveSlots : clients[u].clientID # clients'[s].clientID
    <3>1. \A s \in Slot : s # slot => clients'[s].clientID = clients[s].clientID
      BY <1>6
    <3>2. clients'[slot].clientID = c
      BY <1>8
    <3>3. QED
      BY <1>5, <3>1, <3>2
  <2>4. QED
    BY <2>1, <2>2, <2>3, SteadyKept
<1>19. QED
  BY <1>10, <1>13, <1>14, <1>15, <1>16, <1>17, <1>18 DEF RuntimeInv, NestingInv

\* Marking a slot active, or not.
LEMMA ActiveMarked ==
  ASSUME clients \in [Slot -> ClientSlot], NEW slot \in Slot, NEW b \in BOOLEAN,
         clients' = [clients EXCEPT ![slot].active = b]
  PROVE  /\ clients' \in [Slot -> ClientSlot]
         /\ \A s \in Slot : /\ clients'[s].clientID = clients[s].clientID
                            /\ clients'[s].referenceCount = clients[s].referenceCount
                            /\ clients'[s].reader = clients[s].reader
                            /\ clients'[s].readsInFlight = clients[s].readsInFlight
         /\ ActiveSlots' = IF b THEN ActiveSlots \cup {slot} ELSE ActiveSlots \ {slot}
         /\ ActiveSlots \subseteq Slot
<1>1. /\ clients'[slot] = [clients[slot] EXCEPT !.active = b]
      /\ \A s \in Slot : s # slot => clients'[s] = clients[s]
      /\ clients[slot] \in ClientSlot
      /\ clients' \in [Slot -> {clients'[s] : s \in Slot}]
  OBVIOUS
<1>2. clients'[slot] \in ClientSlot /\ clients'[slot].active = b
  BY <1>1 DEF ClientSlot
<1>3. clients' \in [Slot -> ClientSlot]
  BY <1>1, <1>2
<1>4. \A s \in Slot : /\ clients'[s].clientID = clients[s].clientID
                      /\ clients'[s].referenceCount = clients[s].referenceCount
                      /\ clients'[s].reader = clients[s].reader
                      /\ clients'[s].readsInFlight = clients[s].readsInFlight
  BY <1>1 DEF ClientSlot
<1>5. ActiveSlots' = IF b THEN ActiveSlots \cup {slot} ELSE ActiveSlots \ {slot}
  BY <1>1, <1>2 DEF ActiveSlots
<1>6. QED
  BY <1>3, <1>4, <1>5 DEF ActiveSlots

LEMMA PublishSlotKeeps ==
  ASSUME RuntimeInv, PublishSlot, NEW slot, slot = control.slot,
         NEW c, c = clients[control.slot].clientID
  PROVE  RuntimeInv'
<1>1. /\ clients \in [Slot -> ClientSlot] /\ owed \in [Client -> Nat]
      /\ control \in ControlState /\ slot \in Slot /\ runningClientCount \in Nat
      /\ SlotsCarryStarts /\ ReadersInv
  BY DEF RuntimeInv, RuntimeTypeOK, NestingInv, ControlState
<1>2. /\ control.pc = "publishing" /\ control' = [control EXCEPT !.pc = "idle"]
      /\ clients' = [clients EXCEPT ![slot].active = TRUE]
      /\ runningClientCount' = runningClientCount + 1
      /\ owed' = [owed EXCEPT ![c] = @ + 1]
      /\ UNCHANGED <<ringReaders, published, io, position, claims>>
  BY DEF PublishSlot
<1>3. /\ slot \notin ActiveSlots /\ c \in Client /\ owed[c] = 0
      /\ clients[slot].referenceCount = 1
  BY <1>2 DEF RuntimeInv, NestingInv, ControlSlotIsInactive
<1>4. /\ clients' \in [Slot -> ClientSlot]
      /\ \A s \in Slot : /\ clients'[s].clientID = clients[s].clientID
                         /\ clients'[s].referenceCount = clients[s].referenceCount
                         /\ clients'[s].reader = clients[s].reader
                         /\ clients'[s].readsInFlight = clients[s].readsInFlight
      /\ ActiveSlots' = ActiveSlots \cup {slot} /\ ActiveSlots \subseteq Slot
  BY <1>1, <1>2, ActiveMarked
<1>5. /\ owed' \in [Client -> Nat] /\ owed'[c] = 1
      /\ \A d \in Client : d # c => owed'[d] = owed[d]
  BY <1>1, <1>2, <1>3
<1>6. control' \in ControlState /\ control'.pc = "idle"
  BY <1>1, <1>2 DEF ControlState
<1>7. RuntimeTypeOK'
  BY <1>1, <1>2, <1>4, <1>5, <1>6 DEF RuntimeInv, RuntimeTypeOK
<1>8. \A s \in ActiveSlots : clients[s].clientID \in Client /\ clients[s].clientID # c
  BY <1>1, <1>3 DEF SlotsCarryStarts
<1>9. SlotsCarryStarts'
  <2>1. ASSUME NEW s \in ActiveSlots'
        PROVE  /\ clients'[s].clientID \in Client
               /\ clients'[s].referenceCount > 0
               /\ clients'[s].referenceCount = owed'[clients'[s].clientID]
    <3>1. CASE s = slot
      BY <1>1, <1>2, <1>3, <1>4, <1>5, <3>1
    <3>2. CASE s # slot
      BY <1>1, <1>4, <1>5, <1>8, <2>1, <3>2 DEF SlotsCarryStarts
    <3>3. QED
      BY <3>1, <3>2
  <2>2. ASSUME NEW s \in ActiveSlots', NEW u \in ActiveSlots',
               clients'[s].clientID = clients'[u].clientID
        PROVE  s = u
    BY <1>1, <1>2, <1>4, <1>8, <2>2 DEF SlotsCarryStarts
  <2>3. ASSUME NEW d \in Client, owed'[d] > 0
        PROVE  \E s \in ActiveSlots' : clients'[s].clientID = d
    <3>1. CASE d = c
      BY <1>1, <1>4, <3>1
    <3>2. CASE d # c
      <4>1. PICK s \in ActiveSlots : clients[s].clientID = d
        BY <1>1, <1>5, <2>3, <3>2 DEF SlotsCarryStarts
      <4>2. QED
        BY <1>4, <4>1
    <3>3. QED
      BY <3>1, <3>2
  <2>4. QED
    BY <2>1, <2>2, <2>3 DEF SlotsCarryStarts
<1>10. ControlSlotIsInactive'
  BY <1>6 DEF ControlSlotIsInactive
<1>11. RunningCountIsExact'
  <2>1. Cardinality(ActiveSlots') = Cardinality(ActiveSlots) + 1
    BY <1>3, <1>4, FiniteSets, OneMore
  <2>2. runningClientCount = Cardinality(ActiveSlots)
    <3>1. Cardinality(ActiveSlots) \in Nat
      BY FiniteSets, FS_CardinalityType
    <3>2. QED
      BY <1>2, <3>1 DEF RuntimeInv, NestingInv, RunningCountIsExact, ActiveSlots
  <2>3. runningClientCount' = Cardinality(ActiveSlots')
    BY <1>2, <2>1, <2>2
  <2>4. QED
    BY <1>1, <1>2, <1>6, <2>3 DEF RunningCountIsExact, ActiveSlots
<1>12. ReadersInv'
  <2>1. Engaged' = Engaged /\ Engaged \subseteq Slot
    BY <1>1, <1>2, <1>4, <1>6 DEF Engaged
  <2>2. \A s \in Engaged : tokenIsValid(clients[s].reader)'
    BY <1>1, <1>2, <1>4, <2>1 DEF ReadersInv, tokenIsValid
  <2>3. QED
    BY <1>1, <1>2, <1>4, <2>1, <2>2 DEF ReadersInv
<1>13. ReadsInv'
  BY <1>2, <1>4, ReadsKept DEF RuntimeInv
<1>14. SteadyReadsFindTheirSlot'
  BY <1>2, <1>4, SteadyKept
<1>15. QED
  BY <1>7, <1>9, <1>10, <1>11, <1>12, <1>13, <1>14 DEF RuntimeInv, NestingInv

LEMMA DeactivateKeeps ==
  ASSUME RuntimeInv, NEW c \in Client, Deactivate(c),
         NEW slot, slot = First(RunningSlots(c))
  PROVE  RuntimeInv'
<1>1. /\ clients \in [Slot -> ClientSlot] /\ owed \in [Client -> Nat]
      /\ io \in [IOThread -> IOState] /\ SlotsCarryStarts /\ ReadersInv
      /\ runningClientCount \in Nat
  BY DEF RuntimeInv, RuntimeTypeOK, NestingInv
<1>2. /\ slot \in ActiveSlots /\ slot \in Slot /\ clients[slot].clientID = c
      /\ \A s \in ActiveSlots : clients[s].clientID = c => s = slot
  BY <1>1, RunningSlot DEF Deactivate, ActiveSlots
<1>3. /\ control.pc = "idle" /\ control' = [pc |-> "unregistering", slot |-> slot]
      /\ clients[slot].referenceCount <= 1
      /\ clients' = [clients EXCEPT ![slot].active = FALSE]
      /\ io' = [t \in IOThread |-> IF io[t].client = c
                                     THEN [io[t] EXCEPT !.steady = FALSE] ELSE io[t]]
      /\ owed' = [owed EXCEPT ![c] = @ - 1]
      /\ UNCHANGED <<runningClientCount, ringReaders, published, position, claims>>
  BY DEF Deactivate, Unsteady
<1>4. /\ clients' \in [Slot -> ClientSlot]
      /\ \A s \in Slot : /\ clients'[s].clientID = clients[s].clientID
                         /\ clients'[s].referenceCount = clients[s].referenceCount
                         /\ clients'[s].reader = clients[s].reader
                         /\ clients'[s].readsInFlight = clients[s].readsInFlight
      /\ ActiveSlots' = ActiveSlots \ {slot} /\ ActiveSlots \subseteq Slot
  BY <1>1, <1>2, <1>3, ActiveMarked
<1>5. owed[c] = 1
  BY <1>1, <1>2, <1>3 DEF SlotsCarryStarts
<1>6. /\ owed' \in [Client -> Nat] /\ owed'[c] = 0
      /\ \A d \in Client : d # c => owed'[d] = owed[d]
  BY <1>1, <1>3, <1>5
<1>7. ASSUME NEW t \in IOThread
      PROVE  /\ io'[t] \in IOState /\ io'[t].pc = io[t].pc
             /\ io'[t].client = io[t].client /\ io'[t].index = io[t].index
             /\ io'[t].reader = io[t].reader
             /\ io'[t].steady => io[t].steady /\ io[t].client # c /\ io'[t] = io[t]
  <2>1. io[t] \in IOState
    BY <1>1
  <2>2. CASE io[t].client = c
    <3>1. io'[t] = [io[t] EXCEPT !.steady = FALSE]
      BY <1>3, <2>2
    <3>2. QED
      BY <2>1, <3>1 DEF IOState
  <2>3. CASE io[t].client # c
    <3>1. io'[t] = io[t]
      BY <1>3, <2>3
    <3>2. QED
      BY <2>1, <2>3, <3>1
  <2>4. QED
    BY <2>2, <2>3
<1>8. control' \in ControlState /\ control'.pc = "unregistering" /\ control'.slot = slot
  BY <1>2, <1>3 DEF ControlState
<1>9. RuntimeTypeOK'
  <2>1. io' \in [IOThread -> IOState]
    BY <1>3, <1>7
  <2>2. QED
    BY <1>3, <1>4, <1>6, <1>8, <2>1 DEF RuntimeInv, RuntimeTypeOK
<1>10. \A s \in ActiveSlots' : s \in ActiveSlots /\ s \in Slot /\ clients[s].clientID # c
  BY <1>2, <1>4
<1>11. SlotsCarryStarts'
  <2>1. ASSUME NEW s \in ActiveSlots'
        PROVE  /\ clients'[s].clientID \in Client
               /\ clients'[s].referenceCount > 0
               /\ clients'[s].referenceCount = owed'[clients'[s].clientID]
    <3>1. /\ clients[s].clientID \in Client /\ clients[s].clientID # c
          /\ clients[s].referenceCount > 0
          /\ clients[s].referenceCount = owed[clients[s].clientID]
      BY <1>1, <1>10 DEF SlotsCarryStarts
    <3>2. QED
      BY <1>4, <1>6, <1>10, <3>1
  <2>2. \A s, u \in ActiveSlots' : clients'[s].clientID = clients'[u].clientID => s = u
    BY <1>1, <1>4, <1>10 DEF SlotsCarryStarts
  <2>3. ASSUME NEW d \in Client, owed'[d] > 0
        PROVE  \E s \in ActiveSlots' : clients'[s].clientID = d
    <3>1. d # c /\ owed[d] > 0
      BY <1>6, <2>3
    <3>2. PICK s \in ActiveSlots : clients[s].clientID = d
      BY <1>1, <3>1 DEF SlotsCarryStarts
    <3>3. s # slot
      BY <1>2, <3>1, <3>2
    <3>4. QED
      BY <1>4, <3>2, <3>3
  <2>4. QED
    BY <2>1, <2>2, <2>3 DEF SlotsCarryStarts
<1>12. ControlSlotIsInactive'
  BY <1>4, <1>8 DEF ControlSlotIsInactive
<1>13. RunningCountIsExact'
  <2>1. /\ Cardinality(ActiveSlots') = Cardinality(ActiveSlots) - 1
        /\ Cardinality(ActiveSlots) \in Nat
    BY <1>2, <1>4, FiniteSets, OneLess
  <2>2. runningClientCount = Cardinality(ActiveSlots)
    BY <1>3, <2>1 DEF RuntimeInv, NestingInv, RunningCountIsExact, ActiveSlots
  <2>3. runningClientCount' = Cardinality(ActiveSlots') + 1
    BY <1>3, <2>1, <2>2
  <2>4. QED
    BY <1>8, <2>3 DEF RunningCountIsExact, ActiveSlots
<1>14. ReadersInv'
  <2>1. Engaged' = Engaged /\ Engaged \subseteq Slot
    BY <1>2, <1>3, <1>4, <1>8 DEF Engaged
  <2>2. \A s \in Engaged : tokenIsValid(clients[s].reader)'
    BY <1>1, <1>3, <1>4, <2>1 DEF ReadersInv, tokenIsValid
  <2>3. QED
    BY <1>1, <1>3, <1>4, <2>1, <2>2 DEF ReadersInv
<1>15. ReadsInv'
  <2>1. \A s \in Slot : InFlight(s)' = InFlight(s)
    BY <1>7 DEF InFlight
  <2>2. ReadsAreCounted'
    BY <1>4, <2>1, CountKept DEF RuntimeInv, ReadsInv
  <2>3. ReadsAreTyped'
    BY <1>7 DEF RuntimeInv, ReadsInv, ReadsAreTyped, Typed
  <2>4. QED
    BY <2>2, <2>3 DEF ReadsInv
<1>16. SteadyReadsFindTheirSlot'
  <2>1. ASSUME NEW t \in IOThread, io'[t].pc # "idle", io'[t].steady
        PROVE  \E s \in Slot : FindsSlot(io[t], s)'
    <3>1. PICK s \in Slot : FindsSlot(io[t], s)
      BY <1>7, <2>1, ReadFacts DEF SlotFound
    <3>2. s \in ActiveSlots'
      BY <1>2, <1>4, <1>7, <2>1, <3>1 DEF FindsSlot
    <3>3. io[t].pc = "matching" => io[t].index \in Slot
      BY ReadFacts DEF Typed
    <3>4. FindsSlot(io[t], s)'
      BY <1>4, <1>7, <2>1, <3>1, <3>2, <3>3 DEF FindsSlot
    <3>5. QED
      BY <3>4
  <2>2. QED
    BY <2>1 DEF SteadyReadsFindTheirSlot, SlotFound
<1>17. QED
  BY <1>9, <1>11, <1>12, <1>13, <1>14, <1>15, <1>16 DEF RuntimeInv, NestingInv

LEMMA UnregisterReaderKeeps ==
  ASSUME RuntimeInv, UnregisterReader, NEW slot, slot = control.slot,
         NEW token, token = clients[control.slot].reader
  PROVE  RuntimeInv'
<1>1. /\ clients \in [Slot -> ClientSlot] /\ ringReaders \in [Slot -> RingReader]
      /\ control \in ControlState /\ slot \in Slot /\ runningClientCount \in Nat
      /\ ReadersInv
  BY DEF RuntimeInv, RuntimeTypeOK, ControlState
<1>2. /\ control.pc = "unregistering" /\ control' = [control EXCEPT !.pc = "idle"]
      /\ runningClientCount' = runningClientCount - 1
      /\ UNCHANGED <<clients, published, io, owed, position, claims>>
  BY DEF UnregisterReader
<1>3. /\ slot \in Engaged /\ slot \notin ActiveSlots
      /\ token \in RealtimeAudioReaderToken /\ tokenIsValid(token) /\ token.slot \in Slot
      /\ Engaged = ActiveSlots \cup {slot}
  <2>1. Engaged = ActiveSlots \cup {slot} /\ slot \notin ActiveSlots
    BY <1>2 DEF Engaged, RuntimeInv, NestingInv, ControlSlotIsInactive
  <2>2. QED
    BY <1>1, <2>1, SlotTypes DEF ReadersInv
<1>4. ringReaders' = [ringReaders EXCEPT ![token.slot] =
                        [ringReaders[token.slot] EXCEPT !.active = FALSE,
                                                        !.generation = @ + 1]]
  BY <1>3 DEF UnregisterReader
<1>5. /\ ringReaders' \in [Slot -> RingReader]
      /\ ~ringReaders'[token.slot].active
      /\ \A r \in Slot : r # token.slot => ringReaders'[r] = ringReaders[r]
  <2>1. /\ ringReaders'[token.slot] =
             [ringReaders[token.slot] EXCEPT !.active = FALSE, !.generation = @ + 1]
        /\ \A r \in Slot : r # token.slot => ringReaders'[r] = ringReaders[r]
        /\ ringReaders' \in [Slot -> {ringReaders'[r] : r \in Slot}]
    BY <1>1, <1>3, <1>4
  <2>2. ringReaders[token.slot].generation + 1 \in Nat
    BY <1>1, <1>3 DEF RingReader
  <2>3. ringReaders'[token.slot] \in RingReader /\ ~ringReaders'[token.slot].active
    BY <1>1, <1>3, <2>1, <2>2 DEF RingReader
  <2>4. QED
    BY <1>1, <2>1, <2>3
<1>6. control' \in ControlState /\ control'.pc = "idle"
  BY <1>1, <1>2 DEF ControlState
<1>7. ActiveSlots' = ActiveSlots /\ ActiveSlots \subseteq Slot
  BY <1>2 DEF ActiveSlots
<1>8. /\ Cardinality(ActiveSlots) \in Nat
      /\ runningClientCount = Cardinality(ActiveSlots) + 1
  <2>1. Cardinality(ActiveSlots) \in Nat
    BY FiniteSets, FS_CardinalityType
  <2>2. QED
    BY <1>2, <2>1 DEF RuntimeInv, NestingInv, RunningCountIsExact, ActiveSlots
<1>9. RuntimeTypeOK'
  BY <1>2, <1>5, <1>6, <1>8 DEF RuntimeInv, RuntimeTypeOK
<1>10. NestingInv'
  <2>1. SlotsCarryStarts'
    BY <1>2, <1>7 DEF RuntimeInv, NestingInv, SlotsCarryStarts
  <2>2. ControlSlotIsInactive'
    BY <1>6 DEF ControlSlotIsInactive
  <2>3. runningClientCount' = Cardinality(ActiveSlots')
    BY <1>2, <1>7, <1>8
  <2>4. runningClientCount' \in Nat
    BY <1>7, <1>8, <2>3
  <2>5. RunningCountIsExact'
    BY <1>6, <2>3, <2>4 DEF RunningCountIsExact, ActiveSlots
  <2>6. QED
    BY <2>1, <2>2, <2>5 DEF NestingInv
<1>11. ReadersInv'
  <2>1. Engaged' = ActiveSlots
    BY <1>6, <1>7 DEF Engaged
  <2>2. ASSUME NEW s \in ActiveSlots
        PROVE  /\ clients[s].reader \in RealtimeAudioReaderToken
               /\ tokenIsValid(clients[s].reader)'
               /\ clients[s].reader.slot # token.slot
    <3>1. clients[s].reader \in RealtimeAudioReaderToken /\ tokenIsValid(clients[s].reader)
      BY <1>1, <1>3 DEF ReadersInv
    <3>2. clients[s].reader.slot # token.slot
      BY <1>1, <1>3 DEF ReadersInv
    <3>3. QED
      BY <1>2, <1>5, <3>1, <3>2, SlotTypes DEF tokenIsValid
  <2>3. ASSUME NEW r \in Slot, ringReaders'[r].active
        PROVE  \E s \in ActiveSlots : clients[s].reader.slot = r
    <3>1. r # token.slot /\ ringReaders[r].active
      BY <1>5, <2>3
    <3>2. QED
      BY <1>1, <1>3, <3>1 DEF ReadersInv
  <2>4. \A s, u \in ActiveSlots : clients[s].reader.slot = clients[u].reader.slot => s = u
    BY <1>1, <1>3 DEF ReadersInv
  <2>5. QED
    BY <1>2, <2>1, <2>2, <2>3, <2>4 DEF ReadersInv
<1>12. ReadsInv'
  BY <1>2, ReadsKept DEF RuntimeInv
<1>13. SteadyReadsFindTheirSlot'
  BY <1>2, <1>7, SteadyKept
<1>14. QED
  BY <1>9, <1>10, <1>11, <1>12, <1>13 DEF RuntimeInv

-----------------------------------------------------------------------------
LEMMA RuntimeInitHolds == RuntimeInit => RuntimeInv
<1> SUFFICES ASSUME RuntimeInit PROVE RuntimeInv
  OBVIOUS
<1>1. RuntimeTypeOK
  <2>1. clients \in [Slot -> ClientSlot] /\ control \in ControlState
    BY SlotTypes, SlotCountAssumption DEF RuntimeInit, ClientSlot, ControlState, Slot
  <2>2. ringReaders \in [Slot -> RingReader] /\ io \in [IOThread -> IOState]
    BY IdleIOType DEF RuntimeInit, RingReader
  <2>3. /\ owed \in [Client -> Nat] /\ position \in [Slot -> Nat]
        /\ runningClientCount \in Nat
        /\ published \in 0 .. MaxPublished /\ claims \in 0 .. MaxClaims
    BY BoundsAssumption DEF RuntimeInit
  <2>4. QED
    BY <2>1, <2>2, <2>3 DEF RuntimeTypeOK
<1>2. /\ ActiveSlots = {} /\ control.pc = "idle" /\ runningClientCount = 0
      /\ \A c \in Client : owed[c] = 0
      /\ \A s \in Slot : clients[s].readsInFlight = 0 /\ ~ringReaders[s].active
      /\ \A t \in IOThread : io[t].pc = "idle"
  BY DEF RuntimeInit, ActiveSlots, IdleIO
<1>3. NestingInv
  <2>1. Cardinality(ActiveSlots) = 0
    BY <1>2, FS_EmptySet
  <2>2. RunningCountIsExact
    BY <1>2, <2>1 DEF RunningCountIsExact, ActiveSlots
  <2>3. QED
    BY <1>2, <2>2 DEF NestingInv, SlotsCarryStarts, ControlSlotIsInactive
<1>4. ReadersInv
  BY <1>2 DEF ReadersInv, Engaged
<1>5. ReadsInv
  <2>1. \A s \in Slot : InFlight(s) = {}
    BY <1>2 DEF InFlight, InsideSteps
  <2>2. ReadsAreCounted
    BY <1>2, <2>1, FS_EmptySet DEF ReadsAreCounted
  <2>3. QED
    BY <1>2, <2>2 DEF ReadsInv, ReadsAreTyped, Typed
<1>6. SteadyReadsFindTheirSlot
  BY <1>2 DEF SteadyReadsFindTheirSlot, SlotFound
<1>7. QED
  BY <1>1, <1>3, <1>4, <1>5, <1>6 DEF RuntimeInv

LEMMA RuntimeStep ==
  ASSUME RuntimeInv, [RuntimeNext]_runtimeVars
  PROVE  RuntimeInv'
<1>1. ASSUME NEW c \in Client, StartAgain(c) \/ ClaimSlot(c) \/ StopOnce(c) \/ Deactivate(c)
      PROVE  RuntimeInv'
  BY <1>1, StartAgainKeeps, ClaimSlotKeeps, StopOnceKeeps, DeactivateKeeps
<1>2. CASE ContinueControl
  BY <1>2, PublishSlotKeeps, UnregisterReaderKeeps DEF ContinueControl
<1>3. CASE WriteMix
  BY <1>3, WriteMixKeeps
<1>4. ASSUME NEW t \in IOThread,
             (\E c \in Client, k \in ReadSize : BeginRead(t, c, k)) \/ ContinueRead(t)
      PROVE  RuntimeInv'
  BY <1>4, BeginReadKeeps, ContinueReadKeeps
<1>5. CASE UNCHANGED runtimeVars
  <2>1. RuntimeTypeOK'
    BY <1>5 DEF runtimeVars, RuntimeInv, RuntimeTypeOK
  <2>2. NestingInv' /\ ReadersInv' /\ ReadsInv'
    BY <1>5, NestingKept, ReadersKept, ReadsKept DEF runtimeVars, RuntimeInv
  <2>3. SteadyReadsFindTheirSlot'
    BY <1>5, SteadyKept DEF runtimeVars, ActiveSlots
  <2>4. QED
    BY <2>1, <2>2, <2>3 DEF RuntimeInv
<1>6. QED
  BY [RuntimeNext]_runtimeVars, <1>1, <1>2, <1>3, <1>4, <1>5 DEF RuntimeNext

LEMMA RuntimeInvHolds == RuntimeSpec => []RuntimeInv
  BY RuntimeInitHolds, RuntimeStep, PTL DEF RuntimeSpec

(***************************************************************************)
(* Type correctness: no counter goes below zero, no read leaves its array  *)
(* of slots or follows a token it does not have.                           *)
(***************************************************************************)
THEOREM RuntimeTypeCorrect == RuntimeSpec => []RuntimeTypeOK
<1>1. RuntimeInv => RuntimeTypeOK
  BY DEF RuntimeInv
<1>2. QED
  BY <1>1, RuntimeInvHolds, PTL

(***************************************************************************)
(* Starts nest and stops balance them, and the count of running clients is *)
(* exact, for every number of clients and slots.                           *)
(***************************************************************************)
THEOREM StartsBalanceStopsHolds == RuntimeSpec => []StartsBalanceStops
<1>1. RuntimeInv => StartsBalanceStops
  <2> SUFFICES ASSUME RuntimeInv PROVE StartsAreNested
    BY DEF StartsBalanceStops, RuntimeInv, NestingInv
  <2>1. SlotsCarryStarts /\ owed \in [Client -> Nat]
    BY DEF RuntimeInv, NestingInv, RuntimeTypeOK
  <2>2. ASSUME NEW c \in Client
        PROVE  /\ Cardinality(RunningSlots(c)) = (IF owed[c] > 0 THEN 1 ELSE 0)
               /\ \A s \in RunningSlots(c) : clients[s].referenceCount = owed[c]
    <3>1. RunningSlots(c) = {s \in ActiveSlots : clients[s].clientID = c}
      BY DEF RunningSlots, Runs, ActiveSlots
    <3>2. CASE owed[c] > 0
      <4>1. PICK s \in ActiveSlots : clients[s].clientID = c
        BY <2>1, <3>2 DEF SlotsCarryStarts
      <4>2. RunningSlots(c) = {s}
        BY <2>1, <3>1, <4>1 DEF SlotsCarryStarts
      <4>3. QED
        BY <2>1, <3>2, <4>1, <4>2, FS_Singleton DEF SlotsCarryStarts
    <3>3. CASE ~(owed[c] > 0)
      <4>1. RunningSlots(c) = {}
        BY <2>1, <3>1, <3>3 DEF SlotsCarryStarts
      <4>2. QED
        BY <3>3, <4>1, FS_EmptySet
    <3>4. QED
      BY <3>2, <3>3
  <2>3. QED
    BY <2>2 DEF StartsAreNested
<1>2. QED
  BY <1>1, RuntimeInvHolds, PTL

(***************************************************************************)
(* Reader slots of the ring and client slots match, so that a client that  *)
(* finds a slot always finds a reader, and none leaks.                     *)
(***************************************************************************)
THEOREM ReadersMatchClientsHolds == RuntimeSpec => []ReadersMatchClients
<1>1. RuntimeInv => ReadersMatchClients
  BY DEF RuntimeInv, ReadersInv, ReadersMatchClients, Engaged, ActiveSlots
<1>2. QED
  BY <1>1, RuntimeInvHolds, PTL

(***************************************************************************)
(* A client that keeps running while it reads is never told that it does   *)
(* not run.                                                                *)
(***************************************************************************)
THEOREM SilenceOnlyWhenStoppedHolds == RuntimeSpec => []SilenceOnlyWhenStopped
<1>1. RuntimeInv => SilenceOnlyWhenStopped
  BY DEF RuntimeInv, SteadyReadsFindTheirSlot, SlotFound, FindsSlot,
         SilenceOnlyWhenStopped
<1>2. QED
  BY <1>1, RuntimeInvHolds, PTL

\* Only ClaimSlot writes the plain fields, and of a slot no read is inside.
LEMMA OnlyFreeSlotsAreWritten ==
  ASSUME RuntimeInv, RuntimeNext, NEW s \in Slot, clients[s].readsInFlight # 0
  PROVE  clients'[s].clientID = clients[s].clientID /\ clients'[s].reader = clients[s].reader
<1>1. clients \in [Slot -> ClientSlot] /\ control \in ControlState
  BY DEF RuntimeInv, RuntimeTypeOK
<1>2. ASSUME NEW c \in Client, ClaimSlot(c)
      PROVE  clients'[s] = clients[s]
  <2>1. FreeSlots \in SUBSET Slot /\ FreeSlots # {}
    BY <1>2 DEF ClaimSlot, StartRefused, FreeSlots
  <2>2. First(FreeSlots) \in FreeSlots
    BY <2>1, FirstIsIn
  <2>3. s # First(FreeSlots)
    BY <2>2 DEF FreeSlots
  <2>4. QED
    BY <1>1, <1>2, <2>3 DEF ClaimSlot
<1>3. ASSUME NEW c \in Client, StartAgain(c) \/ StopOnce(c) \/ Deactivate(c)
      PROVE  clients'[s].clientID = clients[s].clientID /\ clients'[s].reader = clients[s].reader
  BY <1>1, <1>3 DEF StartAgain, StopOnce, Deactivate, ClientSlot
<1>4. CASE ContinueControl
  BY <1>1, <1>4 DEF ContinueControl, PublishSlot, UnregisterReader, ClientSlot, ControlState
<1>5. CASE WriteMix
  BY <1>5 DEF WriteMix
<1>6. ASSUME NEW t \in IOThread, NEW c \in Client, NEW k \in ReadSize, BeginRead(t, c, k)
      PROVE  clients' = clients
  BY <1>6 DEF BeginRead
<1>7. ASSUME NEW t \in IOThread, ContinueRead(t)
      PROVE  clients'[s].clientID = clients[s].clientID /\ clients'[s].reader = clients[s].reader
  <2>1. CASE EnterSlot(t) \/ LeaveSlot(t)
    BY <1>1, <2>1 DEF EnterSlot, LeaveSlot, ClientSlot
  <2>2. CASE CheckAgain(t)
    <3>1. \/ UNCHANGED clients
          \/ clients' = [clients EXCEPT ![io[t].index].readsInFlight = @ - 1]
      BY <2>2 DEF CheckAgain
    <3>2. QED
      BY <1>1, <3>1 DEF ClientSlot
  <2>3. CASE ~EnterSlot(t) /\ ~LeaveSlot(t) /\ ~CheckAgain(t)
    BY <1>7, <2>3 DEF ContinueRead, ScanSlot, MatchClient, ScanFails, ValidateToken,
                      LoadCursor, StoreCursor, ReturnSilence
  <2>4. QED
    BY <2>1, <2>2, <2>3
<1>8. QED
  BY RuntimeNext, <1>2, <1>3, <1>4, <1>5, <1>6, <1>7 DEF RuntimeNext

(***************************************************************************)
(* The plain fields of a client slot are never written while a read is     *)
(* inside it, for every number of IO threads.                              *)
(***************************************************************************)
THEOREM NoWriteUnderReadHolds == RuntimeSpec => NoWriteUnderRead
<1> DEFINE Untouched ==
      \A t \in IOThread, s \in Slot :
        Inside(t, s) => /\ clients'[s].clientID = clients[s].clientID
                        /\ clients'[s].reader = clients[s].reader
<1>1. ASSUME RuntimeInv, [RuntimeNext]_runtimeVars
      PROVE  [Untouched]_runtimeVars
  <2>1. ASSUME RuntimeNext, NEW t \in IOThread, NEW s \in Slot, Inside(t, s)
        PROVE  /\ clients'[s].clientID = clients[s].clientID
               /\ clients'[s].reader = clients[s].reader
    <3>1. t \in InFlight(s)
      BY <2>1 DEF Inside, InFlight, InsideSteps
    <3>2. Cardinality(InFlight(s)) # 0
      BY <3>1, FiniteSets, FS_EmptySet
    <3>3. clients[s].readsInFlight # 0
      BY <1>1, <3>2 DEF RuntimeInv, ReadsInv, ReadsAreCounted
    <3>4. QED
      BY <1>1, <2>1, <3>3, OnlyFreeSlotsAreWritten
  <2>2. QED
    BY <1>1, <2>1
<1>2. QED
  BY <1>1, RuntimeInvHolds, PTL DEF RuntimeSpec, NoWriteUnderRead

=============================================================================
