---------------------- MODULE RealtimeAudioRingProofs ----------------------
(***************************************************************************)
(* Proofs about RealtimeAudioRing, and about the reader slots inside it,   *)
(* for every capacity, number of slots, controllers and reading threads.   *)
(***************************************************************************)
EXTENDS RealtimeAudioRing, FrameStoreProofs

-----------------------------------------------------------------------------
(***************************************************************************)
(* Type correctness.  A control operation that has chosen a slot has       *)
(* chosen one that exists, and the timeline stays within its bound, so the *)
(* frames that read asks copyFrame for do as well.                         *)
(***************************************************************************)
SlotChosen ==
  \A p \in Controller :
    control[p].pc \in {"claimed", "positioned", "deactivating", "retiring"} =>
      control[p].slot \in ReaderSlot

TimelineBounded ==
  publishedFrameCount <= MaxPublished /\ writer.end <= MaxPublished

RingTypeInv == RingTypeOK /\ SlotChosen /\ TimelineBounded

LEMMA SmallerLargerType ==
  \A a, b \in Int :
    /\ Smaller(a, b) \in Int /\ Smaller(a, b) <= a /\ Smaller(a, b) <= b
    /\ Smaller(a, b) = a \/ Smaller(a, b) = b
    /\ Larger(a, b) \in Int /\ a <= Larger(a, b) /\ b <= Larger(a, b)
    /\ Larger(a, b) = a \/ Larger(a, b) = b
  BY DEF Smaller, Larger

\* The clamped cursor lies on the timeline, and never behind a cursor that
\* does.
LEMMA ClampedCursorType ==
  ASSUME NEW from \in Nat, NEW end \in Nat
  PROVE  /\ ClampedCursor(from, end) \in Nat
         /\ ClampedCursor(from, end) <= end
         /\ from <= end => from <= ClampedCursor(from, end)
         /\ from <= end /\ from < ClampedCursor(from, end) =>
              from + Capacity < end
  BY CapacityAssumption DEF ClampedCursor, Smaller, Larger

LEMMA TokenType ==
  ASSUME NEW token \in RealtimeAudioReaderToken
  PROVE  token.slot \in ReaderSlot /\ token.generation \in Generation
  BY DEF RealtimeAudioReaderToken

LEMMA IdleTypes ==
  /\ IdleControl \in ControlState
  /\ IdleRead \in ReadState
  /\ \A n \in Nat : NewAccount(n) \in Account
  BY MaximumReaderCountAssumption, GenerationModulusAssumption
     DEF IdleControl, ControlState, Generation, IdleRead, ReadState, NoToken,
         RealtimeAudioReaderToken, ReaderSlot, NewAccount, Account, NoFrame

LEMMA SlotIsControlSlot ==
  /\ 0 \in ReaderSlot
  /\ \A s \in ReaderSlot :
       s \in 0 .. MaximumReaderCount /\ s + 1 \in 0 .. MaximumReaderCount
  BY MaximumReaderCountAssumption DEF ReaderSlot

LEMMA CursorsInitType == CursorsInit => CursorsTypeOK /\ SlotChosen
  BY IdleTypes, MaximumReaderCountAssumption, GenerationModulusAssumption,
     MaxRegistrationsAssumption
     DEF CursorsInit, CursorsTypeOK, SlotChosen, ReaderState, Generation, IdleControl

LEMMA StartControlType ==
  ASSUME CursorsTypeOK, SlotChosen, NEW p \in Controller, StartControl(p)
  PROVE  CursorsTypeOK' /\ SlotChosen'
<1>1. control[p] \in ControlState /\ IdleControl \in ControlState
  BY IdleTypes DEF CursorsTypeOK
<1>2. CASE BeginRegister(p)
  <2>1. [IdleControl EXCEPT !.pc = "scanning"] \in ControlState
    BY <1>1 DEF ControlState
  <2>2. registrations' \in 0 .. MaxRegistrations
    BY <1>2, MaxRegistrationsAssumption DEF BeginRegister, CursorsTypeOK
  <2>3. CursorsTypeOK'
    BY <1>2, <2>1, <2>2 DEF BeginRegister, CursorsTypeOK
  <2>4. SlotChosen'
    BY <1>1, <1>2 DEF BeginRegister, CursorsTypeOK, SlotChosen, ControlState
  <2>5. QED
    BY <2>3, <2>4
<1>3. ASSUME NEW token \in held \cup retired, BeginUnregister(p, token)
      PROVE  CursorsTypeOK' /\ SlotChosen'
  <2>1. token \in RealtimeAudioReaderToken
    BY DEF CursorsTypeOK
  <2>2. token.slot \in ReaderSlot
    BY <2>1, TokenType
  <2>3. [IdleControl EXCEPT !.pc = "deactivating", !.slot = token.slot]
          \in ControlState
    <3>1. token.slot \in 0 .. MaximumReaderCount
      BY <2>2, SlotIsControlSlot
    <3>2. QED
      BY <1>1, <3>1 DEF ControlState
  <2>4. CursorsTypeOK'
    BY <1>3, <2>1, <2>3 DEF BeginUnregister, CursorsTypeOK
  <2>5. SlotChosen'
    BY <1>1, <1>3, <2>2 DEF BeginUnregister, CursorsTypeOK, SlotChosen, ControlState
  <2>6. QED
    BY <2>4, <2>5
<1>4. QED
  BY StartControl(p), <1>2, <1>3 DEF StartControl

LEMMA ContinueControlType ==
  ASSUME CursorsTypeOK, SlotChosen, NEW p \in Controller,
         NEW published \in Nat, ContinueControl(p, published)
  PROVE  CursorsTypeOK' /\ SlotChosen'
<1>1. /\ control[p] \in ControlState /\ IdleControl \in ControlState
      /\ readers \in [ReaderSlot -> ReaderState]
  BY IdleTypes DEF CursorsTypeOK
<1>2. CASE SkipSlot(p)
  <2>1. control[p].slot + 1 \in 0 .. MaximumReaderCount
    BY <1>2, SlotIsControlSlot DEF SkipSlot
  <2>2. control' \in [Controller -> ControlState]
    BY <1>1, <1>2, <2>1 DEF SkipSlot, CursorsTypeOK, ControlState
  <2>3. QED
    BY <1>1, <1>2, <2>2 DEF SkipSlot, CursorsTypeOK, SlotChosen
<1>3. CASE RegisterFails(p)
  BY <1>1, <1>3 DEF RegisterFails, CursorsTypeOK, SlotChosen, IdleControl
<1>4. CASE ClaimSlot(p)
  BY <1>1, <1>4, ZenonT(30)
     DEF ClaimSlot, CursorsTypeOK, SlotChosen, ControlState, ReaderState
<1>5. CASE LoadPosition(p, published)
  <2>1. control[p].slot \in ReaderSlot
    BY <1>5 DEF LoadPosition, SlotChosen
  <2>2. readers[control[p].slot].generation \in Generation
    BY <1>1, <2>1 DEF ReaderState
  <2>3. QED
    BY <1>1, <1>5, <2>1, <2>2 DEF LoadPosition, CursorsTypeOK, SlotChosen, ControlState
<1>6. CASE ReturnToken(p)
  <2>1. control[p].slot \in ReaderSlot /\ control[p].position \in Nat
    BY <1>1, <1>6 DEF ReturnToken, SlotChosen, ControlState
  <2>2. TokenOf(p) \in RealtimeAudioReaderToken
    BY <1>1, <2>1 DEF TokenOf, RealtimeAudioReaderToken, ControlState
  <2>3. readers' \in [ReaderSlot -> ReaderState]
    BY <1>1, <1>6, <2>1 DEF ReturnToken, ReaderState
  <2>4. QED
    BY <1>1, <1>6, <2>2, <2>3 DEF ReturnToken, CursorsTypeOK, SlotChosen, IdleControl
<1>7. CASE Deactivate(p)
  BY <1>1, <1>7, ZenonT(30)
     DEF Deactivate, CursorsTypeOK, SlotChosen, ControlState, ReaderState
<1>8. CASE Retire(p)
  <2>1. \A g \in Generation : NextGeneration(g) \in Generation
    BY GenerationModulusAssumption DEF NextGeneration, Generation
  <2>2. readers' \in [ReaderSlot -> ReaderState]
    BY <1>1, <1>8, <2>1 DEF Retire, ReaderState
  <2>3. QED
    BY <1>1, <1>8, <2>2 DEF Retire, CursorsTypeOK, SlotChosen, IdleControl
<1>9. QED
  BY ContinueControl(p, published), <1>2, <1>3, <1>4, <1>5, <1>6, <1>7, <1>8
     DEF ContinueControl

LEMMA BeginReadType ==
  ASSUME RingTypeInv, NEW t \in Copier, NEW token \in held \cup retired,
         NEW k \in ReadSize, BeginRead(t, token, k)
  PROVE  call' \in [Copier -> ReadState]
<1>1. token \in RealtimeAudioReaderToken /\ k \in Nat
  BY ReadSizeAssumption DEF RingTypeInv, RingTypeOK, CursorsTypeOK
<1>2. [IdleRead EXCEPT !.pc = "validated", !.token = token, !.frameCount = k]
        \in ReadState
  BY <1>1, IdleTypes DEF ReadState
<1>3. QED
  BY <1>2, BeginRead(t, token, k) DEF BeginRead, RingTypeInv, RingTypeOK

LEMMA ContinueReadType ==
  ASSUME RingTypeInv, NEW t \in Copier, ContinueRead(t)
  PROVE  /\ call' \in [Copier -> ReadState]
         /\ account' \in [ReaderSlot -> Account]
         /\ readers' \in [ReaderSlot -> ReaderState]
         /\ UNCHANGED <<control, held, retired, registrations>>
<1> DEFINE slot == call[t].token.slot
<1>1. /\ call \in [Copier -> ReadState] /\ call[t] \in ReadState
      /\ account \in [ReaderSlot -> Account]
      /\ readers \in [ReaderSlot -> ReaderState]
      /\ publishedFrameCount \in Nat
      /\ copy[t] \in CopyState
  BY DEF RingTypeInv, RingTypeOK, CursorsTypeOK, StoreTypeOK
<1>2. slot \in ReaderSlot /\ account[slot] \in Account
      /\ readers[slot] \in ReaderState
  BY <1>1, TokenType DEF ReadState
<1>3. CASE LoadPublished(t)
  BY <1>1, <1>3 DEF LoadPublished, ReadState, cursorVars
<1>4. CASE LoadCursor(t)
  <2> DEFINE from == readers[slot].cursor
             published == call[t].published
             cursor == ClampedCursor(from, published)
  <2>1. from \in Nat /\ published \in Nat /\ call[t].frameCount \in Nat
    BY <1>1, <1>2 DEF ReadState, ReaderState
  <2>2. cursor \in Nat /\ cursor <= published
    BY <2>1, ClampedCursorType
  <2>3. Larger(cursor - from, 0) \in Nat
        /\ Smaller(published - cursor, call[t].frameCount) \in Nat
    BY <2>1, <2>2 DEF Larger, Smaller
  <2>4. call' = [call EXCEPT ![t] =
                   [call[t] EXCEPT
                      !.pc = "copying", !.from = from, !.cursor = cursor,
                      !.droppedFrames = Larger(cursor - from, 0),
                      !.readable = Smaller(published - cursor, call[t].frameCount)]]
        /\ UNCHANGED <<cursorVars, account>>
    BY <1>4 DEF LoadCursor
  <2>5. QED
    BY <1>1, <2>1, <2>2, <2>3, <2>4 DEF ReadState, cursorVars
<1>5. CASE CopyNextFrame(t) \/ CopyOn(t)
  BY <1>1, <1>5 DEF CopyNextFrame, CopyOn, cursorVars
<1>6. CASE CountFrame(t)
  <2>1. copy[t].frame \in Nat
    BY <1>1 DEF CopyState
  <2>2. account' \in [ReaderSlot -> Account]
    BY <1>1, <1>2, <1>6, <2>1 DEF CountFrame, Account
  <2>3. call' \in [Copier -> ReadState]
    <3>1. ASSUME NEW state \in ReadState
          PROVE  /\ [state EXCEPT !.offset = @ + 1, !.audioFrames = @ + 1] \in ReadState
                 /\ [state EXCEPT !.offset = @ + 1, !.droppedFrames = @ + 1] \in ReadState
      <4>1. /\ state.offset + 1 \in Nat /\ state.audioFrames + 1 \in Nat
            /\ state.droppedFrames + 1 \in Nat
        BY DEF ReadState
      <4>2. QED
        BY <4>1 DEF ReadState
    <3>2. QED
      BY <1>1, <1>6, <3>1 DEF CountFrame
  <2>4. QED
    BY <1>1, <1>6, <2>2, <2>3 DEF CountFrame, cursorVars
<1>7. CASE StoreCursor(t)
  <2>1. call' \in [Copier -> ReadState]
    BY <1>1, <1>7, IdleTypes DEF StoreCursor
  <2>2. account' \in [ReaderSlot -> Account]
    <3>1. /\ account[slot].audio + call[t].audioFrames \in Nat
          /\ account[slot].dropped + call[t].droppedFrames \in Nat
      BY <1>1, <1>2 DEF Account, ReadState
    <3>2. account' = [account EXCEPT ![slot] =
                        [account[slot] EXCEPT !.audio = @ + call[t].audioFrames,
                                              !.dropped = @ + call[t].droppedFrames]]
      BY <1>7 DEF StoreCursor
    <3>3. QED
      BY <1>1, <1>2, <3>1, <3>2 DEF Account
  <2>3. readers' \in [ReaderSlot -> ReaderState]
    BY <1>1, <1>2, <1>7 DEF StoreCursor, ReaderState, ReadState
  <2>4. QED
    BY <1>7, <2>1, <2>2, <2>3 DEF StoreCursor
<1>8. QED
  BY ContinueRead(t), <1>3, <1>4, <1>5, <1>6, <1>7 DEF ContinueRead

LEMMA RingControlAccountType ==
  ASSUME RingTypeInv, NEW p \in Controller, RingControl(p)
  PROVE  account' \in [ReaderSlot -> Account]
<1>1. NewAccount(control[p].position) \in Account
  BY IdleTypes DEF RingTypeInv, RingTypeOK, CursorsTypeOK, ControlState
<1>2. QED
  BY <1>1, RingControl(p) DEF RingControl, RingTypeInv, RingTypeOK

(***************************************************************************)
(* Every step of the ring is a step of the frame store or leaves the store *)
(* alone: read asks copyFrame for frames the store accepts a copy of.      *)
(***************************************************************************)
LEMMA ReadStepIsCopyStep ==
  ASSUME RingTypeInv, NEW t \in Copier, ContinueRead(t)
  PROVE  CopyStep(t) \/ UNCHANGED storeVars
<1>1. CASE CopyNextFrame(t)
  <2> DEFINE frame == call[t].cursor + call[t].offset
  <2>1. CheckStamp(t, frame)
    BY <1>1 DEF CopyNextFrame
  <2>2. frame \in Nat /\ publishedFrameCount \in Nat
    BY DEF RingTypeInv, RingTypeOK, StoreTypeOK, ReadState
  <2>3. frame < publishedFrameCount
    BY <2>1 DEF CheckStamp
  <2>4. frame \in 0 .. MaxPublished
    BY <2>2, <2>3, MaxPublishedAssumption DEF RingTypeInv, TimelineBounded
  <2>5. QED
    BY <2>1, <2>4 DEF CopyStep
<1>2. CASE CopyOn(t) \/ CountFrame(t)
  BY <1>2 DEF CopyOn, CountFrame, CopyStep, ContinueCopy
<1>3. CASE LoadPublished(t) \/ LoadCursor(t) \/ StoreCursor(t)
  BY <1>3 DEF LoadPublished, LoadCursor, StoreCursor
<1>4. QED
  BY ContinueRead(t), <1>1, <1>2, <1>3 DEF ContinueRead

LEMMA RingStepIsStoreStep ==
  ASSUME RingTypeInv, [RingNext]_ringVars
  PROVE  [StoreNext]_storeVars
<1>1. CASE RingWrite
  BY <1>1 DEF RingWrite, StoreNext
<1>2. ASSUME NEW p \in Controller, StartControl(p) \/ RingControl(p)
      PROVE  UNCHANGED storeVars
  BY <1>2 DEF StartControl, RingControl
<1>3. ASSUME NEW t \in Copier, NEW token \in held \cup retired, NEW k \in ReadSize,
             BeginRead(t, token, k)
      PROVE  UNCHANGED storeVars
  BY <1>3 DEF BeginRead
<1>4. ASSUME NEW t \in Copier, ContinueRead(t)
      PROVE  StoreNext \/ UNCHANGED storeVars
  BY <1>4, ReadStepIsCopyStep DEF StoreNext
<1>5. CASE UNCHANGED ringVars
  BY <1>5 DEF ringVars
<1>6. QED
  BY <1>1, <1>2, <1>3, <1>4, <1>5, [RingNext]_ringVars DEF RingNext

\* No write begins that would outgrow the bound.
LEMMA StoreStepIsBounded ==
  ASSUME StoreTypeOK, TimelineBounded, [StoreNext]_storeVars
  PROVE  TimelineBounded'
<1> USE DEF TimelineBounded, StoreTypeOK, WriterState
<1>1. ASSUME NEW k \in WriteSize, BeginWrite(k)
      PROVE  TimelineBounded'
  BY <1>1 DEF BeginWrite
<1>2. CASE ContinueWrite
  BY <1>2 DEF ContinueWrite, MarkWriting, StoreSample, MarkReady, Publish
<1>3. ASSUME NEW t \in Copier, CopyStep(t)
      PROVE  TimelineBounded'
  BY <1>3 DEF CopyStep, ContinueCopy, CheckStamp, LoadSample, RecheckStamp, Copied,
              Return
<1>4. CASE UNCHANGED storeVars
  BY <1>4 DEF storeVars
<1>5. QED
  BY [StoreNext]_storeVars, <1>1, <1>2, <1>3, <1>4 DEF StoreNext, WriteStep

LEMMA StoreStepType ==
  ASSUME StoreTypeOK, [StoreNext]_storeVars
  PROVE  StoreTypeOK'
<1>1. CASE WriteStep
  BY <1>1, WriteStepType
<1>2. ASSUME NEW t \in Copier, CopyStep(t)
      PROVE  StoreTypeOK'
  BY <1>2, CopyStepType
<1>3. CASE UNCHANGED storeVars
  BY <1>3 DEF StoreTypeOK, storeVars
<1>4. QED
  BY [StoreNext]_storeVars, <1>1, <1>2, <1>3 DEF StoreNext

LEMMA RingTypeStep ==
  ASSUME RingTypeInv, [RingNext]_ringVars
  PROVE  RingTypeInv'
<1>1. StoreTypeOK' /\ TimelineBounded'
  BY RingStepIsStoreStep, StoreStepType, StoreStepIsBounded DEF RingTypeInv, RingTypeOK
<1>2. SUFFICES /\ CursorsTypeOK' /\ SlotChosen'
               /\ call' \in [Copier -> ReadState]
               /\ account' \in [ReaderSlot -> Account]
  BY <1>1 DEF RingTypeInv, RingTypeOK
<1>3. /\ CursorsTypeOK /\ SlotChosen /\ call \in [Copier -> ReadState]
      /\ account \in [ReaderSlot -> Account] /\ publishedFrameCount \in Nat
  BY DEF RingTypeInv, RingTypeOK, StoreTypeOK
<1>4. UNCHANGED cursorVars => CursorsTypeOK' /\ SlotChosen'
  BY <1>3 DEF cursorVars, CursorsTypeOK, SlotChosen
<1>5. CASE RingWrite
  BY <1>3, <1>4, <1>5 DEF RingWrite
<1>6. ASSUME NEW p \in Controller, StartControl(p)
      PROVE  CursorsTypeOK' /\ SlotChosen' /\ UNCHANGED <<call, account>>
  BY <1>3, <1>6, StartControlType DEF StartControl
<1>7. ASSUME NEW p \in Controller, RingControl(p)
      PROVE  /\ CursorsTypeOK' /\ SlotChosen' /\ UNCHANGED call
             /\ account' \in [ReaderSlot -> Account]
  BY <1>3, <1>7, ContinueControlType, RingControlAccountType DEF RingControl
<1>8. ASSUME NEW t \in Copier, NEW token \in held \cup retired, NEW k \in ReadSize,
             BeginRead(t, token, k)
      PROVE  /\ CursorsTypeOK' /\ SlotChosen' /\ UNCHANGED account
             /\ call' \in [Copier -> ReadState]
  BY <1>4, <1>8, BeginReadType DEF BeginRead
<1>9. ASSUME NEW t \in Copier, ContinueRead(t)
      PROVE  /\ CursorsTypeOK' /\ SlotChosen'
             /\ call' \in [Copier -> ReadState]
             /\ account' \in [ReaderSlot -> Account]
  BY <1>3, <1>9, ContinueReadType DEF CursorsTypeOK, SlotChosen
<1>10. CASE UNCHANGED ringVars
  BY <1>3, <1>4, <1>10 DEF ringVars
<1>11. QED
  BY [RingNext]_ringVars, <1>3, <1>5, <1>6, <1>7, <1>8, <1>9, <1>10 DEF RingNext

LEMMA RingInitType == RingInit => RingTypeInv
  BY StoreInitType, CursorsInitType, IdleTypes, MaxPublishedAssumption
     DEF RingInit, RingTypeInv, RingTypeOK, TimelineBounded, StoreInit

LEMMA RingTypeInvHolds == RingSpec => []RingTypeInv
  BY RingInitType, RingTypeStep, PTL DEF RingSpec

(***************************************************************************)
(* Slots, control operations, reads and stored frames keep their types.    *)
(***************************************************************************)
THEOREM RingTypeCorrect == RingSpec => []RingTypeOK
<1>1. RingTypeInv => RingTypeOK
  BY DEF RingTypeInv
<1>2. QED
  BY <1>1, RingTypeInvHolds, PTL

(***************************************************************************)
(* The ring drives its frame store as FrameStore specifies: whatever the   *)
(* reader slots do, an execution of the ring is one of the store.          *)
(***************************************************************************)
THEOREM RingUsesStore == RingSpec => StoreSpec
<1>1. RingInit => StoreInit
  BY DEF RingInit
<1>2. QED
  BY <1>1, RingTypeInvHolds, RingStepIsStoreStep, PTL DEF RingSpec, StoreSpec

(***************************************************************************)
(* So no torn frame is accepted in the whole ring, where memory accesses   *)
(* keep program order and the ring has at least two frames.                *)
(***************************************************************************)
THEOREM RingNeverTears ==
  ASSUME InOrder, Capacity > 1
  PROVE  RingSpec => []NoTornFrame
  BY InOrder, Capacity > 1, RingUsesStore, NoTornFrameHolds, PTL

(***************************************************************************)
(* Whatever the memory order, read reports no frame dropped that the       *)
(* writer has not lapped.                                                  *)
(***************************************************************************)
THEOREM RingKeepsTheLastLap == RingSpec => []NoSpuriousSilence
  BY RingUsesStore, NoSpuriousSilenceHolds, PTL

-----------------------------------------------------------------------------
(***************************************************************************)
(* Ownership of the reader slots, when control operations exclude each     *)
(* other.  At most one is under way; the slot it works on has no owner;    *)
(* the generation it is about to hand out is still the slot's.             *)
(***************************************************************************)
OneControlAtATime ==
  \A p, q \in Controller :
    control[p].pc # "idle" /\ control[q].pc # "idle" => p = q

WorksOnUnownedSlot ==
  \A p \in Controller :
    /\ control[p].pc \in {"claimed", "positioned", "deactivating"} =>
         readers[control[p].slot].active
    /\ control[p].pc \in {"claimed", "positioned", "deactivating", "retiring"} =>
         ~Owned(control[p].slot)
    /\ control[p].pc = "positioned" =>
         control[p].generation = readers[control[p].slot].generation
    /\ control[p].pc = "retiring" => ~readers[control[p].slot].active

OwnershipInv == OneControlAtATime /\ WorksOnUnownedSlot /\ HeldTokensStayValid

(***************************************************************************)
(* How often a slot of this generation has changed hands, counted from the *)
(* generation 1 that the slots begin with.  As long as no more readers are *)
(* registered than there are generations, it has not come round.           *)
(***************************************************************************)
Turn(generation) ==
  IF generation = 0 THEN GenerationModulus - 1 ELSE generation - 1

BeingRetired(slot) ==
  \E p \in Controller :
    control[p].pc \in {"deactivating", "retiring"} /\ control[p].slot = slot

\* A registration accounts for the slot it took, and one that is still
\* scanning has yet to take one.
TurnsAreRegistered ==
  \A s \in ReaderSlot :
    Turn(readers[s].generation)
      + (IF readers[s].active \/ BeingRetired(s) THEN 1 ELSE 0)
      + (IF \E p \in Controller : control[p].pc = "scanning" THEN 1 ELSE 0)
    <= registrations

RetiredTokensAreOld ==
  \A token \in retired :
    \/ Turn(token.generation) < Turn(readers[token.slot].generation)
    \/ token.generation = readers[token.slot].generation /\ BeingRetired(token.slot)

TurnInv == TurnsAreRegistered /\ RetiredTokensAreOld

(***************************************************************************)
(* Reads and accounts, when the caller also keeps the reads of a token and *)
(* its unregistration apart.                                               *)
(***************************************************************************)
ReadsAreOwned ==
  \A t \in Copier :
    call[t].pc # "idle" =>
      /\ call[t].token \in held
      /\ \A u \in Copier :
           call[u].pc # "idle" /\ call[u].token = call[t].token => u = t

CursorOnTimeline ==
  /\ \A s \in ReaderSlot : Owned(s) => readers[s].cursor <= publishedFrameCount
  /\ \A p \in Controller :
       control[p].pc = "positioned" => control[p].position <= publishedFrameCount

\* A read has taken the cursor from its slot, has accounted for the frames
\* it skipped and for those it asked copyFrame for, and is at the next.
CopyingFrom(t) ==
  LET slot == call[t].token.slot
      next == call[t].cursor + call[t].offset
  IN  /\ call[t].from = readers[slot].cursor
      /\ call[t].from <= call[t].cursor
      /\ call[t].cursor + call[t].readable <= publishedFrameCount
      /\ call[t].offset <= call[t].readable
      /\ call[t].from + call[t].audioFrames + call[t].droppedFrames = next
      /\ account[slot].newest < next
      /\ call[t].droppedFrames > 0 => call[t].from + Capacity <= NewestTouched

ReadSound(t) ==
  /\ call[t].pc # "copying" =>
       /\ call[t].offset = 0 /\ call[t].audioFrames = 0 /\ call[t].droppedFrames = 0
       /\ copy[t].pc = "idle"
  /\ call[t].pc = "loaded" =>
       /\ readers[call[t].token.slot].cursor <= call[t].published
       /\ call[t].published <= publishedFrameCount
  /\ call[t].pc = "copying" => CopyingFrom(t)
  /\ copy[t].pc # "idle" =>
       /\ call[t].offset < call[t].readable
       /\ copy[t].frame = call[t].cursor + call[t].offset

ReadInv == \A t \in Copier : ReadSound(t)

\* Between its reads an owner has heard no frame its cursor has not passed.
AccountSound(s) ==
  /\ readers[s].cursor = account[s].start + account[s].audio + account[s].dropped
  /\ \/ account[s].newest < readers[s].cursor
     \/ \E t \in Copier : call[t].pc = "copying" /\ call[t].token.slot = s

AccountInv == \A s \in ReaderSlot : Owned(s) => AccountSound(s)

ListeningInv == ReadsAreOwned /\ CursorOnTimeline /\ ReadInv /\ AccountInv

-----------------------------------------------------------------------------
LEMMA ValidTokensAreEqual ==
  ASSUME NEW token \in RealtimeAudioReaderToken, NEW other \in RealtimeAudioReaderToken,
         tokenIsValid(token), tokenIsValid(other), token.slot = other.slot
  PROVE  token = other
  BY DEF tokenIsValid, RealtimeAudioReaderToken

\* What moves cursors only changes nothing about ownership.
LEMMA CursorsAlone ==
  ASSUME RingTypeInv, UNCHANGED <<control, held, retired, registrations>>,
         \A s \in ReaderSlot :
           /\ readers'[s].active = readers[s].active
           /\ readers'[s].generation = readers[s].generation
  PROVE  /\ OwnershipInv => OwnershipInv'
         /\ TurnInv => TurnInv'
<1>1. /\ \A token \in held \cup retired : token.slot \in ReaderSlot
      /\ \A p \in Controller :
           control[p].pc \in {"claimed", "positioned", "deactivating", "retiring"} =>
             control[p].slot \in ReaderSlot
  BY TokenType DEF RingTypeInv, RingTypeOK, CursorsTypeOK, SlotChosen
<1>2. \A token \in held : tokenIsValid(token)' = tokenIsValid(token)
  BY <1>1 DEF tokenIsValid
<1>3. OwnershipInv => OwnershipInv'
  BY <1>1, <1>2 DEF OwnershipInv, OneControlAtATime, WorksOnUnownedSlot,
                    HeldTokensStayValid, Owned
<1>4. TurnInv => TurnInv'
  BY <1>1 DEF TurnInv, TurnsAreRegistered, RetiredTokensAreOld, BeingRetired
<1>5. QED
  BY <1>3, <1>4

LEMMA OwnershipStartControl ==
  ASSUME Serialized, RingTypeInv, OwnershipInv, NEW p \in Controller, StartControl(p)
  PROVE  OwnershipInv'
<1>1. /\ control \in [Controller -> ControlState] /\ IdleControl \in ControlState
      /\ \A token \in held \cup retired : token \in RealtimeAudioReaderToken
  BY IdleTypes DEF RingTypeInv, RingTypeOK, CursorsTypeOK
<1>2. \A q \in Controller : control[q].pc = "idle"
  BY Serialized, StartControl(p) DEF StartControl, BeginRegister, BeginUnregister, MayControl
<1>3. CASE BeginRegister(p)
  <2>1. /\ control'[p].pc = "scanning"
        /\ \A q \in Controller : q # p => control'[q].pc = "idle"
        /\ UNCHANGED <<readers, held>>
    BY <1>1, <1>2, <1>3 DEF BeginRegister, ControlState
  <2>2. OneControlAtATime' /\ WorksOnUnownedSlot'
    BY <2>1 DEF OneControlAtATime, WorksOnUnownedSlot
  <2>3. HeldTokensStayValid'
    BY <2>1 DEF OwnershipInv, HeldTokensStayValid, tokenIsValid
  <2>4. QED
    BY <2>2, <2>3 DEF OwnershipInv
<1>4. ASSUME NEW token \in held \cup retired, BeginUnregister(p, token)
      PROVE  OwnershipInv'
  <2>1. /\ control'[p].pc = "deactivating" /\ control'[p].slot = token.slot
        /\ \A q \in Controller : q # p => control'[q].pc = "idle"
        /\ UNCHANGED readers /\ held' = held \ {token}
        /\ tokenIsValid(token)
    BY <1>1, <1>2, <1>4 DEF BeginUnregister, ControlState
  <2>2. OneControlAtATime'
    BY <2>1 DEF OneControlAtATime
  <2>3. HeldTokensStayValid'
    BY <2>1 DEF OwnershipInv, HeldTokensStayValid, tokenIsValid
  <2>4. \A other \in held : other.slot = token.slot => other = token
    BY <1>1, <2>1, ValidTokensAreEqual DEF OwnershipInv, HeldTokensStayValid
  <2>5. WorksOnUnownedSlot'
    BY <2>1, <2>4 DEF WorksOnUnownedSlot, Owned, tokenIsValid
  <2>6. QED
    BY <2>2, <2>3, <2>5 DEF OwnershipInv
<1>5. QED
  BY StartControl(p), <1>3, <1>4 DEF StartControl

LEMMA OwnershipContinueControl ==
  ASSUME RingTypeInv, OwnershipInv, NEW p \in Controller, NEW published \in Nat,
         ContinueControl(p, published)
  PROVE  OwnershipInv'
<1> DEFINE slot == control[p].slot
<1>1. /\ control \in [Controller -> ControlState]
      /\ readers \in [ReaderSlot -> ReaderState]
      /\ \A token \in held : token \in RealtimeAudioReaderToken /\ token.slot \in ReaderSlot
      /\ SlotChosen
  BY TokenType DEF RingTypeInv, RingTypeOK, CursorsTypeOK
<1>2. control[p].pc # "idle"
  BY ContinueControl(p, published)
     DEF ContinueControl, SkipSlot, RegisterFails, ClaimSlot, LoadPosition, ReturnToken,
         Deactivate, Retire
<1>3. \A q \in Controller : q # p => control[q].pc = "idle"
  BY <1>2 DEF OwnershipInv, OneControlAtATime
<1>4. \A q \in Controller : q # p => control'[q].pc = "idle"
  BY <1>1, <1>3, ContinueControl(p, published)
     DEF ContinueControl, SkipSlot, RegisterFails, ClaimSlot, LoadPosition, ReturnToken,
         Deactivate, Retire
<1>5. OneControlAtATime'
  BY <1>4 DEF OneControlAtATime
<1>6. CASE SkipSlot(p) \/ RegisterFails(p)
  <2>1. /\ control'[p].pc \in {"idle", "scanning"}
        /\ UNCHANGED <<readers, held>>
    BY <1>1, <1>6 DEF SkipSlot, RegisterFails, IdleControl, ControlState
  <2>2. WorksOnUnownedSlot'
    BY <1>4, <2>1 DEF WorksOnUnownedSlot
  <2>3. HeldTokensStayValid'
    BY <2>1 DEF OwnershipInv, HeldTokensStayValid, tokenIsValid
  <2>4. QED
    BY <1>5, <2>2, <2>3 DEF OwnershipInv
<1>7. CASE ClaimSlot(p)
  <2>1. /\ slot \in ReaderSlot /\ ~readers[slot].active
        /\ control'[p].pc = "claimed" /\ control'[p].slot = slot
        /\ readers' = [readers EXCEPT ![slot].active = TRUE] /\ UNCHANGED held
    BY <1>1, <1>7 DEF ClaimSlot, ControlState
  <2>2. readers'[slot].active
        /\ \A s \in ReaderSlot : s # slot => readers'[s] = readers[s]
    BY <1>1, <2>1 DEF ReaderState
  <2>3. \A token \in held : token.slot # slot
    BY <2>1 DEF OwnershipInv, HeldTokensStayValid, tokenIsValid
  <2>4. HeldTokensStayValid'
    BY <1>1, <2>1, <2>2, <2>3 DEF OwnershipInv, HeldTokensStayValid, tokenIsValid
  <2>5. WorksOnUnownedSlot'
    BY <1>4, <2>1, <2>2, <2>3 DEF WorksOnUnownedSlot, Owned
  <2>6. QED
    BY <1>5, <2>4, <2>5 DEF OwnershipInv
<1>8. CASE LoadPosition(p, published)
  <2>1. /\ slot \in ReaderSlot /\ readers[slot].active /\ ~Owned(slot)
        /\ control'[p].pc = "positioned" /\ control'[p].slot = slot
        /\ control'[p].generation = readers[slot].generation
        /\ UNCHANGED <<readers, held>>
    BY <1>1, <1>8 DEF LoadPosition, ControlState, SlotChosen, OwnershipInv,
                      WorksOnUnownedSlot
  <2>2. HeldTokensStayValid'
    BY <2>1 DEF OwnershipInv, HeldTokensStayValid, tokenIsValid
  <2>3. WorksOnUnownedSlot'
    BY <1>4, <2>1 DEF WorksOnUnownedSlot, Owned
  <2>4. QED
    BY <1>5, <2>2, <2>3 DEF OwnershipInv
<1>9. CASE ReturnToken(p)
  <2>1. /\ slot \in ReaderSlot /\ readers[slot].active /\ ~Owned(slot)
        /\ control[p].generation = readers[slot].generation
        /\ control'[p].pc = "idle"
        /\ readers' = [readers EXCEPT ![slot].cursor = control[p].position]
        /\ held' = held \cup {TokenOf(p)}
    BY <1>1, <1>9 DEF ReturnToken, IdleControl, SlotChosen, OwnershipInv,
                      WorksOnUnownedSlot
  <2>2. \A s \in ReaderSlot : readers'[s].active = readers[s].active
                             /\ readers'[s].generation = readers[s].generation
    BY <1>1, <2>1 DEF ReaderState
  <2>3. TokenOf(p).slot = slot /\ TokenOf(p).generation = readers[slot].generation
    BY <2>1 DEF TokenOf
  <2>4. \A token \in held : token.slot # slot
    BY <2>1 DEF Owned
  <2>5. \A token \in held' : tokenIsValid(token)'
    BY <1>1, <2>1, <2>2, <2>3 DEF OwnershipInv, HeldTokensStayValid, tokenIsValid
  <2>6. \A token, other \in held' : token.slot = other.slot => token = other
    BY <2>1, <2>3, <2>4 DEF OwnershipInv, HeldTokensStayValid
  <2>7. WorksOnUnownedSlot'
    BY <1>4, <2>1 DEF WorksOnUnownedSlot
  <2>8. QED
    BY <1>5, <2>5, <2>6, <2>7 DEF OwnershipInv, HeldTokensStayValid
<1>10. CASE Deactivate(p) \/ Retire(p)
  <2>1. /\ slot \in ReaderSlot /\ ~Owned(slot) /\ UNCHANGED held
    BY <1>1, <1>10 DEF Deactivate, Retire, SlotChosen, OwnershipInv, WorksOnUnownedSlot
  <2>2. \A s \in ReaderSlot : s # slot => readers'[s] = readers[s]
    BY <1>1, <2>1, <1>10 DEF Deactivate, Retire
  <2>3. \A token \in held : token.slot # slot
    BY <2>1 DEF Owned
  <2>4. HeldTokensStayValid'
    BY <1>1, <2>1, <2>2, <2>3 DEF OwnershipInv, HeldTokensStayValid, tokenIsValid
  <2>5. \/ control'[p].pc = "idle"
        \/ /\ control'[p].pc = "retiring" /\ control'[p].slot = slot
           /\ ~readers'[slot].active
    BY <1>1, <1>10, <2>1 DEF Deactivate, Retire, IdleControl, ControlState, ReaderState
  <2>6. WorksOnUnownedSlot'
    BY <1>4, <2>1, <2>5 DEF WorksOnUnownedSlot, Owned
  <2>7. QED
    BY <1>5, <2>4, <2>6 DEF OwnershipInv
<1>11. QED
  BY ContinueControl(p, published), <1>6, <1>7, <1>8, <1>9, <1>10 DEF ContinueControl

LEMMA ReadKeepsSlots ==
  ASSUME RingTypeInv, NEW t \in Copier, ContinueRead(t)
  PROVE  \A s \in ReaderSlot :
           /\ readers'[s].active = readers[s].active
           /\ readers'[s].generation = readers[s].generation
<1>1. CASE StoreCursor(t)
  BY <1>1 DEF StoreCursor, RingTypeInv, RingTypeOK, CursorsTypeOK, ReaderState
<1>2. CASE ~StoreCursor(t)
  BY <1>2, ContinueRead(t)
     DEF ContinueRead, LoadPublished, LoadCursor, CopyNextFrame, CopyOn, CountFrame,
         cursorVars
<1>3. QED
  BY <1>1, <1>2

\* A step of the ring is one of the control operations or moves cursors only.
LEMMA ControlOrCursors ==
  ASSUME RingTypeInv, [RingNext]_ringVars
  PROVE  \/ \E p \in Controller : StartControl(p) \/ RingControl(p)
         \/ /\ UNCHANGED <<control, held, retired, registrations>>
            /\ \A s \in ReaderSlot :
                 /\ readers'[s].active = readers[s].active
                 /\ readers'[s].generation = readers[s].generation
<1>1. CASE RingWrite
  BY <1>1 DEF RingWrite, cursorVars
<1>2. ASSUME NEW t \in Copier, NEW token \in held \cup retired, NEW k \in ReadSize,
             BeginRead(t, token, k)
      PROVE  UNCHANGED cursorVars
  BY <1>2 DEF BeginRead
<1>3. ASSUME NEW t \in Copier, ContinueRead(t)
      PROVE  /\ UNCHANGED <<control, held, retired, registrations>>
             /\ \A s \in ReaderSlot :
                  /\ readers'[s].active = readers[s].active
                  /\ readers'[s].generation = readers[s].generation
  BY <1>3, ReadKeepsSlots, ContinueReadType
<1>4. QED
  BY [RingNext]_ringVars, <1>1, <1>2, <1>3 DEF RingNext, ringVars, cursorVars

LEMMA OwnershipStep ==
  ASSUME Serialized, RingTypeInv, OwnershipInv, [RingNext]_ringVars
  PROVE  OwnershipInv'
<1>1. ASSUME NEW p \in Controller, RingControl(p)
      PROVE  OwnershipInv'
  BY <1>1, OwnershipContinueControl
     DEF RingControl, RingTypeInv, RingTypeOK, StoreTypeOK
<1>2. QED
  BY <1>1, Serialized, ControlOrCursors, OwnershipStartControl, CursorsAlone

LEMMA OwnershipInit == RingInit => OwnershipInv
  BY DEF RingInit, CursorsInit, OwnershipInv, OneControlAtATime, WorksOnUnownedSlot,
         HeldTokensStayValid, IdleControl

LEMMA OwnershipHolds ==
  ASSUME Serialized
  PROVE  RingSpec => []OwnershipInv
<1>1. RingTypeInv /\ OwnershipInv /\ [RingNext]_ringVars => OwnershipInv'
  BY Serialized, OwnershipStep
<1>2. QED
  BY <1>1, OwnershipInit, RingTypeInvHolds, PTL DEF RingSpec

(***************************************************************************)
(* Where control operations exclude each other, the token registerReader   *)
(* returned stays valid, and alone on its slot, until it is given back.    *)
(***************************************************************************)
THEOREM HeldTokensStayValidHolds ==
  ASSUME Serialized
  PROVE  RingSpec => []HeldTokensStayValid
<1>1. OwnershipInv => HeldTokensStayValid
  BY DEF OwnershipInv
<1>2. QED
  BY <1>1, Serialized, OwnershipHolds, PTL

-----------------------------------------------------------------------------
LEMMA NextTurn ==
  ASSUME NEW g \in Generation
  PROVE  /\ Turn(g) \in 0 .. GenerationModulus - 1
         /\ Turn(g) + 1 < GenerationModulus =>
              Turn(NextGeneration(g)) = Turn(g) + 1
<1>1. g \in Nat /\ g < GenerationModulus
      /\ GenerationModulus \in Nat /\ GenerationModulus > 1
  BY GenerationModulusAssumption DEF Generation
<1>2. Turn(g) \in 0 .. GenerationModulus - 1
  BY <1>1 DEF Turn
<1>3. ASSUME Turn(g) + 1 < GenerationModulus
      PROVE  Turn(NextGeneration(g)) = Turn(g) + 1
  <2>1. g # 0 /\ Turn(g) = g - 1
    BY <1>1, <1>3 DEF Turn
  <2>2. CASE g + 1 < GenerationModulus
    <3>1. NextGeneration(g) = g + 1
      BY <1>1, <2>2 DEF NextGeneration
    <3>2. QED
      BY <1>1, <2>1, <3>1 DEF Turn
  <2>3. CASE g + 1 = GenerationModulus
    <3>1. NextGeneration(g) = 0
      BY <1>1, <2>3 DEF NextGeneration
    <3>2. QED
      BY <1>1, <2>1, <2>3, <3>1 DEF Turn
  <2>4. QED
    BY <1>1, <2>2, <2>3
<1>4. QED
  BY <1>2, <1>3

LEMMA TurnStartControl ==
  ASSUME Serialized, RingTypeInv, OwnershipInv, TurnInv,
         NEW p \in Controller, StartControl(p)
  PROVE  TurnInv'
<1>1. /\ control \in [Controller -> ControlState]
      /\ registrations \in Nat
      /\ \A token \in held \cup retired : token.slot \in ReaderSlot
      /\ \A s \in ReaderSlot : Turn(readers[s].generation) \in Nat
  BY TokenType, NextTurn, GenerationModulusAssumption
     DEF RingTypeInv, RingTypeOK, CursorsTypeOK, ReaderState
<1>2. \A q \in Controller : control[q].pc = "idle"
  BY Serialized, StartControl(p) DEF StartControl, BeginRegister, BeginUnregister, MayControl
<1>3. /\ \A s : ~BeingRetired(s)
      /\ ~ \E q \in Controller : control[q].pc = "scanning"
  BY <1>2 DEF BeingRetired
<1>4. /\ \A s \in ReaderSlot :
           Turn(readers[s].generation) + (IF readers[s].active THEN 1 ELSE 0)
             <= registrations
      /\ \A token \in retired :
           Turn(token.generation) < Turn(readers[token.slot].generation)
  BY <1>1, <1>3 DEF TurnInv, TurnsAreRegistered, RetiredTokensAreOld
<1>5. CASE BeginRegister(p)
  <2>1. /\ \A q \in Controller : control'[q].pc \in {"idle", "scanning"}
        /\ registrations' = registrations + 1 /\ UNCHANGED <<readers, retired>>
    BY <1>1, <1>2, <1>5 DEF BeginRegister, ControlState
  <2>2. \A s : ~BeingRetired(s)'
    BY <2>1 DEF BeingRetired
  <2>3. QED
    BY <1>1, <1>4, <2>1, <2>2 DEF TurnInv, TurnsAreRegistered, RetiredTokensAreOld
<1>6. ASSUME NEW token \in held \cup retired, BeginUnregister(p, token)
      PROVE  TurnInv'
  <2>1. /\ control'[p].pc = "deactivating" /\ control'[p].slot = token.slot
        /\ \A q \in Controller : q # p => control'[q].pc = "idle"
        /\ UNCHANGED <<readers, registrations>> /\ retired' = retired \cup {token}
        /\ readers[token.slot].active
        /\ readers[token.slot].generation = token.generation
    BY <1>1, <1>2, <1>6 DEF BeginUnregister, ControlState, tokenIsValid
  <2>2. /\ \A s : BeingRetired(s)' => s = token.slot
        /\ BeingRetired(token.slot)'
        /\ ~ \E q \in Controller : control'[q].pc = "scanning"
    BY <2>1 DEF BeingRetired
  <2>3. TurnsAreRegistered'
    BY <1>1, <1>4, <2>1, <2>2 DEF TurnsAreRegistered
  <2>4. RetiredTokensAreOld'
    BY <1>4, <2>1, <2>2 DEF RetiredTokensAreOld
  <2>5. QED
    BY <2>3, <2>4 DEF TurnInv
<1>7. QED
  BY StartControl(p), <1>5, <1>6 DEF StartControl

LEMMA TurnContinueControl ==
  ASSUME MaxRegistrations < GenerationModulus, RingTypeInv, OwnershipInv, TurnInv,
         NEW p \in Controller, NEW published \in Nat, ContinueControl(p, published)
  PROVE  TurnInv'
<1> DEFINE slot == control[p].slot
<1>1. /\ control \in [Controller -> ControlState]
      /\ readers \in [ReaderSlot -> ReaderState]
      /\ registrations \in Nat /\ registrations < GenerationModulus
      /\ \A token \in retired : token.slot \in ReaderSlot
      /\ \A token \in retired : Turn(token.generation) \in Nat
      /\ \A s \in ReaderSlot : readers[s].generation \in Generation
      /\ \A s \in ReaderSlot : Turn(readers[s].generation) \in Nat
      /\ SlotChosen
  BY TokenType, NextTurn, GenerationModulusAssumption, MaxRegistrationsAssumption,
     MaxRegistrations < GenerationModulus
     DEF RingTypeInv, RingTypeOK, CursorsTypeOK, ReaderState
<1>2. control[p].pc # "idle" /\ UNCHANGED <<retired, registrations>>
  BY ContinueControl(p, published)
     DEF ContinueControl, SkipSlot, RegisterFails, ClaimSlot, LoadPosition, ReturnToken,
         Deactivate, Retire
<1>3. \A q \in Controller : q # p => control[q].pc = "idle"
  BY <1>2 DEF OwnershipInv, OneControlAtATime
<1>4. \A q \in Controller : q # p => control'[q].pc = "idle"
  BY <1>1, <1>3, ContinueControl(p, published)
     DEF ContinueControl, SkipSlot, RegisterFails, ClaimSlot, LoadPosition, ReturnToken,
         Deactivate, Retire
<1>5. /\ \A s : BeingRetired(s) <=>
                 control[p].pc \in {"deactivating", "retiring"} /\ slot = s
      /\ \A s : BeingRetired(s)' <=>
                 control'[p].pc \in {"deactivating", "retiring"} /\ control'[p].slot = s
      /\ (\E q \in Controller : control[q].pc = "scanning") <=> control[p].pc = "scanning"
      /\ (\E q \in Controller : control'[q].pc = "scanning") <=> control'[p].pc = "scanning"
  BY <1>3, <1>4 DEF BeingRetired
<1>6. CASE SkipSlot(p) \/ RegisterFails(p) \/ LoadPosition(p, published)
  <2>1. /\ UNCHANGED readers
        /\ control[p].pc \in {"scanning", "claimed"}
        /\ control'[p].pc \in {"scanning", "idle", "positioned"}
        /\ control'[p].pc = "scanning" => control[p].pc = "scanning"
    <3>1. CASE SkipSlot(p)
      BY <1>1, <3>1 DEF SkipSlot, ControlState
    <3>2. CASE RegisterFails(p)
      BY <1>1, <3>2 DEF RegisterFails, IdleControl
    <3>3. CASE LoadPosition(p, published)
      BY <1>1, <3>3 DEF LoadPosition, ControlState
    <3>4. QED
      BY <1>6, <3>1, <3>2, <3>3
  <2>2. \A s : ~BeingRetired(s) /\ ~BeingRetired(s)'
    BY <1>5, <2>1
  <2>3. TurnsAreRegistered'
    BY <1>1, <1>2, <1>5, <2>1, <2>2 DEF TurnInv, TurnsAreRegistered
  <2>4. RetiredTokensAreOld'
    BY <1>2, <2>1, <2>2 DEF TurnInv, RetiredTokensAreOld
  <2>5. QED
    BY <2>3, <2>4 DEF TurnInv
<1>7. CASE ClaimSlot(p) \/ ReturnToken(p)
  <2>1. /\ slot \in ReaderSlot
        /\ \A s \in ReaderSlot : s # slot => readers'[s] = readers[s]
        /\ readers'[slot].generation = readers[slot].generation
        /\ readers'[slot].active \in BOOLEAN /\ readers[slot].active \in BOOLEAN
        /\ readers'[slot].active => readers[slot].active \/ control[p].pc = "scanning"
        /\ control[p].pc \in {"scanning", "positioned"}
        /\ control'[p].pc \in {"claimed", "idle"}
    <3>1. slot \in ReaderSlot
      BY <1>1, <1>7 DEF ClaimSlot, ReturnToken, SlotChosen
    <3>2. CASE ClaimSlot(p)
      BY <1>1, <3>1, <3>2 DEF ClaimSlot, ControlState, ReaderState
    <3>3. CASE ReturnToken(p)
      BY <1>1, <3>1, <3>3 DEF ReturnToken, IdleControl, ReaderState
    <3>4. QED
      BY <1>7, <3>2, <3>3
  <2>2. \A s : ~BeingRetired(s) /\ ~BeingRetired(s)'
    BY <1>5, <2>1
  <2>3. TurnsAreRegistered'
    <3>1. ASSUME NEW s \in ReaderSlot
          PROVE  Turn(readers'[s].generation) + (IF readers'[s].active THEN 1 ELSE 0)
                   <= registrations
      <4>1. Turn(readers[s].generation) + (IF readers[s].active THEN 1 ELSE 0)
              + (IF control[p].pc = "scanning" THEN 1 ELSE 0) <= registrations
        BY <1>5, <2>2 DEF TurnInv, TurnsAreRegistered
      <4>2. Turn(readers[s].generation) \in Nat
        BY <1>1
      <4>3. CASE s = slot
        BY <1>1, <2>1, <4>1, <4>2, <4>3
      <4>4. CASE s # slot
        BY <1>1, <2>1, <4>1, <4>2, <4>4
      <4>5. QED
        BY <4>3, <4>4
    <3>2. ~ \E q \in Controller : control'[q].pc = "scanning"
      BY <1>5, <2>1
    <3>3. \A s \in ReaderSlot : Turn(readers'[s].generation) \in Nat
      BY <1>1, <2>1
    <3>4. QED
      BY <1>2, <2>2, <3>1, <3>2, <3>3 DEF TurnsAreRegistered
  <2>4. RetiredTokensAreOld'
    BY <1>1, <1>2, <2>1, <2>2 DEF TurnInv, RetiredTokensAreOld
  <2>5. QED
    BY <2>3, <2>4 DEF TurnInv
<1>8. CASE Deactivate(p)
  <2>1. /\ slot \in ReaderSlot
        /\ \A s \in ReaderSlot : s # slot => readers'[s] = readers[s]
        /\ readers'[slot].generation = readers[slot].generation
        /\ control[p].pc = "deactivating" /\ control'[p].pc = "retiring"
        /\ control'[p].slot = slot
    BY <1>1, <1>8 DEF Deactivate, ControlState, ReaderState, SlotChosen
  <2>2. /\ \A s : BeingRetired(s)' <=> BeingRetired(s)
        /\ BeingRetired(slot)
    BY <1>5, <2>1
  <2>3. TurnsAreRegistered'
    BY <1>1, <1>2, <1>5, <2>1, <2>2 DEF TurnInv, TurnsAreRegistered
  <2>4. RetiredTokensAreOld'
    BY <1>1, <1>2, <2>1, <2>2 DEF TurnInv, RetiredTokensAreOld
  <2>5. QED
    BY <2>3, <2>4 DEF TurnInv
<1>9. CASE Retire(p)
  <2>1. /\ slot \in ReaderSlot /\ ~readers'[slot].active
        /\ \A s \in ReaderSlot : s # slot => readers'[s] = readers[s]
        /\ readers'[slot].generation = NextGeneration(readers[slot].generation)
        /\ control[p].pc = "retiring" /\ control'[p].pc = "idle"
    BY <1>1, <1>9
       DEF Retire, IdleControl, ReaderState, SlotChosen, OwnershipInv, WorksOnUnownedSlot
  <2>2. /\ \A s : ~BeingRetired(s)'
        /\ \A s : BeingRetired(s) <=> s = slot
        /\ ~ \E q \in Controller : control'[q].pc = "scanning"
    BY <1>5, <2>1
  <2>3. Turn(readers[slot].generation) + 1 <= registrations
    BY <1>1, <1>5, <2>1, <2>2 DEF TurnInv, TurnsAreRegistered
  <2>4. Turn(readers'[slot].generation) = Turn(readers[slot].generation) + 1
    BY <1>1, <2>1, <2>3, NextTurn, GenerationModulusAssumption
  <2>5. TurnsAreRegistered'
    BY <1>1, <1>2, <1>5, <2>1, <2>2, <2>3, <2>4 DEF TurnInv, TurnsAreRegistered
  <2>6. RetiredTokensAreOld'
    BY <1>1, <1>2, <2>1, <2>2, <2>4 DEF TurnInv, RetiredTokensAreOld
  <2>7. QED
    BY <2>5, <2>6 DEF TurnInv
<1>10. QED
  BY ContinueControl(p, published), <1>6, <1>7, <1>8, <1>9 DEF ContinueControl

LEMMA TurnStep ==
  ASSUME Serialized, MaxRegistrations < GenerationModulus, RingTypeInv, OwnershipInv,
         TurnInv, [RingNext]_ringVars
  PROVE  TurnInv'
<1>1. ASSUME NEW p \in Controller, RingControl(p)
      PROVE  TurnInv'
  BY <1>1, MaxRegistrations < GenerationModulus, TurnContinueControl
     DEF RingControl, RingTypeInv, RingTypeOK, StoreTypeOK
<1>2. QED
  BY <1>1, Serialized, ControlOrCursors, TurnStartControl, CursorsAlone

LEMMA TurnInit == RingInit => TurnInv
  BY GenerationModulusAssumption
     DEF RingInit, CursorsInit, TurnInv, TurnsAreRegistered, RetiredTokensAreOld,
         BeingRetired, IdleControl, Turn

LEMMA TurnHolds ==
  ASSUME Serialized, MaxRegistrations < GenerationModulus
  PROVE  RingSpec => []TurnInv
<1>1. RingTypeInv /\ OwnershipInv /\ TurnInv /\ [RingNext]_ringVars => TurnInv'
  BY Serialized, MaxRegistrations < GenerationModulus, TurnStep
<1>2. RingSpec => []OwnershipInv
  BY Serialized, OwnershipHolds
<1>3. QED
  BY <1>1, <1>2, TurnInit, RingTypeInvHolds, PTL DEF RingSpec

LEMMA OldTokensAreInvalid ==
  ASSUME RingTypeInv, OwnershipInv, TurnInv, NEW token \in retired, tokenIsValid(token)
  PROVE  BeingGivenBack(token)
<1>1. token.slot \in ReaderSlot
  BY TokenType DEF RingTypeInv, RingTypeOK, CursorsTypeOK
<1>2. BeingRetired(token.slot)
  BY NextTurn, <1>1, GenerationModulusAssumption
     DEF TurnInv, RetiredTokensAreOld, tokenIsValid, RingTypeInv, RingTypeOK,
         CursorsTypeOK, ReaderState
<1>3. QED
  BY <1>2 DEF BeingRetired, BeingGivenBack, OwnershipInv, WorksOnUnownedSlot, tokenIsValid

(***************************************************************************)
(* As long as a slot's generations do not come round, a token that was     *)
(* given back is never valid again once the unregister is done.            *)
(***************************************************************************)
THEOREM RetiredTokensStayInvalidHolds ==
  ASSUME Serialized, MaxRegistrations < GenerationModulus
  PROVE  RingSpec => []RetiredTokensStayInvalid
<1>1. RingTypeInv /\ OwnershipInv /\ TurnInv => RetiredTokensStayInvalid
  BY OldTokensAreInvalid DEF RetiredTokensStayInvalid, BeingGivenBack
<1>2. RingSpec => []OwnershipInv /\ []TurnInv
  BY Serialized, MaxRegistrations < GenerationModulus, OwnershipHolds, TurnHolds
<1>3. QED
  BY <1>1, <1>2, RingTypeInvHolds, PTL

-----------------------------------------------------------------------------
LEMMA ListeningTypes ==
  ASSUME RingTypeInv
  PROVE  /\ publishedFrameCount \in Nat /\ NewestTouched \in Int /\ Capacity \in Nat
         /\ call \in [Copier -> ReadState] /\ copy \in [Copier -> CopyState]
         /\ readers \in [ReaderSlot -> ReaderState]
         /\ account \in [ReaderSlot -> Account]
         /\ \A t \in Copier : call[t].token.slot \in ReaderSlot
         /\ \A token \in held : token \in RealtimeAudioReaderToken
                               /\ token.slot \in ReaderSlot
<1>1. writer.frame \in Nat /\ writer.marked \in BOOLEAN
  BY DEF RingTypeInv, RingTypeOK, StoreTypeOK, WriterState
<1>2. NewestTouched \in Int
  BY <1>1 DEF NewestTouched
<1>3. QED
  BY <1>2, TokenType, CapacityAssumption
     DEF RingTypeInv, RingTypeOK, CursorsTypeOK, StoreTypeOK, ReadState

\* The slot that a read under way follows has an owner, and no other read
\* follows it.
LEMMA ReadsFollowTheirOwnSlot ==
  ASSUME RingTypeInv, OwnershipInv, ReadsAreOwned,
         NEW t \in Copier, call[t].pc # "idle"
  PROVE  /\ Owned(call[t].token.slot)
         /\ \A u \in Copier :
              call[u].pc # "idle" /\ call[u].token.slot = call[t].token.slot => u = t
  BY DEF OwnershipInv, HeldTokensStayValid, ReadsAreOwned, Owned

\* A read is undisturbed by a step that leaves its thread, its slot and the
\* account of its owner alone, while the timeline and the writer move on.
LEMMA ReadKept ==
  ASSUME RingTypeInv, RingTypeInv', NEW t \in Copier, ReadSound(t),
         call'[t] = call[t], copy'[t] = copy[t],
         publishedFrameCount <= publishedFrameCount', NewestTouched <= NewestTouched',
         call[t].pc # "idle" =>
           LET slot == call[t].token.slot
           IN  /\ readers'[slot].cursor = readers[slot].cursor
               /\ account'[slot].newest = account[slot].newest
  PROVE  ReadSound(t)'
<1>1. /\ publishedFrameCount \in Nat /\ publishedFrameCount' \in Nat
      /\ NewestTouched \in Int /\ NewestTouched' \in Int /\ Capacity \in Nat
      /\ call[t] \in ReadState
  <2>1. /\ publishedFrameCount' \in Nat /\ writer'.frame \in Nat
        /\ writer'.marked \in BOOLEAN
    BY DEF RingTypeInv, RingTypeOK, StoreTypeOK, WriterState
  <2>2. NewestTouched' \in Int
    BY <2>1 DEF NewestTouched
  <2>3. QED
    BY <2>1, <2>2, ListeningTypes
<1>2. CASE call[t].pc = "copying"
  <2>1. CopyingFrom(t)
    BY <1>2 DEF ReadSound
  <2>2. CopyingFrom(t)'
    BY <1>1, <1>2, <2>1 DEF CopyingFrom, ReadState
  <2>3. QED
    BY <1>2, <2>2 DEF ReadSound
<1>3. CASE call[t].pc # "copying"
  BY <1>1, <1>3 DEF ReadSound, ReadState
<1>4. QED
  BY <1>2, <1>3

LEMMA NewestTouchedGrows ==
  ASSUME StoreTypeOK, WriterInv, WriteStep
  PROVE  NewestTouched <= NewestTouched'
<1>1. /\ writer.frame \in Nat /\ writer.marked \in BOOLEAN /\ writer.end \in Nat
      /\ publishedFrameCount \in Nat /\ writer \in WriterState
  BY DEF StoreTypeOK, WriterState
<1>2. writer.frame <= writer'.frame
  BY WriterStep
<1>3. ASSUME NEW k \in WriteSize, BeginWrite(k)
      PROVE  ~writer.marked /\ ~writer'.marked
  BY <1>3 DEF BeginWrite, WriterInv
<1>4. ASSUME NEW c \in Channel, StoreSample(c)
      PROVE  writer'.marked = writer.marked
  BY <1>1, <1>4 DEF StoreSample, WriterState
<1>5. CASE MarkWriting
  BY <1>1, <1>5 DEF MarkWriting, WriterState, NewestTouched
<1>6. CASE MarkReady
  BY <1>1, <1>6 DEF MarkReady, NewestTouched
<1>7. CASE Publish
  BY <1>1, <1>7 DEF Publish, WriterState, NewestTouched
<1>8. writer'.frame \in Nat
  BY WriteStepType DEF StoreTypeOK, WriterState
<1>9. CASE writer.marked => writer'.marked
  BY <1>1, <1>2, <1>8, <1>9 DEF NewestTouched
<1>10. QED
  BY WriteStep, <1>3, <1>4, <1>5, <1>6, <1>7, <1>9 DEF WriteStep, ContinueWrite, MarkWriting

LEMMA ListeningWrite ==
  ASSUME RingTypeInv, RingTypeInv', RetentionInv, ListeningInv, RingWrite
  PROVE  ListeningInv'
<1>1. /\ publishedFrameCount <= publishedFrameCount' /\ NewestTouched <= NewestTouched'
      /\ UNCHANGED <<copy, readers, control, held, call, account>>
  BY WriterStep, NewestTouchedGrows
     DEF RetentionInv, RingTypeInv, RingTypeOK, RingWrite, cursorVars, WriteStep,
         ContinueWrite, BeginWrite, MarkWriting, StoreSample, MarkReady, Publish
<1>2. /\ publishedFrameCount \in Nat /\ publishedFrameCount' \in Nat
      /\ \A s \in ReaderSlot : readers[s].cursor \in Nat
      /\ \A p \in Controller : control[p].position \in Nat
  BY DEF RingTypeInv, RingTypeOK, StoreTypeOK, CursorsTypeOK, ReaderState, ControlState
<1>3. ReadsAreOwned' /\ AccountInv'
  BY <1>1 DEF ListeningInv, ReadsAreOwned, AccountInv, AccountSound, Owned
<1>4. CursorOnTimeline'
  BY <1>1, <1>2 DEF ListeningInv, CursorOnTimeline, Owned
<1>5. ReadInv'
  BY <1>1, ReadKept DEF ListeningInv, ReadInv
<1>6. QED
  BY <1>3, <1>4, <1>5 DEF ListeningInv

LEMMA ListeningStartControl ==
  ASSUME Serialized, DrainBeforeUnregister, RingTypeInv, RingTypeInv', ListeningInv,
         NEW p \in Controller, StartControl(p)
  PROVE  ListeningInv'
<1>1. /\ UNCHANGED <<storeVars, readers, call, account>>
      /\ held' \subseteq held
      /\ \A token \in held : InUse(token) => token \in held'
      /\ \A q \in Controller : control'[q].pc # "positioned"
  <2>1. /\ control \in [Controller -> ControlState]
        /\ \A q \in Controller : control[q].pc = "idle"
    BY Serialized, StartControl(p)
       DEF StartControl, BeginRegister, BeginUnregister, MayControl, RingTypeInv,
           RingTypeOK, CursorsTypeOK
  <2>2. CASE BeginRegister(p)
    BY <2>1, <2>2, StartControl(p) DEF StartControl, BeginRegister, IdleControl
  <2>3. ASSUME NEW token \in held \cup retired, ~InUse(token), BeginUnregister(p, token)
        PROVE  /\ held' = held \ {token} /\ UNCHANGED readers
               /\ \A q \in Controller : control'[q].pc # "positioned"
    BY <2>1, <2>3 DEF BeginUnregister, IdleControl
  <2>4. QED
    BY <2>2, <2>3, DrainBeforeUnregister, StartControl(p) DEF StartControl, BeginRegister
<1>2. /\ publishedFrameCount' = publishedFrameCount /\ NewestTouched' = NewestTouched
      /\ copy' = copy
  BY <1>1 DEF storeVars, NewestTouched
<1>3. ReadsAreOwned' /\ AccountInv'
  BY <1>1 DEF ListeningInv, ReadsAreOwned, AccountInv, AccountSound, Owned, InUse
<1>4. CursorOnTimeline'
  BY <1>1, <1>2 DEF ListeningInv, CursorOnTimeline, Owned
<1>5. ReadInv'
  BY <1>1, <1>2, ReadKept, ListeningTypes DEF ListeningInv, ReadInv
<1>6. QED
  BY <1>3, <1>4, <1>5 DEF ListeningInv

LEMMA ListeningContinueControl ==
  ASSUME RingTypeInv, RingTypeInv', OwnershipInv, ListeningInv,
         NEW p \in Controller, RingControl(p)
  PROVE  ListeningInv'
<1> DEFINE slot == control[p].slot
<1>1. /\ control \in [Controller -> ControlState]
      /\ readers \in [ReaderSlot -> ReaderState]
      /\ publishedFrameCount \in Nat /\ SlotChosen
  BY DEF RingTypeInv, RingTypeOK, CursorsTypeOK, StoreTypeOK
<1>2. /\ ContinueControl(p, publishedFrameCount) /\ UNCHANGED <<storeVars, call>>
      /\ account' = [s \in ReaderSlot |->
                       IF control[p].pc = "positioned" /\ slot = s
                         THEN NewAccount(control[p].position) ELSE account[s]]
  BY DEF RingControl
<1>3. /\ publishedFrameCount' = publishedFrameCount /\ NewestTouched' = NewestTouched
      /\ copy' = copy
  BY <1>2 DEF storeVars, NewestTouched
<1>4. ASSUME NEW s \in ReaderSlot, Owned(s)
      PROVE  readers'[s].cursor = readers[s].cursor /\ account'[s] = account[s]
  <2>1. control[p].pc = "positioned" => slot # s
    BY <1>4 DEF OwnershipInv, WorksOnUnownedSlot
  <2>2. readers'[s].cursor = readers[s].cursor
    BY <1>1, <1>2, <1>4, <2>1
       DEF ContinueControl, SkipSlot, RegisterFails, ClaimSlot, LoadPosition,
           ReturnToken, Deactivate, Retire, ReaderState
  <2>3. QED
    BY <1>2, <2>1, <2>2
<1>5. \/ held' = held
      \/ ReturnToken(p) /\ held' = held \cup {TokenOf(p)}
  BY <1>2 DEF ContinueControl, SkipSlot, RegisterFails, ClaimSlot, LoadPosition,
              ReturnToken, Deactivate, Retire
<1>6. ReadsAreOwned'
  BY <1>2, <1>5 DEF ListeningInv, ReadsAreOwned
<1>7. ASSUME NEW s \in ReaderSlot, Owned(s)', ~Owned(s)
      PROVE  /\ readers'[s].cursor = control[p].position
             /\ account'[s] = NewAccount(control[p].position)
             /\ control[p].position \in Nat
             /\ control[p].position <= publishedFrameCount
  <2>1. ReturnToken(p) /\ s = slot
    BY <1>5, <1>7 DEF Owned, TokenOf
  <2>2. control[p].pc = "positioned"
    BY <2>1 DEF ReturnToken
  <2>3. readers'[s].cursor = control[p].position
    BY <1>1, <2>1 DEF ReturnToken, ReaderState
  <2>4. QED
    BY <1>1, <1>2, <2>1, <2>2, <2>3
       DEF ListeningInv, CursorOnTimeline, ControlState
<1>8. CursorOnTimeline'
  <2>1. \A s \in ReaderSlot : Owned(s)' => readers'[s].cursor <= publishedFrameCount'
    BY <1>3, <1>4, <1>7 DEF ListeningInv, CursorOnTimeline
  <2>2. \A q \in Controller :
          control'[q].pc = "positioned" => control'[q].position <= publishedFrameCount'
    <3>1. \A q \in Controller : q # p => control'[q] = control[q]
      BY <1>1, <1>2
         DEF ContinueControl, SkipSlot, RegisterFails, ClaimSlot, LoadPosition,
             ReturnToken, Deactivate, Retire
    <3>2. control'[p].pc = "positioned" => control'[p].position = publishedFrameCount
      <4>1. CASE LoadPosition(p, publishedFrameCount)
        BY <1>1, <4>1 DEF LoadPosition, ControlState
      <4>2. CASE ~LoadPosition(p, publishedFrameCount)
        BY <1>1, <1>2, <4>2
           DEF ContinueControl, SkipSlot, RegisterFails, ClaimSlot, ReturnToken,
               Deactivate, Retire, IdleControl, ControlState
      <4>3. QED
        BY <4>1, <4>2
    <3>3. QED
      BY <1>1, <1>3, <3>1, <3>2 DEF ListeningInv, CursorOnTimeline
  <2>3. QED
    BY <2>1, <2>2 DEF CursorOnTimeline
<1>9. AccountInv'
  <2>1. ASSUME NEW s \in ReaderSlot, Owned(s)
        PROVE  /\ readers'[s].cursor =
                    account'[s].start + account'[s].audio + account'[s].dropped
               /\ \/ account'[s].newest < readers'[s].cursor
                  \/ \E t \in Copier : call'[t].pc = "copying" /\ call'[t].token.slot = s
    BY <1>2, <1>4, <2>1 DEF ListeningInv, AccountInv, AccountSound
  <2>2. ASSUME NEW s \in ReaderSlot, Owned(s)', ~Owned(s)
        PROVE  /\ readers'[s].cursor =
                    account'[s].start + account'[s].audio + account'[s].dropped
               /\ account'[s].newest < readers'[s].cursor
    BY <1>7, <2>2 DEF NewAccount, NoFrame
  <2>3. QED
    BY <2>1, <2>2 DEF AccountInv, AccountSound
<1>10. ASSUME NEW t \in Copier
       PROVE  ReadSound(t)'
  <2>1. ReadSound(t)
    BY DEF ListeningInv, ReadInv
  <2>2. call[t].token.slot \in ReaderSlot
    BY ListeningTypes
  <2>3. call[t].pc # "idle" => Owned(call[t].token.slot)
    BY ReadsFollowTheirOwnSlot DEF ListeningInv
  <2>4. publishedFrameCount <= publishedFrameCount' /\ NewestTouched <= NewestTouched'
    BY <1>3, ListeningTypes
  <2>5. QED
    BY <1>2, <1>3, <1>4, <2>1, <2>2, <2>3, <2>4, ReadKept
<1>11. QED
  BY <1>6, <1>8, <1>9, <1>10 DEF ListeningInv, ReadInv

LEMMA ListeningBeginRead ==
  ASSUME DrainBeforeUnregister, RingTypeInv, RingTypeInv', OwnershipInv, TurnInv,
         ListeningInv, NEW t \in Copier, NEW token \in held \cup retired,
         NEW k \in ReadSize, BeginRead(t, token, k)
  PROVE  ListeningInv'
<1>1. /\ token \in held /\ ~InUse(token)
      /\ UNCHANGED <<storeVars, readers, control, held, account>>
      /\ call[t].pc = "idle" /\ call'[t].pc = "validated" /\ call'[t].token = token
      /\ call'[t].offset = 0 /\ call'[t].audioFrames = 0 /\ call'[t].droppedFrames = 0
      /\ \A u \in Copier : u # t => call'[u] = call[u]
  <2>1. ~BeingGivenBack(token) /\ tokenIsValid(token) /\ ~InUse(token)
    BY DrainBeforeUnregister, BeginRead(t, token, k) DEF BeginRead
  <2>2. token \in held
    BY <2>1, OldTokensAreInvalid
  <2>3. QED
    BY <2>1, <2>2, BeginRead(t, token, k), ListeningTypes
       DEF BeginRead, IdleRead, cursorVars
<1>2. /\ publishedFrameCount' = publishedFrameCount /\ NewestTouched' = NewestTouched
      /\ copy' = copy
  BY <1>1 DEF storeVars, NewestTouched
<1>3. ReadsAreOwned'
  BY <1>1 DEF ListeningInv, ReadsAreOwned, InUse
<1>4. CursorOnTimeline'
  BY <1>1, <1>2 DEF ListeningInv, CursorOnTimeline, Owned
<1>5. AccountInv'
  <2>1. ASSUME NEW s \in ReaderSlot, AccountSound(s)
        PROVE  AccountSound(s)'
    BY <1>1, <2>1 DEF AccountSound
  <2>2. QED
    BY <1>1, <2>1 DEF ListeningInv, AccountInv, Owned
<1>6. ASSUME NEW u \in Copier
      PROVE  ReadSound(u)'
  <2>1. CASE u = t
    BY <1>1, <1>2, <2>1 DEF ListeningInv, ReadInv, ReadSound
  <2>2. CASE u # t
    BY <1>1, <1>2, <2>2, ReadKept, ListeningTypes DEF ListeningInv, ReadInv
  <2>3. QED
    BY <2>1, <2>2
<1>7. QED
  BY <1>3, <1>4, <1>5, <1>6 DEF ListeningInv, ReadInv

\* What a step of one read leaves alone.
LEMMA ContinueReadFrame ==
  ASSUME RingTypeInv, ReadInv, NEW t \in Copier, ContinueRead(t)
  PROVE  /\ call[t].pc # "idle"
         /\ call'[t].pc # "idle" => call'[t].token = call[t].token
         /\ UNCHANGED <<control, held, publishedFrameCount, writer>>
         /\ \A u \in Copier : u # t => call'[u] = call[u] /\ copy'[u] = copy[u]
         /\ \A s \in ReaderSlot :
              s # call[t].token.slot =>
                readers'[s] = readers[s] /\ account'[s] = account[s]
<1>1. /\ call \in [Copier -> ReadState] /\ copy \in [Copier -> CopyState]
      /\ readers \in [ReaderSlot -> ReaderState] /\ account \in [ReaderSlot -> Account]
  BY ListeningTypes
<1>2. CASE LoadPublished(t)
  BY <1>1, <1>2 DEF LoadPublished, ReadState, cursorVars, storeVars
<1>3. CASE LoadCursor(t)
  BY <1>1, <1>3 DEF LoadCursor, ReadState, cursorVars, storeVars
<1>4. CASE CopyNextFrame(t)
  BY <1>1, <1>4 DEF CopyNextFrame, CheckStamp, cursorVars
<1>5. CASE CopyOn(t)
  <2>1. copy[t].pc = "copying" /\ UNCHANGED <<publishedFrameCount, writer>>
        /\ \A u \in Copier : u # t => copy'[u] = copy[u]
    BY <1>1, <1>5 DEF CopyOn, LoadSample, RecheckStamp, Copied
  <2>2. call[t].pc = "copying"
    BY <2>1 DEF ReadInv, ReadSound
  <2>3. QED
    BY <1>5, <2>1, <2>2 DEF CopyOn, cursorVars
<1>6. CASE CountFrame(t)
  <2>1. copy[t].pc = "returning" /\ copy' = [copy EXCEPT ![t] = IdleCopy]
    BY <1>6 DEF CountFrame, Return
  <2>2. call[t].pc = "copying"
    BY <2>1 DEF ReadInv, ReadSound
  <2>3. CASE copy[t].ok
    <3>1. /\ call' = [call EXCEPT ![t] =
                        [call[t] EXCEPT !.offset = @ + 1, !.audioFrames = @ + 1]]
          /\ account' = [account EXCEPT ![call[t].token.slot].newest = copy[t].frame]
          /\ UNCHANGED <<control, held, readers, publishedFrameCount, writer>>
      BY <1>6, <2>3 DEF CountFrame, Return, cursorVars
    <3>2. call'[t].token = call[t].token
      BY <1>1, <3>1 DEF ReadState
    <3>3. /\ \A u \in Copier : u # t => call'[u] = call[u] /\ copy'[u] = copy[u]
          /\ \A s \in ReaderSlot : s # call[t].token.slot => account'[s] = account[s]
      BY <1>1, <2>1, <3>1
    <3>4. QED
      BY <2>2, <3>1, <3>2, <3>3
  <2>4. CASE ~copy[t].ok
    BY <1>1, <1>6, <2>1, <2>2, <2>4 DEF CountFrame, Return, ReadState, cursorVars
  <2>5. QED
    BY <2>3, <2>4
<1>7. CASE StoreCursor(t)
  BY <1>1, <1>7 DEF StoreCursor, IdleRead, storeVars
<1>8. QED
  BY ContinueRead(t), <1>2, <1>3, <1>4, <1>5, <1>6, <1>7 DEF ContinueRead

\* So the invariant is kept when it is kept for this read and its slot.
LEMMA ContinueReadKeeps ==
  ASSUME RingTypeInv, RingTypeInv', OwnershipInv, ListeningInv,
         NEW t \in Copier, ContinueRead(t),
         NEW slot \in ReaderSlot, slot = call[t].token.slot,
         ReadSound(t)', AccountSound(slot)',
         readers'[slot].cursor <= publishedFrameCount
  PROVE  ListeningInv'
<1>1. /\ call[t].pc # "idle"
      /\ call'[t].pc # "idle" => call'[t].token = call[t].token
      /\ UNCHANGED <<control, held, publishedFrameCount, writer>>
      /\ \A u \in Copier : u # t => call'[u] = call[u] /\ copy'[u] = copy[u]
      /\ \A s \in ReaderSlot :
           s # slot => readers'[s] = readers[s] /\ account'[s] = account[s]
  BY ContinueReadFrame DEF ListeningInv
<1>2. ReadsAreOwned'
  BY <1>1 DEF ListeningInv, ReadsAreOwned
<1>3. CursorOnTimeline'
  BY <1>1 DEF ListeningInv, CursorOnTimeline, Owned
<1>4. ASSUME NEW s \in ReaderSlot, Owned(s)'
      PROVE  AccountSound(s)'
  <2>1. CASE s # slot
    <3>1. AccountSound(s)
      BY <1>1, <1>4 DEF ListeningInv, AccountInv, Owned
    <3>2. readers'[s] = readers[s] /\ account'[s] = account[s]
      BY <1>1, <2>1
    <3>3. \A u \in Copier :
            call[u].pc = "copying" /\ call[u].token.slot = s => call'[u] = call[u]
      BY <1>1, <2>1
    <3>4. QED
      BY <3>1, <3>2, <3>3 DEF AccountSound
  <2>2. QED
    BY <2>1
<1>5. ASSUME NEW u \in Copier, u # t
      PROVE  ReadSound(u)'
  <2>1. call[u].pc # "idle" => call[u].token.slot # slot
    BY <1>1, <1>5, ReadsFollowTheirOwnSlot DEF ListeningInv
  <2>2. call[u].token.slot \in ReaderSlot
    BY ListeningTypes
  <2>3. /\ publishedFrameCount <= publishedFrameCount' /\ NewestTouched <= NewestTouched'
    BY <1>1, ListeningTypes DEF NewestTouched
  <2>4. ReadSound(u)
    BY DEF ListeningInv, ReadInv
  <2>5. QED
    BY <1>1, <1>5, <2>1, <2>2, <2>3, <2>4, ReadKept
<1>6. QED
  BY <1>2, <1>3, <1>4, <1>5 DEF ListeningInv, ReadInv, AccountInv

LEMMA ListeningLoad ==
  ASSUME RingTypeInv, RingTypeInv', RetentionInv, OwnershipInv, ListeningInv,
         NEW t \in Copier, LoadPublished(t) \/ LoadCursor(t),
         NEW slot \in ReaderSlot, slot = call[t].token.slot
  PROVE  ListeningInv'
<1>1. /\ call[t] \in ReadState /\ readers[slot].cursor \in Nat
      /\ publishedFrameCount \in Nat /\ Capacity \in Nat /\ NewestTouched \in Int
      /\ account[slot] \in Account /\ call \in [Copier -> ReadState]
  BY ListeningTypes DEF ReaderState
<1>2. /\ call[t].pc # "idle" /\ call[t].pc # "copying" /\ ContinueRead(t)
      /\ UNCHANGED <<storeVars, readers, account, held>>
      /\ \A u \in Copier : u # t => call'[u] = call[u]
      /\ call'[t].token = call[t].token
  <2>1. CASE LoadPublished(t)
    BY <1>1, <2>1 DEF LoadPublished, ContinueRead, cursorVars, ReadState
  <2>2. CASE LoadCursor(t)
    BY <1>1, <2>2 DEF LoadCursor, ContinueRead, cursorVars, ReadState
  <2>3. QED
    BY <2>1, <2>2
<1>3. /\ UNCHANGED <<publishedFrameCount, copy, writer>>
      /\ NewestTouched' = NewestTouched
  BY <1>2 DEF storeVars, NewestTouched
<1>4. Owned(slot) /\ readers[slot].cursor <= publishedFrameCount
      /\ AccountSound(slot) /\ ReadSound(t)
  BY <1>1, <1>2, ReadsFollowTheirOwnSlot
     DEF ListeningInv, CursorOnTimeline, AccountInv, ReadInv
<1>5. /\ account[slot].newest < readers[slot].cursor
      /\ readers[slot].cursor =
           account[slot].start + account[slot].audio + account[slot].dropped
  BY <1>2, <1>4, ReadsFollowTheirOwnSlot DEF ListeningInv, AccountSound
<1>6. AccountSound(slot)'
  BY <1>2, <1>5 DEF AccountSound
<1>7. /\ copy[t].pc = "idle" /\ call[t].offset = 0
      /\ call[t].audioFrames = 0 /\ call[t].droppedFrames = 0
  BY <1>2, <1>4 DEF ReadSound
<1>8. CASE LoadPublished(t)
  <2>1. /\ call'[t].pc = "loaded" /\ call'[t].published = publishedFrameCount
        /\ call'[t].offset = 0 /\ call'[t].audioFrames = 0 /\ call'[t].droppedFrames = 0
    BY <1>1, <1>7, <1>8 DEF LoadPublished, ReadState
  <2>2. ReadSound(t)'
    BY <1>1, <1>2, <1>3, <1>4, <1>7, <2>1 DEF ReadSound
  <2>3. QED
    BY <1>2, <1>4, <1>6, <2>2, ContinueReadKeeps
<1>9. CASE LoadCursor(t)
  <2> DEFINE from == readers[slot].cursor
             published == call[t].published
             cursor == ClampedCursor(from, published)
  <2>1. /\ call'[t].pc = "copying" /\ call'[t].from = from /\ call'[t].cursor = cursor
        /\ call'[t].droppedFrames = Larger(cursor - from, 0)
        /\ call'[t].readable = Smaller(published - cursor, call[t].frameCount)
        /\ call'[t].offset = call[t].offset /\ call'[t].audioFrames = call[t].audioFrames
        /\ call[t].pc = "loaded"
    BY <1>1, <1>9 DEF LoadCursor, ReadState
  <2>2. /\ from \in Nat /\ published \in Nat /\ call[t].frameCount \in Nat
        /\ from <= published /\ published <= publishedFrameCount
    BY <1>1, <1>4, <2>1 DEF ReadSound, ReadState
  <2>3. /\ cursor \in Nat /\ cursor <= published /\ from <= cursor
        /\ from < cursor => from + Capacity < published
    BY <2>2, ClampedCursorType
  <2>4. /\ Larger(cursor - from, 0) = cursor - from
        /\ Smaller(published - cursor, call[t].frameCount) \in Nat
        /\ Smaller(published - cursor, call[t].frameCount) <= published - cursor
    BY <2>2, <2>3 DEF Larger, Smaller
  <2> HIDE DEF cursor
  <2>5. /\ call'[t].cursor + call'[t].readable <= publishedFrameCount
        /\ call'[t].offset <= call'[t].readable
        /\ call'[t].from + call'[t].audioFrames + call'[t].droppedFrames
             = call'[t].cursor + call'[t].offset
        /\ account[slot].newest < call'[t].cursor + call'[t].offset
    BY <1>1, <1>5, <1>7, <2>1, <2>2, <2>3, <2>4, SMTT(30) DEF Account, NoFrame
  <2>6. call'[t].droppedFrames > 0 => call'[t].from + Capacity <= NewestTouched
    <3>1. publishedFrameCount <= NewestTouched + 1
      BY <1>1 DEF RetentionInv, WriterInv, NewestTouched, RingTypeInv, RingTypeOK,
                  StoreTypeOK, WriterState
    <3>2. QED
      BY <1>1, <2>1, <2>2, <2>3, <2>4, <3>1
  <2>7. CopyingFrom(t)'
    BY <1>2, <1>3, <2>1, <2>3, <2>5, <2>6 DEF CopyingFrom
  <2>8. ReadSound(t)'
    BY <1>2, <1>3, <1>7, <2>1, <2>7 DEF ReadSound
  <2>9. QED
    BY <1>2, <1>4, <1>6, <2>8, ContinueReadKeeps
<1>10. QED
  BY <1>8, <1>9

LEMMA ListeningCopy ==
  ASSUME RingTypeInv, RingTypeInv', OwnershipInv, ListeningInv,
         NEW t \in Copier, CopyNextFrame(t) \/ CopyOn(t),
         NEW slot \in ReaderSlot, slot = call[t].token.slot
  PROVE  ListeningInv'
<1>1. /\ copy \in [Copier -> CopyState] /\ copy[t] \in CopyState
      /\ ContinueRead(t) /\ ReadSound(t)
      /\ UNCHANGED <<readers, account, held, call>>
  BY ListeningTypes
     DEF ContinueRead, CopyNextFrame, CopyOn, cursorVars, ListeningInv, ReadInv
<1>2. /\ call[t].pc = "copying"
      /\ copy'[t].pc # "idle" =>
           /\ call[t].offset < call[t].readable
           /\ copy'[t].frame = call[t].cursor + call[t].offset
  <2>1. CASE CopyNextFrame(t)
    BY <1>1, <2>1 DEF CopyNextFrame, CheckStamp, IdleCopy
  <2>2. CASE CopyOn(t)
    <3>1. copy[t].pc = "copying" /\ copy'[t].frame = copy[t].frame
      <4>1. ASSUME NEW c \in Channel, LoadSample(t, c)
            PROVE  copy[t].pc = "copying" /\ copy'[t].frame = copy[t].frame
        BY <1>1, <4>1 DEF LoadSample, CopyState
      <4>2. CASE RecheckStamp(t) \/ Copied(t)
        BY <1>1, <4>2, ZenonT(30) DEF RecheckStamp, Copied, CopyState
      <4>3. QED
        BY <2>2, <4>1, <4>2 DEF CopyOn
    <3>2. QED
      BY <1>1, <3>1 DEF ReadSound
  <2>3. QED
    BY <2>1, <2>2
<1>3. UNCHANGED <<publishedFrameCount, writer>> /\ NewestTouched' = NewestTouched
  BY <1>1, ContinueReadFrame DEF ListeningInv, NewestTouched
<1>4. CopyingFrom(t)'
  BY <1>1, <1>2, <1>3 DEF ReadSound, CopyingFrom
<1>5. ReadSound(t)'
  BY <1>1, <1>2, <1>4 DEF ReadSound
<1>6. /\ AccountSound(slot) /\ readers[slot].cursor <= publishedFrameCount
  BY <1>2, ReadsFollowTheirOwnSlot DEF ListeningInv, CursorOnTimeline, AccountInv
<1>7. AccountSound(slot)'
  BY <1>1, <1>6 DEF AccountSound
<1>8. QED
  BY <1>1, <1>5, <1>6, <1>7, ContinueReadKeeps

\* The frame that was copied is counted once; it is counted as dropped only
\* when the writer has lapped it, and so lapped the reader.
LEMMA ListeningCount ==
  ASSUME RingTypeInv, RingTypeInv', RetentionInv, OwnershipInv, ListeningInv,
         NEW t \in Copier, CountFrame(t),
         NEW slot \in ReaderSlot, slot = call[t].token.slot
  PROVE  ListeningInv'
<1>1. /\ call \in [Copier -> ReadState] /\ call[t] \in ReadState
      /\ account \in [ReaderSlot -> Account] /\ account[slot] \in Account
      /\ copy \in [Copier -> CopyState] /\ copy[t] \in CopyState
      /\ NewestTouched \in Int /\ Capacity \in Nat
      /\ ContinueRead(t) /\ ReadSound(t) /\ UNCHANGED <<readers, held>>
  BY ListeningTypes DEF ContinueRead, CountFrame, cursorVars, ListeningInv, ReadInv
<1>2. /\ copy[t].pc = "returning" /\ copy'[t].pc = "idle"
      /\ call[t].pc = "copying" /\ call[t].offset < call[t].readable
      /\ copy[t].frame = call[t].cursor + call[t].offset /\ CopyingFrom(t)
  BY <1>1 DEF CountFrame, Return, IdleCopy, ReadSound
<1>3. UNCHANGED <<publishedFrameCount, writer>> /\ NewestTouched' = NewestTouched
  BY <1>1, ContinueReadFrame DEF ListeningInv, NewestTouched
<1>4. call'[t] = IF copy[t].ok
                   THEN [call[t] EXCEPT !.offset = @ + 1, !.audioFrames = @ + 1]
                   ELSE [call[t] EXCEPT !.offset = @ + 1, !.droppedFrames = @ + 1]
  BY <1>1 DEF CountFrame
<1>5. /\ call'[t].pc = "copying" /\ call'[t].token = call[t].token
      /\ call'[t].from = call[t].from /\ call'[t].cursor = call[t].cursor
      /\ call'[t].readable = call[t].readable /\ call'[t].offset = call[t].offset + 1
  <2>1. CASE copy[t].ok
    BY <1>1, <1>2, <1>4, <2>1 DEF ReadState
  <2>2. CASE ~copy[t].ok
    BY <1>1, <1>2, <1>4, <2>2 DEF ReadState
  <2>3. QED
    BY <2>1, <2>2
<1>6. /\ account'[slot].start = account[slot].start
      /\ account'[slot].audio = account[slot].audio
      /\ account'[slot].dropped = account[slot].dropped
  BY <1>1 DEF CountFrame, Account
<1>7. /\ AccountSound(slot) /\ readers[slot].cursor <= publishedFrameCount
  BY <1>2, ReadsFollowTheirOwnSlot DEF ListeningInv, CursorOnTimeline, AccountInv
<1>8. AccountSound(slot)'
  BY <1>1, <1>5, <1>6, <1>7 DEF AccountSound
<1>9. /\ call'[t].audioFrames + call'[t].droppedFrames
           = call[t].audioFrames + call[t].droppedFrames + 1
      /\ account'[slot].newest < call[t].cursor + call[t].offset + 1
      /\ call'[t].droppedFrames > 0 => call[t].from + Capacity <= NewestTouched
  <2>1. CASE copy[t].ok
    <3>1. /\ call'[t].audioFrames = call[t].audioFrames + 1
          /\ call'[t].droppedFrames = call[t].droppedFrames
      BY <1>1, <1>4, <2>1 DEF ReadState
    <3>2. account'[slot].newest = copy[t].frame
      BY <1>1, <2>1 DEF CountFrame, Account
    <3>3. QED
      <4>1. /\ call[t].cursor \in Nat /\ call[t].offset \in Nat
            /\ call[t].audioFrames \in Nat /\ call[t].droppedFrames \in Nat
        BY <1>1 DEF ReadState
      <4>2. call[t].droppedFrames > 0 => call[t].from + Capacity <= NewestTouched
        BY <1>2 DEF CopyingFrom
      <4>3. account'[slot].newest < call[t].cursor + call[t].offset + 1
        BY <1>2, <3>2, <4>1
      <4>4. QED
        BY <3>1, <4>1, <4>2, <4>3
  <2>2. CASE ~copy[t].ok
    <3>1. /\ call'[t].audioFrames = call[t].audioFrames
          /\ call'[t].droppedFrames = call[t].droppedFrames + 1
      BY <1>1, <1>4, <2>2 DEF ReadState
    <3>2. account' = account
      BY <2>2 DEF CountFrame
    <3>3. copy[t].frame + Capacity <= NewestTouched
      BY <1>2, <2>2 DEF RetentionInv
    <3>4. call[t].from + Capacity <= NewestTouched
      BY <1>1, <1>2, <3>3 DEF CopyingFrom, ReadState
    <3>5. account[slot].newest < call[t].cursor + call[t].offset
      BY <1>2 DEF CopyingFrom
    <3>6. QED
      BY <1>1, <3>1, <3>2, <3>4, <3>5 DEF ReadState, Account, NoFrame
  <2>3. QED
    BY <2>1, <2>2
<1>10. CopyingFrom(t)'
  <2>1. /\ call'[t].from + call'[t].audioFrames + call'[t].droppedFrames
             = call'[t].cursor + call'[t].offset
        /\ call'[t].offset <= call'[t].readable
        /\ account'[slot].newest < call'[t].cursor + call'[t].offset
    <3>1. /\ call'[t].audioFrames \in Nat /\ call'[t].droppedFrames \in Nat
          /\ call[t].audioFrames \in Nat /\ call[t].droppedFrames \in Nat
          /\ call[t].from \in Nat /\ call[t].cursor \in Nat
          /\ call[t].offset \in Nat /\ call[t].readable \in Nat
      BY <1>1 DEF ReadState, RingTypeInv, RingTypeOK
    <3>2. call[t].from + call[t].audioFrames + call[t].droppedFrames
            = call[t].cursor + call[t].offset
      BY <1>2 DEF CopyingFrom
    <3>3. call[t].cursor + (call[t].offset + 1) = call[t].cursor + call[t].offset + 1
      BY <3>1
    <3>4. call'[t].offset <= call'[t].readable
      BY <1>2, <1>5, <3>1
    <3>5. call[t].from + call'[t].audioFrames + call'[t].droppedFrames
            = call[t].cursor + call[t].offset + 1
      BY <1>9, <3>1, <3>2
    <3>6. QED
      BY <1>5, <1>9, <3>3, <3>4, <3>5
  <2>2. QED
    BY <1>1, <1>2, <1>3, <1>5, <1>9, <2>1 DEF CopyingFrom
<1>11. ReadSound(t)'
  BY <1>2, <1>5, <1>10 DEF ReadSound
<1>12. QED
  BY <1>1, <1>7, <1>8, <1>11, ContinueReadKeeps

LEMMA ListeningStore ==
  ASSUME RingTypeInv, RingTypeInv', OwnershipInv, ListeningInv,
         NEW t \in Copier, StoreCursor(t),
         NEW slot \in ReaderSlot, slot = call[t].token.slot
  PROVE  ListeningInv'
<1>1. /\ call \in [Copier -> ReadState] /\ call[t] \in ReadState
      /\ account \in [ReaderSlot -> Account] /\ account[slot] \in Account
      /\ readers \in [ReaderSlot -> ReaderState]
      /\ publishedFrameCount \in Nat
      /\ ContinueRead(t) /\ ReadSound(t) /\ UNCHANGED <<copy, held>>
      /\ call[t].pc = "copying" /\ call[t].offset = call[t].readable
  BY ListeningTypes DEF ContinueRead, StoreCursor, storeVars, ListeningInv, ReadInv
<1>2. /\ copy[t].pc = "idle" /\ CopyingFrom(t)
  BY <1>1 DEF ReadSound, ReadState
<1>3. /\ call'[t].pc = "idle" /\ call'[t].offset = 0 /\ call'[t].audioFrames = 0
      /\ call'[t].droppedFrames = 0
  BY <1>1 DEF StoreCursor, IdleRead
<1>4. ReadSound(t)'
  BY <1>1, <1>2, <1>3 DEF ReadSound
<1>5. /\ readers'[slot].cursor = call[t].cursor + call[t].readable
      /\ account'[slot].start = account[slot].start
      /\ account'[slot].newest = account[slot].newest
      /\ account'[slot].audio = account[slot].audio + call[t].audioFrames
      /\ account'[slot].dropped = account[slot].dropped + call[t].droppedFrames
  <2>1. readers'[slot].cursor = call[t].cursor + call[t].readable
    BY <1>1 DEF StoreCursor, ReaderState
  <2>2. account'[slot] = [account[slot] EXCEPT !.audio = @ + call[t].audioFrames,
                                              !.dropped = @ + call[t].droppedFrames]
    BY <1>1 DEF StoreCursor
  <2>3. QED
    BY <1>1, <2>1, <2>2 DEF Account
<1>6. readers[slot].cursor =
        account[slot].start + account[slot].audio + account[slot].dropped
  BY <1>1, ReadsFollowTheirOwnSlot DEF ListeningInv, AccountInv, AccountSound
<1>7. AccountSound(slot)'
  BY <1>1, <1>2, <1>5, <1>6, SMTT(30) DEF AccountSound, CopyingFrom, ReadState, Account
<1>8. readers'[slot].cursor <= publishedFrameCount
  BY <1>2, <1>5 DEF CopyingFrom
<1>9. QED
  BY <1>1, <1>4, <1>7, <1>8, ContinueReadKeeps

LEMMA ListeningStep ==
  ASSUME Serialized, DrainBeforeUnregister, RingTypeInv, RingTypeInv', RetentionInv,
         OwnershipInv, TurnInv, ListeningInv, [RingNext]_ringVars
  PROVE  ListeningInv'
<1>1. CASE RingWrite
  BY <1>1, ListeningWrite
<1>2. ASSUME NEW p \in Controller, StartControl(p) \/ RingControl(p)
      PROVE  ListeningInv'
  BY <1>2, Serialized, DrainBeforeUnregister, ListeningStartControl,
     ListeningContinueControl
<1>3. ASSUME NEW t \in Copier, NEW token \in held \cup retired, NEW k \in ReadSize,
             BeginRead(t, token, k)
      PROVE  ListeningInv'
  BY <1>3, DrainBeforeUnregister, ListeningBeginRead
<1>4. ASSUME NEW t \in Copier, ContinueRead(t)
      PROVE  ListeningInv'
  <2>1. call[t].token.slot \in ReaderSlot
    BY ListeningTypes
  <2>2. QED
    BY <1>4, <2>1, ListeningLoad, ListeningCopy, ListeningCount, ListeningStore
       DEF ContinueRead
<1>5. CASE UNCHANGED ringVars
  BY <1>5
     DEF ringVars, storeVars, cursorVars, ListeningInv, ReadsAreOwned, CursorOnTimeline,
         Owned, ReadInv, ReadSound, CopyingFrom, NewestTouched, AccountInv, AccountSound
<1>6. QED
  BY [RingNext]_ringVars, <1>1, <1>2, <1>3, <1>4, <1>5 DEF RingNext

LEMMA ListeningInit == RingInit => ListeningInv
  BY DEF RingInit, StoreInit, CursorsInit, IdleControl, IdleRead, IdleCopy, ListeningInv,
         ReadsAreOwned, CursorOnTimeline, Owned, ReadInv, ReadSound, AccountInv

LEMMA ListeningHolds ==
  ASSUME Serialized, DrainBeforeUnregister, MaxRegistrations < GenerationModulus
  PROVE  RingSpec => []ListeningInv
<1>1. RingTypeInv /\ RingTypeInv' /\ RetentionInv /\ OwnershipInv /\ TurnInv
        /\ ListeningInv /\ [RingNext]_ringVars => ListeningInv'
  BY Serialized, DrainBeforeUnregister, ListeningStep
<1>2. RingSpec => []OwnershipInv /\ []TurnInv
  BY Serialized, MaxRegistrations < GenerationModulus, OwnershipHolds, TurnHolds
<1>3. RingSpec => []RetentionInv
  BY RingUsesStore, RetentionHolds, PTL
<1>4. QED
  BY <1>1, <1>2, <1>3, ListeningInit, RingTypeInvHolds, PTL DEF RingSpec

(***************************************************************************)
(* What readers are promised, where control operations exclude each other, *)
(* the caller keeps the reads of a token and its unregistration apart, and *)
(* no slot's generations come round.                                       *)
(*                                                                         *)
(* A reader's cursor stands where its own reads have taken it.             *)
(***************************************************************************)
THEOREM IndependentCursorHolds ==
  ASSUME Serialized, DrainBeforeUnregister, MaxRegistrations < GenerationModulus
  PROVE  RingSpec => []IndependentCursor
<1>1. ListeningInv => IndependentCursor
  BY DEF ListeningInv, AccountInv, AccountSound, IndependentCursor
<1>2. RingSpec => []ListeningInv
  BY Serialized, DrainBeforeUnregister, MaxRegistrations < GenerationModulus,
     ListeningHolds
<1>3. QED
  BY <1>1, <1>2, PTL

(***************************************************************************)
(* A reader hears frames in order, none twice, and none published before   *)
(* it registered.                                                          *)
(***************************************************************************)
THEOREM HeardInOrderHolds ==
  ASSUME Serialized, DrainBeforeUnregister, MaxRegistrations < GenerationModulus
  PROVE  RingSpec => []HeardInOrder
<1>1. RingTypeInv /\ OwnershipInv /\ ListeningInv => HeardInOrder
  <2> SUFFICES ASSUME RingTypeInv, OwnershipInv, ListeningInv,
                      NEW t \in Copier, copy[t].pc # "idle",
                      NEW slot \in ReaderSlot, slot = call[t].token.slot
               PROVE  /\ account[slot].newest < copy[t].frame
                      /\ account[slot].start <= copy[t].frame
    BY ListeningTypes DEF HeardInOrder
  <2>1. /\ call[t].pc = "copying" /\ CopyingFrom(t)
        /\ copy[t].frame = call[t].cursor + call[t].offset
    BY DEF ListeningInv, ReadInv, ReadSound
  <2>2. readers[slot].cursor =
          account[slot].start + account[slot].audio + account[slot].dropped
    BY <2>1, ReadsFollowTheirOwnSlot DEF ListeningInv, AccountInv, AccountSound
  <2>3. call[t] \in ReadState /\ account[slot] \in Account
    BY ListeningTypes
  <2>4. QED
    BY <2>1, <2>2, <2>3 DEF CopyingFrom, ReadState, Account
<1>2. RingSpec => []ListeningInv /\ []OwnershipInv
  BY Serialized, DrainBeforeUnregister, MaxRegistrations < GenerationModulus,
     ListeningHolds, OwnershipHolds
<1>3. QED
  BY <1>1, <1>2, RingTypeInvHolds, PTL

(***************************************************************************)
(* Frames are reported dropped only to a reader that was lapped.           *)
(***************************************************************************)
THEOREM DropsOnlyWhenLappedHolds ==
  ASSUME Serialized, DrainBeforeUnregister, MaxRegistrations < GenerationModulus
  PROVE  RingSpec => []DropsOnlyWhenLapped
<1>1. ListeningInv => DropsOnlyWhenLapped
  BY DEF ListeningInv, ReadInv, ReadSound, CopyingFrom, DropsOnlyWhenLapped
<1>2. RingSpec => []ListeningInv
  BY Serialized, DrainBeforeUnregister, MaxRegistrations < GenerationModulus,
     ListeningHolds
<1>3. QED
  BY <1>1, <1>2, PTL

-----------------------------------------------------------------------------
(***************************************************************************)
(* Refinement: each slot is a listener of AudioTimeline.                   *)
(***************************************************************************)
Listening(position, audio, dropped) ==
  [phase |-> "listening", position |-> position, audio |-> audio, dropped |-> dropped]

Phases == [phase : {"away", "joining", "listening"}, position : Nat, audio : Nat, dropped : Nat]

\* Records are equal when their fields are.
LEMMA SameListener ==
  ASSUME NEW a \in Phases, NEW b \in Phases, a.phase = b.phase,
         a.position = b.position, a.audio = b.audio, a.dropped = b.dropped
  PROVE  a = b
  BY DEF Phases

LEMMA Approached ==
  ASSUME NEW n \in Nat
  PROVE  [Timeline!Away EXCEPT !.phase = "joining", !.position = n]
           = [phase |-> "joining", position |-> n, audio |-> 0, dropped |-> 0]
<1> DEFINE a == [Timeline!Away EXCEPT !.phase = "joining", !.position = n]
           b == [phase |-> "joining", position |-> n, audio |-> 0, dropped |-> 0]
<1>1. Timeline!Away \in Phases
  BY DEF Timeline!Away, Phases
<1>2. a \in Phases
  BY <1>1 DEF Phases
<1>3. b \in Phases
  BY DEF Phases
<1>4. a.phase = b.phase /\ a.position = b.position
  BY <1>1 DEF Phases
<1>5. a.audio = b.audio /\ a.dropped = b.dropped
  BY <1>1 DEF Phases, Timeline!Away
<1> HIDE DEF a, b
<1>6. a = b
  BY <1>2, <1>3, <1>4, <1>5, SameListener
<1>7. QED
  BY <1>6 DEF a, b

\* What the mapping makes of a slot, before and after a step.
LEMMA OwnedIsListening ==
  ASSUME NEW s \in ReaderSlot
  PROVE  /\ Owned(s) /\ ~Joining(s) =>
              ListenerOf(s) = Listening(readers[s].cursor, account[s].audio,
                                        account[s].dropped)
         /\ (Owned(s) /\ ~Joining(s))' =>
              ListenerOf(s)' = Listening(readers'[s].cursor, account'[s].audio,
                                         account'[s].dropped)
  BY DEF ListenerOf, Listening

LEMMA JoiningIsJoining ==
  ASSUME NEW s \in ReaderSlot, NEW p \in Controller
  PROVE  /\ /\ OneControlAtATime /\ ~Owned(s)
            /\ control[p].pc = "positioned" /\ control[p].slot = s
            => ListenerOf(s) = [phase |-> "joining", position |-> control[p].position,
                                audio |-> 0, dropped |-> 0]
         /\ /\ OneControlAtATime' /\ ~Owned(s)'
            /\ control'[p].pc = "positioned" /\ control'[p].slot = s
            => ListenerOf(s)' = [phase |-> "joining", position |-> control'[p].position,
                                 audio |-> 0, dropped |-> 0]
<1>1. ASSUME OneControlAtATime, ~Owned(s), control[p].pc = "positioned",
             control[p].slot = s
      PROVE  Joining(s) /\ JoinedBy(s) = p
  BY <1>1 DEF Joining, JoinedBy, OneControlAtATime
<1>2. ASSUME OneControlAtATime', ~Owned(s)', control'[p].pc = "positioned",
             control'[p].slot = s
      PROVE  Joining(s)' /\ JoinedBy(s)' = p
  BY <1>2 DEF Joining, JoinedBy, OneControlAtATime
<1>3. QED
  BY <1>1, <1>2 DEF ListenerOf

LEMMA OthersAreAway ==
  ASSUME NEW s \in ReaderSlot
  PROVE  /\ ~Owned(s) /\ ~Joining(s) => ListenerOf(s) = Timeline!Away
         /\ (~Owned(s) /\ ~Joining(s))' => ListenerOf(s)' = Timeline!Away
  BY DEF ListenerOf, Timeline!Away

LEMMA OneListenerMoves ==
  ASSUME NEW slot \in ReaderSlot, NEW listener, ListenerOf(slot)' = listener,
         \A s \in ReaderSlot : s # slot => ListenerOf(s)' = ListenerOf(s),
         publishedFrameCount' = publishedFrameCount
  PROVE  Timeline!Moves(slot, listener)
  BY DEF Timeline!Moves

LEMMA NoListenerMoves ==
  ASSUME \A s \in ReaderSlot : ListenerOf(s)' = ListenerOf(s)
  PROVE  UNCHANGED [s \in ReaderSlot |-> ListenerOf(s)]
  OBVIOUS

\* A slot whose owner, cursor and account stay, and that no controller
\* enters or leaves, keeps its listener.
LEMMA ListenerStays ==
  ASSUME OneControlAtATime, OneControlAtATime', NEW s \in ReaderSlot,
         Owned(s)' = Owned(s),
         \A p \in Controller :
           \/ control'[p] = control[p]
           \/ /\ ~(control[p].pc = "positioned" /\ control[p].slot = s)
              /\ ~(control'[p].pc = "positioned" /\ control'[p].slot = s),
         Owned(s) => /\ readers'[s].cursor = readers[s].cursor
                     /\ account'[s].audio = account[s].audio
                     /\ account'[s].dropped = account[s].dropped
                     /\ ~Joining(s)
  PROVE  ListenerOf(s)' = ListenerOf(s)
<1>1. Joining(s)' <=> Joining(s)
  BY DEF Joining
<1>2. CASE Owned(s)
  BY <1>1, <1>2, OwnedIsListening
<1>3. CASE ~Owned(s) /\ ~Joining(s)
  BY <1>1, <1>3, OthersAreAway
<1>4. CASE ~Owned(s) /\ Joining(s)
  <2>1. PICK p \in Controller : control[p].pc = "positioned" /\ control[p].slot = s
    BY <1>4 DEF Joining
  <2>2. QED
    BY <1>4, <2>1, JoiningIsJoining
<1>5. QED
  BY <1>2, <1>3, <1>4

LEMMA PositionedIsUnowned ==
  ASSUME OwnershipInv, NEW s \in ReaderSlot, Owned(s)
  PROVE  ~Joining(s)
  BY DEF OwnershipInv, WorksOnUnownedSlot, Joining

\* Steps that register, unregister or store nothing a listener is made of.
LEMMA QuietStep ==
  ASSUME OwnershipInv, OwnershipInv',
         UNCHANGED <<held, control, publishedFrameCount>>,
         \A s \in ReaderSlot :
           /\ readers'[s].cursor = readers[s].cursor
           /\ account'[s].audio = account[s].audio
           /\ account'[s].dropped = account[s].dropped
  PROVE  UNCHANGED Timeline!timelineVars
<1>1. ASSUME NEW s \in ReaderSlot
      PROVE  ListenerOf(s)' = ListenerOf(s)
  BY ListenerStays, PositionedIsUnowned DEF OwnershipInv, Owned
<1>2. QED
  BY <1>1, NoListenerMoves DEF Timeline!timelineVars

LEMMA WriteExtends ==
  ASSUME RingTypeInv, RingTypeInv', RetentionInv, OwnershipInv, OwnershipInv', RingWrite
  PROVE  Timeline!TimelineNext \/ UNCHANGED Timeline!timelineVars
<1>1. /\ publishedFrameCount <= publishedFrameCount'
      /\ publishedFrameCount \in Nat /\ publishedFrameCount' \in Nat
      /\ UNCHANGED <<readers, control, held, account>>
  BY WriterStep DEF RetentionInv, RingTypeInv, RingTypeOK, StoreTypeOK, RingWrite, cursorVars
<1>2. ASSUME NEW s \in ReaderSlot
      PROVE  ListenerOf(s)' = ListenerOf(s)
  BY <1>1, ListenerStays, PositionedIsUnowned DEF OwnershipInv, Owned
<1>3. UNCHANGED [s \in ReaderSlot |-> ListenerOf(s)]
  BY <1>2, NoListenerMoves
<1>4. CASE publishedFrameCount' = publishedFrameCount
  BY <1>3, <1>4 DEF Timeline!timelineVars
<1>5. CASE publishedFrameCount' > publishedFrameCount
  BY <1>3, <1>5 DEF Timeline!TimelineNext, Timeline!Extend
<1>6. QED
  BY <1>1, <1>4, <1>5

LEMMA StartControlRefines ==
  ASSUME Serialized, RingTypeInv, OwnershipInv, OwnershipInv',
         NEW p \in Controller, StartControl(p)
  PROVE  Timeline!TimelineNext \/ UNCHANGED Timeline!timelineVars
<1>1. /\ UNCHANGED <<publishedFrameCount, readers, account>>
      /\ \A token \in held \cup retired :
           token \in RealtimeAudioReaderToken /\ token.slot \in ReaderSlot
  BY StartControl(p), TokenType
     DEF StartControl, BeginRegister, BeginUnregister, storeVars, RingTypeInv, RingTypeOK,
         CursorsTypeOK
<1>2. \A q \in Controller : control[q].pc # "positioned" /\ control'[q].pc # "positioned"
  <2>1. /\ control \in [Controller -> ControlState]
        /\ \A q \in Controller : control[q].pc = "idle"
    BY Serialized, StartControl(p)
       DEF StartControl, BeginRegister, BeginUnregister, MayControl, RingTypeInv,
           RingTypeOK, CursorsTypeOK
  <2>2. CASE BeginRegister(p)
    BY <2>1, <2>2 DEF BeginRegister, IdleControl
  <2>3. ASSUME NEW token \in held \cup retired, BeginUnregister(p, token)
        PROVE  \A q \in Controller : control'[q].pc # "positioned"
    BY <2>1, <2>3 DEF BeginUnregister, IdleControl
  <2>4. QED
    BY <2>1, <2>2, <2>3, StartControl(p) DEF StartControl
<1>3. ASSUME NEW s \in ReaderSlot, Owned(s)' = Owned(s)
      PROVE  ListenerOf(s)' = ListenerOf(s)
  BY <1>1, <1>2, <1>3, ListenerStays, PositionedIsUnowned DEF OwnershipInv
<1>4. CASE BeginRegister(p)
  <2>1. \A s \in ReaderSlot : Owned(s)' = Owned(s)
    BY <1>4 DEF BeginRegister, Owned
  <2>2. QED
    BY <1>1, <1>3, <2>1, NoListenerMoves DEF Timeline!timelineVars
<1>5. ASSUME NEW token \in held \cup retired, BeginUnregister(p, token)
      PROVE  Timeline!TimelineNext \/ UNCHANGED Timeline!timelineVars
  <2> DEFINE slot == token.slot
  <2>1. /\ tokenIsValid(token) /\ held' = held \ {token} /\ slot \in ReaderSlot
    BY <1>1, <1>5 DEF BeginUnregister
  <2>2. \A other \in held : other.slot = slot => other = token
    BY <1>1, <2>1, ValidTokensAreEqual DEF OwnershipInv, HeldTokensStayValid
  <2>3. \A s \in ReaderSlot : s # slot => Owned(s)' = Owned(s)
    BY <2>1 DEF Owned
  <2>4. ~Owned(slot)' /\ ~Joining(slot)' /\ ~Joining(slot)
    BY <1>2, <2>1, <2>2 DEF Owned, Joining
  <2>5. CASE Owned(slot)
    <3>1. ListenerOf(slot)' = Timeline!Away
      BY <2>1, <2>4, OthersAreAway
    <3>2. Timeline!Moves(slot, Timeline!Away)
      BY <1>1, <1>3, <2>1, <2>3, <3>1, OneListenerMoves
    <3>3. ListenerOf(slot).phase = "listening"
      BY <2>1, <2>4, <2>5, OwnedIsListening DEF Listening
    <3>4. Timeline!Leave(slot)
      BY <2>1, <3>2, <3>3 DEF Timeline!Leave
    <3>5. QED
      BY <2>1, <3>4 DEF Timeline!TimelineNext
  <2>6. CASE ~Owned(slot)
    <3>1. token \notin held
      BY <2>6 DEF Owned
    <3>2. held' = held
      BY <2>1, <3>1
    <3>3. \A s \in ReaderSlot : Owned(s)' = Owned(s)
      BY <3>2 DEF Owned
    <3>4. QED
      BY <1>1, <1>3, <3>3, NoListenerMoves DEF Timeline!timelineVars
  <2>7. QED
    BY <2>5, <2>6
<1>6. QED
  BY <1>4, <1>5, StartControl(p) DEF StartControl

\* Scanning, claiming, deactivating and retiring move no listener.
LEMMA SlotWorkRefines ==
  ASSUME OwnershipInv, OwnershipInv', RingTypeInv, NEW p \in Controller, RingControl(p),
         control[p].pc # "claimed", control[p].pc # "positioned"
  PROVE  UNCHANGED Timeline!timelineVars
<1>1. /\ control \in [Controller -> ControlState]
      /\ readers \in [ReaderSlot -> ReaderState]
      /\ account \in [ReaderSlot -> Account]
      /\ publishedFrameCount' = publishedFrameCount
  BY DEF RingTypeInv, RingTypeOK, CursorsTypeOK, RingControl, storeVars
<1>2. /\ held' = held
      /\ control'[p].pc # "positioned"
      /\ \A q \in Controller : q # p => control'[q] = control[q]
      /\ \A s \in ReaderSlot : readers'[s].cursor = readers[s].cursor
  <2>1. CASE SkipSlot(p) \/ RegisterFails(p)
    BY <1>1, <2>1 DEF SkipSlot, RegisterFails, IdleControl, ControlState
  <2>2. CASE ClaimSlot(p)
    BY <1>1, <2>2 DEF ClaimSlot, ControlState, ReaderState
  <2>3. CASE Deactivate(p)
    BY <1>1, <2>3 DEF Deactivate, ControlState, ReaderState
  <2>4. CASE Retire(p)
    BY <1>1, <2>4 DEF Retire, IdleControl, ControlState, ReaderState
  <2>5. QED
    BY <2>1, <2>2, <2>3, <2>4
       DEF RingControl, ContinueControl, LoadPosition, ReturnToken
<1>3. \A s \in ReaderSlot : account'[s] = account[s]
  BY <1>1 DEF RingControl
<1>4. ASSUME NEW s \in ReaderSlot
      PROVE  ListenerOf(s)' = ListenerOf(s)
  <2>1. Owned(s)' = Owned(s)
    BY <1>2 DEF Owned
  <2>2. QED
    BY <1>2, <1>3, <2>1, ListenerStays, PositionedIsUnowned DEF OwnershipInv
<1>5. QED
  BY <1>1, <1>4, NoListenerMoves DEF Timeline!timelineVars

\* Loading the position is the moment a listener approaches the timeline.
LEMMA LoadPositionRefines ==
  ASSUME OwnershipInv, OwnershipInv', RingTypeInv, RingTypeInv',
         NEW p \in Controller, RingControl(p), control[p].pc = "claimed",
         NEW slot \in ReaderSlot, slot = control[p].slot
  PROVE  Timeline!TimelineNext
<1>1. /\ control \in [Controller -> ControlState]
      /\ account \in [ReaderSlot -> Account]
      /\ UNCHANGED <<publishedFrameCount, readers, held>>
      /\ LoadPosition(p, publishedFrameCount)
  BY DEF RingTypeInv, RingTypeOK, CursorsTypeOK, RingControl, storeVars, ContinueControl,
         SkipSlot, RegisterFails, ClaimSlot, LoadPosition, ReturnToken, Deactivate, Retire
<1>2. /\ control'[p].pc = "positioned" /\ control'[p].slot = slot
      /\ control'[p].position = publishedFrameCount
      /\ \A q \in Controller : q # p => control'[q] = control[q]
  BY <1>1 DEF LoadPosition, ControlState
<1>3. /\ \A s \in ReaderSlot : Owned(s)' = Owned(s)
      /\ ~Owned(slot)
  BY <1>1 DEF Owned, OwnershipInv, WorksOnUnownedSlot
<1>4. ~Joining(slot)
  BY <1>1 DEF Joining, OwnershipInv, OneControlAtATime
<1>5. \A s \in ReaderSlot : account'[s] = account[s]
  BY <1>1 DEF RingControl
<1>6. ASSUME NEW s \in ReaderSlot, s # slot
      PROVE  ListenerOf(s)' = ListenerOf(s)
  BY <1>1, <1>2, <1>3, <1>5, <1>6, ListenerStays, PositionedIsUnowned DEF OwnershipInv
<1>7. ListenerOf(slot) = Timeline!Away
  BY <1>3, <1>4, OthersAreAway
<1>8. ListenerOf(slot)' = [phase |-> "joining", position |-> publishedFrameCount,
                           audio |-> 0, dropped |-> 0]
  BY <1>2, <1>3, JoiningIsJoining DEF OwnershipInv
<1>9. ListenerOf(slot)' =
        [Timeline!Away EXCEPT !.phase = "joining", !.position = publishedFrameCount]
  <2>1. [Timeline!Away EXCEPT !.phase = "joining", !.position = publishedFrameCount]
          = [phase |-> "joining", position |-> publishedFrameCount,
             audio |-> 0, dropped |-> 0]
    BY Approached DEF RingTypeInv, RingTypeOK, StoreTypeOK
  <2>2. QED
    BY <1>8, <2>1
<1>10. Timeline!Moves(slot, [Timeline!Away EXCEPT !.phase = "joining",
                                                 !.position = publishedFrameCount])
  BY <1>1, <1>6, <1>9, OneListenerMoves
<1>11. Timeline!Approach(slot)
  BY <1>7, <1>10 DEF Timeline!Approach, Timeline!Away
<1>12. QED
  BY <1>11 DEF Timeline!TimelineNext

\* Returning the token makes the slot's listener listen from there.
LEMMA ReturnTokenRefines ==
  ASSUME OwnershipInv, OwnershipInv', RingTypeInv, RingTypeInv',
         NEW p \in Controller, RingControl(p), control[p].pc = "positioned",
         NEW slot \in ReaderSlot, slot = control[p].slot
  PROVE  Timeline!TimelineNext
<1>1. /\ control \in [Controller -> ControlState]
      /\ readers \in [ReaderSlot -> ReaderState]
      /\ publishedFrameCount' = publishedFrameCount
      /\ ReturnToken(p)
  BY DEF RingTypeInv, RingTypeOK, CursorsTypeOK, RingControl, storeVars, ContinueControl,
         SkipSlot, RegisterFails, ClaimSlot, LoadPosition, ReturnToken, Deactivate, Retire
<1>2. /\ control'[p].pc = "idle"
      /\ \A q \in Controller : q # p => control'[q] = control[q]
      /\ \A q \in Controller : q # p => control[q].pc = "idle"
      /\ held' = held \cup {TokenOf(p)} /\ TokenOf(p).slot = slot
  BY <1>1 DEF ReturnToken, IdleControl, TokenOf, OwnershipInv, OneControlAtATime
<1>3. /\ readers'[slot].cursor = control[p].position
      /\ \A s \in ReaderSlot : s # slot => readers'[s].cursor = readers[s].cursor
  BY <1>1 DEF ReturnToken, ReaderState
<1>4. /\ account'[slot].audio = 0 /\ account'[slot].dropped = 0
      /\ \A s \in ReaderSlot : s # slot => account'[s] = account[s]
  BY DEF RingControl, NewAccount
<1>5. ASSUME NEW s \in ReaderSlot, s # slot
      PROVE  ListenerOf(s)' = ListenerOf(s)
  <2>1. Owned(s)' = Owned(s)
    BY <1>2, <1>5 DEF Owned
  <2>2. QED
    BY <1>2, <1>3, <1>4, <1>5, <2>1, ListenerStays, PositionedIsUnowned DEF OwnershipInv
<1>6. /\ Owned(slot)' /\ ~Joining(slot)' /\ ~Owned(slot)
  BY <1>2 DEF Owned, Joining, OwnershipInv, WorksOnUnownedSlot
<1>7. ListenerOf(slot) = [phase |-> "joining", position |-> control[p].position,
                          audio |-> 0, dropped |-> 0]
  BY <1>6, JoiningIsJoining DEF OwnershipInv
<1>8. ListenerOf(slot)' = [phase |-> "listening", position |-> control[p].position,
                           audio |-> 0, dropped |-> 0]
  BY <1>3, <1>4, <1>6, OwnedIsListening DEF Listening
<1>9. ListenerOf(slot)' = [ListenerOf(slot) EXCEPT !.phase = "listening"]
  BY <1>7, <1>8
<1>10. Timeline!Moves(slot, [ListenerOf(slot) EXCEPT !.phase = "listening"])
  BY <1>1, <1>5, <1>9, OneListenerMoves
<1>11. Timeline!Join(slot)
  BY <1>7, <1>10 DEF Timeline!Join
<1>12. QED
  BY <1>11 DEF Timeline!TimelineNext

\* A read changes what its listener was told when it stores the cursor.
LEMMA ReadRefinesQuietly ==
  ASSUME OwnershipInv, OwnershipInv', RingTypeInv, NEW t \in Copier,
         \/ \E token \in held \cup retired, k \in ReadSize : BeginRead(t, token, k)
         \/ LoadPublished(t) \/ LoadCursor(t) \/ CopyNextFrame(t) \/ CopyOn(t)
         \/ CountFrame(t)
  PROVE  UNCHANGED Timeline!timelineVars
<1>1. account \in [ReaderSlot -> Account]
  BY DEF RingTypeInv, RingTypeOK
<1>2. CASE CountFrame(t)
  <2>1. /\ UNCHANGED <<readers, held, control, publishedFrameCount>>
        /\ \A s \in ReaderSlot : /\ account'[s].audio = account[s].audio
                                 /\ account'[s].dropped = account[s].dropped
    BY <1>1, <1>2 DEF CountFrame, cursorVars, Return, Account
  <2>2. QED
    BY <2>1, QuietStep
<1>3. CASE CopyNextFrame(t) \/ CopyOn(t)
  <2>1. UNCHANGED <<readers, held, control, publishedFrameCount, account>>
    BY <1>3
       DEF CopyNextFrame, CopyOn, cursorVars, CheckStamp, LoadSample, RecheckStamp,
           Copied
  <2>2. QED
    BY <2>1, QuietStep
<1>4. ASSUME UNCHANGED <<storeVars, cursorVars, account>>
      PROVE  UNCHANGED Timeline!timelineVars
  BY <1>4, QuietStep DEF storeVars, cursorVars
<1>5. QED
  BY <1>2, <1>3, <1>4 DEF BeginRead, LoadPublished, LoadCursor

\* Storing the cursor is the moment its listener moves along the timeline.
LEMMA StoreCursorRefines ==
  ASSUME OwnershipInv, OwnershipInv', RingTypeInv, RingTypeInv', ListeningInv,
         NEW t \in Copier, StoreCursor(t),
         NEW slot \in ReaderSlot, slot = call[t].token.slot
  PROVE  Timeline!TimelineNext
<1> DEFINE position == call[t].cursor + call[t].readable
           before == readers[slot].cursor
           heard == call[t].audioFrames
<1>1. /\ call[t] \in ReadState /\ account[slot] \in Account /\ readers[slot].cursor \in Nat
      /\ account \in [ReaderSlot -> Account]
      /\ readers \in [ReaderSlot -> ReaderState]
      /\ publishedFrameCount \in Nat
      /\ UNCHANGED <<control, held, publishedFrameCount>>
  BY ListeningTypes DEF StoreCursor, storeVars, ReaderState
<1>2. /\ Owned(slot) /\ ~Joining(slot) /\ Owned(slot)' /\ ~Joining(slot)'
  <2>1. Owned(slot) /\ Owned(slot)'
    BY <1>1 DEF StoreCursor, ListeningInv, ReadsAreOwned, Owned
  <2>2. ~Joining(slot)
    BY <2>1, PositionedIsUnowned
  <2>3. QED
    BY <1>1, <2>1, <2>2 DEF Joining
<1>3. /\ readers'[slot].cursor = position
      /\ account'[slot].audio = account[slot].audio + heard
      /\ account'[slot].dropped = account[slot].dropped + call[t].droppedFrames
  <2>1. readers'[slot].cursor = position
    BY <1>1 DEF StoreCursor, ReaderState
  <2>2. account'[slot] = [account[slot] EXCEPT !.audio = @ + call[t].audioFrames,
                                              !.dropped = @ + call[t].droppedFrames]
    BY <1>1 DEF StoreCursor
  <2>3. QED
    BY <1>1, <2>1, <2>2 DEF Account
<1>4. \A s \in ReaderSlot : s # slot => /\ readers'[s].cursor = readers[s].cursor
                                        /\ account'[s] = account[s]
  BY <1>1 DEF StoreCursor
<1>5. ASSUME NEW s \in ReaderSlot, s # slot
      PROVE  ListenerOf(s)' = ListenerOf(s)
  <2>1. Owned(s)' = Owned(s)
    BY <1>1 DEF Owned
  <2>2. QED
    BY <1>1, <1>4, <1>5, <2>1, ListenerStays, PositionedIsUnowned DEF OwnershipInv
<1>6. /\ CopyingFrom(t) /\ call[t].offset = call[t].readable
  BY <1>1 DEF StoreCursor, ListeningInv, ReadInv, ReadSound
<1>7. /\ position \in before .. publishedFrameCount
      /\ heard \in 0 .. position - before
      /\ call[t].droppedFrames = (position - before) - heard
  BY <1>1, <1>6 DEF CopyingFrom, ReadState
<1>8. ListenerOf(slot) = Listening(before, account[slot].audio, account[slot].dropped)
  BY <1>2, OwnedIsListening
<1>9. ListenerOf(slot)' =
        Listening(position, account[slot].audio + heard,
                  account[slot].dropped + (position - before) - heard)
  <2>1. account[slot].dropped + call[t].droppedFrames
          = account[slot].dropped + (position - before) - heard
    BY <1>1, <1>7 DEF ReadState, Account
  <2>2. ListenerOf(slot)' =
          Listening(readers'[slot].cursor, account'[slot].audio, account'[slot].dropped)
    BY <1>2, OwnedIsListening
  <2>3. QED
    BY <1>3, <2>1, <2>2
<1> DEFINE listener == ListenerOf(slot)
           audio == account[slot].audio + heard
           dropped == account[slot].dropped + (position - before) - heard
<1>10. ListenerOf(slot)' =
         [listener EXCEPT
            !.position = position,
            !.audio = @ + heard,
            !.dropped = @ + (position - listener.position) - heard]
  <2> DEFINE moved == [listener EXCEPT
                         !.position = position,
                         !.audio = @ + heard,
                         !.dropped = @ + (position - listener.position) - heard]
             there == Listening(position, audio, dropped)
  <2>1. /\ position \in Nat /\ before \in Nat /\ heard \in Nat
        /\ account[slot].audio \in Nat /\ account[slot].dropped \in Nat
        /\ audio \in Nat /\ dropped \in Nat
    BY <1>1, <1>7 DEF Account, ReadState
  <2> HIDE DEF position, before, heard
  <2>2. /\ listener \in Phases
        /\ listener.phase = "listening" /\ listener.position = before
        /\ listener.audio = account[slot].audio
        /\ listener.dropped = account[slot].dropped
    BY <1>8, <2>1 DEF Listening, Phases
  <2> HIDE DEF listener
  <2>3. /\ listener.audio + heard = audio
        /\ listener.dropped + (position - listener.position) - heard = dropped
    BY <2>2
  <2>4. /\ there \in Phases
        /\ there.phase = "listening" /\ there.position = position
        /\ there.audio = audio /\ there.dropped = dropped
    <3> HIDE DEF audio, dropped
    <3>1. QED
      BY <2>1 DEF Listening, Phases
  <2>5. moved = [listener EXCEPT !.position = position, !.audio = audio,
                                 !.dropped = dropped]
    BY <2>3
  <2> HIDE DEF audio, dropped
  <2>6. moved \in Phases
    BY <2>1, <2>2, <2>5 DEF Phases
  <2>7. /\ moved.phase = "listening" /\ moved.position = position
        /\ moved.audio = audio /\ moved.dropped = dropped
    BY <2>1, <2>2, <2>5 DEF Phases
  <2> HIDE DEF moved, there
  <2>8. moved = there
    BY <2>4, <2>6, <2>7, SameListener
  <2>9. QED
    BY <1>9, <2>8 DEF moved, there, audio, dropped, listener
<1> HIDE DEF position, before, heard
<1>11. Timeline!Moves(slot, [listener EXCEPT
            !.position = position,
            !.audio = @ + heard,
            !.dropped = @ + (position - listener.position) - heard])
  BY <1>1, <1>5, <1>10, OneListenerMoves
<1>12. /\ ListenerOf(slot).phase = "listening"
       /\ position \in ListenerOf(slot).position .. publishedFrameCount
       /\ heard \in 0 .. position - ListenerOf(slot).position
  BY <1>7, <1>8 DEF Listening
<1>13. Timeline!Listen(slot)
  BY <1>11, <1>12 DEF Timeline!Listen
<1>14. QED
  BY <1>13 DEF Timeline!TimelineNext

LEMMA RefinementStep ==
  ASSUME Serialized, RingTypeInv, RingTypeInv', RetentionInv, OwnershipInv, OwnershipInv',
         ListeningInv, [RingNext]_ringVars
  PROVE  [Timeline!TimelineNext]_(Timeline!timelineVars)
<1>1. CASE RingWrite
  BY <1>1, WriteExtends
<1>2. ASSUME NEW p \in Controller, StartControl(p)
      PROVE  Timeline!TimelineNext \/ UNCHANGED Timeline!timelineVars
  BY <1>2, Serialized, StartControlRefines
<1>3. ASSUME NEW p \in Controller, RingControl(p)
      PROVE  Timeline!TimelineNext \/ UNCHANGED Timeline!timelineVars
  <2>1. control[p].pc \in {"claimed", "positioned"} => control[p].slot \in ReaderSlot
    BY DEF RingTypeInv, SlotChosen
  <2>2. QED
    BY <1>3, <2>1, SlotWorkRefines, LoadPositionRefines, ReturnTokenRefines
<1>4. ASSUME NEW t \in Copier, NEW token \in held \cup retired, NEW k \in ReadSize,
             BeginRead(t, token, k)
      PROVE  Timeline!TimelineNext \/ UNCHANGED Timeline!timelineVars
  BY <1>4, ReadRefinesQuietly
<1>5. ASSUME NEW t \in Copier, ContinueRead(t)
      PROVE  Timeline!TimelineNext \/ UNCHANGED Timeline!timelineVars
  <2>1. call[t].token.slot \in ReaderSlot
    BY ListeningTypes
  <2>2. QED
    BY <1>5, <2>1, ReadRefinesQuietly, StoreCursorRefines DEF ContinueRead
<1>6. CASE UNCHANGED ringVars
  <2>1. /\ UNCHANGED <<held, control, publishedFrameCount>>
        /\ readers' = readers /\ account' = account
    BY <1>6 DEF ringVars, storeVars, cursorVars
  <2>2. UNCHANGED Timeline!timelineVars
    BY <2>1, QuietStep
  <2>3. QED
    BY <2>2
<1>7. QED
  BY [RingNext]_ringVars, <1>1, <1>2, <1>3, <1>4, <1>5, <1>6 DEF RingNext

LEMMA RefinementInit == RingInit => Timeline!TimelineInit
<1> SUFFICES ASSUME RingInit PROVE Timeline!TimelineInit
  OBVIOUS
<1>1. ASSUME NEW s \in ReaderSlot
      PROVE  ListenerOf(s) = Timeline!Away
  <2>1. ~Owned(s) /\ ~Joining(s)
    BY DEF RingInit, CursorsInit, IdleControl, Owned, Joining
  <2>2. QED
    BY <2>1, OthersAreAway
<1>2. publishedFrameCount = 0
  BY DEF RingInit, StoreInit
<1>3. QED
  BY <1>1, <1>2 DEF Timeline!TimelineInit

(***************************************************************************)
(* The ring implements AudioTimeline: whatever the slots, the stamps and   *)
(* the threads do, each owner of a slot is a listener that joins at the    *)
(* end of the timeline, is moved by its own reads only, and is told of     *)
(* every frame it passes once, as audio or as dropped.                     *)
(***************************************************************************)
THEOREM ImplementsTimelineHolds ==
  ASSUME Serialized, DrainBeforeUnregister, MaxRegistrations < GenerationModulus
  PROVE  RingSpec => ImplementsTimeline
<1>1. RingTypeInv /\ RingTypeInv' /\ RetentionInv /\ OwnershipInv /\ OwnershipInv'
        /\ ListeningInv /\ [RingNext]_ringVars
      => [Timeline!TimelineNext]_(Timeline!timelineVars)
  BY Serialized, RefinementStep
<1>2. RingSpec => []ListeningInv /\ []OwnershipInv
  BY Serialized, DrainBeforeUnregister, MaxRegistrations < GenerationModulus,
     ListeningHolds, OwnershipHolds
<1>3. RingSpec => []RetentionInv
  BY RingUsesStore, RetentionHolds, PTL
<1>4. QED
  BY <1>1, <1>2, <1>3, RefinementInit, RingTypeInvHolds, PTL
     DEF RingSpec, ImplementsTimeline, Timeline!TimelineSpec
=============================================================================
