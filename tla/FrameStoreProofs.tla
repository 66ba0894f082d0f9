-------------------------- MODULE FrameStoreProofs --------------------------
(***************************************************************************)
(* Proofs about FrameStore, for every capacity, channel set and number of  *)
(* copying threads.                                                        *)
(***************************************************************************)
EXTENDS FrameStore, TLAPS

-----------------------------------------------------------------------------
(***************************************************************************)
(* Slots and stamps.                                                       *)
(***************************************************************************)
LEMMA SlotType == \A n \in Nat : SlotOf(n) \in Slot
  BY CapacityAssumption DEF SlotOf, Slot

LEMMA StampType ==
  \A n \in Nat : readyStamp(n) \in Nat /\ writingStamp(n) \in Nat
  BY DEF readyStamp, writingStamp

\* Frames that share a slot are at least a lap apart.
LEMMA SameSlotIsALapApart ==
  ASSUME NEW m \in Nat, NEW n \in Nat, n < m, SlotOf(m) = SlotOf(n)
  PROVE  n + Capacity <= m
<1>1. m = Capacity * (m \div Capacity) + SlotOf(m)
  BY CapacityAssumption DEF SlotOf
<1>2. n = Capacity * (n \div Capacity) + SlotOf(n)
  BY CapacityAssumption DEF SlotOf
<1> DEFINE laps == (m \div Capacity) - (n \div Capacity)
<1>3. laps \in Int /\ m - n = Capacity * laps
  BY <1>1, <1>2, CapacityAssumption, SlotType DEF Slot
<1>4. laps >= 1
  BY <1>3, CapacityAssumption
<1>5. QED
  BY <1>3, <1>4, CapacityAssumption

\* A stamp tells whether its slot is being written, and with at least two
\* slots which frame of the slot it belongs to.
LEMMA StampsTellFramesApart ==
  ASSUME NEW m \in Nat, NEW n \in Nat
  PROVE  /\ readyStamp(m) # writingStamp(n)
         /\ readyStamp(m) # 0
         /\ Capacity > 1 /\ SlotOf(m) = SlotOf(n) /\ n < m
              => readyStamp(m) # readyStamp(n)
<1>1. readyStamp(m) # writingStamp(n) /\ readyStamp(m) # 0
  BY DEF readyStamp, writingStamp
<1>2. ASSUME Capacity > 1, SlotOf(m) = SlotOf(n), n < m
      PROVE  readyStamp(m) # readyStamp(n)
  <2>1. n + 2 <= m
    BY <1>2, SameSlotIsALapApart, CapacityAssumption
  <2>2. QED
    BY <2>1 DEF readyStamp
<1>3. QED
  BY <1>1, <1>2

-----------------------------------------------------------------------------
(***************************************************************************)
(* Type correctness, whatever the order of the memory accesses.            *)
(***************************************************************************)
LEMMA RetainedType ==
  \A k \in Nat : Retained(k) \in Nat /\ Retained(k) <= k /\ Retained(k) <= Capacity
  BY CapacityAssumption DEF Retained

LEMMA RetainedPositive == \A k \in WriteSize : k \in Nat /\ Retained(k) > 0
  BY CapacityAssumption, WriteSizeAssumption DEF Retained

LEMMA StoreInitType == StoreInit => StoreTypeOK
  BY DEF StoreInit, StoreTypeOK, WriterState, CopyState, IdleCopy, EmptyFrame,
         NoFrame

LEMMA WriteStepType ==
  ASSUME StoreTypeOK, WriteStep
  PROVE  StoreTypeOK'
<1> USE DEF StoreTypeOK, WriterState
<1>1. ASSUME NEW k \in WriteSize, BeginWrite(k)
      PROVE  StoreTypeOK'
  <2>1. publishedFrameCount + k - Retained(k) \in Nat
    BY RetainedType, RetainedPositive
  <2>2. publishedFrameCount + k \in Nat
    BY RetainedPositive
  <2>3. writer' \in WriterState
    BY <1>1, <2>1, <2>2 DEF BeginWrite
  <2>4. QED
    BY <1>1, <2>3 DEF BeginWrite
<1>2. CASE MarkWriting
  BY <1>2, StampType, SlotType DEF MarkWriting
<1>3. ASSUME NEW c \in Channel, StoreSample(c)
      PROVE  StoreTypeOK'
  <2>1. sampleBits' \in [Slot -> [Channel -> Nat \cup {NoFrame}]]
    BY <1>3, SlotType DEF StoreSample
  <2>2. writer' \in WriterState
    BY <1>3 DEF StoreSample
  <2>3. QED
    BY <1>3, <2>1, <2>2 DEF StoreSample
<1>4. CASE MarkReady
  <2>1. frameStamps' \in [Slot -> Nat]
    BY <1>4, StampType, SlotType DEF MarkReady
  <2>2. writer' \in WriterState
    BY <1>4 DEF MarkReady
  <2>3. QED
    BY <1>4, <2>1, <2>2 DEF MarkReady
<1>5. CASE Publish
  BY <1>5 DEF Publish
<1>6. QED
  BY WriteStep, <1>1, <1>2, <1>3, <1>4, <1>5 DEF WriteStep, ContinueWrite

LEMMA IdleCopyType == IdleCopy \in CopyState
  BY DEF IdleCopy, CopyState, EmptyFrame, NoFrame

LEMMA CopyStepType ==
  ASSUME StoreTypeOK, NEW t \in Copier, CopyStep(t)
  PROVE  StoreTypeOK'
<1> USE DEF StoreTypeOK
<1>1. copy[t] \in CopyState
  OBVIOUS
<1> SUFFICES ASSUME copy' \in [Copier -> CopyState]
             PROVE  StoreTypeOK'
  <2>1. ASSUME NEW frame \in 0 .. MaxPublished, CheckStamp(t, frame)
        PROVE  copy' \in [Copier -> CopyState]
    <3>1. [IdleCopy EXCEPT !.pc = IF Ready(frame) THEN "copying" ELSE "returning",
                           !.frame = frame] \in CopyState
      <4>1. frame \in Nat
        BY MaxPublishedAssumption
      <4>2. CASE Ready(frame)
        BY <4>1, <4>2, IdleCopyType DEF CopyState
      <4>3. CASE ~Ready(frame)
        BY <4>1, <4>3, IdleCopyType DEF CopyState
      <4>4. QED
        BY <4>2, <4>3
    <3>2. QED
      BY <2>1, <3>1 DEF CheckStamp
  <2>2. ASSUME NEW c \in Channel, LoadSample(t, c)
        PROVE  copy' \in [Copier -> CopyState]
    <3>1. SampleAt(copy[t].frame, c) \in Nat \cup {NoFrame}
      BY <1>1, SlotType DEF CopyState, SampleAt
    <3>2. [copy[t] EXCEPT !.loaded = copy[t].loaded \cup {c},
                          !.destination[c] = SampleAt(copy[t].frame, c)] \in CopyState
      BY <1>1, <3>1 DEF CopyState
    <3>3. QED
      BY <2>2, <3>2 DEF LoadSample
  <2>3. ASSUME RecheckStamp(t)
        PROVE  copy' \in [Copier -> CopyState]
    <3>1. Ready(copy[t].frame) \in BOOLEAN
      BY DEF Ready
    <3>2. QED
      BY <2>3, <1>1, <3>1 DEF RecheckStamp, CopyState
  <2>4. ASSUME Copied(t)
        PROVE  copy' \in [Copier -> CopyState]
    BY <2>4, <1>1 DEF Copied, CopyState
  <2>5. ASSUME Return(t)
        PROVE  copy' \in [Copier -> CopyState]
    BY <2>5, IdleCopyType DEF Return
  <2>6. QED
    BY CopyStep(t), <2>1, <2>2, <2>3, <2>4, <2>5 DEF CopyStep, ContinueCopy
<1>2. UNCHANGED <<frameStamps, sampleBits, publishedFrameCount, writer>>
  BY CopyStep(t)
     DEF CopyStep, ContinueCopy, CheckStamp, LoadSample, RecheckStamp, Copied, Return
<1>3. QED
  BY <1>2

(***************************************************************************)
(* Stamps, samples and program states keep their types.                    *)
(***************************************************************************)
THEOREM TypeCorrect == StoreSpec => []StoreTypeOK
<1>1. StoreInit => StoreTypeOK
  BY StoreInitType
<1>2. StoreTypeOK /\ [StoreNext]_storeVars => StoreTypeOK'
  <2> SUFFICES ASSUME StoreTypeOK, [StoreNext]_storeVars
               PROVE  StoreTypeOK'
    OBVIOUS
  <2>1. CASE WriteStep
    BY <2>1, WriteStepType
  <2>2. ASSUME NEW t \in Copier, CopyStep(t)
        PROVE  StoreTypeOK'
    BY <2>2, CopyStepType
  <2>3. CASE UNCHANGED storeVars
    BY <2>3 DEF storeVars, StoreTypeOK
  <2>4. QED
    BY <2>1, <2>2, <2>3 DEF StoreNext
<1>3. QED
  BY <1>1, <1>2, PTL DEF StoreSpec

-----------------------------------------------------------------------------
(***************************************************************************)
(* The sequence lock.                                                      *)
(***************************************************************************)
LEMMA WriterType ==
  ASSUME StoreTypeOK
  PROVE  /\ writer.frame \in Nat /\ writer.end \in Nat
         /\ publishedFrameCount \in Nat
         /\ SlotOf(writer.frame) \in Slot
  BY SlotType DEF StoreTypeOK, WriterState

\* Every writer action keeps the writer between the published frame and the
\* end of its block, and never moves it backwards.
LEMMA WriterStep ==
  ASSUME StoreTypeOK, WriterInv, WriteStep
  PROVE  /\ WriterInv'
         /\ writer.frame <= writer'.frame
         /\ publishedFrameCount <= publishedFrameCount'
<1> USE WriterType DEF WriterInv, StoreTypeOK, WriterState
<1>1. ASSUME NEW k \in WriteSize, BeginWrite(k)
      PROVE  /\ WriterInv'
             /\ writer.frame <= writer'.frame
             /\ publishedFrameCount <= publishedFrameCount'
  BY <1>1, RetainedType, RetainedPositive DEF BeginWrite
<1>2. CASE MarkWriting
  BY <1>2 DEF MarkWriting
<1>3. ASSUME NEW c \in Channel, StoreSample(c)
      PROVE  /\ WriterInv'
             /\ writer.frame <= writer'.frame
             /\ publishedFrameCount <= publishedFrameCount'
  BY <1>3 DEF StoreSample
<1>4. CASE MarkReady
  BY <1>4 DEF MarkReady
<1>5. CASE Publish
  BY <1>5 DEF Publish
<1>6. QED
  BY WriteStep, <1>1, <1>2, <1>3, <1>4, <1>5 DEF WriteStep, ContinueWrite

\* What a writer action owes to the copies under way.
LEMMA CopyInvKept ==
  ASSUME StoreTypeOK, CopyInv, UNCHANGED copy,
         publishedFrameCount' \in Nat,
         publishedFrameCount <= publishedFrameCount',
         \A n \in Nat : n < publishedFrameCount =>
           /\ Overtaken(n) => Overtaken(n)'
           /\ HoldsFrame(SlotOf(n), n) =>
                HoldsFrame(SlotOf(n), n)' \/ Overtaken(n)'
  PROVE  CopyInv'
<1> SUFFICES ASSUME NEW t \in Copier
             PROVE  /\ copy[t].pc = "copying" =>
                         /\ copy[t].frame < publishedFrameCount'
                         /\ \/ Overtaken(copy[t].frame)'
                            \/ /\ HoldsFrame(SlotOf(copy[t].frame), copy[t].frame)'
                               /\ \A c \in copy[t].loaded :
                                    copy[t].destination[c] = copy[t].frame
                         /\ copy[t].rechecked => copy[t].loaded = Channel
                         /\ copy[t].ok => copy[t].rechecked
                    /\ copy[t].pc # "idle" /\ copy[t].ok =>
                         \A c \in Channel : copy[t].destination[c] = copy[t].frame
  BY DEF CopyInv, Overtaken, HoldsFrame, SlotOf, readyStamp, writingStamp
<1>1. copy[t].frame \in Nat /\ publishedFrameCount \in Nat
  BY DEF StoreTypeOK, CopyState
<1>2. QED
  BY <1>1 DEF CopyInv

\* No frame of the published timeline is intact while its slot is marked.
LEMMA MarkedSlotHoldsNoFrame ==
  ASSUME StoreTypeOK, SlotInv, NEW n \in Nat, BeingWritten(SlotOf(n))
  PROVE  ~Ready(n)
  BY SlotType, WriterType, StampsTellFramesApart
     DEF SlotInv, BeingWritten, Ready

LEMMA SeqlockWriteStep ==
  ASSUME InOrder, Capacity > 1, StoreTypeOK, SeqlockInv, WriteStep
  PROVE  SeqlockInv'
<1> SUFFICES ASSUME NEW f \in Nat, f = writer.frame
             PROVE  SeqlockInv'
  BY WriterType
<1>1. WriterInv' /\ f <= writer'.frame /\ publishedFrameCount <= publishedFrameCount'
  BY WriterStep DEF SeqlockInv
<1>2. /\ f \in Nat /\ writer.end \in Nat /\ publishedFrameCount \in Nat
      /\ SlotOf(f) \in Slot
  BY WriterType
<1>3. /\ writer'.frame \in Nat /\ publishedFrameCount' \in Nat
      /\ writer'.marked \in BOOLEAN /\ StoreTypeOK'
  BY WriteStepType DEF StoreTypeOK, WriterState
<1>4. frameStamps \in [Slot -> Nat] /\ sampleBits \in [Slot -> [Channel -> Nat \cup {NoFrame}]]
  BY DEF StoreTypeOK
<1>5. UNCHANGED copy
  BY WriteStep DEF WriteStep, ContinueWrite, BeginWrite, MarkWriting, StoreSample,
                   MarkReady, Publish
<1>6. SUFFICES /\ ~writer'.marked => writer'.stored = {}
               /\ SlotInv'
               /\ \A n \in Nat : n < publishedFrameCount =>
                    /\ Overtaken(n) => Overtaken(n)'
                    /\ HoldsFrame(SlotOf(n), n) =>
                         HoldsFrame(SlotOf(n), n)' \/ Overtaken(n)'
  BY <1>1, <1>3, <1>5, CopyInvKept DEF SeqlockInv
<1>7. ASSUME NEW n \in Nat, Overtaken(n), UNCHANGED frameStamps
      PROVE  Overtaken(n)'
  BY <1>1, <1>2, <1>3, <1>7 DEF Overtaken, SlotOf, writingStamp, readyStamp
<1>8. CASE UNCHANGED <<frameStamps, sampleBits>> /\ ~writer.marked /\ ~writer'.marked
           /\ writer'.stored = {}
  <2>1. SlotInv'
    BY <1>1, <1>2, <1>3, <1>8 DEF SeqlockInv, SlotInv, BeingWritten, HoldsFrame, SlotOf
  <2>2. QED
    BY <1>7, <1>8, <2>1 DEF HoldsFrame, SlotOf
<1>9. ASSUME NEW k \in WriteSize, BeginWrite(k)
      PROVE  UNCHANGED <<frameStamps, sampleBits>> /\ ~writer.marked /\ ~writer'.marked
             /\ writer'.stored = {}
  BY <1>9 DEF BeginWrite, SeqlockInv, WriterInv
<1>10. CASE Publish
  BY <1>8, <1>10 DEF Publish, SeqlockInv, WriterInv, StoreTypeOK, WriterState
<1>11. CASE MarkWriting
  <2>1. /\ writer'.marked /\ writer'.frame = f /\ writer'.stored = {}
        /\ frameStamps' = [frameStamps EXCEPT ![SlotOf(f)] = writingStamp(f)]
        /\ UNCHANGED sampleBits /\ ~writer.marked
    BY <1>11 DEF MarkWriting, SeqlockInv, StoreTypeOK, WriterState
  <2>2. SlotInv'
    BY <1>2, <1>4, <2>1 DEF SeqlockInv, SlotInv, BeingWritten, HoldsFrame, SlotOf
  <2>3. ASSUME NEW n \in Nat, n < publishedFrameCount
        PROVE  /\ Overtaken(n) => Overtaken(n)'
               /\ HoldsFrame(SlotOf(n), n) =>
                    HoldsFrame(SlotOf(n), n)' \/ Overtaken(n)'
    <3>1. n < f /\ SlotOf(n) \in Slot
      BY <1>2, <2>3, SlotType DEF SeqlockInv, WriterInv
    <3>2. CASE SlotOf(n) = SlotOf(f)
      <4>1. frameStamps'[SlotOf(n)] = writingStamp(f)
        BY <1>2, <1>4, <2>1, <3>2
      <4>2. Overtaken(n)'
        BY <1>2, <2>1, <3>1, <3>2, <4>1 DEF Overtaken, SlotOf, writingStamp
      <4>3. QED
        BY <4>2
    <3>3. CASE SlotOf(n) # SlotOf(f)
      <4>1. frameStamps'[SlotOf(n)] = frameStamps[SlotOf(n)]
        BY <1>4, <2>1, <3>1, <3>3
      <4>2. QED
        BY <2>1, <4>1 DEF Overtaken, HoldsFrame, SlotOf, writingStamp, readyStamp
    <3>4. QED
      BY <3>2, <3>3
  <2>4. QED
    BY <2>1, <2>2, <2>3
<1>12. ASSUME NEW c \in Channel, StoreSample(c)
       PROVE  /\ ~writer'.marked => writer'.stored = {}
              /\ SlotInv'
              /\ \A n \in Nat : n < publishedFrameCount =>
                   /\ Overtaken(n) => Overtaken(n)'
                   /\ HoldsFrame(SlotOf(n), n) =>
                        HoldsFrame(SlotOf(n), n)' \/ Overtaken(n)'
  <2>1. /\ writer.marked /\ writer'.marked /\ writer'.frame = f
        /\ writer'.stored = writer.stored \cup {c}
        /\ sampleBits' = [sampleBits EXCEPT ![SlotOf(f)][c] = f]
        /\ UNCHANGED frameStamps
    BY <1>12, InOrder DEF StoreSample, StoreTypeOK, WriterState
  <2>2. \A s \in Slot : s # SlotOf(f) => sampleBits'[s] = sampleBits[s]
    BY <1>4, <2>1
  <2>3. \A d \in writer'.stored : d = c \/ d \in writer.stored
    BY <2>1
  <2>4. \A d \in writer'.stored : sampleBits'[SlotOf(f)][d] = f
    BY <1>2, <1>4, <2>1, <2>3 DEF SeqlockInv, SlotInv, BeingWritten, StoreTypeOK, WriterState
  <2>5. SlotInv'
    BY <2>1, <2>2, <2>4 DEF SeqlockInv, SlotInv, BeingWritten, HoldsFrame, SlotOf
  <2>6. ASSUME NEW n \in Nat, HoldsFrame(SlotOf(n), n)
        PROVE  HoldsFrame(SlotOf(n), n)'
    <3>1. SlotOf(n) # SlotOf(f)
      BY <2>1, <2>6, MarkedSlotHoldsNoFrame
         DEF SeqlockInv, BeingWritten, Ready, HoldsFrame
    <3>2. QED
      BY <2>1, <2>2, <2>6, <3>1, SlotType DEF HoldsFrame, SlotOf, readyStamp
  <2>7. QED
    BY <1>7, <2>1, <2>5, <2>6
<1>13. CASE MarkReady
  <2>1. /\ writer.marked /\ ~writer'.marked /\ writer'.frame = f + 1
        /\ writer'.stored = {} /\ writer.stored = Channel
        /\ frameStamps' = [frameStamps EXCEPT ![SlotOf(f)] = readyStamp(f)]
        /\ UNCHANGED sampleBits
    BY <1>13 DEF MarkReady
  <2>2. frameStamps'[SlotOf(f)] = readyStamp(f)
    BY <1>2, <1>4, <2>1
  <2>3. \A s \in Slot : s # SlotOf(f) => frameStamps'[s] = frameStamps[s]
    BY <1>4, <2>1
  <2>4. HoldsFrame(SlotOf(f), f)'
    <3>1. \A c \in Channel : sampleBits[SlotOf(f)][c] = f
      BY <1>2, <2>1 DEF SeqlockInv, SlotInv, BeingWritten
    <3>2. QED
      BY <2>1, <2>2, <3>1 DEF HoldsFrame, SlotOf, readyStamp
  <2>5. SlotInv'
    <3> SUFFICES ASSUME NEW s \in Slot
                 PROVE  \/ frameStamps'[s] = 0
                        \/ \E frame \in 0 .. writer'.frame - 1 : HoldsFrame(s, frame)'
      BY <2>1 DEF SlotInv, BeingWritten, HoldsFrame, SlotOf, readyStamp
    <3>1. CASE s = SlotOf(f)
      BY <1>2, <2>1, <2>4, <3>1
    <3>2. CASE s # SlotOf(f)
      BY <1>2, <2>1, <2>3, <3>2
         DEF SeqlockInv, SlotInv, BeingWritten, HoldsFrame, SlotOf
    <3>3. QED
      BY <3>1, <3>2
  <2>6. ASSUME NEW n \in Nat, n < publishedFrameCount
        PROVE  /\ Overtaken(n) => Overtaken(n)'
               /\ HoldsFrame(SlotOf(n), n) =>
                    HoldsFrame(SlotOf(n), n)' \/ Overtaken(n)'
    <3>1. n < f /\ SlotOf(n) \in Slot
      BY <1>2, <2>6, SlotType DEF SeqlockInv, WriterInv
    <3>2. CASE SlotOf(n) = SlotOf(f)
      <4>1. Overtaken(n)'
        BY <1>2, <2>1, <2>2, <3>1, <3>2 DEF Overtaken, SlotOf, readyStamp
      <4>2. QED
        BY <4>1
    <3>3. CASE SlotOf(n) # SlotOf(f)
      <4>1. frameStamps'[SlotOf(n)] = frameStamps[SlotOf(n)]
        BY <2>3, <3>1, <3>3
      <4>2. QED
        BY <1>2, <2>1, <4>1 DEF Overtaken, HoldsFrame, SlotOf, writingStamp, readyStamp
    <3>4. QED
      BY <3>2, <3>3
  <2>7. QED
    BY <2>1, <2>5, <2>6
<1>14. QED
  BY WriteStep, <1>8, <1>9, <1>10, <1>11, <1>12, <1>13 DEF WriteStep, ContinueWrite

\* A frame whose ready stamp is in place is whole.
LEMMA ReadyFrameIsWhole ==
  ASSUME Capacity > 1, StoreTypeOK, SlotInv, NEW n \in Nat, Ready(n)
  PROVE  HoldsFrame(SlotOf(n), n)
<1>1. SlotOf(n) \in Slot
  BY SlotType
<1>2. ~BeingWritten(SlotOf(n)) /\ frameStamps[SlotOf(n)] # 0
  BY MarkedSlotHoldsNoFrame, StampsTellFramesApart DEF Ready
<1>3. PICK frame \in 0 .. writer.frame - 1 : HoldsFrame(SlotOf(n), frame)
  BY <1>1, <1>2 DEF SlotInv
<1>4. frame \in Nat /\ SlotOf(frame) = SlotOf(n) /\ readyStamp(frame) = readyStamp(n)
  BY <1>3, WriterType DEF HoldsFrame, Ready
<1>5. frame = n
  BY <1>4, StampsTellFramesApart
<1>6. QED
  BY <1>3, <1>5

\* A copy of an overtaken frame fails its second check.
LEMMA OvertakenFrameIsNotReady ==
  ASSUME Capacity > 1, StoreTypeOK, NEW n \in Nat, Overtaken(n)
  PROVE  ~Ready(n)
<1>1. PICK later \in n + 1 .. writer.frame :
        /\ SlotOf(later) = SlotOf(n)
        /\ frameStamps[SlotOf(n)] \in {writingStamp(later), readyStamp(later)}
  BY DEF Overtaken
<1>2. later \in Nat /\ n < later
  BY <1>1, WriterType
<1>3. QED
  BY <1>1, <1>2, StampsTellFramesApart DEF Ready

LEMMA SeqlockCopyStep ==
  ASSUME InOrder, Capacity > 1, StoreTypeOK, SeqlockInv,
         NEW t \in Copier, CopyStep(t)
  PROVE  SeqlockInv'
<1> DEFINE Sound(state) ==
      /\ state.pc = "copying" =>
           /\ state.frame < publishedFrameCount
           /\ \/ Overtaken(state.frame)
              \/ /\ HoldsFrame(SlotOf(state.frame), state.frame)
                 /\ \A c \in state.loaded : state.destination[c] = state.frame
           /\ state.rechecked => state.loaded = Channel
           /\ state.ok => state.rechecked
      /\ state.pc # "idle" /\ state.ok =>
           \A c \in Channel : state.destination[c] = state.frame
<1>1. UNCHANGED <<frameStamps, sampleBits, publishedFrameCount, writer>>
  BY CopyStep(t)
     DEF CopyStep, ContinueCopy, CheckStamp, LoadSample, RecheckStamp, Copied, Return
<1>2. copy \in [Copier -> CopyState] /\ copy[t] \in CopyState
  BY DEF StoreTypeOK
<1>3. SUFFICES ASSUME NEW new \in CopyState, copy' = [copy EXCEPT ![t] = new]
               PROVE  Sound(copy'[t])
  <2>1. \A u \in Copier : Sound(copy[u])
    BY DEF SeqlockInv, CopyInv
  <2>2. \E new \in CopyState : copy' = [copy EXCEPT ![t] = new]
    <3>1. copy' \in [Copier -> CopyState] /\ copy'[t] \in CopyState
      BY CopyStepType DEF StoreTypeOK
    <3>2. \A u \in Copier : u # t => copy'[u] = copy[u]
      BY <1>2, CopyStep(t)
         DEF CopyStep, ContinueCopy, CheckStamp, LoadSample, RecheckStamp, Copied, Return
    <3>3. copy' = [copy EXCEPT ![t] = copy'[t]]
      BY <1>2, <3>1, <3>2
    <3>4. QED
      BY <3>1, <3>3
  <2>3. ASSUME NEW new \in CopyState, copy' = [copy EXCEPT ![t] = new],
               Sound(copy'[t])
        PROVE  SeqlockInv'
    <3>1. \A u \in Copier : Sound(copy'[u])
      BY <1>2, <2>1, <2>3
    <3>2. CopyInv'
      BY <1>1, <3>1 DEF CopyInv, Overtaken, HoldsFrame, SlotOf, readyStamp, writingStamp
    <3>3. QED
      BY <1>1, <3>2
         DEF SeqlockInv, WriterInv, SlotInv, BeingWritten, HoldsFrame, SlotOf, readyStamp,
             writingStamp
  <2>4. QED
    BY <2>2, <2>3
<1>4. copy[t].frame \in Nat /\ copy[t].loaded \subseteq Channel
  BY <1>2 DEF CopyState
<1>5. Sound(copy[t])
  BY DEF SeqlockInv, CopyInv
<1>6. ASSUME NEW frame \in 0 .. MaxPublished, CheckStamp(t, frame)
      PROVE  Sound(copy'[t])
  <2>1. /\ copy'[t].pc = (IF Ready(frame) THEN "copying" ELSE "returning")
        /\ copy'[t].frame = frame /\ copy'[t].loaded = {}
        /\ ~copy'[t].rechecked /\ ~copy'[t].ok /\ frame < publishedFrameCount
    BY <1>2, <1>6 DEF CheckStamp, IdleCopy
  <2>2. frame \in Nat
    BY MaxPublishedAssumption
  <2>3. Ready(frame) => HoldsFrame(SlotOf(frame), frame)
    BY <2>2, ReadyFrameIsWhole DEF SeqlockInv
  <2>4. QED
    BY <2>1, <2>3
<1>7. ASSUME NEW c \in Channel, LoadSample(t, c)
      PROVE  Sound(copy'[t])
  <2>1. /\ copy[t].pc = "copying" /\ c \notin copy[t].loaded
        /\ copy'[t].pc = "copying" /\ copy'[t].frame = copy[t].frame
        /\ copy'[t].loaded = copy[t].loaded \cup {c}
        /\ copy'[t].rechecked = copy[t].rechecked
        /\ copy'[t].ok = copy[t].ok
    BY <1>2, <1>7 DEF LoadSample, CopyState
  <2>2. ~copy[t].rechecked /\ ~copy[t].ok
    BY <1>5, <2>1
  <2>3. /\ copy'[t].destination[c] = sampleBits[SlotOf(copy[t].frame)][c]
        /\ \A d \in copy[t].loaded :
             copy'[t].destination[d] = copy[t].destination[d]
    BY <1>2, <1>4, <1>7, <2>1 DEF LoadSample, CopyState, SampleAt
  <2>4. QED
    BY <1>5, <2>1, <2>2, <2>3 DEF HoldsFrame
<1>8. CASE RecheckStamp(t)
  <2>1. /\ copy[t].pc = "copying" /\ copy[t].loaded = Channel
        /\ copy'[t].pc = "copying" /\ copy'[t].frame = copy[t].frame
        /\ copy'[t].loaded = Channel /\ copy'[t].destination = copy[t].destination
        /\ copy'[t].rechecked /\ copy'[t].ok = Ready(copy[t].frame)
    BY <1>2, <1>8, InOrder DEF RecheckStamp, CopyState
  <2>2. copy'[t].ok => ~Overtaken(copy[t].frame)
    BY <1>4, <2>1, OvertakenFrameIsNotReady
  <2>3. QED
    BY <1>5, <2>1, <2>2
<1>9. CASE Copied(t)
  <2>1. /\ copy[t].pc = "copying" /\ copy'[t].pc = "returning"
        /\ copy'[t].ok = copy[t].ok /\ copy'[t].frame = copy[t].frame
        /\ copy'[t].destination = copy[t].destination
    BY <1>2, <1>9 DEF Copied, CopyState
  <2>2. QED
    BY <1>5, <2>1
<1>10. CASE Return(t)
  BY <1>2, <1>10 DEF Return, IdleCopy
<1>11. QED
  BY CopyStep(t), <1>6, <1>7, <1>8, <1>9, <1>10 DEF CopyStep, ContinueCopy

LEMMA SeqlockInit == StoreInit => SeqlockInv
  BY CapacityAssumption
     DEF StoreInit, SeqlockInv, WriterInv, SlotInv, BeingWritten, CopyInv, IdleCopy

(***************************************************************************)
(* Where memory accesses keep program order and the ring has at least two  *)
(* frames, the stamps work as a sequence lock.                             *)
(***************************************************************************)
THEOREM SeqlockHolds ==
  ASSUME InOrder, Capacity > 1
  PROVE  StoreSpec => []SeqlockInv
<1>1. StoreInit => SeqlockInv
  BY SeqlockInit
<1>2. StoreTypeOK /\ SeqlockInv /\ [StoreNext]_storeVars => SeqlockInv'
  <2> SUFFICES ASSUME StoreTypeOK, SeqlockInv, [StoreNext]_storeVars
               PROVE  SeqlockInv'
    OBVIOUS
  <2>1. CASE WriteStep
    BY <2>1, InOrder, Capacity > 1, SeqlockWriteStep
  <2>2. ASSUME NEW t \in Copier, CopyStep(t)
        PROVE  SeqlockInv'
    BY <2>2, InOrder, Capacity > 1, SeqlockCopyStep
  <2>3. CASE UNCHANGED storeVars
    BY <2>3 DEF storeVars, SeqlockInv, WriterInv, SlotInv, BeingWritten, HoldsFrame,
                SlotOf, readyStamp, writingStamp, CopyInv, Overtaken
  <2>4. QED
    BY <2>1, <2>2, <2>3 DEF StoreNext
<1>3. QED
  BY <1>1, <1>2, TypeCorrect, PTL DEF StoreSpec

(***************************************************************************)
(* Under the same conditions no torn frame is ever accepted.               *)
(***************************************************************************)
THEOREM NoTornFrameHolds ==
  ASSUME InOrder, Capacity > 1
  PROVE  StoreSpec => []NoTornFrame
<1>1. SeqlockInv => NoTornFrame
  BY DEF SeqlockInv, CopyInv, NoTornFrame
<1>2. StoreSpec => []SeqlockInv
  BY InOrder, Capacity > 1, SeqlockHolds
<1>3. QED
  BY <1>1, <1>2, PTL

-----------------------------------------------------------------------------
(***************************************************************************)
(* Retention, whatever the order of the memory accesses and however small  *)
(* the ring.                                                               *)
(***************************************************************************)

\* A writer action keeps the stamp of every frame less than a lap behind.
LEMMA RetentionWriteStep ==
  ASSUME StoreTypeOK, RetentionInv, WriteStep
  PROVE  RetentionInv'
<1> SUFFICES ASSUME NEW f \in Nat, f = writer.frame
             PROVE  RetentionInv'
  BY WriterType
<1>1. WriterInv' /\ WriterInv /\ f <= writer'.frame
      /\ publishedFrameCount <= publishedFrameCount'
  BY WriterStep DEF RetentionInv
<1>2. /\ writer.end \in Nat /\ publishedFrameCount \in Nat
      /\ SlotOf(f) \in Slot /\ Capacity \in Nat \ {0}
      /\ frameStamps \in [Slot -> Nat]
      /\ writer.marked \in BOOLEAN
  BY WriterType, CapacityAssumption DEF StoreTypeOK, WriterState
<1>3. /\ writer'.frame \in Nat /\ publishedFrameCount' \in Nat
      /\ writer'.end \in Nat /\ writer'.marked \in BOOLEAN
  BY WriteStepType DEF StoreTypeOK, WriterState
<1>4. UNCHANGED copy
  BY WriteStep DEF WriteStep, ContinueWrite, BeginWrite, MarkWriting, StoreSample,
                   MarkReady, Publish
<1>5. \A t \in Copier : copy[t].frame \in Nat
  BY DEF StoreTypeOK, CopyState
<1>6. SUFFICES /\ NewestTouched <= NewestTouched'
               /\ \A n \in 0 .. writer'.frame - 1 :
                    Retainable(n)' /\ NewestTouched' < n + Capacity => Ready(n)'
  <2>1. NewestTouched \in Int /\ NewestTouched' \in Int
    BY <1>2, <1>3 DEF NewestTouched
  <2>2. ASSUME NEW t \in Copier
        PROVE  /\ copy'[t].pc = "copying" => copy'[t].frame < publishedFrameCount'
               /\ (copy'[t].rechecked \/ copy'[t].pc = "returning") /\ ~copy'[t].ok =>
                    copy'[t].frame + Capacity <= NewestTouched'
    BY <1>1, <1>2, <1>3, <1>4, <1>5, <1>6, <2>1 DEF RetentionInv
  <2>3. QED
    BY <1>1, <1>6, <2>2 DEF RetentionInv
<1>7. ASSUME NEW n \in 0 .. writer'.frame - 1, n < f, Ready(n),
             frameStamps'[SlotOf(n)] = frameStamps[SlotOf(n)]
      PROVE  Ready(n)'
  BY <1>7 DEF Ready, SlotOf, readyStamp
<1>8. ASSUME NEW n \in 0 .. writer'.frame - 1, n < f, f < n + Capacity
      PROVE  SlotOf(n) \in Slot /\ SlotOf(n) # SlotOf(f)
  BY <1>2, <1>8, SlotType, SameSlotIsALapApart
<1>9. ASSUME NEW k \in WriteSize, BeginWrite(k)
      PROVE  /\ NewestTouched <= NewestTouched'
             /\ \A n \in 0 .. writer'.frame - 1 :
                  Retainable(n)' /\ NewestTouched' < n + Capacity => Ready(n)'
  <2>1. /\ ~writer.marked /\ ~writer'.marked /\ f = publishedFrameCount
        /\ writer'.frame = f + k - Retained(k) /\ writer'.end = f + k
        /\ UNCHANGED <<frameStamps, publishedFrameCount>>
    BY <1>1, <1>2, <1>9 DEF BeginWrite, WriterInv
  <2>2. k \in Nat /\ Retained(k) \in Nat /\ Retained(k) <= k
        /\ (Retained(k) = k \/ Retained(k) = Capacity)
    BY RetainedType, RetainedPositive, CapacityAssumption DEF Retained
  <2>3. NewestTouched = f - 1 /\ NewestTouched' = writer'.frame - 1
    BY <2>1 DEF NewestTouched
  <2>4. ASSUME NEW n \in 0 .. writer'.frame - 1, Retainable(n)',
               NewestTouched' < n + Capacity
        PROVE  n < f /\ Retainable(n) /\ NewestTouched < n + Capacity
    BY <1>2, <2>1, <2>2, <2>3, <2>4 DEF Retainable
  <2>5. ASSUME NEW n \in 0 .. writer'.frame - 1, Retainable(n)',
               NewestTouched' < n + Capacity
        PROVE  Ready(n)'
    <3>1. Ready(n)
      BY <2>4, <2>5 DEF RetentionInv
    <3>2. QED
      BY <1>7, <2>1, <2>4, <2>5, <3>1
  <2>6. QED
    BY <1>2, <2>1, <2>2, <2>3, <2>5
<1>10. CASE MarkWriting
  <2>1. /\ ~writer.marked /\ writer'.marked /\ writer'.frame = f
        /\ writer'.end = writer.end
        /\ frameStamps' = [frameStamps EXCEPT ![SlotOf(f)] = writingStamp(f)]
        /\ UNCHANGED publishedFrameCount
    BY <1>10 DEF MarkWriting, StoreTypeOK, WriterState
  <2>2. NewestTouched = f - 1 /\ NewestTouched' = f
    BY <2>1 DEF NewestTouched
  <2>3. ASSUME NEW n \in 0 .. writer'.frame - 1, Retainable(n)',
               NewestTouched' < n + Capacity
        PROVE  Ready(n)'
    <3>1. n < f /\ Retainable(n) /\ NewestTouched < n + Capacity
      BY <1>2, <2>1, <2>2, <2>3 DEF Retainable
    <3>2. frameStamps'[SlotOf(n)] = frameStamps[SlotOf(n)]
      BY <1>2, <1>8, <2>1, <2>2, <2>3, <3>1
    <3>3. Ready(n)
      BY <3>1 DEF RetentionInv
    <3>4. QED
      BY <1>7, <3>1, <3>2, <3>3
  <2>4. QED
    BY <2>2, <2>3
<1>11. ASSUME NEW c \in Channel, StoreSample(c)
       PROVE  /\ NewestTouched <= NewestTouched'
              /\ \A n \in 0 .. writer'.frame - 1 :
                   Retainable(n)' /\ NewestTouched' < n + Capacity => Ready(n)'
  <2>1. /\ writer'.marked = writer.marked /\ writer'.frame = f
        /\ writer'.end = writer.end
        /\ UNCHANGED <<frameStamps, publishedFrameCount>>
    BY <1>11 DEF StoreSample, StoreTypeOK, WriterState
  <2>2. NewestTouched' = NewestTouched /\ NewestTouched \in Int
    BY <1>2, <2>1 DEF NewestTouched
  <2>3. QED
    BY <1>2, <2>1, <2>2 DEF RetentionInv, Retainable, Ready, SlotOf, readyStamp
<1>12. CASE MarkReady
  <2>1. /\ writer.marked /\ ~writer'.marked /\ writer'.frame = f + 1
        /\ writer'.end = writer.end
        /\ frameStamps' = [frameStamps EXCEPT ![SlotOf(f)] = readyStamp(f)]
        /\ UNCHANGED publishedFrameCount
    BY <1>12 DEF MarkReady
  <2>2. NewestTouched = f /\ NewestTouched' = f
    BY <2>1 DEF NewestTouched
  <2>3. ASSUME NEW n \in 0 .. writer'.frame - 1, Retainable(n)',
               NewestTouched' < n + Capacity
        PROVE  Ready(n)'
    <3>1. CASE n = f
      BY <1>2, <2>1, <3>1 DEF Ready, SlotOf, readyStamp
    <3>2. CASE n # f
      <4>1. n < f /\ Retainable(n) /\ NewestTouched < n + Capacity
        BY <1>2, <2>1, <2>2, <2>3, <3>2 DEF Retainable
      <4>2. frameStamps'[SlotOf(n)] = frameStamps[SlotOf(n)]
        BY <1>2, <1>8, <2>1, <2>2, <2>3, <4>1
      <4>3. Ready(n)
        BY <4>1 DEF RetentionInv
      <4>4. QED
        BY <1>7, <4>1, <4>2, <4>3
    <3>3. QED
      BY <3>1, <3>2
  <2>4. QED
    BY <2>2, <2>3
<1>13. CASE Publish
  <2>1. /\ ~writer.marked /\ ~writer'.marked /\ writer'.frame = f
        /\ writer'.end = f /\ writer.end = f /\ publishedFrameCount' = f
        /\ UNCHANGED frameStamps
    BY <1>1, <1>13 DEF Publish, WriterInv, StoreTypeOK, WriterState
  <2>2. NewestTouched = f - 1 /\ NewestTouched' = f - 1
    BY <2>1 DEF NewestTouched
  <2>3. ASSUME NEW n \in 0 .. writer'.frame - 1, NewestTouched' < n + Capacity
        PROVE  Retainable(n)
    BY <1>2, <2>1, <2>2, <2>3 DEF Retainable
  <2>4. QED
    BY <2>1, <2>2, <2>3 DEF RetentionInv, Ready, SlotOf, readyStamp
<1>14. QED
  BY WriteStep, <1>9, <1>10, <1>11, <1>12, <1>13 DEF WriteStep, ContinueWrite

LEMMA RetentionCopyStep ==
  ASSUME StoreTypeOK, RetentionInv, NEW t \in Copier, CopyStep(t)
  PROVE  RetentionInv'
<1> DEFINE Justified(state) ==
      /\ state.pc = "copying" => state.frame < publishedFrameCount
      /\ (state.rechecked \/ state.pc = "returning") /\ ~state.ok =>
           state.frame + Capacity <= NewestTouched
<1>1. UNCHANGED <<frameStamps, sampleBits, publishedFrameCount, writer>>
  BY CopyStep(t)
     DEF CopyStep, ContinueCopy, CheckStamp, LoadSample, RecheckStamp, Copied, Return
<1>2. copy \in [Copier -> CopyState] /\ copy[t] \in CopyState /\ copy[t].frame \in Nat
  BY DEF StoreTypeOK, CopyState
<1>3. \A u \in Copier : Justified(copy[u])
  BY DEF RetentionInv
<1>4. \A u \in Copier : u # t => copy'[u] = copy[u]
  BY <1>2, CopyStep(t)
     DEF CopyStep, ContinueCopy, CheckStamp, LoadSample, RecheckStamp, Copied, Return
<1>5. SUFFICES Justified(copy'[t])
  <2>1. \A u \in Copier : Justified(copy'[u])
    BY <1>3, <1>4, <1>5
  <2>2. \A u \in Copier :
          /\ copy'[u].pc = "copying" => copy'[u].frame < publishedFrameCount'
          /\ (copy'[u].rechecked \/ copy'[u].pc = "returning") /\ ~copy'[u].ok =>
               copy'[u].frame + Capacity <= NewestTouched'
    BY <1>1, <2>1 DEF NewestTouched
  <2>3. WriterInv' /\ \A n \in 0 .. writer'.frame - 1 :
          Retainable(n)' /\ NewestTouched' < n + Capacity => Ready(n)'
    BY <1>1 DEF RetentionInv, WriterInv, Retainable, NewestTouched, Ready, SlotOf,
                readyStamp
  <2>4. QED
    BY <2>2, <2>3 DEF RetentionInv
<1>6. ASSUME NEW n \in Nat, n < publishedFrameCount, ~Ready(n)
      PROVE  n + Capacity <= NewestTouched
  <2>1. NewestTouched \in Int /\ Capacity \in Nat
    BY WriterType, CapacityAssumption DEF NewestTouched, StoreTypeOK, WriterState
  <2>2. n \in 0 .. writer.frame - 1 /\ Retainable(n)
    BY <1>6, WriterType DEF RetentionInv, WriterInv, Retainable
  <2>3. ~(NewestTouched < n + Capacity)
    BY <1>6, <2>2 DEF RetentionInv
  <2>4. QED
    BY <2>1, <2>3
<1>7. ASSUME NEW frame \in 0 .. MaxPublished, CheckStamp(t, frame)
      PROVE  Justified(copy'[t])
  <2>1. /\ copy'[t].pc = (IF Ready(frame) THEN "copying" ELSE "returning")
        /\ copy'[t].frame = frame /\ ~copy'[t].rechecked
        /\ frame < publishedFrameCount
    BY <1>2, <1>7 DEF CheckStamp, IdleCopy
  <2>2. frame \in Nat
    BY MaxPublishedAssumption
  <2>3. QED
    BY <1>6, <2>1, <2>2
<1>8. ASSUME NEW c \in Channel, LoadSample(t, c)
      PROVE  Justified(copy'[t])
  <2>1. /\ copy'[t].pc = copy[t].pc /\ copy'[t].frame = copy[t].frame
        /\ copy'[t].rechecked = copy[t].rechecked /\ copy'[t].ok = copy[t].ok
    BY <1>2, <1>8 DEF LoadSample, CopyState
  <2>2. QED
    BY <1>3, <2>1
<1>9. CASE RecheckStamp(t)
  <2>1. /\ copy[t].pc = "copying" /\ copy'[t].pc = "copying"
        /\ copy'[t].frame = copy[t].frame
        /\ copy'[t].ok = Ready(copy[t].frame)
    BY <1>2, <1>9 DEF RecheckStamp, CopyState
  <2>2. QED
    BY <1>2, <1>3, <1>6, <2>1
<1>10. CASE Copied(t)
  <2>1. /\ copy[t].rechecked /\ copy'[t].pc = "returning"
        /\ copy'[t].ok = copy[t].ok /\ copy'[t].frame = copy[t].frame
    BY <1>2, <1>10 DEF Copied, CopyState
  <2>2. QED
    BY <1>3, <2>1
<1>11. CASE Return(t)
  BY <1>2, <1>11 DEF Return, IdleCopy
<1>12. QED
  BY CopyStep(t), <1>7, <1>8, <1>9, <1>10, <1>11 DEF CopyStep, ContinueCopy

(***************************************************************************)
(* Retention holds for every ring and every memory order.                  *)
(***************************************************************************)
THEOREM RetentionHolds == StoreSpec => []RetentionInv
<1>1. StoreInit => RetentionInv
  BY DEF StoreInit, RetentionInv, WriterInv, IdleCopy
<1>2. StoreTypeOK /\ RetentionInv /\ [StoreNext]_storeVars => RetentionInv'
  <2> SUFFICES ASSUME StoreTypeOK, RetentionInv, [StoreNext]_storeVars
               PROVE  RetentionInv'
    OBVIOUS
  <2>1. CASE WriteStep
    BY <2>1, RetentionWriteStep
  <2>2. ASSUME NEW t \in Copier, CopyStep(t)
        PROVE  RetentionInv'
    BY <2>2, RetentionCopyStep
  <2>3. CASE UNCHANGED storeVars
    BY <2>3 DEF storeVars, RetentionInv, WriterInv, Retainable, NewestTouched, Ready,
                SlotOf, readyStamp
  <2>4. QED
    BY <2>1, <2>2, <2>3 DEF StoreNext
<1>3. QED
  BY <1>1, <1>2, TypeCorrect, PTL DEF StoreSpec

(***************************************************************************)
(* A frame within the last lap of the writer is never refused.             *)
(***************************************************************************)
THEOREM NoSpuriousSilenceHolds == StoreSpec => []NoSpuriousSilence
<1>1. RetentionInv => NoSpuriousSilence
  BY DEF RetentionInv, NoSpuriousSilence
<1>2. QED
  BY <1>1, RetentionHolds, PTL

=============================================================================
