----------------------------- MODULE FrameStore -----------------------------
(***************************************************************************)
(* The shared audio storage of RealtimeAudioRing: a circular array of      *)
(* frames, each guarded by a stamp in the manner of a sequence lock.  One  *)
(* writer stores frames and publishes them in blocks; any number of        *)
(* threads copy single frames out without taking a lock.                   *)
(*                                                                         *)
(* A step is one access to shared memory, in the order the accesses become *)
(* visible.  InOrder = TRUE lets them become visible in program order      *)
(* only, as on x86_64.  InOrder = FALSE grants what the code's memory      *)
(* orders promise and no more: a release store does not hold back the      *)
(* relaxed stores after it, an acquire load does not hold back the relaxed *)
(* loads before it.                                                        *)
(*                                                                         *)
(* A sample is abstracted to the absolute number of the frame whose write  *)
(* stored it, so a copied frame is torn when its samples differ from the   *)
(* frame that was asked for.                                               *)
(***************************************************************************)
EXTENDS Integers, FiniteSets

CONSTANTS
  Capacity,       \* frames in the array
  Channel,        \* the channels of a frame
  Copier,         \* the threads that copy frames out
  WriteSize,      \* the frame counts the caller of write may pass
  InOrder,        \* whether memory accesses become visible in program order
  MaxPublished    \* bound on the published timeline

ASSUME CapacityAssumption == Capacity \in Nat \ {0}
ASSUME ChannelAssumption == IsFiniteSet(Channel) /\ Channel # {}
ASSUME WriteSizeAssumption == WriteSize \subseteq Nat \ {0}
ASSUME InOrderAssumption == InOrder \in BOOLEAN
ASSUME MaxPublishedAssumption == MaxPublished \in Nat

Slot == 0 .. Capacity - 1

SlotOf(frame) == frame % Capacity

\* The sample bits the constructor zeroes belong to no frame.
NoFrame == -1

\* (frame << 1) | 2: the frames 2k and 2k+1 share a stamp.
readyStamp(frame) == 4 * (frame \div 2) + 2

\* (frame << 1) | 1
writingStamp(frame) == 2 * frame + 1

VARIABLES
  frameStamps,          \* the stamp of every slot
  sampleBits,           \* per slot and channel, the frame that was stored
  publishedFrameCount,  \* the length of the timeline readers may ask for
  writer,               \* the one execution of write
  copy                  \* per thread, its execution of copyFrame

storeVars == <<frameStamps, sampleBits, publishedFrameCount, writer, copy>>

(***************************************************************************)
(* The writer keeps the frame it works on, the end of its block, and how   *)
(* much of the frame is visible: the writing stamp and some samples.       *)
(***************************************************************************)
WriterState ==
  [pc : {"idle", "storing", "publishing"}, frame : Nat, end : Nat,
   marked : BOOLEAN, stored : SUBSET Channel]

CopyState ==
  [pc : {"idle", "copying", "returning"}, frame : Nat,
   loaded : SUBSET Channel, destination : [Channel -> Nat \cup {NoFrame}],
   rechecked : BOOLEAN, ok : BOOLEAN]

EmptyFrame == [c \in Channel |-> NoFrame]

IdleCopy ==
  [pc |-> "idle", frame |-> 0, loaded |-> {}, destination |-> EmptyFrame,
   rechecked |-> FALSE, ok |-> FALSE]

StoreInit ==
  /\ frameStamps = [s \in Slot |-> 0]
  /\ sampleBits = [s \in Slot |-> EmptyFrame]
  /\ publishedFrameCount = 0
  /\ writer = [pc |-> "idle", frame |-> 0, end |-> 0,
               marked |-> FALSE, stored |-> {}]
  /\ copy = [t \in Copier |-> IdleCopy]

-----------------------------------------------------------------------------
(***************************************************************************)
(* write(samples, frameCount).  A frameCount of zero and null samples      *)
(* return before anything is touched, so they are no step.                 *)
(***************************************************************************)
\* Mutants: no clamp to a short block; one frame too few of a long one.
RetainedUnclamped(frameCount) == Capacity
RetainedOneShort(frameCount) ==
  IF frameCount < Capacity THEN frameCount ELSE Capacity - 1

Retained(frameCount) == IF frameCount < Capacity THEN frameCount ELSE Capacity

\* Mutant: publish the block before its frames are stored.
BeginWritePublished(frameCount) ==
  /\ writer.pc = "idle"
  /\ publishedFrameCount + frameCount <= MaxPublished
  /\ publishedFrameCount' = publishedFrameCount + frameCount
  /\ writer' = [pc |-> "storing",
                frame |-> publishedFrameCount + frameCount - Retained(frameCount),
                end |-> publishedFrameCount + frameCount,
                marked |-> FALSE, stored |-> {}]
  /\ UNCHANGED <<frameStamps, sampleBits, copy>>

BeginWrite(frameCount) ==
  /\ writer.pc = "idle"
  /\ publishedFrameCount + frameCount <= MaxPublished
  /\ writer' = [pc |-> "storing",
                frame |-> publishedFrameCount + frameCount - Retained(frameCount),
                end |-> publishedFrameCount + frameCount,
                marked |-> FALSE, stored |-> {}]
  /\ UNCHANGED <<frameStamps, sampleBits, publishedFrameCount, copy>>

MarkWriting ==
  /\ writer.pc = "storing"
  /\ ~writer.marked
  /\ frameStamps' = [frameStamps EXCEPT ![SlotOf(writer.frame)] =
                       writingStamp(writer.frame)]
  /\ writer' = [writer EXCEPT !.marked = TRUE]
  /\ UNCHANGED <<sampleBits, publishedFrameCount, copy>>

\* Relaxed: out of order it may precede the release store of the stamp.
StoreSample(c) ==
  /\ writer.pc = "storing"
  /\ InOrder => writer.marked
  /\ c \notin writer.stored
  /\ sampleBits' = [sampleBits EXCEPT ![SlotOf(writer.frame)][c] = writer.frame]
  /\ writer' = [writer EXCEPT !.stored = @ \cup {c}]
  /\ UNCHANGED <<frameStamps, publishedFrameCount, copy>>

\* Mutant: the ready stamp overtakes the samples.
MarkReadyEarly ==
  /\ writer.pc = "storing"
  /\ writer.marked
  /\ frameStamps' = [frameStamps EXCEPT ![SlotOf(writer.frame)] =
                       readyStamp(writer.frame)]
  /\ writer' = [pc |-> IF writer.frame + 1 = writer.end
                         THEN "publishing" ELSE "storing",
                frame |-> writer.frame + 1, end |-> writer.end,
                marked |-> FALSE, stored |-> {}]
  /\ UNCHANGED <<sampleBits, publishedFrameCount, copy>>

\* Release: the samples of the frame are visible before its ready stamp.
MarkReady ==
  /\ writer.pc = "storing"
  /\ writer.marked
  /\ writer.stored = Channel
  /\ frameStamps' = [frameStamps EXCEPT ![SlotOf(writer.frame)] =
                       readyStamp(writer.frame)]
  /\ writer' = [pc |-> IF writer.frame + 1 = writer.end
                         THEN "publishing" ELSE "storing",
                frame |-> writer.frame + 1, end |-> writer.end,
                marked |-> FALSE, stored |-> {}]
  /\ UNCHANGED <<sampleBits, publishedFrameCount, copy>>

Publish ==
  /\ writer.pc = "publishing"
  /\ publishedFrameCount' = writer.end
  /\ writer' = [writer EXCEPT !.pc = "idle"]
  /\ UNCHANGED <<frameStamps, sampleBits, copy>>

ContinueWrite ==
  MarkWriting \/ (\E c \in Channel : StoreSample(c)) \/ MarkReady \/ Publish

WriteStep == (\E k \in WriteSize : BeginWrite(k)) \/ ContinueWrite

-----------------------------------------------------------------------------
(***************************************************************************)
(* copyFrame(absoluteFrame, destination), called by read for frames below  *)
(* the publishedFrameCount it has loaded.                                  *)
(***************************************************************************)
Ready(frame) == frameStamps[SlotOf(frame)] = readyStamp(frame)

CheckStamp(t, frame) ==
  /\ copy[t].pc = "idle"
  /\ frame < publishedFrameCount
  /\ copy' = [copy EXCEPT ![t] =
                [IdleCopy EXCEPT !.pc = IF Ready(frame) THEN "copying"
                                                        ELSE "returning",
                                 !.frame = frame]]
  /\ UNCHANGED <<frameStamps, sampleBits, publishedFrameCount, writer>>

SampleAt(frame, c) == sampleBits[SlotOf(frame)][c]

\* Relaxed: out of order it may follow the acquire load of the re-check.
LoadSample(t, c) ==
  /\ copy[t].pc = "copying"
  /\ c \notin copy[t].loaded
  /\ copy' = [copy EXCEPT ![t] =
                [copy[t] EXCEPT !.loaded = copy[t].loaded \cup {c},
                                !.destination[c] = SampleAt(copy[t].frame, c)]]
  /\ UNCHANGED <<frameStamps, sampleBits, publishedFrameCount, writer>>

\* Mutant: no second look at the stamp.
SkipRecheck(t) ==
  /\ copy[t].pc = "copying"
  /\ copy[t].loaded = Channel
  /\ ~copy[t].rechecked
  /\ copy' = [copy EXCEPT ![t] =
                [copy[t] EXCEPT !.rechecked = TRUE, !.ok = TRUE]]
  /\ UNCHANGED <<frameStamps, sampleBits, publishedFrameCount, writer>>

RecheckStamp(t) ==
  /\ copy[t].pc = "copying"
  /\ InOrder => copy[t].loaded = Channel
  /\ ~copy[t].rechecked
  /\ copy' = [copy EXCEPT ![t] =
                [copy[t] EXCEPT !.rechecked = TRUE, !.ok = Ready(copy[t].frame)]]
  /\ UNCHANGED <<frameStamps, sampleBits, publishedFrameCount, writer>>

\* Mutant: copy again until the stamp agrees.
RetryCopy(t) ==
  /\ copy[t].pc = "copying"
  /\ copy[t].rechecked
  /\ copy[t].loaded = Channel
  /\ copy' = [copy EXCEPT ![t] =
                IF copy[t].ok
                  THEN [copy[t] EXCEPT !.pc = "returning"]
                  ELSE [copy[t] EXCEPT !.loaded = {}, !.rechecked = FALSE]]
  /\ UNCHANGED <<frameStamps, sampleBits, publishedFrameCount, writer>>

Copied(t) ==
  /\ copy[t].pc = "copying"
  /\ copy[t].rechecked
  /\ copy[t].loaded = Channel
  /\ copy' = [copy EXCEPT ![t].pc = "returning"]
  /\ UNCHANGED <<frameStamps, sampleBits, publishedFrameCount, writer>>

\* The caller takes the result; on failure it zero-fills the destination.
Return(t) ==
  /\ copy[t].pc = "returning"
  /\ copy' = [copy EXCEPT ![t] = IdleCopy]
  /\ UNCHANGED <<frameStamps, sampleBits, publishedFrameCount, writer>>

ContinueCopy(t) ==
  \/ \E c \in Channel : LoadSample(t, c)
  \/ RecheckStamp(t)
  \/ Copied(t)
  \/ Return(t)

CopyStep(t) ==
  (\E frame \in 0 .. MaxPublished : CheckStamp(t, frame)) \/ ContinueCopy(t)

StoreNext == WriteStep \/ \E t \in Copier : CopyStep(t)

StoreSpec == StoreInit /\ [][StoreNext]_storeVars

(***************************************************************************)
(* A thread that is inside copyFrame keeps running; the host may stop      *)
(* writing, and a writer may be suspended half-way through a frame.        *)
(***************************************************************************)
CopyFairness == \A t \in Copier : WF_storeVars(ContinueCopy(t))

FairStoreSpec == StoreSpec /\ CopyFairness

-----------------------------------------------------------------------------
(***************************************************************************)
(* Type correctness of the stored stamps and samples and of the two        *)
(* program states.                                                         *)
(***************************************************************************)
StoreTypeOK ==
  /\ frameStamps \in [Slot -> Nat]
  /\ sampleBits \in [Slot -> [Channel -> Nat \cup {NoFrame}]]
  /\ publishedFrameCount \in Nat
  /\ writer \in WriterState
  /\ copy \in [Copier -> CopyState]

(***************************************************************************)
(* A frame that copyFrame accepts holds, on every channel, the samples of  *)
(* the frame that was asked for: never of an older lap of the array, of a  *)
(* newer one, or a mixture, whatever the writer does during the copy.      *)
(***************************************************************************)
NoTornFrame ==
  \A t \in Copier :
    copy[t].pc = "returning" /\ copy[t].ok =>
      \A c \in Channel : copy[t].destination[c] = copy[t].frame

\* The newest frame whose slot the writer has begun to overwrite.
NewestTouched == IF writer.marked THEN writer.frame ELSE writer.frame - 1

(***************************************************************************)
(* copyFrame refuses a published frame only when the writer has already    *)
(* lapped it: a frame within the last Capacity frames of the writer is     *)
(* never reported dropped, so silence is never inserted without cause.     *)
(***************************************************************************)
NoSpuriousSilence ==
  \A t \in Copier :
    copy[t].pc = "returning" /\ ~copy[t].ok =>
      copy[t].frame + Capacity <= NewestTouched

(***************************************************************************)
(* copyFrame is wait-free: once begun it returns, even when the writer     *)
(* overwrites the frame again and again or stops half-way through it.      *)
(***************************************************************************)
CopyTerminates ==
  \A t \in Copier : copy[t].pc # "idle" ~> copy[t].pc = "idle"

-----------------------------------------------------------------------------
(***************************************************************************)
(* The inductive invariants behind the two safety properties.              *)
(***************************************************************************)

\* Where the writer stands relative to the published timeline.
WriterInv ==
  /\ publishedFrameCount <= writer.frame
  /\ writer.frame <= writer.end
  /\ writer.pc = "idle" => writer.end = publishedFrameCount
  /\ writer.pc = "storing" => writer.frame < writer.end
  /\ writer.pc = "publishing" => writer.frame = writer.end
  /\ writer.marked => writer.pc = "storing"

\* The slot s holds the whole of a frame the writer has finished.
HoldsFrame(s, frame) ==
  /\ SlotOf(frame) = s
  /\ frameStamps[s] = readyStamp(frame)
  /\ \A c \in Channel : sampleBits[s][c] = frame

BeingWritten(s) == writer.marked /\ s = SlotOf(writer.frame)

\* Every slot is untouched, whole, or marked as the one being written.
SlotInv ==
  \A s \in Slot :
    IF BeingWritten(s)
      THEN /\ frameStamps[s] = writingStamp(writer.frame)
           /\ \A c \in writer.stored : sampleBits[s][c] = writer.frame
      ELSE \/ frameStamps[s] = 0
           \/ \E frame \in 0 .. writer.frame - 1 : HoldsFrame(s, frame)

\* The writer has begun a later lap of the slot of this frame.
Overtaken(frame) ==
  \E later \in frame + 1 .. writer.frame :
    /\ SlotOf(later) = SlotOf(frame)
    /\ frameStamps[SlotOf(frame)] \in {writingStamp(later), readyStamp(later)}

\* A copy under way has only samples of its frame, or will be refused.
CopyInv ==
  \A t \in Copier :
    /\ copy[t].pc = "copying" =>
         /\ copy[t].frame < publishedFrameCount
         /\ \/ Overtaken(copy[t].frame)
            \/ /\ HoldsFrame(SlotOf(copy[t].frame), copy[t].frame)
               /\ \A c \in copy[t].loaded :
                    copy[t].destination[c] = copy[t].frame
         /\ copy[t].rechecked => copy[t].loaded = Channel
         /\ copy[t].ok => copy[t].rechecked
    /\ copy[t].pc # "idle" /\ copy[t].ok =>
         \A c \in Channel : copy[t].destination[c] = copy[t].frame

(***************************************************************************)
(* The sequence lock: with program order kept and at least two slots, an   *)
(* unmarked slot holds one whole frame, and a copy under way either has    *)
(* loaded that frame only or is bound to fail its second stamp check.      *)
(***************************************************************************)
SeqlockInv ==
  /\ WriterInv
  /\ ~writer.marked => writer.stored = {}
  /\ SlotInv
  /\ CopyInv

\* The frames that are published, or stored by the write under way.
Retainable(frame) ==
  frame < publishedFrameCount \/ writer.end <= frame + Capacity

(***************************************************************************)
(* Retention: every frame less than a lap behind the writer keeps its      *)
(* ready stamp, and a copy is refused only for a frame further behind.     *)
(***************************************************************************)
RetentionInv ==
  /\ WriterInv
  /\ \A frame \in 0 .. writer.frame - 1 :
       Retainable(frame) /\ NewestTouched < frame + Capacity => Ready(frame)
  /\ \A t \in Copier :
       /\ copy[t].pc = "copying" => copy[t].frame < publishedFrameCount
       /\ (copy[t].rechecked \/ copy[t].pc = "returning") /\ ~copy[t].ok =>
            copy[t].frame + Capacity <= NewestTouched

=============================================================================
