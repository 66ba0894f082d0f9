-------------------------- MODULE RealtimeAudioRing --------------------------
(***************************************************************************)
(* RealtimeAudioRing as a whole: the frame store, the reader slots, and    *)
(* read(), which follows a reader's cursor along the published timeline    *)
(* and copies the frames it finds.  A Copier is a thread executing read.   *)
(***************************************************************************)
EXTENDS FrameStore, ReaderCursors

CONSTANTS
  ReadSize,               \* the frame counts the caller of read may pass
  DrainBeforeUnregister   \* whether the caller keeps the reads of a token and
                          \* its unregistration apart

ASSUME ReadSizeAssumption == ReadSize \subseteq Nat \ {0}
ASSUME DrainAssumption == DrainBeforeUnregister \in BOOLEAN

ReadState ==
  [pc : {"idle", "validated", "loaded", "copying"},
   token : RealtimeAudioReaderToken, frameCount : Nat, published : Nat,
   from : Nat, cursor : Nat, readable : Nat, offset : Nat,
   audioFrames : Nat, droppedFrames : Nat]

NoToken == [slot |-> 0, generation |-> 0]

IdleRead ==
  [pc |-> "idle", token |-> NoToken, frameCount |-> 0, published |-> 0,
   from |-> 0, cursor |-> 0, readable |-> 0, offset |-> 0,
   audioFrames |-> 0, droppedFrames |-> 0]

(***************************************************************************)
(* What the owner of a slot has been told since it registered: the frame   *)
(* it joined at, the audio and dropped frames its reads reported, and the  *)
(* newest frame that reached it.  The code keeps no such account.          *)
(***************************************************************************)
Account == [start : Nat, audio : Nat, dropped : Nat, newest : Nat \cup {NoFrame}]

VARIABLES
  call,      \* per thread, its execution of read
  account    \* per slot, the account of its present owner

ringVars == <<storeVars, cursorVars, call, account>>

NewAccount(position) ==
  [start |-> position, audio |-> 0, dropped |-> 0, newest |-> NoFrame]

RingInit ==
  /\ StoreInit
  /\ CursorsInit
  /\ call = [t \in Copier |-> IdleRead]
  /\ account = [s \in ReaderSlot |-> NewAccount(0)]

-----------------------------------------------------------------------------
RingWrite == WriteStep /\ UNCHANGED <<cursorVars, call, account>>

InUse(token) == \E t \in Copier : call[t].pc # "idle" /\ call[t].token = token

BeingGivenBack(token) ==
  \E p \in Controller :
    control[p].pc = "deactivating" /\ control[p].slot = token.slot

StartControl(p) ==
  /\ \/ BeginRegister(p)
     \/ \E token \in held \cup retired :
          /\ DrainBeforeUnregister => ~InUse(token)
          /\ BeginUnregister(p, token)
  /\ UNCHANGED <<storeVars, call, account>>

RingControl(p) ==
  /\ ContinueControl(p, publishedFrameCount)
  /\ account' = [s \in ReaderSlot |->
                   IF control[p].pc = "positioned" /\ control[p].slot = s
                     THEN NewAccount(control[p].position) ELSE account[s]]
  /\ UNCHANGED <<storeVars, call>>

(***************************************************************************)
(* read(token, destination, frameCount).  A zero count, a null destination *)
(* and an invalid token change nothing in the ring: the first two return,  *)
(* the last fills the destination with silence.  A client reads from one   *)
(* thread at a time.                                                       *)
(***************************************************************************)
BeginRead(t, token, frameCount) ==
  /\ call[t].pc = "idle"
  /\ token \in held \cup retired
  /\ ~InUse(token)
  /\ DrainBeforeUnregister => ~BeingGivenBack(token)
  /\ tokenIsValid(token)
  /\ call' = [call EXCEPT ![t] =
                [IdleRead EXCEPT !.pc = "validated", !.token = token,
                                 !.frameCount = frameCount]]
  /\ UNCHANGED <<storeVars, cursorVars, account>>

LoadPublished(t) ==
  /\ call[t].pc = "validated"
  /\ call' = [call EXCEPT ![t] =
                [call[t] EXCEPT !.pc = "loaded", !.published = publishedFrameCount]]
  /\ UNCHANGED <<storeVars, cursorVars, account>>

Smaller(a, b) == IF a < b THEN a ELSE b
Larger(a, b) == IF a < b THEN b ELSE a

\* Mutants: ignore the cursor of a reader; keep one frame too few.
AlwaysEarliest(cursor, published) == Larger(published - Capacity, 0)
OneFrameShort(cursor, published) ==
  Smaller(Larger(cursor, published - Capacity + 1), published)

\* A reader more than a lap behind skips to the earliest frame kept; one
\* ahead of the timeline is held back to its end.
ClampedCursor(cursor, published) ==
  Smaller(Larger(cursor, published - Capacity), published)

LoadCursor(t) ==
  LET from == readers[call[t].token.slot].cursor
      published == call[t].published
      cursor == ClampedCursor(from, published)
  IN  /\ call[t].pc = "loaded"
      /\ call' = [call EXCEPT ![t] =
                    [call[t] EXCEPT
                       !.pc = "copying",
                       !.from = from,
                       !.cursor = cursor,
                       !.droppedFrames = Larger(cursor - from, 0),
                       !.readable = Smaller(published - cursor, call[t].frameCount)]]
      /\ UNCHANGED <<storeVars, cursorVars, account>>

CopyNextFrame(t) ==
  /\ call[t].pc = "copying"
  /\ call[t].offset < call[t].readable
  /\ CheckStamp(t, call[t].cursor + call[t].offset)
  /\ UNCHANGED <<cursorVars, call, account>>

CopyOn(t) ==
  /\ (\E c \in Channel : LoadSample(t, c)) \/ RecheckStamp(t) \/ Copied(t)
  /\ UNCHANGED <<cursorVars, call, account>>

\* Mutant: ask again for a frame that was refused.
RetryRefused(t) ==
  /\ Return(t)
  /\ call' = [call EXCEPT ![t].offset = IF copy[t].ok THEN @ + 1 ELSE @]
  /\ UNCHANGED <<cursorVars, account>>

\* An accepted frame is audio; a refused one is zero-filled and dropped.
CountFrame(t) ==
  LET slot == call[t].token.slot
  IN  /\ Return(t)
      /\ IF copy[t].ok
           THEN /\ call' = [call EXCEPT ![t] =
                              [call[t] EXCEPT !.offset = @ + 1, !.audioFrames = @ + 1]]
                /\ account' = [account EXCEPT ![slot].newest = copy[t].frame]
           ELSE /\ call' = [call EXCEPT ![t] =
                              [call[t] EXCEPT !.offset = @ + 1, !.droppedFrames = @ + 1]]
                /\ UNCHANGED account
      /\ UNCHANGED cursorVars

\* Mutant: advance by what was asked for instead of what was there.
StoreRequested(t) ==
  LET slot == call[t].token.slot
  IN  /\ call[t].pc = "copying"
      /\ call[t].offset = call[t].readable
      /\ readers' = [readers EXCEPT ![slot].cursor =
                       call[t].cursor + call[t].frameCount]
      /\ account' = [account EXCEPT ![slot] =
                       [account[slot] EXCEPT !.audio = @ + call[t].audioFrames,
                                             !.dropped = @ + call[t].droppedFrames]]
      /\ call' = [call EXCEPT ![t] = IdleRead]
      /\ UNCHANGED <<storeVars, control, held, retired, registrations>>

\* Fills the rest with silence, stores the cursor and reports the counts.
StoreCursor(t) ==
  LET slot == call[t].token.slot
  IN  /\ call[t].pc = "copying"
      /\ call[t].offset = call[t].readable
      /\ readers' = [readers EXCEPT ![slot].cursor =
                       call[t].cursor + call[t].readable]
      /\ account' = [account EXCEPT ![slot] =
                       [account[slot] EXCEPT !.audio = @ + call[t].audioFrames,
                                             !.dropped = @ + call[t].droppedFrames]]
      /\ call' = [call EXCEPT ![t] = IdleRead]
      /\ UNCHANGED <<storeVars, control, held, retired, registrations>>

ContinueRead(t) ==
  \/ LoadPublished(t) \/ LoadCursor(t) \/ CopyNextFrame(t) \/ CopyOn(t)
  \/ CountFrame(t) \/ StoreCursor(t)

RingNext ==
  \/ RingWrite
  \/ \E p \in Controller : StartControl(p) \/ RingControl(p)
  \/ \E t \in Copier :
       \/ \E token \in held \cup retired, k \in ReadSize : BeginRead(t, token, k)
       \/ ContinueRead(t)

RingSpec == RingInit /\ [][RingNext]_ringVars

(***************************************************************************)
(* A read that has begun and a control operation that has begun keep       *)
(* running.  Nothing obliges the host to write, to read or to register.    *)
(***************************************************************************)
RingFairness ==
  /\ \A t \in Copier : WF_ringVars(ContinueRead(t))
  /\ \A p \in Controller : WF_ringVars(RingControl(p))

FairRingSpec == RingSpec /\ RingFairness

-----------------------------------------------------------------------------
(***************************************************************************)
(* Type correctness of the whole ring.                                     *)
(***************************************************************************)
RingTypeOK ==
  /\ StoreTypeOK
  /\ CursorsTypeOK
  /\ call \in [Copier -> ReadState]
  /\ account \in [ReaderSlot -> Account]

Owned(slot) == \E token \in held : token.slot = slot

(***************************************************************************)
(* Each reader owns an independent cursor: it stands where the owner's own *)
(* reads have taken it, every frame passed having been reported to the     *)
(* owner once, as audio or as dropped.  No other reader, and no earlier    *)
(* owner of the slot, moves it.                                            *)
(***************************************************************************)
IndependentCursor ==
  \A s \in ReaderSlot :
    Owned(s) =>
      readers[s].cursor = account[s].start + account[s].audio + account[s].dropped

(***************************************************************************)
(* A reader hears frames in the order of the timeline and none twice, even *)
(* when it is lapped between or during its reads, and none published       *)
(* before it registered.                                                   *)
(***************************************************************************)
HeardInOrder ==
  \A t \in Copier :
    call[t].pc # "idle" /\ copy[t].pc = "returning" /\ copy[t].ok =>
      /\ account[call[t].token.slot].newest < copy[t].frame
      /\ account[call[t].token.slot].start <= copy[t].frame

(***************************************************************************)
(* read reports dropped frames only to a reader that the writer has lapped *)
(* since the position its previous read, or its registration, left it at.  *)
(***************************************************************************)
DropsOnlyWhenLapped ==
  \A t \in Copier :
    call[t].droppedFrames > 0 => call[t].from + Capacity <= NewestTouched

Joining(slot) ==
  \E p \in Controller : control[p].pc = "positioned" /\ control[p].slot = slot

JoinedBy(slot) ==
  CHOOSE p \in Controller :
    control[p].pc = "positioned" /\ control[p].slot = slot

ListenerOf(slot) ==
  CASE Owned(slot) ->
         [phase |-> "listening", position |-> readers[slot].cursor,
          audio |-> account[slot].audio, dropped |-> account[slot].dropped]
    [] Joining(slot) ->
         [phase |-> "joining", position |-> control[JoinedBy(slot)].position,
          audio |-> 0, dropped |-> 0]
    [] OTHER ->
         [phase |-> "away", position |-> 0, audio |-> 0, dropped |-> 0]

Timeline == INSTANCE AudioTimeline WITH
  Listener <- ReaderSlot,
  timeline <- publishedFrameCount,
  listeners <- [s \in ReaderSlot |-> ListenerOf(s)]

(***************************************************************************)
(* The ring implements AudioTimeline: whatever the slots, the stamps and   *)
(* the threads do, each owner of a slot is a listener of its own.          *)
(***************************************************************************)
ImplementsTimeline == Timeline!TimelineSpec

(***************************************************************************)
(* read and the control operations are wait-free: each returns although    *)
(* the writer keeps overwriting or stops half-way through a frame.         *)
(***************************************************************************)
ReadTerminates ==
  /\ \A t \in Copier : call[t].pc # "idle" ~> call[t].pc = "idle"
  /\ \A p \in Controller : control[p].pc # "idle" ~> control[p].pc = "idle"

=============================================================================
