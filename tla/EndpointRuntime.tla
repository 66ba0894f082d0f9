--------------------------- MODULE EndpointRuntime ---------------------------
(***************************************************************************)
(* The IO state of one input device (DeviceRunState with its ring): which  *)
(* clients run, how often each was started, and the lock-free path of a    *)
(* read from the client's slot to its cursor in the ring.                  *)
(*                                                                         *)
(* start and stop run under the driver's stateMutex_, one at a time, but   *)
(* reads take no lock: so start and stop are cut where a read can see them *)
(* half done, and a read is cut at each of its loads and stores.           *)
(*                                                                         *)
(* The ring is reduced to its reader slots and the published frame count.  *)
(* The steps inside registerReader and inside the copying of frames are    *)
(* those of ReaderCursors and RealtimeAudioRing.                           *)
(***************************************************************************)
EXTENDS Integers, FiniteSets

CONSTANTS
  Client,            \* the client IDs of the host
  NoClient,          \* what a clientID field holds before its first client
  IOThread,          \* the threads on which the host calls DoIOOperation
  SlotCount,         \* maximumClientCountPerDevice, also the ring's readers
  HostDrains,        \* whether the host ends a client's reads before StopIO
  ReadSize,          \* frames a read may ask for
  MaxNesting,        \* bound on the starts of a client that is running
  MaxClaims,         \* bound on the client slots claimed in a behaviour
  MaxPublished       \* bound on the published timeline

ASSUME NoClientAssumption == NoClient \notin Client
ASSUME IOThreadAssumption == IsFiniteSet(IOThread)
ASSUME SlotCountAssumption == SlotCount \in Nat \ {0}
ASSUME HostDrainsAssumption == HostDrains \in BOOLEAN
ASSUME ReadSizeAssumption == ReadSize \subseteq Nat \ {0}
ASSUME BoundsAssumption ==
  MaxNesting \in Nat /\ MaxClaims \in Nat /\ MaxPublished \in Nat

\* clients_ and the ring's readers_ are two arrays of the same length.
Slot == 0 .. SlotCount - 1

RealtimeAudioReaderToken == [slot : Slot, generation : Nat]

\* reader holds no token before the slot is first claimed.
NoReader == [slot |-> -1, generation |-> 0]

ClientSlot ==
  [active : BOOLEAN, clientID : Client \cup {NoClient}, referenceCount : Nat,
   reader : RealtimeAudioReaderToken \cup {NoReader}, readsInFlight : Nat]

RingReader == [active : BOOLEAN, generation : Nat, cursor : Nat]

ControlState == [pc : {"idle", "publishing", "unregistering"}, slot : Slot]

IOState ==
  [pc : {"idle", "scanning", "matching", "entering", "checking", "validating",
         "reading", "storing", "leaving", "silent"},
   client : Client \cup {NoClient}, index : 0 .. SlotCount,
   reader : RealtimeAudioReaderToken \cup {NoReader},
   frameCount : Nat, cursor : Nat, steady : BOOLEAN]

VARIABLES
  clients,             \* the client slots
  runningClientCount,  \* what the device reports, and what blocks a catalog
  control,             \* the start or stop under the state mutex
  ringReaders,         \* the ring's reader slots
  published,           \* the ring's published frame count
  io,                  \* per IO thread, its execution of readInput
  owed,                \* per client, starts that were not stopped yet
  position,            \* per ring slot, where its owner's reads left it
  claims               \* how many client slots have been claimed

runtimeVars == <<clients, runningClientCount, control, ringReaders, published, io,
                 owed, position, claims>>

IdleIO ==
  [pc |-> "idle", client |-> NoClient, index |-> 0, reader |-> NoReader,
   frameCount |-> 0, cursor |-> 0, steady |-> FALSE]

RuntimeInit ==
  /\ clients = [s \in Slot |->
                  [active |-> FALSE, clientID |-> NoClient, referenceCount |-> 0,
                   reader |-> NoReader, readsInFlight |-> 0]]
  /\ runningClientCount = 0
  /\ control = [pc |-> "idle", slot |-> 0]
  /\ ringReaders = [s \in Slot |->
                      [active |-> FALSE, generation |-> 1, cursor |-> 0]]
  /\ published = 0
  /\ io = [t \in IOThread |-> IdleIO]
  /\ owed = [c \in Client |-> 0]
  /\ position = [s \in Slot |-> 0]
  /\ claims = 0

tokenIsValid(token) ==
  /\ ringReaders[token.slot].active
  /\ ringReaders[token.slot].generation = token.generation

First(slots) == CHOOSE s \in slots : \A other \in slots : s <= other

Runs(s, client) == clients[s].active /\ clients[s].clientID = client

RunningSlots(client) == {s \in Slot : Runs(s, client)}

-----------------------------------------------------------------------------
(***************************************************************************)
(* start(clientID, ring)                                                   *)
(***************************************************************************)
StartAgain(client) ==
  /\ control.pc = "idle"
  /\ RunningSlots(client) # {}
  /\ owed[client] < MaxNesting
  /\ clients' = [clients EXCEPT ![First(RunningSlots(client))].referenceCount = @ + 1]
  /\ owed' = [owed EXCEPT ![client] = @ + 1]
  /\ UNCHANGED <<runningClientCount, control, ringReaders, published, io,
                 position, claims>>

\* Mutant: reuse a slot whatever reads are inside it.
InactiveSlots == {s \in Slot : ~clients[s].active}

FreeSlots == {s \in Slot : ~clients[s].active /\ clients[s].readsInFlight = 0}

FreeRingSlots == {s \in Slot : ~ringReaders[s].active}

\* A full device or a full ring refuses the client and changes nothing.
StartRefused == FreeSlots = {} \/ FreeRingSlots = {}

\* Registers a reader and fills the slot in, before it is marked active.
ClaimSlot(client) ==
  LET slot == First(FreeSlots)
      ringSlot == First(FreeRingSlots)
  IN  /\ control.pc = "idle"
      /\ RunningSlots(client) = {}
      /\ ~StartRefused
      /\ claims < MaxClaims
      /\ ringReaders' = [ringReaders EXCEPT ![ringSlot] =
                           [ringReaders[ringSlot] EXCEPT !.active = TRUE,
                                                         !.cursor = published]]
      /\ position' = [position EXCEPT ![ringSlot] = published]
      /\ clients' = [clients EXCEPT ![slot] =
                       [clients[slot] EXCEPT
                          !.clientID = client,
                          !.referenceCount = 1,
                          !.reader = [slot |-> ringSlot,
                                      generation |-> ringReaders[ringSlot].generation]]]
      /\ control' = [pc |-> "publishing", slot |-> slot]
      /\ claims' = claims + 1
      /\ UNCHANGED <<runningClientCount, published, io, owed>>

PublishSlot ==
  LET client == clients[control.slot].clientID
  IN  /\ control.pc = "publishing"
      /\ clients' = [clients EXCEPT ![control.slot].active = TRUE]
      /\ runningClientCount' = runningClientCount + 1
      /\ owed' = [owed EXCEPT ![client] = @ + 1]
      /\ control' = [control EXCEPT !.pc = "idle"]
      /\ UNCHANGED <<ringReaders, published, io, position, claims>>

-----------------------------------------------------------------------------
(***************************************************************************)
(* stop(clientID, ring).  A client that does not run is refused.           *)
(***************************************************************************)
Reading(client) == \E t \in IOThread : io[t].pc # "idle" /\ io[t].client = client

\* A read that outlives a stop of its client may end in silence.
Unsteady(client) ==
  [t \in IOThread |-> IF io[t].client = client
                        THEN [io[t] EXCEPT !.steady = FALSE] ELSE io[t]]

StopOnce(client) ==
  /\ control.pc = "idle"
  /\ RunningSlots(client) # {}
  /\ clients[First(RunningSlots(client))].referenceCount > 1
  /\ clients' = [clients EXCEPT ![First(RunningSlots(client))].referenceCount = @ - 1]
  /\ owed' = [owed EXCEPT ![client] = @ - 1]
  /\ UNCHANGED <<runningClientCount, control, ringReaders, published, io,
                 position, claims>>

\* Mutant: the first stop ends all starts.
DeactivateAtOnce(client) ==
  LET slot == First(RunningSlots(client))
  IN  /\ control.pc = "idle"
      /\ RunningSlots(client) # {}
      /\ HostDrains => ~Reading(client)
      /\ clients' = [clients EXCEPT ![slot].active = FALSE]
      /\ io' = Unsteady(client)
      /\ owed' = [owed EXCEPT ![client] = @ - 1]
      /\ control' = [pc |-> "unregistering", slot |-> slot]
      /\ UNCHANGED <<runningClientCount, ringReaders, published, position, claims>>

Deactivate(client) ==
  LET slot == First(RunningSlots(client))
  IN  /\ control.pc = "idle"
      /\ RunningSlots(client) # {}
      /\ clients[slot].referenceCount <= 1
      /\ HostDrains => ~Reading(client)
      /\ clients' = [clients EXCEPT ![slot].active = FALSE]
      /\ io' = Unsteady(client)
      /\ owed' = [owed EXCEPT ![client] = @ - 1]
      /\ control' = [pc |-> "unregistering", slot |-> slot]
      /\ UNCHANGED <<runningClientCount, ringReaders, published, position, claims>>

\* Mutant: keep the reader slot of the ring.
ForgetReader ==
  /\ control.pc = "unregistering"
  /\ runningClientCount' = runningClientCount - 1
  /\ control' = [control EXCEPT !.pc = "idle"]
  /\ UNCHANGED <<clients, ringReaders, published, io, owed, position, claims>>

\* unregisterReader: an invalid token is ignored.
UnregisterReader ==
  LET token == clients[control.slot].reader
  IN  /\ control.pc = "unregistering"
      /\ ringReaders' =
           IF tokenIsValid(token)
             THEN [ringReaders EXCEPT ![token.slot] =
                     [ringReaders[token.slot] EXCEPT !.active = FALSE,
                                                     !.generation = @ + 1]]
             ELSE ringReaders
      /\ runningClientCount' = runningClientCount - 1
      /\ control' = [control EXCEPT !.pc = "idle"]
      /\ UNCHANGED <<clients, published, io, owed, position, claims>>

-----------------------------------------------------------------------------
(***************************************************************************)
(* writeMix of the other device of the pair publishes frames in the ring.  *)
(***************************************************************************)
WriteMix ==
  /\ published < MaxPublished
  /\ published' = published + 1
  /\ UNCHANGED <<clients, runningClientCount, control, ringReaders, io, owed,
                 position, claims>>

(***************************************************************************)
(* readInput(client): scan the slots, enter the client's slot, check it    *)
(* again, read the ring with its token, and leave the slot.  The host      *)
(* calls it for clients it has started; unless it drains them it may do so *)
(* while it stops them.                                                    *)
(***************************************************************************)
StepIO(t, state) ==
  /\ io' = [io EXCEPT ![t] = state]
  /\ UNCHANGED <<runningClientCount, control, published, owed, claims>>

BeginRead(t, client, frameCount) ==
  /\ io[t].pc = "idle"
  /\ ~Reading(client)
  /\ owed[client] > 0
  /\ StepIO(t, [IdleIO EXCEPT !.pc = "scanning", !.client = client,
                              !.frameCount = frameCount, !.steady = TRUE])
  /\ UNCHANGED <<clients, ringReaders, position>>

NextSlot(t) == [io[t] EXCEPT !.pc = "scanning", !.index = @ + 1]

ScanSlot(t) ==
  /\ io[t].pc = "scanning"
  /\ io[t].index \in Slot
  /\ StepIO(t, IF clients[io[t].index].active
                 THEN [io[t] EXCEPT !.pc = "matching"] ELSE NextSlot(t))
  /\ UNCHANGED <<clients, ringReaders, position>>

\* Mutant: give up at the first slot of another client.
MatchOrGiveUp(t) ==
  /\ io[t].pc = "matching"
  /\ StepIO(t, IF clients[io[t].index].clientID = io[t].client
                 THEN [io[t] EXCEPT !.pc = "entering"]
                 ELSE [io[t] EXCEPT !.pc = "silent"])
  /\ UNCHANGED <<clients, ringReaders, position>>

\* clientID is no atomic: a start that reuses the slot may race with this
\* load, which then sees the old or the new client.
MatchClient(t) ==
  /\ io[t].pc = "matching"
  /\ StepIO(t, IF clients[io[t].index].clientID = io[t].client
                 THEN [io[t] EXCEPT !.pc = "entering"] ELSE NextSlot(t))
  /\ UNCHANGED <<clients, ringReaders, position>>

ScanFails(t) ==
  /\ io[t].pc = "scanning"
  /\ io[t].index = SlotCount
  /\ StepIO(t, [io[t] EXCEPT !.pc = "silent"])
  /\ UNCHANGED <<clients, ringReaders, position>>

EnterSlot(t) ==
  /\ io[t].pc = "entering"
  /\ clients' = [clients EXCEPT ![io[t].index].readsInFlight = @ + 1]
  /\ StepIO(t, [io[t] EXCEPT !.pc = "checking"])
  /\ UNCHANGED <<ringReaders, position>>

\* Mutant: leave the slot twice when the second check fails.
CheckAndLeaveTwice(t) ==
  LET slot == io[t].index
  IN  /\ io[t].pc = "checking"
      /\ IF Runs(slot, io[t].client) /\ clients[slot].reader # NoReader
           THEN /\ StepIO(t, [io[t] EXCEPT !.pc = "validating",
                                           !.reader = clients[slot].reader])
                /\ UNCHANGED clients
           ELSE /\ clients' = [clients EXCEPT ![slot].readsInFlight = @ - 1]
                /\ StepIO(t, [io[t] EXCEPT !.pc = "leaving"])
      /\ UNCHANGED <<ringReaders, position>>

CheckAgain(t) ==
  LET slot == io[t].index
  IN  /\ io[t].pc = "checking"
      /\ IF Runs(slot, io[t].client) /\ clients[slot].reader # NoReader
           THEN /\ StepIO(t, [io[t] EXCEPT !.pc = "validating",
                                           !.reader = clients[slot].reader])
                /\ UNCHANGED clients
           ELSE /\ clients' = [clients EXCEPT ![slot].readsInFlight = @ - 1]
                /\ StepIO(t, [io[t] EXCEPT !.pc = "silent"])
      /\ UNCHANGED <<ringReaders, position>>

ValidateToken(t) ==
  /\ io[t].pc = "validating"
  /\ StepIO(t, [io[t] EXCEPT !.pc = IF tokenIsValid(io[t].reader)
                                      THEN "reading" ELSE "leaving"])
  /\ UNCHANGED <<clients, ringReaders, position>>

Smaller(a, b) == IF a < b THEN a ELSE b

\* The cursor the read will store: held back to the timeline, then moved on
\* by what there is to read.
LoadCursor(t) ==
  LET cursor == ringReaders[io[t].reader.slot].cursor
  IN  /\ io[t].pc = "reading"
      /\ StepIO(t, [io[t] EXCEPT !.pc = "storing",
                                 !.cursor = Smaller(cursor + io[t].frameCount,
                                                    published)])
      /\ UNCHANGED <<clients, ringReaders, position>>

StoreCursor(t) ==
  LET slot == io[t].reader.slot
  IN  /\ io[t].pc = "storing"
      /\ ringReaders' = [ringReaders EXCEPT ![slot].cursor = io[t].cursor]
      /\ position' = IF tokenIsValid(io[t].reader)
                       THEN [position EXCEPT ![slot] = io[t].cursor] ELSE position
      /\ StepIO(t, [io[t] EXCEPT !.pc = "leaving"])
      /\ UNCHANGED clients

LeaveSlot(t) ==
  /\ io[t].pc = "leaving"
  /\ clients' = [clients EXCEPT ![io[t].index].readsInFlight = @ - 1]
  /\ StepIO(t, IdleIO)
  /\ UNCHANGED <<ringReaders, position>>

\* The destination was zero-filled: the client is not running.
ReturnSilence(t) ==
  /\ io[t].pc = "silent"
  /\ StepIO(t, IdleIO)
  /\ UNCHANGED <<clients, ringReaders, position>>

ContinueRead(t) ==
  \/ ScanSlot(t) \/ MatchClient(t) \/ ScanFails(t) \/ EnterSlot(t)
  \/ CheckAgain(t) \/ ValidateToken(t) \/ LoadCursor(t) \/ StoreCursor(t)
  \/ LeaveSlot(t) \/ ReturnSilence(t)

ContinueControl == PublishSlot \/ UnregisterReader

RuntimeNext ==
  \/ \E c \in Client : StartAgain(c) \/ ClaimSlot(c) \/ StopOnce(c) \/ Deactivate(c)
  \/ ContinueControl
  \/ WriteMix
  \/ \E t \in IOThread :
       \/ \E c \in Client, k \in ReadSize : BeginRead(t, c, k)
       \/ ContinueRead(t)

RuntimeSpec == RuntimeInit /\ [][RuntimeNext]_runtimeVars

-----------------------------------------------------------------------------
(***************************************************************************)
(* Type correctness of the slots, the ring readers and the threads.        *)
(***************************************************************************)
RuntimeTypeOK ==
  /\ clients \in [Slot -> ClientSlot]
  /\ runningClientCount \in Nat
  /\ control \in ControlState
  /\ ringReaders \in [Slot -> RingReader]
  /\ published \in 0 .. MaxPublished
  /\ io \in [IOThread -> IOState]
  /\ owed \in [Client -> Nat]
  /\ position \in [Slot -> Nat]
  /\ claims \in 0 .. MaxClaims

(***************************************************************************)
(* Starts nest: a client runs, in one slot, exactly while it has been      *)
(* started more often than stopped, and the slot counts the difference.    *)
(* The device reports as many running clients as have a slot; while a stop *)
(* is half done it still counts the client.  A catalog is refused by this  *)
(* count, so it may never be too low.                                      *)
(***************************************************************************)
StartsAreNested ==
  \A c \in Client :
    /\ Cardinality(RunningSlots(c)) = (IF owed[c] > 0 THEN 1 ELSE 0)
    /\ \A s \in RunningSlots(c) : clients[s].referenceCount = owed[c]

RunningCountIsExact ==
  runningClientCount =
    Cardinality({s \in Slot : clients[s].active})
      + (IF control.pc = "unregistering" THEN 1 ELSE 0)

StartsBalanceStops == StartsAreNested /\ RunningCountIsExact

(***************************************************************************)
(* A reader slot of the ring is taken exactly for each client slot that is *)
(* active, being filled in or being stopped, so registerReader never fails *)
(* for a client that found a slot, and no reader slot leaks.               *)
(***************************************************************************)
ReadersMatchClients ==
  LET engaged == {s \in Slot : clients[s].active}
                   \cup (IF control.pc = "idle" THEN {} ELSE {control.slot})
  IN  /\ \A s \in engaged : tokenIsValid(clients[s].reader)
      /\ \A s, u \in engaged :
           clients[s].reader.slot = clients[u].reader.slot => s = u
      /\ \A r \in Slot :
           ringReaders[r].active => \E s \in engaged : clients[s].reader.slot = r

Inside(t, s) ==
  /\ io[t].pc \in {"validating", "reading", "storing", "leaving"}
  /\ io[t].index = s

(***************************************************************************)
(* The plain fields of a client slot are never written while a read that   *)
(* has passed the second check is inside it: readsInFlight keeps start     *)
(* from reusing the slot, even when its client was stopped meanwhile.      *)
(***************************************************************************)
NoWriteUnderRead ==
  [][\A t \in IOThread, s \in Slot :
       Inside(t, s) =>
         /\ clients'[s].clientID = clients[s].clientID
         /\ clients'[s].reader = clients[s].reader]_runtimeVars

(***************************************************************************)
(* A client that keeps running while it reads is never told that it does   *)
(* not run, whatever the other clients start and stop around it.           *)
(***************************************************************************)
SilenceOnlyWhenStopped ==
  \A t \in IOThread : io[t].pc = "silent" => ~io[t].steady

(***************************************************************************)
(* "Each reader owns an independent cursor, so one client cannot consume   *)
(* another client's audio" (RealtimeAudioRing.hpp:35-36): the cursor of a  *)
(* running client stands where its own reads left it.                      *)
(***************************************************************************)
ClientsKeepTheirCursors ==
  \A s \in Slot :
    clients[s].active =>
      LET slot == clients[s].reader.slot
      IN  ringReaders[slot].cursor = position[slot]

=============================================================================
