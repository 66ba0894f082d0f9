# A TLA+ model of RilliyaVADriver

RilliyaVADriver is a macOS Audio Server Plug-in. For every *endpoint* of a catalog it publishes a
visible device and a hidden companion; what is played into the output device of the pair is heard
by every client of the input device. This directory models the driver's core logic in TLA+, checks
it with TLC on small instances, and proves with TLAPS that every safety property these runs find
to hold does so for all of them.

## Inventory

| Component | State | Operations | Interacts with |
|---|---|---|---|
| Frame storage (`RealtimeAudioRing.cpp`) | samples, a stamp per frame, published count | `write`, `copyFrame` | one writing IO thread, any number of reading ones; atomics only |
| Reader slots (`RealtimeAudioRing.cpp`) | per slot: active, generation, cursor | `registerReader`, `unregisterReader`, `tokenIsValid` | control threads against readers; atomics only |
| `RealtimeAudioRing` | the two above | `read` | called by `EndpointRuntime` |
| `EndpointRuntime` (`DriverRuntime.cpp`) | client slots and their counts, per device | `startIO`, `stopIO`, `readInput`, `writeMix` | start and stop under `stateMutex_`, reads and writes without a lock |
| `EndpointRegistry` | identities and their slots | `replace`, `findObject`, `findDeviceByUID` | under `stateMutex_` |
| `DriverRuntimeRegistry` (`DriverRuntime.cpp`) | the runtimes, published as atomic pointers | `replace`, `runtimeForObject` | replaced under `stateMutex_`, looked up without |
| `DriverState` (`AudioServerPlugInDriver.cpp`) | the catalog, the host, two mutexes | `initialize`, `setCatalog`, `startIO`, `stopIO`, `doIO`, property queries | the host: storage, notifications, threads |
| `EndpointClock` (`AudioServerPlugInDriver.cpp`) | reference count, rate, anchor, seed | `configure`, `start`, `stop`, `timestamp` | started under `stateMutex_`, read without |
| `DriverCatalogCodec` | none | `decodeDriverCatalog`, `createDriverCatalogPropertyList` | called by `DriverState`, before and after storage |
| Property surface (`AudioServerPlugInDriver.cpp`) | none of its own | `hasProperty`, sizes, data, settability of every property | called by the host, between any two catalogs |
| Plug-in factory, COM interface | a reference count that frees nothing | factory, `QueryInterface` | called once by the host |
| Product configuration, scripts | none at run time | generation, builds | – |

What is hard here: a sequence lock of relaxed and acquire/release atomics; reads that outlive
their client; slots, tokens and object IDs that are reused; a catalog that is published before it
is stored and must be undone when storing fails, while clients start devices; lock-free lookups of
objects that a catalog destroys; a host that learns the devices in many separate calls while
catalogs overtake it; property tables kept in step by hand; a decoder and a registry that compare
names by different rules; the end of coreaudiod at any moment.

What makes each component correct:

* *Frame storage*: no torn frame; no dropped frame without a lap; copying is wait-free.
* *Reader slots*: a token is valid from its registration until it is given back, and never after.
* *Ring*: cursors are independent; audio is heard in order, once; drops are accounted for.
* *EndpointRuntime*: starts and stops balance; the count that blocks catalogs is right; slots are
  not reused under a read; no reader slot leaks; a running client is not told it is not running.
* *EndpointRegistry*: slots are distinct, stable while an identity stays, and lead back to it.
* *Property surface*: what is claimed is answered, with as many bytes as were announced; the objects
  form one tree; a host that has taken up its notifications knows the devices as they are, unless a
  catalog failed to be stored, which is not announced.
* *Codec*: what is decoded can be published, and comes back from storage as it was; what is refused
  is refused for its first fault and yields no part of a catalog.
* *DriverState*: the catalog, the devices, the clocks, the storage and the host's view agree
  whenever they should; storage never goes back; no runtime is destroyed under an IO cycle.

`PROJECT.json` lists the hazards at their lines, each with the properties that would catch it.

## Modules

`FrameStore` and `ReaderCursors` are composed by `RealtimeAudioRing`, which implements
`AudioTimeline`. `EndpointRuntime` stands above the ring and reduces it to its reader slots.
`DriverState` extends `EndpointRegistry` and reduces a runtime to who started it, a clock to its
reference count and rate; `EndpointClock` has the whole clock. `PropertySurface` extends
`EndpointRegistry` too, and adds the host's walk over the devices; it implements the registry, which
is checked and proved through it. `DriverCatalogCodec` stands alone: it is what lies before
`setCatalog` and behind storage.

**`FrameStore`** – the array of frames, the one `write` and any number of `copyFrame`s. A step is
one access to shared memory. A sample is the number of the frame that stored it, so a torn frame
is one whose samples differ from the frame asked for. With `InOrder = TRUE` accesses become
visible in program order, as on x86_64. With `InOrder = FALSE` a relaxed store may precede the
release store before it, and a relaxed load may follow the acquire load after it, which is what
the C++ orders in the code permit and what arm64 may do.

**`ReaderCursors`** – `registerReader` and `unregisterReader`, a step per access to a slot:
claiming, loading the position, storing the cursor; deactivating, advancing the generation.
`Serialized` says whether control operations exclude each other, as `stateMutex_` makes them.

**`RealtimeAudioRing`** – `read` as the steps validate, load the published count, load and clamp
the cursor, copy frame after frame (through the actions of `FrameStore`), store the cursor. The
variable `account` is history: what a slot's owner was told since it registered.

**`AudioTimeline`** – the abstract ring: a timeline that grows, listeners that pass over it at
their own pace and are told of each frame once, as audio or as dropped.

**`EndpointRuntime`** – `DeviceRunState::start`, `stop` and `read` of an input device. Start and
stop run one at a time, but are cut where a read can see them half done; a read is cut at each
load and store, from the scan of the client slots to the cursor of the ring and back. `owed` and
`position` are history. `HostDrains` says whether the host ends a client's reads before StopIO.
Instance for TLC: `MCEndpointRuntime` (symmetry of clients and threads).

**`EndpointRegistry`** – `replace`, the object IDs and the UIDs. A definition is its identity, its
name up to case and its direction; the UIDs name both devices of the pair after the identity and
the way they face. An allocation is a function from identities to slots; the first free slots go to
the new identities in order, which `NewSlot` says by counting. `findObject` searches,
`endpointSlot` divides; `findDeviceByUID` compares both UIDs of every endpoint.

**`PropertySurface`** – what the driver answers. For the plug-in, a device and a stream there are
three tables each, as in the code: the properties it has (`hasProperty`), their sizes
(`SizeAnswer`) and their data (`DataAnswer`). Values that name or describe an object (IDs, UIDs,
direction, owner, related devices, streams in a scope) are kept; the others are known by their
selector. The actions are those of `setCatalog` and of the host's walk.

`setCatalog` publishes a catalog (`Publish`) and releases `stateMutex_` while the host stores it.
If the host does, `notifyDeviceListChanged` follows. If it does not, the catalog is undone
(`RollBack`: the endpoints in `previous` are published again, in whatever slots are free), or stays
because that is refused (`RollBackRefused`), and nothing is announced in either case. `setting` says
that one of the three is outstanding.

The walk is the driver's own test's (`AudioServerPlugInDriverTests.cpp:312-319`): the device list
with the room it announced, then for each device its UID and its input streams, each in three
calls: has it the property (`AskProperty`), how large is it (`AskSize`, `GetSize`), the data
(`AskData`, `GetData`). The last two calls look the object up twice, once in the `hasProperty` they
repeat and once for the answer, both under `stateMutex_` but not under one hold of it; each look is
a step, and a catalog may be published or undone between any two. A device that has gone is
answered `notClaimed`, `unknownProperty` or `badObject` according to the look that misses it, and one
whose ID now names a device of another direction `illegalOperation`, when no room was made for the
stream there is now. A refusal ends the walk and the host then publishes nothing. `view` is what it
has learned. `before` and `untold` are history: the devices there were before the catalog being
set, and that the host cannot be sure of its view because a catalog it may have seen was, or may yet
be, taken back without a word. The objects are looked at at the beginning of a walk, which follows
every announcement. Instance for TLC: `MCPropertySurface` (the lists of endpoints).

**`DriverCatalogCodec`** – the decoder as lists of checks in the order of the code, of which the
first that fails is the error; the encoder; and `validate` with its own rule for equal names. A
property-list value is a record tagged with its type. A name is what the checks tell apart: its
letters and length, an accent in composed or decomposed form, its case, spaces around it, a control
character in it. The two rules of comparison are `ComparedKey` (Unicode, case-insensitive, after
normalization) and `ASCIINameKey` (bytes, ASCII letters folded). The only action is a client that
puts one more endpoint into its list. Instance for TLC: `MCDriverCatalogCodec` (the values).

**`DriverState`** – one step for each section under `stateMutex_`: `Publish`, the host's
`WriteToStorage` (`WriteSucceeds`, `WriteFails`), `RollBack` or `RollBackRefused`,
`notifyDeviceListChanged`; `startIO`, `stopIO`; an IO cycle from lookup to return (`BeginIO`,
`EndIO`), and `Crash`, which loses everything but the storage. Calls that are refused change
nothing and are no steps. `Initialize` is one step since the host calls nothing else before it
returns. `undone` and `diverged` are history: that a catalog failed to be stored since the last
accepted one, and that storage is known to differ from what is published. The name in a definition
stands for everything an identity may change, its sample rate included. The host is assumed to
offer storage and notifications. Instance for TLC: `MCDriverState` (the lists of endpoints, and
symmetry).

**`EndpointClock`** – `start` as the steps count up, read the time, store the anchor, advance the
seed; `timestamp` as load the anchor, read the time, load the rate and convert, load the seed.
`MutexIsFree` is `stateMutex_`. Time is an integer; truncation to whole periods and rounding to the
nearest tick are those of the code, floating-point error is not. `startedAt` is history. Instance
for TLC: `MCEndpointClock` (symmetry of the asking threads).

**`FrameStoreProofs`**, **`RealtimeAudioRingProofs`** (which builds on it and covers the reader slots),
**`EndpointRuntimeProofs`**, **`EndpointRegistryProofs`**, **`PropertySurfaceProofs`** and
**`DriverStateProofs`** (which both build on the registry's), **`EndpointClockProofs`**,
**`DriverCatalogCodecProofs`** – the theorems about the module each is named after.

Definitions introduced by a comment `Mutant` are plausible mistakes in the code. They take no part
in any specification; put in the place of the definition they resemble, each makes a property fail.

## Runs

| Run | Question | Bounds | Result |
|---|---|---|---|
| `frame_store` | Does the sequence lock keep its promises in program order? | capacity 2, 2 channels, 1 copier, blocks of 1–3 frames, 6 frames | holds |
| `frame_store_weak_order` | And under the orders the code asks for? | the same, 4 frames | `NoTornFrame` fails |
| `frame_store_single_slot` | And with a capacity of one? | the same, capacity 1 | `NoTornFrame` fails |
| `ring` | Readers that come and go under a writer | capacity 2, 1 channel, 2 reader slots, 3 registrations, generations modulo 3, blocks of 1 and 3, reads of 2, 3 frames published | holds, and implements `AudioTimeline` |
| `ring_unserialized` | May registration and unregistration overlap? | the same, 2 control threads | `HeldTokensStayValid` fails |
| `endpoint_runtime` | Starts and stops against lock-free reads | 3 clients, 2 slots, 2 IO threads, 3 claims, nesting 2 | holds |
| `endpoint_runtime_late_read` | A read that outlives its client | the same | `ClientsKeepTheirCursors` fails |
| `surface` | Every sequence of catalogs, stored or not, and the host's walk under them | 3 identities, 3 names, 3 slots, 7 lists of up to 4, 2 catalogs during a walk, each of which may be undone | holds |
| `codec` | Property lists with one or more faults | lists of up to 2 endpoints, each entry good, absent, of a wrong type or at an edge | holds |
| `clock` | Timestamps against starts and stops | 2 asking threads, 2 rates, 6 ticks, 2 clients, 2 restarts, periods of 3 and 1.5 ticks | holds |
| `driver` | Catalogs, storage, clocks, IO, restarts | 2 identities, 2 names, 2 slots, 2 updaters, 2 clients, 1 per device, nesting 2, 1 IO thread, 2 revisions | holds |
| `driver_reload` | Is what is published always what a reload brings back? | the same, 1 client, storage readable, memory available | `ReloadKeepsCatalog` fails |

Why the bounds are enough. *frame_store*: 6 frames are three laps of the array; a block of 3
exceeds the capacity, so its first frame is skipped; two channels suffice to tear a frame. The
copiers do not see each other, and the proofs cover any number of them. *ring*: the block of 3
laps a reader and wraps the array; three registrations over two slots reuse a slot; the modulus
lets a generation wrap to zero. *endpoint_runtime*: three clients over two slots fill the device,
and three claims reuse a slot under a read. *surface*: the seven lists are such that an identity
stays while those around it go, moves in the list, changes its name or its direction, leaves a gap
below a slot that stays, and gives its slot to another of the other direction; one list has a name
twice, one is too long and has an identity twice, and both are refused. Undoing a catalog brings
devices back into other slots than they had. With three endpoints a walk has up to 63 steps, and a
catalog may come, or be undone, between any two of them; two catalogs during one walk can take a
device away and bring it back. Every refusal a walk can meet is met, and so is a host whose view is
wrong because a catalog failed. *codec*: faults are found endpoint by endpoint, and
what an endpoint is compared with is one other, so two suffice; the lists hold every spelling of
equal names and identifiers beside each other, and every entry at both sides of each limit.
`MaxInt64` is made small: the code compares with it and does not calculate. *driver*: the two lists share an
identity whose name changes and whose slot depends on which list came first; revision 1 may be
accepted, undone, refused to be undone or lost, before revision 2 or 1 again. A second client
meets the limit of one per device. *clock*: two restarts let a thread meet a timeline older than
the last; the period of 1.5 ticks makes the rounding matter; the answers of two threads are all
that a comparison of timestamps needs.

Deadlock is checked in `frame_store`, `surface`, `clock` and `driver`. It is not in the runs whose
bounds on registrations, claims, frames or endpoints end every behaviour, nor in those that look for
a violation.

**Fairness.** `FrameStore`, `RealtimeAudioRing` and `PropertySurface` state some. A thread that is inside
`copyFrame`, `read` or a control operation keeps running (weak fairness of its steps). It is what
an operating system gives a running thread. The writer has no fairness: it may stop half-way
through a frame for ever, and reads must return none the less. In `PropertySurface`, the
host's `WriteToStorage` returns and `setCatalog` goes on to its end, which is to tell the host, to
undo the catalog or to fail at that (weak fairness of `setCatalogReturns`, which does not say
which), and the host takes up a notification and goes on with a walk it has begun (weak
fairness of `Walk`), which is the host's part of the protocol and no property of the driver.
Catalogs have no fairness: clients need not set any, and `ViewBecomesCurrent` asks only about
behaviours in which they stop, and in which the last catalogs leave nothing untold.

**The host.** From how the code is called, the models assume that the host calls Initialize first,
runs IO cycles only for clients it started, and reads for a client from one thread at a time. That
it ends a client's cycles and has its timestamps before StopIO is assumed in `DriverState`,
`EndpointClock` and `RealtimeAudioRing`, and is
not assumed in `EndpointRuntime`: there the code means to tolerate it, by `readsInFlight`.

## Findings

* `frame_store_weak_order`: the acquire load that re-checks a stamp does not hold back the relaxed
  loads before it, nor does the release store of the writing stamp the relaxed stores after it. On
  arm64 `copyFrame` may accept a frame that is being overwritten. Fences would restore the order
  that `frame_store` assumes and the proofs need.
* `frame_store_single_slot`: `readyStamp` gives the frames 2k and 2k+1 one stamp, so the ring needs
  a capacity of at least two frames, which the constructor does not ask for.
* `ring_unserialized`: `registerReader` and `unregisterReader` must not overlap, which the header
  does not say. The driver keeps them apart.
* `endpoint_runtime_late_read`: a read that is still under way when its client is stopped may store
  its cursor over that of a client started since; `readsInFlight` protects the client slot but not
  the reader slot of the ring, which is a different one.
* `driver_reload`: a device started between the publication and the failed storage of a catalog
  makes the rollback fail; the catalog stays published, and the next load brings back the old one.

## Proofs

`FrameStoreProofs` proves, for every value of the constants unless said otherwise:

* `TypeCorrect`: the types of the variables.
* `SeqlockHolds` and `NoTornFrameHolds`: an accepted frame is whole, if accesses are visible in
  program order (`InOrder`) and `Capacity > 1`. The two runs that fail show that neither assumption
  can be dropped. `NoTornFrame` alone is not inductive: that the second look at the stamp proves
  anything depends on what every stamp says about its slot (`SlotInv`), on where the writer stands
  (`WriterInv`), and on each copy under way being either overtaken for good or whole so far
  (`CopyInv`). Their conjunction is `SeqlockInv`.
* `RetentionHolds` and `NoSpuriousSilenceHolds`: a copy is refused only after a lap, whatever the
  capacity and the memory order. `RetentionInv` says which frames the array still holds: all from
  `Capacity` below the newest that the writer has touched.

Its argument uses facts about `%` and `div` (two frames share a slot only if they are a multiple of
`Capacity` apart; the stamps of distinct frames of one slot differ), stated as lemmas.

`RealtimeAudioRingProofs` lifts this to the ring and adds its readers. A step of the ring is a step
of its frame store or leaves it alone (`RingUsesStore`), whence `RingNeverTears` and
`RingKeepsTheLastLap`. `RingTypeCorrect` holds for every number of threads, slots and frames. The
rest rests on what the code's callers keep to, as hypotheses of the theorems:

* `HeldTokensStayValidHolds`, if control operations exclude each other (`Serialized`, which
  `stateMutex_` provides). Inductive is `OwnershipInv`: at most one operation is under way, and the
  slot it works on has no owner. `ring_unserialized` shows that the hypothesis is needed.
* `RetiredTokensStayInvalidHolds`, if besides fewer readers are registered than there are
  generations (`MaxRegistrations < GenerationModulus`; the code has 2^32). Inductive is `TurnInv`:
  how often a slot has changed hands is bounded by the registrations, and a retired token is of an
  earlier turn than its slot, or of the turn that is just ending.
* `IndependentCursorHolds`, `HeardInOrderHolds`, `DropsOnlyWhenLappedHolds` and the refinement
  `ImplementsTimelineHolds`, if besides a client's reads end before its reader is unregistered
  (`DrainBeforeUnregister`). Inductive is `ListeningInv`: each read under way belongs to an owned
  slot that no other read uses; between its reads a slot's cursor stands where the account of what
  its owner was told says; in a read the account, the frames passed and the cursor add up frame by
  frame; and a frame was dropped only if the writer has lapped it, by `RetentionInv` of the frame
  store. For the refinement every step is mapped to the step of `AudioTimeline` it takes: the store
  of a cursor to hearing, the last step of a registration to joining, all others to none.

`EndpointRuntimeProofs` proves, for every number of clients, slots and claims and any finite set of
IO threads (`readsInFlight` counts them, so there must be a number), whether or not the host ends a
client's reads before StopIO:

* `StartsBalanceStopsHolds` from `NestingInv`: active slots carry exactly the starts their clients
  are owed, one slot per client, and the slot a control operation works on is not active. Without
  the last, a start or stop half done would count twice or not at all.
* `ReadersMatchClientsHolds` from `ReadersInv`, its form while an operation is half done.
* `NoWriteUnderReadHolds` from `ReadsInv`: the counter of a slot is the number of the reads inside
  it. Memory accesses are in program order here, as the hazard listed for `DriverRuntime.cpp:99`
  says.
* `SilenceOnlyWhenStoppedHolds` from `SteadyReadsFindTheirSlot`: a read whose client was not stopped
  meanwhile has its client's slot still ahead, or is in it.
* `RuntimeTypeCorrect`, which needs the same: that no counter goes below zero is no matter of types.

`EndpointRegistryProofs` proves, whatever the identities, names and number of slots:

* `StableIdentityHolds`: no catalog moves an identity that stays.
* `RegistryIsSound`: every published identity has a slot, and no two have the same (`RegistryTypeOK`
  and `DistinctSlots`, which are inductive together). The heart of it is `NewSlotIsFree`: the n-th
  new identity finds an n-th free slot. There are free slots enough because the identities that stay
  take at most one slot each of those an accepted list leaves them (`EnoughFreeSlots`), and a set of
  that many naturals has an element with exactly n below it (`NthElement`). What is needed of
  induction is taken from the library's theorem that finite sets are well-founded under inclusion,
  which speaks of sets and not of operators, and from the one that `<` is well-founded on the
  naturals: a nonempty set of naturals has a least element (`LeastNatural`).
* `ObjectsAlwaysResolve`: the search and the division lead every object ID back to its object alone.

`PropertySurfaceProofs` proves, for every set of endpoint lists, every number of slots and every
bound on the catalogs that overtake a walk:

* `SurfaceImplementsRegistry`, and from it `SurfaceKeepsIdentities`. A rollback is a replacement like
  any other, since what it publishes is a list of definitions (`ListsInv`).
* `SurfaceTypeCorrect` and `ViewIsCurrentHolds`. `ViewIsCurrent` speaks of the end of a walk;
  inductive is `ViewInv`. It has two parts. `TrackInv`: a walk the devices did not change under is
  on track, that is, it has learned exactly the devices before some position of the list and has the
  rest before it (`AtDevice`), and no such walk is refused, because every listed ID resolves
  (`ListedDeviceIsKnown`) and what it claims it answers in the announced size
  (`ListedDeviceAnswers`). `SettledInv`: when nothing is outstanding and nothing untold, the host
  knows the devices there are or is on a walk that nothing overtook, and while a catalog is being
  set it knows those from before, so that undoing it leaves its view right if it leaves every device
  in its slot.
* `ClaimsAreAnsweredHolds`. What the objects of a catalog claim is compared with what they answer
  table by table (`DeviceTablesAgree`, `StreamTablesAgree`, `PlugInTablesAgree`); that a walk is
  refused only if the devices changed under it is `TrackInv`.
* `ObjectsAgreeHolds`: the tree of devices and streams. By `ObjectIsKnown` the driver finds every
  object of an endpoint as what it is, so that what it says of one (`DeviceIsRead`, `StreamIsRead`)
  is what it says of its owner, its related device and its streams. A UID leads back to its device
  because the search for it meets one endpoint only (`DeviceFoundByUID`).

`DriverStateProofs` proves, for every set of catalogs, clients and threads, every limit and every
choice of what may fail:

* `CatalogMatchesDevicesHolds`: the catalog that is reported is the one that is published.
* `NoUseAfterDestroyHolds`: from `CycleInv`, that a thread inside an IO cycle keeps its client
  started; so a replacement, which requires that nothing runs, finds no thread inside. It rests on
  the guard `NoIO` of `stopIO`, which is the host's promise and not the driver's.
* `StoredWhenIdleHolds` and `StorageMovesForwardHolds`: from `UpdateInv`, that at most one update is
  under way and how, at each of its stages, the catalog, the storage and the previous catalog are
  related. `StoredWhenIdle` alone is not inductive: that a rollback restores what is stored, and
  that a write stores what is published and newer, depends on what the update carries with it.
* `HostViewIsCurrentHolds` from `HostViewInv`: an update that rolls back has set `undone`, which
  only the notification of an accepted catalog clears.
* `ClocksMatchEndpointsHolds` and `DriverKeepsSlotsDistinct` from `ClockInv`, which carries the
  registry's invariant along: only because no two endpoints share a slot is there one definition for
  a clock to follow. Rollbacks, restarts and restores are replacements like any other here.
* `ClockCountsClientsHolds` from `CountInv` and `CycleInv`. The starts of a slot are counted as the
  size of a finite set (`CountedStarts`), since a sum over a set would need an induction; a
  replacement needs that nothing runs, so the new runtime, which counts nothing, agrees with the
  clock it finds.
* `DriverTypeCorrect`.

`EndpointClockProofs` proves, for every set of rates, every frequency of the host's time, every
period and any number of threads that ask, `ClockTypeCorrect`, `OneTimelinePerSeedHolds`,
`ZeroTimestampIsRecentHolds` and `TimelineStartsWithIOHolds`, all from `TimelineInv`: a start under
way keeps the endpoint running and its anchor within the run it begins (`StartInv`); what a thread
has read so far is of the timeline that still stands (`AskerInv`), because only a stop of the last
client would end it, and the host has its timestamps before that; and answers with the current seed
lie on the current line (`AnswerInv`). The arithmetic (`TicksAtIsNearest`, `WholeFramesArePast`)
says of the two roundings what is needed: a zero timestamp is never later than the time it was
computed from, nor a period and more earlier.

`DriverCatalogCodecProofs` proves, for lists of every length, every set of endpoint values and any
limits:

* `DecodedIsPublishableHolds`. The two rules of comparison meet in `SameKeySameName`: names with
  equal bytes after folding have equal Unicode keys, so what the registry would call a duplicate the
  decoder has.
* `SurvivesStorageHolds`: an entry that was accepted is accepted again as it is written
  (`StoredIsAccepted`), normalizing a name twice is normalizing it once (`NormalizedName`), and
  storing makes no duplicates (`SameEndpointsWhenStored`).
* `BlamesTheFirstOffenderHolds`: the checks of an endpoint look at nothing behind it (`SameUpTo`),
  so a list cut off before the first offender is accepted, and with it is refused for the same
  reason.

The inductive invariant, `CodecInv`, only keeps the form of the root. What the proofs are about is
the first failing check: `FirstErrorIsNone` turns a list of checks into the conjunction of their
opposites, and `MinIsLeast` finds the first offender. They assume of the values a client passes in
what `CodecValueAssumption` says, which is that they are property lists and names.

Hypotheses and assumptions are those the code or its callers justify: `InOrder` stands for the
x86_64 build, as said above; `Capacity > 1` for the 8192 frames of the driver's rings; the others
are named where they are used.

Some definitions have the form they have for the proofs' sake. A field of a function's value that
changes twice in a step is written `[f EXCEPT ![t] = [f[t] EXCEPT ...]]`, since the prover's
translation of an EXCEPT that names one index more than once is not to be relied on.

Only model-checked: liveness, which is out of reach of the provers (`CopyTerminates`,
`ReadTerminates`, `ViewBecomesCurrent`), and what the five runs that look for a violation find.

## Not modelled

* The plug-in factory and the COM interface: one static interface for the life of the process, whose
  reference count is counted up, and down to one at the least; nothing is created or freed by it.
* Product configuration and build scripts: they have no behaviour at run time.
* `resetForTesting`, a seam of the tests; a host without storage or notifications; want of memory
  other than in `replace`; sample formats, channel layouts and the wording of names.

Known hazards that no property covers, for the reasons `PROJECT.json` gives: the IsRunning query
looks a runtime up without a lock and may use it after a catalog destroyed it
(`AudioServerPlugInDriver.cpp:466`); the handshake of `readsInFlight` and `active` is not
sequentially consistent (`DriverRuntime.cpp:99`); the generation of a reader slot wraps after 2^32
registrations; a host that set a catalog from within a notification would wait for itself. And
three that the code does have, so that a property which holds can only step around them:

* A catalog that fails to be stored is announced neither when it is published nor when it is undone
  (`AudioServerPlugInDriver.cpp:374-381`). A host that walked over the devices in between keeps a
  wrong view, and so does any host if undoing it is refused or moves a device to another slot, where
  the IDs the host holds name nothing or another device. `HostViewIsCurrent` in `DriverState` leaves
  out every failed catalog (`undone`); `ViewIsCurrent` in `PropertySurface` leaves out just these
  cases (`untold`).
* If the stored catalog cannot be read once, the driver starts empty and accepts a revision older
  than the stored one, which it overwrites (`AudioServerPlugInDriver.cpp:254`). `StorageMovesForward`
  leaves this out (`diverged`).
* A timestamp that is still under way when the last client stops may pair an anchor with another
  anchor's seed (`AudioServerPlugInDriver.cpp:117`). Nothing in the code prevents it; `EndpointClock`
  assumes that the host does, by the guards of `Ask` and `stop`.

## Plan

1. `FrameStore`, `ReaderCursors`, `RealtimeAudioRing`, `AudioTimeline` – done.
2. `EndpointRuntime`, `EndpointRegistry`, `DriverState`, `EndpointClock` – done.
3. `PropertySurface`, over the registry, with catalogs between any two queries – done.
4. `DriverCatalogCodec`, as checks in order – done.
5. Proofs of every safety property of the passing runs – done, a module of proofs for each component.
6. What more could be proved: that `EndpointRuntime` uses the ring as `ReaderCursors` specifies it, so
   that `Serialized` follows from `stateMutex_` and need not be a hypothesis; that the sections of
   `DriverState` publish catalogs as `EndpointRegistry` does, rollbacks included.
7. The handshake of `readsInFlight` and `active` under store buffers.
