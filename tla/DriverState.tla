----------------------------- MODULE DriverState -----------------------------
(***************************************************************************)
(* DriverState: the catalog of endpoints, its storage by the host, the     *)
(* runtimes and clocks behind it, and the three ways in: a control client  *)
(* that sets the catalog, the host's start and stop of IO, and the IO      *)
(* cycle, which takes no lock.  coreaudiod may end at any moment; what it  *)
(* stored stays.                                                           *)
(*                                                                         *)
(* What stateMutex_ protects is one step.  setCatalog holds updateMutex_   *)
(* throughout and releases stateMutex_ twice, so its parts are steps of    *)
(* their own.  A call that is refused changes nothing and is no step.      *)
(*                                                                         *)
(* A runtime is reduced to who started it, a clock to who keeps it running *)
(* and the definition it was configured for.  In a definition the name     *)
(* stands for everything an identity may change, its sample rate included. *)
(***************************************************************************)
EXTENDS EndpointRegistry, Functions

CONSTANTS
  Offered,            \* the endpoint lists clients set
  Updater,            \* the host's threads that deliver SetPropertyData
  Client,             \* the client IDs of the host
  IOThread,           \* the threads on which the host calls DoIOOperation
  MaximumClientCount, \* maximumClientCountPerDevice
  StorageFails,       \* whether reading the stored catalog may fail
  MemoryRunsOut,      \* whether replace may run out of memory
  MaxRevision,        \* bound on the revisions clients use
  MaxNesting          \* bound on the starts of one client

ASSUME OfferedAssumption == Offered \subseteq Seq(Definition)
ASSUME ClientAssumption == Client # {}
ASSUME MaximumClientCountAssumption == MaximumClientCount \in Nat \ {0}
ASSUME FaultsAssumption == StorageFails \in BOOLEAN /\ MemoryRunsOut \in BOOLEAN
ASSUME DriverBoundsAssumption == MaxRevision \in Nat /\ MaxNesting \in Nat

Role == {"visible", "companion"}

DriverEndpointCatalog == [revision : Nat, endpoints : Seq(Definition)]

EmptyCatalog == [revision |-> 0, endpoints |-> << >>]

\* One client of one of the two devices of an endpoint.
Use == Role \X Client

Unconfigured == [identifier |-> "none", name |-> "none", direction |-> "none"]

EndpointClock ==
  [runningReferenceCount : Nat, configuredFor : Definition \cup {Unconfigured}]

UpdateState ==
  [pc : {"idle", "storing", "rollingBack", "notifying"},
   catalog : DriverEndpointCatalog, previous : DriverEndpointCatalog]

\* A thread inside DoIOOperation and the runtime it looked up there.
IOState ==
  [pc : {"idle", "using"}, slot : EndpointSlot, use : Use, destroyed : BOOLEAN]

VARIABLES
  loaded,         \* whether the driver is loaded and initialized
  catalog,        \* catalog_
  starts,         \* per slot and use, the starts its runtime counts
  clocks,         \* per slot, its clock; clocks outlive runtimes
  update,         \* per updater, its setCatalog
  io,             \* per IO thread, its DoIOOperation
  storage,        \* the catalog the host stores, empty before the first
  hostView,       \* the slots by which the host last learned the devices
  changed,        \* the host has yet to handle a change notification
  undone,         \* a catalog failed to be stored since the last accepted one
  diverged        \* storage is known not to hold the published catalog

driverVars == <<endpoints, allocations, loaded, catalog, starts, clocks, update,
                io, storage, hostView, changed, undone, diverged>>

NoStarts == [s \in EndpointSlot |-> [use \in Use |-> 0]]

NoUpdate == [pc |-> "idle", catalog |-> EmptyCatalog, previous |-> EmptyCatalog]

NoUpdates == [u \in Updater |-> NoUpdate]

IdleIO == [pc |-> "idle", slot |-> 0, use |-> CHOOSE use \in Use : TRUE,
           destroyed |-> FALSE]

FreshClocks ==
  [s \in EndpointSlot |->
     [runningReferenceCount |-> 0, configuredFor |-> Unconfigured]]

DriverInit ==
  /\ RegistryInit
  /\ loaded = FALSE
  /\ catalog = EmptyCatalog
  /\ starts = NoStarts
  /\ clocks = FreshClocks
  /\ update = NoUpdates
  /\ io = [t \in IOThread |-> IdleIO]
  /\ storage = EmptyCatalog
  /\ hostView = allocations
  /\ changed = FALSE
  /\ undone = FALSE
  /\ diverged = FALSE

-----------------------------------------------------------------------------
(***************************************************************************)
(* DriverRuntimeRegistry::replace: refused while a device runs; otherwise  *)
(* every runtime, of endpoints that stay too, is destroyed and made anew.  *)
(***************************************************************************)
anyDeviceIsRunning == \E s \in EndpointSlot, use \in Use : starts[s][use] > 0

\* Mutant: replace the runtimes whatever they are doing.
ReplaceRunningRuntimes(definitions) ==
  /\ Replace(definitions)
  /\ starts' = NoStarts
  /\ io' = [t \in IOThread |-> [io[t] EXCEPT !.destroyed = io[t].pc = "using"]]

ReplaceRuntimes(definitions) ==
  /\ ~anyDeviceIsRunning
  /\ Replace(definitions)
  /\ starts' = NoStarts
  /\ io' = [t \in IOThread |-> [io[t] EXCEPT !.destroyed = io[t].pc = "using"]]

\* A clock keeps its reference count when it is configured.
configureClocks ==
  clocks' = [s \in EndpointSlot |->
    IF \E e \in DOMAIN allocations' : allocations'[e] = s
      THEN [clocks[s] EXCEPT !.configuredFor =
              CHOOSE d \in Range(endpoints') : allocations'[d.identifier] = s]
      ELSE clocks[s]]

(***************************************************************************)
(* Initialize.  Nothing else calls the driver until it returns, so it is   *)
(* one step.  A catalog that cannot be read, or does not fit in memory,    *)
(* leaves the driver empty.  The host then reads the device list.          *)
(***************************************************************************)
InitializeRestored ==
  /\ ~loaded
  /\ loaded' = TRUE
  /\ ReplaceRuntimes(storage.endpoints)
  /\ catalog' = storage
  /\ configureClocks
  /\ changed' = TRUE
  /\ UNCHANGED <<update, storage, hostView, undone, diverged>>

InitializeEmpty ==
  /\ ~loaded
  /\ StorageFails \/ MemoryRunsOut
  /\ loaded' = TRUE
  /\ changed' = TRUE
  /\ diverged' = (storage # EmptyCatalog)
  /\ UNCHANGED <<endpoints, allocations, catalog, starts, clocks, update, io,
                 storage, hostView, undone>>

(***************************************************************************)
(* setCatalog                                                              *)
(***************************************************************************)
updateMutexIsFree == \A u \in Updater : update[u].pc = "idle"

\* Mutant: take no updateMutex_.
PublishUnlocked(u, new) ==
  /\ loaded
  /\ update[u].pc = "idle"
  /\ ~anyDeviceIsRunning
  /\ new.revision > catalog.revision
  /\ ReplaceRuntimes(new.endpoints)
  /\ catalog' = new
  /\ configureClocks
  /\ update' = [update EXCEPT ![u] =
                  [pc |-> "storing", catalog |-> new, previous |-> catalog]]
  /\ UNCHANGED <<loaded, storage, hostView, changed, undone, diverged>>

\* The first part, under both mutexes.
Publish(u, new) ==
  /\ loaded
  /\ updateMutexIsFree
  /\ ~anyDeviceIsRunning
  /\ new.revision > catalog.revision
  /\ ReplaceRuntimes(new.endpoints)
  /\ catalog' = new
  /\ configureClocks
  /\ update' = [update EXCEPT ![u] =
                  [pc |-> "storing", catalog |-> new, previous |-> catalog]]
  /\ UNCHANGED <<loaded, storage, hostView, changed, undone, diverged>>

\* The host's WriteToStorage, called without stateMutex_.
WriteSucceeds(u) ==
  /\ update[u].pc = "storing"
  /\ storage' = update[u].catalog
  /\ diverged' = FALSE
  /\ update' = [update EXCEPT ![u].pc = "notifying"]
  /\ UNCHANGED <<endpoints, allocations, loaded, catalog, starts, clocks, io,
                 hostView, changed, undone>>

\* Mutant: return the status of the host and leave the catalog in place.
WriteFailureReturned(u) ==
  /\ update[u].pc = "storing"
  /\ update' = [update EXCEPT ![u] = NoUpdate]
  /\ undone' = TRUE
  /\ UNCHANGED <<endpoints, allocations, loaded, catalog, starts, clocks, io,
                 storage, hostView, changed, diverged>>

WriteFails(u) ==
  /\ update[u].pc = "storing"
  /\ update' = [update EXCEPT ![u].pc = "rollingBack"]
  /\ undone' = TRUE
  /\ UNCHANGED <<endpoints, allocations, loaded, catalog, starts, clocks, io,
                 storage, hostView, changed, diverged>>

\* Mutant: leave the clocks configured for the catalog that failed.
RollBackRuntimesOnly(u) ==
  /\ update[u].pc = "rollingBack"
  /\ ReplaceRuntimes(update[u].previous.endpoints)
  /\ catalog' = update[u].previous
  /\ update' = [update EXCEPT ![u] = NoUpdate]
  /\ UNCHANGED <<loaded, clocks, storage, hostView, changed, undone, diverged>>

\* The second part under stateMutex_, when the catalog could not be stored.
RollBack(u) ==
  /\ update[u].pc = "rollingBack"
  /\ ReplaceRuntimes(update[u].previous.endpoints)
  /\ catalog' = update[u].previous
  /\ configureClocks
  /\ update' = [update EXCEPT ![u] = NoUpdate]
  /\ UNCHANGED <<loaded, storage, hostView, changed, undone, diverged>>

\* Mutant: report the previous catalog although its devices are not back.
RollBackCatalogOnly(u) ==
  /\ update[u].pc = "rollingBack"
  /\ anyDeviceIsRunning \/ MemoryRunsOut
  /\ catalog' = update[u].previous
  /\ diverged' = TRUE
  /\ update' = [update EXCEPT ![u] = NoUpdate]
  /\ UNCHANGED <<endpoints, allocations, loaded, starts, clocks, io, storage,
                 hostView, changed, undone>>

\* A device was started since, or memory ran out: the new catalog stays.
RollBackRefused(u) ==
  /\ update[u].pc = "rollingBack"
  /\ anyDeviceIsRunning \/ MemoryRunsOut
  /\ diverged' = TRUE
  /\ update' = [update EXCEPT ![u] = NoUpdate]
  /\ UNCHANGED <<endpoints, allocations, loaded, catalog, starts, clocks, io,
                 storage, hostView, changed, undone>>

\* Mutant: return without telling the host.
ReturnSilently(u) ==
  /\ update[u].pc = "notifying"
  /\ undone' = FALSE
  /\ update' = [update EXCEPT ![u] = NoUpdate]
  /\ UNCHANGED <<endpoints, allocations, loaded, catalog, starts, clocks, io,
                 storage, hostView, changed, diverged>>

notifyDeviceListChanged(u) ==
  /\ update[u].pc = "notifying"
  /\ changed' = TRUE
  /\ undone' = FALSE
  /\ update' = [update EXCEPT ![u] = NoUpdate]
  /\ UNCHANGED <<endpoints, allocations, loaded, catalog, starts, clocks, io,
                 storage, hostView, diverged>>

\* The host answers a notification by reading deviceList.
HostReadsDevices ==
  /\ loaded
  /\ changed
  /\ changed' = FALSE
  /\ hostView' = allocations
  /\ UNCHANGED <<endpoints, allocations, loaded, catalog, starts, clocks, update,
                 io, storage, undone, diverged>>

-----------------------------------------------------------------------------
(***************************************************************************)
(* IO.  The runtime counts the clients of each of its two devices and      *)
(* refuses more than its limit; the clock follows what it accepted.        *)
(***************************************************************************)
IsPublished(s) == \E e \in DOMAIN allocations : allocations[e] = s

RunningClients(s, role) == {c \in Client : starts[s][<<role, c>>] > 0}

startIO(s, role, client) ==
  /\ loaded
  /\ IsPublished(s)
  /\ starts[s][<<role, client>>] < MaxNesting
  /\ \/ client \in RunningClients(s, role)
     \/ Cardinality(RunningClients(s, role)) < MaximumClientCount
  /\ starts' = [starts EXCEPT ![s][<<role, client>>] = @ + 1]
  /\ clocks' = [clocks EXCEPT ![s].runningReferenceCount = @ + 1]
  /\ UNCHANGED <<endpoints, allocations, loaded, catalog, update, io, storage,
                 hostView, changed, undone, diverged>>

\* The host ends its IO cycles for a client before it stops the client.
NoIO(s, use) ==
  \A t \in IOThread : ~(io[t].pc = "using" /\ io[t].slot = s /\ io[t].use = use)

\* The clock's stop() saturates at zero.
ClockStopped(clock) ==
  [clock EXCEPT !.runningReferenceCount = IF @ = 0 THEN 0 ELSE @ - 1]

\* Mutant: stop the clock whatever the runtime answered.
StopClockAnyway(s, role, client) ==
  /\ loaded
  /\ IsPublished(s)
  /\ starts[s][<<role, client>>] = 1 => NoIO(s, <<role, client>>)
  /\ starts' = [starts EXCEPT ![s][<<role, client>>] = IF @ = 0 THEN 0 ELSE @ - 1]
  /\ clocks' = [clocks EXCEPT ![s] = ClockStopped(@)]
  /\ UNCHANGED <<endpoints, allocations, loaded, catalog, update, io, storage,
                 hostView, changed, undone, diverged>>

\* Mutant: let the runtime count a client down that it does not run.
StopUnknownClient(s, role, client) ==
  /\ loaded
  /\ IsPublished(s)
  /\ starts[s][<<role, client>>] = 1 => NoIO(s, <<role, client>>)
  /\ starts' = [starts EXCEPT ![s][<<role, client>>] = @ - 1]
  /\ clocks' = [clocks EXCEPT ![s] = ClockStopped(@)]
  /\ UNCHANGED <<endpoints, allocations, loaded, catalog, update, io, storage,
                 hostView, changed, undone, diverged>>

stopIO(s, role, client) ==
  /\ loaded
  /\ IsPublished(s)
  /\ starts[s][<<role, client>>] > 0
  /\ starts[s][<<role, client>>] = 1 => NoIO(s, <<role, client>>)
  /\ starts' = [starts EXCEPT ![s][<<role, client>>] = @ - 1]
  /\ clocks' = [clocks EXCEPT ![s] = ClockStopped(@)]
  /\ UNCHANGED <<endpoints, allocations, loaded, catalog, update, io, storage,
                 hostView, changed, undone, diverged>>

(***************************************************************************)
(* doIO: runtimeForObject loads the published pointer; the runtime is used *)
(* through it until the call returns, with no lock held.  The host runs IO *)
(* cycles for the clients it started.                                      *)
(***************************************************************************)
BeginIO(t, s, use) ==
  /\ loaded
  /\ io[t].pc = "idle"
  /\ IsPublished(s)
  /\ starts[s][use] > 0
  /\ io' = [io EXCEPT ![t] =
              [pc |-> "using", slot |-> s, use |-> use, destroyed |-> FALSE]]
  /\ UNCHANGED <<endpoints, allocations, loaded, catalog, starts, clocks, update,
                 storage, hostView, changed, undone, diverged>>

EndIO(t) ==
  /\ io[t].pc = "using"
  /\ io' = [io EXCEPT ![t] = IdleIO]
  /\ UNCHANGED <<endpoints, allocations, loaded, catalog, starts, clocks, update,
                 storage, hostView, changed, undone, diverged>>

(***************************************************************************)
(* coreaudiod ends, and with it the driver's state, at any moment.         *)
(***************************************************************************)
Crash ==
  /\ loaded
  /\ loaded' = FALSE
  /\ endpoints' = << >>
  /\ allocations' = [e \in {} |-> 0]
  /\ catalog' = EmptyCatalog
  /\ starts' = NoStarts
  /\ clocks' = FreshClocks
  /\ update' = NoUpdates
  /\ io' = [t \in IOThread |-> IdleIO]
  /\ hostView' = [e \in {} |-> 0]
  /\ changed' = FALSE
  /\ undone' = FALSE
  /\ diverged' = FALSE
  /\ UNCHANGED storage

Catalogs == [revision : 1 .. MaxRevision, endpoints : Offered]

DriverNext ==
  \/ InitializeRestored
  \/ InitializeEmpty
  \/ \E u \in Updater :
       \/ \E new \in Catalogs : Publish(u, new)
       \/ WriteSucceeds(u)
       \/ WriteFails(u)
       \/ RollBack(u)
       \/ RollBackRefused(u)
       \/ notifyDeviceListChanged(u)
  \/ HostReadsDevices
  \/ \E s \in EndpointSlot, role \in Role, client \in Client :
       \/ startIO(s, role, client)
       \/ stopIO(s, role, client)
  \/ \E t \in IOThread :
       \/ \E s \in EndpointSlot, use \in Use : BeginIO(t, s, use)
       \/ EndIO(t)
  \/ Crash

DriverSpec == DriverInit /\ [][DriverNext]_driverVars

-----------------------------------------------------------------------------
(***************************************************************************)
(* Type correctness.                                                       *)
(***************************************************************************)
DriverTypeOK ==
  /\ RegistryTypeOK
  /\ loaded \in BOOLEAN
  /\ catalog \in DriverEndpointCatalog
  /\ starts \in [EndpointSlot -> [Use -> Nat]]
  /\ clocks \in [EndpointSlot -> EndpointClock]
  /\ update \in [Updater -> UpdateState]
  /\ io \in [IOThread -> IOState]
  /\ storage \in DriverEndpointCatalog
  /\ DOMAIN hostView \subseteq Identifier
  /\ \A e \in DOMAIN hostView : hostView[e] \in EndpointSlot
  /\ changed \in BOOLEAN /\ undone \in BOOLEAN /\ diverged \in BOOLEAN

(***************************************************************************)
(* "What the catalog says and what the device list publishes must agree"   *)
(* (AudioServerPlugInDriverTests.cpp:301): at every moment a caller can    *)
(* take stateMutex_, refused restores and rollbacks included.              *)
(***************************************************************************)
CatalogMatchesDevices == catalog.endpoints = endpoints

(***************************************************************************)
(* No catalog replacement destroys a runtime that an IO cycle, which holds *)
(* no lock, looked up and still uses (DriverRuntime.hpp:108).              *)
(***************************************************************************)
NoUseAfterDestroy == \A t \in IOThread : ~io[t].destroyed

\* The starts that the runtime of a slot counts, one by one.
CountedStarts(s) == UNION {{use} \X (1 .. starts[s][use]) : use \in Use}

(***************************************************************************)
(* A clock, which outlives the runtimes of its slot, is kept running by    *)
(* exactly the starts the current runtime counts: it restarts with the     *)
(* first client and with no other.                                         *)
(***************************************************************************)
ClockCountsClients ==
  \A s \in EndpointSlot :
    clocks[s].runningReferenceCount = Cardinality(CountedStarts(s))

(***************************************************************************)
(* Every published endpoint has a clock that ticks at its own rate,        *)
(* whatever catalogs were tried and undone in its slot.                    *)
(***************************************************************************)
ClocksMatchEndpoints ==
  \A d \in Range(endpoints) :
    clocks[allocations[d.identifier]].configuredFor = d

(***************************************************************************)
(* When no catalog is being set, none failed since the last accepted one,  *)
(* and the host has handled its notifications, then the host knows the     *)
(* devices by the object IDs they have.                                    *)
(***************************************************************************)
HostViewIsCurrent ==
  loaded /\ updateMutexIsFree /\ ~changed /\ ~undone => hostView = allocations

(***************************************************************************)
(* No catalog takes the place of a newer one in storage, unless the newer  *)
(* one could not be read when the driver was loaded.                       *)
(***************************************************************************)
StorageMovesForward ==
  [][storage'.revision < storage.revision => diverged]_driverVars

(***************************************************************************)
(* Between catalogs, storage holds the catalog that is published, unless   *)
(* a read of it failed or a catalog that failed could not be undone.       *)
(***************************************************************************)
StoredWhenIdle ==
  loaded /\ updateMutexIsFree /\ ~diverged => storage = catalog

(***************************************************************************)
(* "A driver that is loaded again must publish the endpoints it was told   *)
(* about before" (AudioServerPlugInDriverTests.cpp:257): whenever the      *)
(* driver could end, outside of a catalog being set, storage holds what it *)
(* publishes.  A device started while the host fails to store a catalog    *)
(* breaks this.                                                            *)
(***************************************************************************)
ReloadKeepsCatalog == loaded /\ updateMutexIsFree => storage = catalog

=============================================================================
