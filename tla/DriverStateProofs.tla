-------------------------- MODULE DriverStateProofs --------------------------
(***************************************************************************)
(* What holds of DriverState for every set of catalogs, clients and        *)
(* threads, every limit and every choice of what may fail.                 *)
(***************************************************************************)
EXTENDS DriverState, EndpointRegistryProofs

(***************************************************************************)
(* "What the catalog says and what the device list publishes must agree":  *)
(* the catalog is exchanged with the devices, or neither is.               *)
(***************************************************************************)
THEOREM CatalogMatchesDevicesHolds == DriverSpec => []CatalogMatchesDevices
  <1>1. DriverInit => CatalogMatchesDevices
    BY DEF DriverInit, RegistryInit, CatalogMatchesDevices, EmptyCatalog
  <1>2. CatalogMatchesDevices /\ [DriverNext]_driverVars => CatalogMatchesDevices'
    <2> SUFFICES ASSUME CatalogMatchesDevices, [DriverNext]_driverVars
                 PROVE  CatalogMatchesDevices'
      OBVIOUS
    <2> USE DEF CatalogMatchesDevices
    <2>1. CASE InitializeRestored
      BY <2>1 DEF InitializeRestored, ReplaceRuntimes, Replace
    <2>2. CASE InitializeEmpty
      BY <2>2 DEF InitializeEmpty
    <2>3. ASSUME NEW u \in Updater, NEW new \in Catalogs, Publish(u, new)
          PROVE  CatalogMatchesDevices'
      BY <2>3 DEF Publish, ReplaceRuntimes, Replace
    <2>4. ASSUME NEW u \in Updater, RollBack(u) PROVE CatalogMatchesDevices'
      BY <2>4 DEF RollBack, ReplaceRuntimes, Replace
    <2>5. ASSUME NEW u \in Updater,
                 \/ WriteSucceeds(u)
                 \/ WriteFails(u)
                 \/ RollBackRefused(u)
                 \/ notifyDeviceListChanged(u)
          PROVE  CatalogMatchesDevices'
      BY <2>5 DEF WriteSucceeds, WriteFails, RollBackRefused,
                  notifyDeviceListChanged
    <2>6. CASE HostReadsDevices
      BY <2>6 DEF HostReadsDevices
    <2>7. ASSUME NEW s \in EndpointSlot, NEW role \in Role, NEW client \in Client,
                 startIO(s, role, client) \/ stopIO(s, role, client)
          PROVE  CatalogMatchesDevices'
      BY <2>7 DEF startIO, stopIO
    <2>8. ASSUME NEW t \in IOThread,
                 \/ \E s \in EndpointSlot, use \in Use : BeginIO(t, s, use)
                 \/ EndIO(t)
          PROVE  CatalogMatchesDevices'
      BY <2>8 DEF BeginIO, EndIO
    <2>9. CASE Crash
      BY <2>9 DEF Crash, EmptyCatalog
    <2>10. CASE UNCHANGED driverVars
      BY <2>10 DEF driverVars
    <2> QED
      BY <2>1, <2>2, <2>3, <2>4, <2>5, <2>6, <2>7, <2>8, <2>9, <2>10
      DEF DriverNext
  <1> QED BY <1>1, <1>2, PTL DEF DriverSpec

-----------------------------------------------------------------------------
(***************************************************************************)
(* A thread inside an IO cycle keeps the client it works for started, so   *)
(* that its runtime cannot be replaced.                                    *)
(***************************************************************************)
CycleInv ==
  /\ starts \in [EndpointSlot -> [Use -> Nat]]
  /\ io \in [IOThread -> IOState]
  /\ \A t \in IOThread :
       /\ ~io[t].destroyed
       /\ io[t].pc = "using" => starts[io[t].slot][io[t].use] > 0

LEMMA IdleIOType == IdleIO \in IOState
  <1>1. \E use \in Use : TRUE
    <2>1. PICK client \in Client : TRUE
      BY ClientAssumption
    <2>2. <<"visible", client>> \in Use
      BY <2>1 DEF Use, Role
    <2> QED BY <2>2
  <1>2. (CHOOSE use \in Use : TRUE) \in Use
    BY <1>1
  <1>3. 0 \in EndpointSlot
    BY MaximumEndpointCountAssumption DEF EndpointSlot
  <1> QED BY <1>2, <1>3 DEF IdleIO, IOState

\* Where no device runs there is no thread inside, and none is disturbed.
LEMMA ReplaceKeepsCycles ==
  ASSUME CycleInv, NEW definitions, ReplaceRuntimes(definitions)
  PROVE  CycleInv'
  <1>1. starts' \in [EndpointSlot -> [Use -> Nat]]
    BY DEF ReplaceRuntimes, NoStarts
  <1>2. \A t \in IOThread : io[t].pc # "using"
    BY DEF CycleInv, ReplaceRuntimes, anyDeviceIsRunning, IOState
  <1>3. io' = [t \in IOThread |-> [io[t] EXCEPT !.destroyed = FALSE]]
    BY <1>2 DEF ReplaceRuntimes
  <1>4. io' \in [IOThread -> IOState]
    BY <1>3 DEF CycleInv, IOState
  <1>5. ASSUME NEW t \in IOThread
        PROVE  ~io'[t].destroyed /\ io'[t].pc # "using"
    BY <1>2, <1>3 DEF CycleInv, IOState
  <1> QED BY <1>1, <1>4, <1>5 DEF CycleInv

LEMMA CycleInvInitially == DriverInit => CycleInv
  <1>1. IdleIO.pc # "using" /\ ~IdleIO.destroyed
    BY DEF IdleIO
  <1> QED BY <1>1, IdleIOType DEF DriverInit, CycleInv, NoStarts

LEMMA CycleInvIsInductive == CycleInv /\ [DriverNext]_driverVars => CycleInv'
  <1> SUFFICES ASSUME CycleInv, [DriverNext]_driverVars PROVE CycleInv'
    OBVIOUS
  <1>1. CASE InitializeRestored
    BY <1>1, ReplaceKeepsCycles DEF InitializeRestored
  <1>2. ASSUME NEW u \in Updater, NEW new \in Catalogs, Publish(u, new)
        PROVE  CycleInv'
    BY <1>2, ReplaceKeepsCycles DEF Publish
  <1>3. ASSUME NEW u \in Updater, RollBack(u) PROVE CycleInv'
    BY <1>3, ReplaceKeepsCycles DEF RollBack
  <1>4. CASE UNCHANGED <<starts, io>>
    BY <1>4 DEF CycleInv
  <1>5. CASE InitializeEmpty \/ HostReadsDevices \/ UNCHANGED driverVars
    BY <1>4, <1>5 DEF InitializeEmpty, HostReadsDevices, driverVars
  <1>6. ASSUME NEW u \in Updater,
               \/ WriteSucceeds(u)
               \/ WriteFails(u)
               \/ RollBackRefused(u)
               \/ notifyDeviceListChanged(u)
        PROVE  CycleInv'
    BY <1>4, <1>6 DEF WriteSucceeds, WriteFails, RollBackRefused,
                      notifyDeviceListChanged
  <1>7. ASSUME NEW s \in EndpointSlot, NEW role \in Role, NEW client \in Client,
               startIO(s, role, client)
        PROVE  CycleInv'
    <2> DEFINE use == <<role, client>>
    <2>1. use \in Use
      BY DEF Use
    <2>2. starts' = [starts EXCEPT ![s][use] = @ + 1] /\ UNCHANGED io
      BY <1>7 DEF startIO
    <2> HIDE DEF use
    <2>3. starts' \in [EndpointSlot -> [Use -> Nat]]
      BY <2>1, <2>2 DEF CycleInv
    <2>4. ASSUME NEW r \in EndpointSlot, NEW other \in Use
          PROVE  starts'[r][other] >= starts[r][other]
      BY <2>1, <2>2 DEF CycleInv
    <2>5. ASSUME NEW t \in IOThread, io[t].pc = "using"
          PROVE  starts'[io[t].slot][io[t].use] > 0
      <3>1. io[t].slot \in EndpointSlot /\ io[t].use \in Use
        BY DEF CycleInv, IOState
      <3>2. starts[io[t].slot][io[t].use] \in Nat
        BY <3>1 DEF CycleInv
      <3>3. starts'[io[t].slot][io[t].use] \in Nat
        BY <3>1, <2>3
      <3> QED BY <2>4, <2>5, <3>1, <3>2, <3>3 DEF CycleInv
    <2> QED BY <2>2, <2>3, <2>5 DEF CycleInv
  <1>8. ASSUME NEW s \in EndpointSlot, NEW role \in Role, NEW client \in Client,
               stopIO(s, role, client)
        PROVE  CycleInv'
    <2> DEFINE use == <<role, client>>
    <2>1. use \in Use
      BY DEF Use
    <2>2. /\ starts' = [starts EXCEPT ![s][use] = @ - 1]
          /\ starts[s][use] > 0
          /\ starts[s][use] = 1 => NoIO(s, use)
          /\ UNCHANGED io
      BY <1>8 DEF stopIO
    <2> HIDE DEF use
    <2>3. starts' \in [EndpointSlot -> [Use -> Nat]]
      BY <2>1, <2>2 DEF CycleInv
    <2>4. ASSUME NEW t \in IOThread, io[t].pc = "using"
          PROVE  starts'[io[t].slot][io[t].use] > 0
      <3>1. io[t].slot \in EndpointSlot /\ io[t].use \in Use
        BY DEF CycleInv, IOState
      <3>2. starts[io[t].slot][io[t].use] > 0
        BY <2>4 DEF CycleInv
      <3>3. CASE io[t].slot = s /\ io[t].use = use
        <4>1. starts[s][use] # 1
          BY <2>2, <2>4, <3>3 DEF NoIO
        <4>2. starts[s][use] \in Nat
          BY <2>1 DEF CycleInv
        <4>3. starts'[s][use] = starts[s][use] - 1
          BY <2>1, <2>2 DEF CycleInv
        <4> QED BY <2>2, <3>3, <4>1, <4>2, <4>3
      <3>4. CASE ~(io[t].slot = s /\ io[t].use = use)
        <4>1. starts'[io[t].slot][io[t].use] = starts[io[t].slot][io[t].use]
          BY <2>1, <2>2, <3>1, <3>4 DEF CycleInv
        <4> QED BY <3>2, <4>1
      <3> QED BY <3>3, <3>4
    <2> QED BY <2>2, <2>3, <2>4 DEF CycleInv
  <1>9. ASSUME NEW t \in IOThread, NEW s \in EndpointSlot, NEW use \in Use,
               BeginIO(t, s, use)
        PROVE  CycleInv'
    <2>1. /\ io' = [io EXCEPT ![t] = [pc |-> "using", slot |-> s, use |-> use,
                                      destroyed |-> FALSE]]
          /\ starts[s][use] > 0
          /\ UNCHANGED starts
      BY <1>9 DEF BeginIO
    <2>2. io' \in [IOThread -> IOState]
      BY <2>1 DEF CycleInv, IOState
    <2> QED BY <2>1, <2>2 DEF CycleInv
  <1>10. ASSUME NEW t \in IOThread, EndIO(t) PROVE CycleInv'
    <2>1. io' = [io EXCEPT ![t] = IdleIO] /\ UNCHANGED starts
      BY <1>10 DEF EndIO
    <2>2. io' \in [IOThread -> IOState]
      BY <2>1, IdleIOType DEF CycleInv
    <2>3. IdleIO.pc # "using" /\ ~IdleIO.destroyed
      BY DEF IdleIO
    <2> QED BY <2>1, <2>2, <2>3 DEF CycleInv
  <1>11. CASE Crash
    <2>1. io' = [t \in IOThread |-> IdleIO] /\ starts' = NoStarts
      BY <1>11 DEF Crash
    <2>2. IdleIO.pc # "using" /\ ~IdleIO.destroyed
      BY DEF IdleIO
    <2> QED BY <2>1, <2>2, IdleIOType DEF CycleInv, NoStarts
  <1> QED
    BY <1>1, <1>2, <1>3, <1>5, <1>6, <1>7, <1>8, <1>9, <1>10, <1>11 DEF DriverNext

(***************************************************************************)
(* No runtime is destroyed under an IO cycle that uses it.                 *)
(***************************************************************************)
THEOREM NoUseAfterDestroyHolds == DriverSpec => []NoUseAfterDestroy
  <1>1. CycleInv => NoUseAfterDestroy
    BY DEF CycleInv, NoUseAfterDestroy
  <1> QED BY <1>1, CycleInvInitially, CycleInvIsInductive, PTL DEF DriverSpec

-----------------------------------------------------------------------------
(***************************************************************************)
(* At most one catalog is being set; each stage of it, and the time        *)
(* between catalogs, relates what is published, what is stored and what a  *)
(* rollback would restore.                                                 *)
(***************************************************************************)
UpdateTypeOK ==
  /\ catalog \in DriverEndpointCatalog
  /\ storage \in DriverEndpointCatalog
  /\ update \in [Updater -> UpdateState]

StageInv(u) ==
  /\ update[u].pc = "storing" =>
       /\ update[u].catalog = catalog
       /\ update[u].previous.revision < catalog.revision
  /\ update[u].pc \in {"storing", "rollingBack"} /\ ~diverged =>
       storage = update[u].previous
  /\ update[u].pc = "notifying" => storage = catalog

UpdateInv ==
  /\ UpdateTypeOK
  /\ \A u, v \in Updater :
       update[u].pc # "idle" /\ update[v].pc # "idle" => u = v
  /\ ~loaded => updateMutexIsFree /\ catalog = EmptyCatalog
  /\ \A u \in Updater : StageInv(u)
  /\ StoredWhenIdle

LEMMA EmptyCatalogType == EmptyCatalog \in DriverEndpointCatalog
  BY DEF EmptyCatalog, DriverEndpointCatalog

LEMMA NoUpdateType == NoUpdate \in UpdateState
  BY EmptyCatalogType DEF NoUpdate, UpdateState

LEMMA RevisionType ==
  ASSUME NEW c \in DriverEndpointCatalog
  PROVE  c.revision \in Nat
  BY DEF DriverEndpointCatalog

LEMMA CatalogsType == Catalogs \subseteq DriverEndpointCatalog
  <1>1. 1 .. MaxRevision \subseteq Nat
    BY DriverBoundsAssumption
  <1> QED BY <1>1, OfferedAssumption DEF Catalogs, DriverEndpointCatalog

LEMMA UpdateInvInitially == DriverInit => UpdateInv
  <1> SUFFICES ASSUME DriverInit PROVE UpdateInv
    OBVIOUS
  <1>1. update = NoUpdates /\ catalog = EmptyCatalog /\ storage = EmptyCatalog
        /\ loaded = FALSE
    BY DEF DriverInit
  <1>2. UpdateTypeOK
    BY <1>1, EmptyCatalogType, NoUpdateType DEF UpdateTypeOK, NoUpdates
  <1>3. \A u \in Updater : update[u].pc = "idle"
    BY <1>1 DEF NoUpdates, NoUpdate
  <1> QED
    BY <1>1, <1>2, <1>3
    DEF UpdateInv, StageInv, StoredWhenIdle, updateMutexIsFree

\* The lock passes to u: no other update is under way before or after.
LEMMA PublishKeepsUpdateInv ==
  ASSUME UpdateInv, NEW u \in Updater, NEW new \in Catalogs, Publish(u, new)
  PROVE  UpdateInv'
  <1> DEFINE started == [pc |-> "storing", catalog |-> new, previous |-> catalog]
  <1>1. /\ loaded /\ updateMutexIsFree
        /\ new.revision > catalog.revision
        /\ catalog' = new
        /\ update' = [update EXCEPT ![u] = started]
        /\ UNCHANGED <<loaded, storage, diverged>>
    BY DEF Publish
  <1>2. new \in DriverEndpointCatalog
    BY CatalogsType
  <1>3. started \in UpdateState
    BY <1>2 DEF UpdateInv, UpdateTypeOK, UpdateState
  <1>4. UpdateTypeOK'
    BY <1>1, <1>2, <1>3 DEF UpdateInv, UpdateTypeOK
  <1>5. update'[u] = started
    BY <1>1 DEF UpdateInv, UpdateTypeOK
  <1>6. \A v \in Updater : v # u => update'[v].pc = "idle"
    BY <1>1 DEF UpdateInv, UpdateTypeOK, updateMutexIsFree
  <1>7. catalog.revision < new.revision
    <2>1. catalog \in DriverEndpointCatalog
      BY DEF UpdateInv, UpdateTypeOK
    <2>2. catalog.revision \in Nat /\ new.revision \in Nat
      BY <1>2, <2>1, RevisionType
    <2> QED BY <1>1, <2>2
  <1>8. ~diverged => storage = catalog
    BY <1>1 DEF UpdateInv, StoredWhenIdle
  <1>9. \A v \in Updater : StageInv(v)'
    BY <1>1, <1>5, <1>6, <1>7, <1>8 DEF StageInv
  <1> QED
    BY <1>1, <1>4, <1>5, <1>6, <1>9
    DEF UpdateInv, StoredWhenIdle, updateMutexIsFree

\* The owner of the lock reaches its next stage.
LEMMA WriteKeepsUpdateInv ==
  ASSUME UpdateInv, NEW u \in Updater, WriteSucceeds(u) \/ WriteFails(u)
  PROVE  UpdateInv'
  <1> DEFINE next == IF WriteSucceeds(u) THEN "notifying" ELSE "rollingBack"
  <1>1. /\ update[u].pc = "storing"
        /\ update' = [update EXCEPT ![u].pc = next]
        /\ UNCHANGED <<loaded, catalog>>
    BY DEF WriteSucceeds, WriteFails
  <1>2. IF WriteSucceeds(u)
          THEN storage' = update[u].catalog /\ diverged' = FALSE
          ELSE UNCHANGED <<storage, diverged>>
    BY DEF WriteSucceeds, WriteFails
  <1>3. update[u] \in UpdateState
    BY DEF UpdateInv, UpdateTypeOK
  <1>4. update[u].catalog = catalog
    BY <1>1 DEF UpdateInv, StageInv
  <1>5. /\ update'[u].pc = next
        /\ update'[u].previous = update[u].previous
        /\ \A v \in Updater : v # u => update'[v] = update[v]
        /\ update' \in [Updater -> UpdateState]
    BY <1>1, <1>3 DEF UpdateInv, UpdateTypeOK, UpdateState
  <1>6. UpdateTypeOK'
    BY <1>1, <1>2, <1>4, <1>5 DEF UpdateInv, UpdateTypeOK
  <1>7. \A v \in Updater : v # u => update'[v].pc = "idle"
    BY <1>1, <1>5 DEF UpdateInv
  <1>8. StageInv(u)'
    BY <1>1, <1>2, <1>4, <1>5 DEF UpdateInv, StageInv
  <1>9. \A v \in Updater : StageInv(v)'
    BY <1>7, <1>8 DEF StageInv
  <1>10. loaded
    BY <1>1 DEF UpdateInv, updateMutexIsFree
  <1> QED
    BY <1>1, <1>5, <1>6, <1>7, <1>9, <1>10
    DEF UpdateInv, StoredWhenIdle, updateMutexIsFree

\* The owner gives the lock back.
LEMMA ReturnKeepsUpdateInv ==
  ASSUME UpdateInv, NEW u \in Updater,
         RollBack(u) \/ RollBackRefused(u) \/ notifyDeviceListChanged(u)
  PROVE  UpdateInv'
  <1>1. /\ update[u].pc # "idle"
        /\ update' = [update EXCEPT ![u] = NoUpdate]
        /\ UNCHANGED <<loaded, storage>>
    BY DEF RollBack, RollBackRefused, notifyDeviceListChanged
  <1>2. loaded
    BY <1>1 DEF UpdateInv, updateMutexIsFree
  <1>3. \A v \in Updater : update'[v].pc = "idle"
    BY <1>1 DEF UpdateInv, UpdateTypeOK, NoUpdate
  <1>4. update' \in [Updater -> UpdateState]
    BY <1>1, NoUpdateType DEF UpdateInv, UpdateTypeOK
  <1>5. CASE RollBack(u)
    <2>1. /\ update[u].pc = "rollingBack"
          /\ catalog' = update[u].previous
          /\ UNCHANGED diverged
      BY <1>5 DEF RollBack
    <2>2. update[u].previous \in DriverEndpointCatalog
      BY DEF UpdateInv, UpdateTypeOK, UpdateState
    <2>3. ~diverged => storage = update[u].previous
      BY <2>1 DEF UpdateInv, StageInv
    <2> QED
      BY <1>1, <1>2, <1>3, <1>4, <2>1, <2>2, <2>3
      DEF UpdateInv, UpdateTypeOK, StageInv, StoredWhenIdle
  <1>6. CASE RollBackRefused(u)
    <2>1. diverged' = TRUE /\ UNCHANGED catalog
      BY <1>6 DEF RollBackRefused
    <2> QED
      BY <1>1, <1>2, <1>3, <1>4, <2>1
      DEF UpdateInv, UpdateTypeOK, StageInv, StoredWhenIdle
  <1>7. CASE notifyDeviceListChanged(u)
    <2>1. update[u].pc = "notifying" /\ UNCHANGED catalog
      BY <1>7 DEF notifyDeviceListChanged
    <2>2. storage = catalog
      BY <2>1 DEF UpdateInv, StageInv
    <2> QED
      BY <1>1, <1>2, <1>3, <1>4, <2>1, <2>2
      DEF UpdateInv, UpdateTypeOK, StageInv, StoredWhenIdle
  <1> QED BY <1>5, <1>6, <1>7

LEMMA UpdateInvIsInductive == UpdateInv /\ [DriverNext]_driverVars => UpdateInv'
  <1> SUFFICES ASSUME UpdateInv, [DriverNext]_driverVars PROVE UpdateInv'
    OBVIOUS
  <1>1. ASSUME UNCHANGED <<loaded, catalog, update, storage, diverged>>
        PROVE  UpdateInv'
    BY <1>1
    DEF UpdateInv, UpdateTypeOK, StageInv, StoredWhenIdle, updateMutexIsFree
  <1>2. CASE InitializeRestored
    BY <1>2
    DEF InitializeRestored, UpdateInv, UpdateTypeOK, StageInv, StoredWhenIdle,
        updateMutexIsFree
  <1>3. CASE InitializeEmpty
    BY <1>3
    DEF InitializeEmpty, UpdateInv, UpdateTypeOK, StageInv, StoredWhenIdle,
        updateMutexIsFree
  <1>4. ASSUME NEW u \in Updater, NEW new \in Catalogs, Publish(u, new)
        PROVE  UpdateInv'
    BY <1>4, PublishKeepsUpdateInv
  <1>5. ASSUME NEW u \in Updater, WriteSucceeds(u) \/ WriteFails(u)
        PROVE  UpdateInv'
    BY <1>5, WriteKeepsUpdateInv
  <1>6. ASSUME NEW u \in Updater,
               RollBack(u) \/ RollBackRefused(u) \/ notifyDeviceListChanged(u)
        PROVE  UpdateInv'
    BY <1>6, ReturnKeepsUpdateInv
  <1>7. CASE HostReadsDevices \/ UNCHANGED driverVars
    BY <1>1, <1>7 DEF HostReadsDevices, driverVars
  <1>8. ASSUME NEW s \in EndpointSlot, NEW role \in Role, NEW client \in Client,
               startIO(s, role, client) \/ stopIO(s, role, client)
        PROVE  UpdateInv'
    BY <1>1, <1>8 DEF startIO, stopIO
  <1>9. ASSUME NEW t \in IOThread,
               \/ \E s \in EndpointSlot, use \in Use : BeginIO(t, s, use)
               \/ EndIO(t)
        PROVE  UpdateInv'
    BY <1>1, <1>9 DEF BeginIO, EndIO
  <1>10. CASE Crash
    <2>1. /\ loaded' = FALSE /\ catalog' = EmptyCatalog /\ update' = NoUpdates
          /\ UNCHANGED storage
      BY <1>10 DEF Crash
    <2>2. \A u \in Updater : update'[u].pc = "idle"
      BY <2>1 DEF NoUpdates, NoUpdate
    <2>3. UpdateTypeOK'
      BY <2>1, EmptyCatalogType, NoUpdateType
      DEF UpdateInv, UpdateTypeOK, NoUpdates
    <2> QED
      BY <2>1, <2>2, <2>3 DEF UpdateInv, StageInv, StoredWhenIdle, updateMutexIsFree
  <1> QED
    BY <1>2, <1>3, <1>4, <1>5, <1>6, <1>7, <1>8, <1>9, <1>10 DEF DriverNext

(***************************************************************************)
(* Between catalogs, storage holds what is published, unless it is known   *)
(* not to.                                                                 *)
(***************************************************************************)
THEOREM StoredWhenIdleHolds == DriverSpec => []StoredWhenIdle
  <1>1. UpdateInv => StoredWhenIdle
    BY DEF UpdateInv
  <1> QED BY <1>1, UpdateInvInitially, UpdateInvIsInductive, PTL DEF DriverSpec

(***************************************************************************)
(* No catalog takes the place of a newer one in storage, unless storage is *)
(* known to hold another than the published one.                           *)
(***************************************************************************)
THEOREM StorageMovesForwardHolds == DriverSpec => StorageMovesForward
  <1>1. ASSUME UpdateInv, [DriverNext]_driverVars,
               storage'.revision < storage.revision
        PROVE  diverged
    <2>0. storage \in DriverEndpointCatalog /\ catalog \in DriverEndpointCatalog
      BY <1>1 DEF UpdateInv, UpdateTypeOK
    <2>1. storage.revision \in Nat
      BY <2>0, RevisionType
    <2>2. storage' # storage
      <3>1. SUFFICES ASSUME storage' = storage PROVE FALSE
        OBVIOUS
      <3>2. storage.revision < storage.revision
        BY <1>1, <3>1
      <3> QED BY <2>1, <3>2
    <2>3. PICK u \in Updater : WriteSucceeds(u)
      BY <1>1, <2>2
      DEF DriverNext, InitializeRestored, InitializeEmpty, Publish, WriteFails,
          RollBack, RollBackRefused, notifyDeviceListChanged, HostReadsDevices,
          startIO, stopIO, BeginIO, EndIO, Crash, driverVars
    <2>4. update[u].pc = "storing" /\ storage' = update[u].catalog
      BY <2>3 DEF WriteSucceeds
    <2>5. /\ storage' = catalog
          /\ update[u].previous.revision < catalog.revision
          /\ ~diverged => storage = update[u].previous
      BY <1>1, <2>4 DEF UpdateInv, StageInv
    <2>6. catalog.revision \in Nat
      BY <2>0, RevisionType
    <2> QED BY <1>1, <2>1, <2>5, <2>6
  <1> QED
    BY <1>1, UpdateInvInitially, UpdateInvIsInductive, PTL
    DEF DriverSpec, StorageMovesForward


-----------------------------------------------------------------------------
(***************************************************************************)
(* What the host was told.  A catalog that fails to be stored is undone    *)
(* without a notification, which is why the host may miss the object IDs   *)
(* that it gave away: undone stays set while it is rolled back, and only   *)
(* the notification of an accepted catalog clears it.                      *)
(***************************************************************************)
HostViewInv ==
  /\ \A u \in Updater : update[u].pc = "rollingBack" => undone
  /\ HostViewIsCurrent

LEMMA HostViewInvIsInductive ==
  UpdateInv /\ HostViewInv /\ [DriverNext]_driverVars => HostViewInv'
  <1> SUFFICES ASSUME UpdateInv, HostViewInv, [DriverNext]_driverVars
               PROVE  HostViewInv'
    OBVIOUS
  <1> USE DEF HostViewInv, HostViewIsCurrent
  <1>1. update \in [Updater -> UpdateState]
    BY DEF UpdateInv, UpdateTypeOK
  <1>2. ASSUME UNCHANGED <<loaded, allocations, update, hostView, changed, undone>>
        PROVE  HostViewInv'
    BY <1>2 DEF updateMutexIsFree
  <1>3. CASE InitializeRestored \/ InitializeEmpty
    BY <1>3 DEF InitializeRestored, InitializeEmpty
  <1>4. ASSUME NEW u \in Updater, NEW new \in Catalogs, Publish(u, new)
        PROVE  HostViewInv'
    BY <1>1, <1>4 DEF Publish, updateMutexIsFree
  <1>5. ASSUME NEW u \in Updater, WriteSucceeds(u) PROVE HostViewInv'
    <2>1. /\ update' = [update EXCEPT ![u].pc = "notifying"]
          /\ UNCHANGED undone
      BY <1>5 DEF WriteSucceeds
    <2>2. /\ update'[u].pc = "notifying"
          /\ \A v \in Updater : v # u => update'[v] = update[v]
      BY <1>1, <2>1 DEF UpdateState
    <2> QED BY <2>1, <2>2 DEF updateMutexIsFree
  <1>6. ASSUME NEW u \in Updater, WriteFails(u) PROVE HostViewInv'
    BY <1>6 DEF WriteFails
  <1>7. ASSUME NEW u \in Updater, RollBack(u) \/ RollBackRefused(u)
        PROVE  HostViewInv'
    BY <1>7 DEF RollBack, RollBackRefused
  <1>8. ASSUME NEW u \in Updater, notifyDeviceListChanged(u) PROVE HostViewInv'
    <2>1. /\ update[u].pc = "notifying"
          /\ update' = [update EXCEPT ![u] = NoUpdate]
          /\ changed' = TRUE
      BY <1>8 DEF notifyDeviceListChanged
    <2>2. \A v \in Updater : update'[v].pc = "idle"
      BY <1>1, <2>1 DEF UpdateInv, NoUpdate
    <2> QED BY <2>1, <2>2
  <1>9. CASE HostReadsDevices
    BY <1>9 DEF HostReadsDevices
  <1>10. ASSUME NEW s \in EndpointSlot, NEW role \in Role, NEW client \in Client,
                startIO(s, role, client) \/ stopIO(s, role, client)
         PROVE  HostViewInv'
    BY <1>2, <1>10 DEF startIO, stopIO
  <1>11. ASSUME NEW t \in IOThread,
                \/ \E s \in EndpointSlot, use \in Use : BeginIO(t, s, use)
                \/ EndIO(t)
         PROVE  HostViewInv'
    BY <1>2, <1>11 DEF BeginIO, EndIO
  <1>12. CASE Crash
    BY <1>12 DEF Crash, NoUpdates, NoUpdate
  <1>13. CASE UNCHANGED driverVars
    BY <1>2, <1>13 DEF driverVars
  <1> QED
    BY <1>3, <1>4, <1>5, <1>6, <1>7, <1>8, <1>9, <1>10, <1>11, <1>12, <1>13
    DEF DriverNext

(***************************************************************************)
(* When no catalog is being set, none failed since the last accepted one,  *)
(* and the host has handled its notifications, then the host knows the     *)
(* devices by the object IDs they have.                                    *)
(***************************************************************************)
THEOREM HostViewIsCurrentHolds == DriverSpec => []HostViewIsCurrent
  <1>1. DriverInit => HostViewInv
    BY DEF DriverInit, HostViewInv, HostViewIsCurrent, NoUpdates, NoUpdate
  <1>2. HostViewInv => HostViewIsCurrent
    BY DEF HostViewInv
  <1>3. DriverInit => UpdateInv /\ HostViewInv
    BY <1>1, UpdateInvInitially
  <1>4. (UpdateInv /\ HostViewInv) /\ [DriverNext]_driverVars
          => (UpdateInv /\ HostViewInv)'
    BY UpdateInvIsInductive, HostViewInvIsInductive
  <1> QED BY <1>2, <1>3, <1>4, PTL DEF DriverSpec

-----------------------------------------------------------------------------
(***************************************************************************)
(* Every catalog that is accepted gives each of its endpoints a slot of    *)
(* its own and configures the clock of that slot for it, so that a slot    *)
(* finds the one definition its clock follows.                             *)
(***************************************************************************)
ClockInv ==
  /\ RegistryInv
  /\ clocks \in [EndpointSlot -> EndpointClock]
  /\ ClocksMatchEndpoints

LEMMA ReplaceConfiguresClocks ==
  ASSUME ClockInv, NEW definitions \in Seq(Definition),
         ReplaceRuntimes(definitions), configureClocks
  PROVE  ClockInv'
  <1>1. RegistryInv'
    BY ReplaceKeepsRegistryInv DEF ClockInv, ReplaceRuntimes
  <1>2. endpoints' = definitions /\ Valid(definitions)
    BY DEF ReplaceRuntimes, Replace
  <1>3. /\ allocations' \in [Identities(definitions) -> EndpointSlot]
        /\ \A e, f \in Identities(definitions) : allocations'[e] = allocations'[f] => e = f
    BY <1>1, <1>2 DEF RegistryInv, RegistryTypeOK, DistinctSlots, Identities
  <1> DEFINE listed == Range(endpoints')
             owner(s) == CHOOSE d \in listed : allocations'[d.identifier] = s
  <1>4. /\ listed \subseteq Definition
        /\ \A d \in listed : d.identifier \in Identities(definitions)
        /\ \A e \in Identities(definitions) : \E d \in listed : d.identifier = e
    BY <1>2 DEF Range, Identities
  <1>5. ASSUME NEW c \in listed, NEW d \in listed, c.identifier = d.identifier
        PROVE  c = d
    <2>1. PICK i \in DOMAIN definitions : c = definitions[i]
      BY <1>2 DEF Range
    <2>2. PICK j \in DOMAIN definitions : d = definitions[j]
      BY <1>2 DEF Range
    <2> QED BY <1>2, <1>5, <2>1, <2>2 DEF Valid
  <1>6. clocks' = [s \in EndpointSlot |->
          IF \E e \in DOMAIN allocations' : allocations'[e] = s
            THEN [clocks[s] EXCEPT !.configuredFor = owner(s)] ELSE clocks[s]]
    BY DEF configureClocks
  <1> HIDE DEF listed
  <1>7. ASSUME NEW s \in EndpointSlot, \E e \in DOMAIN allocations' : allocations'[e] = s
        PROVE  owner(s) \in listed /\ allocations'[owner(s).identifier] = s
    <2>1. PICK e \in Identities(definitions) : allocations'[e] = s
      BY <1>3, <1>7
    <2>2. PICK d \in listed : d.identifier = e
      BY <1>4, <2>1
    <2> QED BY <2>1, <2>2
  <1> HIDE DEF owner
  <1>8. \A s \in EndpointSlot : clocks'[s] \in EndpointClock
    <2> SUFFICES ASSUME NEW s \in EndpointSlot PROVE clocks'[s] \in EndpointClock
      OBVIOUS
    <2>1. clocks[s] \in EndpointClock
      BY DEF ClockInv
    <2>2. CASE \E e \in DOMAIN allocations' : allocations'[e] = s
      <3>1. owner(s) \in Definition
        BY <1>4, <1>7, <2>2
      <3>2. clocks'[s] = [clocks[s] EXCEPT !.configuredFor = owner(s)]
        BY <1>6, <2>2
      <3> QED BY <2>1, <3>1, <3>2 DEF EndpointClock
    <2>3. CASE ~\E e \in DOMAIN allocations' : allocations'[e] = s
      BY <1>6, <2>1, <2>3
    <2> QED BY <2>2, <2>3
  <1>9. ASSUME NEW d \in listed
        PROVE  clocks'[allocations'[d.identifier]].configuredFor = d
    <2>1. PICK s \in EndpointSlot : s = allocations'[d.identifier]
      BY <1>3, <1>4, <1>9
    <2>2. d.identifier \in DOMAIN allocations'
      BY <1>3, <1>4
    <2>3. owner(s) \in listed /\ allocations'[owner(s).identifier] = s
      BY <1>7, <2>1, <2>2
    <2>4. owner(s) = d
      BY <1>3, <1>4, <1>5, <2>1, <2>3
    <2>5. clocks'[s] = [clocks[s] EXCEPT !.configuredFor = owner(s)]
      BY <1>6, <2>1, <2>2
    <2>6. clocks[s] \in EndpointClock
      BY DEF ClockInv
    <2> QED BY <2>1, <2>4, <2>5, <2>6 DEF EndpointClock
  <1>10. clocks' \in [EndpointSlot -> EndpointClock]
    BY <1>6, <1>8
  <1> QED BY <1>1, <1>9, <1>10 DEF ClockInv, ClocksMatchEndpoints, listed

LEMMA ClockInvIsInductive ==
  UpdateInv /\ ClockInv /\ [DriverNext]_driverVars => ClockInv'
  <1> SUFFICES ASSUME UpdateInv, ClockInv, [DriverNext]_driverVars
               PROVE  ClockInv'
    OBVIOUS
  <1>1. clocks \in [EndpointSlot -> EndpointClock]
    BY DEF ClockInv
  <1>2. ASSUME UNCHANGED registryVars, clocks' \in [EndpointSlot -> EndpointClock],
               \A s \in EndpointSlot :
                 clocks'[s].configuredFor = clocks[s].configuredFor
        PROVE  ClockInv'
    <2>1. RegistryInv'
      BY <1>2, StutterKeepsRegistryInv DEF ClockInv
    <2>2. \A d \in Range(endpoints) : allocations[d.identifier] \in EndpointSlot
      BY DEF ClockInv, RegistryInv, RegistryTypeOK, Identities, Range
    <2> QED BY <1>2, <2>1, <2>2 DEF ClockInv, ClocksMatchEndpoints, registryVars
  <1>3. ASSUME UNCHANGED <<endpoints, allocations, clocks>> PROVE ClockInv'
    BY <1>1, <1>2, <1>3 DEF registryVars
  <1>4. CASE InitializeRestored
    <2>1. storage.endpoints \in Seq(Definition)
      BY DEF UpdateInv, UpdateTypeOK, DriverEndpointCatalog
    <2> QED BY <1>4, <2>1, ReplaceConfiguresClocks DEF InitializeRestored
  <1>5. CASE InitializeEmpty
    BY <1>3, <1>5 DEF InitializeEmpty
  <1>6. ASSUME NEW u \in Updater, NEW new \in Catalogs, Publish(u, new)
        PROVE  ClockInv'
    <2>1. new.endpoints \in Seq(Definition)
      BY CatalogsType DEF DriverEndpointCatalog
    <2> QED BY <1>6, <2>1, ReplaceConfiguresClocks DEF Publish
  <1>7. ASSUME NEW u \in Updater, RollBack(u) PROVE ClockInv'
    <2>1. update[u].previous.endpoints \in Seq(Definition)
      BY DEF UpdateInv, UpdateTypeOK, UpdateState, DriverEndpointCatalog
    <2> QED BY <1>7, <2>1, ReplaceConfiguresClocks DEF RollBack
  <1>8. ASSUME NEW u \in Updater,
               \/ WriteSucceeds(u)
               \/ WriteFails(u)
               \/ RollBackRefused(u)
               \/ notifyDeviceListChanged(u)
        PROVE  ClockInv'
    BY <1>3, <1>8 DEF WriteSucceeds, WriteFails, RollBackRefused,
                      notifyDeviceListChanged
  <1>9. CASE HostReadsDevices \/ UNCHANGED driverVars
    BY <1>3, <1>9 DEF HostReadsDevices, driverVars
  <1>10. ASSUME NEW s \in EndpointSlot, NEW role \in Role, NEW client \in Client,
                startIO(s, role, client) \/ stopIO(s, role, client)
         PROVE  ClockInv'
    <2>1. UNCHANGED registryVars
      BY <1>10 DEF startIO, stopIO, registryVars
    <2>2. clocks[s] \in EndpointClock
      BY <1>1
    <2>3. PICK n \in Nat : clocks' = [clocks EXCEPT ![s] =
                             [clocks[s] EXCEPT !.runningReferenceCount = n]]
      <3> DEFINE count == clocks[s].runningReferenceCount
      <3>1. count \in Nat
        BY <2>2 DEF EndpointClock
      <3>2. CASE startIO(s, role, client)
        <4>1. clocks' = [clocks EXCEPT ![s] =
                           [clocks[s] EXCEPT !.runningReferenceCount = count + 1]]
          BY <1>1, <3>2 DEF startIO
        <4>2. count + 1 \in Nat
          BY <3>1
        <4> HIDE DEF count
        <4> QED BY <4>1, <4>2
      <3>3. CASE stopIO(s, role, client)
        <4>1. clocks' = [clocks EXCEPT ![s] =
                           [clocks[s] EXCEPT !.runningReferenceCount =
                              IF count = 0 THEN 0 ELSE count - 1]]
          BY <1>1, <3>3 DEF stopIO, ClockStopped
        <4>2. (IF count = 0 THEN 0 ELSE count - 1) \in Nat
          BY <3>1
        <4> HIDE DEF count
        <4> QED BY <4>1, <4>2
      <3> QED BY <1>10, <3>2, <3>3
    <2>4. [clocks[s] EXCEPT !.runningReferenceCount = n] \in EndpointClock
      BY <2>2 DEF EndpointClock
    <2>5. clocks' \in [EndpointSlot -> EndpointClock]
      BY <1>1, <2>3, <2>4
    <2>6. \A r \in EndpointSlot :
            clocks'[r].configuredFor = clocks[r].configuredFor
      BY <1>1, <2>2, <2>3 DEF EndpointClock
    <2> QED BY <1>2, <2>1, <2>5, <2>6
  <1>11. ASSUME NEW t \in IOThread,
                \/ \E s \in EndpointSlot, use \in Use : BeginIO(t, s, use)
                \/ EndIO(t)
         PROVE  ClockInv'
    BY <1>3, <1>11 DEF BeginIO, EndIO
  <1>12. CASE Crash
    <2>1. /\ endpoints' = << >> /\ allocations' = [e \in {} |-> 0]
          /\ clocks' = FreshClocks
      BY <1>12 DEF Crash
    <2>2. RegistryInv'
      <3>1. endpoints' \in Seq(Definition) /\ Identities(endpoints)' = {}
        BY <2>1 DEF Identities
      <3> QED BY <2>1, <3>1 DEF RegistryInv, RegistryTypeOK, DistinctSlots
    <2>3. clocks' \in [EndpointSlot -> EndpointClock]
      BY <2>1 DEF FreshClocks, EndpointClock
    <2>4. Range(endpoints') = {}
      BY <2>1 DEF Range
    <2> QED BY <2>2, <2>3, <2>4 DEF ClockInv, ClocksMatchEndpoints
  <1> QED
    BY <1>4, <1>5, <1>6, <1>7, <1>8, <1>9, <1>10, <1>11, <1>12 DEF DriverNext

LEMMA ClockInvAlways == DriverSpec => [](UpdateInv /\ ClockInv)
  <1>1. DriverInit => UpdateInv /\ ClockInv
    <2> SUFFICES ASSUME DriverInit PROVE ClockInv
      BY UpdateInvInitially
    <2>1. RegistryInv /\ endpoints = << >> /\ clocks = FreshClocks
      BY RegistryInitially DEF DriverInit, RegistryInit
    <2>2. clocks \in [EndpointSlot -> EndpointClock]
      BY <2>1 DEF FreshClocks, EndpointClock
    <2>3. Range(endpoints) = {}
      BY <2>1 DEF Range
    <2> QED BY <2>1, <2>2, <2>3 DEF ClockInv, ClocksMatchEndpoints
  <1>2. (UpdateInv /\ ClockInv) /\ [DriverNext]_driverVars => (UpdateInv /\ ClockInv)'
    BY UpdateInvIsInductive, ClockInvIsInductive
  <1> QED BY <1>1, <1>2, PTL DEF DriverSpec

(***************************************************************************)
(* Every published endpoint has a clock that ticks at its own rate,        *)
(* whatever catalogs were tried and undone in its slot.                    *)
(***************************************************************************)
THEOREM ClocksMatchEndpointsHolds == DriverSpec => []ClocksMatchEndpoints
  <1>1. ClockInv => ClocksMatchEndpoints
    BY DEF ClockInv
  <1> QED BY <1>1, ClockInvAlways, PTL

(***************************************************************************)
(* No two published endpoints share a slot, so a runtime and a clock are   *)
(* one endpoint's, through rollbacks, restarts and restores that the       *)
(* registry alone knows nothing of.                                        *)
(***************************************************************************)
THEOREM DriverKeepsSlotsDistinct == DriverSpec => []DistinctSlots
  <1>1. ClockInv => DistinctSlots
    BY DEF ClockInv, RegistryInv
  <1> QED BY <1>1, ClockInvAlways, PTL

-----------------------------------------------------------------------------
(***************************************************************************)
(* The clock of a slot counts the starts its runtime counts.  A runtime is *)
(* replaced only when it counts none, so that the new one agrees with the  *)
(* clock it finds; a stop that is accepted finds a clock above zero.       *)
(***************************************************************************)
CountInv ==
  /\ \A s \in EndpointSlot : IsFiniteSet(CountedStarts(s))
  /\ ClockCountsClients

\* Where no device runs, there is no start to count.
LEMMA ReplaceKeepsCounts ==
  ASSUME CycleInv, ClockInv, CountInv, NEW definitions,
         ReplaceRuntimes(definitions), configureClocks
  PROVE  CountInv'
  <1> SUFFICES ASSUME NEW s \in EndpointSlot
               PROVE  /\ IsFiniteSet(CountedStarts(s)')
                      /\ clocks'[s].runningReferenceCount
                           = Cardinality(CountedStarts(s)')
    BY DEF CountInv, ClockCountsClients, CountedStarts
  <1>1. \A use \in Use : starts[s][use] = 0 /\ starts'[s][use] = 0
    BY DEF CycleInv, ReplaceRuntimes, anyDeviceIsRunning, NoStarts
  <1>2. 1 .. 0 = {}
    OBVIOUS
  <1>3. CountedStarts(s) = {} /\ CountedStarts(s)' = {}
    BY <1>1, <1>2 DEF CountedStarts
  <1>4. clocks'[s].runningReferenceCount = clocks[s].runningReferenceCount
    <2>1. clocks[s] \in EndpointClock
      BY DEF ClockInv
    <2>2. clocks'[s] = clocks[s]
            \/ \E d : clocks'[s] = [clocks[s] EXCEPT !.configuredFor = d]
      BY DEF configureClocks
    <2> QED BY <2>1, <2>2 DEF EndpointClock
  <1>5. clocks[s].runningReferenceCount = Cardinality(CountedStarts(s))
    BY DEF CountInv, ClockCountsClients
  <1> QED BY <1>3, <1>4, <1>5, FS_EmptySet

LEMMA CountInvIsInductive ==
  CycleInv /\ ClockInv /\ CountInv /\ [DriverNext]_driverVars => CountInv'
  <1> SUFFICES ASSUME CycleInv, ClockInv, CountInv, [DriverNext]_driverVars
               PROVE  CountInv'
    OBVIOUS
  <1>1. ASSUME UNCHANGED <<starts, clocks>> PROVE CountInv'
    BY <1>1 DEF CountInv, ClockCountsClients, CountedStarts
  <1>2. CASE InitializeRestored
    BY <1>2, ReplaceKeepsCounts DEF InitializeRestored
  <1>3. ASSUME NEW u \in Updater, NEW new \in Catalogs, Publish(u, new)
        PROVE  CountInv'
    BY <1>3, ReplaceKeepsCounts DEF Publish
  <1>4. ASSUME NEW u \in Updater, RollBack(u) PROVE CountInv'
    BY <1>4, ReplaceKeepsCounts DEF RollBack
  <1>5. CASE InitializeEmpty \/ HostReadsDevices \/ UNCHANGED driverVars
    BY <1>1, <1>5 DEF InitializeEmpty, HostReadsDevices, driverVars
  <1>6. ASSUME NEW u \in Updater,
               \/ WriteSucceeds(u)
               \/ WriteFails(u)
               \/ RollBackRefused(u)
               \/ notifyDeviceListChanged(u)
        PROVE  CountInv'
    BY <1>1, <1>6 DEF WriteSucceeds, WriteFails, RollBackRefused,
                      notifyDeviceListChanged
  <1>7. ASSUME NEW t \in IOThread,
               \/ \E s \in EndpointSlot, use \in Use : BeginIO(t, s, use)
               \/ EndIO(t)
        PROVE  CountInv'
    BY <1>1, <1>7 DEF BeginIO, EndIO
  <1>8. ASSUME NEW s \in EndpointSlot, NEW role \in Role, NEW client \in Client,
               startIO(s, role, client)
        PROVE  CountInv'
    <2> DEFINE use == <<role, client>>
    <2>1. use \in Use
      BY DEF Use
    <2>2. /\ starts' = [starts EXCEPT ![s][use] = @ + 1]
          /\ clocks' = [clocks EXCEPT ![s].runningReferenceCount = @ + 1]
      BY <1>8 DEF startIO
    <2> HIDE DEF use
    <2>3. PICK n \in Nat : n = starts[s][use]
      BY <2>1 DEF CycleInv
    <2>4. /\ starts'[s][use] = n + 1
          /\ \A other \in Use : other # use => starts'[s][other] = starts[s][other]
          /\ \A r \in EndpointSlot : r # s => starts'[r] = starts[r]
      BY <2>1, <2>2, <2>3 DEF CycleInv
    <2>5. 1 .. n + 1 = (1 .. n) \cup {n + 1} /\ n + 1 \notin 1 .. n
      OBVIOUS
    <2>6. CountedStarts(s)' = CountedStarts(s) \cup {<<use, n + 1>>}
      BY <2>1, <2>3, <2>4, <2>5 DEF CountedStarts
    <2>7. <<use, n + 1>> \notin CountedStarts(s)
      BY <2>3, <2>5 DEF CountedStarts
    <2>8. \A r \in EndpointSlot : r # s => CountedStarts(r)' = CountedStarts(r)
      BY <2>4 DEF CountedStarts
    <2>9. clocks[s] \in EndpointClock
      BY DEF ClockInv
    <2>10. /\ clocks'[s].runningReferenceCount = clocks[s].runningReferenceCount + 1
           /\ \A r \in EndpointSlot : r # s => clocks'[r] = clocks[r]
      BY <2>2, <2>9 DEF ClockInv, EndpointClock
    <2>11. /\ IsFiniteSet(CountedStarts(s)')
           /\ Cardinality(CountedStarts(s)') = Cardinality(CountedStarts(s)) + 1
      BY <2>6, <2>7, FS_AddElement DEF CountInv
    <2> QED BY <2>8, <2>10, <2>11 DEF CountInv, ClockCountsClients
  <1>9. ASSUME NEW s \in EndpointSlot, NEW role \in Role, NEW client \in Client,
               stopIO(s, role, client)
        PROVE  CountInv'
    <2> DEFINE use == <<role, client>>
    <2>1. use \in Use
      BY DEF Use
    <2>2. /\ starts[s][use] > 0
          /\ starts' = [starts EXCEPT ![s][use] = @ - 1]
          /\ clocks' = [clocks EXCEPT ![s] = ClockStopped(clocks[s])]
      BY <1>9 DEF stopIO, ClockInv
    <2> HIDE DEF use
    <2>3. PICK n \in Nat : n = starts[s][use] /\ n > 0
      BY <2>1, <2>2 DEF CycleInv
    <2>4. /\ starts'[s][use] = n - 1
          /\ \A other \in Use : other # use => starts'[s][other] = starts[s][other]
          /\ \A r \in EndpointSlot : r # s => starts'[r] = starts[r]
      BY <2>1, <2>2, <2>3 DEF CycleInv
    <2>5. 1 .. n - 1 = (1 .. n) \ {n} /\ n \in 1 .. n
      BY <2>3
    <2>6. CountedStarts(s)' = CountedStarts(s) \ {<<use, n>>}
      BY <2>1, <2>3, <2>4, <2>5 DEF CountedStarts
    <2>7. <<use, n>> \in CountedStarts(s)
      BY <2>1, <2>3, <2>5 DEF CountedStarts
    <2>8. \A r \in EndpointSlot : r # s => CountedStarts(r)' = CountedStarts(r)
      BY <2>4 DEF CountedStarts
    <2>9. /\ IsFiniteSet(CountedStarts(s)')
          /\ Cardinality(CountedStarts(s)') = Cardinality(CountedStarts(s)) - 1
      BY <2>6, <2>7, FS_RemoveElement DEF CountInv
    <2>10. Cardinality(CountedStarts(s)) # 0
      BY <2>7, FS_EmptySet DEF CountInv
    <2>11. clocks[s].runningReferenceCount = Cardinality(CountedStarts(s))
      BY DEF CountInv, ClockCountsClients
    <2>12. clocks[s] \in EndpointClock
      BY DEF ClockInv
    <2>13. ClockStopped(clocks[s]).runningReferenceCount
             = clocks[s].runningReferenceCount - 1
      BY <2>10, <2>11, <2>12 DEF ClockStopped, EndpointClock
    <2>14. /\ clocks'[s] = ClockStopped(clocks[s])
           /\ \A r \in EndpointSlot : r # s => clocks'[r] = clocks[r]
      BY <2>2 DEF ClockInv
    <2> QED BY <2>8, <2>9, <2>11, <2>13, <2>14 DEF CountInv, ClockCountsClients
  <1>10. CASE Crash
    <2>1. starts' = NoStarts /\ clocks' = FreshClocks
      BY <1>10 DEF Crash
    <2>2. \A s \in EndpointSlot :
            CountedStarts(s)' = {} /\ clocks'[s].runningReferenceCount = 0
      BY <2>1 DEF CountedStarts, NoStarts, FreshClocks
    <2> QED BY <2>2, FS_EmptySet DEF CountInv, ClockCountsClients
  <1> QED
    BY <1>2, <1>3, <1>4, <1>5, <1>6, <1>7, <1>8, <1>9, <1>10 DEF DriverNext

(***************************************************************************)
(* A clock, which outlives the runtimes of its slot, is kept running by    *)
(* exactly the starts the current runtime counts.                          *)
(***************************************************************************)
THEOREM ClockCountsClientsHolds == DriverSpec => []ClockCountsClients
  <1>1. DriverInit => CycleInv
    BY CycleInvInitially
  <1>2. DriverInit => CountInv
    <2> SUFFICES ASSUME DriverInit PROVE CountInv
      OBVIOUS
    <2>1. \A s \in EndpointSlot :
            CountedStarts(s) = {} /\ clocks[s].runningReferenceCount = 0
      BY DEF DriverInit, CountedStarts, NoStarts, FreshClocks
    <2> QED BY <2>1, FS_EmptySet DEF CountInv, ClockCountsClients
  <1>3. (CycleInv /\ CountInv) /\ (UpdateInv /\ ClockInv) /\ [DriverNext]_driverVars
          => (CycleInv /\ CountInv)'
    BY CycleInvIsInductive, CountInvIsInductive
  <1>4. CountInv => ClockCountsClients
    BY DEF CountInv
  <1> QED BY <1>1, <1>2, <1>3, <1>4, ClockInvAlways, PTL DEF DriverSpec

-----------------------------------------------------------------------------
(***************************************************************************)
(* Type correctness: catalogs and updates from UpdateInv, starts and IO    *)
(* from CycleInv, slots and clocks from ClockInv; what is left is what the *)
(* host was told.                                                          *)
(***************************************************************************)
FlagsTypeOK ==
  /\ loaded \in BOOLEAN
  /\ DOMAIN hostView \subseteq Identifier
  /\ \A e \in DOMAIN hostView : hostView[e] \in EndpointSlot
  /\ changed \in BOOLEAN /\ undone \in BOOLEAN /\ diverged \in BOOLEAN

(***************************************************************************)
(* The variables of the driver keep their types through every catalog,     *)
(* start, stop, IO cycle, failure and restart.                             *)
(***************************************************************************)
THEOREM DriverTypeCorrect == DriverSpec => []DriverTypeOK
  <1> DEFINE Inv == CycleInv /\ UpdateInv /\ ClockInv /\ FlagsTypeOK
  <1>1. DriverInit => CycleInv
    BY CycleInvInitially
  <1>2. DriverInit => FlagsTypeOK
    BY DEF DriverInit, RegistryInit, FlagsTypeOK
  <1>3. ASSUME ClockInv, FlagsTypeOK, [DriverNext]_driverVars PROVE FlagsTypeOK'
    <2> USE <1>3 DEF FlagsTypeOK
    <2>1. ASSUME UNCHANGED hostView, loaded' \in BOOLEAN, changed' \in BOOLEAN,
                 undone' \in BOOLEAN, diverged' \in BOOLEAN
          PROVE  FlagsTypeOK'
      BY <2>1
    <2>2. CASE InitializeRestored \/ InitializeEmpty
      BY <2>1, <2>2 DEF InitializeRestored, InitializeEmpty
    <2>3. ASSUME NEW u \in Updater,
                 \/ \E new \in Catalogs : Publish(u, new)
                 \/ WriteSucceeds(u)
                 \/ WriteFails(u)
                 \/ RollBack(u)
                 \/ RollBackRefused(u)
                 \/ notifyDeviceListChanged(u)
          PROVE  FlagsTypeOK'
      BY <2>1, <2>3 DEF Publish, WriteSucceeds, WriteFails, RollBack,
                        RollBackRefused, notifyDeviceListChanged
    <2>4. CASE HostReadsDevices
      <3>1. /\ hostView' = allocations /\ changed' = FALSE
            /\ UNCHANGED <<loaded, undone, diverged>>
        BY <2>4 DEF HostReadsDevices
      <3>2. allocations \in [Identities(endpoints) -> EndpointSlot]
        BY DEF ClockInv, RegistryInv, RegistryTypeOK
      <3>3. Identities(endpoints) \subseteq Identifier
        <4>1. \A i \in DOMAIN endpoints : endpoints[i] \in Definition
          BY DEF ClockInv, RegistryInv, RegistryTypeOK
        <4> QED BY <4>1 DEF Identities, Definition
      <3> QED BY <3>1, <3>2, <3>3
    <2>5. ASSUME NEW s \in EndpointSlot, NEW role \in Role, NEW client \in Client,
                 startIO(s, role, client) \/ stopIO(s, role, client)
          PROVE  FlagsTypeOK'
      BY <2>1, <2>5 DEF startIO, stopIO
    <2>6. ASSUME NEW t \in IOThread,
                 \/ \E s \in EndpointSlot, use \in Use : BeginIO(t, s, use)
                 \/ EndIO(t)
          PROVE  FlagsTypeOK'
      BY <2>1, <2>6 DEF BeginIO, EndIO
    <2>7. CASE Crash
      BY <2>7 DEF Crash
    <2>8. CASE UNCHANGED driverVars
      BY <2>1, <2>8 DEF driverVars
    <2> QED BY <2>2, <2>3, <2>4, <2>5, <2>6, <2>7, <2>8 DEF DriverNext
  <1>4. Inv => DriverTypeOK
    BY DEF CycleInv, UpdateInv, UpdateTypeOK, ClockInv, RegistryInv, FlagsTypeOK,
           DriverTypeOK
  <1>5. (CycleInv /\ FlagsTypeOK) /\ (UpdateInv /\ ClockInv) /\ [DriverNext]_driverVars
          => (CycleInv /\ FlagsTypeOK)'
    BY <1>3, CycleInvIsInductive
  <1>6. DriverSpec => [](UpdateInv /\ ClockInv)
    BY ClockInvAlways
  <1>7. DriverSpec => [](CycleInv /\ FlagsTypeOK)
    BY <1>1, <1>2, <1>5, <1>6, PTL DEF DriverSpec
  <1> QED BY <1>4, <1>6, <1>7, PTL

=============================================================================
