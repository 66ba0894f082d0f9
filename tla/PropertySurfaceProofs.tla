------------------------ MODULE PropertySurfaceProofs ------------------------
(***************************************************************************)
(* What holds of PropertySurface for every set of endpoint lists, every    *)
(* number of slots and however many catalogs overtake a walk.              *)
(***************************************************************************)
EXTENDS PropertySurface, EndpointRegistryProofs, SequenceTheorems

(***************************************************************************)
(* The lists clients set are lists of definitions, and so is the one a     *)
(* catalog that fails gives way to.                                        *)
(***************************************************************************)
ListsInv == endpoints \in Seq(Definition) /\ previous \in Seq(Definition)

LEMMA WalkLeavesDevices ==
  ASSUME Walk
  PROVE  UNCHANGED registryVars /\ UNCHANGED updateVars
  BY DEF Walk, BeginWalk, ListDevices, AskProperty, AskSize, GetSize, AskData, GetData,
         EndWalk, CheckProperty, WalkStep, Stop, Continue

LEMMA ListsInitially == SurfaceInit => ListsInv
  BY DEF SurfaceInit, RegistryInit, ListsInv

LEMMA ListsKept ==
  ASSUME ListsInv, [SurfaceNext]_surfaceVars
  PROVE  ListsInv'
  <1>1. ASSUME NEW definitions \in Offered, Publish(definitions) PROVE ListsInv'
    BY <1>1, SurfaceAssumption DEF Publish, Replace, ListsInv
  <1>2. CASE setCatalogReturns
    <2>1. (previous \in Seq(Definition))'
      <3>1. previous' = << >>
        BY <1>2 DEF setCatalogReturns, notifyDeviceListChanged, RollBack, RollBackRefused,
                    FinishUpdate
      <3>2. << >> \in Seq(Definition)
        OBVIOUS
      <3> QED BY <3>1, <3>2
    <2>2. endpoints' \in {endpoints, previous}
      BY <1>2 DEF setCatalogReturns, notifyDeviceListChanged, RollBack, RollBackRefused,
                  Replace, registryVars
    <2> QED BY <2>1, <2>2 DEF ListsInv
  <1>3. CASE Walk \/ UNCHANGED surfaceVars
    BY <1>3, WalkLeavesDevices DEF surfaceVars, updateVars, registryVars, ListsInv
  <1> QED BY <1>1, <1>2, <1>3 DEF SurfaceNext

(***************************************************************************)
(* To publish and to roll back are steps of the registry; nothing else     *)
(* touches it.                                                             *)
(***************************************************************************)
LEMMA SurfaceStepsRegistry ==
  ASSUME ListsInv, [SurfaceNext]_surfaceVars
  PROVE  [RegistryNext]_registryVars
  <1>1. ASSUME NEW definitions \in Offered, Publish(definitions)
        PROVE  RegistryNext
    BY <1>1, SurfaceAssumption DEF Publish, RegistryNext
  <1>2. CASE RollBack
    BY <1>2 DEF RollBack, RegistryNext, ListsInv
  <1>3. CASE notifyDeviceListChanged \/ RollBackRefused
    BY <1>3 DEF notifyDeviceListChanged, RollBackRefused
  <1>4. CASE Walk
    BY <1>4, WalkLeavesDevices
  <1>5. CASE UNCHANGED surfaceVars
    BY <1>5 DEF surfaceVars
  <1> QED BY <1>1, <1>2, <1>3, <1>4, <1>5 DEF SurfaceNext, setCatalogReturns

(***************************************************************************)
(* The surface implements the registry it extends: to publish a catalog,   *)
(* to roll it back and to walk over the devices is to replace the registry *)
(* or to leave it alone.                                                   *)
(***************************************************************************)
THEOREM SurfaceImplementsRegistry == SurfaceSpec => RegistrySpec
  <1>1. SurfaceInit => RegistryInit
    BY DEF SurfaceInit
  <1> QED BY <1>1, ListsInitially, ListsKept, SurfaceStepsRegistry, PTL
          DEF SurfaceSpec, RegistrySpec

(***************************************************************************)
(* Object IDs of identities that stay never change (EndpointRegistry.hpp:  *)
(* 92-93) in any publication or rollback, while the host walks.            *)
(***************************************************************************)
THEOREM SurfaceKeepsIdentities == SurfaceSpec => StableIdentity
  BY SurfaceImplementsRegistry, StableIdentityHolds

-----------------------------------------------------------------------------
(***************************************************************************)
(* The walk is a record, which SurfaceTypeOK alone does not say.           *)
(***************************************************************************)
WalkField == {"pc", "overtakes", "todo", "room", "uid", "refusal"}

WalkIsRecord ==
  walk = [f \in WalkField |-> walk[f]]

\* A rollback may overtake a walk once more than publications may.
OvertakesInv ==
  setting /\ walk.pc # "idle" => walk.overtakes <= MaxOvertakes

TypeInv == RegistryInv /\ SurfaceTypeOK /\ WalkIsRecord /\ OvertakesInv

(***************************************************************************)
(* What a catalog that comes or goes does to a walk under way.             *)
(***************************************************************************)
LEMMA WalkIsOvertaken ==
  ASSUME WalkIsRecord, OvertakeWalk
  PROVE  /\ WalkIsRecord'
         /\ walk.pc' = walk.pc /\ walk.refusal' = walk.refusal
         /\ walk.overtakes' = IF walk.pc = "idle" THEN walk.overtakes ELSE walk.overtakes + 1
  BY DEF OvertakeWalk, WalkIsRecord, WalkField

(***************************************************************************)
(* What a step of the walk leaves alone and what it may do to the walk.    *)
(***************************************************************************)
LEMMA WalkKeepsType ==
  ASSUME TypeInv, Walk
  PROVE  WalkIsRecord' /\ SurfaceTypeOK' /\ OvertakesInv'
  <1>1. UNCHANGED registryVars /\ UNCHANGED updateVars
    BY WalkLeavesDevices
  <1>2. RegistryTypeOK' /\ (previous \in Seq(Definition))' /\ setting' = setting
    BY <1>1, StutterKeepsRegistryInv DEF TypeInv, RegistryInv, SurfaceTypeOK, updateVars
  <1>3. 0 \in 0 .. MaxOvertakes + 1 /\ 0 <= MaxOvertakes
    BY SurfaceAssumption
  <1> DEFINE Pc == {"idle", "listing", "asking", "claimed", "sizing", "sized", "reading"}
             Stepped == /\ WalkIsRecord' /\ walk.pc' \in Pc
                        /\ walk.overtakes' \in {0, walk.overtakes}
                        /\ walk.overtakes' # 0 /\ walk.pc' # "idle" => walk.pc # "idle"
             Typed == /\ Stepped
                      /\ \A device \in view' : Len(device) = 3
                      /\ changed' \in BOOLEAN /\ untold' \in BOOLEAN
  <1>4. /\ WalkIsRecord /\ walk.pc \in Pc
        /\ \A device \in view : Len(device) = 3
        /\ changed \in BOOLEAN /\ untold \in BOOLEAN /\ setting \in BOOLEAN
    BY DEF TypeInv, SurfaceTypeOK
  <1>5. ASSUME NEW pc \in Pc, NEW overtakes \in {0, walk.overtakes}, NEW todo, NEW room,
               NEW uid, NEW refusal,
               walk' = [pc |-> pc, overtakes |-> overtakes, todo |-> todo, room |-> room,
                        uid |-> uid, refusal |-> refusal],
               overtakes # 0 /\ pc # "idle" => walk.pc # "idle"
        PROVE  Stepped
    <2>1. walk.pc' = pc /\ walk.overtakes' = overtakes
      BY <1>5
    <2>2. WalkIsRecord'
      BY <1>5 DEF WalkIsRecord, WalkField
    <2> QED BY <1>5, <2>1, <2>2
  <1>6. ASSUME NEW status, Stop(status) PROVE Typed
    <2>1. /\ walk' = [pc |-> "idle", overtakes |-> walk.overtakes, todo |-> << >>,
                      room |-> 0, uid |-> << >>, refusal |-> status]
          /\ view' = {} /\ UNCHANGED <<changed, untold>>
      BY <1>6 DEF Stop, WalkStep, Idle
    <2> QED BY <1>4, <1>5, <2>1
  <1>7. ASSUME walk.pc # "idle", walk.pc' \in Pc, WalkIsRecord',
               walk.overtakes' = walk.overtakes, UNCHANGED <<changed, view, untold>>
        PROVE  Typed
    BY <1>4, <1>7
  <1> HIDE DEF Stepped, Typed
  <1>8. ASSUME walk.pc # "idle", NEW pc \in Pc, NEW refusal, CheckProperty(pc, refusal)
        PROVE  Typed
    <2>1. CASE Stop(refusal)
      BY <1>6, <2>1
    <2>2. CASE Continue([walk EXCEPT !.pc = pc])
      <3>1. WalkIsRecord' /\ walk.pc' = pc /\ walk.overtakes' = walk.overtakes
            /\ UNCHANGED <<changed, view, untold>>
        BY <1>4, <2>2 DEF Continue, WalkStep, WalkIsRecord, WalkField
      <3> QED BY <1>7, <1>8, <3>1
    <2> QED BY <1>8, <2>1, <2>2 DEF CheckProperty
  <1>9. ASSUME BeginWalk PROVE Typed
    <2>1. walk' = [pc |-> "listing", overtakes |-> 0, todo |-> << >>,
                   room |-> walk'.room, uid |-> << >>, refusal |-> "none"]
      BY <1>9 DEF BeginWalk, WalkStep, Idle
    <2>2. Stepped
      BY <1>5, <2>1
    <2>3. changed' = FALSE /\ untold' = setting /\ view' = {}
      BY <1>9 DEF BeginWalk
    <2>4. changed' \in BOOLEAN /\ untold' \in BOOLEAN
      BY <1>4, <2>3
    <2>5. \A device \in view' : Len(device) = 3
      BY <2>3
    <2> QED BY <2>2, <2>4, <2>5 DEF Typed
  <1>10. ASSUME ListDevices PROVE Typed
    <2> DEFINE answer == answerPropertyData(kAudioObjectPlugInObject, "DeviceList",
                                            "global", NoQualifier, walk.room)
    <2>1. CASE Stop(answer.status)
      BY <1>6, <2>1
    <2>2. CASE Continue([walk EXCEPT !.pc = "asking", !.todo = answer.value])
      <3>1. walk.pc = "listing"
        BY <1>10 DEF ListDevices
      <3> HIDE DEF answer
      <3>2. WalkIsRecord' /\ walk.pc' = "asking" /\ walk.overtakes' = walk.overtakes
            /\ UNCHANGED <<changed, view, untold>>
        BY <1>4, <2>2 DEF Continue, WalkStep, WalkIsRecord, WalkField
      <3> QED BY <1>7, <3>1, <3>2
    <2> QED BY <1>10, <2>1, <2>2 DEF ListDevices
  <1>11. ASSUME AskProperty \/ AskSize \/ AskData PROVE Typed
    <2>1. CASE AskProperty
      BY <1>8, <2>1 DEF AskProperty
    <2>2. CASE AskSize
      BY <1>8, <2>2 DEF AskSize
    <2>3. CASE AskData
      BY <1>8, <2>3 DEF AskData
    <2> QED BY <1>11, <2>1, <2>2, <2>3
  <1>12. ASSUME GetSize PROVE Typed
    <2> DEFINE answer == SizeAnswer(Device, Question, "input")
    <2>1. CASE Stop(answer.status)
      BY <1>6, <2>1
    <2>2. CASE Continue([walk EXCEPT !.pc = "sized", !.room = answer.size])
      <3>1. walk.pc = "sizing"
        BY <1>12 DEF GetSize
      <3> HIDE DEF answer
      <3>2. WalkIsRecord' /\ walk.pc' = "sized" /\ walk.overtakes' = walk.overtakes
            /\ UNCHANGED <<changed, view, untold>>
        BY <1>4, <2>2 DEF Continue, WalkStep, WalkIsRecord, WalkField
      <3> QED BY <1>7, <3>1, <3>2
    <2> QED BY <1>12, <2>1, <2>2 DEF GetSize
  <1>13. ASSUME GetData PROVE Typed
    <2> DEFINE answer == DataAnswer(Device, Question, "input", NoQualifier, walk.room)
    <2>1. walk.pc = "reading"
      BY <1>13 DEF GetData
    <2>2. CASE answer.status # "noErr"
      <3>1. Stop(answer.status)
        BY <1>13, <2>2 DEF GetData
      <3> QED BY <1>6, <3>1
    <2>3. CASE answer.status = "noErr" /\ Question = "DeviceUID"
      <3>1. Continue([walk EXCEPT !.pc = "asking", !.uid = answer.value])
        BY <1>13, <2>3 DEF GetData
      <3> HIDE DEF answer
      <3>2. WalkIsRecord' /\ walk.pc' = "asking" /\ walk.overtakes' = walk.overtakes
            /\ UNCHANGED <<changed, view, untold>>
        BY <1>4, <3>1 DEF Continue, WalkStep, WalkIsRecord, WalkField
      <3> QED BY <1>7, <2>1, <3>2
    <2>4. CASE answer.status = "noErr" /\ Question # "DeviceUID"
      <3>1. /\ view' = view \cup {<<Device, walk.uid, answer.value>>}
            /\ WalkStep([walk EXCEPT !.pc = "asking", !.uid = << >>, !.todo = Tail(@)])
            /\ UNCHANGED <<changed, untold>>
        BY <1>13, <2>4 DEF GetData
      <3> HIDE DEF answer
      <3>2. WalkIsRecord' /\ walk.pc' = "asking" /\ walk.overtakes' = walk.overtakes
        BY <1>4, <3>1 DEF WalkStep, WalkIsRecord, WalkField
      <3>3. Len(<<Device, walk.uid, answer.value>>) = 3
        OBVIOUS
      <3>4. \A device \in view' : Len(device) = 3
        BY <1>4, <3>1, <3>3
      <3>5. Stepped
        BY <2>1, <3>2 DEF Stepped
      <3> QED BY <1>4, <3>1, <3>4, <3>5 DEF Typed
    <2> QED BY <2>2, <2>3, <2>4
  <1>14. ASSUME EndWalk PROVE Typed
    <2>1. walk' = Idle /\ UNCHANGED <<changed, view, untold>>
      BY <1>14 DEF EndWalk, Continue, WalkStep
    <2>2. Stepped
      BY <1>5, <2>1 DEF Idle
    <2>3. (\A device \in view' : Len(device) = 3)
          /\ changed' \in BOOLEAN /\ untold' \in BOOLEAN
      BY <1>4, <2>1
    <2> QED BY <2>2, <2>3 DEF Typed
  <1>15. Typed
    BY <1>9, <1>10, <1>11, <1>12, <1>13, <1>14 DEF Walk
  <1>16. walk.overtakes' \in 0 .. MaxOvertakes + 1
    BY <1>3, <1>15 DEF TypeInv, SurfaceTypeOK, Typed, Stepped
  <1>17. OvertakesInv'
    BY <1>2, <1>3, <1>15 DEF TypeInv, SurfaceTypeOK, OvertakesInv, Typed, Stepped
  <1> QED BY <1>2, <1>4, <1>15, <1>16, <1>17 DEF SurfaceTypeOK, Typed, Stepped

-----------------------------------------------------------------------------
(***************************************************************************)
(* The devices in the order of the list: the object at i, and what the     *)
(* host learns of it on a walk that no catalog overtakes.                  *)
(***************************************************************************)
EndpointAt(i) == endpoints[(i + 1) \div 2].identifier

ObjectAt(i) ==
  <<EndpointAt(i), IF i % 2 = 1 THEN "visibleDevice" ELSE "companionDevice">>

InputStreams(i) == StreamsIn(ObjectAt(i), "input")

Learned(i) == <<deviceList[i], deviceUID(ObjectAt(i)), InputStreams(i)>>

(***************************************************************************)
(* Positions in the list and in the catalog.                               *)
(***************************************************************************)
LEMMA ListPositions ==
  ASSUME endpoints \in Seq(Definition)
  PROVE  /\ Len(deviceList) = 2 * Len(endpoints) /\ Len(deviceList) \in Nat
         /\ DOMAIN deviceList = 1 .. 2 * Len(endpoints)
         /\ \A i \in DOMAIN deviceList :
              /\ EndpointAt(i) \in Identities(endpoints)
              /\ deviceList[i] = objectID(allocations[EndpointAt(i)], ObjectAt(i)[2])
  <1>1. Len(endpoints) \in Nat /\ DOMAIN endpoints = 1 .. Len(endpoints)
    OBVIOUS
  <1>2. 2 * Len(endpoints) \in Nat
    BY <1>1
  <1>3. DOMAIN deviceList = 1 .. 2 * Len(endpoints) /\ Len(deviceList) = 2 * Len(endpoints)
    BY <1>2 DEF deviceList
  <1>4. ASSUME NEW i \in 1 .. 2 * Len(endpoints)
        PROVE  /\ EndpointAt(i) \in Identities(endpoints)
               /\ deviceList[i] = objectID(allocations[EndpointAt(i)], ObjectAt(i)[2])
    <2>1. (i + 1) \div 2 \in DOMAIN endpoints
      BY <1>1
    <2> QED BY <2>1 DEF EndpointAt, ObjectAt, Identities, deviceList
  <1> QED BY <1>2, <1>3, <1>4

(***************************************************************************)
(* Every ID of an endpoint is known to the driver as the object it names,  *)
(* and so is every ID of the list.                                         *)
(***************************************************************************)
LEMMA ObjectIsKnown ==
  ASSUME RegistryInv, NEW e \in Identities(endpoints), NEW kind \in Kind,
         NEW id, id = objectID(allocations[e], kind)
  PROVE  /\ context(id) = {<<e, kind>>}
         /\ endpointSlot(id) = allocations[e]
         /\ id \in Int /\ id >= firstEndpointObjectID
         /\ id # kAudioObjectPlugInObject
  <1>1. e \in DOMAIN allocations /\ allocations[e] \in EndpointSlot
    BY DEF RegistryInv, RegistryTypeOK
  <1>2. context(id) = {<<e, kind>>} /\ endpointSlot(id) = allocations[e]
    BY <1>1, ObjectsResolveWhenDistinct DEF ObjectsResolve, context
  <1>3. id >= firstEndpointObjectID
    BY <1>1, ObjectIDsAreDistinct
  <1>4. allocations[e] \in Int /\ Offset(kind) \in Int
    BY <1>1 DEF EndpointSlot, Offset, Kind
  <1>5. id \in Int
    BY <1>4 DEF objectID, firstEndpointObjectID
  <1> QED BY <1>2, <1>3, <1>5 DEF firstEndpointObjectID, kAudioObjectPlugInObject

LEMMA ListedDeviceIsKnown ==
  ASSUME RegistryInv, NEW i \in DOMAIN deviceList
  PROVE  /\ context(deviceList[i]) = {ObjectAt(i)}
         /\ isDevice(ObjectAt(i))
         /\ deviceList[i] # kAudioObjectPlugInObject
  <1>1. /\ EndpointAt(i) \in Identities(endpoints)
        /\ deviceList[i] = objectID(allocations[EndpointAt(i)], ObjectAt(i)[2])
    BY ListPositions DEF RegistryInv, RegistryTypeOK
  <1>2. ObjectAt(i)[2] \in Kind /\ isDevice(ObjectAt(i))
    BY DEF ObjectAt, Kind, isDevice
  <1>3. ObjectAt(i) = <<EndpointAt(i), ObjectAt(i)[2]>>
    BY DEF ObjectAt
  <1> QED BY <1>1, <1>2, <1>3, ObjectIsKnown

(***************************************************************************)
(* What the calls of the host about a listed device give.                  *)
(***************************************************************************)
LEMMA ListedDeviceAnswers ==
  ASSUME RegistryInv, NEW i \in DOMAIN deviceList
  PROVE  /\ hasProperty(deviceList[i], "DeviceUID")
         /\ hasProperty(deviceList[i], "Streams")
         /\ SizeAnswer(deviceList[i], "DeviceUID", "input") = Size(8)
         /\ SizeAnswer(deviceList[i], "Streams", "input") = Size(4 * Len(InputStreams(i)))
         /\ DataAnswer(deviceList[i], "DeviceUID", "input", NoQualifier, 8)
              = [status |-> "noErr", size |-> 8, value |-> deviceUID(ObjectAt(i))]
         /\ LET data == DataAnswer(deviceList[i], "Streams", "input", NoQualifier,
                                   4 * Len(InputStreams(i)))
            IN  data.status = "noErr" /\ data.value = InputStreams(i)
  <1>1. /\ context(deviceList[i]) = {ObjectAt(i)} /\ isDevice(ObjectAt(i))
        /\ deviceList[i] # kAudioObjectPlugInObject
    BY ListedDeviceIsKnown
  <1>2. (CHOOSE object \in context(deviceList[i]) : TRUE) = ObjectAt(i)
    BY <1>1
  <1>3. /\ SizeAnswer(deviceList[i], "DeviceUID", "input")
             = DeviceSize(ObjectAt(i), "DeviceUID", "input")
        /\ SizeAnswer(deviceList[i], "Streams", "input")
             = DeviceSize(ObjectAt(i), "Streams", "input")
        /\ \A room : /\ DataAnswer(deviceList[i], "DeviceUID", "input", NoQualifier, room)
                          = DeviceData(ObjectAt(i), "DeviceUID", "input", room)
                     /\ DataAnswer(deviceList[i], "Streams", "input", NoQualifier, room)
                          = DeviceData(ObjectAt(i), "Streams", "input", room)
    BY <1>1, <1>2 DEF SizeAnswer, DataAnswer
  <1>4. hasProperty(deviceList[i], "DeviceUID") /\ hasProperty(deviceList[i], "Streams")
    BY <1>1 DEF hasProperty, DeviceSelectors, SelectorsWithoutControls
  <1>5. /\ DeviceSize(ObjectAt(i), "DeviceUID", "input") = Size(8)
        /\ DeviceSize(ObjectAt(i), "Streams", "input")
             = Size(IF scopeIncludesDirection("input", direction(ObjectAt(i))) THEN 4 ELSE 0)
    BY DEF DeviceSize
  <1>6. /\ DeviceData(ObjectAt(i), "DeviceUID", "input", 8)
             = CFString(8, deviceUID(ObjectAt(i)))
        /\ \A room : DeviceData(ObjectAt(i), "Streams", "input", room)
             = IF InputStreams(i) = << >>
                 THEN [status |-> "noErr", size |-> 0, value |-> << >>]
                 ELSE ObjectIDs(room, InputStreams(i))
    BY DEF DeviceData, InputStreams, Filled
  <1>7. CFString(8, deviceUID(ObjectAt(i)))
          = [status |-> "noErr", size |-> 8, value |-> deviceUID(ObjectAt(i))]
    BY DEF CFString, Filled
  <1>8. CASE scopeIncludesDirection("input", direction(ObjectAt(i)))
    <2> DEFINE stream == streamObjectID(ObjectAt(i))
    <2>1. InputStreams(i) = <<stream>>
      BY <1>8 DEF InputStreams, StreamsIn
    <2> HIDE DEF stream
    <2>2. Len(<<stream>>) = 1 /\ <<stream>> # << >> /\ SubSeq(<<stream>>, 1, 1) = <<stream>>
      <3>1. <<stream>> \in Seq({stream}) /\ Len(<<stream>>) = 1 /\ <<stream>> # << >>
        OBVIOUS
      <3> QED BY <3>1, SubSeqFull
    <2>3. ObjectIDs(4, <<stream>>) = [status |-> "noErr", size |-> 4, value |-> <<stream>>]
      BY <2>2 DEF ObjectIDs, Filled
    <2> QED BY <1>3, <1>4, <1>5, <1>6, <1>7, <1>8, <2>1, <2>2, <2>3
  <1>9. CASE ~scopeIncludesDirection("input", direction(ObjectAt(i)))
    <2>1. InputStreams(i) = << >> /\ Len(<< >>) = 0
      BY <1>9 DEF InputStreams, StreamsIn
    <2> QED BY <1>3, <1>4, <1>5, <1>6, <1>7, <1>9, <2>1
  <1> QED BY <1>8, <1>9

-----------------------------------------------------------------------------
(***************************************************************************)
(* The devices the host should know are those of the list.                 *)
(***************************************************************************)
LEMMA LearnedDevices ==
  ASSUME RegistryInv
  PROVE  Devices = {Learned(i) : i \in DOMAIN deviceList}
  <1>1. endpoints \in Seq(Definition)
    BY DEF RegistryInv, RegistryTypeOK
  <1>2. ASSUME NEW i \in DOMAIN deviceList PROVE Learned(i) \in Devices
    <2>1. /\ EndpointAt(i) \in Identities(endpoints)
          /\ deviceList[i] = objectID(allocations[EndpointAt(i)], ObjectAt(i)[2])
      BY <1>1, ListPositions
    <2>2. CASE i % 2 = 1
      <3>1. ObjectAt(i) = <<EndpointAt(i), "visibleDevice">> /\ isVisible(ObjectAt(i))
        BY <2>2 DEF ObjectAt, isVisible
      <3>2. Learned(i) = DeviceOf(EndpointAt(i), "visibleDevice", "visibleStream",
                                  visibleDeviceUID(EndpointAt(i)),
                                  DefinitionOf(EndpointAt(i)).direction)
        BY <2>1, <3>1 DEF Learned, DeviceOf, InputStreams, StreamsIn, deviceUID, direction,
                         streamObjectID, scopeIncludesDirection
      <3> QED BY <2>1, <3>2 DEF Devices
    <2>3. CASE i % 2 # 1
      <3>1. ObjectAt(i) = <<EndpointAt(i), "companionDevice">> /\ ~isVisible(ObjectAt(i))
        BY <2>3 DEF ObjectAt, isVisible
      <3>2. Learned(i) = DeviceOf(EndpointAt(i), "companionDevice", "companionStream",
                                  companionDeviceUID(EndpointAt(i)),
                                  companionDirection(EndpointAt(i)))
        BY <2>1, <3>1 DEF Learned, DeviceOf, InputStreams, StreamsIn, deviceUID, direction,
                         streamObjectID, scopeIncludesDirection
      <3> QED BY <2>1, <3>2 DEF Devices
    <2> QED BY <2>2, <2>3
  <1>3. ASSUME NEW e \in Identities(endpoints)
        PROVE  /\ \E i \in DOMAIN deviceList :
                    Learned(i) = DeviceOf(e, "visibleDevice", "visibleStream",
                                          visibleDeviceUID(e), DefinitionOf(e).direction)
               /\ \E i \in DOMAIN deviceList :
                    Learned(i) = DeviceOf(e, "companionDevice", "companionStream",
                                          companionDeviceUID(e), companionDirection(e))
    <2>1. PICK j \in DOMAIN endpoints : endpoints[j].identifier = e
      BY DEF Identities
    <2>2. j \in Nat /\ j >= 1 /\ j <= Len(endpoints) /\ Len(endpoints) \in Nat
      BY <1>1
    <2>3. /\ 2 * j - 1 \in DOMAIN deviceList /\ 2 * j \in DOMAIN deviceList
          /\ (2 * j - 1) % 2 = 1 /\ (2 * j) % 2 = 0
          /\ ((2 * j - 1) + 1) \div 2 = j /\ (2 * j + 1) \div 2 = j
      <3>1. 2 * j - 1 \in 1 .. 2 * Len(endpoints) /\ 2 * j \in 1 .. 2 * Len(endpoints)
        BY <2>2
      <3>2. (2 * j - 1) % 2 = 1 /\ (2 * j) % 2 = 0
        BY <2>2
      <3>3. ((2 * j - 1) + 1) \div 2 = j /\ (2 * j + 1) \div 2 = j
        BY <2>2
      <3> QED BY <1>1, <3>1, <3>2, <3>3, ListPositions
    <2>4. EndpointAt(2 * j - 1) = e /\ EndpointAt(2 * j) = e
      BY <2>1, <2>3 DEF EndpointAt
    <2>5. ObjectAt(2 * j - 1) = <<e, "visibleDevice">> /\ ObjectAt(2 * j) = <<e, "companionDevice">>
      BY <2>3, <2>4 DEF ObjectAt
    <2>6. /\ deviceList[2 * j - 1] = objectID(allocations[e], "visibleDevice")
          /\ deviceList[2 * j] = objectID(allocations[e], "companionDevice")
      <3>1. \A i \in DOMAIN deviceList :
              deviceList[i] = objectID(allocations[EndpointAt(i)], ObjectAt(i)[2])
        BY <1>1, ListPositions
      <3>2. /\ deviceList[2 * j - 1] = objectID(allocations[e], ObjectAt(2 * j - 1)[2])
            /\ deviceList[2 * j] = objectID(allocations[e], ObjectAt(2 * j)[2])
        BY <2>3, <2>4, <3>1
      <3>3. ObjectAt(2 * j - 1)[2] = "visibleDevice" /\ ObjectAt(2 * j)[2] = "companionDevice"
        BY <2>5
      <3> QED BY <3>2, <3>3
    <2>7. Learned(2 * j - 1) = DeviceOf(e, "visibleDevice", "visibleStream",
                                        visibleDeviceUID(e), DefinitionOf(e).direction)
      BY <2>5, <2>6 DEF Learned, DeviceOf, InputStreams, StreamsIn, deviceUID, direction,
                        streamObjectID, scopeIncludesDirection, isVisible
    <2>8. Learned(2 * j) = DeviceOf(e, "companionDevice", "companionStream",
                                    companionDeviceUID(e), companionDirection(e))
      BY <2>5, <2>6 DEF Learned, DeviceOf, InputStreams, StreamsIn, deviceUID, direction,
                        streamObjectID, scopeIncludesDirection, isVisible
    <2> QED BY <2>3, <2>7, <2>8
  <1> QED BY <1>2, <1>3 DEF Devices

(***************************************************************************)
(* The rest of the list from position k on.                                *)
(***************************************************************************)
Rest(k) == SubSeq(deviceList, k, Len(deviceList))

LEMMA RestOfList ==
  ASSUME RegistryInv, NEW k \in 1 .. Len(deviceList)
  PROVE  /\ k \in DOMAIN deviceList
         /\ Rest(k) # << >> /\ Head(Rest(k)) = deviceList[k] /\ Tail(Rest(k)) = Rest(k + 1)
  <1>1. endpoints \in Seq(Definition)
    BY DEF RegistryInv, RegistryTypeOK
  <1>2. DOMAIN deviceList = 1 .. Len(deviceList) /\ Len(deviceList) \in Nat
    BY <1>1, ListPositions
  <1> DEFINE S == {deviceList[i] : i \in DOMAIN deviceList}
  <1>3. deviceList \in Seq(S)
    <2>1. deviceList = [i \in 1 .. Len(deviceList) |-> deviceList[i]]
      BY <1>2 DEF deviceList
    <2> QED BY <1>2, <2>1
  <1> HIDE DEF S
  <1>4. Head(Rest(k)) = deviceList[k] /\ Tail(Rest(k)) = Rest(k + 1)
    <2>1. Len(deviceList) \in k .. Len(deviceList)
      BY <1>2
    <2> QED BY <1>3, <2>1, HeadTailOfSubSeq DEF Rest
  <1>5. Rest(k) # << >>
    <2>1. /\ k \in Int /\ Len(deviceList) \in Int /\ k <= Len(deviceList)
          /\ \A i \in k .. Len(deviceList) : deviceList[i] \in S
      BY <1>2, <1>3
    <2>2. Len(Rest(k)) = Len(deviceList) - k + 1
      BY <2>1, SubSeqProperties DEF Rest
    <2>3. Len(Rest(k)) # 0
      BY <2>1, <2>2
    <2> QED BY <2>3
  <1> QED BY <1>2, <1>4, <1>5

-----------------------------------------------------------------------------
(***************************************************************************)
(* A walk that no catalog has overtaken: it has learned the devices before *)
(* position k and has the rest of the list still to ask for.               *)
(***************************************************************************)
HasLearned(k) == view = {Learned(i) : i \in 1 .. k - 1}

AtDevice(k) ==
  /\ k \in 1 .. Len(deviceList) + 1
  /\ walk.todo = Rest(k)
  /\ HasLearned(k)
  /\ walk.pc # "asking" => k <= Len(deviceList)
  /\ walk.uid # << >> => k <= Len(deviceList) /\ walk.uid = deviceUID(ObjectAt(k))
  /\ walk.pc \in {"sized", "reading"} =>
       walk.room = IF walk.uid = << >> THEN 8 ELSE 4 * Len(InputStreams(k))

AtSomeDevice ==
  walk.pc \in {"asking", "claimed", "sizing", "sized", "reading"} /\ \E k \in Int : AtDevice(k)

WalkIsOnTrack ==
  /\ walk.refusal = "none"
  /\ \/ walk.pc = "idle" /\ view = Devices
     \/ walk.pc = "listing" /\ walk.uid = << >> /\ view = {} /\ walk.room = 4 * Len(deviceList)
     \/ AtSomeDevice

(***************************************************************************)
(* A walk under way that nothing overtook is on track, and only one that   *)
(* something overtook was refused.                                         *)
(***************************************************************************)
TrackInv ==
  /\ walk.pc # "idle" /\ walk.overtakes = 0 => WalkIsOnTrack
  /\ walk.refusal # "none" => walk.overtakes # 0

(***************************************************************************)
(* Nothing is outstanding for the host: then it knows the devices there    *)
(* are, or is on a walk nothing overtook; or, while a catalog is set,      *)
(* knows those from before and does not look.                              *)
(***************************************************************************)
SettledInv ==
  ~changed /\ ~untold =>
    IF setting THEN walk.pc = "idle" /\ view = before
    ELSE IF walk.pc = "idle" THEN view = Devices
    ELSE walk.overtakes = 0

ViewInv == TrackInv /\ SettledInv

(***************************************************************************)
(* Listing brings the walk to the first device.                            *)
(***************************************************************************)
LEMMA TrackKeptByListing ==
  ASSUME TypeInv, WalkIsOnTrack, ListDevices
  PROVE  WalkIsOnTrack'
  <1>1. /\ walk.uid = << >> /\ view = {} /\ walk.room = 4 * Len(deviceList)
        /\ endpoints \in Seq(Definition) /\ walk.refusal = "none"
    BY DEF ListDevices, WalkIsOnTrack, AtSomeDevice, TypeInv, RegistryInv, RegistryTypeOK
  <1>2. Len(deviceList) \in Nat /\ DOMAIN deviceList = 1 .. Len(deviceList)
    BY <1>1, ListPositions
  <1> DEFINE S == {deviceList[i] : i \in DOMAIN deviceList}
             answer == answerPropertyData(kAudioObjectPlugInObject, "DeviceList", "global",
                                          NoQualifier, walk.room)
  <1>3. deviceList \in Seq(S)
    <2>1. deviceList = [i \in 1 .. Len(deviceList) |-> deviceList[i]]
      BY <1>2 DEF deviceList
    <2> QED BY <1>2, <2>1
  <1>4. answer = ObjectIDs(walk.room, deviceList)
    BY DEF answerPropertyData, DataAnswer, PlugInData, hasProperty, PlugInSelectors,
           CommonSelectors
  <1>5. ~(walk.room = 0 /\ deviceList # << >>)
    <2> HIDE DEF S
    <2> QED BY <1>1, <1>2, <1>3
  <1>6. answer.status = "noErr" /\ answer.value = Rest(1)
    BY <1>1, <1>2, <1>4, <1>5 DEF ObjectIDs, Filled, Rest
  <1> HIDE DEF answer, S
  <1>7. walk' = [walk EXCEPT !.pc = "asking", !.todo = Rest(1)]
        /\ UNCHANGED registryVars /\ UNCHANGED view
    BY <1>6 DEF ListDevices, Continue, WalkStep, answer
  <1>8. /\ walk.pc' = "asking" /\ walk.todo' = Rest(1) /\ walk.uid' = << >>
        /\ walk.refusal' = "none"
    BY <1>1, <1>7 DEF TypeInv, WalkIsRecord, WalkField
  <1>9. Rest(1)' = Rest(1) /\ (Len(deviceList) = Len(deviceList))'
    BY <1>7 DEF registryVars, Rest, deviceList
  <1>10. HasLearned(1)'
    <2>1. 1 .. 1 - 1 = {}
      OBVIOUS
    <2> QED BY <1>1, <1>7, <2>1 DEF HasLearned
  <1>11. (Len(deviceList))' = Len(deviceList)
    BY <1>7 DEF registryVars, deviceList
  <1>12. AtDevice(1)'
    BY <1>2, <1>8, <1>9, <1>10, <1>11 DEF AtDevice
  <1> QED BY <1>8, <1>12 DEF WalkIsOnTrack, AtSomeDevice

(***************************************************************************)
(* Between catalogs the list and what is to be learned do not change.      *)
(***************************************************************************)
LEMMA ListStays ==
  ASSUME UNCHANGED registryVars
  PROVE  /\ (Len(deviceList))' = Len(deviceList)
         /\ \A k : /\ Rest(k)' = Rest(k)
                   /\ Learned(k)' = Learned(k)
                   /\ InputStreams(k)' = InputStreams(k)
                   /\ (deviceUID(ObjectAt(k)))' = deviceUID(ObjectAt(k))
         /\ Devices' = Devices
  <1> USE DEF registryVars, deviceList
  <1>1. \A k : ObjectAt(k)' = ObjectAt(k)
    BY DEF ObjectAt, EndpointAt
  <1>2. \A e : DefinitionOf(e)' = DefinitionOf(e)
    BY DEF DefinitionOf, IndexOf
  <1>3. \A k : (deviceUID(ObjectAt(k)))' = deviceUID(ObjectAt(k))
    BY <1>1, <1>2 DEF deviceUID, visibleDeviceUID, companionDeviceUID, isVisible
  <1>4. \A k : InputStreams(k)' = InputStreams(k)
    BY <1>1, <1>2 DEF InputStreams, StreamsIn, direction, companionDirection, Opposite,
                      scopeIncludesDirection, streamObjectID, isVisible
  <1>5. \A k : Rest(k)' = Rest(k) /\ Learned(k)' = Learned(k)
    BY <1>3, <1>4 DEF Rest, Learned
  <1>6. Devices' = Devices
    BY <1>2 DEF Devices, DeviceOf, Identities, visibleDeviceUID, companionDeviceUID,
                companionDirection, Opposite
  <1> QED BY <1>3, <1>4, <1>5, <1>6

(***************************************************************************)
(* A walk on track that has devices left is at one of the list, knows it   *)
(* by its ID and has asked nothing of it or its UID.                       *)
(***************************************************************************)
LEMMA WalkIsAtDevice ==
  ASSUME TypeInv, WalkIsOnTrack, walk.pc \notin {"idle", "listing"},
         walk.pc = "asking" => walk.todo # << >>
  PROVE  \E k \in DOMAIN deviceList :
           /\ AtDevice(k)
           /\ k \in 1 .. Len(deviceList)
           /\ Device = deviceList[k]
           /\ Tail(walk.todo) = Rest(k + 1)
  <1>1. PICK k \in Int : AtDevice(k)
    BY DEF WalkIsOnTrack, AtSomeDevice
  <1>2. Len(deviceList) \in Nat
    BY ListPositions DEF TypeInv, RegistryInv, RegistryTypeOK
  <1>3. k <= Len(deviceList)
    <2>1. SUFFICES ASSUME k = Len(deviceList) + 1, walk.pc = "asking" PROVE FALSE
      BY <1>1, <1>2 DEF AtDevice
    <2>2. Rest(k) = << >>
      BY <1>2, <2>1, SubSeqEmpty DEF Rest
    <2> QED BY <1>1, <2>1, <2>2 DEF AtDevice
  <1>4. k \in 1 .. Len(deviceList)
    BY <1>1, <1>2, <1>3 DEF AtDevice
  <1>5. k \in DOMAIN deviceList /\ Head(Rest(k)) = deviceList[k] /\ Tail(Rest(k)) = Rest(k + 1)
    BY <1>4, RestOfList DEF TypeInv
  <1> QED BY <1>1, <1>4, <1>5 DEF AtDevice, Device

(***************************************************************************)
(* No question about a device of the list is refused.                      *)
(***************************************************************************)
LEMMA TrackKeptByAsking ==
  ASSUME TypeInv, WalkIsOnTrack, AskProperty \/ AskSize \/ GetSize \/ AskData
  PROVE  WalkIsOnTrack'
  <1>1. PICK k \in DOMAIN deviceList :
               /\ AtDevice(k) /\ k \in 1 .. Len(deviceList) /\ Device = deviceList[k]
    BY WalkIsAtDevice DEF AskProperty, AskSize, GetSize, AskData
  <1>2. RegistryInv /\ walk.refusal = "none"
    BY DEF TypeInv, WalkIsOnTrack
  <1>3. Question \in {"DeviceUID", "Streams"}
    BY DEF Question
  <1>4. CASE AskProperty \/ AskSize \/ AskData
    <2>1. hasProperty(Device, Question)
      BY <1>1, <1>2, <1>3, ListedDeviceAnswers
    <2>2. PICK pc \in {"claimed", "sizing", "reading"} :
            /\ walk' = [walk EXCEPT !.pc = pc] /\ UNCHANGED <<registryVars, view>>
            /\ pc = "reading" => walk.pc = "sized"
      BY <1>4, <2>1 DEF AskProperty, AskSize, AskData, CheckProperty, Continue, WalkStep
    <2>3. walk.pc' = pc /\ UNCHANGED <<walk.todo, walk.uid, walk.room, walk.refusal>>
          /\ UNCHANGED registryVars
      BY <2>2 DEF TypeInv, WalkIsRecord, WalkField
    <2>4. AtDevice(k)'
      BY <1>1, <2>2, <2>3, ListStays DEF AtDevice, HasLearned
    <2> QED BY <1>1, <1>2, <2>2, <2>3, <2>4 DEF WalkIsOnTrack, AtSomeDevice
  <1>5. CASE GetSize
    <2> DEFINE bytes == IF walk.uid = << >> THEN 8 ELSE 4 * Len(InputStreams(k))
    <2>1. SizeAnswer(Device, Question, "input") = Size(bytes)
      BY <1>1, <1>2, ListedDeviceAnswers DEF Question
    <2>2. Size(bytes).status = "noErr" /\ Size(bytes).size = bytes
      BY DEF Size
    <2> HIDE DEF bytes
    <2>3. /\ walk' = [walk EXCEPT !.pc = "sized", !.room = bytes]
          /\ UNCHANGED registryVars /\ UNCHANGED view
      BY <1>5, <2>1, <2>2 DEF GetSize, Continue, WalkStep
    <2>4. /\ walk.pc' = "sized" /\ walk.room' = bytes
          /\ UNCHANGED <<walk.todo, walk.uid, walk.refusal>>
      BY <2>3 DEF TypeInv, WalkIsRecord, WalkField
    <2>5. AtDevice(k)'
      BY <1>1, <2>3, <2>4, ListStays DEF AtDevice, HasLearned, bytes
    <2> QED BY <1>1, <1>2, <2>4, <2>5 DEF WalkIsOnTrack, AtSomeDevice
  <1> QED BY <1>4, <1>5

(***************************************************************************)
(* The data of a device are its own, and bring the walk to the next one.   *)
(***************************************************************************)
LEMMA TrackKeptByLearning ==
  ASSUME TypeInv, WalkIsOnTrack, GetData
  PROVE  WalkIsOnTrack'
  <1>1. PICK k \in DOMAIN deviceList :
               /\ AtDevice(k) /\ k \in 1 .. Len(deviceList) /\ Device = deviceList[k]
               /\ Tail(walk.todo) = Rest(k + 1)
    BY WalkIsAtDevice DEF GetData
  <1>2. RegistryInv /\ walk.pc = "reading" /\ Len(deviceList) \in Nat
        /\ walk.refusal = "none"
    BY ListPositions DEF GetData, WalkIsOnTrack, TypeInv, RegistryInv, RegistryTypeOK
  <1> DEFINE answer == DataAnswer(Device, Question, "input", NoQualifier, walk.room)
  <1>3. CASE walk.uid = << >>
    <2> DEFINE uid == deviceUID(ObjectAt(k))
    <2>1. Question = "DeviceUID" /\ walk.room = 8
      BY <1>1, <1>2, <1>3 DEF Question, AtDevice
    <2>2. answer.status = "noErr" /\ answer.value = uid
      BY <1>1, <1>2, <2>1, ListedDeviceAnswers
    <2> HIDE DEF answer, uid
    <2>3. /\ walk' = [walk EXCEPT !.pc = "asking", !.uid = uid]
          /\ UNCHANGED registryVars /\ UNCHANGED view
      BY <2>1, <2>2 DEF GetData, Continue, WalkStep, answer
    <2>4. walk.pc' = "asking" /\ walk.uid' = uid /\ UNCHANGED <<walk.todo, walk.refusal>>
      BY <2>3 DEF TypeInv, WalkIsRecord, WalkField
    <2>5. AtDevice(k)'
      BY <1>1, <1>2, <2>3, <2>4, ListStays DEF AtDevice, HasLearned, uid
    <2> QED BY <1>1, <1>2, <2>4, <2>5 DEF WalkIsOnTrack, AtSomeDevice
  <1>4. CASE walk.uid # << >>
    <2>1. Question = "Streams" /\ walk.room = 4 * Len(InputStreams(k))
          /\ walk.uid = deviceUID(ObjectAt(k))
      BY <1>1, <1>2, <1>4 DEF Question, AtDevice
    <2>2. answer.status = "noErr" /\ answer.value = InputStreams(k)
      BY <1>1, <1>2, <2>1, ListedDeviceAnswers
    <2>3. <<Device, walk.uid, answer.value>> = Learned(k)
      BY <1>1, <2>1, <2>2 DEF Learned
    <2> HIDE DEF answer
    <2>4. /\ walk' = [walk EXCEPT !.pc = "asking", !.uid = << >>, !.todo = Rest(k + 1)]
          /\ view' = view \cup {Learned(k)}
          /\ UNCHANGED registryVars
      BY <1>1, <2>1, <2>2, <2>3 DEF GetData, WalkStep, answer
    <2>5. /\ walk.pc' = "asking" /\ walk.uid' = << >> /\ walk.todo' = Rest(k + 1)
          /\ walk.refusal' = walk.refusal
      BY <2>4 DEF TypeInv, WalkIsRecord, WalkField
    <2>6. k + 1 \in 1 .. Len(deviceList) + 1 /\ 1 .. (k + 1) - 1 = (1 .. k - 1) \cup {k}
      BY <1>1, <1>2
    <2>7. HasLearned(k + 1)'
      <3>1. {Learned(i) : i \in 1 .. (k + 1) - 1}
              = {Learned(i) : i \in 1 .. k - 1} \cup {Learned(k)}
        BY <2>6
      <3>2. view' = {Learned(i) : i \in 1 .. (k + 1) - 1}
        BY <1>1, <2>4, <3>1 DEF AtDevice, HasLearned
      <3> QED BY <2>4, <3>2, ListStays DEF HasLearned
    <2>8. AtDevice(k + 1)'
      BY <2>4, <2>5, <2>6, <2>7, ListStays DEF AtDevice
    <2>9. k + 1 \in Int
      BY <1>1
    <2> QED BY <1>2, <2>5, <2>8, <2>9 DEF WalkIsOnTrack, AtSomeDevice
  <1> QED BY <1>3, <1>4

(***************************************************************************)
(* A walk that has nothing left to ask has learned the whole list.         *)
(***************************************************************************)
LEMMA TrackKeptByEnding ==
  ASSUME TypeInv, WalkIsOnTrack, EndWalk
  PROVE  WalkIsOnTrack'
  <1>1. PICK k \in Int : AtDevice(k)
    BY DEF EndWalk, WalkIsOnTrack, AtSomeDevice
  <1>2. RegistryInv /\ Len(deviceList) \in Nat /\ DOMAIN deviceList = 1 .. Len(deviceList)
    BY ListPositions DEF TypeInv, RegistryInv, RegistryTypeOK
  <1>3. k = Len(deviceList) + 1
    <2>1. SUFFICES ASSUME k \in 1 .. Len(deviceList) PROVE FALSE
      BY <1>1, <1>2 DEF AtDevice
    <2> QED BY <1>1, <1>2, <2>1, RestOfList DEF AtDevice, EndWalk
  <1>4. 1 .. k - 1 = DOMAIN deviceList
    BY <1>2, <1>3
  <1>5. view = Devices
    BY <1>1, <1>2, <1>4, LearnedDevices DEF AtDevice, HasLearned
  <1>6. /\ walk.pc' = "idle" /\ walk.refusal' = "none"
        /\ view' = view /\ UNCHANGED registryVars
    BY DEF EndWalk, Continue, WalkStep, Idle
  <1> QED BY <1>5, <1>6, ListStays DEF WalkIsOnTrack

(***************************************************************************)
(* A walk begins on track, whatever the host knew before.                  *)
(***************************************************************************)
LEMMA WalkBeginsOnTrack ==
  ASSUME BeginWalk
  PROVE  WalkIsOnTrack'
  <1>1. answerPropertyDataSize(kAudioObjectPlugInObject, "DeviceList", "global").size
          = 4 * Len(deviceList)
    BY DEF answerPropertyDataSize, SizeAnswer, PlugInSize, hasProperty, PlugInSelectors,
           CommonSelectors, Size
  <1>2. /\ walk' = [Idle EXCEPT !.pc = "listing", !.room = 4 * Len(deviceList)]
        /\ view' = {} /\ UNCHANGED registryVars
    BY <1>1 DEF BeginWalk, WalkStep
  <1>3. /\ walk.pc' = "listing" /\ walk.uid' = << >> /\ walk.room' = 4 * Len(deviceList)
        /\ walk.refusal' = "none"
    BY <1>2 DEF Idle
  <1> QED BY <1>2, <1>3, ListStays DEF WalkIsOnTrack

-----------------------------------------------------------------------------
(***************************************************************************)
(* The inductive invariant.                                                *)
(***************************************************************************)
SurfaceInv == TypeInv /\ ViewInv

(***************************************************************************)
(* A driver without endpoints has no devices to be known.                  *)
(***************************************************************************)
LEMMA SurfaceInitially == SurfaceInit => SurfaceInv
  <1> SUFFICES ASSUME SurfaceInit PROVE SurfaceInv
    OBVIOUS
  <1>1. RegistryInv
    BY RegistryInitially DEF SurfaceInit
  <1>2. /\ walk = Idle /\ view = {} /\ previous = << >>
        /\ setting = FALSE /\ changed = FALSE /\ untold = FALSE
    BY DEF SurfaceInit
  <1>3. /\ Idle = [f \in WalkField |-> Idle[f]] /\ Idle.pc = "idle" /\ Idle.overtakes = 0
        /\ Idle.refusal = "none"
    BY DEF Idle, WalkField
  <1>4. 0 \in 0 .. MaxOvertakes + 1 /\ << >> \in Seq(Definition)
    BY SurfaceAssumption
  <1>5. TypeInv
    BY <1>1, <1>2, <1>3, <1>4
       DEF TypeInv, SurfaceTypeOK, WalkIsRecord, OvertakesInv, RegistryInv
  <1>6. Devices = {}
    BY DEF SurfaceInit, RegistryInit, Identities, Devices
  <1> QED BY <1>2, <1>3, <1>5, <1>6 DEF SurfaceInv, ViewInv, TrackInv, SettledInv

(***************************************************************************)
(* A catalog that comes or goes puts a walk under way off the track, and   *)
(* the walk is counted as overtaken.                                       *)
(***************************************************************************)
LEMMA TrackKeptByOvertaking ==
  ASSUME TypeInv, TrackInv, OvertakeWalk
  PROVE  TrackInv'
  <1>1. /\ walk.pc' = walk.pc /\ walk.refusal' = walk.refusal
        /\ walk.overtakes' = IF walk.pc = "idle" THEN walk.overtakes ELSE walk.overtakes + 1
        /\ walk.overtakes \in Nat
    BY WalkIsOvertaken, SurfaceAssumption DEF TypeInv, SurfaceTypeOK
  <1> QED BY <1>1 DEF TrackInv

LEMMA TrackStays ==
  ASSUME TrackInv, UNCHANGED registryVars, walk' = walk, view' = view
  PROVE  TrackInv'
  <1>1. ASSUME NEW k \in Int, AtDevice(k) PROVE AtDevice(k)'
    BY <1>1, ListStays DEF AtDevice, HasLearned
  <1>2. AtSomeDevice => AtSomeDevice'
    BY <1>1 DEF AtSomeDevice
  <1>3. WalkIsOnTrack => WalkIsOnTrack'
    BY <1>2, ListStays DEF WalkIsOnTrack
  <1> QED BY <1>3 DEF TrackInv

(***************************************************************************)
(* No step of a walk hides that it was overtaken, except its end.          *)
(***************************************************************************)
LEMMA WalkStaysOvertaken ==
  ASSUME WalkIsRecord,
         ListDevices \/ AskProperty \/ AskSize \/ GetSize \/ AskData \/ GetData
  PROVE  walk.pc # "idle" /\ walk.overtakes' = walk.overtakes /\ UNCHANGED <<changed, untold>>
  <1> USE DEF WalkIsRecord, WalkField, WalkStep, Continue
  <1>1. ASSUME NEW status, Stop(status)
        PROVE  walk.overtakes' = walk.overtakes /\ UNCHANGED <<changed, untold>>
    BY <1>1 DEF Stop, Idle
  <1>2. ASSUME NEW pc, NEW refusal, CheckProperty(pc, refusal)
        PROVE  walk.overtakes' = walk.overtakes /\ UNCHANGED <<changed, untold>>
    BY <1>1, <1>2 DEF CheckProperty
  <1>3. CASE ListDevices
    BY <1>1, <1>3 DEF ListDevices
  <1>4. CASE AskProperty \/ AskSize \/ AskData
    BY <1>2, <1>4 DEF AskProperty, AskSize, AskData
  <1>5. CASE GetSize
    BY <1>1, <1>5 DEF GetSize
  <1>6. CASE GetData
    BY <1>1, <1>6 DEF GetData
  <1> QED BY <1>3, <1>4, <1>5, <1>6

(***************************************************************************)
(* A walk that nothing overtook keeps its track, and so is not refused and *)
(* ends with the devices there are.                                        *)
(***************************************************************************)
LEMMA WalkKeepsView ==
  ASSUME TypeInv, ViewInv, Walk
  PROVE  ViewInv'
  <1>1. setting' = setting /\ WalkIsRecord
    BY WalkLeavesDevices DEF updateVars, TypeInv
  <1>2. CASE BeginWalk
    <2>1. walk.pc' = "listing" /\ walk.overtakes' = 0 /\ untold' = setting
      BY <1>2 DEF BeginWalk, WalkStep, Idle
    <2>2. WalkIsOnTrack'
      BY <1>2, WalkBeginsOnTrack
    <2>3. TrackInv'
      BY <2>2 DEF TrackInv, WalkIsOnTrack
    <2> QED BY <1>1, <2>1, <2>3 DEF ViewInv, SettledInv
  <1>3. ASSUME walk.pc # "idle", UNCHANGED <<changed, untold>>, ~changed', ~untold'
        PROVE  ~setting /\ walk.overtakes = 0
    BY <1>3 DEF ViewInv, SettledInv
  <1>4. CASE ListDevices \/ AskProperty \/ AskSize \/ GetSize \/ AskData \/ GetData
    <2>1. /\ walk.pc # "idle" /\ walk.overtakes' = walk.overtakes
          /\ UNCHANGED <<changed, untold>>
      BY <1>1, <1>4, WalkStaysOvertaken
    <2>2. ASSUME walk.overtakes = 0 PROVE WalkIsOnTrack'
      <3>1. WalkIsOnTrack
        BY <2>1, <2>2 DEF ViewInv, TrackInv
      <3> QED BY <1>4, <3>1, TrackKeptByListing, TrackKeptByAsking, TrackKeptByLearning
    <2>3. TrackInv'
      BY <2>1, <2>2 DEF TrackInv, WalkIsOnTrack
    <2>4. ASSUME ~changed', ~untold'
          PROVE  ~setting' /\ walk.overtakes' = 0 /\ WalkIsOnTrack'
      BY <1>1, <1>3, <2>1, <2>2, <2>4
    <2>5. SettledInv'
      BY <2>4 DEF SettledInv, WalkIsOnTrack, AtSomeDevice
    <2> QED BY <2>3, <2>5 DEF ViewInv
  <1>5. CASE EndWalk
    <2>1. /\ walk.pc' = "idle" /\ walk.refusal' = "none"
          /\ walk.pc # "idle" /\ UNCHANGED <<changed, untold>>
      BY <1>5 DEF EndWalk, Continue, WalkStep, Idle
    <2>2. ASSUME walk.overtakes = 0 PROVE WalkIsOnTrack'
      BY <1>5, <2>1, <2>2, TrackKeptByEnding DEF ViewInv, TrackInv
    <2>3. TrackInv'
      BY <2>1 DEF TrackInv
    <2>4. ASSUME ~changed', ~untold' PROVE ~setting' /\ WalkIsOnTrack'
      BY <1>1, <1>3, <2>1, <2>2, <2>4
    <2>5. SettledInv'
      BY <2>1, <2>4 DEF SettledInv, WalkIsOnTrack, AtSomeDevice
    <2> QED BY <2>3, <2>5 DEF ViewInv
  <1> QED BY <1>2, <1>4, <1>5 DEF Walk

(***************************************************************************)
(* A catalog that is stored is announced, and the host begins another      *)
(* walk.  One that is not is exempted if the host looked at it, and else   *)
(* leaves the devices as they were, or is exempted too.                    *)
(***************************************************************************)
LEMMA SurfaceInvKept ==
  ASSUME SurfaceInv, [SurfaceNext]_surfaceVars
  PROVE  SurfaceInv'
  <1> USE DEF SurfaceInv
  <1>1. ListsInv
    BY DEF TypeInv, RegistryInv, RegistryTypeOK, SurfaceTypeOK, ListsInv
  <1>2. RegistryInv' /\ ListsInv'
    BY <1>1, ListsKept, SurfaceStepsRegistry, ReplaceKeepsRegistryInv, StutterKeepsRegistryInv
       DEF TypeInv, RegistryNext
  <1>3. RegistryTypeOK' /\ (previous \in Seq(Definition))' /\ MaxOvertakes \in Nat
    BY <1>2, SurfaceAssumption DEF RegistryInv, ListsInv
  <1>4. /\ WalkIsRecord /\ OvertakesInv /\ walk.overtakes \in 0 .. MaxOvertakes + 1
        /\ walk.pc \in {"idle", "listing", "asking", "claimed", "sizing", "sized", "reading"}
        /\ {setting, changed, untold} \subseteq BOOLEAN
        /\ \A device \in view : Len(device) = 3
    BY DEF TypeInv, SurfaceTypeOK
  <1>5. ASSUME NEW definitions \in Offered, Publish(definitions) PROVE SurfaceInv'
    <2>1. /\ setting' = TRUE /\ ~setting /\ before' = Devices /\ UNCHANGED <<changed, view>>
          /\ untold' = (untold \/ walk.pc # "idle")
          /\ walk.pc = "idle" \/ walk.overtakes < MaxOvertakes
          /\ OvertakeWalk
      BY <1>5 DEF Publish
    <2>2. /\ WalkIsRecord' /\ walk.pc' = walk.pc
          /\ walk.overtakes' = IF walk.pc = "idle" THEN walk.overtakes ELSE walk.overtakes + 1
      BY <1>4, <2>1, WalkIsOvertaken
    <2>3. OvertakesInv' /\ (walk.overtakes \in 0 .. MaxOvertakes + 1)'
      BY <1>3, <1>4, <2>1, <2>2 DEF OvertakesInv
    <2>4. TypeInv'
      BY <1>2, <1>3, <1>4, <2>1, <2>2, <2>3 DEF TypeInv, SurfaceTypeOK
    <2>5. TrackInv'
      BY <2>1, TrackKeptByOvertaking DEF ViewInv
    <2>6. SettledInv'
      BY <2>1, <2>2 DEF ViewInv, SettledInv
    <2> QED BY <2>4, <2>5, <2>6 DEF ViewInv
  <1>6. CASE setCatalogReturns
    <2>1. setting /\ setting' = FALSE /\ view' = view /\ changed' \in BOOLEAN
      BY <1>4, <1>6 DEF setCatalogReturns, notifyDeviceListChanged, RollBack, RollBackRefused,
                        FinishUpdate
    <2>2. CASE notifyDeviceListChanged
      <3>1. changed' = TRUE /\ untold' = FALSE /\ walk' = walk
        BY <2>2 DEF notifyDeviceListChanged
      <3>2. TypeInv'
        BY <1>2, <1>3, <1>4, <2>1, <3>1 DEF TypeInv, SurfaceTypeOK, WalkIsRecord, OvertakesInv
      <3>3. UNCHANGED registryVars
        BY <2>2 DEF notifyDeviceListChanged
      <3>4. TrackInv'
        BY <2>1, <3>1, <3>3, TrackStays DEF ViewInv
      <3> QED BY <3>1, <3>2, <3>4 DEF ViewInv, SettledInv
    <2>3. CASE RollBack
      <3>1. /\ changed' = changed /\ untold' = (untold \/ Devices' # before)
            /\ OvertakeWalk
        BY <2>3 DEF RollBack
      <3>2. /\ WalkIsRecord' /\ walk.pc' = walk.pc
            /\ walk.overtakes' = IF walk.pc = "idle" THEN walk.overtakes ELSE walk.overtakes + 1
        BY <1>4, <3>1, WalkIsOvertaken
      <3>3. OvertakesInv' /\ (walk.overtakes \in 0 .. MaxOvertakes + 1)'
        BY <1>3, <1>4, <2>1, <3>2 DEF OvertakesInv
      <3>4. untold' \in BOOLEAN
        BY <1>4, <3>1
      <3>5. TypeInv'
        BY <1>2, <1>3, <1>4, <2>1, <3>1, <3>2, <3>3, <3>4 DEF TypeInv, SurfaceTypeOK
      <3>6. TrackInv'
        BY <3>1, TrackKeptByOvertaking DEF ViewInv
      <3>7. SettledInv'
        BY <2>1, <3>1, <3>2 DEF ViewInv, SettledInv
      <3> QED BY <3>5, <3>6, <3>7 DEF ViewInv
    <2>4. CASE RollBackRefused
      <3>1. /\ changed' = changed /\ untold' = (untold \/ Devices # before) /\ walk' = walk
            /\ UNCHANGED registryVars
        BY <2>4 DEF RollBackRefused
      <3>2. untold' \in BOOLEAN
        BY <1>4, <3>1
      <3>3. TypeInv'
        BY <1>2, <1>3, <1>4, <2>1, <3>1, <3>2
           DEF TypeInv, SurfaceTypeOK, WalkIsRecord, OvertakesInv
      <3>4. Devices' = Devices
        BY <3>1, ListStays
      <3>5. TrackInv'
        BY <2>1, <3>1, TrackStays DEF ViewInv
      <3>6. SettledInv'
        BY <2>1, <3>1, <3>4 DEF ViewInv, SettledInv
      <3> QED BY <3>3, <3>5, <3>6 DEF ViewInv
    <2> QED BY <1>6, <2>2, <2>3, <2>4 DEF setCatalogReturns
  <1>7. CASE Walk
    BY <1>2, <1>7, WalkKeepsType, WalkKeepsView DEF TypeInv
  <1>8. CASE UNCHANGED surfaceVars
    <2>1. /\ UNCHANGED registryVars
          /\ UNCHANGED <<setting, changed, walk, view, before, untold>>
      BY <1>8 DEF surfaceVars, updateVars
    <2>2. TypeInv'
      BY <1>2, <1>3, <1>4, <2>1 DEF TypeInv, SurfaceTypeOK, WalkIsRecord, OvertakesInv
    <2>3. TrackInv' /\ Devices' = Devices
      BY <2>1, TrackStays, ListStays DEF ViewInv
    <2> QED BY <2>1, <2>2, <2>3 DEF ViewInv, SettledInv
  <1> QED BY <1>5, <1>6, <1>7, <1>8 DEF SurfaceNext

(***************************************************************************)
(* The types of the surface and its registry, for every set of lists and   *)
(* every number of slots and of catalogs that overtake a walk.             *)
(***************************************************************************)
THEOREM SurfaceTypeCorrect == SurfaceSpec => []SurfaceTypeOK
  <1>1. SurfaceInv => SurfaceTypeOK
    BY DEF SurfaceInv, TypeInv
  <1> QED BY SurfaceInitially, SurfaceInvKept, <1>1, PTL DEF SurfaceSpec

(***************************************************************************)
(* When no catalog is being set and no notification is outstanding, a host *)
(* that has ended its walk knows every device by the ID, the UID and the   *)
(* input stream it has now, whatever catalogs came before and during it.   *)
(***************************************************************************)
THEOREM ViewIsCurrentHolds == SurfaceSpec => []ViewIsCurrent
  <1>1. SurfaceInv => ViewIsCurrent
    BY DEF SurfaceInv, ViewInv, SettledInv, ViewIsCurrent
  <1> QED BY SurfaceInitially, SurfaceInvKept, <1>1, PTL DEF SurfaceSpec

-----------------------------------------------------------------------------
(***************************************************************************)
(* The answers to an ID that names one object come from the tables of its  *)
(* kind.                                                                   *)
(***************************************************************************)
LEMMA ObjectAnswers ==
  ASSUME NEW id, NEW object, context(id) = {object}, id # kAudioObjectPlugInObject,
         NEW selector, NEW scope, NEW qualifier
  PROVE  /\ hasProperty(id, selector) <=>
              selector \in (IF isDevice(object) THEN DeviceSelectors ELSE StreamSelectors)
         /\ SizeAnswer(id, selector, scope) =
              IF isDevice(object) THEN DeviceSize(object, selector, scope)
                                  ELSE StreamSize(selector)
         /\ \A room : DataAnswer(id, selector, scope, qualifier, room) =
              IF isDevice(object) THEN DeviceData(object, selector, scope, room)
                                  ELSE StreamData(object, selector, room)
  <1>1. (CHOOSE known \in context(id) : TRUE) = object /\ context(id) # {}
    OBVIOUS
  <1> QED BY <1>1 DEF hasProperty, SizeAnswer, DataAnswer

LEMMA FilledIsFull ==
  ASSUME NEW bytes, NEW value
  PROVE  /\ Filled(bytes, value).status = "noErr"
         /\ Filled(bytes, value).size = bytes
         /\ Filled(bytes, value).value = value
  BY DEF Filled

LEMMA ObjectIDsFill ==
  ASSUME NEW S, NEW values \in Seq(S)
  PROVE  /\ ObjectIDs(4 * Len(values), values).status = "noErr"
         /\ ObjectIDs(4 * Len(values), values).size = 4 * Len(values)
         /\ ObjectIDs(4 * Len(values), values).value = values
  <1>1. Len(values) \in Nat /\ (Len(values) = 0 => values = << >>)
    OBVIOUS
  <1>2. SubSeq(values, 1, Len(values)) = values
    BY SubSeqFull
  <1> QED BY <1>1, <1>2 DEF ObjectIDs, Filled

LEMMA StreamsFill ==
  ASSUME NEW object, NEW scope
  PROVE  /\ StreamsIn(object, scope) = <<streamObjectID(object)>>
              \/ StreamsIn(object, scope) = << >>
         /\ Len(StreamsIn(object, scope))
              = IF scopeIncludesDirection(scope, direction(object)) THEN 1 ELSE 0
         /\ \E S : StreamsIn(object, scope) \in Seq(S)
         /\ StreamsIn(object, scope) = << >>
              <=> ~scopeIncludesDirection(scope, direction(object))
  <1> DEFINE stream == streamObjectID(object)
  <1>1. StreamsIn(object, scope) = IF scopeIncludesDirection(scope, direction(object))
                                     THEN <<stream>> ELSE << >>
    BY DEF StreamsIn
  <1> HIDE DEF stream
  <1>2. <<stream>> \in Seq({stream}) /\ Len(<<stream>>) = 1 /\ <<stream>> # << >>
        /\ << >> \in Seq({stream}) /\ Len(<< >>) = 0
    OBVIOUS
  <1> QED BY <1>1, <1>2 DEF stream

LEMMA RelatedIsPair ==
  ASSUME NEW object
  PROVE  Len(RelatedDevices(object)) = 2 /\ \E S : RelatedDevices(object) \in Seq(S)
  <1> DEFINE a == objectID(allocations[object[1]], "visibleDevice")
             b == objectID(allocations[object[1]], "companionDevice")
  <1>1. RelatedDevices(object) = <<a, b>>
    BY DEF RelatedDevices
  <1> HIDE DEF a, b
  <1>2. <<a, b>> \in Seq({a, b}) /\ Len(<<a, b>>) = 2
    OBVIOUS
  <1> QED BY <1>1, <1>2

LEMMA ListIsSequence ==
  ASSUME endpoints \in Seq(Definition) PROVE deviceList \in Seq(Range(deviceList))
  <1>1. Len(deviceList) \in Nat /\ DOMAIN deviceList = 1 .. Len(deviceList)
    BY ListPositions
  <1>2. deviceList = [i \in 1 .. Len(deviceList) |-> deviceList[i]]
    BY <1>1 DEF deviceList
  <1>3. \A i \in 1 .. Len(deviceList) : deviceList[i] \in Range(deviceList)
    BY <1>1 DEF Range
  <1> QED BY <1>1, <1>2, <1>3

-----------------------------------------------------------------------------
(***************************************************************************)
(* The three tables of each kind of object are in step: a property it has  *)
(* has a size, and data of that size.                                      *)
(***************************************************************************)
InStep(size, data) ==
  size.status = "noErr" /\ data.status = "noErr" /\ data.size = size.size

LEMMA SizeIsKnown ==
  ASSUME NEW bytes PROVE Size(bytes).status = "noErr" /\ Size(bytes).size = bytes
  BY DEF Size

LEMMA DeviceTablesAgree ==
  ASSUME NEW object, NEW selector \in DeviceSelectors, NEW scope
  PROVE  InStep(DeviceSize(object, selector, scope),
                DeviceData(object, selector, scope,
                           DeviceSize(object, selector, scope).size))
  <1> DEFINE size == DeviceSize(object, selector, scope)
             Answer(room) == DeviceData(object, selector, scope, room)
  <1>0. ASSUME NEW bytes \in Nat, size = Size(bytes),
               Answer(bytes).status = "noErr", Answer(bytes).size = bytes
        PROVE  InStep(size, Answer(size.size))
    BY <1>0, SizeIsKnown DEF InStep
  <1>1. ASSUME NEW bytes \in Nat, NEW value, size = Size(bytes),
               Answer(bytes) = Filled(bytes, value)
        PROVE  InStep(size, Answer(size.size))
    BY <1>1, SizeIsKnown, FilledIsFull DEF InStep
  <1>2. CASE selector \in {"BaseClass", "Class", "TransportType", "DeviceIsAlive",
                           "ClockIsStable", "DeviceIsRunning", "Latency", "SafetyOffset",
                           "BufferFrameSize", "ZeroTimeStampPeriod"}
    <2>1. size = Size(4) /\ Answer(4) = Filled(4, selector)
      BY <1>2 DEF DeviceSize, DeviceData, Scalar, CFString, BufferList
    <2> QED BY <1>1, <2>1
  <1>3. CASE selector \in {"Owner", "ClockDomain", "DeviceCanBeDefaultDevice",
                           "DeviceCanBeDefaultSystemDevice", "IsHidden"}
    <2>1. size = Size(4)
      BY <1>3 DEF DeviceSize
    <2>2. CASE selector = "Owner"
      <3>1. Answer(4) = Filled(4, kAudioObjectPlugInObject)
        BY <2>2 DEF DeviceData, Scalar, CFString, BufferList
      <3> QED BY <1>1, <2>1, <3>1
    <2>3. CASE selector = "ClockDomain"
      <3>1. Answer(4) = Filled(4, objectID(allocations[object[1]], "visibleDevice"))
        BY <2>3 DEF DeviceData, Scalar, CFString, BufferList
      <3> QED BY <1>1, <2>1, <3>1
    <2>4. CASE selector \in {"DeviceCanBeDefaultDevice", "DeviceCanBeDefaultSystemDevice"}
      <3>1. Answer(4) = Filled(4, isVisible(object))
        BY <2>4 DEF DeviceData, Scalar, CFString, BufferList
      <3> QED BY <1>1, <2>1, <3>1
    <2>5. CASE selector = "IsHidden"
      <3>1. Answer(4) = Filled(4, ~isVisible(object))
        BY <2>5 DEF DeviceData, Scalar, CFString, BufferList
      <3> QED BY <1>1, <2>1, <3>1
    <2> QED BY <1>3, <2>2, <2>3, <2>4, <2>5
  <1>4. CASE selector \in {"Name", "Manufacturer", "ModelUID", "NominalSampleRate"}
    <2>1. size = Size(8) /\ Answer(8) = Filled(8, selector)
      BY <1>4 DEF DeviceSize, DeviceData, Scalar, CFString, BufferList
    <2> QED BY <1>1, <2>1
  <1>5. CASE selector = "DeviceUID"
    <2>1. size = Size(8) /\ Answer(8) = Filled(8, deviceUID(object))
      BY <1>5 DEF DeviceSize, DeviceData, Scalar, CFString, BufferList
    <2> QED BY <1>1, <2>1
  <1>6. CASE selector \in {"AvailableNominalSampleRates", "BufferFrameSizeRange"}
    <2>1. size = Size(16) /\ Answer(16) = Filled(16, selector)
      BY <1>6 DEF DeviceSize, DeviceData, Scalar, CFString, BufferList
    <2> QED BY <1>1, <2>1
  <1>7. CASE selector = "StreamConfiguration"
    <2>1. size = Size(24) /\ Answer(24) = Filled(24, Len(StreamsIn(object, scope)))
      BY <1>7 DEF DeviceSize, DeviceData, Scalar, CFString, BufferList
    <2> QED BY <1>1, <2>1
  <1>8. CASE selector \in {"OwnedObjects", "Streams"}
    <2> DEFINE streams == StreamsIn(object, scope)
    <2>1. size = Size(IF scopeIncludesDirection(scope, direction(object)) THEN 4 ELSE 0)
      BY <1>8 DEF DeviceSize
    <2>2. Len(streams) = (IF scopeIncludesDirection(scope, direction(object)) THEN 1 ELSE 0)
      BY StreamsFill
    <2>7. size = Size(4 * Len(streams)) /\ 4 * Len(streams) \in Nat
      <3> HIDE DEF size, streams
      <3> QED BY <2>1, <2>2
    <2>3. \A room : Answer(room) = IF streams = << >>
                                   THEN [status |-> "noErr", size |-> 0, value |-> << >>]
                                   ELSE ObjectIDs(room, streams)
      BY <1>8 DEF DeviceData, Filled
    <2>4. streams = << >> => Len(streams) = 0
      OBVIOUS
    <2>5. PICK S : streams \in Seq(S)
      BY StreamsFill
    <2>6. Answer(4 * Len(streams)).status = "noErr"
          /\ Answer(4 * Len(streams)).size = 4 * Len(streams)
      <3> HIDE DEF streams
      <3> QED BY <2>3, <2>4, <2>5, ObjectIDsFill
    <2> HIDE DEF streams
    <2> QED BY <1>0, <2>6, <2>7
  <1>9. CASE selector = "ControlList"
    <2>1. size = Size(0) /\ Answer(0) = ObjectIDs(0, << >>)
      BY <1>9 DEF DeviceSize, DeviceData, Scalar, CFString, BufferList
    <2>2. << >> \in Seq({}) /\ 4 * Len(<< >>) = 0
      OBVIOUS
    <2>3. ObjectIDs(0, << >>).status = "noErr" /\ ObjectIDs(0, << >>).size = 0
      BY <2>2, ObjectIDsFill
    <2> QED BY <1>0, <2>1, <2>3
  <1>10. CASE selector = "RelatedDevices"
    <2> DEFINE related == RelatedDevices(object)
    <2>1. size = Size(8) /\ Answer(8) = ObjectIDs(8, related)
      BY <1>10 DEF DeviceSize, DeviceData
    <2>2. PICK S : related \in Seq(S)
      BY RelatedIsPair
    <2>3. Len(related) = 2
      BY RelatedIsPair
    <2> HIDE DEF related
    <2>4. 4 * Len(related) = 8
      BY <2>3
    <2>5. ObjectIDs(8, related).status = "noErr" /\ ObjectIDs(8, related).size = 8
      BY <2>2, <2>4, ObjectIDsFill
    <2> QED BY <1>0, <2>1, <2>5
  <1> QED
    BY <1>2, <1>3, <1>4, <1>5, <1>6, <1>7, <1>8, <1>9, <1>10
    DEF DeviceSelectors, SelectorsWithoutControls, CommonSelectors

LEMMA StreamTablesAgree ==
  ASSUME NEW object, NEW selector \in StreamSelectors
  PROVE  InStep(StreamSize(selector),
                StreamData(object, selector, StreamSize(selector).size))
  <1> DEFINE size == StreamSize(selector)
             Answer(room) == StreamData(object, selector, room)
  <1>1. ASSUME NEW bytes \in Nat, NEW value, size = Size(bytes),
               Answer(bytes) = Filled(bytes, value)
        PROVE  InStep(size, Answer(size.size))
    BY <1>1, SizeIsKnown, FilledIsFull DEF InStep
  <1>2. CASE selector \in {"BaseClass", "Class", "IsActive", "StartingChannel", "Latency"}
    <2>1. size = Size(4) /\ Answer(4) = Filled(4, selector)
      BY <1>2 DEF StreamSize, StreamData, Scalar, CFString, BufferList
    <2> QED BY <1>1, <2>1
  <1>3. CASE selector = "Owner"
    <2>1. size = Size(4) /\ Answer(4) = Filled(4, deviceObjectID(object))
      BY <1>3 DEF StreamSize, StreamData, Scalar, CFString, BufferList
    <2> QED BY <1>1, <2>1
  <1>4. CASE selector \in {"Direction", "TerminalType"}
    <2>1. size = Size(4) /\ Answer(4) = Filled(4, direction(object))
      BY <1>4 DEF StreamSize, StreamData, Scalar, CFString, BufferList
    <2> QED BY <1>1, <2>1
  <1>5. CASE selector \in {"Name", "Manufacturer"}
    <2>1. size = Size(8) /\ Answer(8) = Filled(8, selector)
      BY <1>5 DEF StreamSize, StreamData, Scalar, CFString, BufferList
    <2> QED BY <1>1, <2>1
  <1>6. CASE selector \in {"VirtualFormat", "PhysicalFormat"}
    <2>1. size = Size(40) /\ Answer(40) = Filled(40, selector)
      BY <1>6 DEF StreamSize, StreamData, Scalar, CFString, BufferList
    <2> QED BY <1>1, <2>1
  <1>7. CASE selector \in {"AvailableVirtualFormats", "AvailablePhysicalFormats"}
    <2>1. size = Size(56) /\ Answer(56) = Filled(56, selector)
      BY <1>7 DEF StreamSize, StreamData, Scalar, CFString, BufferList
    <2> QED BY <1>1, <2>1
  <1>8. CASE selector = "OwnedObjects"
    <2>1. size = Size(0) /\ Answer(0) = [status |-> "noErr", size |-> 0, value |-> << >>]
      BY <1>8 DEF StreamSize, StreamData, Filled
    <2> QED BY <2>1, SizeIsKnown DEF InStep
  <1> QED
    BY <1>2, <1>3, <1>4, <1>5, <1>6, <1>7, <1>8 DEF StreamSelectors, CommonSelectors

LEMMA PlugInTablesAgree ==
  ASSUME endpoints \in Seq(Definition), NEW selector \in PlugInSelectors,
         NEW qualifier, qualifier # NoQualifier
  PROVE  InStep(PlugInSize(selector),
                PlugInData(selector, qualifier, PlugInSize(selector).size))
  <1> DEFINE size == PlugInSize(selector)
             Answer(room) == PlugInData(selector, qualifier, room)
  <1>0. ASSUME NEW bytes \in Nat, size = Size(bytes),
               Answer(bytes).status = "noErr", Answer(bytes).size = bytes
        PROVE  InStep(size, Answer(size.size))
    BY <1>0, SizeIsKnown DEF InStep
  <1>1. ASSUME NEW bytes \in Nat, NEW value, size = Size(bytes),
               Answer(bytes) = Filled(bytes, value)
        PROVE  InStep(size, Answer(size.size))
    BY <1>1, SizeIsKnown, FilledIsFull DEF InStep
  <1>2. CASE selector \in {"BaseClass", "Class"}
    <2>1. size = Size(4) /\ Answer(4) = Filled(4, selector)
      BY <1>2 DEF PlugInSize, PlugInData, Scalar, CFString, BufferList
    <2> QED BY <1>1, <2>1
  <1>3. CASE selector = "Owner"
    <2>1. size = Size(4) /\ Answer(4) = Filled(4, kAudioObjectUnknown)
      BY <1>3 DEF PlugInSize, PlugInData, Scalar, CFString, BufferList
    <2> QED BY <1>1, <2>1
  <1>4. CASE selector \in {"Name", "Manufacturer", "BundleID", "ResourceBundle"}
    <2>1. size = Size(8) /\ Answer(8) = Filled(8, selector)
      BY <1>4 DEF PlugInSize, PlugInData, Scalar, CFString, BufferList
    <2> QED BY <1>1, <2>1
  <1>5. CASE selector = "CustomPropertyInfoList"
    <2>1. size = Size(12) /\ Answer(12) = Filled(12, "endpointCatalog")
      BY <1>5 DEF PlugInSize, PlugInData, Scalar, CFString, BufferList
    <2> QED BY <1>1, <2>1
  <1>6. CASE selector = "TranslateUIDToDevice"
    <2>1. size = Size(4) /\ Answer(4) = Filled(4, findDeviceByUID(qualifier))
      BY <1>6 DEF PlugInSize, PlugInData, Scalar, CFString, BufferList
    <2> QED BY <1>1, <2>1
  <1>7. CASE selector = "endpointCatalog"
    <2>1. size = Size(8) /\ Answer(8) = Filled(8, endpoints)
      BY <1>7 DEF PlugInSize, PlugInData, Scalar, CFString, BufferList
    <2> QED BY <1>1, <2>1
  <1>8. CASE selector \in {"OwnedObjects", "DeviceList"}
    <2>1. size = Size(4 * Len(deviceList))
          /\ Answer(4 * Len(deviceList)) = ObjectIDs(4 * Len(deviceList), deviceList)
      BY <1>8 DEF PlugInSize, PlugInData, Scalar, CFString, BufferList
    <2>2. deviceList \in Seq(Range(deviceList)) /\ 4 * Len(deviceList) \in Nat
      BY ListIsSequence, ListPositions
    <2>3. Answer(4 * Len(deviceList)).status = "noErr"
          /\ Answer(4 * Len(deviceList)).size = 4 * Len(deviceList)
      BY <2>1, <2>2, ObjectIDsFill
    <2> QED BY <1>0, <2>1, <2>2, <2>3
  <1> QED
    BY <1>2, <1>3, <1>4, <1>5, <1>6, <1>7, <1>8 DEF PlugInSelectors, CommonSelectors

-----------------------------------------------------------------------------
(***************************************************************************)
(* Of the IDs in use: what is claimed is answered in full, what the host   *)
(* needs to activate the driver is claimed, and what is settable is set.   *)
(***************************************************************************)
ClaimsHold(id) ==
  /\ \A selector \in ActivationSelectors(id) : hasProperty(id, selector)
  /\ \A selector \in Selector :
       /\ hasProperty(id, selector) =>
            \A scope \in Scope :
              FillsItsSize(id, selector, scope, <<"no device", "has this UID">>)
       /\ (setPropertyData(id, selector) = "noErr")
            <=> hasProperty(id, selector) /\ isPropertySettable(id, selector)

LEMMA PlugInClaimsHold ==
  ASSUME endpoints \in Seq(Definition)
  PROVE  ClaimsHold(kAudioObjectPlugInObject)
  <1> DEFINE id == kAudioObjectPlugInObject
             qualifier == <<"no device", "has this UID">>
  <1>1. \A selector : hasProperty(id, selector) <=> selector \in PlugInSelectors
    BY DEF hasProperty
  <1>2. \A selector \in ActivationSelectors(id) : hasProperty(id, selector)
    BY <1>1 DEF ActivationSelectors, PlugInSelectors
  <1>3. qualifier # NoQualifier
    BY DEF NoQualifier
  <1>4. ASSUME NEW selector \in Selector, NEW scope \in Scope, hasProperty(id, selector)
        PROVE  FillsItsSize(id, selector, scope, qualifier)
    <2> DEFINE size == PlugInSize(selector)
    <2>1. answerPropertyDataSize(id, selector, scope) = size
      BY <1>4 DEF answerPropertyDataSize, SizeAnswer
    <2>2. \A room : answerPropertyData(id, selector, scope, qualifier, room)
                      = PlugInData(selector, qualifier, room)
      BY <1>4 DEF answerPropertyData, DataAnswer
    <2>3. InStep(size, PlugInData(selector, qualifier, size.size))
      BY <1>1, <1>3, <1>4, PlugInTablesAgree
    <2> HIDE DEF size, qualifier
    <2> QED BY <2>1, <2>2, <2>3 DEF FillsItsSize, InStep
  <1>5. ASSUME NEW selector
        PROVE  (setPropertyData(id, selector) = "noErr")
                 <=> hasProperty(id, selector) /\ isPropertySettable(id, selector)
    BY <1>1 DEF setPropertyData, isPropertySettable, PlugInSelectors
  <1> QED BY <1>2, <1>4, <1>5 DEF ClaimsHold

LEMMA ObjectClaimsHold ==
  ASSUME RegistryInv, NEW e \in Identities(endpoints), NEW kind \in Kind
  PROVE  ClaimsHold(objectID(allocations[e], kind))
  <1> DEFINE id == objectID(allocations[e], kind)
             object == <<e, kind>>
             qualifier == <<"no device", "has this UID">>
  <1>1. context(id) = {object} /\ id # kAudioObjectPlugInObject
    BY ObjectIsKnown
  <1> HIDE DEF id, object, qualifier
  <1>2. ASSUME NEW selector, NEW scope
        PROVE  /\ hasProperty(id, selector) <=>
                    selector \in (IF isDevice(object) THEN DeviceSelectors
                                                     ELSE StreamSelectors)
               /\ SizeAnswer(id, selector, scope) =
                    IF isDevice(object) THEN DeviceSize(object, selector, scope)
                                        ELSE StreamSize(selector)
               /\ \A room : DataAnswer(id, selector, scope, qualifier, room) =
                    IF isDevice(object) THEN DeviceData(object, selector, scope, room)
                                        ELSE StreamData(object, selector, room)
    BY <1>1, ObjectAnswers
  <1>3. addDeviceClient(id) <=> isDevice(object)
    BY <1>1 DEF addDeviceClient
  <1>4. \A selector \in ActivationSelectors(id) : hasProperty(id, selector)
    BY <1>1, <1>2, <1>3 DEF ActivationSelectors, DeviceSelectors, StreamSelectors,
                            SelectorsWithoutControls, CommonSelectors
  <1>5. ASSUME NEW selector, NEW scope, hasProperty(id, selector)
        PROVE  FillsItsSize(id, selector, scope, qualifier)
    <2>1. answerPropertyDataSize(id, selector, scope) = SizeAnswer(id, selector, scope)
      BY <1>5 DEF answerPropertyDataSize
    <2>2. \A room : answerPropertyData(id, selector, scope, qualifier, room)
                      = DataAnswer(id, selector, scope, qualifier, room)
      BY <1>5 DEF answerPropertyData
    <2>3. CASE isDevice(object)
      <3> DEFINE size == DeviceSize(object, selector, scope)
      <3>1. InStep(size, DeviceData(object, selector, scope, size.size))
        BY <1>2, <1>5, <2>3, DeviceTablesAgree
      <3> HIDE DEF size
      <3> QED BY <1>2, <2>1, <2>2, <2>3, <3>1 DEF FillsItsSize, InStep, size
    <2>4. CASE ~isDevice(object)
      <3> DEFINE size == StreamSize(selector)
      <3>1. InStep(size, StreamData(object, selector, size.size))
        BY <1>2, <1>5, <2>4, StreamTablesAgree
      <3> HIDE DEF size
      <3> QED BY <1>2, <2>1, <2>2, <2>4, <3>1 DEF FillsItsSize, InStep, size
    <2> QED BY <2>3, <2>4
  <1>6. ASSUME NEW selector
        PROVE  (setPropertyData(id, selector) = "noErr")
                 <=> hasProperty(id, selector) /\ isPropertySettable(id, selector)
    BY <1>1 DEF setPropertyData, isPropertySettable
  <1> QED BY <1>4, <1>5, <1>6 DEF ClaimsHold, qualifier, id

DeviceKind == {"visibleDevice", "companionDevice"}

(***************************************************************************)
(* "A property the host needs cannot be dropped again"                     *)
(* (CHANGELOG.md:18): whatever catalogs are set, every property claimed    *)
(* has a size and data that fill it, what activation asks for is claimed,  *)
(* and the host is refused only on a walk under which the devices were     *)
(* changed.                                                                *)
(***************************************************************************)
THEOREM ClaimsAreAnsweredHolds == SurfaceSpec => []ClaimsAreAnswered
  <1>1. RegistryInv => \A id \in ObjectIDsInUse : ClaimsHold(id)
    <2> SUFFICES ASSUME RegistryInv, NEW id \in ObjectIDsInUse PROVE ClaimsHold(id)
      OBVIOUS
    <2>1. endpoints \in Seq(Definition) /\ DOMAIN allocations = Identities(endpoints)
      BY DEF RegistryInv, RegistryTypeOK
    <2>2. CASE id = kAudioObjectPlugInObject
      BY <2>1, <2>2, PlugInClaimsHold
    <2>3. CASE \E e \in DOMAIN allocations, kind \in Kind : id = objectID(allocations[e], kind)
      BY <2>1, <2>3, ObjectClaimsHold
    <2> QED BY <2>2, <2>3 DEF ObjectIDsInUse
  <1>2. SurfaceInv => (walk.refusal # "none" => walk.overtakes > 0)
    BY SurfaceAssumption DEF SurfaceInv, TypeInv, SurfaceTypeOK, ViewInv, TrackInv
  <1>3. SurfaceInv => ClaimsAreAnswered
    BY <1>1, <1>2 DEF SurfaceInv, TypeInv, ClaimsAreAnswered, ClaimsHold
  <1> QED BY SurfaceInitially, SurfaceInvKept, <1>3, PTL DEF SurfaceSpec

-----------------------------------------------------------------------------
(***************************************************************************)
(* What the host reads of a device and of its stream.                      *)
(***************************************************************************)
LEMMA DeviceIsRead ==
  ASSUME NEW id, NEW object, context(id) = {object}, id # kAudioObjectPlugInObject,
         isDevice(object), NEW scope
  PROVE  /\ Data(id, "DeviceUID", scope) = deviceUID(object)
         /\ Data(id, "ClockDomain", scope)
              = objectID(allocations[object[1]], "visibleDevice")
         /\ Data(id, "IsHidden", scope) = ~isVisible(object)
         /\ Data(id, "RelatedDevices", scope) = RelatedDevices(object)
         /\ Data(id, "Streams", scope) = StreamsIn(object, scope)
         /\ Data(id, "OwnedObjects", scope) = StreamsIn(object, scope)
  <1>1. ASSUME NEW selector \in DeviceSelectors
        PROVE  Data(id, selector, scope)
                 = DeviceData(object, selector, scope,
                              DeviceSize(object, selector, scope).size).value
    <2>1. hasProperty(id, selector)
      BY ObjectAnswers, SMTT(30)
    <2>2. SizeAnswer(id, selector, scope) = DeviceSize(object, selector, scope)
      BY ObjectAnswers, SMTT(30)
    <2>3. \A room : DataAnswer(id, selector, scope, NoQualifier, room)
                      = DeviceData(object, selector, scope, room)
      BY ObjectAnswers, SMTT(30)
    <2> QED BY <2>1, <2>2, <2>3 DEF Data, answerPropertyDataSize, answerPropertyData
  <1>2. {"DeviceUID", "ClockDomain", "IsHidden", "RelatedDevices", "Streams", "OwnedObjects"}
          \subseteq DeviceSelectors
    BY DEF DeviceSelectors, SelectorsWithoutControls, CommonSelectors
  <1>3. Data(id, "DeviceUID", scope) = deviceUID(object)
    <2>1. DeviceSize(object, "DeviceUID", scope).size = 8
      BY SizeIsKnown DEF DeviceSize
    <2>2. DeviceData(object, "DeviceUID", scope, 8) = Filled(8, deviceUID(object))
      BY DEF DeviceData, Scalar, CFString
    <2> QED BY <1>1, <1>2, <2>1, <2>2, FilledIsFull
  <1>4. Data(id, "ClockDomain", scope) = objectID(allocations[object[1]], "visibleDevice")
    <2>1. DeviceSize(object, "ClockDomain", scope).size = 4
      BY SizeIsKnown DEF DeviceSize
    <2>2. DeviceData(object, "ClockDomain", scope, 4)
            = Filled(4, objectID(allocations[object[1]], "visibleDevice"))
      BY DEF DeviceData, Scalar, CFString
    <2> QED BY <1>1, <1>2, <2>1, <2>2, FilledIsFull
  <1>5. Data(id, "IsHidden", scope) = ~isVisible(object)
    <2>1. DeviceSize(object, "IsHidden", scope).size = 4
      BY SizeIsKnown DEF DeviceSize
    <2>2. DeviceData(object, "IsHidden", scope, 4) = Filled(4, ~isVisible(object))
      BY DEF DeviceData, Scalar, CFString
    <2>3. Filled(4, ~isVisible(object)).value = ~isVisible(object)
      BY FilledIsFull
    <2> QED BY <1>1, <1>2, <2>1, <2>2, <2>3
  <1>6. Data(id, "RelatedDevices", scope) = RelatedDevices(object)
    <2> DEFINE related == RelatedDevices(object)
    <2>1. DeviceSize(object, "RelatedDevices", scope).size = 8
      BY SizeIsKnown DEF DeviceSize
    <2>2. DeviceData(object, "RelatedDevices", scope, 8) = ObjectIDs(8, related)
      BY DEF DeviceData
    <2>3. Len(related) = 2
      BY RelatedIsPair
    <2>4. PICK S : related \in Seq(S)
      BY RelatedIsPair
    <2> HIDE DEF related
    <2>5. 4 * Len(related) = 8
      BY <2>3
    <2>6. ObjectIDs(8, related).value = related
      BY <2>4, <2>5, ObjectIDsFill
    <2> QED BY <1>1, <1>2, <2>1, <2>2, <2>6 DEF related
  <1>7. ASSUME NEW selector \in {"Streams", "OwnedObjects"}
        PROVE  Data(id, selector, scope) = StreamsIn(object, scope)
    <2> DEFINE streams == StreamsIn(object, scope)
               size == DeviceSize(object, selector, scope).size
               data == DeviceData(object, selector, scope, size)
    <2>1. Data(id, selector, scope) = data.value
      BY <1>1, <1>2
    <2>2. PICK S : streams \in Seq(S)
      BY StreamsFill
    <2>3. Len(streams) = IF scopeIncludesDirection(scope, direction(object)) THEN 1 ELSE 0
      BY StreamsFill
    <2>4. size = IF scopeIncludesDirection(scope, direction(object)) THEN 4 ELSE 0
      BY <1>7, SizeIsKnown DEF DeviceSize
    <2>5. data = IF streams = << >>
                   THEN [status |-> "noErr", size |-> 0, value |-> << >>]
                   ELSE ObjectIDs(size, streams)
      BY <1>7 DEF DeviceData, Filled
    <2> HIDE DEF streams, size, data
    <2>6. size = 4 * Len(streams)
      BY <2>3, <2>4
    <2>7. ObjectIDs(size, streams).value = streams
      BY <2>2, <2>6, ObjectIDsFill
    <2>8. data.value = streams
      BY <2>5, <2>7
    <2> QED BY <2>1, <2>8 DEF streams
  <1> QED BY <1>3, <1>4, <1>5, <1>6, <1>7

LEMMA StreamIsRead ==
  ASSUME NEW id, NEW object, context(id) = {object}, id # kAudioObjectPlugInObject,
         ~isDevice(object), NEW scope
  PROVE  /\ Data(id, "Owner", scope) = deviceObjectID(object)
         /\ Data(id, "Direction", scope) = direction(object)
  <1>1. ASSUME NEW selector \in StreamSelectors
        PROVE  Data(id, selector, scope)
                 = StreamData(object, selector, StreamSize(selector).size).value
    <2>1. hasProperty(id, selector)
      BY ObjectAnswers
    <2>2. SizeAnswer(id, selector, scope) = StreamSize(selector)
      BY ObjectAnswers
    <2>3. \A room : DataAnswer(id, selector, scope, NoQualifier, room)
                      = StreamData(object, selector, room)
      BY ObjectAnswers
    <2> QED BY <2>1, <2>2, <2>3 DEF Data, answerPropertyDataSize, answerPropertyData
  <1>2. {"Owner", "Direction"} \subseteq StreamSelectors
    BY DEF StreamSelectors, CommonSelectors
  <1>3. StreamSize("Owner").size = 4 /\ StreamSize("Direction").size = 4
    BY SizeIsKnown DEF StreamSize
  <1>4. StreamData(object, "Owner", 4) = Filled(4, deviceObjectID(object))
    BY DEF StreamData, Scalar, CFString
  <1>5. StreamData(object, "Direction", 4) = Filled(4, direction(object))
    BY DEF StreamData, Scalar, CFString
  <1> QED BY <1>1, <1>2, <1>3, <1>4, <1>5, FilledIsFull

(***************************************************************************)
(* The two devices of an endpoint and the stream of each.                  *)
(***************************************************************************)
StreamOf(kind) == IF kind = "visibleDevice" THEN "visibleStream" ELSE "companionStream"

LEMMA DirectionsAreOpposite ==
  ASSUME RegistryInv, NEW e \in Identities(endpoints)
  PROVE  /\ DefinitionOf(e).direction \in Direction
         /\ companionDirection(e) = Opposite(DefinitionOf(e).direction)
         /\ companionDirection(e) \in Direction
  <1>1. PICK i \in DOMAIN endpoints : endpoints[i].identifier = e
    BY DEF Identities
  <1>2. IndexOf(endpoints, e) \in DOMAIN endpoints
    BY <1>1 DEF IndexOf
  <1>3. endpoints \in Seq(Definition)
    BY DEF RegistryInv, RegistryTypeOK
  <1>4. DefinitionOf(e) \in Definition
    BY <1>2, <1>3 DEF DefinitionOf
  <1> QED BY <1>4 DEF Definition, companionDirection, Opposite, Direction

(***************************************************************************)
(* A device is found by the UID it gives: a visible one has its direction  *)
(* in the UID, a hidden one the word of its role.                          *)
(***************************************************************************)
LEMMA DeviceFoundByUID ==
  ASSUME RegistryInv, NEW e \in Identities(endpoints), NEW kind \in DeviceKind,
         NEW object, object = <<e, kind>>
  PROVE  /\ findDeviceByUID(deviceUID(object)) = objectID(allocations[e], kind)
         /\ deviceUID(object) # NoQualifier
  <1> DEFINE uid == deviceUID(object)
             visible == {f \in Identities(endpoints) : visibleDeviceUID(f) = uid}
             companion == {f \in Identities(endpoints) : companionDeviceUID(f) = uid}
             found == {objectID(allocations[f], "visibleDevice") : f \in visible}
                        \cup {objectID(allocations[f], "companionDevice") : f \in companion}
             id == objectID(allocations[e], kind)
  <1>1. ASSUME NEW f \in Identities(endpoints)
        PROVE  /\ visibleDeviceUID(f) # companionDeviceUID(e)
               /\ companionDeviceUID(f) # visibleDeviceUID(e)
    <2>1. DefinitionOf(f).direction \in Direction /\ DefinitionOf(e).direction \in Direction
      BY DirectionsAreOpposite
    <2> QED BY <2>1 DEF visibleDeviceUID, companionDeviceUID, Direction
  <1>2. ASSUME NEW f \in Identities(endpoints)
        PROVE  /\ visibleDeviceUID(f) = visibleDeviceUID(e) => f = e
               /\ companionDeviceUID(f) = companionDeviceUID(e) => f = e
    BY DEF visibleDeviceUID, companionDeviceUID
  <1>3. found = {id} /\ uid # NoQualifier
    <2>1. CASE kind = "visibleDevice"
      <3>1. uid = visibleDeviceUID(e)
        BY <2>1 DEF deviceUID, isVisible
      <3>2. visible = {e} /\ companion = {}
        BY <1>1, <1>2, <3>1
      <3>3. visibleDeviceUID(e) # NoQualifier
        BY DEF visibleDeviceUID, NoQualifier
      <3> HIDE DEF visible, companion, uid
      <3> QED BY <2>1, <3>1, <3>2, <3>3
    <2>2. CASE kind = "companionDevice"
      <3>1. uid = companionDeviceUID(e)
        BY <2>2 DEF deviceUID, isVisible
      <3>2. visible = {} /\ companion = {e}
        BY <1>1, <1>2, <3>1
      <3>3. companionDeviceUID(e) # NoQualifier
        BY DEF companionDeviceUID, NoQualifier
      <3> HIDE DEF visible, companion, uid
      <3> QED BY <2>2, <3>1, <3>2, <3>3
    <2> QED BY <2>1, <2>2 DEF DeviceKind
  <1>4. findDeviceByUID(uid) = IF found = {} THEN kAudioObjectUnknown
                                             ELSE CHOOSE known \in found : TRUE
    BY DEF findDeviceByUID
  <1> HIDE DEF found
  <1>5. findDeviceByUID(uid) = id
    BY <1>3, <1>4
  <1> QED BY <1>3, <1>5

(***************************************************************************)
(* One device of an endpoint, its related one and its stream: what         *)
(* ObjectsAgree asks of the ID.                                            *)
(***************************************************************************)
LEMMA UIDLeadsBackToDevice ==
  ASSUME RegistryInv, NEW e \in Identities(endpoints), NEW kind \in DeviceKind,
         NEW id, id = objectID(allocations[e], kind)
  PROVE  addDeviceClient(id) /\ UIDLeadsBack(id)
  <1> DEFINE object == <<e, kind>>
             uid == deviceUID(object)
  <1>1. kind \in Kind /\ isDevice(object)
    BY DEF DeviceKind, Kind, isDevice
  <1>2. context(id) = {object} /\ id # kAudioObjectPlugInObject
    BY <1>1, ObjectIsKnown
  <1>3. findDeviceByUID(uid) = id /\ uid # NoQualifier
    BY DeviceFoundByUID
  <1>4. Data(id, "DeviceUID", "global") = uid
    BY <1>1, <1>2, DeviceIsRead
  <1>5. addDeviceClient(id)
    BY <1>1, <1>2 DEF addDeviceClient
  <1> HIDE DEF uid, object
  <1>6. hasProperty(kAudioObjectPlugInObject, "TranslateUIDToDevice")
    BY DEF hasProperty, PlugInSelectors
  <1>7. answerPropertyData(kAudioObjectPlugInObject, "TranslateUIDToDevice", "global", uid, 4)
          = Filled(4, findDeviceByUID(uid))
    BY <1>3, <1>6 DEF answerPropertyData, DataAnswer, PlugInData, Scalar, CFString
  <1>8. Filled(4, id).value = id
    BY FilledIsFull
  <1> QED BY <1>3, <1>4, <1>5, <1>7, <1>8 DEF UIDLeadsBack

LEMMA RelatedDevicesAgree ==
  ASSUME RegistryInv, NEW e \in Identities(endpoints), NEW kind \in DeviceKind,
         NEW id, id = objectID(allocations[e], kind)
  PROVE  RelatedAgree(id)
  <1> DEFINE a == objectID(allocations[e], "visibleDevice")
             b == objectID(allocations[e], "companionDevice")
             facing == DefinitionOf(e).direction
  <1>1. ASSUME NEW k \in DeviceKind, NEW other, other = objectID(allocations[e], k)
        PROVE  /\ Data(other, "RelatedDevices", "global") = <<a, b>>
               /\ Data(other, "ClockDomain", "global") = a
               /\ Data(other, "IsHidden", "global") = (k # "visibleDevice")
               /\ Data(other, "Streams", "input") = << >>
                    <=> (IF k = "visibleDevice" THEN facing ELSE companionDirection(e)) # "input"
    <2> DEFINE object == <<e, k>>
    <2>1. /\ k \in Kind /\ isDevice(object) /\ object[1] = e
          /\ isVisible(object) <=> k = "visibleDevice"
      BY DEF DeviceKind, Kind, isDevice, isVisible
    <2>2. context(other) = {object} /\ other # kAudioObjectPlugInObject
      BY <1>1, <2>1, ObjectIsKnown
    <2>3. RelatedDevices(object) = <<a, b>>
      BY <2>1 DEF RelatedDevices
    <2>4. direction(object) = IF k = "visibleDevice" THEN facing ELSE companionDirection(e)
      BY <2>1 DEF direction
    <2>5. StreamsIn(object, "input") = << >> <=> direction(object) # "input"
      BY StreamsFill DEF scopeIncludesDirection
    <2>6. (~isVisible(object)) = (k # "visibleDevice")
      BY <2>1 DEF isVisible
    <2> HIDE DEF a, b, facing
    <2>7. /\ Data(other, "RelatedDevices", "global") = RelatedDevices(object)
          /\ Data(other, "ClockDomain", "global")
               = objectID(allocations[object[1]], "visibleDevice")
          /\ Data(other, "IsHidden", "global") = ~isVisible(object)
      BY <2>1, <2>2, DeviceIsRead
    <2>8. Data(other, "Streams", "input") = StreamsIn(object, "input")
      BY <2>1, <2>2, DeviceIsRead
    <2> QED BY <2>1, <2>3, <2>4, <2>5, <2>6, <2>7, <2>8 DEF a
  <1>2. Range(<<a, b>>) = {a, b}
    <2> HIDE DEF a, b
    <2> QED BY DEF Range
  <1>3. a # b
    BY ObjectIDsAreDistinct DEF RegistryInv, RegistryTypeOK, Kind
  <1>4. Cardinality({a, b}) = 2
    <2> HIDE DEF a, b
    <2>1. IsFiniteSet({a}) /\ Cardinality({a}) = 1
      BY FS_Singleton
    <2>2. {a, b} = {a} \cup {b} /\ b \notin {a}
      BY <1>3
    <2>3. Cardinality({a} \cup {b}) = Cardinality({a}) + 1
      BY <2>1, <2>2, FS_AddElement
    <2> QED BY <2>1, <2>2, <2>3
  <1>5. id \in {a, b}
    BY DEF DeviceKind
  <1>6. facing \in {"input", "output"} /\ companionDirection(e) = Opposite(facing)
    BY DirectionsAreOpposite DEF Direction
  <1>7. /\ Data(id, "RelatedDevices", "global") = <<a, b>>
        /\ Data(id, "ClockDomain", "global") = a
        /\ Data(id, "IsHidden", "global") = (kind # "visibleDevice")
        /\ Data(id, "Streams", "input") = << >>
             <=> (IF kind = "visibleDevice" THEN facing ELSE companionDirection(e)) # "input"
    BY <1>1
  <1>8. ASSUME NEW other \in {a, b}
        PROVE  /\ Data(other, "RelatedDevices", "global") = <<a, b>>
               /\ Data(other, "ClockDomain", "global") = a
               /\ other # id => /\ Data(other, "IsHidden", "global")
                                     # Data(id, "IsHidden", "global")
                                /\ Data(other, "Streams", "input") = << >>
                                     <=> Data(id, "Streams", "input") # << >>
    <2>1. PICK k \in DeviceKind : other = objectID(allocations[e], k)
      BY DEF DeviceKind
    <2>2. /\ Data(other, "RelatedDevices", "global") = <<a, b>>
          /\ Data(other, "ClockDomain", "global") = a
          /\ Data(other, "IsHidden", "global") = (k # "visibleDevice")
          /\ Data(other, "Streams", "input") = << >>
               <=> (IF k = "visibleDevice" THEN facing ELSE companionDirection(e)) # "input"
      BY <1>1, <2>1
    <2> HIDE DEF a, b, facing
    <2>3. ASSUME other # id
          PROVE  k = "visibleDevice" <=> kind # "visibleDevice"
      BY <2>1, <2>3 DEF DeviceKind
    <2>4. ASSUME other # id
          PROVE  Data(other, "IsHidden", "global") # Data(id, "IsHidden", "global")
      BY <1>7, <2>2, <2>3, <2>4
    <2>5. ASSUME other # id
          PROVE  Data(other, "Streams", "input") = << >>
                   <=> Data(id, "Streams", "input") # << >>
      BY <1>6, <1>7, <2>2, <2>3, <2>5 DEF Opposite
    <2> QED BY <2>2, <2>4, <2>5
  <1> HIDE DEF a, b, facing
  <1>9. /\ Range(Data(id, "RelatedDevices", "global")) = {a, b}
        /\ \A other \in {a, b} :
             /\ Range(Data(other, "RelatedDevices", "global")) = {a, b}
             /\ Data(other, "ClockDomain", "global") = Data(id, "ClockDomain", "global")
    BY <1>2, <1>7, <1>8
  <1> QED BY <1>4, <1>5, <1>8, <1>9 DEF RelatedAgree

(***************************************************************************)
(* The one stream of a device is listed in the scope it faces, and IO on   *)
(* it is accepted for the operation announced.                             *)
(***************************************************************************)
LEMMA DeviceStreamsAgree ==
  ASSUME RegistryInv, NEW e \in Identities(endpoints), NEW kind \in DeviceKind,
         NEW id, id = objectID(allocations[e], kind)
  PROVE  StreamsAgree(id)
  <1> DEFINE object == <<e, kind>>
             streamObject == <<e, StreamOf(kind)>>
             sid == objectID(allocations[e], StreamOf(kind))
             streams(scope) == Range(Data(id, "Streams", scope))
  <1>1. /\ kind \in Kind /\ StreamOf(kind) \in Kind
        /\ isDevice(object) /\ ~isDevice(streamObject)
        /\ object[1] = e /\ streamObject[1] = e
        /\ isVisible(object) <=> kind = "visibleDevice"
        /\ isVisible(streamObject) <=> kind = "visibleDevice"
    BY DEF DeviceKind, Kind, StreamOf, isDevice, isVisible
  <1>2. /\ context(id) = {object} /\ id # kAudioObjectPlugInObject
        /\ endpointSlot(id) = allocations[e]
    BY <1>1, ObjectIsKnown
  <1>3. context(sid) = {streamObject} /\ sid # kAudioObjectPlugInObject
    BY <1>1, ObjectIsKnown
  <1>4. direction(streamObject) = direction(object) /\ direction(object) \in Direction
    BY <1>1, DirectionsAreOpposite DEF direction
  <1>5. streamObjectID(object) = sid /\ deviceObjectID(streamObject) = id
    BY <1>1 DEF streamObjectID, deviceObjectID, StreamOf, DeviceKind
  <1>6. ASSUME NEW scope
        PROVE  /\ streams(scope)
                    = IF scopeIncludesDirection(scope, direction(object)) THEN {sid} ELSE {}
               /\ Data(id, "OwnedObjects", scope) = Data(id, "Streams", scope)
    <2>1. /\ Data(id, "Streams", scope) = StreamsIn(object, scope)
          /\ Data(id, "OwnedObjects", scope) = StreamsIn(object, scope)
      BY <1>1, <1>2, DeviceIsRead
    <2>2. StreamsIn(object, scope) = IF scopeIncludesDirection(scope, direction(object))
                                       THEN <<sid>> ELSE << >>
      BY <1>5 DEF StreamsIn
    <2> HIDE DEF sid, object
    <2>3. Range(<<sid>>) = {sid} /\ Range(<< >>) = {}
      BY DEF Range
    <2> QED BY <2>1, <2>2, <2>3
  <1>7. /\ Data(sid, "Owner", "global") = id
        /\ Data(sid, "Direction", "global") = direction(object)
    BY <1>1, <1>3, <1>4, <1>5, StreamIsRead
  <1>8. runtimeForObject(id) = {e}
    <2>1. \A f \in Identities(endpoints) : allocations[f] = allocations[e] => f = e
      BY DEF RegistryInv, RegistryTypeOK, DistinctSlots
    <2> QED BY <1>1, <1>2, <2>1 DEF runtimeForObject
  <1>9. /\ id = inputDeviceObjectID(e) <=> direction(object) = "input"
        /\ id = outputDeviceObjectID(e) <=> direction(object) = "output"
    <2>1. objectID(allocations[e], "visibleDevice") # objectID(allocations[e], "companionDevice")
      BY ObjectIDsAreDistinct DEF RegistryInv, RegistryTypeOK, Kind
    <2>2. /\ DefinitionOf(e).direction \in Direction
          /\ companionDirection(e) = Opposite(DefinitionOf(e).direction)
      BY DirectionsAreOpposite
    <2> QED BY <1>1, <2>1, <2>2
            DEF direction, inputDeviceObjectID, outputDeviceObjectID, Opposite, Direction,
                DeviceKind
  <1>10. ASSUME NEW operation
         PROVE  doIO(id, sid, operation)
                  <=> \/ operation = "ReadInput" /\ direction(object) = "input"
                      \/ operation = "WriteMix" /\ direction(object) = "output"
    <2>1. \E pair \in {<<"visibleDevice", "visibleStream">>,
                       <<"companionDevice", "companionStream">>} :
            id = objectID(allocations[e], pair[1]) /\ sid = objectID(allocations[e], pair[2])
      BY DEF DeviceKind, StreamOf
    <2> HIDE DEF sid, object
    <2> QED BY <1>8, <1>9, <2>1 DEF doIO
  <1>11. ASSUME NEW operation
         PROVE  willDoIOOperation(id, operation)
                  <=> \/ operation = "ReadInput" /\ direction(object) = "input"
                      \/ operation = "WriteMix" /\ direction(object) = "output"
    BY <1>1, <1>2 DEF willDoIOOperation
  <1> HIDE DEF object, streamObject, sid, streams
  <1>12. /\ streams("input") = IF direction(object) = "input" THEN {sid} ELSE {}
         /\ streams("output") = IF direction(object) = "output" THEN {sid} ELSE {}
         /\ streams("global") = {sid}
    BY <1>4, <1>6 DEF scopeIncludesDirection, Direction
  <1>13. streams("input") \cap streams("output") = {}
    BY <1>4, <1>12 DEF Direction
  <1>14. streams("input") \cup streams("output") = Range(Data(id, "OwnedObjects", "global"))
    BY <1>4, <1>6, <1>12 DEF Direction, streams
  <1>15. \A facing \in Direction : \A stream \in streams(facing) :
           Data(stream, "Owner", "global") = id /\ Data(stream, "Direction", "global") = facing
    BY <1>7, <1>12 DEF Direction
  <1>16. \A operation \in IOOperation :
           willDoIOOperation(id, operation)
             <=> \E stream \in streams("global") : doIO(id, stream, operation)
    BY <1>10, <1>11, <1>12
  <1> QED BY <1>13, <1>14, <1>15, <1>16 DEF StreamsAgree, streams

(***************************************************************************)
(* The objects form one tree, whichever way the host goes through it,      *)
(* after every sequence of catalogs: UIDs lead back, related devices and   *)
(* streams name each other, and the IO cycle accepts what was announced.   *)
(***************************************************************************)
THEOREM ObjectsAgreeHolds == SurfaceSpec => []ObjectsAgree
  <1>1. SurfaceInv => ObjectsAgree
    <2> SUFFICES ASSUME RegistryInv PROVE ObjectsAgree
      BY DEF SurfaceInv, TypeInv
    <2>1. DistinctSlots /\ ObjectsResolve
      BY ObjectsResolveWhenDistinct DEF RegistryInv
    <2>2. ASSUME NEW id \in Range(deviceList)
          PROVE  addDeviceClient(id) /\ UIDLeadsBack(id) /\ RelatedAgree(id)
                 /\ StreamsAgree(id)
      <3>1. PICK i \in DOMAIN deviceList : id = deviceList[i]
        BY DEF Range
      <3>2. PICK e \in Identities(endpoints), kind \in DeviceKind :
                   id = objectID(allocations[e], kind)
        BY <3>1, ListPositions DEF RegistryInv, RegistryTypeOK, ObjectAt, DeviceKind
      <3> QED BY <3>2, UIDLeadsBackToDevice, RelatedDevicesAgree, DeviceStreamsAgree
    <2> QED BY <2>1, <2>2 DEF ObjectsAgree
  <1> QED BY SurfaceInitially, SurfaceInvKept, <1>1, PTL DEF SurfaceSpec

=============================================================================
