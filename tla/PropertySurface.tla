--------------------------- MODULE PropertySurface ---------------------------
(***************************************************************************)
(* The property surface: what the driver answers about the plug-in, its    *)
(* devices and their streams, and the walk on which the host learns them.  *)
(*                                                                         *)
(* Answers come from three tables for each kind of object, which the code  *)
(* keeps in step by hand: the properties an object has, the sizes it       *)
(* advertises and the data it gives.  A value is kept where it names or    *)
(* describes an object; other values are known by their selector alone.    *)
(* Every call of the host looks the object up under stateMutex_ twice,     *)
(* once in hasProperty and once for the answer, and a catalog may be       *)
(* replaced in between.                                                    *)
(***************************************************************************)
EXTENDS EndpointRegistry, Functions

CONSTANTS
  Offered,        \* the endpoint lists clients set
  MaxOvertakes    \* bound on the catalogs published during one walk

ASSUME SurfaceAssumption == Offered \subseteq Seq(Definition) /\ MaxOvertakes \in Nat

VARIABLES
  setting,   \* setCatalog has published a catalog and not yet returned
  previous,  \* the endpoints it would restore
  changed,   \* the host has yet to handle a change notification
  walk,      \* the host's walk over the devices
  view,      \* the devices the host has learned since it last asked for the list
  before,    \* history: the devices there were before the catalog being set
  untold     \* history: a catalog the host may have seen was, or may be, taken back

updateVars == <<setting, previous, before>>

surfaceVars == <<registryVars, updateVars, changed, walk, view, untold>>

kAudioObjectPlugInObject == 1

Scope == {"global", "input", "output"}

IOOperation == {"ReadInput", "WriteMix", "ProcessMix"}

-----------------------------------------------------------------------------
(***************************************************************************)
(* ObjectContext.  context(id) is empty or holds the one object with this  *)
(* ID, as a pair of an endpoint and a kind.                                *)
(***************************************************************************)
context(id) == findObject(id)

isDevice(object) == object[2] \in {"visibleDevice", "companionDevice"}

isVisible(object) == object[2] \in {"visibleDevice", "visibleStream"}

\* Mutant: a companion faces the way of its endpoint.
definedDirection(object) == DefinitionOf(object[1]).direction

direction(object) ==
  IF isVisible(object) THEN DefinitionOf(object[1]).direction
                       ELSE companionDirection(object[1])

deviceObjectID(object) ==
  objectID(allocations[object[1]],
           IF isVisible(object) THEN "visibleDevice" ELSE "companionDevice")

streamObjectID(object) ==
  objectID(allocations[object[1]],
           IF isVisible(object) THEN "visibleStream" ELSE "companionStream")

deviceUID(object) ==
  IF isVisible(object) THEN visibleDeviceUID(object[1]) ELSE companionDeviceUID(object[1])

scopeIncludesDirection(scope, facing) == scope \in {"global", facing}

deviceList ==
  [i \in 1 .. 2 * Len(endpoints) |->
     objectID(allocations[endpoints[(i + 1) \div 2].identifier],
              IF i % 2 = 1 THEN "visibleDevice" ELSE "companionDevice")]

-----------------------------------------------------------------------------
(***************************************************************************)
(* The properties each kind of object has.                                 *)
(***************************************************************************)
CommonSelectors ==
  {"BaseClass", "Class", "Owner", "Name", "Manufacturer", "OwnedObjects"}

PlugInSelectors ==
  CommonSelectors \cup
    {"CustomPropertyInfoList", "BundleID", "ResourceBundle", "DeviceList",
     "TranslateUIDToDevice", "endpointCatalog"}

\* Mutant: the table before devices answered for their controls.
SelectorsWithoutControls ==
  CommonSelectors \cup
    {"DeviceUID", "ModelUID", "TransportType", "RelatedDevices", "ClockDomain",
     "DeviceIsAlive", "DeviceIsRunning", "DeviceCanBeDefaultDevice",
     "DeviceCanBeDefaultSystemDevice", "Latency", "Streams",
     "StreamConfiguration", "SafetyOffset", "NominalSampleRate",
     "AvailableNominalSampleRates", "IsHidden", "BufferFrameSize",
     "BufferFrameSizeRange", "ZeroTimeStampPeriod", "ClockIsStable"}

DeviceSelectors == SelectorsWithoutControls \cup {"ControlList"}

StreamSelectors ==
  CommonSelectors \cup
    {"IsActive", "Direction", "TerminalType", "StartingChannel", "Latency",
     "VirtualFormat", "PhysicalFormat", "AvailableVirtualFormats",
     "AvailablePhysicalFormats"}

Selector == PlugInSelectors \cup DeviceSelectors \cup StreamSelectors \cup {"Volume"}

hasProperty(id, selector) ==
  IF id = kAudioObjectPlugInObject
    THEN selector \in PlugInSelectors
    ELSE \E object \in context(id) :
           selector \in (IF isDevice(object) THEN DeviceSelectors ELSE StreamSelectors)

isPropertySettable(id, selector) ==
  id = kAudioObjectPlugInObject /\ selector = "endpointCatalog"

\* The status of setPropertyData before it comes to setCatalog.
setPropertyData(id, selector) ==
  IF id = kAudioObjectPlugInObject /\ selector = "endpointCatalog" THEN "noErr"
  ELSE IF hasProperty(id, selector) THEN "illegalOperation"
  ELSE "unknownProperty"

-----------------------------------------------------------------------------
(***************************************************************************)
(* answerPropertyDataSize, from its second look at the object on.          *)
(***************************************************************************)
Error(status) == [status |-> status, size |-> 0]

Size(bytes) == [status |-> "noErr", size |-> bytes]

PlugInSize(selector) ==
  CASE selector \in {"BaseClass", "Class", "Owner", "TranslateUIDToDevice"} -> Size(4)
    [] selector \in {"Name", "Manufacturer", "BundleID", "ResourceBundle",
                     "endpointCatalog"} -> Size(8)
    [] selector \in {"OwnedObjects", "DeviceList"} -> Size(4 * Len(deviceList))
    [] selector = "CustomPropertyInfoList" -> Size(12)
    [] OTHER -> Error("unknownProperty")

DeviceSize(object, selector, scope) ==
  CASE selector \in {"BaseClass", "Class", "Owner", "TransportType", "ClockDomain",
                     "DeviceIsAlive", "DeviceIsRunning", "DeviceCanBeDefaultDevice",
                     "DeviceCanBeDefaultSystemDevice", "Latency", "SafetyOffset",
                     "IsHidden", "BufferFrameSize", "ZeroTimeStampPeriod",
                     "ClockIsStable"} -> Size(4)
    [] selector \in {"Name", "Manufacturer", "DeviceUID", "ModelUID"} -> Size(8)
    [] selector \in {"OwnedObjects", "Streams"} ->
         Size(IF scopeIncludesDirection(scope, direction(object)) THEN 4 ELSE 0)
    [] selector = "ControlList" -> Size(0)
    [] selector = "RelatedDevices" -> Size(8)
    [] selector = "StreamConfiguration" -> Size(24)
    [] selector = "NominalSampleRate" -> Size(8)
    [] selector \in {"AvailableNominalSampleRates", "BufferFrameSizeRange"} -> Size(16)
    [] OTHER -> Error("unknownProperty")

StreamSize(selector) ==
  CASE selector \in {"BaseClass", "Class", "Owner", "IsActive", "Direction",
                     "TerminalType", "StartingChannel", "Latency"} -> Size(4)
    [] selector \in {"Name", "Manufacturer"} -> Size(8)
    [] selector = "OwnedObjects" -> Size(0)
    [] selector \in {"VirtualFormat", "PhysicalFormat"} -> Size(40)
    [] selector \in {"AvailableVirtualFormats", "AvailablePhysicalFormats"} -> Size(56)
    [] OTHER -> Error("unknownProperty")

SizeAnswer(id, selector, scope) ==
  IF id = kAudioObjectPlugInObject THEN PlugInSize(selector)
  ELSE IF context(id) = {} THEN Error("badObject")
  ELSE LET object == CHOOSE object \in context(id) : TRUE
       IN  IF isDevice(object) THEN DeviceSize(object, selector, scope)
                               ELSE StreamSize(selector)

answerPropertyDataSize(id, selector, scope) ==
  IF hasProperty(id, selector) THEN SizeAnswer(id, selector, scope)
                               ELSE Error("unknownProperty")

(***************************************************************************)
(* answerPropertyData, from its second look at the object on.  The caller  *)
(* gives room for so many bytes, no buffer at all when there is none,      *)
(* which a string is checked for last.                                     *)
(***************************************************************************)
Filled(bytes, value) == [status |-> "noErr", size |-> bytes, value |-> value]

Scalar(room, bytes, value) ==
  IF room = 0 THEN Error("illegalOperation")
  ELSE IF room < bytes THEN Error("badPropertySize")
  ELSE Filled(bytes, value)

CFString(room, value) ==
  IF room < 8 THEN Error("badPropertySize") ELSE Filled(8, value)

BufferList(room, count) ==
  IF room < 24 THEN Error("badPropertySize") ELSE Filled(24, count)

ObjectIDs(room, values) ==
  LET count == IF 4 * Len(values) <= room THEN Len(values) ELSE room \div 4
  IN  IF room = 0 /\ values # << >>
        THEN Error("illegalOperation")
        ELSE Filled(4 * count, SubSeq(values, 1, count))

NoQualifier == << >>

PlugInData(selector, qualifier, room) ==
  CASE selector \in {"BaseClass", "Class"} -> Scalar(room, 4, selector)
    [] selector = "Owner" -> Scalar(room, 4, kAudioObjectUnknown)
    [] selector \in {"Name", "Manufacturer", "BundleID", "ResourceBundle"} ->
         CFString(room, selector)
    [] selector \in {"OwnedObjects", "DeviceList"} -> ObjectIDs(room, deviceList)
    [] selector = "CustomPropertyInfoList" -> Scalar(room, 12, "endpointCatalog")
    [] selector = "TranslateUIDToDevice" /\ qualifier = NoQualifier ->
         Error("badPropertySize")
    [] selector = "TranslateUIDToDevice" /\ qualifier # NoQualifier ->
         Scalar(room, 4, findDeviceByUID(qualifier))
    [] selector = "endpointCatalog" -> Scalar(room, 8, endpoints)
    [] OTHER -> Error("unknownProperty")

StreamsIn(object, scope) ==
  IF scopeIncludesDirection(scope, direction(object))
    THEN <<streamObjectID(object)>> ELSE << >>

RelatedDevices(object) ==
  <<objectID(allocations[object[1]], "visibleDevice"),
    objectID(allocations[object[1]], "companionDevice")>>

DeviceData(object, selector, scope, room) ==
  CASE selector \in {"BaseClass", "Class", "TransportType", "DeviceIsAlive",
                     "ClockIsStable", "DeviceIsRunning", "Latency", "SafetyOffset",
                     "BufferFrameSize", "ZeroTimeStampPeriod"} -> Scalar(room, 4, selector)
    [] selector = "Owner" -> Scalar(room, 4, kAudioObjectPlugInObject)
    [] selector \in {"Name", "Manufacturer", "ModelUID"} -> CFString(room, selector)
    [] selector \in {"OwnedObjects", "Streams"} ->
         IF StreamsIn(object, scope) = << >>
           THEN Filled(0, << >>)
           ELSE ObjectIDs(room, StreamsIn(object, scope))
    [] selector = "ControlList" -> ObjectIDs(room, << >>)
    [] selector = "DeviceUID" -> CFString(room, deviceUID(object))
    [] selector = "RelatedDevices" -> ObjectIDs(room, RelatedDevices(object))
    [] selector = "ClockDomain" ->
         Scalar(room, 4, objectID(allocations[object[1]], "visibleDevice"))
    [] selector \in {"DeviceCanBeDefaultDevice", "DeviceCanBeDefaultSystemDevice"} ->
         Scalar(room, 4, isVisible(object))
    [] selector = "IsHidden" -> Scalar(room, 4, ~isVisible(object))
    [] selector = "StreamConfiguration" ->
         BufferList(room, Len(StreamsIn(object, scope)))
    [] selector = "NominalSampleRate" -> Scalar(room, 8, selector)
    [] selector \in {"AvailableNominalSampleRates", "BufferFrameSizeRange"} ->
         Scalar(room, 16, selector)
    [] OTHER -> Error("unknownProperty")

StreamData(object, selector, room) ==
  CASE selector \in {"BaseClass", "Class", "IsActive", "StartingChannel", "Latency"} ->
         Scalar(room, 4, selector)
    [] selector = "Owner" -> Scalar(room, 4, deviceObjectID(object))
    [] selector \in {"Name", "Manufacturer"} -> CFString(room, selector)
    [] selector = "OwnedObjects" -> Filled(0, << >>)
    [] selector \in {"Direction", "TerminalType"} -> Scalar(room, 4, direction(object))
    [] selector \in {"VirtualFormat", "PhysicalFormat"} -> Scalar(room, 40, selector)
    [] selector \in {"AvailableVirtualFormats", "AvailablePhysicalFormats"} ->
         Scalar(room, 56, selector)
    [] OTHER -> Error("unknownProperty")

DataAnswer(id, selector, scope, qualifier, room) ==
  IF id = kAudioObjectPlugInObject THEN PlugInData(selector, qualifier, room)
  ELSE IF context(id) = {} THEN Error("badObject")
  ELSE LET object == CHOOSE object \in context(id) : TRUE
       IN  IF isDevice(object) THEN DeviceData(object, selector, scope, room)
                               ELSE StreamData(object, selector, room)

answerPropertyData(id, selector, scope, qualifier, room) ==
  IF hasProperty(id, selector) THEN DataAnswer(id, selector, scope, qualifier, room)
                               ELSE Error("unknownProperty")

-----------------------------------------------------------------------------
(***************************************************************************)
(* What the host is told of IO before it begins, and what the IO cycle,    *)
(* which finds its way by object IDs alone, then accepts.                  *)
(***************************************************************************)
willDoIOOperation(id, operation) ==
  \E object \in context(id) :
    /\ isDevice(object)
    /\ \/ operation = "ReadInput" /\ direction(object) = "input"
       \/ operation = "WriteMix" /\ direction(object) = "output"

\* addDeviceClient, and the other calls that only check their device.
addDeviceClient(id) == \E object \in context(id) : isDevice(object)

runtimeForObject(id) ==
  {e \in Identities(endpoints) :
     /\ allocations[e] = endpointSlot(id)
     /\ \E kind \in Kind : objectID(allocations[e], kind) = id}

doIO(device, stream, operation) ==
  \E e \in runtimeForObject(device) :
    /\ \E pair \in {<<"visibleDevice", "visibleStream">>,
                     <<"companionDevice", "companionStream">>} :
         /\ device = objectID(allocations[e], pair[1])
         /\ stream = objectID(allocations[e], pair[2])
    /\ \/ operation = "ReadInput" /\ device = inputDeviceObjectID(e)
       \/ operation = "WriteMix" /\ device = outputDeviceObjectID(e)

-----------------------------------------------------------------------------
(***************************************************************************)
(* The devices there are: each has its ID, its UID and, if it faces input, *)
(* its stream.                                                             *)
(***************************************************************************)
DeviceOf(e, device, stream, uid, facing) ==
  <<objectID(allocations[e], device), uid,
    IF facing = "input" THEN <<objectID(allocations[e], stream)>> ELSE << >> >>

Devices ==
  {DeviceOf(e, "visibleDevice", "visibleStream", visibleDeviceUID(e),
            DefinitionOf(e).direction) : e \in Identities(endpoints)}
    \cup {DeviceOf(e, "companionDevice", "companionStream", companionDeviceUID(e),
                   companionDirection(e)) : e \in Identities(endpoints)}

-----------------------------------------------------------------------------
(***************************************************************************)
(* setCatalog publishes under stateMutex_ and releases it while the host   *)
(* stores the catalog.  Only a catalog that was stored is announced; one   *)
(* that was not is undone, or stays when undoing it is refused, and in     *)
(* either case the host is told nothing.  Which catalogs are accepted, and *)
(* what is stored, is in DriverState.                                      *)
(***************************************************************************)
Idle == [pc |-> "idle", overtakes |-> 0, todo |-> << >>, room |-> 0,
         uid |-> << >>, refusal |-> "none"]

SurfaceInit ==
  /\ RegistryInit
  /\ setting = FALSE /\ previous = << >> /\ before = {}
  /\ changed = FALSE
  /\ walk = Idle
  /\ view = {}
  /\ untold = FALSE

\* The devices change under the walk, if one is under way.
OvertakeWalk ==
  walk' = [walk EXCEPT !.overtakes = IF walk.pc = "idle" THEN @ ELSE @ + 1]

Publish(definitions) ==
  /\ ~setting
  /\ walk.pc = "idle" \/ walk.overtakes < MaxOvertakes
  /\ Replace(definitions)
  /\ setting' = TRUE /\ previous' = endpoints /\ before' = Devices
  /\ untold' = (untold \/ walk.pc # "idle")
  /\ OvertakeWalk
  /\ UNCHANGED <<changed, view>>

FinishUpdate ==
  /\ setting
  /\ setting' = FALSE /\ previous' = << >> /\ before' = {}

\* Mutant: return without telling the host.
ReturnSilently ==
  /\ FinishUpdate
  /\ untold' = FALSE
  /\ UNCHANGED <<registryVars, changed, walk, view>>

\* The host has stored the catalog.
notifyDeviceListChanged ==
  /\ FinishUpdate
  /\ changed' = TRUE /\ untold' = FALSE
  /\ UNCHANGED <<registryVars, walk, view>>

\* The host has not, and the previous catalog comes back, perhaps in other slots.
RollBack ==
  /\ FinishUpdate
  /\ Replace(previous)
  /\ untold' = (untold \/ Devices' # before)
  /\ OvertakeWalk
  /\ UNCHANGED <<changed, view>>

\* A device runs by now, or memory is short.
RollBackRefused ==
  /\ FinishUpdate
  /\ untold' = (untold \/ Devices # before)
  /\ UNCHANGED <<registryVars, changed, walk, view>>

setCatalogReturns == notifyDeviceListChanged \/ RollBack \/ RollBackRefused

(***************************************************************************)
(* The host's walk (AudioServerPlugInDriverTests.cpp:312-319): the list of *)
(* devices, then the UID of each and the scope of its stream.  For either  *)
(* it asks whether there is such a property, how large it is and for the   *)
(* data.  The last two calls ask hasProperty again before they look the    *)
(* object up for the answer.  "Refusing one stops the walk", and the host  *)
(* publishes nothing.                                                      *)
(***************************************************************************)
Device == Head(walk.todo)

Question == IF walk.uid = << >> THEN "DeviceUID" ELSE "Streams"

WalkStep(next) ==
  /\ walk' = next
  /\ UNCHANGED <<registryVars, updateVars>>

Continue(next) == WalkStep(next) /\ UNCHANGED <<changed, view, untold>>

Stop(status) ==
  /\ WalkStep([Idle EXCEPT !.refusal = status, !.overtakes = walk.overtakes])
  /\ view' = {}
  /\ UNCHANGED <<changed, untold>>

BeginWalk ==
  /\ walk.pc = "idle"
  /\ changed
  /\ changed' = FALSE
  /\ view' = {}
  /\ untold' = setting
  /\ WalkStep([Idle EXCEPT
       !.pc = "listing",
       !.room = answerPropertyDataSize(kAudioObjectPlugInObject, "DeviceList", "global").size])

ListDevices ==
  /\ walk.pc = "listing"
  /\ LET answer == answerPropertyData(kAudioObjectPlugInObject, "DeviceList", "global",
                                      NoQualifier, walk.room)
     IN  IF answer.status # "noErr"
           THEN Stop(answer.status)
           ELSE Continue([walk EXCEPT !.pc = "asking", !.todo = answer.value])

CheckProperty(next, refusal) ==
  IF hasProperty(Device, Question)
    THEN Continue([walk EXCEPT !.pc = next])
    ELSE Stop(refusal)

AskProperty ==
  /\ walk.pc = "asking"
  /\ walk.todo # << >>
  /\ CheckProperty("claimed", "notClaimed")

AskSize ==
  /\ walk.pc = "claimed"
  /\ CheckProperty("sizing", "unknownProperty")

GetSize ==
  /\ walk.pc = "sizing"
  /\ LET answer == SizeAnswer(Device, Question, "input")
     IN  IF answer.status # "noErr"
           THEN Stop(answer.status)
           ELSE Continue([walk EXCEPT !.pc = "sized", !.room = answer.size])

AskData ==
  /\ walk.pc = "sized"
  /\ CheckProperty("reading", "unknownProperty")

GetData ==
  /\ walk.pc = "reading"
  /\ LET answer == DataAnswer(Device, Question, "input", NoQualifier, walk.room)
     IN  IF answer.status # "noErr" THEN Stop(answer.status)
         ELSE IF Question = "DeviceUID"
           THEN Continue([walk EXCEPT !.pc = "asking", !.uid = answer.value])
         ELSE /\ view' = view \cup {<<Device, walk.uid, answer.value>>}
              /\ WalkStep([walk EXCEPT !.pc = "asking", !.uid = << >>, !.todo = Tail(@)])
              /\ UNCHANGED <<changed, untold>>

EndWalk ==
  /\ walk.pc = "asking"
  /\ walk.todo = << >>
  /\ Continue(Idle)

Walk ==
  \/ BeginWalk \/ ListDevices
  \/ AskProperty \/ AskSize \/ GetSize \/ AskData \/ GetData
  \/ EndWalk

SurfaceNext ==
  \/ \E definitions \in Offered : Publish(definitions)
  \/ setCatalogReturns
  \/ Walk

(***************************************************************************)
(* setCatalog returns, having told the host or not, and the host takes up  *)
(* what it was told.                                                       *)
(***************************************************************************)
SurfaceSpec ==
  /\ SurfaceInit /\ [][SurfaceNext]_surfaceVars
  /\ WF_surfaceVars(setCatalogReturns) /\ WF_surfaceVars(Walk)

-----------------------------------------------------------------------------
(***************************************************************************)
(* Type correctness, of the registry too.                                  *)
(***************************************************************************)
SurfaceTypeOK ==
  /\ RegistryTypeOK
  /\ previous \in Seq(Definition)
  /\ {setting, changed, untold} \subseteq BOOLEAN
  /\ walk.pc \in {"idle", "listing", "asking", "claimed", "sizing", "sized", "reading"}
  /\ walk.overtakes \in 0 .. MaxOvertakes + 1
  /\ \A device \in view : Len(device) = 3

(***************************************************************************)
(* The objects form one tree, whichever way the host goes through it,      *)
(* after every sequence of catalogs.  A device is found by the UID it      *)
(* gives; it and the related one name each other, share a clock and face   *)
(* opposite ways, and one of them is hidden; its streams, listed in the    *)
(* scope they face, name it as their owner; and the IO cycle accepts on    *)
(* them the operations announced for the device and no others.  This is    *)
(* what every walk relies on, whose beginning is when it is looked at.     *)
(***************************************************************************)
Data(id, selector, scope) ==
  answerPropertyData(id, selector, scope, NoQualifier,
                     answerPropertyDataSize(id, selector, scope).size).value

UIDLeadsBack(id) ==
  answerPropertyData(kAudioObjectPlugInObject, "TranslateUIDToDevice", "global",
                     Data(id, "DeviceUID", "global"), 4).value = id

RelatedAgree(id) ==
  LET related == Range(Data(id, "RelatedDevices", "global"))
  IN  /\ Cardinality(related) = 2
      /\ id \in related
      /\ \A other \in related :
           /\ Range(Data(other, "RelatedDevices", "global")) = related
           /\ Data(other, "ClockDomain", "global") = Data(id, "ClockDomain", "global")
           /\ other # id => /\ Data(other, "IsHidden", "global")
                                # Data(id, "IsHidden", "global")
                            /\ Data(other, "Streams", "input") = << >>
                                <=> Data(id, "Streams", "input") # << >>

StreamsAgree(id) ==
  LET streams(scope) == Range(Data(id, "Streams", scope))
  IN  /\ streams("input") \cap streams("output") = {}
      /\ streams("input") \cup streams("output") = Range(Data(id, "OwnedObjects", "global"))
      /\ \A facing \in Direction : \A stream \in streams(facing) :
           /\ Data(stream, "Owner", "global") = id
           /\ Data(stream, "Direction", "global") = facing
      /\ \A operation \in IOOperation :
           willDoIOOperation(id, operation)
             <=> \E stream \in streams("global") : doIO(id, stream, operation)

ObjectsAgree ==
  walk.pc = "listing" =>
    /\ DistinctSlots
    /\ ObjectsResolve
    /\ \A id \in Range(deviceList) :
         addDeviceClient(id) /\ UIDLeadsBack(id) /\ RelatedAgree(id) /\ StreamsAgree(id)

(***************************************************************************)
(* "A property the host needs cannot be dropped again"                     *)
(* (CHANGELOG.md:18): every property an object claims has a size, and its  *)
(* data fill that size; what the host's activation walk asks for is        *)
(* claimed; what is settable can be set.  And the host is refused only on  *)
(* a walk under which the devices were changed.                            *)
(***************************************************************************)
FillsItsSize(id, selector, scope, qualifier) ==
  LET size == answerPropertyDataSize(id, selector, scope)
      data == answerPropertyData(id, selector, scope, qualifier, size.size)
  IN  size.status = "noErr" /\ data.status = "noErr" /\ data.size = size.size

ActivationSelectors(id) ==
  IF id = kAudioObjectPlugInObject THEN {"CustomPropertyInfoList", "DeviceList"}
  ELSE IF addDeviceClient(id) THEN {"Class", "DeviceUID", "Streams", "ControlList"}
  ELSE {"AvailablePhysicalFormats"}

ObjectIDsInUse ==
  {kAudioObjectPlugInObject}
    \cup {objectID(allocations[e], kind) : e \in DOMAIN allocations, kind \in Kind}

ClaimsAreAnswered ==
  /\ walk.refusal # "none" => walk.overtakes > 0
  /\ walk.pc = "listing" => \A id \in ObjectIDsInUse :
       /\ \A selector \in ActivationSelectors(id) : hasProperty(id, selector)
       /\ \A selector \in Selector :
            /\ hasProperty(id, selector) =>
                 \A scope \in Scope :
                   FillsItsSize(id, selector, scope, <<"no device", "has this UID">>)
            /\ (setPropertyData(id, selector) = "noErr")
                 <=> hasProperty(id, selector) /\ isPropertySettable(id, selector)

(***************************************************************************)
(* When no catalog is being set and the host has handled its               *)
(* notifications, it knows every device by the ID, the UID and the input   *)
(* stream it has now, whatever catalogs overtook its walk.  The exception  *)
(* is a catalog that was not stored: none is announced, so the host is     *)
(* not told if it has seen that one, or if undoing it was refused or has   *)
(* moved a device to another slot.                                         *)
(***************************************************************************)
ViewIsCurrent ==
  ~setting /\ ~changed /\ ~untold /\ walk.pc = "idle" => view = Devices

(***************************************************************************)
(* Once clients set no other catalog, the host comes to know the devices   *)
(* and keeps knowing them: no walk is refused for ever.  The exception is  *)
(* the same.                                                               *)
(***************************************************************************)
ViewBecomesCurrent ==
  <>[](~setting /\ ~untold) => <>[](view = Devices)

=============================================================================
