-------------------------- MODULE EndpointRegistry --------------------------
(***************************************************************************)
(* EndpointRegistry: the bounded mapping from endpoint identities to slots *)
(* and from slots to the object IDs and UIDs the host addresses.  A        *)
(* definition is its identity, its name, already folded to lower case, and *)
(* its direction; the limits on one definition's fields are checked before *)
(* anything changes and are left to DriverCatalogCodec.                    *)
(***************************************************************************)
EXTENDS Integers, Sequences, FiniteSets

CONSTANTS
  Identifier,             \* the 16-byte endpoint identities
  Name,                   \* endpoint names up to case
  MaximumEndpointCount    \* 32 in the code

ASSUME MaximumEndpointCountAssumption == MaximumEndpointCount \in Nat \ {0}
ASSUME IdentifierAssumption == IsFiniteSet(Identifier)

EndpointSlot == 0 .. MaximumEndpointCount - 1

Direction == {"input", "output"}

Definition == [identifier : Identifier, name : Name, direction : Direction]

VARIABLES
  endpoints,     \* the published definitions, in the order they were given
  allocations    \* the slot of every published identity

registryVars == <<endpoints, allocations>>

RegistryInit ==
  /\ endpoints = << >>
  /\ allocations = [e \in {} |-> 0]

Identities(definitions) ==
  {definitions[i].identifier : i \in DOMAIN definitions}

\* validate(definitions), for definitions whose fields are in range.
Valid(definitions) ==
  /\ Len(definitions) <= MaximumEndpointCount
  /\ \A i, j \in DOMAIN definitions :
       i # j => /\ definitions[i].identifier # definitions[j].identifier
                /\ definitions[i].name # definitions[j].name

-----------------------------------------------------------------------------
(***************************************************************************)
(* replace(definitions).  Identities that stay keep their slots, marked in *)
(* a first pass; then the new ones take the free slots in order.           *)
(***************************************************************************)
Kept(allocated, definitions) == Identities(definitions) \cap DOMAIN allocated

FreeSlots(allocated, definitions) ==
  EndpointSlot \ {allocated[e] : e \in Kept(allocated, definitions)}

\* The new identities listed before the one at index i.
NewBefore(allocated, definitions, i) ==
  {j \in 1 .. i - 1 : definitions[j].identifier \notin DOMAIN allocated}

NewSlot(allocated, definitions, i) ==
  CHOOSE s \in FreeSlots(allocated, definitions) :
    Cardinality({u \in FreeSlots(allocated, definitions) : u < s})
      = Cardinality(NewBefore(allocated, definitions, i))

IndexOf(definitions, e) ==
  CHOOSE i \in DOMAIN definitions : definitions[i].identifier = e

\* Mutant: number the endpoints from scratch.
AllocateByPosition(allocated, definitions) ==
  [e \in Identities(definitions) |-> IndexOf(definitions, e) - 1]

\* Mutant: the position in the list is the slot, one too far.
AllocateFromOne(allocated, definitions) ==
  [e \in Identities(definitions) |-> IndexOf(definitions, e)]

Allocate(allocated, definitions) ==
  [e \in Identities(definitions) |->
     IF e \in DOMAIN allocated
       THEN allocated[e]
       ELSE NewSlot(allocated, definitions, IndexOf(definitions, e))]

\* An invalid catalog is refused and changes nothing.
Replace(definitions) ==
  /\ Valid(definitions)
  /\ endpoints' = definitions
  /\ allocations' = Allocate(allocations, definitions)

-----------------------------------------------------------------------------
(***************************************************************************)
(* Object IDs.  Each slot owns four consecutive IDs; endpointSlot of the   *)
(* runtime finds the slot again by one subtraction and one division.       *)
(***************************************************************************)
firstEndpointObjectID == 1000

Kind == {"visibleDevice", "visibleStream", "companionDevice", "companionStream"}

Offset(kind) ==
  CASE kind = "visibleDevice" -> 0
    [] kind = "visibleStream" -> 1
    [] kind = "companionDevice" -> 2
    [] kind = "companionStream" -> 3

objectID(slot, kind) == firstEndpointObjectID + slot * 4 + Offset(kind)

NoSlot == -1

endpointSlot(id) ==
  IF id < firstEndpointObjectID
       \/ (id - firstEndpointObjectID) \div 4 >= MaximumEndpointCount
    THEN NoSlot
    ELSE (id - firstEndpointObjectID) \div 4

\* Every object the host can address, with the endpoint and the kind it has.
findObject(id) ==
  {object \in Identities(endpoints) \X Kind :
     objectID(allocations[object[1]], object[2]) = id}

(***************************************************************************)
(* The two devices of an endpoint: the one it defines and its hidden       *)
(* companion of the opposite direction.                                    *)
(***************************************************************************)
DefinitionOf(e) == endpoints[IndexOf(endpoints, e)]

Opposite(direction) == IF direction = "input" THEN "output" ELSE "input"

companionDirection(e) == Opposite(DefinitionOf(e).direction)

inputDeviceObjectID(e) ==
  objectID(allocations[e], IF DefinitionOf(e).direction = "input"
                             THEN "visibleDevice" ELSE "companionDevice")

outputDeviceObjectID(e) ==
  objectID(allocations[e], IF DefinitionOf(e).direction = "output"
                             THEN "visibleDevice" ELSE "companionDevice")

visibleDeviceUID(e) == <<e, DefinitionOf(e).direction>>

companionDeviceUID(e) ==
  <<e, IF DefinitionOf(e).direction = "input" THEN "internal.feeder"
                                               ELSE "internal.reader">>

kAudioObjectUnknown == 0

findDeviceByUID(uid) ==
  LET visible   == {e \in Identities(endpoints) : visibleDeviceUID(e) = uid}
      companion == {e \in Identities(endpoints) : companionDeviceUID(e) = uid}
      found     == {objectID(allocations[e], "visibleDevice") : e \in visible}
                     \cup {objectID(allocations[e], "companionDevice") : e \in companion}
  IN  IF found = {} THEN kAudioObjectUnknown ELSE CHOOSE id \in found : TRUE

-----------------------------------------------------------------------------
RegistryNext == \E definitions \in Seq(Definition) : Replace(definitions)

RegistrySpec == RegistryInit /\ [][RegistryNext]_registryVars

(***************************************************************************)
(* Type correctness; every published identity has a slot.                  *)
(***************************************************************************)
RegistryTypeOK ==
  /\ endpoints \in Seq(Definition)
  /\ allocations \in [Identities(endpoints) -> EndpointSlot]

(***************************************************************************)
(* No two endpoints share a slot, however identities come and go.          *)
(***************************************************************************)
DistinctSlots ==
  \A e, f \in DOMAIN allocations : allocations[e] = allocations[f] => e = f

(***************************************************************************)
(* "A successful replacement keeps object IDs for unchanged identities"    *)
(* (EndpointRegistry.hpp:92-93), through renaming and reordering.          *)
(***************************************************************************)
StableIdentity ==
  [][\A e \in DOMAIN allocations \cap DOMAIN allocations' :
       allocations'[e] = allocations[e]]_registryVars

(***************************************************************************)
(* Every object ID of every endpoint leads back to that object alone, by   *)
(* search in the registry and by division in the realtime path.            *)
(***************************************************************************)
ObjectsResolve ==
  \A e \in DOMAIN allocations, kind \in Kind :
    LET id == objectID(allocations[e], kind)
    IN  /\ findObject(id) = {<<e, kind>>}
        /\ endpointSlot(id) = allocations[e]

=============================================================================
