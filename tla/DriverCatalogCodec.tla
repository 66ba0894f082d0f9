-------------------------- MODULE DriverCatalogCodec --------------------------
(***************************************************************************)
(* decodeDriverCatalog and createDriverCatalogPropertyList: the one way    *)
(* into the driver's catalog and the form in which the host stores it.     *)
(*                                                                         *)
(* A property-list value is a record tagged with its type.  A name is what *)
(* the checks tell apart: its letters, an accent in one of the two Unicode *)
(* spellings, its case, and whether spaces surround it or a control        *)
(* character is in it; its UTF-8 length follows.  An identifier string is  *)
(* a UUID in one of two cases.  Numbers are whole, fractions or not        *)
(* finite; whole ones have a value.                                        *)
(***************************************************************************)
EXTENDS Integers, Sequences, FiniteSetsExt

CONSTANTS
  ZeroUuid,              \* the identifier of sixteen zero bytes
  NotUuid,               \* what strings that are no UUID stand for
  MaximumEndpointCount,  \* EndpointRegistry::maximumEndpointCount
  MaximumNameByteCount,  \* EndpointRegistry::maximumNameByteCount
  MaxInt64,              \* the largest std::int64_t
  Root,                  \* property lists a client begins with
  EndpointValue          \* values a client puts into the list of endpoints

ASSUME CodecBoundsAssumption ==
  /\ MaximumEndpointCount \in Nat \ {0}
  /\ MaximumNameByteCount \in Nat
  /\ MaxInt64 \in Nat

VARIABLE propertyList

driverCatalogSchemaVersion == 1

EmptyCatalog == [revision |-> 0, endpoints |-> << >>]

\* No object: a key that is absent, a dictionary that could not be made.
Null == [type |-> "null"]

Number(value) == [type |-> "number", form |-> "whole", value |-> value]

String(text) == [type |-> "string", text |-> text]

Array(items) == [type |-> "array", items |-> items]

Dictionary(entries) == [type |-> "dictionary", entries |-> entries]

dictionaryValue(value, key) ==
  IF value.type = "dictionary" /\ key \in DOMAIN value.entries
    THEN value.entries[key] ELSE Null

Items(value) == IF value.type = "array" THEN value.items ELSE << >>

NameFields == {"letters", "length", "accent", "upper", "padded", "control"}

\* What a client passes in is made of the values above.
ASSUME CodecValueAssumption ==
  /\ \A root \in Root :
       /\ root.type = "dictionary" => root = Dictionary(root.entries)
       /\ Items(dictionaryValue(root, "endpoints")) \in Seq(EndpointValue)
  /\ \A value \in EndpointValue :
       LET name == dictionaryValue(value, "name")
       IN  name.type = "string" => DOMAIN name.text = NameFields

\* Mutant: read every whole number, as if it were unsigned.
ReadsAnyWhole(value) ==
  value.type = "number" /\ value.form = "whole" /\ value.value >= 0

\* CFNumberGetValue refuses what a std::int64_t does not hold exactly.
readUInt64(value) ==
  /\ value.type = "number"
  /\ value.form = "whole"
  /\ value.value \in 0 .. MaxInt64

-----------------------------------------------------------------------------
(***************************************************************************)
(* Names and identifiers.                                                  *)
(***************************************************************************)
Bytes(name) ==
  name.length
    + (CASE name.accent = "none" -> 0
         [] name.accent = "composed" -> 2
         [] name.accent = "decomposed" -> 3)
    + (IF name.padded THEN 2 ELSE 0)
    + (IF name.control THEN 1 ELSE 0)

\* Trimmed and in normalization form C.
normalizedName(name) ==
  [name EXCEPT !.padded = FALSE,
               !.accent = IF @ = "decomposed" THEN "composed" ELSE @]

\* Mutant: compare the names as they are.
LiteralKey(name) == name

\* What CFStringCompare, case-insensitive and nonliteral, looks at.
ComparedKey(name) == <<name.letters, name.length, name.accent # "none">>

IsName(value) ==
  /\ value.type = "string"
  /\ Bytes(normalizedName(value.text)) \in 1 .. MaximumNameByteCount
  /\ ~value.text.control

SameName(value, other) ==
  /\ IsName(value) /\ IsName(other)
  /\ ComparedKey(normalizedName(value.text)) = ComparedKey(normalizedName(other.text))

parseIdentifier(value) ==
  value.type = "string" /\ value.text.uuid \notin {ZeroUuid, NotUuid}

SameIdentifier(value, other) ==
  /\ parseIdentifier(value) /\ parseIdentifier(other)
  /\ value.text.uuid = other.text.uuid

IsDirection(value) == value.type = "string" /\ value.text \in {"input", "output"}

\* The decoder and the registry each write this limit down.
SampleRates == 1 .. 768000

IsSampleRate(value) ==
  /\ value.type = "number"
  /\ value.form = "whole"
  /\ value.value \in SampleRates

IsChannelCount(value) == readUInt64(value) /\ value.value \in 1 .. 256

-----------------------------------------------------------------------------
(***************************************************************************)
(* decodeDriverCatalog.  Checks are pairs of an error and the condition    *)
(* under which it is returned, in the order of the code; the first counts. *)
(***************************************************************************)
FirstError(checks) ==
  LET failed == {i \in DOMAIN checks : checks[i][2]}
  IN  IF failed = {} THEN "none" ELSE checks[Min(failed)][1]

RootChecks(root) ==
  LET schema    == dictionaryValue(root, "schemaVersion")
      revision  == dictionaryValue(root, "revision")
      endpoints == dictionaryValue(root, "endpoints")
  IN  << <<"rootIsNotDictionary", root.type # "dictionary">>,
         <<"missingSchemaVersion", ~readUInt64(schema)>>,
         <<"unsupportedSchemaVersion",
           readUInt64(schema) /\ schema.value # driverCatalogSchemaVersion>>,
         <<"missingRevision", revision = Null>>,
         <<"invalidRevision", ~readUInt64(revision)>>,
         <<"missingEndpoints", endpoints = Null>>,
         <<"endpointsIsNotArray", endpoints.type # "array">>,
         <<"tooManyEndpoints", Len(Items(endpoints)) > MaximumEndpointCount>> >>

\* Mutant: look for duplicates in the whole list.
Others(list, i) == {list[j] : j \in DOMAIN list \ {i}}

Prior(list, i) == {list[j] : j \in 1 .. i - 1}

EndpointChecks(list, i) ==
  LET Value(key) == dictionaryValue(list[i], key)
  IN  << <<"endpointIsNotDictionary", list[i].type # "dictionary">>,
         <<"missingIdentifier", Value("id") = Null>>,
         <<"invalidIdentifier", ~parseIdentifier(Value("id"))>>,
         <<"duplicateIdentifier", \E prior \in Prior(list, i) :
             SameIdentifier(dictionaryValue(prior, "id"), Value("id"))>>,
         <<"missingName", Value("name") = Null>>,
         <<"invalidName", ~IsName(Value("name"))>>,
         <<"duplicateName", \E prior \in Prior(list, i) :
             SameName(dictionaryValue(prior, "name"), Value("name"))>>,
         <<"missingDirection", Value("direction") = Null>>,
         <<"invalidDirection", ~IsDirection(Value("direction"))>>,
         <<"missingSampleRate", Value("sampleRate") = Null>>,
         <<"invalidSampleRate", ~IsSampleRate(Value("sampleRate"))>>,
         <<"missingChannelCount", Value("channelCount") = Null>>,
         <<"invalidChannelCount", ~IsChannelCount(Value("channelCount"))>> >>

EndpointError(list, i) == FirstError(EndpointChecks(list, i))

DecodedEndpoint(value) ==
  [identifier   |-> dictionaryValue(value, "id").text.uuid,
   name         |-> normalizedName(dictionaryValue(value, "name").text),
   direction    |-> dictionaryValue(value, "direction").text,
   sampleRate   |-> dictionaryValue(value, "sampleRate").value,
   channelCount |-> dictionaryValue(value, "channelCount").value]

Failure(error, index) ==
  [error |-> error, endpointIndex |-> index, catalog |-> EmptyCatalog]

\* Indices of endpoints count from zero in the result.
decodeDriverCatalog(root) ==
  LET list  == Items(dictionaryValue(root, "endpoints"))
      wrong == {i \in DOMAIN list : EndpointError(list, i) # "none"}
  IN  IF FirstError(RootChecks(root)) # "none"
        THEN Failure(FirstError(RootChecks(root)), 0)
      ELSE IF wrong # {}
        THEN Failure(EndpointError(list, Min(wrong)), Min(wrong) - 1)
      ELSE [error |-> "none", endpointIndex |-> 0,
            catalog |-> [revision  |-> dictionaryValue(root, "revision").value,
                         endpoints |-> [i \in DOMAIN list |-> DecodedEndpoint(list[i])]]]

-----------------------------------------------------------------------------
(***************************************************************************)
(* createDriverCatalogPropertyList.  Identifiers are written in lower      *)
(* case.                                                                   *)
(***************************************************************************)
EncodedEndpoint(endpoint) ==
  Dictionary([id           |-> String([uuid |-> endpoint.identifier, upper |-> FALSE]),
              name         |-> String(endpoint.name),
              direction    |-> String(endpoint.direction),
              sampleRate   |-> Number(endpoint.sampleRate),
              channelCount |-> Number(endpoint.channelCount)])

createDriverCatalogPropertyList(catalog) ==
  IF catalog.revision > MaxInt64
    THEN Null
    ELSE Dictionary(
           [schemaVersion |-> Number(driverCatalogSchemaVersion),
            revision      |-> Number(catalog.revision),
            endpoints     |-> Array([i \in DOMAIN catalog.endpoints |->
                                       EncodedEndpoint(catalog.endpoints[i])])])

(***************************************************************************)
(* EndpointRegistry::validate, which the catalog meets next, with its own  *)
(* idea of equal names: it folds ASCII letters and compares bytes.         *)
(***************************************************************************)
ASCIINameKey(name) ==
  [name EXCEPT !.upper = IF name.accent = "none" THEN FALSE ELSE @]

validate(definitions) ==
  /\ Len(definitions) <= MaximumEndpointCount
  /\ \A i \in DOMAIN definitions :
       LET endpoint == definitions[i]
       IN  /\ endpoint.identifier # ZeroUuid
           /\ Bytes(endpoint.name) \in 1 .. MaximumNameByteCount
           /\ ~endpoint.name.control
           /\ endpoint.sampleRate \in SampleRates
           /\ endpoint.channelCount \in 1 .. 256
           /\ \A j \in 1 .. i - 1 :
                /\ definitions[j].identifier # endpoint.identifier
                /\ ASCIINameKey(definitions[j].name) # ASCIINameKey(endpoint.name)

-----------------------------------------------------------------------------
(***************************************************************************)
(* A client composes a property list.  Endpoints are added to a list only  *)
(* while what is around them is accepted: without that none is looked at.  *)
(***************************************************************************)
Endpoints(root) == Items(dictionaryValue(root, "endpoints"))

WithEndpoints(root, list) ==
  [root EXCEPT !.entries = [@ EXCEPT !["endpoints"] = Array(list)]]

AppendEndpoint(value) ==
  /\ FirstError(RootChecks(propertyList)) = "none"
  /\ propertyList' = WithEndpoints(propertyList,
                                   Append(Endpoints(propertyList), value))

CodecInit == propertyList \in Root

CodecNext == \E value \in EndpointValue : AppendEndpoint(value)

CodecSpec == CodecInit /\ [][CodecNext]_propertyList

-----------------------------------------------------------------------------
(***************************************************************************)
(* What the decoder accepts the registry accepts: setCatalog and the       *)
(* restore of a stored catalog fail in replace only for want of memory,    *)
(* although the two check names by different rules.                        *)
(***************************************************************************)
DecodedIsPublishable ==
  LET result == decodeDriverCatalog(propertyList)
  IN  result.error = "none" => validate(result.catalog.endpoints)

(***************************************************************************)
(* setCatalog stores the catalog it decoded, encoded anew.  It can always  *)
(* be encoded, and a driver that is loaded again decodes the same catalog  *)
(* from it, whatever spelling of names, identifiers and numbers the client *)
(* used.                                                                   *)
(***************************************************************************)
SurvivesStorage ==
  LET result == decodeDriverCatalog(propertyList)
      stored == createDriverCatalogPropertyList(result.catalog)
  IN  result.error = "none" => /\ stored # Null
                               /\ decodeDriverCatalog(stored) = result

(***************************************************************************)
(* A refused list yields no part of a catalog (DriverCatalogCodec.hpp:57), *)
(* and the endpoint it names is the first that spoils the list: up to it   *)
(* the list decodes, with it it does not.                                  *)
(***************************************************************************)
BlamesTheFirstOffender ==
  LET result    == decodeDriverCatalog(propertyList)
      list      == Endpoints(propertyList)
      UpTo(n)   == decodeDriverCatalog(WithEndpoints(propertyList, SubSeq(list, 1, n)))
  IN  /\ result.error # "none" => result.catalog = EmptyCatalog
      /\ result.error # "none" /\ FirstError(RootChecks(propertyList)) = "none" =>
           /\ UpTo(result.endpointIndex).error = "none"
           /\ UpTo(result.endpointIndex + 1).error = result.error

=============================================================================
