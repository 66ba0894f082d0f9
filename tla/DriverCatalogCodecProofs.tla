----------------------- MODULE DriverCatalogCodecProofs -----------------------
(***************************************************************************)
(* What holds of DriverCatalogCodec for every limit on the number of       *)
(* endpoints, the length of names and the size of numbers, for every set   *)
(* of endpoints a client composes its list of and for lists of every       *)
(* length.                                                                 *)
(***************************************************************************)
EXTENDS DriverCatalogCodec, SequenceTheorems, WellFoundedInduction, TLAPS

(***************************************************************************)
(* The least of a set of natural numbers.                                  *)
(***************************************************************************)
LEMMA MinIsLeast ==
  ASSUME NEW T \in SUBSET Nat, T # {}
  PROVE  /\ Min(T) \in T
         /\ \A y \in T : Min(T) <= y
  <1>1. PICK x \in T : \A y \in T : <<y, x>> \notin OpToRel(<, Nat)
    BY NatLessThanWellFounded, WFMin
  <1>2. \A y \in T : ~(y < x)
    BY <1>1 DEF OpToRel
  <1>3. \A y \in T : x <= y
    BY <1>2
  <1> QED BY <1>3 DEF Min

(***************************************************************************)
(* A list of checks yields no error when no check fails: the error of the  *)
(* first that fails is a word of its own.                                  *)
(***************************************************************************)
LEMMA FirstErrorIsNone ==
  ASSUME NEW checks, DOMAIN checks \in SUBSET Nat,
         \A k \in DOMAIN checks : checks[k][1] # "none"
  PROVE  FirstError(checks) = "none" <=> \A k \in DOMAIN checks : ~checks[k][2]
  <1> DEFINE failed == {i \in DOMAIN checks : checks[i][2]}
  <1>1. FirstError(checks) = IF failed = {} THEN "none" ELSE checks[Min(failed)][1]
    BY DEF FirstError
  <1>2. failed # {} => Min(failed) \in DOMAIN checks
    BY MinIsLeast
  <1> QED BY <1>1, <1>2

(***************************************************************************)
(* The conditions under which the checks of the root and of one endpoint   *)
(* all pass, each as one conjunction.                                      *)
(***************************************************************************)
RootAccepted(root) ==
  LET schema    == dictionaryValue(root, "schemaVersion")
      revision  == dictionaryValue(root, "revision")
      endpoints == dictionaryValue(root, "endpoints")
  IN  /\ root.type = "dictionary"
      /\ readUInt64(schema)
      /\ schema.value = driverCatalogSchemaVersion
      /\ revision # Null
      /\ readUInt64(revision)
      /\ endpoints # Null
      /\ endpoints.type = "array"
      /\ Len(Items(endpoints)) <= MaximumEndpointCount

(***************************************************************************)
(* RootChecks has no error exactly for an accepted root.                   *)
(***************************************************************************)
LEMMA RootErrorIsNone ==
  ASSUME NEW root, Len(Endpoints(root)) \in Nat
  PROVE  FirstError(RootChecks(root)) = "none" <=> RootAccepted(root)
  <1> DEFINE checks == RootChecks(root)
  <1>1. DOMAIN checks = 1 .. 8
    BY DEF RootChecks
  <1>2. \A k \in 1 .. 8 : checks[k][1] # "none"
    BY DEF RootChecks
  <1>3. FirstError(checks) = "none" <=> \A k \in 1 .. 8 : ~checks[k][2]
    <2> HIDE DEF checks
    <2>1. DOMAIN checks \in SUBSET Nat
      BY <1>1
    <2> QED BY <1>1, <1>2, <2>1, FirstErrorIsNone
  <1>4. (\A k \in 1 .. 8 : ~checks[k][2])
          <=> /\ ~checks[1][2] /\ ~checks[2][2] /\ ~checks[3][2] /\ ~checks[4][2]
              /\ ~checks[5][2] /\ ~checks[6][2] /\ ~checks[7][2] /\ ~checks[8][2]
    <2> HIDE DEF checks
    <2> QED OBVIOUS
  <1>5. (/\ ~checks[1][2] /\ ~checks[2][2] /\ ~checks[3][2] /\ ~checks[4][2]
         /\ ~checks[5][2] /\ ~checks[6][2] /\ ~checks[7][2] /\ ~checks[8][2])
          <=> RootAccepted(root)
    <2> DEFINE schema    == dictionaryValue(root, "schemaVersion")
               revision  == dictionaryValue(root, "revision")
               endpoints == dictionaryValue(root, "endpoints")
    <2>1. ~checks[1][2] <=> root.type = "dictionary"
      BY DEF RootChecks
    <2>2. ~checks[2][2] <=> readUInt64(schema)
      BY DEF RootChecks
    <2>3. ~checks[3][2] <=> ~(readUInt64(schema) /\ schema.value # driverCatalogSchemaVersion)
      BY DEF RootChecks
    <2>4. ~checks[4][2] <=> revision # Null
      BY DEF RootChecks
    <2>5. ~checks[5][2] <=> readUInt64(revision)
      BY DEF RootChecks
    <2>6. ~checks[6][2] <=> endpoints # Null
      BY DEF RootChecks
    <2>7. ~checks[7][2] <=> endpoints.type = "array"
      BY DEF RootChecks
    <2>8. ~checks[8][2] <=> Len(Items(endpoints)) <= MaximumEndpointCount
      <3>1. ~checks[8][2] <=> ~(Len(Items(endpoints)) > MaximumEndpointCount)
        BY DEF RootChecks
      <3> QED BY <3>1, CodecBoundsAssumption DEF Endpoints
    <2> HIDE DEF checks
    <2> QED
      BY <2>1, <2>2, <2>3, <2>4, <2>5, <2>6, <2>7, <2>8 DEF RootAccepted
  <1> QED BY <1>3, <1>4, <1>5

EndpointAccepted(list, i) ==
  LET Value(key) == dictionaryValue(list[i], key)
  IN  /\ list[i].type = "dictionary"
      /\ Value("id") # Null
      /\ parseIdentifier(Value("id"))
      /\ \A prior \in Prior(list, i) :
           ~SameIdentifier(dictionaryValue(prior, "id"), Value("id"))
      /\ Value("name") # Null
      /\ IsName(Value("name"))
      /\ \A prior \in Prior(list, i) :
           ~SameName(dictionaryValue(prior, "name"), Value("name"))
      /\ Value("direction") # Null
      /\ IsDirection(Value("direction"))
      /\ Value("sampleRate") # Null
      /\ IsSampleRate(Value("sampleRate"))
      /\ Value("channelCount") # Null
      /\ IsChannelCount(Value("channelCount"))

(***************************************************************************)
(* EndpointChecks has no error exactly for an accepted endpoint.           *)
(***************************************************************************)
LEMMA EndpointErrorIsNone ==
  ASSUME NEW list, NEW i
  PROVE  EndpointError(list, i) = "none" <=> EndpointAccepted(list, i)
  <1> DEFINE checks     == EndpointChecks(list, i)
             Value(key) == dictionaryValue(list[i], key)
  <1>1. DOMAIN checks = 1 .. 13
    BY DEF EndpointChecks
  <1>2. \A k \in 1 .. 13 : checks[k][1] # "none"
    BY DEF EndpointChecks
  <1>3. EndpointError(list, i) = "none" <=> \A k \in 1 .. 13 : ~checks[k][2]
    <2>1. EndpointError(list, i) = FirstError(checks)
      BY DEF EndpointError
    <2>2. DOMAIN checks \in SUBSET Nat
      BY <1>1
    <2> HIDE DEF checks
    <2> QED BY <1>1, <1>2, <2>1, <2>2, FirstErrorIsNone
  <1>4. (\A k \in 1 .. 13 : ~checks[k][2])
          <=> /\ ~checks[1][2] /\ ~checks[2][2] /\ ~checks[3][2] /\ ~checks[4][2]
              /\ ~checks[5][2] /\ ~checks[6][2] /\ ~checks[7][2] /\ ~checks[8][2]
              /\ ~checks[9][2] /\ ~checks[10][2] /\ ~checks[11][2]
              /\ ~checks[12][2] /\ ~checks[13][2]
    <2> HIDE DEF checks
    <2> QED OBVIOUS
  <1>5. /\ ~checks[1][2] <=> list[i].type = "dictionary"
        /\ ~checks[2][2] <=> Value("id") # Null
        /\ ~checks[3][2] <=> parseIdentifier(Value("id"))
    BY DEF EndpointChecks
  <1>6. ~checks[4][2] <=> \A prior \in Prior(list, i) :
                            ~SameIdentifier(dictionaryValue(prior, "id"), Value("id"))
    BY DEF EndpointChecks
  <1>7. /\ ~checks[5][2] <=> Value("name") # Null
        /\ ~checks[6][2] <=> IsName(Value("name"))
    BY DEF EndpointChecks
  <1>8. ~checks[7][2] <=> \A prior \in Prior(list, i) :
                            ~SameName(dictionaryValue(prior, "name"), Value("name"))
    BY DEF EndpointChecks
  <1>9. /\ ~checks[8][2] <=> Value("direction") # Null
        /\ ~checks[9][2] <=> IsDirection(Value("direction"))
        /\ ~checks[10][2] <=> Value("sampleRate") # Null
        /\ ~checks[11][2] <=> IsSampleRate(Value("sampleRate"))
        /\ ~checks[12][2] <=> Value("channelCount") # Null
        /\ ~checks[13][2] <=> IsChannelCount(Value("channelCount"))
    BY DEF EndpointChecks
  <1>10. (/\ ~checks[1][2] /\ ~checks[2][2] /\ ~checks[3][2] /\ ~checks[4][2]
          /\ ~checks[5][2] /\ ~checks[6][2] /\ ~checks[7][2] /\ ~checks[8][2]
          /\ ~checks[9][2] /\ ~checks[10][2] /\ ~checks[11][2]
          /\ ~checks[12][2] /\ ~checks[13][2])
           <=> EndpointAccepted(list, i)
    <2> HIDE DEF checks
    <2> QED BY <1>5, <1>6, <1>7, <1>8, <1>9 DEF EndpointAccepted
  <1> QED BY <1>3, <1>4, <1>10

-----------------------------------------------------------------------------

(***************************************************************************)
(* The inductive invariant: the property list keeps the form of a root,    *)
(* and its endpoints are values a client passed in.                        *)
(***************************************************************************)
CodecInv ==
  /\ propertyList.type = "dictionary" => propertyList = Dictionary(propertyList.entries)
  /\ Endpoints(propertyList) \in Seq(EndpointValue)

(***************************************************************************)
(* What the decoder reads of a root whose endpoints were replaced.         *)
(***************************************************************************)
LEMMA ReadWithEndpoints ==
  ASSUME NEW root, root = Dictionary(root.entries), NEW list,
         dictionaryValue(root, "endpoints") # Null
  PROVE  LET changed == WithEndpoints(root, list)
         IN  /\ changed.type = "dictionary"
             /\ changed = Dictionary(changed.entries)
             /\ dictionaryValue(changed, "endpoints") = Array(list)
             /\ Endpoints(changed) = list
             /\ \A key : key # "endpoints" =>
                  dictionaryValue(changed, key) = dictionaryValue(root, key)
  <1> DEFINE entries == root.entries
             changed == WithEndpoints(root, list)
             with    == [entries EXCEPT !["endpoints"] = Array(list)]
  <1>1. root.type = "dictionary"
    BY DEF Dictionary
  <1>2. "endpoints" \in DOMAIN entries
    BY <1>1 DEF dictionaryValue
  <1>3. changed = Dictionary(with)
    BY DEF WithEndpoints, Dictionary
  <1>4. /\ changed.type = "dictionary"
        /\ changed.entries = with
    BY <1>3 DEF Dictionary
  <1>5. /\ DOMAIN with = DOMAIN entries
        /\ with["endpoints"] = Array(list)
        /\ \A key \in DOMAIN entries : key # "endpoints" => with[key] = entries[key]
    BY <1>2
  <1>6. dictionaryValue(changed, "endpoints") = Array(list)
    <2> HIDE DEF changed, with, entries
    <2> QED BY <1>2, <1>4, <1>5 DEF dictionaryValue
  <1>7. Endpoints(changed) = list
    <2> HIDE DEF changed
    <2> QED BY <1>6 DEF Endpoints, Items, Array
  <1>8. ASSUME NEW key, key # "endpoints"
        PROVE  dictionaryValue(changed, key) = dictionaryValue(root, key)
    <2>1. dictionaryValue(root, key) = IF key \in DOMAIN entries THEN entries[key] ELSE Null
      BY <1>1 DEF dictionaryValue
    <2> HIDE DEF changed, with, entries
    <2> QED BY <1>4, <1>5, <1>8, <2>1 DEF dictionaryValue
  <1> QED BY <1>3, <1>4, <1>6, <1>7, <1>8

(***************************************************************************)
(* An accepted root has a list of endpoints that can be replaced.          *)
(***************************************************************************)
LEMMA AcceptedIsDictionary ==
  ASSUME NEW root, RootAccepted(root)
  PROVE  /\ root.type = "dictionary"
         /\ dictionaryValue(root, "endpoints") # Null
  BY DEF RootAccepted

(***************************************************************************)
(* A client that appends an endpoint keeps the form of the root.           *)
(***************************************************************************)
LEMMA CodecInvHolds == CodecSpec => []CodecInv
  <1>1. CodecInit => CodecInv
    BY CodecValueAssumption DEF CodecInit, CodecInv, Endpoints
  <1>2. CodecInv /\ [CodecNext]_propertyList => CodecInv'
    <2> SUFFICES ASSUME CodecInv, [CodecNext]_propertyList
                 PROVE  CodecInv'
      OBVIOUS
    <2>1. CASE UNCHANGED propertyList
      BY <2>1 DEF CodecInv, Endpoints, Items, dictionaryValue
    <2>2. CASE CodecNext
      <3>1. PICK value \in EndpointValue : AppendEndpoint(value)
        BY <2>2 DEF CodecNext
      <3> DEFINE list == Endpoints(propertyList)
      <3>2. /\ list \in Seq(EndpointValue)
            /\ Append(list, value) \in Seq(EndpointValue)
            /\ Len(list) \in Nat
        BY DEF CodecInv
      <3>3. RootAccepted(propertyList)
        BY <3>1, <3>2, RootErrorIsNone DEF AppendEndpoint
      <3>4. /\ propertyList = Dictionary(propertyList.entries)
            /\ dictionaryValue(propertyList, "endpoints") # Null
        BY <3>3, AcceptedIsDictionary DEF CodecInv
      <3>5. propertyList' = WithEndpoints(propertyList, Append(list, value))
        BY <3>1 DEF AppendEndpoint
      <3> DEFINE changed == WithEndpoints(propertyList, Append(list, value))
      <3>6. /\ changed = Dictionary(changed.entries)
            /\ Endpoints(changed) = Append(list, value)
        <4> HIDE DEF list
        <4> QED BY <3>4, ReadWithEndpoints
      <3>7. /\ propertyList' = Dictionary(propertyList'.entries)
            /\ Endpoints(propertyList)' = Append(list, value)
        BY <3>5, <3>6 DEF Endpoints, Items, dictionaryValue
      <3> HIDE DEF list
      <3> QED BY <3>2, <3>7 DEF CodecInv
    <2> QED BY <2>1, <2>2
  <1> QED BY <1>1, <1>2, PTL DEF CodecSpec

-----------------------------------------------------------------------------

(***************************************************************************)
(* A list the decoder accepts, what it makes of it, and the endpoints for  *)
(* which it refuses one.                                                   *)
(***************************************************************************)
Accepted(root) ==
  /\ RootAccepted(root)
  /\ \A i \in DOMAIN Endpoints(root) : EndpointAccepted(Endpoints(root), i)

Decoded(root) ==
  [error |-> "none", endpointIndex |-> 0,
   catalog |-> [revision  |-> dictionaryValue(root, "revision").value,
                endpoints |-> [i \in DOMAIN Endpoints(root) |->
                                 DecodedEndpoint(Endpoints(root)[i])]]]

Offenders(root) ==
  {i \in DOMAIN Endpoints(root) : EndpointError(Endpoints(root), i) # "none"}

(***************************************************************************)
(* Without an offender a list with an accepted root is accepted.           *)
(***************************************************************************)
LEMMA OffendersOfAccepted ==
  ASSUME NEW root, RootAccepted(root)
  PROVE  Offenders(root) = {} <=> Accepted(root)
  BY EndpointErrorIsNone DEF Accepted, Offenders

(***************************************************************************)
(* The three outcomes of decodeDriverCatalog: the catalog, the error of    *)
(* the root, the error of the first offender.                              *)
(***************************************************************************)
LEMMA DecodedWhenAccepted ==
  ASSUME NEW S, NEW root, Endpoints(root) \in Seq(S)
  PROVE  /\ Accepted(root) => decodeDriverCatalog(root) = Decoded(root)
         /\ ~RootAccepted(root) =>
              /\ decodeDriverCatalog(root).error # "none"
              /\ decodeDriverCatalog(root).catalog = EmptyCatalog
         /\ RootAccepted(root) /\ ~Accepted(root) =>
              /\ Offenders(root) # {}
              /\ decodeDriverCatalog(root).error
                   = EndpointError(Endpoints(root), Min(Offenders(root)))
              /\ decodeDriverCatalog(root).error # "none"
              /\ decodeDriverCatalog(root).endpointIndex = Min(Offenders(root)) - 1
              /\ decodeDriverCatalog(root).catalog = EmptyCatalog
  <1> DEFINE list  == Endpoints(root)
             wrong == Offenders(root)
  <1>1. Len(list) \in Nat /\ DOMAIN list = 1 .. Len(list)
    OBVIOUS
  <1>2. FirstError(RootChecks(root)) = "none" <=> RootAccepted(root)
    BY <1>1, RootErrorIsNone
  <1>3. Accepted(root) <=> RootAccepted(root) /\ wrong = {}
    BY EndpointErrorIsNone DEF Accepted, Offenders
  <1>4. decodeDriverCatalog(root) =
          IF FirstError(RootChecks(root)) # "none"
            THEN Failure(FirstError(RootChecks(root)), 0)
          ELSE IF wrong # {}
            THEN Failure(EndpointError(list, Min(wrong)), Min(wrong) - 1)
          ELSE Decoded(root)
    BY DEF decodeDriverCatalog, Decoded, Offenders, Endpoints
  <1>5. wrong # {} => Min(wrong) \in wrong
    <2>1. wrong \in SUBSET Nat
      BY <1>1 DEF Offenders
    <2> HIDE DEF wrong
    <2> QED BY <2>1, MinIsLeast
  <1>6. wrong # {} => EndpointError(list, Min(wrong)) # "none"
    BY <1>5 DEF Offenders
  <1> HIDE DEF list, wrong
  <1>7. \A error, index : /\ Failure(error, index).error = error
                          /\ Failure(error, index).endpointIndex = index
                          /\ Failure(error, index).catalog = EmptyCatalog
    BY DEF Failure
  <1> QED BY <1>2, <1>3, <1>4, <1>6, <1>7 DEF list, wrong

(***************************************************************************)
(* No error means that every check passed.                                 *)
(***************************************************************************)
LEMMA AcceptedWhenDecoded ==
  ASSUME NEW S, NEW root, Endpoints(root) \in Seq(S),
         decodeDriverCatalog(root).error = "none"
  PROVE  Accepted(root)
  BY DecodedWhenAccepted

-----------------------------------------------------------------------------

(***************************************************************************)
(* Names. Normalizing a name keeps what makes it one, and twice is once;   *)
(* names the registry takes for equal the decoder takes for equal.         *)
(***************************************************************************)
HasName(value) ==
  LET name == dictionaryValue(value, "name")
  IN  name.type = "string" => DOMAIN name.text = NameFields

LEMMA NormalizedName ==
  ASSUME NEW name, DOMAIN name = NameFields
  PROVE  /\ DOMAIN normalizedName(name) = NameFields
         /\ normalizedName(name).letters = name.letters
         /\ normalizedName(name).length = name.length
         /\ normalizedName(name).control = name.control
         /\ normalizedName(normalizedName(name)) = normalizedName(name)
  <1> DEFINE normal == normalizedName(name)
             again  == normalizedName(normal)
             accent == IF name.accent = "decomposed" THEN "composed" ELSE name.accent
  <1>1. normal = [f \in NameFields |->
                    IF f = "accent" THEN accent ELSE IF f = "padded" THEN FALSE ELSE name[f]]
    BY DEF normalizedName, NameFields
  <1>2. /\ DOMAIN normal = NameFields
        /\ normal.letters = name.letters
        /\ normal.length = name.length
        /\ normal.control = name.control
        /\ normal.padded = FALSE
        /\ normal.accent = accent
    <2> HIDE DEF normal
    <2> QED BY <1>1 DEF NameFields
  <1>3. accent # "decomposed"
    OBVIOUS
  <1>4. again = [f \in NameFields |->
                   IF f = "accent" THEN accent ELSE IF f = "padded" THEN FALSE ELSE normal[f]]
    <2> HIDE DEF normal, accent
    <2> QED BY <1>2, <1>3 DEF normalizedName, NameFields
  <1>5. again = normal
    <2>1. \A f \in NameFields : again[f] = normal[f]
      <3> HIDE DEF normal, again, accent
      <3> QED BY <1>1, <1>4
    <2> HIDE DEF normal, again, accent
    <2> QED BY <1>1, <1>4, <2>1
  <1> QED BY <1>2, <1>5

LEMMA SameKeySameName ==
  ASSUME NEW name, NEW other,
         DOMAIN name = NameFields, DOMAIN other = NameFields,
         ASCIINameKey(name) = ASCIINameKey(other)
  PROVE  ComparedKey(name) = ComparedKey(other)
  <1>1. /\ ASCIINameKey(name).letters = name.letters
        /\ ASCIINameKey(name).length = name.length
        /\ ASCIINameKey(name).accent = name.accent
    BY DEF ASCIINameKey, NameFields
  <1>2. /\ ASCIINameKey(other).letters = other.letters
        /\ ASCIINameKey(other).length = other.length
        /\ ASCIINameKey(other).accent = other.accent
    BY DEF ASCIINameKey, NameFields
  <1> QED BY <1>1, <1>2 DEF ComparedKey

(***************************************************************************)
(* The part of validate that looks at one endpoint.                        *)
(***************************************************************************)
FieldsAreValid(endpoint) ==
  /\ endpoint.identifier # ZeroUuid
  /\ Bytes(endpoint.name) \in 1 .. MaximumNameByteCount
  /\ ~endpoint.name.control
  /\ endpoint.sampleRate \in SampleRates
  /\ endpoint.channelCount \in 1 .. 256

(***************************************************************************)
(* The registry accepts what was decoded from an accepted list.            *)
(***************************************************************************)
LEMMA DecodedIsValid ==
  ASSUME NEW S, NEW root, Endpoints(root) \in Seq(S), Accepted(root),
         \A i \in DOMAIN Endpoints(root) : HasName(Endpoints(root)[i])
  PROVE  validate(Decoded(root).catalog.endpoints)
  <1> DEFINE list        == Endpoints(root)
             definitions == [i \in DOMAIN list |-> DecodedEndpoint(list[i])]
  <1>1. Decoded(root).catalog.endpoints = definitions
    BY DEF Decoded
  <1>2. /\ Len(list) \in Nat
        /\ DOMAIN list = 1 .. Len(list)
    OBVIOUS
  <1>3. Len(definitions) = Len(list)
    BY <1>2
  <1>4. Len(definitions) <= MaximumEndpointCount
    BY <1>3 DEF Accepted, RootAccepted, Endpoints
  <1>5. ASSUME NEW i \in DOMAIN list
        PROVE  LET endpoint == DecodedEndpoint(list[i])
                   name     == dictionaryValue(list[i], "name").text
               IN  /\ EndpointAccepted(list, i)
                   /\ DOMAIN name = NameFields
                   /\ parseIdentifier(dictionaryValue(list[i], "id"))
                   /\ IsName(dictionaryValue(list[i], "name"))
                   /\ endpoint.identifier = dictionaryValue(list[i], "id").text.uuid
                   /\ endpoint.name = normalizedName(name)
                   /\ FieldsAreValid(endpoint)
    <2> DEFINE endpoint == DecodedEndpoint(list[i])
               name     == dictionaryValue(list[i], "name").text
    <2>1. EndpointAccepted(list, i)
      BY DEF Accepted
    <2>2. /\ parseIdentifier(dictionaryValue(list[i], "id"))
          /\ IsName(dictionaryValue(list[i], "name"))
          /\ IsSampleRate(dictionaryValue(list[i], "sampleRate"))
          /\ IsChannelCount(dictionaryValue(list[i], "channelCount"))
      BY <2>1 DEF EndpointAccepted
    <2>3. DOMAIN name = NameFields
      BY <2>2 DEF HasName, IsName
    <2>4. /\ endpoint.identifier = dictionaryValue(list[i], "id").text.uuid
          /\ endpoint.name = normalizedName(name)
          /\ endpoint.sampleRate = dictionaryValue(list[i], "sampleRate").value
          /\ endpoint.channelCount = dictionaryValue(list[i], "channelCount").value
      BY DEF DecodedEndpoint
    <2>5. endpoint.identifier # ZeroUuid
      BY <2>2, <2>4 DEF parseIdentifier
    <2>6. /\ Bytes(endpoint.name) \in 1 .. MaximumNameByteCount
          /\ ~endpoint.name.control
      <3> HIDE DEF endpoint, name
      <3>1. ~name.control
        BY <2>2 DEF IsName, name
      <3>2. Bytes(normalizedName(name)) \in 1 .. MaximumNameByteCount
        BY <2>2 DEF IsName, name
      <3> QED BY <2>3, <2>4, <3>1, <3>2, NormalizedName
    <2>7. FieldsAreValid(endpoint)
      <3> HIDE DEF endpoint
      <3>1. endpoint.sampleRate \in SampleRates
        BY <2>2, <2>4 DEF IsSampleRate
      <3>2. endpoint.channelCount \in 1 .. 256
        <4>1. dictionaryValue(list[i], "channelCount").value \in 1 .. 256
          BY <2>2 DEF IsChannelCount
        <4> QED BY <2>4, <4>1
      <3> QED BY <2>5, <2>6, <3>1, <3>2 DEF FieldsAreValid
    <2> QED BY <2>1, <2>2, <2>3, <2>4, <2>7
  <1>6. ASSUME NEW i \in DOMAIN list, NEW j \in 1 .. i - 1
        PROVE  /\ DecodedEndpoint(list[j]).identifier # DecodedEndpoint(list[i]).identifier
               /\ ASCIINameKey(DecodedEndpoint(list[j]).name)
                    # ASCIINameKey(DecodedEndpoint(list[i]).name)
    <2>1. j \in DOMAIN list
      BY <1>2
    <2>2. list[j] \in Prior(list, i)
      BY DEF Prior
    <2>3. /\ ~SameIdentifier(dictionaryValue(list[j], "id"), dictionaryValue(list[i], "id"))
          /\ ~SameName(dictionaryValue(list[j], "name"), dictionaryValue(list[i], "name"))
      BY <1>5, <2>2 DEF EndpointAccepted
    <2>4. DecodedEndpoint(list[j]).identifier # DecodedEndpoint(list[i]).identifier
      BY <1>5, <2>1, <2>3 DEF SameIdentifier
    <2> DEFINE mine   == dictionaryValue(list[i], "name").text
               theirs == dictionaryValue(list[j], "name").text
    <2>5. ComparedKey(normalizedName(theirs)) # ComparedKey(normalizedName(mine))
      BY <1>5, <2>1, <2>3 DEF SameName
    <2>6. /\ DOMAIN normalizedName(mine) = NameFields
          /\ DOMAIN normalizedName(theirs) = NameFields
      BY <1>5, <2>1, NormalizedName
    <2>7. ASCIINameKey(normalizedName(theirs)) # ASCIINameKey(normalizedName(mine))
      BY <2>5, <2>6, SameKeySameName
    <2> QED BY <1>5, <2>1, <2>4, <2>7
  <1>7. /\ DOMAIN definitions = DOMAIN list
        /\ \A i \in DOMAIN list : definitions[i] = DecodedEndpoint(list[i])
    OBVIOUS
  <1>8. validate(definitions)
    <2>1. \A i \in DOMAIN list : \A j \in 1 .. i - 1 : j \in DOMAIN list
      BY <1>2
    <2> HIDE DEF definitions, list
    <2> SUFFICES ASSUME NEW i \in DOMAIN definitions
                 PROVE  /\ FieldsAreValid(definitions[i])
                        /\ \A j \in 1 .. i - 1 :
                             /\ definitions[j].identifier # definitions[i].identifier
                             /\ ASCIINameKey(definitions[j].name)
                                  # ASCIINameKey(definitions[i].name)
      BY <1>4 DEF validate, FieldsAreValid
    <2> QED BY <1>5, <1>6, <1>7, <2>1
  <1> QED BY <1>1, <1>8

(***************************************************************************)
(* The endpoints of the list are values of the client.                     *)
(***************************************************************************)
LEMMA EndpointsHaveNames ==
  ASSUME NEW list \in Seq(EndpointValue), NEW i \in DOMAIN list
  PROVE  HasName(list[i])
  BY CodecValueAssumption DEF HasName

(***************************************************************************)
(* What the decoder accepts the registry accepts, for property lists of    *)
(* every length and any limits: a catalog that setCatalog or the restore   *)
(* decoded cannot fail in replace for its contents                         *)
(* (DriverCatalogCodec.cpp:149-287, EndpointRegistry.cpp:167-207).         *)
(***************************************************************************)
THEOREM DecodedIsPublishableHolds == CodecSpec => []DecodedIsPublishable
  <1>1. CodecInv => DecodedIsPublishable
    <2> SUFFICES ASSUME CodecInv, decodeDriverCatalog(propertyList).error = "none"
                 PROVE  validate(decodeDriverCatalog(propertyList).catalog.endpoints)
      BY DEF DecodedIsPublishable
    <2>1. Endpoints(propertyList) \in Seq(EndpointValue)
      BY DEF CodecInv
    <2>2. Accepted(propertyList)
      BY <2>1, DecodedWhenAccepted
    <2>3. decodeDriverCatalog(propertyList) = Decoded(propertyList)
      BY <2>1, <2>2, DecodedWhenAccepted
    <2>4. \A i \in DOMAIN Endpoints(propertyList) : HasName(Endpoints(propertyList)[i])
      BY <2>1, EndpointsHaveNames
    <2> QED BY <2>1, <2>2, <2>3, <2>4, DecodedIsValid
  <1> QED BY <1>1, CodecInvHolds, PTL

-----------------------------------------------------------------------------

(***************************************************************************)
(* What createDriverCatalogPropertyList writes for an endpoint that was    *)
(* decoded.                                                                *)
(***************************************************************************)
Stored(value) == EncodedEndpoint(DecodedEndpoint(value))

(***************************************************************************)
(* The checks of one endpoint but for the duplicates; an entry that passes *)
(* its check is not absent.                                                *)
(***************************************************************************)
FieldsAreAccepted(value) ==
  /\ value.type = "dictionary"
  /\ parseIdentifier(dictionaryValue(value, "id"))
  /\ IsName(dictionaryValue(value, "name"))
  /\ IsDirection(dictionaryValue(value, "direction"))
  /\ IsSampleRate(dictionaryValue(value, "sampleRate"))
  /\ IsChannelCount(dictionaryValue(value, "channelCount"))

LEMMA FieldsAreNotNull ==
  ASSUME NEW value
  PROVE  /\ parseIdentifier(value) => value # Null
         /\ IsName(value) => value # Null
         /\ IsDirection(value) => value # Null
         /\ IsSampleRate(value) => value # Null
         /\ IsChannelCount(value) => value # Null
         /\ readUInt64(value) => value # Null
  <1>1. Null.type = "null"
    BY DEF Null
  <1>2. /\ parseIdentifier(value) \/ IsName(value) \/ IsDirection(value) => value.type = "string"
        /\ IsSampleRate(value) \/ IsChannelCount(value) \/ readUInt64(value) =>
             value.type = "number"
    BY DEF parseIdentifier, IsName, IsDirection, IsSampleRate, IsChannelCount, readUInt64
  <1> QED BY <1>1, <1>2

LEMMA EndpointAcceptedByFields ==
  ASSUME NEW list, NEW i
  PROVE  EndpointAccepted(list, i) <=>
           /\ FieldsAreAccepted(list[i])
           /\ \A prior \in Prior(list, i) :
                ~SameIdentifier(dictionaryValue(prior, "id"), dictionaryValue(list[i], "id"))
           /\ \A prior \in Prior(list, i) :
                ~SameName(dictionaryValue(prior, "name"), dictionaryValue(list[i], "name"))
  BY FieldsAreNotNull DEF EndpointAccepted, FieldsAreAccepted

(***************************************************************************)
(* What the decoder reads of an endpoint that was stored.                  *)
(***************************************************************************)
LEMMA StoredFields ==
  ASSUME NEW value
  PROVE  LET endpoint == DecodedEndpoint(value)
         IN  /\ Stored(value).type = "dictionary"
             /\ dictionaryValue(Stored(value), "id")
                  = String([uuid |-> endpoint.identifier, upper |-> FALSE])
             /\ dictionaryValue(Stored(value), "name") = String(endpoint.name)
             /\ dictionaryValue(Stored(value), "direction") = String(endpoint.direction)
             /\ dictionaryValue(Stored(value), "sampleRate") = Number(endpoint.sampleRate)
             /\ dictionaryValue(Stored(value), "channelCount") = Number(endpoint.channelCount)
  BY DEF Stored, EncodedEndpoint, Dictionary, dictionaryValue

LEMMA StringsAndNumbers ==
  ASSUME NEW x
  PROVE  /\ String(x).type = "string" /\ String(x).text = x
         /\ Number(x).type = "number" /\ Number(x).form = "whole" /\ Number(x).value = x
  BY DEF String, Number

(***************************************************************************)
(* An accepted endpoint is accepted again when it was stored, and decodes  *)
(* to the same definition.                                                 *)
(***************************************************************************)
LEMMA StoredIsAccepted ==
  ASSUME NEW value, HasName(value), FieldsAreAccepted(value)
  PROVE  /\ FieldsAreAccepted(Stored(value))
         /\ DecodedEndpoint(Stored(value)) = DecodedEndpoint(value)
         /\ dictionaryValue(Stored(value), "id").text.uuid
              = dictionaryValue(value, "id").text.uuid
         /\ normalizedName(dictionaryValue(Stored(value), "name").text)
              = normalizedName(dictionaryValue(value, "name").text)
  <1> DEFINE id   == dictionaryValue(value, "id")
             name == dictionaryValue(value, "name").text
             endpoint == DecodedEndpoint(value)
             again(key) == dictionaryValue(Stored(value), key)
  <1>1. /\ endpoint.identifier = id.text.uuid
        /\ endpoint.name = normalizedName(name)
        /\ endpoint.direction = dictionaryValue(value, "direction").text
        /\ endpoint.sampleRate = dictionaryValue(value, "sampleRate").value
        /\ endpoint.channelCount = dictionaryValue(value, "channelCount").value
    BY DEF DecodedEndpoint
  <1>2. /\ Stored(value).type = "dictionary"
        /\ again("id") = String([uuid |-> endpoint.identifier, upper |-> FALSE])
        /\ again("name") = String(endpoint.name)
        /\ again("direction") = String(endpoint.direction)
        /\ again("sampleRate") = Number(endpoint.sampleRate)
        /\ again("channelCount") = Number(endpoint.channelCount)
    BY StoredFields
  <1> HIDE DEF again, endpoint
  <1>3. /\ again("id").type = "string"
        /\ again("id").text.uuid = id.text.uuid
    <2>1. again("id") = String([uuid |-> endpoint.identifier, upper |-> FALSE])
      BY <1>2
    <2>2. again("id").text = [uuid |-> endpoint.identifier, upper |-> FALSE]
      BY <2>1, StringsAndNumbers
    <2> QED BY <1>1, <2>1, <2>2, StringsAndNumbers
  <1>4. /\ again("name").type = "string"
        /\ again("name").text = normalizedName(name)
    BY <1>1, <1>2, StringsAndNumbers
  <1>5. /\ again("direction").type = "string"
        /\ again("direction").text = dictionaryValue(value, "direction").text
    BY <1>1, <1>2, StringsAndNumbers
  <1>6. /\ again("sampleRate").type = "number"
        /\ again("sampleRate").form = "whole"
        /\ again("sampleRate").value = dictionaryValue(value, "sampleRate").value
    BY <1>1, <1>2, StringsAndNumbers
  <1>7. /\ again("channelCount").type = "number"
        /\ again("channelCount").form = "whole"
        /\ again("channelCount").value = dictionaryValue(value, "channelCount").value
    BY <1>1, <1>2, StringsAndNumbers
  <1>8. DOMAIN name = NameFields
    BY DEF FieldsAreAccepted, IsName, HasName
  <1>9. /\ normalizedName(normalizedName(name)) = normalizedName(name)
        /\ normalizedName(name).control = name.control
    <2> HIDE DEF name
    <2> QED BY <1>8, NormalizedName
  <1> HIDE DEF name, id
  <1>10. parseIdentifier(again("id"))
    BY <1>3 DEF FieldsAreAccepted, parseIdentifier, id
  <1>11. IsName(again("name"))
    BY <1>4, <1>9 DEF FieldsAreAccepted, IsName, name
  <1>12. IsDirection(again("direction"))
    BY <1>5 DEF FieldsAreAccepted, IsDirection
  <1>13. IsSampleRate(again("sampleRate"))
    BY <1>6 DEF FieldsAreAccepted, IsSampleRate
  <1>14. IsChannelCount(again("channelCount"))
    BY <1>7 DEF FieldsAreAccepted, IsChannelCount, readUInt64
  <1>15. FieldsAreAccepted(Stored(value))
    BY <1>2, <1>10, <1>11, <1>12, <1>13, <1>14 DEF FieldsAreAccepted, again
  <1>16. DecodedEndpoint(Stored(value)) = DecodedEndpoint(value)
    <2>1. /\ again("id").text.uuid = id.text.uuid
          /\ normalizedName(again("name").text) = normalizedName(name)
      BY <1>3, <1>4, <1>9
    <2> QED BY <1>5, <1>6, <1>7, <2>1 DEF DecodedEndpoint, again, id, name
  <1> QED BY <1>3, <1>4, <1>9, <1>15, <1>16 DEF again, id, name

(***************************************************************************)
(* Storing two endpoints makes no duplicates of them.                      *)
(***************************************************************************)
LEMMA SameEndpointsWhenStored ==
  ASSUME NEW value, HasName(value), FieldsAreAccepted(value),
         NEW other, HasName(other), FieldsAreAccepted(other)
  PROVE  /\ SameIdentifier(dictionaryValue(Stored(value), "id"),
                           dictionaryValue(Stored(other), "id"))
              => SameIdentifier(dictionaryValue(value, "id"), dictionaryValue(other, "id"))
         /\ SameName(dictionaryValue(Stored(value), "name"),
                     dictionaryValue(Stored(other), "name"))
              => SameName(dictionaryValue(value, "name"), dictionaryValue(other, "name"))
  <1>1. /\ parseIdentifier(dictionaryValue(value, "id"))
        /\ parseIdentifier(dictionaryValue(other, "id"))
        /\ IsName(dictionaryValue(value, "name"))
        /\ IsName(dictionaryValue(other, "name"))
    BY DEF FieldsAreAccepted
  <1>2. /\ dictionaryValue(Stored(value), "id").text.uuid
             = dictionaryValue(value, "id").text.uuid
        /\ dictionaryValue(Stored(other), "id").text.uuid
             = dictionaryValue(other, "id").text.uuid
        /\ normalizedName(dictionaryValue(Stored(value), "name").text)
             = normalizedName(dictionaryValue(value, "name").text)
        /\ normalizedName(dictionaryValue(Stored(other), "name").text)
             = normalizedName(dictionaryValue(other, "name").text)
    BY StoredIsAccepted
  <1> QED BY <1>1, <1>2 DEF SameIdentifier, SameName

(***************************************************************************)
(* The root that is stored for an accepted one is accepted, with the same  *)
(* revision.                                                               *)
(***************************************************************************)
LEMMA StoredRoot ==
  ASSUME NEW S, NEW root, Endpoints(root) \in Seq(S), RootAccepted(root)
  PROVE  LET list   == Endpoints(root)
             stored == createDriverCatalogPropertyList(Decoded(root).catalog)
         IN  /\ stored # Null
             /\ Endpoints(stored) = [i \in DOMAIN list |-> Stored(list[i])]
             /\ RootAccepted(stored)
             /\ dictionaryValue(stored, "revision").value
                  = dictionaryValue(root, "revision").value
  <1> DEFINE list     == Endpoints(root)
             revision == dictionaryValue(root, "revision").value
             catalog  == Decoded(root).catalog
             again    == [i \in DOMAIN list |-> Stored(list[i])]
             entries  == [schemaVersion |-> Number(driverCatalogSchemaVersion),
                          revision      |-> Number(revision),
                          endpoints     |-> Array(again)]
             stored   == createDriverCatalogPropertyList(catalog)
  <1>1. /\ catalog.revision = revision
        /\ catalog.endpoints = [i \in DOMAIN list |-> DecodedEndpoint(list[i])]
    BY DEF Decoded
  <1>2. revision \in 0 .. MaxInt64 /\ driverCatalogSchemaVersion \in 0 .. MaxInt64
    BY DEF RootAccepted, readUInt64
  <1>3. [i \in DOMAIN catalog.endpoints |-> EncodedEndpoint(catalog.endpoints[i])] = again
    <2> HIDE DEF catalog, list
    <2> QED BY <1>1 DEF Stored
  <1>4. stored = Dictionary(entries)
    <2> HIDE DEF catalog, again, revision
    <2> QED BY <1>1, <1>2, <1>3, CodecBoundsAssumption DEF createDriverCatalogPropertyList
  <1> HIDE DEF stored, again, revision
  <1>5. /\ stored.type = "dictionary"
        /\ dictionaryValue(stored, "schemaVersion") = Number(driverCatalogSchemaVersion)
        /\ dictionaryValue(stored, "revision") = Number(revision)
        /\ dictionaryValue(stored, "endpoints") = Array(again)
    BY <1>4 DEF Dictionary, dictionaryValue
  <1>6. Array(again).type = "array" /\ Items(Array(again)) = again
    BY DEF Array, Items
  <1>7. /\ readUInt64(Number(driverCatalogSchemaVersion))
        /\ readUInt64(Number(revision))
    BY <1>2, StringsAndNumbers DEF readUInt64
  <1>8. Number(revision) # Null /\ Array(again) # Null /\ stored # Null
    BY <1>5, <1>6, <1>7, FieldsAreNotNull DEF Null
  <1>9. Len(again) = Len(list)
    BY DEF again
  <1>10. Len(list) <= MaximumEndpointCount
    BY DEF RootAccepted, Endpoints
  <1>11. RootAccepted(stored)
    <2> HIDE DEF list
    <2> QED
      BY <1>5, <1>6, <1>7, <1>8, <1>9, <1>10, StringsAndNumbers DEF RootAccepted
  <1>12. Endpoints(stored) = again
    BY <1>5, <1>6 DEF Endpoints
  <1>13. dictionaryValue(stored, "revision").value = revision
    BY <1>5, StringsAndNumbers
  <1> QED BY <1>8, <1>11, <1>12, <1>13 DEF stored, again, revision

(***************************************************************************)
(* What is stored for an accepted list decodes to the same catalog.        *)
(***************************************************************************)
LEMMA StoredDecodesTheSame ==
  ASSUME NEW S, NEW root, Endpoints(root) \in Seq(S), Accepted(root),
         \A i \in DOMAIN Endpoints(root) : HasName(Endpoints(root)[i])
  PROVE  LET stored == createDriverCatalogPropertyList(Decoded(root).catalog)
         IN  /\ stored # Null
             /\ decodeDriverCatalog(stored) = Decoded(root)
  <1> DEFINE list   == Endpoints(root)
             stored == createDriverCatalogPropertyList(Decoded(root).catalog)
             again  == [i \in DOMAIN list |-> Stored(list[i])]
  <1>1. RootAccepted(root)
    BY DEF Accepted
  <1>2. /\ stored # Null
        /\ Endpoints(stored) = again
        /\ RootAccepted(stored)
        /\ dictionaryValue(stored, "revision").value = dictionaryValue(root, "revision").value
    BY <1>1, StoredRoot
  <1>3. \A i \in DOMAIN list : FieldsAreAccepted(list[i]) /\ EndpointAccepted(list, i)
    BY EndpointAcceptedByFields DEF Accepted
  <1>4. /\ DOMAIN again = DOMAIN list
        /\ \A i \in DOMAIN list : again[i] = Stored(list[i])
        /\ again \in Seq({Stored(list[i]) : i \in DOMAIN list})
        /\ \A i \in DOMAIN list : \A j \in 1 .. i - 1 : j \in DOMAIN list
    OBVIOUS
  <1> HIDE DEF stored, again, list
  <1>5. ASSUME NEW i \in DOMAIN list
        PROVE  EndpointAccepted(again, i)
    <2>1. FieldsAreAccepted(again[i])
      BY <1>3, <1>4, StoredIsAccepted DEF list
    <2>2. ASSUME NEW prior \in Prior(again, i)
          PROVE  /\ ~SameIdentifier(dictionaryValue(prior, "id"),
                                    dictionaryValue(again[i], "id"))
                 /\ ~SameName(dictionaryValue(prior, "name"),
                              dictionaryValue(again[i], "name"))
      <3>1. PICK j \in 1 .. i - 1 : prior = again[j]
        BY DEF Prior
      <3>2. j \in DOMAIN list /\ list[j] \in Prior(list, i)
        BY <1>4 DEF Prior
      <3>3. /\ ~SameIdentifier(dictionaryValue(list[j], "id"), dictionaryValue(list[i], "id"))
            /\ ~SameName(dictionaryValue(list[j], "name"), dictionaryValue(list[i], "name"))
        BY <1>3, <3>2 DEF EndpointAccepted
      <3>4. prior = Stored(list[j]) /\ again[i] = Stored(list[i])
        BY <1>4, <3>1, <3>2
      <3>5. /\ HasName(list[i]) /\ FieldsAreAccepted(list[i])
            /\ HasName(list[j]) /\ FieldsAreAccepted(list[j])
        BY <1>3, <3>2 DEF list
      <3> QED BY <3>3, <3>4, <3>5, SameEndpointsWhenStored
    <2> QED BY <2>1, <2>2, EndpointAcceptedByFields
  <1>6. Accepted(stored)
    BY <1>2, <1>4, <1>5 DEF Accepted
  <1>7. decodeDriverCatalog(stored) = Decoded(stored)
    BY <1>2, <1>4, <1>6, DecodedWhenAccepted
  <1>8. \A i \in DOMAIN list : DecodedEndpoint(again[i]) = DecodedEndpoint(list[i])
    BY <1>3, <1>4, StoredIsAccepted DEF list
  <1>9. [i \in DOMAIN again |-> DecodedEndpoint(again[i])]
          = [i \in DOMAIN list |-> DecodedEndpoint(list[i])]
    BY <1>4, <1>8
  <1>10. Decoded(stored) = Decoded(root)
    BY <1>2, <1>9 DEF Decoded, list
  <1> QED BY <1>2, <1>7, <1>10 DEF stored

(***************************************************************************)
(* A decoded catalog can be encoded, and a driver that is loaded again     *)
(* decodes the same catalog from it, for property lists of every length,   *)
(* any limits and every spelling (DriverCatalogCodec.cpp:149-327).         *)
(***************************************************************************)
THEOREM SurvivesStorageHolds == CodecSpec => []SurvivesStorage
  <1>1. CodecInv => SurvivesStorage
    <2> SUFFICES ASSUME CodecInv, decodeDriverCatalog(propertyList).error = "none"
                 PROVE  LET result == decodeDriverCatalog(propertyList)
                            stored == createDriverCatalogPropertyList(result.catalog)
                        IN  stored # Null /\ decodeDriverCatalog(stored) = result
      BY DEF SurvivesStorage
    <2>1. Endpoints(propertyList) \in Seq(EndpointValue)
      BY DEF CodecInv
    <2>2. Accepted(propertyList)
      BY <2>1, AcceptedWhenDecoded
    <2>3. decodeDriverCatalog(propertyList) = Decoded(propertyList)
      BY <2>1, <2>2, DecodedWhenAccepted
    <2>4. \A i \in DOMAIN Endpoints(propertyList) : HasName(Endpoints(propertyList)[i])
      BY <2>1, EndpointsHaveNames
    <2> QED BY <2>1, <2>2, <2>3, <2>4, StoredDecodesTheSame
  <1> QED BY <1>1, CodecInvHolds, PTL

-----------------------------------------------------------------------------

(***************************************************************************)
(* The checks of an endpoint look at nothing behind it.                    *)
(***************************************************************************)
LEMMA SameUpTo ==
  ASSUME NEW S, NEW list \in Seq(S), NEW n \in 0 .. Len(list)
  PROVE  LET prefix == SubSeq(list, 1, n)
         IN  /\ prefix \in Seq(S)
             /\ Len(prefix) = n
             /\ \A i \in 1 .. n : EndpointError(prefix, i) = EndpointError(list, i)
  <1> DEFINE prefix == SubSeq(list, 1, n)
  <1>1. /\ prefix \in Seq(S)
        /\ Len(prefix) = n
        /\ \A i \in 1 .. n : prefix[i] = list[i]
    OBVIOUS
  <1>2. ASSUME NEW i \in 1 .. n
        PROVE  EndpointError(prefix, i) = EndpointError(list, i)
    <2> HIDE DEF prefix
    <2>1. prefix[i] = list[i]
      BY <1>1
    <2>2. Prior(prefix, i) = Prior(list, i)
      <3>1. \A j \in 1 .. i - 1 : prefix[j] = list[j]
        BY <1>1
      <3> QED BY <3>1 DEF Prior
    <2>3. EndpointChecks(prefix, i) = EndpointChecks(list, i)
      BY <2>1, <2>2 DEF EndpointChecks
    <2> QED BY <2>3 DEF EndpointError
  <1> QED BY <1>1, <1>2

(***************************************************************************)
(* A list that is cut off keeps its accepted root, and its offenders up to *)
(* there.                                                                  *)
(***************************************************************************)
LEMMA StillAccepted ==
  ASSUME NEW S, NEW root, root = Dictionary(root.entries), RootAccepted(root),
         Endpoints(root) \in Seq(S), NEW n \in 0 .. Len(Endpoints(root))
  PROVE  LET list    == Endpoints(root)
             changed == WithEndpoints(root, SubSeq(list, 1, n))
         IN  /\ RootAccepted(changed)
             /\ Endpoints(changed) = SubSeq(list, 1, n)
             /\ Endpoints(changed) \in Seq(S)
             /\ Offenders(changed) = {i \in 1 .. n : EndpointError(list, i) # "none"}
             /\ \A i \in 1 .. n :
                  EndpointError(Endpoints(changed), i) = EndpointError(list, i)
  <1> DEFINE list    == Endpoints(root)
             prefix  == SubSeq(list, 1, n)
             changed == WithEndpoints(root, prefix)
  <1>1. /\ prefix \in Seq(S)
        /\ Len(prefix) = n
        /\ \A i \in 1 .. n : EndpointError(prefix, i) = EndpointError(list, i)
    <2> HIDE DEF list
    <2> QED BY SameUpTo DEF list
  <1>2. dictionaryValue(root, "endpoints") # Null
    BY AcceptedIsDictionary
  <1> HIDE DEF prefix
  <1>3. /\ changed.type = "dictionary"
        /\ dictionaryValue(changed, "endpoints") = Array(prefix)
        /\ Endpoints(changed) = prefix
        /\ dictionaryValue(changed, "schemaVersion") = dictionaryValue(root, "schemaVersion")
        /\ dictionaryValue(changed, "revision") = dictionaryValue(root, "revision")
    BY <1>2, ReadWithEndpoints
  <1> HIDE DEF changed
  <1>4. Array(prefix).type = "array" /\ Items(Array(prefix)) = prefix
    BY DEF Array, Items
  <1>5. Array(prefix) # Null
    BY <1>4 DEF Null
  <1>6. Len(prefix) <= MaximumEndpointCount
    <2>1. Len(list) <= MaximumEndpointCount /\ Len(list) \in Nat
      BY DEF RootAccepted, Endpoints
    <2> HIDE DEF list
    <2> QED BY <1>1, <2>1, CodecBoundsAssumption DEF list
  <1>7. RootAccepted(changed)
    BY <1>3, <1>4, <1>5, <1>6 DEF RootAccepted
  <1>8. Offenders(changed) = {i \in 1 .. n : EndpointError(list, i) # "none"}
    <2>1. DOMAIN prefix = 1 .. n
      BY <1>1
    <2> HIDE DEF list
    <2> QED BY <1>1, <1>3, <2>1 DEF Offenders
  <1> QED BY <1>1, <1>3, <1>7, <1>8 DEF prefix, changed

(***************************************************************************)
(* A refused list yields no part of a catalog, and the endpoint it names   *)
(* is the first that spoils the list, for property lists of every length   *)
(* and any limits (DriverCatalogCodec.hpp:57,                              *)
(* DriverCatalogCodec.cpp:149-287).                                        *)
(***************************************************************************)
THEOREM BlamesTheFirstOffenderHolds == CodecSpec => []BlamesTheFirstOffender
  <1>1. CodecInv => BlamesTheFirstOffender
    <2> SUFFICES ASSUME CodecInv PROVE BlamesTheFirstOffender
      OBVIOUS
    <2> DEFINE root    == propertyList
               result  == decodeDriverCatalog(root)
               list    == Endpoints(root)
               UpTo(n) == decodeDriverCatalog(WithEndpoints(root, SubSeq(list, 1, n)))
               first   == Min(Offenders(root))
    <2>1. list \in Seq(EndpointValue) /\ Len(list) \in Nat /\ DOMAIN list = 1 .. Len(list)
      BY DEF CodecInv
    <2>2. result.error # "none" => result.catalog = EmptyCatalog
      BY <2>1, DecodedWhenAccepted DEF Decoded
    <2>3. ASSUME result.error # "none", FirstError(RootChecks(root)) = "none"
          PROVE  /\ UpTo(result.endpointIndex).error = "none"
                 /\ UpTo(result.endpointIndex + 1).error = result.error
      <3>1. RootAccepted(root) /\ root = Dictionary(root.entries)
        BY <2>1, <2>3, RootErrorIsNone, AcceptedIsDictionary DEF CodecInv
      <3>2. ~Accepted(root)
        BY <2>1, <2>3, DecodedWhenAccepted DEF Decoded
      <3>3. /\ Offenders(root) # {}
            /\ result.error = EndpointError(list, first)
            /\ result.endpointIndex = first - 1
        BY <2>1, <3>1, <3>2, DecodedWhenAccepted
      <3>4. Offenders(root) \in SUBSET Nat
        BY <2>1 DEF Offenders
      <3>5. first \in Offenders(root) /\ \A i \in Offenders(root) : first <= i
        BY <3>3, <3>4, MinIsLeast
      <3>6. /\ first \in 1 .. Len(list)
            /\ \A i \in 1 .. first - 1 : EndpointError(list, i) = "none"
            /\ EndpointError(list, first) # "none"
        <4>1. first \in DOMAIN list /\ EndpointError(list, first) # "none"
          BY <3>5 DEF Offenders
        <4>2. ASSUME NEW i \in 1 .. first - 1
              PROVE  EndpointError(list, i) = "none"
          <5> HIDE DEF first
          <5>1. i \in DOMAIN list /\ ~(first <= i)
            BY <2>1, <4>1
          <5> QED BY <3>5, <5>1 DEF Offenders
        <4> QED BY <2>1, <4>1, <4>2
      <3> DEFINE before == WithEndpoints(root, SubSeq(list, 1, first - 1))
                 with   == WithEndpoints(root, SubSeq(list, 1, first))
      <3> HIDE DEF first
      <3>7. first - 1 \in 0 .. Len(list) /\ first \in 0 .. Len(list)
        BY <2>1, <3>6
      <3>8. /\ RootAccepted(before)
            /\ Endpoints(before) \in Seq(EndpointValue)
            /\ Offenders(before) = {i \in 1 .. first - 1 : EndpointError(list, i) # "none"}
        BY <2>1, <3>1, <3>7, StillAccepted
      <3>9. /\ RootAccepted(with)
            /\ Endpoints(with) \in Seq(EndpointValue)
            /\ Offenders(with) = {i \in 1 .. first : EndpointError(list, i) # "none"}
            /\ EndpointError(Endpoints(with), first) = EndpointError(list, first)
        <4>1. first \in 1 .. first
          BY <3>6
        <4> QED BY <2>1, <3>1, <3>7, <4>1, StillAccepted
      <3> HIDE DEF before, with, list
      <3>10. decodeDriverCatalog(before).error = "none"
        <4>1. Offenders(before) = {}
          BY <3>6, <3>8
        <4>2. Accepted(before)
          BY <3>8, <4>1, OffendersOfAccepted
        <4> QED BY <3>8, <4>2, DecodedWhenAccepted DEF Decoded
      <3>11. decodeDriverCatalog(with).error = EndpointError(list, first)
        <4>1. Offenders(with) = {first}
          <5>1. \A i \in 1 .. first : i = first \/ i \in 1 .. first - 1
            BY <3>6
          <5>2. first \in 1 .. first
            BY <3>6
          <5> QED BY <3>6, <3>9, <5>1, <5>2
        <4>2. Offenders(with) \in SUBSET Nat /\ Min(Offenders(with)) \in Offenders(with)
          BY <3>6, <4>1, MinIsLeast
        <4>3. Min(Offenders(with)) = first
          BY <4>1, <4>2
        <4>4. ~Accepted(with)
          <5>1. Offenders(with) = {} <=> Accepted(with)
            BY <3>9, OffendersOfAccepted
          <5> QED BY <4>1, <5>1
        <4> QED BY <3>9, <4>3, <4>4, DecodedWhenAccepted
      <3>12. first - 1 + 1 = first
        BY <3>6
      <3> QED BY <3>3, <3>10, <3>11, <3>12 DEF before, with, list
    <2> QED BY <2>2, <2>3 DEF BlamesTheFirstOffender
  <1> QED BY <1>1, CodecInvHolds, PTL

=============================================================================
