----------------------- MODULE EndpointRegistryProofs -----------------------
(***************************************************************************)
(* What holds of EndpointRegistry for every set of identities and names    *)
(* and every number of slots.                                              *)
(***************************************************************************)
EXTENDS EndpointRegistry, FiniteSetTheorems, FunctionTheorems, WellFoundedInduction,
        TLAPS

(***************************************************************************)
(* A nonempty set of naturals has a least element and, when it is bounded, *)
(* a greatest one.                                                         *)
(***************************************************************************)
LEMMA LeastNatural ==
  ASSUME NEW T \in SUBSET Nat, T # {}
  PROVE  \E x \in T : \A y \in T : x <= y
  <1>1. PICK x \in T : \A y \in T : <<y, x>> \notin OpToRel(<, Nat)
    BY NatLessThanWellFounded, WFMin
  <1>2. \A y \in T : ~(y < x)
    BY <1>1 DEF OpToRel
  <1>3. \A y \in T : x <= y
    BY <1>2
  <1> QED BY <1>3

LEMMA GreatestNatural ==
  ASSUME NEW b \in Nat, NEW S \in SUBSET (0 .. b), S # {}
  PROVE  \E m \in S : \A s \in S : s <= m
  <1> DEFINE T == {t \in Nat : \E s \in S : t = b - s}
  <1>1. T \in SUBSET Nat
    OBVIOUS
  <1>2. T # {}
    <2>1. PICK s \in S : TRUE
      OBVIOUS
    <2>2. b - s \in Nat
      OBVIOUS
    <2>3. b - s \in T
      BY <2>2
    <2> QED BY <2>3
  <1> HIDE DEF T
  <1>3. PICK t \in T : \A y \in T : t <= y
    BY <1>1, <1>2, LeastNatural
  <1>4. PICK m \in S : t = b - m
    BY DEF T
  <1>5. ASSUME NEW s \in S PROVE s <= m
    <2>1. b - s \in Nat
      OBVIOUS
    <2>2. b - s \in T
      BY <2>1 DEF T
    <2>3. b - m <= b - s
      BY <1>3, <1>4, <2>2
    <2> QED BY <2>3
  <1> QED BY <1>5

(***************************************************************************)
(* Allocate gives an identity that stays the slot it has.                  *)
(***************************************************************************)
LEMMA AllocateKeeps ==
  ASSUME NEW allocated, NEW definitions,
         NEW e \in Identities(definitions), e \in DOMAIN allocated
  PROVE  /\ Allocate(allocated, definitions)[e] = allocated[e]
         /\ DOMAIN Allocate(allocated, definitions) = Identities(definitions)
  BY DEF Allocate

(***************************************************************************)
(* Object IDs of identities that stay never change (EndpointRegistry.hpp:  *)
(* 92-93), whatever sequence of catalogs replaces one another.             *)
(***************************************************************************)
THEOREM StableIdentityHolds == RegistrySpec => StableIdentity
  <1> DEFINE Stable == \A e \in DOMAIN allocations \cap DOMAIN allocations' :
                         allocations'[e] = allocations[e]
  <1>1. ASSUME [RegistryNext]_registryVars PROVE [Stable]_registryVars
    <2>1. CASE RegistryNext
      <3>1. PICK definitions \in Seq(Definition) : Replace(definitions)
        BY <2>1 DEF RegistryNext
      <3>2. allocations' = Allocate(allocations, definitions)
        BY <3>1 DEF Replace
      <3>3. DOMAIN allocations' = Identities(definitions)
        BY <3>2 DEF Allocate
      <3>4. Stable
        BY <3>2, <3>3, AllocateKeeps
      <3> QED BY <3>4
    <2>2. CASE UNCHANGED registryVars
      BY <2>2
    <2> QED BY <1>1, <2>1, <2>2
  <1> QED BY <1>1, PTL DEF RegistrySpec, StableIdentity

-----------------------------------------------------------------------------
(***************************************************************************)
(* Of the elements of a bounded set, one has exactly n others below it,    *)
(* for every n smaller than the number of elements.                        *)
(***************************************************************************)
LEMMA NthElement ==
  ASSUME NEW b \in Nat, NEW S \in SUBSET (0 .. b),
         NEW n \in Nat, n < Cardinality(S)
  PROVE  \E s \in S : Cardinality({u \in S : u < s}) = n
  <1> DEFINE Below(s) == {u \in S : u < s}
  <1> DEFINE T == {s \in S : n <= Cardinality(Below(s))}
  <1>1. IsFiniteSet(S) /\ Cardinality(S) \in Nat /\ S \in SUBSET Nat
    <2>1. IsFiniteSet(0 .. b)
      BY FS_Interval
    <2>2. IsFiniteSet(S)
      BY <2>1, FS_Subset
    <2> QED BY <2>2, FS_CardinalityType
  <1>2. \A s \in S : IsFiniteSet(Below(s)) /\ Cardinality(Below(s)) \in Nat
    BY <1>1, FS_Subset, FS_CardinalityType
  <1>3. ASSUME NEW R \in SUBSET S, NEW m \in R, \A u \in R : u <= m,
               \A u \in S, v \in R : u < v => u \in R,
               n < Cardinality(R)
        PROVE  m \in T
    <2>1. Below(m) = R \ {m}
      <3>1. \A u \in R : u # m => u < m
        BY <1>3
      <3>2. \A u \in S : u < m => u \in R
        BY <1>3
      <3>3. m \in Nat /\ ~(m < m)
        BY <1>1
      <3> QED BY <3>1, <3>2, <3>3
    <2>2. IsFiniteSet(R) /\ Cardinality(R) \in Nat
      BY <1>1, FS_Subset, FS_CardinalityType
    <2>3. Cardinality(R \ {m}) = Cardinality(R) - 1
      BY <2>2, FS_RemoveElement
    <2>4. n <= Cardinality(Below(m))
      BY <1>3, <2>1, <2>2, <2>3
    <2> QED BY <2>4
  <1>4. T # {}
    <2>1. S # {}
      BY <1>1, FS_EmptySet
    <2>2. PICK m \in S : \A s \in S : s <= m
      BY <2>1, GreatestNatural
    <2>3. m \in T
      <3> HIDE DEF T
      <3> QED BY <1>3, <2>2
    <2> QED BY <2>3
  <1>5. PICK s \in T : \A t \in T : s <= t
    <2>1. T \in SUBSET Nat
      BY <1>1
    <2> HIDE DEF T
    <2> QED BY <1>4, <2>1, LeastNatural
  <1>6. CASE n < Cardinality(Below(s))
    <2>1. Below(s) # {}
      BY <1>6, FS_EmptySet
    <2>2. Below(s) \in SUBSET (0 .. b)
      OBVIOUS
    <2>3. PICK m \in Below(s) : \A u \in Below(s) : u <= m
      <3> HIDE DEF Below
      <3> QED BY <2>1, <2>2, GreatestNatural
    <2>4. m \in T
      <3>1. Below(s) \in SUBSET S
        OBVIOUS
      <3>2. \A u \in S, v \in Below(s) : u < v => u \in Below(s)
        OBVIOUS
      <3> HIDE DEF T, Below
      <3> QED BY <1>3, <1>6, <2>3, <3>1, <3>2
    <2>5. m < s /\ m \in Nat /\ s \in Nat
      BY <2>3
    <2> QED BY <1>5, <2>4, <2>5
  <1>7. CASE ~(n < Cardinality(Below(s)))
    <2>1. Cardinality(Below(s)) \in Nat /\ n <= Cardinality(Below(s)) /\ s \in S
      BY <1>2
    <2>2. Cardinality(Below(s)) = n
      BY <1>7, <2>1
    <2> QED BY <2>1, <2>2
  <1> QED BY <1>6, <1>7

-----------------------------------------------------------------------------
(***************************************************************************)
(* There are MaximumEndpointCount slots.                                   *)
(***************************************************************************)
LEMMA SlotsAreFinite ==
  /\ IsFiniteSet(EndpointSlot)
  /\ Cardinality(EndpointSlot) = MaximumEndpointCount
  /\ MaximumEndpointCount - 1 \in Nat
  <1>1. MaximumEndpointCount \in Nat /\ MaximumEndpointCount > 0
    BY MaximumEndpointCountAssumption
  <1> QED BY <1>1, FS_Interval DEF EndpointSlot

(***************************************************************************)
(* An identity is found where it is listed.                                *)
(***************************************************************************)
LEMMA IndexOfIdentity ==
  ASSUME NEW definitions, NEW e \in Identities(definitions)
  PROVE  /\ IndexOf(definitions, e) \in DOMAIN definitions
         /\ definitions[IndexOf(definitions, e)].identifier = e
  BY DEF Identities, IndexOf

(***************************************************************************)
(* The allocations replace may meet and the definitions it accepts.        *)
(***************************************************************************)
Allocated(allocated) == allocated \in [DOMAIN allocated -> EndpointSlot]

IsNew(allocated, definitions, i) ==
  i \in DOMAIN definitions /\ definitions[i].identifier \notin DOMAIN allocated

(***************************************************************************)
(* Of two new identities, the later has more new ones before it.           *)
(***************************************************************************)
LEMMA NewBeforeIsSmaller ==
  ASSUME NEW allocated, NEW definitions \in Seq(Definition),
         NEW i \in DOMAIN definitions, NEW j \in DOMAIN definitions,
         i < j, IsNew(allocated, definitions, i)
  PROVE  /\ Cardinality(NewBefore(allocated, definitions, i)) \in Nat
         /\ Cardinality(NewBefore(allocated, definitions, j)) \in Nat
         /\ Cardinality(NewBefore(allocated, definitions, i))
              < Cardinality(NewBefore(allocated, definitions, j))
  <1> DEFINE B(k) == NewBefore(allocated, definitions, k)
  <1>1. i \in Int /\ j \in Int /\ i >= 1
    OBVIOUS
  <1>2. ASSUME NEW k \in Int PROVE IsFiniteSet(B(k)) /\ Cardinality(B(k)) \in Nat
    <2>1. 1 \in Int /\ k - 1 \in Int
      OBVIOUS
    <2>2. IsFiniteSet(1 .. k - 1)
      BY <2>1, FS_Interval
    <2>3. B(k) \in SUBSET (1 .. k - 1)
      BY DEF NewBefore
    <2> HIDE DEF B
    <2>4. IsFiniteSet(B(k))
      BY <2>2, <2>3, FS_Subset
    <2> QED BY <2>4, FS_CardinalityType
  <1>3. B(i) \cup {i} \in SUBSET B(j) /\ i \notin B(i)
    BY <1>1 DEF NewBefore, IsNew
  <1> HIDE DEF B
  <1>4. Cardinality(B(i) \cup {i}) = Cardinality(B(i)) + 1
    BY <1>1, <1>2, <1>3, FS_AddElement
  <1>5. Cardinality(B(i) \cup {i}) <= Cardinality(B(j))
    BY <1>1, <1>2, <1>3, FS_Subset
  <1>6. Cardinality(B(i)) < Cardinality(B(j))
    BY <1>1, <1>2, <1>4, <1>5
  <1> QED BY <1>1, <1>2, <1>6 DEF B

(***************************************************************************)
(* A catalog that validate accepts leaves free slots enough for its new    *)
(* identities.                                                             *)
(***************************************************************************)
LEMMA EnoughFreeSlots ==
  ASSUME NEW allocated, Allocated(allocated),
         NEW definitions \in Seq(Definition), Valid(definitions),
         NEW i, IsNew(allocated, definitions, i)
  PROVE  /\ Cardinality(NewBefore(allocated, definitions, i)) \in Nat
         /\ Cardinality(NewBefore(allocated, definitions, i))
              < Cardinality(FreeSlots(allocated, definitions))
  <1> DEFINE Old == {j \in DOMAIN definitions : ~IsNew(allocated, definitions, j)}
             Taken == {allocated[e] : e \in Kept(allocated, definitions)}
             Before == NewBefore(allocated, definitions, i)
             n == Len(definitions)
  <1>1. /\ n \in Nat /\ DOMAIN definitions = 1 .. n /\ i \in 1 .. n
        /\ IsFiniteSet(1 .. n) /\ Cardinality(1 .. n) = n
    <2>1. n \in Nat /\ DOMAIN definitions = 1 .. n /\ i \in 1 .. n
      BY DEF IsNew
    <2> HIDE DEF n
    <2>2. IsFiniteSet(1 .. n) /\ Cardinality(1 .. n) = n
      BY <2>1, FS_Interval, SMTT(30)
    <2> QED BY <2>1, <2>2
  <1>2. /\ Old \in SUBSET (1 .. n) /\ Before \cup {i} \in SUBSET ((1 .. n) \ Old)
        /\ Before \in SUBSET (1 .. n) /\ i \notin Before
    BY <1>1 DEF IsNew, NewBefore
  <1>3. Taken \in SUBSET EndpointSlot
    BY DEF Kept, Allocated
  <1>4. [j \in Old |-> allocated[definitions[j].identifier]] \in Surjection(Old, Taken)
    <2>1. \A j \in Old : definitions[j].identifier \in Kept(allocated, definitions)
      BY DEF Kept, Identities, IsNew
    <2>2. ASSUME NEW t \in Taken
          PROVE  \E j \in Old : allocated[definitions[j].identifier] = t
      <3>1. PICK e \in Kept(allocated, definitions) : t = allocated[e]
        OBVIOUS
      <3>2. PICK j \in DOMAIN definitions : definitions[j].identifier = e
        BY <3>1 DEF Kept, Identities
      <3>3. j \in Old
        BY <3>1, <3>2 DEF Kept, IsNew
      <3> QED BY <3>1, <3>2, <3>3
    <2> QED BY <2>1, <2>2 DEF Surjection
  <1> HIDE DEF Old, Taken, Before, n
  <1>5. IsFiniteSet(Old) /\ Cardinality(Old) \in Nat
    <2>1. IsFiniteSet(Old)
      BY <1>1, <1>2, FS_Subset
    <2> QED BY <2>1, FS_CardinalityType
  <1>6. /\ IsFiniteSet(Taken) /\ Cardinality(Taken) \in Nat
        /\ Cardinality(Taken) <= Cardinality(Old)
    <2>1. IsFiniteSet(Taken) /\ Cardinality(Taken) <= Cardinality(Old)
      BY <1>4, <1>5, FS_Surjection
    <2> QED BY <2>1, FS_CardinalityType
  <1>7. Cardinality(EndpointSlot \ Taken) = MaximumEndpointCount - Cardinality(Taken)
    <2>1. EndpointSlot \cap Taken = Taken
      BY <1>3
    <2> QED BY <2>1, SlotsAreFinite, FS_Difference, ZenonT(30)
  <1>8. Cardinality((1 .. n) \ Old) = n - Cardinality(Old) /\ IsFiniteSet((1 .. n) \ Old)
    <2> DEFINE Indices == 1 .. n
    <2>1. Indices \cap Old = Old
      BY <1>2
    <2>2. IsFiniteSet(Indices) /\ Cardinality(Indices) = n
      BY <1>1
    <2> HIDE DEF Indices
    <2>3. /\ IsFiniteSet(Indices \ Old)
          /\ Cardinality(Indices \ Old) = Cardinality(Indices) - Cardinality(Indices \cap Old)
      BY <2>2, FS_Difference
    <2> QED BY <2>1, <2>2, <2>3 DEF Indices
  <1>9. /\ Cardinality(Before) \in Nat
        /\ Cardinality(Before) + 1 <= n - Cardinality(Old)
    <2>1. IsFiniteSet(Before) /\ Cardinality(Before) \in Nat
      <3>1. IsFiniteSet(Before)
        BY <1>1, <1>2, FS_Subset
      <3> QED BY <3>1, FS_CardinalityType
    <2>2. Cardinality(Before \cup {i}) = Cardinality(Before) + 1
      BY <1>2, <2>1, FS_AddElement
    <2>3. Cardinality(Before \cup {i}) <= Cardinality((1 .. n) \ Old)
      BY <1>2, <1>8, FS_Subset
    <2> QED BY <1>8, <2>1, <2>2, <2>3
  <1>10. n <= MaximumEndpointCount /\ MaximumEndpointCount \in Nat
    BY MaximumEndpointCountAssumption DEF Valid, n
  <1>11. FreeSlots(allocated, definitions) = EndpointSlot \ Taken
    BY DEF FreeSlots, Taken
  <1>12. Cardinality(Before) < Cardinality(EndpointSlot \ Taken)
    BY <1>1, <1>5, <1>6, <1>7, <1>9, <1>10
  <1> QED BY <1>9, <1>11, <1>12 DEF Before

(***************************************************************************)
(* A new identity gets a free slot, with as many free ones below it as     *)
(* there are new identities before it.                                     *)
(***************************************************************************)
LEMMA NewSlotIsFree ==
  ASSUME NEW allocated, Allocated(allocated),
         NEW definitions \in Seq(Definition), Valid(definitions),
         NEW i, IsNew(allocated, definitions, i)
  PROVE  /\ NewSlot(allocated, definitions, i) \in FreeSlots(allocated, definitions)
         /\ Cardinality({u \in FreeSlots(allocated, definitions) :
                            u < NewSlot(allocated, definitions, i)})
              = Cardinality(NewBefore(allocated, definitions, i))
  <1>1. FreeSlots(allocated, definitions) \in SUBSET (0 .. MaximumEndpointCount - 1)
    BY DEF FreeSlots, EndpointSlot
  <1>2. \E s \in FreeSlots(allocated, definitions) :
          Cardinality({u \in FreeSlots(allocated, definitions) : u < s})
            = Cardinality(NewBefore(allocated, definitions, i))
    BY <1>1, EnoughFreeSlots, SlotsAreFinite, NthElement, ZenonT(30)
  <1> QED BY <1>2 DEF NewSlot

-----------------------------------------------------------------------------
(***************************************************************************)
(* What Replace makes of the allocations: every published identity has a   *)
(* slot, and no two have the same.                                         *)
(***************************************************************************)
LEMMA AllocateIsSound ==
  ASSUME NEW allocated, Allocated(allocated),
         \A e, f \in DOMAIN allocated : allocated[e] = allocated[f] => e = f,
         NEW definitions \in Seq(Definition), Valid(definitions)
  PROVE  LET new == Allocate(allocated, definitions)
         IN  /\ new \in [Identities(definitions) -> EndpointSlot]
             /\ \A e, f \in Identities(definitions) : new[e] = new[f] => e = f
  <1> DEFINE new == Allocate(allocated, definitions)
             At(e) == IndexOf(definitions, e)
             Free == FreeSlots(allocated, definitions)
             Slot(i) == NewSlot(allocated, definitions, i)
             Below(s) == {u \in Free : u < s}
             Before(i) == NewBefore(allocated, definitions, i)
  <1>1. ASSUME NEW e \in Identities(definitions), e \in DOMAIN allocated
        PROVE  new[e] = allocated[e] /\ new[e] \in EndpointSlot /\ new[e] \notin Free
    BY <1>1, AllocateKeeps DEF Allocated, FreeSlots, Kept
  <1>2. ASSUME NEW e \in Identities(definitions), e \notin DOMAIN allocated
        PROVE  /\ new[e] = Slot(At(e))
               /\ new[e] \in EndpointSlot
               /\ new[e] \in Free
               /\ Cardinality(Below(new[e])) = Cardinality(Before(At(e)))
               /\ IsNew(allocated, definitions, At(e))
    <2>1. IsNew(allocated, definitions, At(e))
      BY <1>2, IndexOfIdentity DEF IsNew
    <2>2. new[e] = Slot(At(e))
      BY <1>2 DEF Allocate
    <2>3. Slot(At(e)) \in Free /\ Cardinality(Below(Slot(At(e)))) = Cardinality(Before(At(e)))
      BY <2>1, NewSlotIsFree
    <2>4. Free \in SUBSET EndpointSlot
      BY DEF FreeSlots
    <2> HIDE DEF new, Slot, Below, Before, At, Free
    <2> QED BY <2>1, <2>2, <2>3, <2>4
  <1>3. new \in [Identities(definitions) -> EndpointSlot]
    <2>1. DOMAIN new = Identities(definitions) /\ new = [e \in DOMAIN new |-> new[e]]
      BY DEF Allocate
    <2> HIDE DEF new
    <2> QED BY <1>1, <1>2, <2>1
  <1>4. ASSUME NEW e \in Identities(definitions), NEW f \in Identities(definitions),
               new[e] = new[f]
        PROVE  e = f
    <2>1. CASE e \in DOMAIN allocated /\ f \in DOMAIN allocated
      BY <1>1, <1>4, <2>1
    <2>2. CASE e \in DOMAIN allocated /\ f \notin DOMAIN allocated
      BY <1>1, <1>2, <1>4, <2>2
    <2>3. CASE e \notin DOMAIN allocated /\ f \in DOMAIN allocated
      BY <1>1, <1>2, <1>4, <2>3
    <2>4. CASE e \notin DOMAIN allocated /\ f \notin DOMAIN allocated
      <3>1. Cardinality(Before(At(e))) = Cardinality(Before(At(f)))
        BY <1>2, <1>4, <2>4
      <3>2. IsNew(allocated, definitions, At(e)) /\ IsNew(allocated, definitions, At(f))
        BY <1>2, <2>4
      <3>3. /\ At(e) \in DOMAIN definitions /\ At(f) \in DOMAIN definitions
            /\ At(e) \in Int /\ At(f) \in Int
        BY IndexOfIdentity
      <3>4. ~(At(e) < At(f)) /\ ~(At(f) < At(e))
        <4> HIDE DEF At
        <4>1. ASSUME NEW i \in DOMAIN definitions, NEW j \in DOMAIN definitions, i < j,
                     IsNew(allocated, definitions, i)
              PROVE  Cardinality(Before(i)) # Cardinality(Before(j))
          <5>1. /\ Cardinality(Before(i)) \in Nat /\ Cardinality(Before(j)) \in Nat
                /\ Cardinality(Before(i)) < Cardinality(Before(j))
            BY <4>1, NewBeforeIsSmaller
          <5> QED BY <5>1
        <4> QED BY <3>1, <3>2, <3>3, <4>1
      <3>5. At(e) = At(f)
        BY <3>3, <3>4
      <3> QED BY <3>5, IndexOfIdentity
    <2> QED BY <2>1, <2>2, <2>3, <2>4
  <1> QED BY <1>3, <1>4

(***************************************************************************)
(* The invariant of the registry.                                          *)
(***************************************************************************)
RegistryInv == RegistryTypeOK /\ DistinctSlots

(***************************************************************************)
(* No endpoint, no slot.                                                   *)
(***************************************************************************)
LEMMA RegistryInitially == RegistryInit => RegistryInv
  <1> SUFFICES ASSUME RegistryInit PROVE RegistryInv
    OBVIOUS
  <1>1. endpoints \in Seq(Definition) /\ Identities(endpoints) = {}
    BY DEF RegistryInit, Identities
  <1>2. allocations \in [Identities(endpoints) -> EndpointSlot] /\ DOMAIN allocations = {}
    BY <1>1 DEF RegistryInit
  <1> QED BY <1>1, <1>2 DEF RegistryInv, RegistryTypeOK, DistinctSlots

(***************************************************************************)
(* An accepted catalog leaves every identity with a slot of its own.       *)
(***************************************************************************)
LEMMA ReplaceKeepsRegistryInv ==
  ASSUME RegistryInv, NEW definitions \in Seq(Definition), Replace(definitions)
  PROVE  RegistryInv'
  <1>1. Allocated(allocations)
    BY DEF RegistryInv, RegistryTypeOK, Allocated
  <1>2. \A e, f \in DOMAIN allocations : allocations[e] = allocations[f] => e = f
    BY DEF RegistryInv, DistinctSlots
  <1>3. /\ endpoints' = definitions /\ Valid(definitions)
        /\ allocations' = Allocate(allocations, definitions)
    BY DEF Replace
  <1>4. /\ allocations' \in [Identities(definitions) -> EndpointSlot]
        /\ \A e, f \in Identities(definitions) : allocations'[e] = allocations'[f] => e = f
    BY <1>1, <1>2, <1>3, AllocateIsSound
  <1>5. Identities(endpoints)' = Identities(definitions)
    BY <1>3 DEF Identities
  <1> QED BY <1>3, <1>4, <1>5 DEF RegistryInv, RegistryTypeOK, DistinctSlots

(***************************************************************************)
(* The invariant is about endpoints and allocations alone.                 *)
(***************************************************************************)
LEMMA StutterKeepsRegistryInv ==
  ASSUME RegistryInv, UNCHANGED registryVars PROVE RegistryInv'
  BY DEF RegistryInv, RegistryTypeOK, DistinctSlots, Identities, registryVars

(***************************************************************************)
(* No two endpoints ever share a slot, however identities come and go, for *)
(* every number of slots.                                                  *)
(***************************************************************************)
THEOREM RegistryIsSound == RegistrySpec => [](RegistryTypeOK /\ DistinctSlots)
  <1>1. RegistryInv /\ [RegistryNext]_registryVars => RegistryInv'
    BY ReplaceKeepsRegistryInv, StutterKeepsRegistryInv DEF RegistryNext
  <1>2. RegistryInv => RegistryTypeOK /\ DistinctSlots
    BY DEF RegistryInv
  <1> QED BY RegistryInitially, <1>1, <1>2, PTL DEF RegistrySpec

(***************************************************************************)
(* Every object ID leads back to its object alone, by search and by        *)
(* division.                                                               *)
(***************************************************************************)
LEMMA ObjectIDsAreDistinct ==
  ASSUME NEW a \in EndpointSlot, NEW b \in EndpointSlot, NEW j \in Kind, NEW k \in Kind
  PROVE  /\ objectID(a, j) = objectID(b, k) => a = b /\ j = k
         /\ endpointSlot(objectID(a, j)) = a
         /\ objectID(a, j) >= firstEndpointObjectID
  <1>1. \A kind \in Kind : Offset(kind) \in 0 .. 3
    BY DEF Kind, Offset
  <1>2. Offset(j) = Offset(k) => j = k
    BY DEF Kind, Offset
  <1>3. a \in Nat /\ b \in Nat /\ a < MaximumEndpointCount /\ MaximumEndpointCount \in Nat
    BY MaximumEndpointCountAssumption DEF EndpointSlot
  <1>4. \A m \in Nat, o \in 0 .. 3 : (4 * m + o) \div 4 = m
    OBVIOUS
  <1>5. /\ objectID(a, j) \in Int
        /\ objectID(a, j) - firstEndpointObjectID = 4 * a + Offset(j)
        /\ objectID(a, j) >= firstEndpointObjectID
    BY <1>1, <1>3 DEF objectID, firstEndpointObjectID
  <1>6. endpointSlot(objectID(a, j)) = a
    BY <1>1, <1>3, <1>4, <1>5 DEF endpointSlot, firstEndpointObjectID
  <1>7. objectID(a, j) = objectID(b, k) => a = b /\ Offset(j) = Offset(k)
    BY <1>1, <1>3 DEF objectID, firstEndpointObjectID
  <1> QED BY <1>2, <1>5, <1>6, <1>7

(***************************************************************************)
(* Objects of distinct slots have distinct IDs, so each resolves.          *)
(***************************************************************************)
LEMMA ObjectsResolveWhenDistinct == RegistryInv => ObjectsResolve
  <1> SUFFICES ASSUME RegistryInv,
                      NEW e \in DOMAIN allocations, NEW kind \in Kind
               PROVE  /\ findObject(objectID(allocations[e], kind)) = {<<e, kind>>}
                      /\ endpointSlot(objectID(allocations[e], kind)) = allocations[e]
    BY DEF ObjectsResolve
  <1>1. /\ DOMAIN allocations = Identities(endpoints)
        /\ \A f \in Identities(endpoints) : allocations[f] \in EndpointSlot
    BY DEF RegistryInv, RegistryTypeOK
  <1>2. ASSUME NEW f \in Identities(endpoints), NEW k \in Kind,
               objectID(allocations[f], k) = objectID(allocations[e], kind)
        PROVE  f = e /\ k = kind
    <2>1. allocations[f] = allocations[e] /\ k = kind
      BY <1>1, <1>2, ObjectIDsAreDistinct
    <2> QED BY <1>1, <2>1 DEF RegistryInv, DistinctSlots
  <1>3. findObject(objectID(allocations[e], kind)) = {<<e, kind>>}
    <2> DEFINE id == objectID(allocations[e], kind)
    <2>1. ASSUME NEW object \in findObject(id) PROVE object = <<e, kind>>
      <3>1. /\ object \in Identities(endpoints) \X Kind
            /\ objectID(allocations[object[1]], object[2]) = id
        BY DEF findObject
      <3>2. PICK f \in Identities(endpoints), k \in Kind : object = <<f, k>>
        BY <3>1
      <3>3. objectID(allocations[f], k) = id
        BY <3>1, <3>2
      <3>4. f = e /\ k = kind
        BY <1>2, <3>3
      <3> QED BY <3>2, <3>4
    <2>2. <<e, kind>> \in findObject(id)
      <3>1. <<e, kind>> \in Identities(endpoints) \X Kind
        BY <1>1
      <3> QED BY <3>1 DEF findObject
    <2> QED BY <2>1, <2>2
  <1> QED BY <1>1, <1>3, ObjectIDsAreDistinct

(***************************************************************************)
(* Every object ID of every endpoint leads back to its object alone, by    *)
(* search in the registry and by division in the realtime path, whatever   *)
(* catalogs went before and however many slots there are.                  *)
(***************************************************************************)
THEOREM ObjectsAlwaysResolve == RegistrySpec => []ObjectsResolve
  <1>1. RegistryInv /\ [RegistryNext]_registryVars => RegistryInv'
    BY ReplaceKeepsRegistryInv, StutterKeepsRegistryInv DEF RegistryNext
  <1> QED BY RegistryInitially, <1>1, ObjectsResolveWhenDistinct, PTL DEF RegistrySpec

=============================================================================
