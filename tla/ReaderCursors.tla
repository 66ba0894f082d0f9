---------------------------- MODULE ReaderCursors ----------------------------
(***************************************************************************)
(* The reader slots of RealtimeAudioRing: who owns which slot, under which *)
(* generation, and where its cursor stands.  registerReader and            *)
(* unregisterReader are cut at every access to a slot's atomics; a         *)
(* Controller is a thread that executes them.                              *)
(*                                                                         *)
(* The published frame count belongs to FrameStore; the actions that load  *)
(* it take it as a parameter.                                              *)
(***************************************************************************)
EXTENDS Integers, FiniteSets

CONSTANTS
  MaximumReaderCount,   \* reader slots
  GenerationModulus,    \* 2^32 in the code: generations wrap
  Controller,           \* threads that register and unregister readers
  Serialized,           \* whether control operations exclude each other
  MaxRegistrations      \* bound on the registrations of one behaviour

ASSUME MaximumReaderCountAssumption == MaximumReaderCount \in Nat \ {0}
ASSUME GenerationModulusAssumption == GenerationModulus \in Nat \ {0, 1}
ASSUME SerializedAssumption == Serialized \in BOOLEAN
ASSUME MaxRegistrationsAssumption == MaxRegistrations \in Nat

ReaderSlot == 0 .. MaximumReaderCount - 1

Generation == 0 .. GenerationModulus - 1

ReaderState == [active : BOOLEAN, generation : Generation, cursor : Nat]

RealtimeAudioReaderToken == [slot : ReaderSlot, generation : Generation]

ControlState ==
  [pc : {"idle", "scanning", "claimed", "positioned", "deactivating",
         "retiring"},
   slot : 0 .. MaximumReaderCount, generation : Generation, position : Nat]

IdleControl == [pc |-> "idle", slot |-> 0, generation |-> 0, position |-> 0]

VARIABLES
  readers,         \* the slots
  control,         \* per controller, its execution of (un)registerReader
  held,            \* tokens returned by registerReader and not yet given back
  retired,         \* tokens that were given back
  registrations    \* how many registrations have begun

cursorVars == <<readers, control, held, retired, registrations>>

CursorsInit ==
  /\ readers = [s \in ReaderSlot |->
                  [active |-> FALSE, generation |-> 1, cursor |-> 0]]
  /\ control = [p \in Controller |-> IdleControl]
  /\ held = {}
  /\ retired = {}
  /\ registrations = 0

\* The two loads of tokenIsValid act as one: nothing that happens between
\* them changes the verdict a check at one of them would give.
tokenIsValid(token) ==
  /\ readers[token.slot].active
  /\ readers[token.slot].generation = token.generation

MayControl(p) ==
  /\ control[p].pc = "idle"
  /\ Serialized => \A q \in Controller : control[q].pc = "idle"

-----------------------------------------------------------------------------
(***************************************************************************)
(* registerReader()                                                        *)
(***************************************************************************)
BeginRegister(p) ==
  /\ MayControl(p)
  /\ registrations < MaxRegistrations
  /\ registrations' = registrations + 1
  /\ control' = [control EXCEPT ![p] = [IdleControl EXCEPT !.pc = "scanning"]]
  /\ UNCHANGED <<readers, held, retired>>

\* The compare-exchange on an active slot fails: the scan moves on.
SkipSlot(p) ==
  /\ control[p].pc = "scanning"
  /\ control[p].slot \in ReaderSlot
  /\ readers[control[p].slot].active
  /\ control' = [control EXCEPT ![p].slot = @ + 1]
  /\ UNCHANGED <<readers, held, retired, registrations>>

\* Past the last slot: no reader is registered.
RegisterFails(p) ==
  /\ control[p].pc = "scanning"
  /\ control[p].slot = MaximumReaderCount
  /\ control' = [control EXCEPT ![p] = IdleControl]
  /\ UNCHANGED <<readers, held, retired, registrations>>

ClaimSlot(p) ==
  /\ control[p].pc = "scanning"
  /\ control[p].slot \in ReaderSlot
  /\ ~readers[control[p].slot].active
  /\ readers' = [readers EXCEPT ![control[p].slot].active = TRUE]
  /\ control' = [control EXCEPT ![p].pc = "claimed"]
  /\ UNCHANGED <<held, retired, registrations>>

\* Mutant: register at the beginning of the timeline.
LoadNoPosition(p, published) ==
  /\ control[p].pc = "claimed"
  /\ control' = [control EXCEPT ![p] =
                   [control[p] EXCEPT
                      !.pc = "positioned",
                      !.generation = readers[control[p].slot].generation,
                      !.position = 0]]
  /\ UNCHANGED <<readers, held, retired, registrations>>

\* Loads the slot's generation and the published frame count.
LoadPosition(p, published) ==
  /\ control[p].pc = "claimed"
  /\ control' = [control EXCEPT ![p] =
                   [control[p] EXCEPT
                      !.pc = "positioned",
                      !.generation = readers[control[p].slot].generation,
                      !.position = published]]
  /\ UNCHANGED <<readers, held, retired, registrations>>

TokenOf(p) == [slot |-> control[p].slot, generation |-> control[p].generation]

\* Stores the cursor and returns the token.
ReturnToken(p) ==
  /\ control[p].pc = "positioned"
  /\ readers' = [readers EXCEPT ![control[p].slot].cursor = control[p].position]
  /\ held' = held \cup {TokenOf(p)}
  /\ control' = [control EXCEPT ![p] = IdleControl]
  /\ UNCHANGED <<retired, registrations>>

-----------------------------------------------------------------------------
\* Mutant: trust the token without checking it.
BeginUnregisterUnchecked(p, token) ==
  /\ MayControl(p)
  /\ token \in held \cup retired
  /\ control' = [control EXCEPT ![p] =
                   [IdleControl EXCEPT !.pc = "deactivating",
                                       !.slot = token.slot]]
  /\ held' = held \ {token}
  /\ retired' = retired \cup {token}
  /\ UNCHANGED <<readers, registrations>>

(***************************************************************************)
(* unregisterReader(token), of a token the caller holds or, by mistake,    *)
(* of one it gave back already.  An invalid token returns at once.         *)
(***************************************************************************)
BeginUnregister(p, token) ==
  /\ MayControl(p)
  /\ token \in held \cup retired
  /\ tokenIsValid(token)
  /\ control' = [control EXCEPT ![p] =
                   [IdleControl EXCEPT !.pc = "deactivating",
                                       !.slot = token.slot]]
  /\ held' = held \ {token}
  /\ retired' = retired \cup {token}
  /\ UNCHANGED <<readers, registrations>>

Deactivate(p) ==
  /\ control[p].pc = "deactivating"
  /\ readers' = [readers EXCEPT ![control[p].slot].active = FALSE]
  /\ control' = [control EXCEPT ![p].pc = "retiring"]
  /\ UNCHANGED <<held, retired, registrations>>

\* Mutants: the generation stays, or outgrows its width.
SameGeneration(generation) == generation
UnboundedGeneration(generation) == generation + 1

NextGeneration(generation) == (generation + 1) % GenerationModulus

Retire(p) ==
  /\ control[p].pc = "retiring"
  /\ readers' = [readers EXCEPT ![control[p].slot].generation =
                   NextGeneration(@)]
  /\ control' = [control EXCEPT ![p] = IdleControl]
  /\ UNCHANGED <<held, retired, registrations>>

\* A control operation under way, reading the given frame count.
ContinueControl(p, published) ==
  \/ SkipSlot(p) \/ RegisterFails(p) \/ ClaimSlot(p)
  \/ LoadPosition(p, published) \/ ReturnToken(p)
  \/ Deactivate(p) \/ Retire(p)

-----------------------------------------------------------------------------
(***************************************************************************)
(* Type correctness of the slots and of the control operations.            *)
(***************************************************************************)
CursorsTypeOK ==
  /\ readers \in [ReaderSlot -> ReaderState]
  /\ control \in [Controller -> ControlState]
  /\ held \subseteq RealtimeAudioReaderToken
  /\ retired \subseteq RealtimeAudioReaderToken
  /\ registrations \in 0 .. MaxRegistrations

(***************************************************************************)
(* The token registerReader returned stays valid, and alone on its slot,   *)
(* until its owner gives it back, whatever is registered, unregistered or  *)
(* given back twice meanwhile.                                             *)
(***************************************************************************)
HeldTokensStayValid ==
  /\ \A token \in held : tokenIsValid(token)
  /\ \A token, other \in held : token.slot = other.slot => token = other

(***************************************************************************)
(* A token that was given back is never valid again once the unregister    *)
(* is done, so a client that kept it hears silence, not its successor's    *)
(* audio.                                                                  *)
(***************************************************************************)
RetiredTokensStayInvalid ==
  \A token \in retired :
    tokenIsValid(token) =>
      \E p \in Controller :
        control[p].pc = "deactivating" /\ control[p].slot = token.slot

=============================================================================
