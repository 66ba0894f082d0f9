---------------------------- MODULE AudioTimeline ----------------------------
(***************************************************************************)
(* What the ring promises, without slots, stamps or threads: a timeline    *)
(* that only grows, and listeners that move along it at their own pace.  A *)
(* listener joins at the end the timeline has at some moment of its        *)
(* joining; from then on every frame it passes is reported to it once, as  *)
(* audio or as dropped, and nobody else moves it.                          *)
(***************************************************************************)
EXTENDS Integers

CONSTANT Listener

VARIABLES
  timeline,    \* how many frames have been published
  listeners    \* where each listener stands and what it was told

timelineVars == <<timeline, listeners>>

Away == [phase |-> "away", position |-> 0, audio |-> 0, dropped |-> 0]

TimelineInit ==
  /\ timeline = 0
  /\ listeners = [l \in Listener |-> Away]

Extend == timeline' > timeline /\ UNCHANGED listeners

Moves(l, listener) ==
  /\ listeners' = [listeners EXCEPT ![l] = listener]
  /\ UNCHANGED timeline

Approach(l) ==
  /\ listeners[l].phase = "away"
  /\ Moves(l, [Away EXCEPT !.phase = "joining", !.position = timeline])

Join(l) ==
  /\ listeners[l].phase = "joining"
  /\ Moves(l, [listeners[l] EXCEPT !.phase = "listening"])

Listen(l) ==
  /\ listeners[l].phase = "listening"
  /\ \E position \in listeners[l].position .. timeline :
       \E heard \in 0 .. position - listeners[l].position :
         Moves(l, [listeners[l] EXCEPT
                     !.position = position,
                     !.audio = @ + heard,
                     !.dropped = @ + (position - listeners[l].position) - heard])

Leave(l) ==
  /\ listeners[l].phase = "listening"
  /\ Moves(l, Away)

TimelineNext ==
  Extend \/ \E l \in Listener : Approach(l) \/ Join(l) \/ Listen(l) \/ Leave(l)

TimelineSpec == TimelineInit /\ [][TimelineNext]_timelineVars

=============================================================================
