---------------------------- MODULE EndpointClock ----------------------------
(***************************************************************************)
(* EndpointClock: the zero timestamps of one endpoint.  start, stop and    *)
(* configure run under stateMutex_, one at a time; start is cut at every   *)
(* access to an atomic, and so is timestamp, which takes no lock.          *)
(*                                                                         *)
(* The host's time is counted in ticks, HostTicksPerSecond of them for     *)
(* SampleRate frames.  Ticks and frames are converted exactly, with the    *)
(* truncation and the rounding of the code; what a double adds to that is  *)
(* left out.                                                               *)
(*                                                                         *)
(* The host asks for timestamps of devices it runs, and has its answers    *)
(* before it stops the last client (coreaudiod's IO thread does both).     *)
(***************************************************************************)
EXTENDS Integers

CONSTANTS
  Asker,               \* threads that call GetZeroTimeStamp
  SampleRate,          \* the rates an endpoint may be configured for
  HostTicksPerSecond,  \* the frequency of mach_absolute_time
  ZeroTimestampPeriod, \* zeroTimestampPeriod, in frames
  MaxTime,             \* bound on the host's time
  MaxClients,          \* bound on the starts that are not stopped
  MaxSeed              \* bound on the restarts of the clock

ASSUME SampleRateAssumption == SampleRate \subseteq Nat \ {0} /\ SampleRate # {}
ASSUME TicksAssumption == HostTicksPerSecond \in Nat \ {0}
ASSUME PeriodAssumption == ZeroTimestampPeriod \in Nat \ {0}
ASSUME ClockBoundsAssumption ==
  MaxTime \in Nat /\ MaxClients \in Nat /\ MaxSeed \in Nat

StartState == [pc : {"idle", "anchoring", "storing", "seeding"}, hostTime : Nat]

AskerState ==
  [pc : {"idle", "asking", "reading", "converting", "seeding"},
   anchor : Nat, now : Nat, sampleTime : Nat, hostTime : Nat]

ZeroTimestamp == [sampleTime : Nat, hostTime : Nat, seed : Nat]

VARIABLES
  hostTime,               \* mach_absolute_time
  sampleRate,             \* the rate that ticksPerFrameBits_ stands for
  runningReferenceCount,
  anchorHostTime,
  seed,
  starting,               \* the start that stateMutex_ admits, if any
  asker,                  \* per thread, its timestamp under way
  answer,                 \* per thread, the last timestamp it was given
  startedAt               \* history: when the endpoint last began to run

clockVars == <<hostTime, sampleRate, runningReferenceCount, anchorHostTime, seed,
               starting, asker, answer, startedAt>>

NotStarting == [pc |-> "idle", hostTime |-> 0]

NotAsking == [pc |-> "idle", anchor |-> 0, now |-> 0, sampleTime |-> 0,
              hostTime |-> 0]

\* The seeds of a clock begin at one: seed 0 stands for no answer yet.
NoAnswer == [sampleTime |-> 0, hostTime |-> 0, seed |-> 0]

ClockInit ==
  /\ hostTime = 0
  /\ sampleRate \in SampleRate
  /\ runningReferenceCount = 0
  /\ anchorHostTime = 0
  /\ seed = 1
  /\ starting = NotStarting
  /\ asker = [t \in Asker |-> NotAsking]
  /\ answer = [t \in Asker |-> NoAnswer]
  /\ startedAt = 0

Tick ==
  /\ hostTime < MaxTime
  /\ hostTime' = hostTime + 1
  /\ UNCHANGED <<sampleRate, runningReferenceCount, anchorHostTime, seed,
                 starting, asker, answer, startedAt>>

-----------------------------------------------------------------------------
(***************************************************************************)
(* Under stateMutex_.  A catalog is set only while no device runs.         *)
(***************************************************************************)
MutexIsFree == starting.pc = "idle"

configure(rate) ==
  /\ MutexIsFree
  /\ runningReferenceCount = 0
  /\ sampleRate' = rate
  /\ UNCHANGED <<hostTime, runningReferenceCount, anchorHostTime, seed, starting,
                 asker, answer, startedAt>>

\* Mutant: take a new anchor and seed for every client.
CountUpAndRestart ==
  /\ MutexIsFree
  /\ runningReferenceCount < MaxClients
  /\ seed < MaxSeed
  /\ runningReferenceCount' = runningReferenceCount + 1
  /\ startedAt' = hostTime
  /\ starting' = [starting EXCEPT !.pc = "anchoring"]
  /\ UNCHANGED <<hostTime, sampleRate, anchorHostTime, seed, asker, answer>>

\* The first client restarts the clock; for others start ends here.
CountUp ==
  /\ MutexIsFree
  /\ runningReferenceCount < MaxClients
  /\ runningReferenceCount = 0 => seed < MaxSeed
  /\ runningReferenceCount' = runningReferenceCount + 1
  /\ IF runningReferenceCount = 0
       THEN startedAt' = hostTime
            /\ starting' = [starting EXCEPT !.pc = "anchoring"]
       ELSE UNCHANGED <<startedAt, starting>>
  /\ UNCHANGED <<hostTime, sampleRate, anchorHostTime, seed, asker, answer>>

ReadAnchorTime ==
  /\ starting.pc = "anchoring"
  /\ starting' = [pc |-> "storing", hostTime |-> hostTime]
  /\ UNCHANGED <<hostTime, sampleRate, runningReferenceCount, anchorHostTime,
                 seed, asker, answer, startedAt>>

\* Mutant: keep the anchor of the first run.
StoreAnchorOnce ==
  /\ starting.pc = "storing"
  /\ anchorHostTime' = IF anchorHostTime = 0 THEN starting.hostTime
                                             ELSE anchorHostTime
  /\ starting' = [starting EXCEPT !.pc = "seeding"]
  /\ UNCHANGED <<hostTime, sampleRate, runningReferenceCount, seed, asker,
                 answer, startedAt>>

StoreAnchor ==
  /\ starting.pc = "storing"
  /\ anchorHostTime' = starting.hostTime
  /\ starting' = [starting EXCEPT !.pc = "seeding"]
  /\ UNCHANGED <<hostTime, sampleRate, runningReferenceCount, seed, asker,
                 answer, startedAt>>

AdvanceSeed ==
  /\ starting.pc = "seeding"
  /\ seed' = seed + 1
  /\ starting' = NotStarting
  /\ UNCHANGED <<hostTime, sampleRate, runningReferenceCount, anchorHostTime,
                 asker, answer, startedAt>>

\* Mutant: count down whatever the count.
StopBelowZero ==
  /\ MutexIsFree
  /\ runningReferenceCount = 1 => \A t \in Asker : asker[t].pc = "idle"
  /\ runningReferenceCount' = runningReferenceCount - 1
  /\ UNCHANGED <<hostTime, sampleRate, anchorHostTime, seed, starting, asker,
                 answer, startedAt>>

\* The runtime counted the client, so the clock does not stand at zero.
stop ==
  /\ MutexIsFree
  /\ runningReferenceCount > 0
  /\ runningReferenceCount = 1 => \A t \in Asker : asker[t].pc = "idle"
  /\ runningReferenceCount' = runningReferenceCount - 1
  /\ UNCHANGED <<hostTime, sampleRate, anchorHostTime, seed, starting, asker,
                 answer, startedAt>>

-----------------------------------------------------------------------------
(***************************************************************************)
(* timestamp                                                               *)
(***************************************************************************)
\* Where a frame lies after the anchor, to the nearest tick.
TicksAt(frame, rate) ==
  (2 * frame * HostTicksPerSecond + rate) \div (2 * rate)

\* Mutant: answer with the zero timestamp to come.
NextWholeFrames(elapsedTicks, rate) ==
  ((elapsedTicks * rate) \div (HostTicksPerSecond * ZeroTimestampPeriod) + 1)
    * ZeroTimestampPeriod

\* The frames in the whole periods that have gone by.
WholeFrames(elapsedTicks, rate) ==
  (((elapsedTicks * rate) \div HostTicksPerSecond) \div ZeroTimestampPeriod)
    * ZeroTimestampPeriod

\* The host asks where a StartIO has returned and none was stopped since.
Ask(t) ==
  /\ asker[t].pc = "idle"
  /\ MutexIsFree
  /\ runningReferenceCount > 0
  /\ asker' = [asker EXCEPT ![t].pc = "asking"]
  /\ UNCHANGED <<hostTime, sampleRate, runningReferenceCount, anchorHostTime,
                 seed, starting, answer, startedAt>>

LoadAnchor(t) ==
  /\ asker[t].pc = "asking"
  /\ asker' = [asker EXCEPT ![t] =
                 [asker[t] EXCEPT !.pc = "reading", !.anchor = anchorHostTime]]
  /\ UNCHANGED <<hostTime, sampleRate, runningReferenceCount, anchorHostTime,
                 seed, starting, answer, startedAt>>

ReadNow(t) ==
  /\ asker[t].pc = "reading"
  /\ asker' = [asker EXCEPT ![t] =
                 [asker[t] EXCEPT !.pc = "converting", !.now = hostTime]]
  /\ UNCHANGED <<hostTime, sampleRate, runningReferenceCount, anchorHostTime,
                 seed, starting, answer, startedAt>>

\* Loads the rate and converts with it.
Convert(t) ==
  LET elapsed == IF asker[t].now >= asker[t].anchor
                   THEN asker[t].now - asker[t].anchor ELSE 0
      frames  == WholeFrames(elapsed, sampleRate)
  IN /\ asker[t].pc = "converting"
     /\ asker' = [asker EXCEPT ![t] =
                    [asker[t] EXCEPT
                       !.pc = "seeding",
                       !.sampleTime = frames,
                       !.hostTime = asker[t].anchor + TicksAt(frames, sampleRate)]]
     /\ UNCHANGED <<hostTime, sampleRate, runningReferenceCount, anchorHostTime,
                    seed, starting, answer, startedAt>>

Answer(t) ==
  /\ asker[t].pc = "seeding"
  /\ answer' = [answer EXCEPT ![t] = [sampleTime |-> asker[t].sampleTime,
                                      hostTime |-> asker[t].hostTime,
                                      seed |-> seed]]
  /\ asker' = [asker EXCEPT ![t] = NotAsking]
  /\ UNCHANGED <<hostTime, sampleRate, runningReferenceCount, anchorHostTime,
                 seed, starting, startedAt>>

ClockNext ==
  \/ Tick
  \/ \E rate \in SampleRate : configure(rate)
  \/ CountUp
  \/ ReadAnchorTime
  \/ StoreAnchor
  \/ AdvanceSeed
  \/ stop
  \/ \E t \in Asker :
       \/ Ask(t)
       \/ LoadAnchor(t)
       \/ ReadNow(t)
       \/ Convert(t)
       \/ Answer(t)

ClockSpec == ClockInit /\ [][ClockNext]_clockVars

-----------------------------------------------------------------------------
(***************************************************************************)
(* Type correctness.                                                       *)
(***************************************************************************)
ClockTypeOK ==
  /\ hostTime \in Nat
  /\ sampleRate \in SampleRate
  /\ runningReferenceCount \in Nat
  /\ anchorHostTime \in Nat
  /\ seed \in Nat \ {0}
  /\ starting \in StartState
  /\ asker \in [Asker -> AskerState]
  /\ answer \in [Asker -> ZeroTimestamp]
  /\ startedAt \in Nat

(***************************************************************************)
(* The seed tells timelines apart: two timestamps with the same seed lie   *)
(* on one line, whoever asked and whatever started, stopped or was         *)
(* configured in between.                                                  *)
(***************************************************************************)
OneTimelinePerSeed ==
  \A t, u \in Asker :
    answer[t].seed = answer[u].seed /\ answer[t].seed > 0 =>
      \E anchor \in 0 .. hostTime, rate \in SampleRate :
        \A x \in {t, u} :
          answer[x].hostTime = anchor + TicksAt(answer[x].sampleTime, rate)

(***************************************************************************)
(* A zero timestamp has passed when it is given, and no later one had when *)
(* the time was read: truncating the frames and rounding the ticks never   *)
(* put it into the future.                                                 *)
(***************************************************************************)
ZeroTimestampIsRecent ==
  [][\A t \in Asker :
       asker[t].pc = "seeding" /\ asker'[t].pc = "idle" =>
         LET given == answer'[t]
         IN /\ given.hostTime <= asker[t].now
            /\ asker[t].now <=
                 given.hostTime + TicksAt(ZeroTimestampPeriod, sampleRate)
    ]_clockVars

(***************************************************************************)
(* The timeline a client is given begins in the start that set the         *)
(* endpoint running, not before: silence between two runs is not counted.  *)
(***************************************************************************)
TimelineStartsWithIO ==
  [][\A t \in Asker :
       asker[t].pc = "seeding" /\ asker'[t].pc = "idle" =>
         LET given == answer'[t]
         IN given.hostTime - TicksAt(given.sampleTime, sampleRate) >= startedAt
    ]_clockVars

=============================================================================
