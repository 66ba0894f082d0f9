-------------------------- MODULE EndpointClockProofs --------------------------
(***************************************************************************)
(* What holds of EndpointClock for every set of rates, every frequency of  *)
(* the host's time, every period and any number of threads that ask.       *)
(***************************************************************************)
EXTENDS EndpointClock, TLAPS

(***************************************************************************)
(* Arithmetic of the natural numbers.                                      *)
(***************************************************************************)
LEMMA Division ==
  ASSUME NEW a \in Nat, NEW b \in Nat \ {0}
  PROVE  /\ a \div b \in Nat
         /\ b * (a \div b) <= a
         /\ a < b * (a \div b) + b
  OBVIOUS

LEMMA ProductOfNaturals ==
  ASSUME NEW a \in Nat, NEW b \in Nat
  PROVE  a * b \in Nat
  OBVIOUS

LEMMA ProductIsMonotone ==
  ASSUME NEW a \in Nat, NEW b \in Nat, NEW c \in Nat, a <= b
  PROVE  a * c <= b * c
  OBVIOUS

LEMMA ProductCancels ==
  ASSUME NEW a \in Nat, NEW b \in Nat, NEW c \in Nat \ {0}, c * a < c * b
  PROVE  a < b
  OBVIOUS

-----------------------------------------------------------------------------
(***************************************************************************)
(* The conversions.  TicksAt rounds to the nearest tick; WholeFrames cuts  *)
(* off what does not fill a period.                                        *)
(***************************************************************************)
LEMMA TicksAtIsNearest ==
  ASSUME NEW frame \in Nat, NEW rate \in Nat \ {0}
  PROVE  /\ TicksAt(frame, rate) \in Nat
         /\ 2 * (rate * TicksAt(frame, rate))
              <= 2 * (frame * HostTicksPerSecond) + rate
         /\ 2 * (frame * HostTicksPerSecond) + rate
              < 2 * (rate * TicksAt(frame, rate)) + 2 * rate
  <1>1. HostTicksPerSecond \in Nat
    BY TicksAssumption
  <1>2. PICK product \in Nat : product = frame * HostTicksPerSecond
    BY <1>1, ProductOfNaturals
  <1>3. 2 * frame * HostTicksPerSecond = 2 * product
    BY <1>1, <1>2
  <1>4. PICK dividend \in Nat : dividend = 2 * product + rate
    OBVIOUS
  <1>5. PICK divisor \in Nat \ {0} : divisor = 2 * rate
    OBVIOUS
  <1>6. TicksAt(frame, rate) = dividend \div divisor
    BY <1>3, <1>4, <1>5 DEF TicksAt
  <1>7. PICK ticks \in Nat : ticks = dividend \div divisor
    BY Division
  <1>8. divisor * ticks <= dividend /\ dividend < divisor * ticks + divisor
    BY <1>7, Division
  <1>9. divisor * ticks = 2 * (rate * ticks)
    BY <1>5
  <1> QED BY <1>2, <1>4, <1>5, <1>6, <1>7, <1>8, <1>9

LEMMA WholeFramesArePast ==
  ASSUME NEW elapsed \in Nat, NEW rate \in Nat \ {0}
  PROVE  LET frames == WholeFrames(elapsed, rate)
         IN  /\ frames \in Nat
             /\ frames * HostTicksPerSecond <= elapsed * rate
             /\ elapsed * rate < (frames + ZeroTimestampPeriod) * HostTicksPerSecond
  <1>1. PICK H \in Nat \ {0} : H = HostTicksPerSecond
    BY TicksAssumption
  <1>2. PICK P \in Nat \ {0} : P = ZeroTimestampPeriod
    BY PeriodAssumption
  <1>3. PICK product \in Nat : product = elapsed * rate
    BY ProductOfNaturals
  <1>4. PICK q \in Nat : q = product \div H
    BY Division
  <1>5. PICK k \in Nat : k = q \div P
    BY Division
  <1>6. PICK frames \in Nat : frames = k * P
    BY ProductOfNaturals
  <1>7. WholeFrames(elapsed, rate) = frames
    BY <1>1, <1>2, <1>3, <1>4, <1>5, <1>6 DEF WholeFrames
  <1>8. frames <= q /\ q + 1 <= frames + P
    <2>1. P * k <= q /\ q < P * k + P
      BY <1>5, Division
    <2>2. P * k = k * P
      OBVIOUS
    <2> QED BY <1>6, <2>1, <2>2
  <1>9. q * H <= product /\ product < (q + 1) * H
    <2>1. H * q <= product /\ product < H * q + H
      BY <1>4, Division
    <2>2. H * q = q * H /\ (q + 1) * H = q * H + H
      OBVIOUS
    <2> QED BY <2>1, <2>2
  <1>10. frames * H <= q * H
    BY <1>8, ProductIsMonotone
  <1>11. (q + 1) * H <= (frames + P) * H
    <2>1. PICK a \in Nat : a = q + 1
      OBVIOUS
    <2>2. PICK b \in Nat : b = frames + P
      OBVIOUS
    <2> QED BY <1>8, <2>1, <2>2, ProductIsMonotone
  <1>12. PICK low \in Nat : low = frames * H
    BY ProductOfNaturals
  <1>13. PICK middle \in Nat : middle = q * H
    BY ProductOfNaturals
  <1>14. frames * H <= product
    BY <1>9, <1>10, <1>12, <1>13
  <1>15. product < (frames + P) * H
    <2>1. PICK a \in Nat : a = (q + 1) * H
      OBVIOUS
    <2>2. PICK b \in Nat : b = (frames + P) * H
      OBVIOUS
    <2> QED BY <1>9, <1>11, <2>1, <2>2
  <1> QED BY <1>1, <1>2, <1>3, <1>7, <1>14, <1>15

(***************************************************************************)
(* Truncating the frames and rounding the ticks never put a timestamp past *)
(* the time it was read for, nor a period or more before it.               *)
(***************************************************************************)
LEMMA TimestampIsBetween ==
  ASSUME NEW elapsed \in Nat, NEW rate \in Nat \ {0}
  PROVE  LET ticks == TicksAt(WholeFrames(elapsed, rate), rate)
         IN  /\ ticks <= elapsed
             /\ elapsed <= ticks + TicksAt(ZeroTimestampPeriod, rate)
  <1>1. PICK H \in Nat \ {0} : H = HostTicksPerSecond
    BY TicksAssumption
  <1>2. PICK P \in Nat \ {0} : P = ZeroTimestampPeriod
    BY PeriodAssumption
  <1>3. PICK frames \in Nat : frames = WholeFrames(elapsed, rate)
    BY WholeFramesArePast
  <1>4. PICK product \in Nat : product = elapsed * rate
    BY ProductOfNaturals
  <1>5. PICK start \in Nat : start = frames * H
    BY ProductOfNaturals
  <1>6. PICK period \in Nat : period = P * H
    BY ProductOfNaturals
  <1>7. start <= product /\ product < start + period
    <2>1. frames * H <= elapsed * rate /\ elapsed * rate < (frames + P) * H
      BY <1>1, <1>2, <1>3, WholeFramesArePast
    <2>2. (frames + P) * H = start + period
      BY <1>5, <1>6
    <2> QED BY <1>4, <1>5, <2>1, <2>2
  <1>8. PICK a \in Nat : a = TicksAt(frames, rate)
    BY TicksAtIsNearest
  <1>9. PICK b \in Nat : b = TicksAt(P, rate)
    BY TicksAtIsNearest
  <1>10. PICK ra \in Nat : ra = rate * a
    BY ProductOfNaturals
  <1>11. PICK rb \in Nat : rb = rate * b
    BY ProductOfNaturals
  <1>12. 2 * ra <= 2 * start + rate /\ 2 * start + rate < 2 * ra + 2 * rate
    BY <1>1, <1>5, <1>8, <1>10, TicksAtIsNearest
  <1>13. 2 * period + rate < 2 * rb + 2 * rate
    BY <1>1, <1>6, <1>9, <1>11, TicksAtIsNearest
  <1>14. a < elapsed + 1
    <2>1. PICK n \in Nat : n = elapsed + 1
      OBVIOUS
    <2>2. rate * n = product + rate
      BY <1>4, <2>1
    <2>3. rate * a < rate * n
      BY <1>7, <1>10, <1>12, <2>2
    <2> QED BY <2>1, <2>3, ProductCancels
  <1>15. elapsed < a + b + 1
    <2>1. PICK n \in Nat : n = a + b + 1
      OBVIOUS
    <2>2. rate * n = ra + rb + rate
      BY <1>10, <1>11, <2>1
    <2>3. rate * elapsed = product
      BY <1>4
    <2>4. rate * elapsed < rate * n
      BY <1>7, <1>12, <1>13, <2>2, <2>3
    <2> QED BY <2>1, <2>4, ProductCancels
  <1> QED BY <1>2, <1>3, <1>8, <1>9, <1>14, <1>15

-----------------------------------------------------------------------------
(***************************************************************************)
(* Type correctness.                                                       *)
(***************************************************************************)
LEMMA RateType ==
  ASSUME ClockTypeOK PROVE sampleRate \in Nat \ {0}
  BY SampleRateAssumption DEF ClockTypeOK

\* What an asker does changes its own record and, at the end, its answer.
LEMMA AskingKeepsType ==
  ASSUME ClockTypeOK, NEW t \in Asker,
         \/ Ask(t)
         \/ LoadAnchor(t)
         \/ ReadNow(t)
         \/ Convert(t)
         \/ Answer(t)
  PROVE  ClockTypeOK'
  <1> USE DEF ClockTypeOK
  <1>1. asker[t] \in AskerState
    OBVIOUS
  <1>2. UNCHANGED <<hostTime, sampleRate, runningReferenceCount, anchorHostTime,
                    seed, starting, startedAt>>
    BY DEF Ask, LoadAnchor, ReadNow, Convert, Answer
  <1>3. CASE Ask(t)
    BY <1>1, <1>2, <1>3 DEF Ask, AskerState
  <1>4. CASE LoadAnchor(t)
    <2>1. [asker[t] EXCEPT !.pc = "reading", !.anchor = anchorHostTime]
            \in AskerState
      BY <1>1 DEF AskerState
    <2> QED BY <1>2, <1>4, <2>1 DEF LoadAnchor
  <1>5. CASE ReadNow(t)
    <2>1. [asker[t] EXCEPT !.pc = "converting", !.now = hostTime] \in AskerState
      BY <1>1 DEF AskerState
    <2> QED BY <1>2, <1>5, <2>1 DEF ReadNow
  <1>6. CASE Convert(t)
    <2> DEFINE elapsed == IF asker[t].now >= asker[t].anchor
                            THEN asker[t].now - asker[t].anchor ELSE 0
               frames == WholeFrames(elapsed, sampleRate)
               ticks == asker[t].anchor + TicksAt(frames, sampleRate)
    <2>1. asker[t].now \in Nat /\ asker[t].anchor \in Nat
      BY <1>1 DEF AskerState
    <2>2. elapsed \in Nat
      BY <2>1
    <2>3. /\ asker' = [asker EXCEPT ![t] =
                         [asker[t] EXCEPT !.pc = "seeding", !.sampleTime = frames,
                                          !.hostTime = ticks]]
          /\ UNCHANGED answer
      BY <1>6 DEF Convert
    <2> HIDE DEF elapsed
    <2>4. frames \in Nat
      BY <2>2, RateType, WholeFramesArePast
    <2> HIDE DEF frames
    <2>5. ticks \in Nat
      <3>1. TicksAt(frames, sampleRate) \in Nat
        BY <2>4, RateType, TicksAtIsNearest
      <3> QED BY <2>1, <3>1
    <2> HIDE DEF ticks
    <2>6. [asker[t] EXCEPT !.pc = "seeding", !.sampleTime = frames,
                           !.hostTime = ticks] \in AskerState
      BY <1>1, <2>4, <2>5 DEF AskerState
    <2> QED BY <1>2, <2>3, <2>6
  <1>7. CASE Answer(t)
    <2>1. [sampleTime |-> asker[t].sampleTime, hostTime |-> asker[t].hostTime,
           seed |-> seed] \in ZeroTimestamp
      BY <1>1 DEF AskerState, ZeroTimestamp
    <2>2. NotAsking \in AskerState
      BY DEF NotAsking, AskerState
    <2> QED BY <1>2, <1>7, <2>1, <2>2 DEF Answer
  <1> QED BY <1>3, <1>4, <1>5, <1>6, <1>7

LEMMA ClockTypeIsInductive == ClockTypeOK /\ [ClockNext]_clockVars => ClockTypeOK'
  <1> SUFFICES ASSUME ClockTypeOK, [ClockNext]_clockVars PROVE ClockTypeOK'
    OBVIOUS
  <1>1. CASE Tick
    BY <1>1 DEF ClockTypeOK, Tick
  <1>2. ASSUME NEW rate \in SampleRate, configure(rate) PROVE ClockTypeOK'
    BY <1>2 DEF ClockTypeOK, configure
  <1>3. CASE CountUp
    <2>1. [starting EXCEPT !.pc = "anchoring"] \in StartState
      BY DEF ClockTypeOK, StartState
    <2> QED BY <1>3, <2>1 DEF ClockTypeOK, CountUp
  <1>4. CASE ReadAnchorTime
    BY <1>4 DEF ClockTypeOK, ReadAnchorTime, StartState
  <1>5. CASE StoreAnchor
    <2>1. /\ starting.hostTime \in Nat
          /\ [starting EXCEPT !.pc = "seeding"] \in StartState
      BY DEF ClockTypeOK, StartState
    <2> QED BY <1>5, <2>1 DEF ClockTypeOK, StoreAnchor
  <1>6. CASE AdvanceSeed
    BY <1>6 DEF ClockTypeOK, AdvanceSeed, NotStarting, StartState
  <1>7. CASE stop
    BY <1>7 DEF ClockTypeOK, stop
  <1>8. CASE UNCHANGED clockVars
    BY <1>8 DEF ClockTypeOK, clockVars
  <1> QED
    BY <1>1, <1>2, <1>3, <1>4, <1>5, <1>6, <1>7, <1>8, AskingKeepsType
    DEF ClockNext

LEMMA ClockTypeInitially == ClockInit => ClockTypeOK
  <1>1. NotAsking \in AskerState /\ NoAnswer \in ZeroTimestamp
        /\ NotStarting \in StartState
    BY DEF NotAsking, AskerState, NoAnswer, ZeroTimestamp, NotStarting, StartState
  <1> QED BY <1>1 DEF ClockInit, ClockTypeOK

(***************************************************************************)
(* Every variable of the clock has its type, whatever is started, stopped, *)
(* configured and asked.                                                   *)
(***************************************************************************)
THEOREM ClockTypeCorrect == ClockSpec => []ClockTypeOK
  BY ClockTypeInitially, ClockTypeIsInductive, PTL DEF ClockSpec

-----------------------------------------------------------------------------
(***************************************************************************)
(* A start that is under way keeps the endpoint running and moves towards  *)
(* an anchor that lies in the run it begins; no one asks before it ends.   *)
(***************************************************************************)
StartInv ==
  /\ startedAt <= hostTime
  /\ anchorHostTime <= hostTime
  /\ starting.pc # "idle" => runningReferenceCount > 0
  /\ starting.pc = "storing" =>
       startedAt <= starting.hostTime /\ starting.hostTime <= hostTime
  /\ starting.pc = "seeding" => startedAt <= anchorHostTime
  /\ runningReferenceCount > 0 /\ MutexIsFree => startedAt <= anchorHostTime

OnTimeline(given, anchor, rate) ==
  given.hostTime = anchor + TicksAt(given.sampleTime, rate)

\* What a thread has read by the time it gets there, of a clock that stands
\* still in between: only a stop of the last client would let it move.
AskerInv(t) ==
  /\ asker[t].pc # "idle" => runningReferenceCount > 0 /\ MutexIsFree
  /\ asker[t].pc \in {"reading", "converting", "seeding"} =>
       asker[t].anchor = anchorHostTime
  /\ asker[t].pc \in {"converting", "seeding"} =>
       anchorHostTime <= asker[t].now /\ asker[t].now <= hostTime
  /\ asker[t].pc = "seeding" =>
       /\ OnTimeline(asker[t], anchorHostTime, sampleRate)
       /\ asker[t].hostTime <= asker[t].now
       /\ asker[t].now <= asker[t].hostTime
                            + TicksAt(ZeroTimestampPeriod, sampleRate)

\* Answers with the current seed lie on the current line.
AnswerInv ==
  /\ \A t \in Asker : answer[t].seed <= seed
  /\ runningReferenceCount > 0 /\ MutexIsFree =>
       \A t \in Asker : answer[t].seed = seed =>
         OnTimeline(answer[t], anchorHostTime, sampleRate)
  /\ OneTimelinePerSeed

TimelineInv ==
  /\ ClockTypeOK
  /\ StartInv
  /\ \A t \in Asker : AskerInv(t)
  /\ AnswerInv

LEMMA StartInvIsInductive ==
  ASSUME TimelineInv, [ClockNext]_clockVars
  PROVE  StartInv'
  <1> USE DEF TimelineInv, ClockTypeOK, StartInv, MutexIsFree
  <1>1. starting.hostTime \in Nat
    BY DEF StartState
  <1>2. CASE Tick
    BY <1>1, <1>2 DEF Tick
  <1>3. ASSUME NEW rate \in SampleRate, configure(rate) PROVE StartInv'
    BY <1>3 DEF configure
  <1>4. CASE CountUp
    <2>1. /\ starting.pc = "idle"
          /\ runningReferenceCount' = runningReferenceCount + 1
          /\ UNCHANGED <<hostTime, anchorHostTime>>
      BY <1>4 DEF CountUp
    <2>2. CASE runningReferenceCount = 0
      <3>1. startedAt' = hostTime /\ starting'.pc = "anchoring"
        BY <1>4, <2>2 DEF CountUp, StartState
      <3> QED BY <2>1, <2>2, <3>1
    <2>3. CASE runningReferenceCount # 0
      <3>1. UNCHANGED <<startedAt, starting>>
        BY <1>4, <2>3 DEF CountUp
      <3> QED BY <2>1, <2>3, <3>1
    <2> QED BY <2>2, <2>3
  <1>5. CASE ReadAnchorTime
    BY <1>5 DEF ReadAnchorTime
  <1>6. CASE StoreAnchor
    <2>1. [starting EXCEPT !.pc = "seeding"].pc = "seeding"
      BY DEF StartState
    <2> QED BY <1>6, <2>1 DEF StoreAnchor
  <1>7. CASE AdvanceSeed
    BY <1>7 DEF AdvanceSeed, NotStarting
  <1>8. CASE stop
    BY <1>8 DEF stop
  <1>9. ASSUME NEW t \in Asker,
               \/ Ask(t)
               \/ LoadAnchor(t)
               \/ ReadNow(t)
               \/ Convert(t)
               \/ Answer(t)
        PROVE  StartInv'
    BY <1>9 DEF Ask, LoadAnchor, ReadNow, Convert, Answer
  <1>10. CASE UNCHANGED clockVars
    BY <1>10 DEF clockVars
  <1> QED
    BY <1>2, <1>3, <1>4, <1>5, <1>6, <1>7, <1>8, <1>9, <1>10 DEF ClockNext

\* A thread that asks keeps the clock from being restarted or configured.
LEMMA AskerInvIsInductive ==
  ASSUME TimelineInv, [ClockNext]_clockVars, NEW t \in Asker
  PROVE  AskerInv(t)'
  <1> USE DEF MutexIsFree
  <1>1. /\ asker[t] \in AskerState /\ asker \in [Asker -> AskerState]
        /\ AskerInv(t)
        /\ hostTime \in Nat /\ runningReferenceCount \in Nat
        /\ anchorHostTime \in Nat /\ anchorHostTime <= hostTime
    BY DEF TimelineInv, ClockTypeOK, StartInv
  <1>2. asker[t].now \in Nat
    BY <1>1 DEF AskerState
  <1>3. ASSUME UNCHANGED <<sampleRate, anchorHostTime, asker>>, hostTime' \in Nat,
               hostTime <= hostTime',
               runningReferenceCount > 0 /\ starting.pc = "idle" =>
                 (\A u \in Asker : asker[u].pc = "idle")
                   \/ (runningReferenceCount' > 0 /\ starting'.pc = "idle")
        PROVE  AskerInv(t)'
    BY <1>1, <1>2, <1>3 DEF AskerInv, OnTimeline
  <1>4. CASE asker[t].pc = "idle" /\ UNCHANGED asker
    BY <1>4 DEF AskerInv
  <1>5. CASE Tick
    BY <1>1, <1>3, <1>5 DEF Tick
  <1>6. ASSUME NEW rate \in SampleRate, configure(rate) PROVE AskerInv(t)'
    BY <1>1, <1>4, <1>6 DEF configure, AskerInv
  <1>7. CASE CountUp
    BY <1>1, <1>3, <1>4, <1>7 DEF CountUp, AskerInv
  <1>8. CASE ReadAnchorTime
    BY <1>1, <1>4, <1>8 DEF ReadAnchorTime, AskerInv
  <1>9. CASE StoreAnchor
    BY <1>1, <1>4, <1>9 DEF StoreAnchor, AskerInv
  <1>10. CASE AdvanceSeed
    BY <1>1, <1>4, <1>10 DEF AdvanceSeed, AskerInv
  <1>11. CASE stop
    BY <1>1, <1>3, <1>11 DEF stop
  <1>12. ASSUME NEW u \in Asker,
                \/ Ask(u)
                \/ LoadAnchor(u)
                \/ ReadNow(u)
                \/ Convert(u)
                \/ Answer(u)
         PROVE  AskerInv(t)'
    <2>1. UNCHANGED <<hostTime, sampleRate, runningReferenceCount,
                      anchorHostTime, starting>>
      BY <1>12 DEF Ask, LoadAnchor, ReadNow, Convert, Answer
    <2>2. CASE u # t
      <3>1. asker'[t] = asker[t]
        BY <1>1, <1>12, <2>2 DEF Ask, LoadAnchor, ReadNow, Convert, Answer
      <3> QED BY <1>1, <2>1, <3>1 DEF AskerInv, OnTimeline
    <2>3. CASE u = t /\ Ask(t)
      <3>1. asker'[t].pc = "asking"
        BY <1>1, <2>3 DEF Ask, AskerState
      <3> QED BY <2>1, <2>3, <3>1 DEF Ask, AskerInv
    <2>4. CASE u = t /\ LoadAnchor(t)
      <3>1. asker'[t].pc = "reading" /\ asker'[t].anchor = anchorHostTime
        BY <1>1, <2>4 DEF LoadAnchor, AskerState
      <3> QED BY <1>1, <2>1, <2>4, <3>1 DEF LoadAnchor, AskerInv
    <2>5. CASE u = t /\ ReadNow(t)
      <3>1. asker'[t].pc = "converting" /\ asker'[t].now = hostTime
            /\ asker'[t].anchor = asker[t].anchor
        BY <1>1, <2>5 DEF ReadNow, AskerState
      <3> QED BY <1>1, <2>1, <2>5, <3>1 DEF ReadNow, AskerInv
    <2>6. CASE u = t /\ Convert(t)
      <3> DEFINE elapsed == IF asker[t].now >= asker[t].anchor
                              THEN asker[t].now - asker[t].anchor ELSE 0
      <3>1. /\ asker[t].pc = "converting"
            /\ asker[t].anchor = anchorHostTime
            /\ anchorHostTime <= asker[t].now /\ asker[t].now <= hostTime
            /\ runningReferenceCount > 0 /\ starting.pc = "idle"
        BY <1>1, <2>6 DEF Convert, AskerInv
      <3>2. PICK e \in Nat : e = asker[t].now - anchorHostTime
        BY <1>1, <1>2, <3>1
      <3>3. elapsed = e
        BY <1>1, <1>2, <3>1, <3>2
      <3>4. PICK rate \in Nat \ {0} : rate = sampleRate
        BY RateType DEF TimelineInv
      <3>5. PICK frames \in Nat : frames = WholeFrames(e, rate)
        BY WholeFramesArePast
      <3>6. PICK ticks \in Nat : ticks = TicksAt(frames, rate)
        BY TicksAtIsNearest
      <3>7. PICK period \in Nat : period = TicksAt(ZeroTimestampPeriod, rate)
        BY TicksAtIsNearest, PeriodAssumption
      <3>8. ticks <= e /\ e <= ticks + period
        BY <3>5, <3>6, <3>7, TimestampIsBetween
      <3>9. asker' = [asker EXCEPT ![t] =
                        [asker[t] EXCEPT !.pc = "seeding", !.sampleTime = frames,
                                         !.hostTime = anchorHostTime + ticks]]
        BY <2>6, <3>1, <3>3, <3>4, <3>5, <3>6 DEF Convert
      <3>10. /\ asker'[t].pc = "seeding" /\ asker'[t].now = asker[t].now
             /\ asker'[t].anchor = asker[t].anchor
             /\ asker'[t].sampleTime = frames
             /\ asker'[t].hostTime = anchorHostTime + ticks
        BY <1>1, <3>9 DEF AskerState
      <3>11. /\ asker'[t].hostTime <= asker[t].now
             /\ asker[t].now <= asker'[t].hostTime + period
        BY <1>1, <1>2, <3>2, <3>8, <3>10
      <3> QED
        BY <2>1, <3>1, <3>4, <3>6, <3>7, <3>10, <3>11 DEF AskerInv, OnTimeline
    <2>7. CASE u = t /\ Answer(t)
      <3>1. asker'[t].pc = "idle"
        BY <1>1, <2>7 DEF Answer, NotAsking
      <3> QED BY <3>1 DEF AskerInv
    <2> QED BY <1>12, <2>2, <2>3, <2>4, <2>5, <2>6, <2>7
  <1>13. CASE UNCHANGED clockVars
    BY <1>1, <1>3, <1>13 DEF clockVars
  <1> QED
    BY <1>5, <1>6, <1>7, <1>8, <1>9, <1>10, <1>11, <1>12, <1>13 DEF ClockNext

\* Later host times only leave more room for the anchors of past lines.
LEMMA AnswersStayOnLines ==
  ASSUME TimelineInv, UNCHANGED answer, hostTime' \in Nat, hostTime <= hostTime'
  PROVE  OneTimelinePerSeed'
  <1> SUFFICES ASSUME NEW t \in Asker, NEW u \in Asker,
                      answer[t].seed = answer[u].seed, answer[t].seed > 0
               PROVE  \E anchor \in 0 .. hostTime', rate \in SampleRate :
                        \A x \in {t, u} : answer[x].hostTime
                          = anchor + TicksAt(answer[x].sampleTime, rate)
    BY DEF OneTimelinePerSeed
  <1>1. hostTime \in Nat
    BY DEF TimelineInv, ClockTypeOK
  <1>2. 0 .. hostTime \subseteq 0 .. hostTime'
    BY <1>1
  <1> QED BY <1>2 DEF TimelineInv, AnswerInv, OneTimelinePerSeed

LEMMA AnswerKeepsTimelines ==
  ASSUME TimelineInv, NEW t \in Asker, Answer(t)
  PROVE  AnswerInv'
  <1>1. /\ answer \in [Asker -> ZeroTimestamp] /\ hostTime \in Nat
        /\ sampleRate \in SampleRate /\ anchorHostTime \in Nat
        /\ anchorHostTime <= hostTime /\ seed \in Nat
    BY DEF TimelineInv, ClockTypeOK, StartInv
  <1>2. /\ UNCHANGED <<hostTime, sampleRate, runningReferenceCount,
                       anchorHostTime, seed, starting>>
        /\ asker[t].pc = "seeding"
        /\ answer' = [answer EXCEPT ![t] = [sampleTime |-> asker[t].sampleTime,
                                            hostTime |-> asker[t].hostTime,
                                            seed |-> seed]]
    BY DEF Answer
  <1>3. /\ runningReferenceCount > 0 /\ MutexIsFree
        /\ OnTimeline(asker[t], anchorHostTime, sampleRate)
    BY <1>2 DEF TimelineInv, AskerInv
  <1>4. /\ answer'[t].seed = seed
        /\ OnTimeline(answer'[t], anchorHostTime, sampleRate)
        /\ \A u \in Asker : u # t => answer'[u] = answer[u]
    BY <1>1, <1>2, <1>3 DEF OnTimeline
  <1>5. \A u \in Asker :
          /\ answer'[u].seed <= seed
          /\ answer'[u].seed = seed =>
               OnTimeline(answer'[u], anchorHostTime, sampleRate)
    BY <1>1, <1>3, <1>4 DEF TimelineInv, AnswerInv
  <1>6. OneTimelinePerSeed'
    <2> SUFFICES ASSUME NEW u \in Asker, NEW v \in Asker,
                        answer'[u].seed = answer'[v].seed, answer'[u].seed > 0
                 PROVE  \E anchor \in 0 .. hostTime', rate \in SampleRate :
                          \A x \in {u, v} : answer'[x].hostTime
                            = anchor + TicksAt(answer'[x].sampleTime, rate)
      BY DEF OneTimelinePerSeed
    <2>1. CASE u = t \/ v = t
      <3>1. answer'[u].seed = seed /\ answer'[v].seed = seed
        BY <1>4, <2>1
      <3>2. /\ OnTimeline(answer'[u], anchorHostTime, sampleRate)
            /\ OnTimeline(answer'[v], anchorHostTime, sampleRate)
        BY <1>5, <3>1
      <3>3. anchorHostTime \in 0 .. hostTime'
        BY <1>1, <1>2
      <3> QED BY <1>1, <3>2, <3>3 DEF OnTimeline
    <2>2. CASE u # t /\ v # t
      <3>1. answer'[u] = answer[u] /\ answer'[v] = answer[v]
        BY <1>4, <2>2
      <3> QED
        BY <1>2, <3>1 DEF TimelineInv, AnswerInv, OneTimelinePerSeed
    <2> QED BY <2>1, <2>2
  <1> QED BY <1>2, <1>5, <1>6 DEF AnswerInv, MutexIsFree

LEMMA AnswerInvIsInductive ==
  ASSUME TimelineInv, [ClockNext]_clockVars
  PROVE  AnswerInv'
  <1> USE DEF MutexIsFree
  <1>1. /\ hostTime \in Nat /\ seed \in Nat /\ runningReferenceCount \in Nat
        /\ answer \in [Asker -> ZeroTimestamp]
        /\ starting \in StartState
    BY DEF TimelineInv, ClockTypeOK
  <1>2. ASSUME UNCHANGED <<answer, seed, anchorHostTime, sampleRate>>,
               hostTime' \in Nat, hostTime <= hostTime',
               runningReferenceCount' > 0 /\ MutexIsFree' =>
                 runningReferenceCount > 0 /\ MutexIsFree
        PROVE  AnswerInv'
    <2>1. OneTimelinePerSeed'
      BY <1>2, AnswersStayOnLines
    <2> QED BY <1>2, <2>1 DEF TimelineInv, AnswerInv, OnTimeline
  <1>3. ASSUME UNCHANGED <<answer, seed, hostTime>>,
               ~(runningReferenceCount' > 0 /\ MutexIsFree')
        PROVE  AnswerInv'
    <2>1. OneTimelinePerSeed'
      BY <1>1, <1>3, AnswersStayOnLines
    <2> QED BY <1>3, <2>1 DEF TimelineInv, AnswerInv
  <1>4. CASE Tick
    BY <1>1, <1>2, <1>4 DEF Tick
  <1>5. ASSUME NEW rate \in SampleRate, configure(rate) PROVE AnswerInv'
    BY <1>3, <1>5 DEF configure
  <1>6. CASE CountUp
    <2>1. CASE runningReferenceCount = 0
      <3>1. starting'.pc = "anchoring"
        BY <1>1, <1>6, <2>1 DEF CountUp, StartState
      <3> QED BY <1>3, <1>6, <3>1 DEF CountUp
    <2>2. CASE runningReferenceCount # 0
      BY <1>1, <1>2, <1>6, <2>2 DEF CountUp
    <2> QED BY <2>1, <2>2
  <1>7. CASE ReadAnchorTime
    BY <1>3, <1>7 DEF ReadAnchorTime
  <1>8. CASE StoreAnchor
    <2>1. starting'.pc = "seeding"
      BY <1>1, <1>8 DEF StoreAnchor, StartState
    <2> QED BY <1>3, <1>8, <2>1 DEF StoreAnchor
  <1>9. CASE AdvanceSeed
    <2>1. UNCHANGED <<answer, hostTime>> /\ seed' = seed + 1
      BY <1>9 DEF AdvanceSeed
    <2>2. OneTimelinePerSeed'
      BY <1>1, <2>1, AnswersStayOnLines
    <2>3. \A t \in Asker : answer[t].seed \in Nat /\ answer[t].seed <= seed
      BY <1>1 DEF TimelineInv, AnswerInv, ZeroTimestamp
    <2>4. \A t \in Asker : answer'[t].seed <= seed' /\ answer'[t].seed # seed'
      BY <1>1, <2>1, <2>3
    <2> QED BY <2>2, <2>4 DEF AnswerInv
  <1>10. CASE stop
    BY <1>1, <1>2, <1>10 DEF stop
  <1>11. ASSUME NEW t \in Asker, Ask(t) \/ LoadAnchor(t) \/ ReadNow(t) \/ Convert(t)
         PROVE  AnswerInv'
    BY <1>1, <1>2, <1>11 DEF Ask, LoadAnchor, ReadNow, Convert
  <1>12. ASSUME NEW t \in Asker, Answer(t) PROVE AnswerInv'
    BY <1>12, AnswerKeepsTimelines
  <1>13. CASE UNCHANGED clockVars
    BY <1>1, <1>2, <1>13 DEF clockVars
  <1> QED
    BY <1>4, <1>5, <1>6, <1>7, <1>8, <1>9, <1>10, <1>11, <1>12, <1>13
    DEF ClockNext

LEMMA TimelineInvAlways == ClockSpec => []TimelineInv
  <1>1. ClockInit => TimelineInv
    <2> SUFFICES ASSUME ClockInit PROVE TimelineInv
      OBVIOUS
    <2>1. ClockTypeOK
      BY ClockTypeInitially
    <2>2. StartInv
      BY DEF ClockInit, StartInv, NotStarting, MutexIsFree
    <2>3. \A t \in Asker : AskerInv(t)
      BY DEF ClockInit, AskerInv, NotAsking
    <2>4. AnswerInv
      BY DEF ClockInit, AnswerInv, NoAnswer, OneTimelinePerSeed
    <2> QED BY <2>1, <2>2, <2>3, <2>4 DEF TimelineInv
  <1>2. TimelineInv /\ [ClockNext]_clockVars => TimelineInv'
    <2> SUFFICES ASSUME TimelineInv, [ClockNext]_clockVars PROVE TimelineInv'
      OBVIOUS
    <2>1. ClockTypeOK'
      BY ClockTypeIsInductive DEF TimelineInv
    <2>2. StartInv'
      BY StartInvIsInductive
    <2>3. \A t \in Asker : AskerInv(t)'
      BY AskerInvIsInductive
    <2>4. AnswerInv'
      BY AnswerInvIsInductive
    <2> QED BY <2>1, <2>2, <2>3, <2>4 DEF TimelineInv
  <1> QED BY <1>1, <1>2, PTL DEF ClockSpec

(***************************************************************************)
(* The seed tells timelines apart: two timestamps with the same seed lie   *)
(* on one line, whoever asked and whatever started, stopped or was         *)
(* configured in between.                                                  *)
(***************************************************************************)
THEOREM OneTimelinePerSeedHolds == ClockSpec => []OneTimelinePerSeed
  <1>1. TimelineInv => OneTimelinePerSeed
    BY DEF TimelineInv, AnswerInv
  <1> QED BY <1>1, TimelineInvAlways, PTL

\* A step that ends a thread's question is its answer.
LEMMA QuestionEndsWithAnswer ==
  ASSUME TimelineInv, ClockNext, NEW t \in Asker,
         asker[t].pc = "seeding", asker'[t].pc = "idle"
  PROVE  /\ answer'[t].sampleTime = asker[t].sampleTime
         /\ answer'[t].hostTime = asker[t].hostTime
  <1>1. /\ asker \in [Asker -> AskerState] /\ asker[t] \in AskerState
        /\ answer \in [Asker -> ZeroTimestamp]
    BY DEF TimelineInv, ClockTypeOK
  <1>2. asker' # asker
    OBVIOUS
  <1>3. PICK u \in Asker : \/ Ask(u)
                           \/ LoadAnchor(u)
                           \/ ReadNow(u)
                           \/ Convert(u)
                           \/ Answer(u)
    BY <1>2 DEF ClockNext, Tick, configure, CountUp, ReadAnchorTime, StoreAnchor,
                AdvanceSeed, stop
  <1>4. u = t
    BY <1>1, <1>3 DEF Ask, LoadAnchor, ReadNow, Convert, Answer
  <1>5. Answer(t)
    BY <1>3, <1>4 DEF Ask, LoadAnchor, ReadNow, Convert
  <1> QED BY <1>1, <1>5 DEF Answer

(***************************************************************************)
(* A zero timestamp has passed when it is given, and no later one had when *)
(* the time was read, for every rate, frequency and period: truncating the *)
(* frames and rounding the ticks never put it into the future.             *)
(***************************************************************************)
THEOREM ZeroTimestampIsRecentHolds == ClockSpec => ZeroTimestampIsRecent
  <1> DEFINE Recent ==
               \A t \in Asker :
                 asker[t].pc = "seeding" /\ asker'[t].pc = "idle" =>
                   LET given == answer'[t]
                   IN /\ given.hostTime <= asker[t].now
                      /\ asker[t].now <= given.hostTime
                                           + TicksAt(ZeroTimestampPeriod, sampleRate)
  <1>1. ASSUME TimelineInv, [ClockNext]_clockVars PROVE [Recent]_clockVars
    <2>1. CASE ClockNext
      <3>1. ASSUME NEW t \in Asker, asker[t].pc = "seeding", asker'[t].pc = "idle"
            PROVE  /\ answer'[t].hostTime <= asker[t].now
                   /\ asker[t].now <= answer'[t].hostTime
                                        + TicksAt(ZeroTimestampPeriod, sampleRate)
        BY <1>1, <2>1, <3>1, QuestionEndsWithAnswer DEF TimelineInv, AskerInv
      <3> QED BY <3>1
    <2>2. CASE UNCHANGED clockVars
      BY <2>2
    <2> QED BY <1>1, <2>1, <2>2
  <1> QED BY <1>1, TimelineInvAlways, PTL DEF ClockSpec, ZeroTimestampIsRecent

(***************************************************************************)
(* The timeline a client is given begins in the start that set the         *)
(* endpoint running, not before: silence between two runs is not counted.  *)
(***************************************************************************)
THEOREM TimelineStartsWithIOHolds == ClockSpec => TimelineStartsWithIO
  <1> DEFINE Starts ==
               \A t \in Asker :
                 asker[t].pc = "seeding" /\ asker'[t].pc = "idle" =>
                   LET given == answer'[t]
                   IN given.hostTime - TicksAt(given.sampleTime, sampleRate)
                        >= startedAt
  <1>1. ASSUME TimelineInv, [ClockNext]_clockVars PROVE [Starts]_clockVars
    <2>1. CASE ClockNext
      <3>1. ASSUME NEW t \in Asker, asker[t].pc = "seeding", asker'[t].pc = "idle"
            PROVE  answer'[t].hostTime - TicksAt(answer'[t].sampleTime, sampleRate)
                     >= startedAt
        <4>1. /\ asker[t] \in AskerState
              /\ anchorHostTime \in Nat /\ startedAt \in Nat
          BY <1>1 DEF TimelineInv, ClockTypeOK
        <4>2. startedAt <= anchorHostTime
          BY <1>1, <3>1 DEF TimelineInv, StartInv, AskerInv
        <4>3. PICK frames \in Nat : frames = asker[t].sampleTime
          BY <4>1 DEF AskerState
        <4>4. PICK ticks \in Nat : ticks = TicksAt(frames, sampleRate)
          BY <1>1, RateType, TicksAtIsNearest DEF TimelineInv
        <4>5. asker[t].hostTime = anchorHostTime + ticks
          BY <1>1, <3>1, <4>3, <4>4 DEF TimelineInv, AskerInv, OnTimeline
        <4>6. answer'[t].hostTime = asker[t].hostTime
              /\ answer'[t].sampleTime = frames
          BY <1>1, <2>1, <3>1, <4>3, QuestionEndsWithAnswer
        <4> QED BY <4>1, <4>2, <4>4, <4>5, <4>6
      <3> QED BY <3>1
    <2>2. CASE UNCHANGED clockVars
      BY <2>2
    <2> QED BY <1>1, <2>1, <2>2
  <1> QED BY <1>1, TimelineInvAlways, PTL DEF ClockSpec, TimelineStartsWithIO

=============================================================================
