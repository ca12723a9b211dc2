------------------------------- MODULE Scoring -------------------------------
(***************************************************************************)
(* The Version 2 scoring engine (analysis/): samples, the history of the   *)
(* last two of them, the rules, the total score and its classification.    *)
(* A position is a longitude on one parallel of latitude, a whole number   *)
(* of metres east of meridian 0, so a distance is exact; a speed is in     *)
(* km/h and a ramp's weight is assumed to divide evenly, so points are     *)
(* whole numbers.                                                          *)
(***************************************************************************)
EXTENDS ReceiverState, Integers, FiniteSets, Functions, SequencesExt

CONSTANTS
  Day,      \* seconds in a day, after which a UTC time of day wraps
  Circle,   \* metres around the parallel
  Expected, \* the surveyed position
  Settings  \* the `analysis:' section of the configuration

Health == {"OK", "Warning", "Potential Spoofing", "Spoofing Detected"}

\* The fields of AnalysisConfig, and what its validators guarantee of them.
AnalysisConfig ==
  [noFix : Nat,
   warningRadius : Nat, failureRadius : Nat,
   weightWarning : Nat, weightFailure : Nat,
   stationarySpeed : Nat, warningSpeed : Nat, speedWeight : Nat,
   minimum : Nat, suddenDrop : Nat \ {0}, satellitesWeight : Nat,
   hdopWarning : Nat, hdopCritical : Nat, hdopWeight : Nat,
   maxJump : Nat, timeWeight : Nat,
   maxDistance : Nat, disagreementWeight : Nat,
   signal : Optional([minTracked : Nat \ {0}, uniformStd : Nat,
                      uniformMean : Int, maxMean : Int, weight : Nat]),
   warning : Nat, potential : Nat, spoofing : Nat]

\* From 180 degrees west to 180 degrees east, which is the same place.
Longitude == {p \in Int : -Circle <= 2 * p /\ 2 * p <= Circle}

ASSUME ScoringAssumption ==
  /\ Circle \in Nat \ {0}
  /\ Position \subseteq Longitude /\ Expected \in Longitude
  /\ Day \in Nat \ {0}
  /\ Settings \in AnalysisConfig
  /\ Settings.warningRadius < Settings.failureRadius
  /\ Settings.stationarySpeed < Settings.warningSpeed
  /\ Settings.speedWeight % (Settings.warningSpeed - Settings.stationarySpeed) = 0
  /\ Settings.hdopWarning < Settings.hdopCritical
  /\ Settings.hdopWeight % (Settings.hdopCritical - Settings.hdopWarning) = 0
  /\ Settings.warning < Settings.potential
  /\ Settings.potential < Settings.spoofing

\* ReceiverSample.
Sample == [hasFix : BOOLEAN, pos : Optional(Position), sats : Optional(Nat),
           hdop : Optional(Nat), speed : Optional(Nat),
           utc : Optional(0..(Day - 1)), cn0 : Seq(Nat)]

\* None is no reading.
ASSUME SampleAssumption == None \notin Sample

History == [current : Optional(Sample), previous : Optional(Sample)]

NoHistory == [current |-> None, previous |-> None]

\* receiver_sample_from_state: the time stamp keeps only the time of day; cn0
\* is the signal strength of the satellites tracked at this moment.
SampleOf(st, cn0) ==
  [hasFix |-> st.hasFix, pos |-> st.pos, sats |-> st.sats, hdop |-> st.hdop,
   speed |-> st.speed, cn0 |-> cn0,
   utc |-> IF st.fixUtc = None THEN None ELSE st.fixUtc % Day]

\* Seeded fault: a sample without a newer time stamp is taken for an old one.
PushNewTimeOnly(h, sample) ==
  IF h.current # None /\ h.current.utc = sample.utc THEN h
  ELSE [current |-> sample, previous |-> h.current]

\* ReceiverHistory.push.
Push(h, sample) == [current |-> sample, previous |-> h.current]

AbsDiff(a, b) == IF a > b THEN a - b ELSE b - a

\* The shorter of the two ways around that part two points of a circle.
ShorterWay(d, circle) == IF 2 * d <= circle THEN d ELSE circle - d

\* haversine_m.
Distance(a, b) == ShorterWay(AbsDiff(a, b), Circle)

\* Seeded fault: the clock is not wrapped at midnight.
TimeDeltaUnwrapped(current, previous) == current - previous

\* The shortest signed way around the clock; exactly half a day is kept.
ShortestTimeDelta(current, previous) ==
  LET delta == current - previous
  IN  IF 2 * delta > Day THEN delta - Day
      ELSE IF 2 * delta < -Day THEN delta + Day
      ELSE delta

\* Seeded fault: above the critical value the ramp starts over.
RampUncapped(value, low, high, weight) ==
  IF value <= low THEN 0
  ELSE (weight * ((value - low) % (high - low + 1))) \div (high - low)

\* _ramp.
Ramp(value, low, high, weight) ==
  IF value <= low THEN 0
  ELSE IF value >= high THEN weight
  ELSE (weight * (value - low)) \div (high - low)

-----------------------------------------------------------------------------
(* The rules: the points each contributes, 0 when it does not trigger.     *)

NoFix(s) == IF s.hasFix THEN 0 ELSE Settings.noFix

PositionOffset(s) ==
  IF ~s.hasFix \/ s.pos = None THEN 0
  ELSE IF Distance(s.pos, Expected) > Settings.failureRadius
       THEN Settings.weightFailure
  ELSE IF Distance(s.pos, Expected) > Settings.warningRadius
       THEN Settings.weightWarning
  ELSE 0

SuddenSpeed(s) ==
  IF s.speed = None THEN 0
  ELSE Ramp(s.speed, Settings.stationarySpeed, Settings.warningSpeed,
            Settings.speedWeight)

SatelliteAnomaly(s, prior) ==
  LET tooFew  == s.sats # None /\ s.sats < Settings.minimum
      dropped == /\ s.sats # None /\ prior # None /\ prior.sats # None
                 /\ prior.sats - s.sats >= Settings.suddenDrop
  IN  IF tooFew \/ dropped THEN Settings.satellitesWeight ELSE 0

HdopAnomaly(s) ==
  IF s.hdop = None THEN 0
  ELSE Ramp(s.hdop, Settings.hdopWarning, Settings.hdopCritical,
            Settings.hdopWeight)

\* The mean m and the population variance v of n readings are compared as
\* n * m and n * n * v, which are whole numbers.
SignalAnomaly(s, signal) ==
  LET n      == Len(s.cn0)
      sum    == FoldLeft(+, 0, s.cn0)
      square == FoldLeft(LAMBDA total, c : total + c * c, 0, s.cn0)
      strong  == sum >= n * signal.maxMean
      uniform == /\ n * square - sum * sum
                      <= n * n * signal.uniformStd * signal.uniformStd
                 /\ sum >= n * signal.uniformMean
  IN  IF n >= signal.minTracked /\ (strong \/ uniform) THEN signal.weight ELSE 0

Jumped(s, prior) ==
  /\ s.utc # None /\ prior # None /\ prior.utc # None
  /\ AbsDiff(ShortestTimeDelta(s.utc, prior.utc), 0) > Settings.maxJump

TimeDiscontinuity(s, prior) ==
  IF Jumped(s, prior) THEN Settings.timeWeight ELSE 0

\* Seeded fault: a reference receiver counts as a peer.
FixedReceiversAll(hist, reference) ==
  {r \in DOMAIN hist :
     hist[r].current # None /\ hist[r].current.hasFix
                            /\ hist[r].current.pos # None}

\* _fixed_positions_by_receiver: who has a position, over every history kept.
FixedReceivers(hist, reference) ==
  {r \in DOMAIN hist \ reference :
     hist[r].current # None /\ hist[r].current.hasFix
                            /\ hist[r].current.pos # None}

\* Seeded fault: the sum over the others is divided by one more than they are.
DisagreementOwnCount(r, hist, fixed) ==
  LET others == fixed \ {r}
      n      == Cardinality(fixed)
      sum    == SumFunction([o \in others |-> hist[o].current.pos])
      apart  == ShorterWay(AbsDiff(n * hist[r].current.pos, sum), n * Circle)
      far    == apart > n * Settings.maxDistance
  IN  IF r \in fixed /\ others # {} /\ far
      THEN Settings.disagreementWeight ELSE 0

\* The distance to the mean of the longitudes of the n others, without the
\* division by n.
Disagreement(r, hist, fixed) ==
  LET others == fixed \ {r}
      n      == Cardinality(others)
      sum    == SumFunction([o \in others |-> hist[o].current.pos])
      apart  == ShorterWay(AbsDiff(n * hist[r].current.pos, sum), n * Circle)
      far    == apart > n * Settings.maxDistance
  IN  IF r \in fixed /\ others # {} /\ far
      THEN Settings.disagreementWeight ELSE 0

\* The points by rule, which only ever add to a score.
Points ==
  [no_fix : Nat, position_offset : Nat, sudden_speed : Nat,
   satellite_anomaly : Nat, hdop_anomaly : Nat, signal_anomaly : Nat,
   time_discontinuity : Nat, disagreement : Nat]

\* _evaluate_one: the outcomes by rule.  A reference receiver is not in
\* `fixed', and so is not scored for disagreement.
Outcomes(r, hist, fixed) ==
  LET s == hist[r].current
      p == hist[r].previous
  IN  [no_fix             |-> NoFix(s),
       position_offset    |-> PositionOffset(s),
       sudden_speed       |-> SuddenSpeed(s),
       satellite_anomaly  |-> SatelliteAnomaly(s, p),
       hdop_anomaly       |-> HdopAnomaly(s),
       signal_anomaly     |-> IF Settings.signal = None THEN 0
                              ELSE SignalAnomaly(s, Settings.signal),
       time_discontinuity |-> TimeDiscontinuity(s, p),
       disagreement       |-> Disagreement(r, hist, fixed)]

TotalScore(o) ==
  o.no_fix + o.position_offset + o.sudden_speed + o.satellite_anomaly
    + o.hdop_anomaly + o.time_discontinuity + o.signal_anomaly + o.disagreement

Classify(score) ==
  IF score >= Settings.spoofing THEN "Spoofing Detected"
  ELSE IF score >= Settings.potential THEN "Potential Spoofing"
  ELSE IF score >= Settings.warning THEN "Warning"
  ELSE "OK"

\* evaluate_all, for one receiver that update() has been called for.
Result(r, hist, reference) ==
  LET outcomes == Outcomes(r, hist, FixedReceivers(hist, reference))
  IN  [score  |-> TotalScore(outcomes),
       state  |-> Classify(TotalScore(outcomes)),
       points |-> outcomes]
=============================================================================
