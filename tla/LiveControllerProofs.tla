------------------------ MODULE LiveControllerProofs ------------------------
(***************************************************************************)
(* Proofs about LiveController, for any number of receivers, any analysis  *)
(* settings and any lines: type correctness; no position stays on the      *)
(* screen that was not current when its frame was evaluated; and what the  *)
(* ticks write down - the events, the screen and the scores - agrees with  *)
(* what they evaluated.                                                    *)
(***************************************************************************)
EXTENDS LiveController, TLAPS

-----------------------------------------------------------------------------
(* What a line does to a receiver's state.                                *)

\* Counting and stamping a framed line keeps a state a state.
LEMMA FramedType ==
  ASSUME NEW st \in State, NEW line \in Line, NEW t \in Nat
  PROVE  Framed(st, line, t) \in State
<1> DEFINE valid == IF line.ok THEN st.valid + 1 ELSE st.valid
<1>1. st.seen + 1 \in Nat /\ t \in Optional(Nat) /\ valid \in Nat
  BY DEF State, Optional
<1>2. Framed(st, line, t) =
        [st EXCEPT !.seen = st.seen + 1, !.lastSeen = t, !.valid = valid]
  BY Zenon DEF Framed
<1>3. ASSUME NEW a \in Nat, NEW b \in Optional(Nat), NEW c \in Nat
      PROVE  [st EXCEPT !.seen = a, !.lastSeen = b, !.valid = c] \in State
  BY DEF State
<1> HIDE DEF valid
<1>4. [st EXCEPT !.seen = st.seen + 1, !.lastSeen = t, !.valid = valid]
        \in State
  BY Zenon, <1>1, <1>3
<1> QED
  BY <1>2, <1>4

\* _process_line and _apply keep a state a state.
LEMMA ProcessType ==
  ASSUME NEW st \in State, NEW line \in Line, NEW t \in Nat
  PROVE  Process(st, line, t) \in State
<1>1. ASSUME NEW s \in State
      PROVE  ApplyGGA(s, line, t) \in State
  <2> DEFINE sats == OrElse(line.sats, s.sats)
             hdop == OrElse(line.hdop, s.hdop)
  <2>1. sats \in Optional(Nat) /\ hdop \in Optional(Nat)
    BY DEF OrElse, State, Line, Optional
  <2>2. None \in Optional(Position) /\ line.pos \in Optional(Position)
        /\ t \in Optional(Nat)
    BY DEF Line, Optional
  <2>3. ApplyGGA(s, line, t) =
          IF line.pos # None
          THEN [s EXCEPT !.sats = sats, !.hdop = hdop, !.hasFix = TRUE,
                         !.pos = line.pos, !.fixUtc = t]
          ELSE [s EXCEPT !.sats = sats, !.hdop = hdop, !.hasFix = FALSE,
                         !.pos = None]
    BY DEF ApplyGGA
  <2> HIDE DEF sats, hdop
  <2>4. /\ [s EXCEPT !.sats = sats, !.hdop = hdop, !.hasFix = TRUE,
                     !.pos = line.pos, !.fixUtc = t] \in State
        /\ [s EXCEPT !.sats = sats, !.hdop = hdop, !.hasFix = FALSE,
                     !.pos = None] \in State
    BY <2>1, <2>2 DEF State
  <2> QED
    BY <2>3, <2>4
<1>2. ASSUME NEW s \in State
      PROVE  ApplyRMC(s, line, t) \in State
  <2> DEFINE speed == OrElse(line.speed, s.speed)
  <2>1. speed \in Optional(Nat)
    BY DEF OrElse, State, Line, Optional
  <2>2. /\ None \in Optional(Position) /\ line.pos \in Optional(Position)
        /\ None \in Optional(Nat) /\ t \in Optional(Nat)
    BY DEF Line, Optional
  <2> HIDE DEF speed
  <2>3. /\ [s EXCEPT !.hasFix = TRUE, !.pos = line.pos, !.speed = speed,
                     !.fixUtc = t] \in State
        /\ [s EXCEPT !.hasFix = FALSE, !.pos = None, !.speed = None] \in State
    BY <2>1, <2>2 DEF State
  <2> QED
    BY <2>3 DEF ApplyRMC, speed
<1> QED
  BY <1>1, <1>2, FramedType DEF Process, Applied

\* Who has sent a sentence has the time of the last one: _process_line counts
\* and stamps together, and _apply leaves both alone.
LEMMA ProcessReported ==
  ASSUME NEW st \in State, NEW line \in Line, NEW t \in Nat, Reported(st)
  PROVE  Reported(Process(st, line, t))
<1>1. Framed(st, line, t).lastSeen = t
  BY DEF Framed, State
<1>2. ASSUME NEW s \in State
      PROVE  /\ ApplyGGA(s, line, t).lastSeen = s.lastSeen
             /\ ApplyRMC(s, line, t).lastSeen = s.lastSeen
  BY DEF ApplyGGA, ApplyRMC, State
<1> QED
  BY <1>1, <1>2, FramedType DEF Process, Applied, Reported

-----------------------------------------------------------------------------
(* What an evaluation finds.                                               *)

LEMMA DistanceType ==
  ASSUME NEW a \in Longitude, NEW b \in Longitude
  PROVE  Distance(a, b) \in Nat
<1>1. Circle \in Nat /\ a \in Int /\ b \in Int
  BY ScoringAssumption DEF Longitude
<1>2. AbsDiff(a, b) \in Nat /\ AbsDiff(a, b) <= Circle
  BY <1>1 DEF AbsDiff, Longitude
<1> QED
  BY <1>1, <1>2 DEF Distance, ShorterWay

\* PositionEvaluator.evaluate returns a status, and the distance of a
\* receiver whose position it could compare.
LEMMA EvaluateType ==
  ASSUME NEW r \in Receivers, NEW st \in State, NEW t \in Nat
  PROVE  /\ Evaluate(r, st, t).status \in Status
         /\ Evaluate(r, st, t).dist \in Optional(Nat)
<1>1. st.pos # None => st.pos \in Longitude /\ Baseline[r].expected \in Longitude
  BY ScoringAssumption, ControllerAssumption DEF State, Optional
<1>2. st.pos # None => Distance(st.pos, Baseline[r].expected) \in Nat
  BY <1>1, DistanceType
<1> QED
  BY <1>2 DEF Evaluate, Status, Optional

\* A receiver has data only if its last sentence is within its timeout.
LEMMA DataIsRecent ==
  ASSUME NEW r \in Receivers, NEW st \in State, NEW t \in Nat, Reported(st),
         Evaluate(r, st, t).status # "NO_DATA"
  PROVE  st.lastSeen \in Nat /\ t - st.lastSeen <= Baseline[r].timeout
<1>1. ~Silent(r, st, t)
  BY DEF Evaluate
<1>2. st.lastSeen \in Nat /\ st.lastSeen # None
  BY <1>1, NoneAssumption DEF Silent, Reported
<1>3. Baseline[r].timeout \in Nat
  BY ControllerAssumption
<1> QED
  BY <1>1, <1>2, <1>3 DEF Silent

-----------------------------------------------------------------------------
(* What the scoring engine makes of a sample.                              *)

\* The scoring rules only add points.
LEMMA DivType ==
  ASSUME NEW a \in Nat, NEW b \in Nat \ {0}
  PROVE  a \div b \in Nat
OBVIOUS

LEMMA RampType ==
  ASSUME NEW value \in Nat, NEW low \in Nat, NEW high \in Nat, low < high,
         NEW weight \in Nat
  PROVE  Ramp(value, low, high, weight) \in Nat
<1>1. ASSUME value > low PROVE weight * (value - low) \in Nat
  BY <1>1
<1> DEFINE p == weight * (value - low)
<1>2. ASSUME value > low PROVE p \div (high - low) \in Nat
  <2>1. p \in Nat /\ high - low \in Nat \ {0}
    BY <1>1, <1>2
  <2> HIDE DEF p
  <2> QED BY <2>1, DivType
<1> QED BY <1>2 DEF Ramp

LEMMA OutcomesType ==
  ASSUME NEW r, NEW h, NEW fixed, h[r].current \in Sample
  PROVE  Outcomes(r, h, fixed) \in Points
<1> DEFINE s == h[r].current
           p == h[r].previous
<1> HIDE DEF s, p
<1> USE ScoringAssumption DEF AnalysisConfig
<1>0. s \in Sample BY DEF s
<1>1. NoFix(s) \in Nat
  BY DEF NoFix
<1>2. PositionOffset(s) \in Nat
  BY DEF PositionOffset
<1>3. SuddenSpeed(s) \in Nat
  <2>1. s.speed # None => s.speed \in Nat
    BY <1>0 DEF Sample, Optional
  <2> QED BY <2>1, RampType DEF SuddenSpeed
<1>4. SatelliteAnomaly(s, p) \in Nat
  BY DEF SatelliteAnomaly
<1>5. HdopAnomaly(s) \in Nat
  <2>1. s.hdop # None => s.hdop \in Nat
    BY <1>0 DEF Sample, Optional
  <2> QED BY <2>1, RampType DEF HdopAnomaly
<1>6. (IF Settings.signal = None THEN 0 ELSE SignalAnomaly(s, Settings.signal)) \in Nat
  <2>1. Settings.signal # None => Settings.signal.weight \in Nat
    BY DEF Optional
  <2> QED BY <2>1 DEF SignalAnomaly
<1>7. TimeDiscontinuity(s, p) \in Nat
  BY DEF TimeDiscontinuity
<1>8. Disagreement(r, h, fixed) \in Nat
  BY DEF Disagreement
<1> QED
  BY <1>1, <1>2, <1>3, <1>4, <1>5, <1>6, <1>7, <1>8 DEF Outcomes, Points, s, p

LEMMA ResultType ==
  ASSUME NEW r, NEW h, NEW reference, h[r].current \in Sample
  PROVE  /\ Result(r, h, reference) \in Scored
         /\ Result(r, h, reference).points.no_fix = NoFix(h[r].current)
         /\ Result(r, h, reference).points.position_offset = PositionOffset(h[r].current)
<1> DEFINE o == Outcomes(r, h, FixedReceivers(h, reference))
<1>1. o \in Points
  BY OutcomesType
<1>2. TotalScore(o) \in Nat
  <2> HIDE DEF o
  <2> QED BY <1>1 DEF TotalScore, Points
<1>3. Classify(TotalScore(o)) \in Health
  <2> HIDE DEF o
  <2> QED BY DEF Classify, Health
<1>4. o.no_fix = NoFix(h[r].current) /\ o.position_offset = PositionOffset(h[r].current)
  BY DEF Outcomes
<1> HIDE DEF o
<1>5. Result(r, h, reference) = [score |-> TotalScore(o), state |-> Classify(TotalScore(o)), points |-> o]
  BY DEF Result, o
<1> QED BY <1>1, <1>2, <1>3, <1>4, <1>5 DEF Scored

LEMMA SampleType ==
  ASSUME NEW st \in State
  PROVE  /\ SampleOf(st, <<>>) \in Sample
         /\ NoFix(SampleOf(st, <<>>)) = NoFix(st)
         /\ PositionOffset(SampleOf(st, <<>>)) = PositionOffset(st)
<1>1. st.fixUtc # None => st.fixUtc % Day \in 0..(Day - 1)
  BY ScoringAssumption DEF State, Optional
<1>2. <<>> \in Seq(Nat) OBVIOUS
<1>3. SampleOf(st, <<>>) \in Sample
  BY <1>1, <1>2 DEF SampleOf, Sample, State, Optional
<1>4. SampleOf(st, <<>>).hasFix = st.hasFix /\ SampleOf(st, <<>>).pos = st.pos
  BY DEF SampleOf
<1> QED BY <1>3, <1>4 DEF NoFix, PositionOffset

-----------------------------------------------------------------------------
(* What an event leaves of the log.                                        *)

\* EventLog.record keeps all the events, or all but the oldest.
LEMMA RecordShape ==
  ASSUME NEW log \in Seq(Event), Len(log) <= Capacity, NEW event \in Event
  PROVE  /\ Record(log, event) \in Seq(Event)
         /\ Len(Record(log, event)) \in 1..Capacity
         /\ Record(log, event)[Len(Record(log, event))] = event
         /\ \E d \in {0, 1} :
              /\ Len(Record(log, event)) = Len(log) - d + 1
              /\ \A i \in 1..(Len(log) - d) :
                   Record(log, event)[i] = log[i + d]
<1>1. CASE Len(log) < Capacity
  <2>1. /\ Record(log, event) = Append(log, event)
        /\ Append(log, event) \in Seq(Event)
        /\ Len(Append(log, event)) = Len(log) + 1
        /\ Append(log, event)[Len(log) + 1] = event
        /\ \A i \in 1..Len(log) : Append(log, event)[i] = log[i]
    BY <1>1 DEF Record
  <2> QED
    BY <1>1, <2>1, ControllerAssumption
<1>2. CASE ~(Len(log) < Capacity)
  <2>1. Len(log) = Capacity /\ log # <<>>
    BY <1>2, ControllerAssumption
  <2>2. /\ Tail(log) \in Seq(Event) /\ Len(Tail(log)) = Len(log) - 1
        /\ \A i \in 1..(Len(log) - 1) : Tail(log)[i] = log[i + 1]
    BY <2>1
  <2> DEFINE rest == Tail(log)
  <2> HIDE DEF rest
  <2>3. /\ Append(rest, event) \in Seq(Event)
        /\ Len(Append(rest, event)) = Len(log)
        /\ Append(rest, event)[Len(log)] = event
        /\ \A i \in 1..(Len(log) - 1) : Append(rest, event)[i] = rest[i]
    BY <2>2 DEF rest
  <2>4. Record(log, event) = Append(rest, event)
    BY <1>2 DEF Record, rest
  <2> QED
    BY <2>1, <2>2, <2>3, <2>4, ControllerAssumption DEF rest
<1> QED
  BY <1>1, <1>2

\* An event about something else leaves what the log says of r.
LEMMA RecordOther ==
  ASSUME NEW log \in Seq(Event), Len(log) <= Capacity, NEW event \in Event,
         NEW r, NEW kind, ~About(event, r, kind)
  PROVE  /\ \A words : LastSays(log, r, kind, words) =>
                         LastSays(Record(log, event), r, kind, words)
         /\ Alternates(log, r, kind) => Alternates(Record(log, event), r, kind)
<1> DEFINE new == Record(log, event)
<1>1. PICK d \in {0, 1} :
        /\ Len(new) = Len(log) - d + 1
        /\ \A i \in 1..(Len(log) - d) : new[i] = log[i + d]
  BY RecordShape
<1>2. new[Len(new)] = event /\ Len(log) \in Nat /\ Len(new) \in 1..Capacity
  BY RecordShape
<1> HIDE DEF new
<1>3. \A i \in 1..Len(new) : About(new[i], r, kind) =>
        i + d \in 1..Len(log) /\ new[i] = log[i + d]
  BY <1>1, <1>2, ControllerAssumption
<1>4. \A words : LastSays(log, r, kind, words) => LastSays(new, r, kind, words)
  <2> SUFFICES ASSUME NEW words, LastSays(log, r, kind, words),
                      NEW i \in 1..Len(new), About(new[i], r, kind),
                      Nothing(new, r, kind, i + 1, Len(new))
               PROVE  new[i].says \in words
    BY DEF LastSays
  <2>1. i + d \in 1..Len(log) /\ new[i] = log[i + d]
    BY <1>3
  <2>2. ASSUME NEW m \in (i + d + 1)..Len(log)
        PROVE  ~About(log[m], r, kind)
    <3>1. m - d \in (i + 1)..Len(new) /\ m - d \in 1..(Len(log) - d)
      BY <1>1, <1>2, <2>1
    <3>2. new[m - d] = log[m]
      BY <1>1, <1>2, <3>1
    <3> QED
      BY <3>1, <3>2 DEF Nothing
  <2> QED
    BY <2>1, <2>2 DEF LastSays, Nothing
<1>5. Alternates(log, r, kind) => Alternates(new, r, kind)
  <2> SUFFICES ASSUME Alternates(log, r, kind),
                      NEW j \in 1..Len(new), NEW i \in 1..(j - 1),
                      About(new[i], r, kind), About(new[j], r, kind),
                      Nothing(new, r, kind, i + 1, j - 1)
               PROVE  new[i].says # new[j].says
    BY DEF Alternates
  <2>1. /\ i + d \in 1..(j + d - 1) /\ new[i] = log[i + d]
        /\ j + d \in 1..Len(log) /\ new[j] = log[j + d]
    BY <1>1, <1>2, <1>3
  <2>2. ASSUME NEW m \in (i + d + 1)..(j + d - 1)
        PROVE  ~About(log[m], r, kind)
    <3>1. m - d \in (i + 1)..(j - 1) /\ m - d \in 1..(Len(log) - d)
      BY <1>1, <1>2, <2>1
    <3>2. new[m - d] = log[m]
      BY <1>1, <1>2, <3>1
    <3> QED
      BY <3>1, <3>2 DEF Nothing
  <2> QED
    BY <2>1, <2>2 DEF Alternates, Nothing
<1> QED
  BY <1>4, <1>5 DEF new

LEMMA AlternatesAt ==
  ASSUME NEW log, NEW r, NEW kind, Alternates(log, r, kind),
         NEW j \in 1..Len(log), NEW i \in 1..(j - 1),
         About(log[i], r, kind), Nothing(log, r, kind, i + 1, j - 1),
         About(log[j], r, kind)
  PROVE  log[i].says # log[j].says
BY DEF Alternates

\* An event about r is the newest, and says something new if what it says is
\* not what the log said last.
LEMMA RecordOwn ==
  ASSUME NEW log \in Seq(Event), Len(log) <= Capacity, NEW event \in Event,
         NEW r, NEW kind, About(event, r, kind)
  PROVE  /\ \A words : event.says \in words =>
                         LastSays(Record(log, event), r, kind, words)
         /\ \A words :
              /\ Alternates(log, r, kind) /\ LastSays(log, r, kind, words)
              /\ event.says \notin words
              => Alternates(Record(log, event), r, kind)
<1> DEFINE new == Record(log, event)
<1>1. PICK d \in {0, 1} :
        /\ Len(new) = Len(log) - d + 1
        /\ \A i \in 1..(Len(log) - d) : new[i] = log[i + d]
  BY RecordShape
<1>2. new[Len(new)] = event /\ Len(log) \in Nat /\ Len(new) \in 1..Capacity
  BY RecordShape
<1> HIDE DEF new
<1>3. ASSUME NEW words, event.says \in words
      PROVE  LastSays(new, r, kind, words)
  <2> SUFFICES ASSUME NEW i \in 1..Len(new), i # Len(new)
               PROVE  ~Nothing(new, r, kind, i + 1, Len(new))
    BY <1>2, <1>3, ControllerAssumption DEF LastSays
  <2> QED
    BY <1>2, ControllerAssumption DEF Nothing
<1>4. ASSUME NEW words, Alternates(log, r, kind),
             LastSays(log, r, kind, words), event.says \notin words
      PROVE  Alternates(new, r, kind)
  <2> SUFFICES ASSUME NEW j \in 1..Len(new), NEW i \in 1..(j - 1),
                      About(new[i], r, kind), About(new[j], r, kind),
                      Nothing(new, r, kind, i + 1, j - 1)
               PROVE  new[i].says # new[j].says
    BY DEF Alternates
  <2>1. /\ i \in Nat /\ j \in Nat /\ i >= 1 /\ i <= j - 1 /\ j <= Len(new)
        /\ Len(new) \in Nat
    BY <1>2, ControllerAssumption
  <2>2. /\ i + d \in 1..(j + d - 1) /\ i + d \in 1..Len(log)
        /\ new[i] = log[i + d]
    BY <1>1, <1>2, <2>1
  <2>3. ASSUME NEW m \in (i + d + 1)..(j + d - 1)
        PROVE  ~About(log[m], r, kind)
    <3>1. m - d \in (i + 1)..(j - 1) /\ m - d \in 1..(Len(log) - d)
      BY <1>1, <1>2, <2>1, <2>2
    <3>2. new[m - d] = log[m]
      BY <1>1, <1>2, <3>1
    <3> QED
      BY <3>1, <3>2 DEF Nothing
  <2>4. CASE j = Len(new)
    <3>1. j + d - 1 = Len(log)
      BY <1>1, <1>2, <2>4
    <3>2. log[i + d].says \in words
      BY <1>4, <2>2, <2>3, <3>1 DEF LastSays, Nothing
    <3>3. new[j] = event
      BY <1>2, <2>4
    <3>4. new[i].says \in words
      BY <2>2, <3>2
    <3> QED
      BY <1>4, <3>3, <3>4
  <2>5. CASE j # Len(new)
    <3>1. j \in 1..(Len(log) - d) /\ j + d \in 1..Len(log)
      <4>1. Len(new) = Len(log) - d + 1 /\ d \in {0, 1} /\ Len(log) \in Nat
        BY <1>1, <1>2
      <4>2. j <= Len(new) - 1
        BY <2>1, <2>5
      <4> QED
        BY <4>1, <4>2, <2>1
    <3>2. new[j] = log[j + d]
      BY <1>1, <3>1
    <3>3. Nothing(log, r, kind, (i + d) + 1, (j + d) - 1)
      BY <2>3 DEF Nothing
    <3>4. About(log[i + d], r, kind) /\ About(log[j + d], r, kind)
      BY <2>2, <3>2
    <3>5. log[i + d].says # log[j + d].says
      BY <1>4, <2>2, <3>1, <3>3, <3>4, AlternatesAt
    <3> QED
      BY <2>2, <3>2, <3>5
  <2> QED
    BY <2>4, <2>5
<1> QED
  BY <1>3, <1>4 DEF new

-----------------------------------------------------------------------------
(* The log follows what the loop remembers.                                *)

LogTyped(log) == log \in Seq(Event) /\ Len(log) <= Capacity

\* What the log says of s and kind after is what it said before.
SameSaid(log, new, s, kind) ==
  /\ \A words : LastSays(log, s, kind, words) => LastSays(new, s, kind, words)
  /\ Alternates(log, s, kind) => Alternates(new, s, kind)

\* Telling a word of r, if at all, leaves a log that says it last, in which it
\* is a change if it was none of what was said last before.
LEMMA Tell ==
  ASSUME NEW log, LogTyped(log), NEW r \in Receivers, NEW kind \in Kind,
         NEW told \in BOOLEAN, NEW word, NEW before, NEW after,
         LastSays(log, r, kind, before),
         told => word \in Says /\ word \in after,
         ~told => before \subseteq after
  PROVE  LET new == RecordIf(log, told, AnEvent(r, kind, word))
         IN  /\ LogTyped(new) /\ LastSays(new, r, kind, after)
             /\ Alternates(log, r, kind) /\ (told => word \notin before)
                  => Alternates(new, r, kind)
             /\ \A s, other : s # r \/ other # kind => SameSaid(log, new, s, other)
<1> DEFINE event == AnEvent(r, kind, word)
<1>1. CASE ~told
  <2>1. RecordIf(log, told, event) = log
    BY <1>1 DEF RecordIf
  <2>2. LastSays(log, r, kind, after)
    BY <1>1 DEF LastSays
  <2> QED
    BY <1>1, <2>1, <2>2 DEF SameSaid
<1>2. CASE told
  <2>1. event \in Event /\ About(event, r, kind) /\ event.says = word
    BY <1>2 DEF AnEvent, Event, About
  <2>2. \A s, other : s # r \/ other # kind => ~About(event, s, other)
    BY DEF AnEvent, About
  <2>3. RecordIf(log, told, event) = Record(log, event)
    BY <1>2 DEF RecordIf
  <2> HIDE DEF event
  <2>4. LogTyped(Record(log, event))
    BY <2>1, RecordShape, ControllerAssumption DEF LogTyped
  <2>5. /\ LastSays(Record(log, event), r, kind, after)
        /\ Alternates(log, r, kind) /\ word \notin before
             => Alternates(Record(log, event), r, kind)
    BY <1>2, <2>1, RecordOwn DEF LogTyped
  <2>6. \A s, other : s # r \/ other # kind =>
          SameSaid(log, Record(log, event), s, other)
    BY <2>1, <2>2, RecordOther DEF LogTyped, SameSaid
  <2> QED
    BY <1>2, <2>3, <2>4, <2>5, <2>6 DEF event
<1> QED
  BY <1>1, <1>2

\* The words of the events, and None, are told apart.
LEMMA WordsKnown ==
  /\ \A v \in Status \cup Health \cup Connection : v # None
  /\ \A v \in BOOLEAN : v # None
  /\ "connected" # None /\ "recovered" # None /\ "disconnected" # None
BY NoneAssumption, WordsAssumption DEF Says

\* The connection event, if any, is what may be told of the new status.
LEMMA ConnectionTold ==
  ASSUME NEW previous \in Optional(Connection), NEW c \in Connection
  PROVE  LET verb == ConnectionVerb(previous, c)
             told == Changed(previous, c) /\ verb # None
         IN  /\ told => verb \in Says /\ verb \in ConnWords(c)
             /\ ~told => Words(previous, ConnWords(previous)) \subseteq ConnWords(c)
<1>1. CASE c = "CONNECTING"
  BY <1>1 DEF ConnectionVerb, ConnWords, Words, Connection, Says
<1>2. CASE c = "CONNECTED"
  BY <1>2, WordsKnown DEF ConnectionVerb, ConnWords, Words, Says, Changed
<1>3. CASE c = "DISCONNECTED"
  BY <1>3, WordsKnown DEF ConnectionVerb, ConnWords, Words, Says, Changed
<1> QED
  BY <1>1, <1>2, <1>3 DEF Connection

LEMMA FixTold ==
  ASSUME NEW previous \in Optional(BOOLEAN), NEW hasFix \in BOOLEAN
  PROVE  /\ FixVerb(hasFix) \in Says
         /\ Changed(previous, hasFix) =>
              FixVerb(hasFix) \notin Words(previous, {FixVerb(previous)})
         /\ ~Changed(previous, hasFix) =>
              Words(previous, {FixVerb(previous)}) \subseteq {FixVerb(hasFix)}
<1>1. FixVerb(hasFix) \in Says
  BY DEF FixVerb, Says
<1>2. CASE previous = None
  BY <1>1, <1>2 DEF Changed, Words
<1>3. CASE previous # None /\ previous = hasFix
  BY <1>1, <1>3 DEF Changed, Words
<1>4. CASE previous # None /\ previous # hasFix
  <2>1. \/ previous = TRUE /\ hasFix = FALSE
        \/ previous = FALSE /\ hasFix = TRUE
    BY <1>4 DEF Optional
  <2>2. FixVerb(previous) # FixVerb(hasFix)
    BY <2>1 DEF FixVerb
  <2> QED
    BY <1>1, <1>4, <2>2 DEF Changed, Words
<1> QED
  BY <1>2, <1>3, <1>4

\* After the evaluation of r the log says last what was evaluated, and tells
\* no change twice.
LEMMA EvaluationLog ==
  ASSUME Telling, NEW r \in Receivers, NEW status \in Status,
         NEW c \in Connection, NEW hasFix \in BOOLEAN
  PROVE  LET new == LogEvaluation(events, r, status, c, hasFix)
         IN  /\ LogTyped(new)
             /\ LastSays(new, r, "status", {status})
             /\ LastSays(new, r, "connection", ConnWords(c))
             /\ LastSays(new, r, "fix", {FixVerb(hasFix)})
             /\ Alternates(new, r, "status") /\ Alternates(new, r, "fix")
             /\ SameSaid(events, new, r, "health")
             /\ \A s \in Receivers \ {r} : \A kind :
                  SameSaid(events, new, s, kind)
<1> DEFINE verb  == ConnectionVerb(lastConn[r], c)
           told1 == Changed(lastStatus[r], status)
           told2 == Changed(lastConn[r], c) /\ verb # None
           told3 == Changed(lastFix[r], hasFix)
           log1  == RecordIf(events, told1, AnEvent(r, "status", status))
           log2  == RecordIf(log1, told2, AnEvent(r, "connection", verb))
           log3  == RecordIf(log2, told3, AnEvent(r, "fix", FixVerb(hasFix)))
           was1  == Words(lastStatus[r], {lastStatus[r]})
           was2  == Words(lastConn[r], ConnWords(lastConn[r]))
           was3  == Words(lastFix[r], {FixVerb(lastFix[r])})
<1>1. /\ lastConn[r] \in Optional(Connection)
      /\ lastFix[r] \in Optional(BOOLEAN)
      /\ LogTyped(events)
      /\ LastSays(events, r, "status", was1)
      /\ LastSays(events, r, "connection", was2)
      /\ LastSays(events, r, "fix", was3)
      /\ Alternates(events, r, "status") /\ Alternates(events, r, "fix")
  BY DEF Telling, TypeOK, LogTyped, LogFollows, EventsAlternate
<1>2. /\ told1 \in BOOLEAN /\ told2 \in BOOLEAN /\ told3 \in BOOLEAN
      /\ {"status", "connection", "fix"} \subseteq Kind
  BY DEF Changed, Kind
<1>3. /\ told1 => status \in Says /\ status \notin was1
      /\ ~told1 => was1 \subseteq {status}
  BY DEF Changed, Words, Says
<1>4. /\ told2 => verb \in Says /\ verb \in ConnWords(c)
      /\ ~told2 => was2 \subseteq ConnWords(c)
  BY <1>1, ConnectionTold
<1>5. /\ told3 => FixVerb(hasFix) \in Says /\ FixVerb(hasFix) \notin was3
      /\ ~told3 => was3 \subseteq {FixVerb(hasFix)}
  BY <1>1, FixTold
<1>6. LogEvaluation(events, r, status, c, hasFix) = log3
  BY DEF LogEvaluation
<1> HIDE DEF told1, told2, told3, verb, was1, was2, was3
<1>7. /\ LogTyped(log1) /\ LastSays(log1, r, "status", {status})
      /\ Alternates(log1, r, "status")
      /\ \A s, kind : s # r \/ kind # "status" => SameSaid(events, log1, s, kind)
  BY <1>1, <1>2, <1>3, Tell
<1> HIDE DEF log1
<1>8. /\ LogTyped(log2) /\ LastSays(log2, r, "connection", ConnWords(c))
      /\ \A s, kind : s # r \/ kind # "connection" => SameSaid(log1, log2, s, kind)
  <2>1. LastSays(log1, r, "connection", was2)
    BY <1>1, <1>7 DEF SameSaid
  <2> QED
    BY <1>2, <1>4, <1>7, <2>1, Tell
<1> HIDE DEF log2
<1>9. /\ LogTyped(log3) /\ LastSays(log3, r, "fix", {FixVerb(hasFix)})
      /\ Alternates(log3, r, "fix")
      /\ \A s, kind : s # r \/ kind # "fix" => SameSaid(log2, log3, s, kind)
  <2>1. LastSays(log2, r, "fix", was3) /\ Alternates(log2, r, "fix")
    BY <1>1, <1>7, <1>8 DEF SameSaid
  <2> QED
    BY <1>2, <1>5, <1>8, <2>1, Tell
<1> HIDE DEF log3
<1>10. /\ LastSays(log3, r, "status", {status})
       /\ LastSays(log3, r, "connection", ConnWords(c))
       /\ Alternates(log3, r, "status")
  BY <1>7, <1>8, <1>9 DEF SameSaid
<1>11. /\ SameSaid(events, log3, r, "health")
       /\ \A s \in Receivers \ {r} : \A kind : SameSaid(events, log3, s, kind)
  BY <1>7, <1>8, <1>9 DEF SameSaid
<1> QED
  BY <1>6, <1>9, <1>10, <1>11

-----------------------------------------------------------------------------
(* The initial states, and the steps of the feeds.                         *)

LEMMA EmptyFrameType ==
  /\ EmptyFrame \in [Receivers -> Evaluated]
  /\ \A r \in Receivers :
       ~EmptyFrame[r].fresh /\ EmptyFrame[r].analysis = None
BY DEF EmptyFrame, Evaluated, Optional

LEMMA InitInductive == Init => Inductive
<1> SUFFICES ASSUME Init PROVE Inductive
  OBVIOUS
<1>1. NoState \in State /\ Reported(NoState)
  BY DEF NoState, State, Optional, Reported
<1>2. FeedsKnown
  BY <1>1 DEF Init, FeedsKnown, Connection
<1>3. /\ frame \in [Receivers -> Evaluated]
      /\ \A r \in Receivers : ~frame[r].fresh /\ frame[r].analysis = None
  BY EmptyFrameType DEF Init
<1>4. LoopKnown
  BY <1>3, ControllerAssumption DEF Init, LoopKnown, Receivers
<1>5. HistoryKnown
  BY DEF Init, HistoryKnown
<1> QED
  BY <1>2, <1>3, <1>4, <1>5
     DEF Init, Inductive, FreshKnown, ScreenKnown, Drawn, ScoreKnown

\* What happens to the connections, the lines and the clock leaves feeds that
\* are well formed, and nothing that the loop has taken.
LEMMA FeedStep ==
  ASSUME FeedsKnown, Feeds
  PROVE  FeedsKnown' /\ UNCHANGED <<loopVars, frame, hist, screen>>
<1>1. ASSUME NEW r \in Receivers, ConnectionChanges(r)
      PROVE  FeedsKnown' /\ UNCHANGED <<loopVars, frame, hist, screen>>
  BY <1>1 DEF ConnectionChanges, FeedsKnown, scoreVars
<1>2. ASSUME NEW r \in Receivers, LineArrives(r)
      PROVE  FeedsKnown' /\ UNCHANGED <<loopVars, frame, hist, screen>>
  <2>1. PICK line \in Lines : feed' = [feed EXCEPT ![r] = Process(@, line, now)]
    BY <1>2 DEF LineArrives
  <2>2. line \in Line
    BY ControllerAssumption
  <2>3. Process(feed[r], line, now) \in State
    BY <2>2, ProcessType DEF FeedsKnown
  <2>4. Reported(Process(feed[r], line, now))
    BY <2>2, ProcessReported DEF FeedsKnown
  <2>5. /\ feed' \in [Receivers -> State]
        /\ \A s \in Receivers : Reported(feed'[s])
    BY <2>1, <2>3, <2>4 DEF FeedsKnown
  <2> QED
    BY <1>2, <2>5 DEF LineArrives, FeedsKnown, scoreVars
<1>3. CASE Tick
  BY <1>3 DEF Tick, FeedsKnown, scoreVars
<1> QED
  BY <1>1, <1>2, <1>3 DEF Feeds

-----------------------------------------------------------------------------
(* The steps of the loop.                                                  *)

\* The receiver after this one, or the first of the next phase.
LEMMA AdvanceType ==
  ASSUME k \in Receivers, NEW next, Advance(next)
  PROVE  /\ k' \in Receivers
         /\ \/ k < N /\ k' = k + 1 /\ pc' = pc
            \/ k = N /\ k' = 1 /\ pc' = next
BY ControllerAssumption DEF Advance, Receivers

LEMMA BeginStep ==
  ASSUME Inductive, BeginFrame \/ BeginLastFrame
  PROVE  Inductive'
<1>1. /\ pc' = "snapshots" /\ k' = 1 /\ frame' = EmptyFrame
      /\ UNCHANGED <<feedVars, hist, screen>>
  BY DEF BeginFrame, BeginLastFrame, scoreVars
<1>2. LoopKnown'
  BY <1>1, EmptyFrameType, ControllerAssumption DEF LoopKnown, Receivers
<1>3. HistoryKnown'
  BY <1>1 DEF Inductive, HistoryKnown
<1> QED
  BY <1>1, <1>2, <1>3, EmptyFrameType
     DEF Inductive, FeedsKnown, feedVars, FreshKnown, ScreenKnown, Drawn,
         ScoreKnown

LEMMA SnapshotStep ==
  ASSUME Inductive, TakeSnapshot
  PROVE  Inductive'
<1> USE DEF Inductive
<1>1. /\ pc = "snapshots" /\ k \in Receivers
      /\ frame \in [Receivers -> Evaluated]
      /\ UNCHANGED <<feedVars, hist, screen>>
      /\ conn[k] \in Connection /\ feed[k] \in State /\ Reported(feed[k])
  BY DEF TakeSnapshot, LoopKnown, FeedsKnown, scoreVars
<1> DEFINE f == [frame[k] EXCEPT !.conn = conn[k], !.state = feed[k]]
<1>2. frame' = [frame EXCEPT ![k] = f]
  BY <1>1, Zenon DEF TakeSnapshot
<1>3. /\ f \in Evaluated /\ f.state = feed[k] /\ f.conn = conn[k]
      /\ f.fresh = frame[k].fresh
      /\ f.analysis = frame[k].analysis
  BY <1>1 DEF Evaluated, Optional
<1> HIDE DEF f
<1>4. /\ frame' \in [Receivers -> Evaluated]
      /\ frame'[k] = f /\ \A r \in Receivers \ {k} : frame'[r] = frame[r]
  BY <1>1, <1>2, <1>3
<1>5. \A r \in Receivers :
        ~frame'[r].fresh /\ (r = k \/ Taken(r) => Taken(r)')
  <2>1. /\ ~f.fresh /\ f.conn \in Connection
        /\ f.state \in State /\ Reported(f.state)
    BY <1>1, <1>3 DEF LoopKnown
  <2> QED
    BY <1>1, <1>4, <2>1 DEF LoopKnown, Taken
<1>6. /\ k' \in Receivers
      /\ \/ k < N /\ k' = k + 1 /\ pc' = pc
         \/ k = N /\ k' = 1 /\ pc' = "evaluating"
  BY <1>1, AdvanceType DEF TakeSnapshot
<1>7. LoopKnown'
  <2>1. \A r \in Receivers : r < k => Taken(r)
    BY <1>1 DEF LoopKnown
  <2>2. \A r \in Receivers : r <= k => Taken(r)'
    BY <1>1, <1>5, <2>1, ControllerAssumption DEF Receivers
  <2>3. pc' = "snapshots" => \A r \in Receivers : r < k' => Taken(r)'
    BY <1>1, <1>6, <2>2, ControllerAssumption DEF Receivers
  <2>4. pc' = "evaluating" => \A r \in Receivers : Taken(r)'
    BY <1>1, <1>6, <2>2, ControllerAssumption DEF Receivers
  <2> QED
    BY <1>1, <1>4, <1>5, <1>6, <2>3, <2>4 DEF LoopKnown
<1>8. ScoreKnown' /\ HistoryKnown'
  BY <1>1, <1>3, <1>4 DEF ScoreKnown, HistoryKnown
<1> QED
  BY <1>1, <1>5, <1>6, <1>7, <1>8
     DEF FeedsKnown, feedVars, FreshKnown, ScreenKnown, Drawn

LEMMA EvaluateStep ==
  ASSUME Inductive, EvaluateReceiver
  PROVE  Inductive'
<1> USE DEF Inductive
<1> DEFINE snap   == frame[k]
           result == Evaluate(k, snap.state, now)
           f      == [snap EXCEPT !.status = result.status,
                                  !.dist = result.dist, !.at = now,
                                  !.fresh = Fresh(snap.conn, result.status)]
<1>1. /\ pc = "evaluating" /\ k \in Receivers /\ now \in Nat
      /\ frame \in [Receivers -> Evaluated] /\ snap \in Evaluated
      /\ snap.conn \in Connection
      /\ snap.state \in State /\ Reported(snap.state)
      /\ UNCHANGED <<feedVars, hist, screen>>
  BY DEF EvaluateReceiver, LoopKnown, FeedsKnown, Taken, scoreVars
<1>2. result.status \in Status /\ result.dist \in Optional(Nat)
  BY <1>1, EvaluateType
<1>3. frame' = [frame EXCEPT ![k] = f]
  BY <1>1, Zenon DEF EvaluateReceiver
<1>4. /\ f \in Evaluated /\ f.state = snap.state /\ f.conn = snap.conn
      /\ f.at = now /\ f.fresh = Fresh(snap.conn, result.status)
      /\ f.analysis = snap.analysis
  <2>1. Fresh(snap.conn, result.status) \in BOOLEAN
    BY DEF Fresh
  <2> HIDE DEF snap, result
  <2> QED
    BY <1>1, <1>2, <2>1 DEF Evaluated, Optional
<1>5. Fresh(snap.conn, result.status) =>
        /\ snap.conn # "DISCONNECTED" /\ snap.state.lastSeen \in Nat
        /\ now - snap.state.lastSeen <= Baseline[k].timeout
  BY <1>1, DataIsRecent DEF Fresh
<1> HIDE DEF f, snap, result
<1>6. /\ frame' \in [Receivers -> Evaluated]
      /\ frame'[k] = f /\ \A r \in Receivers \ {k} : frame'[r] = frame[r]
  BY <1>1, <1>3, <1>4
<1>7. FreshKnown'
  BY <1>1, <1>4, <1>5, <1>6 DEF FreshKnown
<1>8. /\ k' \in Receivers /\ pc' \in {"evaluating", "scoring"}
      /\ pc' = "scoring" => k' = 1
  BY <1>1, AdvanceType DEF EvaluateReceiver
<1>9. \A r \in Receivers : Taken(r)'
  BY <1>1, <1>4, <1>6 DEF Taken, LoopKnown
<1>10. LoopKnown'
  BY <1>6, <1>8, <1>9 DEF LoopKnown
<1>11. ScoreKnown' /\ HistoryKnown'
  BY <1>1, <1>4, <1>6 DEF ScoreKnown, HistoryKnown, snap
<1> QED
  BY <1>1, <1>7, <1>8, <1>10, <1>11
     DEF FeedsKnown, feedVars, ScreenKnown, Drawn

\* The histories stay histories of the receivers, and the newest sample of a
\* fresh receiver is what its snapshot holds.
LEMMA UpdatedType ==
  ASSUME HistoryKnown, \A r \in Receivers : Taken(r)
  PROVE  /\ DOMAIN Updated \subseteq Receivers
         /\ Updated \in [DOMAIN Updated -> History]
         /\ Analysis => \A r \in FreshReceivers :
              Updated[r].current = SampleOf(frame[r].state, <<>>)
<1>1. CASE ~Analysis
  BY <1>1 DEF Updated, HistoryKnown
<1>2. CASE Analysis
  <2>1. FreshReceivers \subseteq Receivers
    BY DEF FreshReceivers
  <2>2. \A r \in DOMAIN hist : r \in Receivers /\ hist[r] \in History
    BY DEF HistoryKnown
  <2>3. NoHistory \in History
    BY DEF NoHistory, History, Optional
  <2>4. \A r \in Receivers : SampleOf(frame[r].state, <<>>) \in Sample
    BY SampleType DEF Taken
  <2>5. ASSUME NEW old \in History, NEW s \in Sample
        PROVE  Push(old, s) \in History /\ Push(old, s).current = s
    BY <2>5 DEF Push, History, Optional
  <2> QED
    BY <1>2, <2>1, <2>2, <2>3, <2>4, <2>5 DEF Updated
<1> QED
  BY <1>1, <1>2

LEMMA ScoreStep ==
  ASSUME Inductive, Score
  PROVE  Inductive'
<1> USE DEF Inductive
<1> DEFINE f(r) == [frame[r] EXCEPT !.analysis = Analysed(r, Updated)]
<1>1. /\ pc = "scoring" /\ pc' = "telling" /\ k \in Receivers
      /\ frame \in [Receivers -> Evaluated] /\ hist' = Updated
      /\ frame' = [r \in Receivers |-> f(r)]
      /\ UNCHANGED <<feedVars, k, screen>>
  BY DEF Score, LoopKnown
<1>2. \A r \in Receivers : Taken(r)
  BY <1>1 DEF LoopKnown
<1>3. HistoryKnown'
  BY <1>1, <1>2, UpdatedType DEF HistoryKnown
<1>4. ASSUME NEW r \in Receivers, Analysed(r, Updated) # None
      PROVE  /\ frame[r].fresh /\ Analysed(r, Updated) \in Scored
             /\ Analysed(r, Updated).points.no_fix = NoFix(frame[r].state)
             /\ Analysed(r, Updated).points.position_offset =
                  PositionOffset(frame[r].state)
  <2>1. /\ Analysis /\ r \in FreshReceivers /\ frame[r].fresh
        /\ Analysed(r, Updated) = Result(r, Updated, Reference)
    BY <1>4 DEF Analysed, FreshReceivers
  <2>2. Updated[r].current = SampleOf(frame[r].state, <<>>)
    BY <1>2, <2>1, UpdatedType
  <2>3. frame[r].state \in State
    BY <1>2 DEF Taken
  <2> QED
    BY <2>1, <2>2, <2>3, SampleType, ResultType
<1>5. \A r \in Receivers : Analysed(r, Updated) \in Optional(Scored)
  BY <1>4 DEF Optional
<1>6. \A r \in Receivers :
        /\ f(r) \in Evaluated /\ f(r).analysis = Analysed(r, Updated)
        /\ f(r).conn = frame[r].conn /\ f(r).state = frame[r].state
        /\ f(r).status = frame[r].status
        /\ f(r).fresh = frame[r].fresh /\ f(r).at = frame[r].at
  BY <1>1, <1>5 DEF Evaluated
<1> HIDE DEF f
<1>7. frame' \in [Receivers -> Evaluated] /\ \A r \in Receivers : frame'[r] = f(r)
  BY <1>1, <1>6
<1>8. ScoreKnown'
  BY <1>1, <1>4, <1>6, <1>7 DEF ScoreKnown
<1>9. LoopKnown' /\ FreshKnown'
  BY <1>1, <1>2, <1>6, <1>7 DEF LoopKnown, FreshKnown, Taken
<1> QED
  BY <1>1, <1>3, <1>8, <1>9 DEF FeedsKnown, feedVars, ScreenKnown, Drawn

LEMMA TellHealthStep ==
  ASSUME Inductive, TellHealth
  PROVE  Inductive'
<1> USE DEF Inductive
<1>1. /\ pc = "telling" /\ k \in Receivers
      /\ UNCHANGED <<feedVars, hist, frame, screen>>
  BY DEF TellHealth, LoopKnown
<1>2. k' \in Receivers /\ pc' \in {"telling", "drawing"}
  BY <1>1, AdvanceType DEF TellHealth
<1> QED
  BY <1>1, <1>2
     DEF FeedsKnown, feedVars, LoopKnown, HistoryKnown, FreshKnown,
         ScreenKnown, Drawn, Taken, ScoreKnown

LEMMA DrawStep ==
  ASSUME Inductive, Draw
  PROVE  Inductive'
<1> USE DEF Inductive
<1>1. /\ pc = "drawing" /\ pc' \in {"waiting", "stopping"}
      /\ screen'.rows = [r \in Receivers |-> Row(r)]
      /\ UNCHANGED <<feedVars, hist, k, frame>>
  BY DEF Draw, scoreVars
<1>2. \A r \in Receivers : screen'.rows[r].pos # None => frame[r].fresh
  BY <1>1 DEF Row
<1> QED
  BY <1>1, <1>2
     DEF FeedsKnown, feedVars, LoopKnown, HistoryKnown, FreshKnown,
         ScreenKnown, Taken, ScoreKnown

LEMMA NextInductive == Inductive /\ [Next]_vars => Inductive'
<1> SUFFICES ASSUME Inductive, [Next]_vars PROVE Inductive'
  OBVIOUS
<1>1. ASSUME UNCHANGED <<k, frame, hist, screen>>, FeedsKnown',
             \/ pc' = pc
             \/ pc = "ready" /\ pc' = "waiting"
             \/ pc = "stopping" /\ pc' = "stopped"
      PROVE  Inductive'
  BY <1>1 DEF Inductive, LoopKnown, HistoryKnown, FreshKnown, ScreenKnown,
              Drawn, Taken, ScoreKnown
<1>2. CASE Start \/ RequestStop \/ Teardown \/ UNCHANGED vars
  <2>1. /\ UNCHANGED <<feedVars, k, frame, hist, screen>>
        /\ \/ pc' = pc
           \/ pc = "ready" /\ pc' = "waiting"
           \/ pc = "stopping" /\ pc' = "stopped"
    BY <1>2 DEF Start, RequestStop, Teardown, vars, loopVars, scoreVars
  <2> QED
    BY <1>1, <2>1 DEF Inductive, FeedsKnown, feedVars
<1>3. CASE Feeds
  BY <1>1, <1>3, FeedStep DEF Inductive, loopVars
<1> QED
  BY <1>2, <1>3, BeginStep, SnapshotStep, EvaluateStep, ScoreStep,
     TellHealthStep, DrawStep DEF Next, Loop

\* A position is on the screen only of a receiver that was not disconnected
\* and had sent a sentence within its timeout when it was evaluated, however
\* the feeds changed between the steps of the frame (_evaluate and rows()).
THEOREM CurrentShown == Spec => []ShownIsCurrent
<1>1. Inductive => ShownIsCurrent
  BY DEF Inductive, ScreenKnown, FreshKnown, ShownIsCurrent
<1> QED
  BY <1>1, InitInductive, NextInductive, PTL DEF Spec

-----------------------------------------------------------------------------
(* What the log says, and the types.                                       *)

\* The variables whose types the loop does not depend on.
RestTyped ==
  /\ lastValid \in [Receivers -> Optional(Nat)]
  /\ pc \in {"ready", "waiting", "snapshots", "evaluating", "scoring",
             "telling", "drawing", "stopping", "stopped"}
  /\ stop \in BOOLEAN /\ closing \in BOOLEAN

MemoryTyped ==
  /\ lastStatus \in [Receivers -> Optional(Status)]
  /\ lastConn \in [Receivers -> Optional(Connection)]
  /\ lastFix \in [Receivers -> Optional(BOOLEAN)]
  /\ lastHealth \in [Receivers -> Optional(Health)]

LEMMA TypeParts ==
  ASSUME Inductive
  PROVE  TypeOK <=> RestTyped /\ MemoryTyped /\ LogTyped(events)
BY DEF Inductive, FeedsKnown, LoopKnown, HistoryKnown, TypeOK, RestTyped,
       MemoryTyped, LogTyped

LEMMA RestStep ==
  ASSUME Inductive, Inductive', TypeOK, [Next]_vars
  PROVE  RestTyped'
<1> USE DEF RestTyped
<1>1. RestTyped
  BY TypeParts
<1>2. ASSUME NEW r \in Receivers, LineArrives(r) PROVE RestTyped'
  BY <1>1, <1>2 DEF LineArrives, TypeOK, Optional, loopVars
<1>3. ASSUME NEW r \in Receivers, ConnectionChanges(r) PROVE RestTyped'
  BY <1>1, <1>3 DEF ConnectionChanges, loopVars
<1>4. CASE Tick \/ UNCHANGED vars
  BY <1>1, <1>4 DEF Tick, vars, feedVars, loopVars
<1>5. CASE TakeSnapshot \/ EvaluateReceiver \/ TellHealth
  BY <1>1, <1>5 DEF TakeSnapshot, EvaluateReceiver, TellHealth, Advance,
                    feedVars
<1>6. CASE Start \/ RequestStop \/ BeginFrame \/ BeginLastFrame \/ Score
           \/ Draw \/ Teardown
  BY <1>1, <1>6 DEF Start, RequestStop, BeginFrame, BeginLastFrame, Score,
                    Draw, Teardown, feedVars
<1> QED
  BY <1>2, <1>3, <1>4, <1>5, <1>6 DEF Next, Loop, Feeds

\* A step that tells nothing keeps what was told.
LEMMA QuietStep ==
  ASSUME Inductive, Inductive', Telling, [Next]_vars,
         UNCHANGED <<logVars, lastHealth>>, FrameTold'
  PROVE  Telling'
<1>1. TypeOK'
  BY RestStep, TypeParts DEF Telling, TypeOK, RestTyped, MemoryTyped,
     LogTyped, logVars, Inductive, FeedsKnown, LoopKnown, HistoryKnown
<1> QED
  BY <1>1 DEF Telling, EventsAlternate, LogFollows, logVars

\* An event about the application is about no receiver.
LEMMA AppStep ==
  ASSUME Inductive, Inductive', Telling, [Next]_vars, NEW word \in Says,
         events' = Record(events, AnEvent(App, "app", word)),
         UNCHANGED <<lastStatus, lastConn, lastFix, lastHealth>>, FrameTold'
  PROVE  Telling'
<1> DEFINE event == AnEvent(App, "app", word)
<1>1. /\ event \in Event
      /\ \A r \in Receivers : \A kind : ~About(event, r, kind)
  BY ControllerAssumption
     DEF AnEvent, Event, About, App, Kind, Receivers
<1>2. LogTyped(events)
  BY TypeParts DEF Telling
<1> HIDE DEF event
<1>3. events' = Record(events, event)
  BY DEF event
<1>4. LogTyped(events')
  BY <1>1, <1>2, <1>3, RecordShape, ControllerAssumption DEF LogTyped
<1>5. \A r \in Receivers : \A kind : SameSaid(events, events', r, kind)
  BY <1>1, <1>2, <1>3, RecordOther DEF LogTyped, SameSaid
<1>6. TypeOK'
  <2>1. MemoryTyped'
    BY TypeParts DEF Telling, MemoryTyped
  <2> QED
    BY <1>4, <2>1, RestStep DEF Telling, TypeOK, RestTyped, MemoryTyped,
       LogTyped, Inductive, FeedsKnown, LoopKnown, HistoryKnown
<1>7. EventsAlternate' /\ LogFollows'
  BY <1>5 DEF Telling, EventsAlternate, LogFollows, SameSaid
<1> QED
  BY <1>6, <1>7 DEF Telling

LEMMA EvaluateTells ==
  ASSUME Inductive, Inductive', Telling, EvaluateReceiver
  PROVE  Telling'
<1> DEFINE snap   == frame[k]
           result == Evaluate(k, snap.state, now)
           status == result.status
           f      == [snap EXCEPT !.status = result.status,
                                  !.dist = result.dist, !.at = now,
                                  !.fresh = Fresh(snap.conn, result.status)]
<1>1. /\ pc = "evaluating" /\ k \in Receivers /\ now \in Nat
      /\ frame \in [Receivers -> Evaluated] /\ snap \in Evaluated
      /\ snap.state \in State /\ snap.conn \in Connection
      /\ [Next]_vars
  BY DEF EvaluateReceiver, Inductive, LoopKnown, FeedsKnown, Taken, Next, Loop
<1>2. status \in Status /\ snap.state.hasFix \in BOOLEAN
  BY <1>1, EvaluateType DEF State
<1>3. frame' = [frame EXCEPT ![k] = f]
  BY <1>1, Zenon DEF EvaluateReceiver
<1>4. f.status = status /\ f.conn = snap.conn /\ f.state = snap.state
  <2> HIDE DEF snap, result
  <2> QED
    BY <1>1 DEF Evaluated
<1>5. /\ events' = LogEvaluation(events, k, status, snap.conn, snap.state.hasFix)
      /\ lastStatus' = [lastStatus EXCEPT ![k] = status]
      /\ lastConn' = [lastConn EXCEPT ![k] = snap.conn]
      /\ lastFix' = [lastFix EXCEPT ![k] = snap.state.hasFix]
      /\ UNCHANGED lastHealth
  BY DEF EvaluateReceiver, scoreVars
<1>6. /\ k' \in Receivers
      /\ \/ k < N /\ k' = k + 1 /\ pc' = pc
         \/ k = N /\ k' = 1 /\ pc' = "scoring"
  BY <1>1, AdvanceType DEF EvaluateReceiver
<1> HIDE DEF f, status
<1> DEFINE c == snap.conn  fix == snap.state.hasFix
<1> HIDE DEF c, fix, snap
<1>7. /\ c \in Connection /\ fix \in BOOLEAN
      /\ events' = LogEvaluation(events, k, status, c, fix)
      /\ lastConn' = [lastConn EXCEPT ![k] = c]
      /\ lastFix' = [lastFix EXCEPT ![k] = fix]
      /\ f.conn = c /\ f.state.hasFix = fix
  BY <1>1, <1>2, <1>4, <1>5 DEF c, fix
<1>8. MemoryTyped /\ MemoryTyped'
  BY <1>1, <1>2, <1>5, <1>7, TypeParts DEF Telling, MemoryTyped, Optional
<1>9. /\ lastStatus'[k] = status /\ lastConn'[k] = c /\ lastFix'[k] = fix
      /\ frame'[k] = f
      /\ \A r \in Receivers \ {k} :
           /\ lastStatus'[r] = lastStatus[r] /\ lastConn'[r] = lastConn[r]
           /\ lastFix'[r] = lastFix[r] /\ frame'[r] = frame[r]
  BY <1>1, <1>3, <1>5, <1>7, <1>8 DEF MemoryTyped
<1>10. /\ LogTyped(events')
       /\ LastSays(events', k, "status", {status})
       /\ LastSays(events', k, "connection", ConnWords(c))
       /\ LastSays(events', k, "fix", {FixVerb(fix)})
       /\ Alternates(events', k, "status") /\ Alternates(events', k, "fix")
       /\ SameSaid(events, events', k, "health")
       /\ \A s \in Receivers \ {k} : \A kind :
            SameSaid(events, events', s, kind)
  BY <1>1, <1>2, <1>7, EvaluationLog
<1>11. TypeOK'
  BY <1>1, <1>8, <1>10, RestStep DEF Telling, TypeOK, RestTyped, MemoryTyped,
     LogTyped, Inductive, FeedsKnown, LoopKnown, HistoryKnown
<1>12. EventsAlternate'
  BY <1>1, <1>10 DEF Telling, EventsAlternate, SameSaid
<1>13. LogFollows'
  <2>1. ASSUME NEW r \in Receivers \ {k}
        PROVE
          /\ LastSays(events', r, "status", Words(lastStatus'[r], {lastStatus'[r]}))
          /\ LastSays(events', r, "connection", Words(lastConn'[r], ConnWords(lastConn'[r])))
          /\ LastSays(events', r, "fix", Words(lastFix'[r], {FixVerb(lastFix'[r])}))
          /\ LastSays(events', r, "health", Words(lastHealth'[r], {lastHealth'[r]}))
    BY <1>5, <1>9, <1>10, <2>1 DEF Telling, LogFollows, SameSaid
  <2>2. /\ Words(status, {status}) = {status}
        /\ Words(c, ConnWords(c)) = ConnWords(c)
        /\ Words(fix, {FixVerb(fix)}) = {FixVerb(fix)}
    BY <1>2, <1>7, WordsKnown DEF Words
  <2>3. LastSays(events', k, "health", Words(lastHealth'[k], {lastHealth'[k]}))
    BY <1>1, <1>5, <1>10 DEF Telling, LogFollows, SameSaid
  <2> QED
    BY <1>9, <1>10, <2>1, <2>2, <2>3 DEF LogFollows
<1>14. FrameTold'
  <2>1. \A r \in Receivers \ {k} : EvaluationTold(r)' => EvaluationTold(r)
    BY <1>1, <1>6, ControllerAssumption DEF EvaluationTold, Receivers
  <2>2. \A r \in Receivers : ~HealthTold(r)'
    BY <1>1, <1>6 DEF HealthTold
  <2> QED
    BY <1>2, <1>4, <1>7, <1>9, <2>1, <2>2 DEF Telling, FrameTold
<1> QED
  BY <1>11, <1>12, <1>13, <1>14 DEF Telling

LEMMA TellHealthTells ==
  ASSUME Inductive, Inductive', Telling, TellHealth
  PROVE  Telling'
<1> DEFINE result == frame[k].analysis
           told   == result # None /\ Changed(lastHealth[k], result.state)
           last   == IF result = None THEN lastHealth[k] ELSE result.state
           was    == Words(lastHealth[k], {lastHealth[k]})
           new    == Words(last, {last})
<1>1. /\ pc = "telling" /\ k \in Receivers
      /\ frame[k] \in Evaluated /\ [Next]_vars
      /\ events' = RecordIf(events, told, AnEvent(k, "health", result.state))
      /\ lastHealth' = [lastHealth EXCEPT ![k] = last]
      /\ UNCHANGED <<frame, lastStatus, lastConn, lastFix>>
  BY DEF TellHealth, Inductive, LoopKnown, Next, Loop
<1>2. result # None => result.state \in Health
  BY <1>1 DEF Evaluated, Optional, Scored
<1>3. /\ k' \in Receivers
      /\ \/ k < N /\ k' = k + 1 /\ pc' = pc
         \/ k = N /\ k' = 1 /\ pc' = "drawing"
  BY <1>1, AdvanceType DEF TellHealth
<1>4. /\ told \in BOOLEAN
      /\ told => result.state \in Says /\ result.state \in new
                 /\ result.state \notin was
      /\ ~told => was \subseteq new
  <2>1. result # None => result.state # None
    BY <1>2, WordsKnown
  <2> QED
    BY <1>2, <2>1 DEF Changed, Words, Says
<1>5. /\ LogTyped(events) /\ LastSays(events, k, "health", was)
      /\ Alternates(events, k, "health") /\ "health" \in Kind
  BY <1>1, TypeParts DEF Telling, LogFollows, EventsAlternate, Kind
<1>6. MemoryTyped /\ last \in Optional(Health)
  BY <1>1, <1>2, TypeParts DEF Telling, MemoryTyped, Optional
<1> DEFINE word == result.state
<1> HIDE DEF was, new, told, word
<1>7. /\ LogTyped(events')
      /\ LastSays(events', k, "health", new)
      /\ Alternates(events', k, "health")
      /\ \A s, other : s # k \/ other # "health" =>
           SameSaid(events, events', s, other)
  <2>1. /\ events' = RecordIf(events, told, AnEvent(k, "health", word))
        /\ told => word \in Says /\ word \in new /\ word \notin was
    BY <1>1, <1>4 DEF word
  <2> QED
    BY <1>1, <1>4, <1>5, <2>1, Tell
<1> HIDE DEF last
<1>8. /\ lastHealth'[k] = last
      /\ \A r \in Receivers \ {k} : lastHealth'[r] = lastHealth[r]
  BY <1>1, <1>6 DEF MemoryTyped
<1>9. TypeOK'
  <2>1. MemoryTyped'
    BY <1>1, <1>6 DEF MemoryTyped
  <2> QED
    BY <1>1, <1>7, <2>1, RestStep DEF Telling, TypeOK, RestTyped, MemoryTyped,
       LogTyped, Inductive, FeedsKnown, LoopKnown, HistoryKnown
<1>10. EventsAlternate'
  BY <1>1, <1>7 DEF Telling, EventsAlternate, SameSaid
<1>11. LogFollows'
  BY <1>1, <1>7, <1>8 DEF Telling, LogFollows, SameSaid, new
<1>12. FrameTold'
  <2>1. \A r \in Receivers :
          /\ EvaluationTold(r)
          /\ HealthTold(r)' => HealthTold(r) \/ r = k
    BY <1>1, <1>3, ControllerAssumption
       DEF EvaluationTold, HealthTold, Receivers
  <2>2. frame[k].analysis # None => last = frame[k].analysis.state
    BY DEF last
  <2> QED
    BY <1>1, <1>8, <2>1, <2>2 DEF Telling, FrameTold
<1> QED
  BY <1>9, <1>10, <1>11, <1>12 DEF Telling

LEMMA InitTelling == Init => Telling
<1> SUFFICES ASSUME Init PROVE Telling
  OBVIOUS
<1>1. RestTyped /\ MemoryTyped
  BY DEF Init, RestTyped, MemoryTyped, Optional
<1>2. LogTyped(events) /\ events = <<>> /\ Len(events) = 0
  BY ControllerAssumption DEF Init, LogTyped
<1>3. TypeOK
  BY <1>1, <1>2, InitInductive, TypeParts
<1>4. EventsAlternate /\ LogFollows
  BY <1>2 DEF EventsAlternate, Alternates, LogFollows, LastSays
<1>5. FrameTold
  BY DEF Init, FrameTold, EvaluationTold, HealthTold
<1> QED
  BY <1>3, <1>4, <1>5 DEF Telling

LEMMA NextTelling ==
  Inductive /\ Inductive' /\ Telling /\ [Next]_vars => Telling'
<1> SUFFICES ASSUME Inductive, Inductive', Telling, [Next]_vars PROVE Telling'
  OBVIOUS
<1>1. CASE Feeds \/ RequestStop \/ Teardown \/ UNCHANGED vars
  <2>1. /\ UNCHANGED <<k, frame, logVars, lastHealth>>
        /\ pc' = pc \/ pc' = "stopped"
    BY <1>1 DEF Feeds, ConnectionChanges, LineArrives, Tick, RequestStop,
                Teardown, vars, loopVars, scoreVars
  <2>2. FrameTold'
    BY <2>1 DEF Telling, FrameTold, EvaluationTold, HealthTold, logVars
  <2> QED
    BY <2>1, <2>2, QuietStep
<1>2. CASE BeginFrame \/ Draw
  <2>1. /\ pc' \in {"snapshots", "waiting", "stopping"}
        /\ UNCHANGED <<logVars, lastHealth>>
    BY <1>2 DEF BeginFrame, Draw, scoreVars
  <2> QED
    BY <2>1, QuietStep DEF FrameTold, EvaluationTold, HealthTold
<1>3. CASE TakeSnapshot
  <2>1. /\ pc = "snapshots" /\ k \in Receivers
        /\ UNCHANGED <<logVars, lastHealth>>
    BY <1>3 DEF TakeSnapshot, scoreVars, Inductive, LoopKnown
  <2>2. pc' = "snapshots" \/ (pc' = "evaluating" /\ k' = 1)
    BY <1>3, <2>1 DEF TakeSnapshot, Advance
  <2>3. \A r \in Receivers : ~EvaluationTold(r)' /\ ~HealthTold(r)'
    BY <2>2, ControllerAssumption DEF EvaluationTold, HealthTold, Receivers
  <2>4. FrameTold'
    BY <2>3 DEF FrameTold
  <2> QED
    BY <2>1, <2>4, QuietStep
<1>4. CASE Score
  <2>1. /\ pc = "scoring" /\ pc' = "telling" /\ k' = 1
        /\ UNCHANGED <<logVars, lastHealth>>
        /\ \A r \in Receivers :
             /\ frame'[r].conn = frame[r].conn
             /\ frame'[r].status = frame[r].status
             /\ frame'[r].state = frame[r].state
    BY <1>4 DEF Score, Inductive, LoopKnown, Evaluated
  <2>2. \A r \in Receivers : EvaluationTold(r) /\ ~HealthTold(r)'
    BY <2>1, ControllerAssumption DEF EvaluationTold, HealthTold, Receivers
  <2>3. FrameTold'
    BY <2>1, <2>2 DEF Telling, FrameTold, logVars
  <2> QED
    BY <2>1, <2>3, QuietStep
<1>5. CASE Start \/ BeginLastFrame
  <2>1. /\ \E word \in Says :
             events' = Record(events, AnEvent(App, "app", word))
        /\ UNCHANGED <<lastStatus, lastConn, lastFix, lastHealth>>
        /\ pc' \in {"waiting", "snapshots"}
    BY <1>5 DEF Start, BeginLastFrame, scoreVars, Says
  <2>2. FrameTold'
    BY <2>1 DEF FrameTold, EvaluationTold, HealthTold
  <2> QED
    BY <2>1, <2>2, AppStep
<1> QED
  BY <1>1, <1>2, <1>3, <1>4, <1>5, EvaluateTells, TellHealthTells
     DEF Next, Loop

-----------------------------------------------------------------------------
(* What the screen shows.                                                  *)

\* The rows are made after everything about them was told.
LEMMA DrawnMatches ==
  ASSUME Inductive, Telling, Draw
  PROVE  LogTellsTheScreen' /\ ScoreMatchesRow'
<1>1. /\ pc = "drawing" /\ screen' = [rows |-> [r \in Receivers |-> Row(r)],
                                       events |-> events]
      /\ screen'.events = events
      /\ \A r \in Receivers : screen'.rows[r] = Row(r)
  BY DEF Draw
<1>2. ASSUME NEW r \in Receivers
      PROVE  /\ LastSays(events, r, "status", {Row(r).status})
             /\ Row(r).hasFix # None =>
                  LastSays(events, r, "fix", {FixVerb(Row(r).hasFix)})
             /\ LastSays(events, r, "connection", ConnWords(Row(r).conn))
             /\ Row(r).analysis # None =>
                  LastSays(events, r, "health", {Row(r).analysis.state})
  <2>1. /\ frame[r] \in Evaluated /\ frame[r].state \in State
    BY <1>1 DEF Inductive, LoopKnown, Taken
  <2>2. /\ frame[r].conn \in Connection /\ frame[r].status \in Status
        /\ lastStatus[r] = frame[r].status /\ lastConn[r] = frame[r].conn
        /\ lastFix[r] = frame[r].state.hasFix
        /\ frame[r].analysis # None =>
             lastHealth[r] = frame[r].analysis.state
    BY <1>1 DEF Telling, FrameTold, EvaluationTold, HealthTold
  <2>3. /\ frame[r].status # None /\ frame[r].conn # None
        /\ frame[r].state.hasFix # None
        /\ frame[r].analysis # None => frame[r].analysis.state # None
    BY <2>1, <2>2, WordsKnown DEF Evaluated, Optional, Scored, State
  <2>4. /\ LastSays(events, r, "status", {frame[r].status})
        /\ LastSays(events, r, "connection", ConnWords(frame[r].conn))
        /\ LastSays(events, r, "fix", {FixVerb(frame[r].state.hasFix)})
        /\ frame[r].analysis # None =>
             LastSays(events, r, "health", {frame[r].analysis.state})
    BY <2>2, <2>3 DEF Telling, LogFollows, Words
  <2>5. /\ Row(r).status = frame[r].status /\ Row(r).conn = frame[r].conn
        /\ Row(r).analysis = frame[r].analysis
        /\ Row(r).hasFix # None => Row(r).hasFix = frame[r].state.hasFix
    BY DEF Row
  <2> QED
    BY <2>4, <2>5
<1>3. LogTellsTheScreen'
  BY <1>1, <1>2 DEF LogTellsTheScreen, ConnWords
<1>4. ASSUME NEW r \in Receivers, Row(r).analysis # None
      PROVE  /\ Row(r).analysis.points.no_fix = NoFix(Row(r))
             /\ Row(r).analysis.points.position_offset = PositionOffset(Row(r))
  <2>1. frame[r].analysis # None /\ frame[r].fresh
    BY <1>4 DEF Row, Inductive, ScoreKnown
  <2>2. /\ Row(r).hasFix = frame[r].state.hasFix
        /\ Row(r).pos = frame[r].state.pos
        /\ Row(r).analysis = frame[r].analysis
    BY <2>1 DEF Row
  <2>3. NoFix(Row(r)) = NoFix(frame[r].state)
        /\ PositionOffset(Row(r)) = PositionOffset(frame[r].state)
    BY <2>2 DEF NoFix, PositionOffset
  <2> QED
    BY <2>1, <2>2, <2>3 DEF Inductive, ScoreKnown
<1>5. ScoreMatchesRow'
  BY <1>1, <1>4 DEF ScoreMatchesRow
<1> QED
  BY <1>3, <1>5

LEMMA ScreenStep ==
  Inductive /\ Telling /\ LogTellsTheScreen /\ ScoreMatchesRow /\ [Next]_vars
    => LogTellsTheScreen' /\ ScoreMatchesRow'
<1> SUFFICES ASSUME Inductive, Telling, LogTellsTheScreen, ScoreMatchesRow,
                    [Next]_vars, ~Draw
             PROVE  LogTellsTheScreen' /\ ScoreMatchesRow'
  BY DrawnMatches
<1>1. UNCHANGED screen
  BY DEF Next, Loop, Feeds, Start, RequestStop, BeginFrame, BeginLastFrame,
         TakeSnapshot, EvaluateReceiver, Score, TellHealth, Teardown,
         ConnectionChanges, LineArrives, Tick, vars
<1> QED
  BY <1>1 DEF LogTellsTheScreen, ScoreMatchesRow

LEMMA Told == Spec => [](Inductive /\ Telling)
BY InitInductive, NextInductive, InitTelling, NextTelling, PTL DEF Spec

\* Every variable keeps to its type, and the log to its capacity, whatever
\* the feeds publish (EventLog's deque, the controller's fields).
THEOREM TypeCorrect == Spec => []TypeOK
<1>1. Telling => TypeOK
  BY DEF Telling
<1> QED
  BY <1>1, Told, PTL

\* The log never tells one change of status, fix or health twice in a row,
\* even when older events have made room (_record_evaluation_events,
\* _analysis_results).
THEOREM ChangesAlternate == Spec => []EventsAlternate
<1>1. Telling => EventsAlternate
  BY DEF Telling
<1> QED
  BY <1>1, Told, PTL

\* The events on a screen and its rows agree: what was said last of a
\* receiver's status, connection, fix and health is what its row shows.
THEOREM ScreenConsistent == Spec => []LogTellsTheScreen
<1>1. Init => LogTellsTheScreen /\ ScoreMatchesRow
  BY DEF Init, LogTellsTheScreen, ScoreMatchesRow
<1> QED
  BY <1>1, Told, ScreenStep, PTL DEF Spec

\* The score on a screen is the score of the fix and the position beside it,
\* for any weights and radii (update(), evaluate_all(), rows()).
THEOREM ScoresMatch == Spec => []ScoreMatchesRow
<1>1. Init => LogTellsTheScreen /\ ScoreMatchesRow
  BY DEF Init, LogTellsTheScreen, ScoreMatchesRow
<1> QED
  BY <1>1, Told, ScreenStep, PTL DEF Spec
=============================================================================
