---------------------------- MODULE ScoringProofs ----------------------------
(***************************************************************************)
(* What is proved of the scoring engine, for every configuration that its  *)
(* validators accept and every sequence of readings.                       *)
(***************************************************************************)
EXTENDS ScoringWorld, Folding

\* What the validators guarantee of the settings, one by one.
LEMMA SettingsKnown ==
  /\ Settings.noFix \in Nat /\ Settings.warningRadius \in Nat
  /\ Settings.failureRadius \in Nat /\ Settings.weightWarning \in Nat
  /\ Settings.weightFailure \in Nat /\ Settings.stationarySpeed \in Nat
  /\ Settings.warningSpeed \in Nat /\ Settings.speedWeight \in Nat
  /\ Settings.minimum \in Nat /\ Settings.suddenDrop \in Nat
  /\ Settings.satellitesWeight \in Nat /\ Settings.hdopWarning \in Nat
  /\ Settings.hdopCritical \in Nat /\ Settings.hdopWeight \in Nat
  /\ Settings.maxJump \in Nat /\ Settings.timeWeight \in Nat
  /\ Settings.maxDistance \in Nat /\ Settings.disagreementWeight \in Nat
  /\ Settings.warning \in Nat /\ Settings.potential \in Nat
  /\ Settings.spoofing \in Nat
  /\ Settings.stationarySpeed < Settings.warningSpeed
  /\ Settings.hdopWarning < Settings.hdopCritical
  /\ Settings.warning < Settings.potential
  /\ Settings.potential < Settings.spoofing
BY ScoringAssumption DEF AnalysisConfig

LEMMA SignalKnown ==
  Settings.signal # None =>
    /\ Settings.signal.minTracked \in Nat \ {0}
    /\ Settings.signal.uniformStd \in Nat
    /\ Settings.signal.uniformMean \in Int
    /\ Settings.signal.maxMean \in Int
    /\ Settings.signal.weight \in Nat
BY ScoringAssumption DEF AnalysisConfig, Optional

LEMMA InitType == Init => TypeOK
BY FS_EmptySet DEF Init, TypeOK

LEMMA NextType == TypeOK /\ [Next]_history => TypeOK'
<1> SUFFICES ASSUME TypeOK, [Next]_history PROVE TypeOK'
  OBVIOUS
<1>1. CASE UNCHANGED history
  BY <1>1 DEF TypeOK
<1>2. ASSUME NEW r \in Ids, NEW sample \in Samples, Update(r, sample)
      PROVE  TypeOK'
  <2> DEFINE D == DOMAIN history
             H == [current : Sample, previous : Optional(Sample)]
             old == IF r \in D THEN history[r] ELSE NoHistory
             new == Push(old, sample)
  <2>1. new \in H
    BY WorldAssumption DEF TypeOK, Push, NoHistory, Optional
  <2>2. history' = [q \in D \cup {r} |-> IF q = r THEN new ELSE history[q]]
    BY <1>2 DEF Update
  <2>3. D \cup {r} \in SUBSET Ids /\ IsFiniteSet(D \cup {r})
    BY FS_AddElement DEF TypeOK
  <2>4. \A q \in D : history[q] \in H
    BY DEF TypeOK
  <2>5. history' \in [D \cup {r} -> H] /\ DOMAIN history' = D \cup {r}
    <3> HIDE DEF new, H
    <3> QED BY <2>1, <2>2, <2>4
  <2> QED
    <3> HIDE DEF D
    <3> QED BY <2>3, <2>5 DEF TypeOK
<1> QED
  BY <1>1, <1>2 DEF Next

LEMMA SpecType == Spec => []TypeOK
BY InitType, NextType, PTL DEF Spec

-----------------------------------------------------------------------------

\* A difference of two times of day, modulo a day.
LEMMA DayModulo ==
  ASSUME NEW D \in Nat \ {0}, NEW d \in Int, -D < d, d < D
  PROVE  d % D = IF d >= 0 THEN d ELSE d + D
OBVIOUS

\* The short way around the clock is what the time rule measures.
LEMMA ShortWay ==
  ASSUME NEW a \in 0..(Day - 1), NEW b \in 0..(Day - 1)
  PROVE  AbsDiff(ShortestTimeDelta(a, b), 0) = Apart(a, b)
<1> DEFINE x == (a - b) % Day
           y == (b - a) % Day
           d == a - b
<1>0. Day \in Nat \ {0}
  BY ScoringAssumption
<1>1. /\ d \in Int /\ -Day < d /\ d < Day
      /\ x = (IF d >= 0 THEN d ELSE d + Day)
      /\ y = (IF -d >= 0 THEN -d ELSE Day - d)
  <2>1. d \in Int /\ -Day < d /\ d < Day /\ b - a = -d
    BY <1>0
  <2>2. d % Day = IF d >= 0 THEN d ELSE d + Day
    <3> HIDE DEF d
    <3> QED BY <1>0, <2>1, DayModulo
  <2>3. (-d) % Day = IF -d >= 0 THEN -d ELSE -d + Day
    <3> DEFINE e == -d
    <3>1. e \in Int /\ -Day < e /\ e < Day
      BY <2>1, <1>0
    <3> HIDE DEF e
    <3>2. e % Day = IF e >= 0 THEN e ELSE e + Day
      BY <1>0, <3>1, DayModulo
    <3> QED BY <3>2 DEF e
  <2> QED
    BY <1>0, <2>1, <2>2, <2>3
<1> HIDE DEF x, y
<1>2. x \in Int /\ y \in Int
  BY <1>0, <1>1
<1>3. Apart(a, b) = IF x <= y THEN x ELSE y
  BY <1>2 DEF Apart, x, y
<1>4. ShortestTimeDelta(a, b) =
        IF 2 * d > Day THEN d - Day ELSE IF 2 * d < -Day THEN d + Day ELSE d
  BY DEF ShortestTimeDelta
<1> HIDE DEF d
<1> QED
  BY <1>0, <1>1, <1>3, <1>4 DEF AbsDiff

\* The time rule is not fooled by midnight, whatever the length of the day.
LEMMA JumpStep == TypeOK => JumpIsShortWay
<1> SUFFICES ASSUME TypeOK, NEW r \in DOMAIN history
             PROVE  LET s == history[r].current
                        p == history[r].previous
                    IN  TimeDiscontinuity(s, p) =
                          IF /\ p # None /\ p.utc # None /\ s.utc # None
                             /\ Apart(s.utc, p.utc) > Settings.maxJump
                          THEN Settings.timeWeight ELSE 0
  BY DEF JumpIsShortWay, Scored, Result, Outcomes
<1> DEFINE s == history[r].current
           p == history[r].previous
<1>1. s \in Sample /\ (p # None => p \in Sample)
  BY DEF TypeOK, Optional
<1> HIDE DEF s, p
<1>2. CASE p # None /\ p.utc # None /\ s.utc # None
  <2>1. s.utc \in 0..(Day - 1) /\ p.utc \in 0..(Day - 1)
    BY <1>1, <1>2 DEF Sample, Optional
  <2>2. AbsDiff(ShortestTimeDelta(s.utc, p.utc), 0) = Apart(s.utc, p.utc)
    BY <2>1, ShortWay
  <2> QED
    BY <1>2, <2>2 DEF TimeDiscontinuity, Jumped, s, p
<1>3. CASE ~(p # None /\ p.utc # None /\ s.utc # None)
  BY <1>3 DEF TimeDiscontinuity, Jumped, s, p
<1> QED
  BY <1>2, <1>3

\* The time rule scores exactly the jumps that are longer than allowed by the
\* short way around the clock, for every length of a day.
THEOREM MidnightIsNoJump == Spec => []JumpIsShortWay
BY SpecType, JumpStep, PTL

-----------------------------------------------------------------------------

\* A reference receiver is never among those whose positions are compared.
LEMMA ReferencesApart ==
  ASSUME NEW hist, NEW reference
  PROVE  /\ FixedReceivers(hist, reference) \subseteq DOMAIN hist
         /\ FixedReceivers(hist, reference) \cap reference = {}
BY DEF FixedReceivers

LEMMA NeutralStep == ReferencesNeutral
<1> SUFFICES ASSUME NEW r \in DOMAIN history
             PROVE  LET others == [q \in (DOMAIN history \ References) \cup {r}
                                     |-> history[q]]
                    IN  /\ Scored(history, r) = Scored(others, r)
                        /\ r \in References =>
                             Scored(history, r).points.disagreement = 0
  BY DEF ReferencesNeutral
<1> DEFINE rest == (DOMAIN history \ References) \cup {r}
           others == [q \in rest |-> history[q]]
           fixed == FixedReceivers(history, References)
<1>1. \A q \in rest : others[q] = history[q]
  OBVIOUS
<1>2. DOMAIN others = rest /\ fixed \subseteq rest /\ r \in rest
  BY DEF FixedReceivers
<1>3. FixedReceivers(others, References) = fixed
  BY <1>1, <1>2 DEF FixedReceivers
<1> HIDE DEF others, fixed
<1>4. [o \in fixed \ {r} |-> others[o].current.pos] =
        [o \in fixed \ {r} |-> history[o].current.pos]
  BY <1>1, <1>2
<1>5. Disagreement(r, others, fixed) = Disagreement(r, history, fixed)
  BY <1>1, <1>2, <1>4 DEF Disagreement
<1>6. Outcomes(r, others, fixed) = Outcomes(r, history, fixed)
  BY <1>1, <1>2, <1>5, Zenon DEF Outcomes
<1>7. Scored(history, r) = Scored(others, r)
  BY <1>3, <1>6 DEF Scored, Result, fixed
<1>8. ASSUME r \in References
      PROVE  Scored(history, r).points.disagreement = 0
  <2>1. r \notin fixed
    BY <1>8, ReferencesApart DEF fixed
  <2> QED
    BY <2>1 DEF Scored, Result, Outcomes, Disagreement, fixed
<1> QED
  BY <1>7, <1>8 DEF others

\* What a reference receiver reports never moves the score of another one, and
\* it is never scored for disagreeing itself.
THEOREM ReferencesAreNeutral == Spec => []ReferencesNeutral
<1>1. TypeOK => ReferencesNeutral
  BY NeutralStep
<1> QED
  BY <1>1, SpecType, PTL

-----------------------------------------------------------------------------

LEMMA TimesMonotone ==
  ASSUME NEW a \in Int, NEW b \in Int, NEW n \in Nat, a <= b
  PROVE  n * a <= n * b
OBVIOUS

\* Dividing by the same number keeps the order, and undoes a multiplication.
LEMMA DivMonotone ==
  ASSUME NEW a \in Nat, NEW b \in Nat, NEW n \in Nat \ {0}, a <= b
  PROVE  a \div n \in Nat /\ b \div n \in Nat /\ a \div n <= b \div n
<1>1. /\ a \div n \in Nat /\ a % n \in 0..(n - 1) /\ a = n * (a \div n) + (a % n)
      /\ b \div n \in Nat /\ b % n \in 0..(n - 1) /\ b = n * (b \div n) + (b % n)
  OBVIOUS
<1> DEFINE p == a \div n
           q == b \div n
<1>2. ASSUME p >= q + 1 PROVE FALSE
  <2>1. n * (q + 1) <= n * p
    <3> HIDE DEF p, q
    <3> QED BY <1>1, <1>2, TimesMonotone DEF p, q
  <2>2. n * (q + 1) = n * q + n
    BY <1>1
  <2> QED
    BY <1>1, <2>1, <2>2
<1> QED
  BY <1>1, <1>2

LEMMA DivCancels ==
  ASSUME NEW w \in Nat, NEW n \in Nat \ {0}
  PROVE  (w * n) \div n = w
OBVIOUS

\* A ramp rises.
LEMMA RampMonotone ==
  ASSUME NEW v \in Nat, NEW low \in Nat, NEW high \in Nat, low < high,
         NEW weight \in Nat
  PROVE  /\ Ramp(v, low, high, weight) \in Nat
         /\ Ramp(v + 1, low, high, weight) \in Nat
         /\ Ramp(v, low, high, weight) <= Ramp(v + 1, low, high, weight)
<1> DEFINE n == high - low
           At(x) == (weight * (x - low)) \div n
<1>0. n \in Nat \ {0}
  OBVIOUS
<1>1. ASSUME NEW x \in low..high, NEW y \in low..high, x <= y
      PROVE  At(x) \in Nat /\ At(y) \in Nat /\ At(x) <= At(y)
  <2>1. /\ weight * (x - low) \in Nat /\ weight * (y - low) \in Nat
        /\ weight * (x - low) <= weight * (y - low)
    <3> DEFINE a == x - low
               b == y - low
    <3>1. a \in Nat /\ b \in Nat /\ a <= b
      BY <1>1
    <3> HIDE DEF a, b
    <3>2. weight * a \in Nat /\ weight * b \in Nat /\ weight * a <= weight * b
      BY <3>1, TimesMonotone
    <3> QED BY <3>2 DEF a, b
  <2> HIDE DEF n
  <2> QED
    BY <1>0, <2>1, DivMonotone
<1>2. At(high) = weight
  <2>1. weight * (high - low) = weight * n
    OBVIOUS
  <2> HIDE DEF n
  <2> QED BY <1>0, <2>1, DivCancels
<1> HIDE DEF At
<1>3. ASSUME NEW x \in Nat
      PROVE  Ramp(x, low, high, weight) =
               IF x <= low THEN 0 ELSE IF x >= high THEN weight ELSE At(x)
  BY DEF Ramp, At
<1> QED
  BY <1>1, <1>2, <1>3

\* What the readings of Worsenings have in common, and the four ways in which
\* one of them is worse.
LEMMA WorseIs ==
  ASSUME NEW s \in Sample, NEW worse \in Worsenings(s)
  PROVE  /\ worse \in Sample
         /\ worse.hasFix = s.hasFix /\ worse.pos = s.pos
         /\ worse.utc = s.utc
         /\ worse.speed # s.speed => worse.speed = s.speed + 1
         /\ worse.speed = None <=> s.speed = None
         /\ worse.hdop # s.hdop => worse.hdop = s.hdop + 1
         /\ worse.hdop = None <=> s.hdop = None
         /\ worse.sats # s.sats => s.sats # 0 /\ worse.sats = s.sats - 1
         /\ worse.sats = None <=> s.sats = None
         /\ worse.cn0 # s.cn0 =>
              worse.cn0 = [i \in DOMAIN s.cn0 |-> s.cn0[i] + 1]
<1>1. worse \in Sample
  <2>1. /\ (IF s.speed = None THEN None ELSE s.speed + 1) \in Optional(Nat)
        /\ (IF s.hdop = None THEN None ELSE s.hdop + 1) \in Optional(Nat)
        /\ (IF s.sats = None \/ s.sats = 0 THEN s.sats ELSE s.sats - 1)
             \in Optional(Nat)
        /\ [i \in DOMAIN s.cn0 |-> s.cn0[i] + 1] \in Seq(Nat)
    <3>1. s.speed \in Optional(Nat) /\ s.hdop \in Optional(Nat)
          /\ s.sats \in Optional(Nat) /\ s.cn0 \in Seq(Nat)
      BY DEF Sample
    <3>2. ASSUME NEW x \in Optional(Nat)
          PROVE  /\ (IF x = None THEN None ELSE x + 1) \in Optional(Nat)
                 /\ (IF x = None \/ x = 0 THEN x ELSE x - 1) \in Optional(Nat)
      BY DEF Optional
    <3>3. ASSUME NEW c \in Seq(Nat)
          PROVE  [i \in DOMAIN c |-> c[i] + 1] \in Seq(Nat)
      OBVIOUS
    <3> QED BY <3>1, <3>2, <3>3
  <2>2. \A f \in Optional(Nat) :
          /\ [s EXCEPT !.speed = f] \in Sample
          /\ [s EXCEPT !.hdop = f] \in Sample
          /\ [s EXCEPT !.sats = f] \in Sample
    BY DEF Sample
  <2>3. \A c \in Seq(Nat) : [s EXCEPT !.cn0 = c] \in Sample
    BY DEF Sample
  <2> QED
    BY <2>1, <2>2, <2>3, Zenon DEF Worsenings
<1>2. s.cn0 \in Seq(Nat) /\ s.speed \in Nat \cup {None}
      /\ s.hdop \in Nat \cup {None} /\ s.sats \in Nat \cup {None}
  BY DEF Sample, Optional
<1>3. s = [hasFix |-> s.hasFix, pos |-> s.pos, sats |-> s.sats,
           hdop |-> s.hdop, speed |-> s.speed, utc |-> s.utc, cn0 |-> s.cn0]
  BY DEF Sample
<1>4. CASE worse = [s EXCEPT !.speed = IF s.speed = None THEN None ELSE s.speed + 1]
  BY <1>1, <1>2, <1>3, <1>4, NoneAssumption
<1>5. CASE worse = [s EXCEPT !.hdop = IF s.hdop = None THEN None ELSE s.hdop + 1]
  BY <1>1, <1>2, <1>3, <1>5, NoneAssumption
<1>6. CASE worse = [s EXCEPT !.sats = IF s.sats = None \/ s.sats = 0
                                        THEN s.sats ELSE s.sats - 1]
  BY <1>1, <1>2, <1>3, <1>6, NoneAssumption
<1>7. CASE worse = [s EXCEPT !.cn0 = [i \in DOMAIN s.cn0 |-> s.cn0[i] + 1]]
  BY <1>1, <1>3, <1>7
<1> QED
  BY <1>4, <1>5, <1>6, <1>7 DEF Worsenings

-----------------------------------------------------------------------------

\* The sum of the signal strengths, as a recursion over the satellites.
LEMMA SumOfReadings ==
  ASSUME NEW n \in Nat, NEW v \in [1..n -> Int]
  PROVE  \E f \in [SUBSET (1..n) -> Int] :
           FoldLeft(+, 0, v) = f[1..n] /\ Sums(f, 1..n, v, Top(n))
<1> DEFINE Recursion(f) ==
             f = [s \in SUBSET (1..n) |->
                    IF s = {} THEN 0 ELSE f[s \ {Max(s)}] + v[Max(s)]]
           it == CHOOSE f : Recursion(f)
<1>1. PICK f \in [SUBSET (1..n) -> Int] :
        /\ Sums(f, 1..n, v, Top(n)) /\ Accumulates(f, n, v)
        /\ \A g : Accumulates(g, n, v) => g[1..n] = f[1..n]
  BY Accumulation
<1>2. Accumulates(it, n, v)
  BY <1>1 DEF Accumulates
<1>3. DOMAIN v = 1..n /\ FoldLeft(+, 0, v) = it[1..n]
  BY DEF FoldLeft, MapThenFoldSet
<1> HIDE DEF it
<1> QED
  BY <1>1, <1>2, <1>3

\* ... and that of their squares.
LEMMA SumOfSquares ==
  ASSUME NEW n \in Nat, NEW v \in [1..n -> Int]
  PROVE  \E f \in [SUBSET (1..n) -> Int] :
           /\ FoldLeft(LAMBDA total, c : total + c * c, 0, v) = f[1..n]
           /\ Sums(f, 1..n, [i \in 1..n |-> v[i] * v[i]], Top(n))
<1> DEFINE w == [i \in 1..n |-> v[i] * v[i]]
           Recursion(f) ==
             f = [s \in SUBSET (1..n) |->
                    IF s = {} THEN 0
                    ELSE f[s \ {Max(s)}] + v[Max(s)] * v[Max(s)]]
           it == CHOOSE f : Recursion(f)
<1>0. w \in [1..n -> Int]
  OBVIOUS
<1>1. PICK f \in [SUBSET (1..n) -> Int] :
        /\ Sums(f, 1..n, w, Top(n)) /\ Accumulates(f, n, w)
        /\ \A g : Accumulates(g, n, w) => g[1..n] = f[1..n]
  <2> HIDE DEF w
  <2> QED BY <1>0, Accumulation
<1>2. \A s \in SUBSET (1..n) : s # {} => w[Max(s)] = v[Max(s)] * v[Max(s)]
  BY <1>0, Accumulation
<1>3. \A g : Recursion(g) <=> Accumulates(g, n, w)
  <2> HIDE DEF w
  <2> QED BY <1>2 DEF Accumulates
<1>4. Accumulates(it, n, w)
  <2> HIDE DEF Recursion, w
  <2> QED BY <1>1, <1>3
<1>5. /\ DOMAIN v = 1..n
      /\ FoldLeft(LAMBDA total, c : total + c * c, 0, v) = it[1..n]
  BY DEF FoldLeft, MapThenFoldSet
<1> HIDE DEF it
<1> QED
  BY <1>1, <1>4, <1>5

\* One more on every satellite adds their number to the sum, and leaves
\* n * square - sum * sum, the variance, what it was.
LEMMA StrongerSums ==
  ASSUME NEW n \in Nat, NEW v \in [1..n -> Int], NEW w \in [1..n -> Int],
         \A i \in 1..n : w[i] = v[i] + 1
  PROVE  LET Sum(c) == FoldLeft(+, 0, c)
             Square(c) == FoldLeft(LAMBDA total, x : total + x * x, 0, c)
         IN  /\ Sum(v) \in Int /\ Square(v) \in Int
             /\ Sum(w) = Sum(v) + n
             /\ Square(w) = Square(v) + 2 * Sum(v) + n
<1> DEFINE I == 1..n
           pick == Top(n)
           v2 == [i \in I |-> v[i] * v[i]]
           w2 == [i \in I |-> w[i] * w[i]]
<1>1. PICK f \in [SUBSET I -> Int] :
        FoldLeft(+, 0, v) = f[I] /\ Sums(f, I, v, pick)
  BY SumOfReadings
<1>2. PICK g \in [SUBSET I -> Int] :
        FoldLeft(+, 0, w) = g[I] /\ Sums(g, I, w, pick)
  BY SumOfReadings
<1>3. PICK f2 \in [SUBSET I -> Int] :
        /\ FoldLeft(LAMBDA total, x : total + x * x, 0, v) = f2[I]
        /\ Sums(f2, I, v2, pick)
  BY SumOfSquares
<1>4. PICK g2 \in [SUBSET I -> Int] :
        /\ FoldLeft(LAMBDA total, x : total + x * x, 0, w) = g2[I]
        /\ Sums(g2, I, w2, pick)
  BY SumOfSquares
<1>5. Picks(pick, I) /\ IsFiniteSet(I) /\ Cardinality(I) = n
  BY TopPicks, FS_Interval
<1>6. f[{}] = 0 /\ g[{}] = 0 /\ f2[{}] = 0 /\ g2[{}] = 0
  BY <1>1, <1>2, <1>3, <1>4 DEF Sums
<1>7. ASSUME NEW s \in SUBSET I, s # {}
      PROVE  LET x == pick[s]
                 q == s \ {pick[s]}
             IN  /\ v[x] \in Int /\ q \in SUBSET I /\ Cardinality(q) \in Nat
                 /\ Cardinality(s) = Cardinality(q) + 1
                 /\ f[s] = v[x] + f[q] /\ g[s] = v[x] + 1 + g[q]
                 /\ f2[s] = v[x] * v[x] + f2[q]
                 /\ g2[s] = (v[x] + 1) * (v[x] + 1) + g2[q]
  <2> DEFINE x == pick[s]
             q == s \ {x}
  <2>1. x \in I /\ q \in SUBSET I
    BY <1>5, <1>7 DEF Picks
  <2>2. f[s] = v[x] + f[q] /\ g[s] = w[x] + g[q]
    BY <1>1, <1>2, <1>7 DEF Sums
  <2>3. f2[s] = v2[x] + f2[q] /\ g2[s] = w2[x] + g2[q]
    BY <1>3, <1>4, <1>7 DEF Sums
  <2>4. v2[x] = v[x] * v[x] /\ w[x] = v[x] + 1
        /\ w2[x] = (v[x] + 1) * (v[x] + 1)
    BY <2>1
  <2>5. /\ Cardinality(q) \in Nat
        /\ Cardinality(s) = Cardinality(q) + 1
    <3>1. Shrinks(I, pick)
      <4> HIDE DEF I, pick
      <4> QED BY <1>5, PicksShrink
    <3> QED BY <1>7, <3>1 DEF Shrinks
  <2> HIDE DEF x, q
  <2> QED
    BY <2>1, <2>2, <2>3, <2>4, <2>5 DEF x, q
<1> HIDE DEF I, pick, v2, w2
<1> DEFINE h  == [s \in SUBSET I |-> f[s] + Cardinality(s)]
           h2 == [s \in SUBSET I |-> f2[s] + 2 * f[s] + Cardinality(s)]
<1>8. \A s \in SUBSET I : g[s] = h[s]
  <2>1. g[{}] = h[{}]
    BY <1>6, FS_EmptySet
  <2>2. ASSUME NEW s \in SUBSET I, s # {}, g[s \ {pick[s]}] = h[s \ {pick[s]}]
        PROVE  g[s] = h[s]
    <3> DEFINE x == pick[s]
               q == s \ {x}
    <3>1. /\ q \in SUBSET I /\ v[x] \in Int /\ f[q] \in Int
          /\ g[s] = v[x] + 1 + g[q] /\ f[s] = v[x] + f[q]
          /\ Cardinality(q) \in Nat /\ Cardinality(s) = Cardinality(q) + 1
      BY <1>7, <2>2
    <3>2. g[q] = f[q] + Cardinality(q) /\ h[s] = f[s] + Cardinality(s)
      BY <2>2, <3>1
    <3> HIDE DEF h, x, q
    <3>3. \A a, b, c \in Int : a + 1 + (b + c) = (a + b) + (c + 1)
      OBVIOUS
    <3>6. v[x] \in Int /\ f[q] \in Int /\ Cardinality(q) \in Int
      BY <3>1
    <3>4. g[s] = v[x] + 1 + (f[q] + Cardinality(q))
      BY <3>1, <3>2
    <3>5. h[s] = (v[x] + f[q]) + (Cardinality(q) + 1)
      BY <3>1, <3>2
    <3> QED BY <3>3, <3>4, <3>5, <3>6, Zenon
  <2>3. StepsAgree(g, h, I, pick)
    BY <2>1, <2>2 DEF StepsAgree
  <2> HIDE DEF h
  <2> QED
    BY <1>5, <2>3, FoldsAgree
<1>9. \A s \in SUBSET I : g2[s] = h2[s]
  <2>1. g2[{}] = h2[{}]
    BY <1>6, FS_EmptySet
  <2>2. ASSUME NEW s \in SUBSET I, s # {},
               g2[s \ {pick[s]}] = h2[s \ {pick[s]}]
        PROVE  g2[s] = h2[s]
    <3> DEFINE x == pick[s]
               q == s \ {x}
    <3>1. /\ q \in SUBSET I /\ v[x] \in Int /\ f[q] \in Int /\ f2[q] \in Int
          /\ g2[s] = (v[x] + 1) * (v[x] + 1) + g2[q]
          /\ f[s] = v[x] + f[q] /\ f2[s] = v[x] * v[x] + f2[q]
          /\ Cardinality(q) \in Nat /\ Cardinality(s) = Cardinality(q) + 1
      BY <1>7, <2>2
    <3>2. /\ g2[q] = f2[q] + 2 * f[q] + Cardinality(q)
          /\ h2[s] = f2[s] + 2 * f[s] + Cardinality(s)
      BY <2>2, <3>1
    <3> HIDE DEF h2, x, q
    <3>4. g2[s] = (v[x] + 1) * (v[x] + 1) + (f2[q] + 2 * f[q] + Cardinality(q))
      BY <3>1, <3>2, Zenon
    <3>5. h2[s] = (v[x] * v[x] + f2[q]) + 2 * (v[x] + f[q])
                    + (Cardinality(q) + 1)
      BY <3>1, <3>2, Zenon
    <3>6. /\ v[x] \in Int /\ f[q] \in Int /\ Cardinality(q) \in Int
          /\ f2[q] \in Int
      BY <3>1
    <3>7. (v[x] + 1) * (v[x] + 1) + (f2[q] + 2 * f[q] + Cardinality(q)) =
            (v[x] * v[x] + f2[q]) + 2 * (v[x] + f[q]) + (Cardinality(q) + 1)
      <4> DEFINE a == v[x]
                 b == f[q]
                 c == Cardinality(q)
                 d == f2[q]
      <4>1. a \in Int /\ b \in Int /\ c \in Int /\ d \in Int
        BY <3>6
      <4> SUFFICES (a + 1) * (a + 1) + (d + 2 * b + c) =
                     (a * a + d) + 2 * (a + b) + (c + 1)
        OBVIOUS
      <4> HIDE DEF a, b, c, d
      <4> QED BY <4>1
    <3> QED BY <3>4, <3>5, <3>7, Zenon
  <2>3. StepsAgree(g2, h2, I, pick)
    BY <2>1, <2>2 DEF StepsAgree
  <2> HIDE DEF h2
  <2> QED
    BY <1>5, <2>3, FoldsAgree
<1>10. /\ I \in SUBSET I /\ Cardinality(I) = n
       /\ f[I] \in Int /\ f2[I] \in Int
  BY <1>5
<1>11. h[I] = f[I] + n /\ h2[I] = f2[I] + 2 * f[I] + n
  BY <1>10
<1>12. g[I] = f[I] + n /\ g2[I] = f2[I] + 2 * f[I] + n
  BY <1>8, <1>9, <1>10, <1>11
<1> HIDE DEF h, h2
<1> QED
  BY <1>1, <1>2, <1>3, <1>4, <1>10, <1>12

\* The signal rule, which compares n * mean and n * n * variance: stronger
\* readings never score less.
LEMMA SignalMonotone ==
  ASSUME NEW s, s.cn0 \in Seq(Nat), NEW t,
         t.cn0 = [i \in DOMAIN s.cn0 |-> s.cn0[i] + 1],
         Settings.signal # None
  PROVE  /\ SignalAnomaly(s, Settings.signal) \in Nat
         /\ SignalAnomaly(t, Settings.signal) \in Nat
         /\ SignalAnomaly(s, Settings.signal)
              <= SignalAnomaly(t, Settings.signal)
<1> DEFINE n == Len(s.cn0)
           Sum(c) == FoldLeft(+, 0, c)
           Square(c) == FoldLeft(LAMBDA total, x : total + x * x, 0, c)
           signal == Settings.signal
           Strong(sum) == sum >= n * signal.maxMean
           Uniform(sum, square) ==
             /\ n * square - sum * sum
                  <= n * n * signal.uniformStd * signal.uniformStd
             /\ sum >= n * signal.uniformMean
           a == Sum(s.cn0)
           b == Square(s.cn0)
<1>1. /\ n \in Nat /\ s.cn0 \in [1..n -> Int] /\ t.cn0 \in [1..n -> Int]
      /\ Len(t.cn0) = n /\ \A i \in 1..n : t.cn0[i] = s.cn0[i] + 1
  OBVIOUS
<1>2. /\ a \in Int /\ b \in Int
      /\ Sum(t.cn0) = a + n /\ Square(t.cn0) = b + 2 * a + n
  BY <1>1, StrongerSums
<1>3. /\ SignalAnomaly(s, signal) =
           IF n >= signal.minTracked /\ (Strong(a) \/ Uniform(a, b))
           THEN signal.weight ELSE 0
      /\ SignalAnomaly(t, signal) =
           IF n >= signal.minTracked
                /\ (Strong(a + n) \/ Uniform(a + n, b + 2 * a + n))
           THEN signal.weight ELSE 0
  BY <1>1, <1>2 DEF SignalAnomaly
<1>4. /\ signal.minTracked \in Nat /\ signal.uniformStd \in Nat
      /\ signal.uniformMean \in Int /\ signal.maxMean \in Int
      /\ signal.weight \in Nat
  BY SignalKnown
<1>t. a \in Int /\ b \in Int /\ n \in Nat
  BY <1>1, <1>2
<1> HIDE DEF a, b, n, signal
<1>5. Strong(a) => Strong(a + n)
  <2> DEFINE k == n * signal.maxMean
  <2>1. k \in Int
    BY <1>t, <1>4
  <2> HIDE DEF k
  <2>2. a >= k => a + n >= k
    BY <1>t, <2>1
  <2> QED BY <2>2 DEF k
<1>6. Uniform(a, b) => Uniform(a + n, b + 2 * a + n)
  <2> DEFINE k == n * signal.uniformMean
             l == n * n * signal.uniformStd * signal.uniformStd
  <2>1. k \in Int
    BY <1>t, <1>4
  <2>2. n * (b + 2 * a + n) - (a + n) * (a + n) = n * b - a * a
    BY <1>t
  <2> HIDE DEF k, l
  <2>3. n * b - a * a <= l => n * (b + 2 * a + n) - (a + n) * (a + n) <= l
    BY <2>2, Zenon
  <2>4. a >= k => a + n >= k
    BY <1>t, <2>1
  <2> QED BY <2>3, <2>4 DEF k, l
<1> HIDE DEF Strong, Uniform
<1> QED
  BY <1>3, <1>4, <1>5, <1>6 DEF signal

\* The other rules, one by one.
LEMMA RulesMonotone ==
  ASSUME NEW s \in Sample, NEW t \in Worsenings(s), NEW prior,
         prior # None => prior \in Sample
  PROVE  /\ NoFix(t) = NoFix(s) /\ NoFix(s) \in Nat
         /\ PositionOffset(t) = PositionOffset(s) /\ PositionOffset(s) \in Nat
         /\ TimeDiscontinuity(t, prior) = TimeDiscontinuity(s, prior)
         /\ TimeDiscontinuity(s, prior) \in Nat
         /\ SuddenSpeed(s) \in Nat /\ SuddenSpeed(t) \in Nat
         /\ SuddenSpeed(s) <= SuddenSpeed(t)
         /\ HdopAnomaly(s) \in Nat /\ HdopAnomaly(t) \in Nat
         /\ HdopAnomaly(s) <= HdopAnomaly(t)
         /\ SatelliteAnomaly(s, prior) \in Nat
         /\ SatelliteAnomaly(t, prior) \in Nat
         /\ SatelliteAnomaly(s, prior) <= SatelliteAnomaly(t, prior)
<1>1. /\ t.hasFix = s.hasFix /\ t.pos = s.pos /\ t.utc = s.utc
      /\ t.speed # s.speed => t.speed = s.speed + 1
      /\ t.speed = None <=> s.speed = None
      /\ t.hdop # s.hdop => t.hdop = s.hdop + 1
      /\ t.hdop = None <=> s.hdop = None
      /\ t.sats # s.sats => s.sats # 0 /\ t.sats = s.sats - 1
      /\ t.sats = None <=> s.sats = None
  BY WorseIs
<1>2. /\ s.speed # None => s.speed \in Nat
      /\ s.hdop # None => s.hdop \in Nat
      /\ s.sats # None => s.sats \in Nat
  BY DEF Sample, Optional
<1>3. NoFix(t) = NoFix(s) /\ NoFix(s) \in Nat
  BY <1>1, SettingsKnown DEF NoFix
<1>4. PositionOffset(t) = PositionOffset(s) /\ PositionOffset(s) \in Nat
  BY <1>1, SettingsKnown DEF PositionOffset
<1>5. /\ TimeDiscontinuity(t, prior) = TimeDiscontinuity(s, prior)
      /\ TimeDiscontinuity(s, prior) \in Nat
  BY <1>1, SettingsKnown DEF TimeDiscontinuity, Jumped
<1>6. /\ SuddenSpeed(s) \in Nat /\ SuddenSpeed(t) \in Nat
      /\ SuddenSpeed(s) <= SuddenSpeed(t)
  <2>1. \A v \in Nat :
          LET R(x) == Ramp(x, Settings.stationarySpeed, Settings.warningSpeed,
                           Settings.speedWeight)
          IN  R(v) \in Nat /\ R(v + 1) \in Nat /\ R(v) <= R(v + 1)
    BY SettingsKnown, RampMonotone
  <2> QED
    BY <1>1, <1>2, <2>1 DEF SuddenSpeed
<1>7. /\ HdopAnomaly(s) \in Nat /\ HdopAnomaly(t) \in Nat
      /\ HdopAnomaly(s) <= HdopAnomaly(t)
  <2>1. \A v \in Nat :
          LET R(x) == Ramp(x, Settings.hdopWarning, Settings.hdopCritical,
                           Settings.hdopWeight)
          IN  R(v) \in Nat /\ R(v + 1) \in Nat /\ R(v) <= R(v + 1)
    BY SettingsKnown, RampMonotone
  <2> QED
    BY <1>1, <1>2, <2>1 DEF HdopAnomaly
<1>8. /\ SatelliteAnomaly(s, prior) \in Nat
      /\ SatelliteAnomaly(t, prior) \in Nat
      /\ SatelliteAnomaly(s, prior) <= SatelliteAnomaly(t, prior)
  <2>1. prior # None /\ prior.sats # None => prior.sats \in Nat
    BY DEF Sample, Optional
  <2> QED
    BY <1>1, <1>2, <2>1, SettingsKnown DEF SatelliteAnomaly
<1> QED
  BY <1>3, <1>4, <1>5, <1>6, <1>7, <1>8

\* A higher score is never a better state.
LEMMA ClassifyMonotone ==
  ASSUME NEW a \in Nat, NEW b \in Nat, a <= b
  PROVE  Rank[Classify(a)] <= Rank[Classify(b)]
<1>1. /\ Rank["OK"] = 0 /\ Rank["Warning"] = 1
      /\ Rank["Potential Spoofing"] = 2 /\ Rank["Spoofing Detected"] = 3
  BY DEF Rank, Health
<1>2. ASSUME NEW x \in Nat
      PROVE  Rank[Classify(x)] =
               IF x >= Settings.spoofing THEN 3
               ELSE IF x >= Settings.potential THEN 2
               ELSE IF x >= Settings.warning THEN 1 ELSE 0
  <2> HIDE DEF Rank
  <2>1. CASE x >= Settings.spoofing
    BY <1>1, <2>1 DEF Classify
  <2>2. CASE ~(x >= Settings.spoofing) /\ x >= Settings.potential
    BY <1>1, <2>2 DEF Classify
  <2>3. CASE /\ ~(x >= Settings.spoofing) /\ ~(x >= Settings.potential)
             /\ x >= Settings.warning
    BY <1>1, <2>3 DEF Classify
  <2>4. CASE /\ ~(x >= Settings.spoofing) /\ ~(x >= Settings.potential)
             /\ ~(x >= Settings.warning)
    BY <1>1, <2>4 DEF Classify
  <2> QED
    BY <2>1, <2>2, <2>3, <2>4
<1> QED
  BY <1>2, SettingsKnown

\* Worsening a reading moves nobody's position.
LEMMA DisagreementUnmoved ==
  ASSUME TypeOK, NEW r \in DOMAIN history, NEW t \in Sample,
         t.hasFix = history[r].current.hasFix,
         t.pos = history[r].current.pos
  PROVE  LET after == [history EXCEPT ![r].current = t]
             fixed == FixedReceivers(history, References)
         IN  /\ FixedReceivers(after, References) = fixed
             /\ Disagreement(r, after, fixed) = Disagreement(r, history, fixed)
             /\ after[r].current = t
             /\ after[r].previous = history[r].previous
<1> DEFINE after == [history EXCEPT ![r].current = t]
           fixed == FixedReceivers(history, References)
<1>0. history[r].current # None /\ t # None
  BY SampleAssumption DEF TypeOK
<1>1. /\ DOMAIN after = DOMAIN history
      /\ after[r].current = t
      /\ after[r].previous = history[r].previous
      /\ \A q \in DOMAIN history : q # r => after[q] = history[q]
  BY DEF TypeOK
<1> HIDE DEF after
<1>2. FixedReceivers(after, References) = fixed
  BY <1>0, <1>1 DEF FixedReceivers
<1>3. fixed \subseteq DOMAIN history
  BY DEF FixedReceivers
<1> HIDE DEF fixed
<1>4. [o \in fixed \ {r} |-> after[o].current.pos] =
        [o \in fixed \ {r} |-> history[o].current.pos]
  BY <1>1, <1>3
<1>5. Disagreement(r, after, fixed) = Disagreement(r, history, fixed)
  BY <1>1, <1>4 DEF Disagreement
<1> QED
  BY <1>1, <1>2, <1>5 DEF after, fixed

LEMMA WorseStep == TypeOK => WorseNeverScoresLess
<1> SUFFICES ASSUME TypeOK, NEW r \in DOMAIN history,
                    NEW t \in Worsenings(history[r].current)
             PROVE  LET before == Scored(history, r)
                        after  == Scored([history EXCEPT ![r].current = t], r)
                    IN  /\ before.score <= after.score
                        /\ Rank[before.state] <= Rank[after.state]
  BY DEF WorseNeverScoresLess
<1> DEFINE s == history[r].current
           p == history[r].previous
           later == [history EXCEPT ![r].current = t]
           fixed == FixedReceivers(history, References)
           o == Outcomes(r, history, fixed)
           w == Outcomes(r, later, fixed)
<1>1. /\ history[r] \in [current : Sample, previous : Optional(Sample)]
      /\ s \in Sample /\ (p # None => p \in Sample)
      /\ history = [q \in DOMAIN history |-> history[q]]
  BY DEF TypeOK, Optional
<1>2. /\ FixedReceivers(later, References) = fixed
      /\ Disagreement(r, later, fixed) = Disagreement(r, history, fixed)
      /\ later[r].current = t /\ later[r].previous = p
  <2>1. t \in Sample /\ t.hasFix = s.hasFix /\ t.pos = s.pos
    BY <1>1, WorseIs
  <2> QED
    BY <2>1, DisagreementUnmoved
<1> HIDE DEF later, s, p
<1>3. /\ NoFix(t) = NoFix(s) /\ NoFix(s) \in Nat
      /\ PositionOffset(t) = PositionOffset(s) /\ PositionOffset(s) \in Nat
      /\ TimeDiscontinuity(t, p) = TimeDiscontinuity(s, p)
      /\ TimeDiscontinuity(s, p) \in Nat
      /\ SuddenSpeed(s) \in Nat /\ SuddenSpeed(t) \in Nat
      /\ SuddenSpeed(s) <= SuddenSpeed(t)
      /\ HdopAnomaly(s) \in Nat /\ HdopAnomaly(t) \in Nat
      /\ HdopAnomaly(s) <= HdopAnomaly(t)
      /\ SatelliteAnomaly(s, p) \in Nat /\ SatelliteAnomaly(t, p) \in Nat
      /\ SatelliteAnomaly(s, p) <= SatelliteAnomaly(t, p)
  BY <1>1, RulesMonotone DEF s
<1> DEFINE Signal(x) == IF Settings.signal = None THEN 0
                        ELSE SignalAnomaly(x, Settings.signal)
<1>4. Signal(s) \in Nat /\ Signal(t) \in Nat /\ Signal(s) <= Signal(t)
  <2>1. CASE Settings.signal = None
    BY <2>1
  <2>2. CASE Settings.signal # None /\ t.cn0 = s.cn0
    <3>1. SignalAnomaly(s, Settings.signal) = 0
            \/ SignalAnomaly(s, Settings.signal) = Settings.signal.weight
      BY Zenon DEF SignalAnomaly
    <3>2. SignalAnomaly(s, Settings.signal) = SignalAnomaly(t, Settings.signal)
      BY <2>2, Zenon DEF SignalAnomaly
    <3> QED
      BY <2>2, <3>1, <3>2, SignalKnown
  <2>3. CASE Settings.signal # None /\ t.cn0 # s.cn0
    <3>1. s.cn0 \in Seq(Nat) /\ t.cn0 = [i \in DOMAIN s.cn0 |-> s.cn0[i] + 1]
      <4>1. s.cn0 \in Seq(Nat)
        BY <1>1 DEF Sample
      <4> QED BY <1>1, <2>3, <4>1, WorseIs DEF s
    <3> QED
      BY <2>3, <3>1, SignalMonotone
  <2> QED
    BY <2>1, <2>2, <2>3
<1>5. Disagreement(r, history, fixed) \in Nat
  BY SettingsKnown DEF Disagreement
<1>6. TotalScore(o) \in Nat /\ TotalScore(w) \in Nat
      /\ TotalScore(o) <= TotalScore(w)
  <2>1. /\ o.no_fix = NoFix(s) /\ o.position_offset = PositionOffset(s)
        /\ o.sudden_speed = SuddenSpeed(s)
        /\ o.satellite_anomaly = SatelliteAnomaly(s, p)
        /\ o.hdop_anomaly = HdopAnomaly(s) /\ o.signal_anomaly = Signal(s)
        /\ o.time_discontinuity = TimeDiscontinuity(s, p)
        /\ o.disagreement = Disagreement(r, history, fixed)
    BY DEF Outcomes, s, p
  <2>2. /\ w.no_fix = NoFix(t) /\ w.position_offset = PositionOffset(t)
        /\ w.sudden_speed = SuddenSpeed(t)
        /\ w.satellite_anomaly = SatelliteAnomaly(t, p)
        /\ w.hdop_anomaly = HdopAnomaly(t) /\ w.signal_anomaly = Signal(t)
        /\ w.time_discontinuity = TimeDiscontinuity(t, p)
        /\ w.disagreement = Disagreement(r, history, fixed)
    BY <1>2 DEF Outcomes
  <2> HIDE DEF o, w, Signal
  <2> QED
    BY <1>3, <1>4, <1>5, <2>1, <2>2 DEF TotalScore
<1> HIDE DEF o, w
<1>7. /\ Scored(history, r).score = TotalScore(o)
      /\ Scored(history, r).state = Classify(TotalScore(o))
      /\ Scored(later, r).score = TotalScore(w)
      /\ Scored(later, r).state = Classify(TotalScore(w))
  BY <1>2 DEF Scored, Result, o, w
<1> QED
  BY <1>6, <1>7, ClassifyMonotone DEF later

\* A reading that is worse in one respect never scores less and never puts its
\* receiver into a better state, for every setting the validators accept.
THEOREM WorseScoresMore == Spec => []WorseNeverScoresLess
BY SpecType, WorseStep, PTL

-----------------------------------------------------------------------------

\* The sum of n positions, of which none is further than D from x, is not
\* further than n * D from n * x.
LEMMA SumsNear ==
  ASSUME NEW S, IsFiniteSet(S), NEW v \in [S -> Int], NEW x \in Int,
         NEW D \in Nat, \A o \in S : AbsDiff(x, v[o]) <= D
  PROVE  LET n == Cardinality(S)
         IN  ~(AbsDiff(n * x, SumFunction(v)) > n * D)
<1>0. PICK f \in [SUBSET S -> Int] :
        \E pick : /\ SumFunction(v) = f[S]
                  /\ Picks(pick, S) /\ Sums(f, S, v, pick)
  BY SumRecursion
<1>1. PICK pick : /\ SumFunction(v) = f[S]
                  /\ Picks(pick, S) /\ Sums(f, S, v, pick)
  BY <1>0
<1> DEFINE Near(s) == /\ f[s] - Cardinality(s) * x <= Cardinality(s) * D
                      /\ Cardinality(s) * x - f[s] <= Cardinality(s) * D
           Good == {s \in SUBSET S : Near(s)}
<1>2. Shrinks(S, pick)
  BY <1>1, PicksShrink
<1>3. ASSUME NEW s \in SUBSET S, \A U \in SUBSET s : U # s => U \in Good
      PROVE  s \in Good
  <2>1. CASE s = {}
    <3>1. f[s] = 0 /\ Cardinality(s) = 0
      BY <1>1, <2>1, FS_EmptySet DEF Sums
    <3> QED BY <3>1
  <2>2. CASE s # {}
    <3> DEFINE e == pick[s]
               q == s \ {e}
               c == Cardinality(q)
    <3>a. /\ e \in s /\ e \in S /\ q \in SUBSET S /\ c \in Nat
          /\ Cardinality(s) = c + 1
      BY <1>2, <2>2 DEF Shrinks
    <3>b. v[e] \in Int /\ AbsDiff(x, v[e]) <= D
      <4> HIDE DEF e
      <4> QED BY <3>a
    <3>c. x - v[e] <= D /\ v[e] - x <= D
      <4> HIDE DEF e
      <4> QED BY <3>b DEF AbsDiff
    <3>1. /\ e \in s /\ q \in SUBSET S /\ c \in Nat /\ Cardinality(s) = c + 1
          /\ v[e] \in Int /\ f[q] \in Int
          /\ x - v[e] <= D /\ v[e] - x <= D
      BY <3>a, <3>b, <3>c
    <3>2. f[s] = v[e] + f[q]
      BY <1>1, <2>2 DEF Sums
    <3>3. q \in Good
      BY <1>3, <3>1
    <3>4. f[q] - c * x <= c * D /\ c * x - f[q] <= c * D
      BY <3>3
    <3> HIDE DEF e, q, c
    <3>5. (c + 1) * x = c * x + x /\ (c + 1) * D = c * D + D
          /\ c * x \in Int /\ c * D \in Int
      BY <3>1
    <3>6. /\ (v[e] + f[q]) - (c * x + x) <= c * D + D
          /\ (c * x + x) - (v[e] + f[q]) <= c * D + D
      BY <3>1, <3>4, <3>5
    <3> QED
      BY <3>1, <3>2, <3>5, <3>6
  <2> QED BY <2>1, <2>2
<1>4. \A s \in SUBSET S : s \in Good
  <2> HIDE DEF Good
  <2> QED BY <1>3, SubsetInduction
<1>5. Near(S) /\ Cardinality(S) \in Nat /\ f[S] \in Int
  BY <1>4, FS_CardinalityType
<1> QED
  BY <1>1, <1>5 DEF AbsDiff

\* On one side of the 180th meridian the mean of longitudes lies between the
\* positions it is made of, so receivers of which no two are further apart than
\* allowed are not said to disagree.
LEMMA QuietStep == TypeOK => AgreementIsQuiet
<1> DEFINE fixed == FixedReceivers(history, References)
           D == Settings.maxDistance
<1> SUFFICES ASSUME TypeOK, NEW r \in DOMAIN history, Agree, OnOneSide
             PROVE  Scored(history, r).points.disagreement = 0
  BY DEF AgreementIsQuiet, Quiet
<1>1. CASE r \notin fixed
  BY <1>1 DEF Scored, Result, Outcomes, Disagreement
<1>2. CASE r \in fixed
  <2> DEFINE others == fixed \ {r}
             v == [o \in others |-> Pos(o)]
  <2>1. \A a \in fixed : Pos(a) \in Int
    BY ScoringAssumption DEF TypeOK, FixedReceivers, Sample, Optional, Longitude, Pos
  <2>2. IsFiniteSet(others)
    BY FS_Subset DEF TypeOK, FixedReceivers
  <2>3. /\ v \in [others -> Int] /\ Pos(r) \in Int /\ D \in Nat
        /\ \A o \in others : AbsDiff(Pos(r), v[o]) <= D
    <3>1. \A a, b \in fixed : AbsDiff(Pos(a), Pos(b)) <= D
      BY DEF Agree, OnOneSide, Distance, ShorterWay
    <3> QED BY <1>2, <2>1, <3>1, SettingsKnown
  <2>4. ~(AbsDiff(Cardinality(others) * Pos(r), SumFunction(v))
            > Cardinality(others) * D)
    <3> HIDE DEF others, v, D, Pos
    <3> QED BY <2>2, <2>3, SumsNear
  <2>5. ~(ShorterWay(AbsDiff(Cardinality(others) * Pos(r), SumFunction(v)),
                     Cardinality(others) * Circle)
            > Cardinality(others) * D)
    <3> DEFINE n == Cardinality(others)
               d == AbsDiff(n * Pos(r), SumFunction(v))
               c == n * Circle
               far == n * D
    <3>1. n \in Nat /\ D \in Nat /\ Circle \in Nat /\ Pos(r) \in Int
      BY <2>2, <2>3, FS_CardinalityType, ScoringAssumption
    <3>2. c \in Nat /\ far \in Nat /\ n * Pos(r) \in Int
      BY <3>1
    <3>3. SumFunction(v) \in Int
      <4> HIDE DEF others, v, D
      <4>1. PICK f \in [SUBSET others -> Int] : SumFunction(v) = f[others]
        BY <2>2, <2>3, SumRecursion
      <4> QED BY <4>1
    <3>4. d \in Nat
      BY <3>2, <3>3 DEF AbsDiff
    <3> HIDE DEF d, c, far
    <3>5. ~(d > far) => ~(ShorterWay(d, c) > far)
      BY <3>2, <3>4 DEF ShorterWay
    <3> QED BY <2>4, <3>5 DEF d, c, far
  <2>6. Disagreement(r, history, fixed) = 0
    BY <2>5 DEF Disagreement, Pos
  <2> QED
    BY <2>6 DEF Scored, Result, Outcomes
<1> QED
  BY <1>1, <1>2

\* Receivers on one side of the 180th meridian that agree are never scored for
\* disagreeing, however many they are, whatever the order in which they are
\* added up.
THEOREM AgreeingIsQuiet == Spec => []AgreementIsQuiet
BY SpecType, QuietStep, PTL
=============================================================================
