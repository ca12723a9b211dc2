---------------------------- MODULE ScoringWorld ----------------------------
(***************************************************************************)
(* AnalysisEvaluator (analysis/evaluator.py) on its own: update() is called *)
(* with one reading after the other, for any receiver in any order, and    *)
(* evaluate_all() may be asked at any moment.  The properties compare what *)
(* it answers with what the rules are said to measure.                     *)
(***************************************************************************)
EXTENDS Scoring

CONSTANTS
  Ids,        \* the receivers' ids
  References, \* reference_receiver_ids
  Samples     \* the readings a receiver may give

ASSUME WorldAssumption == References \subseteq Ids /\ Samples \subseteq Sample

VARIABLE history  \* _history

Init == history = [r \in {} |-> NoHistory]

\* update(): setdefault, then push.
Update(r, sample) ==
  LET old == IF r \in DOMAIN history THEN history[r] ELSE NoHistory
  IN  history' = [q \in DOMAIN history \cup {r} |->
                    IF q = r THEN Push(old, sample) ELSE history[q]]

Next == \E r \in Ids, sample \in Samples : Update(r, sample)

Spec == Init /\ [][Next]_history

-----------------------------------------------------------------------------

Scored(h, r) == Result(r, h, References)

\* A history per receiver updated, of one reading or of the last two.
TypeOK ==
  /\ DOMAIN history \in SUBSET Ids /\ IsFiniteSet(DOMAIN history)
  /\ history \in [DOMAIN history -> [current : Sample,
                                     previous : Optional(Sample)]]

\* How far apart two times of day are, whichever way around the clock.
Apart(a, b) ==
  CHOOSE d \in {(a - b) % Day, (b - a) % Day} :
    \A e \in {(a - b) % Day, (b - a) % Day} : d <= e

\* The time rule goes by the short way around the clock: it fires exactly when
\* two successive readings are further apart than allowed, midnight or not.
JumpIsShortWay ==
  \A r \in DOMAIN history :
    LET s == history[r].current
        p == history[r].previous
        jumped == /\ p # None /\ p.utc # None /\ s.utc # None
                  /\ Apart(s.utc, p.utc) > Settings.maxJump
    IN  Scored(history, r).points.time_discontinuity =
          IF jumped THEN Settings.timeWeight ELSE 0

\* A reference receiver is no peer: what it reports changes nobody else's
\* result, and it is not scored for disagreement.
ReferencesNeutral ==
  \A r \in DOMAIN history :
    LET others == [q \in (DOMAIN history \ References) \cup {r} |-> history[q]]
    IN  /\ Scored(history, r) = Scored(others, r)
        /\ r \in References => Scored(history, r).points.disagreement = 0

Pos(r) == history[r].current.pos

\* No two of the peers are further apart than allowed.
Agree ==
  \A a, b \in FixedReceivers(history, References) :
    Distance(Pos(a), Pos(b)) <= Settings.maxDistance

\* The 180th meridian is not between any two of them.
OnOneSide ==
  \A a, b \in FixedReceivers(history, References) :
    2 * AbsDiff(Pos(a), Pos(b)) <= Circle

Quiet ==
  \A r \in DOMAIN history : Scored(history, r).points.disagreement = 0

\* Peers of which no two are further apart than allowed are not said to
\* disagree, unless the 180th meridian is between them: elsewhere the mean of
\* their longitudes lies between the positions it is made of.
AgreementIsQuiet == Agree /\ OnOneSide => Quiet

\* "Distance of this receiver's fix from its peers' centroid", wherever they are.
AgreementIsQuietAnywhere == Agree => Quiet

\* The states of a receiver, from the best to the worst.
Rank ==
  [state \in Health |-> CASE state = "OK"                 -> 0
                          [] state = "Warning"            -> 1
                          [] state = "Potential Spoofing" -> 2
                          [] state = "Spoofing Detected"  -> 3]

\* The same reading, worse in one respect: faster, less precise, with fewer
\* satellites, or with every one of them stronger.
Worsenings(s) ==
  {[s EXCEPT !.speed = IF @ = None THEN None ELSE @ + 1],
   [s EXCEPT !.hdop = IF @ = None THEN None ELSE @ + 1],
   [s EXCEPT !.sats = IF @ = None \/ @ = 0 THEN @ ELSE @ - 1],
   [s EXCEPT !.cn0 = [i \in DOMAIN @ |-> @[i] + 1]]}

\* A reading that is worse in one respect never scores less, nor does it ever
\* put its receiver into a better state.
WorseNeverScoresLess ==
  \A r \in DOMAIN history : \A worse \in Worsenings(history[r].current) :
    LET before == Scored(history, r)
        after  == Scored([history EXCEPT ![r].current = worse], r)
    IN  before.score <= after.score /\ Rank[before.state] <= Rank[after.state]
=============================================================================
