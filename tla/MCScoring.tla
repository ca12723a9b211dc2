------------------------------ MODULE MCScoring ------------------------------
(***************************************************************************)
(* A finite instance of ScoringWorld: three peers and a reference, a day   *)
(* of eight time units, a parallel of twelve metres with the 180th         *)
(* meridian at 6 and -6, and readings at the limits of the rules.          *)
(***************************************************************************)
EXTENDS ScoringWorld, TLC

MCPosition == {-6, 4, 5}

MCSettings ==
  [noFix |-> 20, warningRadius |-> 4, failureRadius |-> 5,
   weightWarning |-> 10, weightFailure |-> 40,
   stationarySpeed |-> 2, warningSpeed |-> 4, speedWeight |-> 10,
   minimum |-> 4, suddenDrop |-> 3, satellitesWeight |-> 10,
   hdopWarning |-> 2, hdopCritical |-> 4, hdopWeight |-> 10,
   maxJump |-> 2, timeWeight |-> 30,
   maxDistance |-> 1, disagreementWeight |-> 20,
   signal |-> [minTracked |-> 2, uniformStd |-> 1, uniformMean |-> 40,
               maxMean |-> 45, weight |-> 20],
   warning |-> 20, potential |-> 40, spoofing |-> 60]

AReading(pos, sats, hdop, speed, utc, cn0) ==
  [hasFix |-> pos # None, pos |-> pos, sats |-> sats, hdop |-> hdop,
   speed |-> speed, utc |-> utc, cn0 |-> cn0]

MCSamples ==
  {AReading(4, 7, 2, 1, 7, <<30, 42>>),
   AReading(5, 4, 3, 2, 1, <<39, 41>>),
   AReading(-6, 7, 1, 4, 3, <<44, 45>>),
   AReading(None, 3, 4, None, None, <<39, 40>>)}

\* The peers are interchangeable: no rule looks at an id.
CONSTANTS neo6m, neo7m, neo8m, lc29h
MCIds == {neo6m, neo7m, neo8m, lc29h}
MCReferences == {lc29h}
MCSymmetry == Permutations({neo6m, neo7m, neo8m})
=============================================================================
