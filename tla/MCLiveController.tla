-------------------------- MODULE MCLiveController ---------------------------
(***************************************************************************)
(* Finite instances of LiveController.  Positions are metres east of the   *)
(* site; with a tolerance of 2 a fix at 5 is out of the expected radius.   *)
(***************************************************************************)
EXTENDS LiveController

MCPosition == {0, 5}
MCNoReference == {}

MCSettings ==
  [noFix |-> 20, warningRadius |-> 2, failureRadius |-> 9,
   weightWarning |-> 10, weightFailure |-> 40,
   stationarySpeed |-> 2, warningSpeed |-> 4, speedWeight |-> 10,
   minimum |-> 4, suddenDrop |-> 3, satellitesWeight |-> 10,
   hdopWarning |-> 2, hdopCritical |-> 4, hdopWeight |-> 10,
   maxJump |-> 1, timeWeight |-> 30,
   maxDistance |-> 2, disagreementWeight |-> 20,
   signal |-> None,
   warning |-> 20, potential |-> 40, spoofing |-> 60]

\* Every receiver is expected at the site.
MCBaseline == [r \in Receivers |-> [expected |-> 0, tolerance |-> 2, timeout |-> 1]]

ALine(type, ok, pos) == [type |-> type, ok |-> ok, pos |-> pos,
                         sats |-> None, hdop |-> None, speed |-> None]

MCGoodLines == {ALine("GGA", TRUE, 0)}
MCMovingLines == {ALine("GGA", TRUE, 0), ALine("RMC", TRUE, 5)}
MCAllLines == MCMovingLines \cup {ALine("GGA", TRUE, None)}
MCNoisyLines == {ALine("GGA", TRUE, 0), ALine("other", FALSE, None)}
=============================================================================
