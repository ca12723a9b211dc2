----------------------------- MODULE MCDashboard -----------------------------
(***************************************************************************)
(* A finite instance of Dashboard: the sizes are the ones of the tests and *)
(* two that are too short for the receivers, the widths those of the texts *)
(* the program writes, with a debug build's terminal size in the header.   *)
(***************************************************************************)
EXTENDS Dashboard

MCSizes == {<<160, 26>>, <<80, 18>>, <<80, 14>>, <<60, 22>>}

MCHeaderChunks == <<13, 15, 6, 16>>
MCStatusChunks == <<25, 30, 11, 11, 21, 20>>
MCHeadings     == <<8, 6, 5, 3, 3, 3, 3, 4, 4, 8, 3>>

ARow(conn, status, analysis, label, rules, scoring) ==
  [conn |-> conn, status |-> status, analysis |-> analysis,
   cells |-> <<label, 18, 3, 10, 10, 3, 2, 4, 7, 10, 3>>, compact |-> 9,
   rules |-> rules, scoring |-> scoring]

Fine      == ARow("CONNECTED", "OK", 0, 12, 0, 0)
Spoofed   == ARow("CONNECTED", "FAILED", 5, 19, 3, 2)
Unplugged == ARow("DISCONNECTED", "NO_DATA", None, 12, 0, 0)

AModel(rows, events) == [title |-> 24, rows |-> rows, events |-> events]

MCModels == {AModel(<<>>, <<>>),
             AModel(<<Fine, Unplugged, Spoofed>>, <<26, 140, 30>>),
             AModel(<<Fine, Fine, Unplugged, Fine, Spoofed>>, <<20>>)}
=============================================================================
