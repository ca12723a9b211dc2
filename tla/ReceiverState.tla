---------------------------- MODULE ReceiverState ----------------------------
(***************************************************************************)
(* What one receiver has reported so far, and what a line read from its    *)
(* source does to it: the acquisition layer's pure part                    *)
(* (monitor/receiver_monitor.py).  A latitude/longitude pair is one        *)
(* position token; the altitude and the C/N0 map are left out.             *)
(***************************************************************************)
EXTENDS Naturals, Sequences

CONSTANTS None,     \* Python's None: a field that holds no value
          Position  \* the tokens a latitude/longitude pair may be

ASSUME NoneAssumption ==
  None \notin Position /\ None \notin Nat /\ None \notin BOOLEAN

Optional(S) == S \cup {None}

(***************************************************************************)
(* A line as the framer and the parser classify it.  "blank" frames to     *)
(* nothing; "other" is every framed line that carries no fix information   *)
(* (an unsupported type, GSV, or plain noise).  ok is checksum_ok.  pos is *)
(* None for a GGA without fix or a void RMC.                               *)
(***************************************************************************)
Line == [type : {"blank", "GGA", "RMC", "other"},
         ok   : BOOLEAN,
         pos  : Optional(Position),
         sats : Optional(Nat),
         hdop : Optional(Nat),
         speed : Optional(Nat)]

State == [seen     : Nat,
          valid    : Nat,
          hasFix   : BOOLEAN,
          pos      : Optional(Position),
          sats     : Optional(Nat),
          hdop     : Optional(Nat),
          speed    : Optional(Nat),
          fixUtc   : Optional(Nat),
          lastSeen : Optional(Nat)]

NoState == [seen |-> 0, valid |-> 0, hasFix |-> FALSE, pos |-> None,
            sats |-> None, hdop |-> None, speed |-> None,
            fixUtc |-> None, lastSeen |-> None]

\* ConnectionStatus, and the edges along which a worker moves it.
Connection == {"CONNECTING", "CONNECTED", "DISCONNECTED"}

ConnEdge == {<<"CONNECTING", "CONNECTED">>, <<"CONNECTING", "DISCONNECTED">>,
             <<"CONNECTED", "DISCONNECTED">>, <<"DISCONNECTED", "CONNECTING">>}

OrElse(v, w) == IF v = None THEN w ELSE v

\* _process_line up to the sink calls: every framed line is counted and
\* refreshes last_seen_monotonic, whatever its checksum.
Framed(st, line, t) ==
  [st EXCEPT !.seen = @ + 1,
             !.lastSeen = t,
             !.valid = IF line.ok THEN @ + 1 ELSE @]

\* Seeded fault: the flag is cleared and the coordinates stay latched.
ApplyGGALatched(st, line, t) ==
  IF line.pos # None
  THEN [st EXCEPT !.sats = OrElse(line.sats, @), !.hdop = OrElse(line.hdop, @),
                  !.hasFix = TRUE, !.pos = line.pos, !.fixUtc = t]
  ELSE [st EXCEPT !.sats = OrElse(line.sats, @), !.hdop = OrElse(line.hdop, @),
                  !.hasFix = FALSE]

\* _apply of a GGAMessage.  The satellite count and the HDOP follow every GGA
\* that has them; one without a usable fix clears the position, not the speed.
ApplyGGA(st, line, t) ==
  IF line.pos # None
  THEN [st EXCEPT !.sats = OrElse(line.sats, @), !.hdop = OrElse(line.hdop, @),
                  !.hasFix = TRUE, !.pos = line.pos, !.fixUtc = t]
  ELSE [st EXCEPT !.sats = OrElse(line.sats, @), !.hdop = OrElse(line.hdop, @),
                  !.hasFix = FALSE, !.pos = None]

\* _apply of an RMCMessage: a void RMC clears position and speed.
ApplyRMC(st, line, t) ==
  IF line.pos # None
  THEN [st EXCEPT !.hasFix = TRUE, !.pos = line.pos,
                  !.speed = OrElse(line.speed, @), !.fixUtc = t]
  ELSE [st EXCEPT !.hasFix = FALSE, !.pos = None, !.speed = None]

Applied(st, line, t) ==
  IF line.type = "GGA" THEN ApplyGGA(st, line, t)
  ELSE IF line.type = "RMC" THEN ApplyRMC(st, line, t)
  ELSE st

\* _process_line: the effect on the state of one line read at time t.  A
\* receiver's own clock is taken to be exact, so the UTC of a fix is t.
Process(st, line, t) ==
  IF line.type = "blank" THEN st ELSE Applied(Framed(st, line, t), line, t)

\* The flag and the coordinates are the same fact.
FixMeansPosition(st) == st.hasFix <=> st.pos # None

\* A receiver that has sent a sentence has the time of the last one.
Reported(st) == st.seen # 0 => st.lastSeen \in Nat
=============================================================================
