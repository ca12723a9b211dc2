--------------------------- MODULE LiveController ----------------------------
(***************************************************************************)
(* The render loop of live mode (live/controller.py) over the evaluators,  *)
(* the scoring engine and the event log (live/event_log.py).  Each worker  *)
(* is what ReceiverFeed promises of it, a line per batch: the refinement   *)
(* that ReceiverWorker is checked to satisfy.  The feeds change between    *)
(* any two steps of a frame; within a frame the loop takes a snapshot of   *)
(* every receiver, evaluates them one after the other, and then scores,    *)
(* builds the rows and draws.                                              *)
(***************************************************************************)
EXTENDS Scoring

CONSTANTS
  N,         \* the receivers are 1..N, in the order of the channels
  Analysis,  \* whether the configuration has an `analysis:' section
  Reference, \* the reference receivers
  Baseline,  \* effective_baseline: expected position, tolerance and timeout
  Capacity,  \* event_log_capacity
  Lines,     \* the lines a receiver may send
  MaxLines,  \* bound: lines each receiver sends
  MaxTime    \* bound: the clock

Receivers == 1..N
App == 0     \* who the events of the application itself are about

ASSUME ControllerAssumption ==
  /\ N \in Nat \ {0} /\ Analysis \in BOOLEAN /\ Reference \subseteq Receivers
  /\ Baseline \in [Receivers -> [expected : Longitude, tolerance : Nat, timeout : Nat]]
  /\ Capacity \in Nat \ {0}
  /\ Lines \subseteq Line /\ MaxLines \in Nat /\ MaxTime \in Nat

VARIABLES
  conn,        \* the workers' connection status
  feed,        \* the receivers' state, as of the last batch
  lastValid,   \* history: time of the last sentence with a good checksum
  now,         \* time.monotonic()
  pc,          \* where run() is
  k,           \* the receiver the loop of the current phase is at
  stop,        \* the controller's _stop event
  closing,     \* this is the last frame, in the finally clause
  frame,       \* per receiver: snapshot, evaluation, freshness and score
  lastStatus,  \* _last_evaluation (its status)
  lastConn,    \* _last_connection
  lastFix,     \* _last_has_fix
  hist,        \* AnalysisEvaluator._history
  lastHealth,  \* _last_analysis_state
  events,      \* the EventLog's ring buffer, oldest first
  screen       \* what the dashboard shows: rows and events

feedVars  == <<conn, feed, lastValid, now>>
loopVars  == <<pc, k, stop, closing>>
logVars   == <<lastStatus, lastConn, lastFix, events>>
scoreVars == <<hist, lastHealth>>
vars == <<feedVars, loopVars, frame, logVars, scoreVars, screen>>

Status == {"OK", "FAILED", "NO_DATA"}
Kind == {"app", "status", "connection", "fix", "health"}
Says == Status \cup Health \cup
        {"started", "stopping", "connected", "recovered", "disconnected",
         "fix acquired", "fix lost"}

ASSUME WordsAssumption == None \notin Says /\ None \notin Connection

Event == [who : {App} \cup Receivers, kind : Kind, says : Says]

EmptyFrame ==
  [r \in Receivers |-> [conn |-> None, state |-> None, status |-> None,
                        dist |-> None, fresh |-> FALSE, at |-> None,
                        analysis |-> None]]

Init ==
  /\ conn = [r \in Receivers |-> "CONNECTING"]
  /\ feed = [r \in Receivers |-> NoState]
  /\ lastValid = [r \in Receivers |-> None]
  /\ now = 0
  /\ pc = "ready" /\ k = 1 /\ stop = FALSE /\ closing = FALSE
  /\ frame = EmptyFrame
  /\ lastStatus = [r \in Receivers |-> None]
  /\ lastConn = [r \in Receivers |-> None]
  /\ lastFix = [r \in Receivers |-> None]
  /\ hist = [r \in {} |-> NoHistory]
  /\ lastHealth = [r \in Receivers |-> None]
  /\ events = <<>> /\ screen = None

-----------------------------------------------------------------------------
(* The event log, and the evaluation of one receiver.                      *)

\* Seeded fault: nothing bounds the log.
RecordUnbounded(log, event) == Append(log, event)

\* EventLog.record: a deque with maxlen, the oldest event makes room.
Record(log, event) ==
  IF Len(log) < Capacity THEN Append(log, event) ELSE Append(Tail(log), event)

AnEvent(r, kind, says) == [who |-> r, kind |-> kind, says |-> says]

RecordIf(log, told, event) == IF told THEN Record(log, event) ELSE log

Changed(previous, current) == previous # None /\ previous # current

\* Seeded fault: a receiver that never spoke is not told from a silent one.
SilentOnlyAtFirst(r, st, t) == st.seen = 0

\* The receiver has no data: no sentence ever, or none for the timeout.
Silent(r, st, t) ==
  \/ st.seen = 0
  \/ st.lastSeen # None /\ t - st.lastSeen > Baseline[r].timeout

\* PositionEvaluator.evaluate at time t: the status and the distance.
Evaluate(r, st, t) ==
  LET located == ~Silent(r, st, t) /\ st.hasFix /\ st.pos # None
      dist    == IF located THEN Distance(st.pos, Baseline[r].expected) ELSE None
  IN  [dist   |-> dist,
       status |-> IF Silent(r, st, t) THEN "NO_DATA"
                  ELSE IF located /\ dist <= Baseline[r].tolerance THEN "OK"
                  ELSE "FAILED"]

\* _record_connection_event: the word for a change, None for a step into
\* CONNECTING, which is not told.
ConnectionVerb(previous, current) ==
  CASE current = "CONNECTED" -> IF previous = "DISCONNECTED"
                                THEN "recovered" ELSE "connected"
    [] current = "DISCONNECTED" -> "disconnected"
    [] OTHER -> None

\* _record_fix_event.
FixVerb(hasFix) == IF hasFix THEN "fix acquired" ELSE "fix lost"

\* The log after what the evaluation of receiver r tells, in that order.
LogEvaluation(log, r, status, c, hasFix) ==
  LET verb       == ConnectionVerb(lastConn[r], c)
      withStatus == RecordIf(log, Changed(lastStatus[r], status),
                             AnEvent(r, "status", status))
      withConn   == RecordIf(withStatus, Changed(lastConn[r], c) /\ verb # None,
                             AnEvent(r, "connection", verb))
  IN  RecordIf(withConn, Changed(lastFix[r], hasFix),
               AnEvent(r, "fix", FixVerb(hasFix)))

-----------------------------------------------------------------------------
(* run(): the loop, and the last frame of its finally clause.              *)

Start ==
  /\ pc = "ready" /\ pc' = "waiting"
  /\ events' = Record(events, AnEvent(App, "app", "started"))
  /\ UNCHANGED <<feedVars, k, stop, closing, frame, lastStatus, lastConn,
                 lastFix, scoreVars, screen>>

\* request_stop, from a signal handler.
RequestStop ==
  /\ pc # "ready" /\ ~stop /\ stop' = TRUE
  /\ UNCHANGED <<feedVars, pc, k, closing, frame, logVars, scoreVars, screen>>

BeginFrame ==
  /\ pc = "waiting" /\ ~stop
  /\ pc' = "snapshots" /\ k' = 1 /\ frame' = EmptyFrame
  /\ UNCHANGED <<feedVars, stop, closing, logVars, scoreVars, screen>>

BeginLastFrame ==
  /\ pc = "waiting" /\ stop
  /\ pc' = "snapshots" /\ k' = 1 /\ frame' = EmptyFrame /\ closing' = TRUE
  /\ events' = Record(events, AnEvent(App, "app", "stopping"))
  /\ UNCHANGED <<feedVars, stop, lastStatus, lastConn, lastFix, scoreVars,
                 screen>>

\* The loop's next receiver, or after the last one the next phase.
Advance(next) ==
  IF k < N THEN k' = k + 1 /\ UNCHANGED pc ELSE k' = 1 /\ pc' = next

TakeSnapshot ==
  /\ pc = "snapshots"
  /\ frame' = [frame EXCEPT ![k].conn = conn[k], ![k].state = feed[k]]
  /\ Advance("evaluating")
  /\ UNCHANGED <<feedVars, stop, closing, logVars, scoreVars, screen>>

Fresh(c, status) == c # "DISCONNECTED" /\ status # "NO_DATA"

\* Seeded fault: the previous fix flag is only remembered the first time.
EvaluateReceiverFixOnce ==
  LET snap   == frame[k]
      result == Evaluate(k, snap.state, now)
  IN  /\ pc = "evaluating"
      /\ frame' = [frame EXCEPT ![k].status = result.status,
                                ![k].dist = result.dist, ![k].at = now,
                                ![k].fresh = Fresh(snap.conn, result.status)]
      /\ events' = LogEvaluation(events, k, result.status, snap.conn,
                                 snap.state.hasFix)
      /\ lastStatus' = [lastStatus EXCEPT ![k] = result.status]
      /\ lastConn' = [lastConn EXCEPT ![k] = snap.conn]
      /\ lastFix' = [lastFix EXCEPT ![k] =
                       IF @ = None THEN snap.state.hasFix ELSE @]
      /\ Advance("scoring")
      /\ UNCHANGED <<feedVars, stop, closing, scoreVars, screen>>

\* One turn of the loop of _evaluations.
EvaluateReceiver ==
  LET snap   == frame[k]
      result == Evaluate(k, snap.state, now)
  IN  /\ pc = "evaluating"
      /\ frame' = [frame EXCEPT ![k].status = result.status,
                                ![k].dist = result.dist, ![k].at = now,
                                ![k].fresh = Fresh(snap.conn, result.status)]
      /\ events' = LogEvaluation(events, k, result.status, snap.conn,
                                 snap.state.hasFix)
      /\ lastStatus' = [lastStatus EXCEPT ![k] = result.status]
      /\ lastConn' = [lastConn EXCEPT ![k] = snap.conn]
      /\ lastFix' = [lastFix EXCEPT ![k] = snap.state.hasFix]
      /\ Advance("scoring")
      /\ UNCHANGED <<feedVars, stop, closing, scoreVars, screen>>

-----------------------------------------------------------------------------
(* _analysis_results, rows and the drawing of the frame.                   *)

FreshReceivers == {r \in Receivers : frame[r].fresh}

\* The histories after update() of every fresh receiver.
Updated ==
  IF ~Analysis THEN hist
  ELSE [r \in DOMAIN hist \cup FreshReceivers |->
          LET old == IF r \in DOMAIN hist THEN hist[r] ELSE NoHistory
          IN  IF r \in FreshReceivers
              THEN Push(old, SampleOf(frame[r].state, <<>>)) ELSE old]

\* The result of a fresh receiver, None for another.
Analysed(r, h) ==
  IF Analysis /\ r \in FreshReceivers THEN Result(r, h, Reference) ELSE None

\* update() of every fresh receiver and then evaluate_all().
Score ==
  /\ pc = "scoring" /\ pc' = "telling" /\ hist' = Updated
  /\ frame' = [r \in Receivers |->
                 [frame[r] EXCEPT !.analysis = Analysed(r, Updated)]]
  /\ UNCHANGED <<feedVars, k, stop, closing, logVars, lastHealth, screen>>

\* Seeded fault: a receiver without a result is forgotten.
TellHealthForgetting ==
  LET result == frame[k].analysis
  IN  /\ pc = "telling"
      /\ events' = RecordIf(events,
                     result # None /\ Changed(lastHealth[k], result.state),
                     AnEvent(k, "health", result.state))
      /\ lastHealth' = [lastHealth EXCEPT ![k] =
                          IF result = None THEN None ELSE result.state]
      /\ Advance("drawing")
      /\ UNCHANGED <<feedVars, stop, closing, frame, lastStatus, lastConn,
                     lastFix, hist, screen>>

\* One turn of the loop over the results, which tells a change of state.  The
\* code goes through them in the order in which the receivers were first
\* scored; here it is the order of the channels.
TellHealth ==
  LET result == frame[k].analysis
  IN  /\ pc = "telling"
      /\ events' = RecordIf(events,
                     result # None /\ Changed(lastHealth[k], result.state),
                     AnEvent(k, "health", result.state))
      /\ lastHealth' = [lastHealth EXCEPT ![k] =
                          IF result = None THEN @ ELSE result.state]
      /\ Advance("drawing")
      /\ UNCHANGED <<feedVars, stop, closing, frame, lastStatus, lastConn,
                     lastFix, hist, screen>>

\* A row shows the position and the fix of a fresh receiver only.
Row(r) ==
  LET f == frame[r]
  IN  [conn     |-> f.conn,
       status   |-> f.status,
       pos      |-> IF f.fresh THEN f.state.pos ELSE None,
       hasFix   |-> IF f.fresh THEN f.state.hasFix ELSE None,
       analysis |-> f.analysis]

\* dashboard_model: the rows, and the events that the making of the rows has
\* added to.
Draw ==
  /\ pc = "drawing"
  /\ screen' = [rows |-> [r \in Receivers |-> Row(r)], events |-> events]
  /\ pc' = IF closing THEN "stopping" ELSE "waiting"
  /\ UNCHANGED <<feedVars, k, stop, closing, frame, logVars, scoreVars>>

\* stop(): the workers' stop() and the data logger's close() in turn.
Teardown ==
  /\ pc = "stopping" /\ pc' = "stopped"
  /\ stop' = TRUE
  /\ UNCHANGED <<feedVars, k, closing, frame, logVars, scoreVars, screen>>

-----------------------------------------------------------------------------
(* The workers, as ReceiverFeed: the status moves along its edges, and a   *)
(* connected worker publishes what it read.                                *)

ConnectionChanges(r) ==
  /\ pc \notin {"ready", "stopped"}
  /\ \E c \in Connection : /\ <<conn[r], c>> \in ConnEdge
                           /\ conn' = [conn EXCEPT ![r] = c]
  /\ UNCHANGED <<feed, lastValid, now, loopVars, frame, logVars, scoreVars,
                 screen>>

LineArrives(r) ==
  /\ pc \notin {"ready", "stopped"}
  /\ conn[r] = "CONNECTED" /\ feed[r].seen < MaxLines
  /\ \E line \in Lines :
       /\ feed' = [feed EXCEPT ![r] = Process(@, line, now)]
       /\ lastValid' = [lastValid EXCEPT ![r] = IF line.ok THEN now ELSE @]
  /\ UNCHANGED <<conn, now, loopVars, frame, logVars, scoreVars, screen>>

Tick ==
  /\ now < MaxTime /\ now' = now + 1
  /\ UNCHANGED <<conn, feed, lastValid, loopVars, frame, logVars, scoreVars,
                 screen>>

Loop == \/ BeginFrame \/ BeginLastFrame \/ TakeSnapshot \/ EvaluateReceiver
        \/ Score \/ TellHealth \/ Draw \/ Teardown

Feeds == \/ \E r \in Receivers : ConnectionChanges(r) \/ LineArrives(r)
         \/ Tick

Next == Start \/ RequestStop \/ Loop \/ Feeds

Spec == Init /\ [][Next]_vars

-----------------------------------------------------------------------------
\* A result of the scoring engine.
Scored == [score : Nat, state : Health, points : Points]

\* What a frame holds of a receiver.
Evaluated == [conn : Optional(Connection), state : Optional(State),
              status : Optional(Status), dist : Optional(Nat),
              fresh : BOOLEAN, at : Optional(Nat),
              analysis : Optional(Scored)]

TypeOK ==
  /\ conn \in [Receivers -> Connection] /\ feed \in [Receivers -> State]
  /\ lastValid \in [Receivers -> Optional(Nat)] /\ now \in Nat
  /\ pc \in {"ready", "waiting", "snapshots", "evaluating", "scoring",
             "telling", "drawing", "stopping", "stopped"}
  /\ k \in Receivers /\ stop \in BOOLEAN /\ closing \in BOOLEAN
  /\ frame \in [Receivers -> Evaluated]
  /\ lastStatus \in [Receivers -> Optional(Status)]
  /\ lastConn \in [Receivers -> Optional(Connection)]
  /\ lastFix \in [Receivers -> Optional(BOOLEAN)]
  /\ DOMAIN hist \subseteq Receivers /\ hist \in [DOMAIN hist -> History]
  /\ lastHealth \in [Receivers -> Optional(Health)]
  /\ events \in Seq(Event) /\ Len(events) <= Capacity

\* The frame is the one on the screen: no newer one is being put together.
Drawn == pc \in {"waiting", "stopping", "stopped"} /\ screen # None

\* A position is on the screen only if the receiver was not disconnected and
\* had sent a sentence within its timeout when it was evaluated: _evaluate,
\* `fresh' and rows() agree over a frame that the feed keeps changing under.
ShownIsCurrent ==
  Drawn => \A r \in Receivers : screen.rows[r].pos # None =>
    /\ frame[r].conn # "DISCONNECTED"
    /\ frame[r].at - frame[r].state.lastSeen <= Baseline[r].timeout

(* ShownIsCurrent is not inductive: it depends on what the feeds publish,  *)
(* on how far the loop of the frame has got, and on what the evaluation    *)
(* left in the frame, which nothing changes until the next frame begins.   *)

FeedsKnown ==
  /\ conn \in [Receivers -> Connection] /\ feed \in [Receivers -> State]
  /\ now \in Nat /\ \A r \in Receivers : Reported(feed[r])

\* A snapshot of this frame has been taken of r.
Taken(r) == /\ frame[r].conn \in Connection
            /\ frame[r].state \in State /\ Reported(frame[r].state)

LoopKnown ==
  /\ k \in Receivers /\ frame \in [Receivers -> Evaluated]
  /\ pc = "ready" => screen = None
  /\ pc = "snapshots" => \A r \in Receivers :
       ~frame[r].fresh /\ (r < k => Taken(r))
  /\ pc \in {"evaluating", "scoring", "telling", "drawing"} =>
       \A r \in Receivers : Taken(r)
  /\ pc = "scoring" => k = 1

HistoryKnown ==
  DOMAIN hist \subseteq Receivers /\ hist \in [DOMAIN hist -> History]

FreshKnown ==
  \A r \in Receivers : frame[r].fresh =>
    /\ frame[r].conn # "DISCONNECTED"
    /\ frame[r].at \in Nat /\ frame[r].state.lastSeen \in Nat
    /\ frame[r].at - frame[r].state.lastSeen <= Baseline[r].timeout

ScreenKnown ==
  Drawn => \A r \in Receivers : screen.rows[r].pos # None => frame[r].fresh

\* A frame has results from Score on, of who is fresh.
ScoreKnown ==
  \A r \in Receivers : frame[r].analysis # None =>
    /\ pc \notin {"snapshots", "evaluating", "scoring"} /\ frame[r].fresh
    /\ frame[r].analysis.points.no_fix = NoFix(frame[r].state)
    /\ frame[r].analysis.points.position_offset = PositionOffset(frame[r].state)

Inductive == /\ FeedsKnown /\ LoopKnown /\ HistoryKnown /\ FreshKnown
             /\ ScreenKnown /\ ScoreKnown

About(event, r, kind) == event.who = r /\ event.kind = kind

\* No event of the kind is about r from i to j.
Nothing(log, r, kind, i, j) == \A m \in i..j : ~About(log[m], r, kind)

\* What the log's newest event of a kind says of r is one of `words'.
LastSays(log, r, kind, words) ==
  \A i \in 1..Len(log) :
    About(log[i], r, kind) /\ Nothing(log, r, kind, i + 1, Len(log))
      => log[i].says \in words

\* Two events in a row of a kind never say the same of r.
Alternates(log, r, kind) ==
  \A j \in 1..Len(log) : \A i \in 1..(j - 1) :
    /\ About(log[i], r, kind) /\ Nothing(log, r, kind, i + 1, j - 1)
    /\ About(log[j], r, kind)
    => log[i].says # log[j].says

\* The event log and the rows of one screen tell the same story: what was
\* last said of a receiver is what its row shows.
LogTellsTheScreen ==
  screen # None => \A r \in Receivers :
    LET row == screen.rows[r]
        log == screen.events
    IN  /\ LastSays(log, r, "status", {row.status})
        /\ row.hasFix # None => LastSays(log, r, "fix", {FixVerb(row.hasFix)})
        /\ row.conn = "CONNECTED" =>
             LastSays(log, r, "connection", {"connected", "recovered"})
        /\ row.conn = "DISCONNECTED" =>
             LastSays(log, r, "connection", {"disconnected"})
        /\ row.analysis # None =>
             LastSays(log, r, "health", {row.analysis.state})

\* No change is told twice: two events in a row of one kind about one
\* receiver differ, whatever stale or disconnected frames lay between them.
EventsAlternate ==
  \A r \in Receivers : \A kind \in {"status", "fix", "health"} :
    Alternates(events, r, kind)

(* The log and the screen agree because the loop remembers, kind by kind,  *)
(* what it told last, and goes through the receivers in each phase.        *)

\* What may have been told last of a receiver whose last value is `last':
\* nothing of one that has none.
Words(last, words) == IF last = None THEN {} ELSE words

\* What may have been told last of a receiver whose last status is c: a step
\* into CONNECTING is not told.
ConnWords(c) ==
  CASE c = "CONNECTED"    -> {"connected", "recovered"}
    [] c = "DISCONNECTED" -> {"disconnected"}
    [] OTHER              -> Says

LogFollows ==
  \A r \in Receivers :
    /\ LastSays(events, r, "status", Words(lastStatus[r], {lastStatus[r]}))
    /\ LastSays(events, r, "connection", Words(lastConn[r], ConnWords(lastConn[r])))
    /\ LastSays(events, r, "fix", Words(lastFix[r], {FixVerb(lastFix[r])}))
    /\ LastSays(events, r, "health", Words(lastHealth[r], {lastHealth[r]}))

\* What the loop has told of this frame so far.
EvaluationTold(r) ==
  \/ pc = "evaluating" /\ r < k
  \/ pc \in {"scoring", "telling", "drawing"}

HealthTold(r) == (pc = "telling" /\ r < k) \/ pc = "drawing"

FrameTold ==
  \A r \in Receivers :
    /\ EvaluationTold(r) =>
         /\ frame[r].conn \in Connection /\ frame[r].status \in Status
         /\ lastStatus[r] = frame[r].status /\ lastConn[r] = frame[r].conn
         /\ lastFix[r] = frame[r].state.hasFix
    /\ HealthTold(r) /\ frame[r].analysis # None =>
         lastHealth[r] = frame[r].analysis.state

Telling == TypeOK /\ EventsAlternate /\ LogFollows /\ FrameTold

\* The score in a row is the score of what the row shows: the same fix, the
\* same position (update() before evaluate_all(), both on this snapshot).
ScoreMatchesRow ==
  screen # None => \A r \in Receivers :
    LET row == screen.rows[r]
    IN  row.analysis # None =>
          /\ row.analysis.points.no_fix = NoFix(row)
          /\ row.analysis.points.position_offset = PositionOffset(row)

\* Feeding only fresh receivers keeps a reading from before a silence from
\* being compared with one after it.
NoGapMisfire ==
  [][\A r \in Receivers :
       LET row == screen'.rows[r]
       IN  /\ screen' # screen /\ screen # None
           /\ row.analysis # None /\ screen.rows[r].analysis = None
           => row.analysis.points.time_discontinuity = 0]_screen

\* Who is not fresh has no part in the score of who is.
CentroidIsFresh ==
  Drawn => \A r \in FreshReceivers \ Reference : Analysis =>
    screen.rows[r].analysis.points.disagreement =
      Disagreement(r, hist, FixedReceivers(hist, Reference) \cap FreshReceivers)

\* After the screen has said `disconnected' of a receiver, and until it says
\* that it is back, it shows no position of it.
DisconnectedShowsNoPosition ==
  screen # None => \A r \in Receivers :
    LET log == screen.events
    IN  (\E i \in 1..Len(log) :
           /\ log[i] = AnEvent(r, "connection", "disconnected")
           /\ Nothing(log, r, "connection", i + 1, Len(log)))
        => screen.rows[r].pos = None

\* A receiver without a valid sentence for its timeout has no data.
TimeoutNeedsValidSentence ==
  Drawn => \A r \in Receivers : frame[r].status # "NO_DATA" =>
    lastValid[r] # None /\ frame[r].at - lastValid[r] <= Baseline[r].timeout
=============================================================================
