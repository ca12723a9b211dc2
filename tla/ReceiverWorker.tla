--------------------------- MODULE ReceiverWorker ----------------------------
(***************************************************************************)
(* One receiver's background thread (live/worker.py), the source it reads  *)
(* and the main thread that starts it, takes snapshots of it and stops it. *)
(*                                                                         *)
(* The two threads share the lock, the stop event, the status, the         *)
(* receiver state and the source; the worker holds the lock for a whole    *)
(* poll, and nobody holds it around source.open() or source.close().       *)
(* Time is logical: `clock' counts the lines read, and is what a sentence  *)
(* is stamped with and what last_update_wall records.                      *)
(***************************************************************************)
EXTENDS ReceiverState, FiniteSets

CONSTANTS
  PollBatch,  \* lines read under one hold of the lock
  Lines,      \* lines a serial device may send
  MaxLines,   \* bound: lines the device sends, or times a file is begun
  FileLines   \* the content of the replayed file

ASSUME WorkerAssumption ==
  /\ PollBatch \in Nat \ {0}
  /\ Lines \subseteq Line
  /\ MaxLines \in Nat
  /\ FileLines \in Seq(Line)

VARIABLES
  wpc,        \* where the worker thread is in _run
  mpc,        \* where the main thread is in start/stop
  thread,     \* _thread is not None
  lock,       \* who holds _lock
  stop,       \* the _stop event
  status,     \* _status
  src,        \* the source: "open", "closed", or "dead", a handle whose
              \* device (whose file's disk) has gone since
  serial,     \* the source is a serial port, and else a file replay
  loop,       \* a file that starts again at its end
  plugged,    \* the device (the file) is there: an open() succeeds
  wire,       \* lines that can be read without waiting
  sent,       \* lines the device has sent, or times the file was begun
  exhausted,  \* source.is_exhausted
  state,      \* the ReceiverMonitor's state
  got,        \* lines processed by the poll in progress
  clock,      \* lines read so far
  upd,        \* _last_update_wall
  snap,       \* the last snapshot the main thread got, None before the first
  published,  \* history: the shared data when the lock was last released
  stopAt,     \* history: the clock when stop was first requested
  opens,      \* history: how often the source was opened, 2 for more
  joined      \* history: stop() saw the thread end, no join timed out

threadVars == <<wpc, mpc, thread, lock, stop>>
sourceVars == <<serial, loop, src, plugged, wire, sent, exhausted>>
dataVars   == <<status, state, got, clock, upd>>
histVars   == <<published, stopAt, opens, joined>>
vars       == <<threadVars, sourceVars, dataVars, snap, histVars>>

WorkerPC == {"unstarted", "check", "ensure", "opening", "opened", "pump",
             "polling", "idling", "failed", "closing", "retrying", "exited"}
MainPC == {"ready", "running", "joining", "closing", "stopped"}
View == [state : State, upd : Optional(Nat), exhausted : BOOLEAN]

LiveView == [state |-> state, upd |-> upd, exhausted |-> exhausted]

Init ==
  /\ wpc = "unstarted" /\ mpc = "ready" /\ thread = FALSE
  /\ lock = "free" /\ stop = FALSE
  /\ status = "CONNECTING"
  /\ serial \in BOOLEAN /\ loop \in BOOLEAN /\ (serial => ~loop)
  /\ src = "closed" /\ plugged \in BOOLEAN
  /\ wire = <<>> /\ sent = 0 /\ exhausted = FALSE
  /\ state = NoState /\ got = 0 /\ clock = 0 /\ upd = None
  /\ snap = None
  /\ published = LiveView /\ stopAt = None /\ opens = 0 /\ joined = FALSE

-----------------------------------------------------------------------------
(* The worker thread: _run, _ensure_open, _pump_once, _safe_close.         *)

\* Seeded fault: an iteration that just polled data skips the loop test.
CheckStopIdleOnly ==
  /\ wpc = "check"
  /\ wpc' = IF stop /\ got = 0 THEN "exited" ELSE "ensure"
  /\ UNCHANGED <<mpc, thread, lock, stop, sourceVars, dataVars, snap,
                 histVars>>

CheckStop ==
  /\ wpc = "check"
  /\ wpc' = IF stop THEN "exited" ELSE "ensure"
  /\ UNCHANGED <<mpc, thread, lock, stop, sourceVars, dataVars, snap,
                 histVars>>

\* _ensure_open up to the call of open(): nothing to do when CONNECTED.
EnsureOpen ==
  /\ wpc = "ensure"
  /\ \/ status = "CONNECTED" /\ wpc' = "pump" /\ UNCHANGED status
     \/ /\ status # "CONNECTED" /\ lock = "free"
        /\ status' = "CONNECTING" /\ wpc' = "opening"
  /\ UNCHANGED <<mpc, thread, lock, stop, sourceVars, state, got, clock, upd,
                 snap, histVars>>

\* source.open() of SerialSource and FileReplaySource: a no-op when already
\* open, else the buffer starts empty (serial) or at the file's first line.
OpenSucceeds ==
  /\ wpc = "opening"
  /\ \/ src # "closed" /\ UNCHANGED <<src, wire, sent, exhausted, opens>>
     \/ /\ src = "closed" /\ plugged
        /\ src' = "open" /\ exhausted' = FALSE
        /\ IF serial
           THEN wire' = <<>> /\ UNCHANGED sent
           ELSE wire' = FileLines /\ sent' = sent + 1
        /\ opens' = IF opens = 0 THEN 1 ELSE 2
  /\ wpc' = "opened"
  /\ published' = [published EXCEPT !.exhausted = exhausted']
  /\ UNCHANGED <<mpc, thread, lock, stop, serial, loop, plugged, dataVars,
                 snap, stopAt, joined>>

OpenFails ==
  /\ wpc = "opening" /\ src = "closed" /\ ~plugged
  /\ wpc' = "failed"
  /\ UNCHANGED <<mpc, thread, lock, stop, sourceVars, dataVars, snap,
                 histVars>>

SetConnected ==
  /\ wpc = "opened" /\ lock = "free"
  /\ status' = "CONNECTED" /\ wpc' = "pump"
  /\ UNCHANGED <<mpc, thread, lock, stop, sourceVars, state, got, clock, upd,
                 snap, histVars>>

PollBegin ==
  /\ wpc = "pump" /\ lock = "free"
  /\ lock' = "worker" /\ got' = 0 /\ wpc' = "polling"
  /\ UNCHANGED <<mpc, thread, stop, sourceVars, status, state, clock, upd,
                 snap, histVars>>

\* A read on a source that stop() has closed raises RuntimeError; one on a
\* dead handle OSError, once what was buffered before has been read.
ReadRaises == src = "closed" \/ (src = "dead" /\ wire = <<>>)

\* At its end a looping file is begun again, unless it is empty.
Rewinds == loop /\ wire = <<>> /\ sent < MaxLines

Readable == IF Rewinds THEN FileLines ELSE wire

\* Seeded fault: the batch has no bound.
PollLineUnbounded ==
  /\ wpc = "polling"
  /\ ~ReadRaises /\ Readable # <<>>
  /\ state' = Process(state, Head(Readable), clock + 1)
  /\ wire' = Tail(Readable) /\ got' = got + 1 /\ clock' = clock + 1
  /\ sent' = IF Rewinds THEN sent + 1 ELSE sent
  /\ UNCHANGED <<threadVars, src, serial, loop, plugged, exhausted, status,
                 upd, snap, histVars>>

PollLine ==
  /\ wpc = "polling" /\ got < PollBatch
  /\ ~ReadRaises /\ Readable # <<>>
  /\ state' = Process(state, Head(Readable), clock + 1)
  /\ wire' = Tail(Readable) /\ got' = got + 1 /\ clock' = clock + 1
  /\ sent' = IF Rewinds THEN sent + 1 ELSE sent
  /\ UNCHANGED <<threadVars, src, serial, loop, plugged, exhausted, status,
                 upd, snap, histVars>>

\* Seeded fault: every batch of a file ends with the flag set.
PollReturnsExhausted ==
  /\ wpc = "polling"
  /\ got = PollBatch \/ (~ReadRaises /\ Readable = <<>>)
  /\ exhausted' = (exhausted \/ ~serial)
  /\ upd' = IF got > 0 THEN clock ELSE upd
  /\ lock' = "free"
  /\ wpc' = IF got = 0 THEN "idling" ELSE "check"
  /\ published' = [state |-> state, upd |-> upd', exhausted |-> exhausted']
  /\ UNCHANGED <<mpc, thread, stop, src, serial, loop, plugged, wire, sent,
                 status, state, got, clock, snap, stopAt, opens, joined>>

\* The batch is full, or read_line returned None: for a file, at its end.
\* (A looping file of some lines has none; it only rests at the bound.)
PollReturns ==
  /\ wpc = "polling"
  /\ got = PollBatch \/ (~ReadRaises /\ Readable = <<>>)
  /\ exhausted' = (exhausted \/ (~serial /\ got < PollBatch
                                 /\ (loop => FileLines = <<>>)))
  /\ upd' = IF got > 0 THEN clock ELSE upd
  /\ lock' = "free"
  /\ wpc' = IF got = 0 THEN "idling" ELSE "check"
  /\ published' = [state |-> state, upd |-> upd', exhausted |-> exhausted']
  /\ UNCHANGED <<mpc, thread, stop, src, serial, loop, plugged, wire, sent,
                 status, state, got, clock, snap, stopAt, opens, joined>>

\* read_line raised: the lines of this batch stay applied, the statement
\* that stamps _last_update_wall is skipped, and `with' releases the lock.
PollRaises ==
  /\ wpc = "polling" /\ got < PollBatch /\ ReadRaises
  /\ lock' = "free" /\ wpc' = "failed"
  /\ published' = LiveView
  /\ UNCHANGED <<mpc, thread, stop, sourceVars, dataVars, snap, stopAt, opens,
                 joined>>

IdleWaitEnds ==
  /\ wpc = "idling" /\ wpc' = "check"
  /\ UNCHANGED <<mpc, thread, lock, stop, sourceVars, dataVars, snap,
                 histVars>>

\* Seeded fault: the source is dropped before the status says so.
SetDisconnectedLate ==
  /\ wpc = "failed" /\ lock = "free"
  /\ src' = "closed" /\ wire' = <<>> /\ wpc' = "closing"
  /\ UNCHANGED <<mpc, thread, lock, stop, serial, loop, plugged, sent,
                 exhausted, dataVars, snap, histVars>>

\* Seeded fault: an I/O error is logged and the status left alone.
SetDisconnectedNever ==
  /\ wpc = "failed" /\ lock = "free" /\ wpc' = "closing"
  /\ UNCHANGED <<mpc, thread, lock, stop, sourceVars, dataVars, snap,
                 histVars>>

\* Both except clauses of _run differ only in what they log.
SetDisconnected ==
  /\ wpc = "failed" /\ lock = "free"
  /\ status' = "DISCONNECTED" /\ wpc' = "closing"
  /\ UNCHANGED <<mpc, thread, lock, stop, sourceVars, state, got, clock, upd,
                 snap, histVars>>

\* source.close(): never raises, and drops what was buffered.
CloseSource == src' = "closed" /\ wire' = <<>>

SafeClose ==
  /\ wpc = "closing"
  /\ CloseSource /\ wpc' = "retrying"
  /\ UNCHANGED <<mpc, thread, lock, stop, serial, loop, plugged, sent,
                 exhausted, dataVars, snap, histVars>>

\* Seeded fault: the back-off wait waits for stop and has no timeout.
RetryWaitNoTimeout ==
  /\ wpc = "retrying" /\ stop /\ wpc' = "check"
  /\ UNCHANGED <<mpc, thread, lock, stop, sourceVars, dataVars, snap,
                 histVars>>

RetryWaitEnds ==
  /\ wpc = "retrying" /\ wpc' = "check"
  /\ UNCHANGED <<mpc, thread, lock, stop, sourceVars, dataVars, snap,
                 histVars>>

-----------------------------------------------------------------------------
(* The main thread: start(), snapshot(), stop().                           *)

Start ==
  /\ mpc = "ready" /\ mpc' = "running"
  /\ thread' = TRUE /\ wpc' = "check"
  /\ UNCHANGED <<lock, stop, sourceVars, dataVars, snap, histVars>>

\* Seeded fault: the snapshot is assembled without taking the lock.
SnapshotUnlocked ==
  /\ mpc \in {"ready", "running"}
  /\ snap' = [connection |-> status, view |-> LiveView]
  /\ UNCHANGED <<threadVars, sourceVars, dataVars, histVars>>

Snapshot ==
  /\ mpc \in {"ready", "running"} /\ lock = "free"
  /\ snap' = [connection |-> status, view |-> LiveView]
  /\ UNCHANGED <<threadVars, sourceVars, dataVars, histVars>>

\* stop() may be called before start() and again after it returned.
Stop ==
  /\ mpc \in {"ready", "running", "stopped"}
  /\ stop' = TRUE
  /\ mpc' = IF thread THEN "joining" ELSE "closing"
  /\ stopAt' = IF stop THEN stopAt ELSE clock
  /\ UNCHANGED <<wpc, thread, lock, sourceVars, dataVars, snap, published,
                 opens, joined>>

JoinReturns ==
  /\ mpc = "joining" /\ wpc = "exited"
  /\ mpc' = "closing" /\ thread' = FALSE /\ joined' = TRUE
  /\ UNCHANGED <<wpc, lock, stop, sourceVars, dataVars, snap, published,
                 stopAt, opens>>

JoinTimesOut ==
  /\ mpc = "joining" /\ wpc # "exited"
  /\ mpc' = "closing" /\ thread' = FALSE
  /\ UNCHANGED <<wpc, lock, stop, sourceVars, dataVars, snap, histVars>>

\* Seeded fault: stop() leaves the source to the worker.
StopLeavesOpen ==
  /\ mpc = "closing" /\ mpc' = "stopped"
  /\ UNCHANGED <<wpc, thread, lock, stop, sourceVars, dataVars, snap,
                 histVars>>

\* The end of stop(): the main thread closes the source, without the lock.
StopCloses ==
  /\ mpc = "closing" /\ mpc' = "stopped"
  /\ CloseSource
  /\ UNCHANGED <<wpc, thread, lock, stop, serial, loop, plugged, sent,
                 exhausted, dataVars, snap, histVars>>

-----------------------------------------------------------------------------
(* The environment: the port comes and goes, the device sends lines.       *)

\* An unplugged device takes the handle and what was not yet read with it;
\* the lines in the source's own buffer, a prefix of them, stay.  The handle
\* of a file dies with its disk, and outlives a name that is removed.
PlugOrUnplug ==
  /\ plugged' = ~plugged
  /\ \/ /\ plugged /\ src = "open" /\ (serial \/ sent < MaxLines)
        /\ src' = "dead"
        /\ \E n \in 0..Len(wire) : wire' = SubSeq(wire, 1, n)
     \/ ~(plugged /\ src = "open" /\ serial) /\ UNCHANGED <<src, wire>>
  /\ UNCHANGED <<threadVars, serial, loop, sent, exhausted, dataVars, snap,
                 histVars>>

DeviceSends ==
  /\ serial /\ src = "open" /\ sent < MaxLines
  /\ \E line \in Lines : wire' = Append(wire, line)
  /\ sent' = sent + 1
  /\ UNCHANGED <<threadVars, src, serial, loop, plugged, exhausted, dataVars,
                 snap, histVars>>

-----------------------------------------------------------------------------
Worker == \/ CheckStop \/ EnsureOpen \/ OpenSucceeds \/ OpenFails
          \/ SetConnected \/ PollBegin \/ PollLine \/ PollReturns \/ PollRaises
          \/ IdleWaitEnds \/ SetDisconnected \/ SafeClose \/ RetryWaitEnds

Stopping == JoinReturns \/ JoinTimesOut \/ StopCloses

Main == Start \/ Snapshot \/ Stop \/ Stopping

Environment == PlugOrUnplug \/ DeviceSends

Next == Worker \/ Main \/ Environment

Spec == Init /\ [][Next]_vars

(***************************************************************************)
(* The worker thread keeps running: every read, open and wait of its loop  *)
(* returns (the port's own timeouts), and the interpreter keeps scheduling *)
(* it.  Nobody is obliged to start, to stop, to plug or to send, and stop()*)
(* need not get past its join.                                             *)
(***************************************************************************)
FairSpec == Spec /\ WF_vars(Worker)

-----------------------------------------------------------------------------
TypeOK ==
  /\ wpc \in WorkerPC /\ mpc \in MainPC /\ thread \in BOOLEAN
  /\ lock \in {"free", "worker"} /\ stop \in BOOLEAN
  /\ status \in Connection
  /\ serial \in BOOLEAN /\ loop \in BOOLEAN
  /\ src \in {"open", "dead", "closed"} /\ plugged \in BOOLEAN
  /\ wire \in Seq(Line) /\ sent \in Nat /\ exhausted \in BOOLEAN
  /\ state \in State /\ got \in 0..PollBatch /\ clock \in Nat
  /\ upd \in Optional(Nat)
  /\ snap \in Optional([connection : Connection, view : View])
  /\ published \in View
  /\ stopAt \in Optional(Nat) /\ opens \in 0..2 /\ joined \in BOOLEAN

\* The status never overstates the source: while it says CONNECTED the
\* source has not been closed, through every disconnect, retry and reopen,
\* as long as stop() has not been called (order of _set_status and
\* _safe_close).
ConnectedIsOpen == status = "CONNECTED" /\ ~stop => src # "closed"

\* A snapshot shows a position exactly when it shows a fix, whatever mix of
\* GGA and RMC sentences, with and without fix, led to it (_apply).
SnapshotCoherent == snap # None => FixMeansPosition(snap.view.state)

\* After stop() is requested the worker reads at most one more batch, from
\* whatever point of its loop (the stop test between batches).
StopIsPrompt == stop => clock - stopAt <= PollBatch

\* A stop() whose join saw the thread end leaves the port closed for good.
JoinedStaysClosed ==
  mpc = "stopped" /\ joined => src = "closed" /\ wpc = "exited"

\* The lines that are counted among the first n of the file.
Sentences(n) == Cardinality({i \in 1..n : FileLines[i].type # "blank"})

\* A replay whose snapshot says it is exhausted has applied every line of
\* its file: once, or, where the file had to be opened again after a read
\* that failed and was begun anew, at least once
\* (wait_until_sources_exhausted relies on it).
ExhaustedIsComplete ==
  snap # None /\ snap.view.exhausted =>
    /\ snap.view.state.seen >= Sentences(Len(FileLines))
    /\ opens = 1 => snap.view.state.seen = Sentences(Len(FileLines))

\* Why the four invariants above hold: what each thread knows at its place.
StopKnown == mpc \in {"joining", "closing", "stopped"} => stop

OpenKnown ==
  /\ wpc = "opened" /\ ~stop => src # "closed"
  /\ wpc = "closing" => status = "DISCONNECTED"

\* The lines read since the stop: none before the poll that the stop did not
\* prevent, those of that poll while it lasts, and a batch for good.
StopBudget ==
  stop => /\ stopAt \in Nat
          /\ clock - stopAt <= PollBatch
          /\ wpc \in {"ensure", "opening", "opened", "pump"} => clock = stopAt
          /\ wpc = "polling" => clock - stopAt <= got

JoinKnown ==
  joined => wpc = "exited" /\ mpc \in {"joining", "closing", "stopped"}

StateCoherent == FixMeansPosition(state)

\* The inductive invariant behind the theorems on this module.
Inductive ==
  /\ ConnectedIsOpen /\ SnapshotCoherent /\ JoinedStaysClosed
  /\ StopKnown /\ OpenKnown /\ StopBudget /\ JoinKnown /\ StateCoherent

\* The worker, its lock and its source together behave as ReceiverFeed:
\* a snapshot never shows part of a batch, nor one half of a status change.
Feed == INSTANCE ReceiverFeed WITH conn <- status, view <- published
FeedSpec == Feed!FeedSpec

\* Why it does: the lock is held for exactly a poll, what is published is
\* what the lock guards, and only a file that was opened is ever exhausted.
FeedKnown ==
  /\ mpc = "ready" => wpc = "unstarted"
  /\ lock = "worker" <=> wpc = "polling"
  /\ wpc \in {"pump", "polling"} => status = "CONNECTED"
  /\ wpc \in {"opening", "opened"} => status = "CONNECTING"
  /\ published.upd = upd /\ published.exhausted = exhausted
  /\ published.state.seen <= state.seen
  /\ lock = "free" => published.state = state
  /\ upd # None => upd <= clock
  /\ exhausted => ~serial
  /\ opens = 0 => /\ src = "closed" /\ ~exhausted
                  /\ snap # None => ~snap.view.exhausted

\* What is left of a replay is the rest of its file; what came before it has
\* been counted, and nothing else if the file was opened once and does not
\* start again.
EndsForGood == loop => FileLines = <<>>

Replaying ==
  LET read == Len(FileLines) - Len(wire)
  IN  /\ read \in Nat /\ state.seen >= Sentences(read)
      /\ opens = 1 /\ EndsForGood => state.seen = Sentences(read)
      /\ \A i \in 1..Len(wire) : wire[i] = FileLines[read + i]

\* A replay begins when its file is first opened, and one that is exhausted
\* is at the end.
ReplayKnown ==
  ~serial =>
    /\ opens = 0 => state.seen = 0
    /\ src = "closed" => wire = <<>>
    /\ src = "open" => Replaying
    /\ exhausted => /\ EndsForGood /\ wire = <<>>
                    /\ state.seen >= Sentences(Len(FileLines))
                    /\ opens = 1 => state.seen = Sentences(Len(FileLines))

\* A stopped worker thread ends: no wait or retry outlives the stop event.
StopEndsWorker == stop /\ wpc # "unstarted" ~> wpc = "exited"

\* A running worker whose device stays plugged ends up connected for good,
\* however many disconnects came before.
Reconnects ==
  <>[](plugged /\ mpc = "running") => <>[](status = "CONNECTED")

\* A running worker whose port is gone for good ends up never CONNECTED.
NoticesUnplug ==
  <>[](serial /\ ~plugged /\ mpc = "running") => <>[](status # "CONNECTED")

\* After stop() has returned the port is closed and no worker reopens it.
PortClosedAfterStop == serial /\ mpc = "stopped" => src = "closed"
=============================================================================
