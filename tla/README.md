# gnss-monitor: TLA+ models, model checking and proofs

gnss-monitor watches a handful of GNSS receivers on serial ports (or replayed
from files), judges each one against its expected position, scores it for signs
of spoofing, and shows the result on a terminal dashboard; optionally it logs
everything it read. This directory holds TLA+ modules translated from the
Python source, TLC configurations that check them on small instances, and
theorems checked by TLAPS.

Paths below are relative to `src/gnss_monitor/` unless they start otherwise.

## 1. The system

    serial port / file          one thread per receiver        main thread
    sources/*.py  --lines-->  live/worker.py  --snapshots-->  live/controller.py
                               | framing/, parsing/             | monitor/evaluator.py
                               | monitor/receiver_monitor.py    | analysis/ (scoring)
                               |                                | live/event_log.py
                               | on_raw, on_parsed              | live/dashboard.py
                               v                                v record_snapshot
                            data_logging/logger.py: bounded queue
                               | one background thread
                               v
                            data_logging/writers.py --> files

| Component | State | Operations | Interacts by |
|---|---|---|---|
| `ReceiverWorker` (live/worker.py) | thread, stop event, lock, status, last update | start, stop, snapshot, `_run` loop: open, poll a batch, back off | lock shared with the main thread; calls its source; stop() closes the source from the main thread |
| `ReceiverMonitor` (monitor/receiver_monitor.py) | `ReceiverState` | poll, `_process_line`, `_apply` | called by the worker under its lock; hands records to the data logger |
| Sources (sources/) | handle, byte buffer, exhausted flag | open, read_line, close | the device or the file; no retry of their own |
| Framer, parser | counters | frame, parse | pure calls |
| `PositionEvaluator` (monitor/evaluator.py) | none | evaluate | reads a snapshot and the clock |
| `LiveController` (live/controller.py) | last status, connection, fix, health per receiver; stop event | start, run, one frame (snapshots, evaluations, scores, rows), request_stop, stop | snapshots of all workers in turn; event log; data logger |
| `EventLog` (live/event_log.py) | ring of twelve events | record, recent | main thread only |
| `AnalysisEvaluator` and rules (analysis/) | the last two samples of each receiver | update, evaluate_all | called by the controller |
| `DataLogger` (data_logging/logger.py) | bounded queue, throttle slots, overflow flag, thread | on_raw, on_parsed, record_snapshot, close | called from every worker thread and from the main thread |
| Writers (data_logging/writers.py) | open handle, its day and its buffer, per writer | write, close | background thread (and close() from the main thread) |
| Process (cli.py, app.py) | mode, installed signal handlers, exit code | main, run, `_handle_signal` | builds one controller; its handler calls request_stop() on the main thread |
| Simple Mode (monitor/controller.py) | sources, what each has read, options | open, tick, render, close | single threaded |
| Dashboard (live/dashboard.py) | the height drawn so far, the terminal | update: compose, cut, write in place | asks the terminal for its size twice per frame |
| `config/` | immutable | load, validate, merge overrides | read once |

`bus/`, `channels/`, `consumers/` and `analysis/base.py` are empty files.

**What is hard.** Two threads per receiver share a lock, a stop event and a
source that either may close; the port disappears and comes back at any moment;
the stop's join has a timeout. The render loop samples all that at its own pace
and derives events, freshness and delta-based scores from what it happened to
see. Signals interrupt the main thread between any two bytecodes, the terminal
is resized between the two times a frame asks for its size, the disk fails or
the process dies between a file's creation and its first row. Many producers share one bounded queue with one writer, and a shutdown
races with all of it. `PROJECT.json` lists each hazard at its line.

**What makes each part correct.**

- Worker: a snapshot is one instant's status and whole batches; the status never
  overstates the source; a stop is prompt, returns, and leaves the port closed; a
  device that stays plugged ends up connected.
- Receiver state: the fix flag and the coordinates are one fact.
- Controller: what a screen shows was current when it was evaluated, the event
  log and the rows of one screen tell one story, no change is told twice, the
  score in a row is the score of what the row shows, a stop ends the loop.
- Data logger: the archive is a lossy FIFO; nothing disappears unaccounted; rows
  are spaced; close() comes to an end, and one that returns has flushed.
- Writers: an acknowledged row survives every later crash, failure, close and rotation;
  no row is there twice; a file has one header; a row is in its day's file.
- Process: a clean exit has torn everything down and is never an accident; a stop
  that was asked for ends the process within what the service allows.
- Simple Mode: a replay that ends of itself has read every file to its end (in
  batches of at least one line).
- Scoring: the time rule takes the short way around midnight, references and
  agreeing peers are neutral, a worse reading never scores less.
- Dashboard: no remains of older frames; when there is no room the receivers
  come first, and none is left out silently.

## 2. Modules

| Module | Models | Code it stands for |
|---|---|---|
| `ReceiverState` | a receiver's state and what one line does to it; pure operators | receiver_monitor.py; parser.py, framer.py as a classification of lines |
| `ReceiverFeed` | abstract: what a worker promises to the render loop | - |
| `ReceiverWorker` | the worker thread, its source, and the main thread's start/snapshot/stop | live/worker.py, sources/ |
| `Archive` | abstract: a lossy bounded FIFO log whose files have a buffer | - |
| `DataLogger` | producers, queue, background thread, close() | logger.py |
| `DailyWriters` | rotation, headers, buffers, failures, close() in mid-write, crashes and restarts | writers.py |
| `Scoring` | samples, histories, all eight rules, total, classification; pure operators | analysis/ |
| `ScoringWorld` | `AnalysisEvaluator` alone, fed in any order | analysis/evaluator.py |
| `LiveController` | the render loop over N feeds, with scoring and the event ring | live/controller.py, event_log.py, evaluator.py |
| `LiveShutdown` | `LiveController.run()` from start() to the end of stop(), with failures and joins that time out | live/controller.py |
| `SimpleMode` | the replay loop over file sources | monitor/controller.py, file_source.py |
| `StopEvent` | the stop event with its lock, Event.wait, and the signal handler | app.py, `request_stop` |
| `Application` | the process: mode, handlers, exit code, SIGKILL; composes the three above | cli.py, app.py |
| `Dashboard` | layout for a size, truncation, drawing in place, the terminal | live/dashboard.py |
| `*Proofs` | theorems (section 4) | - |
| `Folding` | lemmas: induction, sums, maxima and folds of the community modules | - |
| `MC*` | constants for TLC | - |

    ReceiverState <- Scoring <- LiveController         StopEvent <- SimpleMode   <- Application
          ^             ^- ScoringWorld                    ^------- LiveShutdown <------'
          '- ReceiverWorker -refines-> ReceiverFeed
             DataLogger     -refines-> Archive         DailyWriters      Dashboard

`LiveController` does not repeat the worker's threads: its receivers change as
`ReceiverFeed` allows (its `ConnectionChanges` and `LineArrives`), and
`ReceiverWorker` is proved to refine `ReceiverFeed` (`FeedSpec`). So the
composition of loop and workers is treated in two halves that meet in
`ReceiverFeed`. In the same way `DataLogger` hands a row to "the disk", and
`DailyWriters` is what the disk does with it.

### How state and actions correspond to the code

`ReceiverWorker`: `wpc` is the place in `_run`; `lock` is `_lock`; `stop` is
`_stop`; `status` is `_status`; `src` is the source's handle (`dead`: a handle
whose device, or whose file's disk, has gone); `wire` is what can be read without
waiting; `state`, `upd` are the monitor's state and `_last_update_wall`; `serial`
and `loop` say which source the channel has, and never change. A read on a dead
handle raises once what was buffered has been read; the worker then closes the
source and opens it again, a file at its first line. One action stands for each
stretch of code between two places where the other thread can act: a poll is one
`PollBegin`, a `PollLine` per line read, and `PollReturns` or `PollRaises`,
because stop() can close the source under a poll although it cannot look at the
state. `published`, `stopAt`, `opens`, `joined` are history variables: they are written
and never read by a guard.

`DataLogger`: `_enqueue` on a full queue is three steps (`Enqueue`, `TestWarned`,
`Warn`), as is the end of a turn of `_run` (`CheckEmpty`, `ResetWarned`), since
nothing locks the flag. A write is `OpenHandle`, `WriteRow` (into the handle's
buffer) and `FlushRow`. Where opening or writing raises, the row is lost
(`WriteFails`); where the flush does, the row counts as `failed` and stays in the
buffer (`FlushFails`), from where a later flush may write it and a later close
may lose it: `flushed` says how many of a file's `rows` are on disk. close() puts
the sentinel, joins, and closes one writer after the other; a writer's close()
may raise, and then so does the logger's, with the writers after it left open.

`DailyWriters`: a writer is one cached handle. `pc` is the place inside write():
the day's file is noted and opened, a CSV file that did not exist gets its
header, the row goes into the handle's buffer, and flush() moves the buffer to
the file. Each of these may fail (the exception that `_run` catches), and `Crash`
may come between any two of them; a restart reads which files exist and nothing
else. A flush that fails keeps the buffer, as Python's does. `CloseWriter` is the
main thread's close(), which a join that timed out puts in the middle of a write:
a raw writer goes on with the handle it has, a CSV writer looks its up again and
finds none. `Crash` is any end of the process: what was flushed stays. `PowerLoss`
takes flushed rows too, since nothing is fsynced; it is part of `PowerSpec` only.

`StopEvent`: `handlers` is the stack of `_handle_signal` frames on the main
thread. The main thread moves only while it is empty; a handler needs the lock
of the event's condition, which `held` says is taken. `LiveShutdown` and
`SimpleMode` are the two controllers' run() on top of it, `lpc` and `spc` their
places, and every call that may raise has a branch that does, the logger's
close() included. `batch` is `--batch`, of which 0 stands for every value below
1: the command line takes them, and nothing is then ever read. `Application` runs
whichever was built; without handlers a signal ends the process at once, and with
them `Escalate` is systemd's SIGKILL after `Grace` seconds. `elapsed` and
`stalls` are history variables: seconds since the stop was asked for, and joins
that timed out.

`Dashboard`: a frame is `Compose` for one size, a second look at the size, and
the write; `Resize` may come between them. A line is its section, what it is
about, its width and whether it is whole. What the terminal makes of it is
`Wrapped` (a line wider than the terminal takes several rows) and `Shows` (it
scrolls when it runs out of rows); a resize blanks what it uncovers. `narrowed`
is history: a frame has been written to a terminal narrower than it was composed
for, which the second look at the size, at the height only, does not notice.

`LiveController`: a frame is a `TakeSnapshot` per receiver, an `EvaluateReceiver`
per receiver, `Score` (update of the histories, evaluate_all), a `TellHealth` per
result (the events of health changes), and `Draw` (rows, then the events: the
order of `dashboard_model`). The workers and the clock move between any two of
these steps. Initially nothing was ever
observed (`None`), which is what keeps the first frame from telling changes.

### Abstractions

- A latitude/longitude pair is one token; in `Scoring` and `LiveController` a
  position is a longitude on one parallel, in whole metres, that ends at the 180th
  meridian on both sides (`Circle` is the way around). A distance is the shorter
  way, hence exact; a centroid is the arithmetic mean, as in the code. The weights
  of the two rules that scale are multiples of their range, so points are whole.
- A line is a record of what framer and parser make of it: type, checksum, fix
  position or none, satellites, HDOP, speed. The altitude and the C/N0 map of GSV
  sentences are left out; `LiveController` therefore scores with no C/N0 values,
  and `ScoringWorld` gives them to the rule directly.
- The receiver's own clock is exact: the UTC of a fix is the time it was read.
- Wording is left out: an event is who, which kind and what it says, and a text
  on the dashboard is its width. The plain rendering appends the same lines.
- The order in which one frame's health events of several receivers are told is
  the order of the channels; in the code, the order of their first scoring.
- `_log_data` (the controller's calls into the data logger) is modelled in
  `DataLogger` as `RecordSnapshot` at any pace, not in `LiveController`.
- A row reaches the file whole or not at all. In `DataLogger` the writers of one
  kind are one handle. In `DailyWriters` one writer's close() is one step, and the
  raw writer's handles, which the code forgets only after it has closed the last
  of them, are either forgotten or still there, closed.
- `ReceiverFeed` lets a view be un-exhausted (`Reopen`) when a source is opened again.
- `LiveShutdown`: the logger's queue has a free slot for the sentinel (a full one
  before a stalled disk is `logger_stalled_disk.cfg`). The `KeyboardInterrupt`
  clause of `run()` is left out: `app.py` replaces that signal's handler.
- `Dashboard`: a resized terminal neither wraps anew what is on the screen nor
  brings back lines that scrolled off. `NothingStale` excepts a terminal of a single row, which scrolls
  whatever is written to it, and `WidthRespected` a terminal of less than 27
  columns, where the fixed texts that the code never cuts (the headings of the
  sections, the text of an empty table) are wider than the screen.
- `Scoring` assumes what schema.py validates of `AnalysisConfig`. That
  `weightFailure` is at least `weightWarning` is not validated there; the
  instances choose it so.

## 3. Runs

Bounds that the code does not have are constants named `Max...` and appear in
the guards: `MaxLines` (lines a device sends), `MaxTime` (clock), `MaxSignals`,
`MaxLength` (lines of a replayed file), `MaxBatch`, `MaxRecords`, `MaxFailures`, `MaxCrashes`,
`MaxFrames`, `MaxResizes`; `FrameTime` bounds how long a frame takes. The code's
own limits are constants too: `MaxQueue`, `Capacity`, `PollBatch`.

| Run | Question | Instance |
|---|---|---|
| `worker` | types, snapshots, status, stop, complete replays, refinement of `ReceiverFeed`; a stop ends the worker, reconnection, noticing an unplug | a port that comes and goes, or a three-line file with a blank line whose reads may fail, looping or not; batch of 2, three kinds of line, 3 lines or beginnings of the file; early, repeated and late stops |
| `logger` | lossy FIFO (refinement of `Archive`), conservation, order, spacing of rows, flush on close; close() ends, records leave | a worker and the render loop, queue of 2, 2 lines, interval 1, clock to 1; opens, writes, flushes and closes that fail |
| `controller` | freshness, score against row, rows against events, no repeated event | 1 receiver, scoring on, ring of 2, timeout 1, clock to 2, 3 kinds of line |
| `application` | clean exits, the service's grace, complete replays; a stop ends the process, a replay ends | both modes; 2 signals; 5 workers with joins of 2 s and grace of 10 s; 2 files of up to 3 lines, batches of 0 to 2, any options, missing files |
| `writers` | durability, no duplicates, headers, the day's file | one raw and one CSV writer, rotating or not, 2 days in any order, 3 records, 2 failures, 2 crashes or restarts, close() anywhere |
| `dashboard` | no remains, precedence, nothing hidden silently, widths | 4 sizes, 3 models of up to 5 receivers, 3 frames, 3 resizes |
| `scoring` | midnight, references, agreeing peers, monotonicity | 3 interchangeable peers and a reference, a day of 8 units, a parallel of 12 m with readings on both sides of its 180th meridian, at the limits of the rules |

Why these bounds are enough. A batch of two lines has a middle and a full-batch
exit, and three lines make a second batch follow a full one; a file begun three
times fails twice, or is looped over and fails. A batch of nothing is a case of
its own, and batches of one and two end inside and at the end of a file. A queue of two with
two sentences and two snapshot rows overflows, drains and overflows again while
close() waits for a slot; the receivers of `DataLogger` differ only in their name,
and each row's order and spacing is about one of them, so one worker thread and
the main thread are the two producers; two snapshot rows of different seconds and
a row that a failed flush leaves under one that succeeds are within the bounds. A ring of two overflows within the first
frame that has news; a timeout of one with a clock to two lets a receiver go
silent and, with a second line, come back. `ShownIsCurrent`,
`LogTellsTheScreen`, `EventsAlternate` and `ScoreMatchesRow` speak of each
receiver alone, so their run has one; the instance on the centroid has two. Two
signals are one that finds the main thread anywhere and one that finds the other's
handler anywhere. Five workers, two-second joins and ten seconds are the
repository's own numbers: four stalls are possible and too many. Two days can
alternate, so a writer returns with its third record to a file it has left; two
failures hit a header and the row after it, or a flush and the close that follows;
two crashes fall before and after a restart. The sizes of
the dashboard are a roomy terminal, one that must drop columns, one that must
drop receivers, and one that packs its chrome; three frames and three resizes
shrink and grow again around one that fits, and half a width makes every long line
wrap. On the parallel of twelve metres two readings are on one side of the 180th
meridian and one is on it, at -6, next to 5 and far from it by their mean. A history holds two readings, so
every state of the scoring engine is reached after two updates per receiver.

Deadlock is checked for the worker (a plug or unplug is always possible) and for
scoring. It is off where the system ends: the logger after close(), the
controller after its teardown, the process after its exit, and the writers and
the dashboard when their bounds are used up.

Each property has a seeded fault beside the definition it replaces
(`PollLineUnbounded`, `SnapshotUnlocked`, `PutStopFirst`, ...; listed under
"mutants" in `PROJECT.json`); with the fault in place TLC finds the property
violated.

### Disagreements between the code and what it says of itself

Each of these runs checks one statement of a doc, comment or docstring, and TLC
finds the code's behaviour that contradicts it. `PROJECT.json` quotes each.

| Run | Statement violated | What happens |
|---|---|---|
| `worker_late_open` | every port is closed, every thread joined before exit | the join times out during a slow open(), which then completes |
| `controller_gap` | delta rules do not span a gap | the first reading after a silence is compared with the last before it |
| `application_signal` | request_stop is safe from a signal handler | the handler waits for the event's lock, which the frame below it holds |
| `writers_misfiled` | a row is filed under the day it happened | a failed header leaves the new day's file under the old day's key |
| `dashboard_colour` | text is truncated before it is coloured | a coloured heading is cut although the terminal has room for it |

Running the repository's dashboard at 160 columns shows the last one: the
headings after the first nine are missing.

Further configurations, with the same meaning, that are run by hand
(`tlc -config X.cfg M`):

| Configuration | Module | Shows |
|---|---|---|
| `logger_stalled_disk.cfg` | `DataLogger` | "never block the caller on disk I/O": close() waits in put() behind a stalled write |
| `controller_stale_peer.cfg` | `MCLiveController` | "stale data is not used": the centroid keeps the last position of a silent receiver |
| `controller_reconnecting.cfg` | `MCLiveController` | "a disconnected receiver's position is withheld": a frame observes CONNECTING during a retry |
| `controller_noise.cfg` | `MCLiveController` | "without any valid sentence": noise and bad checksums refresh the timeout |
| `logger_close_raises.cfg` | `DataLogger` | "its own public methods never raise": close() flushes what a failed flush left, and raises; a late row of a raw file can do it too |
| `logger_late_write.cfg` | `DataLogger` | after a close() whose join timed out, the background thread opens a file again |
| `writers_power_loss.cfg` | `DailyWriters` | "a crash or power loss loses at most the last unflushed row": nothing is fsynced |
| `application_interrupted.cfg` | `Application` | a KeyboardInterrupt while the handlers are restored turns a run() that raised, with nothing torn down, into exit status 0 |
| `dashboard_narrowed.cfg` | `MCDashboard` | "enforced again right before the write": the height is, the width is not, so a frame wraps and its first lines scroll away |
| `scoring_meridian.cfg` | `MCScoring` | "its peers' centroid": a mean of longitudes on both sides of the 180th meridian is on the other side of the earth |
| `dashboard_types.cfg` | `MCDashboard` | the type invariant of `Dashboard`, which holds |

Smaller differences of the same kind, seen in the same models and kept only as
notes under "hazards": a fix without its last-update stamp after an error in the
middle of a batch; overflow warnings that come twice or not at all; a dropped
snapshot row that uses up its slot; a reconnection told as "connected" or a
retry told as another disconnect when a frame observes the worker half way;
scoring against the site's position for a channel that overrides it; a replay
with `--batch 0` that reads nothing and succeeds; "Application
stopping" pushed out of the ring of twelve by the last frame's own events.

### Fairness

- `ReceiverWorker!FairSpec`: weak fairness of the worker thread: every read, open
  and wait of its loop returns (the port has its own timeouts) and the
  interpreter schedules it. Nobody is obliged to start, stop, plug or send, and
  stop() need not get past its join.
- `DataLogger!StalledDiskSpec`: weak fairness of the background thread outside
  the disk and of close(); `FairSpec` adds that a write returns or fails. put()
  waits for a slot, which workers that never stop could keep from it, so
  `CloseEnds` is about a logger to which they offer nothing more (`Quiet`):
  LiveController.stop() stops them first.
- `Application!FairSpec`: weak fairness of the main thread and of the signal
  handler that runs on it: every call of theirs returns or raises, and
  Event.wait() has a timeout. Nobody is obliged to send a signal. A handler that
  waits for a lock below it is not enabled, so fairness does not help it: that
  is why `StopEnds` and `ReplayEnds` say "or `Stuck`".

The other modules state no fairness; their properties are safety properties.

## 4. Proofs

Every theorem holds for all values of the constants that satisfy the named
assumptions of the modules (`NoneAssumption`, `WorkerAssumption`,
`LoggerAssumption`, `WritersAssumption`, `StopEventAssumption`,
`SimpleModeAssumption`, `LiveShutdownAssumption`, `ApplicationAssumption`,
`ScoringAssumption`, `SampleAssumption`, `ControllerAssumption`,
`WordsAssumption`, `DashboardAssumption`), which TLC evaluates in the runs.
`NoneAssumption`, `SampleAssumption` and `WordsAssumption` only say that `None` is
none of the values it stands beside; the others are what the schema validates or
the type of a value. `DashboardAssumption` also says that the status line has a
text, and `LiveRow` that a receiver without a result has no triggered rules.
Each proof is the same three facts about an inductive invariant, checked by TLC
before it was proved: it holds initially, every step keeps it, it implies the
property. The invariants are defined at the end of the component's module
(`Inductive`, `Telling`, `ReplayKnown`, ...), those of `Dashboard` in its proofs.

| Module | Theorem | Property |
|---|---|---|
| `ReceiverWorkerProofs` | `TypeCorrect`, `ConnectedOpen`, `StopPrompt`, `JoinedClosed`, `SnapshotsCoherent` | `TypeOK`, `ConnectedIsOpen`, `StopIsPrompt`, `JoinedStaysClosed`, `SnapshotCoherent` |
| | `ExhaustedComplete` | `ExhaustedIsComplete` |
| | `ImplementsFeed` | `FeedSpec` (refinement) |
| `DataLoggerProofs` | `TypeCorrect`, `InOrder`, `Spaced`, `CleanCloseComplete`, `NothingLostUnknown` | `TypeOK`, `WrittenInOrder`, `SnapshotsSpaced`, `CleanCloseFlushes`, `NothingVanishes` |
| | `ImplementsArchive` | `ArchiveSpec` (refinement) |
| `DailyWritersProofs` | `TypeCorrect`, `AcknowledgedDurable`, `WrittenOnce`, `HeadersFirst`, `FiledByOwnDay` | `TypeOK`, `AckedIsDurable`, `NoRowTwice`, `HeaderOnlyFirst`, `RowsFiledByDay` |
| `ApplicationProofs` | `SuccessTornDown`, `ReplayComplete`, `LiveSuccessAskedFor` | `CleanExitTornDown`, `ReplayIsComplete`, `CleanLiveExitWasAsked` |
| | `ThreeStallsTolerated` | `GraceToleratesThreeStalls`, if `2 * FrameTime + 3 * JoinTimeout < Grace` and the logger's timeout is no longer than a worker's |
| `LiveControllerProofs` | `TypeCorrect`, `CurrentShown`, `ChangesAlternate`, `ScreenConsistent`, `ScoresMatch` | `TypeOK`, `ShownIsCurrent`, `EventsAlternate`, `LogTellsTheScreen`, `ScoreMatchesRow` |
| `ScoringProofs` | `MidnightIsNoJump`, `ReferencesAreNeutral`, `AgreeingIsQuiet`, `WorseScoresMore` | `JumpIsShortWay`, `ReferencesNeutral`, `AgreementIsQuiet`, `WorseNeverScoresLess` |
| `DashboardProofs` | `TypeCorrect`, `ReceiversComeFirst`, `NoneHiddenSilently`, `WidthIsRespected`, `NothingIsStale` | `TypeOK`, `ReceiversFirst`, `NothingHiddenSilently`, `WidthRespected`, `NothingStale` |

With these every invariant of a passing run and both refinements are proved.

**Folds.** The rules of the scoring engine add up positions, and the layout packs
texts and joins blocks: sums, maxima and folds of the community modules, each of
them defined by recursion over a CHOOSE. An induction theorem that takes a
predicate cannot be used by the provers, but one that takes the *set* of what is
good can: `Folding` derives `SubsetInduction` and `NumberInduction` from the
well-foundedness of the strict subset ordering. On these rest the existence of a
fold, that two functions with the same recursion agree (`FoldsAgree`), the
recursion of a sum over any order of its elements (`SumRecursion`), that `Max` is
the greatest (`MaxIsGreatest`), and that a fold over a sequence is the last of a
chain of intermediate results (`ChainExists`, `SameEnd`, `Joined`).

**Worker.** No property is inductive by itself. `Inductive` adds what each thread
knows at its place: between a successful open() and `_set_status(CONNECTED)` the
source is open unless stop() was called (`OpenKnown`); the main thread is past
`_stop.set()` whenever it joins or closes (`StopKnown`); a worker whose join was
seen never runs again (`JoinKnown`); the lines read since the stop are none until
the poll the stop came too late for, as many as that poll has processed while it
lasts, and at most one batch for good (`StopBudget`); and the state itself, of
which a snapshot is a copy, is coherent (`StateCoherent`). For the refinement
`FeedKnown` says how what was published relates to what the lock protects; each
step is then a step of `ReceiverFeed` or leaves its variables alone. For complete
replays `ReplayKnown` says that what is left on the wire of an open file is a
suffix of the file and that the sentences before it have been counted: at least
once, and once if the file was never begun anew. It leans on `FeedKnown` for what
has been published, and `ReceiverFeed` grants the reopening its own step
(`Reopen`).

**Logger.** `OrderKnown` puts the rows given to a file, the record in hand and the
queue into one ascending sequence per receiver and kind; a failed flush does not
disturb it, because its rows stay where they are in the buffer. `HeldKnown` says
what the background thread has in hand at its place, `StopKnown` where the
sentinel can be, `HandlesKnown` that only an open handle has a buffer and that a
handle which close() has come past is open only if the thread runs on,
`FailedKnown` that what is in a buffer or lost has failed or is being flushed,
`LostKnown` that a lost record is nowhere else, and `Conserved` that every record
is somewhere. The proof classifies the steps by what they do to the queue and the
files (a producer offers, close() offers its sentinel, a record is taken, given to
its file or lost, a buffer is flushed or cut, nothing moves) and shows each
conjunct once per class. The same classification is the refinement of `Archive`.

**Writers.** The four properties support each other. A header is only on its way to
a file that is still empty (`HeaderKnown`); numbers grow, so the record in hand is
newer than every row until it is in the buffer (`NumbersKnown`); no row is both in
a buffer and on disk (`BufferOnce`), although a failed flush leaves rows in the
buffer that a later one writes and close() may flush in the middle of a write
(`PlaceKnown` says what each place of write() knows of its handle then); and the
handle's day is the one noted with it and
that of its buffer (`DayKnown`), which holds of CSV writers only until the disk
has failed: `writers_misfiled` is the reason.

**Process.** run() leaves its loop for a signal or an exception and then does each
part of the teardown after those before it (`LiveKnown`); a source that is
exhausted is at its file's end, as are those of a turn that read nothing, unless
batches are empty, and then nothing was ever read (`ReplayKnown`); only the controller that was built moves (`ProcessKnown`). For
the grace, `TimeKnown` bounds the time since the stop was asked for by two frames
and one timeout per stalled join.

**Controller.** The feeds change between any two steps of a frame. `FeedsKnown`
says that who has sent a sentence has its time; `LoopKnown` which snapshots the
frame has at each place of the loop; `FreshKnown` that the fresh receivers are
those that were not disconnected and within their timeout when they were
evaluated, on the snapshot that the row is made of; `ScreenKnown` that a screen
shows positions of fresh receivers of the frame it was drawn from. Nothing
changes the frame until the next begins. `ScoreKnown` adds that the results of a
frame are of its fresh receivers and of the fix and position in their rows.

For the log, `Telling` relates what the loop remembers to what the log says and to
the frame. `LogFollows`: per receiver and kind, the last event in the ring says
what the loop remembers having told last, or there is none left; a connection that
is remembered as CONNECTING may follow any word. `FrameTold`: for every receiver
the loop has already gone through in this phase, what it remembers is what the
frame found. So a new event differs from the last one of its kind
(`EventsAlternate` is kept), and when the frame is drawn memory, log and rows
agree (`LogTellsTheScreen`). Both are stated by positions in the log instead of by
a filtered copy of it, which is what lets dropping the oldest event and appending
a new one be two small lemmas.

**Scoring.** The four properties hold of every history of readings, so `TypeOK`
is all the induction needs; what is proved is about the operators.
`ReferencesNeutral` compares the peers with and without the references.
`AgreementIsQuiet` bounds the difference between a longitude and the mean of the
others by induction over the set that is summed (`SumsNear`), whatever the order
of the sum; where the 180th meridian is not between two of them, the difference
is the shorter way. `JumpIsShortWay` states the number of points and not only that there
are some, so that it holds for a weight of zero as well. `WorseNeverScoresLess`
is one lemma per rule and per way to be worse, and that `classify` is monotone in
the total.

**Dashboard.** `Composed` says that the frame that `Compose` leaves is
`Frame(model, room)` of a model it was given; it is what the three layout properties need of
the steps. The rest is a calculation: `FrameParts` takes a frame apart into
chrome, table, triggers and events, `TableShape` and `BlocksShape` say which lines
each section has for any number of rows, and `PackChunksType`, by induction over
the chunks, that no packed line is wider than allowed. `NothingStale` is
inductive only with `EmptyBelow` (below the cursor the screen is empty, and the
cursor never got further than the tallest frame that the next padding reaches)
and `Measured` (the height measured is that of a terminal not resized since). That
no line of the frame wraps follows from `WidthRespected` as long as the terminal
is not narrower than the frame was composed for (`FitsOnWidth`, `WrittenFits`).

Only model-checked: all liveness (`StopEndsWorker`, `Reconnects`,
`NoticesUnplug`, `CloseEnds`, `EveryRecordLeaves`, `StopEnds`, `ReplayEnds`),
since fairness and ENABLED are out of the prover's reach. The statements that the
code violates (section 3) have no theorem, of course.

## 5. Not modelled

- The byte buffer of the serial source and the framer's resynchronisation: a line
  arrives whole, as the framer would deliver it.
- The C/N0 map of GSV sentences, its merge per talker and its expiry, and the
  altitude. A snapshot copies the state's reference to the map; the code replaces
  the map and never changes it in place.
- The syntax of sentences: fields, coordinates, checksums. A line is what the
  parser says of it.
- Loading and merging of the YAML configuration. `AnalysisEvaluator` gets the site's
  position while `PositionEvaluator` gets each channel's own: the model has both
  (0 and `Baseline`), but no property compares them.
- The columns of the log files' rows, and the wording of everything.
- `logging_setup.py`, which configures the standard library; `monitor/dashboard.py`,
  which prints; the empty modules.

## 6. What could follow

`SerialSource` (bytes to lines over chunks, the cap, reopening); `SatelliteView`
(the C/N0 map with its expiry, shared by copy-on-write with snapshots);
`NmeaParsing`; the merge of overrides; what the logger's overflow flag guarantees
with several producers; an abstract specification of the event log, with
`EventsAlternate` as its property, that `LiveController` implements.
