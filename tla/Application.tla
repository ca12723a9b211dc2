----------------------------- MODULE Application -----------------------------
(***************************************************************************)
(* The process (cli.py, app.py): the configuration decides between live    *)
(* and replay mode, Application.run() installs its signal handlers, runs   *)
(* the controller, restores the handlers, and its result becomes the exit  *)
(* code.  Signals arrive at any point of that; under systemd a SIGKILL     *)
(* follows a SIGTERM that is not answered in time.                         *)
(***************************************************************************)
EXTENDS SimpleMode, LiveShutdown

CONSTANT Grace \* TimeoutStopSec of the systemd unit

ASSUME ApplicationAssumption == Grace \in Nat /\ None \notin {"live", "replay"}

VARIABLES
  apc,       \* where the process is
  types,     \* the source types of the configured channels
  arg,       \* --mode
  mode,      \* the controller that was built
  installed, \* the signals _handle_signal is installed for
  code       \* the exit code

appVars == <<apc, types, arg, mode, installed, code>>
vars == <<eventVars, simpleVars, liveVars, appVars>>

OK == 0            \* EXIT_OK
ConfigError == 2   \* EXIT_CONFIG_ERROR
RuntimeError == 3  \* EXIT_RUNTIME_ERROR

\* _resolve_mode: None where it raises ConfigError.
ResolvedMode ==
  IF arg # "auto" THEN arg
  ELSE IF types = {"serial"} THEN "live"
  ELSE IF types = {"file"} THEN "replay"
  ELSE None

\* The options and files of a replay only matter to a replay.
Init ==
  /\ EventInit /\ SimpleInit /\ LiveInit
  /\ apc = "configuring"
  /\ types \in (SUBSET {"serial", "file"}) \ {{}}
  /\ arg \in {"auto", "live", "replay"}
  /\ mode = None /\ installed = {} /\ code = None
  /\ ResolvedMode # "replay" =>
       optionVars = <<[r \in Replayed |-> 0], [r \in Replayed |-> FALSE],
                      FALSE, FALSE, 0>>

-----------------------------------------------------------------------------
(* cli.main().                                                             *)

Exit(c) == apc' = "exited" /\ code' = c

\* load_config or _resolve_mode raised, or there is nothing but --check.
ExitEarly ==
  /\ apc = "configuring"
  /\ Exit(ConfigError) \/ (ResolvedMode # None /\ Exit(OK))
  /\ UNCHANGED <<types, arg, mode, installed, eventVars, simpleVars, liveVars>>

\* The controller is built: Simple Mode only accepts files.
Build ==
  /\ apc = "configuring" /\ ResolvedMode # None
  /\ mode' = ResolvedMode
  /\ IF mode' = "replay" /\ "serial" \in types
     THEN Exit(RuntimeError)
     ELSE apc' = "installing" /\ UNCHANGED code
  /\ UNCHANGED <<types, arg, installed, eventVars, simpleVars, liveVars>>

-----------------------------------------------------------------------------
(* Application.run().                                                      *)

\* _install_signal_handlers, in the order of _SIGNAL_NAMES.
Install ==
  /\ apc = "installing"
  /\ IF "SIGINT" \notin installed
     THEN installed' = {"SIGINT"} /\ UNCHANGED apc
     ELSE installed' = Signal /\ apc' = "running"
  /\ UNCHANGED <<types, arg, mode, code, eventVars, simpleVars, liveVars>>

RunController ==
  /\ apc = "running"
  /\ \/ mode = "live" /\ LiveStep /\ UNCHANGED simpleVars
     \/ mode = "replay" /\ SimpleStep /\ UNCHANGED liveVars
  /\ UNCHANGED appVars

Returned == IF mode = "live" THEN lpc = "returned" ELSE spc = "returned"
Raised   == liveRaised \/ simpleRaised

\* Seeded fault: the exception is logged and run() returns True.
RestoreSwallowing ==
  /\ apc \in {"running", "restoring"} /\ Returned
  /\ IF "SIGINT" \in installed
     THEN installed' = {"SIGTERM"} /\ apc' = "restoring" /\ UNCHANGED code
     ELSE installed' = {} /\ Exit(OK)
  /\ UNCHANGED <<types, arg, mode, eventVars, simpleVars, liveVars>>

\* The finally clause of run(), and what main() makes of its result.
Restore ==
  /\ apc \in {"running", "restoring"} /\ Returned
  /\ IF "SIGINT" \in installed
     THEN installed' = {"SIGTERM"} /\ apc' = "restoring" /\ UNCHANGED code
     ELSE installed' = {} /\ Exit(IF Raised THEN RuntimeError ELSE OK)
  /\ UNCHANGED <<types, arg, mode, eventVars, simpleVars, liveVars>>

-----------------------------------------------------------------------------
(* The signals.                                                            *)

SignalHandled ==
  /\ apc \in {"installing", "running", "restoring"}
  /\ installed # {}
  /\ HandlerEnters
  /\ UNCHANGED <<simpleVars, liveVars, appVars>>

\* Without a handler SIGTERM ends the process, and SIGINT is the
\* KeyboardInterrupt that main() answers with EXIT_OK.
SignalDefault ==
  /\ apc \in {"installing", "restoring"} /\ MainRuns
  /\ signals < MaxSignals /\ signals' = signals + 1
  /\ \/ "SIGTERM" \notin installed /\ apc' = "killed" /\ UNCHANGED code
     \/ "SIGINT" \notin installed /\ apc' = "interrupted" /\ code' = OK
  /\ UNCHANGED <<types, arg, mode, installed, mainVars, handlers, simpleVars,
                 liveVars>>

\* systemd loses its patience.
Escalate ==
  /\ apc = "running" /\ signals > 0
  /\ elapsed >= Grace \/ Stuck
  /\ apc' = "killed"
  /\ UNCHANGED <<types, arg, mode, installed, code, eventVars, simpleVars,
                 liveVars>>

Main == MainRuns /\ (ExitEarly \/ Build \/ Install \/ RunController \/ Restore)

HandleSignal ==
  apc \in {"installing", "running", "restoring"} /\ Handler
  /\ UNCHANGED <<simpleVars, liveVars, appVars>>

Next == Main \/ HandleSignal \/ SignalHandled \/ SignalDefault \/ Escalate

Spec == Init /\ [][Next]_vars

\* The one thread keeps running: every frame, join and wait of it returns,
\* and so does a handler that does not wait for the lock.
FairSpec == Spec /\ WF_vars(Main) /\ WF_vars(HandleSignal)

-----------------------------------------------------------------------------
TypeOK ==
  /\ EventTypeOK /\ SimpleTypeOK /\ LiveTypeOK
  /\ apc \in {"configuring", "installing", "running", "restoring", "exited",
              "interrupted", "killed"}
  /\ types \in (SUBSET {"serial", "file"}) \ {{}}
  /\ arg \in {"auto", "live", "replay"}
  /\ mode \in {None, "live", "replay"}
  /\ installed \subseteq Signal
  /\ code \in {None, OK, ConfigError, RuntimeError}

Ran(m) == apc = "exited" /\ mode = m /\ installed = {}

\* An exit that run() calls clean has torn everything down: in live mode
\* every worker was stopped, the logger closed and the terminal restored; in
\* replay mode no file is left open.  Whatever raised where, and whenever
\* the signals came (the try/finally clauses of three functions).  The other
\* exit with status 0, main()'s answer to a KeyboardInterrupt that comes
\* while the handlers are not installed, tells nothing of a teardown: it
\* also follows a run() that raised (InterruptedExitTornDown).
CleanExitTornDown ==
  code = OK =>
    /\ Ran("live") => stopped = Workers /\ ~logger /\ ~dashboard
    /\ Ran("replay") => opened = {}

\* Live mode never ends cleanly of itself: without a signal an exit is an
\* error, which the unit's Restart= answers (app.py, run()).
CleanLiveExitWasAsked == Ran("live") /\ code = OK => signals > 0

\* The ten seconds systemd grants are enough as long as at most three
\* joins, each of two seconds, time out, and no handler is stuck.
GraceToleratesThreeStalls ==
  apc = "killed" /\ installed = Signal => Stuck \/ stalls > 3

\* The same of an exit with status 0 by KeyboardInterrupt; it does not hold.
InterruptedExitTornDown ==
  apc = "interrupted" /\ Returned =>
    /\ mode = "live" => stopped = Workers /\ ~logger /\ ~dashboard
    /\ mode = "replay" => opened = {}

\* A replay that ended of itself with success has read every file to its
\* end; with a batch below 1, which the command line takes, it has read
\* nothing at all, and succeeds.
ReplayIsComplete ==
  Ran("replay") /\ code = OK /\ signals = 0 =>
    \A r \in Replayed : at[r] = IF batch > 0 THEN file[r] ELSE 0

\* A stop that was asked for ends the process, unless the handler is stuck.
Ended == apc \in {"exited", "interrupted", "killed"}

StopEnds == ~MainRuns ~> Ended \/ Stuck

\* A replay ends of itself unless a file of at least one line starts again.
ReplayEnds ==
  apc = "running" /\ mode = "replay"
  /\ (\A r \in Replayed : looping[r] => file[r] \in {0, Missing})
    ~> Ended \/ Stuck

-----------------------------------------------------------------------------
(* Why the three invariants of a clean exit hold, of whatever length the   *)
(* files and however many the workers.                                     *)

\* A handler runs, or has set the event, only after a signal; stop() sets
\* it itself, after the loop.
EventKnown ==
  /\ signals \in Nat
  /\ ~MainRuns => signals > 0
  /\ flag => signals > 0 \/ lpc \in {"stopping", "logger", "leaving", "returned"}

\* run() of live mode leaves its loop for a signal or an exception; in its
\* finally clause each step is past those before it.
LiveKnown ==
  /\ lpc \in LivePC \ {"starting", "opening", "testing", "drawing", "waiting"}
       => liveRaised \/ signals > 0
  /\ lpc \in {"logger", "leaving"} => stopped = Workers
  /\ lpc = "leaving" => ~logger
  /\ lpc = "returned" /\ ~liveRaised =>
       stopped = Workers /\ ~logger /\ ~dashboard

ReplayTypes ==
  /\ spc \in SimplePC /\ rx \in Replayed
  /\ file \in [Replayed -> Nat \cup {Missing}]
  /\ looping \in [Replayed -> BOOLEAN] /\ done \in [Replayed -> BOOLEAN]
  /\ at \in [Replayed -> Nat] /\ progress \in BOOLEAN /\ batch \in Nat

\* Receiver r has been read to its end, and has all been read if its batches
\* are not empty.
ReadToEnd(r) == file[r] \in Nat /\ at[r] = file[r]
AllRead(r) == batch > 0 => ReadToEnd(r)

\* Every file was found before the loop; a source that does not start again
\* is never past its end, and one that is exhausted is at it, as are those
\* of a turn that has read nothing.  Empty batches never read.
ReplayKnown ==
  /\ spc \in SimplePC \ {"closing", "returned"} => ~simpleRaised
  /\ spc \in {"testing", "rendering", "deciding", "waiting"} => rx = 1
  /\ spc = "opening" => \A r \in 1..(rx - 1) : file[r] # Missing
  /\ spc # "opening" /\ ~simpleRaised => \A r \in Replayed : file[r] # Missing
  /\ spc = "returned" /\ ~simpleRaised => opened = {}
  /\ batch = 0 => \A r \in Replayed : at[r] = 0
  /\ \A r \in Replayed : file[r] # Missing /\ (looping[r] => file[r] = 0) =>
       at[r] <= file[r]
  /\ \A r \in Replayed : done[r] => ReadToEnd(r) /\ (looping[r] => file[r] = 0)
  /\ spc = "polling" /\ ~progress => \A r \in 1..(rx - 1) : AllRead(r)
  /\ spc \in {"rendering", "deciding"} /\ ~progress =>
       \A r \in Replayed : AllRead(r)
  /\ spc \in {"ending", "closing", "returned"} /\ ~simpleRaised /\ signals = 0
       => \A r \in Replayed : AllRead(r)

\* Only the controller that was built runs, and an exit code is given when
\* it has returned.
ProcessKnown ==
  /\ apc = "configuring" => mode = None
  /\ lpc # "starting" => mode = "live"
  /\ apc = "restoring" => Returned
  /\ apc = "exited" /\ mode # None /\ code = OK => Returned /\ ~Raised

\* After the stop was asked for, the frame that was being drawn and the last
\* one take their time, and then each join that times out takes its own.
Longest == IF LoggerTimeout > JoinTimeout THEN LoggerTimeout ELSE JoinTimeout

TimeKnown ==
  /\ elapsed \in Nat /\ stalls \in Nat /\ (elapsed > 0 => flag)
  /\ lpc \in {"starting", "opening", "drawing"} => elapsed = 0
  /\ lpc \in {"testing", "waiting", "lastFrame"} => elapsed <= FrameTime
  /\ lpc \in {"starting", "opening", "drawing", "testing", "waiting",
             "lastFrame", "setting", "locked"} => stalls = 0
  /\ elapsed <= 2 * FrameTime + stalls * Longest

PatienceKnown ==
  apc = "killed" /\ installed = Signal => Stuck \/ elapsed >= Grace

Inductive ==
  EventKnown /\ LiveKnown /\ ReplayTypes /\ ReplayKnown /\ ProcessKnown
=============================================================================
