---------------------------- MODULE LiveShutdown -----------------------------
(***************************************************************************)
(* The life of LiveController.run() (live/controller.py) from start() to   *)
(* the end of stop(): what may fail or take time there, and what is left   *)
(* of the teardown when it does.  The frames themselves are LiveController *)
(* and one worker's stop() is ReceiverWorker; here a worker's join returns *)
(* at once or after its timeout.  The logger's close() is DataLogger's: it *)
(* returns, in time or after its timeout, or raises; its queue is taken to *)
(* have a free slot for the sentinel.                                      *)
(***************************************************************************)
EXTENDS StopEvent

CONSTANTS
  Workers,       \* how many receivers there are
  JoinTimeout,   \* stop()'s join_timeout_s
  LoggerTimeout, \* close()'s timeout_s
  FrameTime      \* bound: seconds the locks of the workers hold up a frame

ASSUME LiveShutdownAssumption ==
  /\ Workers \in Nat \ {0}
  /\ JoinTimeout \in Nat /\ LoggerTimeout \in Nat /\ FrameTime \in Nat

VARIABLES
  lpc,       \* where run() is
  started,   \* worker threads started
  stopped,   \* workers whose stop() has returned
  stalls,    \* joins that timed out, the logger's included
  logger,    \* the data logger, or some writer of it, is open
  dashboard, \* the terminal is in the dashboard's mode (cursor hidden)
  elapsed,   \* seconds since the stop was asked for
  liveRaised \* run() ended by an exception

teardownVars == <<started, stopped, stalls, logger, dashboard>>
liveVars == <<lpc, teardownVars, elapsed, liveRaised>>

LivePC == {"starting", "opening", "testing", "drawing", "waiting",
           "lastFrame", "setting", "locked", "stopping", "logger",
           "leaving", "returned"}

LiveInit ==
  /\ lpc = "starting" /\ started = 0 /\ stopped = 0 /\ stalls = 0
  /\ logger = TRUE /\ dashboard = FALSE
  /\ elapsed = 0 /\ liveRaised = FALSE

LiveTypeOK ==
  /\ lpc \in LivePC
  /\ started \in 0..Workers /\ stopped \in 0..Workers
  /\ stalls \in 0..(Workers + 1)
  /\ logger \in BOOLEAN /\ dashboard \in BOOLEAN
  /\ elapsed \in Nat /\ liveRaised \in BOOLEAN

\* Time passes for the one who asked for the stop.
Take(seconds) == elapsed' = IF flag THEN elapsed + seconds ELSE elapsed

-----------------------------------------------------------------------------
(* start() and dashboard.open(), both before the try statement.            *)

StartWorker ==
  /\ lpc = "starting" /\ started < Workers
  /\ started' = started + 1
  /\ lpc' = IF started' = Workers THEN "opening" ELSE lpc
  /\ UNCHANGED <<stopped, stalls, logger, dashboard, elapsed, liveRaised,
                 eventVars>>

\* Writing to the terminal may raise.
OpenDashboard ==
  /\ lpc = "opening"
  /\ \/ lpc' = "testing" /\ dashboard' = TRUE /\ UNCHANGED liveRaised
     \/ lpc' = "returned" /\ liveRaised' = TRUE /\ UNCHANGED dashboard
  /\ UNCHANGED <<started, stopped, stalls, logger, elapsed, eventVars>>

-----------------------------------------------------------------------------
(* The loop.                                                               *)

TestLiveStop ==
  /\ lpc = "testing"
  /\ lpc' = IF flag THEN "lastFrame" ELSE "drawing"
  /\ UNCHANGED <<teardownVars, elapsed, liveRaised, eventVars>>

\* A frame waits for the workers' locks and is drawn, or raises.
DrawFrame ==
  /\ lpc = "drawing"
  /\ \E d \in 0..FrameTime : Take(d)
  /\ \/ lpc' = "waiting" /\ UNCHANGED liveRaised
     \/ lpc' = "lastFrame" /\ liveRaised' = TRUE
  /\ UNCHANGED <<teardownVars, eventVars>>

\* self._stop.wait(refresh_interval)
Refresh ==
  /\ lpc = "waiting"
  /\ \/ Waiting /\ UNCHANGED lpc
     \/ WaitReturned /\ lpc' = "testing"
  /\ UNCHANGED <<teardownVars, elapsed, liveRaised>>

-----------------------------------------------------------------------------
(* The finally clause: a last frame, stop(), and the dashboard's close().  *)

LastFrame ==
  /\ lpc = "lastFrame"
  /\ \E d \in 0..FrameTime : Take(d)
  /\ \/ lpc' = "setting" /\ UNCHANGED liveRaised
     \/ lpc' = "returned" /\ liveRaised' = TRUE
  /\ UNCHANGED <<teardownVars, eventVars>>

\* stop() sets the event itself, by the same lock.
StopSets ==
  /\ \/ lpc = "setting" /\ lpc' = "locked" /\ SetLocks
     \/ lpc = "locked" /\ lpc' = "stopping" /\ SetFlag
  /\ UNCHANGED <<teardownVars, elapsed, liveRaised>>

\* Seeded fault: the join waits twice as long.
StopWorkerSlowly ==
  /\ lpc = "stopping" /\ stopped < Workers
  /\ stopped' = stopped + 1
  /\ \/ UNCHANGED <<stalls, elapsed>>
     \/ Take(2 * JoinTimeout) /\ stalls' = stalls + 1
  /\ lpc' = IF stopped' = Workers THEN "logger" ELSE lpc
  /\ UNCHANGED <<started, logger, dashboard, liveRaised, eventVars>>

\* The next worker's stop(): its thread ends at once, or the join times out.
StopWorker ==
  /\ lpc = "stopping" /\ stopped < Workers
  /\ stopped' = stopped + 1
  /\ \/ UNCHANGED <<stalls, elapsed>>
     \/ Take(JoinTimeout) /\ stalls' = stalls + 1
  /\ lpc' = IF stopped' = Workers THEN "logger" ELSE lpc
  /\ UNCHANGED <<started, logger, dashboard, liveRaised, eventVars>>

\* DataLogger.close() waits for its thread, and then closes its writers.
\* One that cannot flush its rows raises: the writers after it stay open,
\* and the dashboard's close() is never called.
CloseLogger ==
  /\ lpc = "logger"
  /\ \/ UNCHANGED <<stalls, elapsed>>
     \/ Take(LoggerTimeout) /\ stalls' = stalls + 1
  /\ \/ lpc' = "leaving" /\ logger' = FALSE /\ UNCHANGED liveRaised
     \/ lpc' = "returned" /\ liveRaised' = TRUE /\ UNCHANGED logger
  /\ UNCHANGED <<started, stopped, dashboard, eventVars>>

CloseDashboard ==
  /\ lpc = "leaving" /\ lpc' = "returned"
  /\ \/ dashboard' = FALSE /\ UNCHANGED liveRaised
     \/ liveRaised' = TRUE /\ UNCHANGED dashboard
  /\ UNCHANGED <<started, stopped, stalls, logger, elapsed, eventVars>>

LiveStep == StartWorker \/ OpenDashboard \/ TestLiveStop \/ DrawFrame \/ Refresh
            \/ LastFrame \/ StopSets \/ StopWorker \/ CloseLogger
            \/ CloseDashboard
=============================================================================
