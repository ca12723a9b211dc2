----------------------------- MODULE StopEvent -------------------------------
(***************************************************************************)
(* The stop event of a controller and the signal handler that sets it      *)
(* (app.py, request_stop() of both controllers).  A Python signal handler  *)
(* runs on the main thread, between two bytecodes of whatever the main     *)
(* thread is doing, another handler included.  The event is a              *)
(* threading.Event: a flag guarded by a condition whose lock is not        *)
(* reentrant, which set() takes and wait() takes around its sleep.         *)
(***************************************************************************)
EXTENDS Naturals, Sequences

CONSTANT MaxSignals \* bound: signals delivered

ASSUME StopEventAssumption == MaxSignals \in Nat

Signal == {"SIGINT", "SIGTERM"}

VARIABLES
  flag,      \* the event is set
  held,      \* some frame of the main thread holds the event's lock
  wait,      \* where the main thread is in Event.wait(timeout)
  handlers,  \* the frames of _handle_signal on the main thread, innermost last
  signals    \* signals delivered so far

mainVars  == <<flag, held, wait>>
eventVars == <<mainVars, handlers, signals>>

EventInit == /\ flag = FALSE /\ held = FALSE /\ wait = "no"
             /\ handlers = <<>> /\ signals = 0

EventTypeOK ==
  /\ flag \in BOOLEAN /\ held \in BOOLEAN
  /\ wait \in {"no", "entering", "asleep", "waking", "over"}
  /\ handlers \in Seq({"entered", "holding"})
  /\ signals \in 0..MaxSignals

\* The innermost frame is the one that runs.
Top == handlers[Len(handlers)]

MainRuns == handlers = <<>>

-----------------------------------------------------------------------------
(* _handle_signal: it logs and calls request_stop(), which is Event.set(). *)

HandlerEnters ==
  /\ signals < MaxSignals
  /\ signals' = signals + 1
  /\ handlers' = Append(handlers, "entered")
  /\ UNCHANGED mainVars

HandlerLocks ==
  /\ ~MainRuns /\ Top = "entered" /\ ~held
  /\ held' = TRUE
  /\ handlers' = [handlers EXCEPT ![Len(handlers)] = "holding"]
  /\ UNCHANGED <<flag, wait, signals>>

\* The flag is set, the waiter notified, and the handler returns.
HandlerSets ==
  /\ ~MainRuns /\ Top = "holding"
  /\ flag' = TRUE /\ held' = FALSE
  /\ handlers' = SubSeq(handlers, 1, Len(handlers) - 1)
  /\ UNCHANGED <<wait, signals>>

Handler == HandlerLocks \/ HandlerSets

\* The handler waits for a lock that a frame below it will never give back.
Stuck == ~MainRuns /\ Top = "entered" /\ held

-----------------------------------------------------------------------------
(* What the main thread does with the event.  is_set() reads the flag      *)
(* without the lock.  wait() holds the lock, gives it back for its sleep,  *)
(* and takes it again when it was notified or its timeout is over.         *)

WaitLocks ==
  /\ wait = "no" /\ wait' = "entering"
  /\ held' = TRUE
  /\ UNCHANGED <<flag, handlers, signals>>

WaitSleeps ==
  /\ wait = "entering"
  /\ wait' = IF flag THEN "over" ELSE "asleep"
  /\ held' = FALSE
  /\ UNCHANGED <<flag, handlers, signals>>

WaitWakes ==
  /\ wait = "asleep" /\ wait' = "waking"
  /\ held' = TRUE
  /\ UNCHANGED <<flag, handlers, signals>>

WaitUnlocks ==
  /\ wait = "waking" /\ wait' = "over"
  /\ held' = FALSE
  /\ UNCHANGED <<flag, handlers, signals>>

Waiting == WaitLocks \/ WaitSleeps \/ WaitWakes \/ WaitUnlocks

\* The statement after the wait.
WaitReturned == wait = "over" /\ wait' = "no"
                /\ UNCHANGED <<flag, held, handlers, signals>>

\* Event.set(), as two steps.
SetLocks == held' = TRUE /\ UNCHANGED <<flag, wait, handlers, signals>>

SetFlag == /\ flag' = TRUE /\ held' = FALSE
           /\ UNCHANGED <<wait, handlers, signals>>

\* A signal handler never waits for the very thread it interrupted.
HandlerNeverBlocks == ~Stuck
=============================================================================
