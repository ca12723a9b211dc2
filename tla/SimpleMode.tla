----------------------------- MODULE SimpleMode ------------------------------
(***************************************************************************)
(* Simple Mode (monitor/controller.py over sources/file_source.py): the    *)
(* single-threaded loop that replays one file per receiver.  A file is its *)
(* number of lines, and a receiver's state is the place in the file up to  *)
(* which its lines have been applied.                                      *)
(***************************************************************************)
EXTENDS StopEvent, FiniteSets

CONSTANTS
  Replays,  \* the replayed receivers are 1..Replays, in channel order
  MaxLength,\* bound: lines of a file
  MaxBatch, \* bound: --batch
  Missing,  \* a path that is no file
  None      \* the absent value

Replayed == 1..Replays

ASSUME SimpleModeAssumption ==
  /\ Replays \in Nat \ {0} /\ MaxLength \in Nat /\ MaxBatch \in Nat
  /\ Missing \notin Nat /\ None \notin [Replayed -> Nat]

VARIABLES
  spc,      \* where run() is
  rx,       \* the receiver its inner loop is at
  file,     \* per receiver, the lines of its file, or Missing
  looping,  \* per receiver, source.loop
  once,     \* --once
  ticking,  \* the tick interval is positive
  batch,    \* --batch: lines_per_tick, any integer; 0 for all those below 1
  opened,   \* the sources that hold an open file
  at,       \* per source, the lines read since the file's start
  done,     \* per source, is_exhausted
  progress, \* any_progress
  frame,    \* what the last rendered frame shows, None before the first
  simpleRaised \* run() ended by an exception

replayVars == <<opened, at, done>>
optionVars == <<file, looping, once, ticking, batch>>
simpleVars == <<spc, rx, optionVars, replayVars, progress, frame, simpleRaised>>

SimplePC == {"opening", "testing", "polling", "rendering", "deciding",
             "waiting", "ending", "closing", "returned"}

\* `--once' runs without a tick.
SimpleInit ==
  /\ spc = "opening" /\ rx = 1
  /\ file \in [Replayed -> 0..MaxLength \cup {Missing}]
  /\ looping \in [Replayed -> BOOLEAN]
  /\ once \in BOOLEAN /\ ticking \in BOOLEAN /\ (once => ~ticking)
  /\ batch \in 0..MaxBatch
  /\ opened = {} /\ at = [r \in Replayed |-> 0]
  /\ done = [r \in Replayed |-> FALSE]
  /\ progress = FALSE /\ frame = None /\ simpleRaised = FALSE

SimpleTypeOK ==
  /\ spc \in SimplePC /\ rx \in Replayed
  /\ file \in [Replayed -> 0..MaxLength \cup {Missing}]
  /\ looping \in [Replayed -> BOOLEAN]
  /\ once \in BOOLEAN /\ ticking \in BOOLEAN /\ batch \in 0..MaxBatch
  /\ opened \subseteq Replayed /\ at \in [Replayed -> 0..MaxLength]
  /\ done \in [Replayed -> BOOLEAN] /\ progress \in BOOLEAN
  /\ frame \in {None} \cup [Replayed -> 0..MaxLength]
  /\ simpleRaised \in BOOLEAN

NextReceiver(next) ==
  IF rx < Replays THEN rx' = rx + 1 /\ UNCHANGED spc
  ELSE rx' = 1 /\ spc' = next

-----------------------------------------------------------------------------
(* The sources are opened one by one, before the try statement.            *)

OpenSource ==
  /\ spc = "opening" /\ file[rx] # Missing
  /\ opened' = opened \cup {rx}
  /\ NextReceiver("testing")
  /\ UNCHANGED <<optionVars, at, done, progress, frame, simpleRaised, eventVars>>

OpenSourceFails ==
  /\ spc = "opening" /\ file[rx] = Missing
  /\ spc' = "returned" /\ simpleRaised' = TRUE
  /\ UNCHANGED <<rx, optionVars, replayVars, progress, frame, eventVars>>

-----------------------------------------------------------------------------
(* The loop.                                                               *)

\* Seeded fault: the loop does not look at the event.
TestStopNever ==
  /\ spc = "testing" /\ spc' = "polling" /\ progress' = FALSE
  /\ UNCHANGED <<rx, optionVars, replayVars, frame, simpleRaised, eventVars>>

TestStop ==
  /\ spc = "testing"
  /\ IF flag THEN spc' = "ending" /\ UNCHANGED progress
             ELSE spc' = "polling" /\ progress' = FALSE
  /\ UNCHANGED <<rx, optionVars, replayVars, frame, simpleRaised, eventVars>>

\* Seeded fault: the end of the file is always followed by its start.
ReadBatchAlwaysLoops(r) ==
  IF file[r] = 0 \/ batch = 0 THEN [lines |-> 0, to |-> at[r], ended |-> TRUE]
  ELSE [lines |-> batch, to |-> ((at[r] + batch - 1) % file[r]) + 1,
        ended |-> FALSE]

\* poll(batch) over read_line(): a looping file starts again at its end
\* unless it is empty; any other ends the batch there, exhausted.  A batch
\* of nothing does not call read_line() at all.
ReadBatch(r) ==
  LET left  == file[r] - at[r]
      lines == IF left < batch THEN left ELSE batch
  IN  IF looping[r] /\ file[r] > 0 /\ batch > 0
      THEN [lines |-> batch, to |-> ((at[r] + batch - 1) % file[r]) + 1,
            ended |-> FALSE]
      ELSE [lines |-> lines, to |-> at[r] + lines, ended |-> lines < batch]

PollReceiver ==
  /\ spc = "polling"
  /\ LET read == ReadBatch(rx)
     IN  /\ at' = [at EXCEPT ![rx] = read.to]
         /\ done' = [done EXCEPT ![rx] = @ \/ read.ended]
         /\ progress' = (progress \/ read.lines > 0)
  /\ NextReceiver("rendering")
  /\ UNCHANGED <<optionVars, opened, frame, simpleRaised, eventVars>>

\* Reading the file or writing the frame raised: the finally clause.
LoopRaises ==
  /\ spc \in {"polling", "rendering"} \/ (spc = "ending" /\ once)
  /\ spc = "rendering" => ~once
  /\ spc' = "closing" /\ rx' = 1 /\ simpleRaised' = TRUE
  /\ UNCHANGED <<optionVars, replayVars, progress, frame, eventVars>>

\* `if not self._once: self._render()'
Render ==
  /\ spc = "rendering" /\ spc' = "deciding"
  /\ frame' = IF once THEN frame ELSE at
  /\ UNCHANGED <<rx, optionVars, replayVars, progress, simpleRaised, eventVars>>

\* Seeded fault: one exhausted source ends the replay of all.
FinishedAny == (\E r \in Replayed : done[r]) \/ ~progress

\* The two breaks: every source is exhausted, or none gave a line.
Finished == (\A r \in Replayed : done[r]) \/ ~progress

Decide ==
  /\ spc = "deciding"
  /\ spc' = IF Finished THEN "ending"
            ELSE IF ticking THEN "waiting" ELSE "testing"
  /\ UNCHANGED <<rx, optionVars, replayVars, progress, frame, simpleRaised, eventVars>>

\* self._stop.wait(tick)
Tick ==
  /\ spc = "waiting"
  /\ \/ Waiting /\ UNCHANGED spc
     \/ WaitReturned /\ spc' = "testing"
  /\ UNCHANGED <<rx, optionVars, replayVars, progress, frame, simpleRaised>>

\* After the loop: the one frame of `--once'.
End ==
  /\ spc = "ending" /\ spc' = "closing" /\ rx' = 1
  /\ frame' = IF once THEN at ELSE frame
  /\ UNCHANGED <<optionVars, replayVars, progress, simpleRaised, eventVars>>

\* The finally clause closes every source.
CloseSources ==
  /\ spc = "closing" /\ spc' = "returned"
  /\ opened' = {}
  /\ UNCHANGED <<rx, optionVars, at, done, progress, frame, simpleRaised, eventVars>>

SimpleStep == OpenSource \/ OpenSourceFails \/ TestStop \/ PollReceiver
              \/ LoopRaises \/ Render \/ Decide \/ Tick \/ End \/ CloseSources
=============================================================================
