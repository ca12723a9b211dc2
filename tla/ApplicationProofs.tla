--------------------------- MODULE ApplicationProofs --------------------------
(***************************************************************************)
(* Proofs about Application, for any number of receivers, lengths of       *)
(* files, batch sizes, timeouts and signals: what an exit with the code of *)
(* success says of the run before it.                                      *)
(***************************************************************************)
EXTENDS Application, TLAPS

LEMMA InitInductive == Init => Inductive
<1> SUFFICES ASSUME Init PROVE Inductive
  OBVIOUS
<1> USE DEF Init, EventInit, SimpleInit, LiveInit
<1>1. EventKnown /\ LiveKnown
  BY DEF EventKnown, LiveKnown, MainRuns, LivePC
<1>2. ReplayTypes
  <2>1. 0..MaxLength \subseteq Nat /\ 1 \in Replayed /\ 0 \in Nat
    BY SimpleModeAssumption DEF Replayed
  <2>2. SimpleInit
    OBVIOUS
  <2>3. file \in [Replayed -> Nat \cup {Missing}]
    BY <2>1, <2>2 DEF SimpleInit
  <2>4. batch \in Nat
    BY <2>2, SimpleModeAssumption DEF SimpleInit
  <2> QED
    BY <2>1, <2>2, <2>3, <2>4 DEF SimpleInit, ReplayTypes, SimplePC
<1>3. ReplayKnown
  BY SimpleModeAssumption DEF ReplayKnown, ReadToEnd, Replayed
<1>4. ProcessKnown
  BY DEF ProcessKnown
<1> QED
  BY <1>1, <1>2, <1>3, <1>4 DEF Inductive

-----------------------------------------------------------------------------
(* The steps, by what they change.                                         *)

\* What a step of a signal or its handler may do.
EventStep ==
  /\ UNCHANGED <<simpleVars, liveVars, types, arg, mode, installed>>
  /\ apc' \in {apc, "killed", "interrupted"} /\ code' \in {code, OK}
  /\ apc # "configuring" /\ apc # "exited"
  /\ signals' \in {signals, signals + 1}
  /\ ~(handlers' = <<>>) => signals' = signals + 1 \/ ~MainRuns
  /\ flag' = flag \/ ~MainRuns
  /\ (flag => flag')

LEMMA Steps ==
  ASSUME [Next]_vars
  PROVE  \/ EventStep
         \/ apc = "running" /\ mode = "live" /\ LiveStep /\ UNCHANGED <<simpleVars, appVars>>
         \/ apc = "running" /\ mode = "replay" /\ SimpleStep /\ UNCHANGED <<liveVars, appVars>>
         \/ /\ ExitEarly \/ Build \/ Install \/ Restore
            /\ UNCHANGED <<eventVars, simpleVars, liveVars>>
         \/ UNCHANGED vars
<1>1. HandleSignal => EventStep
  BY DEF HandleSignal, Handler, HandlerLocks, HandlerSets, EventStep, appVars
<1>2. SignalHandled => EventStep
  BY DEF SignalHandled, HandlerEnters, mainVars, EventStep, appVars
<1>3. SignalDefault => EventStep
  BY DEF SignalDefault, mainVars, EventStep, MainRuns
<1>4. Escalate => EventStep
  BY DEF Escalate, eventVars, mainVars, EventStep, MainRuns
<1> QED
  BY <1>1, <1>2, <1>3, <1>4
     DEF Next, Main, RunController, ExitEarly, Build, Install, Restore

\* A step of a controller leaves the handlers alone and counts no signal.
LEMMA ControllerEvents ==
  ASSUME LiveStep \/ SimpleStep
  PROVE  /\ UNCHANGED <<handlers, signals>>
         /\ SimpleStep => flag' = flag
<1> USE DEF eventVars, mainVars, Waiting, WaitLocks, WaitSleeps, WaitWakes,
            WaitUnlocks, WaitReturned
<1>1. LiveStep => UNCHANGED <<handlers, signals>>
  BY DEF LiveStep, StartWorker, OpenDashboard, TestLiveStop, DrawFrame,
         Refresh, LastFrame, StopSets, SetLocks, SetFlag, StopWorker,
         CloseLogger, CloseDashboard
<1>2. SimpleStep => UNCHANGED <<handlers, signals, flag>>
  BY DEF SimpleStep, OpenSource, OpenSourceFails, TestStop, PollReceiver,
         LoopRaises, Render, Decide, Tick, End, CloseSources
<1> QED
  BY <1>1, <1>2

-----------------------------------------------------------------------------
(* Live mode.                                                              *)

LEMMA LiveKeeps ==
  EventKnown /\ LiveKnown /\ LiveStep => EventKnown' /\ LiveKnown'
<1> SUFFICES ASSUME EventKnown, LiveKnown, LiveStep
             PROVE  EventKnown' /\ LiveKnown'
  OBVIOUS
<1> USE DEF EventKnown, LiveKnown, LivePC, MainRuns, eventVars, mainVars, teardownVars
<1>0. UNCHANGED <<handlers, signals>>
  BY ControllerEvents
<1>1. CASE StartWorker \/ OpenDashboard \/ TestLiveStop \/ DrawFrame
  BY <1>0, <1>1 DEF StartWorker, OpenDashboard, TestLiveStop, DrawFrame
<1>2. CASE Refresh
  BY <1>0, <1>2 DEF Refresh, Waiting, WaitLocks, WaitSleeps, WaitWakes,
                    WaitUnlocks, WaitReturned
<1>3. CASE LastFrame \/ StopSets
  BY <1>0, <1>3 DEF LastFrame, StopSets, SetLocks, SetFlag
<1>4. CASE StopWorker
  BY <1>0, <1>4 DEF StopWorker
<1>5. CASE CloseLogger \/ CloseDashboard
  BY <1>0, <1>5 DEF CloseLogger, CloseDashboard
<1> QED
  BY <1>1, <1>2, <1>3, <1>4, <1>5 DEF LiveStep

-----------------------------------------------------------------------------
(* Replay mode.                                                            *)

\* What a batch leaves: the place in the file is one, and a batch that got
\* no line, or ended at the end of the file, is at that end.
LEMMA BatchRead ==
  ASSUME ReplayTypes, ReplayKnown, spc = "polling", NEW r \in Replayed,
         NEW read, read = ReadBatch(r)
  PROVE  /\ file[r] \in Nat /\ read.to \in Nat
         /\ read.lines \in Nat /\ read.ended \in BOOLEAN
         /\ batch = 0 => read.to = at[r]
         /\ (looping[r] => file[r] = 0) => read.to <= file[r]
         /\ (batch > 0 /\ read.lines = 0) \/ read.ended =>
              read.to = file[r] /\ (looping[r] => file[r] = 0)
         /\ at[r] = file[r] /\ (looping[r] => file[r] = 0) => read.to = file[r]
<1>0. /\ file[r] \in Nat /\ at[r] \in Nat /\ batch \in Nat
      /\ looping[r] \in BOOLEAN /\ (batch = 0 => at[r] = 0)
      /\ (looping[r] => file[r] = 0) => at[r] <= file[r]
  BY DEF ReplayTypes, ReplayKnown, SimplePC
<1>1. CASE looping[r] /\ file[r] > 0 /\ batch > 0
  <2>1. (at[r] + batch - 1) % file[r] \in Nat
    BY <1>0, <1>1
  <2>2. read = [lines |-> batch, to |-> ((at[r] + batch - 1) % file[r]) + 1,
                ended |-> FALSE]
    BY <1>1 DEF ReadBatch
  <2> QED
    BY <1>0, <1>1, <2>1, <2>2
<1>2. CASE ~(looping[r] /\ file[r] > 0 /\ batch > 0)
  <2>0. at[r] <= file[r] /\ (batch > 0 => (looping[r] => file[r] = 0))
    BY <1>0, <1>2
  <2>1. CASE file[r] - at[r] < batch
    <3>1. read = [lines |-> file[r] - at[r], to |-> at[r] + (file[r] - at[r]),
                  ended |-> TRUE]
      BY <1>2, <2>1 DEF ReadBatch
    <3>2. batch > 0
      BY <1>0, <2>0, <2>1
    <3> QED
      BY <1>0, <2>0, <3>1, <3>2
  <2>2. CASE ~(file[r] - at[r] < batch)
    <3>0. (batch < batch) = FALSE
      BY <1>0
    <3>1. read = [lines |-> batch, to |-> at[r] + batch, ended |-> batch < batch]
      BY <1>2, <2>2 DEF ReadBatch
    <3>2. read = [lines |-> batch, to |-> at[r] + batch, ended |-> FALSE]
      BY Zenon, <3>0, <3>1
    <3>3. at[r] + batch <= file[r] /\ at[r] + batch \in Nat
      BY <1>0, <2>0, <2>2
    <3>4. /\ batch = 0 => at[r] + batch = at[r]
          /\ ~(batch > 0 /\ batch = 0)
      BY <1>0
    <3>5. at[r] = file[r] /\ (looping[r] => file[r] = 0) => at[r] + batch = file[r]
      BY <1>0, <2>2
    <3> QED
      BY <1>0, <3>2, <3>3, <3>4, <3>5
  <2> QED
    BY <2>1, <2>2
<1> QED
  BY <1>1, <1>2

LEMMA PollKeeps ==
  ReplayTypes /\ ReplayKnown /\ PollReceiver => ReplayTypes' /\ ReplayKnown'
<1> SUFFICES ASSUME ReplayTypes, ReplayKnown, PollReceiver
             PROVE  ReplayTypes' /\ ReplayKnown'
  OBVIOUS
<1> DEFINE read == ReadBatch(rx)
<1>1. /\ spc = "polling" /\ rx \in Replayed
      /\ at' = [at EXCEPT ![rx] = read.to]
      /\ done' = [done EXCEPT ![rx] = @ \/ read.ended]
      /\ progress' = (progress \/ read.lines > 0)
      /\ \/ rx < Replays /\ rx' = rx + 1 /\ spc' = "polling"
         \/ ~(rx < Replays) /\ rx' = 1 /\ spc' = "rendering"
      /\ UNCHANGED <<file, looping, batch, opened, simpleRaised, signals>>
  BY DEF PollReceiver, NextReceiver, ReplayTypes, optionVars, eventVars
<1>2. /\ file[rx] \in Nat /\ read.to \in Nat
      /\ read.lines \in Nat /\ read.ended \in BOOLEAN
      /\ batch = 0 => read.to = at[rx]
      /\ (looping[rx] => file[rx] = 0) => read.to <= file[rx]
      /\ (batch > 0 /\ read.lines = 0) \/ read.ended =>
           read.to = file[rx] /\ (looping[rx] => file[rx] = 0)
      /\ at[rx] = file[rx] /\ (looping[rx] => file[rx] = 0) => read.to = file[rx]
  BY <1>1, BatchRead
<1> HIDE DEF read
<1>3. Replays \in Nat /\ Replays > 0 /\ Replayed = 1..Replays
  BY SimpleModeAssumption DEF Replayed
<1>4. ReplayTypes'
  <2>1. rx' \in Replayed
    BY <1>1, <1>3
  <2>2. at' \in [Replayed -> Nat] /\ done' \in [Replayed -> BOOLEAN]
    BY <1>1, <1>2 DEF ReplayTypes
  <2> QED
    BY <1>1, <2>1, <2>2 DEF ReplayTypes, SimplePC
<1>5. /\ \A r \in Replayed : file[r] # Missing
      /\ \A r \in Replayed : (looping[r] => file[r] = 0) => at[r] <= file[r]
      /\ \A r \in Replayed : done[r] => ReadToEnd(r) /\ (looping[r] => file[r] = 0)
      /\ ~progress => \A r \in 1..(rx - 1) : AllRead(r)
      /\ batch = 0 => \A r \in Replayed : at[r] = 0
      /\ ~simpleRaised /\ at \in [Replayed -> Nat] /\ done \in [Replayed -> BOOLEAN]
      /\ progress \in BOOLEAN
  BY <1>1 DEF ReplayKnown, ReplayTypes, SimplePC
<1>6. /\ \A r \in Replayed : (looping[r] => file[r] = 0) => at'[r] <= file[r]
      /\ \A r \in Replayed : done'[r] =>
           ReadToEnd(r)' /\ (looping[r] => file[r] = 0)
      /\ batch' = 0 => \A r \in Replayed : at'[r] = 0
  BY <1>1, <1>2, <1>5 DEF ReadToEnd
<1>7. ASSUME ~progress'
      PROVE  \A r \in 1..rx : AllRead(r)'
  <2>1. ~progress /\ ~(read.lines > 0)
    BY <1>1, <1>7
  <2>2. read.lines = 0
    BY <1>2, <2>1
  <2>3. ASSUME NEW r \in Replayed, r = rx
        PROVE  AllRead(r)'
    BY <1>1, <1>2, <1>5, <2>2, <2>3 DEF AllRead, ReadToEnd
  <2>4. ASSUME NEW r \in 1..(rx - 1)
        PROVE  AllRead(r)'
    BY <1>1, <1>3, <1>5, <2>1 DEF AllRead, ReadToEnd
  <2> QED
    BY <1>1, <1>3, <2>3, <2>4
<1>8. ReplayKnown'
  <2>1. CASE rx < Replays /\ rx' = rx + 1 /\ spc' = "polling"
    BY <1>1, <1>3, <1>5, <1>6, <1>7, <2>1 DEF ReplayKnown, SimplePC
  <2>2. CASE ~(rx < Replays) /\ rx' = 1 /\ spc' = "rendering"
    <3>1. rx = Replays
      BY <1>1, <1>3, <2>2
    <3> QED
      BY <1>1, <1>3, <1>5, <1>6, <1>7, <2>2, <3>1 DEF ReplayKnown, SimplePC
  <2> QED
    BY <1>1, <2>1, <2>2
<1> QED
  BY <1>4, <1>8

LEMMA SimpleKeeps ==
  EventKnown /\ ReplayTypes /\ ReplayKnown /\ SimpleStep /\ lpc = "starting"
  /\ UNCHANGED liveVars
    => EventKnown' /\ ReplayTypes' /\ ReplayKnown'
<1> SUFFICES ASSUME EventKnown, ReplayTypes, ReplayKnown, SimpleStep,
                    lpc = "starting", UNCHANGED liveVars
             PROVE  EventKnown' /\ ReplayTypes' /\ ReplayKnown'
  OBVIOUS
<1>0. EventKnown'
  BY ControllerEvents DEF EventKnown, MainRuns, liveVars
<1>1. CASE PollReceiver
  BY <1>0, <1>1, PollKeeps
<1>2. signals' = signals
  BY ControllerEvents
<1>3. Replays \in Nat /\ Replays > 0 /\ Replayed = 1..Replays
  BY SimpleModeAssumption DEF Replayed
<1> USE DEF ReplayTypes, SimplePC, replayVars, optionVars
<1>4. CASE OpenSource
  <2>1. rx' \in Replayed /\ spc' \in SimplePC
    BY <1>3, <1>4 DEF OpenSource, NextReceiver
  <2>2. /\ spc = "opening" /\ file[rx] # Missing
        /\ UNCHANGED <<file, looping, batch, at, done, progress, simpleRaised>>
        /\ \/ rx < Replays /\ rx' = rx + 1 /\ spc' = "opening"
           \/ rx = Replays /\ rx' = 1 /\ spc' = "testing"
    BY <1>3, <1>4 DEF OpenSource, NextReceiver
  <2>3. \A r \in 1..rx : file[r] # Missing
    BY <1>3, <2>2 DEF ReplayKnown
  <2>4. ReplayKnown'
    BY <1>3, <2>2, <2>3 DEF ReplayKnown, AllRead, ReadToEnd
  <2> QED
    BY <1>0, <2>1, <2>2, <2>4
<1>5. CASE OpenSourceFails
  BY <1>0, <1>2, <1>5 DEF OpenSourceFails, ReplayKnown, AllRead, ReadToEnd
<1>6. CASE TestStop
  <2>1. flag => signals > 0
    BY DEF EventKnown
  <2> QED
    <3>1. CASE flag
      BY <1>0, <1>2, <1>3, <1>6, <2>1, <3>1 DEF TestStop, ReplayKnown, AllRead, ReadToEnd
    <3>2. CASE ~flag
      <4>1. /\ spc = "testing" /\ spc' = "polling" /\ progress' = FALSE
            /\ UNCHANGED <<rx, file, looping, batch, at, done, opened, simpleRaised>>
        BY <1>6, <3>2 DEF TestStop
      <4>2. rx' = 1 /\ 1..(rx' - 1) = {}
        BY <4>1 DEF ReplayKnown
      <4>3. /\ ReplayTypes'
            /\ \A r \in 1..(rx' - 1) : AllRead(r)'
        BY <4>1, <4>2
      <4> QED
        BY <1>0, <4>1, <4>2, <4>3 DEF ReplayKnown, AllRead, ReadToEnd
    <3> QED
      BY <3>1, <3>2
<1>7. CASE LoopRaises
  BY <1>0, <1>2, <1>3, <1>7 DEF LoopRaises, ReplayKnown, AllRead, ReadToEnd
<1>8. CASE Render \/ Tick
  BY <1>0, <1>2, <1>8
     DEF Render, Tick, ReplayKnown, AllRead, ReadToEnd
<1>9. CASE Decide
  BY <1>0, <1>2, <1>9 DEF Decide, Finished, ReplayKnown, AllRead, ReadToEnd
<1>10. CASE End
  BY <1>0, <1>2, <1>3, <1>10 DEF End, ReplayKnown, AllRead, ReadToEnd
<1>11. CASE CloseSources
  BY <1>0, <1>2, <1>3, <1>11 DEF CloseSources, ReplayKnown, AllRead, ReadToEnd
<1> QED
  BY <1>1, <1>4, <1>5, <1>6, <1>7, <1>8, <1>9, <1>10, <1>11
     DEF SimpleStep

-----------------------------------------------------------------------------
(* The process.                                                            *)

LEMMA NextInductive == Inductive /\ [Next]_vars => Inductive'
<1> SUFFICES ASSUME Inductive, [Next]_vars PROVE Inductive'
  OBVIOUS
<1>0. EventKnown /\ LiveKnown /\ ReplayTypes /\ ReplayKnown /\ ProcessKnown
  BY DEF Inductive
<1>1. CASE EventStep
  <2>1. /\ UNCHANGED <<simpleVars, liveVars>>
        /\ signals \in Nat /\ signals' \in Nat /\ (signals' = 0 => signals = 0)
        /\ (signals > 0 => signals' > 0)
    BY <1>0, <1>1 DEF EventStep, EventKnown
  <2>2. EventKnown'
    BY <1>0, <1>1, <2>1 DEF EventStep, EventKnown, MainRuns, liveVars
  <2>3. LiveKnown'
    BY <1>0, <2>1 DEF LiveKnown, liveVars, teardownVars
  <2>4. ReplayTypes' /\ ReplayKnown'
    BY <1>0, <2>1 DEF ReplayTypes, ReplayKnown, AllRead, ReadToEnd, simpleVars, optionVars,
                      replayVars
  <2>5. ProcessKnown'
    BY <1>0, <1>1, <2>1 DEF EventStep, ProcessKnown, Returned, simpleVars, liveVars
  <2> QED
    BY <2>2, <2>3, <2>4, <2>5 DEF Inductive
<1>2. CASE /\ apc = "running" /\ mode = "live" /\ LiveStep
           /\ UNCHANGED <<simpleVars, appVars>>
  <2>1. EventKnown' /\ LiveKnown'
    BY <1>0, <1>2, LiveKeeps
  <2>2. ReplayTypes' /\ ReplayKnown'
    BY <1>0, <1>2, ControllerEvents
       DEF ReplayTypes, ReplayKnown, AllRead, ReadToEnd, simpleVars, optionVars, replayVars
  <2>3. ProcessKnown'
    BY <1>0, <1>2 DEF ProcessKnown, appVars
  <2> QED
    BY <2>1, <2>2, <2>3 DEF Inductive
<1>3. CASE /\ apc = "running" /\ mode = "replay" /\ SimpleStep
           /\ UNCHANGED <<liveVars, appVars>>
  <2>1. lpc = "starting"
    BY <1>0, <1>3 DEF ProcessKnown
  <2>2. EventKnown' /\ ReplayTypes' /\ ReplayKnown'
    BY <1>0, <1>3, <2>1, SimpleKeeps
  <2>3. LiveKnown'
    BY <1>0, <1>3, ControllerEvents DEF LiveKnown, liveVars, teardownVars
  <2>4. ProcessKnown'
    BY <1>0, <1>3, <2>1 DEF ProcessKnown, appVars, liveVars
  <2> QED
    BY <2>2, <2>3, <2>4 DEF Inductive
<1>4. CASE \/ /\ ExitEarly \/ Build \/ Install \/ Restore
              /\ UNCHANGED <<eventVars, simpleVars, liveVars>>
           \/ UNCHANGED vars
  <2>1. UNCHANGED <<eventVars, simpleVars, liveVars>>
    BY <1>4 DEF vars
  <2>2. EventKnown' /\ LiveKnown'
    BY <1>0, <2>1 DEF EventKnown, LiveKnown, MainRuns, eventVars, mainVars,
                      liveVars, teardownVars
  <2>3. ReplayTypes' /\ ReplayKnown'
    BY <1>0, <2>1 DEF ReplayTypes, ReplayKnown, AllRead, ReadToEnd, eventVars, simpleVars,
                      optionVars, replayVars
  <2>4. /\ lpc' = lpc /\ spc' = spc
        /\ liveRaised' = liveRaised /\ simpleRaised' = simpleRaised
    BY <2>1 DEF simpleVars, liveVars
  <2>5. ProcessKnown'
    <3> USE DEF ProcessKnown, Exit, Returned, OK, ConfigError, RuntimeError
    <3>1. CASE ExitEarly
      BY <1>0, <2>4, <3>1 DEF ExitEarly
    <3>2. CASE Build
      <4>1. lpc = "starting"
        BY <1>0, <3>2, ApplicationAssumption DEF Build
      <4> QED
        BY <1>0, <2>4, <3>2, <4>1 DEF Build
    <3>3. CASE Install
      BY <1>0, <2>4, <3>3 DEF Install
    <3>4. CASE Restore
      BY <1>0, <2>4, <3>4 DEF Restore, Raised
    <3>5. CASE UNCHANGED vars
      BY <1>0, <2>4, <3>5 DEF vars, appVars, Raised
    <3> QED
      BY <1>4, <3>1, <3>2, <3>3, <3>4, <3>5
  <2> QED
    BY <2>2, <2>3, <2>5 DEF Inductive
<1> QED
  BY <1>1, <1>2, <1>3, <1>4, Steps

LEMMA SpecInductive == Spec => []Inductive
BY InitInductive, NextInductive, PTL DEF Spec

\* When run() tells success its teardown went through: in live mode every
\* worker was stopped, the logger closed and the terminal restored, in
\* replay mode no source is left open, for every number of workers, file
\* and failure of the run.  (The exit with status 0 that main() makes of a
\* KeyboardInterrupt outside the handlers is no result of run(), and none
\* of this holds of it.)
THEOREM SuccessTornDown == Spec => []CleanExitTornDown
<1>1. Inductive => CleanExitTornDown
  BY ApplicationAssumption
     DEF Inductive, ProcessKnown, LiveKnown, ReplayKnown, CleanExitTornDown, Ran,
         Returned, Raised
<1> QED
  BY <1>1, SpecInductive, PTL

\* Live mode succeeds only after a signal: an end of its own is an error,
\* which the service's Restart= answers.
THEOREM LiveSuccessAskedFor == Spec => []CleanLiveExitWasAsked
<1>1. Inductive => CleanLiveExitWasAsked
  BY ApplicationAssumption
     DEF Inductive, ProcessKnown, LiveKnown, LivePC, CleanLiveExitWasAsked, Ran,
         Returned, Raised
<1> QED
  BY <1>1, SpecInductive, PTL

\* A replay that succeeds without a signal has read every file to its end,
\* for files of any length and any batch of at least one line, and nothing
\* of any file for a smaller batch.
THEOREM ReplayComplete == Spec => []ReplayIsComplete
<1>1. Inductive => ReplayIsComplete
  BY ApplicationAssumption
     DEF Inductive, ProcessKnown, ReplayTypes, ReplayKnown, AllRead, ReadToEnd,
         ReplayIsComplete, Ran, Returned, Raised
<1> QED
  BY <1>1, SpecInductive, PTL

-----------------------------------------------------------------------------
(* The time a stop takes.                                                  *)

Timing == TimeKnown /\ PatienceKnown

LEMMA InitTiming == Init => Timing
<1> SUFFICES ASSUME Init PROVE Timing
  OBVIOUS
<1>1. /\ elapsed = 0 /\ stalls = 0 /\ lpc = "starting" /\ apc = "configuring"
  BY DEF Init, LiveInit
<1>2. FrameTime \in Nat /\ Longest \in Nat
  BY LiveShutdownAssumption DEF Longest
<1>3. elapsed <= 2 * FrameTime + stalls * Longest
  BY <1>1, <1>2
<1> QED
  BY <1>1, <1>3 DEF Timing, TimeKnown, PatienceKnown

\* One more join that times out takes at most Longest.
LEMMA OneMoreStall ==
  ASSUME TimeKnown, NEW d \in Nat, d <= Longest,
         elapsed' = elapsed \/ elapsed' = elapsed + d, stalls' = stalls + 1
  PROVE  elapsed' <= 2 * FrameTime + stalls' * Longest
<1>1. /\ elapsed \in Nat /\ stalls \in Nat /\ Longest \in Nat
      /\ FrameTime \in Nat /\ elapsed <= 2 * FrameTime + stalls * Longest
  BY LiveShutdownAssumption DEF TimeKnown, Longest
<1>2. (stalls + 1) * Longest = stalls * Longest + Longest
  BY <1>1
<1>3. stalls * Longest \in Nat
  BY <1>1
<1>4. elapsed' <= 2 * FrameTime + (stalls * Longest + Longest)
  BY <1>1, <1>3
<1> QED
  BY <1>2, <1>4

LEMMA LiveTime ==
  ASSUME TimeKnown, LiveStep
  PROVE  TimeKnown'
<1>0. /\ elapsed \in Nat /\ stalls \in Nat /\ Longest \in Nat
      /\ FrameTime \in Nat /\ JoinTimeout \in Nat /\ LoggerTimeout \in Nat
      /\ JoinTimeout <= Longest /\ LoggerTimeout <= Longest
      /\ elapsed <= 2 * FrameTime + stalls * Longest
      /\ elapsed > 0 => flag
  BY LiveShutdownAssumption DEF TimeKnown, Longest
<1> USE DEF eventVars, mainVars, teardownVars
<1>1. CASE StartWorker \/ OpenDashboard \/ TestLiveStop
  <2>1. UNCHANGED <<elapsed, stalls, flag>>
    BY <1>1 DEF StartWorker, OpenDashboard, TestLiveStop
  <2>2. \/ lpc \in {"starting", "opening"} /\ lpc' \in {"starting", "opening", "testing"}
        \/ lpc = "opening" /\ lpc' = "returned"
        \/ lpc = "testing" /\ flag /\ lpc' = "lastFrame"
        \/ lpc = "testing" /\ ~flag /\ lpc' = "drawing"
    BY <1>1 DEF StartWorker, OpenDashboard, TestLiveStop
  <2> QED
    BY <1>0, <2>1, <2>2 DEF TimeKnown
<1>2. CASE DrawFrame \/ LastFrame
  <2>1. PICK d \in 0..FrameTime : elapsed' = IF flag THEN elapsed + d ELSE elapsed
    BY <1>2 DEF DrawFrame, LastFrame, Take
  <2>2. /\ UNCHANGED <<stalls, flag>>
        /\ \/ lpc = "drawing" /\ lpc' \in {"waiting", "lastFrame"}
           \/ lpc = "lastFrame" /\ lpc' \in {"setting", "returned"}
    BY <1>2 DEF DrawFrame, LastFrame
  <2>3. stalls = 0 /\ stalls' * Longest = 0
    BY <1>0, <2>2 DEF TimeKnown
  <2>4. /\ elapsed' \in Nat /\ (elapsed' > 0 => flag)
        /\ elapsed' <= 2 * FrameTime
        /\ lpc = "drawing" => elapsed' <= FrameTime
    BY <1>0, <2>1, <2>2 DEF TimeKnown
  <2> QED
    BY <1>0, <2>2, <2>3, <2>4 DEF TimeKnown
<1>3. CASE Refresh \/ StopSets
  <2>1. /\ UNCHANGED <<elapsed, stalls>> /\ (flag => flag')
        /\ \/ lpc = "waiting" /\ lpc' \in {"waiting", "testing"}
           \/ lpc = "setting" /\ lpc' = "locked"
           \/ lpc = "locked" /\ lpc' = "stopping"
    BY <1>3
    DEF Refresh, StopSets, SetLocks, SetFlag, Waiting, WaitLocks, WaitSleeps,
        WaitWakes, WaitUnlocks, WaitReturned
  <2> QED
    BY <1>0, <2>1 DEF TimeKnown
<1>4. CASE StopWorker \/ CloseLogger
  <2>1. /\ lpc' \in {"stopping", "logger", "leaving", "returned"}
        /\ flag' = flag
        /\ \/ UNCHANGED <<stalls, elapsed>>
           \/ \E d \in {JoinTimeout, LoggerTimeout} :
                Take(d) /\ stalls' = stalls + 1
    BY <1>4 DEF StopWorker, CloseLogger
  <2>2. CASE UNCHANGED <<stalls, elapsed>>
    BY <1>0, <2>1, <2>2 DEF TimeKnown
  <2>3. ASSUME NEW d \in {JoinTimeout, LoggerTimeout}, Take(d),
               stalls' = stalls + 1
        PROVE  TimeKnown'
    <3>1. d \in Nat /\ d <= Longest
      BY <1>0
    <3>2. /\ elapsed' = elapsed \/ elapsed' = elapsed + d
          /\ elapsed' > 0 => flag
      BY <1>0, <2>3 DEF Take
    <3>3. elapsed' <= 2 * FrameTime + stalls' * Longest
      BY <2>3, <3>1, <3>2, OneMoreStall
    <3>4. elapsed' \in Nat /\ stalls' \in Nat
      BY <1>0, <2>3, <3>1, <3>2
    <3> QED
      BY <2>1, <3>2, <3>3, <3>4 DEF TimeKnown
  <2> QED
    BY <2>1, <2>2, <2>3
<1>5. CASE CloseDashboard
  <2>1. UNCHANGED <<elapsed, stalls, flag>> /\ lpc' = "returned"
    BY <1>5 DEF CloseDashboard
  <2> QED
    BY <1>0, <2>1 DEF TimeKnown
<1> QED
  BY <1>1, <1>2, <1>3, <1>4, <1>5 DEF LiveStep

LEMMA NextTiming == Timing /\ [Next]_vars => Timing'
<1> SUFFICES ASSUME TimeKnown, PatienceKnown, [Next]_vars PROVE Timing'
  BY DEF Timing
<1>1. TimeKnown'
  <2>1. CASE UNCHANGED <<elapsed, stalls, lpc>> /\ (flag => flag')
    BY <2>1 DEF TimeKnown
  <2>2. CASE LiveStep
    BY <2>2, LiveTime
  <2>3. CASE EventStep
    BY <2>1, <2>3 DEF EventStep, liveVars, teardownVars
  <2>4. CASE SimpleStep /\ UNCHANGED liveVars
    BY <2>1, <2>4, ControllerEvents DEF liveVars, teardownVars
  <2>5. CASE UNCHANGED <<eventVars, liveVars>>
    BY <2>1, <2>5 DEF liveVars, teardownVars, eventVars, mainVars
  <2> QED
    BY <2>2, <2>3, <2>4, <2>5, Steps DEF vars
<1>2. PatienceKnown'
  <2>1. CASE apc = "killed"
    <3>1. UNCHANGED vars
      BY <2>1
      DEF Next, Main, ExitEarly, Build, Install, RunController, Restore,
          HandleSignal, SignalHandled, SignalDefault, Escalate
    <3> QED
      BY <3>1
      DEF PatienceKnown, vars, appVars, liveVars, eventVars, mainVars, Stuck,
          MainRuns, Top
  <2>2. ASSUME apc # "killed", apc' = "killed", installed' = Signal
        PROVE  Escalate
    <3>1. ExitEarly \/ Build \/ Install \/ Restore => apc' # "killed"
      BY <2>2 DEF ExitEarly, Build, Install, Restore, Exit
    <3>2. RunController \/ HandleSignal \/ SignalHandled => apc' = apc
      BY DEF RunController, HandleSignal, SignalHandled, appVars
    <3>3. ~SignalDefault
      BY <2>2 DEF SignalDefault, Signal
    <3> QED
      BY <2>2, <3>1, <3>2, <3>3 DEF Next, Main, vars, appVars
  <2>3. ASSUME Escalate PROVE (Stuck \/ elapsed >= Grace)'
    BY <2>3
    DEF Escalate, liveVars, eventVars, mainVars, Stuck, MainRuns, Top
  <2> QED
    BY <2>1, <2>2, <2>3 DEF PatienceKnown
<1> QED
  BY <1>1, <1>2 DEF Timing

\* The grace of the service is enough for three joins that time out besides
\* two frames that wait for the workers' locks, whatever the number of
\* workers, as long as the timeouts leave room for them.
THEOREM ThreeStallsTolerated ==
  ASSUME 2 * FrameTime + 3 * JoinTimeout < Grace,
         LoggerTimeout <= JoinTimeout
  PROVE  Spec => []GraceToleratesThreeStalls
<1>1. Timing => GraceToleratesThreeStalls
  <2> SUFFICES ASSUME TimeKnown, elapsed >= Grace, ~(stalls > 3)
               PROVE  FALSE
    BY DEF Timing, PatienceKnown, GraceToleratesThreeStalls, TimeKnown
  <2>1. /\ JoinTimeout \in Nat /\ LoggerTimeout \in Nat /\ FrameTime \in Nat
        /\ Grace \in Nat /\ Longest = JoinTimeout
    BY LiveShutdownAssumption, ApplicationAssumption DEF Longest
  <2>2. /\ stalls \in 0..3 /\ elapsed \in Nat
        /\ elapsed <= 2 * FrameTime + stalls * JoinTimeout
    BY <2>1 DEF TimeKnown
  <2>3. stalls * JoinTimeout <= 3 * JoinTimeout
    <3>1. stalls = 0 \/ stalls = 1 \/ stalls = 2 \/ stalls = 3
      BY <2>2
    <3> QED
      BY <2>1, <3>1
  <2> QED
    BY <2>1, <2>2, <2>3
<1> QED
  BY <1>1, InitTiming, NextTiming, PTL DEF Spec
=============================================================================
