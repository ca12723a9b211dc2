------------------------ MODULE ReceiverWorkerProofs -------------------------
(***************************************************************************)
(* Proofs about ReceiverWorker, for every batch size, line set, file and   *)
(* number of lines: type correctness, and the invariants that hold because *)
(* of the order in which the two threads do things.                        *)
(***************************************************************************)
EXTENDS ReceiverWorker, FiniteSetTheorems, TLAPS

-----------------------------------------------------------------------------
(* What a line does to a receiver's state.                                *)

\* Counting and stamping a framed line keeps a state a state.
LEMMA FramedType ==
  ASSUME NEW st \in State, NEW line \in Line, NEW t \in Nat
  PROVE  Framed(st, line, t) \in State
<1> DEFINE valid == IF line.ok THEN st.valid + 1 ELSE st.valid
<1>1. st.seen + 1 \in Nat /\ t \in Optional(Nat) /\ valid \in Nat
  BY DEF State, Optional
<1>2. Framed(st, line, t) =
        [st EXCEPT !.seen = st.seen + 1, !.lastSeen = t, !.valid = valid]
  BY Zenon DEF Framed
<1>3. ASSUME NEW a \in Nat, NEW b \in Optional(Nat), NEW c \in Nat
      PROVE  [st EXCEPT !.seen = a, !.lastSeen = b, !.valid = c] \in State
  BY DEF State
<1> HIDE DEF valid
<1>4. [st EXCEPT !.seen = st.seen + 1, !.lastSeen = t, !.valid = valid]
        \in State
  BY Zenon, <1>1, <1>3
<1> QED
  BY <1>2, <1>4

\* Counting and stamping touches neither the fix flag nor the coordinates.
LEMMA FramedFix ==
  ASSUME NEW st \in State, NEW line \in Line, NEW t \in Nat
  PROVE  /\ Framed(st, line, t).hasFix = st.hasFix
         /\ Framed(st, line, t).pos = st.pos
BY DEF Framed, State

\* _process_line and _apply keep a state a state.
LEMMA ProcessType ==
  ASSUME NEW st \in State, NEW line \in Line, NEW t \in Nat
  PROVE  Process(st, line, t) \in State
<1>1. ASSUME NEW s \in State
      PROVE  ApplyGGA(s, line, t) \in State
  <2> DEFINE sats == OrElse(line.sats, s.sats)
             hdop == OrElse(line.hdop, s.hdop)
  <2>1. sats \in Optional(Nat) /\ hdop \in Optional(Nat)
    BY DEF OrElse, State, Line, Optional
  <2>2. None \in Optional(Position) /\ line.pos \in Optional(Position)
        /\ t \in Optional(Nat)
    BY DEF Line, Optional
  <2>3. ApplyGGA(s, line, t) =
          IF line.pos # None
          THEN [s EXCEPT !.sats = sats, !.hdop = hdop, !.hasFix = TRUE,
                         !.pos = line.pos, !.fixUtc = t]
          ELSE [s EXCEPT !.sats = sats, !.hdop = hdop, !.hasFix = FALSE,
                         !.pos = None]
    BY DEF ApplyGGA
  <2> HIDE DEF sats, hdop
  <2>4. /\ [s EXCEPT !.sats = sats, !.hdop = hdop, !.hasFix = TRUE,
                     !.pos = line.pos, !.fixUtc = t] \in State
        /\ [s EXCEPT !.sats = sats, !.hdop = hdop, !.hasFix = FALSE,
                     !.pos = None] \in State
    BY <2>1, <2>2 DEF State
  <2> QED
    BY <2>3, <2>4
<1>2. ASSUME NEW s \in State
      PROVE  ApplyRMC(s, line, t) \in State
  <2> DEFINE speed == OrElse(line.speed, s.speed)
  <2>1. speed \in Optional(Nat)
    BY DEF OrElse, State, Line, Optional
  <2>2. /\ None \in Optional(Position) /\ line.pos \in Optional(Position)
        /\ None \in Optional(Nat) /\ t \in Optional(Nat)
    BY DEF Line, Optional
  <2> HIDE DEF speed
  <2>3. /\ [s EXCEPT !.hasFix = TRUE, !.pos = line.pos, !.speed = speed,
                     !.fixUtc = t] \in State
        /\ [s EXCEPT !.hasFix = FALSE, !.pos = None, !.speed = None] \in State
    BY <2>1, <2>2 DEF State
  <2> QED
    BY <2>3 DEF ApplyRMC, speed
<1> QED
  BY <1>1, <1>2, FramedType DEF Process, Applied

\* _apply never separates the fix flag from the coordinates.
LEMMA ProcessCoherent ==
  ASSUME NEW st \in State, NEW line \in Line, NEW t \in Nat,
         FixMeansPosition(st)
  PROVE  FixMeansPosition(Process(st, line, t))
<1>1. ASSUME NEW s \in State
      PROVE  /\ FixMeansPosition(ApplyGGA(s, line, t))
             /\ FixMeansPosition(ApplyRMC(s, line, t))
  BY DEF ApplyGGA, ApplyRMC, FixMeansPosition, State
<1>2. FixMeansPosition(Framed(st, line, t))
  BY FramedFix DEF FixMeansPosition
<1> QED
  BY <1>1, <1>2, FramedType DEF Process, Applied

\* Every line but a blank one counts as a sentence, whatever it says.
LEMMA ProcessCounts ==
  ASSUME NEW st \in State, NEW line \in Line, NEW t \in Nat
  PROVE  /\ st.seen \in Nat
         /\ Process(st, line, t).seen =
              IF line.type = "blank" THEN st.seen ELSE st.seen + 1
<1>1. st.seen \in Nat /\ Framed(st, line, t).seen = st.seen + 1
  BY DEF Framed, State
<1>2. ASSUME NEW s \in State
      PROVE  /\ ApplyGGA(s, line, t).seen = s.seen
             /\ ApplyRMC(s, line, t).seen = s.seen
  BY DEF ApplyGGA, ApplyRMC, State
<1> QED
  BY <1>1, <1>2, FramedType DEF Process, Applied

-----------------------------------------------------------------------------
(* Type correctness.                                                       *)

LEMMA InitType == Init => TypeOK
<1> SUFFICES ASSUME Init PROVE TypeOK
  OBVIOUS
<1>1. NoState \in State
  BY DEF NoState, State, Optional
<1>2. published \in View
  BY <1>1 DEF Init, LiveView, View, Optional
<1>3. got \in 0..PollBatch /\ wire \in Seq(Line) /\ opens \in 0..2
  BY WorkerAssumption DEF Init
<1> QED
  BY <1>1, <1>2, <1>3 DEF Init, TypeOK, WorkerPC, MainPC, Connection, Optional

\* Every step keeps every variable in its type.
LEMMA NextType == TypeOK /\ [Next]_vars => TypeOK'
<1> SUFFICES ASSUME TypeOK, [Next]_vars PROVE TypeOK'
  OBVIOUS
<1> USE DEF TypeOK, WorkerPC, MainPC, Connection, Optional
<1>1. CASE CheckStop
  BY <1>1 DEF CheckStop, sourceVars, dataVars, histVars
<1>2. CASE EnsureOpen
  BY <1>2 DEF EnsureOpen, sourceVars, histVars
<1>3. CASE OpenSucceeds
  <2>1. /\ wire' \in Seq(Line) /\ exhausted' \in BOOLEAN
        /\ sent' \in Nat /\ opens' \in 0..2
    <3>1. \/ UNCHANGED <<wire, exhausted, sent, opens>>
          \/ /\ wire' = <<>> \/ wire' = FileLines
             /\ exhausted' = FALSE
             /\ sent' = sent \/ sent' = sent + 1
             /\ opens' = 1 \/ opens' = 2
      BY <1>3 DEF OpenSucceeds
    <3>2. /\ <<>> \in Seq(Line) /\ FileLines \in Seq(Line)
          /\ wire \in Seq(Line) /\ sent \in Nat /\ opens \in 0..2
          /\ exhausted \in BOOLEAN
      BY WorkerAssumption
    <3>3. wire' \in Seq(Line)
      BY <3>1, <3>2
    <3>4. exhausted' \in BOOLEAN
      BY Zenon, <3>1, <3>2
    <3>5. sent' \in Nat /\ opens' \in 0..2
      BY <3>1, <3>2
    <3> QED
      BY <3>3, <3>4, <3>5
  <2>2. published' \in View
    BY <1>3, <2>1 DEF OpenSucceeds, View
  <2> QED
    BY <1>3, <2>1, <2>2 DEF OpenSucceeds, dataVars
<1>4. CASE OpenFails
  BY <1>4 DEF OpenFails, sourceVars, dataVars, histVars
<1>5. CASE SetConnected
  BY <1>5 DEF SetConnected, sourceVars, histVars
<1>6. CASE PollBegin
  BY <1>6, WorkerAssumption DEF PollBegin, sourceVars, histVars
<1>7. CASE PollLine
  <2>1. Head(Readable) \in Line /\ wire' \in Seq(Line) /\ sent' \in Nat
    BY <1>7, WorkerAssumption DEF PollLine, Readable
  <2>2. state' \in State
    BY <1>7, <2>1, ProcessType DEF PollLine
  <2> QED
    BY <1>7, <2>1, <2>2, WorkerAssumption DEF PollLine, threadVars, histVars
<1>8. CASE PollReturns
  BY <1>8 DEF PollReturns, View
<1>9. CASE PollRaises
  BY <1>9 DEF PollRaises, sourceVars, dataVars, LiveView, View
<1>10. CASE IdleWaitEnds
  BY <1>10 DEF IdleWaitEnds, sourceVars, dataVars, histVars
<1>11. CASE SetDisconnected
  BY <1>11 DEF SetDisconnected, sourceVars, histVars
<1>12. CASE SafeClose
  BY <1>12 DEF SafeClose, CloseSource, dataVars, histVars
<1>13. CASE RetryWaitEnds
  BY <1>13 DEF RetryWaitEnds, sourceVars, dataVars, histVars
<1>14. CASE Start
  BY <1>14 DEF Start, sourceVars, dataVars, histVars
<1>15. CASE Snapshot
  BY <1>15 DEF Snapshot, threadVars, sourceVars, dataVars, histVars,
               LiveView, View
<1>16. CASE Stop
  BY <1>16 DEF Stop, sourceVars, dataVars
<1>17. CASE JoinReturns
  <2>1. /\ mpc' = "closing" /\ thread' = FALSE /\ joined' = TRUE
        /\ UNCHANGED <<wpc, lock, stop, status, serial, loop, src, plugged,
                       wire, sent, exhausted, state, got, clock, upd, snap,
                       published, stopAt, opens>>
    BY <1>17 DEF JoinReturns, sourceVars, dataVars
  <2>2. mpc' \in MainPC /\ thread' \in BOOLEAN /\ joined' \in BOOLEAN
    BY <2>1
  <2>3. /\ wire' \in Seq(Line) /\ state' \in State /\ got' \in 0..PollBatch
        /\ snap' \in Optional([connection : Connection, view : View])
        /\ published' \in View
    BY <2>1
  <2> QED
    BY <2>1, <2>2, <2>3
<1>18. CASE JoinTimesOut
  <2>1. /\ mpc' = "closing" /\ thread' = FALSE
        /\ UNCHANGED <<wpc, lock, stop, status, serial, loop, src, plugged,
                       wire, sent, exhausted, state, got, clock, upd, snap,
                       published, stopAt, opens, joined>>
    BY <1>18 DEF JoinTimesOut, sourceVars, dataVars, histVars
  <2>2. mpc' \in MainPC /\ thread' \in BOOLEAN
    BY <2>1
  <2>3. /\ wire' \in Seq(Line) /\ state' \in State /\ got' \in 0..PollBatch
        /\ snap' \in Optional([connection : Connection, view : View])
        /\ published' \in View
    BY <2>1
  <2> QED
    BY <2>1, <2>2, <2>3
<1>19. CASE StopCloses
  BY <1>19 DEF StopCloses, CloseSource, dataVars, histVars
<1>20. CASE PlugOrUnplug
  BY <1>20 DEF PlugOrUnplug, threadVars, dataVars, histVars
<1>21. CASE DeviceSends
  BY <1>21, WorkerAssumption DEF DeviceSends, threadVars, dataVars, histVars
<1>22. CASE UNCHANGED vars
  BY <1>22 DEF vars, threadVars, sourceVars, dataVars, histVars
<1> QED
  BY <1>1, <1>2, <1>3, <1>4, <1>5, <1>6, <1>7, <1>8, <1>9, <1>10, <1>11,
     <1>12, <1>13, <1>14, <1>15, <1>16, <1>17, <1>18, <1>19, <1>20, <1>21,
     <1>22 DEF Next, Worker, Main, Stopping, Environment

\* Type correctness of the worker, its source and the main thread.
THEOREM TypeCorrect == Spec => []TypeOK
BY InitType, NextType, PTL DEF Spec

-----------------------------------------------------------------------------
(* The invariants that hold because of the order of the steps.             *)

LEMMA InitInductive == Init => Inductive
BY DEF Init, Inductive, NoState, FixMeansPosition,
       ConnectedIsOpen, SnapshotCoherent, JoinedStaysClosed, StopKnown,
       OpenKnown, StopBudget, JoinKnown, StateCoherent

\* Every step of either thread keeps what each of them knows.
LEMMA NextInductive == TypeOK /\ Inductive /\ [Next]_vars => Inductive'
<1> SUFFICES ASSUME TypeOK, Inductive, [Next]_vars PROVE Inductive'
  OBVIOUS
<1>t. /\ got \in Nat /\ clock \in Nat /\ PollBatch \in Nat
      /\ got <= PollBatch
  BY WorkerAssumption DEF TypeOK
<1>b. joined \in BOOLEAN /\ stop \in BOOLEAN
  BY DEF TypeOK
<1> USE DEF Inductive, ConnectedIsOpen, SnapshotCoherent, JoinedStaysClosed, StopKnown,
           OpenKnown, StopBudget, JoinKnown, StateCoherent
<1>1. CASE CheckStop
  BY <1>1, <1>t, <1>b DEF CheckStop, sourceVars, dataVars, histVars
<1>2. CASE EnsureOpen
  BY <1>2, <1>t, <1>b DEF EnsureOpen, sourceVars, histVars
<1>3. CASE OpenSucceeds
  BY <1>3, <1>t, <1>b DEF OpenSucceeds, dataVars
<1>4. CASE OpenFails
  BY <1>4, <1>t, <1>b DEF OpenFails, sourceVars, dataVars, histVars
<1>5. CASE SetConnected
  BY <1>5, <1>t, <1>b DEF SetConnected, sourceVars, histVars
<1>6. CASE PollBegin
  BY <1>6, <1>t, <1>b DEF PollBegin, sourceVars, histVars
<1>7. CASE PollLine
  <2>1. Head(Readable) \in Line /\ state \in State /\ clock + 1 \in Nat
    BY <1>7, <1>t, WorkerAssumption DEF PollLine, Readable, TypeOK
  <2>2. StateCoherent'
    BY <1>7, <2>1, ProcessCoherent DEF PollLine
  <2>3. StopBudget'
    BY <1>7, <1>t, <1>b DEF PollLine, threadVars, histVars
  <2>4. /\ UNCHANGED <<threadVars, src, status, snap, histVars>>
        /\ wpc = "polling"
    BY <1>7 DEF PollLine
  <2> QED
    BY <2>2, <2>3, <2>4, <1>b DEF threadVars, histVars
<1>8. CASE PollReturns
  BY <1>8, <1>t, <1>b DEF PollReturns
<1>9. CASE PollRaises
  BY <1>9, <1>t, <1>b DEF PollRaises, sourceVars, dataVars
<1>10. CASE IdleWaitEnds
  BY <1>10, <1>t, <1>b DEF IdleWaitEnds, sourceVars, dataVars, histVars
<1>11. CASE SetDisconnected
  BY <1>11, <1>t, <1>b DEF SetDisconnected, sourceVars, histVars
<1>12. CASE SafeClose
  BY <1>12, <1>t, <1>b DEF SafeClose, CloseSource, dataVars, histVars
<1>13. CASE RetryWaitEnds
  BY <1>13, <1>t, <1>b DEF RetryWaitEnds, sourceVars, dataVars, histVars
<1>14. CASE Start
  BY <1>14, <1>t, <1>b DEF Start, sourceVars, dataVars, histVars
<1>15. CASE Snapshot
  BY <1>15, <1>t, <1>b DEF Snapshot, threadVars, sourceVars, dataVars, histVars, LiveView
<1>16. CASE Stop
  BY <1>16, <1>t, <1>b DEF Stop, sourceVars, dataVars
<1>17. CASE JoinReturns
  BY <1>17, <1>t, <1>b DEF JoinReturns, sourceVars, dataVars
<1>18. CASE JoinTimesOut
  BY <1>18, <1>t, <1>b DEF JoinTimesOut, sourceVars, dataVars, histVars
<1>19. CASE StopCloses
  BY <1>19, <1>t, <1>b DEF StopCloses, CloseSource, dataVars, histVars
<1>20. CASE PlugOrUnplug
  BY <1>20, <1>t, <1>b DEF PlugOrUnplug, threadVars, dataVars, histVars
<1>21. CASE DeviceSends
  BY <1>21, <1>t, <1>b DEF DeviceSends, threadVars, dataVars, histVars
<1>22. CASE UNCHANGED vars
  BY <1>22 DEF vars, threadVars, sourceVars, dataVars, histVars
<1> QED
  BY <1>1, <1>2, <1>3, <1>4, <1>5, <1>6, <1>7, <1>8, <1>9, <1>10, <1>11,
     <1>12, <1>13, <1>14, <1>15, <1>16, <1>17, <1>18, <1>19, <1>20, <1>21,
     <1>22 DEF Next, Worker, Main, Stopping, Environment

LEMMA InductiveHolds == Spec => [](TypeOK /\ Inductive)
<1>1. Init => TypeOK /\ Inductive
  BY InitType, InitInductive
<1>2. (TypeOK /\ Inductive) /\ [Next]_vars => (TypeOK /\ Inductive)'
  BY NextType, NextInductive
<1> QED
  BY <1>1, <1>2, PTL DEF Spec

\* While the status says CONNECTED and stop() has not been called the source
\* is open.
THEOREM ConnectedOpen == Spec => []ConnectedIsOpen
<1>1. TypeOK /\ Inductive => ConnectedIsOpen
  BY DEF Inductive
<1> QED
  BY <1>1, InductiveHolds, PTL

\* After a stop request the worker reads at most one more batch.
THEOREM StopPrompt == Spec => []StopIsPrompt
<1>1. TypeOK /\ Inductive => StopIsPrompt
  BY DEF Inductive, StopBudget, StopIsPrompt
<1> QED
  BY <1>1, InductiveHolds, PTL

\* A stop() whose join succeeded leaves the port closed.
THEOREM JoinedClosed == Spec => []JoinedStaysClosed
<1>1. TypeOK /\ Inductive => JoinedStaysClosed
  BY DEF Inductive
<1> QED
  BY <1>1, InductiveHolds, PTL

\* A snapshot shows a position exactly when it shows a fix.
THEOREM SnapshotsCoherent == Spec => []SnapshotCoherent
<1>1. TypeOK /\ Inductive => SnapshotCoherent
  BY DEF Inductive
<1> QED
  BY <1>1, InductiveHolds, PTL

-----------------------------------------------------------------------------
(* The worker implements ReceiverFeed.                                     *)

\* What the refinement rests on is kept by every step.
LEMMA NextFeedKnown ==
  TypeOK /\ Inductive /\ FeedKnown /\ [Next]_vars => FeedKnown'
<1> SUFFICES ASSUME TypeOK, ConnectedIsOpen, FeedKnown, [Next]_vars
             PROVE  FeedKnown'
  BY DEF Inductive
<1>t. /\ clock \in Nat /\ lock \in {"free", "worker"} /\ stop \in BOOLEAN
      /\ exhausted \in BOOLEAN /\ serial \in BOOLEAN
      /\ upd \in Optional(Nat) /\ published \in View /\ state \in State
  BY DEF TypeOK
<1> USE DEF FeedKnown, ConnectedIsOpen
<1>1. CASE CheckStop
  BY <1>1, <1>t DEF CheckStop, sourceVars, dataVars, histVars
<1>2. CASE EnsureOpen
  BY <1>2, <1>t DEF EnsureOpen, sourceVars, histVars
<1>3. CASE OpenSucceeds
  <2>1. /\ published' = [published EXCEPT !.exhausted = exhausted']
        /\ UNCHANGED <<mpc, lock, stop, status, state, upd, clock, serial, snap>>
        /\ wpc = "opening" /\ wpc' = "opened"
        /\ \/ src # "closed" /\ UNCHANGED <<exhausted, opens>>
           \/ exhausted' = FALSE /\ (opens' = 1 \/ opens' = 2)
    BY <1>3 DEF OpenSucceeds, dataVars
  <2>3. opens' # 0
    BY <2>1
  <2>4. exhausted' \in BOOLEAN /\ (exhausted' => exhausted)
    BY Zenon, <1>t, <2>1
  <2>2. published'.state = published.state /\ published'.upd = published.upd
        /\ published'.exhausted = exhausted'
    BY <1>t, <2>1 DEF View
  <2> QED
    BY <1>t, <2>1, <2>2, <2>3, <2>4
<1>4. CASE OpenFails
  BY <1>4, <1>t DEF OpenFails, sourceVars, dataVars, histVars
<1>5. CASE SetConnected
  BY <1>5, <1>t DEF SetConnected, sourceVars, histVars
<1>6. CASE PollBegin
  BY <1>6, <1>t DEF PollBegin, sourceVars, histVars
<1>7. CASE PollLine
  <2>1. Head(Readable) \in Line /\ clock + 1 \in Nat
    BY <1>7, <1>t, WorkerAssumption DEF PollLine, Readable, TypeOK
  <2>2. state'.seen >= state.seen /\ state' \in State
    <3>1. state' = Process(state, Head(Readable), clock + 1)
      BY <1>7 DEF PollLine
    <3>2. /\ state.seen \in Nat
          /\ state'.seen = state.seen \/ state'.seen = state.seen + 1
      BY <1>t, <2>1, <3>1, ProcessCounts
    <3> QED
      BY <1>t, <2>1, <3>1, <3>2, ProcessType
  <2>3. published.state.seen <= state'.seen
    BY <1>t, <2>2 DEF View, State
  <2>4. upd' # None => upd' <= clock'
    BY <1>7, <1>t DEF PollLine, Optional
  <2>5. /\ UNCHANGED <<wpc, mpc, lock, stop, status, src, serial, exhausted, upd,
                      published, opens, snap>>
        /\ lock = "worker"
    BY <1>7 DEF PollLine, threadVars, histVars
  <2> QED
    BY <2>3, <2>4, <2>5
<1>8. CASE PollReturns
  <2>1. /\ published' = [state |-> state, upd |-> upd', exhausted |-> exhausted']
        /\ state' = state /\ clock' = clock /\ upd' \in {upd, clock}
        /\ lock' = "free" /\ wpc' \in {"idling", "check"}
        /\ UNCHANGED <<mpc, stop, status, src, serial, opens, snap>>
        /\ wpc = "polling"
    BY <1>8 DEF PollReturns
  <2>2. exhausted' => ~serial /\ opens # 0
    <3>1. /\ got = PollBatch \/ ~ReadRaises
          /\ exhausted' => exhausted \/ (~serial /\ got < PollBatch)
      BY Zenon, <1>8 DEF PollReturns
    <3>2. got \in Nat /\ PollBatch \in Nat /\ got <= PollBatch
      BY WorkerAssumption DEF TypeOK
    <3>3. opens = 0 => ReadRaises /\ ~exhausted
      BY DEF ReadRaises
    <3>4. exhausted' => exhausted \/ (~serial /\ ~ReadRaises)
      BY <3>1, <3>2
    <3>5. exhausted => ~serial
      OBVIOUS
    <3> QED
      BY <3>3, <3>4, <3>5
  <2>3. state.seen <= state.seen /\ clock <= clock
    BY <1>t DEF State
  <2> QED
    BY <1>t, <2>1, <2>2, <2>3
<1>9. CASE PollRaises
  <2>1. src = "closed" => stop
    BY <1>9 DEF PollRaises
  <2>2. published' = LiveView /\ state.seen <= state.seen
    BY <1>9, <1>t DEF PollRaises, State
  <2> QED
    BY <1>9, <1>t, <2>1, <2>2
       DEF PollRaises, ReadRaises, sourceVars, dataVars, LiveView
<1>10. CASE IdleWaitEnds
  BY <1>10, <1>t DEF IdleWaitEnds, sourceVars, dataVars, histVars
<1>11. CASE SetDisconnected
  BY <1>11, <1>t DEF SetDisconnected, sourceVars, histVars
<1>12. CASE SafeClose
  BY <1>12, <1>t DEF SafeClose, CloseSource, dataVars, histVars
<1>13. CASE RetryWaitEnds
  BY <1>13, <1>t DEF RetryWaitEnds, sourceVars, dataVars, histVars
<1>14. CASE Start
  BY <1>14, <1>t DEF Start, sourceVars, dataVars, histVars
<1>15. CASE Snapshot
  BY <1>15, <1>t
     DEF Snapshot, LiveView, threadVars, sourceVars, dataVars, histVars
<1>16. CASE Stop
  BY <1>16, <1>t DEF Stop, sourceVars, dataVars
<1>17. CASE JoinReturns \/ JoinTimesOut
  BY <1>17, <1>t DEF JoinReturns, JoinTimesOut, sourceVars, dataVars, histVars
<1>18. CASE StopCloses
  BY <1>18, <1>t DEF StopCloses, CloseSource, dataVars, histVars
<1>19. CASE PlugOrUnplug
  BY <1>19, <1>t DEF PlugOrUnplug, threadVars, dataVars, histVars
<1>20. CASE DeviceSends
  BY <1>20, <1>t DEF DeviceSends, threadVars, dataVars, histVars
<1>21. CASE UNCHANGED vars
  BY <1>21 DEF vars, threadVars, sourceVars, dataVars, histVars
<1> QED
  BY <1>1, <1>2, <1>3, <1>4, <1>5, <1>6, <1>7, <1>8, <1>9, <1>10, <1>11,
     <1>12, <1>13, <1>14, <1>15, <1>16, <1>17, <1>18, <1>19, <1>20, <1>21
     DEF Next, Worker, Main, Stopping, Environment

\* Every step of the worker, its source or the main thread is a step of the
\* feed, or leaves what the feed shows alone.
LEMMA FeedStep ==
  TypeOK /\ FeedKnown /\ TypeOK' /\ FeedKnown' /\ [Next]_vars
    => [Feed!FeedNext]_(Feed!feedVars)
<1> SUFFICES ASSUME TypeOK, FeedKnown, TypeOK', FeedKnown', [Next]_vars
             PROVE  [Feed!FeedNext]_(Feed!feedVars)
  OBVIOUS
<1> USE DEF Feed!FeedNext, Feed!feedVars
<1>1. CASE EnsureOpen \/ SetConnected \/ SetDisconnected
  <2>1. UNCHANGED <<published, snap>>
    BY <1>1 DEF EnsureOpen, SetConnected, SetDisconnected, histVars
  <2>2. status' = status \/ <<status, status'>> \in ConnEdge
    BY <1>1 DEF EnsureOpen, SetConnected, SetDisconnected, FeedKnown, TypeOK,
                Connection, ConnEdge
  <2> QED
    BY <2>1, <2>2 DEF Feed!ConnectionChanges, Feed!ConnEdge, ConnEdge
<1>2. CASE OpenSucceeds
  <2>1. /\ published' = [published EXCEPT !.exhausted = exhausted']
        /\ exhausted' = exhausted \/ exhausted' = FALSE
        /\ UNCHANGED <<status, snap>> /\ status = "CONNECTING"
        /\ published \in View /\ published.exhausted = exhausted
    BY <1>2 DEF OpenSucceeds, dataVars, FeedKnown, TypeOK
  <2>2. CASE exhausted' = FALSE
    BY <2>1, <2>2 DEF Feed!Reopen
  <2>3. CASE exhausted' = exhausted
    <3>1. published' = published
      BY <2>1, <2>3 DEF View
    <3> QED
      BY <2>1, <3>1
  <2> QED
    BY <2>1, <2>2, <2>3
<1>3. CASE PollReturns \/ PollRaises
  <2>1. status = "CONNECTED" /\ UNCHANGED <<status, snap>>
    BY <1>3 DEF PollReturns, PollRaises, FeedKnown, dataVars
  <2>2. published' \in View
    BY DEF TypeOK
  <2>3. published'.state = state /\ published'.upd = upd'
        /\ published'.exhausted = exhausted'
    BY <1>3 DEF PollReturns, PollRaises, LiveView, FeedKnown, dataVars, sourceVars
  <2>4. published'.state.seen >= published.state.seen
    BY <2>2, <2>3 DEF FeedKnown, TypeOK, View, State
  <2>5. published.upd # None =>
          published'.upd # None /\ published'.upd >= published.upd
    <3>1. published.upd = upd /\ upd \in Optional(Nat) /\ clock \in Nat
          /\ (upd # None => upd <= clock)
      BY DEF FeedKnown, TypeOK
    <3>2. published'.upd \in {upd, clock}
      BY <1>3, <2>3 DEF PollReturns, PollRaises, dataVars
    <3> QED
      BY <3>1, <3>2, NoneAssumption DEF Optional
  <2>6. published.exhausted => published'.exhausted
    <3>1. exhausted => exhausted'
      BY <1>3 DEF PollReturns, PollRaises, sourceVars
    <3>2. published.exhausted = exhausted /\ published'.exhausted = exhausted'
      BY DEF FeedKnown
    <3> QED
      BY <3>1, <3>2
  <2>7. Feed!Publish
    BY <2>1, <2>2, <2>4, <2>5, <2>6
       DEF Feed!Publish, Feed!Extends, Feed!View, Feed!State, Feed!Optional,
           View, State, Optional
  <2> QED
    BY <2>7
<1>4. CASE Snapshot
  <2>1. published = LiveView
    <3>1. /\ published.state = state /\ published.upd = upd
          /\ published.exhausted = exhausted /\ published \in View
      BY <1>4 DEF Snapshot, FeedKnown, TypeOK
    <3> QED
      BY <3>1 DEF LiveView, View
  <2> QED
    BY <1>4, <2>1 DEF Snapshot, Feed!Observe, dataVars, histVars
<1>5. CASE UNCHANGED <<status, published, snap>>
  BY <1>5
<1> QED
  BY <1>1, <1>2, <1>3, <1>4, <1>5
     DEF Next, Worker, Main, Stopping, Environment, vars, threadVars, dataVars,
         histVars, CheckStop, OpenFails, PollBegin, PollLine, IdleWaitEnds,
         SafeClose, RetryWaitEnds, Start, Stop, JoinReturns, JoinTimesOut,
         StopCloses, PlugOrUnplug, DeviceSends

\* The worker implements ReceiverFeed: whatever the two threads and the
\* device do, the snapshots are those of one status that moves along its
\* edges and one view that only grows, and only while connected.
THEOREM ImplementsFeed == Spec => FeedSpec
<1>1. Init => Feed!FeedInit /\ FeedKnown
  <2> SUFFICES ASSUME Init PROVE Feed!FeedInit /\ FeedKnown
    OBVIOUS
  <2>1. published \in View
    BY InitType DEF TypeOK
  <2>2. FeedKnown
    BY DEF Init, LiveView, FeedKnown, NoState
  <2> QED
    BY <2>1, <2>2 DEF Init, LiveView, NoState, Feed!FeedInit, Feed!View,
                      Feed!State, Feed!Optional,
           View, State, Optional
<1>2. TypeOK /\ Inductive /\ FeedKnown /\ [Next]_vars => FeedKnown'
  BY NextFeedKnown
<1> QED
  BY <1>1, <1>2, FeedStep, InductiveHolds, PTL DEF Spec, FeedSpec, Feed!FeedSpec

-----------------------------------------------------------------------------
(* A replay is read to its end, and once if its file is opened once.       *)

\* One more line of the file is one more sentence, unless it is blank.
LEMMA SentencesNext ==
  ASSUME NEW n \in Nat, n < Len(FileLines)
  PROVE  Sentences(n + 1) = IF FileLines[n + 1].type = "blank"
                            THEN Sentences(n) ELSE Sentences(n) + 1
<1> DEFINE upTo(m) == {i \in 1..m : FileLines[i].type # "blank"}
<1>1. IsFiniteSet(1..n)
  BY FS_Interval
<1>2. IsFiniteSet(upTo(n))
  BY <1>1, FS_Subset
<1>3. CASE FileLines[n + 1].type = "blank"
  <2>1. upTo(n + 1) = upTo(n)
    BY <1>3
  <2> QED
    BY <1>3, <2>1 DEF Sentences
<1>4. CASE FileLines[n + 1].type # "blank"
  <2>1. upTo(n + 1) = upTo(n) \cup {n + 1} /\ n + 1 \notin upTo(n)
    BY <1>4
  <2>2. Cardinality(upTo(n + 1)) = Cardinality(upTo(n)) + 1
    BY <1>2, <2>1, FS_AddElement
  <2> QED
    BY <1>4, <2>2 DEF Sentences
<1> QED
  BY <1>3, <1>4

LEMMA SentencesNone == Sentences(0) = 0
<1>1. {i \in 1..0 : FileLines[i].type # "blank"} = {}
  OBVIOUS
<1> QED
  BY <1>1, FS_EmptySet DEF Sentences

LEMMA SentencesNat ==
  ASSUME NEW n \in Nat
  PROVE  Sentences(n) \in Nat
<1>1. IsFiniteSet({i \in 1..n : FileLines[i].type # "blank"})
  <2>1. IsFiniteSet(1..n)
    BY FS_Interval
  <2> QED
    BY <2>1, FS_Subset
<1> QED
  BY <1>1, FS_CardinalityType DEF Sentences

\* Reading a line of the file, or the first one again at its end, leaves the
\* rest of it, with that line counted.
LEMMA ReplayLine ==
  ASSUME TypeOK, Replaying, PollLine
  PROVE  Replaying'
<1> DEFINE read == Len(FileLines) - Len(Readable)
<1>t. /\ FileLines \in Seq(Line) /\ wire \in Seq(Line) /\ state \in State
      /\ Readable \in Seq(Line) /\ state.seen \in Nat /\ clock + 1 \in Nat
  BY WorkerAssumption DEF TypeOK, Readable, State
<1>0. /\ read \in Nat /\ state.seen >= Sentences(read)
      /\ opens = 1 /\ EndsForGood => state.seen = Sentences(read)
      /\ \A i \in 1..Len(Readable) : Readable[i] = FileLines[read + i]
  <2>1. CASE Rewinds
    <3>1. Readable = FileLines /\ read = 0
      BY <1>t, <2>1 DEF Readable
    <3>2. FileLines # <<>> /\ ~EndsForGood
      BY <2>1, <3>1 DEF PollLine, Rewinds, EndsForGood
    <3> QED
      BY <1>t, <3>1, <3>2, SentencesNone
  <2>2. CASE ~Rewinds
    BY <2>2 DEF Readable, Replaying
  <2> QED
    BY <2>1, <2>2
<1>1. /\ Readable # <<>> /\ wire' = Tail(Readable)
      /\ state' = Process(state, Head(Readable), clock + 1)
      /\ UNCHANGED <<opens, loop>>
  BY DEF PollLine, histVars
<1>2. /\ Len(Readable) \in Nat \ {0} /\ Len(wire') = Len(Readable) - 1
      /\ Head(Readable) = Readable[1] /\ Head(Readable) \in Line
      /\ \A i \in 1..Len(wire') : wire'[i] = Readable[i + 1]
  BY <1>t, <1>1
<1>3. /\ read < Len(FileLines)
      /\ Len(FileLines) - Len(wire') = read + 1
      /\ Head(Readable) = FileLines[read + 1]
  BY <1>t, <1>0, <1>2
<1>4. /\ Sentences(read) \in Nat
      /\ state'.seen >= Sentences(read + 1)
      /\ state.seen = Sentences(read) => state'.seen = Sentences(read + 1)
  <2>1. Sentences(read) \in Nat
    BY <1>0, SentencesNat
  <2>2. state'.seen = IF Head(Readable).type = "blank"
                      THEN state.seen ELSE state.seen + 1
    BY <1>t, <1>1, <1>2, ProcessCounts
  <2>3. Sentences(read + 1) = IF Head(Readable).type = "blank"
                              THEN Sentences(read) ELSE Sentences(read) + 1
    BY <1>0, <1>3, SentencesNext
  <2> HIDE DEF read
  <2> QED
    BY <1>t, <1>0, <2>1, <2>2, <2>3
<1>5. \A i \in 1..Len(wire') : wire'[i] = FileLines[(read + 1) + i]
  BY <1>t, <1>0, <1>2
<1>6. EndsForGood' <=> EndsForGood
  BY <1>1 DEF EndsForGood
<1>7. opens' = 1 /\ EndsForGood' => state'.seen = Sentences(read + 1)
  BY <1>0, <1>1, <1>4, <1>6
<1>8. read + 1 \in Nat
  BY <1>0
<1> HIDE DEF read
<1> QED
  BY <1>3, <1>4, <1>5, <1>7, <1>8 DEF Replaying

\* A source never changes its kind.
LEMMA SerialFixed == [Next]_vars => UNCHANGED <<serial, loop>>
<1>1. Worker => UNCHANGED <<serial, loop>>
  BY DEF Worker, sourceVars, CheckStop, EnsureOpen, OpenSucceeds, OpenFails,
         SetConnected, PollBegin, PollLine, PollReturns, PollRaises,
         IdleWaitEnds, SetDisconnected, SafeClose, RetryWaitEnds
<1>2. Main \/ Environment \/ UNCHANGED vars => UNCHANGED <<serial, loop>>
  BY DEF Main, Stopping, Environment, vars, sourceVars, Start, Snapshot, Stop,
         JoinReturns, JoinTimesOut, StopCloses, PlugOrUnplug, DeviceSends
<1> QED
  BY <1>1, <1>2 DEF Next

LEMMA InitReplay == Init => ReplayKnown /\ ExhaustedIsComplete
BY DEF Init, ReplayKnown, ExhaustedIsComplete, NoState

\* Every step keeps the bookkeeping of a replay.
LEMMA NextReplay ==
  TypeOK /\ FeedKnown /\ ReplayKnown /\ [Next]_vars => ReplayKnown'
<1> SUFFICES ASSUME TypeOK, FeedKnown, ReplayKnown, [Next]_vars, ~serial
             PROVE  ReplayKnown'
  BY SerialFixed DEF ReplayKnown
<1>t. /\ src \in {"open", "dead", "closed"} /\ wire \in Seq(Line)
      /\ exhausted \in BOOLEAN /\ opens \in 0..2
      /\ FileLines \in Seq(Line) /\ Len(FileLines) \in Nat
  BY WorkerAssumption DEF TypeOK
<1>f. UNCHANGED <<serial, loop>> /\ (EndsForGood' <=> EndsForGood)
  BY SerialFixed DEF EndsForGood
<1>k. /\ opens = 0 => state.seen = 0 /\ src = "closed" /\ ~exhausted
      /\ src = "closed" => wire = <<>>
      /\ src = "open" => Replaying
      /\ exhausted => /\ EndsForGood /\ wire = <<>>
                      /\ state.seen >= Sentences(Len(FileLines))
                      /\ opens = 1 => state.seen = Sentences(Len(FileLines))
  BY DEF FeedKnown, ReplayKnown
<1>1. ASSUME UNCHANGED <<wire, state, opens>> PROVE Replaying' <=> Replaying
  BY <1>f, <1>1 DEF Replaying
<1>2. ASSUME UNCHANGED <<src, wire, exhausted, state, opens>>
      PROVE  ReplayKnown'
  BY <1>f, <1>k, <1>1, <1>2 DEF ReplayKnown
<1>3. CASE OpenSucceeds
  <2>1. CASE src # "closed"
    BY <1>2, <1>3, <2>1 DEF OpenSucceeds, dataVars
  <2>2. CASE src = "closed"
    <3>1. /\ src' = "open" /\ exhausted' = FALSE /\ wire' = FileLines
          /\ state' = state /\ opens' = IF opens = 0 THEN 1 ELSE 2
      BY <1>3, <2>2 DEF OpenSucceeds, dataVars
    <3>2. opens' = 1 => state'.seen = 0
      BY <1>k, <3>1
    <3>3. state'.seen \in Nat
      BY <3>1 DEF TypeOK, State
    <3>4. Replaying'
      BY <1>t, <3>1, <3>2, <3>3, SentencesNone DEF Replaying
    <3> QED
      BY <3>1, <3>4 DEF ReplayKnown
  <2> QED
    BY <2>1, <2>2
<1>4. CASE PollLine
  <2>1. src # "closed" /\ UNCHANGED <<src, exhausted, opens>>
    BY <1>4 DEF PollLine, ReadRaises, histVars
  <2>2. ~exhausted
    BY <1>4, <1>k DEF PollLine, Readable, Rewinds, EndsForGood
  <2>3. src = "open" => Replaying'
    BY <1>4, <1>k, ReplayLine
  <2> QED
    BY <1>k, <2>1, <2>2, <2>3 DEF ReplayKnown
<1>5. CASE PollReturns
  <2>1. UNCHANGED <<src, wire, state, opens>>
    BY <1>5 DEF PollReturns
  <2>2. exhausted' => \/ exhausted
                      \/ src = "open" /\ wire = <<>> /\ EndsForGood
    <3>1. ASSUME exhausted', ~exhausted
          PROVE  ~ReadRaises /\ Readable = <<>> /\ EndsForGood
      <4>1. /\ got = PollBatch \/ (~ReadRaises /\ Readable = <<>>)
            /\ exhausted \/ (got < PollBatch /\ EndsForGood)
        BY Zenon, <1>5, <3>1 DEF PollReturns, EndsForGood
      <4>2. got \in Nat /\ PollBatch \in Nat
        BY WorkerAssumption DEF TypeOK
      <4> QED
        BY <3>1, <4>1, <4>2
    <3>2. ASSUME exhausted', ~exhausted PROVE wire = <<>>
      BY <3>1, <3>2 DEF Readable, Rewinds
    <3> QED
      BY <1>t, <3>1, <3>2 DEF ReadRaises
  <2>3. src = "open" /\ wire = <<>> /\ EndsForGood =>
          /\ state.seen >= Sentences(Len(FileLines))
          /\ opens = 1 => state.seen = Sentences(Len(FileLines))
    <3>1. Len(FileLines) - 0 = Len(FileLines)
      BY <1>t
    <3> QED
      BY <1>k, <3>1 DEF Replaying
  <2>4. src = "open" => Replaying'
    BY <1>1, <1>k, <2>1
  <2>5. exhausted' => /\ EndsForGood /\ wire = <<>>
                      /\ state.seen >= Sentences(Len(FileLines))
                      /\ opens = 1 => state.seen = Sentences(Len(FileLines))
    BY <1>k, <2>2, <2>3
  <2> QED
    BY <1>f, <1>k, <2>1, <2>4, <2>5 DEF ReplayKnown
<1>6. CASE SafeClose \/ StopCloses
  <2>1. /\ src' = "closed" /\ wire' = <<>>
        /\ UNCHANGED <<exhausted, state, opens>>
    BY <1>6 DEF SafeClose, StopCloses, CloseSource, dataVars, histVars
  <2> QED
    BY <1>f, <1>k, <2>1 DEF ReplayKnown
<1>7. CASE PlugOrUnplug
  <2>1. /\ \/ src' = "dead" /\ src = "open"
              /\ \E n \in 0..Len(wire) : wire' = SubSeq(wire, 1, n)
           \/ UNCHANGED <<src, wire>>
        /\ UNCHANGED <<exhausted, state, opens>>
    BY <1>7 DEF PlugOrUnplug, dataVars, histVars
  <2>2. CASE UNCHANGED <<src, wire>>
    BY <1>2, <2>1, <2>2
  <2>3. ASSUME NEW n \in 0..Len(wire), wire' = SubSeq(wire, 1, n)
        PROVE  wire = <<>> => wire' = <<>>
    BY <1>t, <2>3
  <2> QED
    BY <1>f, <1>k, <2>1, <2>2, <2>3 DEF ReplayKnown
<1>8. CASE DeviceSends
  BY <1>8 DEF DeviceSends
<1> QED
  BY <1>2, <1>3, <1>4, <1>5, <1>6, <1>7, <1>8
     DEF Next, Worker, Main, Stopping, Environment, vars, threadVars,
         sourceVars, dataVars, histVars, CheckStop, EnsureOpen, OpenFails,
         SetConnected, PollBegin, PollRaises, IdleWaitEnds, SetDisconnected,
         RetryWaitEnds, Start, Snapshot, Stop, JoinReturns, JoinTimesOut

\* A snapshot shows the flag with the state the worker had when it was set.
LEMMA SnapshotReplay ==
  TypeOK /\ FeedKnown /\ ReplayKnown /\ ExhaustedIsComplete /\ [Next]_vars
    => ExhaustedIsComplete'
<1> SUFFICES ASSUME TypeOK, FeedKnown, ReplayKnown, ExhaustedIsComplete,
                    [Next]_vars
             PROVE  ExhaustedIsComplete'
  OBVIOUS
<1>1. CASE Snapshot
  BY <1>1 DEF Snapshot, LiveView, FeedKnown, ReplayKnown, ExhaustedIsComplete,
              histVars
<1>2. CASE UNCHANGED <<snap, opens>>
  BY <1>2 DEF ExhaustedIsComplete
<1>3. CASE OpenSucceeds
  <2>1. UNCHANGED snap /\ (opens' = 1 => opens = 0 \/ opens = 1)
    BY <1>3 DEF OpenSucceeds
  <2> QED
    BY <2>1 DEF ExhaustedIsComplete, FeedKnown
<1> QED
  BY <1>1, <1>2, <1>3
     DEF Next, Worker, Main, Stopping, Environment, vars, dataVars, histVars,
         CheckStop, EnsureOpen, OpenFails, SetConnected, PollBegin,
         PollLine, PollReturns, PollRaises, IdleWaitEnds, SetDisconnected,
         SafeClose, RetryWaitEnds, Start, Stop, JoinReturns, JoinTimesOut,
         StopCloses, PlugOrUnplug, DeviceSends

\* A replay whose snapshot says that it is exhausted has applied every line
\* of its file, for any file and batch size, and however stop(), failing
\* reads and reopened files interleave; and every line once, if its file was
\* opened once (FileReplaySource, _pump_once).
THEOREM ExhaustedComplete == Spec => []ExhaustedIsComplete
<1>1. Init => FeedKnown /\ ReplayKnown /\ ExhaustedIsComplete
  BY InitReplay DEF Init, LiveView, FeedKnown, NoState
<1> QED
  BY <1>1, InductiveHolds, NextFeedKnown, NextReplay, SnapshotReplay,
     PTL DEF Spec
=============================================================================
