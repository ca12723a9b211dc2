--------------------------- MODULE DataLoggerProofs ---------------------------
(***************************************************************************)
(* Theorems on DataLogger: with any number of receivers, any queue and any *)
(* interval, the archive is a lossy FIFO log, its rows are in order and    *)
(* spaced, nothing vanishes, and a close that saw the background thread    *)
(* end and returned left nothing behind.                                   *)
(***************************************************************************)
EXTENDS DataLogger, SequenceTheorems, TLAPS

Logged == Record \cup {STOP}

-----------------------------------------------------------------------------
(* Sequences, entry by entry.                                              *)

\* An appended entry comes last, and moves no other.
LEMMA Appended ==
  ASSUME NEW S, NEW s \in Seq(S), NEW e \in S
  PROVE  /\ Append(s, e) \in Seq(S)
         /\ Len(Append(s, e)) = Len(s) + 1
         /\ DOMAIN Append(s, e) = 1..(Len(s) + 1)
         /\ \A i \in 1..Len(s) : Append(s, e)[i] = s[i]
         /\ Append(s, e)[Len(s) + 1] = e
         /\ Elements(Append(s, e)) = Elements(s) \cup {e}
<1>1. /\ Append(s, e) \in Seq(S)
      /\ Len(Append(s, e)) = Len(s) + 1
      /\ \A i \in 1..Len(s) : Append(s, e)[i] = s[i]
      /\ Append(s, e)[Len(s) + 1] = e
  BY AppendProperties
<1>2. DOMAIN Append(s, e) = 1..(Len(s) + 1) /\ DOMAIN s = 1..Len(s)
  BY <1>1, LenProperties
<1>3. Len(s) \in Nat
  BY LenProperties
<1>4. Elements(Append(s, e)) = Elements(s) \cup {e}
  BY <1>1, <1>2, <1>3, SMT DEF Elements
<1> QED
  BY <1>1, <1>2, <1>4

\* Without its first entry a sequence has every other one place earlier.
LEMMA WithoutFirst ==
  ASSUME NEW S, NEW s \in Seq(S), s # <<>>
  PROVE  /\ Tail(s) \in Seq(S)
         /\ Head(s) = s[1] /\ s[1] \in S
         /\ Len(s) > 0
         /\ Len(Tail(s)) = Len(s) - 1
         /\ DOMAIN Tail(s) = 1..(Len(s) - 1)
         /\ \A i \in 1..(Len(s) - 1) : Tail(s)[i] = s[i + 1]
         /\ Elements(s) = {Head(s)} \cup Elements(Tail(s))
<1>1. /\ Tail(s) \in Seq(S) /\ Head(s) = s[1] /\ s[1] \in S
      /\ Len(Tail(s)) = Len(s) - 1 /\ Len(s) > 0 /\ Len(s) \in Nat
      /\ \A i \in 1..(Len(s) - 1) : Tail(s)[i] = s[i + 1]
  BY HeadTailProperties, LenProperties, EmptySeq, SMT
<1>2. DOMAIN Tail(s) = 1..(Len(s) - 1) /\ DOMAIN s = 1..Len(s)
  BY <1>1, LenProperties
<1>3. Elements(s) \subseteq {Head(s)} \cup Elements(Tail(s))
  <2> SUFFICES ASSUME NEW i \in 1..Len(s), i # 1
               PROVE  s[i] \in Elements(Tail(s))
    BY <1>1, <1>2 DEF Elements
  <2>1. i - 1 \in DOMAIN Tail(s) /\ Tail(s)[i - 1] = s[i]
    BY <1>1, <1>2, SMT
  <2> QED
    BY <2>1 DEF Elements
<1>4. {Head(s)} \cup Elements(Tail(s)) \subseteq Elements(s)
  BY <1>1, <1>2, SMT DEF Elements
<1> QED
  BY <1>1, <1>2, <1>3, <1>4

-----------------------------------------------------------------------------
(* Records, and the backlog.                                               *)

\* The sentinel is not a record, and a record has the fields of one.
LEMMA RecordFields ==
  ASSUME NEW a \in Record
  PROVE  /\ a.kind \in Kind /\ a.rx \in Receivers /\ a.n \in Nat /\ a.t \in Nat
         /\ a # STOP
  BY LoggerAssumption DEF Record

\* The next record of a source is one, and no record offered so far.
LEMMA NextRecordFields ==
  ASSUME TypeOK, NEW k \in Kind, NEW r \in Receivers
  PROVE  /\ NextRecord(k, r) \in Record
         /\ NextRecord(k, r).kind = k /\ NextRecord(k, r).rx = r
         /\ NextRecord(k, r).n = offered[k][r] + 1
         /\ NextRecord(k, r).t = now
<1>1. offered[k][r] \in Nat /\ now \in Nat
  BY DEF TypeOK
<1> QED
  BY <1>1 DEF NextRecord, Record

\* The backlog is a sequence of records and the sentinel, at most one longer
\* than the queue.
LEMMA BacklogType ==
  ASSUME TypeOK, HeldKnown
  PROVE  /\ Backlog \in Seq(Logged)
         /\ DOMAIN Backlog = 1..Len(Backlog) /\ Len(Backlog) \in Nat
         /\ Len(Backlog) <= Len(queue) + 1 /\ Len(queue) \in Nat
<1>1. queue \in Seq(Logged) /\ Len(queue) \in Nat
  BY LenProperties DEF TypeOK, Logged
<1>2. CASE wpc \in {"opening", "writing"}
  <2>1. <<item>> \in Seq(Logged) /\ Len(<<item>>) = 1
    BY <1>2, SMT DEF HeldKnown, Logged
  <2>2. Backlog = <<item>> \o queue
    BY <1>2 DEF Backlog
  <2>3. /\ Backlog \in Seq(Logged)
        /\ Len(Backlog) = Len(<<item>>) + Len(queue)
    BY <1>1, <2>1, <2>2, ConcatProperties
  <2> QED
    BY <1>1, <2>1, <2>3, LenProperties
<1>3. CASE wpc \notin {"opening", "writing"}
  <2>1. Backlog = queue
    BY <1>3 DEF Backlog
  <2> QED
    BY <1>1, <2>1, LenProperties
<1> QED
  BY <1>2, <1>3

\* With a record in hand, it is the oldest of the backlog.
LEMMA BacklogInHand ==
  ASSUME TypeOK, HeldKnown, wpc \in {"opening", "writing"}
  PROVE  /\ Backlog # <<>> /\ Head(Backlog) = item /\ Tail(Backlog) = queue
         /\ Backlog[1] = item /\ item \in Record
<1>1. queue \in Seq(Logged) /\ item \in Logged /\ item \in Record
  BY DEF TypeOK, HeldKnown, Logged
<1>2. Backlog = <<item>> \o queue
  BY DEF Backlog
<1>3. Backlog # <<>> /\ Head(Backlog) = item /\ Tail(Backlog) = queue
  BY <1>1, <1>2, SMT
<1>4. Backlog \in Seq(Logged)
  BY BacklogType
<1> QED
  BY <1>1, <1>3, <1>4, WithoutFirst

\* What is put in the queue is appended to the backlog.
LEMMA BacklogPut ==
  ASSUME TypeOK, HeldKnown, NEW e \in Logged,
         queue' = Append(queue, e), UNCHANGED <<wpc, item>>
  PROVE  Backlog' = Append(Backlog, e)
<1>1. queue \in Seq(Logged)
  BY DEF TypeOK, Logged
<1>2. CASE wpc \in {"opening", "writing"}
  <2>1. <<item>> \in Seq(Logged)
    BY <1>2, SMT DEF HeldKnown, Logged
  <2>2. Backlog = <<item>> \o queue /\ Backlog' = <<item>> \o Append(queue, e)
    BY <1>2 DEF Backlog
  <2>3. <<item>> \o Append(queue, e) = Append(<<item>> \o queue, e)
    BY <1>1, <2>1, SMT
  <2> QED
    BY <2>2, <2>3
<1>3. CASE wpc \notin {"opening", "writing"}
  BY <1>3 DEF Backlog
<1> QED
  BY <1>2, <1>3

\* Taking a record from the queue leaves the backlog as it is; taking the
\* sentinel takes it away and ends the thread.
LEMMA BacklogGet ==
  ASSUME TypeOK, HeldKnown, Get
  PROVE  /\ Backlog = queue /\ Backlog # <<>>
         /\ \/ item' \in Record /\ wpc' = "opening" /\ Backlog' = Backlog
            \/ /\ Backlog[1] = STOP /\ wpc' = "exited"
               /\ Backlog' = Tail(Backlog)
<1>1. queue \in Seq(Logged) /\ queue # <<>>
  BY DEF TypeOK, Logged, Get
<1>2. Backlog = queue
  BY DEF Backlog, Get
<1>3. /\ item' = Head(queue) /\ queue' = Tail(queue)
      /\ Head(queue) = queue[1] /\ queue[1] \in Logged
  BY <1>1, WithoutFirst DEF Get
<1>4. CASE item' = STOP
  <2>1. wpc' = "exited"
    BY <1>4 DEF Get
  <2>2. Backlog' = queue'
    BY <2>1 DEF Backlog
  <2> QED
    BY <1>1, <1>2, <1>3, <1>4, <2>1, <2>2
<1>5. CASE item' # STOP
  <2>1. wpc' = "opening"
    BY <1>5 DEF Get
  <2>2. Backlog' = <<item'>> \o queue'
    BY <2>1 DEF Backlog
  <2>3. <<Head(queue)>> \o Tail(queue) = queue
    BY <1>1, SMT
  <2> QED
    BY <1>1, <1>2, <1>3, <1>5, <2>1, <2>2, <2>3 DEF Logged
<1> QED
  BY <1>4, <1>5

\* A record that is given to its file or lost was the oldest of the backlog.
LEMMA BacklogLeft ==
  ASSUME TypeOK, HeldKnown, WriteRow \/ WriteFails
  PROVE  /\ Backlog # <<>> /\ Head(Backlog) = item /\ Backlog[1] = item
         /\ item \in Record
         /\ Backlog' = Tail(Backlog) /\ wpc # "exited" /\ wpc' # "exited"
<1>1. /\ wpc \in {"opening", "writing"} /\ wpc' \in {"flushing", "checking"}
      /\ UNCHANGED queue
  BY DEF WriteRow, WriteFails
<1>2. Backlog' = queue
  BY <1>1 DEF Backlog
<1> QED
  BY <1>1, <1>2, BacklogInHand

\* A handle that is closed when m rows are on disk leaves the first m rows.
LEMMA HandleClosed ==
  ASSUME TypeOK, NEW k \in Kind, NEW m, CloseHandle(k, m)
  PROVE  /\ m \in Nat /\ m <= Len(rows[k])
         /\ rows' \in [Kind -> Seq(Record)] /\ flushed' \in [Kind -> Nat]
         /\ flushed'[k] = m /\ Len(rows'[k]) = m
         /\ DOMAIN rows'[k] = 1..m /\ DOMAIN rows[k] = 1..Len(rows[k])
         /\ \A i \in 1..m : rows'[k][i] = rows[k][i]
         /\ \A l \in Kind : l # k => /\ rows'[l] = rows[l]
                                     /\ flushed'[l] = flushed[l]
         /\ Cut(k, m) \subseteq Record
<1>1. /\ rows[k] \in Seq(Record) /\ flushed[k] \in Nat
      /\ rows \in [Kind -> Seq(Record)] /\ flushed \in [Kind -> Nat]
  BY DEF TypeOK
<1>2. /\ Len(rows[k]) \in Nat /\ DOMAIN rows[k] = 1..Len(rows[k])
      /\ \A i \in 1..Len(rows[k]) : rows[k][i] \in Record
  BY <1>1, LenProperties, ElementOfSeq
<1>3. m \in Nat /\ m <= Len(rows[k])
  BY <1>1, <1>2, SMT DEF CloseHandle
<1>4. /\ SubSeq(rows[k], 1, m) \in Seq(Record)
      /\ Len(SubSeq(rows[k], 1, m)) = m
      /\ \A i \in 1..m : SubSeq(rows[k], 1, m)[i] = rows[k][i]
  BY <1>1, <1>2, <1>3, SMT
<1>5. DOMAIN SubSeq(rows[k], 1, m) = 1..m
  BY <1>4, LenProperties
<1>6. /\ rows' = [rows EXCEPT ![k] = SubSeq(@, 1, m)]
      /\ flushed' = [flushed EXCEPT ![k] = m]
  BY DEF CloseHandle
<1>7. /\ rows'[k] = SubSeq(rows[k], 1, m) /\ flushed'[k] = m
      /\ rows' \in [Kind -> Seq(Record)] /\ flushed' \in [Kind -> Nat]
      /\ \A l \in Kind : l # k => /\ rows'[l] = rows[l]
                                  /\ flushed'[l] = flushed[l]
  BY <1>1, <1>3, <1>4, <1>6
<1>8. Cut(k, m) \subseteq Record
  <2>1. \A i \in (m + 1)..Len(rows[k]) : i \in 1..Len(rows[k])
    BY <1>2, <1>3, SMT
  <2> QED
    BY <1>2, <2>1 DEF Cut
<1> QED
  BY <1>2, <1>3, <1>4, <1>5, <1>7, <1>8

-----------------------------------------------------------------------------
(* Types.                                                                  *)

LEMMA InitType == Init => TypeOK /\ HeldKnown
<1> SUFFICES ASSUME Init PROVE TypeOK /\ HeldKnown
  OBVIOUS
<1>1. <<>> \in Seq(Logged) /\ Len(<<>>) = 0 /\ <<>> \in Seq(Record)
  BY EmptySeq
<1>2. Len(queue) <= MaxQueue
  BY <1>1, LoggerAssumption, SMT DEF Init
<1>3. queue \in Seq(Record \cup {STOP}) /\ rows \in [Kind -> Seq(Record)]
  BY <1>1 DEF Init, Logged
<1>4. /\ now \in Nat /\ offered \in [Kind -> [Receivers -> Nat]]
      /\ lastSnap \in [Receivers -> Optional(Nat)]
      /\ flushed \in [Kind -> Nat]
  BY SMT DEF Init, Optional
<1> QED
  BY <1>2, <1>3, <1>4, Zenon DEF Init, TypeOK, HeldKnown, Optional

\* An offered record is queued or lost; either way everything keeps its type.
LEMMA EnqueueType ==
  ASSUME TypeOK, NEW p \in Thread, NEW e \in Logged, Enqueue(p, e),
         e \in Record
  PROVE  /\ queue' \in Seq(Logged) /\ Len(queue') <= MaxQueue
         /\ ppc' \in [Thread -> {"idle", "full", "warn"}]
         /\ failed' \subseteq Record /\ lost' \subseteq Record
<1>1. queue \in Seq(Logged) /\ Len(queue) <= MaxQueue
  BY DEF TypeOK, Logged
<1>2. MaxQueue \in Nat /\ Len(queue) \in Nat
  BY <1>1, LoggerAssumption, LenProperties
<1>3. CASE Len(queue) < MaxQueue /\ queue' = Append(queue, e)
           /\ UNCHANGED <<ppc, failed, lost>>
  <2>1. queue' \in Seq(Logged) /\ Len(queue') = Len(queue) + 1
    BY <1>1, <1>3, Appended
  <2> QED
    BY <1>2, <1>3, <2>1, SMT DEF TypeOK
<1>4. CASE /\ ppc' = [ppc EXCEPT ![p] = "full"] /\ lost' = lost \cup {e}
           /\ failed' = failed \cup {e} /\ UNCHANGED queue
  BY <1>1, <1>4 DEF TypeOK
<1> QED
  BY <1>3, <1>4 DEF Enqueue, lossVars

\* A step of the producers keeps the types.
LEMMA ProduceType ==
  ASSUME TypeOK, HeldKnown, Produce
  PROVE  TypeOK' /\ HeldKnown'
<1>1. ASSUME NEW r \in Receivers, OnSentence(r)
      PROVE  TypeOK' /\ HeldKnown'
  <2>1. NextRecord("sentence", r) \in Record
    BY NextRecordFields DEF Kind
  <2>2. /\ queue' \in Seq(Logged) /\ Len(queue') <= MaxQueue
        /\ ppc' \in [Thread -> {"idle", "full", "warn"}]
        /\ failed' \subseteq Record /\ lost' \subseteq Record
    BY <1>1, <2>1, EnqueueType DEF OnSentence, Thread, Logged
  <2>3. offered' \in [Kind -> [Receivers -> Nat]]
    BY <1>1, SMT DEF OnSentence, TypeOK, Kind
  <2> QED
    BY <1>1, <2>2, <2>3
    DEF OnSentence, TypeOK, HeldKnown, Logged, diskVars, closeVars
<1>2. ASSUME NEW r \in Receivers, RecordSnapshot(r)
      PROVE  TypeOK' /\ HeldKnown'
  <2>1. NextRecord("snapshot", r) \in Record
    BY NextRecordFields DEF Kind
  <2>2. /\ queue' \in Seq(Logged) /\ Len(queue') <= MaxQueue
        /\ ppc' \in [Thread -> {"idle", "full", "warn"}]
        /\ failed' \subseteq Record /\ lost' \subseteq Record
    BY <1>2, <2>1, EnqueueType DEF RecordSnapshot, Thread, Logged
  <2>3. offered' \in [Kind -> [Receivers -> Nat]]
    BY <1>2, SMT DEF RecordSnapshot, TypeOK, Kind
  <2>4. lastSnap' \in [Receivers -> Optional(Nat)]
    BY <1>2 DEF RecordSnapshot, TypeOK, Optional
  <2> QED
    BY <1>2, <2>2, <2>3, <2>4
    DEF RecordSnapshot, TypeOK, HeldKnown, Logged, diskVars, closeVars
<1>3. ASSUME NEW p \in Thread, TestWarned(p) \/ Warn(p)
      PROVE  TypeOK' /\ HeldKnown'
  <2>1. ppc' \in [Thread -> {"idle", "full", "warn"}] /\ warned' \in BOOLEAN
    BY <1>3 DEF TestWarned, Warn, TypeOK
  <2> QED
    BY <1>3, <2>1
    DEF TestWarned, Warn, TypeOK, HeldKnown, diskVars, lossVars, closeVars
<1> QED
  BY <1>1, <1>2, <1>3 DEF Produce

\* A step of the background thread keeps the types.
LEMMA BackgroundType ==
  ASSUME TypeOK, HeldKnown, Background \/ Disk
  PROVE  TypeOK' /\ HeldKnown'
<1> USE DEF producerVars, closeVars, lossVars
<1>1. ASSUME Get PROVE TypeOK' /\ HeldKnown'
  <2>1. queue \in Seq(Logged) /\ queue # <<>>
    BY <1>1 DEF Get, TypeOK, Logged
  <2>2. /\ queue' \in Seq(Logged) /\ item' \in Logged
        /\ Len(queue') = Len(queue) - 1
    BY <1>1, <2>1, WithoutFirst DEF Get
  <2>3. Len(queue') <= MaxQueue
    <3>1. Len(queue) \in Nat /\ MaxQueue \in Nat /\ Len(queue) <= MaxQueue
      BY <2>1, LenProperties, LoggerAssumption DEF TypeOK
    <3> QED
      BY <2>2, <3>1, SMT
  <2>4. /\ wpc' \in {"opening", "exited"}
        /\ wpc' = "opening" => item' \in Record
    BY <1>1, <2>2 DEF Get, Logged
  <2> QED
    BY <1>1, <2>2, <2>3, <2>4
    DEF Get, TypeOK, HeldKnown, Logged, Optional, diskVars
<1>2. ASSUME CheckEmpty \/ ResetWarned PROVE TypeOK' /\ HeldKnown'
  <2>1. /\ wpc' \in {"resetting", "getting"} /\ warned' \in BOOLEAN
        /\ UNCHANGED <<item, producerVars, closeVars, diskVars, now, lossVars,
                       queue>>
    BY <1>2 DEF CheckEmpty, ResetWarned, TypeOK
  <2> QED
    BY <2>1 DEF TypeOK, HeldKnown, diskVars
<1>3. ASSUME OpenHandle PROVE TypeOK' /\ HeldKnown'
  <2>1. item.kind \in Kind /\ item \in Record
    BY <1>3, RecordFields DEF OpenHandle, HeldKnown
  <2>2. /\ handles' \in [Kind -> {"none", "open", "closed"}]
        /\ rows' \in [Kind -> Seq(Record)] /\ flushed' \in [Kind -> Nat]
    BY <1>3, <2>1, HandleClosed DEF OpenHandle, TypeOK, diskVars
  <2> QED
    BY <1>3, <2>1, <2>2 DEF OpenHandle, TypeOK, HeldKnown
<1>4. ASSUME WriteRow PROVE TypeOK' /\ HeldKnown'
  <2>1. item.kind \in Kind /\ item \in Record
    BY <1>4, RecordFields DEF WriteRow, HeldKnown
  <2>2. rows' \in [Kind -> Seq(Record)]
    BY <1>4, <2>1, Appended DEF WriteRow, TypeOK
  <2> QED
    BY <1>4, <2>1, <2>2 DEF WriteRow, TypeOK, HeldKnown
<1>5. ASSUME FlushRow \/ FlushFails PROVE TypeOK' /\ HeldKnown'
  <2>1. item.kind \in Kind /\ item \in Record
    BY <1>5, RecordFields DEF FlushRow, FlushFails, HeldKnown
  <2>2. Len(rows[item.kind]) \in Nat /\ flushed[item.kind] \in Nat
    BY <2>1, LenProperties DEF TypeOK
  <2>3. \A m \in flushed[item.kind]..Len(rows[item.kind]) : m \in Nat
    BY <2>2, SMT
  <2>4. flushed' \in [Kind -> Nat] /\ failed' \subseteq Record
    BY <1>5, <2>1, <2>2, <2>3 DEF FlushRow, FlushFails, TypeOK
  <2> QED
    BY <1>5, <2>4 DEF FlushRow, FlushFails, TypeOK, HeldKnown
<1>6. ASSUME WriteFails PROVE TypeOK' /\ HeldKnown'
  <2>1. item.kind \in Kind /\ item \in Record
    BY <1>6, RecordFields DEF WriteFails, HeldKnown
  <2>2. failed' \subseteq Record
    BY <1>6, <2>1 DEF WriteFails, TypeOK
  <2>3. /\ handles' \in [Kind -> {"none", "open", "closed"}]
        /\ rows' \in [Kind -> Seq(Record)] /\ flushed' \in [Kind -> Nat]
        /\ lost' \subseteq Record
    <3>1. CASE UNCHANGED diskVars /\ lost' = lost \cup {item}
      BY <2>1, <3>1 DEF TypeOK, diskVars
    <3>2. ASSUME handles' = [handles EXCEPT ![item.kind] = "closed"],
                 NEW m, CloseHandle(item.kind, m),
                 lost' = lost \cup {item} \cup Cut(item.kind, m)
          PROVE  /\ handles' \in [Kind -> {"none", "open", "closed"}]
                 /\ rows' \in [Kind -> Seq(Record)]
                 /\ flushed' \in [Kind -> Nat] /\ lost' \subseteq Record
      BY <2>1, <3>2, HandleClosed DEF TypeOK
    <3> QED
      BY <1>6, <3>1, <3>2 DEF WriteFails
  <2> QED
    BY <1>6, <2>2, <2>3 DEF WriteFails, TypeOK, HeldKnown
<1> QED
  BY <1>1, <1>2, <1>3, <1>4, <1>5, <1>6 DEF Background, Disk

\* A step of close(), or of the clock, keeps the types.
LEMMA CloseType ==
  ASSUME TypeOK, HeldKnown, CloseBegins \/ Close \/ Tick
  PROVE  TypeOK' /\ HeldKnown'
<1>1. ASSUME PutStop PROVE TypeOK' /\ HeldKnown'
  <2>1. queue \in Seq(Logged) /\ STOP \in Logged
    BY DEF TypeOK, Logged
  <2>2. queue' \in Seq(Logged) /\ Len(queue') = Len(queue) + 1
    BY <1>1, <2>1, Appended DEF PutStop
  <2>3. Len(queue') <= MaxQueue
    <3>1. Len(queue) \in Nat /\ MaxQueue \in Nat /\ Len(queue) < MaxQueue
      BY <1>1, <2>1, LenProperties, LoggerAssumption DEF PutStop
    <3> QED
      BY <2>2, <3>1, SMT
  <2> QED
    BY <1>1, <2>2, <2>3
    DEF PutStop, TypeOK, HeldKnown, Logged, Optional, producerVars, diskVars,
        lossVars
<1>2. ASSUME CloseBegins \/ JoinReturns \/ JoinTimesOut
      PROVE  TypeOK' /\ HeldKnown'
  BY <1>2
  DEF CloseBegins, JoinReturns, JoinTimesOut, TypeOK, HeldKnown, producerVars,
      diskVars, lossVars
<1>3. ASSUME NEW k \in Kind, CloseWriter(k) PROVE TypeOK' /\ HeldKnown'
  <2>1. /\ handles' \in [Kind -> {"none", "open", "closed"}]
        /\ rows' \in [Kind -> Seq(Record)] /\ flushed' \in [Kind -> Nat]
    BY <1>3, HandleClosed DEF CloseWriter, TypeOK
  <2> QED
    BY <1>3, <2>1 DEF CloseWriter, TypeOK, HeldKnown, producerVars, lossVars
<1>4. ASSUME NEW k \in Kind, CloseWriterFails(k) PROVE TypeOK' /\ HeldKnown'
  <2>1. /\ handles' \in [Kind -> {"none", "open", "closed"}]
        /\ rows' \in [Kind -> Seq(Record)] /\ flushed' \in [Kind -> Nat]
        /\ lost' \subseteq Record
    <3>1. CASE UNCHANGED <<diskVars, lost>>
      BY <3>1 DEF TypeOK, diskVars
    <3>2. ASSUME handles' = [handles EXCEPT ![k] = "closed"],
                 NEW m, CloseHandle(k, m), lost' = lost \cup Cut(k, m)
          PROVE  /\ handles' \in [Kind -> {"none", "open", "closed"}]
                 /\ rows' \in [Kind -> Seq(Record)]
                 /\ flushed' \in [Kind -> Nat] /\ lost' \subseteq Record
      BY <3>2, HandleClosed DEF TypeOK
    <3> QED
      BY <1>4, <3>1, <3>2 DEF CloseWriterFails
  <2> QED
    BY <1>4, <2>1 DEF CloseWriterFails, TypeOK, HeldKnown, producerVars
<1>5. ASSUME Tick PROVE TypeOK' /\ HeldKnown'
  <2>1. now' \in Nat
    BY <1>5, SMT DEF Tick, TypeOK
  <2> QED
    BY <1>5, <2>1
    DEF Tick, TypeOK, HeldKnown, producerVars, diskVars, lossVars, closeVars
<1> QED
  BY <1>1, <1>2, <1>3, <1>4, <1>5 DEF Close

LEMMA NextType ==
  ASSUME TypeOK, HeldKnown, [Next]_vars
  PROVE  TypeOK' /\ HeldKnown'
<1>1. CASE UNCHANGED vars
  BY <1>1
  DEF vars, producerVars, diskVars, lossVars, closeVars, TypeOK, HeldKnown
<1> QED
  BY <1>1, ProduceType, BackgroundType, CloseType DEF Next

-----------------------------------------------------------------------------
(* The rows given to the files.                                            *)

\* Nothing is given to a file, and what a file has may be cut.
Trims ==
  \A k \in Kind : \A i \in DOMAIN rows'[k] :
    i \in DOMAIN rows[k] /\ rows'[k][i] = rows[k][i]

\* The rows that are cut are lost, and those in S.
Loses(S) ==
  Trims /\ Given' \subseteq Given /\ lost' = lost \cup S \cup (Given \ Given')

\* A file has a sequence of records.
LEMMA RowsType ==
  ASSUME TypeOK, NEW k \in Kind
  PROVE  /\ rows[k] \in Seq(Record) /\ Len(rows[k]) \in Nat
         /\ DOMAIN rows[k] = 1..Len(rows[k])
         /\ \A i \in DOMAIN rows[k] : rows[k][i] \in Record
  BY LenProperties, ElementOfSeq DEF TypeOK

\* No record is older than itself.
LEMMA NotOlder == \A a \in Record : ~Older(a, a)
<1> SUFFICES ASSUME NEW a \in Record PROVE ~Older(a, a)
  OBVIOUS
<1>1. a # STOP /\ a.n \in Nat
  BY RecordFields
<1>2. ~(a.n < a.n)
  BY <1>1, SMT
<1> QED
  BY <1>1, <1>2 DEF Older, SameSource

\* What the closing of a handle cuts is in no file any more.
LEMMA CutIsGone ==
  ASSUME TypeOK, OrderKnown, NEW k \in Kind, NEW m, CloseHandle(k, m)
  PROVE  Trims /\ Given' \subseteq Given /\ Given \ Given' = Cut(k, m)
<1>1. /\ m \in Nat /\ m <= Len(rows[k])
      /\ DOMAIN rows'[k] = 1..m /\ DOMAIN rows[k] = 1..Len(rows[k])
      /\ \A i \in 1..m : rows'[k][i] = rows[k][i]
      /\ \A l \in Kind : l # k => rows'[l] = rows[l]
  BY HandleClosed, Zenon
<1>2. Len(rows[k]) \in Nat
  BY RowsType
<1>3. Trims
  <2> SUFFICES ASSUME NEW l \in Kind, NEW i \in DOMAIN rows'[l]
               PROVE  i \in DOMAIN rows[l] /\ rows'[l][i] = rows[l][i]
    BY DEF Trims
  <2>1. CASE l = k
    <3>1. i \in 1..m
      BY <1>1, <2>1
    <3>2. i \in 1..Len(rows[k])
      BY <1>1, <1>2, <3>1, SMT
    <3> QED
      BY <1>1, <2>1, <3>1, <3>2
  <2>2. CASE l # k
    BY <1>1, <2>2
  <2> QED
    BY <2>1, <2>2
<1>4. Given' = UNION {Elements(rows'[l]) : l \in Kind}
  BY DEF Given, Elements
<1>5. Given' \subseteq Given
  BY <1>3, <1>4 DEF Trims, Given, Elements
<1>6. Given \subseteq Given' \cup Cut(k, m)
  <2> SUFFICES ASSUME NEW l \in Kind, NEW i \in DOMAIN rows[l],
                      rows[l][i] \notin Cut(k, m)
               PROVE  rows[l][i] \in Elements(rows'[l])
    BY <1>4 DEF Given, Elements
  <2>1. CASE l = k
    <3>1. i \in 1..m
      BY <1>1, <1>2, <2>1, SMT DEF Cut
    <3> QED
      BY <1>1, <2>1, <3>1 DEF Elements
  <2>2. CASE l # k
    BY <1>1, <2>2 DEF Elements
  <2> QED
    BY <2>1, <2>2
<1>7. ASSUME NEW i \in (m + 1)..Len(rows[k])
      PROVE  rows[k][i] \in Given /\ rows[k][i] \notin Given'
  <2>1. i \in DOMAIN rows[k] /\ rows[k][i] \in Record
    <3>1. i \in 1..Len(rows[k])
      BY <1>1, <1>2, SMT
    <3> QED
      BY <1>1, <3>1, RowsType
  <2>2. rows[k][i] \in Given
    BY <2>1 DEF Given, Elements
  <2>3. ASSUME NEW l \in Kind, NEW j \in DOMAIN rows'[l],
               rows'[l][j] = rows[k][i]
        PROVE  FALSE
    <3>1. j \in DOMAIN rows[l] /\ rows[l][j] = rows[k][i]
      BY <1>3, <2>3 DEF Trims
    <3>2. l = k
      BY <2>1, <3>1 DEF OrderKnown, RowsKnown
    <3>3. j < i
      BY <1>1, <1>2, <2>3, <3>2, SMT
    <3>4. Older(rows[k][j], rows[k][i])
      BY <2>1, <3>1, <3>2, <3>3 DEF OrderKnown, RowsKnown
    <3> QED
      BY <2>1, <3>1, <3>2, <3>4, NotOlder
  <2> QED
    BY <1>4, <2>2, <2>3 DEF Elements
<1> QED
  BY <1>3, <1>5, <1>6, <1>7 DEF Cut

\* Where the rows stay, nothing is cut.
LEMMA NothingCut ==
  ASSUME UNCHANGED rows
  PROVE  Trims /\ Given' = Given
  BY DEF Trims, Given, Elements

-----------------------------------------------------------------------------
(* The kinds of steps there are, as seen from the archive.                 *)

\* A record is offered: it is accepted, or lost to a full queue.
Offers(k, r) ==
  /\ offered' = [offered EXCEPT ![k][r] = @ + 1]
  /\ IF k = "snapshot"
     THEN ~Throttled(r) /\ lastSnap' = [lastSnap EXCEPT ![r] = now]
     ELSE UNCHANGED lastSnap
  /\ \/ /\ Len(queue) < MaxQueue
        /\ Backlog' = Append(Backlog, NextRecord(k, r)) /\ UNCHANGED lost
     \/ UNCHANGED Backlog /\ lost' = lost \cup {NextRecord(k, r)}
  /\ UNCHANGED <<rows, wpc, cpc, mark, joined>>

\* The sentinel is put in the queue.
Stops ==
  /\ cpc = "putting" /\ cpc' = "joining" /\ mark' = offered
  /\ Len(queue) < MaxQueue /\ Backlog' = Append(Backlog, STOP)
  /\ UNCHANGED <<rows, lost, offered, lastSnap, wpc, joined>>

\* The sentinel is taken from it.
Ends ==
  /\ Backlog # <<>> /\ Backlog[1] = STOP /\ Backlog' = Tail(Backlog)
  /\ wpc = "getting" /\ wpc' = "exited"
  /\ UNCHANGED <<rows, lost, offered, lastSnap, cpc, mark, joined>>

\* The oldest record is given to its file, or lost.
Leaves ==
  /\ Backlog # <<>> /\ Backlog[1] \in Record /\ Backlog' = Tail(Backlog)
  /\ \/ /\ rows' = [rows EXCEPT ![Backlog[1].kind] = Append(@, Backlog[1])]
        /\ UNCHANGED lost
     \/ Loses({Backlog[1]})
  /\ wpc # "exited" /\ wpc' # "exited"
  /\ UNCHANGED <<offered, lastSnap, cpc, mark, joined>>

\* Nothing happens to the records, but that some rows may be lost.
Rests ==
  /\ Loses({})
  /\ UNCHANGED <<Backlog, offered, lastSnap, mark>>
  /\ wpc' = "exited" <=> wpc = "exited"
  /\ cpc' \in {"open", "putting"} <=> cpc \in {"open", "putting"}
  /\ joined' => joined \/ wpc = "exited"

\* Every step is one of these.
LEMMA StepKinds ==
  ASSUME TypeOK, HeldKnown, OrderKnown, [Next]_vars
  PROVE  \/ \E k \in Kind, r \in Receivers : Offers(k, r)
         \/ Stops \/ Ends \/ Leaves \/ Rests
<1> USE DEF diskVars, lossVars
<1>1. ASSUME NEW p \in Thread, NEW k \in Kind, NEW r \in Receivers,
             Enqueue(p, NextRecord(k, r)), UNCHANGED <<wpc, item>>
      PROVE  \/ /\ Len(queue) < MaxQueue
                /\ Backlog' = Append(Backlog, NextRecord(k, r))
                /\ UNCHANGED lost
             \/ UNCHANGED Backlog /\ lost' = lost \cup {NextRecord(k, r)}
  <2>1. NextRecord(k, r) \in Logged
    BY NextRecordFields DEF Logged
  <2>2. CASE UNCHANGED queue /\ lost' = lost \cup {NextRecord(k, r)}
    BY <1>1, <2>2 DEF Backlog
  <2>3. CASE /\ Len(queue) < MaxQueue /\ UNCHANGED lost
             /\ queue' = Append(queue, NextRecord(k, r))
    BY <1>1, <2>1, <2>3, BacklogPut
  <2> QED
    BY <1>1, <2>2, <2>3 DEF Enqueue
<1>2. ASSUME NEW r \in Receivers, OnSentence(r)
      PROVE  Offers("sentence", r)
  BY <1>1, <1>2 DEF OnSentence, Offers, Kind, Thread, closeVars
<1>3. ASSUME NEW r \in Receivers, RecordSnapshot(r)
      PROVE  Offers("snapshot", r)
  BY <1>1, <1>3 DEF RecordSnapshot, Offers, Kind, Thread, closeVars
<1>4. ASSUME PutStop PROVE Stops
  <2>1. STOP \in Logged
    BY DEF Logged
  <2> QED
    BY <1>4, <2>1, BacklogPut DEF PutStop, Stops, producerVars
<1>5. ASSUME Get PROVE Ends \/ Rests
  <2>1. /\ wpc = "getting"
        /\ UNCHANGED <<rows, lost, offered, lastSnap, closeVars>>
    BY <1>5 DEF Get, producerVars
  <2>2. Loses({})
    BY <2>1, NothingCut DEF Loses
  <2> QED
    BY <1>5, <2>1, <2>2, BacklogGet DEF Ends, Rests, closeVars
<1>6. ASSUME WriteRow PROVE Leaves
  BY <1>6, BacklogLeft DEF WriteRow, Leaves, producerVars, closeVars
<1>7. ASSUME WriteFails PROVE Leaves
  <2>1. item \in Record /\ item.kind \in Kind
    BY <1>7, BacklogLeft, RecordFields
  <2>2. Loses({item})
    <3>1. CASE UNCHANGED rows /\ lost' = lost \cup {item}
      BY <3>1, NothingCut DEF Loses
    <3>2. ASSUME NEW m, CloseHandle(item.kind, m),
                 lost' = lost \cup {item} \cup Cut(item.kind, m)
          PROVE  Loses({item})
      BY <2>1, <3>2, CutIsGone DEF Loses
    <3> QED
      BY <1>7, <3>1, <3>2 DEF WriteFails
  <2> QED
    BY <1>7, <2>2, BacklogLeft DEF WriteFails, Leaves, producerVars, closeVars
<1>8. ASSUME OpenHandle \/ FlushRow \/ FlushFails PROVE Rests
  <2>1. Loses({})
    <3>1. CASE UNCHANGED <<rows, lost>>
      BY <3>1, NothingCut DEF Loses
    <3>2. ASSUME OpenHandle,
                 CloseHandle(item.kind, Len(rows[item.kind])), UNCHANGED lost
          PROVE  Loses({})
      <4>1. item.kind \in Kind
        BY <3>2, RecordFields DEF OpenHandle, HeldKnown
      <4>2. Cut(item.kind, Len(rows[item.kind])) = {}
        BY <4>1, RowsType, SMT DEF Cut
      <4> QED
        BY <3>2, <4>1, <4>2, CutIsGone DEF Loses
    <3> QED
      BY <1>8, <3>1, <3>2 DEF OpenHandle, FlushRow, FlushFails
  <2>2. /\ UNCHANGED <<queue, item, offered, lastSnap, cpc, mark, joined>>
        /\ \/ wpc = "opening" /\ wpc' = "writing"
           \/ wpc = "flushing" /\ wpc' = "checking"
    BY <1>8 DEF OpenHandle, FlushRow, FlushFails, producerVars, closeVars
  <2>3. UNCHANGED Backlog
    BY <2>2 DEF Backlog
  <2> QED
    BY <2>1, <2>2, <2>3 DEF Rests
<1>9. ASSUME NEW k \in Kind, CloseWriter(k) \/ CloseWriterFails(k)
      PROVE  Rests
  <2>1. Loses({})
    <3>1. CASE UNCHANGED <<rows, lost>>
      BY <3>1, NothingCut DEF Loses
    <3>2. ASSUME CloseHandle(k, Len(rows[k])), UNCHANGED lost
          PROVE  Loses({})
      <4>1. Cut(k, Len(rows[k])) = {}
        BY RowsType, SMT DEF Cut
      <4> QED
        BY <3>2, <4>1, CutIsGone DEF Loses
    <3>3. ASSUME NEW m, CloseHandle(k, m), lost' = lost \cup Cut(k, m)
          PROVE  Loses({})
      BY <3>3, CutIsGone DEF Loses
    <3> QED
      BY <1>9, <3>1, <3>2, <3>3 DEF CloseWriter, CloseWriterFails
  <2>2. /\ UNCHANGED <<queue, item, wpc, offered, lastSnap, mark, joined>>
        /\ cpc \in {"closingSentences", "closingSnapshots"}
        /\ cpc' \in {"closingSnapshots", "closed", "raised"}
    BY <1>9 DEF CloseWriter, CloseWriterFails, ClosesNow, producerVars
  <2>3. UNCHANGED Backlog
    BY <2>2 DEF Backlog
  <2> QED
    BY <2>1, <2>2, <2>3 DEF Rests
<1>10. ASSUME \/ \E p \in Thread : TestWarned(p) \/ Warn(p)
              \/ CheckEmpty \/ ResetWarned \/ Tick
              \/ CloseBegins \/ JoinReturns \/ JoinTimesOut
              \/ UNCHANGED vars
       PROVE  Rests
  <2>1. /\ UNCHANGED <<queue, item, rows, lost, offered, lastSnap, mark>>
        /\ \/ UNCHANGED wpc
           \/ /\ wpc \in {"checking", "resetting"}
              /\ wpc' \in {"getting", "resetting"}
        /\ cpc' \in {"open", "putting"} <=> cpc \in {"open", "putting"}
        /\ joined' => joined \/ wpc = "exited"
    BY <1>10
    DEF TestWarned, Warn, CheckEmpty, ResetWarned, Tick, CloseBegins,
        JoinReturns, JoinTimesOut, vars, producerVars, closeVars
  <2>2. UNCHANGED Backlog
    BY <2>1 DEF Backlog
  <2>3. Loses({})
    BY <2>1, NothingCut DEF Loses
  <2> QED
    BY <2>1, <2>2, <2>3 DEF Rests
<1>11. "sentence" \in Kind /\ "snapshot" \in Kind
  BY DEF Kind
<1> QED
  BY <1>2, <1>3, <1>4, <1>5, <1>6, <1>7, <1>8, <1>9, <1>10, <1>11
  DEF Next, Produce, Background, Disk, Close

-----------------------------------------------------------------------------
(* The order of the records.                                               *)

\* An offered record is known, and all that were known are older than it.
LEMMA OffersKnown ==
  ASSUME TypeOK, NEW k \in Kind, NEW r \in Receivers, Offers(k, r),
         NEW e, e = NextRecord(k, r)
  PROVE  Known(e)' /\ \A a \in Logged : Known(a) => Known(a)' /\ Older(a, e)
<1>1. /\ e \in Record /\ e.kind = k /\ e.rx = r
      /\ e.n = offered[k][r] + 1 /\ e.t = now
  BY NextRecordFields
<1>2. /\ offered \in [Kind -> [Receivers -> Nat]] /\ now \in Nat
      /\ lastSnap \in [Receivers -> Nat \cup {None}]
  BY DEF TypeOK, Optional
<1>3. /\ offered'[k][r] = offered[k][r] + 1
      /\ \A kind \in Kind, x \in Receivers :
           offered[kind][x] <= offered'[kind][x]
  BY <1>2, SMT DEF Offers
<1>4. ASSUME k = "snapshot"
      PROVE  /\ lastSnap'[r] = now
             /\ lastSnap[r] # None => now - lastSnap[r] >= Interval
             /\ \A x \in Receivers : x # r => lastSnap'[x] = lastSnap[x]
  BY <1>2, <1>4, LoggerAssumption, SMT DEF Offers, Throttled
<1>5. k # "snapshot" => lastSnap' = lastSnap
  BY DEF Offers
<1>6. \A x \in Receivers : lastSnap[x] # None =>
        /\ lastSnap[x] \in Nat /\ lastSnap'[x] \in Nat
        /\ lastSnap[x] <= lastSnap'[x]
  <2> TAKE x \in Receivers
  <2>1. CASE k = "snapshot" /\ x = r
    BY <1>2, <1>4, <2>1, LoggerAssumption, SMT
  <2>2. CASE k # "snapshot" \/ x # r
    BY <1>2, <1>4, <1>5, <2>2, SMT
  <2> QED
    BY <2>1, <2>2
<1>7. Known(e)'
  <2>1. k = "snapshot" => lastSnap'[r] # None
    BY <1>2, <1>4, LoggerAssumption
  <2> QED
    BY <1>1, <1>2, <1>3, <1>4, <2>1, SMT DEF Known
<1>8. ASSUME NEW a \in Record, Known(a) PROVE Known(a)' /\ Older(a, e)
  <2>1. /\ a.kind \in Kind /\ a.rx \in Receivers /\ a.n \in Nat /\ a.t \in Nat
        /\ a # STOP /\ a.n <= offered[a.kind][a.rx]
        /\ a.kind = "snapshot" =>
             lastSnap[a.rx] # None /\ a.t <= lastSnap[a.rx]
    BY <1>8, RecordFields DEF Known
  <2>2. Known(a)'
    <3>1. a.n <= offered'[a.kind][a.rx]
      <4>1. /\ offered[a.kind][a.rx] \in Nat
            /\ offered[a.kind][a.rx] <= offered'[a.kind][a.rx]
        BY <1>2, <1>3, <2>1
      <4>2. offered'[a.kind][a.rx] \in Nat
        BY <1>2, <2>1, SMT DEF Offers
      <4> QED
        BY <2>1, <4>1, <4>2, SMT
    <3>2. ASSUME a.kind = "snapshot"
          PROVE  lastSnap'[a.rx] # None /\ a.t <= lastSnap'[a.rx]
      <4>1. /\ lastSnap[a.rx] \in Nat /\ lastSnap'[a.rx] \in Nat
            /\ lastSnap[a.rx] <= lastSnap'[a.rx]
        BY <1>6, <2>1, <3>2, Zenon
      <4>2. lastSnap'[a.rx] # None
        BY <4>1, LoggerAssumption
      <4> QED
        BY <2>1, <3>2, <4>1, <4>2, SMT
    <3> QED
      BY <3>1, <3>2 DEF Known
  <2>3. ASSUME SameSource(a, e) PROVE a.n < e.n
    BY <1>1, <1>2, <2>1, <2>3, SMT DEF SameSource
  <2>4. ASSUME SameSource(a, e), a.kind = "snapshot"
        PROVE  e.t - a.t >= Interval
    <3>1. k = "snapshot" /\ a.rx = r /\ lastSnap[r] \in Nat
      BY <1>1, <1>2, <2>1, <2>4 DEF SameSource
    <3> QED
      BY <1>1, <1>2, <1>4, <2>1, <2>4, <3>1, LoggerAssumption, SMT
  <2> QED
    BY <2>2, <2>3, <2>4 DEF Older
<1> QED
  BY <1>7, <1>8 DEF Known, Older, Logged

\* The order extends to an entry that all older ones are known to precede.
LEMMA OrderAppended ==
  ASSUME TypeOK, HeldKnown, OrderKnown, NEW e \in Logged,
         UNCHANGED rows, Known(e)',
         Backlog' = Append(Backlog, e) \/ UNCHANGED Backlog,
         \A a \in Logged : Known(a) => Known(a)' /\ Older(a, e)
  PROVE  OrderKnown'
<1>1. /\ Backlog \in Seq(Logged) /\ DOMAIN Backlog = 1..Len(Backlog)
      /\ Len(Backlog) \in Nat
      /\ \A i \in DOMAIN Backlog : Backlog[i] \in Logged
  BY BacklogType, ElementOfSeq
<1>2. \A i \in DOMAIN Backlog' :
        \/ i \in DOMAIN Backlog /\ Backlog'[i] = Backlog[i]
        \/ i = Len(Backlog) + 1 /\ Backlog'[i] = e
  <2>1. CASE Backlog' = Append(Backlog, e)
    BY <1>1, <2>1, Appended, SMT
  <2> QED
    BY <2>1
<1>3. ASSUME NEW k \in Kind PROVE RowsKnown(k)'
  <2>1. \A i \in DOMAIN rows[k] : rows[k][i] \in Logged
    BY RowsType DEF Logged
  <2>2. rows'[k] = rows[k]
    OBVIOUS
  <2>3. RowsKnown(k)
    BY DEF OrderKnown
  <2>4. \A i \in DOMAIN rows[k] : Known(rows[k][i])' /\ rows[k][i].kind = k
    BY <2>1, <2>3 DEF RowsKnown
  <2>5. \A i \in DOMAIN rows[k], j \in DOMAIN Backlog' :
          Older(rows[k][i], Backlog'[j])
    BY <1>2, <2>1, <2>3 DEF RowsKnown
  <2> QED
    BY <2>2, <2>3, <2>4, <2>5 DEF RowsKnown, Known
<1>4. (\A i \in DOMAIN Backlog : Known(Backlog[i]))'
  BY <1>1, <1>2 DEF OrderKnown
<1>5. ASSUME NEW i \in DOMAIN Backlog', NEW j \in DOMAIN Backlog', i < j
      PROVE  Older(Backlog'[i], Backlog'[j])
  <2>1. i \in DOMAIN Backlog /\ Backlog'[i] = Backlog[i]
    <3>1. j <= Len(Backlog) + 1
      BY <1>1, <1>2, SMT
    <3> QED
      BY <1>1, <1>2, <1>5, <3>1, SMT
  <2> QED
    BY <1>1, <1>2, <1>5, <2>1 DEF OrderKnown
<1> QED
  BY <1>3, <1>4, <1>5 DEF OrderKnown

\* Where a step leaves or cuts the rows, or gives a file the oldest record,
\* every row is an old one, or that record at the end.
LEMMA RowsAfter ==
  ASSUME TypeOK, HeldKnown,
         \/ Trims
         \/ /\ Backlog[1] \in Record
            /\ rows' = [rows EXCEPT ![Backlog[1].kind] = Append(@, Backlog[1])],
         NEW k \in Kind, NEW i \in DOMAIN rows'[k]
  PROVE  \/ i \in DOMAIN rows[k] /\ rows'[k][i] = rows[k][i]
         \/ /\ i = Len(rows[k]) + 1 /\ rows'[k][i] = Backlog[1]
            /\ Backlog[1].kind = k
<1>1. CASE Trims
  BY <1>1 DEF Trims
<1>2. ASSUME Backlog[1] \in Record,
             rows' = [rows EXCEPT ![Backlog[1].kind] = Append(@, Backlog[1])]
      PROVE  \/ i \in DOMAIN rows[k] /\ rows'[k][i] = rows[k][i]
             \/ /\ i = Len(rows[k]) + 1 /\ rows'[k][i] = Backlog[1]
                /\ Backlog[1].kind = k
  <2>1. PICK e \in Record : e = Backlog[1]
    BY <1>2
  <2>2. rows[k] \in Seq(Record) /\ rows \in [Kind -> Seq(Record)]
    BY DEF TypeOK
  <2>3. CASE e.kind = k
    <3>1. rows'[k] = Append(rows[k], e)
      BY <1>2, <2>1, <2>2, <2>3
    <3>2. /\ DOMAIN rows'[k] = 1..(Len(rows[k]) + 1)
          /\ \A j \in 1..Len(rows[k]) : rows'[k][j] = rows[k][j]
          /\ rows'[k][Len(rows[k]) + 1] = e
      BY <2>2, <3>1, Appended
    <3>3. DOMAIN rows[k] = 1..Len(rows[k]) /\ Len(rows[k]) \in Nat
      BY RowsType
    <3>4. i \in 1..Len(rows[k]) \/ i = Len(rows[k]) + 1
      BY <3>2, <3>3, SMT
    <3> QED
      BY <2>1, <2>3, <3>2, <3>3, <3>4
  <2>4. CASE e.kind # k
    BY <1>2, <2>1, <2>2, <2>4
  <2> QED
    BY <2>3, <2>4
<1> QED
  BY <1>1, <1>2

\* The order stays when the oldest entry leaves, for its file or for good.
LEMMA OrderLeaves ==
  ASSUME TypeOK, HeldKnown, OrderKnown,
         Backlog # <<>>, Backlog' = Tail(Backlog),
         \/ Trims
         \/ /\ Backlog[1] \in Record
            /\ rows' = [rows EXCEPT ![Backlog[1].kind] = Append(@, Backlog[1])],
         UNCHANGED <<offered, lastSnap>>
  PROVE  OrderKnown'
<1>1. /\ Backlog \in Seq(Logged) /\ DOMAIN Backlog = 1..Len(Backlog)
      /\ Len(Backlog) \in Nat /\ Len(Backlog) > 0
  BY BacklogType, WithoutFirst
<1>2. /\ DOMAIN Backlog' = 1..(Len(Backlog) - 1)
      /\ \A i \in 1..(Len(Backlog) - 1) : Backlog'[i] = Backlog[i + 1]
  BY <1>1, WithoutFirst
<1>3. 1 \in DOMAIN Backlog
  BY <1>1, SMT
<1>4. \A i \in DOMAIN Backlog' :
        /\ i \in Int /\ i + 1 \in DOMAIN Backlog /\ 1 < i + 1
        /\ Backlog'[i] = Backlog[i + 1]
  BY <1>1, <1>2, SMT
<1>5. \A a : Known(a)' <=> Known(a)
  BY DEF Known
<1>6. ASSUME NEW k \in Kind PROVE RowsKnown(k)'
  <2>1. /\ RowsKnown(k)
        /\ Len(rows[k]) \in Nat /\ DOMAIN rows[k] = 1..Len(rows[k])
    BY RowsType DEF OrderKnown
  <2>2. \A i \in DOMAIN rows'[k] :
          \/ i \in DOMAIN rows[k] /\ rows'[k][i] = rows[k][i]
          \/ /\ i = Len(rows[k]) + 1 /\ rows'[k][i] = Backlog[1]
             /\ Backlog[1].kind = k
    BY RowsAfter
  <2>3. (\A i \in DOMAIN rows[k] : Known(rows[k][i]) /\ rows[k][i].kind = k)'
    BY <1>3, <1>5, <2>1, <2>2 DEF OrderKnown, RowsKnown
  <2>4. ASSUME NEW i \in DOMAIN rows'[k], NEW j \in DOMAIN rows'[k], i < j
        PROVE  Older(rows'[k][i], rows'[k][j])
    <3>1. i \in DOMAIN rows[k] /\ rows'[k][i] = rows[k][i]
      <4>1. j <= Len(rows[k]) + 1
        BY <2>1, <2>2, SMT
      <4> QED
        BY <2>1, <2>2, <2>4, <4>1, SMT
    <3> QED
      BY <1>3, <2>1, <2>2, <2>4, <3>1 DEF RowsKnown
  <2>5. \A i \in DOMAIN rows'[k], j \in DOMAIN Backlog' :
          Older(rows'[k][i], Backlog'[j])
    BY <1>3, <1>4, <2>1, <2>2 DEF OrderKnown, RowsKnown
  <2> QED
    BY <2>3, <2>4, <2>5 DEF RowsKnown
<1>7. (\A i \in DOMAIN Backlog : Known(Backlog[i]))'
  BY <1>4, <1>5 DEF OrderKnown
<1>8. ASSUME NEW i \in DOMAIN Backlog', NEW j \in DOMAIN Backlog', i < j
      PROVE  Older(Backlog'[i], Backlog'[j])
  <2>1. i + 1 < j + 1
    BY <1>4, <1>8, SMT
  <2> QED
    BY <1>4, <2>1 DEF OrderKnown
<1> QED
  BY <1>6, <1>7, <1>8 DEF OrderKnown

\* The order stays when rows are cut.
LEMMA OrderRests ==
  ASSUME TypeOK, OrderKnown, Rests
  PROVE  OrderKnown'
<1>1. /\ Trims /\ \A a : Known(a)' <=> Known(a)
      /\ Backlog' = Backlog
  BY DEF Rests, Loses, Known
<1>2. ASSUME NEW k \in Kind PROVE RowsKnown(k)'
  <2>1. /\ RowsKnown(k)
        /\ \A i \in DOMAIN rows'[k] :
             i \in DOMAIN rows[k] /\ rows'[k][i] = rows[k][i]
    BY <1>1 DEF OrderKnown, Trims
  <2> QED
    BY <1>1, <2>1 DEF RowsKnown
<1> QED
  BY <1>1, <1>2 DEF OrderKnown

LEMMA NextOrder ==
  ASSUME TypeOK, HeldKnown, OrderKnown, [Next]_vars
  PROVE  OrderKnown'
<1>1. ASSUME NEW k \in Kind, NEW r \in Receivers, Offers(k, r)
      PROVE  OrderKnown'
  <2>1. PICK e : e = NextRecord(k, r)
    OBVIOUS
  <2>2. e \in Logged
    BY <2>1, NextRecordFields DEF Logged
  <2> QED
    BY <1>1, <2>1, <2>2, OffersKnown, OrderAppended DEF Offers
<1>2. ASSUME Stops PROVE OrderKnown'
  <2>1. \A a \in Logged : Known(a) => Known(a)' /\ Older(a, STOP)
    BY <1>2 DEF Known, Older, Stops
  <2>2. Known(STOP)' /\ STOP \in Logged
    BY DEF Known, Logged
  <2> QED
    BY <1>2, <2>1, <2>2, OrderAppended DEF Stops
<1>3. ASSUME Ends \/ Leaves PROVE OrderKnown'
  <2>1. UNCHANGED rows => Trims
    BY DEF Trims
  <2> QED
    BY <1>3, <2>1, OrderLeaves DEF Ends, Leaves, Loses
<1>4. ASSUME Rests PROVE OrderKnown'
  BY <1>4, OrderRests
<1> QED
  BY <1>1, <1>2, <1>3, <1>4, StepKinds

-----------------------------------------------------------------------------
(* The sentinel.                                                           *)

LEMMA InitInductive == Init => Inductive
<1> SUFFICES ASSUME Init PROVE Inductive
  OBVIOUS
<1>1. TypeOK /\ HeldKnown
  BY InitType
<1>2. DOMAIN <<>> = {} /\ Elements(<<>>) = {} /\ Len(<<>>) = 0
  BY SMT DEF Elements
<1>3. /\ Backlog = <<>> /\ lost = {} /\ failed = {}
      /\ \A k \in Kind : rows[k] = <<>> /\ flushed[k] = 0
  BY DEF Init, Backlog
<1>4. Given = {} /\ \A k \in Kind : Buffered(k) = {}
  BY <1>2, <1>3, SMT DEF Given, Buffered, Cut
<1>5. OrderKnown /\ LostKnown
  BY <1>2, <1>3, <1>4 DEF OrderKnown, RowsKnown, LostKnown
<1>6. StopKnown
  BY <1>2, <1>3 DEF StopKnown, Init
<1>7. HandlesKnown /\ FailedKnown
  <2>1. \A k \in Kind : flushed[k] <= Len(rows[k]) /\ flushed[k] = Len(rows[k])
    BY <1>2, <1>3, SMT
  <2> QED
    BY <1>3, <1>4, <2>1 DEF HandlesKnown, FailedKnown, Init
<1>8. Conserved
  <2>1. \A k \in Kind, r \in Receivers : offered[k][r] = 0
    BY DEF Init
  <2> QED
    BY <2>1, SMT DEF Conserved
<1> QED
  BY <1>1, <1>5, <1>6, <1>7, <1>8 DEF Inductive

\* An accepted record comes after the sentinel, if there is one.
LEMMA StopOffered ==
  ASSUME TypeOK, HeldKnown, StopKnown,
         NEW k \in Kind, NEW r \in Receivers, Offers(k, r)
  PROVE  StopKnown'
<1>1. PICK e : e = NextRecord(k, r)
  OBVIOUS
<1>2. /\ e \in Record /\ e \in Logged /\ e # STOP
      /\ e.kind = k /\ e.rx = r /\ e.n = offered[k][r] + 1
  BY <1>1, NextRecordFields, RecordFields DEF Logged
<1>3. /\ Backlog \in Seq(Logged) /\ DOMAIN Backlog = 1..Len(Backlog)
      /\ Len(Backlog) \in Nat
  BY BacklogType
<1>4. \A i \in DOMAIN Backlog' :
        \/ i \in DOMAIN Backlog /\ Backlog'[i] = Backlog[i]
        \/ i = Len(Backlog) + 1 /\ Backlog'[i] = e
  <2>1. CASE Backlog' = Append(Backlog, e)
    BY <1>2, <1>3, <2>1, Appended, SMT
  <2> QED
    BY <1>1, <2>1 DEF Offers
<1>5. \A i \in DOMAIN Backlog : i \in DOMAIN Backlog' /\ Backlog'[i] = Backlog[i]
  <2>1. CASE Backlog' = Append(Backlog, e)
    BY <1>2, <1>3, <2>1, Appended, SMT
  <2> QED
    BY <1>1, <2>1 DEF Offers
<1>6. /\ offered \in [Kind -> [Receivers -> Nat]]
      /\ mark # None => mark \in [Kind -> [Receivers -> Nat]]
      /\ UNCHANGED <<wpc, cpc, mark, joined>>
  BY DEF TypeOK, Optional, Offers
<1>7. mark # None =>
        \A kind \in Kind, x \in Receivers : mark[kind][x] <= offered'[kind][x]
  BY <1>6, SMT DEF Offers, StopKnown
<1>8. ASSUME mark # None PROVE Late(e)'
  <2>1. mark[k][r] <= offered[k][r] /\ mark[k][r] \in Nat
        /\ offered[k][r] \in Nat
    BY <1>6, <1>8 DEF StopKnown
  <2>2. e.n > mark[k][r]
    BY <1>2, <2>1, SMT
  <2> QED
    BY <1>2, <1>6, <2>2 DEF Late
<1>9. \A a : Late(a)' <=> Late(a)
  BY <1>6 DEF Late
<1>10. mark = None => wpc # "exited" /\ \A i \in DOMAIN Backlog' : Backlog'[i] # STOP
  BY <1>2, <1>4 DEF StopKnown
<1>11. ASSUME mark # None, wpc # "exited"
       PROVE  \E s \in DOMAIN Backlog' :
                /\ \A i \in DOMAIN Backlog' : Backlog'[i] = STOP <=> i = s
                /\ (\A i \in DOMAIN Backlog : i > s => Late(Backlog[i]))'
  <2>1. PICK s \in DOMAIN Backlog :
          /\ \A i \in DOMAIN Backlog : Backlog[i] = STOP <=> i = s
          /\ \A i \in DOMAIN Backlog : i > s => Late(Backlog[i])
    BY <1>11 DEF StopKnown
  <2>2. s \in DOMAIN Backlog' /\ s # Len(Backlog) + 1
    BY <1>3, <1>5, <2>1, SMT
  <2>3. \A i \in DOMAIN Backlog' : Backlog'[i] = STOP <=> i = s
    BY <1>2, <1>4, <2>1, <2>2
  <2>4. (\A i \in DOMAIN Backlog : i > s => Late(Backlog[i]))'
    BY <1>4, <1>8, <1>9, <1>11, <2>1
  <2> QED
    BY <2>2, <2>3, <2>4
<1>12. wpc = "exited" => (\A i \in DOMAIN Backlog : Late(Backlog[i]))'
  BY <1>4, <1>8, <1>9, <1>10 DEF StopKnown
<1> QED
  BY <1>6, <1>7, <1>10, <1>11, <1>12 DEF StopKnown

\* The sentinel is queued last, and is the only one.
LEMMA StopQueued ==
  ASSUME TypeOK, HeldKnown, StopKnown, Stops
  PROVE  StopKnown'
<1>1. /\ Backlog \in Seq(Logged) /\ DOMAIN Backlog = 1..Len(Backlog)
      /\ Len(Backlog) \in Nat
  BY BacklogType
<1>2. /\ DOMAIN Backlog' = 1..(Len(Backlog) + 1)
      /\ \A i \in 1..Len(Backlog) : Backlog'[i] = Backlog[i]
      /\ Backlog'[Len(Backlog) + 1] = STOP
  BY <1>1, Appended DEF Stops, Logged
<1>3. /\ mark = None /\ wpc # "exited" /\ ~joined
      /\ \A i \in DOMAIN Backlog : Backlog[i] # STOP
  BY DEF StopKnown, Stops
<1>4. /\ mark' = offered /\ offered' = offered
      /\ offered \in [Kind -> [Receivers -> Nat]] /\ mark' # None
  BY LoggerAssumption DEF Stops, TypeOK
<1>5. \A kind \in Kind, r \in Receivers : mark'[kind][r] <= offered'[kind][r]
  BY <1>4, SMT
<1>6. /\ Len(Backlog) + 1 \in DOMAIN Backlog'
      /\ \A i \in DOMAIN Backlog' : Backlog'[i] = STOP <=> i = Len(Backlog) + 1
      /\ \A i \in DOMAIN Backlog' : ~(i > Len(Backlog) + 1)
  BY <1>1, <1>2, <1>3, SMT
<1> QED
  BY <1>3, <1>4, <1>5, <1>6 DEF StopKnown, Stops

\* When the oldest entry leaves, the others are one place earlier.
LEMMA Earlier ==
  ASSUME TypeOK, HeldKnown, Backlog # <<>>, Backlog' = Tail(Backlog)
  PROVE  /\ 1 \in DOMAIN Backlog
         /\ \A i \in DOMAIN Backlog' :
              /\ i \in Int /\ i >= 1 /\ i + 1 \in DOMAIN Backlog
              /\ Backlog'[i] = Backlog[i + 1]
         /\ \A i \in DOMAIN Backlog :
              i \in Int /\ (i # 1 => i - 1 \in DOMAIN Backlog')
<1>1. /\ Backlog \in Seq(Logged) /\ DOMAIN Backlog = 1..Len(Backlog)
      /\ Len(Backlog) \in Nat /\ Len(Backlog) > 0
  BY BacklogType, WithoutFirst
<1>2. /\ DOMAIN Backlog' = 1..(Len(Backlog) - 1)
      /\ \A i \in 1..(Len(Backlog) - 1) : Backlog'[i] = Backlog[i + 1]
  BY <1>1, WithoutFirst
<1> QED
  BY <1>1, <1>2, SMT

\* Taken, the sentinel leaves only what is late.
LEMMA StopTaken ==
  ASSUME TypeOK, HeldKnown, StopKnown, Ends
  PROVE  StopKnown'
<1>1. /\ 1 \in DOMAIN Backlog
      /\ \A i \in DOMAIN Backlog' :
           /\ i \in Int /\ i >= 1 /\ i + 1 \in DOMAIN Backlog
           /\ Backlog'[i] = Backlog[i + 1]
  BY Earlier DEF Ends
<1>2. mark # None /\ wpc # "exited" /\ Backlog[1] = STOP
  BY <1>1 DEF StopKnown, Ends
<1>3. PICK s \in DOMAIN Backlog :
        /\ \A i \in DOMAIN Backlog : Backlog[i] = STOP <=> i = s
        /\ \A i \in DOMAIN Backlog : i > s => Late(Backlog[i])
  BY <1>2 DEF StopKnown
<1>4. s = 1
  BY <1>1, <1>2, <1>3
<1>5. \A i \in DOMAIN Backlog' : i + 1 > s
  BY <1>1, <1>4, SMT
<1>6. \A a : Late(a)' <=> Late(a)
  BY DEF Late, Ends
<1>7. (\A i \in DOMAIN Backlog : Late(Backlog[i]))'
  BY <1>1, <1>3, <1>5, <1>6
<1> QED
  BY <1>2, <1>7 DEF StopKnown, Ends

\* A record that leaves was before the sentinel.
LEMMA StopApproached ==
  ASSUME TypeOK, HeldKnown, StopKnown, Leaves
  PROVE  StopKnown'
<1>1. /\ 1 \in DOMAIN Backlog
      /\ \A i \in DOMAIN Backlog' :
           /\ i \in Int /\ i >= 1 /\ i + 1 \in DOMAIN Backlog
           /\ Backlog'[i] = Backlog[i + 1]
      /\ \A i \in DOMAIN Backlog :
           i \in Int /\ (i # 1 => i - 1 \in DOMAIN Backlog')
  BY Earlier DEF Leaves
<1>2. /\ UNCHANGED <<offered, cpc, mark, joined>>
      /\ wpc # "exited" /\ wpc' # "exited" /\ Backlog[1] # STOP
  BY RecordFields DEF Leaves
<1>3. \A a : Late(a)' <=> Late(a)
  BY <1>2 DEF Late
<1>4. mark = None => \A i \in DOMAIN Backlog' : Backlog'[i] # STOP
  BY <1>1 DEF StopKnown
<1>5. ASSUME mark # None
      PROVE  \E s \in DOMAIN Backlog' :
               /\ \A i \in DOMAIN Backlog' : Backlog'[i] = STOP <=> i = s
               /\ (\A i \in DOMAIN Backlog : i > s => Late(Backlog[i]))'
  <2>1. PICK s \in DOMAIN Backlog :
          /\ \A i \in DOMAIN Backlog : Backlog[i] = STOP <=> i = s
          /\ \A i \in DOMAIN Backlog : i > s => Late(Backlog[i])
    BY <1>2, <1>5 DEF StopKnown
  <2>2. s \in Int /\ s - 1 \in DOMAIN Backlog'
    BY <1>1, <1>2, <2>1
  <2>3. \A i \in DOMAIN Backlog' : /\ i + 1 = s <=> i = s - 1
                                  /\ i > s - 1 => i + 1 > s
    BY <1>1, <2>2, SMT
  <2>4. \A i \in DOMAIN Backlog' : Backlog'[i] = STOP <=> i = s - 1
    BY <1>1, <2>1, <2>3
  <2>5. (\A i \in DOMAIN Backlog : i > s - 1 => Late(Backlog[i]))'
    BY <1>1, <1>3, <2>1, <2>3
  <2> QED
    BY <2>2, <2>4, <2>5
<1> QED
  BY <1>2, <1>4, <1>5 DEF StopKnown

LEMMA NextStop ==
  ASSUME TypeOK, HeldKnown, OrderKnown, StopKnown, [Next]_vars
  PROVE  StopKnown'
<1>1. ASSUME Rests PROVE StopKnown'
  BY <1>1 DEF Rests, StopKnown, Late
<1> QED
  BY <1>1, StopOffered, StopQueued, StopTaken, StopApproached, StepKinds

-----------------------------------------------------------------------------
(* Conservation.                                                           *)

Everything == Given \cup Elements(Backlog) \cup lost

\* What is given to a file is in the files.
LEMMA GivenGrows ==
  ASSUME TypeOK, NEW e \in Record,
         rows' = [rows EXCEPT ![e.kind] = Append(@, e)]
  PROVE  Given' = Given \cup {e}
<1>1. e.kind \in Kind /\ rows \in [Kind -> Seq(Record)]
  BY RecordFields DEF TypeOK
<1>2. \A k \in Kind :
        /\ k = e.kind => Elements(rows'[k]) = Elements(rows[k]) \cup {e}
        /\ k # e.kind => Elements(rows'[k]) = Elements(rows[k])
  <2> TAKE k \in Kind
  <2>1. rows[k] \in Seq(Record) /\ e \in Record
    BY <1>1
  <2>2. CASE k = e.kind
    <3>1. rows'[k] = Append(rows[k], e)
      BY <1>1, <2>2
    <3>2. Elements(Append(rows[k], e)) = Elements(rows[k]) \cup {e}
      BY <2>1, Appended
    <3> QED
      BY <2>2, <3>1, <3>2
  <2>3. CASE k # e.kind
    BY <1>1, <2>3
  <2> QED
    BY <2>2, <2>3
<1>3. Given' = UNION {Elements(rows'[k]) : k \in Kind}
  BY DEF Given, Elements
<1>4. ASSUME NEW a, a \in Given' PROVE a \in Given \cup {e}
  <2>1. PICK k \in Kind : a \in Elements(rows'[k])
    BY <1>3, <1>4
  <2>2. a \in Elements(rows[k]) \/ a = e
    BY <1>2, <2>1
  <2> QED
    BY <2>2 DEF Given
<1>5. ASSUME NEW a, a \in Given \cup {e} PROVE a \in Given'
  <2>1. PICK k \in Kind : a \in Elements(rows'[k])
    BY <1>1, <1>2, <1>5 DEF Given
  <2> QED
    BY <1>3, <2>1
<1> QED
  BY <1>4, <1>5

\* What a step does to the places a record can be in.
LEMMA ElementsStep ==
  ASSUME TypeOK, HeldKnown
  PROVE  /\ \A k \in Kind, r \in Receivers :
              Offers(k, r) =>
                /\ Given' = Given
                /\ \/ /\ Elements(Backlog') =
                            Elements(Backlog) \cup {NextRecord(k, r)}
                      /\ lost' = lost
                   \/ /\ Elements(Backlog') = Elements(Backlog)
                      /\ lost' = lost \cup {NextRecord(k, r)}
         /\ Stops => /\ Elements(Backlog') = Elements(Backlog) \cup {STOP}
                     /\ Given' = Given /\ lost' = lost
         /\ Ends => /\ Elements(Backlog) = Elements(Backlog') \cup {STOP}
                    /\ Given' = Given /\ lost' = lost
         /\ Leaves =>
              /\ Elements(Backlog) = Elements(Backlog') \cup {Backlog[1]}
              /\ \/ /\ Given' = Given \cup {Backlog[1]}
                    /\ lost' = lost
                 \/ Loses({Backlog[1]})
<1>1. Backlog \in Seq(Logged)
  BY BacklogType
<1>2. ASSUME NEW k \in Kind, NEW r \in Receivers, Offers(k, r)
      PROVE  /\ Given' = Given
             /\ \/ /\ Elements(Backlog') =
                         Elements(Backlog) \cup {NextRecord(k, r)}
                   /\ lost' = lost
                \/ /\ Elements(Backlog') = Elements(Backlog)
                   /\ lost' = lost \cup {NextRecord(k, r)}
  <2>1. NextRecord(k, r) \in Logged
    BY NextRecordFields DEF Logged
  <2>2. Elements(Append(Backlog, NextRecord(k, r))) =
          Elements(Backlog) \cup {NextRecord(k, r)}
    BY <1>1, <2>1, Appended
  <2>3. Given' = Given
    BY <1>2, NothingCut DEF Offers
  <2> QED
    BY <1>2, <2>2, <2>3 DEF Offers
<1>3. Elements(Append(Backlog, STOP)) = Elements(Backlog) \cup {STOP}
  BY <1>1, Appended DEF Logged
<1>4. Backlog # <<>> =>
        Elements(Backlog) = Elements(Tail(Backlog)) \cup {Backlog[1]}
  BY <1>1, WithoutFirst
<1>5. Stops \/ Ends => Given' = Given
  BY NothingCut DEF Stops, Ends
<1>6. ASSUME Leaves
      PROVE  \/ Given' = Given \cup {Backlog[1]} /\ lost' = lost
             \/ Loses({Backlog[1]})
  <2>1. PICK e \in Record : e = Backlog[1]
    BY <1>6 DEF Leaves
  <2> QED
    BY <1>6, <2>1, GivenGrows DEF Leaves
<1>7. /\ Stops => /\ Elements(Backlog') = Elements(Backlog) \cup {STOP}
                  /\ lost' = lost
      /\ Ends => /\ Elements(Backlog) = Elements(Backlog') \cup {STOP}
                 /\ lost' = lost
      /\ Leaves => Elements(Backlog) = Elements(Backlog') \cup {Backlog[1]}
  BY <1>3, <1>4 DEF Stops, Ends, Leaves
<1> QED
  BY <1>2, <1>5, <1>6, <1>7

\* What has been given to a file is a record that was offered, and it is not
\* in the backlog.
LEMMA GivenOnce ==
  ASSUME TypeOK, OrderKnown, NEW a \in Given
  PROVE  /\ a \in Record /\ a \notin Elements(Backlog)
         /\ a.n <= offered[a.kind][a.rx]
<1>1. PICK k \in Kind : \E i \in DOMAIN rows[k] : a = rows[k][i]
  BY DEF Given, Elements
<1>2. PICK i \in DOMAIN rows[k] : a = rows[k][i]
  BY <1>1
<1>3. a \in Record /\ RowsKnown(k)
  BY <1>2, RowsType DEF OrderKnown
<1>4. a.n <= offered[a.kind][a.rx]
  BY <1>2, <1>3, RecordFields DEF RowsKnown, Known
<1>5. \A j \in DOMAIN Backlog : Backlog[j] # a
  BY <1>2, <1>3, NotOlder DEF RowsKnown
<1> QED
  BY <1>3, <1>4, <1>5 DEF Elements

\* The next record of a source is in none of the places yet.
LEMMA NextRecordIsNew ==
  ASSUME TypeOK, HeldKnown, OrderKnown, LostKnown,
         NEW k \in Kind, NEW r \in Receivers
  PROVE  NextRecord(k, r) \notin Everything
<1>1. PICK e : e = NextRecord(k, r)
  OBVIOUS
<1>2. /\ e.kind = k /\ e.rx = r /\ e # STOP /\ offered[k][r] \in Nat
      /\ e.n = offered[k][r] + 1
  BY <1>1, NextRecordFields, RecordFields DEF TypeOK
<1>3. ~(e.n <= offered[e.kind][e.rx])
  BY <1>2, SMT
<1>4. e \notin Given
  BY <1>3, GivenOnce
<1>5. e \notin Elements(Backlog) /\ e \notin lost
  BY <1>2, <1>3 DEF Elements, OrderKnown, LostKnown, Known
<1> QED
  BY <1>1, <1>4, <1>5 DEF Everything

\* The oldest record of the backlog is nowhere else.
LEMMA OldestOnce ==
  ASSUME TypeOK, HeldKnown, OrderKnown, LostKnown, Leaves
  PROVE  /\ Backlog[1] \notin Given
         /\ Backlog[1] \notin Elements(Backlog')
         /\ Backlog[1] \notin lost
<1>1. PICK e \in Record : e = Backlog[1]
  BY DEF Leaves
<1>2. /\ 1 \in DOMAIN Backlog
      /\ \A i \in DOMAIN Backlog' :
           /\ i \in Int /\ i >= 1 /\ i + 1 \in DOMAIN Backlog
           /\ Backlog'[i] = Backlog[i + 1]
  BY Earlier DEF Leaves
<1>3. e \in Elements(Backlog)
  BY <1>1, <1>2 DEF Elements
<1>4. \A i \in DOMAIN Backlog' : Backlog'[i] # e
  <2>1. \A i \in DOMAIN Backlog' : 1 < i + 1
    BY <1>2, SMT
  <2> QED
    BY <1>1, <1>2, <2>1, NotOlder DEF OrderKnown
<1> QED
  BY <1>1, <1>3, <1>4, GivenOnce DEF Elements, LostKnown

LEMMA NextLost ==
  ASSUME TypeOK, HeldKnown, OrderKnown, LostKnown, [Next]_vars
  PROVE  LostKnown'
<1>1. ASSUME NEW k \in Kind, NEW r \in Receivers, Offers(k, r)
      PROVE  LostKnown'
  <2>1. PICK e : e = NextRecord(k, r)
    OBVIOUS
  <2>2. /\ e \notin Everything /\ e.kind = k /\ e.rx = r
        /\ e.n = offered[k][r] + 1
    BY <2>1, NextRecordIsNew, NextRecordFields
  <2>3. /\ offered \in [Kind -> [Receivers -> Nat]]
        /\ offered' = [offered EXCEPT ![k][r] = @ + 1]
    BY <1>1 DEF TypeOK, Offers
  <2>4. e.n <= offered'[e.kind][e.rx]
    BY <2>2, <2>3, SMT
  <2>5. \A a \in lost : a.n <= offered'[a.kind][a.rx]
    <3> TAKE a \in lost
    <3>1. /\ a.kind \in Kind /\ a.rx \in Receivers /\ a.n \in Nat
          /\ a.n <= offered[a.kind][a.rx]
      BY RecordFields DEF TypeOK, LostKnown
    <3> QED
      BY <2>3, <3>1, SMT
  <2>6. /\ Given' = Given
        /\ \/ Elements(Backlog') = Elements(Backlog) \cup {e} /\ lost' = lost
           \/ Elements(Backlog') = Elements(Backlog) /\ lost' = lost \cup {e}
    BY <1>1, <2>1, ElementsStep
  <2>7. \A a \in lost' :
          a \notin Given' /\ a \notin Elements(Backlog')
    BY <2>2, <2>6 DEF LostKnown, Everything
  <2> QED
    BY <2>4, <2>5, <2>6, <2>7 DEF LostKnown
<1>2. ASSUME Stops \/ Ends PROVE LostKnown'
  <2>1. /\ offered' = offered /\ lost' = lost /\ Given' = Given
        /\ Elements(Backlog') \subseteq Elements(Backlog) \cup {STOP}
    BY <1>2, ElementsStep DEF Stops, Ends
  <2>2. STOP \notin lost
    BY LoggerAssumption DEF TypeOK
  <2> QED
    BY <2>1, <2>2 DEF LostKnown
<1>3. ASSUME Leaves PROVE LostKnown'
  <2>1. /\ Backlog[1] \notin Given
        /\ Backlog[1] \notin Elements(Backlog') /\ Backlog[1] \notin lost
    BY <1>3, OldestOnce
  <2>2. /\ Elements(Backlog) = Elements(Backlog') \cup {Backlog[1]}
        /\ \/ Given' = Given \cup {Backlog[1]} /\ lost' = lost
           \/ Loses({Backlog[1]})
    BY <1>3, ElementsStep
  <2>3. PICK e \in Record : e = Backlog[1]
    BY <1>3 DEF Leaves
  <2>4. e.n <= offered[e.kind][e.rx] /\ offered' = offered
    <3>1. 1 \in DOMAIN Backlog
      BY <1>3, Earlier DEF Leaves
    <3>2. Known(e)
      BY <2>3, <3>1 DEF OrderKnown
    <3> QED
      BY <1>3, <3>2, RecordFields DEF Known, Leaves
  <2>5. \A a \in Given : /\ a \notin Elements(Backlog)
                         /\ a.n <= offered[a.kind][a.rx]
    BY GivenOnce
  <2>6. CASE Given' = Given \cup {Backlog[1]} /\ lost' = lost
    BY <2>1, <2>2, <2>4, <2>6 DEF LostKnown
  <2>7. CASE Loses({Backlog[1]})
    BY <2>1, <2>2, <2>3, <2>4, <2>5, <2>7 DEF LostKnown, Loses
  <2> QED
    BY <2>2, <2>6, <2>7
<1>4. ASSUME Rests PROVE LostKnown'
  <2>1. \A a \in Given : /\ a \notin Elements(Backlog)
                         /\ a.n <= offered[a.kind][a.rx]
    BY GivenOnce
  <2>2. /\ Given' \subseteq Given /\ lost' = lost \cup (Given \ Given')
        /\ Elements(Backlog') = Elements(Backlog) /\ offered' = offered
    BY <1>4 DEF Rests, Loses, Elements
  <2> QED
    BY <2>1, <2>2 DEF LostKnown
<1> QED
  BY <1>1, <1>2, <1>3, <1>4, StepKinds

LEMMA NextConserved ==
  ASSUME TypeOK, HeldKnown, OrderKnown, Conserved, [Next]_vars
  PROVE  Conserved'
<1> DEFINE Somewhere(k, r, n) ==
      \E a \in Everything : a # STOP /\ a.kind = k /\ a.rx = r /\ a.n = n
<1>1. \A k \in Kind, r \in Receivers : \A n \in 1..offered[k][r] :
        Somewhere(k, r, n)
  BY DEF Conserved, Everything
<1>2. SUFFICES \A k \in Kind, r \in Receivers : \A n \in 1..offered'[k][r] :
                 Somewhere(k, r, n)'
  BY DEF Conserved, Everything
<1>3. Everything' = Given' \cup Elements(Backlog') \cup lost'
  BY DEF Everything, Elements
<1>4. ASSUME NEW k \in Kind, NEW r \in Receivers, Offers(k, r),
             NEW kind \in Kind, NEW x \in Receivers,
             NEW n \in 1..offered'[kind][x]
      PROVE  Somewhere(kind, x, n)'
  <2>1. PICK e : e = NextRecord(k, r)
    OBVIOUS
  <2>2. /\ e # STOP /\ e.kind = k /\ e.rx = r /\ e.n = offered[k][r] + 1
    BY <2>1, NextRecordFields, RecordFields
  <2>3. Everything' = Everything \cup {e}
    <3>1. /\ Given' = Given
          /\ \/ Elements(Backlog') = Elements(Backlog) \cup {e} /\ lost' = lost
             \/ Elements(Backlog') = Elements(Backlog) /\ lost' = lost \cup {e}
      BY <1>4, <2>1, ElementsStep
    <3> QED
      BY <1>3, <3>1 DEF Everything
  <2>4. \/ n \in 1..offered[kind][x]
        \/ kind = k /\ x = r /\ n = offered[k][r] + 1
    <3>1. offered \in [Kind -> [Receivers -> Nat]]
      BY DEF TypeOK
    <3> QED
      BY <1>4, <3>1, SMT DEF Offers
  <2> QED
    BY <1>1, <2>2, <2>3, <2>4
<1>5. ASSUME Stops \/ Ends \/ Leaves \/ Rests
      PROVE  \A k \in Kind, r \in Receivers : \A n \in 1..offered'[k][r] :
               Somewhere(k, r, n)'
  <2>1. Everything \subseteq Everything' \cup {STOP}
    <3>1. CASE Stops \/ Ends \/ Leaves
      BY <1>3, <3>1, ElementsStep DEF Everything, Loses
    <3>2. CASE Rests
      BY <1>3, <3>2 DEF Everything, Rests, Loses, Elements
    <3> QED
      BY <1>5, <3>1, <3>2
  <2>2. offered' = offered
    BY <1>5 DEF Stops, Ends, Leaves, Rests
  <2> QED
    BY <1>1, <2>1, <2>2
<1> QED
  BY <1>4, <1>5, StepKinds

-----------------------------------------------------------------------------
(* The handles and their buffers.                                          *)

\* A handle that is closed has no buffer; what it loses was in it.
LEMMA BufferClosed ==
  ASSUME TypeOK, NEW k \in Kind, NEW m, CloseHandle(k, m)
  PROVE  /\ Cut(k, m) \subseteq Buffered(k)
         /\ \A l \in Kind : Buffered(l)' \subseteq Buffered(l)
         /\ flushed'[k] = Len(rows'[k])
         /\ \A l \in Kind : l # k => /\ rows'[l] = rows[l]
                                     /\ flushed'[l] = flushed[l]
         /\ m = Len(rows[k]) => Cut(k, m) = {}
<1>1. /\ m \in Nat /\ flushed'[k] = m /\ Len(rows'[k]) = m
      /\ \A l \in Kind : l # k => /\ rows'[l] = rows[l]
                                  /\ flushed'[l] = flushed[l]
  BY HandleClosed
<1>2. flushed[k] \in Nat /\ flushed[k] <= m /\ Len(rows[k]) \in Nat
  BY <1>1, RowsType, SMT DEF CloseHandle, TypeOK
<1>3. Cut(k, m) \subseteq Buffered(k)
  BY <1>1, <1>2, SMT DEF Buffered, Cut
<1>4. ASSUME NEW l \in Kind PROVE Buffered(l)' \subseteq Buffered(l)
  <2>1. CASE l = k
    <3>1. (flushed'[k] + 1)..Len(rows'[k]) = {}
      BY <1>1, SMT
    <3> QED
      BY <2>1, <3>1 DEF Buffered, Cut
  <2>2. CASE l # k
    BY <1>1, <2>2 DEF Buffered, Cut
  <2> QED
    BY <2>1, <2>2
<1>5. m = Len(rows[k]) => Cut(k, m) = {}
  BY <1>1, SMT DEF Cut
<1> QED
  BY <1>1, <1>3, <1>4, <1>5

\* The record in hand has a file, with a number of rows.
LEMMA ItemFile ==
  ASSUME TypeOK, HeldKnown, wpc \in {"opening", "writing", "flushing"}
  PROVE  /\ item \in Record /\ item.kind \in Kind
         /\ rows[item.kind] \in Seq(Record) /\ Len(rows[item.kind]) \in Nat
         /\ flushed[item.kind] \in Nat
  BY RecordFields, RowsType DEF HeldKnown, TypeOK

\* A handle keeps the rows it was given, and is open while it has a buffer.
LEMMA NextHandles ==
  ASSUME TypeOK, HeldKnown, StopKnown, HandlesKnown, [Next]_vars
  PROVE  HandlesKnown'
<1> USE DEF diskVars, closeVars
<1>1. /\ handles \in [Kind -> {"none", "open", "closed"}]
      /\ rows \in [Kind -> Seq(Record)] /\ flushed \in [Kind -> Nat]
      /\ \A k \in Kind : Len(rows[k]) \in Nat
  BY RowsType DEF TypeOK
<1>2. ASSUME OpenHandle, ~UNCHANGED diskVars PROVE HandlesKnown'
  <2>1. item.kind \in Kind /\ ~joined
    BY <1>2, ItemFile DEF OpenHandle, StopKnown
  <2>2. /\ flushed'[item.kind] = Len(rows'[item.kind])
        /\ \A l \in Kind : l # item.kind => /\ rows'[l] = rows[l]
                                            /\ flushed'[l] = flushed[l]
    BY <1>2, <2>1, BufferClosed DEF OpenHandle
  <2>3. /\ handles' = [handles EXCEPT ![item.kind] = "open"]
        /\ UNCHANGED joined
    BY <1>2 DEF OpenHandle
  <2>4. \A l \in Kind : flushed'[l] <= Len(rows'[l])
    <3>1. flushed'[item.kind] <= Len(rows'[item.kind])
      BY <1>2, <2>1, <2>2, HandleClosed, SMT DEF OpenHandle
    <3> QED
      BY <2>2, <3>1 DEF HandlesKnown
  <2>5. \A l \in Kind : handles'[l] # "open" => flushed'[l] = Len(rows'[l])
    BY <1>1, <2>2, <2>3 DEF HandlesKnown
  <2> QED
    BY <2>1, <2>3, <2>4, <2>5 DEF HandlesKnown
<1>3. ASSUME WriteRow PROVE HandlesKnown'
  <2>1. /\ item \in Record /\ item.kind \in Kind /\ ~joined
        /\ rows[item.kind] \in Seq(Record)
    BY <1>3, ItemFile DEF WriteRow, StopKnown
  <2>2. /\ Len(rows'[item.kind]) = Len(rows[item.kind]) + 1
        /\ \A l \in Kind : l # item.kind => rows'[l] = rows[l]
        /\ UNCHANGED <<handles, flushed, joined>>
        /\ handles[item.kind] = "open"
    BY <1>1, <1>3, <2>1, Appended DEF WriteRow
  <2>3. \A l \in Kind : flushed'[l] <= Len(rows'[l])
    <3>1. flushed[item.kind] <= Len(rows[item.kind]) + 1
      BY <1>1, <2>1, SMT DEF HandlesKnown
    <3> QED
      BY <2>2, <3>1 DEF HandlesKnown
  <2> QED
    BY <2>1, <2>2, <2>3 DEF HandlesKnown
<1>4. ASSUME FlushRow \/ FlushFails PROVE HandlesKnown'
  <2>1. item.kind \in Kind /\ ~joined
    BY <1>4, ItemFile DEF FlushRow, FlushFails, StopKnown
  <2>2. PICK m \in flushed[item.kind]..Len(rows[item.kind]) :
          flushed' = [flushed EXCEPT ![item.kind] = m]
    <3>1. Len(rows[item.kind]) \in flushed[item.kind]..Len(rows[item.kind])
      BY <1>1, <2>1, SMT DEF HandlesKnown
    <3> QED
      BY <1>4, <3>1 DEF FlushRow, FlushFails
  <2>3. /\ flushed'[item.kind] = m
        /\ m <= Len(rows[item.kind])
        /\ flushed[item.kind] = Len(rows[item.kind]) =>
             m = Len(rows[item.kind])
        /\ \A l \in Kind : l # item.kind => flushed'[l] = flushed[l]
    BY <1>1, <2>1, <2>2, SMT
  <2>4. UNCHANGED <<handles, rows, joined>>
    BY <1>4 DEF FlushRow, FlushFails
  <2> QED
    BY <2>1, <2>3, <2>4 DEF HandlesKnown
<1>5. ASSUME NEW k \in Kind, NEW m, CloseHandle(k, m),
             handles' = [handles EXCEPT ![k] = "none"]
               \/ handles' = [handles EXCEPT ![k] = "closed"],
             UNCHANGED joined,
             \/ UNCHANGED cpc
             \/ cpc' = IF k = "sentence" THEN "closingSnapshots" ELSE "closed"
             \/ cpc' = "raised",
             k = "snapshot" /\ cpc' = "closed" /\ cpc # "closed" =>
               cpc = "closingSnapshots"
      PROVE  HandlesKnown'
  <2>1. /\ flushed'[k] = Len(rows'[k]) /\ flushed'[k] <= Len(rows'[k])
        /\ \A l \in Kind : l # k => /\ rows'[l] = rows[l]
                                    /\ flushed'[l] = flushed[l]
    BY <1>5, BufferClosed, HandleClosed, SMT
  <2>2. handles'[k] # "open" /\ \A l \in Kind : l # k => handles'[l] = handles[l]
    BY <1>1, <1>5
  <2>3. \A l \in Kind : /\ flushed'[l] <= Len(rows'[l])
                        /\ handles'[l] # "open" => flushed'[l] = Len(rows'[l])
    BY <2>1, <2>2 DEF HandlesKnown
  <2>4. k = "sentence" \/ k = "snapshot"
    BY DEF Kind
  <2>5. joined' /\ cpc' \in {"closingSnapshots", "closed"} =>
          handles'["sentence"] # "open"
    BY <1>5, <2>2, <2>4 DEF HandlesKnown, Kind
  <2>6. joined' /\ cpc' = "closed" => handles'["snapshot"] # "open"
    BY <1>5, <2>2, <2>4 DEF HandlesKnown, Kind
  <2> QED
    BY <2>3, <2>5, <2>6 DEF HandlesKnown
<1>6. ASSUME WriteFails, ~UNCHANGED diskVars PROVE HandlesKnown'
  <2>1. item.kind \in Kind
    BY <1>6, ItemFile DEF WriteFails
  <2>2. PICK m : CloseHandle(item.kind, m)
    BY <1>6 DEF WriteFails
  <2> QED
    BY <1>5, <1>6, <2>1, <2>2 DEF WriteFails
<1>7. ASSUME NEW k \in Kind, CloseWriter(k) PROVE HandlesKnown'
  <2>1. CloseHandle(k, Len(rows[k]))
    BY <1>7 DEF CloseWriter
  <2> QED
    BY <1>5, <1>7, <2>1 DEF CloseWriter, ClosesNow
<1>8. ASSUME NEW k \in Kind, CloseWriterFails(k) PROVE HandlesKnown'
  <2>1. CASE UNCHANGED diskVars
    BY <1>8, <2>1 DEF CloseWriterFails, HandlesKnown
  <2>2. ASSUME NEW m, CloseHandle(k, m),
               handles' = [handles EXCEPT ![k] = "closed"]
        PROVE  HandlesKnown'
    BY <1>5, <1>8, <2>2 DEF CloseWriterFails
  <2> QED
    BY <1>8, <2>1, <2>2 DEF CloseWriterFails
<1>9. ASSUME UNCHANGED diskVars,
             \/ UNCHANGED <<joined, cpc>>
             \/ cpc' \in {"putting", "joining", "closingSentences"}
      PROVE  HandlesKnown'
  BY <1>9 DEF HandlesKnown
<1> QED
  <2>1. CASE Produce \/ Background \/ CloseBegins \/ Tick \/ UNCHANGED vars
    BY <1>9, <2>1
    DEF Produce, OnSentence, RecordSnapshot, TestWarned, Warn, Background,
        Get, CheckEmpty, ResetWarned, CloseBegins, Tick, vars
  <2>2. CASE PutStop \/ JoinReturns \/ JoinTimesOut
    BY <1>9, <2>2 DEF PutStop, JoinReturns, JoinTimesOut
  <2>3. CASE (OpenHandle \/ WriteFails) /\ UNCHANGED diskVars
    BY <1>9, <2>3 DEF OpenHandle, WriteFails
  <2> QED
    BY <1>2, <1>3, <1>4, <1>6, <1>7, <1>8, <2>1, <2>2, <2>3
    DEF Next, Disk, Close

\* What is not flushed, and what is lost, is known to have failed or is being
\* flushed.
LEMMA NextFailed ==
  ASSUME TypeOK, HeldKnown, OrderKnown, HandlesKnown, LostKnown, FailedKnown,
         [Next]_vars
  PROVE  FailedKnown'
<1> USE DEF diskVars, lossVars
<1>1. ASSUME UNCHANGED <<wpc, item, diskVars>>,
             failed \subseteq failed', lost' \subseteq lost \cup failed'
      PROVE  FailedKnown'
  <2>1. Flushing' = Flushing /\ \A k \in Kind : Buffered(k)' = Buffered(k)
    BY <1>1 DEF Flushing, Buffered, Cut
  <2>2. Elements(rows[item.kind])' = Elements(rows[item.kind])
    BY <1>1 DEF Elements
  <2> QED
    BY <1>1, <2>1, <2>2 DEF FailedKnown
<1>2. ASSUME wpc # "flushing", wpc' # "flushing",
             UNCHANGED <<diskVars, lossVars>>
      PROVE  FailedKnown'
  <2>1. /\ Flushing' = {} /\ Flushing = {}
        /\ \A k \in Kind : Buffered(k)' = Buffered(k)
    BY <1>2 DEF Flushing, Buffered, Cut
  <2> QED
    BY <1>2, <2>1 DEF FailedKnown
<1>3. ASSUME OpenHandle, ~UNCHANGED diskVars PROVE FailedKnown'
  <2>1. /\ wpc # "flushing" /\ wpc' # "flushing" /\ UNCHANGED lossVars
        /\ Flushing = {}
    BY <1>3 DEF OpenHandle, Flushing
  <2>2. \A l \in Kind : Buffered(l)' \subseteq Buffered(l)
    BY <1>3, ItemFile, BufferClosed DEF OpenHandle
  <2> QED
    BY <2>1, <2>2 DEF FailedKnown
<1>4. ASSUME WriteRow PROVE FailedKnown'
  <2>1. /\ item \in Record /\ item.kind \in Kind
        /\ rows[item.kind] \in Seq(Record) /\ Len(rows[item.kind]) \in Nat
        /\ flushed[item.kind] \in Nat
    BY <1>4, ItemFile DEF WriteRow
  <2>2. rows' = [rows EXCEPT ![item.kind] = Append(rows[item.kind], item)]
        /\ rows \in [Kind -> Seq(Record)]
    BY <1>4 DEF WriteRow, TypeOK
  <2>3. /\ Len(rows'[item.kind]) = Len(rows[item.kind]) + 1
        /\ \A i \in 1..Len(rows[item.kind]) :
             rows'[item.kind][i] = rows[item.kind][i]
        /\ rows'[item.kind][Len(rows[item.kind]) + 1] = item
        /\ item \in Elements(rows'[item.kind])
        /\ \A l \in Kind : l # item.kind => rows'[l] = rows[l]
    BY <2>1, <2>2, Appended
  <2>4. /\ Flushing = {} /\ Flushing' = {item} /\ item' = item
        /\ UNCHANGED <<flushed, lossVars>>
    BY <1>4 DEF WriteRow, Flushing
  <2>5. ASSUME NEW k \in Kind PROVE Buffered(k)' \subseteq Buffered(k) \cup {item}
    <3>1. CASE k = item.kind
      <4>1. \A i \in (flushed[k] + 1)..Len(rows'[k]) :
              \/ i \in (flushed[k] + 1)..Len(rows[k]) /\ rows'[k][i] = rows[k][i]
              \/ rows'[k][i] = item
        BY <2>1, <2>3, <3>1, SMT
      <4> QED
        BY <2>4, <4>1 DEF Buffered, Cut
    <3>2. CASE k # item.kind
      BY <2>3, <2>4, <3>2 DEF Buffered, Cut
    <3> QED
      BY <3>1, <3>2
  <2>6. Elements(rows[item.kind])' = Elements(rows'[item.kind])
    BY <2>4 DEF Elements
  <2> QED
    BY <2>3, <2>4, <2>5, <2>6 DEF FailedKnown
<1>5. ASSUME FlushRow \/ FlushFails PROVE FailedKnown'
  <2>1. /\ item \in Record /\ item.kind \in Kind
        /\ Len(rows[item.kind]) \in Nat /\ flushed[item.kind] \in Nat
        /\ flushed \in [Kind -> Nat]
    BY <1>5, ItemFile DEF FlushRow, FlushFails, TypeOK
  <2>2. /\ wpc' # "flushing" /\ Flushing = {item} /\ Flushing' = {}
        /\ UNCHANGED <<rows, lost>> /\ failed \subseteq failed'
    BY <1>5 DEF FlushRow, FlushFails, Flushing
  <2>3. ASSUME FlushFails, NEW k \in Kind
        PROVE  Buffered(k)' \subseteq Buffered(k)
    <3>1. PICK m \in flushed[item.kind]..Len(rows[item.kind]) :
            flushed' = [flushed EXCEPT ![item.kind] = m]
      BY <2>3 DEF FlushFails
    <3>2. m \in Nat /\ flushed[item.kind] <= m /\ flushed'[item.kind] = m
      BY <2>1, <3>1, SMT
    <3>3. \A l \in Kind : l # item.kind => flushed'[l] = flushed[l]
      BY <2>1, <3>1
    <3>4. CASE k = item.kind
      <4>1. \A i \in (m + 1)..Len(rows[k]) : i \in (flushed[k] + 1)..Len(rows[k])
        BY <2>1, <3>2, <3>4, SMT
      <4> QED
        BY <2>2, <3>2, <3>4, <4>1 DEF Buffered, Cut
    <3>5. CASE k # item.kind
      BY <2>2, <3>3, <3>5 DEF Buffered, Cut
    <3> QED
      BY <3>4, <3>5
  <2>4. CASE FlushFails
    <3>1. failed' = failed \cup {item}
      BY <2>4 DEF FlushFails
    <3> QED
      BY <2>2, <2>3, <2>4, <3>1 DEF FailedKnown
  <2>5. CASE FlushRow
    <3>1. flushed' = [flushed EXCEPT ![item.kind] = Len(rows[item.kind])]
          /\ failed' = failed /\ wpc = "flushing"
          /\ handles[item.kind] = "open"
      BY <2>5 DEF FlushRow
    <3>2. item \in Elements(rows[item.kind])
      BY <3>1 DEF FailedKnown
    <3>3. item \notin lost
      BY <2>1, <3>2 DEF LostKnown, Given
    <3>4. ASSUME NEW k \in Kind
          PROVE  Buffered(k)' \subseteq failed
      <4>1. CASE k = item.kind
        <5>1. (flushed'[k] + 1)..Len(rows'[k]) = {}
          BY <2>1, <2>2, <3>1, <4>1, SMT
        <5> QED
          BY <5>1 DEF Buffered, Cut
      <4>2. CASE k # item.kind
        <5>1. Buffered(k)' = Buffered(k)
          BY <2>1, <2>2, <3>1, <4>2 DEF Buffered, Cut
        <5>2. item \notin Buffered(k)
          <6>1. flushed[k] \in Nat
            BY <2>1
          <6>2. \A i \in (flushed[k] + 1)..Len(rows[k]) : i \in DOMAIN rows[k]
            BY <6>1, RowsType, SMT
          <6> QED
            BY <4>2, <6>2 DEF Buffered, Cut, OrderKnown, RowsKnown
        <5> QED
          BY <2>2, <5>1, <5>2 DEF FailedKnown
      <4> QED
        BY <4>1, <4>2
    <3> QED
      BY <2>2, <3>1, <3>3, <3>4 DEF FailedKnown
  <2> QED
    BY <1>5, <2>4, <2>5
<1>6. ASSUME WriteFails PROVE FailedKnown'
  <2>1. /\ wpc' # "flushing" /\ Flushing = {} /\ Flushing' = {}
        /\ failed' = failed \cup {item} /\ item.kind \in Kind
    BY <1>6, ItemFile DEF WriteFails, Flushing
  <2>2. CASE UNCHANGED diskVars /\ lost' = lost \cup {item}
    <3>1. \A k \in Kind : Buffered(k)' = Buffered(k)
      BY <2>2 DEF Buffered, Cut
    <3> QED
      BY <2>1, <2>2, <3>1 DEF FailedKnown
  <2>3. ASSUME NEW m, CloseHandle(item.kind, m),
               lost' = lost \cup {item} \cup Cut(item.kind, m)
        PROVE  FailedKnown'
    <3>1. /\ Cut(item.kind, m) \subseteq Buffered(item.kind)
          /\ \A l \in Kind : Buffered(l)' \subseteq Buffered(l)
      BY <2>1, <2>3, BufferClosed
    <3> QED
      BY <2>1, <2>3, <3>1 DEF FailedKnown
  <2> QED
    BY <1>6, <2>2, <2>3 DEF WriteFails
<1>7. ASSUME NEW k \in Kind, NEW m, CloseHandle(k, m),
             handles' = [handles EXCEPT ![k] = "none"]
               \/ handles' = [handles EXCEPT ![k] = "closed"],
             lost' = lost \cup Cut(k, m), UNCHANGED <<failed, wpc, item>>
      PROVE  FailedKnown'
  <2>1. /\ Cut(k, m) \subseteq Buffered(k)
        /\ \A l \in Kind : Buffered(l)' \subseteq Buffered(l)
        /\ \A l \in Kind : l # k => rows'[l] = rows[l]
    BY <1>7, BufferClosed
  <2>2. Flushing' = Flushing
    BY <1>7 DEF Flushing
  <2>3. ASSUME wpc = "flushing", handles'[item.kind] = "open"
        PROVE  item \in Elements(rows'[item.kind])
    <3>1. item.kind \in Kind /\ item.kind # k /\ handles[item.kind] = "open"
      BY <1>7, <2>3, ItemFile DEF TypeOK
    <3> QED
      BY <2>1, <2>3, <3>1 DEF FailedKnown, Elements
  <2>4. Elements(rows[item.kind])' = Elements(rows'[item.kind])
    BY <1>7 DEF Elements
  <2> QED
    BY <1>7, <2>1, <2>2, <2>3, <2>4 DEF FailedKnown
<1>8. ASSUME NEW k \in Kind, CloseWriter(k) PROVE FailedKnown'
  <2>1. CloseHandle(k, Len(rows[k])) /\ Cut(k, Len(rows[k])) = {}
    BY <1>8, BufferClosed DEF CloseWriter
  <2> QED
    BY <1>7, <1>8, <2>1 DEF CloseWriter
<1>9. ASSUME NEW k \in Kind, CloseWriterFails(k) PROVE FailedKnown'
  <2>1. CASE UNCHANGED <<diskVars, lost>>
    BY <1>1, <1>9, <2>1 DEF CloseWriterFails
  <2>2. ASSUME NEW m, CloseHandle(k, m), lost' = lost \cup Cut(k, m),
               handles' = [handles EXCEPT ![k] = "closed"]
        PROVE  FailedKnown'
    BY <1>7, <1>9, <2>2 DEF CloseWriterFails
  <2> QED
    BY <1>9, <2>1, <2>2 DEF CloseWriterFails
<1> QED
  <2>1. CASE Produce
    <3>1. UNCHANGED <<wpc, item, diskVars>>
      BY <2>1 DEF Produce, OnSentence, RecordSnapshot, TestWarned, Warn
    <3>2. failed \subseteq failed' /\ lost' \subseteq lost \cup failed'
      BY <2>1
      DEF Produce, OnSentence, RecordSnapshot, Enqueue, TestWarned, Warn
    <3> QED
      BY <1>1, <3>1, <3>2
  <2>2. CASE CloseBegins \/ PutStop \/ JoinReturns \/ JoinTimesOut \/ Tick
             \/ UNCHANGED vars
    BY <1>1, <2>2
    DEF CloseBegins, PutStop, JoinReturns, JoinTimesOut, Tick, vars
  <2>3. CASE Background
    BY <1>2, <2>3 DEF Background, Get, CheckEmpty, ResetWarned
  <2>4. CASE OpenHandle /\ UNCHANGED diskVars
    BY <1>2, <2>4 DEF OpenHandle
  <2> QED
    BY <1>3, <1>4, <1>5, <1>6, <1>8, <1>9, <2>1, <2>2, <2>3, <2>4
    DEF Next, Disk, Close

LEMMA NextInductive == Inductive /\ [Next]_vars => Inductive'
BY NextType, NextOrder, NextStop, NextHandles, NextFailed, NextLost,
   NextConserved
DEF Inductive

LEMMA SpecInductive == Spec => []Inductive
BY InitInductive, NextInductive, PTL DEF Spec

-----------------------------------------------------------------------------
(* The theorems.                                                           *)

\* Every variable keeps its type; in particular the queue never exceeds its
\* bound, although the overflow test and the sentinel's put are apart.
THEOREM TypeCorrect == Spec => []TypeOK
BY SpecInductive, PTL DEF Inductive

\* The rows of a file that are on disk are the first ones it was given: they
\* are records of its kind, each older than the next of the same receiver.
LEMMA DiskRows ==
  ASSUME TypeOK, OrderKnown, HandlesKnown, NEW k \in Kind,
         NEW i \in 1..flushed[k], NEW j \in 1..flushed[k], i < j,
         rows[k][i].rx = rows[k][j].rx
  PROVE  /\ rows[k][i].n < rows[k][j].n
         /\ k = "snapshot" => rows[k][j].t - rows[k][i].t >= Interval
<1>1. /\ flushed[k] \in Nat /\ flushed[k] <= Len(rows[k])
      /\ Len(rows[k]) \in Nat /\ DOMAIN rows[k] = 1..Len(rows[k])
  BY RowsType DEF TypeOK, HandlesKnown
<1>2. i \in DOMAIN rows[k] /\ j \in DOMAIN rows[k]
  BY <1>1, SMT
<1>3. rows[k][i] # STOP /\ rows[k][j] # STOP
  BY <1>2, RowsType, RecordFields
<1>4. /\ Older(rows[k][i], rows[k][j])
      /\ rows[k][i].kind = k /\ rows[k][j].kind = k
  BY <1>2 DEF OrderKnown, RowsKnown
<1> QED
  BY <1>3, <1>4 DEF Older, SameSource

\* The rows of one source are on disk in the order they were produced, none
\* twice, for any number of receivers, any queue, any failing disk and
\* however late a row leaves its buffer.
THEOREM InOrder == Spec => []WrittenInOrder
<1>1. Inductive => WrittenInOrder
  BY DiskRows DEF Inductive, WrittenInOrder
<1> QED
  BY <1>1, SpecInductive, PTL

\* Snapshot rows of a receiver are never closer than the interval, whichever
\* rows in between were dropped.
THEOREM Spaced == Spec => []SnapshotsSpaced
<1>1. Inductive => SnapshotsSpaced
  BY DiskRows DEF Inductive, SnapshotsSpaced, Kind
<1> QED
  BY <1>1, SpecInductive, PTL

\* A close() that saw the background thread end and returned left nothing
\* behind: what was offered before it has left the queue and the buffers,
\* and what has not reached the disk is known to have failed.
THEOREM CleanCloseComplete == Spec => []CleanCloseFlushes
<1>1. Inductive => CleanCloseFlushes
  <2> SUFFICES ASSUME TypeOK, StopKnown, HandlesKnown, FailedKnown,
                      cpc = "closed", joined
               PROVE  /\ \A rec \in Elements(queue) :
                           rec.n > mark[rec.kind][rec.rx]
                      /\ \A k \in Kind : Buffered(k) = {}
                      /\ lost \subseteq failed
    BY DEF Inductive, CleanCloseFlushes
  <2>1. wpc = "exited" /\ Backlog = queue /\ Flushing = {}
    BY DEF StopKnown, Backlog, Flushing
  <2>2. \A rec \in Elements(queue) : rec.n > mark[rec.kind][rec.rx]
    BY <2>1 DEF StopKnown, Late, Elements
  <2>3. ASSUME NEW k \in Kind PROVE Buffered(k) = {}
    <3>1. flushed[k] = Len(rows[k]) /\ Len(rows[k]) \in Nat
      BY RowsType DEF HandlesKnown, Kind
    <3>2. (flushed[k] + 1)..Len(rows[k]) = {}
      BY <3>1, SMT
    <3> QED
      BY <3>2 DEF Buffered, Cut
  <2> QED
    BY <2>1, <2>2, <2>3 DEF FailedKnown
<1> QED
  BY <1>1, SpecInductive, PTL

\* The backlog is the queue and the record in hand, which are apart.
LEMMA BacklogParts ==
  ASSUME TypeOK, HeldKnown, OrderKnown
  PROVE  /\ Elements(Backlog) \ {STOP} = (Elements(queue) \ {STOP}) \cup Held
         /\ (Elements(queue) \ {STOP}) \cap Held = {}
<1>1. CASE wpc \in {"opening", "writing"}
  <2>1. /\ Backlog # <<>> /\ Head(Backlog) = item
        /\ Tail(Backlog) = queue /\ Backlog[1] = item /\ item \in Record
    BY <1>1, BacklogInHand
  <2>2. Backlog \in Seq(Logged)
    BY BacklogType
  <2>3. /\ Elements(Backlog) = {item} \cup Elements(queue)
        /\ DOMAIN queue = 1..(Len(Backlog) - 1)
        /\ \A i \in 1..(Len(Backlog) - 1) : queue[i] = Backlog[i + 1]
        /\ DOMAIN Backlog = 1..Len(Backlog)
        /\ Len(Backlog) \in Nat /\ Len(Backlog) > 0
    BY <2>1, <2>2, WithoutFirst, LenProperties
  <2>4. item # STOP
    BY <2>1, RecordFields
  <2>5. \A i \in DOMAIN queue :
          /\ 1 \in DOMAIN Backlog /\ i + 1 \in DOMAIN Backlog /\ 1 < i + 1
          /\ queue[i] = Backlog[i + 1]
    BY <2>3, SMT
  <2>6. item \notin Elements(queue)
    BY <2>1, <2>5, NotOlder DEF OrderKnown, Elements
  <2> QED
    BY <1>1, <2>3, <2>4, <2>6 DEF Held
<1>2. CASE wpc \notin {"opening", "writing"}
  BY <1>2 DEF Held, Backlog
<1> QED
  BY <1>1, <1>2

\* The two kinds of rows are apart.
LEMMA FilesApart ==
  ASSUME TypeOK, OrderKnown
  PROVE  /\ Given = Elements(rows["sentence"]) \cup Elements(rows["snapshot"])
         /\ Elements(rows["sentence"]) \cap Elements(rows["snapshot"]) = {}
<1>1. \A k \in Kind : \A a \in Elements(rows[k]) : a.kind = k
  BY DEF OrderKnown, RowsKnown, Elements
<1>2. Kind = {"sentence", "snapshot"} /\ "sentence" # "snapshot"
  BY DEF Kind
<1> QED
  BY <1>1, <1>2 DEF Given

\* Every record ever offered is in exactly one place: queued, in hand, given
\* to its file or lost; and what is lost, or in a buffer, is known to have
\* failed, or is being flushed.
THEOREM NothingLostUnknown == Spec => []NothingVanishes
<1>1. Inductive => NothingVanishes
  <2> SUFFICES ASSUME Inductive PROVE NothingVanishes
    OBVIOUS
  <2> USE DEF Inductive
  <2>1. /\ Elements(Backlog) \ {STOP} = (Elements(queue) \ {STOP}) \cup Held
        /\ (Elements(queue) \ {STOP}) \cap Held = {}
    BY BacklogParts
  <2>2. /\ Given = Elements(rows["sentence"]) \cup Elements(rows["snapshot"])
        /\ Elements(rows["sentence"]) \cap Elements(rows["snapshot"]) = {}
    BY FilesApart
  <2>3. Given \cap Elements(Backlog) = {} /\ STOP \notin Given /\ STOP \notin lost
    BY GivenOnce, LoggerAssumption DEF TypeOK
  <2>4. lost \cap Given = {} /\ lost \cap Elements(Backlog) = {}
    BY DEF LostKnown
  <2>5. /\ Places[1] = Elements(queue) \ {STOP} /\ Places[2] = Held
        /\ Places[3] = Elements(rows["sentence"])
        /\ Places[4] = Elements(rows["snapshot"]) /\ Places[5] = lost
        /\ DOMAIN Places = 1..5
    BY DEF Places
  <2>6. \A i, j \in DOMAIN Places : i # j => Places[i] \cap Places[j] = {}
    <3>1. \A i \in 1..5 : i = 1 \/ i = 2 \/ i = 3 \/ i = 4 \/ i = 5
      BY SMT
    <3>2. /\ Places[1] \cap Places[2] = {} /\ Places[1] \cap Places[3] = {}
          /\ Places[1] \cap Places[4] = {} /\ Places[1] \cap Places[5] = {}
      BY <2>1, <2>2, <2>3, <2>4, <2>5
    <3>3. /\ Places[2] \cap Places[3] = {} /\ Places[2] \cap Places[4] = {}
          /\ Places[2] \cap Places[5] = {}
      BY <2>1, <2>2, <2>3, <2>4, <2>5
    <3>4. /\ Places[3] \cap Places[4] = {} /\ Places[3] \cap Places[5] = {}
          /\ Places[4] \cap Places[5] = {}
      BY <2>2, <2>4, <2>5
    <3>5. \A S, T : S \cap T = T \cap S
      OBVIOUS
    <3>6. \A i \in 1..5, j \in 1..5 : i # j => Places[i] \cap Places[j] = {}
      BY <3>1, <3>2, <3>3, <3>4, <3>5, Zenon
    <3> QED
      BY <2>5, <3>6
  <2>7. ASSUME NEW k \in Kind, NEW r \in Receivers,
               NEW n \in 1..offered[k][r]
        PROVE  \E i \in DOMAIN Places : \E rec \in Places[i] :
                 rec.kind = k /\ rec.rx = r /\ rec.n = n
    <3>1. PICK a \in Given \cup Elements(Backlog) \cup lost :
            a # STOP /\ a.kind = k /\ a.rx = r /\ a.n = n
      BY DEF Conserved
    <3>2. \/ a \in Places[1] \/ a \in Places[2] \/ a \in Places[3]
          \/ a \in Places[4] \/ a \in Places[5]
      BY <2>1, <2>2, <2>5, <3>1
    <3>3. /\ 1 \in DOMAIN Places /\ 2 \in DOMAIN Places /\ 3 \in DOMAIN Places
          /\ 4 \in DOMAIN Places /\ 5 \in DOMAIN Places
      BY <2>5, SMT
    <3> QED
      BY <3>1, <3>2, <3>3
  <2> QED
    BY <2>6, <2>7 DEF NothingVanishes, FailedKnown
<1> QED
  BY <1>1, SpecInductive, PTL

-----------------------------------------------------------------------------
(* Refinement.                                                             *)

\* A handle that is closed discards the end of its file, or nothing.
LEMMA ClosingDiscards ==
  ASSUME TypeOK, NEW k \in Kind, NEW m, CloseHandle(k, m)
  PROVE  Log!Discard
  BY DEF CloseHandle, Log!Discard

\* Each step of the logger, seen from the archive.
LEMMA StepsOfLog ==
  ASSUME TypeOK, HeldKnown, HandlesKnown, [Next]_vars
  PROVE  [Log!ArchiveNext]_(Log!archiveVars)
<1> USE DEF diskVars, Log!fileVars, Log!archiveVars
<1>1. /\ Backlog \in Seq(Logged) /\ Len(Backlog) \in Nat
      /\ Len(Backlog) <= Len(queue) + 1 /\ Len(queue) \in Nat
  BY BacklogType
<1>2. ASSUME NEW e \in Logged, Len(queue) < MaxQueue,
             queue' = Append(queue, e), UNCHANGED <<wpc, item, diskVars>>
      PROVE  Log!Accept
  <2>1. Backlog' = Append(Backlog, e)
    BY <1>2, BacklogPut
  <2>2. /\ Len(Backlog') = Len(Backlog) + 1
        /\ Backlog'[Len(Backlog) + 1] = e
    BY <1>1, <2>1, Appended
  <2>3. Len(Backlog) < MaxQueue + 1
    BY <1>1, <1>2, LoggerAssumption, SMT
  <2> QED
    BY <1>2, <2>1, <2>2, <2>3 DEF Log!Accept, Logged
<1>3. ASSUME NEW p, NEW e \in Logged, Enqueue(p, e),
             UNCHANGED <<wpc, item, diskVars>>
      PROVE  Log!Accept \/ UNCHANGED <<Backlog, rows, flushed>>
  BY <1>2, <1>3 DEF Enqueue, Backlog
<1>4. \A k \in Kind, r \in Receivers : NextRecord(k, r) \in Logged
  BY NextRecordFields DEF Logged
<1>5. ASSUME NEW r \in Receivers, OnSentence(r) \/ RecordSnapshot(r)
      PROVE  Log!Accept \/ UNCHANGED <<Backlog, rows, flushed>>
  BY <1>3, <1>4, <1>5 DEF OnSentence, RecordSnapshot, Kind
<1>6. ASSUME PutStop PROVE Log!Accept
  BY <1>2, <1>6 DEF PutStop, Logged
<1>7. ASSUME Get
      PROVE  Log!Lose \/ UNCHANGED <<Backlog, rows, flushed>>
  <2>1. UNCHANGED <<rows, flushed>>
    BY <1>7 DEF Get
  <2> QED
    BY <1>7, <2>1, BacklogGet DEF Log!Lose
<1>8. ASSUME WriteRow PROVE Log!HandOver
  <2>1. /\ Backlog # <<>> /\ Head(Backlog) = item /\ item \in Record
        /\ Backlog' = Tail(Backlog)
    BY <1>8, BacklogLeft
  <2>2. /\ rows' = [rows EXCEPT ![item.kind] = Append(@, item)]
        /\ UNCHANGED flushed
    BY <1>8 DEF WriteRow
  <2>3. /\ Head(Backlog) \in DOMAIN [rec \in Record |-> rec.kind]
        /\ [rec \in Record |-> rec.kind][Head(Backlog)] = item.kind
    BY <2>1
  <2> QED
    BY <2>1, <2>2, <2>3 DEF Log!HandOver
<1>9. ASSUME OpenHandle
      PROVE  Log!Lose \/ UNCHANGED <<Backlog, rows, flushed>>
  <2>1. UNCHANGED Backlog
    BY <1>9 DEF OpenHandle, Backlog
  <2>2. UNCHANGED <<rows, flushed>> \/ Log!Discard
    BY <1>9, ItemFile, ClosingDiscards DEF OpenHandle
  <2> QED
    BY <2>1, <2>2 DEF Log!Lose
<1>10. ASSUME WriteFails PROVE Log!Lose
  <2>1. Backlog # <<>> /\ Backlog' = Tail(Backlog) /\ item.kind \in Kind
    BY <1>10, BacklogLeft, RecordFields
  <2>2. UNCHANGED <<rows, flushed>> \/ Log!Discard
    BY <1>10, <2>1, ClosingDiscards DEF WriteFails
  <2> QED
    BY <2>1, <2>2 DEF Log!Lose
<1>11. ASSUME FlushRow \/ FlushFails PROVE Log!Settle
  <2>1. item.kind \in Kind /\ UNCHANGED <<Backlog, rows>>
    BY <1>11, ItemFile DEF FlushRow, FlushFails, Backlog
  <2>2. \E m \in flushed[item.kind]..Len(rows[item.kind]) :
          flushed' = [flushed EXCEPT ![item.kind] = m]
    <3>1. Len(rows[item.kind]) \in flushed[item.kind]..Len(rows[item.kind])
      BY <2>1, RowsType, SMT DEF HandlesKnown, TypeOK
    <3> QED
      BY <1>11, <3>1 DEF FlushRow, FlushFails
  <2> QED
    BY <2>1, <2>2 DEF Log!Settle
<1>12. ASSUME NEW k \in Kind, CloseWriter(k) \/ CloseWriterFails(k)
       PROVE  Log!Lose \/ UNCHANGED <<Backlog, rows, flushed>>
  <2>1. UNCHANGED Backlog
    BY <1>12 DEF CloseWriter, CloseWriterFails, Backlog
  <2>2. UNCHANGED <<rows, flushed>> \/ Log!Discard
    BY <1>12, ClosingDiscards DEF CloseWriter, CloseWriterFails
  <2> QED
    BY <2>1, <2>2 DEF Log!Lose
<1>13. ASSUME \/ \E p \in Thread : TestWarned(p) \/ Warn(p)
              \/ CheckEmpty \/ ResetWarned \/ Tick
              \/ CloseBegins \/ JoinReturns \/ JoinTimesOut
              \/ UNCHANGED vars
       PROVE  UNCHANGED <<Backlog, rows, flushed>>
  BY <1>13
  DEF TestWarned, Warn, CheckEmpty, ResetWarned, Tick, CloseBegins,
      JoinReturns, JoinTimesOut, vars, Backlog
<1> QED
  BY <1>5, <1>6, <1>7, <1>8, <1>9, <1>10, <1>11, <1>12, <1>13
  DEF Next, Produce, Background, Disk, Close, Log!ArchiveNext

\* The logger implements the lossy log of Archive: accepted at the end, given
\* to a file or lost from the front, on disk in that order however late; and
\* what is on disk stays, whatever the producers, the background thread and
\* close() interleave.
THEOREM ImplementsArchive == Spec => ArchiveSpec
<1>1. Init => Log!ArchiveInit
  BY DEF Init, Backlog, Log!ArchiveInit
<1>2. Inductive /\ [Next]_vars => [Log!ArchiveNext]_(Log!archiveVars)
  BY StepsOfLog DEF Inductive
<1> QED
  BY <1>1, <1>2, SpecInductive, PTL DEF Spec, ArchiveSpec, Log!ArchiveSpec
=============================================================================
