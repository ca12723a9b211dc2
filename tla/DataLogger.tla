----------------------------- MODULE DataLogger ------------------------------
(***************************************************************************)
(* The optional data-logging subsystem (data_logging/logger.py): the       *)
(* receivers' worker threads and the render thread offer records to a      *)
(* bounded queue, one background thread writes them, and close() ends it.  *)
(*                                                                         *)
(* A "sentence" record stands for the raw and the parsed record of one     *)
(* line, which take the same path; a "snapshot" record is a row of         *)
(* snapshot.csv.  The writers of a kind are one handle: opened on demand,  *)
(* a row put in its buffer, the buffer flushed, closed.  A flush that      *)
(* raises may have written any part of the buffer and keeps the rest, a    *)
(* close that raises loses the rest; rows are not cut.  DailyWriters has   *)
(* the files, days and headers.                                            *)
(***************************************************************************)
EXTENDS Naturals, Sequences, FiniteSets

CONSTANTS
  Receivers, \* the receivers, each with its worker thread
  Main,      \* the main thread: render loop, then shutdown
  None,      \* the absent value
  STOP,      \* the sentinel that ends the background thread
  MaxQueue,  \* _MAX_QUEUE_SIZE
  Interval,  \* snapshot.interval_s
  MaxLines,  \* bound: lines each receiver reads
  MaxTime    \* bound: the monotonic clock

Kind == {"sentence", "snapshot"}
Record == [kind : Kind, rx : Receivers, n : Nat, t : Nat]
Thread == Receivers \cup {Main}

ASSUME LoggerAssumption ==
  /\ Main \notin Receivers
  /\ None \notin Nat /\ None \notin Record
  /\ None \notin [Kind -> [Receivers -> Nat]]
  /\ STOP \notin Record /\ STOP # None
  /\ MaxQueue \in Nat \ {0} /\ Interval \in Nat \ {0}
  /\ MaxLines \in Nat /\ MaxTime \in Nat

VARIABLES
  queue,      \* _queue
  warned,     \* _overflow_warned
  lastSnap,   \* _last_snapshot_mono
  ppc,        \* per thread, where it is in _enqueue
  wpc,        \* where the background thread is in _run
  item,       \* the record the background thread holds
  handles,    \* per kind, the cached handle: none, open, or a closed one
  rows,       \* per kind, the rows given to its file, in that order
  flushed,    \* per kind, how many of them are on disk; the rest is buffered
  cpc,        \* where the main thread is in close()
  now,        \* time.monotonic()
  offered,    \* history: records offered, per kind and receiver
  failed,     \* history: records refused by the queue or whose write raised
  lost,       \* history: records that can no longer reach the disk
  mark,       \* history: what had been offered when STOP was queued
  joined      \* history: close() saw the background thread end

producerVars == <<ppc, lastSnap, offered>>
diskVars     == <<handles, rows, flushed>>
lossVars     == <<failed, lost>>
closeVars    == <<cpc, mark, joined>>
vars == <<queue, warned, producerVars, wpc, item, diskVars, lossVars,
          closeVars, now>>

Init ==
  /\ queue = <<>> /\ warned = FALSE
  /\ lastSnap = [r \in Receivers |-> None]
  /\ ppc = [p \in Thread |-> "idle"]
  /\ wpc = "getting" /\ item = None
  /\ handles = [k \in Kind |-> "none"]
  /\ rows = [k \in Kind |-> <<>>] /\ flushed = [k \in Kind |-> 0]
  /\ cpc = "open" /\ now = 0
  /\ offered = [k \in Kind |-> [r \in Receivers |-> 0]]
  /\ failed = {} /\ lost = {}
  /\ mark = None /\ joined = FALSE

-----------------------------------------------------------------------------
(* The producers: on_raw/on_parsed, record_snapshot and _enqueue.          *)

\* Seeded fault: a full queue makes room by giving up its oldest record.
EnqueueEvicting(p, rec) ==
  /\ queue' = IF Len(queue) < MaxQueue THEN Append(queue, rec)
              ELSE Append(Tail(queue), rec)
  /\ UNCHANGED <<ppc, lossVars>>

\* put_nowait: accepted, or queue.Full.
Enqueue(p, rec) ==
  \/ /\ Len(queue) < MaxQueue
     /\ queue' = Append(queue, rec)
     /\ UNCHANGED <<ppc, lossVars>>
  \/ /\ Len(queue) = MaxQueue
     /\ ppc' = [ppc EXCEPT ![p] = "full"]
     /\ failed' = failed \cup {rec} /\ lost' = lost \cup {rec}
     /\ UNCHANGED queue

\* The next record of a kind and receiver.
NextRecord(k, r) == [kind |-> k, rx |-> r, n |-> offered[k][r] + 1, t |-> now]

\* Nothing tells the worker threads that the logger has been closed.
OnSentence(r) ==
  /\ ppc[r] = "idle"
  /\ offered["sentence"][r] < MaxLines
  /\ Enqueue(r, NextRecord("sentence", r))
  /\ offered' = [offered EXCEPT !["sentence"][r] = @ + 1]
  /\ UNCHANGED <<lastSnap, wpc, item, warned, closeVars, diskVars, now>>

\* Seeded fault: the slot is taken but never compared.
ThrottledNever(r) == FALSE

Throttled(r) == lastSnap[r] # None /\ now - lastSnap[r] < Interval

\* record_snapshot past the throttle: the slot is taken, then the row is
\* offered.
RecordSnapshot(r) ==
  /\ cpc = "open" /\ ppc[Main] = "idle"
  /\ ~Throttled(r)
  /\ lastSnap' = [lastSnap EXCEPT ![r] = now]
  /\ Enqueue(Main, NextRecord("snapshot", r))
  /\ offered' = [offered EXCEPT !["snapshot"][r] = @ + 1]
  /\ UNCHANGED <<wpc, item, warned, closeVars, diskVars, now>>

\* `if not self._overflow_warned', without a lock.
TestWarned(p) ==
  /\ ppc[p] = "full"
  /\ ppc' = [ppc EXCEPT ![p] = IF warned THEN "idle" ELSE "warn"]
  /\ UNCHANGED <<queue, lastSnap, offered, wpc, item, warned, closeVars,
                 diskVars, now, lossVars>>

\* The warning is logged and the flag set.
Warn(p) ==
  /\ ppc[p] = "warn"
  /\ ppc' = [ppc EXCEPT ![p] = "idle"]
  /\ warned' = TRUE
  /\ UNCHANGED <<queue, lastSnap, offered, wpc, item, closeVars, diskVars, now,
                 lossVars>>

-----------------------------------------------------------------------------
(* The background thread: _run, _dispatch and the writers' write().        *)

\* Seeded fault: the newest record is taken (a LifoQueue).
GetNewest ==
  /\ wpc = "getting" /\ queue # <<>>
  /\ item' = queue[Len(queue)]
  /\ queue' = SubSeq(queue, 1, Len(queue) - 1)
  /\ wpc' = IF item' = STOP THEN "exited" ELSE "opening"
  /\ UNCHANGED <<producerVars, warned, closeVars, diskVars, now, lossVars>>

Get ==
  /\ wpc = "getting" /\ queue # <<>>
  /\ item' = Head(queue) /\ queue' = Tail(queue)
  /\ wpc' = IF item' = STOP THEN "exited" ELSE "opening"
  /\ UNCHANGED <<producerVars, warned, closeVars, diskVars, now, lossVars>>

\* A handle is closed when m of its rows are on disk: all of them, or, if the
\* flush in its close() raises, those the flush got to.  Its buffer is gone.
CloseHandle(k, m) ==
  /\ m \in flushed[k]..Len(rows[k])
  /\ rows' = [rows EXCEPT ![k] = SubSeq(@, 1, m)]
  /\ flushed' = [flushed EXCEPT ![k] = m]

\* The rows that such a close loses.
Cut(k, m) == {rows[k][i] : i \in (m + 1)..Len(rows[k])}

\* _handle_for / _ensure_file: the cached handle is used, also one that a
\* failed close left behind; or there is none, or one of another day that is
\* closed first, and the file is opened.  Nobody looks whether close() has
\* been called.
OpenHandle ==
  /\ wpc = "opening" /\ wpc' = "writing"
  /\ \/ handles[item.kind] # "none" /\ UNCHANGED diskVars
     \/ /\ CloseHandle(item.kind, Len(rows[item.kind]))
        /\ handles' = [handles EXCEPT ![item.kind] = "open"]
  /\ UNCHANGED <<queue, producerVars, item, warned, closeVars, now, lossVars>>

\* Seeded fault: a record stays in hand after its row was given to the file.
WriteRowTwice ==
  /\ wpc = "writing" /\ handles[item.kind] = "open"
  /\ rows' = [rows EXCEPT ![item.kind] = Append(@, item)]
  /\ wpc' \in {"writing", "flushing"}
  /\ UNCHANGED <<queue, producerVars, item, warned, closeVars, handles, flushed,
                 now, lossVars>>

\* handle.write(): the row is in the buffer.
WriteRow ==
  /\ wpc = "writing" /\ handles[item.kind] = "open"
  /\ rows' = [rows EXCEPT ![item.kind] = Append(@, item)]
  /\ wpc' = "flushing"
  /\ UNCHANGED <<queue, producerVars, item, warned, closeVars, handles, flushed,
                 now, lossVars>>

\* handle.flush(): the buffer is on disk, with what an earlier flush left.
FlushRow ==
  /\ wpc = "flushing" /\ handles[item.kind] = "open"
  /\ flushed' = [flushed EXCEPT ![item.kind] = Len(rows[item.kind])]
  /\ wpc' = "checking"
  /\ UNCHANGED <<queue, producerVars, item, warned, closeVars, handles, rows,
                 now, lossVars>>

\* Seeded fault: the exception is not caught and ends the thread.
FlushFailsFatally ==
  /\ wpc = "flushing" /\ wpc' = "exited"
  /\ \E m \in flushed[item.kind]..Len(rows[item.kind]) :
       flushed' = [flushed EXCEPT ![item.kind] = m]
  /\ failed' = failed \cup {item}
  /\ UNCHANGED <<queue, producerVars, item, warned, closeVars, handles, rows,
                 now, lost>>

\* The flush raised: a full disk, or close() has taken the handle away.  The
\* record counts as failed, but what is in the buffer stays there.
FlushFails ==
  /\ wpc = "flushing" /\ wpc' = "checking"
  /\ \E m \in flushed[item.kind]..Len(rows[item.kind]) :
       flushed' = [flushed EXCEPT ![item.kind] = m]
  /\ failed' = failed \cup {item}
  /\ UNCHANGED <<queue, producerVars, item, warned, closeVars, handles, rows,
                 now, lost>>

\* Opening raised, perhaps after the handle of another day was closed or in
\* closing it; or the write did, on a closed handle or a full buffer.  The
\* record is not in the file's buffer and never will be.
WriteFails ==
  /\ wpc \in {"opening", "writing"} /\ wpc' = "checking"
  /\ failed' = failed \cup {item}
  /\ \/ UNCHANGED diskVars /\ lost' = lost \cup {item}
     \/ /\ wpc = "opening" /\ handles[item.kind] = "open"
        /\ handles' = [handles EXCEPT ![item.kind] = "closed"]
        /\ \E m \in 0..Len(rows[item.kind]) :
             /\ CloseHandle(item.kind, m)
             /\ lost' = lost \cup {item} \cup Cut(item.kind, m)
  /\ UNCHANGED <<queue, producerVars, item, warned, closeVars, now>>

\* `if self._queue.empty()', then the reset: two steps.
CheckEmpty ==
  /\ wpc = "checking"
  /\ wpc' = IF queue = <<>> THEN "resetting" ELSE "getting"
  /\ UNCHANGED <<queue, producerVars, item, warned, closeVars, diskVars, now,
                 lossVars>>

ResetWarned ==
  /\ wpc = "resetting" /\ wpc' = "getting"
  /\ warned' = FALSE
  /\ UNCHANGED <<queue, producerVars, item, closeVars, diskVars, now, lossVars>>

-----------------------------------------------------------------------------
(* close(), on the main thread.                                            *)

CloseBegins ==
  /\ cpc = "open" /\ ppc[Main] = "idle"
  /\ cpc' = "putting"
  /\ UNCHANGED <<queue, producerVars, wpc, item, warned, mark, joined, diskVars,
                 now, lossVars>>

\* Seeded fault: the sentinel overtakes what is queued.
PutStopFirst ==
  /\ cpc = "putting" /\ Len(queue) < MaxQueue
  /\ queue' = <<STOP>> \o queue
  /\ mark' = offered /\ cpc' = "joining"
  /\ UNCHANGED <<producerVars, wpc, item, warned, joined, diskVars, now,
                 lossVars>>

\* Seeded fault: the sentinel ignores the bound.
PutStopUnbounded ==
  /\ cpc = "putting"
  /\ queue' = Append(queue, STOP)
  /\ mark' = offered /\ cpc' = "joining"
  /\ UNCHANGED <<producerVars, wpc, item, warned, joined, diskVars, now,
                 lossVars>>

\* put(_STOP) without a timeout: waits for a free slot.
PutStop ==
  /\ cpc = "putting" /\ Len(queue) < MaxQueue
  /\ queue' = Append(queue, STOP)
  /\ mark' = offered /\ cpc' = "joining"
  /\ UNCHANGED <<producerVars, wpc, item, warned, joined, diskVars, now,
                 lossVars>>

JoinReturns ==
  /\ cpc = "joining" /\ wpc = "exited"
  /\ cpc' = "closingSentences" /\ joined' = TRUE
  /\ UNCHANGED <<queue, producerVars, wpc, item, warned, mark, diskVars, now,
                 lossVars>>

JoinTimesOut ==
  /\ cpc = "joining" /\ wpc # "exited"
  /\ cpc' = "closingSentences"
  /\ UNCHANGED <<queue, producerVars, wpc, item, warned, mark, joined, diskVars,
                 now, lossVars>>

\* The writers are closed one after the other, from the main thread, whether
\* or not the background thread has ended: those of the sentences, then that
\* of the snapshots.
ClosesNow(k) == cpc = IF k = "sentence" THEN "closingSentences"
                      ELSE "closingSnapshots"

CloseWriter(k) ==
  /\ ClosesNow(k)
  /\ CloseHandle(k, Len(rows[k]))
  /\ handles' = [handles EXCEPT ![k] = "none"]
  /\ cpc' = IF k = "sentence" THEN "closingSnapshots" ELSE "closed"
  /\ UNCHANGED <<queue, producerVars, wpc, item, warned, mark, joined, now,
                 lossVars>>

\* A writer's close() raises: the flush of what is in the buffer fails (the
\* closed handle stays cached), or the background thread has added a raw
\* file while they are gone through.  close() raises; the writers after this
\* one stay open.
CloseWriterFails(k) ==
  /\ ClosesNow(k) /\ cpc' = "raised"
  /\ \/ /\ handles[k] = "open"
        /\ handles' = [handles EXCEPT ![k] = "closed"]
        /\ \E m \in 0..(Len(rows[k]) - 1) :
             CloseHandle(k, m) /\ lost' = lost \cup Cut(k, m)
     \/ k = "sentence" /\ wpc # "exited" /\ UNCHANGED <<diskVars, lost>>
  /\ UNCHANGED <<queue, producerVars, wpc, item, warned, mark, joined, now,
                 failed>>

Tick ==
  /\ now < MaxTime
  /\ now' = now + 1
  /\ UNCHANGED <<queue, producerVars, wpc, item, warned, closeVars, diskVars,
                 lossVars>>

-----------------------------------------------------------------------------
Produce == \/ \E r \in Receivers : OnSentence(r) \/ RecordSnapshot(r)
           \/ \E p \in Thread : TestWarned(p) \/ Warn(p)

Disk == OpenHandle \/ WriteRow \/ FlushRow \/ FlushFails \/ WriteFails

Background == Get \/ CheckEmpty \/ ResetWarned

Close == \/ PutStop \/ JoinReturns \/ JoinTimesOut
         \/ \E k \in Kind : CloseWriter(k) \/ CloseWriterFails(k)

Next == Produce \/ Background \/ Disk \/ CloseBegins \/ Close \/ Tick

Spec == Init /\ [][Next]_vars

(***************************************************************************)
(* The threads keep being scheduled.  StalledDiskSpec assumes nothing of   *)
(* the disk: a write may never return.  FairSpec adds that every write     *)
(* eventually returns or fails.                                            *)
(***************************************************************************)
StalledDiskSpec == Spec /\ WF_vars(Background) /\ WF_vars(Close)

FairSpec == StalledDiskSpec /\ WF_vars(Disk)

-----------------------------------------------------------------------------
Optional(S) == S \cup {None}

Elements(s) == {s[i] : i \in DOMAIN s}

TypeOK ==
  /\ queue \in Seq(Record \cup {STOP}) /\ Len(queue) <= MaxQueue
  /\ warned \in BOOLEAN
  /\ lastSnap \in [Receivers -> Optional(Nat)]
  /\ ppc \in [Thread -> {"idle", "full", "warn"}]
  /\ wpc \in {"getting", "opening", "writing", "flushing", "checking",
              "resetting", "exited"}
  /\ item \in Optional(Record \cup {STOP})
  /\ handles \in [Kind -> {"none", "open", "closed"}]
  /\ rows \in [Kind -> Seq(Record)] /\ flushed \in [Kind -> Nat]
  /\ cpc \in {"open", "putting", "joining", "closingSentences",
              "closingSnapshots", "closed", "raised"}
  /\ now \in Nat
  /\ offered \in [Kind -> [Receivers -> Nat]]
  /\ failed \subseteq Record /\ lost \subseteq Record
  /\ mark \in Optional([Kind -> [Receivers -> Nat]])
  /\ joined \in BOOLEAN

\* The rows of a file that are on disk, and those in the handle's buffer.
OnDisk(k)   == {rows[k][i] : i \in 1..flushed[k]}
Buffered(k) == Cut(k, flushed[k])

\* The rows of one receiver and kind are in its file in the order the
\* receiver produced them, none twice, whatever was dropped in between and
\* however late a row left the buffer (one FIFO queue, one writer thread).
WrittenInOrder ==
  \A k \in Kind : \A i, j \in 1..flushed[k] :
    i < j /\ rows[k][i].rx = rows[k][j].rx => rows[k][i].n < rows[k][j].n

\* Every record ever offered is in exactly one place: queued, in the hands of
\* the background thread, given to its file, or lost.  One that is lost, or
\* in a buffer that may be, is known to have failed (or is being flushed):
\* a close() on the main thread in the middle of a write included.
Held == IF wpc \in {"opening", "writing"} THEN {item} ELSE {}

Flushing == IF wpc = "flushing" THEN {item} ELSE {}

Places == <<Elements(queue) \ {STOP}, Held, Elements(rows["sentence"]),
            Elements(rows["snapshot"]), lost>>

NothingVanishes ==
  /\ \A k \in Kind, r \in Receivers : \A n \in 1..offered[k][r] :
       \E i \in DOMAIN Places : \E rec \in Places[i] :
         rec.kind = k /\ rec.rx = r /\ rec.n = n
  /\ \A i, j \in DOMAIN Places : i # j => Places[i] \cap Places[j] = {}
  /\ lost \subseteq failed \cup Flushing
  /\ \A k \in Kind : Buffered(k) \subseteq failed \cup Flushing

\* Snapshot rows of one receiver are never closer than the interval, however
\* often the render loop runs.
SnapshotsSpaced ==
  \A i, j \in 1..flushed["snapshot"] :
    LET a == rows["snapshot"][i]  b == rows["snapshot"][j]
    IN  i < j /\ a.rx = b.rx => b.t - a.t >= Interval

\* When close() saw the background thread end and returned, what was offered
\* before the sentinel has left the queue and every buffer: it is on disk, or
\* known to have failed.
CleanCloseFlushes ==
  cpc = "closed" /\ joined =>
    /\ \A rec \in Elements(queue) : rec.n > mark[rec.kind][rec.rx]
    /\ \A k \in Kind : Buffered(k) = {}
    /\ lost \subseteq failed

\* The queue, the record in hand and the files are the lossy FIFO of Archive;
\* the sentinel is an entry of the backlog like any other, with no file.
Backlog == IF wpc \in {"opening", "writing"} THEN <<item>> \o queue ELSE queue

Log == INSTANCE Archive
         WITH backlog <- Backlog, durable <- flushed,
              Entry <- Record \cup {STOP}, File <- Kind,
              FileOf <- [rec \in Record |-> rec.kind], Capacity <- MaxQueue + 1
ArchiveSpec == Log!ArchiveSpec

\* close() comes to an end (put(_STOP) finds a slot, the join ends or times
\* out, the writers are closed) once the workers offer nothing more: it
\* returns, or it raises.  Workers that keep the queue full would keep put()
\* waiting; LiveController stops them first.
Quiet == \A r \in Receivers : offered["sentence"][r] = MaxLines

CloseEnds == cpc = "putting" /\ Quiet ~> cpc \in {"closed", "raised"}

\* A record that was queued is on disk one day, or known to have failed.
EveryRecordLeaves ==
  \A r \in Receivers : \A n \in 1..MaxLines :
    (\E rec \in Elements(queue) : rec # STOP /\ rec.kind = "sentence"
        /\ rec.rx = r /\ rec.n = n) /\ mark = None
    ~> (\E rec \in OnDisk("sentence") \cup failed : rec.kind = "sentence"
        /\ rec.rx = r /\ rec.n = n)

\* "its own public methods never raise" (logger.py:5-7).
CloseNeverRaises == cpc # "raised"

\* After close() no file of the archive is open.
ClosedStaysClosed ==
  cpc = "closed" => \A k \in Kind : handles[k] # "open"

-----------------------------------------------------------------------------
(* Why the invariants hold: the rows given to a file, then the backlog,    *)
(* are the records in the order they were offered, some left out.          *)

SameSource(a, b) == a.kind = b.kind /\ a.rx = b.rx

\* Record a was offered before b, if of the same source, and its row is far
\* enough from that of b.
Older(a, b) ==
  a # STOP /\ b # STOP /\ SameSource(a, b) =>
    /\ a.n < b.n
    /\ a.kind = "snapshot" => b.t - a.t >= Interval

\* Record a has been offered, and has taken its snapshot slot.
Known(a) ==
  a # STOP =>
    /\ a.n <= offered[a.kind][a.rx]
    /\ a.kind = "snapshot" => lastSnap[a.rx] # None /\ a.t <= lastSnap[a.rx]

RowsKnown(k) ==
  /\ \A i \in DOMAIN rows[k] : Known(rows[k][i]) /\ rows[k][i].kind = k
  /\ \A i, j \in DOMAIN rows[k] : i < j => Older(rows[k][i], rows[k][j])
  /\ \A i \in DOMAIN rows[k], j \in DOMAIN Backlog :
       Older(rows[k][i], Backlog[j])

OrderKnown ==
  /\ \A k \in Kind : RowsKnown(k)
  /\ \A i \in DOMAIN Backlog : Known(Backlog[i])
  /\ \A i, j \in DOMAIN Backlog : i < j => Older(Backlog[i], Backlog[j])

\* Record a was offered after the sentinel was queued.
Late(a) == a # STOP /\ a.n > mark[a.kind][a.rx]

\* The one sentinel is what ends the background thread, and until then it is
\* in the backlog, before all that is late.
StopKnown ==
  /\ mark = None <=> cpc \in {"open", "putting"}
  /\ joined => wpc = "exited"
  /\ mark = None =>
       wpc # "exited" /\ \A i \in DOMAIN Backlog : Backlog[i] # STOP
  /\ mark # None =>
       \A kind \in Kind, r \in Receivers : mark[kind][r] <= offered[kind][r]
  /\ mark # None /\ wpc # "exited" =>
       \E s \in DOMAIN Backlog :
         /\ \A i \in DOMAIN Backlog : Backlog[i] = STOP <=> i = s
         /\ \A i \in DOMAIN Backlog : i > s => Late(Backlog[i])
  /\ wpc = "exited" => \A i \in DOMAIN Backlog : Late(Backlog[i])

\* What the background thread opens a file for, writes or flushes is a record.
HeldKnown == wpc \in {"opening", "writing", "flushing"} => item \in Record

\* Only an open handle has a buffer; one that close() has come past is not
\* open unless the background thread runs on.
HandlesKnown ==
  /\ \A k \in Kind : flushed[k] <= Len(rows[k])
  /\ \A k \in Kind : handles[k] # "open" => flushed[k] = Len(rows[k])
  /\ joined /\ cpc \in {"closingSnapshots", "closed"} =>
       handles["sentence"] # "open"
  /\ joined /\ cpc = "closed" => handles["snapshot"] # "open"

\* What may miss the disk is known to have failed, or is being flushed; what
\* is being flushed through an open handle has not been lost.
FailedKnown ==
  /\ lost \subseteq failed \cup Flushing
  /\ \A k \in Kind : Buffered(k) \subseteq failed \cup Flushing
  /\ wpc = "flushing" /\ handles[item.kind] = "open" =>
       item \in Elements(rows[item.kind])

\* A record is lost once and for all.
Given == UNION {Elements(rows[k]) : k \in Kind}

LostKnown ==
  \A a \in lost : /\ a.n <= offered[a.kind][a.rx]
                  /\ a \notin Given /\ a \notin Elements(Backlog)

\* Every record that was offered is somewhere.
Conserved ==
  \A k \in Kind, r \in Receivers : \A n \in 1..offered[k][r] :
    \E a \in Given \cup Elements(Backlog) \cup lost :
      a # STOP /\ a.kind = k /\ a.rx = r /\ a.n = n

Inductive ==
  /\ TypeOK /\ HeldKnown
  /\ OrderKnown /\ StopKnown
  /\ HandlesKnown /\ FailedKnown
  /\ LostKnown /\ Conserved
=============================================================================
