---------------------------- MODULE DailyWriters -----------------------------
(***************************************************************************)
(* The file writers of the data logger (data_logging/writers.py): which    *)
(* day's file is open, when a row is on disk, and what a failing disk, a   *)
(* close() in the middle of a write, a crash and a restart leave behind.   *)
(* A writer is one cached handle: that of one receiver in RawNmeaWriter,   *)
(* or the one of a _DailyCsvWriter.                                        *)
(*                                                                         *)
(* A handle has a buffer.  flush() hands it to the system; one that fails  *)
(* keeps it, close() flushes it or drops it, a crash of the process loses  *)
(* it.  `disk' is what the system has been given, which outlives the       *)
(* process, and not the power: nothing is ever fsynced (PowerLoss).  A row *)
(* is written whole or not at all.                                         *)
(***************************************************************************)
EXTENDS Naturals, Sequences, FiniteSets

CONSTANTS
  Writers,     \* the handles, each with the files it writes
  Csv,         \* those of _DailyCsvWriter, whose files begin with a header
  Days,        \* the UTC days records are stamped with
  None,        \* the absent value
  MaxRecords,  \* bound: records written
  MaxFailures, \* bound: failures of the disk
  MaxCrashes   \* bound: ends of the process that are followed by a start

\* What a row is: the header, or a record with its day and number.
Header == [day |-> None, n |-> 0]
Row == [day : Days, n : Nat]
Entry == Row \cup {Header}

\* The only day of a file that is not rotated.
Always == 0

ASSUME WritersAssumption ==
  /\ Csv \subseteq Writers
  /\ Days \subseteq Nat \ {Always}
  /\ None \notin Nat
  /\ MaxRecords \in Nat /\ MaxFailures \in Nat /\ MaxCrashes \in Nat

Files == Days \cup {Always}

VARIABLES
  rotate,   \* rotate_daily
  pc,       \* where the background thread is in write()
  writer,   \* the writer it is in
  item,     \* the record it writes
  file,     \* per writer, the day of the file its handle is on, or None
            \* for no handle
  closed,   \* per writer, the handle it has is a closed one
  key,      \* per writer, the day_key it has noted
  buffer,   \* per writer, the rows its handle has not flushed
  disk,     \* per writer and day, the rows in the file
  exists,   \* per writer, the days whose file has been created
  acked,    \* history: per writer, the records whose write() returned
  failed,   \* history: per writer, the records whose write() raised
  count,    \* records so far
  failures, \* failures so far
  crashes,  \* ends of the process so far
  shut      \* the writers this process has closed, or never will

handleVars  == <<file, closed, key, buffer>>
diskVars    == <<disk, exists>>
historyVars == <<acked, failed>>
boundVars   == <<count, failures, crashes, shut>>
vars == <<rotate, pc, writer, item, handleVars, diskVars, historyVars, boundVars>>

Init ==
  /\ rotate \in BOOLEAN
  /\ pc = "idle" /\ writer \in Writers /\ item = Header
  /\ file = [w \in Writers |-> None] /\ closed = [w \in Writers |-> FALSE]
  /\ key = [w \in Writers |-> None] /\ buffer = [w \in Writers |-> <<>>]
  /\ disk = [w \in Writers |-> [d \in Files |-> <<>>]]
  /\ exists = [w \in Writers |-> {}]
  /\ acked = [w \in Writers |-> {}] /\ failed = [w \in Writers |-> {}]
  /\ count = 0 /\ failures = 0 /\ crashes = 0 /\ shut = {}

\* _day_key(t_wall, rotate_daily).
DayKey(row) == IF rotate THEN row.day ELSE Always

-----------------------------------------------------------------------------
(* write(), _ensure_file and _handle_for.  The threads that stamp records  *)
(* are not the one that queues them first: days may alternate.             *)

Write ==
  /\ pc = "idle" /\ count < MaxRecords
  /\ \E w \in Writers, d \in Days :
       /\ writer' = w
       /\ item' = [day |-> d, n |-> count + 1]
  /\ count' = count + 1 /\ pc' = "ensuring"
  /\ UNCHANGED <<rotate, handleVars, diskVars, historyVars, failures, crashes,
                 shut>>

\* The cached handle is used when the day is the one noted with it.
Cached == file[writer] # None /\ key[writer] = DayKey(item)

\* Seeded fault: a handle once open stays in use.
EnsureAnyDay ==
  /\ pc = "ensuring"
  /\ pc' = IF file[writer] # None THEN "writing" ELSE "opening"
  /\ UNCHANGED <<rotate, writer, item, handleVars, diskVars, historyVars,
                 boundVars>>

Ensure ==
  /\ pc = "ensuring"
  /\ pc' = IF Cached THEN "writing"
           ELSE IF file[writer] # None THEN "closing" ELSE "opening"
  /\ UNCHANGED <<rotate, writer, item, handleVars, diskVars, historyVars,
                 boundVars>>

\* What the buffer of writer w leaves on disk when it is flushed.
Flushed(w) ==
  IF file[w] = None \/ closed[w] THEN disk
  ELSE [disk EXCEPT ![w][file[w]] = @ \o buffer[w]]

\* The writer has a handle and it is not a closed one.
Usable == file[writer] # None /\ ~closed[writer]

\* A CSV writer looks its handle up again for every call; a raw one has it.
HandleGone == writer \in Csv /\ file[writer] = None

\* The old day's file is closed first; a closed one stays closed.
CloseOld ==
  /\ pc = "closing" /\ ~HandleGone /\ pc' = "opening"
  /\ disk' = Flushed(writer)
  /\ buffer' = [buffer EXCEPT ![writer] = <<>>]
  /\ closed' = [closed EXCEPT ![writer] = TRUE]
  /\ UNCHANGED <<rotate, writer, item, file, key, exists, historyVars, boundVars>>

\* Seeded fault: the header is written whenever the file is opened.
OpenWithHeader ==
  /\ pc = "opening"
  /\ file' = [file EXCEPT ![writer] = DayKey(item)]
  /\ closed' = [closed EXCEPT ![writer] = FALSE]
  /\ buffer' = [buffer EXCEPT ![writer] = <<>>]
  /\ exists' = [exists EXCEPT ![writer] = @ \cup {DayKey(item)}]
  /\ pc' = IF writer \in Csv THEN "header" ELSE "writing"
  /\ key' = IF pc' = "header" THEN key
            ELSE [key EXCEPT ![writer] = DayKey(item)]
  /\ UNCHANGED <<rotate, writer, item, disk, historyVars, boundVars>>

\* The new file is opened for appending, and created if it is not there.
\* The handle of a raw file is noted with its day; a CSV writer notes the
\* handle now and the day after the header, which only a new file gets.
Open ==
  /\ pc = "opening"
  /\ file' = [file EXCEPT ![writer] = DayKey(item)]
  /\ closed' = [closed EXCEPT ![writer] = FALSE]
  /\ buffer' = [buffer EXCEPT ![writer] = <<>>]
  /\ exists' = [exists EXCEPT ![writer] = @ \cup {DayKey(item)}]
  /\ pc' = IF writer \in Csv /\ DayKey(item) \notin exists[writer]
           THEN "header" ELSE "writing"
  /\ key' = IF pc' = "header" THEN key
            ELSE [key EXCEPT ![writer] = DayKey(item)]
  /\ UNCHANGED <<rotate, writer, item, disk, historyVars, boundVars>>

WriteHeader ==
  /\ pc = "header" /\ Usable /\ pc' = "flushingHeader"
  /\ buffer' = [buffer EXCEPT ![writer] = Append(@, Header)]
  /\ UNCHANGED <<rotate, writer, item, file, closed, key, diskVars,
                 historyVars, boundVars>>

FlushHeader ==
  /\ pc = "flushingHeader" /\ Usable /\ pc' = "writing"
  /\ disk' = Flushed(writer)
  /\ buffer' = [buffer EXCEPT ![writer] = <<>>]
  /\ key' = [key EXCEPT ![writer] = DayKey(item)]
  /\ UNCHANGED <<rotate, writer, item, file, closed, exists, historyVars,
                 boundVars>>

\* Seeded fault: rows are left to the buffer.
WriteRowUnflushed ==
  /\ pc = "writing" /\ Usable /\ pc' = "idle"
  /\ buffer' = [buffer EXCEPT ![writer] = Append(@, item)]
  /\ acked' = [acked EXCEPT ![writer] = @ \cup {item}]
  /\ UNCHANGED <<rotate, writer, item, file, closed, key, diskVars, failed,
                 boundVars>>

WriteRow ==
  /\ pc = "writing" /\ Usable /\ pc' = "flushing"
  /\ buffer' = [buffer EXCEPT ![writer] = Append(@, item)]
  /\ UNCHANGED <<rotate, writer, item, file, closed, key, diskVars,
                 historyVars, boundVars>>

FlushRow ==
  /\ pc = "flushing" /\ Usable /\ pc' = "idle"
  /\ disk' = Flushed(writer)
  /\ buffer' = [buffer EXCEPT ![writer] = <<>>]
  /\ acked' = [acked EXCEPT ![writer] = @ \cup {item}]
  /\ UNCHANGED <<rotate, writer, item, file, closed, key, exists, failed,
                 boundVars>>

-----------------------------------------------------------------------------
(* The exceptions, all caught by the background thread's loop.             *)

Raise == /\ pc' = "idle"
         /\ failed' = [failed EXCEPT ![writer] = @ \cup {item}]
         /\ UNCHANGED <<rotate, writer, item, acked, count, crashes, shut>>

DiskFails == failures < MaxFailures /\ failures' = failures + 1

\* A close() whose flush fails has closed the handle and lost the buffer.
CloseOldFails ==
  /\ pc = "closing" /\ Usable /\ buffer[writer] # <<>>
  /\ DiskFails /\ Raise
  /\ buffer' = [buffer EXCEPT ![writer] = <<>>]
  /\ closed' = [closed EXCEPT ![writer] = TRUE]
  /\ UNCHANGED <<file, key, diskVars>>

\* Where a call may fail because the disk does.
MayFail == pc = "opening" \/ (pc \in {"flushingHeader", "flushing"} /\ Usable)

\* Seeded fault: a record whose write raised is tried again.
StepFailsRetried ==
  /\ MayFail
  /\ DiskFails /\ pc' = "ensuring"
  /\ UNCHANGED <<rotate, writer, item, handleVars, diskVars, historyVars,
                 count, crashes, shut>>

\* mkdir or open raised, or a flush, whose buffer stays.
StepFails ==
  /\ MayFail
  /\ DiskFails /\ Raise
  /\ UNCHANGED <<handleVars, diskVars>>

\* ValueError: the handle is a closed one.  AttributeError: close() took it
\* away since it was looked up.
WriteToClosed ==
  /\ \/ pc \in {"header", "flushingHeader", "writing", "flushing"} /\ ~Usable
     \/ pc = "closing" /\ HandleGone
  /\ Raise
  /\ UNCHANGED <<failures, handleVars, diskVars>>

-----------------------------------------------------------------------------
(* close() of the data logger, by the main thread: when the background     *)
(* thread has ended, or, if the join timed out, wherever it is.  Records   *)
(* that are written later open their files again.                          *)

\* A writer's close() flushes and forgets its handle, in one step.  (The
\* handles of the raw files are only forgotten when all were closed.)
CloseWriter(w) ==
  /\ w \notin shut /\ shut' = shut \cup {w}
  /\ disk' = Flushed(w)
  /\ buffer' = [buffer EXCEPT ![w] = <<>>]
  /\ \/ /\ file' = [file EXCEPT ![w] = None]
        /\ closed' = [closed EXCEPT ![w] = FALSE]
     \/ /\ w \notin Csv /\ Writers \ Csv # {w} /\ file[w] # None
        /\ closed' = [closed EXCEPT ![w] = TRUE]
        /\ UNCHANGED file
  /\ UNCHANGED <<rotate, pc, writer, item, key, exists, historyVars, count,
                 failures, crashes>>

\* It cannot flush what a failed flush has left there: it raises, with the
\* handle closed and not forgotten, and the writers after it stay open.
CloseWriterFails(w) ==
  /\ w \notin shut /\ shut' = Writers
  /\ file[w] # None /\ ~closed[w] /\ buffer[w] # <<>>
  /\ DiskFails
  /\ buffer' = [buffer EXCEPT ![w] = <<>>]
  /\ closed' = [closed EXCEPT ![w] = TRUE]
  /\ UNCHANGED <<rotate, pc, writer, item, file, key, diskVars, historyVars,
                 count, crashes>>

-----------------------------------------------------------------------------
(* The end of the process.                                                 *)

\* The new process starts with fresh writers.
Restart ==
  /\ crashes < MaxCrashes /\ crashes' = crashes + 1
  /\ pc' = "idle" /\ shut' = {}
  /\ file' = [w \in Writers |-> None] /\ closed' = [w \in Writers |-> FALSE]
  /\ key' = [w \in Writers |-> None] /\ buffer' = [w \in Writers |-> <<>>]
  /\ UNCHANGED <<rotate, writer, item, historyVars, count, failures>>

\* The process crashes, is killed or exits, at any point of a write, and
\* with it the daemon thread.  A buffer is lost, unless an interpreter that
\* exits still flushes it.
Crash ==
  /\ \E kept \in SUBSET {w \in Writers : buffer[w] # <<>>} :
       disk' = [w \in Writers |-> IF w \in kept THEN Flushed(w)[w] ELSE disk[w]]
  /\ Restart /\ UNCHANGED exists

\* The machine loses its power: of some file the last rows are gone that
\* were flushed, but never fsynced.
PowerLoss ==
  /\ \E w \in Writers : \E d \in Files : \E n \in 0..Len(disk[w][d]) :
       disk' = [disk EXCEPT ![w][d] = SubSeq(@, 1, n)]
  /\ Restart /\ UNCHANGED exists

Step == \/ Ensure \/ CloseOld \/ Open \/ WriteHeader \/ FlushHeader
        \/ WriteRow \/ FlushRow

Next == \/ Write \/ Step
        \/ CloseOldFails \/ StepFails \/ WriteToClosed
        \/ \E w \in Writers : CloseWriter(w) \/ CloseWriterFails(w)
        \/ Crash

Spec == Init /\ [][Next]_vars

\* The same where the power may fail.
PowerSpec == Init /\ [][Next \/ PowerLoss]_vars

-----------------------------------------------------------------------------
PC == {"idle", "ensuring", "closing", "opening", "header", "flushingHeader",
       "writing", "flushing"}

TypeOK ==
  /\ rotate \in BOOLEAN /\ pc \in PC
  /\ writer \in Writers /\ item \in Entry
  /\ file \in [Writers -> Files \cup {None}]
  /\ closed \in [Writers -> BOOLEAN]
  /\ key \in [Writers -> Files \cup {None}]
  /\ buffer \in [Writers -> Seq(Entry)]
  /\ disk \in [Writers -> [Files -> Seq(Entry)]]
  /\ exists \in [Writers -> SUBSET Files]
  /\ acked \in [Writers -> SUBSET Row] /\ failed \in [Writers -> SUBSET Row]
  /\ count \in Nat /\ failures \in Nat /\ crashes \in Nat
  /\ shut \subseteq Writers
  /\ pc # "idle" => item \in Row

\* A record whose write() returned is in a file of its writer, whatever
\* crash or end of the process, restart, close(), rotation or failure came
\* later (a flush after every row).  The module's docstring has it of a
\* power loss too, for which it does not hold: see PowerSpec.
AckedIsDurable ==
  \A w \in Writers : \A rec \in acked[w] :
    \E d \in Files : \E i \in DOMAIN disk[w][d] : disk[w][d][i] = rec

\* No record is written twice, in one file or in two, though a failed flush
\* leaves it in the buffer and is reported as a loss.
NoRowTwice ==
  \A w \in Writers : \A d, e \in Files :
    \A i \in DOMAIN disk[w][d], j \in DOMAIN disk[w][e] :
      disk[w][d][i] = disk[w][e][j] /\ disk[w][d][i] # Header
        => d = e /\ i = j

\* A header is the first row of a CSV file or nowhere, over any number of
\* restarts and returns to a day (is_new before the open).
HeaderOnlyFirst ==
  \A w \in Writers : \A d \in Files : \A i \in DOMAIN disk[w][d] :
    disk[w][d][i] = Header => w \in Csv /\ i = 1

\* A record is in its own day's file: always for the raw files, and for a
\* CSV file unless writing a header failed (_ensure_file notes the day last).
FiledByDay(w) ==
  \A d \in Files : \A i \in DOMAIN disk[w][d] :
    disk[w][d][i] # Header => DayKey(disk[w][d][i]) = d

RowsFiledByDay ==
  \A w \in Writers : w \notin Csv \/ failures = 0 => FiledByDay(w)

\* "the day it actually happened", for every row and every writer.
EveryRowFiledByDay == \A w \in Writers : FiledByDay(w)

-----------------------------------------------------------------------------
(* Why the four invariants hold.                                           *)

\* What write() knows at its place.
AtHeader == pc \in {"header", "flushingHeader"}
AtRow    == pc \in {"writing", "flushing"}

PlaceKnown ==
  /\ AtHeader => writer \in Csv
  /\ AtHeader /\ failures = 0 /\ file[writer] # None => ~closed[writer]
  /\ pc = "flushing" /\ Usable =>
       \E i \in DOMAIN buffer[writer] : buffer[writer][i] = item

\* A header is only on its way to a file that is still empty: one that the
\* writer has not found there.
HeaderKnown ==
  /\ \A w \in Writers : \A d \in Files \ exists[w] : disk[w][d] = <<>>
  /\ \A w \in Writers : file[w] # None => file[w] \in exists[w]
  /\ \A w \in Writers : \A i \in DOMAIN buffer[w] :
       buffer[w][i] = Header =>
         w \in Csv /\ i = 1 /\ file[w] # None /\ disk[w][file[w]] = <<>>
  /\ pc = "header" /\ Usable =>
       buffer[writer] = <<>> /\ disk[writer][file[writer]] = <<>>

\* The record being written is newer than all that were, until it is in the
\* buffer; and none is both in the buffer and on disk.
NumbersKnown ==
  LET most == IF pc \in {"idle", "flushing"} THEN count ELSE count - 1
  IN  /\ pc # "idle" => item.n = count /\ count > 0
      /\ \A w \in Writers : \A i \in DOMAIN buffer[w] : buffer[w][i].n <= most
      /\ \A w \in Writers : \A d \in Files : \A i \in DOMAIN disk[w][d] :
           disk[w][d][i].n <= most

BufferOnce ==
  \A w \in Writers : \A i \in DOMAIN buffer[w] :
    buffer[w][i] # Header =>
      /\ \A j \in DOMAIN buffer[w] : buffer[w][j] = buffer[w][i] => i = j
      /\ \A d \in Files : \A j \in DOMAIN disk[w][d] :
           disk[w][d][j] # buffer[w][i]

\* The handle's day is the one noted with it, and that of its buffer.
DayKnown ==
  \A w \in Writers : w \notin Csv \/ failures = 0 =>
    /\ FiledByDay(w)
    /\ \A i \in DOMAIN buffer[w] :
         buffer[w][i] # Header => DayKey(buffer[w][i]) = file[w]
    /\ file[w] # None /\ writer = w /\ (AtHeader \/ AtRow) =>
         file[w] = DayKey(item)
    /\ file[w] # None /\ key[w] # None /\ ~(writer = w /\ AtHeader) =>
         key[w] = file[w]

Inductive ==
  /\ TypeOK /\ PlaceKnown
  /\ AckedIsDurable
  /\ HeaderOnlyFirst /\ HeaderKnown
  /\ NumbersKnown /\ NoRowTwice /\ BufferOnce
  /\ DayKnown
=============================================================================
