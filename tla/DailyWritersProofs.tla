-------------------------- MODULE DailyWritersProofs --------------------------
(***************************************************************************)
(* Proofs about DailyWriters, for every set of writers, days and records   *)
(* and any number of failures, crashes and restarts: type correctness and  *)
(* the four invariants of the log files.                                   *)
(***************************************************************************)
EXTENDS DailyWriters, Integers, TLAPS

-----------------------------------------------------------------------------
(* Types of rows and files.                                                *)

\* None is no day, a header is no record, and a record's day is a file's.
LEMMA Rows ==
  /\ None \notin Files
  /\ Header \in Entry /\ Header \notin Row
  /\ \A row \in Row : row \in Entry /\ DayKey(row) \in Files
<1>1. None \notin Files
  <2>1. Files \subseteq Nat
    BY WritersAssumption DEF Files, Always
  <2> QED
    BY <2>1, WritersAssumption
<1>2. Header \in Entry /\ Header \notin Row
  BY WritersAssumption DEF Header, Row, Entry
<1>3. ASSUME NEW row \in Row
      PROVE  row \in Entry /\ DayKey(row) \in Files
  <2>1. row.day \in Days
    BY <1>3 DEF Row
  <2> QED
    BY <2>1 DEF Entry, DayKey, Files
<1> QED
  BY <1>1, <1>2, <1>3

\* What an entry of a concatenation is an entry of.
LEMMA ConcatEntries ==
  ASSUME NEW S, NEW s \in Seq(S), NEW t \in Seq(S),
         NEW i \in DOMAIN (s \o t)
  PROVE  \/ i \in DOMAIN s /\ (s \o t)[i] = s[i]
         \/ i - Len(s) \in DOMAIN t /\ i \notin DOMAIN s /\ (s \o t)[i] = t[i - Len(s)]
OBVIOUS

\* Both parts of a concatenation are in it.
LEMMA ConcatKeeps ==
  ASSUME NEW S, NEW s \in Seq(S), NEW t \in Seq(S)
  PROVE  /\ \A i \in DOMAIN s : i \in DOMAIN (s \o t) /\ (s \o t)[i] = s[i]
         /\ \A i \in DOMAIN t : /\ Len(s) + i \in DOMAIN (s \o t)
                               /\ (s \o t)[Len(s) + i] = t[i]
OBVIOUS

\* What a flush does to the files of the writer, and to those of no other.
LEMMA FlushedFiles ==
  ASSUME TypeOK, NEW w \in Writers
  PROVE  /\ Flushed(w) \in [Writers -> [Files -> Seq(Entry)]]
         /\ \A v \in Writers \ {w} : Flushed(w)[v] = disk[v]
         /\ file[w] = None \/ closed[w] => Flushed(w)[w] = disk[w]
         /\ file[w] # None /\ ~closed[w] =>
              Flushed(w)[w] = [disk[w] EXCEPT ![file[w]] = @ \o buffer[w]]
<1>1. CASE file[w] = None \/ closed[w]
  BY <1>1 DEF Flushed, TypeOK
<1>2. CASE file[w] # None /\ ~closed[w]
  <2>1. file[w] \in Files /\ buffer[w] \in Seq(Entry)
        /\ disk[w] \in [Files -> Seq(Entry)]
    BY <1>2 DEF TypeOK
  <2>2. disk[w][file[w]] \o buffer[w] \in Seq(Entry)
    BY <2>1
  <2>3. Flushed(w) = [disk EXCEPT ![w][file[w]] = @ \o buffer[w]]
    BY <1>2 DEF Flushed
  <2>4. disk \in [Writers -> [Files -> Seq(Entry)]]
    BY DEF TypeOK
  <2> DEFINE whole == [disk[w] EXCEPT ![file[w]] = @ \o buffer[w]]
  <2>5. whole \in [Files -> Seq(Entry)]
    BY <2>1, <2>2
  <2>6. Flushed(w) = [disk EXCEPT ![w] = whole]
    BY <2>3
  <2> HIDE DEF whole
  <2>7. /\ Flushed(w) \in [Writers -> [Files -> Seq(Entry)]]
        /\ \A v \in Writers \ {w} : Flushed(w)[v] = disk[v]
        /\ Flushed(w)[w] = whole
    BY <2>4, <2>5, <2>6
  <2> QED
    BY <1>2, <2>7 DEF whole
<1> QED
  BY <1>1, <1>2

-----------------------------------------------------------------------------
(* Type correctness.                                                       *)

LEMMA InitType == Init => TypeOK
<1> SUFFICES ASSUME Init PROVE TypeOK
  OBVIOUS
<1>1. \A w \in Writers : [d \in Files |-> <<>>] \in [Files -> Seq(Entry)]
  OBVIOUS
<1> QED
  BY <1>1, Rows DEF Init, TypeOK, PC, Files

LEMMA NextType == TypeOK /\ [Next]_vars => TypeOK'
<1> SUFFICES ASSUME TypeOK, [Next]_vars PROVE TypeOK'
  OBVIOUS
<1> USE DEF TypeOK, PC, handleVars, diskVars, historyVars, boundVars
<1>1. CASE Write
  <2>1. PICK w \in Writers, d \in Days :
          writer' = w /\ item' = [day |-> d, n |-> count + 1]
    BY <1>1 DEF Write
  <2>2. item' \in Row
    BY <2>1 DEF Row
  <2> QED
    BY <1>1, <2>1, <2>2, Rows DEF Write
<1>2. CASE Ensure
  BY <1>2 DEF Ensure
<1>3. CASE CloseOld
  <2>1. disk' \in [Writers -> [Files -> Seq(Entry)]]
    BY <1>3, FlushedFiles DEF CloseOld
  <2>2. buffer' \in [Writers -> Seq(Entry)]
    BY <1>3 DEF CloseOld
  <2>3. closed' \in [Writers -> BOOLEAN]
    BY <1>3 DEF CloseOld
  <2>4. /\ pc' = "opening" /\ pc = "closing"
        /\ UNCHANGED <<rotate, writer, item, file, key, exists, acked, failed,
                      count, failures, crashes, shut>>
    BY <1>3 DEF CloseOld
  <2> QED
    BY <2>1, <2>2, <2>3, <2>4
<1>4. CASE Open
  <2>1. DayKey(item) \in Files
    BY <1>4, Rows DEF Open
  <2> QED
    BY <1>4, <2>1 DEF Open
<1>5. CASE WriteHeader
  <2>1. Append(buffer[writer], Header) \in Seq(Entry)
    BY Rows
  <2> QED
    BY <1>5, <2>1 DEF WriteHeader
<1>6. CASE FlushHeader
  <2>1. DayKey(item) \in Files
    BY <1>6, Rows DEF FlushHeader
  <2>2. disk' \in [Writers -> [Files -> Seq(Entry)]]
    BY <1>6, FlushedFiles DEF FlushHeader
  <2>3. buffer' \in [Writers -> Seq(Entry)] /\ key' \in [Writers -> Files \cup {None}]
    BY <1>6, <2>1 DEF FlushHeader
  <2>4. /\ pc' = "writing" /\ pc = "flushingHeader"
        /\ UNCHANGED <<rotate, writer, item, file, closed, exists, acked, failed,
                      count, failures, crashes, shut>>
    BY <1>6 DEF FlushHeader
  <2> QED
    BY <2>2, <2>3, <2>4
<1>7. CASE WriteRow
  <2>1. Append(buffer[writer], item) \in Seq(Entry)
    OBVIOUS
  <2> QED
    BY <1>7, <2>1 DEF WriteRow
<1>8. CASE FlushRow
  <2>1. disk' \in [Writers -> [Files -> Seq(Entry)]]
    BY <1>8, FlushedFiles DEF FlushRow
  <2>2. item \in Row
    BY <1>8 DEF FlushRow
  <2>3. buffer' \in [Writers -> Seq(Entry)] /\ acked' \in [Writers -> SUBSET Row]
    BY <1>8, <2>2 DEF FlushRow
  <2>4. /\ pc' = "idle"
        /\ UNCHANGED <<rotate, writer, item, file, closed, key, exists, failed,
                      count, failures, crashes, shut>>
    BY <1>8 DEF FlushRow
  <2> QED
    BY <2>1, <2>3, <2>4
<1>9. CASE CloseOldFails
  BY <1>9 DEF CloseOldFails, DiskFails, Raise
<1>10. CASE StepFails
  BY <1>10 DEF StepFails, MayFail, DiskFails, Raise
<1>11. CASE WriteToClosed
  BY <1>11 DEF WriteToClosed, Raise
<1>12. ASSUME NEW w \in Writers, CloseWriter(w) PROVE TypeOK'
  <2>1. disk' \in [Writers -> [Files -> Seq(Entry)]]
    BY <1>12, FlushedFiles DEF CloseWriter
  <2>2. /\ file' \in [Writers -> Files \cup {None}]
        /\ closed' \in [Writers -> BOOLEAN]
    BY <1>12 DEF CloseWriter
  <2>3. buffer' \in [Writers -> Seq(Entry)] /\ shut' \subseteq Writers
    BY <1>12 DEF CloseWriter
  <2>4. UNCHANGED <<rotate, pc, writer, item, key, exists, acked, failed, count,
                    failures, crashes>>
    BY <1>12 DEF CloseWriter
  <2> QED
    BY <2>1, <2>2, <2>3, <2>4
<1>13. ASSUME NEW w \in Writers, CloseWriterFails(w) PROVE TypeOK'
  BY <1>13 DEF CloseWriterFails, DiskFails
<1>14. CASE Crash
  <2>1. \A w \in Writers : Flushed(w)[w] \in [Files -> Seq(Entry)]
    BY FlushedFiles
  <2>2. disk' \in [Writers -> [Files -> Seq(Entry)]]
    BY <1>14, <2>1 DEF Crash
  <2> QED
    BY <1>14, <2>2 DEF Crash, Restart
<1>15. CASE UNCHANGED vars
  BY <1>15 DEF vars
<1> QED
  BY <1>1, <1>2, <1>3, <1>4, <1>5, <1>6, <1>7, <1>8, <1>9, <1>10, <1>11,
     <1>12, <1>13, <1>14, <1>15 DEF Next, Step

\* Each writer's files are left alone by a step, or get its buffer, which is
\* then empty.
Flush(w) ==
  /\ file[w] # None /\ ~closed[w] /\ buffer'[w] = <<>>
  /\ disk'[w] = [disk[w] EXCEPT ![file[w]] = @ \o buffer[w]]

LEMMA DiskStep ==
  ASSUME TypeOK, [Next]_vars, NEW w \in Writers
  PROVE  disk'[w] = disk[w] \/ Flush(w)
<1>1. CASE CloseOld \/ FlushHeader \/ FlushRow
  <2>1. disk' = Flushed(writer) /\ buffer' = [buffer EXCEPT ![writer] = <<>>]
    BY <1>1 DEF CloseOld, FlushHeader, FlushRow
  <2>2. writer \in Writers /\ buffer \in [Writers -> Seq(Entry)]
    BY DEF TypeOK
  <2>3. CASE w = writer
    BY <2>1, <2>2, <2>3, FlushedFiles DEF Flush
  <2>4. CASE w # writer
    BY <2>1, <2>2, <2>4, FlushedFiles
  <2> QED
    BY <2>3, <2>4
<1>2. CASE Crash
  <2>1. disk'[w] \in {disk[w], Flushed(w)[w]} /\ buffer'[w] = <<>>
    BY <1>2 DEF Crash, Restart
  <2> QED
    BY <2>1, FlushedFiles DEF Flush
<1>3. ASSUME NEW v \in Writers, CloseWriter(v)
      PROVE  disk'[w] = disk[w] \/ Flush(w)
  <2>1. disk' = Flushed(v) /\ buffer' = [buffer EXCEPT ![v] = <<>>]
    BY <1>3 DEF CloseWriter
  <2>2. buffer \in [Writers -> Seq(Entry)]
    BY DEF TypeOK
  <2> QED
    BY <2>1, <2>2, FlushedFiles DEF Flush
<1>4. CASE disk' = disk
  BY <1>4
<1>5. \/ CloseOld \/ FlushHeader \/ FlushRow \/ Crash
      \/ \E v \in Writers : CloseWriter(v)
      \/ disk' = disk
  BY DEF Next, Step, vars, diskVars, handleVars, Write, Ensure, Open, WriteHeader,
         WriteRow, CloseOldFails, StepFails, WriteToClosed, CloseWriterFails
<1> QED
  BY <1>1, <1>2, <1>3, <1>4, <1>5

\* Each writer's buffer is left alone by a step, emptied, or gets the header
\* or the record that is being written; its file only changes when it is
\* empty.
LEMMA BufferStep ==
  ASSUME TypeOK, [Next]_vars, NEW w \in Writers
  PROVE  \/ buffer'[w] = <<>>
         \/ /\ file'[w] = file[w] /\ disk'[w] = disk[w]
            /\ \/ buffer'[w] = buffer[w]
               \/ /\ WriteHeader /\ w = writer
                  /\ buffer'[w] = Append(buffer[w], Header)
               \/ /\ WriteRow /\ w = writer
                  /\ buffer'[w] = Append(buffer[w], item)
<1> USE DEF diskVars, handleVars
<1>0. writer \in Writers /\ buffer \in [Writers -> Seq(Entry)]
      /\ file \in [Writers -> Files \cup {None}]
  BY DEF TypeOK
<1>1. CASE CloseOld \/ FlushHeader \/ FlushRow
  <2>1. /\ disk' = Flushed(writer) /\ buffer' = [buffer EXCEPT ![writer] = <<>>]
        /\ file' = file
    BY <1>1 DEF CloseOld, FlushHeader, FlushRow
  <2> QED
    BY <1>0, <2>1, FlushedFiles
<1>2. CASE Crash
  BY <1>2 DEF Crash, Restart
<1>3. CASE Open
  BY <1>0, <1>3 DEF Open
<1>4. CASE WriteHeader
  BY <1>0, <1>4 DEF WriteHeader
<1>5. CASE WriteRow
  BY <1>0, <1>5 DEF WriteRow
<1>6. CASE CloseOldFails
  BY <1>0, <1>6 DEF CloseOldFails
<1>7. ASSUME NEW v \in Writers, CloseWriter(v) \/ CloseWriterFails(v)
      PROVE  \/ buffer'[w] = <<>>
             \/ /\ file'[w] = file[w] /\ disk'[w] = disk[w]
                /\ buffer'[w] = buffer[w]
  <2>1. buffer' = [buffer EXCEPT ![v] = <<>>]
    BY <1>7 DEF CloseWriter, CloseWriterFails
  <2>2. CASE w = v
    BY <1>0, <2>1, <2>2
  <2>3. CASE w # v
    <3>1. disk' = Flushed(v) \/ disk' = disk
      BY <1>7 DEF CloseWriter, CloseWriterFails
    <3>2. disk'[w] = disk[w]
      <4>1. Flushed(v)[w] = disk[w]
        BY <2>3, FlushedFiles
      <4> QED BY <3>1, <4>1
    <3>3. file'[w] = file[w]
      BY <1>0, <1>7, <2>3 DEF CloseWriter, CloseWriterFails
    <3> QED
      BY <1>0, <2>1, <2>3, <3>2, <3>3
  <2> QED
    BY <2>2, <2>3
<1>8. CASE buffer' = buffer /\ file' = file /\ disk' = disk
  BY <1>8
<1>9. \/ CloseOld \/ FlushHeader \/ FlushRow \/ Crash \/ Open
      \/ WriteHeader \/ WriteRow \/ CloseOldFails
      \/ \E v \in Writers : CloseWriter(v) \/ CloseWriterFails(v)
      \/ buffer' = buffer /\ file' = file /\ disk' = disk
  BY DEF Next, Step, vars, Write, Ensure, StepFails, WriteToClosed
<1> QED
  BY <1>1, <1>2, <1>3, <1>4, <1>5, <1>6, <1>7, <1>8, <1>9

\* Where an entry of a file comes from.
OldEntry(w, d, i) == i \in DOMAIN disk[w][d] /\ disk'[w][d][i] = disk[w][d][i]

NewEntry(w, d, i) ==
  LET k == i - Len(disk[w][d])
  IN  /\ file[w] # None /\ d = file[w] /\ k \in DOMAIN buffer[w]
      /\ disk'[w][d][i] = buffer[w][k]

LEMMA DiskEntries ==
  ASSUME TypeOK, [Next]_vars, NEW w \in Writers, NEW d \in Files,
         NEW i \in DOMAIN disk'[w][d]
  PROVE  OldEntry(w, d, i) \/ NewEntry(w, d, i)
<1>1. disk[w] \in [Files -> Seq(Entry)] /\ buffer[w] \in Seq(Entry)
  BY DEF TypeOK
<1>2. CASE disk'[w][d] = disk[w][d]
  BY <1>2 DEF OldEntry
<1>3. CASE disk'[w][d] # disk[w][d]
  <2>1. Flush(w)
    BY <1>3, DiskStep
  <2>2. file[w] # None /\ d = file[w] /\ disk'[w][d] = disk[w][d] \o buffer[w]
    BY <1>1, <1>3, <2>1 DEF Flush
  <2> DEFINE old == disk[w][d]
  <2>3. old \in Seq(Entry) /\ i \in DOMAIN (old \o buffer[w])
    BY <1>1, <2>2
  <2> HIDE DEF old
  <2>4. \/ i \in DOMAIN old /\ (old \o buffer[w])[i] = old[i]
        \/ /\ i - Len(old) \in DOMAIN buffer[w]
           /\ (old \o buffer[w])[i] = buffer[w][i - Len(old)]
    BY ONLY <1>1, <2>3, ConcatEntries
  <2> QED
    BY <2>2, <2>4 DEF old, OldEntry, NewEntry
<1> QED
  BY <1>2, <1>3

\* Where an entry of a buffer comes from.
LEMMA BufferEntries ==
  ASSUME TypeOK, [Next]_vars, NEW w \in Writers, NEW i \in DOMAIN buffer'[w]
  PROVE  /\ file'[w] = file[w] /\ disk'[w] = disk[w]
         /\ \/ i \in DOMAIN buffer[w] /\ buffer'[w][i] = buffer[w][i]
            \/ /\ WriteHeader /\ w = writer /\ i = Len(buffer[w]) + 1
               /\ buffer'[w][i] = Header
            \/ /\ WriteRow /\ w = writer /\ i = Len(buffer[w]) + 1
               /\ buffer'[w][i] = item
<1>1. buffer[w] \in Seq(Entry) /\ buffer'[w] # <<>>
  BY DEF TypeOK
<1>2. ASSUME NEW e, buffer'[w] = Append(buffer[w], e)
      PROVE  \/ i \in DOMAIN buffer[w] /\ buffer'[w][i] = buffer[w][i]
             \/ i = Len(buffer[w]) + 1 /\ buffer'[w][i] = e
  BY <1>1, <1>2
<1> QED
  BY <1>1, <1>2, BufferStep

-----------------------------------------------------------------------------
(* Acknowledged records.                                                   *)

\* What write() knows at its place it knows again at the next.
LEMMA NextPlace == TypeOK /\ PlaceKnown /\ [Next]_vars => PlaceKnown'
<1> SUFFICES ASSUME TypeOK, PlaceKnown, [Next]_vars PROVE PlaceKnown'
  OBVIOUS
<1> USE DEF PlaceKnown, AtHeader, Usable, handleVars, boundVars
<1>0. writer \in Writers /\ buffer \in [Writers -> Seq(Entry)]
      /\ file \in [Writers -> Files \cup {None}] /\ closed \in [Writers -> BOOLEAN]
      /\ failures \in Nat
  BY DEF TypeOK
<1>1. CASE Open
  BY <1>0, <1>1 DEF Open
<1>2. CASE WriteHeader
  BY <1>0, <1>2 DEF WriteHeader
<1>3. CASE WriteRow
  <2>1. /\ buffer'[writer] = Append(buffer[writer], item)
        /\ writer' = writer /\ item' = item /\ pc' = "flushing"
    BY <1>0, <1>3 DEF WriteRow
  <2>2. LET n == Len(buffer[writer]) + 1
        IN  n \in DOMAIN buffer'[writer] /\ buffer'[writer][n] = item
    BY <1>0, <2>1
  <2> QED
    BY <2>1, <2>2
<1>4. ASSUME NEW w \in Writers, CloseWriter(w) PROVE PlaceKnown'
  <2>1. CASE w = writer
    <3>1. /\ ~Usable'
          /\ writer \in Csv => file'[writer'] = None
      BY <1>0, <1>4, <2>1 DEF CloseWriter
    <3> QED
      BY <1>4, <3>1 DEF CloseWriter
  <2>2. CASE w # writer
    <3>1. /\ file'[writer] = file[writer] /\ closed'[writer] = closed[writer]
          /\ buffer'[writer] = buffer[writer]
      BY <1>0, <1>4, <2>2 DEF CloseWriter
    <3> QED
      BY <1>4, <3>1 DEF CloseWriter
  <2> QED
    BY <2>1, <2>2
<1>5. ASSUME NEW w \in Writers, CloseWriterFails(w) PROVE PlaceKnown'
  <2>1. failures' # 0 /\ UNCHANGED <<pc, writer, item, file>>
    BY <1>0, <1>5 DEF CloseWriterFails, DiskFails
  <2>2. \/ ~Usable'
        \/ buffer'[writer] = buffer[writer] /\ closed'[writer] = closed[writer]
    BY <1>0, <1>5, <2>1 DEF CloseWriterFails
  <2> QED
    BY <2>1, <2>2
<1>6. CASE pc' \notin {"header", "flushingHeader", "flushing"}
  BY <1>6
<1>7. CASE UNCHANGED vars
  BY <1>7 DEF vars
<1> QED
  BY <1>1, <1>2, <1>3, <1>4, <1>5, <1>6, <1>7
     DEF Next, Step, Write, Ensure, CloseOld, FlushHeader, FlushRow,
         CloseOldFails, StepFails, Raise, WriteToClosed, Crash, Restart

\* What is on disk stays there, at its place.
LEMMA DiskGrows ==
  ASSUME TypeOK, [Next]_vars, NEW w \in Writers, NEW d \in Files,
         NEW i \in DOMAIN disk[w][d]
  PROVE  i \in DOMAIN disk'[w][d] /\ disk'[w][d][i] = disk[w][d][i]
<1>1. disk[w] \in [Files -> Seq(Entry)] /\ buffer[w] \in Seq(Entry)
  BY DEF TypeOK
<1>2. CASE disk'[w] = disk[w]
  BY <1>2
<1>3. CASE Flush(w) /\ d = file[w]
  <2>1. disk'[w][d] = disk[w][d] \o buffer[w]
    BY <1>1, <1>3 DEF Flush
  <2>2. disk[w][d] \in Seq(Entry)
    BY <1>1
  <2>3. \A k \in DOMAIN disk[w][d] :
          /\ k \in DOMAIN (disk[w][d] \o buffer[w])
          /\ (disk[w][d] \o buffer[w])[k] = disk[w][d][k]
    <3> DEFINE old == disk[w][d]
               new == buffer[w]
    <3>1. old \in Seq(Entry) /\ new \in Seq(Entry)
      BY <1>1, <2>2
    <3> HIDE DEF old, new
    <3>2. \A k \in DOMAIN old : k \in DOMAIN (old \o new) /\ (old \o new)[k] = old[k]
      BY <3>1, ConcatKeeps
    <3> QED BY <3>2 DEF old, new
  <2> QED
    BY <2>1, <2>3
<1>4. CASE Flush(w) /\ d # file[w]
  BY <1>1, <1>4 DEF Flush
<1> QED
  BY <1>2, <1>3, <1>4, DiskStep

LEMMA NextDurable ==
  TypeOK /\ PlaceKnown /\ AckedIsDurable /\ [Next]_vars => AckedIsDurable'
<1> SUFFICES ASSUME TypeOK, PlaceKnown, AckedIsDurable, [Next]_vars,
                    NEW w \in Writers, NEW rec \in acked'[w]
             PROVE  \E d \in Files : \E i \in DOMAIN disk'[w][d] :
                      disk'[w][d][i] = rec
  BY DEF AckedIsDurable
<1>1. CASE rec \in acked[w]
  <2>1. PICK d \in Files : \E i \in DOMAIN disk[w][d] : disk[w][d][i] = rec
    BY <1>1 DEF AckedIsDurable
  <2> QED
    BY <2>1, DiskGrows
<1>2. CASE rec \notin acked[w]
  <2>1. FlushRow /\ w = writer /\ rec = item
    BY <1>2 DEF Next, Step, vars, historyVars, TypeOK, Write, Ensure, CloseOld, Open,
       WriteHeader, FlushHeader, WriteRow, FlushRow, CloseOldFails, StepFails,
       Raise, WriteToClosed, CloseWriter, CloseWriterFails, Crash, Restart
  <2>2. PICK i \in DOMAIN buffer[w] : buffer[w][i] = item
    BY <2>1 DEF PlaceKnown, FlushRow
  <2>3. /\ file[w] \in Files /\ buffer[w] \in Seq(Entry)
        /\ disk[w] \in [Files -> Seq(Entry)]
    BY <2>1 DEF Usable, FlushRow, TypeOK
  <2>4. disk'[w] = [disk[w] EXCEPT ![file[w]] = @ \o buffer[w]]
    BY <2>1, <2>3, FlushedFiles DEF FlushRow, Usable
  <2> DEFINE old == disk[w][file[w]]
  <2>5. disk'[w][file[w]] = old \o buffer[w] /\ old \in Seq(Entry)
    BY <2>3, <2>4
  <2>6. /\ Len(old) + i \in DOMAIN (old \o buffer[w])
        /\ (old \o buffer[w])[Len(old) + i] = item
    <3> HIDE DEF old
    <3>1. i \in DOMAIN buffer[w] /\ buffer[w] \in Seq(Entry) /\ old \in Seq(Entry)
      BY <2>2, <2>3, <2>5
    <3>2. /\ Len(old) + i \in DOMAIN (old \o buffer[w])
          /\ (old \o buffer[w])[Len(old) + i] = buffer[w][i]
      BY ONLY <3>1, ConcatKeeps
    <3> QED
      BY <2>2, <3>2
  <2> QED
    BY <2>1, <2>3, <2>5, <2>6
<1> QED
  BY <1>1, <1>2

-----------------------------------------------------------------------------
(* Headers.                                                                *)

\* The writer whose file is opened gets it among those it knows.
LEMMA NextHeader ==
  TypeOK /\ PlaceKnown /\ HeaderOnlyFirst /\ HeaderKnown /\ [Next]_vars
    => HeaderOnlyFirst' /\ HeaderKnown'
<1> SUFFICES ASSUME TypeOK, PlaceKnown, HeaderOnlyFirst, HeaderKnown, [Next]_vars
             PROVE  HeaderOnlyFirst' /\ HeaderKnown'
  OBVIOUS
<1>0. /\ disk \in [Writers -> [Files -> Seq(Entry)]]
      /\ buffer \in [Writers -> Seq(Entry)]
      /\ file \in [Writers -> Files \cup {None}] /\ writer \in Writers
      /\ exists \in [Writers -> SUBSET Files]
  BY DEF TypeOK
<1>1. HeaderOnlyFirst'
  <2> SUFFICES ASSUME NEW w \in Writers, NEW d \in Files,
                      NEW i \in DOMAIN disk'[w][d], disk'[w][d][i] = Header
               PROVE  w \in Csv /\ i = 1
    BY DEF HeaderOnlyFirst
  <2>1. CASE OldEntry(w, d, i)
    BY <2>1 DEF HeaderOnlyFirst, OldEntry
  <2>2. CASE NewEntry(w, d, i)
    <3>1. /\ i - Len(disk[w][d]) = 1 /\ w \in Csv /\ disk[w][d] = <<>>
      BY <2>2 DEF HeaderKnown, NewEntry
    <3> QED
      BY <3>1
  <2> QED
    BY <2>1, <2>2, DiskEntries
<1>2. \A w \in Writers : file'[w] # None => file'[w] \in exists'[w]
  <2>1. CASE Open
    <3>1. DayKey(item) \in Files
      BY <2>1, Rows DEF Open, TypeOK
    <3> QED
      BY <1>0, <2>1, <3>1 DEF Open, HeaderKnown
  <2>2. CASE Crash
    BY <2>2 DEF Crash, Restart
  <2>3. ASSUME NEW v \in Writers, CloseWriter(v)
        PROVE  \A w \in Writers : file'[w] # None => file'[w] \in exists'[w]
    <3>1. \A w \in Writers : file'[w] \in {file[w], None}
      BY <1>0, <2>3 DEF CloseWriter
    <3> QED
      BY <2>3, <3>1 DEF CloseWriter, HeaderKnown
  <2>4. CASE file' = file /\ exists' = exists
    BY <2>4 DEF HeaderKnown
  <2> QED
    BY <2>1, <2>2, <2>3, <2>4
       DEF Next, Step, vars, handleVars, diskVars, Write, Ensure, CloseOld,
           WriteHeader, FlushHeader, WriteRow, FlushRow, CloseOldFails,
           StepFails, WriteToClosed, CloseWriterFails
<1>3. ASSUME NEW w \in Writers, NEW d \in Files \ exists'[w]
      PROVE  disk'[w][d] = <<>>
  <2>1. d \notin exists[w]
    <3>1. exists' = exists \/ Open
      BY DEF Next, Step, vars, diskVars, Write, Ensure, CloseOld,
         WriteHeader, FlushHeader, WriteRow, FlushRow, CloseOldFails, StepFails,
         WriteToClosed, CloseWriter, CloseWriterFails, Crash
    <3>2. exists[w] \subseteq exists'[w]
      <4>1. Open => exists' = [exists EXCEPT ![writer] = @ \cup {DayKey(item)}]
        BY DEF Open
      <4>2. \A new : exists[w] \subseteq [exists EXCEPT ![writer] = @ \cup new][w]
        BY <1>0
      <4> QED BY <3>1, <4>1, <4>2
    <3> QED
      BY <1>3, <3>2
  <2>2. disk[w][d] = <<>> /\ d # file[w]
    BY <1>3, <2>1, Rows DEF HeaderKnown
  <2>3. CASE Flush(w)
    BY <1>0, <2>2, <2>3 DEF Flush
  <2> QED
    BY <2>2, <2>3, DiskStep
<1>4. ASSUME NEW w \in Writers, NEW i \in DOMAIN buffer'[w], buffer'[w][i] = Header
      PROVE  w \in Csv /\ i = 1 /\ file'[w] # None /\ disk'[w][file'[w]] = <<>>
  <2>1. file'[w] = file[w] /\ disk'[w] = disk[w]
    BY BufferEntries
  <2>2. CASE i \in DOMAIN buffer[w] /\ buffer'[w][i] = buffer[w][i]
    BY <1>4, <2>1, <2>2 DEF HeaderKnown
  <2>3. CASE WriteHeader /\ w = writer /\ i = Len(buffer[w]) + 1
    <3>1. buffer[w] = <<>> /\ w \in Csv /\ file[w] # None /\ disk[w][file[w]] = <<>>
      BY <2>3 DEF HeaderKnown, PlaceKnown, AtHeader, Usable, WriteHeader
    <3> QED
      BY <2>1, <2>3, <3>1
  <2>4. ~(WriteRow /\ buffer'[w][i] = item)
    BY <1>4, Rows DEF WriteRow, TypeOK
  <2> QED
    BY <2>2, <2>3, <2>4, BufferEntries
<1>5. pc' = "header" /\ Usable' =>
        buffer'[writer'] = <<>> /\ disk'[writer'][file'[writer']] = <<>>
  <2>1. CASE Open
    <3>1. DayKey(item) \in Files
      BY <2>1, Rows DEF Open, TypeOK
    <3>2. pc' = "header" => DayKey(item) \notin exists[writer]
      BY <2>1 DEF Open
    <3> QED
      BY <1>0, <2>1, <3>1, <3>2 DEF Open, HeaderKnown
  <2>2. ASSUME NEW v \in Writers, CloseWriter(v) \/ CloseWriterFails(v),
               pc' = "header", Usable'
        PROVE  buffer'[writer'] = <<>> /\ disk'[writer'][file'[writer']] = <<>>
    <3>1. pc = "header" /\ writer' = writer
      BY <2>2 DEF CloseWriter, CloseWriterFails
    <3>2. closed \in [Writers -> BOOLEAN]
      BY DEF TypeOK
    <3>3. writer # v
      BY <1>0, <2>2, <3>1, <3>2 DEF CloseWriter, CloseWriterFails, Usable
    <3>4. /\ file'[writer] = file[writer] /\ closed'[writer] = closed[writer]
          /\ buffer'[writer] = buffer[writer]
      BY <1>0, <2>2, <3>2, <3>3 DEF CloseWriter, CloseWriterFails
    <3>5. disk' = Flushed(v) \/ disk' = disk
      BY <2>2 DEF CloseWriter, CloseWriterFails, diskVars
    <3>6. disk'[writer] = disk[writer]
      <4>1. Flushed(v)[writer] = disk[writer]
        BY <1>0, <3>3, FlushedFiles
      <4> QED BY <3>5, <4>1
    <3> QED
      BY <2>2, <3>1, <3>4, <3>6 DEF HeaderKnown, Usable
  <2>3. CASE UNCHANGED vars
    BY <2>3 DEF vars, handleVars, diskVars, HeaderKnown, Usable
  <2>4. CASE pc' # "header"
    BY <2>4
  <2> QED
    BY <2>1, <2>2, <2>3, <2>4
       DEF Next, Step, Write, Ensure, CloseOld,
           WriteHeader, FlushHeader, WriteRow, FlushRow, CloseOldFails, Raise,
           StepFails, WriteToClosed, Crash, Restart
<1> QED
  BY <1>1, <1>2, <1>3, <1>4, <1>5 DEF HeaderKnown

-----------------------------------------------------------------------------
(* Once and no more.                                                       *)

LEMMA NextNumbers ==
  TypeOK /\ NumbersKnown /\ [Next]_vars => NumbersKnown'
<1> SUFFICES ASSUME TypeOK, NumbersKnown, [Next]_vars PROVE NumbersKnown'
  OBVIOUS
<1> DEFINE most == IF pc \in {"idle", "flushing"} THEN count ELSE count - 1
<1>1. count \in Nat /\ (pc # "idle" => item.n = count /\ count > 0)
  BY DEF TypeOK, NumbersKnown
<1>2. /\ pc' # "idle" => item'.n = count' /\ count' > 0
      /\ count' \in Nat /\ most <= most'
  <2>1. CASE Write
    BY <1>1, <2>1 DEF Write
  <2>2. CASE count' = count /\ item' = item /\ pc # "idle"
             /\ (pc' \in {"idle", "flushing"} \/ pc \notin {"idle", "flushing"})
    BY <1>1, <2>2
  <2>3. CASE count' = count /\ pc' = "idle"
    BY <1>1, <2>3
  <2>4. CASE UNCHANGED <<pc, item, count>>
    BY <1>1, <2>4
  <2> QED
    BY <2>1, <2>2, <2>3, <2>4
       DEF Next, Step, vars, boundVars, Ensure, CloseOld, Open,
           WriteHeader, FlushHeader, WriteRow, FlushRow, CloseOldFails, Raise,
           StepFails, WriteToClosed, CloseWriter, CloseWriterFails, Crash, Restart
<1> HIDE DEF most
<1>3. /\ \A w \in Writers : \A i \in DOMAIN buffer[w] : buffer[w][i].n <= most
      /\ \A w \in Writers : \A d \in Files : \A i \in DOMAIN disk[w][d] :
           disk[w][d][i].n <= most
  BY DEF NumbersKnown, most
<1>4. most \in Int /\ most' \in Int
  BY <1>1, <1>2 DEF most
<1>5. ASSUME NEW w \in Writers, NEW i \in DOMAIN buffer'[w]
      PROVE  buffer'[w][i].n <= most'
  <2>1. CASE i \in DOMAIN buffer[w] /\ buffer'[w][i] = buffer[w][i]
    <3>1. buffer[w][i].n \in Nat
      BY <2>1 DEF TypeOK, Entry, Row, Header
    <3> QED
      BY <1>2, <1>3, <1>4, <2>1, <3>1
  <2>2. CASE WriteHeader /\ buffer'[w][i] = Header
    <3>1. most' >= 0 /\ Header.n = 0
      BY <1>1, <2>2 DEF most, WriteHeader, boundVars, Header
    <3> QED
      BY <2>2, <3>1, <1>4
  <2>3. CASE WriteRow /\ buffer'[w][i] = item
    <3>1. most' = count /\ item.n = count
      BY <1>1, <2>3 DEF most, WriteRow, boundVars
    <3> QED
      BY <1>1, <2>3, <3>1
  <2> QED
    BY <2>1, <2>2, <2>3, BufferEntries
<1>6. ASSUME NEW w \in Writers, NEW d \in Files, NEW i \in DOMAIN disk'[w][d]
      PROVE  disk'[w][d][i].n <= most'
  <2>1. disk'[w][d][i].n <= most /\ disk'[w][d][i].n \in Nat
    <3>1. CASE OldEntry(w, d, i)
      BY <1>3, <3>1 DEF OldEntry, TypeOK, Entry, Row, Header
    <3>2. CASE NewEntry(w, d, i)
      BY <1>3, <3>2 DEF NewEntry, TypeOK, Entry, Row, Header
    <3> QED
      BY <3>1, <3>2, DiskEntries
  <2> QED
    BY <1>2, <1>4, <2>1
<1> QED
  BY <1>2, <1>5, <1>6 DEF NumbersKnown, most

\* A record enters a buffer once, and a file only from the buffer.
LEMMA NextOnce ==
  TypeOK /\ NumbersKnown /\ NoRowTwice /\ BufferOnce /\ [Next]_vars
    => NoRowTwice' /\ BufferOnce'
<1> SUFFICES ASSUME TypeOK, NumbersKnown, NoRowTwice, BufferOnce, [Next]_vars
             PROVE  NoRowTwice' /\ BufferOnce'
  OBVIOUS
<1>1. NoRowTwice'
  <2> SUFFICES ASSUME NEW w \in Writers, NEW d \in Files, NEW e \in Files,
                      NEW i \in DOMAIN disk'[w][d], NEW j \in DOMAIN disk'[w][e],
                      disk'[w][d][i] = disk'[w][e][j], disk'[w][d][i] # Header
               PROVE  d = e /\ i = j
    BY DEF NoRowTwice
  <2>0. /\ disk[w] \in [Files -> Seq(Entry)] /\ disk'[w] \in [Files -> Seq(Entry)]
        /\ buffer[w] \in Seq(Entry)
    BY NextType DEF TypeOK
  <2>1. CASE OldEntry(w, d, i) /\ OldEntry(w, e, j)
    <3>1. /\ i \in DOMAIN disk[w][d] /\ j \in DOMAIN disk[w][e]
          /\ disk[w][d][i] = disk[w][e][j] /\ disk[w][d][i] # Header
      BY <2>1 DEF OldEntry
    <3> QED
      BY <3>1 DEF NoRowTwice
  <2>2. CASE OldEntry(w, d, i) /\ NewEntry(w, e, j)
    <3>1. PICK k \in DOMAIN buffer[w] : disk'[w][e][j] = buffer[w][k]
      BY <2>2 DEF NewEntry
    <3>2. /\ i \in DOMAIN disk[w][d] /\ disk[w][d][i] = buffer[w][k]
          /\ buffer[w][k] # Header
      BY <2>2, <3>1 DEF OldEntry
    <3> QED
      BY <3>1, <3>2 DEF BufferOnce
  <2>3. CASE NewEntry(w, d, i) /\ OldEntry(w, e, j)
    BY <2>3 DEF OldEntry, NewEntry, BufferOnce
  <2>4. CASE NewEntry(w, d, i) /\ NewEntry(w, e, j)
    <3>1. d = e /\ i - Len(disk[w][d]) = j - Len(disk[w][d])
      BY <2>4 DEF NewEntry, BufferOnce
    <3>2. Len(disk[w][d]) \in Int /\ i \in Int /\ j \in Int
      BY <2>0
    <3> QED
      BY <3>1, <3>2
  <2> QED
    BY <2>1, <2>2, <2>3, <2>4, DiskEntries
<1>2. BufferOnce'
  <2> SUFFICES ASSUME NEW w \in Writers, NEW i \in DOMAIN buffer'[w],
                      buffer'[w][i] # Header
               PROVE  /\ \A j \in DOMAIN buffer'[w] :
                            buffer'[w][j] = buffer'[w][i] => i = j
                      /\ \A d \in Files : \A j \in DOMAIN disk'[w][d] :
                           disk'[w][d][j] # buffer'[w][i]
    BY DEF BufferOnce
  <2>1. disk'[w] = disk[w]
    BY BufferEntries
  <2>2. ASSUME WriteRow
        PROVE  /\ \A j \in DOMAIN buffer[w] : buffer[w][j] # item
               /\ \A d \in Files : \A j \in DOMAIN disk[w][d] : disk[w][d][j] # item
    <3>1. item.n = count /\ count \in Nat
      BY <2>2 DEF WriteRow, NumbersKnown, TypeOK
    <3>2. /\ \A j \in DOMAIN buffer[w] : buffer[w][j].n <= count - 1
          /\ \A d \in Files : \A j \in DOMAIN disk[w][d] :
               disk[w][d][j].n <= count - 1
      BY <2>2 DEF WriteRow, NumbersKnown
    <3> QED
      BY <3>1, <3>2
  <2>3. CASE i \in DOMAIN buffer[w] /\ buffer'[w][i] = buffer[w][i]
    <3>1. ASSUME NEW j \in DOMAIN buffer'[w], buffer'[w][j] = buffer'[w][i]
          PROVE  i = j
      BY <2>2, <2>3, <3>1, BufferEntries DEF BufferOnce
    <3> QED
      BY <2>1, <2>3, <3>1 DEF BufferOnce
  <2>4. CASE WriteRow /\ i = Len(buffer[w]) + 1 /\ buffer'[w][i] = item
    <3>1. ASSUME NEW j \in DOMAIN buffer'[w], buffer'[w][j] = buffer'[w][i]
          PROVE  i = j
      <4>1. j \in DOMAIN buffer[w] => buffer'[w][j] # buffer[w][j]
        BY <2>2, <2>4, <3>1
      <4> QED
        BY <2>4, <3>1, <4>1, BufferEntries
    <3> QED
      BY <2>1, <2>2, <2>4, <3>1
  <2> QED
    BY <2>3, <2>4, BufferEntries
<1> QED
  BY <1>1, <1>2

-----------------------------------------------------------------------------
(* A record's own day.                                                     *)

\* The handle of w is on the day of the record it is given, and the day
\* noted with it is the handle's.
HandleKnown(w) ==
  file[w] # None =>
    /\ writer = w /\ (AtHeader \/ AtRow) => file[w] = DayKey(item)
    /\ key[w] # None /\ ~(writer = w /\ AtHeader) => key[w] = file[w]

LEMMA NextHandle ==
  ASSUME TypeOK, PlaceKnown, [Next]_vars, NEW w \in Writers, HandleKnown(w),
         w \notin Csv \/ failures' = 0
  PROVE  HandleKnown(w)'
<1> USE DEF HandleKnown, AtHeader, AtRow, handleVars, boundVars, DayKey
<1>0. /\ writer \in Writers /\ failures \in Nat
      /\ file \in [Writers -> Files \cup {None}]
      /\ key \in [Writers -> Files \cup {None}]
  BY DEF TypeOK
<1>1. CASE Write
  BY <1>0, <1>1 DEF Write
<1>2. CASE Ensure
  <2>1. DayKey(item) # None
    BY <1>2, Rows DEF Ensure, TypeOK
  <2> QED
    BY <1>0, <1>2, <2>1 DEF Ensure, Cached
<1>3. CASE CloseOld \/ CloseOldFails
  BY <1>0, <1>3 DEF CloseOld, CloseOldFails, Raise
<1>4. CASE Open
  BY <1>0, <1>4 DEF Open
<1>5. CASE WriteHeader \/ WriteRow \/ FlushRow
  BY <1>0, <1>5 DEF WriteHeader, WriteRow, FlushRow
<1>6. CASE FlushHeader
  BY <1>0, <1>6 DEF FlushHeader
<1>7. CASE StepFails
  <2>1. failures' # 0 /\ pc' = "idle" /\ UNCHANGED <<writer, item, file, key, rotate>>
    BY <1>0, <1>7 DEF StepFails, DiskFails, Raise
  <2>2. ~(writer = w /\ AtHeader)
    BY <2>1 DEF PlaceKnown
  <2> QED
    BY <2>1, <2>2
<1>8. CASE WriteToClosed
  <2>1. UNCHANGED <<writer, item, file, key, rotate, failures>> /\ pc' = "idle"
    BY <1>8 DEF WriteToClosed, Raise
  <2>2. file[w] # None => ~(writer = w /\ AtHeader)
    BY <1>8, <2>1 DEF WriteToClosed, PlaceKnown, Usable
  <2> QED
    BY <2>1, <2>2
<1>9. ASSUME NEW v \in Writers, CloseWriter(v) \/ CloseWriterFails(v)
      PROVE  HandleKnown(w)'
  <2>1. UNCHANGED <<pc, writer, item, key, rotate>>
    BY <1>9 DEF CloseWriter, CloseWriterFails
  <2>2. file'[w] \in {file[w], None}
    BY <1>0, <1>9 DEF CloseWriter, CloseWriterFails
  <2> QED
    BY <2>1, <2>2
<1>10. CASE Crash
  BY <1>10 DEF Crash, Restart
<1>11. CASE UNCHANGED vars
  BY <1>11 DEF vars
<1> QED
  BY <1>1, <1>2, <1>3, <1>4, <1>5, <1>6, <1>7, <1>8, <1>9, <1>10, <1>11
     DEF Next, Step

\* The buffer of w holds records of the handle's day.
BufferOfDay(w) ==
  \A i \in DOMAIN buffer[w] :
    buffer[w][i] # Header => DayKey(buffer[w][i]) = file[w]

\* A record goes to the buffer of its day's handle, and from there to that
\* day's file.
LEMMA NextDay ==
  TypeOK /\ PlaceKnown /\ DayKnown /\ [Next]_vars => DayKnown'
<1> SUFFICES ASSUME TypeOK, PlaceKnown, DayKnown, [Next]_vars, NEW w \in Writers,
                    w \notin Csv \/ failures' = 0
             PROVE  FiledByDay(w)' /\ BufferOfDay(w)' /\ HandleKnown(w)'
  BY DEF DayKnown, HandleKnown, BufferOfDay, AtHeader, AtRow, DayKey
<1>1. failures' = 0 => failures = 0
  BY DEF TypeOK, Next, Step, vars, boundVars, Write, Ensure, CloseOld, Open,
         WriteHeader, FlushHeader, WriteRow, FlushRow, CloseOldFails, StepFails,
         DiskFails, WriteToClosed, CloseWriter, CloseWriterFails, Crash, Restart
<1>2. rotate' = rotate
  BY DEF Next, Step, vars, Write, Ensure, CloseOld, Open, WriteHeader,
         FlushHeader, WriteRow, FlushRow, CloseOldFails, StepFails, Raise,
         WriteToClosed, CloseWriter, CloseWriterFails, Crash, Restart
<1>3. /\ FiledByDay(w) /\ HandleKnown(w)
      /\ \A i \in DOMAIN buffer[w] :
           buffer[w][i] # Header => DayKey(buffer[w][i]) = file[w]
  BY <1>1 DEF DayKnown, HandleKnown
<1>4. HandleKnown(w)'
  BY <1>3, NextHandle
<1>5. ASSUME NEW d \in Files, NEW i \in DOMAIN disk'[w][d], disk'[w][d][i] # Header
      PROVE  DayKey(disk'[w][d][i]) = d
  <2>1. CASE OldEntry(w, d, i)
    BY <1>3, <1>5, <2>1 DEF OldEntry, FiledByDay
  <2>2. CASE NewEntry(w, d, i)
    BY <1>3, <1>5, <2>2 DEF NewEntry
  <2> QED
    BY <2>1, <2>2, DiskEntries
<1>6. ASSUME NEW i \in DOMAIN buffer'[w], buffer'[w][i] # Header
      PROVE  DayKey(buffer'[w][i]) = file'[w]
  <2>1. CASE i \in DOMAIN buffer[w] /\ buffer'[w][i] = buffer[w][i]
    BY <1>3, <1>6, <2>1, BufferEntries
  <2>2. CASE WriteRow /\ w = writer /\ buffer'[w][i] = item
    <3>1. file'[w] = file[w]
      BY BufferEntries
    <3> QED
      BY <1>3, <2>2, <3>1 DEF HandleKnown, AtRow, Usable, WriteRow
  <2> QED
    BY <1>6, <2>1, <2>2, BufferEntries
<1>7. FiledByDay(w)' /\ BufferOfDay(w)'
  BY <1>2, <1>5, <1>6 DEF FiledByDay, BufferOfDay, DayKey
<1> QED
  BY <1>4, <1>7

-----------------------------------------------------------------------------
(* The theorems.                                                           *)

LEMMA InitInductive == Init => Inductive
<1> SUFFICES ASSUME Init PROVE Inductive
  OBVIOUS
<1>1. TypeOK
  BY InitType
<1>2. /\ \A w \in Writers : /\ DOMAIN buffer[w] = {} /\ file[w] = None
                           /\ key[w] = None /\ acked[w] = {}
      /\ \A w \in Writers, d \in Files : disk[w][d] = <<>> /\ DOMAIN disk[w][d] = {}
      /\ pc = "idle"
  BY DEF Init
<1> QED
  BY <1>1, <1>2 DEF Inductive, PlaceKnown, AtHeader, AtRow, AckedIsDurable,
     HeaderOnlyFirst, HeaderKnown, NumbersKnown, NoRowTwice, BufferOnce,
     DayKnown, FiledByDay

LEMMA SpecInductive == Spec => []Inductive
<1>1. Inductive /\ [Next]_vars => Inductive'
  BY NextType, NextPlace, NextDurable, NextHeader, NextNumbers, NextOnce, NextDay
     DEF Inductive
<1> QED
  BY <1>1, InitInductive, PTL DEF Spec

\* In every state of every run the writers' state is of its type, and the
\* item of a write is a record, never a header.
THEOREM TypeCorrect == Spec => []TypeOK
<1>1. Inductive => TypeOK
  BY DEF Inductive
<1> QED
  BY <1>1, SpecInductive, PTL

\* A record whose write() returned has been given to the system, and stays
\* in its file through any number of failures, closes, day changes, crashes
\* of the process and restarts.  Nothing is said of a loss of power.
THEOREM AcknowledgedDurable == Spec => []AckedIsDurable
<1>1. Inductive => AckedIsDurable
  BY DEF Inductive
<1> QED
  BY <1>1, SpecInductive, PTL

\* No record is on disk twice, though a failed flush leaves it in a buffer
\* that a later flush or close writes.
THEOREM WrittenOnce == Spec => []NoRowTwice
<1>1. Inductive => NoRowTwice
  BY DEF Inductive
<1> QED
  BY <1>1, SpecInductive, PTL

\* A header is the first row of a CSV file, and nowhere else, whatever was
\* interrupted when the file was new.
THEOREM HeadersFirst == Spec => []HeaderOnlyFirst
<1>1. Inductive => HeaderOnlyFirst
  BY DEF Inductive
<1> QED
  BY <1>1, SpecInductive, PTL

\* A raw sentence is always in the file of its own day, a CSV row as long
\* as the disk has not failed.
THEOREM FiledByOwnDay == Spec => []RowsFiledByDay
<1>1. Inductive => RowsFiledByDay
  BY DEF Inductive, DayKnown, RowsFiledByDay
<1> QED
  BY <1>1, SpecInductive, PTL

=============================================================================
