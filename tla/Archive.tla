------------------------------- MODULE Archive -------------------------------
(***************************************************************************)
(* What the data-logging subsystem promises of the archive: a lossy first- *)
(* in first-out log in several files.  An entry is accepted into a bounded *)
(* backlog; the oldest one is the next to be given to its file or to be    *)
(* lost.  The entries given to a file reach the disk in that order, some   *)
(* of them late; those that have not may be lost, the newest first.  What  *)
(* is on disk stays as it is.                                              *)
(***************************************************************************)
EXTENDS Naturals, Sequences

CONSTANTS Entry,    \* what may be logged
          File,     \* the files of the archive
          FileOf,   \* the file of an entry, if it has one
          Capacity  \* entries the backlog may hold

VARIABLES backlog, \* accepted, and neither given to a file nor lost yet
          rows,    \* per file, the entries given to it
          durable  \* per file, how many of them are on disk

fileVars == <<rows, durable>>
archiveVars == <<backlog, fileVars>>

ArchiveInit == /\ backlog = <<>>
               /\ rows = [f \in File |-> <<>>]
               /\ durable = [f \in File |-> 0]

Accept ==
  /\ Len(backlog) < Capacity
  /\ Len(backlog') = Len(backlog) + 1
  /\ LET entry == backlog'[Len(backlog')]
     IN  entry \in Entry /\ backlog' = Append(backlog, entry)
  /\ UNCHANGED fileVars

HandOver ==
  /\ backlog # <<>> /\ Head(backlog) \in DOMAIN FileOf
  /\ rows' = [rows EXCEPT ![FileOf[Head(backlog)]] = Append(@, Head(backlog))]
  /\ backlog' = Tail(backlog)
  /\ UNCHANGED durable

\* Entries given to a file before reach the disk.
Settle ==
  /\ \E f \in File : \E m \in durable[f]..Len(rows[f]) :
       durable' = [durable EXCEPT ![f] = m]
  /\ UNCHANGED <<backlog, rows>>

\* Entries given to a file are lost, those after the first m.
Discard ==
  \E f \in File : \E m \in durable[f]..Len(rows[f]) :
    /\ rows' = [rows EXCEPT ![f] = SubSeq(@, 1, m)]
    /\ durable' = [durable EXCEPT ![f] = m]

Lose ==
  /\ Discard \/ UNCHANGED fileVars
  /\ UNCHANGED backlog \/ (backlog # <<>> /\ backlog' = Tail(backlog))

ArchiveNext == Accept \/ HandOver \/ Settle \/ Lose

ArchiveSpec == ArchiveInit /\ [][ArchiveNext]_archiveVars
=============================================================================
