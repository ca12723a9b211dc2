---------------------------- MODULE ReceiverFeed -----------------------------
(***************************************************************************)
(* What a ReceiverWorker promises to the render loop, without threads,     *)
(* lock or source: a connection status that moves along four edges, a view *)
(* of the receiver that only grows and only while connected, and snapshots *)
(* that are one status and one view of the same instant.  Only a source    *)
(* that is opened again is no longer exhausted.                            *)
(***************************************************************************)
EXTENDS ReceiverState

VARIABLES conn,   \* the ConnectionStatus
          view,   \* everything else a snapshot shows
          snap    \* the last snapshot handed out, None before the first

feedVars == <<conn, view, snap>>

View == [state : State, upd : Optional(Nat), exhausted : BOOLEAN]

\* A view never loses sentences, never shows an older last update, and, while
\* connected, never takes back that its source is exhausted.
Extends(w, v) ==
  /\ w.state.seen >= v.state.seen
  /\ v.upd # None => w.upd # None /\ w.upd >= v.upd
  /\ v.exhausted => w.exhausted

FeedInit ==
  /\ conn = "CONNECTING"
  /\ view \in View /\ view.state.seen = 0 /\ view.upd = None
  /\ ~view.exhausted
  /\ snap = None

ConnectionChanges ==
  /\ <<conn, conn'>> \in ConnEdge
  /\ UNCHANGED <<view, snap>>

Publish ==
  /\ conn = "CONNECTED"
  /\ view' \in View
  /\ Extends(view', view)
  /\ UNCHANGED <<conn, snap>>

\* The source is opened again and begun anew.
Reopen ==
  /\ conn = "CONNECTING"
  /\ view' = [view EXCEPT !.exhausted = FALSE]
  /\ UNCHANGED <<conn, snap>>

Observe ==
  /\ snap' = [connection |-> conn, view |-> view]
  /\ UNCHANGED <<conn, view>>

FeedNext == ConnectionChanges \/ Publish \/ Reopen \/ Observe

FeedSpec == FeedInit /\ [][FeedNext]_feedVars
=============================================================================
