------------------------------ MODULE Dashboard ------------------------------
(***************************************************************************)
(* The terminal dashboard (live/dashboard.py): a frame is composed for the *)
(* size the terminal has, cut once more to the size it has right before    *)
(* the write, and written over the previous one without a clear.  The      *)
(* operator may resize the terminal between any two of these steps.        *)
(*                                                                         *)
(* A line of text is the section it belongs to, what it is about, how wide *)
(* it is and whether it shows all it has to say; a text is its width.  The *)
(* plain rendering, which appends the same lines, is left out.             *)
(***************************************************************************)
EXTENDS Integers, Sequences, SequencesExt, FiniteSetsExt

CONSTANTS
  None,         \* Python's None
  Sizes,        \* the sizes <<columns, rows>> the terminal may take
  Models,       \* the DashboardModels a frame may be asked of
  HeaderChunks, \* widths of the header's chunks: time, uptime, version
  StatusChunks, \* ... and of the system status's: health, mode, the counts
  Headings,     \* widths of the headings of the table's columns
  Escape,       \* width of the escape sequences around a coloured text
  MaxFrames,    \* bound: frames drawn
  MaxResizes    \* bound: resizes

Core == 5       \* _CORE_COLUMN_COUNT
Separator == 2  \* the width of _COL_SEP

NoReceivers == 25  \* the width of the text of an empty table

Severity == 0..5  \* OK, Pending, Warning, Offline, Potential, Spoofing

\* What a LiveRow is to the layout: cells are the widths of its values,
\* compact that of its shorter label; rules are the triggered rules, of
\* which scoring moved the score.
LiveRow ==
  {row \in [conn : {"CONNECTED", "CONNECTING", "DISCONNECTED"},
            status : {"OK", "FAILED", "NO_DATA"},
            analysis : {None, 0, 2, 4, 5},
            cells : [1..Len(Headings) -> Nat], compact : Nat,
            rules : Nat, scoring : Nat] :
     row.analysis = None => row.rules = 0}

ASSUME DashboardAssumption ==
  /\ Sizes \subseteq (Nat \ {0}) \X (Nat \ {0}) /\ Sizes # {}
  /\ \A m \in Models : /\ m.title \in Nat /\ m.rows \in Seq(LiveRow)
                         /\ m.events \in Seq(Nat)
  /\ HeaderChunks \in Seq(Nat) /\ StatusChunks \in Seq(Nat) \ {<<>>}
  /\ Headings \in Seq(Nat) /\ Len(Headings) > Core
  /\ Escape \in Nat /\ MaxFrames \in Nat /\ MaxResizes \in Nat

VARIABLES
  pc,        \* where the render thread is in update()
  size,      \* the terminal: its size, ...
  screen,    \* ... its lines, from the top, ...
  cursor,    \* ... and the row of its cursor
  model,     \* the DashboardModel of the frame, None before the first
  room,      \* the height and width the frame was composed for
  lines,     \* the frame
  cap,       \* the height right before the write
  maxDrawn,  \* _max_lines_drawn
  steady,    \* history: no resize since cap was read
  narrowed,  \* history: a frame was written to a terminal too narrow for it
  frames, resizes  \* how many there were

terminal == <<size, screen, cursor>>
history == <<steady, narrowed, frames, resizes>>
vars == <<pc, terminal, model, room, lines, cap, maxDrawn, history>>

Section == {"shell", "blank", "bar", "title", "header", "status", "table",
            "heading", "row", "hidden", "triggers", "trigger", "more",
            "events", "event"}

Line == [of : Section, about : Nat, width : Nat, whole : BOOLEAN]

ALine(of, about, width) ==
  [of |-> of, about |-> about, width |-> width, whole |-> TRUE]

Blank == ALine("blank", 0, 0)
Old   == ALine("shell", 0, 0)

Least(a, b) == IF a < b THEN a ELSE b
Most(a, b)  == IF a < b THEN b ELSE a

\* _truncate.
Cut(line, width) ==
  IF line.width <= width THEN line
  ELSE [line EXCEPT !.width = width, !.whole = FALSE]

\* Seeded fault: the leading space is added after deciding a chunk fits.
PutOffByOne(packed, chunk, width) ==
  LET fits == Least(chunk, Most(0, width - 1))
  IN  IF packed.line = 0 THEN [packed EXCEPT !.line = fits + 1]
      ELSE IF (packed.line - 1) + 3 + fits <= width
      THEN [packed EXCEPT !.line = @ + 3 + fits]
      ELSE [done |-> Append(packed.done, packed.line), line |-> fits + 1]

\* A chunk goes onto the line if it fits, and onto a new one if not; an empty
\* line is none.
Put(packed, chunk, width) ==
  LET fits == Least(chunk, Most(0, width - 1))
  IN  IF packed.line = 0 THEN [packed EXCEPT !.line = fits + 1]
      ELSE IF packed.line + 3 + fits <= width
      THEN [packed EXCEPT !.line = @ + 3 + fits]
      ELSE [done |-> Append(packed.done, packed.line), line |-> fits + 1]

\* _pack_chunks: the widths of the lines chunks are greedily packed onto.
PackChunks(chunks, width) ==
  LET last == FoldLeft(LAMBDA packed, chunk : Put(packed, chunk, width),
                       [done |-> <<>>, line |-> 0], chunks)
  IN  IF last.line = 0 THEN last.done ELSE Append(last.done, last.line)

Packed(of, about, chunks, width) ==
  LET widths == PackChunks(chunks, width)
  IN  [i \in DOMAIN widths |-> ALine(of, about, widths[i])]

-----------------------------------------------------------------------------
(* The severity of a row and of the whole.                                 *)

\* _row_severity.
RowSeverity(row) ==
  CASE row.conn = "DISCONNECTED" -> 3
    [] row.conn = "CONNECTING"   -> 1
    [] row.status = "NO_DATA"    -> 1
    [] row.analysis # None       -> row.analysis
    [] row.status = "OK"         -> 0
    [] OTHER                     -> 2

\* _overall_severity: 0 when there are no rows.
OverallSeverity(rows) ==
  FoldLeft(LAMBDA worst, row : Most(worst, RowSeverity(row)), 0, rows)

-----------------------------------------------------------------------------
(* The sections, each fitted to the width.                                 *)

RenderHeader(m, width) ==
  <<ALine("bar", 0, width), Cut(ALine("title", 0, m.title + 1), width)>>
    \o Packed("header", 0, HeaderChunks, width)

RenderSystemStatus(m, width) ==
  <<ALine("bar", 0, width)>>
    \o Packed("status", OverallSeverity(m.rows), StatusChunks, width)
    \o <<Blank>>

\* The width of the first n columns: each as wide as its widest cell.
TableWidth(cellsOf, n) ==
  FoldLeft(+, 0, [c \in 1..n |-> Max({Headings[c]} \cup
                                    {cells[c] : cells \in cellsOf})])
    + Separator * (n - 1)

\* _select_columns: as many as fit, never fewer than the core.
SelectColumns(cellsOf, width) ==
  Max({Core} \cup {n \in Core..Len(Headings) : TableWidth(cellsOf, n) <= width})

Fitted(cellsOf, n) == [columns |-> n, width |-> TableWidth(cellsOf, n)]

Compact(row) == [row.cells EXCEPT ![1] = row.compact]

\* The columns and the width of the table: the receivers' labels are
\* shortened when even the core does not fit.
Shorter(full, compact, width) ==
  IF full.width > width /\ compact.width < full.width THEN compact ELSE full

FittedColumns(cellsOf, width) ==
  Fitted(cellsOf, SelectColumns(cellsOf, width))

Layout(shown, width) ==
  Shorter(FittedColumns({row.cells : row \in ToSet(shown)}, width),
          FittedColumns({Compact(row) : row \in ToSet(shown)}, width), width)

\* A line of the table is coloured before it is cut, so its escape
\* sequences count: one pair per heading, one for a row's status.
CutColoured(line, coloured, width) ==
  IF line.width + coloured * Escape <= width THEN line
  ELSE [line EXCEPT !.width = Least(line.width, width), !.whole = FALSE]

\* The rows a table of at most maxRows lines of them has place for: one of
\* the lines is the notice that some are hidden.
ShownRows(rows, maxRows) ==
  IF Len(rows) <= Most(1, maxRows) THEN rows
  ELSE SubSeq(rows, 1, Most(1, maxRows - 1))

\* The lines of a table that shows these of its rows in this layout.
TableLines(shown, hidden, layout, width) ==
  <<CutColoured(ALine("heading", 0, layout.width), layout.columns, width),
    ALine("bar", 0, width)>>
    \o [i \in DOMAIN shown |->
         CutColoured(ALine("row", i, layout.width), 1, width)]
    \o (IF hidden = 0 THEN <<>>
        ELSE <<Cut(ALine("hidden", hidden, 54), width)>>)

TableOf(shown, hidden, width) ==
  TableLines(shown, hidden, Layout(shown, width), width)

\* _render_receiver_table.
RenderReceiverTable(rows, width, maxRows) ==
  <<ALine("bar", 0, width), ALine("table", 0, 15), ALine("bar", 0, width),
    Blank>>
    \o (IF rows = <<>> THEN <<ALine("row", 0, NoReceivers)>>
        ELSE TableOf(ShownRows(rows, maxRows),
                     Len(rows) - Len(ShownRows(rows, maxRows)), width))
    \o <<Blank>>

\* A receiver of which a rule triggered.
Flagged(row) == row.analysis # None /\ row.rules > 0

\* The block of one flagged receiver: its label, its scoring rules, the
\* total and an empty line.
Block(rows, r, width) ==
  <<Cut(ALine("trigger", r, rows[r].compact), width)>>
    \o [i \in 1..rows[r].scoring |-> Cut(ALine("trigger", r, 30), width)]
    \o <<Cut(ALine("trigger", r, 12), width), Blank>>

\* The section in full: the flagged receivers, one block after the other.
Blocks(rows, width) ==
  FoldLeft(LAMBDA text, r :
             IF Flagged(rows[r]) THEN text \o Block(rows, r, width) ELSE text,
           <<ALine("bar", 0, width), ALine("triggers", 0, 18),
             ALine("bar", 0, width), Blank>>,
           [r \in DOMAIN rows |-> r])

\* _render_triggered_analysis: without its last, empty line, and clipped.
RenderTriggeredAnalysis(rows, width, max) ==
  LET text == Front(Blocks(rows, width))
  IN  IF max <= 0 \/ ~\E r \in DOMAIN rows : Flagged(rows[r]) THEN <<>>
      ELSE IF Len(text) <= max THEN text
      ELSE IF max = 1 THEN SubSeq(text, 1, max)
      ELSE Append(SubSeq(text, 1, max - 1), Cut(ALine("more", 0, 33), width))

\* _render_event_log: the section disappears when its headings do not fit.
RenderEventLog(events, width, max) ==
  LET chrome == <<ALine("bar", 0, width), ALine("events", 0, 9),
                  ALine("bar", 0, width)>>
      budget == max - Len(chrome)
      told   == SubSeq(events, 1, Least(Len(events), budget))
  IN  IF max < Len(chrome) THEN <<>>
      ELSE IF told # <<>>
      THEN chrome \o [i \in DOMAIN told |->
                        Cut(ALine("event", i, 12 + told[i]), width)]
      ELSE IF budget > 0 THEN Append(chrome, ALine("event", 0, 17))
      ELSE chrome

-----------------------------------------------------------------------------
(* _lines: the frame for a terminal of the size read.                      *)

Chrome(m, width) == RenderHeader(m, width) \o RenderSystemStatus(m, width)

\* Seeded fault: the table is rendered in full whatever the height.
FittedTableFull(m, width, available) ==
  RenderReceiverTable(m.rows, width, Len(m.rows))

TableFits(m, width, n, available) ==
  Len(Chrome(m, width)) + Len(RenderReceiverTable(m.rows, width, n))
    <= available

\* Seeded fault: the table leaves place for the heading of the event log.
FittedTableLeavingRoom(m, width, available) ==
  RenderReceiverTable(m.rows, width,
    Max({1} \cup {n \in DOMAIN m.rows : TableFits(m, width, n, available - 3)}))

\* The whole table if it fits, or the one with most rows that does, or one
\* row.
FittedTable(m, width, available) ==
  RenderReceiverTable(m.rows, width,
    Max({1} \cup {n \in DOMAIN m.rows : TableFits(m, width, n, available)}))

\* The lower sections share what the upper ones leave.
BelowEverything(above, m, width, available) ==
  above \o RenderEventLog(m.events, width, available - Len(above))

BelowTable(above, m, width, available) ==
  BelowEverything(
    above \o RenderTriggeredAnalysis(m.rows, width, available - Len(above)),
    m, width, available)

FrameFor(m, width, available) ==
  BelowTable(Chrome(m, width) \o FittedTable(m, width, available),
             m, width, available)

Frame(m, width, available) ==
  LET text == FrameFor(m, width, available)
  IN  SubSeq(text, 1, Least(Len(text), available))

-----------------------------------------------------------------------------

Blanks(n) == [i \in 1..n |-> Blank]

Init ==
  /\ size \in Sizes
  /\ screen = [i \in 1..size[2] |-> Old] /\ cursor = size[2]
  /\ pc = "closed" /\ model = None /\ lines = <<>>
  /\ room = [width |-> 1, height |-> 1] /\ cap = 1 /\ maxDrawn = 0
  /\ steady = TRUE /\ narrowed = FALSE /\ frames = 0 /\ resizes = 0

\* open(): the only clear.
Open ==
  /\ pc = "closed"
  /\ pc' = "idle" /\ maxDrawn' = 0
  /\ screen' = Blanks(size[2]) /\ cursor' = 1
  /\ UNCHANGED <<size, model, room, lines, cap, history>>

\* update(): the frame is composed for the size of this moment.
Compose(m) ==
  /\ pc = "idle" /\ frames < MaxFrames
  /\ pc' = "composed" /\ model' = m /\ frames' = frames + 1
  /\ room' = [width |-> Most(1, size[1] - 1), height |-> Most(1, size[2] - 1)]
  /\ lines' = Frame(m, room'.width, room'.height)
  /\ UNCHANGED <<terminal, cap, maxDrawn, steady, narrowed, resizes>>

\* _draw_in_place: the height is read again ...
ReadHeight ==
  /\ pc = "composed"
  /\ pc' = "measured" /\ cap' = Most(1, size[2] - 1) /\ steady' = TRUE
  /\ UNCHANGED <<terminal, model, room, lines, maxDrawn, narrowed, frames,
                 resizes>>

\* The rows of a text on the terminal: a line that is wider than it goes on
\* in the next row.
Rows(line) == 1 + (Most(0, line.width - 1) \div size[1])

Pieces(line) == [k \in 1..Rows(line) |-> Cut(line, size[1])]

Wrapped(text) ==
  FoldLeft(LAMBDA rows, line : rows \o Pieces(line), <<>>, text)

\* The terminal shows rows from its top one on, each line ended by a line
\* feed, and scrolls when there is none left for the cursor.
Shows(rows, above) ==
  LET height == size[2]
      off    == Most(0, Len(rows) + 1 - height)
  IN  [i \in 1..height |->
         IF i + off <= Len(rows) THEN rows[i + off]
         ELSE IF off = 0 THEN above[i] ELSE Blank]

\* The terminal has become narrower than the width the frame was composed
\* for, or is narrower than the text of an empty table, which is never cut.
Narrow == size[1] < Most(room.width + 1, NoReceivers)

\* Seeded fault: the frame is not padded to the tallest one drawn.
PadTo(text, height) == text

\* The frame is padded with empty lines to cover what an earlier one left.
Padded(text, height) == text \o Blanks(Most(0, height - Len(text)))

\* Seeded fault: the last row counts as one to write on.
WriteOnLastRow ==
  LET text   == SubSeq(lines, 1, Least(Len(lines), cap + 1))
      height == Least(Most(Len(text), maxDrawn), cap + 1)
      rows   == Wrapped(Padded(text, height))
  IN  /\ pc = "measured"
      /\ pc' = "idle" /\ maxDrawn' = height /\ lines' = text
      /\ screen' = Shows(rows, screen)
      /\ cursor' = Least(Len(rows) + 1, size[2])
      /\ narrowed' = (narrowed \/ Narrow)
      /\ UNCHANGED <<size, model, room, cap, steady, frames, resizes>>

\* ... but not the width; and the frame, cut to the height and padded, is
\* written over the old one.
Write ==
  LET text   == SubSeq(lines, 1, Least(Len(lines), cap))
      height == Least(Most(Len(text), maxDrawn), cap)
      rows   == Wrapped(Padded(text, height))
  IN  /\ pc = "measured"
      /\ pc' = "idle" /\ maxDrawn' = height /\ lines' = text
      /\ screen' = Shows(rows, screen)
      /\ cursor' = Least(Len(rows) + 1, size[2])
      /\ narrowed' = (narrowed \/ Narrow)
      /\ UNCHANGED <<size, model, room, cap, steady, frames, resizes>>

\* close(): the cursor is restored below the frame.
Close ==
  /\ pc = "idle" /\ pc' = "done"
  /\ UNCHANGED <<terminal, model, room, lines, cap, maxDrawn, history>>

\* The operator resizes the terminal: rows below the cursor are lost, then
\* lines scroll off the top; a taller terminal has empty rows at the bottom.
\* What is on the screen is not wrapped anew.
Resize(s) ==
  /\ s # size /\ resizes < MaxResizes /\ pc # "done"
  /\ size' = s /\ resizes' = resizes + 1 /\ steady' = FALSE
  /\ LET off == Most(0, cursor - s[2])
     IN  /\ cursor' = cursor - off
         /\ screen' = [i \in 1..s[2] |->
                         IF i + off <= size[2] THEN screen[i + off] ELSE Blank]
  /\ UNCHANGED <<pc, model, room, lines, cap, maxDrawn, narrowed, frames>>

Next ==
  \/ Open \/ ReadHeight \/ Write \/ Close
  \/ \E m \in Models : Compose(m)
  \/ \E s \in Sizes : Resize(s)

Spec == Init /\ [][Next]_vars

-----------------------------------------------------------------------------
(* What the dashboard promises.                                            *)

LinesOf(section) == {i \in DOMAIN lines : lines[i].of = section}

TypeOK ==
  /\ pc \in {"closed", "idle", "composed", "measured", "done"}
  /\ size \in Sizes /\ cursor \in 1..size[2]
  /\ DOMAIN screen = 1..size[2] /\ \A i \in 1..size[2] : screen[i] \in Line
  /\ model \in Models \cup {None} /\ lines \in Seq(Line)
  /\ room \in [width : Nat \ {0}, height : Nat \ {0}] /\ cap \in Nat \ {0}
  /\ maxDrawn \in Nat /\ (pc # "measured" => maxDrawn <= cap)
  /\ steady \in BOOLEAN /\ narrowed \in BOOLEAN
  /\ frames \in 0..MaxFrames /\ resizes \in 0..MaxResizes

\* After a write to a terminal that kept its size since its height was read,
\* the screen is the frame and nothing else, whatever longer frames, other
\* sizes and races came before: no line scrolled off the top, and the padding
\* covers all that was ever left below.  That is so until a terminal becomes
\* narrower between composing a frame and writing it; one of a single row
\* scrolls whatever is written to it.
ScreenIsFrame ==
  \A i \in 1..size[2] :
    screen[i] = IF i <= Len(lines) THEN lines[i] ELSE Blank

NothingStale ==
  pc = "idle" /\ steady /\ ~narrowed /\ model # None /\ size[2] > 1 => ScreenIsFrame

\* "enforced again right before the write": not only the height, the width too.
NothingStaleAtAnyWidth ==
  pc = "idle" /\ steady /\ model # None /\ size[2] > 1 => ScreenIsFrame

\* The receivers come first: a frame that has place for a line of the lower
\* sections shows every receiver, and one with place for the event log shows
\* every trigger.
ReceiversFirst ==
  pc = "composed" =>
    /\ LinesOf("triggers") \cup LinesOf("events") # {} =>
         LinesOf("hidden") = {} /\ Len(model.rows) <= Cardinality(LinesOf("row"))
    /\ LinesOf("events") # {} =>
         /\ LinesOf("more") = {}
         /\ \A r \in DOMAIN model.rows :
              model.rows[r].rules > 0 =>
                Cardinality({i \in LinesOf("trigger") : lines[i].about = r})
                  = model.rows[r].scoring + 2

\* A receiver that had to be left out is never left out silently, on any
\* terminal that has place for one row: the notice counts it, and the overall
\* health is still at least as bad as what was found about it.
NothingHiddenSilently ==
  LET smallest == Len(Chrome(model, room.width))
                    + Len(RenderReceiverTable(model.rows, room.width, 1))
      shown == {lines[i].about : i \in LinesOf("row")}
  IN  pc = "composed" /\ smallest <= room.height =>
        \A r \in DOMAIN model.rows \ shown :
          /\ \E i \in LinesOf("hidden") :
               lines[i].about + Cardinality(shown) = Len(model.rows)
          /\ \E i \in LinesOf("status") :
               lines[i].about >= RowSeverity(model.rows[r])

\* No line is wider than the terminal less its last column, or than the longest
\* of the few fixed texts that are never cut, the one of an empty table.
WidthRespected ==
  pc = "composed" =>
    \A i \in DOMAIN lines : lines[i].width <= Most(room.width, NoReceivers)

\* On a wide terminal every column of the table is kept and its heading shown
\* in full, as the tests of the plain frame have it.
WideKeepsEveryColumn ==
  pc = "composed" /\ room.width >= 159 =>
    \A i \in LinesOf("heading") : lines[i].whole
=============================================================================
