--------------------------- MODULE DashboardProofs ---------------------------
(***************************************************************************)
(* Proofs about Dashboard, for every terminal, every list of receivers and *)
(* every text: what the frame shows and hides, and what is left on the     *)
(* screen after it is written over the previous one.                       *)
(***************************************************************************)
EXTENDS Dashboard, Folding

\* The lines of some sections, none wider than the frame allows.
Text(width, sections) ==
  {line \in Line : line.width <= Most(width, NoReceivers)
                     /\ line.of \in sections}

Positive == Nat \ {0}

-----------------------------------------------------------------------------
(* The parts of a line.                                                    *)

LEMMA LineType ==
  ASSUME NEW w \in Positive, NEW S \in SUBSET Section, NEW of \in S,
         NEW about \in Nat, NEW width \in Nat, width <= Most(w, NoReceivers)
  PROVE  /\ ALine(of, about, width) \in Text(w, S)
         /\ ALine(of, about, width) \in Line
         /\ ALine(of, about, width).of = of
         /\ ALine(of, about, width).about = about
         /\ ALine(of, about, width).width = width
BY DEF ALine, Text, Line

\* A line that was cut is the line it was, but no wider than the terminal.
LEMMA CutType ==
  ASSUME NEW w \in Positive, NEW S \in SUBSET Section,
         NEW line \in Line, line.of \in S
  PROVE  /\ Cut(line, w) \in Text(w, S)
         /\ Cut(line, w).of = line.of /\ Cut(line, w).about = line.about
<1> DEFINE cut == [line EXCEPT !.width = w, !.whole = FALSE]
<1>1. /\ cut \in Line /\ cut.width = w
      /\ cut.of = line.of /\ cut.about = line.about
  BY DEF Line, Positive
<1>2. line.width \in Nat /\ w \in Nat /\ w <= Most(w, NoReceivers)
  BY DEF Line, Positive, Most, NoReceivers
<1>3. Cut(line, w) = IF line.width <= w THEN line ELSE cut
  BY DEF Cut
<1>4. CASE line.width <= w
  <2>1. line.width <= Most(w, NoReceivers)
    BY <1>2, <1>4 DEF Most, NoReceivers
  <2> QED
    BY <1>3, <1>4, <2>1 DEF Text
<1>5. CASE ~(line.width <= w)
  <2> HIDE DEF cut
  <2> QED
    BY <1>1, <1>2, <1>3, <1>5 DEF Text
<1> QED
  BY <1>4, <1>5

LEMMA CutColouredType ==
  ASSUME NEW w \in Positive, NEW S \in SUBSET Section,
         NEW line \in Line, line.of \in S, NEW coloured \in Nat
  PROVE  /\ CutColoured(line, coloured, w) \in Text(w, S)
         /\ CutColoured(line, coloured, w).of = line.of
         /\ CutColoured(line, coloured, w).about = line.about
<1>1. Escape \in Nat
  BY DashboardAssumption
<1>2. coloured * Escape \in Nat
  BY <1>1
<1> DEFINE cut == [line EXCEPT !.width = Least(line.width, w), !.whole = FALSE]
<1>3. line.width \in Nat /\ w \in Nat /\ w <= Most(w, NoReceivers)
  BY DEF Line, Positive, Most, NoReceivers
<1>4. Least(line.width, w) \in Nat /\ Least(line.width, w) <= w
  BY <1>3 DEF Least
<1>5. /\ cut \in Line /\ cut.width = Least(line.width, w)
      /\ cut.of = line.of /\ cut.about = line.about
  <2> DEFINE width == Least(line.width, w)
  <2>1. width \in Nat
    BY <1>4
  <2>2. /\ [line EXCEPT !.width = width, !.whole = FALSE] \in Line
        /\ [line EXCEPT !.width = width, !.whole = FALSE].width = width
        /\ [line EXCEPT !.width = width, !.whole = FALSE].of = line.of
        /\ [line EXCEPT !.width = width, !.whole = FALSE].about = line.about
    <3> HIDE DEF width
    <3> QED BY <2>1 DEF Line
  <2> QED
    BY <2>2
<1>6. CutColoured(line, coloured, w) = IF line.width + coloured * Escape <= w THEN line ELSE cut
  BY DEF CutColoured
<1>7. CASE line.width + coloured * Escape <= w
  <2>1. line.width <= w
    <3> DEFINE e == coloured * Escape
    <3>1. e \in Nat /\ line.width + e <= w
      BY <1>2, <1>7
    <3> HIDE DEF e
    <3> QED BY <1>3, <3>1
  <2>2. line.width <= Most(w, NoReceivers)
    BY <1>3, <2>1 DEF Most, NoReceivers
  <2> QED
    BY <1>6, <1>7, <2>2 DEF Text
<1>8. CASE ~(line.width + coloured * Escape <= w)
  <2>1. CutColoured(line, coloured, w) = cut
    BY <1>6, <1>8
  <2>2. cut.width <= Most(w, NoReceivers)
    BY <1>3, <1>4, <1>5 DEF Most, NoReceivers
  <2> HIDE DEF cut
  <2> QED
    BY <1>5, <2>1, <2>2 DEF Text
<1> QED
  BY <1>7, <1>8

LEMMA MoreText ==
  ASSUME NEW w \in Positive, NEW S, NEW R, S \subseteq R
  PROVE  Seq(Text(w, S)) \subseteq Seq(Text(w, R))
BY DEF Text

LEMMA BlankType ==
  ASSUME NEW w \in Positive
  PROVE  Blank \in Text(w, {"blank"}) /\ Blank.of = "blank" /\ Blank \in Line
BY DEF Blank, ALine, Text, Line, Most, NoReceivers, Positive, Section

-----------------------------------------------------------------------------
(* The severity of the whole is that of its worst row.                     *)

LEMMA SeverityType ==
  ASSUME NEW row \in LiveRow
  PROVE  RowSeverity(row) \in Nat
BY DEF RowSeverity, LiveRow

\* No row is worse than the whole.
LEMMA OverallIsWorst ==
  ASSUME NEW rows \in Seq(LiveRow)
  PROVE  /\ OverallSeverity(rows) \in Nat
         /\ \A r \in DOMAIN rows : OverallSeverity(rows) >= RowSeverity(rows[r])
<1> DEFINE n == Len(rows)
           op == [i \in 1..n |-> [a \in Nat |-> Most(a, RowSeverity(rows[i]))]]
           Solves(h) == h = [s \in SUBSET (1..n) |->
                               IF s = {} THEN 0
                               ELSE Most(h[s \ {Max(s)}], RowSeverity(rows[Max(s)]))]
           it == CHOOSE h : Solves(h)
<1>1. n \in Nat /\ DOMAIN rows = 1..n
  OBVIOUS
<1>2. \A i \in 1..n : RowSeverity(rows[i]) \in Nat
  BY SeverityType
<1>3. op \in [1..n -> [Nat -> Nat]]
  BY <1>2 DEF Most
<1>4. PICK f, g : Ends(f, g, n, Nat, 0, op)
  <2> DEFINE A == Nat
             base == 0
  <2>1. base \in A /\ n \in Nat /\ op \in [1..n -> [A -> A]]
    BY <1>1, <1>3
  <2>2. \E f, g : Ends(f, g, n, A, base, op)
    <3> HIDE DEF op, n, A, base
    <3> QED BY <2>1, ChainExists
  <2> QED
    BY <2>2
<1>5. Solves(f)
  <2>1. ASSUME NEW s \in SUBSET (1..n), s # {}
        PROVE  f[s] = Most(f[s \ {Max(s)}], RowSeverity(rows[Max(s)]))
    BY <1>4, <2>1 DEF Ends, FoldsBack
  <2>2. f[{}] = 0 /\ f \in [SUBSET (1..n) -> Nat]
    BY <1>4 DEF Ends, FoldsBack
  <2> QED
    BY <2>1, <2>2
<1>6. Solves(it)
  BY <1>5
<1>7. it[1..n] = f[1..n]
  <2>1. it[{}] = f[{}]
    BY <1>5, <1>6
  <2>2. ASSUME NEW s \in SUBSET (1..n), s # {}, it[s \ {Top(n)[s]}] = f[s \ {Top(n)[s]}]
        PROVE  it[s] = f[s]
    <3>1. s # {} /\ Top(n)[s] = Max(s)
      BY <2>2 DEF Top
    <3> HIDE DEF it
    <3>2. f[s] = Most(f[s \ {Max(s)}], RowSeverity(rows[Max(s)]))
      BY <1>5, <3>1
    <3>3. it[s] = Most(it[s \ {Max(s)}], RowSeverity(rows[Max(s)]))
      BY <1>6, <3>1
    <3> QED BY <2>2, <3>1, <3>2, <3>3, Zenon
  <2>3. StepsAgree(it, f, 1..n, Top(n))
    BY <2>1, <2>2 DEF StepsAgree
  <2> HIDE DEF it, n
  <2> QED
    BY <1>1, <2>3, SameEnd
<1>8. OverallSeverity(rows) = it[1..n]
  BY <1>1 DEF OverallSeverity, FoldLeft, MapThenFoldSet
<1> DEFINE Good == {i \in Nat : i <= n =>
                      \A r \in 1..i : g[i] >= RowSeverity(rows[r])}
<1>9. ASSUME NEW i \in Nat, i \in Good PROVE i + 1 \in Good
  <2> SUFFICES ASSUME i + 1 <= n, NEW r \in 1..(i + 1)
               PROVE  g[i + 1] >= RowSeverity(rows[r])
    OBVIOUS
  <2>0. /\ i + 1 \in 1..n /\ i \in 0..n /\ i + 1 \in 0..n
        /\ (i + 1) - 1 = i
    BY <1>1
  <2>1. g[i] \in Nat
    BY <1>4, <2>0 DEF Ends
  <2>2. g[i + 1] = Most(g[i], RowSeverity(rows[i + 1]))
    BY <1>4, <2>0 DEF Ends, Chain
  <2>3. r = i + 1 \/ r \in 1..i
    OBVIOUS
  <2>4. r \in 1..n
    OBVIOUS
  <2> QED
    BY <1>2, <1>9, <2>0, <2>1, <2>2, <2>3, <2>4 DEF Most
<1>10. \A i \in Nat : i \in Good
  <2>1. 0 \in Good
    OBVIOUS
  <2> HIDE DEF Good
  <2> QED BY <1>9, <2>1, NumberInduction
<1>11. \A r \in 1..n : g[n] >= RowSeverity(rows[r])
  BY <1>1, <1>10
<1>12. g[n] \in Nat
  BY <1>1, <1>4 DEF Ends
<1> QED
  BY <1>1, <1>4, <1>7, <1>8, <1>11, <1>12 DEF Ends

-----------------------------------------------------------------------------
(* The lines that chunks are packed onto.                                  *)

Packing(w) == [done : Seq(0..w), line : 0..w]

LEMMA PutType ==
  ASSUME NEW w \in Positive, NEW packed \in Packing(w), NEW chunk \in Nat
  PROVE  Put(packed, chunk, w) \in Packing(w) /\ Put(packed, chunk, w).line \in 1..w
<1> DEFINE fits == Least(chunk, Most(0, w - 1))
           at(n) == [packed EXCEPT !.line = n]
           next == [done |-> Append(packed.done, packed.line), line |-> fits + 1]
<1>1. /\ fits \in Nat /\ fits + 1 \in 1..w
  BY DEF Positive, Least, Most
<1>2. packed.line \in 0..w /\ packed.done \in Seq(0..w)
  BY DEF Packing
<1>3. \A n \in 0..w : at(n) \in Packing(w) /\ at(n).line = n
  BY DEF Packing
<1>4. next \in Packing(w) /\ next.line = fits + 1
  BY <1>1, <1>2 DEF Packing
<1>5. Put(packed, chunk, w) =
        IF packed.line = 0 THEN at(fits + 1)
        ELSE IF packed.line + 3 + fits <= w THEN at(packed.line + 3 + fits)
        ELSE next
  BY DEF Put
<1>6. packed.line + 3 + fits <= w => packed.line + 3 + fits \in 1..w
  <2> HIDE DEF fits
  <2> QED BY <1>1, <1>2 DEF Positive
<1>7. 1..w \subseteq 0..w
  OBVIOUS
<1> QED
  <2> HIDE DEF fits, at, next
  <2> QED BY <1>1, <1>3, <1>4, <1>5, <1>6, <1>7

\* Chunks are packed onto lines no wider than the terminal, and any chunk at
\* all makes a line.
LEMMA PackChunksType ==
  ASSUME NEW w \in Positive, NEW chunks \in Seq(Nat)
  PROVE  /\ PackChunks(chunks, w) \in Seq(0..w)
         /\ chunks # <<>> => PackChunks(chunks, w) # <<>>
<1> DEFINE n == Len(chunks)
           A == Packing(w)
           base == [done |-> <<>>, line |-> 0]
           op == [i \in 1..n |-> [a \in A |-> Put(a, chunks[i], w)]]
           Solves(h) == h = [s \in SUBSET (1..n) |->
                               IF s = {} THEN base
                               ELSE Put(h[s \ {Max(s)}], chunks[Max(s)], w)]
           it == CHOOSE h : Solves(h)
<1>1. n \in Nat /\ DOMAIN chunks = 1..n /\ (chunks # <<>> => n > 0)
  OBVIOUS
<1>2. \A i \in 1..n : chunks[i] \in Nat
  OBVIOUS
<1>3. op \in [1..n -> [A -> A]]
  <2>1. \A i \in 1..n : \A a \in A : Put(a, chunks[i], w) \in A
    <3> HIDE DEF n
    <3> QED BY <1>2, PutType
  <2> HIDE DEF n, A
  <2> QED BY <2>1
<1>4. base \in A
  BY DEF Packing, Positive
<1>5. PICK f, g : Ends(f, g, n, A, base, op)
  <2> HIDE DEF op, n, A, base
  <2> QED BY <1>1, <1>3, <1>4, ChainExists
<1>6. Solves(f)
  <2>1. ASSUME NEW s \in SUBSET (1..n), s # {}
        PROVE  f[s] = Put(f[s \ {Max(s)}], chunks[Max(s)], w)
    <3> HIDE DEF n, A, base
    <3> QED BY <1>5, <2>1 DEF Ends, FoldsBack
  <2>2. f[{}] = base /\ f \in [SUBSET (1..n) -> A]
    BY <1>5 DEF Ends, FoldsBack
  <2> HIDE DEF n, A, base
  <2> QED
    BY <2>1, <2>2
<1>7. Solves(it)
  <2> HIDE DEF Solves
  <2> QED BY <1>6
<1>8. it[1..n] = f[1..n]
  <2>1. it[{}] = f[{}]
    <3> HIDE DEF it, n, base
    <3> QED BY <1>6, <1>7
  <2>2. ASSUME NEW s \in SUBSET (1..n), s # {}, it[s \ {Top(n)[s]}] = f[s \ {Top(n)[s]}]
        PROVE  it[s] = f[s]
    <3>1. s # {} /\ Top(n)[s] = Max(s)
      BY <2>2 DEF Top
    <3> HIDE DEF it, n, base
    <3>2. f[s] = Put(f[s \ {Max(s)}], chunks[Max(s)], w)
      BY <1>6, <3>1
    <3>3. it[s] = Put(it[s \ {Max(s)}], chunks[Max(s)], w)
      BY <1>7, <3>1
    <3> QED BY <2>2, <3>1, <3>2, <3>3, Zenon
  <2>3. StepsAgree(it, f, 1..n, Top(n))
    BY <2>1, <2>2 DEF StepsAgree
  <2> HIDE DEF it, n
  <2> QED
    BY <1>1, <2>3, SameEnd
<1> DEFINE last == FoldLeft(LAMBDA packed, chunk : Put(packed, chunk, w), base, chunks)
<1>9. last = it[1..n]
  BY <1>1 DEF FoldLeft, MapThenFoldSet
<1>10. last = g[n] /\ g[n] \in A
  <2>1. n \in 0..n
    BY <1>1
  <2> HIDE DEF last, it, n, A
  <2> QED
    BY <1>5, <1>8, <1>9, <2>1 DEF Ends
<1>11. n > 0 => g[n].line \in 1..w
  <2> SUFFICES ASSUME n > 0 PROVE g[n].line \in 1..w
    OBVIOUS
  <2>1. n \in 1..n /\ n - 1 \in 0..n
    BY <1>1
  <2>2. g[n - 1] \in A /\ g[n] = Put(g[n - 1], chunks[n], w)
    <3> HIDE DEF n, A, base
    <3> QED BY <1>5, <2>1 DEF Ends, Chain
  <2>3. chunks[n] \in Nat
    BY <1>2, <2>1
  <2> HIDE DEF n
  <2> QED BY <2>2, <2>3, PutType
<1>12. PackChunks(chunks, w) = IF last.line = 0 THEN last.done
                               ELSE Append(last.done, last.line)
  BY DEF PackChunks
<1>13. last.done \in Seq(0..w) /\ last.line \in 0..w
  <2> HIDE DEF last, n
  <2> QED BY <1>10 DEF Packing
<1> QED
  <2>1. Append(last.done, last.line) \in Seq(0..w) /\ Append(last.done, last.line) # <<>>
    <3> DEFINE S == 0..w
               done == last.done
               line == last.line
    <3>1. done \in Seq(S) /\ line \in S
      BY <1>13
    <3> HIDE DEF S, done, line
    <3>2. Append(done, line) \in Seq(S) /\ Append(done, line) # <<>>
      BY <3>1
    <3> QED BY <3>2 DEF S, done, line
  <2>2. chunks # <<>> => last.line # 0
    <3> HIDE DEF last, n
    <3> QED BY <1>1, <1>10, <1>11
  <2> HIDE DEF last, n, it
  <2> QED BY <1>12, <1>13, <2>1, <2>2

LEMMA PackedType ==
  ASSUME NEW w \in Positive, NEW of \in Section, NEW about \in Nat,
         NEW chunks \in Seq(Nat)
  PROVE  /\ Packed(of, about, chunks, w) \in Seq(Text(w, {of}))
         /\ \A i \in DOMAIN Packed(of, about, chunks, w) :
              Packed(of, about, chunks, w)[i].about = about
         /\ chunks # <<>> => Len(Packed(of, about, chunks, w)) >= 1
<1> DEFINE widths == PackChunks(chunks, w)
           text == [i \in DOMAIN widths |-> ALine(of, about, widths[i])]
<1>1. widths \in Seq(0..w) /\ (chunks # <<>> => widths # <<>>)
  BY PackChunksType
<1>2. text = Packed(of, about, chunks, w)
  BY DEF Packed
<1> HIDE DEF widths
<1>3. \A i \in DOMAIN widths : widths[i] \in Nat /\ widths[i] <= Most(w, NoReceivers)
  BY <1>1 DEF Most, NoReceivers, Positive
<1>4. \A i \in DOMAIN widths : /\ text[i] \in Text(w, {of}) /\ text[i].about = about
  <2> DEFINE S == {of}
  <2>1. of \in S /\ S \in SUBSET Section
    OBVIOUS
  <2>2. \A x \in Nat : x <= Most(w, NoReceivers) =>
          /\ ALine(of, about, x) \in Text(w, S) /\ ALine(of, about, x).about = about
    <3> SUFFICES ASSUME NEW x \in Nat, x <= Most(w, NoReceivers)
                 PROVE  /\ ALine(of, about, x) \in Text(w, S)
                        /\ ALine(of, about, x).about = about
      OBVIOUS
    <3> DEFINE line == ALine(of, about, x)
    <3>1. line = [of |-> of, about |-> about, width |-> x, whole |-> TRUE]
      BY DEF ALine
    <3> HIDE DEF line, text, S
    <3>2. line \in Line /\ line.width = x /\ line.of = of /\ line.about = about
      BY <2>1, <3>1 DEF Line
    <3> QED BY <2>1, <3>2 DEF Text, line
  <2> QED
    BY <1>3, <2>2
<1>5. DOMAIN widths = 1..Len(widths) /\ Len(widths) \in Nat
  BY <1>1
<1>6. text \in Seq(Text(w, {of})) /\ Len(text) = Len(widths)
  <2> DEFINE k == Len(widths)
             T == Text(w, {of})
  <2>1. text \in [1..k -> T] /\ k \in Nat
    BY <1>4, <1>5
  <2> HIDE DEF text, k, T
  <2>2. text \in Seq(T) /\ Len(text) = k
    BY <2>1
  <2> QED BY <2>2 DEF T, k
<1>7. widths # <<>> => Len(widths) >= 1
  BY <1>1
<1>8. DOMAIN text = DOMAIN widths
  OBVIOUS
<1> HIDE DEF text
<1>9. \A i \in DOMAIN text : text[i].about = about
  BY <1>4, <1>8
<1>10. chunks # <<>> => Len(text) >= 1
  BY <1>1, <1>5, <1>6, <1>7
<1> QED
  BY <1>2, <1>6, <1>9, <1>10

-----------------------------------------------------------------------------
(* The upper sections.                                                     *)

ChromeSections == {"bar", "title", "header", "status", "blank"}

\* Every line of the chrome belongs to it, and among them is the state of the
\* whole.
LEMMA ChromeType ==
  ASSUME NEW m \in Models, NEW w \in Positive
  PROVE  /\ Chrome(m, w) \in Seq(Text(w, ChromeSections))
         /\ \E i \in DOMAIN Chrome(m, w) :
              /\ Chrome(m, w)[i].of = "status"
              /\ Chrome(m, w)[i].about = OverallSeverity(m.rows)
<1> DEFINE T == Text(w, ChromeSections)
           bar == ALine("bar", 0, w)
           title == Cut(ALine("title", 0, m.title + 1), w)
           head == Packed("header", 0, HeaderChunks, w)
           state == Packed("status", OverallSeverity(m.rows), StatusChunks, w)
<1>1. /\ m.title \in Nat /\ m.rows \in Seq(LiveRow)
      /\ HeaderChunks \in Seq(Nat) /\ StatusChunks \in Seq(Nat)
      /\ StatusChunks # <<>> /\ OverallSeverity(m.rows) \in Nat
  <2>1. /\ m.title \in Nat /\ m.rows \in Seq(LiveRow)
        /\ HeaderChunks \in Seq(Nat) /\ StatusChunks \in Seq(Nat)
        /\ StatusChunks # <<>>
    BY DashboardAssumption
  <2> QED
    BY <2>1, OverallIsWorst
<1>2. bar \in T
  BY DEF Text, ALine, Line, ChromeSections, Section, Most, NoReceivers, Positive
<1>3. title \in T
  <2>1. ALine("title", 0, m.title + 1) \in Line /\ ALine("title", 0, m.title + 1).of = "title"
    BY <1>1 DEF ALine, Line, Section
  <2> DEFINE S == ChromeSections
             line == ALine("title", 0, m.title + 1)
  <2>2. line \in Line /\ line.of \in S /\ S \in SUBSET Section
    BY <2>1 DEF ChromeSections, Section
  <2>3. Cut(line, w) \in Text(w, S)
    <3> HIDE DEF line, S
    <3> QED BY <2>2, CutType
  <2> QED
    BY <2>3
<1>4. Blank \in T
  BY BlankType DEF Text, ChromeSections
<1>5. head \in Seq(T)
  <2>1. "header" \in Section /\ 0 \in Nat
    BY DEF Section
  <2>2. head \in Seq(Text(w, {"header"}))
    BY <1>1, <2>1, PackedType
  <2> QED
    BY <2>2, MoreText DEF ChromeSections
<1>6. /\ state \in Seq(T) /\ Len(state) >= 1
      /\ state \in Seq(Text(w, {"status"}))
      /\ \A i \in DOMAIN state : state[i].about = OverallSeverity(m.rows)
  <2>1. "status" \in Section
    BY DEF Section
  <2>2. /\ state \in Seq(Text(w, {"status"})) /\ Len(state) >= 1
        /\ \A i \in DOMAIN state : state[i].about = OverallSeverity(m.rows)
    BY <1>1, <2>1, PackedType
  <2> QED
    BY <2>2, MoreText DEF ChromeSections
<1>7. Chrome(m, w) = (<<bar, title>> \o head) \o ((<<bar>> \o state) \o <<Blank>>)
  BY DEF Chrome, RenderHeader, RenderSystemStatus
<1>8. state[1].of = "status" /\ state[1].about = OverallSeverity(m.rows)
  <2>1. 1 \in DOMAIN state /\ state[1] \in Text(w, {"status"})
    <3> HIDE DEF state
    <3> QED BY <1>6
  <2> QED
    BY <1>6, <2>1 DEF Text
<1> HIDE DEF T, bar, title, head, state
<1> DEFINE upper == <<bar, title>> \o head
           lower == (<<bar>> \o state) \o <<Blank>>
<1>9. upper \in Seq(T) /\ <<bar>> \o state \in Seq(T) /\ <<Blank>> \in Seq(T)
  BY <1>2, <1>3, <1>4, <1>5, <1>6
<1>10. lower \in Seq(T) /\ Len(lower) >= 2 /\ lower[2] = state[1]
  BY <1>2, <1>4, <1>6, <1>9
<1>11. upper \o lower \in Seq(T) /\ Len(upper) + 2 \in DOMAIN (upper \o lower)
         /\ (upper \o lower)[Len(upper) + 2] = lower[2]
  <2> HIDE DEF upper, lower
  <2> QED BY <1>9, <1>10
<1>12. Chrome(m, w) = upper \o lower
  BY <1>7
<1> HIDE DEF upper, lower
<1> QED
  BY <1>8, <1>10, <1>11, <1>12 DEF T

-----------------------------------------------------------------------------
(* The table.                                                              *)

Cells == [1..Len(Headings) -> Nat]

LEMMA HeadingsType == Headings \in Seq(Nat) /\ Len(Headings) \in Nat /\ Len(Headings) > Core
BY DashboardAssumption

\* A column is as wide as some cell of it.
LEMMA ColumnType ==
  ASSUME NEW cellsOf \in SUBSET Cells, IsFiniteSet(cellsOf), NEW c \in 1..Len(Headings)
  PROVE  Max({Headings[c]} \cup {cells[c] : cells \in cellsOf}) \in Nat
<1> DEFINE at == [cells \in cellsOf |-> cells[c]]
           S == {at[cells] : cells \in cellsOf}
           all == S \cup {Headings[c]}
<1>1. IsFiniteSet(S)
  <2>1. DOMAIN at = cellsOf
    OBVIOUS
  <2> HIDE DEF at
  <2> QED BY <2>1, ImageFinite
<1>2. IsFiniteSet(all)
  <2> HIDE DEF S
  <2> QED BY <1>1, FS_AddElement
<1>3. all \subseteq Nat /\ all # {}
  <2>1. Headings[c] \in Nat
    BY HeadingsType
  <2>2. \A cells \in cellsOf : at[cells] \in Nat
    BY DEF Cells
  <2> HIDE DEF at
  <2> QED BY <2>1, <2>2
<1>4. Max(all) \in all
  <2>1. all \subseteq Int
    BY <1>3
  <2> HIDE DEF all
  <2> QED BY <1>2, <1>3, <2>1, MaxIsGreatest
<1>5. all = {Headings[c]} \cup {cells[c] : cells \in cellsOf}
  OBVIOUS
<1> QED
  <2> HIDE DEF all
  <2> QED BY <1>3, <1>4, <1>5

LEMMA TableWidthType ==
  ASSUME NEW cellsOf \in SUBSET Cells, IsFiniteSet(cellsOf), NEW n \in 1..Len(Headings)
  PROVE  TableWidth(cellsOf, n) \in Nat
<1> DEFINE column(c) == Max({Headings[c]} \cup {cells[c] : cells \in cellsOf})
           v == [c \in 1..n |-> column(c)]
           op == [i \in 1..n |-> [a \in Nat |-> a + v[i]]]
           Solves(h) == h = [s \in SUBSET (1..n) |->
                               IF s = {} THEN 0 ELSE h[s \ {Max(s)}] + v[Max(s)]]
           it == CHOOSE h : Solves(h)
<1>1. n \in Nat /\ n >= 1 /\ \A c \in 1..n : c \in 1..Len(Headings)
  BY HeadingsType
<1>2. \A c \in 1..n : column(c) \in Nat
  BY <1>1, ColumnType
<1> HIDE DEF column
<1>3. \A i \in 1..n : v[i] \in Nat
  BY <1>2
<1>4. DOMAIN v = 1..n
  OBVIOUS
<1>5. TableWidth(cellsOf, n) = FoldLeft(+, 0, v) + Separator * (n - 1)
  BY DEF TableWidth, column
<1>6. FoldLeft(+, 0, v) = it[1..n]
  BY <1>4 DEF FoldLeft, MapThenFoldSet
<1> HIDE DEF v
<1>7. op \in [1..n -> [Nat -> Nat]]
  BY <1>3
<1>8. PICK f, g : Ends(f, g, n, Nat, 0, op)
  <2> DEFINE A == Nat
             base == 0
  <2>1. base \in A /\ op \in [1..n -> [A -> A]]
    BY <1>7
  <2>2. \E f, g : Ends(f, g, n, A, base, op)
    <3> HIDE DEF op, A, base
    <3> QED BY <1>1, <2>1, ChainExists
  <2> QED
    BY <2>2
<1>9. Solves(f)
  <2>1. ASSUME NEW s \in SUBSET (1..n), s # {}
        PROVE  f[s] = f[s \ {Max(s)}] + v[Max(s)]
    BY <1>8, <2>1 DEF Ends, FoldsBack
  <2>2. f[{}] = 0 /\ f \in [SUBSET (1..n) -> Nat]
    BY <1>8 DEF Ends, FoldsBack
  <2> QED
    BY <2>1, <2>2
<1>10. Solves(it)
  BY <1>9
<1>11. it[1..n] = f[1..n]
  <2>1. it[{}] = f[{}]
    BY <1>9, <1>10
  <2>2. ASSUME NEW s \in SUBSET (1..n), s # {}, it[s \ {Top(n)[s]}] = f[s \ {Top(n)[s]}]
        PROVE  it[s] = f[s]
    <3>1. s # {} /\ Top(n)[s] = Max(s)
      BY <2>2 DEF Top
    <3> HIDE DEF it
    <3>2. f[s] = f[s \ {Max(s)}] + v[Max(s)]
      BY <1>9, <3>1
    <3>3. it[s] = it[s \ {Max(s)}] + v[Max(s)]
      BY <1>10, <3>1
    <3> QED BY <2>2, <3>1, <3>2, <3>3, Zenon
  <2>3. StepsAgree(it, f, 1..n, Top(n))
    BY <2>1, <2>2 DEF StepsAgree
  <2> HIDE DEF it
  <2> QED
    BY <1>1, <2>3, SameEnd
<1>12. f[1..n] \in Nat
  BY <1>8 DEF Ends
<1> DEFINE sum == it[1..n]
<1>13. sum \in Nat /\ TableWidth(cellsOf, n) = sum + Separator * (n - 1)
  BY <1>5, <1>6, <1>11, <1>12
<1> HIDE DEF sum
<1> QED
  BY <1>1, <1>13 DEF Separator

LEMMA SelectColumnsType ==
  ASSUME NEW cellsOf, NEW w \in Positive
  PROVE  SelectColumns(cellsOf, w) \in 1..Len(Headings)
<1> DEFINE fit == {n \in Core..Len(Headings) : TableWidth(cellsOf, n) <= w}
           all == {Core} \cup fit
           I == 1..Len(Headings)
<1>1. all \in SUBSET I
  BY HeadingsType DEF Core
<1>2. IsFiniteSet(I) /\ I \subseteq Int
  BY HeadingsType, FS_Interval
<1>3. SelectColumns(cellsOf, w) = Max(all)
  BY DEF SelectColumns
<1>4. all # {}
  OBVIOUS
<1> HIDE DEF all, I
<1>5. IsFiniteSet(all)
  BY <1>1, <1>2, FS_Subset
<1>6. Max(all) \in all
  BY <1>1, <1>2, <1>4, <1>5, MaxIsGreatest
<1> QED
  BY <1>1, <1>3, <1>6 DEF I

LEMMA FittedColumnsType ==
  ASSUME NEW cellsOf \in SUBSET Cells, IsFiniteSet(cellsOf), NEW w \in Positive
  PROVE  FittedColumns(cellsOf, w) \in [columns : Nat, width : Nat]
<1>1. SelectColumns(cellsOf, w) \in 1..Len(Headings)
  BY SelectColumnsType
<1>2. TableWidth(cellsOf, SelectColumns(cellsOf, w)) \in Nat
  BY <1>1, TableWidthType
<1>3. SelectColumns(cellsOf, w) \in Nat
  BY <1>1, HeadingsType
<1> QED
  BY <1>2, <1>3 DEF FittedColumns, Fitted

\* The cells of a table are a finite set of them, the shortened ones too.
LEMMA LayoutType ==
  ASSUME NEW shown \in Seq(LiveRow), NEW w \in Positive
  PROVE  Layout(shown, w).columns \in Nat /\ Layout(shown, w).width \in Nat
<1> DEFINE full == [i \in DOMAIN shown |-> shown[i].cells]
           short == [i \in DOMAIN shown |-> Compact(shown[i])]
           Full == {full[i] : i \in DOMAIN shown}
           Short == {short[i] : i \in DOMAIN shown}
<1>1. IsFiniteSet(DOMAIN shown)
  <2>1. DOMAIN shown = 1..Len(shown) /\ Len(shown) \in Nat
    OBVIOUS
  <2> QED
    BY <2>1, FS_Interval
<1>2. \A i \in DOMAIN shown : shown[i].cells \in Cells /\ shown[i].compact \in Nat
  BY DEF LiveRow, Cells
<1>3. \A i \in DOMAIN shown : Compact(shown[i]) \in Cells
  BY <1>2, HeadingsType DEF Compact, Cells
<1>4. Full \in SUBSET Cells /\ Short \in SUBSET Cells
  BY <1>2, <1>3
<1>5. DOMAIN full = DOMAIN shown /\ DOMAIN short = DOMAIN shown
  OBVIOUS
<1>6. /\ {row.cells : row \in ToSet(shown)} = Full
      /\ {Compact(row) : row \in ToSet(shown)} = Short
  BY DEF ToSet
<1>7. IsFiniteSet(Full) /\ IsFiniteSet(Short)
  <2> HIDE DEF full, short
  <2> QED BY <1>1, <1>5, ImageFinite
<1> HIDE DEF Full, Short
<1>8. /\ FittedColumns(Full, w) \in [columns : Nat, width : Nat]
      /\ FittedColumns(Short, w) \in [columns : Nat, width : Nat]
  BY <1>4, <1>7, FittedColumnsType
<1>9. Layout(shown, w) = Shorter(FittedColumns(Full, w), FittedColumns(Short, w), w)
  BY <1>6 DEF Layout
<1>10. Layout(shown, w) \in [columns : Nat, width : Nat]
  BY <1>8, <1>9 DEF Shorter
<1> QED
  BY <1>10

TableSections == {"bar", "table", "blank", "heading", "row", "hidden"}

\* The lines of the table besides those of the rows and of the notice.
Framing == {"bar", "table", "blank", "heading"}

\* How many rows a table shows.
ShownCount(rows, maxRows) ==
  IF Len(rows) <= Most(1, maxRows) THEN Len(rows) ELSE Most(1, maxRows - 1)

LEMMA ShownRowsType ==
  ASSUME NEW rows \in Seq(LiveRow), rows # <<>>, NEW maxRows \in Nat
  PROVE  /\ ShownRows(rows, maxRows) \in Seq(LiveRow)
         /\ Len(ShownRows(rows, maxRows)) = ShownCount(rows, maxRows)
         /\ ShownCount(rows, maxRows) \in 1..Len(rows)
<1>1. Len(rows) \in Nat /\ Len(rows) >= 1
  OBVIOUS
<1>2. CASE Len(rows) <= Most(1, maxRows)
  BY <1>1, <1>2 DEF ShownRows, ShownCount
<1>3. CASE ~(Len(rows) <= Most(1, maxRows))
  <2> DEFINE k == Most(1, maxRows - 1)
  <2>1. k \in 1..Len(rows)
    BY <1>1, <1>3 DEF Most
  <2>2. ShownRows(rows, maxRows) = SubSeq(rows, 1, k) /\ ShownCount(rows, maxRows) = k
    BY <1>3 DEF ShownRows, ShownCount
  <2> HIDE DEF k
  <2>3. SubSeq(rows, 1, k) \in Seq(LiveRow) /\ Len(SubSeq(rows, 1, k)) = k
    BY <1>1, <2>1
  <2> QED
    BY <2>1, <2>2, <2>3
<1> QED
  BY <1>2, <1>3

\* What the lines of a table are, from the top.
Shape(table, k, hidden) ==
  /\ Len(table) = 7 + k + (IF hidden = 0 THEN 0 ELSE 1)
  /\ \A i \in 1..k : table[6 + i].of = "row" /\ table[6 + i].about = i
  /\ hidden # 0 => table[7 + k].of = "hidden" /\ table[7 + k].about = hidden
  /\ \A j \in DOMAIN table :
       \/ table[j].of \in Framing
       \/ j - 6 \in 1..k
       \/ hidden # 0 /\ j = 7 + k

\* Sequences put together like the lines of a table.
IsAssembled(table, first, heading, body, tail, end, L) ==
  /\ table \in Seq(L)
  /\ Len(table) = 7 + Len(body) + Len(tail)
  /\ \A j \in 1..4 : table[j] = first[j]
  /\ \A j \in 1..2 : table[4 + j] = heading[j]
  /\ \A j \in 1..Len(body) : table[6 + j] = body[j]
  /\ \A j \in 1..Len(tail) : table[6 + Len(body) + j] = tail[j]
  /\ table[7 + Len(body) + Len(tail)] = end

LEMMA Assembled ==
  ASSUME NEW L, NEW first \in Seq(L), Len(first) = 4,
         NEW heading \in Seq(L), Len(heading) = 2, NEW body \in Seq(L),
         NEW tail \in Seq(L), NEW end \in L
  PROVE  IsAssembled((first \o ((heading \o body) \o tail)) \o <<end>>,
                     first, heading, body, tail, end, L)
<1> DEFINE upper == heading \o body
           inner == upper \o tail
           most == first \o inner
           one == <<end>>
           table == most \o one
<1>0. one \in Seq(L) /\ Len(one) = 1 /\ one[1] = end
  OBVIOUS
<1> HIDE DEF one
<1>1. IsJoin(upper, heading, body, L)
  BY Joined
<1>2. IsJoin(inner, upper, tail, L)
  <2>1. upper \in Seq(L)
    BY <1>1 DEF IsJoin
  <2> HIDE DEF upper
  <2> QED BY <1>0, <2>1, Joined
<1>3. IsJoin(most, first, inner, L)
  <2>1. inner \in Seq(L)
    BY <1>2 DEF IsJoin
  <2> HIDE DEF inner
  <2> QED BY <1>0, <2>1, Joined
<1>4. IsJoin(table, most, one, L)
  <2>1. most \in Seq(L)
    BY <1>3 DEF IsJoin
  <2> HIDE DEF most
  <2> QED BY <1>0, <2>1, Joined
<1> HIDE DEF upper, inner, most, table
<1> DEFINE b == Len(body)
           e == Len(tail)
<1>5. /\ b \in Nat /\ e \in Nat
      /\ Len(upper) = 2 + b /\ Len(inner) = 2 + b + e
      /\ Len(most) = 6 + b + e /\ Len(table) = 7 + b + e
  BY <1>0, <1>1, <1>2, <1>3, <1>4 DEF IsJoin
<1>6. /\ \A j \in 1..2 : upper[j] = heading[j]
      /\ \A j \in 1..b : upper[2 + j] = body[j]
  BY <1>1 DEF IsJoin
<1>7. /\ \A j \in 1..(2 + b) : inner[j] = upper[j]
      /\ \A j \in 1..e : inner[2 + b + j] = tail[j]
  BY <1>2, <1>5 DEF IsJoin
<1>8. /\ \A j \in 1..4 : most[j] = first[j]
      /\ \A j \in 1..(2 + b + e) : most[4 + j] = inner[j]
  BY <1>3, <1>5 DEF IsJoin
<1>9. /\ \A j \in 1..(6 + b + e) : table[j] = most[j]
      /\ table[7 + b + e] = end
  BY <1>0, <1>4, <1>5 DEF IsJoin
<1> HIDE DEF b, e
<1>10. \A j \in 1..4 : table[j] = first[j]
  BY <1>5, <1>8, <1>9
<1>11. \A j \in 1..2 : table[4 + j] = heading[j]
  <2> TAKE j \in 1..2
  <2>1. /\ j \in 1..(2 + b) /\ j \in 1..(2 + b + e)
        /\ 4 + j \in 1..(6 + b + e)
    BY <1>5
  <2> QED
    BY <1>6, <1>7, <1>8, <1>9, <2>1
<1>12. \A j \in 1..b : table[6 + j] = body[j]
  <2> TAKE j \in 1..b
  <2> DEFINE i == 2 + j
  <2>1. /\ i \in 1..(2 + b) /\ i \in 1..(2 + b + e)
        /\ 4 + i \in 1..(6 + b + e) /\ 4 + i = 6 + j
    BY <1>5
  <2>2. upper[i] = body[j]
    BY <1>6
  <2> HIDE DEF i
  <2>3. /\ table[4 + i] = most[4 + i] /\ most[4 + i] = inner[i]
        /\ inner[i] = upper[i]
    BY <1>7, <1>8, <1>9, <2>1
  <2> QED
    BY <2>1, <2>2, <2>3
<1>13. \A j \in 1..e : table[6 + b + j] = tail[j]
  <2> TAKE j \in 1..e
  <2> DEFINE i == 2 + b + j
  <2>1. /\ i \in 1..(2 + b + e) /\ 4 + i \in 1..(6 + b + e)
        /\ 4 + i = 6 + b + j
    BY <1>5
  <2>2. inner[i] = tail[j]
    BY <1>7
  <2> HIDE DEF i
  <2>3. table[4 + i] = most[4 + i] /\ most[4 + i] = inner[i]
    BY <1>8, <1>9, <2>1
  <2> QED
    BY <2>1, <2>2, <2>3
<1>14. table \in Seq(L)
  BY <1>4 DEF IsJoin
<1> QED
  BY <1>5, <1>9, <1>10, <1>11, <1>12, <1>13, <1>14
    DEF IsAssembled, table, most, inner, upper, one, b, e

\* The lines of the table, when there are receivers: one for each it shows,
\* in order, and the notice that counts the others.
LEMMA TableShape ==
  ASSUME NEW rows \in Seq(LiveRow), rows # <<>>, NEW maxRows \in Nat, NEW w \in Positive
  PROVE  LET k == ShownCount(rows, maxRows)
         IN  /\ RenderReceiverTable(rows, w, maxRows) \in Seq(Text(w, TableSections))
             /\ k \in 1..Len(rows)
             /\ Shape(RenderReceiverTable(rows, w, maxRows), k, Len(rows) - k)
<1> DEFINE L == Text(w, TableSections)
           k == ShownCount(rows, maxRows)
           shown == ShownRows(rows, maxRows)
           hidden == Len(rows) - k
           layout == Layout(shown, w)
           bar == ALine("bar", 0, w)
           first == <<bar, ALine("table", 0, 15), bar, Blank>>
           heading == <<CutColoured(ALine("heading", 0, layout.width), layout.columns, w),
                        bar>>
           body == [i \in DOMAIN shown |->
                      CutColoured(ALine("row", i, layout.width), 1, w)]
           notice == Cut(ALine("hidden", hidden, 54), w)
           tail == IF hidden = 0 THEN <<>> ELSE <<notice>>
           table == (first \o ((heading \o body) \o tail)) \o <<Blank>>
<1>1. shown \in Seq(LiveRow) /\ Len(shown) = k /\ k \in 1..Len(rows)
  BY ShownRowsType
<1>2. k \in Nat /\ hidden \in Nat /\ DOMAIN shown = 1..k
  <2>1. Len(rows) \in Nat
    OBVIOUS
  <2> HIDE DEF shown, k
  <2> QED BY <1>1, <2>1
<1>3. RenderReceiverTable(rows, w, maxRows) = table
  <2>1. RenderReceiverTable(rows, w, maxRows) =
          (first \o TableOf(shown, Len(rows) - Len(shown), w)) \o <<Blank>>
    BY DEF RenderReceiverTable
  <2>2. TableOf(shown, hidden, w) = (heading \o body) \o tail
    BY DEF TableOf, TableLines
  <2>3. Len(rows) - Len(shown) = hidden
    BY <1>1
  <2> HIDE DEF first, shown, hidden, heading, body, tail
  <2> QED
    BY <2>1, <2>2, <2>3
<1>4. layout.columns \in Nat /\ layout.width \in Nat
  <2> HIDE DEF shown
  <2> QED BY <1>1, LayoutType
<1>5. bar \in L /\ bar.of = "bar"
  BY DEF Text, ALine, Line, TableSections, Section, Most, NoReceivers, Positive
<1>6. Blank \in L /\ Blank.of = "blank"
  BY BlankType DEF Text, TableSections
<1>7. ALine("table", 0, 15) \in L /\ ALine("table", 0, 15).of = "table"
  BY DEF Text, ALine, Line, TableSections, Section, Most, NoReceivers, Positive
<1>8. first \in Seq(L) /\ Len(first) = 4 /\ \A j \in 1..4 : first[j].of \in Framing
  <2>1. first \in Seq(L) /\ Len(first) = 4
    BY <1>5, <1>6, <1>7
  <2>2. /\ first[1] = bar /\ first[2] = ALine("table", 0, 15)
        /\ first[3] = bar /\ first[4] = Blank
    OBVIOUS
  <2> HIDE DEF first, bar
  <2>3. /\ first[1].of \in Framing /\ first[2].of \in Framing
        /\ first[3].of \in Framing /\ first[4].of \in Framing
    BY <1>5, <1>6, <1>7, <2>2 DEF Framing
  <2>4. \A j \in 1..4 : j = 1 \/ j = 2 \/ j = 3 \/ j = 4
    OBVIOUS
  <2> QED
    BY <2>1, <2>3, <2>4
<1>9. \A of \in TableSections, about \in Nat, width \in Nat, coloured \in Nat :
        LET line == ALine(of, about, width)
        IN  /\ CutColoured(line, coloured, w) \in L
            /\ CutColoured(line, coloured, w).of = of
            /\ CutColoured(line, coloured, w).about = about
            /\ Cut(line, w) \in L
            /\ Cut(line, w).of = of /\ Cut(line, w).about = about
  <2> TAKE of \in TableSections, about \in Nat, width \in Nat, coloured \in Nat
  <2> DEFINE line == ALine(of, about, width)
             S == TableSections
  <2>1. line \in Line /\ line.of = of /\ line.about = about
    BY DEF ALine, Line, TableSections, Section
  <2>2. S \in SUBSET Section
    BY DEF TableSections, Section
  <2> HIDE DEF line, S
  <2>3. line.of \in S
    BY <2>1 DEF S
  <2>4. /\ CutColoured(line, coloured, w) \in Text(w, S)
        /\ CutColoured(line, coloured, w).of = line.of
        /\ CutColoured(line, coloured, w).about = line.about
    BY <2>1, <2>2, <2>3, CutColouredType
  <2>5. /\ Cut(line, w) \in Text(w, S)
        /\ Cut(line, w).of = line.of /\ Cut(line, w).about = line.about
    BY <2>1, <2>2, <2>3, CutType
  <2> QED
    BY <2>1, <2>4, <2>5 DEF line, S
<1>10. heading \in Seq(L) /\ Len(heading) = 2 /\ \A j \in 1..2 : heading[j].of \in Framing
  <2> DEFINE head == CutColoured(ALine("heading", 0, layout.width), layout.columns, w)
  <2>1. head \in L /\ head.of = "heading"
    <3>1. "heading" \in TableSections /\ 0 \in Nat
      BY DEF TableSections
    <3> HIDE DEF layout, L
    <3> QED BY <1>4, <1>9, <3>1
  <2>2. heading = <<head, bar>>
    OBVIOUS
  <2> HIDE DEF head, L, bar, heading
  <2>3. \A j \in 1..2 : j = 1 \/ j = 2
    OBVIOUS
  <2>4. heading \in Seq(L) /\ Len(heading) = 2 /\ heading[1] = head /\ heading[2] = bar
    BY <1>5, <2>1, <2>2
  <2> QED
    BY <1>5, <2>1, <2>3, <2>4 DEF Framing
<1>11. /\ body \in Seq(L) /\ Len(body) = k
       /\ \A i \in 1..k : body[i].of = "row" /\ body[i].about = i
  <2>1. "row" \in TableSections /\ 1 \in Nat /\ \A i \in 1..k : i \in Nat
    BY DEF TableSections
  <2>2. \A i \in 1..k : /\ body[i] = CutColoured(ALine("row", i, layout.width), 1, w)
    <3> HIDE DEF layout, L, shown, k
    <3> QED BY <1>2
  <2>3. \A i \in 1..k : body[i] \in L /\ body[i].of = "row" /\ body[i].about = i
    <3> TAKE i \in 1..k
    <3> DEFINE width == layout.width
               line == CutColoured(ALine("row", i, width), 1, w)
    <3>1. width \in Nat /\ i \in Nat
      BY <1>4, <2>1
    <3>2. line \in L /\ line.of = "row" /\ line.about = i
      <4> HIDE DEF width, L
      <4> QED BY <1>9, <2>1, <3>1
    <3> HIDE DEF L, body, line
    <3> QED BY <2>2, <3>2 DEF line
  <2>4. body = [i \in 1..k |-> body[i]]
    <3> HIDE DEF shown, k, layout
    <3> QED BY <1>2
  <2>5. body \in [1..k -> L]
    <3> HIDE DEF body, k, L
    <3> QED BY <2>3, <2>4
  <2>6. body \in Seq(L) /\ Len(body) = k
    <3> HIDE DEF body, k, L
    <3> QED BY <1>2, <2>5
  <2> QED
    BY <2>3, <2>6
<1>12. /\ tail \in Seq(L) /\ Len(tail) = (IF hidden = 0 THEN 0 ELSE 1)
       /\ hidden # 0 => tail[1].of = "hidden" /\ tail[1].about = hidden
  <2>1. notice \in L /\ notice.of = "hidden" /\ notice.about = hidden
    <3>1. "hidden" \in TableSections /\ 54 \in Nat
      BY DEF TableSections
    <3>2. hidden \in Nat
      BY <1>2
    <3> HIDE DEF hidden, L
    <3> QED BY <1>9, <3>1, <3>2
  <2> HIDE DEF notice, L, hidden
  <2> QED BY <2>1
<1> HIDE DEF L, first, heading, body, tail, hidden, shown, k, bar, layout
<1>13. IsAssembled(table, first, heading, body, tail, Blank, L)
  BY <1>6, <1>8, <1>10, <1>11, <1>12, Assembled
<1> HIDE DEF table
<1>14. /\ table \in Seq(L)
       /\ Len(table) = 7 + Len(body) + Len(tail)
       /\ \A j \in 1..4 : table[j] = first[j]
       /\ \A j \in 1..2 : table[4 + j] = heading[j]
       /\ \A j \in 1..Len(body) : table[6 + j] = body[j]
       /\ \A j \in 1..Len(tail) : table[6 + Len(body) + j] = tail[j]
       /\ table[7 + Len(body) + Len(tail)] = Blank
  BY <1>13 DEF IsAssembled
<1>15. Len(table) = 7 + k + (IF hidden = 0 THEN 0 ELSE 1)
  BY <1>11, <1>12, <1>14
<1>16. \A i \in 1..k : table[6 + i].of = "row" /\ table[6 + i].about = i
  BY <1>11, <1>14
<1>17. hidden # 0 => table[7 + k].of = "hidden" /\ table[7 + k].about = hidden
  <2> SUFFICES ASSUME hidden # 0
               PROVE  table[7 + k].of = "hidden" /\ table[7 + k].about = hidden
    OBVIOUS
  <2>1. table[6 + k + 1] = tail[1]
    BY <1>11, <1>12, <1>14
  <2>2. 6 + k + 1 = 7 + k
    BY <1>2
  <2> QED
    BY <1>12, <2>1, <2>2
<1>18. ASSUME NEW j \in DOMAIN table
       PROVE  \/ table[j].of \in Framing
              \/ j - 6 \in 1..k
              \/ hidden # 0 /\ j = 7 + k
  <2>1. j \in 1..(7 + k + (IF hidden = 0 THEN 0 ELSE 1))
    BY <1>14, <1>15
  <2>2. CASE j \in 1..4
    BY <1>8, <1>14, <2>2
  <2>3. CASE j \in 5..6
    <3>1. j - 4 \in 1..2 /\ 4 + (j - 4) = j
      BY <2>3
    <3>2. table[j] = heading[j - 4]
      BY <1>14, <3>1
    <3> QED
      BY <1>10, <3>1, <3>2
  <2>4. CASE j - 6 \in 1..k
    BY <2>4
  <2>5. CASE j = 7 + k /\ hidden = 0
    <3>1. table[j] = Blank
      BY <1>2, <1>11, <1>12, <1>14, <2>5
    <3> QED
      BY <1>6, <3>1 DEF Framing
  <2>6. CASE j = 8 + k
    <3>1. hidden # 0
      BY <1>2, <2>1, <2>6
    <3>2. Len(tail) = 1 /\ 7 + Len(body) + Len(tail) = j
      BY <1>2, <1>11, <1>12, <2>6, <3>1
    <3>3. table[j] = Blank
      BY <1>14, <3>2
    <3> QED
      BY <1>6, <3>3 DEF Framing
  <2> QED
    BY <1>2, <2>1, <2>2, <2>3, <2>4, <2>5, <2>6
<1>19. Shape(table, k, hidden)
  BY <1>15, <1>16, <1>17, <1>18 DEF Shape
<1> QED
  BY <1>1, <1>3, <1>14, <1>19 DEF L, hidden, k

\* The table of no receivers.
LEMMA EmptyTable ==
  ASSUME NEW rows \in Seq(LiveRow), rows = <<>>, NEW maxRows \in Nat, NEW w \in Positive
  PROVE  /\ RenderReceiverTable(rows, w, maxRows)
              \in Seq(Text(w, TableSections \ {"hidden"}))
         /\ Len(RenderReceiverTable(rows, w, maxRows)) = 6
<1> DEFINE L == Text(w, TableSections \ {"hidden"})
           bar == ALine("bar", 0, w)
           name == ALine("table", 0, 15)
           none == ALine("row", 0, NoReceivers)
<1>1. RenderReceiverTable(rows, w, maxRows) =
        (<<bar, name, bar, Blank>> \o <<none>>) \o <<Blank>>
  BY DEF RenderReceiverTable
<1>2. bar \in L /\ name \in L /\ none \in L
  BY DEF Text, ALine, Line, TableSections, Section, Most, NoReceivers, Positive
<1>3. Blank \in L
  BY BlankType DEF Text, TableSections
<1> HIDE DEF L, bar, name, none
<1>4. /\ (<<bar, name, bar, Blank>> \o <<none>>) \o <<Blank>> \in Seq(L)
      /\ Len((<<bar, name, bar, Blank>> \o <<none>>) \o <<Blank>>) = 6
  BY <1>2, <1>3
<1> QED
  BY <1>1, <1>4 DEF L

-----------------------------------------------------------------------------
(* The triggers.                                                           *)

\* The lines a text has about the triggers of a receiver.
Where(text, r) == {j \in DOMAIN text : text[j].of = "trigger" /\ text[j].about = r}

BlockSections == {"bar", "triggers", "blank", "trigger"}

IsBlock(block, r, n, L) ==
  /\ block \in Seq(L) /\ Len(block) = n + 3
  /\ \A j \in 1..(n + 2) : block[j].of = "trigger" /\ block[j].about = r
  /\ block[n + 3].of = "blank"

LEMMA BlockShape ==
  ASSUME NEW rows \in Seq(LiveRow), NEW r \in DOMAIN rows, NEW w \in Positive
  PROVE  IsBlock(Block(rows, r, w), r, rows[r].scoring, Text(w, BlockSections))
<1> DEFINE L == Text(w, BlockSections)
           n == rows[r].scoring
           label == Cut(ALine("trigger", r, rows[r].compact), w)
           rule == Cut(ALine("trigger", r, 30), w)
           total == Cut(ALine("trigger", r, 12), w)
           rules == [i \in 1..n |-> rule]
           one == <<label>>
           two == <<total, Blank>>
           upper == one \o rules
           block == upper \o two
<1>1. n \in Nat /\ rows[r].compact \in Nat /\ r \in Nat
  BY DEF LiveRow
<1>2. \A width \in Nat : LET line == Cut(ALine("trigger", r, width), w)
                         IN  line \in L /\ line.of = "trigger" /\ line.about = r
  <2> TAKE width \in Nat
  <2> DEFINE line == ALine("trigger", r, width)
             S == BlockSections
  <2>1. line \in Line /\ line.of = "trigger" /\ line.about = r
    BY <1>1 DEF ALine, Line, Section
  <2>2. S \in SUBSET Section /\ "trigger" \in S
    BY DEF BlockSections, Section
  <2> HIDE DEF line, S
  <2>3. line.of \in S
    BY <2>1, <2>2
  <2>4. /\ Cut(line, w) \in Text(w, S)
        /\ Cut(line, w).of = line.of /\ Cut(line, w).about = line.about
    BY <2>1, <2>2, <2>3, CutType
  <2> QED
    BY <2>1, <2>4 DEF line, S
<1>3. /\ label \in L /\ label.of = "trigger" /\ label.about = r
      /\ rule \in L /\ rule.of = "trigger" /\ rule.about = r
      /\ total \in L /\ total.of = "trigger" /\ total.about = r
  <2> HIDE DEF L
  <2> QED BY <1>1, <1>2
<1>4. Blank \in L /\ Blank.of = "blank"
  BY BlankType DEF Text, BlockSections
<1>5. Block(rows, r, w) = block
  BY DEF Block
<1> HIDE DEF L, n, label, rule, total
<1>6. /\ one \in Seq(L) /\ Len(one) = 1 /\ one[1] = label
      /\ two \in Seq(L) /\ Len(two) = 2 /\ two[1] = total /\ two[2] = Blank
  BY <1>3, <1>4
<1>7. rules \in Seq(L) /\ Len(rules) = n /\ \A j \in 1..n : rules[j] = rule
  BY <1>1, <1>3
<1> HIDE DEF one, two, rules
<1>8. IsJoin(upper, one, rules, L)
  BY <1>6, <1>7, Joined
<1>9. IsJoin(block, upper, two, L)
  <2>1. upper \in Seq(L)
    BY <1>8 DEF IsJoin
  <2> HIDE DEF upper
  <2> QED BY <1>6, <2>1, Joined
<1> HIDE DEF upper, block
<1>10. /\ Len(upper) = n + 1 /\ upper[1] = label
       /\ \A j \in 1..n : upper[1 + j] = rule
  <2>1. Len(upper) = n + 1
    BY <1>1, <1>6, <1>7, <1>8 DEF IsJoin
  <2>2. upper[1] = label
    BY <1>6, <1>8 DEF IsJoin
  <2>3. \A j \in 1..n : upper[1 + j] = rule
    BY <1>6, <1>7, <1>8 DEF IsJoin
  <2> QED
    BY <2>1, <2>2, <2>3
<1>11. /\ block \in Seq(L) /\ Len(block) = n + 3
       /\ \A j \in 1..(n + 1) : block[j] = upper[j]
       /\ block[n + 1 + 1] = total /\ block[n + 1 + 2] = Blank
  BY <1>1, <1>6, <1>9, <1>10 DEF IsJoin
<1>12. ASSUME NEW j \in 1..(n + 2)
       PROVE  block[j].of = "trigger" /\ block[j].about = r
  <2>1. CASE j = 1
    BY <1>1, <1>3, <1>10, <1>11, <2>1
  <2>2. CASE j - 1 \in 1..n
    <3>1. j \in 1..(n + 1) /\ 1 + (j - 1) = j
      BY <1>1, <2>2
    <3>2. block[j] = upper[j] /\ upper[j] = rule
      BY <1>10, <1>11, <2>2, <3>1
    <3> QED
      BY <1>3, <3>2
  <2>3. CASE j = n + 2
    <3>1. n + 1 + 1 = j
      BY <1>1, <2>3
    <3> QED
      BY <1>3, <1>11, <3>1
  <2> QED
    BY <1>1, <2>1, <2>2, <2>3
<1>13. block[n + 3].of = "blank"
  <2>1. n + 1 + 2 = n + 3
    BY <1>1
  <2> QED
    BY <1>4, <1>11, <2>1
<1>14. IsBlock(block, r, n, L)
  BY <1>11, <1>12, <1>13 DEF IsBlock
<1> QED
  BY <1>5, <1>14 DEF n, L

\* The first i receivers have been told of: the lines about a flagged one are
\* together, its label, its rules and its total; and the text ends in an empty
\* line.
Told(text, rows, i) ==
  /\ text # <<>> /\ text[Len(text)].of = "blank"
  /\ \A r \in DOMAIN rows :
       IF r <= i /\ Flagged(rows[r])
       THEN \E a \in Nat : Where(text, r) = (a + 1)..(a + rows[r].scoring + 2)
       ELSE Where(text, r) = {}

LEMMA ToldMore ==
  ASSUME NEW L, NEW rows \in Seq(LiveRow), NEW text \in Seq(L), NEW i \in Nat,
         NEW r \in DOMAIN rows, r = i + 1, Told(text, rows, i),
         NEW block, IsBlock(block, r, rows[r].scoring, L), Flagged(rows[r])
  PROVE  Told(text \o block, rows, r)
<1> DEFINE next == text \o block
           n == rows[r].scoring
           l == Len(text)
<1>1. n \in Nat /\ l \in Nat /\ i \in Nat /\ r \in Nat
  BY DEF LiveRow
<1>2. block \in Seq(L) /\ Len(block) = n + 3 /\ block[n + 3].of = "blank"
  BY DEF IsBlock
<1>3. IsJoin(next, text, block, L)
  BY <1>2, Joined
<1> HIDE DEF next, n, l
<1>4. /\ DOMAIN next = 1..(l + (n + 3)) /\ Len(next) = l + (n + 3)
      /\ \A j \in 1..l : next[j] = text[j]
      /\ \A j \in 1..(n + 3) : next[l + j] = block[j]
  BY <1>2, <1>3 DEF IsJoin, l
<1>5. DOMAIN text = 1..l
  BY DEF l
<1>6. /\ \A j \in 1..(n + 2) : block[j].of = "trigger" /\ block[j].about = r
  BY DEF IsBlock, n
<1>7. ASSUME NEW q \in DOMAIN rows, q # r PROVE Where(next, q) = Where(text, q)
  <2>1. ASSUME NEW j \in Where(next, q) PROVE j \in Where(text, q)
    <3>1. j \in 1..(l + (n + 3)) /\ next[j].of = "trigger" /\ next[j].about = q
      BY <1>4, <2>1 DEF Where
    <3>2. CASE j \in 1..l
      BY <1>4, <1>5, <3>1, <3>2 DEF Where
    <3>3. CASE j - l \in 1..(n + 3)
      <4>1. l + (j - l) = j
        BY <1>1, <3>1
      <4>2. next[j] = block[j - l]
        BY <1>4, <3>3, <4>1
      <4>3. j - l \in 1..(n + 2) \/ j - l = n + 3
        BY <1>1, <3>3
      <4> QED
        BY <1>2, <1>6, <1>7, <3>1, <4>2, <4>3
    <3> QED
      BY <1>1, <3>1, <3>2, <3>3
  <2>2. ASSUME NEW j \in Where(text, q) PROVE j \in Where(next, q)
    <3>1. j \in 1..l /\ j \in 1..(l + (n + 3))
      BY <1>1, <1>5, <2>2 DEF Where
    <3> QED
      BY <1>4, <2>2, <3>1 DEF Where
  <2> QED
    BY <2>1, <2>2
<1>8. Where(next, r) = (l + 1)..(l + n + 2)
  <2>0. Where(text, r) = {}
    <3>1. ~(r <= i)
      BY <1>1
    <3> QED
      BY <3>1 DEF Told
  <2>1. ASSUME NEW j \in Where(next, r) PROVE j \in (l + 1)..(l + n + 2)
    <3>1. j \in 1..(l + (n + 3)) /\ next[j].of = "trigger" /\ next[j].about = r
      BY <1>4, <2>1 DEF Where
    <3>2. ~(j \in 1..l)
      BY <1>4, <1>5, <2>0, <3>1 DEF Where
    <3>3. j # l + (n + 3)
      <4> SUFFICES ASSUME j = l + (n + 3) PROVE FALSE
        OBVIOUS
      <4>1. n + 3 \in 1..(n + 3)
        BY <1>1
      <4> QED
        BY <1>2, <1>4, <3>1, <4>1
    <3> QED
      BY <1>1, <3>1, <3>2, <3>3
  <2>2. ASSUME NEW j \in (l + 1)..(l + n + 2) PROVE j \in Where(next, r)
    <3>1. /\ j - l \in 1..(n + 2) /\ j - l \in 1..(n + 3) /\ l + (j - l) = j
          /\ j \in 1..(l + (n + 3))
      BY <1>1
    <3>2. next[j] = block[j - l]
      BY <1>4, <3>1
    <3> QED
      BY <1>4, <1>6, <3>1, <3>2 DEF Where
  <2> QED
    BY <2>1, <2>2
<1>9. next # <<>> /\ next[Len(next)].of = "blank"
  <2>1. n + 3 \in 1..(n + 3) /\ Len(next) # 0
    BY <1>1, <1>4
  <2>2. next[Len(next)] = block[n + 3]
    BY <1>4, <2>1
  <2> QED
    BY <1>2, <2>1, <2>2
<1>10. ASSUME NEW q \in DOMAIN rows
       PROVE  IF q <= r /\ Flagged(rows[q])
              THEN \E a \in Nat : Where(next, q) = (a + 1)..(a + rows[q].scoring + 2)
              ELSE Where(next, q) = {}
  <2>1. CASE q = r
    <3>1. q <= r /\ rows[q].scoring = n /\ Flagged(rows[q])
      BY <1>1, <2>1 DEF n
    <3>2. \E a \in Nat : Where(next, q) = (a + 1)..(a + n + 2)
      BY <1>1, <1>8, <2>1
    <3> QED
      BY <3>1, <3>2
  <2>2. CASE q # r
    <3>1. q <= r <=> q <= i
      BY <1>1, <2>2
    <3> QED
      BY <1>7, <2>2, <3>1 DEF Told
  <2> QED BY <2>1, <2>2
<1> QED
  BY <1>9, <1>10 DEF Told, next

\* The section in full tells of every flagged receiver.
LEMMA BlocksShape ==
  ASSUME NEW rows \in Seq(LiveRow), NEW w \in Positive
  PROVE  /\ Blocks(rows, w) \in Seq(Text(w, BlockSections))
         /\ Told(Blocks(rows, w), rows, Len(rows))
<1> DEFINE L == Text(w, BlockSections)
           A == Seq(L)
           n == Len(rows)
           bar == ALine("bar", 0, w)
           name == ALine("triggers", 0, 18)
           base == <<bar, name, bar, Blank>>
           Step(text, r) == IF Flagged(rows[r]) THEN text \o Block(rows, r, w) ELSE text
           op == [i \in 1..n |-> [a \in A |-> Step(a, i)]]
           seq == [r \in DOMAIN rows |-> r]
           Solves(h) == h = [s \in SUBSET (1..n) |->
                               IF s = {} THEN base
                               ELSE Step(h[s \ {Max(s)}], seq[Max(s)])]
           it == CHOOSE h : Solves(h)
<1>1. n \in Nat /\ DOMAIN rows = 1..n /\ DOMAIN seq = 1..n
  OBVIOUS
<1>2. \A i \in 1..n : IsBlock(Block(rows, i, w), i, rows[i].scoring, L)
  <2> HIDE DEF n
  <2> QED BY <1>1, BlockShape
<1>3. \A i \in 1..n : \A a \in A : Step(a, i) \in A
  <2> TAKE i \in 1..n
  <2> TAKE a \in A
  <2>1. Block(rows, i, w) \in Seq(L)
    BY <1>2 DEF IsBlock
  <2> HIDE DEF L
  <2> QED BY <2>1
<1>4. op \in [1..n -> [A -> A]]
  <2> HIDE DEF A, n, Step
  <2> QED BY <1>3
<1>5. base \in A /\ Told(base, rows, 0)
  <2>1. bar \in L /\ name \in L /\ bar.of # "trigger" /\ name.of # "trigger"
    BY DEF Text, ALine, Line, BlockSections, Section, Most, NoReceivers, Positive
  <2>2. Blank \in L /\ Blank.of = "blank"
    BY BlankType DEF Text, BlockSections
  <2> HIDE DEF bar, name, L
  <2>3. base \in Seq(L) /\ base # <<>> /\ Len(base) = 4 /\ DOMAIN base = 1..4
    BY <2>1, <2>2
  <2>4. base[1] = bar /\ base[2] = name /\ base[3] = bar /\ base[4] = Blank
    OBVIOUS
  <2> HIDE DEF base
  <2>5. \A j \in 1..4 : j = 1 \/ j = 2 \/ j = 3 \/ j = 4
    OBVIOUS
  <2>6. \A j \in DOMAIN base : base[j].of # "trigger"
    BY <2>1, <2>2, <2>3, <2>4, <2>5
  <2>7. \A r \in DOMAIN rows : Where(base, r) = {} /\ ~(r <= 0)
    BY <1>1, <2>6 DEF Where
  <2>8. base[Len(base)].of = "blank"
    BY <2>2, <2>3, <2>4
  <2>9. Told(base, rows, 0)
    BY <2>3, <2>7, <2>8 DEF Told
  <2> QED
    BY <2>3, <2>9
<1>6. PICK f, g : Ends(f, g, n, A, base, op)
  <2> HIDE DEF op, n, A, base
  <2> QED BY <1>1, <1>4, <1>5, ChainExists
<1>7. Solves(f)
  <2>1. ASSUME NEW s \in SUBSET (1..n), s # {}
        PROVE  f[s] = Step(f[s \ {Max(s)}], seq[Max(s)])
    <3>1. /\ Max(s) \in 1..n /\ f[s \ {Max(s)}] \in DOMAIN op[Max(s)]
          /\ f[s] = op[Max(s)][f[s \ {Max(s)}]]
      <4> HIDE DEF op, n, A, base
      <4> QED BY <1>6, <2>1 DEF Ends, FoldsBack
    <3>2. f[s] = Step(f[s \ {Max(s)}], Max(s))
      <4> HIDE DEF n, A, base, Step
      <4> QED BY <3>1
    <3>3. seq[Max(s)] = Max(s)
      BY <1>1, <3>1
    <3> HIDE DEF Step, seq, n
    <3> QED BY <3>2, <3>3
  <2>2. f[{}] = base /\ f \in [SUBSET (1..n) -> A]
    <3> HIDE DEF op, n, A, base
    <3> QED BY <1>6 DEF Ends, FoldsBack
  <2> HIDE DEF n, A, base, Step, seq
  <2> QED
    BY <2>1, <2>2
<1>8. Solves(it)
  <2> HIDE DEF Solves
  <2> QED BY <1>7
<1>9. it[1..n] = f[1..n]
  <2>1. it[{}] = f[{}]
    <3> HIDE DEF it, n, base, Step, seq
    <3> QED BY <1>7, <1>8
  <2>2. ASSUME NEW s \in SUBSET (1..n), s # {}, it[s \ {Top(n)[s]}] = f[s \ {Top(n)[s]}]
        PROVE  it[s] = f[s]
    <3>1. s # {} /\ Top(n)[s] = Max(s)
      BY <2>2 DEF Top
    <3> HIDE DEF it, n, base, Step, seq
    <3>2. f[s] = Step(f[s \ {Max(s)}], seq[Max(s)])
      BY <1>7, <3>1
    <3>3. it[s] = Step(it[s \ {Max(s)}], seq[Max(s)])
      BY <1>8, <3>1
    <3> QED BY <2>2, <3>1, <3>2, <3>3, Zenon
  <2>3. StepsAgree(it, f, 1..n, Top(n))
    BY <2>1, <2>2 DEF StepsAgree
  <2> HIDE DEF it, n
  <2> QED
    BY <1>1, <2>3, SameEnd
<1>10. Blocks(rows, w) = it[1..n]
  <2>1. Blocks(rows, w) = FoldLeft(LAMBDA text, r : Step(text, r), base, seq)
    BY DEF Blocks
  <2>2. FoldLeft(LAMBDA text, r : Step(text, r), base, seq) = it[1..n]
    <3> HIDE DEF seq, base, Step, n
    <3> QED BY <1>1 DEF FoldLeft, MapThenFoldSet
  <2> QED BY <2>1, <2>2
<1> DEFINE Good == {i \in Nat : i <= n => g[i] \in A /\ Told(g[i], rows, i)}
<1>11. 0 \in Good
  <2>1. g[0] = base
    <3> HIDE DEF op, n, A, base
    <3> QED BY <1>6 DEF Ends, Chain
  <2> HIDE DEF base, A
  <2> QED BY <1>5, <2>1
<1>12. ASSUME NEW i \in Nat, i \in Good PROVE i + 1 \in Good
  <2> SUFFICES ASSUME i + 1 <= n
               PROVE  g[i + 1] \in A /\ Told(g[i + 1], rows, i + 1)
    BY DEF Good
  <2> DEFINE r == i + 1
  <2>1. r \in 1..n /\ r \in Nat /\ i \in 0..n /\ r - 1 = i /\ i <= n
    BY <1>1
  <2>2. g[i] \in A /\ Told(g[i], rows, i)
    BY <1>12, <2>1
  <2>3. g[r] = Step(g[i], r)
    <3>1. g[r] = op[r][g[i]]
      <4> HIDE DEF op, n, A, base, r
      <4> QED BY <1>6, <2>1 DEF Ends, Chain
    <3> HIDE DEF n, A, base, Step, r
    <3> QED BY <2>1, <2>2, <3>1
  <2>4. g[r] \in A
    <3> HIDE DEF n, A, base, Step, r
    <3> QED BY <1>3, <2>1, <2>2, <2>3
  <2>5. CASE Flagged(rows[r])
    <3>1. IsBlock(Block(rows, r, w), r, rows[r].scoring, L) /\ r \in DOMAIN rows
      <4> HIDE DEF n, L, r
      <4> QED BY <1>1, <1>2, <2>1
    <3>2. Told(g[i] \o Block(rows, r, w), rows, r)
      <4>1. g[i] \in Seq(L) /\ r = i + 1
        BY <2>2
      <4> HIDE DEF L, r
      <4> QED BY <2>2, <2>5, <3>1, <4>1, ToldMore
    <3> HIDE DEF n, A, base, L
    <3> QED BY <2>3, <2>4, <2>5, <3>2
  <2>6. CASE ~Flagged(rows[r])
    <3>1. g[r] = g[i]
      BY <2>3, <2>6
    <3>2. \A q \in DOMAIN rows : (q <= r /\ Flagged(rows[q])) <=> (q <= i /\ Flagged(rows[q]))
      <4>1. \A q \in 1..n : q <= r /\ q # r <=> q <= i
        <5> HIDE DEF n
        <5> QED BY <1>1, <2>1
      <4> HIDE DEF r, n
      <4> QED BY <1>1, <2>6, <4>1
    <3>3. Told(g[i], rows, r)
      <4> HIDE DEF r
      <4> QED BY <2>2, <3>2 DEF Told
    <3> HIDE DEF A
    <3> QED BY <2>4, <3>1, <3>3
  <2> HIDE DEF A
  <2> QED BY <2>5, <2>6
<1>13. \A i \in Nat : i \in Good
  <2> HIDE DEF Good
  <2> QED BY <1>11, <1>12, NumberInduction
<1>14. g[n] \in A /\ Told(g[n], rows, n)
  <2> HIDE DEF A, n
  <2> QED BY <1>1, <1>13
<1>15. f[1..n] = g[n]
  BY <1>6 DEF Ends
<1>16. Blocks(rows, w) = g[n]
  <2> HIDE DEF it, n
  <2> QED BY <1>9, <1>10, <1>15
<1> QED
  BY <1>14, <1>16

TriggerSections == BlockSections \cup {"more"}

\* A section that leaves a line unused tells everything: every trigger of
\* every receiver, and that nothing was left out.
IsTriggers(text, rows, w, max) ==
  /\ text \in Seq(Text(w, TriggerSections))
  /\ max <= 0 => text = <<>>
  /\ max > 0 => Len(text) <= max
  /\ max > 0 /\ Len(text) < max =>
       /\ \A j \in DOMAIN text : text[j].of # "more"
       /\ \A r \in DOMAIN rows : rows[r].rules > 0 =>
            \E a \in Nat : Where(text, r) = (a + 1)..(a + rows[r].scoring + 2)

LEMMA TriggersShape ==
  ASSUME NEW rows \in Seq(LiveRow), NEW w \in Positive, NEW max \in Int
  PROVE  IsTriggers(RenderTriggeredAnalysis(rows, w, max), rows, w, max)
<1> DEFINE L == Text(w, TriggerSections)
           B == Text(w, BlockSections)
           blocks == Blocks(rows, w)
           l == Len(blocks) - 1
           text == Front(blocks)
           result == RenderTriggeredAnalysis(rows, w, max)
           any == \E r \in DOMAIN rows : Flagged(rows[r])
           more == Cut(ALine("more", 0, 33), w)
<1>1. blocks \in Seq(B) /\ Told(blocks, rows, Len(rows))
  BY BlocksShape
<1>2. Seq(B) \subseteq Seq(L)
  BY MoreText DEF TriggerSections
<1>3. blocks # <<>> /\ blocks[Len(blocks)].of = "blank"
  BY <1>1 DEF Told
<1> HIDE DEF blocks
<1>4. l \in Nat /\ Len(blocks) = l + 1 /\ DOMAIN blocks = 1..(l + 1)
  BY <1>1, <1>3
<1>5. /\ text \in Seq(B) /\ Len(text) = l /\ DOMAIN text = 1..l
      /\ \A j \in 1..l : text[j] = blocks[j]
  <2>1. text = SubSeq(blocks, 1, l)
    BY <1>4 DEF Front
  <2> HIDE DEF l
  <2>2. SubSeq(blocks, 1, l) \in Seq(B) /\ Len(SubSeq(blocks, 1, l)) = l
    BY <1>1, <1>4
  <2>3. \A j \in 1..l : SubSeq(blocks, 1, l)[j] = blocks[j]
    BY <1>1, <1>4
  <2> HIDE DEF text
  <2> QED BY <1>4, <2>1, <2>2, <2>3
<1> HIDE DEF text
<1>6. \A r \in DOMAIN rows : Where(text, r) = Where(blocks, r)
  <2> HIDE DEF l
  <2> TAKE r \in DOMAIN rows
  <2>1. ASSUME NEW j \in Where(text, r) PROVE j \in Where(blocks, r)
    BY <1>4, <1>5, <2>1 DEF Where
  <2>2. ASSUME NEW j \in Where(blocks, r) PROVE j \in Where(text, r)
    <3>1. j \in 1..(l + 1) /\ j # l + 1
      BY <1>3, <1>4, <2>2 DEF Where
    <3>2. j \in 1..l
      BY <1>4, <3>1
    <3> QED
      BY <1>5, <2>2, <3>2 DEF Where
  <2> QED BY <2>1, <2>2
<1>7. \A j \in DOMAIN text : text[j].of # "more"
  <2>1. \A j \in DOMAIN text : text[j] \in B
    BY <1>5
  <2> QED
    BY <2>1 DEF Text, BlockSections
<1>8. ASSUME NEW r \in DOMAIN rows, rows[r].rules > 0
      PROVE  /\ Flagged(rows[r])
             /\ \E a \in Nat : Where(text, r) = (a + 1)..(a + rows[r].scoring + 2)
  <2>1. rows[r].analysis # None
    BY <1>8 DEF LiveRow
  <2>2. Flagged(rows[r])
    BY <1>8, <2>1 DEF Flagged
  <2>3. r <= Len(rows)
    OBVIOUS
  <2>4. \E a \in Nat : Where(blocks, r) = (a + 1)..(a + rows[r].scoring + 2)
    BY <1>1, <2>2, <2>3 DEF Told
  <2> QED
    BY <1>6, <2>2, <2>4
<1>9. result = IF max <= 0 \/ ~any THEN <<>>
               ELSE IF Len(text) <= max THEN text
               ELSE IF max = 1 THEN SubSeq(text, 1, max)
               ELSE Append(SubSeq(text, 1, max - 1), more)
  BY DEF RenderTriggeredAnalysis, text, blocks
<1>10. more \in L
  <2> DEFINE line == ALine("more", 0, 33)
             S == TriggerSections
  <2>1. line \in Line /\ line.of = "more"
    BY DEF ALine, Line, Section
  <2>2. S \in SUBSET Section /\ "more" \in S
    BY DEF TriggerSections, BlockSections, Section
  <2> HIDE DEF line, S
  <2>3. Cut(line, w) \in Text(w, S)
    BY <2>1, <2>2, CutType
  <2> QED
    BY <2>3 DEF line, S
<1> HIDE DEF result, more, L, B
<1>11. CASE max <= 0 \/ ~any
  <2>1. result = <<>>
    BY <1>9, <1>11
  <2>2. max > 0 => \A r \in DOMAIN rows : ~(rows[r].rules > 0)
    BY <1>8, <1>11
  <2>3. result \in Seq(L) /\ Len(result) = 0 /\ DOMAIN result = {}
    BY <2>1
  <2>4. \A j \in DOMAIN result : result[j].of # "more"
    BY <2>3
  <2>5. IsTriggers(result, rows, w, max)
    BY <2>1, <2>2, <2>3, <2>4 DEF IsTriggers, L
  <2> QED
    BY <2>5 DEF result
<1>12. CASE max > 0 /\ any /\ Len(text) <= max
  <2>1. result = text
    BY <1>9, <1>12
  <2>2. text \in Seq(L)
    BY <1>2, <1>5
  <2>3. \A r \in DOMAIN rows : rows[r].rules > 0 =>
          \E a \in Nat : Where(text, r) = (a + 1)..(a + rows[r].scoring + 2)
    BY <1>8
  <2>4. max > 0 /\ ~(max <= 0) /\ Len(text) <= max
    BY <1>12
  <2>5. text \in Seq(Text(w, TriggerSections))
    BY <2>2 DEF L
  <2>6. IsTriggers(text, rows, w, max)
    BY <1>7, <2>3, <2>4, <2>5, Zenon DEF IsTriggers
  <2> QED
    BY <2>1, <2>6 DEF result
<1>13. CASE max > 0 /\ any /\ ~(Len(text) <= max)
  <2>1. max \in Nat /\ max >= 1 /\ max < l
    BY <1>4, <1>5, <1>13
  <2>2. text \in Seq(L) /\ Len(text) = l
    BY <1>2, <1>5
  <2>3. result \in Seq(L) /\ Len(result) = max
    <3>1. CASE max = 1
      <4>1. result = SubSeq(text, 1, 1)
        BY <1>9, <1>13, <3>1
      <4>2. SubSeq(text, 1, 1) \in Seq(L) /\ Len(SubSeq(text, 1, 1)) = 1
        <5> HIDE DEF l
        <5> QED BY <1>4, <2>1, <2>2, <3>1
      <4> QED
        BY <3>1, <4>1, <4>2
    <3>2. CASE max # 1
      <4> DEFINE k == max - 1
      <4>1. k \in Nat /\ k <= l /\ max = k + 1
        BY <2>1, <3>2
      <4>2. result = Append(SubSeq(text, 1, k), more)
        BY <1>9, <1>13, <3>2
      <4> HIDE DEF l, k
      <4>3. SubSeq(text, 1, k) \in Seq(L) /\ Len(SubSeq(text, 1, k)) = k
        BY <1>4, <2>2, <4>1
      <4> DEFINE upper == SubSeq(text, 1, k)
      <4> HIDE DEF upper
      <4>4. Append(upper, more) \in Seq(L) /\ Len(Append(upper, more)) = k + 1
        BY <1>10, <4>3 DEF upper
      <4> QED
        BY <4>1, <4>2, <4>4 DEF upper
    <3> QED BY <3>1, <3>2
  <2>4. IsTriggers(result, rows, w, max)
    BY <2>1, <2>3 DEF IsTriggers, L
  <2> QED
    BY <2>4 DEF result
<1> QED
  BY <1>11, <1>12, <1>13 DEF result

EventSections == {"bar", "events", "event"}

\* The event log is there only when its three headings are.
LEMMA EventLogShape ==
  ASSUME NEW events \in Seq(Nat), NEW w \in Positive, NEW max \in Int
  PROVE  /\ RenderEventLog(events, w, max) \in Seq(Text(w, EventSections))
         /\ max < 3 => RenderEventLog(events, w, max) = <<>>
<1> DEFINE L == Text(w, EventSections)
           bar == ALine("bar", 0, w)
           name == ALine("events", 0, 9)
           none == ALine("event", 0, 17)
           chrome == <<bar, name, bar>>
           budget == max - Len(chrome)
           told == SubSeq(events, 1, Least(Len(events), budget))
           list == [i \in DOMAIN told |-> Cut(ALine("event", i, 12 + told[i]), w)]
           result == RenderEventLog(events, w, max)
<1>1. Len(chrome) = 3
  OBVIOUS
<1>2. bar \in L /\ name \in L /\ none \in L
  BY DEF Text, ALine, Line, EventSections, Section, Most, NoReceivers, Positive
<1>3. result = IF max < Len(chrome) THEN <<>>
               ELSE IF told # <<>> THEN chrome \o list
               ELSE IF budget > 0 THEN Append(chrome, none)
               ELSE chrome
  BY DEF RenderEventLog
<1>4. chrome \in Seq(L)
  <2> HIDE DEF bar, name, L
  <2> QED BY <1>2
<1> HIDE DEF result, chrome, none
<1>5. max < 3 => result = <<>>
  BY <1>1, <1>3
<1>6. Append(chrome, none) \in Seq(L)
  <2> HIDE DEF L
  <2> QED BY <1>2, <1>4
<1>7. ASSUME max >= 3 PROVE list \in Seq(L)
  <2> DEFINE k == Least(Len(events), budget)
  <2>1. k \in Nat /\ k <= Len(events)
    BY <1>1, <1>7 DEF Least
  <2> HIDE DEF k
  <2>2. told \in Seq(Nat) /\ DOMAIN told = 1..k
    <3>1. SubSeq(events, 1, k) \in Seq(Nat) /\ Len(SubSeq(events, 1, k)) = k
      BY <2>1
    <3>2. told = SubSeq(events, 1, k)
      BY DEF k
    <3> HIDE DEF told
    <3> QED BY <3>1, <3>2
  <2> HIDE DEF told
  <2>3. ASSUME NEW i \in 1..k PROVE Cut(ALine("event", i, 12 + told[i]), w) \in L
    <3> DEFINE line == ALine("event", i, 12 + told[i])
               S == EventSections
    <3>1. line \in Line /\ line.of = "event"
      BY <2>1, <2>2 DEF ALine, Line, Section
    <3>2. S \in SUBSET Section /\ "event" \in S
      BY DEF EventSections, Section
    <3> HIDE DEF line, S
    <3>3. Cut(line, w) \in Text(w, S)
      BY <3>1, <3>2, CutType
    <3> QED
      BY <3>3 DEF line, S
  <2>4. list \in [1..k -> L]
    <3> HIDE DEF L
    <3> QED BY <2>2, <2>3
  <2> HIDE DEF list, L
  <2> QED
    BY <2>1, <2>4
<1>8. result \in Seq(L)
  <2>1. CASE max < 3
    BY <1>5, <2>1
  <2>2. CASE ~(max < 3)
    <3>1. chrome \o list \in Seq(L)
      <4> HIDE DEF list, L
      <4> QED BY <1>4, <1>7, <2>2
    <3> HIDE DEF list, L, told, budget
    <3> QED BY <1>1, <1>3, <1>4, <1>6, <2>2, <3>1
  <2> QED BY <2>1, <2>2
<1> QED
  BY <1>5, <1>8 DEF result

-----------------------------------------------------------------------------
(* The frame.                                                              *)

\* How long a table of at most n rows is, and that room for one line more
\* is room for one row more.
LEMMA TableLength ==
  ASSUME NEW rows \in Seq(LiveRow), rows # <<>>, NEW w \in Positive, NEW n \in Positive
  PROVE  LET Length(x) == Len(RenderReceiverTable(rows, w, x))
         IN  /\ Length(n) \in Nat
             /\ ShownCount(rows, n) # Len(rows) =>
                  n + 1 \in 1..Len(rows) /\ Length(n + 1) <= Length(n) + 1
<1> DEFINE N == Len(rows)
           Length(x) == Len(RenderReceiverTable(rows, w, x))
<1>1. N \in Nat /\ N >= 1
  OBVIOUS
<1>2. \A x \in Positive :
        /\ ShownCount(rows, x) \in 1..N
        /\ Length(x) = 7 + ShownCount(rows, x)
                         + (IF N - ShownCount(rows, x) = 0 THEN 0 ELSE 1)
  <2> TAKE x \in Positive
  <2>1. x \in Nat
    BY DEF Positive
  <2>2. Shape(RenderReceiverTable(rows, w, x), ShownCount(rows, x), N - ShownCount(rows, x))
    BY <2>1, TableShape
  <2>3. ShownCount(rows, x) \in 1..N
    BY <2>1, TableShape
  <2> QED
    BY <2>2, <2>3 DEF Shape
<1>3. ShownCount(rows, n) =
        IF N <= Most(1, n) THEN N ELSE Most(1, n - 1)
  BY DEF ShownCount
<1>4. ShownCount(rows, n + 1) =
        IF N <= Most(1, n + 1) THEN N ELSE Most(1, n)
  <2>1. (n + 1) - 1 = n
    BY DEF Positive
  <2> QED
    BY <2>1 DEF ShownCount
<1>5. n + 1 \in Positive /\ n \in Positive
  BY DEF Positive
<1> DEFINE s == ShownCount(rows, n)
           u == ShownCount(rows, n + 1)
           a == Length(n)
           b == Length(n + 1)
<1>6. /\ s \in 1..N /\ a = 7 + s + (IF N - s = 0 THEN 0 ELSE 1)
      /\ u \in 1..N /\ b = 7 + u + (IF N - u = 0 THEN 0 ELSE 1)
      /\ s = (IF N <= Most(1, n) THEN N ELSE Most(1, n - 1))
      /\ u = (IF N <= Most(1, n + 1) THEN N ELSE Most(1, n))
  <2> HIDE DEF Length, N
  <2> QED BY <1>2, <1>3, <1>4, <1>5
<1> HIDE DEF s, u, a, b, N
<1>7. s # N => n + 1 \in 1..N /\ b <= a + 1
  <2> SUFFICES ASSUME s # N PROVE n + 1 \in 1..N /\ b <= a + 1
    OBVIOUS
  <2>1. n \in Nat /\ n >= 1
    BY DEF Positive
  <2>2. n < N /\ s = Most(1, n - 1) /\ N - s # 0
    BY <1>1, <1>6, <2>1 DEF Most
  <2>3. a = 8 + s /\ s >= n - 1
    BY <1>6, <2>1, <2>2 DEF Most
  <2>4. u = IF N <= n + 1 THEN N ELSE n
    BY <1>1, <1>6, <2>1 DEF Most
  <2>5. u \in Nat /\ s \in Nat /\ b = 7 + u + (IF N - u = 0 THEN 0 ELSE 1)
    BY <1>1, <1>6
  <2>6. CASE N <= n + 1
    <3>1. N = n + 1 /\ u = n + 1
      BY <1>1, <2>1, <2>2, <2>4, <2>6
    <3>2. b = 8 + n
      BY <2>1, <2>5, <3>1
    <3> QED BY <2>1, <2>3, <2>5, <3>1, <3>2
  <2>7. CASE ~(N <= n + 1)
    <3>1. u = n
      BY <1>1, <2>1, <2>4, <2>7
    <3>2. b \in Nat /\ b <= 8 + n
      BY <1>1, <2>1, <2>5, <3>1
    <3> QED BY <1>1, <2>1, <2>2, <2>3, <2>5, <3>2
  <2> QED BY <2>6, <2>7
<1>8. a \in Nat
  <2>1. s \in Nat /\ (IF N - s = 0 THEN 0 ELSE 1) \in Nat
    BY <1>1, <1>6
  <2> QED BY <1>6, <2>1
<1> QED
  BY <1>7, <1>8 DEF s, a, b, N

\* The table of a frame: with a line to spare below it, it shows every
\* receiver; and where one row fits, the whole of it does.
IsFitted(table, rows, above, height, smallest) ==
  /\ Len(table) \in Nat
  /\ above + Len(table) < height =>
       /\ \A j \in DOMAIN table : table[j].of # "hidden"
       /\ \A i \in 1..Len(rows) : 6 + i \in DOMAIN table /\ table[6 + i].of = "row"
  /\ rows # <<>> /\ above + smallest <= height =>
       /\ above + Len(table) <= height
       /\ \E k \in 1..Len(rows) : Shape(table, k, Len(rows) - k)

LEMMA FittedTableShape ==
  ASSUME NEW m \in Models, NEW w \in Positive, NEW h \in Positive
  PROVE  /\ FittedTable(m, w, h) \in Seq(Text(w, TableSections))
         /\ IsFitted(FittedTable(m, w, h), m.rows, Len(Chrome(m, w)), h,
                     Len(RenderReceiverTable(m.rows, w, 1)))
<1> DEFINE rows == m.rows
           c == Len(Chrome(m, w))
           N == Len(rows)
           Length(x) == Len(RenderReceiverTable(rows, w, x))
           fit == {n \in DOMAIN rows : TableFits(m, w, n, h)}
           all == {1} \cup fit
           K == Max(all)
           table == FittedTable(m, w, h)
           L == Text(w, TableSections)
<1>1. rows \in Seq(LiveRow) /\ N \in Nat /\ DOMAIN rows = 1..N
  BY DashboardAssumption
<1>2. c \in Nat /\ h \in Nat
  <2>1. Chrome(m, w) \in Seq(Text(w, ChromeSections))
    BY ChromeType
  <2> QED
    BY <2>1 DEF Positive
<1>3. table = RenderReceiverTable(rows, w, K)
  BY DEF FittedTable
<1>4. \A n \in DOMAIN rows : n \in fit <=> c + Length(n) <= h
  BY DEF TableFits
<1>5. K \in all /\ \A n \in all : K >= n
  <2>1. all \subseteq 1..(N + 1) /\ all # {} /\ all \subseteq Int
    BY <1>1
  <2>2. IsFiniteSet(1..(N + 1))
    BY <1>1, FS_Interval
  <2> DEFINE I == 1..(N + 1)
  <2> HIDE DEF all, I
  <2>3. IsFiniteSet(all)
    <3>1. all \in SUBSET I /\ IsFiniteSet(I)
      BY <2>1, <2>2 DEF I
    <3> QED BY <3>1, FS_Subset
  <2> QED
    BY <2>1, <2>3, MaxIsGreatest
<1>6. CASE rows = <<>>
  <2>1. N = 0 /\ DOMAIN rows = {}
    BY <1>6
  <2>2. K = 1
    BY <1>5, <2>1
  <2>3. table \in Seq(Text(w, TableSections \ {"hidden"})) /\ Len(table) = 6
    <3>1. 1 \in Nat
      OBVIOUS
    <3> HIDE DEF rows, table
    <3> QED BY <1>1, <1>3, <1>6, <2>2, <3>1, EmptyTable
  <2>4. table \in Seq(L)
    BY <2>3, MoreText
  <2> HIDE DEF table, rows
  <2>5. \A j \in DOMAIN table : table[j] \in Text(w, TableSections \ {"hidden"})
    <3> DEFINE R == Text(w, TableSections \ {"hidden"})
    <3>1. table \in Seq(R)
      BY <2>3
    <3> HIDE DEF R
    <3>2. \A j \in DOMAIN table : table[j] \in R
      BY <3>1
    <3> QED BY <3>2 DEF R
  <2>6. \A j \in DOMAIN table : table[j].of # "hidden"
    BY <2>5 DEF Text
  <2>7. \A i \in 1..N : 6 + i \in DOMAIN table /\ table[6 + i].of = "row"
    BY <2>1
  <2>8. Len(table) \in Nat
    BY <2>3
  <2> QED
    BY <1>6, <2>4, <2>6, <2>7, <2>8 DEF IsFitted, table, rows
<1>7. CASE rows # <<>>
  <2> DEFINE k == ShownCount(rows, K)
  <2>1. N >= 1 /\ 1 \in DOMAIN rows
    BY <1>1, <1>7
  <2>2. K \in 1..N /\ K \in Nat /\ K \in Positive
    BY <1>1, <1>5, <2>1 DEF Positive
  <2>3. /\ table \in Seq(L) /\ k \in 1..N /\ Shape(table, k, N - k)
    <3> HIDE DEF rows, K, table
    <3> QED BY <1>1, <1>3, <1>7, <2>2, TableShape
  <2>4. /\ Length(K) \in Nat
        /\ k # N => K + 1 \in 1..N /\ Length(K + 1) <= Length(K) + 1
    <3> HIDE DEF rows, K
    <3> QED BY <1>1, <1>7, <2>2, TableLength
  <2>5. Len(table) = Length(K)
    BY <1>3
  <2> HIDE DEF table, K, k, N
  <2>6. c + Len(table) < h => k = N
    <3> SUFFICES ASSUME c + Len(table) < h, k # N PROVE FALSE
      OBVIOUS
    <3>1. K + 1 \in 1..N /\ Length(K + 1) <= Length(K) + 1
      BY <2>4
    <3>2. Length(K + 1) \in Nat
      <4>1. K + 1 \in Positive
        BY <2>2 DEF Positive
      <4> HIDE DEF rows
      <4> QED BY <1>1, <1>7, <4>1, TableLength
    <3> DEFINE a == Length(K)
               b == Length(K + 1)
    <3>3. a \in Nat /\ b \in Nat /\ b <= a + 1 /\ c + a < h
      BY <2>4, <2>5, <3>1, <3>2
    <3> HIDE DEF a, b, c
    <3>4. c + b <= h
      BY <1>2, <3>3
    <3>5. K + 1 \in fit
      BY <1>1, <1>4, <3>1, <3>4 DEF c, b
    <3>6. K >= K + 1
      <4> HIDE DEF fit
      <4> QED BY <1>5, <3>5
    <3> QED
      BY <2>2, <3>6
  <2>7. c + Len(table) < h =>
          /\ \A j \in DOMAIN table : table[j].of # "hidden"
          /\ \A i \in 1..N : 6 + i \in DOMAIN table /\ table[6 + i].of = "row"
    <3> SUFFICES ASSUME k = N
                 PROVE  /\ \A j \in DOMAIN table : table[j].of # "hidden"
                        /\ \A i \in 1..N : 6 + i \in DOMAIN table /\ table[6 + i].of = "row"
      BY <2>6
    <3>1. N - k = 0 /\ Len(table) = 7 + N /\ DOMAIN table = 1..(7 + N)
      BY <1>1, <2>3 DEF Shape
    <3>2. \A i \in 1..N : table[6 + i].of = "row" /\ 6 + i \in DOMAIN table
      <4>1. \A i \in 1..N : table[6 + i].of = "row"
        BY <1>1, <2>3 DEF Shape
      <4>2. \A i \in 1..N : 6 + i \in 1..(7 + N)
        BY <1>1
      <4> QED BY <3>1, <4>1, <4>2
    <3>3. ASSUME NEW j \in DOMAIN table PROVE table[j].of # "hidden"
      <4>1. table[j].of \in Framing \/ j - 6 \in 1..N
        BY <2>3, <3>1 DEF Shape
      <4>2. CASE table[j].of \in Framing
        BY <4>2 DEF Framing
      <4>3. CASE j - 6 \in 1..N
        <5>1. 6 + (j - 6) = j
          BY <3>1
        <5> QED
          BY <3>2, <4>3, <5>1
      <4> QED BY <4>1, <4>2, <4>3
    <3> QED
      BY <3>2, <3>3
  <2>8. c + Length(1) <= h => c + Len(table) <= h
    <3>1. CASE K = 1
      BY <2>5, <3>1
    <3>2. CASE K \in fit
      <4>1. K \in DOMAIN rows
        BY <3>2
      <4> QED BY <1>4, <2>5, <3>2, <4>1
    <3> QED
      <4> HIDE DEF fit
      <4> QED BY <1>5, <3>1, <3>2
  <2>9. Len(table) \in Nat
    BY <2>4, <2>5
  <2>10. IsFitted(table, rows, c, h, Length(1))
    <3> HIDE DEF c, rows
    <3> QED BY <2>3, <2>7, <2>8, <2>9 DEF IsFitted, N
  <2> QED
    BY <2>3, <2>10 DEF table
<1> QED BY <1>6, <1>7

\* A frame is four sections, one below the other, cut at a height.
IsFrame(frame, above, table, triggers, events, height, L) ==
  LET c == Len(above)
      t == Len(table)
      g == Len(triggers)
      e == Len(events)
  IN  /\ c \in Nat /\ t \in Nat /\ g \in Nat /\ e \in Nat
      /\ frame \in Seq(L)
      /\ DOMAIN frame = 1..Least(c + t + g + e, height)
      /\ \A j \in 1..c : j \in DOMAIN frame => frame[j] = above[j]
      /\ \A j \in 1..t : c + j \in DOMAIN frame => frame[c + j] = table[j]
      /\ \A j \in 1..g : c + t + j \in DOMAIN frame => frame[c + t + j] = triggers[j]
      /\ \A j \in 1..e : c + t + g + j \in DOMAIN frame => frame[c + t + g + j] = events[j]

LEMMA Stacked ==
  ASSUME NEW L, NEW above \in Seq(L), NEW table \in Seq(L), NEW triggers \in Seq(L),
         NEW events \in Seq(L), NEW height \in Positive
  PROVE  LET text == ((above \o table) \o triggers) \o events
         IN  IsFrame(SubSeq(text, 1, Least(Len(text), height)),
                     above, table, triggers, events, height, L)
<1> DEFINE two == above \o table
           three == two \o triggers
           text == three \o events
           c == Len(above)
           t == Len(table)
           g == Len(triggers)
           e == Len(events)
           k == Least(Len(text), height)
           frame == SubSeq(text, 1, k)
<1>1. IsJoin(two, above, table, L)
  BY Joined
<1>2. IsJoin(three, two, triggers, L)
  <2>1. two \in Seq(L)
    BY <1>1 DEF IsJoin
  <2> HIDE DEF two
  <2> QED BY <2>1, Joined
<1>3. IsJoin(text, three, events, L)
  <2>1. three \in Seq(L)
    BY <1>2 DEF IsJoin
  <2> HIDE DEF three
  <2> QED BY <2>1, Joined
<1> HIDE DEF two, three, text, c, t, g, e
<1>4. /\ c \in Nat /\ t \in Nat /\ g \in Nat /\ e \in Nat
      /\ Len(two) = c + t /\ Len(three) = c + t + g /\ Len(text) = c + t + g + e
  BY <1>1, <1>2, <1>3 DEF IsJoin, c, t, g, e
<1>5. k \in Nat /\ k <= Len(text) /\ k = Least(c + t + g + e, height)
  BY <1>4 DEF Least, Positive
<1>6. /\ frame \in Seq(L) /\ DOMAIN frame = 1..k
      /\ \A j \in 1..k : frame[j] = text[j]
  <2>0. text \in Seq(L)
    BY <1>3 DEF IsJoin
  <2> HIDE DEF k
  <2>1. SubSeq(text, 1, k) \in Seq(L) /\ Len(SubSeq(text, 1, k)) = k
    BY <1>5, <2>0
  <2>2. \A j \in 1..k : SubSeq(text, 1, k)[j] = text[j]
    BY <1>5, <2>0
  <2> HIDE DEF frame
  <2> QED BY <1>5, <2>1, <2>2 DEF frame
<1> HIDE DEF frame, k
<1>7. /\ \A j \in 1..c : two[j] = above[j]
      /\ \A j \in 1..t : two[c + j] = table[j]
  BY <1>1 DEF IsJoin, c, t
<1>8. /\ \A j \in 1..(c + t) : three[j] = two[j]
      /\ \A j \in 1..g : three[c + t + j] = triggers[j]
  BY <1>2, <1>4 DEF IsJoin, g
<1>9. /\ \A j \in 1..(c + t + g) : text[j] = three[j]
      /\ \A j \in 1..e : text[c + t + g + j] = events[j]
  BY <1>3, <1>4 DEF IsJoin, e
<1>10. ASSUME NEW j \in 1..c, j \in DOMAIN frame PROVE frame[j] = above[j]
  <2>1. j \in 1..(c + t) /\ j \in 1..(c + t + g)
    BY <1>4
  <2> QED
    BY <1>6, <1>7, <1>8, <1>9, <1>10, <2>1
<1>11. ASSUME NEW j \in 1..t, c + j \in DOMAIN frame PROVE frame[c + j] = table[j]
  <2> DEFINE i == c + j
  <2>1. i \in 1..(c + t) /\ i \in 1..(c + t + g)
    BY <1>4
  <2>2. two[i] = table[j] /\ i \in DOMAIN frame
    BY <1>7, <1>11
  <2> HIDE DEF i
  <2>3. frame[i] = table[j]
    BY <1>6, <1>8, <1>9, <2>1, <2>2
  <2> QED
    BY <2>3 DEF i
<1>12. ASSUME NEW j \in 1..g, c + t + j \in DOMAIN frame
       PROVE  frame[c + t + j] = triggers[j]
  <2> DEFINE i == c + t + j
  <2>1. i \in 1..(c + t + g)
    BY <1>4
  <2>2. three[i] = triggers[j] /\ i \in DOMAIN frame
    BY <1>8, <1>12
  <2> HIDE DEF i
  <2>3. frame[i] = triggers[j]
    BY <1>6, <1>9, <2>1, <2>2
  <2> QED
    BY <2>3 DEF i
<1>13. ASSUME NEW j \in 1..e, c + t + g + j \in DOMAIN frame
       PROVE  frame[c + t + g + j] = events[j]
  BY <1>6, <1>9, <1>13
<1>14. /\ DOMAIN frame = 1..Least(c + t + g + e, height)
       /\ frame \in Seq(L)
  BY <1>5, <1>6
<1>15. IsFrame(frame, above, table, triggers, events, height, L)
  BY <1>4, <1>10, <1>11, <1>12, <1>13, <1>14, Zenon DEF IsFrame, c, t, g, e
<1> QED
  BY <1>15 DEF frame, k, text, three, two

\* What the sections of a frame are.
FrameParts(frame, m, w, h, above, table, triggers, events) ==
  /\ IsFrame(frame, above, table, triggers, events, h, Text(w, Section))
  /\ above = Chrome(m, w) /\ above \in Seq(Text(w, ChromeSections))
  /\ table \in Seq(Text(w, TableSections))
  /\ IsFitted(table, m.rows, Len(above), h, Len(RenderReceiverTable(m.rows, w, 1)))
  /\ triggers \in Seq(Text(w, TriggerSections))
  /\ IsTriggers(triggers, m.rows, w, h - (Len(above) + Len(table)))
  /\ events \in Seq(Text(w, EventSections))
  /\ h - (Len(above) + Len(table) + Len(triggers)) < 3 => events = <<>>

LEMMA FrameShape ==
  ASSUME NEW m \in Models, NEW w \in Positive, NEW h \in Positive
  PROVE  \E above, table, triggers, events :
           FrameParts(Frame(m, w, h), m, w, h, above, table, triggers, events)
<1> DEFINE L == Text(w, Section)
           above == Chrome(m, w)
           table == FittedTable(m, w, h)
           two == above \o table
           triggers == RenderTriggeredAnalysis(m.rows, w, h - Len(two))
           three == two \o triggers
           events == RenderEventLog(m.events, w, h - Len(three))
           text == three \o events
           frame == SubSeq(text, 1, Least(Len(text), h))
<1>0. m.rows \in Seq(LiveRow) /\ m.events \in Seq(Nat) /\ h \in Int
  BY DashboardAssumption DEF Positive
<1>1. Frame(m, w, h) = frame
  BY DEF Frame, FrameFor, BelowTable, BelowEverything
<1>2. above \in Seq(Text(w, ChromeSections)) /\ above \in Seq(L)
  <2>1. above \in Seq(Text(w, ChromeSections))
    BY ChromeType
  <2>2. ChromeSections \subseteq Section
    BY DEF ChromeSections, Section
  <2> HIDE DEF above
  <2> QED BY <2>1, <2>2, MoreText
<1>3. /\ table \in Seq(Text(w, TableSections)) /\ table \in Seq(L)
      /\ IsFitted(table, m.rows, Len(above), h, Len(RenderReceiverTable(m.rows, w, 1)))
  <2>1. /\ table \in Seq(Text(w, TableSections))
        /\ IsFitted(table, m.rows, Len(above), h, Len(RenderReceiverTable(m.rows, w, 1)))
    BY FittedTableShape
  <2>2. TableSections \subseteq Section
    BY DEF TableSections, Section
  <2> HIDE DEF table
  <2> QED BY <2>1, <2>2, MoreText
<1> HIDE DEF above, table
<1>4. Len(two) = Len(above) + Len(table) /\ Len(two) \in Nat
  BY <1>2, <1>3, Joined DEF IsJoin
<1> HIDE DEF two
<1>5. /\ triggers \in Seq(Text(w, TriggerSections)) /\ triggers \in Seq(L)
      /\ IsTriggers(triggers, m.rows, w, h - Len(two))
  <2> DEFINE max == h - Len(two)
  <2>1. max \in Int
    BY <1>0, <1>4
  <2> HIDE DEF max
  <2>2. IsTriggers(RenderTriggeredAnalysis(m.rows, w, max), m.rows, w, max)
    BY <1>0, <2>1, TriggersShape
  <2>3. IsTriggers(triggers, m.rows, w, h - Len(two))
    BY <2>2 DEF max
  <2>4. triggers \in Seq(Text(w, TriggerSections))
    <3> HIDE DEF triggers
    <3> QED BY <2>3 DEF IsTriggers
  <2>5. TriggerSections \subseteq Section
    BY DEF TriggerSections, BlockSections, Section
  <2> HIDE DEF triggers
  <2> QED BY <2>3, <2>4, <2>5, MoreText
<1> HIDE DEF triggers
<1>6. Len(three) = Len(above) + Len(table) + Len(triggers) /\ Len(three) \in Nat
  <2>1. IsJoin(two, above, table, L)
    BY <1>2, <1>3, Joined DEF two
  <2>2. IsJoin(three, two, triggers, L)
    <3>1. two \in Seq(L)
      BY <2>1 DEF IsJoin
    <3> QED BY <1>5, <3>1, Joined
  <2> HIDE DEF three
  <2> QED BY <1>4, <2>2 DEF IsJoin
<1> HIDE DEF three
<1>7. /\ events \in Seq(Text(w, EventSections)) /\ events \in Seq(L)
      /\ h - Len(three) < 3 => events = <<>>
  <2> DEFINE max == h - Len(three)
  <2>1. max \in Int
    BY <1>0, <1>6
  <2> HIDE DEF max
  <2>2. /\ RenderEventLog(m.events, w, max) \in Seq(Text(w, EventSections))
        /\ max < 3 => RenderEventLog(m.events, w, max) = <<>>
    BY <1>0, <2>1, EventLogShape
  <2>3. events = RenderEventLog(m.events, w, max)
    BY DEF max
  <2>4. EventSections \subseteq Section
    BY DEF EventSections, Section
  <2>5. /\ events \in Seq(Text(w, EventSections))
        /\ max < 3 => events = <<>>
    BY <2>2, <2>3
  <2> HIDE DEF events
  <2> QED BY <2>4, <2>5, MoreText DEF max
<1> HIDE DEF events
<1>8. IsFrame(frame, above, table, triggers, events, h, L)
  <2> HIDE DEF L
  <2> QED BY <1>2, <1>3, <1>5, <1>7, Stacked DEF three, two
<1>9. /\ IsTriggers(triggers, m.rows, w, h - (Len(above) + Len(table)))
      /\ h - (Len(above) + Len(table) + Len(triggers)) < 3 => events = <<>>
  BY <1>4, <1>5, <1>6, <1>7
<1>10. above = Chrome(m, w)
  BY DEF above
<1> HIDE DEF frame
<1>11. FrameParts(frame, m, w, h, above, table, triggers, events)
  BY <1>2, <1>3, <1>5, <1>7, <1>8, <1>9, <1>10 DEF FrameParts
<1> QED
  BY <1>1, <1>11

\* Which section a line of a frame is one of.
IsPlaced(i, frame, above, table, triggers, events) ==
  LET c == Len(above)
      t == Len(table)
      g == Len(triggers)
  IN  \/ i \in 1..c /\ frame[i] = above[i]
           /\ frame[i].of \in ChromeSections
      \/ i - c \in 1..t /\ frame[i] = table[i - c]
           /\ frame[i].of \in TableSections
      \/ i - c - t \in 1..g /\ frame[i] = triggers[i - c - t]
           /\ frame[i].of \in TriggerSections
      \/ i > c + t + g /\ events # <<>> /\ frame[i].of \in EventSections

LEMMA WhereLinesAre ==
  ASSUME NEW m, NEW w, NEW h \in Positive, NEW frame, NEW above, NEW table,
         NEW triggers, NEW events,
         FrameParts(frame, m, w, h, above, table, triggers, events),
         NEW i \in DOMAIN frame
  PROVE  IsPlaced(i, frame, above, table, triggers, events)
<1> DEFINE c == Len(above)
           t == Len(table)
           g == Len(triggers)
           e == Len(events)
           L == Text(w, Section)
<1>1. IsFrame(frame, above, table, triggers, events, h, L)
  BY DEF FrameParts
<1>2. /\ c \in Nat /\ t \in Nat /\ g \in Nat /\ e \in Nat
      /\ DOMAIN frame = 1..Least(c + t + g + e, h)
      /\ \A j \in 1..c : j \in DOMAIN frame => frame[j] = above[j]
      /\ \A j \in 1..t : c + j \in DOMAIN frame => frame[c + j] = table[j]
      /\ \A j \in 1..g : c + t + j \in DOMAIN frame => frame[c + t + j] = triggers[j]
      /\ \A j \in 1..e : c + t + g + j \in DOMAIN frame => frame[c + t + g + j] = events[j]
  BY <1>1 DEF IsFrame
<1>3. /\ \A j \in 1..c : above[j].of \in ChromeSections
      /\ \A j \in 1..t : table[j].of \in TableSections
      /\ \A j \in 1..g : triggers[j].of \in TriggerSections
      /\ \A j \in 1..e : events[j].of \in EventSections
  <2>0. /\ above \in Seq(Text(w, ChromeSections))
        /\ table \in Seq(Text(w, TableSections))
        /\ triggers \in Seq(Text(w, TriggerSections))
        /\ events \in Seq(Text(w, EventSections))
    BY DEF FrameParts
  <2>1. \A S : \A s \in Seq(Text(w, S)) : \A j \in 1..Len(s) : s[j].of \in S
    <3> TAKE S
    <3> DEFINE T == Text(w, S)
    <3>1. \A s \in Seq(T) : \A j \in 1..Len(s) : s[j] \in T
      OBVIOUS
    <3> QED
      BY <3>1 DEF Text
  <2> QED
    BY <2>0, <2>1, Zenon
<1>4. i \in Nat /\ i >= 1 /\ i <= c + t + g + e
  <2>1. i \in 1..Least(c + t + g + e, h) /\ h \in Nat
    BY <1>2 DEF Positive
  <2> HIDE DEF c, t, g, e
  <2> QED
    BY <1>2, <2>1 DEF Least
<1> HIDE DEF c, t, g, e
<1>5. CASE i \in 1..c
  BY <1>2, <1>3, <1>5 DEF IsPlaced, c
<1>6. CASE i - c \in 1..t
  <2>1. c + (i - c) = i
    BY <1>2, <1>4
  <2>2. frame[i] = table[i - c]
    BY <1>2, <1>6, <2>1
  <2> QED
    BY <1>3, <1>6, <2>2 DEF IsPlaced, c, t
<1>7. CASE i - c - t \in 1..g
  <2>1. c + t + (i - c - t) = i
    BY <1>2, <1>4
  <2>2. frame[i] = triggers[i - c - t]
    BY <1>2, <1>7, <2>1
  <2> QED
    BY <1>3, <1>7, <2>2 DEF IsPlaced, c, t, g
<1>8. CASE i - c - t - g \in 1..e
  <2>1. c + t + g + (i - c - t - g) = i
    BY <1>2, <1>4
  <2>2. frame[i] = events[i - c - t - g]
    BY <1>2, <1>8, <2>1
  <2>3. i > c + t + g /\ events # <<>>
    BY <1>2, <1>4, <1>8 DEF e
  <2> QED
    BY <1>3, <1>8, <2>2, <2>3 DEF IsPlaced, c, t, g
<1>9. i \in 1..c \/ i - c \in 1..t \/ i - c - t \in 1..g \/ i - c - t - g \in 1..e
  BY <1>2, <1>4
<1> QED
  BY <1>5, <1>6, <1>7, <1>8, <1>9

Of(frame, section) == {i \in DOMAIN frame : frame[i].of = section}

\* A line of a lower section means that no receiver was left out.
LEMMA LowerSectionsMeanAllShown ==
  ASSUME NEW m \in Models, NEW w \in Positive, NEW h \in Positive,
         NEW frame, NEW above, NEW table, NEW triggers, NEW events,
         FrameParts(frame, m, w, h, above, table, triggers, events),
         Of(frame, "triggers") \cup Of(frame, "events") # {}
  PROVE  Of(frame, "hidden") = {} /\ Len(m.rows) <= Cardinality(Of(frame, "row"))
<1> DEFINE c == Len(above)
           t == Len(table)
           g == Len(triggers)
           e == Len(events)
           N == Len(m.rows)
<1>1. m.rows \in Seq(LiveRow) /\ N \in Nat
  BY DashboardAssumption
<1>2. /\ c \in Nat /\ t \in Nat /\ g \in Nat /\ e \in Nat
      /\ DOMAIN frame = 1..Least(c + t + g + e, h)
      /\ \A j \in 1..t : c + j \in DOMAIN frame => frame[c + j] = table[j]
  BY DEF FrameParts, IsFrame
<1>3. PICK i \in DOMAIN frame : frame[i].of \in {"triggers", "events"}
  BY DEF Of
<1> HIDE DEF c, t, g, e, N
<1>4. h \in Nat /\ i \in Nat /\ i <= h /\ i <= c + t + g + e
  BY <1>2 DEF Least, Positive
<1>5. i > c + t
  <2>1. frame[i].of \notin ChromeSections /\ frame[i].of \notin TableSections
    BY <1>3 DEF ChromeSections, TableSections
  <2>2. i - c - t \in 1..g \/ i > c + t + g
    <3>1. IsPlaced(i, frame, above, table, triggers, events)
      BY <2>1, WhereLinesAre
    <3> QED BY <2>1, <3>1 DEF IsPlaced, c, t, g
  <2> QED
    BY <1>2, <1>4, <2>2
<1>6. c + t < h
  BY <1>2, <1>4, <1>5
<1>7. /\ \A j \in DOMAIN table : table[j].of # "hidden"
      /\ \A j \in 1..N : 6 + j \in DOMAIN table /\ table[6 + j].of = "row"
  BY <1>6 DEF FrameParts, IsFitted, c, t, N
<1>8. DOMAIN table = 1..t
  BY DEF FrameParts, t
<1>9. ASSUME NEW j \in Of(frame, "hidden") PROVE FALSE
  <2>1. j \in DOMAIN frame /\ frame[j].of = "hidden"
    BY DEF Of
  <2>2. /\ frame[j].of \notin ChromeSections /\ frame[j].of \notin TriggerSections
        /\ frame[j].of \notin EventSections
    BY <2>1 DEF ChromeSections, TriggerSections, BlockSections, EventSections
  <2>3. j - c \in 1..t /\ frame[j] = table[j - c]
    <3>1. IsPlaced(j, frame, above, table, triggers, events)
      BY <2>1, <2>2, WhereLinesAre
    <3> QED BY <2>1, <2>2, <3>1 DEF IsPlaced, c, t, g
  <2> QED
    BY <1>7, <1>8, <2>1, <2>3
<1>10. \A j \in (c + 7)..(c + 6 + N) : j \in Of(frame, "row")
  <2> TAKE j \in (c + 7)..(c + 6 + N)
  <2> DEFINE q == j - c - 6
  <2>1. q \in 1..N /\ c + (6 + q) = j
    BY <1>1, <1>2
  <2> HIDE DEF q
  <2>2. 6 + q \in 1..t /\ table[6 + q].of = "row"
    BY <1>7, <1>8, <2>1
  <2>3. c + (6 + q) \in DOMAIN frame
    <3>1. c + (6 + q) \in 1..(c + t)
      BY <1>2, <2>2
    <3> QED BY <1>2, <1>4, <1>6, <3>1 DEF Least
  <2>4. frame[c + (6 + q)] = table[6 + q]
    BY <1>2, <2>2, <2>3
  <2> QED
    BY <2>1, <2>2, <2>3, <2>4 DEF Of
<1>11. N <= Cardinality(Of(frame, "row"))
  <2> DEFINE R == Of(frame, "row")
             I == (c + 7)..(c + 6 + N)
             k == Least(c + t + g + e, h)
  <2>1. k \in Nat
    BY <1>2, <1>4 DEF Least
  <2>2. R \in SUBSET (1..k)
    BY <1>2 DEF Of
  <2>3. IsFiniteSet(1..k)
    BY <2>1, FS_Interval
  <2>4. IsFiniteSet(R)
    <3> DEFINE D == 1..k
    <3>1. IsFiniteSet(D) /\ R \in SUBSET D
      BY <2>2, <2>3
    <3> HIDE DEF D, R
    <3> QED BY <3>1, FS_Subset
  <2>5. Cardinality(I) = N
    <3> DEFINE a == c + 7
               b == c + 6 + N
    <3>1. a \in Int /\ b \in Int /\ (IF a > b THEN 0 ELSE b - a + 1) = N
      BY <1>1, <1>2
    <3>2. Cardinality(a..b) = IF a > b THEN 0 ELSE b - a + 1
      <4> HIDE DEF a, b
      <4> QED BY <3>1, FS_Interval
    <3> QED
      BY <3>1, <3>2
  <2>6. I \in SUBSET R
    BY <1>10
  <2>7. Cardinality(I) <= Cardinality(R)
    <3> HIDE DEF I, R
    <3> QED BY <2>4, <2>6, FS_Subset
  <2> QED
    BY <2>5, <2>7
<1> QED
  BY <1>9, <1>11 DEF N

\* The event log's headings mean that no trigger was left out.
LEMMA EventsMeanAllTold ==
  ASSUME NEW m \in Models, NEW w \in Positive, NEW h \in Positive,
         NEW frame, NEW above, NEW table, NEW triggers, NEW events,
         FrameParts(frame, m, w, h, above, table, triggers, events),
         Of(frame, "events") # {}
  PROVE  /\ Of(frame, "more") = {}
         /\ \A r \in DOMAIN m.rows : m.rows[r].rules > 0 =>
              Cardinality({i \in Of(frame, "trigger") : frame[i].about = r})
                = m.rows[r].scoring + 2
<1> DEFINE c == Len(above)
           t == Len(table)
           g == Len(triggers)
           e == Len(events)
           max == h - (c + t)
<1>1. m.rows \in Seq(LiveRow)
  BY DashboardAssumption
<1>2. /\ c \in Nat /\ t \in Nat /\ g \in Nat /\ e \in Nat
      /\ DOMAIN frame = 1..Least(c + t + g + e, h)
      /\ \A j \in 1..g : c + t + j \in DOMAIN frame => frame[c + t + j] = triggers[j]
      /\ DOMAIN triggers = 1..g
  BY DEF FrameParts, IsFrame
<1>3. PICK i \in DOMAIN frame : frame[i].of = "events"
  BY DEF Of
<1>0. h \in Nat
  BY DEF Positive
<1> HIDE DEF c, t, g, e
<1>4. i > c + t + g /\ events # <<>>
  <2>1. /\ frame[i].of \notin ChromeSections /\ frame[i].of \notin TableSections
        /\ frame[i].of \notin TriggerSections
    BY <1>3 DEF ChromeSections, TableSections, TriggerSections, BlockSections
  <2> QED
    <3>1. IsPlaced(i, frame, above, table, triggers, events)
      BY <2>1, WhereLinesAre
    <3> QED BY <2>1, <3>1 DEF IsPlaced, c, t, g
<1>5. ~(h - (c + t + g) < 3)
  BY <1>4 DEF FrameParts, c, t, g
<1>6. max > 0 /\ g < max /\ c + t + g < h
  BY <1>0, <1>2, <1>5
<1>7. /\ \A j \in DOMAIN triggers : triggers[j].of # "more"
      /\ \A r \in DOMAIN m.rows : m.rows[r].rules > 0 =>
           \E a \in Nat : Where(triggers, r) = (a + 1)..(a + m.rows[r].scoring + 2)
  <2>1. IsTriggers(triggers, m.rows, w, max)
    BY DEF FrameParts, c, t
  <2> HIDE DEF max
  <2> QED BY <1>6, <2>1 DEF IsTriggers, g
<1>8. ASSUME NEW j \in 1..g
      PROVE  c + t + j \in DOMAIN frame /\ frame[c + t + j] = triggers[j]
  <2>1. c + t + j \in DOMAIN frame
    BY <1>0, <1>2, <1>6 DEF Least
  <2> QED BY <1>2, <2>1
<1>9. ASSUME NEW j \in DOMAIN frame, frame[j].of \in {"trigger", "more"}
      PROVE  j - c - t \in 1..g /\ frame[j] = triggers[j - c - t] /\ j \in Nat
  <2>1. /\ frame[j].of \notin ChromeSections /\ frame[j].of \notin TableSections
        /\ frame[j].of \notin EventSections
    BY <1>9 DEF ChromeSections, TableSections, EventSections
  <2>2. j \in Nat
    BY <1>2
  <2> QED
    <3>1. IsPlaced(j, frame, above, table, triggers, events)
      BY <2>1, <2>2, WhereLinesAre
    <3> QED BY <2>1, <2>2, <3>1 DEF IsPlaced, c, t, g
<1>10. Of(frame, "more") = {}
  BY <1>2, <1>7, <1>9 DEF Of
<1>11. ASSUME NEW r \in DOMAIN m.rows, m.rows[r].rules > 0
       PROVE  Cardinality({j \in Of(frame, "trigger") : frame[j].about = r})
                = m.rows[r].scoring + 2
  <2> DEFINE n == m.rows[r].scoring
             T == {j \in Of(frame, "trigger") : frame[j].about = r}
  <2>1. n \in Nat
    BY <1>1 DEF LiveRow
  <2>2. PICK a \in Nat : Where(triggers, r) = (a + 1)..(a + n + 2)
    BY <1>7, <1>11
  <2> DEFINE low == c + t + a + 1
             high == c + t + a + n + 2
  <2> HIDE DEF n
  <2>3. low \in Int /\ high \in Int /\ (IF low > high THEN 0 ELSE high - low + 1) = n + 2
    BY <1>2, <2>1, <2>2
  <2>4. ASSUME NEW j \in T PROVE j \in low..high
    <3>1. j - c - t \in 1..g /\ frame[j] = triggers[j - c - t] /\ j \in Nat
      BY <1>9 DEF Of
    <3>2. j - c - t \in Where(triggers, r)
      BY <1>2, <3>1 DEF Where, Of
    <3>3. j - c - t \in (a + 1)..(a + n + 2)
      BY <2>2, <3>2
    <3> QED
      BY <1>2, <2>1, <2>2, <3>1, <3>3
  <2>5. ASSUME NEW j \in low..high PROVE j \in T
    <3> DEFINE q == j - c - t
    <3>1. q \in (a + 1)..(a + n + 2) /\ c + t + q = j
      BY <1>2, <2>1, <2>2
    <3> HIDE DEF q
    <3>2. q \in Where(triggers, r)
      BY <2>2, <3>1
    <3>3. q \in 1..g /\ triggers[q].of = "trigger" /\ triggers[q].about = r
      BY <1>2, <3>2 DEF Where
    <3>4. c + t + q \in DOMAIN frame /\ frame[c + t + q] = triggers[q]
      BY <1>8, <3>3
    <3> QED
      BY <3>1, <3>3, <3>4 DEF Of
  <2>6. T = low..high
    <3> HIDE DEF T, low, high
    <3>1. \A j \in low..high : j \in T
      BY <2>5
    <3>2. \A j \in T : j \in low..high
      BY <2>4
    <3> QED BY <3>1, <3>2
  <2>7. Cardinality(low..high) = n + 2
    <3> HIDE DEF low, high
    <3> QED BY <2>3, FS_Interval
  <2> QED
    BY <2>6, <2>7 DEF n
<1> QED
  BY <1>10, <1>11

Shown(frame) == {frame[i].about : i \in Of(frame, "row")}

\* Where one row fits, a receiver that is not shown is counted by the notice,
\* and the state of the whole is there and takes it into account.
LEMMA NothingHiddenInFrame ==
  ASSUME NEW m \in Models, NEW w \in Positive, NEW h \in Positive,
         NEW frame, NEW above, NEW table, NEW triggers, NEW events,
         FrameParts(frame, m, w, h, above, table, triggers, events),
         Len(Chrome(m, w)) + Len(RenderReceiverTable(m.rows, w, 1)) <= h,
         NEW r \in DOMAIN m.rows, r \notin Shown(frame)
  PROVE  /\ \E i \in Of(frame, "hidden") :
              frame[i].about + Cardinality(Shown(frame)) = Len(m.rows)
         /\ \E i \in Of(frame, "status") : frame[i].about >= RowSeverity(m.rows[r])
<1> DEFINE c == Len(above)
           t == Len(table)
           g == Len(triggers)
           e == Len(events)
           N == Len(m.rows)
<1>1. m.rows \in Seq(LiveRow) /\ N \in Nat /\ r \in 1..N /\ m.rows # <<>>
  BY DashboardAssumption
<1>2. /\ c \in Nat /\ t \in Nat /\ g \in Nat /\ e \in Nat
      /\ DOMAIN frame = 1..Least(c + t + g + e, h)
      /\ \A j \in 1..c : j \in DOMAIN frame => frame[j] = above[j]
      /\ \A j \in 1..t : c + j \in DOMAIN frame => frame[c + j] = table[j]
  BY DEF FrameParts, IsFrame
<1>3. above = Chrome(m, w) /\ DOMAIN above = 1..c /\ DOMAIN table = 1..t
  BY DEF FrameParts
<1>4. h \in Nat
  BY DEF Positive
<1>5. /\ c + t <= h
      /\ \E k \in 1..N : Shape(table, k, N - k)
  <2>1. IsFitted(table, m.rows, c, h, Len(RenderReceiverTable(m.rows, w, 1)))
    BY DEF FrameParts
  <2>2. c + Len(RenderReceiverTable(m.rows, w, 1)) <= h
    BY <1>3
  <2> HIDE DEF c
  <2> QED BY <1>1, <2>1, <2>2 DEF IsFitted
<1>6. PICK k \in 1..N : Shape(table, k, N - k)
  BY <1>5
<1> HIDE DEF c, t, g, e, N
<1>7. \A j \in 1..(c + t) : j \in DOMAIN frame
  BY <1>2, <1>4, <1>5 DEF Least
<1>8. \A j \in 1..t : c + j \in DOMAIN frame /\ frame[c + j] = table[j]
  <2> TAKE j \in 1..t
  <2>1. c + j \in 1..(c + t)
    BY <1>2
  <2> QED BY <1>2, <1>7, <2>1
<1>9. k \in Nat /\ t = 7 + k + (IF N - k = 0 THEN 0 ELSE 1)
  <2>1. Len(table) = 7 + k + (IF N - k = 0 THEN 0 ELSE 1)
    BY <1>6 DEF Shape
  <2>2. k \in Nat
    BY <1>1, <1>6
  <2> QED
    BY <2>1, <2>2 DEF t
<1>10. \A j \in 1..k : /\ c + (6 + j) \in Of(frame, "row")
                      /\ frame[c + (6 + j)].about = j
  <2> TAKE j \in 1..k
  <2>1. 6 + j \in 1..t
    BY <1>1, <1>9
  <2>2. table[6 + j].of = "row" /\ table[6 + j].about = j
    BY <1>6 DEF Shape
  <2> QED
    BY <1>8, <2>1, <2>2 DEF Of
<1>11. ASSUME NEW i \in Of(frame, "row") PROVE frame[i].about \in 1..k
  <2>1. i \in DOMAIN frame /\ frame[i].of = "row"
    BY DEF Of
  <2>2. /\ frame[i].of \notin ChromeSections /\ frame[i].of \notin TriggerSections
        /\ frame[i].of \notin EventSections
    BY <2>1 DEF ChromeSections, TriggerSections, BlockSections, EventSections
  <2>3. i - c \in 1..t /\ frame[i] = table[i - c]
    <3>1. IsPlaced(i, frame, above, table, triggers, events)
      BY <2>1, <2>2, WhereLinesAre
    <3> QED BY <2>1, <2>2, <3>1 DEF IsPlaced, c, t, g
  <2> DEFINE j == i - c
  <2>4. j \in DOMAIN table
    BY <1>3, <2>3
  <2> HIDE DEF j
  <2>5. /\ \/ table[j].of \in Framing
           \/ j - 6 \in 1..k
           \/ N - k # 0 /\ j = 7 + k
        /\ \A q \in 1..k : table[6 + q].of = "row" /\ table[6 + q].about = q
        /\ N - k # 0 => table[7 + k].of = "hidden"
    BY <1>6, <2>4 DEF Shape
  <2>6. table[j].of = "row" /\ frame[i].about = table[j].about
    BY <2>1, <2>3 DEF j
  <2>7. j - 6 \in 1..k
    BY <2>5, <2>6 DEF Framing
  <2>8. 6 + (j - 6) = j
    BY <1>3, <2>4
  <2>9. table[6 + (j - 6)].about = j - 6
    BY <2>5, <2>7
  <2> QED
    BY <2>6, <2>7, <2>8, <2>9
<1>12. Shown(frame) = 1..k
  <2>1. \A j \in 1..k : j \in Shown(frame)
    BY <1>10 DEF Shown
  <2>2. \A j \in Shown(frame) : j \in 1..k
    BY <1>11 DEF Shown
  <2> QED BY <2>1, <2>2
<1>13. Cardinality(Shown(frame)) = k
  <2>1. Cardinality(1..k) = k
    <3>1. Cardinality(1..k) = IF 1 > k THEN 0 ELSE k - 1 + 1
      BY <1>9, FS_Interval
    <3> QED BY <1>9, <3>1
  <2> QED BY <1>12, <2>1
<1>14. N - k # 0 /\ N - k \in Nat
  BY <1>1, <1>6, <1>9, <1>12
<1>15. \E i \in Of(frame, "hidden") : frame[i].about + Cardinality(Shown(frame)) = N
  <2>1. table[7 + k].of = "hidden" /\ table[7 + k].about = N - k
    BY <1>6, <1>14 DEF Shape
  <2>2. 7 + k \in 1..t
    BY <1>9, <1>14
  <2>3. c + (7 + k) \in Of(frame, "hidden") /\ frame[c + (7 + k)].about = N - k
    BY <1>8, <2>1, <2>2 DEF Of
  <2>4. N - k + k = N
    BY <1>1, <1>9
  <2> QED
    BY <1>13, <2>3, <2>4
<1>16. \E i \in Of(frame, "status") : frame[i].about >= RowSeverity(m.rows[r])
  <2>1. PICK i \in 1..c : above[i].of = "status" /\ above[i].about = OverallSeverity(m.rows)
    BY <1>3, ChromeType
  <2>2. i \in 1..(c + t)
    BY <1>2
  <2>3. i \in DOMAIN frame /\ frame[i] = above[i]
    BY <1>2, <1>7, <2>2
  <2>4. OverallSeverity(m.rows) >= RowSeverity(m.rows[r])
    BY <1>1, OverallIsWorst
  <2> QED
    BY <2>1, <2>3, <2>4 DEF Of
<1> QED
  BY <1>15, <1>16 DEF N

-----------------------------------------------------------------------------
(* The screen.                                                             *)

LEMMA FrameType ==
  ASSUME NEW m \in Models, NEW w \in Positive, NEW h \in Positive
  PROVE  /\ Frame(m, w, h) \in Seq(Text(w, Section)) /\ Frame(m, w, h) \in Seq(Line)
         /\ \A i \in DOMAIN Frame(m, w, h) :
              Frame(m, w, h)[i].width <= Most(w, NoReceivers)
<1>1. Frame(m, w, h) \in Seq(Text(w, Section))
  BY FrameShape DEF FrameParts, IsFrame
<1> DEFINE frame == Frame(m, w, h)
           T == Text(w, Section)
<1> HIDE DEF frame
<1>2. frame \in Seq(T)
  BY <1>1 DEF frame
<1>3. T \subseteq Line /\ \A l \in T : l.width <= Most(w, NoReceivers)
  BY DEF Text
<1> HIDE DEF T
<1>4. frame \in Seq(Line)
  BY <1>2, <1>3
<1>5. \A i \in DOMAIN frame : frame[i].width <= Most(w, NoReceivers)
  BY <1>2, <1>3
<1> QED
  BY <1>1, <1>4, <1>5 DEF frame

LEMMA SizeType ==
  ASSUME NEW s \in Sizes
  PROVE  s[1] \in Positive /\ s[2] \in Positive
BY DashboardAssumption DEF Positive

LEMMA BlanksType ==
  ASSUME NEW n \in Nat
  PROVE  /\ Blanks(n) \in Seq(Line) /\ Len(Blanks(n)) = n
         /\ DOMAIN Blanks(n) = 1..n /\ \A i \in 1..n : Blanks(n)[i] = Blank
<1>1. Blank \in Line
  <2>1. 1 \in Positive
    BY DEF Positive
  <2> QED BY <2>1, BlankType
<1> QED
  BY <1>1 DEF Blanks

\* What is written: the frame cut to the height, and empty lines down to the
\* tallest frame written so far.
Written == SubSeq(lines, 1, Least(Len(lines), cap))
Height == Least(Most(Len(Written), maxDrawn), cap)

LEMMA WrittenType ==
  ASSUME lines \in Seq(Line), cap \in Positive, maxDrawn \in Nat
  PROVE  /\ Written \in Seq(Line) /\ Len(Written) \in Nat
         /\ Height \in Nat /\ Len(Written) <= Height /\ Height <= cap
         /\ Least(maxDrawn, cap) <= Height
         /\ Padded(Written, Height) \in Seq(Line)
         /\ Len(Padded(Written, Height)) = Height
         /\ \A i \in 1..Height : Padded(Written, Height)[i] =
              IF i <= Len(Written) THEN Written[i] ELSE Blank
<1> DEFINE k == Least(Len(lines), cap)
<1>1. k \in Nat /\ k <= Len(lines) /\ k <= cap /\ cap \in Nat
  BY DEF Least, Positive
<1>2. Written \in Seq(Line) /\ Len(Written) = k
  <2>1. SubSeq(lines, 1, k) \in Seq(Line) /\ Len(SubSeq(lines, 1, k)) = k
    <3> HIDE DEF k
    <3> QED BY <1>1
  <2> QED BY <2>1 DEF Written
<1> HIDE DEF k
<1>3. /\ Height \in Nat /\ k <= Height /\ Height <= cap
      /\ Least(maxDrawn, cap) <= Height
  BY <1>1, <1>2 DEF Height, Least, Most
<1> DEFINE gap == Most(0, Height - Len(Written))
           pad == Blanks(gap)
           text == Padded(Written, Height)
<1>4. gap \in Nat /\ k + gap = Height
  BY <1>1, <1>2, <1>3 DEF Most
<1> HIDE DEF gap
<1>5. /\ pad \in Seq(Line) /\ Len(pad) = gap /\ \A i \in 1..gap : pad[i] = Blank
  BY <1>4, BlanksType
<1> HIDE DEF pad
<1>6. IsJoin(text, Written, pad, Line)
  <2>1. text = Written \o pad
    BY DEF Padded, pad, gap
  <2>2. IsJoin(Written \o pad, Written, pad, Line)
    BY <1>2, <1>5, Joined
  <2> QED BY <2>1, <2>2
<1> HIDE DEF text
<1>7. /\ text \in Seq(Line) /\ Len(text) = Height
      /\ \A i \in 1..k : text[i] = Written[i]
      /\ \A i \in 1..gap : text[k + i] = pad[i]
  BY <1>2, <1>4, <1>5, <1>6 DEF IsJoin
<1>8. ASSUME NEW i \in 1..Height
      PROVE  text[i] = IF i <= k THEN Written[i] ELSE Blank
  <2>1. CASE i <= k
    BY <1>1, <1>7, <2>1
  <2>2. CASE ~(i <= k)
    <3>1. i - k \in 1..gap /\ k + (i - k) = i
      BY <1>1, <1>4, <2>2
    <3>2. text[i] = Blank
      BY <1>5, <1>7, <3>1
    <3> QED BY <2>2, <3>2
  <2> QED BY <2>1, <2>2
<1> QED
  BY <1>1, <1>2, <1>3, <1>7, <1>8 DEF text

\* A line is followed by rows of it, and by none when it fits.
LEMMA PiecesType ==
  ASSUME size \in Sizes, NEW line \in Line
  PROVE  /\ Pieces(line) \in Seq(Line)
         /\ line.width <= size[1] => Pieces(line) = <<line>>
<1> DEFINE n == size[1]
           x == Most(0, line.width - 1)
<1>1. n \in Positive /\ n \in Nat \ {0} /\ line.width \in Nat
  BY SizeType DEF Line, Positive
<1>2. x \in Nat /\ (line.width <= n => x < n)
  BY <1>1 DEF Most
<1>3. Cut(line, n) \in Line /\ (line.width <= n => Cut(line, n) = line)
  BY <1>1, CutType DEF Text, Line, Cut
<1>4. Pieces(line) = [k \in 1..(1 + (x \div n)) |-> Cut(line, n)]
  BY DEF Pieces, Rows
<1> HIDE DEF n, x
<1>5. x \div n \in Nat /\ (line.width <= n => x \div n = 0)
  BY <1>1, <1>2
<1> DEFINE q == x \div n
           c == Cut(line, n)
<1> HIDE DEF q, c
<1>6. [k \in 1..(1 + q) |-> c] \in Seq(Line)
  BY <1>3, <1>5 DEF q, c
<1>7. q = 0 => [k \in 1..(1 + q) |-> c] = <<c>>
  OBVIOUS
<1> QED
  BY <1>3, <1>4, <1>5, <1>6, <1>7 DEF q, c, n

\* A text that fits on the width of the terminal takes a row for each line.
LEMMA WrappedType ==
  ASSUME size \in Sizes, NEW text \in Seq(Line)
  PROVE  /\ Wrapped(text) \in Seq(Line)
         /\ (\A i \in DOMAIN text : text[i].width <= size[1]) => Wrapped(text) = text
<1> DEFINE n == Len(text)
           A == Seq(Line)
           base == <<>>
           Step(rows, line) == rows \o Pieces(line)
           op == [i \in 1..n |-> [a \in A |-> Step(a, text[i])]]
           Solves(h) == h = [s \in SUBSET (1..n) |->
                               IF s = {} THEN base
                               ELSE Step(h[s \ {Max(s)}], text[Max(s)])]
           it == CHOOSE h : Solves(h)
<1>1. n \in Nat /\ DOMAIN text = 1..n /\ \A i \in 1..n : text[i] \in Line
  OBVIOUS
<1>2. \A i \in 1..n : Pieces(text[i]) \in A
  <2> HIDE DEF n
  <2> QED BY <1>1, PiecesType
<1>3. \A i \in 1..n : \A a \in A : Step(a, text[i]) \in A
  BY <1>2
<1>4. op \in [1..n -> [A -> A]]
  <2> HIDE DEF A, n, Step
  <2> QED BY <1>3
<1>5. base \in A
  OBVIOUS
<1>6. PICK f, g : Ends(f, g, n, A, base, op)
  <2> HIDE DEF op, n, A, base
  <2> QED BY <1>1, <1>4, <1>5, ChainExists
<1>7. Solves(f)
  <2>1. ASSUME NEW s \in SUBSET (1..n), s # {}
        PROVE  f[s] = Step(f[s \ {Max(s)}], text[Max(s)])
    <3>1. /\ Max(s) \in 1..n /\ f[s \ {Max(s)}] \in DOMAIN op[Max(s)]
          /\ f[s] = op[Max(s)][f[s \ {Max(s)}]]
      <4> HIDE DEF op, n, A, base
      <4> QED BY <1>6, <2>1 DEF Ends, FoldsBack
    <3> HIDE DEF n, A, base, Step
    <3> QED BY <3>1
  <2>2. f[{}] = base /\ f \in [SUBSET (1..n) -> A]
    <3> HIDE DEF op, n, A, base
    <3> QED BY <1>6 DEF Ends, FoldsBack
  <2> HIDE DEF n, A, base, Step
  <2> QED
    BY <2>1, <2>2
<1>8. Solves(it)
  <2> HIDE DEF Solves
  <2> QED BY <1>7
<1>9. it[1..n] = f[1..n]
  <2>1. it[{}] = f[{}]
    <3> HIDE DEF it, n, base, Step
    <3> QED BY <1>7, <1>8
  <2>2. ASSUME NEW s \in SUBSET (1..n), s # {}, it[s \ {Top(n)[s]}] = f[s \ {Top(n)[s]}]
        PROVE  it[s] = f[s]
    <3>1. s # {} /\ Top(n)[s] = Max(s)
      BY <2>2 DEF Top
    <3> HIDE DEF it, n, base, Step
    <3>2. f[s] = Step(f[s \ {Max(s)}], text[Max(s)])
      BY <1>7, <3>1
    <3>3. it[s] = Step(it[s \ {Max(s)}], text[Max(s)])
      BY <1>8, <3>1
    <3> QED BY <2>2, <3>1, <3>2, <3>3, Zenon
  <2>3. StepsAgree(it, f, 1..n, Top(n))
    BY <2>1, <2>2 DEF StepsAgree
  <2> HIDE DEF it, n
  <2> QED
    BY <1>1, <2>3, SameEnd
<1>10. Wrapped(text) = it[1..n]
  <2>1. Wrapped(text) = FoldLeft(LAMBDA rows, line : Step(rows, line), base, text)
    BY DEF Wrapped
  <2>2. FoldLeft(LAMBDA rows, line : Step(rows, line), base, text) = it[1..n]
    <3> HIDE DEF base, Step, n
    <3> QED BY <1>1 DEF FoldLeft, MapThenFoldSet
  <2> QED BY <2>1, <2>2
<1>11. f[1..n] = g[n] /\ g[n] \in A
  <2>1. n \in 0..n
    BY <1>1
  <2> HIDE DEF n, A, base, op
  <2> QED BY <1>6, <2>1 DEF Ends, Chain
<1>12. Wrapped(text) = g[n]
  <2> HIDE DEF it, n
  <2> QED BY <1>9, <1>10, <1>11
<1>13. ASSUME \A i \in 1..n : text[i].width <= size[1]
       PROVE  g[n] = text
  <2> DEFINE Good == {i \in Nat : i <= n => /\ g[i] \in A /\ Len(g[i]) = i
                                            /\ \A j \in 1..i : g[i][j] = text[j]}
  <2>1. 0 \in Good
    <3>1. g[0] = base
      <4> HIDE DEF op, n, A, base
      <4> QED BY <1>6 DEF Ends, Chain
    <3>2. g[0] \in A /\ Len(g[0]) = 0
      BY <3>1
    <3>3. \A j \in 1..0 : g[0][j] = text[j]
      OBVIOUS
    <3> HIDE DEF A, n
    <3> QED BY <3>2, <3>3
  <2>2. ASSUME NEW i \in Nat, i \in Good PROVE i + 1 \in Good
    <3> SUFFICES ASSUME i + 1 <= n
                 PROVE  /\ g[i + 1] \in A /\ Len(g[i + 1]) = i + 1
                        /\ \A j \in 1..(i + 1) : g[i + 1][j] = text[j]
      BY DEF Good
    <3> DEFINE r == i + 1
    <3>1. r \in 1..n /\ i \in 0..n /\ r - 1 = i /\ i <= n
      BY <1>1
    <3>2. g[i] \in A /\ Len(g[i]) = i /\ \A j \in 1..i : g[i][j] = text[j]
      BY <2>2, <3>1
    <3>3. g[r] = Step(g[i], text[r])
      <4>1. g[r] = op[r][g[i]]
        <5> HIDE DEF op, n, A, base, r
        <5> QED BY <1>6, <3>1 DEF Ends, Chain
      <4> HIDE DEF n, A, Step, r
      <4> QED BY <3>1, <3>2, <4>1
    <3>4. text[r] \in Line /\ Pieces(text[r]) = <<text[r]>>
      <4>1. text[r] \in Line /\ text[r].width <= size[1]
        <5> HIDE DEF n, r
        <5> QED BY <1>1, <1>13, <3>1
      <4> HIDE DEF r
      <4> QED BY <4>1, PiecesType
    <3> DEFINE last == text[r]
               old == g[i]
    <3>5. g[r] = old \o <<last>> /\ old \in Seq(Line) /\ Len(old) = i /\ last \in Line
      BY <3>2, <3>3, <3>4
    <3> HIDE DEF last, old
    <3>6. /\ g[r] \in Seq(Line) /\ Len(g[r]) = i + 1 /\ g[r][i + 1] = last
          /\ \A j \in 1..i : g[r][j] = old[j]
      <4> HIDE DEF r
      <4> QED BY <3>5
    <3>7. \A j \in 1..(i + 1) : j \in 1..i \/ j = i + 1
      OBVIOUS
    <3> QED BY <3>2, <3>6, <3>7 DEF last, old
  <2>3. \A i \in Nat : i \in Good
    <3> HIDE DEF Good
    <3> QED BY <2>1, <2>2, NumberInduction
  <2>4. g[n] \in A /\ Len(g[n]) = n /\ \A j \in 1..n : g[n][j] = text[j]
    <3> HIDE DEF A, n
    <3> QED BY <1>1, <2>3
  <2> DEFINE all == g[n]
  <2> HIDE DEF all
  <2>5. all \in Seq(Line) /\ Len(all) = Len(text) /\ \A j \in 1..Len(text) : all[j] = text[j]
    BY <2>4 DEF all
  <2>6. all = text
    BY <2>5
  <2> QED BY <2>6 DEF all
<1> HIDE DEF n, it
<1> QED
  BY <1>1, <1>11, <1>12, <1>13

\* What the screen shows after a text was written to it.
LEMMA ShowsType ==
  ASSUME size \in Sizes, DOMAIN screen = 1..size[2],
         \A i \in 1..size[2] : screen[i] \in Line,
         NEW text \in Seq(Line)
  PROVE  LET off == Most(0, Len(text) + 1 - size[2])
             new == Shows(text, screen)
         IN  /\ DOMAIN new = 1..size[2] /\ off \in Nat
             /\ \A i \in 1..size[2] :
                  /\ new[i] \in Line
                  /\ new[i] = IF i + off <= Len(text) THEN text[i + off]
                              ELSE IF off = 0 THEN screen[i] ELSE Blank
<1> DEFINE off == Most(0, Len(text) + 1 - size[2])
           new == Shows(text, screen)
           n == size[2]
<1>1. n \in Nat /\ Len(text) \in Nat
  BY SizeType DEF Positive
<1>2. off \in Nat
  <2> HIDE DEF n
  <2> QED BY <1>1 DEF Most, n
<1>3. Blank \in Line
  <2>1. 1 \in Positive
    BY DEF Positive
  <2> QED BY <2>1, BlankType
<1>4. new = [i \in 1..n |-> IF i + off <= Len(text) THEN text[i + off]
                            ELSE IF off = 0 THEN screen[i] ELSE Blank]
  BY DEF Shows
<1> HIDE DEF new, off, n
<1>5. DOMAIN new = 1..n
  BY <1>4
<1>6. ASSUME NEW i \in 1..n
      PROVE  /\ new[i] \in Line
             /\ new[i] = IF i + off <= Len(text) THEN text[i + off]
                         ELSE IF off = 0 THEN screen[i] ELSE Blank
  <2>1. new[i] = IF i + off <= Len(text) THEN text[i + off]
                 ELSE IF off = 0 THEN screen[i] ELSE Blank
    BY <1>4
  <2>2. i + off <= Len(text) => text[i + off] \in Line
    <3> SUFFICES ASSUME i + off <= Len(text) PROVE text[i + off] \in Line
      OBVIOUS
    <3>1. i + off \in 1..Len(text)
      BY <1>1, <1>2
    <3> QED BY <3>1
  <2>3. screen[i] \in Line
    BY DEF n
  <2> QED BY <1>3, <2>1, <2>2, <2>3
<1> QED
  BY <1>2, <1>5, <1>6 DEF new, off, n

\* The terminal keeps a cursor on the screen and a line in each of its rows,
\* and the render thread never remembers more lines than the last height it
\* measured (update() and _draw_in_place() of live/dashboard.py).
THEOREM TypeCorrect == Spec => []TypeOK
<1>1. Init => TypeOK
  <2> SUFFICES ASSUME Init PROVE TypeOK
    OBVIOUS
  <2>1. size \in Sizes /\ size[2] \in Positive /\ cursor \in 1..size[2]
    BY SizeType DEF Init, Positive
  <2>2. DOMAIN screen = 1..size[2] /\ \A i \in 1..size[2] : screen[i] \in Line
    BY DEF Init, Old, ALine, Line, Section
  <2>3. lines \in Seq(Line) /\ room \in [width : Nat \ {0}, height : Nat \ {0}]
    BY DEF Init
  <2>4. frames \in 0..MaxFrames /\ resizes \in 0..MaxResizes
    BY DashboardAssumption DEF Init
  <2>5. steady \in BOOLEAN /\ narrowed \in BOOLEAN
    <3>1. steady = TRUE /\ narrowed = FALSE
      BY DEF Init
    <3> QED BY <3>1
  <2> QED
    BY <2>1, <2>2, <2>3, <2>4, <2>5 DEF Init, TypeOK
<1>2. TypeOK /\ [Next]_vars => TypeOK'
  <2> SUFFICES ASSUME TypeOK, [Next]_vars PROVE TypeOK'
    OBVIOUS
  <2>0. /\ size \in Sizes /\ size[1] \in Positive /\ size[2] \in Positive
        /\ cursor \in 1..size[2]
        /\ frames \in Nat /\ MaxFrames \in Nat /\ resizes \in Nat /\ MaxResizes \in Nat
    BY SizeType, DashboardAssumption DEF TypeOK
  <2>1. CASE Open
    <3>1. /\ DOMAIN Blanks(size[2]) = 1..size[2]
          /\ \A i \in 1..size[2] : Blanks(size[2])[i] = Blank
      BY <2>0, BlanksType DEF Positive
    <3>2. Blank \in Line
      <4>1. 1 \in Positive
        BY DEF Positive
      <4> QED BY <4>1, BlankType
    <3>3. 1 \in 1..size[2]
      BY <2>0 DEF Positive
    <3>4. cap \in Nat \ {0} /\ 0 <= cap
      BY DEF TypeOK
    <3> QED
      BY <2>1, <3>1, <3>2, <3>3, <3>4 DEF Open, TypeOK, history
  <2>2. CASE ReadHeight
    <3>1. Most(1, size[2] - 1) \in Nat \ {0}
      BY <2>0 DEF Most, Positive
    <3> QED
      BY <2>2, <3>1 DEF ReadHeight, TypeOK, terminal
  <2>3. CASE Write
    <3>1. lines \in Seq(Line) /\ cap \in Positive /\ maxDrawn \in Nat
      BY DEF TypeOK, Positive
    <3> DEFINE text == Wrapped(Padded(Written, Height))
    <3>2. /\ lines' = Written /\ maxDrawn' = Height
          /\ screen' = Shows(text, screen)
          /\ cursor' = Least(Len(text) + 1, size[2])
          /\ narrowed' = (narrowed \/ Narrow)
      BY <2>3 DEF Write, Written, Height
    <3>3. /\ Written \in Seq(Line) /\ Height \in Nat /\ Height <= cap
          /\ Padded(Written, Height) \in Seq(Line)
      BY <3>1, WrittenType
    <3> DEFINE new == Shows(text, screen)
    <3>7. text \in Seq(Line) /\ Len(text) \in Nat
      <4> DEFINE padded == Padded(Written, Height)
      <4>1. padded \in Seq(Line) /\ size \in Sizes
        BY <3>3 DEF TypeOK
      <4> HIDE DEF padded
      <4>2. Wrapped(padded) \in Seq(Line)
        BY <4>1, WrappedType
      <4> QED BY <4>2 DEF padded
    <3> HIDE DEF text
    <3>4. DOMAIN new = 1..size[2] /\ \A i \in 1..size[2] : new[i] \in Line
      <4>1. /\ size \in Sizes /\ DOMAIN screen = 1..size[2]
            /\ \A i \in 1..size[2] : screen[i] \in Line
        BY DEF TypeOK
      <4> QED BY <3>7, <4>1, ShowsType
    <3>5. cursor' \in 1..size[2]
      BY <2>0, <3>2, <3>7 DEF Least, Positive
    <3>8. narrowed' \in BOOLEAN
      BY <3>2 DEF TypeOK
    <3> HIDE DEF new
    <3>6. screen' = new
      BY <3>2 DEF new
    <3> QED
      BY <2>3, <3>2, <3>3, <3>4, <3>5, <3>6, <3>8 DEF Write, TypeOK
  <2>4. CASE Close
    BY <2>4 DEF Close, TypeOK, terminal, history
  <2>5. ASSUME NEW m \in Models, Compose(m) PROVE TypeOK'
    <3> DEFINE w == Most(1, size[1] - 1)
               h == Most(1, size[2] - 1)
    <3>1. w \in Positive /\ h \in Positive
      BY <2>0 DEF Most, Positive
    <3>2. room' = [width |-> w, height |-> h] /\ lines' = Frame(m, w, h)
      BY <2>5 DEF Compose
    <3> HIDE DEF w, h
    <3>3. Frame(m, w, h) \in Seq(Line)
      BY <3>1, FrameType
    <3>4. room' \in [width : Nat \ {0}, height : Nat \ {0}]
      BY <3>1, <3>2 DEF Positive
    <3>5. frames' \in 0..MaxFrames
      BY <2>0, <2>5 DEF Compose
    <3> QED
      BY <2>5, <3>2, <3>3, <3>4, <3>5 DEF Compose, TypeOK, terminal
  <2>6. ASSUME NEW s \in Sizes, Resize(s) PROVE TypeOK'
    <3> DEFINE off == Most(0, cursor - s[2])
    <3>1. s[2] \in Positive
      BY SizeType
    <3>2. off \in Nat /\ cursor - off \in 1..s[2]
      BY <2>0, <3>1 DEF Most, Positive
    <3>3. /\ size' = s /\ cursor' = cursor - off
          /\ screen' = [i \in 1..s[2] |->
                         IF i + off <= size[2] THEN screen[i + off] ELSE Blank]
      BY <2>6 DEF Resize
    <3> HIDE DEF off
    <3>4. \A i \in 1..s[2] : i + off <= size[2] => screen[i + off] \in Line
      <4> TAKE i \in 1..s[2]
      <4>1. i + off <= size[2] => i + off \in 1..size[2]
        BY <2>0, <3>2 DEF Positive
      <4> QED BY <4>1 DEF TypeOK
    <3>5. Blank \in Line
      BY <3>1, BlankType
    <3>6. DOMAIN screen' = 1..s[2] /\ \A i \in 1..s[2] : screen'[i] \in Line
      BY <3>3, <3>4, <3>5
    <3>7. resizes' \in 0..MaxResizes
      BY <2>0, <2>6 DEF Resize
    <3> QED
      BY <2>6, <3>2, <3>3, <3>6, <3>7 DEF Resize, TypeOK
  <2>7. CASE UNCHANGED vars
    BY <2>7 DEF vars, TypeOK, terminal, history
  <2> QED
    BY <2>1, <2>2, <2>3, <2>4, <2>5, <2>6, <2>7 DEF Next
<1> QED
  BY <1>1, <1>2, PTL DEF Spec

-----------------------------------------------------------------------------
(* What is composed.                                                       *)

\* Until it is measured, the frame is the one composed for the model and for
\* the room, whatever the terminal has become.
Composed ==
  pc = "composed" => /\ model \in Models
                     /\ lines = Frame(model, room.width, room.height)

LEMMA ComposedStays == Spec => []Composed
<1>1. Init => Composed
  BY DEF Init, Composed
<1>2. Composed /\ [Next]_vars => Composed'
  <2> SUFFICES ASSUME Composed, [Next]_vars PROVE Composed'
    OBVIOUS
  <2>1. CASE Open
    BY <2>1 DEF Open, Composed
  <2>2. CASE ReadHeight
    BY <2>2 DEF ReadHeight, Composed
  <2>3. CASE Write
    BY <2>3 DEF Write, Composed
  <2>4. CASE Close
    BY <2>4 DEF Close, Composed
  <2>5. ASSUME NEW m \in Models, Compose(m) PROVE Composed'
    BY <2>5 DEF Compose, Composed
  <2>6. ASSUME NEW s \in Sizes, Resize(s) PROVE Composed'
    BY <2>6 DEF Resize, Composed
  <2>7. CASE UNCHANGED vars
    BY <2>7 DEF vars, Composed
  <2> QED
    BY <2>1, <2>2, <2>3, <2>4, <2>5, <2>6, <2>7 DEF Next
<1> QED
  BY <1>1, <1>2, PTL DEF Spec

\* The frame of a composed state.
LEMMA ComposedFrame ==
  ASSUME TypeOK, Composed, pc = "composed"
  PROVE  /\ model \in Models /\ room.width \in Positive /\ room.height \in Positive
         /\ \E above, table, triggers, events :
              FrameParts(lines, model, room.width, room.height,
                         above, table, triggers, events)
<1>1. model \in Models /\ lines = Frame(model, room.width, room.height)
  BY DEF Composed
<1>2. room.width \in Positive /\ room.height \in Positive
  BY DEF TypeOK, Positive
<1> QED
  BY <1>1, <1>2, FrameShape

\* A line of the triggers or of the event log means that every receiver is
\* shown, and one of the event log that every trigger is: _lines() gives the
\* lower sections only what the upper ones leave.
THEOREM ReceiversComeFirst == Spec => []ReceiversFirst
<1>1. TypeOK /\ Composed => ReceiversFirst
  <2> SUFFICES ASSUME TypeOK, Composed, pc = "composed" PROVE ReceiversFirst
    BY DEF ReceiversFirst
  <2>1. model \in Models /\ room.width \in Positive /\ room.height \in Positive
    BY ComposedFrame
  <2>2. PICK above, table, triggers, events :
          FrameParts(lines, model, room.width, room.height,
                     above, table, triggers, events)
    BY ComposedFrame
  <2>3. \A section : LinesOf(section) = Of(lines, section)
    BY DEF LinesOf, Of
  <2>4. LinesOf("triggers") \cup LinesOf("events") # {} =>
          LinesOf("hidden") = {} /\ Len(model.rows) <= Cardinality(LinesOf("row"))
    BY <2>1, <2>2, <2>3, LowerSectionsMeanAllShown
  <2>5. LinesOf("events") # {} =>
          /\ LinesOf("more") = {}
          /\ \A r \in DOMAIN model.rows :
               model.rows[r].rules > 0 =>
                 Cardinality({i \in LinesOf("trigger") : lines[i].about = r})
                   = model.rows[r].scoring + 2
    BY <2>1, <2>2, <2>3, EventsMeanAllTold
  <2> QED
    BY <2>4, <2>5 DEF ReceiversFirst
<1> QED
  BY <1>1, TypeCorrect, ComposedStays, PTL

\* No receiver is left out silently where one row fits: FittedTable() keeps the
\* notice that counts them, and _overall_severity() takes them into account.
THEOREM NoneHiddenSilently == Spec => []NothingHiddenSilently
<1>1. TypeOK /\ Composed => NothingHiddenSilently
  <2> SUFFICES ASSUME TypeOK, Composed, pc = "composed",
                      Len(Chrome(model, room.width))
                        + Len(RenderReceiverTable(model.rows, room.width, 1))
                          <= room.height,
                      NEW r \in DOMAIN model.rows \ {lines[i].about : i \in LinesOf("row")}
               PROVE  /\ \E i \in LinesOf("hidden") :
                           lines[i].about
                             + Cardinality({lines[j].about : j \in LinesOf("row")})
                             = Len(model.rows)
                      /\ \E i \in LinesOf("status") :
                           lines[i].about >= RowSeverity(model.rows[r])
    BY DEF NothingHiddenSilently
  <2>1. model \in Models /\ room.width \in Positive /\ room.height \in Positive
    BY ComposedFrame
  <2>2. PICK above, table, triggers, events :
          FrameParts(lines, model, room.width, room.height,
                     above, table, triggers, events)
    BY ComposedFrame
  <2>3. \A section : LinesOf(section) = Of(lines, section)
    BY DEF LinesOf, Of
  <2>4. {lines[i].about : i \in LinesOf("row")} = Shown(lines)
    BY <2>3 DEF Shown
  <2>5. r \in DOMAIN model.rows /\ r \notin Shown(lines)
    BY <2>4
  <2>6. /\ \E i \in Of(lines, "hidden") :
             lines[i].about + Cardinality(Shown(lines)) = Len(model.rows)
        /\ \E i \in Of(lines, "status") : lines[i].about >= RowSeverity(model.rows[r])
    BY <2>1, <2>2, <2>5, NothingHiddenInFrame
  <2> QED
    BY <2>3, <2>4, <2>6
<1> QED
  BY <1>1, TypeCorrect, ComposedStays, PTL

\* Every line is cut to the width or packed into it (_truncate(),
\* _pack_chunks()), except the headings of the sections and the texts of an
\* empty table and an empty event log.
THEOREM WidthIsRespected == Spec => []WidthRespected
<1>1. TypeOK /\ Composed => WidthRespected
  <2> SUFFICES ASSUME TypeOK, Composed, pc = "composed" PROVE WidthRespected
    BY DEF WidthRespected
  <2>1. model \in Models /\ room.width \in Positive /\ room.height \in Positive
    BY ComposedFrame
  <2>2. lines = Frame(model, room.width, room.height)
    BY DEF Composed
  <2>3. \A i \in DOMAIN Frame(model, room.width, room.height) :
          Frame(model, room.width, room.height)[i].width <= Most(room.width, NoReceivers)
    BY <2>1, FrameType
  <2> QED
    BY <2>2, <2>3 DEF WidthRespected
<1> QED
  BY <1>1, TypeCorrect, ComposedStays, PTL

-----------------------------------------------------------------------------
(* What is left on the screen.                                             *)

\* Below the cursor the screen is empty, and the cursor never got further than
\* the padding reaches: the tallest frame written, within the height last
\* measured.
EmptyBelow ==
  pc # "closed" /\ ~narrowed =>
    /\ \A i \in cursor..size[2] : screen[i] = Blank
    /\ cursor - 1 <= maxDrawn
    /\ pc = "measured" => cursor - 1 <= cap

\* The height measured is that of a terminal that was not resized since, and
\* no line is wider than what it was composed for.
Measured ==
  /\ pc = "closed" => model = None
  /\ pc = "measured" /\ steady => cap = Most(1, size[2] - 1)
  /\ \A i \in DOMAIN lines : lines[i].width <= Most(room.width, NoReceivers)

StaleInv == EmptyBelow /\ Measured /\ NothingStale

\* A frame that is written to a terminal no narrower than it was composed for
\* takes a row for each line.
LEMMA FitsOnWidth ==
  ASSUME TypeOK, Measured, ~Narrow
  PROVE  Wrapped(Padded(Written, Height)) = Padded(Written, Height)
<1> DEFINE text == Padded(Written, Height)
<1>1. lines \in Seq(Line) /\ cap \in Positive /\ maxDrawn \in Nat /\ size \in Sizes
      /\ room.width \in Nat /\ size[1] \in Nat /\ size[1] \in Positive
  BY SizeType DEF TypeOK, Positive
<1>2. /\ Written \in Seq(Line) /\ text \in Seq(Line) /\ Len(text) = Height
      /\ \A i \in 1..Height : text[i] = IF i <= Len(Written) THEN Written[i] ELSE Blank
  BY <1>1, WrittenType
<1>3. Most(room.width, NoReceivers) <= size[1]
  BY <1>1 DEF Narrow, Most, NoReceivers
<1>4. \A i \in DOMAIN Written : Written[i].width <= size[1]
  <2> DEFINE k == Least(Len(lines), cap)
  <2>1. k \in Nat /\ k <= Len(lines)
    BY <1>1 DEF Least, Positive
  <2> HIDE DEF k
  <2>2. \A i \in 1..k : SubSeq(lines, 1, k)[i] = lines[i] /\ i \in DOMAIN lines
    BY <1>1, <2>1
  <2>3. DOMAIN SubSeq(lines, 1, k) = 1..k
    BY <1>1, <2>1
  <2>4. \A i \in 1..k : lines[i].width \in Nat
    <3>1. \A i \in 1..k : lines[i] \in Line
      BY <1>1, <2>2
    <3> QED BY <3>1 DEF Line
  <2>5. Most(room.width, NoReceivers) \in Nat
    BY <1>1 DEF Most, NoReceivers
  <2>6. \A i \in 1..k : lines[i].width <= size[1]
    <3> TAKE i \in 1..k
    <3> DEFINE width == lines[i].width
               most == Most(room.width, NoReceivers)
    <3>1. width \in Nat /\ most \in Nat /\ width <= most /\ most <= size[1]
      BY <1>3, <2>2, <2>4, <2>5 DEF Measured
    <3> HIDE DEF width, most
    <3>2. width <= size[1]
      BY <1>1, <3>1
    <3> QED BY <3>2 DEF width
  <2> QED BY <2>2, <2>3, <2>6 DEF Written, k
<1>5. \A i \in DOMAIN text : text[i].width <= size[1]
  <2>1. Blank.width <= size[1]
    BY <1>1 DEF Blank, ALine
  <2>2. DOMAIN text = 1..Height /\ Height \in Nat /\ Len(Written) \in Nat
    BY <1>1, <1>2, WrittenType
  <2>3. \A i \in 1..Height : i <= Len(Written) => i \in DOMAIN Written
    BY <1>2, <2>2
  <2> HIDE DEF text
  <2> QED BY <1>2, <1>4, <2>1, <2>2, <2>3
<1> HIDE DEF text
<1>6. Wrapped(text) = text
  BY <1>1, <1>2, <1>5, WrappedType
<1> QED
  BY <1>6 DEF text

\* Such a frame leaves nothing below it.
LEMMA WrittenFits ==
  ASSUME TypeOK, StaleInv, Write, Measured', ~narrowed,
         Wrapped(Padded(Written, Height)) = Padded(Written, Height)
  PROVE  StaleInv'
<1> DEFINE n == size[2]
           text == Padded(Written, Height)
           off == Most(0, Len(text) + 1 - n)
           new == Shows(text, screen)
<1>0. /\ n \in Positive /\ n \in Nat /\ cursor \in 1..n /\ cap \in Positive /\ cap \in Nat
      /\ maxDrawn \in Nat /\ lines \in Seq(Line)
  BY SizeType DEF TypeOK, Positive
<1>1. /\ lines' = Written /\ maxDrawn' = Height /\ screen' = new
      /\ cursor' = Least(Len(text) + 1, n) /\ size' = size /\ cap' = cap
      /\ steady' = steady /\ model' = model /\ pc = "measured" /\ pc' = "idle"
  BY DEF Write, Written, Height
<1>2. /\ Written \in Seq(Line) /\ Len(Written) \in Nat
      /\ Height \in Nat /\ Len(Written) <= Height /\ Height <= cap
      /\ Least(maxDrawn, cap) <= Height
      /\ text \in Seq(Line) /\ Len(text) = Height
      /\ \A i \in 1..Height : text[i] = IF i <= Len(Written) THEN Written[i] ELSE Blank
  BY <1>0, WrittenType
<1> HIDE DEF text
<1>3. /\ off \in Nat
      /\ \A i \in 1..n : new[i] = IF i + off <= Len(text) THEN text[i + off]
                                  ELSE IF off = 0 THEN screen[i] ELSE Blank
  <2>1. /\ size \in Sizes /\ DOMAIN screen = 1..size[2]
        /\ \A i \in 1..size[2] : screen[i] \in Line
    BY DEF TypeOK
  <2> QED BY <1>2, <2>1, ShowsType
<1>4. off = Most(0, Height + 1 - n)
  BY <1>2
<1> HIDE DEF off, new, n
<1>5. cursor - 1 <= maxDrawn /\ cursor - 1 <= cap /\ \A i \in cursor..n : screen[i] = Blank
  BY <1>1 DEF StaleInv, EmptyBelow, n
<1>6. cursor - 1 <= Height
  <2>1. cursor - 1 <= Least(maxDrawn, cap)
    BY <1>5 DEF Least
  <2>2. Least(maxDrawn, cap) \in Nat
    BY <1>0 DEF Least
  <2> QED
    BY <1>0, <1>2, <2>1, <2>2
<1>7. \A i \in 1..n : i > Height => screen[i] = Blank
  <2> TAKE i \in 1..n
  <2>1. i > Height => i \in cursor..n
    BY <1>0, <1>2, <1>6
  <2> QED BY <1>5, <2>1
<1>8. EmptyBelow'
  <2>1. cursor' - 1 <= maxDrawn'
    BY <1>0, <1>1, <1>2 DEF Least
  <2>2. ASSUME NEW i \in cursor'..n PROVE new[i] = Blank
    <3>0. i \in 1..n
      BY <1>0, <1>1, <1>2 DEF Least
    <3>1. CASE off = 0
      <4>1. Height + 1 <= n
        BY <1>0, <1>2, <1>4, <3>1 DEF Most
      <4>2. i > Height
        BY <1>0, <1>1, <1>2, <4>1 DEF Least
      <4>3. ~(i + off <= Len(text))
        BY <1>2, <3>0, <3>1, <4>2
      <4> QED
        BY <1>3, <1>7, <3>0, <3>1, <4>2, <4>3
    <3>2. CASE off # 0
      <4>1. off = Height + 1 - n /\ ~(Height + 1 <= n)
        BY <1>0, <1>2, <1>4, <3>2 DEF Most
      <4>2. i = n
        BY <1>0, <1>1, <1>2, <3>0, <4>1 DEF Least
      <4>3. ~(i + off <= Len(text))
        BY <1>0, <1>2, <4>1, <4>2
      <4> QED
        BY <1>3, <3>0, <3>2, <4>3
    <3> QED BY <3>1, <3>2
  <2>3. \A i \in cursor'..size'[2] : screen'[i] = Blank
    BY <1>1, <2>2 DEF n
  <2> QED
    BY <1>1, <2>1, <2>3 DEF EmptyBelow
<1>10. NothingStale'
  <2> SUFFICES ASSUME steady', size'[2] > 1, NEW i \in 1..size'[2]
               PROVE  screen'[i] = IF i <= Len(lines') THEN lines'[i] ELSE Blank
    BY DEF NothingStale, ScreenIsFrame
  <2>1. n > 1 /\ steady /\ i \in 1..n
    BY <1>1 DEF n
  <2>2. cap = n - 1
    <3>1. cap = Most(1, n - 1)
      BY <1>1, <2>1 DEF StaleInv, Measured, n
    <3> QED
      BY <1>0, <2>1, <3>1 DEF Most
  <2>3. off = 0
    BY <1>0, <1>2, <1>4, <2>2 DEF Most
  <2>4. new[i] = IF i <= Height THEN text[i] ELSE screen[i]
    <3>1. i + off = i
      BY <2>1, <2>3
    <3> QED
      BY <1>2, <1>3, <2>1, <2>3, <3>1
  <2>5. new[i] = IF i <= Len(Written) THEN Written[i] ELSE Blank
    <3>1. CASE i <= Height
      <4>1. i \in 1..Height
        BY <1>2, <2>1, <3>1
      <4> QED
        BY <1>2, <2>4, <3>1, <4>1
    <3>2. CASE ~(i <= Height)
      <4>1. i > Height /\ ~(i <= Len(Written))
        BY <1>2, <2>1, <3>2
      <4> QED
        BY <1>7, <2>1, <2>4, <3>2, <4>1
    <3> QED BY <3>1, <3>2
  <2> QED
    BY <1>1, <2>5
<1> QED
  BY <1>8, <1>10 DEF StaleInv

LEMMA WriteLeavesNothing ==
  ASSUME TypeOK, StaleInv, Write
  PROVE  StaleInv'
<1> DEFINE n == size[2]
           text == Padded(Written, Height)
           off == Most(0, Len(text) + 1 - n)
           new == Shows(text, screen)
<1>a. /\ lines' = Written /\ room' = room /\ pc = "measured" /\ pc' = "idle"
      /\ narrowed' = (narrowed \/ Narrow) /\ model' = model /\ size' = size
      /\ maxDrawn' = Height
      /\ screen' = Shows(Wrapped(text), screen)
      /\ cursor' = Least(Len(Wrapped(text)) + 1, n) /\ cap' = cap /\ steady' = steady
  BY DEF Write, Written, Height
<1>b. Measured'
  <2>1. /\ lines \in Seq(Line) /\ Least(Len(lines), cap) \in Nat
        /\ Least(Len(lines), cap) <= Len(lines)
    BY DEF TypeOK, Least
  <2> DEFINE k == Least(Len(lines), cap)
  <2> HIDE DEF k
  <2>2. k \in Nat /\ k <= Len(lines)
    BY <2>1 DEF k
  <2>3. \A i \in DOMAIN SubSeq(lines, 1, k) :
          i \in DOMAIN lines /\ SubSeq(lines, 1, k)[i] = lines[i]
    BY <2>1, <2>2
  <2>4. \A i \in DOMAIN lines' : i \in DOMAIN lines /\ lines'[i] = lines[i]
    BY <1>a, <2>3 DEF Written, k
  <2>5. \A i \in DOMAIN lines : lines[i].width <= Most(room.width, NoReceivers)
    BY DEF StaleInv, Measured
  <2>6. \A i \in DOMAIN lines' : lines'[i].width <= Most(room'.width, NoReceivers)
    BY <1>a, <2>4, <2>5
  <2> QED BY <1>a, <2>6 DEF Measured
<1>c. CASE narrowed'
  BY <1>b, <1>c DEF StaleInv, EmptyBelow, NothingStale
<1>d. CASE ~narrowed'
  <2>1. ~Narrow /\ ~narrowed
    BY <1>a, <1>d
  <2>2. Wrapped(text) = text
    BY <2>1, FitsOnWidth DEF StaleInv
  <2> HIDE DEF text
  <2> QED BY <1>a, <1>b, <2>1, <2>2, WrittenFits DEF text
<1> QED
  BY <1>c, <1>d

LEMMA ResizeLeavesNothing ==
  ASSUME TypeOK, StaleInv, NEW s \in Sizes, Resize(s)
  PROVE  StaleInv'
<1> DEFINE n == size[2]
           off == Most(0, cursor - s[2])
<1>1. /\ n \in Nat /\ cursor \in 1..n /\ s[2] \in Positive /\ s[2] \in Nat
      /\ maxDrawn \in Nat /\ cap \in Nat
  BY SizeType DEF TypeOK, Positive
<1>2. /\ size' = s /\ steady' = FALSE /\ cursor' = cursor - off
      /\ pc' = pc /\ model' = model /\ cap' = cap /\ maxDrawn' = maxDrawn
      /\ narrowed' = narrowed /\ lines' = lines /\ room' = room
      /\ screen' = [i \in 1..s[2] |-> IF i + off <= n THEN screen[i + off] ELSE Blank]
  BY DEF Resize
<1>3. off \in Nat
  BY <1>1 DEF Most
<1> HIDE DEF n, off
<1>4. Measured' /\ NothingStale'
  BY <1>2 DEF StaleInv, Measured, NothingStale
<1>5. EmptyBelow'
  <2> SUFFICES ASSUME pc # "closed", ~narrowed
               PROVE  /\ \A i \in cursor'..s[2] : screen'[i] = Blank
                      /\ cursor' - 1 <= maxDrawn
                      /\ pc = "measured" => cursor' - 1 <= cap
    BY <1>2 DEF EmptyBelow
  <2>1. /\ \A i \in cursor..n : screen[i] = Blank
        /\ cursor - 1 <= maxDrawn /\ (pc = "measured" => cursor - 1 <= cap)
    BY DEF StaleInv, EmptyBelow, n
  <2>2. cursor' - 1 <= cursor - 1 /\ cursor' \in Nat /\ cursor' >= 1
    BY <1>1, <1>2, <1>3 DEF off, Most, Positive
  <2>3. ASSUME NEW i \in cursor'..s[2] PROVE screen'[i] = Blank
    <3>1. i \in 1..s[2]
      BY <1>1, <2>2
    <3>2. i + off <= n => i + off \in cursor..n
      BY <1>1, <1>2, <1>3, <3>1
    <3> QED
      BY <1>2, <2>1, <3>1, <3>2
  <2> DEFINE new == cursor' - 1
             old == cursor - 1
  <2>6. new \in Int /\ old \in Int
    BY <1>1, <2>2
  <2>7. new <= old
    BY <2>2
  <2>8. old <= maxDrawn /\ (pc = "measured" => old <= cap)
    BY <2>1
  <2> HIDE DEF new, old
  <2>4. cursor' - 1 <= maxDrawn
    BY <1>1, <2>6, <2>7, <2>8 DEF new
  <2>5. ASSUME pc = "measured" PROVE cursor' - 1 <= cap
    BY <1>1, <2>5, <2>6, <2>7, <2>8 DEF new
  <2> QED
    BY <2>3, <2>4, <2>5
<1> QED
  BY <1>4, <1>5 DEF StaleInv

\* Once written to a terminal that kept its size, the screen is the frame and
\* empty lines: the padding of _draw_in_place() reaches as far as anything was
\* ever left on the screen, whatever the heights before.  The hypothesis is
\* that no frame so far was written to a terminal narrower than it was composed
\* for, or than the text of an empty table.
THEOREM NothingIsStale == Spec => []NothingStale
<1>1. TypeOK /\ Init => StaleInv
  BY DEF Init, StaleInv, EmptyBelow, Measured, NothingStale
<1>2. TypeOK /\ StaleInv /\ [Next]_vars => StaleInv'
  <2> SUFFICES ASSUME TypeOK, StaleInv, [Next]_vars PROVE StaleInv'
    OBVIOUS
  <2>0. size[2] \in Positive /\ cursor \in 1..size[2] /\ maxDrawn \in Nat /\ cap \in Nat
    BY SizeType DEF TypeOK
  <2>1. CASE Open
    <3>1. \A i \in 1..size[2] : Blanks(size[2])[i] = Blank
      BY DEF Blanks
    <3>2. /\ screen' = Blanks(size[2]) /\ cursor' = 1 /\ size' = size /\ maxDrawn' = 0
          /\ pc' = "idle" /\ model' = None /\ lines' = lines /\ room' = room
      BY <2>1 DEF Open, StaleInv, Measured
    <3> QED
      BY <3>1, <3>2 DEF StaleInv, EmptyBelow, Measured, NothingStale
  <2>2. CASE ReadHeight
    <3>1. /\ pc = "composed" /\ pc' = "measured" /\ cap' = Most(1, size[2] - 1)
          /\ size' = size /\ screen' = screen /\ cursor' = cursor /\ maxDrawn' = maxDrawn
          /\ lines' = lines /\ room' = room /\ narrowed' = narrowed
      BY <2>2 DEF ReadHeight, terminal
    <3>2. cursor' - 1 <= cap'
      BY <2>0, <3>1 DEF Most, Positive
    <3> QED
      BY <3>1, <3>2 DEF StaleInv, EmptyBelow, Measured, NothingStale
  <2>3. CASE Write
    BY <2>3, WriteLeavesNothing
  <2>4. CASE Close
    BY <2>4 DEF Close, StaleInv, EmptyBelow, Measured, NothingStale, ScreenIsFrame, terminal, history
  <2>5. ASSUME NEW m \in Models, Compose(m) PROVE StaleInv'
    <3> DEFINE w == Most(1, size[1] - 1)
               h == Most(1, size[2] - 1)
    <3>1. w \in Positive /\ h \in Positive
      <4>1. size[1] \in Positive /\ size[2] \in Positive
        BY SizeType DEF TypeOK
      <4> QED BY <4>1 DEF Most, Positive
    <3>2. room' = [width |-> w, height |-> h] /\ lines' = Frame(m, w, h)
      BY <2>5 DEF Compose
    <3> HIDE DEF w, h
    <3>3. \A i \in DOMAIN lines' : lines'[i].width <= Most(room'.width, NoReceivers)
      BY <3>1, <3>2, FrameType
    <3>4. /\ pc = "idle" /\ pc' = "composed"
          /\ UNCHANGED <<size, screen, cursor, maxDrawn, narrowed>>
      BY <2>5 DEF Compose, terminal
    <3> QED
      BY <3>3, <3>4 DEF StaleInv, EmptyBelow, Measured, NothingStale
  <2>6. ASSUME NEW s \in Sizes, Resize(s) PROVE StaleInv'
    BY <2>6, ResizeLeavesNothing
  <2>7. CASE UNCHANGED vars
    BY <2>7 DEF vars, StaleInv, EmptyBelow, Measured, NothingStale, ScreenIsFrame, terminal, history
  <2> QED
    BY <2>1, <2>2, <2>3, <2>4, <2>5, <2>6, <2>7 DEF Next
<1>3. StaleInv => NothingStale
  BY DEF StaleInv
<1> QED
  BY <1>1, <1>2, <1>3, TypeCorrect, PTL DEF Spec
=============================================================================
