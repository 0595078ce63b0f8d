-------------------------------- MODULE Page --------------------------------
(***************************************************************************)
(* The text as the browser holds it: the runs of text nodes and the        *)
(* positions in them (packages/client/src/binding/), and the pieces of     *)
(* text that an editing command takes                                      *)
(* (input/graphemeSegmentation.ts).                                        *)
(*                                                                         *)
(* A character is what the arithmetic tells apart: a letter; a mark, which *)
(* joins the cluster of the character before it; an emoji, of two UTF-16   *)
(* units; a newline, which a mark does not join.  An index counts          *)
(* characters from 0; an offset counts UTF-16 units from 0.                *)
(***************************************************************************)
EXTENDS Integers, Sequences, FiniteSets, SequencesExt, FiniteSetsExt

CONSTANT RunMax   \* RUN_MAX_SCALARS, 512 in the code

ASSUME PageAssumption == RunMax \in Nat \ {0}

Characters == {"letter", "mark", "emoji", "newline"}

Units(char) == IF char = "emoji" THEN 2 ELSE 1

\* The answer in place of a RangeError.
OutOfRange == -1

-----------------------------------------------------------------------------
(* Indexes and offsets of one text *)

ScalarToUtf16(text, n) ==
  IF n > Len(text) THEN OutOfRange
  ELSE FoldLeft(LAMBDA units, char : units + Units(char), 0, SubSeq(text, 1, n))

\* No character begins at an offset between two halves of a surrogate pair.
Utf16ToScalar(text, offset) ==
  LET starts == {n \in 0..Len(text) : ScalarToUtf16(text, n) = offset}
  IN  IF starts = {} THEN OutOfRange ELSE Max(starts)

Utf16Length(text) == ScalarToUtf16(text, Len(text))

-----------------------------------------------------------------------------
(* Runs *)

Run(data, start) ==
  [data |-> data, start |-> start, scalars |-> Len(data), units |-> Utf16Length(data)]

Runs == [data : Seq(Characters), start : Nat, scalars : Nat, units : Nat]

\* The text cut into runs of at most RunMax characters.
RunsForText(text, start) ==
  [r \in 1..((Len(text) + RunMax - 1) \div RunMax) |->
     Run(SubSeq(text, (r - 1) * RunMax + 1, Min({r * RunMax, Len(text)})),
         start + (r - 1) * RunMax)]

MaterializedText(runs) == FlattenSeq([r \in DOMAIN runs |-> runs[r].data])

TotalVisibleLength(runs) == IF runs = <<>> THEN 0 ELSE Last(runs).start + Last(runs).scalars

\* Mutant: an index between two runs belongs to neither.
FindRunInside(runs, v) == Max({1} \cup {r \in DOMAIN runs : runs[r].start < v})

\* The last run that starts at or before an index.
FindRunForVis(runs, v) == Max({r \in DOMAIN runs : runs[r].start <= v})

\* Mutant: the runs behind an insertion keep their starts.
ShiftNothing(runs, by) == runs

Shifted(runs, by) == [r \in DOMAIN runs |-> [runs[r] EXCEPT !.start = @ + by]]

\* Nothing to insert into: new runs.  Otherwise the run takes the text in, and is
\* cut again when it has grown too long.
InsertText(runs, v, text) ==
  IF runs = <<>> THEN RunsForText(text, 0)
  ELSE LET r == FindRunForVis(runs, v)
           at == v - runs[r].start
           data == SubSeq(runs[r].data, 1, at) \o text
                     \o SubSeq(runs[r].data, at + 1, Len(runs[r].data))
       IN  SubSeq(runs, 1, r - 1) \o RunsForText(data, runs[r].start)
             \o Shifted(SubSeq(runs, r + 1, Len(runs)), Len(text))

\* An empty run goes, and every start is counted again.
Renumbered(runs) ==
  LET left == SelectSeq(runs, LAMBDA run : run.scalars > 0)
      before(r) == FoldLeft(LAMBDA sum, run : sum + run.scalars, 0, SubSeq(left, 1, r - 1))
  IN  [r \in DOMAIN left |-> [left[r] EXCEPT !.start = before(r)]]

\* Takes characters away run by run, always at the same index.
DeleteRange(runs, v, count) ==
  LET round(s) ==
        LET r == FindRunForVis(s.runs, v)
            at == v - s.runs[r].start
            n == Min({s.runs[r].scalars - at, s.remaining})
            data == SubSeq(s.runs[r].data, 1, at)
                      \o SubSeq(s.runs[r].data, at + n + 1, Len(s.runs[r].data))
        IN  [runs |-> Renumbered([s.runs EXCEPT ![r] = Run(data, @.start)]),
             remaining |-> s.remaining - n]
  IN  FoldLeft(LAMBDA s, k : IF s.remaining = 0 THEN s ELSE round(s),
               [runs |-> runs, remaining |-> count], [k \in 1..count |-> k]).runs

\* The bookkeeping of assertConsistent().
IndexConsistent(runs) ==
  /\ runs = Renumbered(runs)
  /\ \A r \in DOMAIN runs : runs[r] = Run(runs[r].data, runs[r].start) /\ runs[r].scalars <= RunMax

-----------------------------------------------------------------------------
(* Positions: an offset in a run, or in the root (node 0) a count of runs *)

Position(node, offset) == [node |-> node, offset |-> offset]

VisToDom(runs, v) ==
  IF runs = <<>> THEN Position(0, 0)
  ELSE LET r == FindRunForVis(runs, v)
       IN  Position(r, ScalarToUtf16(runs[r].data, v - runs[r].start))

\* What lies before a position of the root.
NormalizeElementPosition(runs, offset) ==
  TotalVisibleLength(SubSeq(runs, 1, Min({offset, Len(runs)})))

DomToVis(runs, p) ==
  IF p.node = 0 THEN NormalizeElementPosition(runs, p.offset)
  ELSE IF p.node > Len(runs) THEN OutOfRange
  ELSE LET local == Utf16ToScalar(runs[p.node].data, p.offset)
       IN  IF local = OutOfRange THEN OutOfRange ELSE runs[p.node].start + local

\* A position the index does not know stands for the end of the text.
SafeDomToVis(runs, p) ==
  LET v == DomToVis(runs, p) IN IF v = OutOfRange THEN TotalVisibleLength(runs) ELSE v

-----------------------------------------------------------------------------
(* Pieces of a text.  Intl.Segmenter is external: a cluster is a character *)
(* with the marks that join it, a word is a row of clusters of letters.    *)

JoinsLast(text, n) == text[n + 1] = "mark" /\ text[n] # "newline"

ClusterBoundary(text, n) == n \in {0, Len(text)} \/ ~JoinsLast(text, n)

\* The first character of the cluster that character n is in.
ClusterHead(text, n) == text[Max({k \in 1..n : ClusterBoundary(text, k - 1)})]

WordBoundary(text, n) ==
  \/ n \in {0, Len(text)}
  \/ ~JoinsLast(text, n) /\ {ClusterHead(text, n), ClusterHead(text, n + 1)} # {"letter"}

Boundaries(text, Boundary(_, _)) == {n \in 0..Len(text) : Boundary(text, n)}

\* A piece of the text from one offset to another.
Span(from, to) == [from |-> from, to |-> to]

NoSpan == Span(0, 0)

\* Mutant: backspace takes one character.
OneBefore(text, offset) ==
  IF offset = 0 THEN NoSpan
  ELSE Span(ScalarToUtf16(text, Utf16ToScalar(text, offset) - 1), offset)

\* The cluster that ends at an offset, or none.
ClusterBefore(text, offset) ==
  LET n == Utf16ToScalar(text, offset)
      bounds == Boundaries(text, ClusterBoundary)
  IN  IF offset = 0 \/ n \notin bounds THEN NoSpan
      ELSE Span(ScalarToUtf16(text, Max({b \in bounds : b < n})), offset)

\* The cluster that begins at an offset, or none.
ClusterAfter(text, offset) ==
  LET n == Utf16ToScalar(text, offset)
      bounds == Boundaries(text, ClusterBoundary)
  IN  IF offset >= Utf16Length(text) \/ n \notin bounds THEN NoSpan
      ELSE Span(offset, ScalarToUtf16(text, Min({b \in bounds : b > n})))

\* The segments [from, to) between neighbouring word boundaries.
Segments(text) ==
  LET bounds == Boundaries(text, WordBoundary)
  IN  {s \in bounds \X bounds : s[1] < s[2] /\ ~\E b \in bounds : s[1] < b /\ b < s[2]}

IsWordLike(text, segment) == ClusterHead(text, segment[1] + 1) = "letter"

\* Back to the start of the last word that ends by the offset; without a word, of
\* the last segment.
WordBefore(text, offset) ==
  LET segs == {s \in Segments(text) : ScalarToUtf16(text, s[2]) <= offset}
      words == {s \in segs : IsWordLike(text, s)}
      start == Max({s[1] : s \in IF words # {} THEN words ELSE segs})
  IN  IF offset = 0 \/ segs = {} THEN NoSpan ELSE Span(ScalarToUtf16(text, start), offset)

\* On to the end of the first word that begins at the offset or later; without a
\* word, of the last segment.
WordAfter(text, offset) ==
  LET segs == {s \in Segments(text) : ScalarToUtf16(text, s[1]) >= offset}
      words == {s \in segs : IsWordLike(text, s)}
      end == IF words # {} THEN Min({s[2] : s \in words}) ELSE Max({s[2] : s \in segs})
  IN  IF offset >= Utf16Length(text) \/ segs = {} THEN NoSpan
      ELSE Span(offset, ScalarToUtf16(text, end))

\* The offset behind the last newline before an offset.
LineStartBefore(text, offset) ==
  Max({0} \cup {ScalarToUtf16(text, n) : n \in {k \in 1..Len(text) :
                  text[k] = "newline" /\ ScalarToUtf16(text, k) <= offset}})
=============================================================================
