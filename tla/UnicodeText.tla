----------------------------- MODULE UnicodeText -----------------------------
(***************************************************************************)
(* Unicode text (src/unicode.cpp): canonical composition (NFC) and the     *)
(* pieces a prompt is cut into before byte pairs are merged.  The generated*)
(* tables (unicode_data.inc) are constants; a word (Utf8Text) is a letter. *)
(***************************************************************************)
EXTENDS Utf8Text

CONSTANTS
  Letters, Numbers, Marks, Spaces,   \* property_ranges, as sets of codepoints
  CombiningClasses,                  \* combining_ranges: <<codepoint, class>> where it is not 0
  Decompositions,                    \* <<codepoint, its full canonical decomposition>>
  Compositions,                      \* <<first, second, composed>>
  Casefolds                          \* <<codepoint, folded>>

\* what a table holds of a key, or the default
Lookup(table, key, default) ==
  LET found == SelectSeq(table, LAMBDA entry : entry[1] = key)
  IN IF found = <<>> THEN default ELSE found[1][2]

Letter(c) == c \in Letters \/ c >= Tag
Casefold(c) == Lookup(Casefolds, c, c)
CombiningClass(c) == Lookup(CombiningClasses, c, 0)

-----------------------------------------------------------------------------
(* normalize_nfc *)

SBase == 44032
LBase == 4352
VBase == 4449
TBase == 4519
VCount == 21
TCount == 28
NCount == VCount * TCount
SCount == 19 * NCount
Syllable(c) == c \in SBase .. SBase + SCount - 1

\* compose_pair; 0 when the two stay apart
Composed(first, second) ==
  LET pairs == SelectSeq(Compositions, LAMBDA entry : entry[1] = first /\ entry[2] = second)
  IN CASE first \in LBase .. LBase + 18 /\ second \in VBase .. VBase + VCount - 1 ->
            SBase + ((first - LBase) * NCount) + ((second - VBase) * TCount)
       [] Syllable(first) /\ (first - SBase) % TCount = 0 /\ second \in TBase + 1 .. TBase + TCount - 1 ->
            first + second - TBase
       [] OTHER -> IF pairs = <<>> THEN 0 ELSE pairs[1][3]

Decomposed(c) ==
  LET index == c - SBase
      trailing == IF index % TCount = 0 THEN <<>> ELSE <<TBase + (index % TCount)>>
  IN IF Syllable(c)
     THEN <<LBase + (index \div NCount), VBase + ((index % NCount) \div TCount)>> \o trailing
     ELSE Lookup(Decompositions, c, <<c>>)

\* one step of the insertion sort: c after the marks that do not come after it
Inserted(sorted, c) ==
  LET Behind(place) == SubSeq(sorted, 1, place) \o <<c>> \o From(sorted, place + 1)
      Place(class) == IF class = 0 THEN Len(sorted)
                      ELSE Max({0} \cup {i \in DOMAIN sorted : CombiningClass(sorted[i]) <= class})
  IN Behind(Place(CombiningClass(c)))

\* the first codepoints, sorted, and up to 2^k more inserted one by one
RECURSIVE Ordered(_, _, _)
Ordered(codepoints, sorted, k) ==
  CASE Len(sorted) = Len(codepoints) -> sorted
    [] Len(sorted) < Len(codepoints) /\ k = 0 -> Inserted(sorted, codepoints[Len(sorted) + 1])
    [] OTHER -> Ordered(codepoints, Ordered(codepoints, sorted, k - 1), k - 1)

\* one step of the composition, of the codepoint c at the end of what is read
Join(state, c) ==
  LET With(class, combined) ==
        IF combined # 0 THEN [state EXCEPT !.text[state.starter] = combined, !.read = @ + 1]
        ELSE [text |-> Append(state.text, c),
              starter |-> IF class = 0 THEN Len(state.text) + 1 ELSE state.starter,
              class |-> class, read |-> state.read + 1]
      Of(class) == With(class, IF state.class = 0 \/ state.class < class
                               THEN Composed(state.text[state.starter], c) ELSE 0)
  IN Of(CombiningClass(c))

\* up to 2^k more codepoints joined one by one
RECURSIVE Composition(_, _, _)
Composition(ordered, state, k) ==
  CASE state.read = Len(ordered) -> state
    [] state.read < Len(ordered) /\ k = 0 -> Join(state, ordered[state.read + 1])
    [] OTHER -> Composition(ordered, Composition(ordered, state, k - 1), k - 1)

\* normalize_nfc, of fewer than 2^10 codepoints
Nfc(codepoints) ==
  LET Composing(ordered) ==
        IF ordered = <<>> THEN <<>>
        ELSE Composition(ordered, [text |-> <<ordered[1]>>, starter |-> 1, class |-> 0, read |-> 1], 10).text
  IN Composing(Ordered(Flat([i \in DOMAIN codepoints |-> Decomposed(codepoints[i])]), <<>>, 10))

-----------------------------------------------------------------------------
(* qwen35_pretokenize *)

Breaks == {10, 13}
Apostrophe == 39
LettersAndMarks == Letters \cup Marks
Classified == LettersAndMarks \cup Numbers \cup Spaces
LetterOrMark(c) == c >= Tag \/ c \in LettersAndMarks
Separates(c) == c >= Tag \/ c \in Classified

\* past the longest run from p on whose positions are all inside
RunEnd(text, p, inside) == Min({Len(text) + 1} \cup ((p .. Len(text)) \ inside))

\* the length of 's, 't, 'm, 'd, 're, 've or 'll at p
Contraction(text, p) ==
  LET Of(next, after) == CASE next \in {115, 116, 109, 100} -> 2
                           [] <<next, after>> \in {<<114, 101>>, <<118, 101>>, <<108, 108>>} -> 3
                           [] OTHER -> 0
  IN IF At(text, p) = Apostrophe THEN Of(Casefold(At(text, p + 1)), Casefold(At(text, p + 2))) ELSE 0

\* where the spaces from p on are cut: after the last line break, else before the
\* last of several that something follows
SpaceEnd(text, p) ==
  LET Cut(end, breaks) ==
        CASE breaks # {} -> Max(breaks) + 1
          [] breaks = {} /\ end - p > 1 /\ end <= Len(text) -> end - 1
          [] OTHER -> end
      Run(end) == Cut(end, {q \in p .. end - 1 : text[q] \in Breaks})
  IN Run(RunEnd(text, p, {q \in DOMAIN text : text[q] \in Spaces}))

\* where the piece that begins at p ends
PieceEnd(text, p) ==
  LET c == text[p]
      prefixed == /\ c \notin Breaks /\ ~Letter(c) /\ c \notin Numbers
                  /\ p < Len(text) /\ LetterOrMark(text[p + 1])
      mark == IF c = SpaceByte THEN p + 1 ELSE p
      marks == RunEnd(text, mark, {q \in DOMAIN text : ~Separates(text[q])})
  IN IF Contraction(text, p) # 0 THEN p + Contraction(text, p)
     ELSE IF LetterOrMark(c) \/ prefixed
     THEN RunEnd(text, IF prefixed THEN p + 1 ELSE p, {q \in DOMAIN text : LetterOrMark(text[q])})
     ELSE IF c \in Numbers THEN p + 1
     ELSE IF marks > mark THEN RunEnd(text, marks, {q \in DOMAIN text : text[q] \in Breaks})
     ELSE IF SpaceEnd(text, p) > p THEN SpaceEnd(text, p)
     ELSE p + 1

\* at most 2^k pieces, after those before position p
RECURSIVE Pieces(_, _, _)
Pieces(text, cut, k) ==
  LET UpTo(end) == [p |-> end, pieces |-> Append(cut.pieces, SubSeq(text, cut.p, end - 1))]
  IN CASE cut.p > Len(text) -> cut
       [] cut.p <= Len(text) /\ k = 0 -> UpTo(PieceEnd(text, cut.p))
       [] OTHER -> Pieces(text, Pieces(text, cut, k - 1), k - 1)

\* qwen35_pretokenize, of a text of fewer than 2^10 pieces
Pretokenized(text) == Pieces(text, [p |-> 1, pieces |-> <<>>], 10).pieces

\* str.strip of the chat template
Trimmed(text) ==
  LET Kept(points, kept) ==
        IF kept = {} THEN <<>> ELSE CodepointsUtf8(SubSeq(points, Min(kept), Max(kept)))
      Of(points) == Kept(points, {i \in DOMAIN points : points[i] \notin Spaces \cup 28 .. 31})
  IN Of(Codepoints(text))
=============================================================================
