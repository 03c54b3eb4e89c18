------------------------- MODULE ResponseStreamProofs -------------------------
(***************************************************************************)
(* Proofs about ResponseStream, for any pieces, bounds and interleaving of *)
(* the thread of the connection with the batcher's worker.                 *)
(*                                                                         *)
(* What the peer has been sent and what is still queued are looked at      *)
(* together: the batches of events are put together so that each may       *)
(* follow what was received, and sending moves an event from the queue to  *)
(* the wire without a change to what comes before it.  A frame is cut only *)
(* when its sender gives up or the request fails, and neither is followed  *)
(* by a terminal event.                                                    *)
(***************************************************************************)
EXTENDS ResponseStream, Integers, FiniteSetTheorems, WellFoundedInduction, TLAPS

-----------------------------------------------------------------------------
(***************************************************************************)
(* Induction over numbers.                                                 *)
(***************************************************************************)

\* Every nonempty set of naturals has a least member: the initial segments
\* below its members are finite sets, and inclusion of those is well-founded.
LEMMA Least ==
  ASSUME NEW T, T \subseteq Nat, T # {}
  PROVE  \E x \in T : \A y \in T : x <= y
  <1> DEFINE U == {0..(x - 1) : x \in T}
  <1>1. U \subseteq FiniteSubsetsOf(Nat) /\ U # {}
    <2>1. ASSUME NEW x \in T PROVE 0..(x-1) \in FiniteSubsetsOf(Nat)
      <3>1. IsFiniteSet(0..(x-1))
        BY FS_Interval
      <3> QED
        BY <3>1 DEF FiniteSubsetsOf
    <2> QED
      BY <2>1
  <1>2. \E u \in U : \A v \in U : ~(<<v, u>> \in StrictSubsetOrdering(Nat))
    <2> HIDE DEF U
    <2> QED
      BY <1>1, FS_StrictSubsetOrderingWellFounded, WFMin
  <1>3. PICK x \in T : \A y \in T : ~(<<0..(y-1), 0..(x-1)>> \in StrictSubsetOrdering(Nat))
    BY <1>2
  <1>4. ASSUME NEW y \in T, y < x PROVE FALSE
    <2>1. 0..(y-1) \subseteq 0..(x-1) /\ 0..(y-1) # 0..(x-1) /\ 0..(x-1) \subseteq Nat
      <3>1. y \in 0..(x-1) /\ y \notin 0..(y-1)
        BY <1>4
      <3> QED
        BY <1>4, <3>1
    <2> QED
      BY <1>3, <2>1 DEF StrictSubsetOrdering
  <1> QED
    BY <1>4

\* The same, upwards: a bounded set of naturals has a greatest member.
LEMMA Greatest ==
  ASSUME NEW n \in Nat, NEW T, T \subseteq 0..n, T # {}
  PROVE  \E x \in T : \A y \in T : y <= x
  <1> DEFINE U == {n - x : x \in T}
  <1>1. U \subseteq Nat /\ U # {}
    <2>1. \A x \in T : n - x \in Nat
      OBVIOUS
    <2> QED
      BY <2>1
  <1>2. PICK u \in U : \A v \in U : u <= v
    <2> HIDE DEF U
    <2> QED
      BY <1>1, Least
  <1>3. PICK x \in T : u = n - x
    OBVIOUS
  <1>4. ASSUME NEW y \in T PROVE y <= x
    <2>1. n - y \in U
      OBVIOUS
    <2>2. n - x <= n - y
      BY <1>2, <1>3, <2>1
    <2> QED
      BY <2>2
  <1> QED
    BY <1>4

\* A set of the numbers up to n that has 0 and the successor of each member
\* below n has them all.
LEMMA Induction ==
  ASSUME NEW n \in Nat, NEW S, 0 \in S,
         \A k \in 0..(n - 1) : k \in S => k + 1 \in S
  PROVE  0..n \subseteq S
  <1> DEFINE T == (0..n) \ S
  <1>1. SUFFICES ASSUME T # {} PROVE FALSE
    OBVIOUS
  <1>2. PICK x \in T : \A y \in T : x <= y
    <2>1. T \subseteq Nat
      OBVIOUS
    <2> HIDE DEF T
    <2> QED
      BY <1>1, <2>1, Least
  <1>3. x # 0 /\ x - 1 \in 0..(n - 1) /\ x - 1 \notin T
    BY <1>2
  <1> QED
    BY <1>2, <1>3

-----------------------------------------------------------------------------
(***************************************************************************)
(* Text.                                                                   *)
(***************************************************************************)

\* The longest prefix of whole characters exists, and is a prefix.
LEMMA ValidPrefixType ==
  ASSUME NEW s, Len(s) \in Nat
  PROVE  /\ ValidPrefix(s) \in 0..Len(s)
         /\ \A i \in 1..ValidPrefix(s) : Whole(SubSeq(s, 1, ValidPrefix(s)), i)
         /\ \A k \in (ValidPrefix(s) + 1)..Len(s) : 
               \E i \in 1..k : ~Whole(SubSeq(s, 1, k), i)
  <1> DEFINE T == {n \in 0..Len(s) : \A i \in 1..n : Whole(SubSeq(s, 1, n), i)}
  <1>1. 0 \in T
    OBVIOUS
  <1>2. PICK n \in T : \A m \in T : m <= n
    <2>1. T \subseteq 0..Len(s) /\ T # {}
      BY <1>1
    <2> HIDE DEF T
    <2> QED
      BY <2>1, Greatest
  <1>3. \A k \in (n + 1)..Len(s) : k \notin T
    BY <1>2
  <1>4. /\ n \in 0..Len(s)
        /\ \A i \in 1..n : Whole(SubSeq(s, 1, n), i)
        /\ \A k \in (n + 1)..Len(s) : \E i \in 1..k : ~Whole(SubSeq(s, 1, k), i)
    BY <1>2, <1>3
  <1> QED
    BY <1>4 DEF ValidPrefix

\* The position of the marker exists.
LEMMA MarkerType ==
  ASSUME NEW s, Len(s) \in Nat
  PROVE  /\ Marker(s) \in 1..(Len(s) + 1)
         /\ \A i \in 1..(Marker(s) - 1) : s[i] # "m"
         /\ Marker(s) <= Len(s) => s[Marker(s)] = "m"
  <1> DEFINE T == {n \in 1..(Len(s) + 1) : n <= Len(s) => s[n] = "m"}
  <1>1. Len(s) + 1 \in T
    OBVIOUS
  <1>2. PICK n \in T : \A m \in T : n <= m
    <2>1. T \subseteq Nat /\ T # {}
      BY <1>1
    <2> HIDE DEF T
    <2> QED
      BY <2>1, Least
  <1>3. \A i \in 1..(n - 1) : i \notin T
    BY <1>2
  <1>4. /\ n \in 1..(Len(s) + 1)
        /\ \A i \in 1..(n - 1) : s[i] # "m"
        /\ n <= Len(s) => s[n] = "m"
    BY <1>2, <1>3
  <1> QED
    BY <1>4 DEF Marker

\* Drained's loop at position i: the first position that is not of a whole
\* character, the text before it, and what is drained when the loop goes on as
\* f says.
Ahead(s, i) == SubSeq(s, i, Len(s))
Bad(s, i) == i + ValidPrefix(Ahead(s, i))
ValidAt(s, i) ==
    IF ValidPrefix(Ahead(s, i)) = 0 THEN <<>>
    ELSE <<SubSeq(Ahead(s, i), 1, ValidPrefix(Ahead(s, i)))>>
DrainedAt(s, final, f, i) ==
    CASE Bad(s, i) > Len(s) -> [deltas |-> ValidAt(s, i), rest |-> <<>>]
      [] Bad(s, i) = Len(s) /\ s[Bad(s, i)] = "l" ->
           IF final THEN [deltas |-> ValidAt(s, i) \o <<<<"r">>>>, rest |-> <<>>]
                    ELSE [deltas |-> ValidAt(s, i), rest |-> <<"l">>]
      [] OTHER ->
           [deltas |-> ValidAt(s, i) \o <<<<"r">>>> \o f[Bad(s, i) + 1].deltas,
            rest |-> f[Bad(s, i) + 1].rest]

LEMMA AheadType ==
  ASSUME NEW C, NEW s \in Seq(C), NEW i \in 1..(Len(s) + 1)
  PROVE  /\ Ahead(s, i) \in Seq(C) /\ Len(Ahead(s, i)) = Len(s) + 1 - i
         /\ Bad(s, i) \in i..(Len(s) + 1) /\ ValidPrefix(Ahead(s, i)) \in Nat
         /\ ValidAt(s, i) \in Seq(Seq(C))
  <1>1. Ahead(s, i) \in Seq(C) /\ Len(Ahead(s, i)) = Len(s) + 1 - i
    BY DEF Ahead
  <1>2. ValidPrefix(Ahead(s, i)) \in 0..Len(Ahead(s, i))
    BY <1>1, ValidPrefixType
  <1>3. Bad(s, i) \in i..(Len(s) + 1)
    BY <1>1, <1>2 DEF Bad
  <1>4. SubSeq(Ahead(s, i), 1, ValidPrefix(Ahead(s, i))) \in Seq(C)
    BY <1>1, <1>2
  <1> QED
    BY <1>1, <1>2, <1>3, <1>4 DEF ValidAt

\* It looks only ahead.
LEMMA DrainedAhead ==
  ASSUME NEW C, NEW s \in Seq(C), NEW final, NEW i \in 1..(Len(s) + 1), NEW f, NEW g,
         \A k \in (i + 1)..(Len(s) + 1) : f[k] = g[k]
  PROVE  DrainedAt(s, final, f, i) = DrainedAt(s, final, g, i)
  <1>1. Bad(s, i) \in i..(Len(s) + 1)
    BY AheadType
  <1>2. Bad(s, i) <= Len(s) => f[Bad(s, i) + 1] = g[Bad(s, i) + 1]
    BY <1>1
  <1>3. CASE Bad(s, i) > Len(s) \/ (Bad(s, i) = Len(s) /\ s[Bad(s, i)] = "l")
    BY <1>3 DEF DrainedAt
  <1>4. CASE ~(Bad(s, i) > Len(s) \/ (Bad(s, i) = Len(s) /\ s[Bad(s, i)] = "l"))
    <2>1. f[Bad(s, i) + 1] = g[Bad(s, i) + 1]
      BY <1>1, <1>2, <1>4
    <2>2. ~(Bad(s, i) > Len(s)) /\ ~(Bad(s, i) = Len(s) /\ s[Bad(s, i)] = "l")
      BY <1>4
    <2>3. \A h : DrainedAt(s, final, h, i) =
                 [deltas |-> ValidAt(s, i) \o <<<<"r">>>> \o h[Bad(s, i) + 1].deltas,
                  rest |-> h[Bad(s, i) + 1].rest]
      BY <2>2 DEF DrainedAt
    <2> QED
      BY <2>1, <2>3
  <1> QED
    BY <1>3, <1>4

\* The loop is defined at every position.
LEMMA DrainedExists ==
  ASSUME NEW C, NEW s \in Seq(C), NEW final
  PROVE  \E f : f = [i \in 1..(Len(s) + 1) |-> DrainedAt(s, final, f, i)]
  <1> DEFINE L == Len(s) + 1
             S == {k \in 0..L : 
                \E f : f = [i \in (L + 1 - k)..L |-> DrainedAt(s, final, f, i)]}
  <1>0. L \in Nat \ {0}
    OBVIOUS
  <1>1. 0 \in S
    <2>1. \E f : f = [i \in (L + 1)..L |-> DrainedAt(s, final, f, i)]
      <3>1. PICK f : f = [i \in {} |-> 0]
        OBVIOUS
      <3>2. f = [i \in (L + 1)..L |-> DrainedAt(s, final, f, i)]
        BY <1>0, <3>1
      <3> QED
        BY <3>2
    <2> QED
      BY <1>0, <2>1
  <1>2. ASSUME NEW k \in 0..(L - 1), k \in S PROVE k + 1 \in S
    <2>1. PICK f : f = [i \in (L + 1 - k)..L |-> DrainedAt(s, final, f, i)]
      BY <1>2
    <2> DEFINE j == L - k
    <2>2. PICK g : g = [i \in j..L |-> IF i = j THEN DrainedAt(s, final, f, j) ELSE f[i]]
      OBVIOUS
    <2>3. ASSUME NEW i \in j..L PROVE g[i] = DrainedAt(s, final, g, i)
      <3>1. \A m \in (i + 1)..(Len(s) + 1) : g[m] = f[m]
        BY <2>2
      <3>2. i \in 1..(Len(s) + 1)
        OBVIOUS
      <3>3. DrainedAt(s, final, g, i) = DrainedAt(s, final, f, i)
        BY <3>1, <3>2, DrainedAhead
      <3>4. CASE i = j
        BY <2>2, <3>3, <3>4
      <3>5. CASE i # j
        <4>1. i \in (L + 1 - k)..L
          BY <3>5
        <4> QED
          BY <2>1, <2>2, <3>3, <3>5, <4>1
      <3> QED
        BY <3>4, <3>5
    <2>4. g = [i \in j..L |-> DrainedAt(s, final, g, i)]
      BY <2>2, <2>3
    <2>5. j = L + 1 - (k + 1)
      BY <1>0
    <2> HIDE DEF L, j
    <2> QED
      BY <1>0, <2>4, <2>5
  <1>3. L \in S
    <2>1. \A k \in 0..(L - 1) : k \in S => k + 1 \in S
      BY <1>2
    <2> HIDE DEF L, S
    <2>2. L \in 0..L /\ 0..L \subseteq S
      BY <1>0, <1>1, <2>1, Induction
    <2> QED
      BY <2>2
  <1>4. L + 1 - L = 1
    BY <1>0
  <1> QED
    BY <1>3, <1>4

LEMMA DrainedIs ==
  ASSUME NEW C, NEW s \in Seq(C), NEW final
  PROVE  \E f : /\ Drained(s, final) = f[1]
                /\ f = [i \in 1..(Len(s) + 1) |-> DrainedAt(s, final, f, i)]
  <1> DEFINE F == CHOOSE f : f = [i \in 1..(Len(s) + 1) |-> DrainedAt(s, final, f, i)]
  <1>1. Drained(s, final) = F[1]
    BY DEF Drained, DrainedAt, Ahead, Bad, ValidAt
  <1>2. F = [i \in 1..(Len(s) + 1) |-> DrainedAt(s, final, F, i)]
    BY DrainedExists
  <1> QED
    BY <1>1, <1>2

\* What is drained is made of the characters of the text and the replacement,
\* and what is left for later is at most the beginning of one character.
LEMMA DrainedType ==
  ASSUME NEW C, "r" \in C, NEW s \in Seq(C), NEW final
  PROVE  Drained(s, final) \in [deltas : Seq(Seq(C)), rest : {<<>>, <<"l">>}]
  <1> DEFINE L == Len(s) + 1
             R == [deltas : Seq(Seq(C)), rest : {<<>>, <<"l">>}]
  <1>0. L \in Nat \ {0}
    OBVIOUS
  <1>1. PICK f : /\ Drained(s, final) = f[1]
                 /\ f = [i \in 1..(Len(s) + 1) |-> DrainedAt(s, final, f, i)]
    BY DrainedIs
  <1> DEFINE T == {k \in 0..L : k > 0 => \A i \in (L + 1 - k)..L : f[i] \in R}
  <1>2. 0 \in T
    BY <1>0
  <1>3. ASSUME NEW k \in 0..(L - 1), k \in T PROVE k + 1 \in T
    <2> DEFINE i == L - k
    <2>1. i \in 1..L /\ \A m \in (i + 1)..L : f[m] \in R
      BY <1>3
    <2>2. Bad(s, i) \in i..L /\ ValidAt(s, i) \in Seq(Seq(C))
      BY <2>1, AheadType
    <2>3. Bad(s, i) <= Len(s) => f[Bad(s, i) + 1] \in R
      BY <2>1, <2>2
    <2>5. <<<<"r">>>> \in Seq(Seq(C))
      OBVIOUS
    <2>6. f[i] = DrainedAt(s, final, f, i)
      BY <1>1, <2>1
    <2>7. DrainedAt(s, final, f, i) \in R
      <3> HIDE DEF i, L
      <3>1. CASE Bad(s, i) > Len(s)
        BY <2>2, <3>1 DEF DrainedAt
      <3>2. CASE Bad(s, i) = Len(s) /\ s[Bad(s, i)] = "l" /\ final
        <4>1. DrainedAt(s, final, f, i) =
                 [deltas |-> ValidAt(s, i) \o <<<<"r">>>>, rest |-> <<>>]
          BY <3>2 DEF DrainedAt
        <4> QED
          BY <2>2, <2>5, <4>1
      <3>3. CASE Bad(s, i) = Len(s) /\ s[Bad(s, i)] = "l" /\ ~final
        <4>1. DrainedAt(s, final, f, i) = [deltas |-> ValidAt(s, i), rest |-> <<"l">>]
          BY <3>3 DEF DrainedAt
        <4> QED
          BY <2>2, <4>1
      <3>4. CASE ~(Bad(s, i) > Len(s)) /\ ~(Bad(s, i) = Len(s) /\ s[Bad(s, i)] = "l")
        <4>1. DrainedAt(s, final, f, i) =
                 [deltas |-> ValidAt(s, i) \o <<<<"r">>>> \o f[Bad(s, i) + 1].deltas,
                  rest |-> f[Bad(s, i) + 1].rest]
          BY <3>4 DEF DrainedAt
        <4>2. f[Bad(s, i) + 1] \in R
          BY <1>0, <2>1, <2>2, <2>3, <3>4 DEF L
        <4>3. f[Bad(s, i) + 1].deltas \in Seq(Seq(C)) /\ f[Bad(s, i) + 1].rest \in {<<>>, <<"l">>}
          BY <4>2
        <4>4. ValidAt(s, i) \o <<<<"r">>>> \o f[Bad(s, i) + 1].deltas \in Seq(Seq(C))
          BY <2>2, <2>5, <4>3
        <4> QED
          BY <4>1, <4>3, <4>4
      <3> QED
        BY <3>1, <3>2, <3>3, <3>4
    <2>8. \A m \in (L + 1 - (k + 1))..L : m = i \/ m \in (i + 1)..L
      BY <1>0
    <2> HIDE DEF R
    <2> QED
      BY <1>0, <2>1, <2>6, <2>7, <2>8
  <1>4. L \in T
    <2> HIDE DEF L, T
    <2>1. \A k \in 0..(L - 1) : k \in T => k + 1 \in T
      BY <1>3
    <2>2. L \in Nat /\ L \in 0..L
      BY <1>0
    <2>3. 0..L \subseteq T
      BY <1>2, <2>1, <2>2, Induction
    <2> QED
      BY <2>2, <2>3
  <1>5. f[1] \in R
    <2> HIDE DEF R
    <2> QED
      BY <1>0, <1>4
  <1> QED
    BY <1>1, <1>5

\* Nothing pending, nothing to drain.
LEMMA DrainedEmpty ==
  ASSUME NEW final
  PROVE  Drained(<<>>, final) = [deltas |-> <<>>, rest |-> <<>>]
  <1>1. PICK f : /\ Drained(<<>>, final) = f[1]
                 /\ f = [i \in 1..(Len(<<>>) + 1) |-> DrainedAt(<<>>, final, f, i)]
    <2>1. <<>> \in Seq({})
      OBVIOUS
    <2> QED
      BY <2>1, DrainedIs
  <1>2. f[1] = DrainedAt(<<>>, final, f, 1)
    BY <1>1
  <1>3. Ahead(<<>>, 1) = <<>> /\ ValidPrefix(<<>>) = 0
    <2>1. ValidPrefix(<<>>) \in 0..Len(<<>>)
      BY ValidPrefixType
    <2> QED
      BY <2>1 DEF Ahead
  <1>4. Bad(<<>>, 1) = 1 /\ ValidAt(<<>>, 1) = <<>>
    BY <1>3 DEF Bad, ValidAt
  <1>5. DrainedAt(<<>>, final, f, 1) = [deltas |-> <<>>, rest |-> <<>>]
    BY <1>4 DEF DrainedAt
  <1> QED
    BY <1>1, <1>2, <1>5

\* The text of a result is at most as long as what it is made of, and has no
\* marker when it is cut before it.
LEMMA SanitizedType ==
  ASSUME NEW s \in Seq(Chars)
  PROVE  /\ Sanitized(s) \in Seq(Chars) /\ Len(Sanitized(s)) = Len(s)
         /\ \A i \in 1..Len(s) : Sanitized(s)[i] \in {s[i], "r"}
  <1>1. \A i \in 1..Len(s) : s[i] \in Chars /\ "r" \in Chars
    BY DEF Chars
  <1>2. \A i \in 1..Len(s) : (IF Whole(s, i) THEN s[i] ELSE "r") \in {s[i], "r"}
    OBVIOUS
  <1> QED
    BY <1>1, <1>2 DEF Sanitized

LEMMA BeforeMarkerType ==
  ASSUME NEW C, NEW s \in Seq(C)
  PROVE  /\ BeforeMarker(s) \in Seq(C \ {"m"})
         /\ HasMarker(s) \/ BeforeMarker(s) = s
         /\ s # <<>> /\ s[1] # "m" => BeforeMarker(s) # <<>>
         /\ BeforeMarker(s) = <<>> => s = <<>> \/ HasMarker(s)
         /\ BeforeMarker(s) # <<>> => s # <<>> /\ s[1] # "m" /\ BeforeMarker(s)[1] = s[1]
  <1> DEFINE n == Marker(s)
  <1>1. /\ n \in 1..(Len(s) + 1) /\ Len(s) \in Nat
        /\ \A i \in 1..(n - 1) : s[i] # "m"
        /\ n <= Len(s) => s[n] = "m"
    BY MarkerType
  <1>2. /\ BeforeMarker(s) \in Seq(C) /\ Len(BeforeMarker(s)) = n - 1
        /\ \A i \in 1..(n - 1) : BeforeMarker(s)[i] = s[i]
    BY <1>1 DEF BeforeMarker
  <1>3. BeforeMarker(s) \in Seq(C \ {"m"})
    BY <1>1, <1>2
  <1>4. n = Len(s) + 1 => BeforeMarker(s) = s
    BY <1>1, <1>2
  <1>5. HasMarker(s) <=> n <= Len(s)
    BY DEF HasMarker
  <1>6. s # <<>> /\ s[1] # "m" => n # 1
    BY <1>1
  <1>7. BeforeMarker(s) # <<>> <=> n # 1
    BY <1>1, <1>2
  <1> HIDE DEF n
  <1> QED
    BY <1>1, <1>2, <1>3, <1>4, <1>5, <1>6, <1>7

LEMMA ParsedTextType ==
  ASSUME NEW s \in Seq(Chars)
  PROVE  /\ ParsedText(s) \in Seq(Chars \ {"m"})
         /\ s # <<>> /\ s[1] # "m" => ParsedText(s) # <<>>
  <1>1. BeforeMarker(s) \in Seq(Chars \ {"m"})
    BY BeforeMarkerType
  <1>2. s # <<>> /\ s[1] # "m" => BeforeMarker(s) # <<>>
    BY BeforeMarkerType
  <1>3. "k" \in Chars \ {"m"}
    BY DEF Chars
  <1>4. Append(BeforeMarker(s), "k") \in Seq(Chars \ {"m"}) /\ Append(BeforeMarker(s), "k") # <<>>
    BY <1>1, <1>3
  <1> QED
    BY <1>1, <1>2, <1>4 DEF ParsedText

LEMMA UnstreamedType ==
  ASSUME NEW C, NEW text \in Seq(C), NEW D, streamedText \in Seq(D), IsPrefix(streamedText, text)
  PROVE  Unstreamed(text) \in Seq(Seq(C))
  <1>1. Len(streamedText) \in 0..Len(text)
    BY DEF IsPrefix
  <1>2. SubSeq(text, Len(streamedText) + 1, Len(text)) \in Seq(C)
    BY <1>1
  <1> QED
    BY <1>2 DEF Unstreamed

-----------------------------------------------------------------------------
(***************************************************************************)
(* The inductive invariant.                                                *)
(***************************************************************************)

\* Where stream_responses is, once it has sent what it is sending.
At == IF cpc \in {"send", "tail"} THEN then ELSE cpc
\* It returned with frames it could not send.
GaveUp == cpc = "returned" /\ outbox # <<>>
Decided == outcome.kind # "none"
NotGivenUp == {"value", "deadline", "error"}

\* The thread sends while there is something to send, and no further than the
\* batcher: it asks once, and parses or ends with the outcome.
Control ==
    /\ cpc \in {"send", "tail"} => outbox # <<>>
    /\ outbox # <<>> => cpc \in {"send", "tail", "returned"}
    /\ At \in {"begin", "submit"} => wpc = "none"
    /\ At \in {"generate", "parse"} => wpc # "none"
    /\ Decided <=> wpc = "settled"
    /\ At = "parse" => outcome.kind = "value"
    /\ cpc \in {"send", "tail"} /\ then = "returned" => outcome.kind \in NotGivenUp
    /\ wpc # "settled" => tokens < MaxPieces

\* The mutex is held by the one who is in the middle of a frame.
Exclusive ==
    /\ sendMutex = "client" <=> cpc = "tail"
    /\ sendMutex = "worker" <=> wpc = "tail"

\* The wire has whole frames, and the beginning of the one that is being sent;
\* unless one was cut, and then its sender gave up or the request failed.
Framed ==
    /\ \A i \in 1..Len(wire) :
         /\ wire[i][2] = IF i % 2 = 1 THEN 1 ELSE 2
         /\ i % 2 = 0 => wire[i][1] = wire[i - 1][1]
    /\ Len(wire) % 2 = 1 <=> sendMutex # "free"
    /\ sendMutex = "client" => wire[Len(wire)][1] = Head(outbox)
    /\ sendMutex = "worker" => wire[Len(wire)][1] = Comment("keepalive")
FramedUnlessCut == outcome.kind # "socket" /\ ~GaveUp => Framed

\* The events received and those that wait are numbered without a gap; the first
\* thing sent is not an event.
Waiting == NumberedBefore(Len(wire) + 1)
Numbering ==
    /\ \A i \in Received :
         Name(i) \notin Unnumbered => wire[i][1].seq = Cardinality(NumberedBefore(i))
    /\ IF outbox # <<>> /\ then = "begin"
       THEN outbox = <<Comment("headers")>> /\ sequence = 0 /\ Waiting = {}
       ELSE /\ Cardinality(Waiting) + Len(outbox) = sequence
            /\ \A k \in 1..Len(outbox) :
                 /\ outbox[k].event \notin Unnumbered
                 /\ outbox[k].seq = Cardinality(Waiting) + k - 1

Sent(name) == \E i \in Received : Name(i) = name
Earlier(q, k, name) == Sent(name) \/ \E j \in 1..(k - 1) : q[j].event = name
\* The events of q may follow those that were received.
InOrder(q) ==
    \A k \in 1..Len(q) :
      /\ q[k].event \in {"delta", "text_done"} =>
           Earlier(q, k, "part_added") /\ ~Earlier(q, k, "text_done")
      /\ q[k].event = "part_added" => ~Earlier(q, k, "part_added")
      /\ q[k].event = "call_added" =>
           (Earlier(q, k, "part_added") => Earlier(q, k, "item_done"))
      /\ q[k].event \in Terminal => k = Len(q)
Has(q, name) == Earlier(q, Len(q) + 1, name)
All(name) == Has(outbox, name)

\* A terminal event is the last of the last batch, and then nobody writes.
Ending ==
    /\ \A name \in Terminal : Sent(name) =>
         cpc = "returned" /\ outbox = <<>> /\ wpc = "settled"
                          /\ outcome.kind \in NotGivenUp
    /\ \A k \in 1..Len(outbox) : outbox[k].event \in Terminal => then = "returned"
    /\ outbox # <<>> /\ then = "returned" => outbox[Len(outbox)].event \in Terminal

\* The message is open when messageStarted says so, and not done.
Message ==
    /\ At = "begin" =>
         messageStarted = ~toolsEnabled /\ ~All("part_added") /\ ~All("text_done")
    /\ At \in {"submit", "generate", "parse"} =>
         (messageStarted <=> All("part_added")) /\ ~All("text_done")
    /\ pendingText # <<>> => messageStarted
    /\ ~toolsEnabled => messageStarted

\* With tools, a message that was opened has text: the result does not begin
\* with a call.
Opened ==
    toolsEnabled =>
      /\ messageStarted => generated # <<>> /\ generated[1] # "m"
      /\ ~messageStarted /\ ~toolMarkerSeen =>
           IF pieces = <<>> THEN generated = <<>>
           ELSE generated # <<>> /\ generated[1] = Head(pieces)[1]

NoMarker(text) == text \in Seq(Chars \ {"m"})
Syntax ==
    toolsEnabled =>
      /\ \A i \in 1..Len(wire) : NoMarker(wire[i][1].text)
      /\ \A k \in 1..Len(outbox) : NoMarker(outbox[k].text)

\* The peer is not written to only when something happened to it.
Reason ==
    /\ outcome.kind \in {"socket", "deadline"} => peer # "open" \/ expired
    /\ callbackFailed => peer # "open" \/ expired
    /\ cpc = "returned" =>
         \/ \E name \in Terminal : Sent(name)
         \/ peer # "open" \/ expired

StreamInvariant ==
    /\ TypeOK /\ Control /\ Exclusive /\ FramedUnlessCut /\ Numbering
    /\ LifecycleInOrder /\ InOrder(outbox) /\ Ending /\ Message /\ Opened
    /\ Syntax /\ Reason

-----------------------------------------------------------------------------
(***************************************************************************)
(* What a half frame does to what was received.                            *)
(***************************************************************************)

\* The wire does not change.
LEMMA WireKept ==
  ASSUME wire' = wire
  PROVE  /\ Received' = Received /\ Waiting' = Waiting
         /\ \A i : Name(i)' = Name(i) /\ NumberedBefore(i)' = NumberedBefore(i)
         /\ \A name : Sent(name)' = Sent(name)
         /\ \A i, name : Before(i, name)' = Before(i, name)
         /\ LifecycleInOrder => LifecycleInOrder'
  <1>1. Received' = Received /\ \A i : Name(i)' = Name(i)
    BY DEF Received, Name
  <1>2. \A i : NumberedBefore(i)' = NumberedBefore(i)
    BY <1>1 DEF NumberedBefore
  <1>3. \A i, name : Before(i, name)' = Before(i, name)
    BY <1>1 DEF Before
  <1>4. Waiting' = Waiting
    BY <1>1 DEF Waiting, NumberedBefore
  <1>5. \A name : Sent(name)' = Sent(name)
    BY <1>1 DEF Sent
  <1>6. LifecycleInOrder => LifecycleInOrder'
    BY <1>1, <1>3 DEF LifecycleInOrder
  <1> QED
    BY <1>1, <1>2, <1>3, <1>4, <1>5, <1>6

\* The beginning of a frame is not received.
LEMMA HeadOnWire ==
  ASSUME wire \in Seq(Frames \X {1, 2}), NEW f \in Frames, wire' = Append(wire, <<f, 1>>)
  PROVE  /\ wire' \in Seq(Frames \X {1, 2}) /\ Len(wire)' = Len(wire) + 1
         /\ \A i \in 1..Len(wire) : wire'[i] = wire[i]
         /\ wire'[Len(wire) + 1] = <<f, 1>>
         /\ Received' = Received /\ Waiting' = Waiting
         /\ \A i \in Received : Name(i)' = Name(i) /\ NumberedBefore(i)' = NumberedBefore(i)
         /\ \A name : Sent(name)' = Sent(name)
         /\ \A i, name : Before(i, name)' = Before(i, name)
         /\ LifecycleInOrder => LifecycleInOrder'
  <1>1. /\ wire' \in Seq(Frames \X {1, 2}) /\ Len(wire)' = Len(wire) + 1
        /\ \A i \in 1..Len(wire) : wire'[i] = wire[i]
        /\ wire'[Len(wire) + 1] = <<f, 1>> /\ Len(wire) \in Nat
    OBVIOUS
  <1>2. Received' = Received /\ Received \subseteq 1..Len(wire)
    BY <1>1 DEF Received
  <1>3. \A i \in Received : Name(i)' = Name(i)
    BY <1>1, <1>2 DEF Name
  <1>4. \A i : NumberedBefore(i)' = NumberedBefore(i)
    BY <1>2, <1>3 DEF NumberedBefore
  <1>5. \A i, name : Before(i, name)' = Before(i, name)
    BY <1>2, <1>3 DEF Before
  <1>6. Waiting' = Waiting
    <2>1. Waiting = {j \in Received : Name(j) \notin Unnumbered}
      <3>1. \A j \in Received : j < Len(wire) + 1
        BY <1>1, <1>2
      <3> QED
        BY <3>1 DEF Waiting, NumberedBefore
    <2>2. Waiting' = {j \in Received' : Name(j)' \notin Unnumbered}
      <3>1. \A j \in Received' : j < Len(wire)' + 1
        BY <1>1, <1>2
      <3> QED
        BY <3>1 DEF Waiting, NumberedBefore
    <2> QED
      BY <1>2, <1>3, <2>1, <2>2
  <1>7. \A name : Sent(name)' = Sent(name)
    BY <1>2, <1>3 DEF Sent
  <1>8. LifecycleInOrder => LifecycleInOrder'
    BY <1>2, <1>3, <1>5 DEF LifecycleInOrder
  <1> QED
    BY <1>1, <1>2, <1>3, <1>4, <1>5, <1>6, <1>7, <1>8

\* The end of a frame is.
LEMMA TailOnWire ==
  ASSUME wire \in Seq(Frames \X {1, 2}), NEW f \in Frames, wire' = Append(wire, <<f, 2>>)
  PROVE  /\ wire' \in Seq(Frames \X {1, 2}) /\ Len(wire)' = Len(wire) + 1
         /\ \A i \in 1..Len(wire) : wire'[i] = wire[i]
         /\ wire'[Len(wire) + 1] = <<f, 2>>
         /\ Received \subseteq 1..Len(wire)
         /\ Received' = Received \cup {Len(wire) + 1}
         /\ Waiting' = Waiting \cup {i \in {Len(wire) + 1} : f.event \notin Unnumbered}
         /\ \A i \in Received : /\ Name(i)' = Name(i)
                                /\ NumberedBefore(i)' = NumberedBefore(i)
                                /\ \A name : Before(i, name)' = Before(i, name)
         /\ \A i : i = Len(wire) + 1 =>
              /\ Name(i)' = f.event /\ NumberedBefore(i)' = Waiting
              /\ \A name : Before(i, name)' = Sent(name)
         /\ \A name : Sent(name)' <=> Sent(name) \/ name = f.event
  <1>1. /\ wire' \in Seq(Frames \X {1, 2}) /\ Len(wire)' = Len(wire) + 1
        /\ \A i \in 1..Len(wire) : wire'[i] = wire[i]
        /\ wire'[Len(wire) + 1] = <<f, 2>> /\ Len(wire) \in Nat
    OBVIOUS
  <1>2. Received' = Received \cup {Len(wire) + 1} /\ Received \subseteq 1..Len(wire)
    BY <1>1 DEF Received
  <1>3. \A i \in Received : Name(i)' = Name(i)
    BY <1>1, <1>2 DEF Name
  <1>4. \A i : i = Len(wire) + 1 => Name(i)' = f.event
    BY <1>1 DEF Name
  <1>5. \A i \in Received : NumberedBefore(i)' = NumberedBefore(i)
    BY <1>1, <1>2, <1>3 DEF NumberedBefore
  <1>6. \A i \in Received : \A name : Before(i, name)' = Before(i, name)
    BY <1>1, <1>2, <1>3 DEF Before
  <1>7. \A i : i = Len(wire) + 1 => NumberedBefore(i)' = Waiting
    <2>1. ASSUME NEW i, i = Len(wire) + 1 PROVE NumberedBefore(i)' = Waiting
      <3>1. NumberedBefore(i)' = {j \in Received' : j < i /\ Name(j)' \notin Unnumbered}
        BY DEF NumberedBefore
      <3>2. \A j : j \in Received' /\ j < i <=> j \in Received /\ j < i
        BY <1>1, <1>2, <2>1
      <3>3. Waiting = {j \in Received : j < i /\ Name(j) \notin Unnumbered}
        BY <2>1 DEF Waiting, NumberedBefore
      <3> QED
        BY <1>3, <3>1, <3>2, <3>3
    <2> QED
      BY <2>1
  <1>8. \A i : i = Len(wire) + 1 => \A name : Before(i, name)' = Sent(name)
    BY <1>1, <1>2, <1>3 DEF Before, Sent
  <1>9. Waiting' = Waiting \cup {i \in {Len(wire) + 1} : f.event \notin Unnumbered}
    <2>1. Waiting = {j \in Received : Name(j) \notin Unnumbered}
      <3>1. \A j \in Received : j < Len(wire) + 1
        BY <1>1, <1>2
      <3> QED
        BY <3>1 DEF Waiting, NumberedBefore
    <2>2. Waiting' = {j \in Received' : Name(j)' \notin Unnumbered}
      <3>1. \A j \in Received' : j < Len(wire)' + 1
        BY <1>1, <1>2
      <3> QED
        BY <3>1 DEF Waiting, NumberedBefore
    <2> QED
      BY <1>2, <1>3, <1>4, <2>1, <2>2
  <1>10. \A name : Sent(name)' <=> Sent(name) \/ name = f.event
    BY <1>2, <1>3, <1>4 DEF Sent
  <1> QED
    BY <1>1, <1>2, <1>3, <1>4, <1>5, <1>6, <1>7, <1>8, <1>9, <1>10

\* What is counted is finite.
LEMMA WaitingFinite ==
  ASSUME wire \in Seq(Frames \X {1, 2})
  PROVE  /\ IsFiniteSet(Waiting) /\ Cardinality(Waiting) \in Nat
         /\ Len(wire) + 1 \notin Waiting
         /\ Cardinality(Waiting \cup {Len(wire) + 1}) = Cardinality(Waiting) + 1
         /\ Cardinality({}) = 0
  <1>1. Waiting \subseteq 1..Len(wire)
    BY DEF Waiting, NumberedBefore, Received
  <1>2. IsFiniteSet(1..Len(wire))
    BY FS_Interval
  <1>3. IsFiniteSet(Waiting)
    BY <1>1, <1>2, FS_Subset
  <1>4. Len(wire) + 1 \notin Waiting
    BY <1>1
  <1> QED
    BY <1>3, <1>4, FS_CardinalityType, FS_AddElement, FS_EmptySet

-----------------------------------------------------------------------------
(***************************************************************************)
(* Emitting events.                                                        *)
(***************************************************************************)
EventType == [event : Events \ Unnumbered, text : Seq(Chars)]
Places == {"begin", "submit", "generate", "parse", "returned"}

\* What Emit leaves in the outbox.
LEMMA Emitted ==
  ASSUME sequence \in Nat, then \in Places,
         NEW events \in Seq(EventType), NEW next \in Places, Emit(events, next)
  PROVE  /\ outbox' \in Seq(Frames) /\ Len(outbox') = Len(events)
         /\ \A k \in 1..Len(events) : /\ outbox'[k].event = events[k].event
                                      /\ outbox'[k].text = events[k].text
                                      /\ outbox'[k].seq = sequence + k - 1
                                      /\ events[k].event \notin Unnumbered
         /\ sequence' = sequence + Len(events) /\ sequence' \in Nat
         /\ then' \in Places /\ At' = next
         /\ events = <<>> => outbox' = <<>> /\ cpc' = next
         /\ events # <<>> => outbox' # <<>> /\ cpc' = "send" /\ then' = next
  <1>1. Len(events) \in Nat /\ \A k \in 1..Len(events) : events[k] \in EventType
    OBVIOUS
  <1>2. \A k \in 1..Len(events) : sequence + k - 1 \in Nat
    BY <1>1
  <1>3. \A k \in 1..Len(events) :
          [event |-> events[k].event, text |-> events[k].text, seq |-> sequence + k - 1] \in Frames
    BY <1>1, <1>2 DEF EventType, Frames
  <1>4. outbox' = [k \in 1..Len(events) |->
          [event |-> events[k].event, text |-> events[k].text, seq |-> sequence + k - 1]]
    BY DEF Emit
  <1>5. outbox' \in Seq(Frames) /\ Len(outbox') = Len(events)
    BY <1>1, <1>3, <1>4
  <1>6. /\ sequence' = sequence + Len(events)
        /\ events = <<>> => cpc' = next /\ then' = then
        /\ events # <<>> => cpc' = "send" /\ then' = next
    BY DEF Emit
  <1>7. then' \in Places /\ At' = next
    BY <1>6 DEF At, Places
  <1>8. \A k \in 1..Len(events) : events[k].event \notin Unnumbered
    BY <1>1 DEF EventType
  <1>9. (events = <<>> => outbox' = <<>>) /\ (events # <<>> => outbox' # <<>>)
    BY <1>1, <1>5
  <1> QED
    BY <1>1, <1>4, <1>5, <1>6, <1>7, <1>8, <1>9

\* A batch of events that may follow what was received, emitted where the
\* outcome allows it, keeps what is said of the wire and the queue.
LEMMA EmitKeeps ==
  ASSUME StreamInvariant, cpc \in {"begin", "generate", "parse"},
         NEW events \in Seq(EventType), NEW next \in Places, Emit(events, next),
         UNCHANGED <<connVars, wpc, outcome, tokens>>,
         InOrder(events), next # "begin",
         next = "submit" => wpc = "none",
         next \in {"generate", "parse"} => wpc # "none",
         next = "parse" => outcome.kind = "value",
         \A k \in 1..Len(events) : events[k].event \in Terminal => next = "returned",
         events # <<>> /\ next = "returned" =>
           outcome.kind \in NotGivenUp /\ events[Len(events)].event \in Terminal
  PROVE  /\ wire' \in Seq(Frames \X {1, 2}) /\ outbox' \in Seq(Frames) /\ sequence' \in Nat
         /\ then' \in Places /\ cpc' \in Places \cup {"send"} /\ At' = next
         /\ Control' /\ Exclusive' /\ FramedUnlessCut' /\ Numbering'
         /\ LifecycleInOrder' /\ InOrder(outbox)' /\ Ending'
         /\ \A name : All(name)' <=> Has(events, name)
  <1>1. /\ TypeOK /\ Control /\ Exclusive /\ FramedUnlessCut /\ Numbering
        /\ LifecycleInOrder /\ Ending
    BY DEF StreamInvariant
  <1>2. /\ sequence \in Nat /\ then \in Places /\ wire \in Seq(Frames \X {1, 2})
        /\ wire' = wire /\ sendMutex' = sendMutex /\ wpc' = wpc /\ outcome' = outcome
        /\ tokens' = tokens
    BY <1>1 DEF TypeOK, Places, connVars
  <1>3. outbox = <<>>
    BY <1>1 DEF Control
  <1>4. /\ outbox' \in Seq(Frames) /\ Len(outbox') = Len(events) /\ Len(events) \in Nat
        /\ \A k \in 1..Len(events) : /\ outbox'[k].event = events[k].event
                                     /\ outbox'[k].seq = sequence + k - 1
                                     /\ events[k].event \notin Unnumbered
        /\ sequence' = sequence + Len(events) /\ sequence' \in Nat
        /\ then' \in Places /\ At' = next
        /\ events = <<>> => outbox' = <<>> /\ cpc' = next
        /\ events # <<>> => outbox' # <<>> /\ cpc' = "send" /\ then' = next
    BY <1>2, Emitted
  <1>5. cpc' \in Places \cup {"send"}
    BY <1>4
  <1>6. Control'
    BY <1>1, <1>2, <1>4, <1>5 DEF Control, Decided, Places, At
  <1>7. Exclusive'
    BY <1>1, <1>2, <1>5 DEF Exclusive, Places
  <1>8. FramedUnlessCut'
    <2>1. SUFFICES ASSUME outcome'.kind # "socket" PROVE Framed'
      BY DEF FramedUnlessCut
    <2>2. Framed /\ sendMutex # "client"
      BY <1>1, <1>2, <2>1 DEF FramedUnlessCut, GaveUp, Exclusive
    <2> QED
      BY <1>2, <2>2 DEF Framed
  <1>9. /\ Received' = Received /\ Waiting' = Waiting
        /\ \A i : Name(i)' = Name(i) /\ NumberedBefore(i)' = NumberedBefore(i)
        /\ \A name : Sent(name)' = Sent(name)
        /\ LifecycleInOrder'
    BY <1>1, <1>2, WireKept
  <1>10. Cardinality(Waiting) = sequence
    <2>1. Cardinality(Waiting) + 0 = sequence /\ Cardinality(Waiting) \in Nat
      BY <1>1, <1>2, <1>3, WaitingFinite DEF Numbering
    <2> QED
      BY <2>1
  <1>11. Numbering'
    <2>1. ~(outbox' # <<>> /\ then' = "begin")
      BY <1>4
    <2>2. Cardinality(Waiting)' + Len(outbox)' = sequence'
      BY <1>4, <1>9, <1>10
    <2>3. \A i \in Received' :
            Name(i)' \notin Unnumbered => wire'[i][1].seq = Cardinality(NumberedBefore(i)')
      BY <1>1, <1>2, <1>9 DEF Numbering
    <2>4. \A k \in 1..Len(outbox') :
            outbox'[k].event \notin Unnumbered /\ outbox'[k].seq = Cardinality(Waiting') + k - 1
      BY <1>4, <1>9, <1>10
    <2> QED
      BY <2>1, <2>2, <2>3, <2>4 DEF Numbering
  <1>12. \A k \in 1..(Len(events) + 1) : \A name :
            Earlier(outbox, k, name)' <=> Earlier(events, k, name)
    BY SMTT(60), <1>4, <1>9 DEF Earlier
  <1>13. InOrder(outbox)'
    BY <1>4, <1>12 DEF InOrder
  <1>14. \A name : All(name)' <=> Has(events, name)
    BY <1>4, <1>12 DEF All, Has
  <1>15. Ending'
    <2>1. \A name \in Terminal : ~Sent(name)'
      BY <1>1, <1>9 DEF Ending
    <2>2. \A k \in 1..Len(outbox') : outbox'[k].event \in Terminal => then' = "returned"
      BY <1>4
    <2>3. outbox' # <<>> /\ then' = "returned" => outbox'[Len(outbox')].event \in Terminal
      <3>1. SUFFICES ASSUME events # <<>>, next = "returned"
                     PROVE  outbox'[Len(outbox')].event \in Terminal
        BY <1>4
      <3>2. Len(events) \in 1..Len(events)
        BY <1>4, <3>1
      <3> QED
        BY <1>4, <3>1, <3>2
    <2> QED
      BY <2>1, <2>2, <2>3 DEF Ending
  <1> QED
    BY <1>2, <1>4, <1>5, <1>6, <1>7, <1>8, <1>9, <1>11, <1>13, <1>14, <1>15

-----------------------------------------------------------------------------
(***************************************************************************)
(* The batches of stream_responses, put together part by part.             *)
(***************************************************************************)
TextChars == IF toolsEnabled THEN Chars \ {"m"} ELSE Chars
TextEvent == [event : Events \ Unnumbered, text : Seq(TextChars)]

\* A batch without its terminal event.
Batch(q) ==
    /\ q \in Seq(TextEvent) /\ InOrder(q)
    /\ \A k \in 1..Len(q) : q[k].event \notin Terminal

LEMMA SubsetSeq ==
  ASSUME NEW A, NEW B, A \subseteq B, NEW s \in Seq(A)
  PROVE  s \in Seq(B)
  OBVIOUS

LEMMA TextEventIsEvent == TextEvent \subseteq EventType
  <1>1. Seq(TextChars) \subseteq Seq(Chars)
    BY SubsetSeq DEF TextChars
  <1> QED
    BY <1>1 DEF TextEvent, EventType

\* b may follow q.
Follows(q, b) ==
    \A k \in 1..Len(b) :
      LET earlier(name) == Has(q, name) \/ \E j \in 1..(k - 1) : b[j].event = name IN
      /\ b[k].event \in {"delta", "text_done"} => earlier("part_added") /\ ~earlier("text_done")
      /\ b[k].event = "part_added" => ~earlier("part_added")
      /\ b[k].event = "call_added" => (earlier("part_added") => earlier("item_done"))
      /\ b[k].event \in Terminal => k = Len(b)

LEMMA Joined ==
  ASSUME NEW q, Batch(q), NEW b \in Seq(TextEvent), Follows(q, b)
  PROVE  /\ q \o b \in Seq(TextEvent) /\ InOrder(q \o b)
         /\ \A name : Has(q \o b, name) <=> Has(q, name) \/ \E k \in 1..Len(b) : b[k].event = name
         /\ (\A k \in 1..Len(b) : b[k].event \notin Terminal) => Batch(q \o b)
  <1>1. /\ q \in Seq(TextEvent) /\ InOrder(q) /\ Len(q) \in Nat /\ Len(b) \in Nat
        /\ \A k \in 1..Len(q) : q[k].event \notin Terminal
    BY DEF Batch
  <1> DEFINE r == q \o b
  <1>2. /\ r \in Seq(TextEvent) /\ Len(r) = Len(q) + Len(b)
        /\ \A k \in 1..Len(q) : r[k] = q[k]
        /\ \A k \in 1..Len(b) : r[Len(q) + k] = b[k]
    BY <1>1
  <1>3. \A k \in 1..(Len(q) + Len(b)) : k \in 1..Len(q) \/ \E m \in 1..Len(b) : k = Len(q) + m
    <2>1. ASSUME NEW k \in 1..(Len(q) + Len(b)), k \notin 1..Len(q)
          PROVE  k - Len(q) \in 1..Len(b) /\ k = Len(q) + (k - Len(q))
      BY <1>1, <2>1
    <2> QED
      BY <2>1
  <1> HIDE DEF r
  <1>4. ASSUME NEW k \in 1..Len(q), NEW name PROVE Earlier(r, k, name) <=> Earlier(q, k, name)
    <2>1. \A j \in 1..(k - 1) : r[j] = q[j]
      BY <1>1, <1>2
    <2> QED
      BY <2>1 DEF Earlier
  <1>5. ASSUME NEW k \in 1..(Len(b) + 1), NEW name
        PROVE  Earlier(r, Len(q) + k, name) <=>
                 Has(q, name) \/ \E j \in 1..(k - 1) : b[j].event = name
    <2>1. ASSUME Earlier(r, Len(q) + k, name), ~Has(q, name)
          PROVE  \E j \in 1..(k - 1) : b[j].event = name
      <3>1. ~Sent(name) /\ ~\E j \in 1..Len(q) : q[j].event = name
        BY <1>1, <2>1 DEF Has, Earlier
      <3>2. PICK j \in 1..(Len(q) + k - 1) : r[j].event = name
        BY <1>1, <2>1, <3>1 DEF Earlier
      <3>3. j \in 1..(Len(q) + Len(b))
        BY <1>1
      <3>4. PICK m \in 1..Len(b) : j = Len(q) + m
        BY <1>2, <1>3, <3>1, <3>2, <3>3
      <3>5. m \in 1..(k - 1)
        BY <1>1, <3>4
      <3>6. b[m].event = name
        BY <1>2, <3>2, <3>4
      <3> QED
        BY <3>5, <3>6
    <2>2. ASSUME Has(q, name) PROVE Earlier(r, Len(q) + k, name)
      <3>1. CASE Sent(name)
        BY <3>1 DEF Earlier
      <3>2. CASE ~Sent(name)
        <4>1. PICK j \in 1..Len(q) : q[j].event = name
          BY <1>1, <2>2, <3>2 DEF Has, Earlier
        <4>2. j \in 1..(Len(q) + k - 1) /\ r[j].event = name
          BY <1>1, <1>2, <4>1
        <4> QED
          BY <4>2 DEF Earlier
      <3> QED
        BY <3>1, <3>2
    <2>3. ASSUME NEW j \in 1..(k - 1), b[j].event = name PROVE Earlier(r, Len(q) + k, name)
      <3>1. Len(q) + j \in 1..(Len(q) + k - 1) /\ j \in 1..Len(b)
        BY <1>1
      <3>2. r[Len(q) + j].event = name
        BY <1>2, <2>3, <3>1
      <3> QED
        BY <3>1, <3>2 DEF Earlier
    <2> QED
      BY <2>1, <2>2, <2>3
  <1>6. InOrder(r)
    <2>1. SUFFICES ASSUME NEW k \in 1..(Len(q) + Len(b))
          PROVE  /\ r[k].event \in {"delta", "text_done"} =>
                      Earlier(r, k, "part_added") /\ ~Earlier(r, k, "text_done")
                 /\ r[k].event = "part_added" => ~Earlier(r, k, "part_added")
                 /\ r[k].event = "call_added" =>
                      (Earlier(r, k, "part_added") => Earlier(r, k, "item_done"))
                 /\ r[k].event \in Terminal => k = Len(q) + Len(b)
      BY <1>2 DEF InOrder
    <2>2. CASE k \in 1..Len(q)
      BY <1>1, <1>2, <1>4, <2>2 DEF InOrder
    <2>3. CASE k \notin 1..Len(q)
      <3>1. PICK m \in 1..Len(b) : k = Len(q) + m
        BY <1>3, <2>3
      <3>2. m \in 1..(Len(b) + 1) /\ r[k] = b[m]
        BY <1>1, <1>2, <3>1
      <3> DEFINE earlier(name) == Has(q, name) \/ \E j \in 1..(m - 1) : b[j].event = name
      <3>3. \A name : Earlier(r, k, name) <=> earlier(name)
        BY <1>5, <3>1, <3>2
      <3>4. /\ b[m].event \in {"delta", "text_done"} =>
                 earlier("part_added") /\ ~earlier("text_done")
            /\ b[m].event = "part_added" => ~earlier("part_added")
            /\ b[m].event = "call_added" => (earlier("part_added") => earlier("item_done"))
            /\ b[m].event \in Terminal => m = Len(b)
        BY DEF Follows
      <3> HIDE DEF earlier
      <3> QED
        BY <3>1, <3>2, <3>3, <3>4
    <2> QED
      BY <2>2, <2>3
  <1>7. \A name : Has(r, name) <=> Has(q, name) \/ \E k \in 1..Len(b) : b[k].event = name
    <2>1. Len(b) + 1 \in 1..(Len(b) + 1) /\ (Len(b) + 1) - 1 = Len(b)
          /\ Len(r) + 1 = Len(q) + (Len(b) + 1)
      BY <1>1, <1>2
    <2>2. \A name : Has(r, name) <=> Earlier(r, Len(q) + (Len(b) + 1), name)
      BY <2>1 DEF Has
    <2> QED
      BY <1>5, <2>1, <2>2
  <1>8. (\A k \in 1..Len(b) : b[k].event \notin Terminal) => Batch(r)
    <2>1. SUFFICES ASSUME \A k \in 1..Len(b) : b[k].event \notin Terminal
                   PROVE  \A k \in 1..Len(r) : r[k].event \notin Terminal
      BY <1>2, <1>6 DEF Batch
    <2>2. ASSUME NEW k \in 1..Len(r) PROVE r[k].event \notin Terminal
      <3>1. CASE k \in 1..Len(q)
        BY <1>1, <1>2, <3>1
      <3>2. CASE k \notin 1..Len(q)
        <4>1. PICK m \in 1..Len(b) : k = Len(q) + m
          BY <1>2, <1>3, <3>2
        <4> QED
          BY <1>2, <2>1, <4>1
      <3> QED
        BY <3>1, <3>2
    <2> QED
      BY <2>2
  <1> QED
    BY <1>2, <1>6, <1>7, <1>8 DEF r

\* Nothing is a batch.
LEMMA NothingYet ==
  /\ Batch(<<>>) /\ \A name : Has(<<>>, name) <=> Sent(name)
  /\ toolsEnabled \in BOOLEAN => <<>> \in Seq(TextChars)
  BY DEF Batch, InOrder, Has, Earlier

LEMMA PlainType ==
  ASSUME NEW n \in Nat, NEW names \in [1..n -> Events \ Unnumbered]
  PROVE  /\ Plain(names) \in Seq(TextEvent) /\ Len(Plain(names)) = n
         /\ \A k \in 1..n : Plain(names)[k].event = names[k]
  <1>1. names \in Seq(Events \ Unnumbered) /\ Len(names) = n
    OBVIOUS
  <1>2. <<>> \in Seq(TextChars)
    OBVIOUS
  <1>3. \A k \in 1..n : Event(names[k], <<>>) \in TextEvent /\ Event(names[k], <<>>).event = names[k]
    BY <1>2 DEF Event, TextEvent
  <1>4. Plain(names) = [k \in 1..n |-> Event(names[k], <<>>)]
    BY <1>1 DEF Plain
  <1> QED
    BY <1>3, <1>4

\* The first two events.
LEMMA BeginBatch ==
  ASSUME NEW q, q = Plain(<<"created", "in_progress">>)
  PROVE  Batch(q) /\ \A name : name \notin {"created", "in_progress"} => (Has(q, name) <=> Sent(name))
  <1> DEFINE names == <<"created", "in_progress">>
  <1>1. names \in [1..2 -> Events \ Unnumbered] /\ names[1] = "created" /\ names[2] = "in_progress"
    BY DEF Events, Unnumbered
  <1>2. /\ q \in Seq(TextEvent) /\ Len(q) = 2
        /\ \A k \in 1..2 : q[k].event = names[k]
    <2> HIDE DEF names
    <2> QED
      BY <1>1, PlainType DEF names
  <1>3. \A k \in 1..2 : q[k].event \in {"created", "in_progress"}
    BY <1>1, <1>2
  <1> HIDE DEF names
  <1> QED
    BY <1>2, <1>3 DEF Batch, InOrder, Has, Earlier, Terminal

LEMMA MessageStartType ==
  /\ MessageStart \in Seq(TextEvent) /\ Len(MessageStart) = 2
  /\ MessageStart[1].event = "item_added" /\ MessageStart[2].event = "part_added"
  <1> DEFINE names == <<"item_added", "part_added">>
  <1>1. names \in [1..2 -> Events \ Unnumbered] /\ names[1] = "item_added" /\ names[2] = "part_added"
    BY DEF Events, Unnumbered
  <1>2. /\ MessageStart \in Seq(TextEvent) /\ Len(MessageStart) = 2
        /\ \A k \in 1..2 : MessageStart[k].event = names[k]
    <2> HIDE DEF names
    <2> QED
      BY <1>1, PlainType DEF MessageStart, names
  <1> QED
    BY <1>1, <1>2

\* The message is opened, if it is not open yet.
LEMMA OpeningBatch ==
  ASSUME NEW q, Batch(q), NEW started, ~started => ~Has(q, "part_added"),
         NEW opening, opening = IF started THEN <<>> ELSE MessageStart
  PROVE  /\ Batch(q \o opening)
         /\ \A name : Has(q \o opening, name) <=>
              Has(q, name) \/ (~started /\ name \in {"item_added", "part_added"})
  <1>3. CASE started
    <2>1. q \o opening = q
      BY <1>3 DEF Batch
    <2> QED
      BY <1>3, <2>1
  <1>4. CASE ~started
    <2>1. /\ opening \in Seq(TextEvent) /\ Len(opening) = 2
          /\ opening[1].event = "item_added" /\ opening[2].event = "part_added"
      BY <1>4, MessageStartType
    <2>2. \A k \in 1..Len(opening) :
            /\ opening[k].event \in {"item_added", "part_added"}
            /\ opening[k].event = "part_added" => k = 2
      BY <2>1
    <2>3. Follows(q, opening)
      BY <1>4, <2>1, <2>2 DEF Follows, Terminal
    <2>4. \A name : (\E k \in 1..Len(opening) : opening[k].event = name)
                      <=> name \in {"item_added", "part_added"}
      BY <2>1, <2>2
    <2>5. \A k \in 1..Len(opening) : opening[k].event \notin Terminal
      BY <2>2 DEF Terminal
    <2> QED
      BY <1>4, <2>1, <2>3, <2>4, <2>5, Joined
  <1> QED
    BY <1>3, <1>4

LEMMA DeltasType ==
  ASSUME NEW texts \in Seq(Seq(TextChars))
  PROVE  /\ Deltas(texts) \in Seq(TextEvent) /\ Len(Deltas(texts)) = Len(texts)
         /\ \A k \in 1..Len(texts) : Deltas(texts)[k].event = "delta"
  <1>1. \A k \in 1..Len(texts) : Event("delta", texts[k]) \in TextEvent
    BY DEF Event, TextEvent, Events, Unnumbered, Terminal
  <1> QED
    BY <1>1 DEF Deltas, Event

\* Deltas go into an open message.
LEMMA DeltasBatch ==
  ASSUME NEW q, Batch(q), NEW texts \in Seq(Seq(TextChars)),
         texts # <<>> => Has(q, "part_added") /\ ~Has(q, "text_done")
  PROVE  /\ Batch(q \o Deltas(texts))
         /\ \A name : name # "delta" => (Has(q \o Deltas(texts), name) <=> Has(q, name))
  <1>2. /\ Deltas(texts) \in Seq(TextEvent) /\ Len(Deltas(texts)) = Len(texts)
        /\ \A k \in 1..Len(texts) : Deltas(texts)[k].event = "delta"
    BY DeltasType
  <1>3. Follows(q, Deltas(texts))
    <2>1. \A k \in 1..Len(texts) : texts # <<>>
      OBVIOUS
    <2> QED
      BY <1>2, <2>1 DEF Follows, Terminal
  <1>4. \A k \in 1..Len(Deltas(texts)) : Deltas(texts)[k].event \notin Terminal
    BY <1>2 DEF Terminal
  <1> QED
    BY <1>2, <1>3, <1>4, Joined

\* An open message is done.
LEMMA DoneBatch ==
  ASSUME NEW q, Batch(q), Has(q, "part_added"), ~Has(q, "text_done"),
         NEW text \in Seq(TextChars)
  PROVE  /\ Batch(q \o MessageDone(text))
         /\ \A name : Has(q \o MessageDone(text), name) <=>
              Has(q, name) \/ name \in {"text_done", "part_done", "item_done"}
  <1> DEFINE done == MessageDone(text)
  <1>1. /\ done \in Seq(TextEvent) /\ Len(done) = 3
        /\ done[1].event = "text_done" /\ done[2].event = "part_done" /\ done[3].event = "item_done"
    <2>1. /\ Event("text_done", text) \in TextEvent /\ Event("part_done", text) \in TextEvent
          /\ Event("item_done", text) \in TextEvent
      BY DEF Event, TextEvent, Events, Unnumbered, Terminal
    <2> QED
      BY <2>1 DEF MessageDone, Event
  <1> HIDE DEF done
  <1>2. \A k \in 1..Len(done) : /\ done[k].event \in {"text_done", "part_done", "item_done"}
                                /\ done[k].event = "text_done" => k = 1
    BY <1>1
  <1>3. Follows(q, done)
    BY <1>1, <1>2 DEF Follows, Terminal
  <1>4. \A name : (\E k \in 1..Len(done) : done[k].event = name)
                    <=> name \in {"text_done", "part_done", "item_done"}
    BY <1>1, <1>2
  <1>5. \A k \in 1..Len(done) : done[k].event \notin Terminal
    BY <1>2 DEF Terminal
  <1>6. /\ Batch(q \o done)
        /\ \A name : Has(q \o done, name) <=>
             Has(q, name) \/ \E k \in 1..Len(done) : done[k].event = name
    BY <1>1, <1>3, <1>5, Joined
  <1> QED
    BY <1>4, <1>6 DEF done

\* Calls come after a message that is done, or that was never opened.
LEMMA CallsBatch ==
  ASSUME NEW q, Batch(q), NEW n \in Nat,
         n # 0 => (Has(q, "part_added") => Has(q, "item_done"))
  PROVE  Batch(q \o FunctionCalls(n))
  <1> DEFINE names == <<"call_added", "arguments_delta", "arguments_done", "call_done">>
             all == [i \in 1..(4 * n) |-> names[((i - 1) % 4) + 1]]
             some == {"call_added", "arguments_delta", "arguments_done", "call_done"}
  <1>1. \A i \in 1..(4 * n) : names[((i - 1) % 4) + 1] \in some
    <2>1. \A i \in 1..(4 * n) : ((i - 1) % 4) + 1 \in 1..4
      OBVIOUS
    <2>2. \A j \in 1..4 : names[j] \in some
      OBVIOUS
    <2> HIDE DEF names, some
    <2> QED
      BY <2>1, <2>2
  <1>2. some \subseteq Events \ Unnumbered
    BY DEF Events, Unnumbered
  <1>3. 4 * n \in Nat /\ all \in [1..(4 * n) -> Events \ Unnumbered]
    <2> HIDE DEF names, some
    <2> QED
      BY <1>1, <1>2
  <1>4. FunctionCalls(n) = Plain(all)
    BY DEF FunctionCalls
  <1> DEFINE calls == FunctionCalls(n)
  <1>5. /\ calls \in Seq(TextEvent) /\ Len(calls) = 4 * n
        /\ \A k \in 1..(4 * n) : calls[k].event \in some
    <2>1. \A k \in 1..(4 * n) : all[k] \in some
      BY <1>1
    <2> HIDE DEF all, some
    <2> QED
      BY <1>3, <1>4, <2>1, PlainType
  <1> HIDE DEF calls, all, names
  <1>6. Follows(q, calls)
    <2>1. \A k \in 1..Len(calls) : n # 0
      BY <1>5
    <2> QED
      BY <1>5, <2>1 DEF Follows, Terminal
  <1>7. \A k \in 1..Len(calls) : calls[k].event \notin Terminal
    BY <1>5 DEF Terminal
  <1> QED
    BY <1>5, <1>6, <1>7, Joined DEF calls

\* A terminal event ends a batch.
LEMMA EndOfBatch ==
  ASSUME NEW q, Batch(q), NEW name \in Terminal, NEW r, r = q \o Plain(<<name>>)
  PROVE  /\ r \in Seq(TextEvent) /\ InOrder(r) /\ r # <<>>
         /\ r[Len(r)].event \in Terminal
  <1> DEFINE names == <<name>>
             end == Plain(names)
  <1>1. names \in [1..1 -> Events \ Unnumbered] /\ names[1] = name
    BY DEF Events, Unnumbered, Terminal
  <1>2. end \in Seq(TextEvent) /\ Len(end) = 1 /\ end[1].event = name
    <2> HIDE DEF names
    <2>1. /\ Plain(names) \in Seq(TextEvent) /\ Len(Plain(names)) = 1
          /\ \A k \in 1..1 : Plain(names)[k].event = names[k]
      BY <1>1, PlainType
    <2> QED
      BY <1>1, <2>1
  <1> HIDE DEF end
  <1>3. Follows(q, end)
    <2>1. \A k \in 1..Len(end) : k = 1
      BY <1>2
    <2> QED
      BY <1>2, <2>1 DEF Follows, Terminal
  <1>4. r \in Seq(TextEvent) /\ InOrder(r)
    BY <1>2, <1>3, Joined DEF end
  <1>5. Len(r) = Len(q) + 1 /\ Len(q) \in Nat /\ r[Len(q) + 1] = end[1]
    BY <1>2 DEF Batch, end
  <1> QED
    BY <1>2, <1>4, <1>5

-----------------------------------------------------------------------------
(***************************************************************************)
(* The steps of stream_responses keep the invariant.                       *)
(***************************************************************************)
LEMMA TypesOfPieces ==
  ASSUME TypeOK
  PROVE  /\ generated \in Seq(Chars)
         /\ \A piece \in Pieces : piece \in Seq(Chars) /\ piece # <<>>
         /\ pieces # <<>> => Head(pieces) \in Pieces
         /\ pendingText \in Seq(TextChars)
         /\ streamedText \in Seq(Chars)
  <1>1. ASSUME NEW piece \in Pieces PROVE piece \in Seq(Chars) /\ piece # <<>>
    <2>1. piece \in Seq({"a", "l", "c", "k", "m"}) /\ piece # <<>>
      BY StreamAssumption
    <2>2. {"a", "l", "c", "k", "m"} \subseteq Chars
      BY DEF Chars
    <2> QED
      BY <2>1, <2>2, SubsetSeq
  <1>2. <<>> \in Seq(TextChars) /\ <<"l">> \in Seq(TextChars)
    <2>1. "l" \in TextChars
      BY DEF TextChars, Chars
    <2> QED
      BY <2>1
  <1>3. /\ generated \in Seq(Chars) /\ streamedText \in Seq(Chars)
        /\ pieces \in Seq(Pieces) /\ pendingText \in {<<>>, <<"l">>}
    BY DEF TypeOK
  <1>4. pieces # <<>> => Head(pieces) \in Pieces
    BY <1>3
  <1> QED
    BY <1>1, <1>2, <1>3, <1>4

\* The text of what is emitted has no syntax of tools.
LEMMA EmitSyntax ==
  ASSUME StreamInvariant, NEW events \in Seq(TextEvent), NEW next \in Places,
         Emit(events, next), wire' = wire, toolsEnabled' = toolsEnabled
  PROVE  Syntax'
  <1>1. SUFFICES ASSUME toolsEnabled PROVE Syntax'
    BY DEF Syntax
  <1>2. \A k \in 1..Len(events) : NoMarker(events[k].text)
    <2>1. ASSUME NEW k \in 1..Len(events) PROVE events[k].text \in Seq(Chars \ {"m"})
      <3>1. events[k] \in TextEvent
        OBVIOUS
      <3> QED
        BY <1>1, <3>1 DEF TextEvent, TextChars
    <2> QED
      BY <2>1 DEF NoMarker
  <1>3. sequence \in Nat /\ then \in Places /\ Syntax
    BY DEF StreamInvariant, TypeOK, Places
  <1>4. events \in Seq(EventType)
    BY TextEventIsEvent, SubsetSeq
  <1>5. Len(outbox') = Len(events) /\ \A k \in 1..Len(events) : outbox'[k].text = events[k].text
    BY <1>3, <1>4, Emitted
  <1> QED
    BY <1>1, <1>2, <1>3, <1>5 DEF Syntax, NoMarker

\* What is left to show of a step that emits.
LEMMA EmitInvariant ==
  ASSUME StreamInvariant, cpc \in {"begin", "generate", "parse"},
         NEW events \in Seq(TextEvent), NEW next \in Places, Emit(events, next),
         UNCHANGED <<connVars, envVars, toolsEnabled, wpc, outcome, tokens, probes,
                     generated, callbackFailed>>,
         InOrder(events), next # "begin",
         next = "submit" => wpc = "none",
         next \in {"generate", "parse"} => wpc # "none",
         next = "parse" => outcome.kind = "value",
         \A k \in 1..Len(events) : events[k].event \in Terminal => next = "returned",
         events # <<>> /\ next = "returned" =>
           outcome.kind \in NotGivenUp /\ events[Len(events)].event \in Terminal,
         messageStarted' \in BOOLEAN, toolMarkerSeen' \in BOOLEAN,
         pieces' \in Seq(Pieces), pendingText' \in {<<>>, <<"l">>},
         streamedText' \in Seq(Chars),
         next \in {"submit", "generate", "parse"} =>
           (messageStarted' <=> Has(events, "part_added")) /\ ~Has(events, "text_done"),
         pendingText' # <<>> => messageStarted', ~toolsEnabled => messageStarted',
         Opened',
         events = <<>> /\ next = "returned" => peer # "open" \/ expired
  PROVE  StreamInvariant'
  <1>0. events \in Seq(EventType)
    BY TextEventIsEvent, SubsetSeq
  <1>1. /\ wire' \in Seq(Frames \X {1, 2}) /\ outbox' \in Seq(Frames) /\ sequence' \in Nat
        /\ then' \in Places /\ cpc' \in Places \cup {"send"} /\ At' = next
        /\ Control' /\ Exclusive' /\ FramedUnlessCut' /\ Numbering'
        /\ LifecycleInOrder' /\ InOrder(outbox)' /\ Ending'
        /\ \A name : All(name)' <=> Has(events, name)
    BY <1>0, EmitKeeps
  <1>2. TypeOK'
    BY <1>1 DEF StreamInvariant, TypeOK, Places, connVars, envVars
  <1>3. Message'
    BY <1>1 DEF Message
  <1>4. Syntax'
    BY EmitSyntax DEF connVars
  <1>5. Reason'
    <2>1. cpc' = "returned" => events = <<>> /\ next = "returned"
      BY <1>1 DEF Emit
    <2> QED
      BY <2>1 DEF StreamInvariant, Reason, envVars
  <1> QED
    BY <1>1, <1>2, <1>3, <1>4, <1>5 DEF StreamInvariant

\* Between batches nothing waits: what was said of all events is said of those
\* that were received.
LEMMA Between ==
  ASSUME StreamInvariant, cpc \in {"begin", "submit", "generate", "parse"}
  PROVE  /\ outbox = <<>> /\ At = cpc
         /\ \A name : All(name) <=> Sent(name)
         /\ cpc = "begin" => /\ messageStarted = ~toolsEnabled
                             /\ ~Sent("part_added") /\ ~Sent("text_done") /\ wpc = "none"
         /\ cpc \in {"submit", "generate", "parse"} =>
              (messageStarted <=> Sent("part_added")) /\ ~Sent("text_done")
         /\ cpc \in {"generate", "parse"} => wpc # "none"
         /\ cpc = "submit" => wpc = "none"
  <1>1. outbox = <<>> /\ At = cpc
    BY DEF StreamInvariant, Control, At
  <1>2. \A name : All(name) <=> Sent(name)
    BY <1>1 DEF All, Has, Earlier
  <1> QED
    BY <1>1, <1>2 DEF StreamInvariant, Message, Control

LEMMA BeginKeeps ==
  ASSUME StreamInvariant, Begin
  PROVE  StreamInvariant'
  <1> DEFINE first == Plain(<<"created", "in_progress">>)
             opening == IF toolsEnabled THEN <<>> ELSE MessageStart
             events == first \o opening
  <1>1. /\ cpc = "begin" /\ Emit(events, "submit")
        /\ UNCHANGED <<connVars, envVars, toolsEnabled, textVars, batchVars>>
    BY DEF Begin
  <1>2. /\ ~Sent("part_added") /\ ~Sent("text_done") /\ wpc = "none"
        /\ messageStarted = ~toolsEnabled
    BY <1>1, Between
  <1>3. Batch(first) /\ ~Has(first, "part_added") /\ ~Has(first, "text_done")
    BY <1>2, BeginBatch
  <1>4. /\ Batch(events) /\ ~Has(events, "text_done")
        /\ Has(events, "part_added") <=> ~toolsEnabled
    BY <1>3, OpeningBatch
  <1>5. Opened'
    BY <1>1 DEF StreamInvariant, Opened, textVars, batchVars
  <1>6. TypeOK /\ Message
    BY DEF StreamInvariant
  <1>7. /\ messageStarted' \in BOOLEAN /\ toolMarkerSeen' \in BOOLEAN
        /\ pieces' \in Seq(Pieces) /\ pendingText' \in {<<>>, <<"l">>}
        /\ streamedText' \in Seq(Chars)
        /\ pendingText' # <<>> => messageStarted'
        /\ ~toolsEnabled => messageStarted'
    BY <1>1, <1>6 DEF TypeOK, Message, textVars, batchVars
  <1> HIDE DEF events
  <1>8. UNCHANGED <<connVars, envVars, toolsEnabled, wpc, outcome, tokens, probes,
                    generated, callbackFailed, messageStarted>>
    BY <1>1 DEF textVars, batchVars
  <1> QED
    BY <1>1, <1>2, <1>4, <1>5, <1>7, <1>8, EmitInvariant DEF Batch, Places

LEMMA CallbackKeeps ==
  ASSUME StreamInvariant, Callback
  PROVE  StreamInvariant'
  <1>1. /\ TypeOK /\ Message /\ Opened
        /\ messageStarted \in BOOLEAN /\ toolMarkerSeen \in BOOLEAN /\ toolsEnabled \in BOOLEAN
    BY DEF StreamInvariant, TypeOK
  <1>2. PICK piece : piece = Head(pieces)
    OBVIOUS
  <1>3. PICK visible : visible = IF toolsEnabled THEN VisiblePart(piece) ELSE piece
    OBVIOUS
  <1>4. PICK drained : drained = Drained(pendingText \o visible, FALSE)
    OBVIOUS
  <1>5. /\ cpc = "generate" /\ pieces # <<>> /\ pieces' = Tail(pieces)
        /\ IF toolMarkerSeen \/ visible = <<>>
           THEN /\ Emit(<<>>, "generate")
                /\ UNCHANGED <<messageStarted, streamedText, pendingText>>
           ELSE /\ Emit(Opening \o Deltas(drained.deltas), "generate")
                /\ messageStarted' = TRUE
                /\ streamedText' = streamedText \o visible
                /\ pendingText' = drained.rest
        /\ toolMarkerSeen' = (toolMarkerSeen \/ (toolsEnabled /\ HasMarker(piece)))
        /\ UNCHANGED <<connVars, envVars, toolsEnabled, wpc, generated, tokens,
                       outcome, callbackFailed, probes>>
    BY <1>2, <1>3, <1>4 DEF Callback
  <1>6. piece \in Seq(Chars) /\ piece # <<>> /\ pendingText \in Seq(TextChars)
        /\ streamedText \in Seq(Chars) /\ pieces \in Seq(Pieces)
    BY <1>1, <1>2, <1>5, TypesOfPieces DEF TypeOK
  <1>7. /\ visible \in Seq(TextChars)
        /\ toolsEnabled /\ visible = <<>> => HasMarker(piece)
        /\ toolsEnabled /\ visible # <<>> => piece[1] # "m"
    BY <1>3, <1>6, BeforeMarkerType DEF VisiblePart, TextChars
  <1>8. drained \in [deltas : Seq(Seq(TextChars)), rest : {<<>>, <<"l">>}]
    <2>1. pendingText \o visible \in Seq(TextChars) /\ "r" \in TextChars
      BY <1>6, <1>7 DEF TextChars, Chars
    <2> QED
      BY <1>4, <2>1, DrainedType
  <1>9. pieces' \in Seq(Pieces) /\ toolMarkerSeen' \in BOOLEAN
    BY <1>1, <1>5, <1>6
  <1>10. /\ outbox = <<>> /\ (messageStarted <=> Sent("part_added")) /\ ~Sent("text_done")
         /\ wpc # "none"
    BY <1>5, Between
  <1>11. CASE toolMarkerSeen \/ visible = <<>>
    <2>1. Opened'
      <3>1. SUFFICES ASSUME toolsEnabled PROVE Opened'
        BY <1>5 DEF Opened
      <3>2. toolMarkerSeen'
        BY <1>5, <1>7, <1>11, <3>1
      <3>3. messageStarted' = messageStarted /\ generated' = generated
        BY <1>5, <1>11
      <3> QED
        BY <1>1, <1>5, <3>1, <3>2, <3>3 DEF Opened
    <2>2. Emit(<<>>, "generate") /\ Batch(<<>>) /\ \A name : Has(<<>>, name) <=> Sent(name)
      BY <1>5, <1>11, NothingYet
    <2>3. UNCHANGED <<messageStarted, streamedText, pendingText>>
      BY <1>5, <1>11
    <2>4. /\ pendingText' \in {<<>>, <<"l">>} /\ streamedText' \in Seq(Chars)
          /\ messageStarted' \in BOOLEAN
          /\ pendingText' # <<>> => messageStarted'
          /\ ~toolsEnabled => messageStarted'
      BY <1>1, <2>3 DEF TypeOK, Message
    <2>5. PICK events : events = <<>>
      OBVIOUS
    <2> QED
      BY <1>5, <1>9, <1>10, <2>1, <2>2, <2>3, <2>4, <2>5, EmitInvariant DEF Batch, Places
  <1>12. CASE ~(toolMarkerSeen \/ visible = <<>>)
    <2>1. PICK opening : opening = Opening
      OBVIOUS
    <2>2. PICK events : events = opening \o Deltas(drained.deltas)
      OBVIOUS
    <2>3. /\ Emit(events, "generate") /\ messageStarted' = TRUE
          /\ streamedText' = streamedText \o visible /\ pendingText' = drained.rest
      BY <1>5, <1>12, <2>1, <2>2
    <2>4. Batch(<<>>) /\ \A name : Has(<<>>, name) <=> Sent(name)
      BY NothingYet
    <2>5. opening = IF messageStarted THEN <<>> ELSE MessageStart
      BY <2>1 DEF Opening
    <2>6. /\ Batch(<<>> \o opening)
          /\ \A name : Has(<<>> \o opening, name) <=>
               Has(<<>>, name) \/ (~messageStarted /\ name \in {"item_added", "part_added"})
      BY <1>10, <2>4, <2>5, OpeningBatch
    <2>7. <<>> \o opening = opening
      BY <2>5, MessageStartType
    <2>8. Batch(opening) /\ Has(opening, "part_added") /\ ~Has(opening, "text_done")
      BY <1>10, <2>4, <2>6, <2>7
    <2>9. Batch(events) /\ Has(events, "part_added") /\ ~Has(events, "text_done")
      BY <1>8, <2>2, <2>8, DeltasBatch
    <2>10. Opened'
      <3>1. SUFFICES ASSUME toolsEnabled PROVE Opened'
        BY <1>5 DEF Opened
      <3>2. generated # <<>> /\ generated[1] # "m"
        BY <1>1, <1>2, <1>5, <1>7, <1>12, <3>1 DEF Opened
      <3> QED
        BY <1>5, <2>3, <3>2 DEF Opened
    <2>11. pendingText' \in {<<>>, <<"l">>} /\ streamedText' \in Seq(Chars)
      <3>1. visible \in Seq(Chars)
        BY <1>7, SubsetSeq DEF TextChars
      <3> QED
        BY <1>6, <1>8, <2>3, <3>1
    <2> QED
      BY <1>5, <1>9, <1>10, <2>3, <2>9, <2>10, <2>11, EmitInvariant DEF Batch, Places
  <1> QED
    BY <1>11, <1>12

LEMMA ResultKeeps ==
  ASSUME StreamInvariant, Result
  PROVE  StreamInvariant'
  <1>1. PICK drained : drained = Drained(pendingText, TRUE)
    OBVIOUS
  <1>2. PICK events : events = Deltas(drained.deltas)
    OBVIOUS
  <1>3. /\ cpc = "generate" /\ outcome.kind = "value" /\ Emit(events, "parse")
        /\ pendingText' = <<>>
        /\ UNCHANGED <<connVars, envVars, toolsEnabled, messageStarted, toolMarkerSeen,
                       streamedText, batchVars>>
    BY <1>1, <1>2 DEF Result
  <1>4. TypeOK /\ Message /\ Opened
    BY DEF StreamInvariant
  <1>5. drained.deltas \in Seq(Seq(TextChars))
    <2>1. pendingText \in Seq(TextChars) /\ "r" \in TextChars
      BY <1>4, TypesOfPieces DEF TextChars, Chars
    <2> QED
      BY <1>1, <2>1, DrainedType
  <1>6. pendingText = <<>> => drained.deltas = <<>>
    <2>1. ASSUME pendingText = <<>> PROVE drained = [deltas |-> <<>>, rest |-> <<>>]
      BY <1>1, <2>1, DrainedEmpty
    <2> QED
      BY <2>1
  <1>7. /\ (messageStarted <=> Sent("part_added")) /\ ~Sent("text_done") /\ wpc # "none"
    BY <1>3, Between
  <1>8. Batch(<<>>) /\ \A name : Has(<<>>, name) <=> Sent(name)
    BY NothingYet
  <1>9. /\ Batch(<<>> \o events)
        /\ \A name : name # "delta" => (Has(<<>> \o events, name) <=> Has(<<>>, name))
    BY <1>2, <1>4, <1>5, <1>6, <1>7, <1>8, DeltasBatch DEF Message
  <1>10. <<>> \o events = events
    BY <1>2, <1>5, DeltasType
  <1>11. Batch(events) /\ (messageStarted <=> Has(events, "part_added")) /\ ~Has(events, "text_done")
    BY <1>7, <1>8, <1>9, <1>10
  <1>12. Opened'
    BY <1>3, <1>4 DEF Opened, batchVars
  <1>13. /\ messageStarted' \in BOOLEAN /\ toolMarkerSeen' \in BOOLEAN
         /\ pieces' \in Seq(Pieces) /\ pendingText' = <<>>
         /\ streamedText' \in Seq(Chars) /\ (~toolsEnabled => messageStarted')
         /\ messageStarted' = messageStarted
         /\ UNCHANGED <<connVars, envVars, toolsEnabled, wpc, outcome, tokens, probes,
                        generated, callbackFailed>>
    BY <1>3, <1>4 DEF TypeOK, Message, batchVars
  <1> QED
    BY <1>3, <1>7, <1>11, <1>12, <1>13, EmitInvariant DEF Batch, Places

\* An error event ends the stream.
LEMMA ErrorKeeps ==
  ASSUME StreamInvariant, cpc \in {"generate", "parse"}, outcome.kind \in NotGivenUp, Error,
         UNCHANGED <<connVars, envVars, toolsEnabled, textVars, batchVars>>
  PROVE  StreamInvariant'
  <1>1. PICK events : events = Plain(<<"error">>)
    OBVIOUS
  <1>2. Batch(<<>>)
    BY NothingYet
  <1>3. events \in Seq(TextEvent)
    <2>1. PICK names : names = <<"error">>
      OBVIOUS
    <2>2. names \in [1..1 -> Events \ Unnumbered]
      BY <2>1 DEF Events, Unnumbered, Terminal
    <2> QED
      BY <1>1, <2>1, <2>2, PlainType
  <1>4. <<>> \o Plain(<<"error">>) = events
    BY <1>1, <1>3
  <1>5. InOrder(events) /\ events # <<>> /\ events[Len(events)].event \in Terminal
    BY <1>2, <1>4, EndOfBatch DEF Terminal
  <1>6. Emit(events, "returned")
    BY <1>1 DEF Error
  <1>7. TypeOK /\ Message /\ Opened
    BY DEF StreamInvariant
  <1>8. Opened'
    BY <1>7 DEF Opened, textVars, batchVars
  <1>9. /\ messageStarted' \in BOOLEAN /\ toolMarkerSeen' \in BOOLEAN
        /\ pieces' \in Seq(Pieces) /\ pendingText' \in {<<>>, <<"l">>}
        /\ streamedText' \in Seq(Chars) /\ (~toolsEnabled => messageStarted')
        /\ pendingText' # <<>> => messageStarted'
        /\ UNCHANGED <<connVars, envVars, toolsEnabled, wpc, outcome, tokens, probes,
                       generated, callbackFailed>>
    BY <1>7 DEF TypeOK, Message, textVars, batchVars
  <1> QED
    BY <1>3, <1>5, <1>6, <1>8, <1>9, EmitInvariant DEF Places

LEMMA FailedKeeps ==
  ASSUME StreamInvariant, Failed
  PROVE  StreamInvariant'
  <1>1. /\ cpc = "generate" /\ outcome.kind \in {"socket", "deadline", "error"}
        /\ UNCHANGED <<connVars, envVars, toolsEnabled, textVars, batchVars>>
        /\ IF outcome.kind = "socket" THEN Emit(<<>>, "returned") ELSE Error
    BY DEF Failed, SilentFailure
  <1>2. CASE outcome.kind # "socket"
    <2>1. outcome.kind \in NotGivenUp
      BY <1>1, <1>2 DEF NotGivenUp
    <2> QED
      BY <1>1, <1>2, <2>1, ErrorKeeps
  <1>3. CASE outcome.kind = "socket"
    <2>1. Batch(<<>>) /\ Emit(<<>>, "returned")
      BY <1>1, <1>3, NothingYet
    <2>2. TypeOK /\ Message /\ Opened /\ Reason
      BY DEF StreamInvariant
    <2>3. Opened'
      BY <1>1, <2>2 DEF Opened, textVars, batchVars
    <2>4. /\ messageStarted' \in BOOLEAN /\ toolMarkerSeen' \in BOOLEAN
          /\ pieces' \in Seq(Pieces) /\ pendingText' \in {<<>>, <<"l">>}
          /\ streamedText' \in Seq(Chars) /\ (~toolsEnabled => messageStarted')
          /\ pendingText' # <<>> => messageStarted'
          /\ UNCHANGED <<connVars, envVars, toolsEnabled, wpc, outcome, tokens, probes,
                         generated, callbackFailed>>
      BY <1>1, <2>2 DEF TypeOK, Message, textVars, batchVars
    <2>5. peer # "open" \/ expired
      BY <1>3, <2>2 DEF Reason
    <2>6. PICK events : events = <<>>
      OBVIOUS
    <2> QED
      BY <1>1, <2>1, <2>3, <2>4, <2>5, <2>6, EmitInvariant DEF Batch, Places
  <1> QED
    BY <1>2, <1>3

LEMMA ParseThrowsKeeps ==
  ASSUME StreamInvariant, ParseThrows
  PROVE  StreamInvariant'
  <1>1. /\ cpc = "parse" /\ Error
        /\ UNCHANGED <<connVars, envVars, toolsEnabled, textVars, batchVars>>
    BY DEF ParseThrows
  <1>2. outcome.kind \in NotGivenUp
    BY <1>1 DEF StreamInvariant, Control, At, NotGivenUp
  <1> QED
    BY <1>1, <1>2, ErrorKeeps

\* The batch that ends a successful response.
LastEvents(text, texts, n, name) ==
    (IF text # <<>> \/ n = 0
     THEN Opening \o Deltas(texts) \o MessageDone(text) ELSE <<>>)
       \o FunctionCalls(n) \o Plain(<<name>>)

LEMMA LastBatch ==
  ASSUME StreamInvariant, cpc = "parse",
         NEW text \in Seq(TextChars), NEW texts \in Seq(Seq(TextChars)),
         NEW n \in Nat, NEW name \in Terminal, NEW events,
         events = LastEvents(text, texts, n, name),
         messageStarted => text # <<>> \/ n = 0
  PROVE  /\ events \in Seq(TextEvent) /\ InOrder(events) /\ events # <<>>
         /\ events[Len(events)].event \in Terminal
  <1>1. /\ (messageStarted <=> Sent("part_added")) /\ ~Sent("text_done")
    BY Between
  <1>2. Batch(<<>>) /\ \A e : Has(<<>>, e) <=> Sent(e)
    BY NothingYet
  <1>3. PICK m : m = IF text # <<>> \/ n = 0
                     THEN Opening \o Deltas(texts) \o MessageDone(text) ELSE <<>>
    OBVIOUS
  <1>4. Batch(m) /\ (n # 0 => (Has(m, "part_added") => Has(m, "item_done")))
    <2>1. CASE text # <<>> \/ n = 0
      <3>1. PICK opening : opening = Opening
        OBVIOUS
      <3>2. opening = IF messageStarted THEN <<>> ELSE MessageStart
        BY <3>1 DEF Opening
      <3>3. /\ Batch(<<>> \o opening)
            /\ \A e : Has(<<>> \o opening, e) <=>
                 Has(<<>>, e) \/ (~messageStarted /\ e \in {"item_added", "part_added"})
        BY <1>1, <1>2, <3>2, OpeningBatch
      <3>4. <<>> \o opening = opening
        BY <3>2, MessageStartType
      <3>5. Batch(opening) /\ Has(opening, "part_added") /\ ~Has(opening, "text_done")
        BY <1>1, <1>2, <3>3, <3>4
      <3>6. PICK q : q = opening \o Deltas(texts)
        OBVIOUS
      <3>7. Batch(q) /\ Has(q, "part_added") /\ ~Has(q, "text_done")
        BY <3>5, <3>6, DeltasBatch
      <3>8. Batch(q \o MessageDone(text)) /\ Has(q \o MessageDone(text), "item_done")
        BY <3>7, DoneBatch
      <3>9. m = q \o MessageDone(text)
        BY <1>3, <2>1, <3>1, <3>6
      <3> QED
        BY <3>8, <3>9
    <2>2. CASE ~(text # <<>> \/ n = 0)
      <3>1. m = <<>> /\ ~messageStarted
        BY <1>3, <2>2
      <3> QED
        BY <1>1, <1>2, <3>1
    <2> QED
      BY <2>1, <2>2
  <1>5. PICK q : q = m \o FunctionCalls(n)
    OBVIOUS
  <1>6. Batch(q)
    BY <1>4, <1>5, CallsBatch
  <1>7. events = q \o Plain(<<name>>)
    BY <1>3, <1>5 DEF LastEvents
  <1> QED
    BY <1>6, <1>7, EndOfBatch

LEMMA FinishKeeps ==
  ASSUME StreamInvariant, Finish
  PROVE  StreamInvariant'
  <1>1. PICK text : text = IF toolsEnabled THEN ParsedText(Sanitized(generated))
                           ELSE Sanitized(generated)
    OBVIOUS
  <1>2. PICK texts : texts = IF toolsEnabled THEN Unstreamed(text) ELSE <<>>
    OBVIOUS
  <1>3. PICK name : name = IF outcome.reason = "length" THEN "incomplete" ELSE "completed"
    OBVIOUS
  <1>4. PICK calls : calls = IF toolsEnabled /\ HasMarker(generated) THEN 1..MaxCalls ELSE {0}
    OBVIOUS
  <1>5. /\ cpc = "parse"
        /\ UNCHANGED <<connVars, envVars, toolsEnabled, textVars, batchVars>>
        /\ IF text # <<>> /\ toolsEnabled /\ ~IsPrefix(streamedText, text)
           THEN Error
           ELSE \E n \in calls :
                  Emit((IF text # <<>> \/ n = 0
                        THEN Opening \o (IF toolsEnabled THEN Deltas(Unstreamed(text)) ELSE <<>>)
                               \o MessageDone(text)
                        ELSE <<>>)
                         \o FunctionCalls(n) \o Plain(<<name>>), "returned")
    BY <1>1, <1>3, <1>4 DEF Finish
  <1>6. outcome.kind \in NotGivenUp
    BY <1>5 DEF StreamInvariant, Control, At, NotGivenUp
  <1>7. CASE text # <<>> /\ toolsEnabled /\ ~IsPrefix(streamedText, text)
    BY <1>5, <1>6, <1>7, ErrorKeeps
  <1>8. CASE ~(text # <<>> /\ toolsEnabled /\ ~IsPrefix(streamedText, text))
    <2>1. TypeOK /\ Message /\ Opened
      BY DEF StreamInvariant
    <2>2. /\ Sanitized(generated) \in Seq(Chars)
          /\ Len(Sanitized(generated)) = Len(generated)
          /\ generated \in Seq(Chars) /\ streamedText \in Seq(Chars)
          /\ generated # <<>> /\ generated[1] # "m" =>
               Sanitized(generated) # <<>> /\ Sanitized(generated)[1] # "m"
      <3>1. generated \in Seq(Chars) /\ streamedText \in Seq(Chars)
        BY <2>1 DEF TypeOK
      <3>2. /\ Sanitized(generated) \in Seq(Chars)
            /\ Len(Sanitized(generated)) = Len(generated)
            /\ \A i \in 1..Len(generated) : Sanitized(generated)[i] \in {generated[i], "r"}
        BY <3>1, SanitizedType
      <3> HIDE DEF Sanitized
      <3>3. ASSUME generated # <<>>, generated[1] # "m"
            PROVE  Sanitized(generated) # <<>> /\ Sanitized(generated)[1] # "m"
        <4>1. 1 \in 1..Len(generated) /\ Len(Sanitized(generated)) # 0
          BY <3>1, <3>2, <3>3
        <4> QED
          BY <3>2, <3>3, <4>1
      <3> QED
        BY <3>1, <3>2, <3>3
    <2>3. text \in Seq(TextChars)
      BY <1>1, <2>2, ParsedTextType DEF TextChars
    <2>4. texts \in Seq(Seq(TextChars))
      <3>1. CASE ~toolsEnabled
        BY <1>2, <3>1
      <3>2. CASE toolsEnabled /\ text # <<>>
        BY <1>2, <1>8, <2>2, <2>3, <3>2, UnstreamedType
      <3>3. CASE toolsEnabled /\ text = <<>>
        <4>1. Len(streamedText) \in Nat /\ Len(text) = 0 /\ text = <<>>
          BY <2>2, <3>3
        <4>2. SubSeq(text, Len(streamedText) + 1, Len(text)) = <<>>
          BY <4>1
        <4>3. <<>> \in Seq(TextChars)
          OBVIOUS
        <4> QED
          BY <1>2, <3>3, <4>2, <4>3 DEF Unstreamed
      <3> QED
        BY <3>1, <3>2, <3>3
    <2>5. PICK n \in calls :
            Emit((IF text # <<>> \/ n = 0
                  THEN Opening \o (IF toolsEnabled THEN Deltas(Unstreamed(text)) ELSE <<>>)
                         \o MessageDone(text)
                  ELSE <<>>)
                   \o FunctionCalls(n) \o Plain(<<name>>), "returned")
      BY <1>5, <1>8
    <2>6. n \in Nat /\ (n # 0 => toolsEnabled)
      BY <1>4, <2>5, StreamAssumption
    <2>7. (IF toolsEnabled THEN Deltas(Unstreamed(text)) ELSE <<>>) = Deltas(texts)
      BY <1>2 DEF Deltas
    <2>8. PICK events : events = LastEvents(text, texts, n, name)
      OBVIOUS
    <2>9. Emit(events, "returned")
      BY <2>5, <2>7, <2>8 DEF LastEvents
    <2>10. messageStarted => text # <<>> \/ n = 0
      BY <1>1, <2>1, <2>2, <2>6, ParsedTextType DEF Opened
    <2>11. /\ events \in Seq(TextEvent) /\ InOrder(events) /\ events # <<>>
           /\ events[Len(events)].event \in Terminal
      <3>1. name \in Terminal
        BY <1>3 DEF Terminal
      <3> QED
        BY <1>5, <2>3, <2>4, <2>6, <2>8, <2>10, <3>1, LastBatch
    <2>12. Opened'
      BY <1>5, <2>1 DEF Opened, textVars, batchVars
    <2>13. /\ messageStarted' \in BOOLEAN /\ toolMarkerSeen' \in BOOLEAN
           /\ pieces' \in Seq(Pieces) /\ pendingText' \in {<<>>, <<"l">>}
           /\ streamedText' \in Seq(Chars) /\ (~toolsEnabled => messageStarted')
           /\ pendingText' # <<>> => messageStarted'
           /\ UNCHANGED <<connVars, envVars, toolsEnabled, wpc, outcome, tokens, probes,
                          generated, callbackFailed>>
      BY <1>5, <2>1 DEF TypeOK, Message, textVars, batchVars
    <2> QED
      BY <1>5, <1>6, <2>9, <2>11, <2>12, <2>13, EmitInvariant DEF Places
  <1> QED
    BY <1>7, <1>8

\* Nothing is sent and the queue does not change.
LEMMA QueueKept ==
  ASSUME StreamInvariant, UNCHANGED <<wire, outbox, sequence, toolsEnabled>>,
         outbox # <<>> => then' = then
  PROVE  /\ LifecycleInOrder' /\ InOrder(outbox)' /\ Numbering' /\ Syntax'
         /\ \A name : Sent(name)' = Sent(name)
         /\ \A name : All(name)' <=> All(name)
  <1>1. /\ LifecycleInOrder /\ InOrder(outbox) /\ Numbering /\ Syntax
    BY DEF StreamInvariant
  <1>2. /\ Received' = Received /\ Waiting' = Waiting
        /\ \A i : Name(i)' = Name(i) /\ NumberedBefore(i)' = NumberedBefore(i)
        /\ \A name : Sent(name)' = Sent(name)
        /\ LifecycleInOrder'
    BY <1>1, WireKept
  <1>3. \A k : \A name : Earlier(outbox, k, name)' <=> Earlier(outbox, k, name)
    BY <1>2 DEF Earlier
  <1>4. InOrder(outbox)'
    BY <1>1, <1>3 DEF InOrder
  <1>5. \A name : All(name)' <=> All(name)
    BY <1>3 DEF All, Has
  <1>6. Numbering'
    BY <1>1, <1>2 DEF Numbering
  <1>7. Syntax'
    BY <1>1 DEF Syntax, NoMarker
  <1> QED
    BY <1>2, <1>4, <1>5, <1>6, <1>7

LEMMA SubmitKeeps ==
  ASSUME StreamInvariant, Submit
  PROVE  StreamInvariant'
  <1>1. /\ cpc = "submit" /\ cpc' = "generate" /\ then' = "generate" /\ wpc' = "check"
        /\ UNCHANGED <<connVars, envVars, toolsEnabled, outbox, sequence, textVars,
                       pieces, generated, tokens, outcome, callbackFailed, probes>>
    BY DEF Submit
  <1>2. outbox = <<>> /\ At = "submit" /\ wpc = "none"
    BY <1>1, Between
  <1>3. /\ LifecycleInOrder' /\ InOrder(outbox)' /\ Numbering' /\ Syntax'
        /\ \A name : Sent(name)' = Sent(name)
        /\ \A name : All(name)' <=> All(name)
    BY <1>1, <1>2, QueueKept DEF connVars
  <1>4. /\ TypeOK /\ Control /\ Exclusive /\ FramedUnlessCut /\ Ending /\ Message
        /\ Opened /\ Reason
    BY DEF StreamInvariant
  <1>5. At' = "generate"
    BY <1>1 DEF At
  <1>6. TypeOK'
    BY <1>1, <1>4 DEF TypeOK, connVars, envVars, textVars
  <1>7. Control'
    BY <1>1, <1>2, <1>4, <1>5 DEF Control, Decided
  <1>8. Exclusive'
    BY <1>1, <1>2, <1>4 DEF Exclusive, connVars
  <1>9. FramedUnlessCut'
    BY <1>1, <1>2, <1>4 DEF FramedUnlessCut, Framed, GaveUp, connVars
  <1>10. Ending'
    BY <1>1, <1>2, <1>3, <1>4 DEF Ending
  <1>11. Message'
    BY <1>1, <1>2, <1>3, <1>4, <1>5 DEF Message, textVars
  <1>12. Opened' /\ Reason'
    BY <1>1, <1>3, <1>4 DEF Opened, Reason, textVars, envVars
  <1> QED
    BY <1>3, <1>6, <1>7, <1>8, <1>9, <1>10, <1>11, <1>12 DEF StreamInvariant

-----------------------------------------------------------------------------
(***************************************************************************)
(* So do the halves of a frame, and a frame that fails.                    *)
(***************************************************************************)
LEMMA FramesOfQueue ==
  ASSUME StreamInvariant, cpc \in {"send", "tail"}
  PROVE  /\ outbox # <<>> /\ outbox \in Seq(Frames) /\ Len(outbox) \in Nat \ {0}
         /\ Head(outbox) \in Frames /\ Head(outbox) = outbox[1]
         /\ wire \in Seq(Frames \X {1, 2}) /\ Len(wire) \in Nat /\ then \in Places
         /\ At = then
         /\ \A name \in Terminal : ~Sent(name)
  <1>1. outbox # <<>> /\ outbox \in Seq(Frames) /\ wire \in Seq(Frames \X {1, 2})
        /\ then \in Places
    BY DEF StreamInvariant, Control, TypeOK, Places
  <1>2. \A name \in Terminal : ~Sent(name)
    BY DEF StreamInvariant, Ending
  <1>3. At = then
    BY DEF At
  <1> QED
    BY <1>1, <1>2, <1>3

LEMMA Parity ==
  ASSUME NEW n \in Nat
  PROVE  /\ n % 2 = 0 => (n + 1) % 2 = 1
         /\ n % 2 = 1 => (n + 1) % 2 = 0 /\ n \in 1..n
         /\ \A i \in 1..(n + 1) : i # n + 1 => i \in 1..n /\ (i % 2 = 0 => i - 1 \in 1..n)
  OBVIOUS

LEMMA SendHeadKeeps ==
  ASSUME StreamInvariant, SendHead
  PROVE  StreamInvariant'
  <1>1. /\ cpc = "send" /\ sendMutex = "free" /\ sendMutex' = "client"
        /\ wire' = Append(wire, <<Head(outbox), 1>>) /\ cpc' = "tail"
        /\ UNCHANGED <<envVars, toolsEnabled, outbox, then, sequence, textVars, batchVars>>
    BY DEF SendHead, MutexFree
  <1>2. /\ outbox # <<>> /\ Head(outbox) \in Frames /\ wire \in Seq(Frames \X {1, 2})
        /\ At = then /\ \A name \in Terminal : ~Sent(name)
    BY <1>1, FramesOfQueue
  <1>3. /\ TypeOK /\ Control /\ Exclusive /\ FramedUnlessCut /\ Numbering
        /\ LifecycleInOrder /\ InOrder(outbox) /\ Ending /\ Message /\ Opened
        /\ Syntax /\ Reason
    BY DEF StreamInvariant
  <1>4. PICK f \in Frames : f = Head(outbox)
    BY <1>2
  <1>5. /\ wire' \in Seq(Frames \X {1, 2}) /\ Len(wire)' = Len(wire) + 1
        /\ \A i \in 1..Len(wire) : wire'[i] = wire[i]
        /\ wire'[Len(wire) + 1] = <<f, 1>>
        /\ Received' = Received /\ Waiting' = Waiting
        /\ \A i \in Received : Name(i)' = Name(i) /\ NumberedBefore(i)' = NumberedBefore(i)
        /\ \A name : Sent(name)' = Sent(name)
        /\ LifecycleInOrder'
    BY <1>1, <1>2, <1>3, <1>4, HeadOnWire
  <1>6. Len(wire) \in Nat
    BY <1>2
  <1>7. At' = then /\ At' = At
    BY <1>1, <1>2 DEF At
  <1>8. \A k : \A name : Earlier(outbox, k, name)' <=> Earlier(outbox, k, name)
    BY <1>1, <1>5 DEF Earlier
  <1>9. TypeOK'
    BY <1>1, <1>3, <1>5 DEF TypeOK, envVars, textVars, batchVars
  <1>10. Control'
    BY <1>1, <1>2, <1>3, <1>7 DEF Control, Decided, batchVars
  <1>11. Exclusive'
    BY <1>1, <1>3 DEF Exclusive, batchVars
  <1>12. FramedUnlessCut'
    <2>1. SUFFICES ASSUME outcome.kind # "socket" PROVE Framed'
      BY <1>1 DEF FramedUnlessCut, batchVars
    <2>2. Framed
      BY <1>1, <1>3, <2>1 DEF FramedUnlessCut, GaveUp
    <2>3. Len(wire) % 2 = 0 /\ (Len(wire) + 1) % 2 = 1
      BY <1>1, <1>6, <2>2 DEF Framed
    <2>4. ASSUME NEW i \in 1..(Len(wire) + 1)
          PROVE  /\ wire'[i][2] = IF i % 2 = 1 THEN 1 ELSE 2
                 /\ i % 2 = 0 => wire'[i][1] = wire'[i - 1][1]
      <3>1. CASE i = Len(wire) + 1
        BY <1>5, <2>3, <3>1
      <3>2. CASE i # Len(wire) + 1
        <4>1. i \in 1..Len(wire) /\ (i % 2 = 0 => i - 1 \in 1..Len(wire))
          BY <1>6, <3>2
        <4> QED
          BY <1>5, <2>2, <4>1 DEF Framed
      <3> QED
        BY <3>1, <3>2
    <2> QED
      BY SMTT(60), <1>1, <1>4, <1>5, <2>3, <2>4 DEF Framed
  <1>13. Numbering'
    <2>1. \A i \in Received : i \in 1..Len(wire)
      BY DEF Received
    <2>2. \A i \in Received' :
            Name(i)' \notin Unnumbered => wire'[i][1].seq = Cardinality(NumberedBefore(i)')
      BY <1>3, <1>5, <2>1 DEF Numbering
    <2> QED
      BY <1>1, <1>3, <1>5, <2>2 DEF Numbering
  <1>14. InOrder(outbox)'
    BY <1>1, <1>3, <1>8 DEF InOrder
  <1>15. Ending'
    BY <1>1, <1>2, <1>3, <1>5 DEF Ending
  <1>16. Message'
    BY <1>1, <1>3, <1>7, <1>8 DEF Message, All, Has, textVars
  <1>17. Opened'
    BY <1>1, <1>3 DEF Opened, textVars, batchVars
  <1>18. Syntax'
    <2>1. ASSUME toolsEnabled, NEW i \in 1..(Len(wire) + 1) PROVE NoMarker(wire'[i][1].text)
      <3>1. CASE i = Len(wire) + 1
        <4>1. 1 \in 1..Len(outbox) /\ f = outbox[1]
          BY <1>1, <1>4, FramesOfQueue
        <4> QED
          BY <1>3, <1>5, <2>1, <3>1, <4>1 DEF Syntax
      <3>2. CASE i # Len(wire) + 1
        <4>1. i \in 1..Len(wire)
          BY <1>6, <3>2
        <4> QED
          BY <1>3, <1>5, <2>1, <4>1 DEF Syntax
      <3> QED
        BY <3>1, <3>2
    <2> QED
      BY <1>1, <1>3, <1>5, <2>1 DEF Syntax, NoMarker
  <1>19. Reason'
    BY <1>1, <1>3, <1>5 DEF Reason, envVars, batchVars
  <1> QED
    BY <1>5, <1>9, <1>10, <1>11, <1>12, <1>13, <1>14, <1>15, <1>16, <1>17, <1>18, <1>19
       DEF StreamInvariant

LEMMA SendFailsKeeps ==
  ASSUME StreamInvariant, SendFails
  PROVE  StreamInvariant'
  <1>1. /\ cpc \in {"send", "tail"} /\ (cpc = "send" => sendMutex = "free")
        /\ ~Writable /\ sendMutex' = "free" /\ cpc' = "returned"
        /\ callbackFailed' = (then = "generate" /\ wpc # "none")
        /\ UNCHANGED <<wire, envVars, toolsEnabled, outbox, then, sequence, textVars,
                       wpc, pieces, generated, tokens, outcome, probes>>
    BY DEF SendFails, MutexFree
  <1>2. outbox # <<>> /\ \A name \in Terminal : ~Sent(name)
    BY <1>1, FramesOfQueue
  <1>3. /\ TypeOK /\ Control /\ Exclusive /\ Ending /\ Message /\ Opened /\ Reason
    BY DEF StreamInvariant
  <1>4. /\ LifecycleInOrder' /\ InOrder(outbox)' /\ Numbering' /\ Syntax'
        /\ \A name : Sent(name)' = Sent(name)
    BY <1>1, QueueKept
  <1>5. At' = "returned"
    BY <1>1 DEF At
  <1>6. callbackFailed' \in BOOLEAN
    BY <1>1
  <1>7. TypeOK'
    BY <1>1, <1>3, <1>6 DEF TypeOK, envVars, textVars
  <1>8. Control'
    BY <1>1, <1>3, <1>5 DEF Control, Decided
  <1>9. Exclusive'
    BY <1>1, <1>3 DEF Exclusive
  <1>10. FramedUnlessCut'
    BY <1>1, <1>2 DEF FramedUnlessCut, GaveUp
  <1>11. Ending'
    BY <1>1, <1>2, <1>3, <1>4 DEF Ending
  <1>12. Message' /\ Opened'
    BY <1>1, <1>3, <1>5 DEF Message, Opened, textVars
  <1>13. Reason'
    <2>1. peer # "open" \/ expired
      BY <1>1 DEF Writable
    <2> QED
      BY <1>1, <2>1 DEF Reason, envVars
  <1> QED
    BY <1>4, <1>7, <1>8, <1>9, <1>10, <1>11, <1>12, <1>13 DEF StreamInvariant

LEMMA SendTailKeeps ==
  ASSUME StreamInvariant, SendTail
  PROVE  StreamInvariant'
  <1>1. /\ cpc = "tail" /\ sendMutex' = "free"
        /\ wire' = Append(wire, <<Head(outbox), 2>>) /\ outbox' = Tail(outbox)
        /\ cpc' = IF Len(outbox) = 1 THEN then ELSE "send"
        /\ UNCHANGED <<envVars, toolsEnabled, then, sequence, textVars, batchVars>>
    BY DEF SendTail
  <1>2. /\ outbox # <<>> /\ outbox \in Seq(Frames) /\ Len(outbox) \in Nat \ {0}
        /\ Head(outbox) \in Frames /\ Head(outbox) = outbox[1]
        /\ wire \in Seq(Frames \X {1, 2}) /\ Len(wire) \in Nat /\ then \in Places
        /\ At = then
        /\ \A name \in Terminal : ~Sent(name)
    BY <1>1, FramesOfQueue
  <1>3. /\ TypeOK /\ Control /\ Exclusive /\ FramedUnlessCut /\ Numbering
        /\ LifecycleInOrder /\ InOrder(outbox) /\ Ending /\ Message /\ Opened
        /\ Syntax /\ Reason
    BY DEF StreamInvariant
  <1>4. PICK f \in Frames : f = outbox[1] /\ f = Head(outbox)
    BY <1>2
  <1>5. /\ wire' \in Seq(Frames \X {1, 2}) /\ Len(wire)' = Len(wire) + 1
        /\ \A i \in 1..Len(wire) : wire'[i] = wire[i]
        /\ wire'[Len(wire) + 1] = <<f, 2>>
        /\ Received \subseteq 1..Len(wire)
        /\ Received' = Received \cup {Len(wire) + 1}
        /\ Waiting' = Waiting \cup {i \in {Len(wire) + 1} : f.event \notin Unnumbered}
        /\ \A i \in Received : /\ Name(i)' = Name(i)
                               /\ NumberedBefore(i)' = NumberedBefore(i)
                               /\ \A name : Before(i, name)' = Before(i, name)
        /\ \A i : i = Len(wire) + 1 =>
             /\ Name(i)' = f.event /\ NumberedBefore(i)' = Waiting
             /\ \A name : Before(i, name)' = Sent(name)
        /\ \A name : Sent(name)' <=> Sent(name) \/ name = f.event
    BY <1>1, <1>2, <1>4, TailOnWire
  <1>6. /\ outbox' \in Seq(Frames) /\ Len(outbox') = Len(outbox) - 1
        /\ \A k \in 1..(Len(outbox) - 1) : outbox'[k] = outbox[k + 1]
        /\ Len(outbox) = 1 <=> outbox' = <<>>
    <2>1. /\ outbox' \in Seq(Frames) /\ Len(outbox') = Len(outbox) - 1
          /\ \A k \in 1..(Len(outbox) - 1) : outbox'[k] = outbox[k + 1]
      BY <1>1, <1>2
    <2>2. Len(outbox') = 0 <=> outbox' = <<>>
      BY <2>1
    <2> QED
      BY <1>2, <2>1, <2>2
  <1>7. At' = At /\ cpc' \in Places \cup {"send"}
    BY <1>1, <1>2 DEF At, Places
  <1>8. ASSUME NEW k \in 1..Len(outbox), NEW name
        PROVE  Earlier(outbox, k, name)' <=> Earlier(outbox, k + 1, name)
    <2>1. ASSUME Earlier(outbox, k, name)' PROVE Earlier(outbox, k + 1, name)
      <3>1. CASE Sent(name)
        BY <3>1 DEF Earlier
      <3>2. CASE name = f.event
        <4>1. 1 \in 1..((k + 1) - 1) /\ outbox[1].event = name
          BY <1>4, <3>2
        <4> QED
          BY <4>1 DEF Earlier
      <3>3. CASE \E j \in 1..(k - 1) : outbox'[j].event = name
        <4>1. PICK j \in 1..(k - 1) : outbox'[j].event = name
          BY <3>3
        <4>2. j \in 1..(Len(outbox) - 1) /\ j + 1 \in 1..((k + 1) - 1)
          BY <1>2
        <4>3. outbox[j + 1].event = name
          BY <1>6, <4>1, <4>2
        <4> QED
          BY <4>2, <4>3 DEF Earlier
      <3> QED
        BY <1>5, <2>1, <3>1, <3>2, <3>3 DEF Earlier
    <2>2. ASSUME Earlier(outbox, k + 1, name) PROVE Earlier(outbox, k, name)'
      <3>1. CASE Sent(name)
        BY <1>5, <3>1 DEF Earlier
      <3>2. CASE \E j \in 1..((k + 1) - 1) : outbox[j].event = name
        <4>1. PICK j \in 1..((k + 1) - 1) : outbox[j].event = name
          BY <3>2
        <4>2. CASE j = 1
          BY <1>4, <1>5, <4>1, <4>2 DEF Earlier
        <4>3. CASE j # 1
          <5>1. j - 1 \in 1..(Len(outbox) - 1) /\ j - 1 \in 1..(k - 1) /\ (j - 1) + 1 = j
            BY <1>2, <4>3
          <5>2. outbox'[j - 1].event = name
            BY <1>6, <4>1, <5>1
          <5> QED
            BY <5>1, <5>2 DEF Earlier
        <4> QED
          BY <4>2, <4>3
      <3> QED
        BY <2>2, <3>1, <3>2 DEF Earlier
    <2> QED
      BY <2>1, <2>2
  <1>9. \A name : All(name)' <=> All(name)
    <2>1. PICK n \in 1..Len(outbox) : n = Len(outbox)
      BY <1>2
    <2>2. \A name : Earlier(outbox, n, name)' <=> Earlier(outbox, n + 1, name)
      BY <1>8
    <2>3. Len(outbox') + 1 = n
      BY <1>6, <2>1
    <2>4. \A name : All(name)' <=> Earlier(outbox, n, name)'
      BY <2>3 DEF All, Has, Earlier
    <2> QED
      BY <2>1, <2>2, <2>4 DEF All, Has
  <1>10. TypeOK'
    BY <1>1, <1>3, <1>5, <1>6, <1>7 DEF TypeOK, Places, envVars, textVars, batchVars
  <1>11. Control'
    BY <1>1, <1>2, <1>3, <1>6, <1>7 DEF Control, Decided, Places, batchVars
  <1>12. Exclusive'
    BY <1>1, <1>3, <1>7 DEF Exclusive, Places, batchVars
  <1>13. FramedUnlessCut'
    <2>1. SUFFICES ASSUME outcome.kind # "socket" PROVE Framed'
      BY <1>1 DEF FramedUnlessCut, batchVars
    <2>2. Framed /\ sendMutex = "client"
      BY <1>1, <1>3, <2>1 DEF FramedUnlessCut, GaveUp, Exclusive
    <2>3. Len(wire) % 2 = 1 /\ (Len(wire) + 1) % 2 = 0 /\ wire[Len(wire)][1] = f
          /\ Len(wire) \in 1..Len(wire)
      <3>1. Len(wire) % 2 = 1 /\ wire[Len(wire)][1] = f
        BY <1>4, <2>2 DEF Framed
      <3>2. Len(wire) \in Nat
        BY <1>2
      <3> QED
        BY <3>1, <3>2, Parity
    <2>4. ASSUME NEW i \in 1..(Len(wire) + 1)
          PROVE  /\ wire'[i][2] = IF i % 2 = 1 THEN 1 ELSE 2
                 /\ i % 2 = 0 => wire'[i][1] = wire'[i - 1][1]
      <3>1. CASE i = Len(wire) + 1
        <4>1. i - 1 = Len(wire) /\ wire'[i - 1] = wire[Len(wire)]
          BY <1>2, <1>5, <2>3, <3>1
        <4> QED
          BY <1>5, <2>3, <3>1, <4>1
      <3>2. CASE i # Len(wire) + 1
        <4>1. i \in 1..Len(wire) /\ (i % 2 = 0 => i - 1 \in 1..Len(wire))
          <5>1. Len(wire) \in Nat
            BY <1>2
          <5> QED
            BY <3>2, <5>1, Parity
        <4> QED
          BY <1>5, <2>2, <4>1 DEF Framed
      <3> QED
        BY <3>1, <3>2
    <2>5. Len(wire)' = Len(wire) + 1 /\ sendMutex' = "free"
      BY <1>1, <1>5
    <2>6. ~(Len(wire)' % 2 = 1)
      BY <2>3, <2>5
    <2> QED
      BY <2>4, <2>5, <2>6 DEF Framed
  <1>14. LifecycleInOrder'
    <2>1. ASSUME NEW i \in Received
          PROVE  /\ Name(i)' \in {"delta", "text_done"} =>
                      Before(i, "part_added")' /\ ~Before(i, "text_done")'
                 /\ Name(i)' = "part_added" => ~Before(i, "part_added")'
                 /\ Name(i)' = "call_added" =>
                      (Before(i, "part_added")' => Before(i, "item_done")')
                 /\ Name(i)' \notin Terminal
      <3>1. Name(i) \notin Terminal
        BY <1>2 DEF Sent
      <3> QED
        BY <1>3, <1>5, <3>1 DEF LifecycleInOrder
    <2>2. ASSUME NEW i, i = Len(wire) + 1
          PROVE  /\ Name(i)' \in {"delta", "text_done"} =>
                      Before(i, "part_added")' /\ ~Before(i, "text_done")'
                 /\ Name(i)' = "part_added" => ~Before(i, "part_added")'
                 /\ Name(i)' = "call_added" =>
                      (Before(i, "part_added")' => Before(i, "item_done")')
      <3>1. 1 \in 1..Len(outbox)
        BY <1>2
      <3>2. \A name : Earlier(outbox, 1, name) <=> Sent(name)
        BY DEF Earlier
      <3> QED
        BY <1>3, <1>4, <1>5, <2>2, <3>1, <3>2 DEF InOrder
    <2>3. \A j \in Received' : j <= Len(wire) + 1
      BY <1>2, <1>5
    <2> QED
      BY <1>5, <2>1, <2>2, <2>3 DEF LifecycleInOrder
  <1>15. InOrder(outbox)'
    <2>1. ASSUME NEW k \in 1..(Len(outbox) - 1)
          PROVE  /\ outbox'[k].event \in {"delta", "text_done"} =>
                      Earlier(outbox, k, "part_added")' /\ ~Earlier(outbox, k, "text_done")'
                 /\ outbox'[k].event = "part_added" => ~Earlier(outbox, k, "part_added")'
                 /\ outbox'[k].event = "call_added" =>
                      (Earlier(outbox, k, "part_added")' => Earlier(outbox, k, "item_done")')
                 /\ outbox'[k].event \in Terminal => k = Len(outbox) - 1
      <3>1. k \in 1..Len(outbox) /\ k + 1 \in 1..Len(outbox)
        BY <1>2
      <3>2. k + 1 = Len(outbox) => k = Len(outbox) - 1
        BY <1>2
      <3> QED
        BY <1>3, <1>6, <1>8, <3>1, <3>2 DEF InOrder
    <2> QED
      BY <1>6, <2>1 DEF InOrder
  <1>16. f.event \in Terminal => Len(outbox) = 1 /\ then = "returned"
    <2>1. 1 \in 1..Len(outbox)
      BY <1>2
    <2> QED
      BY <1>3, <1>4, <2>1 DEF InOrder, Ending
  <1>17. Ending'
    <2>1. ASSUME NEW name \in Terminal, Sent(name)'
          PROVE  cpc' = "returned" /\ outbox' = <<>> /\ wpc' = "settled"
                                   /\ outcome'.kind \in NotGivenUp
      <3>1. name = f.event
        BY <1>2, <1>5, <2>1
      <3>2. Len(outbox) = 1 /\ then = "returned"
        BY <1>16, <3>1
      <3>3. outcome.kind \in NotGivenUp
        BY <1>1, <1>3, <3>2 DEF Control
      <3>4. wpc = "settled"
        BY <1>3, <3>3 DEF Control, Decided, NotGivenUp
      <3> QED
        BY <1>1, <1>6, <3>2, <3>3, <3>4 DEF batchVars
    <2>2. \A k \in 1..Len(outbox') : outbox'[k].event \in Terminal => then' = "returned"
      <3>1. ASSUME NEW k \in 1..Len(outbox'), outbox'[k].event \in Terminal
            PROVE  then' = "returned"
        <4>1. k \in 1..(Len(outbox) - 1) /\ k + 1 \in 1..Len(outbox)
          BY <1>2, <1>6
        <4> QED
          BY <1>1, <1>3, <1>6, <3>1, <4>1 DEF Ending
      <3> QED
        BY <3>1
    <2>3. outbox' # <<>> /\ then' = "returned" => outbox'[Len(outbox')].event \in Terminal
      <3>1. SUFFICES ASSUME outbox' # <<>>, then = "returned"
                     PROVE  outbox'[Len(outbox')].event \in Terminal
        BY <1>1
      <3>2. Len(outbox) - 1 \in 1..(Len(outbox) - 1) /\ (Len(outbox) - 1) + 1 = Len(outbox)
        BY <1>2, <1>6, <3>1
      <3> QED
        BY <1>2, <1>3, <1>6, <3>1, <3>2 DEF Ending
    <2> QED
      BY <2>1, <2>2, <2>3 DEF Ending
  <1>18. Numbering'
    <2>1. \A i \in Received : wire'[i] = wire[i]
      BY <1>5
    <2>2. CASE then = "begin"
      <3>1. f = Comment("headers") /\ sequence = 0 /\ Waiting = {} /\ outbox' = <<>>
        <4>1. outbox = <<Comment("headers")>> /\ sequence = 0 /\ Waiting = {}
          BY <1>2, <1>3, <2>2 DEF Numbering
        <4> QED
          BY <1>1, <1>4, <4>1
      <3>2. f.event \in Unnumbered
        BY <3>1 DEF Comment, Unnumbered
      <3>3. Waiting' = {} /\ Cardinality(Waiting') = 0 /\ Len(outbox') = 0
        BY <1>2, <1>5, <3>1, <3>2, WaitingFinite
      <3>4. \A i \in Received' :
              Name(i)' \notin Unnumbered => wire'[i][1].seq = Cardinality(NumberedBefore(i)')
        BY <1>3, <1>5, <2>1, <3>2 DEF Numbering
      <3>5. \A k \in 1..Len(outbox') : FALSE
        BY <3>3
      <3>6. Cardinality(Waiting') + Len(outbox') = sequence'
        BY <1>1, <3>1, <3>3
      <3> QED
        BY <3>1, <3>4, <3>5, <3>6 DEF Numbering
    <2>3. CASE then # "begin"
      <3>1. /\ Cardinality(Waiting) + Len(outbox) = sequence
            /\ \A k \in 1..Len(outbox) : /\ outbox[k].event \notin Unnumbered
                                         /\ outbox[k].seq = Cardinality(Waiting) + k - 1
        BY <1>3, <2>3 DEF Numbering
      <3>2. PICK c \in Nat : c = Cardinality(Waiting)
        BY <1>2, WaitingFinite
      <3>3. f.event \notin Unnumbered /\ f.seq = c
        <4>1. 1 \in 1..Len(outbox)
          BY <1>2
        <4> QED
          BY <1>4, <3>1, <3>2, <4>1
      <3>4. Waiting' = Waiting \cup {Len(wire) + 1} /\ Cardinality(Waiting') = c + 1
        <4>1. Waiting' = Waiting \cup {Len(wire) + 1}
          BY <1>5, <3>3
        <4>2. Cardinality(Waiting \cup {Len(wire) + 1}) = Cardinality(Waiting) + 1
          BY <1>2, WaitingFinite
        <4> QED
          BY <3>2, <4>1, <4>2
      <3>5. Cardinality(Waiting') + Len(outbox') = sequence'
        BY <1>1, <1>2, <1>6, <3>1, <3>2, <3>4
      <3>6. \A k \in 1..Len(outbox') : /\ outbox'[k].event \notin Unnumbered
                                      /\ outbox'[k].seq = Cardinality(Waiting') + k - 1
        <4>1. ASSUME NEW k \in 1..Len(outbox')
              PROVE  /\ outbox'[k].event \notin Unnumbered
                     /\ outbox'[k].seq = Cardinality(Waiting') + k - 1
          <5>1. k \in 1..(Len(outbox) - 1) /\ k + 1 \in 1..Len(outbox)
            BY <1>2, <1>6
          <5>2. outbox'[k].event \notin Unnumbered /\ outbox'[k].seq = c + (k + 1) - 1
            BY <1>6, <3>1, <3>2, <5>1
          <5> QED
            BY <3>4, <5>1, <5>2
        <4> QED
          BY <4>1
      <3>7. \A i \in Received' :
              Name(i)' \notin Unnumbered => wire'[i][1].seq = Cardinality(NumberedBefore(i)')
        BY <1>3, <1>5, <2>1, <3>2, <3>3 DEF Numbering
      <3>8. ~(outbox' # <<>> /\ then' = "begin")
        BY <1>1, <2>3
      <3> QED
        BY <3>5, <3>6, <3>7, <3>8 DEF Numbering
    <2> QED
      BY <2>2, <2>3
  <1>19. Message'
    BY <1>1, <1>3, <1>7, <1>9 DEF Message, textVars
  <1>20. Opened'
    BY <1>1, <1>3 DEF Opened, textVars, batchVars
  <1>21. Syntax'
    <2>1. ASSUME toolsEnabled, NEW i \in 1..(Len(wire) + 1) PROVE NoMarker(wire'[i][1].text)
      <3>1. CASE i = Len(wire) + 1
        <4>1. 1 \in 1..Len(outbox)
          BY <1>2
        <4> QED
          BY <1>3, <1>4, <1>5, <2>1, <3>1, <4>1 DEF Syntax
      <3>2. CASE i # Len(wire) + 1
        <4>1. i \in 1..Len(wire)
          BY <1>2, <3>2
        <4> QED
          BY <1>3, <1>5, <2>1, <4>1 DEF Syntax
      <3> QED
        BY <3>1, <3>2
    <2>2. ASSUME toolsEnabled, NEW k \in 1..Len(outbox') PROVE NoMarker(outbox'[k].text)
      <3>1. k \in 1..(Len(outbox) - 1) /\ k + 1 \in 1..Len(outbox)
        BY <1>2, <1>6
      <3> QED
        BY <1>3, <1>6, <2>2, <3>1 DEF Syntax
    <2> QED
      BY <1>1, <1>5, <2>1, <2>2 DEF Syntax, NoMarker
  <1>22. Reason'
    <2>1. ASSUME cpc' = "returned" PROVE \E name \in Terminal : Sent(name)'
      <3>1. Len(outbox) = 1 /\ then = "returned"
        BY <1>1, <2>1
      <3>2. f.event \in Terminal
        BY <1>2, <1>3, <1>4, <3>1 DEF Ending
      <3> QED
        BY <1>5, <3>2
    <2> QED
      BY <1>1, <1>3, <2>1 DEF Reason, envVars, batchVars
  <1> QED
    BY <1>10, <1>11, <1>12, <1>13, <1>14, <1>15, <1>17, <1>18, <1>19, <1>20, <1>21, <1>22
       DEF StreamInvariant

-----------------------------------------------------------------------------
(***************************************************************************)
(* The steps of the batcher's worker keep it.                              *)
(***************************************************************************)
Outcomes ==
    {Exception(kind) : kind \in {"none", "socket", "deadline", "error"}}
      \cup [kind : {"value"}, reason : {"length", "stop_token"}]

\* Those that send nothing.
LEMMA WorkerKeeps ==
  ASSUME StreamInvariant, wpc \notin {"none", "tail", "settled"},
         UNCHANGED <<connVars, envVars, toolsEnabled, sendVars, textVars, callbackFailed>>,
         wpc' \in {"check", "sample", "probe", "settled"}, outcome' \in Outcomes,
         outcome'.kind # "none" <=> wpc' = "settled",
         outcome'.kind \in {"socket", "deadline"} => peer # "open" \/ expired,
         wpc' # "settled" => tokens' < MaxPieces,
         tokens' \in 0..MaxPieces, probes' \in 0..MaxProbes,
         pieces' \in Seq(Pieces), generated' \in Seq(Chars), Opened'
  PROVE  StreamInvariant'
  <1>1. /\ TypeOK /\ Control /\ Exclusive /\ FramedUnlessCut /\ Ending /\ Message /\ Reason
    BY DEF StreamInvariant
  <1>2. /\ LifecycleInOrder' /\ InOrder(outbox)' /\ Numbering' /\ Syntax'
        /\ \A name : Sent(name)' = Sent(name)
        /\ \A name : All(name)' <=> All(name)
    BY QueueKept DEF connVars, sendVars
  <1>3. At' = At
    BY DEF At, sendVars
  <1>4. outcome.kind = "none"
    BY <1>1 DEF Control, Decided
  <1>5. \A name \in Terminal : ~Sent(name)
    BY <1>1 DEF Ending
  <1>6. TypeOK'
    BY <1>1 DEF TypeOK, Outcomes, connVars, envVars, sendVars, textVars
  <1>7. Control'
    BY <1>1, <1>3, <1>4 DEF Control, Decided, sendVars, NotGivenUp
  <1>8. Exclusive'
    BY <1>1 DEF Exclusive, connVars, sendVars
  <1>9. FramedUnlessCut'
    BY <1>1, <1>4 DEF FramedUnlessCut, Framed, GaveUp, connVars, sendVars
  <1>10. Ending'
    BY <1>1, <1>2, <1>5 DEF Ending, sendVars
  <1>11. Message'
    BY <1>1, <1>2, <1>3 DEF Message, textVars
  <1>12. Reason'
    BY <1>1, <1>2 DEF Reason, envVars, sendVars
  <1> QED
    BY <1>2, <1>6, <1>7, <1>8, <1>9, <1>10, <1>11, <1>12 DEF StreamInvariant

LEMMA ExceptionKinds ==
  /\ \A kind : Exception(kind).kind = kind
  /\ \A kind \in {"none", "socket", "deadline", "error"} : Exception(kind) \in Outcomes
  BY DEF Exception, Outcomes

LEMMA CheckFailsKeeps ==
  ASSUME StreamInvariant, CheckFails
  PROVE  StreamInvariant'
  <1>1. TypeOK /\ Opened /\ Reason
    BY DEF StreamInvariant
  <1>2. /\ wpc = "check" /\ wpc' = "settled"
        /\ UNCHANGED <<connVars, envVars, toolsEnabled, sendVars, textVars, pieces,
                       generated, tokens, callbackFailed, probes>>
    BY DEF CheckFails, Settle
  <1>3. \/ outcome' = Exception("error")
        \/ outcome' = Exception("deadline") /\ expired
        \/ outcome' = Exception("socket") /\ (expired \/ peer = "reset")
    BY DEF CheckFails, Settle
  <1>4. /\ outcome' \in Outcomes /\ outcome'.kind # "none"
        /\ outcome'.kind \in {"socket", "deadline"} => peer # "open" \/ expired
    BY <1>3, ExceptionKinds
  <1>5. /\ tokens' \in 0..MaxPieces /\ probes' \in 0..MaxProbes
        /\ pieces' \in Seq(Pieces) /\ generated' \in Seq(Chars)
    BY <1>1, <1>2 DEF TypeOK
  <1>6. Opened'
    BY <1>1, <1>2 DEF Opened, textVars
  <1> QED
    BY <1>2, <1>4, <1>5, <1>6, WorkerKeeps

LEMMA CheckPassesKeeps ==
  ASSUME StreamInvariant, CheckPasses
  PROVE  StreamInvariant'
  <1>1. TypeOK /\ Opened /\ Control
    BY DEF StreamInvariant
  <1>2. /\ wpc = "check" /\ wpc' \in {"sample", "probe"}
        /\ probes' = probes \/ (probes < MaxProbes /\ probes' = probes + 1)
        /\ UNCHANGED <<connVars, envVars, toolsEnabled, sendVars, textVars, pieces,
                       generated, tokens, outcome, callbackFailed>>
    BY DEF CheckPasses
  <1>3. outcome' \in Outcomes /\ outcome'.kind = "none"
    BY <1>1, <1>2 DEF TypeOK, Outcomes, Control, Decided
  <1>4. probes' \in 0..MaxProbes
    <2>1. probes \in 0..MaxProbes
      BY <1>1 DEF TypeOK
    <2> QED
      BY <1>2, <2>1, StreamAssumption
  <1>5. /\ tokens' \in 0..MaxPieces /\ tokens' < MaxPieces
        /\ pieces' \in Seq(Pieces) /\ generated' \in Seq(Chars)
    BY <1>1, <1>2 DEF TypeOK, Control
  <1>6. Opened'
    BY <1>1, <1>2 DEF Opened, textVars
  <1> QED
    BY <1>2, <1>3, <1>4, <1>5, <1>6, WorkerKeeps

LEMMA EndOfTextKeeps ==
  ASSUME StreamInvariant, EndOfText
  PROVE  StreamInvariant'
  <1>1. TypeOK /\ Opened
    BY DEF StreamInvariant
  <1>2. /\ wpc = "sample" /\ wpc' = "settled"
        /\ \/ outcome' = [kind |-> "value", reason |-> "stop_token"]
           \/ outcome' = Exception("error")
        /\ UNCHANGED <<connVars, envVars, toolsEnabled, sendVars, textVars, pieces,
                       generated, tokens, callbackFailed, probes>>
    BY DEF EndOfText, Settle
  <1>3. /\ outcome' \in Outcomes
        /\ outcome'.kind \notin {"none", "socket", "deadline"}
    BY <1>2, ExceptionKinds DEF Outcomes
  <1>4. /\ tokens' \in 0..MaxPieces /\ probes' \in 0..MaxProbes
        /\ pieces' \in Seq(Pieces) /\ generated' \in Seq(Chars)
    BY <1>1, <1>2 DEF TypeOK
  <1>5. Opened'
    BY <1>1, <1>2 DEF Opened, textVars
  <1> QED
    BY <1>2, <1>3, <1>4, <1>5, WorkerKeeps

LEMMA ProduceKeeps ==
  ASSUME StreamInvariant, NEW piece \in Pieces, Produce(piece)
  PROVE  StreamInvariant'
  <1>1. TypeOK /\ Opened /\ Control
    BY DEF StreamInvariant
  <1>2. /\ wpc = "sample" /\ pieces' = Append(pieces, piece)
        /\ generated' = generated \o piece /\ tokens' = tokens + 1
        /\ IF tokens' = MaxPieces
           THEN outcome' = [kind |-> "value", reason |-> "length"] /\ wpc' = "settled"
           ELSE wpc' = "check" /\ outcome' = outcome
        /\ UNCHANGED <<connVars, envVars, toolsEnabled, sendVars, textVars,
                       callbackFailed, probes>>
    BY DEF Produce, Settle
  <1>3. /\ piece \in Seq(Chars) /\ piece # <<>> /\ generated \in Seq(Chars)
        /\ pieces \in Seq(Pieces)
    BY <1>1, TypesOfPieces DEF TypeOK
  <1>4. /\ pieces' \in Seq(Pieces) /\ generated' \in Seq(Chars) /\ generated' # <<>>
        /\ pieces' # <<>>
        /\ pieces = <<>> => Head(pieces') = piece
        /\ pieces # <<>> => Head(pieces') = Head(pieces)
        /\ generated = <<>> => generated'[1] = piece[1]
        /\ generated # <<>> => generated'[1] = generated[1]
    BY <1>2, <1>3
  <1>5. Opened'
    BY <1>1, <1>2, <1>4 DEF Opened, textVars
  <1>6. /\ tokens' \in 0..MaxPieces /\ wpc' \in {"check", "settled"}
        /\ wpc' # "settled" => tokens' < MaxPieces
    <2>1. tokens \in 0..MaxPieces /\ tokens < MaxPieces
      BY <1>1, <1>2 DEF TypeOK, Control
    <2> QED
      BY <1>2, <2>1, StreamAssumption
  <1>7. outcome \in Outcomes /\ outcome.kind = "none"
    BY <1>1, <1>2 DEF TypeOK, Outcomes, Control, Decided
  <1>8. /\ outcome' \in Outcomes /\ outcome'.kind \notin {"socket", "deadline"}
        /\ outcome'.kind # "none" <=> wpc' = "settled"
    BY <1>2, <1>7 DEF Outcomes
  <1>9. probes' \in 0..MaxProbes
    BY <1>1, <1>2 DEF TypeOK
  <1> QED
    BY <1>2, <1>4, <1>5, <1>6, <1>8, <1>9, WorkerKeeps

\* A half of a keep-alive comment is not of the response.
LEMMA CommentKept ==
  ASSUME StreamInvariant, wpc \in {"probe", "tail"}, NEW h \in {1, 2},
         wire' = Append(wire, <<Comment("keepalive"), h>>),
         UNCHANGED <<envVars, toolsEnabled, sendVars, textVars, pieces, generated, tokens,
                     outcome, callbackFailed, probes>>,
         wpc' \in {"check", "sample", "tail"}
  PROVE  /\ wire' \in Seq(Frames \X {1, 2}) /\ Len(wire)' = Len(wire) + 1 /\ Len(wire) \in Nat
         /\ \A i \in 1..Len(wire) : wire'[i] = wire[i]
         /\ wire'[Len(wire) + 1] = <<Comment("keepalive"), h>>
         /\ outcome.kind = "none" /\ At' = At
         /\ Control' /\ Numbering' /\ LifecycleInOrder' /\ InOrder(outbox)' /\ Ending'
         /\ Message' /\ Opened' /\ Syntax' /\ Reason'
  <1>1. /\ TypeOK /\ Control /\ Numbering /\ LifecycleInOrder /\ InOrder(outbox)
        /\ Ending /\ Message /\ Opened /\ Syntax /\ Reason
    BY DEF StreamInvariant
  <1>2. wire \in Seq(Frames \X {1, 2}) /\ Len(wire) \in Nat
    BY <1>1 DEF TypeOK
  <1>3. PICK f : f = Comment("keepalive")
    OBVIOUS
  <1>4. f \in Frames /\ f.event = "keepalive" /\ f.text = <<>>
    <2>1. <<>> \in Seq(Chars)
      OBVIOUS
    <2> QED
      BY <1>3, <2>1 DEF Comment, Frames, Events
  <1>5. outcome.kind = "none" /\ \A name \in Terminal : ~Sent(name)
    BY <1>1 DEF Control, Decided, Ending
  <1>6. At' = At
    BY DEF At, sendVars
  <1>7. /\ wire' \in Seq(Frames \X {1, 2}) /\ Len(wire)' = Len(wire) + 1
        /\ \A i \in 1..Len(wire) : wire'[i] = wire[i]
        /\ wire'[Len(wire) + 1] = <<f, h>>
        /\ Received \subseteq 1..Len(wire)
        /\ Received \subseteq Received' /\ Received' \subseteq Received \cup {Len(wire) + 1}
        /\ Waiting' = Waiting
        /\ \A i \in Received : /\ Name(i)' = Name(i)
                               /\ NumberedBefore(i)' = NumberedBefore(i)
                               /\ \A name : Before(i, name)' = Before(i, name)
        /\ \A i : i \in Received' /\ i = Len(wire) + 1 => Name(i)' = "keepalive"
        /\ \A name : name # "keepalive" => (Sent(name)' <=> Sent(name))
    <2>1. Received \subseteq 1..Len(wire)
      BY DEF Received
    <2>2. CASE h = 1
      <3>1. \A i \in Received' : i \in Received /\ i # Len(wire) + 1
        BY <1>2, <1>3, <1>4, <2>1, <2>2, HeadOnWire
      <3> QED
        BY <1>2, <1>3, <1>4, <2>1, <2>2, <3>1, HeadOnWire
    <2>3. CASE h = 2
      <3>1. {i \in {Len(wire) + 1} : f.event \notin Unnumbered} = {}
        BY <1>4 DEF Unnumbered
      <3> QED
        BY <1>2, <1>3, <1>4, <2>3, <3>1, TailOnWire
    <2> QED
      BY <2>2, <2>3
  <1>8. \A k : \A name : name # "keepalive" =>
          (Earlier(outbox, k, name)' <=> Earlier(outbox, k, name))
    BY <1>7 DEF Earlier, sendVars
  <1>9. Control'
    BY <1>1, <1>6 DEF Control, Decided, sendVars
  <1>10. Numbering'
    <2>1. \A i \in Received' :
            Name(i)' \notin Unnumbered => wire'[i][1].seq = Cardinality(NumberedBefore(i)')
      <3>1. ASSUME NEW i \in Received', Name(i)' \notin Unnumbered
            PROVE  wire'[i][1].seq = Cardinality(NumberedBefore(i)')
        <4>1. i \in Received
          BY <1>7, <3>1 DEF Unnumbered
        <4> QED
          BY <1>1, <1>7, <3>1, <4>1 DEF Numbering
      <3> QED
        BY <3>1
    <2> QED
      BY <1>1, <1>7, <2>1 DEF Numbering, sendVars
  <1>11. LifecycleInOrder'
    <2>1. \A i \in Received : Name(i) \notin Terminal
      BY <1>5 DEF Sent
    <2>2. ASSUME NEW i \in Received'
          PROVE  /\ Name(i)' \in {"delta", "text_done"} =>
                      Before(i, "part_added")' /\ ~Before(i, "text_done")'
                 /\ Name(i)' = "part_added" => ~Before(i, "part_added")'
                 /\ Name(i)' = "call_added" =>
                      (Before(i, "part_added")' => Before(i, "item_done")')
                 /\ Name(i)' \notin Terminal
      <3>1. CASE i \in Received
        BY <1>1, <1>7, <2>1, <3>1 DEF LifecycleInOrder
      <3>2. CASE i = Len(wire) + 1
        BY <1>7, <3>2 DEF Terminal
      <3> QED
        BY <1>7, <3>1, <3>2
    <2> QED
      BY <2>2 DEF LifecycleInOrder
  <1>12. InOrder(outbox)'
    BY <1>1, <1>8 DEF InOrder, sendVars
  <1>13. Ending'
    <2>1. \A name \in Terminal : ~Sent(name)'
      BY <1>5, <1>7 DEF Terminal
    <2> QED
      BY <1>1, <2>1 DEF Ending, sendVars
  <1>14. Message'
    BY <1>1, <1>6, <1>8 DEF Message, All, Has, textVars, sendVars
  <1>15. Opened'
    BY <1>1 DEF Opened, textVars
  <1>16. Syntax'
    <2>1. NoMarker(f.text)
      BY <1>4 DEF NoMarker
    <2>2. ASSUME toolsEnabled, NEW i \in 1..(Len(wire) + 1) PROVE NoMarker(wire'[i][1].text)
      <3>1. CASE i = Len(wire) + 1
        BY <1>7, <2>1, <3>1
      <3>2. CASE i # Len(wire) + 1
        <4>1. i \in 1..Len(wire)
          BY <1>2, <3>2
        <4> QED
          BY <1>1, <1>7, <2>2, <4>1 DEF Syntax
      <3> QED
        BY <3>1, <3>2
    <2> QED
      BY <1>1, <1>7, <2>2 DEF Syntax, NoMarker, sendVars
  <1>17. Reason'
    <2>1. \A name \in Terminal : Sent(name)' <=> Sent(name)
      BY <1>7 DEF Terminal
    <2> QED
      BY <1>1, <2>1 DEF Reason, envVars, sendVars
  <1> QED
    BY <1>2, <1>3, <1>5, <1>6, <1>7, <1>9, <1>10, <1>11, <1>12, <1>13, <1>14, <1>15,
       <1>16, <1>17

LEMMA ProbeHeadKeeps ==
  ASSUME StreamInvariant, ProbeHead
  PROVE  StreamInvariant'
  <1>1. /\ wpc = "probe" /\ sendMutex = "free" /\ sendMutex' = "worker" /\ wpc' = "tail"
        /\ wire' = Append(wire, <<Comment("keepalive"), 1>>)
        /\ UNCHANGED <<envVars, toolsEnabled, sendVars, textVars, pieces, generated, tokens,
                       outcome, callbackFailed, probes>>
    BY DEF ProbeHead, MutexFree
  <1>2. /\ TypeOK /\ Exclusive /\ FramedUnlessCut
    BY DEF StreamInvariant
  <1>3. /\ wire' \in Seq(Frames \X {1, 2}) /\ Len(wire)' = Len(wire) + 1 /\ Len(wire) \in Nat
        /\ \A i \in 1..Len(wire) : wire'[i] = wire[i]
        /\ wire'[Len(wire) + 1] = <<Comment("keepalive"), 1>>
        /\ outcome.kind = "none"
        /\ Control' /\ Numbering' /\ LifecycleInOrder' /\ InOrder(outbox)' /\ Ending'
        /\ Message' /\ Opened' /\ Syntax' /\ Reason'
    BY <1>1, CommentKept
  <1>4. TypeOK'
    BY <1>1, <1>2, <1>3 DEF TypeOK, envVars, sendVars, textVars
  <1>5. Exclusive'
    BY <1>1, <1>2 DEF Exclusive, sendVars
  <1>6. FramedUnlessCut'
    <2>1. SUFFICES ASSUME ~GaveUp PROVE Framed'
      BY <1>1 DEF FramedUnlessCut, GaveUp, sendVars
    <2>2. Framed
      BY <1>2, <1>3, <2>1 DEF FramedUnlessCut
    <2>3. Len(wire) % 2 = 0 /\ (Len(wire) + 1) % 2 = 1
      <3>1. Len(wire) % 2 = 0
        BY <1>1, <1>3, <2>2 DEF Framed
      <3> QED
        BY <1>3, <3>1, Parity
    <2>4. ASSUME NEW i \in 1..(Len(wire) + 1)
          PROVE  /\ wire'[i][2] = IF i % 2 = 1 THEN 1 ELSE 2
                 /\ i % 2 = 0 => wire'[i][1] = wire'[i - 1][1]
      <3>1. CASE i = Len(wire) + 1
        BY <1>3, <2>3, <3>1
      <3>2. CASE i # Len(wire) + 1
        <4>1. i \in 1..Len(wire) /\ (i % 2 = 0 => i - 1 \in 1..Len(wire))
          BY <1>3, <3>2, Parity
        <4> QED
          BY <1>3, <2>2, <4>1 DEF Framed
      <3> QED
        BY <3>1, <3>2
    <2>5. Len(wire)' = Len(wire) + 1 /\ wire'[Len(wire)'][1] = Comment("keepalive")
      BY <1>3
    <2> QED
      BY <1>1, <2>3, <2>4, <2>5 DEF Framed, Comment
  <1> QED
    BY <1>3, <1>4, <1>5, <1>6 DEF StreamInvariant

LEMMA ProbeTailKeeps ==
  ASSUME StreamInvariant, ProbeTail
  PROVE  StreamInvariant'
  <1>1. /\ wpc = "tail" /\ sendMutex' = "free" /\ wpc' \in {"check", "sample"}
        /\ wire' = Append(wire, <<Comment("keepalive"), 2>>)
        /\ UNCHANGED <<envVars, toolsEnabled, sendVars, textVars, pieces, generated, tokens,
                       outcome, callbackFailed, probes>>
    BY DEF ProbeTail
  <1>2. /\ TypeOK /\ Exclusive /\ FramedUnlessCut
    BY DEF StreamInvariant
  <1>3. /\ wire' \in Seq(Frames \X {1, 2}) /\ Len(wire)' = Len(wire) + 1 /\ Len(wire) \in Nat
        /\ \A i \in 1..Len(wire) : wire'[i] = wire[i]
        /\ wire'[Len(wire) + 1] = <<Comment("keepalive"), 2>>
        /\ outcome.kind = "none"
        /\ Control' /\ Numbering' /\ LifecycleInOrder' /\ InOrder(outbox)' /\ Ending'
        /\ Message' /\ Opened' /\ Syntax' /\ Reason'
    BY <1>1, CommentKept
  <1>4. TypeOK'
    BY <1>1, <1>2, <1>3 DEF TypeOK, envVars, sendVars, textVars
  <1>5. Exclusive' /\ sendMutex = "worker"
    BY <1>1, <1>2 DEF Exclusive, sendVars
  <1>6. FramedUnlessCut'
    <2>1. SUFFICES ASSUME ~GaveUp PROVE Framed'
      BY <1>1 DEF FramedUnlessCut, GaveUp, sendVars
    <2>2. Framed
      BY <1>2, <1>3, <2>1 DEF FramedUnlessCut
    <2>3. /\ Len(wire) % 2 = 1 /\ (Len(wire) + 1) % 2 = 0 /\ Len(wire) \in 1..Len(wire)
          /\ wire[Len(wire)][1] = Comment("keepalive")
      <3>1. Len(wire) % 2 = 1 /\ wire[Len(wire)][1] = Comment("keepalive")
        BY <1>5, <2>2 DEF Framed
      <3> QED
        BY <1>3, <3>1, Parity
    <2>4. ASSUME NEW i \in 1..(Len(wire) + 1)
          PROVE  /\ wire'[i][2] = IF i % 2 = 1 THEN 1 ELSE 2
                 /\ i % 2 = 0 => wire'[i][1] = wire'[i - 1][1]
      <3>1. CASE i = Len(wire) + 1
        <4>1. i - 1 = Len(wire) /\ wire'[i - 1] = wire[Len(wire)]
          BY <1>3, <2>3, <3>1
        <4> QED
          BY <1>3, <2>3, <3>1, <4>1
      <3>2. CASE i # Len(wire) + 1
        <4>1. i \in 1..Len(wire) /\ (i % 2 = 0 => i - 1 \in 1..Len(wire))
          BY <1>3, <3>2, Parity
        <4> QED
          BY <1>3, <2>2, <4>1 DEF Framed
      <3> QED
        BY <3>1, <3>2
    <2>5. Len(wire)' = Len(wire) + 1 /\ sendMutex' = "free" /\ ~(Len(wire)' % 2 = 1)
      BY <1>1, <1>3, <2>3
    <2> QED
      BY <2>4, <2>5 DEF Framed
  <1> QED
    BY <1>3, <1>4, <1>5, <1>6 DEF StreamInvariant

LEMMA ProbeFailsKeeps ==
  ASSUME StreamInvariant, ProbeFails
  PROVE  StreamInvariant'
  <1>1. /\ wpc \in {"probe", "tail"} /\ (wpc = "probe" => sendMutex = "free")
        /\ ~Writable /\ sendMutex' = "free" /\ outcome' = Exception("socket")
        /\ wpc' = "settled"
        /\ UNCHANGED <<wire, envVars, toolsEnabled, sendVars, textVars, pieces,
                       generated, tokens, callbackFailed, probes>>
    BY DEF ProbeFails, MutexFree, Release, Settle
  <1>2. /\ TypeOK /\ Control /\ Exclusive /\ Ending /\ Message /\ Opened /\ Reason
    BY DEF StreamInvariant
  <1>3. /\ LifecycleInOrder' /\ InOrder(outbox)' /\ Numbering' /\ Syntax'
        /\ \A name : Sent(name)' = Sent(name)
        /\ \A name : All(name)' <=> All(name)
    BY <1>1, QueueKept DEF sendVars
  <1>4. At' = At
    BY <1>1 DEF At, sendVars
  <1>5. outcome.kind = "none" /\ outcome'.kind = "socket" /\ outcome' \in Outcomes
    BY <1>1, <1>2, ExceptionKinds DEF Control, Decided
  <1>6. \A name \in Terminal : ~Sent(name)
    BY <1>1, <1>2 DEF Ending
  <1>7. TypeOK'
    BY <1>1, <1>2, <1>5 DEF TypeOK, Outcomes, envVars, sendVars, textVars
  <1>8. Control'
    BY <1>1, <1>2, <1>4, <1>5 DEF Control, Decided, sendVars, NotGivenUp
  <1>9. Exclusive'
    BY <1>1, <1>2 DEF Exclusive, sendVars
  <1>10. FramedUnlessCut'
    BY <1>5 DEF FramedUnlessCut
  <1>11. Ending'
    BY <1>1, <1>2, <1>3, <1>6 DEF Ending, sendVars
  <1>12. Message' /\ Opened'
    BY <1>1, <1>2, <1>3, <1>4 DEF Message, Opened, textVars
  <1>13. Reason'
    <2>1. peer # "open" \/ expired
      BY <1>1 DEF Writable
    <2> QED
      BY <1>1, <2>1 DEF Reason, envVars
  <1> QED
    BY <1>3, <1>7, <1>8, <1>9, <1>10, <1>11, <1>12, <1>13 DEF StreamInvariant

-----------------------------------------------------------------------------
(***************************************************************************)
(* The peer, the clock, and the theorems.                                  *)
(***************************************************************************)

\* What happens around the response touches none of its state.
LEMMA OutsideKeeps ==
  ASSUME StreamInvariant,
         UNCHANGED <<connVars, toolsEnabled, sendVars, textVars, batchVars>>,
         peer' \in {"open", "stalled", "resumed", "reset"}, expired' \in BOOLEAN,
         peer # "open" \/ expired => peer' # "open" \/ expired'
  PROVE  StreamInvariant'
  <1>1. /\ TypeOK /\ Control /\ Exclusive /\ FramedUnlessCut /\ Ending /\ Message
        /\ Opened /\ Reason
    BY DEF StreamInvariant
  <1>2. /\ LifecycleInOrder' /\ InOrder(outbox)' /\ Numbering' /\ Syntax'
        /\ \A name : Sent(name)' = Sent(name)
        /\ \A name : All(name)' <=> All(name)
    BY QueueKept DEF connVars, sendVars
  <1>3. At' = At
    BY DEF At, sendVars
  <1>4. TypeOK'
    BY <1>1 DEF TypeOK, connVars, sendVars, textVars, batchVars
  <1>5. Control' /\ Exclusive'
    BY <1>1, <1>3 DEF Control, Decided, Exclusive, connVars, sendVars, batchVars
  <1>6. FramedUnlessCut'
    BY <1>1 DEF FramedUnlessCut, Framed, GaveUp, connVars, sendVars, batchVars
  <1>7. Ending'
    BY <1>1, <1>2 DEF Ending, sendVars, batchVars
  <1>8. Message' /\ Opened'
    BY <1>1, <1>2, <1>3 DEF Message, Opened, textVars, batchVars
  <1>9. Reason'
    BY <1>1, <1>2 DEF Reason, sendVars, batchVars
  <1> QED
    BY <1>2, <1>4, <1>5, <1>6, <1>7, <1>8, <1>9 DEF StreamInvariant

LEMMA PeerMovesKeeps ==
  ASSUME StreamInvariant, PeerMoves
  PROVE  StreamInvariant'
  <1>1. TypeOK
    BY DEF StreamInvariant
  <1>2. /\ peer \in {"open", "stalled", "resumed", "reset"} /\ expired \in BOOLEAN
    BY <1>1 DEF TypeOK
  <1>3. /\ peer' \in {"stalled", "resumed", "reset"}
        /\ expired' = expired
        /\ UNCHANGED <<connVars, toolsEnabled, sendVars, textVars, batchVars>>
    <2>1. peer' \in {"stalled", "resumed", "reset"}
      <3>1. CASE peer = "open"
        BY <3>1 DEF PeerMoves
      <3>2. CASE peer = "stalled"
        BY <3>2 DEF PeerMoves
      <3>3. CASE peer = "resumed"
        BY <3>3 DEF PeerMoves
      <3>4. CASE peer = "reset"
        BY <3>4 DEF PeerMoves
      <3> QED
        BY <1>2, <3>1, <3>2, <3>3, <3>4
    <2> QED
      BY <2>1 DEF PeerMoves
  <1> QED
    BY <1>2, <1>3, OutsideKeeps

LEMMA DeadlinePassesKeeps ==
  ASSUME StreamInvariant, DeadlinePasses
  PROVE  StreamInvariant'
  <1>1. TypeOK
    BY DEF StreamInvariant
  <1>2. /\ peer' \in {"open", "stalled", "resumed", "reset"} /\ expired' = TRUE
        /\ UNCHANGED <<connVars, toolsEnabled, sendVars, textVars, batchVars>>
    BY <1>1 DEF TypeOK, DeadlinePasses
  <1> QED
    BY <1>2, OutsideKeeps

LEMMA InitHolds ==
  ASSUME Init
  PROVE  StreamInvariant
  <1>1. /\ sendMutex = "free" /\ wire = <<>> /\ peer = "open" /\ expired = FALSE
        /\ toolsEnabled \in BOOLEAN
        /\ cpc = "send" /\ outbox = <<Comment("headers")>> /\ then = "begin"
        /\ sequence = 0
        /\ messageStarted = ~toolsEnabled /\ toolMarkerSeen = FALSE
        /\ streamedText = <<>> /\ pendingText = <<>>
        /\ wpc = "none" /\ pieces = <<>> /\ generated = <<>> /\ tokens = 0
        /\ outcome = [kind |-> "none"] /\ callbackFailed = FALSE /\ probes = 0
    BY DEF Init
  <1>2. /\ Comment("headers") \in Frames /\ Comment("headers").event = "headers"
        /\ Comment("headers").text = <<>>
    <2>1. <<>> \in Seq(Chars)
      OBVIOUS
    <2> QED
      BY <2>1 DEF Comment, Frames, Events
  <1>3. Received = {} /\ Waiting = {} /\ \A name : ~Sent(name)
    BY <1>1 DEF Received, Waiting, NumberedBefore, Sent
  <1>4. /\ outbox \in Seq(Frames) /\ outbox # <<>> /\ Len(outbox) = 1
        /\ \A k \in 1..Len(outbox) : outbox[k].event = "headers" /\ outbox[k].text = <<>>
    BY <1>1, <1>2
  <1>5. At = "begin"
    BY <1>1 DEF At
  <1>6. \A name : name # "headers" => ~All(name)
    BY <1>3, <1>4 DEF All, Has, Earlier
  <1>7. TypeOK
    <2>1. MaxPieces \in Nat /\ MaxProbes \in Nat
      BY StreamAssumption
    <2>2. wire \in Seq(Frames \X {1, 2}) /\ streamedText \in Seq(Chars)
          /\ generated \in Seq(Chars) /\ pieces \in Seq(Pieces)
      BY <1>1
    <2>3. outcome = Exception("none")
      BY <1>1 DEF Exception
    <2>4. tokens \in 0..MaxPieces /\ probes \in 0..MaxProbes
      BY <1>1, <2>1
    <2> QED
      BY <1>1, <1>4, <2>2, <2>3, <2>4 DEF TypeOK
  <1>8. Control
    <2>1. tokens < MaxPieces
      BY <1>1, StreamAssumption
    <2> QED
      BY <1>1, <1>4, <1>5, <2>1 DEF Control, Decided
  <1>9. Exclusive
    BY <1>1 DEF Exclusive
  <1>10. FramedUnlessCut
    <2>1. Len(wire) = 0 /\ ~(Len(wire) % 2 = 1)
      BY <1>1
    <2> QED
      BY <1>1, <2>1 DEF FramedUnlessCut, Framed
  <1>11. Numbering
    BY <1>1, <1>3 DEF Numbering
  <1>12. LifecycleInOrder
    BY <1>3 DEF LifecycleInOrder
  <1>13. InOrder(outbox)
    BY <1>4 DEF InOrder, Terminal
  <1>14. Ending
    BY <1>1, <1>3, <1>4 DEF Ending, Terminal
  <1>15. Message
    BY <1>1, <1>5, <1>6 DEF Message
  <1>16. Opened
    BY <1>1 DEF Opened
  <1>17. Syntax
    <2>1. \A i \in 1..Len(wire) : FALSE
      BY <1>1
    <2>2. NoMarker(<<>>)
      BY DEF NoMarker
    <2> QED
      BY <1>4, <2>1, <2>2 DEF Syntax
  <1>18. Reason
    BY <1>1 DEF Reason
  <1> QED
    BY <1>7, <1>8, <1>9, <1>10, <1>11, <1>12, <1>13, <1>14, <1>15, <1>16, <1>17, <1>18
       DEF StreamInvariant

LEMMA NextKeeps ==
  ASSUME StreamInvariant, [Next]_vars
  PROVE  StreamInvariant'
  <1>1. CASE ClientStep
    BY <1>1, SendHeadKeeps, SendTailKeeps, SendFailsKeeps, BeginKeeps, SubmitKeeps,
       CallbackKeeps, ResultKeeps, FinishKeeps, ParseThrowsKeeps, FailedKeeps
       DEF ClientStep
  <1>2. CASE WorkerStep
    BY <1>2, CheckFailsKeeps, CheckPassesKeeps, ProbeHeadKeeps, ProbeTailKeeps,
       ProbeFailsKeeps, ProduceKeeps, EndOfTextKeeps DEF WorkerStep
  <1>3. CASE PeerMoves
    BY <1>3, PeerMovesKeeps
  <1>4. CASE DeadlinePasses
    BY <1>4, DeadlinePassesKeeps
  <1>5. CASE UNCHANGED vars
    <2>1. TypeOK
      BY DEF StreamInvariant
    <2>2. /\ UNCHANGED <<connVars, toolsEnabled, sendVars, textVars, batchVars>>
          /\ UNCHANGED <<peer, expired>>
      BY <1>5 DEF vars, envVars
    <2> QED
      BY <2>1, <2>2, OutsideKeeps DEF TypeOK
  <1> QED
    BY <1>1, <1>2, <1>3, <1>4, <1>5 DEF Next

\* The inductive invariant of one streamed response.
THEOREM StreamInvariantHolds == Spec => []StreamInvariant
  <1>1. Init => StreamInvariant
    BY InitHolds
  <1>2. StreamInvariant /\ [Next]_vars => StreamInvariant'
    BY NextKeeps
  <1> QED
    BY <1>1, <1>2, PTL DEF Spec

\* Every variable keeps its type, whatever the tokens are cut into: what waits
\* for the next piece is never more than the beginning of one character.
THEOREM TypeCorrect == Spec => []TypeOK
  <1>1. StreamInvariant => TypeOK
    BY DEF StreamInvariant
  <1> QED
    BY <1>1, StreamInvariantHolds, PTL

\* A stream that ended with a terminal event has whole frames of the thread of
\* the connection and of the batcher's worker, unmixed, and its events are
\* numbered without a gap.
THEOREM WholeStreamHolds == Spec => []EndedStreamIsWhole
  <1>1. StreamInvariant => EndedStreamIsWhole
    <2>1. SUFFICES ASSUME StreamInvariant, Ended(Terminal) PROVE EndedStreamIsWhole
      BY DEF EndedStreamIsWhole
    <2>2. /\ TypeOK /\ Exclusive /\ FramedUnlessCut /\ Numbering /\ Ending
      BY <2>1 DEF StreamInvariant
    <2>3. \E name \in Terminal : Sent(name)
      BY <2>1 DEF Ended, Sent
    <2>4. /\ cpc = "returned" /\ outbox = <<>> /\ wpc = "settled"
          /\ outcome.kind # "socket"
      BY <2>2, <2>3 DEF Ending, NotGivenUp
    <2>5. Framed /\ sendMutex \notin {"client", "worker"}
      BY <2>2, <2>4 DEF FramedUnlessCut, GaveUp, Exclusive
    <2>6. Len(wire) % 2 = 0
      <3>1. sendMutex = "free" /\ Len(wire) \in Nat
        BY <2>2, <2>5 DEF TypeOK
      <3> QED
        BY <2>5, <3>1 DEF Framed
    <2> QED
      BY <2>2, <2>5, <2>6 DEF EndedStreamIsWhole, Framed, Numbering
  <1> QED
    BY <1>1, StreamInvariantHolds, PTL

\* With tools, no byte of the syntax of calls is sent, in any delta or done event.
THEOREM SyntaxHolds == Spec => []NoToolSyntax
  <1>1. StreamInvariant => NoToolSyntax
    BY DEF StreamInvariant, Syntax, NoMarker, NoToolSyntax, Contains
  <1> QED
    BY <1>1, StreamInvariantHolds, PTL

\* Deltas and done events only in the open message, calls after it, nothing
\* after a terminal event.
THEOREM LifecycleHolds == Spec => []LifecycleInOrder
  <1>1. StreamInvariant => LifecycleInOrder
    BY DEF StreamInvariant
  <1> QED
    BY <1>1, StreamInvariantHolds, PTL

\* A response that ends without a terminal event had a peer that could not be
\* written to, or no time left.
THEOREM NoSilentEndHolds == Spec => []NoSilentEnd
  <1>1. StreamInvariant => NoSilentEnd
    <2>1. ASSUME StreamInvariant, NEW name \in Terminal, Sent(name) PROVE Ended(Terminal)
      BY <2>1 DEF StreamInvariant, LifecycleInOrder, Sent, Ended
    <2> QED
      BY <2>1 DEF StreamInvariant, Reason, NoSilentEnd
  <1> QED
    BY <1>1, StreamInvariantHolds, PTL
=============================================================================
