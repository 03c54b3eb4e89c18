---------------------------- MODULE StreamTextProofs ----------------------------
(***************************************************************************)
(* The texts of ResponseStream: the deltas a client receives add up to the *)
(* text of the done event, for any pieces and interleaving.                *)
(*                                                                         *)
(* The argument follows one equation.  Whatever text X comes next,         *)
(*   Sanitized(streamed \o X) = sent \o queued \o Sanitized(pending \o X)   *)
(* so that replacing broken characters piece by piece comes to replacing   *)
(* them in the whole.  A callback keeps it because draining a text emits   *)
(* what replacing makes of it, up to an unfinished character (DrainSound); *)
(* sending moves text from the queue to the wire; the result takes X empty *)
(* and drains what is pending; the end sends what parsing added.           *)
(***************************************************************************)
EXTENDS ResponseStreamProofs, SequenceTheorems

-----------------------------------------------------------------------------
(***************************************************************************)
(* Texts put together.                                                     *)
(***************************************************************************)

\* f is the text of the first k texts of q, for each k up to n.
Flattens(q, f, n) == f = [i \in 1..n |-> IF i = 1 THEN q[i] ELSE f[i-1] \o q[i]]

\* There is one, for every q.
LEMMA FlattenExists ==
  ASSUME NEW n \in Nat, NEW q
  PROVE  \E f : Flattens(q, f, n)
  <1> DEFINE S == {k \in 0..n : \E f : Flattens(q, f, k)}
  <1>1. 0 \in S
    <2>1. PICK f : f = [i \in {} |-> 0]
      OBVIOUS
    <2>2. f = [i \in 1..0 |-> IF i = 1 THEN q[i] ELSE f[i-1] \o q[i]]
      BY <2>1
    <2>3. Flattens(q, f, 0)
      BY <2>2 DEF Flattens
    <2> QED
      BY <2>3
  <1>2. ASSUME NEW k \in 0..(n - 1), k \in S PROVE k + 1 \in S
    <2>1. PICK f : f = [i \in 1..k |-> IF i = 1 THEN q[i] ELSE f[i-1] \o q[i]]
      BY <1>2 DEF Flattens
    <2>2. PICK g : g = [i \in 1..(k + 1) |-> IF i = k + 1
                                             THEN IF i = 1 THEN q[i] ELSE f[i-1] \o q[i]
                                             ELSE f[i]]
      OBVIOUS
    <2>3. ASSUME NEW i \in 1..(k + 1) PROVE g[i] = IF i = 1 THEN q[i] ELSE g[i-1] \o q[i]
      <3>1. CASE i = k + 1
        <4>1. i # 1 => i - 1 \in 1..k /\ g[i-1] = f[i-1]
          BY <2>2, <3>1
        <4> QED
          BY <2>2, <3>1, <4>1
      <3>2. CASE i # k + 1
        <4>1. i \in 1..k /\ g[i] = f[i]
          BY <2>2, <3>2
        <4>2. i # 1 => i - 1 \in 1..k /\ g[i-1] = f[i-1]
          BY <2>2, <3>2
        <4> QED
          BY <2>1, <4>1, <4>2
      <3> QED
        BY <3>1, <3>2
    <2>4. g = [i \in 1..(k + 1) |-> IF i = 1 THEN q[i] ELSE g[i-1] \o q[i]]
      BY <2>2, <2>3
    <2>5. Flattens(q, g, k + 1)
      BY <2>4 DEF Flattens
    <2> QED
      BY <2>5
  <1>3. n \in S
    <2> HIDE DEF S
    <2>1. 0..n \subseteq S
      BY <1>1, <1>2, Induction
    <2> QED
      BY <2>1
  <1> QED
    BY <1>3

\* The sequence that begins with the first of the texts.
LEMMA FlattenIs ==
  ASSUME NEW C, NEW q \in Seq(Seq(C)), q # <<>>
  PROVE  \E f : /\ FlattenSeq(q) = f[Len(q)]
                /\ f = [i \in 1..Len(q) |-> IF i = 1 THEN q[i] ELSE f[i-1] \o q[i]]
  <1> DEFINE F == CHOOSE f :
                    f = [i \in 1..Len(q) |-> IF i = 1 THEN q[i] ELSE f[i-1] \o q[i]]
  <1>1. FlattenSeq(q) = F[Len(q)]
    BY DEF FlattenSeq
  <1>2. F = [i \in 1..Len(q) |-> IF i = 1 THEN q[i] ELSE F[i-1] \o q[i]]
    <2>1. Len(q) \in Nat
      OBVIOUS
    <2>2. \E f : f = [i \in 1..Len(q) |-> IF i = 1 THEN q[i] ELSE f[i-1] \o q[i]]
      BY <2>1, FlattenExists DEF Flattens
    <2> QED
      BY <2>2
  <1> QED
    BY <1>1, <1>2

LEMMA FlattenEmpty == FlattenSeq(<<>>) = <<>>
  BY DEF FlattenSeq

\* One more text goes to the end.
LEMMA FlattenAppend ==
  ASSUME NEW C, NEW q \in Seq(Seq(C)), NEW x \in Seq(C)
  PROVE  FlattenSeq(q) \in Seq(C) => FlattenSeq(Append(q, x)) = FlattenSeq(q) \o x
  <1>1. SUFFICES ASSUME FlattenSeq(q) \in Seq(C)
                 PROVE  FlattenSeq(Append(q, x)) = FlattenSeq(q) \o x
    OBVIOUS
  <1>2. PICK r \in Seq(Seq(C)) : r = Append(q, x)
    <2>1. Append(q, x) \in Seq(Seq(C))
      OBVIOUS
    <2> QED
      BY <2>1
  <1>3. r # <<>> /\ Len(r) = Len(q) + 1 /\ r[Len(q) + 1] = x /\ Len(q) \in Nat
        /\ \A i \in 1..Len(q) : r[i] = q[i]
    BY <1>2
  <1>4. PICK g : /\ FlattenSeq(r) = g[Len(r)]
                 /\ g = [i \in 1..Len(r) |-> IF i = 1 THEN r[i] ELSE g[i-1] \o r[i]]
    BY <1>3, FlattenIs
  <1>5. CASE q = <<>>
    <2>1. FlattenSeq(q) = <<>>
      BY <1>5, FlattenEmpty
    <2>2. g[1] = x
      BY <1>3, <1>4, <1>5
    <2>3. <<>> \o x = x
      OBVIOUS
    <2> QED
      BY <1>2, <1>3, <1>4, <1>5, <2>1, <2>2, <2>3
  <1>6. CASE q # <<>>
    <2>1. PICK f : /\ FlattenSeq(q) = f[Len(q)]
                   /\ f = [i \in 1..Len(q) |-> IF i = 1 THEN q[i] ELSE f[i-1] \o q[i]]
      BY <1>6, FlattenIs
    <2> DEFINE S == {k \in 0..Len(q) : k > 0 => g[k] = f[k]}
    <2>2. 0 \in S
      BY <1>3
    <2>3. ASSUME NEW k \in 0..(Len(q) - 1), k \in S PROVE k + 1 \in S
      <3>0. k + 1 \in 1..Len(q) /\ k + 1 \in 1..Len(r) /\ (k + 1) - 1 = k /\ r[k + 1] = q[k + 1]
        BY <1>3
      <3>1. f[k + 1] = IF k + 1 = 1 THEN q[k + 1] ELSE f[(k + 1) - 1] \o q[k + 1]
        BY <2>1, <3>0
      <3>2. g[k + 1] = IF k + 1 = 1 THEN r[k + 1] ELSE g[(k + 1) - 1] \o r[k + 1]
        BY <1>4, <3>0
      <3>3. k + 1 # 1 => g[k] = f[k]
        BY <2>3
      <3>4. g[k + 1] = f[k + 1]
        BY <3>0, <3>1, <3>2, <3>3
      <3> QED
        BY <1>3, <3>4
    <2>4. Len(q) \in S
      <3> HIDE DEF S
      <3>1. 0..Len(q) \subseteq S
        BY <1>3, <2>2, <2>3, Induction
      <3> QED
        BY <1>3, <3>1
    <2>5. Len(q) > 0
      BY <1>3, <1>6
    <2>6. g[Len(q) + 1] = g[Len(q)] \o x
      <3>1. Len(q) + 1 \in 1..Len(r) /\ (Len(q) + 1) - 1 = Len(q) /\ Len(q) + 1 # 1
        BY <1>3, <2>5
      <3>2. g[Len(q) + 1] = g[(Len(q) + 1) - 1] \o r[Len(q) + 1]
        BY <1>4, <3>1
      <3> QED
        BY <1>3, <3>1, <3>2
    <2> QED
      BY <1>2, <1>3, <1>4, <2>1, <2>4, <2>5, <2>6
  <1> QED
    BY <1>5, <1>6

\* What is put together is a text of the same characters.
LEMMA FlattenType ==
  ASSUME NEW C, NEW q \in Seq(Seq(C))
  PROVE  FlattenSeq(q) \in Seq(C)
  <1>1. CASE q = <<>>
    <2>1. FlattenSeq(q) = <<>>
      BY <1>1, FlattenEmpty
    <2> QED
      BY <2>1
  <1>2. CASE q # <<>>
    <2>1. PICK f : /\ FlattenSeq(q) = f[Len(q)]
                   /\ f = [i \in 1..Len(q) |-> IF i = 1 THEN q[i] ELSE f[i-1] \o q[i]]
      BY <1>2, FlattenIs
    <2> DEFINE S == {k \in 0..Len(q) : k > 0 => f[k] \in Seq(C)}
    <2>2. 0 \in S /\ Len(q) \in Nat /\ Len(q) > 0
      BY <1>2
    <2>3. ASSUME NEW k \in 0..(Len(q) - 1), k \in S PROVE k + 1 \in S
      <3>0. k + 1 \in 1..Len(q) /\ (k + 1) - 1 = k
        BY <2>2
      <3>1. f[k + 1] = IF k + 1 = 1 THEN q[k + 1] ELSE f[(k + 1) - 1] \o q[k + 1]
        BY <2>1, <3>0
      <3>2. q[k + 1] \in Seq(C)
        BY <3>0
      <3>3. k + 1 # 1 => f[k] \o q[k + 1] \in Seq(C)
        BY <2>3, <3>2
      <3>4. f[k + 1] \in Seq(C)
        BY <3>0, <3>1, <3>2, <3>3
      <3> QED
        BY <2>2, <3>4
    <2>4. Len(q) \in S
      <3> HIDE DEF S
      <3>1. 0..Len(q) \subseteq S
        BY <2>2, <2>3, Induction
      <3> QED
        BY <2>2, <3>1
    <2>5. f[Len(q)] \in Seq(C)
      BY <2>2, <2>4
    <2> QED
      BY <2>1, <2>5
  <1> QED
    BY <1>1, <1>2

\* Two sequences of texts, put together one after the other.
LEMMA FlattenConcat ==
  ASSUME NEW C, NEW a \in Seq(Seq(C)), NEW b \in Seq(Seq(C))
  PROVE  FlattenSeq(a \o b) = FlattenSeq(a) \o FlattenSeq(b)
  <1> DEFINE P(t) == FlattenSeq(a \o t) = FlattenSeq(a) \o FlattenSeq(t)
             S == {k \in 0..Len(b) : P(SubSeq(b, 1, k))}
  <1>0. Len(b) \in Nat /\ FlattenSeq(a) \in Seq(C)
    BY FlattenType
  <1>1. 0 \in S
    <2>1. SubSeq(b, 1, 0) = <<>> /\ a \o <<>> = a /\ FlattenSeq(a) \o <<>> = FlattenSeq(a)
      BY <1>0
    <2>2. P(<<>>)
      BY <2>1, FlattenEmpty
    <2>3. 0 \in 0..Len(b) /\ P(SubSeq(b, 1, 0))
      <3>1. 0 \in 0..Len(b)
        BY <1>0
      <3>2. P(SubSeq(b, 1, 0))
        BY <2>1, <2>2, Zenon
      <3> QED
        BY <3>1, <3>2
    <2> HIDE DEF P
    <2> QED
      BY <2>3
  <1>2. ASSUME NEW k \in 0..(Len(b) - 1), k \in S PROVE k + 1 \in S
    <2>1. PICK t \in Seq(Seq(C)) : t = SubSeq(b, 1, k)
      <3>1. SubSeq(b, 1, k) \in Seq(Seq(C))
        BY <1>0
      <3> QED
        BY <3>1
    <2>2. PICK x \in Seq(C) : x = b[k + 1]
      BY <1>0
    <2>3. SubSeq(b, 1, k + 1) = Append(t, x)
      BY <1>0, <2>1, <2>2
    <2>4. a \o Append(t, x) = Append(a \o t, x) /\ a \o t \in Seq(Seq(C))
      BY SMTT(30)
    <2>5. FlattenSeq(Append(t, x)) = FlattenSeq(t) \o x /\ FlattenSeq(t) \in Seq(C)
      BY FlattenType, FlattenAppend
    <2>6. FlattenSeq(Append(a \o t, x)) = FlattenSeq(a \o t) \o x
      BY <2>4, FlattenType, FlattenAppend
    <2>7. FlattenSeq(a \o t) = FlattenSeq(a) \o FlattenSeq(t)
      BY <1>2, <2>1
    <2>8. (FlattenSeq(a) \o FlattenSeq(t)) \o x = FlattenSeq(a) \o (FlattenSeq(t) \o x)
      <3>1. FlattenSeq(a) \in Seq(C) /\ FlattenSeq(t) \in Seq(C)
        BY FlattenType
      <3> QED
        BY <3>1, SMTT(30)
    <2>9. P(Append(t, x))
      BY <2>4, <2>5, <2>6, <2>7, <2>8
    <2>10. k + 1 \in 0..Len(b) /\ P(SubSeq(b, 1, k + 1))
      <3>1. k + 1 \in 0..Len(b)
        BY <1>0
      <3>2. P(SubSeq(b, 1, k + 1))
        BY <2>3, <2>9, Zenon
      <3> QED
        BY <3>1, <3>2
    <2> HIDE DEF P
    <2> QED
      BY <2>10
  <1>3. Len(b) \in S
    <2> HIDE DEF S
    <2>1. 0..Len(b) \subseteq S
      BY <1>0, <1>1, <1>2, Induction
    <2> QED
      BY <1>0, <2>1
  <1>4. SubSeq(b, 1, Len(b)) = b
    BY SubSeqFull
  <1> QED
    BY <1>3, <1>4

\* One text, and none.
LEMMA FlattenOne ==
  ASSUME NEW C, NEW x \in Seq(C)
  PROVE  FlattenSeq(<<x>>) = x
  <1>1. <<>> \in Seq(Seq(C)) /\ Append(<<>>, x) = <<x>> /\ FlattenSeq(<<>>) = <<>>
    BY FlattenEmpty
  <1>2. FlattenSeq(Append(<<>>, x)) = FlattenSeq(<<>>) \o x
    <2>1. <<>> \in Seq(C)
      OBVIOUS
    <2> QED
      BY <1>1, <2>1, FlattenAppend
  <1>3. <<>> \o x = x
    OBVIOUS
  <1> QED
    BY <1>1, <1>2, <1>3

LEMMA FlattenNothing ==
  ASSUME NEW q \in Seq({<<>>})
  PROVE  FlattenSeq(q) = <<>>
  <1>1. q \in Seq(Seq({}))
    <2>1. {<<>>} \subseteq Seq({})
      OBVIOUS
    <2> QED
      BY <2>1, SubsetSeq
  <1>2. FlattenSeq(q) \in Seq({})
    BY <1>1, FlattenType
  <1> QED
    BY <1>2

-----------------------------------------------------------------------------
(***************************************************************************)
(* Texts cut and replaced.                                                 *)
(***************************************************************************)

LEMMA ConcatParts ==
  ASSUME NEW C, NEW a \in Seq(C), NEW b \in Seq(C)
  PROVE  /\ a \o b \in Seq(C) /\ Len(a \o b) = Len(a) + Len(b)
         /\ Len(a) \in Nat /\ Len(b) \in Nat
         /\ \A i \in 1..Len(a) : (a \o b)[i] = a[i]
         /\ \A i \in 1..Len(b) : (a \o b)[Len(a) + i] = b[i]
  OBVIOUS

LEMMA ConcatTexts ==
  ASSUME NEW a \in Seq(Chars), NEW b \in Seq(Chars), NEW c \in Seq(Chars)
  PROVE  /\ a \o b \in Seq(Chars)
         /\ (a \o b) \o c = a \o (b \o c)
  OBVIOUS

LEMMA AllConcatTexts ==
  /\ \A a \in Seq(Chars), b \in Seq(Chars) : a \o b \in Seq(Chars)
  /\ \A a \in Seq(Chars), b \in Seq(Chars), c \in Seq(Chars) : (a \o b) \o c = a \o (b \o c)
  BY ConcatTexts

\* Between a and b no character is cut.
CutsNothing(a, b) ==
    a # <<>> /\ b # <<>> => a[Len(a)] # "l" \/ b[1] # "c"

\* Then replacing can be done apart.
LEMMA SanitizedConcat ==
  ASSUME NEW a \in Seq(Chars), NEW b \in Seq(Chars), CutsNothing(a, b)
  PROVE  Sanitized(a \o b) = Sanitized(a) \o Sanitized(b)
  <1> DEFINE s == a \o b
  <1>1. /\ s \in Seq(Chars) /\ Len(s) = Len(a) + Len(b) /\ Len(a) \in Nat /\ Len(b) \in Nat
        /\ \A i \in 1..Len(a) : s[i] = a[i]
        /\ \A i \in 1..Len(b) : s[Len(a) + i] = b[i]
    OBVIOUS
  <1>2. /\ Sanitized(s) \in Seq(Chars) /\ Len(Sanitized(s)) = Len(s)
        /\ Sanitized(a) \in Seq(Chars) /\ Len(Sanitized(a)) = Len(a)
        /\ Sanitized(b) \in Seq(Chars) /\ Len(Sanitized(b)) = Len(b)
    BY <1>1, SanitizedType
  <1> DEFINE t == Sanitized(a) \o Sanitized(b)
  <1>3. /\ t \in Seq(Chars) /\ Len(t) = Len(a) + Len(b)
        /\ \A i \in 1..Len(a) : t[i] = Sanitized(a)[i]
        /\ \A i \in 1..Len(b) : t[Len(a) + i] = Sanitized(b)[i]
    <2>1. PICK u \in Seq(Chars) : u = Sanitized(a) /\ Len(u) = Len(a)
      BY <1>2
    <2>2. PICK v \in Seq(Chars) : v = Sanitized(b) /\ Len(v) = Len(b)
      BY <1>2
    <2>3. t = u \o v
      BY <2>1, <2>2
    <2>4. /\ u \o v \in Seq(Chars) /\ Len(u \o v) = Len(u) + Len(v)
          /\ \A i \in 1..Len(u) : (u \o v)[i] = u[i]
          /\ \A i \in 1..Len(v) : (u \o v)[Len(u) + i] = v[i]
      BY ConcatParts
    <2> HIDE DEF t
    <2> QED
      BY <2>1, <2>2, <2>3, <2>4
  <1>4. a # <<>> <=> Len(a) > 0
    BY <1>1
  <1>5. b # <<>> <=> Len(b) > 0
    BY <1>1
  <1> HIDE DEF s, t
  <1>6. ASSUME NEW i \in 1..Len(a) PROVE Sanitized(s)[i] = t[i]
    <2>1. Sanitized(s)[i] = IF Whole(s, i) THEN s[i] ELSE "r"
      BY <1>1 DEF Sanitized
    <2>2. Sanitized(a)[i] = IF Whole(a, i) THEN a[i] ELSE "r"
      BY <1>1 DEF Sanitized
    <2>3. s[i] = "l" => (Whole(s, i) <=> Whole(a, i))
      <3>1. i < Len(a) => s[i + 1] = a[i + 1]
        BY <1>1
      <3>2. i = Len(a) /\ i < Len(s) /\ s[i] = "l" => s[i + 1] # "c"
        BY <1>1, <1>4, <1>5 DEF CutsNothing
      <3> QED
        BY <1>1, <3>1, <3>2 DEF Whole
    <2>4. s[i] = "c" => (Whole(s, i) <=> Whole(a, i))
      <3>1. i > 1 => s[i - 1] = a[i - 1]
        BY <1>1
      <3> QED
        BY <1>1, <3>1 DEF Whole
    <2>5. s[i] \notin {"l", "c"} => Whole(s, i) /\ Whole(a, i)
      BY <1>1 DEF Whole
    <2> QED
      BY <1>1, <1>3, <2>1, <2>2, <2>3, <2>4, <2>5
  <1>7. ASSUME NEW i \in 1..Len(b) PROVE Sanitized(s)[Len(a) + i] = t[Len(a) + i]
    <2> DEFINE k == Len(a) + i
    <2>0. k \in 1..Len(s) /\ s[k] = b[i]
      BY <1>1
    <2>1. Sanitized(s)[k] = IF Whole(s, k) THEN s[k] ELSE "r"
      BY <1>1, <2>0 DEF Sanitized
    <2>2. Sanitized(b)[i] = IF Whole(b, i) THEN b[i] ELSE "r"
      BY <1>1 DEF Sanitized
    <2>3. s[k] = "c" => (Whole(s, k) <=> Whole(b, i))
      <3>1. i > 1 => s[k - 1] = b[i - 1] /\ k > 1
        BY <1>1
      <3>2. i = 1 /\ k > 1 /\ s[k] = "c" => s[k - 1] # "l"
        <4>1. SUFFICES ASSUME i = 1, k > 1, s[k] = "c" PROVE s[k - 1] # "l"
          OBVIOUS
        <4>2. k - 1 = Len(a) /\ Len(a) > 0 /\ Len(b) > 0 /\ b[1] = "c"
          BY <1>1, <2>0, <4>1
        <4> QED
          BY SMTT(60), <1>1, <1>4, <1>5, <4>2 DEF CutsNothing
      <3>3. k > 1 \/ i = 1
        BY <1>1
      <3> QED
        BY <1>1, <2>0, <3>1, <3>2, <3>3 DEF Whole
    <2>4. s[k] = "l" => (Whole(s, k) <=> Whole(b, i))
      <3>1. i < Len(b) <=> k < Len(s)
        BY <1>1
      <3>2. i < Len(b) => s[k + 1] = b[i + 1]
        <4>1. i < Len(b) => i + 1 \in 1..Len(b) /\ Len(a) + (i + 1) = k + 1
          BY <1>1
        <4> QED
          BY <1>1, <4>1
      <3> QED
        BY <1>1, <2>0, <3>1, <3>2 DEF Whole
    <2>5. s[k] \notin {"l", "c"} => Whole(s, k) /\ Whole(b, i)
      BY <1>1, <2>0 DEF Whole
    <2> HIDE DEF k
    <2>6. Sanitized(s)[k] = Sanitized(b)[i]
      BY <1>1, <2>0, <2>1, <2>2, <2>3, <2>4, <2>5
    <2> QED
      BY <1>3, <2>6 DEF k
  <1>8. ASSUME NEW i \in 1..Len(Sanitized(s)) PROVE Sanitized(s)[i] = t[i]
    <2>1. CASE i <= Len(a)
      BY <1>1, <1>2, <1>6, <2>1
    <2>2. CASE i > Len(a)
      <3>1. i - Len(a) \in 1..Len(b) /\ Len(a) + (i - Len(a)) = i
        BY <1>1, <1>2, <2>2
      <3> QED
        BY <1>7, <3>1
    <2> QED
      BY <1>1, <2>1, <2>2
  <1>9. Sanitized(s) = t
    BY <1>1, <1>2, <1>3, <1>8, SeqEqual
  <1> QED
    BY <1>9 DEF s, t

\* A text of whole characters is not changed, and ends with one.
AllWhole(s) == \A i \in 1..Len(s) : Whole(s, i)

LEMMA SanitizedWhole ==
  ASSUME NEW s \in Seq(Chars), AllWhole(s)
  PROVE  Sanitized(s) = s /\ (s # <<>> => s[Len(s)] # "l")
  <1>1. Sanitized(s) \in Seq(Chars) /\ Len(Sanitized(s)) = Len(s) /\ Len(s) \in Nat
    BY SanitizedType
  <1>2. \A i \in 1..Len(s) : Sanitized(s)[i] = s[i]
    BY <1>1 DEF Sanitized, AllWhole
  <1>3. Sanitized(s) = s
    BY <1>1, <1>2, SeqEqual
  <1>4. s # <<>> => s[Len(s)] # "l"
    <2>1. s # <<>> => Len(s) \in 1..Len(s)
      BY <1>1
    <2> QED
      BY <1>1, <2>1 DEF AllWhole, Whole
  <1> QED
    BY <1>3, <1>4

LEMMA SanitizedOne ==
  ASSUME NEW x \in {"l", "c"}
  PROVE  Sanitized(<<x>>) = <<"r">>
  <1>1. ~Whole(<<x>>, 1)
    BY DEF Whole
  <1> QED
    BY <1>1 DEF Sanitized

LEMMA SanitizedEmpty == Sanitized(<<>>) = <<>>
  BY DEF Sanitized

\* The first byte after the longest prefix of whole characters is the second of a
\* character, or the first of one that does not go on.
LEMMA BadByte ==
  ASSUME NEW s \in Seq(Chars), NEW n, n = ValidPrefix(s), n < Len(s)
  PROVE  /\ n \in 0..(Len(s) - 1) /\ AllWhole(SubSeq(s, 1, n))
         /\ s[n + 1] = "c" \/ (s[n + 1] = "l" /\ (n + 1 < Len(s) => s[n + 2] # "c"))
  <1>1. /\ n \in 0..Len(s) /\ Len(s) \in Nat
        /\ \A i \in 1..n : Whole(SubSeq(s, 1, n), i)
        /\ \A k \in (n + 1)..Len(s) : \E i \in 1..k : ~Whole(SubSeq(s, 1, k), i)
    BY ValidPrefixType
  <1>2. \A k \in 0..Len(s) : /\ Len(SubSeq(s, 1, k)) = k
                             /\ \A i \in 1..k : SubSeq(s, 1, k)[i] = s[i]
    BY <1>1
  <1>3. ASSUME NEW k \in n..Len(s), NEW i \in 1..n PROVE Whole(SubSeq(s, 1, k), i)
    <2>1. Whole(SubSeq(s, 1, n), i)
      BY <1>1
    <2>2. /\ SubSeq(s, 1, n)[i] = s[i] /\ SubSeq(s, 1, k)[i] = s[i]
          /\ Len(SubSeq(s, 1, n)) = n /\ Len(SubSeq(s, 1, k)) = k
          /\ i < n => SubSeq(s, 1, n)[i + 1] = s[i + 1] /\ SubSeq(s, 1, k)[i + 1] = s[i + 1]
          /\ i > 1 => SubSeq(s, 1, n)[i - 1] = s[i - 1] /\ SubSeq(s, 1, k)[i - 1] = s[i - 1]
      BY <1>1, <1>2
    <2>3. PICK p : p = SubSeq(s, 1, n)
      OBVIOUS
    <2>4. PICK q : q = SubSeq(s, 1, k)
      OBVIOUS
    <2>5. Whole(p, i) => Whole(q, i)
      <3>1. CASE s[i] = "l"
        BY <1>1, <2>2, <2>3, <2>4, <3>1 DEF Whole
      <3>2. CASE s[i] = "c"
        BY <1>1, <2>2, <2>3, <2>4, <3>2 DEF Whole
      <3>3. CASE s[i] \notin {"l", "c"}
        BY <1>1, <2>2, <2>3, <2>4, <3>3 DEF Whole
      <3> QED
        BY <3>1, <3>2, <3>3
    <2> QED
      BY <2>1, <2>3, <2>4, <2>5
  <1>4. AllWhole(SubSeq(s, 1, n))
    BY <1>1, <1>2 DEF AllWhole
  <1>5. ~Whole(SubSeq(s, 1, n + 1), n + 1)
    <2>1. PICK i \in 1..(n + 1) : ~Whole(SubSeq(s, 1, n + 1), i)
      BY <1>1
    <2>2. i \notin 1..n
      BY <1>1, <1>3, <2>1
    <2> QED
      BY <1>1, <2>1, <2>2
  <1>6. SubSeq(s, 1, n + 1)[n + 1] = s[n + 1]
    BY <1>1, <1>2
  <1>7. s[n + 1] \in {"l", "c"}
    BY <1>5, <1>6 DEF Whole
  <1>8. ASSUME s[n + 1] = "l", n + 1 < Len(s), s[n + 2] = "c" PROVE FALSE
    <2>1. PICK i \in 1..(n + 2) : ~Whole(SubSeq(s, 1, n + 2), i)
      BY <1>1, <1>8
    <2>2. i = n + 1 \/ i = n + 2
      BY <1>1, <1>3, <1>8, <2>1
    <2>3. /\ Len(SubSeq(s, 1, n + 2)) = n + 2
          /\ SubSeq(s, 1, n + 2)[n + 1] = "l" /\ SubSeq(s, 1, n + 2)[n + 2] = "c"
      <3>1. n + 2 \in 0..Len(s) /\ n + 1 \in 1..(n + 2) /\ n + 2 \in 1..(n + 2)
        BY <1>1, <1>8
      <3> QED
        BY <1>2, <1>8, <3>1
    <2>4. Whole(SubSeq(s, 1, n + 2), n + 1)
      BY <1>1, <2>3 DEF Whole
    <2>5. Whole(SubSeq(s, 1, n + 2), n + 2)
      <3>1. (n + 2) - 1 = n + 1 /\ n + 2 > 1
        BY <1>1
      <3> QED
        BY <2>3, <3>1 DEF Whole
    <2> QED
      BY <2>1, <2>2, <2>4, <2>5
  <1> QED
    BY <1>1, <1>4, <1>7, <1>8

-----------------------------------------------------------------------------
(***************************************************************************)
(* Draining is replacing.                                                  *)
(***************************************************************************)

\* What may come after the text that is drained.
Later(final) == IF final THEN {<<>>} ELSE Seq(Chars)
\* What is drained from position i on, and what is left, are what replacing makes
\* of the text, whatever comes after it.
Sound(s, final, i, d) ==
    /\ d.deltas \in Seq(Seq(Chars)) /\ d.rest \in Seq(Chars)
    /\ final => d.rest = <<>>
    /\ \A X \in Later(final) :
         Sanitized(Ahead(s, i) \o X) = FlattenSeq(d.deltas) \o Sanitized(d.rest \o X)

\* The text before the first byte that is not of a character, and its length.
Size(s, i) == ValidPrefix(Ahead(s, i))
Valid(s, i) == SubSeq(Ahead(s, i), 1, Size(s, i))

LEMMA ValidText ==
  ASSUME NEW s \in Seq(Chars), NEW i \in 1..(Len(s) + 1)
  PROVE  /\ Ahead(s, i) \in Seq(Chars) /\ Len(Ahead(s, i)) = Len(s) + 1 - i
         /\ Size(s, i) \in 0..Len(Ahead(s, i))
         /\ Valid(s, i) \in Seq(Chars) /\ Len(Valid(s, i)) = Size(s, i)
         /\ ValidAt(s, i) \in Seq(Seq(Chars)) /\ FlattenSeq(ValidAt(s, i)) = Valid(s, i)
         /\ Sanitized(Valid(s, i)) = Valid(s, i)
         /\ Valid(s, i) # <<>> => Valid(s, i)[Len(Valid(s, i))] # "l"
         /\ Bad(s, i) = i + Size(s, i) /\ Bad(s, i) \in i..(Len(s) + 1)
         /\ Size(s, i) = Len(Ahead(s, i)) => Valid(s, i) = Ahead(s, i)
  <1> DEFINE t == Ahead(s, i)
             n == Size(s, i)
             V == Valid(s, i)
  <1>1. /\ t \in Seq(Chars) /\ Len(t) = Len(s) + 1 - i /\ Len(s) \in Nat
        /\ ValidAt(s, i) \in Seq(Seq(Chars)) /\ Bad(s, i) \in i..(Len(s) + 1)
    <2>1. Len(s) \in Nat
      OBVIOUS
    <2> QED
      BY <2>1, AheadType
  <1>2. n \in 0..Len(t) /\ \A j \in 1..n : Whole(V, j)
    BY <1>1, ValidPrefixType DEF Size, Valid
  <1>3. V \in Seq(Chars) /\ Len(V) = n
    BY <1>1, <1>2 DEF Valid
  <1>4. FlattenSeq(ValidAt(s, i)) = V
    <2>1. CASE n = 0
      <3>1. ValidAt(s, i) = <<>> /\ V = <<>>
        BY <1>1, <2>1 DEF ValidAt, Valid, Size
      <3> QED
        BY <3>1, FlattenEmpty
    <2>2. CASE n # 0
      <3>1. ValidAt(s, i) = <<V>>
        BY <2>2 DEF ValidAt, Valid, Size
      <3> QED
        BY <1>3, <3>1, FlattenOne
    <2> QED
      BY <2>1, <2>2
  <1>5. Sanitized(V) = V /\ (V # <<>> => V[Len(V)] # "l")
    <2>1. AllWhole(V)
      BY <1>2, <1>3 DEF AllWhole
    <2> QED
      BY <1>3, <2>1, SanitizedWhole
  <1>6. Bad(s, i) = i + n
    BY DEF Bad, Size
  <1>7. n = Len(t) => V = t
    BY <1>1, SubSeqFull DEF Valid
  <1> QED
    BY <1>1, <1>2, <1>3, <1>4, <1>5, <1>6, <1>7

\* The text up to that byte, and what is ahead of it.
LEMMA BadText ==
  ASSUME NEW s \in Seq(Chars), NEW i \in 1..(Len(s) + 1), ~(Bad(s, i) > Len(s))
  PROVE  LET x == s[Bad(s, i)]
             A == Ahead(s, Bad(s, i) + 1)
         IN /\ x \in {"l", "c"} /\ A \in Seq(Chars) /\ Len(A) = Len(s) - Bad(s, i)
            /\ Ahead(s, i) = (Valid(s, i) \o <<x>>) \o A
            /\ Sanitized(Valid(s, i) \o <<x>>) = Valid(s, i) \o <<"r">>
            /\ x = "l" /\ A # <<>> => A[1] # "c"
  <1>x. PICK x : x = s[Bad(s, i)]
    OBVIOUS
  <1>y. PICK A : A = Ahead(s, Bad(s, i) + 1)
    OBVIOUS
  <1>a. PICK t : t = Ahead(s, i)
    OBVIOUS
  <1>b. PICK n : n = Size(s, i)
    OBVIOUS
  <1>c. PICK V : V = Valid(s, i)
    OBVIOUS
  <1>1. /\ t \in Seq(Chars) /\ Len(t) = Len(s) + 1 - i /\ n \in 0..Len(t)
        /\ V \in Seq(Chars) /\ Len(V) = n /\ Sanitized(V) = V
        /\ V # <<>> => V[Len(V)] # "l"
        /\ Bad(s, i) = i + n /\ Bad(s, i) \in i..(Len(s) + 1)
        /\ n < Len(t) /\ Len(s) \in Nat
    <2>1. Len(s) \in Nat
      OBVIOUS
    <2>2. /\ t \in Seq(Chars) /\ Len(t) = Len(s) + 1 - i /\ n \in 0..Len(t)
          /\ V \in Seq(Chars) /\ Len(V) = n /\ Sanitized(V) = V
          /\ V # <<>> => V[Len(V)] # "l"
          /\ Bad(s, i) = i + n /\ Bad(s, i) \in i..(Len(s) + 1)
      BY <1>a, <1>b, <1>c, ValidText
    <2>3. n < Len(t)
      BY <2>1, <2>2
    <2> QED
      BY <2>1, <2>2, <2>3
  <1>3. \A k \in 1..Len(t) : t[k] = s[i + k - 1]
    <2>1. i \in Nat /\ \A k \in 1..(Len(s) - i + 1) : SubSeq(s, i, Len(s))[k] = s[i + k - 1]
      BY <1>1
    <2> QED
      BY <1>a, <1>1, <2>1 DEF Ahead
  <1>d. x = t[n + 1]
    <2>1. n + 1 \in 1..Len(t) /\ i + (n + 1) - 1 = Bad(s, i)
      BY <1>1
    <2> QED
      BY <1>x, <1>3, <2>1
  <1>2. x = "c" \/ (x = "l" /\ (n + 1 < Len(t) => t[n + 2] # "c"))
    BY <1>a, <1>b, <1>d, <1>1, BadByte DEF Size
  <1>4. Bad(s, i) + 1 \in 1..(Len(s) + 1) /\ Len(s) \in Nat
    BY <1>1
  <1>5. /\ A \in Seq(Chars) /\ Len(A) = Len(s) - Bad(s, i) /\ Len(A) = Len(t) - (n + 1)
        /\ \A k \in 1..Len(A) : A[k] = s[Bad(s, i) + k]
    <2>1. PICK b \in 1..Len(s) : b = Bad(s, i)
      BY <1>1
    <2>2. /\ SubSeq(s, b + 1, Len(s)) \in Seq(Chars)
          /\ Len(SubSeq(s, b + 1, Len(s))) = Len(s) - b
          /\ \A k \in 1..(Len(s) - b) : SubSeq(s, b + 1, Len(s))[k] = s[b + k]
      BY <1>1
    <2>3. A = SubSeq(s, b + 1, Len(s))
      BY <1>y, <2>1 DEF Ahead
    <2>4. Len(s) - b = Len(t) - (n + 1)
      BY <1>1, <2>1
    <2> QED
      BY <2>1, <2>2, <2>3, <2>4
  <1>7. x \in Chars
    BY <1>2 DEF Chars
  <1>8. t = (V \o <<x>>) \o A
    <2>1. /\ (V \o <<x>>) \in Seq(Chars) /\ Len(V \o <<x>>) = n + 1
          /\ \A k \in 1..n : (V \o <<x>>)[k] = V[k]
          /\ (V \o <<x>>)[n + 1] = x
      <3>1. V \in Seq(Chars) /\ Len(V) = n /\ n \in Nat
        BY <1>1
      <3> QED
        BY <1>7, <3>1
    <2>a. PICK W : W = V \o <<x>>
      OBVIOUS
    <2>b. PICK u : u = W \o A
      OBVIOUS
    <2>2. /\ u \in Seq(Chars) /\ Len(u) = Len(t)
          /\ \A k \in 1..(n + 1) : u[k] = W[k]
          /\ \A k \in 1..Len(A) : u[(n + 1) + k] = A[k]
      <3>1. W \in Seq(Chars) /\ Len(W) = n + 1 /\ A \in Seq(Chars) /\ u = W \o A
        BY <1>5, <2>1, <2>a, <2>b
      <3>2. (n + 1) + Len(A) = Len(t)
        BY <1>1, <1>5
      <3>3. /\ W \o A \in Seq(Chars) /\ Len(W \o A) = Len(W) + Len(A)
            /\ \A k \in 1..Len(W) : (W \o A)[k] = W[k]
            /\ \A k \in 1..Len(A) : (W \o A)[Len(W) + k] = A[k]
        <4>1. W \in Seq(Chars) /\ A \in Seq(Chars)
          BY <3>1
        <4> QED
          BY <4>1
      <3> QED
        BY <3>1, <3>2, <3>3
    <2>3. \A k \in 1..n : V[k] = t[k]
      BY <1>b, <1>a, <1>c, <1>1 DEF Valid
    <2>4. ASSUME NEW k \in 1..Len(t) PROVE t[k] = u[k]
      <3>1. CASE k <= n
        <4>1. k \in 1..n /\ k \in 1..(n + 1)
          BY <1>1, <3>1
        <4> QED
          BY <2>1, <2>2, <2>3, <2>a, <4>1
      <3>2. CASE k = n + 1
        <4>1. n + 1 \in 1..(n + 1)
          BY <1>1
        <4> QED
          BY <1>d, <2>1, <2>2, <2>a, <3>2, <4>1
      <3>3. CASE k > n + 1
        <4>1. k - (n + 1) \in 1..Len(A) /\ (n + 1) + (k - (n + 1)) = k
              /\ Bad(s, i) + (k - (n + 1)) = i + k - 1
          BY <1>1, <1>5, <3>3
        <4> QED
          BY <1>3, <1>5, <2>2, <4>1
      <3> QED
        BY <1>1, <3>1, <3>2, <3>3
    <2>5. t = u
      BY <1>1, <2>2, <2>4, SeqEqual
    <2> QED
      BY <2>5, <2>a, <2>b
  <1>9. Sanitized(V \o <<x>>) = V \o <<"r">>
    <2>1. CutsNothing(V, <<x>>)
      BY <1>1 DEF CutsNothing
    <2>2. <<x>> \in Seq(Chars) /\ Sanitized(<<x>>) = <<"r">>
      BY <1>2, <1>7, SanitizedOne
    <2> QED
      BY <1>1, <2>1, <2>2, SanitizedConcat
  <1>10. x = "l" /\ A # <<>> => A[1] # "c"
    <2>1. SUFFICES ASSUME x = "l", A # <<>> PROVE A[1] # "c"
      OBVIOUS
    <2>2. Len(A) > 0
      BY <1>5, <2>1
    <2>3. n + 1 < Len(t) /\ n + 2 \in 1..Len(t) /\ i + (n + 2) - 1 = Bad(s, i) + 1
      BY <1>1, <1>5, <2>2
    <2>4. A[1] = t[n + 2]
      <3>1. 1 \in 1..Len(A)
        BY <1>5, <2>2
      <3>2. A[1] = s[Bad(s, i) + 1]
        BY <1>5, <3>1
      <3>3. t[n + 2] = s[i + (n + 2) - 1]
        BY <1>3, <2>3
      <3> QED
        BY <2>3, <3>2, <3>3
    <2> QED
      BY <1>2, <2>1, <2>3, <2>4
  <1> QED
    BY <1>a, <1>c, <1>x, <1>y, <1>2, <1>5, <1>8, <1>9, <1>10

\* One turn of the loop of drain_pending.
LEMMA DrainStep ==
  ASSUME NEW s \in Seq(Chars), NEW final \in BOOLEAN, NEW i \in 1..(Len(s) + 1), NEW f,
         \A k \in (i + 1)..(Len(s) + 1) : Sound(s, final, k, f[k])
  PROVE  Sound(s, final, i, DrainedAt(s, final, f, i))
  <1>1. PICK t : t = Ahead(s, i)
    OBVIOUS
  <1>2. PICK n : n = Size(s, i)
    OBVIOUS
  <1>3. PICK V : V = Valid(s, i)
    OBVIOUS
  <1>4. PICK D : D = ValidAt(s, i)
    OBVIOUS
  <1>5. /\ t \in Seq(Chars) /\ Len(t) = Len(s) + 1 - i /\ n \in 0..Len(t)
        /\ V \in Seq(Chars) /\ Len(V) = n
        /\ D \in Seq(Seq(Chars)) /\ FlattenSeq(D) = V
        /\ Sanitized(V) = V /\ (V # <<>> => V[Len(V)] # "l")
        /\ Bad(s, i) = i + n /\ Bad(s, i) \in i..(Len(s) + 1)
        /\ n = Len(t) => V = t
    BY <1>1, <1>2, <1>3, <1>4, ValidText
  <1>6. \A X \in Later(final) : X \in Seq(Chars)
    <2>1. <<>> \in Seq(Chars)
      OBVIOUS
    <2> QED
      BY <2>1 DEF Later
  <1>7. \A Y \in Seq(Chars) : Sanitized(V \o Y) = V \o Sanitized(Y)
    <2>1. \A Y : CutsNothing(V, Y)
      BY <1>5 DEF CutsNothing
    <2> QED
      BY <1>5, <2>1, SanitizedConcat
  <1>8. CASE Bad(s, i) > Len(s)
    <2>1. t = V
      <3>1. Len(s) \in Nat
        OBVIOUS
      <3>2. n = Len(t)
        <4>1. i + n > Len(s) /\ n \in 0..Len(t) /\ Len(t) = Len(s) + 1 - i
          BY <1>5, <1>8
        <4> QED
          BY <3>1, <4>1
      <3> QED
        BY <1>5, <3>2
    <2>2. DrainedAt(s, final, f, i) = [deltas |-> D, rest |-> <<>>]
      BY <1>4, <1>8 DEF DrainedAt
    <2>3. \A X \in Later(final) : Sanitized(t \o X) = V \o Sanitized(<<>> \o X)
      <3>1. \A X \in Seq(Chars) : <<>> \o X = X
        BY ConcatEmptySeq
      <3> QED
        BY <1>6, <1>7, <2>1, <3>1
    <2>4. <<>> \in Seq(Chars)
      OBVIOUS
    <2>5. PICK d : d = DrainedAt(s, final, f, i)
      OBVIOUS
    <2>6. d.deltas = D /\ d.rest = <<>>
      BY <2>2, <2>5
    <2>7. \A X \in Later(final) :
            Sanitized(t \o X) = FlattenSeq(d.deltas) \o Sanitized(d.rest \o X)
      BY <1>5, <2>3, <2>6
    <2>8. d.deltas \in Seq(Seq(Chars)) /\ d.rest \in Seq(Chars)
      BY <1>5, <2>4, <2>6
    <2> QED
      BY <1>1, <2>5, <2>6, <2>7, <2>8 DEF Sound
  <1>9. CASE ~(Bad(s, i) > Len(s))
    <2>1. n < Len(t) /\ Bad(s, i) <= Len(s) /\ Len(s) \in Nat
      BY <1>5, <1>9
    <2>2. PICK x : x = s[Bad(s, i)]
      OBVIOUS
    <2>3. PICK A : A = Ahead(s, Bad(s, i) + 1)
      OBVIOUS
    <2>c. PICK c \in Seq(Chars) : c = <<x>>
      <3>1. x \in {"l", "c"}
        BY <1>9, <2>2, BadText
      <3>2. <<x>> \in Seq(Chars)
        BY <3>1 DEF Chars
      <3> QED
        BY <3>2
    <2>4. /\ x \in {"l", "c"}
          /\ A \in Seq(Chars) /\ Len(A) = Len(s) - Bad(s, i)
          /\ t = (V \o c) \o A /\ Sanitized(V \o c) = V \o <<"r">>
          /\ x = "l" /\ A # <<>> => A[1] # "c"
      <3>1. /\ x \in {"l", "c"}
            /\ A \in Seq(Chars) /\ Len(A) = Len(s) - Bad(s, i)
            /\ Ahead(s, i) = (Valid(s, i) \o <<x>>) \o A
            /\ Sanitized(Valid(s, i) \o <<x>>) = Valid(s, i) \o <<"r">>
            /\ x = "l" /\ A # <<>> => A[1] # "c"
        BY <1>9, <2>2, <2>3, BadText
      <3> QED
        BY <1>1, <1>3, <2>c, <3>1
    <2>5. PICK r \in Seq(Chars) : r = <<"r">>
      <3>1. <<"r">> \in Seq(Chars)
        BY DEF Chars
      <3> QED
        BY <3>1
    <2>6. V \o c \in Seq(Chars) /\ V \o r \in Seq(Chars)
      BY <1>5
    <2>7. <<r>> \in Seq(Seq(Chars)) /\ D \o <<r>> \in Seq(Seq(Chars))
          /\ FlattenSeq(D \o <<r>>) = V \o r
      <3>1. <<r>> \in Seq(Seq(Chars)) /\ FlattenSeq(<<r>>) = r
        BY FlattenOne
      <3>2. D \o <<r>> \in Seq(Seq(Chars))
        BY <1>5, <3>1
      <3> QED
        BY <1>5, <3>1, <3>2, FlattenConcat
    <2>8. CASE Bad(s, i) = Len(s) /\ x = "l"
      <3>1. A = <<>> /\ t = V \o c
        <4>1. A = <<>>
          BY <2>4, <2>8
        <4> QED
          BY <2>4, <2>6, <4>1, ConcatEmptySeq
      <3>2. CASE final
        <4>1. DrainedAt(s, final, f, i) = [deltas |-> D \o <<r>>, rest |-> <<>>]
          BY <1>4, <1>9, <2>2, <2>5, <2>8, <3>2 DEF DrainedAt
        <4>2. PICK e \in Seq(Chars) : e = <<>>
          <5>1. <<>> \in Seq(Chars)
            OBVIOUS
          <5> QED
            BY <5>1
        <4>3. Sanitized(t \o e) = (V \o r) \o Sanitized(e \o e)
          <5>1. t \o e = t /\ e \o e = e /\ (V \o r) \o e = V \o r
            BY <1>5, <2>6, <4>2, ConcatEmptySeq
          <5>2. Sanitized(e) = e
            BY <4>2, SanitizedEmpty
          <5> QED
            BY <2>4, <2>5, <3>1, <5>1, <5>2
        <4>4. \A X \in Later(final) : X = e
          BY <3>2, <4>2 DEF Later
        <4>5. PICK d : d = DrainedAt(s, final, f, i)
          OBVIOUS
        <4>6. d.deltas = D \o <<r>> /\ d.rest = e
          BY <4>1, <4>2, <4>5
        <4> QED
          BY <1>1, <2>7, <4>2, <4>3, <4>4, <4>5, <4>6 DEF Sound
      <3>3. CASE ~final
        <4>1. DrainedAt(s, final, f, i) = [deltas |-> D, rest |-> <<"l">>]
          BY <1>4, <1>9, <2>2, <2>8, <3>3 DEF DrainedAt
        <4>2. ASSUME NEW X \in Later(final)
              PROVE  Sanitized(t \o X) = V \o Sanitized(c \o X)
          <5>1. X \in Seq(Chars) /\ c \o X \in Seq(Chars)
            BY <1>6
          <5>2. (V \o c) \o X = V \o (c \o X)
            <6>1. V \in Seq(Chars) /\ X \in Seq(Chars)
              BY <1>5, <5>1
            <6> QED
              BY <6>1, AllConcatTexts, ZenonT(30)
          <5> QED
            BY <1>7, <3>1, <5>1, <5>2
        <4> QED
          <5>1. PICK d : d = DrainedAt(s, final, f, i)
            OBVIOUS
          <5>2. d.deltas = D /\ d.rest = c
            BY <2>c, <2>8, <4>1, <5>1
          <5>3. \A X \in Later(final) :
                  Sanitized(t \o X) = FlattenSeq(d.deltas) \o Sanitized(d.rest \o X)
            BY <1>5, <4>2, <5>2
          <5>4. d.deltas \in Seq(Seq(Chars)) /\ d.rest \in Seq(Chars)
            BY <1>5, <5>2
          <5> QED
            BY <1>1, <3>3, <5>1, <5>3, <5>4 DEF Sound
      <3> QED
        BY <3>2, <3>3
    <2>9. CASE ~(Bad(s, i) = Len(s) /\ x = "l")
      <3>1. PICK g : g = f[Bad(s, i) + 1]
        OBVIOUS
      <3>2. Sound(s, final, Bad(s, i) + 1, g)
        <4>1. Bad(s, i) + 1 \in (i + 1)..(Len(s) + 1)
          BY <1>5, <2>1
        <4> QED
          BY <3>1, <4>1
      <3>a. PICK q : q = D \o <<r>> \o g.deltas
        OBVIOUS
      <3>3. DrainedAt(s, final, f, i) = [deltas |-> q, rest |-> g.rest]
        BY <3>a, <1>4, <1>9, <2>2, <2>5, <2>9, <3>1 DEF DrainedAt
      <3>4. g.deltas \in Seq(Seq(Chars)) /\ g.rest \in Seq(Chars)
            /\ D \o <<r>> \o g.deltas \in Seq(Seq(Chars))
            /\ FlattenSeq(D \o <<r>> \o g.deltas) = (V \o r) \o FlattenSeq(g.deltas)
            /\ FlattenSeq(g.deltas) \in Seq(Chars)
        <4>1. g.deltas \in Seq(Seq(Chars)) /\ g.rest \in Seq(Chars)
          BY <3>2 DEF Sound
        <4>2. D \o <<r>> \o g.deltas \in Seq(Seq(Chars))
          BY <2>7, <4>1
        <4> QED
          BY <2>7, <4>1, <4>2, FlattenConcat, FlattenType
      <3>5. ASSUME NEW X \in Later(final)
            PROVE  Sanitized(t \o X) = ((V \o r) \o FlattenSeq(g.deltas)) \o Sanitized(g.rest \o X)
        <4>1. X \in Seq(Chars) /\ A \o X \in Seq(Chars) /\ g.rest \o X \in Seq(Chars)
          BY <1>6, <2>4, <3>4
        <4>2. t \o X = (V \o c) \o (A \o X)
          <5>1. PICK w \in Seq(Chars) : w = V \o c
            BY <2>6
          <5>2. A \in Seq(Chars) /\ X \in Seq(Chars)
            BY <2>4, <4>1
          <5>3. (w \o A) \o X = w \o (A \o X)
            BY <5>2, ConcatTexts
          <5> QED
            BY <2>4, <5>1, <5>3
        <4>3. CutsNothing(V \o c, A \o X)
          <5>1. SUFFICES ASSUME x = "l" PROVE (A \o X)[1] # "c"
            <6>1. Len(V \o c) = n + 1 /\ (V \o c)[n + 1] = x
              BY <1>5, <2>c
            <6> QED
              BY <5>1, <6>1 DEF CutsNothing
          <5>2. Len(A) > 0 /\ A # <<>>
            <6>1. Bad(s, i) # Len(s)
              BY <2>9, <5>1
            <6>2. Len(A) > 0
              <7>1. Len(A) = Len(s) - Bad(s, i) /\ Bad(s, i) \in Nat
                BY <1>5, <2>4
              <7> QED
                BY <2>1, <6>1, <7>1
            <6> QED
              BY <6>2
          <5>3. (A \o X)[1] = A[1]
            BY <2>4, <4>1, <5>2
          <5> QED
            BY <2>4, <5>1, <5>2, <5>3
        <4>4. Sanitized((V \o c) \o (A \o X)) = (V \o r) \o Sanitized(A \o X)
          <5>1. Sanitized((V \o c) \o (A \o X)) = Sanitized(V \o c) \o Sanitized(A \o X)
            BY <2>6, <4>1, <4>3, SanitizedConcat
          <5> QED
            BY <2>4, <2>5, <5>1
        <4>5. Sanitized(A \o X) = FlattenSeq(g.deltas) \o Sanitized(g.rest \o X)
          BY <2>3, <3>2 DEF Sound
        <4>6. Sanitized(g.rest \o X) \in Seq(Chars)
          BY <4>1, SanitizedType
        <4> QED
          <5>1. PICK y \in Seq(Chars) : y = Sanitized(g.rest \o X)
            BY <4>6
          <5>2. PICK z \in Seq(Chars) : z = FlattenSeq(g.deltas)
            BY <3>4
          <5>3. PICK w \in Seq(Chars) : w = V \o r
            BY <2>6
          <5>4. w \o (z \o y) = (w \o z) \o y
            BY ZenonT(60), ConcatTexts
          <5> QED
            BY <4>2, <4>4, <4>5, <5>1, <5>2, <5>3, <5>4
      <3>6. PICK d : d = DrainedAt(s, final, f, i)
        OBVIOUS
      <3>7. d.deltas = q /\ d.rest = g.rest
        BY <3>3, <3>6
      <3>8. d.deltas \in Seq(Seq(Chars)) /\ d.rest \in Seq(Chars)
            /\ FlattenSeq(d.deltas) = (V \o r) \o FlattenSeq(g.deltas)
            /\ (final => d.rest = <<>>)
        <4>1. final => g.rest = <<>>
          BY <3>2 DEF Sound
        <4> QED
          BY <3>4, <3>7, <3>a, <4>1
      <3> QED
        BY <1>1, <3>5, <3>6, <3>7, <3>8 DEF Sound
    <2> QED
      BY <2>8, <2>9
  <1> QED
    BY <1>8, <1>9

\* What drain_pending emits of a text and leaves of it are, put together with
\* whatever follows, the text with its broken characters replaced.
LEMMA DrainSound ==
  ASSUME NEW s \in Seq(Chars), NEW final \in BOOLEAN, NEW d, d = Drained(s, final)
  PROVE  /\ d.deltas \in Seq(Seq(Chars)) /\ d.rest \in Seq(Chars)
         /\ final => d.rest = <<>>
         /\ \A X \in Later(final) :
              Sanitized(s \o X) = FlattenSeq(d.deltas) \o Sanitized(d.rest \o X)
  <1>1. PICK f : /\ Drained(s, final) = f[1]
                 /\ f = [i \in 1..(Len(s) + 1) |-> DrainedAt(s, final, f, i)]
    BY DrainedIs
  <1> DEFINE L == Len(s) + 1
             T == {k \in 0..L : \A i \in (L + 1 - k)..L : Sound(s, final, i, f[i])}
  <1>0. L \in Nat \ {0}
    OBVIOUS
  <1>2. 0 \in T
    BY <1>0
  <1>3. ASSUME NEW k \in 0..(L - 1), k \in T PROVE k + 1 \in T
    <2> DEFINE i == L - k
    <2>1. i \in 1..L /\ \A m \in (i + 1)..L : Sound(s, final, m, f[m])
      BY <1>0, <1>3
    <2>2. Sound(s, final, i, f[i])
      <3>1. f[i] = DrainedAt(s, final, f, i)
        BY <1>1, <2>1
      <3> HIDE DEF i
      <3> QED
        BY <2>1, <3>1, DrainStep
    <2>3. \A m \in (L + 1 - (k + 1))..L : m = i \/ m \in (i + 1)..L
      BY <1>0
    <2> QED
      BY <1>0, <2>1, <2>2, <2>3
  <1>4. Sound(s, final, 1, f[1])
    <2>1. L \in T
      <3> HIDE DEF T, L
      <3>1. 0..L \subseteq T
        BY <1>0, <1>2, <1>3, Induction
      <3> QED
        BY <1>0, <3>1
    <2> QED
      BY <1>0, <2>1
  <1>5. Ahead(s, 1) = s
    BY SubSeqFull DEF Ahead
  <1> QED
    BY <1>1, <1>4, <1>5 DEF Sound

-----------------------------------------------------------------------------
(***************************************************************************)
(* The texts of the events of one name, on the wire and in the queue.      *)
(***************************************************************************)
Texts(q, name) == [k \in 1..Len(q) |-> IF q[k].event = name THEN q[k].text ELSE <<>>]
Queued(q, name) == FlattenSeq(Texts(q, name))

LEMMA TextsType ==
  ASSUME NEW E, \A e \in E : e.text \in Seq(Chars), NEW q \in Seq(E), NEW name
  PROVE  /\ Texts(q, name) \in Seq(Seq(Chars)) /\ Len(Texts(q, name)) = Len(q)
         /\ \A k \in 1..Len(q) :
              Texts(q, name)[k] = IF q[k].event = name THEN q[k].text ELSE <<>>
         /\ Queued(q, name) \in Seq(Chars)
  <1>1. Len(q) \in Nat /\ <<>> \in Seq(Chars) /\ \A k \in 1..Len(q) : q[k].text \in Seq(Chars)
    OBVIOUS
  <1>2. \A k \in 1..Len(q) :
          (IF q[k].event = name THEN q[k].text ELSE <<>>) \in Seq(Chars)
    BY <1>1
  <1>3. Texts(q, name) \in Seq(Seq(Chars)) /\ Len(Texts(q, name)) = Len(q)
    BY <1>1, <1>2 DEF Texts
  <1>4. Queued(q, name) \in Seq(Chars)
    BY <1>3, FlattenType DEF Queued
  <1> QED
    BY <1>3, <1>4 DEF Texts

LEMMA QueuedConcat ==
  ASSUME NEW E, \A e \in E : e.text \in Seq(Chars),
         NEW a \in Seq(E), NEW b \in Seq(E), NEW name
  PROVE  Queued(a \o b, name) = Queued(a, name) \o Queued(b, name)
  <1>1. PICK c : c = a \o b
    OBVIOUS
  <1>2. /\ c \in Seq(E) /\ Len(c) = Len(a) + Len(b) /\ Len(a) \in Nat /\ Len(b) \in Nat
        /\ \A k \in 1..Len(a) : c[k] = a[k]
        /\ \A k \in 1..Len(b) : c[Len(a) + k] = b[k]
    BY <1>1
  <1>3. PICK t \in Seq(Seq(Chars)) :
          /\ t = Texts(a, name) /\ Len(t) = Len(a)
          /\ \A k \in 1..Len(a) : t[k] = IF a[k].event = name THEN a[k].text ELSE <<>>
    <2>1. /\ Texts(a, name) \in Seq(Seq(Chars)) /\ Len(Texts(a, name)) = Len(a)
          /\ \A k \in 1..Len(a) :
               Texts(a, name)[k] = IF a[k].event = name THEN a[k].text ELSE <<>>
      BY TextsType
    <2> QED
      BY <2>1
  <1>4. PICK u \in Seq(Seq(Chars)) :
          /\ u = Texts(b, name) /\ Len(u) = Len(b)
          /\ \A k \in 1..Len(b) : u[k] = IF b[k].event = name THEN b[k].text ELSE <<>>
    <2>1. /\ Texts(b, name) \in Seq(Seq(Chars)) /\ Len(Texts(b, name)) = Len(b)
          /\ \A k \in 1..Len(b) :
               Texts(b, name)[k] = IF b[k].event = name THEN b[k].text ELSE <<>>
      BY TextsType
    <2> QED
      BY <2>1
  <1>5. PICK v \in Seq(Seq(Chars)) :
          /\ v = Texts(c, name) /\ Len(v) = Len(c)
          /\ \A k \in 1..Len(c) : v[k] = IF c[k].event = name THEN c[k].text ELSE <<>>
    <2>1. /\ Texts(c, name) \in Seq(Seq(Chars)) /\ Len(Texts(c, name)) = Len(c)
          /\ \A k \in 1..Len(c) :
               Texts(c, name)[k] = IF c[k].event = name THEN c[k].text ELSE <<>>
      <3>1. c \in Seq(E)
        BY <1>2
      <3> QED
        BY <3>1, TextsType
    <2> QED
      BY <2>1
  <1>6. PICK w : w = t \o u
    OBVIOUS
  <1>7. /\ w \in Seq(Seq(Chars)) /\ Len(w) = Len(t) + Len(u)
        /\ \A k \in 1..Len(t) : w[k] = t[k]
        /\ \A k \in 1..Len(u) : w[Len(t) + k] = u[k]
    BY <1>6
  <1>8. ASSUME NEW k \in 1..Len(v) PROVE v[k] = w[k]
    <2>1. CASE k <= Len(a)
      <3>1. k \in 1..Len(a) /\ k \in 1..Len(c)
        BY <1>2, <1>5, <2>1
      <3> QED
        BY <1>2, <1>3, <1>5, <1>7, <3>1, ZenonT(30)
    <2>2. CASE k > Len(a)
      <3>1. PICK m \in 1..Len(b) : k = Len(a) + m
        <4>1. k - Len(a) \in 1..Len(b) /\ k = Len(a) + (k - Len(a))
          BY <1>2, <1>5, <2>2
        <4> QED
          BY <4>1
      <3>2. c[k] = b[m] /\ w[k] = u[m] /\ k \in 1..Len(c)
        BY <1>2, <1>3, <1>4, <1>5, <1>7, <3>1
      <3> QED
        BY <1>4, <1>5, <3>2
    <2> QED
      BY <1>2, <1>5, <2>1, <2>2
  <1>9. v = w
    <2>1. Len(v) = Len(w)
      BY <1>2, <1>3, <1>4, <1>5, <1>7
    <2> QED
      BY <1>7, <1>8, <2>1, SeqEqual
  <1>10. FlattenSeq(t \o u) = FlattenSeq(t) \o FlattenSeq(u)
    BY FlattenConcat
  <1> QED
    BY <1>1, <1>3, <1>4, <1>5, <1>6, <1>9, <1>10 DEF Queued

\* Events of other names, or without text, add nothing.
LEMMA QueuedNothing ==
  ASSUME NEW E, NEW q \in Seq(E), NEW name,
         \A k \in 1..Len(q) : q[k].event # name \/ q[k].text = <<>>
  PROVE  Queued(q, name) = <<>>
  <1>1. Len(q) \in Nat
    OBVIOUS
  <1>2. Texts(q, name) \in Seq({<<>>})
    <2>1. \A k \in 1..Len(q) :
            (IF q[k].event = name THEN q[k].text ELSE <<>>) \in {<<>>}
      OBVIOUS
    <2> QED
      BY <1>1, <2>1 DEF Texts
  <1> QED
    BY <1>2, FlattenNothing DEF Queued

LEMMA QueuedOne ==
  ASSUME NEW e, e.text \in Seq(Chars), NEW name
  PROVE  Queued(<<e>>, name) = IF e.event = name THEN e.text ELSE <<>>
  <1>1. PICK x : x = IF e.event = name THEN e.text ELSE <<>>
    OBVIOUS
  <1>2. x \in Seq(Chars)
    BY <1>1
  <1>3. PICK q : q = <<e>>
    OBVIOUS
  <1>4. Len(q) = 1 /\ q[1] = e
    BY <1>3
  <1>5. Texts(q, name) = [k \in 1..1 |-> x]
    BY <1>1, <1>4 DEF Texts
  <1>6. Texts(q, name) = <<x>>
    BY <1>5
  <1>7. FlattenSeq(<<x>>) = x
    BY <1>2, FlattenOne
  <1> QED
    BY <1>1, <1>3, <1>6, <1>7 DEF Queued

\* An event that does not end a response with success.
Success == {"completed", "incomplete"}
QuietEvent == [event : Events \ (Unnumbered \cup Success), text : Seq(Chars)]

LEMMA QuietEvents ==
  /\ QuietEvent \subseteq EventType
  /\ \A e \in QuietEvent : e.text \in Seq(Chars)
  /\ \A e \in EventType : e.text \in Seq(Chars)
  /\ \A q \in Seq(QuietEvent) : q \in Seq(EventType)
  <1>1. QuietEvent \subseteq EventType
    BY DEF QuietEvent, EventType
  <1>2. \A e \in EventType : e.text \in Seq(Chars)
    BY DEF EventType
  <1> QED
    BY <1>1, <1>2, SubsetSeq

LEMMA PlainText ==
  ASSUME NEW n \in Nat, NEW names \in [1..n -> Events \ (Unnumbered \cup Success)], NEW name
  PROVE  Plain(names) \in Seq(QuietEvent) /\ Queued(Plain(names), name) = <<>>
  <1>1. names \in Seq(Events \ (Unnumbered \cup Success)) /\ Len(names) = n
    OBVIOUS
  <1>2. <<>> \in Seq(Chars)
    OBVIOUS
  <1>3. \A k \in 1..n : Event(names[k], <<>>) \in QuietEvent /\ Event(names[k], <<>>).text = <<>>
    BY <1>2 DEF Event, QuietEvent
  <1>4. Plain(names) = [k \in 1..n |-> Event(names[k], <<>>)]
    BY <1>1 DEF Plain
  <1>5. /\ Plain(names) \in Seq(QuietEvent) /\ Len(Plain(names)) = n
        /\ \A k \in 1..n : Plain(names)[k].text = <<>>
    BY <1>3, <1>4
  <1> QED
    BY <1>5, QueuedNothing

LEMMA StartText ==
  ASSUME NEW name
  PROVE  MessageStart \in Seq(QuietEvent) /\ Queued(MessageStart, name) = <<>>
  <1> DEFINE names == <<"item_added", "part_added">>
  <1>1. names \in [1..2 -> Events \ (Unnumbered \cup Success)]
    BY DEF Events, Unnumbered, Success
  <1> HIDE DEF names
  <1> QED
    BY <1>1, PlainText DEF MessageStart, names

LEMMA FirstText ==
  ASSUME NEW name, NEW q, q = Plain(<<"created", "in_progress">>)
  PROVE  q \in Seq(QuietEvent) /\ Queued(q, name) = <<>>
  <1> DEFINE names == <<"created", "in_progress">>
  <1>1. names \in [1..2 -> Events \ (Unnumbered \cup Success)]
    BY DEF Events, Unnumbered, Success
  <1> HIDE DEF names
  <1> QED
    BY <1>1, PlainText DEF names

LEMMA ErrorText ==
  ASSUME NEW name, NEW q, q = Plain(<<"error">>)
  PROVE  q \in Seq(QuietEvent) /\ Queued(q, name) = <<>>
  <1> DEFINE names == <<"error">>
  <1>1. names \in [1..1 -> Events \ (Unnumbered \cup Success)]
    BY DEF Events, Unnumbered, Success, Terminal
  <1> HIDE DEF names
  <1> QED
    BY <1>1, PlainText DEF names

LEMMA CallsText ==
  ASSUME NEW n \in Nat, NEW name
  PROVE  FunctionCalls(n) \in Seq(QuietEvent) /\ Queued(FunctionCalls(n), name) = <<>>
  <1> DEFINE names == <<"call_added", "arguments_delta", "arguments_done", "call_done">>
             all == [i \in 1..(4 * n) |-> names[((i - 1) % 4) + 1]]
             some == {"call_added", "arguments_delta", "arguments_done", "call_done"}
  <1>1. \A i \in 1..(4 * n) : names[((i - 1) % 4) + 1] \in some
    <2>1. \A i \in 1..(4 * n) : ((i - 1) % 4) + 1 \in 1..4
      OBVIOUS
    <2>2. \A j \in 1..4 : names[j] \in some
      OBVIOUS
    <2> HIDE DEF names, some
    <2> QED
      BY <2>1, <2>2
  <1>2. some \subseteq Events \ (Unnumbered \cup Success)
    BY DEF Events, Unnumbered, Success
  <1>3. 4 * n \in Nat /\ all \in [1..(4 * n) -> Events \ (Unnumbered \cup Success)]
    <2> HIDE DEF names, some
    <2> QED
      BY <1>1, <1>2
  <1>4. FunctionCalls(n) = Plain(all)
    BY DEF FunctionCalls
  <1> HIDE DEF all
  <1> QED
    BY <1>3, <1>4, PlainText

LEMMA DeltasText ==
  ASSUME NEW texts \in Seq(Seq(Chars)), NEW name
  PROVE  /\ Deltas(texts) \in Seq(QuietEvent)
         /\ Queued(Deltas(texts), name) = IF name = "delta" THEN FlattenSeq(texts) ELSE <<>>
  <1>1. Len(texts) \in Nat /\ \A k \in 1..Len(texts) : texts[k] \in Seq(Chars)
    OBVIOUS
  <1>2. \A k \in 1..Len(texts) : Event("delta", texts[k]) \in QuietEvent
    BY <1>1 DEF Event, QuietEvent, Events, Unnumbered, Success
  <1>3. PICK q : q = Deltas(texts)
    OBVIOUS
  <1>4. q = [k \in 1..Len(texts) |-> Event("delta", texts[k])]
    BY <1>3 DEF Deltas
  <1>5. /\ q \in Seq(QuietEvent) /\ Len(q) = Len(texts)
        /\ \A k \in 1..Len(texts) : q[k].event = "delta" /\ q[k].text = texts[k]
    BY <1>1, <1>2, <1>4 DEF Event
  <1>6. CASE name = "delta"
    <2>1. PICK t \in Seq(Seq(Chars)) :
            /\ t = Texts(q, name) /\ Len(t) = Len(q)
            /\ \A k \in 1..Len(q) : t[k] = IF q[k].event = name THEN q[k].text ELSE <<>>
      BY <1>5, QuietEvents, TextsType
    <2>2. t = texts
      <3>1. Len(t) = Len(texts) /\ \A k \in 1..Len(t) : t[k] = texts[k]
        BY <1>5, <1>6, <2>1
      <3> QED
        BY <2>1, <3>1, SeqEqual
    <2> QED
      BY <1>3, <1>5, <1>6, <2>1, <2>2 DEF Queued
  <1>7. CASE name # "delta"
    <2>1. Queued(q, name) = <<>>
      BY <1>5, <1>7, QueuedNothing
    <2> QED
      BY <1>3, <1>5, <1>7, <2>1
  <1> QED
    BY <1>6, <1>7

LEMMA DoneText ==
  ASSUME NEW text \in Seq(Chars), NEW name \in {"delta", "text_done"}
  PROVE  /\ MessageDone(text) \in Seq(QuietEvent)
         /\ Queued(MessageDone(text), name) = IF name = "delta" THEN <<>> ELSE text
  <1>1. PICK e : e = Event("text_done", text)
    OBVIOUS
  <1>2. PICK f : f = Event("part_done", text)
    OBVIOUS
  <1>3. PICK g : g = Event("item_done", text)
    OBVIOUS
  <1>4. /\ e \in QuietEvent /\ f \in QuietEvent /\ g \in QuietEvent
        /\ e.event = "text_done" /\ f.event = "part_done" /\ g.event = "item_done"
        /\ e.text = text
    BY <1>1, <1>2, <1>3 DEF Event, QuietEvent, Events, Unnumbered, Success
  <1>5. PICK a \in Seq(QuietEvent) : a = <<e>>
    <2>1. <<e>> \in Seq(QuietEvent)
      BY <1>4
    <2> QED
      BY <2>1
  <1>6. PICK b \in Seq(QuietEvent) : b = <<f, g>>
    <2>1. <<f, g>> \in Seq(QuietEvent)
      BY <1>4
    <2> QED
      BY <2>1
  <1>7. MessageDone(text) = a \o b /\ a \o b \in Seq(QuietEvent)
    <2>1. MessageDone(text) = <<e, f, g>>
      BY <1>1, <1>2, <1>3 DEF MessageDone
    <2> QED
      BY <1>5, <1>6, <2>1
  <1>8. Queued(a, name) = IF name = "delta" THEN <<>> ELSE text
    BY <1>4, <1>5, QueuedOne
  <1>9. Queued(b, name) = <<>>
    <2>1. Len(b) = 2 /\ b[1] = f /\ b[2] = g
      BY <1>6
    <2>2. \A k \in 1..Len(b) : b[k].event # name
      BY <1>4, <2>1
    <2> QED
      BY <2>2, QueuedNothing
  <1>10. Queued(a \o b, name) = Queued(a, name) \o Queued(b, name)
    BY QuietEvents, QueuedConcat
  <1>11. \A x \in Seq(Chars) : x \o <<>> = x
    BY ConcatEmptySeq
  <1>12. Queued(a, name) \in Seq(Chars)
    BY QuietEvents, TextsType
  <1> QED
    BY <1>7, <1>8, <1>9, <1>10, <1>11, <1>12

-----------------------------------------------------------------------------
(***************************************************************************)
(* The marker.                                                             *)
(***************************************************************************)

\* It is where it is.
LEMMA MarkerIs ==
  ASSUME NEW s, Len(s) \in Nat, NEW n \in 1..(Len(s) + 1),
         \A i \in 1..(n - 1) : s[i] # "m", n <= Len(s) => s[n] = "m"
  PROVE  Marker(s) = n
  <1>1. /\ Marker(s) \in 1..(Len(s) + 1)
        /\ \A i \in 1..(Marker(s) - 1) : s[i] # "m"
        /\ Marker(s) <= Len(s) => s[Marker(s)] = "m"
    BY MarkerType
  <1>2. ~(Marker(s) < n)
    BY <1>1
  <1>3. ~(n < Marker(s))
    BY <1>1
  <1> QED
    BY <1>1, <1>2, <1>3

\* What comes after the first marker does not matter.
LEMMA MarkerKept ==
  ASSUME NEW a \in Seq(Chars), NEW b \in Seq(Chars), HasMarker(a)
  PROVE  HasMarker(a \o b) /\ BeforeMarker(a \o b) = BeforeMarker(a)
  <1>1. PICK n : n = Marker(a)
    OBVIOUS
  <1>2. PICK s : s = a \o b
    OBVIOUS
  <1>3. /\ s \in Seq(Chars) /\ Len(s) = Len(a) + Len(b) /\ Len(a) \in Nat /\ Len(b) \in Nat
        /\ \A i \in 1..Len(a) : s[i] = a[i]
    BY <1>2
  <1>4. n \in 1..Len(a) /\ a[n] = "m" /\ \A i \in 1..(n - 1) : a[i] # "m"
    <2>1. /\ n \in 1..(Len(a) + 1) /\ (\A i \in 1..(n - 1) : a[i] # "m")
          /\ n <= Len(a) => a[n] = "m"
      BY <1>1, <1>3, MarkerType
    <2> QED
      BY <1>1, <1>3, <2>1 DEF HasMarker
  <1>5. Marker(s) = n
    <2>1. n \in 1..(Len(s) + 1) /\ Len(s) \in Nat
      BY <1>3, <1>4
    <2>2. \A i \in 1..(n - 1) : s[i] # "m"
      BY <1>3, <1>4
    <2>3. s[n] = "m"
      BY <1>3, <1>4
    <2> QED
      BY <2>1, <2>2, <2>3, MarkerIs
  <1>6. HasMarker(s)
    BY <1>3, <1>4, <1>5 DEF HasMarker
  <1>7. SubSeq(s, 1, n - 1) = SubSeq(a, 1, n - 1)
    <2>1. /\ SubSeq(s, 1, n - 1) \in Seq(Chars) /\ Len(SubSeq(s, 1, n - 1)) = n - 1
          /\ \A i \in 1..(n - 1) : SubSeq(s, 1, n - 1)[i] = s[i]
      BY <1>3, <1>4
    <2>2. /\ SubSeq(a, 1, n - 1) \in Seq(Chars) /\ Len(SubSeq(a, 1, n - 1)) = n - 1
          /\ \A i \in 1..(n - 1) : SubSeq(a, 1, n - 1)[i] = a[i]
      BY <1>3, <1>4
    <2>3. \A i \in 1..(n - 1) : SubSeq(s, 1, n - 1)[i] = SubSeq(a, 1, n - 1)[i]
      BY <1>3, <1>4, <2>1, <2>2
    <2> QED
      BY <2>1, <2>2, <2>3, SeqEqual
  <1> QED
    BY <1>1, <1>2, <1>5, <1>6, <1>7 DEF BeforeMarker

\* A text without a marker comes before what precedes the marker of the next.
LEMMA MarkerLater ==
  ASSUME NEW a \in Seq(Chars \ {"m"}), NEW b \in Seq(Chars)
  PROVE  /\ HasMarker(a \o b) <=> HasMarker(b)
         /\ BeforeMarker(a \o b) = a \o BeforeMarker(b)
  <1>1. PICK n : n = Marker(b)
    OBVIOUS
  <1>2. PICK s : s = a \o b
    OBVIOUS
  <1>a. Len(a) \in Nat /\ Len(b) \in Nat /\ a \in Seq(Chars)
    <2>1. Chars \ {"m"} \subseteq Chars
      OBVIOUS
    <2> QED
      BY <2>1, SubsetSeq
  <1>3. /\ s \in Seq(Chars) /\ Len(s) = Len(a) + Len(b)
        /\ \A i \in 1..Len(a) : s[i] = a[i]
        /\ \A i \in 1..Len(b) : s[Len(a) + i] = b[i]
    BY <1>a, <1>2, ConcatParts
  <1>4. /\ n \in 1..(Len(b) + 1) /\ (\A i \in 1..(n - 1) : b[i] # "m")
        /\ n <= Len(b) => b[n] = "m"
    BY <1>a, <1>1, MarkerType
  <1>5. Marker(s) = Len(a) + n
    <2>1. Len(a) + n \in 1..(Len(s) + 1) /\ Len(s) \in Nat
      BY <1>a, <1>3, <1>4
    <2>2. ASSUME NEW i \in 1..((Len(a) + n) - 1) PROVE s[i] # "m"
      <3>1. CASE i <= Len(a)
        <4>1. i \in 1..Len(a) /\ a[i] # "m"
          BY <1>a, <3>1
        <4> QED
          BY <1>3, <4>1
      <3>2. CASE i > Len(a)
        <4>1. i - Len(a) \in 1..(n - 1) /\ i - Len(a) \in 1..Len(b)
              /\ Len(a) + (i - Len(a)) = i
          BY <1>a, <1>4, <3>2
        <4> QED
          BY <1>3, <1>4, <4>1
      <3> QED
        BY <1>a, <3>1, <3>2
    <2>3. Len(a) + n <= Len(s) => s[Len(a) + n] = "m"
      BY <1>a, <1>3, <1>4
    <2> QED
      BY <2>1, <2>2, <2>3, MarkerIs
  <1>6. HasMarker(s) <=> HasMarker(b)
    BY <1>a, <1>1, <1>3, <1>4, <1>5 DEF HasMarker
  <1>7. SubSeq(s, 1, (Len(a) + n) - 1) = a \o SubSeq(b, 1, n - 1)
    <2>1. PICK p \in Seq(Chars) : /\ p = SubSeq(b, 1, n - 1) /\ Len(p) = n - 1
                                  /\ \A i \in 1..(n - 1) : p[i] = b[i]
      <3>1. /\ SubSeq(b, 1, n - 1) \in Seq(Chars) /\ Len(SubSeq(b, 1, n - 1)) = n - 1
            /\ \A i \in 1..(n - 1) : SubSeq(b, 1, n - 1)[i] = b[i]
        BY <1>a, <1>4
      <3> QED
        BY <3>1
    <2>2. PICK q : q = a \o p
      OBVIOUS
    <2>3. /\ q \in Seq(Chars) /\ Len(q) = Len(a) + Len(p)
          /\ \A i \in 1..Len(a) : q[i] = a[i]
          /\ \A i \in 1..Len(p) : q[Len(a) + i] = p[i]
      BY <1>a, <2>2, ConcatParts
    <2>4. PICK r \in Seq(Chars) :
            /\ r = SubSeq(s, 1, (Len(a) + n) - 1) /\ Len(r) = (Len(a) + n) - 1
            /\ \A i \in 1..((Len(a) + n) - 1) : r[i] = s[i]
      <3>1. (Len(a) + n) - 1 \in 0..Len(s)
        BY <1>a, <1>3, <1>4
      <3>2. \A k \in 0..Len(s) : /\ SubSeq(s, 1, k) \in Seq(Chars) /\ Len(SubSeq(s, 1, k)) = k
                                 /\ \A i \in 1..k : SubSeq(s, 1, k)[i] = s[i]
        BY <1>3
      <3> QED
        BY <3>1, <3>2
    <2>5. ASSUME NEW i \in 1..Len(r) PROVE r[i] = q[i]
      <3>1. CASE i <= Len(a)
        <4>1. i \in 1..Len(a)
          BY <1>a, <2>4, <3>1
        <4> QED
          BY <1>3, <2>3, <2>4, <4>1
      <3>2. CASE i > Len(a)
        <4>1. i - Len(a) \in 1..(n - 1) /\ i - Len(a) \in 1..Len(b)
              /\ Len(a) + (i - Len(a)) = i
          BY <1>a, <1>4, <2>4, <3>2
        <4> QED
          BY SMTT(60), <1>3, <2>1, <2>3, <2>4, <4>1
      <3> QED
        BY <1>a, <2>4, <3>1, <3>2
    <2>6. r = q
      <3>1. Len(r) = Len(q)
        BY <1>a, <1>4, <2>1, <2>3, <2>4
      <3> QED
        BY <2>3, <2>5, <3>1, SeqEqual
    <2> QED
      BY <2>1, <2>2, <2>4, <2>6
  <1>8. BeforeMarker(s) = SubSeq(s, 1, (Len(a) + n) - 1)
    BY <1>5 DEF BeforeMarker
  <1>9. BeforeMarker(b) = SubSeq(b, 1, n - 1)
    BY <1>1 DEF BeforeMarker
  <1> QED
    BY <1>2, <1>6, <1>7, <1>8, <1>9

\* Replacing broken characters leaves the marker where it is.
LEMMA MarkerSanitized ==
  ASSUME NEW s \in Seq(Chars)
  PROVE  /\ HasMarker(Sanitized(s)) <=> HasMarker(s)
         /\ BeforeMarker(Sanitized(s)) = Sanitized(BeforeMarker(s))
  <1>1. PICK n : n = Marker(s)
    OBVIOUS
  <1>2. PICK t : t = Sanitized(s)
    OBVIOUS
  <1>3. t \in Seq(Chars) /\ Len(t) = Len(s) /\ Len(s) \in Nat
    BY <1>2, SanitizedType
  <1>4. /\ n \in 1..(Len(s) + 1) /\ (\A i \in 1..(n - 1) : s[i] # "m")
        /\ n <= Len(s) => s[n] = "m"
    BY <1>1, <1>3, MarkerType
  <1>5. \A i \in 1..Len(s) : t[i] = "m" <=> s[i] = "m"
    <2>1. \A i \in 1..Len(s) : t[i] = IF Whole(s, i) THEN s[i] ELSE "r"
      BY <1>2, <1>3 DEF Sanitized
    <2>2. \A i \in 1..Len(s) : s[i] = "m" => Whole(s, i)
      BY DEF Whole
    <2> QED
      BY <2>1, <2>2
  <1>6. Marker(t) = n
    <2>1. \A i \in 1..(n - 1) : i \in 1..Len(s)
      BY <1>3, <1>4
    <2>2. (\A i \in 1..(n - 1) : t[i] # "m") /\ (n <= Len(t) => t[n] = "m")
      BY <1>3, <1>4, <1>5, <2>1
    <2> QED
      BY <1>3, <1>4, <2>2, MarkerIs
  <1>7. HasMarker(t) <=> HasMarker(s)
    BY <1>1, <1>3, <1>6 DEF HasMarker
  <1>8. PICK a \in Seq(Chars) : a = SubSeq(s, 1, n - 1) /\ Len(a) = n - 1
    <2>1. SubSeq(s, 1, n - 1) \in Seq(Chars) /\ Len(SubSeq(s, 1, n - 1)) = n - 1
      BY <1>3, <1>4
    <2> QED
      BY <2>1
  <1>9. PICK b \in Seq(Chars) : b = SubSeq(s, n, Len(s))
                                /\ (b # <<>> => n <= Len(s) /\ b[1] = s[n])
    <2>1. SubSeq(s, n, Len(s)) \in Seq(Chars)
      BY <1>3, <1>4
    <2>2. SubSeq(s, n, Len(s)) # <<>> => n <= Len(s)
      BY <1>3, <1>4
    <2>3. n <= Len(s) => SubSeq(s, n, Len(s))[1] = s[n]
      BY <1>3, <1>4
    <2> QED
      BY <2>1, <2>2, <2>3
  <1>10. s = a \o b
    <2>1. SubSeq(s, 1, n - 1) \o SubSeq(s, (n - 1) + 1, Len(s)) = SubSeq(s, 1, Len(s))
      <3>1. /\ 1 \in 1..(Len(s) + 1) /\ n - 1 \in (1 - 1)..Len(s)
            /\ Len(s) \in (n - 1)..Len(s)
        BY <1>3, <1>4
      <3> QED
        BY <3>1, ConcatAdjacentSubSeq
    <2>2. (n - 1) + 1 = n
      BY <1>3, <1>4
    <2> QED
      BY <1>8, <1>9, <2>1, <2>2, SubSeqFull
  <1>11. CutsNothing(a, b)
    BY <1>4, <1>9 DEF CutsNothing
  <1>12. t = Sanitized(a) \o Sanitized(b)
    BY <1>2, <1>10, <1>11, SanitizedConcat
  <1>13. SubSeq(t, 1, n - 1) = Sanitized(a)
    <2>1. PICK u \in Seq(Chars) : u = Sanitized(a) /\ Len(u) = n - 1
      BY <1>8, SanitizedType
    <2>2. PICK v \in Seq(Chars) : v = Sanitized(b)
      BY SanitizedType
    <2>3. t = u \o v
      BY <1>12, <2>1, <2>2
    <2>4. SubSeq(t, 1, Len(u)) = u
      BY <2>3
    <2> QED
      BY <2>1, <2>4
  <1> QED
    BY <1>1, <1>2, <1>6, <1>7, <1>8, <1>13 DEF BeforeMarker

-----------------------------------------------------------------------------
(***************************************************************************)
(* The inductive invariant: what is received and queued adds up to what    *)
(* was streamed, except for what is pending.                               *)
(***************************************************************************)
Total(name) == TextOf(name) \o Queued(outbox, name)

\* What was streamed and the tokens that wait are what was generated; after the
\* marker, what was streamed is the text before it.
Generated ==
    IF toolMarkerSeen
    THEN toolsEnabled /\ HasMarker(generated) /\ streamedText = BeforeMarker(generated)
    ELSE /\ generated = streamedText \o FlattenSeq(pieces)
         /\ toolsEnabled => NoMarker(streamedText)

\* Whatever comes next, replacing all of it is what was emitted and replacing
\* what is pending with what comes.
Streaming ==
    At \in {"begin", "submit", "generate"} =>
      /\ Total("text_done") = <<>>
      /\ \A X \in Seq(Chars) :
           Sanitized(streamedText \o X) = Total("delta") \o Sanitized(pendingText \o X)

Parsing ==
    At = "parse" =>
      /\ pieces = <<>> /\ Total("text_done") = <<>>
      /\ Total("delta") = Sanitized(streamedText)

Succeeded == \E name \in Success : All(name)
Finished ==
    Succeeded =>
      /\ wpc = "settled" /\ Total("delta") = Total("text_done")
      /\ ~toolsEnabled => Total("delta") = Sanitized(generated)

TextInvariant == Generated /\ Streaming /\ Parsing /\ Finished

-----------------------------------------------------------------------------
\* The texts of the halves of w that end a frame of that name.
Halves(w, name) ==
    [i \in 1..Len(w) |->
      IF w[i][2] = 2 /\ w[i][1].event = name THEN w[i][1].text ELSE <<>>]

LEMMA TextIsHalves ==
  ASSUME NEW name
  PROVE  TextOf(name) = FlattenSeq(Halves(wire, name))
  <1>1. \A i \in 1..Len(wire) :
          (IF i \in Received /\ Name(i) = name THEN wire[i][1].text ELSE <<>>)
            = (IF wire[i][2] = 2 /\ wire[i][1].event = name THEN wire[i][1].text ELSE <<>>)
    BY DEF Received, Name
  <1>2. [i \in 1..Len(wire) |->
          IF i \in Received /\ Name(i) = name THEN wire[i][1].text ELSE <<>>]
            = Halves(wire, name)
    BY <1>1 DEF Halves
  <1> QED
    BY <1>2 DEF TextOf

LEMMA HalvesType ==
  ASSUME NEW w \in Seq(Frames \X {1, 2}), NEW name
  PROVE  /\ Halves(w, name) \in Seq(Seq(Chars)) /\ Len(Halves(w, name)) = Len(w)
         /\ FlattenSeq(Halves(w, name)) \in Seq(Chars)
  <1>1. Len(w) \in Nat /\ <<>> \in Seq(Chars)
    OBVIOUS
  <1>2. \A i \in 1..Len(w) : w[i][1].text \in Seq(Chars)
    <2>1. \A i \in 1..Len(w) : w[i] \in Frames \X {1, 2}
      OBVIOUS
    <2> QED
      BY <2>1 DEF Frames
  <1>3. \A i \in 1..Len(w) :
          (IF w[i][2] = 2 /\ w[i][1].event = name THEN w[i][1].text ELSE <<>>) \in Seq(Chars)
    BY <1>1, <1>2
  <1>4. Halves(w, name) \in Seq(Seq(Chars)) /\ Len(Halves(w, name)) = Len(w)
    BY <1>1, <1>3 DEF Halves
  <1> QED
    BY <1>4, FlattenType

\* One more half frame.
LEMMA HalvesAppend ==
  ASSUME NEW w \in Seq(Frames \X {1, 2}), NEW f \in Frames, NEW half \in {1, 2},
         NEW name
  PROVE  FlattenSeq(Halves(Append(w, <<f, half>>), name)) =
           FlattenSeq(Halves(w, name)) \o (IF half = 2 /\ f.event = name THEN f.text ELSE <<>>)
  <1>0. PICK v : v = Append(w, <<f, half>>)
    OBVIOUS
  <1>x. PICK x : x = IF half = 2 /\ f.event = name THEN f.text ELSE <<>>
    OBVIOUS
  <1>1. /\ v \in Seq(Frames \X {1, 2}) /\ Len(v) = Len(w) + 1 /\ Len(w) \in Nat
        /\ \A i \in 1..Len(w) : v[i] = w[i]
        /\ v[Len(w) + 1] = <<f, half>>
    BY <1>0
  <1>2. x \in Seq(Chars)
    <2>1. <<>> \in Seq(Chars) /\ f.text \in Seq(Chars)
      BY DEF Frames
    <2> QED
      BY <2>1, <1>x
  <1>3. PICK h \in Seq(Seq(Chars)) : h = Halves(w, name) /\ Len(h) = Len(w)
    <2>1. Halves(w, name) \in Seq(Seq(Chars)) /\ Len(Halves(w, name)) = Len(w)
      BY HalvesType
    <2> QED
      BY <2>1
  <1>4. PICK k \in Seq(Seq(Chars)) : k = Halves(v, name) /\ Len(k) = Len(v)
    <2>1. v \in Seq(Frames \X {1, 2})
      BY <1>1
    <2>2. Halves(v, name) \in Seq(Seq(Chars)) /\ Len(Halves(v, name)) = Len(v)
      BY <2>1, HalvesType
    <2> QED
      BY <2>2
  <1>5. \A i \in 1..Len(w) : k[i] = h[i]
    <2>1. \A i \in 1..Len(w) : i \in 1..Len(v)
      BY <1>1
    <2> QED
      BY <1>1, <1>3, <1>4, <2>1 DEF Halves
  <1>6. k[Len(w) + 1] = x
    <2>1. Len(w) + 1 \in 1..Len(v)
      BY <1>1
    <2>2. k[Len(w) + 1] = IF v[Len(w) + 1][2] = 2 /\ v[Len(w) + 1][1].event = name
                          THEN v[Len(w) + 1][1].text ELSE <<>>
      BY <1>4, <2>1 DEF Halves
    <2>3. v[Len(w) + 1][1] = f /\ v[Len(w) + 1][2] = half
      BY <1>1
    <2> QED
      BY <1>x, <2>2, <2>3
  <1>7. k = Append(h, x)
    <2>1. PICK u : u = Append(h, x)
      OBVIOUS
    <2>2. /\ u \in Seq(Seq(Chars)) /\ Len(u) = Len(h) + 1
          /\ \A i \in 1..Len(h) : u[i] = h[i]
          /\ u[Len(h) + 1] = x
      BY <1>2, <2>1
    <2>3. Len(k) = Len(u) /\ \A i \in 1..Len(k) : k[i] = u[i]
      <3>1. Len(k) = Len(w) + 1 /\ Len(u) = Len(w) + 1
        BY <1>1, <1>3, <1>4, <2>2
      <3>2. \A i \in 1..(Len(w) + 1) : i \in 1..Len(w) \/ i = Len(w) + 1
        BY <1>1
      <3> QED
        BY <1>3, <1>5, <1>6, <2>2, <3>1, <3>2
    <2> QED
      BY <2>1, <2>2, <2>3, SeqEqual
  <1>8. FlattenSeq(h) \in Seq(Chars)
    BY FlattenType
  <1>9. FlattenSeq(Append(h, x)) = FlattenSeq(h) \o x
    BY <1>2, <1>8, FlattenAppend
  <1> QED
    BY <1>0, <1>x, <1>3, <1>4, <1>7, <1>9

\* What is received and queued are texts.
LEMMA TotalType ==
  ASSUME TypeOK, NEW name
  PROVE  TextOf(name) \in Seq(Chars) /\ Queued(outbox, name) \in Seq(Chars)
         /\ Total(name) \in Seq(Chars)
  <1>1. wire \in Seq(Frames \X {1, 2}) /\ outbox \in Seq(Frames)
    BY DEF TypeOK
  <1>2. FlattenSeq(Halves(wire, name)) \in Seq(Chars)
    BY <1>1, HalvesType
  <1>3. TextOf(name) \in Seq(Chars)
    BY <1>2, TextIsHalves
  <1>4. \A e \in Frames : e.text \in Seq(Chars)
    BY DEF Frames
  <1>5. Queued(outbox, name) \in Seq(Chars)
    BY <1>1, <1>4, TextsType
  <1> QED
    BY <1>3, <1>5 DEF Total

\* Nothing queued.
LEMMA TotalEmpty ==
  ASSUME TypeOK, outbox = <<>>, NEW name
  PROVE  Total(name) = TextOf(name)
  <1>1. Queued(outbox, name) = <<>>
    <2>1. outbox \in Seq({})
      OBVIOUS
    <2>2. \A k \in 1..Len(outbox) : outbox[k].event # name \/ outbox[k].text = <<>>
      OBVIOUS
    <2> QED
      BY <2>1, <2>2, QueuedNothing
  <1>2. TextOf(name) \in Seq(Chars)
    BY TotalType
  <1>3. TextOf(name) \o <<>> = TextOf(name)
    BY <1>2, ConcatEmptySeq
  <1> QED
    BY <1>1, <1>3 DEF Total

\* A half frame that is not the end of an event of that name adds no text.
LEMMA WireText ==
  ASSUME TypeOK, NEW f \in Frames, NEW half \in {1, 2}, wire' = Append(wire, <<f, half>>),
         NEW name
  PROVE  TextOf(name)' = TextOf(name) \o (IF half = 2 /\ f.event = name THEN f.text ELSE <<>>)
  <1>1. wire \in Seq(Frames \X {1, 2})
    BY DEF TypeOK
  <1>3. FlattenSeq(Halves(Append(wire, <<f, half>>), name)) =
          FlattenSeq(Halves(wire, name)) \o (IF half = 2 /\ f.event = name THEN f.text ELSE <<>>)
    BY ZenonT(60), <1>1, HalvesAppend
  <1>4. TextOf(name)' = FlattenSeq(Halves(wire', name))
    <2>1. \A i \in 1..Len(wire') :
            (IF i \in Received' /\ Name(i)' = name THEN wire'[i][1].text ELSE <<>>)
              = (IF wire'[i][2] = 2 /\ wire'[i][1].event = name THEN wire'[i][1].text ELSE <<>>)
      BY DEF Received, Name
    <2>2. [i \in 1..Len(wire') |->
            IF i \in Received' /\ Name(i)' = name THEN wire'[i][1].text ELSE <<>>]
              = Halves(wire', name)
      BY <2>1 DEF Halves
    <2> QED
      BY <2>2 DEF TextOf
  <1>5. TextOf(name) = FlattenSeq(Halves(wire, name))
    BY TextIsHalves
  <1> QED
    BY <1>3, <1>4, <1>5

\* The wire does not change.
LEMMA WireSame ==
  ASSUME wire' = wire, NEW name
  PROVE  TextOf(name)' = TextOf(name)
  BY DEF TextOf, Received, Name

-----------------------------------------------------------------------------
(***************************************************************************)
(* What a batch of events adds.                                            *)
(***************************************************************************)
LEMMA EmitText ==
  ASSUME TypeOK, NEW events \in Seq(EventType), NEW next \in Places, Emit(events, next),
         outbox = <<>>, wire' = wire, NEW name
  PROVE  /\ Total(name)' = Total(name) \o Queued(events, name)
         /\ Total(name) \in Seq(Chars) /\ Queued(events, name) \in Seq(Chars)
  <1>1. /\ Len(outbox') = Len(events) /\ Len(events) \in Nat
        /\ \A k \in 1..Len(events) : /\ outbox'[k].event = events[k].event
                                     /\ outbox'[k].text = events[k].text
    BY Emitted DEF TypeOK, Places
  <1>2. Texts(outbox', name) = Texts(events, name)
    BY <1>1 DEF Texts
  <1>3. Queued(outbox', name) = Queued(events, name)
    BY <1>2 DEF Queued
  <1>4. TextOf(name)' = TextOf(name)
    BY WireSame
  <1>5. Total(name)' = TextOf(name)' \o Queued(outbox', name)
    BY DEF Total
  <1>6. Total(name) = TextOf(name) /\ Total(name) \in Seq(Chars)
    BY TotalEmpty, TotalType
  <1>7. Queued(events, name) \in Seq(Chars)
    BY QuietEvents, TextsType
  <1> QED
    BY <1>3, <1>4, <1>5, <1>6, <1>7

\* A batch that does not end the response with success.
LEMMA QuietBatch ==
  ASSUME StreamInvariant, cpc \in {"begin", "generate", "parse"},
         NEW events \in Seq(QuietEvent), NEW next \in Places, Emit(events, next), wire' = wire
  PROVE  /\ At' = next /\ ~Succeeded'
         /\ \A name : /\ Total(name)' = Total(name) \o Queued(events, name)
                      /\ Total(name) \in Seq(Chars) /\ Queued(events, name) \in Seq(Chars)
  <1>1. TypeOK /\ outbox = <<>> /\ events \in Seq(EventType) /\ sequence \in Nat /\ then \in Places
    BY Between, QuietEvents DEF StreamInvariant, TypeOK, Places
  <1>2. /\ At' = next /\ Len(outbox') = Len(events) /\ Len(events) \in Nat
        /\ \A k \in 1..Len(events) : outbox'[k].event = events[k].event
    BY <1>1, Emitted
  <1>3. \A name \in Success : ~Sent(name)'
    <2>1. \A name \in Success : ~Sent(name)
      BY DEF StreamInvariant, Ending, Success, Terminal
    <2>2. \A name : Sent(name)' = Sent(name)
      BY WireKept
    <2> QED
      BY <2>1, <2>2
  <1>4. \A k \in 1..Len(events) : events[k].event \notin Success
    <2>1. \A k \in 1..Len(events) : events[k] \in QuietEvent
      OBVIOUS
    <2> QED
      BY <2>1 DEF QuietEvent
  <1>5. ASSUME NEW name \in Success PROVE ~All(name)'
    <2>1. \A k \in 1..((Len(outbox') + 1) - 1) : outbox'[k].event # name
      BY <1>2, <1>4, <1>5
    <2> QED
      BY <1>3, <2>1 DEF All, Has, Earlier
  <1>6. ~Succeeded'
    BY <1>5 DEF Succeeded
  <1>7. \A name : /\ Total(name)' = Total(name) \o Queued(events, name)
                  /\ Total(name) \in Seq(Chars) /\ Queued(events, name) \in Seq(Chars)
    BY <1>1, EmitText
  <1> QED
    BY <1>2, <1>6, <1>7

\* Nothing that Generated speaks of changes.
LEMMA GeneratedKept ==
  ASSUME Generated, UNCHANGED <<toolsEnabled, toolMarkerSeen, streamedText, pieces, generated>>
  PROVE  Generated'
  BY DEF Generated

-----------------------------------------------------------------------------
(***************************************************************************)
(* The steps of the thread of the connection.                              *)
(***************************************************************************)
LEMMA BeginText ==
  ASSUME StreamInvariant, TextInvariant, Begin
  PROVE  TextInvariant'
  <1>1. PICK a : a = Plain(<<"created", "in_progress">>)
    OBVIOUS
  <1>2. PICK b : b = IF toolsEnabled THEN <<>> ELSE MessageStart
    OBVIOUS
  <1>3. \A name : a \in Seq(QuietEvent) /\ Queued(a, name) = <<>>
    BY <1>1, FirstText
  <1>4. \A name : b \in Seq(QuietEvent) /\ Queued(b, name) = <<>>
    <2>1. <<>> \in Seq(QuietEvent) /\ \A name : Queued(<<>>, name) = <<>>
      <3>1. PICK e \in Seq(QuietEvent) : e = <<>> /\ Len(e) = 0
        <4>1. <<>> \in Seq(QuietEvent) /\ Len(<<>>) = 0
          OBVIOUS
        <4> QED
          BY <4>1
      <3>2. ASSUME NEW name PROVE Queued(e, name) = <<>>
        <4>1. \A k \in 1..Len(e) : FALSE
          BY <3>1
        <4>2. \A k \in 1..Len(e) : e[k].event # name \/ e[k].text = <<>>
          BY <4>1
        <4> QED
          BY <4>2, QueuedNothing
      <3> QED
        BY <3>1, <3>2
    <2> QED
      BY <1>2, <2>1, StartText
  <1>5. PICK events \in Seq(QuietEvent) : events = a \o b
    <2>1. a \o b \in Seq(QuietEvent)
      BY <1>3, <1>4
    <2> QED
      BY <2>1
  <1>6. \A name : Queued(events, name) = <<>>
    <2>1. \A name : Queued(a \o b, name) = Queued(a, name) \o Queued(b, name)
      BY <1>3, <1>4, QuietEvents, QueuedConcat
    <2> QED
      BY <1>3, <1>4, <1>5, <2>1
  <1>7. Emit(events, "submit") /\ cpc = "begin" /\ wire' = wire
    BY <1>1, <1>2, <1>5 DEF Begin, connVars
  <1>8. /\ At' = "submit" /\ ~Succeeded'
        /\ \A name : Total(name)' = Total(name)
    <2>1. /\ At' = "submit" /\ ~Succeeded'
          /\ \A name : Total(name)' = Total(name) \o Queued(events, name) /\ Total(name) \in Seq(Chars)
      BY <1>7, QuietBatch DEF Places
    <2> QED
      BY <1>6, <2>1, ConcatEmptySeq
  <1>9. UNCHANGED <<toolsEnabled, toolMarkerSeen, streamedText, pendingText, pieces, generated>>
    BY DEF Begin, textVars, batchVars
  <1>10. Generated'
    BY <1>9, GeneratedKept DEF TextInvariant
  <1>11. Streaming'
    <2>1. At = "begin"
      BY <1>7 DEF At
    <2> QED
      BY <1>8, <1>9, <2>1 DEF TextInvariant, Streaming
  <1>12. Parsing' /\ Finished'
    BY <1>8 DEF Parsing, Finished
  <1> QED
    BY <1>10, <1>11, <1>12 DEF TextInvariant

LEMMA SubmitText ==
  ASSUME StreamInvariant, TextInvariant, Submit
  PROVE  TextInvariant'
  <1>1. /\ UNCHANGED <<wire, outbox, toolsEnabled, toolMarkerSeen, streamedText, pendingText,
                       pieces, generated>>
        /\ At = "submit" /\ At' = "generate" /\ outbox = <<>>
    BY Between DEF Submit, connVars, textVars, At
  <1>2. \A name : Total(name)' = Total(name)
    BY <1>1, WireSame DEF Total
  <1>3. Generated'
    BY <1>1, GeneratedKept DEF TextInvariant
  <1>4. Streaming'
    BY <1>1, <1>2 DEF TextInvariant, Streaming
  <1>5. Parsing'
    BY <1>1 DEF Parsing
  <1>6. ~Succeeded'
    <2>1. \A name \in Success : ~Sent(name)
      BY DEF StreamInvariant, Ending, Success, Terminal, Submit
    <2>2. \A name : Sent(name)' = Sent(name)
      BY <1>1, WireKept
    <2>3. \A name \in Success : ~All(name)'
      <3>1. outbox' = <<>> /\ Len(outbox') = 0
        BY <1>1
      <3> QED
        BY <2>1, <2>2, <3>1 DEF All, Has, Earlier
    <2> QED
      BY <2>3 DEF Succeeded
  <1> QED
    BY <1>3, <1>4, <1>5, <1>6 DEF TextInvariant, Finished

\* Nobody is told of success.
LEMMA FailureText ==
  ASSUME StreamInvariant, TextInvariant, cpc \in {"generate", "parse"},
         NEW events \in Seq(QuietEvent), Emit(events, "returned"), wire' = wire,
         UNCHANGED <<toolsEnabled, toolMarkerSeen, streamedText, pieces, generated>>
  PROVE  TextInvariant'
  <1>1. At' = "returned" /\ ~Succeeded'
    BY QuietBatch DEF Places
  <1>2. Generated'
    BY GeneratedKept DEF TextInvariant
  <1> QED
    BY <1>1, <1>2 DEF TextInvariant, Streaming, Parsing, Finished

LEMMA ErrorReported ==
  ASSUME StreamInvariant, TextInvariant, cpc \in {"generate", "parse"}, Error,
         UNCHANGED <<connVars, envVars, toolsEnabled, textVars, batchVars>>
  PROVE  TextInvariant'
  <1>1. PICK q : q = Plain(<<"error">>)
    OBVIOUS
  <1>2. q \in Seq(QuietEvent)
    BY <1>1, ErrorText
  <1>3. Emit(q, "returned")
    BY <1>1 DEF Error
  <1> QED
    BY <1>2, <1>3, FailureText DEF connVars, textVars, batchVars

LEMMA ParseThrowsText ==
  ASSUME StreamInvariant, TextInvariant, ParseThrows
  PROVE  TextInvariant'
  BY ErrorReported DEF ParseThrows

LEMMA FailedText ==
  ASSUME StreamInvariant, TextInvariant, Failed
  PROVE  TextInvariant'
  <1>1. CASE Error
    BY <1>1, ErrorReported DEF Failed
  <1>2. CASE Emit(<<>>, "returned")
    <2>1. <<>> \in Seq(QuietEvent)
      OBVIOUS
    <2> QED
      BY <1>2, <2>1, FailureText DEF Failed, connVars, textVars, batchVars
  <1> QED
    BY <1>1, <1>2 DEF Failed

-----------------------------------------------------------------------------
(***************************************************************************)
(* The token callback.                                                     *)
(***************************************************************************)
LEMMA HeadAndTail ==
  ASSUME NEW E, NEW q \in Seq(E), q # <<>>
  PROVE  /\ Head(q) \in E /\ <<Head(q)>> \in Seq(E) /\ Tail(q) \in Seq(E)
         /\ q = <<Head(q)>> \o Tail(q)
  <1>1. /\ Head(q) \in E /\ Tail(q) \in Seq(E) /\ Len(q) \in Nat \ {0}
        /\ Len(Tail(q)) = Len(q) - 1 /\ Head(q) = q[1]
        /\ \A i \in 1..Len(Tail(q)) : Tail(q)[i] = q[i + 1]
    OBVIOUS
  <1>2. PICK h \in Seq(E) : h = <<Head(q)>>
    <2>1. <<Head(q)>> \in Seq(E)
      BY <1>1
    <2> QED
      BY <2>1
  <1>3. Len(h) = 1 /\ h[1] = q[1]
    BY <1>1, <1>2
  <1>4. PICK t \in Seq(E) : t = Tail(q)
    BY <1>1
  <1>5. PICK c : c = h \o t
    OBVIOUS
  <1>6. /\ c \in Seq(E) /\ Len(c) = 1 + Len(t) /\ c[1] = h[1]
        /\ \A i \in 1..Len(t) : c[1 + i] = t[i]
    <2>1. /\ c \in Seq(E) /\ Len(c) = Len(h) + Len(t)
          /\ \A i \in 1..Len(h) : c[i] = h[i]
          /\ \A i \in 1..Len(t) : c[Len(h) + i] = t[i]
      BY <1>5, ConcatParts
    <2> QED
      BY <1>3, <2>1
  <1>7. Len(c) = Len(q)
    BY <1>1, <1>4, <1>6
  <1>8. ASSUME NEW i \in 1..Len(q) PROVE c[i] = q[i]
    <2>1. CASE i = 1
      BY <1>3, <1>6, <2>1
    <2>2. CASE i # 1
      <3>1. i - 1 \in 1..Len(t) /\ 1 + (i - 1) = i /\ (i - 1) + 1 = i
        BY <1>1, <1>4, <2>2
      <3> QED
        BY <1>1, <1>4, <1>6, <3>1
    <2> QED
      BY <2>1, <2>2
  <1>9. c = q
    BY <1>6, <1>7, <1>8, SeqEqual
  <1> QED
    BY <1>1, <1>2, <1>4, <1>5, <1>9

LEMMA FlattenHead ==
  ASSUME NEW C, NEW q \in Seq(Seq(C)), q # <<>>
  PROVE  /\ FlattenSeq(q) = Head(q) \o FlattenSeq(Tail(q))
         /\ Head(q) \in Seq(C) /\ FlattenSeq(Tail(q)) \in Seq(C) /\ Tail(q) \in Seq(Seq(C))
  <1>1. /\ Head(q) \in Seq(C) /\ <<Head(q)>> \in Seq(Seq(C)) /\ Tail(q) \in Seq(Seq(C))
        /\ q = <<Head(q)>> \o Tail(q)
    BY HeadAndTail
  <1>2. FlattenSeq(<<Head(q)>> \o Tail(q)) = FlattenSeq(<<Head(q)>>) \o FlattenSeq(Tail(q))
    BY <1>1, FlattenConcat
  <1>3. FlattenSeq(<<Head(q)>>) = Head(q)
    BY <1>1, FlattenOne
  <1>4. FlattenSeq(Tail(q)) \in Seq(C)
    BY <1>1, FlattenType
  <1> QED
    BY <1>1, <1>2, <1>3, <1>4

LEMMA NothingText ==
  ASSUME NEW name
  PROVE  <<>> \in Seq(QuietEvent) /\ Queued(<<>>, name) = <<>>
  <1>1. PICK e \in Seq(QuietEvent) : e = <<>> /\ Len(e) = 0
    <2>1. <<>> \in Seq(QuietEvent) /\ Len(<<>>) = 0
      OBVIOUS
    <2> QED
      BY <2>1
  <1>2. \A k \in 1..Len(e) : FALSE
    BY <1>1
  <1>3. \A k \in 1..Len(e) : e[k].event # name \/ e[k].text = <<>>
    BY <1>2
  <1>4. Queued(e, name) = <<>>
    BY <1>3, QueuedNothing
  <1> QED
    BY <1>1, <1>4

\* Two batches, one after the other.
LEMMA TwoTexts ==
  ASSUME NEW a \in Seq(QuietEvent), NEW b \in Seq(QuietEvent), NEW name
  PROVE  /\ a \o b \in Seq(QuietEvent)
         /\ Queued(a \o b, name) = Queued(a, name) \o Queued(b, name)
         /\ Queued(a, name) \in Seq(Chars) /\ Queued(b, name) \in Seq(Chars)
         /\ Queued(a, name) = <<>> => Queued(a \o b, name) = Queued(b, name)
         /\ Queued(b, name) = <<>> => Queued(a \o b, name) = Queued(a, name)
  <1>1. a \o b \in Seq(QuietEvent)
    OBVIOUS
  <1>2. Queued(a \o b, name) = Queued(a, name) \o Queued(b, name)
    BY QuietEvents, QueuedConcat
  <1>3. Queued(a, name) \in Seq(Chars) /\ Queued(b, name) \in Seq(Chars)
    BY QuietEvents, TextsType
  <1>4. \A x \in Seq(Chars) : x \o <<>> = x /\ <<>> \o x = x
    BY ConcatEmptySeq
  <1> QED
    BY <1>1, <1>2, <1>3, <1>4

LEMMA OpenedText ==
  ASSUME NEW texts \in Seq(Seq(Chars)), NEW name
  PROVE  /\ Opening \o Deltas(texts) \in Seq(QuietEvent)
         /\ Queued(Opening \o Deltas(texts), name)
              = IF name = "delta" THEN FlattenSeq(texts) ELSE <<>>
  <1>1. Opening \in Seq(QuietEvent) /\ Queued(Opening, name) = <<>>
    BY NothingText, StartText DEF Opening
  <1>2. /\ Deltas(texts) \in Seq(QuietEvent)
        /\ Queued(Deltas(texts), name) = IF name = "delta" THEN FlattenSeq(texts) ELSE <<>>
    BY DeltasText
  <1> QED
    BY <1>1, <1>2, TwoTexts

\* What the callback shows of a piece.
Visible(piece) == IF toolsEnabled THEN BeforeMarker(piece) ELSE piece

LEMMA PieceTypes ==
  ASSUME TypeOK
  PROVE  /\ pieces \in Seq(Seq(Chars)) /\ FlattenSeq(pieces) \in Seq(Chars)
         /\ generated \in Seq(Chars) /\ streamedText \in Seq(Chars) /\ pendingText \in Seq(Chars)
         /\ pieces # <<>> =>
              /\ Head(pieces) \in Seq(Chars) /\ Head(pieces) # <<>>
              /\ Visible(Head(pieces)) \in Seq(Chars)
              /\ FlattenSeq(pieces) = Head(pieces) \o FlattenSeq(Tail(pieces))
              /\ FlattenSeq(Tail(pieces)) \in Seq(Chars)
  <1>1. Pieces \subseteq Seq(Chars) /\ pieces \in Seq(Pieces)
    BY TypesOfPieces DEF TypeOK
  <1>2. pieces \in Seq(Seq(Chars))
    BY <1>1, SubsetSeq
  <1>3. FlattenSeq(pieces) \in Seq(Chars)
    BY <1>2, FlattenType
  <1>4. generated \in Seq(Chars) /\ streamedText \in Seq(Chars) /\ pendingText \in Seq(Chars)
    <2>1. <<"l">> \in Seq(Chars) /\ <<>> \in Seq(Chars)
      BY DEF Chars
    <2> QED
      BY <2>1 DEF TypeOK
  <1>5. ASSUME pieces # <<>>
        PROVE  /\ Head(pieces) \in Seq(Chars) /\ Head(pieces) # <<>>
               /\ FlattenSeq(pieces) = Head(pieces) \o FlattenSeq(Tail(pieces))
               /\ FlattenSeq(Tail(pieces)) \in Seq(Chars)
    <2>1. Head(pieces) # <<>>
      BY <1>5, TypesOfPieces
    <2> QED
      BY <1>2, <1>5, <2>1, FlattenHead
  <1>6. ASSUME pieces # <<>> PROVE Visible(Head(pieces)) \in Seq(Chars)
    <2>1. Head(pieces) \in Seq(Chars)
      BY <1>5, <1>6
    <2>2. BeforeMarker(Head(pieces)) \in Seq(Chars \ {"m"})
      BY <2>1, BeforeMarkerType
    <2>3. BeforeMarker(Head(pieces)) \in Seq(Chars)
      BY <2>2, SubsetSeq
    <2> QED
      BY <2>1, <2>3 DEF Visible
  <1> QED
    BY <1>2, <1>3, <1>4, <1>5, <1>6

LEMMA CallbackGenerated ==
  ASSUME TypeOK, Generated, ~toolMarkerSeen, pieces # <<>>,
         streamedText' = streamedText \o Visible(Head(pieces)),
         toolMarkerSeen' = (toolsEnabled /\ HasMarker(Head(pieces))),
         pieces' = Tail(pieces), UNCHANGED <<toolsEnabled, generated>>
  PROVE  Generated'
  <1>1. PICK s \in Seq(Chars) : s = streamedText
    BY PieceTypes
  <1>2. PICK p \in Seq(Chars) : p = Head(pieces)
    BY PieceTypes
  <1>3. PICK t \in Seq(Chars) : t = FlattenSeq(Tail(pieces))
    BY PieceTypes
  <1>4. p \o t \in Seq(Chars) /\ (s \o p) \o t = s \o (p \o t)
    BY ZenonT(60), ConcatTexts
  <1>5. generated = s \o (p \o t) /\ (toolsEnabled => s \in Seq(Chars \ {"m"}))
    BY <1>1, <1>2, <1>3, PieceTypes DEF Generated, NoMarker
  <1>6. CASE ~toolsEnabled
    BY <1>1, <1>2, <1>3, <1>4, <1>5, <1>6 DEF Generated, Visible
  <1>7. CASE toolsEnabled /\ ~HasMarker(p)
    <2>1. BeforeMarker(p) = p /\ p \in Seq(Chars \ {"m"})
      BY <1>7, BeforeMarkerType
    <2>2. s \o p \in Seq(Chars \ {"m"})
      <3>1. s \in Seq(Chars \ {"m"})
        BY <1>5, <1>7
      <3> QED
        BY <2>1, <3>1
    <2>3. streamedText' = s \o p
      BY <1>1, <1>2, <1>7, <2>1 DEF Visible
    <2> QED
      BY <1>2, <1>3, <1>4, <1>5, <1>7, <2>2, <2>3 DEF Generated, NoMarker
  <1>8. CASE toolsEnabled /\ HasMarker(p)
    <2>1. HasMarker(p \o t) /\ BeforeMarker(p \o t) = BeforeMarker(p)
      BY <1>8, MarkerKept
    <2>2. s \in Seq(Chars \ {"m"}) /\ p \o t \in Seq(Chars)
      BY <1>4, <1>5, <1>8
    <2>3. HasMarker(s \o (p \o t)) /\ BeforeMarker(s \o (p \o t)) = s \o BeforeMarker(p \o t)
      BY <2>1, <2>2, MarkerLater
    <2> QED
      BY <1>1, <1>2, <1>5, <1>8, <2>1, <2>3 DEF Generated, Visible
  <1> QED
    BY <1>6, <1>7, <1>8

LEMMA CallbackStreaming ==
  ASSUME TypeOK, Streaming, At = "generate", At' = "generate",
         NEW visible \in Seq(Chars), NEW d, d = Drained(pendingText \o visible, FALSE),
         streamedText' = streamedText \o visible, pendingText' = d.rest,
         Total("text_done")' = Total("text_done"),
         Total("delta")' = Total("delta") \o FlattenSeq(d.deltas)
  PROVE  Streaming'
  <1>1. PICK s \in Seq(Chars) : s = streamedText
    BY PieceTypes
  <1>2. PICK p \in Seq(Chars) : p = pendingText
    BY PieceTypes
  <1>3. PICK D \in Seq(Chars) : D = Total("delta")
    BY TotalType
  <1>4. p \o visible \in Seq(Chars)
    BY AllConcatTexts, ZenonT(30)
  <1>5. /\ d.deltas \in Seq(Seq(Chars)) /\ d.rest \in Seq(Chars)
        /\ \A X \in Later(FALSE) :
              Sanitized((p \o visible) \o X) = FlattenSeq(d.deltas) \o Sanitized(d.rest \o X)
    <2>1. d = Drained(p \o visible, FALSE)
      BY <1>2
    <2> QED
      BY ZenonT(60), <1>4, <2>1, DrainSound
  <1>6. PICK F \in Seq(Chars) : F = FlattenSeq(d.deltas)
    BY <1>5, FlattenType
  <1>a. \A z \in Seq(Chars) : (D \o F) \o z = D \o (F \o z)
    <2>1. D \in Seq(Chars) /\ F \in Seq(Chars)
      OBVIOUS
    <2> QED
      BY <2>1, AllConcatTexts, ZenonT(30)
  <1>7. ASSUME NEW X \in Seq(Chars)
        PROVE  Sanitized((s \o visible) \o X) = (D \o F) \o Sanitized(d.rest \o X)
    <2>1. PICK w \in Seq(Chars) : w = visible \o X
      <3>1. visible \o X \in Seq(Chars)
        BY AllConcatTexts, ZenonT(30)
      <3> QED
        BY <3>1
    <2>2. (s \o visible) \o X = s \o w
      BY SMTT(60), <2>1, ConcatTexts
    <2>3. Sanitized(s \o w) = D \o Sanitized(p \o w)
      BY <1>1, <1>2, <1>3 DEF Streaming
    <2>4. p \o w = (p \o visible) \o X
      <3>1. (p \o visible) \o X = p \o (visible \o X)
        <4>1. p \in Seq(Chars) /\ visible \in Seq(Chars) /\ X \in Seq(Chars)
          OBVIOUS
        <4> QED
          BY ZenonT(60), <4>1, AllConcatTexts
      <3> QED
        BY <2>1, <3>1
    <2>5. X \in Later(FALSE)
      BY DEF Later
    <2>6. Sanitized((p \o visible) \o X) = F \o Sanitized(d.rest \o X)
      BY <1>5, <1>6, <2>5
    <2>7. PICK z \in Seq(Chars) : z = Sanitized(d.rest \o X)
      <3>1. d.rest \o X \in Seq(Chars)
        BY <1>5, ConcatTexts
      <3>2. Sanitized(d.rest \o X) \in Seq(Chars)
        BY <3>1, SanitizedType
      <3> QED
        BY <3>2
    <2>8. (D \o F) \o z = D \o (F \o z)
      BY <1>a
    <2> QED
      BY <2>2, <2>3, <2>4, <2>6, <2>7, <2>8
  <1>8. Total("text_done") = <<>>
    BY DEF Streaming
  <1> QED
    BY <1>1, <1>3, <1>6, <1>7, <1>8 DEF Streaming

LEMMA CallbackText ==
  ASSUME StreamInvariant, TextInvariant, Callback
  PROVE  TextInvariant'
  <1> DEFINE visible == Visible(Head(pieces))
             d == Drained(pendingText \o visible, FALSE)
  <1>1. /\ cpc = "generate" /\ At = "generate" /\ pieces # <<>> /\ wire' = wire
        /\ pieces' = Tail(pieces) /\ UNCHANGED <<toolsEnabled, generated>>
        /\ toolMarkerSeen' = (toolMarkerSeen \/ (toolsEnabled /\ HasMarker(Head(pieces))))
    BY DEF Callback, connVars, At
  <1>2. IF toolMarkerSeen \/ visible = <<>>
        THEN /\ Emit(<<>>, "generate")
             /\ UNCHANGED <<messageStarted, streamedText, pendingText>>
        ELSE /\ Emit(Opening \o Deltas(d.deltas), "generate")
             /\ messageStarted' = TRUE
             /\ streamedText' = streamedText \o visible
             /\ pendingText' = d.rest
    BY DEF Callback, Visible, VisiblePart
  <1>3. TypeOK /\ visible \in Seq(Chars) /\ streamedText \in Seq(Chars) /\ "generate" \in Places
    BY <1>1, PieceTypes DEF StreamInvariant, Places
  <1> HIDE DEF visible, d
  <1>4. CASE toolMarkerSeen \/ visible = <<>>
    <2>1. /\ At' = "generate" /\ ~Succeeded' /\ \A name : Total(name)' = Total(name)
      <3>1. <<>> \in Seq(QuietEvent)
        OBVIOUS
      <3>2. /\ At' = "generate" /\ ~Succeeded'
            /\ \A name : Total(name)' = Total(name) \o Queued(<<>>, name) /\ Total(name) \in Seq(Chars)
        BY <1>1, <1>2, <1>3, <1>4, <3>1, QuietBatch
      <3> QED
        BY <3>2, NothingText, ConcatEmptySeq
    <2>2. Streaming'
      BY <1>1, <1>2, <1>4, <2>1 DEF TextInvariant, Streaming
    <2>3. Generated'
      <3>1. CASE toolMarkerSeen
        BY <1>1, <1>2, <1>4, <3>1 DEF TextInvariant, Generated
      <3>2. CASE ~toolMarkerSeen
        <4>1. streamedText' = streamedText \o visible
          BY <1>2, <1>3, <1>4, <3>2, ConcatEmptySeq
        <4> QED
          BY <1>1, <1>3, <3>2, <4>1, CallbackGenerated DEF TextInvariant, visible
      <3> QED
        BY <3>1, <3>2
    <2> QED
      BY <2>1, <2>2, <2>3 DEF TextInvariant, Parsing, Finished
  <1>5. CASE ~(toolMarkerSeen \/ visible = <<>>)
    <2>1. d.deltas \in Seq(Seq(Chars))
      <3>1. pendingText \o visible \in Seq(Chars)
        BY <1>3, PieceTypes, ConcatTexts
      <3> QED
        BY <3>1, DrainSound DEF d
    <2>2. PICK events \in Seq(QuietEvent) : events = Opening \o Deltas(d.deltas)
      BY <2>1, OpenedText
    <2>3. \A name : Queued(events, name) = IF name = "delta" THEN FlattenSeq(d.deltas) ELSE <<>>
      BY <2>1, <2>2, OpenedText
    <2>4. Emit(events, "generate")
      BY <1>2, <1>5, <2>2
    <2>5. /\ At' = "generate" /\ ~Succeeded'
          /\ \A name : Total(name)' = Total(name) \o Queued(events, name) /\ Total(name) \in Seq(Chars)
      BY <1>1, <1>3, <2>4, QuietBatch
    <2>6. /\ Total("text_done")' = Total("text_done")
          /\ Total("delta")' = Total("delta") \o FlattenSeq(d.deltas)
      <3>1. Total("text_done") \o <<>> = Total("text_done")
        BY <2>5, ConcatEmptySeq
      <3> QED
        BY <2>3, <2>5, <3>1
    <2>7. Streaming'
      BY <1>1, <1>2, <1>3, <1>5, <2>5, <2>6, CallbackStreaming DEF TextInvariant, d
    <2>8. Generated'
      BY <1>1, <1>2, <1>3, <1>5, CallbackGenerated DEF TextInvariant, visible
    <2> QED
      BY <2>5, <2>7, <2>8 DEF TextInvariant, Parsing, Finished
  <1> QED
    BY <1>4, <1>5

-----------------------------------------------------------------------------
(***************************************************************************)
(* The end of the response.                                                *)
(***************************************************************************)
LEMMA ResultText ==
  ASSUME StreamInvariant, TextInvariant, Result
  PROVE  TextInvariant'
  <1>1. PICK d : d = Drained(pendingText, TRUE)
    OBVIOUS
  <1>2. /\ cpc = "generate" /\ At = "generate" /\ pieces = <<>> /\ wire' = wire
        /\ UNCHANGED <<toolsEnabled, toolMarkerSeen, streamedText, pieces, generated>>
        /\ Emit(Deltas(d.deltas), "parse")
    BY <1>1 DEF Result, connVars, batchVars, At
  <1>3. TypeOK /\ pendingText \in Seq(Chars) /\ streamedText \in Seq(Chars) /\ "parse" \in Places
    BY PieceTypes DEF StreamInvariant, Places
  <1>4. /\ d.deltas \in Seq(Seq(Chars)) /\ d.rest = <<>>
        /\ \A X \in Later(TRUE) :
             Sanitized(pendingText \o X) = FlattenSeq(d.deltas) \o Sanitized(d.rest \o X)
    BY ZenonT(60), <1>1, <1>3, DrainSound
  <1>5. PICK events \in Seq(QuietEvent) : events = Deltas(d.deltas)
    BY <1>4, DeltasText
  <1>6. \A name : Queued(events, name) = IF name = "delta" THEN FlattenSeq(d.deltas) ELSE <<>>
    BY <1>4, <1>5, DeltasText
  <1>7. /\ At' = "parse" /\ ~Succeeded'
        /\ \A name : Total(name)' = Total(name) \o Queued(events, name) /\ Total(name) \in Seq(Chars)
    BY <1>2, <1>3, <1>5, QuietBatch
  <1>8. PICK e \in Seq(Chars) : e = <<>>
    <2>1. <<>> \in Seq(Chars)
      OBVIOUS
    <2> QED
      BY <2>1
  <1>9. \A x \in Seq(Chars) : x \o e = x
    BY <1>8, ConcatEmptySeq
  <1>10. Sanitized(streamedText) = Total("delta") \o Sanitized(pendingText)
    <2>1. Sanitized(streamedText \o e) = Total("delta") \o Sanitized(pendingText \o e)
      BY <1>2 DEF TextInvariant, Streaming
    <2> QED
      BY <1>3, <1>9, <2>1
  <1>11. Sanitized(pendingText) = FlattenSeq(d.deltas)
    <2>1. e \in Later(TRUE)
      BY <1>8 DEF Later
    <2>2. Sanitized(pendingText \o e) = FlattenSeq(d.deltas) \o Sanitized(e \o e)
      BY <1>4, <1>8, <2>1
    <2>3. Sanitized(e) = e /\ FlattenSeq(d.deltas) \in Seq(Chars)
      BY <1>4, <1>8, SanitizedEmpty, FlattenType
    <2> QED
      BY <1>3, <1>9, <2>2, <2>3
  <1>12. Parsing'
    <2>1. Total("delta")' = Sanitized(streamedText)
      BY <1>6, <1>7, <1>10, <1>11
    <2>2. Total("text_done")' = <<>>
      <3>1. Total("text_done") = <<>>
        BY <1>2 DEF TextInvariant, Streaming
      <3>2. Total("text_done")' = e \o e
        BY <1>6, <1>7, <1>8, <3>1
      <3> QED
        BY <1>8, <1>9, <3>2
    <2> QED
      BY <1>2, <2>1, <2>2 DEF Parsing
  <1>13. Generated'
    BY <1>2, GeneratedKept DEF TextInvariant
  <1> QED
    BY <1>7, <1>12, <1>13 DEF TextInvariant, Streaming, Finished

\* The text of the result, and what of it was not streamed.
ResultingText ==
    IF toolsEnabled THEN ParsedText(Sanitized(generated)) ELSE Sanitized(generated)
RemainingTexts(text) == IF toolsEnabled THEN Unstreamed(text) ELSE <<>>

\* They complete what was streamed.
LEMMA RemainingText ==
  ASSUME TypeOK, Generated, pieces = <<>>, NEW text, text = ResultingText
  PROVE  /\ text \in Seq(Chars) /\ RemainingTexts(text) \in Seq(Seq(Chars))
         /\ Sanitized(streamedText) \o FlattenSeq(RemainingTexts(text)) = text
         /\ text = <<>> => Sanitized(streamedText) = <<>>
  <1>1. PICK s \in Seq(Chars) : s = streamedText
    BY PieceTypes
  <1>2. PICK g \in Seq(Chars) : g = generated
    BY PieceTypes
  <1>3. PICK S \in Seq(Chars) : S = Sanitized(s) /\ Len(S) = Len(s)
    <2>1. Sanitized(s) \in Seq(Chars) /\ Len(Sanitized(s)) = Len(s)
      BY SanitizedType
    <2> QED
      BY <2>1
  <1>4. PICK G \in Seq(Chars) : G = Sanitized(g)
    <2>1. Sanitized(g) \in Seq(Chars)
      BY SanitizedType
    <2> QED
      BY <2>1
  <1>5. ~toolMarkerSeen => g = s
    <2>1. FlattenSeq(pieces) = <<>>
      BY FlattenEmpty
    <2>2. s \o <<>> = s
      BY ConcatEmptySeq
    <2> QED
      BY <1>1, <1>2, <2>1, <2>2 DEF Generated
  <1>6. ASSUME text = S, RemainingTexts(text) = <<>>
        PROVE  /\ RemainingTexts(text) \in Seq(Seq(Chars))
               /\ S \o FlattenSeq(RemainingTexts(text)) = text
    <2>1. <<>> \in Seq(Seq(Chars))
      OBVIOUS
    <2> QED
      BY <1>6, <2>1, FlattenEmpty, ConcatEmptySeq
  <1>7. CASE ~toolsEnabled
    <2>1. text = S /\ RemainingTexts(text) = <<>>
      BY <1>1, <1>2, <1>3, <1>5, <1>7 DEF Generated, ResultingText, RemainingTexts
    <2> QED
      BY <1>1, <1>3, <1>6, <2>1
  <1>8. CASE toolsEnabled
    <2>1. text = ParsedText(G)
      BY <1>2, <1>4, <1>8 DEF ResultingText
    <2>2. BeforeMarker(G) = Sanitized(BeforeMarker(g)) /\ (HasMarker(G) <=> HasMarker(g))
      BY <1>4, MarkerSanitized
    <2>3. BeforeMarker(g) = s
      <3>1. CASE toolMarkerSeen
        BY <1>1, <1>2, <3>1 DEF Generated
      <3>2. CASE ~toolMarkerSeen
        <4>1. g \in Seq(Chars \ {"m"})
          BY <1>1, <1>5, <1>8, <3>2 DEF Generated, NoMarker
        <4>2. ~HasMarker(g)
          <5>1. Len(g) \in Nat /\ \A i \in 1..Len(g) : g[i] # "m"
            BY <4>1
          <5> QED
            BY <5>1, MarkerType DEF HasMarker
        <4> QED
          BY <1>5, <3>2, <4>2, BeforeMarkerType
      <3> QED
        BY <3>1, <3>2
    <2>4. BeforeMarker(G) = S
      BY <1>3, <2>2, <2>3
    <2>5. text = S \/ (S # <<>> /\ text = Append(S, "k"))
      BY <2>1, <2>4 DEF ParsedText
    <2>6. CASE text = S
      <3>1. RemainingTexts(text) = <<>>
        BY <1>1, <1>3, <1>8, <2>6 DEF RemainingTexts, Unstreamed
      <3> QED
        BY <1>1, <1>3, <1>6, <2>6, <3>1
    <2>7. CASE S # <<>> /\ text = Append(S, "k")
      <3>1. /\ text \in Seq(Chars) /\ Len(text) = Len(S) + 1 /\ text[Len(S) + 1] = "k"
            /\ Len(S) \in Nat /\ text # <<>>
        BY <2>7 DEF Chars
      <3>2. PICK k \in Seq(Chars) : k = <<"k">>
        <4>1. <<"k">> \in Seq(Chars)
          BY DEF Chars
        <4> QED
          BY <4>1
      <3>3. SubSeq(text, Len(S) + 1, Len(text)) = k
        <4>1. PICK m : m = Len(S) + 1
          OBVIOUS
        <4>2. m \in 1..Len(text) /\ m = Len(text) /\ text[m] = "k"
          BY <3>1, <4>1
        <4>3. PICK u : u = SubSeq(text, m, m)
          OBVIOUS
        <4>4. u \in Seq(Chars) /\ Len(u) = 1 /\ u[1] = text[m]
          BY <3>1, <4>2, <4>3
        <4>5. Len(k) = 1 /\ k[1] = "k"
          BY <3>2
        <4>6. u = k
          <5>1. \A i \in 1..Len(u) : u[i] = k[i]
            BY <4>2, <4>4, <4>5
          <5> QED
            BY <4>4, <4>5, <5>1, SeqEqual
        <4> QED
          BY <4>1, <4>2, <4>3, <4>6
      <3>4. RemainingTexts(text) = <<k>>
        BY <1>1, <1>3, <1>8, <3>1, <3>3 DEF RemainingTexts, Unstreamed
      <3>5. <<k>> \in Seq(Seq(Chars)) /\ FlattenSeq(<<k>>) = k
        BY FlattenOne
      <3>6. S \o k = text
        <4>1. "k" \in Chars
          BY DEF Chars
        <4> QED
          BY <2>7, <3>2, <4>1, AppendIsConcat
      <3> QED
        BY <1>1, <1>3, <3>1, <3>4, <3>5, <3>6
    <2> QED
      BY <2>5, <2>6, <2>7
  <1> QED
    BY <1>7, <1>8

LEMMA LastText ==
  ASSUME NEW text \in Seq(Chars), NEW texts \in Seq(Seq(Chars)), NEW n \in Nat,
         NEW terminal \in Terminal, NEW name \in {"delta", "text_done"}
  PROVE  /\ LastEvents(text, texts, n, terminal) \in Seq(EventType)
         /\ Queued(LastEvents(text, texts, n, terminal), name) =
              IF text # <<>> \/ n = 0
              THEN IF name = "delta" THEN FlattenSeq(texts) ELSE text
              ELSE <<>>
  <1>1. PICK a \in Seq(QuietEvent) : a = Opening \o Deltas(texts)
    BY OpenedText
  <1>2. Queued(a, name) = IF name = "delta" THEN FlattenSeq(texts) ELSE <<>>
    BY <1>1, OpenedText
  <1>3. PICK b \in Seq(QuietEvent) : b = MessageDone(text)
    BY DoneText
  <1>4. Queued(b, name) = IF name = "delta" THEN <<>> ELSE text
    BY <1>3, DoneText
  <1>5. PICK m : m = IF text # <<>> \/ n = 0 THEN a \o b ELSE <<>>
    OBVIOUS
  <1>6. /\ m \in Seq(QuietEvent)
        /\ Queued(m, name) = IF text # <<>> \/ n = 0
                             THEN IF name = "delta" THEN FlattenSeq(texts) ELSE text
                             ELSE <<>>
    <2>1. CASE text # <<>> \/ n = 0
      <3>1. a \o b \in Seq(QuietEvent)
            /\ (Queued(a, name) = <<>> => Queued(a \o b, name) = Queued(b, name))
            /\ (Queued(b, name) = <<>> => Queued(a \o b, name) = Queued(a, name))
        BY TwoTexts
      <3> QED
        BY <1>2, <1>4, <1>5, <2>1, <3>1
    <2>2. CASE ~(text # <<>> \/ n = 0)
      BY <1>5, <2>2, NothingText
    <2> QED
      BY <2>1, <2>2
  <1>7. PICK c \in Seq(QuietEvent) : c = FunctionCalls(n) /\ Queued(c, name) = <<>>
    BY CallsText
  <1>8. m \o c \in Seq(QuietEvent) /\ Queued(m \o c, name) = Queued(m, name)
    <2>1. m \in Seq(QuietEvent)
      BY <1>6
    <2>2. /\ m \o c \in Seq(QuietEvent)
          /\ Queued(c, name) = <<>> => Queued(m \o c, name) = Queued(m, name)
      BY <2>1, TwoTexts
    <2> QED
      BY <1>7, <2>2
  <1>9. PICK q : q = m \o c
    OBVIOUS
  <1>10. PICK e : e = Event(terminal, <<>>)
    OBVIOUS
  <1>11. e \in EventType /\ e.text = <<>>
    <2>1. <<>> \in Seq(Chars)
      OBVIOUS
    <2> QED
      BY <1>10, <2>1 DEF Event, EventType, Events, Unnumbered, Terminal
  <1>12. PICK z \in Seq(EventType) : z = <<e>>
    <2>1. <<e>> \in Seq(EventType)
      BY <1>11
    <2> QED
      BY <2>1
  <1>13. Plain(<<terminal>>) = z
    <2>1. PICK x : x = <<terminal>>
      OBVIOUS
    <2>2. Len(x) = 1 /\ x[1] = terminal
      BY <2>1
    <2>3. Plain(x) = [i \in 1..1 |-> Event(x[i], <<>>)]
      BY <2>2 DEF Plain
    <2>4. [i \in 1..1 |-> Event(x[i], <<>>)] = <<Event(x[1], <<>>)>>
      OBVIOUS
    <2> QED
      BY <1>10, <1>12, <2>1, <2>2, <2>3, <2>4
  <1>14. Queued(z, name) = <<>>
    <2>1. \A k \in 1..Len(z) : z[k].text = <<>>
      BY <1>11, <1>12
    <2> QED
      BY <2>1, QueuedNothing
  <1>15. q \in Seq(EventType)
    BY <1>8, <1>9, QuietEvents
  <1>16. q \o z \in Seq(EventType) /\ Queued(q \o z, name) = Queued(q, name) \o Queued(z, name)
    <2>1. q \o z \in Seq(EventType)
      BY <1>15
    <2>2. \A x \in EventType : x.text \in Seq(Chars)
      BY QuietEvents
    <2>3. Queued(q \o z, name) = Queued(q, name) \o Queued(z, name)
      BY <1>15, <2>2, QueuedConcat, SMTT(30)
    <2> QED
      BY <2>1, <2>3
  <1>17. Queued(q, name) \o <<>> = Queued(q, name)
    <2>1. Queued(q, name) \in Seq(Chars)
      BY <1>15, QuietEvents, TextsType
    <2> QED
      BY <2>1, ConcatEmptySeq
  <1>18. LastEvents(text, texts, n, terminal) = q \o z
    <2>1. (IF text # <<>> \/ n = 0
           THEN Opening \o Deltas(texts) \o MessageDone(text) ELSE <<>>) = m
      BY <1>1, <1>3, <1>5
    <2> QED
      BY <1>7, <1>9, <1>13, <2>1 DEF LastEvents
  <1> QED
    BY <1>6, <1>8, <1>9, <1>14, <1>16, <1>17, <1>18

LEMMA FinishText ==
  ASSUME StreamInvariant, TextInvariant, Finish
  PROVE  TextInvariant'
  <1>1. PICK text : text = ResultingText
    OBVIOUS
  <1>2. PICK texts : texts = RemainingTexts(text)
    OBVIOUS
  <1>3. PICK name : name = IF outcome.reason = "length" THEN "incomplete" ELSE "completed"
    OBVIOUS
  <1>4. PICK calls : calls = IF toolsEnabled /\ HasMarker(generated) THEN 1..MaxCalls ELSE {0}
    OBVIOUS
  <1>5. /\ cpc = "parse" /\ At = "parse" /\ wire' = wire
        /\ UNCHANGED <<connVars, envVars, toolsEnabled, textVars, batchVars>>
        /\ \/ Error
           \/ \E n \in calls :
                  Emit((IF text # <<>> \/ n = 0
                        THEN Opening \o (IF toolsEnabled THEN Deltas(Unstreamed(text)) ELSE <<>>)
                               \o MessageDone(text)
                        ELSE <<>>)
                         \o FunctionCalls(n) \o Plain(<<name>>), "returned")
    BY <1>1, <1>3, <1>4 DEF Finish, ResultingText, At, connVars
  <1>6. CASE Error
    BY <1>5, <1>6, ErrorReported
  <1>7. ASSUME NEW n \in calls,
               Emit((IF text # <<>> \/ n = 0
                        THEN Opening \o (IF toolsEnabled THEN Deltas(Unstreamed(text)) ELSE <<>>)
                               \o MessageDone(text)
                        ELSE <<>>)
                         \o FunctionCalls(n) \o Plain(<<name>>), "returned")
        PROVE  TextInvariant'
    <2>1. n \in Nat /\ (~toolsEnabled => n = 0) /\ name \in Terminal
      BY <1>3, <1>4, <1>7, StreamAssumption DEF Terminal
    <2>2. TypeOK /\ outbox = <<>> /\ "returned" \in Places
      BY <1>5, Between DEF StreamInvariant, Places
    <2>3. /\ pieces = <<>> /\ Total("text_done") = <<>>
          /\ Total("delta") = Sanitized(streamedText)
      BY <1>5 DEF TextInvariant, Parsing
    <2>4. /\ text \in Seq(Chars) /\ texts \in Seq(Seq(Chars))
          /\ Sanitized(streamedText) \o FlattenSeq(texts) = text
          /\ text = <<>> => Sanitized(streamedText) = <<>>
      BY <1>1, <1>2, <2>2, <2>3, RemainingText DEF TextInvariant
    <2>5. (IF toolsEnabled THEN Deltas(Unstreamed(text)) ELSE <<>>) = Deltas(texts)
      BY <1>2 DEF Deltas, RemainingTexts
    <2>6. PICK events : events = LastEvents(text, texts, n, name)
      OBVIOUS
    <2>7. Emit(events, "returned")
      BY <1>7, <2>5, <2>6 DEF LastEvents
    <2>8. /\ events \in Seq(EventType)
          /\ Queued(events, "delta") = IF text # <<>> \/ n = 0 THEN FlattenSeq(texts) ELSE <<>>
          /\ Queued(events, "text_done") = IF text # <<>> \/ n = 0 THEN text ELSE <<>>
      BY <2>1, <2>4, <2>6, LastText
    <2>9. \A x : /\ Total(x)' = Total(x) \o Queued(events, x)
                 /\ Total(x) \in Seq(Chars) /\ Queued(events, x) \in Seq(Chars)
      BY <1>5, <2>2, <2>7, <2>8, EmitText
    <2>10. At' = "returned"
      BY <2>2, <2>7, <2>8, Emitted DEF StreamInvariant, TypeOK, Places
    <2>11. Total("delta")' = text /\ Total("text_done")' = text
      <3>1. \A x \in Seq(Chars) : x \o <<>> = x /\ <<>> \o x = x
        BY ConcatEmptySeq
      <3>2. <<>> \in Seq(Chars)
        OBVIOUS
      <3>3. CASE text # <<>> \/ n = 0
        BY <2>3, <2>4, <2>8, <2>9, <3>1, <3>3
      <3>4. CASE ~(text # <<>> \/ n = 0)
        BY <2>3, <2>4, <2>8, <2>9, <3>1, <3>2, <3>4
      <3> QED
        BY <3>3, <3>4
    <2>12. wpc' = "settled"
      BY <1>5 DEF StreamInvariant, Control, Decided, batchVars
    <2>13. UNCHANGED <<toolsEnabled, toolMarkerSeen, streamedText, pieces, generated>>
      BY <1>5 DEF textVars, batchVars
    <2>14. ~toolsEnabled' => Total("delta")' = Sanitized(generated)'
      BY <1>1, <2>11, <2>13 DEF ResultingText
    <2>15. Generated'
      BY <2>13, GeneratedKept DEF TextInvariant
    <2> QED
      BY <2>10, <2>11, <2>12, <2>14, <2>15 DEF TextInvariant, Streaming, Parsing, Finished
  <1> QED
    BY <1>5, <1>6, <1>7

-----------------------------------------------------------------------------
(***************************************************************************)
(* The steps that move or leave the events.                                *)
(***************************************************************************)
LEMMA TextKept ==
  ASSUME TextInvariant, \A name : Total(name)' = Total(name), Succeeded' => Succeeded,
         At' \in {At, "returned"}, wpc = "settled" => wpc' = "settled",
         UNCHANGED <<toolsEnabled, toolMarkerSeen, streamedText, pendingText, pieces, generated>>
  PROVE  TextInvariant'
  <1>1. Generated'
    BY GeneratedKept DEF TextInvariant
  <1>2. Streaming'
    BY DEF TextInvariant, Streaming
  <1>3. Parsing'
    BY DEF TextInvariant, Parsing
  <1>4. Finished'
    BY DEF TextInvariant, Finished
  <1> QED
    BY <1>1, <1>2, <1>3, <1>4 DEF TextInvariant

\* Neither the wire nor the queue changes.
LEMMA TotalKept ==
  ASSUME wire' = wire, outbox' = outbox
  PROVE  /\ \A name : Total(name)' = Total(name)
         /\ Succeeded' => Succeeded
  <1>1. \A name : TextOf(name)' = TextOf(name) /\ Sent(name)' = Sent(name)
    BY WireSame, WireKept
  <1>2. \A name : Total(name)' = Total(name)
    BY <1>1 DEF Total
  <1>3. \A name : All(name)' => All(name)
    BY <1>1 DEF All, Has, Earlier
  <1> QED
    BY <1>2, <1>3 DEF Succeeded

LEMMA SendHeadText ==
  ASSUME StreamInvariant, TextInvariant, SendHead
  PROVE  TextInvariant'
  <1>1. cpc \in {"send", "tail"} /\ cpc' = "tail" /\ At = then /\ At' = then
    BY DEF SendHead, At
  <1>2. TypeOK /\ wire \in Seq(Frames \X {1, 2}) /\ Head(outbox) \in Frames
    BY <1>1, FramesOfQueue DEF StreamInvariant
  <1>3. wire' = Append(wire, <<Head(outbox), 1>>) /\ outbox' = outbox
    BY DEF SendHead
  <1>4. ASSUME NEW name PROVE Total(name)' = Total(name)
    <2>1. TextOf(name)' = TextOf(name) \o <<>>
      BY <1>2, <1>3, WireText
    <2>2. TextOf(name) \o <<>> = TextOf(name)
      BY <1>2, TotalType, ConcatEmptySeq
    <2> QED
      BY <1>3, <2>1, <2>2 DEF Total
  <1>5. Succeeded' => Succeeded
    <2>1. \A name : Sent(name)' = Sent(name)
      BY <1>2, <1>3, HeadOnWire
    <2> QED
      BY <1>3, <2>1 DEF Succeeded, All, Has, Earlier
  <1> QED
    BY <1>1, <1>4, <1>5, TextKept DEF SendHead, textVars, batchVars

LEMMA SendTailText ==
  ASSUME StreamInvariant, TextInvariant, SendTail
  PROVE  TextInvariant'
  <1>1. cpc \in {"send", "tail"} /\ then' = then /\ cpc' = IF Len(outbox) = 1 THEN then ELSE "send"
    BY DEF SendTail
  <1>2. /\ TypeOK /\ wire \in Seq(Frames \X {1, 2}) /\ Head(outbox) \in Frames
        /\ outbox \in Seq(Frames) /\ outbox # <<>> /\ Head(outbox) = outbox[1]
        /\ Len(outbox) \in Nat \ {0} /\ then \in Places /\ At = then
    BY <1>1, FramesOfQueue DEF StreamInvariant
  <1>3. At' = At
    BY <1>1, <1>2 DEF At, Places
  <1>4. PICK f \in Frames : f = Head(outbox)
    BY <1>2
  <1>5. wire' = Append(wire, <<f, 2>>) /\ outbox' = Tail(outbox)
    BY <1>4 DEF SendTail
  <1>6. ASSUME NEW name PROVE Total(name)' = Total(name)
    <2>1. PICK x : x = IF f.event = name THEN f.text ELSE <<>>
      OBVIOUS
    <2>2. TextOf(name)' = TextOf(name) \o x
      BY <1>2, <1>5, <2>1, WireText
    <2>3. <<f>> \in Seq(Frames) /\ Tail(outbox) \in Seq(Frames) /\ outbox = <<f>> \o Tail(outbox)
      BY <1>2, <1>4, HeadAndTail
    <2>4. \A e \in Frames : e.text \in Seq(Chars)
      BY DEF Frames
    <2>5. Queued(<<f>> \o Tail(outbox), name) = Queued(<<f>>, name) \o Queued(Tail(outbox), name)
      <3>1. PICK a \in Seq(Frames) : a = <<f>>
        BY <2>3
      <3>2. PICK b \in Seq(Frames) : b = Tail(outbox)
        BY <2>3
      <3>3. Queued(a \o b, name) = Queued(a, name) \o Queued(b, name)
        BY <2>4, QueuedConcat
      <3> QED
        BY <3>1, <3>2, <3>3
    <2>6. Queued(<<f>>, name) = x
      <3>1. f.text \in Seq(Chars)
        BY <2>4
      <3> QED
        BY <2>1, <3>1, QueuedOne
    <2>7. PICK w \in Seq(Chars) : w = Queued(Tail(outbox), name)
      <3>1. Queued(Tail(outbox), name) \in Seq(Chars)
        BY <2>3, <2>4, TextsType
      <3> QED
        BY <3>1
    <2>8. PICK v \in Seq(Chars) : v = TextOf(name)
      <3>1. TextOf(name) \in Seq(Chars)
        BY <1>2, TotalType
      <3> QED
        BY <3>1
    <2>9. x \in Seq(Chars)
      <3>1. f.text \in Seq(Chars) /\ <<>> \in Seq(Chars)
        BY <2>4
      <3> QED
        BY <2>1, <3>1
    <2>10. (v \o x) \o w = v \o (x \o w)
      BY <2>9, AllConcatTexts, ZenonT(30)
    <2>11. Queued(outbox, name) = x \o w
      BY <2>3, <2>5, <2>6, <2>7
    <2>12. Total(name)' = (v \o x) \o w
      BY <1>5, <2>2, <2>7, <2>8 DEF Total
    <2> QED
      BY <2>8, <2>10, <2>11, <2>12 DEF Total
  <1>7. Succeeded' => Succeeded
    <2>1. \A name : Sent(name)' <=> Sent(name) \/ name = f.event
      BY <1>2, <1>5, TailOnWire
    <2>2. /\ Len(outbox') = Len(outbox) - 1
          /\ \A j \in 1..Len(outbox') : outbox'[j] = outbox[j + 1] /\ j + 1 \in 1..Len(outbox)
      BY <1>2, <1>5
    <2>3. 1 \in 1..Len(outbox) /\ outbox[1] = f
      BY <1>2, <1>4
    <2>4. /\ 1..((Len(outbox) + 1) - 1) = 1..Len(outbox)
          /\ 1..((Len(outbox') + 1) - 1) = 1..Len(outbox')
      BY <1>2, <2>2
    <2>5. ASSUME NEW name, All(name)' PROVE All(name)
      <3>1. Sent(name)' \/ \E j \in 1..Len(outbox') : outbox'[j].event = name
        BY <2>4, <2>5 DEF All, Has, Earlier
      <3>2. Sent(name) \/ \E j \in 1..Len(outbox) : outbox[j].event = name
        BY <2>1, <2>2, <2>3, <3>1
      <3> QED
        BY <2>4, <3>2 DEF All, Has, Earlier
    <2> QED
      BY <2>5 DEF Succeeded
  <1> QED
    BY <1>3, <1>6, <1>7, TextKept DEF SendTail, textVars, batchVars

LEMMA SendFailsText ==
  ASSUME StreamInvariant, TextInvariant, SendFails
  PROVE  TextInvariant'
  <1>1. At' = "returned"
    BY DEF SendFails, At
  <1>2. wire' = wire /\ outbox' = outbox
    BY DEF SendFails
  <1> QED
    BY <1>1, <1>2, TotalKept, TextKept DEF SendFails, textVars

LEMMA ProbeText ==
  ASSUME StreamInvariant, TextInvariant, wpc \in {"probe", "tail"}, NEW h \in {1, 2},
         wire' = Append(wire, <<Comment("keepalive"), h>>),
         UNCHANGED <<toolsEnabled, sendVars, textVars, pieces, generated>>
  PROVE  TextInvariant'
  <1>1. PICK f \in Frames : f = Comment("keepalive")
    <2>1. <<>> \in Seq(Chars)
      OBVIOUS
    <2>2. Comment("keepalive") \in Frames
      BY <2>1 DEF Comment, Frames, Events
    <2> QED
      BY <2>2
  <1>2. f.event = "keepalive" /\ f.text = <<>>
    BY <1>1 DEF Comment
  <1>3. TypeOK /\ wire \in Seq(Frames \X {1, 2}) /\ wire' = Append(wire, <<f, h>>) /\ outbox' = outbox
    BY <1>1 DEF StreamInvariant, TypeOK, sendVars
  <1>4. ASSUME NEW name PROVE Total(name)' = Total(name)
    <2>1. TextOf(name)' = TextOf(name) \o (IF h = 2 /\ f.event = name THEN f.text ELSE <<>>)
      BY <1>3, WireText
    <2>2. (IF h = 2 /\ f.event = name THEN f.text ELSE <<>>) = <<>>
      BY <1>2
    <2>3. TextOf(name) \o <<>> = TextOf(name)
      BY <1>3, TotalType, ConcatEmptySeq
    <2> QED
      BY <1>3, <2>1, <2>2, <2>3 DEF Total
  <1>5. Succeeded' => Succeeded
    <2>1. \A name \in Success : Sent(name)' => Sent(name)
      <3>1. CASE h = 1
        BY <1>3, <3>1, HeadOnWire
      <3>2. CASE h = 2
        BY <1>2, <1>3, <3>2, TailOnWire DEF Success
      <3> QED
        BY <3>1, <3>2
    <2> QED
      BY <1>3, <2>1 DEF Succeeded, All, Has, Earlier
  <1>6. At' = At
    BY DEF At, sendVars
  <1> QED
    BY <1>4, <1>5, <1>6, TextKept DEF textVars

\* Steps of the worker, the peer and the clock that send and produce nothing.
LEMMA QuietText ==
  ASSUME StreamInvariant, TextInvariant, wpc = "settled" => wpc' = "settled",
         UNCHANGED <<wire, toolsEnabled, sendVars, textVars, pieces, generated>>
  PROVE  TextInvariant'
  <1>1. At' = At /\ outbox' = outbox
    BY DEF At, sendVars
  <1> QED
    BY <1>1, TotalKept, TextKept DEF textVars

LEMMA ProduceText ==
  ASSUME StreamInvariant, TextInvariant, NEW piece \in Pieces, Produce(piece)
  PROVE  TextInvariant'
  <1>1. /\ wpc = "sample" /\ pieces' = Append(pieces, piece) /\ generated' = generated \o piece
        /\ wire' = wire /\ outbox' = outbox
        /\ UNCHANGED <<toolsEnabled, toolMarkerSeen, streamedText, pendingText, cpc, then>>
    BY DEF Produce, connVars, sendVars, textVars
  <1>2. At' = At
    BY <1>1 DEF At
  <1>3. \A name : Total(name)' = Total(name)
    BY <1>1, TotalKept
  <1>4. ~Succeeded'
    <2>1. ~Succeeded
      BY <1>1 DEF TextInvariant, Finished
    <2> QED
      BY <1>1, <2>1, TotalKept
  <1>5. Streaming'
    BY <1>1, <1>2, <1>3 DEF TextInvariant, Streaming
  <1>6. At # "parse"
    BY <1>1 DEF StreamInvariant, Control, Decided
  <1>7. Generated'
    <2>0. TypeOK
      BY DEF StreamInvariant
    <2>1. PICK s \in Seq(Chars) : s = streamedText
      BY <2>0, PieceTypes
    <2>2. PICK t \in Seq(Chars) : t = FlattenSeq(pieces)
      BY <2>0, PieceTypes
    <2>3. PICK p \in Seq(Chars) : p = piece
      BY <2>0, TypesOfPieces
    <2>4. FlattenSeq(Append(pieces, p)) = t \o p
      BY <2>0, <2>2, PieceTypes, FlattenAppend
    <2>5. (s \o t) \o p = s \o (t \o p)
      BY AllConcatTexts, ZenonT(30)
    <2>6. generated \in Seq(Chars)
      BY <2>0, PieceTypes
    <2>7. CASE toolMarkerSeen
      <3>1. toolsEnabled /\ HasMarker(generated) /\ streamedText = BeforeMarker(generated)
        BY <2>7 DEF TextInvariant, Generated
      <3>2. HasMarker(generated \o p) /\ BeforeMarker(generated \o p) = BeforeMarker(generated)
        BY <2>6, <3>1, MarkerKept
      <3> QED
        BY <1>1, <2>3, <2>7, <3>1, <3>2 DEF Generated
    <2>8. CASE ~toolMarkerSeen
      <3>1. generated = s \o t /\ (toolsEnabled => NoMarker(streamedText))
        BY <2>1, <2>2, <2>8 DEF TextInvariant, Generated
      <3> QED
        BY <1>1, <2>1, <2>3, <2>4, <2>5, <2>8, <3>1 DEF Generated
    <2> QED
      BY <2>7, <2>8
  <1> QED
    BY <1>2, <1>4, <1>5, <1>6, <1>7 DEF TextInvariant, Parsing, Finished

-----------------------------------------------------------------------------
(***************************************************************************)
(* The theorems.                                                           *)
(***************************************************************************)
LEMMA TextAtFirst ==
  ASSUME Init
  PROVE  TextInvariant
  <1>1. /\ wire = <<>> /\ outbox = <<Comment("headers")>> /\ At = "begin"
        /\ streamedText = <<>> /\ pendingText = <<>> /\ pieces = <<>> /\ generated = <<>>
        /\ toolMarkerSeen = FALSE
    BY DEF Init, At
  <1>2. PICK e \in Seq(Chars) : e = <<>> /\ Len(e) = 0
    <2>1. <<>> \in Seq(Chars) /\ Len(<<>>) = 0
      OBVIOUS
    <2> QED
      BY <2>1
  <1>3. \A x \in Seq(Chars) : x \o e = x /\ e \o x = x
    BY <1>2, ConcatEmptySeq
  <1>4. PICK c : c = Comment("headers")
    OBVIOUS
  <1>5. c.event = "headers" /\ c.text = e
    BY <1>2, <1>4 DEF Comment
  <1>6. ASSUME NEW name PROVE Total(name) = e
    <2>1. TextOf(name) = e
      <3>1. Halves(wire, name) = <<>>
        BY <1>1 DEF Halves
      <3> QED
        BY <1>2, <3>1, TextIsHalves, FlattenEmpty
    <2>2. Queued(outbox, name) = e
      BY <1>1, <1>2, <1>4, <1>5, QueuedOne
    <2> QED
      BY <1>3, <2>1, <2>2 DEF Total
  <1>7. Generated
    <2>1. e = e \o FlattenSeq(<<>>)
      BY <1>2, <1>3, FlattenEmpty
    <2>2. e \in Seq(Chars \ {"m"})
      BY <1>2
    <2> QED
      BY <1>1, <1>2, <2>1, <2>2 DEF Generated, NoMarker
  <1>8. Streaming
    <2>1. ASSUME NEW X \in Seq(Chars)
          PROVE  Sanitized(e \o X) = e \o Sanitized(e \o X)
      <3>1. Sanitized(X) \in Seq(Chars)
        BY SanitizedType
      <3> QED
        BY <1>3, <3>1
    <2> QED
      BY <1>1, <1>2, <1>6, <2>1 DEF Streaming
  <1>9. ~Succeeded
    <2>1. \A name : ~Sent(name)
      BY <1>1 DEF Sent, Received
    <2>2. Len(outbox) = 1 /\ outbox[1].event = "headers"
      BY <1>1, <1>4, <1>5
    <2>3. \A j \in 1..((Len(outbox) + 1) - 1) : j = 1
      BY <2>2
    <2> QED
      BY <2>1, <2>2, <2>3 DEF Succeeded, Success, All, Has, Earlier
  <1> QED
    BY <1>1, <1>7, <1>8, <1>9 DEF TextInvariant, Parsing, Finished

LEMMA TextNext ==
  ASSUME StreamInvariant, TextInvariant, [Next]_vars
  PROVE  TextInvariant'
  <1>1. CASE ClientStep
    BY <1>1, SendHeadText, SendTailText, SendFailsText, BeginText, SubmitText, CallbackText,
       ResultText, FinishText, ParseThrowsText, FailedText DEF ClientStep
  <1>2. CASE CheckFails
    BY <1>2, QuietText DEF CheckFails, connVars
  <1>3. CASE CheckPasses
    BY <1>3, QuietText DEF CheckPasses, connVars
  <1>4. CASE ProbeHead
    BY <1>4, ProbeText DEF ProbeHead
  <1>5. CASE ProbeTail
    BY <1>5, ProbeText DEF ProbeTail
  <1>6. CASE ProbeFails
    BY <1>6, QuietText DEF ProbeFails
  <1>7. CASE \E piece \in Pieces : Produce(piece)
    BY <1>7, ProduceText
  <1>8. CASE EndOfText
    BY <1>8, QuietText DEF EndOfText, connVars
  <1>9. CASE PeerMoves
    BY <1>9, QuietText DEF PeerMoves, connVars, batchVars
  <1>10. CASE DeadlinePasses
    BY <1>10, QuietText DEF DeadlinePasses, connVars, batchVars
  <1>11. CASE UNCHANGED vars
    BY <1>11, QuietText DEF vars, connVars, batchVars
  <1> QED
    BY <1>1, <1>2, <1>3, <1>4, <1>5, <1>6, <1>7, <1>8, <1>9, <1>10, <1>11
    DEF Next, WorkerStep

\* The received and queued deltas are, all along, what was streamed without what
\* is pending: however the tokens cut the characters, and wherever a call begins.
THEOREM TextInvariantHolds == Spec => []TextInvariant
  <1>1. Init => TextInvariant
    BY TextAtFirst
  <1>2. StreamInvariant /\ TextInvariant /\ [Next]_vars => TextInvariant'
    BY TextNext
  <1> QED
    BY <1>1, <1>2, StreamInvariantHolds, PTL DEF Spec

\* The deltas of a successful stream add up to the text of its done event and,
\* without tools, to sanitize_utf8 of all the generated bytes: drain_pending, called
\* piece by piece, never loses, repeats or splits a character (stream_responses).
THEOREM DeltasHold == Spec => []DeltasAreTheText
  <1>1. ASSUME StreamInvariant, TextInvariant PROVE DeltasAreTheText
    <2>1. SUFFICES ASSUME Ended({"completed", "incomplete"})
                   PROVE  /\ TextOf("delta") = TextOf("text_done")
                          /\ ~toolsEnabled => TextOf("delta") = Sanitized(generated)
      BY DEF DeltasAreTheText
    <2>2. PICK name \in Success : Sent(name)
      BY <2>1 DEF Ended, Sent, Success
    <2>3. outbox = <<>>
      BY <1>1, <2>2 DEF StreamInvariant, Ending, Success, Terminal
    <2>4. Succeeded
      BY <2>2 DEF Succeeded, All, Has, Earlier
    <2>5. \A x : Total(x) = TextOf(x)
      BY <1>1, <2>3, TotalEmpty DEF StreamInvariant
    <2> QED
      BY <1>1, <2>4, <2>5 DEF TextInvariant, Finished
  <1> QED
    BY <1>1, StreamInvariantHolds, TextInvariantHolds, PTL
=============================================================================
