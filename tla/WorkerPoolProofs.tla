--------------------------- MODULE WorkerPoolProofs ---------------------------
(***************************************************************************)
(* Proofs about WorkerPool, for any threads, calls, counts and nesting.    *)
(*                                                                         *)
(* A task of a dispatched call is open until TaskGroup::finish: its caller *)
(* still has to hand it out, it is queued, or a frame carries it.  No task *)
(* is in two of these places, and `remaining` is the number of open ones.  *)
(* So when a caller sees zero, nothing of its call is left; and each unit  *)
(* is either ahead of what was claimed or has been begun by one frame.     *)
(***************************************************************************)
EXTENDS WorkerPool, FiniteSetTheorems, SequenceTheorems, TLAPS

-----------------------------------------------------------------------------
(***************************************************************************)
(* Frames.                                                                 *)
(***************************************************************************)

\* A frame keeps its depth, counted from the outermost, while it is there.
Depth(t) == Len(stack[t])
FrameAt(t, d) == stack[t][Depth(t) + 1 - d]

FrameType == [call : Calls, mode : Modes, pc : Pcs, task : Nat, unit : Nat,
              failed : BOOLEAN]
UnitPcs == {"run", "nested", "ran", "threw"}

\* The frame of the thread that made the call; the others run its tasks.
IsMain(f) == f.mode # "task"
Dispatches(f) == f.mode \in {"dispatch", "own"}
HasUnit(f) == f.pc \in UnitPcs
Failing(f) == f.pc = "finish" /\ f.failed
Works(f) == f.mode = "task" \/ (f.mode = "own" /\ f.pc \notin {"join", "asleep"})
\* The tasks a dispatching caller has handed out.
Handed(f) == IF f.pc = "notify" THEN f.task + 1 ELSE f.task
\* The tasks a frame is to finish, or to hand out.
Carries(f, k) ==
    \/ Works(f) /\ k = f.task
    \/ f.mode = "dispatch" /\ k >= Handed(f)

Unstarted(c) ==
    /\ outcome[c] = "none" /\ ended[c] = {} /\ ~exception[c]
    /\ \A u \in 0..(Units(c) - 1) : begun[c][u] = 0
\* No thread can have entered the call yet.
Fresh(c) ==
    /\ \A t \in Callers : RootCall[t] # c
    /\ \A p \in Calls : NestedCall[p] = c /\ Units(p) > 0 => begun[p][0] = 0

Carried(c, k) ==
    \E t \in Threads : \E d \in 1..Depth(t) :
       FrameAt(t, d).call = c /\ Carries(FrameAt(t, d), k)
Queued(c, k) == \E i \in 1..Len(tasks) : tasks[i] = <<c, k>>
Open(c) == {k \in 0..(TaskCount(c) - 1) : Carried(c, k) \/ Queued(c, k)}

\* A claimed unit: it has ended, somebody is at it, or a function has thrown.
Settled(c, u) ==
    \/ u \in ended[c] \/ exception[c]
    \/ \E t \in Threads : \E d \in 1..Depth(t) :
          LET f == FrameAt(t, d) IN
          f.call = c /\ ((HasUnit(f) /\ f.unit = u) \/ Failing(f))

-----------------------------------------------------------------------------
(***************************************************************************)
(* The inductive invariant.                                                *)
(***************************************************************************)

\* What each mode is doing.
FrameOK(f) ==
    /\ f \in FrameType
    /\ f.pc = "enter" => f.mode = "inline" /\ f.task = 0 /\ f.unit = 0
    /\ f.pc # "enter" => Count[f.call] # 0
    /\ f.failed => f.mode # "inline" /\ f.pc \in {"finish", "join", "asleep"}
    /\ f.mode = "inline" => f.pc \in {"enter"} \cup UnitPcs
    /\ f.mode = "dispatch" =>
         f.pc \in {"enqueue", "notify"} /\ Handed(f) < TaskCount(f.call)
    /\ f.mode = "own" =>
         /\ f.pc \in {"claim", "finish", "join", "asleep"} \cup UnitPcs
         /\ f.task + 1 = TaskCount(f.call)
    /\ f.mode = "task" =>
         /\ f.pc \in {"claim", "finish"} \cup UnitPcs
         /\ f.task + 1 < TaskCount(f.call)
    /\ HasUnit(f) =>
         /\ f.unit < Units(f.call)
         /\ f.mode # "inline" /\ f.call \notin Dynamic => f.unit = f.task

\* A call is entered from a unit, a task is run from the dispatch it is of.
Nested ==
    \A t \in Threads :
      /\ \A d \in 1..Depth(t) : FrameOK(FrameAt(t, d))
      /\ \A d \in 1..(Depth(t) - 1) :
           IF IsMain(FrameAt(t, d + 1))
           THEN FrameAt(t, d).pc = "nested"
           ELSE FrameAt(t, d).mode = "dispatch" /\ FrameAt(t, d).pc = "enqueue"
      /\ Depth(t) > 0 => FrameAt(t, Depth(t)).pc # "nested"

QueueOK ==
    \A i \in 1..Len(tasks) : LET c == tasks[i][1]  k == tasks[i][2] IN
      /\ c \in Calls /\ k \in Nat /\ k + 1 < TaskCount(c) /\ Count[c] # 0
      /\ tasks[i] = <<c, k>>

\* A call has one main frame, and a task one place.
Alone ==
    /\ \A t1, t2 \in Threads : \A d1 \in 1..Depth(t1), d2 \in 1..Depth(t2) :
         LET f == FrameAt(t1, d1)  g == FrameAt(t2, d2) IN
         f.call = g.call =>
           \/ t1 = t2 /\ d1 = d2
           \/ /\ ~(IsMain(f) /\ IsMain(g))
              /\ \A k \in 0..(TaskCount(f.call) - 1) :
                   ~(Carries(f, k) /\ Carries(g, k))
    /\ \A i, j \in 1..Len(tasks) : tasks[i] = tasks[j] => i = j
    /\ \A t \in Threads : \A d \in 1..Depth(t) : \A i \in 1..Len(tasks) :
         tasks[i][1] = FrameAt(t, d).call => ~Carries(FrameAt(t, d), tasks[i][2])

\* The tasks of a call are there while its caller is, and that has not ended.
HasCaller(c) ==
    \E t \in Threads : \E d \in 1..Depth(t) :
       FrameAt(t, d).call = c /\ Dispatches(FrameAt(t, d))
Owned ==
    /\ \A t \in Threads : \A d \in 1..Depth(t) :
         /\ ~IsMain(FrameAt(t, d)) => HasCaller(FrameAt(t, d).call)
         /\ IsMain(FrameAt(t, d)) => outcome[FrameAt(t, d).call] = "none"
    /\ \A i \in 1..Len(tasks) : HasCaller(tasks[i][1])

Counted == \A c \in Calls : remaining[c] = Cardinality(Open(c))

\* A call is entered once, with nothing begun.
Entered ==
    /\ \A c \in Calls : Fresh(c) =>
         /\ Unstarted(c)
         /\ \A t \in Threads : \A d \in 1..Depth(t) : FrameAt(t, d).call # c
    /\ \A t \in Threads : \A d \in 1..Depth(t) :
         FrameAt(t, d).pc = "enter" => Unstarted(FrameAt(t, d).call)

\* What a frame knows of the units of its call.
StepUnits(f) ==
    LET c == f.call  N == 0..(Units(c) - 1) IN
    /\ f.pc = "run" => begun[c][f.unit] = 0
    /\ f.mode = "inline" /\ HasUnit(f) =>
         \A u \in N : /\ u > f.unit => begun[c][u] = 0
                      /\ u < f.unit => u \in ended[c]
    /\ HasUnit(f) /\ f.mode # "inline" /\ c \in Dynamic => f.unit < next[c]
    /\ f.pc = "finish" /\ ~f.failed =>
         IF c \in Dynamic THEN next[c] >= Count[c] ELSE f.task \in ended[c]
    /\ f.pc \in {"join", "asleep"} /\ f.failed => exception[c]
    /\ f.pc = "claim" /\ c \notin Dynamic => begun[c][f.task] = 0
    /\ f.mode = "dispatch" /\ c \notin Dynamic =>
         \A u \in N : u >= Handed(f) => begun[c][u] = 0
\* While its caller is there, the units of a call are ahead or accounted for.
CallerUnits(f) ==
    LET c == f.call  N == 0..(Units(c) - 1) IN
    Dispatches(f) =>
      IF c \in Dynamic
      THEN /\ \A u \in N : IF u >= next[c] THEN begun[c][u] = 0 ELSE Settled(c, u)
           /\ Open(c) # 0..(TaskCount(c) - 1) => exception[c] \/ next[c] >= Count[c]
      ELSE \A u \in N : u \in Open(c) \/ u \in ended[c] \/ exception[c]
FrameUnits(f) == StepUnits(f) /\ CallerUnits(f)

FramesKnow == \A t \in Threads : \A d \in 1..Depth(t) : FrameUnits(FrameAt(t, d))
\* No two frames are at the same unit.
UnitsApart ==
    \A t1, t2 \in Threads : \A d1 \in 1..Depth(t1), d2 \in 1..Depth(t2) :
      LET f == FrameAt(t1, d1)  g == FrameAt(t2, d2) IN
      f.call = g.call /\ HasUnit(f) /\ HasUnit(g) /\ f.unit = g.unit =>
        t1 = t2 /\ d1 = d2
QueueUnbegun ==
    \A i \in 1..Len(tasks) :
      tasks[i][1] \notin Dynamic => begun[tasks[i][1]][tasks[i][2]] = 0

UnitsHeld ==
    /\ FramesKnow /\ UnitsApart /\ QueueUnbegun
    /\ begun = [c \in Calls |-> begun[c]] /\ ended = [c \in Calls |-> ended[c]]
    /\ UnitsExactlyOnce

PoolInvariant ==
    TypeOK /\ Nested /\ QueueOK /\ Alone /\ Owned /\ Counted /\ Entered /\ UnitsHeld

\* The numbers below n are n.
LEMMA IntervalCardinality ==
  ASSUME NEW n \in Nat
  PROVE  Cardinality(0..(n - 1)) = n
  <1>1. Cardinality(0..(n - 1)) = IF 0 > n - 1 THEN 0 ELSE (n - 1) - 0 + 1
    BY FS_Interval
  <1> QED
    BY <1>1

-----------------------------------------------------------------------------
(***************************************************************************)
(* Tasks and units are counted in bounds.                                  *)
(***************************************************************************)
LEMMA TaskCountBounds ==
  ASSUME NEW c \in Calls
  PROVE  /\ TaskCount(c) \in Nat /\ Units(c) \in Nat /\ Count[c] \in Nat
         /\ Count[c] = 0 => Units(c) = 0
         /\ Count[c] # 0 =>
              /\ 1 <= TaskCount(c) /\ TaskCount(c) <= Count[c] /\ 1 <= Units(c)
              /\ Units(c) = IF c \in Dynamic THEN Count[c] ELSE TaskCount(c)
  <1>1. threads_ \in Nat /\ threads_ >= 1
    <2>1. Cardinality(Workers) \in Nat
      BY FiniteWorkers, FS_CardinalityType
    <2> QED
      BY <2>1 DEF threads_
  <1>2. Count[c] \in Nat /\ Minimum[c] \in Nat
    BY WorkerPoolAssumption
  <1>3. AtLeastOne(Minimum[c]) \in Nat \ {0}
    BY <1>2 DEF AtLeastOne
  <1> DEFINE m == AtLeastOne(Minimum[c])
             q == Count[c] \div m
  <1>4. q \in Nat /\ q <= Count[c]
    <2>1. m \in Nat /\ m > 0
      BY <1>3
    <2> HIDE DEF m
    <2>2. q \in Nat /\ m * q <= Count[c]
      BY <1>2, <2>1
    <2>3. q <= m * q
      BY <2>1, <2>2
    <2> QED
      BY <1>2, <2>1, <2>2, <2>3
  <1> HIDE DEF m, q
  <1>5. TaskCount(c) = Smaller(threads_, IF c \in Dynamic THEN Count[c] ELSE AtLeastOne(q))
    BY DEF TaskCount, q, m
  <1> HIDE DEF threads_
  <1> QED
    BY <1>1, <1>2, <1>4, <1>5 DEF Smaller, AtLeastOne, Units

-----------------------------------------------------------------------------
(***************************************************************************)
(* What the steps do to the frames.                                        *)
(***************************************************************************)
StackType == stack \in [Threads -> Seq(FrameType)]

\* The frame on top of t becomes g.
Swapped(t, g) ==
    /\ \A s \in Threads : Depth(s)' = Depth(s)
    /\ \A s \in Threads : \A d \in 1..Depth(s) :
         FrameAt(s, d)' = IF s = t /\ d = Depth(t) THEN g ELSE FrameAt(s, d)
\* It becomes h, and g is on top of it.
Pushed(t, h, g) ==
    /\ \A s \in Threads : Depth(s)' = IF s = t THEN Depth(t) + 1 ELSE Depth(s)
    /\ \A s \in Threads : \A d \in 1..Depth(s)' :
         FrameAt(s, d)' = IF s = t /\ d = Depth(t) + 1 THEN g
                          ELSE IF s = t /\ d = Depth(t) THEN h ELSE FrameAt(s, d)
\* It is gone, and the frame under it, if there is one, is at pc.
Popped(t, pc) ==
    /\ \A s \in Threads : Depth(s)' = IF s = t THEN Depth(t) - 1 ELSE Depth(s)
    /\ \A s \in Threads : \A d \in 1..Depth(s)' :
         FrameAt(s, d)' = IF s = t /\ d = Depth(t) - 1
                          THEN [FrameAt(s, d) EXCEPT !.pc = pc] ELSE FrameAt(s, d)

LEMMA FrameTypes ==
  ASSUME StackType, NEW t \in Threads
  PROVE  /\ Depth(t) \in Nat /\ stack[t] \in Seq(FrameType)
         /\ \A d \in 1..Depth(t) : FrameAt(t, d) \in FrameType
         /\ Busy(t) <=> Depth(t) > 0
         /\ Busy(t) => /\ Top(t) = FrameAt(t, Depth(t)) /\ Top(t) = stack[t][1]
                       /\ Depth(t) \in 1..Depth(t)
  <1>1. stack[t] \in Seq(FrameType)
    BY DEF StackType
  <1>2. Len(stack[t]) \in Nat /\ \A i \in 1..Len(stack[t]) : stack[t][i] \in FrameType
    BY <1>1
  <1>3. (stack[t] # <<>> <=> Len(stack[t]) > 0)
        /\ (stack[t] # <<>> => Head(stack[t]) = stack[t][1])
    BY <1>1
  <1> QED
    BY <1>1, <1>2, <1>3 DEF Depth, FrameAt, Busy, Top

LEMMA HeadReplaced ==
  ASSUME NEW S, NEW s \in Seq(S), s # <<>>, NEW f \in S, NEW g \in S
  PROVE  /\ <<f>> \o Tail(s) \in Seq(S) /\ Len(<<f>> \o Tail(s)) = Len(s)
         /\ \A i \in 1..Len(s) : (<<f>> \o Tail(s))[i] = IF i = 1 THEN f ELSE s[i]
         /\ <<g, f>> \o Tail(s) \in Seq(S) /\ Len(<<g, f>> \o Tail(s)) = Len(s) + 1
         /\ \A i \in 1..Len(s) + 1 :
              (<<g, f>> \o Tail(s))[i] = IF i = 1 THEN g ELSE IF i = 2 THEN f ELSE s[i - 1]
         /\ Tail(s) \in Seq(S) /\ Len(Tail(s)) = Len(s) - 1
         /\ \A i \in 1..Len(s) - 1 : Tail(s)[i] = s[i + 1]
  <1>1. /\ Len(s) \in Nat \ {0} /\ Tail(s) \in Seq(S) /\ Len(Tail(s)) = Len(s) - 1
        /\ \A i \in 1..Len(s) - 1 : Tail(s)[i] = s[i + 1]
    OBVIOUS
  <1>2. /\ <<f>> \in Seq(S) /\ Len(<<f>>) = 1 /\ <<f>>[1] = f
        /\ <<g, f>> \in Seq(S) /\ Len(<<g, f>>) = 2
        /\ <<g, f>>[1] = g /\ <<g, f>>[2] = f
    OBVIOUS
  <1> DEFINE u == Tail(s)
             v == <<f>>
             w == <<g, f>>
  <1>3. u \in Seq(S) /\ v \in Seq(S) /\ w \in Seq(S)
    BY <1>1, <1>2
  <1>a. /\ Len(u) = Len(s) - 1 /\ \A i \in 1..Len(s) - 1 : u[i] = s[i + 1]
        /\ Len(v) = 1 /\ v[1] = f /\ Len(w) = 2 /\ w[1] = g /\ w[2] = f
    BY <1>1, <1>2
  <1> HIDE DEF u, v, w
  <1>4. /\ v \o u \in Seq(S) /\ Len(v \o u) = Len(v) + Len(u)
        /\ \A i \in 1..Len(v) + Len(u) :
             (v \o u)[i] = IF i <= Len(v) THEN v[i] ELSE u[i - Len(v)]
        /\ w \o u \in Seq(S) /\ Len(w \o u) = Len(w) + Len(u)
        /\ \A i \in 1..Len(w) + Len(u) :
             (w \o u)[i] = IF i <= Len(w) THEN w[i] ELSE u[i - Len(w)]
    BY <1>3, ConcatProperties
  <1>5. /\ v \o u \in Seq(S) /\ Len(v \o u) = Len(s)
        /\ \A i \in 1..Len(s) : (v \o u)[i] = IF i = 1 THEN f ELSE s[i]
    BY <1>1, <1>4, <1>a
  <1>6. /\ w \o u \in Seq(S) /\ Len(w \o u) = Len(s) + 1
        /\ \A i \in 1..Len(s) + 1 :
             (w \o u)[i] = IF i = 1 THEN g ELSE IF i = 2 THEN f ELSE s[i - 1]
    BY <1>1, <1>4, <1>a
  <1> QED
    BY <1>1, <1>5, <1>6 DEF u, v, w

LEMMA ReplaceSwaps ==
  ASSUME StackType, NEW t \in Threads, Busy(t), NEW g \in FrameType, Replace(t, g)
  PROVE  StackType' /\ Swapped(t, g)
  <1> USE FrameTypes
  <1>1. stack[t] \in Seq(FrameType) /\ stack[t] # <<>> /\ Depth(t) \in Nat
    BY DEF Busy
  <1> DEFINE new == <<g>> \o Tail(stack[t])
  <1>2. /\ new \in Seq(FrameType) /\ Len(new) = Len(stack[t])
        /\ \A i \in 1..Len(stack[t]) : new[i] = IF i = 1 THEN g ELSE stack[t][i]
    BY <1>1, HeadReplaced
  <1> HIDE DEF new
  <1>3. stack' = [stack EXCEPT ![t] = new]
    BY DEF Replace, new
  <1>4. \A s \in Threads : stack'[s] = IF s = t THEN new ELSE stack[s]
    BY <1>3 DEF StackType
  <1>5. \A s \in Threads : Depth(s)' = Depth(s)
    BY <1>2, <1>4 DEF Depth
  <1>6. ASSUME NEW s \in Threads, NEW d \in 1..Depth(s)
        PROVE  FrameAt(s, d)' = IF s = t /\ d = Depth(t) THEN g ELSE FrameAt(s, d)
    <2>1. FrameAt(s, d)' = stack'[s][Depth(s) + 1 - d] /\ Depth(s) \in Nat
      BY <1>5 DEF FrameAt
    <2>2. CASE s = t
      <3>1. Depth(s) + 1 - d \in 1..Len(stack[t])
            /\ (Depth(s) + 1 - d = 1 <=> d = Depth(t))
        BY <1>1, <2>1, <2>2 DEF Depth
      <3> QED
        BY <1>2, <1>4, <2>1, <2>2, <3>1 DEF FrameAt
    <2>3. CASE s # t
      BY <1>4, <2>1, <2>3 DEF FrameAt
    <2> QED
      BY <2>2, <2>3
  <1> QED
    BY <1>2, <1>3, <1>5, <1>6 DEF StackType, Swapped

LEMMA PushPushes ==
  ASSUME StackType, NEW t \in Threads, Busy(t), NEW h \in FrameType,
         NEW g \in FrameType, Push(t, h, g)
  PROVE  StackType' /\ Pushed(t, h, g)
  <1> USE FrameTypes
  <1>1. stack[t] \in Seq(FrameType) /\ stack[t] # <<>> /\ Depth(t) \in Nat
    BY DEF Busy
  <1> DEFINE new == <<g, h>> \o Tail(stack[t])
  <1>2. /\ new \in Seq(FrameType) /\ Len(new) = Len(stack[t]) + 1
        /\ \A i \in 1..Len(stack[t]) + 1 :
             new[i] = IF i = 1 THEN g ELSE IF i = 2 THEN h ELSE stack[t][i - 1]
    BY <1>1, HeadReplaced
  <1> HIDE DEF new
  <1>3. stack' = [stack EXCEPT ![t] = new]
    BY DEF Push, new
  <1>4. \A s \in Threads : stack'[s] = IF s = t THEN new ELSE stack[s]
    BY <1>3 DEF StackType
  <1>5. \A s \in Threads : Depth(s)' = IF s = t THEN Depth(t) + 1 ELSE Depth(s)
    BY <1>2, <1>4 DEF Depth
  <1>6. ASSUME NEW s \in Threads, NEW d \in 1..Depth(s)'
        PROVE  FrameAt(s, d)' = IF s = t /\ d = Depth(t) + 1 THEN g
                                ELSE IF s = t /\ d = Depth(t) THEN h ELSE FrameAt(s, d)
    <2>1. FrameAt(s, d)' = stack'[s][Depth(s)' + 1 - d] /\ Depth(s) \in Nat
      BY DEF FrameAt
    <2>2. CASE s = t
      <3>1. /\ Depth(s)' + 1 - d \in 1..Len(stack[t]) + 1
            /\ Depth(s)' + 1 - d = 1 <=> d = Depth(t) + 1
            /\ Depth(s)' + 1 - d = 2 <=> d = Depth(t)
            /\ Depth(s)' + 1 - d - 1 = Depth(s) + 1 - d
        <4>1. Depth(s)' = Depth(t) + 1 /\ Len(stack[t]) = Depth(t) /\ d \in 1..Depth(t) + 1
          BY <1>5, <2>2 DEF Depth
        <4> QED
          BY <1>1, <2>2, <4>1
      <3>2. stack'[s] = new /\ FrameAt(s, d) = stack[t][Depth(s) + 1 - d]
        BY <1>4, <2>2 DEF FrameAt
      <3>3. PICK i : i = Depth(s)' + 1 - d
        OBVIOUS
      <3>a. i - 1 = Depth(s) + 1 - d
        <4>1. Depth(s)' = Depth(s) + 1 /\ Depth(s) \in Nat
          BY <1>1, <1>5, <2>2
        <4> QED
          BY <3>3, <4>1
      <3>4. /\ i \in 1..Len(stack[t]) + 1 /\ FrameAt(s, d)' = new[i]
            /\ (i = 1 <=> d = Depth(t) + 1) /\ (i = 2 <=> d = Depth(t))
            /\ FrameAt(s, d) = stack[t][i - 1]
        <4>1. i \in 1..Len(stack[t]) + 1 /\ (i = 1 <=> d = Depth(t) + 1)
              /\ (i = 2 <=> d = Depth(t))
          BY <3>1, <3>3
        <4>2. FrameAt(s, d)' = new[i]
          BY <2>1, <3>2, <3>3
        <4> QED
          BY <3>a, <3>2, <4>1, <4>2
      <3>5. new[i] = IF i = 1 THEN g ELSE IF i = 2 THEN h ELSE stack[t][i - 1]
        BY <1>2, <3>4
      <3> QED
        BY <2>2, <3>4, <3>5
    <2>3. CASE s # t
      BY <1>4, <1>5, <2>1, <2>3 DEF FrameAt
    <2> QED
      BY <2>2, <2>3
  <1> QED
    BY <1>2, <1>3, <1>5, <1>6 DEF StackType, Pushed
\* A sequence without its first element, with another one in front.
LEMMA HeadDropped ==
  ASSUME NEW S, NEW s \in Seq(S), s # <<>>, NEW h, Tail(s) # <<>> => h \in S,
         NEW new, new = IF Tail(s) = <<>> THEN <<>> ELSE <<h>> \o Tail(Tail(s))
  PROVE  /\ new \in Seq(S) /\ Len(new) = Len(s) - 1 /\ Len(s) \in Nat
         /\ \A i \in 1..Len(s) - 1 : new[i] = IF i = 1 THEN h ELSE s[i + 1]
  <1>1. /\ Tail(s) \in Seq(S) /\ Len(Tail(s)) = Len(s) - 1 /\ Len(s) \in Nat \ {0}
        /\ \A i \in 1..Len(s) - 1 : Tail(s)[i] = s[i + 1]
    BY HeadReplaced
  <1>2. CASE Tail(s) = <<>>
    <2>1. new = <<>> /\ Len(Tail(s)) = 0
      BY <1>2
    <2>2. Len(s) = 1
      BY <1>1, <2>1
    <2> QED
      BY <2>1, <2>2
  <1>3. CASE Tail(s) # <<>>
    <2>1. PICK u : u = Tail(s)
      OBVIOUS
    <2>2. u \in Seq(S) /\ u # <<>> /\ h \in S /\ new = <<h>> \o Tail(u)
      BY <1>1, <1>3, <2>1
    <2>3. /\ <<h>> \o Tail(u) \in Seq(S) /\ Len(<<h>> \o Tail(u)) = Len(u)
          /\ \A i \in 1..Len(u) : (<<h>> \o Tail(u))[i] = IF i = 1 THEN h ELSE u[i]
      BY <2>2, HeadReplaced
    <2> QED
      BY <1>1, <2>1, <2>2, <2>3
  <1> QED
    BY <1>2, <1>3

LEMMA ReturnPops ==
  ASSUME StackType, NEW t \in Threads, Busy(t), NEW failed \in BOOLEAN,
         Return(t, failed), NEW pc \in Pcs, pc = IF failed THEN "threw" ELSE "ran"
  PROVE  StackType' /\ Popped(t, pc)
  <1> USE FrameTypes
  <1>1. stack[t] \in Seq(FrameType) /\ stack[t] # <<>> /\ Depth(t) \in Nat
    BY DEF Busy
  <1> DEFINE h == [Head(Below(t)) EXCEPT !.pc = pc]
             new == IF Below(t) = <<>> THEN <<>> ELSE <<h>> \o Tail(Below(t))
  <1>2. Below(t) = Tail(stack[t]) /\ Below(t) \in Seq(FrameType)
        /\ Len(Below(t)) = Depth(t) - 1
        /\ (Below(t) # <<>> => Head(Below(t)) = stack[t][2] /\ stack[t][2] \in FrameType)
    BY <1>1 DEF Below, Depth
  <1>3. Below(t) # <<>> => h \in FrameType
    BY <1>2 DEF FrameType
  <1>4. stack' = [stack EXCEPT ![t] = new]
    BY DEF Return
  <1>5. Below(t) # <<>> => h = [stack[t][2] EXCEPT !.pc = pc]
    BY <1>2
  <1> HIDE DEF h
  <1>6. /\ new \in Seq(FrameType) /\ Len(new) = Len(stack[t]) - 1
        /\ \A i \in 1..Len(stack[t]) - 1 : new[i] = IF i = 1 THEN h ELSE stack[t][i + 1]
    <2>1. Tail(stack[t]) # <<>> => h \in FrameType
      BY <1>2, <1>3
    <2>2. new = IF Tail(stack[t]) = <<>> THEN <<>> ELSE <<h>> \o Tail(Tail(stack[t]))
      BY <1>2
    <2>3. PICK s : s = stack[t]
      OBVIOUS
    <2>4. /\ s \in Seq(FrameType) /\ s # <<>> /\ (Tail(s) # <<>> => h \in FrameType)
          /\ new = IF Tail(s) = <<>> THEN <<>> ELSE <<h>> \o Tail(Tail(s))
      BY <1>1, <2>1, <2>2, <2>3
    <2> HIDE DEF new
    <2>5. /\ new \in Seq(FrameType) /\ Len(new) = Len(s) - 1
          /\ \A i \in 1..Len(s) - 1 : new[i] = IF i = 1 THEN h ELSE s[i + 1]
      BY <2>4, HeadDropped
    <2> QED
      BY <2>3, <2>5
  <1> HIDE DEF new
  <1>7. \A s \in Threads : stack'[s] = IF s = t THEN new ELSE stack[s]
    BY <1>4 DEF StackType
  <1>8. \A s \in Threads : Depth(s)' = IF s = t THEN Depth(t) - 1 ELSE Depth(s)
    BY <1>6, <1>7 DEF Depth
  <1>9. ASSUME NEW s \in Threads, NEW d \in 1..Depth(s)'
        PROVE  FrameAt(s, d)' = IF s = t /\ d = Depth(t) - 1
                                THEN [FrameAt(s, d) EXCEPT !.pc = pc] ELSE FrameAt(s, d)
    <2>1. FrameAt(s, d)' = stack'[s][Depth(s)' + 1 - d]
      BY DEF FrameAt
    <2>2. CASE s = t
      <3>1. PICK i : i = Depth(s)' + 1 - d
        OBVIOUS
      <3>2. /\ Depth(s)' = Depth(t) - 1 /\ Len(stack[t]) = Depth(t)
            /\ d \in 1..Depth(t) - 1
        BY <1>8, <2>2 DEF Depth
      <3>3. /\ i \in 1..Len(stack[t]) - 1 /\ i + 1 = Depth(t) + 1 - d
            /\ i = 1 <=> d = Depth(t) - 1
        BY <1>1, <3>1, <3>2
      <3>4. FrameAt(s, d)' = new[i] /\ FrameAt(s, d) = stack[t][i + 1]
        BY <1>7, <2>1, <2>2, <3>1, <3>3 DEF FrameAt
      <3>5. new[i] = IF i = 1 THEN h ELSE stack[t][i + 1]
        BY <1>6, <3>3
      <3>6. i = 1 => h = [FrameAt(s, d) EXCEPT !.pc = pc]
        <4>1. Below(t) # <<>>
          BY <1>2, <3>2, <1>1
        <4> QED
          BY <1>5, <3>4, <4>1
      <3> QED
        BY <2>2, <3>3, <3>4, <3>5, <3>6
    <2>3. CASE s # t
      BY <1>7, <1>8, <2>1, <2>3 DEF FrameAt
    <2> QED
      BY <2>2, <2>3
  <1> QED
    BY <1>4, <1>6, <1>8, <1>9 DEF StackType, Popped

\* A worker takes a task: its first frame.
LEMMA TakePushes ==
  ASSUME StackType, NEW w \in Threads, ~Busy(w), NEW g \in FrameType,
         stack' = [stack EXCEPT ![w] = <<g>>]
  PROVE  StackType' /\ Pushed(w, g, g)
  <1> USE FrameTypes
  <1>1. \A s \in Threads : stack'[s] = IF s = w THEN <<g>> ELSE stack[s]
    BY DEF StackType
  <1>2. Depth(w) = 0 /\ Depth(w)' = 1
    BY <1>1 DEF Depth, Busy
  <1>3. <<g>> \in Seq(FrameType)
    OBVIOUS
  <1> QED
    BY <1>1, <1>2, <1>3 DEF StackType, Pushed, Depth, FrameAt
\* A caller that waits in TaskGroup::wait may be woken.
Roused(f, g) == g = f \/ (f.pc = "asleep" /\ g = [f EXCEPT !.pc = "join"])

\* The frame on top of t goes to its join, or is gone; others may be woken.
Joins(t) ==
    /\ \A s \in Threads : Depth(s)' = Depth(s)
    /\ \A s \in Threads : \A d \in 1..Depth(s)' :
         IF s = t /\ d = Depth(t)
         THEN FrameAt(s, d)' = [FrameAt(s, d) EXCEPT !.pc = "join"]
         ELSE Roused(FrameAt(s, d), FrameAt(s, d)')
TaskEnds(t) ==
    /\ \A s \in Threads : Depth(s)' = IF s = t THEN Depth(t) - 1 ELSE Depth(s)
    /\ \A s \in Threads : \A d \in 1..Depth(s)' : Roused(FrameAt(s, d), FrameAt(s, d)')

\* WakeJoin changes at most the pc of a sleeping frame on top.
LEMMA WakeJoinRouses ==
  ASSUME NEW stacks \in [Threads -> Seq(FrameType)], NEW c, NEW after,
         after = stacks \/ after = WakeJoin(stacks, c)
  PROVE  /\ after \in [Threads -> Seq(FrameType)]
         /\ \A s \in Threads : /\ Len(after[s]) = Len(stacks[s])
                               /\ \A i \in 1..Len(stacks[s]) :
                                    Roused(stacks[s][i], after[s][i])
  <1>1. CASE after = stacks
    BY <1>1 DEF Roused
  <1>2. CASE after = WakeJoin(stacks, c)
    <2>1. ASSUME NEW s \in Threads
          PROVE  /\ after[s] \in Seq(FrameType) /\ Len(after[s]) = Len(stacks[s])
                 /\ \A i \in 1..Len(stacks[s]) : Roused(stacks[s][i], after[s][i])
      <3> DEFINE q == stacks[s]
                 h == [Head(q) EXCEPT !.pc = "join"]
      <3>1. after[s] = IF q # <<>> /\ Head(q).call = c /\ Head(q).pc = "asleep"
                       THEN <<h>> \o Tail(q) ELSE q
        BY <1>2 DEF WakeJoin
      <3>2. q \in Seq(FrameType)
        OBVIOUS
      <3>3. CASE q # <<>> /\ Head(q).call = c /\ Head(q).pc = "asleep"
        <4>1. /\ Head(q) = q[1] /\ q[1] \in FrameType /\ h \in FrameType
              /\ h = [q[1] EXCEPT !.pc = "join"] /\ q[1].pc = "asleep"
          <5>1. Head(q) = q[1] /\ q[1] \in FrameType
            BY <3>2, <3>3
          <5> QED
            BY <3>3, <5>1 DEF FrameType, Pcs
        <4> HIDE DEF h, q
        <4>2. /\ <<h>> \o Tail(q) \in Seq(FrameType) /\ Len(<<h>> \o Tail(q)) = Len(q)
              /\ \A i \in 1..Len(q) : (<<h>> \o Tail(q))[i] = IF i = 1 THEN h ELSE q[i]
          <5>1. q \in Seq(FrameType) /\ q # <<>> /\ h \in FrameType
            BY <3>2, <3>3, <4>1
          <5> QED
            BY ONLY <5>1, HeadReplaced
        <4>3. after[s] = <<h>> \o Tail(q)
          BY <3>1, <3>3
        <4>4. \A i \in 1..Len(q) : Roused(q[i], after[s][i])
          BY <4>1, <4>2, <4>3 DEF Roused
        <4> QED
          BY <4>2, <4>3, <4>4 DEF q
      <3>4. CASE ~(q # <<>> /\ Head(q).call = c /\ Head(q).pc = "asleep")
        BY <3>1, <3>2, <3>4 DEF Roused
      <3> QED
        BY <3>3, <3>4
    <2>2. after = [s \in Threads |-> after[s]]
      BY <1>2 DEF WakeJoin
    <2> QED
      BY <2>1, <2>2
  <1> QED
    BY <1>1, <1>2

LEMMA FinishFrames ==
  ASSUME StackType, NEW t \in Threads, Busy(t), Finish(t)
  PROVE  /\ StackType'
         /\ Top(t).mode = "own" => Joins(t)
         /\ Top(t).mode # "own" => TaskEnds(t)
  <1> USE FrameTypes
  <1> DEFINE f == Top(t)
             joined == [f EXCEPT !.pc = "join"]
             q == stack[t]
             own == IF f.mode = "own" THEN <<joined>> ELSE <<>>
             new == own \o Tail(q)
             mid == [stack EXCEPT ![t] = new]
  <1>1. /\ q \in Seq(FrameType) /\ q # <<>> /\ Depth(t) \in Nat /\ Len(q) = Depth(t)
        /\ f \in FrameType /\ f = q[1]
    BY DEF Busy, Depth
  <1>2. joined \in FrameType
    BY <1>1 DEF FrameType, Pcs
  <1>3. stack' = mid \/ stack' = WakeJoin(mid, f.call)
    BY DEF Finish
  <1>4. /\ Tail(q) \in Seq(FrameType) /\ Len(Tail(q)) = Len(q) - 1
        /\ \A i \in 1..Len(q) - 1 : Tail(q)[i] = q[i + 1]
    BY <1>1, HeadReplaced
  <1>5. f.mode = "own" => /\ new \in Seq(FrameType) /\ Len(new) = Len(q)
                          /\ \A i \in 1..Len(q) : new[i] = IF i = 1 THEN joined ELSE q[i]
    <2> HIDE DEF joined, q
    <2>1. f.mode = "own" => new = <<joined>> \o Tail(q)
      OBVIOUS
    <2>2. /\ <<joined>> \o Tail(q) \in Seq(FrameType) /\ Len(<<joined>> \o Tail(q)) = Len(q)
          /\ \A i \in 1..Len(q) : (<<joined>> \o Tail(q))[i] = IF i = 1 THEN joined ELSE q[i]
      BY <1>1, <1>2, HeadReplaced
    <2> QED
      BY <2>1, <2>2
  <1>6. f.mode # "own" => new = Tail(q)
    BY <1>4, ConcatEmptySeq
  <1>7. new \in Seq(FrameType)
    BY <1>4, <1>5, <1>6
  <1> HIDE DEF new, joined, own
  <1>8. mid \in [Threads -> Seq(FrameType)]
        /\ \A s \in Threads : mid[s] = IF s = t THEN new ELSE stack[s]
    BY <1>7 DEF StackType
  <1> HIDE DEF mid
  <1>9. /\ stack' \in [Threads -> Seq(FrameType)]
        /\ \A s \in Threads : /\ Len(stack'[s]) = Len(mid[s])
                              /\ \A i \in 1..Len(mid[s]) : Roused(mid[s][i], stack'[s][i])
    BY <1>3, <1>8, WakeJoinRouses
  <1>10. \A s \in Threads : s # t =>
           /\ Depth(s)' = Depth(s)
           /\ \A d \in 1..Depth(s) : Roused(FrameAt(s, d), FrameAt(s, d)')
    <2> SUFFICES ASSUME NEW s \in Threads, s # t
                 PROVE  /\ Depth(s)' = Depth(s)
                        /\ \A d \in 1..Depth(s) : Roused(FrameAt(s, d), FrameAt(s, d)')
      OBVIOUS
    <2>1. mid[s] = stack[s] /\ Depth(s)' = Depth(s)
      BY <1>8, <1>9 DEF Depth
    <2>2. ASSUME NEW d \in 1..Depth(s) PROVE Roused(FrameAt(s, d), FrameAt(s, d)')
      <3>1. PICK i : i = Depth(s) + 1 - d
        OBVIOUS
      <3>2. i \in 1..Len(stack[s])
        BY <3>1 DEF Depth
      <3>3. FrameAt(s, d) = stack[s][i] /\ FrameAt(s, d)' = stack'[s][i]
        BY <2>1, <3>1 DEF FrameAt
      <3> QED
        BY <1>9, <2>1, <3>2, <3>3
    <2> QED
      BY <2>1, <2>2
  <1>11. CASE f.mode = "own"
    <2>1. Depth(t)' = Depth(t)
      BY <1>5, <1>8, <1>9, <1>11 DEF Depth
    <2>2. ASSUME NEW d \in 1..Depth(t)
          PROVE  IF d = Depth(t) THEN FrameAt(t, d)' = [FrameAt(t, d) EXCEPT !.pc = "join"]
                 ELSE Roused(FrameAt(t, d), FrameAt(t, d)')
      <3>1. PICK i : i = Depth(t) + 1 - d
        OBVIOUS
      <3>2. i \in 1..Len(q) /\ (i = 1 <=> d = Depth(t))
        BY <1>1, <3>1
      <3>3. FrameAt(t, d) = q[i] /\ FrameAt(t, d)' = stack'[t][i]
        BY <2>1, <3>1 DEF FrameAt
      <3>4. Roused(new[i], stack'[t][i]) /\ new[i] = IF i = 1 THEN joined ELSE q[i]
        BY <1>5, <1>8, <1>9, <1>11, <3>2
      <3>5. i = 1 => stack'[t][i] = joined
        <4>1. joined.pc = "join"
          BY <1>1 DEF joined, FrameType
        <4> QED
          BY <3>4, <4>1 DEF Roused
      <3> QED
        BY <1>1, <3>2, <3>3, <3>4, <3>5 DEF joined
    <2>3. Joins(t)
      BY <1>10, <2>1, <2>2 DEF Joins
    <2> QED
      BY <1>9, <1>11, <2>3 DEF StackType
  <1>12. CASE f.mode # "own"
    <2>1. Depth(t)' = Depth(t) - 1
      BY <1>1, <1>4, <1>6, <1>8, <1>9, <1>12 DEF Depth
    <2>2. ASSUME NEW d \in 1..Depth(t)'
          PROVE  Roused(FrameAt(t, d), FrameAt(t, d)')
      <3>1. PICK i : i = Depth(t) - d
        OBVIOUS
      <3>2. i \in 1..Len(q) - 1 /\ i + 1 = Depth(t) + 1 - d /\ i = Depth(t) - 1 + 1 - d
        BY <1>1, <2>1, <3>1
      <3>3. FrameAt(t, d) = q[i + 1]
        BY <3>2 DEF FrameAt
      <3>4. FrameAt(t, d)' = stack'[t][i]
        <4>1. FrameAt(t, d)' = stack'[t][Depth(t)' + 1 - d]
          BY DEF FrameAt
        <4> QED
          BY <2>1, <3>2, <4>1
      <3>5. Roused(new[i], stack'[t][i]) /\ new[i] = q[i + 1]
        BY <1>4, <1>6, <1>8, <1>9, <1>12, <3>2
      <3> QED
        BY <3>3, <3>4, <3>5
    <2>3. TaskEnds(t)
      BY <1>10, <2>1, <2>2 DEF TaskEnds
    <2> QED
      BY <1>9, <1>12, <2>3 DEF StackType
  <1> QED
    BY <1>11, <1>12
-----------------------------------------------------------------------------
(***************************************************************************)
(* Frames keep their shape.                                                *)
(***************************************************************************)
LEMMA NestedSwapped ==
  ASSUME StackType, Nested, NEW t \in Threads, Busy(t), NEW g, Swapped(t, g),
         FrameOK(g), g.pc # "nested", IsMain(g) <=> IsMain(Top(t))
  PROVE  Nested'
  <1>1. \A s \in Threads : Depth(s) \in Nat
    BY FrameTypes
  <1>2. Top(t) = FrameAt(t, Depth(t)) /\ Depth(t) > 0
    BY FrameTypes
  <1> SUFFICES ASSUME NEW s \in Threads
               PROVE  /\ \A d \in 1..Depth(s)' : FrameOK(FrameAt(s, d)')
                      /\ \A d \in 1..(Depth(s)' - 1) :
                           IF IsMain(FrameAt(s, d + 1)')
                           THEN FrameAt(s, d)'.pc = "nested"
                           ELSE FrameAt(s, d)'.mode = "dispatch" /\ FrameAt(s, d)'.pc = "enqueue"
                      /\ Depth(s)' > 0 => \A d : d = Depth(s)' => FrameAt(s, d)'.pc # "nested"
    BY DEF Nested, FrameOK
  <1>3. Depth(s)' = Depth(s)
    BY DEF Swapped
  <1>4. \A d \in 1..Depth(s) :
          FrameAt(s, d)' = IF s = t /\ d = Depth(t) THEN g ELSE FrameAt(s, d)
    BY DEF Swapped
  <1>5. \A d \in 1..Depth(s)' : FrameOK(FrameAt(s, d)')
    BY <1>3, <1>4 DEF Nested
  <1>6. ASSUME NEW d \in 1..(Depth(s)' - 1)
        PROVE  IF IsMain(FrameAt(s, d + 1)')
               THEN FrameAt(s, d)'.pc = "nested"
               ELSE FrameAt(s, d)'.mode = "dispatch" /\ FrameAt(s, d)'.pc = "enqueue"
    <2>1. d \in 1..(Depth(s) - 1) /\ d \in 1..Depth(s) /\ d + 1 \in 1..Depth(s) /\ d # Depth(s)
      BY <1>1, <1>3
    <2>2. /\ FrameAt(s, d)' = FrameAt(s, d)
          /\ IsMain(FrameAt(s, d + 1)') <=> IsMain(FrameAt(s, d + 1))
      BY <1>2, <1>4, <2>1
    <2> QED
      BY <2>1, <2>2 DEF Nested
  <1>7. Depth(s)' > 0 => \A d : d = Depth(s)' => FrameAt(s, d)'.pc # "nested"
    BY <1>1, <1>3, <1>4 DEF Nested
  <1> QED
    BY <1>5, <1>6, <1>7

\* A frame in which nobody steps: only what it waits for may have ended.
Tame(f, g) ==
    \/ g = f
    \/ f.pc = "asleep" /\ g = [f EXCEPT !.pc = "join"]
    \/ f.pc = "nested" /\ \E pc \in {"ran", "threw"} : g = [f EXCEPT !.pc = pc]
\* The step is in the frame on top of t, or puts one there.
Moved(t) ==
    /\ \A s \in Threads : s # t => Depth(s)' = Depth(s)
    /\ Depth(t)' \in {Depth(t) - 1, Depth(t), Depth(t) + 1}
    /\ \A s \in Threads : \A d \in 1..Depth(s)' :
         (s = t => d < Depth(t)) => Tame(FrameAt(s, d), FrameAt(s, d)')

LEMMA SwapMoves ==
  ASSUME StackType, Nested, NEW t \in Threads, Busy(t), NEW g, Swapped(t, g),
         FrameOK(g), g.pc # "nested", IsMain(g) <=> IsMain(Top(t))
  PROVE  Nested' /\ Moved(t)
  BY NestedSwapped, FrameTypes DEF Swapped, Moved, Tame

LEMMA PushMoves ==
  ASSUME StackType, Nested, NEW t \in Threads, NEW h, NEW g, Pushed(t, h, g),
         FrameOK(g), g.pc # "nested",
         Busy(t) => /\ FrameOK(h) /\ (IsMain(h) <=> IsMain(Top(t)))
                    /\ IF IsMain(g) THEN h.pc = "nested"
                       ELSE h.mode = "dispatch" /\ h.pc = "enqueue"
  PROVE  Nested' /\ Moved(t)
  <1>1. \A s \in Threads : Depth(s) \in Nat
    BY FrameTypes
  <1>2. Busy(t) <=> Depth(t) > 0
    BY FrameTypes
  <1>3. Busy(t) => Top(t) = FrameAt(t, Depth(t))
    BY FrameTypes
  <1>4. Moved(t)
    <2>1. ASSUME NEW s \in Threads, NEW d \in 1..Depth(s)', s = t => d < Depth(t)
          PROVE  FrameAt(s, d)' = FrameAt(s, d)
      BY <1>1, <2>1 DEF Pushed
    <2> QED
      BY <1>1, <2>1 DEF Moved, Tame, Pushed
  <1> SUFFICES ASSUME NEW s \in Threads
               PROVE  /\ \A d \in 1..Depth(s)' : FrameOK(FrameAt(s, d)')
                      /\ \A d \in 1..(Depth(s)' - 1) :
                           IF IsMain(FrameAt(s, d + 1)')
                           THEN FrameAt(s, d)'.pc = "nested"
                           ELSE FrameAt(s, d)'.mode = "dispatch" /\ FrameAt(s, d)'.pc = "enqueue"
                      /\ Depth(s)' > 0 => \A d : d = Depth(s)' => FrameAt(s, d)'.pc # "nested"
    BY <1>4 DEF Nested, FrameOK
  <1>5. CASE s # t
    <2>1. Depth(s)' = Depth(s) /\ \A d \in 1..Depth(s) : FrameAt(s, d)' = FrameAt(s, d)
      BY <1>5 DEF Pushed
    <2>2. ASSUME NEW d \in 1..(Depth(s)' - 1)
          PROVE  d \in 1..Depth(s) /\ d + 1 \in 1..Depth(s) /\ d \in 1..(Depth(s) - 1)
      BY <1>1, <2>1
    <2>3. Depth(s)' > 0 => Depth(s) \in 1..Depth(s)
      BY <1>1, <2>1
    <2> QED
      BY <2>1, <2>2, <2>3 DEF Nested
  <1>6. CASE s = t
    <2>1. /\ Depth(s)' = Depth(t) + 1 /\ Depth(t) \in Nat
          /\ \A d \in 1..Depth(t) + 1 :
               FrameAt(s, d)' = IF d = Depth(t) + 1 THEN g
                                ELSE IF d = Depth(t) THEN h ELSE FrameAt(t, d)
      BY <1>1, <1>6 DEF Pushed
    <2>2. \A d \in 1..Depth(s)' : FrameOK(FrameAt(s, d)')
      BY <1>2, <2>1 DEF Nested
    <2>3. ASSUME NEW d \in 1..(Depth(s)' - 1)
          PROVE  IF IsMain(FrameAt(s, d + 1)')
                 THEN FrameAt(s, d)'.pc = "nested"
                 ELSE FrameAt(s, d)'.mode = "dispatch" /\ FrameAt(s, d)'.pc = "enqueue"
      <3>1. CASE d = Depth(t)
        <4>1. Busy(t) /\ FrameAt(s, d)' = h /\ FrameAt(s, d + 1)' = g
          BY <1>2, <2>1, <3>1
        <4> QED
          BY <4>1
      <3>2. CASE d # Depth(t)
        <4>1. d \in 1..(Depth(t) - 1) /\ d \in 1..Depth(t) + 1 /\ d + 1 \in 1..Depth(t) + 1
          BY <2>1, <3>2
        <4>2. FrameAt(s, d)' = FrameAt(t, d)
          BY <2>1, <3>2, <4>1
        <4>3. IsMain(FrameAt(s, d + 1)') <=> IsMain(FrameAt(t, d + 1))
          <5>1. FrameAt(s, d + 1)' = IF d + 1 = Depth(t) THEN h ELSE FrameAt(t, d + 1)
            BY <2>1, <4>1
          <5> QED
            BY <1>2, <1>3, <2>1, <4>1, <5>1
        <4> QED
          BY <4>1, <4>2, <4>3 DEF Nested
      <3> QED
        BY <3>1, <3>2
    <2> QED
      BY <2>1, <2>2, <2>3
  <1> QED
    BY <1>5, <1>6

LEMMA PopMoves ==
  ASSUME StackType, Nested, NEW t \in Threads, Busy(t), IsMain(Top(t)),
         NEW pc \in {"ran", "threw"}, Popped(t, pc)
  PROVE  Nested' /\ Moved(t)
  <1>1. \A s \in Threads : Depth(s) \in Nat
    BY FrameTypes
  <1>2. Top(t) = FrameAt(t, Depth(t)) /\ Depth(t) > 0
    BY FrameTypes
  <1>3. \A s \in Threads : \A d \in 1..Depth(s) : FrameAt(s, d) \in FrameType
    BY FrameTypes
  <1>4. ASSUME NEW d \in 1..Depth(t), d = Depth(t) - 1
        PROVE  FrameAt(t, d).pc = "nested" /\ FrameOK([FrameAt(t, d) EXCEPT !.pc = pc])
               /\ (IsMain([FrameAt(t, d) EXCEPT !.pc = pc]) <=> IsMain(FrameAt(t, d)))
               /\ [FrameAt(t, d) EXCEPT !.pc = pc].pc = pc
    <2>1. FrameAt(t, d).pc = "nested" /\ FrameOK(FrameAt(t, d)) /\ FrameAt(t, d) \in FrameType
      <3>1. d \in 1..(Depth(t) - 1) /\ d + 1 = Depth(t)
        BY <1>1, <1>4
      <3> QED
        BY <1>2, <1>3, <3>1 DEF Nested
    <2> QED
      BY <2>1 DEF FrameOK, FrameType, HasUnit, UnitPcs, Handed, IsMain, Pcs
  <1>5. Moved(t)
    <2>1. ASSUME NEW s \in Threads, NEW d \in 1..Depth(s)', s = t => d < Depth(t)
          PROVE  Tame(FrameAt(s, d), FrameAt(s, d)')
      <3>1. d \in 1..Depth(s)
        BY <1>1, <2>1 DEF Popped
      <3>2. CASE s = t /\ d = Depth(t) - 1
        BY <1>4, <3>1, <3>2 DEF Popped, Tame
      <3>3. CASE ~(s = t /\ d = Depth(t) - 1)
        BY <3>1, <3>3 DEF Popped, Tame
      <3> QED
        BY <3>2, <3>3
    <2> QED
      BY <1>1, <2>1 DEF Moved, Popped
  <1> SUFFICES ASSUME NEW s \in Threads
               PROVE  /\ \A d \in 1..Depth(s)' : FrameOK(FrameAt(s, d)')
                      /\ \A d \in 1..(Depth(s)' - 1) :
                           IF IsMain(FrameAt(s, d + 1)')
                           THEN FrameAt(s, d)'.pc = "nested"
                           ELSE FrameAt(s, d)'.mode = "dispatch" /\ FrameAt(s, d)'.pc = "enqueue"
                      /\ Depth(s)' > 0 => \A d : d = Depth(s)' => FrameAt(s, d)'.pc # "nested"
    BY <1>5 DEF Nested, FrameOK
  <1>6. CASE s # t
    <2>1. Depth(s)' = Depth(s) /\ \A d \in 1..Depth(s) : FrameAt(s, d)' = FrameAt(s, d)
      BY <1>6 DEF Popped
    <2>2. ASSUME NEW d \in 1..(Depth(s)' - 1)
          PROVE  d \in 1..Depth(s) /\ d + 1 \in 1..Depth(s) /\ d \in 1..(Depth(s) - 1)
      BY <1>1, <2>1
    <2>3. Depth(s)' > 0 => Depth(s) \in 1..Depth(s)
      BY <1>1, <2>1
    <2> QED
      BY <2>1, <2>2, <2>3 DEF Nested
  <1>7. CASE s = t
    <2>1. /\ Depth(s)' = Depth(t) - 1 /\ Depth(t) \in Nat
          /\ \A d \in 1..Depth(t) - 1 :
               /\ d \in 1..Depth(t)
               /\ FrameAt(s, d)' = IF d = Depth(t) - 1 THEN [FrameAt(t, d) EXCEPT !.pc = pc]
                                   ELSE FrameAt(t, d)
      BY <1>1, <1>7 DEF Popped
    <2>2. \A d \in 1..Depth(s)' : FrameOK(FrameAt(s, d)')
      BY <1>4, <2>1 DEF Nested
    <2>3. ASSUME NEW d \in 1..(Depth(s)' - 1)
          PROVE  IF IsMain(FrameAt(s, d + 1)')
                 THEN FrameAt(s, d)'.pc = "nested"
                 ELSE FrameAt(s, d)'.mode = "dispatch" /\ FrameAt(s, d)'.pc = "enqueue"
      <3>1. d \in 1..(Depth(t) - 1) /\ d # Depth(t) - 1 /\ d + 1 \in 1..Depth(t) - 1
        BY <2>1
      <3>2. FrameAt(s, d)' = FrameAt(t, d)
        BY <2>1, <3>1
      <3>3. IsMain(FrameAt(s, d + 1)') <=> IsMain(FrameAt(t, d + 1))
        BY <1>4, <2>1, <3>1
      <3> QED
        BY <3>1, <3>2, <3>3 DEF Nested
    <2>4. Depth(s)' > 0 => \A d : d = Depth(s)' => FrameAt(s, d)'.pc # "nested"
      <3> SUFFICES ASSUME Depth(s)' > 0, NEW d, d = Depth(s)'
                   PROVE  FrameAt(s, d)'.pc # "nested"
        OBVIOUS
      <3>1. d \in 1..Depth(t) - 1 /\ d \in 1..Depth(t) /\ d = Depth(t) - 1
        BY <2>1
      <3>2. FrameAt(s, d)' = [FrameAt(t, d) EXCEPT !.pc = pc]
        BY <2>1, <3>1
      <3> QED
        BY <1>4, <3>1, <3>2
    <2> QED
      BY <2>2, <2>3, <2>4
  <1> QED
    BY <1>6, <1>7

\* Only a frame on top sleeps.
LEMMA RousedIsTame ==
  ASSUME StackType, Nested, NEW s \in Threads, NEW d \in 1..Depth(s), NEW g,
         Roused(FrameAt(s, d), g)
  PROVE  /\ Tame(FrameAt(s, d), g) /\ FrameOK(g)
         /\ IsMain(g) <=> IsMain(FrameAt(s, d))
         /\ d # Depth(s) => g = FrameAt(s, d)
         /\ d = Depth(s) => g.pc # "nested"
  <1>1. Depth(s) \in Nat /\ FrameAt(s, d) \in FrameType /\ FrameOK(FrameAt(s, d))
    BY FrameTypes DEF Nested
  <1>2. d # Depth(s) => FrameAt(s, d).pc \in {"nested", "enqueue"}
    <2>1. d # Depth(s) => d \in 1..(Depth(s) - 1)
      BY <1>1
    <2> QED
      BY <2>1 DEF Nested
  <1>3. d = Depth(s) => FrameAt(s, d).pc # "nested"
    <2>1. d = Depth(s) => Depth(s) > 0
      BY <1>1
    <2> QED
      BY <2>1 DEF Nested
  <1>4. CASE g = FrameAt(s, d)
    BY <1>1, <1>3, <1>4 DEF Tame
  <1>5. CASE FrameAt(s, d).pc = "asleep" /\ g = [FrameAt(s, d) EXCEPT !.pc = "join"]
    BY <1>1, <1>2, <1>5 DEF Tame, FrameOK, FrameType, HasUnit, UnitPcs, Handed, IsMain, Pcs
  <1> QED
    BY <1>4, <1>5 DEF Roused

LEMMA JoinMoves ==
  ASSUME StackType, Nested, NEW t \in Threads, Busy(t), Joins(t),
         Top(t).mode = "own"
  PROVE  Nested' /\ Moved(t)
  <1>1. \A s \in Threads : Depth(s) \in Nat
    BY FrameTypes
  <1>2. Top(t) = FrameAt(t, Depth(t)) /\ Depth(t) \in 1..Depth(t)
    BY FrameTypes
  <1>3. PICK g : g = [Top(t) EXCEPT !.pc = "join"]
    OBVIOUS
  <1>4. FrameOK(g) /\ g.pc = "join" /\ IsMain(g) /\ IsMain(Top(t))
    <2>1. FrameOK(Top(t)) /\ Top(t) \in FrameType
      BY <1>2 DEF Nested, FrameOK
    <2> QED
      BY <1>3, <2>1 DEF FrameOK, FrameType, HasUnit, UnitPcs, Handed, IsMain, Pcs
  <1>5. ASSUME NEW s \in Threads, NEW d \in 1..Depth(s)'
        PROVE  /\ d \in 1..Depth(s) /\ FrameOK(FrameAt(s, d)')
               /\ IsMain(FrameAt(s, d)') <=> IsMain(FrameAt(s, d))
               /\ d # Depth(s) => FrameAt(s, d)' = FrameAt(s, d)
               /\ d = Depth(s) => FrameAt(s, d)'.pc # "nested"
               /\ (s = t => d < Depth(t)) => Tame(FrameAt(s, d), FrameAt(s, d)')
    <2>1. d \in 1..Depth(s)
      BY DEF Joins
    <2>2. CASE s = t /\ d = Depth(t)
      <3>1. FrameAt(s, d)' = g
        BY <1>2, <1>3, <2>2 DEF Joins
      <3>2. ~(d < Depth(t)) /\ FrameAt(s, d) = Top(t)
        BY <1>1, <1>2, <2>2
      <3> QED
        BY <1>4, <2>1, <2>2, <3>1, <3>2
    <2>3. CASE ~(s = t /\ d = Depth(t))
      <3>1. Roused(FrameAt(s, d), FrameAt(s, d)')
        BY <2>3 DEF Joins
      <3>2. PICK r : r = FrameAt(s, d)'
        OBVIOUS
      <3>3. /\ Tame(FrameAt(s, d), r) /\ FrameOK(r)
            /\ IsMain(r) <=> IsMain(FrameAt(s, d))
            /\ d # Depth(s) => r = FrameAt(s, d)
            /\ d = Depth(s) => r.pc # "nested"
        BY <2>1, <3>1, <3>2, RousedIsTame
      <3> QED
        BY <2>1, <3>2, <3>3
    <2> QED
      BY <2>2, <2>3
  <1>6. Moved(t)
    BY <1>1, <1>5 DEF Moved, Joins
  <1> SUFFICES ASSUME NEW s \in Threads
               PROVE  /\ \A d \in 1..Depth(s)' : FrameOK(FrameAt(s, d)')
                      /\ \A d \in 1..(Depth(s)' - 1) :
                           IF IsMain(FrameAt(s, d + 1)')
                           THEN FrameAt(s, d)'.pc = "nested"
                           ELSE FrameAt(s, d)'.mode = "dispatch" /\ FrameAt(s, d)'.pc = "enqueue"
                      /\ Depth(s)' > 0 => \A d : d = Depth(s)' => FrameAt(s, d)'.pc # "nested"
    BY <1>6 DEF Nested, FrameOK
  <1>7. Depth(s)' = Depth(s)
    BY DEF Joins
  <1>8. ASSUME NEW d \in 1..(Depth(s)' - 1)
        PROVE  IF IsMain(FrameAt(s, d + 1)')
               THEN FrameAt(s, d)'.pc = "nested"
               ELSE FrameAt(s, d)'.mode = "dispatch" /\ FrameAt(s, d)'.pc = "enqueue"
    <2>1. d \in 1..(Depth(s) - 1) /\ d \in 1..Depth(s)' /\ d + 1 \in 1..Depth(s)' /\ d # Depth(s)
      BY <1>1, <1>7
    <2> QED
      BY <1>5, <2>1 DEF Nested
  <1>9. Depth(s)' > 0 => \A d : d = Depth(s)' => FrameAt(s, d)'.pc # "nested"
    BY <1>1, <1>5, <1>7
  <1> QED
    BY <1>5, <1>8, <1>9

LEMMA EndMoves ==
  ASSUME StackType, Nested, NEW t \in Threads, Busy(t), TaskEnds(t),
         Top(t).mode = "task"
  PROVE  Nested' /\ Moved(t)
  <1>1. \A s \in Threads : Depth(s) \in Nat
    BY FrameTypes
  <1>2. Top(t) = FrameAt(t, Depth(t)) /\ Depth(t) \in 1..Depth(t)
    BY FrameTypes
  <1>3. ASSUME NEW d \in 1..Depth(t), d = Depth(t) - 1
        PROVE  FrameAt(t, d).pc = "enqueue"
    <2>1. d \in 1..(Depth(t) - 1) /\ d + 1 = Depth(t)
      BY <1>1, <1>3
    <2> QED
      BY <1>2, <2>1 DEF Nested, IsMain
  <1>4. ASSUME NEW s \in Threads, NEW d \in 1..Depth(s)'
        PROVE  /\ d \in 1..Depth(s) /\ FrameOK(FrameAt(s, d)')
               /\ IsMain(FrameAt(s, d)') <=> IsMain(FrameAt(s, d))
               /\ d # Depth(s)' => FrameAt(s, d)' = FrameAt(s, d)
               /\ d = Depth(s)' => FrameAt(s, d)'.pc # "nested"
               /\ Tame(FrameAt(s, d), FrameAt(s, d)')
    <2>1. d \in 1..Depth(s)
      BY <1>1 DEF TaskEnds
    <2>2. Roused(FrameAt(s, d), FrameAt(s, d)')
      BY DEF TaskEnds
    <2>3. PICK r : r = FrameAt(s, d)'
      OBVIOUS
    <2>4. /\ Tame(FrameAt(s, d), r) /\ FrameOK(r)
          /\ IsMain(r) <=> IsMain(FrameAt(s, d))
          /\ d # Depth(s) => r = FrameAt(s, d)
          /\ d = Depth(s) => r.pc # "nested"
      BY <2>1, <2>2, <2>3, RousedIsTame
    <2>5. s = t => Depth(s)' = Depth(t) - 1
      BY DEF TaskEnds
    <2>6. s # t => Depth(s)' = Depth(s)
      BY DEF TaskEnds
    <2>7. s = t /\ d = Depth(s)' => r.pc # "nested"
      BY <1>1, <1>3, <2>1, <2>4, <2>5
    <2> QED
      BY <1>1, <2>1, <2>3, <2>4, <2>5, <2>6, <2>7
  <1>5. Moved(t)
    BY <1>1, <1>4 DEF Moved, TaskEnds
  <1> SUFFICES ASSUME NEW s \in Threads
               PROVE  /\ \A d \in 1..Depth(s)' : FrameOK(FrameAt(s, d)')
                      /\ \A d \in 1..(Depth(s)' - 1) :
                           IF IsMain(FrameAt(s, d + 1)')
                           THEN FrameAt(s, d)'.pc = "nested"
                           ELSE FrameAt(s, d)'.mode = "dispatch" /\ FrameAt(s, d)'.pc = "enqueue"
                      /\ Depth(s)' > 0 => \A d : d = Depth(s)' => FrameAt(s, d)'.pc # "nested"
    BY <1>5 DEF Nested, FrameOK
  <1>6. Depth(s)' \in Int /\ Depth(s)' <= Depth(s)
    BY <1>1 DEF TaskEnds
  <1>7. ASSUME NEW d \in 1..(Depth(s)' - 1)
        PROVE  IF IsMain(FrameAt(s, d + 1)')
               THEN FrameAt(s, d)'.pc = "nested"
               ELSE FrameAt(s, d)'.mode = "dispatch" /\ FrameAt(s, d)'.pc = "enqueue"
    <2>1. /\ d \in 1..(Depth(s) - 1) /\ d \in 1..Depth(s)' /\ d + 1 \in 1..Depth(s)'
          /\ d # Depth(s)'
      BY <1>1, <1>6
    <2> QED
      BY <1>4, <2>1 DEF Nested
  <1>8. Depth(s)' > 0 => \A d : d = Depth(s)' => FrameAt(s, d)'.pc # "nested"
    BY <1>4, <1>6
  <1> QED
    BY <1>4, <1>7, <1>8

-----------------------------------------------------------------------------
(***************************************************************************)
(* The census of the open tasks.                                           *)
(***************************************************************************)
Census == Alone /\ Owned /\ Counted

\* The same tasks, handed to the same frame.
Alike(f, g) ==
    /\ g.call = f.call /\ (IsMain(g) <=> IsMain(f)) /\ (Dispatches(g) <=> Dispatches(f))
    /\ \A k \in 0..(TaskCount(f.call) - 1) : Carries(f, k) <=> Carries(g, k)

LEMMA TameIsAlike ==
  ASSUME NEW f, FrameOK(f), NEW g, Tame(f, g)
  PROVE  /\ Alike(f, g) /\ FrameOK(g) /\ g.mode = f.mode /\ g.task = f.task
         /\ g.unit = f.unit /\ g.failed = f.failed /\ g.call = f.call
         /\ HasUnit(g) <=> HasUnit(f)
         /\ g.pc # f.pc => \/ f.pc = "asleep" /\ g.pc = "join"
                           \/ f.pc = "nested" /\ g.pc \in {"ran", "threw"}
  <1>1. f \in FrameType
    BY DEF FrameOK
  <1>2. CASE g = f
    BY <1>2 DEF Alike
  <1>3. CASE f.pc = "asleep" /\ g = [f EXCEPT !.pc = "join"]
    BY <1>1, <1>3 DEF FrameOK, FrameType, Alike, IsMain, Dispatches, Carries, Works,
                      Handed, HasUnit, UnitPcs, Pcs
  <1>4. CASE f.pc = "nested" /\ \E pc \in {"ran", "threw"} : g = [f EXCEPT !.pc = pc]
    BY <1>1, <1>4 DEF FrameOK, FrameType, Alike, IsMain, Dispatches, Carries, Works,
                      Handed, HasUnit, UnitPcs, Pcs
  <1> QED
    BY <1>2, <1>3, <1>4 DEF Tame

\* A queued task is open, and a task that a thread runs.
LEMMA TasksAreOpen ==
  ASSUME StackType, Nested, QueueOK
  PROVE  /\ \A t \in Threads : \A d \in 1..Depth(t) :
              FrameAt(t, d).mode = "task" => FrameAt(t, d).task \in Open(FrameAt(t, d).call)
         /\ \A i \in 1..Len(tasks) : tasks[i][2] \in Open(tasks[i][1])
  <1>1. ASSUME NEW t \in Threads, NEW d \in 1..Depth(t), FrameAt(t, d).mode = "task"
        PROVE  FrameAt(t, d).task \in Open(FrameAt(t, d).call)
    <2>1. FrameOK(FrameAt(t, d)) /\ FrameAt(t, d) \in FrameType
      BY FrameTypes DEF Nested
    <2>2. Carries(FrameAt(t, d), FrameAt(t, d).task)
      BY <1>1 DEF Carries, Works
    <2>3. PICK c, k : c = FrameAt(t, d).call /\ k = FrameAt(t, d).task
      OBVIOUS
    <2>4. c \in Calls /\ k \in Nat /\ k + 1 < TaskCount(c)
      BY <1>1, <2>1, <2>3 DEF FrameOK, FrameType
    <2>5. k \in 0..(TaskCount(c) - 1)
      BY <2>4, TaskCountBounds
    <2>6. Carried(c, k)
      BY <2>2, <2>3 DEF Carried
    <2> QED
      BY <2>3, <2>5, <2>6 DEF Open
  <1>2. ASSUME NEW i \in 1..Len(tasks)
        PROVE  tasks[i][2] \in Open(tasks[i][1])
    <2>1. PICK c, k : c = tasks[i][1] /\ k = tasks[i][2]
      OBVIOUS
    <2>2. c \in Calls /\ k \in Nat /\ k + 1 < TaskCount(c) /\ tasks[i] = <<c, k>>
      BY <2>1 DEF QueueOK
    <2>3. k \in 0..(TaskCount(c) - 1)
      BY <2>2, TaskCountBounds
    <2> QED
      BY <2>1, <2>2, <2>3 DEF Open, Queued
  <1> QED
    BY <1>1, <1>2

\* The number of open tasks is never in doubt.
LEMMA OpenIsFinite ==
  ASSUME NEW c \in Calls
  PROVE  /\ IsFiniteSet(Open(c)) /\ Open(c) \subseteq 0..(TaskCount(c) - 1)
         /\ Cardinality(Open(c)) \in Nat
         /\ Cardinality(Open(c)) = 0 <=> Open(c) = {}
  <1>1. IsFiniteSet(0..(TaskCount(c) - 1))
    BY TaskCountBounds, FS_Interval
  <1>2. Open(c) \subseteq 0..(TaskCount(c) - 1)
    BY DEF Open
  <1> QED
    BY <1>1, <1>2, FS_Subset, FS_EmptySet, FS_CardinalityType

LEMMA CensusKept ==
  ASSUME StackType, StackType', Nested, QueueOK, Census, NEW t \in Threads, Moved(t),
         tasks' = tasks, remaining' = remaining,
         \A d \in 1..Depth(t)' :
           d >= Depth(t) => d = Depth(t) /\ Alike(FrameAt(t, d), FrameAt(t, d)'),
         \A d \in 1..Depth(t) :
           d > Depth(t)' =>
             /\ \A k \in 0..(TaskCount(FrameAt(t, d).call) - 1) : ~Carries(FrameAt(t, d), k)
             /\ Dispatches(FrameAt(t, d)) => Open(FrameAt(t, d).call) = {},
         \A s \in Threads : \A d \in 1..Depth(s)' :
           IsMain(FrameAt(s, d)) =>
             outcome'[FrameAt(s, d).call] = outcome[FrameAt(s, d).call]
  PROVE  Census' /\ \A c \in Calls : Open(c)' = Open(c)
  <1>1. \A s \in Threads : Depth(s) \in Nat /\ Depth(s)' \in Nat
    <2>1. \A s \in Threads : Depth(s) \in Nat
      BY FrameTypes
    <2>2. \A s \in Threads : Len(stack'[s]) \in Nat
      BY DEF StackType
    <2> QED
      BY <2>1, <2>2 DEF Depth
  <1>2. ASSUME NEW s \in Threads, NEW d \in 1..Depth(s)'
        PROVE  d \in 1..Depth(s) /\ Alike(FrameAt(s, d), FrameAt(s, d)')
    <2>1. CASE s = t /\ d >= Depth(t)
      BY <1>1, <2>1
    <2>2. CASE ~(s = t /\ d >= Depth(t))
      <3>1. (s = t => d < Depth(t)) /\ d \in 1..Depth(s)
        BY <1>1, <2>2 DEF Moved
      <3>2. Tame(FrameAt(s, d), FrameAt(s, d)')
        BY <3>1 DEF Moved
      <3>3. FrameOK(FrameAt(s, d))
        BY <3>1 DEF Nested
      <3>4. PICK g : g = FrameAt(s, d)'
        OBVIOUS
      <3>5. Alike(FrameAt(s, d), g)
        BY <3>2, <3>3, <3>4, TameIsAlike
      <3> QED
        BY <3>1, <3>4, <3>5
    <2> QED
      BY <2>1, <2>2
  <1>3. ASSUME NEW s \in Threads, NEW d \in 1..Depth(s), d \notin 1..Depth(s)'
        PROVE  s = t /\ d > Depth(t)'
    BY <1>1, <1>3 DEF Moved
  <1>4. ASSUME NEW c \in Calls, NEW k \in 0..(TaskCount(c) - 1)
        PROVE  Carried(c, k)' <=> Carried(c, k)
    <2>1. ASSUME Carried(c, k) PROVE Carried(c, k)'
      <3>1. PICK s, d : s \in Threads /\ d \in 1..Depth(s) /\
              FrameAt(s, d).call = c /\ Carries(FrameAt(s, d), k)
        BY <2>1 DEF Carried
      <3>2. d \in 1..Depth(s)'
        BY <1>3, <3>1
      <3>3. Alike(FrameAt(s, d), FrameAt(s, d)')
        BY <1>2, <3>1, <3>2
      <3>4. FrameAt(s, d)'.call = c /\ Carries(FrameAt(s, d)', k)
        BY <3>1, <3>3 DEF Alike
      <3> QED
        BY <3>1, <3>2, <3>4 DEF Carried, Carries, Works, Handed
    <2>2. ASSUME Carried(c, k)' PROVE Carried(c, k)
      <3>1. PICK s, d : s \in Threads /\ d \in 1..Depth(s)' /\
              FrameAt(s, d)'.call = c /\ Carries(FrameAt(s, d)', k)
        BY <2>2 DEF Carried, Carries, Works, Handed
      <3>2. d \in 1..Depth(s) /\ Alike(FrameAt(s, d), FrameAt(s, d)')
        BY <1>2, <3>1
      <3> QED
        BY <3>1, <3>2 DEF Carried, Alike
    <2> QED
      BY <2>1, <2>2
  <1>5. \A c \in Calls : Open(c)' = Open(c)
    <2>1. \A c, k : Queued(c, k)' <=> Queued(c, k)
      BY DEF Queued
    <2> QED
      BY <1>4, <2>1 DEF Open, TaskCount
  <1>6. Alone'
    <2>1. ASSUME NEW t1 \in Threads, NEW t2 \in Threads,
                 NEW d1 \in 1..Depth(t1)', NEW d2 \in 1..Depth(t2)',
                 FrameAt(t1, d1)'.call = FrameAt(t2, d2)'.call, ~(t1 = t2 /\ d1 = d2)
          PROVE  /\ ~(IsMain(FrameAt(t1, d1)') /\ IsMain(FrameAt(t2, d2)'))
                 /\ \A k \in 0..(TaskCount(FrameAt(t1, d1)'.call) - 1) :
                      ~(Carries(FrameAt(t1, d1)', k) /\ Carries(FrameAt(t2, d2)', k))
      <3>1. /\ d1 \in 1..Depth(t1) /\ Alike(FrameAt(t1, d1), FrameAt(t1, d1)')
            /\ d2 \in 1..Depth(t2) /\ Alike(FrameAt(t2, d2), FrameAt(t2, d2)')
        BY <1>2
      <3>2. FrameAt(t1, d1).call = FrameAt(t2, d2).call
        BY <2>1, <3>1 DEF Alike
      <3>3. /\ ~(IsMain(FrameAt(t1, d1)) /\ IsMain(FrameAt(t2, d2)))
            /\ \A k \in 0..(TaskCount(FrameAt(t1, d1).call) - 1) :
                 ~(Carries(FrameAt(t1, d1), k) /\ Carries(FrameAt(t2, d2), k))
        BY <2>1, <3>1, <3>2 DEF Census, Alone
      <3> QED
        BY <3>1, <3>2, <3>3 DEF Alike
    <2>2. ASSUME NEW s \in Threads, NEW d \in 1..Depth(s)', NEW i \in 1..Len(tasks),
                 tasks[i][1] = FrameAt(s, d)'.call
          PROVE  ~Carries(FrameAt(s, d)', tasks[i][2])
      <3>1. d \in 1..Depth(s) /\ Alike(FrameAt(s, d), FrameAt(s, d)')
        BY <1>2
      <3>2. tasks[i][1] \in Calls /\ tasks[i][2] \in Nat
            /\ tasks[i][2] + 1 < TaskCount(tasks[i][1])
        BY DEF QueueOK
      <3>3. tasks[i][2] \in 0..(TaskCount(tasks[i][1]) - 1)
        BY <3>2, TaskCountBounds
      <3>4. FrameAt(s, d).call = tasks[i][1] /\ ~Carries(FrameAt(s, d), tasks[i][2])
        BY <2>2, <3>1 DEF Census, Alone, Alike
      <3> QED
        BY <3>1, <3>3, <3>4 DEF Alike
    <2>3. \A i, j \in 1..Len(tasks) : tasks[i] = tasks[j] => i = j
      BY DEF Census, Alone
    <2> QED
      BY <2>1, <2>2, <2>3 DEF Alone, TaskCount, Carries, IsMain, Works, Handed
  <1>7. ASSUME NEW c, HasCaller(c), Open(c) # {}
        PROVE  HasCaller(c)'
    <2>1. PICK s, d : s \in Threads /\ d \in 1..Depth(s) /\
            FrameAt(s, d).call = c /\ Dispatches(FrameAt(s, d))
      BY <1>7 DEF HasCaller
    <2>2. d \in 1..Depth(s)'
      BY <1>3, <1>7, <2>1
    <2>3. Alike(FrameAt(s, d), FrameAt(s, d)')
      BY <1>2, <2>1, <2>2
    <2> QED
      BY <2>1, <2>2, <2>3 DEF HasCaller, Alike, Dispatches
  <1>8. Owned'
    <2>1. ASSUME NEW s \in Threads, NEW d \in 1..Depth(s)'
          PROVE  /\ ~IsMain(FrameAt(s, d)') => HasCaller(FrameAt(s, d).call)'
                 /\ IsMain(FrameAt(s, d)') => outcome'[FrameAt(s, d)'.call] = "none"
      <3>1. d \in 1..Depth(s) /\ Alike(FrameAt(s, d), FrameAt(s, d)')
        BY <1>2
      <3>2. PICK c : c = FrameAt(s, d).call
        OBVIOUS
      <3>3. FrameAt(s, d)'.call = c /\ (IsMain(FrameAt(s, d)') <=> IsMain(FrameAt(s, d)))
        BY <3>1, <3>2 DEF Alike
      <3>4. ~IsMain(FrameAt(s, d)) => HasCaller(c) /\ Open(c) # {}
        BY <3>1, <3>2, TasksAreOpen DEF Census, Owned, IsMain
      <3>5. ~IsMain(FrameAt(s, d)) => HasCaller(c)'
        BY <1>7, <3>4
      <3>6. IsMain(FrameAt(s, d)) => outcome'[c] = "none"
        BY <3>1, <3>2 DEF Census, Owned
      <3> QED
        BY <3>3, <3>5, <3>6
    <2>2. ASSUME NEW i \in 1..Len(tasks) PROVE HasCaller(tasks[i][1])'
      <3>1. PICK c : c = tasks[i][1]
        OBVIOUS
      <3>2. HasCaller(c) /\ Open(c) # {}
        BY <3>1, TasksAreOpen DEF Census, Owned
      <3>3. HasCaller(c)'
        BY <1>7, <3>2
      <3> QED
        BY <3>1, <3>3
    <2> QED
      BY <2>1, <2>2 DEF Owned, IsMain, HasCaller
  <1>9. Counted'
    BY <1>5 DEF Census, Counted
  <1> QED
    BY <1>5, <1>6, <1>8, <1>9 DEF Census

\* The same frame with no more tasks than before.
Shrinks(f, g) ==
    /\ g.call = f.call /\ (IsMain(g) <=> IsMain(f)) /\ (Dispatches(g) <=> Dispatches(f))
    /\ \A k \in 0..(TaskCount(f.call) - 1) : Carries(g, k) => Carries(f, k)

\* The frames of the other threads, and under the top of t, keep their tasks.
LEMMA OthersAlike ==
  ASSUME StackType, StackType', Nested, NEW t \in Threads, Moved(t)
  PROVE  /\ \A s \in Threads : Depth(s) \in Nat /\ Depth(s)' \in Nat
         /\ \A s \in Threads : s # t => Depth(s)' = Depth(s)
         /\ Depth(t)' \in {Depth(t) - 1, Depth(t), Depth(t) + 1}
         /\ \A s \in Threads : \A d \in 1..Depth(s)' : (s = t => d < Depth(t)) =>
              /\ d \in 1..Depth(s) /\ Alike(FrameAt(s, d), FrameAt(s, d)')
              /\ Tame(FrameAt(s, d), FrameAt(s, d)') /\ FrameOK(FrameAt(s, d))
         /\ \A s \in Threads : \A d \in 1..Depth(s) : (s = t => d < Depth(t)) =>
              d \in 1..Depth(s)'
  <1>1. \A s \in Threads : Depth(s) \in Nat /\ Depth(s)' \in Nat
    <2>1. \A s \in Threads : Depth(s) \in Nat
      BY FrameTypes
    <2>2. \A s \in Threads : Len(stack'[s]) \in Nat
      BY DEF StackType
    <2> QED
      BY <2>1, <2>2 DEF Depth
  <1>2. ASSUME NEW s \in Threads, NEW d \in 1..Depth(s)', s = t => d < Depth(t)
        PROVE  /\ d \in 1..Depth(s) /\ Alike(FrameAt(s, d), FrameAt(s, d)')
               /\ Tame(FrameAt(s, d), FrameAt(s, d)') /\ FrameOK(FrameAt(s, d))
    <2>1. d \in 1..Depth(s)
      BY <1>1, <1>2 DEF Moved
    <2>2. Tame(FrameAt(s, d), FrameAt(s, d)')
      BY <1>2 DEF Moved
    <2>3. FrameOK(FrameAt(s, d))
      BY <2>1 DEF Nested
    <2>4. PICK g : g = FrameAt(s, d)'
      OBVIOUS
    <2>5. Alike(FrameAt(s, d), g)
      BY <2>2, <2>3, <2>4, TameIsAlike
    <2> QED
      BY <2>1, <2>2, <2>3, <2>4, <2>5
  <1>3. ASSUME NEW s \in Threads, NEW d \in 1..Depth(s), s = t => d < Depth(t)
        PROVE  d \in 1..Depth(s)'
    BY <1>1, <1>3 DEF Moved
  <1> QED
    BY <1>1, <1>2, <1>3 DEF Moved

LEMMA AloneMoved ==
  ASSUME StackType, StackType', Nested, QueueOK, QueueOK', Alone, NEW t \in Threads, Moved(t),
         \A d \in 1..Depth(t)' : d = Depth(t) => Shrinks(FrameAt(t, d), FrameAt(t, d)'),
         \A d \in 1..Depth(t)' : d = Depth(t) + 1 =>
           /\ \A s \in Threads : \A e \in 1..Depth(s)' :
                FrameAt(s, e)'.call = FrameAt(t, d)'.call =>
                  \/ s = t /\ e = d
                  \/ /\ ~(IsMain(FrameAt(s, e)') /\ IsMain(FrameAt(t, d)'))
                     /\ \A k \in 0..(TaskCount(FrameAt(s, e)'.call) - 1) :
                          ~(Carries(FrameAt(s, e)', k) /\ Carries(FrameAt(t, d)', k))
           /\ \A i \in 1..Len(tasks') :
                tasks'[i][1] = FrameAt(t, d)'.call => ~Carries(FrameAt(t, d)', tasks'[i][2]),
         \A i, j \in 1..Len(tasks') : tasks'[i] = tasks'[j] => i = j,
         \A i \in 1..Len(tasks') :
           \/ \E j \in 1..Len(tasks) : tasks'[i] = tasks[j]
           \/ \A s \in Threads : \A d \in 1..Depth(s)' :
                tasks'[i][1] = FrameAt(s, d)'.call => ~Carries(FrameAt(s, d)', tasks'[i][2])
  PROVE  Alone'
  <1>1. ASSUME NEW s \in Threads, NEW d \in 1..Depth(s)', ~(s = t /\ d = Depth(t) + 1)
        PROVE  d \in 1..Depth(s) /\ Shrinks(FrameAt(s, d), FrameAt(s, d)')
    <2>1. CASE s = t /\ d >= Depth(t)
      BY <1>1, <2>1, OthersAlike
    <2>2. CASE ~(s = t /\ d >= Depth(t))
      <3>1. s = t => d < Depth(t)
        BY <2>2, OthersAlike
      <3> QED
        BY <3>1, OthersAlike DEF Alike, Shrinks
    <2> QED
      BY <2>1, <2>2
  <1>2. ASSUME NEW t1 \in Threads, NEW t2 \in Threads,
               NEW d1 \in 1..Depth(t1)', NEW d2 \in 1..Depth(t2)',
               FrameAt(t1, d1)'.call = FrameAt(t2, d2)'.call, ~(t1 = t2 /\ d1 = d2)
        PROVE  /\ ~(IsMain(FrameAt(t1, d1)') /\ IsMain(FrameAt(t2, d2)'))
               /\ \A k \in 0..(TaskCount(FrameAt(t1, d1)'.call) - 1) :
                    ~(Carries(FrameAt(t1, d1)', k) /\ Carries(FrameAt(t2, d2)', k))
    <2>1. CASE t1 = t /\ d1 = Depth(t) + 1
      BY <1>2, <2>1
    <2>2. CASE t2 = t /\ d2 = Depth(t) + 1
      BY <1>2, <2>2
    <2>3. CASE ~(t1 = t /\ d1 = Depth(t) + 1) /\ ~(t2 = t /\ d2 = Depth(t) + 1)
      <3>1. /\ d1 \in 1..Depth(t1) /\ Shrinks(FrameAt(t1, d1), FrameAt(t1, d1)')
            /\ d2 \in 1..Depth(t2) /\ Shrinks(FrameAt(t2, d2), FrameAt(t2, d2)')
        BY <1>1, <2>3
      <3>2. FrameAt(t1, d1).call = FrameAt(t2, d2).call
        BY <1>2, <3>1 DEF Shrinks
      <3>3. /\ ~(IsMain(FrameAt(t1, d1)) /\ IsMain(FrameAt(t2, d2)))
            /\ \A k \in 0..(TaskCount(FrameAt(t1, d1).call) - 1) :
                 ~(Carries(FrameAt(t1, d1), k) /\ Carries(FrameAt(t2, d2), k))
        BY <1>2, <3>1, <3>2 DEF Alone
      <3> QED
        BY <3>1, <3>2, <3>3 DEF Shrinks
    <2> QED
      BY <2>1, <2>2, <2>3
  <1>3. ASSUME NEW s \in Threads, NEW d \in 1..Depth(s)', NEW i \in 1..Len(tasks'),
               tasks'[i][1] = FrameAt(s, d)'.call
        PROVE  ~Carries(FrameAt(s, d)', tasks'[i][2])
    <2>1. CASE s = t /\ d = Depth(t) + 1
      BY <1>3, <2>1
    <2>2. CASE ~(s = t /\ d = Depth(t) + 1) /\ \E j \in 1..Len(tasks) : tasks'[i] = tasks[j]
      <3>1. PICK j \in 1..Len(tasks) : tasks'[i] = tasks[j]
        BY <2>2
      <3>2. d \in 1..Depth(s) /\ Shrinks(FrameAt(s, d), FrameAt(s, d)')
        BY <1>1, <2>2
      <3>3. tasks[j][1] = FrameAt(s, d).call
        BY <1>3, <3>1, <3>2 DEF Shrinks
      <3>4. ~Carries(FrameAt(s, d), tasks[j][2])
        BY <3>2, <3>3 DEF Alone
      <3>5. tasks[j][1] \in Calls /\ tasks[j][2] \in Nat
            /\ tasks[j][2] + 1 < TaskCount(tasks[j][1])
        BY DEF QueueOK
      <3>6. tasks[j][2] \in 0..(TaskCount(tasks[j][1]) - 1)
        BY <3>5, TaskCountBounds
      <3> QED
        BY <3>1, <3>2, <3>3, <3>4, <3>6 DEF Shrinks
    <2> QED
      BY <1>3, <2>1, <2>2
  <1> QED
    BY <1>2, <1>3 DEF Alone, TaskCount, Carries, IsMain, Works, Handed

LEMMA OwnedMoved ==
  ASSUME StackType, StackType', Nested, QueueOK, Owned, NEW t \in Threads, Moved(t),
         \A d \in 1..Depth(t)' : d = Depth(t) => Shrinks(FrameAt(t, d), FrameAt(t, d)'),
         \A d \in 1..Depth(t) : d > Depth(t)' => ~Dispatches(FrameAt(t, d)),
         \A d \in 1..Depth(t)' : d = Depth(t) + 1 =>
           /\ IsMain(FrameAt(t, d)') => outcome[FrameAt(t, d)'.call] = "none"
           /\ ~IsMain(FrameAt(t, d)') => HasCaller(FrameAt(t, d)'.call),
         \A i \in 1..Len(tasks') : HasCaller(tasks'[i][1]),
         outcome' = outcome
  PROVE  Owned' /\ \A c : HasCaller(c) => HasCaller(c)'
  <1>1. ASSUME NEW s \in Threads, NEW d \in 1..Depth(s)', ~(s = t /\ d = Depth(t) + 1)
        PROVE  d \in 1..Depth(s) /\ Shrinks(FrameAt(s, d), FrameAt(s, d)')
    <2>1. CASE s = t /\ d >= Depth(t)
      BY <1>1, <2>1, OthersAlike
    <2>2. CASE ~(s = t /\ d >= Depth(t))
      <3>1. s = t => d < Depth(t)
        BY <2>2, OthersAlike
      <3> QED
        BY <3>1, OthersAlike DEF Alike, Shrinks
    <2> QED
      BY <2>1, <2>2
  <1>2. ASSUME NEW c, HasCaller(c)
        PROVE  HasCaller(c)'
    <2>1. PICK s, d : s \in Threads /\ d \in 1..Depth(s) /\
            FrameAt(s, d).call = c /\ Dispatches(FrameAt(s, d))
      BY <1>2 DEF HasCaller
    <2>2. d \in 1..Depth(s)' /\ ~(s = t /\ d = Depth(t) + 1)
      BY <2>1, OthersAlike
    <2>3. Shrinks(FrameAt(s, d), FrameAt(s, d)')
      BY <1>1, <2>1, <2>2
    <2> QED
      BY <2>1, <2>2, <2>3 DEF HasCaller, Shrinks, Dispatches
  <1>3. ASSUME NEW s \in Threads, NEW d \in 1..Depth(s)', NEW c, c = FrameAt(s, d)'.call
        PROVE  /\ ~IsMain(FrameAt(s, d)') => HasCaller(c)'
               /\ IsMain(FrameAt(s, d)') => outcome'[c] = "none"
    <2>1. CASE s = t /\ d = Depth(t) + 1
      BY <1>2, <1>3, <2>1
    <2>2. CASE ~(s = t /\ d = Depth(t) + 1)
      <3>1. d \in 1..Depth(s) /\ Shrinks(FrameAt(s, d), FrameAt(s, d)')
        BY <1>1, <2>2
      <3>2. FrameAt(s, d).call = c /\ (IsMain(FrameAt(s, d)') <=> IsMain(FrameAt(s, d)))
        BY <1>3, <3>1 DEF Shrinks
      <3>3. ~IsMain(FrameAt(s, d)) => HasCaller(c)
        BY <3>1, <3>2 DEF Owned
      <3>4. IsMain(FrameAt(s, d)) => outcome[c] = "none"
        BY <3>1, <3>2 DEF Owned
      <3> QED
        BY <1>2, <3>2, <3>3, <3>4
    <2> QED
      BY <2>1, <2>2
  <1>4. ASSUME NEW i \in 1..Len(tasks'), NEW c, c = tasks'[i][1]
        PROVE  HasCaller(c)'
    BY <1>2, <1>4
  <1>5. Owned'
    BY <1>3, <1>4 DEF Owned, IsMain, HasCaller
  <1> QED
    BY <1>2, <1>5

\* Carried by a frame that nobody steps in.
CarriedElse(t, c, k) ==
    \E s \in Threads : \E d \in 1..Depth(s) :
       (s = t => d < Depth(t)) /\ FrameAt(s, d).call = c /\ Carries(FrameAt(s, d), k)

LEMMA CarriedMoved ==
  ASSUME StackType, StackType', Nested, NEW t \in Threads, Moved(t),
         NEW c \in Calls, NEW k \in 0..(TaskCount(c) - 1)
  PROVE  /\ Carried(c, k) <=>
              CarriedElse(t, c, k) \/ (Busy(t) /\ Top(t).call = c /\ Carries(Top(t), k))
         /\ Carried(c, k)' <=>
              \/ CarriedElse(t, c, k)
              \/ \E d \in 1..Depth(t)' :
                   d >= Depth(t) /\ FrameAt(t, d)'.call = c /\ Carries(FrameAt(t, d)', k)
  <1>1. Busy(t) => Top(t) = FrameAt(t, Depth(t)) /\ Depth(t) \in 1..Depth(t)
    BY FrameTypes
  <1>2. \A s \in Threads : Depth(s) \in Nat /\ Depth(s)' \in Nat
    BY OthersAlike
  <1>a. Busy(t) <=> Depth(t) > 0
    BY FrameTypes
  <1>3. Carried(c, k) <=>
          CarriedElse(t, c, k) \/ (Busy(t) /\ Top(t).call = c /\ Carries(Top(t), k))
    <2>1. ASSUME Carried(c, k), ~CarriedElse(t, c, k)
          PROVE  Busy(t) /\ Top(t).call = c /\ Carries(Top(t), k)
      <3>1. PICK s, d : s \in Threads /\ d \in 1..Depth(s) /\
              FrameAt(s, d).call = c /\ Carries(FrameAt(s, d), k)
        BY <2>1 DEF Carried
      <3>2. s = t /\ ~(d < Depth(t))
        BY <2>1, <3>1 DEF CarriedElse
      <3>3. d = Depth(t) /\ Depth(t) > 0
        BY <1>2, <3>1, <3>2
      <3> QED
        BY <1>1, <1>a, <3>1, <3>2, <3>3
    <2>2. CarriedElse(t, c, k) => Carried(c, k)
      BY DEF CarriedElse, Carried
    <2>3. Busy(t) /\ Top(t).call = c /\ Carries(Top(t), k) => Carried(c, k)
      BY <1>1 DEF Carried
    <2> QED
      BY <2>1, <2>2, <2>3
  <1>4. ASSUME Carried(c, k)'
        PROVE  \/ CarriedElse(t, c, k)
               \/ \E d \in 1..Depth(t)' :
                    d >= Depth(t) /\ FrameAt(t, d)'.call = c /\ Carries(FrameAt(t, d)', k)
    <2>1. PICK s, d : s \in Threads /\ d \in 1..Depth(s)' /\
            FrameAt(s, d)'.call = c /\ Carries(FrameAt(s, d)', k)
      BY <1>4 DEF Carried, Carries, Works, Handed
    <2>2. CASE s = t /\ d >= Depth(t)
      BY <2>1, <2>2
    <2>3. CASE ~(s = t /\ d >= Depth(t))
      <3>1. s = t => d < Depth(t)
        BY <1>2, <2>1, <2>3
      <3>2. d \in 1..Depth(s) /\ Alike(FrameAt(s, d), FrameAt(s, d)')
        BY <2>1, <3>1, OthersAlike
      <3> QED
        BY <2>1, <3>1, <3>2 DEF CarriedElse, Alike
    <2> QED
      BY <2>2, <2>3
  <1>5. ASSUME CarriedElse(t, c, k) PROVE Carried(c, k)'
    <2>1. PICK s, d : s \in Threads /\ d \in 1..Depth(s) /\ (s = t => d < Depth(t)) /\
            FrameAt(s, d).call = c /\ Carries(FrameAt(s, d), k)
      BY <1>5 DEF CarriedElse
    <2>2. d \in 1..Depth(s)' /\ Alike(FrameAt(s, d), FrameAt(s, d)')
      BY <2>1, OthersAlike
    <2>3. FrameAt(s, d)'.call = c /\ Carries(FrameAt(s, d)', k)
      BY <2>1, <2>2 DEF Alike
    <2> QED
      BY <2>1, <2>2, <2>3 DEF Carried, Carries, Works, Handed
  <1>6. ASSUME NEW d \in 1..Depth(t)', FrameAt(t, d)'.call = c, Carries(FrameAt(t, d)', k)
        PROVE  Carried(c, k)'
    BY <1>6 DEF Carried, Carries, Works, Handed
  <1> QED
    BY <1>3, <1>4, <1>5, <1>6

\* A call that runs its units inline is in one frame and nowhere else.
LEMMA InlineAlone ==
  ASSUME StackType, Nested, QueueOK, Alone, Owned, NEW t \in Threads, NEW d \in 1..Depth(t),
         FrameAt(t, d).mode = "inline", NEW c, c = FrameAt(t, d).call
  PROVE  /\ \A s \in Threads : \A e \in 1..Depth(s) :
              FrameAt(s, e).call = c => s = t /\ e = d
         /\ \A i \in 1..Len(tasks) : tasks[i][1] # c
         /\ Open(c) = {} /\ ~HasCaller(c)
  <1>1. \A s \in Threads : \A e \in 1..Depth(s) :
          FrameAt(s, e).call = c /\ IsMain(FrameAt(s, e)) => s = t /\ e = d
    BY DEF Alone, IsMain
  <1>2. ~HasCaller(c)
    <2>1. ASSUME NEW s \in Threads, NEW e \in 1..Depth(s), FrameAt(s, e).call = c
          PROVE  ~Dispatches(FrameAt(s, e))
      BY <1>1, <2>1 DEF IsMain, Dispatches
    <2> QED
      BY <2>1 DEF HasCaller
  <1>3. \A s \in Threads : \A e \in 1..Depth(s) :
          FrameAt(s, e).call = c => IsMain(FrameAt(s, e))
    BY <1>2 DEF Owned
  <1>4. \A i \in 1..Len(tasks) : tasks[i][1] # c
    BY <1>2 DEF Owned
  <1>5. ASSUME NEW k, Carried(c, k) \/ Queued(c, k) PROVE FALSE
    <2>1. CASE Carried(c, k)
      <3>1. ASSUME NEW s \in Threads, NEW e \in 1..Depth(s), FrameAt(s, e).call = c
            PROVE  ~Carries(FrameAt(s, e), k)
        <4>1. FrameAt(s, e).mode = "inline"
          BY <1>1, <1>3, <3>1
        <4> QED
          BY <4>1 DEF Carries, Works
      <3> QED
        BY <2>1, <3>1 DEF Carried
    <2>2. CASE Queued(c, k)
      <3>1. PICK i \in 1..Len(tasks) : tasks[i] = <<c, k>>
        BY <2>2 DEF Queued
      <3> QED
        BY <1>4, <3>1
    <2> QED
      BY <1>5, <2>1, <2>2
  <1>6. Open(c) = {}
    BY <1>5 DEF Open
  <1> QED
    BY <1>1, <1>2, <1>3, <1>4, <1>6

\* A TaskGroup is made for all the tasks, which its caller has yet to hand out.
LEMMA CensusDispatched ==
  ASSUME StackType, StackType', Nested, QueueOK, Census, NEW t \in Threads, Busy(t),
         NEW g, Swapped(t, g), Moved(t), NEW c \in Calls, Top(t).call = c, g.call = c,
         Top(t).mode = "inline", g.mode = "dispatch", Handed(g) = 0,
         tasks' = tasks, outcome' = outcome,
         remaining \in [Calls -> Nat],
         remaining' = [remaining EXCEPT ![c] = TaskCount(c)]
  PROVE  /\ Census' /\ \A x \in Calls \ {c} : Open(x)' = Open(x)
         /\ Open(c)' = 0..(TaskCount(c) - 1)
  <1>1. Top(t) = FrameAt(t, Depth(t)) /\ Depth(t) \in 1..Depth(t)
    BY FrameTypes
  <1>2. /\ \A s \in Threads : \A e \in 1..Depth(s) :
             FrameAt(s, e).call = c => s = t /\ e = Depth(t)
        /\ \A i \in 1..Len(tasks) : tasks[i][1] # c
        /\ Open(c) = {} /\ ~HasCaller(c)
    <2>1. PICK d \in 1..Depth(t) : d = Depth(t)
      BY <1>1
    <2>2. FrameAt(t, d).mode = "inline" /\ FrameAt(t, d).call = c /\ Alone /\ Owned
      BY <1>1, <2>1 DEF Census
    <2> QED
      BY <2>1, <2>2, InlineAlone
  <1>3. \A s \in Threads : Depth(s)' = Depth(s)
    BY DEF Swapped
  <1>4. \A s \in Threads : \A d \in 1..Depth(s) :
          FrameAt(s, d)' = IF s = t /\ d = Depth(t) THEN g ELSE FrameAt(s, d)
    BY DEF Swapped
  <1>5. IsMain(g) /\ Dispatches(g) /\ \A k \in Nat : Carries(g, k)
    BY DEF IsMain, Dispatches, Carries
  <1>6. /\ IsMain(Top(t)) /\ ~Dispatches(Top(t))
        /\ \A k : ~Carries(Top(t), k)
    BY DEF IsMain, Dispatches, Carries, Works
  <1>7. Alone'
    <2>1. ASSUME NEW t1 \in Threads, NEW t2 \in Threads,
                 NEW d1 \in 1..Depth(t1)', NEW d2 \in 1..Depth(t2)',
                 FrameAt(t1, d1)'.call = FrameAt(t2, d2)'.call, ~(t1 = t2 /\ d1 = d2)
          PROVE  /\ ~(IsMain(FrameAt(t1, d1)') /\ IsMain(FrameAt(t2, d2)'))
                 /\ \A k \in 0..(TaskCount(FrameAt(t1, d1)'.call) - 1) :
                      ~(Carries(FrameAt(t1, d1)', k) /\ Carries(FrameAt(t2, d2)', k))
      <3>1. d1 \in 1..Depth(t1) /\ d2 \in 1..Depth(t2)
        BY <1>3
      <3>2. ~(t1 = t /\ d1 = Depth(t)) /\ ~(t2 = t /\ d2 = Depth(t))
        BY <1>2, <1>4, <2>1, <3>1
      <3>3. FrameAt(t1, d1)' = FrameAt(t1, d1) /\ FrameAt(t2, d2)' = FrameAt(t2, d2)
        BY <1>4, <3>1, <3>2
      <3> QED
        BY <2>1, <3>1, <3>3 DEF Census, Alone
    <2>2. ASSUME NEW s \in Threads, NEW d \in 1..Depth(s)', NEW i \in 1..Len(tasks),
                 tasks[i][1] = FrameAt(s, d)'.call
          PROVE  ~Carries(FrameAt(s, d)', tasks[i][2])
      <3>1. d \in 1..Depth(s) /\ ~(s = t /\ d = Depth(t))
        BY <1>2, <1>3, <1>4, <2>2
      <3>2. FrameAt(s, d)' = FrameAt(s, d)
        BY <1>4, <3>1
      <3> QED
        BY <2>2, <3>1, <3>2 DEF Census, Alone
    <2>3. \A i, j \in 1..Len(tasks) : tasks[i] = tasks[j] => i = j
      BY DEF Census, Alone
    <2> QED
      BY <2>1, <2>2, <2>3 DEF Alone, TaskCount, Carries, IsMain, Works, Handed
  <1>8. ASSUME NEW x, HasCaller(x) PROVE HasCaller(x)'
    <2>1. PICK s, d : s \in Threads /\ d \in 1..Depth(s) /\
            FrameAt(s, d).call = x /\ Dispatches(FrameAt(s, d))
      BY <1>8 DEF HasCaller
    <2>2. d \in 1..Depth(s)' /\ FrameAt(s, d)' = FrameAt(s, d)
      BY <1>1, <1>3, <1>4, <1>6, <2>1
    <2> QED
      BY <2>1, <2>2 DEF HasCaller, Dispatches
  <1>9. Owned'
    <2>1. ASSUME NEW s \in Threads, NEW d \in 1..Depth(s)', NEW x, x = FrameAt(s, d)'.call
          PROVE  /\ ~IsMain(FrameAt(s, d)') => HasCaller(x)'
                 /\ IsMain(FrameAt(s, d)') => outcome'[x] = "none"
      <3>1. d \in 1..Depth(s)
        BY <1>3
      <3>2. CASE s = t /\ d = Depth(t)
        <4>1. outcome[c] = "none"
          BY <1>1, <1>6 DEF Census, Owned
        <4> QED
          BY <1>4, <1>5, <2>1, <3>1, <3>2, <4>1
      <3>3. CASE ~(s = t /\ d = Depth(t))
        <4>1. FrameAt(s, d)' = FrameAt(s, d)
          BY <1>4, <3>1, <3>3
        <4> QED
          BY <1>8, <2>1, <3>1, <4>1 DEF Census, Owned
      <3> QED
        BY <3>2, <3>3
    <2>2. ASSUME NEW i \in 1..Len(tasks), NEW x, x = tasks[i][1] PROVE HasCaller(x)'
      BY <1>8, <2>2 DEF Census, Owned
    <2> QED
      BY <2>1, <2>2 DEF Owned, IsMain, HasCaller
  <1>10. \A x : \A k : Queued(x, k)' <=> Queued(x, k)
    BY DEF Queued
  <1>11. \A x \in Calls \ {c} : Open(x)' = Open(x)
    <2>1. ASSUME NEW x \in Calls \ {c}, NEW k \in 0..(TaskCount(x) - 1)
          PROVE  Carried(x, k)' <=> Carried(x, k)
      <3>1. \A d \in 1..Depth(t)' : d >= Depth(t) => FrameAt(t, d)'.call # x
        BY <1>1, <1>3, <1>4, OthersAlike
      <3> QED
        BY <3>1, CarriedMoved
    <2> QED
      BY <1>10, <2>1 DEF Open, TaskCount
  <1>12. Open(c)' = 0..(TaskCount(c) - 1)
    <2>1. ASSUME NEW k \in 0..(TaskCount(c) - 1)
          PROVE  Carried(c, k)'
      <3>1. k \in Nat
        BY TaskCountBounds
      <3>2. Depth(t) \in 1..Depth(t)' /\ FrameAt(t, Depth(t))' = stack'[t][Depth(t)' + 1 - Depth(t)']
        BY <1>1, <1>3 DEF FrameAt
      <3>3. PICK d : d = Depth(t)
        OBVIOUS
      <3>4. d \in 1..Depth(t)' /\ d >= Depth(t) /\ FrameAt(t, d)' = g
        BY <1>1, <1>3, <1>4, <3>3, OthersAlike
      <3>5. Carries(g, k)
        BY <1>5, <3>1
      <3> QED
        BY <3>4, <3>5, CarriedMoved
    <2> QED
      BY <2>1 DEF Open, TaskCount
  <1>13. Counted'
    <2>1. ASSUME NEW x \in Calls PROVE (remaining[x] = Cardinality(Open(x)))'
      <3>1. CASE x = c
        <4>1. Cardinality(0..(TaskCount(c) - 1)) = TaskCount(c)
          <5>1. TaskCount(c) \in Nat
            BY TaskCountBounds
          <5> QED
            BY <5>1, IntervalCardinality
        <4> QED
          BY <1>12, <3>1, <4>1
      <3>2. CASE x # c
        BY <1>11, <3>2 DEF Census, Counted
      <3> QED
        BY <3>1, <3>2
    <2> QED
      BY <2>1 DEF Counted
  <1> QED
    BY <1>7, <1>9, <1>11, <1>12, <1>13 DEF Census

LEMMA Appended ==
  ASSUME NEW S, NEW s \in Seq(S), NEW e \in S
  PROVE  /\ Append(s, e) \in Seq(S) /\ Len(Append(s, e)) = Len(s) + 1 /\ Len(s) \in Nat
         /\ \A i \in 1..Len(s) + 1 : Append(s, e)[i] = IF i <= Len(s) THEN s[i] ELSE e
  OBVIOUS

LEMMA QueuedTasks ==
  ASSUME NEW x, NEW k
  PROVE  Queued(x, k)' <=> \E i \in 1..Len(tasks') : tasks'[i] = <<x, k>>
  BY DEF Queued

\* enqueue(): a task goes from its caller to the queue.
LEMMA CensusQueued ==
  ASSUME StackType, StackType', Nested, QueueOK, Census, NEW t \in Threads, Busy(t),
         NEW g, Swapped(t, g), Moved(t), NEW c \in Calls, NEW n \in Nat,
         Top(t).call = c, Top(t).mode = "dispatch", Handed(Top(t)) = n,
         g.call = c, g.mode = "dispatch", Handed(g) = n + 1,
         n + 1 < TaskCount(c), Count[c] # 0,
         tasks \in Seq(Calls \X Nat), tasks' = Append(tasks, <<c, n>>),
         outcome' = outcome, remaining' = remaining
  PROVE  /\ QueueOK' /\ tasks' \in Seq(Calls \X Nat)
         /\ Census' /\ \A x \in Calls : Open(x)' = Open(x)
  <1>1. Top(t) = FrameAt(t, Depth(t)) /\ Depth(t) \in 1..Depth(t)
    BY FrameTypes
  <1>2. /\ \A s \in Threads : Depth(s)' = Depth(s)
        /\ \A s \in Threads : \A d \in 1..Depth(s) :
             FrameAt(s, d)' = IF s = t /\ d = Depth(t) THEN g ELSE FrameAt(s, d)
    BY DEF Swapped
  <1>3. /\ \A k : Carries(Top(t), k) <=> k >= n
        /\ \A k : Carries(g, k) <=> k >= n + 1
    BY DEF Carries, Works
  <1>4. /\ tasks' \in Seq(Calls \X Nat) /\ Len(tasks') = Len(tasks) + 1 /\ Len(tasks) \in Nat
        /\ \A i \in 1..Len(tasks) + 1 :
             tasks'[i] = IF i <= Len(tasks) THEN tasks[i] ELSE <<c, n>>
    <2>1. <<c, n>> \in Calls \X Nat
      OBVIOUS
    <2> QED
      BY <2>1, Appended
  <1>5. QueueOK'
    <2>1. ASSUME NEW i \in 1..Len(tasks')
          PROVE  /\ tasks'[i][1] \in Calls /\ tasks'[i][2] \in Nat
                 /\ tasks'[i][2] + 1 < TaskCount(tasks'[i][1]) /\ Count[tasks'[i][1]] # 0
                 /\ tasks'[i] = <<tasks'[i][1], tasks'[i][2]>>
      <3>1. CASE i \in 1..Len(tasks)
        BY <1>4, <3>1 DEF QueueOK
      <3>2. CASE i \notin 1..Len(tasks)
        <4>1. tasks'[i] = <<c, n>>
          BY <1>4, <3>2
        <4> QED
          BY <4>1
      <3> QED
        BY <3>1, <3>2
    <2> QED
      BY <2>1 DEF QueueOK, TaskCount
  <1>6. \A d \in 1..Depth(t)' : d = Depth(t) => Shrinks(FrameAt(t, d), FrameAt(t, d)')
    <2>1. Shrinks(Top(t), g)
      <3>1. \A k \in 0..(TaskCount(c) - 1) : k >= n + 1 => k >= n
        BY TaskCountBounds
      <3> QED
        BY <1>3, <3>1 DEF Shrinks, IsMain, Dispatches
    <2> QED
      BY <1>1, <1>2, <2>1
  <1>7. n \in 0..(TaskCount(c) - 1)
    BY TaskCountBounds
  <1>8. \A i \in 1..Len(tasks) : tasks[i] # <<c, n>>
    <2>1. ASSUME NEW i \in 1..Len(tasks), tasks[i] = <<c, n>>
          PROVE  FALSE
      <3>1. ~Carries(FrameAt(t, Depth(t)), tasks[i][2])
        BY <1>1, <2>1 DEF Census, Alone
      <3> QED
        BY <1>1, <1>3, <2>1, <3>1
    <2> QED
      BY <2>1
  <1>9. Alone'
    <2>1. \A i, j \in 1..Len(tasks') : tasks'[i] = tasks'[j] => i = j
      <3>1. ASSUME NEW i \in 1..Len(tasks'), NEW j \in 1..Len(tasks'), tasks'[i] = tasks'[j]
            PROVE  i = j
        <4>1. i \in 1..Len(tasks) \/ i = Len(tasks) + 1
          BY <1>4
        <4>2. j \in 1..Len(tasks) \/ j = Len(tasks) + 1
          BY <1>4
        <4>3. i \in 1..Len(tasks) => tasks'[i] = tasks[i]
          BY <1>4
        <4>4. j \in 1..Len(tasks) => tasks'[j] = tasks[j]
          BY <1>4
        <4>5. i = Len(tasks) + 1 => tasks'[i] = <<c, n>>
          BY <1>4
        <4>6. j = Len(tasks) + 1 => tasks'[j] = <<c, n>>
          BY <1>4
        <4> QED
          BY <1>8, <3>1, <4>1, <4>2, <4>3, <4>4, <4>5, <4>6 DEF Census, Alone
      <3> QED
        BY <3>1
    <2>2. ASSUME NEW i \in 1..Len(tasks')
          PROVE  \/ \E j \in 1..Len(tasks) : tasks'[i] = tasks[j]
                 \/ \A s \in Threads : \A d \in 1..Depth(s)' :
                      tasks'[i][1] = FrameAt(s, d)'.call => ~Carries(FrameAt(s, d)', tasks'[i][2])
      <3>1. CASE i \in 1..Len(tasks)
        BY <1>4, <3>1
      <3>2. CASE i \notin 1..Len(tasks)
        <4>1. tasks'[i] = <<c, n>>
          BY <1>4, <3>2
        <4>2. ASSUME NEW s \in Threads, NEW d \in 1..Depth(s)', FrameAt(s, d)'.call = c
              PROVE  ~Carries(FrameAt(s, d)', n)
          <5>1. CASE s = t /\ d = Depth(t)
            BY <1>2, <1>3, <5>1
          <5>2. CASE ~(s = t /\ d = Depth(t))
            <6>1. d \in 1..Depth(s) /\ FrameAt(s, d)' = FrameAt(s, d)
              BY <1>2, <5>2
            <6>2. \A k \in 0..(TaskCount(c) - 1) :
                    ~(Carries(FrameAt(s, d), k) /\ Carries(Top(t), k))
              BY <1>1, <4>2, <5>2, <6>1 DEF Census, Alone
            <6>3. Carries(Top(t), n)
              BY <1>3
            <6> QED
              BY <1>7, <6>1, <6>2, <6>3
          <5> QED
            BY <5>1, <5>2
        <4> QED
          BY <4>1, <4>2
      <3> QED
        BY <3>1, <3>2
    <2>3. ~\E d \in 1..Depth(t)' : d = Depth(t) + 1
      BY <1>2, OthersAlike
    <2> QED
      BY <1>5, <1>6, <2>1, <2>2, <2>3, AloneMoved DEF Census
  <1>10. Owned'
    <2>1. HasCaller(c)
      BY <1>1 DEF HasCaller, Dispatches
    <2>2. \A i \in 1..Len(tasks') : HasCaller(tasks'[i][1])
      <3>1. ASSUME NEW i \in 1..Len(tasks') PROVE HasCaller(tasks'[i][1])
        <4>1. CASE i \in 1..Len(tasks)
          BY <1>4, <4>1 DEF Census, Owned
        <4>2. CASE i \notin 1..Len(tasks)
          <5>1. tasks'[i] = <<c, n>>
            BY <1>4, <4>2
          <5> QED
            BY <2>1, <5>1
        <4> QED
          BY <4>1, <4>2
      <3> QED
        BY <3>1
    <2>3. ~\E d \in 1..Depth(t)' : d = Depth(t) + 1
      BY <1>2, OthersAlike
    <2>4. ~\E d \in 1..Depth(t) : d > Depth(t)'
      BY <1>2, OthersAlike
    <2> QED
      BY <1>6, <2>2, <2>3, <2>4, OwnedMoved DEF Census
  <1>11. \A x \in Calls : Open(x)' = Open(x)
    <2>1. ASSUME NEW x \in Calls, NEW k \in 0..(TaskCount(x) - 1)
          PROVE  (Carried(x, k)' \/ Queued(x, k)') <=> (Carried(x, k) \/ Queued(x, k))
      <3>1. Queued(x, k)' <=> Queued(x, k) \/ (x = c /\ k = n)
        <4>1. ASSUME Queued(x, k)' PROVE Queued(x, k) \/ (x = c /\ k = n)
          <5>1. PICK i \in 1..Len(tasks') : tasks'[i] = <<x, k>>
            BY <4>1, QueuedTasks
          <5>2. CASE i \in 1..Len(tasks)
            BY <1>4, <5>1, <5>2 DEF Queued
          <5>3. CASE i \notin 1..Len(tasks)
            <6>1. tasks'[i] = <<c, n>>
              BY <1>4, <5>3
            <6> QED
              BY <5>1, <6>1
          <5> QED
            BY <5>2, <5>3
        <4>2. ASSUME Queued(x, k) PROVE Queued(x, k)'
          <5>1. PICK i \in 1..Len(tasks) : tasks[i] = <<x, k>>
            BY <4>2 DEF Queued
          <5>2. i \in 1..Len(tasks') /\ tasks'[i] = tasks[i]
            BY <1>4
          <5> QED
            BY <5>1, <5>2, QueuedTasks
        <4>3. ASSUME x = c /\ k = n PROVE Queued(x, k)'
          <5>1. Len(tasks) + 1 \in 1..Len(tasks') /\ tasks'[Len(tasks) + 1] = <<c, n>>
            BY <1>4
          <5> QED
            BY <4>3, <5>1, QueuedTasks
        <4> QED
          BY <4>1, <4>2, <4>3
      <3>2. Carried(x, k) <=> CarriedElse(t, x, k) \/ (x = c /\ k >= n)
        BY <1>3, CarriedMoved
      <3>3. (\E d \in 1..Depth(t)' :
               d >= Depth(t) /\ FrameAt(t, d)'.call = x /\ Carries(FrameAt(t, d)', k))
             <=> x = c /\ k >= n + 1
        <4>1. \A d \in 1..Depth(t)' : d >= Depth(t) <=> d = Depth(t)
          BY <1>2, OthersAlike
        <4>2. Depth(t) \in 1..Depth(t)'
          BY <1>1, <1>2
        <4>3. \A d \in 1..Depth(t)' : d = Depth(t) => FrameAt(t, d)' = g
          BY <1>2
        <4> QED
          BY <1>3, <4>1, <4>2, <4>3
      <3>4. Carried(x, k)' <=> CarriedElse(t, x, k) \/ (x = c /\ k >= n + 1)
        BY <3>3, CarriedMoved
      <3>5. x = c => (k >= n <=> k = n \/ k >= n + 1)
        BY TaskCountBounds
      <3> QED
        BY <3>1, <3>2, <3>4, <3>5
    <2> QED
      BY <2>1 DEF Open, TaskCount
  <1>12. Counted'
    BY <1>11 DEF Census, Counted
  <1> QED
    BY <1>4, <1>5, <1>9, <1>10, <1>11, <1>12 DEF Census

\* The frame of a task has that task.
LEMMA TaskFrame ==
  ASSUME NEW g, g.mode = "task"
  PROVE  /\ ~IsMain(g) /\ ~Dispatches(g)
         /\ \A k : Carries(g, k) <=> k = g.task
  BY DEF IsMain, Dispatches, Carries, Works

\* Queueing throws: the caller hands the task to itself.
LEMMA CensusPassed ==
  ASSUME StackType, StackType', Nested, QueueOK, Census, NEW t \in Threads, Busy(t),
         NEW h, NEW g, Pushed(t, h, g), Moved(t), NEW c \in Calls, NEW n \in Nat,
         Top(t).call = c, Top(t).mode = "dispatch", Handed(Top(t)) = n,
         h.call = c, h.mode = "dispatch", Handed(h) = n + 1,
         g.call = c, g.mode = "task", g.task = n, n + 1 < TaskCount(c),
         tasks' = tasks, outcome' = outcome, remaining' = remaining
  PROVE  Census' /\ \A x \in Calls : Open(x)' = Open(x)
  <1>1. Top(t) = FrameAt(t, Depth(t)) /\ Depth(t) \in 1..Depth(t)
    BY FrameTypes
  <1>2. /\ Depth(t)' = Depth(t) + 1 /\ \A s \in Threads : s # t => Depth(s)' = Depth(s)
        /\ \A s \in Threads : \A d \in 1..Depth(s)' :
             FrameAt(s, d)' = IF s = t /\ d = Depth(t) + 1 THEN g
                              ELSE IF s = t /\ d = Depth(t) THEN h ELSE FrameAt(s, d)
    BY DEF Pushed
  <1>3. /\ \A k : Carries(Top(t), k) <=> k >= n
        /\ \A k : Carries(h, k) <=> k >= n + 1
    BY DEF Carries, Works
  <1>4. ~IsMain(g) /\ ~Dispatches(g) /\ \A k : Carries(g, k) <=> k = n
    BY TaskFrame
  <1>5. n \in 0..(TaskCount(c) - 1)
    BY TaskCountBounds
  <1>6. \A d \in 1..Depth(t)' : d = Depth(t) => Shrinks(FrameAt(t, d), FrameAt(t, d)')
    <2>1. Shrinks(Top(t), h)
      <3>1. \A k \in 0..(TaskCount(c) - 1) : k >= n + 1 => k >= n
        BY TaskCountBounds
      <3> QED
        BY <1>3, <3>1 DEF Shrinks, IsMain, Dispatches
    <2> QED
      BY <1>1, <1>2, <2>1, OthersAlike
  <1>a. QueueOK'
    BY DEF QueueOK, TaskCount
  <1>7. Alone'
    <2>1. \A i, j \in 1..Len(tasks') : tasks'[i] = tasks'[j] => i = j
      BY DEF Census, Alone
    <2>2. ASSUME NEW d \in 1..Depth(t)', d = Depth(t) + 1
          PROVE  FrameAt(t, d)' = g
      BY <1>2, <2>2
    <2>3. ASSUME NEW s \in Threads, NEW e \in 1..Depth(s)', FrameAt(s, e)'.call = c,
                 ~(s = t /\ e = Depth(t) + 1), NEW k \in 0..(TaskCount(c) - 1)
          PROVE  ~(Carries(FrameAt(s, e)', k) /\ Carries(g, k))
      <3>1. CASE s = t /\ e = Depth(t)
        <4>1. FrameAt(s, e)' = h
          BY <1>2, <2>3, <3>1
        <4> QED
          BY <1>3, <1>4, <4>1
      <3>2. CASE ~(s = t /\ e = Depth(t))
        <4>1. e \in 1..Depth(s) /\ FrameAt(s, e)' = FrameAt(s, e)
          BY <1>2, <2>3, <3>2, OthersAlike
        <4>2. ~(Carries(FrameAt(s, e), k) /\ Carries(Top(t), k))
          BY <1>1, <2>3, <3>2, <4>1 DEF Census, Alone
        <4> QED
          BY <1>3, <1>4, <4>1, <4>2
      <3> QED
        BY <3>1, <3>2
    <2>4. ASSUME NEW i \in 1..Len(tasks), tasks[i][1] = c
          PROVE  ~Carries(g, tasks[i][2])
      <3>1. ~Carries(Top(t), tasks[i][2])
        BY <1>1, <2>4 DEF Census, Alone
      <3> QED
        BY <1>3, <1>4, <3>1
    <2>5. \A d \in 1..Depth(t)' : d = Depth(t) + 1 =>
           /\ \A s \in Threads : \A e \in 1..Depth(s)' :
                FrameAt(s, e)'.call = FrameAt(t, d)'.call =>
                  \/ s = t /\ e = d
                  \/ /\ ~(IsMain(FrameAt(s, e)') /\ IsMain(FrameAt(t, d)'))
                     /\ \A k \in 0..(TaskCount(FrameAt(s, e)'.call) - 1) :
                          ~(Carries(FrameAt(s, e)', k) /\ Carries(FrameAt(t, d)', k))
           /\ \A i \in 1..Len(tasks') :
                tasks'[i][1] = FrameAt(t, d)'.call => ~Carries(FrameAt(t, d)', tasks'[i][2])
      BY <1>4, <2>2, <2>3, <2>4
    <2> QED
      BY <1>6, <1>a, <2>1, <2>5, AloneMoved DEF Census
  <1>8. Owned'
    <2>1. HasCaller(c)
      BY <1>1 DEF HasCaller, Dispatches
    <2>2. ~\E d \in 1..Depth(t) : d > Depth(t)'
      BY <1>2, OthersAlike
    <2>3. \A d \in 1..Depth(t)' : d = Depth(t) + 1 => FrameAt(t, d)' = g
      BY <1>2
    <2>4. \A i \in 1..Len(tasks') : HasCaller(tasks'[i][1])
      BY DEF Census, Owned
    <2> QED
      BY <1>4, <1>6, <2>1, <2>2, <2>3, <2>4, OwnedMoved DEF Census
  <1>9. \A x \in Calls : Open(x)' = Open(x)
    <2>1. \A x, k : Queued(x, k)' <=> Queued(x, k)
      BY DEF Queued
    <2>2. ASSUME NEW x \in Calls, NEW k \in 0..(TaskCount(x) - 1)
          PROVE  Carried(x, k)' <=> Carried(x, k)
      <3>1. Carried(x, k) <=> CarriedElse(t, x, k) \/ (x = c /\ k >= n)
        BY <1>3, CarriedMoved
      <3>2. (\E d \in 1..Depth(t)' :
               d >= Depth(t) /\ FrameAt(t, d)'.call = x /\ Carries(FrameAt(t, d)', k))
             <=> x = c /\ (k >= n + 1 \/ k = n)
        <4>1. \A d \in 1..Depth(t)' : d >= Depth(t) <=> d = Depth(t) \/ d = Depth(t) + 1
          BY <1>2, OthersAlike
        <4>2. Depth(t) \in 1..Depth(t)' /\ Depth(t) + 1 \in 1..Depth(t)'
          BY <1>1, <1>2, OthersAlike
        <4>3. \A d \in 1..Depth(t)' : /\ d = Depth(t) => FrameAt(t, d)' = h
                                      /\ d = Depth(t) + 1 => FrameAt(t, d)' = g
          BY <1>2, OthersAlike
        <4> QED
          BY <1>3, <1>4, <4>1, <4>2, <4>3
      <3>3. Carried(x, k)' <=> CarriedElse(t, x, k) \/ (x = c /\ (k >= n + 1 \/ k = n))
        BY <3>2, CarriedMoved
      <3>4. x = c => (k >= n <=> k = n \/ k >= n + 1)
        BY TaskCountBounds
      <3> QED
        BY <3>1, <3>3, <3>4
    <2> QED
      BY <2>1, <2>2 DEF Open, TaskCount
  <1>10. Counted'
    BY <1>9 DEF Census, Counted
  <1> QED
    BY <1>7, <1>8, <1>9, <1>10 DEF Census

\* worker_loop: a task goes from the queue to a worker.
LEMMA CensusTaken ==
  ASSUME StackType, StackType', Nested, QueueOK, Census, NEW w \in Threads, ~Busy(w),
         NEW g, Pushed(w, g, g), Moved(w), NEW c \in Calls, NEW n \in Nat,
         tasks \in Seq(Calls \X Nat), tasks # <<>>, Head(tasks) = <<c, n>>,
         g.call = c, g.mode = "task", g.task = n,
         tasks' = Tail(tasks), outcome' = outcome, remaining' = remaining
  PROVE  /\ QueueOK' /\ tasks' \in Seq(Calls \X Nat)
         /\ Census' /\ \A x \in Calls : Open(x)' = Open(x)
  <1>1. Depth(w) = 0
    BY FrameTypes
  <1>2. /\ Depth(w)' = 1 /\ \A s \in Threads : s # w => Depth(s)' = Depth(s)
        /\ \A s \in Threads : \A d \in 1..Depth(s)' :
             /\ s = w => FrameAt(s, d)' = g
             /\ s # w => d \in 1..Depth(s) /\ FrameAt(s, d)' = FrameAt(s, d)
    BY <1>1 DEF Pushed
  <1>3. /\ tasks' \in Seq(Calls \X Nat) /\ Len(tasks') = Len(tasks) - 1
        /\ Len(tasks) \in Nat \ {0} /\ tasks[1] = <<c, n>>
        /\ \A i \in 1..Len(tasks) - 1 : tasks'[i] = tasks[i + 1]
    OBVIOUS
  <1>4. ~IsMain(g) /\ ~Dispatches(g) /\ \A k : Carries(g, k) <=> k = n
    BY TaskFrame
  <1>5. \A i \in 1..Len(tasks') : i + 1 \in 1..Len(tasks) /\ tasks'[i] = tasks[i + 1]
    BY <1>3
  <1>6. 1 \in 1..Len(tasks)
    BY <1>3
  <1>7. QueueOK'
    <2>1. ASSUME NEW i \in 1..Len(tasks')
          PROVE  /\ tasks'[i][1] \in Calls /\ tasks'[i][2] \in Nat
                 /\ tasks'[i][2] + 1 < TaskCount(tasks'[i][1]) /\ Count[tasks'[i][1]] # 0
                 /\ tasks'[i] = <<tasks'[i][1], tasks'[i][2]>>
      BY <1>5 DEF QueueOK
    <2> QED
      BY <2>1 DEF QueueOK, TaskCount
  <1>8. n \in 0..(TaskCount(c) - 1)
    <2>1. n + 1 < TaskCount(c)
      BY <1>3, <1>6 DEF QueueOK
    <2> QED
      BY <2>1, TaskCountBounds
  <1>9. Alone'
    <2>1. \A i, j \in 1..Len(tasks') : tasks'[i] = tasks'[j] => i = j
      BY <1>3, <1>5 DEF Census, Alone
    <2>2. \A i \in 1..Len(tasks') : \E j \in 1..Len(tasks) : tasks'[i] = tasks[j]
      BY <1>5
    <2>3. ASSUME NEW s \in Threads, NEW e \in 1..Depth(s)', FrameAt(s, e)'.call = c,
                 s # w, NEW k \in 0..(TaskCount(c) - 1)
          PROVE  ~(Carries(FrameAt(s, e)', k) /\ Carries(g, k))
      <3>1. e \in 1..Depth(s) /\ FrameAt(s, e)' = FrameAt(s, e)
        BY <1>2, <2>3
      <3>2. ~Carries(FrameAt(s, e), n)
        BY <1>3, <1>6, <2>3, <3>1 DEF Census, Alone
      <3> QED
        BY <1>4, <3>1, <3>2
    <2>4. ASSUME NEW i \in 1..Len(tasks'), tasks'[i][1] = c
          PROVE  ~Carries(g, tasks'[i][2])
      <3>1. tasks[i + 1] # <<c, n>>
        <4>1. PICK j : j = i + 1
          OBVIOUS
        <4>2. j \in 1..Len(tasks) /\ j # 1
          BY <1>5, <4>1
        <4>3. tasks[j] = tasks[1] => j = 1
          BY <1>6, <4>2 DEF Census, Alone
        <4> QED
          BY <1>3, <4>1, <4>2, <4>3
      <3>2. tasks[i + 1] = <<tasks[i + 1][1], tasks[i + 1][2]>>
        BY <1>5 DEF QueueOK
      <3> QED
        BY <1>4, <1>5, <2>4, <3>1, <3>2
    <2>5. \A d \in 1..Depth(w)' : d = Depth(w) + 1 =>
           /\ \A s \in Threads : \A e \in 1..Depth(s)' :
                FrameAt(s, e)'.call = FrameAt(w, d)'.call =>
                  \/ s = w /\ e = d
                  \/ /\ ~(IsMain(FrameAt(s, e)') /\ IsMain(FrameAt(w, d)'))
                     /\ \A k \in 0..(TaskCount(FrameAt(s, e)'.call) - 1) :
                          ~(Carries(FrameAt(s, e)', k) /\ Carries(FrameAt(w, d)', k))
           /\ \A i \in 1..Len(tasks') :
                tasks'[i][1] = FrameAt(w, d)'.call => ~Carries(FrameAt(w, d)', tasks'[i][2])
      <3> SUFFICES ASSUME NEW d \in 1..Depth(w)', d = 1
                   PROVE
           /\ \A s \in Threads : \A e \in 1..Depth(s)' :
                FrameAt(s, e)'.call = FrameAt(w, d)'.call =>
                  \/ s = w /\ e = d
                  \/ /\ ~(IsMain(FrameAt(s, e)') /\ IsMain(FrameAt(w, d)'))
                     /\ \A k \in 0..(TaskCount(FrameAt(s, e)'.call) - 1) :
                          ~(Carries(FrameAt(s, e)', k) /\ Carries(FrameAt(w, d)', k))
           /\ \A i \in 1..Len(tasks') :
                tasks'[i][1] = FrameAt(w, d)'.call => ~Carries(FrameAt(w, d)', tasks'[i][2])
        BY <1>1
      <3>1. FrameAt(w, d)' = g
        BY <1>2
      <3>2. \A e \in 1..Depth(w)' : e = d
        BY <1>2
      <3> QED
        BY <1>4, <2>3, <2>4, <3>1, <3>2
    <2>6. ~\E d \in 1..Depth(w)' : d = Depth(w)
      BY <1>1
    <2> QED
      BY <1>7, <2>1, <2>2, <2>5, <2>6, AloneMoved DEF Census
  <1>10. Owned'
    <2>1. HasCaller(c)
      BY <1>3, <1>6 DEF Census, Owned
    <2>2. ~\E d \in 1..Depth(w) : d > Depth(w)'
      BY <1>1
    <2>3. \A d \in 1..Depth(w)' : d = Depth(w) + 1 => FrameAt(w, d)' = g
      BY <1>2
    <2>4. \A i \in 1..Len(tasks') : HasCaller(tasks'[i][1])
      BY <1>5 DEF Census, Owned
    <2>6. ~\E d \in 1..Depth(w)' : d = Depth(w)
      BY <1>1
    <2> QED
      BY <1>4, <2>1, <2>2, <2>3, <2>4, <2>6, OwnedMoved DEF Census
  <1>11. \A x \in Calls : Open(x)' = Open(x)
    <2>1. ASSUME NEW x \in Calls, NEW k \in 0..(TaskCount(x) - 1)
          PROVE  (Carried(x, k)' \/ Queued(x, k)') <=> (Carried(x, k) \/ Queued(x, k))
      <3>1. Queued(x, k) <=> Queued(x, k)' \/ (x = c /\ k = n)
        <4>1. ASSUME Queued(x, k) PROVE Queued(x, k)' \/ (x = c /\ k = n)
          <5>1. PICK i \in 1..Len(tasks) : tasks[i] = <<x, k>>
            BY <4>1 DEF Queued
          <5>2. CASE i = 1
            BY <1>3, <5>1, <5>2
          <5>3. CASE i # 1
            <6>1. PICK j : j = i - 1
              OBVIOUS
            <6>2. j \in 1..Len(tasks') /\ j + 1 = i
              BY <1>3, <5>3, <6>1
            <6> QED
              BY <1>5, <5>1, <6>2, QueuedTasks
          <5> QED
            BY <5>2, <5>3
        <4>2. Queued(x, k)' => Queued(x, k)
          BY <1>5, QueuedTasks DEF Queued
        <4>3. x = c /\ k = n => Queued(x, k)
          BY <1>3, <1>6 DEF Queued
        <4> QED
          BY <4>1, <4>2, <4>3
      <3>2. Carried(x, k) <=> CarriedElse(w, x, k)
        BY CarriedMoved
      <3>3. (\E d \in 1..Depth(w)' :
               d >= Depth(w) /\ FrameAt(w, d)'.call = x /\ Carries(FrameAt(w, d)', k))
             <=> x = c /\ k = n
        <4>1. 1 \in 1..Depth(w)' /\ \A d \in 1..Depth(w)' : d >= Depth(w)
          BY <1>1, <1>2
        <4> QED
          BY <1>2, <1>4, <4>1
      <3>4. Carried(x, k)' <=> CarriedElse(w, x, k) \/ (x = c /\ k = n)
        BY <3>3, CarriedMoved
      <3> QED
        BY <3>1, <3>2, <3>4
    <2> QED
      BY <2>1 DEF Open, TaskCount
  <1>12. Counted'
    BY <1>11 DEF Census, Counted
  <1> QED
    BY <1>3, <1>7, <1>9, <1>10, <1>11, <1>12 DEF Census

\* A call is entered from a unit: its frame has no task.
LEMMA CensusNested ==
  ASSUME StackType, StackType', Nested, QueueOK, Census, NEW t \in Threads, Busy(t),
         NEW h, NEW g, Pushed(t, h, g), Moved(t), Alike(Top(t), h), NEW c \in Calls,
         g.call = c, g.mode = "inline", outcome[c] = "none",
         \A s \in Threads : \A d \in 1..Depth(s) : FrameAt(s, d).call # c,
         tasks' = tasks, outcome' = outcome, remaining' = remaining
  PROVE  Census' /\ \A x \in Calls : Open(x)' = Open(x)
  <1>1. Top(t) = FrameAt(t, Depth(t)) /\ Depth(t) \in 1..Depth(t)
    BY FrameTypes
  <1>2. /\ Depth(t)' = Depth(t) + 1 /\ \A s \in Threads : s # t => Depth(s)' = Depth(s)
        /\ \A s \in Threads : \A d \in 1..Depth(s)' :
             FrameAt(s, d)' = IF s = t /\ d = Depth(t) + 1 THEN g
                              ELSE IF s = t /\ d = Depth(t) THEN h ELSE FrameAt(s, d)
    BY DEF Pushed
  <1>3. IsMain(g) /\ ~Dispatches(g) /\ \A k : ~Carries(g, k)
    BY DEF IsMain, Dispatches, Carries, Works
  <1>4. h.call # c
    BY <1>1 DEF Alike
  <1>5. ASSUME NEW s \in Threads, NEW e \in 1..Depth(s)', FrameAt(s, e)'.call = c
        PROVE  s = t /\ e = Depth(t) + 1
    <2>1. CASE ~(s = t /\ e = Depth(t) + 1) /\ ~(s = t /\ e = Depth(t))
      <3>1. e \in 1..Depth(s) /\ FrameAt(s, e)' = FrameAt(s, e)
        BY <1>2, <2>1, OthersAlike
      <3> QED
        BY <1>5, <3>1
    <2>2. CASE s = t /\ e = Depth(t)
      <3>1. FrameAt(s, e)' = h
        BY <1>2, <2>2, OthersAlike
      <3> QED
        BY <1>4, <1>5, <3>1
    <2> QED
      BY <2>1, <2>2
  <1>6. \A d \in 1..Depth(t)' : d = Depth(t) => Shrinks(FrameAt(t, d), FrameAt(t, d)')
    <2>1. Shrinks(Top(t), h)
      BY DEF Shrinks, Alike
    <2> QED
      BY <1>1, <1>2, <2>1, OthersAlike
  <1>7. \A d \in 1..Depth(t)' : d = Depth(t) + 1 => FrameAt(t, d)' = g
    BY <1>2
  <1>8. QueueOK'
    BY DEF QueueOK, TaskCount
  <1>9. Alone'
    <2>1. \A i, j \in 1..Len(tasks') : tasks'[i] = tasks'[j] => i = j
      BY DEF Census, Alone
    <2>2. \A d \in 1..Depth(t)' : d = Depth(t) + 1 =>
           /\ \A s \in Threads : \A e \in 1..Depth(s)' :
                FrameAt(s, e)'.call = FrameAt(t, d)'.call =>
                  \/ s = t /\ e = d
                  \/ /\ ~(IsMain(FrameAt(s, e)') /\ IsMain(FrameAt(t, d)'))
                     /\ \A k \in 0..(TaskCount(FrameAt(s, e)'.call) - 1) :
                          ~(Carries(FrameAt(s, e)', k) /\ Carries(FrameAt(t, d)', k))
           /\ \A i \in 1..Len(tasks') :
                tasks'[i][1] = FrameAt(t, d)'.call => ~Carries(FrameAt(t, d)', tasks'[i][2])
      BY <1>3, <1>5, <1>7
    <2> QED
      BY <1>6, <1>8, <2>1, <2>2, AloneMoved DEF Census
  <1>10. Owned'
    <2>1. ~\E d \in 1..Depth(t) : d > Depth(t)'
      BY <1>2, OthersAlike
    <2>2. \A i \in 1..Len(tasks') : HasCaller(tasks'[i][1])
      BY DEF Census, Owned
    <2> QED
      BY <1>3, <1>6, <1>7, <2>1, <2>2, OwnedMoved DEF Census
  <1>11. \A x \in Calls : Open(x)' = Open(x)
    <2>1. \A x, k : Queued(x, k)' <=> Queued(x, k)
      BY DEF Queued
    <2>2. ASSUME NEW x \in Calls, NEW k \in 0..(TaskCount(x) - 1)
          PROVE  Carried(x, k)' <=> Carried(x, k)
      <3>1. (\E d \in 1..Depth(t)' :
               d >= Depth(t) /\ FrameAt(t, d)'.call = x /\ Carries(FrameAt(t, d)', k))
             <=> Top(t).call = x /\ Carries(Top(t), k)
        <4>1. \A d \in 1..Depth(t)' : d >= Depth(t) <=> d = Depth(t) \/ d = Depth(t) + 1
          BY <1>2, OthersAlike
        <4>2. Depth(t) \in 1..Depth(t)'
          BY <1>1, <1>2, OthersAlike
        <4>3. \A d \in 1..Depth(t)' : d = Depth(t) => FrameAt(t, d)' = h
          BY <1>2, OthersAlike
        <4>4. h.call = x /\ Carries(h, k) <=> Top(t).call = x /\ Carries(Top(t), k)
          BY DEF Alike
        <4> QED
          BY <1>3, <1>7, <4>1, <4>2, <4>3, <4>4
      <3> QED
        BY <3>1, CarriedMoved
    <2> QED
      BY <2>1, <2>2 DEF Open, TaskCount
  <1>12. Counted'
    BY <1>11 DEF Census, Counted
  <1> QED
    BY <1>9, <1>10, <1>11, <1>12 DEF Census

\* TaskGroup::finish: the task is no longer open.
LEMMA CensusFinished ==
  ASSUME StackType, StackType', Nested, QueueOK, Census, NEW t \in Threads, Busy(t),
         Moved(t), NEW c \in Calls, NEW n \in 0..(TaskCount(c) - 1),
         Top(t).call = c, Works(Top(t)), Top(t).task = n, Top(t).mode \in {"own", "task"},
         Depth(t)' <= Depth(t),
         \A d \in 1..Depth(t)' : d = Depth(t) =>
           /\ FrameAt(t, d)'.call = c /\ FrameAt(t, d)'.mode = Top(t).mode
           /\ \A k : ~Carries(FrameAt(t, d)', k),
         Depth(t)' < Depth(t) => Top(t).mode = "task",
         remaining \in [Calls -> Nat], remaining' = [remaining EXCEPT ![c] = @ - 1],
         tasks' = tasks, outcome' = outcome
  PROVE  /\ Census' /\ \A x \in Calls \ {c} : Open(x)' = Open(x)
         /\ n \in Open(c) /\ Open(c)' = Open(c) \ {n}
  <1>1. Top(t) = FrameAt(t, Depth(t)) /\ Depth(t) \in 1..Depth(t)
    BY FrameTypes
  <1>2. \A k : Carries(Top(t), k) <=> k = n
    BY DEF Carries, Works
  <1>3. \A d \in 1..Depth(t)' : d = Depth(t) => Shrinks(FrameAt(t, d), FrameAt(t, d)')
    BY <1>1, OthersAlike DEF Shrinks, IsMain, Dispatches
  <1>4. ~\E d \in 1..Depth(t)' : d = Depth(t) + 1
    BY OthersAlike
  <1>5. QueueOK'
    BY DEF QueueOK, TaskCount
  <1>6. Alone'
    <2>1. \A i, j \in 1..Len(tasks') : tasks'[i] = tasks'[j] => i = j
      BY DEF Census, Alone
    <2> QED
      BY <1>3, <1>4, <1>5, <2>1, AloneMoved DEF Census
  <1>7. Owned'
    <2>1. \A d \in 1..Depth(t) : d > Depth(t)' => ~Dispatches(FrameAt(t, d))
      <3>1. \A d \in 1..Depth(t) : d > Depth(t)' => d = Depth(t) /\ Depth(t)' < Depth(t)
        BY OthersAlike
      <3> QED
        BY <1>1, <3>1 DEF Dispatches
    <2>2. \A i \in 1..Len(tasks') : HasCaller(tasks'[i][1])
      BY DEF Census, Owned
    <2> QED
      BY <1>3, <1>4, <2>1, <2>2, OwnedMoved DEF Census
  <1>8. ASSUME NEW x \in Calls, NEW k \in 0..(TaskCount(x) - 1)
        PROVE  /\ Carried(x, k)' <=> CarriedElse(t, x, k)
               /\ Carried(x, k) <=> CarriedElse(t, x, k) \/ (x = c /\ k = n)
    <2>1. ~\E d \in 1..Depth(t)' :
             d >= Depth(t) /\ FrameAt(t, d)'.call = x /\ Carries(FrameAt(t, d)', k)
      <3>1. \A d \in 1..Depth(t)' : d >= Depth(t) => d = Depth(t)
        BY OthersAlike
      <3> QED
        BY <3>1
    <2> QED
      BY <1>2, <2>1, CarriedMoved
  <1>9. ~CarriedElse(t, c, n) /\ ~Queued(c, n)
    <2>1. Carries(Top(t), n)
      BY <1>2
    <2>2. ASSUME NEW s \in Threads, NEW d \in 1..Depth(s), s = t => d < Depth(t),
                 FrameAt(s, d).call = c, Carries(FrameAt(s, d), n)
          PROVE  FALSE
      <3>1. ~(s = t /\ d = Depth(t))
        BY <2>2, OthersAlike
      <3> QED
        BY <1>1, <2>1, <2>2, <3>1 DEF Census, Alone
    <2>3. ASSUME NEW i \in 1..Len(tasks), tasks[i] = <<c, n>>
          PROVE  FALSE
      BY SMTT(60), <1>1, <2>1, <2>3 DEF Census, Alone
    <2> QED
      BY <2>2, <2>3 DEF CarriedElse, Queued
  <1>10. \A x, k : Queued(x, k)' <=> Queued(x, k)
    BY DEF Queued
  <1>11. \A x \in Calls \ {c} : Open(x)' = Open(x)
    BY <1>8, <1>10 DEF Open, TaskCount
  <1>12. n \in Open(c) /\ Open(c)' = Open(c) \ {n}
    BY <1>8, <1>9, <1>10 DEF Open, TaskCount
  <1>13. Counted'
    <2>1. ASSUME NEW x \in Calls PROVE (remaining[x] = Cardinality(Open(x)))'
      <3>1. CASE x = c
        <4>1. Cardinality(Open(c) \ {n}) = Cardinality(Open(c)) - 1
          BY <1>12, OpenIsFinite, FS_RemoveElement
        <4> QED
          BY <1>12, <3>1, <4>1 DEF Census, Counted
      <3>2. CASE x # c
        BY <1>11, <3>2 DEF Census, Counted
      <3> QED
        BY <3>1, <3>2
    <2> QED
      BY <2>1 DEF Counted
  <1> QED
    BY <1>6, <1>7, <1>11, <1>12, <1>13 DEF Census

-----------------------------------------------------------------------------
(***************************************************************************)
(* The units of a call.                                                    *)
(***************************************************************************)

\* What was begun, ended, claimed and thrown is kept.
Kept(c) ==
    /\ begun'[c] = begun[c] /\ next'[c] = next[c] /\ ended[c] \subseteq ended'[c]
    /\ exception[c] => exception'[c]

LEMMA FramesKnowIf ==
  ASSUME \A s \in Threads : \A d \in 1..Depth(s)' : \A g :
           g = FrameAt(s, d)' => StepUnits(g)' /\ CallerUnits(g)'
  PROVE  FramesKnow'
  <1>1. ASSUME NEW s \in Threads, NEW d \in 1..Depth(s)'
        PROVE  StepUnits(FrameAt(s, d))' /\ CallerUnits(FrameAt(s, d))'
    <2>1. PICK g : g = FrameAt(s, d)'
      OBVIOUS
    <2>2. StepUnits(g)' /\ CallerUnits(g)'
      BY <2>1
    <2>3. StepUnits(FrameAt(s, d))'
      BY <2>1, <2>2 DEF StepUnits, HasUnit, Handed, Units
    <2>4. CallerUnits(FrameAt(s, d))'
      <3>1. PICK x : x = g.call
        OBVIOUS
      <3>2. Dispatches(g) =>
              IF x \in Dynamic
              THEN /\ \A u \in 0..(Units(x) - 1) :
                        IF u >= next'[x] THEN begun'[x][u] = 0 ELSE Settled(x, u)'
                   /\ Open(x)' # 0..(TaskCount(x) - 1) => exception'[x] \/ next'[x] >= Count[x]
              ELSE \A u \in 0..(Units(x) - 1) :
                     u \in Open(x)' \/ u \in ended'[x] \/ exception'[x]
        BY <2>2, <3>1 DEF CallerUnits, Dispatches, Units, TaskCount
      <3>3. FrameAt(s, d)'.call = x /\ (Dispatches(g) <=> Dispatches(FrameAt(s, d)'))
        BY <2>1, <3>1
      <3> QED
        BY <3>2, <3>3 DEF CallerUnits, Dispatches, Units, TaskCount
    <2> QED
      BY <2>3, <2>4
  <1> QED
    BY <1>1 DEF FramesKnow, FrameUnits

LEMMA SettledIs ==
  ASSUME NEW x, NEW u
  PROVE  Settled(x, u)' <=>
           \/ u \in ended'[x] \/ exception'[x]
           \/ \E s \in Threads : \E d \in 1..Depth(s)' :
                FrameAt(s, d)'.call = x /\ \/ HasUnit(FrameAt(s, d)') /\ FrameAt(s, d)'.unit = u
                                           \/ Failing(FrameAt(s, d)')
  BY DEF Settled, HasUnit, Failing

LEMMA StepUnitsKept ==
  ASSUME NEW f, FrameOK(f), NEW g, Tame(f, g), Kept(f.call), StepUnits(f)
  PROVE  StepUnits(g)'
  <1>1. /\ g.mode = f.mode /\ g.task = f.task /\ g.unit = f.unit /\ g.failed = f.failed
        /\ g.call = f.call /\ (HasUnit(g) <=> HasUnit(f))
        /\ g.pc # f.pc => \/ f.pc = "asleep" /\ g.pc = "join"
                          \/ f.pc = "nested" /\ g.pc \in {"ran", "threw"}
    BY TameIsAlike
  <1>2. f.mode = "dispatch" => Handed(g) = Handed(f)
    BY <1>1 DEF FrameOK, Handed
  <1> QED
    BY <1>1, <1>2 DEF StepUnits, Kept, HasUnit, Handed, Units

\* A claimed unit stays settled when the frame on top settles what it leaves.
LEMMA SettledKept ==
  ASSUME StackType, StackType', Nested, NEW t \in Threads, Moved(t), NEW x,
         ended[x] \subseteq ended'[x], exception[x] => exception'[x],
         NEW u,
         Busy(t) /\ Top(t).call = x /\ (\/ HasUnit(Top(t)) /\ Top(t).unit = u
                                        \/ Failing(Top(t)))
           => \/ u \in ended'[x] \/ exception'[x]
              \/ \E d \in 1..Depth(t)' : FrameAt(t, d)'.call = x /\
                   (\/ HasUnit(FrameAt(t, d)') /\ FrameAt(t, d)'.unit = u
                    \/ Failing(FrameAt(t, d)')),
         Settled(x, u)
  PROVE  Settled(x, u)'
  <1>1. CASE u \in ended[x] \/ exception[x]
    BY <1>1, SettledIs
  <1>2. CASE ~(u \in ended[x] \/ exception[x])
    <2>1. PICK s, d : s \in Threads /\ d \in 1..Depth(s) /\ FrameAt(s, d).call = x /\
            (\/ HasUnit(FrameAt(s, d)) /\ FrameAt(s, d).unit = u
             \/ Failing(FrameAt(s, d)))
      BY <1>2 DEF Settled
    <2>2. CASE s = t => d < Depth(t)
      <3>1. d \in 1..Depth(s)' /\ Tame(FrameAt(s, d), FrameAt(s, d)') /\ FrameOK(FrameAt(s, d))
        BY <2>1, <2>2, OthersAlike
      <3>2. PICK g : g = FrameAt(s, d)'
        OBVIOUS
      <3>3. /\ g.unit = FrameAt(s, d).unit /\ g.failed = FrameAt(s, d).failed
            /\ g.call = FrameAt(s, d).call /\ (HasUnit(g) <=> HasUnit(FrameAt(s, d)))
            /\ Failing(FrameAt(s, d)) => Failing(g)
        <4>1. Tame(FrameAt(s, d), g)
          BY <3>1, <3>2
        <4> QED
          BY <3>1, <4>1, TameIsAlike DEF Failing
      <3> QED
        BY <2>1, <3>1, <3>2, <3>3, SettledIs
    <2>3. CASE ~(s = t => d < Depth(t))
      <3>1. d = Depth(t) /\ Depth(t) > 0
        BY <2>1, <2>3, OthersAlike
      <3>2. Busy(t) /\ Top(t) = FrameAt(t, d)
        BY <3>1, FrameTypes
      <3> QED
        BY <2>1, <2>3, <3>2, SettledIs
    <2> QED
      BY <2>2, <2>3
  <1> QED
    BY <1>1, <1>2

LEMMA CallerUnitsKept ==
  ASSUME NEW f, NEW g, g.call = f.call, Dispatches(g) <=> Dispatches(f),
         Kept(f.call), CallerUnits(f),
         Open(f.call)' = Open(f.call),
         \A u : Settled(f.call, u) => Settled(f.call, u)'
  PROVE  CallerUnits(g)'
  <1>1. PICK x : x = f.call
    OBVIOUS
  <1>2. Dispatches(f) =>
          IF x \in Dynamic
          THEN /\ \A u \in 0..(Units(x) - 1) :
                    IF u >= next'[x] THEN begun'[x][u] = 0 ELSE Settled(x, u)'
               /\ Open(x)' # 0..(TaskCount(x) - 1) => exception'[x] \/ next'[x] >= Count[x]
          ELSE \A u \in 0..(Units(x) - 1) : u \in Open(x)' \/ u \in ended'[x] \/ exception'[x]
    BY <1>1 DEF CallerUnits, Kept
  <1> QED
    BY <1>1, <1>2 DEF CallerUnits, Dispatches, Units, TaskCount

LEMMA FramesKnowMoved ==
  ASSUME StackType, StackType', Nested, NEW t \in Threads, Moved(t), FramesKnow,
         NEW c, Busy(t) => Top(t).call = c,
         \A x \in Calls : x # c => Kept(x) /\ Open(x)' = Open(x),
         \/ Kept(c) /\ Open(c)' = Open(c) /\ \A u : Settled(c, u) => Settled(c, u)'
         \/ \A s \in Threads : \A d \in 1..Depth(s)' : \A g :
              (s = t => d < Depth(t)) /\ FrameAt(s, d).call = c /\ g = FrameAt(s, d)'
                => StepUnits(g)' /\ CallerUnits(g)',
         \A d \in 1..Depth(t)' : \A g :
           d >= Depth(t) /\ g = FrameAt(t, d)' => StepUnits(g)' /\ CallerUnits(g)'
  PROVE  FramesKnow'
  <1>1. ASSUME NEW s \in Threads, NEW d \in 1..Depth(s)', NEW g, g = FrameAt(s, d)'
        PROVE  StepUnits(g)' /\ CallerUnits(g)'
    <2>1. CASE s = t /\ ~(d < Depth(t))
      <3>1. d >= Depth(t)
        BY <2>1, OthersAlike
      <3> QED
        BY <1>1, <2>1, <3>1
    <2>2. CASE s = t => d < Depth(t)
      <3>1. /\ d \in 1..Depth(s) /\ Tame(FrameAt(s, d), FrameAt(s, d)') /\ FrameOK(FrameAt(s, d))
        BY <2>2, OthersAlike
      <3>2. PICK f, x : f = FrameAt(s, d) /\ x = f.call
        OBVIOUS
      <3>3. FrameOK(f) /\ Tame(f, g) /\ x \in Calls /\ StepUnits(f) /\ CallerUnits(f)
        BY <1>1, <3>1, <3>2 DEF FramesKnow, FrameUnits, FrameOK, FrameType
      <3>4. ASSUME Kept(x), Open(x)' = Open(x), \A u : Settled(x, u) => Settled(x, u)'
            PROVE  StepUnits(g)' /\ CallerUnits(g)'
        <4>1. StepUnits(g)'
          BY <3>2, <3>3, <3>4, StepUnitsKept
        <4>2. CallerUnits(g)'
          BY <3>2, <3>3, <3>4, TameIsAlike, CallerUnitsKept DEF Alike
        <4> QED
          BY <4>1, <4>2
      <3>5. CASE x # c
        <4>1. Kept(x) /\ Open(x)' = Open(x)
          BY <3>3, <3>5
        <4>2. ASSUME NEW u, Settled(x, u) PROVE Settled(x, u)'
          <5>1. ~(Busy(t) /\ Top(t).call = x)
            BY <3>5
          <5>2. ended[x] \subseteq ended'[x] /\ (exception[x] => exception'[x])
            BY <4>1 DEF Kept
          <5> QED
            BY <4>2, <5>1, <5>2, SettledKept
        <4> QED
          BY <3>4, <4>1, <4>2
      <3>6. CASE x = c
        BY <1>1, <2>2, <3>1, <3>2, <3>4, <3>6
      <3> QED
        BY <3>5, <3>6
    <2> QED
      BY <2>1, <2>2
  <1> QED
    BY <1>1, FramesKnowIf

LEMMA UnitsApartMoved ==
  ASSUME StackType, StackType', Nested, NEW t \in Threads, Moved(t), UnitsApart,
         \A d \in 1..Depth(t)' : d = Depth(t) /\ HasUnit(FrameAt(t, d)') =>
           \/ /\ HasUnit(Top(t)) /\ Top(t).call = FrameAt(t, d)'.call
              /\ Top(t).unit = FrameAt(t, d)'.unit
           \/ \A s \in Threads : \A e \in 1..Depth(s) :
                ~ /\ s = t => e < Depth(t)
                  /\ FrameAt(s, e).call = FrameAt(t, d)'.call
                  /\ HasUnit(FrameAt(s, e)) /\ FrameAt(s, e).unit = FrameAt(t, d)'.unit,
         \A d \in 1..Depth(t)' : d = Depth(t) + 1 => ~HasUnit(FrameAt(t, d)')
  PROVE  UnitsApart'
  <1>1. ASSUME NEW s \in Threads, NEW d \in 1..Depth(s)', s = t => d < Depth(t)
        PROVE  /\ d \in 1..Depth(s) /\ FrameAt(s, d)'.call = FrameAt(s, d).call
               /\ HasUnit(FrameAt(s, d)') <=> HasUnit(FrameAt(s, d))
               /\ FrameAt(s, d)'.unit = FrameAt(s, d).unit
    <2>1. d \in 1..Depth(s) /\ Tame(FrameAt(s, d), FrameAt(s, d)') /\ FrameOK(FrameAt(s, d))
      BY <1>1, OthersAlike
    <2>2. PICK g : g = FrameAt(s, d)'
      OBVIOUS
    <2>3. Tame(FrameAt(s, d), g)
      BY <2>1, <2>2
    <2>4. /\ g.call = FrameAt(s, d).call /\ (HasUnit(g) <=> HasUnit(FrameAt(s, d)))
          /\ g.unit = FrameAt(s, d).unit
      BY <2>1, <2>3, TameIsAlike
    <2> QED
      BY <2>1, <2>2, <2>4
  <1>2. Depth(t) \in Nat /\ Depth(t)' \in Nat /\ Depth(t)' <= Depth(t) + 1
    BY OthersAlike
  <1>3. ASSUME NEW s \in Threads, NEW e \in 1..Depth(s)', s = t => e < Depth(t),
               NEW d \in 1..Depth(t)', d = Depth(t),
               HasUnit(FrameAt(t, d)'), HasUnit(FrameAt(s, e)'),
               FrameAt(s, e)'.call = FrameAt(t, d)'.call,
               FrameAt(s, e)'.unit = FrameAt(t, d)'.unit
        PROVE  FALSE
    <2>1. /\ e \in 1..Depth(s) /\ FrameAt(s, e)'.call = FrameAt(s, e).call
          /\ HasUnit(FrameAt(s, e)) /\ FrameAt(s, e)'.unit = FrameAt(s, e).unit
      BY <1>1, <1>3
    <2>2. /\ HasUnit(Top(t)) /\ Top(t).call = FrameAt(t, d)'.call
          /\ Top(t).unit = FrameAt(t, d)'.unit
      BY <1>3, <2>1
    <2>3. d \in 1..Depth(t) /\ Top(t) = FrameAt(t, d)
      <3>1. Depth(t) > 0
        BY <1>2, <1>3
      <3> QED
        BY <1>3, <3>1, FrameTypes
    <2>4. s = t /\ e = d
      BY <1>3, <2>1, <2>2, <2>3 DEF UnitsApart
    <2> QED
      BY <1>2, <1>3, <2>4
  <1>4. ASSUME NEW t1 \in Threads, NEW t2 \in Threads,
               NEW d1 \in 1..Depth(t1)', NEW d2 \in 1..Depth(t2)',
               FrameAt(t1, d1)'.call = FrameAt(t2, d2)'.call,
               HasUnit(FrameAt(t1, d1)'), HasUnit(FrameAt(t2, d2)'),
               FrameAt(t1, d1)'.unit = FrameAt(t2, d2)'.unit
        PROVE  t1 = t2 /\ d1 = d2
    <2>1. ~(t1 = t /\ d1 = Depth(t) + 1) /\ ~(t2 = t /\ d2 = Depth(t) + 1)
      BY <1>4
    <2>2. /\ (t1 = t => d1 < Depth(t)) \/ (t1 = t /\ d1 = Depth(t))
          /\ (t2 = t => d2 < Depth(t)) \/ (t2 = t /\ d2 = Depth(t))
      BY <1>2, <2>1
    <2>3. CASE (t1 = t => d1 < Depth(t)) /\ (t2 = t => d2 < Depth(t))
      <3>1. /\ d1 \in 1..Depth(t1) /\ FrameAt(t1, d1)'.call = FrameAt(t1, d1).call
            /\ HasUnit(FrameAt(t1, d1)) /\ FrameAt(t1, d1)'.unit = FrameAt(t1, d1).unit
        BY <1>1, <1>4, <2>3
      <3>2. /\ d2 \in 1..Depth(t2) /\ FrameAt(t2, d2)'.call = FrameAt(t2, d2).call
            /\ HasUnit(FrameAt(t2, d2)) /\ FrameAt(t2, d2)'.unit = FrameAt(t2, d2).unit
        BY <1>1, <1>4, <2>3
      <3> QED
        BY <1>4, <3>1, <3>2 DEF UnitsApart
    <2>4. CASE (t1 = t => d1 < Depth(t)) /\ (t2 = t /\ d2 = Depth(t))
      BY <1>3, <1>4, <2>4
    <2>5. CASE (t1 = t /\ d1 = Depth(t)) /\ (t2 = t => d2 < Depth(t))
      BY <1>3, <1>4, <2>5
    <2>6. CASE (t1 = t /\ d1 = Depth(t)) /\ (t2 = t /\ d2 = Depth(t))
      BY <2>6
    <2> QED
      BY <2>2, <2>3, <2>4, <2>5, <2>6
  <1> QED
    BY <1>4 DEF UnitsApart, HasUnit

LEMMA EnteredMoved ==
  ASSUME StackType, StackType', Nested, QueueOK, Alone, Owned, Entered,
         NEW t \in Threads, Moved(t), NEW c,
         \/ Busy(t) /\ Top(t).call = c
         \/ /\ begun' = begun /\ ended' = ended /\ exception' = exception /\ outcome' = outcome
            /\ \E s \in Threads : \E d \in 1..Depth(s) : FrameAt(s, d).call = c,
         \A x \in Calls : x # c =>
           /\ begun'[x] = begun[x] /\ ended'[x] = ended[x]
           /\ exception'[x] = exception[x] /\ outcome'[x] = outcome[x],
         \A x \in Calls : Units(x) > 0 /\ begun'[x][0] = 0 => begun[x][0] = 0,
         \A d \in 1..Depth(t)' : \A g : d >= Depth(t) /\ g = FrameAt(t, d)' =>
           /\ g.call = c \/ ~Fresh(g.call)'
           /\ g.pc = "enter" => Unstarted(g.call)'
  PROVE  Entered'
  <1>1. ASSUME NEW x \in Calls, Fresh(x)' PROVE Fresh(x)
    BY <1>1 DEF Fresh, Units, TaskCount
  <1>2. ASSUME NEW x \in Calls, Unstarted(x),
               x # c \/ (begun' = begun /\ ended' = ended /\ exception' = exception
                         /\ outcome' = outcome)
        PROVE  Unstarted(x)'
    BY <1>2 DEF Unstarted, Units, TaskCount
  <1>3. \E s \in Threads : \E d \in 1..Depth(s) : FrameAt(s, d).call = c
    BY FrameTypes
  <1>4. ASSUME NEW x \in Calls, Fresh(x)'
        PROVE  /\ Unstarted(x)' /\ x # c
               /\ \A s \in Threads : \A d \in 1..Depth(s)' : FrameAt(s, d)'.call # x
    <2>1. Fresh(x)
      BY <1>1, <1>4
    <2>2. Unstarted(x) /\ \A s \in Threads : \A d \in 1..Depth(s) : FrameAt(s, d).call # x
      BY <2>1 DEF Entered
    <2>3. x # c
      BY <1>3, <2>2
    <2>4. ASSUME NEW s \in Threads, NEW d \in 1..Depth(s)'
          PROVE  FrameAt(s, d)'.call # x
      <3>1. CASE s = t => d < Depth(t)
        <4>1. d \in 1..Depth(s) /\ FrameAt(s, d)'.call = FrameAt(s, d).call
          BY <3>1, OthersAlike DEF Alike
        <4> QED
          BY <2>2, <4>1
      <3>2. CASE s = t /\ ~(d < Depth(t))
        <4>1. d >= Depth(t)
          BY <3>2, OthersAlike
        <4>2. PICK g : g = FrameAt(t, d)'
          OBVIOUS
        <4>3. g.call = c \/ ~Fresh(g.call)'
          BY <3>2, <4>1, <4>2
        <4>4. PICK y : y = g.call
          OBVIOUS
        <4>5. y = c \/ ~Fresh(y)'
          BY <4>3, <4>4
        <4>6. y # x
          BY <1>4, <2>3, <4>5
        <4> QED
          BY <3>2, <4>2, <4>4, <4>6
      <3> QED
        BY <3>1, <3>2
    <2> QED
      BY <1>2, <2>2, <2>3, <2>4
  <1>5. ASSUME NEW s \in Threads, NEW d \in 1..Depth(s)', FrameAt(s, d)'.pc = "enter",
               NEW x, x = FrameAt(s, d)'.call
        PROVE  Unstarted(x)'
    <2>1. CASE s = t => d < Depth(t)
      <3>1. /\ d \in 1..Depth(s) /\ Tame(FrameAt(s, d), FrameAt(s, d)')
            /\ FrameOK(FrameAt(s, d))
        BY <2>1, OthersAlike
      <3>2. PICK g : g = FrameAt(s, d)'
        OBVIOUS
      <3>3. Tame(FrameAt(s, d), g)
        BY <3>1, <3>2
      <3>4. g.call = FrameAt(s, d).call /\ FrameAt(s, d).pc = "enter"
        BY <1>5, <3>1, <3>2, <3>3, TameIsAlike
      <3>5. x = FrameAt(s, d).call /\ FrameAt(s, d).mode = "inline" /\ x \in Calls
        BY <1>5, <3>1, <3>2, <3>4 DEF FrameOK, FrameType
      <3>6. Unstarted(x)
        BY <3>1, <3>4, <3>5 DEF Entered
      <3>7. ASSUME Busy(t), Top(t).call = c PROVE x # c
        <4>1. Depth(t) \in 1..Depth(t) /\ Top(t) = FrameAt(t, Depth(t))
          BY <3>7, FrameTypes
        <4>2. ASSUME x = c PROVE FALSE
          <5>0. PICK e \in 1..Depth(t) : e = Depth(t)
            BY <4>1
          <5>a. FrameAt(t, e).call = x
            BY <3>7, <4>1, <4>2, <5>0
          <5>b. \A z \in Threads : \A e2 \in 1..Depth(z) :
                  FrameAt(z, e2).call = x => z = s /\ e2 = d
            BY <3>1, <3>5, InlineAlone
          <5>1. t = s /\ Depth(t) = d
            BY <5>0, <5>a, <5>b
          <5> QED
            BY <2>1, <5>1, OthersAlike
        <4> QED
          BY <4>2
      <3> QED
        BY <1>2, <3>5, <3>6, <3>7
    <2>2. CASE s = t /\ ~(d < Depth(t))
      <3>1. d >= Depth(t)
        BY <2>2, OthersAlike
      <3>2. PICK g : g = FrameAt(t, d)'
        OBVIOUS
      <3>3. g.pc = "enter" => Unstarted(g.call)'
        BY <2>2, <3>1, <3>2
      <3>4. x = g.call /\ g.pc = "enter"
        BY <1>5, <2>2, <3>2
      <3> QED
        BY <3>3, <3>4
    <2> QED
      BY <2>1, <2>2
  <1>6. \A x \in Calls : Fresh(x)' => Unstarted(x)' /\ \A s \in Threads : \A d \in 1..Depth(s)' :
                                        FrameAt(s, d)'.call # x
    BY <1>4
  <1>7. ASSUME NEW s \in Threads, NEW d \in 1..Depth(s)', FrameAt(s, d)'.pc = "enter"
        PROVE  Unstarted(FrameAt(s, d).call)'
    <2>1. PICK x : x = FrameAt(s, d)'.call
      OBVIOUS
    <2>2. Unstarted(x)'
      BY <1>5, <1>7, <2>1
    <2> QED
      BY <2>1, <2>2 DEF Unstarted, Units
  <1> QED
    BY <1>6, <1>7 DEF Entered

-----------------------------------------------------------------------------
(***************************************************************************)
(* Every step preserves the invariant.                                     *)
(***************************************************************************)
RestType ==
    /\ tasks \in Seq(Calls \X Nat)
    /\ sleepers \subseteq Workers /\ exited \subseteq Workers /\ stop \in BOOLEAN
    /\ next \in [Calls -> Nat] /\ remaining \in [Calls -> Nat]
    /\ exception \in [Calls -> BOOLEAN]
    /\ \A c \in Calls : begun[c] \in [0..(Units(c) - 1) -> Nat]
    /\ \A c \in Calls : ended[c] \subseteq 0..(Units(c) - 1)
    /\ outcome \in [Calls -> {"none", "value", "exception"}]

LEMMA TypesSplit ==
  /\ TypeOK <=> StackType /\ RestType
  /\ TypeOK' <=> StackType' /\ RestType'
  BY DEF TypeOK, StackType, RestType, FrameType, Units, TaskCount

\* The frame on top takes a step, with the same tasks.
LEMMA SwapFrames ==
  ASSUME PoolInvariant, NEW t \in Threads, Busy(t), NEW g, FrameOK(g), Replace(t, g),
         g.pc # "nested", Alike(Top(t), g),
         tasks' = tasks, remaining' = remaining, outcome' = outcome
  PROVE  /\ StackType' /\ Swapped(t, g) /\ Nested' /\ Moved(t) /\ QueueOK'
         /\ Census' /\ \A x \in Calls : Open(x)' = Open(x)
         /\ Depth(t) \in 1..Depth(t)' /\ Depth(t) \in Nat
         /\ \A d \in 1..Depth(t)' : d >= Depth(t) => d = Depth(t) /\ FrameAt(t, d)' = g
  <1>1. StackType /\ Nested /\ QueueOK /\ Census
    BY TypesSplit DEF PoolInvariant, Census
  <1>2. g \in FrameType
    BY DEF FrameOK
  <1>3. StackType' /\ Swapped(t, g)
    BY <1>1, <1>2, ReplaceSwaps
  <1>4. Nested' /\ Moved(t)
    BY <1>1, <1>3, SwapMoves DEF Alike
  <1>5. Top(t) = FrameAt(t, Depth(t)) /\ Depth(t) \in 1..Depth(t) /\ Depth(t) \in Nat
    BY <1>1, FrameTypes
  <1>6. Depth(t)' = Depth(t)
    BY <1>3 DEF Swapped
  <1>7. \A d \in 1..Depth(t)' : d >= Depth(t) => d = Depth(t) /\ FrameAt(t, d)' = g
    BY <1>3, <1>5, <1>6 DEF Swapped
  <1>8. QueueOK'
    BY <1>1 DEF QueueOK, TaskCount
  <1>9. \A d \in 1..Depth(t)' :
          d >= Depth(t) => d = Depth(t) /\ Alike(FrameAt(t, d), FrameAt(t, d)')
    BY <1>5, <1>7
  <1>10. ~\E d \in 1..Depth(t) : d > Depth(t)'
    BY <1>5, <1>6
  <1>11. Census' /\ \A x \in Calls : Open(x)' = Open(x)
    BY <1>1, <1>3, <1>4, <1>9, <1>10, CensusKept
  <1> QED
    BY <1>3, <1>4, <1>5, <1>6, <1>7, <1>8, <1>11

LEMMA SwapQuiet ==
  ASSUME PoolInvariant, NEW t \in Threads, Busy(t), NEW g, FrameOK(g), Replace(t, g),
         g.pc \notin {"nested", "enter"}, Alike(Top(t), g),
         tasks' = tasks, remaining' = remaining, outcome' = outcome,
         begun' = begun, next' = next, exception' = exception, RestType',
         NEW c, c = Top(t).call,
         \A x \in Calls : x # c => ended'[x] = ended[x],
         ended[c] \subseteq ended'[c], ended' = [x \in Calls |-> ended'[x]],
         HasUnit(g) =>
           \/ HasUnit(Top(t)) /\ Top(t).unit = g.unit
           \/ g.mode = "inline"
           \/ \A s \in Threads : \A e \in 1..Depth(s) :
                (s = t => e < Depth(t)) /\ FrameAt(s, e).call = c /\ HasUnit(FrameAt(s, e))
                  => FrameAt(s, e).unit # g.unit,
         \A u : \/ HasUnit(Top(t)) /\ Top(t).unit = u
                \/ Failing(Top(t))
                => \/ u \in ended'[c] \/ Failing(g)
                   \/ HasUnit(g) /\ g.unit = u,
         StepUnits(Top(t)) => StepUnits(g)'
  PROVE  PoolInvariant'
  <1>1. StackType /\ Nested /\ QueueOK /\ Census /\ Entered /\ UnitsHeld /\ RestType
    BY TypesSplit DEF PoolInvariant, Census
  <1>2. /\ StackType' /\ Swapped(t, g) /\ Nested' /\ Moved(t) /\ QueueOK'
        /\ Census' /\ \A x \in Calls : Open(x)' = Open(x)
        /\ Depth(t) \in 1..Depth(t)' /\ Depth(t) \in Nat
        /\ \A d \in 1..Depth(t)' : d >= Depth(t) => d = Depth(t) /\ FrameAt(t, d)' = g
    BY SwapFrames
  <1>3. Top(t) = FrameAt(t, Depth(t)) /\ Depth(t) \in 1..Depth(t)
    BY <1>1, FrameTypes
  <1>4. Top(t) \in FrameType /\ FrameOK(Top(t)) /\ c \in Calls /\ g.call = c
    BY <1>1, <1>3 DEF Nested, FrameOK, FrameType, Alike
  <1>5. \A x \in Calls : Kept(x)
    BY DEF Kept
  <1>6. ASSUME NEW u, Settled(c, u) PROVE Settled(c, u)'
    <2>1. (\/ HasUnit(Top(t)) /\ Top(t).unit = u
           \/ Failing(Top(t)))
          => \/ u \in ended'[c] \/ exception'[c]
             \/ \E d \in 1..Depth(t)' : FrameAt(t, d)'.call = c /\
                  (\/ HasUnit(FrameAt(t, d)') /\ FrameAt(t, d)'.unit = u
                   \/ Failing(FrameAt(t, d)'))
      BY <1>2, <1>4
    <2>2. ended[c] \subseteq ended'[c] /\ (exception[c] => exception'[c])
      OBVIOUS
    <2> QED
      BY <1>1, <1>2, <1>6, <2>1, <2>2, SettledKept
  <1>7. StepUnits(Top(t)) /\ CallerUnits(Top(t))
    BY <1>1, <1>3 DEF UnitsHeld, FramesKnow, FrameUnits
  <1>8. StepUnits(g)'
    BY <1>7
  <1>9. CallerUnits(g)'
    <2>1. PICK f : f = Top(t)
      OBVIOUS
    <2>2. Alike(f, g) /\ f.call = c /\ CallerUnits(f)
      BY <1>7, <2>1
    <2>3. Kept(f.call) /\ Open(f.call)' = Open(f.call)
      BY <1>2, <1>4, <1>5, <2>2
    <2> QED
      BY <1>6, <2>2, <2>3, CallerUnitsKept DEF Alike
  <1>10. FramesKnow'
    <2>1. \A d \in 1..Depth(t)' : \A e :
            d >= Depth(t) /\ e = FrameAt(t, d)' => StepUnits(e)' /\ CallerUnits(e)'
      BY <1>2, <1>8, <1>9
    <2>2. Kept(c) /\ Open(c)' = Open(c) /\ \A u : Settled(c, u) => Settled(c, u)'
      BY <1>2, <1>4, <1>5, <1>6
    <2> QED
      BY <1>1, <1>2, <1>5, <2>1, <2>2, FramesKnowMoved DEF UnitsHeld
  <1>11. UnitsApart'
    <2>1. ASSUME NEW d \in 1..Depth(t)', d = Depth(t), HasUnit(FrameAt(t, d)'),
                 ~(HasUnit(Top(t)) /\ Top(t).unit = g.unit),
                 NEW s \in Threads, NEW e \in 1..Depth(s), s = t => e < Depth(t),
                 FrameAt(s, e).call = c, HasUnit(FrameAt(s, e)), FrameAt(s, e).unit = g.unit
          PROVE  FALSE
      <3>1. g.mode = "inline" /\ ~Dispatches(Top(t)) /\ IsMain(Top(t))
        BY <1>2, <2>1 DEF Alike, Dispatches, IsMain
      <3>2. Top(t).mode = "inline"
        BY <1>4, <3>1 DEF FrameType, Modes, Dispatches, IsMain
      <3>3. PICK z \in 1..Depth(t) : z = Depth(t)
        BY <1>3
      <3>4. \A y \in Threads : \A e2 \in 1..Depth(y) :
              FrameAt(y, e2).call = c => y = t /\ e2 = z
        BY <1>1, <1>3, <3>2, <3>3, InlineAlone DEF Census
      <3> QED
        BY <1>2, <2>1, <3>3, <3>4
    <2>2. \A d \in 1..Depth(t)' : d = Depth(t) /\ HasUnit(FrameAt(t, d)') =>
           \/ /\ HasUnit(Top(t)) /\ Top(t).call = FrameAt(t, d)'.call
              /\ Top(t).unit = FrameAt(t, d)'.unit
           \/ \A s \in Threads : \A e \in 1..Depth(s) :
                ~ /\ s = t => e < Depth(t)
                  /\ FrameAt(s, e).call = FrameAt(t, d)'.call
                  /\ HasUnit(FrameAt(s, e)) /\ FrameAt(s, e).unit = FrameAt(t, d)'.unit
      BY <1>2, <1>4, <2>1
    <2>3. ~\E d \in 1..Depth(t)' : d = Depth(t) + 1
      BY <1>2
    <2> QED
      BY <1>1, <1>2, <2>2, <2>3, UnitsApartMoved DEF UnitsHeld
  <1>12. UnitsHeld'
    <2>1. QueueUnbegun'
      BY <1>1 DEF UnitsHeld, QueueUnbegun
    <2>2. UnitsExactlyOnce'
      <3>1. ASSUME NEW x \in Calls, outcome[x] = "value"
            PROVE  ended'[x] = 0..(Units(x) - 1)
        <4>1. ended[x] = 0..(Units(x) - 1) /\ ended'[x] \subseteq 0..(Units(x) - 1)
          BY <1>1, <3>1 DEF UnitsHeld, UnitsExactlyOnce, RestType, Units, TaskCount
        <4>2. ended[x] \subseteq ended'[x]
          BY <1>4
        <4> QED
          BY <4>1, <4>2
      <3> QED
        BY <1>1, <3>1 DEF UnitsHeld, UnitsExactlyOnce, Units, TaskCount
    <2> QED
      BY <1>1, <1>10, <1>11, <2>1, <2>2 DEF UnitsHeld
  <1>13. Entered'
    <2>1. \A d \in 1..Depth(t)' : \A e : d >= Depth(t) /\ e = FrameAt(t, d)' =>
            e.call = c /\ e.pc # "enter"
      BY <1>2, <1>4
    <2>2. Alone /\ Owned /\ QueueOK
      BY <1>1 DEF Census
    <2>3. \A x \in Calls : x # c =>
           /\ begun'[x] = begun[x] /\ ended'[x] = ended[x]
           /\ exception'[x] = exception[x] /\ outcome'[x] = outcome[x]
      OBVIOUS
    <2>4. \A x \in Calls : Units(x) > 0 /\ begun'[x][0] = 0 => begun[x][0] = 0
      OBVIOUS
    <2> QED
      BY <1>1, <1>2, <2>1, <2>2, <2>3, <2>4, EnteredMoved
  <1> QED
    BY <1>2, <1>12, <1>13, TypesSplit DEF PoolInvariant, Census

LEMMA TopFacts ==
  ASSUME PoolInvariant, NEW t \in Threads, Busy(t)
  PROVE  /\ StackType /\ RestType /\ Nested /\ QueueOK /\ Alone /\ Owned /\ Counted /\ Census
         /\ Top(t) \in FrameType /\ FrameOK(Top(t)) /\ Top(t).call \in Calls
         /\ StepUnits(Top(t)) /\ CallerUnits(Top(t))
         /\ Top(t) = FrameAt(t, Depth(t)) /\ Depth(t) \in 1..Depth(t)
  <1>1. StackType /\ RestType /\ Nested
    BY TypesSplit DEF PoolInvariant
  <1>2. Top(t) = FrameAt(t, Depth(t)) /\ Depth(t) \in 1..Depth(t)
    BY <1>1, FrameTypes
  <1> QED
    BY <1>1, <1>2 DEF PoolInvariant, Census, Nested, FrameOK, FrameType, UnitsHeld,
                      FramesKnow, FrameUnits

LEMMA EnterInlineStep ==
  ASSUME PoolInvariant, NEW t \in Threads, EnterInline(t)
  PROVE  PoolInvariant'
  <1>1. Busy(t) /\ Top(t).pc = "enter" /\ Count[Top(t).call] # 0
    BY DEF EnterInline, At
  <1>2. PICK f, c : f = Top(t) /\ c = f.call
    OBVIOUS
  <1>3. /\ RestType /\ f \in FrameType /\ FrameOK(f) /\ c \in Calls /\ f.mode = "inline"
        /\ f.unit = 0 /\ f.task = 0 /\ ~f.failed
    BY <1>1, <1>2, TopFacts DEF FrameOK
  <1>4. PICK g : g = [f EXCEPT !.pc = "run"]
    OBVIOUS
  <1>5. /\ g.call = c /\ g.mode = "inline" /\ g.pc = "run" /\ g.unit = 0 /\ g.task = 0
        /\ ~g.failed /\ g \in FrameType
    BY <1>2, <1>3, <1>4 DEF FrameType, Pcs
  <1>6. 0 < Units(c) /\ Units(c) \in Nat
    BY <1>1, <1>2, <1>3, TaskCountBounds
  <1>7. FrameOK(g)
    BY <1>1, <1>2, <1>5, <1>6 DEF FrameOK, HasUnit, UnitPcs
  <1>8. Alike(f, g)
    BY <1>2, <1>3, <1>5 DEF Alike, IsMain, Dispatches, Carries, Works
  <1>9. StepUnits(g)'
    <2>1. Unstarted(c)
      BY <1>1, <1>2, TopFacts DEF PoolInvariant, Entered
    <2>2. \A u \in 0..(Units(c) - 1) : begun[c][u] = 0 /\ u >= 0
      BY <1>6, <2>1 DEF Unstarted
    <2>3. begun[c][0] = 0
      BY <1>6, <2>2
    <2>4. begun' = begun
      BY DEF EnterInline, historyVars
    <2>5. \A u \in 0..(Units(c) - 1) : (begun[c][u] = 0)' /\ ~(u < 0)
      BY <1>6, <2>2, <2>4
    <2> QED
      BY <1>5, <2>3, <2>4, <2>5 DEF StepUnits, HasUnit, UnitPcs, Units, TaskCount
  <1>10. ~HasUnit(f) /\ ~Failing(f)
    BY <1>1, <1>2 DEF HasUnit, UnitPcs, Failing
  <1>11. /\ tasks' = tasks /\ remaining' = remaining /\ outcome' = outcome
         /\ begun' = begun /\ next' = next /\ exception' = exception /\ ended' = ended
         /\ sleepers' = sleepers /\ exited' = exited /\ stop' = stop /\ Replace(t, g)
    BY <1>2, <1>4 DEF EnterInline, poolVars, groupVars, historyVars
  <1>12. RestType'
    BY <1>3, <1>11 DEF RestType, Units, TaskCount
  <1>13. ended' = [x \in Calls |-> ended'[x]]
    BY <1>11 DEF PoolInvariant, UnitsHeld
  <1> QED
    BY <1>1, <1>2, <1>5, <1>7, <1>8, <1>9, <1>10, <1>11, <1>12, <1>13, SwapQuiet

LEMMA NotifyStep ==
  ASSUME PoolInvariant, NEW t \in Threads, Notify(t)
  PROVE  PoolInvariant'
  <1>1. Busy(t) /\ Top(t).pc = "notify"
    BY DEF Notify, At
  <1>2. PICK f, c : f = Top(t) /\ c = f.call
    OBVIOUS
  <1>3. /\ RestType /\ f \in FrameType /\ FrameOK(f) /\ c \in Calls /\ f.task \in Nat
        /\ Count[c] # 0
    BY <1>1, <1>2, TopFacts DEF FrameOK, FrameType
  <1>a. f.mode = "dispatch" /\ ~f.failed /\ f.task + 1 < TaskCount(c)
    <2>1. f.mode = "dispatch"
      BY <1>1, <1>2, <1>3 DEF FrameOK, FrameType, Modes, UnitPcs
    <2> QED
      BY <1>1, <1>2, <1>3, <2>1 DEF FrameOK, Handed
  <1>4. PICK g : g = [f EXCEPT !.pc = "enqueue", !.task = @ + 1]
    OBVIOUS
  <1>5. /\ g.call = c /\ g.mode = "dispatch" /\ g.pc = "enqueue" /\ g.task = f.task + 1
        /\ ~g.failed /\ g \in FrameType
    <2>1. PICK n \in Nat : n = f.task + 1
      BY <1>3
    <2>2. g = [f EXCEPT !.pc = "enqueue", !.task = n]
      BY <1>4, <2>1
    <2> QED
      BY <1>2, <1>3, <1>a, <2>1, <2>2 DEF FrameType, Pcs
  <1>6. Handed(g) = f.task + 1 /\ Handed(f) = f.task + 1
    BY <1>1, <1>2, <1>5 DEF Handed
  <1>7. FrameOK(g)
    BY <1>1, <1>2, <1>3, <1>a, <1>5, <1>6 DEF FrameOK, HasUnit, UnitPcs
  <1>8. Alike(f, g)
    BY <1>2, <1>a, <1>5, <1>6 DEF Alike, IsMain, Dispatches, Carries, Works
  <1>10. ~HasUnit(f) /\ ~Failing(f) /\ ~HasUnit(g)
    BY <1>1, <1>2, <1>5 DEF HasUnit, UnitPcs, Failing
  <1>11. /\ tasks' = tasks /\ remaining' = remaining /\ outcome' = outcome
         /\ begun' = begun /\ next' = next /\ exception' = exception /\ ended' = ended
         /\ exited' = exited /\ stop' = stop /\ Replace(t, g)
         /\ sleepers' \subseteq sleepers
    BY <1>2, <1>4 DEF Notify, groupVars, historyVars
  <1>9. StepUnits(f) => StepUnits(g)'
    BY <1>2, <1>a, <1>5, <1>6, <1>10, <1>11 DEF StepUnits, HasUnit, Units, TaskCount, Handed
  <1>12. RestType'
    BY <1>3, <1>11 DEF RestType, Units, TaskCount
  <1>13. ended' = [x \in Calls |-> ended'[x]]
    BY <1>11 DEF PoolInvariant, UnitsHeld
  <1> QED
    BY <1>1, <1>2, <1>5, <1>7, <1>8, <1>9, <1>10, <1>11, <1>12, <1>13, SwapQuiet

LEMMA DrainStep ==
  ASSUME PoolInvariant, NEW t \in Threads, Drain(t)
  PROVE  PoolInvariant'
  <1>1. Busy(t) /\ Top(t).pc = "enqueue" /\ Top(t).task + 1 = TaskCount(Top(t).call)
    BY DEF Drain, At
  <1>2. PICK f, c : f = Top(t) /\ c = f.call
    OBVIOUS
  <1>3. /\ RestType /\ f \in FrameType /\ FrameOK(f) /\ c \in Calls /\ f.task \in Nat
        /\ Count[c] # 0
    BY <1>1, <1>2, TopFacts DEF FrameOK, FrameType
  <1>a. f.mode = "dispatch" /\ ~f.failed
    BY <1>1, <1>2, <1>3 DEF FrameOK, FrameType, Modes, UnitPcs
  <1>4. PICK g : g = [f EXCEPT !.mode = "own", !.pc = "claim"]
    OBVIOUS
  <1>5. /\ g.call = c /\ g.mode = "own" /\ g.pc = "claim" /\ g.task = f.task
        /\ ~g.failed /\ g \in FrameType
    BY <1>2, <1>3, <1>a, <1>4 DEF FrameType, Pcs, Modes
  <1>6. Handed(f) = f.task
    BY <1>1, <1>2 DEF Handed
  <1>7. FrameOK(g)
    BY <1>1, <1>2, <1>3, <1>5 DEF FrameOK, HasUnit, UnitPcs
  <1>8. Alike(f, g)
    <2>1. \A k \in 0..(TaskCount(c) - 1) : k >= f.task <=> k = f.task
      BY <1>1, <1>2, <1>3, TaskCountBounds
    <2> QED
      BY <1>2, <1>a, <1>5, <1>6, <2>1 DEF Alike, IsMain, Dispatches, Carries, Works
  <1>10. ~HasUnit(f) /\ ~Failing(f) /\ ~HasUnit(g)
    BY <1>1, <1>2, <1>5 DEF HasUnit, UnitPcs, Failing
  <1>11. /\ tasks' = tasks /\ remaining' = remaining /\ outcome' = outcome
         /\ begun' = begun /\ next' = next /\ exception' = exception /\ ended' = ended
         /\ sleepers' = sleepers /\ exited' = exited /\ stop' = stop /\ Replace(t, g)
    BY <1>2, <1>4 DEF Drain, poolVars, groupVars, historyVars
  <1>9. StepUnits(f) => StepUnits(g)'
    <2>1. c \notin Dynamic => f.task \in 0..(Units(c) - 1) /\ f.task >= Handed(f)
      BY <1>1, <1>2, <1>3, <1>6, TaskCountBounds
    <2>2. StepUnits(f) => (c \notin Dynamic => begun[c][f.task] = 0)
      BY <1>2, <1>a, <2>1 DEF StepUnits
    <2> QED
      BY <1>5, <1>10, <1>11, <2>2 DEF StepUnits, HasUnit, Units, TaskCount
  <1>12. RestType'
    BY <1>3, <1>11 DEF RestType, Units, TaskCount
  <1>13. ended' = [x \in Calls |-> ended'[x]]
    BY <1>11 DEF PoolInvariant, UnitsHeld
  <1> QED
    BY <1>1, <1>2, <1>5, <1>7, <1>8, <1>9, <1>10, <1>11, <1>12, <1>13, SwapQuiet

\* wait() sleeps.
LEMMA JoinSleeps ==
  ASSUME PoolInvariant, NEW t \in Threads, Join(t), ~NoneLeft(Top(t).call)
  PROVE  PoolInvariant'
  <1>1. Busy(t) /\ Top(t).pc = "join"
    BY DEF Join, At
  <1>2. PICK f, c : f = Top(t) /\ c = f.call
    OBVIOUS
  <1>3. /\ RestType /\ f \in FrameType /\ FrameOK(f) /\ c \in Calls /\ Count[c] # 0
    BY <1>1, <1>2, TopFacts DEF FrameOK, FrameType
  <1>a. f.mode = "own"
    BY <1>1, <1>2, <1>3 DEF FrameOK, FrameType, Modes, UnitPcs
  <1>4. PICK g : g = [f EXCEPT !.pc = "asleep"]
    OBVIOUS
  <1>5. /\ g.call = c /\ g.mode = "own" /\ g.pc = "asleep" /\ g.task = f.task
        /\ g.failed = f.failed /\ g \in FrameType
    BY <1>2, <1>3, <1>a, <1>4 DEF FrameType, Pcs
  <1>7. FrameOK(g)
    BY <1>1, <1>2, <1>3, <1>a, <1>5 DEF FrameOK, HasUnit, UnitPcs
  <1>8. Alike(f, g)
    BY <1>1, <1>2, <1>a, <1>5 DEF Alike, IsMain, Dispatches, Carries, Works
  <1>10. ~HasUnit(f) /\ ~Failing(f) /\ ~HasUnit(g)
    BY <1>1, <1>2, <1>5 DEF HasUnit, UnitPcs, Failing
  <1>11. /\ tasks' = tasks /\ remaining' = remaining /\ outcome' = outcome
         /\ begun' = begun /\ next' = next /\ exception' = exception /\ ended' = ended
         /\ sleepers' = sleepers /\ exited' = exited /\ stop' = stop /\ Replace(t, g)
    BY <1>2, <1>4 DEF Join, poolVars, groupVars
  <1>9. StepUnits(f) => StepUnits(g)'
    BY <1>1, <1>2, <1>a, <1>5, <1>10, <1>11 DEF StepUnits, HasUnit, Units, TaskCount
  <1>12. RestType'
    BY <1>3, <1>11 DEF RestType, Units, TaskCount
  <1>13. ended' = [x \in Calls |-> ended'[x]]
    BY <1>11 DEF PoolInvariant, UnitsHeld
  <1> QED
    BY <1>1, <1>2, <1>5, <1>7, <1>8, <1>9, <1>10, <1>11, <1>12, <1>13, SwapQuiet

\* A task catches what its function threw.
LEMMA ThrewCaught ==
  ASSUME PoolInvariant, NEW t \in Threads, Threw(t), Top(t).mode # "inline"
  PROVE  PoolInvariant'
  <1>1. Busy(t) /\ Top(t).pc = "threw"
    BY DEF Threw, At
  <1>2. PICK f, c : f = Top(t) /\ c = f.call
    OBVIOUS
  <1>3. /\ RestType /\ f \in FrameType /\ FrameOK(f) /\ c \in Calls /\ Count[c] # 0
    BY <1>1, <1>2, TopFacts DEF FrameOK, FrameType
  <1>a. f.mode \in {"own", "task"}
    BY <1>1, <1>2, <1>3 DEF FrameOK, FrameType, Modes
  <1>4. PICK g : g = [f EXCEPT !.failed = TRUE, !.pc = "finish"]
    OBVIOUS
  <1>5. /\ g.call = c /\ g.mode = f.mode /\ g.pc = "finish" /\ g.task = f.task
        /\ g.failed /\ g \in FrameType
    BY <1>2, <1>3, <1>a, <1>4 DEF FrameType, Pcs
  <1>7. FrameOK(g)
    BY <1>1, <1>2, <1>3, <1>a, <1>5 DEF FrameOK, HasUnit, UnitPcs
  <1>8. Alike(f, g)
    BY <1>1, <1>2, <1>a, <1>5 DEF Alike, IsMain, Dispatches, Carries, Works
  <1>10. Failing(g) /\ ~HasUnit(g)
    BY <1>5 DEF HasUnit, UnitPcs, Failing
  <1>11. /\ tasks' = tasks /\ remaining' = remaining /\ outcome' = outcome
         /\ begun' = begun /\ next' = next /\ exception' = exception /\ ended' = ended
         /\ sleepers' = sleepers /\ exited' = exited /\ stop' = stop /\ Replace(t, g)
    BY <1>2, <1>4 DEF Threw, poolVars, groupVars
  <1>9. StepUnits(f) => StepUnits(g)'
    BY <1>a, <1>5, <1>10 DEF StepUnits, HasUnit, Units, TaskCount
  <1>12. RestType'
    BY <1>3, <1>11 DEF RestType, Units, TaskCount
  <1>13. ended' = [x \in Calls |-> ended'[x]]
    BY <1>11 DEF PoolInvariant, UnitsHeld
  <1> QED
    BY <1>1, <1>2, <1>5, <1>7, <1>8, <1>9, <1>10, <1>11, <1>12, <1>13, SwapQuiet

\* A unit has returned: it is among the ended ones.
LEMMA UnitEnded ==
  ASSUME PoolInvariant, NEW c \in Calls, NEW u \in 0..(Units(c) - 1),
         ended' = [ended EXCEPT ![c] = @ \cup {u}]
  PROVE  /\ ended'[c] = ended[c] \cup {u} /\ ended[c] \subseteq ended'[c]
         /\ \A x \in Calls : x # c => ended'[x] = ended[x]
         /\ ended' = [x \in Calls |-> ended'[x]]
         /\ \A x \in Calls : ended'[x] \subseteq 0..(Units(x) - 1)
  <1>1. ended = [x \in Calls |-> ended[x]] /\ \A x \in Calls : ended[x] \subseteq 0..(Units(x) - 1)
    BY TypesSplit DEF PoolInvariant, UnitsHeld, RestType
  <1> QED
    BY <1>1

LEMMA RanTask ==
  ASSUME PoolInvariant, NEW t \in Threads, Ran(t), Top(t).mode # "inline"
  PROVE  PoolInvariant'
  <1>1. Busy(t) /\ Top(t).pc = "ran"
    BY DEF Ran, At
  <1>2. PICK f, c : f = Top(t) /\ c = f.call
    OBVIOUS
  <1>3. /\ RestType /\ f \in FrameType /\ FrameOK(f) /\ c \in Calls /\ Count[c] # 0
        /\ f.unit \in Nat
    BY <1>1, <1>2, TopFacts DEF FrameOK, FrameType
  <1>a. f.mode \in {"own", "task"} /\ ~f.failed
    BY <1>1, <1>2, <1>3 DEF FrameOK, FrameType, Modes
  <1>b. /\ HasUnit(f) /\ f.unit \in 0..(Units(c) - 1)
        /\ c \notin Dynamic => f.unit = f.task
    <2>1. HasUnit(f)
      BY <1>1, <1>2 DEF HasUnit, UnitPcs
    <2>2. f.unit < Units(c) /\ (c \notin Dynamic => f.unit = f.task)
      BY <1>2, <1>3, <1>a, <2>1 DEF FrameOK
    <2> QED
      BY <1>3, <2>1, <2>2, TaskCountBounds
  <1>4. PICK g : g = [f EXCEPT !.pc = IF c \in Dynamic THEN "claim" ELSE "finish"]
    OBVIOUS
  <1>5. /\ g.call = c /\ g.mode = f.mode /\ g.task = f.task /\ ~g.failed /\ g \in FrameType
        /\ g.pc = IF c \in Dynamic THEN "claim" ELSE "finish"
    BY <1>2, <1>3, <1>a, <1>4 DEF FrameType, Pcs
  <1>7. FrameOK(g)
    BY <1>1, <1>2, <1>3, <1>a, <1>5 DEF FrameOK, HasUnit, UnitPcs
  <1>8. Alike(f, g)
    BY <1>1, <1>2, <1>a, <1>5 DEF Alike, IsMain, Dispatches, Carries, Works
  <1>10. ~Failing(f) /\ ~HasUnit(g)
    BY <1>1, <1>2, <1>5 DEF HasUnit, UnitPcs, Failing
  <1>11. /\ tasks' = tasks /\ remaining' = remaining /\ outcome' = outcome
         /\ begun' = begun /\ next' = next /\ exception' = exception
         /\ sleepers' = sleepers /\ exited' = exited /\ stop' = stop /\ Replace(t, g)
         /\ ended' = [ended EXCEPT ![c] = @ \cup {f.unit}]
    BY <1>2, <1>4 DEF Ran, poolVars, groupVars
  <1>12. /\ ended'[c] = ended[c] \cup {f.unit} /\ ended[c] \subseteq ended'[c]
         /\ \A x \in Calls : x # c => ended'[x] = ended[x]
         /\ ended' = [x \in Calls |-> ended'[x]]
         /\ \A x \in Calls : ended'[x] \subseteq 0..(Units(x) - 1)
    BY <1>3, <1>b, <1>11, UnitEnded
  <1>9. StepUnits(f) => StepUnits(g)'
    BY <1>a, <1>b, <1>5, <1>10, <1>12 DEF StepUnits, HasUnit, Units, TaskCount
  <1>13. RestType'
    BY <1>3, <1>11, <1>12 DEF RestType, Units, TaskCount
  <1>14. \A u : \/ HasUnit(Top(t)) /\ Top(t).unit = u
                \/ Failing(Top(t))
                => u \in ended'[c]
    BY <1>2, <1>10, <1>12
  <1> QED
    BY <1>1, <1>2, <1>5, <1>7, <1>8, <1>9, <1>10, <1>11, <1>12, <1>13, <1>14, SwapQuiet

LEMMA RanInline ==
  ASSUME PoolInvariant, NEW t \in Threads, Ran(t), Top(t).mode = "inline",
         Top(t).unit + 1 < Units(Top(t).call)
  PROVE  PoolInvariant'
  <1>1. Busy(t) /\ Top(t).pc = "ran"
    BY DEF Ran, At
  <1>2. PICK f, c : f = Top(t) /\ c = f.call
    OBVIOUS
  <1>3. /\ RestType /\ f \in FrameType /\ FrameOK(f) /\ c \in Calls /\ Count[c] # 0
        /\ f.unit \in Nat /\ ~f.failed /\ f.mode = "inline" /\ StepUnits(f)
    BY <1>1, <1>2, TopFacts DEF FrameOK, FrameType
  <1>b. PICK n \in Nat : n = f.unit + 1
    BY <1>3
  <1>c. HasUnit(f) /\ f.unit \in 0..(Units(c) - 1) /\ n \in 0..(Units(c) - 1)
        /\ Units(c) \in Nat
    <2>1. Units(c) \in Nat
      BY <1>3, TaskCountBounds
    <2> QED
      BY <1>1, <1>2, <1>3, <1>b, <2>1 DEF HasUnit, UnitPcs
  <1>4. PICK g : g = [f EXCEPT !.unit = n, !.pc = "run"]
    OBVIOUS
  <1>5. /\ g.call = c /\ g.mode = "inline" /\ g.task = f.task /\ ~g.failed /\ g \in FrameType
        /\ g.pc = "run" /\ g.unit = n
    BY <1>2, <1>3, <1>4 DEF FrameType, Pcs
  <1>7. FrameOK(g)
    BY <1>3, <1>c, <1>5 DEF FrameOK, HasUnit, UnitPcs
  <1>8. Alike(f, g)
    BY <1>1, <1>2, <1>3, <1>5 DEF Alike, IsMain, Dispatches, Carries, Works
  <1>10. ~Failing(f)
    BY <1>1, <1>2 DEF Failing
  <1>11. /\ tasks' = tasks /\ remaining' = remaining /\ outcome' = outcome
         /\ begun' = begun /\ next' = next /\ exception' = exception
         /\ sleepers' = sleepers /\ exited' = exited /\ stop' = stop /\ Replace(t, g)
         /\ ended' = [ended EXCEPT ![c] = @ \cup {f.unit}]
    BY <1>2, <1>b, <1>4 DEF Ran, poolVars, groupVars
  <1>12. /\ ended'[c] = ended[c] \cup {f.unit} /\ ended[c] \subseteq ended'[c]
         /\ \A x \in Calls : x # c => ended'[x] = ended[x]
         /\ ended' = [x \in Calls |-> ended'[x]]
         /\ \A x \in Calls : ended'[x] \subseteq 0..(Units(x) - 1)
    BY <1>3, <1>c, <1>11, UnitEnded
  <1>9. StepUnits(g)'
    <2>1. \A u \in 0..(Units(c) - 1) : /\ u > f.unit => begun[c][u] = 0
                                       /\ u < f.unit => u \in ended[c]
      BY <1>2, <1>3, <1>c DEF StepUnits
    <2>2. \A u \in 0..(Units(c) - 1) : /\ u > n => begun[c][u] = 0
                                       /\ u < n => u \in ended'[c]
      BY <1>3, <1>b, <1>c, <1>12, <2>1
    <2>3. begun[c][n] = 0
      BY <1>3, <1>b, <1>c, <2>1
    <2> QED
      BY <1>5, <1>11, <2>2, <2>3 DEF StepUnits, HasUnit, Units, TaskCount
  <1>13. RestType'
    BY <1>3, <1>11, <1>12 DEF RestType, Units, TaskCount
  <1>14. \A u : \/ HasUnit(Top(t)) /\ Top(t).unit = u
                \/ Failing(Top(t))
                => u \in ended'[c]
    BY <1>2, <1>10, <1>12
  <1> QED
    BY <1>1, <1>2, <1>5, <1>7, <1>8, <1>9, <1>10, <1>11, <1>12, <1>13, <1>14, SwapQuiet

\* A call of which nothing is left but the frame on top returns or throws.
LEMMA ReturnStep ==
  ASSUME PoolInvariant, NEW t \in Threads, Busy(t), NEW failed \in BOOLEAN, Return(t, failed),
         NEW c, c = Top(t).call,
         \/ Top(t).mode = "inline"
         \/ Top(t).mode = "own" /\ Top(t).pc = "join" /\ Open(c) = {},
         tasks' = tasks, remaining' = remaining, begun' = begun, next' = next,
         exception' = exception, sleepers' = sleepers, exited' = exited, stop' = stop,
         \A x \in Calls : x # c => ended'[x] = ended[x],
         ended[c] \subseteq ended'[c], ended' = [x \in Calls |-> ended'[x]],
         \A x \in Calls : ended'[x] \subseteq 0..(Units(x) - 1),
         ~failed => ended'[c] = 0..(Units(c) - 1)
  PROVE  PoolInvariant'
  <1>1. /\ StackType /\ RestType /\ Nested /\ QueueOK /\ Alone /\ Owned /\ Census
        /\ c \in Calls /\ Top(t) = FrameAt(t, Depth(t)) /\ Depth(t) \in 1..Depth(t)
        /\ Entered /\ UnitsHeld /\ Depth(t) \in Nat
    BY TopFacts DEF PoolInvariant
  <1>2. PICK pc : pc = IF failed THEN "threw" ELSE "ran"
    OBVIOUS
  <1>3. StackType' /\ Popped(t, pc) /\ pc \in {"ran", "threw"}
    <2>1. pc \in Pcs /\ pc \in {"ran", "threw"}
      BY <1>2 DEF Pcs
    <2> QED
      BY <1>1, <1>2, <2>1, ReturnPops
  <1>4. Nested' /\ Moved(t)
    <2>1. IsMain(Top(t))
      BY DEF IsMain
    <2> QED
      BY <1>1, <1>3, <2>1, PopMoves
  <1>5. Depth(t)' = Depth(t) - 1
    BY <1>3 DEF Popped
  <1>6. ASSUME NEW s \in Threads, NEW e \in 1..Depth(s), FrameAt(s, e).call = c,
               ~(s = t /\ e = Depth(t))
        PROVE  FALSE
    <2>1. PICK z \in 1..Depth(t) : z = Depth(t)
      BY <1>1
    <2>2. CASE Top(t).mode = "inline"
      <3>1. \A y \in Threads : \A e2 \in 1..Depth(y) :
              FrameAt(y, e2).call = c => y = t /\ e2 = z
        BY <1>1, <2>1, <2>2, InlineAlone
      <3> QED
        BY <1>6, <2>1, <3>1
    <2>3. CASE Top(t).mode = "own" /\ Open(c) = {}
      <3>1. ~IsMain(FrameAt(s, e))
        BY <1>1, <1>6, <2>3 DEF Alone, IsMain
      <3> QED
        BY <1>1, <1>6, <2>3, <3>1, TasksAreOpen DEF IsMain
    <2> QED
      BY <2>2, <2>3
  <1>7. /\ outcome'[c] = IF failed THEN "exception" ELSE "value"
        /\ \A x \in Calls : x # c => outcome'[x] = outcome[x]
        /\ outcome' \in [Calls -> {"none", "value", "exception"}]
    BY <1>1 DEF Return, RestType
  <1>8. RestType'
    BY <1>1, <1>7 DEF RestType, Units, TaskCount
  <1>9. QueueOK'
    BY <1>1 DEF QueueOK, TaskCount
  <1>10. ASSUME NEW s \in Threads, NEW d \in 1..Depth(s)'
         PROVE  d \in 1..Depth(s) /\ ~(s = t /\ d >= Depth(t)) /\ FrameAt(s, d).call # c
                /\ (s = t => d < Depth(t))
    <2>1. d \in 1..Depth(s) /\ ~(s = t /\ d >= Depth(t)) /\ (s = t => d < Depth(t))
      BY <1>1, <1>3, <1>4, <1>5, OthersAlike
    <2>2. ~(s = t /\ d = Depth(t))
      BY <1>1, <2>1
    <2> QED
      BY <1>6, <2>1, <2>2
  <1>11. Census' /\ \A x \in Calls : Open(x)' = Open(x)
    <2>1. ASSUME NEW d \in 1..Depth(t), d > Depth(t)'
          PROVE  /\ \A k \in 0..(TaskCount(FrameAt(t, d).call) - 1) : ~Carries(FrameAt(t, d), k)
                 /\ Dispatches(FrameAt(t, d)) => Open(FrameAt(t, d).call) = {}
      <3>1. FrameAt(t, d) = Top(t)
        BY <1>1, <1>5, <2>1
      <3> QED
        BY <3>1 DEF Carries, Works, Dispatches
    <2>2. \A s \in Threads : \A d \in 1..Depth(s)' :
            IsMain(FrameAt(s, d)) => outcome'[FrameAt(s, d).call] = outcome[FrameAt(s, d).call]
      <3>1. ASSUME NEW s \in Threads, NEW d \in 1..Depth(s)'
            PROVE  outcome'[FrameAt(s, d).call] = outcome[FrameAt(s, d).call]
        <4>1. FrameAt(s, d) \in FrameType
          BY <1>1, <1>10, FrameTypes
        <4> QED
          BY <1>7, <1>10, <4>1 DEF FrameType
      <3> QED
        BY <3>1
    <2>3. ~\E d \in 1..Depth(t)' : d >= Depth(t)
      BY <1>10
    <2> QED
      BY <1>1, <1>3, <1>4, <2>1, <2>2, <2>3, CensusKept
  <1>12. FramesKnow'
    <2>1. \A x \in Calls : x # c => Kept(x) /\ Open(x)' = Open(x)
      BY <1>11 DEF Kept
    <2> QED
      BY <1>1, <1>3, <1>4, <1>10, <2>1, FramesKnowMoved DEF UnitsHeld
  <1>13. UnitsApart'
    <2>1. ~\E d \in 1..Depth(t)' : d = Depth(t) \/ d = Depth(t) + 1
      BY <1>1, <1>5
    <2> QED
      BY <1>1, <1>3, <1>4, <2>1, UnitsApartMoved DEF UnitsHeld
  <1>14. UnitsHeld'
    <2>1. QueueUnbegun'
      BY <1>1 DEF UnitsHeld, QueueUnbegun
    <2>2. UnitsExactlyOnce'
      <3>1. ASSUME NEW x \in Calls, outcome'[x] = "value"
            PROVE  ended'[x] = 0..(Units(x) - 1)
        <4>1. CASE x = c
          BY <1>7, <3>1, <4>1
        <4>2. CASE x # c
          BY <1>1, <1>7, <3>1, <4>2 DEF UnitsHeld, UnitsExactlyOnce
        <4> QED
          BY <4>1, <4>2
      <3> QED
        BY <1>1, <3>1 DEF UnitsHeld, UnitsExactlyOnce, Units, TaskCount
    <2> QED
      BY <1>1, <1>12, <1>13, <2>1, <2>2 DEF UnitsHeld
  <1>15. Entered'
    <2>1. \A d \in 1..Depth(t)' : \A e : ~(d >= Depth(t) /\ e = FrameAt(t, d)')
      BY <1>10
    <2>2. \A x \in Calls : x # c =>
           /\ begun'[x] = begun[x] /\ ended'[x] = ended[x]
           /\ exception'[x] = exception[x] /\ outcome'[x] = outcome[x]
      BY <1>7
    <2>3. \A x \in Calls : Units(x) > 0 /\ begun'[x][0] = 0 => begun[x][0] = 0
      OBVIOUS
    <2> QED
      BY <1>1, <1>3, <1>4, <2>1, <2>2, <2>3, EnteredMoved
  <1> QED
    BY <1>3, <1>4, <1>8, <1>9, <1>11, <1>14, <1>15, TypesSplit DEF PoolInvariant, Census

LEMMA EnterReturns ==
  ASSUME PoolInvariant, NEW t \in Threads, EnterEmpty(t) \/ EnterThrows(t)
  PROVE  PoolInvariant'
  <1>1. Busy(t) /\ Top(t).pc = "enter"
    BY DEF EnterEmpty, EnterThrows, At
  <1>2. PICK c : c = Top(t).call
    OBVIOUS
  <1>3. RestType /\ FrameOK(Top(t)) /\ c \in Calls /\ Top(t).mode = "inline"
    BY <1>1, <1>2, TopFacts DEF FrameOK
  <1>4. /\ tasks' = tasks /\ remaining' = remaining /\ begun' = begun /\ next' = next
        /\ exception' = exception /\ sleepers' = sleepers /\ exited' = exited /\ stop' = stop
        /\ ended' = ended
    BY DEF EnterEmpty, EnterThrows, poolVars, groupVars
  <1>5. /\ \A x \in Calls : x # c => ended'[x] = ended[x]
        /\ ended[c] \subseteq ended'[c] /\ ended' = [x \in Calls |-> ended'[x]]
        /\ \A x \in Calls : ended'[x] \subseteq 0..(Units(x) - 1)
    BY <1>3, <1>4 DEF PoolInvariant, UnitsHeld, RestType
  <1>6. CASE EnterEmpty(t)
    <2>1. Return(t, FALSE) /\ Count[c] = 0
      BY <1>2, <1>6 DEF EnterEmpty
    <2>2. ended'[c] = 0..(Units(c) - 1)
      <3>1. Units(c) = 0
        BY <1>3, <2>1, TaskCountBounds
      <3> QED
        BY <1>3, <1>5, <3>1
    <2> QED
      BY <1>1, <1>2, <1>3, <1>4, <1>5, <2>1, <2>2, ReturnStep
  <1>7. CASE EnterThrows(t)
    <2>1. Return(t, TRUE)
      BY <1>7 DEF EnterThrows
    <2> QED
      BY <1>1, <1>2, <1>3, <1>4, <1>5, <2>1, ReturnStep
  <1> QED
    BY <1>6, <1>7

\* The last unit of an inline call has returned, or one has thrown.
LEMMA InlineReturns ==
  ASSUME PoolInvariant, NEW t \in Threads, Top(t).mode = "inline",
         \/ Ran(t) /\ ~(Top(t).unit + 1 < Units(Top(t).call))
         \/ Threw(t)
  PROVE  PoolInvariant'
  <1>1. Busy(t) /\ Top(t).pc \in {"ran", "threw"}
    BY DEF Ran, Threw, At
  <1>2. PICK f, c : f = Top(t) /\ c = f.call
    OBVIOUS
  <1>3. /\ RestType /\ f \in FrameType /\ FrameOK(f) /\ c \in Calls /\ f.mode = "inline"
        /\ f.unit \in Nat /\ StepUnits(f)
    BY <1>1, <1>2, TopFacts DEF FrameType
  <1>4. HasUnit(f) /\ f.unit \in 0..(Units(c) - 1) /\ Units(c) \in Nat
    <2>1. HasUnit(f) /\ Units(c) \in Nat
      BY <1>1, <1>2, <1>3, TaskCountBounds DEF HasUnit, UnitPcs
    <2> QED
      BY <1>2, <1>3, <2>1 DEF FrameOK
  <1>5. /\ tasks' = tasks /\ remaining' = remaining /\ begun' = begun /\ next' = next
        /\ exception' = exception /\ sleepers' = sleepers /\ exited' = exited /\ stop' = stop
    BY DEF Ran, Threw, poolVars, groupVars
  <1>6. CASE Ran(t) /\ ~(f.unit + 1 < Units(c))
    <2>1. Return(t, FALSE) /\ ended' = [ended EXCEPT ![c] = @ \cup {f.unit}]
      BY <1>2, <1>6 DEF Ran
    <2>2. /\ ended'[c] = ended[c] \cup {f.unit} /\ ended[c] \subseteq ended'[c]
          /\ \A x \in Calls : x # c => ended'[x] = ended[x]
          /\ ended' = [x \in Calls |-> ended'[x]]
          /\ \A x \in Calls : ended'[x] \subseteq 0..(Units(x) - 1)
      BY <1>3, <1>4, <2>1, UnitEnded
    <2>3. ended'[c] = 0..(Units(c) - 1)
      <3>1. \A u \in 0..(Units(c) - 1) : u < f.unit => u \in ended[c]
        BY <1>2, <1>3, <1>4 DEF StepUnits
      <3>2. \A u \in 0..(Units(c) - 1) : u = f.unit \/ u < f.unit
        BY <1>3, <1>4, <1>6
      <3> QED
        BY <1>3, <2>2, <3>1, <3>2
    <2> QED
      BY ZenonT(60), <1>1, <1>2, <1>5, <2>1, <2>2, <2>3, ReturnStep
  <1>7. CASE Threw(t)
    <2>1. Return(t, TRUE) /\ ended' = ended
      BY <1>7 DEF Threw
    <2>2. /\ \A x \in Calls : x # c => ended'[x] = ended[x]
          /\ ended[c] \subseteq ended'[c] /\ ended' = [x \in Calls |-> ended'[x]]
          /\ \A x \in Calls : ended'[x] \subseteq 0..(Units(x) - 1)
      BY <1>3, <2>1 DEF PoolInvariant, UnitsHeld, RestType
    <2> QED
      BY <1>1, <1>2, <1>5, <2>1, <2>2, ReturnStep
  <1> QED
    BY <1>2, <1>6, <1>7

\* wait() sees that nothing remains: all units have been settled by ending.
LEMMA JoinReturns ==
  ASSUME PoolInvariant, NEW t \in Threads, Join(t), NoneLeft(Top(t).call)
  PROVE  PoolInvariant'
  <1>1. Busy(t) /\ Top(t).pc = "join"
    BY DEF Join, At
  <1>2. PICK f, c : f = Top(t) /\ c = f.call
    OBVIOUS
  <1>3. /\ RestType /\ f \in FrameType /\ FrameOK(f) /\ c \in Calls /\ Count[c] # 0
        /\ CallerUnits(f) /\ Counted /\ StackType /\ Nested /\ QueueOK /\ Alone
        /\ f = FrameAt(t, Depth(t)) /\ Depth(t) \in 1..Depth(t)
    BY <1>1, <1>2, TopFacts DEF FrameOK, FrameType
  <1>4. f.mode = "own"
    BY <1>1, <1>2, <1>3 DEF FrameOK, FrameType, Modes, UnitPcs
  <1>5. Open(c) = {}
    BY <1>2, <1>3, OpenIsFinite DEF NoneLeft, Counted
  <1>6. /\ tasks' = tasks /\ remaining' = remaining /\ begun' = begun /\ next' = next
        /\ exception' = exception /\ sleepers' = sleepers /\ exited' = exited /\ stop' = stop
        /\ ended' = ended /\ Return(t, exception[c])
    BY <1>2 DEF Join, poolVars, groupVars
  <1>7. /\ \A x \in Calls : x # c => ended'[x] = ended[x]
        /\ ended[c] \subseteq ended'[c] /\ ended' = [x \in Calls |-> ended'[x]]
        /\ \A x \in Calls : ended'[x] \subseteq 0..(Units(x) - 1)
    BY <1>3, <1>6 DEF PoolInvariant, UnitsHeld, RestType
  <1>8. exception[c] \in BOOLEAN
    BY <1>3 DEF RestType
  <1>9. ASSUME ~exception[c], NEW u, Settled(c, u) PROVE u \in ended[c]
    <2>1. ASSUME NEW s \in Threads, NEW e \in 1..Depth(s), FrameAt(s, e).call = c,
                 HasUnit(FrameAt(s, e)) \/ Failing(FrameAt(s, e))
          PROVE  FALSE
      <3>1. FrameAt(s, e) # f
        BY <1>1, <1>2, <2>1 DEF HasUnit, UnitPcs, Failing
      <3>2. ~IsMain(FrameAt(s, e))
        BY <1>2, <1>3, <1>4, <2>1, <3>1 DEF Alone, IsMain
      <3> QED
        BY <1>3, <1>5, <2>1, <3>2, TasksAreOpen DEF IsMain
    <2> QED
      BY <1>9, <2>1 DEF Settled
  <1>10. ~exception[c] => ended'[c] = 0..(Units(c) - 1)
    <2> SUFFICES ASSUME ~exception[c], NEW u \in 0..(Units(c) - 1) PROVE u \in ended[c]
      BY <1>3, <1>6, <1>7
    <2>1. Dispatches(f)
      BY <1>4 DEF Dispatches
    <2>2. CASE c \in Dynamic
      <3>1. Units(c) = Count[c] /\ Count[c] \in Nat /\ TaskCount(c) \in Nat /\ TaskCount(c) >= 1
        BY <1>3, <2>2, TaskCountBounds
      <3>2. 0 \in 0..(TaskCount(c) - 1)
        BY <3>1
      <3>3. next[c] >= Count[c]
        BY <1>2, <1>3, <1>5, <2>1, <2>2, <3>2 DEF CallerUnits
      <3>4. next[c] \in Nat
        BY <1>3 DEF RestType
      <3>5. ~(u >= next[c])
        BY <3>1, <3>3, <3>4
      <3>6. Settled(c, u)
        BY <1>2, <1>3, <2>1, <2>2, <3>5 DEF CallerUnits
      <3> QED
        BY <1>9, <3>6
    <2>3. CASE c \notin Dynamic
      BY <1>2, <1>3, <1>5, <2>1, <2>3 DEF CallerUnits
    <2> QED
      BY <2>2, <2>3
  <1>11. PICK failed \in BOOLEAN : failed = exception[c]
    BY <1>8
  <1> QED
    BY <1>1, <1>2, <1>4, <1>5, <1>6, <1>7, <1>10, <1>11, ReturnStep

LEMMA EnterDispatchStep ==
  ASSUME PoolInvariant, NEW t \in Threads, EnterDispatch(t)
  PROVE  PoolInvariant'
  <1>1. Busy(t) /\ Top(t).pc = "enter" /\ Count[Top(t).call] # 0
    BY DEF EnterDispatch, At
  <1>2. PICK f, c : f = Top(t) /\ c = f.call
    OBVIOUS
  <1>3. /\ RestType /\ f \in FrameType /\ FrameOK(f) /\ c \in Calls /\ f.mode = "inline"
        /\ f.unit = 0 /\ f.task = 0 /\ ~f.failed /\ StackType /\ Nested /\ QueueOK
        /\ Census /\ Alone /\ Owned /\ f = FrameAt(t, Depth(t)) /\ Depth(t) \in 1..Depth(t)
        /\ Entered /\ UnitsHeld
    BY <1>1, <1>2, TopFacts DEF FrameOK, PoolInvariant
  <1>4. TaskCount(c) \in Nat /\ 1 <= TaskCount(c) /\ Count[c] # 0
        /\ (c \notin Dynamic => Units(c) = TaskCount(c))
    BY <1>1, <1>2, <1>3, TaskCountBounds
  <1>5. PICK g : g = [f EXCEPT !.mode = "dispatch", !.pc = "enqueue"]
    OBVIOUS
  <1>6. /\ g.call = c /\ g.mode = "dispatch" /\ g.pc = "enqueue" /\ g.task = 0
        /\ ~g.failed /\ g \in FrameType
    BY <1>2, <1>3, <1>5 DEF FrameType, Pcs, Modes
  <1>7. Handed(g) = 0
    BY <1>6 DEF Handed
  <1>8. FrameOK(g)
    BY <1>4, <1>6, <1>7 DEF FrameOK, HasUnit, UnitPcs
  <1>9. /\ tasks' = tasks /\ remaining' = [remaining EXCEPT ![c] = TaskCount(c)]
        /\ outcome' = outcome /\ begun' = begun /\ next' = [next EXCEPT ![c] = 0]
        /\ exception' = exception /\ ended' = ended
        /\ sleepers' = sleepers /\ exited' = exited /\ stop' = stop /\ Replace(t, g)
    BY <1>2, <1>5 DEF EnterDispatch, poolVars, historyVars
  <1>10. RestType'
    BY <1>3, <1>4, <1>9 DEF RestType, Units, TaskCount
  <1>11. StackType' /\ Swapped(t, g)
    BY <1>1, <1>3, <1>6, <1>9, ReplaceSwaps
  <1>12. Nested' /\ Moved(t)
    BY <1>1, <1>2, <1>3, <1>6, <1>8, <1>11, SwapMoves DEF IsMain
  <1>13. QueueOK'
    BY <1>3, <1>9 DEF QueueOK, TaskCount
  <1>14. /\ Census' /\ \A x \in Calls \ {c} : Open(x)' = Open(x)
         /\ Open(c)' = 0..(TaskCount(c) - 1)
    <2>1. remaining \in [Calls -> Nat]
      BY <1>3 DEF RestType
    <2> QED
      BY <1>1, <1>2, <1>3, <1>6, <1>7, <1>9, <1>11, <1>12, <2>1, CensusDispatched
  <1>15. /\ Depth(t)' = Depth(t) /\ Depth(t) \in Nat
         /\ \A d \in 1..Depth(t)' : d >= Depth(t) => d = Depth(t) /\ FrameAt(t, d)' = g
    <2>1. Depth(t)' = Depth(t) /\ Depth(t) \in Nat
      BY <1>11, OthersAlike, <1>3, <1>12 DEF Swapped
    <2> QED
      BY <1>11, <2>1 DEF Swapped
  <1>16. \A s \in Threads : \A e \in 1..Depth(s) :
           FrameAt(s, e).call = c => s = t /\ e = Depth(t)
    <2>1. PICK z \in 1..Depth(t) : z = Depth(t)
      BY <1>3
    <2>2. \A y \in Threads : \A e2 \in 1..Depth(y) : FrameAt(y, e2).call = c => y = t /\ e2 = z
      BY <1>2, <1>3, <2>1, InlineAlone
    <2> QED
      BY <2>1, <2>2
  <1>17. \A u \in 0..(Units(c) - 1) : begun[c][u] = 0
    BY <1>1, <1>2, <1>3 DEF Entered, Unstarted
  <1>18. FramesKnow'
    <2>1. StepUnits(g)'
      BY <1>6, <1>9, <1>17 DEF StepUnits, HasUnit, UnitPcs, Units, TaskCount
    <2>2. CallerUnits(g)'
      <3>1. next'[c] = 0
        BY <1>3, <1>9 DEF RestType
      <3>2. \A u \in 0..(Units(c) - 1) : u >= 0 /\ begun'[c][u] = 0
        BY <1>3, <1>9, <1>17, TaskCountBounds
      <3>3. c \notin Dynamic => \A u \in 0..(Units(c) - 1) : u \in Open(c)'
        BY <1>4, <1>14
      <3> QED
        BY <1>6, <1>14, <3>1, <3>2, <3>3 DEF CallerUnits, Units, TaskCount
    <2>3. \A x \in Calls : x # c => Kept(x) /\ Open(x)' = Open(x)
      BY <1>3, <1>9, <1>14 DEF Kept, RestType
    <2>4. ASSUME NEW s \in Threads, NEW d \in 1..Depth(s)', s = t => d < Depth(t),
                 FrameAt(s, d).call = c
          PROVE  FALSE
      <3>1. d \in 1..Depth(s)
        BY <1>3, <1>11, <1>12, <2>4, OthersAlike
      <3> QED
        BY <1>15, <1>16, <2>4, <3>1
    <2>5. \A d \in 1..Depth(t)' : \A e :
            d >= Depth(t) /\ e = FrameAt(t, d)' => StepUnits(e)' /\ CallerUnits(e)'
      BY <1>15, <2>1, <2>2
    <2> QED
      BY ZenonT(60), <1>2, <1>3, <1>11, <1>12, <2>3, <2>4, <2>5, FramesKnowMoved DEF UnitsHeld
  <1>19. UnitsApart'
    <2>1. \A d \in 1..Depth(t)' : d = Depth(t) => ~HasUnit(FrameAt(t, d)')
      BY <1>6, <1>15 DEF HasUnit, UnitPcs
    <2>2. ~\E d \in 1..Depth(t)' : d = Depth(t) + 1
      BY <1>15
    <2> QED
      BY <1>3, <1>11, <1>12, <2>1, <2>2, UnitsApartMoved DEF UnitsHeld
  <1>20. UnitsHeld'
    BY <1>3, <1>9, <1>18, <1>19 DEF UnitsHeld, QueueUnbegun, UnitsExactlyOnce, Units, TaskCount
  <1>21. Entered'
    <2>1. \A d \in 1..Depth(t)' : \A e : d >= Depth(t) /\ e = FrameAt(t, d)' =>
            e.call = c /\ e.pc # "enter"
      BY <1>6, <1>15
    <2> QED
      BY <1>1, <1>2, <1>3, <1>9, <1>11, <1>12, <2>1, EnteredMoved
  <1> QED
    BY <1>10, <1>11, <1>12, <1>13, <1>14, <1>20, <1>21, TypesSplit DEF PoolInvariant, Census

LEMMA EnqueueStep ==
  ASSUME PoolInvariant, NEW t \in Threads, Enqueue(t)
  PROVE  PoolInvariant'
  <1>1. Busy(t) /\ Top(t).pc = "enqueue" /\ Top(t).task + 1 < TaskCount(Top(t).call)
    BY DEF Enqueue, At
  <1>2. PICK f, c, n : f = Top(t) /\ c = f.call /\ n = f.task
    OBVIOUS
  <1>3. /\ RestType /\ f \in FrameType /\ FrameOK(f) /\ c \in Calls /\ Count[c] # 0
        /\ n \in Nat /\ StackType /\ Nested /\ QueueOK
        /\ Census /\ Alone /\ Owned /\ f = FrameAt(t, Depth(t)) /\ Depth(t) \in 1..Depth(t)
        /\ Entered /\ UnitsHeld /\ StepUnits(f) /\ CallerUnits(f)
    BY <1>1, <1>2, TopFacts DEF FrameOK, FrameType, PoolInvariant
  <1>4. f.mode = "dispatch" /\ ~f.failed /\ Handed(f) = n
    BY <1>1, <1>2, <1>3 DEF FrameOK, FrameType, Modes, UnitPcs, Handed
  <1>5. PICK g : g = [f EXCEPT !.pc = "notify"]
    OBVIOUS
  <1>6. /\ g.call = c /\ g.mode = "dispatch" /\ g.pc = "notify" /\ g.task = n
        /\ ~g.failed /\ g \in FrameType
    BY <1>2, <1>3, <1>4, <1>5 DEF FrameType, Pcs, Modes
  <1>7. Handed(g) = n + 1
    BY <1>6 DEF Handed
  <1>8. FrameOK(g)
    BY <1>1, <1>2, <1>3, <1>6, <1>7 DEF FrameOK, HasUnit, UnitPcs
  <1>9. /\ tasks' = Append(tasks, <<c, n>>) /\ remaining' = remaining
        /\ outcome' = outcome /\ begun' = begun /\ next' = next
        /\ exception' = exception /\ ended' = ended
        /\ sleepers' = sleepers /\ exited' = exited /\ stop' = stop /\ Replace(t, g)
    BY <1>2, <1>5 DEF Enqueue, groupVars, historyVars
  <1>10. tasks \in Seq(Calls \X Nat)
    BY <1>3 DEF RestType
  <1>11. StackType' /\ Swapped(t, g)
    BY <1>1, <1>3, <1>6, <1>9, ReplaceSwaps
  <1>12. Nested' /\ Moved(t)
    BY <1>1, <1>2, <1>3, <1>4, <1>6, <1>8, <1>11, SwapMoves DEF IsMain
  <1>13. /\ QueueOK' /\ tasks' \in Seq(Calls \X Nat)
         /\ Census' /\ \A x \in Calls : Open(x)' = Open(x)
    BY <1>1, <1>2, <1>3, <1>4, <1>6, <1>7, <1>9, <1>10, <1>11, <1>12, CensusQueued
  <1>14. RestType'
    BY <1>3, <1>9, <1>13 DEF RestType, Units, TaskCount
  <1>15. /\ Depth(t)' = Depth(t) /\ Depth(t) \in Nat
         /\ \A d \in 1..Depth(t)' : d >= Depth(t) => d = Depth(t) /\ FrameAt(t, d)' = g
    <2>1. Depth(t)' = Depth(t) /\ Depth(t) \in Nat
      BY <1>11, OthersAlike, <1>3, <1>12 DEF Swapped
    <2> QED
      BY <1>11, <2>1 DEF Swapped
  <1>16. \A x \in Calls : Kept(x)
    BY <1>9 DEF Kept
  <1>17. \A u : Settled(c, u) => Settled(c, u)'
    <2>1. ~HasUnit(f) /\ ~Failing(f)
      BY <1>1, <1>2 DEF HasUnit, UnitPcs, Failing
    <2>2. ended[c] \subseteq ended'[c] /\ (exception[c] => exception'[c])
      BY <1>9
    <2> QED
      BY <1>2, <1>3, <1>11, <1>12, <2>1, <2>2, SettledKept
  <1>18. FramesKnow'
    <2>1. StepUnits(g)'
      <3>1. c \notin Dynamic => \A u \in 0..(Units(c) - 1) : u >= n + 1 => begun[c][u] = 0
        <4>1. \A u \in 0..(Units(c) - 1) : u >= n + 1 => u >= n
          BY <1>3, TaskCountBounds
        <4> QED
          BY <1>2, <1>3, <1>4, <4>1 DEF StepUnits
      <3> QED
        BY <1>6, <1>7, <1>9, <3>1 DEF StepUnits, HasUnit, UnitPcs, Units, TaskCount, Handed
    <2>2. CallerUnits(g)'
      <3>1. g.call = f.call /\ (Dispatches(g) <=> Dispatches(f))
        BY <1>2, <1>4, <1>6 DEF Dispatches
      <3>2. Kept(f.call) /\ Open(f.call)' = Open(f.call)
        BY <1>2, <1>3, <1>13, <1>16
      <3> QED
        BY <1>2, <1>3, <1>17, <3>1, <3>2, CallerUnitsKept
    <2>3. \A d \in 1..Depth(t)' : \A e :
            d >= Depth(t) /\ e = FrameAt(t, d)' => StepUnits(e)' /\ CallerUnits(e)'
      BY <1>15, <2>1, <2>2
    <2>4. Kept(c) /\ Open(c)' = Open(c)
      BY <1>3, <1>13, <1>16
    <2> QED
      BY <1>2, <1>3, <1>11, <1>12, <1>13, <1>16, <1>17, <2>3, <2>4, FramesKnowMoved DEF UnitsHeld
  <1>19. UnitsApart'
    <2>1. \A d \in 1..Depth(t)' : d = Depth(t) => ~HasUnit(FrameAt(t, d)')
      BY <1>6, <1>15 DEF HasUnit, UnitPcs
    <2>2. ~\E d \in 1..Depth(t)' : d = Depth(t) + 1
      BY <1>15
    <2> QED
      BY <1>3, <1>11, <1>12, <2>1, <2>2, UnitsApartMoved DEF UnitsHeld
  <1>a. QueueUnbegun'
    <2>1. c \notin Dynamic => begun[c][n] = 0
      <3>1. c \notin Dynamic => n \in 0..(Units(c) - 1) /\ n >= Handed(f)
        <4>1. c \notin Dynamic => Units(c) = TaskCount(c) /\ TaskCount(c) \in Nat
          BY <1>3, TaskCountBounds
        <4>2. n + 1 < TaskCount(c) /\ n >= n
          BY <1>1, <1>2, <1>3
        <4> QED
          BY <1>3, <1>4, <4>1, <4>2
      <3> QED
        BY <1>2, <1>3, <1>4, <3>1 DEF StepUnits
    <2>2. ASSUME NEW i \in 1..Len(tasks')
          PROVE  tasks'[i] = <<c, n>> \/ (i \in 1..Len(tasks) /\ tasks'[i] = tasks[i])
      <3>1. <<c, n>> \in Calls \X Nat
        BY <1>3
      <3>2. /\ Len(tasks') = Len(tasks) + 1 /\ Len(tasks) \in Nat
            /\ \A j \in 1..Len(tasks) + 1 :
                 tasks'[j] = IF j <= Len(tasks) THEN tasks[j] ELSE <<c, n>>
        BY <1>9, <1>10, <3>1, Appended
      <3> QED
        BY <3>2
    <2> QED
      BY <1>3, <1>9, <2>1, <2>2 DEF UnitsHeld, QueueUnbegun
  <1>20. UnitsHeld'
    BY <1>3, <1>9, <1>18, <1>19, <1>a DEF UnitsHeld, UnitsExactlyOnce, Units, TaskCount
  <1>21. Entered'
    <2>1. \A d \in 1..Depth(t)' : \A e : d >= Depth(t) /\ e = FrameAt(t, d)' =>
            e.call = c /\ e.pc # "enter"
      BY <1>6, <1>15
    <2> QED
      BY <1>1, <1>2, <1>3, <1>9, <1>11, <1>12, <2>1, EnteredMoved
  <1> QED
    BY <1>11, <1>12, <1>13, <1>14, <1>20, <1>21, TypesSplit DEF PoolInvariant, Census

LEMMA EnqueueThrowsStep ==
  ASSUME PoolInvariant, NEW t \in Threads, EnqueueThrows(t)
  PROVE  PoolInvariant'
  <1>1. Busy(t) /\ Top(t).pc = "enqueue" /\ Top(t).task + 1 < TaskCount(Top(t).call)
    BY DEF EnqueueThrows, At
  <1>2. PICK f, c, n : f = Top(t) /\ c = f.call /\ n = f.task
    OBVIOUS
  <1>3. /\ RestType /\ f \in FrameType /\ FrameOK(f) /\ c \in Calls /\ Count[c] # 0
        /\ n \in Nat /\ StackType /\ Nested /\ QueueOK
        /\ Census /\ Alone /\ Owned /\ f = FrameAt(t, Depth(t)) /\ Depth(t) \in 1..Depth(t)
        /\ Entered /\ UnitsHeld /\ StepUnits(f) /\ CallerUnits(f) /\ Depth(t) \in Nat
    BY <1>1, <1>2, TopFacts DEF FrameOK, FrameType, PoolInvariant
  <1>4. f.mode = "dispatch" /\ ~f.failed /\ Handed(f) = n
    BY <1>1, <1>2, <1>3 DEF FrameOK, FrameType, Modes, UnitPcs, Handed
  <1>5. PICK h, g : h = [f EXCEPT !.task = @ + 1] /\ g = Frame(c, "task", "claim", n)
    OBVIOUS
  <1>6. /\ h.call = c /\ h.mode = "dispatch" /\ h.pc = "enqueue" /\ h.task = n + 1
        /\ ~h.failed /\ h \in FrameType
    <2>1. PICK m \in Nat : m = n + 1
      BY <1>3
    <2>2. h = [f EXCEPT !.task = m]
      BY <1>2, <1>5, <2>1
    <2> QED
      BY <1>1, <1>2, <1>3, <1>4, <2>1, <2>2 DEF FrameType
  <1>7. /\ g.call = c /\ g.mode = "task" /\ g.pc = "claim" /\ g.task = n
        /\ ~g.failed /\ g \in FrameType
    BY <1>3, <1>5 DEF FrameType, Frame, Pcs, Modes
  <1>8. Handed(h) = n + 1
    BY <1>6 DEF Handed
  <1>9. FrameOK(h) /\ FrameOK(g)
    <2>1. FrameOK(h)
      BY <1>1, <1>2, <1>3, <1>6, <1>8 DEF FrameOK, HasUnit, UnitPcs
    <2>2. FrameOK(g)
      BY <1>1, <1>2, <1>3, <1>7 DEF FrameOK, HasUnit, UnitPcs
    <2> QED
      BY <2>1, <2>2
  <1>10. /\ tasks' = tasks /\ remaining' = remaining
         /\ outcome' = outcome /\ begun' = begun /\ next' = next
         /\ exception' = exception /\ ended' = ended
         /\ sleepers' = sleepers /\ exited' = exited /\ stop' = stop /\ Push(t, h, g)
    BY <1>2, <1>5 DEF EnqueueThrows, poolVars, groupVars, historyVars
  <1>11. StackType' /\ Pushed(t, h, g)
    BY <1>1, <1>3, <1>6, <1>7, <1>10, PushPushes
  <1>12. Nested' /\ Moved(t)
    BY <1>1, <1>2, <1>3, <1>4, <1>6, <1>7, <1>9, <1>11, PushMoves DEF IsMain
  <1>13. Census' /\ \A x \in Calls : Open(x)' = Open(x)
    BY <1>1, <1>2, <1>3, <1>4, <1>6, <1>7, <1>8, <1>10, <1>11, <1>12, CensusPassed
  <1>a. QueueOK' /\ RestType'
    BY <1>3, <1>10 DEF QueueOK, RestType, Units, TaskCount
  <1>15. \A d \in 1..Depth(t)' : /\ d >= Depth(t) => d = Depth(t) \/ d = Depth(t) + 1
                                 /\ d = Depth(t) => FrameAt(t, d)' = h
                                 /\ d = Depth(t) + 1 => FrameAt(t, d)' = g
    <2>1. Depth(t)' = Depth(t) + 1
      BY <1>11 DEF Pushed
    <2>2. \A d \in 1..Depth(t)' :
            FrameAt(t, d)' = IF d = Depth(t) + 1 THEN g
                             ELSE IF d = Depth(t) THEN h ELSE FrameAt(t, d)
      BY <1>11 DEF Pushed
    <2> QED
      BY <1>3, <2>1, <2>2
  <1>16. \A x \in Calls : Kept(x)
    BY <1>10 DEF Kept
  <1>17. \A u : Settled(c, u) => Settled(c, u)'
    <2>1. ~HasUnit(f) /\ ~Failing(f)
      BY <1>1, <1>2 DEF HasUnit, UnitPcs, Failing
    <2>2. ended[c] \subseteq ended'[c] /\ (exception[c] => exception'[c])
      BY <1>10
    <2> QED
      BY <1>2, <1>3, <1>11, <1>12, <2>1, <2>2, SettledKept
  <1>18. FramesKnow'
    <2>1. StepUnits(h)'
      <3>1. c \notin Dynamic => \A u \in 0..(Units(c) - 1) : u >= n + 1 => begun[c][u] = 0
        <4>1. \A u \in 0..(Units(c) - 1) : u >= n + 1 => u >= n
          BY <1>3, TaskCountBounds
        <4> QED
          BY <1>2, <1>3, <1>4, <4>1 DEF StepUnits
      <3> QED
        BY <1>6, <1>8, <1>10, <3>1 DEF StepUnits, HasUnit, UnitPcs, Units, TaskCount, Handed
    <2>2. CallerUnits(h)'
      <3>1. h.call = f.call /\ (Dispatches(h) <=> Dispatches(f))
        BY <1>2, <1>4, <1>6 DEF Dispatches
      <3>2. Kept(f.call) /\ Open(f.call)' = Open(f.call)
        BY <1>2, <1>3, <1>13, <1>16
      <3> QED
        BY <1>2, <1>3, <1>17, <3>1, <3>2, CallerUnitsKept
    <2>3. StepUnits(g)' /\ CallerUnits(g)'
      <3>1. c \notin Dynamic => begun[c][n] = 0
        <4>1. c \notin Dynamic => Units(c) = TaskCount(c) /\ TaskCount(c) \in Nat
          BY <1>3, TaskCountBounds
        <4>2. n + 1 < TaskCount(c) /\ n >= n
          BY <1>1, <1>2, <1>3
        <4>3. c \notin Dynamic => n \in 0..(Units(c) - 1) /\ n >= Handed(f)
          BY <1>3, <1>4, <4>1, <4>2
        <4> QED
          BY <1>2, <1>3, <1>4, <4>3 DEF StepUnits
      <3> QED
        BY <1>7, <1>10, <3>1 DEF StepUnits, CallerUnits, Dispatches, HasUnit, UnitPcs, Units,
                                 TaskCount
    <2>4. \A d \in 1..Depth(t)' : \A e :
            d >= Depth(t) /\ e = FrameAt(t, d)' => StepUnits(e)' /\ CallerUnits(e)'
      BY <1>15, <2>1, <2>2, <2>3
    <2>5. Kept(c) /\ Open(c)' = Open(c)
      BY <1>3, <1>13, <1>16
    <2> QED
      BY <1>2, <1>3, <1>11, <1>12, <1>13, <1>16, <1>17, <2>4, <2>5, FramesKnowMoved DEF UnitsHeld
  <1>19. UnitsApart'
    <2>1. ~HasUnit(h) /\ ~HasUnit(g)
      BY <1>6, <1>7 DEF HasUnit, UnitPcs
    <2> QED
      BY <1>3, <1>11, <1>12, <1>15, <2>1, UnitsApartMoved DEF UnitsHeld
  <1>20. UnitsHeld'
    BY <1>3, <1>10, <1>18, <1>19 DEF UnitsHeld, QueueUnbegun, UnitsExactlyOnce, Units, TaskCount
  <1>21. Entered'
    <2>1. \A d \in 1..Depth(t)' : \A e : d >= Depth(t) /\ e = FrameAt(t, d)' =>
            e.call = c /\ e.pc # "enter"
      BY <1>6, <1>7, <1>15
    <2> QED
      BY <1>1, <1>2, <1>3, <1>10, <1>11, <1>12, <2>1, EnteredMoved
  <1> QED
    BY <1>11, <1>12, <1>13, <1>a, <1>20, <1>21, TypesSplit DEF PoolInvariant, Census

LEMMA TakeStep ==
  ASSUME PoolInvariant, NEW w \in Threads, Take(w)
  PROVE  PoolInvariant'
  <1>1. ~Busy(w) /\ tasks # <<>>
    BY DEF Take, Idle
  <1>2. /\ StackType /\ RestType /\ Nested /\ QueueOK /\ Alone /\ Owned /\ Census
        /\ Entered /\ UnitsHeld /\ tasks \in Seq(Calls \X Nat)
    BY TypesSplit DEF PoolInvariant, Census, RestType
  <1>3. PICK c, n : c = Head(tasks)[1] /\ n = Head(tasks)[2]
    OBVIOUS
  <1>4. /\ 1 \in 1..Len(tasks) /\ tasks[1] = <<c, n>> /\ Head(tasks) = <<c, n>>
        /\ c \in Calls /\ n \in Nat /\ n + 1 < TaskCount(c) /\ Count[c] # 0
    <2>1. 1 \in 1..Len(tasks) /\ Head(tasks) = tasks[1]
      BY <1>1, <1>2
    <2> QED
      BY <1>2, <1>3, <2>1 DEF QueueOK
  <1>5. PICK g : g = Frame(c, "task", "claim", n)
    OBVIOUS
  <1>6. /\ g.call = c /\ g.mode = "task" /\ g.pc = "claim" /\ g.task = n
        /\ ~g.failed /\ g \in FrameType
    BY <1>4, <1>5 DEF FrameType, Frame, Pcs, Modes
  <1>7. FrameOK(g)
    BY <1>4, <1>6 DEF FrameOK, HasUnit, UnitPcs
  <1>8. /\ tasks' = Tail(tasks) /\ remaining' = remaining
        /\ outcome' = outcome /\ begun' = begun /\ next' = next
        /\ exception' = exception /\ ended' = ended
        /\ sleepers' = sleepers /\ exited' = exited /\ stop' = stop
        /\ stack' = [stack EXCEPT ![w] = <<g>>]
    BY <1>3, <1>5 DEF Take, groupVars, historyVars
  <1>9. StackType' /\ Pushed(w, g, g)
    BY <1>1, <1>2, <1>6, <1>8, TakePushes
  <1>10. Nested' /\ Moved(w)
    BY <1>1, <1>2, <1>6, <1>7, <1>9, PushMoves
  <1>11. /\ QueueOK' /\ tasks' \in Seq(Calls \X Nat)
         /\ Census' /\ \A x \in Calls : Open(x)' = Open(x)
    BY <1>1, <1>2, <1>4, <1>6, <1>8, <1>9, <1>10, CensusTaken
  <1>12. RestType'
    BY <1>2, <1>8, <1>11 DEF RestType, Units, TaskCount
  <1>13. /\ Depth(w) = 0 /\ Depth(w)' = 1
         /\ \A d \in 1..Depth(w)' : d = Depth(w) + 1 /\ FrameAt(w, d)' = g
    <2>1. Depth(w) = 0
      BY <1>1, <1>2, FrameTypes
    <2>2. Depth(w)' = 1
      BY <1>9, <2>1 DEF Pushed
    <2>3. \A d \in 1..Depth(w)' : d = Depth(w) + 1
      BY <2>1, <2>2
    <2> QED
      BY <1>9, <2>1, <2>2, <2>3 DEF Pushed
  <1>14. \A x \in Calls : Kept(x)
    BY <1>8 DEF Kept
  <1>15. \A u : Settled(c, u) => Settled(c, u)'
    <2>1. ended[c] \subseteq ended'[c] /\ (exception[c] => exception'[c])
      BY <1>8
    <2> QED
      BY <1>1, <1>2, <1>9, <1>10, <2>1, SettledKept
  <1>16. FramesKnow'
    <2>1. StepUnits(g)' /\ CallerUnits(g)'
      <3>1. c \notin Dynamic => begun[c][n] = 0
        BY <1>2, <1>4 DEF UnitsHeld, QueueUnbegun
      <3> QED
        BY <1>6, <1>8, <3>1 DEF StepUnits, CallerUnits, Dispatches, HasUnit, UnitPcs, Units,
                                TaskCount
    <2>2. \A d \in 1..Depth(w)' : \A e :
            d >= Depth(w) /\ e = FrameAt(w, d)' => StepUnits(e)' /\ CallerUnits(e)'
      BY <1>13, <2>1
    <2>3. Kept(c) /\ Open(c)' = Open(c)
      BY <1>4, <1>11, <1>14
    <2> QED
      BY <1>1, <1>2, <1>9, <1>10, <1>11, <1>14, <1>15, <2>2, <2>3, FramesKnowMoved DEF UnitsHeld
  <1>17. UnitsApart'
    <2>1. ~HasUnit(g)
      BY <1>6 DEF HasUnit, UnitPcs
    <2> QED
      BY <1>2, <1>9, <1>10, <1>13, <2>1, UnitsApartMoved DEF UnitsHeld
  <1>18. QueueUnbegun'
    <2>1. \A i \in 1..Len(tasks') : i + 1 \in 1..Len(tasks) /\ tasks'[i] = tasks[i + 1]
      BY <1>1, <1>2, <1>8
    <2> QED
      BY <1>2, <1>8, <2>1 DEF UnitsHeld, QueueUnbegun
  <1>19. UnitsHeld'
    BY <1>2, <1>8, <1>16, <1>17, <1>18 DEF UnitsHeld, UnitsExactlyOnce, Units, TaskCount
  <1>20. Entered'
    <2>1. \E s \in Threads : \E d \in 1..Depth(s) : FrameAt(s, d).call = c
      <3>1. HasCaller(c)
        BY <1>2, <1>4 DEF Owned
      <3> QED
        BY <3>1 DEF HasCaller
    <2>2. \A d \in 1..Depth(w)' : \A e : d >= Depth(w) /\ e = FrameAt(w, d)' =>
            e.call = c /\ e.pc # "enter"
      BY <1>6, <1>13
    <2> QED
      BY <1>2, <1>8, <1>9, <1>10, <2>1, <2>2, EnteredMoved
  <1> QED
    BY <1>9, <1>10, <1>11, <1>12, <1>19, <1>20, TypesSplit DEF PoolInvariant, Census

\* The other frames of a call that the top of t works for.
LEMMA OthersOf ==
  ASSUME PoolInvariant, NEW t \in Threads, Busy(t), NEW s \in Threads,
         NEW e \in 1..Depth(s), s = t => e < Depth(t),
         FrameAt(s, e).call = Top(t).call
  PROVE  /\ Top(t).mode # "inline" /\ FrameAt(s, e).mode # "inline"
         /\ \A k \in 0..(TaskCount(Top(t).call) - 1) :
              ~(Carries(Top(t), k) /\ Carries(FrameAt(s, e), k))
         /\ FrameOK(FrameAt(s, e)) /\ StepUnits(FrameAt(s, e)) /\ CallerUnits(FrameAt(s, e))
         /\ HasUnit(Top(t)) /\ HasUnit(FrameAt(s, e)) => FrameAt(s, e).unit # Top(t).unit
  <1>1. /\ StackType /\ Nested /\ QueueOK /\ Alone /\ Owned /\ FramesKnow /\ UnitsApart
        /\ Top(t) = FrameAt(t, Depth(t)) /\ Depth(t) \in 1..Depth(t)
    BY TopFacts DEF PoolInvariant, UnitsHeld
  <1>2. PICK z \in 1..Depth(t) : z = Depth(t)
    BY <1>1
  <1>3. Top(t) = FrameAt(t, z) /\ ~(s = t /\ e = z)
    BY <1>1, <1>2, FrameTypes
  <1>4. Top(t).mode # "inline" /\ FrameAt(s, e).mode # "inline"
    BY <1>1, <1>3, InlineAlone
  <1>5. \A k \in 0..(TaskCount(Top(t).call) - 1) :
          ~(Carries(Top(t), k) /\ Carries(FrameAt(s, e), k))
    BY <1>1, <1>3 DEF Alone
  <1>6. HasUnit(Top(t)) /\ HasUnit(FrameAt(s, e)) => FrameAt(s, e).unit # Top(t).unit
    BY <1>1, <1>3 DEF UnitsApart
  <1> QED
    BY <1>1, <1>4, <1>5, <1>6 DEF Nested, FramesKnow, FrameUnits

\* What the caller of a dispatched call knows holds of the call.
LEMMA CallerKnows ==
  ASSUME PoolInvariant, NEW t \in Threads, Busy(t), Top(t).mode # "inline",
         NEW c, c = Top(t).call
  PROVE  IF c \in Dynamic
         THEN /\ \A u \in 0..(Units(c) - 1) :
                   IF u >= next[c] THEN begun[c][u] = 0 ELSE Settled(c, u)
              /\ Open(c) # 0..(TaskCount(c) - 1) => exception[c] \/ next[c] >= Count[c]
         ELSE \A u \in 0..(Units(c) - 1) : u \in Open(c) \/ u \in ended[c] \/ exception[c]
  <1>1. /\ Owned /\ FramesKnow /\ Top(t) \in FrameType
        /\ Top(t) = FrameAt(t, Depth(t)) /\ Depth(t) \in 1..Depth(t)
    BY TopFacts DEF PoolInvariant, UnitsHeld
  <1>2. HasCaller(c)
    <2>1. CASE IsMain(Top(t))
      <3>1. Dispatches(Top(t))
        BY <1>1, <2>1 DEF FrameType, Modes, IsMain, Dispatches
      <3> QED
        BY <1>1, <3>1 DEF HasCaller
    <2>2. CASE ~IsMain(Top(t))
      BY <1>1, <2>2 DEF Owned
    <2> QED
      BY <2>1, <2>2
  <1>3. PICK s, d : s \in Threads /\ d \in 1..Depth(s) /\ FrameAt(s, d).call = c
                    /\ Dispatches(FrameAt(s, d))
    BY <1>2 DEF HasCaller
  <1>4. PICK f : f = FrameAt(s, d)
    OBVIOUS
  <1>5. CallerUnits(f) /\ f.call = c /\ Dispatches(f)
    BY <1>1, <1>3, <1>4 DEF FramesKnow, FrameUnits
  <1> QED
    BY <1>5 DEF CallerUnits

\* A task of run() takes its range.
LEMMA ClaimRange ==
  ASSUME PoolInvariant, NEW t \in Threads, Claim(t), Top(t).call \notin Dynamic
  PROVE  PoolInvariant'
  <1>1. Busy(t) /\ Top(t).pc = "claim"
    BY DEF Claim, At
  <1>2. PICK f, c : f = Top(t) /\ c = f.call
    OBVIOUS
  <1>3. /\ RestType /\ f \in FrameType /\ FrameOK(f) /\ c \in Calls /\ Count[c] # 0
        /\ f.task \in Nat /\ StepUnits(f)
    BY <1>1, <1>2, TopFacts DEF FrameOK, FrameType
  <1>a. f.mode \in {"own", "task"} /\ ~f.failed
    BY <1>1, <1>2, <1>3 DEF FrameOK, FrameType, Modes, UnitPcs
  <1>4. PICK g : g = [f EXCEPT !.unit = f.task, !.pc = "run"]
    OBVIOUS
  <1>5. /\ g.call = c /\ g.mode = f.mode /\ g.task = f.task /\ ~g.failed /\ g \in FrameType
        /\ g.pc = "run" /\ g.unit = f.task
    BY <1>2, <1>3, <1>a, <1>4 DEF FrameType, Pcs
  <1>6. /\ Units(c) = TaskCount(c) /\ TaskCount(c) \in Nat /\ f.task < TaskCount(c)
        /\ f.task \in 0..(TaskCount(c) - 1)
    <2>1. Units(c) = TaskCount(c) /\ TaskCount(c) \in Nat
      BY <1>2, <1>3, TaskCountBounds
    <2>2. f.task + 1 <= TaskCount(c)
      BY <1>2, <1>3, <1>a, <2>1 DEF FrameOK
    <2> QED
      BY <1>3, <2>1, <2>2
  <1>7. FrameOK(g)
    BY <1>2, <1>3, <1>a, <1>5, <1>6 DEF FrameOK, HasUnit, UnitPcs
  <1>8. Alike(f, g)
    BY <1>1, <1>2, <1>a, <1>5 DEF Alike, IsMain, Dispatches, Carries, Works
  <1>10. ~HasUnit(f) /\ ~Failing(f) /\ HasUnit(g)
    BY <1>1, <1>2, <1>5 DEF HasUnit, UnitPcs, Failing
  <1>11. /\ tasks' = tasks /\ remaining' = remaining /\ outcome' = outcome
         /\ begun' = begun /\ next' = next /\ exception' = exception /\ ended' = ended
         /\ sleepers' = sleepers /\ exited' = exited /\ stop' = stop /\ Replace(t, g)
    BY <1>2, <1>4 DEF Claim, poolVars, historyVars
  <1>9. StepUnits(g)'
    <2>1. begun[c][f.task] = 0
      BY <1>1, <1>2, <1>3 DEF StepUnits
    <2> QED
      BY <1>2, <1>a, <1>5, <1>10, <1>11, <2>1 DEF StepUnits, HasUnit, Units, TaskCount
  <1>12. RestType'
    BY <1>3, <1>11 DEF RestType, Units, TaskCount
  <1>13. ended' = [x \in Calls |-> ended'[x]]
    BY <1>11 DEF PoolInvariant, UnitsHeld
  <1>14. ASSUME NEW s \in Threads, NEW e \in 1..Depth(s), s = t => e < Depth(t),
                FrameAt(s, e).call = c, HasUnit(FrameAt(s, e))
         PROVE  FrameAt(s, e).unit # g.unit
    <2>1. PICK h : h = FrameAt(s, e)
      OBVIOUS
    <2>2. /\ h.mode # "inline" /\ FrameOK(h) /\ h.call = c /\ HasUnit(h)
          /\ ~(Carries(f, f.task) /\ Carries(h, f.task))
      BY <1>1, <1>2, <1>6, <1>14, <2>1, OthersOf
    <2>3. h.unit = h.task
      BY <1>2, <2>2 DEF FrameOK
    <2>4. h.mode \in {"own", "task"} /\ h.pc \notin {"join", "asleep"}
      BY <2>2 DEF FrameOK, FrameType, Modes, HasUnit, UnitPcs
    <2>5. Carries(f, f.task) /\ Carries(h, h.task)
      BY <1>1, <1>2, <1>a, <2>4 DEF Carries, Works
    <2> QED
      BY <1>5, <2>1, <2>2, <2>3, <2>5
  <1> QED
    BY <1>1, <1>2, <1>5, <1>7, <1>8, <1>9, <1>10, <1>11, <1>12, <1>13, <1>14, SwapQuiet

\* A task of run_dynamic() takes the next index, or finds none.
LEMMA ClaimIndex ==
  ASSUME PoolInvariant, NEW t \in Threads, Claim(t), Top(t).call \in Dynamic
  PROVE  PoolInvariant'
  <1>1. Busy(t) /\ Top(t).pc = "claim"
    BY DEF Claim, At
  <1>2. PICK f, c : f = Top(t) /\ c = f.call
    OBVIOUS
  <1>3. /\ RestType /\ f \in FrameType /\ FrameOK(f) /\ c \in Calls /\ Count[c] # 0
        /\ StackType /\ Nested /\ QueueOK /\ Census /\ Alone /\ Owned
        /\ Entered /\ UnitsHeld /\ StepUnits(f) /\ Depth(t) \in 1..Depth(t)
    BY <1>1, <1>2, TopFacts DEF FrameOK, FrameType, PoolInvariant
  <1>a. f.mode \in {"own", "task"} /\ ~f.failed
    BY <1>1, <1>2, <1>3 DEF FrameOK, FrameType, Modes, UnitPcs
  <1>b. PICK n \in Nat : n = next[c]
    BY <1>3 DEF RestType
  <1>c. Units(c) = Count[c] /\ Count[c] \in Nat /\ c \in Dynamic
    BY <1>1, <1>2, <1>3, TaskCountBounds
  <1>4. PICK g : g = [f EXCEPT !.unit = n, !.pc = IF n < Count[c] THEN "run" ELSE "finish"]
    OBVIOUS
  <1>5. /\ g.call = c /\ g.mode = f.mode /\ g.task = f.task /\ ~g.failed /\ g \in FrameType
        /\ g.pc = (IF n < Count[c] THEN "run" ELSE "finish") /\ g.unit = n
    BY <1>2, <1>3, <1>a, <1>b, <1>4 DEF FrameType, Pcs
  <1>6. HasUnit(g) <=> n < Count[c]
    BY <1>5 DEF HasUnit, UnitPcs
  <1>7. FrameOK(g)
    BY <1>2, <1>3, <1>a, <1>c, <1>5, <1>6 DEF FrameOK, UnitPcs
  <1>8. Alike(f, g)
    BY <1>1, <1>2, <1>a, <1>5 DEF Alike, IsMain, Dispatches, Carries, Works
  <1>9. ~HasUnit(f) /\ ~Failing(f)
    BY <1>1, <1>2 DEF HasUnit, UnitPcs, Failing
  <1>10. /\ tasks' = tasks /\ remaining' = remaining /\ outcome' = outcome
         /\ begun' = begun /\ next' = [next EXCEPT ![c] = @ + 1]
         /\ exception' = exception /\ ended' = ended
         /\ sleepers' = sleepers /\ exited' = exited /\ stop' = stop /\ Replace(t, g)
    BY <1>2, <1>b, <1>4 DEF Claim, poolVars, historyVars, IndexBelowCount
  <1>11. /\ next' \in [Calls -> Nat] /\ next'[c] = n + 1
         /\ \A x \in Calls : x # c => next'[x] = next[x]
    <2>1. next \in [Calls -> Nat]
      BY <1>3 DEF RestType
    <2>2. PICK m \in Nat : m = n + 1
      OBVIOUS
    <2>3. next' = [next EXCEPT ![c] = m]
      BY <1>b, <1>10, <2>2
    <2> QED
      BY <1>3, <2>1, <2>2, <2>3
  <1>12. RestType'
    BY <1>3, <1>10, <1>11 DEF RestType, Units, TaskCount
  <1>13. /\ StackType' /\ Swapped(t, g) /\ Nested' /\ Moved(t) /\ QueueOK'
         /\ Census' /\ \A x \in Calls : Open(x)' = Open(x)
         /\ Depth(t) \in 1..Depth(t)' /\ Depth(t) \in Nat
         /\ \A d \in 1..Depth(t)' : d >= Depth(t) => d = Depth(t) /\ FrameAt(t, d)' = g
    <2>1. g.pc # "nested"
      BY <1>5
    <2> QED
      BY <1>1, <1>2, <1>7, <1>8, <1>10, <2>1, SwapFrames
  <1>14. \A u : Settled(c, u) => Settled(c, u)'
    <2>1. ended[c] \subseteq ended'[c] /\ (exception[c] => exception'[c])
      BY <1>10
    <2> QED
      BY <1>2, <1>3, <1>9, <1>13, <2>1, SettledKept
  <1>15. n < Count[c] => begun[c][n] = 0 /\ Settled(c, n)'
    <2>1. n < Count[c] => begun[c][n] = 0
      <3>1. \A u \in 0..(Units(c) - 1) : u >= n => begun[c][u] = 0
        BY <1>1, <1>2, <1>a, <1>b, <1>c, CallerKnows
      <3> QED
        BY <1>c, <3>1
    <2>2. n < Count[c] => Settled(c, n)'
      <3>1. n < Count[c] => \E d \in 1..Depth(t)' :
              FrameAt(t, d)'.call = c /\ HasUnit(FrameAt(t, d)') /\ FrameAt(t, d)'.unit = n
        BY <1>5, <1>6, <1>13
      <3> QED
        BY <3>1, SettledIs
    <2> QED
      BY <2>1, <2>2
  <1>16. ASSUME NEW h, h.call = c PROVE CallerUnits(h)'
    <2>1. /\ \A u \in 0..(Units(c) - 1) :
               IF u >= n THEN begun[c][u] = 0 ELSE Settled(c, u)
          /\ Open(c) # 0..(TaskCount(c) - 1) => exception[c] \/ n >= Count[c]
      BY <1>1, <1>2, <1>a, <1>b, <1>c, CallerKnows
    <2>2. ASSUME NEW u \in 0..(Units(c) - 1)
          PROVE  IF u >= next'[c] THEN begun'[c][u] = 0 ELSE Settled(c, u)'
      <3>1. CASE u >= n + 1
        <4>1. u >= n /\ begun'[c] = begun[c]
          BY <1>10, <1>c, <3>1
        <4> QED
          BY <1>11, <2>1, <3>1, <4>1
      <3>2. CASE ~(u >= n + 1)
        <4>1. u = n \/ ~(u >= n)
          BY <1>c, <3>2
        <4>2. u = n => u < Count[c]
          BY <1>c
        <4>3. Settled(c, u)'
          BY <1>14, <1>15, <2>1, <4>1, <4>2
        <4> QED
          BY <1>11, <3>2, <4>3
      <3> QED
        BY <3>1, <3>2
    <2>3. Open(c)' # 0..(TaskCount(c) - 1) => exception'[c] \/ next'[c] >= Count[c]
      <3>1. Open(c)' = Open(c)
        BY <1>3, <1>13
      <3> QED
        BY <1>10, <1>11, <1>c, <2>1, <3>1
    <2> QED
      BY <1>16, <1>c, <2>2, <2>3 DEF CallerUnits, Dispatches, Units, TaskCount
  <1>17. FramesKnow'
    <2>1. StepUnits(g)'
      BY <1>a, <1>c, <1>5, <1>6, <1>10, <1>11, <1>15 DEF StepUnits
    <2>2. CallerUnits(g)'
      BY <1>5, <1>16
    <2>3. ASSUME NEW s \in Threads, NEW d \in 1..Depth(s)', NEW h,
                 s = t => d < Depth(t), FrameAt(s, d).call = c, h = FrameAt(s, d)'
          PROVE  StepUnits(h)' /\ CallerUnits(h)'
      <3>1. d \in 1..Depth(s) /\ Tame(FrameAt(s, d), FrameAt(s, d)')
        BY <1>3, <1>13, <2>3, OthersAlike
      <3>2. PICK e : e = FrameAt(s, d)
        OBVIOUS
      <3>3. e.mode # "inline" /\ FrameOK(e) /\ StepUnits(e) /\ e.call = c /\ Tame(e, h)
        BY <1>1, <1>2, <2>3, <3>1, <3>2, OthersOf
      <3>4. /\ h.mode = e.mode /\ h.task = e.task /\ h.unit = e.unit /\ h.failed = e.failed
            /\ h.call = c /\ (HasUnit(h) <=> HasUnit(e))
            /\ h.pc # e.pc => \/ e.pc = "asleep" /\ h.pc = "join"
                              \/ e.pc = "nested" /\ h.pc \in {"ran", "threw"}
        BY <3>3, TameIsAlike
      <3>5. e.unit \in Nat
        BY <3>3 DEF FrameOK, FrameType
      <3>6. StepUnits(h)'
        <4>1. HasUnit(e) => e.unit < n
          BY <1>b, <1>c, <3>3 DEF StepUnits
        <4>2. HasUnit(h) => h.unit < n + 1
          BY <3>4, <3>5, <4>1
        <4>3. h.pc = "finish" /\ ~h.failed => n >= Count[c]
          BY <1>b, <1>c, <3>3, <3>4 DEF StepUnits
        <4>4. h.pc = "finish" /\ ~h.failed => n + 1 >= Count[c]
          BY <1>c, <4>3
        <4>5. h.pc = "run" => begun[c][h.unit] = 0
          BY <3>3, <3>4 DEF StepUnits
        <4>6. h.pc \in {"join", "asleep"} /\ h.failed => exception[c]
          BY <3>3, <3>4 DEF StepUnits
        <4> QED
          BY <1>10, <1>11, <1>c, <3>3, <3>4, <4>2, <4>4, <4>5, <4>6 DEF StepUnits
      <3> QED
        BY <1>16, <3>4, <3>6
    <2>4. \A d \in 1..Depth(t)' : \A e :
            d >= Depth(t) /\ e = FrameAt(t, d)' => StepUnits(e)' /\ CallerUnits(e)'
      BY <1>13, <2>1, <2>2
    <2>5. \A x \in Calls : x # c => Kept(x) /\ Open(x)' = Open(x)
      BY <1>10, <1>11, <1>13 DEF Kept
    <2> QED
      BY <1>2, <1>3, <1>13, <2>3, <2>4, <2>5, FramesKnowMoved DEF UnitsHeld
  <1>18. UnitsApart'
    <2>1. ASSUME NEW s \in Threads, NEW e \in 1..Depth(s), s = t => e < Depth(t),
                 FrameAt(s, e).call = c, HasUnit(FrameAt(s, e))
          PROVE  FrameAt(s, e).unit # n
      <3>1. PICK h : h = FrameAt(s, e)
        OBVIOUS
      <3>2. h.mode # "inline" /\ StepUnits(h) /\ h.call = c /\ HasUnit(h) /\ FrameOK(h)
        BY <1>1, <1>2, <2>1, <3>1, OthersOf
      <3>3. h.unit < n /\ h.unit \in Nat
        BY <1>b, <1>c, <3>2 DEF StepUnits, FrameOK, FrameType
      <3> QED
        BY <3>1, <3>3
    <2>2. \A d \in 1..Depth(t)' : d = Depth(t) =>
            /\ FrameAt(t, d)'.call = c /\ FrameAt(t, d)'.unit = n
      BY <1>5, <1>13
    <2>3. ~\E d \in 1..Depth(t)' : d = Depth(t) + 1
      BY <1>13
    <2> QED
      BY <1>3, <1>13, <2>1, <2>2, <2>3, UnitsApartMoved DEF UnitsHeld
  <1>19. UnitsHeld'
    BY <1>3, <1>10, <1>17, <1>18 DEF UnitsHeld, QueueUnbegun, UnitsExactlyOnce, Units, TaskCount
  <1>20. Entered'
    <2>1. \A d \in 1..Depth(t)' : \A e : d >= Depth(t) /\ e = FrameAt(t, d)' =>
            e.call = c /\ e.pc # "enter"
      BY <1>5, <1>13
    <2> QED
      BY <1>1, <1>2, <1>3, <1>10, <1>13, <2>1, EnteredMoved
  <1> QED
    BY <1>12, <1>13, <1>19, <1>20, TypesSplit DEF PoolInvariant, Census

\* A unit is begun that had not been.
Begins(c, n) == begun' = [begun EXCEPT ![c][n] = @ + 1]

LEMMA BegunIs ==
  ASSUME PoolInvariant, NEW t \in Threads, At(t, "run"), NEW c, c = Top(t).call,
         NEW n, n = Top(t).unit, Begins(c, n)
  PROVE  /\ n \in 0..(Units(c) - 1) /\ begun[c][n] = 0 /\ begun'[c][n] = 1
         /\ \A u \in 0..(Units(c) - 1) : u # n => begun'[c][u] = begun[c][u]
         /\ \A x \in Calls : x # c => begun'[x] = begun[x]
         /\ begun' = [x \in Calls |-> begun'[x]]
         /\ \A x \in Calls : begun'[x] \in [0..(Units(x) - 1) -> Nat]
  <1>1. Busy(t) /\ Top(t).pc = "run"
    BY DEF At
  <1>2. /\ RestType /\ Top(t) \in FrameType /\ FrameOK(Top(t)) /\ c \in Calls /\ StepUnits(Top(t))
    BY <1>1, TopFacts
  <1>3. n \in 0..(Units(c) - 1) /\ begun[c][n] = 0
    <2>1. HasUnit(Top(t)) /\ n \in Nat /\ Units(c) \in Nat
      BY <1>1, <1>2, TaskCountBounds DEF HasUnit, UnitPcs, FrameType
    <2> QED
      BY <1>1, <1>2, <2>1 DEF FrameOK, StepUnits
  <1>4. begun = [x \in Calls |-> begun[x]] /\ \A x \in Calls : begun[x] \in [0..(Units(x) - 1) -> Nat]
    BY <1>2 DEF PoolInvariant, UnitsHeld, RestType
  <1>5. PICK b : b = [begun[c] EXCEPT ![n] = 1]
    OBVIOUS
  <1>6. /\ b \in [0..(Units(c) - 1) -> Nat] /\ b[n] = 1
        /\ \A u \in 0..(Units(c) - 1) : u # n => b[u] = begun[c][u]
    BY <1>2, <1>3, <1>4, <1>5
  <1>7. begun' = [begun EXCEPT ![c] = b]
    <2>1. begun[c][n] + 1 = 1
      BY <1>3
    <2>2. begun' = [begun EXCEPT ![c] = [begun[c] EXCEPT ![n] = begun[c][n] + 1]]
      BY DEF Begins
    <2> QED
      BY <1>5, <2>1, <2>2
  <1>8. begun'[c] = b /\ (\A x \in Calls : x # c => begun'[x] = begun[x])
        /\ begun' = [x \in Calls |-> begun'[x]]
    BY <1>2, <1>4, <1>7
  <1> QED
    BY <1>3, <1>4, <1>6, <1>8

\* The function is called for it, and the other frames are at other units.
LEMMA UnitBegins ==
  ASSUME PoolInvariant, NEW t \in Threads, At(t, "run"), NEW c, c = Top(t).call,
         NEW n, n = Top(t).unit, Begins(c, n),
         next' = next, exception' = exception, ended' = ended, outcome' = outcome,
         tasks' = tasks, StackType', Moved(t), \A x \in Calls : Open(x)' = Open(x),
         NEW h, h.call = c, h.mode = Top(t).mode, h.task = Top(t).task, h.unit = n,
         ~h.failed, h.pc \in {"nested", "ran", "threw"},
         \E d \in 1..Depth(t)' : d = Depth(t),
         \A d \in 1..Depth(t)' : /\ d = Depth(t) => FrameAt(t, d)' = h
                                 /\ d > Depth(t) => /\ FrameAt(t, d)'.pc = "enter"
                                                    /\ FrameAt(t, d)'.mode = "inline"
  PROVE  UnitsHeld'
  <1>1. Busy(t) /\ Top(t).pc = "run"
    BY DEF At
  <1>2. PICK f : f = Top(t)
    OBVIOUS
  <1>3. /\ RestType /\ f \in FrameType /\ FrameOK(f) /\ c \in Calls /\ Count[c] # 0
        /\ StackType /\ Nested /\ QueueOK /\ Alone /\ Owned
        /\ UnitsHeld /\ StepUnits(f) /\ Depth(t) \in 1..Depth(t)
        /\ f = FrameAt(t, Depth(t)) /\ f.call = c /\ f.unit = n /\ f.pc = "run"
    BY <1>1, <1>2, TopFacts DEF FrameOK, FrameType, PoolInvariant
  <1>4. /\ n \in 0..(Units(c) - 1) /\ begun[c][n] = 0 /\ begun'[c][n] = 1
        /\ \A u \in 0..(Units(c) - 1) : u # n => begun'[c][u] = begun[c][u]
        /\ \A x \in Calls : x # c => begun'[x] = begun[x]
        /\ begun' = [x \in Calls |-> begun'[x]]
    BY BegunIs
  <1>5. HasUnit(f) /\ HasUnit(h)
    BY <1>3 DEF HasUnit, UnitPcs
  <1>6. Units(c) \in Nat /\ (c \notin Dynamic => Units(c) = TaskCount(c)) /\ TaskCount(c) \in Nat
    BY <1>3, TaskCountBounds
  <1>7. f.mode = "inline" \/ f.mode \in {"own", "task"}
    BY <1>3 DEF FrameOK, FrameType, Modes
  <1>8. f.mode # "inline" => /\ c \in Dynamic => n < next[c]
                             /\ c \notin Dynamic => n = f.task /\ Carries(f, n)
    BY <1>3, <1>5, <1>7 DEF StepUnits, FrameOK, Carries, Works
  <1>9. \A u : Settled(c, u) => Settled(c, u)'
    <2>1. ASSUME NEW u, \/ HasUnit(Top(t)) /\ Top(t).unit = u
                        \/ Failing(Top(t))
          PROVE  \E d \in 1..Depth(t)' : FrameAt(t, d)'.call = c /\
                   (\/ HasUnit(FrameAt(t, d)') /\ FrameAt(t, d)'.unit = u
                    \/ Failing(FrameAt(t, d)'))
      <3>1. u = n
        BY <1>2, <1>3, <2>1 DEF Failing
      <3> QED
        BY <1>5, <3>1
    <2>2. ended[c] \subseteq ended'[c] /\ (exception[c] => exception'[c])
      OBVIOUS
    <2> QED
      BY ZenonT(60), <1>3, <2>1, <2>2, SettledKept
  <1>10. ASSUME NEW e, e.call = c, f.mode # "inline" PROVE CallerUnits(e)'
    <2>1. CASE c \in Dynamic
      <3>1. /\ \A u \in 0..(Units(c) - 1) :
                 IF u >= next[c] THEN begun[c][u] = 0 ELSE Settled(c, u)
            /\ Open(c) # 0..(TaskCount(c) - 1) => exception[c] \/ next[c] >= Count[c]
        BY <1>1, <1>2, <1>10, <2>1, CallerKnows
      <3>2. next[c] \in Nat
        BY <1>3 DEF RestType
      <3>3. ASSUME NEW u \in 0..(Units(c) - 1)
            PROVE  IF u >= next'[c] THEN begun'[c][u] = 0 ELSE Settled(c, u)'
        <4>1. u >= next[c] => u # n
          BY <1>4, <1>8, <1>10, <2>1, <3>2
        <4> QED
          BY <1>4, <1>9, <3>1, <4>1
      <3>4. Open(c)' = Open(c)
        BY <1>3
      <3> QED
        BY <1>10, <2>1, <3>1, <3>3, <3>4 DEF CallerUnits, Dispatches, Units, TaskCount
    <2>2. CASE c \notin Dynamic
      <3>1. \A u \in 0..(Units(c) - 1) : u \in Open(c) \/ u \in ended[c] \/ exception[c]
        BY <1>1, <1>2, <1>10, <2>2, CallerKnows
      <3>2. Open(c)' = Open(c)
        BY <1>3
      <3> QED
        BY <1>10, <2>2, <3>1, <3>2 DEF CallerUnits, Dispatches, Units, TaskCount
    <2> QED
      BY <2>1, <2>2
  <1>11. StepUnits(h)' /\ CallerUnits(h)'
    <2>1. f.mode = "inline" =>
            \A u \in 0..(Units(c) - 1) : /\ u > n => begun[c][u] = 0
                                         /\ u < n => u \in ended[c]
      BY <1>3, <1>5 DEF StepUnits
    <2>2. f.mode = "inline" =>
            \A u \in 0..(Units(c) - 1) : /\ u > n => begun'[c][u] = 0
                                         /\ u < n => u \in ended'[c]
      BY <1>4, <2>1
    <2>3. StepUnits(h)'
      BY <1>2, <1>7, <1>8, <2>2 DEF StepUnits, Units, TaskCount
    <2>4. CallerUnits(h)'
      <3>1. f.mode = "inline" => ~Dispatches(h)
        BY <1>2 DEF Dispatches
      <3> QED
        BY <1>10, <3>1 DEF CallerUnits, Dispatches
    <2> QED
      BY <2>3, <2>4
  <1>12. ASSUME NEW s \in Threads, NEW d \in 1..Depth(s)', NEW g,
                s = t => d < Depth(t), FrameAt(s, d).call = c, g = FrameAt(s, d)'
         PROVE  StepUnits(g)' /\ CallerUnits(g)'
    <2>1. d \in 1..Depth(s) /\ Tame(FrameAt(s, d), FrameAt(s, d)')
      BY <1>3, <1>12, OthersAlike
    <2>2. PICK e : e = FrameAt(s, d)
      OBVIOUS
    <2>3. /\ f.mode # "inline" /\ e.mode # "inline" /\ FrameOK(e) /\ StepUnits(e)
          /\ \A k \in 0..(TaskCount(c) - 1) : ~(Carries(f, k) /\ Carries(e, k))
          /\ HasUnit(e) => e.unit # n
          /\ e.call = c /\ Tame(e, g)
      BY <1>1, <1>2, <1>5, <1>12, <2>1, <2>2, OthersOf
    <2>4. /\ g.mode = e.mode /\ g.task = e.task /\ g.unit = e.unit /\ g.failed = e.failed
          /\ g.call = c /\ (HasUnit(g) <=> HasUnit(e))
          /\ g.pc # e.pc => \/ e.pc = "asleep" /\ g.pc = "join"
                            \/ e.pc = "nested" /\ g.pc \in {"ran", "threw"}
      BY <2>3, TameIsAlike
    <2>5. g.pc = "run" => begun'[c][g.unit] = 0
      <3>1. ASSUME g.pc = "run" PROVE begun'[c][g.unit] = 0
        <4>1. e.pc = "run" /\ HasUnit(e)
          BY <2>4, <3>1 DEF HasUnit, UnitPcs
        <4>2. e.unit \in 0..(Units(c) - 1)
          BY <1>6, <2>3, <4>1 DEF FrameOK, FrameType
        <4> QED
          BY <1>4, <2>3, <2>4, <4>1, <4>2 DEF StepUnits
      <3> QED
        BY <3>1
    <2>6. g.pc = "claim" /\ c \notin Dynamic => begun'[c][g.task] = 0
      <3>1. ASSUME g.pc = "claim", c \notin Dynamic PROVE begun'[c][g.task] = 0
        <4>1. e.pc = "claim" /\ e.mode \in {"own", "task"} /\ e.task \in Nat
          BY <2>3, <2>4, <3>1 DEF FrameOK, FrameType, Modes, UnitPcs
        <4>2. e.task \in 0..(TaskCount(c) - 1) /\ Carries(e, e.task)
          BY <1>6, <2>3, <4>1 DEF FrameOK, Carries, Works
        <4>3. e.task # n
          BY <1>8, <2>3, <3>1, <4>2
        <4> QED
          BY <1>4, <1>6, <2>3, <2>4, <3>1, <4>1, <4>2, <4>3 DEF StepUnits
      <3> QED
        BY <3>1
    <2>7. g.mode = "dispatch" /\ c \notin Dynamic =>
            \A u \in 0..(Units(c) - 1) : u >= Handed(g) => begun'[c][u] = 0
      <3>1. ASSUME g.mode = "dispatch", c \notin Dynamic,
                   NEW u \in 0..(Units(c) - 1), u >= Handed(g)
            PROVE  begun'[c][u] = 0
        <4>1. e.mode = "dispatch" /\ Handed(g) = Handed(e)
          BY <2>3, <2>4, <3>1 DEF FrameOK, Handed, UnitPcs
        <4>2. begun[c][u] = 0 /\ Carries(e, u)
          BY <2>3, <3>1, <4>1 DEF StepUnits, Carries
        <4>3. u # n
          BY <1>6, <1>8, <2>3, <3>1, <4>2
        <4> QED
          BY <1>4, <4>2, <4>3
      <3> QED
        BY <3>1
    <2>8. StepUnits(g)'
      <3>1. HasUnit(g) /\ c \in Dynamic => g.unit < next[c]
        BY <2>3, <2>4 DEF StepUnits
      <3>2. g.pc = "finish" /\ ~g.failed =>
              IF c \in Dynamic THEN next[c] >= Count[c] ELSE g.task \in ended[c]
        BY <2>3, <2>4 DEF StepUnits
      <3>3. g.pc \in {"join", "asleep"} /\ g.failed => exception[c]
        BY <2>3, <2>4 DEF StepUnits
      <3>4. g.mode # "inline" /\ g.call = c
        BY <2>3, <2>4
      <3> QED
        BY <2>5, <2>6, <2>7, <3>1, <3>2, <3>3, <3>4 DEF StepUnits, Units, TaskCount, Handed, HasUnit
    <2> QED
      BY <1>10, <2>3, <2>4, <2>8
  <1>13. FramesKnow'
    <2>1. ASSUME NEW d \in 1..Depth(t)', NEW e, d >= Depth(t), e = FrameAt(t, d)'
          PROVE  StepUnits(e)' /\ CallerUnits(e)'
      <3>1. CASE d = Depth(t)
        BY <1>11, <2>1, <3>1
      <3>2. CASE d > Depth(t)
        <4>1. e.pc = "enter" /\ e.mode = "inline"
          BY <2>1, <3>2
        <4> QED
          BY <4>1 DEF StepUnits, CallerUnits, Dispatches, HasUnit, UnitPcs
      <3>3. Depth(t) \in Nat
        BY <1>3, FrameTypes
      <3> QED
        BY <2>1, <3>1, <3>2, <3>3
    <2>2. \A x \in Calls : x # c => Kept(x) /\ Open(x)' = Open(x)
      BY <1>4 DEF Kept
    <2> QED
      BY <1>2, <1>3, <1>12, <2>1, <2>2, FramesKnowMoved DEF UnitsHeld
  <1>14. UnitsApart'
    <2>1. \A d \in 1..Depth(t)' : d = Depth(t) =>
            /\ HasUnit(Top(t)) /\ Top(t).call = FrameAt(t, d)'.call
            /\ Top(t).unit = FrameAt(t, d)'.unit
      BY <1>2, <1>3, <1>5
    <2>2. \A d \in 1..Depth(t)' : d = Depth(t) + 1 => ~HasUnit(FrameAt(t, d)')
      <3>1. Depth(t) \in Nat
        BY <1>3, FrameTypes
      <3>2. \A d \in 1..Depth(t)' : d = Depth(t) + 1 => FrameAt(t, d)'.pc = "enter"
        BY <3>1
      <3> QED
        BY <3>2 DEF HasUnit, UnitPcs
    <2> QED
      BY <1>3, <2>1, <2>2, UnitsApartMoved DEF UnitsHeld
  <1>15. QueueUnbegun'
    <2>1. ASSUME NEW i \in 1..Len(tasks), tasks[i][1] \notin Dynamic
          PROVE  begun'[tasks[i][1]][tasks[i][2]] = 0
      <3>1. PICK x, k : x = tasks[i][1] /\ k = tasks[i][2]
        OBVIOUS
      <3>2. x \in Calls /\ k \in Nat /\ k + 1 < TaskCount(x) /\ begun[x][k] = 0 /\ HasCaller(x)
        BY <1>3, <2>1, <3>1 DEF QueueOK, UnitsHeld, QueueUnbegun, Owned
      <3>3. CASE x = c
        <4>0. PICK z \in 1..Depth(t) : z = Depth(t)
          BY <1>3
        <4>1. f.mode # "inline"
          BY <1>3, <3>2, <3>3, <4>0, InlineAlone
        <4>2. n = f.task /\ Carries(f, n)
          BY <1>8, <2>1, <3>1, <3>3, <4>1
        <4>3. ~Carries(f, k)
          BY <1>3, <3>1, <3>3, <4>0 DEF Alone
        <4>4. k # n /\ k \in 0..(Units(c) - 1)
          BY <1>6, <2>1, <3>1, <3>2, <3>3, <4>2, <4>3
        <4> QED
          BY <1>4, <3>1, <3>2, <3>3, <4>4
      <3>4. CASE x # c
        BY <1>4, <3>1, <3>2, <3>4
      <3> QED
        BY <3>3, <3>4
    <2> QED
      BY <2>1 DEF QueueUnbegun
  <1>16. UnitsExactlyOnce'
    <2>1. ASSUME NEW x \in Calls, NEW u \in 0..(Units(x) - 1) PROVE begun'[x][u] <= 1
      <3>1. begun[x][u] <= 1
        BY <1>3 DEF UnitsHeld, UnitsExactlyOnce
      <3> QED
        BY <1>4, <3>1
    <2> QED
      BY <1>3, <2>1 DEF UnitsHeld, UnitsExactlyOnce, Units, TaskCount
  <1>17. ended' = [x \in Calls |-> ended'[x]]
    BY <1>3 DEF UnitsHeld
  <1> QED
    BY <1>4, <1>13, <1>14, <1>15, <1>16, <1>17 DEF UnitsHeld

\* The function runs and makes no call of its own.
LEMMA RunHere ==
  ASSUME PoolInvariant, NEW t \in Threads,
         \/ RunThrows(t)
         \/ Run(t) /\ ~(Top(t).unit = 0 /\ NestedCall[Top(t).call] # NoCall)
  PROVE  PoolInvariant'
  <1>1. Busy(t) /\ Top(t).pc = "run" /\ At(t, "run")
    BY DEF Run, RunThrows, At
  <1>2. PICK f, c, n : f = Top(t) /\ c = f.call /\ n = f.unit
    OBVIOUS
  <1>3. /\ RestType /\ f \in FrameType /\ FrameOK(f) /\ c \in Calls /\ Count[c] # 0
        /\ StackType /\ Nested /\ QueueOK /\ Census /\ Alone /\ Owned
        /\ Entered /\ UnitsHeld /\ StepUnits(f) /\ Depth(t) \in 1..Depth(t)
    BY <1>1, <1>2, TopFacts DEF FrameOK, FrameType, PoolInvariant
  <1>a. f.mode \in {"inline", "own", "task"} /\ ~f.failed
    BY <1>1, <1>2, <1>3 DEF FrameOK, FrameType, Modes, UnitPcs
  <1>4. PICK pc, g : pc \in {"ran", "threw"} /\ g = [f EXCEPT !.pc = pc] /\ Replace(t, g)
    BY <1>2 DEF Run, RunThrows
  <1>5. /\ g.call = c /\ g.mode = f.mode /\ g.task = f.task /\ ~g.failed /\ g \in FrameType
        /\ g.pc \in {"ran", "threw"} /\ g.unit = n
    BY <1>2, <1>3, <1>a, <1>4 DEF FrameType, Pcs
  <1>6. FrameOK(g)
    <2>1. HasUnit(f)
      BY <1>1, <1>2 DEF HasUnit, UnitPcs
    <2> QED
      BY <1>2, <1>3, <1>a, <1>5, <2>1 DEF FrameOK, UnitPcs
  <1>7. Alike(f, g)
    BY <1>1, <1>2, <1>a, <1>5 DEF Alike, IsMain, Dispatches, Carries, Works
  <1>8. /\ tasks' = tasks /\ remaining' = remaining /\ outcome' = outcome
        /\ Begins(c, n) /\ next' = next /\ exception' = exception /\ ended' = ended
        /\ sleepers' = sleepers /\ exited' = exited /\ stop' = stop
    BY <1>2 DEF Run, RunThrows, poolVars, groupVars, Begins
  <1>9. /\ n \in 0..(Units(c) - 1) /\ begun[c][n] = 0 /\ begun'[c][n] = 1
        /\ \A u \in 0..(Units(c) - 1) : u # n => begun'[c][u] = begun[c][u]
        /\ \A x \in Calls : x # c => begun'[x] = begun[x]
        /\ \A x \in Calls : begun'[x] \in [0..(Units(x) - 1) -> Nat]
    BY <1>1, <1>2, <1>8, BegunIs
  <1>10. RestType'
    BY <1>3, <1>8, <1>9 DEF RestType, Units, TaskCount
  <1>11. /\ StackType' /\ Swapped(t, g) /\ Nested' /\ Moved(t) /\ QueueOK'
         /\ Census' /\ \A x \in Calls : Open(x)' = Open(x)
         /\ Depth(t) \in 1..Depth(t)' /\ Depth(t) \in Nat
         /\ \A d \in 1..Depth(t)' : d >= Depth(t) => d = Depth(t) /\ FrameAt(t, d)' = g
    <2>1. g.pc # "nested"
      BY <1>5
    <2> QED
      BY <1>1, <1>2, <1>4, <1>6, <1>7, <1>8, <2>1, SwapFrames
  <1>12. UnitsHeld'
    <2>1. /\ \E d \in 1..Depth(t)' : d = Depth(t)
          /\ \A d \in 1..Depth(t)' : /\ d = Depth(t) => FrameAt(t, d)' = g
                                     /\ d > Depth(t) => FALSE
      BY <1>11
    <2>2. \A d \in 1..Depth(t)' : /\ d = Depth(t) => FrameAt(t, d)' = g
                                  /\ d > Depth(t) => /\ FrameAt(t, d)'.pc = "enter"
                                                     /\ FrameAt(t, d)'.mode = "inline"
      BY <2>1
    <2> QED
      BY <1>1, <1>2, <1>5, <1>8, <1>11, <2>1, <2>2, UnitBegins
  <1>13. Entered'
    <2>1. \A d \in 1..Depth(t)' : \A e : d >= Depth(t) /\ e = FrameAt(t, d)' =>
            e.call = c /\ e.pc # "enter"
      BY <1>5, <1>11
    <2>2. \A x \in Calls : Units(x) > 0 /\ begun'[x][0] = 0 => begun[x][0] = 0
      <3>1. ASSUME Units(c) > 0, begun'[c][0] = 0 PROVE begun[c][0] = 0
        <4>1. 0 \in 0..(Units(c) - 1)
          BY <1>3, <3>1, TaskCountBounds
        <4> QED
          BY <1>9, <3>1, <4>1
      <3> QED
        BY <1>9, <3>1
    <2> QED
      BY <1>1, <1>2, <1>3, <1>8, <1>9, <1>11, <2>1, <2>2, EnteredMoved, SMTT(30)
  <1> QED
    BY <1>10, <1>11, <1>12, <1>13, TypesSplit DEF PoolInvariant, Census

\* Unit 0 makes a call, which nobody has entered before.
LEMMA RunNests ==
  ASSUME PoolInvariant, NEW t \in Threads, Run(t), Top(t).unit = 0,
         NestedCall[Top(t).call] # NoCall
  PROVE  PoolInvariant'
  <1>1. Busy(t) /\ Top(t).pc = "run" /\ At(t, "run")
    BY DEF Run, At
  <1>2. PICK f, c : f = Top(t) /\ c = f.call
    OBVIOUS
  <1>3. /\ RestType /\ f \in FrameType /\ FrameOK(f) /\ c \in Calls /\ Count[c] # 0
        /\ StackType /\ Nested /\ QueueOK /\ Census /\ Alone /\ Owned /\ Depth(t) \in Nat
        /\ Entered /\ UnitsHeld /\ StepUnits(f) /\ Depth(t) \in 1..Depth(t) /\ f.unit = 0
    BY <1>1, <1>2, TopFacts DEF FrameOK, FrameType, PoolInvariant
  <1>a. f.mode \in {"inline", "own", "task"} /\ ~f.failed
    BY <1>1, <1>2, <1>3 DEF FrameOK, FrameType, Modes, UnitPcs
  <1>4. PICK x : x = NestedCall[c]
    OBVIOUS
  <1>5. x \in Calls
    BY <1>2, <1>3, <1>4, WorkerPoolAssumption
  <1>6. PICK h, g : h = [f EXCEPT !.pc = "nested"] /\ g = Frame(x, "inline", "enter", 0)
    OBVIOUS
  <1>7. /\ h.call = c /\ h.mode = f.mode /\ h.task = f.task /\ ~h.failed /\ h \in FrameType
        /\ h.pc = "nested" /\ h.unit = 0
    BY <1>2, <1>3, <1>a, <1>6 DEF FrameType, Pcs
  <1>8. /\ g.call = x /\ g.mode = "inline" /\ g.pc = "enter" /\ g.task = 0 /\ g.unit = 0
        /\ ~g.failed /\ g \in FrameType
    BY <1>5, <1>6 DEF FrameType, Frame, Pcs, Modes
  <1>9. FrameOK(h) /\ FrameOK(g)
    <2>1. HasUnit(f)
      BY <1>1, <1>2 DEF HasUnit, UnitPcs
    <2>2. FrameOK(h)
      BY <1>2, <1>3, <1>a, <1>7, <2>1 DEF FrameOK, UnitPcs
    <2>3. FrameOK(g)
      BY <1>8 DEF FrameOK, HasUnit, UnitPcs
    <2> QED
      BY <2>2, <2>3
  <1>10. Alike(f, h)
    BY <1>1, <1>2, <1>a, <1>7 DEF Alike, IsMain, Dispatches, Carries, Works
  <1>11. /\ tasks' = tasks /\ remaining' = remaining /\ outcome' = outcome
         /\ Begins(c, 0) /\ next' = next /\ exception' = exception /\ ended' = ended
         /\ sleepers' = sleepers /\ exited' = exited /\ stop' = stop /\ Push(t, h, g)
    BY <1>2, <1>3, <1>4, <1>6 DEF Run, poolVars, groupVars, Begins
  <1>12. /\ 0 \in 0..(Units(c) - 1) /\ begun[c][0] = 0 /\ begun'[c][0] = 1
         /\ \A u \in 0..(Units(c) - 1) : u # 0 => begun'[c][u] = begun[c][u]
         /\ \A y \in Calls : y # c => begun'[y] = begun[y]
         /\ \A y \in Calls : begun'[y] \in [0..(Units(y) - 1) -> Nat]
    BY <1>1, <1>2, <1>3, <1>11, BegunIs
  <1>13. RestType'
    BY <1>3, <1>11, <1>12 DEF RestType, Units, TaskCount
  <1>14. Fresh(x)
    <2>1. \A s \in Callers : RootCall[s] # x
      BY <1>2, <1>3, <1>4, CallsAreExecutions
    <2>2. \A p \in Calls : NestedCall[p] = x => p = c
      BY <1>2, <1>3, <1>4, CallsAreExecutions
    <2> QED
      BY <1>12, <2>1, <2>2 DEF Fresh
  <1>15. /\ Unstarted(x) /\ x # c
         /\ \A s \in Threads : \A d \in 1..Depth(s) : FrameAt(s, d).call # x
    <2>1. Unstarted(x) /\ \A s \in Threads : \A d \in 1..Depth(s) : FrameAt(s, d).call # x
      BY <1>3, <1>5, <1>14 DEF Entered
    <2>2. x # c
      BY <1>1, <1>2, <2>1, TopFacts
    <2> QED
      BY <2>1, <2>2
  <1>16. StackType' /\ Pushed(t, h, g)
    BY <1>1, <1>3, <1>7, <1>8, <1>11, PushPushes
  <1>17. Nested' /\ Moved(t)
    <2>1. IsMain(h) <=> IsMain(Top(t))
      BY <1>2, <1>10 DEF Alike
    <2>2. IsMain(g)
      BY <1>8 DEF IsMain
    <2> QED
      BY <1>3, <1>7, <1>8, <1>9, <1>16, <2>1, <2>2, PushMoves
  <1>18. Census' /\ \A y \in Calls : Open(y)' = Open(y)
    <2>1. outcome[x] = "none"
      BY <1>15 DEF Unstarted
    <2> QED
      BY <1>1, <1>2, <1>3, <1>5, <1>8, <1>10, <1>11, <1>15, <1>16, <1>17, <2>1, CensusNested
  <1>19. QueueOK'
    BY <1>3, <1>11 DEF QueueOK, TaskCount
  <1>20. /\ Depth(t)' = Depth(t) + 1
         /\ \A d \in 1..Depth(t)' : /\ d = Depth(t) => FrameAt(t, d)' = h
                                    /\ d > Depth(t) => FrameAt(t, d)' = g
    <2>1. Depth(t)' = Depth(t) + 1
      BY <1>16 DEF Pushed
    <2>2. \A d \in 1..Depth(t)' :
            FrameAt(t, d)' = IF d = Depth(t) + 1 THEN g
                             ELSE IF d = Depth(t) THEN h ELSE FrameAt(t, d)
      BY <1>16 DEF Pushed
    <2>3. \A d \in 1..Depth(t)' : /\ d = Depth(t) => d # Depth(t) + 1
                                  /\ d > Depth(t) => d = Depth(t) + 1
      BY <1>3, <2>1
    <2> QED
      BY <2>1, <2>2, <2>3
  <1>21. UnitsHeld'
    <2>1. \E d \in 1..Depth(t)' : d = Depth(t)
      BY <1>3, <1>20
    <2>2. \A d \in 1..Depth(t)' : /\ d = Depth(t) => FrameAt(t, d)' = h
                                  /\ d > Depth(t) => /\ FrameAt(t, d)'.pc = "enter"
                                                     /\ FrameAt(t, d)'.mode = "inline"
      BY <1>8, <1>20
    <2> QED
      BY <1>1, <1>2, <1>3, <1>7, <1>11, <1>16, <1>17, <1>18, <2>1, <2>2, UnitBegins
  <1>22. Entered'
    <2>1. ~Fresh(x)' /\ Unstarted(x)'
      <3>1. Units(c) > 0
        BY <1>3, <1>12, TaskCountBounds
      <3>2. ~Fresh(x)'
        BY <1>3, <1>4, <1>12, <3>1 DEF Fresh, Units, TaskCount
      <3>3. Unstarted(x)'
        BY <1>5, <1>11, <1>12, <1>15 DEF Unstarted, Units, TaskCount
      <3> QED
        BY <3>2, <3>3
    <2>2. ASSUME NEW d \in 1..Depth(t)', NEW e, d >= Depth(t), e = FrameAt(t, d)'
          PROVE  /\ e.call = c \/ ~Fresh(e.call)'
                 /\ e.pc = "enter" => Unstarted(e.call)'
      <3>1. CASE d = Depth(t)
        BY <1>7, <1>20, <2>2, <3>1
      <3>2. CASE d > Depth(t)
        <4>1. e.call = x
          BY <1>8, <1>20, <2>2, <3>2
        <4> QED
          BY <2>1, <4>1 DEF Fresh, Unstarted, Units, TaskCount
      <3> QED
        BY <1>3, <2>2, <3>1, <3>2
    <2>3. \A y \in Calls : Units(y) > 0 /\ begun'[y][0] = 0 => begun[y][0] = 0
      BY <1>12
    <2> QED
      BY <1>1, <1>2, <1>3, <1>11, <1>12, <1>16, <1>17, <2>2, <2>3, EnteredMoved
  <1> QED
    BY <1>13, <1>16, <1>17, <1>18, <1>19, <1>21, <1>22, TypesSplit DEF PoolInvariant, Census

\* The task is no longer open; what it leaves undone is in the exception.
LEMMA FinishStep ==
  ASSUME PoolInvariant, NEW t \in Threads, Finish(t)
  PROVE  PoolInvariant'
  <1>1. Busy(t) /\ Top(t).pc = "finish"
    BY DEF Finish, At
  <1>2. PICK f, c, n : f = Top(t) /\ c = f.call /\ n = f.task
    OBVIOUS
  <1>3. /\ RestType /\ f \in FrameType /\ FrameOK(f) /\ c \in Calls /\ Count[c] # 0
        /\ StackType /\ Nested /\ QueueOK /\ Census /\ Alone /\ Owned /\ Counted
        /\ Depth(t) \in Nat /\ n \in Nat
        /\ Entered /\ UnitsHeld /\ StepUnits(f) /\ Depth(t) \in 1..Depth(t)
    BY <1>1, <1>2, TopFacts DEF FrameOK, FrameType, PoolInvariant
  <1>a. f.mode \in {"own", "task"} /\ Works(f)
    BY <1>1, <1>2, <1>3 DEF FrameOK, FrameType, Modes, UnitPcs, Works
  <1>b. n \in 0..(TaskCount(c) - 1)
    <2>1. TaskCount(c) \in Nat
      BY <1>3, TaskCountBounds
    <2> QED
      BY <1>2, <1>3, <1>a, <2>1 DEF FrameOK
  <1>4. /\ tasks' = tasks /\ remaining' = [remaining EXCEPT ![c] = @ - 1]
        /\ outcome' = outcome /\ begun' = begun /\ next' = next /\ ended' = ended
        /\ exception' = [exception EXCEPT ![c] = @ \/ f.failed]
        /\ sleepers' = sleepers /\ exited' = exited /\ stop' = stop
    BY <1>2 DEF Finish, poolVars, historyVars
  <1>5. /\ exception' \in [Calls -> BOOLEAN] /\ (exception'[c] <=> exception[c] \/ f.failed)
        /\ \A x \in Calls : x # c => exception'[x] = exception[x]
    <2>1. exception \in [Calls -> BOOLEAN] /\ f.failed \in BOOLEAN
      BY <1>3 DEF RestType, FrameType
    <2> QED
      BY <1>3, <1>4, <2>1
  <1>6. PICK g : g = [f EXCEPT !.pc = "join"]
    OBVIOUS
  <1>7. /\ g.call = c /\ g.mode = f.mode /\ g.task = n /\ g.failed = f.failed
        /\ g.pc = "join" /\ g \in FrameType
    BY <1>2, <1>3, <1>6 DEF FrameType, Pcs
  <1>8. /\ StackType' /\ Nested' /\ Moved(t) /\ Depth(t)' <= Depth(t)
        /\ \A d \in 1..Depth(t)' :
             d >= Depth(t) => d = Depth(t) /\ FrameAt(t, d)' = g /\ f.mode = "own"
        /\ Depth(t)' < Depth(t) => f.mode = "task"
    <2>1. CASE f.mode = "own"
      <3>1. StackType' /\ Joins(t)
        BY <1>1, <1>2, <1>3, <2>1, FinishFrames
      <3>2. Nested' /\ Moved(t)
        BY <1>1, <1>2, <1>3, <2>1, <3>1, JoinMoves
      <3>3. Depth(t)' = Depth(t) /\ f = FrameAt(t, Depth(t))
        BY <1>1, <1>2, <3>1, TopFacts DEF Joins
      <3>4. \A d \in 1..Depth(t)' : d >= Depth(t) => d = Depth(t) /\ FrameAt(t, d)' = g
        BY <1>3, <1>6, <3>1, <3>3 DEF Joins
      <3> QED
        BY <1>3, <2>1, <3>1, <3>2, <3>3, <3>4
    <2>2. CASE f.mode = "task"
      <3>1. StackType' /\ TaskEnds(t)
        BY <1>1, <1>2, <1>3, <2>2, FinishFrames
      <3>2. Nested' /\ Moved(t)
        BY <1>1, <1>2, <1>3, <2>2, <3>1, EndMoves
      <3>3. Depth(t)' = Depth(t) - 1
        BY <3>1 DEF TaskEnds
      <3>4. Depth(t)' <= Depth(t) /\ \A d \in 1..Depth(t)' : ~(d >= Depth(t))
        BY <1>3, <3>3
      <3> QED
        BY <2>2, <3>1, <3>2, <3>4
    <2> QED
      BY <1>a, <2>1, <2>2
  <1>9. /\ Census' /\ (\A x \in Calls \ {c} : Open(x)' = Open(x))
        /\ n \in Open(c) /\ Open(c)' = Open(c) \ {n}
    <2>1. \A d \in 1..Depth(t)' : d = Depth(t) =>
            /\ FrameAt(t, d)'.call = c /\ FrameAt(t, d)'.mode = Top(t).mode
            /\ \A k : ~Carries(FrameAt(t, d)', k)
      <3>1. f.mode = "own" => \A k : ~Carries(g, k)
        BY <1>7 DEF Carries, Works
      <3>2. \A d \in 1..Depth(t)' : d = Depth(t) => d >= Depth(t)
        BY <1>3
      <3> QED
        BY <1>2, <1>7, <1>8, <3>1, <3>2
    <2>2. remaining \in [Calls -> Nat]
      BY <1>3 DEF RestType
    <2> QED
      BY <1>1, <1>2, <1>3, <1>4, <1>8, <1>a, <1>b, <2>1, <2>2, CensusFinished
  <1>10. RestType'
    <2>1. remaining[c] \in Nat \ {0}
      BY <1>3, <1>9, OpenIsFinite DEF Counted
    <2>2. remaining' \in [Calls -> Nat]
      <3>1. remaining \in [Calls -> Nat]
        BY <1>3 DEF RestType
      <3>2. PICK m \in Nat : m = remaining[c] - 1
        BY <2>1
      <3>3. remaining' = [remaining EXCEPT ![c] = m]
        BY <1>4, <3>2
      <3> QED
        BY <3>1, <3>3
    <2> QED
      BY <1>3, <1>4, <1>5, <2>2 DEF RestType, Units, TaskCount
  <1>11. QueueOK'
    BY <1>3, <1>4 DEF QueueOK, TaskCount
  <1>12. \A x \in Calls : Kept(x)
    BY <1>4, <1>5 DEF Kept
  <1>13. \A u : Settled(c, u) => Settled(c, u)'
    <2>1. ~HasUnit(f) /\ (Failing(f) => exception'[c])
      BY <1>1, <1>2, <1>5 DEF HasUnit, UnitPcs, Failing
    <2>2. ended[c] \subseteq ended'[c] /\ (exception[c] => exception'[c])
      BY <1>4, <1>5
    <2> QED
      BY <1>2, <1>3, <1>8, <2>1, <2>2, SettledKept
  <1>14. ASSUME NEW e, e.call = c PROVE CallerUnits(e)'
    <2>0. ~f.failed => IF c \in Dynamic THEN next[c] >= Count[c] ELSE n \in ended[c]
      BY <1>1, <1>2, <1>3 DEF StepUnits
    <2>1. CASE c \in Dynamic
      <3>1. \A u \in 0..(Units(c) - 1) :
              IF u >= next[c] THEN begun[c][u] = 0 ELSE Settled(c, u)
        BY <1>1, <1>2, <1>a, <2>1, CallerKnows
      <3>2. \A u \in 0..(Units(c) - 1) :
              IF u >= next'[c] THEN begun'[c][u] = 0 ELSE Settled(c, u)'
        BY <1>4, <1>13, <3>1
      <3>3. exception'[c] \/ next'[c] >= Count[c]
        BY <1>4, <1>5, <2>0, <2>1
      <3> QED
        BY <1>14, <2>1, <3>2, <3>3 DEF CallerUnits, Dispatches, Units, TaskCount
    <2>2. CASE c \notin Dynamic
      <3>1. \A u \in 0..(Units(c) - 1) : u \in Open(c) \/ u \in ended[c] \/ exception[c]
        BY <1>1, <1>2, <1>a, <2>2, CallerKnows
      <3>2. \A u \in 0..(Units(c) - 1) : u \in Open(c)' \/ u \in ended'[c] \/ exception'[c]
        BY <1>4, <1>5, <1>9, <2>0, <2>2, <3>1
      <3> QED
        BY <1>14, <2>2, <3>2 DEF CallerUnits, Dispatches, Units, TaskCount
    <2> QED
      BY <2>1, <2>2
  <1>15. FramesKnow'
    <2>1. ASSUME NEW s \in Threads, NEW d \in 1..Depth(s)', NEW h,
                 s = t => d < Depth(t), FrameAt(s, d).call = c, h = FrameAt(s, d)'
          PROVE  StepUnits(h)' /\ CallerUnits(h)'
      <3>1. d \in 1..Depth(s) /\ Tame(FrameAt(s, d), FrameAt(s, d)')
        BY <1>3, <1>8, <2>1, OthersAlike
      <3>2. PICK e : e = FrameAt(s, d)
        OBVIOUS
      <3>3. FrameOK(e) /\ StepUnits(e) /\ e.call = c /\ Tame(e, h)
        BY <1>1, <1>2, <2>1, <3>1, <3>2, OthersOf
      <3>4. h.call = c
        BY <3>3, TameIsAlike
      <3>5. StepUnits(h)'
        <4>1. Kept(e.call)
          BY <1>3, <1>12, <3>3
        <4> QED
          BY <3>3, <4>1, StepUnitsKept
      <3> QED
        BY <1>14, <3>4, <3>5
    <2>2. f.mode = "own" => StepUnits(g)' /\ CallerUnits(g)'
      <3>1. f.mode = "own" => StepUnits(g)'
        BY <1>5, <1>7 DEF StepUnits, HasUnit, UnitPcs
      <3> QED
        BY <1>7, <1>14, <3>1
    <2>3. \A d \in 1..Depth(t)' : \A e :
            d >= Depth(t) /\ e = FrameAt(t, d)' => StepUnits(e)' /\ CallerUnits(e)'
      BY <1>8, <2>2
    <2>4. \A x \in Calls : x # c => Kept(x) /\ Open(x)' = Open(x)
      BY <1>9, <1>12
    <2> QED
      BY <1>2, <1>3, <1>8, <2>1, <2>3, <2>4, FramesKnowMoved DEF UnitsHeld
  <1>16. UnitsApart'
    <2>1. ~HasUnit(g)
      BY <1>7 DEF HasUnit, UnitPcs
    <2>2. \A d \in 1..Depth(t)' : d = Depth(t) => ~HasUnit(FrameAt(t, d)')
      BY <1>3, <1>8, <2>1
    <2>3. ~\E d \in 1..Depth(t)' : d = Depth(t) + 1
      BY <1>3, <1>8
    <2> QED
      BY <1>3, <1>8, <2>2, <2>3, UnitsApartMoved DEF UnitsHeld
  <1>17. UnitsHeld'
    BY <1>3, <1>4, <1>15, <1>16 DEF UnitsHeld, QueueUnbegun, UnitsExactlyOnce, Units, TaskCount
  <1>18. Entered'
    <2>1. \A d \in 1..Depth(t)' : \A e : d >= Depth(t) /\ e = FrameAt(t, d)' =>
            e.call = c /\ e.pc # "enter"
      BY <1>7, <1>8
    <2> QED
      BY <1>1, <1>2, <1>3, <1>4, <1>5, <1>8, <2>1, EnteredMoved
  <1> QED
    BY <1>8, <1>9, <1>10, <1>11, <1>17, <1>18, TypesSplit DEF PoolInvariant, Census

\* The sleeping, the exit and the destructor touch no frame, task or group.
LEMMA QuietStep ==
  ASSUME PoolInvariant, UNCHANGED <<stack, tasks, groupVars, historyVars>>,
         sleepers' \subseteq Workers, exited' \subseteq Workers, stop' \in BOOLEAN
  PROVE  PoolInvariant'
  <1>1. /\ stack' = stack /\ tasks' = tasks /\ next' = next /\ remaining' = remaining
        /\ exception' = exception /\ begun' = begun /\ ended' = ended /\ outcome' = outcome
    BY DEF groupVars, historyVars
  <1>2. TypeOK'
    BY <1>1 DEF PoolInvariant, TypeOK, Units, TaskCount
  <1>3. /\ \A t : Depth(t)' = Depth(t)
        /\ \A t, d : FrameAt(t, d)' = FrameAt(t, d)
    BY <1>1 DEF Depth, FrameAt
  <1>4. Nested' /\ QueueOK'
    BY <1>1, <1>3 DEF PoolInvariant, Nested, QueueOK, FrameOK, TaskCount
  <1>5. \A c : (HasCaller(c)' <=> HasCaller(c)) /\ Open(c)' = Open(c)
    BY <1>1, <1>3 DEF HasCaller, Open, Carried, Queued, TaskCount
  <1>6. Alone'
    BY <1>1, <1>3 DEF PoolInvariant, Alone, Carries, TaskCount
  <1>7. Owned' /\ Counted'
    BY <1>1, <1>3, <1>5 DEF PoolInvariant, Owned, Counted
  <1>8. Entered'
    <2>1. \A c : (Fresh(c)' <=> Fresh(c)) /\ (Unstarted(c)' <=> Unstarted(c))
      BY <1>1 DEF Fresh, Unstarted, Units, TaskCount
    <2> QED
      BY <1>1, <1>3, <2>1 DEF PoolInvariant, Entered
  <1>9. UnitsHeld'
    <2>1. \A c, u : Settled(c, u)' <=> Settled(c, u)
      BY <1>1, <1>3 DEF Settled, HasUnit, Failing
    <2>2. FramesKnow'
      <3>1. ASSUME NEW s \in Threads, NEW d \in 1..Depth(s)', NEW g, g = FrameAt(s, d)'
            PROVE  StepUnits(g)' /\ CallerUnits(g)'
        <4>1. StepUnits(g) /\ CallerUnits(g)
          BY <1>3, <3>1 DEF PoolInvariant, UnitsHeld, FramesKnow, FrameUnits
        <4>2. StepUnits(g)'
          BY <1>1, <4>1 DEF StepUnits, Units, TaskCount
        <4>3. CallerUnits(g)'
          BY <1>1, <1>5, <2>1, <4>1 DEF CallerUnits, Units, TaskCount
        <4> QED
          BY <4>2, <4>3
      <3> QED
        BY <3>1, FramesKnowIf
    <2>3. UnitsApart'
      BY <1>3 DEF PoolInvariant, UnitsHeld, UnitsApart, HasUnit
    <2> QED
      BY <1>1, <2>2, <2>3 DEF PoolInvariant, UnitsHeld, QueueUnbegun, UnitsExactlyOnce,
                              Units, TaskCount
  <1> QED
    BY <1>2, <1>4, <1>6, <1>7, <1>8, <1>9 DEF PoolInvariant

\* Every caller is about to enter its call.
LEMMA InitHolds == Init => PoolInvariant
  <1> SUFFICES ASSUME Init PROVE PoolInvariant
    OBVIOUS
  <1>1. ASSUME NEW t \in Threads
        PROVE  /\ t \in Callers => stack[t] = <<Frame(RootCall[t], "inline", "enter", 0)>>
               /\ t \notin Callers => stack[t] = <<>>
    BY DEF Init
  <1>2. ASSUME NEW t \in Callers
        PROVE  /\ RootCall[t] \in Calls /\ Frame(RootCall[t], "inline", "enter", 0) \in FrameType
               /\ t \in Threads
    BY WorkerPoolAssumption DEF FrameType, Frame, Modes, Pcs, Threads
  <1>s. ASSUME NEW t \in Threads
        PROVE  /\ stack[t] \in Seq(FrameType) /\ Len(stack[t]) \in {0, 1}
               /\ Len(stack[t]) = 1 => t \in Callers
    <2>1. CASE t \in Callers
      <3>1. PICK f \in FrameType : stack[t] = <<f>>
        BY <1>1, <1>2, <2>1
      <3> QED
        BY <2>1, <3>1
    <2>2. CASE t \notin Callers
      <3>1. stack[t] = <<>>
        BY <1>1, <2>2
      <3>2. <<>> \in Seq(FrameType) /\ Len(<<>>) = 0
        OBVIOUS
      <3> QED
        BY <3>1, <3>2
    <2> QED
      BY <2>1, <2>2
  <1>3. StackType
    <2>1. \A t \in Threads : stack[t] \in Seq(FrameType)
      BY <1>s
    <2> QED
      BY <2>1 DEF Init, StackType
  <1>4. ASSUME NEW t \in Threads, NEW d \in 1..Depth(t)
        PROVE  /\ t \in Callers /\ d = 1 /\ Depth(t) = 1
               /\ FrameAt(t, d) = Frame(RootCall[t], "inline", "enter", 0)
    <2>1. Depth(t) = 1 /\ d = 1
      <3>1. Depth(t) \in {0, 1}
        BY <1>s DEF Depth
      <3>2. Depth(t) = 0 => FALSE
        OBVIOUS
      <3> QED
        BY <3>1, <3>2
    <2>2. t \in Callers
      BY <1>s, <2>1 DEF Depth
    <2> QED
      BY <1>1, <2>1, <2>2 DEF FrameAt
  <1>5. ASSUME NEW t \in Threads, NEW d \in 1..Depth(t)
        PROVE  LET f == FrameAt(t, d) IN
               /\ f \in FrameType /\ f.call = RootCall[t] /\ f.mode = "inline"
               /\ f.pc = "enter" /\ f.task = 0 /\ f.unit = 0 /\ ~f.failed
    BY <1>2, <1>4 DEF Frame
  <1>6. tasks = <<>> /\ Len(tasks) = 0
    BY DEF Init
  <1>7. ASSUME NEW c \in Calls PROVE Unstarted(c)
    BY <1>7 DEF Init, Unstarted
  <1>8. RestType
    <2>1. tasks \in Seq(Calls \X Nat)
      BY <1>6
    <2>2. \A c \in Calls : begun[c] \in [0..(Units(c) - 1) -> Nat]
      BY DEF Init
    <2>3. \A c \in Calls : ended[c] \subseteq 0..(Units(c) - 1)
      BY DEF Init
    <2> QED
      BY <2>1, <2>2, <2>3 DEF Init, RestType
  <1>9. Nested
    <2>1. \A t \in Threads : \A d \in 1..Depth(t) : FrameOK(FrameAt(t, d))
      BY <1>5 DEF FrameOK, HasUnit, UnitPcs
    <2>2. \A t \in Threads : Depth(t) \in {0, 1}
      BY <1>s DEF Depth
    <2>3. ASSUME NEW t \in Threads, Depth(t) > 0 PROVE FrameAt(t, Depth(t)).pc # "nested"
      <3>1. Depth(t) \in 1..Depth(t)
        BY <2>2, <2>3
      <3> QED
        BY <1>5, <3>1
    <2> QED
      BY <2>1, <2>2, <2>3 DEF Nested
  <1>10. QueueOK
    BY <1>6 DEF QueueOK
  <1>11. Alone
    <2>1. ASSUME NEW t1 \in Threads, NEW t2 \in Threads,
                 NEW d1 \in 1..Depth(t1), NEW d2 \in 1..Depth(t2),
                 FrameAt(t1, d1).call = FrameAt(t2, d2).call
          PROVE  t1 = t2 /\ d1 = d2
      BY <1>4, <1>5, <2>1, CallsAreExecutions
    <2> QED
      BY <1>6, <2>1 DEF Alone
  <1>12. Owned
    BY <1>5, <1>6, <1>7 DEF Owned, IsMain, Unstarted, FrameType
  <1>13. Counted
    <2>1. ASSUME NEW c \in Calls PROVE remaining[c] = Cardinality(Open(c))
      <3>1. Open(c) = {}
        BY <1>5, <1>6 DEF Open, Carried, Queued, Carries, Works
      <3> QED
        BY <3>1, FS_EmptySet DEF Init
    <2> QED
      BY <2>1 DEF Counted
  <1>14. Entered
    <2>1. ASSUME NEW c \in Calls, Fresh(c), NEW t \in Threads, NEW d \in 1..Depth(t)
          PROVE  FrameAt(t, d).call # c
      BY <1>4, <1>5, <2>1 DEF Fresh
    <2> QED
      BY <1>5, <1>7, <2>1 DEF Entered, FrameType
  <1>15. UnitsHeld
    <2>1. FramesKnow
      BY <1>5 DEF FramesKnow, FrameUnits, StepUnits, CallerUnits, Dispatches, HasUnit, UnitPcs
    <2>2. UnitsApart
      BY <1>5 DEF UnitsApart, HasUnit, UnitPcs
    <2>3. UnitsExactlyOnce
      BY <1>7 DEF UnitsExactlyOnce, Unstarted
    <2>4. begun = [c \in Calls |-> begun[c]] /\ ended = [c \in Calls |-> ended[c]]
      BY DEF Init
    <2> QED
      BY <1>6, <2>1, <2>2, <2>3, <2>4 DEF UnitsHeld, QueueUnbegun
  <1> QED
    BY <1>3, <1>8, <1>9, <1>10, <1>11, <1>12, <1>13, <1>14, <1>15, TypesSplit DEF PoolInvariant

LEMMA NextHolds == PoolInvariant /\ [Next]_vars => PoolInvariant'
  <1> SUFFICES ASSUME PoolInvariant, [Next]_vars PROVE PoolInvariant'
    OBVIOUS
  <1>1. sleepers \subseteq Workers /\ exited \subseteq Workers /\ stop \in BOOLEAN
    BY DEF PoolInvariant, TypeOK
  <1>2. ASSUME NEW t \in Threads, ThreadStep(t) PROVE PoolInvariant'
    <2>1. CASE EnterEmpty(t) \/ EnterThrows(t)
      BY <2>1, EnterReturns
    <2>2. CASE EnterInline(t)
      BY <2>2, EnterInlineStep
    <2>3. CASE EnterDispatch(t)
      BY <2>3, EnterDispatchStep
    <2>4. CASE Enqueue(t)
      BY <2>4, EnqueueStep
    <2>5. CASE Notify(t)
      BY <2>5, NotifyStep
    <2>6. CASE EnqueueThrows(t)
      BY <2>6, EnqueueThrowsStep
    <2>7. CASE Drain(t)
      BY <2>7, DrainStep
    <2>8. CASE Claim(t)
      BY <2>8, ClaimRange, ClaimIndex
    <2>9. CASE Run(t)
      BY <2>9, RunHere, RunNests
    <2>10. CASE RunThrows(t)
      BY <2>10, RunHere
    <2>11. CASE Ran(t)
      BY <2>11, RanTask, RanInline, InlineReturns
    <2>12. CASE Threw(t)
      BY <2>12, ThrewCaught, InlineReturns
    <2>13. CASE Finish(t)
      BY <2>13, FinishStep
    <2>14. CASE Join(t)
      BY <2>14, JoinSleeps, JoinReturns
    <2>15. CASE Take(t)
      BY <2>15, TakeStep
    <2>16. CASE Sleep(t)
      BY <1>1, <2>16, QuietStep DEF Sleep, Idle
    <2>17. CASE Exit(t)
      BY <1>1, <2>17, QuietStep DEF Exit, Idle
    <2> QED
      BY <1>2, <2>1, <2>2, <2>3, <2>4, <2>5, <2>6, <2>7, <2>8, <2>9, <2>10, <2>11, <2>12,
         <2>13, <2>14, <2>15, <2>16, <2>17 DEF ThreadStep
  <1>3. CASE Stop
    BY <1>1, <1>3, QuietStep DEF Stop, WakeAll
  <1>4. CASE UNCHANGED vars
    BY <1>1, <1>4, QuietStep DEF vars, poolVars
  <1> QED
    BY <1>2, <1>3, <1>4 DEF Next, Finished

-----------------------------------------------------------------------------
(***************************************************************************)
(* The theorems.                                                           *)
(***************************************************************************)

\* The inductive invariant: whatever the threads, the calls, their counts and
\* their nesting, every task of a dispatched call has one place and is counted in
\* TaskGroup::remaining, and every unit has one frame at most.
THEOREM PoolInvariantHolds == Spec => []PoolInvariant
  BY InitHolds, NextHolds, PTL DEF Spec

\* Every variable keeps its type: `remaining` never goes below zero.
THEOREM TypeCorrect == Spec => []TypeOK
  <1>1. PoolInvariant => TypeOK
    BY DEF PoolInvariant
  <1> QED
    BY <1>1, PoolInvariantHolds, PTL

\* run() and run_dynamic() begin no index and no range twice, and a call that
\* returns without an exception has completed all of them.
THEOREM UnitsHold == Spec => []UnitsExactlyOnce
  <1>1. PoolInvariant => UnitsExactlyOnce
    BY DEF PoolInvariant, UnitsHeld
  <1> QED
    BY <1>1, PoolInvariantHolds, PTL

\* When a call has returned or thrown, no thread is in one of its units and no
\* task of it is queued: the function it captured by reference is not used again.
THEOREM NoUseHolds == Spec => []NoUseAfterReturn
  <1>1. PoolInvariant => NoUseAfterReturn
    <2> SUFFICES ASSUME PoolInvariant, NEW c \in Calls, outcome[c] # "none"
                 PROVE  /\ \A t \in Threads : \A i \in 1..Len(stack[t]) : stack[t][i].call # c
                        /\ \A i \in 1..Len(tasks) : tasks[i][1] # c
      BY DEF NoUseAfterReturn
    <2>1. Owned /\ StackType
      BY TypesSplit DEF PoolInvariant
    <2>2. \A t \in Threads : \A d \in 1..Depth(t) :
            FrameAt(t, d).call = c => ~IsMain(FrameAt(t, d))
      BY <2>1 DEF Owned
    <2>3. ~HasCaller(c)
      BY <2>2 DEF HasCaller, IsMain, Dispatches
    <2>4. \A t \in Threads : \A d \in 1..Depth(t) : FrameAt(t, d).call # c
      BY <2>1, <2>2, <2>3 DEF Owned
    <2>5. ASSUME NEW t \in Threads, NEW i \in 1..Len(stack[t]) PROVE stack[t][i].call # c
      <3>1. PICK d : d = Depth(t) + 1 - i
        OBVIOUS
      <3>2. Depth(t) \in Nat /\ Depth(t) = Len(stack[t])
        BY <2>1, FrameTypes DEF Depth
      <3>3. d \in 1..Depth(t) /\ Depth(t) + 1 - d = i
        BY <3>1, <3>2
      <3>4. FrameAt(t, d) = stack[t][i]
        BY <3>3 DEF FrameAt
      <3> QED
        BY <2>4, <3>3, <3>4
    <2>6. \A i \in 1..Len(tasks) : tasks[i][1] # c
      BY <2>1, <2>3 DEF Owned
    <2> QED
      BY <2>5, <2>6
  <1> QED
    BY <1>1, PoolInvariantHolds, PTL

=============================================================================
