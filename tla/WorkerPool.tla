----------------------------- MODULE WorkerPool ------------------------------
(***************************************************************************)
(* WorkerPool of src/parallel.cpp: run() and run_dynamic(), the queue of   *)
(* tasks, the worker threads, and dispatches nested in the functions they  *)
(* run.                                                                    *)
(*                                                                         *)
(* A call splits its work into units: the indexes of run_dynamic, or the   *)
(* ranges of run.  A thread has a stack of frames: a worker runs the task  *)
(* it took from the queue, a caller is inside run(), and any of them may   *)
(* enter another call from a unit.  Only the frame on top moves.           *)
(*                                                                         *)
(* A definition whose comment begins with "Mutant" is a slip the code does *)
(* not make, for the property that would find it; no other one uses it.    *)
(***************************************************************************)
EXTENDS Naturals, Sequences, FiniteSets

CONSTANTS
    Callers,    \* threads outside the pool
    Workers,    \* the threads of the pool; threads_ is one more
    Calls,      \* the calls that are made
    RootCall,   \* [Callers -> Calls], the call each caller makes
    Dynamic,    \* the calls of run_dynamic; the others are of run
    Count,      \* [Calls -> Nat], the count each is given
    Minimum,    \* [Calls -> Nat], minimum_per_worker of a call of run
    NestedCall, \* [Calls -> call that unit 0 makes, or NoCall]
    NoCall,
    MayThrow,   \* TRUE: a function may throw
    AllocFaults \* TRUE: making a group or queueing a task may throw

Threads == Callers \cup Workers
threads_ == Cardinality(Workers) + 1

ASSUME WorkerPoolAssumption ==
    /\ Callers \cap Workers = {}
    /\ RootCall \in [Callers -> Calls] /\ Dynamic \subseteq Calls
    /\ Count \in [Calls -> Nat] /\ Minimum \in [Calls -> Nat]
    /\ NoCall \notin Calls /\ NestedCall \in [Calls -> Calls \cup {NoCall}]
    /\ MayThrow \in BOOLEAN /\ AllocFaults \in BOOLEAN

\* The pool has finitely many threads.
ASSUME FiniteWorkers == IsFiniteSet(Workers)

\* A member of Calls is one execution of run() or run_dynamic(), not a place in
\* the text of the program: it is entered from one thread or from one unit.
ASSUME CallsAreExecutions ==
    /\ \A t1, t2 \in Callers : RootCall[t1] = RootCall[t2] => t1 = t2
    /\ \A t \in Callers : \A c \in Calls : RootCall[t] # NestedCall[c]
    /\ \A c1, c2 \in Calls :
         NestedCall[c1] = NestedCall[c2] /\ NestedCall[c1] # NoCall => c1 = c2

\* task_count of the two functions.
Smaller(m, n) == IF m < n THEN m ELSE n
AtLeastOne(n) == IF n = 0 THEN 1 ELSE n
TaskCount(c) ==
    Smaller(threads_,
            IF c \in Dynamic THEN Count[c]
            ELSE AtLeastOne(Count[c] \div AtLeastOne(Minimum[c])))
\* run() makes as many ranges as tasks, run_dynamic a unit of every index.  A
\* run() that does not dispatch covers its ranges in order, in one call, and a
\* count of zero has none.
Units(c) == IF c \in Dynamic THEN Count[c] ELSE Smaller(Count[c], TaskCount(c))

VARIABLES
    stack,     \* [Threads -> Seq(frames)], innermost call first
    tasks,     \* tasks_: the queued <<call, task>> pairs
    sleepers,  \* workers blocked in condition_.wait
    stop,      \* request_stop was called
    exited,    \* workers whose thread function returned
    next,      \* run_dynamic's shared counter of each call
    remaining, \* TaskGroup::remaining
    exception, \* TaskGroup::exception is set
    begun,     \* history: how often each unit was begun
    ended,     \* history: the units whose function returned
    outcome    \* how each call ended: "none", "value" or "exception"

poolVars == <<tasks, sleepers, stop, exited>>
groupVars == <<next, remaining, exception>>
historyVars == <<begun, ended, outcome>>
vars == <<stack, poolVars, groupVars, historyVars>>

(***************************************************************************)
(* A frame: the call it works for; whether it runs the call's units inline,*)
(* as a task, or is the caller that dispatches, drains and joins; where it *)
(* is; its task, its unit, and whether a function has thrown.              *)
(***************************************************************************)
Frame(c, mode, pc, task) ==
    [call |-> c, mode |-> mode, pc |-> pc, task |-> task, unit |-> 0,
     failed |-> FALSE]

Busy(t) == stack[t] # <<>>
Top(t) == Head(stack[t])
Below(t) == Tail(stack[t])
Replace(t, f) == stack' = [stack EXCEPT ![t] = <<f>> \o Tail(@)]
Push(t, f, g) == stack' = [stack EXCEPT ![t] = <<g, f>> \o Tail(@)]
At(t, pc) == Busy(t) /\ Top(t).pc = pc
\* Mutant: only callers are marked.
CallerDrains(t) == \E i \in 1..Len(stack[t]) : stack[t][i].mode = "own"
\* worker_thread: set in the pool's threads, and by WorkerContext in a caller
\* from its own drain to its return.
WorkerThread(t) ==
    t \in Workers \/ \E i \in 1..Len(stack[t]) : stack[t][i].mode = "own"

Init ==
    /\ stack = [t \in Threads |->
                  IF t \in Callers
                  THEN <<Frame(RootCall[t], "inline", "enter", 0)>> ELSE <<>>]
    /\ tasks = <<>> /\ sleepers = {} /\ stop = FALSE /\ exited = {}
    /\ next = [c \in Calls |-> 0]
    /\ remaining = [c \in Calls |-> 0]
    /\ exception = [c \in Calls |-> FALSE]
    /\ begun = [c \in Calls |-> [u \in 0..(Units(c) - 1) |-> 0]]
    /\ ended = [c \in Calls |-> {}]
    /\ outcome = [c \in Calls |-> "none"]

-----------------------------------------------------------------------------
(***************************************************************************)
(* Entering and leaving a call.                                            *)
(***************************************************************************)

\* The call ends; the frame below sees its function return or throw.
Return(t, failed) ==
    LET c == Top(t).call IN
    /\ outcome' = [outcome EXCEPT ![c] = IF failed THEN "exception" ELSE "value"]
    /\ stack' = [stack EXCEPT ![t] =
         IF Below(t) = <<>> THEN <<>>
         ELSE <<[Head(Below(t)) EXCEPT !.pc = IF failed THEN "threw" ELSE "ran"]>>
                \o Tail(Below(t))]

\* A count of zero returns at once.
EnterEmpty(t) ==
    /\ At(t, "enter") /\ Count[Top(t).call] = 0
    /\ Return(t, FALSE)
    /\ UNCHANGED <<poolVars, groupVars, begun, ended>>

\* One task, or a nested dispatch: the units are run here, in order.
EnterInline(t) ==
    /\ At(t, "enter") /\ Count[Top(t).call] # 0
    /\ TaskCount(Top(t).call) = 1 \/ WorkerThread(t)
    /\ Replace(t, [Top(t) EXCEPT !.pc = "run"])
    /\ UNCHANGED <<poolVars, groupVars, historyVars>>

\* A TaskGroup and a counter are made.
EnterDispatch(t) ==
    LET c == Top(t).call IN
    /\ At(t, "enter") /\ Count[c] # 0
    /\ TaskCount(c) # 1 /\ ~WorkerThread(t)
    /\ next' = [next EXCEPT ![c] = 0]
    /\ remaining' = [remaining EXCEPT ![c] = TaskCount(c)]
    /\ Replace(t, [Top(t) EXCEPT !.mode = "dispatch", !.pc = "enqueue"])
    /\ UNCHANGED <<poolVars, exception, historyVars>>

\* Making them throws.
EnterThrows(t) ==
    LET c == Top(t).call IN
    /\ AllocFaults /\ At(t, "enter") /\ Count[c] # 0
    /\ TaskCount(c) # 1 /\ ~WorkerThread(t)
    /\ Return(t, TRUE)
    /\ UNCHANGED <<poolVars, groupVars, begun, ended>>

\* enqueue(): the task is queued under the mutex.
Enqueue(t) ==
    LET f == Top(t) IN
    /\ At(t, "enqueue") /\ f.task + 1 < TaskCount(f.call)
    /\ tasks' = Append(tasks, <<f.call, f.task>>)
    /\ Replace(t, [f EXCEPT !.pc = "notify"])
    /\ UNCHANGED <<sleepers, stop, exited, groupVars, historyVars>>

\* notify_one wakes one of the sleeping workers, if there is one.
Notify(t) ==
    /\ At(t, "notify")
    /\ IF sleepers = {} THEN UNCHANGED sleepers
       ELSE \E w \in sleepers : sleepers' = sleepers \ {w}
    /\ Replace(t, [Top(t) EXCEPT !.pc = "enqueue", !.task = @ + 1])
    /\ UNCHANGED <<tasks, stop, exited, groupVars, historyVars>>

\* Mutant: the task that was run is queued again.
EnqueueThrowsAgain(t) ==
    LET f == Top(t) IN
    /\ AllocFaults /\ At(t, "enqueue") /\ f.task + 1 < TaskCount(f.call)
    /\ Push(t, f, Frame(f.call, "task", "claim", f.task))
    /\ UNCHANGED <<poolVars, groupVars, historyVars>>

\* Queueing throws: the caller runs the task itself, not marked as a worker.
EnqueueThrows(t) ==
    LET f == Top(t) IN
    /\ AllocFaults /\ At(t, "enqueue") /\ f.task + 1 < TaskCount(f.call)
    /\ Push(t, [f EXCEPT !.task = @ + 1], Frame(f.call, "task", "claim", f.task))
    /\ UNCHANGED <<poolVars, groupVars, historyVars>>

\* All tasks but the last are queued: the caller runs that one.
Drain(t) ==
    LET f == Top(t) IN
    /\ At(t, "enqueue") /\ f.task + 1 = TaskCount(f.call)
    /\ Replace(t, [f EXCEPT !.mode = "own", !.pc = "claim"])
    /\ UNCHANGED <<poolVars, groupVars, historyVars>>

-----------------------------------------------------------------------------
(***************************************************************************)
(* Running units.                                                          *)
(***************************************************************************)

\* Mutant: off by one.
IndexUpToCount(c) == next[c] <= Count[c]
IndexBelowCount(c) == next[c] < Count[c]

\* next->fetch_add(1), or the one range of a task of run().
Claim(t) ==
    LET f == Top(t)  c == f.call IN
    /\ At(t, "claim")
    /\ IF c \in Dynamic
       THEN /\ next' = [next EXCEPT ![c] = @ + 1]
            /\ Replace(t, [f EXCEPT !.unit = next[c],
                            !.pc = IF IndexBelowCount(c) THEN "run" ELSE "finish"])
       ELSE /\ UNCHANGED next
            /\ Replace(t, [f EXCEPT !.unit = f.task, !.pc = "run"])
    /\ UNCHANGED <<poolVars, remaining, exception, historyVars>>

\* function(unit) is called; unit 0 may enter another call.
Run(t) ==
    LET f == Top(t)  c == f.call  nested == NestedCall[c] IN
    /\ At(t, "run")
    /\ begun' = [begun EXCEPT ![c][f.unit] = @ + 1]
    /\ IF f.unit = 0 /\ nested # NoCall
       THEN Push(t, [f EXCEPT !.pc = "nested"], Frame(nested, "inline", "enter", 0))
       ELSE Replace(t, [f EXCEPT !.pc = "ran"])
    /\ UNCHANGED <<poolVars, groupVars, ended, outcome>>

\* It throws itself.
RunThrows(t) ==
    LET f == Top(t) IN
    /\ MayThrow /\ At(t, "run")
    /\ begun' = [begun EXCEPT ![f.call][f.unit] = @ + 1]
    /\ Replace(t, [f EXCEPT !.pc = "threw"])
    /\ UNCHANGED <<poolVars, groupVars, ended, outcome>>

\* It returns: the next index, the end of the task, or the end of an inline call.
Ran(t) ==
    LET f == Top(t)  c == f.call IN
    /\ At(t, "ran")
    /\ ended' = [ended EXCEPT ![c] = @ \cup {f.unit}]
    /\ IF f.mode = "inline"
       THEN IF f.unit + 1 < Units(c)
            THEN /\ Replace(t, [f EXCEPT !.unit = @ + 1, !.pc = "run"])
                 /\ UNCHANGED outcome
            ELSE Return(t, FALSE)
       ELSE /\ Replace(t, [f EXCEPT !.pc = IF c \in Dynamic THEN "claim" ELSE "finish"])
            /\ UNCHANGED outcome
    /\ UNCHANGED <<poolVars, groupVars, begun>>

\* The exception leaves an inline call, or ends the task that caught it.
Threw(t) ==
    LET f == Top(t) IN
    /\ At(t, "threw")
    /\ IF f.mode = "inline"
       THEN Return(t, TRUE)
       ELSE /\ Replace(t, [f EXCEPT !.failed = TRUE, !.pc = "finish"])
            /\ UNCHANGED outcome
    /\ UNCHANGED <<poolVars, groupVars, begun, ended>>

\* notify_one of a TaskGroup: the caller blocked in wait() looks again.
WakeJoin(stacks, c) ==
    [t \in Threads |->
       IF stacks[t] # <<>> /\ Head(stacks[t]).call = c /\ Head(stacks[t]).pc = "asleep"
       THEN <<[Head(stacks[t]) EXCEPT !.pc = "join"]>> \o Tail(stacks[t])
       ELSE stacks[t]]

\* TaskGroup::finish under its mutex.  The caller joins, a task's frame ends.
Finish(t) ==
    LET f == Top(t)  c == f.call  left == remaining[c] - 1
        ownJoins == IF f.mode = "own" THEN <<[f EXCEPT !.pc = "join"]>> ELSE <<>>
        stacks == [stack EXCEPT ![t] = ownJoins \o Tail(@)]
    IN
    /\ At(t, "finish")
    /\ remaining' = [remaining EXCEPT ![c] = left]
    /\ exception' = [exception EXCEPT ![c] = @ \/ f.failed]
    /\ stack' = IF left = 0 THEN WakeJoin(stacks, c) ELSE stacks
    /\ UNCHANGED <<poolVars, next, historyVars>>

\* Mutant: the predicate overlooks the last task.
OneLeft(c) == remaining[c] <= 1
\* The predicate of TaskGroup::wait.
NoneLeft(c) == remaining[c] = 0

\* TaskGroup::wait looks at `remaining` under the group's mutex.
Join(t) ==
    LET f == Top(t)  c == f.call IN
    /\ At(t, "join")
    /\ IF NoneLeft(c)
       THEN Return(t, exception[c])
       ELSE /\ Replace(t, [f EXCEPT !.pc = "asleep"])
            /\ UNCHANGED outcome
    /\ UNCHANGED <<poolVars, groupVars, begun, ended>>

-----------------------------------------------------------------------------
(***************************************************************************)
(* The worker threads and the destructor.                                  *)
(***************************************************************************)

Idle(w) == w \in Workers /\ ~Busy(w) /\ w \notin exited /\ w \notin sleepers

\* worker_loop takes the oldest task, even when it has been asked to stop.
Take(w) ==
    /\ Idle(w) /\ tasks # <<>>
    /\ tasks' = Tail(tasks)
    /\ stack' = [stack EXCEPT ![w] = <<Frame(Head(tasks)[1], "task", "claim", Head(tasks)[2])>>]
    /\ UNCHANGED <<sleepers, stop, exited, groupVars, historyVars>>

Sleep(w) ==
    /\ Idle(w) /\ tasks = <<>> /\ ~stop
    /\ sleepers' = sleepers \cup {w}
    /\ UNCHANGED <<stack, tasks, stop, exited, groupVars, historyVars>>

Exit(w) ==
    /\ Idle(w) /\ tasks = <<>> /\ stop
    /\ exited' = exited \cup {w}
    /\ UNCHANGED <<stack, tasks, sleepers, stop, groupVars, historyVars>>

\* Mutant: nobody is notified.
WakeNone == sleepers' = sleepers
WakeAll == sleepers' = {}

\* ~WorkerPool, at the end of the process: no call is in progress.
Stop ==
    /\ ~stop /\ \A t \in Callers : ~Busy(t)
    /\ stop' = TRUE /\ WakeAll
    /\ UNCHANGED <<stack, tasks, exited, groupVars, historyVars>>

Finished ==
    /\ exited = Workers /\ \A t \in Callers : ~Busy(t)
    /\ UNCHANGED vars

ThreadStep(t) ==
    \/ EnterEmpty(t) \/ EnterInline(t) \/ EnterDispatch(t) \/ EnterThrows(t)
    \/ Enqueue(t) \/ Notify(t) \/ EnqueueThrows(t) \/ Drain(t) \/ Claim(t) \/ Run(t)
    \/ RunThrows(t) \/ Ran(t) \/ Threw(t) \/ Finish(t) \/ Join(t)
    \/ Take(t) \/ Sleep(t) \/ Exit(t)

Next == (\E t \in Threads : ThreadStep(t)) \/ Stop \/ Finished
Spec == Init /\ [][Next]_vars
\* Every thread is scheduled; functions return or throw.
FairSpec == Spec /\ \A t \in Threads : WF_vars(ThreadStep(t))

-----------------------------------------------------------------------------
(***************************************************************************)
(* Properties.                                                             *)
(***************************************************************************)

Modes == {"inline", "dispatch", "own", "task"}
Pcs == {"enter", "enqueue", "notify", "claim", "run", "nested", "ran", "threw",
        "finish", "join", "asleep"}

\* Every variable has its type.
TypeOK ==
    /\ stack \in [Threads -> Seq([call : Calls, mode : Modes, pc : Pcs,
                                  task : Nat, unit : Nat, failed : BOOLEAN])]
    /\ tasks \in Seq(Calls \X Nat)
    /\ sleepers \subseteq Workers /\ exited \subseteq Workers /\ stop \in BOOLEAN
    /\ next \in [Calls -> Nat] /\ remaining \in [Calls -> Nat]
    /\ exception \in [Calls -> BOOLEAN]
    /\ \A c \in Calls : begun[c] \in [0..(Units(c) - 1) -> Nat]
    /\ \A c \in Calls : ended[c] \subseteq 0..(Units(c) - 1)
    /\ outcome \in [Calls -> {"none", "value", "exception"}]

\* parallel.hpp: "each exactly once".  No interleaving of the drains, of a task
\* run by its own caller or of a nested call begins a unit twice, and a call that
\* returns without an exception has completed every unit.
UnitsExactlyOnce ==
    \A c \in Calls :
      /\ \A u \in 0..(Units(c) - 1) : begun[c][u] <= 1
      /\ outcome[c] = "value" => ended[c] = 0..(Units(c) - 1)

\* "capturing function by reference is safe" (src/parallel.cpp): once a call has
\* returned or thrown no thread is inside its function, and none will be, since
\* none of its tasks is queued or claims.
NoUseAfterReturn ==
    \A c \in Calls :
      outcome[c] # "none" =>
        /\ \A t \in Threads : \A i \in 1..Len(stack[t]) : stack[t][i].call # c
        /\ \A i \in 1..Len(tasks) : tasks[i][1] # c

\* Every call returns: the caller that sleeps until its group is done is woken,
\* and calls that enter calls cannot use up the workers that would serve them.
EveryCallReturns == \A t \in Callers : <>(~Busy(t))

\* The destructor's join of the workers ends.
WorkersExit == stop ~> exited = Workers

=============================================================================
