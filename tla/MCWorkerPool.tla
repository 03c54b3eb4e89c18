---------------------------- MODULE MCWorkerPool -----------------------------
\* WorkerPool with a few threads and calls, for TLC.
EXTENDS WorkerPool

CONSTANTS main, other, w1, outer, inner, plain, empty

TwoCallers == {main, other}
OneWorker  == {w1}
AllCalls   == {outer, inner, plain, empty}

\* One thread calls `outer`, which enters `inner` from its first unit; the other
\* calls `plain`, a call of run, which enters `empty`.
Roots == [t \in Callers |-> IF t = main THEN outer ELSE plain]
Nesting == [c \in Calls |-> CASE c = outer -> inner
                             [] c = plain -> empty
                             [] OTHER     -> NoCall]
DynamicCalls == {outer, inner, empty}
\* Five units with a minimum of two make two ranges.
Counts == [c \in Calls |-> CASE c = outer -> 3
                            [] c = plain -> 5
                            [] c = inner -> 2
                            [] c = empty -> 0]
Twos == [c \in Calls |-> 2]
=============================================================================
