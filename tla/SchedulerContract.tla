-------------------------- MODULE SchedulerContract --------------------------
(***************************************************************************)
(* What diplomacy/server/scheduler.py promises to its callers, without     *)
(* task objects: a datum is idle, waits for its deadline, or stands in one *)
(* line in which it is served in its turn.  A datum stands in the line at  *)
(* most once, waits or stands in line but never both, and a datum that is  *)
(* removed is not served.  The delay a datum is rescheduled with is the    *)
(* one asked for last.                                                     *)
(***************************************************************************)
EXTENDS Integers, Sequences, SequencesExt

CONSTANTS Data, Delays, None

VARIABLES
    waiting,    \* datum -> [left, delay], or None
    line,       \* the data to serve, in the order they will be served
    delay,      \* datum in the line -> delay of its next round, or None
    serving     \* whether the server of the line still works

vars == <<waiting, line, delay, serving>>

InLine(d) == \E i \in DOMAIN line : line[i] = d

Init ==
    /\ waiting = [d \in Data |-> None]
    /\ line = <<>>
    /\ delay = [d \in Data |-> None]
    /\ serving = TRUE

Wait(d, n) == waiting' = [waiting EXCEPT ![d] = [left |-> n, delay |-> n]]

\* An idle datum starts to wait.
Add(d, n) ==
    /\ n > 0 /\ waiting[d] = None /\ ~InLine(d)
    /\ Wait(d, n)
    /\ UNCHANGED <<line, delay, serving>>

\* A datum is to be served as soon as possible; one in line keeps its place.
Hurry(d, n) ==
    /\ line' = IF InLine(d) THEN line ELSE Append(line, d)
    /\ waiting' = [waiting EXCEPT ![d] = None]
    /\ delay' = [delay EXCEPT ![d] = n]
    /\ UNCHANGED serving

\* A datum is given up, wherever it is.
Forget(d) ==
    \/ /\ waiting[d] # None
       /\ waiting' = [waiting EXCEPT ![d] = None]
       /\ UNCHANGED <<line, delay, serving>>
    \/ /\ \E i \in DOMAIN line : line[i] = d /\ line' = RemoveAt(line, i)
       /\ delay' = [delay EXCEPT ![d] = None]
       /\ UNCHANGED <<waiting, serving>>

\* One time unit passes; exactly the data whose time has come join the line.
Tick ==
    LET due == {d \in Data : waiting[d] # None /\ waiting[d].left = 1} IN
    /\ \E arrivals \in SetToSeqs(due) : line' = line \o arrivals
    /\ waiting' = [d \in Data |->
                     IF waiting[d] = None \/ d \in due THEN None
                     ELSE [waiting[d] EXCEPT !.left = @ - 1]]
    /\ delay' = [d \in Data |-> IF d \in due THEN waiting[d].delay ELSE delay[d]]
    /\ UNCHANGED serving

\* The head of the line is served, and waits for its next round or is done;
\* it may also be turned away, or be the last one served.
Serve ==
    LET d == Head(line) IN
    /\ serving /\ line # <<>>
    /\ line' = Tail(line)
    /\ delay' = [delay EXCEPT ![d] = None]
    /\ \/ UNCHANGED <<waiting, serving>>
       \/ delay[d] > 0 /\ Wait(d, delay[d]) /\ UNCHANGED serving
       \/ serving' = FALSE /\ UNCHANGED waiting

Next ==
    \/ \E d \in Data, n \in Delays : Add(d, n) \/ Hurry(d, n)
    \/ \E d \in Data : Forget(d)
    \/ Tick
    \/ Serve

Spec == Init /\ [][Next]_vars
=============================================================================
