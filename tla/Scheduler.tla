------------------------------ MODULE Scheduler ------------------------------
(***************************************************************************)
(* The game scheduler of the server (diplomacy/server/scheduler.py).       *)
(*                                                                         *)
(* A datum (a game, in the server) is scheduled in one of two places: the  *)
(* heap data_in_heap, where it waits for its deadline, or the FIFO         *)
(* tasks_queue, from which process_tasks takes one task after another.     *)
(* data_in_queue names the task object that stands for a datum in the      *)
(* queue; removing the datum only marks that object invalid, so that stale *)
(* objects stay in the queue until process_tasks reaches them.             *)
(*                                                                         *)
(* Every method runs under the scheduler's lock without yielding inside    *)
(* it, on one event loop, and is therefore one action.  The callback is    *)
(* Server._process_game, which never suspends: taking a task, validating   *)
(* it, running the callback and rescheduling is one action as well.        *)
(*                                                                         *)
(* Time is kept relative: left = deadline - current_time.  Nothing in the  *)
(* scheduler depends on the absolute value of current_time.                *)
(***************************************************************************)
EXTENDS Integers, Sequences, FiniteSets, Functions

CONSTANTS
    Data,       \* what is scheduled
    Tasks,      \* identities of task objects (bounds how many exist at once)
    Delays,     \* the delays callers pass, in time units
    Verdicts,   \* what a processing validator may answer: subset of BOOLEAN
    Outcomes,   \* how the callback may end: subset of OutcomeKinds
    None        \* absence of a heap entry, of a task

\* How a callback ends: it returns True, returns False, or raises.
OutcomeKinds == {"done", "again", "raise"}

ASSUME DataAssumption == IsFiniteSet(Data)
ASSUME DelaysAssumption == Delays \subseteq Nat
ASSUME VerdictsAssumption == Verdicts \subseteq BOOLEAN
ASSUME OutcomesAssumption == Outcomes \subseteq OutcomeKinds
ASSUME NoneAssumption == None \notin Tasks /\ None \notin [left : Int, delay : Nat]
                          /\ None \notin [data : Data, delay : Nat, valid : BOOLEAN,
                                          immediate : BOOLEAN]

VARIABLES
    heap,       \* data_in_heap: datum -> its deadline, or None
    owner,      \* data_in_queue: datum -> its task, or None
    tasks,      \* the task objects that are still referenced
    queue,      \* tasks_queue
    alive       \* whether the loop of process_tasks still runs

vars == <<heap, owner, tasks, queue, alive>>

HeapEntry == [left : Int, delay : Delays]
Task == [data : Data, delay : Delays, valid : BOOLEAN, immediate : BOOLEAN]

\* The task objects reachable from a queue q and from a data_in_queue own.
Referenced(q, own) == Range(q) \cup (Range(own) \ {None})
Fresh == Tasks \ Referenced(queue, owner)

\* The queue, data_in_queue and the task objects after a method; objects that
\* nothing refers to any more are gone.
Store(q, own, objects) ==
    /\ queue' = q
    /\ owner' = own
    /\ tasks' = [t \in Tasks |-> IF t \in Referenced(q, own) THEN objects[t] ELSE None]

HasData(d) == heap[d] # None \/ owner[d] # None

\* A slip the checks must catch: the validator of an immediate task is lost.
UnvalidatedTask(d, n, imm) == [data |-> d, delay |-> n, valid |-> TRUE, immediate |-> FALSE]

NewTask(d, n, imm) == [data |-> d, delay |-> n, valid |-> TRUE, immediate |-> imm]

Init ==
    /\ heap = [d \in Data |-> None]
    /\ owner = [d \in Data |-> None]
    /\ tasks = [t \in Tasks |-> None]
    /\ queue = <<>>
    /\ alive = TRUE

\* add_data: a datum that is scheduled already makes it raise.
AddData(d, n) ==
    /\ n > 0
    /\ ~HasData(d)
    /\ heap' = [heap EXCEPT ![d] = [left |-> n, delay |-> n]]
    /\ UNCHANGED <<owner, tasks, queue, alive>>

\* A slip the checks must catch: the datum also stays in the heap.
EnqueueAlso(d, n) ==
    /\ heap[d] # None \/ owner[d] = None
    /\ \E t \in Fresh : Store(Append(queue, t), [owner EXCEPT ![d] = t],
                              [tasks EXCEPT ![t] = NewTask(d, n, TRUE)])
    /\ UNCHANGED <<heap, alive>>

\* no_wait, datum in the heap or nowhere: an immediate task joins the queue.
EnqueueNow(d, n) ==
    /\ heap[d] # None \/ owner[d] = None
    /\ \E t \in Fresh :
        /\ heap' = [heap EXCEPT ![d] = None]
        /\ Store(Append(queue, t), [owner EXCEPT ![d] = t],
                 [tasks EXCEPT ![t] = NewTask(d, n, TRUE)])
    /\ UNCHANGED alive

\* no_wait, datum in the queue: only the delay of its next round changes.
UpdateDelay(d, n) ==
    /\ heap[d] = None /\ owner[d] # None
    /\ tasks' = [tasks EXCEPT ![owner[d]].delay = n]
    /\ UNCHANGED <<heap, owner, queue, alive>>

NoWait(d, n) == EnqueueNow(d, n) \/ UpdateDelay(d, n)

\* remove_data, datum in the heap.
RemoveFromHeap(d) ==
    /\ heap[d] # None
    /\ heap' = [heap EXCEPT ![d] = None]
    /\ UNCHANGED <<owner, tasks, queue, alive>>

\* A slip the checks must catch: the task left in the queue stays valid.
ForgetTask(d) ==
    /\ heap[d] = None /\ owner[d] # None
    /\ Store(queue, [owner EXCEPT ![d] = None], tasks)
    /\ UNCHANGED <<heap, alive>>

\* remove_data, datum in the queue: its task is left there, invalid.
RemoveFromQueue(d) ==
    /\ heap[d] = None /\ owner[d] # None
    /\ Store(queue, [owner EXCEPT ![d] = None], [tasks EXCEPT ![owner[d]].valid = FALSE])
    /\ UNCHANGED <<heap, alive>>

RemoveData(d) == RemoveFromHeap(d) \/ RemoveFromQueue(d)

\* _step: one time unit passes; the data whose deadline has come move to the
\* queue in the order of their deadlines, equal deadlines in any order.
Due == {d \in Data : heap[d] # None /\ heap[d].left <= 1}

Step ==
    LET n == Cardinality(Due) IN
    \E what \in Bijection(1..n, Due), line \in Injection(1..n, Fresh) :
        /\ \A i, j \in 1..n : i < j => heap[what[i]].left <= heap[what[j]].left
        /\ heap' = [d \in Data |->
                      IF heap[d] = None \/ d \in Due THEN None
                      ELSE [heap[d] EXCEPT !.left = @ - 1]]
        /\ Store(queue \o line,
                 [d \in Data |-> IF d \in Due THEN line[CHOOSE i \in 1..n : what[i] = d]
                                ELSE owner[d]],
                 [t \in Tasks |-> IF t \in Range(line)
                                 THEN LET d == what[CHOOSE i \in 1..n : line[i] = t]
                                      IN  NewTask(d, heap[d].delay, FALSE)
                                 ELSE tasks[t]])
        /\ UNCHANGED alive

\* process_tasks, one turn of its loop on the task at the head of the queue.
Turn == alive /\ queue # <<>>

\* A slip the checks must catch: an invalid task is not taken out.
SkipInPlace == Turn /\ ~tasks[Head(queue)].valid /\ UNCHANGED vars

\* A task that remove_data invalidated is passed over.
SkipTask ==
    /\ Turn
    /\ ~tasks[Head(queue)].valid
    /\ Store(Tail(queue), owner, tasks)
    /\ UNCHANGED <<heap, alive>>

\* The validator of an immediate task answers False: the task is passed over.
\* Its entry of data_in_queue stays.
DropTask(verdict) ==
    LET t == Head(queue) IN
    /\ Turn
    /\ tasks[t].valid /\ tasks[t].immediate /\ ~verdict
    /\ Store(Tail(queue), owner, tasks)
    /\ UNCHANGED <<heap, alive>>

\* Two slips the checks must catch: a null delay is rescheduled, which is due at
\* once; the task is rescheduled one unit short.
RescheduleWith(verdict, outcome, remove, n) ==
    LET d == tasks[Head(queue)].data IN
    /\ Turn
    /\ tasks[Head(queue)].valid /\ (tasks[Head(queue)].immediate => verdict)
    /\ outcome # "raise"
    /\ Store(Tail(queue), [owner EXCEPT ![d] = None], tasks)
    /\ heap' = IF remove THEN heap ELSE [heap EXCEPT ![d] = [left |-> n, delay |-> n]]
    /\ UNCHANGED alive
RunNullDelay(verdict, outcome) ==
    RescheduleWith(verdict, outcome, outcome = "done", tasks[Head(queue)].delay)
RunOneShort(verdict, outcome) ==
    RescheduleWith(verdict, outcome, outcome = "done" \/ tasks[Head(queue)].delay = 0,
                   tasks[Head(queue)].delay - 1)

\* The callback returns, and the datum leaves the scheduler or is rescheduled.
RunTask(verdict, outcome) ==
    LET t == Head(queue)
        d == tasks[t].data
        remove == outcome = "done" \/ tasks[t].delay = 0
    IN
    /\ Turn
    /\ tasks[t].valid /\ (tasks[t].immediate => verdict)
    /\ outcome # "raise"
    /\ Store(Tail(queue), [owner EXCEPT ![d] = None], tasks)
    /\ heap' = IF remove THEN heap
               ELSE [heap EXCEPT ![d] = [left |-> tasks[t].delay,
                                         delay |-> tasks[t].delay]]
    /\ UNCHANGED alive

\* The callback raises: nothing catches it, and the loop ends.
FailTask(verdict, outcome) ==
    LET t == Head(queue) IN
    /\ Turn
    /\ tasks[t].valid /\ (tasks[t].immediate => verdict)
    /\ outcome = "raise"
    /\ Store(Tail(queue), owner, tasks)
    /\ alive' = FALSE
    /\ UNCHANGED heap

ProcessTask(verdict, outcome) ==
    \/ SkipTask
    \/ DropTask(verdict)
    \/ RunTask(verdict, outcome)
    \/ FailTask(verdict, outcome)

Next ==
    \/ \E d \in Data, n \in Delays : AddData(d, n)
    \/ \E d \in Data, n \in Delays : NoWait(d, n)
    \/ \E d \in Data : RemoveData(d)
    \/ Step
    \/ \E v \in Verdicts, o \in Outcomes : ProcessTask(v, o)

Spec == Init /\ [][Next]_vars

\* The event loop keeps running both callbacks registered on it, schedule and
\* process_tasks.  Nothing is assumed of the callers.  Fairness of Step is
\* strong only because Tasks is finite: a step that lacks task identities, which
\* the program never does, is enabled again when process_tasks releases some.
FairSpec ==
    /\ Spec
    /\ SF_vars(Step)
    /\ WF_vars(\E v \in Verdicts, o \in Outcomes : ProcessTask(v, o))
-----------------------------------------------------------------------------
\* The scheduler's variables hold what the code stores in them.
TypeOK ==
    /\ heap \in [Data -> HeapEntry \cup {None}]
    /\ owner \in [Data -> Tasks \cup {None}]
    /\ tasks \in [Tasks -> Task \cup {None}]
    /\ queue \in Seq(Tasks)
    /\ alive \in BOOLEAN

\* A datum has at most one claim on the callback, whatever add_data, no_wait
\* and remove_data were called on it and in whatever order: it is in the heap
\* or in data_in_queue but not in both, and every valid task in the queue is
\* the one data_in_queue names.  So a game removed and scheduled again while
\* its old task is still in the queue is not processed twice.
OneClaim ==
    /\ \A d \in Data : heap[d] = None \/ owner[d] = None
    /\ \A t \in Range(queue) : tasks[t].valid => owner[tasks[t].data] = t

\* Between two steps nothing in the heap is due: a deadline that process_tasks
\* or add_data sets lies in the future, so no datum overruns its deadline by
\* waiting in the heap, and all data that become due do so at their own step.
HeapInFuture == \A d \in Data : heap[d] # None => heap[d].left > 0

\* The inductive strengthening of the above: what data_in_queue and the queue
\* refer to exists, an entry of data_in_queue names a valid task of that datum,
\* and no object is in the queue twice.
References ==
    /\ \A t \in Referenced(queue, owner) : tasks[t] \in Task
    /\ \A d \in Data : owner[d] # None => tasks[owner[d]].data = d /\ tasks[owner[d]].valid
    /\ IsInjective(queue)

IInv == TypeOK /\ OneClaim /\ HeapInFuture /\ References

\* The documentation of has_data: "Return True if given data is associated to
\* any task": what data_in_queue holds is still to be taken by process_tasks.
\* It does not hold of a task that was dropped (see the README).
HasDataMeansTask == \A d \in Data : HasData(d) =>
                       heap[d] # None \/ owner[d] \in Range(queue)

\* While process_tasks runs, nobody is left behind: every task in the queue is
\* taken out of it, however many other tasks are enqueued, updated or
\* invalidated meanwhile, and a datum does not wait in the heap for ever.
QueueIsServed == \A t \in Tasks : t \in Range(queue) ~> t \notin Range(queue) \/ ~alive
WaitEnds == \A d \in Data : heap[d] # None ~> heap[d] = None \/ ~alive
AllAreServed == QueueIsServed /\ WaitEnds

-----------------------------------------------------------------------------
\* The scheduler keeps SchedulerContract: invalid tasks are not in the line,
\* and the entry a dropped or failed task leaves behind stands for nothing.

\* The elements of s at the places in S, in their order (what SelectSeq gives,
\* without its recursion).
At(s, S) == [k \in 1..Cardinality(S) |->
               s[CHOOSE i \in S : Cardinality({j \in S : j <= i}) = k]]

Line == At([i \in DOMAIN queue |-> tasks[queue[i]].data],
           {i \in DOMAIN queue : tasks[queue[i]].valid})
NextDelay == [d \in Data |-> IF owner[d] \in Range(queue) THEN tasks[owner[d]].delay ELSE None]

Contract == INSTANCE SchedulerContract WITH
    waiting <- heap, line <- Line, delay <- NextDelay, serving <- alive

\* Every operation on task objects is an operation of the contract or leaves
\* what the contract sees unchanged.
KeepsContract == Contract!Spec
=============================================================================
