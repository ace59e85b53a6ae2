--------------------------- MODULE SchedulerProofs ---------------------------
(***************************************************************************)
(* Proofs about Scheduler: its type invariant, that a datum has one claim  *)
(* on the callback, that nothing in the heap is overdue, and that it       *)
(* implements SchedulerContract, for any data, delays, validators and      *)
(* callbacks.                                                              *)
(*                                                                         *)
(* The contract does not see task objects, their invalidation and the      *)
(* entries of data_in_queue: its line is the queue without its invalid     *)
(* tasks.  What is at some places of a sequence is handled by listing      *)
(* those places, so that the proofs need no induction over the queue.      *)
(***************************************************************************)
EXTENDS Scheduler, SequenceTheorems, FiniteSetTheorems, TLAPS

-----------------------------------------------------------------------------
(* The queue as a set of task objects. *)

LEMMA AppendLemma ==
    ASSUME NEW q \in Seq(Tasks), IsInjective(q), NEW t \in Tasks, t \notin Range(q)
    PROVE  /\ Append(q, t) \in Seq(Tasks)
           /\ Range(Append(q, t)) = Range(q) \cup {t}
           /\ IsInjective(Append(q, t))
  BY AppendProperties DEF Range, IsInjective

LEMMA TailLemma ==
    ASSUME NEW q \in Seq(Tasks), IsInjective(q), q # <<>>
    PROVE  /\ Tail(q) \in Seq(Tasks)
           /\ Head(q) \in Range(q)
           /\ Range(Tail(q)) = Range(q) \ {Head(q)}
           /\ IsInjective(Tail(q))
  <1>1. /\ Tail(q) \in Seq(Tasks) /\ Len(q) \in Nat /\ Len(q) > 0
        /\ Head(q) = q[1] /\ DOMAIN q = 1..Len(q)
        /\ Len(Tail(q)) = Len(q) - 1 /\ DOMAIN Tail(q) = 1..(Len(q) - 1)
        /\ \A i \in 1..(Len(q) - 1) : Tail(q)[i] = q[i + 1]
    BY HeadTailProperties
  <1>2. Range(Tail(q)) \subseteq Range(q) \ {Head(q)}
    BY <1>1 DEF Range, IsInjective
  <1>3. ASSUME NEW t \in Range(q) \ {Head(q)} PROVE t \in Range(Tail(q))
    <2>1. PICK i \in 1..Len(q) : q[i] = t
      BY <1>1 DEF Range
    <2>2. i # 1 /\ i - 1 \in 1..(Len(q) - 1)
      BY <1>1, <2>1
    <2>3. Tail(q)[i - 1] = t
      BY <1>1, <2>1, <2>2
    <2>. QED  BY <1>1, <2>2, <2>3 DEF Range
  <1>4. IsInjective(Tail(q))
    BY <1>1 DEF IsInjective
  <1>5. Head(q) \in Range(q)
    BY <1>1 DEF Range
  <1>. QED  BY <1>1, <1>2, <1>3, <1>4, <1>5

LEMMA ConcatLemma ==
    ASSUME NEW q \in Seq(Tasks), IsInjective(q), NEW l \in Seq(Tasks), IsInjective(l),
           Range(q) \cap Range(l) = {}
    PROVE  /\ q \o l \in Seq(Tasks)
           /\ Range(q \o l) = Range(q) \cup Range(l)
           /\ IsInjective(q \o l)
  <1>1. /\ q \o l \in Seq(Tasks)
        /\ Len(q \o l) = Len(q) + Len(l)
        /\ \A i \in 1..(Len(q) + Len(l)) :
             (q \o l)[i] = IF i <= Len(q) THEN q[i] ELSE l[i - Len(q)]
    BY ConcatProperties
  <1>2. /\ Len(q) \in Nat /\ Len(l) \in Nat /\ DOMAIN q = 1..Len(q) /\ DOMAIN l = 1..Len(l)
        /\ DOMAIN (q \o l) = 1..(Len(q) + Len(l))
    BY <1>1, LenProperties
  <1>3. Range(q \o l) = Range(q) \cup Range(l)
    BY RangeConcatenation
  <1>4. ASSUME NEW i \in DOMAIN (q \o l), NEW j \in DOMAIN (q \o l),
               (q \o l)[i] = (q \o l)[j]
        PROVE  i = j
    <2>1. CASE i <= Len(q) /\ j <= Len(q)
      BY <1>1, <1>2, <1>4, <2>1 DEF IsInjective
    <2>2. CASE i > Len(q) /\ j > Len(q)
      <3>1. i - Len(q) \in DOMAIN l /\ j - Len(q) \in DOMAIN l
        BY <1>2, <2>2
      <3>2. l[i - Len(q)] = l[j - Len(q)]
        BY <1>1, <1>2, <1>4, <2>2
      <3>. QED  BY <3>1, <3>2, <1>2 DEF IsInjective
    <2>3. ASSUME NEW a \in DOMAIN (q \o l), NEW b \in DOMAIN (q \o l),
                 a <= Len(q), b > Len(q)
          PROVE  (q \o l)[a] # (q \o l)[b]
      <3>1. (q \o l)[a] \in Range(q)
        BY <1>1, <1>2, <2>3 DEF Range
      <3>2. b - Len(q) \in DOMAIN l /\ (q \o l)[b] = l[b - Len(q)]
        BY <1>1, <1>2, <2>3
      <3>. QED  BY <3>1, <3>2 DEF Range
    <2>. QED  BY <1>2, <1>4, <2>1, <2>2, <2>3
  <1>. QED  BY <1>1, <1>3, <1>4 DEF IsInjective

-----------------------------------------------------------------------------
(* The initial state. *)

LEMMA InitIInv == Init => IInv
  <1>. SUFFICES ASSUME Init PROVE IInv
    OBVIOUS
  <1>1. Range(queue) = {} /\ Range(owner) \subseteq {None}
    BY DEF Init, Range
  <1>2. TypeOK
    BY DEF Init, TypeOK
  <1>3. OneClaim /\ HeapInFuture
    BY <1>1 DEF Init, OneClaim, HeapInFuture
  <1>4. References
    BY <1>1 DEF Init, References, Referenced, IsInjective
  <1>. QED  BY <1>2, <1>3, <1>4 DEF IInv

-----------------------------------------------------------------------------
(* What an action shows of the task objects it stores. *)

LEMMA StoreLemma ==
    ASSUME NEW q, NEW own \in [Data -> Tasks \cup {None}], NEW objects,
           Range(q) \subseteq Tasks, Store(q, own, objects),
           \A t \in Referenced(q, own) : objects[t] \in Task
    PROVE  /\ queue' = q /\ owner' = own
           /\ tasks' \in [Tasks -> Task \cup {None}]
           /\ \A t \in Referenced(q, own) : t \in Tasks /\ tasks'[t] = objects[t]
           /\ \A d \in Data : own[d] # None => own[d] \in Referenced(q, own)
           /\ Range(q) \subseteq Referenced(q, own)
  BY DEF Store, Referenced, Range

LEMMA ReferencedTasks ==
    ASSUME IInv
    PROVE  /\ Referenced(queue, owner) \subseteq Tasks
           /\ \A t \in Referenced(queue, owner) : tasks[t] \in Task /\ t # None
  BY NoneAssumption DEF IInv, TypeOK, References, Referenced, Range

-----------------------------------------------------------------------------
(* One lemma per method of the scheduler. *)

LEMMA AddDataIInv ==
    ASSUME IInv, NEW d \in Data, NEW n \in Delays, AddData(d, n)
    PROVE  IInv'
  <1>. USE DelaysAssumption, NoneAssumption DEF AddData, IInv
  <1>1. TypeOK'
    BY DEF TypeOK, HeapEntry
  <1>2. OneClaim'
    BY DEF OneClaim, HasData, TypeOK
  <1>3. HeapInFuture'
    BY DEF HeapInFuture, TypeOK
  <1>4. References'
    BY DEF References, Referenced
  <1>. QED  BY <1>1, <1>2, <1>3, <1>4

LEMMA EnqueueNowIInv ==
    ASSUME IInv, NEW d \in Data, NEW n \in Delays, EnqueueNow(d, n)
    PROVE  IInv'
  <1>. USE NoneAssumption DEF IInv
  <1>. PICK t \in Fresh :
          /\ heap' = [heap EXCEPT ![d] = None]
          /\ Store(Append(queue, t), [owner EXCEPT ![d] = t],
                   [tasks EXCEPT ![t] = NewTask(d, n, TRUE)])
    BY DEF EnqueueNow
  <1>. DEFINE q == Append(queue, t)
              own == [owner EXCEPT ![d] = t]
              objects == [tasks EXCEPT ![t] = NewTask(d, n, TRUE)]
              new == NewTask(d, n, TRUE)
  <1>1. /\ t \in Tasks /\ t # None /\ t \notin Range(queue)
        /\ \A e \in Data : owner[e] # t
    BY DEF Fresh, Referenced, Range, TypeOK
  <1>2. q \in Seq(Tasks) /\ Range(q) = Range(queue) \cup {t} /\ IsInjective(q)
    BY <1>1, AppendLemma DEF TypeOK, References
  <1>3. own \in [Data -> Tasks \cup {None}]
    BY <1>1 DEF TypeOK
  <1>4. new \in Task /\ new.data = d /\ new.valid
    BY DEF NewTask, Task
  <1>5. Range(q) \subseteq Tasks
    BY <1>1, <1>2 DEF TypeOK, Range
  <1>6. \A u \in Referenced(q, own) : u = t \/ u \in Referenced(queue, owner)
    BY <1>1, <1>2 DEF Referenced, Range, TypeOK
  <1>7. \A u \in Referenced(q, own) :
           objects[u] \in Task /\ objects[u] = IF u = t THEN new ELSE tasks[u]
    <2>1. \A u \in Tasks : objects[u] = IF u = t THEN new ELSE tasks[u]
      BY DEF TypeOK
    <2>2. \A u \in Referenced(queue, owner) : u \in Tasks /\ tasks[u] \in Task
      BY ReferencedTasks
    <2>. HIDE DEF q, own, objects, new
    <2>. QED  BY <1>1, <1>4, <1>6, <2>1, <2>2
  <1>8. /\ queue' = q /\ owner' = own
        /\ tasks' \in [Tasks -> Task \cup {None}]
        /\ \A u \in Referenced(q, own) : u \in Tasks /\ tasks'[u] = objects[u]
        /\ \A e \in Data : own[e] # None => own[e] \in Referenced(q, own)
        /\ Range(q) \subseteq Referenced(q, own)
    <2>. HIDE DEF q, own, objects
    <2>1. Store(q, own, objects)
      BY DEF q, own, objects
    <2>. QED  BY <1>3, <1>5, <1>7, <2>1, StoreLemma
  <1>. HIDE DEF objects, new
  <1>9. TypeOK'
    BY <1>2, <1>3, <1>8 DEF TypeOK, EnqueueNow
  <1>10. OneClaim'
    <2>1. \A e \in Data : heap'[e] = None \/ owner'[e] = None
      BY <1>8 DEF OneClaim, TypeOK
    <2>2. ASSUME NEW u \in Range(queue'), tasks'[u].valid
          PROVE  owner'[tasks'[u].data] = u
      <3>1. CASE u = t
        BY <3>1, <1>2, <1>3, <1>4, <1>7, <1>8 DEF TypeOK
      <3>2. CASE u # t
        <4>1. u \in Range(queue) /\ tasks'[u] = tasks[u] /\ u \in Tasks
          BY <3>2, <1>2, <1>7, <1>8, <2>2
        <4>2. owner[tasks[u].data] = u
          BY <4>1, <2>2 DEF OneClaim
        <4>3. tasks[u].data # d
          BY <4>1, <4>2 DEF EnqueueNow, OneClaim
        <4>4. tasks[u].data \in Data
          BY <4>1 DEF References, Referenced, Task
        <4>. QED  BY <4>1, <4>2, <4>3, <4>4, <1>8 DEF TypeOK
      <3>. QED  BY <3>1, <3>2
    <2>. QED  BY <2>1, <2>2 DEF OneClaim
  <1>11. HeapInFuture'
    BY DEF HeapInFuture, TypeOK
  <1>12. References'
    <2>1. \A u \in Referenced(queue', owner') : tasks'[u] \in Task
      BY <1>7, <1>8
    <2>2. ASSUME NEW e \in Data, owner'[e] # None
          PROVE  tasks'[owner'[e]].data = e /\ tasks'[owner'[e]].valid
      <3>1. CASE e = d
        <4>1. own[e] = t
          BY <3>1 DEF TypeOK
        <4>2. t \in Referenced(q, own)
          BY <4>1, <1>1, <1>8
        <4>3. tasks'[t] = new
          BY <4>2, <1>7, <1>8
        <4>. QED  BY <3>1, <4>1, <4>3, <1>4, <1>8
      <3>2. CASE e # d
        <4>1. owner'[e] = owner[e] /\ owner[e] # t
          BY <3>2, <1>1, <1>8 DEF TypeOK
        <4>2. tasks'[owner[e]] = tasks[owner[e]]
          BY <4>1, <1>7, <1>8, <2>2
        <4>. QED  BY <4>1, <4>2, <2>2 DEF References
      <3>. QED  BY <3>1, <3>2
    <2>. QED  BY <2>1, <2>2, <1>2, <1>8 DEF References
  <1>. QED  BY <1>9, <1>10, <1>11, <1>12

LEMMA UpdateDelayIInv ==
    ASSUME IInv, NEW d \in Data, NEW n \in Delays, UpdateDelay(d, n)
    PROVE  IInv'
  <1>. USE NoneAssumption DEF IInv
  <1>. DEFINE t == owner[d]
  <1>1. /\ heap' = heap /\ owner' = owner /\ queue' = queue /\ alive' = alive
        /\ tasks' = [tasks EXCEPT ![t].delay = n]
    BY DEF UpdateDelay
  <1>2. t \in Tasks /\ tasks[t] \in Task
    BY ReferencedTasks DEF UpdateDelay, Referenced, Range, TypeOK
  <1>3. /\ tasks'[t] \in Task
        /\ tasks'[t].data = tasks[t].data /\ tasks'[t].valid = tasks[t].valid
        /\ \A u \in Tasks : u # t => tasks'[u] = tasks[u]
        /\ tasks' \in [Tasks -> Task \cup {None}]
    BY <1>1, <1>2 DEF TypeOK, Task
  <1>4. TypeOK'
    BY <1>1, <1>3 DEF TypeOK
  <1>5. \A u \in Range(queue) : u \in Tasks
    BY DEF TypeOK, Range
  <1>6. OneClaim'
    BY <1>1, <1>3, <1>5 DEF OneClaim
  <1>7. HeapInFuture'
    BY <1>1 DEF HeapInFuture
  <1>8. References'
    <2>1. Referenced(queue', owner') = Referenced(queue, owner)
      BY <1>1 DEF Referenced
    <2>2. \A u \in Referenced(queue', owner') : tasks'[u] \in Task
      BY <1>3, <2>1, ReferencedTasks
    <2>3. ASSUME NEW e \in Data, owner'[e] # None
          PROVE  tasks'[owner'[e]].data = e /\ tasks'[owner'[e]].valid
      BY <1>1, <1>3, <2>3 DEF References, TypeOK
    <2>. QED  BY <1>1, <2>2, <2>3 DEF References
  <1>. QED  BY <1>4, <1>6, <1>7, <1>8

LEMMA RemoveFromHeapIInv ==
    ASSUME IInv, NEW d \in Data, RemoveFromHeap(d)
    PROVE  IInv'
  BY NoneAssumption DEF RemoveFromHeap, IInv, TypeOK, OneClaim, HeapInFuture,
                        References, Referenced

\* The methods that take a task out of the queue or out of data_in_queue share
\* this step: the queue loses its head or nothing, one entry of data_in_queue is
\* cleared or none, and the objects that stay keep their data and delay.
LEMMA ShrinkIInv ==
    ASSUME IInv, NEW q \in {queue, Tail(queue)}, q = queue \/ queue # <<>>,
           NEW own \in [Data -> Tasks \cup {None}],
           \A d \in Data : own[d] \in {owner[d], None},
           NEW objects, Store(q, own, objects),
           \A t \in Referenced(queue, owner) :
              /\ objects[t] \in Task /\ objects[t].data = tasks[t].data
              /\ objects[t].valid => tasks[t].valid,
           \A d \in Data : own[d] # None => objects[own[d]].valid,
           \A d \in Data : own[d] # owner[d] =>
              owner[d] \notin Range(q) \/ ~objects[owner[d]].valid,
           heap' \in [Data -> HeapEntry \cup {None}],
           \A d \in Data : heap'[d] = None \/ own[d] = None,
           HeapInFuture', alive' \in BOOLEAN
    PROVE  IInv'
  <1>. USE NoneAssumption
  <1>1. /\ q \in Seq(Tasks) /\ Range(q) \subseteq Range(queue) /\ IsInjective(q)
        /\ Range(q) \subseteq Tasks
    <2>1. queue \in Seq(Tasks) /\ IsInjective(queue) /\ Range(queue) \subseteq Tasks
      BY DEF IInv, TypeOK, References, Range
    <2>2. CASE q = queue
      BY <2>1, <2>2
    <2>3. CASE q = Tail(queue) /\ queue # <<>>
      BY <2>1, <2>3, TailLemma
    <2>. QED  BY <2>2, <2>3
  <1>2. Referenced(q, own) \subseteq Referenced(queue, owner)
    <2>1. owner \in [Data -> Tasks \cup {None}]
      BY DEF IInv, TypeOK
    <2>2. Range(own) \ {None} \subseteq Range(owner) \ {None}
      BY <2>1 DEF Range
    <2>. QED  BY <1>1, <2>2 DEF Referenced
  <1>3. /\ queue' = q /\ owner' = own
        /\ tasks' \in [Tasks -> Task \cup {None}]
        /\ \A t \in Referenced(q, own) : t \in Tasks /\ tasks'[t] = objects[t]
        /\ \A d \in Data : own[d] # None => own[d] \in Referenced(q, own)
        /\ Range(q) \subseteq Referenced(q, own)
    <2>1. \A t \in Referenced(q, own) : objects[t] \in Task
      BY <1>2
    <2>. QED  BY <1>1, <2>1, StoreLemma
  <1>4. TypeOK'
    BY <1>1, <1>3 DEF TypeOK
  <1>5. OneClaim'
    <2>1. ASSUME NEW t \in Range(q), objects[t].valid
          PROVE  own[objects[t].data] = t
      <3>1. t \in Referenced(queue, owner) /\ t \in Range(queue)
        BY <1>1, <1>2, <1>3
      <3>2. objects[t].data = tasks[t].data /\ tasks[t].valid /\ objects[t].data \in Data
        BY <2>1, <3>1 DEF Task
      <3>3. owner[objects[t].data] = t
        BY <3>1, <3>2 DEF IInv, OneClaim
      <3>. QED  BY <2>1, <3>2, <3>3
    <2>2. \A t \in Range(queue') : tasks'[t].valid => owner'[tasks'[t].data] = t
      BY <1>3, <2>1
    <2>3. \A d \in Data : heap'[d] = None \/ owner'[d] = None
      BY <1>3
    <2>. QED  BY <2>2, <2>3 DEF OneClaim
  <1>6. References'
    <2>1. \A t \in Referenced(queue', owner') : tasks'[t] \in Task
      BY <1>2, <1>3
    <2>2. ASSUME NEW d \in Data, own[d] # None
          PROVE  tasks'[own[d]].data = d /\ tasks'[own[d]].valid
      <3>1. own[d] = owner[d] /\ own[d] \in Referenced(q, own)
        BY <1>3, <2>2
      <3>2. objects[own[d]].data = d
        BY <1>2, <2>2, <3>1 DEF IInv, References
      <3>. QED  BY <1>3, <2>2, <3>1, <3>2
    <2>. QED  BY <1>1, <1>3, <2>1, <2>2 DEF References
  <1>. QED  BY <1>4, <1>5, <1>6 DEF IInv

LEMMA HeadLemma ==
    ASSUME IInv, Turn
    PROVE  /\ queue # <<>> /\ Head(queue) \in Tasks
           /\ Head(queue) \in Referenced(queue, owner)
           /\ Head(queue) \in Range(queue) /\ Head(queue) \notin Range(Tail(queue))
           /\ tasks[Head(queue)] \in Task
  <1>1. queue # <<>> /\ queue \in Seq(Tasks) /\ IsInjective(queue)
    BY DEF Turn, IInv, TypeOK, References
  <1>2. Head(queue) \in Range(queue) /\ Head(queue) \notin Range(Tail(queue))
    BY <1>1, TailLemma
  <1>3. Head(queue) \in Referenced(queue, owner)
    BY <1>2, NoneAssumption, <1>1 DEF Referenced
  <1>. QED  BY <1>1, <1>2, <1>3, ReferencedTasks

LEMMA RemoveFromQueueIInv ==
    ASSUME IInv, NEW d \in Data, RemoveFromQueue(d)
    PROVE  IInv'
  <1>. DEFINE own == [owner EXCEPT ![d] = None]
              objects == [tasks EXCEPT ![owner[d]].valid = FALSE]
  <1>1. Store(queue, own, objects) /\ heap' = heap /\ alive' = alive
    BY DEF RemoveFromQueue
  <1>2. owner[d] # None /\ owner[d] \in Tasks /\ tasks[owner[d]] \in Task
    BY ReferencedTasks DEF RemoveFromQueue, Referenced, Range, IInv, TypeOK
  <1>3. own \in [Data -> Tasks \cup {None}] /\ \A e \in Data : own[e] \in {owner[e], None}
    BY DEF IInv, TypeOK
  <1>4. /\ objects[owner[d]] \in Task
        /\ objects[owner[d]].data = tasks[owner[d]].data
        /\ ~objects[owner[d]].valid
        /\ \A t \in Tasks : t # owner[d] => objects[t] = tasks[t]
    BY <1>2 DEF Task, IInv, TypeOK
  <1>5. ASSUME NEW t \in Referenced(queue, owner)
        PROVE  /\ objects[t] \in Task /\ objects[t].data = tasks[t].data
               /\ objects[t].valid => tasks[t].valid
    <2>1. t \in Tasks /\ tasks[t] \in Task
      BY ReferencedTasks
    <2>. QED  BY <1>4, <2>1
  <1>6. ASSUME NEW e \in Data, own[e] # None PROVE objects[own[e]].valid
    <2>1. e # d /\ own[e] = owner[e] /\ owner[e] \in Tasks
      BY <1>6, <1>3 DEF IInv, TypeOK
    <2>2. tasks[owner[e]].data = e /\ tasks[owner[e]].valid /\ tasks[owner[d]].data = d
      BY <1>2, <1>6, <2>1 DEF IInv, References
    <2>. QED  BY <1>4, <2>1, <2>2
  <1>7. \A e \in Data : own[e] # owner[e] =>
           owner[e] \notin Range(queue) \/ ~objects[owner[e]].valid
    BY <1>4 DEF IInv, TypeOK
  <1>8. /\ heap' \in [Data -> HeapEntry \cup {None}] /\ HeapInFuture' /\ alive' \in BOOLEAN
        /\ \A e \in Data : heap'[e] = None \/ own[e] = None
    BY <1>1, <1>3 DEF IInv, TypeOK, HeapInFuture, OneClaim
  <1>. HIDE DEF own, objects
  <1>. QED  BY <1>1, <1>3, <1>5, <1>6, <1>7, <1>8, ShrinkIInv

\* A turn of process_tasks that only takes the head out of the queue.
LEMMA PassOverIInv ==
    ASSUME IInv, Turn, Store(Tail(queue), owner, tasks), heap' = heap, alive' \in BOOLEAN
    PROVE  IInv'
  <1>1. owner \in [Data -> Tasks \cup {None}] /\ heap' \in [Data -> HeapEntry \cup {None}]
    BY DEF IInv, TypeOK
  <1>2. \A t \in Referenced(queue, owner) :
              /\ tasks[t] \in Task /\ tasks[t].data = tasks[t].data
              /\ tasks[t].valid => tasks[t].valid
    BY ReferencedTasks
  <1>3. /\ \A d \in Data : owner[d] # None => tasks[owner[d]].valid
        /\ \A d \in Data : heap'[d] = None \/ owner[d] = None
        /\ HeapInFuture'
    BY DEF IInv, References, OneClaim, HeapInFuture
  <1>. QED  BY <1>1, <1>2, <1>3, HeadLemma, ShrinkIInv

LEMMA RunTaskIInv ==
    ASSUME IInv, NEW v, NEW o, RunTask(v, o)
    PROVE  IInv'
  <1>. DEFINE t == Head(queue)
              d == tasks[t].data
              own == [owner EXCEPT ![d] = None]
              next == [left |-> tasks[t].delay, delay |-> tasks[t].delay]
  <1>1. /\ Turn /\ tasks[t].valid /\ alive' = alive
        /\ Store(Tail(queue), own, tasks)
        /\ heap' = heap \/ (tasks[t].delay # 0 /\ heap' = [heap EXCEPT ![d] = next])
    BY DEF RunTask
  <1>2. t \in Range(queue) /\ t \notin Range(Tail(queue)) /\ tasks[t] \in Task /\ queue # <<>>
    BY <1>1, HeadLemma
  <1>3. d \in Data /\ owner[d] = t /\ tasks[t].delay \in Delays /\ tasks[t].delay \in Nat
    BY <1>1, <1>2, DelaysAssumption DEF Task, IInv, OneClaim
  <1>4. own \in [Data -> Tasks \cup {None}] /\ \A e \in Data : own[e] \in {owner[e], None}
    BY DEF IInv, TypeOK
  <1>5. \A e \in Data : own[e] # None => tasks[own[e]].valid
    BY <1>4 DEF IInv, References
  <1>6. \A e \in Data : own[e] # owner[e] =>
           owner[e] \notin Range(Tail(queue)) \/ ~tasks[owner[e]].valid
    BY <1>2, <1>3 DEF IInv, TypeOK
  <1>7. heap' \in [Data -> HeapEntry \cup {None}]
    BY <1>1, <1>3 DEF IInv, TypeOK, HeapEntry
  <1>8. \A e \in Data : heap'[e] = None \/ own[e] = None
    BY <1>1, <1>3 DEF IInv, TypeOK, OneClaim
  <1>9. HeapInFuture'
    BY <1>1, <1>3 DEF IInv, TypeOK, HeapInFuture
  <1>10. \A u \in Referenced(queue, owner) :
              /\ tasks[u] \in Task /\ tasks[u].data = tasks[u].data
              /\ tasks[u].valid => tasks[u].valid
    BY ReferencedTasks
  <1>11. alive' \in BOOLEAN
    BY <1>1 DEF IInv, TypeOK
  <1>. HIDE DEF own, t, d
  <1>. QED  BY <1>1, <1>2, <1>4, <1>5, <1>6, <1>7, <1>8, <1>9, <1>10, <1>11, ShrinkIInv

LEMMA ProcessTaskIInv ==
    ASSUME IInv, NEW v, NEW o, ProcessTask(v, o)
    PROVE  IInv'
  <1>1. CASE SkipTask
    BY <1>1, PassOverIInv DEF SkipTask, IInv, TypeOK
  <1>2. CASE DropTask(v)
    BY <1>2, PassOverIInv DEF DropTask, IInv, TypeOK
  <1>3. CASE RunTask(v, o)
    BY <1>3, RunTaskIInv
  <1>4. CASE FailTask(v, o)
    BY <1>4, PassOverIInv DEF FailTask
  <1>. QED  BY <1>1, <1>2, <1>3, <1>4 DEF ProcessTask

LEMMA StepIInv ==
    ASSUME IInv, Step
    PROVE  IInv'
  <1>. USE NoneAssumption DEF IInv
  <1>. DEFINE n == Cardinality(Due)
  <1>1. n \in Nat
    BY DataAssumption, FS_Subset, FS_CardinalityType DEF Due
  <1>. PICK what \in Bijection(1..n, Due), line \in Injection(1..n, Fresh) :
          /\ heap' = [d \in Data |->
                        IF heap[d] = None \/ d \in Due THEN None
                        ELSE [heap[d] EXCEPT !.left = @ - 1]]
          /\ Store(queue \o line,
                   [d \in Data |-> IF d \in Due THEN line[CHOOSE i \in 1..n : what[i] = d]
                                  ELSE owner[d]],
                   [t \in Tasks |-> IF t \in Range(line)
                                   THEN LET d == what[CHOOSE i \in 1..n : line[i] = t]
                                        IN  NewTask(d, heap[d].delay, FALSE)
                                   ELSE tasks[t]])
          /\ UNCHANGED alive
    BY DEF Step
  <1>. DEFINE place(e) == CHOOSE i \in 1..n : what[i] = e
              index(t) == CHOOSE i \in 1..n : line[i] = t
              new(t) == NewTask(what[index(t)], heap[what[index(t)]].delay, FALSE)
              q == queue \o line
              own == [d \in Data |-> IF d \in Due THEN line[place(d)] ELSE owner[d]]
              objects == [t \in Tasks |-> IF t \in Range(line) THEN new(t) ELSE tasks[t]]
  <1>2. /\ line \in [1..n -> Fresh] /\ IsInjective(line)
        /\ what \in [1..n -> Due] /\ IsInjective(what)
        /\ \A e \in Due : \E i \in 1..n : what[i] = e
    BY DEF Bijection, Injection, Surjection
  <1>3. \A t \in Fresh : /\ t \in Tasks /\ t # None /\ t \notin Range(queue)
                         /\ \A e \in Data : owner[e] # t
    BY DEF Fresh, Referenced, Range, TypeOK
  <1>4. /\ Range(line) \subseteq Fresh /\ line \in Seq(Tasks)
    <2>. HIDE DEF n
    <2>1. line \in [1..n -> Tasks]
      BY <1>2, <1>3
    <2>2. line \in Seq(Tasks)
      BY <1>1, <2>1
    <2>. QED  BY <1>2, <2>2 DEF Range
  <1>5. \A e \in Due : e \in Data /\ heap[e] # None /\ owner[e] = None /\ heap[e].delay \in Delays
    BY DEF Due, OneClaim, TypeOK, HeapEntry
  <1>6. \A e \in Due : place(e) \in 1..n /\ what[place(e)] = e
    BY <1>2
  <1>7. \A i \in 1..n : index(line[i]) = i /\ place(what[i]) = i
    BY <1>2 DEF IsInjective
  <1>8. \A t \in Range(line) : index(t) \in 1..n /\ line[index(t)] = t
    BY <1>2 DEF Range
  <1>9. \A t \in Range(line) : /\ new(t) \in Task /\ new(t).valid
                               /\ new(t).data = what[index(t)]
    BY <1>2, <1>5, <1>8 DEF NewTask, Task
  <1>10. /\ own \in [Data -> Tasks \cup {None}]
         /\ \A e \in Data : own[e] = IF e \in Due THEN line[place(e)] ELSE owner[e]
         /\ \A e \in Due : own[e] \in Range(line)
    <2>. HIDE DEF place
    <2>1. ASSUME NEW e \in Due PROVE line[place(e)] \in Fresh /\ line[place(e)] \in Range(line)
      BY <1>2, <1>6 DEF Range
    <2>2. \A e \in Data : own[e] = IF e \in Due THEN line[place(e)] ELSE owner[e]
      OBVIOUS
    <2>3. \A e \in Data : own[e] \in Tasks \cup {None}
      BY <2>1, <2>2, <1>3 DEF TypeOK
    <2>. QED  BY <2>1, <2>2, <2>3, <1>5
  <1>11. \A t \in Tasks : objects[t] = IF t \in Range(line) THEN new(t) ELSE tasks[t]
    OBVIOUS
  <1>12. /\ q \in Seq(Tasks) /\ Range(q) = Range(queue) \cup Range(line) /\ IsInjective(q)
    <2>1. Range(queue) \cap Range(line) = {}
      BY <1>3, <1>4
    <2>. QED  BY <1>2, <1>4, <2>1, ConcatLemma DEF TypeOK, References
  <1>13. Store(q, own, objects)
    OBVIOUS
  <1>. HIDE DEF q, own, objects, place, index, new, n
  <1>14. \A t \in Referenced(q, own) : t \in Range(line) \/ t \in Referenced(queue, owner)
    <2>. SUFFICES ASSUME NEW t \in Referenced(q, own), t \notin Range(line)
                  PROVE  t \in Referenced(queue, owner)
      OBVIOUS
    <2>1. CASE t \in Range(q)
      BY <2>1, <1>12 DEF Referenced
    <2>2. CASE t \in Range(own) \ {None}
      BY <2>2, <1>10 DEF Referenced, Range, TypeOK
    <2>. QED  BY <2>1, <2>2 DEF Referenced
  <1>15. /\ Range(q) \subseteq Tasks
         /\ \A t \in Referenced(q, own) : objects[t] \in Task
    <2>1. Range(q) \subseteq Tasks
      BY <1>3, <1>4, <1>12 DEF TypeOK, Range
    <2>2. \A t \in Range(line) : t \in Tasks
      BY <1>3, <1>4
    <2>. QED  BY <1>9, <1>11, <1>14, <2>1, <2>2, ReferencedTasks
  <1>16. /\ queue' = q /\ owner' = own
         /\ tasks' \in [Tasks -> Task \cup {None}]
         /\ \A t \in Referenced(q, own) : t \in Tasks /\ tasks'[t] = objects[t]
         /\ \A d \in Data : own[d] # None => own[d] \in Referenced(q, own)
         /\ Range(q) \subseteq Referenced(q, own)
    BY <1>10, <1>13, <1>15, StoreLemma
  <1>17. TypeOK'
    <2>1. heap' \in [Data -> HeapEntry \cup {None}]
      BY DEF TypeOK, HeapEntry
    <2>. QED  BY <1>10, <1>12, <1>16, <2>1 DEF TypeOK
  <1>18. HeapInFuture'
    <2>1. \A d \in Data : heap'[d] # None =>
             heap[d] # None /\ d \notin Due /\ heap'[d].left = heap[d].left - 1
      BY DEF TypeOK, HeapEntry
    <2>. QED  BY <2>1 DEF HeapInFuture, Due, TypeOK, HeapEntry
  <1>19. OneClaim'
    <2>1. ASSUME NEW d \in Data PROVE heap'[d] = None \/ owner'[d] = None
      BY <1>10, <1>16 DEF OneClaim
    <2>2. ASSUME NEW t \in Range(q), objects[t].valid
          PROVE  own[objects[t].data] = t
      <3>1. CASE t \in Range(line)
        <4>1. objects[t].data = what[index(t)] /\ index(t) \in 1..n /\ line[index(t)] = t
          BY <3>1, <1>3, <1>4, <1>8, <1>9, <1>11
        <4>2. what[index(t)] \in Due /\ place(what[index(t)]) = index(t)
          BY <4>1, <1>2, <1>7
        <4>. QED  BY <4>1, <4>2, <1>5, <1>10
      <3>2. CASE t \notin Range(line)
        <4>1. t \in Range(queue) /\ objects[t] = tasks[t] /\ t \in Tasks
          BY <3>2, <1>11, <1>12, <1>15
        <4>2. owner[tasks[t].data] = t
          BY <4>1, <2>2 DEF OneClaim
        <4>3. tasks[t].data \in Data /\ t # None
          BY <4>1, ReferencedTasks DEF Referenced, Task
        <4>. QED  BY <4>1, <4>2, <4>3, <1>5, <1>10
      <3>. QED  BY <3>1, <3>2
    <2>. QED  BY <1>16, <2>1, <2>2 DEF OneClaim
  <1>20. References'
    <2>1. \A t \in Referenced(queue', owner') : tasks'[t] \in Task
      BY <1>15, <1>16
    <2>2. ASSUME NEW d \in Data, own[d] # None
          PROVE  objects[own[d]].data = d /\ objects[own[d]].valid
      <3>1. CASE d \in Due
        <4>1. own[d] = line[place(d)] /\ own[d] \in Range(line) /\ own[d] \in Tasks
          BY <3>1, <1>3, <1>4, <1>5, <1>10
        <4>2. index(own[d]) = place(d) /\ what[place(d)] = d
          BY <3>1, <4>1, <1>6, <1>7
        <4>. QED  BY <4>1, <4>2, <1>9, <1>11
      <3>2. CASE d \notin Due
        <4>1. own[d] = owner[d] /\ owner[d] \in Tasks /\ own[d] \notin Range(line)
          BY <3>2, <2>2, <1>3, <1>4, <1>10 DEF TypeOK
        <4>. QED  BY <4>1, <2>2, <1>11 DEF References
      <3>. QED  BY <3>1, <3>2
    <2>. QED  BY <1>12, <1>16, <2>1, <2>2 DEF References
  <1>. QED  BY <1>17, <1>18, <1>19, <1>20

-----------------------------------------------------------------------------
(* The theorems. *)

\* The invariant is inductive.
LEMMA NextIInv == IInv /\ [Next]_vars => IInv'
  <1>. SUFFICES ASSUME IInv, [Next]_vars PROVE IInv'
    OBVIOUS
  <1>1. CASE \E d \in Data, n \in Delays : AddData(d, n)
    BY <1>1, AddDataIInv
  <1>2. CASE \E d \in Data, n \in Delays : NoWait(d, n)
    BY <1>2, EnqueueNowIInv, UpdateDelayIInv DEF NoWait
  <1>3. CASE \E d \in Data : RemoveData(d)
    BY <1>3, RemoveFromHeapIInv, RemoveFromQueueIInv DEF RemoveData
  <1>4. CASE Step
    BY <1>4, StepIInv
  <1>5. CASE \E v \in Verdicts, o \in Outcomes : ProcessTask(v, o)
    BY <1>5, ProcessTaskIInv
  <1>6. CASE UNCHANGED vars
    BY <1>6 DEF vars, IInv, TypeOK, OneClaim, HeapInFuture, References, Referenced
  <1>. QED  BY <1>1, <1>2, <1>3, <1>4, <1>5, <1>6 DEF Next

LEMMA SpecIInv == Spec => []IInv
  BY InitIInv, NextIInv, PTL DEF Spec

\* The scheduler's variables always hold what the code stores in them.
THEOREM TypeCorrect == Spec => []TypeOK
  <1>1. IInv => TypeOK
    BY DEF IInv
  <1>. QED  BY <1>1, SpecIInv, PTL

\* A game is never in line for processing twice, nor both in line and waiting
\* for its deadline, whatever the calls of add_data, no_wait and remove_data.
THEOREM ClaimIsUnique == Spec => []OneClaim
  <1>1. IInv => OneClaim
    BY DEF IInv
  <1>. QED  BY <1>1, SpecIInv, PTL

\* Between two steps of the scheduler no deadline in the heap has passed.
THEOREM NothingOverdue == Spec => []HeapInFuture
  <1>1. IInv => HeapInFuture
    BY DEF IInv
  <1>. QED  BY <1>1, SpecIInv, PTL

-----------------------------------------------------------------------------
(* The elements of a sequence at some of its places. *)

\* e lists the places S in their order.
Lists(e, n, S) ==
    /\ n \in Nat /\ e \in [1..n -> S]
    /\ \A p \in S : \E k \in 1..n : e[k] = p
    /\ \A j, k \in 1..n : j < k => e[j] < e[k]

\* e lists the places S, and r has what s has there.
Gives(s, S, r, e) ==
    /\ Lists(e, Len(r), S)
    /\ \A k \in 1..Len(r) : r[k] = s[e[k]]

\* Only the sequence that At gives has the elements at the places in order.
LEMMA GivesAt ==
    ASSUME NEW s, NEW S, S \subseteq Nat, NEW D, NEW r \in Seq(D), NEW e, Gives(s, S, r, e)
    PROVE  r = At(s, S)
  <1>. DEFINE n == Len(r)
  <1>a. Lists(e, n, S) /\ r = [k \in 1..n |-> r[k]] /\ \A k \in 1..n : r[k] = s[e[k]]
    BY DEF Gives
  <1>. HIDE DEF n
  <1>. DEFINE rank(i) == Cardinality({j \in S : j <= i})
  <1>0. n \in Nat /\ e \in [1..n -> S] /\ \A k \in 1..n : e[k] \in Nat
    BY <1>a DEF Lists
  <1>1. \A j, k \in 1..n : e[j] <= e[k] => j <= k
    BY <1>0, <1>a DEF Lists
  <1>2. \A j, k \in 1..n : e[j] = e[k] => j = k
    BY <1>0, <1>1
  <1>3. ASSUME NEW k \in 1..n PROVE rank(e[k]) = k
    <2>. DEFINE T == {j \in S : j <= e[k]}
                f == [j \in 1..k |-> e[j]]
    <2>1. f \in Bijection(1..k, T)
      <3>1. \A j \in 1..k : j \in 1..n /\ f[j] = e[j] /\ e[j] \in T
        BY <1>0, <1>a DEF Lists
      <3>2. f \in [1..k -> T]
        BY <3>1
      <3>3. \A i, j \in 1..k : f[i] = f[j] => i = j
        BY <1>2, <3>1
      <3>4. \A t \in T : \E j \in 1..k : f[j] = t
        <4>. TAKE t \in T
        <4>1. PICK j \in 1..n : e[j] = t
          BY <1>a DEF Lists
        <4>2. j \in 1..k
          BY <1>0, <1>1, <4>1
        <4>. QED  BY <3>1, <4>1, <4>2
      <3>. HIDE DEF f, T
      <3>. QED  BY <3>2, <3>3, <3>4 DEF Bijection, Injection, Surjection, IsInjective
    <2>2. IsFiniteSet(1..k) /\ Cardinality(1..k) = k
      <3>1. k \in Nat /\ 1 <= k
        OBVIOUS
      <3>2. IsFiniteSet(1..k) /\ Cardinality(1..k) = IF 1 > k THEN 0 ELSE k - 1 + 1
        BY <3>1, FS_Interval
      <3>. QED  BY <3>1, <3>2
    <2>. HIDE DEF f, T
    <2>3. Cardinality(T) = k
      BY <2>1, <2>2, FS_Bijection DEF ExistsBijection
    <2>. QED  BY <2>3 DEF T
  <1>4. Cardinality(S) = n
    <2>1. e \in Bijection(1..n, S)
      BY <1>0, <1>2, <1>a DEF Lists, Bijection, Injection, Surjection, IsInjective
    <2>2. IsFiniteSet(1..n) /\ Cardinality(1..n) = IF 1 > n THEN 0 ELSE n - 1 + 1
      BY <1>0, FS_Interval
    <2>3. Cardinality(S) = Cardinality(1..n)
      BY <2>1, <2>2, FS_Bijection DEF ExistsBijection
    <2>. QED  BY <1>0, <2>2, <2>3
  <1>5. ASSUME NEW k \in 1..n PROVE (CHOOSE i \in S : rank(i) = k) = e[k]
    <2>. HIDE DEF rank
    <2>1. e[k] \in S /\ rank(e[k]) = k
      BY <1>0, <1>3
    <2>2. ASSUME NEW i \in S, rank(i) = k PROVE i = e[k]
      <3>1. PICK j \in 1..n : e[j] = i
        BY <1>a DEF Lists
      <3>2. j = k
        BY <1>3, <2>2, <3>1
      <3>. QED  BY <3>1, <3>2
    <2>. QED  BY <2>1, <2>2
  <1>6. At(s, S) = [k \in 1..Cardinality(S) |-> s[CHOOSE i \in S : rank(i) = k]]
    BY DEF At
  <1>. HIDE DEF rank
  <1>. DEFINE choice(k) == CHOOSE i \in S : rank(i) = k
  <1>7. \A k \in 1..n : s[choice(k)] = r[k]
    BY <1>5, <1>a
  <1>8. At(s, S) = [k \in 1..n |-> s[choice(k)]]
    BY <1>4, <1>6
  <1>. HIDE DEF choice
  <1>9. [k \in 1..n |-> s[choice(k)]] = [k \in 1..n |-> r[k]]
    BY <1>7
  <1>. QED  BY <1>8, <1>9, <1>a

\* Any places can be listed: the number of those before it is where each goes.
LEMMA ListLemma ==
    ASSUME NEW S, S \subseteq Nat, IsFiniteSet(S)
    PROVE  \E e : Lists(e, Cardinality(S), S)
  <1>. DEFINE n == Cardinality(S)
              upTo(i) == {j \in S : j <= i}
              f == [i \in S |-> Cardinality(upTo(i))]
              e == [k \in 1..n |-> CHOOSE i \in S : f[i] = k]
  <1>1. n \in Nat
    BY FS_CardinalityType
  <1>2. ASSUME NEW i \in S PROVE IsFiniteSet(upTo(i)) /\ f[i] \in 1..n
    <2>1. /\ IsFiniteSet(upTo(i)) /\ Cardinality(upTo(i)) <= n
      <3>1. upTo(i) \subseteq S
        OBVIOUS
      <3>. HIDE DEF upTo
      <3>. QED  BY <3>1, FS_Subset
    <2>2. Cardinality(upTo(i)) \in Nat
      BY <2>1, FS_CardinalityType
    <2>3. Cardinality(upTo(i)) # 0
      <3>1. i \in upTo(i)
        OBVIOUS
      <3>. HIDE DEF upTo
      <3>. QED  BY <2>1, <3>1, FS_EmptySet
    <2>. HIDE DEF upTo, n
    <2>. QED  BY <1>1, <2>1, <2>2, <2>3
  <1>3. ASSUME NEW i \in S, NEW j \in S, i < j PROVE f[i] < f[j]
    <2>0. i \in Nat /\ j \in Nat
      OBVIOUS
    <2>1. upTo(i) \subseteq upTo(j) /\ j \in upTo(j) /\ j \notin upTo(i)
      <3>1. \A x \in S : x \in Nat
        OBVIOUS
      <3>2. \A x \in S : x <= i => x <= j
        BY <1>3, <2>0, <3>1
      <3>3. j <= j /\ ~(j <= i)
        BY <1>3, <2>0
      <3>. QED  BY <3>2, <3>3
    <2>2. IsFiniteSet(upTo(j)) /\ f[i] = Cardinality(upTo(i)) /\ f[j] = Cardinality(upTo(j))
          /\ f[i] \in Nat /\ f[j] \in Nat
      BY <1>2
    <2>. HIDE DEF upTo, f
    <2>3. Cardinality(upTo(i)) <= Cardinality(upTo(j)) /\ Cardinality(upTo(i)) # Cardinality(upTo(j))
      BY <2>1, <2>2, FS_Subset
    <2>. QED  BY <2>2, <2>3
  <1>4. ASSUME NEW k \in 1..n PROVE \E i \in S : f[i] = k
    <2>. DEFINE R == {f[i] : i \in S}
    <2>1. R \subseteq 1..n
      BY <1>2
    <2>2. f \in Bijection(S, R)
      <3>1. f \in [S -> R] /\ \A r \in R : \E i \in S : f[i] = r
        OBVIOUS
      <3>2. \A i, j \in S : f[i] = f[j] => i = j
        <4>. TAKE i, j \in S
        <4>1. f[i] \in Nat /\ f[j] \in Nat /\ i \in Nat /\ j \in Nat
          BY <1>2
        <4>2. ~(i < j) => i = j \/ j < i
          BY <4>1
        <4>. HIDE DEF f
        <4>. QED  BY <1>3, <4>1, <4>2
      <3>. HIDE DEF f, R
      <3>. QED  BY <3>1, <3>2 DEF Bijection, Injection, Surjection, IsInjective
    <2>3. IsFiniteSet(1..n) /\ Cardinality(1..n) = n
      <3>1. IsFiniteSet(1..n) /\ Cardinality(1..n) = IF 1 > n THEN 0 ELSE n - 1 + 1
        BY <1>1, FS_Interval
      <3>. HIDE DEF n
      <3>. QED  BY <1>1, <3>1
    <2>. HIDE DEF f, R
    <2>4. Cardinality(R) = n
      BY <2>2, FS_Bijection DEF ExistsBijection
    <2>. HIDE DEF n
    <2>5. R = 1..n
      BY <2>1, <2>3, <2>4, FS_Subset
    <2>. QED  BY <2>5 DEF R
  <1>5. \A k \in 1..n : e[k] \in S /\ f[e[k]] = k
    <2>. HIDE DEF f
    <2>. QED  BY <1>4
  <1>6. \A i, j \in S : f[i] = f[j] => i = j
    <2>. TAKE i, j \in S
    <2>1. f[i] \in Nat /\ f[j] \in Nat /\ i \in Nat /\ j \in Nat
      BY <1>2
    <2>2. ~(i < j) => i = j \/ j < i
      BY <2>1
    <2>. HIDE DEF f
    <2>. QED  BY <1>3, <2>1, <2>2
  <1>7. e \in [1..n -> S]
    BY <1>5
  <1>. HIDE DEF e, f, n
  <1>8. \A p \in S : \E k \in 1..n : e[k] = p
    BY <1>2, <1>5, <1>6
  <1>9. \A j, k \in 1..n : j < k => e[j] < e[k]
    <2>. SUFFICES ASSUME NEW j \in 1..n, NEW k \in 1..n, j < k PROVE e[j] < e[k]
      OBVIOUS
    <2>1. e[j] \in S /\ e[k] \in S /\ f[e[j]] = j /\ f[e[k]] = k
      BY <1>5
    <2>2. e[j] \in Nat /\ e[k] \in Nat
      BY <2>1
    <2>3. ~(e[k] < e[j]) /\ e[k] # e[j]
      <3>1. j \in Nat /\ k \in Nat
        BY <1>1
      <3>2. e[k] < e[j] => k < j
        BY <1>3, <2>1
      <3>. QED  BY <2>1, <3>1, <3>2
    <2>. QED  BY <2>2, <2>3
  <1>. QED  BY <1>1, <1>7, <1>8, <1>9 DEF Lists, n

\* At gives the elements at the places of a sequence.
LEMMA AtGives ==
    ASSUME NEW D, NEW s \in Seq(D), NEW S, S \subseteq DOMAIN s
    PROVE  /\ S \subseteq Nat /\ At(s, S) \in Seq(D)
           /\ \E e : Gives(s, S, At(s, S), e)
  <1>1. DOMAIN s = 1..Len(s) /\ Len(s) \in Nat
    OBVIOUS
  <1>2. S \subseteq Nat /\ IsFiniteSet(S)
    <2>1. IsFiniteSet(1..Len(s))
      BY <1>1, FS_Interval
    <2>. QED  BY <1>1, <2>1, FS_Subset
  <1>3. PICK e : Lists(e, Cardinality(S), S)
    BY <1>2, ListLemma
  <1>. DEFINE n == Cardinality(S)
              r == [k \in 1..n |-> s[e[k]]]
  <1>5. n \in Nat /\ \A k \in 1..n : e[k] \in DOMAIN s
    BY <1>3 DEF Lists
  <1>6. r \in Seq(D) /\ Len(r) = n /\ \A k \in 1..n : r[k] = s[e[k]]
    <2>. HIDE DEF n
    <2>1. \A k \in 1..n : s[e[k]] \in D
      BY <1>1, <1>5
    <2>. QED  BY <1>5, <2>1
  <1>7. Gives(s, S, r, e)
    <2>1. Lists(e, Len(r), S)
      <3>. HIDE DEF r
      <3>. QED  BY <1>3, <1>6
    <2>. HIDE DEF r, n
    <2>. QED  BY <1>6, <2>1 DEF Gives
  <1>. HIDE DEF r, n
  <1>8. r = At(s, S)
    BY <1>2, <1>6, <1>7, GivesAt
  <1>. QED  BY <1>2, <1>6, <1>7, <1>8

\* The elements at the places.
LEMMA ElementsLemma ==
    ASSUME NEW D, NEW s \in Seq(D), NEW S, S \subseteq DOMAIN s
    PROVE  /\ At(s, S) \in Seq(D)
           /\ \A k \in DOMAIN At(s, S) : \E p \in S : At(s, S)[k] = s[p]
           /\ \A p \in S : \E k \in DOMAIN At(s, S) : At(s, S)[k] = s[p]
  <1>. DEFINE r == At(s, S)
  <1>1. r \in Seq(D) /\ \E e : Gives(s, S, r, e)
    BY AtGives
  <1>. HIDE DEF r
  <1>2. PICK e : Gives(s, S, r, e)
    BY <1>1
  <1>3. DOMAIN r = 1..Len(r)
    BY <1>1
  <1>4. \A k \in DOMAIN r : e[k] \in S /\ r[k] = s[e[k]]
    BY <1>2, <1>3 DEF Gives, Lists
  <1>5. \A p \in S : \E k \in DOMAIN r : e[k] = p
    BY <1>2, <1>3 DEF Gives, Lists
  <1>6. \A p \in S : \E k \in DOMAIN r : r[k] = s[p]
    BY <1>4, <1>5
  <1>. QED  BY <1>1, <1>4, <1>6 DEF r

\* Only what is at the places matters.
LEMMA SameLemma ==
    ASSUME NEW D, NEW s \in Seq(D), NEW l, NEW S, S \subseteq DOMAIN s,
           \A p \in S : l[p] = s[p]
    PROVE  At(l, S) = At(s, S)
  <1>. DEFINE r == At(s, S)
  <1>1. S \subseteq Nat /\ r \in Seq(D) /\ \E e : Gives(s, S, r, e)
    BY AtGives
  <1>. HIDE DEF r
  <1>2. PICK e : Gives(s, S, r, e)
    BY <1>1
  <1>3. Gives(l, S, r, e)
    BY <1>2 DEF Gives, Lists
  <1>. QED  BY <1>1, <1>3, GivesAt DEF r

\* A sequence is put behind another.
LEMMA BehindLemma ==
    ASSUME NEW D, NEW s \in Seq(D), NEW l \in Seq(D), NEW S, S \subseteq DOMAIN s,
           NEW U, U = S \cup ((Len(s) + 1)..(Len(s) + Len(l)))
    PROVE  At(s \o l, U) = At(s, S) \o l
  <1>c. \A p : p \in U <=> p \in S \/ (p \in Nat /\ p > Len(s) /\ p <= Len(s) + Len(l))
    <2>1. Len(s) \in Nat /\ Len(l) \in Nat
      OBVIOUS
    <2>2. \A p : p \in (Len(s) + 1)..(Len(s) + Len(l))
                   <=> p \in Nat /\ p > Len(s) /\ p <= Len(s) + Len(l)
      BY <2>1
    <2>. QED  BY <2>2
  <1>. DEFINE r == At(s, S)
              n == Len(r)
              m == Len(l)
  <1>0. S \subseteq Nat /\ r \in Seq(D) /\ \E e : Gives(s, S, r, e)
    BY AtGives
  <1>. HIDE DEF r
  <1>2. PICK e : Gives(s, S, r, e)
    BY <1>0
  <1>1. Lists(e, n, S)
    BY <1>2 DEF Gives
  <1>. DEFINE f == [k \in 1..(n + m) |-> IF k <= n THEN e[k] ELSE Len(s) + (k - n)]
  <1>3. /\ n \in Nat /\ m \in Nat /\ Len(s) \in Nat /\ e \in [1..n -> S]
        /\ \A k \in 1..n : e[k] \in S /\ e[k] \in 1..Len(s) /\ r[k] = s[e[k]]
        /\ s \o l \in Seq(D) /\ Len(s \o l) = Len(s) + m
        /\ \A i \in 1..(Len(s) + m) : (s \o l)[i] = IF i <= Len(s) THEN s[i] ELSE l[i - Len(s)]
    <2>1. n \in Nat /\ m \in Nat /\ Len(s) \in Nat /\ DOMAIN s = 1..Len(s)
      BY <1>0
    <2>2. e \in [1..n -> S] /\ \A k \in 1..n : r[k] = s[e[k]]
      BY <1>2 DEF Gives, Lists
    <2>3. \A k \in 1..n : e[k] \in S /\ e[k] \in 1..Len(s)
      BY <2>1, <2>2
    <2>. QED  BY <2>1, <2>2, <2>3, ConcatProperties
  <1>4. /\ r \o l \in Seq(D) /\ Len(r \o l) = n + m
        /\ \A k \in 1..(n + m) : (r \o l)[k] = IF k <= n THEN r[k] ELSE l[k - n]
    BY <1>0
  <1>. HIDE DEF m, n
  <1>5. Lists(f, n + m, U)
    <2>1. f \in [1..(n + m) -> U]
      <3>1. ASSUME NEW k \in 1..(n + m) PROVE f[k] \in U
        <4>1. CASE k <= n
          BY <1>3, <4>1 DEF m
        <4>2. CASE k > n
          <5>1. Len(s) + (k - n) \in Nat /\ Len(s) + (k - n) > Len(s) /\ Len(s) + (k - n) <= Len(s) + m
            BY <1>3, <4>2
          <5>2. Len(s) + (k - n) \in U
            BY <1>c, <5>1 DEF m
          <5>. QED  BY <1>3, <4>2, <5>2
        <4>. QED  BY <1>3, <4>1, <4>2
      <3>. QED  BY <3>1
    <2>2. ASSUME NEW p \in U PROVE \E k \in 1..(n + m) : f[k] = p
      <3>1. CASE p \in S
        <4>1. PICK k \in 1..n : e[k] = p
          BY <1>1, <3>1 DEF Lists
        <4>2. k \in 1..(n + m) /\ k <= n
          BY <1>3
        <4>. QED  BY <4>1, <4>2
      <3>2. CASE p \in Nat /\ p > Len(s) /\ p <= Len(s) + m
        <4>1. (p - Len(s)) + n \in 1..(n + m) /\ ~((p - Len(s)) + n <= n)
              /\ Len(s) + (((p - Len(s)) + n) - n) = p
          BY <1>3, <3>2
        <4>. QED  BY <4>1
      <3>. QED  BY <1>c, <3>1, <3>2 DEF m
    <2>3. ASSUME NEW j \in 1..(n + m), NEW k \in 1..(n + m), j < k PROVE f[j] < f[k]
      <3>1. CASE k <= n
        <4>1. j \in 1..n /\ k \in 1..n
          BY <1>3, <2>3, <3>1
        <4>2. e[j] < e[k] /\ f[j] = e[j] /\ f[k] = e[k]
          BY <1>1, <2>3, <4>1 DEF Lists
        <4>. QED  BY <4>2
      <3>2. CASE j <= n /\ k > n
        <4>1. j \in 1..n /\ f[j] = e[j] /\ f[k] = Len(s) + (k - n)
          BY <1>3, <3>2
        <4>2. e[j] \in 1..Len(s)
          BY <1>3, <4>1
        <4>. QED  BY <1>3, <3>2, <4>1, <4>2
      <3>3. CASE j > n
        BY <1>3, <2>3, <3>3
      <3>. QED  BY <1>3, <2>3, <3>1, <3>2, <3>3
    <2>. HIDE DEF f
    <2>. QED  BY <1>3, <2>1, <2>2, <2>3 DEF Lists
  <1>6. ASSUME NEW k \in 1..(n + m) PROVE (r \o l)[k] = (s \o l)[f[k]]
    <2>1. CASE k <= n
      <3>1. k \in 1..n /\ f[k] = e[k]
        BY <1>3, <2>1
      <3>2. e[k] \in 1..(Len(s) + m) /\ e[k] <= Len(s) /\ r[k] = s[e[k]]
        BY <1>3, <3>1
      <3>3. (s \o l)[e[k]] = s[e[k]]
        BY <1>3, <3>2
      <3>4. (r \o l)[k] = r[k]
        BY <1>4, <2>1
      <3>. QED  BY <3>1, <3>2, <3>3, <3>4
    <2>2. CASE k > n
      <3>1. /\ f[k] = Len(s) + (k - n) /\ f[k] \in 1..(Len(s) + m) /\ ~(f[k] <= Len(s))
            /\ f[k] - Len(s) = k - n
        BY <1>3, <2>2
      <3>2. (r \o l)[k] = l[k - n]
        <4>1. ~(k <= n)
          BY <1>3, <2>2
        <4>. QED  BY <1>4, <4>1
      <3>. HIDE DEF f
      <3>3. (s \o l)[f[k]] = l[f[k] - Len(s)]
        BY <1>3, <3>1
      <3>. QED  BY <3>1, <3>2, <3>3
    <2>3. k <= n \/ k > n
      BY <1>3
    <2>. QED  BY <2>1, <2>2, <2>3
  <1>7. U \subseteq Nat
    BY <1>0, <1>c
  <1>. HIDE DEF f
  <1>8. Gives(s \o l, U, r \o l, f)
    BY <1>4, <1>5, <1>6 DEF Gives
  <1>9. r \o l = At(s \o l, U)
    BY <1>4, <1>7, <1>8, GivesAt
  <1>. QED  BY <1>9 DEF r

\* The head of a sequence is taken.
LEMMA AheadLemma ==
    ASSUME NEW D, NEW s \in Seq(D), s # <<>>, NEW S, S \subseteq DOMAIN s, NEW U,
           \A p : p \in U <=> p \in Nat \ {0} /\ p + 1 \in S
    PROVE  /\ 1 \notin S => At(Tail(s), U) = At(s, S)
           /\ 1 \in S => /\ At(Tail(s), U) = Tail(At(s, S))
                         /\ At(s, S) # <<>> /\ Head(At(s, S)) = Head(s)
  <1>. DEFINE r == At(s, S)
              n == Len(r)
  <1>a. S \subseteq Nat /\ r \in Seq(D) /\ \E e : Gives(s, S, r, e)
    BY AtGives
  <1>. HIDE DEF r
  <1>b. PICK e : Gives(s, S, r, e)
    BY <1>a
  <1>1. Lists(e, n, S)
    BY <1>b DEF Gives
  <1>2. /\ S \subseteq Nat \ {0} /\ U \subseteq Nat
        /\ n \in Nat /\ e \in [1..n -> S]
        /\ Tail(s) \in Seq(D) /\ Head(s) = s[1]
        /\ \A p \in U : Tail(s)[p] = s[p + 1]
    <2>1. n \in Nat /\ e \in [1..n -> S] /\ DOMAIN s = 1..Len(s) /\ Len(s) \in Nat
      BY <1>a, <1>1 DEF Lists
    <2>2. /\ Tail(s) \in Seq(D) /\ Head(s) = s[1] /\ Len(Tail(s)) = Len(s) - 1
          /\ \A i \in 1..Len(Tail(s)) : Tail(s)[i] = s[i + 1]
      BY HeadTailProperties
    <2>3. ASSUME NEW p \in U PROVE p \in Nat /\ p \in 1..Len(Tail(s))
      <3>1. p \in Nat \ {0} /\ p + 1 \in S
        OBVIOUS
      <3>2. p + 1 \in 1..Len(s)
        BY <2>1, <3>1
      <3>. QED  BY <2>1, <2>2, <3>1, <3>2
    <2>4. S \subseteq Nat \ {0}
      BY <2>1
    <2>. QED  BY <2>1, <2>2, <2>3, <2>4
  <1>3. \A k \in 1..n : e[k] \in S /\ e[k] \in Nat \ {0} /\ r[k] = s[e[k]]
    <2>1. \A k \in 1..n : r[k] = s[e[k]]
      BY <1>b DEF Gives
    <2>. QED  BY <1>2, <2>1
  <1>. HIDE DEF n
  <1>4. CASE 1 \notin S
    <2>. DEFINE f == [k \in 1..n |-> e[k] - 1]
    <2>1. \A k \in 1..n : f[k] = e[k] - 1 /\ f[k] \in U /\ f[k] \in Nat
      <3>. TAKE k \in 1..n
      <3>1. e[k] - 1 \in Nat \ {0} /\ (e[k] - 1) + 1 = e[k]
        BY <1>3, <1>4
      <3>. QED  BY <1>3, <3>1
    <2>2. Lists(f, n, U)
      <3>2. f \in [1..n -> U]
        BY <2>1
      <3>. HIDE DEF f
      <3>3. ASSUME NEW p \in U PROVE \E k \in 1..n : f[k] = p
        <4>1. PICK k \in 1..n : e[k] = p + 1
          BY <1>1 DEF Lists
        <4>2. p \in Nat /\ f[k] = e[k] - 1
          BY <1>2, <2>1
        <4>3. f[k] = p
          BY <4>1, <4>2
        <4>. QED  BY <4>3
      <3>4. \A j, k \in 1..n : j < k => f[j] < f[k]
        <4>. SUFFICES ASSUME NEW j \in 1..n, NEW k \in 1..n, j < k PROVE f[j] < f[k]
          OBVIOUS
        <4>1. e[j] < e[k]
          BY <1>1 DEF Lists
        <4>. QED  BY <1>3, <2>1, <4>1
      <3>. QED  BY <1>2, <3>2, <3>3, <3>4 DEF Lists
    <2>3. \A k \in 1..n : r[k] = Tail(s)[f[k]]
      <3>. TAKE k \in 1..n
      <3>1. f[k] \in U /\ f[k] + 1 = e[k]
        BY <1>3, <2>1
      <3>. HIDE DEF f
      <3>. QED  BY <1>2, <1>3, <3>1
    <2>. HIDE DEF f
    <2>4. Gives(Tail(s), U, r, f)
      BY <2>2, <2>3 DEF Gives, n
    <2>5. r = At(Tail(s), U)
      BY <1>a, <1>2, <2>4, GivesAt
    <2>. QED  BY <1>4, <2>5 DEF r
  <1>5. CASE 1 \in S
    <2>1. n \in Nat \ {0} /\ e[1] = 1 /\ 1 \in 1..n
      <3>1. PICK k \in 1..n : e[k] = 1
        BY <1>1, <1>5 DEF Lists
      <3>2. 1 \in 1..n /\ ~(1 < k)
        <4>1. 1 \in 1..n
          BY <1>2
        <4>2. 1 < k => e[1] < e[k]
          BY <1>1, <4>1 DEF Lists
        <4>. QED  BY <1>3, <3>1, <4>1, <4>2
      <3>. QED  BY <1>2, <3>1, <3>2
    <2>. DEFINE f == [k \in 1..(n - 1) |-> e[k + 1] - 1]
                q == Tail(r)
    <2>2. \A k \in 1..(n - 1) : /\ k + 1 \in 1..n /\ f[k] = e[k + 1] - 1 /\ f[k] \in U /\ f[k] \in Nat
                                /\ f[k] + 1 = e[k + 1]
      <3>. TAKE k \in 1..(n - 1)
      <3>1. k + 1 \in 1..n /\ 1 < k + 1
        BY <2>1
      <3>2. e[1] < e[k + 1]
        BY <1>1, <2>1, <3>1 DEF Lists
      <3>3. e[k + 1] \in S /\ e[k + 1] \in Nat
        BY <1>3, <3>1
      <3>4. e[k + 1] - 1 \in Nat \ {0} /\ (e[k + 1] - 1) + 1 = e[k + 1]
        BY <2>1, <3>2, <3>3
      <3>. QED  BY <3>1, <3>3, <3>4
    <2>3. Lists(f, n - 1, U)
      <3>1. f \in [1..(n - 1) -> U]
        BY <2>2
      <3>. HIDE DEF f
      <3>2. ASSUME NEW p \in U PROVE \E k \in 1..(n - 1) : f[k] = p
        <4>1. PICK k \in 1..n : e[k] = p + 1
          BY <1>1 DEF Lists
        <4>2. k # 1 /\ p \in Nat \ {0}
          BY <2>1, <4>1
        <4>3. k - 1 \in 1..(n - 1) /\ (k - 1) + 1 = k
          BY <2>1, <4>2
        <4>4. f[k - 1] + 1 = p + 1 /\ f[k - 1] \in Nat
          BY <2>2, <4>1, <4>3
        <4>. QED  BY <4>2, <4>3, <4>4
      <3>3. \A j, k \in 1..(n - 1) : j < k => f[j] < f[k]
        <4>. SUFFICES ASSUME NEW j \in 1..(n - 1), NEW k \in 1..(n - 1), j < k PROVE f[j] < f[k]
          OBVIOUS
        <4>1. j + 1 < k + 1 /\ j + 1 \in 1..n /\ k + 1 \in 1..n
          BY <2>1
        <4>2. e[j + 1] < e[k + 1]
          BY <1>1, <4>1 DEF Lists
        <4>3. /\ f[j] + 1 = e[j + 1] /\ f[k] + 1 = e[k + 1] /\ f[j] \in Nat /\ f[k] \in Nat
          BY <2>2
        <4>. QED  BY <4>2, <4>3
      <3>. QED  BY <2>1, <3>1, <3>2, <3>3 DEF Lists
    <2>4. /\ r # <<>> /\ q \in Seq(D) /\ Len(q) = n - 1 /\ Head(r) = r[1]
          /\ \A k \in 1..(n - 1) : q[k] = r[k + 1]
      BY <1>a, <2>1, HeadTailProperties DEF n
    <2>5. \A k \in 1..(n - 1) : q[k] = Tail(s)[f[k]]
      <3>. TAKE k \in 1..(n - 1)
      <3>. HIDE DEF q, f
      <3>1. /\ k + 1 \in 1..n /\ f[k] \in U /\ f[k] + 1 = e[k + 1]
        BY <2>2
      <3>2. q[k] = r[k + 1]
        BY <2>4
      <3>. QED  BY <1>2, <1>3, <3>1, <3>2
    <2>. HIDE DEF f, q
    <2>6. Gives(Tail(s), U, q, f)
      BY <2>3, <2>4, <2>5 DEF Gives
    <2>7. q = At(Tail(s), U)
      BY <1>2, <2>4, <2>6, GivesAt
    <2>8. Head(r) = Head(s)
      BY <1>2, <1>3, <2>1, <2>4
    <2>. QED  BY <1>5, <2>4, <2>7, <2>8 DEF r, q
  <1>. QED  BY <1>4, <1>5

\* One of the places is given up.
LEMMA PickLemma ==
    ASSUME NEW D, NEW s \in Seq(D), NEW S, S \subseteq DOMAIN s, NEW p \in S
    PROVE  \E i \in DOMAIN At(s, S) : /\ At(s, S)[i] = s[p]
                                      /\ At(s, S \ {p}) = Contract!RemoveAt(At(s, S), i)
  <1>. DEFINE r == At(s, S)
              n == Len(r)
  <1>a. S \subseteq Nat /\ r \in Seq(D) /\ \E e : Gives(s, S, r, e)
    BY AtGives
  <1>. HIDE DEF r
  <1>b. PICK e : Gives(s, S, r, e)
    BY <1>a
  <1>1. Lists(e, n, S)
    BY <1>b DEF Gives
  <1>2. /\ n \in Nat /\ e \in [1..n -> S] /\ \A k \in 1..n : e[k] \in S /\ e[k] \in Nat /\ r[k] = s[e[k]]
    <2>1. n \in Nat /\ e \in [1..n -> S] /\ \A k \in 1..n : r[k] = s[e[k]]
      BY <1>a, <1>b DEF Gives, Lists
    <2>. QED  BY <1>a, <2>1
  <1>3. PICK i \in 1..n : e[i] = p
    BY <1>1 DEF Lists
  <1>. DEFINE q == Contract!RemoveAt(r, i)
              f == [k \in 1..(n - 1) |-> IF k < i THEN e[k] ELSE e[k + 1]]
              U == S \ {p}
  <1>4. /\ q \in Seq(D) /\ Len(q) = n - 1
        /\ \A k \in 1..(n - 1) : q[k] = IF k < i THEN r[k] ELSE r[k + 1]
    <2>. DEFINE a == SubSeq(r, 1, i - 1)
                b == SubSeq(r, i + 1, n)
    <2>1. n \in Nat \ {0} /\ i \in Nat /\ i >= 1 /\ i <= n /\ \A k \in 1..n : r[k] \in D
      BY <1>a, <1>2
    <2>. HIDE DEF n
    <2>2. /\ a \in Seq(D) /\ Len(a) = i - 1 /\ \A k \in 1..(i - 1) : a[k] = r[k]
      <3>1. \A k \in 1..(i - 1) : r[k] \in D
        BY <2>1
      <3>2. /\ a \in Seq(D) /\ Len(a) = IF 1 <= i - 1 THEN (i - 1) - 1 + 1 ELSE 0
            /\ \A k \in 1..((i - 1) - 1 + 1) : a[k] = r[1 + k - 1]
        BY <2>1, <3>1, SubSeqProperties
      <3>. HIDE DEF a
      <3>. QED  BY <2>1, <3>2
    <2>3. /\ b \in Seq(D) /\ Len(b) = n - i /\ \A k \in 1..(n - i) : b[k] = r[i + k]
      <3>1. \A k \in (i + 1)..n : r[k] \in D
        BY <2>1
      <3>2. /\ b \in Seq(D) /\ Len(b) = IF i + 1 <= n THEN n - (i + 1) + 1 ELSE 0
            /\ \A k \in 1..(n - (i + 1) + 1) : b[k] = r[(i + 1) + k - 1]
        BY <2>1, <3>1, SubSeqProperties
      <3>. HIDE DEF b
      <3>. QED  BY <2>1, <3>2
    <2>4. q = a \o b
      BY DEF Contract!RemoveAt, n
    <2>. HIDE DEF a, b, q
    <2>5. /\ q \in Seq(D) /\ Len(q) = (i - 1) + (n - i)
          /\ \A k \in 1..((i - 1) + (n - i)) : q[k] = IF k <= i - 1 THEN a[k] ELSE b[k - (i - 1)]
      <3>1. /\ a \o b \in Seq(D) /\ Len(a \o b) = Len(a) + Len(b)
            /\ \A k \in 1..(Len(a) + Len(b)) :
                  (a \o b)[k] = IF k <= Len(a) THEN a[k] ELSE b[k - Len(a)]
        BY <2>2, <2>3, ConcatProperties
      <3>. QED  BY <2>2, <2>3, <2>4, <3>1
    <2>6. ASSUME NEW k \in 1..(n - 1) PROVE q[k] = IF k < i THEN r[k] ELSE r[k + 1]
      <3>1. CASE k < i
        <4>1. k \in 1..(i - 1) /\ k <= i - 1 /\ k \in 1..((i - 1) + (n - i))
          BY <2>1, <3>1
        <4>. QED  BY <2>2, <2>5, <3>1, <4>1
      <3>2. CASE ~(k < i)
        <4>1. /\ k - (i - 1) \in 1..(n - i) /\ ~(k <= i - 1) /\ k \in 1..((i - 1) + (n - i))
              /\ i + (k - (i - 1)) = k + 1
          BY <2>1, <3>2
        <4>2. q[k] = b[k - (i - 1)]
          BY <2>5, <4>1
        <4>3. b[k - (i - 1)] = r[i + (k - (i - 1))]
          BY <2>3, <4>1
        <4>. QED  BY <3>2, <4>1, <4>2, <4>3
      <3>. QED  BY <3>1, <3>2
    <2>7. (i - 1) + (n - i) = n - 1
      BY <2>1
    <2>. QED  BY <2>5, <2>6, <2>7
  <1>. HIDE DEF q, n
  <1>5. \A k \in 1..(n - 1) : /\ k \in 1..n /\ k + 1 \in 1..n /\ k < k + 1
                              /\ f[k] = IF k < i THEN e[k] ELSE e[k + 1]
    BY <1>2
  <1>6. \A j, k \in 1..n : e[j] = e[k] => j = k
    <2>. SUFFICES ASSUME NEW j \in 1..n, NEW k \in 1..n, e[j] = e[k] PROVE j = k
      OBVIOUS
    <2>1. (j < k => e[j] < e[k]) /\ (k < j => e[k] < e[j])
      BY <1>1 DEF Lists
    <2>. QED  BY <1>2, <2>1
  <1>7. Lists(f, n - 1, U)
    <2>1. \A k \in 1..(n - 1) : f[k] \in U
      <3>. TAKE k \in 1..(n - 1)
      <3>1. k \in 1..n /\ k + 1 \in 1..n /\ (k < i => k # i) /\ (~(k < i) => k + 1 # i)
        BY <1>2
      <3>2. (k < i => e[k] # p) /\ (~(k < i) => e[k + 1] # p)
        BY <1>3, <1>6, <3>1
      <3>. QED  BY <1>2, <1>5, <3>1, <3>2
    <2>2. f \in [1..(n - 1) -> U]
      BY <2>1
    <2>. HIDE DEF f
    <2>3. ASSUME NEW u \in U PROVE \E k \in 1..(n - 1) : f[k] = u
      <3>1. PICK j \in 1..n : e[j] = u
        BY <1>1 DEF Lists
      <3>2. j # i
        BY <1>3, <3>1
      <3>3. CASE j < i
        <4>1. j \in 1..(n - 1)
          BY <1>2, <3>3
        <4>. QED  BY <1>5, <3>1, <3>3, <4>1
      <3>4. CASE ~(j < i)
        <4>1. j - 1 \in 1..(n - 1) /\ ~(j - 1 < i) /\ (j - 1) + 1 = j
          BY <1>2, <3>2, <3>4
        <4>. QED  BY <1>5, <3>1, <4>1
      <3>. QED  BY <3>3, <3>4
    <2>4. \A j, k \in 1..(n - 1) : j < k => f[j] < f[k]
      <3>. SUFFICES ASSUME NEW j \in 1..(n - 1), NEW k \in 1..(n - 1), j < k PROVE f[j] < f[k]
        OBVIOUS
      <3>1. /\ j \in 1..n /\ k \in 1..n /\ j + 1 \in 1..n /\ k + 1 \in 1..n
            /\ j < k + 1 /\ j + 1 < k + 1 /\ (~(j < i) => ~(k < i))
        BY <1>2
      <3>2. e[j] < e[k] /\ e[j] < e[k + 1] /\ e[j + 1] < e[k + 1]
        BY <1>1, <3>1 DEF Lists
      <3>. QED  BY <1>5, <3>1, <3>2
    <2>5. n - 1 \in Nat
      BY <1>2
    <2>. QED  BY <2>2, <2>3, <2>4, <2>5 DEF Lists
  <1>8. \A k \in 1..(n - 1) : q[k] = s[f[k]]
    <2>. HIDE DEF f
    <2>. TAKE k \in 1..(n - 1)
    <2>1. k \in 1..n /\ k + 1 \in 1..n
      BY <1>2
    <2>. QED  BY <1>2, <1>4, <1>5, <2>1
  <1>. HIDE DEF f
  <1>9. Gives(s, U, q, f)
    BY <1>4, <1>7, <1>8 DEF Gives
  <1>10. q = At(s, U)
    BY <1>a, <1>4, <1>9, GivesAt
  <1>11. i \in DOMAIN r /\ r[i] = s[p]
    BY <1>a, <1>2, <1>3 DEF n
  <1>. QED  BY <1>10, <1>11 DEF r, q

-----------------------------------------------------------------------------
(* What the contract sees of the queue. *)

Names(q, objects) == [i \in DOMAIN q |-> objects[q[i]].data]
Valid(q, objects) == {i \in DOMAIN q : objects[q[i]].valid}

\* The line is made of the data of tasks in the queue.
LEMMA LineLemma ==
    ASSUME IInv
    PROVE  /\ Names(queue, tasks) \in Seq(Data) /\ Len(Names(queue, tasks)) = Len(queue)
           /\ Valid(queue, tasks) \subseteq DOMAIN Names(queue, tasks)
           /\ DOMAIN queue = 1..Len(queue) /\ Len(queue) \in Nat
           /\ \A i \in DOMAIN queue :
                /\ queue[i] \in Tasks /\ queue[i] \in Range(queue) /\ tasks[queue[i]] \in Task
                /\ Names(queue, tasks)[i] = tasks[queue[i]].data
           /\ Line = At(Names(queue, tasks), Valid(queue, tasks))
           /\ Line \in Seq(Data)
  <1>1. queue \in Seq(Tasks)
    BY DEF IInv, TypeOK
  <1>2. DOMAIN queue = 1..Len(queue) /\ Len(queue) \in Nat
    BY <1>1
  <1>3. \A i \in DOMAIN queue : queue[i] \in Tasks /\ queue[i] \in Range(queue)
    BY <1>1 DEF Range
  <1>4. \A t \in Range(queue) : tasks[t] \in Task
    BY DEF IInv, References, Referenced
  <1>5. \A i \in DOMAIN queue : tasks[queue[i]].data \in Data
    BY <1>3, <1>4 DEF Task
  <1>6. Names(queue, tasks) \in Seq(Data) /\ Len(Names(queue, tasks)) = Len(queue)
    BY <1>2, <1>5 DEF Names
  <1>7. Valid(queue, tasks) \subseteq DOMAIN Names(queue, tasks)
    BY DEF Valid, Names
  <1>8. Line = At(Names(queue, tasks), Valid(queue, tasks))
    BY DEF Line, Names, Valid
  <1>9. Line \in Seq(Data)
    BY <1>6, <1>7, <1>8, ElementsLemma
  <1>. QED  BY <1>2, <1>3, <1>4, <1>6, <1>7, <1>8, <1>9 DEF Names

\* A datum is in the line of the contract when the task that data_in_queue
\* names is still in the queue.
LEMMA InLineLemma ==
    ASSUME IInv, NEW d \in Data
    PROVE  /\ Contract!InLine(d) <=> owner[d] \in Range(queue)
           /\ owner[d] \in Range(queue) => /\ owner[d] # None /\ owner[d] \in Tasks
                                           /\ tasks[owner[d]].data = d /\ tasks[owner[d]].valid
  <1>. DEFINE s == Names(queue, tasks)
              S == Valid(queue, tasks)
  <1>1. ASSUME owner[d] \in Range(queue)
        PROVE  /\ owner[d] # None /\ owner[d] \in Tasks
               /\ tasks[owner[d]].data = d /\ tasks[owner[d]].valid
    <2>1. owner[d] # None /\ owner[d] \in Tasks
      BY <1>1, NoneAssumption DEF IInv, TypeOK, Range
    <2>. QED  BY <2>1 DEF IInv, References
  <1>2. /\ \A k \in DOMAIN Line : \E p \in S : Line[k] = s[p]
        /\ \A p \in S : \E k \in DOMAIN Line : Line[k] = s[p]
    <2>. HIDE DEF s, S
    <2>1. s \in Seq(Data) /\ S \subseteq DOMAIN s /\ Line = At(s, S)
      BY LineLemma DEF s, S
    <2>. QED  BY <2>1, ElementsLemma
  <1>3. \A p \in S : p \in DOMAIN queue /\ tasks[queue[p]].valid /\ s[p] = tasks[queue[p]].data
    BY LineLemma DEF Valid
  <1>4. ASSUME NEW k \in DOMAIN Line, Line[k] = d PROVE owner[d] \in Range(queue)
    <2>1. PICK p \in S : s[p] = d
      BY <1>2, <1>4
    <2>2. /\ p \in DOMAIN queue /\ tasks[queue[p]].valid /\ tasks[queue[p]].data = d
          /\ queue[p] \in Range(queue)
      BY <1>3, <2>1, LineLemma
    <2>. QED  BY <2>2 DEF IInv, OneClaim
  <1>5. ASSUME owner[d] \in Range(queue) PROVE \E k \in DOMAIN Line : Line[k] = d
    <2>1. PICK p \in DOMAIN queue : queue[p] = owner[d]
      BY <1>5 DEF Range
    <2>2. p \in S /\ s[p] = d
      BY <1>1, <1>5, <2>1, LineLemma DEF Valid
    <2>. HIDE DEF s, S
    <2>. QED  BY <1>2, <2>2
  <1>6. Contract!InLine(d) <=> \E k \in DOMAIN Line : Line[k] = d
    BY DEF Contract!InLine
  <1>. QED  BY <1>1, <1>4, <1>5, <1>6

\* What Store leaves of the objects that stay.
LEMMA KeptLemma ==
    ASSUME NEW q, NEW own \in [Data -> Tasks \cup {None}], NEW objects,
           Range(q) \subseteq Tasks, Store(q, own, objects)
    PROVE  /\ queue' = q /\ owner' = own
           /\ \A t \in Range(q) : tasks'[t] = objects[t]
  BY DEF Store, Referenced

\* The delays of the contract follow the entries of data_in_queue.
LEMMA DelayLemma ==
    ASSUME NEW e \in Data
    PROVE  /\ NextDelay[e] = IF owner[e] \in Range(queue) THEN tasks[owner[e]].delay ELSE None
           /\ NextDelay'[e] = IF owner'[e] \in Range(queue') THEN tasks'[owner'[e]].delay ELSE None
  BY DEF NextDelay

-----------------------------------------------------------------------------
(* Every action is an operation of the contract, or one it does not see. *)

\* Nothing is scheduled: the line is empty.
LEMMA InitContract == Init => Contract!Init
  <1>. SUFFICES ASSUME Init PROVE Contract!Init
    OBVIOUS
  <1>1. queue = <<>> /\ \A d \in Data : owner[d] = None
    BY DEF Init
  <1>2. Line = <<>>
    <2>1. Line \in Seq(Data) /\ Line = At(Names(queue, tasks), Valid(queue, tasks))
          /\ Names(queue, tasks) \in Seq(Data)
          /\ Valid(queue, tasks) \subseteq DOMAIN Names(queue, tasks)
      BY InitIInv, LineLemma
    <2>2. Valid(queue, tasks) = {}
      BY <1>1 DEF Valid
    <2>3. \A k \in DOMAIN Line : FALSE
      BY <2>1, <2>2, ElementsLemma
    <2>4. DOMAIN Line = 1..Len(Line) /\ Len(Line) \in Nat
      BY <2>1
    <2>5. Len(Line) = 0
      BY <2>3, <2>4
    <2>. QED  BY <2>1, <2>5, EmptySeq
  <1>3. NextDelay = [d \in Data |-> None]
    BY <1>1 DEF NextDelay, Range
  <1>. QED  BY <1>2, <1>3 DEF Init, Contract!Init

\* What leaves the queue alone leaves the line alone.
LEMMA SeenLemma ==
    ASSUME UNCHANGED <<owner, tasks, queue>>
    PROVE  Line' = Line /\ NextDelay' = NextDelay
  BY DEF Line, NextDelay

\* add_data.
LEMMA AddDataContract ==
    ASSUME IInv, NEW d \in Data, NEW n \in Delays, AddData(d, n)
    PROVE  Contract!Add(d, n)
  <1>1. n > 0 /\ heap[d] = None /\ owner[d] = None
    BY DEF AddData, HasData
  <1>2. ~Contract!InLine(d)
    BY <1>1, InLineLemma
  <1>3. Line' = Line /\ NextDelay' = NextDelay
    BY SeenLemma DEF AddData
  <1>. QED  BY <1>1, <1>2, <1>3 DEF AddData, Contract!Add, Contract!Wait

\* New tasks at the end of the queue are new data at the end of the line.
LEMMA GrowLemma ==
    ASSUME IInv, NEW l \in Seq(Tasks), queue' = queue \o l,
           \A u \in Range(queue) : tasks'[u] = tasks[u],
           NEW arrivals \in Seq(Data), Len(arrivals) = Len(l),
           \A i \in 1..Len(l) : tasks'[l[i]].valid /\ tasks'[l[i]].data = arrivals[i]
    PROVE  Line' = Line \o arrivals
  <1>. DEFINE s == Names(queue, tasks)
              S == Valid(queue, tasks)
              z == Names(queue', tasks')
              U == Valid(queue', tasks')
              n == Len(queue)
              m == Len(l)
  <1>a. s \in Seq(Data) /\ S \subseteq DOMAIN s /\ Line = At(s, S)
    BY LineLemma
  <1>1. /\ n \in Nat /\ m \in Nat /\ DOMAIN queue = 1..n /\ queue \in Seq(Tasks) /\ Len(s) = n
        /\ \A i \in 1..n : queue[i] \in Range(queue) /\ s[i] = tasks[queue[i]].data
    BY LineLemma DEF IInv, TypeOK
  <1>2. /\ DOMAIN queue' = 1..(n + m)
        /\ \A i \in 1..(n + m) : queue'[i] = IF i <= n THEN queue[i] ELSE l[i - n]
    <2>1. queue \o l \in Seq(Tasks) /\ Len(queue \o l) = n + m
      BY <1>1, ConcatProperties
    <2>2. \A i \in 1..(n + m) : (queue \o l)[i] = IF i <= n THEN queue[i] ELSE l[i - n]
      BY <1>1, ConcatProperties
    <2>3. DOMAIN (queue \o l) = 1..(n + m)
      BY <2>1
    <2>. QED  BY <2>2, <2>3
  <1>3. /\ s \o arrivals \in Seq(Data) /\ Len(s \o arrivals) = n + m
        /\ \A i \in 1..(n + m) : (s \o arrivals)[i] = IF i <= n THEN s[i] ELSE arrivals[i - n]
    <2>. HIDE DEF s
    <2>1. /\ s \o arrivals \in Seq(Data) /\ Len(s \o arrivals) = Len(s) + Len(arrivals)
          /\ \A i \in 1..(Len(s) + Len(arrivals)) :
                (s \o arrivals)[i] = IF i <= Len(s) THEN s[i] ELSE arrivals[i - Len(s)]
      BY <1>a, ConcatProperties
    <2>. QED  BY <1>1, <2>1
  <1>4. ASSUME NEW i \in 1..(n + m)
        PROVE  /\ tasks'[queue'[i]].data = (s \o arrivals)[i]
               /\ i <= n => (tasks'[queue'[i]].valid <=> tasks[queue[i]].valid)
               /\ ~(i <= n) => tasks'[queue'[i]].valid
    <2>. HIDE DEF s, n, m
    <2>1. CASE i <= n
      <3>1. i \in 1..n
        BY <1>1, <2>1
      <3>2. queue'[i] = queue[i] /\ tasks'[queue[i]] = tasks[queue[i]]
        BY <1>1, <1>2, <2>1, <3>1
      <3>3. (s \o arrivals)[i] = tasks[queue[i]].data
        BY <1>1, <1>3, <2>1, <3>1
      <3>. QED  BY <2>1, <3>2, <3>3
    <2>2. CASE ~(i <= n)
      <3>1. i - n \in 1..m
        BY <1>1, <2>2
      <3>2. queue'[i] = l[i - n] /\ (s \o arrivals)[i] = arrivals[i - n]
        BY <1>2, <1>3, <2>2
      <3>3. tasks'[l[i - n]].valid /\ tasks'[l[i - n]].data = arrivals[i - n]
        BY <3>1 DEF m
      <3>. QED  BY <2>2, <3>2, <3>3
    <2>. QED  BY <2>1, <2>2
  <1>5. z = s \o arrivals
    <2>1. z = [i \in 1..(n + m) |-> tasks'[queue'[i]].data]
      BY <1>2 DEF Names
    <2>. HIDE DEF s, n, m, z
    <2>2. z = [i \in 1..(n + m) |-> (s \o arrivals)[i]]
      BY <1>4, <2>1
    <2>. DEFINE w == s \o arrivals
    <2>3. w \in Seq(Data) /\ Len(w) = n + m
      BY <1>3
    <2>. HIDE DEF w
    <2>4. w = [i \in 1..(n + m) |-> w[i]]
      BY <2>3
    <2>. QED  BY <2>2, <2>4 DEF w
  <1>6. U = S \cup ((Len(s) + 1)..(Len(s) + Len(arrivals)))
    <2>1. \A p : p \in U <=> p \in 1..(n + m) /\ tasks'[queue'[p]].valid
      BY <1>2 DEF Valid
    <2>2. \A p : p \in S <=> p \in 1..n /\ tasks[queue[p]].valid
      BY <1>a, <1>1 DEF Valid
    <2>3. Len(s) = n /\ Len(arrivals) = m
      BY <1>1
    <2>. HIDE DEF U, S, s, n, m
    <2>4. ASSUME NEW p \in 1..(n + m) PROVE p \in U <=> p \in S \/ p > n
      <3>1. CASE p <= n
        <4>1. p \in 1..n /\ ~(p > n)
          BY <1>1, <3>1
        <4>. QED  BY <1>4, <2>1, <2>2, <3>1, <4>1
      <3>2. CASE ~(p <= n)
        <4>1. p > n
          BY <1>1, <3>2
        <4>. QED  BY <1>4, <2>1, <3>2, <4>1
      <3>. QED  BY <3>1, <3>2
    <2>5. \A p : p \in 1..(n + m) <=> p \in 1..n \/ (p \in Nat /\ p > n /\ p <= n + m)
      BY <1>1
    <2>6. \A p \in 1..n : ~(p > n)
      BY <1>1
    <2>7. \A p : p \in (n + 1)..(n + m) <=> p \in Nat /\ p > n /\ p <= n + m
      BY <1>1
    <2>8. \A p : p \in U <=> p \in S \/ p \in (n + 1)..(n + m)
      BY <2>1, <2>2, <2>4, <2>5, <2>6, <2>7
    <2>. QED  BY <2>3, <2>8
  <1>7. Line' = At(z, U)
    BY DEF Line, Names, Valid
  <1>. HIDE DEF s, S, z, U
  <1>8. At(s \o arrivals, U) = At(s, S) \o arrivals
    <2>1. arrivals \in Seq(Data)
      OBVIOUS
    <2>. QED  BY ONLY <1>a, <1>6, <2>1, BehindLemma
  <1>. QED  BY <1>a, <1>5, <1>7, <1>8

\* no_wait on a datum that waits or is idle: it joins the end of the line.
LEMMA EnqueueNowContract ==
    ASSUME IInv, NEW d \in Data, NEW n \in Delays, EnqueueNow(d, n)
    PROVE  Contract!Hurry(d, n)
  <1>1. PICK t \in Fresh : /\ heap' = [heap EXCEPT ![d] = None]
                           /\ Store(Append(queue, t), [owner EXCEPT ![d] = t],
                                    [tasks EXCEPT ![t] = NewTask(d, n, TRUE)])
    BY DEF EnqueueNow
  <1>. DEFINE q == Append(queue, t)
              own == [owner EXCEPT ![d] = t]
              new == NewTask(d, n, TRUE)
              objects == [tasks EXCEPT ![t] = new]
  <1>2. /\ queue \in Seq(Tasks) /\ IsInjective(queue) /\ t \in Tasks /\ t \notin Range(queue)
        /\ owner \in [Data -> Tasks \cup {None}] /\ owner[d] = None
        /\ tasks \in [Tasks -> Task \cup {None}] /\ \A e \in Data : owner[e] # t
        /\ Range(queue) \subseteq Tasks
    <2>1. \A e \in Data : owner[e] # None => owner[e] \in Referenced(queue, owner)
      BY DEF IInv, TypeOK, Referenced, Range
    <2>2. t \in Tasks /\ t \notin Referenced(queue, owner) /\ t # None
      BY NoneAssumption DEF Fresh
    <2>3. queue \in Seq(Tasks)
      BY DEF IInv, TypeOK
    <2>4. Range(queue) \subseteq Tasks
      BY <2>3 DEF Range
    <2>. QED  BY <2>1, <2>2, <2>3, <2>4
              DEF IInv, TypeOK, References, EnqueueNow, Referenced, OneClaim
  <1>3. Range(q) = Range(queue) \cup {t}
    BY <1>2, AppendLemma
  <1>4. own \in [Data -> Tasks \cup {None}] /\ own[d] = t /\ \A e \in Data : e # d => own[e] = owner[e]
    BY <1>2
  <1>5. objects[t] = new /\ \A u \in Range(queue) : objects[u] = tasks[u]
    <2>. HIDE DEF new
    <2>. QED  BY <1>2
  <1>6. /\ queue' = q /\ owner' = own
        /\ \A u \in Range(q) : tasks'[u] = objects[u]
    <2>1. Range(q) \subseteq Tasks
      BY <1>2, <1>3
    <2>2. Store(q, own, objects)
      BY <1>1
    <2>. HIDE DEF q, own, objects
    <2>. QED  BY <1>4, <2>1, <2>2, KeptLemma
  <1>7. /\ tasks'[t].data = d /\ tasks'[t].valid /\ tasks'[t].delay = n
        /\ \A u \in Range(queue) : tasks'[u] = tasks[u]
    <2>1. new.data = d /\ new.valid /\ new.delay = n
      BY DEF NewTask
    <2>. HIDE DEF new, objects, q
    <2>2. tasks'[t] = new /\ \A u \in Range(queue) : tasks'[u] = tasks[u]
      BY <1>3, <1>5, <1>6
    <2>. QED  BY <2>1, <2>2
  <1>8. Line' = Append(Line, d)
    <2>1. <<t>> \in Seq(Tasks) /\ <<d>> \in Seq(Data) /\ Len(<<d>>) = Len(<<t>>)
          /\ queue' = queue \o <<t>>
      BY <1>2, <1>6, AppendIsConcat
    <2>2. \A i \in 1..Len(<<t>>) : <<t>>[i] = t /\ <<d>>[i] = d
      OBVIOUS
    <2>. DEFINE l == <<t>>
                arrivals == <<d>>
    <2>5. l \in Seq(Tasks) /\ arrivals \in Seq(Data) /\ Len(arrivals) = Len(l) /\ queue' = queue \o l
      BY <2>1
    <2>6. \A i \in 1..Len(l) : tasks'[l[i]].valid /\ tasks'[l[i]].data = arrivals[i]
      BY <1>7, <2>2
    <2>7. \A u \in Range(queue) : tasks'[u] = tasks[u]
      BY <1>7
    <2>. HIDE DEF l, arrivals
    <2>8. Line' = Line \o arrivals
      BY <2>5, <2>6, <2>7, GrowLemma
    <2>3. Line' = Line \o <<d>>
      BY <2>8 DEF arrivals
    <2>4. Line \in Seq(Data)
      BY LineLemma
    <2>. QED  BY <2>3, <2>4, AppendIsConcat
  <1>9. ~Contract!InLine(d)
    <2>1. owner[d] \notin Range(queue)
      BY <1>2, NoneAssumption
    <2>. QED  BY <2>1, InLineLemma
  <1>10. NextDelay' = [NextDelay EXCEPT ![d] = n]
    <2>1. ASSUME NEW e \in Data PROVE NextDelay'[e] = IF e = d THEN n ELSE NextDelay[e]
      <3>1. CASE e = d
        BY <1>3, <1>4, <1>6, <1>7, <3>1, DelayLemma
      <3>2. CASE e # d
        <4>1. owner'[e] = owner[e] /\ owner[e] # t
          BY <1>2, <1>4, <1>6, <3>2
        <4>2. owner'[e] \in Range(queue') <=> owner[e] \in Range(queue)
          BY <1>3, <1>6, <4>1
        <4>. QED  BY <1>7, <3>2, <4>1, <4>2, DelayLemma
      <3>. QED  BY <3>1, <3>2
    <2>2. NextDelay' = [e \in Data |-> NextDelay'[e]] /\ DOMAIN NextDelay = Data
      BY DEF NextDelay
    <2>. QED  BY <2>1, <2>2
  <1>. QED  BY <1>1, <1>8, <1>9, <1>10 DEF EnqueueNow, Contract!Hurry

\* no_wait on a datum in the queue: the contract sees the new delay, unless the
\* task was dropped and the entry of data_in_queue stands for nothing.
LEMMA UpdateDelayContract ==
    ASSUME IInv, NEW d \in Data, NEW n \in Delays, UpdateDelay(d, n)
    PROVE  Contract!Hurry(d, n) \/ UNCHANGED Contract!vars
  <1>. DEFINE t == owner[d]
  <1>1. /\ heap[d] = None /\ t # None /\ t \in Tasks
        /\ tasks' = [tasks EXCEPT ![t].delay = n]
        /\ heap' = heap /\ owner' = owner /\ queue' = queue /\ alive' = alive
    BY DEF UpdateDelay, IInv, TypeOK
  <1>2. /\ tasks[t] \in Task /\ tasks[t].data = d
        /\ \A e \in Data : owner[e] = t => e = d
    <2>1. t \in Referenced(queue, owner)
      BY <1>1 DEF Referenced, Range, IInv, TypeOK
    <2>2. \A e \in Data : owner[e] # None => tasks[owner[e]].data = e
      BY DEF IInv, References
    <2>. QED  BY <1>1, <2>1, <2>2, ReferencedTasks
  <1>3. /\ tasks'[t].delay = n /\ tasks'[t].data = tasks[t].data /\ tasks'[t].valid = tasks[t].valid
        /\ \A u \in Tasks : u # t => tasks'[u] = tasks[u]
    BY <1>1, <1>2 DEF Task, IInv, TypeOK
  <1>. HIDE DEF t
  <1>4. \A u \in Tasks : tasks'[u].data = tasks[u].data /\ tasks'[u].valid = tasks[u].valid
    BY <1>3
  <1>5. Line' = Line
    <2>1. \A i \in DOMAIN queue : queue[i] \in Tasks
      BY LineLemma
    <2>2. Names(queue', tasks') = Names(queue, tasks)
      BY <1>1, <1>4, <2>1 DEF Names
    <2>3. Valid(queue', tasks') = Valid(queue, tasks)
      BY <1>1, <1>4, <2>1 DEF Valid
    <2>4. Line' = At(Names(queue', tasks'), Valid(queue', tasks'))
      BY DEF Line, Names, Valid
    <2>. QED  BY <2>2, <2>3, <2>4, LineLemma
  <1>6. \A e \in Data : e # d => NextDelay'[e] = NextDelay[e]
    <2>. SUFFICES ASSUME NEW e \in Data, e # d PROVE NextDelay'[e] = NextDelay[e]
      OBVIOUS
    <2>1. owner[e] \in Range(queue) => owner[e] \in Tasks /\ owner[e] # t
      BY <1>2, InLineLemma
    <2>. QED  BY <1>1, <1>3, <2>1, DelayLemma
  <1>7. /\ t \in Range(queue) => NextDelay'[d] = n
        /\ t \notin Range(queue) => NextDelay'[d] = NextDelay[d]
    BY <1>1, <1>3, DelayLemma DEF t
  <1>8. /\ DOMAIN NextDelay = Data /\ NextDelay = [e \in Data |-> NextDelay[e]]
        /\ NextDelay' = [e \in Data |-> NextDelay'[e]]
    BY DEF NextDelay
  <1>9. CASE t \in Range(queue)
    <2>1. Contract!InLine(d)
      BY <1>9, InLineLemma DEF t
    <2>2. NextDelay' = [NextDelay EXCEPT ![d] = n]
      BY <1>6, <1>7, <1>8, <1>9
    <2>3. heap' = [heap EXCEPT ![d] = None]
      BY <1>1 DEF IInv, TypeOK
    <2>. QED  BY <1>1, <1>5, <2>1, <2>2, <2>3 DEF Contract!Hurry
  <1>10. CASE t \notin Range(queue)
    <2>1. NextDelay' = NextDelay
      <3>1. \A e \in Data : NextDelay'[e] = NextDelay[e]
        BY <1>6, <1>7, <1>10
      <3>. QED  BY <1>8, <3>1
    <2>. QED  BY <1>1, <1>5, <2>1 DEF Contract!vars
  <1>. QED  BY <1>9, <1>10

\* remove_data, in the heap and in the queue.
LEMMA RemoveFromHeapContract ==
    ASSUME IInv, NEW d \in Data, RemoveFromHeap(d)
    PROVE  Contract!Forget(d)
  <1>1. Line' = Line /\ NextDelay' = NextDelay
    BY SeenLemma DEF RemoveFromHeap
  <1>. QED  BY <1>1 DEF RemoveFromHeap, Contract!Forget

\* ... a task in the queue that is no longer named is not in line.
LEMMA RemoveFromQueueContract ==
    ASSUME IInv, NEW d \in Data, RemoveFromQueue(d)
    PROVE  Contract!Forget(d) \/ UNCHANGED Contract!vars
  <1>. DEFINE t == owner[d]
              own == [owner EXCEPT ![d] = None]
              objects == [tasks EXCEPT ![t].valid = FALSE]
              s == Names(queue, tasks)
              S == Valid(queue, tasks)
  <1>1. /\ t # None /\ t \in Tasks /\ heap' = heap /\ alive' = alive
        /\ Store(queue, own, objects)
    BY DEF RemoveFromQueue, IInv, TypeOK
  <1>2. tasks[t] \in Task /\ tasks[t].data = d /\ tasks[t].valid
    <2>1. t \in Referenced(queue, owner)
      BY <1>1 DEF Referenced, Range, IInv, TypeOK
    <2>. QED  BY <1>1, <2>1, ReferencedTasks DEF IInv, References
  <1>3. /\ own \in [Data -> Tasks \cup {None}] /\ own[d] = None
        /\ \A e \in Data : e # d => own[e] = owner[e]
    BY DEF IInv, TypeOK
  <1>4. /\ objects[t].data = tasks[t].data /\ objects[t].valid = FALSE
        /\ \A u \in Tasks : u # t => objects[u] = tasks[u]
    BY <1>1, <1>2 DEF Task, IInv, TypeOK
  <1>5. /\ Range(queue) \subseteq Tasks /\ queue' = queue /\ owner' = own
        /\ \A u \in Range(queue) : tasks'[u] = objects[u]
    <2>1. Range(queue) \subseteq Tasks
      BY DEF IInv, TypeOK, Range
    <2>. HIDE DEF own, objects
    <2>. QED  BY <1>1, <1>3, <2>1, KeptLemma
  <1>. HIDE DEF own, objects
  <1>6. \A i \in DOMAIN queue : /\ tasks'[queue[i]].data = tasks[queue[i]].data
                                /\ tasks'[queue[i]].valid <=> tasks[queue[i]].valid /\ queue[i] # t
    <2>. TAKE i \in DOMAIN queue
    <2>1. queue[i] \in Tasks /\ tasks'[queue[i]] = objects[queue[i]]
      BY <1>5, LineLemma
    <2>2. CASE queue[i] = t
      BY <1>4, <2>1, <2>2
    <2>3. CASE queue[i] # t
      BY <1>4, <2>1, <2>3
    <2>. QED  BY <2>2, <2>3
  <1>7. Line' = At(s, Valid(queue', tasks'))
    <2>1. Line' = At(Names(queue', tasks'), Valid(queue', tasks'))
      BY DEF Line, Names, Valid
    <2>2. Names(queue', tasks') = s
      BY <1>5, <1>6 DEF Names
    <2>. QED  BY <2>1, <2>2
  <1>8. NextDelay' = [NextDelay EXCEPT ![d] = None]
    <2>1. NextDelay'[d] = None
      <3>1. owner'[d] = None /\ None \notin Range(queue')
        BY <1>3, <1>5, NoneAssumption
      <3>. QED  BY <3>1, DelayLemma
    <2>2. ASSUME NEW e \in Data, e # d PROVE NextDelay'[e] = NextDelay[e]
      <3>1. owner'[e] = owner[e]
        BY <1>3, <1>5, <2>2
      <3>2. owner[e] \in Range(queue) => owner[e] # t /\ owner[e] \in Tasks
        BY <1>2, <2>2, InLineLemma
      <3>3. owner[e] \in Range(queue) => tasks'[owner[e]] = tasks[owner[e]]
        BY <1>4, <1>5, <3>2
      <3>. QED  BY <1>5, <3>1, <3>3, DelayLemma
    <2>3. NextDelay' = [e \in Data |-> NextDelay'[e]] /\ DOMAIN NextDelay = Data
      BY DEF NextDelay
    <2>. QED  BY <2>1, <2>2, <2>3
  <1>9. CASE t \in Range(queue)
    <2>1. PICK p \in DOMAIN queue : queue[p] = t
      BY <1>9 DEF Range
    <2>2. p \in S /\ s[p] = d
      BY <1>2, <2>1, LineLemma DEF Valid
    <2>3. Valid(queue', tasks') = S \ {p}
      <3>1. \A i \in DOMAIN queue : queue[i] = t => i = p
        BY <2>1 DEF IInv, References, IsInjective
      <3>. QED  BY <1>5, <1>6, <2>1, <3>1 DEF Valid
    <2>4. s \in Seq(Data) /\ S \subseteq DOMAIN s /\ Line = At(s, S)
      BY LineLemma
    <2>. HIDE DEF s, S
    <2>5. \E i \in DOMAIN At(s, S) : /\ At(s, S)[i] = s[p]
                                     /\ At(s, S \ {p}) = Contract!RemoveAt(At(s, S), i)
      BY ONLY <2>2, <2>4, PickLemma
    <2>6. \E i \in DOMAIN Line : Line[i] = d /\ Line' = Contract!RemoveAt(Line, i)
      BY <1>7, <2>2, <2>3, <2>4, <2>5
    <2>. QED  BY <1>1, <1>8, <2>6 DEF Contract!Forget
  <1>10. CASE t \notin Range(queue)
    <2>1. Valid(queue', tasks') = S
      <3>1. \A i \in DOMAIN queue : queue[i] # t
        BY <1>10, LineLemma
      <3>. QED  BY <1>5, <1>6, <3>1 DEF Valid
    <2>2. Line' = Line
      BY <1>7, <2>1, LineLemma
    <2>3. NextDelay' = NextDelay
      <3>1. NextDelay[d] = None
        BY <1>10, DelayLemma
      <3>2. NextDelay = [e \in Data |-> NextDelay[e]]
        BY DEF NextDelay
      <3>. QED  BY <1>8, <3>1, <3>2
    <2>. QED  BY <1>1, <2>2, <2>3 DEF Contract!vars
  <1>. QED  BY <1>9, <1>10

\* The head of the queue is taken out: the line loses its head when the task
\* was valid, and nothing when it was not.
LEMMA PopLemma ==
    ASSUME IInv, Turn, queue' = Tail(queue),
           \A u \in Range(Tail(queue)) : tasks'[u] = tasks[u]
    PROVE  /\ ~tasks[Head(queue)].valid => Line' = Line
           /\ tasks[Head(queue)].valid => /\ Line' = Tail(Line) /\ Line # <<>>
                                          /\ Head(Line) = tasks[Head(queue)].data
  <1>. DEFINE s == Names(queue, tasks)
              S == Valid(queue, tasks)
              U == Valid(queue', tasks')
              n == Len(queue)
  <1>1. /\ queue \in Seq(Tasks) /\ queue # <<>> /\ Head(queue) = queue[1] /\ n \in Nat \ {0}
        /\ Tail(queue) \in Seq(Tasks) /\ Len(Tail(queue)) = n - 1
        /\ \A i \in 1..(n - 1) : Tail(queue)[i] = queue[i + 1]
    <2>1. queue \in Seq(Tasks) /\ queue # <<>>
      BY DEF Turn, IInv, TypeOK
    <2>. QED  BY <2>1, HeadTailProperties, EmptySeq
  <1>2. DOMAIN queue = 1..n /\ DOMAIN queue' = 1..(n - 1)
    BY <1>1
  <1>3. \A i \in 1..(n - 1) : /\ i + 1 \in 1..n /\ queue'[i] = queue[i + 1]
                              /\ tasks'[queue'[i]] = tasks[queue[i + 1]]
    <2>. TAKE i \in 1..(n - 1)
    <2>1. queue'[i] = queue[i + 1] /\ i + 1 \in 1..n
      BY <1>1
    <2>2. queue'[i] \in Range(Tail(queue))
      BY <1>2 DEF Range
    <2>. QED  BY <2>1, <2>2
  <1>a. s \in Seq(Data) /\ S \subseteq DOMAIN s /\ Line = At(s, S)
    BY LineLemma
  <1>4. Len(s) = n /\ \A i \in 1..n : s[i] = tasks[queue[i]].data
    BY <1>2, LineLemma
  <1>. HIDE DEF n
  <1>5. s # <<>> /\ Head(s) = tasks[Head(queue)].data
    <2>. HIDE DEF s
    <2>1. s # <<>> /\ Head(s) = s[1]
      BY <1>a, <1>1, <1>4
    <2>2. 1 \in 1..n
      BY <1>1
    <2>. QED  BY <1>1, <1>4, <2>1, <2>2
  <1>6. Names(queue', tasks') = Tail(s)
    <2>1. Names(queue', tasks') = [i \in 1..(n - 1) |-> tasks'[queue'[i]].data]
      BY <1>2 DEF Names
    <2>. HIDE DEF s
    <2>. DEFINE w == Tail(s)
    <2>2. w \in Seq(Data) /\ Len(w) = n - 1 /\ \A i \in 1..(n - 1) : w[i] = s[i + 1]
      BY <1>a, <1>4, <1>5, HeadTailProperties
    <2>. HIDE DEF w
    <2>3. w = [i \in 1..(n - 1) |-> w[i]]
      BY <2>2
    <2>4. \A i \in 1..(n - 1) : tasks'[queue'[i]].data = w[i]
      BY <1>3, <1>4, <2>2
    <2>5. [i \in 1..(n - 1) |-> tasks'[queue'[i]].data] = [i \in 1..(n - 1) |-> w[i]]
      BY <2>4
    <2>. QED  BY <2>1, <2>3, <2>5 DEF w
  <1>7. \A p : p \in U <=> p \in Nat \ {0} /\ p + 1 \in S
    <2>1. \A p : p \in U <=> p \in 1..(n - 1) /\ tasks'[queue'[p]].valid
      BY <1>2 DEF Valid
    <2>2. \A p : p \in S <=> p \in 1..n /\ tasks[queue[p]].valid
      BY <1>2 DEF Valid
    <2>. HIDE DEF U, S
    <2>3. ASSUME NEW p \in Nat \ {0} PROVE p + 1 \in 1..n <=> p \in 1..(n - 1)
      BY <1>1
    <2>4. \A p \in 1..(n - 1) : p \in Nat \ {0}
      BY <1>1
    <2>5. ASSUME NEW p \in 1..(n - 1) PROVE p \in U <=> p + 1 \in S
      <3>1. p + 1 \in 1..n /\ tasks'[queue'[p]] = tasks[queue[p + 1]]
        BY <1>3
      <3>2. tasks'[queue'[p]].valid = tasks[queue[p + 1]].valid
        BY <3>1
      <3>. QED  BY <2>1, <2>2, <3>1, <3>2
    <2>. QED  BY <2>1, <2>2, <2>3, <2>4, <2>5
  <1>8. Line' = At(Tail(s), U)
    <2>1. Line' = At(Names(queue', tasks'), U)
      BY DEF Line, Names, Valid
    <2>. QED  BY <1>6, <2>1
  <1>9. 1 \in S <=> tasks[Head(queue)].valid
    BY <1>1, <1>2 DEF Valid
  <1>. HIDE DEF s, S, U
  <1>10. /\ 1 \notin S => At(Tail(s), U) = At(s, S)
         /\ 1 \in S => /\ At(Tail(s), U) = Tail(At(s, S))
                       /\ At(s, S) # <<>> /\ Head(At(s, S)) = Head(s)
    BY ONLY <1>a, <1>5, <1>7, AheadLemma
  <1>. QED  BY <1>a, <1>5, <1>8, <1>9, <1>10

\* A task that was removed leaves the queue unseen.
LEMMA SkipTaskContract ==
    ASSUME IInv, SkipTask
    PROVE  UNCHANGED Contract!vars
  <1>1. /\ Turn /\ ~tasks[Head(queue)].valid /\ Store(Tail(queue), owner, tasks)
        /\ heap' = heap /\ alive' = alive
    BY DEF SkipTask
  <1>2. /\ queue' = Tail(queue) /\ owner' = owner
        /\ Range(Tail(queue)) = Range(queue) \ {Head(queue)}
        /\ \A u \in Range(Tail(queue)) : tasks'[u] = tasks[u]
    <2>1. /\ Range(Tail(queue)) = Range(queue) \ {Head(queue)}
          /\ owner \in [Data -> Tasks \cup {None}] /\ Range(Tail(queue)) \subseteq Tasks
      <3>1. queue \in Seq(Tasks) /\ IsInjective(queue) /\ queue # <<>>
        BY <1>1 DEF IInv, TypeOK, References, Turn
      <3>2. Range(queue) \subseteq Tasks
        BY <3>1 DEF Range
      <3>. QED  BY <3>1, <3>2, TailLemma DEF IInv, TypeOK
    <2>. QED  BY <1>1, <2>1, KeptLemma
  <1>3. Line' = Line
    BY <1>1, <1>2, PopLemma
  <1>4. NextDelay' = NextDelay
    <2>1. ASSUME NEW e \in Data PROVE NextDelay'[e] = NextDelay[e]
      <3>1. owner[e] \in Range(queue) => owner[e] # Head(queue)
        BY <1>1, InLineLemma
      <3>. QED  BY <1>2, <3>1, DelayLemma
    <2>2. NextDelay' = [e \in Data |-> NextDelay'[e]] /\ NextDelay = [e \in Data |-> NextDelay[e]]
      BY DEF NextDelay
    <2>. QED  BY <2>1, <2>2
  <1>. QED  BY <1>1, <1>3, <1>4 DEF Contract!vars

\* What the other turns have in common: the head of the line leaves it, with
\* its delay, whether or not its entry of data_in_queue stays.
LEMMA ServedLemma ==
    ASSUME IInv, Turn, NEW t, t = Head(queue), tasks[t].valid,
           NEW own \in [Data -> Tasks \cup {None}], own[tasks[t].data] \in {None, t},
           \A e \in Data : e # tasks[t].data => own[e] = owner[e],
           Store(Tail(queue), own, tasks)
    PROVE  /\ Line # <<>> /\ Head(Line) = tasks[t].data /\ Line' = Tail(Line)
           /\ tasks[t].data \in Data /\ tasks[t].delay \in Nat
           /\ NextDelay[tasks[t].data] = tasks[t].delay
           /\ NextDelay' = [NextDelay EXCEPT ![tasks[t].data] = None]
  <1>. DEFINE d == tasks[t].data
  <1>1. /\ t \in Range(queue) /\ tasks[t] \in Task /\ d \in Data /\ owner[d] = t
        /\ tasks[t].delay \in Nat
    <2>1. t \in Range(queue) /\ tasks[t] \in Task
      BY HeadLemma
    <2>. QED  BY <2>1, DelaysAssumption DEF IInv, OneClaim, Task
  <1>2. /\ queue' = Tail(queue) /\ owner' = own
        /\ Range(Tail(queue)) = Range(queue) \ {t} /\ None \notin Range(Tail(queue))
        /\ \A u \in Range(Tail(queue)) : tasks'[u] = tasks[u]
    <2>1. Range(Tail(queue)) = Range(queue) \ {t} /\ Range(Tail(queue)) \subseteq Tasks
      <3>1. queue \in Seq(Tasks) /\ IsInjective(queue) /\ queue # <<>>
        BY DEF IInv, TypeOK, References, Turn
      <3>2. Range(queue) \subseteq Tasks
        BY <3>1 DEF Range
      <3>. QED  BY <3>1, <3>2, TailLemma
    <2>2. None \notin Range(Tail(queue))
      BY <2>1, NoneAssumption
    <2>3. /\ queue' = Tail(queue) /\ owner' = own
          /\ \A u \in Range(Tail(queue)) : tasks'[u] = tasks[u]
      <3>1. own \in [Data -> Tasks \cup {None}] /\ Store(Tail(queue), own, tasks)
        OBVIOUS
      <3>. QED  BY ONLY <2>1, <3>1, KeptLemma
    <2>. QED  BY <2>1, <2>2, <2>3
  <1>3. Line # <<>> /\ Head(Line) = d /\ Line' = Tail(Line)
    BY <1>2, PopLemma
  <1>4. NextDelay[d] = tasks[t].delay
    BY <1>1, DelayLemma
  <1>5. NextDelay' = [NextDelay EXCEPT ![d] = None]
    <2>1. NextDelay'[d] = None
      <3>1. owner'[d] \notin Range(queue')
        BY <1>2
      <3>. QED  BY <1>1, <3>1, DelayLemma
    <2>2. ASSUME NEW e \in Data, e # d PROVE NextDelay'[e] = NextDelay[e]
      <3>1. owner'[e] = owner[e]
        BY <1>2, <2>2
      <3>2. owner[e] \in Range(queue) => owner[e] # t
        BY <2>2, InLineLemma
      <3>. QED  BY <1>2, <3>1, <3>2, DelayLemma
    <2>3. NextDelay' = [e \in Data |-> NextDelay'[e]] /\ DOMAIN NextDelay = Data
      BY DEF NextDelay
    <2>. QED  BY <2>1, <2>2, <2>3
  <1>. QED  BY <1>1, <1>3, <1>4, <1>5

\* A turn of process_tasks serves the head of the line or is not seen.
LEMMA ProcessTaskContract ==
    ASSUME IInv, NEW v, NEW o, ProcessTask(v, o)
    PROVE  Contract!Serve \/ UNCHANGED Contract!vars
  <1>1. CASE SkipTask
    BY <1>1, SkipTaskContract
  <1>. DEFINE t == Head(queue)
              d == tasks[t].data
  <1>2. ASSUME Turn, tasks[t].valid,
               NEW own \in [Data -> Tasks \cup {None}], own[d] \in {None, t},
               \A e \in Data : e # d => own[e] = owner[e],
               Store(Tail(queue), own, tasks),
               \/ heap' = heap /\ alive' = alive
               \/ /\ tasks[t].delay # 0 /\ alive' = alive
                  /\ heap' = [heap EXCEPT ![d] = [left |-> tasks[t].delay, delay |-> tasks[t].delay]]
               \/ heap' = heap /\ alive' = FALSE
        PROVE  Contract!Serve
    <2>1. /\ Line # <<>> /\ Head(Line) = d /\ Line' = Tail(Line)
          /\ d \in Data /\ tasks[t].delay \in Nat
          /\ NextDelay[d] = tasks[t].delay
          /\ NextDelay' = [NextDelay EXCEPT ![d] = None]
      BY <1>2, ServedLemma
    <2>2. alive
      BY <1>2 DEF Turn
    <2>3. tasks[t].delay # 0 => tasks[t].delay > 0
      BY <2>1
    <2>. HIDE DEF d, t
    <2>. QED  BY <1>2, <2>1, <2>2, <2>3 DEF Contract!Serve, Contract!Wait
  <1>3. /\ Turn => t \in Range(queue) /\ tasks[t] \in Task
        /\ Turn /\ tasks[t].valid => d \in Data /\ owner[d] = t
    BY HeadLemma DEF Task, IInv, OneClaim
  <1>4. owner \in [Data -> Tasks \cup {None}]
    BY DEF IInv, TypeOK
  <1>5. CASE DropTask(v)
    <2>1. /\ Turn /\ tasks[t].valid /\ Store(Tail(queue), owner, tasks)
          /\ heap' = heap /\ alive' = alive
      BY <1>5 DEF DropTask
    <2>. HIDE DEF d, t
    <2>. QED  BY <1>2, <1>3, <1>4, <2>1
  <1>6. CASE FailTask(v, o)
    <2>1. /\ Turn /\ tasks[t].valid /\ Store(Tail(queue), owner, tasks)
          /\ heap' = heap /\ alive' = FALSE
      BY <1>6 DEF FailTask
    <2>. HIDE DEF d, t
    <2>. QED  BY <1>2, <1>3, <1>4, <2>1
  <1>7. CASE RunTask(v, o)
    <2>. DEFINE own == [owner EXCEPT ![d] = None]
    <2>1. /\ Turn /\ tasks[t].valid /\ Store(Tail(queue), own, tasks) /\ alive' = alive
          /\ \/ heap' = heap
             \/ /\ tasks[t].delay # 0
                /\ heap' = [heap EXCEPT ![d] = [left |-> tasks[t].delay, delay |-> tasks[t].delay]]
      BY <1>7 DEF RunTask
    <2>2. /\ own \in [Data -> Tasks \cup {None}] /\ own[d] \in {None, t}
          /\ \A e \in Data : e # d => own[e] = owner[e]
      <3>. HIDE DEF d, t
      <3>. QED  BY <1>3, <1>4, <2>1
    <2>. HIDE DEF d, t, own
    <2>. QED  BY <1>2, <2>1, <2>2
  <1>. QED  BY <1>1, <1>5, <1>6, <1>7 DEF ProcessTask

\* _step: the data whose deadline has come join the line, and no others.
LEMMA StepContract ==
    ASSUME IInv, Step
    PROVE  Contract!Tick
  <1>. DEFINE n == Cardinality(Due)
              due == {d \in Data : heap[d] # None /\ heap[d].left = 1}
  <1>1. PICK what \in Bijection(1..n, Due), line \in Injection(1..n, Fresh) :
        /\ heap' = [d \in Data |->
                      IF heap[d] = None \/ d \in Due THEN None
                      ELSE [heap[d] EXCEPT !.left = @ - 1]]
        /\ Store(queue \o line,
                 [d \in Data |-> IF d \in Due THEN line[CHOOSE i \in 1..n : what[i] = d]
                                ELSE owner[d]],
                 [t \in Tasks |-> IF t \in Range(line)
                                 THEN LET d == what[CHOOSE i \in 1..n : line[i] = t]
                                      IN  NewTask(d, heap[d].delay, FALSE)
                                 ELSE tasks[t]])
        /\ UNCHANGED alive
    BY DEF Step
  <1>. DEFINE place(d) == CHOOSE i \in 1..n : what[i] = d
              rank(t) == CHOOSE i \in 1..n : line[i] = t
              own == [d \in Data |-> IF d \in Due THEN line[place(d)] ELSE owner[d]]
              new(t) == NewTask(what[rank(t)], heap[what[rank(t)]].delay, FALSE)
              objects == [t \in Tasks |-> IF t \in Range(line) THEN new(t) ELSE tasks[t]]
  <1>2. Due = due
    <2>1. \A d \in Data : heap[d] # None => heap[d].left \in Int /\ heap[d].left > 0
      BY DEF IInv, TypeOK, HeapInFuture, HeapEntry
    <2>. QED  BY <2>1 DEF Due
  <1>3. n \in Nat /\ Due \subseteq Data
    <2>1. IsFiniteSet(Due)
      BY DataAssumption, FS_Subset DEF Due
    <2>. QED  BY <2>1, FS_CardinalityType DEF Due
  <1>. HIDE DEF n
  <1>4. /\ what \in [1..n -> Due] /\ \A i, j \in 1..n : what[i] = what[j] => i = j
        /\ \A d \in Due : \E i \in 1..n : what[i] = d
        /\ line \in [1..n -> Fresh] /\ \A i, j \in 1..n : line[i] = line[j] => i = j
    BY DEF Bijection, Injection, Surjection, IsInjective
  <1>5. /\ queue \in Seq(Tasks) /\ Range(queue) \subseteq Tasks /\ Fresh \subseteq Tasks
        /\ \A t \in Fresh : t \notin Range(queue)
        /\ \A d \in Data : owner[d] \notin Fresh
        /\ owner \in [Data -> Tasks \cup {None}]
    BY NoneAssumption DEF IInv, TypeOK, Fresh, Referenced, Range
  <1>6. /\ line \in Seq(Tasks) /\ Len(line) = n /\ what \in Seq(Data) /\ Len(what) = n
        /\ DOMAIN line = 1..n /\ \A i \in 1..n : line[i] \in Range(line) /\ line[i] \in Fresh
        /\ Range(line) \subseteq Fresh
    BY <1>3, <1>4, <1>5 DEF Range
  <1>7. \A d \in Due : place(d) \in 1..n /\ what[place(d)] = d
    BY <1>4
  <1>8. \A i \in 1..n : rank(line[i]) = i
    BY <1>4
  <1>. HIDE DEF place, rank
  <1>9. /\ own \in [Data -> Tasks \cup {None}]
        /\ \A d \in Due : own[d] = line[place(d)]
        /\ \A d \in Data : d \notin Due => own[d] = owner[d]
    BY <1>3, <1>5, <1>6, <1>7
  <1>10. Range(queue \o line) = Range(queue) \cup Range(line)
    BY <1>5, <1>6, RangeConcatenation
  <1>11. /\ queue' = queue \o line /\ owner' = own
         /\ \A t \in Range(queue \o line) : tasks'[t] = objects[t]
    <2>1. Store(queue \o line, own, objects)
      BY <1>1 DEF place, rank
    <2>2. Range(queue \o line) \subseteq Tasks
      BY <1>5, <1>6, <1>10
    <2>. HIDE DEF own, objects
    <2>. QED  BY <1>9, <2>1, <2>2, KeptLemma
  <1>12. \A u \in Range(queue) : tasks'[u] = tasks[u]
    BY <1>5, <1>6, <1>10, <1>11
  <1>13. \A i \in 1..n : /\ tasks'[line[i]].valid /\ tasks'[line[i]].data = what[i]
                         /\ tasks'[line[i]].delay = heap[what[i]].delay
    <2>. TAKE i \in 1..n
    <2>1. line[i] \in Tasks /\ line[i] \in Range(line)
      BY <1>5, <1>6
    <2>2. tasks'[line[i]] = new(line[i])
      <3>. HIDE DEF new
      <3>. QED  BY <1>10, <1>11, <2>1
    <2>. QED  BY <1>8, <2>2 DEF NewTask
  <1>. HIDE DEF own, objects
  <1>14. Line' = Line \o what
    BY <1>6, <1>11, <1>12, <1>13, GrowLemma
  <1>15. what \in Contract!SetToSeqs(due)
    <2>1. \A i, j \in 1..n : i # j => what[i] # what[j]
      BY <1>4
    <2>2. n = Cardinality(due)
      BY <1>2 DEF n
    <2>. HIDE DEF due
    <2>3. what \in [1..Cardinality(due) -> due]
      BY <1>2, <1>4, <2>2
    <2>4. \A i, j \in 1..Cardinality(due) : i # j => what[i] # what[j]
      BY <2>1, <2>2
    <2>5. Contract!Cardinality(due) = Cardinality(due)
      BY DEF Contract!Cardinality, Cardinality
    <2>. QED  BY <2>3, <2>4, <2>5 DEF Contract!SetToSeqs
  <1>16. NextDelay' = [d \in Data |-> IF d \in due THEN heap[d].delay ELSE NextDelay[d]]
    <2>1. ASSUME NEW d \in Data PROVE NextDelay'[d] = IF d \in Due THEN heap[d].delay ELSE NextDelay[d]
      <3>1. CASE d \in Due
        <4>1. /\ owner'[d] = line[place(d)] /\ place(d) \in 1..n /\ what[place(d)] = d
          BY <1>7, <1>9, <1>11, <3>1
        <4>2. owner'[d] \in Range(queue') /\ tasks'[owner'[d]].delay = heap[d].delay
          BY <1>6, <1>10, <1>11, <1>13, <4>1
        <4>. QED  BY <3>1, <4>2, DelayLemma
      <3>2. CASE d \notin Due
        <4>1. owner'[d] = owner[d] /\ owner[d] \notin Range(line)
          BY <1>5, <1>6, <1>9, <1>11, <3>2
        <4>. QED  BY <1>10, <1>11, <1>12, <3>2, <4>1, DelayLemma
      <3>. QED  BY <3>1, <3>2
    <2>2. NextDelay' = [d \in Data |-> NextDelay'[d]]
      BY DEF NextDelay
    <2>. QED  BY <1>2, <2>1, <2>2
  <1>17. heap' = [d \in Data |-> IF heap[d] = None \/ d \in due THEN None
                                ELSE [heap[d] EXCEPT !.left = @ - 1]]
    BY <1>1, <1>2
  <1>. HIDE DEF due
  <1>. QED  BY <1>1, <1>14, <1>15, <1>16, <1>17 DEF Contract!Tick, due

-----------------------------------------------------------------------------
\* All of them, and steps that change nothing.
LEMMA NextContract ==
    IInv /\ [Next]_vars => Contract!Next \/ UNCHANGED Contract!vars
  <1>. SUFFICES ASSUME IInv, [Next]_vars PROVE Contract!Next \/ UNCHANGED Contract!vars
    OBVIOUS
  <1>1. ASSUME NEW d \in Data, NEW n \in Delays, AddData(d, n) PROVE Contract!Next
    BY <1>1, AddDataContract DEF Contract!Next
  <1>2. ASSUME NEW d \in Data, NEW n \in Delays, NoWait(d, n)
        PROVE  Contract!Next \/ UNCHANGED Contract!vars
    BY <1>2, EnqueueNowContract, UpdateDelayContract DEF NoWait, Contract!Next
  <1>3. ASSUME NEW d \in Data, RemoveData(d) PROVE Contract!Next \/ UNCHANGED Contract!vars
    BY <1>3, RemoveFromHeapContract, RemoveFromQueueContract DEF RemoveData, Contract!Next
  <1>4. CASE Step
    BY <1>4, StepContract DEF Contract!Next
  <1>5. ASSUME NEW v, NEW o, ProcessTask(v, o) PROVE Contract!Next \/ UNCHANGED Contract!vars
    BY <1>5, ProcessTaskContract DEF Contract!Next
  <1>6. CASE UNCHANGED vars
    BY <1>6, SeenLemma DEF vars, Contract!vars
  <1>. QED  BY <1>1, <1>2, <1>3, <1>4, <1>5, <1>6 DEF Next

\* The scheduler of diplomacy/server/scheduler.py is a line: whatever add_data,
\* no_wait and remove_data are called, however the tasks they leave behind are
\* invalidated, dropped or skipped and whenever the clock ticks, a datum that was
\* removed is not served, one that is in line keeps its place and is served in its
\* turn with the delay asked for last, and exactly what is due joins the line.
THEOREM ContractKept == Spec => KeepsContract
  <1>1. Init => Contract!Init
    BY InitContract
  <1>2. IInv /\ [Next]_vars => [Contract!Next]_(Contract!vars)
    BY NextContract
  <1>. QED  BY <1>1, <1>2, SpecIInv, PTL DEF Spec, KeepsContract, Contract!Spec
=============================================================================
