-------------------------- MODULE GameServerProofs --------------------------
(***************************************************************************)
(* Proofs about GameServer, for any users, powers, deadline, rules of the  *)
(* game and kinds of requests.  Some properties need that a kind of        *)
(* request does not come; such a hypothesis is named, and the README tells *)
(* what happens without it.                                                *)
(***************************************************************************)
EXTENDS GameServer, FiniteSetTheorems, TLAPS

-----------------------------------------------------------------------------
(* The scheduler of the server: what SchedulerProofs shows of its methods. *)

SP == INSTANCE SchedulerProofs WITH
    Data <- {Id}, Delays <- {Deadline}, Verdicts <- BOOLEAN, Outcomes <- {"done", "again"}

LEMMA SchedulerAssumptions ==
    /\ SP!IsFiniteSet({Id})
    /\ {Deadline} \subseteq Nat
    /\ {"done", "again"} \subseteq SP!OutcomeKinds
    /\ None \notin Tasks
    /\ None \notin [left : Int, delay : Nat]
    /\ None \notin [data : {Id}, delay : Nat, valid : BOOLEAN, immediate : BOOLEAN]
  <1>1. SP!IsFiniteSet({Id})
    <2>1. IsFiniteSet({Id})
      BY FS_Singleton
    <2>. QED  BY <2>1 DEF SP!IsFiniteSet, IsFiniteSet
  <1>. QED  BY <1>1, NumbersAssumption, NoneAssumption DEF SP!OutcomeKinds

LEMMA SameInvariant == (Sched!IInv <=> SP!IInv) /\ (Sched!IInv' <=> SP!IInv')
  BY DEF Sched!IInv, SP!IInv, Sched!TypeOK, SP!TypeOK, Sched!HeapEntry, SP!HeapEntry,
         Sched!Task, SP!Task, Sched!OneClaim, SP!OneClaim, Sched!HeapInFuture,
         SP!HeapInFuture, Sched!References, SP!References, Sched!Referenced,
         SP!Referenced, Sched!Range, SP!Range, Sched!IsInjective, SP!IsInjective

-----------------------------------------------------------------------------
(* How the server's helpers change the schedule. *)

\* The timer of a phase never runs out before the phase has lasted as long as
\* its deadline: what waits in the heap or has left it because it was due is
\* not ahead of elapsed.
TimerIsHonest ==
    /\ heap[Id] # None => heap[Id].left + elapsed >= Deadline
    /\ owner[Id] # None => tasks[owner[Id]].immediate \/ elapsed = Deadline

LEMMA ScheduledTask ==
    ASSUME Sched!IInv
    PROVE  /\ heap \in [{Id} -> [left : Int, delay : {Deadline}] \cup {None}]
           /\ owner \in [{Id} -> Tasks \cup {None}]
           /\ heap[Id] = None \/ owner[Id] = None
           /\ owner[Id] # None =>
                /\ tasks[owner[Id]] \in Sched!Task
                /\ tasks[owner[Id]].valid /\ owner[Id] \in Sched!Referenced(queue, owner)
  BY DEF Sched!IInv, Sched!TypeOK, Sched!HeapEntry, Sched!OneClaim, Sched!References,
         Sched!Referenced, Sched!Range

\* Nothing happens in the scheduler.
LEMMA KeepScheduleStep ==
    ASSUME Sched!IInv, KeepSchedule
    PROVE  /\ Sched!IInv'
           /\ Scheduled' <=> Scheduled
           /\ TimerIsHonest /\ elapsed' = elapsed => TimerIsHonest'
  BY DEF KeepSchedule, sched, Scheduled, TimerIsHonest, Sched!HasData, Sched!IInv,
         Sched!TypeOK, Sched!OneClaim, Sched!HeapInFuture, Sched!References, Sched!Referenced

\* schedule_game: the game is scheduled if there is a deadline, and is given all
\* of its time unless it was scheduled already.
LEMMA ScheduleGameStep ==
    ASSUME Sched!IInv, ScheduleGame, elapsed' \in Nat, Scheduled => elapsed' = elapsed
    PROVE  /\ Sched!IInv'
           /\ Scheduled \/ Deadline > 0 => Scheduled'
           /\ TimerIsHonest => TimerIsHonest'
  <1>1. CASE ~Scheduled /\ Deadline > 0
    <2>1. Sched!AddData(Id, Deadline)
      BY <1>1 DEF ScheduleGame
    <2>2. SP!AddData(Id, Deadline)
      BY <2>1 DEF Sched!AddData, SP!AddData, Sched!HasData, SP!HasData
    <2>3. Sched!IInv'
      BY <2>2, SP!AddDataIInv, SameInvariant, SchedulerAssumptions
    <2>4. heap'[Id] = [left |-> Deadline, delay |-> Deadline] /\ owner'[Id] = None
      BY <1>1, <2>1, ScheduledTask DEF Sched!AddData, Scheduled, Sched!HasData
    <2>5. heap'[Id] # None
      BY <2>4, SchedulerAssumptions
    <2>. QED  BY <2>3, <2>4, <2>5, NumbersAssumption DEF Scheduled, Sched!HasData, TimerIsHonest
  <1>2. CASE ~(~Scheduled /\ Deadline > 0)
    <2>1. KeepSchedule
      BY <1>2 DEF ScheduleGame
    <2>2. ~Scheduled => TimerIsHonest'
      BY <2>1 DEF KeepSchedule, sched, Scheduled, Sched!HasData, TimerIsHonest
    <2>. QED  BY <1>2, <2>1, <2>2, KeepScheduleStep
  <1>. QED  BY <1>1, <1>2

\* unschedule_game, wherever the game is scheduled.
LEMMA UnscheduleGameStep ==
    ASSUME Sched!IInv, UnscheduleGame
    PROVE  Sched!IInv' /\ ~Scheduled' /\ TimerIsHonest'
  <1>1. CASE Sched!RemoveFromHeap(Id)
    <2>1. SP!RemoveFromHeap(Id)
      BY <1>1 DEF Sched!RemoveFromHeap, SP!RemoveFromHeap
    <2>2. Sched!IInv'
      BY <2>1, SP!RemoveFromHeapIInv, SameInvariant, SchedulerAssumptions
    <2>3. heap'[Id] = None /\ owner'[Id] = None
      BY <1>1, ScheduledTask DEF Sched!RemoveFromHeap
    <2>. QED  BY <2>2, <2>3 DEF Scheduled, Sched!HasData, TimerIsHonest
  <1>2. CASE Sched!RemoveFromQueue(Id)
    <2>1. SP!RemoveFromQueue(Id)
      BY <1>2 DEF Sched!RemoveFromQueue, SP!RemoveFromQueue, Sched!Store, SP!Store,
                  Sched!Referenced, SP!Referenced, Sched!Range, SP!Range
    <2>2. Sched!IInv'
      BY <2>1, SP!RemoveFromQueueIInv, SameInvariant, SchedulerAssumptions
    <2>3. heap'[Id] = None /\ owner'[Id] = None
      BY <1>2, ScheduledTask DEF Sched!RemoveFromQueue, Sched!Store
    <2>. QED  BY <2>2, <2>3 DEF Scheduled, Sched!HasData, TimerIsHonest
  <1>3. CASE ~Scheduled /\ KeepSchedule
    <2>1. Sched!IInv' /\ ~Scheduled'
      BY <1>3, KeepScheduleStep
    <2>. QED  BY <2>1 DEF Scheduled, Sched!HasData, TimerIsHonest
  <1>. QED  BY <1>1, <1>2, <1>3 DEF UnscheduleGame, Sched!RemoveData

\* force_game_processing: a game that was not called joins the queue with a
\* validator; one that was keeps its task.
LEMMA ForceGameProcessingStep ==
    ASSUME Sched!IInv, ForceGameProcessing
    PROVE  /\ Sched!IInv'
           /\ Scheduled'
           /\ TimerIsHonest /\ elapsed' = elapsed => TimerIsHonest'
  <1>1. CASE Sched!EnqueueNow(Id, Deadline)
    <2>1. SP!EnqueueNow(Id, Deadline)
      BY <1>1 DEF Sched!EnqueueNow, SP!EnqueueNow, Sched!Store, SP!Store, Sched!Fresh,
                  SP!Fresh, Sched!Referenced, SP!Referenced, Sched!Range, SP!Range,
                  Sched!NewTask, SP!NewTask
    <2>2. Sched!IInv'
      BY <2>1, SP!EnqueueNowIInv, SameInvariant, SchedulerAssumptions
    <2>3. PICK t \in Sched!Fresh :
             Sched!Store(Append(queue, t), [owner EXCEPT ![Id] = t],
                         [tasks EXCEPT ![t] = Sched!NewTask(Id, Deadline, TRUE)])
      BY <1>1 DEF Sched!EnqueueNow
    <2>4. t \in Tasks /\ t # None
      BY SchedulerAssumptions DEF Sched!Fresh
    <2>5. heap'[Id] = None /\ owner'[Id] = t
      BY <1>1, <2>3, ScheduledTask DEF Sched!EnqueueNow, Sched!Store
    <2>6. tasks'[t].immediate
      <3>1. t \in Sched!Referenced(Append(queue, t), [owner EXCEPT ![Id] = t])
        BY <2>4, ScheduledTask DEF Sched!Referenced, Sched!Range
      <3>2. tasks \in [Tasks -> Sched!Task \cup {None}]
        BY DEF Sched!IInv, Sched!TypeOK
      <3>. QED  BY <2>3, <2>4, <3>1, <3>2 DEF Sched!Store, Sched!NewTask
    <2>. QED  BY <2>2, <2>4, <2>5, <2>6 DEF Scheduled, Sched!HasData, TimerIsHonest
  <1>2. CASE Sched!UpdateDelay(Id, Deadline)
    <2>1. SP!UpdateDelay(Id, Deadline)
      BY <1>2 DEF Sched!UpdateDelay, SP!UpdateDelay
    <2>2. Sched!IInv'
      BY <2>1, SP!UpdateDelayIInv, SameInvariant, SchedulerAssumptions
    <2>3. /\ heap' = heap /\ owner' = owner /\ owner[Id] # None
          /\ tasks'[owner[Id]].immediate = tasks[owner[Id]].immediate
      BY <1>2, ScheduledTask DEF Sched!UpdateDelay, Sched!IInv, Sched!TypeOK, Sched!Task
    <2>. QED  BY <2>2, <2>3 DEF Scheduled, Sched!HasData, TimerIsHonest
  <1>. QED  BY <1>1, <1>2 DEF ForceGameProcessing, Sched!NoWait

\* A turn of process_tasks that takes a task out and does not run it.
LEMMA PassOverStep ==
    ASSUME Sched!IInv, Sched!SkipTask \/ \E v \in BOOLEAN : Sched!DropTask(v)
    PROVE  /\ Sched!IInv'
           /\ Scheduled' <=> Scheduled
           /\ TimerIsHonest /\ elapsed' = elapsed => TimerIsHonest'
  <1>1. /\ Sched!Store(Tail(queue), owner, tasks)
        /\ heap' = heap /\ owner' = owner
    BY DEF Sched!SkipTask, Sched!DropTask, Sched!Store
  <1>2. SP!SkipTask \/ \E v \in BOOLEAN : SP!DropTask(v)
    BY DEF Sched!SkipTask, SP!SkipTask, Sched!DropTask, SP!DropTask, Sched!Turn, SP!Turn,
           Sched!Store, SP!Store, Sched!Referenced, SP!Referenced, Sched!Range, SP!Range
  <1>3. Sched!IInv'
    <2>1. \E v \in BOOLEAN : SP!ProcessTask(v, "done")
      BY <1>2 DEF SP!ProcessTask
    <2>. QED  BY <2>1, SP!ProcessTaskIInv, SameInvariant, SchedulerAssumptions
  <1>4. owner[Id] # None => tasks'[owner[Id]] = tasks[owner[Id]]
    BY <1>1, ScheduledTask DEF Sched!Store, Sched!Referenced, Sched!Range, Sched!IInv, Sched!TypeOK
  <1>. QED  BY <1>1, <1>3, <1>4 DEF Scheduled, Sched!HasData, TimerIsHonest

\* A turn that runs the callback: it does so in due time, and afterwards the game
\* is scheduled for a whole deadline or not at all.
LEMMA RunTaskStep ==
    ASSUME Sched!IInv, NEW v \in BOOLEAN, NEW o, Sched!RunTask(v, o)
    PROVE  /\ Sched!IInv'
           /\ Scheduled
           /\ Scheduled' <=> o # "done" /\ Deadline > 0
           /\ TimerIsHonest => v \/ elapsed = Deadline
           /\ elapsed' \in Nat => TimerIsHonest'
  <1>. DEFINE t == Head(queue)
  <1>1. SP!RunTask(v, o)
    BY DEF Sched!RunTask, SP!RunTask, Sched!Turn, SP!Turn, Sched!Store, SP!Store,
           Sched!Referenced, SP!Referenced, Sched!Range, SP!Range
  <1>2. Sched!IInv'
    <2>1. SP!ProcessTask(v, o)
      BY <1>1 DEF SP!ProcessTask
    <2>. QED  BY <2>1, SP!ProcessTaskIInv, SameInvariant, SchedulerAssumptions
  <1>3. t \in Range(queue) /\ t \in Tasks /\ tasks[t] \in Sched!Task
    <2>1. /\ queue \in Seq(Tasks) /\ queue # <<>> /\ Sched!Range(queue) = Range(queue)
          /\ \A u \in Range(queue) : tasks[u] \in Sched!Task
      BY DEF Sched!RunTask, Sched!Turn, Sched!IInv, Sched!TypeOK, Sched!References,
             Sched!Referenced, Sched!Range, Range
    <2>2. Head(queue) = queue[1] /\ 1 \in DOMAIN queue
      BY <2>1
    <2>. QED  BY <2>1, <2>2 DEF Range
  <1>4. /\ tasks[t].data = Id /\ tasks[t].delay = Deadline
        /\ tasks[t].valid /\ (tasks[t].immediate => v)
    BY <1>3 DEF Sched!RunTask, Sched!Task
  <1>5. owner[Id] = t /\ t # None
    BY <1>3, <1>4, SchedulerAssumptions DEF Sched!IInv, Sched!OneClaim, Sched!Range, Range
  <1>6. heap[Id] = None
    BY <1>5, ScheduledTask
  <1>7. /\ owner' = [owner EXCEPT ![Id] = None]
        /\ heap' = IF o = "done" \/ Deadline = 0 THEN heap
                   ELSE [heap EXCEPT ![Id] = [left |-> Deadline, delay |-> Deadline]]
    BY <1>4 DEF Sched!RunTask, Sched!Store
  <1>8. owner'[Id] = None
    BY <1>7, ScheduledTask
  <1>9. CASE o = "done" \/ Deadline = 0
    <2>1. heap'[Id] = None
      BY <1>6, <1>7, <1>9
    <2>. QED  BY <1>2, <1>4, <1>5, <1>8, <1>9, <2>1, NumbersAssumption
              DEF Scheduled, Sched!HasData, TimerIsHonest
  <1>10. CASE ~(o = "done" \/ Deadline = 0)
    <2>1. heap'[Id] = [left |-> Deadline, delay |-> Deadline]
      BY <1>7, <1>10, ScheduledTask
    <2>2. heap'[Id] # None /\ heap'[Id].left = Deadline
      BY <2>1, SchedulerAssumptions
    <2>. QED  BY <1>2, <1>4, <1>5, <1>8, <1>10, <2>2, NumbersAssumption
              DEF Scheduled, Sched!HasData, TimerIsHonest
  <1>. QED  BY <1>9, <1>10

\* One time unit passes, for the timer and for the phase.
LEMMA ClockStep ==
    ASSUME Sched!IInv, Sched!Step, elapsed \in 0..Deadline,
           elapsed' = IF elapsed < Deadline THEN elapsed + 1 ELSE elapsed
    PROVE  /\ Sched!IInv'
           /\ Scheduled' <=> Scheduled
           /\ TimerIsHonest => TimerIsHonest'
  <1>. DEFINE n == Sched!Cardinality(Sched!Due)
  <1>1. Sched!IInv'
    <2>1. SP!Step
      BY Zenon
      DEF Sched!Step, SP!Step, Sched!Due, SP!Due, Sched!Store, SP!Store, Sched!Fresh, SP!Fresh,
          Sched!Referenced, SP!Referenced, Sched!Range, SP!Range, Sched!NewTask, SP!NewTask,
          Sched!Bijection, SP!Bijection, Sched!Injection, SP!Injection, Sched!Surjection,
          SP!Surjection, Sched!IsInjective, SP!IsInjective, Sched!Cardinality, SP!Cardinality
    <2>. QED  BY <2>1, SP!StepIInv, SameInvariant, SchedulerAssumptions
  <1>2. PICK what \in Sched!Bijection(1..n, Sched!Due), line \in Sched!Injection(1..n, Sched!Fresh) :
          /\ heap' = [d \in {Id} |->
                        IF heap[d] = None \/ d \in Sched!Due THEN None
                        ELSE [heap[d] EXCEPT !.left = @ - 1]]
          /\ Sched!Store(queue \o line,
                   [d \in {Id} |-> IF d \in Sched!Due THEN line[CHOOSE i \in 1..n : what[i] = d]
                                   ELSE owner[d]],
                   [t \in Tasks |-> IF t \in Sched!Range(line)
                                   THEN LET d == what[CHOOSE i \in 1..n : line[i] = t]
                                        IN  Sched!NewTask(d, heap[d].delay, FALSE)
                                   ELSE tasks[t]])
    BY DEF Sched!Step
  <1>3. Id \in Sched!Due <=> heap[Id] # None /\ heap[Id].left <= 1
    BY DEF Sched!Due
  <1>4. heap[Id] # None => heap[Id].left \in Int /\ heap[Id].left > 0
    BY ScheduledTask DEF Sched!IInv, Sched!HeapInFuture
  <1>5. CASE Id \in Sched!Due
    <2>1. PICK i \in 1..n : what[i] = Id
      BY <1>5, <1>2 DEF Sched!Bijection, Sched!Surjection
    <2>2. \A j \in 1..n : line[j] \in Tasks
      BY <1>2 DEF Sched!Injection, Sched!Fresh
    <2>3. owner'[Id] \in Tasks
      BY <1>2, <1>5, <2>1, <2>2 DEF Sched!Store
    <2>4. heap'[Id] = None /\ owner'[Id] # None
      BY <1>2, <1>5, <2>3, SchedulerAssumptions
    <2>5. TimerIsHonest => elapsed' = Deadline
      BY <1>3, <1>4, <1>5, NumbersAssumption DEF TimerIsHonest
    <2>. QED  BY <1>1, <1>3, <1>5, <2>4, <2>5 DEF Scheduled, Sched!HasData, TimerIsHonest
  <1>6. CASE Id \notin Sched!Due /\ heap[Id] # None
    <2>1. heap'[Id] = [heap[Id] EXCEPT !.left = @ - 1] /\ owner'[Id] = None
      BY <1>2, <1>6, ScheduledTask DEF Sched!Store
    <2>2. heap[Id] \in [left : Int, delay : {Deadline}]
      BY <1>6, ScheduledTask
    <2>3. heap'[Id] \in [left : Int, delay : Nat] /\ heap'[Id].left = heap[Id].left - 1
      BY <2>1, <2>2, NumbersAssumption
    <2>4. heap'[Id] # None
      BY <2>3, SchedulerAssumptions
    <2>. QED  BY <1>1, <1>3, <1>4, <1>6, <2>1, <2>3, <2>4, NumbersAssumption
              DEF Scheduled, Sched!HasData, TimerIsHonest
  <1>7. CASE heap[Id] = None
    <2>1. heap'[Id] = None /\ owner'[Id] = owner[Id]
      BY <1>2, <1>3, <1>7 DEF Sched!Store
    <2>2. ASSUME owner[Id] # None PROVE tasks'[owner[Id]] = tasks[owner[Id]]
      <3>1. owner[Id] \in Tasks /\ owner[Id] \in Sched!Range(owner) \ {None}
        BY <2>2, ScheduledTask DEF Sched!Range
      <3>2. owner[Id] \notin Sched!Range(line)
        BY <1>2, <3>1 DEF Sched!Injection, Sched!Fresh, Sched!Referenced, Sched!Range
      <3>3. owner'[Id] \in Sched!Range(owner') \ {None}
        BY <1>2, <2>1, <2>2 DEF Sched!Store, Sched!Range
      <3>. QED  BY <1>2, <2>1, <3>1, <3>2, <3>3 DEF Sched!Store, Sched!Referenced
    <2>3. TimerIsHonest /\ owner[Id] # None /\ elapsed = Deadline => elapsed' = Deadline
      BY NumbersAssumption
    <2>. QED  BY <1>1, <1>7, <2>1, <2>2, <2>3 DEF Scheduled, Sched!HasData, TimerIsHonest
  <1>. QED  BY <1>5, <1>6, <1>7

-----------------------------------------------------------------------------
(* What the operators on a game do to the fields the properties speak of. *)

\* Every yes was cast in the phase of the game, by who controls the power now, or
\* by the bot that played it before; the latter only where bots vote.
BotsDoNotVote == "botvote" \notin Requests
VotesSound(g) == \A p \in Powers : g.votes[p] # None =>
    /\ g.votes[p].at = g.phase
    /\ g.votes[p].by \in {g.ctrl[p], Dummy}
    /\ g.votes[p].by = Dummy => ~BotsDoNotVote

Sound(g) == g \in Game /\ VotesSound(g)
HasPlayers(g) == g.status = "active" => ~LacksControls(g)

LEMMA ReleaseLemma ==
    ASSUME NEW g \in Game, NEW S \in SUBSET Powers
    PROVE  LET h == Release(g, S) IN
           /\ h \in Game
           /\ h.status = g.status /\ h.phase = g.phase /\ h.over = g.over
           /\ h.ordered = g.ordered /\ h.out = g.out /\ g.waits \subseteq h.waits
           /\ \A p \in Powers :
                /\ h.ctrl[p] = IF p \in S THEN Dummy ELSE g.ctrl[p]
                /\ h.votes[p] = IF p \in S /\ g.ctrl[p] # Dummy THEN None ELSE g.votes[p]
  BY DEF Release, Controlled, Game

LEMMA ControlLemma ==
    ASSUME NEW g \in Game, NEW u \in Users, NEW S \in SUBSET Powers
    PROVE  LET h == Control(g, u, S) IN
           /\ h \in Game
           /\ h.status = g.status /\ h.phase = g.phase /\ h.over = g.over
           /\ h.votes = g.votes
           /\ \A p \in Powers : h.ctrl[p] = IF p \in S /\ g.ctrl[p] = Dummy THEN u ELSE g.ctrl[p]
  BY DEF Control, Controlled, Game

LEMMA ClearOrdersLemma ==
    ASSUME NEW g \in Game, NEW S \in SUBSET Powers
    PROVE  LET h == ClearOrders(g, S) IN
           /\ h \in Game
           /\ h.status = g.status /\ h.phase = g.phase /\ h.over = g.over
           /\ h.ctrl = g.ctrl /\ h.votes = g.votes
  BY DEF ClearOrders, Game

LEMMA FinishedLemma ==
    ASSUME NEW g \in Game
    PROVE  /\ Finished(g) \in Game
           /\ Finished(g).status = "completed" /\ Finished(g).over
           /\ Finished(g).phase = g.phase /\ Finished(g).ctrl = g.ctrl
           /\ Finished(g).votes = NoVotes
  <1>. DEFINE f == [g EXCEPT !.status = "completed", !.over = TRUE, !.votes = NoVotes,
                             !.orderable = {}]
  <1>1. /\ f \in Game /\ f.status = "completed" /\ f.over /\ f.votes = NoVotes
        /\ f.phase = g.phase /\ f.ctrl = g.ctrl
    BY DEF Game, NoVotes, Statuses
  <1>2. Finished(g) = ClearOrders(f, Powers)
    BY DEF Finished
  <1>. HIDE DEF f
  <1>. QED  BY <1>1, <1>2, ClearOrdersLemma

LEMMA NextPhaseLemma ==
    ASSUME NEW g \in Game, NEW gone \in SUBSET Powers, NEW act \in SUBSET Powers
    PROVE  LET h == NextPhase(g, gone, act) IN
           /\ h \in Game
           /\ h.status = g.status /\ h.over = g.over
           /\ h.ctrl = g.ctrl /\ h.votes = NoVotes
  <1>. DEFINE n == [g EXCEPT !.phase = (@ + 1) % PhaseCycle, !.votes = NoVotes,
                             !.out = @ \cup gone, !.orderable = act]
              h == ClearOrders(n, Powers)
  <1>1. (g.phase + 1) % PhaseCycle \in 0..(PhaseCycle - 1)
    BY NumbersAssumption DEF Game
  <1>2. /\ n \in Game /\ n.status = g.status /\ n.over = g.over
        /\ n.ctrl = g.ctrl /\ n.votes = NoVotes
    BY <1>1 DEF Game, NoVotes
  <1>3. NextPhase(g, gone, act) = [h EXCEPT !.ordered = @ \cup (Powers \ act), !.waits = @ \cap act]
    BY DEF NextPhase
  <1>. HIDE DEF n
  <1>4. /\ h \in Game /\ h.status = g.status /\ h.over = g.over
        /\ h.ctrl = g.ctrl /\ h.votes = NoVotes
    BY <1>2, ClearOrdersLemma
  <1>. HIDE DEF h
  <1>. QED  BY <1>3, <1>4 DEF Game

LEMMA ProcessedLemma ==
    ASSUME NEW g \in Game, NEW h \in Processed(g)
    PROVE  /\ h \in Game /\ h.ctrl = g.ctrl /\ h.votes = NoVotes
           /\ h.status \in {g.status, "completed"}
           /\ h.over # g.over => h.status = "completed"
  <1>1. CASE h = Finished(g)
    BY <1>1, FinishedLemma
  <1>2. CASE g.over /\ h = [Finished(g) EXCEPT !.status = g.status]
    BY <1>2, FinishedLemma DEF Game
  <1>3. CASE \E gone \in SUBSET Powers, act \in SUBSET Powers : h = NextPhase(g, gone, act)
    BY <1>3, NextPhaseLemma
  <1>. QED  BY <1>1, <1>2, <1>3 DEF Processed

LEMMA ResultsLemma ==
    ASSUME NEW g, Sound(g), NEW h \in Results(g)
    PROVE  /\ Sound(h)
           /\ \A p \in Powers : h.ctrl[p] \in {g.ctrl[p], Dummy}
           /\ g.status # "active" => h = g
           /\ g.status = "active" =>
                /\ HasPlayers(h)
                /\ h.status \in {"active", "forming", "completed"}
                /\ h.over # g.over => h.status # "active"
  <1>1. CASE g.status # "active"
    BY <1>1 DEF Results
  <1>2. CASE g.status = "active" /\ Kickable(g) # {}
    <2>. DEFINE r == Release(g, Kickable(g))
    <2>1. h = [r EXCEPT !.status = "forming"]
      BY <1>2 DEF Results
    <2>2. Kickable(g) \in SUBSET Powers
      BY DEF Kickable, Controlled
    <2>3. Sound(r) /\ r.over = g.over /\ \A p \in Powers : r.ctrl[p] \in {g.ctrl[p], Dummy}
      BY <2>2, ReleaseLemma DEF Sound, VotesSound
    <2>. HIDE DEF r
    <2>4. /\ h \in Game /\ h.status = "forming" /\ h.over = g.over
          /\ h.phase = r.phase /\ h.ctrl = r.ctrl /\ h.votes = r.votes
      BY <2>1, <2>3 DEF Sound, Game, Statuses
    <2>. QED  BY <1>2, <2>3, <2>4 DEF Sound, VotesSound, HasPlayers
  <1>3. CASE g.status = "active" /\ Kickable(g) = {}
    <2>1. PICK r \in Processed(g) :
             h = IF LacksControls(r) THEN [r EXCEPT !.status = "forming"] ELSE r
      BY <1>3 DEF Results
    <2>2. /\ r \in Game /\ r.ctrl = g.ctrl /\ r.votes = NoVotes
          /\ r.status \in {g.status, "completed"}
          /\ r.over # g.over => r.status = "completed"
      BY ProcessedLemma DEF Sound
    <2>3. /\ h \in Game /\ h.ctrl = r.ctrl /\ h.votes = r.votes /\ h.over = r.over
          /\ h.status = IF LacksControls(r) THEN "forming" ELSE r.status
      BY <2>1, <2>2 DEF Game, Statuses
    <2>4. LacksControls(h) = LacksControls(r)
      BY <2>3 DEF LacksControls, Controlled
    <2>5. VotesSound(h)
      BY <2>2, <2>3 DEF VotesSound, NoVotes
    <2>. QED  BY <1>3, <2>2, <2>3, <2>4, <2>5 DEF Sound, HasPlayers
  <1>. QED  BY <1>1, <1>2, <1>3

-----------------------------------------------------------------------------
(* The inductive invariant. *)

\* What some parts of it assume of the requests that arrive: the server is not
\* restarted; no account is deleted while a game is on the disk only; no master
\* sets the status of a game to active or has it processed.
ServerStaysUp == "restart" \notin Requests
AccountsOutliveGames ==
    "account" \notin Requests \/ ("restart" \notin Requests /\ ~RemoveCanceled)
NobodyForces == Requests \cap {"active", "process"} = {}

\* A game that is in memory was saved, and one that is on the disk only is what
\* the disk has of it.  Only a game that is in memory and goes on is scheduled.
Presence ==
    /\ loaded => stored # None
    /\ stored # None => game # None
    /\ ~loaded /\ stored # None => game = stored
    /\ Scheduled => loaded /\ NotFinished(game)

\* The saved copy agrees with the game on its phase and on its end.
CopyIsCurrent == loaded =>
    /\ stored.phase = game.phase /\ stored.over = game.over
    /\ ~NotFinished(game) => stored.status = game.status

GamesAreSound == \A g \in {game, stored} \ {None} : Sound(g)

ActiveIsKnown == ServerStaysUp =>
    /\ loaded \/ game = None \/ game.status # "active"
    /\ loaded /\ Deadline > 0 /\ game.status = "active" => Scheduled

AccountsAreKnown ==
    /\ \A p \in Powers : loaded => game.ctrl[p] \in accounts \cup {Dummy}
    /\ "account" \notin Requests => accounts = Users
    /\ "restart" \notin Requests /\ ~RemoveCanceled => loaded \/ stored = None

ControlIsKept == AccountsOutliveGames /\ loaded => stored.ctrl = game.ctrl

PlayersAreKept == AccountsOutliveGames /\ NobodyForces =>
    \A g \in {game, stored} \ {None} : HasPlayers(g)

IInv ==
    /\ TypeOK /\ Sched!IInv
    /\ Presence /\ CopyIsCurrent /\ GamesAreSound /\ TimerIsHonest
    /\ ActiveIsKnown /\ AccountsAreKnown /\ ControlIsKept /\ PlayersAreKept

\* A game h in memory of which s is saved.
LEMMA LoadedIInv ==
    ASSUME NEW h, NEW s, game' = h, stored' = s, Sound(h), Sound(s),
           loaded' = TRUE, daide' \in BOOLEAN, elapsed' \in 0..Deadline,
           Sched!IInv', TimerIsHonest',
           Scheduled' => NotFinished(h),
           s.phase = h.phase, s.over = h.over, ~NotFinished(h) => s.status = h.status,
           ServerStaysUp /\ Deadline > 0 /\ h.status = "active" => Scheduled',
           accounts' \subseteq Users, "account" \notin Requests => accounts' = Users,
           \A p \in Powers : h.ctrl[p] \in accounts' \cup {Dummy},
           AccountsOutliveGames => s.ctrl = h.ctrl,
           AccountsOutliveGames /\ NobodyForces => HasPlayers(h) /\ HasPlayers(s)
    PROVE  IInv'
  <1>1. game' # None /\ stored' # None
    BY NoneAssumption DEF Sound
  <1>2. TypeOK'
    BY DEF TypeOK, Sound, Sched!IInv
  <1>3. Presence' /\ CopyIsCurrent' /\ ActiveIsKnown' /\ AccountsAreKnown' /\ ControlIsKept'
    BY <1>1 DEF Presence, CopyIsCurrent, ActiveIsKnown, AccountsAreKnown, ControlIsKept,
                NotFinished
  <1>4. GamesAreSound'
    BY DEF GamesAreSound, Sound, VotesSound
  <1>5. PlayersAreKept'
    BY DEF PlayersAreKept, HasPlayers, LacksControls, Controlled
  <1>. QED  BY <1>2, <1>3, <1>4, <1>5 DEF IInv

\* The phase of the game does not end in a step, so that its clock goes on.
LEMMA SamePhase ==
    ASSUME Clock, game # None => game'.phase = game.phase /\ game'.over = game.over
    PROVE  elapsed' = elapsed
  BY DEF Clock, PhaseEnds

LEMMA StartIfPossibleStep ==
    ASSUME IInv, Clock, NEW c, Sound(c), StartIfPossible(c),
           game # None => c.phase = game.phase /\ c.over = game.over,
           Scheduled => NotFinished(c),
           ServerStaysUp /\ Deadline > 0 /\ c.status = "active" => Scheduled
    PROVE  /\ Sound(game')
           /\ game'.phase = c.phase /\ game'.over = c.over /\ game'.ctrl = c.ctrl
           /\ elapsed' = elapsed
           /\ Sched!IInv' /\ TimerIsHonest'
           /\ Scheduled' => NotFinished(game')
           /\ ServerStaysUp /\ Deadline > 0 /\ game'.status = "active" => Scheduled'
           /\ HasPlayers(c) => HasPlayers(game')
  <1>. DEFINE a == [c EXCEPT !.status = "active"]
  <1>1. CASE GameCanStart(c)
    <2>1. game' = a /\ ScheduleGame
      BY <1>1 DEF StartIfPossible
    <2>2. /\ a \in Game /\ a.status = "active" /\ a.phase = c.phase /\ a.over = c.over
          /\ a.ctrl = c.ctrl /\ a.votes = c.votes
      BY DEF Sound, Game, Statuses
    <2>3. Sound(a) /\ NotFinished(a)
      BY <2>2 DEF Sound, VotesSound, NotFinished
    <2>4. HasPlayers(a)
      <3>1. Controlled(a) = Controlled(c)
        BY <2>2 DEF Controlled
      <3>. QED  BY <1>1, <3>1, NumbersAssumption
                DEF GameCanStart, HasExpectedControls, HasPlayers, LacksControls
    <2>. HIDE DEF a
    <2>5. elapsed' = elapsed
      BY <2>1, <2>2, SamePhase
    <2>6. elapsed' \in Nat
      BY <2>5, NumbersAssumption DEF IInv, TypeOK
    <2>7. Sched!IInv' /\ TimerIsHonest' /\ (Deadline > 0 => Scheduled')
      BY <2>1, <2>5, <2>6, ScheduleGameStep DEF IInv
    <2>. QED  BY <2>1, <2>2, <2>3, <2>4, <2>5, <2>7
  <1>2. CASE ~GameCanStart(c)
    <2>1. game' = c /\ KeepSchedule
      BY <1>2 DEF StartIfPossible
    <2>2. elapsed' = elapsed
      BY <2>1, SamePhase
    <2>. QED  BY <2>1, <2>2, KeepScheduleStep DEF IInv
  <1>. QED  BY <1>1, <1>2

LEMMA StopIfNeededStep ==
    ASSUME IInv, Clock, NEW c, Sound(c), StopIfNeeded(c),
           game # None => c.phase = game.phase /\ c.over = game.over,
           Scheduled => NotFinished(c),
           ServerStaysUp /\ Deadline > 0 /\ c.status = "active" => Scheduled
    PROVE  /\ Sound(game')
           /\ game'.phase = c.phase /\ game'.over = c.over /\ game'.ctrl = c.ctrl
           /\ ~NotFinished(c) => game'.status = c.status
           /\ elapsed' = elapsed
           /\ Sched!IInv' /\ TimerIsHonest'
           /\ Scheduled' => NotFinished(game')
           /\ ServerStaysUp /\ Deadline > 0 /\ game'.status = "active" => Scheduled'
           /\ HasPlayers(game')
  <1>. DEFINE f == [c EXCEPT !.status = "forming"]
  <1>1. CASE c.status = "active" /\ LacksControls(c)
    <2>1. game' = f /\ UnscheduleGame
      BY <1>1 DEF StopIfNeeded
    <2>2. /\ f \in Game /\ f.status = "forming" /\ f.phase = c.phase /\ f.over = c.over
          /\ f.ctrl = c.ctrl /\ f.votes = c.votes
      BY DEF Sound, Game, Statuses
    <2>3. Sound(f) /\ HasPlayers(f)
      BY <2>2 DEF Sound, VotesSound, HasPlayers
    <2>. HIDE DEF f
    <2>4. elapsed' = elapsed
      BY <2>1, <2>2, SamePhase
    <2>5. Sched!IInv' /\ TimerIsHonest' /\ ~Scheduled'
      BY <2>1, UnscheduleGameStep DEF IInv
    <2>. QED  BY <1>1, <2>1, <2>2, <2>3, <2>4, <2>5 DEF NotFinished
  <1>2. CASE ~(c.status = "active" /\ LacksControls(c))
    <2>1. game' = c /\ KeepSchedule
      BY <1>2 DEF StopIfNeeded
    <2>2. elapsed' = elapsed
      BY <2>1, SamePhase
    <2>3. HasPlayers(c)
      BY <1>2 DEF HasPlayers
    <2>. QED  BY <2>1, <2>2, <2>3, KeepScheduleStep DEF IInv
  <1>. QED  BY <1>1, <1>2

\* What the invariant says of a game in memory.
LEMMA LoadedGame ==
    ASSUME IInv, loaded
    PROVE  /\ game # None /\ stored # None /\ Sound(game) /\ Sound(stored)
           /\ accounts \subseteq Users /\ elapsed \in 0..Deadline /\ daide \in BOOLEAN
           /\ Scheduled => NotFinished(game)
           /\ ServerStaysUp /\ Deadline > 0 /\ game.status = "active" => Scheduled
           /\ \A p \in Powers : game.ctrl[p] \in accounts \cup {Dummy}
           /\ "account" \notin Requests => accounts = Users
           /\ AccountsOutliveGames => stored.ctrl = game.ctrl
           /\ AccountsOutliveGames /\ NobodyForces => HasPlayers(game) /\ HasPlayers(stored)
  BY DEF IInv, TypeOK, Presence, GamesAreSound, ActiveIsKnown, AccountsAreKnown,
         ControlIsKept, PlayersAreKept

-----------------------------------------------------------------------------
(* Every action keeps the invariant. *)

\* The scheduler of a server that has just started.
LEMMA NewScheduler == Sched!Init => Sched!IInv
  <1>1. Sched!Init => SP!Init
    BY DEF Sched!Init, SP!Init
  <1>. QED  BY <1>1, SP!InitIInv, SameInvariant, SchedulerAssumptions

LEMMA InitIInv == Init => IInv
  <1>. SUFFICES ASSUME Init PROVE IInv
    OBVIOUS
  <1>1. Sched!IInv
    BY NewScheduler DEF Init
  <1>2. TypeOK
    <2>1. elapsed \in 0..Deadline
      BY NumbersAssumption DEF Init
    <2>. QED  BY <1>1, <2>1 DEF Init, TypeOK, Sched!IInv
  <1>3. heap[Id] = None /\ owner[Id] = None
    BY DEF Init, Sched!Init
  <1>4. ~Scheduled /\ TimerIsHonest
    BY <1>3 DEF Scheduled, Sched!HasData, TimerIsHonest
  <1>. QED  BY <1>1, <1>2, <1>4 DEF Init, IInv, Presence, CopyIsCurrent, GamesAreSound,
                 ActiveIsKnown, AccountsAreKnown, ControlIsKept, PlayersAreKept

\* A game in which more powers are controlled has its players still.
LEMMA ControlKeepsPlayers ==
    ASSUME NEW g \in Game, NEW u \in Users, NEW S \in SUBSET Powers, HasPlayers(g)
    PROVE  HasPlayers(Control(g, u, S))
  <1>. DEFINE h == Control(g, u, S)
  <1>1. h.status = g.status /\ Controlled(g) \subseteq Controlled(h)
    BY ControlLemma DEF Controlled
  <1>2. IsFiniteSet(Controlled(h))
    BY PowersAssumption, FS_Subset DEF Controlled
  <1>. HIDE DEF h
  <1>3. /\ Cardinality(Controlled(g)) <= Cardinality(Controlled(h))
        /\ Cardinality(Controlled(g)) \in Nat /\ Cardinality(Controlled(h)) \in Nat
    BY <1>1, <1>2, FS_Subset, FS_CardinalityType
  <1>4. HasPlayers(h)
    BY <1>1, <1>3, NumbersAssumption DEF HasPlayers, LacksControls
  <1>. QED  BY <1>4 DEF h

\* A user with an account takes powers that nobody controls.
LEMMA ControlSound ==
    ASSUME NEW g, Sound(g), NEW u \in Users, NEW S \in SUBSET Powers
    PROVE  Sound(Control(g, u, S))
  BY ControlLemma DEF Sound, VotesSound

LEMMA ReleaseSound ==
    ASSUME NEW g, Sound(g), NEW S \in SUBSET Powers
    PROVE  Sound(Release(g, S))
  BY ReleaseLemma DEF Sound, VotesSound

LEMMA CreateGameIInv ==
    ASSUME IInv, NEW u \in Users, NEW S \in SUBSET Powers, CreateGame(u, S), Clock
    PROVE  IInv'
  <1>. DEFINE c == Control(NewGame, u, S)
  <1>1. /\ NewGame \in Game /\ VotesSound(NewGame) /\ NewGame.status = "forming"
        /\ \A p \in Powers : NewGame.ctrl[p] = Dummy
    BY NumbersAssumption DEF NewGame, Game, VotesSound, NoVotes, Statuses
  <1>2. /\ Sound(c) /\ c.status = "forming" /\ HasPlayers(c)
        /\ \A p \in Powers : c.ctrl[p] \in {u, Dummy}
    <2>1. Sound(c)
      BY <1>1, ControlSound DEF Sound
    <2>2. c.status = "forming" /\ \A p \in Powers : c.ctrl[p] \in {u, Dummy}
      BY <1>1, ControlLemma
    <2>. HIDE DEF c
    <2>. QED  BY <2>1, <2>2 DEF HasPlayers
  <1>3. ~Scheduled
    BY DEF IInv, Presence, CreateGame
  <1>4. game = None /\ StartIfPossible(c) /\ stored' = game'
    BY DEF CreateGame, Save
  <1>. HIDE DEF c
  <1>5. /\ Sound(game') /\ HasPlayers(game') /\ game'.ctrl = c.ctrl
        /\ elapsed' = elapsed /\ Sched!IInv' /\ TimerIsHonest'
        /\ Scheduled' => NotFinished(game')
        /\ ServerStaysUp /\ Deadline > 0 /\ game'.status = "active" => Scheduled'
    BY <1>2, <1>3, <1>4, StartIfPossibleStep
  <1>6. /\ loaded' = TRUE /\ daide' = TRUE /\ accounts' = accounts /\ u \in accounts
        /\ accounts \subseteq Users /\ elapsed \in 0..Deadline
        /\ "account" \notin Requests => accounts = Users
    BY DEF CreateGame, IInv, TypeOK, AccountsAreKnown
  <1>. QED  BY <1>2, <1>4, <1>5, <1>6, LoadedIInv

\* What joining a game, in both ways, comes to.
LEMMA ControlIInv ==
    ASSUME IInv, loaded, NEW u \in accounts, NEW S \in SUBSET Powers,
           StartIfPossible(Control(game, u, S)), Save, Clock,
           UNCHANGED <<accounts, loaded, daide>>
    PROVE  IInv'
  <1>. DEFINE c == Control(game, u, S)
  <1>1. u \in Users /\ Sound(game) /\ game \in Game
    BY LoadedGame DEF Sound
  <1>2. /\ Sound(c) /\ c.status = game.status /\ c.phase = game.phase /\ c.over = game.over
        /\ \A p \in Powers : c.ctrl[p] \in {u, game.ctrl[p]}
    BY <1>1, ControlSound, ControlLemma
  <1>3. HasPlayers(game) => HasPlayers(c)
    BY <1>1, ControlKeepsPlayers
  <1>. HIDE DEF c
  <1>4. (Scheduled => NotFinished(c)) /\
        (ServerStaysUp /\ Deadline > 0 /\ c.status = "active" => Scheduled)
    BY <1>2, LoadedGame DEF NotFinished
  <1>5. /\ Sound(game') /\ game'.ctrl = c.ctrl /\ elapsed' = elapsed
        /\ Sched!IInv' /\ TimerIsHonest' /\ (Scheduled' => NotFinished(game'))
        /\ ServerStaysUp /\ Deadline > 0 /\ game'.status = "active" => Scheduled'
        /\ HasPlayers(c) => HasPlayers(game')
    BY <1>2, <1>4, StartIfPossibleStep DEF c
  <1>6. stored' = game'
    BY DEF Save
  <1>7. \A p \in Powers : game'.ctrl[p] \in accounts \cup {Dummy}
    BY <1>2, <1>5, LoadedGame
  <1>. QED  BY <1>3, <1>5, <1>6, <1>7, LoadedGame, LoadedIInv

LEMMA JoinGameIInv ==
    ASSUME IInv, NEW u \in Users, NEW p \in Powers, JoinGame(u, p), Clock
    PROVE  IInv'
  BY ControlIInv DEF JoinGame, Arrives

LEMMA JoinPowersIInv ==
    ASSUME IInv, NEW u \in Users, NEW S \in SUBSET Powers, JoinPowers(u, S), Clock
    PROVE  IInv'
  <1>. DEFINE dummies == {p \in S : game.ctrl[p] = Dummy}
  <1>1. dummies \in SUBSET Powers
    OBVIOUS
  <1>2. /\ loaded /\ u \in accounts /\ StartIfPossible(Control(game, u, dummies))
        /\ Save /\ UNCHANGED <<accounts, loaded, daide>>
    BY DEF JoinPowers, Arrives
  <1>. HIDE DEF dummies
  <1>. QED  BY <1>1, <1>2, ControlIInv

\* What leaving a game, by oneself or by a master, comes to.
LEMMA ReleaseIInv ==
    ASSUME IInv, loaded, NEW S \in SUBSET Powers, StopIfNeeded(Release(game, S)), Save, Clock,
           loaded' = loaded, daide' = daide, accounts' \subseteq Users,
           "account" \notin Requests => accounts' = accounts,
           \A p \in Powers \ S : game.ctrl[p] \in accounts' \cup {Dummy}
    PROVE  IInv'
  <1>. DEFINE c == Release(game, S)
  <1>1. Sound(game) /\ game \in Game
    BY LoadedGame DEF Sound
  <1>2. /\ Sound(c) /\ c.status = game.status /\ c.phase = game.phase /\ c.over = game.over
        /\ \A p \in Powers : c.ctrl[p] = IF p \in S THEN Dummy ELSE game.ctrl[p]
    BY <1>1, ReleaseSound, ReleaseLemma
  <1>. HIDE DEF c
  <1>3. (Scheduled => NotFinished(c)) /\
        (ServerStaysUp /\ Deadline > 0 /\ c.status = "active" => Scheduled)
    BY <1>2, LoadedGame DEF NotFinished
  <1>4. /\ Sound(game') /\ game'.ctrl = c.ctrl /\ elapsed' = elapsed /\ HasPlayers(game')
        /\ Sched!IInv' /\ TimerIsHonest' /\ (Scheduled' => NotFinished(game'))
        /\ ServerStaysUp /\ Deadline > 0 /\ game'.status = "active" => Scheduled'
    BY <1>2, <1>3, StopIfNeededStep DEF c
  <1>5. stored' = game'
    BY DEF Save
  <1>6. \A p \in Powers : game'.ctrl[p] \in accounts' \cup {Dummy}
    BY <1>2, <1>4
  <1>. QED  BY <1>4, <1>5, <1>6, LoadedGame, LoadedIInv

LEMMA LeaveGameIInv ==
    ASSUME IInv, NEW p \in Powers, LeaveGame(p), Clock
    PROVE  IInv'
  <1>1. /\ loaded /\ {p} \in SUBSET Powers /\ StopIfNeeded(Release(game, {p})) /\ Save
        /\ loaded' = loaded /\ daide' = daide /\ accounts' = accounts
    BY DEF LeaveGame, Arrives
  <1>. QED  BY <1>1, LoadedGame, ReleaseIInv

LEMMA SetDummyPowersIInv ==
    ASSUME IInv, NEW S \in SUBSET Powers, SetDummyPowers(S), Clock
    PROVE  IInv'
  <1>1. /\ loaded /\ StopIfNeeded(Release(game, S)) /\ Save
        /\ loaded' = loaded /\ daide' = daide /\ accounts' = accounts
    BY DEF SetDummyPowers, Arrives
  <1>. QED  BY <1>1, LoadedGame, ReleaseIInv

\* What giving orders and changing a wait flag come to.
LEMMA ForceIfReadyIInv ==
    ASSUME IInv, loaded, NotFinished(game), Clock,
           NEW g \in Game, g.status = game.status, g.phase = game.phase, g.over = game.over,
           g.ctrl = game.ctrl, g.votes = game.votes, ForceIfReady(g)
    PROVE  IInv'
  <1>1. Sound(g) /\ NotFinished(g) /\ (HasPlayers(game) => HasPlayers(g))
    BY LoadedGame DEF Sound, VotesSound, NotFinished, HasPlayers, LacksControls, Controlled
  <1>2. /\ game' = g /\ stored' = g /\ accounts' = accounts /\ loaded' = TRUE /\ daide' = daide
        /\ ForceGameProcessing \/ KeepSchedule
    BY DEF ForceIfReady, Save
  <1>3. elapsed' = elapsed
    BY <1>2, SamePhase
  <1>4. Sched!IInv' /\ TimerIsHonest' /\ (Scheduled => Scheduled')
    BY <1>2, <1>3, ForceGameProcessingStep, KeepScheduleStep DEF IInv
  <1>. QED  BY <1>1, <1>2, <1>3, <1>4, LoadedGame, LoadedIInv

LEMMA SetWaitLemma ==
    ASSUME NEW g \in Game, NEW p \in Powers, NEW wait \in BOOLEAN
    PROVE  LET h == SetWait(g, p, wait) IN
           /\ h \in Game
           /\ h.status = g.status /\ h.phase = g.phase /\ h.over = g.over
           /\ h.ctrl = g.ctrl /\ h.votes = g.votes
  <1>1. CASE wait = TRUE
    BY <1>1 DEF SetWait, Game
  <1>2. CASE wait = FALSE
    BY <1>2 DEF SetWait, Game
  <1>. QED  BY <1>1, <1>2

LEMMA SetOrdersIInv ==
    ASSUME IInv, NEW p \in Powers, SetOrders(p), Clock
    PROVE  IInv'
  <1>. DEFINE g == [game EXCEPT !.ordered = @ \cup {p}]
  <1>1. loaded /\ NotFinished(game) /\ game \in Game
    BY LoadedGame DEF SetOrders, Arrives, Sound
  <1>2. /\ g \in Game /\ g.status = game.status /\ g.phase = game.phase /\ g.over = game.over
        /\ g.ctrl = game.ctrl /\ g.votes = game.votes
    BY <1>1 DEF Game
  <1>3. ForceIfReady(g) \/ \E wait \in BOOLEAN : ForceIfReady(SetWait(g, p, wait))
    BY DEF SetOrders
  <1>. HIDE DEF g
  <1>4. CASE ForceIfReady(g)
    BY <1>1, <1>2, <1>4, ForceIfReadyIInv
  <1>5. ASSUME NEW wait \in BOOLEAN, ForceIfReady(SetWait(g, p, wait)) PROVE IInv'
    BY <1>1, <1>2, <1>5, SetWaitLemma, ForceIfReadyIInv
  <1>. QED  BY <1>3, <1>4, <1>5

LEMMA SetWaitFlagIInv ==
    ASSUME IInv, NEW p \in Powers, NEW wait \in BOOLEAN, SetWaitFlag(p, wait), Clock
    PROVE  IInv'
  <1>1. /\ loaded /\ NotFinished(game) /\ game \in Game
        /\ ForceIfReady(SetWait(game, p, wait))
    BY LoadedGame DEF SetWaitFlag, Arrives, Sound
  <1>. QED  BY <1>1, SetWaitLemma, ForceIfReadyIInv

LEMMA ClearOrdersOfIInv ==
    ASSUME IInv, NEW S \in SUBSET Powers, ClearOrdersOf(S), Clock
    PROVE  IInv'
  <1>. DEFINE h == ClearOrders(game, S)
  <1>1. /\ loaded /\ Sound(game) /\ game' = h /\ stored' = stored
        /\ accounts' = accounts /\ loaded' = loaded /\ daide' = daide /\ KeepSchedule
    BY LoadedGame DEF ClearOrdersOf, Arrives
  <1>2. /\ h \in Game /\ h.status = game.status /\ h.phase = game.phase /\ h.over = game.over
        /\ h.ctrl = game.ctrl /\ h.votes = game.votes
    BY <1>1, ClearOrdersLemma DEF Sound
  <1>. HIDE DEF h
  <1>3. Sound(h) /\ (NotFinished(h) <=> NotFinished(game)) /\ (HasPlayers(game) => HasPlayers(h))
    BY <1>1, <1>2 DEF Sound, VotesSound, NotFinished, HasPlayers, LacksControls, Controlled
  <1>4. elapsed' = elapsed
    BY <1>1, <1>2, SamePhase
  <1>5. Sched!IInv' /\ TimerIsHonest' /\ (Scheduled' <=> Scheduled)
    BY <1>1, <1>4, KeepScheduleStep DEF IInv
  <1>6. /\ stored.phase = h.phase /\ stored.over = h.over
        /\ ~NotFinished(h) => stored.status = h.status
    BY <1>1, <1>2, <1>3 DEF IInv, CopyIsCurrent
  <1>7. ServerStaysUp /\ Deadline > 0 /\ h.status = "active" => Scheduled'
    BY <1>1, <1>2, <1>5, LoadedGame
  <1>. QED  BY <1>1, <1>2, <1>3, <1>4, <1>5, <1>6, <1>7, LoadedGame, LoadedIInv

LEMMA CastVoteIInv ==
    ASSUME IInv, NEW p \in Powers, NEW yes \in BOOLEAN, CastVote(p, yes), Clock
    PROVE  IInv'
  <1>. DEFINE vote == IF yes THEN [by |-> game.ctrl[p], at |-> game.phase] ELSE None
              g == [game EXCEPT !.votes[p] = vote]
  <1>1. /\ loaded /\ Sound(game) /\ game \in Game /\ NotFinished(game)
        /\ Arrives(IF game.ctrl[p] = Dummy THEN "botvote" ELSE "vote")
        /\ IF HasDrawVote(g) THEN game' = Finished(g) /\ UnscheduleGame
           ELSE game' = g /\ KeepSchedule
        /\ stored' = game' /\ accounts' = accounts /\ loaded' = loaded /\ daide' = daide
    BY LoadedGame DEF CastVote, Save, Sound
  <1>2. /\ g \in Game /\ g.status = game.status /\ g.phase = game.phase /\ g.over = game.over
        /\ g.ctrl = game.ctrl
        /\ \A q \in Powers : g.votes[q] = IF q = p THEN vote ELSE game.votes[q]
    <2>1. vote \in Vote \cup {None}
      BY <1>1 DEF Vote, Game
    <2>. HIDE DEF vote
    <2>. QED  BY <1>1, <2>1 DEF Game
  <1>3. game.ctrl[p] = Dummy => ~BotsDoNotVote
    BY <1>1 DEF Arrives, BotsDoNotVote
  <1>. HIDE DEF g
  <1>4. Sound(g) /\ NotFinished(g) /\ (HasPlayers(game) => HasPlayers(g))
    BY <1>1, <1>2, <1>3
    DEF Sound, VotesSound, NotFinished, HasPlayers, LacksControls, Controlled
  <1>5. CASE HasDrawVote(g)
    <2>1. game' = Finished(g) /\ UnscheduleGame
      BY <1>1, <1>5
    <2>2. Sound(game') /\ HasPlayers(game') /\ game'.ctrl = g.ctrl /\ game'.status = "completed"
      BY <1>4, <2>1, FinishedLemma DEF Sound, VotesSound, HasPlayers, NoVotes
    <2>3. Sched!IInv' /\ TimerIsHonest' /\ ~Scheduled'
      BY <2>1, UnscheduleGameStep DEF IInv
    <2>4. elapsed' \in 0..Deadline
      BY <1>1, LoadedGame, NumbersAssumption DEF Clock
    <2>. QED  BY <1>1, <1>2, <2>2, <2>3, <2>4, LoadedGame, LoadedIInv
  <1>6. CASE ~HasDrawVote(g)
    <2>1. game' = g /\ KeepSchedule
      BY <1>1, <1>6
    <2>2. elapsed' = elapsed
      BY <1>2, <2>1, SamePhase
    <2>3. Sched!IInv' /\ TimerIsHonest' /\ (Scheduled' <=> Scheduled)
      BY <2>1, <2>2, KeepScheduleStep DEF IInv
    <2>. QED  BY <1>1, <1>2, <1>4, <2>1, <2>2, <2>3, LoadedGame, LoadedIInv
  <1>. QED  BY <1>5, <1>6

LEMMA ProcessGameIInv ==
    ASSUME IInv, ProcessGame, Clock
    PROVE  IInv'
  <1>. DEFINE h == [game EXCEPT !.ordered = Powers, !.waits = {},
                                !.status = IF @ = "forming" THEN "active" ELSE @]
  <1>1. /\ loaded /\ Sound(game) /\ game \in Game /\ NotFinished(game)
        /\ game' = h /\ ForceGameProcessing /\ stored' = stored /\ "process" \in Requests
        /\ accounts' = accounts /\ loaded' = loaded /\ daide' = daide
    BY LoadedGame DEF ProcessGame, Arrives, Sound
  <1>2. /\ h \in Game /\ h.phase = game.phase /\ h.over = game.over
        /\ h.status = IF game.status = "forming" THEN "active" ELSE game.status
        /\ h.ctrl = game.ctrl /\ h.votes = game.votes
    BY <1>1 DEF Game, Statuses
  <1>. HIDE DEF h
  <1>3. Sound(h) /\ NotFinished(h)
    BY <1>1, <1>2 DEF Sound, VotesSound, NotFinished
  <1>4. elapsed' = elapsed
    BY <1>1, <1>2, SamePhase
  <1>5. Sched!IInv' /\ TimerIsHonest' /\ Scheduled'
    BY <1>1, <1>4, ForceGameProcessingStep DEF IInv
  <1>6. stored.phase = h.phase /\ stored.over = h.over /\ ~NobodyForces
    BY <1>1, <1>2 DEF IInv, CopyIsCurrent, NobodyForces
  <1>. QED  BY <1>1, <1>2, <1>3, <1>4, <1>5, <1>6, LoadedGame, LoadedIInv

\* A game h that leaves the memory, with s saved.
LEMMA UnloadedIInv ==
    ASSUME NEW h, NEW s \in {h, None}, game' = h, stored' = s, Sound(h),
           loaded' = FALSE, daide' \in BOOLEAN, elapsed' \in 0..Deadline,
           Sched!IInv', TimerIsHonest', ~Scheduled',
           accounts' \subseteq Users, "account" \notin Requests => accounts' = Users,
           ServerStaysUp => h.status # "active",
           "restart" \notin Requests /\ ~RemoveCanceled => s = None,
           AccountsOutliveGames /\ NobodyForces => HasPlayers(h)
    PROVE  IInv'
  <1>1. game' # None
    BY NoneAssumption DEF Sound
  <1>2. TypeOK'
    BY DEF TypeOK, Sound, Sched!IInv
  <1>3. Presence' /\ CopyIsCurrent' /\ ActiveIsKnown' /\ AccountsAreKnown' /\ ControlIsKept'
    BY <1>1 DEF Presence, CopyIsCurrent, ActiveIsKnown, AccountsAreKnown, ControlIsKept
  <1>4. GamesAreSound'
    BY DEF GamesAreSound, Sound, VotesSound
  <1>5. PlayersAreKept'
    BY DEF PlayersAreKept, HasPlayers, LacksControls, Controlled
  <1>. QED  BY <1>2, <1>3, <1>4, <1>5 DEF IInv

\* The game stays what it is, and the schedule follows.
LEMMA SameGameIInv ==
    ASSUME IInv, UNCHANGED <<game, loaded, stored, daide>>,
           Sched!IInv', TimerIsHonest', Scheduled' <=> Scheduled, elapsed' \in 0..Deadline,
           accounts' \subseteq Users,
           accounts' = accounts \/ "account" \in Requests,
           ~loaded \/ accounts \subseteq accounts'
    PROVE  IInv'
  <1>1. TypeOK'
    BY DEF IInv, TypeOK, Sched!IInv
  <1>2. Presence' /\ CopyIsCurrent' /\ ActiveIsKnown' /\ ControlIsKept'
    BY DEF IInv, Presence, CopyIsCurrent, ActiveIsKnown, ControlIsKept, NotFinished
  <1>3. AccountsAreKnown'
    BY DEF IInv, AccountsAreKnown
  <1>4. GamesAreSound'
    BY DEF IInv, GamesAreSound, Sound, VotesSound
  <1>5. PlayersAreKept'
    BY DEF IInv, PlayersAreKept, HasPlayers, LacksControls, Controlled
  <1>. QED  BY <1>1, <1>2, <1>3, <1>4, <1>5 DEF IInv

LEMMA SetGameStatusIInv ==
    ASSUME IInv, NEW status \in Statuses, SetGameStatus(status), Clock
    PROVE  IInv'
  <1>. DEFINE removed == status = "canceled" /\ RemoveCanceled
              c == [game EXCEPT !.status = status]
              h == IF status = "completed" THEN Finished(game) ELSE c
  <1>1. /\ loaded /\ Sound(game) /\ game \in Game /\ NotFinished(game) /\ status \in Requests
        /\ game' = h /\ stored' = h /\ accounts' = accounts
        /\ loaded' = (loaded /\ ~removed) /\ daide' = (daide /\ ~removed)
    BY LoadedGame DEF SetGameStatus, Arrives, Save, Sound
  <1>2. /\ status \in {"completed", "paused", "canceled"} => UnscheduleGame
        /\ status = "active" => ScheduleGame
        /\ status = "forming" => KeepSchedule
    BY DEF SetGameStatus
  <1>3. /\ c \in Game /\ c.status = status /\ c.phase = game.phase /\ c.over = game.over
        /\ c.ctrl = game.ctrl /\ c.votes = game.votes
    BY <1>1 DEF Game
  <1>. HIDE DEF c
  <1>4. Sound(h) /\ h.status = status /\ h.ctrl = game.ctrl
    <2>1. Sound(c)
      BY <1>1, <1>3 DEF Sound, VotesSound
    <2>2. Sound(Finished(game)) /\ Finished(game).status = "completed"
          /\ Finished(game).ctrl = game.ctrl
      BY <1>1, FinishedLemma DEF Sound, VotesSound, NoVotes
    <2>. QED  BY <1>3, <2>1, <2>2
  <1>5. status # "completed" => elapsed' = elapsed
    BY <1>1, <1>3, SamePhase
  <1>6. NobodyForces => HasPlayers(h)
    BY <1>1, <1>4 DEF NobodyForces, HasPlayers
  <1>7. elapsed' \in 0..Deadline
    BY <1>1, LoadedGame, NumbersAssumption DEF Clock
  <1>. HIDE DEF h
  <1>8. CASE status \in {"completed", "paused", "canceled"}
    <2>1. Sched!IInv' /\ TimerIsHonest' /\ ~Scheduled'
      BY <1>2, <1>8, UnscheduleGameStep DEF IInv
    <2>2. CASE removed
      <3>1. loaded' = FALSE /\ daide' = FALSE
        BY <1>1, <2>2
      <3>2. RemoveCanceled /\ h.status # "active"
        BY <1>4, <1>8, <2>2
      <3>. QED  BY <1>1, <1>4, <1>6, <1>7, <2>1, <3>1, <3>2, LoadedGame, UnloadedIInv
    <2>3. CASE ~removed
      <3>1. loaded' = TRUE /\ daide' \in BOOLEAN
        BY <1>1, <2>3, LoadedGame
      <3>. QED  BY <1>1, <1>4, <1>6, <1>7, <1>8, <2>1, <3>1, LoadedGame, LoadedIInv
    <2>. QED  BY <2>2, <2>3
  <1>9. CASE status \in {"active", "forming"}
    <2>1. ScheduleGame \/ KeepSchedule
      BY <1>2, <1>9
    <2>2. elapsed' = elapsed /\ elapsed' \in Nat
      BY <1>5, <1>7, <1>9, NumbersAssumption
    <2>3. /\ Sched!IInv' /\ TimerIsHonest'
          /\ status = "active" /\ Deadline > 0 => Scheduled'
      BY <1>2, <2>1, <2>2, ScheduleGameStep, KeepScheduleStep DEF IInv
    <2>4. loaded' = TRUE /\ daide' \in BOOLEAN
      BY <1>1, <1>9, LoadedGame
    <2>5. NotFinished(h) /\ (h.status = "active" => status = "active")
      BY <1>4, <1>9 DEF NotFinished
    <2>. QED  BY <1>1, <1>4, <1>6, <1>7, <2>3, <2>4, <2>5, LoadedGame, LoadedIInv
  <1>. QED  BY <1>8, <1>9 DEF Statuses

LEMMA DeleteGameIInv ==
    ASSUME IInv, DeleteGame, Clock
    PROVE  IInv'
  <1>. DEFINE c == [game EXCEPT !.status = "canceled"]
  <1>1. /\ loaded /\ Sound(game) /\ game \in Game
        /\ game' = IF NotFinished(game) THEN c ELSE game
        /\ stored' = None /\ UnscheduleGame /\ accounts' = accounts
        /\ loaded' = FALSE /\ daide' = FALSE
    BY LoadedGame DEF DeleteGame, Arrives, Sound
  <1>2. Sound(c) /\ c.status = "canceled"
    BY <1>1 DEF Sound, VotesSound, Game, Statuses
  <1>3. Sound(game') /\ game'.status # "active"
    BY <1>1, <1>2 DEF NotFinished
  <1>4. HasPlayers(game')
    BY <1>3 DEF HasPlayers
  <1>5. Sched!IInv' /\ TimerIsHonest' /\ ~Scheduled'
    BY <1>1, UnscheduleGameStep DEF IInv
  <1>6. elapsed' \in 0..Deadline
    BY <1>1, LoadedGame, NumbersAssumption DEF Clock
  <1>. QED  BY <1>1, <1>3, <1>4, <1>5, <1>6, LoadedGame, UnloadedIInv

LEMMA DeleteAccountIInv ==
    ASSUME IInv, NEW u \in Users, DeleteAccount(u), Clock
    PROVE  IInv'
  <1>1. /\ "account" \in Requests /\ accounts' = accounts \ {u} /\ accounts' \subseteq Users
        /\ loaded' = loaded /\ daide' = daide
    BY DEF DeleteAccount, IInv, TypeOK
  <1>2. CASE ~loaded
    <2>1. game' = game /\ stored' = stored /\ KeepSchedule
      BY <1>2 DEF DeleteAccount
    <2>2. elapsed' = elapsed /\ elapsed \in 0..Deadline
      BY <2>1, SamePhase DEF IInv, TypeOK
    <2>3. Sched!IInv' /\ TimerIsHonest' /\ (Scheduled' <=> Scheduled)
      BY <2>1, <2>2, KeepScheduleStep DEF IInv
    <2>. QED  BY <1>1, <1>2, <2>1, <2>2, <2>3, SameGameIInv
  <1>3. CASE loaded /\ Owned(game, {u}) = {}
    <2>1. game' = game /\ stored' = game /\ KeepSchedule
      BY <1>3 DEF DeleteAccount, Save
    <2>2. elapsed' = elapsed
      BY <2>1, SamePhase
    <2>3. Sched!IInv' /\ TimerIsHonest' /\ (Scheduled' <=> Scheduled)
      BY <2>1, <2>2, KeepScheduleStep DEF IInv
    <2>4. \A p \in Powers : game.ctrl[p] \in accounts' \cup {Dummy}
      BY <1>1, <1>3, LoadedGame DEF Owned
    <2>. QED  BY <1>1, <1>3, <2>1, <2>2, <2>3, <2>4, LoadedGame, LoadedIInv
  <1>4. CASE loaded /\ Owned(game, {u}) # {}
    <2>. DEFINE S == Owned(game, {u})
    <2>1. S \in SUBSET Powers /\ StopIfNeeded(Release(game, S)) /\ Save
      BY <1>4 DEF DeleteAccount, Owned
    <2>2. \A p \in Powers \ S : game.ctrl[p] \in accounts' \cup {Dummy}
      BY <1>1, <1>4, LoadedGame DEF Owned
    <2>. HIDE DEF S
    <2>. QED  BY <1>1, <1>4, <2>1, <2>2, ReleaseIInv
  <1>. QED  BY <1>2, <1>3, <1>4

LEMMA CreateAccountIInv ==
    ASSUME IInv, NEW u \in Users, CreateAccount(u), Clock
    PROVE  IInv'
  <1>1. /\ "account" \in Requests /\ accounts' = accounts \cup {u} /\ accounts' \subseteq Users
        /\ UNCHANGED <<game, loaded, stored, daide>> /\ KeepSchedule
    BY DEF CreateAccount, IInv, TypeOK
  <1>2. elapsed' = elapsed /\ elapsed \in 0..Deadline
    BY <1>1, SamePhase DEF IInv, TypeOK
  <1>3. Sched!IInv' /\ TimerIsHonest' /\ (Scheduled' <=> Scheduled)
    BY <1>1, <1>2, KeepScheduleStep DEF IInv
  <1>. QED  BY <1>1, <1>2, <1>3, SameGameIInv

LEMMA RestartIInv ==
    ASSUME IInv, Restart, Clock
    PROVE  IInv'
  <1>1. /\ "restart" \in Requests /\ stored # None /\ game' = stored /\ stored' = stored
        /\ loaded' = FALSE /\ daide' = FALSE /\ accounts' = accounts
    BY DEF Restart
  <1>2. Sched!IInv'
    <2>1. Sched!Init'
      BY DEF Restart, Sched!Init
    <2>. QED  BY <2>1, NewScheduler, PTL
  <1>3. heap'[Id] = None /\ owner'[Id] = None
    BY DEF Restart
  <1>4. ~Scheduled' /\ TimerIsHonest'
    BY <1>3 DEF Scheduled, Sched!HasData, TimerIsHonest
  <1>5. /\ Sound(stored) /\ accounts \subseteq Users
        /\ "account" \notin Requests => accounts = Users
        /\ AccountsOutliveGames /\ NobodyForces => HasPlayers(stored)
    BY <1>1 DEF IInv, TypeOK, GamesAreSound, AccountsAreKnown, PlayersAreKept
  <1>6. elapsed' \in 0..Deadline
    BY NumbersAssumption DEF Clock, IInv, TypeOK
  <1>. QED  BY <1>1, <1>2, <1>4, <1>5, <1>6, UnloadedIInv DEF ServerStaysUp

\* Loading a game first releases the powers of users without an account.
LEMMA LoadedPowers ==
    ASSUME IInv, ~loaded, stored # None
    PROVE  LET g == Release(stored, Owned(stored, Users \ accounts)) IN
           /\ Sound(g)
           /\ g.status = stored.status /\ g.phase = stored.phase /\ g.over = stored.over
           /\ \A p \in Powers : g.ctrl[p] \in accounts \cup {Dummy}
           /\ AccountsOutliveGames => g.ctrl = stored.ctrl
           /\ DoesNotWait(g) => DoesNotWait(stored)
  <1>. DEFINE S == Owned(stored, Users \ accounts)
              g == Release(stored, S)
  <1>1. Sound(stored) /\ stored \in Game /\ S \in SUBSET Powers
    BY DEF IInv, GamesAreSound, Sound, Owned
  <1>. HIDE DEF S
  <1>2. /\ Sound(g) /\ g.status = stored.status /\ g.phase = stored.phase /\ g.over = stored.over
        /\ g.ordered = stored.ordered /\ g.out = stored.out /\ stored.waits \subseteq g.waits
        /\ \A p \in Powers : g.ctrl[p] = IF p \in S THEN Dummy ELSE stored.ctrl[p]
    BY <1>1, ReleaseSound, ReleaseLemma
  <1>3. \A p \in Powers : g.ctrl[p] \in accounts \cup {Dummy}
    BY <1>1, <1>2 DEF S, Owned, Game
  <1>4. AccountsOutliveGames => S = {}
    BY DEF S, AccountsOutliveGames, IInv, AccountsAreKnown, Owned
  <1>. HIDE DEF g
  <1>5. AccountsOutliveGames => g.ctrl = stored.ctrl
    BY <1>1, <1>2, <1>4 DEF Sound, Game
  <1>6. DoesNotWait(g) => DoesNotWait(stored)
    BY <1>2 DEF DoesNotWait
  <1>. QED  BY <1>2, <1>3, <1>5, <1>6 DEF g, S

LEMMA LoadGameIInv ==
    ASSUME IInv, LoadGame, Clock
    PROVE  IInv'
  <1>. DEFINE g == Release(stored, Owned(stored, Users \ accounts))
              starts == ~StartMaster /\ HasExpectedControls(g)
  <1>1. /\ ~loaded /\ stored # None /\ game = stored /\ game # None /\ ~Scheduled
        /\ loaded' = TRUE /\ daide' = TRUE /\ accounts' = accounts
        /\ accounts \subseteq Users /\ elapsed \in 0..Deadline
        /\ "account" \notin Requests => accounts = Users
        /\ AccountsOutliveGames /\ NobodyForces => HasPlayers(stored)
        /\ ServerStaysUp => stored.status # "active" /\ Sound(stored)
    BY DEF LoadGame, IInv, TypeOK, Presence, ActiveIsKnown, AccountsAreKnown, PlayersAreKept,
           GamesAreSound
  <1>2. /\ Sound(g)
        /\ g.status = stored.status /\ g.phase = stored.phase /\ g.over = stored.over
        /\ \A p \in Powers : g.ctrl[p] \in accounts \cup {Dummy}
        /\ AccountsOutliveGames => g.ctrl = stored.ctrl
    BY <1>1, LoadedPowers
  <1>3. \/ \E h \in Results(g) :
             /\ game' = h /\ stored' = h
             /\ IF h.status = "active" THEN ScheduleGame ELSE KeepSchedule
        \/ /\ game' = g /\ stored' = stored
           /\ (ScheduleGame /\ g.status = "active") \/ KeepSchedule
    BY DEF LoadGame, Save
  <1>4. elapsed' \in 0..Deadline /\ elapsed' \in Nat
    BY <1>1, NumbersAssumption DEF Clock
  <1>5. /\ ScheduleGame => Sched!IInv' /\ TimerIsHonest' /\ (Deadline > 0 => Scheduled')
        /\ KeepSchedule => Sched!IInv' /\ TimerIsHonest' /\ ~Scheduled'
    <2>1. KeepSchedule => Sched!IInv' /\ ~Scheduled'
      BY <1>1, KeepScheduleStep DEF IInv
    <2>2. ~Scheduled' => TimerIsHonest'
      BY DEF Scheduled, Sched!HasData, TimerIsHonest
    <2>. QED  BY <1>1, <1>4, <2>1, <2>2, ScheduleGameStep DEF IInv
  <1>. HIDE DEF g
  <1>6. ASSUME NEW h \in Results(g), game' = h, stored' = h,
               IF h.status = "active" THEN ScheduleGame ELSE KeepSchedule
        PROVE  IInv'
    <2>1. /\ Sound(h) /\ HasPlayers(h)
          /\ \A p \in Powers : h.ctrl[p] \in accounts \cup {Dummy}
      BY <1>2, ResultsLemma DEF HasPlayers
    <2>2. /\ Sched!IInv' /\ TimerIsHonest'
          /\ h.status # "active" => ~Scheduled'
          /\ h.status = "active" /\ Deadline > 0 => Scheduled'
      BY <1>5, <1>6
    <2>3. Scheduled' => NotFinished(h)
      BY <2>2 DEF NotFinished
    <2>. QED  BY <1>1, <1>4, <1>6, <2>1, <2>2, <2>3, LoadedIInv
  <1>7. ASSUME game' = g, stored' = stored, (ScheduleGame /\ g.status = "active") \/ KeepSchedule
        PROVE  IInv'
    <2>1. /\ Sched!IInv' /\ TimerIsHonest'
          /\ Scheduled' => NotFinished(g)
      BY <1>5, <1>7 DEF NotFinished
    <2>2. AccountsOutliveGames /\ NobodyForces => HasPlayers(g)
      BY <1>1, <1>2 DEF HasPlayers, LacksControls, Controlled
    <2>3. Sound(stored)
      BY <1>1 DEF IInv, GamesAreSound
    <2>4. ~(ServerStaysUp /\ g.status = "active")
      BY <1>1, <1>2
    <2>. QED  BY <1>1, <1>2, <1>4, <1>7, <2>1, <2>2, <2>3, <2>4, LoadedIInv
  <1>. QED  BY <1>3, <1>6, <1>7

LEMMA ServeTaskIInv ==
    ASSUME IInv, ServeTask, Clock
    PROVE  IInv'
  <1>1. accounts' = accounts /\ loaded' = loaded
    BY DEF ServeTask
  <1>2. CASE /\ Sched!SkipTask \/ Sched!DropTask(DoesNotWait(game))
             /\ UNCHANGED <<game, stored, daide>>
    <2>1. Sched!SkipTask \/ \E v \in BOOLEAN : Sched!DropTask(v)
      BY <1>2 DEF DoesNotWait
    <2>2. elapsed' = elapsed /\ elapsed \in 0..Deadline /\ accounts \subseteq Users
      BY <1>2, SamePhase DEF IInv, TypeOK
    <2>3. Sched!IInv' /\ TimerIsHonest' /\ (Scheduled' <=> Scheduled)
      BY <2>1, <2>2, PassOverStep DEF IInv
    <2>. QED  BY <1>1, <1>2, <2>2, <2>3, SameGameIInv
  <1>3. ASSUME NEW h \in Results(game), game' = h, stored' = h,
               Sched!RunTask(DoesNotWait(game), IF h.status = "active" THEN "again" ELSE "done"),
               daide' = (daide /\ ~(game.status = "active" /\ h.over))
        PROVE  IInv'
    <2>. DEFINE o == IF h.status = "active" THEN "again" ELSE "done"
    <2>1. DoesNotWait(game) \in BOOLEAN
      BY DEF DoesNotWait
    <2>2. elapsed' \in 0..Deadline /\ elapsed' \in Nat
      BY NumbersAssumption DEF Clock, IInv, TypeOK
    <2>3. /\ Sched!IInv' /\ TimerIsHonest' /\ Scheduled
          /\ Scheduled' <=> h.status = "active" /\ Deadline > 0
      <3>. HIDE DEF o
      <3>1. Sched!RunTask(DoesNotWait(game), o) /\ (o # "done" <=> h.status = "active")
        BY <1>3 DEF o
      <3>. QED  BY <2>1, <2>2, <3>1, RunTaskStep DEF IInv
    <2>4. loaded
      BY <2>3 DEF IInv, Presence
    <2>5. /\ Sound(h) /\ HasPlayers(h)
          /\ \A p \in Powers : h.ctrl[p] \in accounts \cup {Dummy}
      BY <1>3, <2>4, LoadedGame, ResultsLemma DEF HasPlayers
    <2>6. Scheduled' => NotFinished(h)
      BY <2>3 DEF NotFinished
    <2>7. daide' \in BOOLEAN
      BY <1>3, <2>4, LoadedGame
    <2>. QED  BY <1>1, <1>3, <2>2, <2>3, <2>4, <2>5, <2>6, <2>7, LoadedGame, LoadedIInv
  <1>. QED  BY <1>2, <1>3 DEF ServeTask, Save

LEMMA TickIInv ==
    ASSUME IInv, Tick
    PROVE  IInv'
  <1>1. /\ Sched!Step /\ UNCHANGED <<accounts, game, loaded, stored, daide>>
        /\ elapsed' = IF elapsed < Deadline THEN elapsed + 1 ELSE elapsed
        /\ elapsed \in 0..Deadline /\ accounts \subseteq Users
    BY DEF Tick, IInv, TypeOK
  <1>2. elapsed' \in 0..Deadline
    BY <1>1, NumbersAssumption
  <1>3. Sched!IInv' /\ TimerIsHonest' /\ (Scheduled' <=> Scheduled)
    BY <1>1, ClockStep DEF IInv
  <1>. QED  BY <1>1, <1>2, <1>3, SameGameIInv

LEMMA StutterIInv ==
    ASSUME IInv, UNCHANGED vars
    PROVE  IInv'
  <1>1. /\ KeepSchedule /\ UNCHANGED <<accounts, game, loaded, stored, daide>>
        /\ elapsed' = elapsed /\ elapsed \in 0..Deadline /\ accounts \subseteq Users
    BY DEF vars, KeepSchedule, sched, IInv, TypeOK
  <1>2. Sched!IInv' /\ TimerIsHonest' /\ (Scheduled' <=> Scheduled)
    BY <1>1, KeepScheduleStep DEF IInv
  <1>. QED  BY <1>1, <1>2, SameGameIInv

LEMMA NextIInv == IInv /\ [Next]_vars => IInv'
  <1>. SUFFICES ASSUME IInv, [Next]_vars PROVE IInv'
    OBVIOUS
  <1>1. CASE Handlers /\ Clock
    BY <1>1, CreateGameIInv, JoinGameIInv, JoinPowersIInv, LeaveGameIInv, SetDummyPowersIInv,
       SetOrdersIInv, SetWaitFlagIInv, ClearOrdersOfIInv, CastVoteIInv, ProcessGameIInv,
       SetGameStatusIInv, DeleteGameIInv, DeleteAccountIInv, CreateAccountIInv, RestartIInv,
       LoadGameIInv, ServeTaskIInv DEF Handlers
  <1>2. CASE Tick
    BY <1>2, TickIInv
  <1>3. CASE UNCHANGED vars
    BY <1>3, StutterIInv
  <1>. QED  BY <1>1, <1>2, <1>3 DEF Next

LEMMA SpecIInv == Spec => []IInv
  BY InitIInv, NextIInv, PTL DEF Spec

-----------------------------------------------------------------------------
(* Two properties of steps. *)

\* Starting and stopping a game change nothing but its status, and only that of
\* a game that is forming or active.
LEMMA StartStopFrame ==
    ASSUME NEW c \in Game, StartIfPossible(c) \/ StopIfNeeded(c)
    PROVE  game'.phase = c.phase /\ (~NotFinished(c) => game'.status = c.status)
  BY DEF StartIfPossible, StopIfNeeded, GameCanStart, NotFinished, Game

\* A step of an action that does not process the game keeps its phase; if the
\* game is finished the step keeps its status too.
LEMMA ReleaseFrame ==
    ASSUME IInv, loaded, NEW S \in SUBSET Powers, StopIfNeeded(Release(game, S))
    PROVE  game'.phase = game.phase /\ (~NotFinished(game) => game'.status = game.status)
  <1>1. game \in Game
    BY LoadedGame DEF Sound
  <1>2. /\ Release(game, S) \in Game
        /\ Release(game, S).phase = game.phase /\ Release(game, S).status = game.status
    BY <1>1, ReleaseLemma
  <1>. QED  BY <1>2, StartStopFrame DEF NotFinished

LEMMA ControlFrame ==
    ASSUME IInv, loaded, NEW u \in Users, NEW S \in SUBSET Powers,
           StartIfPossible(Control(game, u, S))
    PROVE  game'.phase = game.phase
  <1>1. game \in Game
    BY LoadedGame DEF Sound
  <1>2. Control(game, u, S) \in Game /\ Control(game, u, S).phase = game.phase
    BY <1>1, ControlLemma
  <1>. QED  BY <1>2, StartStopFrame

LEMMA FinishedIsFinalStep ==
    ASSUME IInv, Next, game # None, ~NotFinished(game)
    PROVE  game'.status = game.status
  <1>1. ~Scheduled
    BY DEF IInv, Presence
  <1>2. CASE \E p \in Powers : LeaveGame(p)
    BY <1>2, ReleaseFrame DEF LeaveGame, Arrives
  <1>3. CASE DeleteGame
    BY <1>3 DEF DeleteGame
  <1>4. ASSUME NEW u \in Users, DeleteAccount(u) PROVE game'.status = game.status
    <2>1. Owned(game, {u}) \in SUBSET Powers
      BY DEF Owned
    <2>. QED  BY <1>4, <2>1, ReleaseFrame DEF DeleteAccount
  <1>5. CASE Restart
    BY <1>5 DEF Restart, IInv, Presence, CopyIsCurrent
  <1>6. CASE LoadGame
    <2>. DEFINE g == Release(stored, Owned(stored, Users \ accounts))
    <2>1. ~loaded /\ stored # None /\ (game' = g \/ game' \in Results(g))
      BY <1>6 DEF LoadGame
    <2>2. game = stored /\ Sound(g) /\ g.status = stored.status
      BY <2>1, LoadedPowers DEF IInv, Presence
    <2>. HIDE DEF g
    <2>. QED  BY <2>1, <2>2, ResultsLemma DEF NotFinished
  <1>7. CASE ServeTask
    <2>1. game' = game \/ game' \in Results(game)
      BY <1>7 DEF ServeTask
    <2>2. Sound(game)
      BY DEF IInv, GamesAreSound
    <2>. QED  BY <2>1, <2>2, ResultsLemma DEF NotFinished
  <1>8. CASE Tick \/ \E u \in Users : CreateAccount(u)
    BY <1>8 DEF Tick, CreateAccount
  <1>9. CASE \E u \in Users, S \in SUBSET Powers : CreateGame(u, S)
    BY <1>9 DEF CreateGame
  <1>10. ~(\/ \E u \in Users, p \in Powers : JoinGame(u, p)
           \/ \E u \in Users, S \in SUBSET Powers : JoinPowers(u, S)
           \/ \E S \in SUBSET Powers : SetDummyPowers(S) \/ ClearOrdersOf(S)
           \/ \E p \in Powers : SetOrders(p)
           \/ \E p \in Powers, b \in BOOLEAN : SetWaitFlag(p, b) \/ CastVote(p, b)
           \/ ProcessGame
           \/ \E status \in Statuses : SetGameStatus(status))
    BY DEF JoinGame, JoinPowers, SetDummyPowers, ClearOrdersOf, SetOrders, SetWaitFlag, CastVote,
           ProcessGame, SetGameStatus
  <1>11. \A p \in Powers : {p} \in SUBSET Powers
    OBVIOUS
  <1>. QED  BY <1>2, <1>3, <1>4, <1>5, <1>6, <1>7, <1>8, <1>9, <1>10, <1>11 DEF Next, Handlers

LEMMA EarlyOnlyIfReadyStep ==
    ASSUME IInv, Next, game # None, game'.phase # game.phase
    PROVE  DoesNotWait(game) \/ elapsed = Deadline
  <1>1. game \in Game
    BY DEF IInv, TypeOK
  <1>2. ASSUME NEW u \in Users, NEW p \in Powers, JoinGame(u, p) PROVE FALSE
    <2>1. loaded /\ {p} \in SUBSET Powers /\ StartIfPossible(Control(game, u, {p}))
      BY <1>2 DEF JoinGame, Arrives
    <2>. QED  BY <2>1, ControlFrame
  <1>3. ASSUME NEW u \in Users, NEW S \in SUBSET Powers, JoinPowers(u, S) PROVE FALSE
    <2>. DEFINE dummies == {p \in S : game.ctrl[p] = Dummy}
    <2>1. loaded /\ dummies \in SUBSET Powers /\ StartIfPossible(Control(game, u, dummies))
      BY <1>3 DEF JoinPowers, Arrives
    <2>. HIDE DEF dummies
    <2>. QED  BY <2>1, ControlFrame
  <1>4. ASSUME \/ \E p \in Powers : LeaveGame(p)
               \/ \E S \in SUBSET Powers : SetDummyPowers(S)
        PROVE  FALSE
    <2>1. PICK S \in SUBSET Powers : loaded /\ StopIfNeeded(Release(game, S))
      BY <1>4 DEF LeaveGame, SetDummyPowers, Arrives
    <2>. QED  BY <2>1, ReleaseFrame
  <1>5. ASSUME NEW p \in Powers, SetOrders(p) PROVE FALSE
    <2>. DEFINE g == [game EXCEPT !.ordered = @ \cup {p}]
    <2>1. game' = g \/ \E wait \in BOOLEAN : game' = SetWait(g, p, wait)
      BY <1>5 DEF SetOrders, ForceIfReady
    <2>2. g \in Game /\ g.phase = game.phase
      BY <1>1 DEF Game
    <2>. HIDE DEF g
    <2>. QED  BY <2>1, <2>2, SetWaitLemma
  <1>6. ASSUME NEW p \in Powers, NEW wait \in BOOLEAN, SetWaitFlag(p, wait) PROVE FALSE
    BY <1>1, <1>6, SetWaitLemma DEF SetWaitFlag, ForceIfReady
  <1>7. ASSUME NEW S \in SUBSET Powers, ClearOrdersOf(S) PROVE FALSE
    BY <1>1, <1>7, ClearOrdersLemma DEF ClearOrdersOf
  <1>8. ASSUME NEW p \in Powers, NEW yes \in BOOLEAN, CastVote(p, yes) PROVE FALSE
    <2>. DEFINE vote == IF yes THEN [by |-> game.ctrl[p], at |-> game.phase] ELSE None
                g == [game EXCEPT !.votes[p] = vote]
    <2>1. game' = Finished(g) \/ game' = g
      BY <1>8 DEF CastVote
    <2>2. vote \in Vote \cup {None}
      BY <1>1 DEF Vote, Game
    <2>. HIDE DEF vote
    <2>3. g \in Game /\ g.phase = game.phase
      BY <1>1, <2>2 DEF Game
    <2>. HIDE DEF g
    <2>. QED  BY <2>1, <2>3, FinishedLemma
  <1>9. ASSUME \/ ProcessGame \/ DeleteGame
               \/ \E status \in Statuses : SetGameStatus(status)
        PROVE  FALSE
    <2>1. CASE ProcessGame \/ DeleteGame
      BY <1>1, <2>1 DEF ProcessGame, DeleteGame, Game
    <2>2. ASSUME NEW status \in Statuses, SetGameStatus(status) PROVE FALSE
      <3>1. game' = Finished(game) \/ game' = [game EXCEPT !.status = status]
        BY <2>2 DEF SetGameStatus
      <3>. QED  BY <1>1, <3>1, FinishedLemma DEF Game
    <2>. QED  BY <1>9, <2>1, <2>2
  <1>10. ASSUME NEW u \in Users, DeleteAccount(u) PROVE FALSE
    <2>1. Owned(game, {u}) \in SUBSET Powers
      BY DEF Owned
    <2>. QED  BY <1>10, <2>1, ReleaseFrame DEF DeleteAccount
  <1>11. ASSUME Restart PROVE FALSE
    BY <1>11 DEF Restart, IInv, Presence, CopyIsCurrent
  <1>12. ASSUME LoadGame PROVE DoesNotWait(game)
    <2>. DEFINE g == Release(stored, Owned(stored, Users \ accounts))
    <2>1. ~loaded /\ stored # None /\ (game' = g \/ DoesNotWait(g))
      BY <1>12 DEF LoadGame
    <2>2. game = stored /\ g.phase = stored.phase /\ (DoesNotWait(g) => DoesNotWait(stored))
      BY <2>1, LoadedPowers DEF IInv, Presence
    <2>. HIDE DEF g
    <2>. QED  BY <2>1, <2>2
  <1>13. ASSUME ServeTask PROVE DoesNotWait(game) \/ elapsed = Deadline
    <2>1. DoesNotWait(game) \in BOOLEAN
      BY DEF DoesNotWait
    <2>2. \E o : Sched!RunTask(DoesNotWait(game), o)
      BY <1>13 DEF ServeTask
    <2>. QED  BY <2>1, <2>2, RunTaskStep DEF IInv
  <1>14. ASSUME \/ Tick \/ \E u \in Users : CreateAccount(u)
                \/ \E u \in Users, S \in SUBSET Powers : CreateGame(u, S)
         PROVE  FALSE
    BY <1>14 DEF Tick, CreateAccount, CreateGame
  <1>15. \A p \in Powers : {p} \in SUBSET Powers
    OBVIOUS
  <1>. QED  BY <1>2, <1>3, <1>4, <1>5, <1>6, <1>7, <1>8, <1>9, <1>10, <1>11, <1>12, <1>13, <1>14,
               <1>15 DEF Next, Handlers

-----------------------------------------------------------------------------
(* The theorems. *)

\* The server's variables always hold what the code stores in them.
THEOREM TypeCorrect == Spec => []TypeOK
  <1>1. IInv => TypeOK
    BY DEF IInv
  <1>. QED  BY <1>1, SpecIInv, PTL

\* A game that is finished or not in memory is never scheduled.
THEOREM FinishedIsReleased == Spec => []FinishedIsUnscheduled
  <1>1. IInv => FinishedIsUnscheduled
    BY DEF IInv, Presence, FinishedIsUnscheduled
  <1>. QED  BY <1>1, SpecIInv, PTL

\* If the server is not restarted, an active game is scheduled as long as it has
\* a deadline, and a finished one is not.
THEOREM ScheduleIsRight ==
    ASSUME ServerStaysUp
    PROVE  Spec => []ScheduleFollowsStatus
  <1>1. IInv => ScheduleFollowsStatus
    BY DEF IInv, Presence, ActiveIsKnown, ScheduleFollowsStatus, ActiveIsScheduled,
           FinishedIsUnscheduled
  <1>. QED  BY <1>1, SpecIInv, PTL

\* No phase is cut short, whatever requests come and in whatever order.
THEOREM NoPhaseIsCutShort == Spec => EarlyOnlyIfReady
  <1>1. IInv /\ [Next]_vars =>
          [game # None /\ game'.phase # game.phase => DoesNotWait(game) \/ elapsed = Deadline]_vars
    BY EarlyOnlyIfReadyStep
  <1>. QED  BY <1>1, SpecIInv, PTL DEF Spec, EarlyOnlyIfReady

\* A game that was completed or canceled stays so, after a restart too.
THEOREM EndIsFinal == Spec => FinishedIsFinal
  <1>1. IInv /\ [Next]_vars =>
          [game # None /\ ~NotFinished(game) => game'.status = game.status]_vars
    BY FinishedIsFinalStep
  <1>. QED  BY <1>1, SpecIInv, PTL DEF Spec, FinishedIsFinal

\* Where bots do not vote, the votes that count for a draw are those of the
\* current phase and of the users who control the powers.
THEOREM OnlyCurrentVotesCount ==
    ASSUME BotsDoNotVote
    PROVE  Spec => []VotesAreCurrent
  <1>1. IInv => VotesAreCurrent
    <2>. SUFFICES ASSUME IInv, game # None, NEW p \in Powers, game.votes[p] # None
                  PROVE  game.votes[p] = [by |-> game.ctrl[p], at |-> game.phase]
      BY DEF VotesAreCurrent
    <2>1. game \in Game /\ VotesSound(game)
      BY DEF IInv, GamesAreSound, Sound
    <2>2. game.votes[p] \in Vote
      BY <2>1 DEF Game
    <2>. QED  BY <2>1, <2>2 DEF VotesSound, Vote
  <1>. QED  BY <1>1, SpecIInv, PTL

\* Nobody without an account controls a power of a game in memory.
THEOREM ControllersHaveAccounts == Spec => []ControllersExist
  <1>1. IInv => ControllersExist
    <2>. SUFFICES ASSUME IInv, loaded PROVE Range(game.ctrl) \subseteq accounts \cup {Dummy}
      BY DEF ControllersExist
    <2>1. DOMAIN game.ctrl = Powers
      BY LoadedGame DEF Sound, Game
    <2>. QED  BY <2>1, LoadedGame DEF Range
  <1>. QED  BY <1>1, SpecIInv, PTL

\* If no account is deleted while a game is on the disk only, what is saved is
\* never behind on who controls a power.
THEOREM ControlIsAlwaysSaved ==
    ASSUME AccountsOutliveGames
    PROVE  Spec => []ControlIsSaved
  <1>1. IInv => ControlIsSaved
    BY DEF IInv, Presence, ControlIsKept, ControlIsSaved
  <1>. QED  BY <1>1, SpecIInv, PTL

\* If moreover no master forces a game, an active game has its players.
THEOREM ActiveGamesHavePlayers ==
    ASSUME AccountsOutliveGames, NobodyForces
    PROVE  Spec => []ActiveHasPlayers
  <1>1. IInv => ActiveHasPlayers
    BY LoadedGame DEF HasPlayers, ActiveHasPlayers
  <1>. QED  BY <1>1, SpecIInv, PTL
=============================================================================
