----------------------------- MODULE GameServer -----------------------------
(***************************************************************************)
(* The life of one game on the server: the request handlers that change it *)
(* (server/request_managers.py), the server's own steps (server/server.py) *)
(* and the game object they share (server_game.py, engine/game.py and      *)
(* engine/power.py), composed with the scheduler that decides when the     *)
(* game is processed.                                                      *)
(*                                                                         *)
(* The server is one event loop, and neither a handler nor the processing  *)
(* of a game suspends, so each is one action.  The hazards lie in their    *)
(* order: between the request that makes a game ready and the processing   *)
(* it asks for, any other request may be handled.                          *)
(*                                                                         *)
(* The position on the board is abstracted to what the server looks at:    *)
(* which powers are eliminated and which have something to order.  A       *)
(* request that is refused changes nothing and has no action.              *)
(***************************************************************************)
EXTENDS Integers, Sequences, FiniteSets, Functions

CONSTANTS
    Id,             \* the game, as the scheduler sees it
    Powers,         \* the powers of its map
    Users,          \* accounts of players
    Masters,        \* the users that are masters of the game
    Dummy,          \* strings.DUMMY: the controller of a power nobody controls
    Expected,       \* get_expected_controls_count()
    Deadline,       \* time units before the game is processed; 0: none
    StartMaster,    \* rule START_MASTER
    CivilDisorder,  \* rule CIVIL_DISORDER
    RealTime,       \* rule REAL_TIME
    ManyPowers,     \* rule MULTIPLE_POWERS_PER_PLAYER
    RemoveCanceled, \* the server's remove_canceled_games
    Requests,       \* the kinds of requests that arrive: subset of Kinds
    PhaseCycle,     \* phases are told apart modulo this number
    Tasks, None     \* see Scheduler

Kinds == {"join", "joinmany", "leave", "orders", "wait", "clear", "vote", "botvote",
          "forming", "active", "paused", "completed", "canceled",
          "process", "dummy", "delete", "account", "restart"}
Statuses == {"forming", "active", "paused", "completed", "canceled"}

ASSUME PowersAssumption == IsFiniteSet(Powers) /\ Masters \subseteq Users /\ Dummy \notin Users
ASSUME NumbersAssumption == Expected \in Nat /\ Deadline \in Nat /\ PhaseCycle \in Nat \ {0}
ASSUME RulesAssumption == {StartMaster, CivilDisorder, RealTime, ManyPowers, RemoveCanceled}
                            \subseteq BOOLEAN
ASSUME RequestsAssumption == Requests \subseteq Kinds

VARIABLES
    accounts,   \* the users that have an account (server.users)
    game,       \* the ServerGame, None before it is created
    loaded,     \* whether server.games holds it
    stored,     \* what backup_games or the disk holds of it, None if nothing
    daide,      \* whether a DAIDE server listens for it
    elapsed,    \* history: time units since its phase began, at most Deadline
    heap, owner, tasks, queue, alive    \* the scheduler's

sched == <<heap, owner, tasks, queue, alive>>
vars == <<accounts, game, loaded, stored, daide, elapsed, heap, owner, tasks, queue, alive>>

Sched == INSTANCE Scheduler WITH
    Data <- {Id}, Delays <- {Deadline}, Verdicts <- BOOLEAN, Outcomes <- {"done", "again"}

-----------------------------------------------------------------------------
\* The game object.  A vote other than yes is None; a yes keeps who cast it and
\* in which phase, which the code does not: the properties need it.
Vote == [by : Users \cup {Dummy}, at : 0..(PhaseCycle - 1)]
Game == [status : Statuses,
         phase : 0..(PhaseCycle - 1),
         over : BOOLEAN,                        \* phase = 'COMPLETED'
         ctrl : [Powers -> Users \cup {Dummy}], \* Power.controller.last_value()
         ordered : SUBSET Powers,               \* Power.order_is_set
         waits : SUBSET Powers,                 \* Power.wait
         votes : [Powers -> Vote \cup {None}],  \* Power.vote
         out : SUBSET Powers,                   \* eliminated
         orderable : SUBSET Powers]             \* with orderable locations

ASSUME NoneAssumption ==
    /\ None \notin Vote /\ None \notin Game
    /\ None \notin Tasks /\ None \notin [left : Int, delay : Nat]
    /\ None \notin [data : {Id}, delay : Nat, valid : BOOLEAN, immediate : BOOLEAN]

NoVotes == [p \in Powers |-> None]
Controlled(g) == {p \in Powers : g.ctrl[p] # Dummy}
HasExpectedControls(g) == Cardinality(Controlled(g)) = Expected
LacksControls(g) == Cardinality(Controlled(g)) < Expected
DoesNotWait(g) == Powers \ g.out \subseteq g.ordered \ g.waits
HasDrawVote(g) == \A p \in Powers \ g.out : g.votes[p] # None
GameCanStart(g) == g.status = "forming" /\ ~StartMaster /\ HasExpectedControls(g)
NotFinished(g) == g.status \notin {"completed", "canceled"}

\* A slip the checks must catch: the vote survives its author.
ReleaseKeepingVotes(g, S) ==
    [g EXCEPT !.ctrl = [p \in Powers |-> IF p \in S THEN Dummy ELSE @[p]], !.waits = @ \cup S]

\* Power.set_controlled(None), for each power of S.
Release(g, S) ==
    LET left == S \cap Controlled(g) IN
    [g EXCEPT !.ctrl = [p \in Powers |-> IF p \in left THEN Dummy ELSE @[p]],
              !.waits = @ \cup left,
              !.votes = [p \in Powers |-> IF p \in left THEN None ELSE @[p]]]

\* Power.set_controlled(u), for each power of S: they are dummy, or u's already.
Control(g, u, S) ==
    LET new == S \ Controlled(g) IN
    [g EXCEPT !.ctrl = [p \in Powers |-> IF p \in new THEN u ELSE @[p]],
              !.waits = IF RealTime THEN @ \ new ELSE @ \cup new]

\* Power.clear_orders, for each power of S.
ClearOrders(g, S) ==
    [g EXCEPT !.ordered = (@ \ S) \cup (S \cap g.out),
              !.waits = (@ \ S) \cup {p \in S \ g.out : g.ctrl[p] = Dummy \/ ~RealTime}]

\* Game.draw, and a processing that ends in a victory: _finish, then the votes
\* and the orders are cleared.
Finished(g) ==
    ClearOrders([g EXCEPT !.status = "completed", !.over = TRUE, !.votes = NoVotes,
                          !.orderable = {}], Powers)

\* A processing that reaches the next phase: the powers gone are eliminated,
\* those of act have something to order in it, and the others need not be
\* waited for.
NextPhase(g, gone, act) ==
    LET h == ClearOrders([g EXCEPT !.phase = (@ + 1) % PhaseCycle, !.votes = NoVotes,
                                   !.out = @ \cup gone, !.orderable = act], Powers)
    IN  [h EXCEPT !.ordered = @ \cup (Powers \ act), !.waits = @ \cap act]

\* Game.process.  What it does to a game whose phase is COMPLETED already is
\* abstracted: the phase stays, the status is left or set to completed again.
Processed(g) ==
    IF g.over THEN {Finished(g), [Finished(g) EXCEPT !.status = g.status]}
    ELSE {Finished(g)} \cup
         UNION {{NextPhase(g, gone, act) : act \in SUBSET (Powers \ (g.out \cup gone)) \ {{}}} :
                   gone \in SUBSET (Powers \ g.out)}

\* ServerGame.process: the results it may have.
Kickable(g) ==
    {p \in g.orderable : p \in Controlled(g) /\ p \notin g.ordered /\ ~CivilDisorder}

\* A slip the checks must catch: the kicks do not stop the game.
ResultsKickedAndActive(g) ==
    IF g.status # "active" THEN {g}
    ELSE IF Kickable(g) # {} THEN {Release(g, Kickable(g))}
    ELSE Processed(g)

Results(g) ==
    IF g.status # "active" THEN {g}
    ELSE IF Kickable(g) # {}
         THEN {[Release(g, Kickable(g)) EXCEPT !.status = "forming"]}
    ELSE {IF LacksControls(h) THEN [h EXCEPT !.status = "forming"] ELSE h : h \in Processed(g)}

-----------------------------------------------------------------------------
\* The server's helpers.  Each determines sched'.
Scheduled == Sched!HasData(Id)
KeepSchedule == UNCHANGED sched
ScheduleGame == IF ~Scheduled /\ Deadline > 0 THEN Sched!AddData(Id, Deadline) ELSE KeepSchedule

\* Two slips the checks must catch: unscheduling forgets the queue; a forced
\* processing forgets the deadline of the next phase.
UnscheduleWaiting == IF heap[Id] # None THEN Sched!RemoveFromHeap(Id) ELSE KeepSchedule
ForceWithoutDeadline == Sched!NoWait(Id, 0)

UnscheduleGame == IF Scheduled THEN Sched!RemoveData(Id) ELSE KeepSchedule
ForceGameProcessing == Sched!NoWait(Id, Deadline)

\* A slip the checks must catch: a game is stopped whatever its status.
StopAnyStatus(g) ==
    IF LacksControls(g) THEN game' = [g EXCEPT !.status = "forming"] /\ UnscheduleGame
    ELSE game' = g /\ KeepSchedule

\* start_game if it can start; stop_game_if_needed.  Both determine game'.
StartIfPossible(g) ==
    IF GameCanStart(g) THEN game' = [g EXCEPT !.status = "active"] /\ ScheduleGame
    ELSE game' = g /\ KeepSchedule
StopIfNeeded(g) ==
    IF g.status = "active" /\ LacksControls(g)
    THEN game' = [g EXCEPT !.status = "forming"] /\ UnscheduleGame
    ELSE game' = g /\ KeepSchedule

\* A slip the checks must catch: the game is saved before it changes.
SaveBefore == stored' = game
Save == stored' = game'
Arrives(kind) == kind \in Requests /\ loaded

Init ==
    /\ accounts = Users
    /\ game = None /\ stored = None
    /\ loaded = FALSE /\ daide = FALSE
    /\ elapsed = 0
    /\ Sched!Init

\* on_create_game, by a user who takes one power or none.
NewGame ==
    [status |-> "forming", phase |-> 0, over |-> FALSE, ctrl |-> [p \in Powers |-> Dummy],
     ordered |-> {}, waits |-> Powers, votes |-> NoVotes, out |-> {}, orderable |-> Powers]

CreateGame(u, S) ==
    /\ game = None /\ u \in accounts /\ Cardinality(S) <= 1
    /\ Expected = 0 => S = {}
    /\ loaded' = TRUE /\ daide' = TRUE
    /\ StartIfPossible(Control(NewGame, u, S))
    /\ Save
    /\ UNCHANGED accounts

\* on_join_game, for a power the user does not control yet.  Without the rule
\* POWER_CHOICE p is any dummy power, whatever the user asked for.
JoinGame(u, p) ==
    /\ Arrives("join") /\ u \in accounts
    /\ NotFinished(game)
    /\ game.ctrl[p] = Dummy /\ p \notin game.out
    /\ HasExpectedControls(game) => u \in Masters
    /\ ManyPowers \/ u \notin Range(game.ctrl)
    /\ StartIfPossible(Control(game, u, {p}))
    /\ Save
    /\ UNCHANGED <<accounts, loaded, daide>>

\* on_join_powers: every power of S is dummy or the user's.
JoinPowers(u, S) ==
    LET dummies == {p \in S : game.ctrl[p] = Dummy} IN
    /\ Arrives("joinmany") /\ u \in accounts
    /\ NotFinished(game)
    /\ dummies # {} /\ \A p \in S \ dummies : game.ctrl[p] = u
    /\ u \in Masters \/ (~HasExpectedControls(game) /\ (dummies = S \/ ManyPowers))
    /\ StartIfPossible(Control(game, u, dummies))
    /\ Save
    /\ UNCHANGED <<accounts, loaded, daide>>

\* on_leave_game, by the controller of p.
LeaveGame(p) ==
    /\ Arrives("leave")
    /\ game.ctrl[p] # Dummy
    /\ StopIfNeeded(Release(game, {p}))
    /\ Save
    /\ UNCHANGED <<accounts, loaded, daide>>

\* on_set_dummy_powers: a master releases the powers of S.
SetDummyPowers(S) ==
    /\ Arrives("dummy")
    /\ NotFinished(game)
    /\ S \cap Controlled(game) # {}
    /\ StopIfNeeded(Release(game, S))
    /\ Save
    /\ UNCHANGED <<accounts, loaded, daide>>

\* The end of on_set_orders and on_set_wait_flag, g being the changed game.
ForceIfReady(g) ==
    /\ game' = g
    /\ IF DoesNotWait(g) THEN ForceGameProcessing ELSE KeepSchedule
    /\ Save
    /\ UNCHANGED <<accounts, loaded, daide>>

\* on_set_orders for the current phase; wait is None if the request has no flag.
SetWait(g, p, wait) ==
    CASE wait = TRUE  -> [g EXCEPT !.waits = @ \cup {p}]
      [] wait = FALSE -> [g EXCEPT !.waits = @ \ {p}]

SetOrders(p) ==
    /\ Arrives("orders")
    /\ NotFinished(game)
    /\ LET g == [game EXCEPT !.ordered = @ \cup {p}] IN
       \/ ForceIfReady(g)
       \/ \E wait \in BOOLEAN : ForceIfReady(SetWait(g, p, wait))

\* on_set_wait_flag: the request does not name a phase.
SetWaitFlag(p, wait) ==
    /\ Arrives("wait")
    /\ NotFinished(game)
    /\ ForceIfReady(SetWait(game, p, wait))

\* on_clear_orders, of one power or of all.  The game is not saved.
ClearOrdersOf(S) ==
    /\ Arrives("clear")
    /\ NotFinished(game)
    /\ game' = ClearOrders(game, S)
    /\ UNCHANGED <<accounts, loaded, stored, daide>> /\ KeepSchedule

\* on_vote, by the controller of p, or by the bot that plays a dummy power.
CastVote(p, yes) ==
    LET g == [game EXCEPT !.votes[p] =
                 IF yes THEN [by |-> game.ctrl[p], at |-> game.phase] ELSE None]
    IN
    /\ loaded /\ Arrives(IF game.ctrl[p] = Dummy THEN "botvote" ELSE "vote")
    /\ NotFinished(game)
    /\ p \notin game.out
    /\ IF HasDrawVote(g) THEN game' = Finished(g) /\ UnscheduleGame
       ELSE game' = g /\ KeepSchedule
    /\ Save
    /\ UNCHANGED <<accounts, loaded, daide>>

\* on_process_game: every power is made ready.  The game is not saved.
ProcessGame ==
    /\ Arrives("process")
    /\ NotFinished(game)
    /\ game' = [game EXCEPT !.ordered = Powers, !.waits = {},
                            !.status = IF @ = "forming" THEN "active" ELSE @]
    /\ ForceGameProcessing
    /\ UNCHANGED <<accounts, loaded, stored, daide>>

\* on_set_game_status.  A canceled game that remove_canceled_games deletes is
\* saved again by the last line of the handler.
SetGameStatus(status) ==
    LET removed == status = "canceled" /\ RemoveCanceled IN
    /\ Arrives(status)
    /\ game.status # status /\ NotFinished(game)
    /\ game' = IF status = "completed" THEN Finished(game) ELSE [game EXCEPT !.status = status]
    /\ CASE status \in {"completed", "paused", "canceled"} -> UnscheduleGame
         [] status = "active"  -> ScheduleGame
         [] status = "forming" -> KeepSchedule
    /\ loaded' = (loaded /\ ~removed)
    /\ daide' = (daide /\ ~removed)
    /\ Save
    /\ UNCHANGED accounts

\* on_delete_game.
DeleteGame ==
    /\ Arrives("delete")
    /\ game' = IF NotFinished(game) THEN [game EXCEPT !.status = "canceled"] ELSE game
    /\ loaded' = FALSE /\ daide' = FALSE /\ stored' = None
    /\ UnscheduleGame
    /\ UNCHANGED accounts

\* The powers of g whose controller is in gone.  A slip the checks must catch:
\* the filter finds none.
OwnedByNobody(g, gone) == {}
Owned(g, gone) == {p \in Powers : g.ctrl[p] \in gone}

\* on_delete_account, of an account that is signed in somewhere (else the handler
\* fails half way, see Sessions), and on_sign_in that creates it again.
DeleteAccount(u) ==
    /\ "account" \in Requests /\ u \in accounts
    /\ accounts' = accounts \ {u}
    /\ IF ~loaded THEN UNCHANGED <<game, stored>> /\ KeepSchedule
       ELSE /\ IF Owned(game, {u}) = {} THEN UNCHANGED game /\ KeepSchedule
               ELSE StopIfNeeded(Release(game, Owned(game, {u})))
            /\ Save
    /\ UNCHANGED <<loaded, daide>>

CreateAccount(u) ==
    /\ "account" \in Requests /\ u \notin accounts
    /\ accounts' = accounts \cup {u}
    /\ UNCHANGED <<game, loaded, stored, daide>> /\ KeepSchedule

\* The server stops in good order, which writes what was saved, and starts
\* again: it loads no game before a request names one.
Restart ==
    /\ "restart" \in Requests /\ stored # None
    /\ game' = stored
    /\ loaded' = FALSE /\ daide' = FALSE
    /\ heap' = [d \in {Id} |-> None] /\ owner' = [d \in {Id} |-> None]
    /\ tasks' = [t \in Tasks |-> None] /\ queue' = <<>> /\ alive' = TRUE
    /\ UNCHANGED <<accounts, stored>>

\* get_game, for a game that is not in memory.
LoadGame ==
    /\ ~loaded /\ stored # None
    /\ loaded' = TRUE /\ daide' = TRUE
    /\ LET g == Release(stored, Owned(stored, Users \ accounts))
           starts == ~StartMaster /\ HasExpectedControls(g)
       IN IF starts /\ DoesNotWait(g)
          THEN \E h \in Results(g) :
                 /\ game' = h /\ Save
                 /\ IF h.status = "active" THEN ScheduleGame ELSE KeepSchedule
          ELSE /\ game' = g
               /\ IF starts /\ g.status = "active" THEN ScheduleGame ELSE KeepSchedule
               /\ UNCHANGED stored
    /\ UNCHANGED accounts

\* One turn of process_tasks, whose callback is _process_game.
ServeTask ==
    /\ Sched!Turn
    /\ \/ Sched!SkipTask /\ UNCHANGED <<game, stored, daide>>
       \/ Sched!DropTask(DoesNotWait(game)) /\ UNCHANGED <<game, stored, daide>>
       \/ \E g \in Results(game) :
            /\ Sched!RunTask(DoesNotWait(game), IF g.status = "active" THEN "again" ELSE "done")
            /\ game' = g /\ Save
            /\ daide' = (daide /\ ~(game.status = "active" /\ g.over))
    /\ UNCHANGED <<accounts, loaded>>

\* One time unit passes.
Tick ==
    /\ Sched!Step
    /\ elapsed' = IF elapsed < Deadline THEN elapsed + 1 ELSE elapsed
    /\ UNCHANGED <<accounts, game, loaded, stored, daide>>

\* What every other step does to the history variable.
PhaseEnds == game # None /\ (game'.phase # game.phase \/ game'.over # game.over)
Clock == elapsed' = IF PhaseEnds THEN 0 ELSE elapsed

Handlers ==
    \/ \E u \in Users, S \in SUBSET Powers : CreateGame(u, S)
    \/ \E u \in Users, p \in Powers : JoinGame(u, p)
    \/ \E u \in Users, S \in SUBSET Powers : JoinPowers(u, S)
    \/ \E p \in Powers : LeaveGame(p)
    \/ \E S \in SUBSET Powers : SetDummyPowers(S)
    \/ \E p \in Powers : SetOrders(p)
    \/ \E p \in Powers, wait \in BOOLEAN : SetWaitFlag(p, wait)
    \/ \E p \in Powers : ClearOrdersOf({p})
    \/ ClearOrdersOf(Powers)
    \/ \E p \in Powers, yes \in BOOLEAN : CastVote(p, yes)
    \/ ProcessGame
    \/ \E status \in Statuses : SetGameStatus(status)
    \/ DeleteGame
    \/ \E u \in Users : DeleteAccount(u) \/ CreateAccount(u)
    \/ Restart
    \/ LoadGame
    \/ ServeTask

Next ==
    \/ Handlers /\ Clock
    \/ Tick

Spec == Init /\ [][Next]_vars

\* The event loop keeps running process_tasks and the scheduler's clock, see
\* Scheduler.  No client has to send anything.
FairSpec == Spec /\ SF_vars(Tick) /\ WF_vars(ServeTask /\ Clock)
-----------------------------------------------------------------------------
\* The server's variables hold what the code stores in them.
TypeOK ==
    /\ accounts \subseteq Users
    /\ game \in Game \cup {None} /\ stored \in Game \cup {None}
    /\ loaded \in BOOLEAN /\ daide \in BOOLEAN
    /\ elapsed \in 0..Deadline
    /\ Sched!TypeOK

\* A phase ends before its deadline only if no power is waited for, or in a
\* draw: timers, forced processings, pauses, restarts and reloads never cut the
\* players short, however they interleave.
EarlyOnlyIfReady ==
    [][game # None /\ game'.phase # game.phase => DoesNotWait(game) \/ elapsed = Deadline]_vars

\* An active game with a deadline is in the scheduler, so it is processed at
\* its deadline at the latest.  (As long as the server stays up: an active game
\* that lacks players, or waits for its master, is loaded and not scheduled.)
ActiveIsScheduled == loaded /\ Deadline > 0 /\ game.status = "active" => Scheduled

\* A game that is finished or no longer in memory is in the scheduler no more,
\* so its object is released and is not processed after its end.
FinishedIsUnscheduled == game # None /\ (~loaded \/ ~NotFinished(game)) => ~Scheduled

\* The schedule follows the status of the game, both ways, though a dozen
\* handlers change the one and the other separately.
ScheduleFollowsStatus == ActiveIsScheduled /\ FinishedIsUnscheduled

\* Nothing brings a game that was completed or canceled back: no late task, no
\* player who leaves or joins, no restart.
FinishedIsFinal ==
    [][game # None /\ ~NotFinished(game) => game'.status = game.status]_vars

\* A yes that counts for a draw was cast in the current phase, by the user who
\* controls the power now: it outlives neither the phase nor its author.  (Where
\* bots do not vote: the yes of a bot outlives the dummy power it was given for.)
VotesAreCurrent ==
    game # None => \A p \in Powers : game.votes[p] # None =>
        game.votes[p] = [by |-> game.ctrl[p], at |-> game.phase]

\* What the disk gets is never behind on who controls a power: a restart gives
\* no power back to a user who left it or was kicked.  (But get_game does not
\* save what it releases of accounts deleted while the game was on disk.)
ControlIsSaved == loaded => stored # None /\ stored.ctrl = game.ctrl

\* An active game has the players it needs, unless a master forced it: whoever
\* leaves, is released, is kicked or deletes the account, the game stops.  (But
\* get_game does not stop one whose players it releases.)
ActiveHasPlayers == loaded /\ game.status = "active" => ~LacksControls(game)

\* Nobody controls a power of a game in memory without having an account, even
\* if the account was deleted while the game was on disk only.
ControllersExist == loaded => Range(game.ctrl) \subseteq accounts \cup {Dummy}

\* A scheduled active game leaves its phase or stops being active, unless the
\* scheduler dropped its task: then it is scheduled in name only.
Stranded == owner[Id] # None /\ owner[Id] \notin Range(queue)
Awaits(n) == loaded /\ game.status = "active" /\ game.phase = n /\ Scheduled
GameMovesOn ==
    \A n \in 0..(PhaseCycle - 1) : Awaits(n) ~> ~Awaits(n) \/ Stranded \/ game.over

-----------------------------------------------------------------------------
\* What the documentation says of the program.  It does not hold (README).

\* ServerGame.game_can_start: a game starts only if it "has not yet started";
\* so one whose phase is COMPLETED is not active.
StartsOnlyOnce == game # None /\ game.over => game.status # "active"
=============================================================================
