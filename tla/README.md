# Verification of the diplomacy game server and engine

TLA+ models, model-checking runs and machine-checked proofs for the Python
implementation under `src/diplomacy`.  The models are translated from the code;
`PROJECT.json` maps every definition to the lines it stands for.

## 1. The system

A *server* (`diplomacy/server`) holds Diplomacy games and talks to *clients*
(`diplomacy/client`) over websockets: requests and responses one way,
notifications the other.  The *engine* (`diplomacy/engine`) holds a game's
position, validates orders, adjudicates a phase and moves to the next.  A DAIDE
gateway (`diplomacy/daide`) lets clients of another protocol play the same games.
Everything on the server runs on one Tornado event loop.

| Component | Source | State | Operations | How it interacts |
|---|---|---|---|---|
| Game scheduler | `server/scheduler.py` | heap of deadlines, FIFO of tasks, table of queued data, clock | add, force (`no_wait`), remove, step, process | called by the server; calls back `Server._process_game` |
| Server core | `server/server.py` | games in memory, pending backups, files, DAIDE servers, registry of dummy powers, users | start, load, save, delete, schedule, process, back up | called by the request managers; owns the scheduler and the notification queue |
| Request managers | `server/request_managers.py`, `request_manager_utils.py` | none of their own | one handler per request | verify token, role and phase, change the game, notify, save |
| Server game | `server/server_game.py` | controllers, tokens by role, moderators, omniscient users | control, observe, kick, process | an engine game with roles |
| Users | `server/users.py`, `user.py` | accounts, administrators, tokens, their connection and last use | sign in, connect, disconnect, expire, delete | shared by all handlers |
| Notifier | `server/notifier.py` | none | addresses each notification | fills the server's queue, emptied by one sender |
| Connection handler | `server/connection_handler.py` | one websocket, its tokens | receive, answer, close | calls the request managers |
| Client connection | `client/connection.py` | socket, requests waiting for an answer, channels | connect, send, reconnect | resends after a reconnection |
| Channel and game instances | `client/channel.py`, `game_instances_set.py` | game objects by role | join, update | updated by notifications |
| Network game and managers | `client/network_game.py`, `notification_managers.py`, `response_managers.py` | a client copy of a game | apply a notification or response | |
| Engine: game | `engine/game.py` | position, orders, histories, votes, messages, phase | set orders, process, draw, restore | |
| Engine: adjudication | `engine/game.py` | tables of the phase being resolved | strengths, cuts, paradoxes, retreats, adjustments | |
| Power, map, messages | `engine/power.py`, `map.py`, `message.py` | units, centers, orders; provinces, phase order | | |
| Communication | `communication/` | request, response and notification classes | to and from JSON | |
| DAIDE gateway | `daide/` | TCP connections, names given to programs | read and write clauses, handle 20 requests, translate notifications | makes requests of the request managers; is notified through the same queue |
| Utilities | `utils/` | sorted and priority dictionaries, parsing, export | | |

What is hard here is order: between two steps of the event loop any other
request may be handled, a timer may fire, a connection may drop.  The hazards of
each component, with the line where each bites, are in `PROJECT.json`.

What makes each component correct:

* *Scheduler*: a datum has one claim on the callback, is not processed before its
  deadline nor after it was removed, and is processed in the end.
* *Game life*: a phase ends early only if nobody is waited for; an active game is
  scheduled, a finished one never again; only current votes conclude a draw;
  control of a power is never restored to someone who lost it.
* *Store*: what was saved survives a restart; a crash between two steps of a
  save leaves a readable game.
* *Users*: the tables of tokens, users and connections agree.
* *Client*: every request gets one answer however often the connection drops;
  a client's copy of a game catches up with the server's, and what is sent again
  is not carried out twice.
* *Engine*: phases follow the map's order and skip only empty ones; adjustments
  balance units and centers; no unit is lost untold; a saved state can be put
  back; adjudication agrees with the rules, whatever the order of its loops.
* *DAIDE gateway*: what a program is told is the game, in order and whole, to the
  end; what it is thanked for is what it ordered; an order survives the language
  both ways; each power is told to the connection of its player.


## 2. Modules

| Module | Models | State and actions |
|---|---|---|
| `Scheduler` | `server/scheduler.py` | `heap`, `owner`, `tasks`, `queue`, `alive` are `data_in_heap`, `data_in_queue`, the task objects, `tasks_queue` and the life of `process_tasks`. One action for each method, one for a step of the clock, and one for a turn of `process_tasks` with the validator's verdict and the callback's outcome as inputs. |
| `SchedulerContract` | what the server relies on | A *line*: each datum is absent, waiting or called; only a datum that was called is processed. `Scheduler` implements it (`KeepsContract`, a refinement mapping). |
| `SchedulerProofs` | | Theorems about `Scheduler`, among them that it implements `SchedulerContract`. |
| `GameServer`, `MCGameServer` | `request_managers.py`, `server.py`, `server_game.py` for one game | `game` (status, controllers, orders given, wait flags, votes, eliminated powers, phase number), `stored` (the copy a restart finds), `loaded`, `accounts`, `daide`, and the scheduler's variables: `Sched == INSTANCE Scheduler`, so that a handler calls the real `AddData`, `NoWait`, `RemoveData`. One action for each request handler, one for a turn of `process_tasks` with `Server._process_game` inside, one for the clock, one for a restart and one for loading the game. |
| `GameServerProofs` | | Theorems about `GameServer`; uses those about `Scheduler`. |
| `ServerStore` | `save_json_on_disk`, `load_json_from_disk`, `backup_now`, `InterruptionHandler`, `_load` | Each object (server data, a game) is a version number in memory, among the pending copies, in its file and in its backup. Renaming, opening and filling a file are three actions; a crash or SIGINT may come between any two. |
| `ServerStoreProofs` | | Theorems about `ServerStore`. |
| `Sessions`, `MCSessions` | `users.py`, `connection_handler.py`, roles of a game, `on_set_grade` and its kin | The `Users` object as one record, with one operator for each method; the roles of one game in memory and on disk. One action for each handler, for opening and closing a connection, restarting and loading. |
| `SessionsProofs` | | Theorems about `Sessions`. |
| `GameMap` | `engine/map.py`, `utils/convoy_paths.py` | Operators over the locations, areas and adjacency lists of a map, which are constants: `Abuts`, the coasts, the checks of `validate`, the caches, convoy paths, and the order of phases. |
| `Adjudicator` | `Game._resolve_moves` and all it calls | Operators. A resolution is a record (command, result, supports, combat, convoy paths, dislodged) that each step of the method changes in the order of the code; the loops that run until nothing changes are recursive functions or folds with the code's exit conditions. |
| `AdjudicatorProofs` | | Theorems about `Adjudicator`. |
| `AdjudicationRules` | `docs/game-rules/orders` | The rules as equations between strengths and outcomes, with no algorithm in them: the reference definition of an adjudication. |
| `Orders` | `_valid_order`, `_add_coasts`, `get_all_possible_orders`, ... | Operators: which orders are accepted and listed, how they are completed. |
| `Movement`, `MCMovement` | a movement phase | `board`, `orders`, `r`. Units get orders one after the other, and the phase is resolved with those there are. Also extends `DaideMap`: the map and the orders as a program is told them. |
| `Engine`, `MCEngine` | `game.py` and `power.py` over the years of a game | `game` is the `Game` object, `saved` a state that was taken. Actions: `SetOrders`, `Process`, `Draw`, `Save`, `SetState`. `Process` calls the real `Adjudicator!Resolve`. |
| `EngineProofs` | | Theorems about `Engine`; uses the one about `Adjudicator`. |
| `Client`, `MCClient` | `client/connection.py`, `network_game.py`, the managers of responses and notifications, `server/notifier.py`, `on_synchronize`, `on_set_orders`, `on_send_game_message` | For each client a connection (both ends of it, what is on its way, its part of the server's queue of notifications), a copy of the game, and its requests in the tables of `Connection`; and the server's game. Actions for sending, writing, serving, notifying, receiving, breaking, reconnecting, and for the server to learn of a break. |
| `ClientProofs` | | Theorems about `Client`. |
| `DaideClauses` | `daide/tokens.py`, `daide/clauses.py`, `utils/splitter.py` | Operators that read a clause from tokens and write it as tokens; numbers are 14 bits wide with a sign. |
| `DaideMessages` | `daide/requests.py`, `responses.py`, `notifications.py` | Operators that read each request, and write each response and notification. |
| `DaideMap` | `MapDefinitionResponse` | The map as MDF tells it, and a reader of it. |
| `Daide`, `MCDaide` | `daide/connection_handler.py`, `messages.py`, `request_managers.py`, `notification_managers.py`, `server.py`, `utils.py` | `conn` (the TCP connections), `registry` (the variants of names and the accounts), `game`, `queue` (the notes of the server in tokens), `told` (how many notes each was sent). One action for a message that is heard, one for the sender of notes, one for the opening of a connection, one for the closing of its stream and one for the callback that follows, one for the processing of a turn. |
| `DaideProofs` | | Theorems about `Daide`. |

How the modules depend on each other: `GameServer` instantiates `Scheduler`;
`GameMap` is extended by `Adjudicator`, this one by `AdjudicationRules` and
`Orders`, and `Orders` by `Movement` and `Engine`; `DaideClauses` by
`DaideMessages`, this one by `DaideMap` (with `GameMap`) and `Daide`.

How a model relates to the code:

* *Atomicity.*  All server code runs on one event loop, and no handler modelled
  suspends between reading and writing: what `yield`s in it are notifications,
  which are futures nobody waits for.  So a handler is one action.  The methods
  of the scheduler hold its lock and suspend only to take it.  Writing a file is
  different: the process can die in it, so it is split.  On the client a request
  is written in two steps, for the write may fail after it was begun.
* *Inputs.*  A request arrives in any state.  `GameServer!Requests` names the
  kinds of requests a run makes, `Engine!Offers` the orders a power may try,
  `Daide!Frames` the messages a connection may send; the modules have them all.
* *Data.*  The outcome of an adjudication (who is eliminated, whether the game
  is won) is a choice in `GameServer`; it is computed in `Engine`.  The course of
  the game is a constant of `Daide` (`Story`): its situations, the orders that
  lead from one to the next and the results that are told.  An order is a record,
  in the gateway the sequence of its words; a name or a text is a model value.
* *Lists.*  `Power.units` and the dictionaries made from it are sets in `Engine`.
  `Movement` keeps the order of the code's loops as an input and shows that the
  outcome does not depend on it (`OrderIndependent`).  The Zobrist hash is the set of
  the keys xored so far, so that xoring a key twice takes it out.
* *Time.*  The scheduler counts units down; a deadline is the number that is
  left.  `elapsed` in `GameServer` counts the units since the phase began, up
  to the deadline.  `Sessions` has no clock: a token may be too old whenever it
  is used.  `Client` has the server's clock as the order of messages and phases.
* *Errors.*  An exception that leaves the state alone is an action that is not
  enabled.  One that leaves half of the work done is modelled: `SkipTask` and
  `FailTask` in `Scheduler`, an account deleted without its tokens and a role
  transfer cut short in `Sessions`, a connection that is registered and no longer
  read (`deaf`) in `Daide`, a receive loop that ended (`alive`) in `Client`.

The operators of the engine and of the language of the gateway were compared with
the running Python code while they were written: the engine step by step on some
40,000 random steps of random games, the readers of requests on 24,000 messages,
and the writers on 5,800 responses and notifications.  That is no part of the
runs; it is why the models say what the code does where its comments do not.

The modules also hold *slips*: definitions a plausible bug would put in place of
another (a dropped guard, a forgotten table).  They are used by no
specification; each is there to show that some property notices it
(`mutants` in `PROJECT.json`).

## 3. Runs

| Run | Question | Bounds |
|---|---|---|
| `scheduler` | Does every datum keep one claim on the callback, never overdue, and is it served in the end, whatever callers, validators and callbacks do?  Does the scheduler implement its contract? | 2 data, 3 task objects, delays 0 and 2 |
| `game_schedule` | Is an active game always scheduled, a finished one never, and no phase cut short? | 2 players and powers, deadline of 2 units, phases counted modulo 2 |
| `game_votes` | Do only current votes count?  Is control always saved?  Has an active game its players?  Does a finished game stay finished? | 2 users, one a master, 2 powers, phases modulo 3 |
| `game_live` | Does a scheduled game leave its phase?  Has every controller an account, after restarts too? | 1 user, 2 powers, deadline of 1 unit |
| `store` | Is what is read the last version written?  Is some copy whole at every moment?  Does an orderly stop save all, and is all that is saved written? | server data and one game, 3 versions each |
| `sessions` | Do the tables of users, tokens and connections agree?  Does a game address only live tokens of the right users?  Does a change of grade reach every observer? | 2 users and the private bot, 2 tokens, 2 connections, 1 power, one grade of the game besides the administrator's; the grades of one of the users change |
| `movement` | Do the passes of the adjudicator end in a solution of the rules, in whatever order the units are visited?  Is what is listed as possible accepted?  Does a DAIDE program read the same map, and its orders back? | 4 positions of 4 or 5 units in 6 provinces around 2 seas, one province with 2 coasts; every possible order aimed at the places that are fought for, in all combinations |
| `engine` | Do units, centers, influence, hash and phases stay consistent over the years?  Is no unit lost untold?  Can a saved state be put back into any later position? | 3 powers, 7 provinces, 2 years, two starting positions; orders in the first year |
| `client` | Is nothing carried out twice or in the wrong phase, do copies catch up with what the server has, and is every request answered, however often sockets break? | one player with 2 requests, each for a message or for the orders of one of 2 units, 1 message of another power, 1 processing, 2 breaks |
| `client_behind` | Is a client that has caught up in the server's phase?  *No.* | one player, 2 breaks |
| `daide` | Is each program told its game in order and to the end, is the history the same as what was told, does a thanks mean what it says, does press arrive? | 2 programs, 2 turns (a movement and a retreat), up to 8 messages each, 1 connection may be lost |
| `daide_names` | Has each power the connection of its player, when programs come, leave and come back under names that were used? | 3 programs, 2 of them of one name, 3 connections may be lost |

A property of a run is often the conjunction of named parts that belong together,
each with a comment of its own: `TablesAreSound` of `Sessions` is `TypeOK`,
`TablesAgree` and `ConnectionsAreOpen`, `CaughtUp` of `Client` is
`KnowsLastProcessing` and, of clients that broke once at most, `OnePhase`,
`OrdersAgree` and `OnlyOvertaken`, and so on.  The type
invariant of a module is a part of its invariant on structure where it is not
listed by itself.

Why the bounds are enough to be of interest.

* Two data and three task objects let a datum be removed, added and forced again
  while a stale object of it and one of another datum are queued; delay 0 lets a
  callback ask for no further round.
* Two powers are the least with which one player may be waited for while the
  other is ready, and a vote may be carried by some and not by others; a phase
  number modulo 3 tells this phase from the last and the one before.  Two task
  objects are all that one game can have alive, an invalid one and its successor.
* Three versions are a version in memory, one on disk and one in the backup.
* Two tokens and two connections are the least with which one token moves between
  connections while the other stays.
* The positions of `movement` hold what makes adjudication hard: an army with two
  convoy paths and another by land to one coast; fleets that convoy the army of
  another power against their own; three units that follow each other around and
  a fleet on one of two coasts; a convoyed attack that the victim's fleet
  supports.  Any two units may attack, support, cut, convoy and bounce there.
* In `engine` up to six units meet on neighbouring provinces: two of them are
  dislodged at once, retreats clash, a power has more to build than places and
  another more units than centers, and a game may be won, drawn, or go on until
  its years are over.
* Two breaks in `client` let a connection break again while it recovers from the
  first, with its requests in each of the tables, carried out or not; two requests
  let orders for one unit follow those for another.  Other instances were tried
  outside the runs and hold as well: a player and an omniscient observer with one
  request, a message of another power and two breaks of either socket, with
  liveness (852,000 states); the two with two requests and one break of the
  player's socket (1.67 million), or two breaks of either but no message of
  another power (1.04 million); one player with three requests and two breaks
  (4.2 million), and with two requests, two processings and three breaks but no
  message of another power (1.55 million); orders for none, one or both of the
  units at a time (1.06 million).  `CaughtUp` is of one connection for each power:
  with two it does not hold (section 5).
* In `daide` a program is refused some orders, thanked for others, sends them too
  late, withdraws them, talks, votes, and asks for the past; a connection may be
  lost, or end itself, at any moment.  Three connections of two names in
  `daide_names` are the least with which a variant is given back while another is
  in use, and given out again; anything may happen between the end of a stream and the
  callback that gives it back.  `Backlog` is 0: a new note is made
  when those before were sent, or are those of the same event.

`SYMMETRY` is used only for runs without a liveness property, over powers,
players, tokens and connections, which no constant tells apart in the run.

Deadlock checking is off where a behaviour really ends: in `store`, where a server
whose `server.json` cannot be read and that has no backup raises in `_load` and
does not start; in `movement`, when all units have their orders; in `engine`, when
the game is completed; in `client` and `client_behind`, when everyone has asked
what the bounds allow and all is answered; in `daide` and `daide_names`, when the
game is over or all connections are lost.

## 4. Fairness

* `Scheduler!FairSpec`: the clock and `process_tasks` are callbacks that
  `Server.set_tasks` hands to the event loop, and each goes on as long as the loop
  runs.  Weak fairness of a turn of `process_tasks` and of a step of the clock
  says no more; the clock's is strong only because a run has finitely many task
  objects, which the program never lacks.  Nothing is assumed of callers.
* `GameServer!FairSpec`: the same two.  The clock is strongly fair because the
  model lets it step only between two turns of `process_tasks`, which come as
  often as requests make them.  No player is assumed to send anything: a
  scheduled game leaves its phase by its deadline alone.
* `ServerStore!FairSpec`: the periodic task wakes up, and a writing that was begun
  is carried on.  SIGINT, kills and restarts are not assumed to come.
* `Client!FairSpec`: the server's loop serves a connection and sends its notes; the
  client's loop writes, reconnects and receives; the server learns in the end of
  a socket that broke (the websocket's close, or its failing ping).  Nobody is
  assumed to ask anything, and breaks are bounded.
* `Daide!Spec`: weak fairness of the sender of notes, `Server.task_send_notifications`,
  a coroutine that waits for the queue and nothing else.  Programs are not
  assumed to send anything, nor turns to be processed.

## 5. Findings

`client_behind`: the comment at `request_managers.py:1121` says "If there is no new
state history, then current state should have not changed and does not need to be
sent."  A client whose socket breaks between the two parts of a synchronization,
the past phases and the current one, has the latest history and an old phase: the
next synchronization sends nothing, and its player's orders are refused until the
next processing.  (What holds in its place is `KnowsLastProcessing`.)

Other disagreements between the code and what its comments, documents or tests say
were met while modelling.  The models do what the code does, the properties say
what holds beside them, and where a definition states what does not hold a comment
at it says so.  No run is spent on these.

*Scheduler and server.*

* A forced processing whose validator refuses it leaves its datum in `data_in_queue`
  (`scheduler.py:263`): `has_data` (`:160`) is True, and the datum is not processed
  again until it is removed (`Scheduler!HasDataMeansTask`; `GameMovesOn` names the
  exception, `Stranded`).
* A game won while it lacks players becomes *forming* (`server_game.py:504`), and
  the next player starts a game whose phase is `COMPLETED` (`:118`;
  `GameServer!StartsOnlyOnce`).
* A game resumed while it lacks a player is active after a restart, and in no
  scheduler (`server.py:723` against `:729`).  So is one whose master took more powers
  than were expected.  `ScheduleFollowsStatus` holds while the server stays up.
* The yes of a bot to a draw outlives the dummy power it was given for: a player who
  takes the power inherits it (`power.py:367` does not reset `vote`).  `VotesAreCurrent`
  holds where bots do not vote.
* If an account is deleted while a game is on disk only, `get_game` releases its power
  in memory and does not save it, and a game that was active stays active without its
  player (`server.py:656-733`).  `ControlIsSaved` and `ActiveHasPlayers` hold where
  accounts are deleted only while the games are in memory.
* A kill between the renaming and the rewriting of `server.json` (`server.py:116`)
  loses all accounts, although the backup is whole (`:334` looks for the file only;
  `ServerStore!UsersSurvive`).
* Grades changed while a game is on disk only do not reach the tokens it stores;
  nor do those changed in memory reach the stored copy, which is written first
  (`request_managers.py:949`, `:1001` against `:969`; `Sessions!OmniscientsAreEntitled`).
* A canceled game that is to be removed is saved again (`request_managers.py:907`);
  a draw needs the votes of powers nobody controls (`game.py:878`); a game waits for
  dummy powers (`game.py:543`); attaching a token to a connection renews its
  lifetime before it is checked (`users.py:234`); deleting an account that is
  signed out fails half way (`users.py:163`).
* The private bot joins a power that nobody controls with a token of its own
  (`request_managers.py:454-465`, `:583-585`); `set_controlled` (`power.py:370-372`) clears
  the tokens only of a power that had a player.  So the bot's token stays when a
  human takes the power, which goes on telling the bot what is its player's, and it
  stays when the bot leaves.  `power.py:59` calls the tokens those of the "current
  power controlled" (`Sessions!OnlyThePlayerIsTold`); `PowersTellTheirPlayer` says that
  nobody but the player and the bot has one.

*Client.*

* A second connection of a power that synchronizes makes the first get past phases
  again (`request_managers.py:1138`, with `game.py:733`): the assertion in
  `extend_phase_history` ends its receive loop.  `HistoryOnce` holds of one
  connection for each role; the same assertion fails when two roles share one
  connection.  Any exception but a `ResponseException` ends that loop.
* A notification that a response overtook and a break then lost is never sent again,
  for the copy's timestamp is already later (`requests.py:804`; `OnlyOvertaken` says
  that nothing else is missing).  Orders, wait flags and controllers that changed
  while a client was away are not sent by a synchronization at all, and late notes
  of wait flags or orders replace later values.
* `set_orders` on the server drops the power's former orders first
  (`server/request_managers.py:1026`); the client's copy adds the new ones to those
  it has, on the response (`response_managers.py:266`) and on the note
  (`notification_managers.py:188`).  After orders for `A PAR` and then for `A MAR` the
  copy shows both and the server carries out the second (`Client!ShowsWhatIsKept`;
  `OrdersAgree` is what holds).
* A synchronization takes the history of the copy away with the note of the current phase
  (`game.py:1580`), and the timestamp with it: the next one tells all of it again.  If
  orders are set in between, their response overtakes that note, which was made
  before and undoes them in the copy; a message is lost in the same way.  So
  `OnePhase`, `OrdersAgree` and `OnlyOvertaken` are about clients that broke once at most
  (`KnowsLastProcessing` is not), and of one connection for each power, for the notes
  of a synchronization go to all connections of the power.
* A write that fails after `write_message` returned leaves its request in no table
  (`connection.py:533`; the status `lost`).
* One `Synchronize` that is refused keeps all requests of the connection held
  (`connection.py:463`); requests held are released in arbitrary order.
* A message sent again with
  the text of an earlier one may be taken for it.  A player who is kicked is not
  told.  `GameInstancesSet.remove` does not reset `current_observer_type`
  (`game_instances_set.py:58`).  `SetWaitFlag` and `Vote` are marked as bound to a phase
  (`requests.py:158`), which the server does not check.

*Engine.*

* A unit convoyed against a province gets the help of that province's power towards
  dislodging it: the last word of its order, which `game.py:4067` takes for the
  place, is `VIA` (`Movement!Adjudicated`; `AdjudicatedButForHelp` holds).
* `self.popped` is not reset by `set_state`: in a restored retreat phase a unit whose
  name is in it is not moved, though its retreat stands (`game.py:4466`, against the
  comment at `:4422`; `Engine!RetreatsAreMade`).
* A unit dislodged by a convoyed attack may retreat to where the attacker came from
  (`game.py:4214`), which `docs/game-rules/orders/retreat.md:49` and `:65` forbid.
* A retreat to a coast gives influence over the coast's name, not over the province
  (`game.py:4468`, against `power.py:46`).
* Two calls of `set_orders` may build `F STP/SC` and `A STP` in one winter.
* The list of convoy paths loses entries while it is iterated (`game.py:3730`), and a
  support of a unit that holds may count -1; no outcome was found to differ by it.

*DAIDE gateway.*

* `SND (FRA) (...)` with one recipient is taken for one with a turn, cannot be read, and
  ends the reading of the connection (`daide/requests.py:499`).  Press with integers
  or free text is accepted with `YES` and never delivered.
* A deadline of 8192 seconds or more cannot be written (`daide/tokens.py:77`): `HLO`
  and `TME` raise.  So does `SMR` for a power that has no centers and was never
  recorded as eliminated, and the gateway is not stopped then (`server.py:443`).
* In one `SUB`, accepted orders after a refused one are answered `NYU` though they are
  in force; in retreats and adjustments a second `SUB` with another refused text of
  the same error is answered `MBV` (`ThanksMeansOrdered` is about movements whose
  orders are all thanked for).
* At the end of a game the connections are closed with notes still in the queue:
  `daide/tests/game_data_7.csv:4435-4448` expects `ORD`, `SMR` and `OFF`, of which only the
  last is sent when the final processing ends the game (`EndIsTold`).
* `IAM` always raises `AttributeError` (`daide/request_managers.py:100`).
* A program that comes back under its name has its power and is not told anything of
  it.  One that joins late gets no `HLO`.  The user's name is the variant and the name
  joined (`daide/request_managers.py:45`): the name `2x` under the variant 1 is the name `x` under
  the variant 12, and two programs are one user (the hypothesis `PlainNames` of section 6).
* A move `VIA` is told with `VIA` for its destination (`splitter.py:178`); a supported
  unit is given the nationality of the power that supports it.
* A connection that closes before `NME` raises in the release of its variant and is
  not removed.  Any exception but a refusal leaves a registered connection that
  nobody reads; an `IM` of another length leaves bytes unread, a `DM` of an odd length
  eats the beginning of the next message.
* A draw is never told by `DRW`: `Game.draw` clears the votes (`game.py:770`), and those who
  translate the notification ask for them afterwards (`notification_managers.py:130`, `:157`),
  though `has_draw_vote` is documented as "true if the game has completed due to a
  draw vote" (`:58`).  Programs are told `SMR` and `OFF`, as
  `daide/tests/game_data_7_draw.csv:2545-2560` expects (`Daide!HasDrawVote`, `Script`).
* `MIS` in a retreat phase lists all dislodged units.  A dummy power blocks `DRW`.

## 6. Proofs

The theorems hold for every value of the constants that the assumptions of the modules
allow.  Each rests on an inductive invariant, `IInv`, which TLC found to hold on the
instances of the runs before it was proved, with one lemma for each action.

| Module | Theorem | States |
|---|---|---|
| `SchedulerProofs` | `TypeCorrect` | `Spec => []TypeOK` |
| | `ClaimIsUnique` | `Spec => []OneClaim` |
| | `NothingOverdue` | `Spec => []HeapInFuture` |
| | `ContractKept` | `Spec => KeepsContract`, that is `SchedulerContract!Spec` under the mapping |
| `GameServerProofs` | `TypeCorrect` | `Spec => []TypeOK` |
| | `FinishedIsReleased` | `Spec => []FinishedIsUnscheduled` |
| | `ScheduleIsRight` | `Spec => []ScheduleFollowsStatus`, if `ServerStaysUp` |
| | `NoPhaseIsCutShort` | `Spec => EarlyOnlyIfReady` (of steps) |
| | `EndIsFinal` | `Spec => FinishedIsFinal` (of steps) |
| | `OnlyCurrentVotesCount` | `Spec => []VotesAreCurrent`, if `BotsDoNotVote` |
| | `ControllersHaveAccounts` | `Spec => []ControllersExist` |
| | `ControlIsAlwaysSaved` | `Spec => []ControlIsSaved`, if `AccountsOutliveGames` |
| | `ActiveGamesHavePlayers` | `Spec => []ActiveHasPlayers`, if `AccountsOutliveGames` and `NobodyForces` |
| `ServerStoreProofs` | `DiskStaysSound` | `Spec => []DiskIsSound` |
| | `StopIsOrderly` | `Spec => []StopSavesAll` |
| | `ReadsTheLast` | `Spec => LoadsTheLast` (of steps) |
| `SessionsProofs` | `TablesStaySound` | `Spec => []TablesAreSound` |
| | `AddresseesStaySound` | `Spec => []AddresseesAreSound` |
| | `GradesReachObservers` | `Spec => GradesAreApplied` (of steps) |
| `ClientProofs` | `TypeCorrect` | `Spec => []TypeOK` |
| | `OrdersStayForPhase` | `Spec => []OrdersAreForPhase` |
| | `NoneIsDoubled` | `Spec => []NoDuplicates` |
| | `CopiesStaySound` | `Spec => []CopiesAreSound`, if `OneForEachPower` |
| `DaideProofs` | `TypeCorrect` | `Spec => []TypeOK` |
| | `VariantsAreDistinct` | `Spec => []VariantsOK` |
| | `PowersHavePlayers` | `Spec => []ListenersPlay` |
| | `PlayersAreKept` | `Spec => []PlayersAreKnown`, if `PlainNames` |
| `EngineProofs` | `EnginePhasesGoOn` | `Spec => PhasesGoOn` (of steps) |
| | `EngineOrdersStandUp` | `Spec => []OrdersStandUp` |
| | `EngineMovesAreSettled` | `Spec /\ []BuildsAreApart => []MovesAreSettled`, if `HomesApart` |
| | `EngineHashIsCurrent` | `Spec /\ []BuildsAreApart => []HashIsCurrent`, if `HomesApart` |
| | `EngineRestoreIsExact` | `Spec /\ []BuildsAreApart => []RestoreIsExact`, if `HomesApart` |
| | `EngineUnitsAccounted` | `Spec /\ []BuildsAreApart => UnitsAccounted` (of steps), if `HomesApart` |
| | `EngineWithoutCoasts` | `Spec` implies all four, if `HomesApart` and no center has coasts |
| | `EngineBoardIsSound` | `Spec /\ []EntriesArePlain => []BoardIsSound`, if `HomesApart` and no `BUILD_ANY` |
| | `EngineBoardWithoutCoasts` | `Spec => []BoardIsSound`, if besides no province has coasts |
| | `EnginePositionFitsPhase` | `Spec /\ []BuildsAreApart => []PositionFitsPhase`, if `HomesApart` and `Skips` |
| `AdjudicatorProofs` | `ResolutionSettles` | `Settled(Resolve(units, orders, places), ...)` for any units of a board and orders they can make |

**Scheduler.**  `IInv == TypeOK /\ OneClaim /\ HeapInFuture /\ References`.  `OneClaim`
alone is not inductive: a method that makes a task takes an object that nothing refers
to, and a turn of `process_tasks` drops the head of the queue; to see that neither
touches another datum's claim one must know that the queue holds each object once and
that a valid object in it is the one `data_in_queue` names for its datum.  That is
`References`.  Lemmas on sequences without repetition (`AppendLemma`, `TailLemma`,
`ConcatLemma`) say what the actions do to the queue, and `StoreLemma` what reclaiming
objects does.  The step of the clock, which moves all due data to the queue in one go,
is the hard case: the queue grows by a sequence of fresh objects, one for each of them.

**SchedulerContract.**  Every operation of `Scheduler` is one of the contract or is not seen:
`SkipTask` never is, `UpdateDelay` and `RemoveFromQueue` are not when the entry of
`data_in_queue` was left behind by a task that was dropped or failed, for then the datum
is in no line.  The mapping takes the data of the valid tasks in the order of the queue
(`At`, what `SelectSeq` would give).  `At` is a comprehension, and is reasoned about without
induction: `Gives` says that an increasing enumeration of the places yields a sequence,
`AtGives` that `At` is one such sequence and `GivesAt` that it is the only one; to know the
line after a queue grows (`BehindLemma`), loses its head (`AheadLemma`) or has one task
invalidated (`PickLemma`) it is then enough to give the new enumeration.  `IInv` supplies
the rest: that a datum is in the line if and only if the task `data_in_queue` names is in
the queue (`InLineLemma`), and that what is due is exactly what has one unit left, so that
the clock of the code (`<=`) is that of the contract (`=`).

**GameServer.**  The scheduler's part of a step is not proved again: `SP == INSTANCE
SchedulerProofs` has its lemmas, and `SameInvariant` says that the invariant there is the
one of the scheduler the server instantiates.  The rest of `IInv` relates the game in
memory, its stored copy, the schedule and the accounts (`Presence`, `CopyIsCurrent`,
`GamesAreSound`, `TimerIsHonest`, `ActiveIsKnown`, `AccountsAreKnown`, `ControlIsKept`,
`PlayersAreKept`).  `EarlyOnlyIfReady` needs `TimerIsHonest`: what waits in the heap, or left
it because it was due, is not ahead of `elapsed`, so that a game that is processed was
forced or has had its time; `FinishedIsFinal` needs that a finished game is in no place
of the scheduler, and that the copy a restart finds knows of the end.

Four theorems have a hypothesis on the kinds of requests that arrive, and hold for any
requests otherwise.  None can be dropped: TLC shows a counterexample without it, and
section 5 tells which behaviour of the code it is.  `ServerStaysUp`: there are no
restarts.  `BotsDoNotVote`: no bot votes for a dummy power.  `AccountsOutliveGames`: no
account is deleted while the game may be on the disk only.  `NobodyForces`: no master
sets a game active or has it processed, both of which the code allows while players
are lacking.

**ServerStore.**  `SomeCopyIsWhole` is not inductive: a backup is made by renaming the file
over the backup that was there, which is right only if the file is whole.
`UnfinishedIsIdle` says when it is not (nobody will write it before it was read and
recovered), `LastIsRead` which version whole copies hold, and `StopIsComplete` what the
handler of SIGINT has written so far.

**Sessions.**  A table and its inverse are `Twins`; three lemmas say that they stay so
when a token is entered in both, when one is taken out, and when a key goes with all
that is under it, and the lemmas on the methods of `Users` are applications of them to
tokens and names, tokens and connections.  `SoundUsers` and `SoundRoles` are the parts of
`IInv`, of what is in memory and of what is saved.  A game on the disk may name tokens
that are gone; they are read back only if the server still knows them, and no token
changes its name, so that a power's tokens are its player's, or the private bot's, again
(`SoundRoles`, of the tokens that are known).  That a free power has no other tokens than the
bot's follows from it, for no account is called `None`.  `GradesAreApplied` is by `TransferredLemma`: the
transfer takes every token of the user out of the role left, unless one of them plays.

**Client.**  `NoDuplicates` counts, and counting is not inductive.  `EachIsDue` is: some
injection takes each message of a client's power to a request that asked for it and is
not `Fresh`, that is to say, was marked when it was sent again or is no longer held, to
be sent, or on its way.  A first attempt has no message yet, and a repeated one is given
a message only if the archive has none like it; the one request that is served gets the
one message that is recorded (`RecordedLemma`), and nothing a client does makes a request
fresh again (`Calm`).  For this the invariant has `Linked`, what is in the two sockets:
requests of this client, neither held nor to be sent, and each on its way once.

The bounds of `TypeOK` on times are a second invariant, `ClockIsBounded`: each tick is paid
for by a processing, a message of another power, or a request, and it is by the same
injection that requests suffice.

`CopiesAreSound` needs what is on the way to a client as one sequence, the socket followed by
the queue of notes: its past phases are in the order of their times and later than all
the copy has (`Fits`), and a `Synchronize` that the server has not seen is alone on its
connection, newer than the copy's history (`SyncIsAlone`), so that what it brings fits
again.  That a response overtakes notes does not matter, for it has no past.  The
hypothesis `OneForEachPower` (no two clients are of one power; observers may be many) can
not be dropped: a synchronization is told to all connections of the power, and TLC finds
the assertion of `extend_phase_history` to fail at the other one (section 5).  `ByTime` is a
`CHOOSE`; `ByTimeLemma` proves, by a minimal counterexample, that a finite set whose elements
differ in their times has such an enumeration.

**Daide.**  That no two connections have one variant (`VariantsOK`) is not inductive: when the
pool is empty the next variant is the length of the list of those in use, which is a new one
only because the variants in the list and in the pool are, taken together, the first numbers,
each once (`RegistryOK`), and because the list is exactly the variants of the connections: no
release is forgotten and none is made twice.  `RemoveLemma` says what Python's `list.remove`
leaves of such a list, and `RoomLemma` counts with the pigeon hole theorem that there are
never more variants than connections.  `ListenersPlay` needs that who is told about a power
and lost its name is closed for good, so that no name it is given later can be another's.
The requests are proved by what they make of the game (`Plays`: no one's power changes;
`Joins`: a free power goes to a program that had none), for any message that can be read and
any situation of the story, with one lemma for each handler that changes something.  The
hypothesis `PlainNames` (no name starts with a digit) is only used for the second half of
`NamesAreDistinct`, that no two connections are one user; without it this is false (section
5), and the three other theorems do not need it.

**Adjudicator.**  `ResolutionSettles` says what the game that carries out an adjudication
relies on: of the units that go, no two go to one place, and who is where one of them goes
has left or is told that it is dislodged.  The loops over units are folds, and the prover
knows of a fold only its equations; `Runs` names the values it has between its steps, so
that what each step keeps is kept to the end (`AlongLemma`, a minimal counterexample).
One property is handed from one step of the code to the next.  `Primed` (steps 1 to 5):
nobody has bounced or been dislodged, and no unit that goes is counted as a support.  `Fight`: the
entries of the combat are those of units, of who attacks one in its place, and of a unit
that stays the one it has at home.  The battles end when a pass changes nothing.  A pass
that does so leaves every unit that attacks alone as the strongest in its place, or it
would bounce: this is `Calm`.  They do end: any other pass gives its first result to a unit
that had none, so there are no more passes than units, and the bound of `While` (two passes
for each unit, and one) is never what stops the battles.  `Going` is about the dislodgements, of which a unit that lost to
a stronger one may undo a bounce: of the units dealt with, whoever goes finds its way free,
and an unbounced unit is again alone the strongest.  After the last unit it is `Settled`.

**Engine.**  Everything rests on what a processing does to the phase.  `AdvancePhase` is a walk
over the phases that are passed; `WalkStep` says what one step of it does, `NextPhaseReaches`
where it ends, and `PhaseInv` (of the game and of the saved state: a phase of one of the years
of the game) is enough for `PhasesGoOn`.  `OrdersInv` adds that the orders of a movement phase
are accepted on the board there is.  `SoundInv` is about the position: each table of a power
has its own sound part of the board, with the hash of all of it (`Good`); dislodged units wait
in retreat phases only (`Waiting`); what is left of the orders of a winter or a retreat phase
would be accepted now, for different units or builds, in the numbers there are (`AdjustFits`); a
saved state is a sound position (`IsState`).  The hash is treated as what it is, sets of keys
xored in and out: `UnitsCome`, `UnitsGo` and their kin say that the key of a unit that leaves
was there, and that of a unit that arrives was not.  For `RestoreIsExact` the two chains of
`set_state`, a step for each power, are followed with an invariant for the powers still to
come (`MannedLemma`, `OwnedLemma`): what a power clears in passing is what the others get
back, or have not yet.  `TidyInv` adds that provinces have one unit and influence one owner.
`FitInv` counts: a unit of after a phase comes from a different one of before, and a build from
a different order (`CountLemma`), orders to build do not exceed the surplus, and the
civil disorder takes exactly what is missing, for its order is total: distances are
numbers and names differ (`DisorderCount`).  `TallyInv` ties two tables that the code keeps
apart, until a state is put back: the names that were dislodged and not lost are those of
the units that wait.  It is what makes the books of `UnitsAccounted` balance over two
phases, the second of which only sees names: every unit that comes back is one name and one
order, every name that is left over is told (`MovesAccounted`, `RetreatsAccounted`), and
the walk to the next phase loses neither names nor waiting units (`RetreatsReached`).

That the moves are settled is used by all of this, and comes from `ResolutionSettles`, which
asks that the units handed to it are on different provinces and that their orders are such
as they can make.  `SettledInv` keeps that: `SoundInv` and `OrdersInv`, that moves are to
locations of the map (`OrdersTyped`), that no dislodged unit has two orders to retreat
(`Single`), and that no province has two units (`Alone`), in the game and in the saved state.  The two need each
other: units stay alone because the moves of the phase before were settled, and because
a retreat or a build goes to an empty province that no other one is sent to.

Each hypothesis is there because the code lets its contrary happen.  `HomesApart`: a power
that has no centers takes its homes (`game.py:3023`), which `map.py` lets powers share.
`BuildsAreApart`: no power has two different builds for one province.  Two calls of
`set_orders` may leave `F STP/SC B` and `A STP B`, of which the second does not replace the
first, and both are built.  The invariants of the engine hold up to then, and what happens
after that is not described by the rules.  Where no center has coasts it can not happen
(`EngineWithoutCoasts`).  `EntriesArePlain`: besides, a fleet may retreat to a coast, whose
name then is under its influence (section 5).  `BUILD_ANY` builds where another power may
have the influence.  `Skips`: with `DONT_SKIP_PHASES` idle phases are played.

The assumptions are those of the modules: finite sets of data and games, delays that
are natural numbers, and a `None` that is no value of another kind.  The code gives the
delays in seconds and checks their type (`scheduler.py:187`, `scheduler.py:205`).  `Daide` assumes that what is read is a request of
the table of its handlers, and that different numbers are written by different digits.
`Engine` assumes of a start what `Map.validate` checks, and that different
locations have different names.

Model-checked only: that the outcome of an adjudication is the one of the rules and depends on no order, and
what is told of it (the properties of `Movement`), what the programs of the gateway are told
(`StoryIsTold`, `AnswersHold`), and `CaughtUp` of `Client`.
Liveness (`AllAreServed`, `GameMovesOn`,
`SavedIsWritten`, `Answered`, `EndIsTold`) is out of the prover's reach, as is what a
recursive function returns for every input, as the reading of a clause.  That the passes
of the adjudicator compute *the* solution of the rules is of this kind too: the rules are
equations with circles in them, and that the loops find a solution is an induction over
whole chains of supports and convoys.  Where a fact needs induction on a number only, a
minimal counterexample does (`LeastLemma` of `ClientProofs`).  No module declares a `RECURSIVE` operator.

## 7. What is not modelled

* *Engine*: parsing and normalising the text of an order and of a map file; the rule
  `NO_CHECK`; merging two lists of orders; the flags of `civil_disorder`,
  `order_is_set` and `wait` (those of the server are in `GameServer` and `Daide`);
  `clear_units` and `clear_centers`; adjustment orders that name a fleet on a coast
  without it.  `GameServer` still stands on the outcome of a phase as a choice.
* *Client*: wait flags, votes, statuses and the other notifications; orders of other
  than movement phases, of which an empty list clears those there are; several games or
  roles on one connection; players who are kicked and observers who are promoted;
  the time limit on the future a user waits for; the first connection.
* *Gateway*: the `MAP` notification, which is never made; a status note of a canceled
  game; a sign-in that is refused; games that are started by their master or
  played in real time; winters (the story of the runs has none; the clauses and
  the codes of builds and waives are there, the waives that `_set_waives` adds are
  not told); what follows a turn whose orders are not those of the story.
* The dispatch of dummy powers to bots: one table that only the private bot reads.
  What the bot's account may join, and what it is told, is in `Sessions`.
* Rendering, export, the web client, bots, and the integration with
  webdiplomacy.net: drawing, formatting, and programs on the other side of the
  protocol.

## 8. Plan

What is left to prove: `CaughtUp` of `Client` (what a client lacks is on its way to it, or
was overtaken).

And to model: `GameServer` over `Engine` in place of the choice it makes now (in
small: the two instances together are too large for TLC), and the dispatch of dummy
powers to bots.
