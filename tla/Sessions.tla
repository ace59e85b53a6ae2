------------------------------- MODULE Sessions -------------------------------
(***************************************************************************)
(* Who is connected and what they are in a game: the Users object          *)
(* (server/users.py), the websockets (server/connection_handler.py) and    *)
(* the tokens one game keeps by role (server/server_game.py).              *)
(*                                                                         *)
(* An account signs in over a connection and is given a token; the token   *)
(* outlives the connection and moves to the next one that uses it.  In a   *)
(* game a token is an observer, an omniscient observer or a player of      *)
(* powers.  Who is omniscient follows from grades: administrator of the    *)
(* server, moderator of the game, or omniscient by name.                   *)
(*                                                                         *)
(* The Users object is one record, with one operator for each method that  *)
(* changes it; a dictionary is a function whose domain is its keys.        *)
(* The private bot has an account of its own and plays powers that nobody  *)
(* controls.  Passwords, the state of the game and the rules that refuse a *)
(* player (GameServer has them) are left out.                              *)
(***************************************************************************)
EXTENDS FiniteSets, Functions

CONSTANTS
    Users,      \* user names
    Admin,      \* the one the server makes administrator whenever it starts
    Bot,        \* the private bot's
    Tokens,     \* the tokens that may be given out
    Handlers,   \* connections
    Powers,
    Grades,     \* the grades of a game that masters change
    Graded,     \* the users whose grades are changed
    None

ASSUME UsersAssumption == {Admin, Bot} \subseteq Users /\ Admin # Bot /\ None \notin Users
ASSUME GradesAssumption ==
    Grades \subseteq {"moderator_usernames", "omniscient_usernames"} /\ Graded \subseteq Users

VARIABLES
    users,      \* Server.users
    open,       \* the connections that are open
    game,       \* the game's roles; in memory if loaded, else as on disk
    loaded,     \* whether the game is in Server.games
    saved       \* what a restart finds: [users, game] as they were saved last

vars == <<users, open, game, loaded, saved>>

-----------------------------------------------------------------------------
\* Dictionaries, and dictionaries of sets that drop a key with its last element.
EmptyDict == [k \in {} |-> None]
Put(d, k, v) == [x \in DOMAIN d \cup {k} |-> IF x = k THEN v ELSE d[x]]
Pop(d, K) == Restrict(d, DOMAIN d \ K)
Add(d, k, v) == Put(d, k, (IF k \in DOMAIN d THEN d[k] ELSE {}) \cup {v})
Drop(d, k, v) == IF d[k] = {v} THEN Pop(d, {k}) ELSE Put(d, k, d[k] \ {v})

\* token_timestamp is kept as the set of its keys: any token may turn out to be
\* too old when it is used (RemoveToken).
NoUsers ==
    [users |-> {}, administrators |-> {},
     timestamps |-> {},
     token_to_username |-> EmptyDict, username_to_tokens |-> EmptyDict,
     token_to_handler |-> EmptyDict, handler_to_tokens |-> EmptyDict]

\* The accounts that _load adds whenever the server starts.
WithDefaults(U) == [U EXCEPT !.users = @ \cup {Admin, Bot}, !.administrators = @ \cup {Admin}]

Known(U) == DOMAIN U.token_to_username
TokensOf(U, u) == IF u \in DOMAIN U.username_to_tokens THEN U.username_to_tokens[u] ELSE {}

ConnectUser(U, u, h, t) ==
    [U EXCEPT !.timestamps = @ \cup {t},
              !.token_to_username = Put(@, t, u), !.username_to_tokens = Add(@, u, t),
              !.token_to_handler = Put(@, t, h), !.handler_to_tokens = Add(@, h, t)]

\* attach_connection_handler raises an AssertionError if another connection
\* holds the token.
CanAttach(U, t, h) == t \in DOMAIN U.token_to_handler => U.token_to_handler[t] = h
AttachHandler(U, t, h) ==
    IF t \in DOMAIN U.token_to_handler THEN U
    ELSE [U EXCEPT !.token_to_handler = Put(@, t, h), !.handler_to_tokens = Add(@, h, t)]

DisconnectToken(U, t) ==
    [U EXCEPT !.timestamps = @ \ {t},
              !.token_to_username = Pop(@, {t}),
              !.username_to_tokens = Drop(@, U.token_to_username[t], t),
              !.token_to_handler = Pop(@, {t}),
              !.handler_to_tokens = IF t \in DOMAIN U.token_to_handler
                                    THEN Drop(@, U.token_to_handler[t], t) ELSE @]

\* A slip the checks must catch: the connection's list is kept.
RemoveHalfConnection(U, h) ==
    [U EXCEPT !.token_to_handler = Pop(@, {t \in DOMAIN @ : @[t] = h})]

\* remove_connection(h, remove_tokens=False)
RemoveConnection(U, h) ==
    IF h \notin DOMAIN U.handler_to_tokens THEN U
    ELSE [U EXCEPT !.token_to_handler = Pop(@, U.handler_to_tokens[h]),
                   !.handler_to_tokens = Pop(@, {h})]

\* remove_user takes the account out before it looks for its tokens, and fails
\* there (KeyError) when there are none: RemoveAccount is what it has done then.
RemoveAccount(U, u) == [U EXCEPT !.users = @ \ {u}, !.administrators = @ \ {u}]
RemoveUser(U, u) ==
    LET gone == TokensOf(U, u)
        left == {h \in DOMAIN U.handler_to_tokens : ~(U.handler_to_tokens[h] \subseteq gone)}
    IN  [RemoveAccount(U, u) EXCEPT
            !.timestamps = @ \ gone,
            !.token_to_username = Pop(@, gone), !.username_to_tokens = Pop(@, {u}),
            !.token_to_handler = Pop(@, gone),
            !.handler_to_tokens = [h \in left |-> @[h] \ gone]]

\* What is written of the Users object: the tables of connections are not.
Persistent(U) == [U EXCEPT !.token_to_handler = EmptyDict, !.handler_to_tokens = EmptyDict]

-----------------------------------------------------------------------------
\* The roles of a game.
NoRoles ==
    [controller |-> [p \in Powers |-> None], tokens |-> [p \in Powers |-> {}],
     observer |-> {}, omniscient |-> {},
     moderator_usernames |-> {}, omniscient_usernames |-> {}]

PlayerTokens(g) == UNION {g.tokens[p] : p \in Powers}
GameTokens(g) == g.observer \cup g.omniscient \cup PlayerTokens(g)

UserIsMaster(U, g, u) == u \in U.administrators \cup g.moderator_usernames
UserIsOmniscient(U, g, u) == UserIsMaster(U, g, u) \/ u \in g.omniscient_usernames

\* Power.is_controlled_by
IsControlledBy(g, p, u) ==
    IF u = Bot THEN g.controller[p] = None /\ g.tokens[p] # {} ELSE g.controller[p] = u

\* Power.set_controlled(None), of each power in S: a power that nobody controls
\* keeps its tokens.
Dismiss(g, S) ==
    [g EXCEPT !.controller = [p \in Powers |-> IF p \in S THEN None ELSE @[p]],
              !.tokens = [p \in Powers |-> IF p \in S /\ g.controller[p] # None THEN {} ELSE @[p]]]

\* filter_tokens and remove_token: only the tokens in keep stay.  A slip the
\* checks must catch: the powers' tokens are not looked at.
FilterSpecialTokens(g, keep) ==
    [g EXCEPT !.observer = @ \cap keep, !.omniscient = @ \cap keep]
FilterTokens(g, keep) ==
    [g EXCEPT !.observer = @ \cap keep, !.omniscient = @ \cap keep,
              !.tokens = [p \in Powers |-> @[p] \cap keep]]

\* filter_usernames: only the names in keep stay.
FilterUsernames(g, keep) ==
    [Dismiss(g, {p \in Powers : g.controller[p] \notin keep \cup {None}})
        EXCEPT !.moderator_usernames = @ \cap keep, !.omniscient_usernames = @ \cap keep]

\* A slip the checks must catch: the roles stay as they are.
NotTransferred(g, T, promote) == {g}

\* The tokens ok are moved, and those of gone leave the one role and are refused
\* by the other.
Moved(g, ok, gone, promote) ==
    IF promote
    THEN [g EXCEPT !.observer = @ \ (ok \cup gone), !.omniscient = @ \cup ok]
    ELSE [g EXCEPT !.omniscient = @ \ (ok \cup gone), !.observer = @ \cup ok]

\* transfer_special_tokens moves the tokens that T holds in the role left, in
\* the arbitrary order of a set.  A player's token is taken out of the role and
\* refused by the other one, which ends the transfer: moved are the tokens that
\* came before it.  The results are what the game may be afterwards.
Transferred(g, T, promote) ==
    LET from == T \cap (IF promote THEN g.observer ELSE g.omniscient)
        players == from \cap PlayerTokens(g)
    IN  IF players = {} THEN {Moved(g, from, {}, promote)}
        ELSE UNION {{Moved(g, ok, {t}, promote) : ok \in SUBSET (from \ players)} : t \in players}

-----------------------------------------------------------------------------
Init ==
    /\ users = WithDefaults(NoUsers) /\ open = {}
    /\ game = NoRoles /\ loaded = TRUE
    /\ saved = [users |-> NoUsers, game |-> NoRoles]

\* A websocket is opened; it is closed (on_close).
Open(h) ==
    /\ h \notin open
    /\ open' = open \cup {h}
    /\ UNCHANGED <<users, game, loaded, saved>>

Close(h) ==
    /\ h \in open
    /\ open' = open \ {h}
    /\ users' = RemoveConnection(users, h)
    /\ UNCHANGED <<game, loaded, saved>>

\* create_token draws a token that no table knows; here no game either.
Unused(t) == t \notin Known(users) \cup Known(saved.users) \cup GameTokens(game) \cup GameTokens(saved.game)

\* on_sign_in, which creates the account if there is none.
SignIn(u, h, t) ==
    /\ h \in open /\ Unused(t)
    /\ users' = ConnectUser([users EXCEPT !.users = @ \cup {u}], u, h, t)
    /\ saved' = [saved EXCEPT !.users = Persistent(users')]
    /\ UNCHANGED <<open, game, loaded>>

\* Every other request carries a token, which on_message attaches to the
\* connection; an AssertionError ends the request there.
Attached(t, h) == AttachHandler(users, t, h)
Accepted(t, h) == h \in open /\ t \in Known(users) /\ CanAttach(users, t, h)

\* Server.remove_token: on_logout, on_unknown_token, and assert_token of an
\* expired token.
RemoveToken(t, h) ==
    /\ Accepted(t, h)
    /\ users' = DisconnectToken(Attached(t, h), t)
    /\ game' = IF loaded THEN FilterTokens(game, Tokens \ {t}) ELSE game
    /\ saved' = [users |-> Persistent(users'), game |-> game']
    /\ UNCHANGED <<open, loaded>>

\* on_delete_account by its owner or an administrator.
DeleteAccount(t, h, u) ==
    LET U == Attached(t, h) IN
    /\ Accepted(t, h) /\ u \in U.users
    /\ u = U.token_to_username[t] \/ U.token_to_username[t] \in U.administrators
    /\ IF TokensOf(U, u) = {}
       THEN /\ users' = RemoveAccount(U, u)
            /\ saved' = [saved EXCEPT !.users = Persistent(U)]
            /\ UNCHANGED game
       ELSE /\ users' = RemoveUser(U, u)
            /\ game' = IF loaded
                       THEN FilterUsernames(FilterTokens(game, Known(users')), users'.users)
                       ELSE game
            /\ saved' = [users |-> Persistent(users'), game |-> game']
    /\ UNCHANGED <<open, loaded>>

\* on_set_grade of the administrator's grade: the server's data are saved, the
\* game is not.
SetAdmin(t, h, u, promote) ==
    LET U == Attached(t, h) IN
    /\ Accepted(t, h) /\ U.token_to_username[t] \in U.administrators
    /\ IF promote THEN u \in U.users \ U.administrators ELSE u \in U.administrators
    /\ users' = [U EXCEPT !.administrators = IF promote THEN @ \cup {u} ELSE @ \ {u}]
    /\ saved' = [saved EXCEPT !.users = Persistent(users')]
    /\ IF loaded /\ u \notin game.moderator_usernames \cup game.omniscient_usernames
       THEN game' \in Transferred(game, TokensOf(U, u), promote)
       ELSE UNCHANGED game
    /\ UNCHANGED <<open, loaded>>

\* on_set_grade of a game's moderator or omniscient: the game is saved, then
\* its tokens are transferred.
SetGrade(t, h, u, grade, promote) ==
    LET U == Attached(t, h)
        g == [game EXCEPT ![grade] = IF promote THEN @ \cup {u} ELSE @ \ {u}]
    IN
    /\ Accepted(t, h) /\ loaded /\ UserIsMaster(U, game, U.token_to_username[t])
    /\ g # game
    /\ users' = U
    /\ saved' = [users |-> Persistent(U), game |-> g]
    /\ IF UserIsOmniscient(U, g, u) = UserIsOmniscient(U, game, u) THEN game' = g
       ELSE game' \in Transferred(g, TokensOf(U, u), UserIsOmniscient(U, g, u))
    /\ UNCHANGED <<open, loaded>>

\* on_join_game without a power.
AddsToOne(g, t) == t \notin GameTokens(g)

JoinAsObserver(t, h) ==
    LET U == Attached(t, h) IN
    /\ Accepted(t, h) /\ loaded /\ AddsToOne(game, t)
    /\ users' = U
    /\ game' = IF UserIsOmniscient(U, game, U.token_to_username[t])
               THEN [game EXCEPT !.omniscient = @ \cup {t}]
               ELSE [game EXCEPT !.observer = @ \cup {t}]
    /\ saved' = [users |-> Persistent(U), game |-> game']
    /\ UNCHANGED <<open, loaded>>

\* on_join_game with a power that is free, or that its player joins with one
\* more token (then the token's other roles are not looked at).  The tokens that
\* a free power has, the bot's, stay.
JoinAsPlayer(t, h, p) ==
    LET U == Attached(t, h)
        u == U.token_to_username[t]
    IN
    /\ Accepted(t, h) /\ loaded /\ u # Bot
    /\ \/ game.controller[p] = None /\ t \notin game.observer \cup game.omniscient
       \/ game.controller[p] = u /\ t \notin game.tokens[p]
    /\ users' = U
    /\ game' = [game EXCEPT !.controller[p] = u, !.tokens[p] = @ \cup {t}]
    /\ saved' = [users |-> Persistent(U), game |-> game']
    /\ UNCHANGED <<open, loaded>>

\* The bot joins a free power, whatever other role its token has: on_join_game,
\* which does not save the game then, or on_join_powers, which does.
JoinAsBot(t, h, p) ==
    LET U == Attached(t, h) IN
    /\ Accepted(t, h) /\ loaded
    /\ U.token_to_username[t] = Bot /\ game.controller[p] = None
    /\ users' = U
    /\ game' = [game EXCEPT !.tokens[p] = @ \cup {t}]
    /\ \E g \in {saved.game, game'} : saved' = [users |-> Persistent(U), game |-> g]
    /\ UNCHANGED <<open, loaded>>

\* on_leave_game as a player, or as an observer of either kind.
LeaveGame(t, h) ==
    LET U == Attached(t, h) IN
    /\ Accepted(t, h) /\ loaded
    /\ users' = U
    /\ \/ \E p \in Powers : /\ IsControlledBy(game, p, U.token_to_username[t])
                            /\ game' = Dismiss(game, {p})
       \/ t \in game.observer /\ game' = [game EXCEPT !.observer = @ \ {t}]
       \/ t \in game.omniscient /\ game' = [game EXCEPT !.omniscient = @ \ {t}]
    /\ saved' = [users |-> Persistent(U), game |-> game']
    /\ UNCHANGED <<open, loaded>>

\* The server stops and starts: by SIGINT, which saves everything, or without
\* warning after a backup.
Restart(everything) ==
    LET U == IF everything THEN Persistent(users) ELSE saved.users
        g == IF everything /\ loaded THEN game ELSE saved.game
    IN
    /\ users' = WithDefaults(U)
    /\ game' = g /\ loaded' = FALSE /\ open' = {}
    /\ saved' = [users |-> U, game |-> g]

\* get_game reads the game from its file.
LoadGame ==
    /\ ~loaded
    /\ game' = FilterTokens(FilterUsernames(game, users.users), Known(users))
    /\ loaded' = TRUE
    /\ UNCHANGED <<users, open, saved>>

Next ==
    \/ \E h \in Handlers : Open(h) \/ Close(h)
    \/ \E u \in Users, h \in Handlers, t \in Tokens : SignIn(u, h, t)
    \/ \E t \in Tokens, h \in Handlers :
          \/ RemoveToken(t, h)
          \/ JoinAsObserver(t, h)
          \/ LeaveGame(t, h)
          \/ \E p \in Powers : JoinAsPlayer(t, h, p) \/ JoinAsBot(t, h, p)
          \/ \E u \in Users : DeleteAccount(t, h, u)
          \/ \E u \in Graded, promote \in BOOLEAN : SetAdmin(t, h, u, promote)
          \/ \E u \in Graded, grade \in Grades, promote \in BOOLEAN :
                SetGrade(t, h, u, grade, promote)
    \/ \E everything \in BOOLEAN : Restart(everything)
    \/ LoadGame

Spec == Init /\ [][Next]_vars
-----------------------------------------------------------------------------
\* The users and the game hold names, tokens and connections.
Dict(K, V) == UNION {[S -> V] : S \in SUBSET K}
IsUsers(U) ==
    /\ U.administrators \subseteq U.users /\ U.users \subseteq Users
    /\ U.timestamps \subseteq Tokens
    /\ U.token_to_username \in Dict(Tokens, Users)
    /\ U.username_to_tokens \in Dict(Users, SUBSET Tokens)
    /\ U.token_to_handler \in Dict(Tokens, Handlers)
    /\ U.handler_to_tokens \in Dict(Handlers, SUBSET Tokens)
IsRoles(g) ==
    /\ g.controller \in [Powers -> Users \cup {None}] /\ g.tokens \in [Powers -> SUBSET Tokens]
    /\ {g.observer, g.omniscient} \subseteq SUBSET Tokens
    /\ {g.moderator_usernames, g.omniscient_usernames} \subseteq SUBSET Users
TypeOK ==
    /\ IsUsers(users) /\ IsRoles(game) /\ loaded \in BOOLEAN /\ open \subseteq Handlers
    /\ IsUsers(saved.users) /\ IsRoles(saved.game)

\* The five tables of the Users object tell the same story after every request,
\* close, failure and restart, in memory and on disk: each token has a name and
\* a timestamp, each table is the inverse of its twin, no set is left empty.
IsInverse(table, sets) ==
    /\ \A k \in DOMAIN sets : sets[k] = {t \in DOMAIN table : table[t] = k} /\ sets[k] # {}
    /\ \A t \in DOMAIN table : table[t] \in DOMAIN sets
Agree(U) ==
    /\ U.timestamps = Known(U) /\ DOMAIN U.token_to_handler \subseteq Known(U)
    /\ IsInverse(U.token_to_username, U.username_to_tokens)
    /\ IsInverse(U.token_to_handler, U.handler_to_tokens)
    /\ DOMAIN U.username_to_tokens \subseteq U.users
TablesAgree == Agree(users) /\ Agree(saved.users)

\* Notifications go to the connection of a token: it is one that is open.
ConnectionsAreOpen == DOMAIN users.handler_to_tokens \subseteq open

\* The tables of users, tokens and connections are sound, all in all.
TablesAreSound == TypeOK /\ TablesAgree /\ ConnectionsAreOpen

\* A game in memory addresses only tokens the server knows, whoever logged out,
\* expired or was deleted, whether the game was in memory then or not.
GameTokensAreKnown == loaded => GameTokens(game) \subseteq Known(users)

\* What a power is told goes to its present player and to the private bot, to no
\* other: no token stays with a power when its player leaves, is deleted or comes
\* back under a new account.
PowersTellTheirPlayer ==
    loaded => \A p \in Powers : \A t \in game.tokens[p] :
                  users.token_to_username[t] \in {game.controller[p], Bot}

\* No token is both an observer and an omniscient observer, whatever became of
\* its user's grades since it joined.
OneObserverRole == game.observer \cap game.omniscient = {}

\* Whom a game addresses is sound, all in all: what handlers of accounts, roles
\* and connections leave in its tables fits what they leave in those of users.
AddresseesAreSound == GameTokensAreKnown /\ PowersTellTheirPlayer /\ OneObserverRole

Entitled(t) == UserIsOmniscient(users, game, users.token_to_username[t])

\* A change of grade reaches every observer at once: a token whose right to
\* omniscience changes holds no role of the other kind afterwards.  (A user one
\* of whose observing tokens also plays is left out: his transfer fails.)
Mixed(u) == TokensOf(users, u) \cap (game.observer \cup game.omniscient) \cap PlayerTokens(game) # {}
GradesAreApplied ==
    [][loaded /\ loaded' =>
        \A t \in Known(users) \cap Known(users)' :
            (Entitled(t) # Entitled(t)') /\ ~Mixed(users.token_to_username[t]) =>
                t \notin IF Entitled(t)' THEN game.observer' ELSE game.omniscient']_vars

\* request_managers.py:969: "a user is omniscient if either server admin, game
\* moderator or game explicit omniscient".  So are the omniscient observers.
\* It does not hold of games that were on disk (see the README).
OmniscientsAreEntitled == loaded => \A t \in game.omniscient : Entitled(t)

\* power.py:59: tokens is the "set of tokens of current power controlled".  It is
\* not when a player takes a power that the bot plays (see the README).
OnlyThePlayerIsTold ==
    loaded => \A p \in Powers : game.controller[p] # None =>
                  \A t \in game.tokens[p] : users.token_to_username[t] = game.controller[p]
=============================================================================
