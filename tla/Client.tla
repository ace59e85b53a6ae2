-------------------------------- MODULE Client --------------------------------
(***************************************************************************)
(* The Python clients of one game of the server: their connections         *)
(* (client/connection.py), their copies of the game                        *)
(* (client/network_game.py) and what the server tells them                 *)
(* (server/notifier.py and the handlers of SetOrders, SendGameMessage and  *)
(* Synchronize).                                                           *)
(*                                                                         *)
(* A client is one Connection with one channel and one copy of the game,   *)
(* in a role of its own or shared with another client of the same user.    *)
(* Requests go to the server over a websocket.  The response is written at *)
(* once; notifications wait in Server.notifications for the task that      *)
(* sends them, so that a response may overtake them (queue has a client's  *)
(* part of that queue).  Both sockets are in order.  A break loses what is *)
(* on the way.  The client notices, connects again and synchronizes its    *)
(* copy before it sends what is left; the server notices on its own time.  *)
(*                                                                         *)
(* Time is the server's clock, read by messages and processings only.      *)
(* Orders are those of a movement phase: each is for a unit, and takes the *)
(* place of the one the unit had.                                          *)
(* Left out: wait flags, votes, statuses, the other notifications, the     *)
(* time limit on the future a user waits for, requests that open or close  *)
(* games and channels.                                                     *)
(***************************************************************************)
EXTENDS Naturals, SequencesExt

CONSTANTS
    Clients,
    Powers,
    Fragile,        \* those whose socket may break
    Role,           \* the role of each client's copy: a power or one of
    Omniscient,
    Observer,
    Global,         \* the recipient of messages to all
    Recipients,     \* the recipients (powers or Global)
    Texts,          \* and texts of the messages that are tried
    Units,          \* the units a power may order
    Ordered,        \* the sets of them that are ordered together
    MaxRequests,    \* bound on the requests of the users
    MaxOthers,      \* bound on the messages of the other powers in a phase
    MaxPhase,       \* bound on the processings
    MaxBreaks       \* bound on the breaks of sockets

ASSUME RolesAssumption == Role \in [Clients -> Powers \cup {Omniscient, Observer}]
ASSUME RecipientsAssumption == Recipients \subseteq Powers \cup {Global}
ASSUME OrderedAssumption == Ordered \subseteq SUBSET Units
ASSUME FragileAssumption == Fragile \subseteq Clients
ASSUME BoundsAssumption == {MaxRequests, MaxOthers, MaxPhase, MaxBreaks} \subseteq Nat

VARIABLES
    game,       \* the server's game
    conn,       \* for each client, the two ends of its connection
    copy,       \* for each client, its copy of the game
    requests,   \* the requests made, in order, and where each of them is
    breaks      \* for each client, how often its socket has broken

vars == <<game, conn, copy, requests, breaks>>

\* Where a request is: held until the connection is synchronized, in
\* requests_to_send, in requests_waiting_responses, answered, refused, or in
\* none of them: its write failed after write_message had returned.
Pending == {"held", "unsent", "waiting"}
Status == Pending \cup {"done", "failed", "lost"}

\* The order of a unit is the number of the request that gave it, or 0.
Numbers == 0 .. MaxRequests
Orders == [Units -> Numbers]
NoOrders == [u \in Units |-> 0]

\* Game.set_orders: the orders of request i are added to those of other units.
Given(orders, units, i) == [u \in Units |-> IF u \in units THEN i ELSE orders[u]]

Times == 0 .. MaxRequests + MaxOthers * (MaxPhase + 1) + MaxPhase
Message == [from : Powers, to : Recipients, text : Texts, time : Times]
Past == [phase : 0 .. MaxPhase, time : Times]

Of(c) == {i \in DOMAIN requests : requests[i].client = c}
Latest(S) == Max({0} \cup {x.time : x \in S})
----------------------------------------------------------------------------
\* What the server tells.

\* Game.filter_messages
Sees(role, m) ==
    \/ role = Omniscient
    \/ m.to = Global
    \/ role \in {m.from, m.to}

\* Notifier._notify: notes for each client whose token has a connection.
NotifyAll(cs, S, notes) ==
    [c \in Clients |-> IF c \in S /\ cs[c].holder = "cur"
                       THEN [cs[c] EXCEPT !.queue = @ \o notes] ELSE cs[c]]
Notify(cs, S, note) == NotifyAll(cs, S, <<note>>)
Respond(cs, c, response) == [cs EXCEPT ![c].toClient = Append(@, response)]

Players(p) == {c \in Clients : Role[c] = p}

\* Notifier.notify_game_message, ignoring the sender's connection.
Addressees(m, c) == {d \in Clients \ {c} : Sees(Role[d], m)}

\* The messages or past phases of S in the order of their times.
InOrder(s) == \A i, j \in DOMAIN s : i < j => s[i].time < s[j].time
ByTime(S) == CHOOSE s \in SetToSeqs(S) : InOrder(s)

\* Game.phase_history_from_timestamp and ServerGame.get_messages.
HistoryFrom(t) == {h \in game.history : h.time >= t}
MessagesFrom(t) == {m \in game.messages : m.time >= t}
\* (A slip the checks must catch: the bound is included.)
FromLatest(t) == t
AfterLatest(t) == t + 1

\* What on_synchronize sends to a role: messages of others and past phases that
\* are newer than the client's latest data, by time, and the current phase if
\* there was a past one.
News(role, t) ==
    LET past == ByTime(HistoryFrom(AfterLatest(t)))
        new  == ByTime({m \in MessagesFrom(AfterLatest(t)) : Sees(role, m) /\ m.from # role})
        now  == [kind |-> "phase", phase |-> game.phase,
                 messages |-> {m \in game.messages : Sees(role, m)},
                 orders |-> IF role \in Powers THEN game.orders[role] ELSE NoOrders]
    IN  [i \in DOMAIN past |-> [kind |-> "history", past |-> past[i]]]
        \o [i \in DOMAIN new |-> [kind |-> "message", message |-> new[i]]]
        \o (IF past = <<>> THEN <<>> ELSE <<now>>)

----------------------------------------------------------------------------
\* The handlers: the new game and what becomes of the connections, the
\* client's request having been taken from the socket (cs).
Answer(i, ok, t) == [kind |-> "response", id |-> i, ok |-> ok, time |-> t]

\* A slip the checks must catch: the phase of the orders is not looked at.
AnyOrders(r) == r.phase <= game.phase
OrdersAccepted(r) == r.phase = game.phase

\* The orders the power had are cleared, whatever units they were for.
OnSetOrders(cs, c, i) ==
    IF ~OrdersAccepted(requests[i])
    THEN /\ conn' = Respond(cs, c, Answer(i, FALSE, 0))
         /\ UNCHANGED game
    ELSE /\ game' = [game EXCEPT !.orders[Role[c]] = Given(NoOrders, requests[i].units, i)]
         /\ conn' = Respond(Notify(cs, Players(Role[c]) \ {c},
                                   [kind |-> "orders", id |-> i, units |-> requests[i].units]),
                            c, Answer(i, TRUE, 0))

\* The archived messages a request repeats.
Archived(c, r) == {m \in game.messages : m.from = Role[c] /\ m.to = r.to /\ m.text = r.text}
AlreadyHas(c, r) == r.resent /\ Archived(c, r) # {}

OnSendGameMessage(cs, c, i) ==
    LET r == requests[i]
        m == [from |-> Role[c], to |-> r.to, text |-> r.text, time |-> game.clock + 1]
    IN  \/ /\ r.phase # game.phase
           /\ conn' = Respond(cs, c, Answer(i, FALSE, 0))
           /\ UNCHANGED game
        \/ /\ r.phase = game.phase /\ AlreadyHas(c, r)
           /\ conn' = Respond(cs, c, Answer(i, TRUE, Latest(Archived(c, r))))
           /\ UNCHANGED game
        \/ /\ r.phase = game.phase /\ ~AlreadyHas(c, r)
           /\ game' = [game EXCEPT !.clock = @ + 1, !.messages = @ \cup {m}]
           /\ conn' = Respond(Notify(cs, Addressees(m, c), [kind |-> "message", message |-> m]),
                              c, Answer(i, TRUE, m.time))

\* Another power's message is recorded.
Others == Powers \ {Role[c] : c \in Clients}
OtherSends ==
    /\ Cardinality({m \in game.messages : m.from \in Others}) < MaxOthers
    /\ \E p \in Others : \E to \in Recipients \ {p}, text \in Texts :
         LET m == [from |-> p, to |-> to, text |-> text, time |-> game.clock + 1]
         IN  /\ game' = [game EXCEPT !.clock = @ + 1, !.messages = @ \cup {m}]
             /\ conn' = Notify(conn, {c \in Clients : Sees(Role[c], m)}, [kind |-> "message", message |-> m])
    /\ UNCHANGED <<copy, requests, breaks>>

\* A power is synchronized at all of its connections, a watcher at its own.
OnSynchronize(cs, c, t) ==
    /\ conn' = Respond(NotifyAll(cs, IF Role[c] \in Powers THEN Players(Role[c]) ELSE {c}, News(Role[c], t)),
                       c, [kind |-> "synced", phase |-> game.phase])
    /\ UNCHANGED game

\* ConnectionHandler.on_message.  The first request of a connection attaches
\* the token to it; an AssertionError closes the connection while the server
\* has not noticed that the former one broke.
Cut(k) == [k EXCEPT !.up = FALSE, !.toServer = <<>>, !.toClient = <<>>, !.queue = <<>>,
                    !.holder = IF @ = "cur" THEN "old" ELSE @]

Serve(c) ==
    /\ conn[c].toServer # <<>>
    /\ UNCHANGED <<copy, requests, breaks>>
    /\ LET q  == Head(conn[c].toServer)
           cs == [conn EXCEPT ![c].toServer = Tail(@), ![c].holder = "cur"]
       IN  IF conn[c].holder = "old"
           THEN conn' = [conn EXCEPT ![c] = Cut(@)] /\ UNCHANGED game
           ELSE \/ q.id = 0 /\ OnSynchronize(cs, c, q.timestamp)
                \/ q.id # 0 /\ requests[q.id].kind = "orders" /\ OnSetOrders(cs, c, q.id)
                \/ q.id # 0 /\ requests[q.id].kind = "message" /\ OnSendGameMessage(cs, c, q.id)

\* Server._process_game, when the deadline is over or nobody waits.
Process ==
    /\ game.phase < MaxPhase
    /\ LET past == [phase |-> game.phase, time |-> game.clock + 1]
       IN  /\ game' = [phase |-> game.phase + 1, clock |-> past.time, messages |-> {},
                       history |-> game.history \cup {past}, orders |-> [p \in Powers |-> NoOrders]]
           /\ conn' = Notify(conn, Clients, [kind |-> "processed", past |-> past])
    /\ UNCHANGED <<copy, requests, breaks>>

\* Server._task_send_notifications
SendNote(c) ==
    /\ conn[c].queue # <<>>
    /\ conn' = [conn EXCEPT ![c].queue = Tail(@), ![c].toClient = Append(@, Head(conn[c].queue))]
    /\ UNCHANGED <<game, copy, requests, breaks>>

\* The socket breaks; ConnectionHandler.on_close.
Break(c) ==
    /\ c \in Fragile /\ conn[c].up /\ FoldFunction(+, 0, breaks) < MaxBreaks
    /\ conn' = [conn EXCEPT ![c] = Cut(@)]
    /\ breaks' = [breaks EXCEPT ![c] = @ + 1]
    /\ UNCHANGED <<game, copy, requests>>

OnClose(c) ==
    /\ conn[c].holder = "old"
    /\ conn' = [conn EXCEPT ![c].holder = "none"]
    /\ UNCHANGED <<game, copy, requests, breaks>>
----------------------------------------------------------------------------
\* What the client does.

\* Connection.write_request.  On a socket that broke unnoticed the write seems
\* to succeed, raises, or fails later: then the context is kept nowhere.
Outcomes(c) == IF conn[c].up THEN {"waiting"} ELSE {"waiting", "unsent", "lost"}
Written(c, i) ==
    conn' = IF conn[c].up THEN [conn EXCEPT ![c].toServer = Append(@, [id |-> i, timestamp |-> 0])] ELSE conn

\* Channel._req_fn and Connection.send: the request is of the phase the copy is
\* in.  It is held while is_reconnecting is not set.
Ask(c, kind, to, text, units) ==
    LET r(s) == [client |-> c, kind |-> kind, to |-> to, text |-> text, units |-> units,
                 phase |-> copy[c].phase, status |-> s, resent |-> FALSE]
    IN  /\ Len(requests) < MaxRequests
        /\ \/ /\ conn[c].ready
              /\ \A i \in Of(c) : requests[i].status # "held"
              /\ \E s \in Outcomes(c) : requests' = Append(requests, r(s))
              /\ Written(c, Len(requests) + 1)
           \/ /\ ~conn[c].ready
              /\ requests' = Append(requests, r("held"))
              /\ UNCHANGED conn
        /\ UNCHANGED <<game, copy, breaks>>

SetOrders(c) ==
    /\ Role[c] \in Powers
    /\ \E units \in Ordered : Ask(c, "orders", Global, CHOOSE x \in Texts : TRUE, units)
SendGameMessage(c) ==
    /\ Role[c] \in Powers
    /\ \E to \in Recipients \ {Role[c]}, text \in Texts : Ask(c, "message", to, text, {})

\* The futures that waited for is_reconnecting are called in any order: an
\* Event keeps them in a set.
Write(c) ==
    \E i \in Of(c) :
        /\ conn[c].ready /\ requests[i].status = "held"
        /\ \E s \in Outcomes(c) : requests' = [requests EXCEPT ![i].status = s]
        /\ Written(c, i)
        /\ UNCHANGED <<game, copy, breaks>>

\* The receiving loop finds the socket closed: Connection._reconnect and
\* _Reconnection.reconnect.  A request that waits is marked and will be sent
\* again; a Synchronize is not, a new one is sent.
\* (Slips the checks must catch: it is only moved, or only marked.)
OnlyMove(r) == [r EXCEPT !.status = "unsent"]
OnlyMark(r) == [r EXCEPT !.resent = TRUE]
SendAgain(r) == [r EXCEPT !.status = "unsent", !.resent = TRUE]

Reconnect(c) ==
    /\ ~conn[c].up /\ conn[c].alive
    /\ requests' = [i \in DOMAIN requests |->
                      IF i \in Of(c) /\ requests[i].status = "waiting" THEN SendAgain(requests[i]) ELSE requests[i]]
    /\ conn' = [conn EXCEPT ![c].up = TRUE, ![c].ready = FALSE,
                            ![c].toServer = <<[id |-> 0, timestamp |-> Latest(copy[c].history \cup copy[c].messages)]>>]
    /\ UNCHANGED <<game, copy, breaks>>

\* _Reconnection.sync_done: a request of another phase than the server's is
\* refused, the others are written when is_reconnecting is set.
Obsolete(r, p) == r.phase # p
SyncDone(k, c, p) ==
    /\ requests' = [i \in DOMAIN requests |->
                      IF i \notin Of(c) \/ requests[i].status # "unsent" THEN requests[i]
                      ELSE [requests[i] EXCEPT !.status = IF Obsolete(requests[i], p) THEN "failed" ELSE "held"]]
    /\ conn' = [conn EXCEPT ![c] = [k EXCEPT !.ready = TRUE]]
    /\ UNCHANGED copy

\* response_managers.on_set_orders and on_send_game_message.  The orders are
\* added to those the copy shows, which the server has dropped.
OnResponse(k, c, n) ==
    LET r == requests[n.id]
    IN  /\ requests' = [requests EXCEPT ![n.id].status = IF n.ok THEN "done" ELSE "failed"]
        /\ conn' = [conn EXCEPT ![c] = k]
        /\ copy' = IF ~n.ok THEN copy
                   ELSE IF r.kind = "orders" THEN [copy EXCEPT ![c].orders = Given(@, r.units, n.id)]
                   ELSE [copy EXCEPT ![c].messages =
                           @ \cup {[from |-> Role[c], to |-> r.to, text |-> r.text, time |-> n.time]}]

\* Game.set_phase_data: after a processing the history is extended, by a
\* synchronization it is cleared.  (A slip the checks must catch: the orders of
\* the past phase stay.)
ExtendOnly(g, past) ==
    [phase |-> past.phase + 1, history |-> g.history \cup {past}, messages |-> {}, orders |-> g.orders]
Extend(g, past) ==
    [phase |-> past.phase + 1, history |-> g.history \cup {past}, messages |-> {}, orders |-> NoOrders]

\* notification_managers: what a note makes of a copy.
Handled(g, n) ==
    CASE n.kind = "message"   -> [g EXCEPT !.messages = @ \cup {n.message}]
      [] n.kind = "orders"    -> [g EXCEPT !.orders = Given(@, n.units, n.id)]
      [] n.kind = "history"   -> [g EXCEPT !.history = @ \cup {n.past}]
      [] n.kind = "phase"     -> [phase |-> n.phase, history |-> {}, messages |-> n.messages, orders |-> n.orders]
      [] n.kind = "processed" -> Extend(g, n.past)

\* Game.extend_phase_history asserts that the phase is new; the error ends the
\* loop that receives.
Fails(g, n) == n.kind \in {"history", "processed"} /\ \E h \in g.history : h.phase = n.past.phase

OnNotification(k, c, n) ==
    /\ IF Fails(copy[c], n)
       THEN conn' = [conn EXCEPT ![c] = [k EXCEPT !.alive = FALSE]] /\ UNCHANGED copy
       ELSE copy' = [copy EXCEPT ![c] = Handled(@, n)] /\ conn' = [conn EXCEPT ![c] = k]
    /\ UNCHANGED requests

\* Connection._handle_socket_messages
Receive(c) ==
    /\ conn[c].alive /\ conn[c].toClient # <<>>
    /\ LET n == Head(conn[c].toClient)
           k == [conn[c] EXCEPT !.toClient = Tail(@)]
       IN  \/ n.kind = "response" /\ OnResponse(k, c, n)
           \/ n.kind = "synced" /\ SyncDone(k, c, n.phase)
           \/ n.kind \notin {"response", "synced"} /\ OnNotification(k, c, n)
    /\ UNCHANGED <<game, breaks>>
----------------------------------------------------------------------------
Init ==
    /\ game = [phase |-> 0, clock |-> 0, messages |-> {}, history |-> {}, orders |-> [p \in Powers |-> NoOrders]]
    /\ conn = [c \in Clients |-> [up |-> TRUE, holder |-> "cur", ready |-> TRUE, alive |-> TRUE,
                                  queue |-> <<>>, toServer |-> <<>>, toClient |-> <<>>]]
    /\ copy = [c \in Clients |-> [phase |-> 0, history |-> {}, messages |-> {}, orders |-> NoOrders]]
    /\ requests = <<>>
    /\ breaks = [c \in Clients |-> 0]

Step(c) == Serve(c) \/ SendNote(c) \/ OnClose(c) \/ Write(c) \/ Reconnect(c) \/ Receive(c)
Next ==
    \/ Process \/ OtherSends
    \/ \E c \in Clients : SetOrders(c) \/ SendGameMessage(c) \/ Break(c) \/ Step(c)

Spec == Init /\ [][Next]_vars

\* Both event loops run, a socket that is up delivers, and the server learns in
\* the end of each that broke.
Fairness ==
    \A c \in Clients : /\ WF_vars(Serve(c) \/ SendNote(c))
                       /\ WF_vars(OnClose(c))
                       /\ WF_vars(Write(c) \/ Reconnect(c) \/ Receive(c))
FairSpec == Spec /\ Fairness
----------------------------------------------------------------------------
TypeOK ==
    /\ game \in [phase : 0 .. MaxPhase, clock : Times, messages : SUBSET game.messages,
                 history : SUBSET Past, orders : [Powers -> Orders]]
    /\ game.messages \subseteq Message
    /\ \A c \in Clients :
         /\ conn[c].holder \in {"none", "old", "cur"} /\ {conn[c].up, conn[c].ready, conn[c].alive} \subseteq BOOLEAN
         /\ copy[c].phase \in 0 .. MaxPhase /\ copy[c].orders \in Orders
         /\ copy[c].history \subseteq game.history /\ copy[c].messages \subseteq Message
         /\ ~conn[c].up => conn[c].toServer \o conn[c].toClient \o conn[c].queue = <<>>
    /\ \A i \in DOMAIN requests : requests[i].status \in Status /\ requests[i].client \in Clients
    /\ breaks \in [Clients -> Nat]

\* Nothing is on its way to or from a client that is connected, and no request
\* that may have been carried out was lost when it was sent again.
Quiet(c) ==
    /\ conn[c].up /\ conn[c].ready /\ conn[c].alive
    /\ conn[c].toServer \o conn[c].toClient \o conn[c].queue = <<>>
    /\ \A i \in Of(c) : /\ requests[i].status \notin Pending
                        /\ requests[i].status = "lost" => ~requests[i].resent

\* Request i gives power p's unit u an order for the present phase.
IsOfPhase(p, u, i) ==
    LET r == requests[i]
    IN  r.kind = "orders" /\ Role[r.client] = p /\ u \in r.units /\ r.phase = game.phase

\* The orders the server will carry out were given by a user who looked at the
\* phase they are for, however long the request was held or how often sent.
OrdersAreForPhase ==
    \A p \in Powers, u \in Units : game.orders[p][u] # 0 => IsOfPhase(p, u, game.orders[p][u])

\* A message sent again after a break is recorded once.
NoDuplicates ==
    \A c \in Clients, to \in Recipients, text \in Texts :
        Cardinality({m \in game.messages : m.from = Role[c] /\ m.to = to /\ m.text = text})
            <= Cardinality({i \in DOMAIN requests : /\ Role[requests[i].client] = Role[c]
                                                    /\ requests[i].kind = "message"
                                                    /\ requests[i].to = to /\ requests[i].text = text})

\* No copy is handed a past phase it has (assertions of extend_phase_history).
HistoryOnce == \A c \in Clients : conn[c].alive

\* A copy holds only what the server has, in history (TypeOK), and once.
CopiesAreSound == TypeOK /\ HistoryOnce

\* A client that has caught up knows of the last processing: its copy is in the
\* server's phase, or at least has the phase before in its history.
HasPast(c) == game.phase = 0 \/ \E h \in copy[c].history : h.phase = game.phase - 1
KnowsLastProcessing == \A c \in Clients : Quiet(c) => copy[c].phase = game.phase \/ HasPast(c)

\* ... it is in the server's phase (does not hold: on_synchronize takes a
\* client with the latest history for one with the latest phase).
PhaseAgrees == \A c \in Clients : Quiet(c) => copy[c].phase = game.phase

\* A client that has caught up and broke once at most.  (The note of the current
\* phase takes the history away, so that a second synchronization tells it all
\* again; where a response overtakes it the copy then shows what was before.)
BrokeOnce(c) == Quiet(c) /\ breaks[c] <= 1

\* ... it is in the server's phase,
OnePhase == \A c \in Clients : BrokeOnce(c) => copy[c].phase = game.phase

\* ... shows its player the orders the server will carry out, and besides them
\* at most other orders of this phase: those the server dropped when it got
\* later ones, which the copy keeps,
OrdersAgree ==
    \A c \in Clients, u \in Units : BrokeOnce(c) /\ Role[c] \in Powers =>
        LET shown == copy[c].orders[u]
            kept  == game.orders[Role[c]][u]
        IN  IF kept # 0 THEN shown = kept ELSE shown # 0 => IsOfPhase(Role[c], u, shown)

\* ... so that it does not hold that they are all it shows (see the README).
ShowsWhatIsKept ==
    \A c \in Clients : BrokeOnce(c) /\ Role[c] \in Powers => copy[c].orders = game.orders[Role[c]]

\* ... shows no message that was not sent, and lacks one only if it has a later
\* one of its own: that response overtook the message, which a break lost.
Missing(c) == {m \in game.messages : Sees(Role[c], m)} \ copy[c].messages
OnlyOvertaken ==
    \A c \in Clients : BrokeOnce(c) =>
        /\ copy[c].messages \subseteq game.messages
        /\ \A m \in Missing(c) : \E own \in copy[c].messages : own.from = Role[c] /\ own.time > m.time

\* What a client that has caught up knows, all in all.
CaughtUp == KnowsLastProcessing /\ OnePhase /\ OrdersAgree /\ OnlyOvertaken

\* Every request is answered or refused, unless its write failed unseen: as no
\* more than MaxRequests are made, there comes a time when none is pending.
NonePending == \A i \in DOMAIN requests : requests[i].status \notin Pending
Answered == []<>NonePending
=============================================================================
