------------------------------- MODULE Daide -------------------------------
(***************************************************************************)
(* The DAIDE gateway of one game: the connections of DAIDE programs        *)
(* (diplomacy/daide/connection_handler.py, messages.py, server.py), what   *)
(* each request does to the game (daide/request_managers.py, with the      *)
(* managers of diplomacy/server it calls), and the notifications the       *)
(* programs are sent (daide/notification_managers.py, server/notifier.py). *)
(*                                                                         *)
(* A handler runs to its end before the next one: the requests it makes of *)
(* the server suspend nothing.  The notifications it causes wait in one    *)
(* queue, already translated.                                              *)
(*                                                                         *)
(* How the game goes is given: Story is its situations one after another,  *)
(* the last is its end; a turn ends in the next situation if the orders it *)
(* needs are in force, other turns are not followed.  What orders do is    *)
(* the matter of Engine.  The game has the rules POWER_CHOICE and          *)
(* CIVIL_DISORDER, and neither START_MASTER nor REAL_TIME.                 *)
(***************************************************************************)
EXTENDS DaideMessages

CONSTANTS
    Conns,           \* the connections that are made, each once
    Frames,          \* [Conns -> set of messages], what each may send
    Story,           \* the situations: [phase, units, retreats, owned, homes, asked, valid, fault, results, needs]
    Wish,            \* [client name -> powers that start with what is before ':' in it]
    Expected,        \* how many powers players control
    MapTitle,        \* the characters of the name of the map
    VariantText,     \* [variant -> the digits that write it]
    Deadline, GameRules, Passcode,
    Backlog,         \* bound: notes that may wait when new ones are made
    MaxBreaks        \* bound: connections that break, or end by an FM

Kinds == {"NME", "OBS", "IAM", "HLO", "MAP", "MDF", "SCO", "NOW", "HST", "SUB", "MIS", "GOF", "TME", "DRW", "SND",
          "NOT", "YES", "REJ", "PRN", "HUH", "ADM"}
Digits == {"0", "1", "2", "3", "4", "5", "6", "7", "8", "9"}
Symbols == Digits \cup DOMAIN Characters
Variants == 0..Cardinality(Conns)
None == "none"

ASSUME DaideAssumption ==
    /\ Len(Story) \in Nat /\ Len(Story) > 1 /\ DOMAIN Story = 1..Len(Story) /\ Story[1].phase = <<"S", 1901, "M">>
    /\ Expected \in 1..Len(PowerList)
    /\ IsNumber(Deadline) /\ Deadline >= 0 /\ IsNumber(Passcode)
    /\ IsFiniteSet(Conns) /\ DOMAIN PowerList = 1..Len(PowerList) /\ Len(PowerList) \in Nat /\ None \notin ToSet(PowerList) \cup Conns

\* What is read is a request of the table, a NME has two texts.
ASSUME FramesAssumption ==
    \A c \in Conns : \A f \in {x \in Frames[c] : x.type = "DM" /\ x.meaning.ok} :
        /\ f.meaning.val.kind \in Kinds
        /\ f.meaning.val.kind = "NME" => f.meaning.val.name \in Seq(Symbols)

\* Numbers are written by some digits, different ones differently.
ASSUME TextAssumption ==
    /\ \A v \in Variants : VariantText[v] \in Seq(Digits) /\ VariantText[v] # <<>>
    /\ \A v, w \in Variants : VariantText[v] = VariantText[w] => v = w

VARIABLES
    conn,            \* [Conns -> [st, variant, user]]
    registry,        \* name variants [pool, used], and the accounts of DAIDE users
    game,
    queue,           \* notifications to send, <<connection, tokens>>
    told             \* [Conns -> how many of its notifications were sent, press aside]

vars == <<conn, registry, game, queue, told>>
Powers == ToSet(PowerList)
NoUser == <<>>
NoVariant == -1
\* A message that is sent, and one that comes with what its request is read as.
Sent(type, body) == [type |-> type, body |-> body]
Message(type, body) == [type |-> type, body |-> body, meaning |-> IF type = "DM" THEN Parse(body) ELSE Fail]
----------------------------------------------------------------------------
(* The game (diplomacy/engine/game.py and power.py). *)

Now(g) == Story[g.turn]
Kind(g) == Now(g).phase[3]
Eliminated(g, p) == Now(g).units[p] = <<>> /\ Now(g).retreats[p] = <<>> /\ Now(g).owned[p] = {}
DoesNotWait(g) == \A p \in Powers : Eliminated(g, p) \/ (p \in g.isset /\ p \notin g.wait)
Controlled(g) == {p \in Powers : g.ctrl[p] # NoUser}
PowerOf(g, user) == IF \E i \in DOMAIN PowerList : user # NoUser /\ g.ctrl[PowerList[i]] = user
                    THEN CHOOSE p \in Powers : g.ctrl[p] = user ELSE None

UnitOf(text) == SubSeq(text, 1, 2)
\* One order put into the list of a power: by unit in a movement phase; in the
\* others what is refused stays as VOID, and so does a second order of a unit.
Twice(list, text) == \E i \in DOMAIN list : UnitOf(list[i]) = UnitOf(text)
Refused(g, p, list, text) == text \notin Now(g).valid[p] \/ (Kind(g) # "M" /\ Twice(list, text))
Enter(g, p, list, text) ==
    IF Kind(g) # "M" THEN Append(list, IF Refused(g, p, list, text) THEN <<"VOID">> \o text ELSE text)
    ELSE IF Refused(g, p, list, text) THEN list
    ELSE IF Twice(list, text) THEN [i \in DOMAIN list |-> IF UnitOf(list[i]) = UnitOf(text) THEN text ELSE list[i]]
    ELSE Append(list, text)
Given(g, p, texts) == FoldLeft(LAMBDA list, text : Enter(g, p, list, text), <<>>, texts)
TwiceCode == 48
Faults(g, p, texts) ==
    {IF texts[i] \in Now(g).valid[p] THEN TwiceCode ELSE Now(g).fault[texts[i]] :
        i \in {j \in DOMAIN texts : Refused(g, p, Given(g, p, SubSeq(texts, 1, j - 1)), texts[j])}}

\* on_set_orders: the orders that were there are dropped, the wait flag is not.
SetOrders(g, p, texts) ==
    [g EXCEPT !.orders[p] = Given(g, p, texts), !.errors = @ \cup Faults(g, p, texts), !.isset = @ \cup {p}]
\* on_clear_orders
ClearOrders(g, p) ==
    IF Eliminated(g, p) THEN [g EXCEPT !.orders[p] = <<>>, !.isset = @ \cup {p}, !.wait = @ \ {p}]
    ELSE [g EXCEPT !.orders[p] = <<>>, !.isset = @ \ {p}, !.wait = @ \cup {p}]
InForce(list) == SelectSeq(list, LAMBDA text : text[1] \notin {"VOID", "WAIVE"})

NoOrders == [p \in Powers |-> <<>>]
\* The powers that have nothing to order have their (empty) orders set.
Idle(k) == {p \in Powers : p \notin Story[k].asked}
StartTurn(g, k) ==
    [g EXCEPT !.turn = k, !.orders = NoOrders, !.errors = {}, !.votes = {}, !.isset = Idle(k), !.wait = Powers \ Idle(k)]
Orders(g) == [p \in Powers |-> InForce(g.orders[p])]
Leads(g) == \A p \in Powers : Now(g).needs[p] \subseteq ToSet(g.orders[p])
Processed(g) ==
    LET next == [StartTurn(g, g.turn + 1) EXCEPT !.past = Append(@, Orders(g))]
    IN  IF next.turn < Len(Story) THEN next ELSE [next EXCEPT !.status = "completed"]
\* All who are left want a draw.
HasDrawVote(g) == \A q \in Powers : Eliminated(g, q) \/ q \in g.votes
\* Game.draw clears the orders first, and the votes once the game is over.
Drawn(g) == [g EXCEPT !.status = "completed", !.drawn = TRUE, !.orders = NoOrders, !.votes = {}, !.past = Append(@, NoOrders)]
----------------------------------------------------------------------------
(* Notifications, by connection.  A note that cannot be written ends the   *)
(* translation: the powers after it are not notified.                      *)

CanWrite(notes) == \A i \in DOMAIN notes : notes[i] # Unwritable
Attached(c) == c # None /\ conn[c].user # NoUser
Listeners(g) == SelectSeq(PowerList, LAMBDA p : Attached(g.listens[p]))
Notify(g, NotesOf(_)) ==
    LET fails == {i \in DOMAIN Listeners(g) : ~CanWrite(NotesOf(Listeners(g)[i]))}
        reached == IF fails = {} THEN Listeners(g) ELSE SubSeq(Listeners(g), 1, (CHOOSE i \in fails : \A j \in fails : i <= j) - 1)
        notes(p) == [i \in DOMAIN NotesOf(p) |-> <<g.listens[p], NotesOf(p)[i]>>]
    IN  [failed |-> fails # {}, notes |-> Concat(reached, notes)]

ActiveNotes(g) ==
    <<NoteOwnership(Now(g).owned), NotePosition(Now(g).phase, Now(g).units, Now(g).retreats), NoteDeadline(Deadline)>>

\* A power is eliminated in the first phase it has no units in (dislodged ones
\* do not count); the situation a game ends with is not in its history.
YearGone(g, p) ==
    LET past == IF g.drawn THEN g.turn ELSE g.turn - 1
        without == {k \in 1..past : Story[k].units[p] = <<>>}
    IN  IF without = {} THEN 0 ELSE Story[CHOOSE k \in without : \A j \in without : k <= j].phase[2]
LastPhase(g) == Story[IF g.drawn THEN g.turn ELSE g.turn - 1].phase
Dummy == [name |-> <<"d", "u", "m", "m", "y">>, version |-> <<"v", "0">>]
PlayerOf(g, p) == IF g.ctrl[p] = NoUser THEN Dummy ELSE registry.accounts[g.ctrl[p]]
\* A slip the checks must catch: the end comes without an OFF.
CompletedNotesOpen(g) ==
    <<NoteSummary(LastPhase(g), [p \in Powers |-> PlayerOf(g, p)], Now(g).owned, [p \in Powers |-> YearGone(g, p)])>>
\* Whether it was a draw is asked of the votes, which are gone by now.
CompletedNotes(g) ==
    LET winners == {p \in Powers : Now(g).units[p] # <<>>}
        ends == CASE HasDrawVote(g) -> <<NoteDraw>>
                  [] ~HasDrawVote(g) /\ Cardinality(winners) = 1 -> <<NoteSolo(CHOOSE p \in winners : TRUE)>>
                  [] OTHER -> <<>>
    IN  ends \o <<NoteSummary(LastPhase(g), [p \in Powers |-> PlayerOf(g, p)], Now(g).owned,
                              [p \in Powers |-> YearGone(g, p)]), NoteOff>>

\* The results of the orders of turn k; a power that waived has no result to look up.
OrderCodes(k, text) == IF Len(text) = 1 THEN {0} ELSE Story[k].results[UnitOf(text)]
ResultNotes(g, p, k) ==
    LET note(text) == NoteResult(Story[k].phase, OrderClause(Story[k].phase[3], p, text), OrderCodes(k, text))
    IN  [i \in DOMAIN g.past[k][p] |-> note(g.past[k][p][i])]
\* A slip the checks must catch: the results come after the new position.
ProcessedNotesLate(g, p) ==
    (IF g.status = "active" THEN ActiveNotes(g) ELSE CompletedNotes(g)) \o ResultNotes(g, p, Len(g.past))
\* on_processed_notification, after the turn was processed.
ProcessedNotes(g, p) ==
    ResultNotes(g, p, Len(g.past)) \o (IF g.status = "active" THEN ActiveNotes(g) ELSE CompletedNotes(g))
\* on_status_update_notification, when the game starts.
StartedNotes(g, p) ==
    IF g.turn = 1 THEN <<NoteHello(p, Passcode, 30, Deadline, GameRules)>> \o ActiveNotes(g) ELSE <<>>
----------------------------------------------------------------------------
(* Requests.  An answer is what is sent back, the game after it, the notes *)
(* it causes, and whether the connection is still read: an exception that  *)
(* is no ResponseException ends the reading.                               *)

Answer(replies, g, notes) == [replies |-> replies, game |-> g, notes |-> notes, deaf |-> FALSE]
Replies(replies) == Answer(replies, game, <<>>)
Deaf == [Replies(<<>>) EXCEPT !.deaf = TRUE]
Rejected(s) == Replies(<<Reject(s)>>)
Writes(replies) == IF CanWrite(replies) THEN Replies(replies) ELSE Deaf

OnHello(p, s) == IF p = None THEN Rejected(s) ELSE Writes(<<Hello(p, Passcode, 30, Deadline, GameRules)>>)

\* The missing orders; the retreats that were ordered are not looked for.
Missing(g, p) ==
    LET now == Now(g)
    IN  CASE Kind(g) = "M" -> MissingMoves(p, now.units[p], {UnitOf(t) : t \in ToSet(g.orders[p])})
          [] Kind(g) = "R" -> MissingRetreats(p, now.retreats[p], {})
          [] OTHER -> MissingAdjustments(now.units[p], now.owned[p], now.homes[p], g.orders[p])
OnMissing(p, s) == IF p = None THEN Rejected(s) ELSE Replies(<<Missing(game, p)>>)

TurnOf(phase) == {k \in 1..Len(game.past) : Story[k].phase = phase}
HistoryOf(p, k) ==
    LET text(i) == game.past[k][p][i]
        note(i) == NoteResult(Story[k].phase, OrderClause(Story[k].phase[3], p, text(i)), OrderCodes(k, text(i)))
    IN  [i \in DOMAIN game.past[k][p] |-> note(i)]
        \o <<Ownership(Story[k + 1].owned), Position(Story[k + 1].phase, Story[k + 1].units, Story[k + 1].retreats)>>
OnHistory(p, phase, s) ==
    CASE TurnOf(phase) = {} -> Rejected(s)
      [] TurnOf(phase) # {} /\ p = None -> Deaf
      [] OTHER -> Writes(HistoryOf(p, CHOOSE k \in TurnOf(phase) : TRUE))

\* SUB: each order is set alone to see what becomes of it, then all of them.
\* An order is thanked for if it left something new behind and no error that
\* was not there before this request.
NothingNew == 60
Thanked(g, p, texts, i) ==
    LET alone == Given(g, p, <<texts[i]>>)
        faults == UNION {Faults(g, p, <<texts[j]>>) : j \in 1..i} \ g.errors
        new == IF Kind(g) = "M" THEN alone # <<>> ELSE ~(ToSet(alone) \subseteq ToSet(g.orders[p]))
    IN  IF faults = {} /\ ~new THEN {NothingNew} ELSE faults
\* A slip the checks must catch: what was tried last stays in force.
SubmittedLast(g, p, texts) ==
    LET singles == UNION {Faults(g, p, <<texts[i]>>) : i \in DOMAIN texts}
    IN  SetOrders([g EXCEPT !.errors = @ \cup singles], p, <<Last(texts)>>)
Submitted(g, p, texts) ==
    LET singles == UNION {Faults(g, p, <<texts[i]>>) : i \in DOMAIN texts}
    IN  SetOrders([g EXCEPT !.errors = @ \cup singles], p, texts)
OnSubmit(p, m, s) ==
    LET texts == [i \in DOMAIN m.orders |-> m.orders[i].text]
        after == Submitted(game, p, texts)
        thanks == [i \in DOMAIN texts |-> Thanks(m.orders[i].tokens, Thanked(game, p, texts, i))]
    IN  IF m.turn # NoTurn /\ m.turn # Now(game).phase THEN Rejected(s)
        ELSE IF p = None \/ m.orders = <<>> THEN Deaf
        ELSE IF m.pow # p THEN Rejected(s)
        ELSE Answer(thanks \o <<Missing(after, p)>>, after, <<>>)

OnGo(p, s) ==
    LET g == [game EXCEPT !.wait = @ \ {p}]
    IN  IF p = None THEN Deaf
        ELSE Answer(<<Accept(s)>>, IF p \in g.isset THEN g ELSE SetOrders(g, p, <<>>), <<>>)

\* The game is drawn when all who are left want it.
OnDraw(p, s) ==
    LET g == [game EXCEPT !.votes = @ \cup {p}]
        end == Drawn(g)
    IN  IF p = None THEN Deaf
        ELSE IF Eliminated(game, p) THEN Rejected(s)
        ELSE IF HasDrawVote(g) THEN Answer(<<Accept(s)>>, end, Notify(end, LAMBDA q : ProcessedNotes(end, q)).notes)
        ELSE Answer(<<Accept(s)>>, g, <<>>)

\* One message for each recipient; the first that is refused ends it, those
\* before it are delivered.  Press that cannot be written is not delivered.
MayWrite(p, to) == game.status = "active" /\ to \in Powers /\ to # p
PressFor(p, to, press) ==
    LET note == NotePress(p, to, PressWords(press))
        at == game.listens[to]
    IN  IF note = Unwritable \/ ~Attached(at) THEN <<>> ELSE <<<<at, note>>>>
OnPress(p, m, s) ==
    LET barred == {i \in DOMAIN m.powers : ~MayWrite(p, m.powers[i])}
        sent == IF barred = {} THEN m.powers ELSE SubSeq(m.powers, 1, (CHOOSE i \in barred : \A j \in barred : i <= j) - 1)
    IN  IF p = None THEN Deaf
        ELSE Answer(<<IF barred = {} THEN Accept(s) ELSE Reject(s)>>, game,
                    Concat(sent, LAMBDA to : PressFor(p, to, m.press)))

\* Orders are withdrawn all together or not at all.
OnNot(p, of, s) ==
    CASE of.kind \in {"SUB", "GOF", "DRW"} /\ p = None -> Deaf
      [] of.kind = "SUB" /\ p # None /\ of.orders = <<>> -> Answer(<<Accept(s)>>, ClearOrders(game, p), <<>>)
      [] of.kind = "GOF" /\ p # None -> Answer(<<Accept(s)>>, [game EXCEPT !.wait = @ \cup {p}], <<>>)
      [] of.kind = "DRW" /\ p # None /\ ~Eliminated(game, p) -> Answer(<<Accept(s)>>, [game EXCEPT !.votes = @ \ {p}], <<>>)
      [] OTHER -> Rejected(s)

\* YES (MAP (...)): a power for who has none, on_join_game.
Free(g) == {p \in Powers : ~Eliminated(g, p) /\ g.ctrl[p] = NoUser}
FirstOf(S) == PowerList[CHOOSE i \in DOMAIN PowerList : PowerList[i] \in S /\ \A j \in DOMAIN PowerList : PowerList[j] \in S => i <= j]
Choice(user) ==
    LET wished == Free(game) \cap Wish[registry.accounts[user].name]
    IN  FirstOf(IF wished # {} THEN wished ELSE Free(game))
Join(c, s) ==
    LET p == Choice(conn[c].user)
        joined == [game EXCEPT !.ctrl[p] = conn[c].user, !.listens[p] = c, !.wait = @ \cup {p}]
        started == [joined EXCEPT !.status = "active"]
    IN  IF Cardinality(Controlled(game)) = Expected THEN Rejected(s)
        ELSE IF game.status = "forming" /\ Cardinality(Controlled(joined)) = Expected
             THEN Answer(<<>>, started, Notify(started, LAMBDA q : StartedNotes(started, q)).notes)
        ELSE Answer(<<>>, joined, <<>>)
OnAccept(c, p, m, s) ==
    IF m.answer = <<>> THEN Deaf
    ELSE IF m.answer[1] # Token("MAP") \/ p # None THEN Replies(<<>>)
    ELSE IF Free(game) = {} THEN Replies(<<TurnOff>>)
    ELSE IF conn[c].user = NoUser THEN Deaf
    ELSE Join(c, s)
OnReject(m) ==
    IF m.answer = <<>> THEN Deaf ELSE IF m.answer[1] = Token("MAP") THEN Replies(<<TurnOff>>) ELSE Replies(<<>>)

\* daide/request_managers.handle_request, but for NME.  IAM looks for
\* the users where there are none; the map's definition is the matter of DaideMap.
Handle(c, f) ==
    LET m == f.meaning.val
        s == f.body
        p == PowerOf(game, conn[c].user)
    IN  IF ~f.meaning.ok THEN Deaf
        ELSE IF game.status = "completed" THEN Rejected(s)
        ELSE CASE m.kind = "IAM" -> Deaf
               [] m.kind \in {"OBS", "TME", "ADM"} -> Rejected(s)
               [] m.kind \in {"PRN", "HUH"} -> Replies(<<>>)
               [] m.kind = "HLO" -> OnHello(p, s)
               [] m.kind = "MAP" -> Replies(<<MapName(MapTitle)>>)
               [] m.kind = "MDF" -> Replies(<<<<Token("MDF")>>>>)
               [] m.kind = "SCO" -> Replies(<<Ownership(Now(game).owned)>>)
               [] m.kind = "NOW" -> Replies(<<Position(Now(game).phase, Now(game).units, Now(game).retreats)>>)
               [] m.kind = "HST" -> OnHistory(p, m.turn, s)
               [] m.kind = "SUB" -> OnSubmit(p, m, s)
               [] m.kind = "MIS" -> OnMissing(p, s)
               [] m.kind = "GOF" -> OnGo(p, s)
               [] m.kind = "DRW" -> OnDraw(p, s)
               [] m.kind = "SND" -> OnPress(p, m, s)
               [] m.kind = "NOT" -> OnNot(p, m.of, s)
               [] m.kind = "YES" -> OnAccept(c, p, m, s)
               [] m.kind = "REJ" -> OnReject(m)
----------------------------------------------------------------------------
(* The messages around them (daide/messages.py).  The first is an IM with  *)
(* the version and a magic number; nothing keeps it from coming later, or  *)
(* not at all.  A DM needs a word; what only a server says is an error.    *)

NoError == 0
\* 0xDA10, and its bytes in the wrong order.
Magic == 55824
Swapped == 4314
OnInitial(body) ==
    CASE body[1] # 1 -> <<Sent("EM", <<5>>)>>
      [] body[1] = 1 /\ body[2] = Swapped -> <<Sent("EM", <<3>>)>>
      [] body[1] = 1 /\ body[2] \notin {Swapped, Magic} -> <<Sent("EM", <<4>>)>>
      [] OTHER -> <<Sent("RM", <<>>)>>
Wrapped(answer) == [answer EXCEPT !.replies = [i \in DOMAIN @ |-> Sent("DM", @[i])]]
Says(replies) == [Replies(<<>>) EXCEPT !.replies = replies]
Hears(c, f) ==
    CASE f.type = "IM" -> Says(OnInitial(f.body))
      [] f.type = "RM" -> Says(<<Sent("EM", <<13>>)>>)
      [] f.type = "EM" -> Says(<<>>)
      [] f.type = "DM" /\ f.body = <<>> -> Says(<<Sent("EM", <<NoError>>)>>)
      [] f.type = "DM" /\ f.body # <<>> -> Wrapped(Handle(c, f))
      [] OTHER -> Deaf
----------------------------------------------------------------------------
(* The steps. *)

Reads(c) == conn[c].st = "open"
MayNotify == Len(queue) <= Backlog
MayBreak == Cardinality({c \in Conns : conn[c].st = "closed"}) < MaxBreaks

Init ==
    /\ conn = [c \in Conns |-> [st |-> "new", variant |-> NoVariant, user |-> NoUser]]
    /\ registry = [pool |-> <<>>, used |-> <<>>, accounts |-> <<>>]
    /\ game = [status |-> "forming", port |-> TRUE, turn |-> 1, drawn |-> FALSE, ctrl |-> [p \in Powers |-> NoUser],
               listens |-> [p \in Powers |-> None], orders |-> NoOrders, errors |-> {}, isset |-> {},
               wait |-> Powers, votes |-> {}, past |-> <<>>]
    /\ queue = <<>>
    /\ told = [c \in Conns |-> 0]

\* Server.handle_stream
Connect(c) ==
    /\ conn[c].st = "new" /\ game.port
    /\ conn' = [conn EXCEPT ![c].st = "open"]
    /\ UNCHANGED <<registry, game, queue, told>>

\* The stream is closed: nothing is read or written any more.
Leave(c) ==
    /\ conn[c].st \in {"open", "deaf"} /\ MayBreak
    /\ conn' = [conn EXCEPT ![c].st = "closed"]
    /\ UNCHANGED <<registry, game, queue, told>>
\* A final message does the same.
HearFinal(c) == \E f \in Frames[c] : f.type = "FM" /\ Reads(c) /\ Leave(c)

\* A slip the checks must catch: the variant is forgotten.
ReleasedForGood(n, v) == [n EXCEPT !.used = RemoveFirst(@, v)]
Released(n, v) == [n EXCEPT !.used = RemoveFirst(@, v), !.pool = Append(@, v)]
\* on_connection_close, a callback after the stream was closed: the variant of
\* the name can be used again, the token has no connection.  (Without a variant
\* the release fails; there is no token to forget then either.)
OnConnectionClose(c) ==
    /\ conn[c].st = "closed" /\ conn[c].variant # NoVariant
    /\ conn' = [conn EXCEPT ![c].variant = NoVariant, ![c].user = NoUser]
    /\ registry' = Released(registry, conn[c].variant)
    /\ UNCHANGED <<game, queue, told>>

\* NME: the name is the variant and the name the client gives; whoever has no
\* token yet is signed in under it, in a new account or in the one of that name.
Variant(c) ==
    IF conn[c].variant # NoVariant THEN conn[c].variant
    ELSE IF registry.pool # <<>> THEN Head(registry.pool) ELSE Len(registry.used)
UserOf(v, name) == VariantText[v] \o name
WithAccount(user, player) ==
    [u \in {user} \cup DOMAIN registry.accounts |-> IF u = user THEN player ELSE registry.accounts[u]]
IsName(f) == f.type = "DM" /\ f.meaning.ok /\ f.meaning.val.kind = "NME"
Introduce(c, f) ==
    LET m == f.meaning.val
        v == Variant(c)
        user == UserOf(v, m.name)
        new == user \notin DOMAIN registry.accounts
    IN  /\ IsName(f) /\ Reads(c) /\ game.status # "completed"
        /\ conn' = [conn EXCEPT ![c].variant = v, ![c].user = IF @ = NoUser THEN user ELSE @]
        /\ registry' = [pool |-> IF conn[c].variant = NoVariant /\ registry.pool # <<>> THEN Tail(registry.pool) ELSE registry.pool,
                     used |-> IF conn[c].variant = NoVariant THEN Append(registry.used, v) ELSE registry.used,
                     accounts |-> IF conn[c].user = NoUser /\ new THEN WithAccount(user, [name |-> m.name, version |-> m.version])
                                  ELSE registry.accounts]
        /\ UNCHANGED <<game, queue, told>>

\* ConnectionHandler.read_stream, for all other messages.
Hear(c, f) ==
    /\ Reads(c) /\ f.type # "FM" /\ ~(IsName(f) /\ game.status # "completed")
    /\ \E a \in {Hears(c, f)} :
          /\ a.notes # <<>> => MayNotify
          /\ game' = a.game /\ queue' = queue \o a.notes
          /\ conn' = [conn EXCEPT ![c].st = IF a.deaf THEN "deaf" ELSE @]
    /\ UNCHANGED <<registry, told>>

\* Server._process_game: when no one waits, or when the time is up.  At the
\* end the DAIDE server of the game is stopped: all its connections are told
\* OFF and closed at once, whatever still waits to be sent.
Process ==
    LET next == Processed(game)
        out == Notify(next, LAMBDA p : ProcessedNotes(next, p))
        over == next.status = "completed" /\ ~out.failed
    IN  /\ game.status = "active" /\ MayNotify
        /\ Deadline > 0 \/ DoesNotWait(game)
        /\ Leads(game)
        /\ queue' = queue \o out.notes
        /\ game' = [next EXCEPT !.port = ~over]
        /\ conn' = [c \in Conns |-> IF over /\ conn[c].st # "new" THEN [conn[c] EXCEPT !.st = "closed"] ELSE conn[c]]
        /\ UNCHANGED <<registry, told>>

\* Server._task_send_notifications
IsPress(note) == note[1] = Token("FRM")
SendNote ==
    LET c == Head(queue)[1]
    IN  /\ queue # <<>>
        /\ queue' = Tail(queue)
        /\ told' = IF conn[c].st = "closed" \/ IsPress(Head(queue)[2]) THEN told ELSE [told EXCEPT ![c] = @ + 1]
        /\ UNCHANGED <<conn, registry, game>>

Next ==
    \/ \E c \in Conns : Connect(c) \/ Leave(c) \/ HearFinal(c) \/ OnConnectionClose(c) \/ \E f \in Frames[c] : Introduce(c, f) \/ Hear(c, f)
    \/ Process
    \/ SendNote

Spec == Init /\ [][Next]_vars /\ WF_vars(SendNote)
----------------------------------------------------------------------------
TypeOK ==
    /\ \A c \in Conns : /\ conn[c].st \in {"new", "open", "deaf", "closed"}
                         /\ conn[c].variant \in {NoVariant} \cup Variants
                         /\ conn[c].user \in {NoUser} \cup DOMAIN registry.accounts
                         /\ told[c] \in Nat
    /\ game.status \in {"forming", "active", "completed"} /\ game.port \in BOOLEAN /\ game.drawn \in BOOLEAN
    /\ game.turn \in DOMAIN Story /\ Len(game.past) \in {game.turn - 1, game.turn}
    /\ game.isset \subseteq Powers /\ game.wait \subseteq Powers /\ game.votes \subseteq Powers
    /\ \A p \in Powers : game.ctrl[p] \in {NoUser} \cup DOMAIN registry.accounts /\ game.listens[p] \in {None} \cup Conns

\* No two connected programs have the same variant, so none takes the user of
\* another; variants are given back, by position, when a connection closes and
\* given out again (connection_handler.py:82-94).
NamesAreDistinct ==
    /\ \A c, d \in Conns : conn[c].variant # NoVariant /\ conn[c].variant = conn[d].variant => c = d
    /\ \A c, d \in Conns : conn[c].user # NoUser /\ conn[c].user = conn[d].user => c = d

\* A connection that is told about a power is that of the player of the power,
\* and a user plays one power, also when clients leave and their names are
\* taken again by others (request_managers.py:516-538).
ListenersPlay ==
    /\ \A p \in Powers : Attached(game.listens[p]) => game.ctrl[p] = conn[game.listens[p]].user
    /\ \A p, q \in Powers : game.ctrl[p] # NoUser /\ game.ctrl[p] = game.ctrl[q] => p = q

\* Connections, names and players are sound, all in all.
PlayersAreKnown == TypeOK /\ NamesAreDistinct /\ ListenersPlay

\* What a player is told, press aside, is its game in order, with nothing left
\* out or repeated: HLO and the first position, for each turn the results of
\* its own orders of that turn and then the new position, and the end: the
\* summary and OFF, with no DRW before them though the game was drawn
\* (notification_managers.py:91-162, notifier.py:122-157).
Results(p, k) ==
    [i \in DOMAIN game.past[k][p] |->
        NoteResult(Story[k].phase, OrderClause(Story[k].phase[3], p, game.past[k][p][i]), OrderCodes(k, game.past[k][p][i]))]
Shown(k) == <<Ownership(Story[k].owned), Position(Story[k].phase, Story[k].units, Story[k].retreats)>>
Script(p) ==
    LET shown(k) == Append(Shown(k), NoteDeadline(Deadline))
        turn(k) == Results(p, k) \o (IF k < game.turn THEN shown(k + 1) ELSE <<>>)
        players == [q \in Powers |-> PlayerOf(game, q)]
        years == [q \in Powers |-> YearGone(game, q)]
    IN  IF game.status = "forming" THEN <<>>
        ELSE <<Hello(p, Passcode, 30, Deadline, GameRules)>> \o shown(1)
             \o Concat([k \in DOMAIN game.past |-> k], turn)
             \o (IF game.drawn THEN <<NoteSummary(Now(game).phase, players, Now(game).owned, years), TurnOff>> ELSE <<>>)
There == {p \in Powers : Attached(game.listens[p]) /\ conn[game.listens[p]].st # "closed"}
ToldInOrder ==
    \A p \in There :
        LET c == game.listens[p]
            mine == SelectSeq(queue, LAMBDA note : note[1] = c /\ ~IsPress(note[2]))
        IN  [i \in DOMAIN mine |-> mine[i][2]] = Drop(Script(p), told[c])

\* The history of a turn is what the player was told of it, though two places
\* of the code write it (request_managers.py:206-265).
HistoryRepeats ==
    game.status = "active" => \A p \in Powers, k \in DOMAIN game.past : HistoryOf(p, k) = Results(p, k) \o Shown(k + 1)

\* What waits to be sent is tokens, for a connection.
NotesAreWords == \A i \in DOMAIN queue : queue[i][1] \in Conns /\ queue[i][2] \in Seq(Int)

\* What a player is told, then or when it asks for the past, is one story.
StoryIsTold == ToldInOrder /\ HistoryRepeats /\ NotesAreWords

\* Movement orders of different units that are all thanked for with MBV are the
\* orders in force afterwards, though each was tried alone before
\* (request_managers.py:294-329).
Given1(m) == {m.orders[i].text : i \in DOMAIN m.orders}
IsSubmit(c, f) == Reads(c) /\ game.status # "completed" /\ f.type = "DM" /\ f.meaning.ok /\ f.meaning.val.kind = "SUB"
ThanksMeansOrdered ==
    \A c \in Conns : \A f \in {x \in Frames[c] : IsSubmit(c, x) /\ Kind(game) = "M"} :
    \A a \in {OnSubmit(PowerOf(game, conn[c].user), f.meaning.val, f.body)} :
        LET m == f.meaning.val
            thanked == {i \in DOMAIN m.orders : a.replies[i] = Thanks(m.orders[i].tokens, {})}
            distinct == Cardinality({UnitOf(t) : t \in Given1(m)}) = Len(m.orders)
        IN  Len(a.replies) = Len(m.orders) + 1 /\ thanked = DOMAIN m.orders /\ distinct
            => ToSet(a.game.orders[m.pow]) = Given1(m)

\* Press that is answered with YES, and can be written, is on its way to every
\* recipient that is there, once for each time it is named, and to no one else
\* (request_managers.py:410-438).
IsSend(c, f) == Reads(c) /\ game.status # "completed" /\ f.type = "DM" /\ f.meaning.ok /\ f.meaning.val.kind = "SND"
PressIsForwarded ==
    \A c \in Conns : \A f \in {x \in Frames[c] : IsSend(c, x)} :
    \A a \in {OnPress(PowerOf(game, conn[c].user), f.meaning.val, f.body)} :
        LET m == f.meaning.val
            from == PowerOf(game, conn[c].user)
            note(to) == <<game.listens[to], NotePress(from, to, PressWords(m.press))>>
            there == SelectSeq(m.powers, LAMBDA to : to \in ToSet(Listeners(game)))
        IN  a.replies = <<Accept(f.body)>> /\ (\A i \in DOMAIN m.press : ~IsInteger(m.press[i]))
            => a.notes = [i \in DOMAIN there |-> note(there[i])]

\* What the server answers to a program is true of what it did.
AnswersHold == ThanksMeansOrdered /\ PressIsForwarded

\* When the game is over every player that is still there is told all of it, to
\* the OFF, or is cut off with an OFF (server.py:443-445).
EndIsTold ==
    game.status = "completed" ~> game.status = "completed" /\ \A p \in There : told[game.listens[p]] = Len(Script(p))
=============================================================================
