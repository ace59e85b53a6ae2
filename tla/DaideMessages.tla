--------------------------- MODULE DaideMessages ---------------------------
(***************************************************************************)
(* The messages between a DAIDE program and the server: the requests the   *)
(* server reads (diplomacy/daide/requests.py), its responses               *)
(* (daide/responses.py) and its notifications (daide/notifications.py).    *)
(*                                                                         *)
(* A request is read as [kind, ...] with the fields of its class.  A       *)
(* response that cannot be written, because a number or a word in it has   *)
(* no token, is Unwritable (the code raises ValueError).                   *)
(***************************************************************************)
EXTENDS DaideClauses, FiniteSets

CONSTANTS
    PowerList,       \* the powers of the game, sorted
    Centers,         \* the supply centers in the order of Map.scs
    PlaceList        \* all locations, sorted

Unwritable == <<-1>>
SortedBy(list, S) == SelectSeq(list, LAMBDA x : x \in S)
Concat(list, Clause(_)) == FoldLeft(LAMBDA acc, x : acc \o Clause(x), <<>>, list)
----------------------------------------------------------------------------
(* Requests.  Each reader is given the tokens after the first one. *)

Request(fields) == Read(fields, <<>>)
OnlyIf(p, fields) == IF AtEnd(p) THEN Request(fields) ELSE Fail

ReadPlain(kind, s) == IF s = <<>> THEN Request([kind |-> kind]) ELSE Fail
ReadObserver(s) == ReadPlain("OBS", s)
ReadUpdate(kind, s) == ReadPlain(kind, s)
ReadTurnFlag(kind, s) == ReadPlain(kind, s)

ReadName(s) ==
    Chain(ReadString(s), LAMBDA name, rest :
    Chain(ReadString(rest), LAMBDA version, r2 :
        IF r2 = <<>> THEN Request([kind |-> "NME", name |-> name, version |-> version]) ELSE Fail))

ReadIAm(s) ==
    Chain(Group(s), LAMBDA who, rest :
        IF AtEnd(ReadPower(who)) /\ AtEnd(Group(rest)) /\ Len(Group(rest).val) = 1
        THEN Request([kind |-> "IAM", pow |-> ReadPower(who).val]) ELSE Fail)

ReadHistory(s) ==
    Chain(ReadTurn(s), LAMBDA turn, rest : IF rest = <<>> THEN Request([kind |-> "HST", turn |-> turn]) ELSE Fail)

\* The orders up to the end; the request is for the power of the first one.
OrdersIn(s) ==
    LET next(p, n) == Chain(p, LAMBDA orders, left :
                          IF left = <<>> THEN p
                          ELSE Chain(ReadOrder(left), LAMBDA order, rest : Read(Append(orders, order), rest)))
    IN  FoldLeft(next, Read(<<>>, s), [n \in DOMAIN s |-> n])
Anyone == "no power"
ReadSubmit(s) ==
    Chain(ReadOptionalTurn(s), LAMBDA turn, r1 :
    Chain(OrdersIn(r1), LAMBDA orders, rest :
        Request([kind |-> "SUB", turn |-> turn, orders |-> orders,
                 pow |-> IF orders = <<>> THEN Anyone ELSE orders[1].pow])))

\* What follows the group is not looked at.
ReadDeadline(s) ==
    IF HasGroup(s) THEN OnlyIf(ReadNumber(Group(s).val), [kind |-> "TME"])
    ELSE ReadPlain("TME", s)

PowersIn(s) == [i \in DOMAIN s |-> Alias(PowerNames, Str(s[i]))]
ReadDraw(s) ==
    IF HasGroup(s) THEN OnlyIf(Group(s), [kind |-> "DRW"]) ELSE ReadPlain("DRW", s)

\* SND (turn) (power power ...) (press)
ReadPress(s) ==
    Chain(ReadOptionalTurn(s), LAMBDA turn, r1 :
    Chain(Group(r1), LAMBDA powers, r2 :
    Chain(Group(r2), LAMBDA press, rest :
        IF powers # <<>> /\ press # <<>> /\ rest = <<>>
        THEN Request([kind |-> "SND", powers |-> PowersIn(powers), press |-> press]) ELSE Fail)))

ReadAnswer(kind, s) == OnlyIf(Group(s), [kind |-> kind, answer |-> Group(s).val])

\* The unbalanced message of a PRN may be the rest of the tokens.
ReadParenthesisError(s) ==
    IF HasGroup(s) THEN OnlyIf(Group(s), [kind |-> "PRN"])
    ELSE IF Len(s) >= 2 /\ s[1] = OPE /\ Last(s) = CLO THEN Request([kind |-> "PRN"]) ELSE Fail
ReadSyntaxError(s) == OnlyIf(Group(s), [kind |-> "HUH"])
ReadAdmin(s) == OnlyIf(ReadString(s), [kind |-> "ADM"])

\* RequestBuilder.from_bytes, but for NOT.
ReadRequest(s) ==
    LET kind == Str(s[1])
        body == Tail(s)
    IN  IF s = <<>> \/ \E i \in DOMAIN s : ~IsWord(s[i]) THEN Fail
        ELSE CASE kind = "OBS" -> ReadObserver(body)
               [] kind \in {"HLO", "MAP", "MDF", "SCO", "NOW"} -> ReadUpdate(kind, body)
               [] kind \in {"MIS", "GOF"} -> ReadTurnFlag(kind, body)
               [] kind = "NME" -> ReadName(body)
               [] kind = "IAM" -> ReadIAm(body)
               [] kind = "HST" -> ReadHistory(body)
               [] kind = "SUB" -> ReadSubmit(body)
               [] kind = "TME" -> ReadDeadline(body)
               [] kind = "DRW" -> ReadDraw(body)
               [] kind = "SND" -> ReadPress(body)
               [] kind \in {"YES", "REJ"} -> ReadAnswer(kind, body)
               [] kind = "PRN" -> ReadParenthesisError(body)
               [] kind = "HUH" -> ReadSyntaxError(body)
               [] kind = "ADM" -> ReadAdmin(body)
               [] OTHER -> Fail

\* NOT (request); an empty group is no request.  (A NOT in a NOT is left out.)
Nothing == [kind |-> "nothing"]
Parse(s) ==
    IF s = <<>> \/ s[1] # Token("NOT") THEN ReadRequest(s)
    ELSE IF \E i \in DOMAIN s : ~IsWord(s[i]) THEN Fail
    ELSE Chain(Group(Tail(s)), LAMBDA body, rest :
            IF rest # <<>> THEN Fail
            ELSE IF body = <<>> THEN Request([kind |-> "NOT", of |-> Nothing])
            ELSE Chain(ReadRequest(body), LAMBDA of, r : Request([kind |-> "NOT", of |-> of])))
----------------------------------------------------------------------------
(* Responses. *)

MapName(name) == <<Token("MAP")>> \o StringClause(name)

Hello(pow, passcode, level, deadline, rules) ==
    LET limit(name) == Paren(<<Token(name), Number(deadline)>>)
        variants == Paren(<<Token("LVL"), Number(IF "NO_PRESS" \in rules THEN 0 ELSE level)>>)
                    \o (IF deadline > 0 THEN limit("MTL") \o limit("RTL") \o limit("BTL") ELSE <<>>)
                    \o (IF "NO_CHECK" \in rules THEN Paren(<<Token("AOA")>>) ELSE <<>>)
    IN  IF ~IsNumber(deadline) THEN Unwritable
        ELSE <<Token("HLO")>> \o Paren(<<PowerToken(pow)>>) \o Paren(<<Number(passcode)>>) \o Paren(variants)

\* owned[p]: the centers of the power p.
Ownership(owned) ==
    LET free == SelectSeq(Centers, LAMBDA l : \A p \in ToSet(PowerList) : l \notin owned[p])
        clause(p) == Paren(<<PowerToken(p)>> \o Concat(SortedBy(PlaceList, owned[p]), ProvinceClause))
    IN  <<Token("SCO")>> \o Concat(PowerList, clause) \o Paren(<<Token("UNO")>> \o Concat(free, ProvinceClause))

\* A dislodged unit and where it may go.
Retreating(pow, unit, places) ==
    LET clause == UnitClause(pow, unit)
    IN  Paren(SubSeq(clause, 2, Len(clause) - 1) \o <<Token("MRT")>> \o Paren(Concat(places, ProvinceClause)))

\* units[p] and retreats[p] are sequences, of units and of [unit, places].
Position(phase, units, retreats) ==
    LET clause(p) == Concat(units[p], LAMBDA u : UnitClause(p, u))
                     \o Concat(retreats[p], LAMBDA r : Retreating(p, r.unit, r.places))
    IN  <<Token("NOW")>> \o TurnClause(phase) \o Concat(PowerList, clause)

\* results: the codes of the errors, 0 is no error.
Thanks(order, results) ==
    <<Token("THX")>> \o order \o Paren(<<Token(IF results = {} \/ 0 \in results THEN "MBV" ELSE "NYU")>>)

MissingMoves(pow, units, ordered) ==
    <<Token("MIS")>> \o Concat(SelectSeq(units, LAMBDA u : u \notin ordered), LAMBDA u : UnitClause(pow, u))

\* retreats in the order of the provinces.
MissingRetreats(pow, retreats, ordered) ==
    <<Token("MIS")>> \o Concat(SelectSeq(retreats, LAMBDA r : r.unit \notin ordered),
                               LAMBDA r : Retreating(pow, r.unit, r.places))

\* The units to remove, or (negative) the units that can still be built.
MissingAdjustments(units, owned, homes, adjust) ==
    LET of(kind) == Cardinality({i \in DOMAIN adjust : Len(adjust[i]) = 3 /\ adjust[i][3] = kind})
        surplus == Len(units) + of("B") - Cardinality(owned) - of("D")
        free == homes \ {units[i][2] : i \in DOMAIN units}
    IN  <<Token("MIS")>> \o Paren(<<Number(IF surplus < -Cardinality(free) THEN -Cardinality(free) ELSE surplus)>>)

Accept(request) == <<Token("YES")>> \o Paren(request)
Reject(request) == <<Token("REJ")>> \o Paren(request)
TurnOff == <<Token("OFF")>>
----------------------------------------------------------------------------
(* Notifications; those the code builds like the response of the same name *)
(* have a class of their own.                                              *)

NoteHello(pow, passcode, level, deadline, rules) == Hello(pow, passcode, level, deadline, rules)
NoteOwnership(owned) == Ownership(owned)
NotePosition(phase, units, retreats) == Position(phase, units, retreats)
NoteOff == TurnOff

NoteResult(phase, order, results) ==
    <<Token("ORD")>> \o TurnClause(phase) \o Paren(order)
    \o Paren(<<Token(IF results = {} \/ 0 \in results THEN "SUC" ELSE "NSO")>>)

NoteDeadline(seconds) ==
    IF IsNumber(seconds) THEN <<Token("TME")>> \o Paren(<<Number(seconds)>>) ELSE Unwritable

NoteDraw == <<Token("DRW")>>
NoteSolo(pow) == <<Token("SLO")>> \o Paren(<<PowerToken(pow)>>)

\* The press is kept as text: its words are read back as names or characters.
PressWords(press) == [i \in DOMAIN press |-> Str(press[i])]
NotePress(from, to, words) ==
    IF \A i \in DOMAIN words : IsToken(words[i])
    THEN <<Token("FRM")>> \o Paren(<<PowerToken(from)>>) \o Paren(<<PowerToken(to)>>) \o Paren(Tokens(words))
    ELSE Unwritable

\* players[p]: the name and the version of who plays p; a power without
\* centers needs the year it was eliminated in, 0 if it was not.
NoteSummary(phase, players, owned, years) ==
    LET clause(p) == Paren(<<PowerToken(p)>> \o StringClause(players[p].name) \o StringClause(players[p].version)
                           \o <<Number(Cardinality(owned[p]))>> \o (IF owned[p] = {} THEN <<Number(years[p])>> ELSE <<>>))
    IN  IF \E p \in ToSet(PowerList) : owned[p] = {} /\ years[p] = 0 THEN Unwritable
        ELSE <<Token("SMR")>> \o TurnClause(phase) \o Concat(PowerList, clause)
============================================================================
