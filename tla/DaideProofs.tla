---------------------------- MODULE DaideProofs ----------------------------
(***************************************************************************)
(* Proofs about the names and the players of Daide, for any number of      *)
(* connections and whatever they send.                                     *)
(*                                                                         *)
(* That no two programs have one variant needs more than itself: that the  *)
(* variants in use and in the pool are the first numbers, each once, so    *)
(* that the length of the list of those in use is new when the pool is     *)
(* empty; and that those in use are exactly those of the connections.      *)
(***************************************************************************)
EXTENDS Daide, FiniteSetTheorems, SequenceTheorems, TLAPS

Chosen == {c \in Conns : conn[c].variant # NoVariant}
Injective(s) == \A i, j \in DOMAIN s : s[i] = s[j] => i = j

\* The texts that are given as names.
NamesGiven == {f.meaning.val.name : f \in {x \in UNION {Frames[c] : c \in Conns} : IsName(x)}}

\* A connection has a variant and a user, or neither: the user is one that is
\* made of the variant and some name.
ConnOK ==
    /\ conn \in [Conns -> [st : {"new", "open", "deaf", "closed"}, variant : {NoVariant} \cup Variants, user : Seq(Symbols)]]
    /\ \A c \in Conns :
          /\ conn[c].st = "new" => conn[c].variant = NoVariant
          /\ conn[c].variant = NoVariant => conn[c].user = NoUser
          /\ conn[c].variant # NoVariant => \E n \in NamesGiven : conn[c].user = UserOf(conn[c].variant, n)
          /\ conn[c].user # NoUser => conn[c].user \in DOMAIN registry.accounts

\* The variants in use and in the pool are the first numbers, each once; those
\* in use are those of the connections.
Taken == Len(registry.used) + Len(registry.pool)
RegistryOK ==
    /\ registry = [pool |-> registry.pool, used |-> registry.used, accounts |-> registry.accounts]
    /\ registry.used \in Seq(Nat) /\ Injective(registry.used)
    /\ registry.pool \in Seq(Nat) /\ Injective(registry.pool)
    /\ ToSet(registry.used) \cap ToSet(registry.pool) = {}
    /\ ToSet(registry.used) \cup ToSet(registry.pool) = 0..(Taken - 1)
    /\ Taken <= Cardinality(Conns)
VariantsOK ==
    /\ ToSet(registry.used) = {conn[c].variant : c \in Chosen}
    /\ \A c, d \in Chosen : conn[c].variant = conn[d].variant => c = d

\* The game alone.
GameOK(g) ==
    /\ DOMAIN g = {"status", "port", "turn", "drawn", "ctrl", "listens", "orders", "errors", "isset", "wait", "votes", "past"}
    /\ g.status \in {"forming", "active", "completed"} /\ g.port \in BOOLEAN /\ g.drawn \in BOOLEAN
    /\ g.turn \in 1..Len(Story) /\ (g.status # "completed" => g.turn < Len(Story) /\ ~g.drawn)
    /\ g.past \in Seq(ToSet(g.past)) /\ Len(g.past) = IF g.drawn THEN g.turn ELSE g.turn - 1
    /\ g.isset \subseteq Powers /\ g.wait \subseteq Powers /\ g.votes \subseteq Powers
\* The powers are played by users that have an account, each by one; who is
\* told about a power and still has its name is its player, and who has lost
\* its name does not come back.
PlayersOK ==
    /\ game.ctrl \in [Powers -> {NoUser} \cup DOMAIN registry.accounts]
    /\ game.listens \in [Powers -> {None} \cup Conns]
    /\ ListenersPlay
    /\ \A p \in Powers : game.listens[p] # None /\ ~Attached(game.listens[p]) => conn[game.listens[p]].st = "closed"

IInv ==
    /\ ConnOK /\ RegistryOK /\ VariantsOK
    /\ GameOK(game) /\ PlayersOK
    /\ told \in [Conns -> Nat]
----------------------------------------------------------------------------
(* Lemmas about numbers, sequences and names. *)

\* Every non-empty set of natural numbers has a least element.
LEMMA LeastLemma ==
    ASSUME NEW A, A \subseteq Nat, A # {}
    PROVE  \E x \in A : \A y \in A : x <= y
  <1>1. PICK x \in A : \A y \in A : ~(<<y, x>> \in OpToRel(<, Nat))
    BY NatLessThanWellFounded, WFMin
  <1>2. \A y \in A : ~(y < x)
    BY <1>1 DEF OpToRel
  <1>. QED  BY <1>2

\* The first of some powers is one of them.
LEMMA FirstOfLemma ==
    ASSUME NEW S, S \subseteq Powers, S # {}
    PROVE  FirstOf(S) \in S
  <1>. DEFINE I == {i \in DOMAIN PowerList : PowerList[i] \in S}
  <1>1. I \subseteq Nat /\ I # {}
    BY DaideAssumption DEF Powers, ToSet
  <1>2. \E i \in I : \A j \in I : i <= j
    BY <1>1, LeastLemma
  <1>3. \E i \in DOMAIN PowerList : PowerList[i] \in S /\ \A j \in DOMAIN PowerList : PowerList[j] \in S => i <= j
    BY <1>2
  <1>. QED  BY <1>3 DEF FirstOf

\* Two names are the same only if the variants are, unless a name starts with
\* a digit.
PlainNames == \A n \in NamesGiven : n # <<>> => n[1] \notin Digits
LEMMA UserOfLemma ==
    ASSUME PlainNames, NEW v \in Variants, NEW w \in Variants, NEW m \in NamesGiven, NEW n \in NamesGiven,
           m \in Seq(Symbols), n \in Seq(Symbols), UserOf(v, m) = UserOf(w, n)
    PROVE  v = w
  <1>. DEFINE a == VariantText[v]
              b == VariantText[w]
  <1>1. a \in Seq(Digits) /\ b \in Seq(Digits)
    BY TextAssumption
  <1>2. a \o m = b \o n
    BY DEF UserOf
  <1>3. a = b => v = w
    BY TextAssumption
  <1>. HIDE DEF a, b
  <1>4. /\ Len(a \o m) = Len(a) + Len(m) /\ Len(b \o n) = Len(b) + Len(n)
        /\ Len(a) \in Nat /\ Len(b) \in Nat /\ Len(m) \in Nat /\ Len(n) \in Nat
    BY <1>1
  <1>5. /\ \A i \in 1..(Len(a) + Len(m)) : (a \o m)[i] = IF i <= Len(a) THEN a[i] ELSE m[i - Len(a)]
        /\ \A i \in 1..(Len(b) + Len(n)) : (b \o n)[i] = IF i <= Len(b) THEN b[i] ELSE n[i - Len(b)]
    BY <1>1
  <1>6. (m # <<>> => m[1] \notin Digits) /\ (n # <<>> => n[1] \notin Digits)
    BY DEF PlainNames
  <1>7. (m # <<>> <=> Len(m) # 0) /\ (n # <<>> <=> Len(n) # 0)
    OBVIOUS
  <1>8. /\ \A i \in 1..Len(a) : a[i] \in Digits
        /\ \A i \in 1..Len(b) : b[i] \in Digits
    BY <1>1
  <1>9. ~(Len(a) < Len(b))
    <2>. SUFFICES ASSUME Len(a) < Len(b) PROVE FALSE
      OBVIOUS
    <2>1. Len(m) # 0 /\ Len(a) + 1 \in 1..(Len(a) + Len(m)) /\ Len(a) + 1 \in 1..(Len(b) + Len(n))
      BY <1>2, <1>4
    <2>2. (a \o m)[Len(a) + 1] = m[1] /\ (b \o n)[Len(a) + 1] = b[Len(a) + 1]
      BY <1>4, <1>5, <2>1
    <2>. QED  BY <1>2, <1>4, <1>6, <1>7, <1>8, <2>1, <2>2
  <1>10. ~(Len(b) < Len(a))
    <2>. SUFFICES ASSUME Len(b) < Len(a) PROVE FALSE
      OBVIOUS
    <2>1. Len(n) # 0 /\ Len(b) + 1 \in 1..(Len(b) + Len(n)) /\ Len(b) + 1 \in 1..(Len(a) + Len(m))
      BY <1>2, <1>4
    <2>2. (b \o n)[Len(b) + 1] = n[1] /\ (a \o m)[Len(b) + 1] = a[Len(b) + 1]
      BY <1>4, <1>5, <2>1
    <2>. QED  BY <1>2, <1>4, <1>6, <1>7, <1>8, <2>1, <2>2
  <1>11. Len(a) = Len(b)
    BY <1>4, <1>9, <1>10
  <1>12. \A i \in 1..Len(a) : a[i] = b[i]
    <2>. TAKE i \in 1..Len(a)
    <2>1. i \in 1..(Len(a) + Len(m)) /\ i \in 1..(Len(b) + Len(n)) /\ i <= Len(a) /\ i <= Len(b)
      BY <1>4, <1>11
    <2>. QED  BY <1>2, <1>5, <2>1
  <1>13. a = b
    BY <1>1, <1>11, <1>12
  <1>. QED  BY <1>3, <1>13

\* A name that is given is a text, and the user is not empty.
LEMMA NamesLemma ==
    /\ \A n \in NamesGiven : n \in Seq(Symbols)
    /\ \A v \in Variants, n \in NamesGiven : UserOf(v, n) \in Seq(Symbols) /\ UserOf(v, n) # NoUser
  <1>1. ASSUME NEW n \in NamesGiven PROVE n \in Seq(Symbols)
    BY FramesAssumption DEF NamesGiven, IsName
  <1>2. ASSUME NEW v \in Variants, NEW n \in NamesGiven
        PROVE  UserOf(v, n) \in Seq(Symbols) /\ UserOf(v, n) # NoUser
    <2>1. VariantText[v] \in Seq(Digits) /\ VariantText[v] # <<>>
      BY TextAssumption
    <2>2. VariantText[v] \in Seq(Symbols)
      <3>1. Digits \subseteq Symbols
        BY DEF Symbols
      <3>. HIDE DEF Symbols
      <3>2. ASSUME NEW t \in Seq(Digits) PROVE t \in Seq(Symbols)
        BY <3>1
      <3>. QED  BY <2>1, <3>2
    <2>3. n \in Seq(Symbols)
      BY <1>1
    <2>. DEFINE t == VariantText[v]
    <2>4. t \in Seq(Symbols) /\ t # <<>>
      BY <2>1, <2>2
    <2>. HIDE DEF t
    <2>5. t \o n \in Seq(Symbols) /\ Len(t \o n) = Len(t) + Len(n) /\ Len(t) # 0
      BY <2>3, <2>4
    <2>6. t \o n # <<>>
      BY <2>3, <2>4, <2>5
    <2>. QED  BY <2>5, <2>6 DEF UserOf, NoUser, t
  <1>. QED  BY <1>1, <1>2
----------------------------------------------------------------------------
(* What a request makes of the game. *)

IsAnswer(a) == "game" \in DOMAIN a
\* The game stays sound, and no one gets a power ...
Plays(a) ==
    /\ IsAnswer(a) /\ GameOK(a.game)
    /\ a.game.ctrl = game.ctrl /\ a.game.listens = game.listens
\* ... or a program gets one that is free, and had none.
Joins(a, c) ==
    /\ IsAnswer(a) /\ GameOK(a.game)
    /\ conn[c].user # NoUser /\ (\A p \in Powers : game.ctrl[p] # conn[c].user)
    /\ \E p \in Powers : /\ game.ctrl[p] = NoUser
                         /\ a.game.ctrl = [game.ctrl EXCEPT ![p] = conn[c].user]
                         /\ a.game.listens = [game.listens EXCEPT ![p] = c]

LEMMA AnswerLemma ==
    ASSUME NEW replies, NEW g, NEW notes
    PROVE  IsAnswer(Answer(replies, g, notes)) /\ Answer(replies, g, notes).game = g
  BY DEF IsAnswer, Answer

\* An answer that leaves the game alone.
LEMMA RepliesLemma ==
    ASSUME GameOK(game)
    PROVE  /\ \A replies, notes : Plays(Answer(replies, game, notes))
           /\ \A replies : Plays(Replies(replies)) /\ Plays(Writes(replies))
           /\ \A s : Plays(Rejected(s))
           /\ Plays(Deaf)
  <1>1. ASSUME NEW replies, NEW notes PROVE Plays(Answer(replies, game, notes))
    BY AnswerLemma DEF Plays
  <1>2. ASSUME NEW replies PROVE Plays(Replies(replies))
    BY <1>1 DEF Replies
  <1>3. Plays(Deaf)
    <2>1. IsAnswer(Replies(<<>>)) /\ Replies(<<>>).game = game
      BY AnswerLemma DEF Replies
    <2>. QED  BY <2>1 DEF Deaf, Plays, IsAnswer
  <1>4. ASSUME NEW replies PROVE Plays(Writes(replies))
    BY <1>2, <1>3 DEF Writes
  <1>5. ASSUME NEW s PROVE Plays(Rejected(s))
    BY <1>2 DEF Rejected
  <1>. QED  BY <1>1, <1>2, <1>3, <1>4, <1>5

\* h is sound and has the players of g.
Follows(h, g) == GameOK(h) /\ h.ctrl = g.ctrl /\ h.listens = g.listens

LEMMA FollowsLemma ==
    ASSUME NEW g, Follows(g, game), NEW replies, NEW notes
    PROVE  Plays(Answer(replies, g, notes))
  BY AnswerLemma DEF Follows, Plays

\* The changes of the flags, the orders and the votes of a power.
LEMMA FlagsLemma ==
    ASSUME NEW g, GameOK(g), NEW p \in Powers, NEW x
    PROVE  /\ Follows(SetOrders(g, p, x), g)
           /\ Follows(ClearOrders(g, p), g)
           /\ Follows([g EXCEPT !.wait = @ \ {p}], g)
           /\ Follows([g EXCEPT !.wait = @ \cup {p}], g)
           /\ Follows([g EXCEPT !.votes = @ \cup {p}], g)
           /\ Follows([g EXCEPT !.votes = @ \ {p}], g)
           /\ Follows([g EXCEPT !.errors = x], g)
  <1>1. Follows(SetOrders(g, p, x), g)
    BY DEF GameOK, Follows, SetOrders
  <1>2. Follows(ClearOrders(g, p), g)
    BY DEF GameOK, Follows, ClearOrders
  <1>3. Follows([g EXCEPT !.wait = @ \ {p}], g)
    BY DEF GameOK, Follows
  <1>4. Follows([g EXCEPT !.wait = @ \cup {p}], g)
    BY DEF GameOK, Follows
  <1>5. Follows([g EXCEPT !.votes = @ \cup {p}], g)
    BY DEF GameOK, Follows
  <1>6. Follows([g EXCEPT !.votes = @ \ {p}], g)
    BY DEF GameOK, Follows
  <1>7. Follows([g EXCEPT !.errors = x], g)
    BY DEF GameOK, Follows
  <1>. QED  BY <1>1, <1>2, <1>3, <1>4, <1>5, <1>6, <1>7

\* One more in the history.
LEMMA PastLemma ==
    ASSUME NEW s, s \in Seq(ToSet(s)), NEW x
    PROVE  Append(s, x) \in Seq(ToSet(Append(s, x))) /\ Len(Append(s, x)) = Len(s) + 1
  <1>. DEFINE t == Append(s, x)
  <1>1. t \in Seq(ToSet(s) \cup {x}) /\ Len(t) = Len(s) + 1
    BY AppendProperties
  <1>. HIDE DEF t
  <1>2. DOMAIN t = 1..Len(t) /\ Len(t) \in Nat /\ t = [i \in 1..Len(t) |-> t[i]]
    BY <1>1
  <1>3. \A i \in 1..Len(t) : t[i] \in ToSet(t)
    BY <1>2 DEF ToSet
  <1>4. t \in Seq(ToSet(t))
    BY <1>2, <1>3, IsASeq
  <1>. QED  BY <1>1, <1>4 DEF t

\* A game that is drawn is over.
LEMMA DrawnLemma ==
    ASSUME NEW g, GameOK(g), g.status # "completed"
    PROVE  Follows(Drawn(g), g)
  <1>. DEFINE past == Append(g.past, NoOrders)
  <1>1. past \in Seq(ToSet(past)) /\ Len(past) = Len(g.past) + 1
    BY PastLemma DEF GameOK
  <1>2. Drawn(g) = [g EXCEPT !.status = "completed", !.drawn = TRUE, !.orders = NoOrders, !.votes = {}, !.past = past]
    BY DEF Drawn
  <1>. HIDE DEF past
  <1>. QED  BY <1>1, <1>2, DaideAssumption DEF GameOK, Follows

\* So is one whose last turn was processed.
LEMMA ProcessedLemma ==
    ASSUME NEW g, GameOK(g), g.status = "active"
    PROVE  Follows(Processed(g), g)
  <1>. DEFINE past == Append(g.past, Orders(g))
              turn == g.turn + 1
              next == [StartTurn(g, turn) EXCEPT !.past = Append(@, Orders(g))]
  <1>1. past \in Seq(ToSet(past)) /\ Len(past) = Len(g.past) + 1
    BY PastLemma DEF GameOK
  <1>2. next = [g EXCEPT !.turn = turn, !.orders = NoOrders, !.errors = {}, !.votes = {}, !.isset = Idle(turn),
                         !.wait = Powers \ Idle(turn), !.past = past]
    <2>. HIDE DEF past, turn
    <2>1. StartTurn(g, turn) = [g EXCEPT !.turn = turn, !.orders = NoOrders, !.errors = {}, !.votes = {},
                                         !.isset = Idle(turn), !.wait = Powers \ Idle(turn)]
      BY DEF StartTurn
    <2>2. StartTurn(g, turn).past = g.past
      BY <2>1 DEF GameOK
    <2>. QED  BY <2>1, <2>2 DEF GameOK, past
  <1>3. Processed(g) = IF next.turn < Len(Story) THEN next ELSE [next EXCEPT !.status = "completed"]
    BY DEF Processed
  <1>4. Idle(turn) \subseteq Powers
    BY DEF Idle
  <1>. HIDE DEF past, next
  <1>5. turn \in 1..Len(Story) /\ Len(past) = turn - 1 /\ ~g.drawn /\ g.drawn \in BOOLEAN
    BY <1>1, DaideAssumption DEF GameOK
  <1>6. next = [status |-> "active", port |-> g.port, turn |-> turn, drawn |-> g.drawn, ctrl |-> g.ctrl, listens |-> g.listens,
                orders |-> NoOrders, errors |-> {}, isset |-> Idle(turn), wait |-> Powers \ Idle(turn), votes |-> {}, past |-> past]
    BY <1>2 DEF GameOK
  <1>7. CASE turn < Len(Story)
    <2>1. Processed(g) = next
      BY <1>3, <1>6, <1>7
    <2>. QED  BY <1>1, <1>4, <1>5, <1>6, <1>7, <2>1 DEF GameOK, Follows
  <1>8. CASE ~(turn < Len(Story))
    <2>1. Processed(g) = [next EXCEPT !.status = "completed"]
      BY <1>3, <1>6, <1>8
    <2>. QED  BY <1>1, <1>4, <1>5, <1>6, <2>1 DEF GameOK, Follows
  <1>. QED  BY <1>7, <1>8

\* Each request.
LEMMA SubmitLemma ==
    ASSUME GameOK(game), NEW p \in Powers \cup {None}, NEW m, NEW s
    PROVE  Plays(OnSubmit(p, m, s))
  <1>. DEFINE texts == [i \in DOMAIN m.orders |-> m.orders[i].text]
              after == Submitted(game, p, texts)
              thanks == [i \in DOMAIN texts |-> Thanks(m.orders[i].tokens, Thanked(game, p, texts, i))]
              answer == Answer(thanks \o <<Missing(after, p)>>, after, <<>>)
  <1>1. ASSUME p \in Powers PROVE Follows(after, game)
    <2>. HIDE DEF texts
    <2>. DEFINE errors == game.errors \cup UNION {Faults(game, p, <<texts[i]>>) : i \in DOMAIN texts}
                g == [game EXCEPT !.errors = errors]
    <2>1. after = SetOrders(g, p, texts)
      BY DEF Submitted
    <2>2. Follows(g, game)
      <3>. HIDE DEF errors
      <3>. QED  BY <1>1, FlagsLemma
    <2>. HIDE DEF after, g
    <2>3. Follows(SetOrders(g, p, texts), g)
      <3>1. GameOK(g)
        BY <2>2 DEF Follows
      <3>. QED  BY ONLY <1>1, <3>1, FlagsLemma
    <2>. QED  BY <2>1, <2>2, <2>3 DEF Follows
  <1>2. \/ OnSubmit(p, m, s) = Rejected(s)
        \/ OnSubmit(p, m, s) = Deaf
        \/ p \in Powers /\ OnSubmit(p, m, s) = answer
    <2>. HIDE DEF answer, after, texts, thanks
    <2>1. OnSubmit(p, m, s) =
            IF m.turn # NoTurn /\ m.turn # Now(game).phase THEN Rejected(s)
            ELSE IF p = None \/ m.orders = <<>> THEN Deaf
            ELSE IF m.pow # p THEN Rejected(s)
            ELSE answer
      BY DEF OnSubmit, answer, after, texts, thanks
    <2>. QED  BY <2>1
  <1>3. p \in Powers => Plays(answer)
    <2>. HIDE DEF after, texts
    <2>. QED  BY <1>1, FollowsLemma
  <1>. HIDE DEF answer
  <1>. QED  BY <1>2, <1>3, RepliesLemma

LEMMA GoLemma ==
    ASSUME GameOK(game), NEW p \in Powers \cup {None}, NEW s
    PROVE  Plays(OnGo(p, s))
  <1>. DEFINE g == [game EXCEPT !.wait = @ \ {p}]
              h == IF p \in g.isset THEN g ELSE SetOrders(g, p, <<>>)
  <1>1. ASSUME p \in Powers PROVE Plays(Answer(<<Accept(s)>>, h, <<>>))
    <2>1. Follows(g, game)
      BY <1>1, FlagsLemma
    <2>. HIDE DEF g
    <2>2. Follows(SetOrders(g, p, <<>>), g)
      <3>1. GameOK(g)
        BY <2>1 DEF Follows
      <3>. QED  BY ONLY <1>1, <3>1, FlagsLemma
    <2>3. Follows(h, game)
      BY <2>1, <2>2 DEF Follows
    <2>. HIDE DEF h
    <2>. QED  BY <2>3, FollowsLemma
  <1>2. OnGo(p, s) = IF p = None THEN Deaf ELSE Answer(<<Accept(s)>>, h, <<>>)
    BY DEF OnGo
  <1>. HIDE DEF h
  <1>. QED  BY <1>1, <1>2, RepliesLemma

LEMMA DrawLemma ==
    ASSUME GameOK(game), game.status # "completed", NEW p \in Powers \cup {None}, NEW s
    PROVE  Plays(OnDraw(p, s))
  <1>. DEFINE g == [game EXCEPT !.votes = @ \cup {p}]
              end == Drawn(g)
              notes == Notify(end, LAMBDA q : ProcessedNotes(end, q)).notes
  <1>1. ASSUME p \in Powers
        PROVE  Plays(Answer(<<Accept(s)>>, g, <<>>)) /\ Plays(Answer(<<Accept(s)>>, end, notes))
    <2>1. Follows(g, game)
      BY <1>1, FlagsLemma
    <2>2. g.status # "completed"
      BY DEF GameOK
    <2>. HIDE DEF g
    <2>3. Follows(end, game)
      BY <2>1, <2>2, DrawnLemma DEF Follows
    <2>. HIDE DEF end, notes
    <2>. QED  BY <2>1, <2>3, FollowsLemma
  <1>2. OnDraw(p, s) = IF p = None THEN Deaf
                       ELSE IF Eliminated(game, p) THEN Rejected(s)
                       ELSE IF HasDrawVote(g) THEN Answer(<<Accept(s)>>, end, notes)
                       ELSE Answer(<<Accept(s)>>, g, <<>>)
    BY DEF OnDraw
  <1>. HIDE DEF g, end, notes
  <1>. QED  BY <1>1, <1>2, RepliesLemma

LEMMA NotLemma ==
    ASSUME GameOK(game), NEW p \in Powers \cup {None}, NEW of, NEW s
    PROVE  Plays(OnNot(p, of, s))
  <1>. DEFINE Known == of.kind \in {"SUB", "GOF", "DRW"}
              cleared == Answer(<<Accept(s)>>, ClearOrders(game, p), <<>>)
              waits == Answer(<<Accept(s)>>, [game EXCEPT !.wait = @ \cup {p}], <<>>)
              unvoted == Answer(<<Accept(s)>>, [game EXCEPT !.votes = @ \ {p}], <<>>)
  <1>1. ASSUME p \in Powers PROVE Plays(cleared) /\ Plays(waits) /\ Plays(unvoted)
    <2>1. /\ Follows(ClearOrders(game, p), game)
          /\ Follows([game EXCEPT !.wait = @ \cup {p}], game)
          /\ Follows([game EXCEPT !.votes = @ \ {p}], game)
      BY <1>1, FlagsLemma
    <2>. QED  BY <2>1, FollowsLemma
  <1>2. \/ OnNot(p, of, s) = Deaf \/ OnNot(p, of, s) = Rejected(s)
        \/ p # None /\ OnNot(p, of, s) \in {cleared, waits, unvoted}
    <2>. HIDE DEF cleared, waits, unvoted
    <2>1. OnNot(p, of, s) =
            CASE of.kind \in {"SUB", "GOF", "DRW"} /\ p = None -> Deaf
              [] of.kind = "SUB" /\ p # None /\ of.orders = <<>> -> cleared
              [] of.kind = "GOF" /\ p # None -> waits
              [] of.kind = "DRW" /\ p # None /\ ~Eliminated(game, p) -> unvoted
              [] OTHER -> Rejected(s)
      BY DEF OnNot, cleared, waits, unvoted
    <2>. QED  BY <2>1
  <1>. HIDE DEF cleared, waits, unvoted
  <1>. QED  BY <1>1, <1>2, RepliesLemma

\* The requests that change nothing, or only tell others.
LEMMA QuietLemma ==
    ASSUME GameOK(game), NEW p, NEW m, NEW s
    PROVE  /\ Plays(OnHello(p, s)) /\ Plays(OnMissing(p, s)) /\ Plays(OnReject(m))
           /\ Plays(OnHistory(p, m.turn, s)) /\ Plays(OnPress(p, m, s))
  <1>1. Plays(OnHello(p, s))
    BY RepliesLemma DEF OnHello
  <1>2. Plays(OnMissing(p, s))
    BY RepliesLemma DEF OnMissing
  <1>3. Plays(OnReject(m))
    BY RepliesLemma DEF OnReject
  <1>4. Plays(OnHistory(p, m.turn, s))
    <2>. DEFINE k == m.turn
                told1 == Writes(HistoryOf(p, CHOOSE i \in TurnOf(k) : TRUE))
    <2>1. OnHistory(p, k, s) = CASE TurnOf(k) = {} -> Rejected(s)
                                 [] TurnOf(k) # {} /\ p = None -> Deaf
                                 [] OTHER -> told1
      BY DEF OnHistory
    <2>2. Plays(told1) /\ Plays(Rejected(s)) /\ Plays(Deaf)
      BY RepliesLemma
    <2>. HIDE DEF k, told1
    <2>3. OnHistory(p, k, s) \in {told1, Rejected(s), Deaf}
      BY <2>1
    <2>4. Plays(OnHistory(p, k, s))
      BY <2>2, <2>3
    <2>. QED  BY <2>4 DEF k
  <1>5. Plays(OnPress(p, m, s))
    <2>. DEFINE barred == {i \in DOMAIN m.powers : ~MayWrite(p, m.powers[i])}
                sent == IF barred = {} THEN m.powers
                        ELSE SubSeq(m.powers, 1, (CHOOSE i \in barred : \A j \in barred : i <= j) - 1)
                answer == Answer(<<IF barred = {} THEN Accept(s) ELSE Reject(s)>>, game,
                                 Concat(sent, LAMBDA to : PressFor(p, to, m.press)))
    <2>1. OnPress(p, m, s) = IF p = None THEN Deaf ELSE answer
      BY DEF OnPress
    <2>2. Plays(answer) /\ Plays(Deaf)
      <3>. HIDE DEF sent
      <3>. QED  BY RepliesLemma
    <2>. HIDE DEF answer
    <2>. QED  BY <2>1, <2>2
  <1>. QED  BY <1>1, <1>2, <1>3, <1>4, <1>5

\* Who has no power gets one that is free.
LEMMA JoinLemma ==
    ASSUME GameOK(game), PlayersOK, game.status # "completed", NEW c \in Conns, NEW s,
           conn[c].user # NoUser, \A p \in Powers : game.ctrl[p] # conn[c].user, Free(game) # {}
    PROVE  Plays(Join(c, s)) \/ Joins(Join(c, s), c)
  <1>. DEFINE p == Choice(conn[c].user)
              user == conn[c].user
              joined == [game EXCEPT !.ctrl[p] = user, !.listens[p] = c, !.wait = @ \cup {p}]
              started == [joined EXCEPT !.status = "active"]
              told1 == Notify(started, LAMBDA q : StartedNotes(started, q)).notes
  <1>1. p \in Free(game)
    <2>. DEFINE wished == Free(game) \cap Wish[registry.accounts[user].name]
                from == IF wished # {} THEN wished ELSE Free(game)
    <2>1. from \subseteq Free(game) /\ from # {} /\ Free(game) \subseteq Powers
      BY DEF Free
    <2>2. p = FirstOf(from)
      BY DEF Choice
    <2>. HIDE DEF p, from
    <2>. QED  BY <2>1, <2>2, FirstOfLemma
  <1>. HIDE DEF p
  <1>2. p \in Powers /\ game.ctrl[p] = NoUser
    BY <1>1 DEF Free
  <1>3. /\ GameOK(joined)
        /\ joined.ctrl = [game.ctrl EXCEPT ![p] = user] /\ joined.listens = [game.listens EXCEPT ![p] = c]
        /\ joined.status = game.status
    BY <1>2 DEF GameOK
  <1>. HIDE DEF joined
  <1>4. /\ GameOK(started)
        /\ started.ctrl = joined.ctrl /\ started.listens = joined.listens
    BY <1>3 DEF GameOK
  <1>. HIDE DEF started, told1
  <1>5. ASSUME NEW g, NEW replies, NEW notes, GameOK(g), g.ctrl = joined.ctrl, g.listens = joined.listens
        PROVE  Joins(Answer(replies, g, notes), c)
    <2>. DEFINE a == Answer(replies, g, notes)
    <2>1. IsAnswer(a) /\ a.game = g
      BY AnswerLemma
    <2>. HIDE DEF a
    <2>2. /\ game.ctrl[p] = NoUser
          /\ a.game.ctrl = [game.ctrl EXCEPT ![p] = conn[c].user]
          /\ a.game.listens = [game.listens EXCEPT ![p] = c]
      BY <1>2, <1>3, <1>5, <2>1
    <2>3. GameOK(a.game)
      BY <1>5, <2>1
    <2>4. Joins(a, c)
      BY <1>2, <2>1, <2>2, <2>3 DEF Joins
    <2>. QED  BY <2>4 DEF a
  <1>6. Join(c, s) = IF Cardinality(Controlled(game)) = Expected THEN Rejected(s)
                     ELSE IF game.status = "forming" /\ Cardinality(Controlled(joined)) = Expected
                          THEN Answer(<<>>, started, told1)
                     ELSE Answer(<<>>, joined, <<>>)
    BY DEF Join, p, joined, started, told1
  <1>7. Joins(Answer(<<>>, started, told1), c) /\ Joins(Answer(<<>>, joined, <<>>), c)
    BY <1>3, <1>4, <1>5
  <1>8. Plays(Rejected(s))
    BY RepliesLemma
  <1>. QED  BY <1>6, <1>7, <1>8

\* The power of a user, if it has one.
LEMMA PowerOfLemma ==
    ASSUME NEW user
    PROVE  /\ PowerOf(game, user) \in Powers \cup {None}
           /\ PowerOf(game, user) = None /\ user # NoUser => \A p \in Powers : game.ctrl[p] # user
  <1>1. None \notin Powers
    BY DaideAssumption DEF Powers
  <1>2. Powers = {PowerList[i] : i \in DOMAIN PowerList}
    BY DEF Powers, ToSet
  <1>. QED  BY <1>1, <1>2 DEF PowerOf

\* What a connection is answered.
LEMMA HandleLemma ==
    ASSUME IInv, NEW c \in Conns, NEW f \in Frames[c], f.type = "DM",
           ~IsName(f) \/ game.status = "completed"
    PROVE  Plays(Handle(c, f)) \/ Joins(Handle(c, f), c)
  <1>. DEFINE m == f.meaning.val
              s == f.body
              p == PowerOf(game, conn[c].user)
  <1>1. GameOK(game) /\ PlayersOK
    BY DEF IInv
  <1>2. p \in Powers \cup {None} /\ (p = None /\ conn[c].user # NoUser => \A q \in Powers : game.ctrl[q] # conn[c].user)
    BY PowerOfLemma
  <1>3. Handle(c, f) =
          IF ~f.meaning.ok THEN Deaf
          ELSE IF game.status = "completed" THEN Rejected(s)
          ELSE CASE m.kind = "IAM" -> Deaf
                 [] m.kind \in {"OBS", "TME", "ADM"} -> Rejected(s)
                 [] m.kind \in {"PRN", "HUH"} -> Replies(<<>>)
                 [] m.kind = "HLO" -> OnHello(p, s)
                 [] m.kind = "MAP" -> Replies(<<MapName(MapTitle)>>)
                 [] m.kind = "MDF" -> Replies(<<<<Token("MDF")>>>>)
                 [] m.kind = "SCO" -> Replies(<<Ownership(Now(game).owned)>>)
                 [] m.kind = "NOW" -> Replies(<<Position(Now(game).phase, Now(game).units, Now(game).retreats)>>)
                 [] m.kind = "HST" -> OnHistory(p, m.turn, s)
                 [] m.kind = "SUB" -> OnSubmit(p, m, s)
                 [] m.kind = "MIS" -> OnMissing(p, s)
                 [] m.kind = "GOF" -> OnGo(p, s)
                 [] m.kind = "DRW" -> OnDraw(p, s)
                 [] m.kind = "SND" -> OnPress(p, m, s)
                 [] m.kind = "NOT" -> OnNot(p, m.of, s)
                 [] m.kind = "YES" -> OnAccept(c, p, m, s)
                 [] m.kind = "REJ" -> OnReject(m)
    BY DEF Handle
  <1>4. f.meaning.ok => m.kind \in Kinds
    BY FramesAssumption
  <1>5. game.status # "completed" /\ f.meaning.ok => m.kind # "NME"
    BY DEF IsName
  <1>. HIDE DEF m, s, p
  <1>6. /\ Plays(Deaf) /\ Plays(Rejected(s)) /\ (\A replies : Plays(Replies(replies)))
        /\ Plays(OnHello(p, s)) /\ Plays(OnHistory(p, m.turn, s)) /\ Plays(OnMissing(p, s)) /\ Plays(OnPress(p, m, s))
        /\ Plays(OnReject(m))
    BY <1>1, RepliesLemma, QuietLemma
  <1>7. /\ Plays(OnSubmit(p, m, s)) /\ Plays(OnGo(p, s)) /\ Plays(OnNot(p, m.of, s))
        /\ game.status # "completed" => Plays(OnDraw(p, s))
    BY <1>1, <1>2, SubmitLemma, GoLemma, NotLemma, DrawLemma
  <1>8. ASSUME game.status # "completed" PROVE Plays(OnAccept(c, p, m, s)) \/ Joins(OnAccept(c, p, m, s), c)
    <2>1. \/ OnAccept(c, p, m, s) \in {Deaf, Replies(<<>>), Replies(<<TurnOff>>)}
          \/ p = None /\ Free(game) # {} /\ conn[c].user # NoUser /\ OnAccept(c, p, m, s) = Join(c, s)
      BY DEF OnAccept
    <2>. QED  BY <1>1, <1>2, <1>6, <1>8, <2>1, JoinLemma
  <1>. QED  BY <1>3, <1>4, <1>5, <1>6, <1>7, <1>8 DEF Kinds

LEMMA HearsLemma ==
    ASSUME IInv, NEW c \in Conns, NEW f \in Frames[c], ~IsName(f) \/ game.status = "completed"
    PROVE  Plays(Hears(c, f)) \/ Joins(Hears(c, f), c)
  <1>1. GameOK(game)
    BY DEF IInv
  <1>2. /\ Plays(Deaf) /\ \A replies : Plays(Replies(replies))
    BY <1>1, RepliesLemma
  <1>3. ASSUME NEW replies PROVE Plays(Says(replies))
    <2>. DEFINE a == Replies(<<>>)
    <2>1. Plays(a)
      BY <1>2
    <2>2. Says(replies) = [a EXCEPT !.replies = replies]
      BY DEF Says
    <2>. HIDE DEF a
    <2>3. [a EXCEPT !.replies = replies].game = a.game /\ IsAnswer([a EXCEPT !.replies = replies])
      BY <2>1 DEF Plays, IsAnswer
    <2>. QED  BY <2>1, <2>2, <2>3 DEF Plays
  <1>4. ASSUME NEW a, Plays(a) \/ Joins(a, c) PROVE Plays(Wrapped(a)) \/ Joins(Wrapped(a), c)
    <2>1. IsAnswer(a)
      BY <1>4 DEF Plays, Joins
    <2>2. Wrapped(a).game = a.game /\ IsAnswer(Wrapped(a))
      BY <2>1 DEF Wrapped, IsAnswer
    <2>. QED  BY <1>4, <2>2 DEF Plays, Joins
  <1>5. f.type = "DM" => Plays(Handle(c, f)) \/ Joins(Handle(c, f), c)
    BY HandleLemma
  <1>6. f.type = "DM" => Plays(Wrapped(Handle(c, f))) \/ Joins(Wrapped(Handle(c, f)), c)
    BY <1>4, <1>5
  <1>7. \/ Hears(c, f) = Deaf
        \/ \E replies : Hears(c, f) = Says(replies)
        \/ f.type = "DM" /\ Hears(c, f) = Wrapped(Handle(c, f))
    BY DEF Hears
  <1>. QED  BY <1>2, <1>3, <1>6, <1>7
----------------------------------------------------------------------------
(* What a step makes of the connections, the names and the players. *)

\* Names stay as they are.
SameNames ==
    /\ conn' \in [Conns -> [st : {"new", "open", "deaf", "closed"}, variant : {NoVariant} \cup Variants, user : Seq(Symbols)]]
    /\ \A d \in Conns : /\ conn'[d].variant = conn[d].variant /\ conn'[d].user = conn[d].user
                         /\ (conn'[d].st = "new" => conn[d].st = "new")
                         /\ (conn[d].st = "closed" => conn'[d].st = "closed")
    /\ registry' = registry

LEMMA SameNamesLemma ==
    ASSUME IInv, SameNames
    PROVE  ConnOK' /\ RegistryOK' /\ VariantsOK'
  <1>1. ConnOK'
    BY DEF IInv, SameNames, ConnOK
  <1>2. RegistryOK'
    BY DEF IInv, SameNames, RegistryOK, Taken
  <1>3. Chosen' = Chosen /\ {conn'[c].variant : c \in Chosen} = {conn[c].variant : c \in Chosen}
    BY DEF SameNames, Chosen
  <1>4. \A c \in Chosen : c \in Conns
    BY DEF Chosen
  <1>5. VariantsOK /\ registry' = registry /\ \A d \in Conns : conn'[d].variant = conn[d].variant
    BY DEF IInv, SameNames
  <1>6. VariantsOK'
    BY ONLY <1>3, <1>4, <1>5 DEF VariantsOK
  <1>. QED  BY <1>1, <1>2, <1>6

\* ... and so do the players.
LEMMA SamePlayersLemma ==
    ASSUME IInv, SameNames, game'.ctrl = game.ctrl, game'.listens = game.listens
    PROVE  PlayersOK'
  <1>1. \A p \in Powers : game.listens[p] \in {None} \cup Conns
    BY DEF IInv, PlayersOK
  <1>2. \A c \in Conns \cup {None} : Attached(c)' <=> Attached(c)
    BY DEF SameNames, Attached
  <1>3. ListenersPlay'
    <2>1. ASSUME NEW p \in Powers, Attached(game.listens[p])
          PROVE  game.ctrl[p] = conn'[game.listens[p]].user
      BY <1>1, <2>1 DEF IInv, PlayersOK, ListenersPlay, SameNames, Attached
    <2>2. \A p \in Powers : Attached(game.listens[p])' <=> Attached(game.listens[p])
      BY <1>1, <1>2
    <2>. QED  BY <2>1, <2>2 DEF IInv, PlayersOK, ListenersPlay
  <1>4. \A p \in Powers : game'.listens[p] # None /\ ~Attached(game.listens[p])' => conn'[game'.listens[p]].st = "closed"
    BY <1>1, <1>2 DEF IInv, PlayersOK, SameNames
  <1>. QED  BY <1>3, <1>4 DEF IInv, PlayersOK, SameNames

\* A power that was free goes to a program that had none.
LEMMA JoinsLemma ==
    ASSUME IInv, SameNames, NEW c \in Conns, conn[c].st = "open", NEW p \in Powers, game.ctrl[p] = NoUser,
           conn[c].user # NoUser, \A q \in Powers : game.ctrl[q] # conn[c].user,
           game'.ctrl = [game.ctrl EXCEPT ![p] = conn[c].user], game'.listens = [game.listens EXCEPT ![p] = c]
    PROVE  PlayersOK'
  <1>1. \A q \in Powers : game.listens[q] \in {None} \cup Conns
    BY DEF IInv, PlayersOK
  <1>2. \A d \in Conns \cup {None} : Attached(d)' <=> Attached(d)
    BY DEF SameNames, Attached
  <1>3. /\ game'.ctrl \in [Powers -> {NoUser} \cup DOMAIN registry'.accounts]
        /\ game'.listens \in [Powers -> {None} \cup Conns]
    BY DEF IInv, PlayersOK, ConnOK, SameNames
  <1>4. /\ game'.ctrl[p] = conn[c].user /\ game'.listens[p] = c
        /\ \A q \in Powers \ {p} : game'.ctrl[q] = game.ctrl[q] /\ game'.listens[q] = game.listens[q]
    BY DEF IInv, PlayersOK
  <1>5. Attached(c)
    BY DaideAssumption DEF Attached
  <1>6. ListenersPlay'
    <2>1. ASSUME NEW q \in Powers, Attached(game.listens[q])'
          PROVE  game'.ctrl[q] = conn'[game'.listens[q]].user
      <3>1. CASE q = p
        BY <1>4, <3>1 DEF SameNames
      <3>2. CASE q # p
        BY <1>1, <1>2, <1>4, <2>1, <3>2 DEF IInv, PlayersOK, ListenersPlay, SameNames, Attached
      <3>. QED  BY <3>1, <3>2
    <2>2. ASSUME NEW q \in Powers, NEW r \in Powers, game'.ctrl[q] # NoUser, game'.ctrl[q] = game'.ctrl[r]
          PROVE  q = r
      BY <1>4, <2>2 DEF IInv, PlayersOK, ListenersPlay
    <2>. QED  BY <2>1, <2>2 DEF ListenersPlay
  <1>7. ASSUME NEW q \in Powers, game'.listens[q] # None, ~Attached(game.listens[q])'
        PROVE  conn'[game'.listens[q]].st = "closed"
    <2>1. q # p
      BY <1>2, <1>4, <1>5, <1>7
    <2>2. game.listens[q] # None /\ game.listens[q] \in Conns /\ ~Attached(game.listens[q])
      BY <1>1, <1>2, <1>4, <1>7, <2>1
    <2>3. conn[game.listens[q]].st = "closed"
      BY <2>2 DEF IInv, PlayersOK
    <2>. QED  BY <1>4, <2>1, <2>2, <2>3 DEF SameNames
  <1>. QED  BY <1>3, <1>6, <1>7 DEF PlayersOK

\* What is left when one element is removed from a list without repetitions.
LEMMA RemoveLemma ==
    ASSUME NEW s \in Seq(Nat), Injective(s), NEW v \in ToSet(s)
    PROVE  LET q == RemoveFirst(s, v) IN
           q \in Seq(Nat) /\ Injective(q) /\ Len(q) = Len(s) - 1 /\ ToSet(q) = ToSet(s) \ {v}
  <1>. DEFINE q == RemoveFirst(s, v)
              n == Len(s)
  <1>0. n \in Nat /\ DOMAIN s = 1..n
    OBVIOUS
  <1>1. PICK i \in 1..n : s[i] = v
    BY DEF ToSet
  <1>2. {k \in 1..n : s[k] = v} = {i}
    BY <1>1 DEF Injective
  <1>3. SelectInSeq(s, LAMBDA x : x = v) = i
    <2>1. SelectInSeq(s, LAMBDA x : x = v) = Min({i})
      BY <1>2 DEF SelectInSeq
    <2>. QED  BY <2>1 DEF Min
  <1>4. q = SubSeq(s, 1, i - 1) \o SubSeq(s, i + 1, n)
    BY <1>1, <1>3 DEF RemoveFirst, RemoveAt
  <1>. DEFINE a == SubSeq(s, 1, i - 1)
              b == SubSeq(s, i + 1, n)
  <1>5. /\ a \in Seq(Nat) /\ Len(a) = i - 1 /\ \A j \in 1..(i - 1) : a[j] = s[j]
        /\ b \in Seq(Nat) /\ Len(b) = n - i /\ \A j \in 1..(n - i) : b[j] = s[i + j]
    <2>1. n \in Nat /\ i - 1 \in 0..n /\ i + 1 \in 1..(n + 1)
      OBVIOUS
    <2>2. /\ a \in Seq(Nat) /\ Len(a) = IF 1 <= i - 1 THEN i - 1 - 1 + 1 ELSE 0
          /\ \A j \in 1..(i - 1 - 1 + 1) : a[j] = s[1 + j - 1]
      BY <2>1, SubSeqProperties
    <2>3. /\ b \in Seq(Nat) /\ Len(b) = IF i + 1 <= n THEN n - (i + 1) + 1 ELSE 0
          /\ \A j \in 1..(n - (i + 1) + 1) : b[j] = s[i + 1 + j - 1]
      BY <2>1, SubSeqProperties
    <2>. HIDE DEF a, b, n
    <2>. QED  BY <2>1, <2>2, <2>3, <1>1
  <1>. HIDE DEF a, b
  <1>6. /\ q \in Seq(Nat) /\ Len(q) = n - 1
        /\ \A j \in 1..(n - 1) : q[j] = IF j < i THEN s[j] ELSE s[j + 1]
    <2>1. q = a \o b
      BY <1>4 DEF a, b
    <2>2. n \in Nat /\ i \in Int /\ 1 <= i /\ i <= n /\ Len(a) = i - 1 /\ Len(b) = n - i
      BY <1>0, <1>1, <1>5
    <2>. HIDE DEF q, n
    <2>3. q \in Seq(Nat) /\ Len(q) = Len(a) + Len(b)
          /\ \A j \in 1..(Len(a) + Len(b)) : q[j] = IF j <= Len(a) THEN a[j] ELSE b[j - Len(a)]
      BY <1>5, <2>1, ConcatProperties
    <2>4. Len(a) + Len(b) = n - 1
      BY <2>2
    <2>5. ASSUME NEW j \in 1..(n - 1) PROVE q[j] = IF j < i THEN s[j] ELSE s[j + 1]
      <3>1. CASE j < i
        <4>1. j <= Len(a) /\ j \in 1..(i - 1)
          BY <2>2, <3>1
        <4>. QED  BY <1>5, <2>3, <2>4, <3>1, <4>1
      <3>2. CASE ~(j < i)
        <4>1. ~(j <= Len(a)) /\ j - Len(a) \in 1..(n - i) /\ i + (j - Len(a)) = j + 1
          BY <2>2, <3>2
        <4>. QED  BY <1>5, <2>3, <2>4, <3>2, <4>1
      <3>. QED  BY <3>1, <3>2
    <2>. QED  BY <2>3, <2>4, <2>5
  <1>7. DOMAIN q = 1..(n - 1)
    BY <1>6
  <1>. HIDE DEF q, n
  <1>8. Injective(q)
    <2>. SUFFICES ASSUME NEW j \in 1..(n - 1), NEW k \in 1..(n - 1), q[j] = q[k] PROVE j = k
      BY <1>7 DEF Injective
    <2>. DEFINE x == IF j < i THEN j ELSE j + 1
                y == IF k < i THEN k ELSE k + 1
    <2>1. x \in 1..n /\ y \in 1..n
      BY <1>0
    <2>2. s[x] = s[y]
      BY <1>6
    <2>3. x = y
      BY <1>0, <2>1, <2>2 DEF Injective
    <2>. QED  BY <1>0, <2>3
  <1>9. ToSet(q) = ToSet(s) \ {v}
    <2>1. ASSUME NEW j \in 1..(n - 1) PROVE q[j] \in ToSet(s) \ {v}
      <3>. DEFINE x == IF j < i THEN j ELSE j + 1
      <3>1. x \in 1..n /\ x # i /\ q[j] = s[x]
        BY <1>0, <1>6
      <3>2. s[x] # v
        BY <1>0, <1>1, <3>1 DEF Injective
      <3>. QED  BY <1>0, <3>1, <3>2 DEF ToSet
    <2>2. ASSUME NEW k \in 1..n, k # i PROVE s[k] \in ToSet(q)
      <3>. DEFINE j == IF k < i THEN k ELSE k - 1
      <3>1. j \in 1..(n - 1) /\ q[j] = s[k]
        <4>1. CASE k < i
          <5>1. j = k /\ k \in 1..(n - 1)
            BY <1>0, <4>1
          <5>. QED  BY <1>6, <4>1, <5>1
        <4>2. CASE ~(k < i)
          <5>1. j = k - 1 /\ j \in 1..(n - 1) /\ ~(j < i) /\ j + 1 = k
            BY <1>0, <2>2, <4>2
          <5>. QED  BY <1>6, <5>1
        <4>. QED  BY <4>1, <4>2
      <3>. QED  BY <1>7, <3>1 DEF ToSet
    <2>3. ToSet(s) = {s[k] : k \in 1..n} /\ ToSet(q) = {q[j] : j \in 1..(n - 1)}
      BY <1>0, <1>7 DEF ToSet
    <2>. QED  BY <1>1, <2>1, <2>2, <2>3
  <1>. QED  BY <1>6, <1>8, <1>9 DEF q, n

\* A list without repetitions with one more at its end ...
LEMMA AddLemma ==
    ASSUME NEW s \in Seq(Nat), Injective(s), NEW v \in Nat, v \notin ToSet(s)
    PROVE  LET t == Append(s, v) IN
           t \in Seq(Nat) /\ Injective(t) /\ Len(t) = Len(s) + 1 /\ ToSet(t) = ToSet(s) \cup {v}
  <1>. DEFINE t == Append(s, v)
  <1>1. /\ t \in Seq(Nat) /\ Len(t) = Len(s) + 1 /\ \A i \in 1..Len(s) : t[i] = s[i]
        /\ t[Len(s) + 1] = v
    OBVIOUS
  <1>. HIDE DEF t
  <1>2. DOMAIN t = 1..(Len(s) + 1) /\ DOMAIN s = 1..Len(s) /\ Len(s) \in Nat
    BY <1>1
  <1>3. Injective(t)
    <2>. SUFFICES ASSUME NEW i \in 1..(Len(s) + 1), NEW j \in 1..(Len(s) + 1), t[i] = t[j] PROVE i = j
      BY <1>2 DEF Injective
    <2>1. \A k \in 1..Len(s) : s[k] # v
      BY <1>2 DEF ToSet
    <2>2. CASE i \in 1..Len(s) /\ j \in 1..Len(s)
      BY <1>1, <1>2, <2>2 DEF Injective
    <2>3. (i \in 1..Len(s) \/ i = Len(s) + 1) /\ (j \in 1..Len(s) \/ j = Len(s) + 1)
      BY <1>2
    <2>. QED  BY ONLY <1>1, <2>1, <2>2, <2>3, t[i] = t[j]
  <1>4. ToSet(t) = ToSet(s) \cup {v}
    <2>1. ToSet(s) = {s[i] : i \in 1..Len(s)} /\ ToSet(t) = {t[i] : i \in 1..(Len(s) + 1)}
      BY <1>2 DEF ToSet
    <2>3. \A i \in 1..Len(s) : i \in 1..(Len(s) + 1) /\ t[i] = s[i]
      BY <1>1, <1>2
    <2>4. Len(s) + 1 \in 1..(Len(s) + 1) /\ t[Len(s) + 1] = v
      BY <1>1, <1>2
    <2>5. \A i \in 1..(Len(s) + 1) : i = Len(s) + 1 \/ i \in 1..Len(s)
      BY <1>2
    <2>. QED  BY ONLY <2>1, <2>3, <2>4, <2>5
  <1>. QED  BY <1>1, <1>3, <1>4 DEF t

\* ... or without its first.
LEMMA TailLemma ==
    ASSUME NEW s \in Seq(Nat), Injective(s), s # <<>>
    PROVE  LET t == Tail(s) IN
           /\ t \in Seq(Nat) /\ Injective(t) /\ Len(t) = Len(s) - 1
           /\ ToSet(t) = ToSet(s) \ {s[1]} /\ s[1] \in ToSet(s)
  <1>. DEFINE t == Tail(s)
              n == Len(s)
  <1>1. /\ t \in Seq(Nat) /\ Len(t) = n - 1 /\ \A i \in 1..(n - 1) : t[i] = s[i + 1]
    OBVIOUS
  <1>2. n \in Nat /\ n > 0 /\ DOMAIN s = 1..n
    OBVIOUS
  <1>. HIDE DEF t, n
  <1>3. DOMAIN t = 1..(n - 1)
    BY <1>1
  <1>4. Injective(t)
    <2>. SUFFICES ASSUME NEW i \in 1..(n - 1), NEW j \in 1..(n - 1), t[i] = t[j] PROVE i = j
      BY <1>3 DEF Injective
    <2>1. i + 1 \in DOMAIN s /\ j + 1 \in DOMAIN s /\ s[i + 1] = s[j + 1]
      BY <1>1, <1>2
    <2>2. i + 1 = j + 1
      BY <2>1 DEF Injective
    <2>. QED  BY <1>2, <2>2
  <1>5. s[1] \in ToSet(s)
    BY <1>2 DEF ToSet
  <1>6. ToSet(t) = ToSet(s) \ {s[1]}
    <2>1. ASSUME NEW i \in 1..(n - 1) PROVE t[i] \in ToSet(s) \ {s[1]}
      <3>1. i + 1 \in 1..n /\ i + 1 # 1 /\ t[i] = s[i + 1]
        BY <1>1, <1>2
      <3>2. s[i + 1] # s[1]
        BY <1>2, <3>1 DEF Injective
      <3>. QED  BY <1>2, <3>1, <3>2 DEF ToSet
    <2>2. ASSUME NEW k \in 1..n, k # 1 PROVE s[k] \in ToSet(t)
      <3>1. k - 1 \in 1..(n - 1) /\ t[k - 1] = s[k]
        BY <1>1, <1>2, <2>2
      <3>. QED  BY <1>3, <3>1 DEF ToSet
    <2>3. ToSet(s) = {s[k] : k \in 1..n} /\ ToSet(t) = {t[j] : j \in 1..(n - 1)}
      BY <1>2, <1>3 DEF ToSet
    <2>4. ToSet(t) \subseteq ToSet(s) \ {s[1]}
      BY ONLY <2>1, <2>3
    <2>5. ToSet(s) \ {s[1]} \subseteq ToSet(t)
      BY ONLY <2>2, <2>3
    <2>. QED  BY ONLY <2>4, <2>5
  <1>. QED  BY <1>1, <1>4, <1>5, <1>6 DEF t, n

\* A variant that is not in use is given back.
LEMMA OnConnectionCloseLemma ==
    ASSUME IInv, NEW c \in Conns, OnConnectionClose(c)
    PROVE  IInv'
  <1>. DEFINE v == conn[c].variant
  <1>1. /\ conn' = [conn EXCEPT ![c].variant = NoVariant, ![c].user = NoUser]
        /\ registry' = [registry EXCEPT !.used = RemoveFirst(@, v), !.pool = Append(@, v)]
        /\ conn[c].st = "closed" /\ v # NoVariant /\ game' = game /\ told' = told
    BY DEF OnConnectionClose, Released
  <1>2. v \in Variants /\ v \in Nat /\ c \in Chosen /\ v \in ToSet(registry.used)
    BY <1>1, FS_CardinalityType, DaideAssumption DEF IInv, ConnOK, VariantsOK, Chosen, Variants
  <1>3. /\ registry'.used = RemoveFirst(registry.used, v) /\ registry'.pool = Append(registry.pool, v)
        /\ registry'.accounts = registry.accounts
        /\ registry' = [pool |-> registry'.pool, used |-> registry'.used, accounts |-> registry'.accounts]
    <2>. HIDE DEF v
    <2>. QED  BY <1>1 DEF IInv, RegistryOK
  <1>4. /\ registry'.used \in Seq(Nat) /\ Injective(registry'.used) /\ Len(registry'.used) = Len(registry.used) - 1
        /\ ToSet(registry'.used) = ToSet(registry.used) \ {v}
    <2>. DEFINE s == registry.used
    <2>1. s \in Seq(Nat) /\ Injective(s) /\ v \in ToSet(s)
      BY <1>2 DEF IInv, RegistryOK
    <2>2. registry'.used = RemoveFirst(s, v)
      BY <1>3
    <2>. HIDE DEF s, v
    <2>3. /\ RemoveFirst(s, v) \in Seq(Nat) /\ Injective(RemoveFirst(s, v))
          /\ Len(RemoveFirst(s, v)) = Len(s) - 1 /\ ToSet(RemoveFirst(s, v)) = ToSet(s) \ {v}
      BY ONLY <1>2, <2>1, RemoveLemma
    <2>. QED  BY ONLY <2>2, <2>3 DEF s
  <1>5. /\ registry'.pool \in Seq(Nat) /\ Injective(registry'.pool) /\ Len(registry'.pool) = Len(registry.pool) + 1
        /\ ToSet(registry'.pool) = ToSet(registry.pool) \cup {v}
    <2>. DEFINE s == registry.pool
                t == registry'.pool
    <2>1. s \in Seq(Nat) /\ Injective(s) /\ v \notin ToSet(s)
      BY <1>2 DEF IInv, RegistryOK
    <2>2. t = Append(s, v)
      BY <1>3
    <2>. HIDE DEF s, t, v
    <2>3. /\ t \in Seq(Nat) /\ Len(t) = Len(s) + 1 /\ \A i \in 1..Len(s) : t[i] = s[i]
          /\ t[Len(s) + 1] = v
      BY <1>2, <2>1, <2>2
    <2>4. DOMAIN t = 1..(Len(s) + 1) /\ DOMAIN s = 1..Len(s) /\ Len(s) \in Nat
      BY <2>1, <2>3
    <2>5. Injective(t)
      BY <2>1, <2>3, <2>4 DEF Injective, ToSet
    <2>6. ToSet(t) = ToSet(s) \cup {v}
      <3>1. ToSet(s) = {s[i] : i \in 1..Len(s)} /\ ToSet(t) = {t[i] : i \in 1..(Len(s) + 1)}
        BY <2>4 DEF ToSet
      <3>2. \A i \in 1..(Len(s) + 1) : t[i] = IF i = Len(s) + 1 THEN v ELSE s[i]
        BY <2>3, <2>4
      <3>. QED  BY <2>3, <2>4, <3>1, <3>2
    <2>. QED  BY <2>3, <2>5, <2>6 DEF s, t
  <1>6. RegistryOK'
    <2>1. Len(registry.used) \in Nat /\ Len(registry.pool) \in Nat
      BY DEF IInv, RegistryOK
    <2>2. Taken' = Taken
      <3>. DEFINE u == Len(registry.used)
                  w == Len(registry.pool)
                  u1 == Len(registry'.used)
                  w1 == Len(registry'.pool)
      <3>1. u \in Int /\ w \in Int /\ u1 = u - 1 /\ w1 = w + 1
        BY <1>4, <1>5, <2>1
      <3>2. Taken' = u1 + w1 /\ Taken = u + w
        BY DEF Taken
      <3>. HIDE DEF u, w, u1, w1
      <3>. QED  BY <3>1, <3>2
    <2>. QED  BY <1>2, <1>3, <1>4, <1>5, <2>2 DEF IInv, RegistryOK
  <1>7. /\ \A d \in Conns \ {c} : conn'[d] = conn[d]
        /\ conn'[c].st = "closed" /\ conn'[c].variant = NoVariant /\ conn'[c].user = NoUser
        /\ conn' \in [Conns -> [st : {"new", "open", "deaf", "closed"}, variant : {NoVariant} \cup Variants, user : Seq(Symbols)]]
    <2>1. NoUser \in Seq(Symbols)
      BY DEF NoUser
    <2>2. conn \in [Conns -> [st : {"new", "open", "deaf", "closed"}, variant : {NoVariant} \cup Variants, user : Seq(Symbols)]]
      BY DEF IInv, ConnOK
    <2>. HIDE DEF v
    <2>. QED  BY <1>1, <2>1, <2>2
  <1>8. ConnOK'
    <2>1. ASSUME NEW d \in Conns
          PROVE  /\ conn'[d].st = "new" => conn'[d].variant = NoVariant
                 /\ conn'[d].variant = NoVariant => conn'[d].user = NoUser
                 /\ conn'[d].variant # NoVariant => \E n \in NamesGiven : conn'[d].user = UserOf(conn'[d].variant, n)
                 /\ conn'[d].user # NoUser => conn'[d].user \in DOMAIN registry'.accounts
      <3>1. CASE d = c
        BY <1>7, <3>1
      <3>2. CASE d # c
        <4>1. conn'[d] = conn[d]
          BY <1>7, <3>2
        <4>2. /\ conn[d].st = "new" => conn[d].variant = NoVariant
              /\ conn[d].variant = NoVariant => conn[d].user = NoUser
              /\ conn[d].variant # NoVariant => \E n \in NamesGiven : conn[d].user = UserOf(conn[d].variant, n)
              /\ conn[d].user # NoUser => conn[d].user \in DOMAIN registry.accounts
          BY DEF IInv, ConnOK
        <4>. QED  BY ONLY <1>3, <4>1, <4>2
      <3>. QED  BY <3>1, <3>2
    <2>. QED  BY <1>7, <2>1 DEF ConnOK
  <1>9. VariantsOK'
    <2>1. Chosen' = Chosen \ {c}
      BY <1>7 DEF Chosen
    <2>2. \A d \in Chosen : d \in Conns
      BY DEF Chosen
    <2>3. /\ ToSet(registry.used) = {conn[d].variant : d \in Chosen}
          /\ \A d, e \in Chosen : conn[d].variant = conn[e].variant => d = e
      BY DEF IInv, VariantsOK
    <2>4. \A d \in Chosen \ {c} : conn'[d].variant = conn[d].variant
      BY <1>7, <2>2
    <2>5. {conn'[d].variant : d \in Chosen \ {c}} = {conn[d].variant : d \in Chosen} \ {v}
      BY <1>2, <2>3, <2>4
    <2>6. ToSet(registry'.used) = {conn'[d].variant : d \in Chosen \ {c}}
      BY <1>4, <2>3, <2>5
    <2>7. \A d, e \in Chosen \ {c} : conn'[d].variant = conn'[e].variant => d = e
      BY <2>3, <2>4
    <2>. QED  BY <2>1, <2>6, <2>7 DEF VariantsOK
  <1>10. PlayersOK'
    <2>1. \A p \in Powers : game.listens[p] \in {None} \cup Conns
      BY DEF IInv, PlayersOK
    <2>2. ~Attached(c)' /\ \A d \in Conns \ {c} : Attached(d)' <=> Attached(d)
      BY <1>7 DEF Attached
    <2>3. ASSUME NEW p \in Powers, Attached(game.listens[p])'
          PROVE  Attached(game.listens[p]) /\ conn'[game.listens[p]] = conn[game.listens[p]]
      BY <1>1, <1>7, <2>1, <2>2, <2>3 DEF Attached
    <2>4. ListenersPlay'
      BY <1>1, <2>3 DEF IInv, PlayersOK, ListenersPlay
    <2>5. ASSUME NEW p \in Powers, game.listens[p] # None, ~Attached(game.listens[p])'
          PROVE  conn'[game.listens[p]].st = "closed"
      BY <1>1, <1>7, <2>1, <2>2, <2>5 DEF IInv, PlayersOK
    <2>. QED  BY <1>1, <1>3, <2>4, <2>5 DEF IInv, PlayersOK
  <1>. QED  BY <1>1, <1>6, <1>8, <1>9, <1>10 DEF IInv, GameOK

\* One more that is introduced has a variant that was not in use.
LEMMA VariantLemma ==
    ASSUME IInv, NEW c \in Conns, conn[c].variant = NoVariant
    PROVE  LET v == Variant(c) IN v \in Variants /\ v \in Nat /\ v # NoVariant /\ v \notin ToSet(registry.used)
  <1>. DEFINE used == registry.used
              pool == registry.pool
  <1>1. /\ used \in Seq(Nat) /\ pool \in Seq(Nat) /\ ToSet(used) \cap ToSet(pool) = {}
        /\ ToSet(used) \cup ToSet(pool) = 0..(Taken - 1) /\ Taken <= Cardinality(Conns)
    BY DEF IInv, RegistryOK
  <1>2. Len(used) \in Nat /\ Len(pool) \in Nat /\ Taken = Len(used) + Len(pool)
    BY <1>1 DEF Taken
  <1>6. Taken \in Int
    <2>. DEFINE u == Len(used)
                w == Len(pool)
    <2>1. u \in Nat /\ w \in Nat /\ Taken = u + w
      BY <1>2
    <2>. HIDE DEF u, w
    <2>. QED  BY <2>1
  <1>3. Cardinality(Conns) \in Nat
    BY FS_CardinalityType, DaideAssumption
  <1>4. CASE pool # <<>>
    <2>1. Variant(c) = pool[1]
      BY <1>4 DEF Variant
    <2>2. pool[1] \in ToSet(pool)
      <3>. HIDE DEF pool
      <3>. QED  BY <1>1, <1>4 DEF ToSet
    <2>3. pool[1] \in 0..(Taken - 1)
      BY <1>1, <2>2
    <2>. DEFINE v == pool[1]
                k == Taken - 1
    <2>4. k <= Cardinality(Conns) /\ k \in Int
      <3>. DEFINE t == Taken
      <3>1. t <= Cardinality(Conns) /\ t \in Int
        BY <1>1, <1>6
      <3>. HIDE DEF t
      <3>2. t - 1 <= Cardinality(Conns) /\ t - 1 \in Int
        BY <1>3, <3>1
      <3>. QED  BY <3>2 DEF t
    <2>5. v \in 0..k /\ v \notin ToSet(used)
      BY <1>1, <2>2, <2>3
    <2>. HIDE DEF v, k
    <2>6. v \in Variants /\ v \in Nat /\ v # NoVariant
      BY <1>3, <2>4, <2>5 DEF Variants, NoVariant
    <2>. QED  BY <2>1, <2>5, <2>6 DEF v
  <1>5. CASE pool = <<>>
    <2>1. Variant(c) = Len(used)
      BY <1>5 DEF Variant
    <2>2. Taken = Len(used) /\ ToSet(used) = 0..(Len(used) - 1)
      <3>1. ToSet(pool) = {} /\ Len(pool) = 0
        BY <1>5 DEF ToSet
      <3>. QED  BY <1>1, <1>2, <3>1
    <2>. DEFINE n == Len(used)
    <2>3. n \in Nat /\ n <= Cardinality(Conns) /\ ToSet(used) = 0..(n - 1)
      BY <1>1, <1>2, <2>2
    <2>. HIDE DEF n
    <2>4. n \in Variants /\ n \in Nat /\ n # NoVariant /\ n \notin ToSet(used)
      BY <1>3, <2>3 DEF Variants, NoVariant
    <2>. QED  BY <2>1, <2>4 DEF n
  <1>. QED  BY <1>4, <1>5

\* There are never more variants than connections.
LEMMA RoomLemma ==
    ASSUME IInv, NEW c \in Conns, conn[c].variant = NoVariant, registry.pool = <<>>
    PROVE  Len(registry.used) + 1 <= Cardinality(Conns)
  <1>. DEFINE n == Len(registry.used)
              S == 0..(n - 1)
              T == Conns \ {c}
              who == [v \in S |-> CHOOSE d \in Chosen : conn[d].variant = v]
  <1>1. n \in Nat /\ ToSet(registry.used) = S
    <2>1. /\ registry.used \in Seq(Nat)
          /\ ToSet(registry.used) \cup ToSet(registry.pool) = 0..(Taken - 1)
      BY DEF IInv, RegistryOK
    <2>2. ToSet(registry.pool) = {} /\ Len(registry.pool) = 0
      BY DEF ToSet
    <2>3. n \in Nat
      BY <2>1
    <2>4. Taken = n
      BY <2>2, <2>3 DEF Taken
    <2>. QED  BY <2>1, <2>2, <2>3, <2>4
  <1>. HIDE DEF n
  <1>2. IsFiniteSet(S) /\ Cardinality(S) = n
    BY <1>1, FS_Interval
  <1>3. IsFiniteSet(T) /\ Cardinality(T) = Cardinality(Conns) - 1 /\ Cardinality(Conns) \in Nat
    BY DaideAssumption, FS_RemoveElement, FS_CardinalityType
  <1>4. \A v \in S : who[v] \in Chosen /\ conn[who[v]].variant = v
    BY <1>1 DEF IInv, VariantsOK
  <1>5. who \in [S -> T]
    BY <1>4 DEF Chosen
  <1>. HIDE DEF S, T, who
  <1>6. ~(Cardinality(T) < Cardinality(S))
    <2>. SUFFICES ASSUME Cardinality(T) < Cardinality(S) PROVE FALSE
      OBVIOUS
    <2>1. \E x, y \in S : x # y /\ who[x] = who[y]
      BY ONLY <1>2, <1>3, <1>5, FS_PigeonHole, Cardinality(T) < Cardinality(S)
    <2>. QED  BY <1>4, <2>1
  <1>. QED  BY <1>1, <1>2, <1>3, <1>6 DEF n

\* One that has a name already stays what it is.
LEMMA AgainLemma ==
    ASSUME IInv, NEW c \in Conns, NEW f \in Frames[c], Introduce(c, f), conn[c].variant # NoVariant
    PROVE  SameNames /\ game' = game
  <1>1. conn[c].user # NoUser /\ Variant(c) = conn[c].variant
    <2>1. conn[c].variant \in Variants
      BY DEF IInv, ConnOK
    <2>2. \E n \in NamesGiven : conn[c].user = UserOf(conn[c].variant, n)
      BY DEF IInv, ConnOK
    <2>. QED  BY <2>1, <2>2, NamesLemma DEF Variant
  <1>2. /\ conn' = [conn EXCEPT ![c].variant = conn[c].variant, ![c].user = conn[c].user]
        /\ registry' = [pool |-> registry.pool, used |-> registry.used, accounts |-> registry.accounts]
        /\ game' = game
    <2>. DEFINE m == f.meaning.val
                v == Variant(c)
                user == UserOf(v, m.name)
    <2>1. /\ conn' = [conn EXCEPT ![c].variant = v, ![c].user = IF @ = NoUser THEN user ELSE @]
          /\ registry' = [pool |-> IF conn[c].variant = NoVariant /\ registry.pool # <<>> THEN Tail(registry.pool) ELSE registry.pool,
                     used |-> IF conn[c].variant = NoVariant THEN Append(registry.used, v) ELSE registry.used,
                     accounts |-> IF conn[c].user = NoUser /\ user \notin DOMAIN registry.accounts
                                  THEN WithAccount(user, [name |-> m.name, version |-> m.version])
                                  ELSE registry.accounts]
          /\ game' = game
      BY DEF Introduce
    <2>2. v = conn[c].variant
      BY <1>1
    <2>. HIDE DEF m, v, user
    <2>. QED  BY <1>1, <2>1, <2>2 DEF IInv, ConnOK
  <1>3. conn' = conn
    BY <1>2 DEF IInv, ConnOK
  <1>4. registry' = registry
    BY <1>2 DEF IInv, RegistryOK
  <1>. QED  BY <1>2, <1>3, <1>4 DEF IInv, ConnOK, SameNames

\* One that has none gets a variant nobody else has.
LEMMA NewNameLemma ==
    ASSUME IInv, NEW c \in Conns, NEW f \in Frames[c], Introduce(c, f), conn[c].variant = NoVariant
    PROVE  IInv'
  <1>. DEFINE v == Variant(c)
              m == f.meaning.val
              user == UserOf(v, m.name)
  <1>1. v \in Variants /\ v \in Nat /\ v # NoVariant /\ v \notin ToSet(registry.used)
    BY VariantLemma
  <1>2. m.name \in NamesGiven
    BY DEF NamesGiven, Introduce
  <1>3. user \in Seq(Symbols) /\ user # NoUser
    BY <1>1, <1>2, NamesLemma
  <1>4. conn[c].user = NoUser /\ conn[c].st = "open"
    BY DEF IInv, ConnOK, Introduce, Reads
  <1>5. /\ conn' = [conn EXCEPT ![c].variant = v, ![c].user = IF @ = NoUser THEN user ELSE @]
        /\ registry' = [pool |-> IF conn[c].variant = NoVariant /\ registry.pool # <<>> THEN Tail(registry.pool) ELSE registry.pool,
                   used |-> IF conn[c].variant = NoVariant THEN Append(registry.used, v) ELSE registry.used,
                   accounts |-> IF conn[c].user = NoUser /\ user \notin DOMAIN registry.accounts
                                THEN WithAccount(user, [name |-> m.name, version |-> m.version])
                                ELSE registry.accounts]
        /\ game' = game /\ told' = told
    BY DEF Introduce
  <1>6. v = IF registry.pool # <<>> THEN Head(registry.pool) ELSE Len(registry.used)
    BY DEF Variant
  <1>. DEFINE x == [name |-> m.name, version |-> m.version]
  <1>. HIDE DEF v, user, m, x
  <1>7. /\ registry'.pool = IF registry.pool # <<>> THEN Tail(registry.pool) ELSE registry.pool
        /\ registry'.used = Append(registry.used, v)
        /\ registry' = [pool |-> registry'.pool, used |-> registry'.used, accounts |-> registry'.accounts]
    BY <1>5
  <1>8. DOMAIN registry'.accounts = DOMAIN registry.accounts \cup {user}
    <2>1. registry'.accounts = IF user \notin DOMAIN registry.accounts THEN WithAccount(user, x) ELSE registry.accounts
      BY <1>4, <1>5 DEF x
    <2>. QED  BY <2>1 DEF WithAccount
  <1>9. /\ conn'[c].st = "open" /\ conn'[c].variant = v /\ conn'[c].user = user
        /\ \A d \in Conns \ {c} : conn'[d] = conn[d]
        /\ conn' \in [Conns -> [st : {"new", "open", "deaf", "closed"}, variant : {NoVariant} \cup Variants, user : Seq(Symbols)]]
    <2>1. conn \in [Conns -> [st : {"new", "open", "deaf", "closed"}, variant : {NoVariant} \cup Variants, user : Seq(Symbols)]]
      BY DEF IInv, ConnOK
    <2>. QED  BY <1>1, <1>3, <1>4, <1>5, <2>1
  <1>10. ConnOK'
    <2>1. ASSUME NEW d \in Conns
          PROVE  /\ conn'[d].st = "new" => conn'[d].variant = NoVariant
                 /\ conn'[d].variant = NoVariant => conn'[d].user = NoUser
                 /\ conn'[d].variant # NoVariant => \E n \in NamesGiven : conn'[d].user = UserOf(conn'[d].variant, n)
                 /\ conn'[d].user # NoUser => conn'[d].user \in DOMAIN registry'.accounts
      <3>1. CASE d = c
        BY <1>1, <1>2, <1>8, <1>9, <3>1 DEF user
      <3>2. CASE d # c
        <4>1. conn'[d] = conn[d]
          BY <1>9, <3>2
        <4>2. /\ conn[d].st = "new" => conn[d].variant = NoVariant
              /\ conn[d].variant = NoVariant => conn[d].user = NoUser
              /\ conn[d].variant # NoVariant => \E n \in NamesGiven : conn[d].user = UserOf(conn[d].variant, n)
              /\ conn[d].user # NoUser => conn[d].user \in DOMAIN registry.accounts
          BY DEF IInv, ConnOK
        <4>. QED  BY ONLY <1>8, <4>1, <4>2
      <3>. QED  BY <3>1, <3>2
    <2>. QED  BY <1>9, <2>1 DEF ConnOK
  <1>11. /\ registry'.used \in Seq(Nat) /\ Injective(registry'.used) /\ Len(registry'.used) = Len(registry.used) + 1
         /\ ToSet(registry'.used) = ToSet(registry.used) \cup {v}
    <2>1. registry.used \in Seq(Nat) /\ Injective(registry.used)
      BY DEF IInv, RegistryOK
    <2>. QED  BY <1>1, <1>7, <2>1, AddLemma
  <1>12. RegistryOK'
    <2>. DEFINE s == registry.pool
                t == registry'.pool
                u == Len(registry.used)
                N == Cardinality(Conns)
    <2>1. /\ s \in Seq(Nat) /\ Injective(s) /\ u \in Nat /\ N \in Nat
          /\ ToSet(registry.used) \cap ToSet(s) = {} /\ Len(s) \in Nat
          /\ ToSet(registry.used) \cup ToSet(s) = 0..(u + Len(s) - 1)
          /\ u + Len(s) <= N
      BY FS_CardinalityType, DaideAssumption DEF IInv, RegistryOK, Taken
    <2>2. Taken' = Len(registry'.used) + Len(t)
      BY DEF Taken
    <2>3. CASE s # <<>>
      <3>1. t = Tail(s) /\ v = s[1]
        BY <1>6, <1>7, <2>3
      <3>. HIDE DEF s, t
      <3>2. t \in Seq(Nat) /\ Injective(t) /\ Len(t) = Len(s) - 1 /\ ToSet(t) = ToSet(s) \ {s[1]} /\ s[1] \in ToSet(s)
        BY <2>1, <2>3, <3>1, TailLemma
      <3>. HIDE DEF u, N
      <3>3. Len(registry'.used) = u + 1
        BY <1>11 DEF u
      <3>4. Taken' = u + Len(s)
        BY <2>1, <2>2, <3>2, <3>3
      <3>5. ToSet(registry'.used) \cup ToSet(t) = ToSet(registry.used) \cup ToSet(s)
            /\ ToSet(registry'.used) \cap ToSet(t) = {}
        BY <1>11, <2>1, <3>1, <3>2, <1>1
      <3>6. Taken' <= N /\ ToSet(registry'.used) \cup ToSet(t) = 0..(Taken' - 1)
        BY <2>1, <3>4, <3>5
      <3>. QED  BY <1>7, <1>11, <3>2, <3>5, <3>6 DEF RegistryOK, N, t
    <2>4. CASE s = <<>>
      <3>1. t = <<>> /\ v = u /\ Len(t) = 0 /\ ToSet(t) = {} /\ Len(s) = 0 /\ ToSet(s) = {}
        BY <1>6, <1>7, <2>4 DEF ToSet
      <3>2. u + 1 <= N
        BY <2>4, RoomLemma
      <3>3. t \in Seq(Nat) /\ Injective(t)
        BY <3>1 DEF Injective
      <3>. HIDE DEF s, t
      <3>4. Len(registry'.used) = u + 1
        BY <1>11
      <3>. HIDE DEF u, N
      <3>5. Taken' = u + 1
        BY <2>1, <2>2, <3>1, <3>4
      <3>6. ToSet(registry'.used) = 0..u
        <4>1. ToSet(registry.used) = 0..(u - 1)
          BY <2>1, <3>1
        <4>. QED  BY <1>11, <2>1, <3>1, <4>1
      <3>7. Taken' <= N /\ ToSet(registry'.used) \cup ToSet(t) = 0..(Taken' - 1) /\ ToSet(registry'.used) \cap ToSet(t) = {}
        BY <2>1, <3>1, <3>2, <3>5, <3>6
      <3>. QED  BY <1>7, <1>11, <3>3, <3>7 DEF RegistryOK, N, t
    <2>. QED  BY <2>3, <2>4
  <1>13. VariantsOK'
    <2>1. Chosen' = Chosen \cup {c} /\ c \notin Chosen
      BY <1>1, <1>9 DEF Chosen
    <2>2. \A d \in Chosen : d \in Conns /\ d # c /\ conn'[d].variant = conn[d].variant
      BY <1>9, <2>1 DEF Chosen
    <2>3. /\ ToSet(registry.used) = {conn[d].variant : d \in Chosen}
          /\ \A d, e \in Chosen : conn[d].variant = conn[e].variant => d = e
      BY DEF IInv, VariantsOK
    <2>4. ToSet(registry'.used) = {conn'[d].variant : d \in Chosen \cup {c}}
      <3>1. {conn'[d].variant : d \in Chosen} = {conn[d].variant : d \in Chosen}
        BY <2>2
      <3>2. {conn'[d].variant : d \in Chosen \cup {c}} = {conn'[d].variant : d \in Chosen} \cup {v}
        BY <1>9
      <3>. QED  BY <1>11, <2>3, <3>1, <3>2
    <2>5. ASSUME NEW d \in Chosen \cup {c}, NEW e \in Chosen \cup {c}, conn'[d].variant = conn'[e].variant
          PROVE  d = e
      <3>1. \A k \in Chosen : conn'[k].variant # v
        <4>1. \A k \in Chosen : conn[k].variant \in ToSet(registry.used)
          BY <2>3
        <4>. QED  BY <1>1, <2>2, <4>1
      <3>2. CASE d \in Chosen /\ e \in Chosen
        BY <2>2, <2>3, <2>5, <3>2
      <3>3. CASE d = c \/ e = c
        BY <1>9, <2>5, <3>1, <3>3
      <3>. QED  BY <3>2, <3>3
    <2>. QED  BY <2>1, <2>4, <2>5 DEF VariantsOK
  <1>14. PlayersOK'
    <2>1. \A p \in Powers : game.listens[p] \in {None} \cup Conns
      BY DEF IInv, PlayersOK
    <2>2. ~Attached(c)
      BY <1>4 DEF Attached
    <2>3. \A p \in Powers : game.listens[p] # c
      <3>1. c # None
        BY DaideAssumption
      <3>. QED  BY <1>4, <2>2, <3>1 DEF IInv, PlayersOK
    <2>4. ASSUME NEW p \in Powers, game.listens[p] # None
          PROVE  conn'[game.listens[p]] = conn[game.listens[p]]
      BY <1>9, <2>1, <2>3, <2>4
    <2>5. \A p \in Powers : Attached(game.listens[p])' <=> Attached(game.listens[p])
      BY <1>5, <2>4 DEF Attached
    <2>6. ListenersPlay'
      <3>1. ASSUME NEW p \in Powers, Attached(game.listens[p])
            PROVE  game.ctrl[p] = conn'[game.listens[p]].user
        BY <2>4, <3>1 DEF IInv, PlayersOK, ListenersPlay, Attached
      <3>. QED  BY <1>5, <2>5, <3>1 DEF IInv, PlayersOK, ListenersPlay
    <2>7. \A p \in Powers : game.listens[p] # None /\ ~Attached(game.listens[p])' => conn'[game.listens[p]].st = "closed"
      BY <2>4, <2>5 DEF IInv, PlayersOK
    <2>. QED  BY <1>5, <1>8, <2>6, <2>7 DEF IInv, PlayersOK
  <1>. QED  BY <1>5, <1>10, <1>12, <1>13, <1>14 DEF IInv, GameOK

LEMMA IntroduceLemma ==
    ASSUME IInv, NEW c \in Conns, NEW f \in Frames[c], Introduce(c, f)
    PROVE  IInv'
  <1>1. CASE conn[c].variant = NoVariant
    BY <1>1, NewNameLemma
  <1>2. CASE conn[c].variant # NoVariant
    <2>1. SameNames /\ game' = game
      BY <1>2, AgainLemma
    <2>2. told' = told
      BY DEF Introduce
    <2>. QED  BY <2>1, <2>2, SameNamesLemma, SamePlayersLemma DEF IInv, GameOK
  <1>. QED  BY <1>1, <1>2
----------------------------------------------------------------------------
(* The other steps. *)

\* Only how far the connection is changes.
LEMMA StLemma ==
    ASSUME IInv, NEW c \in Conns, NEW st \in {"open", "deaf", "closed"}, conn' = [conn EXCEPT ![c].st = st],
           registry' = registry, conn[c].st = "closed" => st = "closed"
    PROVE  SameNames
  <1>1. conn \in [Conns -> [st : {"new", "open", "deaf", "closed"}, variant : {NoVariant} \cup Variants, user : Seq(Symbols)]]
    BY DEF IInv, ConnOK
  <1>. DEFINE R == [st : {"new", "open", "deaf", "closed"}, variant : {NoVariant} \cup Variants, user : Seq(Symbols)]
  <1>2. [conn[c] EXCEPT !.st = st] \in R /\ [conn[c] EXCEPT !.st = st].st = st
        /\ [conn[c] EXCEPT !.st = st].variant = conn[c].variant /\ [conn[c] EXCEPT !.st = st].user = conn[c].user
    BY <1>1
  <1>3. conn' \in [Conns -> R]
    BY <1>1, <1>2
  <1>4. conn'[c] = [conn[c] EXCEPT !.st = st] /\ \A d \in Conns \ {c} : conn'[d] = conn[d]
    BY <1>1
  <1>. QED  BY <1>2, <1>3, <1>4 DEF SameNames

LEMMA ConnectLemma ==
    ASSUME IInv, NEW c \in Conns, Connect(c)
    PROVE  IInv'
  <1>1. SameNames
    BY StLemma DEF Connect
  <1>2. game' = game /\ told' = told
    BY DEF Connect
  <1>. QED  BY <1>1, <1>2, SameNamesLemma, SamePlayersLemma DEF IInv, GameOK

LEMMA LeaveLemma ==
    ASSUME IInv, NEW c \in Conns, Leave(c)
    PROVE  IInv'
  <1>1. SameNames
    BY StLemma DEF Leave
  <1>2. game' = game /\ told' = told
    BY DEF Leave
  <1>. QED  BY <1>1, <1>2, SameNamesLemma, SamePlayersLemma DEF IInv, GameOK

LEMMA HearLemma ==
    ASSUME IInv, NEW c \in Conns, NEW f \in Frames[c], Hear(c, f)
    PROVE  IInv'
  <1>. DEFINE a == Hears(c, f)
  <1>1. /\ conn[c].st = "open" /\ (~IsName(f) \/ game.status = "completed")
        /\ game' = a.game /\ conn' = [conn EXCEPT ![c].st = IF a.deaf THEN "deaf" ELSE @]
        /\ registry' = registry /\ told' = told
    BY DEF Hear, Reads
  <1>2. Plays(a) \/ Joins(a, c)
    BY <1>1, HearsLemma
  <1>. HIDE DEF a
  <1>3. conn' = [conn EXCEPT ![c].st = IF a.deaf THEN "deaf" ELSE "open"]
    BY <1>1 DEF IInv, ConnOK
  <1>4. SameNames
    <2>. DEFINE st == IF a.deaf THEN "deaf" ELSE "open"
    <2>1. st \in {"open", "deaf", "closed"}
      OBVIOUS
    <2>. HIDE DEF st
    <2>2. conn' = [conn EXCEPT ![c].st = st]
      BY <1>3 DEF st
    <2>. QED  BY <1>1, <2>1, <2>2, StLemma
  <1>5. GameOK(game)'
    BY <1>1, <1>2 DEF GameOK, Plays, Joins
  <1>6. PlayersOK'
    <2>1. CASE Plays(a)
      BY <1>1, <1>4, <2>1, SamePlayersLemma DEF Plays
    <2>2. CASE Joins(a, c)
      <3>1. PICK p \in Powers : /\ game.ctrl[p] = NoUser
                                /\ a.game.ctrl = [game.ctrl EXCEPT ![p] = conn[c].user]
                                /\ a.game.listens = [game.listens EXCEPT ![p] = c]
        BY <2>2 DEF Joins
      <3>2. conn[c].user # NoUser /\ \A q \in Powers : game.ctrl[q] # conn[c].user
        BY <2>2 DEF Joins
      <3>. QED  BY <1>1, <1>4, <3>1, <3>2, JoinsLemma
    <2>. QED  BY <1>2, <2>1, <2>2
  <1>. QED  BY <1>1, <1>4, <1>5, <1>6, SameNamesLemma DEF IInv

LEMMA ProcessLemma ==
    ASSUME IInv, Process
    PROVE  IInv'
  <1>. DEFINE next == Processed(game)
              failed == Notify(next, LAMBDA p : ProcessedNotes(next, p)).failed
              over == next.status = "completed" /\ ~failed
  <1>1. /\ game.status = "active" /\ game' = [next EXCEPT !.port = ~over]
        /\ conn' = [c \in Conns |-> IF over /\ conn[c].st # "new" THEN [conn[c] EXCEPT !.st = "closed"] ELSE conn[c]]
        /\ registry' = registry /\ told' = told
    BY DEF Process
  <1>2. Follows(next, game)
    BY <1>1, ProcessedLemma DEF IInv
  <1>. HIDE DEF next, failed
  <1>3. (~over) \in BOOLEAN
    <2>1. CASE over
      BY <2>1, Zenon
    <2>2. CASE ~over
      BY <2>2, Zenon
    <2>. QED  BY <2>1, <2>2
  <1>. HIDE DEF over
  <1>4. GameOK(game)' /\ game'.ctrl = game.ctrl /\ game'.listens = game.listens
    <2>. DEFINE port == ~over
    <2>1. port \in BOOLEAN
      BY <1>3
    <2>. HIDE DEF port
    <2>2. GameOK([next EXCEPT !.port = port]) /\ [next EXCEPT !.port = port].ctrl = next.ctrl
          /\ [next EXCEPT !.port = port].listens = next.listens
      BY <1>2, <2>1 DEF GameOK, Follows
    <2>3. game' = [next EXCEPT !.port = port]
      BY <1>1 DEF port
    <2>4. GameOK(game')
      BY <2>2, <2>3
    <2>. QED  BY <1>2, <2>2, <2>3, <2>4 DEF Follows, GameOK
  <1>5. SameNames
    <2>. DEFINE R == [st : {"new", "open", "deaf", "closed"}, variant : {NoVariant} \cup Variants, user : Seq(Symbols)]
    <2>1. \A c \in Conns : conn[c] \in R
      BY DEF IInv, ConnOK
    <2>2. \A c \in Conns : LET d == [conn[c] EXCEPT !.st = "closed"] IN
             d \in R /\ d.st = "closed" /\ d.variant = conn[c].variant /\ d.user = conn[c].user
      BY <2>1
    <2>3. \A c \in Conns : conn'[c] = IF over /\ conn[c].st # "new" THEN [conn[c] EXCEPT !.st = "closed"] ELSE conn[c]
      BY <1>1
    <2>4. \A c \in Conns : conn'[c] \in R
      BY <2>1, <2>2, <2>3
    <2>5. conn' \in [Conns -> R]
      <3>. HIDE DEF R
      <3>. QED  BY <1>1, <2>3, <2>4
    <2>6. \A c \in Conns : /\ conn'[c].variant = conn[c].variant /\ conn'[c].user = conn[c].user
                            /\ (conn'[c].st = "new" => conn[c].st = "new")
                            /\ (conn[c].st = "closed" => conn'[c].st = "closed")
      BY <2>2, <2>3
    <2>. QED  BY <1>1, <2>5, <2>6 DEF SameNames
  <1>. QED  BY <1>1, <1>4, <1>5, SameNamesLemma, SamePlayersLemma DEF IInv

LEMMA SendNoteLemma ==
    ASSUME IInv, SendNote
    PROVE  IInv'
  <1>. DEFINE c == Head(queue)[1]
  <1>1. conn' = conn /\ registry' = registry /\ game' = game /\ (told' = told \/ told' = [told EXCEPT ![c] = @ + 1])
    BY DEF SendNote
  <1>2. told' \in [Conns -> Nat]
    <2>. HIDE DEF c
    <2>. QED  BY <1>1 DEF IInv
  <1>3. SameNames
    BY <1>1 DEF IInv, ConnOK, SameNames
  <1>. QED  BY <1>1, <1>2, <1>3, SameNamesLemma, SamePlayersLemma DEF IInv, GameOK

LEMMA InitLemma == Init => IInv
  <1>. SUFFICES ASSUME Init PROVE IInv
    OBVIOUS
  <1>1. ConnOK
    BY DEF Init, ConnOK, NoUser
  <1>2. Chosen = {} /\ registry.used = <<>> /\ registry.pool = <<>>
    BY DEF Init, Chosen
  <1>3. RegistryOK
    <2>1. Cardinality(Conns) \in Nat
      BY FS_CardinalityType, DaideAssumption
    <2>2. Len(registry.used) = 0 /\ Len(registry.pool) = 0 /\ ToSet(registry.used) = {} /\ ToSet(registry.pool) = {}
      BY <1>2 DEF ToSet
    <2>3. Taken = 0 /\ 0..(Taken - 1) = {}
      BY <2>2 DEF Taken
    <2>4. registry = [pool |-> registry.pool, used |-> registry.used, accounts |-> registry.accounts]
      BY DEF Init
    <2>. QED  BY <1>2, <2>1, <2>2, <2>3, <2>4 DEF RegistryOK, Injective
  <1>4. VariantsOK
    BY <1>2 DEF VariantsOK, ToSet
  <1>5. GameOK(game)
    <2>1. Story # <<>> /\ 1 \in 1..Len(Story) /\ 1 < Len(Story)
      BY DaideAssumption
    <2>2. game.past = <<>> /\ game.past \in Seq(ToSet(game.past)) /\ Len(game.past) = 0
      BY DEF Init
    <2>. QED  BY <2>1, <2>2 DEF Init, GameOK
  <1>6. PlayersOK
    BY DEF Init, PlayersOK, ListenersPlay, Attached
  <1>7. told \in [Conns -> Nat]
    BY DEF Init
  <1>. QED  BY <1>1, <1>3, <1>4, <1>5, <1>6, <1>7 DEF IInv

LEMMA StepLemma == IInv /\ [Next]_vars => IInv'
  <1>. SUFFICES ASSUME IInv, [Next]_vars PROVE IInv'
    OBVIOUS
  <1>1. ASSUME NEW c \in Conns, Connect(c) PROVE IInv'
    BY <1>1, ConnectLemma
  <1>2. ASSUME NEW c \in Conns, Leave(c) \/ HearFinal(c) PROVE IInv'
    BY <1>2, LeaveLemma DEF HearFinal
  <1>3. ASSUME NEW c \in Conns, OnConnectionClose(c) PROVE IInv'
    BY <1>3, OnConnectionCloseLemma
  <1>4. ASSUME NEW c \in Conns, NEW f \in Frames[c], Introduce(c, f) PROVE IInv'
    BY <1>4, IntroduceLemma
  <1>5. ASSUME NEW c \in Conns, NEW f \in Frames[c], Hear(c, f) PROVE IInv'
    BY <1>5, HearLemma
  <1>6. CASE Process
    BY <1>6, ProcessLemma
  <1>7. CASE SendNote
    BY <1>7, SendNoteLemma
  <1>8. CASE UNCHANGED vars
    <2>1. conn' = conn /\ registry' = registry /\ game' = game /\ told' = told
      BY <1>8 DEF vars
    <2>2. SameNames
      BY <2>1 DEF IInv, ConnOK, SameNames
    <2>. QED  BY <2>1, <2>2, SameNamesLemma, SamePlayersLemma DEF IInv, GameOK
  <1>. QED  BY <1>1, <1>2, <1>3, <1>4, <1>5, <1>6, <1>7, <1>8 DEF Next

\* The inductive invariant holds in every state.
LEMMA Invariance == Spec => []IInv
  BY InitLemma, StepLemma, PTL DEF Spec
----------------------------------------------------------------------------
(* The theorems. *)

LEMMA TypeLemma == IInv => TypeOK
  <1>. SUFFICES ASSUME IInv PROVE TypeOK
    OBVIOUS
  <1>1. ASSUME NEW c \in Conns
        PROVE  /\ conn[c].st \in {"new", "open", "deaf", "closed"} /\ conn[c].variant \in {NoVariant} \cup Variants
               /\ conn[c].user \in {NoUser} \cup DOMAIN registry.accounts /\ told[c] \in Nat
    BY DEF IInv, ConnOK
  <1>2. /\ game.status \in {"forming", "active", "completed"} /\ game.port \in BOOLEAN /\ game.drawn \in BOOLEAN
        /\ game.turn \in DOMAIN Story /\ Len(game.past) \in {game.turn - 1, game.turn}
        /\ game.isset \subseteq Powers /\ game.wait \subseteq Powers /\ game.votes \subseteq Powers
    BY DaideAssumption DEF IInv, GameOK
  <1>3. \A p \in Powers : game.ctrl[p] \in {NoUser} \cup DOMAIN registry.accounts /\ game.listens[p] \in {None} \cup Conns
    BY DEF IInv, PlayersOK
  <1>. QED  BY <1>1, <1>2, <1>3 DEF TypeOK

LEMMA DistinctLemma == PlainNames /\ IInv => NamesAreDistinct
  <1>. SUFFICES ASSUME PlainNames, IInv PROVE NamesAreDistinct
    OBVIOUS
  <1>1. ASSUME NEW c \in Conns, NEW d \in Conns, conn[c].variant # NoVariant, conn[c].variant = conn[d].variant
        PROVE  c = d
    BY <1>1 DEF IInv, VariantsOK, Chosen
  <1>2. ASSUME NEW c \in Conns, NEW d \in Conns, conn[c].user # NoUser, conn[c].user = conn[d].user
        PROVE  c = d
    <2>1. /\ conn[c].variant # NoVariant /\ conn[c].variant \in Variants
          /\ conn[d].variant # NoVariant /\ conn[d].variant \in Variants
      BY <1>2 DEF IInv, ConnOK
    <2>2. PICK m \in NamesGiven : conn[c].user = UserOf(conn[c].variant, m)
      BY <2>1 DEF IInv, ConnOK
    <2>3. PICK n \in NamesGiven : conn[d].user = UserOf(conn[d].variant, n)
      BY <2>1 DEF IInv, ConnOK
    <2>4. m \in Seq(Symbols) /\ n \in Seq(Symbols)
      BY NamesLemma
    <2>5. conn[c].variant = conn[d].variant
      BY <1>2, <2>1, <2>2, <2>3, <2>4, UserOfLemma
    <2>. QED  BY <1>1, <2>1, <2>5
  <1>. QED  BY <1>1, <1>2 DEF NamesAreDistinct

\* The state of the gateway has its type, whatever the programs send: who is
\* signed in has an account, and the history of the game is as long as the game.
THEOREM TypeCorrect == Spec => []TypeOK
  BY Invariance, TypeLemma, PTL

\* Two connections never have the same variant at the same time, though the
\* variants that are given back are given out again
\* (connection_handler.py:82-94).
THEOREM VariantsAreDistinct == Spec => []VariantsOK
  <1>1. IInv => VariantsOK
    BY DEF IInv
  <1>. QED  BY <1>1, Invariance, PTL

\* The connection that is told about a power is that of its player, and a user
\* plays one power: also when programs leave and their names are given to
\* others, and whatever the names are (request_managers.py:516-538).
THEOREM PowersHavePlayers == Spec => []ListenersPlay
  <1>1. IInv => ListenersPlay
    BY DEF IInv, PlayersOK
  <1>. QED  BY <1>1, Invariance, PTL

\* With names that start with no digit, all that is checked of connections,
\* names and players: two connections never are the same user.
THEOREM PlayersAreKept == PlainNames => (Spec => []PlayersAreKnown)
  <1>. SUFFICES ASSUME PlainNames PROVE Spec => []PlayersAreKnown
    OBVIOUS
  <1>1. IInv => PlayersAreKnown
    BY TypeLemma, DistinctLemma DEF PlayersAreKnown, IInv, PlayersOK
  <1>. QED  BY <1>1, Invariance, PTL
=============================================================================
