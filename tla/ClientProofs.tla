---------------------------- MODULE ClientProofs ----------------------------
(***************************************************************************)
(* Proofs about Client, for any clients, roles, messages and bounds: the   *)
(* orders in force were given for the phase, no message is recorded twice, *)
(* and the copies of the clients hold what the server has, each past phase *)
(* once.                                                                   *)
(*                                                                         *)
(* IInv is the inductive invariant of the first two, ClockIsBounded what   *)
(* the bounds of the model add to it, and AllSound is about what is on the *)
(* way to each client.                                                     *)
(***************************************************************************)
EXTENDS Client, SequenceTheorems, FiniteSetTheorems, TLAPS

-----------------------------------------------------------------------------
(* The latest of some times, and what has times in their order. *)

\* Every non-empty set of natural numbers has a least element.
LEMMA LeastLemma ==
    ASSUME NEW A, A \subseteq Nat, A # {}
    PROVE  \E x \in A : \A y \in A : x <= y
  <1>1. PICK x \in A : \A y \in A : ~(<<y, x>> \in OpToRel(<, Nat))
    BY NatLessThanWellFounded, WFMin
  <1>2. \A y \in A : ~(y < x)
    BY <1>1 DEF OpToRel
  <1>. QED  BY <1>2

\* A set of numbers with an upper bound has its greatest.
LEMMA MaxLemma ==
    ASSUME NEW B \in Nat, NEW A, A \subseteq 0..B, A # {}
    PROVE  Max(A) \in A /\ \A y \in A : y <= Max(A)
  <1>. DEFINE D == {B - x : x \in A}
  <1>1. D \subseteq Nat /\ D # {}
    <2>1. \A x \in A : B - x \in Nat
      OBVIOUS
    <2>2. D # {}
      <3>1. PICK x \in A : TRUE
        OBVIOUS
      <3>2. B - x \in D
        OBVIOUS
      <3>. QED  BY <3>2
    <2>. QED  BY <2>1, <2>2
  <1>2. PICK d \in D : \A e \in D : d <= e
    BY <1>1, LeastLemma
  <1>3. PICK x \in A : d = B - x
    BY <1>2
  <1>4. \A y \in A : x >= y
    <2>. TAKE y \in A
    <2>1. B - x <= B - y
      BY <1>2, <1>3
    <2>. QED  BY <2>1
  <1>. HIDE DEF D
  <1>5. Max(A) \in A /\ \A y \in A : Max(A) >= y
    BY <1>4 DEF Max
  <1>. QED  BY <1>5

\* s enumerates the n elements of T by their times, each once.
Enumerates(s, n, T) ==
    /\ s \in [1..n -> T] /\ InOrder(s)
    /\ \A i, j \in 1..n : i # j => s[i] # s[j]

\* A finite set with different times has an enumeration by time ...
LEMMA EnumerationLemma ==
    ASSUME NEW S, IsFiniteSet(S), \A x \in S : x.time \in Nat,
           \A x, y \in S : x.time = y.time => x = y
    PROVE  \E s : Enumerates(s, Cardinality(S), S)
  <1>. DEFINE Fine(n) == \A T \in SUBSET S : Cardinality(T) = n => \E s : Enumerates(s, n, T)
              Bad == {n \in Nat : ~Fine(n)}
  <1>1. Bad = {}
    <2>. SUFFICES ASSUME Bad # {} PROVE FALSE
      OBVIOUS
    <2>1. PICK n \in Bad : \A k \in Bad : n <= k
      <3>. HIDE DEF Fine
      <3>. QED  BY LeastLemma
    <2>2. PICK T \in SUBSET S : Cardinality(T) = n /\ ~\E s : Enumerates(s, n, T)
      BY <2>1
    <2>3. IsFiniteSet(T) /\ n \in Nat
      BY <2>1, FS_Subset
    <2>4. CASE T = {}
      <3>1. n = 0
        BY <2>2, <2>4, FS_EmptySet
      <3>2. Enumerates([i \in 1..0 |-> 0], 0, {})
        BY DEF Enumerates, InOrder
      <3>. QED  BY <2>2, <2>4, <3>1, <3>2
    <2>5. CASE T # {}
      <3>1. PICK x \in T : \A y \in T : x.time <= y.time
        <4>. DEFINE A == {y.time : y \in T}
        <4>1. A \subseteq Nat /\ A # {}
          BY <2>5
        <4>2. PICK a \in A : \A b \in A : a <= b
          BY <4>1, LeastLemma
        <4>. QED  BY <4>2
      <3>. DEFINE U == T \ {x}
      <3>2. Cardinality(U) = n - 1 /\ n - 1 \in Nat
        <4>1. IsFiniteSet(U) /\ Cardinality(U) = n - 1
          BY <2>2, <2>3, FS_RemoveElement
        <4>2. Cardinality(U) \in Nat
          BY <4>1, FS_CardinalityType
        <4>. QED  BY <4>1, <4>2
      <3>3. PICK s : Enumerates(s, n - 1, U)
        <4>1. Fine(n - 1)
          <5>. HIDE DEF Fine
          <5>. QED  BY <2>1, <2>3, <3>2
        <4>. QED  BY <3>2, <4>1
      <3>. DEFINE r == [i \in 1..n |-> IF i = 1 THEN x ELSE s[i - 1]]
      <3>4. \A i \in 1..(n - 1) : s[i] \in T /\ s[i] # x /\ x.time < s[i].time
        <4>. TAKE i \in 1..(n - 1)
        <4>1. s[i] \in T /\ s[i] # x
          BY <3>3 DEF Enumerates
        <4>2. x.time # s[i].time /\ x.time <= s[i].time /\ x.time \in Nat /\ s[i].time \in Nat
          BY <3>1, <4>1
        <4>. QED  BY <4>1, <4>2
      <3>5. r \in [1..n -> T]
        BY <2>3, <3>2, <3>4
      <3>6. InOrder(r)
        <4>. SUFFICES ASSUME NEW i \in 1..n, NEW j \in 1..n, i < j
                      PROVE  r[i].time < r[j].time
          BY <3>5 DEF InOrder
        <4>1. j - 1 \in 1..(n - 1) /\ r[j] = s[j - 1]
          BY <2>3
        <4>2. CASE i = 1
          BY <3>4, <4>1, <4>2
        <4>3. CASE i # 1
          <5>1. i - 1 \in 1..(n - 1) /\ r[i] = s[i - 1] /\ i - 1 < j - 1
            BY <2>3, <4>3
          <5>2. DOMAIN s = 1..(n - 1) /\ InOrder(s)
            BY <3>3 DEF Enumerates
          <5>. QED  BY <4>1, <5>1, <5>2 DEF InOrder
        <4>. QED  BY <4>2, <4>3
      <3>7. \A i, j \in 1..n : i # j => r[i] # r[j]
        <4>. SUFFICES ASSUME NEW i \in 1..n, NEW j \in 1..n, i # j
                      PROVE  r[i] # r[j]
          OBVIOUS
        <4>1. CASE i = 1
          <5>1. j - 1 \in 1..(n - 1) /\ r[j] = s[j - 1] /\ r[i] = x
            BY <2>3, <4>1
          <5>. HIDE DEF r
          <5>. QED  BY <3>4, <5>1
        <4>2. CASE j = 1
          <5>1. i - 1 \in 1..(n - 1) /\ r[i] = s[i - 1] /\ r[j] = x
            BY <2>3, <4>2
          <5>. HIDE DEF r
          <5>. QED  BY <3>4, <5>1
        <4>3. CASE i # 1 /\ j # 1
          <5>1. /\ i - 1 \in 1..(n - 1) /\ r[i] = s[i - 1]
                /\ j - 1 \in 1..(n - 1) /\ r[j] = s[j - 1] /\ i - 1 # j - 1
            BY <2>3, <4>3
          <5>. HIDE DEF r
          <5>. QED  BY <3>3, <5>1 DEF Enumerates
        <4>. QED  BY <4>1, <4>2, <4>3
      <3>. HIDE DEF r
      <3>8. Enumerates(r, n, T)
        BY <3>5, <3>6, <3>7 DEF Enumerates
      <3>. QED  BY <2>2, <3>8
    <2>. QED  BY <2>4, <2>5
  <1>2. Cardinality(S) \in Nat
    BY FS_CardinalityType
  <1>3. Fine(Cardinality(S))
    <2>. HIDE DEF Fine
    <2>. QED  BY <1>1, <1>2
  <1>. QED  BY <1>3

\* ... so that ByTime, a CHOOSE, is one.
LEMMA ByTimeLemma ==
    ASSUME NEW S, IsFiniteSet(S), \A x \in S : x.time \in Nat,
           \A x, y \in S : x.time = y.time => x = y
    PROVE  ByTime(S) \in Seq(S) /\ InOrder(ByTime(S))
  <1>. DEFINE n == Cardinality(S)
  <1>1. PICK s : Enumerates(s, n, S)
    BY EnumerationLemma
  <1>2. s \in SetToSeqs(S) /\ InOrder(s)
    BY <1>1 DEF Enumerates, SetToSeqs
  <1>3. ByTime(S) \in SetToSeqs(S) /\ InOrder(ByTime(S))
    BY <1>2 DEF ByTime
  <1>4. ByTime(S) \in [1..n -> S] /\ n \in Nat
    BY <1>3, FS_CardinalityType DEF SetToSeqs
  <1>. QED  BY <1>3, <1>4

-----------------------------------------------------------------------------
(* What the variables hold: messages and past phases of the game, requests *)
(* that were made.                                                         *)

Messages == [from : Powers, to : Recipients, text : Texts, time : 0 .. game.clock]
Notes == [kind : {"message"}, message : Messages]
         \cup [kind : {"orders"}, id : Numbers, units : SUBSET Units]
         \cup [kind : {"history", "processed"}, past : game.history]
         \cup [kind : {"phase"}, phase : 0 .. game.phase, messages : SUBSET Messages, orders : Orders]
Answers == [kind : {"response"}, id : DOMAIN requests, ok : BOOLEAN, time : 0 .. game.clock]
           \cup [kind : {"synced"}, phase : 0 .. game.phase]
Items == Notes \cup Answers
Mails == [id : {0} \cup DOMAIN requests, timestamp : Nat]
Conns == [up : BOOLEAN, holder : {"none", "old", "cur"}, ready : BOOLEAN, alive : BOOLEAN,
          queue : Seq(Notes), toServer : Seq(Mails), toClient : Seq(Items)]
Copies == [phase : 0 .. game.phase, history : SUBSET game.history,
           messages : SUBSET Messages, orders : Orders]
Requests == {r \in [client : Clients, kind : {"orders", "message"}, to : Powers \cup {Global},
                    text : Texts \cup {CHOOSE x \in Texts : TRUE}, units : SUBSET Units, phase : 0 .. MaxPhase,
                    status : Status, resent : BOOLEAN] :
                 /\ Role[r.client] \in Powers
                 /\ r.kind = "message" => r.to \in Recipients /\ r.text \in Texts}
Games == [phase : 0 .. MaxPhase, clock : Nat, messages : SUBSET Messages,
          history : SUBSET [phase : 0 .. MaxPhase, time : 0 .. game.clock],
          orders : [Powers -> Orders]]

Typed ==
    /\ game \in Games
    /\ requests \in Seq(Requests) /\ Len(requests) <= MaxRequests
    /\ conn \in [Clients -> Conns]
    /\ copy \in [Clients -> Copies]
    /\ breaks \in [Clients -> Nat]

\* All these sets grow when the clock and the phase go on, the history gets
\* longer and requests are made.
Grows ==
    /\ game'.clock \in Nat /\ game.clock <= game'.clock
    /\ game'.phase \in Nat /\ game.phase <= game'.phase
    /\ game.history \subseteq game'.history
    /\ DOMAIN requests \subseteq DOMAIN requests'
Larger == /\ Messages \subseteq Messages' /\ Notes \subseteq Notes' /\ Answers \subseteq Answers'
          /\ Items \subseteq Items' /\ Mails \subseteq Mails' /\ Conns \subseteq Conns'
          /\ Copies \subseteq Copies'

\* Orders that are given are added to orders.
LEMMA OrdersLemma == 0 \in Numbers /\ NoOrders \in Orders
  BY BoundsAssumption DEF NoOrders, Orders, Numbers

LEMMA GivenLemma ==
    ASSUME NEW orders \in Orders, NEW units, NEW i \in Numbers
    PROVE  Given(orders, units, i) \in Orders
  BY DEF Given, Orders

LEMMA SeqLemma ==
    ASSUME NEW S, NEW T, S \subseteq T, NEW s \in Seq(S)
    PROVE  s \in Seq(T)
  OBVIOUS

\* So what a queue or a copy held, it may still hold.
LEMMA LargerLemma ==
    ASSUME Typed, Grows
    PROVE  Larger
  <1>1. game.clock \in Nat /\ game.phase \in Nat
    BY DEF Typed, Games
  <1>2. 0 .. game.clock \subseteq 0 .. game'.clock /\ 0 .. game.phase \subseteq 0 .. game'.phase
    BY <1>1 DEF Grows
  <1>3. Messages \subseteq Messages'
    BY <1>2 DEF Messages
  <1>4. SUBSET Messages \subseteq SUBSET Messages'
    BY <1>3
  <1>5. Notes \subseteq Notes'
    <2>. HIDE DEF Messages
    <2>1. /\ [kind : {"message"}, message : Messages] \subseteq [kind : {"message"}, message : Messages']
          /\ [kind : {"history", "processed"}, past : game.history]
               \subseteq [kind : {"history", "processed"}, past : game'.history]
      BY <1>3 DEF Grows
    <2>2. [kind : {"phase"}, phase : 0 .. game.phase, messages : SUBSET Messages, orders : Orders]
            \subseteq [kind : {"phase"}, phase : 0 .. game'.phase, messages : SUBSET Messages', orders : Orders]
      BY <1>2, <1>4
    <2>. QED  BY <2>1, <2>2 DEF Notes, Numbers, Orders
  <1>6. Answers \subseteq Answers' /\ Mails \subseteq Mails'
    BY <1>2 DEF Answers, Mails, Grows
  <1>7. Items \subseteq Items'
    BY <1>5, <1>6 DEF Items
  <1>8. Conns \subseteq Conns'
    <2>1. Seq(Notes) \subseteq Seq(Notes') /\ Seq(Mails) \subseteq Seq(Mails') /\ Seq(Items) \subseteq Seq(Items')
      BY <1>5, <1>6, <1>7, SeqLemma
    <2>. QED  BY <2>1 DEF Conns
  <1>9. Copies \subseteq Copies'
    <2>1. SUBSET game.history \subseteq SUBSET game'.history
      BY DEF Grows
    <2>. QED  BY <1>2, <1>4, <2>1 DEF Copies, Orders, Numbers
  <1>. QED  BY <1>3, <1>5, <1>6, <1>7, <1>8, <1>9 DEF Larger

-----------------------------------------------------------------------------
(* The connections and the requests. *)

\* What a client sent and was answered are requests of its own.  What is on the
\* way to the server is neither held nor to be sent, and on the way once.  A
\* broken socket carries nothing.
Linked(c) ==
    LET k == conn[c] IN
    /\ \A i \in DOMAIN k.toServer : k.toServer[i].id # 0 =>
            /\ requests[k.toServer[i].id].client = c
            /\ requests[k.toServer[i].id].status \notin {"held", "unsent"}
    /\ \A i, j \in DOMAIN k.toServer :
            k.toServer[i].id # 0 /\ k.toServer[i].id = k.toServer[j].id => i = j
    /\ \A i \in DOMAIN k.toClient :
            k.toClient[i].kind = "response" => requests[k.toClient[i].id].client = c
    /\ ~k.up => /\ k.holder # "cur"
                /\ k.toServer = <<>> /\ k.toClient = <<>> /\ k.queue = <<>>

\* The requests of a client stay what they are, and those that are neither held
\* nor to be sent are not put back.
KeepsRequests(c) ==
    \A i \in DOMAIN requests : requests[i].client = c =>
        /\ i \in DOMAIN requests' /\ requests'[i].client = c
        /\ requests[i].status \notin {"held", "unsent"} => requests'[i].status \notin {"held", "unsent"}

\* What is on the way names requests that were made.
LEMMA IdsLemma ==
    ASSUME Typed, NEW c \in Clients
    PROVE  /\ \A i \in DOMAIN conn[c].toServer :
                conn[c].toServer[i].id # 0 => conn[c].toServer[i].id \in DOMAIN requests
           /\ \A i \in DOMAIN conn[c].toClient :
                conn[c].toClient[i].kind = "response" => conn[c].toClient[i].id \in DOMAIN requests
  <1>1. conn[c].toServer \in Seq(Mails) /\ conn[c].toClient \in Seq(Items)
    BY DEF Typed, Conns
  <1>2. \A i \in DOMAIN conn[c].toServer : conn[c].toServer[i] \in Mails
    BY <1>1
  <1>3. \A i \in DOMAIN conn[c].toClient : conn[c].toClient[i] \in Items
    BY <1>1
  <1>. QED  BY <1>2, <1>3 DEF Mails, Items, Notes, Answers

\* A connection that stays as it is ...
LEMMA KeepLemma ==
    ASSUME Typed, Larger, NEW c \in Clients, KeepsRequests(c), Linked(c), conn'[c] = conn[c]
    PROVE  conn'[c] \in Conns' /\ Linked(c)'
  <1>1. conn'[c] \in Conns'
    BY DEF Typed, Larger
  <1>2. Linked(c)'
    BY IdsLemma DEF Linked, KeepsRequests
  <1>. QED  BY <1>1, <1>2

\* ... one that is told something ...
Told(c, notes) ==
    conn[c].holder = "cur" /\ conn'[c] = [conn[c] EXCEPT !.queue = @ \o notes]

LEMMA TellLemma ==
    ASSUME Typed, Larger, NEW c \in Clients, KeepsRequests(c), Linked(c),
           NEW notes \in Seq(Notes'), Told(c, notes)
    PROVE  conn'[c] \in Conns' /\ Linked(c)'
  <1>1. conn[c] \in Conns /\ conn[c] \in Conns'
    BY DEF Typed, Larger
  <1>2. conn[c].queue \o notes \in Seq(Notes')
    BY <1>1 DEF Conns
  <1>3. conn'[c] \in Conns'
    BY <1>1, <1>2 DEF Told, Conns
  <1>4. /\ conn'[c].toServer = conn[c].toServer /\ conn'[c].toClient = conn[c].toClient
        /\ conn'[c].up = conn[c].up /\ conn[c].up
    BY <1>1 DEF Told, Conns, Linked
  <1>5. Linked(c)'
    BY <1>4, IdsLemma DEF Linked, KeepsRequests
  <1>. QED  BY <1>3, <1>5

\* ... one whose first request is answered, after the notes that are for it ...
Served(c, notes, answer) ==
    /\ conn[c].toServer # <<>>
    /\ conn'[c] = [conn[c] EXCEPT !.toServer = Tail(@), !.holder = "cur",
                                  !.queue = @ \o notes, !.toClient = Append(@, answer)]

LEMMA AnswerLemma ==
    ASSUME Typed, Larger, NEW c \in Clients, KeepsRequests(c), Linked(c),
           NEW notes \in Seq(Notes'), NEW answer \in Answers', Served(c, notes, answer),
           answer.kind = "response" => requests'[answer.id].client = c
    PROVE  conn'[c] \in Conns' /\ Linked(c)'
  <1>1. conn[c] \in Conns /\ conn[c] \in Conns'
    BY DEF Typed, Larger
  <1>2. conn[c].queue \o notes \in Seq(Notes')
    BY <1>1 DEF Conns
  <1>3. /\ Tail(conn[c].toServer) \in Seq(Mails')
        /\ Len(Tail(conn[c].toServer)) = Len(conn[c].toServer) - 1
        /\ \A i \in DOMAIN Tail(conn[c].toServer) :
             i + 1 \in DOMAIN conn[c].toServer /\ Tail(conn[c].toServer)[i] = conn[c].toServer[i + 1]
    BY <1>1 DEF Conns, Served
  <1>4. /\ Append(conn[c].toClient, answer) \in Seq(Items')
        /\ \A i \in DOMAIN Append(conn[c].toClient, answer) :
             \/ i \in DOMAIN conn[c].toClient /\ Append(conn[c].toClient, answer)[i] = conn[c].toClient[i]
             \/ Append(conn[c].toClient, answer)[i] = answer
    BY <1>1 DEF Conns, Items
  <1>5. conn'[c] \in Conns'
    BY <1>1, <1>2, <1>3, <1>4 DEF Served, Conns
  <1>6. /\ conn'[c].toServer = Tail(conn[c].toServer)
        /\ conn'[c].toClient = Append(conn[c].toClient, answer)
        /\ conn'[c].up = conn[c].up /\ conn[c].up
    BY <1>1 DEF Served, Conns, Linked
  <1>7. Linked(c)'
    <2>1. \A i \in DOMAIN conn'[c].toServer : conn'[c].toServer[i].id # 0 =>
              /\ requests'[conn'[c].toServer[i].id].client = c
              /\ requests'[conn'[c].toServer[i].id].status \notin {"held", "unsent"}
      BY <1>3, <1>6, IdsLemma DEF Linked, KeepsRequests
    <2>2. \A i, j \in DOMAIN conn'[c].toServer :
              conn'[c].toServer[i].id # 0 /\ conn'[c].toServer[i].id = conn'[c].toServer[j].id => i = j
      <3>. TAKE i, j \in DOMAIN conn'[c].toServer
      <3>. HAVE conn'[c].toServer[i].id # 0 /\ conn'[c].toServer[i].id = conn'[c].toServer[j].id
      <3>1. /\ i + 1 \in DOMAIN conn[c].toServer /\ conn'[c].toServer[i] = conn[c].toServer[i + 1]
            /\ j + 1 \in DOMAIN conn[c].toServer /\ conn'[c].toServer[j] = conn[c].toServer[j + 1]
            /\ i \in Nat /\ j \in Nat
        BY <1>1, <1>3, <1>6
      <3>2. i + 1 = j + 1
        BY <3>1 DEF Linked
      <3>. QED  BY <3>1, <3>2
    <2>3. \A i \in DOMAIN conn'[c].toClient :
              conn'[c].toClient[i].kind = "response" => requests'[conn'[c].toClient[i].id].client = c
      BY <1>4, <1>6, IdsLemma DEF Linked, KeepsRequests
    <2>. QED  BY <1>6, <2>1, <2>2, <2>3 DEF Linked
  <1>. QED  BY <1>5, <1>7

\* ... one that breaks.
LEMMA CutLemma ==
    ASSUME Typed, Larger, NEW c \in Clients, conn'[c] = Cut(conn[c])
    PROVE  conn'[c] \in Conns' /\ Linked(c)' /\ conn'[c].toServer = <<>>
  <1>1. conn[c] \in Conns'
    BY DEF Typed, Larger
  <1>2. conn'[c] \in Conns'
    <2>1. <<>> \in Seq(Notes') /\ <<>> \in Seq(Mails') /\ <<>> \in Seq(Items')
      OBVIOUS
    <2>2. (IF conn[c].holder = "cur" THEN "old" ELSE conn[c].holder) \in {"none", "old", "cur"}
      BY <1>1 DEF Conns
    <2>. QED  BY <1>1, <2>1, <2>2 DEF Cut, Conns
  <1>3. conn'[c].toServer = <<>> /\ conn'[c].toClient = <<>> /\ conn'[c].queue = <<>> /\ conn'[c].holder # "cur"
    BY <1>1 DEF Cut, Conns
  <1>4. Linked(c)'
    BY <1>3 DEF Linked
  <1>. QED  BY <1>2, <1>3, <1>4

-----------------------------------------------------------------------------
(* The game and the inductive invariant. *)

\* Messages and past phases are finitely many and differ in their times, past
\* phases also in their phases, which are in the order of the times.
PastIsSound ==
    /\ IsFiniteSet(game.messages) /\ IsFiniteSet(game.history)
    /\ \A m, n \in game.messages : m.time = n.time => m = n
    /\ \A h \in game.history : h.phase < game.phase
    /\ \A h, g \in game.history : h.phase < g.phase => h.time < g.time
    /\ \A h, g \in game.history : h.phase = g.phase => h = g

\* The orders of a power were asked for by its player, in this phase.
OrdersAreSound ==
    \A p \in Powers, u \in Units : game.orders[p][u] # 0 =>
        game.orders[p][u] \in DOMAIN requests /\ IsOfPhase(p, u, game.orders[p][u])

\* A request that the server has not seen: a first attempt that is held, to be
\* sent, or on the way.
Fresh(i) ==
    /\ ~requests[i].resent
    /\ \/ requests[i].status \in {"held", "unsent"}
       \/ \E c \in Clients : \E j \in DOMAIN conn[c].toServer : conn[c].toServer[j].id = i

\* Each message of a client's power is due to a request of its own.
Own == {m \in game.messages : m.from \notin Others}
IsDue(m, i) ==
    /\ i \in DOMAIN requests /\ ~Fresh(i)
    /\ requests[i].kind = "message" /\ requests[i].phase = game.phase
    /\ m.from = Role[requests[i].client] /\ m.to = requests[i].to /\ m.text = requests[i].text
Assigns(f) ==
    /\ f \in [Own -> DOMAIN requests]
    /\ \A m \in Own : IsDue(m, f[m])
    /\ \A m, n \in Own : f[m] = f[n] => m = n
EachIsDue == \E f : Assigns(f)

IInv ==
    /\ Typed
    /\ \A c \in Clients : Linked(c)
    /\ PastIsSound
    /\ OrdersAreSound
    /\ EachIsDue

\* The connections of a step.
Joined == conn' \in [Clients -> Conns'] /\ \A c \in Clients : Linked(c)'

\* A conn table is made of connections that are sound.
LEMMA JoinLemma ==
    ASSUME conn' = [c \in Clients |-> conn'[c]],
           \A c \in Clients : conn'[c] \in Conns' /\ Linked(c)'
    PROVE  Joined
  <1>1. conn' \in [Clients -> Conns']
    <2>. DEFINE f == [c \in Clients |-> conn'[c]]
    <2>1. f \in [Clients -> Conns']
      OBVIOUS
    <2>. QED  BY <2>1
  <1>. QED  BY <1>1 DEF Joined

\* The messages that are recorded go to those who may see them.
LEMMA NotifyLemma ==
    ASSUME Typed, Larger, \A c \in Clients : Linked(c), UNCHANGED requests,
           NEW S, NEW notes \in Seq(Notes'), conn' = NotifyAll(conn, S, notes)
    PROVE  /\ Joined
           /\ \A c \in Clients : conn'[c] = conn[c] \/ (c \in S /\ Told(c, notes))
  <1>1. conn' = [c \in Clients |-> conn'[c]]
    BY DEF NotifyAll
  <1>2. ASSUME NEW c \in Clients PROVE KeepsRequests(c)
    BY DEF KeepsRequests
  <1>3. ASSUME NEW c \in Clients
        PROVE  conn'[c] \in Conns' /\ Linked(c)' /\ (conn'[c] = conn[c] \/ (c \in S /\ Told(c, notes)))
    <2>1. CASE c \in S /\ conn[c].holder = "cur"
      <3>1. Told(c, notes)
        BY <2>1 DEF NotifyAll, Told
      <3>. QED  BY <1>2, <2>1, <3>1, TellLemma
    <2>2. CASE ~(c \in S /\ conn[c].holder = "cur")
      <3>1. conn'[c] = conn[c]
        BY <2>2 DEF NotifyAll
      <3>. QED  BY <1>2, <3>1, KeepLemma
    <2>. QED  BY <2>1, <2>2
  <1>. QED  BY <1>1, <1>3, JoinLemma

\* The first request of a client is taken, notes are sent to some, and it is
\* answered.
Taken(c) == [conn EXCEPT ![c].toServer = Tail(@), ![c].holder = "cur"]
Accepts(c) == conn[c].toServer # <<>> /\ conn[c].holder # "old"

Takes(c) ==
    \A d \in Clients : conn'[d].toServer = IF d = c THEN Tail(conn[c].toServer) ELSE conn[d].toServer

LEMMA TakenLemma ==
    ASSUME Typed, NEW c \in Clients
    PROVE  /\ DOMAIN Taken(c) = Clients
           /\ Taken(c)[c] = [conn[c] EXCEPT !.toServer = Tail(@), !.holder = "cur"]
           /\ \A d \in Clients \ {c} : Taken(c)[d] = conn[d]
  BY DEF Typed, Taken

\* What becomes of the connections.
Handed(c, S, notes, answer) ==
    /\ Served(c, IF c \in S THEN notes ELSE <<>>, answer)
    /\ \A d \in Clients \ {c} : conn'[d] = conn[d] \/ (d \in S /\ Told(d, notes))

\* Only the client that is served and those in S notice.
LEMMA HandedLemma ==
    ASSUME Typed, NEW c \in Clients, Accepts(c), NEW S, NEW notes, NEW answer,
           conn' = Respond(NotifyAll(Taken(c), S, notes), c, answer)
    PROVE  conn' = [d \in Clients |-> conn'[d]] /\ Handed(c, S, notes, answer)
  <1>. DEFINE cs == Taken(c)
              ns == NotifyAll(cs, S, notes)
  <1>0. /\ DOMAIN cs = Clients
        /\ cs[c] = [conn[c] EXCEPT !.toServer = Tail(@), !.holder = "cur"]
        /\ \A d \in Clients \ {c} : cs[d] = conn[d]
    BY TakenLemma
  <1>. HIDE DEF cs
  <1>1. /\ ns = [d \in Clients |-> IF d \in S /\ cs[d].holder = "cur"
                                   THEN [cs[d] EXCEPT !.queue = @ \o notes] ELSE cs[d]]
        /\ conn' = [ns EXCEPT ![c].toClient = Append(@, answer)]
    BY DEF NotifyAll, Respond, cs
  <1>. HIDE DEF ns
  <1>2. /\ DOMAIN ns = Clients
        /\ \A d \in Clients : ns[d] = IF d \in S /\ cs[d].holder = "cur"
                                      THEN [cs[d] EXCEPT !.queue = @ \o notes] ELSE cs[d]
    BY <1>1
  <1>3. /\ conn' = [d \in Clients |-> conn'[d]]
        /\ conn'[c] = [ns[c] EXCEPT !.toClient = Append(@, answer)]
        /\ \A d \in Clients \ {c} : conn'[d] = ns[d]
    <2>1. conn' = [d \in Clients |-> IF d = c THEN [ns[c] EXCEPT !.toClient = Append(@, answer)] ELSE ns[d]]
      BY <1>1, <1>2
    <2>. HIDE DEF Respond
    <2>. QED  BY <2>1
  <1>4. ASSUME NEW d \in Clients \ {c} PROVE conn'[d] = conn[d] \/ (d \in S /\ Told(d, notes))
    BY <1>0, <1>2, <1>3 DEF Told
  <1>5. Served(c, IF c \in S THEN notes ELSE <<>>, answer)
    <2>. DEFINE told == IF c \in S THEN notes ELSE <<>>
    <2>1. conn[c] \in Conns
      BY DEF Typed
    <2>2. cs[c].holder = "cur" /\ cs[c].queue = conn[c].queue /\ cs[c].toClient = conn[c].toClient
      BY <1>0, <2>1 DEF Conns
    <2>3. CASE c \in S
      <3>1. ns[c] = [cs[c] EXCEPT !.queue = @ \o notes]
        BY <1>2, <2>2, <2>3
      <3>. QED  BY <1>0, <1>3, <2>1, <2>2, <2>3, <3>1 DEF Served, Accepts, Conns
    <2>4. CASE c \notin S
      <3>1. ns[c] = cs[c] /\ conn[c].queue \o told = conn[c].queue /\ told = <<>>
        <4>1. conn[c].queue \in Seq(Notes) /\ told = <<>>
          BY <2>1, <2>4 DEF Conns
        <4>. HIDE DEF told
        <4>. QED  BY <1>2, <2>4, <4>1
      <3>2. Served(c, told, answer)
        <4>. HIDE DEF told
        <4>1. ns[c] = [conn[c] EXCEPT !.toServer = Tail(@), !.holder = "cur", !.queue = @ \o told]
          <5>1. conn[c].queue \o told = conn[c].queue
            BY <3>1
          <5>. QED  BY ONLY <1>0, <2>1, <3>1, <5>1 DEF Conns
        <4>2. conn'[c] = [conn[c] EXCEPT !.toServer = Tail(@), !.holder = "cur", !.queue = @ \o told,
                                         !.toClient = Append(@, answer)]
          BY ONLY <1>3, <2>1, <4>1 DEF Conns
        <4>3. conn[c].toServer # <<>>
          BY DEF Accepts
        <4>. QED  BY ONLY <4>2, <4>3 DEF Served
      <3>. QED  BY <3>2
    <2>. QED  BY <2>3, <2>4
  <1>. QED  BY <1>3, <1>4, <1>5 DEF Handed

\* The connections stay sound when a request is answered.
LEMMA RespondLemma ==
    ASSUME Typed, Larger, \A d \in Clients : Linked(d), UNCHANGED requests,
           NEW c \in Clients, Accepts(c),
           NEW S, NEW notes \in Seq(Notes'), NEW answer \in Answers',
           answer.kind = "response" => requests'[answer.id].client = c,
           conn' = Respond(NotifyAll(Taken(c), S, notes), c, answer)
    PROVE  Joined /\ Takes(c)
  <1>. DEFINE told == IF c \in S THEN notes ELSE <<>>
  <1>1. /\ conn' = [d \in Clients |-> conn'[d]] /\ Served(c, told, answer) /\ told \in Seq(Notes')
        /\ \A d \in Clients \ {c} : conn'[d] = conn[d] \/ Told(d, notes)
    BY HandedLemma DEF Handed
  <1>. HIDE DEF told
  <1>2. ASSUME NEW d \in Clients PROVE KeepsRequests(d) /\ conn[d] \in Conns
    BY DEF KeepsRequests, Typed
  <1>3. ASSUME NEW d \in Clients, d # c
        PROVE  conn'[d] \in Conns' /\ Linked(d)' /\ conn'[d].toServer = conn[d].toServer
    <2>1. CASE conn'[d] = conn[d]
      BY <1>2, <2>1, KeepLemma
    <2>2. CASE Told(d, notes)
      <3>1. conn'[d].toServer = conn[d].toServer
        BY <1>2, <2>2 DEF Told, Conns
      <3>. QED  BY <1>2, <2>2, <3>1, TellLemma
    <2>. QED  BY <1>1, <1>3, <2>1, <2>2
  <1>4. conn'[c] \in Conns' /\ Linked(c)' /\ conn'[c].toServer = Tail(conn[c].toServer)
    <2>1. conn'[c].toServer = Tail(conn[c].toServer)
      BY <1>1, <1>2 DEF Served, Conns
    <2>. QED  BY <1>1, <1>2, <2>1, AnswerLemma
  <1>5. Joined
    BY <1>1, <1>3, <1>4, JoinLemma
  <1>. QED  BY <1>3, <1>4, <1>5 DEF Takes

-----------------------------------------------------------------------------
(* The steps of the server. *)

\* The first state.
LEMMA InitIInv == Init => IInv
  <1>. SUFFICES ASSUME Init PROVE IInv
    OBVIOUS
  <1>1. /\ MaxRequests \in Nat /\ MaxPhase \in Nat /\ MaxBreaks \in Nat
    BY BoundsAssumption
  <1>2. /\ game.phase = 0 /\ game.clock = 0 /\ game.messages = {} /\ game.history = {}
        /\ requests = <<>> /\ DOMAIN requests = {}
    BY DEF Init
  <1>3. game \in Games
    BY <1>1, OrdersLemma DEF Init, Games
  <1>4. conn \in [Clients -> Conns]
    <2>1. <<>> \in Seq(Notes) /\ <<>> \in Seq(Mails) /\ <<>> \in Seq(Items)
      OBVIOUS
    <2>. QED  BY <2>1 DEF Init, Conns
  <1>5. copy \in [Clients -> Copies]
    BY <1>1, OrdersLemma DEF Init, Copies
  <1>6. Typed
    <2>1. breaks \in [Clients -> Nat]
      BY DEF Init
    <2>. QED  BY <1>1, <1>2, <1>3, <1>4, <1>5, <2>1 DEF Typed
  <1>7. \A c \in Clients : Linked(c)
    BY DEF Init, Linked
  <1>8. PastIsSound
    BY <1>2, FS_EmptySet DEF PastIsSound
  <1>9. OrdersAreSound
    BY DEF Init, OrdersAreSound, NoOrders
  <1>10. EachIsDue
    <2>1. Own = {}
      BY <1>2 DEF Own
    <2>2. Assigns([m \in {} |-> 0])
      BY <2>1 DEF Assigns
    <2>. QED  BY <2>2 DEF EachIsDue
  <1>. QED  BY <1>6, <1>7, <1>8, <1>9, <1>10 DEF IInv

\* What a synchronization sends is made of the game's past and messages.
LEMMA NewsLemma ==
    ASSUME Typed, PastIsSound, NEW role, NEW t \in Nat
    PROVE  News(role, t) \in Seq(Notes)
  <1>. DEFINE H == HistoryFrom(AfterLatest(t))
              M == {m \in MessagesFrom(AfterLatest(t)) : Sees(role, m) /\ m.from # role}
              past == ByTime(H)
              new == ByTime(M)
              now == [kind |-> "phase", phase |-> game.phase,
                      messages |-> {m \in game.messages : Sees(role, m)},
                      orders |-> IF role \in Powers THEN game.orders[role] ELSE NoOrders]
              first == [i \in DOMAIN past |-> [kind |-> "history", past |-> past[i]]]
              second == [i \in DOMAIN new |-> [kind |-> "message", message |-> new[i]]]
              third == IF past = <<>> THEN <<>> ELSE <<now>>
  <1>1. /\ game.phase \in 0 .. game.phase /\ game.messages \in SUBSET Messages
        /\ game.orders \in [Powers -> Orders] /\ NoOrders \in Orders
        /\ \A h \in game.history : h.time \in Nat
        /\ \A m \in game.messages : m.time \in Nat
    BY OrdersLemma DEF Typed, Games, Messages
  <1>2. H \subseteq game.history /\ M \subseteq game.messages
    BY DEF HistoryFrom, MessagesFrom
  <1>3. /\ IsFiniteSet(H) /\ IsFiniteSet(M)
    BY <1>2, FS_Subset DEF PastIsSound
  <1>4. \A h, g \in game.history : h.time = g.time => h = g
    <2>1. \A h \in game.history : h.phase \in Nat /\ h.time \in Nat
      BY DEF Typed, Games
    <2>. QED  BY <2>1 DEF PastIsSound
  <1>. HIDE DEF H, M
  <1>5. past \in Seq(H)
    BY <1>1, <1>2, <1>3, <1>4, ByTimeLemma
  <1>6. new \in Seq(M)
    BY <1>1, <1>2, <1>3, ByTimeLemma DEF PastIsSound
  <1>. HIDE DEF past, new
  <1>7. first \in Seq(Notes)
    <2>1. first \in [1 .. Len(past) -> Notes] /\ Len(past) \in Nat
      <3>1. \A i \in DOMAIN past : past[i] \in game.history
        BY <1>2, <1>5
      <3>2. DOMAIN past = 1 .. Len(past) /\ Len(past) \in Nat
        BY <1>5
      <3>. QED  BY <3>1, <3>2 DEF Notes
    <2>. HIDE DEF first
    <2>. QED  BY <2>1
  <1>8. second \in Seq(Notes)
    <2>1. second \in [1 .. Len(new) -> Notes] /\ Len(new) \in Nat
      <3>1. \A i \in DOMAIN new : new[i] \in Messages
        BY <1>1, <1>2, <1>6
      <3>2. DOMAIN new = 1 .. Len(new) /\ Len(new) \in Nat
        BY <1>6
      <3>. HIDE DEF Messages
      <3>. QED  BY <3>1, <3>2 DEF Notes
    <2>. HIDE DEF second
    <2>. QED  BY <2>1
  <1>9. third \in Seq(Notes)
    <2>1. now \in Notes
      <3>1. {m \in game.messages : Sees(role, m)} \in SUBSET Messages
        BY <1>1
      <3>. HIDE DEF Messages
      <3>. QED  BY <1>1, <3>1 DEF Notes
    <2>. HIDE DEF now
    <2>. QED  BY <2>1
  <1>10. News(role, t) = first \o second \o third
    BY DEF News, past, new, H, M
  <1>. HIDE DEF first, second, third
  <1>. QED  BY <1>7, <1>8, <1>9, <1>10

\* What a step of the server leaves to show.
LEMMA ServerLemma ==
    ASSUME IInv, Grows, game' \in Games', UNCHANGED <<copy, requests, breaks>>, Joined,
           PastIsSound', OrdersAreSound', EachIsDue'
    PROVE  IInv'
  <1>1. copy' \in [Clients -> Copies']
    BY LargerLemma DEF IInv, Typed, Larger
  <1>2. Typed'
    BY <1>1 DEF IInv, Typed, Joined
  <1>. QED  BY <1>2 DEF IInv, Joined

\* When no request becomes fresh and no message of a client's power is recorded,
\* each message stays due.
Calm == \A i \in DOMAIN requests : Fresh(i)' => Fresh(i)
KeepsAll ==
    \A i \in DOMAIN requests :
        /\ i \in DOMAIN requests'
        /\ requests'[i].client = requests[i].client /\ requests'[i].kind = requests[i].kind
        /\ requests'[i].to = requests[i].to /\ requests'[i].text = requests[i].text
        /\ requests'[i].units = requests[i].units /\ requests'[i].phase = requests[i].phase

\* Time rests, with the messages and the past.
Rests ==
    /\ KeepsAll
    /\ game'.phase = game.phase /\ game'.clock = game.clock
    /\ game'.messages = game.messages /\ game'.history = game.history

\* Nothing is owed anew when no message is recorded and no request gets fresh.
LEMMA DueLemma ==
    ASSUME EachIsDue, Calm, KeepsAll, game'.phase = game.phase, Own' \subseteq Own
    PROVE  EachIsDue'
  <1>1. PICK f : Assigns(f)
    BY DEF EachIsDue
  <1>0. PICK g : g = [m \in Own' |-> f[m]]
    OBVIOUS
  <1>2. \A m \in Own : f[m] \in DOMAIN requests /\ IsDue(m, f[m])
    BY <1>1 DEF Assigns
  <1>3. \A m \in Own' : f[m] \in DOMAIN requests' /\ IsDue(m, f[m])'
    BY <1>2 DEF IsDue, Calm, KeepsAll
  <1>4. Assigns(g)'
    <2>1. g \in [Own' -> DOMAIN requests']
      BY <1>0, <1>3
    <2>2. \A m \in Own' : IsDue(m, g[m])'
      <3>1. \A m \in Own' : g[m] = f[m]
        BY <1>0
      <3>. QED  BY <1>3, <3>1
    <2>3. \A m, n \in Own' : g[m] = g[n] => m = n
      BY <1>0, <1>1 DEF Assigns
    <2>. QED  BY <2>1, <2>2, <2>3 DEF Assigns
  <1>. QED  BY <1>4 DEF EachIsDue

\* The server only takes from what is on the way to it.
LEMMA CalmLemma ==
    ASSUME UNCHANGED requests,
           \A c \in Clients : \A j \in DOMAIN conn'[c].toServer :
               \E i \in DOMAIN conn[c].toServer : conn[c].toServer[i].id = conn'[c].toServer[j].id
    PROVE  Calm /\ KeepsAll
  BY DEF Calm, KeepsAll, Fresh

\* A message is recorded.
New(m) ==
    /\ m \in [from : Powers, to : Recipients, text : Texts, time : {game.clock + 1}]
    /\ game' = [game EXCEPT !.clock = @ + 1, !.messages = @ \cup {m}]

\* A message at the next tick of the clock is new.
LEMMA NewLemma ==
    ASSUME IInv, UNCHANGED requests, NEW m, New(m)
    PROVE  /\ Grows /\ game' \in Games' /\ m \in Messages' /\ m \notin game.messages
           /\ PastIsSound' /\ OrdersAreSound'
           /\ game'.phase = game.phase /\ game'.messages = game.messages \cup {m}
  <1>1. game \in Games
    BY DEF IInv, Typed
  <1>2. /\ game'.phase = game.phase /\ game'.clock = game.clock + 1
        /\ game'.messages = game.messages \cup {m}
        /\ game'.history = game.history /\ game'.orders = game.orders
        /\ game' = [phase |-> game'.phase, clock |-> game'.clock, messages |-> game'.messages,
                    history |-> game'.history, orders |-> game'.orders]
    BY <1>1 DEF New, Games
  <1>3. Grows
    BY <1>1, <1>2 DEF Grows, Games
  <1>4. m \in Messages' /\ Messages \subseteq Messages'
    <2>1. m \in Messages'
      BY <1>1, <1>2 DEF New, Messages, Games
    <2>. QED  BY <1>3, <2>1, LargerLemma DEF IInv, Larger
  <1>5. game' \in Games'
    <2>1. game.messages \subseteq Messages
      BY <1>1 DEF Games
    <2>2. game'.messages \in SUBSET Messages'
      BY <1>2, <1>4, <2>1
    <2>3. game'.history \subseteq [phase : 0 .. MaxPhase, time : 0 .. game'.clock]
      <3>1. 0 .. game.clock \subseteq 0 .. game'.clock
        BY <1>1, <1>2 DEF Games
      <3>2. game.history \subseteq [phase : 0 .. MaxPhase, time : 0 .. game.clock]
        BY <1>1 DEF Games
      <3>. QED  BY <1>2, <3>1, <3>2
    <2>. QED  BY <1>1, <1>2, <2>2, <2>3 DEF Games
  <1>6. \A n \in game.messages : n.time \in 0 .. game.clock
    BY <1>1 DEF Games, Messages
  <1>7. m.time = game.clock + 1 /\ game.clock \in Nat
    BY <1>1 DEF New, Games
  <1>8. PastIsSound'
    <2>1. IsFiniteSet(game'.messages) /\ IsFiniteSet(game'.history)
      BY <1>2, FS_AddElement DEF IInv, PastIsSound
    <2>2. \A x, y \in game'.messages : x.time = y.time => x = y
      BY <1>2, <1>6, <1>7 DEF IInv, PastIsSound
    <2>. QED  BY <1>2, <2>1, <2>2 DEF IInv, PastIsSound
  <1>9. OrdersAreSound'
    BY <1>2 DEF IInv, OrdersAreSound, IsOfPhase
  <1>. QED  BY <1>2, <1>3, <1>4, <1>5, <1>6, <1>7, <1>8, <1>9

\* The note of a message.
LEMMA NoteLemma ==
    ASSUME NEW m \in Messages'
    PROVE  <<[kind |-> "message", message |-> m]>> \in Seq(Notes')
  <1>1. [kind |-> "message", message |-> m] \in Notes'
    BY DEF Notes
  <1>. QED  BY <1>1

\* The message of a power without a client is new and of the others.
LEMMA OtherSendsNew ==
    ASSUME OtherSends
    PROVE  \E m : New(m) /\ m.from \in Others
  <1>. PICK p \in Others : \E to \in Recipients \ {p}, text \in Texts :
         game' = [game EXCEPT !.clock = @ + 1,
                              !.messages = @ \cup {[from |-> p, to |-> to, text |-> text, time |-> game.clock + 1]}]
    BY DEF OtherSends
  <1>. PICK to \in Recipients \ {p}, text \in Texts :
         game' = [game EXCEPT !.clock = @ + 1,
                              !.messages = @ \cup {[from |-> p, to |-> to, text |-> text, time |-> game.clock + 1]}]
    OBVIOUS
  <1>. DEFINE m == [from |-> p, to |-> to, text |-> text, time |-> game.clock + 1]
  <1>1. New(m) /\ m.from \in Others
    BY DEF New, Others
  <1>. QED  BY <1>1

\* It is not due to a request.
LEMMA OtherSendsIInv ==
    ASSUME IInv, OtherSends
    PROVE  IInv'
  <1>0. UNCHANGED <<copy, requests, breaks>>
    BY DEF OtherSends
  <1>. PICK p \in Others : \E to \in Recipients \ {p}, text \in Texts :
         LET m == [from |-> p, to |-> to, text |-> text, time |-> game.clock + 1]
         IN  /\ game' = [game EXCEPT !.clock = @ + 1, !.messages = @ \cup {m}]
             /\ conn' = Notify(conn, {c \in Clients : Sees(Role[c], m)}, [kind |-> "message", message |-> m])
    BY DEF OtherSends
  <1>. PICK to \in Recipients \ {p}, text \in Texts :
         LET m == [from |-> p, to |-> to, text |-> text, time |-> game.clock + 1]
         IN  /\ game' = [game EXCEPT !.clock = @ + 1, !.messages = @ \cup {m}]
             /\ conn' = Notify(conn, {c \in Clients : Sees(Role[c], m)}, [kind |-> "message", message |-> m])
    OBVIOUS
  <1>. DEFINE m == [from |-> p, to |-> to, text |-> text, time |-> game.clock + 1]
              note == [kind |-> "message", message |-> m]
              S == {c \in Clients : Sees(Role[c], m)}
  <1>1. New(m) /\ m.from \in Others
    BY DEF New, Others
  <1>2. conn' = NotifyAll(conn, S, <<note>>)
    BY DEF Notify
  <1>. HIDE DEF m
  <1>3. /\ Grows /\ game' \in Games' /\ m \in Messages'
        /\ PastIsSound' /\ OrdersAreSound'
        /\ game'.phase = game.phase /\ game'.messages = game.messages \cup {m}
    BY <1>0, <1>1, NewLemma
  <1>4. Larger
    BY <1>3, LargerLemma DEF IInv
  <1>5. <<note>> \in Seq(Notes')
    BY <1>3, NoteLemma
  <1>. HIDE DEF note, S
  <1>6. Joined
    BY <1>0, <1>2, <1>4, <1>5, NotifyLemma DEF IInv
  <1>7. EachIsDue'
    <2>1. \A c \in Clients : conn'[c].toServer = conn[c].toServer
      <3>1. \A c \in Clients : conn[c] \in Conns
        BY DEF IInv, Typed
      <3>. QED  BY <1>2, <3>1 DEF NotifyAll, Conns
    <2>2. Calm /\ KeepsAll
      BY <1>0, <2>1, CalmLemma
    <2>3. Own' \subseteq Own
      BY <1>1, <1>3 DEF Own
    <2>. QED  BY <1>3, <2>2, <2>3, DueLemma DEF IInv
  <1>. QED  BY <1>0, <1>3, <1>6, <1>7, ServerLemma

\* A processing empties the messages and the orders; the past gets one phase more.
LEMMA ProcessIInv ==
    ASSUME IInv, Process
    PROVE  IInv'
  <1>0. UNCHANGED <<copy, requests, breaks>> /\ game.phase < MaxPhase
    BY DEF Process
  <1>. DEFINE past == [phase |-> game.phase, time |-> game.clock + 1]
              note == [kind |-> "processed", past |-> past]
  <1>1. /\ game' = [phase |-> game.phase + 1, clock |-> past.time, messages |-> {},
                    history |-> game.history \cup {past}, orders |-> [p \in Powers |-> NoOrders]]
        /\ conn' = NotifyAll(conn, Clients, <<note>>)
    BY DEF Process, Notify
  <1>2. game \in Games /\ game.phase \in Nat /\ game.clock \in Nat /\ MaxPhase \in Nat /\ MaxRequests \in Nat
    BY BoundsAssumption DEF IInv, Typed, Games
  <1>3. /\ game'.phase = game.phase + 1 /\ game'.clock = game.clock + 1 /\ game'.messages = {}
        /\ game'.history = game.history \cup {past} /\ game'.orders = [p \in Powers |-> NoOrders]
        /\ past.phase = game.phase /\ past.time = game.clock + 1
    BY <1>1
  <1>4. Grows
    BY <1>0, <1>2, <1>3 DEF Grows
  <1>5. \A h \in game.history : h \in [phase : 0 .. MaxPhase, time : 0 .. game.clock]
    BY <1>2 DEF Games
  <1>6. game' \in Games'
    <2>1. past \in [phase : 0 .. MaxPhase, time : 0 .. game'.clock]
      BY <1>0, <1>2, <1>3
    <2>2. 0 .. game.clock \subseteq 0 .. game'.clock
      BY <1>2, <1>3
    <2>3. game'.history \subseteq [phase : 0 .. MaxPhase, time : 0 .. game'.clock]
      BY <1>3, <1>5, <2>1, <2>2
    <2>4. game'.orders \in [Powers -> Orders]
      BY <1>3, OrdersLemma
    <2>5. game'.phase \in 0 .. MaxPhase /\ game'.clock \in Nat
      BY <1>0, <1>2, <1>3
    <2>6. game' = [phase |-> game'.phase, clock |-> game'.clock, messages |-> game'.messages,
                   history |-> game'.history, orders |-> game'.orders]
      BY <1>1
    <2>7. game'.messages \in SUBSET Messages'
      BY <1>3
    <2>. QED  BY <2>3, <2>4, <2>5, <2>6, <2>7 DEF Games
  <1>. HIDE DEF past
  <1>7. Joined
    <2>1. <<note>> \in Seq(Notes')
      <3>1. note \in Notes'
        BY <1>3 DEF Notes
      <3>. QED  BY <3>1
    <2>. HIDE DEF note
    <2>. QED  BY <1>0, <1>1, <1>4, <2>1, LargerLemma, NotifyLemma DEF IInv
  <1>8. PastIsSound'
    <2>1. \A h \in game.history : h.phase \in Nat /\ h.phase < game.phase /\ h.time \in Nat /\ h.time < past.time
      BY <1>2, <1>3, <1>5 DEF IInv, PastIsSound
    <2>2. IsFiniteSet(game'.messages) /\ IsFiniteSet(game'.history)
      BY <1>3, FS_AddElement, FS_EmptySet DEF IInv, PastIsSound
    <2>3. \A h \in game'.history : h.phase < game'.phase
      BY <1>2, <1>3, <2>1
    <2>4. \A h, g \in game'.history : h.phase < g.phase => h.time < g.time
      BY <1>2, <1>3, <2>1 DEF IInv, PastIsSound
    <2>5. \A h, g \in game'.history : h.phase = g.phase => h = g
      BY <1>2, <1>3, <2>1 DEF IInv, PastIsSound
    <2>. QED  BY <1>3, <2>2, <2>3, <2>4, <2>5 DEF PastIsSound
  <1>9. OrdersAreSound'
    BY <1>3 DEF OrdersAreSound, NoOrders
  <1>10. EachIsDue'
    <2>1. Own' = {}
      BY <1>3 DEF Own
    <2>2. PICK f : f = [m \in {} |-> 0]
      OBVIOUS
    <2>3. Assigns(f)'
      BY <2>1, <2>2 DEF Assigns
    <2>. QED  BY <2>3 DEF EachIsDue
  <1>. QED  BY <1>0, <1>4, <1>6, <1>7, <1>8, <1>9, <1>10, ServerLemma

\* A step at the connection of one client.
LEMMA SoleLemma ==
    ASSUME Typed, Larger, \A d \in Clients : Linked(d),
           NEW c \in Clients, NEW k, conn' = [conn EXCEPT ![c] = k],
           \A d \in Clients \ {c} : KeepsRequests(d), k \in Conns', Linked(c)'
    PROVE  Joined
  <1>1. /\ conn' = [d \in Clients |-> conn'[d]] /\ conn'[c] = k
        /\ \A d \in Clients \ {c} : conn'[d] = conn[d]
    BY DEF Typed
  <1>2. ASSUME NEW d \in Clients PROVE conn'[d] \in Conns' /\ Linked(d)'
    BY <1>1, KeepLemma
  <1>. QED  BY <1>1, <1>2, JoinLemma

\* A step that leaves the game and the requests alone.
LEMMA StillLemma ==
    ASSUME Typed, UNCHANGED <<game, requests>>
    PROVE  Grows /\ Larger /\ \A d \in Clients : KeepsRequests(d)
  <1>1. Grows
    BY DEF Grows, Typed, Games
  <1>. QED  BY <1>1, LargerLemma DEF KeepsRequests

\* A step at a connection that leaves the game as it is and sends the server
\* nothing new.
LEMMA CarryLemma ==
    ASSUME IInv, UNCHANGED <<game, copy, requests, breaks>>, Joined,
           \A c \in Clients : \A j \in DOMAIN conn'[c].toServer :
               \E i \in DOMAIN conn[c].toServer : conn[c].toServer[i].id = conn'[c].toServer[j].id
    PROVE  IInv' /\ Rests
  <1>1. Grows /\ game' \in Games'
    <2>1. Games' = Games
      BY DEF Games, Messages
    <2>. QED  BY <2>1, StillLemma DEF IInv, Typed
  <1>2. PastIsSound' /\ OrdersAreSound'
    BY DEF IInv, PastIsSound, OrdersAreSound, IsOfPhase
  <1>3. Calm /\ KeepsAll
    BY CalmLemma
  <1>4. Own' = Own
    BY DEF Own
  <1>5. EachIsDue'
    BY <1>3, <1>4, DueLemma DEF IInv
  <1>6. Rests
    BY <1>3 DEF Rests
  <1>. QED  BY <1>1, <1>2, <1>5, <1>6, ServerLemma

\* The sockets: a break, its notice by the server, the task that sends the notes.
LEMMA BreaksIInv ==
    ASSUME IInv, NEW c \in Clients, conn' = [conn EXCEPT ![c] = Cut(@)], UNCHANGED <<game, copy, requests>>
    PROVE  /\ Joined /\ Larger /\ Grows
           /\ \A d \in Clients : \A j \in DOMAIN conn'[d].toServer :
               \E i \in DOMAIN conn[d].toServer : conn[d].toServer[i].id = conn'[d].toServer[j].id
  <1>1. Grows /\ Larger /\ \A d \in Clients : KeepsRequests(d)
    BY StillLemma DEF IInv
  <1>2. conn'[c] = Cut(conn[c]) /\ \A d \in Clients \ {c} : conn'[d] = conn[d]
    BY DEF IInv, Typed
  <1>3. conn'[c] \in Conns' /\ Linked(c)' /\ conn'[c].toServer = <<>>
    BY <1>1, <1>2, CutLemma DEF IInv
  <1>4. Joined
    BY <1>1, <1>2, <1>3, SoleLemma DEF IInv
  <1>5. DOMAIN conn'[c].toServer = {}
    BY <1>3
  <1>. QED  BY <1>1, <1>2, <1>4, <1>5

LEMMA BreakIInv ==
    ASSUME IInv, NEW c \in Clients, Break(c)
    PROVE  IInv' /\ Rests
  <1>1. /\ conn' = [conn EXCEPT ![c] = Cut(@)]
        /\ breaks' = [breaks EXCEPT ![c] = @ + 1] /\ UNCHANGED <<game, copy, requests>>
    BY DEF Break
  <1>2. /\ Joined /\ Larger /\ Grows
        /\ \A d \in Clients : \A j \in DOMAIN conn'[d].toServer :
            \E i \in DOMAIN conn[d].toServer : conn[d].toServer[i].id = conn'[d].toServer[j].id
    BY <1>1, BreaksIInv
  <1>3. Typed'
    <2>1. game' \in Games'
      <3>1. Games' = Games
        BY <1>1 DEF Games, Messages
      <3>. QED  BY <1>1, <3>1 DEF IInv, Typed
    <2>2. copy' \in [Clients -> Copies']
      BY <1>1, <1>2 DEF IInv, Typed, Larger
    <2>3. breaks' \in [Clients -> Nat]
      BY <1>1 DEF IInv, Typed
    <2>. QED  BY <1>1, <1>2, <2>1, <2>2, <2>3 DEF IInv, Typed, Joined
  <1>4. PastIsSound' /\ OrdersAreSound'
    BY <1>1 DEF IInv, PastIsSound, OrdersAreSound, IsOfPhase
  <1>5. EachIsDue'
    <2>1. Calm /\ KeepsAll
      BY <1>1, <1>2, CalmLemma
    <2>2. Own' = Own
      BY <1>1 DEF Own
    <2>. QED  BY <1>1, <2>1, <2>2, DueLemma DEF IInv
  <1>6. Rests
    BY <1>1, <1>2, CalmLemma DEF Rests
  <1>. QED  BY <1>2, <1>3, <1>4, <1>5, <1>6 DEF IInv, Joined

LEMMA OnCloseIInv ==
    ASSUME IInv, NEW c \in Clients, OnClose(c)
    PROVE  IInv' /\ Rests
  <1>. DEFINE k == [conn[c] EXCEPT !.holder = "none"]
  <1>1. conn' = [conn EXCEPT ![c] = k] /\ UNCHANGED <<game, copy, requests, breaks>>
    BY DEF OnClose
  <1>2. Grows /\ Larger /\ \A d \in Clients : KeepsRequests(d)
    BY <1>1, StillLemma DEF IInv
  <1>3. conn[c] \in Conns /\ conn[c] \in Conns'
    BY <1>2 DEF IInv, Typed, Larger
  <1>4. conn'[c] = k /\ \A d \in Clients \ {c} : conn'[d] = conn[d]
    BY <1>1 DEF IInv, Typed
  <1>5. /\ k.toServer = conn[c].toServer /\ k.toClient = conn[c].toClient /\ k.queue = conn[c].queue
        /\ k.up = conn[c].up /\ k.holder = "none" /\ k \in Conns'
    BY <1>3 DEF Conns
  <1>. HIDE DEF k
  <1>6. Linked(c)'
    BY <1>1, <1>4, <1>5 DEF IInv, Linked
  <1>7. Joined
    BY <1>1, <1>2, <1>5, <1>6, SoleLemma DEF IInv
  <1>8. \A d \in Clients : conn'[d].toServer = conn[d].toServer
    BY <1>4, <1>5
  <1>. QED  BY <1>1, <1>7, <1>8, CarryLemma

LEMMA SendNoteIInv ==
    ASSUME IInv, NEW c \in Clients, SendNote(c)
    PROVE  IInv' /\ Rests
  <1>. DEFINE n == Head(conn[c].queue)
              k == [conn[c] EXCEPT !.queue = Tail(@), !.toClient = Append(@, n)]
  <1>1. /\ conn' = [conn EXCEPT ![c] = k] /\ UNCHANGED <<game, copy, requests, breaks>>
        /\ conn[c].queue # <<>>
    BY DEF SendNote
  <1>2. Grows /\ Larger /\ \A d \in Clients : KeepsRequests(d)
    BY <1>1, StillLemma DEF IInv
  <1>3. conn[c] \in Conns /\ conn[c] \in Conns'
    BY <1>2 DEF IInv, Typed, Larger
  <1>4. conn'[c] = k /\ \A d \in Clients \ {c} : conn'[d] = conn[d]
    BY <1>1 DEF IInv, Typed
  <1>5. /\ n \in Notes /\ Tail(conn[c].queue) \in Seq(Notes')
        /\ Append(conn[c].toClient, n) \in Seq(Items')
        /\ \A i \in DOMAIN Append(conn[c].toClient, n) :
             \/ i \in DOMAIN conn[c].toClient /\ Append(conn[c].toClient, n)[i] = conn[c].toClient[i]
             \/ Append(conn[c].toClient, n)[i] = n
    <2>1. conn[c].queue \in Seq(Notes) /\ conn[c].queue \in Seq(Notes') /\ conn[c].toClient \in Seq(Items')
      BY <1>3 DEF Conns
    <2>2. n \in Notes /\ n \in Notes' /\ n \in Items'
      BY <1>1, <2>1 DEF Items
    <2>. HIDE DEF n
    <2>. QED  BY <1>1, <2>1, <2>2
  <1>6. n.kind # "response"
    BY <1>5 DEF Notes
  <1>. HIDE DEF n
  <1>7. /\ k.toServer = conn[c].toServer /\ k.toClient = Append(conn[c].toClient, n)
        /\ k.up = conn[c].up /\ k.holder = conn[c].holder /\ k \in Conns'
    BY <1>3, <1>5 DEF Conns
  <1>. HIDE DEF k
  <1>8. Linked(c)'
    <2>1. \A i \in DOMAIN conn'[c].toClient : conn'[c].toClient[i].kind = "response" =>
            requests'[conn'[c].toClient[i].id].client = c
      <3>1. conn'[c].toClient = Append(conn[c].toClient, n) /\ requests' = requests
        BY <1>1, <1>4, <1>7
      <3>2. \A i \in DOMAIN conn[c].toClient : conn[c].toClient[i].kind = "response" =>
              requests[conn[c].toClient[i].id].client = c
        BY <1>1 DEF IInv, Linked
      <3>3. \A i \in DOMAIN conn'[c].toClient :
              \/ i \in DOMAIN conn[c].toClient /\ conn'[c].toClient[i] = conn[c].toClient[i]
              \/ conn'[c].toClient[i] = n
        BY ONLY <1>5, <3>1
      <3>. QED  BY ONLY <1>6, <3>1, <3>2, <3>3
    <2>2. conn[c].up /\ conn'[c].up = conn[c].up /\ conn'[c].toServer = conn[c].toServer
      BY <1>1, <1>4, <1>7 DEF IInv, Linked
    <2>3. Linked(c)
      BY DEF IInv
    <2>4. /\ \A i \in DOMAIN conn'[c].toServer : conn'[c].toServer[i].id # 0 =>
               /\ requests'[conn'[c].toServer[i].id].client = c
               /\ requests'[conn'[c].toServer[i].id].status \notin {"held", "unsent"}
          /\ \A i, j \in DOMAIN conn'[c].toServer :
               conn'[c].toServer[i].id # 0 /\ conn'[c].toServer[i].id = conn'[c].toServer[j].id => i = j
      BY <1>1, <2>2, <2>3 DEF Linked
    <2>. HIDE DEF IInv
    <2>. QED  BY <2>1, <2>2, <2>4 DEF Linked
  <1>9. Joined
    BY <1>1, <1>2, <1>7, <1>8, SoleLemma DEF IInv
  <1>10. \A d \in Clients : conn'[d].toServer = conn[d].toServer
    BY <1>4, <1>7
  <1>. QED  BY <1>1, <1>9, <1>10, CarryLemma

\* What is first on the way to the server.
LEMMA FirstLemma ==
    ASSUME IInv, NEW c \in Clients, conn[c].toServer # <<>>
    PROVE  LET q == Head(conn[c].toServer) IN
           /\ 1 \in DOMAIN conn[c].toServer /\ q = conn[c].toServer[1] /\ q.timestamp \in Nat
           /\ q.id # 0 => /\ q.id \in DOMAIN requests /\ requests[q.id] \in Requests
                          /\ requests[q.id].client = c
                          /\ requests[q.id].status \notin {"held", "unsent"}
  <1>. DEFINE q == Head(conn[c].toServer)
  <1>1. conn[c].toServer \in Seq(Mails) /\ requests \in Seq(Requests)
    BY DEF IInv, Typed, Conns
  <1>2. 1 \in DOMAIN conn[c].toServer /\ q = conn[c].toServer[1] /\ q \in Mails
    BY <1>1
  <1>3. q.timestamp \in Nat /\ (q.id # 0 => q.id \in DOMAIN requests)
    BY <1>2 DEF Mails
  <1>4. Linked(c)
    BY DEF IInv
  <1>5. q.id # 0 => /\ requests[q.id].client = c
                    /\ requests[q.id].status \notin {"held", "unsent"}
    BY <1>2, <1>4 DEF Linked
  <1>6. q.id # 0 => requests[q.id] \in Requests
    BY <1>1, <1>3
  <1>. QED  BY <1>2, <1>3, <1>5, <1>6

\* What follows it stays.
LEMMA TakesLemma ==
    ASSUME IInv, NEW c \in Clients, conn[c].toServer # <<>>, Takes(c)
    PROVE  /\ \A d \in Clients : \A j \in DOMAIN conn'[d].toServer :
                \E i \in DOMAIN conn[d].toServer : conn[d].toServer[i].id = conn'[d].toServer[j].id
           /\ \A j \in DOMAIN conn'[c].toServer :
                /\ j + 1 \in DOMAIN conn[c].toServer /\ j + 1 # 1
                /\ conn'[c].toServer[j] = conn[c].toServer[j + 1]
  <1>1. conn[c].toServer \in Seq(Mails)
    BY DEF IInv, Typed, Conns
  <1>2. conn'[c].toServer = Tail(conn[c].toServer) /\ \A d \in Clients \ {c} : conn'[d].toServer = conn[d].toServer
    BY DEF Takes
  <1>3. \A j \in DOMAIN Tail(conn[c].toServer) :
          /\ j + 1 \in DOMAIN conn[c].toServer /\ j + 1 # 1
          /\ Tail(conn[c].toServer)[j] = conn[c].toServer[j + 1]
    BY <1>1
  <1>. QED  BY <1>2, <1>3

\* The three requests and what they make of the game.
LEMMA SynchronizeIInv ==
    ASSUME IInv, NEW c \in Clients, Accepts(c), NEW t \in Nat,
           OnSynchronize(Taken(c), c, t), UNCHANGED <<copy, requests, breaks>>
    PROVE  IInv' /\ Rests
  <1>. DEFINE S == IF Role[c] \in Powers THEN Players(Role[c]) ELSE {c}
              answer == [kind |-> "synced", phase |-> game.phase]
  <1>1. UNCHANGED game /\ conn' = Respond(NotifyAll(Taken(c), S, News(Role[c], t)), c, answer)
    BY DEF OnSynchronize
  <1>2. Grows /\ Larger
    BY <1>1, StillLemma DEF IInv
  <1>3. answer \in Answers' /\ answer.kind # "response"
    <2>1. game'.phase \in 0 .. game'.phase
      BY <1>1 DEF IInv, Typed, Games
    <2>. QED  BY <1>1, <2>1 DEF Answers
  <1>4. News(Role[c], t) \in Seq(Notes')
    <2>1. News(Role[c], t) \in Seq(Notes)
      BY NewsLemma DEF IInv
    <2>. HIDE DEF News
    <2>. QED  BY <1>2, <2>1 DEF Larger
  <1>. HIDE DEF S, answer
  <1>5. Joined /\ Takes(c)
    BY <1>1, <1>2, <1>3, <1>4, RespondLemma DEF IInv
  <1>. QED  BY <1>1, <1>5, TakesLemma, CarryLemma DEF Accepts

\* A request that is refused, or carried out already.
LEMMA RefuseIInv ==
    ASSUME IInv, NEW c \in Clients, Accepts(c), UNCHANGED <<game, copy, requests, breaks>>,
           NEW i \in DOMAIN requests, requests[i].client = c,
           NEW ok \in BOOLEAN, NEW t \in 0 .. game.clock,
           conn' = Respond(Taken(c), c, Answer(i, ok, t))
    PROVE  IInv' /\ Rests
  <1>1. Grows /\ Larger
    BY StillLemma DEF IInv
  <1>2. conn' = Respond(NotifyAll(Taken(c), {}, <<>>), c, Answer(i, ok, t))
    <2>1. Taken(c) = [d \in Clients |-> Taken(c)[d]]
      BY DEF IInv, Typed, Taken
    <2>2. NotifyAll(Taken(c), {}, <<>>) = Taken(c)
      BY <2>1 DEF NotifyAll
    <2>. QED  BY <2>2
  <1>3. Answer(i, ok, t) \in Answers' /\ Answer(i, ok, t).id = i
    BY DEF Answer, Answers
  <1>4. <<>> \in Seq(Notes')
    OBVIOUS
  <1>5. Joined /\ Takes(c)
    <2>. DEFINE answer == Answer(i, ok, t)
    <2>1. answer \in Answers' /\ (answer.kind = "response" => requests'[answer.id].client = c)
      BY <1>3
    <2>2. conn' = Respond(NotifyAll(Taken(c), {}, <<>>), c, answer)
      BY <1>2
    <2>. HIDE DEF answer
    <2>. QED  BY <1>1, <1>4, <2>1, <2>2, RespondLemma DEF IInv
  <1>. QED  BY <1>5, TakesLemma, CarryLemma DEF Accepts

\* Only orders given in this phase become those of the power.
LEMMA SetOrdersServed ==
    ASSUME IInv, NEW c \in Clients, Accepts(c), UNCHANGED <<copy, requests, breaks>>,
           NEW i \in DOMAIN requests, requests[i].client = c, requests[i] \in Requests,
           requests[i].kind = "orders", OnSetOrders(Taken(c), c, i)
    PROVE  IInv' /\ Rests
  <1>0. game \in Games /\ game.clock \in Nat
    BY DEF IInv, Typed, Games
  <1>1. CASE ~OrdersAccepted(requests[i])
    <2>1. UNCHANGED game /\ conn' = Respond(Taken(c), c, Answer(i, FALSE, 0)) /\ 0 \in 0 .. game.clock
      BY <1>0, <1>1 DEF OnSetOrders
    <2>. QED  BY <2>1, RefuseIInv
  <1>2. CASE OrdersAccepted(requests[i])
    <2>. DEFINE answer == Answer(i, TRUE, 0)
                note == [kind |-> "orders", id |-> i, units |-> requests[i].units]
                given == Given(NoOrders, requests[i].units, i)
                S == Players(Role[c]) \ {c}
    <2>1. /\ game' = [game EXCEPT !.orders[Role[c]] = given]
          /\ conn' = Respond(NotifyAll(Taken(c), S, <<note>>), c, answer)
      BY <1>2 DEF OnSetOrders, Notify
    <2>2. /\ game'.phase = game.phase /\ game'.clock = game.clock /\ game'.messages = game.messages
          /\ game'.history = game.history /\ game'.orders = [game.orders EXCEPT ![Role[c]] = given]
          /\ game' = [phase |-> game'.phase, clock |-> game'.clock, messages |-> game'.messages,
                      history |-> game'.history, orders |-> game'.orders]
      BY <1>0, <2>1 DEF Games
    <2>3. i \in Numbers /\ Role[c] \in Powers /\ requests[i].units \in SUBSET Units /\ given \in Orders
      <3>1. Len(requests) <= MaxRequests /\ requests \in Seq(Requests) /\ MaxRequests \in Nat
        BY BoundsAssumption DEF IInv, Typed
      <3>2. i \in 1 .. Len(requests)
        BY <3>1
      <3>3. i \in Numbers
        BY <3>1, <3>2 DEF Numbers
      <3>. QED  BY <3>3, OrdersLemma, GivenLemma DEF Requests
    <2>4. Messages' = Messages
      BY <2>2 DEF Messages
    <2>5. game' \in Games' /\ Grows
      <3>1. game'.orders \in [Powers -> Orders]
        BY <1>0, <2>2, <2>3 DEF Games
      <3>2. game' \in Games'
        BY <1>0, <2>2, <2>4, <3>1 DEF Games
      <3>. QED  BY <1>0, <2>2, <3>2 DEF Grows, Games
    <2>6. Larger
      BY <2>5, LargerLemma DEF IInv
    <2>7. <<note>> \in Seq(Notes')
      <3>1. note \in Notes'
        BY <2>3 DEF Notes, Numbers, Orders
      <3>. QED  BY <3>1
    <2>8. answer \in Answers' /\ requests'[answer.id].client = c
      <3>1. 0 \in 0 .. game'.clock
        BY <1>0, <2>2
      <3>. QED  BY <3>1 DEF Answer, Answers
    <2>. HIDE DEF note, answer, S
    <2>9. Joined /\ Takes(c)
      BY <2>1, <2>6, <2>7, <2>8, RespondLemma DEF IInv
    <2>10. PastIsSound'
      BY <2>2 DEF IInv, PastIsSound
    <2>11. OrdersAreSound'
      <3>. SUFFICES ASSUME NEW p \in Powers, NEW u \in Units, game'.orders[p][u] # 0
                    PROVE  (game.orders[p][u] \in DOMAIN requests /\ IsOfPhase(p, u, game.orders[p][u]))'
        BY DEF OrdersAreSound
      <3>0. game.orders \in [Powers -> Orders]
        BY <1>0 DEF Games
      <3>1. CASE p = Role[c]
        <4>1. game'.orders[p] = given
          BY <2>2, <2>3, <3>0, <3>1
        <4>2. game'.orders[p][u] = i /\ u \in requests[i].units
          BY <4>1 DEF Given, NoOrders
        <4>. QED  BY <1>2, <2>2, <3>1, <4>2 DEF OrdersAccepted, IsOfPhase
      <3>2. CASE p # Role[c]
        <4>1. game'.orders[p] = game.orders[p]
          BY <2>2, <2>3, <3>0, <3>2
        <4>. QED  BY <2>2, <4>1 DEF IInv, OrdersAreSound, IsOfPhase
      <3>. QED  BY <3>1, <3>2
    <2>12. EachIsDue'
      <3>1. Calm /\ KeepsAll
        BY <2>9, TakesLemma, CalmLemma DEF Accepts
      <3>2. Own' = Own
        BY <2>2 DEF Own
      <3>. QED  BY <2>2, <3>1, <3>2, DueLemma DEF IInv
    <2>13. Rests
      BY <2>2, <2>9, TakesLemma, CalmLemma DEF Accepts, Rests
    <2>. QED  BY <2>5, <2>9, <2>10, <2>11, <2>12, <2>13, ServerLemma
  <1>. QED  BY <1>1, <1>2

\* The latest time is one of the times, or zero.
LEMMA LatestLemma ==
    ASSUME NEW B \in Nat, NEW S, \A x \in S : x.time \in 0 .. B
    PROVE  Latest(S) \in 0 .. B /\ \A x \in S : x.time <= Latest(S)
  <1>. DEFINE A == {0} \cup {x.time : x \in S}
  <1>1. A \subseteq 0 .. B /\ A # {}
    OBVIOUS
  <1>2. \A x \in S : x.time \in A
    OBVIOUS
  <1>3. Latest(S) = Max(A)
    BY DEF Latest
  <1>. HIDE DEF A
  <1>4. Max(A) \in A /\ \A y \in A : y <= Max(A)
    BY <1>1, MaxLemma
  <1>. QED  BY <1>1, <1>2, <1>3, <1>4

\* A message of a client's power is due to the request it was recorded for,
\* to which no other one is: a first attempt was fresh, and what is asked for
\* again is recorded only if there is no message like it.
LEMMA RecordedLemma ==
    ASSUME IInv, NEW c \in Clients, Accepts(c), UNCHANGED requests, Takes(c), Joined,
           NEW i, i = Head(conn[c].toServer).id, i # 0,
           requests[i].kind = "message", requests[i].phase = game.phase, ~AlreadyHas(c, requests[i]),
           NEW m, m.from = Role[c], m.to = requests[i].to, m.text = requests[i].text,
           m \notin game.messages, game'.messages = game.messages \cup {m}, game'.phase = game.phase
    PROVE  EachIsDue'
  <1>1. PICK f : Assigns(f)
    BY DEF IInv, EachIsDue
  <1>2. /\ i \in DOMAIN requests /\ requests[i].client = c
        /\ requests[i].status \notin {"held", "unsent"}
        /\ 1 \in DOMAIN conn[c].toServer /\ i = conn[c].toServer[1].id
    BY FirstLemma DEF Accepts
  <1>3. Calm /\ KeepsAll
    BY TakesLemma, CalmLemma DEF Accepts
  <1>4. ~Fresh(i)'
    <2>. SUFFICES ASSUME NEW d \in Clients, NEW j \in DOMAIN conn'[d].toServer, conn'[d].toServer[j].id = i
                  PROVE  FALSE
      BY <1>2 DEF Fresh
    <2>1. Linked(c) /\ Linked(d)'
      BY DEF IInv, Joined
    <2>2. requests'[i].client = d
      BY <2>1 DEF Linked
    <2>3. j + 1 \in DOMAIN conn[c].toServer /\ j + 1 # 1 /\ conn[c].toServer[j + 1].id = i
      BY <1>2, <2>2, TakesLemma DEF Accepts
    <2>4. \A x, y \in DOMAIN conn[c].toServer :
             conn[c].toServer[x].id # 0 /\ conn[c].toServer[x].id = conn[c].toServer[y].id => x = y
      BY <2>1 DEF Linked
    <2>. QED  BY <1>2, <2>3, <2>4
  <1>5. ASSUME NEW x \in Own PROVE f[x] # i
    <2>. SUFFICES ASSUME f[x] = i PROVE FALSE
      OBVIOUS
    <2>1. IsDue(x, i)
      BY <1>1 DEF Assigns
    <2>2. x \in Archived(c, requests[i])
      BY <1>2, <2>1 DEF IsDue, Archived, Own
    <2>3. ~requests[i].resent
      BY <2>2 DEF AlreadyHas
    <2>4. Fresh(i)
      BY <1>2, <2>3 DEF Fresh
    <2>. QED  BY <2>1, <2>4 DEF IsDue
  <1>6. PICK g : g = [x \in Own' |-> IF x = m THEN i ELSE f[x]]
    OBVIOUS
  <1>7. Own' \subseteq Own \cup {m} /\ m \notin Own
    BY DEF Own
  <1>8. \A x \in Own' : /\ x = m => g[x] = i
                        /\ x # m => g[x] = f[x] /\ x \in Own
    BY <1>6, <1>7
  <1>9. \A x \in Own' : g[x] \in DOMAIN requests' /\ IsDue(x, g[x])'
    <2>. TAKE x \in Own'
    <2>1. CASE x = m
      BY <1>2, <1>4, <1>8, <2>1 DEF IsDue
    <2>2. CASE x # m
      <3>1. g[x] = f[x] /\ IsDue(x, f[x]) /\ f[x] \in DOMAIN requests
        BY <1>1, <1>8, <2>2 DEF Assigns
      <3>2. ~Fresh(f[x])'
        BY <1>3, <3>1 DEF IsDue, Calm
      <3>. QED  BY <3>1, <3>2 DEF IsDue
    <2>. QED  BY <2>1, <2>2
  <1>10. \A x, y \in Own' : g[x] = g[y] => x = y
    <2>. SUFFICES ASSUME NEW x \in Own', NEW y \in Own', g[x] = g[y] PROVE x = y
      OBVIOUS
    <2>1. CASE x = m \/ y = m
      BY <1>5, <1>8, <2>1
    <2>2. CASE x # m /\ y # m
      BY <1>1, <1>8, <2>2 DEF Assigns
    <2>. QED  BY <2>1, <2>2
  <1>11. Assigns(g)'
    <2>1. g \in [Own' -> DOMAIN requests']
      BY <1>6, <1>9
    <2>. QED  BY <1>9, <1>10, <2>1 DEF Assigns
  <1>. QED  BY <1>11 DEF EachIsDue

RecordsOwn == UNCHANGED requests /\ \E m : New(m) /\ m.from \notin Others

\* Refused, found in the archive, or recorded.
LEMMA SendGameMessageServed ==
    ASSUME IInv, NEW c \in Clients, Accepts(c), UNCHANGED <<copy, requests, breaks>>,
           NEW i, i = Head(conn[c].toServer).id, i # 0, requests[i].kind = "message",
           OnSendGameMessage(Taken(c), c, i)
    PROVE  IInv' /\ (Rests \/ RecordsOwn)
  <1>. DEFINE r == requests[i]
              m == [from |-> Role[c], to |-> r.to, text |-> r.text, time |-> game.clock + 1]
  <1>0. /\ game \in Games /\ game.clock \in Nat
        /\ \A x \in game.messages : x.time \in 0 .. game.clock
    BY DEF IInv, Typed, Games, Messages
  <1>1. /\ i \in DOMAIN requests /\ requests[i].client = c /\ requests[i] \in Requests
    BY FirstLemma DEF Accepts
  <1>2. CASE /\ r.phase # game.phase
             /\ conn' = Respond(Taken(c), c, Answer(i, FALSE, 0))
             /\ UNCHANGED game
    <2>1. 0 \in 0 .. game.clock
      BY <1>0
    <2>. QED  BY <1>1, <1>2, <2>1, RefuseIInv
  <1>3. CASE /\ r.phase = game.phase /\ AlreadyHas(c, r)
             /\ conn' = Respond(Taken(c), c, Answer(i, TRUE, Latest(Archived(c, r))))
             /\ UNCHANGED game
    <2>1. Latest(Archived(c, r)) \in 0 .. game.clock
      <3>1. \A x \in Archived(c, r) : x.time \in 0 .. game.clock
        BY <1>0 DEF Archived
      <3>. QED  BY <1>0, <3>1, LatestLemma
    <2>. QED  BY <1>1, <1>3, <2>1, RefuseIInv
  <1>4. CASE /\ r.phase = game.phase /\ ~AlreadyHas(c, r)
             /\ game' = [game EXCEPT !.clock = @ + 1, !.messages = @ \cup {m}]
             /\ conn' = Respond(Notify(Taken(c), Addressees(m, c), [kind |-> "message", message |-> m]),
                                c, Answer(i, TRUE, m.time))
    <2>. DEFINE note == [kind |-> "message", message |-> m]
                answer == Answer(i, TRUE, m.time)
                S == Addressees(m, c)
    <2>1. New(m)
      <3>1. Role[c] \in Powers /\ r.to \in Recipients /\ r.text \in Texts
        BY <1>1 DEF Requests
      <3>. QED  BY <1>4, <3>1 DEF New
    <2>2. /\ m.from = Role[c] /\ m.to = r.to /\ m.text = r.text /\ m.time = game.clock + 1
      OBVIOUS
    <2>3. conn' = Respond(NotifyAll(Taken(c), S, <<note>>), c, answer)
      BY <1>4 DEF Notify
    <2>. HIDE DEF m
    <2>4. /\ Grows /\ game' \in Games' /\ m \in Messages' /\ m \notin game.messages
          /\ PastIsSound' /\ OrdersAreSound'
          /\ game'.phase = game.phase /\ game'.messages = game.messages \cup {m}
      BY <2>1, NewLemma
    <2>5. Larger
      BY <2>4, LargerLemma DEF IInv
    <2>6. <<note>> \in Seq(Notes')
      BY <2>4, NoteLemma
    <2>7. answer \in Answers' /\ answer.id = i
      <3>1. m.time \in 0 .. game'.clock
        BY <2>4 DEF Messages
      <3>. QED  BY <1>1, <3>1 DEF Answer, Answers
    <2>. HIDE DEF note, answer, S
    <2>8. Joined /\ Takes(c)
      BY <1>1, <2>3, <2>5, <2>6, <2>7, RespondLemma DEF IInv
    <2>9. EachIsDue'
      BY <1>4, <2>2, <2>4, <2>8, RecordedLemma
    <2>10. RecordsOwn
      BY <2>1, <2>2 DEF RecordsOwn, Others
    <2>. QED  BY <2>4, <2>8, <2>9, <2>10, ServerLemma
  <1>. QED  BY <1>2, <1>3, <1>4 DEF OnSendGameMessage

\* The server answers the first request, or closes a connection held by another.
LEMMA ServeIInv ==
    ASSUME IInv, NEW c \in Clients, Serve(c)
    PROVE  IInv' /\ (Rests \/ RecordsOwn)
  <1>. DEFINE q == Head(conn[c].toServer)
  <1>1. conn[c].toServer # <<>> /\ UNCHANGED <<copy, requests, breaks>>
    BY DEF Serve
  <1>2. CASE conn[c].holder = "old"
    <2>1. conn' = [conn EXCEPT ![c] = Cut(@)] /\ UNCHANGED game
      BY <1>2 DEF Serve
    <2>2. /\ Joined
          /\ \A d \in Clients : \A j \in DOMAIN conn'[d].toServer :
               \E i \in DOMAIN conn[d].toServer : conn[d].toServer[i].id = conn'[d].toServer[j].id
      BY <1>1, <2>1, BreaksIInv
    <2>. QED  BY <1>1, <2>1, <2>2, CarryLemma
  <1>3. CASE conn[c].holder # "old"
    <2>1. \/ q.id = 0 /\ OnSynchronize(Taken(c), c, q.timestamp)
          \/ q.id # 0 /\ requests[q.id].kind = "orders" /\ OnSetOrders(Taken(c), c, q.id)
          \/ q.id # 0 /\ requests[q.id].kind = "message" /\ OnSendGameMessage(Taken(c), c, q.id)
      BY <1>3 DEF Serve, Taken
    <2>2. Accepts(c)
      BY <1>1, <1>3 DEF Accepts
    <2>3. /\ q.timestamp \in Nat
          /\ q.id # 0 => /\ q.id \in DOMAIN requests /\ requests[q.id] \in Requests
                         /\ requests[q.id].client = c
      BY <1>1, FirstLemma
    <2>. QED  BY <1>1, <2>1, <2>2, <2>3, SynchronizeIInv, SetOrdersServed, SendGameMessageServed
  <1>. QED  BY <1>2, <1>3

-----------------------------------------------------------------------------
(* The steps of the clients. *)

\* What the steps of the clients have in common: the game rests.
LEMMA ClientLemma ==
    ASSUME IInv, UNCHANGED <<game, breaks>>, KeepsAll, Calm, Joined,
           requests' \in Seq(Requests), Len(requests') <= MaxRequests,
           copy' \in [Clients -> Copies']
    PROVE  IInv' /\ Rests
  <1>1. game' \in Games'
    <2>1. Games' = Games
      BY DEF Games, Messages
    <2>. QED  BY <2>1 DEF IInv, Typed
  <1>2. Typed'
    BY <1>1 DEF IInv, Typed, Joined
  <1>3. PastIsSound'
    BY DEF IInv, PastIsSound
  <1>4. OrdersAreSound'
    BY DEF IInv, OrdersAreSound, IsOfPhase, KeepsAll
  <1>5. EachIsDue'
    <2>1. Own' = Own
      BY DEF Own
    <2>. QED  BY <2>1, DueLemma DEF IInv
  <1>6. Rests
    BY DEF Rests
  <1>. QED  BY <1>2, <1>3, <1>4, <1>5, <1>6 DEF IInv, Joined

\* Requests are added, never taken away or rewritten but for their status.
LEMMA KeepsAllLemma ==
    ASSUME Typed, UNCHANGED game, KeepsAll
    PROVE  Grows /\ Larger
  <1>1. Grows
    BY DEF Grows, Typed, Games, KeepsAll
  <1>. QED  BY <1>1, LargerLemma

LEMMA SameCopyLemma ==
    ASSUME Typed, Larger, UNCHANGED copy
    PROVE  copy' \in [Clients -> Copies']
  BY DEF Typed, Larger

\* A request is written.
LEMMA WrittenLemma ==
    ASSUME Typed, Larger, \A d \in Clients : Linked(d) /\ KeepsRequests(d),
           NEW c \in Clients, NEW i \in DOMAIN requests', i # 0, requests'[i].client = c,
           \A j \in DOMAIN conn[c].toServer : conn[c].toServer[j].id # i,
           conn[c].up => requests'[i].status = "waiting",
           Written(c, i)
    PROVE  /\ Joined
           /\ \A d \in Clients : \A j \in DOMAIN conn'[d].toServer :
                \/ conn'[d].toServer[j].id = i
                \/ \E x \in DOMAIN conn[d].toServer : conn[d].toServer[x].id = conn'[d].toServer[j].id
  <1>1. CASE ~conn[c].up
    <2>1. conn' = conn
      BY <1>1 DEF Written
    <2>2. conn' = [d \in Clients |-> conn'[d]]
      BY <2>1 DEF Typed
    <2>3. Joined
      BY <2>1, <2>2, KeepLemma, JoinLemma
    <2>. QED  BY <2>1, <2>3
  <1>2. CASE conn[c].up
    <2>. DEFINE q == [id |-> i, timestamp |-> 0]
                s == Append(conn[c].toServer, q)
                k == [conn[c] EXCEPT !.toServer = s]
    <2>0. conn[c] \in Conns /\ conn[c] \in Conns'
      BY DEF Typed, Larger
    <2>1. conn' = [conn EXCEPT ![c] = k]
      BY <1>2 DEF Written
    <2>2. conn'[c] = k /\ \A d \in Clients \ {c} : conn'[d] = conn[d]
      BY <2>1 DEF Typed
    <2>3. /\ s \in Seq(Mails') /\ DOMAIN s = 1 .. Len(conn[c].toServer) + 1
          /\ DOMAIN conn[c].toServer = 1 .. Len(conn[c].toServer) /\ Len(conn[c].toServer) \in Nat
          /\ \A j \in DOMAIN conn[c].toServer : s[j] = conn[c].toServer[j]
          /\ s[Len(conn[c].toServer) + 1] = q
      <3>1. conn[c].toServer \in Seq(Mails')
        BY <2>0 DEF Conns
      <3>2. q \in Mails'
        BY DEF Mails
      <3>. HIDE DEF q
      <3>. QED  BY <3>1, <3>2
    <2>4. q.id = i
      OBVIOUS
    <2>. HIDE DEF q, s
    <2>5. /\ k.toServer = s /\ k.toClient = conn[c].toClient /\ k.up /\ k \in Conns'
      BY <1>2, <2>0, <2>3 DEF Conns
    <2>. HIDE DEF k
    <2>6. \A j \in DOMAIN s : \/ j \in DOMAIN conn[c].toServer /\ s[j] = conn[c].toServer[j]
                              \/ j = Len(conn[c].toServer) + 1 /\ s[j] = q
      BY <2>3
    <2>7. Linked(c)'
      <3>0. Linked(c) /\ KeepsRequests(c)
        OBVIOUS
      <3>1. \A j \in DOMAIN s : s[j].id # 0 =>
              /\ requests'[s[j].id].client = c
              /\ requests'[s[j].id].status \notin {"held", "unsent"}
        BY <1>2, <2>4, <2>6, <3>0, IdsLemma DEF Linked, KeepsRequests
      <3>2. \A x, y \in DOMAIN s : s[x].id # 0 /\ s[x].id = s[y].id => x = y
        BY <2>4, <2>6, <3>0 DEF Linked
      <3>3. \A j \in DOMAIN conn[c].toClient :
              conn[c].toClient[j].kind = "response" => requests'[conn[c].toClient[j].id].client = c
        BY <3>0, IdsLemma DEF Linked, KeepsRequests
      <3>. QED  BY <2>2, <2>5, <3>1, <3>2, <3>3 DEF Linked
    <2>8. Joined
      BY <2>1, <2>5, <2>7, SoleLemma
    <2>. QED  BY <2>2, <2>4, <2>5, <2>6, <2>8
  <1>. QED  BY <1>1, <1>2

\* A new request is fresh: no message is due to it.
LEMMA AskIInv ==
    ASSUME IInv, NEW c \in Clients, Role[c] \in Powers, NEW kind \in {"orders", "message"},
           NEW to \in Powers \cup {Global}, NEW text \in Texts \cup {CHOOSE x \in Texts : TRUE},
           kind = "message" => to \in Recipients /\ text \in Texts,
           NEW units \in SUBSET Units, Ask(c, kind, to, text, units)
    PROVE  IInv' /\ Rests
  <1>. DEFINE r(s) == [client |-> c, kind |-> kind, to |-> to, text |-> text, units |-> units,
                       phase |-> copy[c].phase, status |-> s, resent |-> FALSE]
              n == Len(requests) + 1
  <1>1. /\ UNCHANGED <<game, copy, breaks>> /\ Len(requests) < MaxRequests
        /\ requests \in Seq(Requests) /\ Len(requests) \in Nat /\ DOMAIN requests = 1 .. Len(requests)
    BY DEF Ask, IInv, Typed
  <1>2. \A s \in Status : r(s) \in Requests
    <2>1. copy[c] \in Copies /\ game \in Games
      BY DEF IInv, Typed
    <2>2. copy[c].phase \in 0 .. MaxPhase
      BY <2>1, BoundsAssumption DEF Copies, Games
    <2>. QED  BY <2>2 DEF Requests
  <1>3. \/ /\ conn[c].ready
           /\ \E s \in Outcomes(c) : requests' = Append(requests, r(s))
           /\ Written(c, Len(requests) + 1)
        \/ /\ ~conn[c].ready
           /\ requests' = Append(requests, r("held"))
           /\ UNCHANGED conn
    BY DEF Ask
  <1>4. ASSUME NEW s \in Status, requests' = Append(requests, r(s))
        PROVE  /\ requests' \in Seq(Requests) /\ Len(requests') <= MaxRequests /\ KeepsAll
               /\ \A d \in Clients : KeepsRequests(d)
               /\ \A i \in DOMAIN requests : requests'[i] = requests[i] /\ i # n
               /\ n \in DOMAIN requests' /\ requests'[n] = r(s)
    <2>1. r(s) \in Requests
      BY <1>2
    <2>. HIDE DEF r
    <2>2. /\ requests' \in Seq(Requests) /\ Len(requests') <= MaxRequests
          /\ \A i \in DOMAIN requests : i \in DOMAIN requests' /\ requests'[i] = requests[i] /\ i # n
          /\ n \in DOMAIN requests' /\ requests'[n] = r(s)
      BY <1>1, <1>4, <2>1, BoundsAssumption
    <2>3. KeepsAll /\ \A d \in Clients : KeepsRequests(d)
      BY <2>2 DEF KeepsAll, KeepsRequests
    <2>. QED  BY <2>2, <2>3
  <1>5. ASSUME NEW s \in Status, requests' = Append(requests, r(s)), Joined,
               \A d \in Clients : \A j \in DOMAIN conn'[d].toServer :
                 \/ conn'[d].toServer[j].id = n
                 \/ \E x \in DOMAIN conn[d].toServer : conn[d].toServer[x].id = conn'[d].toServer[j].id
        PROVE  IInv' /\ Rests
    <2>1. /\ requests' \in Seq(Requests) /\ Len(requests') <= MaxRequests /\ KeepsAll
          /\ \A i \in DOMAIN requests : requests'[i] = requests[i] /\ i # n
      BY <1>4, <1>5
    <2>2. Calm
      BY <1>5, <2>1 DEF Calm, Fresh
    <2>3. copy' \in [Clients -> Copies']
      BY <1>1, <2>1, KeepsAllLemma, SameCopyLemma DEF IInv
    <2>. QED  BY <1>1, <1>5, <2>1, <2>2, <2>3, ClientLemma
  <1>6. CASE /\ conn[c].ready
             /\ \E s \in Outcomes(c) : requests' = Append(requests, r(s))
             /\ Written(c, Len(requests) + 1)
    <2>. PICK s \in Outcomes(c) : requests' = Append(requests, r(s))
      BY <1>6
    <2>1. s \in Status /\ (conn[c].up => s = "waiting")
      BY DEF Outcomes, Status, Pending
    <2>2. /\ KeepsAll /\ \A d \in Clients : KeepsRequests(d)
          /\ n \in DOMAIN requests' /\ requests'[n] = r(s)
          /\ \A i \in DOMAIN requests : i # n
      BY <1>4, <2>1
    <2>3. requests'[n].client = c /\ (conn[c].up => requests'[n].status = "waiting")
      BY <2>1, <2>2
    <2>4. n # 0 /\ \A j \in DOMAIN conn[c].toServer : conn[c].toServer[j].id # n
      BY <1>1, <2>2, IdsLemma DEF IInv
    <2>. HIDE DEF r
    <2>5. /\ Joined
          /\ \A d \in Clients : \A j \in DOMAIN conn'[d].toServer :
               \/ conn'[d].toServer[j].id = n
               \/ \E x \in DOMAIN conn[d].toServer : conn[d].toServer[x].id = conn'[d].toServer[j].id
      <3>. HIDE DEF n
      <3>1. Larger
        BY <1>1, <2>2, KeepsAllLemma DEF IInv
      <3>2. Written(c, n)
        BY <1>6 DEF n
      <3>. QED  BY <2>2, <2>3, <2>4, <3>1, <3>2, WrittenLemma DEF IInv
    <2>. QED  BY <1>5, <2>1, <2>5
  <1>7. CASE /\ ~conn[c].ready
             /\ requests' = Append(requests, r("held"))
             /\ UNCHANGED conn
    <2>1. "held" \in Status
      BY DEF Status, Pending
    <2>2. KeepsAll /\ \A d \in Clients : KeepsRequests(d)
      BY <1>4, <1>7, <2>1
    <2>. HIDE DEF r
    <2>3. Joined
      <3>1. Larger
        BY <1>1, <2>2, KeepsAllLemma DEF IInv
      <3>2. conn' = [d \in Clients |-> conn'[d]]
        BY <1>7 DEF IInv, Typed
      <3>3. ASSUME NEW d \in Clients PROVE conn'[d] \in Conns' /\ Linked(d)'
        BY <1>7, <2>2, <3>1, KeepLemma DEF IInv
      <3>. QED  BY <3>2, <3>3, JoinLemma
    <2>. QED  BY <1>5, <1>7, <2>1, <2>3
  <1>. HIDE DEF r
  <1>. QED  BY <1>3, <1>6, <1>7

LEMMA SetOrdersIInv ==
    ASSUME IInv, NEW c \in Clients, SetOrders(c)
    PROVE  IInv' /\ Rests
  <1>1. PICK units \in Ordered : Ask(c, "orders", Global, CHOOSE x \in Texts : TRUE, units)
    BY DEF SetOrders
  <1>2. Role[c] \in Powers /\ units \in SUBSET Units
    BY OrderedAssumption DEF SetOrders
  <1>. QED  BY <1>1, <1>2, AskIInv

LEMMA SendGameMessageIInv ==
    ASSUME IInv, NEW c \in Clients, SendGameMessage(c)
    PROVE  IInv' /\ Rests
  <1>1. PICK to \in Recipients \ {Role[c]} : \E text \in Texts : Ask(c, "message", to, text, {})
    BY DEF SendGameMessage
  <1>2. PICK text \in Texts : Ask(c, "message", to, text, {})
    BY <1>1
  <1>3. Role[c] \in Powers /\ to \in Powers \cup {Global} /\ to \in Recipients
    BY RecipientsAssumption DEF SendGameMessage
  <1>. QED  BY <1>2, <1>3, AskIInv

\* The requests of a client change their status and may be marked.
Restatus(c, S) ==
    /\ DOMAIN requests' = DOMAIN requests
    /\ \A i \in DOMAIN requests \ S : requests'[i] = requests[i]
    /\ \A i \in S \cap DOMAIN requests :
         /\ requests[i].client = c
         /\ \E s \in Status, b \in BOOLEAN : requests'[i] = [requests[i] EXCEPT !.status = s, !.resent = b]

\* Changing the status of requests keeps them requests.
LEMMA RestatusLemma ==
    ASSUME Typed, requests' = [i \in DOMAIN requests |-> requests'[i]], NEW c \in Clients, NEW S, Restatus(c, S)
    PROVE  /\ requests' \in Seq(Requests) /\ Len(requests') <= MaxRequests
           /\ KeepsAll /\ \A d \in Clients \ {c} : KeepsRequests(d)
  <1>1. /\ requests \in Seq(Requests) /\ Len(requests) <= MaxRequests
        /\ \A i \in DOMAIN requests : requests[i] \in Requests
    BY DEF Typed
  <1>2. ASSUME NEW i \in DOMAIN requests
        PROVE  /\ requests'[i] \in Requests
               /\ requests'[i].client = requests[i].client /\ requests'[i].kind = requests[i].kind
               /\ requests'[i].to = requests[i].to /\ requests'[i].text = requests[i].text
               /\ requests'[i].units = requests[i].units /\ requests'[i].phase = requests[i].phase
    <2>1. CASE i \in S
      <3>1. PICK s \in Status, b \in BOOLEAN : requests'[i] = [requests[i] EXCEPT !.status = s, !.resent = b]
        BY <2>1 DEF Restatus
      <3>. QED  BY <1>1, <3>1 DEF Requests
    <2>2. CASE i \notin S
      BY <1>1, <2>2 DEF Restatus
    <2>. QED  BY <2>1, <2>2
  <1>3. requests' \in Seq(Requests) /\ Len(requests') = Len(requests)
    <2>0. DOMAIN requests = 1 .. Len(requests) /\ Len(requests) \in Nat
      BY <1>1
    <2>1. DOMAIN requests' = 1 .. Len(requests) /\ Len(requests) \in Nat
      BY <2>0 DEF Restatus
    <2>2. requests' \in [1 .. Len(requests) -> Requests]
      BY <1>2, <2>1 DEF Restatus
    <2>. QED  BY <2>1, <2>2
  <1>4. KeepsAll
    BY <1>2 DEF KeepsAll, Restatus
  <1>5. ASSUME NEW d \in Clients \ {c} PROVE KeepsRequests(d)
    BY DEF KeepsRequests, Restatus
  <1>. QED  BY <1>1, <1>3, <1>4, <1>5

\* Writing what was held: it is on the way once.
LEMMA WriteIInv ==
    ASSUME IInv, NEW c \in Clients, Write(c)
    PROVE  IInv' /\ Rests
  <1>1. PICK i \in Of(c) : /\ conn[c].ready /\ requests[i].status = "held"
                           /\ \E s \in Outcomes(c) : requests' = [requests EXCEPT ![i].status = s]
                           /\ Written(c, i)
                           /\ UNCHANGED <<game, copy, breaks>>
    BY DEF Write
  <1>2. PICK s \in Outcomes(c) : requests' = [requests EXCEPT ![i].status = s]
    BY <1>1
  <1>3. s \in Status \ {"held"} /\ (conn[c].up => s = "waiting")
    BY DEF Outcomes, Status, Pending
  <1>4. /\ i \in DOMAIN requests /\ requests[i].client = c /\ i # 0
        /\ requests \in Seq(Requests) /\ requests[i] \in Requests
    BY DEF Of, IInv, Typed
  <1>5. /\ requests' = [x \in DOMAIN requests |-> requests'[x]] /\ DOMAIN requests' = DOMAIN requests
        /\ requests'[i] = [requests[i] EXCEPT !.status = s]
        /\ \A x \in DOMAIN requests \ {i} : requests'[x] = requests[x]
    BY <1>2, <1>4
  <1>6. /\ requests'[i].status = s /\ requests'[i].client = c /\ requests'[i].resent = requests[i].resent
        /\ requests'[i] = [requests[i] EXCEPT !.status = s, !.resent = requests[i].resent]
        /\ requests[i].resent \in BOOLEAN
    BY <1>4, <1>5 DEF Requests
  <1>7. /\ requests' \in Seq(Requests) /\ Len(requests') <= MaxRequests
        /\ KeepsAll /\ \A d \in Clients \ {c} : KeepsRequests(d)
    <2>1. Restatus(c, {i})
      BY <1>3, <1>4, <1>5, <1>6 DEF Restatus
    <2>. QED  BY <1>5, <2>1, RestatusLemma DEF IInv
  <1>8. KeepsRequests(c)
    BY <1>1, <1>5, <1>6 DEF KeepsRequests
  <1>9. Larger
    BY <1>1, <1>7, KeepsAllLemma DEF IInv
  <1>10. /\ Joined
         /\ \A d \in Clients : \A j \in DOMAIN conn'[d].toServer :
              \/ conn'[d].toServer[j].id = i
              \/ \E x \in DOMAIN conn[d].toServer : conn[d].toServer[x].id = conn'[d].toServer[j].id
    <2>1. \A j \in DOMAIN conn[c].toServer : conn[c].toServer[j].id # i
      <3>1. Linked(c)
        BY DEF IInv
      <3>. QED  BY <1>1, <1>4, <3>1 DEF Linked
    <2>2. conn[c].up => requests'[i].status = "waiting"
      BY <1>3, <1>6
    <2>3. \A d \in Clients : Linked(d) /\ KeepsRequests(d)
      BY <1>7, <1>8 DEF IInv
    <2>4. Typed /\ i \in DOMAIN requests' /\ i # 0 /\ requests'[i].client = c /\ Written(c, i)
      BY <1>1, <1>4, <1>5, <1>6 DEF IInv
    <2>. QED  BY <1>9, <2>1, <2>2, <2>3, <2>4, WrittenLemma
  <1>11. Calm
    <2>. SUFFICES ASSUME NEW x \in DOMAIN requests, Fresh(x)' PROVE Fresh(x)
      BY DEF Calm
    <2>1. CASE x = i
      BY <1>1, <1>6, <2>1 DEF Fresh
    <2>2. CASE x # i
      <3>1. requests'[x] = requests[x]
        BY <1>5, <2>2
      <3>. QED  BY <1>10, <2>2, <3>1 DEF Fresh
    <2>. QED  BY <2>1, <2>2
  <1>. QED  BY <1>1, <1>7, <1>9, <1>10, <1>11, ClientLemma, SameCopyLemma DEF IInv

\* Reconnecting marks what waited for its answer, so that it is not fresh.
LEMMA ReconnectIInv ==
    ASSUME IInv, NEW c \in Clients, Reconnect(c)
    PROVE  IInv' /\ Rests
  <1>. DEFINE q == [id |-> 0, timestamp |-> Latest(copy[c].history \cup copy[c].messages)]
              k == [conn[c] EXCEPT !.up = TRUE, !.ready = FALSE, !.toServer = <<q>>]
              S == {i \in Of(c) : requests[i].status = "waiting"}
  <1>1. /\ ~conn[c].up /\ UNCHANGED <<game, copy, breaks>>
        /\ requests' = [i \in DOMAIN requests |->
                          IF i \in Of(c) /\ requests[i].status = "waiting" THEN SendAgain(requests[i]) ELSE requests[i]]
        /\ conn' = [conn EXCEPT ![c] = k]
    BY DEF Reconnect
  <1>2. /\ \A i \in DOMAIN requests \ S : requests'[i] = requests[i]
        /\ \A i \in S : i \in DOMAIN requests /\ requests'[i] = SendAgain(requests[i]) /\ requests[i].client = c
        /\ DOMAIN requests' = DOMAIN requests /\ requests' = [i \in DOMAIN requests |-> requests'[i]]
        /\ requests \in Seq(Requests)
    BY <1>1 DEF Of, IInv, Typed
  <1>. HIDE DEF S
  <1>3. /\ requests' \in Seq(Requests) /\ Len(requests') <= MaxRequests
        /\ KeepsAll /\ \A d \in Clients \ {c} : KeepsRequests(d)
    <2>1. Restatus(c, S)
      BY <1>2 DEF Restatus, SendAgain, Status, Pending
    <2>. QED  BY <1>2, <2>1, RestatusLemma DEF IInv
  <1>4. Larger
    BY <1>1, <1>3, KeepsAllLemma DEF IInv
  <1>5. conn[c] \in Conns /\ conn[c] \in Conns' /\ Linked(c)
    BY <1>4 DEF IInv, Typed, Larger
  <1>6. q \in Mails'
    <2>1. copy[c] \in Copies /\ game \in Games /\ game.clock \in Nat
      BY DEF IInv, Typed, Games
    <2>2. \A x \in copy[c].history \cup copy[c].messages : x.time \in 0 .. game.clock
      BY <2>1 DEF Copies, Games, Messages
    <2>3. Latest(copy[c].history \cup copy[c].messages) \in Nat
      BY <2>1, <2>2, LatestLemma
    <2>. QED  BY <2>3 DEF Mails
  <1>7. q.id = 0
    OBVIOUS
  <1>. HIDE DEF q
  <1>8. <<q>> \in Seq(Mails') /\ DOMAIN <<q>> = {1} /\ <<q>>[1] = q
    BY <1>6
  <1>9. /\ k.toServer = <<q>> /\ k.toClient = conn[c].toClient /\ k.up /\ k \in Conns'
    BY <1>5, <1>8 DEF Conns
  <1>10. conn'[c] = k /\ \A d \in Clients \ {c} : conn'[d] = conn[d]
    BY <1>1 DEF IInv, Typed
  <1>. HIDE DEF k
  <1>11. Linked(c)'
    <2>1. DOMAIN conn'[c].toClient = {}
      BY <1>1, <1>5, <1>9, <1>10 DEF Linked
    <2>. QED  BY <1>7, <1>8, <1>9, <1>10, <2>1 DEF Linked
  <1>12. Joined
    BY <1>1, <1>3, <1>4, <1>9, <1>11, SoleLemma DEF IInv
  <1>13. Calm
    <2>. SUFFICES ASSUME NEW i \in DOMAIN requests, Fresh(i)' PROVE Fresh(i)
      BY DEF Calm
    <2>1. i \notin S
      <3>. SUFFICES ASSUME i \in S PROVE FALSE
        OBVIOUS
      <3>1. requests[i] \in Requests
        BY <1>2
      <3>2. requests'[i].resent
        BY <1>2, <3>1 DEF SendAgain, Requests
      <3>. QED  BY <3>2 DEF Fresh
    <2>2. requests'[i] = requests[i] /\ i # 0
      BY <1>2, <2>1
    <2>3. \A j \in DOMAIN conn'[c].toServer : conn'[c].toServer[j].id # i
      BY <1>7, <1>8, <1>9, <1>10, <2>2
    <2>. QED  BY <1>10, <2>2, <2>3 DEF Fresh
  <1>. QED  BY <1>1, <1>3, <1>4, <1>12, <1>13, ClientLemma, SameCopyLemma DEF IInv

\* What is first on the way to the client is taken.
Takes1(c, ready, alive) ==
    conn' = [conn EXCEPT ![c] = [conn[c] EXCEPT !.toClient = Tail(@), !.ready = ready, !.alive = alive]]

\* The rest of what is on the way to a client stays sound.
LEMMA TakeLemma ==
    ASSUME Typed, Larger, \A d \in Clients : Linked(d) /\ KeepsRequests(d),
           NEW c \in Clients, conn[c].toClient # <<>>,
           NEW ready \in BOOLEAN, NEW alive \in BOOLEAN, Takes1(c, ready, alive)
    PROVE  Joined /\ \A d \in Clients : conn'[d].toServer = conn[d].toServer
  <1>. DEFINE s == Tail(conn[c].toClient)
              k == [conn[c] EXCEPT !.toClient = s, !.ready = ready, !.alive = alive]
  <1>1. conn' = [conn EXCEPT ![c] = k]
    BY DEF Takes1
  <1>2. conn'[c] = k /\ \A d \in Clients \ {c} : conn'[d] = conn[d]
    BY <1>1 DEF Typed
  <1>3. conn[c] \in Conns /\ conn[c] \in Conns' /\ Linked(c) /\ KeepsRequests(c)
    BY DEF Typed, Larger
  <1>4. /\ s \in Seq(Items')
        /\ \A i \in DOMAIN s : i + 1 \in DOMAIN conn[c].toClient /\ s[i] = conn[c].toClient[i + 1]
    <2>1. conn[c].toClient \in Seq(Items')
      BY <1>3 DEF Conns
    <2>. QED  BY <2>1
  <1>. HIDE DEF s
  <1>5. /\ k.toServer = conn[c].toServer /\ k.toClient = s /\ k.up = conn[c].up /\ k \in Conns'
    BY <1>3, <1>4 DEF Conns
  <1>6. conn[c].up
    BY <1>3 DEF Linked
  <1>. HIDE DEF k
  <1>7. Linked(c)'
    <2>1. \A i \in DOMAIN s : s[i].kind = "response" => requests'[s[i].id].client = c
      BY <1>3, <1>4, IdsLemma DEF Linked, KeepsRequests
    <2>2. /\ \A i \in DOMAIN conn[c].toServer : conn[c].toServer[i].id # 0 =>
               /\ requests'[conn[c].toServer[i].id].client = c
               /\ requests'[conn[c].toServer[i].id].status \notin {"held", "unsent"}
          /\ \A i, j \in DOMAIN conn[c].toServer :
               conn[c].toServer[i].id # 0 /\ conn[c].toServer[i].id = conn[c].toServer[j].id => i = j
      BY <1>3, IdsLemma DEF Linked, KeepsRequests
    <2>. QED  BY <1>2, <1>5, <1>6, <2>1, <2>2 DEF Linked
  <1>8. Joined
    BY <1>1, <1>5, <1>7, SoleLemma
  <1>. QED  BY <1>2, <1>5, <1>8

\* What is received was an answer to this client, or a note.
LEMMA FirstItemLemma ==
    ASSUME IInv, NEW c \in Clients, conn[c].toClient # <<>>
    PROVE  LET n == Head(conn[c].toClient) IN
           /\ n \in Items
           /\ n.kind = "response" => n \in Answers /\ n.id \in DOMAIN requests /\ requests[n.id].client = c
           /\ n.kind = "synced" => n \in Answers
           /\ n.kind \notin {"response", "synced"} => n \in Notes
  <1>. DEFINE n == Head(conn[c].toClient)
  <1>1. conn[c].toClient \in Seq(Items)
    BY DEF IInv, Typed, Conns
  <1>2. 1 \in DOMAIN conn[c].toClient /\ n = conn[c].toClient[1] /\ n \in Items
    BY <1>1
  <1>3. Linked(c)
    BY DEF IInv
  <1>4. n.kind = "response" => n.id \in DOMAIN requests /\ requests[n.id].client = c
    BY <1>2, <1>3, IdsLemma DEF Linked, IInv
  <1>. QED  BY <1>2, <1>4 DEF Items, Notes, Answers

\* A response, or what the reconnection waits for.
LEMMA ResponseIInv ==
    ASSUME IInv, NEW c \in Clients, conn[c].toClient # <<>>, Head(conn[c].toClient).kind = "response",
           OnResponse([conn[c] EXCEPT !.toClient = Tail(@)], c, Head(conn[c].toClient)),
           UNCHANGED <<game, breaks>>
    PROVE  IInv' /\ Rests
  <1>. DEFINE n == Head(conn[c].toClient)
              r == requests[n.id]
              status == IF n.ok THEN "done" ELSE "failed"
              m == [from |-> Role[c], to |-> r.to, text |-> r.text, time |-> n.time]
  <1>1. /\ n \in Answers /\ n.kind = "response" /\ n.id \in DOMAIN requests /\ r.client = c
        /\ requests \in Seq(Requests) /\ r \in Requests
    BY FirstItemLemma DEF IInv, Typed
  <1>2. /\ requests' = [requests EXCEPT ![n.id].status = status]
        /\ conn' = [conn EXCEPT ![c] = [conn[c] EXCEPT !.toClient = Tail(@)]]
        /\ copy' = IF ~n.ok THEN copy
                   ELSE IF r.kind = "orders" THEN [copy EXCEPT ![c].orders = Given(@, r.units, n.id)]
                   ELSE [copy EXCEPT ![c].messages = @ \cup {m}]
    BY DEF OnResponse
  <1>. HIDE DEF n
  <1>3. status \in Status /\ status \notin {"held", "unsent"}
    BY DEF Status, Pending
  <1>. HIDE DEF status
  <1>4. /\ requests' = [i \in DOMAIN requests |-> requests'[i]] /\ DOMAIN requests' = DOMAIN requests
        /\ \A i \in DOMAIN requests \ {n.id} : requests'[i] = requests[i]
        /\ requests'[n.id] = [r EXCEPT !.status = status]
    BY <1>1, <1>2
  <1>5. /\ requests'[n.id] = [r EXCEPT !.status = status, !.resent = r.resent] /\ r.resent \in BOOLEAN
        /\ requests'[n.id].client = c /\ requests'[n.id].status = status
    BY <1>1, <1>4 DEF Requests
  <1>6. /\ requests' \in Seq(Requests) /\ Len(requests') <= MaxRequests
        /\ KeepsAll /\ \A d \in Clients \ {c} : KeepsRequests(d)
    <2>1. Restatus(c, {n.id})
      BY <1>1, <1>3, <1>4, <1>5 DEF Restatus
    <2>. QED  BY <1>4, <2>1, RestatusLemma DEF IInv
  <1>7. KeepsRequests(c)
    BY <1>3, <1>4, <1>5 DEF KeepsRequests
  <1>8. Larger
    BY <1>6, KeepsAllLemma DEF IInv
  <1>9. Joined /\ \A d \in Clients : conn'[d].toServer = conn[d].toServer
    <2>1. conn[c] \in Conns
      BY DEF IInv, Typed
    <2>2. [conn[c] EXCEPT !.toClient = Tail(@)]
            = [conn[c] EXCEPT !.toClient = Tail(@), !.ready = conn[c].ready, !.alive = conn[c].alive]
      BY <2>1 DEF Conns
    <2>3. Takes1(c, conn[c].ready, conn[c].alive) /\ conn[c].ready \in BOOLEAN /\ conn[c].alive \in BOOLEAN
      BY <1>2, <2>1, <2>2 DEF Takes1, Conns
    <2>. QED  BY <1>6, <1>7, <1>8, <2>3, TakeLemma DEF IInv
  <1>10. Calm
    <2>. SUFFICES ASSUME NEW x \in DOMAIN requests, Fresh(x)' PROVE Fresh(x)
      BY DEF Calm
    <2>1. requests'[x].resent = requests[x].resent
      <3>1. requests'[n.id].resent = r.resent
        BY <1>1, <1>4 DEF Requests
      <3>. QED  BY <1>4, <3>1
    <2>2. requests'[x].status \in {"held", "unsent"} => requests'[x] = requests[x]
      BY <1>3, <1>4, <1>5
    <2>. QED  BY <1>9, <2>1, <2>2 DEF Fresh
  <1>11. copy' \in [Clients -> Copies']
    <2>1. copy \in [Clients -> Copies'] /\ Role[c] \in Powers
      BY <1>1, <1>8 DEF IInv, Typed, Larger, Requests
    <2>2. n.id \in Numbers
      <3>1. Len(requests) <= MaxRequests /\ Len(requests) \in Nat /\ DOMAIN requests = 1 .. Len(requests)
        BY <1>1 DEF IInv, Typed
      <3>. QED  BY <1>1, <3>1, BoundsAssumption DEF Numbers
    <2>3. CASE ~n.ok
      BY <1>2, <2>1, <2>3
    <2>4. CASE n.ok /\ r.kind = "orders"
      <3>. DEFINE given == Given(copy[c].orders, r.units, n.id)
      <3>1. copy' = [copy EXCEPT ![c].orders = given]
        BY <1>2, <2>4
      <3>2. given \in Orders
        BY <2>2, GivenLemma DEF IInv, Typed, Copies
      <3>. HIDE DEF given
      <3>3. [copy[c] EXCEPT !.orders = given] \in Copies'
        BY <2>1, <3>2 DEF Copies, Orders, Numbers
      <3>. QED  BY <2>1, <3>1, <3>3
    <2>5. CASE n.ok /\ r.kind # "orders"
      <3>1. copy' = [copy EXCEPT ![c].messages = @ \cup {m}]
        BY <1>2, <2>5
      <3>2. m \in Messages'
        <4>1. n.time \in 0 .. game.clock
          BY <1>1 DEF Answers
        <4>2. r.to \in Recipients /\ r.text \in Texts
          BY <1>1, <2>5 DEF Requests
        <4>. QED  BY <2>1, <4>1, <4>2 DEF Messages
      <3>. HIDE DEF m
      <3>3. copy[c].messages \cup {m} \in SUBSET Messages'
        BY <2>1, <3>2 DEF Copies
      <3>4. [copy[c] EXCEPT !.messages = @ \cup {m}] \in Copies'
        BY <2>1, <3>3 DEF Copies
      <3>. QED  BY <2>1, <3>1, <3>4
    <2>. QED  BY <2>3, <2>4, <2>5
  <1>. QED  BY <1>6, <1>9, <1>10, <1>11, ClientLemma

\* A synchronization that is done refuses some requests and holds the others.
LEMMA SyncDoneIInv ==
    ASSUME IInv, NEW c \in Clients, conn[c].toClient # <<>>, NEW p,
           SyncDone([conn[c] EXCEPT !.toClient = Tail(@)], c, p), UNCHANGED <<game, breaks>>
    PROVE  IInv' /\ Rests
  <1>. DEFINE S == {i \in Of(c) : requests[i].status = "unsent"}
              new(i) == IF Obsolete(requests[i], p) THEN "failed" ELSE "held"
  <1>1. /\ requests' = [i \in DOMAIN requests |->
                          IF i \notin Of(c) \/ requests[i].status # "unsent" THEN requests[i]
                          ELSE [requests[i] EXCEPT !.status = new(i)]]
        /\ conn' = [conn EXCEPT ![c] = [[conn[c] EXCEPT !.toClient = Tail(@)] EXCEPT !.ready = TRUE]]
        /\ UNCHANGED copy
    BY DEF SyncDone
  <1>2. \A i : new(i) \in {"failed", "held"} /\ new(i) \in Status
    BY DEF Status, Pending
  <1>. HIDE DEF new
  <1>3. /\ \A i \in DOMAIN requests \ S : requests'[i] = requests[i]
        /\ \A i \in S : /\ i \in DOMAIN requests /\ requests'[i] = [requests[i] EXCEPT !.status = new(i)]
                        /\ requests[i].client = c /\ requests[i].status = "unsent"
        /\ DOMAIN requests' = DOMAIN requests /\ requests' = [i \in DOMAIN requests |-> requests'[i]]
        /\ \A i \in DOMAIN requests : requests[i] \in Requests
    BY <1>1 DEF Of, IInv, Typed
  <1>. HIDE DEF S
  <1>4. \A i \in S : /\ requests'[i] = [requests[i] EXCEPT !.status = new(i), !.resent = requests[i].resent]
                     /\ requests[i].resent \in BOOLEAN
                     /\ requests'[i].client = c /\ requests'[i].resent = requests[i].resent
    <2>. TAKE i \in S
    <2>1. requests[i] \in Requests /\ requests'[i] = [requests[i] EXCEPT !.status = new(i)] /\ requests[i].client = c
      BY <1>3
    <2>. QED  BY <2>1 DEF Requests
  <1>5. /\ requests' \in Seq(Requests) /\ Len(requests') <= MaxRequests
        /\ KeepsAll /\ \A d \in Clients \ {c} : KeepsRequests(d)
    <2>1. Restatus(c, S)
      <3>1. ASSUME NEW i \in S
            PROVE  \E s \in Status, b \in BOOLEAN :
                     requests'[i] = [requests[i] EXCEPT !.status = s, !.resent = b]
        <4>1. new(i) \in Status
          BY <1>2
        <4>2. /\ requests'[i] = [requests[i] EXCEPT !.status = new(i), !.resent = requests[i].resent]
              /\ requests[i].resent \in BOOLEAN
          BY <1>4
        <4>. QED  BY <4>1, <4>2
      <3>. QED  BY <1>3, <3>1 DEF Restatus
    <2>. QED  BY <1>3, <2>1, RestatusLemma DEF IInv
  <1>6. KeepsRequests(c)
    BY <1>3, <1>4 DEF KeepsRequests
  <1>7. Larger
    BY <1>5, KeepsAllLemma DEF IInv
  <1>8. Joined /\ \A d \in Clients : conn'[d].toServer = conn[d].toServer
    <2>1. conn[c] \in Conns
      BY DEF IInv, Typed
    <2>2. [[conn[c] EXCEPT !.toClient = Tail(@)] EXCEPT !.ready = TRUE]
            = [conn[c] EXCEPT !.toClient = Tail(@), !.ready = TRUE, !.alive = conn[c].alive]
      BY <2>1 DEF Conns
    <2>3. Takes1(c, TRUE, conn[c].alive) /\ conn[c].alive \in BOOLEAN
      BY <1>1, <2>1, <2>2 DEF Takes1, Conns
    <2>. QED  BY <1>5, <1>6, <1>7, <2>3, TakeLemma DEF IInv
  <1>9. Calm
    <2>. SUFFICES ASSUME NEW i \in DOMAIN requests, Fresh(i)' PROVE Fresh(i)
      BY DEF Calm
    <2>1. CASE i \in S
      BY <1>3, <1>4, <2>1 DEF Fresh
    <2>2. CASE i \notin S
      <3>1. requests'[i] = requests[i]
        BY <1>3, <2>2
      <3>. QED  BY <1>8, <3>1 DEF Fresh
    <2>. QED  BY <2>1, <2>2
  <1>. QED  BY <1>1, <1>5, <1>7, <1>8, <1>9, ClientLemma, SameCopyLemma DEF IInv

\* A note makes a copy of a copy.
LEMMA HandledLemma ==
    ASSUME IInv, NEW g \in Copies, NEW n \in Notes
    PROVE  Handled(g, n) \in Copies
  <1>1. game \in Games /\ \A h \in game.history : h.phase \in Nat /\ h.phase < game.phase
    BY DEF IInv, Typed, Games, PastIsSound
  <1>2. CASE n.kind = "message"
    <2>1. n.message \in Messages
      BY <1>2 DEF Notes
    <2>. HIDE DEF Messages
    <2>2. g.messages \cup {n.message} \in SUBSET Messages
      BY <2>1 DEF Copies
    <2>3. Handled(g, n) = [g EXCEPT !.messages = g.messages \cup {n.message}]
      BY <1>2 DEF Handled
    <2>. QED  BY <2>2, <2>3 DEF Copies
  <1>3. CASE n.kind = "orders"
    <2>1. n.id \in Numbers /\ g.orders \in Orders
      BY <1>3 DEF Notes, Copies
    <2>2. Given(g.orders, n.units, n.id) \in Orders
      BY <2>1, GivenLemma
    <2>3. Handled(g, n) = [g EXCEPT !.orders = Given(g.orders, n.units, n.id)]
      BY <1>3 DEF Handled
    <2>. QED  BY <2>2, <2>3 DEF Copies
  <1>4. CASE n.kind = "history"
    <2>1. n.past \in game.history
      BY <1>4 DEF Notes
    <2>2. Handled(g, n) = [g EXCEPT !.history = g.history \cup {n.past}]
      BY <1>4 DEF Handled
    <2>. QED  BY <2>1, <2>2 DEF Copies
  <1>5. CASE n.kind = "phase"
    <2>1. n.phase \in 0 .. game.phase /\ n.messages \in SUBSET Messages /\ n.orders \in Orders
      BY <1>5 DEF Notes
    <2>2. Handled(g, n) = [phase |-> n.phase, history |-> {}, messages |-> n.messages, orders |-> n.orders]
      BY <1>5 DEF Handled
    <2>. HIDE DEF Messages
    <2>. QED  BY <2>1, <2>2 DEF Copies
  <1>6. CASE n.kind = "processed"
    <2>1. n.past \in game.history
      BY <1>6 DEF Notes
    <2>2. n.past.phase + 1 \in 0 .. game.phase /\ g.history \cup {n.past} \in SUBSET game.history /\ NoOrders \in Orders
      BY <1>1, <2>1, BoundsAssumption, OrdersLemma DEF Copies, Games
    <2>3. Handled(g, n) = [phase |-> n.past.phase + 1, history |-> g.history \cup {n.past},
                           messages |-> {}, orders |-> NoOrders]
      BY <1>6 DEF Handled, Extend
    <2>. QED  BY <2>2, <2>3 DEF Copies
  <1>7. n.kind \in {"message", "orders", "history", "phase", "processed"}
    BY DEF Notes
  <1>. QED  BY <1>2, <1>3, <1>4, <1>5, <1>6, <1>7

\* A note changes the copy, or ends the loop that receives.
LEMMA NotificationIInv ==
    ASSUME IInv, NEW c \in Clients, conn[c].toClient # <<>>, Head(conn[c].toClient).kind \notin {"response", "synced"},
           OnNotification([conn[c] EXCEPT !.toClient = Tail(@)], c, Head(conn[c].toClient)),
           UNCHANGED <<game, breaks>>
    PROVE  IInv' /\ Rests
  <1>. DEFINE n == Head(conn[c].toClient)
              fails == Fails(copy[c], n)
              alive == IF fails THEN FALSE ELSE conn[c].alive
  <1>1. /\ UNCHANGED requests
        /\ IF fails
           THEN conn' = [conn EXCEPT ![c] = [[conn[c] EXCEPT !.toClient = Tail(@)] EXCEPT !.alive = FALSE]] /\ UNCHANGED copy
           ELSE copy' = [copy EXCEPT ![c] = Handled(copy[c], n)] /\ conn' = [conn EXCEPT ![c] = [conn[c] EXCEPT !.toClient = Tail(@)]]
    BY DEF OnNotification
  <1>2. n \in Notes
    BY FirstItemLemma
  <1>. HIDE DEF n, fails
  <1>3. /\ requests' \in Seq(Requests) /\ Len(requests') <= MaxRequests
        /\ KeepsAll /\ \A d \in Clients : KeepsRequests(d)
    BY <1>1 DEF IInv, Typed, KeepsAll, KeepsRequests
  <1>4. Larger
    BY <1>3, KeepsAllLemma DEF IInv
  <1>5. Joined /\ \A d \in Clients : conn'[d].toServer = conn[d].toServer
    <2>1. conn[c] \in Conns
      BY DEF IInv, Typed
    <2>2. /\ [[conn[c] EXCEPT !.toClient = Tail(@)] EXCEPT !.alive = FALSE]
               = [conn[c] EXCEPT !.toClient = Tail(@), !.ready = conn[c].ready, !.alive = FALSE]
          /\ [conn[c] EXCEPT !.toClient = Tail(@)]
               = [conn[c] EXCEPT !.toClient = Tail(@), !.ready = conn[c].ready, !.alive = conn[c].alive]
      BY <2>1 DEF Conns
    <2>3. Takes1(c, conn[c].ready, alive)
      BY <1>1, <2>2 DEF Takes1
    <2>4. conn[c].ready \in BOOLEAN /\ alive \in BOOLEAN
      BY <2>1 DEF Conns
    <2>. HIDE DEF alive
    <2>. QED  BY <1>3, <1>4, <2>3, <2>4, TakeLemma DEF IInv
  <1>6. Calm
    BY <1>1, <1>5 DEF Calm, Fresh
  <1>7. copy' \in [Clients -> Copies']
    <2>1. copy \in [Clients -> Copies] /\ copy \in [Clients -> Copies']
      BY <1>4 DEF IInv, Typed, Larger
    <2>2. Handled(copy[c], n) \in Copies'
      BY <1>2, <1>4, <2>1, HandledLemma DEF Larger
    <2>3. CASE fails
      BY <1>1, <2>1, <2>3
    <2>4. CASE ~fails
      BY <1>1, <2>1, <2>2, <2>4
    <2>. QED  BY <2>3, <2>4
  <1>. QED  BY <1>3, <1>5, <1>6, <1>7, ClientLemma

LEMMA ReceiveIInv ==
    ASSUME IInv, NEW c \in Clients, Receive(c)
    PROVE  IInv' /\ Rests
  BY ResponseIInv, SyncDoneIInv, NotificationIInv DEF Receive

\* Nothing happens.
LEMMA StutterIInv ==
    ASSUME IInv, UNCHANGED vars
    PROVE  IInv' /\ Rests
  <1>0. UNCHANGED <<game, conn, copy, requests, breaks>>
    BY DEF vars
  <1>1. Larger /\ \A d \in Clients : KeepsRequests(d)
    BY <1>0, StillLemma DEF IInv
  <1>2. Joined
    <2>1. conn' = [c \in Clients |-> conn'[c]]
      BY <1>0 DEF IInv, Typed
    <2>2. ASSUME NEW c \in Clients PROVE conn'[c] \in Conns' /\ Linked(c)'
      BY <1>0, <1>1, KeepLemma DEF IInv
    <2>. QED  BY <2>1, <2>2, JoinLemma
  <1>. QED  BY <1>0, <1>2, CarryLemma

\* Every step keeps the invariant, and is of one of four kinds for the game.
LEMMA NextIInv ==
    ASSUME IInv, [Next]_vars
    PROVE  IInv' /\ (Rests \/ RecordsOwn \/ OtherSends \/ Process)
  BY ProcessIInv, OtherSendsIInv, SetOrdersIInv, SendGameMessageIInv, BreakIInv, ServeIInv,
     SendNoteIInv, OnCloseIInv, WriteIInv, ReconnectIInv, ReceiveIInv, StutterIInv
     DEF Next, Step

\* The inductive invariant holds in every state.
LEMMA SpecIInv == Spec => []IInv
  BY InitIInv, NextIInv, PTL DEF Spec

\* The orders the server will carry out were given by a user who looked at the
\* phase they are for, whatever was held, lost or sent again.
THEOREM OrdersStayForPhase == Spec => []OrdersAreForPhase
  <1>1. IInv => OrdersAreForPhase
    BY DEF IInv, OrdersAreSound, OrdersAreForPhase
  <1>. QED  BY <1>1, SpecIInv, PTL

\* A message is recorded once for each time it was asked for, however often the
\* request was sent.
THEOREM NoneIsDoubled == Spec => []NoDuplicates
  <1>1. IInv => NoDuplicates
    <2>. SUFFICES ASSUME IInv, NEW c \in Clients, NEW to \in Recipients, NEW text \in Texts
                  PROVE  LET A == {m \in game.messages : m.from = Role[c] /\ m.to = to /\ m.text = text}
                             B == {i \in DOMAIN requests : /\ Role[requests[i].client] = Role[c]
                                                           /\ requests[i].kind = "message"
                                                           /\ requests[i].to = to /\ requests[i].text = text}
                         IN  Cardinality(A) <= Cardinality(B)
      BY DEF NoDuplicates
    <2>. DEFINE A == {m \in game.messages : m.from = Role[c] /\ m.to = to /\ m.text = text}
                B == {i \in DOMAIN requests : /\ Role[requests[i].client] = Role[c]
                                              /\ requests[i].kind = "message"
                                              /\ requests[i].to = to /\ requests[i].text = text}
    <2>1. PICK f : Assigns(f)
      BY DEF IInv, EachIsDue
    <2>2. A \subseteq Own
      BY DEF Own, Others
    <2>. DEFINE g == [m \in A |-> f[m]]
    <2>3. ASSUME NEW m \in A PROVE f[m] \in B
      BY <2>1, <2>2 DEF Assigns, IsDue
    <2>4. IsFiniteSet(B)
      <3>1. B \subseteq 1 .. Len(requests) /\ Len(requests) \in Nat
        BY DEF IInv, Typed
      <3>. HIDE DEF B
      <3>2. IsFiniteSet(1 .. Len(requests))
        BY <3>1, FS_Interval
      <3>. QED  BY <3>1, <3>2, FS_Subset
    <2>5. g \in Injection(A, B)
      <3>. HIDE DEF A, B
      <3>1. g \in [A -> B]
        BY <2>3
      <3>2. \A x, y \in A : g[x] = g[y] => x = y
        BY <2>1, <2>2 DEF Assigns
      <3>. HIDE DEF g
      <3>. QED  BY <3>1, <3>2 DEF Injection, IsInjective
    <2>. HIDE DEF A, B, g
    <2>6. Cardinality(A) <= Cardinality(B)
      BY <2>4, <2>5, FS_Injection DEF ExistsInjection
    <2>. QED  BY <2>6 DEF A, B
  <1>. QED  BY <1>1, SpecIInv, PTL

-----------------------------------------------------------------------------
(* The clock: each of its ticks is a processing, a message of another power *)
(* in this phase or in one before, or due to a request.                     *)

OfOthers == {m \in game.messages : m.from \in Others}
Older == {i \in DOMAIN requests : requests[i].phase < game.phase}
Now == {i \in DOMAIN requests : requests[i].phase = game.phase}

ClockIsBounded ==
    /\ Cardinality(OfOthers) <= MaxOthers
    /\ game.clock <= game.phase + MaxOthers * game.phase
                     + Cardinality(Older) + Cardinality(OfOthers) + Cardinality(Own)

\* The messages of the clients' powers are no more than the requests of the phase.
LEMMA CountLemma ==
    ASSUME IInv
    PROVE  /\ IsFiniteSet(OfOthers) /\ Cardinality(OfOthers) \in Nat
           /\ IsFiniteSet(Own) /\ Cardinality(Own) \in Nat
           /\ IsFiniteSet(Older) /\ Cardinality(Older) \in Nat
           /\ IsFiniteSet(Now) /\ Cardinality(Now) \in Nat
           /\ Cardinality(Own) <= Cardinality(Now)
           /\ Cardinality(Older) + Cardinality(Now) = Cardinality(Older \cup Now)
           /\ Cardinality(Older \cup Now) <= Len(requests)
  <1>1. OfOthers \subseteq game.messages /\ Own \subseteq game.messages /\ IsFiniteSet(game.messages)
    BY DEF OfOthers, Own, IInv, PastIsSound
  <1>2. DOMAIN requests = 1 .. Len(requests) /\ Len(requests) \in Nat
    BY DEF IInv, Typed
  <1>3. IsFiniteSet(DOMAIN requests) /\ Cardinality(DOMAIN requests) = Len(requests)
    <2>1. IsFiniteSet(1 .. Len(requests)) /\ Cardinality(1 .. Len(requests)) = Len(requests)
      <3>1. 1 \in Int /\ Len(requests) \in Int
        BY <1>2
      <3>2. /\ IsFiniteSet(1 .. Len(requests))
            /\ Cardinality(1 .. Len(requests)) = IF 1 > Len(requests) THEN 0 ELSE Len(requests) - 1 + 1
        BY <3>1, FS_Interval
      <3>. QED  BY <1>2, <3>2
    <2>. QED  BY <1>2, <2>1
  <1>4. Older \subseteq DOMAIN requests /\ Now \subseteq DOMAIN requests /\ Older \cap Now = {}
    <2>1. \A i \in DOMAIN requests : requests[i].phase \in Nat
      BY DEF IInv, Typed, Requests
    <2>. QED  BY <2>1 DEF Older, Now, IInv, Typed, Games
  <1>5. /\ IsFiniteSet(OfOthers) /\ IsFiniteSet(Own) /\ IsFiniteSet(Older) /\ IsFiniteSet(Now)
        /\ IsFiniteSet(Older \cup Now) /\ Cardinality(Older \cup Now) <= Len(requests)
    BY <1>1, <1>3, <1>4, FS_Subset
  <1>6. /\ Cardinality(OfOthers) \in Nat /\ Cardinality(Own) \in Nat
        /\ Cardinality(Older) \in Nat /\ Cardinality(Now) \in Nat
    BY <1>5, FS_CardinalityType
  <1>7. Cardinality(Older \cup Now) = Cardinality(Older) + Cardinality(Now)
    <2>1. Cardinality(Older \cup Now) = Cardinality(Older) + Cardinality(Now) - Cardinality(Older \cap Now)
      BY <1>5, FS_Union
    <2>2. Cardinality(Older \cap Now) = 0
      BY <1>4, FS_EmptySet
    <2>. QED  BY <1>6, <2>1, <2>2
  <1>8. Cardinality(Own) <= Cardinality(Now)
    <2>1. PICK f : Assigns(f)
      BY DEF IInv, EachIsDue
    <2>2. f \in Injection(Own, Now)
      <3>1. f \in [Own -> Now]
        BY <2>1 DEF Assigns, IsDue, Now
      <3>. QED  BY <2>1, <3>1 DEF Assigns, Injection, IsInjective
    <2>. QED  BY <1>5, <2>2, FS_Injection
  <1>. QED  BY <1>5, <1>6, <1>7, <1>8

\* The requests of former phases do not become fewer within a phase.
LEMMA OlderLemma ==
    ASSUME IInv, IInv', KeepsAll, game'.phase = game.phase
    PROVE  Cardinality(Older) <= Cardinality(Older')
  <1>1. Older \subseteq Older'
    BY DEF Older, KeepsAll
  <1>2. IsFiniteSet(Older)'
    BY CountLemma, PTL
  <1>. QED  BY <1>1, <1>2, FS_Subset
Countable == Cardinality(Older) \in Nat /\ Cardinality(OfOthers) \in Nat /\ Cardinality(Own) \in Nat

LEMMA CountableLemma == IInv => Countable
  BY CountLemma DEF Countable

\* The bound holds at first ...
LEMMA InitClock == Init => ClockIsBounded
  <1>. SUFFICES ASSUME Init PROVE ClockIsBounded
    OBVIOUS
  <1>1. IInv
    BY InitIInv
  <1>2. OfOthers = {}
    BY DEF Init, OfOthers
  <1>3. game.clock = 0 /\ game.phase = 0 /\ Cardinality(OfOthers) = 0
    BY <1>2, FS_EmptySet DEF Init
  <1>. QED  BY <1>1, <1>3, CountLemma, BoundsAssumption DEF ClockIsBounded

\* ... and after each kind of step: a tick is paid for by a message or a phase.
LEMMA NextClock ==
    ASSUME IInv, IInv', ClockIsBounded, Rests \/ RecordsOwn \/ OtherSends \/ Process
    PROVE  ClockIsBounded'
  <1>0. /\ Cardinality(OfOthers) \in Nat /\ Cardinality(Own) \in Nat /\ Cardinality(Older) \in Nat
        /\ Cardinality(Now) \in Nat /\ IsFiniteSet(OfOthers) /\ IsFiniteSet(Own) /\ IsFiniteSet(Older) /\ IsFiniteSet(Now)
        /\ game.phase \in Nat /\ game.clock \in Nat /\ MaxOthers \in Nat
        /\ game \in Games
    <2>1. /\ Cardinality(OfOthers) \in Nat /\ Cardinality(Own) \in Nat /\ Cardinality(Older) \in Nat
          /\ Cardinality(Now) \in Nat /\ IsFiniteSet(OfOthers) /\ IsFiniteSet(Own) /\ IsFiniteSet(Older) /\ IsFiniteSet(Now)
      BY CountLemma
    <2>2. game \in Games
      BY DEF IInv, Typed
    <2>3. game.phase \in Nat /\ game.clock \in Nat
      BY <2>2 DEF Games
    <2>. QED  BY <2>1, <2>2, <2>3, BoundsAssumption
  <1>1. /\ Cardinality(OfOthers') \in Nat /\ Cardinality(Own') \in Nat /\ Cardinality(Older') \in Nat
        /\ game'.phase \in Nat /\ game'.clock \in Nat
    <2>1. Cardinality(OfOthers') \in Nat /\ Cardinality(Own') \in Nat /\ Cardinality(Older') \in Nat
      <3>1. Countable'
        BY CountableLemma, PTL
      <3>. QED  BY <3>1 DEF Countable
    <2>. QED  BY <2>1 DEF IInv, Typed, Games
  <1>2. CASE Rests
    <2>1. OfOthers' = OfOthers /\ Own' = Own /\ game'.phase = game.phase /\ game'.clock = game.clock
      BY <1>2 DEF Rests, OfOthers, Own
    <2>2. Cardinality(Older) <= Cardinality(Older')
      BY <1>2, OlderLemma DEF Rests
    <2>. QED  BY <1>0, <1>1, <2>1, <2>2 DEF ClockIsBounded
  <1>3. ASSUME NEW m, New(m), UNCHANGED requests
        PROVE  /\ game'.phase = game.phase /\ game'.clock = game.clock + 1 /\ Older' = Older
               /\ m.from \in Others => /\ Own' = Own /\ Cardinality(OfOthers') = Cardinality(OfOthers) + 1
               /\ m.from \notin Others => /\ OfOthers' = OfOthers /\ Cardinality(Own') = Cardinality(Own) + 1
    <2>1. m \notin game.messages /\ game'.phase = game.phase /\ game'.messages = game.messages \cup {m}
      BY <1>3, NewLemma
    <2>2. game'.clock = game.clock + 1
      BY <1>0, <1>3 DEF New, Games
    <2>3. Older' = Older
      BY <1>3, <2>1 DEF Older
    <2>4. CASE m.from \in Others
      <3>1. Own' = Own /\ OfOthers' = OfOthers \cup {m} /\ m \notin OfOthers
        BY <2>1, <2>4 DEF Own, OfOthers
      <3>2. Cardinality(OfOthers') = Cardinality(OfOthers) + 1
        BY <1>0, <3>1, FS_AddElement
      <3>. QED  BY <2>1, <2>2, <2>3, <2>4, <3>1, <3>2
    <2>5. CASE m.from \notin Others
      <3>1. OfOthers' = OfOthers /\ Own' = Own \cup {m} /\ m \notin Own
        BY <2>1, <2>5 DEF Own, OfOthers
      <3>2. Cardinality(Own') = Cardinality(Own) + 1
        BY <1>0, <3>1, FS_AddElement
      <3>. QED  BY <2>1, <2>2, <2>3, <2>5, <3>1, <3>2
    <2>. QED  BY <2>4, <2>5
  <1>4. CASE RecordsOwn
    <2>1. PICK m : New(m) /\ m.from \notin Others
      BY <1>4 DEF RecordsOwn
    <2>2. UNCHANGED requests
      BY <1>4 DEF RecordsOwn
    <2>. QED  BY <1>0, <1>3, <2>1, <2>2 DEF ClockIsBounded
  <1>5. CASE OtherSends
    <2>1. PICK m : New(m) /\ m.from \in Others
      BY <1>5, OtherSendsNew
    <2>2. UNCHANGED requests /\ Cardinality(OfOthers) < MaxOthers
      BY <1>5 DEF OtherSends, OfOthers
    <2>. QED  BY <1>0, <1>3, <2>1, <2>2 DEF ClockIsBounded
  <1>6. CASE Process
    <2>1. /\ game'.phase = game.phase + 1 /\ game'.clock = game.clock + 1 /\ game'.messages = {}
          /\ UNCHANGED requests
      BY <1>6 DEF Process
    <2>2. Cardinality(OfOthers') = 0 /\ Cardinality(Own') = 0
      <3>1. OfOthers' = {} /\ Own' = {}
        BY <2>1 DEF OfOthers, Own
      <3>. QED  BY <3>1, FS_EmptySet
    <2>3. Cardinality(Older) + Cardinality(Own) <= Cardinality(Older')
      <3>1. Older' = Older \cup Now
        <4>1. \A i \in DOMAIN requests : requests[i].phase \in Nat
          BY DEF IInv, Typed, Requests
        <4>. QED  BY <1>0, <2>1, <4>1 DEF Older, Now
      <3>. QED  BY <1>0, <3>1, CountLemma
    <2>4. MaxOthers * (game.phase + 1) = MaxOthers * game.phase + MaxOthers /\ MaxOthers * game.phase \in Nat
      BY <1>0
    <2>5. /\ Cardinality(OfOthers) <= MaxOthers
          /\ game.clock <= game.phase + MaxOthers * game.phase
                           + Cardinality(Older) + Cardinality(OfOthers) + Cardinality(Own)
      BY DEF ClockIsBounded
    <2>6. game.clock + 1 <= (game.phase + 1) + MaxOthers * (game.phase + 1) + Cardinality(Older') + 0 + 0
      <3>. DEFINE x == MaxOthers * game.phase
                  y == MaxOthers * (game.phase + 1)
      <3>1. x \in Nat /\ y = x + MaxOthers
        BY <2>4
      <3>2. game.clock <= game.phase + x + Cardinality(Older) + Cardinality(OfOthers) + Cardinality(Own)
        BY <2>5
      <3>. HIDE DEF x, y
      <3>3. game.clock + 1 <= (game.phase + 1) + y + Cardinality(Older') + 0 + 0
        BY <1>0, <1>1, <2>3, <2>5, <3>1, <3>2
      <3>. QED  BY <3>3 DEF y
    <2>. QED  BY <1>0, <2>1, <2>2, <2>6 DEF ClockIsBounded
  <1>. QED  BY <1>2, <1>4, <1>5, <1>6

\* So the bounds of the model bound it.
LEMMA TimesLemma ==
    ASSUME IInv, ClockIsBounded
    PROVE  0 .. game.clock \subseteq Times
  <1>1. /\ Cardinality(OfOthers) \in Nat /\ Cardinality(Own) \in Nat /\ Cardinality(Older) \in Nat
        /\ Cardinality(Older) + Cardinality(Own) <= MaxRequests
        /\ game.phase \in 0 .. MaxPhase /\ game.clock \in Nat
        /\ MaxOthers \in Nat /\ MaxPhase \in Nat /\ MaxRequests \in Nat
    <2>1. Len(requests) <= MaxRequests /\ Len(requests) \in Nat
      BY DEF IInv, Typed
    <2>2. /\ Cardinality(OfOthers) \in Nat /\ Cardinality(Own) \in Nat /\ Cardinality(Older) \in Nat
          /\ Cardinality(Now) \in Nat /\ Cardinality(Own) <= Cardinality(Now)
          /\ Cardinality(Older) + Cardinality(Now) <= Len(requests)
      BY CountLemma
    <2>3. MaxOthers \in Nat /\ MaxPhase \in Nat /\ MaxRequests \in Nat
      BY BoundsAssumption
    <2>4. game.phase \in 0 .. MaxPhase /\ game.clock \in Nat
      BY DEF IInv, Typed, Games
    <2>. QED  BY <2>1, <2>2, <2>3, <2>4
  <1>. DEFINE x == MaxOthers * game.phase
              y == MaxOthers * MaxPhase
              z == MaxOthers * (MaxPhase + 1)
  <1>2. x \in Nat /\ y \in Nat /\ z = y + MaxOthers
    BY <1>1
  <1>3. x <= y
    <2>1. PICK k \in Nat : MaxPhase = game.phase + k
      <3>1. MaxPhase - game.phase \in Nat
        BY <1>1
      <3>2. MaxPhase = game.phase + (MaxPhase - game.phase)
        BY <1>1
      <3>. QED  BY <3>1, <3>2
    <2>2. y = x + MaxOthers * k /\ MaxOthers * k \in Nat
      BY <1>1, <2>1
    <2>. HIDE DEF x, y
    <2>. QED  BY <1>2, <2>2
  <1>4. /\ Cardinality(OfOthers) <= MaxOthers
        /\ game.clock <= game.phase + x + Cardinality(Older) + Cardinality(OfOthers) + Cardinality(Own)
    BY DEF ClockIsBounded
  <1>5. Times = 0 .. MaxRequests + z + MaxPhase
    BY DEF Times
  <1>. HIDE DEF x, y, z
  <1>6. game.clock <= MaxRequests + z + MaxPhase
    BY <1>1, <1>2, <1>3, <1>4
  <1>. QED  BY <1>1, <1>2, <1>5, <1>6

\* With the bound on the clock the type invariant follows.
LEMMA TypeLemma ==
    ASSUME IInv, ClockIsBounded
    PROVE  TypeOK
  <1>1. Messages \subseteq Message
    BY TimesLemma DEF Messages, Message
  <1>2. game \in [phase : 0 .. MaxPhase, clock : Times, messages : SUBSET game.messages,
                  history : SUBSET Past, orders : [Powers -> Orders]]
    <2>1. game \in Games
      BY DEF IInv, Typed
    <2>2. game.clock \in Times /\ game.history \subseteq Past
      BY <2>1, TimesLemma DEF Games, Past
    <2>. QED  BY <2>1, <2>2 DEF Games
  <1>3. game.messages \subseteq Message
    BY <1>1 DEF IInv, Typed, Games
  <1>4. ASSUME NEW c \in Clients
        PROVE  /\ conn[c].holder \in {"none", "old", "cur"}
               /\ {conn[c].up, conn[c].ready, conn[c].alive} \subseteq BOOLEAN
               /\ copy[c].phase \in 0 .. MaxPhase /\ copy[c].orders \in Orders
               /\ copy[c].history \subseteq game.history /\ copy[c].messages \subseteq Message
               /\ ~conn[c].up => conn[c].toServer \o conn[c].toClient \o conn[c].queue = <<>>
    <2>1. conn[c] \in Conns /\ copy[c] \in Copies /\ Linked(c) /\ game \in Games
      BY DEF IInv, Typed
    <2>2. conn[c].holder \in {"none", "old", "cur"} /\ {conn[c].up, conn[c].ready, conn[c].alive} \subseteq BOOLEAN
      BY <2>1 DEF Conns
    <2>3. copy[c].phase \in 0 .. MaxPhase /\ copy[c].orders \in Orders /\ copy[c].history \subseteq game.history
      BY <2>1, BoundsAssumption DEF Copies, Games
    <2>4. copy[c].messages \subseteq Message
      BY <1>1, <2>1 DEF Copies
    <2>5. ~conn[c].up => conn[c].toServer \o conn[c].toClient \o conn[c].queue = <<>>
      <3>1. <<>> \o <<>> \o <<>> = <<>>
        OBVIOUS
      <3>. QED  BY <2>1, <3>1 DEF Linked
    <2>. QED  BY <2>2, <2>3, <2>4, <2>5
  <1>5. \A i \in DOMAIN requests : requests[i].status \in Status /\ requests[i].client \in Clients
    <2>1. \A i \in DOMAIN requests : requests[i] \in Requests
      BY DEF IInv, Typed
    <2>. QED  BY <2>1 DEF Requests
  <1>. QED  BY <1>2, <1>3, <1>4, <1>5 DEF TypeOK, IInv, Typed

LEMMA SpecClock == Spec => [](IInv /\ ClockIsBounded)
  <1>1. Init => IInv /\ ClockIsBounded
    BY InitIInv, InitClock
  <1>2. (IInv /\ ClockIsBounded) /\ [Next]_vars => (IInv /\ ClockIsBounded)'
    BY NextIInv, NextClock
  <1>. QED  BY <1>1, <1>2, PTL DEF Spec

\* The copies hold what the server has or had, whoever connects as whom, a
\* broken socket carries nothing, and the clock stays within the bounds.
THEOREM TypeCorrect == Spec => []TypeOK
  BY SpecClock, TypeLemma, PTL

-----------------------------------------------------------------------------
(* The past phases on the way to a client: in their order, and after those *)
(* it has.                                                                 *)

IsPast(n) == n.kind \in {"history", "processed"}
HasNoPast(s) == \A i \in DOMAIN s : ~IsPast(s[i])

\* What is on the way in s to a copy with the history H.
Fits(H, s) ==
    /\ \A i, j \in DOMAIN s : i < j /\ IsPast(s[i]) /\ IsPast(s[j]) => s[i].past.time < s[j].past.time
    /\ \A h \in H, i \in DOMAIN s : IsPast(s[i]) => h.time < s[i].past.time

\* What keeps the pasts, or some of them, and their order still fits.
LEMMA EmbedLemma ==
    ASSUME NEW H, NEW s, NEW r, NEW e, Fits(H, s),
           \A i \in DOMAIN r : IsPast(r[i]) => e[i] \in DOMAIN s /\ r[i] = s[e[i]],
           \A i, j \in DOMAIN r : i < j /\ IsPast(r[i]) /\ IsPast(r[j]) => e[i] < e[j]
    PROVE  Fits(H, r)
  BY DEF Fits

\* Notes without a past change nothing about the pasts ...
LEMMA TellFits ==
    ASSUME NEW T, NEW a \in Seq(T), NEW b \in Seq(T), NEW notes \in Seq(T), HasNoPast(notes),
           NEW H, Fits(H, a \o b)
    PROVE  Fits(H, a \o (b \o notes))
  <1>. DEFINE s == a \o b
              r == a \o (b \o notes)
  <1>1. /\ s \in Seq(T) /\ r = s \o notes /\ Len(s) \in Nat /\ DOMAIN s = 1 .. Len(s)
        /\ DOMAIN notes = 1 .. Len(notes) /\ Len(notes) \in Nat
    OBVIOUS
  <1>. HIDE DEF s, r
  <1>2. /\ DOMAIN r = 1 .. Len(s) + Len(notes)
        /\ \A i \in DOMAIN r : \/ i \in DOMAIN s /\ r[i] = s[i]
                               \/ i - Len(s) \in DOMAIN notes /\ r[i] = notes[i - Len(s)]
    BY <1>1
  <1>3. \A i \in DOMAIN r : IsPast(r[i]) => i \in DOMAIN s /\ r[i] = s[i]
    BY <1>2 DEF HasNoPast
  <1>4. Fits(H, s)
    BY DEF s
  <1>5. Fits(H, r)
    BY <1>3, <1>4 DEF Fits
  <1>. QED  BY <1>5 DEF r

\* ... nor does an answer put before the notes that wait.
LEMMA AnswerFits ==
    ASSUME NEW T, NEW a \in Seq(T), NEW b \in Seq(T), NEW x \in T, ~IsPast(x), NEW H, Fits(H, a \o b)
    PROVE  Fits(H, Append(a, x) \o b)
  <1>. DEFINE s == a \o b
              r == Append(a, x) \o b
              e == [i \in DOMAIN r |-> IF i <= Len(a) THEN i ELSE i - 1]
  <1>1. /\ DOMAIN s = 1 .. Len(a) + Len(b) /\ DOMAIN r = 1 .. Len(a) + 1 + Len(b)
        /\ Len(a) \in Nat /\ Len(b) \in Nat
        /\ \A i \in DOMAIN r : /\ i <= Len(a) => r[i] = a[i]
                               /\ i = Len(a) + 1 => r[i] = x
                               /\ i > Len(a) + 1 => r[i] = b[i - (Len(a) + 1)]
        /\ \A i \in DOMAIN s : /\ i <= Len(a) => s[i] = a[i]
                               /\ i > Len(a) => s[i] = b[i - Len(a)]
    OBVIOUS
  <1>2. Fits(H, s)
    OBVIOUS
  <1>. HIDE DEF s, r
  <1>3. ASSUME NEW i \in DOMAIN r, IsPast(r[i])
        PROVE  i # Len(a) + 1 /\ e[i] \in DOMAIN s /\ r[i] = s[e[i]]
    <2>1. i # Len(a) + 1
      BY <1>1, <1>3
    <2>2. CASE i <= Len(a)
      BY <1>1, <2>2
    <2>3. CASE i > Len(a) + 1
      <3>1. e[i] = i - 1 /\ i - 1 \in DOMAIN s /\ i - 1 > Len(a)
        BY <1>1, <2>3
      <3>2. (i - 1) - Len(a) = i - (Len(a) + 1)
        BY <1>1
      <3>. QED  BY <1>1, <2>1, <2>3, <3>1, <3>2
    <2>. QED  BY <1>1, <2>1, <2>2, <2>3
  <1>4. \A i, j \in DOMAIN r : i < j /\ IsPast(r[i]) /\ IsPast(r[j]) => e[i] < e[j]
    <2>1. \A i \in DOMAIN r : IsPast(r[i]) => i # Len(a) + 1
      BY <1>3
    <2>. QED  BY <1>1, <2>1
  <1>5. Fits(H, r)
    <2>. HIDE DEF e
    <2>. QED  BY <1>2, <1>3, <1>4, EmbedLemma
  <1>. QED  BY <1>5 DEF r

\* A past that is taken is newer than those the copy has.
LEMMA TailFits ==
    ASSUME NEW T, NEW a \in Seq(T), a # <<>>, NEW b \in Seq(T), NEW H, Fits(H, a \o b)
    PROVE  /\ Fits(H, Tail(a) \o b)
           /\ IsPast(Head(a)) => /\ Fits(H \cup {Head(a).past}, Tail(a) \o b)
                                 /\ \A h \in H : h.time < Head(a).past.time
  <1>. DEFINE s == a \o b
              r == Tail(a) \o b
  <1>1. /\ DOMAIN s = 1 .. Len(a) + Len(b) /\ DOMAIN r = 1 .. (Len(a) - 1) + Len(b)
        /\ Len(a) \in Nat /\ Len(b) \in Nat /\ Len(a) > 0 /\ Head(a) = s[1]
        /\ \A i \in DOMAIN r : /\ i <= Len(a) - 1 => r[i] = a[i + 1]
                               /\ i > Len(a) - 1 => r[i] = b[i - (Len(a) - 1)]
        /\ \A i \in DOMAIN s : /\ i <= Len(a) => s[i] = a[i]
                               /\ i > Len(a) => s[i] = b[i - Len(a)]
    OBVIOUS
  <1>2. Fits(H, s)
    OBVIOUS
  <1>. HIDE DEF s, r
  <1>3. ASSUME NEW i \in DOMAIN r
        PROVE  i + 1 \in DOMAIN s /\ r[i] = s[i + 1] /\ 1 < i + 1
    <2>1. CASE i <= Len(a) - 1
      BY <1>1, <2>1
    <2>2. CASE i > Len(a) - 1
      <3>1. (i + 1) - Len(a) = i - (Len(a) - 1)
        BY <1>1
      <3>. QED  BY <1>1, <2>2, <3>1
    <2>. QED  BY <1>1, <2>1, <2>2
  <1>4. DOMAIN r \subseteq Nat /\ 1 \in DOMAIN s
    BY <1>1
  <1>5. Fits(H, r)
    BY <1>2, <1>3, <1>4 DEF Fits
  <1>6. ASSUME IsPast(s[1])
        PROVE  Fits(H \cup {s[1].past}, r) /\ \A h \in H : h.time < s[1].past.time
    BY <1>2, <1>3, <1>4, <1>5, <1>6 DEF Fits
  <1>. QED  BY <1>1, <1>5, <1>6 DEF r

\* A note that goes from the queue to the socket stays where it is.
LEMMA MoveFits ==
    ASSUME NEW T, NEW a \in Seq(T), NEW b \in Seq(T), b # <<>>
    PROVE  Append(a, Head(b)) \o Tail(b) = a \o b
  <1>1. Append(a, Head(b)) \o Tail(b) \in Seq(T) /\ a \o b \in Seq(T)
    OBVIOUS
  <1>2. Len(Append(a, Head(b)) \o Tail(b)) = Len(a \o b)
    OBVIOUS
  <1>3. \A i \in 1 .. Len(a \o b) : (Append(a, Head(b)) \o Tail(b))[i] = (a \o b)[i]
    <2>. TAKE i \in 1 .. Len(a \o b)
    <2>1. CASE i <= Len(a)
      BY <2>1
    <2>2. CASE i = Len(a) + 1
      BY <2>2
    <2>3. CASE i > Len(a) + 1
      <3>1. i - (Len(a) + 1) + 1 = i - Len(a)
        OBVIOUS
      <3>. QED  BY <2>3, <3>1
    <2>. QED  BY <2>1, <2>2, <2>3
  <1>. QED  BY <1>1, <1>2, <1>3, SeqEqual

\* A past that is later than all is told last.
LEMMA LastFits ==
    ASSUME NEW T, NEW a \in Seq(T), NEW b \in Seq(T), NEW n \in T, NEW H, Fits(H, a \o b),
           \A h \in H : h.time < n.past.time,
           \A i \in DOMAIN (a \o b) : IsPast((a \o b)[i]) => (a \o b)[i].past.time < n.past.time
    PROVE  Fits(H, a \o (b \o <<n>>))
  <1>. DEFINE s == a \o b
              r == a \o (b \o <<n>>)
  <1>1. /\ s \in Seq(T) /\ r = Append(s, n) /\ Len(s) \in Nat /\ DOMAIN s = 1 .. Len(s)
    OBVIOUS
  <1>2. Fits(H, s) /\ \A i \in DOMAIN s : IsPast(s[i]) => s[i].past.time < n.past.time
    OBVIOUS
  <1>. HIDE DEF s, r
  <1>3. /\ DOMAIN r = 1 .. Len(s) + 1
        /\ \A i \in DOMAIN r : \/ i \in DOMAIN s /\ r[i] = s[i]
                               \/ i = Len(s) + 1 /\ r[i] = n
    BY <1>1
  <1>4. Fits(H, r)
    BY <1>1, <1>2, <1>3 DEF Fits
  <1>. QED  BY <1>4 DEF r

\* A Synchronize that the server has not seen has the connection to itself, and
\* is newer than the history of the copy.
SyncIsAlone(c) ==
    \A i \in DOMAIN conn[c].toServer : conn[c].toServer[i].id = 0 =>
        /\ DOMAIN conn[c].toServer = {1}
        /\ ~conn[c].ready /\ conn[c].holder # "cur"
        /\ conn[c].toClient = <<>> /\ conn[c].queue = <<>>
        /\ \A h \in copy[c].history : h.time <= conn[c].toServer[i].timestamp

ToldIsSound(c) ==
    /\ conn[c].alive
    /\ Fits(copy[c].history, conn[c].toClient \o conn[c].queue)

Sound(c) == SyncIsAlone(c) /\ ToldIsSound(c)

\* A connection and a copy that stay as they are.
LEMMA SameSound ==
    ASSUME NEW c \in Clients, Sound(c), copy'[c] = copy[c],
           conn'[c].toServer = conn[c].toServer, conn'[c].ready = conn[c].ready,
           conn'[c].alive = conn[c].alive,
           conn'[c].holder = conn[c].holder \/ conn'[c].holder # "cur",
           conn'[c].toClient = conn[c].toClient, conn'[c].queue = conn[c].queue
    PROVE  Sound(c)'
  <1>1. SyncIsAlone(c)'
    BY DEF Sound, SyncIsAlone
  <1>2. ToldIsSound(c)'
    BY DEF Sound, ToldIsSound
  <1>. QED  BY <1>1, <1>2 DEF Sound

\* Nothing on the way.
LEMMA EmptySound ==
    ASSUME NEW c \in Clients, conn'[c].toServer = <<>>, conn'[c].alive,
           conn'[c].toClient = <<>>, conn'[c].queue = <<>>
    PROVE  Sound(c)'
  <1>1. <<>> \o <<>> = <<>>
    OBVIOUS
  <1>2. Fits(copy'[c].history, <<>>)
    BY DEF Fits
  <1>. QED  BY <1>1, <1>2 DEF Sound, SyncIsAlone, ToldIsSound

\* A client that is told something was not synchronizing.
LEMMA ToldSound ==
    ASSUME Typed, NEW c \in Clients, Sound(c), copy'[c] = copy[c], NEW notes, Told(c, notes),
           Fits(copy[c].history, conn[c].toClient \o (conn[c].queue \o notes))
    PROVE  Sound(c)'
  <1>1. conn[c] \in Conns
    BY DEF Typed
  <1>2. /\ conn'[c].toServer = conn[c].toServer /\ conn'[c].alive = conn[c].alive
        /\ conn'[c].toClient = conn[c].toClient /\ conn'[c].queue = conn[c].queue \o notes
        /\ conn[c].holder = "cur"
    BY <1>1 DEF Told, Conns
  <1>3. SyncIsAlone(c)'
    <2>1. \A i \in DOMAIN conn[c].toServer : conn[c].toServer[i].id # 0
      BY <1>2 DEF Sound, SyncIsAlone
    <2>. QED  BY <1>2, <2>1 DEF SyncIsAlone
  <1>4. ToldIsSound(c)'
    BY <1>2 DEF Sound, ToldIsSound
  <1>. QED  BY <1>3, <1>4 DEF Sound

LEMMA ElementLemma ==
    ASSUME NEW S, NEW s \in Seq(S)
    PROVE  \A i \in DOMAIN s : s[i] \in S
  OBVIOUS

\* Seq-ness of what is on the way.
LEMMA OnTheWayLemma ==
    ASSUME Typed, NEW c \in Clients
    PROVE  /\ conn[c].toClient \in Seq(Items) /\ conn[c].queue \in Seq(Items)
           /\ conn[c].toServer \in Seq(Mails)
           /\ \A i \in DOMAIN (conn[c].toClient \o conn[c].queue) :
                (conn[c].toClient \o conn[c].queue)[i] \in Items
           /\ copy[c].history \subseteq game.history
  <1>1. conn[c] \in Conns /\ copy[c] \in Copies
    BY DEF Typed
  <1>2. Seq(Notes) \subseteq Seq(Items)
    BY SeqLemma DEF Items
  <1>3. conn[c].toClient \in Seq(Items) /\ conn[c].queue \in Seq(Items) /\ conn[c].toServer \in Seq(Mails)
    BY <1>1, <1>2 DEF Conns
  <1>4. conn[c].toClient \o conn[c].queue \in Seq(Items)
    BY <1>3
  <1>5. \A i \in DOMAIN (conn[c].toClient \o conn[c].queue) :
          (conn[c].toClient \o conn[c].queue)[i] \in Items
    BY <1>4, ElementLemma
  <1>6. copy[c].history \subseteq game.history
    BY <1>1 DEF Copies
  <1>. QED  BY <1>3, <1>5, <1>6

\* Notes without a past phase.
LEMMA NotedSound ==
    ASSUME Typed, Larger, NEW c \in Clients, Sound(c), copy'[c] = copy[c],
           NEW notes \in Seq(Notes'), HasNoPast(notes), Told(c, notes)
    PROVE  Sound(c)'
  <1>1. conn[c].toClient \in Seq(Items') /\ conn[c].queue \in Seq(Items') /\ notes \in Seq(Items')
    <2>1. Notes' \subseteq Items'
      BY DEF Items
    <2>. QED  BY <2>1, OnTheWayLemma, SeqLemma DEF Larger
  <1>2. Fits(copy[c].history, conn[c].toClient \o conn[c].queue)
    BY DEF Sound, ToldIsSound
  <1>3. Fits(copy[c].history, conn[c].toClient \o (conn[c].queue \o notes))
    BY <1>1, <1>2, TellFits
  <1>. QED  BY <1>3, ToldSound

\* The first request of a client is answered.
LEMMA AnsweredSound ==
    ASSUME Typed, Larger, NEW c \in Clients, Sound(c), copy'[c] = copy[c],
           NEW notes \in Seq(Notes'), HasNoPast(notes), NEW answer \in Answers',
           Served(c, notes, answer)
    PROVE  Sound(c)'
  <1>1. conn[c] \in Conns
    BY DEF Typed
  <1>2. /\ conn'[c].toServer = Tail(conn[c].toServer) /\ conn'[c].alive = conn[c].alive
        /\ conn'[c].toClient = Append(conn[c].toClient, answer) /\ conn'[c].queue = conn[c].queue \o notes
        /\ conn[c].toServer # <<>>
    BY <1>1 DEF Served, Conns
  <1>3. SyncIsAlone(c)'
    <2>1. conn[c].toServer \in Seq(Mails)
      BY <1>1 DEF Conns
    <2>2. \A i \in DOMAIN Tail(conn[c].toServer) :
             /\ i + 1 \in DOMAIN conn[c].toServer /\ i + 1 # 1
             /\ Tail(conn[c].toServer)[i] = conn[c].toServer[i + 1]
      BY <1>2, <2>1
    <2>3. \A i \in DOMAIN Tail(conn[c].toServer) : Tail(conn[c].toServer)[i].id # 0
      BY <2>2 DEF Sound, SyncIsAlone
    <2>. QED  BY <1>2, <2>3 DEF SyncIsAlone
  <1>4. /\ conn[c].toClient \in Seq(Items') /\ conn[c].queue \in Seq(Items') /\ notes \in Seq(Items')
        /\ answer \in Items' /\ ~IsPast(answer)
    <2>1. Notes' \subseteq Items' /\ answer \in Items'
      BY DEF Items
    <2>2. ~IsPast(answer)
      BY DEF Answers, IsPast
    <2>. QED  BY <2>1, <2>2, OnTheWayLemma, SeqLemma DEF Larger
  <1>5. Fits(copy[c].history, conn[c].toClient \o conn[c].queue)
    BY DEF Sound, ToldIsSound
  <1>6. Fits(copy[c].history, conn[c].toClient \o (conn[c].queue \o notes))
    BY <1>4, <1>5, TellFits
  <1>7. conn[c].queue \o notes \in Seq(Items')
    BY <1>4
  <1>8. Fits(copy[c].history, Append(conn[c].toClient, answer) \o (conn[c].queue \o notes))
    BY <1>4, <1>6, <1>7, AnswerFits
  <1>9. ToldIsSound(c)'
    BY <1>2, <1>8 DEF Sound, ToldIsSound
  <1>. QED  BY <1>3, <1>9 DEF Sound

\* A request other than a Synchronize is served.
LEMMA HandedSound ==
    ASSUME Typed, Larger, NEW c \in Clients, \A d \in Clients : Sound(d), UNCHANGED copy,
           NEW S, NEW notes \in Seq(Notes'), HasNoPast(notes), NEW answer \in Answers',
           Handed(c, S, notes, answer)
    PROVE  \A d \in Clients : Sound(d)'
  <1>. DEFINE told == IF c \in S THEN notes ELSE <<>>
  <1>1. told \in Seq(Notes') /\ HasNoPast(told) /\ Served(c, told, answer)
    BY DEF HasNoPast, Handed
  <1>. HIDE DEF told
  <1>2. Sound(c)'
    BY <1>1, AnsweredSound
  <1>3. ASSUME NEW d \in Clients \ {c} PROVE Sound(d)'
    <2>1. CASE conn'[d] = conn[d]
      BY <2>1, SameSound
    <2>2. CASE Told(d, notes)
      BY <2>2, NotedSound
    <2>. QED  BY <2>1, <2>2 DEF Handed
  <1>. QED  BY <1>2, <1>3

\* The processing is told last.
LEMMA ProcessSound ==
    ASSUME IInv, IInv', \A d \in Clients : Sound(d), Process
    PROVE  \A d \in Clients : Sound(d)'
  <1>. DEFINE past == [phase |-> game.phase, time |-> game.clock + 1]
              note == [kind |-> "processed", past |-> past]
  <1>1. conn' = NotifyAll(conn, Clients, <<note>>) /\ UNCHANGED copy
    BY DEF Process, Notify
  <1>2. note.past.time = game.clock + 1 /\ game \in Games /\ game.clock \in Nat
    BY DEF IInv, Typed, Games
  <1>. HIDE DEF note
  <1>3. \A h \in game.history : h.time < note.past.time
    BY <1>2 DEF Games
  <1>. TAKE d \in Clients
  <1>4. conn'[d] = conn[d] \/ Told(d, <<note>>)
    BY <1>1 DEF NotifyAll, Told
  <1>5. CASE conn'[d] = conn[d]
    BY <1>1, <1>5, SameSound
  <1>6. CASE Told(d, <<note>>)
    <2>. DEFINE a == conn[d].toClient
                b == conn[d].queue
    <2>1. /\ a \in Seq(Items) /\ b \in Seq(Items)
          /\ \A i \in DOMAIN (a \o b) : (a \o b)[i] \in Items
          /\ copy[d].history \subseteq game.history
      BY OnTheWayLemma DEF IInv
    <2>2. Fits(copy[d].history, a \o b)
      BY DEF Sound, ToldIsSound
    <2>. HIDE DEF a, b
    <2>3. \A i \in DOMAIN (a \o b) : IsPast((a \o b)[i]) => (a \o b)[i].past.time < note.past.time
      <3>1. \A n \in Items : IsPast(n) => n.past \in game.history
        BY DEF Items, Notes, Answers, IsPast
      <3>. QED  BY <1>3, <2>1, <3>1
    <2>4. /\ a \in Seq(Items \cup {note}) /\ b \in Seq(Items \cup {note}) /\ note \in Items \cup {note}
      BY <2>1, SeqLemma
    <2>5. Fits(copy[d].history, a \o (b \o <<note>>))
      BY <1>3, <2>1, <2>2, <2>3, <2>4, LastFits
    <2>. QED  BY <1>1, <1>6, <2>5, ToldSound DEF a, b, IInv
  <1>. QED  BY <1>4, <1>5, <1>6

\* A message has no past.
LEMMA OtherSendsSound ==
    ASSUME IInv, \A d \in Clients : Sound(d), OtherSends
    PROVE  \A d \in Clients : Sound(d)'
  <1>. PICK p \in Others : \E to \in Recipients \ {p}, text \in Texts :
         LET m == [from |-> p, to |-> to, text |-> text, time |-> game.clock + 1]
         IN  /\ game' = [game EXCEPT !.clock = @ + 1, !.messages = @ \cup {m}]
             /\ conn' = Notify(conn, {c \in Clients : Sees(Role[c], m)}, [kind |-> "message", message |-> m])
    BY DEF OtherSends
  <1>. PICK to \in Recipients \ {p}, text \in Texts :
         LET m == [from |-> p, to |-> to, text |-> text, time |-> game.clock + 1]
         IN  /\ game' = [game EXCEPT !.clock = @ + 1, !.messages = @ \cup {m}]
             /\ conn' = Notify(conn, {c \in Clients : Sees(Role[c], m)}, [kind |-> "message", message |-> m])
    OBVIOUS
  <1>. DEFINE m == [from |-> p, to |-> to, text |-> text, time |-> game.clock + 1]
              note == [kind |-> "message", message |-> m]
              S == {c \in Clients : Sees(Role[c], m)}
  <1>1. New(m)
    BY DEF New, Others
  <1>2. conn' = NotifyAll(conn, S, <<note>>) /\ UNCHANGED <<copy, requests>>
    BY DEF Notify, OtherSends
  <1>. HIDE DEF m, S
  <1>3. Larger /\ <<note>> \in Seq(Notes')
    BY <1>1, <1>2, NewLemma, NoteLemma, LargerLemma DEF IInv
  <1>4. HasNoPast(<<note>>)
    BY DEF HasNoPast, IsPast
  <1>. HIDE DEF note
  <1>. TAKE d \in Clients
  <1>5. conn'[d] = conn[d] \/ Told(d, <<note>>)
    BY <1>2 DEF NotifyAll, Told
  <1>6. CASE conn'[d] = conn[d]
    BY <1>2, <1>6, SameSound
  <1>7. CASE Told(d, <<note>>)
    BY <1>2, <1>3, <1>4, <1>7, NotedSound DEF IInv
  <1>. QED  BY <1>5, <1>6, <1>7

\* What a synchronization brings is newer than the history of the copy, and
\* goes to this copy only.
OneForEachPower == \A c, d \in Clients : Role[c] \in Powers /\ Role[c] = Role[d] => c = d

\* The news of a synchronization come by time, after the history of the copy.
LEMMA NewsFits ==
    ASSUME Typed, PastIsSound, NEW role, NEW t \in Nat, NEW H, H \subseteq game.history, \A h \in H : h.time <= t,
           NEW answer, ~IsPast(answer)
    PROVE  Fits(H, <<answer>> \o News(role, t))
  <1>. DEFINE P == HistoryFrom(AfterLatest(t))
              M == {m \in MessagesFrom(AfterLatest(t)) : Sees(role, m) /\ m.from # role}
              past == ByTime(P)
              new == ByTime(M)
              now == [kind |-> "phase", phase |-> game.phase,
                      messages |-> {m \in game.messages : Sees(role, m)},
                      orders |-> IF role \in Powers THEN game.orders[role] ELSE NoOrders]
              first == [i \in DOMAIN past |-> [kind |-> "history", past |-> past[i]]]
              second == [i \in DOMAIN new |-> [kind |-> "message", message |-> new[i]]]
              third == IF past = <<>> THEN <<>> ELSE <<now>>
              T == {first[i] : i \in DOMAIN past} \cup {second[i] : i \in DOMAIN new} \cup {now, answer}
  <1>1. /\ \A h \in game.history : h.time \in Nat
        /\ \A m \in game.messages : m.time \in Nat
    BY DEF Typed, Games, Messages
  <1>2. /\ P \subseteq game.history /\ M \subseteq game.messages
        /\ \A h \in P : h.time >= t + 1
    BY DEF HistoryFrom, MessagesFrom, AfterLatest
  <1>3. IsFiniteSet(P) /\ IsFiniteSet(M)
    BY <1>2, FS_Subset DEF PastIsSound
  <1>4. \A h, g \in game.history : h.time = g.time => h = g
    <2>1. \A h \in game.history : h.phase \in Nat /\ h.time \in Nat
      BY DEF Typed, Games
    <2>. QED  BY <2>1 DEF PastIsSound
  <1>. HIDE DEF P, M
  <1>5. past \in Seq(P) /\ InOrder(past)
    BY <1>1, <1>2, <1>3, <1>4, ByTimeLemma
  <1>6. new \in Seq(M)
    BY <1>1, <1>2, <1>3, ByTimeLemma DEF PastIsSound
  <1>7. News(role, t) = first \o second \o third
    BY DEF News, past, new, P, M
  <1>. HIDE DEF past, new, now
  <1>8. /\ DOMAIN past = 1 .. Len(past) /\ Len(past) \in Nat
        /\ DOMAIN new = 1 .. Len(new) /\ Len(new) \in Nat
    BY <1>5, <1>6
  <1>9. /\ first \in Seq(T) /\ second \in Seq(T) /\ third \in Seq(T) /\ answer \in T
        /\ \A i \in DOMAIN first : first[i].past = past[i] /\ i \in DOMAIN past
    <2>1. first \in [1 .. Len(past) -> T] /\ second \in [1 .. Len(new) -> T]
      BY <1>8
    <2>2. third \in Seq(T)
      <3>1. now \in T
        OBVIOUS
      <3>. HIDE DEF T
      <3>. QED  BY <3>1
    <2>3. \A i \in DOMAIN first : first[i].past = past[i] /\ i \in DOMAIN past
      OBVIOUS
    <2>. HIDE DEF first, second, third, T
    <2>4. first \in Seq(T) /\ second \in Seq(T)
      BY <1>8, <2>1
    <2>5. answer \in T
      BY DEF T
    <2>. QED  BY <2>2, <2>3, <2>4, <2>5
  <1>10. HasNoPast(second)
    BY DEF HasNoPast, IsPast
  <1>11. HasNoPast(third)
    BY DEF HasNoPast, IsPast, now
  <1>. HIDE DEF first, second, third, T
  <1>12. Fits(H, first)
    <2>1. \A i \in DOMAIN past : past[i] \in P
      BY <1>5
    <2>2. \A i, j \in DOMAIN first : i < j => first[i].past.time < first[j].past.time
      BY <1>5, <1>9 DEF InOrder
    <2>3. \A h \in H, i \in DOMAIN first : h.time < first[i].past.time
      BY <1>1, <1>2, <1>9, <2>1
    <2>. QED  BY <2>2, <2>3 DEF Fits
  <1>13. Fits(H, <<>> \o (first \o (second \o third)))
    <2>1. second \o third \in Seq(T) /\ <<>> \in Seq(T)
      BY <1>9
    <2>2. HasNoPast(second \o third)
      BY <1>9, <1>10, <1>11 DEF HasNoPast
    <2>3. <<>> \o first = first
      BY <1>9
    <2>. QED  BY <1>9, <1>12, <2>1, <2>2, <2>3, TellFits
  <1>14. first \o (second \o third) \in Seq(T) /\ <<>> \in Seq(T)
    BY <1>9
  <1>15. Fits(H, Append(<<>>, answer) \o (first \o (second \o third)))
    BY <1>9, <1>13, <1>14, AnswerFits
  <1>16. first \o (second \o third) = first \o second \o third /\ Append(<<>>, answer) = <<answer>>
    BY <1>9
  <1>. QED  BY <1>7, <1>15, <1>16

\* The only element of a sequence is its last.
LEMMA SingleLemma ==
    ASSUME NEW T, NEW s \in Seq(T), s # <<>>, \A i \in DOMAIN s : i = 1
    PROVE  Tail(s) = <<>>
  <1>1. Len(s) = 1
    <2>1. Len(s) \in DOMAIN s
      OBVIOUS
    <2>. QED  BY <2>1
  <1>2. Tail(s) \in Seq(T) /\ Len(Tail(s)) = 0
    BY <1>1
  <1>. QED  BY <1>2, EmptySeq

\* A Synchronize is served: nothing else is on the way to the client.
LEMMA SynchronizeSound ==
    ASSUME IInv, OneForEachPower, \A d \in Clients : Sound(d), NEW c \in Clients, Accepts(c),
           Head(conn[c].toServer).id = 0, OnSynchronize(Taken(c), c, Head(conn[c].toServer).timestamp),
           UNCHANGED copy
    PROVE  \A d \in Clients : Sound(d)'
  <1>. DEFINE t == Head(conn[c].toServer).timestamp
              S == IF Role[c] \in Powers THEN Players(Role[c]) ELSE {c}
              answer == [kind |-> "synced", phase |-> game.phase]
              news == News(Role[c], t)
  <1>1. conn' = Respond(NotifyAll(Taken(c), S, news), c, answer)
    BY DEF OnSynchronize
  <1>2. S = {c}
    BY DEF OneForEachPower, Players
  <1>3. ~IsPast(answer)
    BY DEF IsPast
  <1>4. /\ 1 \in DOMAIN conn[c].toServer /\ Head(conn[c].toServer) = conn[c].toServer[1] /\ t \in Nat
    BY FirstLemma DEF Accepts
  <1>5. news \in Seq(Notes)
    BY <1>4, NewsLemma DEF IInv
  <1>6. /\ DOMAIN conn[c].toServer = {1} /\ conn[c].toClient = <<>> /\ conn[c].queue = <<>>
        /\ \A h \in copy[c].history : h.time <= t
        /\ conn[c].alive
    BY <1>4 DEF Sound, SyncIsAlone, ToldIsSound
  <1>7. copy[c].history \subseteq game.history /\ conn[c] \in Conns /\ conn[c].toServer \in Seq(Mails)
    BY OnTheWayLemma DEF IInv, Typed
  <1>. HIDE DEF t, S, answer
  <1>8. Fits(copy[c].history, <<answer>> \o news)
    BY <1>3, <1>4, <1>6, <1>7, NewsFits DEF IInv
  <1>. HIDE DEF news
  <1>9. Handed(c, S, news, answer)
    BY <1>1, HandedLemma DEF IInv
  <1>10. Served(c, news, answer)
    BY <1>2, <1>9 DEF Handed
  <1>11. /\ conn'[c].toServer = Tail(conn[c].toServer) /\ conn'[c].alive
         /\ conn'[c].toClient = Append(<<>>, answer) /\ conn'[c].queue = <<>> \o news
    BY <1>6, <1>7, <1>10 DEF Served, Conns
  <1>12. Tail(conn[c].toServer) = <<>> /\ Append(<<>>, answer) = <<answer>> /\ <<>> \o news = news
    <2>1. Tail(conn[c].toServer) = <<>>
      <3>1. conn[c].toServer # <<>> /\ \A i \in DOMAIN conn[c].toServer : i = 1
        BY <1>6 DEF Accepts
      <3>. QED  BY <1>7, <3>1, SingleLemma
    <2>4. Append(<<>>, answer) = <<answer>>
      OBVIOUS
    <2>5. <<>> \o news = news
      BY <1>5
    <2>. QED  BY <2>1, <2>4, <2>5
  <1>13. Sound(c)'
    BY <1>8, <1>11, <1>12 DEF Sound, SyncIsAlone, ToldIsSound
  <1>14. ASSUME NEW d \in Clients \ {c} PROVE Sound(d)'
    <2>1. conn'[d] = conn[d]
      BY <1>2, <1>9 DEF Handed
    <2>. QED  BY <2>1, SameSound
  <1>. QED  BY <1>13, <1>14

\* The answer to a request, and the notes of it.
LEMMA RefuseSound ==
    ASSUME IInv, Larger, \A d \in Clients : Sound(d), NEW c \in Clients, Accepts(c), UNCHANGED copy,
           NEW answer \in Answers', conn' = Respond(Taken(c), c, answer)
    PROVE  \A d \in Clients : Sound(d)'
  <1>1. conn' = Respond(NotifyAll(Taken(c), {}, <<>>), c, answer)
    <2>1. Taken(c) = [d \in Clients |-> Taken(c)[d]]
      BY DEF IInv, Typed, Taken
    <2>2. NotifyAll(Taken(c), {}, <<>>) = Taken(c)
      BY <2>1 DEF NotifyAll
    <2>. QED  BY <2>2
  <1>2. <<>> \in Seq(Notes') /\ HasNoPast(<<>>)
    BY DEF HasNoPast
  <1>3. Handed(c, {}, <<>>, answer)
    BY <1>1, HandedLemma DEF IInv
  <1>. QED  BY <1>2, <1>3, HandedSound DEF IInv

\* The other requests are answered without telling of a past.
LEMMA SetOrdersSound ==
    ASSUME IInv, Larger, \A d \in Clients : Sound(d), NEW c \in Clients, Accepts(c), UNCHANGED <<copy, requests>>,
           game'.clock = game.clock, NEW i \in DOMAIN requests, requests[i].units \in SUBSET Units,
           OnSetOrders(Taken(c), c, i)
    PROVE  \A d \in Clients : Sound(d)'
  <1>1. \A ok \in BOOLEAN : Answer(i, ok, 0) \in Answers'
    <2>1. 0 \in 0 .. game'.clock
      BY DEF IInv, Typed, Games
    <2>. QED  BY <2>1 DEF Answer, Answers
  <1>2. CASE ~OrdersAccepted(requests[i])
    <2>1. conn' = Respond(Taken(c), c, Answer(i, FALSE, 0))
      BY <1>2 DEF OnSetOrders
    <2>. QED  BY <1>1, <2>1, RefuseSound
  <1>3. CASE OrdersAccepted(requests[i])
    <2>. DEFINE note == [kind |-> "orders", id |-> i, units |-> requests[i].units]
                S == Players(Role[c]) \ {c}
    <2>1. conn' = Respond(NotifyAll(Taken(c), S, <<note>>), c, Answer(i, TRUE, 0))
      BY <1>3 DEF OnSetOrders, Notify
    <2>2. <<note>> \in Seq(Notes') /\ HasNoPast(<<note>>)
      <3>1. i \in Numbers
        <4>1. Len(requests) <= MaxRequests /\ requests \in Seq(Requests) /\ MaxRequests \in Nat
          BY BoundsAssumption DEF IInv, Typed
        <4>2. i \in 1 .. Len(requests)
          BY <4>1
        <4>. QED  BY <4>1, <4>2 DEF Numbers
      <3>2. note \in Notes' /\ ~IsPast(note)
        BY <3>1 DEF Notes, IsPast, Numbers, Orders
      <3>. HIDE DEF note
      <3>. QED  BY <3>2 DEF HasNoPast
    <2>. HIDE DEF note, S
    <2>3. Handed(c, S, <<note>>, Answer(i, TRUE, 0))
      BY <2>1, HandedLemma DEF IInv
    <2>. QED  BY <1>1, <2>2, <2>3, HandedSound DEF IInv
  <1>. QED  BY <1>2, <1>3

LEMMA SendGameMessageSound ==
    ASSUME IInv, Larger, \A d \in Clients : Sound(d), NEW c \in Clients, Accepts(c), UNCHANGED <<copy, requests>>,
           NEW i, i = Head(conn[c].toServer).id, i # 0, requests[i].kind = "message",
           OnSendGameMessage(Taken(c), c, i)
    PROVE  \A d \in Clients : Sound(d)'
  <1>. DEFINE r == requests[i]
              m == [from |-> Role[c], to |-> r.to, text |-> r.text, time |-> game.clock + 1]
  <1>0. /\ game \in Games /\ game.clock \in Nat
        /\ \A x \in game.messages : x.time \in 0 .. game.clock
    BY DEF IInv, Typed, Games, Messages
  <1>1. i \in DOMAIN requests /\ requests[i].client = c /\ requests[i] \in Requests
    BY FirstLemma DEF Accepts
  <1>2. CASE /\ conn' = Respond(Taken(c), c, Answer(i, FALSE, 0))
             /\ UNCHANGED game
    <2>1. Answer(i, FALSE, 0) \in Answers'
      <3>1. 0 \in 0 .. game'.clock
        BY <1>0, <1>2
      <3>. QED  BY <1>1, <3>1 DEF Answer, Answers
    <2>. QED  BY <1>2, <2>1, RefuseSound
  <1>3. CASE /\ conn' = Respond(Taken(c), c, Answer(i, TRUE, Latest(Archived(c, r))))
             /\ UNCHANGED game
    <2>1. Answer(i, TRUE, Latest(Archived(c, r))) \in Answers'
      <3>1. \A x \in Archived(c, r) : x.time \in 0 .. game.clock
        BY <1>0 DEF Archived
      <3>2. Latest(Archived(c, r)) \in 0 .. game'.clock
        BY <1>0, <1>3, <3>1, LatestLemma
      <3>. QED  BY <1>1, <3>2 DEF Answer, Answers
    <2>. QED  BY <1>3, <2>1, RefuseSound
  <1>4. CASE /\ game' = [game EXCEPT !.clock = @ + 1, !.messages = @ \cup {m}]
             /\ conn' = Respond(Notify(Taken(c), Addressees(m, c), [kind |-> "message", message |-> m]),
                                c, Answer(i, TRUE, m.time))
    <2>. DEFINE note == [kind |-> "message", message |-> m]
                answer == Answer(i, TRUE, m.time)
                S == Addressees(m, c)
    <2>1. New(m)
      <3>1. Role[c] \in Powers /\ r.to \in Recipients /\ r.text \in Texts
        BY <1>1 DEF Requests
      <3>. QED  BY <1>4, <3>1 DEF New
    <2>2. conn' = Respond(NotifyAll(Taken(c), S, <<note>>), c, answer)
      BY <1>4 DEF Notify
    <2>. HIDE DEF m
    <2>3. m \in Messages'
      BY <2>1, NewLemma
    <2>4. <<note>> \in Seq(Notes') /\ HasNoPast(<<note>>)
      BY <2>3, NoteLemma DEF HasNoPast, IsPast
    <2>5. answer \in Answers'
      <3>1. m.time \in 0 .. game'.clock
        BY <2>3 DEF Messages
      <3>. QED  BY <1>1, <3>1 DEF Answer, Answers
    <2>. HIDE DEF note, answer, S
    <2>6. Handed(c, S, <<note>>, answer)
      BY <2>2, HandedLemma DEF IInv
    <2>. QED  BY <2>4, <2>5, <2>6, HandedSound DEF IInv
  <1>. QED  BY <1>2, <1>3, <1>4 DEF OnSendGameMessage

\* A connection that is cut has nothing on the way.
LEMMA CutSound ==
    ASSUME IInv, \A d \in Clients : Sound(d), NEW c \in Clients, conn' = [conn EXCEPT ![c] = Cut(@)],
           UNCHANGED copy
    PROVE  \A d \in Clients : Sound(d)'
  <1>1. conn'[c] = Cut(conn[c]) /\ \A d \in Clients \ {c} : conn'[d] = conn[d]
    BY DEF IInv, Typed
  <1>2. conn[c] \in Conns
    BY DEF IInv, Typed
  <1>3. /\ conn'[c].toServer = <<>> /\ conn'[c].toClient = <<>> /\ conn'[c].queue = <<>>
        /\ conn'[c].alive = conn[c].alive
    <2>. DEFINE k == conn[c]
    <2>1. k \in Conns /\ conn'[c] = Cut(k)
      BY <1>1, <1>2
    <2>. HIDE DEF k
    <2>2. /\ Cut(k).toServer = <<>> /\ Cut(k).toClient = <<>> /\ Cut(k).queue = <<>>
          /\ Cut(k).alive = k.alive
      BY <2>1 DEF Cut, Conns
    <2>3. /\ conn'[c].toServer = <<>> /\ conn'[c].toClient = <<>> /\ conn'[c].queue = <<>>
          /\ conn'[c].alive = k.alive
      BY <2>1, <2>2
    <2>. QED  BY <2>3 DEF k
  <1>4. Sound(c)'
    BY <1>3, EmptySound DEF Sound, ToldIsSound
  <1>5. ASSUME NEW d \in Clients \ {c} PROVE Sound(d)'
    BY <1>1, SameSound
  <1>. QED  BY <1>4, <1>5

\* All of it: the first request of a client is served.
LEMMA ServeSound ==
    ASSUME IInv, IInv', OneForEachPower, \A d \in Clients : Sound(d), NEW c \in Clients, Serve(c),
           Rests \/ RecordsOwn
    PROVE  \A d \in Clients : Sound(d)'
  <1>. DEFINE q == Head(conn[c].toServer)
  <1>1. conn[c].toServer # <<>> /\ UNCHANGED <<copy, requests, breaks>>
    BY DEF Serve
  <1>2. CASE conn[c].holder = "old"
    <2>1. conn' = [conn EXCEPT ![c] = Cut(@)]
      BY <1>2 DEF Serve
    <2>. QED  BY <1>1, <2>1, CutSound
  <1>3. CASE conn[c].holder # "old"
    <2>1. \/ q.id = 0 /\ OnSynchronize(Taken(c), c, q.timestamp)
          \/ q.id # 0 /\ requests[q.id].kind = "orders" /\ OnSetOrders(Taken(c), c, q.id)
          \/ q.id # 0 /\ requests[q.id].kind = "message" /\ OnSendGameMessage(Taken(c), c, q.id)
      BY <1>3 DEF Serve, Taken
    <2>2. Accepts(c)
      BY <1>1, <1>3 DEF Accepts
    <2>3. q.id # 0 => q.id \in DOMAIN requests
      BY <1>1, FirstLemma
    <2>4. Larger
      <3>1. CASE Rests
        <4>1. Grows
          BY <3>1 DEF Rests, KeepsAll, Grows, IInv, Typed, Games
        <4>. QED  BY <4>1, LargerLemma DEF IInv
      <3>2. CASE RecordsOwn
        BY <1>1, <3>2, NewLemma, LargerLemma DEF RecordsOwn, IInv
      <3>. QED  BY <3>1, <3>2
    <2>5. CASE q.id = 0 /\ OnSynchronize(Taken(c), c, q.timestamp)
      BY <1>1, <2>2, <2>5, SynchronizeSound
    <2>6. CASE q.id # 0 /\ requests[q.id].kind = "orders" /\ OnSetOrders(Taken(c), c, q.id)
      <3>1. game'.clock = game.clock
        BY <2>6 DEF OnSetOrders, IInv, Typed, Games
      <3>2. requests[q.id].units \in SUBSET Units
        BY <2>3, <2>6 DEF IInv, Typed, Requests
      <3>. QED  BY <1>1, <2>2, <2>3, <2>4, <2>6, <3>1, <3>2, SetOrdersSound
    <2>7. CASE q.id # 0 /\ requests[q.id].kind = "message" /\ OnSendGameMessage(Taken(c), c, q.id)
      BY <1>1, <2>2, <2>4, <2>7, SendGameMessageSound
    <2>. QED  BY <2>1, <2>5, <2>6, <2>7
  <1>. QED  BY <1>2, <1>3

\* The task that sends the notes, and the notice of a break.
LEMMA SendNoteSound ==
    ASSUME IInv, \A d \in Clients : Sound(d), NEW c \in Clients, SendNote(c)
    PROVE  \A d \in Clients : Sound(d)'
  <1>1. /\ conn[c].queue # <<>> /\ UNCHANGED copy
        /\ conn'[c] = [conn[c] EXCEPT !.queue = Tail(@), !.toClient = Append(@, Head(conn[c].queue))]
        /\ \A d \in Clients \ {c} : conn'[d] = conn[d]
    BY DEF SendNote, IInv, Typed
  <1>2. conn[c] \in Conns
    BY DEF IInv, Typed
  <1>3. /\ conn'[c].toServer = conn[c].toServer /\ conn'[c].alive = conn[c].alive
        /\ conn'[c].toClient = Append(conn[c].toClient, Head(conn[c].queue))
        /\ conn'[c].queue = Tail(conn[c].queue)
    BY <1>1, <1>2 DEF Conns
  <1>4. SyncIsAlone(c)'
    <2>1. \A i \in DOMAIN conn[c].toServer : conn[c].toServer[i].id # 0
      BY <1>1 DEF Sound, SyncIsAlone
    <2>. QED  BY <1>3, <2>1 DEF SyncIsAlone
  <1>5. ToldIsSound(c)'
    <2>1. conn[c].toClient \in Seq(Items) /\ conn[c].queue \in Seq(Items)
      BY OnTheWayLemma DEF IInv
    <2>2. conn'[c].toClient \o conn'[c].queue = conn[c].toClient \o conn[c].queue
      <3>. DEFINE a == conn[c].toClient
                  b == conn[c].queue
      <3>1. a \in Seq(Items) /\ b \in Seq(Items) /\ b # <<>>
        BY <1>1, <2>1
      <3>2. conn'[c].toClient = Append(a, Head(b)) /\ conn'[c].queue = Tail(b)
        BY <1>3
      <3>. HIDE DEF a, b
      <3>3. Append(a, Head(b)) \o Tail(b) = a \o b
        BY <3>1, MoveFits
      <3>4. conn'[c].toClient \o conn'[c].queue = a \o b
        BY <3>2, <3>3
      <3>. QED  BY <3>4 DEF a, b
    <2>. QED  BY <1>1, <1>3, <2>2 DEF Sound, ToldIsSound
  <1>6. ASSUME NEW d \in Clients \ {c} PROVE Sound(d)'
    BY <1>1, SameSound
  <1>. QED  BY <1>4, <1>5, <1>6 DEF Sound

LEMMA OnCloseSound ==
    ASSUME IInv, \A d \in Clients : Sound(d), NEW c \in Clients, OnClose(c)
    PROVE  \A d \in Clients : Sound(d)'
  <1>1. /\ UNCHANGED copy /\ conn'[c] = [conn[c] EXCEPT !.holder = "none"]
        /\ \A d \in Clients \ {c} : conn'[d] = conn[d]
    BY DEF OnClose, IInv, Typed
  <1>2. conn[c] \in Conns
    BY DEF IInv, Typed
  <1>3. /\ conn'[c].toServer = conn[c].toServer /\ conn'[c].alive = conn[c].alive
        /\ conn'[c].toClient = conn[c].toClient /\ conn'[c].queue = conn[c].queue
        /\ conn'[c].ready = conn[c].ready /\ conn'[c].holder # "cur"
    BY <1>1, <1>2 DEF Conns
  <1>4. Sound(c)'
    BY <1>1, <1>3, SameSound
  <1>5. ASSUME NEW d \in Clients \ {c} PROVE Sound(d)'
    BY <1>1, SameSound
  <1>. QED  BY <1>4, <1>5

\* A request that is written finds no Synchronize before it: the connection is
\* ready.
LEMMA WrittenSound ==
    ASSUME IInv, \A d \in Clients : Sound(d), NEW c \in Clients, NEW i \in Nat \ {0},
           conn[c].ready, Written(c, i), UNCHANGED copy
    PROVE  \A d \in Clients : Sound(d)'
  <1>1. CASE ~conn[c].up
    <2>1. conn' = conn
      BY <1>1 DEF Written
    <2>. QED  BY <2>1, SameSound
  <1>2. CASE conn[c].up
    <2>. DEFINE q == [id |-> i, timestamp |-> 0]
    <2>0. q.id = i /\ i # 0
      OBVIOUS
    <2>1. /\ conn'[c] = [conn[c] EXCEPT !.toServer = Append(@, q)]
          /\ \A d \in Clients \ {c} : conn'[d] = conn[d]
      BY <1>2 DEF Written, IInv, Typed
    <2>. HIDE DEF q
    <2>2. conn[c] \in Conns
      BY DEF IInv, Typed
    <2>3. /\ conn'[c].toServer = Append(conn[c].toServer, q) /\ conn'[c].alive = conn[c].alive
          /\ conn'[c].toClient = conn[c].toClient /\ conn'[c].queue = conn[c].queue
      BY <2>1, <2>2 DEF Conns
    <2>4. SyncIsAlone(c)'
      <3>1. \A j \in DOMAIN conn[c].toServer : conn[c].toServer[j].id # 0
        BY DEF Sound, SyncIsAlone
      <3>2. conn[c].toServer \in Seq(Mails)
        BY <2>2 DEF Conns
      <3>3. \A j \in DOMAIN Append(conn[c].toServer, q) :
              \/ j \in DOMAIN conn[c].toServer /\ Append(conn[c].toServer, q)[j] = conn[c].toServer[j]
              \/ Append(conn[c].toServer, q)[j] = q
        BY <3>2
      <3>4. \A j \in DOMAIN conn'[c].toServer : conn'[c].toServer[j].id # 0
        BY <2>0, <2>3, <3>1, <3>3
      <3>. QED  BY <3>4 DEF SyncIsAlone
    <2>5. ToldIsSound(c)'
      BY <2>3 DEF Sound, ToldIsSound
    <2>6. ASSUME NEW d \in Clients \ {c} PROVE Sound(d)'
      BY <2>1, SameSound
    <2>. QED  BY <2>4, <2>5, <2>6 DEF Sound
  <1>. QED  BY <1>1, <1>2

\* Asking and writing.
LEMMA AskSound ==
    ASSUME IInv, \A d \in Clients : Sound(d), NEW c \in Clients, NEW kind, NEW to, NEW text, NEW units,
           Ask(c, kind, to, text, units)
    PROVE  \A d \in Clients : Sound(d)'
  <1>1. UNCHANGED copy
    BY DEF Ask
  <1>2. CASE conn[c].ready /\ Written(c, Len(requests) + 1)
    <2>1. Len(requests) + 1 \in Nat \ {0}
      BY DEF IInv, Typed
    <2>. QED  BY <1>1, <1>2, <2>1, WrittenSound
  <1>3. CASE UNCHANGED conn
    BY <1>1, <1>3, SameSound
  <1>. QED  BY <1>2, <1>3 DEF Ask

LEMMA WriteSound ==
    ASSUME IInv, \A d \in Clients : Sound(d), NEW c \in Clients, Write(c)
    PROVE  \A d \in Clients : Sound(d)'
  <1>1. PICK i \in Of(c) : conn[c].ready /\ Written(c, i) /\ UNCHANGED copy
    BY DEF Write
  <1>2. i \in Nat \ {0}
    BY DEF Of, IInv, Typed
  <1>. QED  BY <1>1, <1>2, WrittenSound

LEMMA BreakSound ==
    ASSUME IInv, \A d \in Clients : Sound(d), NEW c \in Clients, Break(c)
    PROVE  \A d \in Clients : Sound(d)'
  BY CutSound DEF Break

\* A new Synchronize has the broken connection to itself, with the latest time.
LEMMA ReconnectSound ==
    ASSUME IInv, \A d \in Clients : Sound(d), NEW c \in Clients, Reconnect(c)
    PROVE  \A d \in Clients : Sound(d)'
  <1>. DEFINE t == Latest(copy[c].history \cup copy[c].messages)
              q == [id |-> 0, timestamp |-> t]
  <1>1. /\ ~conn[c].up /\ UNCHANGED copy
        /\ conn'[c] = [conn[c] EXCEPT !.up = TRUE, !.ready = FALSE, !.toServer = <<q>>]
        /\ \A d \in Clients \ {c} : conn'[d] = conn[d]
    BY DEF Reconnect, IInv, Typed
  <1>2. \A h \in copy[c].history : h.time <= t
    <2>1. copy[c] \in Copies /\ game \in Games /\ game.clock \in Nat
      BY DEF IInv, Typed, Games
    <2>2. \A x \in copy[c].history \cup copy[c].messages : x.time \in 0 .. game.clock
      BY <2>1 DEF Copies, Games, Messages
    <2>. QED  BY <2>1, <2>2, LatestLemma
  <1>3. q.timestamp = t
    OBVIOUS
  <1>. HIDE DEF t, q
  <1>4. conn[c] \in Conns /\ Linked(c)
    BY DEF IInv, Typed
  <1>5. DOMAIN <<q>> = {1} /\ <<q>>[1] = q
    OBVIOUS
  <1>6. /\ conn'[c].toServer = <<q>> /\ conn'[c].alive = conn[c].alive
        /\ conn'[c].toClient = conn[c].toClient /\ conn'[c].queue = conn[c].queue
        /\ conn'[c].ready = FALSE /\ conn'[c].holder = conn[c].holder
    BY <1>1, <1>4 DEF Conns
  <1>7. conn[c].holder # "cur" /\ conn[c].toClient = <<>> /\ conn[c].queue = <<>>
    BY <1>1, <1>4 DEF Linked
  <1>8. SyncIsAlone(c)'
    BY <1>1, <1>2, <1>3, <1>5, <1>6, <1>7 DEF SyncIsAlone
  <1>9. ToldIsSound(c)'
    BY <1>1, <1>6 DEF Sound, ToldIsSound
  <1>10. ASSUME NEW d \in Clients \ {c} PROVE Sound(d)'
    BY <1>1, SameSound
  <1>. QED  BY <1>8, <1>9, <1>10 DEF Sound

\* What is first on the way is received, and the history becomes that of H.
LEMMA TakenSound ==
    ASSUME IInv, \A d \in Clients : Sound(d), NEW c \in Clients, conn[c].toClient # <<>>,
           NEW ready, Takes1(c, ready, TRUE),
           \A d \in Clients \ {c} : copy'[d] = copy[d],
           Fits(copy'[c].history, Tail(conn[c].toClient) \o conn[c].queue)
    PROVE  \A d \in Clients : Sound(d)'
  <1>1. /\ conn'[c] = [conn[c] EXCEPT !.toClient = Tail(@), !.ready = ready, !.alive = TRUE]
        /\ \A d \in Clients \ {c} : conn'[d] = conn[d]
        /\ conn[c] \in Conns
    BY DEF Takes1, IInv, Typed
  <1>2. /\ conn'[c].toServer = conn[c].toServer /\ conn'[c].alive
        /\ conn'[c].toClient = Tail(conn[c].toClient) /\ conn'[c].queue = conn[c].queue
    BY <1>1 DEF Conns
  <1>3. SyncIsAlone(c)'
    <2>1. \A i \in DOMAIN conn[c].toServer : conn[c].toServer[i].id # 0
      BY DEF Sound, SyncIsAlone
    <2>. QED  BY <1>2, <2>1 DEF SyncIsAlone
  <1>4. ToldIsSound(c)'
    BY <1>2 DEF ToldIsSound
  <1>5. ASSUME NEW d \in Clients \ {c} PROVE Sound(d)'
    BY <1>1, SameSound
  <1>. QED  BY <1>3, <1>4, <1>5 DEF Sound

\* A past that is received is new to the copy, so that no assertion fails.
LEMMA ReceiveSound ==
    ASSUME IInv, \A d \in Clients : Sound(d), NEW c \in Clients, Receive(c)
    PROVE  \A d \in Clients : Sound(d)'
  <1>. DEFINE n == Head(conn[c].toClient)
              k == [conn[c] EXCEPT !.toClient = Tail(@)]
              H == copy[c].history
              rest == Tail(conn[c].toClient) \o conn[c].queue
  <1>1. conn[c].alive /\ conn[c].toClient # <<>>
    BY DEF Receive
  <1>2. conn[c] \in Conns /\ copy \in [Clients -> Copies] /\ copy[c] \in Copies
    BY DEF IInv, Typed
  <1>3. conn[c].toClient \in Seq(Items) /\ conn[c].queue \in Seq(Items) /\ H \subseteq game.history
    BY OnTheWayLemma DEF IInv
  <1>4. /\ Fits(H, rest)
        /\ IsPast(n) => Fits(H \cup {n.past}, rest) /\ \A h \in H : h.time < n.past.time
    <2>1. Fits(H, conn[c].toClient \o conn[c].queue)
      BY DEF Sound, ToldIsSound
    <2>. QED  BY <1>1, <1>3, <2>1, TailFits
  <1>5. \/ n.kind = "response" /\ OnResponse(k, c, n)
        \/ n.kind = "synced" /\ SyncDone(k, c, n.phase)
        \/ n.kind \notin {"response", "synced"} /\ OnNotification(k, c, n)
    BY DEF Receive
  <1>6. /\ k = [conn[c] EXCEPT !.toClient = Tail(@), !.ready = conn[c].ready, !.alive = TRUE]
        /\ [k EXCEPT !.ready = TRUE] = [conn[c] EXCEPT !.toClient = Tail(@), !.ready = TRUE, !.alive = TRUE]
    BY <1>1, <1>2 DEF Conns
  <1>7. n.kind \notin {"response", "synced"} => n \in Notes
    BY <1>1, FirstItemLemma
  <1>. HIDE DEF n, k, rest
  <1>8. CASE n.kind = "response" /\ OnResponse(k, c, n)
    <2>1. Takes1(c, conn[c].ready, TRUE)
      BY <1>6, <1>8 DEF OnResponse, Takes1
    <2>2. copy'[c].history = H /\ \A d \in Clients \ {c} : copy'[d] = copy[d]
      BY <1>2, <1>8 DEF OnResponse, Copies
    <2>. QED  BY <1>1, <1>4, <2>1, <2>2, TakenSound DEF rest
  <1>9. CASE n.kind = "synced" /\ SyncDone(k, c, n.phase)
    <2>1. Takes1(c, TRUE, TRUE) /\ UNCHANGED copy
      BY <1>6, <1>9 DEF SyncDone, Takes1
    <2>. QED  BY <1>1, <1>4, <2>1, TakenSound DEF rest
  <1>10. CASE n.kind \notin {"response", "synced"} /\ OnNotification(k, c, n)
    <2>1. ~Fails(copy[c], n)
      <3>. SUFFICES ASSUME Fails(copy[c], n) PROVE FALSE
        OBVIOUS
      <3>1. PICK h \in H : IsPast(n) /\ h.phase = n.past.phase
        BY DEF Fails, IsPast
      <3>2. n.past \in game.history /\ h \in game.history
        BY <1>3, <1>7, <1>10, <3>1 DEF Notes, IsPast
      <3>3. n.past = h
        BY <3>1, <3>2 DEF IInv, PastIsSound
      <3>4. h.time < h.time /\ h.time \in Nat
        BY <1>4, <3>1, <3>2, <3>3 DEF IInv, Typed, Games
      <3>. QED  BY <3>4
    <2>2. /\ copy' = [copy EXCEPT ![c] = Handled(copy[c], n)]
          /\ conn' = [conn EXCEPT ![c] = k]
      BY <1>10, <2>1 DEF OnNotification
    <2>3. Takes1(c, conn[c].ready, TRUE)
      BY <1>6, <2>2 DEF Takes1
    <2>4. copy'[c] = Handled(copy[c], n) /\ \A d \in Clients \ {c} : copy'[d] = copy[d]
      BY <1>2, <2>2
    <2>5. Fits(Handled(copy[c], n).history, rest)
      <3>1. CASE n.kind = "message" \/ n.kind = "orders"
        <4>1. Handled(copy[c], n).history = H
          BY <1>2, <3>1 DEF Handled, Copies
        <4>. QED  BY <1>4, <4>1
      <3>2. CASE n.kind = "history"
        <4>1. Handled(copy[c], n).history = H \cup {n.past}
          BY <1>2, <3>2 DEF Handled, Copies
        <4>. QED  BY <1>4, <3>2, <4>1 DEF IsPast
      <3>3. CASE n.kind = "phase"
        <4>1. Handled(copy[c], n).history = {}
          BY <3>3 DEF Handled
        <4>. QED  BY <1>4, <4>1 DEF Fits
      <3>4. CASE n.kind = "processed"
        <4>1. Handled(copy[c], n).history = H \cup {n.past}
          BY <3>4 DEF Handled, Extend
        <4>. QED  BY <1>4, <3>4, <4>1 DEF IsPast
      <3>. QED  BY <1>7, <1>10, <3>1, <3>2, <3>3, <3>4 DEF Notes
    <2>. QED  BY <1>1, <2>3, <2>4, <2>5, TakenSound DEF rest
  <1>. QED  BY <1>5, <1>8, <1>9, <1>10

AllSound == \A c \in Clients : Sound(c)

\* At first nothing is on the way.
LEMMA InitSound == Init => AllSound
  <1>. SUFFICES ASSUME Init, NEW c \in Clients PROVE Sound(c)
    BY DEF AllSound
  <1>1. conn[c].toServer = <<>> /\ conn[c].toClient = <<>> /\ conn[c].queue = <<>> /\ conn[c].alive
    BY DEF Init
  <1>2. <<>> \o <<>> = <<>>
    OBVIOUS
  <1>3. Fits(copy[c].history, <<>>)
    BY DEF Fits
  <1>. QED  BY <1>1, <1>2, <1>3 DEF Sound, SyncIsAlone, ToldIsSound

\* Every step keeps this of every client.
LEMMA NextSound ==
    ASSUME OneForEachPower, IInv, IInv', AllSound, [Next]_vars, Rests \/ RecordsOwn \/ OtherSends \/ Process
    PROVE  AllSound'
  <1>. SUFFICES \A c \in Clients : Sound(c)'
    BY DEF AllSound
  <1>0. \A c \in Clients : Sound(c)
    BY DEF AllSound
  <1>1. CASE UNCHANGED vars
    BY <1>0, <1>1, SameSound DEF vars
  <1>2. CASE Process
    BY <1>0, <1>2, ProcessSound
  <1>3. CASE OtherSends
    BY <1>0, <1>3, OtherSendsSound
  <1>4. ASSUME NEW c \in Clients, SetOrders(c) \/ SendGameMessage(c)
        PROVE  \A d \in Clients : Sound(d)'
    BY <1>0, <1>4, AskSound DEF SetOrders, SendGameMessage
  <1>5. ASSUME NEW c \in Clients, Break(c) \/ Step(c), ~(Process \/ OtherSends)
        PROVE  \A d \in Clients : Sound(d)'
    <2>1. Rests \/ RecordsOwn
      BY <1>5
    <2>. QED  BY <1>0, <1>5, <2>1, BreakSound, ServeSound, SendNoteSound, OnCloseSound, WriteSound,
                 ReconnectSound, ReceiveSound DEF Step
  <1>. QED  BY <1>1, <1>2, <1>3, <1>4, <1>5 DEF Next

\* A copy holds only what the server has, once: a past phase is told after the
\* earlier ones, and never again to one who has it.  Two clients of one power
\* are told of each other's synchronizations, so that there each power has one.
THEOREM CopiesStaySound == ASSUME OneForEachPower PROVE Spec => []CopiesAreSound
  <1>1. Init => IInv /\ ClockIsBounded /\ AllSound
    BY InitIInv, InitClock, InitSound
  <1>2. (IInv /\ ClockIsBounded /\ AllSound) /\ [Next]_vars => (IInv /\ ClockIsBounded /\ AllSound)'
    BY NextIInv, NextClock, NextSound
  <1>3. IInv /\ ClockIsBounded /\ AllSound => CopiesAreSound
    BY TypeLemma DEF CopiesAreSound, HistoryOnce, AllSound, Sound, ToldIsSound
  <1>. QED  BY <1>1, <1>2, <1>3, PTL DEF Spec
=============================================================================
