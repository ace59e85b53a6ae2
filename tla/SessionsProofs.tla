---------------------------- MODULE SessionsProofs ----------------------------
(***************************************************************************)
(* Proofs about Sessions, for any users, tokens, connections, powers and   *)
(* grades: the tables of the Users object agree, a game addresses the      *)
(* right tokens, and a change of grade reaches every observer.             *)
(***************************************************************************)
EXTENDS Sessions, TLAPS

-----------------------------------------------------------------------------
(* Dictionaries. *)

LEMMA DictLemma ==
    ASSUME NEW K, NEW V, NEW f
    PROVE  f \in Dict(K, V) <=> DOMAIN f \subseteq K /\ f \in [DOMAIN f -> V]
  BY DEF Dict

LEMMA EmptyDictLemma ==
    ASSUME NEW K, NEW V
    PROVE  EmptyDict \in Dict(K, V) /\ DOMAIN EmptyDict = {}
  BY DictLemma DEF EmptyDict

LEMMA PutType ==
    ASSUME NEW K, NEW V, NEW d \in Dict(K, V), NEW k \in K, NEW v \in V
    PROVE  Put(d, k, v) \in Dict(K, V)
  <1>1. DOMAIN d \subseteq K /\ d \in [DOMAIN d -> V]
    BY DictLemma
  <1>2. /\ Put(d, k, v) \in [DOMAIN d \cup {k} -> V] /\ DOMAIN d \cup {k} \subseteq K
        /\ DOMAIN Put(d, k, v) = DOMAIN d \cup {k}
    BY <1>1 DEF Put
  <1>. QED  BY <1>2, DictLemma

LEMMA PopLemma ==
    ASSUME NEW d, NEW S
    PROVE  /\ DOMAIN Pop(d, S) = DOMAIN d \ S
           /\ \A x \in DOMAIN d \ S : Pop(d, S)[x] = d[x]
  BY DEF Pop, Restrict

LEMMA PopType ==
    ASSUME NEW K, NEW V, NEW d \in Dict(K, V), NEW S
    PROVE  Pop(d, S) \in Dict(K, V)
  <1>1. DOMAIN d \subseteq K /\ d \in [DOMAIN d -> V]
    BY DictLemma
  <1>2. Pop(d, S) \in [DOMAIN d \ S -> V] /\ DOMAIN Pop(d, S) = DOMAIN d \ S
    BY <1>1 DEF Pop, Restrict
  <1>. QED  BY <1>1, <1>2, DictLemma

\* A table of the keys T and its inverse.
Twins(T, K, table, sets) ==
    table \in Dict(T, K) /\ sets \in Dict(K, SUBSET T) /\ IsInverse(table, sets)

\* They stay so when a token is entered in both ...
LEMMA EnterLemma ==
    ASSUME NEW T, NEW K, NEW table, NEW sets, Twins(T, K, table, sets),
           NEW t \in T, t \notin DOMAIN table, NEW k \in K
    PROVE  /\ Twins(T, K, Put(table, t, k), Add(sets, k, t))
           /\ DOMAIN Add(sets, k, t) = DOMAIN sets \cup {k}
  <1>. DEFINE new == (IF k \in DOMAIN sets THEN sets[k] ELSE {}) \cup {t}
              a == Put(table, t, k)
              b == Put(sets, k, new)
  <1>0. table \in Dict(T, K) /\ sets \in Dict(K, SUBSET T) /\ IsInverse(table, sets)
    BY DEF Twins
  <1>1. DOMAIN sets \subseteq K /\ sets \in [DOMAIN sets -> SUBSET T]
    BY <1>0, DictLemma
  <1>2. new \in SUBSET T
    BY <1>1
  <1>. HIDE DEF new
  <1>3. /\ a \in Dict(T, K) /\ DOMAIN a = DOMAIN table \cup {t} /\ a[t] = k
        /\ \A x \in DOMAIN table : a[x] = table[x]
    <2>1. a \in Dict(T, K)
      BY <1>0, PutType
    <2>. QED  BY <2>1 DEF Put
  <1>4. /\ b \in Dict(K, SUBSET T) /\ DOMAIN b = DOMAIN sets \cup {k} /\ b[k] = new
        /\ \A x \in DOMAIN sets \ {k} : b[x] = sets[x]
    <2>1. b \in Dict(K, SUBSET T)
      BY <1>0, <1>2, PutType
    <2>. QED  BY <2>1 DEF Put
  <1>5. b = Add(sets, k, t)
    BY DEF new, Add
  <1>. HIDE DEF a, b
  <1>6. ASSUME NEW x \in DOMAIN b PROVE b[x] = {y \in DOMAIN a : a[y] = x} /\ b[x] # {}
    <2>1. CASE x = k
      BY <1>0, <1>3, <1>4, <2>1 DEF new, IsInverse
    <2>2. CASE x # k
      BY <1>0, <1>3, <1>4, <2>2 DEF IsInverse
    <2>. QED  BY <2>1, <2>2
  <1>7. \A y \in DOMAIN a : a[y] \in DOMAIN b
    BY <1>0, <1>3, <1>4 DEF IsInverse
  <1>8. IsInverse(a, b)
    BY <1>0, <1>6, <1>7 DEF IsInverse
  <1>. QED  BY <1>3, <1>4, <1>5, <1>8 DEF a, Twins

\* ... when one is taken out of both ...
LEMMA TakeOutLemma ==
    ASSUME NEW T, NEW K, NEW table, NEW sets, Twins(T, K, table, sets), NEW t \in DOMAIN table
    PROVE  /\ Twins(T, K, Pop(table, {t}), Drop(sets, table[t], t))
           /\ DOMAIN Drop(sets, table[t], t) \subseteq DOMAIN sets
  <1>. DEFINE k == table[t]
              a == Pop(table, {t})
              b == Drop(sets, k, t)
  <1>0. table \in Dict(T, K) /\ sets \in Dict(K, SUBSET T) /\ IsInverse(table, sets)
    BY DEF Twins
  <1>1. /\ DOMAIN sets \subseteq K /\ sets \in [DOMAIN sets -> SUBSET T]
        /\ DOMAIN table \subseteq T /\ table \in [DOMAIN table -> K]
    BY <1>0, DictLemma
  <1>2. k \in DOMAIN sets /\ t \in sets[k] /\ sets[k] \ {t} \in SUBSET T /\ k \in K
    BY <1>0, <1>1 DEF IsInverse
  <1>3. /\ a \in Dict(T, K) /\ DOMAIN a = DOMAIN table \ {t}
        /\ \A x \in DOMAIN table \ {t} : a[x] = table[x]
    BY <1>0, PopLemma, PopType
  <1>4. CASE sets[k] = {t}
    <2>1. /\ b \in Dict(K, SUBSET T) /\ DOMAIN b = DOMAIN sets \ {k}
          /\ \A x \in DOMAIN sets \ {k} : b[x] = sets[x]
      <3>1. b = Pop(sets, {k})
        BY <1>4 DEF Drop
      <3>2. Pop(sets, {k}) \in Dict(K, SUBSET T)
        BY <1>0, PopType
      <3>. HIDE DEF b
      <3>. QED  BY <3>1, <3>2, PopLemma
    <2>2. IsInverse(a, b)
      <3>. HIDE DEF a, b
      <3>1. \A x \in DOMAIN b : b[x] = {y \in DOMAIN a : a[y] = x} /\ b[x] # {}
        BY <1>0, <1>3, <2>1 DEF IsInverse, k
      <3>2. \A y \in DOMAIN a : a[y] \in DOMAIN b
        BY <1>0, <1>2, <1>3, <1>4, <2>1 DEF IsInverse
      <3>. QED  BY <3>1, <3>2 DEF IsInverse
    <2>. QED  BY <1>3, <2>1, <2>2 DEF Twins
  <1>5. CASE sets[k] # {t}
    <2>1. b = Put(sets, k, sets[k] \ {t})
      BY <1>5 DEF Drop
    <2>2. /\ b \in Dict(K, SUBSET T) /\ DOMAIN b = DOMAIN sets /\ b[k] = sets[k] \ {t}
          /\ \A x \in DOMAIN sets \ {k} : b[x] = sets[x]
      <3>1. Put(sets, k, sets[k] \ {t}) \in Dict(K, SUBSET T)
        BY <1>0, <1>2, PutType
      <3>. HIDE DEF b
      <3>. QED  BY <1>2, <2>1, <3>1 DEF Put
    <2>3. IsInverse(a, b)
      <3>1. sets[k] \ {t} # {}
        BY <1>2, <1>5
      <3>. HIDE DEF a, b
      <3>2. \A x \in DOMAIN b : b[x] = {y \in DOMAIN a : a[y] = x} /\ b[x] # {}
        <4>. SUFFICES ASSUME NEW x \in DOMAIN b
                      PROVE  b[x] = {y \in DOMAIN a : a[y] = x} /\ b[x] # {}
          OBVIOUS
        <4>1. CASE x = k
          BY <1>0, <1>2, <1>3, <2>2, <3>1, <4>1 DEF IsInverse
        <4>2. CASE x # k
          BY <1>0, <1>3, <2>2, <4>2 DEF IsInverse, k
        <4>. QED  BY <4>1, <4>2
      <3>3. \A y \in DOMAIN a : a[y] \in DOMAIN b
        BY <1>0, <1>3, <2>2 DEF IsInverse
      <3>. QED  BY <3>2, <3>3 DEF IsInverse
    <2>. QED  BY <1>3, <2>2, <2>3 DEF Twins
  <1>. QED  BY <1>4, <1>5

\* ... and when a key is removed with all that is under it.
LEMMA RemoveKeyLemma ==
    ASSUME NEW T, NEW K, NEW table, NEW sets, Twins(T, K, table, sets), NEW k \in DOMAIN sets
    PROVE  /\ Twins(T, K, Pop(table, sets[k]), Pop(sets, {k}))
           /\ DOMAIN Pop(sets, {k}) = DOMAIN sets \ {k}
  <1>. DEFINE a == Pop(table, sets[k])
              b == Pop(sets, {k})
  <1>0. table \in Dict(T, K) /\ sets \in Dict(K, SUBSET T) /\ IsInverse(table, sets)
    BY DEF Twins
  <1>1. /\ a \in Dict(T, K) /\ DOMAIN a = DOMAIN table \ sets[k]
        /\ \A x \in DOMAIN table \ sets[k] : a[x] = table[x]
    BY <1>0, PopLemma, PopType
  <1>2. /\ b \in Dict(K, SUBSET T) /\ DOMAIN b = DOMAIN sets \ {k}
        /\ \A x \in DOMAIN sets \ {k} : b[x] = sets[x]
    BY <1>0, PopLemma, PopType
  <1>. HIDE DEF a, b
  <1>3. sets[k] = {y \in DOMAIN table : table[y] = k}
    BY <1>0 DEF IsInverse
  <1>4. \A x \in DOMAIN b : b[x] = {y \in DOMAIN a : a[y] = x} /\ b[x] # {}
    BY <1>0, <1>1, <1>2, <1>3 DEF IsInverse
  <1>5. \A y \in DOMAIN a : a[y] \in DOMAIN b
    BY <1>0, <1>1, <1>2, <1>3 DEF IsInverse
  <1>6. IsInverse(a, b)
    BY <1>0, <1>4, <1>5 DEF IsInverse
  <1>. QED  BY <1>1, <1>2, <1>6 DEF a, Twins, b

\* The same for tokens S that are removed from all the sets that have them.
LEMMA RemoveAllLemma ==
    ASSUME NEW T, NEW K, NEW table, NEW sets, Twins(T, K, table, sets), NEW S
    PROVE  LET left == {k \in DOMAIN sets : ~(sets[k] \subseteq S)}
               rest == [k \in left |-> sets[k] \ S]
           IN  /\ Twins(T, K, Pop(table, S), rest)
               /\ DOMAIN rest \subseteq DOMAIN sets
  <1>. DEFINE left == {k \in DOMAIN sets : ~(sets[k] \subseteq S)}
              b == [k \in left |-> sets[k] \ S]
              a == Pop(table, S)
  <1>0. table \in Dict(T, K) /\ sets \in Dict(K, SUBSET T) /\ IsInverse(table, sets)
    BY DEF Twins
  <1>1. DOMAIN sets \subseteq K /\ sets \in [DOMAIN sets -> SUBSET T]
    BY <1>0, DictLemma
  <1>2. /\ a \in Dict(T, K) /\ DOMAIN a = DOMAIN table \ S
        /\ \A x \in DOMAIN table \ S : a[x] = table[x]
    BY <1>0, PopLemma, PopType
  <1>3. DOMAIN b = left /\ left \subseteq DOMAIN sets /\ \A k \in left : b[k] = sets[k] \ S
    OBVIOUS
  <1>4. b \in Dict(K, SUBSET T)
    <2>1. b \in [left -> SUBSET T] /\ left \subseteq K
      BY <1>1
    <2>. QED  BY <2>1, <1>3, DictLemma
  <1>. HIDE DEF a
  <1>5. IsInverse(a, b)
    <2>1. ASSUME NEW k \in left PROVE b[k] = {y \in DOMAIN a : a[y] = k} /\ b[k] # {}
      <3>1. sets[k] = {y \in DOMAIN table : table[y] = k}
        BY <1>0 DEF IsInverse
      <3>2. sets[k] \ S = {y \in DOMAIN a : a[y] = k}
        BY <1>2, <3>1
      <3>. QED  BY <1>3, <3>2
    <2>2. ASSUME NEW y \in DOMAIN a PROVE a[y] \in left
      BY <1>0, <1>2 DEF IsInverse
    <2>. HIDE DEF b, left
    <2>. QED  BY <1>3, <2>1, <2>2 DEF IsInverse
  <1>. QED  BY <1>2, <1>3, <1>4, <1>5 DEF a, Twins

-----------------------------------------------------------------------------
(* The methods of Users. *)

UsersRecord ==
    [users : SUBSET Users, administrators : SUBSET Users, timestamps : SUBSET Tokens,
     token_to_username : Dict(Tokens, Users), username_to_tokens : Dict(Users, SUBSET Tokens),
     token_to_handler : Dict(Tokens, Handlers), handler_to_tokens : Dict(Handlers, SUBSET Tokens)]

SoundUsers(U) == U \in UsersRecord /\ U.administrators \subseteq U.users /\ Agree(U)

\* The tables that are written on the disk with the accounts.
SameTokens(U, V) ==
    /\ U.timestamps = V.timestamps
    /\ U.token_to_username = V.token_to_username
    /\ U.username_to_tokens = V.username_to_tokens

LEMMA NoUsersLemma == SoundUsers(NoUsers) /\ Known(NoUsers) = {} /\ SameTokens(NoUsers, NoUsers)
  <1>1. NoUsers \in UsersRecord
    BY EmptyDictLemma DEF NoUsers, UsersRecord
  <1>2. Agree(NoUsers) /\ Known(NoUsers) = {}
    BY DEF Agree, IsInverse, NoUsers, EmptyDict, Known
  <1>. QED  BY <1>1, <1>2 DEF SoundUsers, NoUsers, SameTokens

\* U is a record with the fields of Users, whatever they hold.
IsShaped(U) ==
    U = [users |-> U.users, administrators |-> U.administrators,
         timestamps |-> U.timestamps,
         token_to_username |-> U.token_to_username, username_to_tokens |-> U.username_to_tokens,
         token_to_handler |-> U.token_to_handler, handler_to_tokens |-> U.handler_to_tokens]

\* What a sound record of users says, for the steps that need it.
LEMMA SoundUsersLemma ==
    ASSUME NEW U, SoundUsers(U)
    PROVE  /\ IsShaped(U)
           /\ U.users \subseteq Users /\ U.administrators \subseteq U.users
           /\ U.timestamps = Known(U) /\ Known(U) \subseteq Tokens
           /\ Twins(Tokens, Users, U.token_to_username, U.username_to_tokens)
           /\ Twins(Tokens, Handlers, U.token_to_handler, U.handler_to_tokens)
           /\ DOMAIN U.token_to_handler \subseteq Known(U)
           /\ DOMAIN U.username_to_tokens \subseteq U.users
           /\ \A t \in Known(U) : U.token_to_username[t] \in U.users
  <1>1. U \in UsersRecord /\ Agree(U) /\ U.administrators \subseteq U.users
    BY DEF SoundUsers
  <1>2. DOMAIN U.username_to_tokens \subseteq U.users /\ IsInverse(U.token_to_username, U.username_to_tokens)
    BY <1>1 DEF Agree
  <1>3. \A t \in Known(U) : U.token_to_username[t] \in U.users
    BY <1>2 DEF IsInverse, Known
  <1>4. U.token_to_username \in Dict(Tokens, Users)
    BY <1>1 DEF UsersRecord
  <1>5. Known(U) \subseteq Tokens
    BY <1>4, DictLemma DEF Known
  <1>6. IsShaped(U)
    BY <1>1 DEF UsersRecord, IsShaped
  <1>. QED  BY <1>1, <1>2, <1>3, <1>5, <1>6 DEF UsersRecord, Agree, Twins

\* And what makes one.
LEMMA MakeUsersLemma ==
    ASSUME NEW V, IsShaped(V),
           V.users \subseteq Users, V.administrators \subseteq V.users, V.timestamps = Known(V),
           Twins(Tokens, Users, V.token_to_username, V.username_to_tokens),
           Twins(Tokens, Handlers, V.token_to_handler, V.handler_to_tokens),
           DOMAIN V.token_to_handler \subseteq Known(V),
           DOMAIN V.username_to_tokens \subseteq V.users
    PROVE  SoundUsers(V)
  <1>1. Known(V) \subseteq Tokens
    BY DictLemma DEF Known, Twins
  <1>2. V \in UsersRecord
    BY <1>1 DEF UsersRecord, IsShaped, Twins
  <1>. QED  BY <1>2 DEF SoundUsers, Agree, Twins

LEMMA ConnectUserLemma ==
    ASSUME NEW U, SoundUsers(U), NEW u \in U.users, NEW h \in Handlers,
           NEW t \in Tokens, t \notin Known(U)
    PROVE  LET C == ConnectUser(U, u, h, t)
           IN  /\ SoundUsers(C) /\ C.users = U.users /\ C.administrators = U.administrators
               /\ Known(C) = Known(U) \cup {t}
               /\ \A x \in Known(U) : C.token_to_username[x] = U.token_to_username[x]
               /\ DOMAIN C.handler_to_tokens \subseteq DOMAIN U.handler_to_tokens \cup {h}
  <1>. DEFINE C == ConnectUser(U, u, h, t)
              names == Put(U.token_to_username, t, u)
              ofname == Add(U.username_to_tokens, u, t)
              handlers == Put(U.token_to_handler, t, h)
              ofhandler == Add(U.handler_to_tokens, h, t)
  <1>1. /\ IsShaped(C)
        /\ C.users = U.users /\ C.administrators = U.administrators
        /\ C.timestamps = U.timestamps \cup {t}
        /\ C.token_to_username = names /\ C.username_to_tokens = ofname
        /\ C.token_to_handler = handlers /\ C.handler_to_tokens = ofhandler
    <2>1. IsShaped(U)
      BY SoundUsersLemma
    <2>. HIDE DEF names, ofname, handlers, ofhandler
    <2>2. C = [U EXCEPT !.timestamps = @ \cup {t},
                        !.token_to_username = names, !.username_to_tokens = ofname,
                        !.token_to_handler = handlers, !.handler_to_tokens = ofhandler]
      BY DEF ConnectUser, names, ofname, handlers, ofhandler
    <2>. HIDE DEF C
    <2>. QED  BY <2>1, <2>2 DEF IsShaped
  <1>2. /\ U.users \subseteq Users /\ U.administrators \subseteq U.users
        /\ U.timestamps = Known(U)
        /\ DOMAIN U.token_to_handler \subseteq Known(U)
        /\ DOMAIN U.username_to_tokens \subseteq U.users
    BY SoundUsersLemma
  <1>3. Twins(Tokens, Users, names, ofname) /\ DOMAIN ofname = DOMAIN U.username_to_tokens \cup {u}
    <2>1. /\ Twins(Tokens, Users, U.token_to_username, U.username_to_tokens)
          /\ t \notin DOMAIN U.token_to_username /\ u \in Users
      BY <1>2, SoundUsersLemma DEF Known
    <2>. QED  BY <2>1, EnterLemma
  <1>4. /\ Twins(Tokens, Handlers, handlers, ofhandler)
        /\ DOMAIN ofhandler = DOMAIN U.handler_to_tokens \cup {h}
    <2>1. /\ Twins(Tokens, Handlers, U.token_to_handler, U.handler_to_tokens)
          /\ t \notin DOMAIN U.token_to_handler
      BY <1>2, SoundUsersLemma
    <2>. QED  BY <2>1, EnterLemma
  <1>5. /\ DOMAIN names = Known(U) \cup {t}
        /\ \A x \in Known(U) : names[x] = U.token_to_username[x]
        /\ DOMAIN handlers = DOMAIN U.token_to_handler \cup {t}
    BY DEF Put, Known
  <1>. HIDE DEF C, names, ofname, handlers, ofhandler
  <1>6. SoundUsers(C)
    <2>1. /\ C.users \subseteq Users /\ C.administrators \subseteq C.users
          /\ C.timestamps = Known(C)
          /\ DOMAIN C.token_to_handler \subseteq Known(C)
          /\ DOMAIN C.username_to_tokens \subseteq C.users
      BY <1>1, <1>2, <1>3, <1>5 DEF Known
    <2>. QED  BY <2>1, <1>1, <1>3, <1>4, MakeUsersLemma
  <1>. QED  BY <1>1, <1>4, <1>5, <1>6 DEF C, Known

LEMMA AttachLemma ==
    ASSUME NEW U, SoundUsers(U), NEW h \in Handlers, NEW t \in Known(U)
    PROVE  LET A == AttachHandler(U, t, h)
           IN  /\ SoundUsers(A) /\ SameTokens(A, U) /\ Known(A) = Known(U)
               /\ A.users = U.users /\ A.administrators = U.administrators
               /\ DOMAIN A.handler_to_tokens \subseteq DOMAIN U.handler_to_tokens \cup {h}
  <1>. DEFINE A == AttachHandler(U, t, h)
              handlers == Put(U.token_to_handler, t, h)
              ofhandler == Add(U.handler_to_tokens, h, t)
  <1>1. CASE t \in DOMAIN U.token_to_handler
    BY <1>1 DEF AttachHandler, SameTokens
  <1>2. CASE t \notin DOMAIN U.token_to_handler
    <2>1. /\ IsShaped(A) /\ SameTokens(A, U)
          /\ A.users = U.users /\ A.administrators = U.administrators
          /\ A.token_to_handler = handlers /\ A.handler_to_tokens = ofhandler
      <3>1. IsShaped(U)
        BY SoundUsersLemma
      <3>. HIDE DEF handlers, ofhandler
      <3>2. A = [U EXCEPT !.token_to_handler = handlers, !.handler_to_tokens = ofhandler]
        BY <1>2 DEF AttachHandler, handlers, ofhandler
      <3>. HIDE DEF A
      <3>. QED  BY <3>1, <3>2 DEF IsShaped, SameTokens
    <2>2. /\ Twins(Tokens, Handlers, handlers, ofhandler)
          /\ DOMAIN ofhandler = DOMAIN U.handler_to_tokens \cup {h}
      <3>1. Twins(Tokens, Handlers, U.token_to_handler, U.handler_to_tokens) /\ t \in Tokens
        BY SoundUsersLemma
      <3>. QED  BY <1>2, <3>1, EnterLemma
    <2>3. DOMAIN handlers = DOMAIN U.token_to_handler \cup {t}
      BY DEF Put
    <2>. HIDE DEF A, handlers, ofhandler
    <2>4. Known(A) = Known(U)
      BY <2>1 DEF SameTokens, Known
    <2>5. /\ A.users \subseteq Users /\ A.administrators \subseteq A.users
          /\ A.timestamps = Known(A)
          /\ Twins(Tokens, Users, A.token_to_username, A.username_to_tokens)
          /\ Twins(Tokens, Handlers, A.token_to_handler, A.handler_to_tokens)
          /\ DOMAIN A.token_to_handler \subseteq Known(A)
          /\ DOMAIN A.username_to_tokens \subseteq A.users
      BY <2>1, <2>2, <2>3, <2>4, SoundUsersLemma DEF SameTokens
    <2>6. SoundUsers(A)
      BY <2>1, <2>5, MakeUsersLemma
    <2>. QED  BY <2>1, <2>2, <2>4, <2>6 DEF A
  <1>. QED  BY <1>1, <1>2

LEMMA DisconnectTokenLemma ==
    ASSUME NEW U, SoundUsers(U), NEW t \in Known(U)
    PROVE  LET D == DisconnectToken(U, t)
           IN  /\ SoundUsers(D) /\ D.users = U.users /\ D.administrators = U.administrators
               /\ Known(D) = Known(U) \ {t}
               /\ \A x \in Known(D) : D.token_to_username[x] = U.token_to_username[x]
               /\ DOMAIN D.handler_to_tokens \subseteq DOMAIN U.handler_to_tokens
  <1>. DEFINE D == DisconnectToken(U, t)
              names == Pop(U.token_to_username, {t})
              ofname == Drop(U.username_to_tokens, U.token_to_username[t], t)
              handlers == Pop(U.token_to_handler, {t})
              ofhandler == IF t \in DOMAIN U.token_to_handler
                           THEN Drop(U.handler_to_tokens, U.token_to_handler[t], t)
                           ELSE U.handler_to_tokens
  <1>1. /\ IsShaped(D)
        /\ D.users = U.users /\ D.administrators = U.administrators
        /\ D.timestamps = U.timestamps \ {t}
        /\ D.token_to_username = names /\ D.username_to_tokens = ofname
        /\ D.token_to_handler = handlers /\ D.handler_to_tokens = ofhandler
    <2>1. IsShaped(U)
      BY SoundUsersLemma
    <2>. HIDE DEF names, ofname, handlers, ofhandler
    <2>2. D = [U EXCEPT !.timestamps = @ \ {t},
                        !.token_to_username = names, !.username_to_tokens = ofname,
                        !.token_to_handler = handlers, !.handler_to_tokens = ofhandler]
      BY DEF DisconnectToken, names, ofname, handlers, ofhandler
    <2>. HIDE DEF D
    <2>. QED  BY <2>1, <2>2 DEF IsShaped
  <1>2. /\ U.users \subseteq Users /\ U.administrators \subseteq U.users
        /\ U.timestamps = Known(U)
        /\ DOMAIN U.token_to_handler \subseteq Known(U)
        /\ DOMAIN U.username_to_tokens \subseteq U.users
        /\ Twins(Tokens, Users, U.token_to_username, U.username_to_tokens)
        /\ Twins(Tokens, Handlers, U.token_to_handler, U.handler_to_tokens)
    BY SoundUsersLemma
  <1>3. Twins(Tokens, Users, names, ofname) /\ DOMAIN ofname \subseteq DOMAIN U.username_to_tokens
    <2>1. t \in DOMAIN U.token_to_username
      BY DEF Known
    <2>. QED  BY <2>1, <1>2, TakeOutLemma
  <1>4. /\ Twins(Tokens, Handlers, handlers, ofhandler)
        /\ DOMAIN ofhandler \subseteq DOMAIN U.handler_to_tokens
    <2>1. CASE t \in DOMAIN U.token_to_handler
      BY <2>1, <1>2, TakeOutLemma
    <2>2. CASE t \notin DOMAIN U.token_to_handler
      <3>1. handlers = U.token_to_handler
        <4>1. U.token_to_handler \in Dict(Tokens, Handlers)
          BY <1>2 DEF Twins
        <4>2. U.token_to_handler \in [DOMAIN U.token_to_handler -> Handlers]
          BY <4>1, DictLemma
        <4>. QED  BY <2>2, <4>2 DEF Pop, Restrict
      <3>. HIDE DEF handlers
      <3>. QED  BY <2>2, <3>1, <1>2
    <2>. QED  BY <2>1, <2>2
  <1>5. /\ DOMAIN names = Known(U) \ {t}
        /\ \A x \in Known(U) \ {t} : names[x] = U.token_to_username[x]
        /\ DOMAIN handlers = DOMAIN U.token_to_handler \ {t}
    BY PopLemma DEF Known
  <1>. HIDE DEF D, names, ofname, handlers, ofhandler
  <1>6. SoundUsers(D)
    <2>1. /\ D.users \subseteq Users /\ D.administrators \subseteq D.users
          /\ D.timestamps = Known(D)
          /\ DOMAIN D.token_to_handler \subseteq Known(D)
          /\ DOMAIN D.username_to_tokens \subseteq D.users
      BY <1>1, <1>2, <1>3, <1>5 DEF Known
    <2>. QED  BY <2>1, <1>1, <1>3, <1>4, MakeUsersLemma
  <1>. QED  BY <1>1, <1>4, <1>5, <1>6 DEF D, Known

LEMMA RemoveConnectionLemma ==
    ASSUME NEW U, SoundUsers(U), NEW h
    PROVE  LET R == RemoveConnection(U, h)
           IN  /\ SoundUsers(R) /\ SameTokens(R, U) /\ Known(R) = Known(U)
               /\ R.users = U.users /\ R.administrators = U.administrators
               /\ DOMAIN R.handler_to_tokens = DOMAIN U.handler_to_tokens \ {h}
  <1>. DEFINE R == RemoveConnection(U, h)
              handlers == Pop(U.token_to_handler, U.handler_to_tokens[h])
              ofhandler == Pop(U.handler_to_tokens, {h})
  <1>1. CASE h \notin DOMAIN U.handler_to_tokens
    BY <1>1 DEF RemoveConnection, SameTokens
  <1>2. CASE h \in DOMAIN U.handler_to_tokens
    <2>1. /\ IsShaped(R) /\ SameTokens(R, U)
          /\ R.users = U.users /\ R.administrators = U.administrators
          /\ R.token_to_handler = handlers /\ R.handler_to_tokens = ofhandler
      <3>1. IsShaped(U)
        BY SoundUsersLemma
      <3>. HIDE DEF handlers, ofhandler
      <3>2. R = [U EXCEPT !.token_to_handler = handlers, !.handler_to_tokens = ofhandler]
        BY <1>2 DEF RemoveConnection, handlers, ofhandler
      <3>. HIDE DEF R
      <3>. QED  BY <3>1, <3>2 DEF IsShaped, SameTokens
    <2>2. /\ Twins(Tokens, Handlers, handlers, ofhandler)
          /\ DOMAIN ofhandler = DOMAIN U.handler_to_tokens \ {h}
      <3>1. Twins(Tokens, Handlers, U.token_to_handler, U.handler_to_tokens)
        BY SoundUsersLemma
      <3>2. PICK table, sets : table = U.token_to_handler /\ sets = U.handler_to_tokens
        OBVIOUS
      <3>3. Twins(Tokens, Handlers, table, sets) /\ h \in DOMAIN sets
        BY ONLY <1>2, <3>1, <3>2
      <3>4. /\ Twins(Tokens, Handlers, Pop(table, sets[h]), Pop(sets, {h}))
            /\ DOMAIN Pop(sets, {h}) = DOMAIN sets \ {h}
        BY ONLY <3>3, RemoveKeyLemma
      <3>. QED  BY ONLY <3>2, <3>4, Zenon
    <2>3. DOMAIN handlers \subseteq DOMAIN U.token_to_handler
      BY DEF Pop, Restrict
    <2>. HIDE DEF R, handlers, ofhandler
    <2>4. Known(R) = Known(U)
      BY <2>1 DEF SameTokens, Known
    <2>5. /\ R.users \subseteq Users /\ R.administrators \subseteq R.users
          /\ R.timestamps = Known(R)
          /\ Twins(Tokens, Users, R.token_to_username, R.username_to_tokens)
          /\ Twins(Tokens, Handlers, R.token_to_handler, R.handler_to_tokens)
          /\ DOMAIN R.token_to_handler \subseteq Known(R)
          /\ DOMAIN R.username_to_tokens \subseteq R.users
      BY <2>1, <2>2, <2>3, <2>4, SoundUsersLemma DEF SameTokens
    <2>6. SoundUsers(R)
      BY <2>1, <2>5, MakeUsersLemma
    <2>. QED  BY <2>1, <2>2, <2>4, <2>6 DEF R
  <1>. QED  BY <1>1, <1>2

\* The tokens of an account are those that have its name.
LEMMA TokensOfLemma ==
    ASSUME NEW U, SoundUsers(U), NEW u
    PROVE  TokensOf(U, u) = {t \in Known(U) : U.token_to_username[t] = u}
  <1>1. IsInverse(U.token_to_username, U.username_to_tokens)
    BY SoundUsersLemma DEF Twins
  <1>2. CASE u \in DOMAIN U.username_to_tokens
    BY <1>1, <1>2 DEF IsInverse, TokensOf, Known
  <1>3. CASE u \notin DOMAIN U.username_to_tokens
    BY <1>1, <1>3 DEF IsInverse, TokensOf, Known
  <1>. QED  BY <1>2, <1>3

\* V is U with other accounts.
OtherAccounts(V, U) ==
    /\ IsShaped(V) /\ SameTokens(V, U)
    /\ V.token_to_handler = U.token_to_handler
    /\ V.handler_to_tokens = U.handler_to_tokens

\* Accounts may come and go as long as those with tokens stay.
LEMMA AccountsLemma ==
    ASSUME NEW U, SoundUsers(U), NEW V, OtherAccounts(V, U),
           V.users \subseteq Users, V.administrators \subseteq V.users,
           \A t \in Known(U) : U.token_to_username[t] \in V.users
    PROVE  SoundUsers(V) /\ SameTokens(V, U) /\ Known(V) = Known(U)
  <1>1. SameTokens(V, U) /\ Known(V) = Known(U)
    BY DEF OtherAccounts, SameTokens, Known
  <1>2. DOMAIN U.username_to_tokens \subseteq V.users
    <2>1. IsInverse(U.token_to_username, U.username_to_tokens)
      BY SoundUsersLemma DEF Twins
    <2>. QED  BY <2>1 DEF IsInverse, Known
  <1>3. /\ V.timestamps = Known(V)
        /\ Twins(Tokens, Users, V.token_to_username, V.username_to_tokens)
        /\ Twins(Tokens, Handlers, V.token_to_handler, V.handler_to_tokens)
        /\ DOMAIN V.token_to_handler \subseteq Known(V)
        /\ DOMAIN V.username_to_tokens \subseteq V.users
    BY <1>1, <1>2, SoundUsersLemma DEF OtherAccounts, SameTokens
  <1>4. SoundUsers(V)
    BY <1>3, MakeUsersLemma DEF OtherAccounts
  <1>. QED  BY <1>1, <1>4

LEMMA RemoveUserLemma ==
    ASSUME NEW U, SoundUsers(U), NEW u, TokensOf(U, u) # {}
    PROVE  LET R == RemoveUser(U, u)
           IN  /\ SoundUsers(R)
               /\ R.users = U.users \ {u} /\ R.administrators = U.administrators \ {u}
               /\ Known(R) = Known(U) \ TokensOf(U, u)
               /\ \A x \in Known(R) : R.token_to_username[x] = U.token_to_username[x]
               /\ DOMAIN R.handler_to_tokens \subseteq DOMAIN U.handler_to_tokens
  <1>. DEFINE R == RemoveUser(U, u)
              gone == TokensOf(U, u)
              left == {h \in DOMAIN U.handler_to_tokens : ~(U.handler_to_tokens[h] \subseteq gone)}
              names == Pop(U.token_to_username, gone)
              ofname == Pop(U.username_to_tokens, {u})
              handlers == Pop(U.token_to_handler, gone)
              ofhandler == [h \in left |-> U.handler_to_tokens[h] \ gone]
  <1>1. /\ IsShaped(R)
        /\ R.users = U.users \ {u} /\ R.administrators = U.administrators \ {u}
        /\ R.timestamps = U.timestamps \ gone
        /\ R.token_to_username = names /\ R.username_to_tokens = ofname
        /\ R.token_to_handler = handlers /\ R.handler_to_tokens = ofhandler
    <2>1. IsShaped(U)
      BY SoundUsersLemma
    <2>. DEFINE B == RemoveAccount(U, u)
    <2>2. /\ IsShaped(B) /\ SameTokens(B, U)
          /\ B.users = U.users \ {u} /\ B.administrators = U.administrators \ {u}
          /\ B.token_to_handler = U.token_to_handler
          /\ B.handler_to_tokens = U.handler_to_tokens
      <3>1. B = [U EXCEPT !.users = @ \ {u}, !.administrators = @ \ {u}]
        BY DEF RemoveAccount
      <3>. HIDE DEF B
      <3>. QED  BY <2>1, <3>1 DEF IsShaped, SameTokens
    <2>. HIDE DEF B
    <2>3. R = [B EXCEPT !.timestamps = U.timestamps \ gone, !.token_to_username = names,
                        !.username_to_tokens = ofname, !.token_to_handler = handlers,
                        !.handler_to_tokens = ofhandler]
      <3>1. R = [B EXCEPT !.timestamps = B.timestamps \ gone,
                          !.token_to_username = Pop(B.token_to_username, gone),
                          !.username_to_tokens = Pop(B.username_to_tokens, {u}),
                          !.token_to_handler = Pop(B.token_to_handler, gone),
                          !.handler_to_tokens = [h \in left |-> B.handler_to_tokens[h] \ gone]]
        BY DEF RemoveUser, B
      <3>. HIDE DEF R, gone, left
      <3>. QED  BY <2>2, <3>1 DEF SameTokens
    <2>. HIDE DEF R, names, ofname, handlers, ofhandler, gone
    <2>. QED  BY <2>2, <2>3 DEF IsShaped
  <1>2. /\ U.users \subseteq Users /\ U.administrators \subseteq U.users
        /\ U.timestamps = Known(U)
        /\ DOMAIN U.token_to_handler \subseteq Known(U)
        /\ DOMAIN U.username_to_tokens \subseteq U.users
        /\ Twins(Tokens, Users, U.token_to_username, U.username_to_tokens)
        /\ Twins(Tokens, Handlers, U.token_to_handler, U.handler_to_tokens)
    BY SoundUsersLemma
  <1>3. /\ Twins(Tokens, Users, names, ofname)
        /\ DOMAIN ofname = DOMAIN U.username_to_tokens \ {u}
    <2>1. u \in DOMAIN U.username_to_tokens /\ gone = U.username_to_tokens[u]
      BY DEF TokensOf
    <2>. HIDE DEF gone
    <2>. QED  BY <2>1, <1>2, RemoveKeyLemma
  <1>4. /\ Twins(Tokens, Handlers, handlers, ofhandler)
        /\ DOMAIN ofhandler \subseteq DOMAIN U.handler_to_tokens
    BY <1>2, RemoveAllLemma
  <1>5. /\ DOMAIN names = Known(U) \ gone
        /\ \A x \in Known(U) \ gone : names[x] = U.token_to_username[x]
        /\ DOMAIN handlers = DOMAIN U.token_to_handler \ gone
    BY PopLemma DEF Known
  <1>. HIDE DEF R, names, ofname, handlers, ofhandler, gone
  <1>6. SoundUsers(R)
    <2>1. /\ R.users \subseteq Users /\ R.administrators \subseteq R.users
          /\ R.timestamps = Known(R)
          /\ DOMAIN R.token_to_handler \subseteq Known(R)
          /\ DOMAIN R.username_to_tokens \subseteq R.users
      BY <1>1, <1>2, <1>3, <1>5 DEF Known
    <2>. QED  BY <2>1, <1>1, <1>3, <1>4, MakeUsersLemma
  <1>. QED  BY <1>1, <1>4, <1>5, <1>6 DEF R, Known, gone

\* Connections are not written on the disk.
Unconnected(U) == U.token_to_handler = EmptyDict /\ U.handler_to_tokens = EmptyDict

LEMMA PersistentLemma ==
    ASSUME NEW U, SoundUsers(U)
    PROVE  LET P == Persistent(U)
           IN  /\ SoundUsers(P) /\ SameTokens(P, U) /\ Unconnected(P) /\ Known(P) = Known(U)
               /\ P.users = U.users /\ P.administrators = U.administrators
               /\ DOMAIN P.handler_to_tokens = {}
  <1>. DEFINE P == Persistent(U)
  <1>1. IsShaped(U)
    BY SoundUsersLemma
  <1>2. /\ IsShaped(P) /\ SameTokens(P, U) /\ Unconnected(P)
        /\ P.users = U.users /\ P.administrators = U.administrators
    <2>1. P = [U EXCEPT !.token_to_handler = EmptyDict, !.handler_to_tokens = EmptyDict]
      BY DEF Persistent
    <2>. HIDE DEF P
    <2>. QED  BY <1>1, <2>1 DEF IsShaped, SameTokens, Unconnected
  <1>. HIDE DEF P
  <1>3. Known(P) = Known(U)
    BY <1>2 DEF SameTokens, Known
  <1>4. DOMAIN EmptyDict = {} /\ Twins(Tokens, Handlers, EmptyDict, EmptyDict)
    BY EmptyDictLemma DEF Twins, IsInverse
  <1>5. /\ P.users \subseteq Users /\ P.administrators \subseteq P.users
        /\ P.timestamps = Known(P)
        /\ Twins(Tokens, Users, P.token_to_username, P.username_to_tokens)
        /\ Twins(Tokens, Handlers, P.token_to_handler, P.handler_to_tokens)
        /\ DOMAIN P.token_to_handler \subseteq Known(P)
        /\ DOMAIN P.username_to_tokens \subseteq P.users
    BY <1>2, <1>3, <1>4, SoundUsersLemma DEF SameTokens, Unconnected
  <1>6. SoundUsers(P)
    BY <1>2, <1>5, MakeUsersLemma
  <1>. QED  BY <1>2, <1>3, <1>4, <1>6 DEF P, Unconnected

\* What the accounts made at every start change.
LEMMA WithDefaultsLemma ==
    ASSUME NEW U, SoundUsers(U), Unconnected(U)
    PROVE  LET V == WithDefaults(U)
           IN  SoundUsers(V) /\ SameTokens(U, V) /\ DOMAIN V.handler_to_tokens = {}
  <1>. DEFINE V == WithDefaults(U)
  <1>1. /\ IsShaped(U) /\ U.users \subseteq Users /\ U.administrators \subseteq U.users
        /\ \A x \in Known(U) : U.token_to_username[x] \in U.users
    BY SoundUsersLemma
  <1>2. /\ OtherAccounts(V, U) /\ V.users = U.users \cup {Admin, Bot}
        /\ V.administrators = U.administrators \cup {Admin}
    <2>1. V = [U EXCEPT !.users = @ \cup {Admin, Bot}, !.administrators = @ \cup {Admin}]
      BY DEF WithDefaults
    <2>. HIDE DEF V
    <2>. QED  BY <1>1, <2>1 DEF IsShaped, OtherAccounts, SameTokens
  <1>. HIDE DEF V
  <1>3. SoundUsers(V) /\ SameTokens(V, U)
    BY <1>1, <1>2, UsersAssumption, AccountsLemma
  <1>4. DOMAIN V.handler_to_tokens = {}
    BY <1>2 DEF OtherAccounts, Unconnected, EmptyDict
  <1>. QED  BY <1>3, <1>4 DEF V, SameTokens

-----------------------------------------------------------------------------
(* The roles of a game. *)

RolesRecord ==
    [controller : [Powers -> Users \cup {None}], tokens : [Powers -> SUBSET Tokens],
     observer : SUBSET Tokens, omniscient : SUBSET Tokens,
     moderator_usernames : SUBSET Users, omniscient_usernames : SUBSET Users]

\* The tokens of a power are its player's or the bot's, as far as U knows them:
\* those it does not know leave when the game is read from the disk.
SoundRoles(g, U) ==
    /\ g \in RolesRecord
    /\ g.observer \cap g.omniscient = {}
    /\ \A p \in Powers : \A t \in g.tokens[p] \cap Known(U) :
          U.token_to_username[t] \in {g.controller[p], Bot}

LEMMA NoRolesLemma ==
    ASSUME NEW U
    PROVE  SoundRoles(NoRoles, U) /\ GameTokens(NoRoles) = {}
  <1>1. /\ NoRoles \in RolesRecord /\ NoRoles.observer = {} /\ NoRoles.omniscient = {}
        /\ \A p \in Powers : NoRoles.tokens[p] = {}
    BY DEF NoRoles, RolesRecord
  <1>. QED  BY <1>1 DEF SoundRoles, GameTokens, PlayerTokens

\* The roles remain sound if no token of the game gets another name.
LEMMA RolesFollowLemma ==
    ASSUME NEW g, NEW U, SoundRoles(g, U), NEW V,
           \A t \in GameTokens(g) \cap Known(V) :
               t \in Known(U) /\ V.token_to_username[t] = U.token_to_username[t]
    PROVE  SoundRoles(g, V)
  BY DEF SoundRoles, GameTokens, PlayerTokens

LEMMA SameRolesLemma ==
    ASSUME NEW g, NEW U, SoundRoles(g, U), NEW V, SameTokens(V, U)
    PROVE  SoundRoles(g, V)
  BY RolesFollowLemma DEF SameTokens, Known

\* r has the grades of g, its tokens are some of those of g, and its players are
\* those of g or gone.
Fewer(r, g) ==
    /\ r.moderator_usernames \subseteq g.moderator_usernames
    /\ r.omniscient_usernames \subseteq g.omniscient_usernames
    /\ r.observer \cup r.omniscient \subseteq g.observer \cup g.omniscient
    /\ \A p \in Powers : \/ r.tokens[p] \subseteq g.tokens[p] /\ r.controller[p] = g.controller[p]
                         \/ r.tokens[p] = {}

LEMMA FewerLemma ==
    ASSUME NEW g, NEW U, SoundRoles(g, U), NEW r \in RolesRecord, Fewer(r, g),
           r.observer \cap r.omniscient = {}
    PROVE  SoundRoles(r, U) /\ GameTokens(r) \subseteq GameTokens(g)
  <1>1. SoundRoles(r, U)
    BY DEF SoundRoles, Fewer
  <1>2. GameTokens(r) \subseteq GameTokens(g)
    BY DEF Fewer, GameTokens, PlayerTokens
  <1>. QED  BY <1>1, <1>2

LEMMA DismissLemma ==
    ASSUME NEW g, NEW U, SoundRoles(g, U), NEW S
    PROVE  /\ SoundRoles(Dismiss(g, S), U) /\ GameTokens(Dismiss(g, S)) \subseteq GameTokens(g)
           /\ Dismiss(g, S).moderator_usernames = g.moderator_usernames
           /\ Dismiss(g, S).omniscient_usernames = g.omniscient_usernames
  <1>. DEFINE r == Dismiss(g, S)
  <1>1. g \in RolesRecord /\ g.observer \cap g.omniscient = {}
    BY DEF SoundRoles
  <1>2. /\ r \in RolesRecord /\ Fewer(r, g) /\ r.observer = g.observer
        /\ r.omniscient = g.omniscient
        /\ r.moderator_usernames = g.moderator_usernames
        /\ r.omniscient_usernames = g.omniscient_usernames
    BY <1>1 DEF Dismiss, RolesRecord, Fewer
  <1>. HIDE DEF r
  <1>. QED  BY <1>1, <1>2, FewerLemma DEF r

LEMMA FilterTokensLemma ==
    ASSUME NEW g, NEW U, SoundRoles(g, U), NEW keep
    PROVE  /\ SoundRoles(FilterTokens(g, keep), U)
           /\ GameTokens(FilterTokens(g, keep)) \subseteq GameTokens(g) \cap keep
           /\ FilterTokens(g, keep).moderator_usernames = g.moderator_usernames
           /\ FilterTokens(g, keep).omniscient_usernames = g.omniscient_usernames
  <1>. DEFINE r == FilterTokens(g, keep)
  <1>1. g \in RolesRecord /\ g.observer \cap g.omniscient = {}
    BY DEF SoundRoles
  <1>2. /\ r \in RolesRecord /\ Fewer(r, g) /\ r.observer \cap r.omniscient = {}
        /\ r.moderator_usernames = g.moderator_usernames
        /\ r.omniscient_usernames = g.omniscient_usernames
        /\ r.observer \cup r.omniscient \subseteq keep
        /\ \A p \in Powers : r.tokens[p] \subseteq keep
    BY <1>1 DEF FilterTokens, RolesRecord, Fewer
  <1>. HIDE DEF r
  <1>3. SoundRoles(r, U) /\ GameTokens(r) \subseteq GameTokens(g)
    BY <1>1, <1>2, FewerLemma
  <1>4. GameTokens(r) \subseteq keep
    BY <1>2 DEF GameTokens, PlayerTokens
  <1>. QED  BY <1>2, <1>3, <1>4 DEF r

LEMMA FilterUsernamesLemma ==
    ASSUME NEW g, NEW U, SoundRoles(g, U), NEW keep
    PROVE  LET r == FilterUsernames(g, keep)
           IN  /\ SoundRoles(r, U) /\ GameTokens(r) \subseteq GameTokens(g)
               /\ r.moderator_usernames = g.moderator_usernames \cap keep
               /\ r.omniscient_usernames = g.omniscient_usernames \cap keep
  <1>. DEFINE d == Dismiss(g, {p \in Powers : g.controller[p] \notin keep \cup {None}})
              r == FilterUsernames(g, keep)
  <1>1. /\ SoundRoles(d, U) /\ GameTokens(d) \subseteq GameTokens(g)
        /\ d.moderator_usernames = g.moderator_usernames
        /\ d.omniscient_usernames = g.omniscient_usernames
    BY DismissLemma
  <1>2. r = [d EXCEPT !.moderator_usernames = @ \cap keep, !.omniscient_usernames = @ \cap keep]
    BY DEF FilterUsernames
  <1>. HIDE DEF d
  <1>3. d \in RolesRecord /\ d.observer \cap d.omniscient = {}
    BY <1>1 DEF SoundRoles
  <1>. HIDE DEF r
  <1>4. /\ r \in RolesRecord /\ Fewer(r, d) /\ r.observer = d.observer
        /\ r.omniscient = d.omniscient
        /\ r.moderator_usernames = d.moderator_usernames \cap keep
        /\ r.omniscient_usernames = d.omniscient_usernames \cap keep
    BY <1>2, <1>3 DEF RolesRecord, Fewer
  <1>5. SoundRoles(r, U) /\ GameTokens(r) \subseteq GameTokens(d)
    BY <1>1, <1>3, <1>4, FewerLemma
  <1>. QED  BY <1>1, <1>4, <1>5 DEF r

\* The other grades and roles are as before, and whoever of T does not play is
\* no more in the role left.
LEMMA TransferredLemma ==
    ASSUME NEW g, NEW U, SoundRoles(g, U), NEW T, NEW promote \in BOOLEAN,
           NEW r \in Transferred(g, T, promote)
    PROVE  /\ SoundRoles(r, U) /\ GameTokens(r) \subseteq GameTokens(g)
           /\ r.moderator_usernames = g.moderator_usernames
           /\ r.omniscient_usernames = g.omniscient_usernames
           /\ T \cap (g.observer \cup g.omniscient) \cap PlayerTokens(g) = {} =>
                T \cap (IF promote THEN r.observer ELSE r.omniscient) = {}
  <1>. DEFINE from == T \cap (IF promote THEN g.observer ELSE g.omniscient)
              players == from \cap PlayerTokens(g)
  <1>1. g \in RolesRecord /\ g.observer \cap g.omniscient = {}
    BY DEF SoundRoles
  <1>2. PICK ok \in SUBSET from, gone \in SUBSET from :
          r = Moved(g, ok, gone, promote) /\ (players = {} => ok = from)
    <2>1. r \in IF players = {} THEN {Moved(g, from, {}, promote)}
                ELSE UNION {{Moved(g, ok, {t}, promote) : ok \in SUBSET (from \ players)} :
                              t \in players}
      BY DEF Transferred
    <2>2. players \subseteq from
      OBVIOUS
    <2>. HIDE DEF from, players
    <2>3. CASE players = {}
      BY <2>1, <2>3
    <2>4. CASE players # {}
      <3>1. PICK ok \in SUBSET (from \ players), t \in players : r = Moved(g, ok, {t}, promote)
        BY <2>1, <2>4
      <3>2. ok \in SUBSET from /\ {t} \in SUBSET from
        BY <2>2, <3>1
      <3>. QED  BY <2>4, <3>1, <3>2
    <2>. QED  BY <2>3, <2>4
  <1>3. /\ r \in RolesRecord /\ Fewer(r, g) /\ r.observer \cap r.omniscient = {}
        /\ r.moderator_usernames = g.moderator_usernames
        /\ r.omniscient_usernames = g.omniscient_usernames
        /\ promote => r.observer = g.observer \ (ok \cup gone)
        /\ ~promote => r.omniscient = g.omniscient \ (ok \cup gone)
    <2>1. CASE promote
      <3>1. r = [g EXCEPT !.observer = @ \ (ok \cup gone), !.omniscient = @ \cup ok]
        BY <1>2, <2>1 DEF Moved
      <3>2. ok \subseteq g.observer
        BY <1>2, <2>1
      <3>. HIDE DEF from, players
      <3>. QED  BY <1>1, <2>1, <3>1, <3>2 DEF RolesRecord, Fewer
    <2>2. CASE ~promote
      <3>1. r = [g EXCEPT !.omniscient = @ \ (ok \cup gone), !.observer = @ \cup ok]
        BY <1>2, <2>2 DEF Moved
      <3>2. ok \subseteq g.omniscient
        BY <1>2, <2>2
      <3>. HIDE DEF from, players
      <3>. QED  BY <1>1, <2>2, <3>1, <3>2 DEF RolesRecord, Fewer
    <2>. QED  BY <2>1, <2>2
  <1>4. SoundRoles(r, U) /\ GameTokens(r) \subseteq GameTokens(g)
    BY <1>1, <1>3, FewerLemma
  <1>5. ASSUME T \cap (g.observer \cup g.omniscient) \cap PlayerTokens(g) = {}
        PROVE  T \cap (IF promote THEN r.observer ELSE r.omniscient) = {}
    <2>1. players = {}
      BY <1>5
    <2>2. ok = from
      BY <1>2, <2>1
    <2>. HIDE DEF players
    <2>3. CASE promote
      BY <1>3, <2>2, <2>3
    <2>4. CASE ~promote
      BY <1>3, <2>2, <2>4
    <2>. QED  BY <2>3, <2>4
  <1>. QED  BY <1>3, <1>4, <1>5

-----------------------------------------------------------------------------
(* The inductive invariant. *)

\* What a restart would find: sound users, without connections and with the
\* tokens there are now, for every request that changes those saves them.
SavedIsSound ==
    /\ saved = [users |-> saved.users, game |-> saved.game]
    /\ SoundUsers(saved.users) /\ Unconnected(saved.users) /\ SameTokens(saved.users, users)
    /\ SoundRoles(saved.game, users)

IInv ==
    /\ SoundUsers(users) /\ SoundRoles(game, users) /\ SavedIsSound
    /\ open \subseteq Handlers /\ loaded \in BOOLEAN
    /\ ConnectionsAreOpen /\ GameTokensAreKnown

LEMMA InitIInv == Init => IInv
  <1>. SUFFICES ASSUME Init PROVE IInv
    OBVIOUS
  <1>. DEFINE V == WithDefaults(NoUsers)
  <1>1. SoundUsers(NoUsers) /\ Unconnected(NoUsers)
    BY NoUsersLemma DEF Unconnected, NoUsers
  <1>2. SoundUsers(V) /\ SameTokens(NoUsers, V) /\ DOMAIN V.handler_to_tokens = {}
    BY <1>1, WithDefaultsLemma
  <1>3. SoundRoles(NoRoles, V) /\ GameTokens(NoRoles) = {}
    BY NoRolesLemma
  <1>4. /\ users = V /\ game = NoRoles /\ saved = [users |-> NoUsers, game |-> NoRoles]
        /\ open = {} /\ loaded = TRUE
    BY DEF Init
  <1>. HIDE DEF V
  <1>5. saved.users = NoUsers /\ saved.game = NoRoles
    BY <1>4
  <1>. QED  BY <1>1, <1>2, <1>3, <1>4, <1>5 DEF Init, IInv, SavedIsSound, ConnectionsAreOpen, GameTokensAreKnown

\* How a record that saved holds is replaced.
LEMMA SaveLemma ==
    ASSUME NEW s, s = [users |-> s.users, game |-> s.game], NEW U
    PROVE  [s EXCEPT !.users = U] = [users |-> U, game |-> s.game]
  OBVIOUS

\* What a step comes to that saves users V and game s.
LEMMA SavedIInv ==
    ASSUME NEW V, NEW P, NEW s, saved' = [users |-> P, game |-> s], users' = V,
           SoundUsers(V), SoundUsers(P), SameTokens(P, V), Unconnected(P),
           SoundRoles(game', V), SoundRoles(s, V),
           open' \subseteq Handlers, loaded' \in BOOLEAN,
           DOMAIN V.handler_to_tokens \subseteq open',
           loaded' => GameTokens(game') \subseteq Known(V)
    PROVE  IInv'
  <1>1. saved'.users = P /\ saved'.game = s
    OBVIOUS
  <1>. QED  BY <1>1 DEF IInv, SavedIsSound, ConnectionsAreOpen, GameTokensAreKnown

LEMMA OpenIInv ==
    ASSUME IInv, NEW h \in Handlers, Open(h)
    PROVE  IInv'
  BY DEF IInv, SavedIsSound, ConnectionsAreOpen, GameTokensAreKnown, Open

LEMMA CloseIInv ==
    ASSUME IInv, NEW h \in Handlers, Close(h)
    PROVE  IInv'
  <1>. DEFINE R == RemoveConnection(users, h)
  <1>1. /\ SoundUsers(R) /\ SameTokens(R, users) /\ Known(R) = Known(users)
        /\ DOMAIN R.handler_to_tokens = DOMAIN users.handler_to_tokens \ {h}
    BY RemoveConnectionLemma DEF IInv
  <1>2. /\ users' = R /\ open' = open \ {h} /\ game' = game /\ loaded' = loaded /\ saved' = saved
    BY DEF Close
  <1>. HIDE DEF R
  <1>3. SoundRoles(game, R) /\ SoundRoles(saved.game, R)
    BY <1>1, SameRolesLemma DEF IInv, SavedIsSound
  <1>4. SavedIsSound'
    BY <1>1, <1>2, <1>3 DEF IInv, SavedIsSound, SameTokens
  <1>5. ConnectionsAreOpen' /\ GameTokensAreKnown'
    BY <1>1, <1>2 DEF IInv, ConnectionsAreOpen, GameTokensAreKnown
  <1>. QED  BY <1>1, <1>2, <1>3, <1>4, <1>5 DEF IInv

LEMMA SignInIInv ==
    ASSUME IInv, NEW u \in Users, NEW h \in Handlers, NEW t \in Tokens, SignIn(u, h, t)
    PROVE  IInv'
  <1>. DEFINE U == [users EXCEPT !.users = @ \cup {u}]
              C == ConnectUser(U, u, h, t)
              P == Persistent(C)
  <1>1. /\ h \in open /\ Unused(t) /\ users' = C
        /\ saved' = [saved EXCEPT !.users = Persistent(users')]
        /\ open' = open /\ game' = game /\ loaded' = loaded
    BY DEF SignIn
  <1>2. /\ SoundUsers(U) /\ SameTokens(U, users) /\ Known(U) = Known(users) /\ u \in U.users
        /\ U.handler_to_tokens = users.handler_to_tokens
    <2>1. /\ SoundUsers(users) /\ IsShaped(users) /\ users.users \subseteq Users
          /\ users.administrators \subseteq users.users
          /\ \A x \in Known(users) : users.token_to_username[x] \in users.users
      BY SoundUsersLemma DEF IInv
    <2>2. OtherAccounts(U, users) /\ U.users = users.users \cup {u} /\ U.administrators = users.administrators
      BY <2>1 DEF IsShaped, OtherAccounts, SameTokens
    <2>. HIDE DEF U
    <2>3. SoundUsers(U)
      BY <2>1, <2>2, AccountsLemma
    <2>. QED  BY <2>1, <2>2, <2>3, AccountsLemma DEF OtherAccounts
  <1>3. t \notin Known(users) /\ t \notin GameTokens(game) /\ t \notin GameTokens(saved.game)
    BY <1>1 DEF Unused
  <1>. HIDE DEF U
  <1>4. /\ SoundUsers(C) /\ Known(C) = Known(users) \cup {t}
        /\ \A x \in Known(users) : C.token_to_username[x] = users.token_to_username[x]
        /\ DOMAIN C.handler_to_tokens \subseteq DOMAIN users.handler_to_tokens \cup {h}
    BY <1>2, <1>3, ConnectUserLemma DEF SameTokens
  <1>. HIDE DEF C
  <1>5. SoundUsers(P) /\ SameTokens(P, C) /\ Unconnected(P)
    BY <1>4, PersistentLemma
  <1>6. SoundRoles(game, C) /\ SoundRoles(saved.game, C)
    BY <1>3, <1>4, RolesFollowLemma DEF IInv, SavedIsSound
  <1>7. saved' = [users |-> P, game |-> saved.game]
    BY <1>1, SaveLemma DEF IInv, SavedIsSound
  <1>8. DOMAIN C.handler_to_tokens \subseteq open /\ (loaded => GameTokens(game) \subseteq Known(C))
    BY <1>1, <1>4 DEF IInv, ConnectionsAreOpen, GameTokensAreKnown
  <1>. HIDE DEF P
  <1>9. open \subseteq Handlers /\ loaded \in BOOLEAN
    BY DEF IInv
  <1>. QED  BY <1>1, <1>4, <1>5, <1>6, <1>7, <1>8, <1>9, SavedIInv

\* What attaching the token of a request to its connection does.
LEMMA AttachedLemma ==
    ASSUME IInv, NEW t, NEW h \in Handlers, Accepted(t, h)
    PROVE  LET U == Attached(t, h)
           IN  /\ SoundUsers(U) /\ SameTokens(U, users) /\ Known(U) = Known(users)
               /\ U.users = users.users /\ U.administrators = users.administrators
               /\ DOMAIN U.handler_to_tokens \subseteq open
               /\ t \in Known(U) /\ t \in Tokens /\ U.token_to_username[t] \in Users
               /\ SoundRoles(game, U) /\ SoundRoles(saved.game, U)
  <1>. DEFINE U == Attached(t, h)
  <1>1. SoundUsers(users) /\ h \in open /\ t \in Known(users)
    BY DEF Accepted, IInv
  <1>2. /\ SoundUsers(U) /\ SameTokens(U, users) /\ Known(U) = Known(users)
        /\ U.users = users.users /\ U.administrators = users.administrators
        /\ DOMAIN U.handler_to_tokens \subseteq DOMAIN users.handler_to_tokens \cup {h}
    BY <1>1, AttachLemma DEF Attached
  <1>. HIDE DEF U
  <1>3. DOMAIN U.handler_to_tokens \subseteq open
    BY <1>1, <1>2 DEF IInv, ConnectionsAreOpen
  <1>4. t \in Tokens /\ U.token_to_username[t] \in Users
    BY <1>1, <1>2, SoundUsersLemma
  <1>5. SoundRoles(game, U) /\ SoundRoles(saved.game, U)
    BY <1>2, SameRolesLemma DEF IInv, SavedIsSound
  <1>. QED  BY <1>1, <1>2, <1>3, <1>4, <1>5 DEF U

\* What a request comes to that leaves the tokens alone: V are the users after it
\* and s is the game as it saves it.
LEMMA RequestIInv ==
    ASSUME IInv, NEW V, SoundUsers(V), SameTokens(V, users),
           DOMAIN V.handler_to_tokens \subseteq open,
           users' = V, NEW P, SoundUsers(P), SameTokens(P, V), Unconnected(P),
           NEW s, SoundRoles(s, V), saved' = [users |-> P, game |-> s],
           SoundRoles(game', V), loaded => GameTokens(game') \subseteq Known(V),
           open' = open, loaded' = loaded
    PROVE  IInv'
  <1>1. open' \subseteq Handlers /\ loaded' \in BOOLEAN
    BY DEF IInv
  <1>. QED  BY <1>1, SavedIInv

\* A request of a game in memory that changes its roles and saves them.
LEMMA RolesIInv ==
    ASSUME IInv, NEW t \in Tokens, NEW h \in Handlers, Accepted(t, h), loaded,
           NEW g, NEW s, SoundRoles(g, Attached(t, h)), SoundRoles(s, Attached(t, h)),
           GameTokens(g) \subseteq Known(users),
           users' = Attached(t, h), game' = g,
           saved' = [users |-> Persistent(Attached(t, h)), game |-> s],
           UNCHANGED <<open, loaded>>
    PROVE  IInv'
  <1>. DEFINE U == Attached(t, h)
              P == Persistent(U)
  <1>1. /\ SoundUsers(U) /\ SameTokens(U, users) /\ Known(U) = Known(users)
        /\ DOMAIN U.handler_to_tokens \subseteq open
    BY AttachedLemma
  <1>2. /\ users' = U /\ saved' = [users |-> P, game |-> s] /\ open' = open /\ loaded' = loaded
        /\ SoundRoles(game', U) /\ SoundRoles(s, U) /\ GameTokens(game') \subseteq Known(U)
    BY <1>1
  <1>. HIDE DEF U
  <1>3. SoundUsers(P) /\ SameTokens(P, U) /\ Unconnected(P)
    BY <1>1, PersistentLemma
  <1>. HIDE DEF P
  <1>. QED  BY <1>1, <1>2, <1>3, RequestIInv

LEMMA RemoveTokenIInv ==
    ASSUME IInv, NEW t \in Tokens, NEW h \in Handlers, RemoveToken(t, h)
    PROVE  IInv'
  <1>. DEFINE U == Attached(t, h)
              D == DisconnectToken(U, t)
              P == Persistent(D)
              r == FilterTokens(game, Tokens \ {t})
  <1>1. /\ Accepted(t, h) /\ users' = D /\ game' = IF loaded THEN r ELSE game
        /\ saved' = [users |-> P, game |-> game'] /\ open' = open /\ loaded' = loaded
    BY DEF RemoveToken
  <1>2. /\ SoundUsers(U) /\ Known(U) = Known(users) /\ t \in Known(U)
        /\ DOMAIN U.handler_to_tokens \subseteq open /\ SoundRoles(game, U)
    BY <1>1, AttachedLemma
  <1>. HIDE DEF U
  <1>3. /\ SoundUsers(D) /\ Known(D) = Known(U) \ {t}
        /\ \A x \in Known(D) : D.token_to_username[x] = U.token_to_username[x]
        /\ DOMAIN D.handler_to_tokens \subseteq open
    BY <1>2, DisconnectTokenLemma
  <1>. HIDE DEF D
  <1>4. SoundUsers(P) /\ SameTokens(P, D) /\ Unconnected(P)
    BY <1>3, PersistentLemma
  <1>5. SoundRoles(r, U) /\ GameTokens(r) \subseteq GameTokens(game) \cap (Tokens \ {t})
    BY <1>2, FilterTokensLemma
  <1>. HIDE DEF P, r
  <1>6. SoundRoles(game', U)
    BY <1>1, <1>2, <1>5
  <1>7. SoundRoles(game', D)
    BY <1>3, <1>6, RolesFollowLemma
  <1>8. loaded => GameTokens(game') \subseteq Known(D)
    BY <1>1, <1>2, <1>3, <1>5 DEF IInv, GameTokensAreKnown
  <1>9. open \subseteq Handlers /\ loaded \in BOOLEAN
    BY DEF IInv
  <1>. QED  BY <1>1, <1>3, <1>4, <1>7, <1>8, <1>9, SavedIInv

LEMMA DeleteAccountIInv ==
    ASSUME IInv, NEW t \in Tokens, NEW h \in Handlers, NEW u \in Users, DeleteAccount(t, h, u)
    PROVE  IInv'
  <1>. DEFINE U == Attached(t, h)
  <1>1. Accepted(t, h) /\ u \in U.users /\ open' = open /\ loaded' = loaded
    BY DEF DeleteAccount
  <1>2. /\ SoundUsers(U) /\ SameTokens(U, users) /\ Known(U) = Known(users)
        /\ DOMAIN U.handler_to_tokens \subseteq open
        /\ SoundRoles(game, U) /\ SoundRoles(saved.game, U)
    BY <1>1, AttachedLemma
  <1>3. CASE TokensOf(U, u) = {}
    <2>. DEFINE V == RemoveAccount(U, u)
                P == Persistent(U)
    <2>1. /\ users' = V /\ saved' = [saved EXCEPT !.users = P] /\ game' = game
      BY <1>3 DEF DeleteAccount
    <2>. HIDE DEF U
    <2>2. SoundUsers(V) /\ SameTokens(V, U) /\ V.handler_to_tokens = U.handler_to_tokens
      <3>1. \A x \in Known(U) : U.token_to_username[x] \in U.users \ {u}
        BY <1>2, <1>3, TokensOfLemma, SoundUsersLemma
      <3>2. IsShaped(U) /\ U.users \subseteq Users /\ U.administrators \subseteq U.users
        BY <1>2, SoundUsersLemma
      <3>3. /\ OtherAccounts(V, U)
            /\ V.users = U.users \ {u} /\ V.administrators = U.administrators \ {u}
        <4>1. V = [U EXCEPT !.users = @ \ {u}, !.administrators = @ \ {u}]
          BY DEF RemoveAccount
        <4>. HIDE DEF V
        <4>. QED  BY <3>2, <4>1 DEF IsShaped, OtherAccounts, SameTokens
      <3>. HIDE DEF V
      <3>4. SoundUsers(V)
        BY <1>2, <3>1, <3>2, <3>3, AccountsLemma
      <3>. QED  BY <3>3, <3>4 DEF OtherAccounts
    <2>. HIDE DEF V
    <2>3. SoundUsers(P) /\ SameTokens(P, V) /\ Unconnected(P)
      BY <1>2, <2>2, PersistentLemma DEF SameTokens
    <2>. HIDE DEF P
    <2>4. saved' = [users |-> P, game |-> saved.game]
      BY <2>1, SaveLemma DEF IInv, SavedIsSound
    <2>5. SameTokens(V, users) /\ Known(V) = Known(users)
      BY <1>2, <2>2 DEF SameTokens, Known
    <2>6. SoundRoles(game', V) /\ SoundRoles(saved.game, V)
      BY <1>2, <2>1, <2>2, SameRolesLemma
    <2>7. loaded => GameTokens(game') \subseteq Known(V)
      BY <2>1, <2>5 DEF IInv, GameTokensAreKnown
    <2>8. DOMAIN V.handler_to_tokens \subseteq open
      BY <1>2, <2>2
    <2>. QED  BY <1>1, <2>1, <2>2, <2>3, <2>4, <2>5, <2>6, <2>7, <2>8, RequestIInv
  <1>4. CASE TokensOf(U, u) # {}
    <2>. DEFINE R == RemoveUser(U, u)
                P == Persistent(R)
                f == FilterTokens(game, Known(R))
                r == FilterUsernames(f, R.users)
    <2>1. /\ users' = R /\ saved' = [users |-> P, game |-> game']
          /\ game' = IF loaded THEN r ELSE game
      BY <1>4 DEF DeleteAccount
    <2>. HIDE DEF U
    <2>2. /\ SoundUsers(R) /\ Known(R) \subseteq Known(U)
          /\ \A x \in Known(R) : R.token_to_username[x] = U.token_to_username[x]
          /\ DOMAIN R.handler_to_tokens \subseteq open
      BY <1>2, <1>4, RemoveUserLemma
    <2>. HIDE DEF R
    <2>3. SoundUsers(P) /\ SameTokens(P, R) /\ Unconnected(P)
      BY <2>2, PersistentLemma
    <2>4. SoundRoles(f, U) /\ GameTokens(f) \subseteq Known(R)
      BY <1>2, FilterTokensLemma
    <2>. HIDE DEF P, f
    <2>5. SoundRoles(r, U) /\ GameTokens(r) \subseteq Known(R)
      BY <2>4, FilterUsernamesLemma
    <2>. HIDE DEF r
    <2>6. SoundRoles(game', U)
      BY <1>2, <2>1, <2>5
    <2>7. SoundRoles(game', R)
      BY <2>2, <2>6, RolesFollowLemma
    <2>8. open \subseteq Handlers /\ loaded \in BOOLEAN
      BY DEF IInv
    <2>9. loaded => GameTokens(game') \subseteq Known(R)
      BY <2>1, <2>5
    <2>. QED  BY <1>1, <2>1, <2>2, <2>3, <2>7, <2>8, <2>9, SavedIInv
  <1>. QED  BY <1>3, <1>4

LEMMA SetAdminIInv ==
    ASSUME IInv, NEW t \in Tokens, NEW h \in Handlers, NEW u \in Users,
           NEW promote \in BOOLEAN, SetAdmin(t, h, u, promote)
    PROVE  IInv'
  <1>. DEFINE U == Attached(t, h)
              V == [U EXCEPT !.administrators = IF promote THEN @ \cup {u} ELSE @ \ {u}]
              P == Persistent(V)
  <1>1. /\ Accepted(t, h) /\ (promote => u \in U.users)
        /\ users' = V /\ saved' = [saved EXCEPT !.users = P]
        /\ game' \in Transferred(game, TokensOf(U, u), promote) \/ game' = game
        /\ open' = open /\ loaded' = loaded
    BY DEF SetAdmin
  <1>2. /\ SoundUsers(U) /\ SameTokens(U, users) /\ Known(U) = Known(users)
        /\ DOMAIN U.handler_to_tokens \subseteq open
        /\ SoundRoles(game, U) /\ SoundRoles(saved.game, U)
    BY <1>1, AttachedLemma
  <1>. HIDE DEF U
  <1>3. /\ IsShaped(U) /\ U.users \subseteq Users /\ U.administrators \subseteq U.users
        /\ \A x \in Known(U) : U.token_to_username[x] \in U.users
    BY <1>2, SoundUsersLemma
  <1>4. OtherAccounts(V, U) /\ V.users = U.users /\ V.administrators \subseteq U.users
    <2>1. V = [U EXCEPT !.administrators = IF promote THEN U.administrators \cup {u}
                                           ELSE U.administrators \ {u}]
      OBVIOUS
    <2>. HIDE DEF V
    <2>. QED  BY <1>1, <1>3, <2>1 DEF IsShaped, OtherAccounts, SameTokens
  <1>. HIDE DEF V
  <1>5. SoundUsers(V) /\ SameTokens(V, U) /\ Known(V) = Known(U)
    BY <1>2, <1>3, <1>4, AccountsLemma
  <1>6. SoundUsers(P) /\ SameTokens(P, V) /\ Unconnected(P)
    BY <1>5, PersistentLemma
  <1>. HIDE DEF P
  <1>7. saved' = [users |-> P, game |-> saved.game]
    BY <1>1, SaveLemma DEF IInv, SavedIsSound
  <1>8. SoundRoles(game', U) /\ GameTokens(game') \subseteq GameTokens(game)
    BY <1>1, <1>2, TransferredLemma
  <1>9. SoundRoles(game', V) /\ SoundRoles(saved.game, V)
    BY <1>2, <1>5, <1>8, SameRolesLemma
  <1>10. loaded => GameTokens(game') \subseteq Known(V)
    BY <1>2, <1>5, <1>8 DEF IInv, GameTokensAreKnown
  <1>11. SameTokens(V, users) /\ DOMAIN V.handler_to_tokens \subseteq open
    BY <1>2, <1>4, <1>5 DEF SameTokens, OtherAccounts
  <1>. QED  BY <1>1, <1>5, <1>6, <1>7, <1>9, <1>10, <1>11, RequestIInv

\* r is g with other grades of u.
Regraded(r, g, u) ==
    /\ r.tokens = g.tokens /\ r.observer = g.observer /\ r.omniscient = g.omniscient
    /\ \A v \in Users : v # u =>
          /\ v \in r.moderator_usernames <=> v \in g.moderator_usernames
          /\ v \in r.omniscient_usernames <=> v \in g.omniscient_usernames

\* A grade that is given or taken changes neither tokens nor players.
LEMMA GradeLemma ==
    ASSUME NEW g, NEW U, SoundRoles(g, U), NEW grade \in Grades, NEW u \in Users,
           NEW promote, NEW r,
           r = [g EXCEPT ![grade] = IF promote THEN @ \cup {u} ELSE @ \ {u}]
    PROVE  SoundRoles(r, U) /\ GameTokens(r) = GameTokens(g) /\ Regraded(r, g, u)
  <1>1. g \in RolesRecord
    BY DEF SoundRoles
  <1>2. r \in RolesRecord /\ r.controller = g.controller /\ Regraded(r, g, u)
    <2>1. CASE grade = "moderator_usernames"
      BY <1>1, <2>1 DEF RolesRecord, Regraded
    <2>2. CASE grade = "omniscient_usernames"
      BY <1>1, <2>2 DEF RolesRecord, Regraded
    <2>. QED  BY <2>1, <2>2, GradesAssumption
  <1>3. SoundRoles(r, U)
    BY <1>2 DEF SoundRoles, Regraded
  <1>4. GameTokens(r) = GameTokens(g)
    BY <1>2 DEF GameTokens, PlayerTokens, Regraded
  <1>. QED  BY <1>2, <1>3, <1>4

LEMMA SetGradeIInv ==
    ASSUME IInv, NEW t \in Tokens, NEW h \in Handlers, NEW u \in Users, NEW grade \in Grades,
           NEW promote \in BOOLEAN, SetGrade(t, h, u, grade, promote)
    PROVE  IInv'
  <1>. DEFINE U == Attached(t, h)
              g == [game EXCEPT ![grade] = IF promote THEN @ \cup {u} ELSE @ \ {u}]
              up == UserIsOmniscient(U, g, u)
  <1>1. /\ Accepted(t, h) /\ loaded
        /\ users' = U /\ saved' = [users |-> Persistent(U), game |-> g]
        /\ game' = g \/ game' \in Transferred(g, TokensOf(U, u), up)
        /\ open' = open /\ loaded' = loaded
    BY DEF SetGrade
  <1>2. SoundRoles(game, U)
    BY <1>1, AttachedLemma
  <1>3. up \in BOOLEAN
    BY DEF UserIsOmniscient, UserIsMaster
  <1>4. SoundRoles(g, U) /\ GameTokens(g) = GameTokens(game)
    BY <1>2, GradeLemma
  <1>. HIDE DEF g, up
  <1>5. SoundRoles(game', U) /\ GameTokens(game') \subseteq GameTokens(game)
    BY <1>1, <1>3, <1>4, TransferredLemma
  <1>6. GameTokens(game') \subseteq Known(users)
    BY <1>1, <1>5 DEF IInv, GameTokensAreKnown
  <1>. QED  BY <1>1, <1>4, <1>5, <1>6, RolesIInv

LEMMA JoinAsObserverIInv ==
    ASSUME IInv, NEW t \in Tokens, NEW h \in Handlers, JoinAsObserver(t, h)
    PROVE  IInv'
  <1>. DEFINE U == Attached(t, h)
  <1>1. /\ Accepted(t, h) /\ loaded /\ t \notin GameTokens(game)
        /\ users' = U /\ saved' = [users |-> Persistent(U), game |-> game']
        /\ \/ game' = [game EXCEPT !.omniscient = @ \cup {t}]
           \/ game' = [game EXCEPT !.observer = @ \cup {t}]
        /\ open' = open /\ loaded' = loaded
    BY DEF JoinAsObserver, AddsToOne
  <1>2. SoundRoles(game, U) /\ t \in Known(users)
    BY <1>1, AttachedLemma DEF Accepted
  <1>3. SoundRoles(game', U) /\ GameTokens(game') \subseteq GameTokens(game) \cup {t}
    <2>1. game \in RolesRecord /\ game.observer \cap game.omniscient = {}
      BY <1>2 DEF SoundRoles
    <2>2. t \notin game.observer /\ t \notin game.omniscient
      BY <1>1 DEF GameTokens
    <2>3. /\ game' \in RolesRecord /\ game'.observer \cap game'.omniscient = {}
          /\ game'.tokens = game.tokens /\ game'.controller = game.controller
          /\ game'.observer \cup game'.omniscient = game.observer \cup game.omniscient \cup {t}
      BY <1>1, <2>1, <2>2 DEF RolesRecord
    <2>. QED  BY <1>2, <2>3 DEF SoundRoles, GameTokens, PlayerTokens
  <1>4. GameTokens(game') \subseteq Known(users)
    BY <1>1, <1>2, <1>3 DEF IInv, GameTokensAreKnown
  <1>. QED  BY <1>1, <1>3, <1>4, RolesIInv

\* A power without a player has no tokens but the bot's: those that would be there
\* are known, and no account is called None.
LEMMA JoinAsPlayerIInv ==
    ASSUME IInv, NEW t \in Tokens, NEW h \in Handlers, NEW p \in Powers, JoinAsPlayer(t, h, p)
    PROVE  IInv'
  <1>. DEFINE U == Attached(t, h)
              u == U.token_to_username[t]
  <1>1. /\ Accepted(t, h) /\ loaded
        /\ game.controller[p] = None \/ game.controller[p] = u
        /\ users' = U /\ saved' = [users |-> Persistent(U), game |-> game']
        /\ game' = [game EXCEPT !.controller[p] = u, !.tokens[p] = @ \cup {t}]
        /\ open' = open /\ loaded' = loaded
    BY DEF JoinAsPlayer
  <1>2. /\ SoundUsers(U) /\ Known(U) = Known(users) /\ SoundRoles(game, U)
        /\ t \in Known(U) /\ u \in Users
    BY <1>1, AttachedLemma
  <1>3. \A x \in game.tokens[p] : U.token_to_username[x] \in {u, Bot}
    <2>1. GameTokens(game) \subseteq Known(U)
      BY <1>1, <1>2 DEF IInv, GameTokensAreKnown
    <2>2. \A x \in game.tokens[p] : /\ U.token_to_username[x] \in {game.controller[p], Bot}
                                    /\ U.token_to_username[x] \in Users
      BY <1>2, <2>1, SoundUsersLemma DEF SoundRoles, GameTokens, PlayerTokens
    <2>. HIDE DEF U, u
    <2>. QED  BY <1>1, <2>2, UsersAssumption
  <1>4. SoundRoles(game', U) /\ GameTokens(game') \subseteq GameTokens(game) \cup {t}
    <2>1. game \in RolesRecord /\ game.observer \cap game.omniscient = {}
      BY <1>2 DEF SoundRoles
    <2>. HIDE DEF u
    <2>2. /\ game' \in RolesRecord
          /\ game'.observer = game.observer /\ game'.omniscient = game.omniscient
          /\ game'.controller = [game.controller EXCEPT ![p] = u]
          /\ game'.tokens = [game.tokens EXCEPT ![p] = game.tokens[p] \cup {t}]
      BY <1>1, <1>2, <2>1 DEF RolesRecord
    <2>3. /\ game.controller \in [Powers -> Users \cup {None}]
          /\ game.tokens \in [Powers -> SUBSET Tokens]
      BY <2>1 DEF RolesRecord
    <2>4. ASSUME NEW q \in Powers, NEW x \in game'.tokens[q] \cap Known(U)
          PROVE  U.token_to_username[x] \in {game'.controller[q], Bot}
      <3>1. CASE q = p
        BY <1>3, <2>2, <2>3, <3>1 DEF u
      <3>2. CASE q # p
        BY <1>2, <2>2, <2>3, <3>2 DEF SoundRoles
      <3>. QED  BY <3>1, <3>2
    <2>5. SoundRoles(game', U)
      BY <2>1, <2>2, <2>4 DEF SoundRoles
    <2>6. \A q \in Powers : game'.tokens[q] \subseteq game.tokens[q] \cup {t}
      BY <2>2, <2>3
    <2>. QED  BY <2>2, <2>5, <2>6 DEF GameTokens, PlayerTokens
  <1>5. GameTokens(game') \subseteq Known(users)
    BY <1>1, <1>2, <1>4 DEF IInv, GameTokensAreKnown
  <1>. QED  BY <1>1, <1>4, <1>5, RolesIInv

LEMMA JoinAsBotIInv ==
    ASSUME IInv, NEW t \in Tokens, NEW h \in Handlers, NEW p \in Powers, JoinAsBot(t, h, p)
    PROVE  IInv'
  <1>. DEFINE U == Attached(t, h)
  <1>1. /\ Accepted(t, h) /\ loaded /\ U.token_to_username[t] = Bot
        /\ users' = U /\ game' = [game EXCEPT !.tokens[p] = @ \cup {t}]
        /\ open' = open /\ loaded' = loaded
    BY DEF JoinAsBot
  <1>2. PICK g \in {saved.game, game'} : saved' = [users |-> Persistent(U), game |-> g]
    BY DEF JoinAsBot
  <1>3. /\ Known(U) = Known(users) /\ SoundRoles(game, U) /\ SoundRoles(saved.game, U)
        /\ t \in Known(U)
    BY <1>1, AttachedLemma
  <1>. HIDE DEF U
  <1>4. SoundRoles(game', U) /\ GameTokens(game') \subseteq GameTokens(game) \cup {t}
    <2>1. game \in RolesRecord /\ game.observer \cap game.omniscient = {}
      BY <1>3 DEF SoundRoles
    <2>2. /\ game' \in RolesRecord
          /\ game'.observer = game.observer /\ game'.omniscient = game.omniscient
          /\ game'.controller = game.controller
          /\ game'.tokens = [game.tokens EXCEPT ![p] = game.tokens[p] \cup {t}]
      BY <1>1, <2>1 DEF RolesRecord
    <2>3. game.tokens \in [Powers -> SUBSET Tokens]
      BY <2>1 DEF RolesRecord
    <2>4. \A q \in Powers : game'.tokens[q] \subseteq game.tokens[q] \cup {t}
      BY <2>2, <2>3
    <2>5. \A q \in Powers : \A x \in game'.tokens[q] \cap Known(U) :
             U.token_to_username[x] \in {game'.controller[q], Bot}
      BY <1>1, <1>3, <2>2, <2>4 DEF SoundRoles
    <2>. QED  BY <2>1, <2>2, <2>4, <2>5 DEF SoundRoles, GameTokens, PlayerTokens
  <1>5. GameTokens(game') \subseteq Known(users)
    BY <1>1, <1>3, <1>4 DEF IInv, GameTokensAreKnown
  <1>6. SoundRoles(g, U)
    BY <1>3, <1>4
  <1>. QED  BY <1>1, <1>2, <1>4, <1>5, <1>6, RolesIInv DEF U

LEMMA LeaveGameIInv ==
    ASSUME IInv, NEW t \in Tokens, NEW h \in Handlers, LeaveGame(t, h)
    PROVE  IInv'
  <1>. DEFINE U == Attached(t, h)
  <1>1. /\ Accepted(t, h) /\ loaded
        /\ users' = U /\ saved' = [users |-> Persistent(U), game |-> game']
        /\ \/ \E p \in Powers : game' = Dismiss(game, {p})
           \/ game' = [game EXCEPT !.observer = @ \ {t}]
           \/ game' = [game EXCEPT !.omniscient = @ \ {t}]
        /\ open' = open /\ loaded' = loaded
    BY DEF LeaveGame
  <1>2. SoundRoles(game, U)
    BY <1>1, AttachedLemma
  <1>. HIDE DEF U
  <1>3. SoundRoles(game', U) /\ GameTokens(game') \subseteq GameTokens(game)
    <2>1. game \in RolesRecord /\ game.observer \cap game.omniscient = {}
      BY <1>2 DEF SoundRoles
    <2>2. CASE \E p \in Powers : game' = Dismiss(game, {p})
      BY <1>2, <2>2, DismissLemma
    <2>3. CASE \/ game' = [game EXCEPT !.observer = @ \ {t}]
               \/ game' = [game EXCEPT !.omniscient = @ \ {t}]
      <3>1. /\ game' \in RolesRecord /\ Fewer(game', game)
            /\ game'.observer \cap game'.omniscient = {}
        BY <2>1, <2>3 DEF RolesRecord, Fewer
      <3>. QED  BY <1>2, <3>1, FewerLemma
    <2>. QED  BY <1>1, <2>2, <2>3
  <1>4. GameTokens(game') \subseteq Known(users)
    BY <1>1, <1>3 DEF IInv, GameTokensAreKnown
  <1>. QED  BY <1>1, <1>3, <1>4, RolesIInv DEF U

LEMMA RestartIInv ==
    ASSUME IInv, NEW everything \in BOOLEAN, Restart(everything)
    PROVE  IInv'
  <1>. DEFINE U == IF everything THEN Persistent(users) ELSE saved.users
              V == WithDefaults(U)
              g == IF everything /\ loaded THEN game ELSE saved.game
  <1>1. /\ users' = V /\ game' = g /\ loaded' = FALSE /\ open' = {}
        /\ saved' = [users |-> U, game |-> g]
    BY DEF Restart
  <1>2. SoundUsers(U) /\ SameTokens(U, users) /\ Unconnected(U)
    BY PersistentLemma DEF IInv, SavedIsSound
  <1>3. SoundRoles(g, users)
    BY DEF IInv, SavedIsSound
  <1>. HIDE DEF U, g
  <1>4. SoundUsers(V) /\ SameTokens(U, V) /\ DOMAIN V.handler_to_tokens = {}
    BY <1>2, WithDefaultsLemma
  <1>. HIDE DEF V
  <1>5. SameTokens(V, users)
    BY <1>2, <1>4 DEF SameTokens
  <1>6. SoundRoles(g, V)
    BY <1>3, <1>5, SameRolesLemma
  <1>. QED  BY <1>1, <1>2, <1>4, <1>6, SavedIInv

LEMMA LoadGameIInv ==
    ASSUME IInv, LoadGame
    PROVE  IInv'
  <1>. DEFINE f == FilterUsernames(game, users.users)
              r == FilterTokens(f, Known(users))
  <1>1. /\ game' = r /\ loaded' = TRUE /\ users' = users /\ open' = open /\ saved' = saved
    BY DEF LoadGame
  <1>2. SoundRoles(f, users)
    BY FilterUsernamesLemma DEF IInv
  <1>. HIDE DEF f
  <1>3. SoundRoles(r, users) /\ GameTokens(r) \subseteq Known(users)
    BY <1>2, FilterTokensLemma
  <1>. HIDE DEF r
  <1>. QED  BY <1>1, <1>3 DEF IInv, SavedIsSound, ConnectionsAreOpen, GameTokensAreKnown

LEMMA StutterIInv ==
    ASSUME IInv, UNCHANGED vars
    PROVE  IInv'
  BY DEF IInv, SavedIsSound, ConnectionsAreOpen, GameTokensAreKnown, vars

LEMMA NextIInv ==
    ASSUME IInv, [Next]_vars
    PROVE  IInv'
  <1>1. ASSUME NEW h \in Handlers, Open(h) \/ Close(h) PROVE IInv'
    BY <1>1, OpenIInv, CloseIInv
  <1>2. ASSUME NEW u \in Users, NEW h \in Handlers, NEW t \in Tokens, SignIn(u, h, t) PROVE IInv'
    BY <1>2, SignInIInv
  <1>3. ASSUME NEW t \in Tokens, NEW h \in Handlers,
               \/ RemoveToken(t, h)
               \/ JoinAsObserver(t, h)
               \/ LeaveGame(t, h)
        PROVE  IInv'
    BY <1>3, RemoveTokenIInv, JoinAsObserverIInv, LeaveGameIInv
  <1>4. ASSUME NEW t \in Tokens, NEW h \in Handlers, NEW p \in Powers,
               JoinAsPlayer(t, h, p) \/ JoinAsBot(t, h, p)
        PROVE  IInv'
    BY <1>4, JoinAsPlayerIInv, JoinAsBotIInv
  <1>5. ASSUME NEW t \in Tokens, NEW h \in Handlers, NEW u \in Users, DeleteAccount(t, h, u)
        PROVE  IInv'
    BY <1>5, DeleteAccountIInv
  <1>6. ASSUME NEW t \in Tokens, NEW h \in Handlers, NEW u \in Graded, NEW promote \in BOOLEAN,
               SetAdmin(t, h, u, promote)
        PROVE  IInv'
    BY <1>6, GradesAssumption, SetAdminIInv
  <1>7. ASSUME NEW t \in Tokens, NEW h \in Handlers, NEW u \in Graded, NEW grade \in Grades,
               NEW promote \in BOOLEAN, SetGrade(t, h, u, grade, promote)
        PROVE  IInv'
    BY <1>7, GradesAssumption, SetGradeIInv
  <1>8. ASSUME NEW everything \in BOOLEAN, Restart(everything) PROVE IInv'
    BY <1>8, RestartIInv
  <1>. QED  BY <1>1, <1>2, <1>3, <1>4, <1>5, <1>6, <1>7, <1>8, LoadGameIInv, StutterIInv DEF Next

LEMMA SpecIInv == Spec => []IInv
  BY InitIInv, NextIInv, PTL DEF Spec

-----------------------------------------------------------------------------
\* The tables of users, tokens and connections agree with one another, in memory
\* and on the disk, and lead to open connections only, whatever requests, closed
\* connections, failures and restarts there were.
THEOREM TablesStaySound == Spec => []TablesAreSound
  <1>1. ASSUME NEW U, SoundUsers(U) PROVE IsUsers(U) /\ Agree(U)
    BY <1>1 DEF SoundUsers, UsersRecord, IsUsers
  <1>2. ASSUME NEW g, NEW U, SoundRoles(g, U) PROVE IsRoles(g)
    BY <1>2 DEF SoundRoles, RolesRecord, IsRoles
  <1>3. IInv => TablesAreSound
    BY <1>1, <1>2 DEF IInv, SavedIsSound, TablesAreSound, TypeOK, TablesAgree, ConnectionsAreOpen
  <1>. QED  BY <1>3, SpecIInv, PTL

\* A game in memory addresses only tokens the server knows, what a power is told
\* goes to its present player and to the private bot, and no token has two
\* observing roles.
THEOREM AddresseesStaySound == Spec => []AddresseesAreSound
  <1>1. IInv => AddresseesAreSound
    BY DEF IInv, GameTokensAreKnown, SoundRoles, GameTokens, PlayerTokens,
           AddresseesAreSound, PowersTellTheirPlayer, OneObserverRole
  <1>. QED  BY <1>1, SpecIInv, PTL

-----------------------------------------------------------------------------
(* Grades. *)

\* What a step of GradesAreApplied says.
Applied ==
    loaded /\ loaded' =>
        \A t \in Known(users) \cap Known(users)' :
            (Entitled(t) # Entitled(t)') /\ ~Mixed(users.token_to_username[t]) =>
                t \notin IF Entitled(t)' THEN game.observer' ELSE game.omniscient'

\* No token that stays gains or loses the right to omniscience.
SameRights == \A t \in Known(users) \cap Known(users)' : Entitled(t) <=> Entitled(t)'

LEMMA SameRightsLemma ==
    ASSUME SameRights
    PROVE  Applied
  BY DEF SameRights, Applied, Entitled, UserIsOmniscient, UserIsMaster

LEMMA SameGradesLemma ==
    ASSUME users'.administrators = users.administrators,
           \A t \in Known(users) \cap Known(users') :
               users'.token_to_username[t] = users.token_to_username[t],
           game'.moderator_usernames = game.moderator_usernames,
           game'.omniscient_usernames = game.omniscient_usernames
    PROVE  Applied
  <1>1. SameRights
    BY DEF SameRights, Entitled, UserIsOmniscient, UserIsMaster, Known
  <1>. QED  BY <1>1, SameRightsLemma

LEMMA SignInApplied ==
    ASSUME IInv, NEW u \in Users, NEW h \in Handlers, NEW t \in Tokens, SignIn(u, h, t)
    PROVE  Applied
  <1>. DEFINE U == [users EXCEPT !.users = @ \cup {u}]
              C == ConnectUser(U, u, h, t)
  <1>1. users' = C /\ game' = game /\ t \notin Known(users)
    BY DEF SignIn, Unused
  <1>2. /\ SoundUsers(U) /\ SameTokens(U, users) /\ Known(U) = Known(users) /\ u \in U.users
        /\ U.administrators = users.administrators
    <2>1. /\ SoundUsers(users) /\ IsShaped(users) /\ users.users \subseteq Users
          /\ users.administrators \subseteq users.users
          /\ \A x \in Known(users) : users.token_to_username[x] \in users.users
      BY SoundUsersLemma DEF IInv
    <2>2. /\ OtherAccounts(U, users) /\ U.users = users.users \cup {u}
          /\ U.administrators = users.administrators
      BY <2>1 DEF IsShaped, OtherAccounts, SameTokens
    <2>. HIDE DEF U
    <2>3. SoundUsers(U) /\ SameTokens(U, users) /\ Known(U) = Known(users)
      BY <2>1, <2>2, AccountsLemma
    <2>. QED  BY <2>2, <2>3
  <1>. HIDE DEF U
  <1>3. /\ C.administrators = users.administrators
        /\ \A x \in Known(users) : C.token_to_username[x] = users.token_to_username[x]
    BY <1>1, <1>2, ConnectUserLemma DEF SameTokens
  <1>. HIDE DEF C
  <1>. QED  BY <1>1, <1>3, SameGradesLemma

LEMMA CloseApplied ==
    ASSUME IInv, NEW h \in Handlers, Close(h)
    PROVE  Applied
  <1>. DEFINE R == RemoveConnection(users, h)
  <1>1. users' = R /\ game' = game
    BY DEF Close
  <1>2. SameTokens(R, users) /\ R.administrators = users.administrators
    BY RemoveConnectionLemma DEF IInv
  <1>. HIDE DEF R
  <1>. QED  BY <1>1, <1>2, SameGradesLemma DEF SameTokens

\* A request of a game that gives and takes no grade.
LEMMA RolesApplied ==
    ASSUME IInv, NEW t, NEW h \in Handlers, Accepted(t, h), users' = Attached(t, h),
           game'.moderator_usernames = game.moderator_usernames,
           game'.omniscient_usernames = game.omniscient_usernames
    PROVE  Applied
  <1>. DEFINE U == Attached(t, h)
  <1>1. SameTokens(U, users) /\ U.administrators = users.administrators /\ users' = U
    BY AttachedLemma
  <1>. HIDE DEF U
  <1>. QED  BY <1>1, SameGradesLemma DEF SameTokens

LEMMA JoinAsObserverApplied ==
    ASSUME IInv, NEW t \in Tokens, NEW h \in Handlers, JoinAsObserver(t, h)
    PROVE  Applied
  <1>1. game \in RolesRecord
    BY DEF IInv, SoundRoles
  <1>2. /\ Accepted(t, h) /\ users' = Attached(t, h)
        /\ \/ game' = [game EXCEPT !.omniscient = @ \cup {t}]
           \/ game' = [game EXCEPT !.observer = @ \cup {t}]
    BY DEF JoinAsObserver
  <1>3. /\ game'.moderator_usernames = game.moderator_usernames
        /\ game'.omniscient_usernames = game.omniscient_usernames
    BY <1>1, <1>2 DEF RolesRecord
  <1>. QED  BY <1>2, <1>3, RolesApplied

LEMMA JoinAsPlayerApplied ==
    ASSUME IInv, NEW t \in Tokens, NEW h \in Handlers, NEW p \in Powers, JoinAsPlayer(t, h, p)
    PROVE  Applied
  <1>1. game \in RolesRecord
    BY DEF IInv, SoundRoles
  <1>. DEFINE u == Attached(t, h).token_to_username[t]
  <1>2. /\ Accepted(t, h) /\ users' = Attached(t, h)
        /\ game' = [game EXCEPT !.controller[p] = u, !.tokens[p] = @ \cup {t}]
    BY DEF JoinAsPlayer
  <1>. HIDE DEF u
  <1>3. /\ game'.moderator_usernames = game.moderator_usernames
        /\ game'.omniscient_usernames = game.omniscient_usernames
    BY <1>1, <1>2 DEF RolesRecord
  <1>. QED  BY <1>2, <1>3, RolesApplied

LEMMA JoinAsBotApplied ==
    ASSUME IInv, NEW t \in Tokens, NEW h \in Handlers, NEW p \in Powers, JoinAsBot(t, h, p)
    PROVE  Applied
  <1>1. game \in RolesRecord
    BY DEF IInv, SoundRoles
  <1>2. /\ Accepted(t, h) /\ users' = Attached(t, h)
        /\ game' = [game EXCEPT !.tokens[p] = @ \cup {t}]
    BY DEF JoinAsBot
  <1>3. /\ game'.moderator_usernames = game.moderator_usernames
        /\ game'.omniscient_usernames = game.omniscient_usernames
    BY <1>1, <1>2 DEF RolesRecord
  <1>. QED  BY <1>2, <1>3, RolesApplied

LEMMA LeaveGameApplied ==
    ASSUME IInv, NEW t \in Tokens, NEW h \in Handlers, LeaveGame(t, h)
    PROVE  Applied
  <1>1. game \in RolesRecord /\ SoundRoles(game, users)
    BY DEF IInv, SoundRoles
  <1>2. /\ Accepted(t, h) /\ users' = Attached(t, h)
        /\ \/ \E p \in Powers : game' = Dismiss(game, {p})
           \/ game' = [game EXCEPT !.observer = @ \ {t}]
           \/ game' = [game EXCEPT !.omniscient = @ \ {t}]
    BY DEF LeaveGame
  <1>3. /\ game'.moderator_usernames = game.moderator_usernames
        /\ game'.omniscient_usernames = game.omniscient_usernames
    <2>1. CASE \E p \in Powers : game' = Dismiss(game, {p})
      BY <1>1, <2>1, DismissLemma
    <2>2. CASE \/ game' = [game EXCEPT !.observer = @ \ {t}]
               \/ game' = [game EXCEPT !.omniscient = @ \ {t}]
      BY <1>1, <2>2 DEF RolesRecord
    <2>. QED  BY <1>2, <2>1, <2>2
  <1>. QED  BY <1>2, <1>3, RolesApplied

LEMMA RemoveTokenApplied ==
    ASSUME IInv, NEW t \in Tokens, NEW h \in Handlers, RemoveToken(t, h)
    PROVE  Applied
  <1>. DEFINE U == Attached(t, h)
              D == DisconnectToken(U, t)
              r == FilterTokens(game, Tokens \ {t})
  <1>1. Accepted(t, h) /\ users' = D /\ game' = IF loaded THEN r ELSE game
    BY DEF RemoveToken
  <1>2. /\ SoundUsers(U) /\ SameTokens(U, users) /\ t \in Known(U)
        /\ U.administrators = users.administrators
    BY <1>1, AttachedLemma
  <1>. HIDE DEF U
  <1>3. /\ D.administrators = U.administrators
        /\ \A x \in Known(D) : D.token_to_username[x] = U.token_to_username[x]
    BY <1>2, DisconnectTokenLemma
  <1>. HIDE DEF D
  <1>4. /\ r.moderator_usernames = game.moderator_usernames
        /\ r.omniscient_usernames = game.omniscient_usernames
    BY FilterTokensLemma DEF IInv
  <1>. HIDE DEF r
  <1>. QED  BY <1>1, <1>2, <1>3, <1>4, SameGradesLemma DEF SameTokens

\* Who keeps his tokens keeps his grades.
LEMMA DeleteAccountApplied ==
    ASSUME IInv, NEW t \in Tokens, NEW h \in Handlers, NEW u \in Users, DeleteAccount(t, h, u)
    PROVE  Applied
  <1>. DEFINE U == Attached(t, h)
  <1>1. Accepted(t, h)
    BY DEF DeleteAccount
  <1>2. /\ SoundUsers(U) /\ SameTokens(U, users) /\ Known(U) = Known(users)
        /\ U.administrators = users.administrators /\ SoundRoles(game, U)
    BY <1>1, AttachedLemma
  <1>3. CASE TokensOf(U, u) = {}
    <2>. DEFINE V == RemoveAccount(U, u)
    <2>1. users' = V /\ game' = game
      BY <1>3 DEF DeleteAccount
    <2>. HIDE DEF U
    <2>2. /\ V.administrators = U.administrators \ {u}
          /\ V.token_to_username = U.token_to_username
      <3>1. IsShaped(U)
        BY <1>2, SoundUsersLemma
      <3>2. V = [U EXCEPT !.users = @ \ {u}, !.administrators = @ \ {u}]
        BY DEF RemoveAccount
      <3>. HIDE DEF V
      <3>. QED  BY <3>1, <3>2 DEF IsShaped
    <2>. HIDE DEF V
    <2>3. \A x \in Known(users) : U.token_to_username[x] # u
      BY <1>2, <1>3, TokensOfLemma
    <2>4. SameRights
      BY <1>2, <2>1, <2>2, <2>3
         DEF SameRights, SameTokens, Entitled, UserIsOmniscient, UserIsMaster, Known
    <2>. QED  BY <2>4, SameRightsLemma
  <1>4. CASE TokensOf(U, u) # {}
    <2>. DEFINE R == RemoveUser(U, u)
                f == FilterTokens(game, Known(R))
                r == FilterUsernames(f, R.users)
    <2>1. users' = R /\ game' = IF loaded THEN r ELSE game
      BY <1>4 DEF DeleteAccount
    <2>. HIDE DEF U
    <2>2. /\ SoundUsers(R) /\ R.administrators = U.administrators \ {u}
          /\ R.users = U.users \ {u}
          /\ Known(R) = Known(U) \ TokensOf(U, u)
          /\ \A x \in Known(R) : R.token_to_username[x] = U.token_to_username[x]
      BY <1>2, <1>4, RemoveUserLemma
    <2>. HIDE DEF R
    <2>3. \A x \in Known(R) : U.token_to_username[x] \in R.users
      BY <2>2, SoundUsersLemma
    <2>4. /\ SoundRoles(f, U)
          /\ f.moderator_usernames = game.moderator_usernames
          /\ f.omniscient_usernames = game.omniscient_usernames
      BY <1>2, FilterTokensLemma
    <2>. HIDE DEF f
    <2>5. /\ r.moderator_usernames = game.moderator_usernames \cap R.users
          /\ r.omniscient_usernames = game.omniscient_usernames \cap R.users
      BY <2>4, FilterUsernamesLemma
    <2>. HIDE DEF r
    <2>6. loaded => SameRights
      BY <1>2, <2>1, <2>2, <2>3, <2>5
         DEF SameRights, SameTokens, Entitled, UserIsOmniscient, UserIsMaster
    <2>. QED  BY <2>6, SameRightsLemma DEF Applied
  <1>. QED  BY <1>3, <1>4

\* What a step comes to that changes the rights of u alone, and transfers the
\* tokens of u when it does.
LEMMA TransferApplied ==
    ASSUME IInv, NEW U, SoundUsers(U), SameTokens(U, users), SameTokens(users', users),
           NEW u, NEW up \in BOOLEAN, NEW g, SoundRoles(g, U),
           g.observer = game.observer, g.omniscient = game.omniscient,
           PlayerTokens(g) = PlayerTokens(game),
           \A t \in Known(users) : users.token_to_username[t] # u => (Entitled(t) <=> Entitled(t)'),
           \/ \A t \in Known(users) : users.token_to_username[t] = u => (Entitled(t) <=> Entitled(t)')
           \/ /\ game' \in Transferred(g, TokensOf(U, u), up)
              /\ \A t \in Known(users) : users.token_to_username[t] = u => (Entitled(t)' <=> up)
    PROVE  Applied
  <1>1. Known(users)' = Known(users)
    BY DEF SameTokens, Known
  <1>2. CASE \A t \in Known(users) : users.token_to_username[t] = u => (Entitled(t) <=> Entitled(t)')
    BY <1>1, <1>2, SameRightsLemma DEF SameRights
  <1>3. CASE /\ game' \in Transferred(g, TokensOf(U, u), up)
             /\ \A t \in Known(users) : users.token_to_username[t] = u => (Entitled(t)' <=> up)
    <2>1. TokensOf(U, u) = {t \in Known(users) : users.token_to_username[t] = u}
      BY TokensOfLemma DEF SameTokens, Known
    <2>2. TokensOf(users, u) = TokensOf(U, u)
      BY DEF SameTokens, TokensOf
    <2>3. ~Mixed(u) => TokensOf(U, u) \cap (IF up THEN game'.observer ELSE game'.omniscient) = {}
      BY <1>3, <2>2, TransferredLemma DEF Mixed
    <2>4. ASSUME NEW t \in Known(users), ~(Entitled(t) <=> Entitled(t)'),
                 ~Mixed(users.token_to_username[t])
          PROVE  t \notin IF Entitled(t)' THEN game'.observer ELSE game'.omniscient
      <3>1. users.token_to_username[t] = u
        BY <2>4
      <3>. QED  BY <1>3, <2>1, <2>3, <2>4, <3>1
    <2>. QED  BY <1>1, <2>4 DEF Applied, Entitled, UserIsOmniscient, UserIsMaster
  <1>. QED  BY <1>2, <1>3

LEMMA SetAdminApplied ==
    ASSUME IInv, NEW t \in Tokens, NEW h \in Handlers, NEW u \in Users,
           NEW promote \in BOOLEAN, SetAdmin(t, h, u, promote)
    PROVE  Applied
  <1>. DEFINE U == Attached(t, h)
              V == [U EXCEPT !.administrators = IF promote THEN @ \cup {u} ELSE @ \ {u}]
              named == u \in game.moderator_usernames \cup game.omniscient_usernames
  <1>1. /\ Accepted(t, h) /\ users' = V
        /\ IF loaded /\ ~named
           THEN game' \in Transferred(game, TokensOf(U, u), promote)
           ELSE game' = game
    BY DEF SetAdmin
  <1>2. /\ SoundUsers(U) /\ SameTokens(U, users)
        /\ U.administrators = users.administrators /\ SoundRoles(game, U)
    BY <1>1, AttachedLemma
  <1>. HIDE DEF U
  <1>3. /\ SameTokens(V, users)
        /\ V.administrators = IF promote THEN users.administrators \cup {u}
                              ELSE users.administrators \ {u}
    <2>1. IsShaped(U)
      BY <1>2, SoundUsersLemma
    <2>2. V = [U EXCEPT !.administrators = IF promote THEN U.administrators \cup {u}
                                           ELSE U.administrators \ {u}]
      OBVIOUS
    <2>. HIDE DEF V
    <2>. QED  BY <1>2, <2>1, <2>2 DEF IsShaped, SameTokens
  <1>. HIDE DEF V
  <1>4. /\ game'.moderator_usernames = game.moderator_usernames
        /\ game'.omniscient_usernames = game.omniscient_usernames
    BY <1>1, <1>2, TransferredLemma
  <1>5. \A x \in Known(users) : users.token_to_username[x] # u => (Entitled(x) <=> Entitled(x)')
    BY <1>1, <1>3, <1>4 DEF Entitled, UserIsOmniscient, UserIsMaster, SameTokens
  <1>6. named => \A x \in Known(users) :
                     users.token_to_username[x] = u => (Entitled(x) <=> Entitled(x)')
    BY <1>1, <1>3, <1>4 DEF Entitled, UserIsOmniscient, UserIsMaster, SameTokens
  <1>7. ~named => \A x \in Known(users) : users.token_to_username[x] = u => (Entitled(x)' <=> promote)
    BY <1>1, <1>3, <1>4 DEF Entitled, UserIsOmniscient, UserIsMaster, SameTokens
  <1>. HIDE DEF named
  <1>8. CASE loaded
    BY <1>1, <1>2, <1>3, <1>5, <1>6, <1>7, <1>8, TransferApplied
  <1>. QED  BY <1>8 DEF Applied

LEMMA SetGradeApplied ==
    ASSUME IInv, NEW t \in Tokens, NEW h \in Handlers, NEW u \in Users, NEW grade \in Grades,
           NEW promote \in BOOLEAN, SetGrade(t, h, u, grade, promote)
    PROVE  Applied
  <1>. DEFINE U == Attached(t, h)
              g == [game EXCEPT ![grade] = IF promote THEN @ \cup {u} ELSE @ \ {u}]
              was == UserIsOmniscient(U, game, u)
              up == UserIsOmniscient(U, g, u)
  <1>1. /\ Accepted(t, h) /\ users' = U
        /\ IF up = was THEN game' = g ELSE game' \in Transferred(g, TokensOf(U, u), up)
    BY DEF SetGrade
  <1>2. /\ SoundUsers(U) /\ SameTokens(U, users)
        /\ U.administrators = users.administrators /\ SoundRoles(game, U)
    BY <1>1, AttachedLemma
  <1>3. /\ SoundRoles(g, U) /\ PlayerTokens(g) = PlayerTokens(game)
        /\ g.observer = game.observer /\ g.omniscient = game.omniscient
        /\ \A v \in Users : v # u =>
              /\ v \in g.moderator_usernames <=> v \in game.moderator_usernames
              /\ v \in g.omniscient_usernames <=> v \in game.omniscient_usernames
    <2>1. g = [game EXCEPT ![grade] = IF promote THEN @ \cup {u} ELSE @ \ {u}]
      OBVIOUS
    <2>. HIDE DEF U, g, was, up
    <2>2. SoundRoles(g, U) /\ Regraded(g, game, u)
      BY <1>2, <2>1, GradeLemma
    <2>. QED  BY <2>2 DEF Regraded, PlayerTokens
  <1>4. was \in BOOLEAN /\ up \in BOOLEAN
    BY DEF UserIsOmniscient, UserIsMaster
  <1>. HIDE DEF U, g
  <1>5. /\ game'.moderator_usernames = g.moderator_usernames
        /\ game'.omniscient_usernames = g.omniscient_usernames
    <2>. HIDE DEF up, was
    <2>. QED  BY <1>1, <1>3, <1>4, TransferredLemma
  <1>6. \A x \in Known(users) : users.token_to_username[x] \in Users
    BY SoundUsersLemma DEF IInv
  <1>7. \A x \in Known(users) : users.token_to_username[x] # u => (Entitled(x) <=> Entitled(x)')
    BY <1>1, <1>2, <1>3, <1>5, <1>6 DEF Entitled, UserIsOmniscient, UserIsMaster, SameTokens
  <1>8. \A x \in Known(users) : users.token_to_username[x] = u => (Entitled(x)' <=> up)
    BY <1>1, <1>2, <1>5 DEF Entitled, UserIsOmniscient, UserIsMaster, SameTokens
  <1>9. \A x \in Known(users) : users.token_to_username[x] = u => (Entitled(x) <=> was)
    BY <1>2 DEF Entitled, UserIsOmniscient, UserIsMaster, SameTokens
  <1>. HIDE DEF up, was
  <1>10. SameTokens(users', users)
    BY <1>1, <1>2
  <1>11. CASE up = was
    BY <1>2, <1>3, <1>4, <1>7, <1>8, <1>9, <1>10, <1>11, TransferApplied
  <1>12. CASE up # was
    <2>1. game' \in Transferred(g, TokensOf(U, u), up)
      BY <1>1, <1>12
    <2>. QED  BY <1>2, <1>3, <1>4, <1>7, <1>8, <1>10, <2>1, TransferApplied
  <1>. QED  BY <1>11, <1>12

LEMMA NextApplied ==
    ASSUME IInv, [Next]_vars
    PROVE  Applied
  <1>1. ASSUME NEW h \in Handlers, Open(h) \/ Close(h) PROVE Applied
    BY <1>1, CloseApplied, SameGradesLemma DEF Open
  <1>2. ASSUME NEW u \in Users, NEW h \in Handlers, NEW t \in Tokens, SignIn(u, h, t) PROVE Applied
    BY <1>2, SignInApplied
  <1>3. ASSUME NEW t \in Tokens, NEW h \in Handlers,
               \/ RemoveToken(t, h)
               \/ JoinAsObserver(t, h)
               \/ LeaveGame(t, h)
        PROVE  Applied
    BY <1>3, RemoveTokenApplied, JoinAsObserverApplied, LeaveGameApplied
  <1>4. ASSUME NEW t \in Tokens, NEW h \in Handlers, NEW p \in Powers,
               JoinAsPlayer(t, h, p) \/ JoinAsBot(t, h, p)
        PROVE  Applied
    BY <1>4, JoinAsPlayerApplied, JoinAsBotApplied
  <1>5. ASSUME NEW t \in Tokens, NEW h \in Handlers, NEW u \in Users, DeleteAccount(t, h, u)
        PROVE  Applied
    BY <1>5, DeleteAccountApplied
  <1>6. ASSUME NEW t \in Tokens, NEW h \in Handlers, NEW u \in Graded, NEW promote \in BOOLEAN,
               SetAdmin(t, h, u, promote)
        PROVE  Applied
    BY <1>6, GradesAssumption, SetAdminApplied
  <1>7. ASSUME NEW t \in Tokens, NEW h \in Handlers, NEW u \in Graded, NEW grade \in Grades,
               NEW promote \in BOOLEAN, SetGrade(t, h, u, grade, promote)
        PROVE  Applied
    BY <1>7, GradesAssumption, SetGradeApplied
  <1>8. ASSUME NEW everything \in BOOLEAN, Restart(everything) PROVE Applied
    BY <1>8 DEF Restart, Applied
  <1>9. ASSUME LoadGame PROVE Applied
    BY <1>9 DEF LoadGame, Applied
  <1>10. ASSUME UNCHANGED vars PROVE Applied
    BY <1>10, SameGradesLemma DEF vars
  <1>. QED  BY <1>1, <1>2, <1>3, <1>4, <1>5, <1>6, <1>7, <1>8, <1>9, <1>10 DEF Next

\* A change of grade reaches every observer in the same step: a token whose right
\* to omniscience changes holds no role of the other kind afterwards, unless an
\* observing token of its user also plays.
THEOREM GradesReachObservers == Spec => GradesAreApplied
  <1>1. IInv /\ [Next]_vars => [Applied]_vars
    BY NextApplied
  <1>2. Spec => [][Applied]_vars
    BY <1>1, SpecIInv, PTL DEF Spec
  <1>. QED  BY <1>2 DEF GradesAreApplied, Applied
=============================================================================
