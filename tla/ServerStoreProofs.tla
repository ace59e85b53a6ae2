-------------------------- MODULE ServerStoreProofs --------------------------
(***************************************************************************)
(* Proofs about ServerStore, for any number of games and versions: what is *)
(* read from the disk is what was written completely last, some copy of it *)
(* is whole wherever the process dies, and an orderly stop saves all.      *)
(***************************************************************************)
EXTENDS ServerStore, SequenceTheorems, FiniteSetTheorems, TLAPS

-----------------------------------------------------------------------------
(* What remains to be written: a sequence of objects without repetition.   *)

\* s is a list of the objects of S, each once.
Lists(s, S) == s \in Seq(S) /\ IsInjective(s) /\ Range(s) = S

LEMMA ObjectsAreFinite == IsFiniteSet(Objects)
  BY GamesAssumption, FS_AddElement DEF Objects

LEMMA ShortLemma ==
    ASSUME NEW s \in Seq(Objects), IsInjective(s)
    PROVE  s \in BoundedSeq(Objects, Cardinality(Objects))
  <1>. DEFINE D == 1..Len(s)
  <1>1. Len(s) \in Nat /\ DOMAIN s = D /\ s \in [D -> Objects]
    BY LenProperties
  <1>2. s \in Injection(D, Objects)
    BY <1>1 DEF Injection
  <1>3. Cardinality(D) <= Cardinality(Objects)
    BY <1>2, ObjectsAreFinite, FS_Injection
  <1>4. Cardinality(D) = Len(s)
    BY <1>1, FS_Interval
  <1>5. Cardinality(Objects) \in Nat
    BY ObjectsAreFinite, FS_CardinalityType
  <1>6. Len(s) \in 0..Cardinality(Objects)
    BY <1>1, <1>3, <1>4, <1>5
  <1>. QED  BY <1>1, <1>6 DEF BoundedSeq, SeqOf

LEMMA SetToSeqsLemma ==
    ASSUME NEW S, IsFiniteSet(S), NEW s \in SetToSeqs(S)
    PROVE  Lists(s, S)
  <1>. DEFINE D == 1..Cardinality(S)
  <1>1. Cardinality(S) \in Nat
    BY FS_CardinalityType
  <1>2. s \in [D -> S] /\ IsInjective(s)
    BY DEF SetToSeqs, IsInjective
  <1>3. s \in Seq(S)
    BY <1>1, <1>2
  <1>4. s \in Injection(D, S)
    BY <1>2 DEF Injection
  <1>5. Cardinality(D) = Cardinality(S)
    BY <1>1, FS_Interval
  <1>6. s \in Surjection(D, S)
    BY <1>4, <1>5, FS_Injection
  <1>7. Range(s) = S
    BY <1>2, <1>6 DEF Surjection, Range
  <1>. QED  BY <1>2, <1>3, <1>7 DEF Lists

LEMMA OrderLemma ==
    ASSUME NEW S \in SUBSET Objects, NEW s \in Order(S)
    PROVE  Lists(s, S)
  <1>. DEFINE games == S \ {Server}
  <1>1. IsFiniteSet(S) /\ IsFiniteSet(games)
    BY ObjectsAreFinite, FS_Subset
  <1>2. CASE Server \notin S
    <2>1. games = S /\ s \in SetToSeqs(S)
      BY <1>2 DEF Order
    <2>. QED  BY <1>1, <2>1, SetToSeqsLemma
  <1>3. CASE Server \in S
    <2>1. PICK r \in SetToSeqs(games) : s = <<Server>> \o r
      BY <1>3 DEF Order
    <2>2. Lists(r, games)
      BY <1>1, <2>1, SetToSeqsLemma
    <2>3. /\ r \in Seq(S) /\ IsInjective(r) /\ Range(r) = games
          /\ Len(r) \in Nat /\ DOMAIN r = 1..Len(r)
      BY <2>2 DEF Lists
    <2>4. /\ s \in Seq(S) /\ Len(s) = 1 + Len(r) /\ DOMAIN s = 1..(1 + Len(r)) /\ s[1] = Server
          /\ \A i \in 2..(1 + Len(r)) : s[i] = r[i - 1]
      <3>1. <<Server>> \in Seq(S) /\ Len(<<Server>>) = 1 /\ <<Server>>[1] = Server
        BY <1>3
      <3>. QED  BY <2>1, <2>3, <3>1, ConcatProperties
    <2>5. \A i \in 2..(1 + Len(r)) : i - 1 \in DOMAIN r /\ s[i] \in games
      BY <2>3, <2>4 DEF Range
    <2>6. IsInjective(s)
      <3>. SUFFICES ASSUME NEW a \in DOMAIN s, NEW b \in DOMAIN s, s[a] = s[b] PROVE a = b
        BY DEF IsInjective
      <3>1. CASE a = 1 \/ b = 1
        BY <3>1, <2>3, <2>4, <2>5
      <3>2. CASE a # 1 /\ b # 1
        <4>1. a - 1 \in DOMAIN r /\ b - 1 \in DOMAIN r /\ r[a - 1] = r[b - 1]
          BY <3>2, <2>3, <2>4, <2>5
        <4>. QED  BY <4>1, <2>3, <2>4 DEF IsInjective
      <3>. QED  BY <3>1, <3>2
    <2>7. Range(s) = S
      <3>1. Range(s) \subseteq S
        BY <2>4 DEF Range
      <3>2. ASSUME NEW o \in S PROVE o \in Range(s)
        <4>1. CASE o = Server
          BY <4>1, <2>3, <2>4 DEF Range
        <4>2. CASE o # Server
          <5>1. PICK i \in DOMAIN r : r[i] = o
            BY <4>2, <2>3 DEF Range
          <5>2. i + 1 \in 2..(1 + Len(r)) /\ (i + 1) - 1 = i
            BY <5>1, <2>3
          <5>3. s[i + 1] = o
            BY <5>1, <5>2, <2>4
          <5>. QED  BY <5>2, <5>3, <2>3, <2>4 DEF Range
        <4>. QED  BY <4>1, <4>2
      <3>. QED  BY <3>1, <3>2
    <2>. QED  BY <2>4, <2>6, <2>7 DEF Lists
  <1>. QED  BY <1>2, <1>3

LEMMA TailLemma ==
    ASSUME NEW s \in Seq(Objects), IsInjective(s), s # <<>>
    PROVE  /\ Head(s) \in Objects /\ Head(s) \in Range(s)
           /\ Tail(s) \in Seq(Objects) /\ IsInjective(Tail(s))
           /\ Range(Tail(s)) = Range(s) \ {Head(s)}
  <1>1. /\ Tail(s) \in Seq(Objects) /\ Len(s) \in Nat /\ Len(s) > 0
        /\ Head(s) = s[1] /\ Head(s) \in Objects /\ DOMAIN s = 1..Len(s)
        /\ Len(Tail(s)) = Len(s) - 1 /\ DOMAIN Tail(s) = 1..(Len(s) - 1)
        /\ \A i \in 1..(Len(s) - 1) : Tail(s)[i] = s[i + 1]
    BY HeadTailProperties
  <1>2. Range(Tail(s)) \subseteq Range(s) \ {Head(s)}
    BY <1>1 DEF Range, IsInjective
  <1>3. ASSUME NEW o \in Range(s) \ {Head(s)} PROVE o \in Range(Tail(s))
    <2>1. PICK i \in 1..Len(s) : s[i] = o
      BY <1>1 DEF Range
    <2>2. i # 1 /\ i - 1 \in 1..(Len(s) - 1) /\ (i - 1) + 1 = i
      BY <1>1, <2>1
    <2>3. Tail(s)[i - 1] = o
      BY <1>1, <2>1, <2>2
    <2>. QED  BY <1>1, <2>2, <2>3 DEF Range
  <1>4. IsInjective(Tail(s))
    BY <1>1 DEF IsInjective
  <1>5. Head(s) \in Range(s)
    BY <1>1 DEF Range
  <1>. QED  BY <1>1, <1>2, <1>3, <1>4, <1>5

LEMMA EmptyLemma == /\ <<>> \in Seq(Objects) /\ IsInjective(<<>>) /\ Range(<<>>) = {}
  BY DEF IsInjective, Range

-----------------------------------------------------------------------------
(* The inductive invariant. *)

\* The variables but todo, which Listed is about.
Typed ==
    /\ running \in {"no", "yes", "stopping"} /\ torn \in BOOLEAN
    /\ memory \in [Objects -> Version \cup {None}] /\ saved \in [Objects -> Version \cup {None}]
    /\ last \in [Objects -> Version \cup {None}]
    /\ file \in [Objects -> Version \cup {Torn, None}]
    /\ backup \in [Objects -> Version \cup {Torn, None}]
    /\ step \in {"none", "renamed", "opened"}

\* What remains to be written is pending, each object once; the file of the first
\* is gone once it was renamed.
Listed ==
    /\ todo \in Seq(Objects) /\ IsInjective(todo) /\ Range(todo) \subseteq Pending(saved)
    /\ todo = <<>> => step = "none"
    /\ step = "renamed" => file[Head(todo)] = None

\* What load_json_from_disk would return is what was written completely last.
LastIsRead == \A o \in Objects :
    /\ Whole(file[o]) => file[o] = last[o]
    /\ ~Whole(file[o]) /\ Whole(backup[o]) => backup[o] = last[o]

\* An unfinished file is of an object nobody is going to write before it was read
\* and recovered, or the one that is being written: so no unfinished file takes
\* the place of a backup, unless a signal interrupted a writing.
UnfinishedIsIdle == ~torn => \A o \in Objects : file[o] = Torn =>
    \/ memory[o] = None /\ saved[o] = None
    \/ step = "opened" /\ o = Head(todo)

\* While the handler of SIGINT writes, what it has not yet written is what is in
\* memory, and so is what it has written.
StopIsComplete == running = "stopping" => \A o \in Objects : memory[o] # None =>
    IF o \in Range(todo) THEN saved[o] = memory[o] ELSE file[o] = memory[o]

IInv == Typed /\ Listed /\ LastIsRead /\ SomeCopyIsWhole /\ UnfinishedIsIdle /\ StopIsComplete

LEMMA InitIInv == Init => IInv
  <1>. SUFFICES ASSUME Init PROVE IInv
    OBVIOUS
  <1>1. 0 \in Version /\ 0 # None /\ 0 # Torn /\ Server \in Objects
    BY VersionAssumption DEF Version, Objects
  <1>2. Typed
    BY <1>1 DEF Init, Typed, Nothing
  <1>3. Listed
    BY EmptyLemma DEF Init, Listed
  <1>4. LastIsRead /\ SomeCopyIsWhole /\ UnfinishedIsIdle /\ StopIsComplete
    BY <1>1, VersionAssumption DEF Init, LastIsRead, SomeCopyIsWhole, UnfinishedIsIdle,
       StopIsComplete, Whole, Nothing, Version
  <1>. QED  BY <1>2, <1>3, <1>4 DEF IInv

LEMMA NewVersionLemma ==
    ASSUME Typed, NEW o \in Objects, memory[o] # MaxVersion
    PROVE  NewVersion(o) \in Version /\ NewVersion(o) # None
  BY VersionAssumption DEF Typed, NewVersion, Version

\* A handler that changes an object, and that may save it.
LEMMA ChangeIInv ==
    ASSUME IInv, NEW o \in Objects, Change(o)
    PROVE  IInv'
  <1>1. NewVersion(o) \in Version /\ NewVersion(o) # None
    BY NewVersionLemma DEF IInv, Change
  <1>2. /\ running = "yes" /\ todo = <<>> /\ todo' = todo /\ step' = step /\ running' = running
        /\ file' = file /\ backup' = backup /\ last' = last /\ torn' = torn
        /\ memory' = [memory EXCEPT ![o] = NewVersion(o)]
        /\ saved' = [saved EXCEPT ![o] = NewVersion(o)]
        /\ memory[o] = None => file[o] = None
    BY DEF Change, Idle, disk
  <1>. HIDE DEF NewVersion
  <1>3. Typed'
    BY <1>1, <1>2 DEF IInv, Typed
  <1>4. Listed'
    BY <1>2, EmptyLemma DEF IInv, Listed
  <1>5. LastIsRead' /\ SomeCopyIsWhole' /\ StopIsComplete'
    BY <1>2 DEF IInv, LastIsRead, SomeCopyIsWhole, StopIsComplete, Whole
  <1>6. UnfinishedIsIdle'
    BY <1>2, VersionAssumption DEF IInv, Typed, Listed, UnfinishedIsIdle
  <1>. QED  BY <1>3, <1>4, <1>5, <1>6 DEF IInv

LEMMA ChangeUnsavedIInv ==
    ASSUME IInv, NEW g \in Games, ChangeUnsaved(g)
    PROVE  IInv'
  <1>1. g \in Objects
    BY DEF Objects
  <1>2. NewVersion(g) \in Version /\ NewVersion(g) # None
    BY <1>1, NewVersionLemma DEF IInv, ChangeUnsaved
  <1>3. /\ running = "yes" /\ todo = <<>> /\ todo' = todo /\ step' = step /\ running' = running
        /\ file' = file /\ backup' = backup /\ last' = last /\ torn' = torn /\ saved' = saved
        /\ memory' = [memory EXCEPT ![g] = NewVersion(g)] /\ memory[g] # None
    BY DEF ChangeUnsaved, Idle, disk
  <1>. HIDE DEF NewVersion
  <1>4. Typed'
    BY <1>1, <1>2, <1>3 DEF IInv, Typed
  <1>5. Listed'
    BY <1>3 DEF IInv, Listed, Pending
  <1>6. LastIsRead' /\ SomeCopyIsWhole' /\ StopIsComplete'
    BY <1>3 DEF IInv, LastIsRead, SomeCopyIsWhole, StopIsComplete, Whole
  <1>7. UnfinishedIsIdle'
    BY <1>1, <1>3 DEF IInv, Typed, UnfinishedIsIdle
  <1>. QED  BY <1>4, <1>5, <1>6, <1>7 DEF IInv

LEMMA StartBackupIInv ==
    ASSUME IInv, StartBackup
    PROVE  IInv'
  <1>1. /\ running = "yes" /\ todo = <<>> /\ step = "none" /\ step' = "none" /\ running' = running
        /\ file' = file /\ backup' = backup /\ last' = last /\ torn' = torn /\ saved' = saved
        /\ memory' = memory /\ todo' \in Order(Pending(saved))
    BY DEF StartBackup, Idle, disk, IInv, Listed
  <1>2. Lists(todo', Pending(saved)) /\ Pending(saved) \subseteq Objects
    BY <1>1, OrderLemma DEF Pending
  <1>3. todo' # <<>>
    BY <1>2, EmptyLemma DEF StartBackup, Lists
  <1>4. Listed'
    BY <1>1, <1>2 DEF Listed, Lists, Pending
  <1>5. Typed' /\ LastIsRead' /\ SomeCopyIsWhole' /\ StopIsComplete' /\ UnfinishedIsIdle'
    BY <1>1 DEF IInv, Typed, LastIsRead, SomeCopyIsWhole, StopIsComplete, UnfinishedIsIdle, Whole
  <1>. QED  BY <1>4, <1>5 DEF IInv

\* The object that is written next.
LEMMA HeadLemma ==
    ASSUME IInv, todo # <<>>
    PROVE  /\ Head(todo) \in Objects /\ Head(todo) \in Range(todo)
           /\ saved[Head(todo)] \in Version
  BY TailLemma DEF IInv, Listed, Pending, Typed

LEMMA RenameOldIInv ==
    ASSUME IInv, RenameOld
    PROVE  IInv'
  <1>. DEFINE o == Head(todo)
  <1>1. /\ todo # <<>> /\ step = "none" /\ step' = "renamed" /\ running' = running
        /\ memory' = memory /\ saved' = saved /\ todo' = todo /\ last' = last /\ torn' = torn
        /\ IF file[o] = None THEN file' = file /\ backup' = backup
           ELSE backup' = [backup EXCEPT ![o] = file[o]] /\ file' = [file EXCEPT ![o] = None]
    BY DEF RenameOld
  <1>2. o \in Objects /\ o \in Range(todo) /\ saved[o] # None
    BY <1>1, HeadLemma, VersionAssumption DEF Version
  <1>3. ~torn => file[o] # Torn
    BY <1>1, <1>2 DEF IInv, UnfinishedIsIdle
  <1>4. Typed /\ ~Whole(None) /\ ~Whole(Torn) /\ None # Torn
    BY VersionAssumption DEF IInv, Whole, Version
  <1>5. file'[o] = None /\ (file[o] # None => backup'[o] = file[o])
    BY <1>1, <1>2, <1>4 DEF Typed
  <1>6. \A x \in Objects \ {o} : file'[x] = file[x] /\ backup'[x] = backup[x]
    BY <1>1, <1>4 DEF Typed
  <1>7. Typed'
    BY <1>1, <1>2, <1>4 DEF Typed
  <1>8. Listed'
    BY <1>1, <1>5 DEF IInv, Listed, Pending
  <1>9. file[o] = None => backup'[o] = backup[o]
    BY <1>1
  <1>. HIDE DEF o
  <1>10. LastIsRead'
    BY <1>1, <1>2, <1>4, <1>5, <1>6, <1>9 DEF IInv, LastIsRead, Typed, Whole
  <1>11. SomeCopyIsWhole'
    BY <1>1, <1>2, <1>3, <1>4, <1>5, <1>6, <1>9 DEF IInv, SomeCopyIsWhole, Typed, Whole
  <1>12. UnfinishedIsIdle'
    BY <1>1, <1>2, <1>4, <1>5, <1>6 DEF IInv, UnfinishedIsIdle
  <1>13. StopIsComplete'
    BY <1>1, <1>2, <1>6 DEF IInv, StopIsComplete
  <1>. QED  BY <1>7, <1>8, <1>10, <1>11, <1>12, <1>13 DEF IInv

LEMMA OpenFileIInv ==
    ASSUME IInv, OpenFile
    PROVE  IInv'
  <1>. DEFINE o == Head(todo)
  <1>1. /\ step = "renamed" /\ step' = "opened" /\ running' = running
        /\ memory' = memory /\ saved' = saved /\ todo' = todo /\ last' = last /\ torn' = torn
        /\ file' = [file EXCEPT ![o] = Torn] /\ backup' = backup
    BY DEF OpenFile
  <1>2. todo # <<>> /\ file[o] = None
    BY <1>1 DEF IInv, Listed
  <1>3. o \in Objects /\ o \in Range(todo)
    BY <1>2, HeadLemma
  <1>4. Typed /\ ~Whole(None) /\ ~Whole(Torn)
    BY VersionAssumption DEF IInv, Whole, Version
  <1>5. file'[o] = Torn /\ \A x \in Objects \ {o} : file'[x] = file[x]
    BY <1>1, <1>3, <1>4 DEF Typed
  <1>6. Typed'
    BY <1>1, <1>4 DEF Typed
  <1>7. Listed'
    BY <1>1, <1>2 DEF IInv, Listed, Pending
  <1>8. UnfinishedIsIdle'
    BY <1>1, <1>5 DEF IInv, UnfinishedIsIdle
  <1>. HIDE DEF o
  <1>9. LastIsRead' /\ SomeCopyIsWhole'
    BY <1>1, <1>2, <1>3, <1>4, <1>5 DEF IInv, LastIsRead, SomeCopyIsWhole, Whole
  <1>10. StopIsComplete'
    BY <1>1, <1>3, <1>5 DEF IInv, StopIsComplete
  <1>. QED  BY <1>6, <1>7, <1>8, <1>9, <1>10 DEF IInv

LEMMA WriteFileIInv ==
    ASSUME IInv, WriteFile
    PROVE  IInv'
  <1>. DEFINE o == Head(todo)
  <1>1. /\ step = "opened" /\ step' = "none" /\ running' = running
        /\ memory' = memory /\ todo' = Tail(todo) /\ torn' = torn /\ backup' = backup
        /\ file' = [file EXCEPT ![o] = saved[o]] /\ last' = [last EXCEPT ![o] = saved[o]]
        /\ saved' = IF Tail(todo) = <<>> THEN Nothing
                    ELSE IF o = Server THEN [saved EXCEPT ![o] = None] ELSE saved
    BY DEF WriteFile
  <1>2. todo # <<>> /\ todo \in Seq(Objects) /\ IsInjective(todo) /\ Range(todo) \subseteq Pending(saved)
    BY <1>1 DEF IInv, Listed
  <1>3. o \in Objects /\ saved[o] \in Version
    BY <1>2, HeadLemma
  <1>4. /\ todo' \in Seq(Objects) /\ IsInjective(todo') /\ Range(todo') = Range(todo) \ {o}
        /\ o \in Range(todo)
    BY <1>1, <1>2, TailLemma
  <1>5. Typed /\ ~Whole(None) /\ ~Whole(Torn) /\ \A v \in Version : Whole(v) /\ v # None /\ v # Torn
    BY VersionAssumption DEF IInv, Whole, Version
  <1>6. file'[o] = saved[o] /\ last'[o] = saved[o]
    BY <1>1, <1>3, <1>5 DEF Typed
  <1>7. \A x \in Objects \ {o} : file'[x] = file[x] /\ last'[x] = last[x]
    BY <1>1, <1>5 DEF Typed
  <1>8. \A x \in Objects : saved'[x] # None => saved'[x] = saved[x]
    BY <1>1, <1>5 DEF Nothing, Typed
  <1>9. \A x \in Range(todo') : saved'[x] = saved[x]
    <2>1. CASE Tail(todo) = <<>>
      BY <1>1, <2>1, EmptyLemma
    <2>2. CASE Tail(todo) # <<>>
      BY <1>1, <1>2, <1>4, <1>5, <2>2 DEF Typed, Pending
    <2>. QED  BY <2>1, <2>2
  <1>10. saved' \in [Objects -> Version \cup {None}]
    BY <1>1, <1>5 DEF Typed, Nothing
  <1>. HIDE DEF o
  <1>11. Typed'
    BY <1>1, <1>3, <1>5, <1>10 DEF Typed
  <1>12. Listed'
    BY <1>1, <1>2, <1>4, <1>9 DEF Listed, Pending
  <1>13. LastIsRead'
    BY <1>1, <1>3, <1>5, <1>6, <1>7 DEF IInv, LastIsRead, Whole
  <1>14. SomeCopyIsWhole'
    BY <1>1, <1>3, <1>5, <1>6, <1>7 DEF IInv, SomeCopyIsWhole, Whole
  <1>15. UnfinishedIsIdle'
    <2>. SUFFICES ASSUME ~torn, NEW x \in Objects, file'[x] = Torn
                  PROVE  memory'[x] = None /\ saved'[x] = None
      BY <1>1 DEF UnfinishedIsIdle
    <2>1. x # o
      BY <1>3, <1>5, <1>6
    <2>2. memory[x] = None /\ saved[x] = None
      BY <2>1, <1>7 DEF IInv, UnfinishedIsIdle, o
    <2>. QED  BY <2>2, <1>1, <1>8
  <1>16. StopIsComplete'
    BY <1>1, <1>4, <1>6, <1>7, <1>9 DEF IInv, StopIsComplete
  <1>. QED  BY <1>11, <1>12, <1>13, <1>14, <1>15, <1>16 DEF IInv

LEMMA InterruptIInv ==
    ASSUME IInv, Interrupt
    PROVE  IInv'
  <1>1. /\ running' = "stopping" /\ step' = "none" /\ torn' = (torn \/ step # "none")
        /\ saved' = [o \in Objects |-> IF memory[o] # None THEN memory[o] ELSE saved[o]]
        /\ todo' \in Order(Pending(saved')) /\ memory' = memory
        /\ file' = file /\ backup' = backup /\ last' = last
    BY DEF Interrupt, disk
  <1>2. Lists(todo', Pending(saved')) /\ Pending(saved') \subseteq Objects
    <2>. DEFINE S == Pending(saved')
    <2>1. S \in SUBSET Objects
      BY DEF Pending
    <2>. HIDE DEF S
    <2>2. todo' \in Order(S)
      BY <1>1 DEF S
    <2>3. Lists(todo', S)
      BY <2>1, <2>2, OrderLemma
    <2>. QED  BY <2>1, <2>3 DEF S
  <1>3. Typed'
    BY <1>1 DEF IInv, Typed
  <1>4. Listed'
    BY <1>1, <1>2 DEF Listed, Lists, Pending
  <1>5. LastIsRead' /\ SomeCopyIsWhole'
    BY <1>1 DEF IInv, LastIsRead, SomeCopyIsWhole, Whole
  <1>6. UnfinishedIsIdle'
    BY <1>1 DEF IInv, Typed, UnfinishedIsIdle
  <1>7. StopIsComplete'
    <2>. SUFFICES ASSUME NEW o \in Objects, memory[o] # None
                  PROVE  o \in Range(todo') /\ saved'[o] = memory[o]
      BY <1>1 DEF StopIsComplete
    <2>. QED  BY <1>1, <1>2 DEF Lists, Pending
  <1>. QED  BY <1>3, <1>4, <1>5, <1>6, <1>7 DEF IInv

LEMMA ExitIInv ==
    ASSUME IInv, Exit
    PROVE  IInv'
  <1>1. /\ running' = "no" /\ memory' = Nothing /\ saved' = saved /\ todo' = todo /\ step' = step
        /\ file' = file /\ backup' = backup /\ last' = last /\ torn' = torn
    BY DEF Exit, disk
  <1>2. Typed'
    BY <1>1 DEF IInv, Typed, Nothing
  <1>3. Listed'
    BY <1>1 DEF IInv, Listed, Pending
  <1>4. LastIsRead' /\ SomeCopyIsWhole' /\ UnfinishedIsIdle' /\ StopIsComplete'
    BY <1>1 DEF IInv, LastIsRead, SomeCopyIsWhole, UnfinishedIsIdle, StopIsComplete, Whole, Nothing
  <1>. QED  BY <1>2, <1>3, <1>4 DEF IInv

LEMMA CrashIInv ==
    ASSUME IInv, Crash
    PROVE  IInv'
  <1>1. /\ running' = "no" /\ memory' = Nothing /\ saved' = Nothing /\ todo' = <<>>
        /\ step' = "none" /\ file' = file /\ backup' = backup /\ last' = last /\ torn' = torn
    BY DEF Crash, disk
  <1>2. Typed'
    BY <1>1 DEF IInv, Typed, Nothing
  <1>3. Listed'
    BY <1>1, EmptyLemma DEF Listed
  <1>4. LastIsRead' /\ SomeCopyIsWhole' /\ UnfinishedIsIdle' /\ StopIsComplete'
    BY <1>1 DEF IInv, LastIsRead, SomeCopyIsWhole, UnfinishedIsIdle, StopIsComplete, Whole, Nothing
  <1>. QED  BY <1>2, <1>3, <1>4 DEF IInv

\* Reading an object gives its last version, and leaves its file whole.
LEMMA RecoverLemma ==
    ASSUME IInv, NEW o \in Objects, Readable(o), Recover(o), last' = last
    PROVE  /\ Content(o) \in Version /\ Content(o) = last[o] /\ file'[o] = last[o]
           /\ \A x \in Objects \ {o} : file'[x] = file[x] /\ backup'[x] = backup[x]
           /\ file' \in [Objects -> Version \cup {Torn, None}]
           /\ backup' \in [Objects -> Version \cup {Torn, None}]
           /\ LastIsRead' /\ (torn' = torn => SomeCopyIsWhole')
  <1>1. /\ file' = [file EXCEPT ![o] = Content(o)]
        /\ backup' = IF Whole(file[o]) THEN backup ELSE [backup EXCEPT ![o] = None]
        /\ Typed
    BY DEF Recover, IInv
  <1>2. Content(o) \in Version /\ Content(o) = last[o]
    BY DEF Content, Readable, Whole, IInv, LastIsRead
  <1>. HIDE DEF Content
  <1>3. file'[o] = last[o] /\ Whole(file'[o])
    BY <1>1, <1>2 DEF Typed, Whole
  <1>4. \A x \in Objects \ {o} : file'[x] = file[x] /\ backup'[x] = backup[x]
    BY <1>1 DEF Typed
  <1>5. /\ file' \in [Objects -> Version \cup {Torn, None}]
        /\ backup' \in [Objects -> Version \cup {Torn, None}]
    BY <1>1, <1>2 DEF Typed
  <1>6. LastIsRead' /\ (torn' = torn => SomeCopyIsWhole')
    BY <1>3, <1>4 DEF IInv, LastIsRead, SomeCopyIsWhole, Whole
  <1>. QED  BY <1>2, <1>3, <1>4, <1>5, <1>6

LEMMA StartIInv ==
    ASSUME IInv, Start
    PROVE  IInv'
  <1>1. running' = "yes" /\ step' = "none" /\ last' = last /\ torn' = torn /\ Server \in Objects
    BY DEF Start, Objects
  <1>2. 0 \in Version /\ ~Whole(None) /\ ~Whole(Torn) /\ \A v \in Version : v # None /\ v # Torn
    BY VersionAssumption DEF Version, Whole
  <1>3. CASE /\ Readable(Server) /\ memory' = [Nothing EXCEPT ![Server] = Content(Server)]
             /\ Recover(Server) /\ saved' = Nothing /\ todo' = <<>>
    <2>1. /\ Content(Server) \in Version /\ file'[Server] \in Version
          /\ \A x \in Objects \ {Server} : file'[x] = file[x]
          /\ file' \in [Objects -> Version \cup {Torn, None}]
          /\ backup' \in [Objects -> Version \cup {Torn, None}]
          /\ LastIsRead' /\ SomeCopyIsWhole'
      BY <1>1, <1>3, RecoverLemma
    <2>2. Typed'
      BY <1>1, <1>3, <2>1 DEF IInv, Typed, Nothing
    <2>3. Listed'
      BY <1>1, <1>3, EmptyLemma DEF Listed
    <2>4. UnfinishedIsIdle'
      BY <1>1, <1>2, <1>3, <2>1 DEF UnfinishedIsIdle, Nothing
    <2>5. StopIsComplete'
      BY <1>1 DEF StopIsComplete
    <2>. QED  BY <2>1, <2>2, <2>3, <2>4, <2>5 DEF IInv
  <1>4. CASE /\ file[Server] = None /\ memory' = [Nothing EXCEPT ![Server] = 0]
             /\ saved' = [Nothing EXCEPT ![Server] = 0] /\ todo' = <<Server>>
             /\ file' = file /\ backup' = backup
    <2>1. Typed'
      BY <1>1, <1>2, <1>4 DEF IInv, Typed, Nothing
    <2>2. /\ <<Server>> \in Seq(Objects) /\ IsInjective(<<Server>>) /\ Range(<<Server>>) = {Server}
          /\ <<Server>> # <<>>
      BY <1>1 DEF IsInjective, Range
    <2>3. Listed'
      BY <1>1, <1>2, <1>4, <2>2 DEF Listed, Pending, Nothing
    <2>4. LastIsRead' /\ SomeCopyIsWhole' /\ StopIsComplete'
      BY <1>1, <1>4 DEF IInv, LastIsRead, SomeCopyIsWhole, StopIsComplete, Whole
    <2>5. UnfinishedIsIdle'
      BY <1>1, <1>4, VersionAssumption DEF UnfinishedIsIdle, Nothing
    <2>. QED  BY <2>1, <2>3, <2>4, <2>5 DEF IInv
  <1>. QED  BY <1>3, <1>4 DEF Start

LEMMA LoadGameIInv ==
    ASSUME IInv, NEW g \in Games, LoadGame(g)
    PROVE  IInv'
  <1>1. /\ running = "yes" /\ running' = running /\ todo = <<>> /\ todo' = todo /\ step' = step
        /\ saved' = saved /\ last' = last /\ torn' = torn /\ memory[g] = None /\ file[g] # None
        /\ g \in Objects
    BY DEF LoadGame, Idle, Objects
  <1>2. Typed /\ step = "none" /\ ~Whole(None) /\ ~Whole(Torn) /\ \A v \in Version : v # None /\ v # Torn
    BY <1>1, VersionAssumption DEF Version, Whole, IInv, Listed
  <1>3. Listed'
    BY <1>1, <1>2, EmptyLemma DEF Listed
  <1>4. StopIsComplete'
    BY <1>1 DEF StopIsComplete
  <1>5. CASE Readable(g)
    <2>1. memory' = [memory EXCEPT ![g] = Content(g)] /\ Recover(g)
      BY <1>5 DEF LoadGame
    <2>2. /\ Content(g) \in Version /\ file'[g] \in Version
          /\ \A x \in Objects \ {g} : file'[x] = file[x]
          /\ file' \in [Objects -> Version \cup {Torn, None}]
          /\ backup' \in [Objects -> Version \cup {Torn, None}]
          /\ LastIsRead' /\ SomeCopyIsWhole'
      BY <1>1, <1>5, <2>1, RecoverLemma
    <2>3. Typed'
      BY <1>1, <1>2, <2>1, <2>2 DEF Typed
    <2>4. UnfinishedIsIdle'
      BY <1>1, <1>2, <2>1, <2>2 DEF IInv, Typed, UnfinishedIsIdle
    <2>. QED  BY <1>3, <1>4, <2>2, <2>3, <2>4 DEF IInv
  <1>6. CASE ~Readable(g)
    <2>1. file' = [file EXCEPT ![g] = None] /\ memory' = memory /\ backup' = backup
      BY <1>6 DEF LoadGame
    <2>2. ~Whole(file[g]) /\ ~Whole(backup[g])
      BY <1>1, <1>2, <1>6 DEF Readable, Typed, Whole
    <2>3. Typed'
      BY <1>1, <1>2, <2>1 DEF Typed
    <2>4. LastIsRead' /\ SomeCopyIsWhole'
      BY <1>1, <1>2, <2>1, <2>2 DEF IInv, Typed, LastIsRead, SomeCopyIsWhole, Whole
    <2>5. UnfinishedIsIdle'
      BY <1>1, <1>2, <2>1, VersionAssumption DEF IInv, Typed, UnfinishedIsIdle
    <2>. QED  BY <1>3, <1>4, <2>3, <2>4, <2>5 DEF IInv
  <1>. QED  BY <1>5, <1>6

LEMMA StutterIInv ==
    ASSUME IInv, UNCHANGED vars
    PROVE  IInv'
  BY DEF vars, disk, IInv, Typed, Listed, Pending, LastIsRead, SomeCopyIsWhole, UnfinishedIsIdle,
     StopIsComplete, Whole

LEMMA NextIInv == IInv /\ [Next]_vars => IInv'
  BY ChangeIInv, ChangeUnsavedIInv, LoadGameIInv, StartBackupIInv, RenameOldIInv, OpenFileIInv,
     WriteFileIInv, InterruptIInv, ExitIInv, CrashIInv, StartIInv, StutterIInv DEF Next

LEMMA SpecIInv == Spec => []IInv
  BY InitIInv, NextIInv, PTL DEF Spec

-----------------------------------------------------------------------------
(* The theorems. *)

\* The disk and the memory hold versions, and of every object that was ever
\* written completely some copy is whole, at every moment the process may die.
THEOREM DiskStaysSound == Spec => []DiskIsSound
  <1>1. IInv => DiskIsSound
    <2>. SUFFICES ASSUME IInv PROVE DiskIsSound
      OBVIOUS
    <2>1. todo \in BoundedSeq(Objects, Cardinality(Objects))
      BY ShortLemma DEF IInv, Listed
    <2>. QED  BY <2>1 DEF IInv, Typed, DiskIsSound, TypeOK
  <1>. QED  BY <1>1, SpecIInv, PTL

\* What the handler of SIGINT leaves on the disk is all that was in memory.
THEOREM StopIsOrderly == Spec => []StopSavesAll
  <1>1. IInv => StopSavesAll
    <2>. SUFFICES ASSUME IInv PROVE StopSavesAll
      OBVIOUS
    <2>. QED  BY EmptyLemma DEF IInv, StopIsComplete, StopSavesAll
  <1>. QED  BY <1>1, SpecIInv, PTL

\* What is read from the disk is the version that was written completely last.
LEMMA LoadsTheLastStep ==
    ASSUME IInv, [Next]_vars,
           NEW o \in Objects, memory[o] = None, memory'[o] # None, file[o] # None
    PROVE  memory'[o] = last[o]
  <1>1. memory \in [Objects -> Version \cup {None}] /\ memory' # memory
    BY DEF IInv, Typed
  <1>2. ASSUME NEW x \in Objects, Change(x) PROVE FALSE
    BY <1>1, <1>2 DEF Change
  <1>3. ASSUME NEW g \in Games, ChangeUnsaved(g) PROVE FALSE
    BY <1>1, <1>3 DEF ChangeUnsaved
  <1>4. ASSUME NEW g \in Games, LoadGame(g) PROVE memory'[o] = last[o]
    <2>1. g \in Objects
      BY DEF Objects
    <2>2. Readable(g) /\ memory' = [memory EXCEPT ![g] = Content(g)] /\ Recover(g) /\ last' = last
      BY <1>1, <1>4 DEF LoadGame
    <2>3. Content(g) = last[g]
      BY <2>1, <2>2, RecoverLemma
    <2>4. o = g
      BY <1>1, <2>1, <2>2
    <2>. QED  BY <1>1, <2>1, <2>2, <2>3, <2>4
  <1>5. ASSUME Start PROVE memory'[o] = last[o]
    <2>1. Server \in Objects /\ last' = last
      BY <1>5 DEF Start, Objects
    <2>2. o = Server
      BY <1>5 DEF Start, Nothing
    <2>3. /\ Readable(Server) /\ memory' = [Nothing EXCEPT ![Server] = Content(Server)]
          /\ Recover(Server)
      BY <1>5, <2>2 DEF Start
    <2>4. Content(Server) = last[Server]
      BY <2>1, <2>3, RecoverLemma
    <2>. QED  BY <2>1, <2>2, <2>3, <2>4 DEF Nothing
  <1>6. ASSUME Exit \/ Crash PROVE FALSE
    BY <1>6 DEF Exit, Crash, Nothing
  <1>7. ASSUME StartBackup \/ RenameOld \/ OpenFile \/ WriteFile \/ Interrupt \/ UNCHANGED vars
        PROVE  FALSE
    BY <1>1, <1>7 DEF StartBackup, RenameOld, OpenFile, WriteFile, Interrupt, vars
  <1>. QED  BY <1>2, <1>3, <1>4, <1>5, <1>6, <1>7 DEF Next

THEOREM ReadsTheLast == Spec => LoadsTheLast
  <1>1. IInv /\ [Next]_vars =>
          [\A o \in Objects : memory[o] = None /\ memory'[o] # None /\ file[o] # None
                                => memory'[o] = last[o]]_vars
    BY LoadsTheLastStep
  <1>. QED  BY <1>1, SpecIInv, PTL DEF Spec, LoadsTheLast
=============================================================================
