----------------------------- MODULE ServerStore -----------------------------
(***************************************************************************)
(* How the server keeps its data on disk (server/server.py): server.json   *)
(* and one file per game.  A handler that saves an object only registers a *)
(* copy of it; a periodic task, and the handler of SIGINT, write the       *)
(* copies out.  A file is written by renaming the old one to .backup,      *)
(* creating the file anew and filling it, and the process may die between  *)
(* any two of these.  A file that is not valid JSON is replaced by its     *)
(* .backup when it is read.                                                *)
(*                                                                         *)
(* Nothing else runs while the files are written except the signal         *)
(* handler, which may interrupt the writing and writes everything itself.  *)
(* The content of an object is abstracted to a version number.             *)
(***************************************************************************)
EXTENDS Integers, Sequences, FiniteSets, SequencesExt

CONSTANTS
    Games,          \* the games
    Server,         \* the server's own data: users, tokens, settings
    MaxVersion,     \* bound on the number of versions of an object
    Torn, None      \* the content of an unfinished file; absence

ASSUME GamesAssumption == IsFiniteSet(Games) /\ Server \notin Games
ASSUME VersionAssumption ==
    MaxVersion \in Nat /\ Torn \notin Nat /\ None \notin Nat /\ Torn # None

Objects == Games \cup {Server}
Version == 0..MaxVersion

VARIABLES
    running,    \* "no", "yes", or "stopping": SIGINT was handled
    memory,     \* object -> its version in memory, or None
    saved,      \* backup_server and backup_games: object -> version, or None
    file,       \* object -> content of its file: version, Torn or None
    backup,     \* object -> content of its .backup
    todo,       \* the objects that remain to be written, in this order
    step,       \* what was done for the first of them: "none", "renamed", "opened"
    last,       \* history: object -> version last written completely, or None
    torn        \* history: whether a signal interrupted a writing

vars == <<running, memory, saved, file, backup, todo, step, last, torn>>
disk == <<file, backup, last>>

Nothing == [o \in Objects |-> None]

\* A new directory; Server._load has just created the first server.json.
Init ==
    /\ running = "yes"
    /\ memory = [Nothing EXCEPT ![Server] = 0]
    /\ saved = Nothing
    /\ file = [Nothing EXCEPT ![Server] = 0] /\ backup = Nothing
    /\ todo = <<>> /\ step = "none"
    /\ last = [Nothing EXCEPT ![Server] = 0] /\ torn = FALSE

Idle == running = "yes" /\ todo = <<>>

\* A handler changes an object and saves it: save_data, save_game.  A game that
\* is not in memory changes by being created, under an identifier without a file.
NewVersion(o) == IF memory[o] = None THEN 0 ELSE memory[o] + 1

Change(o) ==
    /\ Idle
    /\ memory[o] = None => file[o] = None
    /\ memory[o] # MaxVersion
    /\ memory' = [memory EXCEPT ![o] = NewVersion(o)]
    /\ saved' = [saved EXCEPT ![o] = NewVersion(o)]
    /\ UNCHANGED <<running, disk, todo, step, torn>>

\* A handler changes a game and does not save it: on_clear_orders,
\* on_process_game.
ChangeUnsaved(g) ==
    /\ Idle
    /\ memory[g] \notin {None, MaxVersion}
    /\ memory' = [memory EXCEPT ![g] = NewVersion(g)]
    /\ UNCHANGED <<running, saved, disk, todo, step, torn>>

\* The server's data come first, then the games in any order.
Order(objects) ==
    LET games == SetToSeqs(objects \ {Server}) IN
    IF Server \in objects THEN {<<Server>> \o s : s \in games} ELSE games

Pending(copies) == {o \in Objects : copies[o] # None}

\* _task_save_database wakes up: backup_now().
StartBackup ==
    /\ Idle
    /\ Pending(saved) # {}
    /\ todo' \in Order(Pending(saved)) /\ step' = "none"
    /\ UNCHANGED <<running, memory, saved, disk, torn>>

\* A slip the checks must catch: the old file is not kept.
SkipRename ==
    /\ running # "no" /\ todo # <<>> /\ step = "none"
    /\ step' = "renamed"
    /\ UNCHANGED <<running, memory, saved, disk, todo, torn>>

\* save_json_on_disk, step by step, for the first object of todo.
RenameOld ==
    LET o == Head(todo) IN
    /\ running # "no" /\ todo # <<>> /\ step = "none"
    /\ IF file[o] = None THEN UNCHANGED <<file, backup>>
       ELSE backup' = [backup EXCEPT ![o] = file[o]] /\ file' = [file EXCEPT ![o] = None]
    /\ step' = "renamed"
    /\ UNCHANGED <<running, memory, saved, todo, last, torn>>

OpenFile ==
    /\ running # "no" /\ step = "renamed"
    /\ file' = [file EXCEPT ![Head(todo)] = Torn]
    /\ step' = "opened"
    /\ UNCHANGED <<running, memory, saved, backup, todo, last, torn>>

\* A slip the checks must catch: after the first file all copies are forgotten.
WriteFirst ==
    /\ running # "no" /\ step = "opened"
    /\ file' = [file EXCEPT ![Head(todo)] = saved[Head(todo)]]
    /\ last' = [last EXCEPT ![Head(todo)] = saved[Head(todo)]]
    /\ saved' = Nothing
    /\ todo' = <<>> /\ step' = "none"
    /\ UNCHANGED <<running, memory, backup, torn>>

\* backup_server is forgotten at once, backup_games when all games are written.
WriteFile ==
    LET o == Head(todo) IN
    /\ running # "no" /\ step = "opened"
    /\ file' = [file EXCEPT ![o] = saved[o]]
    /\ last' = [last EXCEPT ![o] = saved[o]]
    /\ saved' = IF Tail(todo) = <<>> THEN Nothing
                ELSE IF o = Server THEN [saved EXCEPT ![o] = None] ELSE saved
    /\ todo' = Tail(todo) /\ step' = "none"
    /\ UNCHANGED <<running, memory, backup, torn>>

\* A slip the checks must catch: the handler does not force the backup.
InterruptUnforced ==
    /\ running = "yes"
    /\ running' = "stopping"
    /\ todo' \in Order(Pending(saved)) /\ step' = "none"
    /\ torn' = (torn \/ step # "none")
    /\ UNCHANGED <<memory, saved, disk>>

\* SIGINT: InterruptionHandler.handler saves everything there is in memory,
\* backup_now(force=True), even in the middle of another backup_now.
Interrupt ==
    /\ running = "yes"
    /\ running' = "stopping"
    /\ saved' = [o \in Objects |-> IF memory[o] # None THEN memory[o] ELSE saved[o]]
    /\ todo' \in Order(Pending(saved')) /\ step' = "none"
    /\ torn' = (torn \/ step # "none")
    /\ UNCHANGED <<memory, disk>>

\* The previous handler of SIGINT ends the process.
Exit ==
    /\ running = "stopping" /\ todo = <<>>
    /\ running' = "no"
    /\ memory' = Nothing
    /\ UNCHANGED <<saved, disk, todo, step, torn>>

\* The process is killed.
Crash ==
    /\ running # "no"
    /\ running' = "no"
    /\ memory' = Nothing /\ saved' = Nothing
    /\ todo' = <<>> /\ step' = "none"
    /\ UNCHANGED <<disk, torn>>

\* load_json_from_disk reads the file or, if that is torn, the backup, which
\* then takes its place.
Whole(content) == content \in Version
Readable(o) == Whole(file[o]) \/ (file[o] = Torn /\ Whole(backup[o]))
Content(o) == IF Whole(file[o]) THEN file[o] ELSE backup[o]
Recover(o) ==
    /\ file' = [file EXCEPT ![o] = Content(o)]
    /\ backup' = IF Whole(file[o]) THEN backup ELSE [backup EXCEPT ![o] = None]

\* The server starts: _load.  Without server.json it creates the data anew and
\* writes them; with one it cannot read it does not start.
Start ==
    /\ running = "no"
    /\ running' = "yes" /\ step' = "none"
    /\ \/ /\ Readable(Server)
          /\ memory' = [Nothing EXCEPT ![Server] = Content(Server)]
          /\ Recover(Server)
          /\ saved' = Nothing /\ todo' = <<>>
       \/ /\ file[Server] = None
          /\ memory' = [Nothing EXCEPT ![Server] = 0]
          /\ saved' = [Nothing EXCEPT ![Server] = 0] /\ todo' = <<Server>>
          /\ UNCHANGED <<file, backup>>
    /\ UNCHANGED <<last, torn>>

\* A slip the checks must catch: the backup is preferred to the file.
LoadBackup(g) ==
    /\ Idle /\ memory[g] = None /\ file[g] # None /\ Whole(backup[g])
    /\ memory' = [memory EXCEPT ![g] = backup[g]]
    /\ UNCHANGED <<running, saved, disk, todo, step, torn>>

\* load_game, of a game that has a file.  One that cannot be read is removed.
LoadGame(g) ==
    /\ Idle /\ memory[g] = None /\ file[g] # None
    /\ IF Readable(g)
       THEN memory' = [memory EXCEPT ![g] = Content(g)] /\ Recover(g)
       ELSE file' = [file EXCEPT ![g] = None] /\ UNCHANGED <<memory, backup>>
    /\ UNCHANGED <<running, saved, last, todo, step, torn>>

Next ==
    \/ \E o \in Objects : Change(o)
    \/ \E g \in Games : ChangeUnsaved(g) \/ LoadGame(g)
    \/ StartBackup \/ RenameOld \/ OpenFile \/ WriteFile
    \/ Interrupt \/ Exit \/ Crash
    \/ Start

Spec == Init /\ [][Next]_vars

\* The event loop wakes the periodic task up, and a step begun is carried on.
FairSpec == Spec /\ WF_vars(StartBackup \/ RenameOld \/ OpenFile \/ WriteFile \/ Exit)
-----------------------------------------------------------------------------
\* The store's variables hold versions: what is not valid JSON never reaches
\* the memory.
TypeOK ==
    /\ running \in {"no", "yes", "stopping"} /\ torn \in BOOLEAN
    /\ {memory, saved, last} \subseteq [Objects -> Version \cup {None}]
    /\ {file, backup} \subseteq [Objects -> Version \cup {Torn, None}]
    /\ todo \in BoundedSeq(Objects, Cardinality(Objects))
    /\ step \in {"none", "renamed", "opened"}

\* What is read from the disk is the version that was written completely last,
\* wherever earlier writings were cut off.
LoadsTheLast ==
    [][\A o \in Objects :
          memory[o] = None /\ memory'[o] # None /\ file[o] # None => memory'[o] = last[o]]_vars

\* Of an object that was ever written completely some copy is whole, at every
\* moment the process may die, unless a signal interrupted a writing.
SomeCopyIsWhole ==
    \A o \in Objects : last[o] # None /\ ~torn => Whole(file[o]) \/ Whole(backup[o])

\* ... and what is not whole is never read for a version.
DiskIsSound == TypeOK /\ SomeCopyIsWhole

\* When SIGINT ends the server, the disk holds all that was in memory, saved by
\* its handler or not, and whatever the signal interrupted.
StopSavesAll ==
    running = "stopping" /\ todo = <<>> =>
        \A o \in Objects : memory[o] # None => file[o] = memory[o]

\* What a handler saved reaches the file, in this version or a later one, or the
\* process ends: a copy is not forgotten before it is written, nor put off by the
\* copies that go on being made.
Written(o, v) == Whole(file[o]) /\ file[o] >= v
SavedIsWritten ==
    \A o \in Objects, v \in Version : saved[o] = v ~> Written(o, v) \/ running = "no"

\* save_json_on_disk is to "back-up previous file version", and
\* load_json_from_disk to fall back on it: a server that starts again has the
\* users it wrote last.  It does not hold: _load does not look for the backup of
\* a file that is gone (see the README).
UsersSurvive ==
    [][running = "no" /\ running' = "yes" => memory'[Server] = last[Server]]_vars
=============================================================================
