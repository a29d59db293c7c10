----------------------------- MODULE StateFiles -----------------------------
(***************************************************************************)
(* The identity key and the database on disk (src/internal/coordinator/    *)
(* store.go: Initialize, exclusiveFile, OpenStore and validate).           *)
(*                                                                         *)
(* dshker-server init looks whether the two files exist, creates the key   *)
(* exclusively, writes and syncs it, creates an empty database exclusively *)
(* and fills it in one transaction.  Any number of init commands may run,  *)
(* with configurations that share a path or both; each may be killed or    *)
(* fail at any step and removes nothing; the machine may lose power, and   *)
(* with it the data that was not synced.  A new file whose data is synced  *)
(* is taken to be in its directory for good.                               *)
(***************************************************************************)
EXTENDS Naturals, FiniteSets, Sequences

CONSTANTS
    DatabasePath,   \* paths a configuration can name for the database
    KeyPath,        \* and for the identity key
    Command,        \* init commands; each generates a key pair of its own
    None

Path == DatabasePath \cup KeyPath

ASSUME PathAssumption == None \notin Path \cup Command

VARIABLES
    disk,       \* what each path holds
    inits       \* the init commands: their step and their configuration

fileVars == <<disk, inits>>

\* by is the command that created the file, and the identity of what it holds.
Absent == [by |-> None, holds |-> "nothing", synced |-> FALSE]
File == [by : Command, holds : {"nothing", "key", "database"}, synced : BOOLEAN]

\* Config.Validate requires two different paths.
Config == {c \in [database : DatabasePath, key : KeyPath] : c.database # c.key}
NoConfig == [database |-> None, key |-> None]

InitSteps == <<"lstatDatabase", "lstatKey", "createKey", "writeKey", "syncKey",
               "createDatabase", "commit">>
InitRow(c) == [at |-> 1, config |-> c]
NotRun == [at |-> 0, config |-> NoConfig]
Ended == Len(InitSteps) + 1

FilesTypeOK ==
    /\ disk \in [Path -> {Absent} \cup File]
    /\ inits \in [Command -> [at : 0..Ended, config : Config \cup {NoConfig}]]

FilesInit ==
    /\ disk = [x \in Path |-> Absent]
    /\ inits = [p \in Command |-> NotRun]

-----------------------------------------------------------------------------
At(p, step) == inits[p].at \in DOMAIN InitSteps /\ InitSteps[inits[p].at] = step
Database(p) == inits[p].config.database
Key(p) == inits[p].config.key

Advance(p) == inits' = [inits EXCEPT ![p].at = @ + 1]

\* A command that created nothing may as well be run again.
GiveUp(p) ==
    inits' = [inits EXCEPT ![p] =
        IF \E x \in Path : disk[x].by = p THEN [@ EXCEPT !.at = Ended] ELSE NotRun]

RunInit(p, c) ==
    /\ inits[p] = NotRun
    /\ inits' = [inits EXCEPT ![p] = InitRow(c)]
    /\ UNCHANGED disk

\* os.Lstat must say that the path does not exist.
Look(p, x) ==
    /\ IF disk[x] = Absent THEN Advance(p) ELSE GiveUp(p)
    /\ UNCHANGED disk

LookForDatabase(p) == At(p, "lstatDatabase") /\ Look(p, Database(p))
LookForKey(p) == At(p, "lstatKey") /\ Look(p, Key(p))

\* Mutant of Exclusive: what the look found is trusted, and the file truncated.
CreateOrTruncate(x) == TRUE

\* O_EXCL
Exclusive(x) == disk[x] = Absent

CreateFile(p, x) ==
    IF Exclusive(x)
    THEN /\ disk' = [disk EXCEPT ![x] = [by |-> p, holds |-> "nothing", synced |-> FALSE]]
         /\ Advance(p)
    ELSE GiveUp(p) /\ UNCHANGED disk

CreateKey(p) == At(p, "createKey") /\ CreateFile(p, Key(p))

WriteKey(p) ==
    /\ At(p, "writeKey")
    /\ disk' = [disk EXCEPT ![Key(p)].holds = "key"]
    /\ Advance(p)

\* Mutant of KeyReachesDisk: the file is closed without a sync.
KeyStaysCached(p) == UNCHANGED disk

KeyReachesDisk(p) == disk' = [disk EXCEPT ![Key(p)].synced = TRUE]

SyncKey(p) == At(p, "syncKey") /\ KeyReachesDisk(p) /\ Advance(p)

CreateDatabase(p) == At(p, "createDatabase") /\ CreateFile(p, Database(p))

\* The schema and the metadata row, in one transaction that SQLite syncs.
CommitSchema(p) ==
    /\ At(p, "commit")
    /\ disk' = [disk EXCEPT ![Database(p)].holds = "database",
                            ![Database(p)].synced = TRUE]
    /\ Advance(p)

\* An error of the file system, or a kill: what was created stays.
StopInit(p) ==
    /\ inits[p].at \in DOMAIN InitSteps
    /\ GiveUp(p)
    /\ UNCHANGED disk

\* What was not synced may be gone; nothing runs any more.
LosePower ==
    /\ \E lost \in SUBSET {x \in Path : disk[x] # Absent /\ ~disk[x].synced} :
         disk' = [x \in Path |->
                    IF x \in lost THEN [disk[x] EXCEPT !.holds = "nothing"] ELSE disk[x]]
    /\ inits' = [p \in Command |->
                   IF inits[p] = NotRun THEN NotRun ELSE [inits[p] EXCEPT !.at = Ended]]

InitStep(p) ==
    \/ LookForDatabase(p)
    \/ LookForKey(p)
    \/ CreateKey(p)
    \/ WriteKey(p)
    \/ SyncKey(p)
    \/ CreateDatabase(p)
    \/ CommitSchema(p)
    \/ StopInit(p)

CommandStep == \E p \in Command : InitStep(p) \/ \E c \in Config : RunInit(p, c)

FilesNext == CommandStep \/ LosePower

FilesSpec == FilesInit /\ [][FilesNext]_fileVars

\* OpenStore and validate: the key is a whole private key, the database holds
\* its one metadata row, and the certificate in it is of this key.
Opens(c) ==
    /\ disk[c.key].holds = "key"
    /\ disk[c.database].holds = "database"
    /\ disk[c.key].by = disk[c.database].by

-----------------------------------------------------------------------------
(* Correctness.                                                            *)

\* Wherever an init stopped, a database that is filled has its key: the key is
\* on disk, synced, under the path its command was given, and OpenStore takes
\* the two (Initialize writes the key first).  A database can never be left
\* whose identity is lost.
DatabaseHasKey ==
    \A x \in Path : disk[x].holds = "database" =>
        LET p == disk[x].by IN
        /\ Database(p) = x
        /\ disk[Key(p)].synced
        /\ Opens(inits[p].config)

\* No command takes over a file that another one created, whatever it saw when
\* it looked, and what reached the disk is never lost (exclusiveFile).
StateNeverOverwritten ==
    [][\A x \in Path : disk[x] # Absent =>
         /\ disk'[x].by = disk[x].by
         /\ disk[x].synced => disk'[x] = disk[x]
      ]_fileVars
=============================================================================
