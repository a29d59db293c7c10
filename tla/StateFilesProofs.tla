-------------------------- MODULE StateFilesProofs --------------------------
(***************************************************************************)
(* The state files, for any number of init commands and any configurations *)
(* of theirs: a filled database has its key, and no command overwrites     *)
(* what another one created.                                               *)
(*                                                                         *)
(* DatabaseHasKey alone is not inductive: FilesInv says of every command   *)
(* which files it must have created to be where it is, and that it keeps   *)
(* its configuration for as long as a file of its exists.                  *)
(***************************************************************************)
EXTENDS StateFiles, TLAPS

Makes(p, x) == disk[x] # Absent /\ disk[x].by = p

\* What a command at each step has on disk.
CommandInv(p) ==
    /\ inits[p].at = 0 <=> inits[p] = NotRun
    /\ inits[p] = NotRun => \A x \in Path : disk[x].by # p
    /\ inits[p] # NotRun => inits[p].config \in Config
    /\ inits[p].at \in 4..7 => Makes(p, Key(p))
    /\ inits[p].at \in 5..7 => disk[Key(p)].holds = "key"
    /\ inits[p].at = 4 => ~disk[Key(p)].synced
    /\ inits[p].at \in 6..7 => disk[Key(p)].synced
    /\ inits[p].at = 7 => Makes(p, Database(p)) /\ ~disk[Database(p)].synced

FilesInv == FilesTypeOK /\ DatabaseHasKey /\ \A p \in Command : CommandInv(p)

\* The steps of an init command, by their number.
LEMMA Numbers ==
    ASSUME NEW p \in Command, FilesTypeOK
    PROVE  /\ Ended = 8
           /\ At(p, "lstatDatabase") => inits[p].at = 1
           /\ At(p, "lstatKey") => inits[p].at = 2
           /\ At(p, "createKey") => inits[p].at = 3
           /\ At(p, "writeKey") => inits[p].at = 4
           /\ At(p, "syncKey") => inits[p].at = 5
           /\ At(p, "createDatabase") => inits[p].at = 6
           /\ At(p, "commit") => inits[p].at = 7
           /\ inits[p].at \in DOMAIN InitSteps => inits[p].at \in 1..7
BY DEF Ended, InitSteps, At, FilesTypeOK

\* What DatabaseHasKey says of one database.
LEMMA HasKeyFacts ==
    ASSUME FilesInv, NEW y \in Path, disk[y].holds = "database"
    PROVE  /\ disk[y].by \in Command
           /\ inits[disk[y].by].config \in Config
           /\ inits[disk[y].by].config.database = y
           /\ inits[disk[y].by].config.key \in Path
           /\ inits[disk[y].by].config.key # y
           /\ disk[inits[disk[y].by].config.key].synced
           /\ disk[inits[disk[y].by].config.key].holds = "key"
           /\ disk[inits[disk[y].by].config.key].by = disk[y].by
<1>1. disk[y].by \in Command
  BY DEF FilesInv, FilesTypeOK, File, Absent
<1>2. inits[disk[y].by].config \in Config
  BY <1>1 DEF FilesInv, CommandInv
<1>3. /\ inits[disk[y].by].config.database = y
      /\ disk[inits[disk[y].by].config.key].synced
      /\ disk[inits[disk[y].by].config.key].holds = "key"
      /\ disk[inits[disk[y].by].config.key].by = disk[y].by
  BY DEF FilesInv, DatabaseHasKey, Opens, Key, Database
<1>4. \A c \in Config : c.key \in Path /\ c.key # c.database
  BY DEF Config, Path
<1> QED
  BY <1>1, <1>2, <1>3, <1>4

\* And what has to be shown of it after a step.
LEMMA HasKeyIntro ==
    ASSUME \A y \in Path : disk'[y].holds = "database" =>
               /\ inits'[disk'[y].by].config.database = y
               /\ disk'[inits'[disk'[y].by].config.key].synced
               /\ disk'[inits'[disk'[y].by].config.key].holds = "key"
               /\ disk'[inits'[disk'[y].by].config.key].by = disk'[y].by
    PROVE  DatabaseHasKey'
<1>1. ASSUME NEW x \in Path, disk'[x].holds = "database"
      PROVE  LET c == inits'[disk'[x].by].config IN
             /\ c.database = x
             /\ disk'[c.key].synced
             /\ disk'[c.key].holds = "key"
             /\ disk'[c.database].holds = "database"
             /\ disk'[c.key].by = disk'[c.database].by
  BY <1>1
<1> QED
  BY <1>1 DEF DatabaseHasKey, Opens, Key, Database

\* Nothing is lost when the disk stays as it is and the commands that filled a
\* database keep their configurations.
LEMMA ConfigsKept ==
    ASSUME FilesInv, UNCHANGED disk,
           \A y \in Path : disk[y].holds = "database" =>
               inits'[disk[y].by].config = inits[disk[y].by].config
    PROVE  DatabaseHasKey'
<1>1. ASSUME NEW y \in Path, disk[y].holds = "database"
      PROVE  /\ inits'[disk[y].by].config.database = y
             /\ disk[inits'[disk[y].by].config.key].synced
             /\ disk[inits'[disk[y].by].config.key].holds = "key"
             /\ disk[inits'[disk[y].by].config.key].by = disk[y].by
  BY <1>1, HasKeyFacts
<1> QED
  BY <1>1, HasKeyIntro

\* A command that gives up keeps its configuration if it created a file.
LEMMA GiveUpKeepsInv ==
    ASSUME FilesInv, NEW p \in Command, inits[p].at \in 1..7, GiveUp(p), UNCHANGED disk
    PROVE  FilesInv'
<1>1. CASE \E x \in Path : disk[x].by = p
  <2>1. inits' = [inits EXCEPT ![p].at = 8]
    BY <1>1, Numbers DEF GiveUp, FilesInv
  <2>2. \A q \in Command : inits'[q] =
            IF q = p THEN [inits[p] EXCEPT !.at = 8] ELSE inits[q]
    BY <2>1 DEF FilesInv, FilesTypeOK
  <2>3. FilesTypeOK'
    BY <2>1, Numbers DEF FilesInv, FilesTypeOK
  <2>4. DatabaseHasKey'
    <3>1. \A q \in Command : inits'[q].config = inits[q].config
      BY <2>2 DEF FilesInv, FilesTypeOK
    <3> QED
      BY <3>1, HasKeyFacts, ConfigsKept
  <2>5. ASSUME NEW q \in Command PROVE CommandInv(q)'
    BY <1>1, <2>2 DEF FilesInv, FilesTypeOK, CommandInv, Makes, Key, Database, NotRun
  <2> QED
    BY <2>3, <2>4, <2>5 DEF FilesInv
<1>2. CASE \A x \in Path : disk[x].by # p
  <2>1. inits' = [inits EXCEPT ![p] = NotRun]
    BY <1>2 DEF GiveUp
  <2>2. FilesTypeOK'
    BY <2>1, Numbers DEF FilesInv, FilesTypeOK, NotRun
  <2>3. DatabaseHasKey'
    <3>1. \A q \in Command : q # p => inits'[q] = inits[q]
      BY <2>1 DEF FilesInv, FilesTypeOK
    <3> QED
      BY <1>2, <3>1, HasKeyFacts, ConfigsKept
  <2>4. ASSUME NEW q \in Command PROVE CommandInv(q)'
    BY <1>2, <2>1 DEF FilesInv, FilesTypeOK, CommandInv, Makes, Key, Database, NotRun
  <2> QED
    BY <2>2, <2>3, <2>4 DEF FilesInv
<1> QED
  BY <1>1, <1>2

\* A look that finds nothing goes on.
LEMMA LookKeepsInv ==
    ASSUME FilesInv, NEW p \in Command, inits[p].at \in 1..2, NEW x, Look(p, x)
    PROVE  FilesInv'
<1>1. CASE Advance(p) /\ UNCHANGED disk
  <2>1. \A q \in Command : inits'[q] =
            IF q = p THEN [inits[p] EXCEPT !.at = inits[p].at + 1] ELSE inits[q]
    BY <1>1 DEF Advance, FilesInv, FilesTypeOK
  <2>2. FilesTypeOK'
    BY <1>1, Numbers DEF Advance, FilesInv, FilesTypeOK
  <2>3. DatabaseHasKey'
    <3>1. \A q \in Command : inits'[q].config = inits[q].config
      BY <2>1 DEF FilesInv, FilesTypeOK
    <3> QED
      BY <1>1, <3>1, HasKeyFacts, ConfigsKept
  <2>4. ASSUME NEW q \in Command PROVE CommandInv(q)'
    BY <1>1, <2>1 DEF FilesInv, FilesTypeOK, CommandInv, Makes, Key, Database, NotRun
  <2> QED
    BY <2>2, <2>3, <2>4 DEF FilesInv
<1> QED
  BY <1>1, GiveUpKeepsInv DEF Look

\* A command creates, fills or syncs a file of its own and goes on.
OwnWrite(p, x, new) ==
    /\ inits[p].at \in 3..7
    /\ Advance(p)
    /\ disk[x] = Absent \/ Makes(p, x)
    /\ new.by = p
    /\ disk' = [disk EXCEPT ![x] = new]
    /\ disk[x].holds = "key" /\ disk[x].synced => new.holds = "key" /\ new.synced
    /\ new.holds = "database" =>
           /\ Database(p) = x /\ Key(p) # x /\ Key(p) \in Path /\ Makes(p, Key(p))
           /\ disk[Key(p)].holds = "key" /\ disk[Key(p)].synced

\* It disturbs no other command and no other file.
LEMMA OwnFileKeepsInv ==
    ASSUME FilesInv, NEW p \in Command, NEW x \in Path, NEW new \in File,
           OwnWrite(p, x, new), CommandInv(p)'
    PROVE  FilesInv'
<1> USE DEF OwnWrite
<1>1. \A q \in Command : inits'[q] =
          IF q = p THEN [inits[p] EXCEPT !.at = inits[p].at + 1] ELSE inits[q]
  BY DEF Advance, FilesInv, FilesTypeOK
<1>2. \A y \in Path : disk'[y] = IF y = x THEN new ELSE disk[y]
  BY DEF FilesInv, FilesTypeOK
<1>3. FilesTypeOK'
  <2>1. disk' \in [Path -> {Absent} \cup File]
    BY DEF FilesInv, FilesTypeOK
  <2>2. inits[p].at + 1 \in 0..Ended
    BY Numbers DEF FilesInv
  <2>3. inits' \in [Command -> [at : 0..Ended, config : Config \cup {NoConfig}]]
    BY <2>2 DEF Advance, FilesInv, FilesTypeOK
  <2> QED
    BY <2>1, <2>3 DEF FilesTypeOK
<1>4. DatabaseHasKey'
  <2> SUFFICES ASSUME NEW y \in Path, disk'[y].holds = "database"
               PROVE  /\ inits'[disk'[y].by].config.database = y
                      /\ disk'[inits'[disk'[y].by].config.key].synced
                      /\ disk'[inits'[disk'[y].by].config.key].holds = "key"
                      /\ disk'[inits'[disk'[y].by].config.key].by = disk'[y].by
    BY HasKeyIntro
  <2>1. CASE y = x
    <3>1. disk'[y] = new /\ inits'[p].config = inits[p].config
      BY <1>1, <1>2, <2>1 DEF FilesInv, FilesTypeOK
    <3> QED
      BY <1>2, <2>1, <3>1 DEF Makes, Key, Database
  <2>2. CASE y # x
    <3>1. disk'[y] = disk[y] /\ disk[y].holds = "database"
      BY <1>2, <2>2
    <3> DEFINE q == disk[y].by
    <3>2. /\ q \in Command /\ inits[q].config.database = y
          /\ inits[q].config.key \in Path
          /\ disk[inits[q].config.key].synced /\ disk[inits[q].config.key].holds = "key"
          /\ disk[inits[q].config.key].by = q
      BY <3>1, HasKeyFacts
    <3>3. inits'[q].config = inits[q].config
      BY <1>1, <3>2 DEF FilesInv, FilesTypeOK
    <3>4. inits[q].config.key = x => q = p
      BY <3>2 DEF Makes, Absent
    <3>5. /\ disk'[inits[q].config.key].synced
          /\ disk'[inits[q].config.key].holds = "key"
          /\ disk'[inits[q].config.key].by = q
      BY <1>2, <3>2, <3>4
    <3> QED
      BY <3>1, <3>2, <3>3, <3>5
  <2> QED
    BY <2>1, <2>2
<1>5. ASSUME NEW q \in Command, q # p PROVE CommandInv(q)'
  <2>1. inits'[q] = inits[q]
    BY <1>1, <1>5
  <2>2. \A y \in Path : disk[y].by = q /\ disk[y] # Absent =>
            disk'[y] = disk[y]
    BY <1>2, <1>5 DEF Makes
  <2>3. inits[q] = NotRun => \A y \in Path : disk'[y].by # q
    BY <1>2, <1>5 DEF FilesInv, CommandInv
  <2>4. inits[q].at \in 4..7 => Key(q) \in Path /\ Database(q) \in Path
    BY DEF FilesInv, CommandInv, NotRun, Config, Path, Key, Database
  <2> QED
    BY <2>1, <2>2, <2>3, <2>4 DEF FilesInv, CommandInv, Makes, Key, Database
<1> QED
  BY <1>3, <1>4, <1>5 DEF FilesInv

\* A command past its first step runs with a configuration.
LEMMA Configured ==
    ASSUME FilesInv, NEW p \in Command, inits[p].at \in 1..7
    PROVE  /\ inits[p] # NotRun /\ Key(p) # Database(p)
           /\ Key(p) \in Path /\ Database(p) \in Path /\ inits[p].config \in Config
BY DEF FilesInv, CommandInv, NotRun, Config, Path, Key, Database

\* What a step forward leaves of a command's own row.
LEMMA Forward ==
    ASSUME FilesTypeOK, NEW p \in Command, Advance(p)
    PROVE  /\ inits'[p].at = inits[p].at + 1
           /\ Key(p)' = Key(p) /\ Database(p)' = Database(p)
           /\ inits'[p].config = inits[p].config
BY DEF Advance, FilesTypeOK, Key, Database

\* The two exclusive creations.
LEMMA CreateKeepsInv ==
    ASSUME FilesInv, NEW p \in Command, NEW x \in Path, CreateFile(p, x),
           \/ inits[p].at = 3 /\ x = Key(p)
           \/ inits[p].at = 6 /\ x = Database(p)
    PROVE  FilesInv'
<1>1. CASE ~Exclusive(x)
  BY <1>1, GiveUpKeepsInv DEF CreateFile
<1>2. CASE Exclusive(x)
  <2> DEFINE new == [by |-> p, holds |-> "nothing", synced |-> FALSE]
  <2>1. new \in File /\ disk' = [disk EXCEPT ![x] = new] /\ Advance(p)
    BY <1>2 DEF CreateFile, File
  <2>2. disk[x] = Absent /\ disk[x].holds = "nothing"
    BY <1>2 DEF Exclusive, Absent
  <2>3. /\ disk'[x] = new /\ disk'[x] # Absent
        /\ \A y \in Path : y # x => disk'[y] = disk[y]
    BY <2>1, PathAssumption DEF FilesInv, FilesTypeOK, Absent
  <2>4. CommandInv(p)'
    BY <2>1, <2>3, Configured, Forward DEF FilesInv, CommandInv, Makes, NotRun
  <2> HIDE DEF new
  <2>5. new.by = p /\ new.holds = "nothing"
    BY DEF new
  <2>6. OwnWrite(p, x, new)
    BY <2>1, <2>2, <2>5 DEF OwnWrite
  <2> QED
    BY <2>1, <2>4, <2>6, OwnFileKeepsInv
<1> QED
  BY <1>1, <1>2

\* The key is written, then synced; the schema is committed last.
LEMMA WriteKeepsInv ==
    ASSUME FilesInv, NEW p \in Command, WriteKey(p) \/ SyncKey(p) \/ CommitSchema(p)
    PROVE  FilesInv'
<1>1. CASE WriteKey(p)
  <2> DEFINE new == [disk[Key(p)] EXCEPT !.holds = "key"]
  <2>1. inits[p].at = 4 /\ Advance(p) /\ Key(p) \in Path /\ Makes(p, Key(p))
    BY <1>1, Numbers, Configured DEF WriteKey, FilesInv, CommandInv
  <2>2. disk[Key(p)] \in File
    BY <2>1 DEF Makes, FilesInv, FilesTypeOK
  <2>3. new \in File /\ new.by = p /\ new.holds = "key" /\ new.synced = disk[Key(p)].synced
    BY <2>1, <2>2 DEF File, Makes
  <2>4. disk' = [disk EXCEPT ![Key(p)] = new]
    BY <1>1 DEF WriteKey
  <2>5. disk'[Key(p)] = new
    BY <2>1, <2>4 DEF FilesInv, FilesTypeOK
  <2> HIDE DEF new
  <2>6. CommandInv(p)'
    BY <2>1, <2>3, <2>5, Configured, Forward, PathAssumption
    DEF FilesInv, CommandInv, Makes, NotRun, Absent
  <2>7. OwnWrite(p, Key(p), new)
    BY <2>1, <2>3, <2>4 DEF OwnWrite
  <2> QED
    BY <2>1, <2>3, <2>6, <2>7, OwnFileKeepsInv
<1>2. CASE SyncKey(p)
  <2> DEFINE new == [disk[Key(p)] EXCEPT !.synced = TRUE]
  <2>1. /\ inits[p].at = 5 /\ Advance(p) /\ Key(p) \in Path /\ Makes(p, Key(p))
        /\ disk[Key(p)].holds = "key"
    BY <1>2, Numbers, Configured DEF SyncKey, FilesInv, CommandInv
  <2>2. disk[Key(p)] \in File
    BY <2>1 DEF Makes, FilesInv, FilesTypeOK
  <2>3. new \in File /\ new.by = p /\ new.holds = "key" /\ new.synced
    BY <2>1, <2>2 DEF File, Makes
  <2>4. disk' = [disk EXCEPT ![Key(p)] = new]
    BY <1>2 DEF SyncKey, KeyReachesDisk
  <2>5. disk'[Key(p)] = new
    BY <2>1, <2>4 DEF FilesInv, FilesTypeOK
  <2> HIDE DEF new
  <2>6. CommandInv(p)'
    BY <2>1, <2>3, <2>5, Configured, Forward, PathAssumption
    DEF FilesInv, CommandInv, Makes, NotRun, Absent
  <2>7. OwnWrite(p, Key(p), new)
    BY <2>1, <2>3, <2>4 DEF OwnWrite
  <2> QED
    BY <2>1, <2>3, <2>6, <2>7, OwnFileKeepsInv
<1>3. CASE CommitSchema(p)
  <2> DEFINE new == [disk[Database(p)] EXCEPT !.holds = "database", !.synced = TRUE]
  <2>1. /\ inits[p].at = 7 /\ Advance(p) /\ Database(p) \in Path /\ Makes(p, Database(p))
        /\ Makes(p, Key(p)) /\ disk[Key(p)].holds = "key" /\ disk[Key(p)].synced
        /\ ~disk[Database(p)].synced
    BY <1>3, Numbers, Configured DEF CommitSchema, FilesInv, CommandInv
  <2>2. disk[Database(p)] \in File
    BY <2>1 DEF Makes, FilesInv, FilesTypeOK
  <2>3. new \in File /\ new.by = p /\ new.holds = "database" /\ new.synced
    BY <2>1, <2>2 DEF File, Makes
  <2>4. disk' = [disk EXCEPT ![Database(p)] = new]
    BY <1>3 DEF CommitSchema
  <2> HIDE DEF new
  <2>5. CommandInv(p)'
    BY <2>1, Configured, Forward DEF FilesInv, CommandInv, NotRun
  <2>6. OwnWrite(p, Database(p), new)
    BY <2>1, <2>3, <2>4, Configured DEF OwnWrite, Makes
  <2> QED
    BY <2>1, <2>3, <2>5, <2>6, OwnFileKeepsInv
<1> QED
  BY <1>1, <1>2, <1>3

\* A new command has created nothing.
LEMMA RunKeepsInv ==
    ASSUME FilesInv, NEW p \in Command, NEW c \in Config, RunInit(p, c)
    PROVE  FilesInv'
<1>1. \A q \in Command : inits'[q] = IF q = p THEN [at |-> 1, config |-> c] ELSE inits[q]
  BY DEF RunInit, InitRow, FilesInv, FilesTypeOK
<1>2. FilesTypeOK'
  BY Numbers DEF RunInit, InitRow, FilesInv, FilesTypeOK
<1>3. \A y \in Path : disk[y].by # p
  BY DEF RunInit, FilesInv, CommandInv
<1>4. DatabaseHasKey'
  <2>1. \A q \in Command : q # p => inits'[q] = inits[q]
    BY <1>1
  <2>2. UNCHANGED disk
    BY DEF RunInit
  <2> QED
    BY <1>3, <2>1, <2>2, HasKeyFacts, ConfigsKept
<1>5. ASSUME NEW q \in Command PROVE CommandInv(q)'
  BY <1>1, <1>3 DEF RunInit, FilesInv, CommandInv, Makes, Key, Database, NotRun
<1> QED
  BY <1>2, <1>4, <1>5 DEF FilesInv

\* Losing what was not synced loses no key that a filled database needs.
LEMMA LosePowerKeepsInv == ASSUME FilesInv, LosePower PROVE FilesInv'
<1>1. \A q \in Command : inits'[q] =
          IF inits[q] = NotRun THEN NotRun ELSE [inits[q] EXCEPT !.at = Ended]
  BY DEF LosePower
<1>2. PICK lost \in SUBSET {x \in Path : disk[x] # Absent /\ ~disk[x].synced} :
          disk' = [x \in Path |->
                     IF x \in lost THEN [disk[x] EXCEPT !.holds = "nothing"] ELSE disk[x]]
  BY DEF LosePower
<1>3. \A y \in Path : disk'[y] =
          IF y \in lost THEN [disk[y] EXCEPT !.holds = "nothing"] ELSE disk[y]
  BY <1>2
<1>4. \A y \in Path : y \in lost => disk[y] \in File /\ ~disk[y].synced
  BY <1>2 DEF FilesInv, FilesTypeOK
<1>5. FilesTypeOK'
  <2>1. ASSUME NEW y \in Path PROVE disk'[y] \in {Absent} \cup File
    <3>1. CASE y \in lost
      <4>1. disk[y] \in File
        BY <1>4, <3>1
      <4>2. [disk[y] EXCEPT !.holds = "nothing"] \in File
        BY <4>1 DEF File
      <4> QED
        BY <1>3, <3>1, <4>2
    <3>2. CASE y \notin lost
      BY <1>3, <3>2 DEF FilesInv, FilesTypeOK
    <3> QED
      BY <3>1, <3>2
  <2>2. ASSUME NEW q \in Command
        PROVE  inits'[q] \in [at : 0..Ended, config : Config \cup {NoConfig}]
    <3>1. inits[q] \in [at : 0..Ended, config : Config \cup {NoConfig}] /\ Ended \in 0..Ended
      BY Numbers DEF FilesInv, FilesTypeOK
    <3>2. inits'[q] \in {inits[q], [inits[q] EXCEPT !.at = Ended]}
      BY <1>1
    <3> QED
      BY <3>1, <3>2
  <2> QED
    BY <1>2, <2>1, <2>2 DEF LosePower, FilesTypeOK
<1>6. DatabaseHasKey'
  <2> SUFFICES ASSUME NEW y \in Path, disk'[y].holds = "database"
               PROVE  /\ inits'[disk'[y].by].config.database = y
                      /\ disk'[inits'[disk'[y].by].config.key].synced
                      /\ disk'[inits'[disk'[y].by].config.key].holds = "key"
                      /\ disk'[inits'[disk'[y].by].config.key].by = disk'[y].by
    BY HasKeyIntro
  <2> DEFINE q == disk[y].by
  <2>1. disk'[y] = disk[y] /\ disk[y].holds = "database"
    BY <1>3, <1>4 DEF File
  <2>2. /\ q \in Command /\ inits[q].config.database = y
        /\ inits[q].config.key \in Path
        /\ disk[inits[q].config.key].synced /\ disk[inits[q].config.key].holds = "key"
        /\ disk[inits[q].config.key].by = q
    BY <2>1, HasKeyFacts
  <2>3. inits'[q].config = inits[q].config
    BY <1>1, <2>2 DEF FilesInv, FilesTypeOK
  <2>4. disk'[inits[q].config.key] = disk[inits[q].config.key]
    BY <1>3, <1>4, <2>2
  <2> QED
    BY <2>1, <2>2, <2>3, <2>4
<1>7. ASSUME NEW q \in Command PROVE CommandInv(q)'
  <2>1. \A y \in Path : disk'[y].by = disk[y].by
    BY <1>3, <1>4 DEF File
  <2>2. CASE inits[q] = NotRun
    <3>1. inits'[q] = NotRun
      BY <1>1, <2>2
    <3>2. \A y \in Path : disk'[y].by # q
      BY <2>1, <2>2 DEF FilesInv, CommandInv
    <3>3. NotRun.at = 0
      BY DEF NotRun
    <3> QED
      BY <3>1, <3>2, <3>3 DEF CommandInv
  <2>3. CASE inits[q] # NotRun
    <3>1. Ended = 8
      BY Numbers DEF FilesInv
    <3>2. inits'[q] = [inits[q] EXCEPT !.at = 8]
      BY <1>1, <2>3, <3>1
    <3>3. inits'[q].at = 8 /\ inits'[q].config = inits[q].config
      BY <3>2 DEF FilesInv, FilesTypeOK
    <3>4. inits'[q] # NotRun /\ inits[q].config \in Config
      BY <2>3, <3>3 DEF FilesInv, CommandInv, NotRun
    <3> QED
      BY <3>3, <3>4 DEF CommandInv
  <2> QED
    BY <2>2, <2>3
<1> QED
  BY <1>5, <1>6, <1>7 DEF FilesInv

\* Every step keeps the invariant.
LEMMA FilesNextInv == FilesInv /\ [FilesNext]_fileVars => FilesInv'
<1> SUFFICES ASSUME FilesInv, [FilesNext]_fileVars PROVE FilesInv'
  OBVIOUS
<1>1. ASSUME NEW p \in Command, LookForDatabase(p) \/ LookForKey(p) PROVE FilesInv'
  BY <1>1, Numbers, LookKeepsInv DEF LookForDatabase, LookForKey, FilesInv
<1>2. ASSUME NEW p \in Command, CreateKey(p) \/ CreateDatabase(p) PROVE FilesInv'
  BY <1>2, Numbers, Configured, CreateKeepsInv DEF CreateKey, CreateDatabase, FilesInv
<1>3. ASSUME NEW p \in Command, WriteKey(p) \/ SyncKey(p) \/ CommitSchema(p)
      PROVE  FilesInv'
  BY <1>3, WriteKeepsInv
<1>4. ASSUME NEW p \in Command, StopInit(p) PROVE FilesInv'
  BY <1>4, Numbers, GiveUpKeepsInv DEF StopInit, FilesInv
<1>5. ASSUME UNCHANGED fileVars PROVE FilesInv'
  <2>1. UNCHANGED disk /\ UNCHANGED inits
    BY <1>5 DEF fileVars
  <2>2. FilesTypeOK'
    BY <2>1 DEF FilesInv, FilesTypeOK
  <2>3. DatabaseHasKey'
    BY <2>1, ConfigsKept
  <2>4. ASSUME NEW p \in Command PROVE CommandInv(p)'
    BY <2>1 DEF FilesInv, CommandInv, Makes, Key, Database
  <2> QED
    BY <2>2, <2>3, <2>4 DEF FilesInv
<1> QED
  BY <1>1, <1>2, <1>3, <1>4, <1>5, RunKeepsInv, LosePowerKeepsInv
  DEF FilesNext, CommandStep, InitStep

\* The invariant holds in every reachable state.
LEMMA FilesInvariant == FilesSpec => []FilesInv
<1>1. FilesInit => FilesInv
  BY PathAssumption
  DEF FilesInit, FilesInv, FilesTypeOK, DatabaseHasKey, CommandInv, NotRun, Absent, Ended,
      InitSteps, Path
<1> QED
  BY <1>1, FilesNextInv, PTL DEF FilesSpec

\* A filled database has its key on disk, synced and under the configured path,
\* whatever commands ran, raced, failed or lost power (Initialize, OpenStore).
THEOREM IdentityKept == FilesSpec => []DatabaseHasKey
<1>1. FilesInv => DatabaseHasKey
  BY DEF FilesInv
<1> QED
  BY <1>1, FilesInvariant, PTL

\* One step never takes over or truncates a file that is there.
LEMMA NothingOverwritten ==
    ASSUME FilesInv, [FilesNext]_fileVars, NEW x \in Path, disk[x] # Absent
    PROVE  disk'[x].by = disk[x].by /\ (disk[x].synced => disk'[x] = disk[x])
<1>0. disk[x] \in File
  BY DEF FilesInv, FilesTypeOK
<1>1. CASE UNCHANGED disk
  BY <1>1
<1>2. ASSUME NEW p \in Command, NEW y \in Path, CreateFile(p, y)
      PROVE  disk'[x] = disk[x]
  BY <1>2 DEF CreateFile, Exclusive, FilesInv, FilesTypeOK
<1>3. ASSUME NEW p \in Command, WriteKey(p)
      PROVE  disk'[x].by = disk[x].by /\ (disk[x].synced => disk'[x] = disk[x])
  <2>1. ~disk[Key(p)].synced
    BY <1>3, Numbers DEF WriteKey, FilesInv, CommandInv
  <2> QED
    BY <1>0, <1>3, <2>1 DEF WriteKey, FilesInv, FilesTypeOK, File
<1>4. ASSUME NEW p \in Command, SyncKey(p)
      PROVE  disk'[x].by = disk[x].by /\ (disk[x].synced => disk'[x] = disk[x])
  BY <1>0, <1>4 DEF SyncKey, KeyReachesDisk, FilesInv, FilesTypeOK, File
<1>5. ASSUME NEW p \in Command, CommitSchema(p)
      PROVE  disk'[x].by = disk[x].by /\ (disk[x].synced => disk'[x] = disk[x])
  <2>1. ~disk[Database(p)].synced
    BY <1>5, Numbers DEF CommitSchema, FilesInv, CommandInv
  <2> QED
    BY <1>0, <1>5, <2>1 DEF CommitSchema, FilesInv, FilesTypeOK, File
<1>6. CASE LosePower
  BY <1>0, <1>6 DEF LosePower, File
<1>7. ASSUME NEW p \in Command, CreateKey(p) \/ CreateDatabase(p)
      PROVE  disk'[x] = disk[x]
  BY <1>2, <1>7, Numbers, Configured DEF CreateKey, CreateDatabase, FilesInv
<1>8. ASSUME NEW p \in Command, LookForDatabase(p) \/ LookForKey(p) \/ StopInit(p)
      PROVE  UNCHANGED disk
  BY <1>8 DEF LookForDatabase, LookForKey, StopInit, Look, GiveUp
<1>9. ASSUME NEW p \in Command, NEW c \in Config, RunInit(p, c) PROVE UNCHANGED disk
  BY <1>9 DEF RunInit
<1> QED
  BY <1>1, <1>3, <1>4, <1>5, <1>6, <1>7, <1>8, <1>9
  DEF FilesNext, CommandStep, InitStep, fileVars

\* No command takes over a file of another, and nothing that was synced is lost
\* (exclusiveFile), for any number of commands.
THEOREM NeverOverwritten == FilesSpec => StateNeverOverwritten
<1>1. FilesInv /\ [FilesNext]_fileVars =>
        [\A x \in Path : disk[x] # Absent =>
           /\ disk'[x].by = disk[x].by
           /\ disk[x].synced => disk'[x] = disk[x]
        ]_fileVars
  BY NothingOverwritten
<1> QED
  BY <1>1, FilesInvariant, PTL DEF FilesSpec, StateNeverOverwritten
=============================================================================
