----------------------------- MODULE StoreRoles -----------------------------
(***************************************************************************)
(* The processes that share one datastore file: `store init` and its       *)
(* migrations, the commands that write, `store backup`, `store key import` *)
(* and the read role with its inspection.  The file, its key in the        *)
(* keychain and the advisory writer lock are three separate things, and a  *)
(* process may be killed between any two of its steps.                     *)
(*                                                                         *)
(* Keys are numbered in the order they are minted, 0 is no key.  A file    *)
(* whose key is 0 has no page yet; version 0 is no version on record.      *)
(***************************************************************************)
EXTENDS Integers, Sequences, FiniteSets

CONSTANTS
    Writers,      \* processes that run the operator's commands
    Initialisers, \* those of them that may run `store init`
    Reader,       \* the process of the read role
    Build,        \* schema version each process serves
    MaxKeys,      \* keys ever minted
    MaxData,      \* commits of data
    MaxCommands   \* commands, losses of the keychain entry and kills

Processes == Writers \cup {Reader}
ASSUME RolesAssumption ==
    /\ Initialisers \subseteq Writers /\ Reader \notin Writers
    /\ "free" \notin Processes
    /\ Build \in [Processes -> Nat \ {0}]
    /\ MaxKeys \in Nat /\ MaxData \in Nat /\ MaxCommands \in Nat

VARIABLES
    file,      \* the datastore
    chain,     \* the keychain entry
    minted,    \* keys minted so far
    lock,      \* who holds the writer lock
    copy,      \* the backup's destination
    proc,      \* where each process is
    commands,  \* commands so far
    refusedBy  \* the processes that held the lock when a writer was refused it
roles == <<file, chain, minted, lock, copy, proc, commands, refusedBy>>

Free == "free"
Commands == {"init", "write", "backup", "import"}
Steps == {"idle", "present", "key", "mint", "writer", "lock", "connect", "migrate", "schema",
          "commit", "destination", "vacuum", "vacuuming", "verify", "candidate", "set",
          "inspect", "probe", "probed", "read", "inspected"}
Exits == {"none", "done", "refused", "unhealthy"}
Problems == {"none", "missing", "unreadable", "key_missing", "no_schema_version",
             "schema_ahead_of_build", "schema_behind_build"}
NoFile == [exists |-> FALSE, key |-> 0, version |-> 0, data |-> 0]
NoCopy == [state |-> "none", key |-> 0, version |-> 0, data |-> 0, until |-> 0]
Fresh(cmd, step, exit) ==
    [cmd |-> cmd, at |-> step, key |-> 0, existed |-> FALSE, exit |-> exit, problem |-> "none"]
Idle == Fresh("none", "idle", "none")

At(p, step) == proc[p].at = step
Goto(p, step) == proc' = [proc EXCEPT ![p].at = step]
Exit(p, how) == proc' = [proc EXCEPT ![p] = Fresh("none", "idle", how)]
Unlock(p) == lock' = IF lock = p THEN Free ELSE lock

\* schema_problem_for
SchemaProblem(p) ==
    CASE file.version = 0 -> "no_schema_version"
      [] file.version = Build[p] -> "none"
      [] file.version > Build[p] -> "schema_ahead_of_build"
      [] OTHER -> "schema_behind_build"

\* An empty file decrypts with any key.
Opens(key) == file.key \in {0, key}

-----------------------------------------------------------------------------
(* store init: the key, then the file *)

FirstStep(cmd) ==
    CASE cmd = "init" -> "present" [] cmd = "write" -> "writer"
      [] cmd = "backup" -> "destination" [] cmd = "import" -> "candidate"

Start(p, cmd) ==
    /\ At(p, "idle") /\ commands < MaxCommands /\ commands' = commands + 1
    /\ cmd = "init" => p \in Initialisers
    /\ proc' = [proc EXCEPT ![p] = Fresh(cmd, FirstStep(cmd), "none")]
    /\ UNCHANGED <<file, chain, minted, lock, copy, refusedBy>>

\* cmd_init looks for the file before it asks for a key.
CheckPresent(p) ==
    /\ At(p, "present")
    /\ proc' = [proc EXCEPT ![p].existed = file.exists, ![p].at = "key"]
    /\ UNCHANGED <<file, chain, minted, lock, copy, commands, refusedBy>>

\* Faulty variant of ObtainKey: a missing key is replaced, file or no file.
ObtainKeyAlways(p) ==
    /\ At(p, "key")
    /\ Goto(p, IF chain = 0 THEN "mint" ELSE "writer")
    /\ UNCHANGED <<file, chain, minted, lock, copy, commands, refusedBy>>

\* A key is minted only for a file that was not there.
ObtainKey(p) ==
    /\ At(p, "key")
    /\ IF chain # 0 THEN Goto(p, "writer")
       ELSE IF proc[p].existed THEN Exit(p, "refused") ELSE Goto(p, "mint")
    /\ UNCHANGED <<file, chain, minted, lock, copy, commands, refusedBy>>

SetDatastoreKey(p) ==
    /\ At(p, "mint") /\ minted < MaxKeys
    /\ minted' = minted + 1 /\ chain' = minted'
    /\ Goto(p, "writer")
    /\ UNCHANGED <<file, lock, copy, commands, refusedBy>>

-----------------------------------------------------------------------------
(* The writer factory *)

Creating(p) == proc[p].cmd = "init"

WriterKey(p) ==
    /\ At(p, "writer")
    /\ IF chain = 0 \/ (~Creating(p) /\ ~file.exists) THEN Exit(p, "refused")
       ELSE proc' = [proc EXCEPT ![p].key = chain, ![p].at = "lock"]
    /\ UNCHANGED <<file, chain, minted, lock, copy, commands, refusedBy>>

\* Faulty variant of ExclusiveLock: a backup reads without the lock.
ExclusiveLockOfWriters(p) ==
    /\ At(p, "lock")
    /\ \/ /\ proc[p].cmd = "backup" /\ Goto(p, "connect")
          /\ UNCHANGED <<lock, refusedBy>>
       \/ /\ proc[p].cmd # "backup" /\ lock = Free
          /\ lock' = p /\ Goto(p, "connect") /\ UNCHANGED refusedBy
       \/ /\ proc[p].cmd # "backup" /\ lock # Free
          /\ Exit(p, "refused") /\ UNCHANGED <<lock, refusedBy>>
    /\ UNCHANGED <<file, chain, minted, copy, commands>>

\* Faulty variant of ExclusiveLock: creating a file needs no lock.
ExclusiveLockOfExisting(p) ==
    /\ At(p, "lock")
    /\ \/ Creating(p) /\ Goto(p, "connect") /\ UNCHANGED <<lock, refusedBy>>
       \/ ~Creating(p) /\ lock = Free /\ lock' = p /\ Goto(p, "connect") /\ UNCHANGED refusedBy
       \/ ~Creating(p) /\ lock # Free /\ Exit(p, "refused") /\ UNCHANGED <<lock, refusedBy>>
    /\ UNCHANGED <<file, chain, minted, copy, commands>>

\* The lock is tried once; a process that is refused it does not wait.
ExclusiveLock(p) ==
    /\ At(p, "lock")
    /\ \/ lock = Free /\ lock' = p /\ Goto(p, "connect") /\ UNCHANGED refusedBy
       \/ lock # Free /\ refusedBy' = refusedBy \cup {lock} /\ Exit(p, "refused") /\ UNCHANGED lock
    /\ UNCHANGED <<file, chain, minted, copy, commands>>

CreateFile(p) ==
    /\ At(p, "connect") /\ ~file.exists /\ Creating(p)
    /\ file' = [file EXCEPT !.exists = TRUE]
    /\ UNCHANGED <<chain, minted, lock, copy, proc, commands, refusedBy>>

\* Where a writer goes on once its connection is open.
Connected(cmd) ==
    CASE cmd = "init" -> "migrate" [] cmd = "write" -> "schema" [] cmd = "backup" -> "vacuum"

\* The first read tells a wrong key; the journal mode writes the first page.
KeyAndPrepare(p) ==
    /\ At(p, "connect") /\ file.exists
    /\ IF Opens(proc[p].key)
       THEN /\ file' = [file EXCEPT !.key = proc[p].key]
            /\ Goto(p, Connected(proc[p].cmd))
            /\ UNCHANGED lock
       ELSE Exit(p, "refused") /\ Unlock(p) /\ UNCHANGED file
    /\ UNCHANGED <<chain, minted, copy, commands, refusedBy>>

\* One migration and its version stamp are one transaction.
Migrate(p) ==
    /\ At(p, "migrate") /\ file.version < Build[p]
    /\ file' = [file EXCEPT !.version = @ + 1]
    /\ UNCHANGED <<chain, minted, lock, copy, proc, commands, refusedBy>>

Migrated(p) ==
    /\ At(p, "migrate") /\ file.version >= Build[p]
    /\ Unlock(p) /\ Goto(p, "inspect")
    /\ UNCHANGED <<file, chain, minted, copy, commands, refusedBy>>

RequireSupportedSchema(p) ==
    /\ At(p, "schema")
    /\ IF SchemaProblem(p) = "none" THEN Goto(p, "commit") /\ UNCHANGED lock
                                    ELSE Exit(p, "refused") /\ Unlock(p)
    /\ UNCHANGED <<file, chain, minted, copy, commands, refusedBy>>

Commit(p) ==
    /\ At(p, "commit") /\ file.data < MaxData
    /\ file' = [file EXCEPT !.data = @ + 1]
    /\ Exit(p, "done") /\ Unlock(p)
    /\ UNCHANGED <<chain, minted, copy, commands, refusedBy>>

-----------------------------------------------------------------------------
(* store backup, and store key import *)

CheckDestination(p) ==
    /\ At(p, "destination")
    /\ IF copy.state # "none" THEN Exit(p, "refused") ELSE Goto(p, "writer")
    /\ UNCHANGED <<file, chain, minted, lock, copy, commands, refusedBy>>

\* VACUUM INTO takes its snapshot here and writes the copy until VacuumDone.
Vacuum(p) ==
    /\ At(p, "vacuum") /\ copy.state = "none"
    /\ copy' = [state |-> "partial", key |-> file.key, version |-> file.version,
                data |-> file.data, until |-> 0]
    /\ Goto(p, "vacuuming")
    /\ UNCHANGED <<file, chain, minted, lock, commands, refusedBy>>

VacuumDone(p) ==
    /\ At(p, "vacuuming")
    /\ copy' = [copy EXCEPT !.state = "whole", !.until = file.data]
    /\ Unlock(p) /\ Goto(p, "verify")
    /\ UNCHANGED <<file, chain, minted, commands, refusedBy>>

\* The destination's disk is full, or another backup has taken the name.
VacuumFails(p) ==
    /\ \/ At(p, "vacuuming") /\ copy' = NoCopy
       \/ At(p, "vacuum") /\ copy.state # "none" /\ copy' = NoCopy
    /\ Unlock(p) /\ Exit(p, "refused")
    /\ UNCHANGED <<file, chain, minted, commands, refusedBy>>

\* The copy is opened with the key of the keychain; another backup may by now
\* have removed it or be writing its own, and what is half written may not open.
Verify(p) ==
    /\ At(p, "verify")
    /\ \/ chain # 0 /\ copy.key = chain /\ Exit(p, "done")
       \/ (chain = 0 \/ copy.key # chain \/ copy.state = "partial") /\ Exit(p, "refused")
    /\ UNCHANGED <<file, chain, minted, lock, copy, commands, refusedBy>>

\* A file without a page, or without a table, has tested no key.
OpensWith(key) == file.exists /\ file.key = key /\ file.version # 0

ImportKey(p, key) ==
    /\ At(p, "candidate")
    /\ IF OpensWith(key)
       THEN proc' = [proc EXCEPT ![p].key = key, ![p].at = "set"]
       ELSE Exit(p, "unhealthy")
    /\ UNCHANGED <<file, chain, minted, lock, copy, commands, refusedBy>>

SetImportedKey(p) ==
    /\ At(p, "set") /\ chain' = proc[p].key
    /\ Exit(p, "done")
    /\ UNCHANGED <<file, minted, lock, copy, commands, refusedBy>>

-----------------------------------------------------------------------------
(* inspect: the file, a probe of the lock, and a read *)

\* What reading the file would meet now.
Problem(p) ==
    IF ~file.exists THEN "unreadable" ELSE IF chain = 0 THEN "key_missing"
    ELSE IF ~Opens(chain) THEN "unreadable" ELSE SchemaProblem(p)

Concluded(p, problem) == proc' = [proc EXCEPT ![p].problem = problem, ![p].at = "inspected"]

InspectPresent(p) ==
    /\ At(p, "inspect")
    /\ IF file.exists THEN Goto(p, "probe") ELSE Concluded(p, "missing")
    /\ UNCHANGED <<file, chain, minted, lock, copy, commands, refusedBy>>

\* writer_lock_held: the answer costs an acquisition, unless there is no lock
\* file (a datastore moved here brings none, and who holds a lock has made it).
\* A lock file that cannot be opened ends the inspection.
WriterLockHeld(p) ==
    /\ At(p, "probe")
    /\ \/ lock = Free /\ lock' = p /\ Goto(p, "probed")
       \/ lock # Free /\ UNCHANGED lock /\ Goto(p, "read")
       \/ lock = Free /\ UNCHANGED lock /\ Goto(p, "read")
       \/ UNCHANGED lock /\ Concluded(p, "unreadable")
    /\ UNCHANGED <<file, chain, minted, copy, commands, refusedBy>>

ProbeReleased(p) ==
    /\ At(p, "probed") /\ Unlock(p) /\ Goto(p, "read")
    /\ UNCHANGED <<file, chain, minted, copy, commands, refusedBy>>

InspectRead(p) ==
    /\ At(p, "read") /\ Concluded(p, Problem(p))
    /\ UNCHANGED <<file, chain, minted, lock, copy, commands, refusedBy>>

InitReports(p) ==
    /\ At(p, "inspected") /\ proc[p].cmd = "init"
    /\ Exit(p, IF proc[p].problem = "none" THEN "done" ELSE "unhealthy")
    /\ UNCHANGED <<file, chain, minted, lock, copy, commands, refusedBy>>

-----------------------------------------------------------------------------
(* What happens around them *)

\* A kill releases the lock and rolls back what is not committed.
Kill(p) ==
    /\ ~At(p, "idle") /\ commands < MaxCommands /\ commands' = commands + 1
    /\ Unlock(p) /\ Exit(p, "none")
    /\ UNCHANGED <<file, chain, minted, copy, refusedBy>>

\* The keychain entry is lost with its machine.
LoseKey ==
    /\ chain # 0 /\ commands < MaxCommands /\ commands' = commands + 1
    /\ chain' = 0
    /\ UNCHANGED <<file, minted, lock, copy, proc, refusedBy>>

Inspects(p) ==
    InspectPresent(p) \/ WriterLockHeld(p) \/ ProbeReleased(p) \/ InspectRead(p)
WriterStep(p) ==
    \/ \E cmd \in Commands : Start(p, cmd)
    \/ CheckPresent(p) \/ ObtainKey(p) \/ SetDatastoreKey(p)
    \/ WriterKey(p) \/ ExclusiveLock(p) \/ CreateFile(p) \/ KeyAndPrepare(p)
    \/ Migrate(p) \/ Migrated(p) \/ RequireSupportedSchema(p) \/ Commit(p)
    \/ CheckDestination(p) \/ Vacuum(p) \/ VacuumDone(p) \/ VacuumFails(p) \/ Verify(p)
    \/ \E key \in 1 .. minted : ImportKey(p, key)
    \/ SetImportedKey(p) \/ Inspects(p) \/ InitReports(p) \/ Kill(p)

RolesInit ==
    /\ file = NoFile /\ chain = 0 /\ minted = 0 /\ lock = Free /\ copy = NoCopy
    /\ proc = [p \in Processes |-> Idle] /\ commands = 0 /\ refusedBy = {}

-----------------------------------------------------------------------------
(* Properties *)

ProcType ==
    [Processes -> [cmd: Commands \cup {"none"}, at: Steps, key: 0 .. MaxKeys,
                   existed: BOOLEAN, exit: Exits, problem: Problems]]

RolesTypeOK ==
    /\ file \in [exists: BOOLEAN, key: 0 .. MaxKeys, version: Nat, data: 0 .. MaxData]
    /\ chain \in 0 .. MaxKeys /\ minted \in 0 .. MaxKeys
    /\ lock \in Processes \cup {Free}
    /\ copy \in [state: {"none", "partial", "whole"}, key: 0 .. MaxKeys, version: Nat,
                data: 0 .. MaxData, until: 0 .. MaxData]
    /\ proc \in ProcType
    /\ commands \in 0 .. MaxCommands /\ refusedBy \subseteq Processes
    /\ lock # Free => ~At(lock, "idle")

\* A keychain entry that is there opens the file that is there: minting and
\* importing a key, a kill between any two steps and the loss of the entry
\* never leave the datastore behind a key nobody holds (_obtain_key,
\* cmd_key_import).
KeyOpensTheFile == file.key # 0 /\ chain # 0 => chain = file.key

\* A writer that has passed the schema check still has the schema it checked
\* when it commits, whatever another build migrates (writer, _writer).
WriteMeetsItsSchema == \A p \in Writers : At(p, "commit") => file.version = Build[p]

\* A copy that is whole holds every commit that had been made when it was
\* finished: nothing is committed while it is being taken (back_up).
BackupIsWhole == copy.state = "whole" => copy.data = copy.until

\* architecture.md:321: "The MCP server never takes this lock": no writer is
\* refused it because of the read role.
ReaderHoldsUpNoWriter == Reader \notin refusedBy
=============================================================================
