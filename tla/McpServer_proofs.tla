-------------------------- MODULE McpServer_proofs --------------------------
(***************************************************************************)
(* Theorems about the processes that share a datastore (StoreRoles) and    *)
(* about the answers of the MCP server beside them, for any number of      *)
(* processes, builds, keys, commits and commands.                          *)
(*                                                                         *)
(* LInv is the invariant of the processes, SInv that of the session and of *)
(* what it says, and SentInv that of the replies: what has been written is *)
(* owed to the lines before the one in hand, and what is held back to the  *)
(* messages of that line that were handled.                                *)
(***************************************************************************)
EXTENDS McpServer, WellFoundedInduction, TLAPS

-----------------------------------------------------------------------------
(* The invariants *)

\* Steps that are taken with the writer lock in hand.
HolderSteps == {"connect", "migrate", "schema", "commit", "vacuum", "vacuuming", "probed"}

\* A command at a step, and who may be there.
Proper(p, step, cmd) ==
    /\ step \in {"present", "key", "mint", "migrate"} => cmd = "init"
    /\ step \in {"writer", "lock", "connect"} => cmd \in {"init", "write", "backup"}
    /\ step = "destination" => cmd = "backup"
    /\ cmd = "init" => p \in Initialisers

StepShape(p) ==
    /\ proc[p].at \in HolderSteps <=> lock = p
    /\ Proper(p, proc[p].at, proc[p].cmd)
    /\ proc[p].at = "commit" => file.version = Build[p]
    /\ proc[p].at = "vacuuming" => copy.state = "partial" /\ copy.data = file.data

StoreTyped ==
    /\ file \in [exists: BOOLEAN, key: 0 .. MaxKeys, version: Nat, data: 0 .. MaxData]
    /\ chain \in 0 .. MaxKeys /\ minted \in 0 .. MaxKeys
    /\ copy \in [state: {"none", "partial", "whole"}, key: 0 .. MaxKeys, version: Nat,
                data: 0 .. MaxData, until: 0 .. MaxData]
    /\ commands \in 0 .. MaxCommands /\ refusedBy \subseteq Processes

LInv ==
    /\ StoreTyped /\ proc \in ProcType /\ lock \in Processes \cup {Free}
    /\ BackupIsWhole
    /\ \A p \in Processes : StepShape(p)

-----------------------------------------------------------------------------
(* One process moves *)

Moved(p, step, cmd) ==
    /\ proc' \in ProcType
    /\ proc'[p].at = step /\ proc'[p].cmd = cmd
    /\ \A q \in Processes : q # p => proc'[q] = proc[q]

LEMMA GotoMoves ==
    ASSUME proc \in ProcType, NEW p \in Processes, NEW step \in Steps, Goto(p, step)
    PROVE  Moved(p, step, proc[p].cmd)
BY DEF ProcType, Goto, Moved

LEMMA ExitMoves ==
    ASSUME proc \in ProcType, NEW p \in Processes, NEW how \in Exits, Exit(p, how)
    PROVE  Moved(p, "idle", "none")
BY RolesAssumption DEF ProcType, Exit, Fresh, Steps, Problems, Moved

LEMMA ConcludedMoves ==
    ASSUME proc \in ProcType, NEW p \in Processes, NEW problem \in Problems, Concluded(p, problem)
    PROVE  Moved(p, "inspected", proc[p].cmd) /\ proc'[p].problem = problem
<1> DEFINE mid == [proc EXCEPT ![p].problem = problem]
<1>1. /\ mid \in ProcType /\ mid[p].cmd = proc[p].cmd /\ mid[p].problem = problem
      /\ \A q \in Processes : q # p => mid[q] = proc[q]
  BY DEF ProcType
<1>2. proc' = [mid EXCEPT ![p].at = "inspected"]
  BY DEF Concluded
<1> HIDE DEF mid
<1> QED
  BY <1>1, <1>2 DEF ProcType, Steps, Moved

LEMMA PresentMoves ==
    ASSUME proc \in ProcType, NEW p \in Processes, NEW existed \in BOOLEAN,
           proc' = [proc EXCEPT ![p].existed = existed, ![p].at = "key"]
    PROVE  Moved(p, "key", proc[p].cmd) /\ proc'[p].existed = existed
<1> DEFINE mid == [proc EXCEPT ![p].existed = existed]
<1>0. mid \in ProcType
  BY DEF ProcType
<1>1. /\ mid[p].cmd = proc[p].cmd /\ mid[p].existed = existed
      /\ \A q \in Processes : q # p => mid[q] = proc[q]
  BY DEF ProcType
<1>2. proc' = [mid EXCEPT ![p].at = "key"]
  OBVIOUS
<1> HIDE DEF mid
<1>3. Moved(p, "key", proc[p].cmd)
  <2>0. "key" \in Steps
    BY DEF Steps
  <2>1. proc' \in ProcType
    BY <1>0, <1>2, <2>0 DEF ProcType
  <2>2. proc'[p].at = "key" /\ proc'[p].cmd = proc[p].cmd
    BY <1>0, <1>1, <1>2 DEF ProcType
  <2>3. \A q \in Processes : q # p => proc'[q] = proc[q]
    BY <1>0, <1>1, <1>2 DEF ProcType
  <2> QED
    BY <2>1, <2>2, <2>3 DEF Moved
<1>4. proc'[p].existed = existed
  BY <1>0, <1>1, <1>2 DEF ProcType
<1> QED
  BY <1>3, <1>4

LEMMA KeyMoves ==
    ASSUME proc \in ProcType, NEW p \in Processes, NEW key \in 0 .. MaxKeys, NEW step \in Steps,
           proc' = [proc EXCEPT ![p].key = key, ![p].at = step]
    PROVE  Moved(p, step, proc[p].cmd) /\ proc'[p].key = key
<1> DEFINE mid == [proc EXCEPT ![p].key = key]
<1>0. mid \in ProcType
  BY DEF ProcType
<1>1. /\ mid[p].cmd = proc[p].cmd /\ mid[p].key = key
      /\ \A q \in Processes : q # p => mid[q] = proc[q]
  BY DEF ProcType
<1>2. proc' = [mid EXCEPT ![p].at = step]
  OBVIOUS
<1> HIDE DEF mid
<1>3. Moved(p, step, proc[p].cmd)
  <2>1. proc' \in ProcType
    BY <1>0, <1>2 DEF ProcType
  <2>2. proc'[p].at = step /\ proc'[p].cmd = proc[p].cmd
    BY <1>0, <1>1, <1>2 DEF ProcType
  <2>3. \A q \in Processes : q # p => proc'[q] = proc[q]
    BY <1>0, <1>1, <1>2 DEF ProcType
  <2> QED
    BY <2>1, <2>2, <2>3 DEF Moved
<1>4. proc'[p].key = key
  BY <1>0, <1>1, <1>2 DEF ProcType
<1> QED
  BY <1>3, <1>4

LEMMA StayMoves ==
    ASSUME proc \in ProcType, NEW p \in Processes, UNCHANGED proc
    PROVE  Moved(p, proc[p].at, proc[p].cmd)
BY DEF Moved

\* What a move must see to: the lock goes with the step, and only its holder
\* writes to the file or to a copy.
Licit(p, step, cmd) ==
    /\ step \in HolderSteps <=> lock' = p
    /\ lock' = p \/ lock' = (IF lock = p THEN Free ELSE lock)
    /\ lock' = p => lock \in {p, Free}
    /\ Proper(p, step, cmd)
    /\ step = "commit" => file'.version = Build[p]
    /\ step = "vacuuming" => copy'.state = "partial" /\ copy'.data = file'.data
    /\ lock # p => file'.version = file.version /\ file'.data = file.data /\ copy' = copy

\* What a step of p leaves to the others: their place, and a file that is there.
Steady(p) ==
    /\ \A q \in Processes : q # p => proc'[q] = proc[q]
    /\ file.exists => file'.exists

\* A step that is no business of the key's.
KeySteps == {"key", "mint", "lock", "connect", "set"}
Calm(p) ==
    /\ \E step, cmd : Moved(p, step, cmd) /\ step \notin KeySteps
    /\ file'.exists = file.exists /\ file'.key = file.key /\ chain' = chain

LEMMA LicitMove ==
    ASSUME LInv, NEW p \in Processes, NEW step, NEW cmd, Moved(p, step, cmd), Licit(p, step, cmd),
           StoreTyped', BackupIsWhole'
    PROVE  LInv'
<1>1. lock' \in Processes \cup {Free}
  BY DEF LInv, Licit
<1>2. StepShape(p)'
  BY DEF Moved, Licit, StepShape, Proper
<1>3. ASSUME NEW q \in Processes, q # p PROVE StepShape(q)'
  <2>1. proc'[q] = proc[q] /\ StepShape(q)
    BY <1>3 DEF Moved, LInv
  <2>2. lock' = q <=> lock = q
    BY <1>3, RolesAssumption DEF Licit, Free
  <2>3. lock = q => file'.version = file.version /\ file'.data = file.data /\ copy' = copy
    BY <1>3 DEF Licit
  <2> QED
    BY <2>1, <2>2, <2>3 DEF StepShape, HolderSteps, Proper
<1> QED
  BY <1>1, <1>2, <1>3 DEF LInv, Moved

LEMMA CheckPresentKeeps ==
    ASSUME LInv, NEW p \in Processes, CheckPresent(p)
    PROVE  LInv' /\ Steady(p)
<1> USE RolesAssumption
<1>1. proc[p].at = "present" /\ lock # p /\ Proper(p, proc[p].at, proc[p].cmd)
  BY DEF LInv, StepShape, HolderSteps, CheckPresent, At
<1>2. StoreTyped' /\ BackupIsWhole'
  BY <1>1 DEF LInv, StoreTyped, BackupIsWhole, StepShape, CheckPresent, At
<1>3. \E step \in {"key"} :
            Moved(p, step, proc[p].cmd) /\ Licit(p, step, proc[p].cmd)
  BY <1>1, PresentMoves DEF LInv, StoreTyped, Licit, Proper, HolderSteps, Steps, Exits, Problems,
     CheckPresent, At, Unlock, Free
<1>4. Steady(p)
  BY <1>3 DEF LInv, StoreTyped, Moved, Steady, CheckPresent
<1> QED
  BY <1>2, <1>3, <1>4, LicitMove

LEMMA ObtainKeyKeeps ==
    ASSUME LInv, NEW p \in Processes, ObtainKey(p)
    PROVE  LInv' /\ Steady(p)
<1> USE RolesAssumption
<1>1. proc[p].at = "key" /\ lock # p /\ Proper(p, proc[p].at, proc[p].cmd)
  BY DEF LInv, StepShape, HolderSteps, ObtainKey, At
<1>2. StoreTyped' /\ BackupIsWhole'
  BY <1>1 DEF LInv, StoreTyped, BackupIsWhole, StepShape, ObtainKey, At
<1>3. \/ \E step \in {"writer", "mint"} :
            Moved(p, step, proc[p].cmd) /\ Licit(p, step, proc[p].cmd)
      \/ Moved(p, "idle", "none") /\ Licit(p, "idle", "none")
  BY <1>1, GotoMoves, ExitMoves DEF LInv, StoreTyped, Licit, Proper, HolderSteps, Steps, Exits,
     Problems, ObtainKey, At, Unlock, Free
<1>4. Steady(p)
  BY <1>3 DEF LInv, StoreTyped, Moved, Steady, ObtainKey
<1> QED
  BY <1>2, <1>3, <1>4, LicitMove

LEMMA SetDatastoreKeyKeeps ==
    ASSUME LInv, NEW p \in Processes, SetDatastoreKey(p)
    PROVE  LInv' /\ Steady(p)
<1> USE RolesAssumption
<1>1. proc[p].at = "mint" /\ lock # p /\ Proper(p, proc[p].at, proc[p].cmd)
  BY DEF LInv, StepShape, HolderSteps, SetDatastoreKey, At
<1>2. StoreTyped' /\ BackupIsWhole'
  BY <1>1 DEF LInv, StoreTyped, BackupIsWhole, StepShape, SetDatastoreKey, At
<1>3. \E step \in {"writer"} :
            Moved(p, step, proc[p].cmd) /\ Licit(p, step, proc[p].cmd)
  BY <1>1, GotoMoves DEF LInv, StoreTyped, Licit, Proper, HolderSteps, Steps, Exits, Problems,
     SetDatastoreKey, At, Unlock, Free
<1>4. Steady(p)
  BY <1>3 DEF LInv, StoreTyped, Moved, Steady, SetDatastoreKey
<1> QED
  BY <1>2, <1>3, <1>4, LicitMove

LEMMA WriterKeyKeeps ==
    ASSUME LInv, NEW p \in Processes, WriterKey(p)
    PROVE  LInv' /\ Steady(p)
<1> USE RolesAssumption
<1>1. proc[p].at = "writer" /\ lock # p /\ Proper(p, proc[p].at, proc[p].cmd)
  BY DEF LInv, StepShape, HolderSteps, WriterKey, At
<1>2. StoreTyped' /\ BackupIsWhole'
  BY <1>1 DEF LInv, StoreTyped, BackupIsWhole, StepShape, WriterKey, At, Creating
<1>3. \/ \E step \in {"lock"} :
            Moved(p, step, proc[p].cmd) /\ Licit(p, step, proc[p].cmd)
      \/ Moved(p, "idle", "none") /\ Licit(p, "idle", "none")
  BY <1>1, GotoMoves, ExitMoves, KeyMoves DEF LInv, StoreTyped, Licit, Proper, HolderSteps, Steps,
     Exits, Problems, WriterKey, At, Unlock, Free, Creating
<1>4. Steady(p)
  BY <1>3 DEF LInv, StoreTyped, Moved, Steady, WriterKey
<1> QED
  BY <1>2, <1>3, <1>4, LicitMove

LEMMA ExclusiveLockKeeps ==
    ASSUME LInv, NEW p \in Processes, ExclusiveLock(p)
    PROVE  LInv' /\ Steady(p)
<1> USE RolesAssumption
<1>1. proc[p].at = "lock" /\ lock # p /\ Proper(p, proc[p].at, proc[p].cmd)
  BY DEF LInv, StepShape, HolderSteps, ExclusiveLock, At
<1>2. StoreTyped' /\ BackupIsWhole'
  BY <1>1 DEF LInv, StoreTyped, BackupIsWhole, StepShape, ExclusiveLock, At
<1>3. \/ \E step \in {"connect"} :
            Moved(p, step, proc[p].cmd) /\ Licit(p, step, proc[p].cmd)
      \/ Moved(p, "idle", "none") /\ Licit(p, "idle", "none")
  BY <1>1, GotoMoves, ExitMoves DEF LInv, StoreTyped, Licit, Proper, HolderSteps, Steps, Exits,
     Problems, ExclusiveLock, At, Unlock, Free
<1>4. Steady(p)
  BY <1>3 DEF LInv, StoreTyped, Moved, Steady, ExclusiveLock
<1> QED
  BY <1>2, <1>3, <1>4, LicitMove

LEMMA CreateFileKeeps ==
    ASSUME LInv, NEW p \in Processes, CreateFile(p)
    PROVE  LInv' /\ Steady(p)
<1> USE RolesAssumption
<1>1. proc[p].at = "connect" /\ lock = p /\ Proper(p, proc[p].at, proc[p].cmd)
  BY DEF LInv, StepShape, HolderSteps, CreateFile, At
<1>2. StoreTyped' /\ BackupIsWhole'
  BY <1>1 DEF LInv, StoreTyped, BackupIsWhole, StepShape, CreateFile, At, Creating
<1>3. \E step \in {"connect"} :
            Moved(p, step, proc[p].cmd) /\ Licit(p, step, proc[p].cmd)
  BY <1>1, StayMoves DEF LInv, StoreTyped, Licit, Proper, HolderSteps, Steps, Exits, Problems,
     CreateFile, At, Unlock, Free, Creating
<1>4. Steady(p)
  BY <1>3 DEF LInv, StoreTyped, Moved, Steady, CreateFile
<1> QED
  BY <1>2, <1>3, <1>4, LicitMove

LEMMA KeyAndPrepareKeeps ==
    ASSUME LInv, NEW p \in Processes, KeyAndPrepare(p)
    PROVE  LInv' /\ Steady(p)
<1> USE RolesAssumption
<1>1. proc[p].at = "connect" /\ lock = p /\ Proper(p, proc[p].at, proc[p].cmd)
  BY DEF LInv, StepShape, HolderSteps, KeyAndPrepare, At
<1>2. StoreTyped' /\ BackupIsWhole'
  BY <1>1 DEF LInv, StoreTyped, BackupIsWhole, StepShape, KeyAndPrepare, At, Opens, Connected,
     ProcType
<1>3. \/ \E step \in {"migrate", "schema", "vacuum"} :
            Moved(p, step, proc[p].cmd) /\ Licit(p, step, proc[p].cmd)
      \/ Moved(p, "idle", "none") /\ Licit(p, "idle", "none")
  BY <1>1, GotoMoves, ExitMoves DEF LInv, StoreTyped, Licit, Proper, HolderSteps, Steps, Exits,
     Problems, KeyAndPrepare, At, Unlock, Free, Opens, Connected
<1>4. Steady(p)
  BY <1>3 DEF LInv, StoreTyped, Moved, Steady, KeyAndPrepare
<1> QED
  BY <1>2, <1>3, <1>4, LicitMove

LEMMA MigrateKeeps ==
    ASSUME LInv, NEW p \in Processes, Migrate(p)
    PROVE  LInv' /\ Calm(p)
<1> USE RolesAssumption
<1>1. proc[p].at = "migrate" /\ lock = p /\ Proper(p, proc[p].at, proc[p].cmd)
  BY DEF LInv, StepShape, HolderSteps, Migrate, At
<1>2. StoreTyped' /\ BackupIsWhole'
  BY <1>1 DEF LInv, StoreTyped, BackupIsWhole, StepShape, Migrate, At
<1>3. \E step \in {"migrate"} :
            Moved(p, step, proc[p].cmd) /\ Licit(p, step, proc[p].cmd)
  BY <1>1, StayMoves DEF LInv, StoreTyped, Licit, Proper, HolderSteps, Steps, Exits, Problems,
     Migrate, At, Unlock, Free
<1>4. Calm(p)
  BY <1>1, <1>3 DEF LInv, StoreTyped, Calm, KeySteps, Migrate
<1> QED
  BY <1>2, <1>3, <1>4, LicitMove

LEMMA MigratedKeeps ==
    ASSUME LInv, NEW p \in Processes, Migrated(p)
    PROVE  LInv' /\ Calm(p)
<1> USE RolesAssumption
<1>1. proc[p].at = "migrate" /\ lock = p /\ Proper(p, proc[p].at, proc[p].cmd)
  BY DEF LInv, StepShape, HolderSteps, Migrated, At
<1>2. StoreTyped' /\ BackupIsWhole'
  BY <1>1 DEF LInv, StoreTyped, BackupIsWhole, StepShape, Migrated, At
<1>3. \E step \in {"inspect"} :
            Moved(p, step, proc[p].cmd) /\ Licit(p, step, proc[p].cmd)
  BY <1>1, GotoMoves DEF LInv, StoreTyped, Licit, Proper, HolderSteps, Steps, Exits, Problems,
     Migrated, At, Unlock, Free
<1>4. Calm(p)
  BY <1>1, <1>3 DEF LInv, StoreTyped, Calm, KeySteps, Migrated
<1> QED
  BY <1>2, <1>3, <1>4, LicitMove

LEMMA RequireSupportedSchemaKeeps ==
    ASSUME LInv, NEW p \in Processes, RequireSupportedSchema(p)
    PROVE  LInv' /\ Calm(p)
<1> USE RolesAssumption
<1>1. proc[p].at = "schema" /\ lock = p /\ Proper(p, proc[p].at, proc[p].cmd)
  BY DEF LInv, StepShape, HolderSteps, RequireSupportedSchema, At
<1>2. StoreTyped' /\ BackupIsWhole'
  BY <1>1 DEF LInv, StoreTyped, BackupIsWhole, StepShape, RequireSupportedSchema, At, SchemaProblem
<1>3. \/ \E step \in {"commit"} :
            Moved(p, step, proc[p].cmd) /\ Licit(p, step, proc[p].cmd)
      \/ Moved(p, "idle", "none") /\ Licit(p, "idle", "none")
  BY <1>1, GotoMoves, ExitMoves DEF LInv, StoreTyped, Licit, Proper, HolderSteps, Steps, Exits,
     Problems, RequireSupportedSchema, At, Unlock, Free, SchemaProblem
<1>4. Calm(p)
  BY <1>1, <1>3 DEF LInv, StoreTyped, Calm, KeySteps, RequireSupportedSchema
<1> QED
  BY <1>2, <1>3, <1>4, LicitMove

LEMMA CommitKeeps ==
    ASSUME LInv, NEW p \in Processes, Commit(p)
    PROVE  LInv' /\ Calm(p)
<1> USE RolesAssumption
<1>1. proc[p].at = "commit" /\ lock = p /\ Proper(p, proc[p].at, proc[p].cmd)
  BY DEF LInv, StepShape, HolderSteps, Commit, At
<1>2. StoreTyped' /\ BackupIsWhole'
  BY <1>1 DEF LInv, StoreTyped, BackupIsWhole, StepShape, Commit, At
<1>3. Moved(p, "idle", "none") /\ Licit(p, "idle", "none")
  BY <1>1, ExitMoves DEF LInv, StoreTyped, Licit, Proper, HolderSteps, Steps, Exits, Problems,
     Commit, At, Unlock, Free
<1>4. Calm(p)
  BY <1>1, <1>3 DEF LInv, StoreTyped, Calm, KeySteps, Commit
<1> QED
  BY <1>2, <1>3, <1>4, LicitMove

LEMMA CheckDestinationKeeps ==
    ASSUME LInv, NEW p \in Processes, CheckDestination(p)
    PROVE  LInv' /\ Calm(p)
<1> USE RolesAssumption
<1>1. proc[p].at = "destination" /\ lock # p /\ Proper(p, proc[p].at, proc[p].cmd)
  BY DEF LInv, StepShape, HolderSteps, CheckDestination, At
<1>2. StoreTyped' /\ BackupIsWhole'
  BY <1>1 DEF LInv, StoreTyped, BackupIsWhole, StepShape, CheckDestination, At
<1>3. \/ \E step \in {"writer"} :
            Moved(p, step, proc[p].cmd) /\ Licit(p, step, proc[p].cmd)
      \/ Moved(p, "idle", "none") /\ Licit(p, "idle", "none")
  BY <1>1, GotoMoves, ExitMoves DEF LInv, StoreTyped, Licit, Proper, HolderSteps, Steps, Exits,
     Problems, CheckDestination, At, Unlock, Free
<1>4. Calm(p)
  BY <1>1, <1>3 DEF LInv, StoreTyped, Calm, KeySteps, CheckDestination
<1> QED
  BY <1>2, <1>3, <1>4, LicitMove

LEMMA VacuumKeeps ==
    ASSUME LInv, NEW p \in Processes, Vacuum(p)
    PROVE  LInv' /\ Calm(p)
<1> USE RolesAssumption
<1>1. proc[p].at = "vacuum" /\ lock = p /\ Proper(p, proc[p].at, proc[p].cmd)
  BY DEF LInv, StepShape, HolderSteps, Vacuum, At
<1>2. StoreTyped' /\ BackupIsWhole'
  BY <1>1 DEF LInv, StoreTyped, BackupIsWhole, StepShape, Vacuum, At
<1>3. \E step \in {"vacuuming"} :
            Moved(p, step, proc[p].cmd) /\ Licit(p, step, proc[p].cmd)
  BY <1>1, GotoMoves DEF LInv, StoreTyped, Licit, Proper, HolderSteps, Steps, Exits, Problems,
     Vacuum, At, Unlock, Free
<1>4. Calm(p)
  BY <1>1, <1>3 DEF LInv, StoreTyped, Calm, KeySteps, Vacuum
<1> QED
  BY <1>2, <1>3, <1>4, LicitMove

LEMMA VacuumDoneKeeps ==
    ASSUME LInv, NEW p \in Processes, VacuumDone(p)
    PROVE  LInv' /\ Calm(p)
<1> USE RolesAssumption
<1>1. proc[p].at = "vacuuming" /\ lock = p /\ Proper(p, proc[p].at, proc[p].cmd)
  BY DEF LInv, StepShape, HolderSteps, VacuumDone, At
<1>2. StoreTyped' /\ BackupIsWhole'
  BY <1>1 DEF LInv, StoreTyped, BackupIsWhole, StepShape, VacuumDone, At
<1>3. \E step \in {"verify"} :
            Moved(p, step, proc[p].cmd) /\ Licit(p, step, proc[p].cmd)
  BY <1>1, GotoMoves DEF LInv, StoreTyped, Licit, Proper, HolderSteps, Steps, Exits, Problems,
     VacuumDone, At, Unlock, Free
<1>4. Calm(p)
  BY <1>1, <1>3 DEF LInv, StoreTyped, Calm, KeySteps, VacuumDone
<1> QED
  BY <1>2, <1>3, <1>4, LicitMove

LEMMA VacuumFailsKeeps ==
    ASSUME LInv, NEW p \in Processes, VacuumFails(p)
    PROVE  LInv' /\ Calm(p)
<1> USE RolesAssumption
<1>1. proc[p].at \in {"vacuum", "vacuuming"} /\ lock = p /\ Proper(p, proc[p].at, proc[p].cmd)
  BY DEF LInv, StepShape, HolderSteps, VacuumFails, At
<1>2. StoreTyped' /\ BackupIsWhole'
  BY <1>1 DEF LInv, StoreTyped, BackupIsWhole, StepShape, VacuumFails, At, NoCopy
<1>3. Moved(p, "idle", "none") /\ Licit(p, "idle", "none")
  BY <1>1, ExitMoves DEF LInv, StoreTyped, Licit, Proper, HolderSteps, Steps, Exits, Problems,
     VacuumFails, At, Unlock, Free, NoCopy
<1>4. Calm(p)
  BY <1>1, <1>3 DEF LInv, StoreTyped, Calm, KeySteps, VacuumFails
<1> QED
  BY <1>2, <1>3, <1>4, LicitMove

LEMMA VerifyKeeps ==
    ASSUME LInv, NEW p \in Processes, Verify(p)
    PROVE  LInv' /\ Calm(p)
<1> USE RolesAssumption
<1>1. proc[p].at = "verify" /\ lock # p /\ Proper(p, proc[p].at, proc[p].cmd)
  BY DEF LInv, StepShape, HolderSteps, Verify, At
<1>2. StoreTyped' /\ BackupIsWhole'
  BY <1>1 DEF LInv, StoreTyped, BackupIsWhole, StepShape, Verify, At
<1>3. Moved(p, "idle", "none") /\ Licit(p, "idle", "none")
  BY <1>1, ExitMoves DEF LInv, StoreTyped, Licit, Proper, HolderSteps, Steps, Exits, Problems,
     Verify, At, Unlock, Free
<1>4. Calm(p)
  BY <1>1, <1>3 DEF LInv, StoreTyped, Calm, KeySteps, Verify
<1> QED
  BY <1>2, <1>3, <1>4, LicitMove

LEMMA SetImportedKeyKeeps ==
    ASSUME LInv, NEW p \in Processes, SetImportedKey(p)
    PROVE  LInv' /\ Steady(p)
<1> USE RolesAssumption
<1>1. proc[p].at = "set" /\ lock # p /\ Proper(p, proc[p].at, proc[p].cmd)
  BY DEF LInv, StepShape, HolderSteps, SetImportedKey, At
<1>2. StoreTyped' /\ BackupIsWhole'
  BY <1>1 DEF LInv, StoreTyped, BackupIsWhole, StepShape, SetImportedKey, At, ProcType
<1>3. Moved(p, "idle", "none") /\ Licit(p, "idle", "none")
  BY <1>1, ExitMoves DEF LInv, StoreTyped, Licit, Proper, HolderSteps, Steps, Exits, Problems,
     SetImportedKey, At, Unlock, Free
<1>4. Steady(p)
  BY <1>3 DEF LInv, StoreTyped, Moved, Steady, SetImportedKey
<1> QED
  BY <1>2, <1>3, <1>4, LicitMove

LEMMA InspectPresentKeeps ==
    ASSUME LInv, NEW p \in Processes, InspectPresent(p)
    PROVE  LInv' /\ Calm(p)
<1> USE RolesAssumption
<1>1. proc[p].at = "inspect" /\ lock # p /\ Proper(p, proc[p].at, proc[p].cmd)
  BY DEF LInv, StepShape, HolderSteps, InspectPresent, At
<1>2. StoreTyped' /\ BackupIsWhole'
  BY <1>1 DEF LInv, StoreTyped, BackupIsWhole, StepShape, InspectPresent, At
<1>3. \E step \in {"probe", "inspected"} :
            Moved(p, step, proc[p].cmd) /\ Licit(p, step, proc[p].cmd)
  BY <1>1, GotoMoves, ConcludedMoves DEF LInv, StoreTyped, Licit, Proper, HolderSteps, Steps,
     Exits, Problems, InspectPresent, At, Unlock, Free
<1>4. Calm(p)
  BY <1>1, <1>3 DEF LInv, StoreTyped, Calm, KeySteps, InspectPresent
<1> QED
  BY <1>2, <1>3, <1>4, LicitMove

LEMMA WriterLockHeldKeeps ==
    ASSUME LInv, NEW p \in Processes, WriterLockHeld(p)
    PROVE  LInv' /\ Calm(p)
<1> USE RolesAssumption
<1>1. proc[p].at = "probe" /\ lock # p /\ Proper(p, proc[p].at, proc[p].cmd)
  BY DEF LInv, StepShape, HolderSteps, WriterLockHeld, At
<1>2. StoreTyped' /\ BackupIsWhole'
  BY <1>1 DEF LInv, StoreTyped, BackupIsWhole, StepShape, WriterLockHeld, At
<1>3. \E step \in {"probed", "read", "inspected"} :
            Moved(p, step, proc[p].cmd) /\ Licit(p, step, proc[p].cmd)
  BY <1>1, GotoMoves, ConcludedMoves DEF LInv, StoreTyped, Licit, Proper, HolderSteps, Steps,
     Exits, Problems, WriterLockHeld, At, Unlock, Free
<1>4. Calm(p)
  BY <1>1, <1>3 DEF LInv, StoreTyped, Calm, KeySteps, WriterLockHeld
<1> QED
  BY <1>2, <1>3, <1>4, LicitMove

LEMMA ProbeReleasedKeeps ==
    ASSUME LInv, NEW p \in Processes, ProbeReleased(p)
    PROVE  LInv' /\ Calm(p)
<1> USE RolesAssumption
<1>1. proc[p].at = "probed" /\ lock = p /\ Proper(p, proc[p].at, proc[p].cmd)
  BY DEF LInv, StepShape, HolderSteps, ProbeReleased, At
<1>2. StoreTyped' /\ BackupIsWhole'
  BY <1>1 DEF LInv, StoreTyped, BackupIsWhole, StepShape, ProbeReleased, At
<1>3. \E step \in {"read"} :
            Moved(p, step, proc[p].cmd) /\ Licit(p, step, proc[p].cmd)
  BY <1>1, GotoMoves DEF LInv, StoreTyped, Licit, Proper, HolderSteps, Steps, Exits, Problems,
     ProbeReleased, At, Unlock, Free
<1>4. Calm(p)
  BY <1>1, <1>3 DEF LInv, StoreTyped, Calm, KeySteps, ProbeReleased
<1> QED
  BY <1>2, <1>3, <1>4, LicitMove

LEMMA InspectReadKeeps ==
    ASSUME LInv, NEW p \in Processes, InspectRead(p)
    PROVE  LInv' /\ Calm(p)
<1> USE RolesAssumption
<1>1. proc[p].at = "read" /\ lock # p /\ Proper(p, proc[p].at, proc[p].cmd)
  BY DEF LInv, StepShape, HolderSteps, InspectRead, At
<1>2. StoreTyped' /\ BackupIsWhole'
  BY <1>1 DEF LInv, StoreTyped, BackupIsWhole, StepShape, InspectRead, At, Problem, SchemaProblem
<1>3. \E step \in {"inspected"} :
            Moved(p, step, proc[p].cmd) /\ Licit(p, step, proc[p].cmd)
  BY <1>1, ConcludedMoves DEF LInv, StoreTyped, Licit, Proper, HolderSteps, Steps, Exits,
     Problems, InspectRead, At, Unlock, Free, Problem, SchemaProblem
<1>4. Calm(p)
  BY <1>1, <1>3 DEF LInv, StoreTyped, Calm, KeySteps, InspectRead
<1> QED
  BY <1>2, <1>3, <1>4, LicitMove

LEMMA InitReportsKeeps ==
    ASSUME LInv, NEW p \in Processes, InitReports(p)
    PROVE  LInv' /\ Calm(p)
<1> USE RolesAssumption
<1>1. proc[p].at = "inspected" /\ lock # p /\ Proper(p, proc[p].at, proc[p].cmd)
  BY DEF LInv, StepShape, HolderSteps, InitReports, At
<1>2. StoreTyped' /\ BackupIsWhole'
  BY <1>1 DEF LInv, StoreTyped, BackupIsWhole, StepShape, InitReports, At
<1>3. Moved(p, "idle", "none") /\ Licit(p, "idle", "none")
  BY <1>1, ExitMoves DEF LInv, StoreTyped, Licit, Proper, HolderSteps, Steps, Exits, Problems,
     InitReports, At, Unlock, Free
<1>4. Calm(p)
  BY <1>1, <1>3 DEF LInv, StoreTyped, Calm, KeySteps, InitReports
<1> QED
  BY <1>2, <1>3, <1>4, LicitMove

LEMMA KillKeeps ==
    ASSUME LInv, NEW p \in Processes, Kill(p)
    PROVE  LInv' /\ Calm(p)
<1> USE RolesAssumption
<1>1. TRUE /\ Proper(p, proc[p].at, proc[p].cmd)
  BY DEF LInv, StepShape, HolderSteps, Kill, At
<1>2. StoreTyped' /\ BackupIsWhole'
  BY <1>1 DEF LInv, StoreTyped, BackupIsWhole, StepShape, Kill, At
<1>3. Moved(p, "idle", "none") /\ Licit(p, "idle", "none")
  BY <1>1, ExitMoves DEF LInv, StoreTyped, Licit, Proper, HolderSteps, Steps, Exits, Problems,
     Kill, At, Unlock, Free
<1>4. Calm(p)
  BY <1>1, <1>3 DEF LInv, StoreTyped, Calm, KeySteps, Kill
<1> QED
  BY <1>2, <1>3, <1>4, LicitMove

LEMMA StartKeeps ==
    ASSUME LInv, NEW p \in Writers, NEW cmd \in Commands, Start(p, cmd)
    PROVE  LInv' /\ Calm(p)
<1> USE RolesAssumption
<1>1. p \in Processes /\ proc[p].at = "idle" /\ lock # p /\ commands' \in 0 .. MaxCommands
  BY DEF LInv, StoreTyped, StepShape, HolderSteps, Start, At, Processes
<1>2. FirstStep(cmd) \in {"present", "writer", "destination", "candidate"}
  BY DEF FirstStep, Commands
<1>3. Moved(p, FirstStep(cmd), cmd)
  BY <1>1, <1>2 DEF LInv, Start, Moved, ProcType, Fresh, Steps, Exits, Problems
<1>4. Proper(p, FirstStep(cmd), cmd)
  BY DEF Proper, FirstStep, Commands, Start
<1>5. Licit(p, FirstStep(cmd), cmd)
  BY <1>1, <1>2, <1>4 DEF LInv, Licit, HolderSteps, Start, Free
<1>6. StoreTyped' /\ BackupIsWhole'
  BY <1>1 DEF LInv, StoreTyped, BackupIsWhole, Start
<1>7. Calm(p)
  BY <1>2, <1>3 DEF Calm, KeySteps, Start
<1> QED
  BY <1>1, <1>3, <1>5, <1>6, <1>7, LicitMove

LEMMA ImportKeyKeeps ==
    ASSUME LInv, NEW p \in Processes, NEW key \in 1 .. minted, ImportKey(p, key)
    PROVE  LInv' /\ Steady(p)
<1> USE RolesAssumption
<1>1. proc[p].at = "candidate" /\ lock # p /\ Proper(p, proc[p].at, proc[p].cmd) /\ key \in 0 .. MaxKeys
  BY DEF LInv, StoreTyped, StepShape, HolderSteps, ImportKey, At
<1>2. StoreTyped' /\ BackupIsWhole'
  BY DEF LInv, StoreTyped, BackupIsWhole, ImportKey
<1>3. \/ Moved(p, "set", proc[p].cmd) /\ Licit(p, "set", proc[p].cmd)
      \/ Moved(p, "idle", "none") /\ Licit(p, "idle", "none")
  BY <1>1, KeyMoves, ExitMoves DEF LInv, Licit, Proper, HolderSteps, Steps, Exits, ImportKey, Free
<1>4. Steady(p)
  BY <1>3 DEF Moved, Steady, ImportKey
<1> QED
  BY <1>2, <1>3, <1>4, LicitMove

LEMMA LoseKeyKeeps == ASSUME LInv, LoseKey PROVE LInv'
BY RolesAssumption DEF LInv, StoreTyped, BackupIsWhole, StepShape, Proper, LoseKey

LEMMA CallToolKeeps ==
    ASSUME LInv, CallTool, proc[Reader].at = "idle"
    PROVE  LInv' /\ Calm(Reader)
<1> USE RolesAssumption
<1>1. Reader \in Processes /\ lock # Reader /\ Proper(Reader, proc[Reader].at, proc[Reader].cmd)
  BY DEF LInv, StepShape, HolderSteps, Processes
<1>2. Moved(Reader, "inspect", proc[Reader].cmd)
  BY <1>1, GotoMoves DEF LInv, CallTool, Steps
<1>3. Licit(Reader, "inspect", proc[Reader].cmd)
  BY <1>1 DEF LInv, Licit, Proper, HolderSteps, CallTool, Free
<1>4. StoreTyped' /\ BackupIsWhole'
  BY DEF LInv, StoreTyped, BackupIsWhole, CallTool
<1> QED
  BY <1>1, <1>2, <1>3, <1>4, LicitMove DEF Calm, KeySteps, CallTool

LEMMA AnswerKeeps ==
    ASSUME LInv, ToolUnservable \/ ToolAnswers
    PROVE  LInv' /\ Calm(Reader)
<1> USE RolesAssumption
<1>1. Reader \in Processes /\ proc[Reader].at = "inspected" /\ lock # Reader
  BY DEF LInv, StepShape, HolderSteps, Processes, ToolUnservable, ToolAnswers, At
<1>2. Moved(Reader, "idle", "none")
  BY <1>1, ExitMoves DEF LInv, ToolUnservable, ToolAnswers, Exits
<1>3. UNCHANGED <<file, chain, minted, lock, copy, commands, refusedBy>>
  BY DEF ToolUnservable, ToolAnswers
<1>4. Licit(Reader, "idle", "none")
  BY <1>1, <1>3 DEF LInv, Licit, Proper, HolderSteps, Free
<1>5. StoreTyped' /\ BackupIsWhole'
  BY <1>3 DEF LInv, StoreTyped, BackupIsWhole
<1> QED
  BY <1>1, <1>2, <1>3, <1>4, <1>5, LicitMove DEF Calm, KeySteps

-----------------------------------------------------------------------------
(* The key and the file *)

\* At most one process may run `store init`.
Sole == \A p, q \in Initialisers : p = q

\* What a process that has a key in hand, or may mint one, takes for granted.
KeyShape(p) ==
    /\ proc[p].at \in {"lock", "connect"} =>
          /\ proc[p].cmd # "init" => file.exists
          /\ proc[p].key # 0 /\ (file.key = 0 => chain \in {0, proc[p].key})
    /\ proc[p].at = "mint" \/ (proc[p].at = "key" /\ ~proc[p].existed) => ~file.exists
    /\ proc[p].at = "set" => proc[p].key # 0 /\ proc[p].key = file.key

KInv ==
    /\ ~file.exists => file.key = 0
    /\ KeyOpensTheFile
    /\ \A p \in Processes : KeyShape(p)

LEMMA CalmKeeps == ASSUME KInv, NEW p \in Processes, Calm(p) PROVE KInv'
<1>1. ASSUME NEW q \in Processes PROVE KeyShape(q)'
  <2>1. CASE q = p
    BY <2>1 DEF Calm, Moved, KeySteps, KeyShape
  <2>2. CASE q # p
    BY <2>2 DEF KInv, Calm, Moved, KeyShape
  <2> QED
    BY <2>1, <2>2
<1> QED
  BY <1>1 DEF KInv, Calm, KeyOpensTheFile

\* Only one process is at a step of `store init`.
LEMMA Alone ==
    ASSUME LInv, Sole, NEW p \in Processes, NEW q \in Processes, q # p, proc[p].cmd = "init"
    PROVE  proc[q].cmd # "init" /\ proc[q].at \notin {"present", "key", "mint", "migrate"}
BY DEF LInv, StepShape, Proper, Sole

\* A step that moves p and writes neither the file nor the keychain.
LEMMA KeyMoveKeeps ==
    ASSUME KInv, NEW p \in Processes, NEW step, NEW cmd, Moved(p, step, cmd), KeyShape(p)',
           file' = file, chain' = chain
    PROVE  KInv'
<1>1. ASSUME NEW q \in Processes, q # p PROVE KeyShape(q)'
  BY <1>1 DEF KInv, Moved, KeyShape
<1> QED
  BY <1>1 DEF KInv, KeyOpensTheFile

LEMMA CheckPresentKeepsKeys ==
    ASSUME LInv, KInv, NEW p \in Processes, CheckPresent(p) PROVE KInv'
<1>1. Moved(p, "key", proc[p].cmd) /\ proc'[p].existed = file.exists /\ file' = file /\ chain' = chain
  BY PresentMoves DEF LInv, StoreTyped, CheckPresent
<1> QED
  BY <1>1, KeyMoveKeeps DEF KeyShape, Moved

LEMMA ObtainKeyKeepsKeys ==
    ASSUME LInv, KInv, NEW p \in Processes, ObtainKey(p) PROVE KInv'
<1>1. \/ Moved(p, "writer", proc[p].cmd)
      \/ Moved(p, "mint", proc[p].cmd) /\ ~proc[p].existed
      \/ Moved(p, "idle", "none")
  BY GotoMoves, ExitMoves DEF LInv, ObtainKey, Steps, Exits
<1>2. file' = file /\ chain' = chain /\ proc[p].at = "key" /\ KeyShape(p)
  BY DEF KInv, ObtainKey, At
<1> QED
  BY <1>1, <1>2, KeyMoveKeeps DEF KeyShape, Moved

LEMMA WriterKeyKeepsKeys ==
    ASSUME LInv, KInv, NEW p \in Processes, WriterKey(p) PROVE KInv'
<1>1. \/ /\ Moved(p, "lock", proc[p].cmd) /\ proc'[p].key = chain
         /\ chain # 0 /\ (proc[p].cmd = "init" \/ file.exists)
      \/ Moved(p, "idle", "none")
  BY KeyMoves, ExitMoves DEF LInv, StoreTyped, WriterKey, Creating, Steps, Exits
<1>2. file' = file /\ chain' = chain
  BY DEF WriterKey
<1> QED
  BY <1>1, <1>2, KeyMoveKeeps DEF KeyShape, Moved

LEMMA ExclusiveLockKeepsKeys ==
    ASSUME LInv, KInv, NEW p \in Processes, ExclusiveLock(p) PROVE KInv'
<1>1. \/ Moved(p, "connect", proc[p].cmd) /\ proc'[p].key = proc[p].key
      \/ Moved(p, "idle", "none")
  <2>1. proc \in ProcType /\ "connect" \in Steps /\ "refused" \in Exits
    BY DEF LInv, Steps, Exits
  <2>2. Goto(p, "connect") => proc'[p].key = proc[p].key
    BY <2>1 DEF Goto, ProcType
  <2> QED
    BY <2>1, <2>2, GotoMoves, ExitMoves DEF ExclusiveLock
<1>2. file' = file /\ chain' = chain /\ proc[p].at = "lock" /\ KeyShape(p)
  BY DEF KInv, ExclusiveLock, At
<1> QED
  BY <1>1, <1>2, KeyMoveKeeps DEF KeyShape, Moved

LEMMA ImportKeyKeepsKeys ==
    ASSUME LInv, KInv, NEW p \in Processes, NEW key \in 1 .. minted, ImportKey(p, key) PROVE KInv'
<1>1. \/ Moved(p, "set", proc[p].cmd) /\ proc'[p].key = key /\ key # 0 /\ file.key = key
      \/ Moved(p, "idle", "none")
  <2>1. key \in 0 .. MaxKeys /\ key # 0
    BY RolesAssumption DEF LInv, StoreTyped
  <2> QED
    BY <2>1, KeyMoves, ExitMoves DEF LInv, ImportKey, OpensWith, Steps, Exits
<1>2. file' = file /\ chain' = chain
  BY DEF ImportKey
<1> QED
  BY <1>1, <1>2, KeyMoveKeeps DEF KeyShape, Moved

\* The key that is imported is the key of the file, and never of another one.
LEMMA SetImportedKeyKeepsKeys ==
    ASSUME LInv, KInv, NEW p \in Processes, SetImportedKey(p) PROVE KInv'
<1>1. Moved(p, "idle", "none") /\ file' = file /\ chain' = file.key /\ file.key # 0
  BY ExitMoves DEF LInv, KInv, KeyShape, SetImportedKey, At, Exits
<1>2. ASSUME NEW q \in Processes PROVE KeyShape(q)'
  BY <1>1, <1>2 DEF KInv, Moved, KeyShape
<1> QED
  BY <1>1, <1>2 DEF KInv, KeyOpensTheFile

\* A key is minted only while there is no file, so no one else has one in hand.
LEMMA SetDatastoreKeyKeepsKeys ==
    ASSUME LInv, KInv, Sole, NEW p \in Processes, SetDatastoreKey(p) PROVE KInv'
<1>1. /\ Moved(p, "writer", proc[p].cmd) /\ file' = file /\ proc[p].at = "mint"
      /\ proc[p].cmd = "init" /\ ~file.exists /\ file.key = 0
  BY GotoMoves DEF LInv, KInv, StepShape, Proper, KeyShape, SetDatastoreKey, At, Steps
<1>2. ASSUME NEW q \in Processes PROVE KeyShape(q)'
  <2>1. CASE q = p
    BY <1>1, <2>1 DEF Moved, KeyShape
  <2>2. CASE q # p
    <3>1. proc'[q] = proc[q] /\ KeyShape(q) /\ proc[q].cmd # "init"
      BY <1>1, <2>2, Alone DEF Moved, KInv
    <3> QED
      BY <1>1, <3>1 DEF KeyShape
  <2> QED
    BY <2>1, <2>2
<1> QED
  BY <1>1, <1>2 DEF KInv, KeyOpensTheFile

LEMMA CreateFileKeepsKeys ==
    ASSUME LInv, KInv, Sole, NEW p \in Processes, CreateFile(p) PROVE KInv'
<1>1. /\ proc' = proc /\ chain' = chain /\ proc[p].at = "connect" /\ proc[p].cmd = "init"
      /\ ~file.exists /\ file'.exists /\ file'.key = file.key
  BY DEF LInv, StoreTyped, CreateFile, Creating, At
<1>2. ASSUME NEW q \in Processes PROVE KeyShape(q)'
  <2>1. CASE q = p
    BY <1>1, <2>1 DEF KInv, KeyShape
  <2>2. CASE q # p
    <3>1. KeyShape(q) /\ proc[q].at \notin {"key", "mint"}
      BY <1>1, <2>2, Alone DEF KInv
    <3> QED
      BY <1>1, <3>1 DEF KeyShape
  <2> QED
    BY <2>1, <2>2
<1> QED
  BY <1>1, <1>2 DEF KInv, KeyOpensTheFile

\* The first page is written under the key in hand, which is the keychain's.
LEMMA KeyAndPrepareKeepsKeys ==
    ASSUME LInv, KInv, NEW p \in Processes, KeyAndPrepare(p) PROVE KInv'
<1>1. proc[p].at = "connect" /\ file.exists /\ chain' = chain /\ KeyShape(p)
  BY DEF KInv, KeyAndPrepare, At
<1>2. CASE ~Opens(proc[p].key)
  <2>1. Moved(p, "idle", "none") /\ file' = file
    BY <1>2, ExitMoves DEF LInv, KeyAndPrepare, Exits
  <2> QED
    BY <1>1, <2>1, KeyMoveKeeps DEF KeyShape, Moved
<1>3. CASE Opens(proc[p].key)
  <2>1. /\ file' = [file EXCEPT !.key = proc[p].key]
        /\ Goto(p, Connected(proc[p].cmd)) /\ Connected(proc[p].cmd) \in {"migrate", "schema", "vacuum"}
    <3>1. proc[p].cmd \in {"init", "write", "backup"}
      BY <1>1 DEF LInv, StepShape, Proper
    <3> QED
      BY <1>3, <3>1 DEF KeyAndPrepare, Connected
  <2>2. Moved(p, Connected(proc[p].cmd), proc[p].cmd)
    BY <2>1, GotoMoves DEF LInv, Steps
  <2>3. file'.exists = file.exists /\ file'.key = proc[p].key
    BY <2>1 DEF LInv, StoreTyped
  <2>4. proc[p].key # 0 /\ file.key \in {0, proc[p].key}
    BY <1>1, <1>3 DEF KeyShape, Opens
  <2>5. ASSUME NEW q \in Processes PROVE KeyShape(q)'
    <3>1. CASE q = p
      BY <2>1, <2>2, <3>1 DEF Moved, KeyShape
    <3>2. CASE q # p
      BY <1>1, <2>2, <2>3, <2>4, <3>2 DEF KInv, Moved, KeyShape
    <3> QED
      BY <3>1, <3>2
  <2>6. KeyOpensTheFile'
    BY <1>1, <2>3, <2>4 DEF KInv, KeyOpensTheFile, KeyShape
  <2> QED
    BY <1>1, <2>3, <2>5, <2>6 DEF KInv
<1> QED
  BY <1>2, <1>3

LEMMA LoseKeyKeepsKeys == ASSUME KInv, LoseKey PROVE KInv'
BY DEF KInv, LoseKey, KeyShape, KeyOpensTheFile

-----------------------------------------------------------------------------
(* The session *)

LEMMA ReplyTyped ==
    ASSUME session \in SessionType, NEW id \in Nat, NEW outcome \in Outcomes
    PROVE  Reply(id, outcome) \in Replies
BY DEF SessionType, Reply, Replies

LEMMA WriteTyped ==
    ASSUME NEW s \in SessionType, NEW rs \in Seq(Replies)
    PROVE  /\ Write(s, rs) \in SessionType
           /\ Write(s, rs).at \in {s.at, "ended"}
           /\ Write(s, rs).line = s.line /\ Write(s, rs).undecodable = s.undecodable
           /\ Write(s, rs).sent = s.sent \/ Write(s, rs).sent = s.sent \o rs
           /\ Write(s, rs).replies = <<>> /\ Write(s, rs).missing = s.missing
<1>1. CASE s.pipe = "open"
  <2>1. Write(s, rs) = [at |-> s.at, line |-> s.line, handled |-> s.handled,
                        undecodable |-> s.undecodable, pipe |-> s.pipe, missing |-> s.missing,
                        replies |-> <<>>, sent |-> s.sent \o rs]
    BY <1>1 DEF Write, SessionType
  <2>2. <<>> \in Seq(Replies) /\ s.sent \o rs \in Seq(Replies)
    BY DEF SessionType
  <2> QED
    BY <2>1, <2>2 DEF SessionType
<1>2. CASE s.pipe # "open"
  <2>1. Write(s, rs) = [at |-> "ended", line |-> s.line, handled |-> s.handled,
                        undecodable |-> s.undecodable, pipe |-> s.pipe, missing |-> s.missing,
                        replies |-> <<>>, sent |-> s.sent]
    BY <1>2 DEF Write, SessionType
  <2>2. <<>> \in Seq(Replies)
    OBVIOUS
  <2> QED
    BY <2>1, <2>2 DEF SessionType
<1> QED
  BY <1>1, <1>2

LEMMA NextLineTyped ==
    ASSUME NEW s \in SessionType
    PROVE  /\ NextLine(s) \in SessionType
           /\ NextLine(s).at \in {"reading", "ended"} /\ (s.at = "ended" => NextLine(s).at = "ended")
           /\ NextLine(s).line = s.line + 1 /\ NextLine(s).undecodable = s.undecodable
           /\ NextLine(s).sent = s.sent /\ NextLine(s).replies = s.replies
<1> DEFINE a == [s EXCEPT !.at = IF s.at = "ended" THEN "ended" ELSE "reading"]
           b == [a EXCEPT !.line = s.line + 1]
           c == [b EXCEPT !.handled = 0]
<1>1. NextLine(s) = c
  BY DEF NextLine, SessionType
<1>2. /\ a \in SessionType
      /\ a.at \in {"reading", "ended"} /\ (s.at = "ended" => a.at = "ended") /\ a.line = s.line
      /\ a.undecodable = s.undecodable /\ a.sent = s.sent /\ a.replies = s.replies
  BY DEF SessionType
<1> HIDE DEF a
<1>3. /\ b \in SessionType /\ b.at = a.at /\ b.line = s.line + 1
      /\ b.undecodable = a.undecodable /\ b.sent = a.sent /\ b.replies = a.replies
  BY <1>2 DEF SessionType
<1> HIDE DEF b
<1>4. /\ c \in SessionType /\ c.at = b.at /\ c.line = b.line
      /\ c.undecodable = b.undecodable /\ c.sent = b.sent /\ c.replies = b.replies
  BY <1>3 DEF SessionType
<1> QED
  BY <1>1, <1>2, <1>3, <1>4

LEMMA DecodedTyped ==
    ASSUME NEW s \in SessionType
    PROVE  /\ Decoded(s) \in SessionType
           /\ Decoded(s).at = s.at /\ Decoded(s).line = s.line /\ Decoded(s).undecodable = 0
           /\ Decoded(s).sent = s.sent /\ Decoded(s).replies = s.replies /\ Decoded(s).missing = s.missing
BY DEF Decoded, SessionType

LEMMA HandledTyped ==
    ASSUME NEW s \in SessionType, NEW id \in Nat, id = Message.id, session \in SessionType,
           NEW outcome \in Outcomes \cup {"none"}
    PROVE  /\ Handled(s, outcome) \in SessionType
           /\ Handled(s, outcome).at = "handling" /\ Handled(s, outcome).line = s.line
           /\ Handled(s, outcome).undecodable = s.undecodable /\ Handled(s, outcome).sent = s.sent
           /\ \/ outcome = "none" /\ Handled(s, outcome).replies = s.replies
              \/ outcome # "none" /\ Handled(s, outcome).replies = Append(s.replies, Reply(id, outcome))
<1> DEFINE rs == IF outcome = "none" THEN s.replies ELSE Append(s.replies, Reply(id, outcome))
<1>1. rs \in Seq(Replies)
  BY ReplyTyped DEF SessionType
<1> DEFINE a == [s EXCEPT !.at = "handling"]
           b == [a EXCEPT !.handled = s.handled + 1]
           c == [b EXCEPT !.replies = rs]
<1>2. Handled(s, outcome) = c
  BY DEF Handled, SessionType
<1> HIDE DEF rs
<1>3. /\ a \in SessionType /\ a.at = "handling" /\ a.line = s.line
      /\ a.undecodable = s.undecodable /\ a.sent = s.sent
  BY DEF SessionType
<1> HIDE DEF a
<1>4. /\ b \in SessionType /\ b.at = a.at /\ b.line = a.line
      /\ b.undecodable = a.undecodable /\ b.sent = a.sent
  <2>1. s.handled + 1 \in Nat
    BY DEF SessionType
  <2> QED
    BY <1>3, <2>1 DEF SessionType
<1> HIDE DEF b
<1>5. /\ c \in SessionType /\ c.at = b.at /\ c.line = b.line /\ c.replies = rs
      /\ c.undecodable = b.undecodable /\ c.sent = b.sent
  BY <1>1, <1>4 DEF SessionType
<1> HIDE DEF c
<1> QED
  BY <1>2, <1>3, <1>4, <1>5 DEF rs

\* An empty answer in a sequence of replies was given over no datastore.
Truthful(rs) == \A k \in DOMAIN rs : rs[k].outcome = "empty" => rs[k].missing

LEMMA TruthfulAppend ==
    ASSUME NEW rs \in Seq(Replies), Truthful(rs), NEW reply \in Replies,
           reply.outcome = "empty" => reply.missing
    PROVE  Truthful(Append(rs, reply))
BY DEF Truthful

LEMMA TruthfulConcat ==
    ASSUME NEW rs \in Seq(Replies), NEW more \in Seq(Replies), Truthful(rs), Truthful(more)
    PROVE  Truthful(rs \o more)
BY DEF Truthful

LEMMA OneReply ==
    ASSUME NEW reply \in Replies, reply.outcome # "empty"
    PROVE  <<reply>> \in Seq(Replies) /\ Truthful(<<reply>>)
<1>1. <<reply>> \in Seq(Replies) /\ DOMAIN <<reply>> = {1} /\ <<reply>>[1] = reply
  OBVIOUS
<1> QED
  BY <1>1 DEF Truthful

LEMMA TruthfulWrite ==
    ASSUME NEW s \in SessionType, NEW rs \in Seq(Replies), Truthful(s.sent), Truthful(rs)
    PROVE  /\ Write(s, rs) \in SessionType
           /\ Write(s, rs).at \in {s.at, "ended"}
           /\ Write(s, rs).line = s.line /\ Write(s, rs).undecodable = s.undecodable
           /\ Write(s, rs).replies = <<>> /\ Truthful(Write(s, rs).sent)
<1>1. s.sent \in Seq(Replies)
  BY DEF SessionType
<1> QED
  BY <1>1, WriteTyped, TruthfulConcat

SessInv ==
    /\ script \in Scripts /\ session \in SessionType
    /\ session.line <= Len(script) /\ session.undecodable <= MaxUndecodable
    /\ session.at # "ended" => session.undecodable < MaxUndecodable
    /\ session.at \in {"handling", "calling"} => session.line < Len(script)
    /\ session.at = "calling" => session.handled < Len(Line.msgs)
    /\ Truthful(session.replies) /\ Truthful(session.sent)

\* The read role is at work exactly while a tool is called, and a file that was
\* there as the call came in is there still.
Link ==
    /\ session.at = "calling" <=> proc[Reader].at # "idle"
    /\ session.at = "calling" /\ ~session.missing => file.exists
    /\ proc[Reader].at = "inspected" /\ proc[Reader].problem = "missing" => session.missing

SInv == LInv /\ SessInv /\ Link

LEMMA LineTyped ==
    ASSUME SessInv, session.line < Len(script)
    PROVE  /\ Line \in Lines
           /\ session.handled < Len(Line.msgs) => Message.id \in Nat /\ Message.method \in Methods
<1>1. script \in Seq(Lines) /\ session.line + 1 \in 1 .. Len(script)
  BY ServerAssumption DEF SessInv, SessionType
<1>2. Line \in Lines
  BY <1>1 DEF Line
<1>3. Line.msgs \in Seq(Messages)
  BY <1>2 DEF Lines
<1>4. session.handled \in Nat
  BY DEF SessInv, SessionType
<1>5. session.handled < Len(Line.msgs) => session.handled + 1 \in 1 .. Len(Line.msgs)
  BY <1>3, <1>4
<1>6. session.handled < Len(Line.msgs) => Message \in Messages
  <2>1. ASSUME NEW S, NEW ms \in Seq(S), NEW k \in 1 .. Len(ms) PROVE ms[k] \in S
    OBVIOUS
  <2> QED
    BY <1>3, <1>5, <2>1 DEF Message
<1> QED
  BY <1>2, <1>6 DEF Messages

\* A step of the session that is no call.
LEMMA SessionOnly ==
    ASSUME SInv, UNCHANGED roles, session.at # "calling", session'.at # "calling"
    PROVE  LInv' /\ Link'
<1>1. LInv'
  BY DEF SInv, LInv, StoreTyped, StepShape, Proper, BackupIsWhole, roles
<1>2. Link'
  BY DEF SInv, Link, roles
<1> QED
  BY <1>1, <1>2

LEMMA ReadUndecodableKeeps == ASSUME SInv, ReadUndecodable PROVE SInv'
<1> DEFINE u == [session EXCEPT !.undecodable = @ + 1]
           w == Write(u, <<Reply(0, "parse error")>>)
           s == NextLine(w)
<1>1. /\ session \in SessionType /\ session.at = "reading" /\ session.line < Len(script)
      /\ session.undecodable < MaxUndecodable /\ UNCHANGED <<roles, script>>
  BY DEF SInv, SessInv, ReadUndecodable, Reading
<1>2. u \in SessionType /\ u.at = "reading" /\ u.line = session.line
      /\ u.undecodable = session.undecodable + 1 /\ u.sent = session.sent
  BY <1>1 DEF SessionType
<1>3. <<Reply(0, "parse error")>> \in Seq(Replies) /\ Truthful(<<Reply(0, "parse error")>>)
  <2>1. Reply(0, "parse error") \in Replies /\ Reply(0, "parse error").outcome = "parse error"
    BY <1>1, ReplyTyped DEF Outcomes, Reply
  <2> QED
    BY <2>1, OneReply
<1> HIDE DEF u
<1>4. /\ w \in SessionType /\ w.line = session.line /\ w.undecodable = session.undecodable + 1
      /\ Truthful(w.sent) /\ w.replies = <<>>
  BY <1>2, <1>3, TruthfulWrite DEF SInv, SessInv
<1> HIDE DEF w
<1>5. /\ s \in SessionType /\ s.at \in {"reading", "ended"} /\ s.line = session.line + 1
      /\ s.undecodable = session.undecodable + 1 /\ Truthful(s.sent) /\ s.replies = <<>>
  BY <1>4, NextLineTyped
<1>6. session' = IF s.undecodable >= MaxUndecodable THEN [s EXCEPT !.at = "ended"] ELSE s
  BY DEF ReadUndecodable, u, w
<1> HIDE DEF s
<1>7. /\ session' \in SessionType /\ session'.at \in {"reading", "ended"}
      /\ session'.line = s.line /\ session'.undecodable = s.undecodable
      /\ session'.sent = s.sent /\ session'.replies = s.replies
      /\ session'.at # "ended" => s.undecodable < MaxUndecodable
  BY <1>5, <1>6, ServerAssumption DEF SessionType
<1>8. SessInv'
  BY <1>1, <1>5, <1>7, ServerAssumption DEF SInv, SessInv, SessionType, Truthful
<1> QED
  BY <1>1, <1>7, <1>8, SessionOnly DEF SInv

\* A line is read to its end.
LEMMA LineDone ==
    ASSUME SInv, session.at # "calling", session.line < Len(script), UNCHANGED <<roles, script>>,
           NEW s \in SessionType, s.line = session.line, s.undecodable < MaxUndecodable,
           Truthful(s.sent), Truthful(s.replies), session' = NextLine(s)
    PROVE  SInv'
<1>1. /\ session' \in SessionType /\ session'.at \in {"reading", "ended"}
      /\ session'.line = session.line + 1 /\ session'.undecodable = s.undecodable
      /\ session'.sent = s.sent /\ session'.replies = s.replies
  BY NextLineTyped
<1>2. script' \in Scripts /\ script' = script /\ script \in Seq(Lines)
  BY ServerAssumption DEF SInv, SessInv
<1>3. s.undecodable \in Nat /\ session.line \in Nat
  BY DEF SInv, SessInv, SessionType
<1>4. SessInv'
  BY <1>1, <1>2, <1>3, ServerAssumption DEF SessInv, Truthful
<1> QED
  BY <1>1, <1>4, SessionOnly DEF SInv

LEMMA ReadBlankKeeps == ASSUME SInv, ReadBlank PROVE SInv'
<1>1. /\ session \in SessionType /\ session.at = "reading" /\ session.line < Len(script)
      /\ session' = NextLine(Decoded(session)) /\ UNCHANGED <<roles, script>>
      /\ Truthful(session.replies) /\ Truthful(session.sent)
  BY DEF SInv, SessInv, ReadBlank, Reading
<1> QED
  BY <1>1, DecodedTyped, LineDone, ServerAssumption

LEMMA ReadGarbledKeeps == ASSUME SInv, ReadGarbled PROVE SInv'
<1> DEFINE d == Decoded(session)
           w == Write(d, <<Reply(0, "parse error")>>)
<1>1. /\ session \in SessionType /\ session.at = "reading" /\ session.line < Len(script)
      /\ session' = NextLine(w) /\ UNCHANGED <<roles, script>> /\ Truthful(session.sent)
  BY DEF SInv, SessInv, ReadGarbled, Reading
<1>2. d \in SessionType /\ d.line = session.line /\ d.undecodable = 0 /\ Truthful(d.sent)
  BY <1>1, DecodedTyped
<1>3. <<Reply(0, "parse error")>> \in Seq(Replies) /\ Truthful(<<Reply(0, "parse error")>>)
  <2>1. Reply(0, "parse error") \in Replies /\ Reply(0, "parse error").outcome = "parse error"
    BY <1>1, ReplyTyped DEF Outcomes, Reply
  <2> QED
    BY <2>1, OneReply
<1> HIDE DEF d
<1>4. /\ w \in SessionType /\ w.line = session.line /\ w.undecodable = 0
      /\ Truthful(w.sent) /\ w.replies = <<>>
  BY <1>2, <1>3, TruthfulWrite
<1> HIDE DEF w
<1>5. Truthful(w.replies)
  BY <1>4 DEF Truthful
<1> QED
  BY <1>1, <1>4, <1>5, LineDone, ServerAssumption

LEMMA ReadFrameKeeps == ASSUME SInv, ReadFrame PROVE SInv'
<1> DEFINE d == Decoded(session)
<1>1. /\ session \in SessionType /\ session.at = "reading" /\ session.line < Len(script)
      /\ session' = [d EXCEPT !.at = "handling"] /\ UNCHANGED <<roles, script>>
  BY DEF SInv, SessInv, ReadFrame, Reading
<1>2. d \in SessionType /\ d.line = session.line /\ d.undecodable = 0
      /\ d.sent = session.sent /\ d.replies = session.replies
  BY <1>1, DecodedTyped
<1> HIDE DEF d
<1>3. /\ session' \in SessionType /\ session'.at = "handling" /\ session'.line = session.line
      /\ session'.undecodable = 0 /\ session'.sent = session.sent
      /\ session'.replies = session.replies
  BY <1>1, <1>2 DEF SessionType
<1>4. SessInv'
  BY <1>1, <1>3, ServerAssumption DEF SInv, SessInv, Truthful
<1> QED
  BY <1>1, <1>3, <1>4, SessionOnly DEF SInv

LEMMA EndOfInputKeeps == ASSUME SInv, EndOfInput PROVE SInv'
<1>1. /\ session.at = "reading" /\ session' = [session EXCEPT !.at = "ended"]
      /\ UNCHANGED <<roles, script>> /\ session \in SessionType
  BY DEF SInv, SessInv, EndOfInput, Reading
<1>2. /\ session' \in SessionType /\ session'.at = "ended" /\ session'.line = session.line
      /\ session'.undecodable = session.undecodable /\ session'.sent = session.sent
      /\ session'.replies = session.replies
  BY <1>1 DEF SessionType
<1>3. SessInv'
  BY <1>1, <1>2 DEF SInv, SessInv, Truthful
<1> QED
  BY <1>1, <1>2, <1>3, SessionOnly DEF SInv

\* Closing the pipe is no step of the session: a call goes on.
LEMMA ClosePipeKeeps == ASSUME SInv, ClosePipe PROVE SInv'
<1>1. session' = [session EXCEPT !.pipe = "closed"] /\ UNCHANGED <<roles, script>>
      /\ session \in SessionType
  BY DEF SInv, SessInv, ClosePipe
<1>2. /\ session' \in SessionType /\ session'.at = session.at /\ session'.line = session.line
      /\ session'.undecodable = session.undecodable /\ session'.sent = session.sent
      /\ session'.replies = session.replies /\ session'.missing = session.missing
      /\ session'.handled = session.handled
  BY <1>1 DEF SessionType
<1>3. SessInv'
  BY <1>1, <1>2 DEF SInv, SessInv, Truthful, Line
<1>4. LInv'
  BY <1>1 DEF SInv, LInv, StoreTyped, StepShape, Proper, BackupIsWhole, roles
<1>5. Link'
  BY <1>1, <1>2 DEF SInv, Link, roles
<1> QED
  BY <1>3, <1>4, <1>5 DEF SInv

LEMMA FrameDoneKeeps == ASSUME SInv, FrameDone PROVE SInv'
<1> DEFINE rs == IF Line.msgs = <<>> THEN <<Reply(0, "invalid request")>> ELSE session.replies
           w == Write(session, rs)
<1>1. /\ session \in SessionType /\ session.at = "handling" /\ session.line < Len(script)
      /\ session.undecodable < MaxUndecodable /\ UNCHANGED <<roles, script>>
      /\ Truthful(session.sent) /\ Truthful(session.replies)
  BY DEF SInv, SessInv, FrameDone, Handling
<1>2. session' = NextLine(IF rs = <<>> THEN session ELSE w)
  BY DEF FrameDone
<1>3. rs \in Seq(Replies) /\ Truthful(rs)
  <2>1. Reply(0, "invalid request") \in Replies
        /\ Reply(0, "invalid request").outcome = "invalid request"
    BY <1>1, ReplyTyped DEF Outcomes, Reply
  <2>2. session.replies \in Seq(Replies)
    BY <1>1 DEF SessionType
  <2> QED
    BY <1>1, <2>1, <2>2, OneReply
<1> HIDE DEF rs
<1>4. CASE rs = <<>>
  BY <1>1, <1>2, <1>4, LineDone
<1>5. CASE rs # <<>>
  <2>1. /\ w \in SessionType /\ w.line = session.line /\ w.undecodable = session.undecodable
        /\ Truthful(w.sent) /\ w.replies = <<>>
    BY <1>1, <1>3, TruthfulWrite
  <2>2. Truthful(w.replies)
    BY <2>1 DEF Truthful
  <2> HIDE DEF w
  <2> QED
    BY <1>1, <1>2, <1>5, <2>1, <2>2, LineDone
<1> QED
  BY <1>4, <1>5

\* A message is answered: what the session's part of the invariant needs.
LEMMA AnsweredKeeps ==
    ASSUME SessInv, session.at \in {"handling", "calling"}, session.handled < Len(Line.msgs),
           UNCHANGED script, NEW outcome \in Outcomes \cup {"none"},
           outcome = "empty" => session.missing, session' = Handled(session, outcome)
    PROVE  SessInv' /\ session'.at = "handling"
<1>1. session \in SessionType /\ session.line < Len(script) /\ Message.id \in Nat
      /\ session.replies \in Seq(Replies)
  BY LineTyped DEF SessInv, SessionType
<1>2. /\ session' \in SessionType /\ session'.at = "handling" /\ session'.line = session.line
      /\ session'.undecodable = session.undecodable /\ session'.sent = session.sent
      /\ \/ session'.replies = session.replies
         \/ /\ outcome # "none"
            /\ session'.replies = Append(session.replies, Reply(Message.id, outcome))
  BY <1>1, HandledTyped
<1>3. Truthful(session'.replies)
  <2>1. outcome # "none" => Reply(Message.id, outcome) \in Replies
                            /\ Reply(Message.id, outcome).outcome = outcome
                            /\ Reply(Message.id, outcome).missing = session.missing
    BY <1>1, ReplyTyped DEF Reply
  <2> QED
    BY <1>1, <1>2, <2>1, TruthfulAppend DEF SessInv
<1>4. Truthful(session'.sent)
  BY <1>2 DEF SessInv
<1> QED
  BY <1>1, <1>2, <1>3, <1>4 DEF SessInv

LEMMA HandleMessageKeeps == ASSUME SInv, HandleMessage PROVE SInv'
<1>1. /\ session.at = "handling" /\ session.handled < Len(Line.msgs) /\ UNCHANGED <<roles, script>>
      /\ session' = Handled(session, Outcome(Message))
  BY DEF HandleMessage, Handling
<1>2. Outcome(Message) \in Outcomes \cup {"none"} /\ Outcome(Message) # "empty"
  BY DEF Outcome, Outcomes
<1>3. SessInv' /\ session'.at = "handling"
  BY <1>1, <1>2, AnsweredKeeps DEF SInv
<1> QED
  BY <1>1, <1>3, SessionOnly DEF SInv

\* The reader is idle before a call, and what it then finds is what was there.
LEMMA CallToolKeepsAll == ASSUME SInv, CallTool PROVE SInv'
<1> DEFINE a == [session EXCEPT !.at = "calling"]
<1>1. /\ session \in SessionType /\ session.at = "handling" /\ proc[Reader].at = "idle"
      /\ session.handled < Len(Line.msgs) /\ file.exists \in BOOLEAN
  BY DEF SInv, SessInv, Link, LInv, StoreTyped, CallTool, Handling
<1>2. LInv' /\ Calm(Reader)
  BY <1>1, CallToolKeeps DEF SInv
<1>3. a \in SessionType /\ a.at = "calling" /\ a.line = session.line
      /\ a.undecodable = session.undecodable /\ a.sent = session.sent
      /\ a.replies = session.replies /\ a.handled = session.handled
  BY <1>1 DEF SessionType
<1>4. session' = [a EXCEPT !.missing = ~file.exists] /\ script' = script
  BY DEF CallTool
<1> HIDE DEF a
<1>5. session' \in SessionType /\ session'.at = "calling" /\ session'.line = session.line
      /\ session'.undecodable = session.undecodable /\ session'.sent = session.sent
      /\ session'.replies = session.replies /\ session'.missing = ~file.exists
      /\ session'.handled = session.handled
  <2>1. (~file.exists) \in BOOLEAN
    OBVIOUS
  <2> QED
    BY <1>3, <1>4, <2>1 DEF SessionType
<1>6. SessInv'
  BY <1>1, <1>4, <1>5 DEF SInv, SessInv, Truthful, Line
<1>7. proc'[Reader].at = "inspect" /\ file' = file
  <2>1. Reader \in Processes
    BY DEF Processes
  <2> QED
    BY <2>1 DEF CallTool, Goto, SInv, LInv, ProcType
<1>8. Link'
  BY <1>5, <1>7 DEF Link
<1> QED
  BY <1>2, <1>6, <1>8 DEF SInv

LEMMA InspectingKeeps == ASSUME SInv, Inspecting PROVE SInv'
<1>1. /\ Reader \in Processes /\ session.at = "calling" /\ Inspects(Reader)
      /\ UNCHANGED <<script, session>> /\ proc \in ProcType
  BY DEF SInv, LInv, Inspecting, Processes
<1>2. LInv' /\ Calm(Reader)
  BY <1>1, InspectPresentKeeps, WriterLockHeldKeeps, ProbeReleasedKeeps, InspectReadKeeps
     DEF SInv, Inspects
<1>3. SessInv'
  BY <1>1 DEF SInv, SessInv, Truthful, Line
<1>4. proc'[Reader].at # "idle" /\ file' = file
  <2>1. InspectPresent(Reader) => proc'[Reader].at # "idle" /\ file' = file
    BY <1>1, ConcludedMoves, GotoMoves DEF InspectPresent, Steps, Problems, Moved
  <2>2. WriterLockHeld(Reader) => proc'[Reader].at # "idle" /\ file' = file
    BY <1>1, ConcludedMoves, GotoMoves DEF WriterLockHeld, Steps, Problems, Moved
  <2>3. ProbeReleased(Reader) => proc'[Reader].at # "idle" /\ file' = file
    BY <1>1, GotoMoves DEF ProbeReleased, Steps, Moved
  <2>4. InspectRead(Reader) => proc'[Reader].at # "idle" /\ file' = file
    <3>1. Problem(Reader) \in Problems
      BY DEF Problem, SchemaProblem, Problems
    <3> QED
      BY <1>1, <3>1, ConcludedMoves DEF InspectRead, Moved
  <2> QED
    BY <1>1, <2>1, <2>2, <2>3, <2>4 DEF Inspects
<1>5. proc'[Reader].at = "inspected" /\ proc'[Reader].problem = "missing" => session.missing
  <2>1. CASE InspectPresent(Reader)
    <3>1. CASE file.exists
      BY <1>1, <2>1, <3>1, GotoMoves DEF InspectPresent, Steps, Moved
    <3>2. CASE ~file.exists
      BY <1>1, <3>2 DEF SInv, Link
    <3> QED
      BY <3>1, <3>2
  <2>2. CASE WriterLockHeld(Reader)
    BY <1>1, <2>2, ConcludedMoves, GotoMoves DEF WriterLockHeld, Steps, Problems, Moved
  <2>3. CASE ProbeReleased(Reader)
    BY <1>1, <2>3, GotoMoves DEF ProbeReleased, Steps, Moved
  <2>4. CASE InspectRead(Reader)
    <3>1. Problem(Reader) \in Problems /\ Problem(Reader) # "missing"
      BY DEF Problem, SchemaProblem, Problems
    <3> QED
      BY <1>1, <2>4, <3>1, ConcludedMoves DEF InspectRead
  <2> QED
    BY <1>1, <2>1, <2>2, <2>3, <2>4 DEF Inspects
<1>6. Link'
  BY <1>1, <1>4, <1>5 DEF SInv, Link
<1> QED
  BY <1>2, <1>3, <1>6 DEF SInv

\* A call that is answered leaves the reader idle.
LEMMA CallAnswered ==
    ASSUME SInv, ToolUnservable \/ ToolAnswers, SessInv', session'.at = "handling"
    PROVE  SInv'
<1>1. LInv' /\ Calm(Reader)
  BY AnswerKeeps DEF SInv
<1>2. proc'[Reader].at = "idle"
  <2>1. Reader \in Processes /\ proc \in ProcType /\ Exit(Reader, "none")
    BY DEF SInv, LInv, Processes, ToolUnservable, ToolAnswers
  <2> QED
    BY <2>1, ExitMoves DEF Exits, Moved
<1>3. Link'
  BY <1>2 DEF Link
<1> QED
  BY <1>1, <1>3 DEF SInv

LEMMA ToolUnservableKeeps == ASSUME SInv, ToolUnservable PROVE SInv'
<1>1. /\ session.at = "calling" /\ session.handled < Len(Line.msgs) /\ script' = script
      /\ session' = Handled(session, Unservable(proc[Reader].problem))
      /\ proc[Reader].problem = "missing" => session.missing
  BY DEF SInv, SessInv, Link, ToolUnservable, At
<1>2. /\ Unservable(proc[Reader].problem) \in Outcomes
      /\ Unservable(proc[Reader].problem) = "empty" => proc[Reader].problem = "missing"
  BY DEF Unservable, Outcomes
<1>3. SessInv' /\ session'.at = "handling"
  BY <1>1, <1>2, AnsweredKeeps DEF SInv
<1> QED
  BY <1>3, CallAnswered

LEMMA ToolAnswersKeeps == ASSUME SInv, ToolAnswers PROVE SInv'
<1> DEFINE outcome == IF Problem(Reader) = "none" THEN "result" ELSE "internal_error"
<1>1. /\ session.at = "calling" /\ session.handled < Len(Line.msgs) /\ script' = script
      /\ session' = Handled(session, outcome)
  BY DEF SInv, SessInv, ToolAnswers
<1>2. outcome \in Outcomes /\ outcome # "empty"
  BY DEF Outcomes
<1> HIDE DEF outcome
<1>3. SessInv' /\ session'.at = "handling"
  BY <1>1, <1>2, AnsweredKeeps DEF SInv
<1> QED
  BY <1>3, CallAnswered

-----------------------------------------------------------------------------
(* The operator, and the whole *)

LEMMA WriterStepKeeps ==
    ASSUME LInv, NEW p \in Writers, WriterStep(p)
    PROVE  LInv' /\ Steady(p)
<1>1. p \in Processes
  BY DEF Processes
<1>2. Calm(p) => Steady(p)
  BY DEF Calm, Moved, Steady
<1>3. ASSUME NEW cmd \in Commands, Start(p, cmd) PROVE LInv' /\ Steady(p)
  BY <1>2, <1>3, StartKeeps
<1>4. ASSUME NEW key \in 1 .. minted, ImportKey(p, key) PROVE LInv' /\ Steady(p)
  BY <1>1, <1>4, ImportKeyKeeps
<1>5. CheckPresent(p) \/ ObtainKey(p) \/ SetDatastoreKey(p) \/ WriterKey(p) \/ ExclusiveLock(p)
      \/ CreateFile(p) \/ KeyAndPrepare(p) \/ SetImportedKey(p) => LInv' /\ Steady(p)
  BY <1>1, CheckPresentKeeps, ObtainKeyKeeps, SetDatastoreKeyKeeps, WriterKeyKeeps,
     ExclusiveLockKeeps, CreateFileKeeps, KeyAndPrepareKeeps, SetImportedKeyKeeps
<1>6. Migrate(p) \/ Migrated(p) \/ RequireSupportedSchema(p) \/ Commit(p) \/ CheckDestination(p)
      \/ Vacuum(p) \/ VacuumDone(p) \/ VacuumFails(p) \/ Verify(p) => LInv' /\ Steady(p)
  BY <1>1, <1>2, MigrateKeeps, MigratedKeeps, RequireSupportedSchemaKeeps, CommitKeeps,
     CheckDestinationKeeps, VacuumKeeps, VacuumDoneKeeps, VacuumFailsKeeps, VerifyKeeps
<1>7. Inspects(p) \/ InitReports(p) \/ Kill(p) => LInv' /\ Steady(p)
  BY <1>1, <1>2, InspectPresentKeeps, WriterLockHeldKeeps, ProbeReleasedKeeps, InspectReadKeeps,
     InitReportsKeeps, KillKeeps DEF Inspects
<1> QED
  BY <1>3, <1>4, <1>5, <1>6, <1>7 DEF WriterStep

\* What another process does leaves the session's view of the reader as it is.
LEMMA OperatorStepKeeps == ASSUME SInv, OperatorStep PROVE SInv'
<1>1. UNCHANGED <<script, session>>
  BY DEF OperatorStep
<1>2. SessInv'
  BY <1>1 DEF SInv, SessInv, Truthful, Line
<1>3. /\ LInv' /\ proc'[Reader] = proc[Reader] /\ (file.exists => file'.exists)
  <2>1. CASE LoseKey
    BY <2>1, LoseKeyKeeps DEF SInv, LoseKey
  <2>2. ASSUME NEW p \in Writers, WriterStep(p)
        PROVE  LInv' /\ proc'[Reader] = proc[Reader] /\ (file.exists => file'.exists)
    <3>1. Reader \in Processes /\ p # Reader
      BY RolesAssumption DEF Processes
    <3> QED
      BY <2>2, <3>1, WriterStepKeeps DEF SInv, Steady
  <2> QED
    BY <2>1, <2>2 DEF OperatorStep
<1>4. Link'
  BY <1>1, <1>3 DEF SInv, Link
<1> QED
  BY <1>2, <1>3, <1>4 DEF SInv

LEMMA InitSInv == Init => SInv
<1> USE RolesAssumption, ServerAssumption
<1> SUFFICES ASSUME Init PROVE SInv
  OBVIOUS
<1>1. StoreTyped /\ BackupIsWhole
  BY DEF Init, RolesInit, StoreTyped, NoFile, NoCopy, BackupIsWhole
<1>2. proc \in ProcType
  BY DEF Init, RolesInit, Idle, Fresh, ProcType, Steps, Exits, Problems
<1>3. LInv
  BY <1>1, <1>2 DEF Init, RolesInit, Idle, Fresh, LInv, StepShape, Proper, HolderSteps, Free
<1>4. session \in SessionType
  <2>1. <<>> \in Seq(Replies)
    OBVIOUS
  <2> QED
    BY <2>1 DEF Init, NoSession, SessionType
<1>5. SessInv
  BY <1>4 DEF Init, NoSession, SessInv, Truthful
<1>6. Link
  BY DEF Init, RolesInit, Idle, Fresh, NoSession, Link, Processes
<1> QED
  BY <1>3, <1>5, <1>6 DEF SInv

LEMMA NextSInv == SInv /\ [Next]_vars => SInv'
<1> SUFFICES ASSUME SInv, [Next]_vars PROVE SInv'
  OBVIOUS
<1>1. ServerStep => SInv'
  BY ReadUndecodableKeeps, ReadBlankKeeps, ReadGarbledKeeps, ReadFrameKeeps, EndOfInputKeeps,
     FrameDoneKeeps, HandleMessageKeeps, CallToolKeepsAll, InspectingKeeps, ToolUnservableKeeps,
     ToolAnswersKeeps DEF ServerStep
<1>2. UNCHANGED vars => SInv'
  BY DEF SInv, LInv, StoreTyped, StepShape, Proper, BackupIsWhole, SessInv, Truthful, Line, Link,
         vars, roles
<1> QED
  BY <1>1, <1>2, ClosePipeKeeps, OperatorStepKeeps DEF Next

\* The strengthened invariant: the lock goes with the step, a batch of replies is
\* truthful before it is sent, and the reader is at work exactly while a tool is
\* called.
THEOREM Inductive == Spec => []SInv
BY InitSInv, NextSInv, PTL DEF Spec

\* Every variable of the store and of the session keeps its type, and whoever
\* holds the writer lock is at work.
THEOREM TypeCorrect == Spec => []TypeOK
<1>1. SInv => TypeOK
  BY DEF SInv, LInv, StoreTyped, StepShape, HolderSteps, SessInv, Link, TypeOK, RolesTypeOK, At,
     Free
<1> QED
  BY <1>1, Inductive, PTL

\* A backup that is finished holds every commit made before it was, however
\* many commands run beside it and whichever of them are killed (back_up).
THEOREM BackupIsAlwaysWhole == Spec => []BackupIsWhole
<1>1. SInv => BackupIsWhole
  BY DEF SInv, LInv
<1> QED
  BY <1>1, Inductive, PTL

\* A writer commits under the schema it checked, whichever builds migrate the
\* file meanwhile (writer, _writer).
THEOREM SchemaIsMet == Spec => []WriteMeetsItsSchema
<1>1. SInv => WriteMeetsItsSchema
  BY DEF SInv, LInv, StepShape, WriteMeetsItsSchema, At, Processes
<1> QED
  BY <1>1, Inductive, PTL

\* An empty answer is given only to a call that came in before the datastore
\* was there, whatever the operator does during the call (_readable).
THEOREM EmptyIsTruthful == Spec => []EmptyMeansMissing
<1>1. SInv => EmptyMeansMissing
  BY DEF SInv, SessInv, Truthful, EmptyMeansMissing
<1> QED
  BY <1>1, Inductive, PTL

LEMMA NextKInv == ASSUME Sole PROVE SInv /\ KInv /\ [Next]_vars => KInv'
<1> SUFFICES ASSUME SInv, KInv, [Next]_vars PROVE KInv'
  OBVIOUS
<1> LInv
  BY DEF SInv
<1>1. ASSUME UNCHANGED <<file, chain, proc>> PROVE KInv'
  BY <1>1 DEF KInv, KeyOpensTheFile, KeyShape
<1>2. Reader \in Processes
  BY DEF Processes
<1>3. ServerStep => KInv'
  <2>1. CASE UNCHANGED roles
    BY <1>1, <2>1 DEF roles
  <2>2. CASE CallTool
    <3>1. proc[Reader].at = "idle"
      BY <2>2 DEF SInv, Link, CallTool, Handling
    <3> QED
      BY <1>2, <2>2, <3>1, CallToolKeeps, CalmKeeps
  <2>3. CASE Inspecting
    BY <1>2, <2>3, InspectPresentKeeps, WriterLockHeldKeeps, ProbeReleasedKeeps, InspectReadKeeps,
       CalmKeeps DEF Inspecting, Inspects
  <2>4. CASE ToolUnservable \/ ToolAnswers
    BY <1>2, <2>4, AnswerKeeps, CalmKeeps
  <2> QED
    BY <2>1, <2>2, <2>3, <2>4 DEF ServerStep, ReadUndecodable, ReadBlank, ReadGarbled, ReadFrame,
       EndOfInput, FrameDone, HandleMessage
<1>4. ASSUME NEW p \in Writers, WriterStep(p) PROVE KInv'
  <2>1. p \in Processes
    BY DEF Processes
  <2>2. ASSUME NEW cmd \in Commands, Start(p, cmd) PROVE KInv'
    BY <2>1, <2>2, StartKeeps, CalmKeeps
  <2>3. ASSUME NEW key \in 1 .. minted, ImportKey(p, key) PROVE KInv'
    BY <2>1, <2>3, ImportKeyKeepsKeys
  <2>4. CheckPresent(p) \/ ObtainKey(p) \/ SetDatastoreKey(p) \/ WriterKey(p) \/ ExclusiveLock(p)
        \/ CreateFile(p) \/ KeyAndPrepare(p) \/ SetImportedKey(p) => KInv'
    BY <2>1, CheckPresentKeepsKeys, ObtainKeyKeepsKeys, SetDatastoreKeyKeepsKeys,
       WriterKeyKeepsKeys, ExclusiveLockKeepsKeys, CreateFileKeepsKeys, KeyAndPrepareKeepsKeys,
       SetImportedKeyKeepsKeys
  <2>5. Migrate(p) \/ Migrated(p) \/ RequireSupportedSchema(p) \/ Commit(p)
        \/ CheckDestination(p) \/ Vacuum(p) \/ VacuumDone(p) \/ VacuumFails(p) \/ Verify(p) => KInv'
    BY <2>1, CalmKeeps, MigrateKeeps, MigratedKeeps, RequireSupportedSchemaKeeps, CommitKeeps,
       CheckDestinationKeeps, VacuumKeeps, VacuumDoneKeeps, VacuumFailsKeeps, VerifyKeeps
  <2>6. Inspects(p) \/ InitReports(p) \/ Kill(p) => KInv'
    BY <2>1, CalmKeeps, InspectPresentKeeps, WriterLockHeldKeeps, ProbeReleasedKeeps,
       InspectReadKeeps, InitReportsKeeps, KillKeeps DEF Inspects
  <2> QED
    BY <1>4, <2>2, <2>3, <2>4, <2>5, <2>6 DEF WriterStep
<1>5. OperatorStep => KInv'
  BY <1>4, LoseKeyKeepsKeys DEF OperatorStep
<1> QED
  BY <1>1, <1>3, <1>5 DEF Next, ClosePipe, vars, roles

\* Where one process at most runs `store init`, a keychain entry that is there
\* opens the file that is there: nothing else mints a key, and a key is
\* imported only after it has read the file (_obtain_key, cmd_key_import).
THEOREM KeyAlwaysOpensTheFile == ASSUME Sole PROVE Spec => []KeyOpensTheFile
<1>1. Init => KInv
  BY DEF Init, RolesInit, NoFile, Idle, Fresh, KInv, KeyOpensTheFile, KeyShape
<1>2. SInv /\ KInv /\ [Next]_vars => KInv'
  BY NextKInv
<1>3. KInv => KeyOpensTheFile
  BY DEF KInv
<1> QED
  BY <1>1, <1>2, <1>3, Inductive, PTL DEF Spec

-----------------------------------------------------------------------------
(***************************************************************************)
(* FlattenSeq, a sequence of sequences laid end to end.  The community     *)
(* module folds it with a function of the position; that the function      *)
(* exists, and what it holds, is shown by a least counterexample.          *)
(***************************************************************************)

Least(S) == CHOOSE n \in S : \A d \in S : n <= d

LEMMA LeastOf ==
    ASSUME NEW S \in SUBSET Nat, S # {}
    PROVE  Least(S) \in S /\ \A d \in S : Least(S) <= d
<1> DEFINE R == OpToRel(<, Nat)
<1>1. IsWellFoundedOn(R, Nat)
  BY NatLessThanWellFounded
<1>2. \A y, x \in Nat : y < x => <<y, x>> \in R
  BY DEF OpToRel
<1> HIDE DEF R
<1>3. PICK x \in S : \A y \in S : ~ (<<y, x>> \in R)
  BY <1>1, WFMin
<1>4. ASSUME NEW y \in S PROVE x <= y
  <2>1. x \in Nat /\ y \in Nat /\ ~ (y < x)
    BY <1>2, <1>3
  <2> QED
    BY <2>1
<1> QED
  BY <1>3, <1>4 DEF Least

\* The first i sequences laid end to end, for each i up to m.
Laid(seqs, m) ==
    CHOOSE f : f = [i \in 1 .. m |-> IF i = 1 THEN seqs[i] ELSE f[i - 1] \o seqs[i]]

LEMMA LaidExists ==
    ASSUME NEW seqs, NEW top \in Nat
    PROVE  \E f : f = [i \in 1 .. top |-> IF i = 1 THEN seqs[i] ELSE f[i - 1] \o seqs[i]]
<1> DEFINE IsLaid(f, m) == f = [i \in 1 .. m |-> IF i = 1 THEN seqs[i] ELSE f[i - 1] \o seqs[i]]
           Failing == {m \in Nat : ~ \E f : IsLaid(f, m)}
<1>1. CASE Failing = {}
  <2>1. \E f : IsLaid(f, top)
    BY <1>1
  <2> QED
    BY <2>1
<1>2. CASE Failing # {}
  <2>1. Failing \in SUBSET Nat
    OBVIOUS
  <2> DEFINE m == Least(Failing)
  <2>2. m \in Failing /\ \A d \in Failing : m <= d
    <3> HIDE DEF Failing
    <3> QED
      BY <1>2, <2>1, LeastOf
  <2> HIDE DEF m
  <2>3. m # 0
    <3> DEFINE none == [i \in 1 .. 0 |-> {}]
    <3>1. IsLaid(none, 0)
      OBVIOUS
    <3> HIDE DEF IsLaid
    <3>2. \E f : IsLaid(f, 0)
      BY <3>1
    <3> QED
      BY <2>2, <3>2
  <2>4. m \in Nat \ {0} /\ m - 1 \in Nat
    BY <2>2, <2>3
  <2>5. m - 1 \notin Failing
    <3> HIDE DEF Failing
    <3> QED
      BY <2>2, <2>4
  <2>6. PICK f : IsLaid(f, m - 1)
    BY <2>4, <2>5
  <2> DEFINE g == [i \in 1 .. m |-> IF i = m THEN IF m = 1 THEN seqs[m] ELSE f[m - 1] \o seqs[m]
                                    ELSE f[i]]
  <2>7. ASSUME NEW i \in 1 .. m
        PROVE  g[i] = IF i = 1 THEN seqs[i] ELSE g[i - 1] \o seqs[i]
    <3>1. CASE i = 1
      <4>1. 1 # m => 1 \in 1 .. (m - 1)
        BY <2>4
      <4>2. 1 # m => f[1] = seqs[1]
        BY <2>6, <4>1
      <4> QED
        BY <2>4, <3>1, <4>2
    <3>2. CASE i # 1 /\ i = m
      <4>1. i - 1 \in 1 .. m /\ i - 1 # m
        BY <2>4, <3>2
      <4>2. g[i - 1] = f[m - 1]
        BY <3>2, <4>1
      <4> QED
        BY <3>2, <4>2
    <3>3. CASE i # 1 /\ i # m
      <4>1. i \in 1 .. (m - 1) /\ i - 1 \in 1 .. m /\ i - 1 # m
        BY <2>4, <3>3
      <4>2. f[i] = f[i - 1] \o seqs[i]
        BY <2>6, <3>3, <4>1
      <4>3. g[i - 1] = f[i - 1] /\ g[i] = f[i]
        BY <3>3, <4>1
      <4> QED
        BY <3>3, <4>2, <4>3
    <3> QED
      BY <3>1, <3>2, <3>3
  <2>8. g = [i \in 1 .. m |-> g[i]]
    OBVIOUS
  <2> HIDE DEF g
  <2>9. IsLaid(g, m)
    BY <2>7, <2>8
  <2> HIDE DEF IsLaid
  <2> QED
    BY <2>2, <2>9
<1> QED
  BY <1>1, <1>2

LEMMA LaidSteps ==
    ASSUME NEW seqs, NEW m \in Nat
    PROVE  /\ m >= 1 => Laid(seqs, m)[1] = seqs[1]
           /\ \A i \in 2 .. m : Laid(seqs, m)[i] = Laid(seqs, m)[i - 1] \o seqs[i]
<1> DEFINE f == Laid(seqs, m)
<1>1. f = [i \in 1 .. m |-> IF i = 1 THEN seqs[i] ELSE f[i - 1] \o seqs[i]]
  BY LaidExists DEF Laid
<1> HIDE DEF f
<1>2. ASSUME m >= 1 PROVE f[1] = seqs[1]
  <2>1. 1 \in 1 .. m
    BY <1>2
  <2> QED
    BY <1>1, <2>1
<1>3. ASSUME NEW i \in 2 .. m PROVE f[i] = f[i - 1] \o seqs[i]
  <2>1. i \in 1 .. m /\ i # 1
    OBVIOUS
  <2> QED
    BY <1>1, <2>1
<1> QED
  BY <1>2, <1>3 DEF f

\* What is laid depends on the sequences laid and on no later one.
LEMMA LaidAlike ==
    ASSUME NEW seqs, NEW more, NEW m \in Nat, NEW n \in Nat, m <= n,
           \A i \in 1 .. m : more[i] = seqs[i]
    PROVE  \A i \in 1 .. m : Laid(more, n)[i] = Laid(seqs, m)[i]
<1> DEFINE Differing == {i \in 1 .. m : Laid(more, n)[i] # Laid(seqs, m)[i]}
           k == Least(Differing)
<1> SUFFICES ASSUME Differing # {} PROVE FALSE
  OBVIOUS
<1>1. Differing \in SUBSET Nat
  OBVIOUS
<1>2. k \in Differing /\ \A d \in Differing : k <= d
  <2> HIDE DEF Differing
  <2> QED
    BY <1>1, LeastOf
<1> HIDE DEF k
<1>3. k \in 1 .. m /\ Laid(more, n)[k] # Laid(seqs, m)[k]
  BY <1>2
<1>4. CASE k = 1
  <2>1. m >= 1 /\ n >= 1 /\ 1 \in 1 .. m
    BY <1>3, <1>4
  <2>2. Laid(more, n)[1] = more[1]
    BY <2>1, LaidSteps
  <2>3. Laid(seqs, m)[1] = seqs[1]
    BY <2>1, LaidSteps
  <2> QED
    BY <1>3, <1>4, <2>1, <2>2, <2>3
<1>5. CASE k # 1
  <2>1. k \in 2 .. m /\ k \in 2 .. n /\ k - 1 \in 1 .. m /\ k - 1 < k
    BY <1>3, <1>5
  <2>2. k - 1 \notin Differing
    <3> HIDE DEF Differing
    <3> QED
      BY <1>2, <2>1
  <2>3. Laid(more, n)[k - 1] = Laid(seqs, m)[k - 1]
    BY <2>1, <2>2
  <2>4. Laid(more, n)[k] = Laid(more, n)[k - 1] \o more[k]
    BY <2>1, LaidSteps
  <2>5. Laid(seqs, m)[k] = Laid(seqs, m)[k - 1] \o seqs[k]
    BY <2>1, LaidSteps
  <2> QED
    BY <1>3, <2>3, <2>4, <2>5
<1> QED
  BY <1>4, <1>5

LEMMA LaidTyped ==
    ASSUME NEW S, NEW seqs \in Seq(Seq(S))
    PROVE  \A i \in 1 .. Len(seqs) : Laid(seqs, Len(seqs))[i] \in Seq(S)
<1> DEFINE m == Len(seqs)
           Failing == {i \in 1 .. m : Laid(seqs, m)[i] \notin Seq(S)}
           k == Least(Failing)
<1> SUFFICES ASSUME Failing # {} PROVE FALSE
  OBVIOUS
<1>0. m \in Nat /\ \A i \in 1 .. m : seqs[i] \in Seq(S)
  OBVIOUS
<1> HIDE DEF m
<1>1. Failing \in SUBSET Nat
  OBVIOUS
<1>2. k \in Failing /\ \A d \in Failing : k <= d
  <2> HIDE DEF Failing
  <2> QED
    BY <1>1, LeastOf
<1> HIDE DEF k
<1>3. k \in 1 .. m /\ Laid(seqs, m)[k] \notin Seq(S)
  BY <1>2
<1>4. CASE k = 1
  <2>1. m >= 1 /\ 1 \in 1 .. m
    BY <1>0, <1>3, <1>4
  <2>2. Laid(seqs, m)[1] = seqs[1]
    BY <1>0, <2>1, LaidSteps
  <2> QED
    BY <1>0, <1>3, <1>4, <2>1, <2>2
<1>5. CASE k # 1
  <2>1. k \in 2 .. m /\ k - 1 \in 1 .. m /\ k - 1 < k
    BY <1>0, <1>3, <1>5
  <2>2. k - 1 \notin Failing
    <3> HIDE DEF Failing
    <3> QED
      BY <1>0, <1>2, <2>1
  <2>3. Laid(seqs, m)[k - 1] \in Seq(S)
    BY <2>1, <2>2
  <2>4. Laid(seqs, m)[k] = Laid(seqs, m)[k - 1] \o seqs[k]
    BY <1>0, <2>1, LaidSteps
  <2> QED
    BY <1>0, <1>3, <2>3, <2>4
<1> QED
  BY <1>4, <1>5

LEMMA FlattenIsLaid ==
    ASSUME NEW seqs, Len(seqs) \in Nat
    PROVE  FlattenSeq(seqs) = IF Len(seqs) = 0 THEN seqs ELSE Laid(seqs, Len(seqs))[Len(seqs)]
BY DEF FlattenSeq, Laid

LEMMA FlattenTyped ==
    ASSUME NEW S, NEW seqs \in Seq(Seq(S))
    PROVE  FlattenSeq(seqs) \in Seq(S)
<1>1. Len(seqs) \in Nat
  OBVIOUS
<1>2. CASE Len(seqs) = 0
  <2>1. seqs = <<>> /\ <<>> \in Seq(S)
    BY <1>2
  <2>2. FlattenSeq(seqs) = seqs
    BY <1>1, <1>2, FlattenIsLaid
  <2> QED
    BY <2>1, <2>2
<1>3. CASE Len(seqs) # 0
  <2>1. Len(seqs) \in 1 .. Len(seqs)
    BY <1>1, <1>3
  <2> QED
    BY <1>1, <1>3, <2>1, FlattenIsLaid, LaidTyped
<1> QED
  BY <1>2, <1>3

\* A sequence more is laid at the end.
LEMMA FlattenAppend ==
    ASSUME NEW S, NEW seqs \in Seq(Seq(S)), NEW last \in Seq(S)
    PROVE  FlattenSeq(Append(seqs, last)) = FlattenSeq(seqs) \o last
<1> DEFINE more == Append(seqs, last)
           m == Len(seqs)
<1>1. /\ m \in Nat /\ Len(more) = m + 1 /\ more[m + 1] = last
      /\ \A i \in 1 .. m : more[i] = seqs[i]
  OBVIOUS
<1> HIDE DEF more
<1>2. FlattenSeq(more) = Laid(more, m + 1)[m + 1]
  BY <1>1, FlattenIsLaid
<1>3. CASE m = 0
  <2>1. seqs = <<>> /\ FlattenSeq(seqs) = <<>>
    BY <1>3, FlattenIsLaid
  <2>2. Laid(more, 1)[1] = more[1]
    <3>1. 1 \in Nat /\ 1 >= 1
      OBVIOUS
    <3> QED
      BY <3>1, LaidSteps
  <2>3. <<>> \o last = last
    OBVIOUS
  <2> QED
    BY <1>1, <1>2, <1>3, <2>1, <2>2, <2>3 DEF more
<1>4. CASE m # 0
  <2>1. m + 1 \in 2 .. (m + 1) /\ m \in 1 .. m /\ (m + 1) - 1 = m /\ m <= m + 1 /\ m + 1 \in Nat
    BY <1>1, <1>4
  <2>2. Laid(more, m + 1)[m + 1] = Laid(more, m + 1)[m] \o more[m + 1]
    BY <2>1, LaidSteps
  <2>3. Laid(more, m + 1)[m] = Laid(seqs, m)[m]
    <3>1. \A i \in 1 .. m : Laid(more, m + 1)[i] = Laid(seqs, m)[i]
      <4>1. m \in Nat /\ m + 1 \in Nat /\ m <= m + 1 /\ \A i \in 1 .. m : more[i] = seqs[i]
        BY <1>1, <2>1
      <4> HIDE DEF m
      <4> QED
        BY <4>1, LaidAlike
    <3> QED
      BY <2>1, <3>1
  <2>4. FlattenSeq(seqs) = Laid(seqs, m)[m]
    BY <1>1, <1>4, FlattenIsLaid
  <2> QED
    BY <1>1, <1>2, <2>2, <2>3, <2>4 DEF more
<1> QED
  BY <1>3, <1>4

-----------------------------------------------------------------------------
(***************************************************************************)
(* Every request is answered once and in its order.  While the pipe is     *)
(* open, what has been sent answers the lines that were read, and the      *)
(* replies in hand answer the messages of the line that were handled.      *)
(***************************************************************************)

LEMMA DueIsTyped ==
    /\ \A m \in Messages : DueOfMessage(m) \in Seq(Nat)
    /\ \A line \in Lines, n \in Nat :
          n <= Len(line.msgs) =>
             [k \in 1 .. n |-> DueOfMessage(line.msgs[k])] \in Seq(Seq(Nat))
    /\ \A line \in Lines : Due(line) \in Seq(Nat)
<1>1. ASSUME NEW m \in Messages PROVE DueOfMessage(m) \in Seq(Nat)
  <2>1. m.id \in Nat
    BY DEF Messages
  <2>2. <<0>> \in Seq(Nat) /\ <<>> \in Seq(Nat) /\ <<m.id>> \in Seq(Nat)
    BY <2>1
  <2> QED
    BY <2>2 DEF DueOfMessage
<1>2. ASSUME NEW line \in Lines, NEW n \in Nat, n <= Len(line.msgs)
      PROVE  [k \in 1 .. n |-> DueOfMessage(line.msgs[k])] \in Seq(Seq(Nat))
  <2>1. line.msgs \in Seq(Messages)
    BY DEF Lines
  <2>2. ASSUME NEW k \in 1 .. n PROVE DueOfMessage(line.msgs[k]) \in Seq(Nat)
    <3>1. k \in 1 .. Len(line.msgs)
      BY <1>2, <2>1
    <3>2. line.msgs[k] \in Messages
      BY <2>1, <3>1
    <3> QED
      BY <1>1, <3>2
  <2> QED
    BY <2>2
<1>3. ASSUME NEW line \in Lines PROVE Due(line) \in Seq(Nat)
  <2>1. <<0>> \in Seq(Nat) /\ <<>> \in Seq(Nat)
    OBVIOUS
  <2>2. line.msgs \in Seq(Messages) /\ Len(line.msgs) \in Nat
        /\ DOMAIN line.msgs = 1 .. Len(line.msgs)
    BY DEF Lines
  <2>3. FlattenSeq([k \in DOMAIN line.msgs |-> DueOfMessage(line.msgs[k])]) \in Seq(Nat)
    <3>1. [k \in 1 .. Len(line.msgs) |-> DueOfMessage(line.msgs[k])] \in Seq(Seq(Nat))
      BY <1>2, <2>2
    <3> QED
      BY <2>2, <3>1, FlattenTyped
  <2> QED
    BY <2>1, <2>3 DEF Due
<1> QED
  BY <1>1, <1>2, <1>3

\* What a script's next line is owed comes after what the lines before it are.
LEMMA DueOfNextLine ==
    ASSUME SessInv, NEW n \in Nat, n < Len(script)
    PROVE  DueUpTo(n + 1) = DueUpTo(n) \o Due(script[n + 1]) /\ DueUpTo(n) \in Seq(Nat)
<1> DEFINE owed(m) == [k \in 1 .. m |-> Due(script[k])]
<1>1. script \in Seq(Lines)
  BY ServerAssumption DEF SessInv
<1>2. \A k \in 1 .. Len(script) : Due(script[k]) \in Seq(Nat)
  BY <1>1, DueIsTyped
<1>3. n + 1 \in 1 .. Len(script) /\ Len(script) \in Nat /\ \A k \in 1 .. n : k \in 1 .. Len(script)
  BY <1>1
<1>4. Due(script[n + 1]) \in Seq(Nat) /\ \A k \in 1 .. n : Due(script[k]) \in Seq(Nat)
  BY <1>2, <1>3
<1>5. owed(n) \in Seq(Seq(Nat))
  BY <1>4
<1>6. owed(n + 1) = Append(owed(n), Due(script[n + 1]))
  <2>1. Len(owed(n)) = n
    OBVIOUS
  <2> QED
    BY <2>1
<1>7. DueUpTo(n) = FlattenSeq(owed(n)) /\ DueUpTo(n + 1) = FlattenSeq(owed(n + 1))
  BY DEF DueUpTo
<1> HIDE DEF owed
<1> QED
  BY <1>4, <1>5, <1>6, <1>7, FlattenAppend, FlattenTyped

LEMMA DueOfNextMessage ==
    ASSUME NEW line \in Lines, NEW n \in Nat, n < Len(line.msgs)
    PROVE  FlattenSeq([k \in 1 .. (n + 1) |-> DueOfMessage(line.msgs[k])])
             = FlattenSeq([k \in 1 .. n |-> DueOfMessage(line.msgs[k])])
                 \o DueOfMessage(line.msgs[n + 1])
<1> DEFINE owed(m) == [k \in 1 .. m |-> DueOfMessage(line.msgs[k])]
<1>1. line.msgs \in Seq(Messages) /\ n + 1 \in 1 .. Len(line.msgs)
  BY DEF Lines
<1>2. line.msgs[n + 1] \in Messages
  BY <1>1
<1>3. owed(n) \in Seq(Seq(Nat)) /\ DueOfMessage(line.msgs[n + 1]) \in Seq(Nat)
  BY <1>1, <1>2, DueIsTyped
<1>4. owed(n + 1) = Append(owed(n), DueOfMessage(line.msgs[n + 1]))
  <2>1. Len(owed(n)) = n
    OBVIOUS
  <2> QED
    BY <2>1
<1> HIDE DEF owed
<1>5. FlattenSeq(owed(n + 1)) = FlattenSeq(owed(n)) \o DueOfMessage(line.msgs[n + 1])
  BY <1>3, <1>4, FlattenAppend
<1> QED
  BY <1>5 DEF owed

LEMMA IdsTyped ==
    ASSUME NEW rs \in Seq(Replies)
    PROVE  /\ Ids(rs) = [k \in 1 .. Len(rs) |-> rs[k].id] /\ Ids(rs) \in Seq(Nat)
           /\ Len(Ids(rs)) = Len(rs) /\ Len(rs) \in Nat
<1>1. DOMAIN rs = 1 .. Len(rs) /\ Len(rs) \in Nat /\ \A k \in 1 .. Len(rs) : rs[k] \in Replies
  OBVIOUS
<1>2. \A reply \in Replies : reply.id \in Nat
  BY DEF Replies
<1>3. Ids(rs) = [k \in 1 .. Len(rs) |-> rs[k].id]
  BY <1>1 DEF Ids
<1>4. \A k \in 1 .. Len(rs) : rs[k].id \in Nat
  BY <1>1, <1>2
<1> QED
  BY <1>1, <1>3, <1>4

LEMMA IdsOf ==
    /\ Ids(<<>>) = <<>>
    /\ \A reply \in Replies : Ids(<<reply>>) = <<reply.id>>
    /\ \A rs, more \in Seq(Replies) : Ids(rs \o more) = Ids(rs) \o Ids(more)
    /\ \A rs \in Seq(Replies), reply \in Replies :
          Ids(Append(rs, reply)) = Ids(rs) \o <<reply.id>>
<1>1. Ids(<<>>) = <<>>
  BY DEF Ids
<1>2. ASSUME NEW reply \in Replies PROVE Ids(<<reply>>) = <<reply.id>>
  BY DEF Ids
<1>3. ASSUME NEW rs \in Seq(Replies), NEW more \in Seq(Replies)
      PROVE  Ids(rs \o more) = Ids(rs) \o Ids(more)
  <2>1. /\ Len(Ids(rs)) = Len(rs) /\ Len(Ids(more)) = Len(more) /\ Len(rs) \in Nat /\ Len(more) \in Nat
        /\ \A k \in 1 .. Len(rs) : Ids(rs)[k] = rs[k].id
        /\ \A k \in 1 .. Len(more) : Ids(more)[k] = more[k].id
    BY IdsTyped
  <2>2. Ids(rs \o more) = [k \in 1 .. (Len(rs) + Len(more)) |-> (rs \o more)[k].id]
    <3>1. rs \o more \in Seq(Replies) /\ Len(rs \o more) = Len(rs) + Len(more)
      OBVIOUS
    <3> QED
      BY <3>1, IdsTyped
  <2>3. /\ Ids(rs) \in Seq(Nat) /\ Ids(more) \in Seq(Nat) /\ Ids(rs \o more) \in Seq(Nat)
        /\ Len(Ids(rs \o more)) = Len(rs) + Len(more)
    <3>1. rs \o more \in Seq(Replies) /\ Len(rs \o more) = Len(rs) + Len(more)
      OBVIOUS
    <3> QED
      BY <3>1, IdsTyped
  <2>4. /\ Ids(rs) \o Ids(more) \in Seq(Nat)
        /\ Len(Ids(rs) \o Ids(more)) = Len(rs) + Len(more)
        /\ \A k \in 1 .. (Len(rs) + Len(more)) :
              (Ids(rs) \o Ids(more))[k]
                = IF k <= Len(rs) THEN Ids(rs)[k] ELSE Ids(more)[k - Len(rs)]
    <3>1. ASSUME NEW s \in Seq(Nat), NEW t \in Seq(Nat)
          PROVE  /\ s \o t \in Seq(Nat) /\ Len(s \o t) = Len(s) + Len(t)
                 /\ \A k \in 1 .. (Len(s) + Len(t)) :
                       (s \o t)[k] = IF k <= Len(s) THEN s[k] ELSE t[k - Len(s)]
      OBVIOUS
    <3> DEFINE a == Ids(rs)
               b == Ids(more)
    <3>2. a \in Seq(Nat) /\ b \in Seq(Nat) /\ Len(a) = Len(rs) /\ Len(b) = Len(more)
      BY <2>1, <2>3
    <3> HIDE DEF a, b
    <3>3. /\ a \o b \in Seq(Nat) /\ Len(a \o b) = Len(a) + Len(b)
          /\ \A k \in 1 .. (Len(a) + Len(b)) :
                (a \o b)[k] = IF k <= Len(a) THEN a[k] ELSE b[k - Len(a)]
      BY <3>1, <3>2
    <3>4. /\ a \o b \in Seq(Nat) /\ Len(a \o b) = Len(rs) + Len(more)
          /\ \A k \in 1 .. (Len(rs) + Len(more)) :
                (a \o b)[k] = IF k <= Len(rs) THEN a[k] ELSE b[k - Len(rs)]
      BY <3>2, <3>3
    <3> QED
      BY <3>4 DEF a, b
  <2>5. ASSUME NEW k \in 1 .. (Len(rs) + Len(more))
        PROVE  (rs \o more)[k].id = IF k <= Len(rs) THEN Ids(rs)[k] ELSE Ids(more)[k - Len(rs)]
    BY <2>1
  <2>6. \A k \in 1 .. (Len(rs) + Len(more)) : Ids(rs \o more)[k] = (Ids(rs) \o Ids(more))[k]
    BY <2>2, <2>4, <2>5
  <2>7. ASSUME NEW s \in Seq(Nat), NEW t \in Seq(Nat), Len(s) = Len(t),
               \A k \in 1 .. Len(s) : s[k] = t[k]
        PROVE  s = t
    <3>1. s = [k \in 1 .. Len(s) |-> s[k]] /\ t = [k \in 1 .. Len(t) |-> t[k]]
      OBVIOUS
    <3> QED
      BY <2>7, <3>1
  <2> QED
    BY <2>3, <2>4, <2>6, <2>7
<1>4. ASSUME NEW rs \in Seq(Replies), NEW reply \in Replies
      PROVE  Ids(Append(rs, reply)) = Ids(rs) \o <<reply.id>>
  <2>1. Append(rs, reply) = rs \o <<reply>> /\ <<reply>> \in Seq(Replies)
    OBVIOUS
  <2> QED
    BY <1>2, <1>3, <2>1
<1> QED
  BY <1>1, <1>2, <1>3, <1>4

\* While the pipe is open: what was sent is what the lines read are owed, and
\* what is in hand is what the messages handled are.
SentInv ==
    /\ session.at \in {"handling", "calling"} =>
          /\ Line.kind = "frame" /\ session.handled <= Len(Line.msgs)
          /\ session.pipe = "open" =>
                Ids(session.replies)
                  = FlattenSeq([k \in 1 .. session.handled |-> DueOfMessage(Line.msgs[k])])
    /\ session.at = "calling" => ReadsDatastore(Message)
    /\ session.at = "reading" => session.handled = 0 /\ session.replies = <<>>
    /\ session.pipe = "open" => Ids(session.sent) = DueUpTo(session.line)

LEMMA WriteSends ==
    ASSUME NEW s \in SessionType, NEW rs \in Seq(Replies)
    PROVE  /\ Write(s, rs).pipe = s.pipe
           /\ s.pipe = "open" => Write(s, rs).sent = s.sent \o rs
BY DEF Write, SessionType

LEMMA NextLineSends ==
    ASSUME NEW s \in SessionType
    PROVE  NextLine(s).pipe = s.pipe /\ NextLine(s).handled = 0
<1> DEFINE a == [s EXCEPT !.at = IF s.at = "ended" THEN "ended" ELSE "reading"]
           b == [a EXCEPT !.line = s.line + 1]
<1>1. NextLine(s) = [b EXCEPT !.handled = 0]
  BY DEF NextLine, SessionType
<1>2. a \in SessionType /\ a.pipe = s.pipe
  BY DEF SessionType
<1> HIDE DEF a
<1>3. b \in SessionType /\ b.pipe = s.pipe
  <2>1. s.line + 1 \in Nat
    BY DEF SessionType
  <2> QED
    BY <1>2, <2>1 DEF SessionType
<1> HIDE DEF b
<1> QED
  BY <1>1, <1>3 DEF SessionType

LEMMA HandledSends ==
    ASSUME NEW s \in SessionType, NEW outcome
    PROVE  Handled(s, outcome).pipe = s.pipe /\ Handled(s, outcome).handled = s.handled + 1
BY DEF Handled, SessionType

\* A line is read to its end, and what it is owed has been sent.
LEMMA LineAnswered ==
    ASSUME SInv, SentInv, session.line < Len(script), UNCHANGED script, NEW rs \in Seq(Replies),
           Ids(rs) = Due(Line), session'.at \in {"reading", "ended"}, session'.handled = 0,
           session'.at = "reading" => session'.replies = <<>>, session'.line = session.line + 1,
           session'.pipe = session.pipe,
           session.pipe = "open" => session'.sent = session.sent \o rs
    PROVE  SentInv'
<1>1. ASSUME session'.pipe = "open" PROVE Ids(session'.sent) = DueUpTo(session.line)'
  <2>1. session.sent \in Seq(Replies) /\ session.line \in Nat
    BY DEF SInv, SessInv, SessionType
  <2>2. Ids(session'.sent) = Ids(session.sent) \o Ids(rs)
    BY <1>1, <2>1, IdsOf
  <2>3. DueUpTo(session.line + 1) = DueUpTo(session.line) \o Due(Line)
    BY <2>1, DueOfNextLine DEF SInv, Line
  <2>4. DueUpTo(session.line)' = DueUpTo(session.line + 1)
    BY DEF DueUpTo, Due, DueOfMessage
  <2> QED
    BY <1>1, <2>2, <2>3, <2>4 DEF SentInv
<1> QED
  BY <1>1 DEF SentInv

LEMMA ReplyOf ==
    ASSUME session \in SessionType, NEW id \in Nat, NEW outcome \in Outcomes
    PROVE  <<Reply(id, outcome)>> \in Seq(Replies) /\ Ids(<<Reply(id, outcome)>>) = <<id>>
<1>1. Reply(id, outcome) \in Replies /\ Reply(id, outcome).id = id
  BY ReplyTyped DEF Reply
<1> QED
  BY <1>1, IdsOf

LEMMA ReadUndecodableSends == ASSUME SInv, SentInv, ReadUndecodable PROVE SentInv'
<1> DEFINE rs == <<Reply(0, "parse error")>>
           u == [session EXCEPT !.undecodable = @ + 1]
           w == Write(u, rs)
           s == NextLine(w)
<1>1. /\ session \in SessionType /\ session.at = "reading" /\ session.line < Len(script)
      /\ UNCHANGED script /\ Line.kind = "undecodable"
  BY DEF SInv, SessInv, ReadUndecodable, Reading
<1>2. rs \in Seq(Replies) /\ Ids(rs) = Due(Line)
  BY <1>1, ReplyOf DEF Outcomes, Due
<1>3. u \in SessionType /\ u.line = session.line /\ u.pipe = session.pipe /\ u.sent = session.sent
  BY <1>1 DEF SessionType
<1>4. session' = IF s.undecodable >= MaxUndecodable THEN [s EXCEPT !.at = "ended"] ELSE s
  BY DEF ReadUndecodable
<1> HIDE DEF rs, u
<1>5. /\ w \in SessionType /\ w.line = session.line /\ w.replies = <<>> /\ w.pipe = session.pipe
      /\ session.pipe = "open" => w.sent = session.sent \o rs
  <2>1. w.pipe = u.pipe /\ (u.pipe = "open" => w.sent = u.sent \o rs)
    BY <1>2, <1>3, WriteSends
  <2>2. w \in SessionType /\ w.line = u.line /\ w.replies = <<>>
    BY <1>2, <1>3, WriteTyped
  <2> QED
    BY <1>3, <2>1, <2>2
<1> HIDE DEF w
<1>6. /\ s \in SessionType /\ s.at \in {"reading", "ended"} /\ s.line = session.line + 1
      /\ s.replies = <<>> /\ s.pipe = session.pipe /\ s.handled = 0
      /\ session.pipe = "open" => s.sent = session.sent \o rs
  BY <1>5, NextLineTyped, NextLineSends
<1> HIDE DEF s
<1>7. /\ session'.at \in {"reading", "ended"} /\ session'.line = session.line + 1
      /\ session'.replies = <<>> /\ session'.pipe = session.pipe /\ session'.handled = 0
      /\ session.pipe = "open" => session'.sent = session.sent \o rs
  BY <1>4, <1>6 DEF SessionType
<1> QED
  BY <1>1, <1>2, <1>7, LineAnswered

LEMMA DecodedSends ==
    ASSUME NEW s \in SessionType
    PROVE  Decoded(s).pipe = s.pipe /\ Decoded(s).handled = s.handled
BY DEF Decoded, SessionType

LEMMA ReadBlankSends == ASSUME SInv, SentInv, ReadBlank PROVE SentInv'
<1> DEFINE d == Decoded(session)
<1>1. /\ session \in SessionType /\ session.at = "reading" /\ session.line < Len(script)
      /\ UNCHANGED script /\ Line.kind = "blank" /\ session' = NextLine(d)
  BY DEF SInv, SessInv, ReadBlank, Reading
<1>2. <<>> \in Seq(Replies) /\ Ids(<<>>) = Due(Line)
  <2>1. Due(Line) = <<>>
    BY <1>1 DEF Due
  <2> QED
    BY <2>1, IdsOf
<1>3. /\ d \in SessionType /\ d.line = session.line /\ d.replies = <<>>
      /\ d.sent = session.sent /\ d.pipe = session.pipe
  BY <1>1, DecodedTyped, DecodedSends DEF SentInv
<1> HIDE DEF d
<1>4. /\ session'.at \in {"reading", "ended"} /\ session'.line = session.line + 1
      /\ session'.replies = <<>> /\ session'.pipe = session.pipe /\ session'.handled = 0
      /\ session'.sent = session.sent
  BY <1>1, <1>3, NextLineTyped, NextLineSends
<1>5. session.sent = session.sent \o <<>>
  BY <1>1 DEF SessionType
<1> QED
  BY <1>1, <1>2, <1>4, <1>5, LineAnswered

LEMMA ReadGarbledSends == ASSUME SInv, SentInv, ReadGarbled PROVE SentInv'
<1> DEFINE rs == <<Reply(0, "parse error")>>
           d == Decoded(session)
           w == Write(d, rs)
<1>1. /\ session \in SessionType /\ session.at = "reading" /\ session.line < Len(script)
      /\ UNCHANGED script /\ Line.kind = "garbled" /\ session' = NextLine(w)
  BY DEF SInv, SessInv, ReadGarbled, Reading
<1>2. rs \in Seq(Replies) /\ Ids(rs) = Due(Line)
  BY <1>1, ReplyOf DEF Outcomes, Due
<1>3. d \in SessionType /\ d.line = session.line /\ d.sent = session.sent /\ d.pipe = session.pipe
  BY <1>1, DecodedTyped, DecodedSends
<1> HIDE DEF rs, d
<1>4. /\ w \in SessionType /\ w.line = session.line /\ w.replies = <<>> /\ w.pipe = session.pipe
      /\ session.pipe = "open" => w.sent = session.sent \o rs
  <2>1. w.pipe = d.pipe /\ (d.pipe = "open" => w.sent = d.sent \o rs)
    BY <1>2, <1>3, WriteSends
  <2>2. w \in SessionType /\ w.line = d.line /\ w.replies = <<>>
    BY <1>2, <1>3, WriteTyped
  <2> QED
    BY <1>3, <2>1, <2>2
<1> HIDE DEF w
<1>5. /\ session'.at \in {"reading", "ended"} /\ session'.line = session.line + 1
      /\ session'.replies = <<>> /\ session'.pipe = session.pipe /\ session'.handled = 0
      /\ session.pipe = "open" => session'.sent = session.sent \o rs
  BY <1>1, <1>4, NextLineTyped, NextLineSends
<1> QED
  BY <1>1, <1>2, <1>5, LineAnswered

LEMMA ReadFrameSends == ASSUME SInv, SentInv, ReadFrame PROVE SentInv'
<1> DEFINE d == Decoded(session)
<1>1. /\ session \in SessionType /\ session.at = "reading" /\ session.line < Len(script)
      /\ UNCHANGED script /\ Line.kind = "frame" /\ session' = [d EXCEPT !.at = "handling"]
      /\ session.handled = 0 /\ session.replies = <<>>
  BY DEF SInv, SessInv, SentInv, ReadFrame, Reading
<1>2. /\ d \in SessionType /\ d.line = session.line /\ d.replies = <<>> /\ d.handled = 0
      /\ d.sent = session.sent /\ d.pipe = session.pipe
  BY <1>1, DecodedTyped, DecodedSends
<1> HIDE DEF d
<1>3. /\ session'.at = "handling" /\ session'.line = session.line /\ session'.replies = <<>>
      /\ session'.handled = 0 /\ session'.sent = session.sent /\ session'.pipe = session.pipe
  BY <1>1, <1>2 DEF SessionType
<1>4. Line \in Lines /\ Line' = Line
  BY <1>1, <1>3, LineTyped DEF SInv, Line
<1>5. 0 <= Len(Line.msgs)
  BY <1>4 DEF Lines
<1>6. FlattenSeq([k \in 1 .. 0 |-> DueOfMessage(Line.msgs[k])]) = <<>>
  <2>1. [k \in 1 .. 0 |-> DueOfMessage(Line.msgs[k])] = <<>>
    OBVIOUS
  <2>2. Len(<<>>) = 0
    OBVIOUS
  <2> QED
    BY <2>1, <2>2, FlattenIsLaid
<1>7. DueUpTo(session.line)' = DueUpTo(session.line)
  BY <1>1, <1>3 DEF DueUpTo, Due, DueOfMessage
<1> QED
  BY <1>1, <1>3, <1>4, <1>5, <1>6, <1>7, IdsOf DEF SentInv

LEMMA FrameDoneSends == ASSUME SInv, SentInv, FrameDone PROVE SentInv'
<1> DEFINE rs == IF Line.msgs = <<>> THEN <<Reply(0, "invalid request")>> ELSE session.replies
           w == Write(session, rs)
<1>1. /\ session \in SessionType /\ session.at = "handling" /\ session.line < Len(script)
      /\ UNCHANGED script /\ Line.kind = "frame" /\ session.handled = Len(Line.msgs)
      /\ session' = NextLine(IF rs = <<>> THEN session ELSE w)
  BY DEF SInv, SessInv, SentInv, FrameDone, Handling
<1>2. session.replies \in Seq(Replies) /\ rs \in Seq(Replies)
  BY <1>1, ReplyOf DEF Outcomes, SessionType
<1>3. session.pipe = "open" => Ids(rs) = Due(Line)
  <2>1. CASE Line.msgs = <<>>
    BY <1>1, <2>1, ReplyOf DEF Outcomes, Due
  <2>2. CASE Line.msgs # <<>>
    <3>1. Line \in Lines
      BY <1>1, LineTyped DEF SInv
    <3>2. DOMAIN Line.msgs = 1 .. session.handled
      <4>1. Line.msgs \in Seq(Messages)
        BY <3>1 DEF Lines
      <4>2. ASSUME NEW S, NEW s \in Seq(S) PROVE DOMAIN s = 1 .. Len(s)
        OBVIOUS
      <4> QED
        BY <1>1, <4>1, <4>2
    <3>3. Due(Line) = FlattenSeq([k \in 1 .. session.handled |-> DueOfMessage(Line.msgs[k])])
      BY <1>1, <2>2, <3>2 DEF Due
    <3> QED
      BY <1>1, <2>2, <3>3 DEF SentInv
  <2> QED
    BY <2>1, <2>2
<1>4. rs = <<>> => session.replies = <<>>
  OBVIOUS
<1> HIDE DEF rs
<1>5. /\ session'.at \in {"reading", "ended"} /\ session'.line = session.line + 1
      /\ session'.replies = <<>> /\ session'.pipe = session.pipe /\ session'.handled = 0
      /\ session.pipe = "open" => session'.sent = session.sent \o rs
  <2>1. CASE rs = <<>>
    <3>1. session.sent \o rs = session.sent
      BY <1>1, <2>1 DEF SessionType
    <3> QED
      BY <1>1, <1>4, <2>1, <3>1, NextLineTyped, NextLineSends
  <2>2. CASE rs # <<>>
    <3>1. /\ w \in SessionType /\ w.line = session.line /\ w.replies = <<>>
          /\ w.pipe = session.pipe
          /\ session.pipe = "open" => w.sent = session.sent \o rs
      BY <1>1, <1>2, WriteTyped, WriteSends
    <3>2. session' = NextLine(w)
      BY <1>1, <2>2
    <3> HIDE DEF w
    <3>3. /\ NextLine(w).at \in {"reading", "ended"} /\ NextLine(w).line = w.line + 1
          /\ NextLine(w).sent = w.sent /\ NextLine(w).replies = w.replies
      BY <3>1, NextLineTyped
    <3>4. NextLine(w).pipe = w.pipe /\ NextLine(w).handled = 0
      BY <3>1, NextLineSends
    <3> QED
      BY <3>1, <3>2, <3>3, <3>4
  <2> QED
    BY <2>1, <2>2
<1>6. CASE session.pipe = "open"
  BY <1>1, <1>2, <1>3, <1>5, <1>6, LineAnswered
<1>7. CASE session.pipe # "open"
  BY <1>5, <1>7 DEF SentInv
<1> QED
  BY <1>6, <1>7

\* A message is handled: its reply, or its silence, is what it is owed.
LEMMA MessageSends ==
    ASSUME SInv, SentInv, session.at \in {"handling", "calling"}, session.handled < Len(Line.msgs),
           UNCHANGED script, NEW outcome \in Outcomes \cup {"none"},
           session' = Handled(session, outcome),
           DueOfMessage(Message) = IF outcome = "none" THEN <<>> ELSE <<Message.id>>
    PROVE  SentInv'
<1>1. /\ session \in SessionType /\ session.line < Len(script) /\ session.handled \in Nat
      /\ session.replies \in Seq(Replies) /\ Line.kind = "frame"
  BY DEF SInv, SessInv, SentInv, SessionType
<1>2. Line \in Lines /\ Message.id \in Nat
  BY <1>1, LineTyped DEF SInv
<1>3. /\ session'.at = "handling" /\ session'.line = session.line /\ session'.sent = session.sent
      /\ session'.pipe = session.pipe /\ session'.handled = session.handled + 1
      /\ \/ outcome = "none" /\ session'.replies = session.replies
         \/ /\ outcome # "none"
            /\ session'.replies = Append(session.replies, Reply(Message.id, outcome))
  BY <1>1, <1>2, HandledTyped, HandledSends
<1>4. Line' = Line /\ session.handled + 1 <= Len(Line.msgs)
  <2>1. Len(Line.msgs) \in Nat
    BY <1>2 DEF Lines
  <2> QED
    BY <1>1, <1>3, <2>1 DEF Line
<1>5. Ids(session'.replies) = Ids(session.replies) \o DueOfMessage(Message)
  <2>1. CASE outcome = "none"
    <3>1. Ids(session.replies) \in Seq(Nat)
      BY <1>1, IdsTyped
    <3>2. Ids(session.replies) \o <<>> = Ids(session.replies)
      BY <3>1
    <3> QED
      BY <1>3, <2>1, <3>2
  <2>2. CASE outcome # "none"
    <3>1. Reply(Message.id, outcome) \in Replies /\ Reply(Message.id, outcome).id = Message.id
      BY <1>1, <1>2, <2>2, ReplyTyped DEF Reply
    <3> QED
      BY <1>1, <1>3, <2>2, <3>1, IdsOf
  <2> QED
    BY <2>1, <2>2
<1>6. ASSUME session.pipe = "open"
      PROVE  Ids(session'.replies)
               = FlattenSeq([k \in 1 .. session'.handled |-> DueOfMessage(Line'.msgs[k])])
  <2>1. Ids(session.replies)
          = FlattenSeq([k \in 1 .. session.handled |-> DueOfMessage(Line.msgs[k])])
    BY <1>6 DEF SentInv
  <2>2. FlattenSeq([k \in 1 .. (session.handled + 1) |-> DueOfMessage(Line.msgs[k])])
          = FlattenSeq([k \in 1 .. session.handled |-> DueOfMessage(Line.msgs[k])])
              \o DueOfMessage(Line.msgs[session.handled + 1])
    BY <1>1, <1>2, DueOfNextMessage
  <2> QED
    BY <1>3, <1>4, <1>5, <2>1, <2>2 DEF Message
<1>7. DueUpTo(session.line)' = DueUpTo(session.line)
  BY <1>3 DEF DueUpTo, Due, DueOfMessage
<1> QED
  BY <1>1, <1>3, <1>4, <1>6, <1>7 DEF SentInv

LEMMA HandleMessageSends == ASSUME SInv, SentInv, HandleMessage PROVE SentInv'
<1>1. /\ session.at = "handling" /\ session.handled < Len(Line.msgs) /\ UNCHANGED script
      /\ session' = Handled(session, Outcome(Message)) /\ session.line < Len(script)
  BY DEF HandleMessage, Handling, SInv, SessInv
<1>2. Line \in Lines /\ Message.id \in Nat /\ Message.method \in Methods
  BY <1>1, LineTyped DEF SInv
<1>3. Message.method = "not an object" => Message.id = 0
  <2>1. Line.msgs \in Seq(Messages) /\ session.handled \in Nat
    BY <1>2 DEF Lines, SInv, SessInv, SessionType
  <2>2. session.handled + 1 \in 1 .. Len(Line.msgs)
    BY <1>1, <2>1
  <2>3. Message \in Messages
    BY <2>1, <2>2 DEF Message
  <2> QED
    BY <2>3 DEF Messages
<1>4. Outcome(Message) \in Outcomes \cup {"none"}
  BY DEF Outcome, Outcomes
<1>5. DueOfMessage(Message) = IF Outcome(Message) = "none" THEN <<>> ELSE <<Message.id>>
  BY <1>2, <1>3 DEF DueOfMessage, Outcome, Methods
<1> QED
  BY <1>1, <1>4, <1>5, MessageSends

\* What a tool call came to answers its request, whatever it came to.
LEMMA CallSends ==
    ASSUME SInv, SentInv, session.at = "calling", UNCHANGED script, NEW outcome \in Outcomes,
           outcome # "none", session' = Handled(session, outcome)
    PROVE  SentInv'
<1>1. session.handled < Len(Line.msgs)
  BY DEF SInv, SessInv
<1>2. DueOfMessage(Message) = <<Message.id>>
  BY DEF SentInv, DueOfMessage, ReadsDatastore
<1> QED
  BY <1>1, <1>2, MessageSends

LEMMA SentInit == Init => SentInv
<1> SUFFICES ASSUME Init PROVE SentInv
  OBVIOUS
<1>1. DueUpTo(0) = <<>>
  <2>1. [k \in 1 .. 0 |-> Due(script[k])] = <<>> /\ Len(<<>>) = 0
    OBVIOUS
  <2> QED
    BY <2>1, FlattenIsLaid DEF DueUpTo
<1> QED
  BY <1>1, IdsOf DEF Init, NoSession, SentInv

LEMMA SentStep == SInv /\ SentInv /\ [Next]_vars => SentInv'
<1> SUFFICES ASSUME SInv, SentInv, [Next]_vars PROVE SentInv'
  OBVIOUS
\* What leaves the lines, the replies and the messages handled alone.
<1>1. ASSUME UNCHANGED script, session'.line = session.line, session'.sent = session.sent,
             session'.handled = session.handled, session'.replies = session.replies,
             session'.pipe = "open" => session.pipe = "open",
             session'.at \in {"handling", "calling"} => session.at \in {"handling", "calling"},
             session'.at = "calling" => session.at = "calling" \/ ReadsDatastore(Message),
             session'.at = "reading" => session.at = "reading"
      PROVE  SentInv'
  <2>1. Line' = Line /\ Message' = Message
    BY <1>1 DEF Line, Message
  <2>2. DueUpTo(session.line)' = DueUpTo(session.line)
    BY <1>1 DEF DueUpTo, Due, DueOfMessage
  <2> QED
    BY <1>1, <2>1, <2>2 DEF SentInv, ReadsDatastore
<1>2. session \in SessionType
  BY DEF SInv, SessInv
<1>3. CASE UNCHANGED <<script, session>>
  BY <1>1, <1>3
<1>4. CASE ReadUndecodable \/ ReadBlank \/ ReadGarbled \/ ReadFrame \/ FrameDone \/ HandleMessage
  BY <1>4, ReadUndecodableSends, ReadBlankSends, ReadGarbledSends, ReadFrameSends, FrameDoneSends,
     HandleMessageSends
<1>5. CASE EndOfInput
  <2>1. session' = [session EXCEPT !.at = "ended"] /\ UNCHANGED script
    BY <1>5 DEF EndOfInput
  <2>2. session'.at = "ended" /\ session'.line = session.line /\ session'.sent = session.sent
        /\ session'.handled = session.handled /\ session'.replies = session.replies
        /\ session'.pipe = session.pipe
    BY <1>2, <2>1 DEF SessionType
  <2> QED
    BY <1>1, <2>1, <2>2
<1>6. CASE ClosePipe
  <2>1. session' = [session EXCEPT !.pipe = "closed"] /\ UNCHANGED script
    BY <1>6 DEF ClosePipe
  <2>2. session'.at = session.at /\ session'.line = session.line /\ session'.sent = session.sent
        /\ session'.handled = session.handled /\ session'.replies = session.replies
        /\ session'.pipe = "closed"
    BY <1>2, <2>1 DEF SessionType
  <2> QED
    BY <1>1, <2>1, <2>2
<1>7. CASE CallTool
  <2> DEFINE a == [session EXCEPT !.at = "calling"]
  <2>1. session' = [a EXCEPT !.missing = ~file.exists] /\ UNCHANGED script
        /\ session.at = "handling" /\ ReadsDatastore(Message)
    BY <1>7 DEF CallTool, Handling
  <2>2. a \in SessionType /\ a.at = "calling" /\ a.line = session.line /\ a.sent = session.sent
        /\ a.handled = session.handled /\ a.replies = session.replies /\ a.pipe = session.pipe
    BY <1>2 DEF SessionType
  <2> HIDE DEF a
  <2>3. session'.at = "calling" /\ session'.line = session.line /\ session'.sent = session.sent
        /\ session'.handled = session.handled /\ session'.replies = session.replies
        /\ session'.pipe = session.pipe
    BY <2>1, <2>2 DEF SessionType
  <2> QED
    BY <1>1, <2>1, <2>3
<1>8. CASE ToolUnservable
  <2>1. /\ session' = Handled(session, Unservable(proc[Reader].problem)) /\ UNCHANGED script
        /\ session.at = "calling"
    BY <1>8 DEF ToolUnservable
  <2>2. Unservable(proc[Reader].problem) \in Outcomes /\ Unservable(proc[Reader].problem) # "none"
    BY DEF Unservable, Outcomes
  <2> QED
    BY <2>1, <2>2, CallSends
<1>9. CASE ToolAnswers
  <2> DEFINE outcome == IF Problem(Reader) = "none" THEN "result" ELSE "internal_error"
  <2>1. session' = Handled(session, outcome) /\ UNCHANGED script /\ session.at = "calling"
    BY <1>9 DEF ToolAnswers
  <2>2. outcome \in Outcomes /\ outcome # "none"
    BY DEF Outcomes
  <2> HIDE DEF outcome
  <2> QED
    BY <2>1, <2>2, CallSends
<1> QED
  BY <1>3, <1>4, <1>5, <1>6, <1>7, <1>8, <1>9 DEF Next, ServerStep, OperatorStep, Inspecting, vars

\* Every request of every script is answered once and in its order, whatever
\* the calls before it met and whatever the operator does beside them, and
\* nothing else is answered (_handle_frame, _handle_guarded).
THEOREM RepliesAnswerRequests == Spec => []RepliesMatchRequests
<1>1. SentInv => RepliesMatchRequests
  BY DEF SentInv, RepliesMatchRequests
<1> QED
  BY <1>1, SentInit, SentStep, Inductive, PTL DEF Spec
=============================================================================
