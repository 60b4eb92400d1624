----------------------------- MODULE Enrollment -----------------------------
(***************************************************************************)
(* `bankmachine enroll` and `bankmachine connections retire`.              *)
(*                                                                         *)
(* Three places have to agree about a connection and no transaction spans  *)
(* them: the aggregator, which bills for every Item it has minted and not  *)
(* removed; the keychain, whose access token is the only handle to an      *)
(* Item; and the `connections` table.  enroll writes them in that order    *)
(* and, when it cannot finish, undoes the first (release_at_aggregator) or *)
(* leaves a retired row from which `connections retire` can try again      *)
(* (_record_orphan).                                                       *)
(*                                                                         *)
(* The credential of an Item is kept under a name made from its id         *)
(* (connection_keychain_account), so here the Item stands for it.          *)
(***************************************************************************)
EXTENDS Naturals, Sequences, FiniteSets

CONSTANTS
  Items,        \* Items the aggregator may mint
  Bank,         \* the institution of each
  None,         \* no Item
  First,        \* the Item of a connection enrolled before
  Enrollers,    \* runs of enroll, each a process of its own
  Retirers,     \* processes that run connections retire, time after time
  Syncers,      \* processes that run a sync of one connection, time after time
  Cap,          \* config.connection_cap
  MaxFaults     \* bound: failed or killed steps

Procs == Enrollers \cup Retirers

ASSUME EnrollmentAssumption ==
  /\ None \notin Items
  /\ First \in Items
  /\ DOMAIN Bank = Items
  /\ Enrollers \cap Retirers = {}
  /\ Cap \in Nat \ {0}
  /\ MaxFaults \in Nat

VARIABLES
  far,       \* each Item at the aggregator: "none", "live" or "removed"
  keychain,  \* Items whose access token is stored
  rows,      \* the connections table, in the order of connection_id
  cmd,       \* the command each process runs or last ran
  runs,      \* the sync of one connection each Syncer is in
  (* what was said or lost, for the properties *)
  told,      \* Items an error or a log line named as possibly billing
  lost,      \* Items whose last handle died with a process or a reply
  unheld,    \* Items whose token never reached the keychain
  contested, \* Items of live rows that a command decided to remove before
  overtaken, \* rows re-linked while a sync that had read them was under way
  faults

history == <<told, lost, unheld, contested>>
vars    == <<far, keychain, rows, cmd, runs, history, overtaken, faults>>

Row == [item    : Items,
        cursor  : Items \cup {None},  \* the Item its sync_state is about
              stamp   : Items \cup {None},  \* ... its last_success_at
        retired : BOOLEAN]

Phases == {"idle", "link", "itemGet", "keep", "record", "mark", "remove", "forget", "orphan"}
Whys   == {"none", "refused", "undo", "superseded", "retired"}

Command == [phase : Phases, why : Whys, item : Items \cup {None}, old : Items \cup {None},
            row : Nat, relink : BOOLEAN, exit : {"none", "ok", "unhealthy", "error", "killed"}]

NoCommand == [phase |-> "idle", why |-> "none", item |-> None, old |-> None,
              row |-> 0, relink |-> FALSE, exit |-> "none"]

\* What a run holds of the row it read: its connection_id and, as the credential,
\* its Item.
SyncRun == [phase : {"idle", "paging", "page", "whole"}, row : Nat, item : Items \cup {None}]

NoRun == [phase |-> "idle", row |-> 0, item |-> None]

\* A new datastore, or one connection enrolled and synced.
Init ==
  /\ \/ /\ far = [i \in Items |-> "none"]
        /\ keychain = {}
        /\ rows = <<>>
     \/ /\ far = [i \in Items |-> IF i = First THEN "live" ELSE "none"]
        /\ keychain = {First}
        /\ rows = <<[item |-> First, cursor |-> First, stamp |-> First, retired |-> FALSE]>>
  /\ cmd = [p \in Procs |-> NoCommand]
  /\ runs = [s \in Syncers |-> NoRun]
  /\ told = {} /\ lost = {} /\ unheld = {} /\ contested = {} /\ overtaken = {}
  /\ faults = 0

-----------------------------------------------------------------------------
(***************************************************************************)
(* The connections table.                                                  *)
(***************************************************************************)
RowIds == DOMAIN rows

LiveRows == {r \in RowIds : ~ rows[r].retired}

\* connection_rows(include_retired=False) against the cap.
Room == Cardinality(LiveRows) < Cap

\* The UNIQUE constraint on source_connection_id, for every row but r.
Free(i, r) == \A s \in RowIds \ {r} : rows[s].item # i

\* The live row of the institution, 0 when there is none.
Existing(i) ==
  IF \E r \in LiveRows : Bank[rows[r].item] = Bank[i]
  THEN CHOOSE r \in LiveRows : Bank[rows[r].item] = Bank[i]
  ELSE 0

\* What a row says of a newly recorded Item.
NewRow(i) == [item |-> i, cursor |-> None, stamp |-> None, retired |-> FALSE]

OrphanRow(i) == [NewRow(i) EXCEPT !.retired = TRUE]

\* Faulty variant of Repointed: the success stamp outlives the Item.
RepointedStamped(row, i) ==
  IF row.item = i THEN row ELSE [row EXCEPT !.item = i, !.cursor = None]

\* The existing row after the UPDATE of _record_connection: what belongs to the
\* Item goes with the Item, the accounts stay.
Repointed(row, i) ==
  IF row.item = i THEN row
  ELSE [row EXCEPT !.item = i, !.cursor = None, !.stamp = None]

\* Faulty variants of Superseded: nothing, or the credential of the row whatever
\* Item it was.
SupersededNever(row, i) == None
SupersededAlways(row, i) == row.item

\* superseded_credential_ref
Superseded(row, i) == IF row.item = i THEN None ELSE row.item

Retired(row) == [row EXCEPT !.retired = TRUE]

-----------------------------------------------------------------------------
(***************************************************************************)
(* Helpers of the commands.                                                *)
(***************************************************************************)
At(p, phase) == cmd[p].phase = phase

Goto(p, phase) == cmd' = [cmd EXCEPT ![p].phase = phase]

Exits(p, code) == cmd' = [cmd EXCEPT ![p] = [NoCommand EXCEPT !.exit = code]]

\* The same after a release: what was released stays known to the properties.
ExitsAfterRelease(p, code) ==
  cmd' = [cmd EXCEPT ![p].phase = "idle", ![p].exit = code, ![p].relink = FALSE, ![p].row = 0]

Fault ==
  /\ faults < MaxFaults
  /\ faults' = faults + 1

\* release_at_aggregator is called for p's new Item, or for the one it replaced.
Target(p) == IF cmd[p].why = "superseded" THEN cmd[p].old ELSE cmd[p].item

\* An Item that some row names and whose access token is stored: `retire` can
\* reach it.
OnRecord(i) == i \in keychain /\ \E r \in RowIds : rows[r].item = i

\* The Items a running command has in hand.
InHand(p) ==
  IF At(p, "idle") THEN {} ELSE {cmd[p].item, cmd[p].old} \ {None}

\* p records i while another command is removing it, or has removed it.
Contest(p, i) ==
  contested' = IF far[i] = "removed" \/ \E q \in Procs \ {p} : i \in InHand(q)
               THEN contested \cup {i} ELSE contested

-----------------------------------------------------------------------------
(***************************************************************************)
(* A sync of one connection (_run_once, _sync_one).  It reads the row once *)
(* and writes by connection_id later, a page at a time; no write asks      *)
(* whose Item the row names by then.  Only what is kept per Item is here:  *)
(* TransactionSync has the pages, SyncRun the run over all connections.    *)
(***************************************************************************)
Syncing(s, phase) == runs[s].phase = phase

InFlight(s) == ~ Syncing(s, "idle")

SyncGoto(s, phase) == runs' = [runs EXCEPT ![s].phase = phase]

SyncLeaves(s) == runs' = [runs EXCEPT ![s] = NoRun]

\* _live_connections, and the access token of the row it read.
SyncReads(s, r) ==
  /\ Syncing(s, "idle")
  /\ r \in LiveRows /\ rows[r].item \in keychain
  /\ runs' = [runs EXCEPT ![s] = [phase |-> "paging", row |-> r, item |-> rows[r].item]]
  /\ UNCHANGED rows

\* A page comes back: the cursor is read from the row, the token is the run's, and
\* the aggregator refuses a cursor it issued for another Item.
SyncFetches(s) ==
  /\ Syncing(s, "paging")
  /\ far[runs[s].item] = "live"
  /\ rows[runs[s].row].cursor \in {None, runs[s].item}
  /\ SyncGoto(s, "page")
  /\ UNCHANGED rows

\* _persist: the page and the cursor it carries.  Whole when the page was the last
\* of a history that is complete.
SyncCommits(s) ==
  /\ Syncing(s, "page")
  /\ rows' = [rows EXCEPT ![runs[s].row].cursor = runs[s].item]
  /\ \E phase \in {"paging", "whole"} : SyncGoto(s, phase)

\* _record_success.  The window measured just before it is left out: it counts
\* every row of the connection, whichever Item brought it.
SyncStamps(s) ==
  /\ Syncing(s, "whole")
  /\ rows' = [rows EXCEPT ![runs[s].row].stamp = runs[s].item]
  /\ SyncLeaves(s)

\* A failure, a history still to come, or a kill: nothing more is written of the
\* Item (_degrade writes the status alone).
SyncEnds(s) ==
  /\ InFlight(s)
  /\ SyncLeaves(s)
  /\ UNCHANGED rows

-----------------------------------------------------------------------------
(***************************************************************************)
(* cmd_enroll up to the transaction.                                       *)
(***************************************************************************)
\* The pre-flight check of the cap, and whether --relink was given.
EnrollStarts(p) ==
  /\ cmd[p] = NoCommand
  /\ \E relink \in BOOLEAN :
       cmd' = [cmd EXCEPT ![p] =
                IF Room THEN [NoCommand EXCEPT !.phase = "link", !.relink = relink]
                ELSE [NoCommand EXCEPT !.exit = "unhealthy"]]
  /\ UNCHANGED <<far, keychain, rows, history, faults>>

\* The window is not confirmed, nobody completes the hosted session, or a call
\* fails before the Item exists.
Abandoned(p) ==
  /\ At(p, "link")
  /\ Exits(p, "unhealthy")
  /\ UNCHANGED <<far, keychain, rows, history, faults>>

\* The operator picks an institution and the public token is exchanged.
Minted(p, i) ==
  /\ At(p, "link")
  /\ far[i] = "none"
  /\ far' = [far EXCEPT ![i] = "live"]
  /\ cmd' = [cmd EXCEPT ![p].phase = "itemGet", ![p].item = i]
  /\ UNCHANGED <<keychain, rows, history, faults>>

\* The converging re-run: the exchange answers with an Item some row names.
Returned(p, i) ==
  /\ At(p, "link")
  /\ far[i] = "live" /\ \E r \in RowIds : rows[r].item = i
  /\ cmd' = [cmd EXCEPT ![p].phase = "itemGet", ![p].item = i]
  /\ UNCHANGED <<far, keychain, rows, history, faults>>

\* The Item is minted and the reply that carries its token is lost.
ExchangeReplyLost(p, i) ==
  /\ At(p, "link")
  /\ far[i] = "none"
  /\ Fault
  /\ far' = [far EXCEPT ![i] = "live"]
  /\ lost' = lost \cup {i}
  /\ Exits(p, "error")
  /\ UNCHANGED <<keychain, rows, told, unheld, contested>>

GetItem(p) ==
  /\ At(p, "itemGet")
  /\ Goto(p, "keep")
  /\ UNCHANGED <<far, keychain, rows, history, faults>>

\* item_get stands between the exchange and the try block: its error leaves the
\* command as it is, with the only copy of the token.
GetItemFails(p) ==
  /\ At(p, "itemGet")
  /\ Fault
  /\ unheld' = unheld \cup {cmd[p].item}
  /\ Exits(p, "error")
  /\ UNCHANGED <<far, keychain, rows, told, lost, contested>>

\* set_access_token
Keep(p) ==
  /\ At(p, "keep")
  /\ keychain' = keychain \cup {cmd[p].item}
  /\ Goto(p, "record")
  /\ UNCHANGED <<far, rows, history, faults>>

Undo(p) == cmd' = [cmd EXCEPT ![p].phase = "remove", ![p].why = "undo"]

\* The keychain refuses to store the token.
KeepFails(p) ==
  /\ At(p, "keep")
  /\ Fault
  /\ Undo(p)
  /\ unheld' = unheld \cup ({cmd[p].item} \ keychain)
  /\ UNCHANGED <<far, keychain, rows, told, lost, contested>>

\* Another writer holds the lock, a deriver raises, the disk is full.
RecordFails(p) ==
  /\ At(p, "record")
  /\ Fault
  /\ Undo(p)
  /\ UNCHANGED <<far, keychain, rows, history>>

-----------------------------------------------------------------------------
(***************************************************************************)
(* The transaction of cmd_enroll (_record_connection).  The archive of the *)
(* item response commits before it under the same writer lock.             *)
(***************************************************************************)
Refuse(p) == cmd' = [cmd EXCEPT ![p].phase = "remove", ![p].why = "refused"]

\* Faulty variant of RecordNew: only the pre-flight check looks at the cap.
RecordNewUncounted(p) ==
  LET i == cmd[p].item IN
  /\ At(p, "record") /\ Existing(i) = 0 /\ Free(i, 0)
  /\ rows' = Append(rows, NewRow(i))
  /\ Exits(p, "ok")
  /\ Contest(p, i)
  /\ UNCHANGED <<far, keychain, told, lost, unheld, faults>>

RecordNew(p) ==
  LET i == cmd[p].item IN
  /\ At(p, "record") /\ Existing(i) = 0 /\ Room /\ Free(i, 0)
  /\ rows' = Append(rows, NewRow(i))
  /\ Exits(p, "ok")
  /\ Contest(p, i)
  /\ UNCHANGED <<far, keychain, told, lost, unheld, faults>>

\* ConnectionCapReachedError, RelinkNotAuthorizedError.
RecordRefused(p) ==
  LET i == cmd[p].item
      r == Existing(i) IN
  /\ At(p, "record")
  /\ IF r = 0 THEN ~ Room ELSE rows[r].item # i /\ ~ cmd[p].relink
  /\ Refuse(p)
  /\ UNCHANGED <<far, keychain, rows, history, faults>>

\* The existing row now names this Item; what it named before is released next.
RecordExisting(p) ==
  LET i == cmd[p].item
      r == Existing(i)
      superseded == Superseded(rows[r], i) IN
  /\ At(p, "record") /\ r # 0
  /\ rows[r].item = i \/ cmd[p].relink
  /\ Free(i, r)
  /\ rows' = [rows EXCEPT ![r] = Repointed(rows[r], i)]
  /\ IF superseded = None THEN Exits(p, "ok")
     ELSE cmd' = [cmd EXCEPT ![p].phase = "remove", ![p].why = "superseded",
                             ![p].old = superseded]
  /\ Contest(p, i)
  /\ UNCHANGED <<far, keychain, told, lost, unheld, faults>>

\* Another row, a retired one, names the Item already: an IntegrityError.
RecordClashes(p) ==
  LET i == cmd[p].item
      r == Existing(i) IN
  /\ At(p, "record") /\ ~ Free(i, r)
  /\ IF r = 0 THEN Room ELSE rows[r].item = i \/ cmd[p].relink
  /\ Undo(p)
  /\ UNCHANGED <<far, keychain, rows, history, faults>>

-----------------------------------------------------------------------------
(***************************************************************************)
(* release_at_aggregator, and what its callers do with the answer.         *)
(***************************************************************************)
Confirmed(p) ==
  /\ ExitsAfterRelease(p, CASE cmd[p].why = "refused" -> "unhealthy"
                             [] cmd[p].why = "undo" -> "error"
                             [] OTHER -> "ok")
  /\ UNCHANGED told

\* Only an Item no row can be given to is left to the operator's dashboard.
Unconfirmed(p) ==
  \/ /\ cmd[p].why \in {"refused", "superseded"}
     /\ Goto(p, "orphan")
     /\ UNCHANGED told
  \/ /\ cmd[p].why = "undo"
     /\ ExitsAfterRelease(p, "error")
     /\ told' = told \cup {cmd[p].item}
  \/ /\ cmd[p].why = "retired"
     /\ ExitsAfterRelease(p, "unhealthy")
     /\ UNCHANGED told

\* item_remove reaches the aggregator.  The failure of an enrollment whose exchange
\* answered with the Item of a live row removes that one.
Removes(p) ==
  LET i == Target(p) IN
  /\ At(p, "remove") /\ i \in keychain /\ far[i] = "live"
  /\ far' = [far EXCEPT ![i] = "removed"]
  /\ contested' = IF cmd[p].why = "undo" /\ \E r \in LiveRows : rows[r].item = i
               THEN contested \cup {i} ELSE contested

\* No credential: nothing to remove.
NothingToRemove(p) ==
  /\ At(p, "remove") /\ Target(p) \notin keychain
  /\ Confirmed(p)
  /\ UNCHANGED <<far, keychain, rows, lost, unheld, contested, faults>>

Remove(p) ==
  /\ Removes(p)
  /\ Goto(p, "forget")
  /\ UNCHANGED <<keychain, rows, told, lost, unheld, faults>>

RemoveReplyLost(p) ==
  /\ Removes(p)
  /\ Fault
  /\ Unconfirmed(p)
  /\ UNCHANGED <<keychain, rows, lost, unheld>>

\* Faulty variant of RemoveFails: the credential is deleted all the same.
RemoveFailsForgetting(p) ==
  /\ At(p, "remove") /\ Target(p) \in keychain
  /\ Fault
  /\ keychain' = keychain \ {Target(p)}
  /\ Unconfirmed(p)
  /\ UNCHANGED <<far, rows, lost, unheld, contested>>

\* The keychain cannot be read or the aggregator cannot be reached.
RemoveFails(p) ==
  /\ At(p, "remove") /\ Target(p) \in keychain
  /\ Fault
  /\ Unconfirmed(p)
  /\ UNCHANGED <<far, keychain, rows, lost, unheld, contested>>

\* ITEM_NOT_FOUND for a credential that outlived its Item.
AlreadyRemoved(p) ==
  /\ At(p, "remove") /\ Target(p) \in keychain /\ far[Target(p)] = "removed"
  /\ Unconfirmed(p)
  /\ UNCHANGED <<far, keychain, rows, lost, unheld, contested, faults>>

\* delete_access_token
Forget(p) ==
  /\ At(p, "forget")
  /\ keychain' = keychain \ {Target(p)}
  /\ Confirmed(p)
  /\ UNCHANGED <<far, rows, lost, unheld, contested, faults>>

ForgetFails(p) ==
  /\ At(p, "forget")
  /\ Fault
  /\ Confirmed(p)
  /\ UNCHANGED <<far, keychain, rows, lost, unheld, contested>>

\* _record_orphan
OrphanRecorded(p) ==
  /\ At(p, "orphan") /\ Free(Target(p), 0)
  /\ rows' = Append(rows, OrphanRow(Target(p)))
  /\ Exits(p, "unhealthy")
  /\ UNCHANGED <<far, keychain, history, faults>>

OrphanNotRecorded(p) ==
  /\ At(p, "orphan")
  /\ Fault \/ (~ Free(Target(p), 0) /\ UNCHANGED faults)
  /\ told' = told \cup {Target(p)}
  /\ Exits(p, "unhealthy")
  /\ UNCHANGED <<far, keychain, rows, lost, unheld, contested>>

-----------------------------------------------------------------------------
(***************************************************************************)
(* cmd_retire.                                                             *)
(***************************************************************************)
\* What the first read of the row answers.
RetireReads(p, r, phase, why, exit) ==
  /\ At(p, "idle")
  /\ cmd' = [cmd EXCEPT ![p] = [NoCommand EXCEPT !.phase = phase, !.why = why, !.exit = exit,
                                                 !.item = rows[r].item,
                                                 !.row = IF phase = "mark" THEN r ELSE 0]]
  /\ UNCHANGED <<far, keychain, rows, history>>

RetireStarts(p, r) ==
  /\ ~ rows[r].retired
  /\ RetireReads(p, r, "mark", "retired", "none")
  /\ UNCHANGED faults

\* _credential_survives; a keychain that cannot be read counts as yes.
RetireRetries(p, r) ==
  /\ rows[r].retired
  /\ Fault \/ (rows[r].item \in keychain /\ UNCHANGED faults)
  /\ RetireReads(p, r, "remove", "retired", "none")

RetireAgain(p, r) ==
  /\ rows[r].retired /\ rows[r].item \notin keychain
  /\ RetireReads(p, r, "idle", "retired", "ok")
  /\ UNCHANGED faults

\* _mark_retired, in a transaction of its own before the aggregator is asked.
Mark(p) ==
  /\ At(p, "mark")
  /\ rows' = [rows EXCEPT ![cmd[p].row] = Retired(@)]
  /\ Goto(p, "remove")
  /\ UNCHANGED <<far, keychain, history, faults>>

MarkFails(p) ==
  /\ At(p, "mark")
  /\ Fault
  /\ Exits(p, "error")
  /\ UNCHANGED <<far, keychain, rows, history>>

-----------------------------------------------------------------------------
(***************************************************************************)
(* The specification.                                                      *)
(***************************************************************************)
\* The process dies: what it alone held is lost.
Killed(p) ==
  /\ ~ At(p, "idle")
  /\ Fault
  /\ lost' = lost \cup {i \in InHand(p) : far[i] = "live" /\ ~ OnRecord(i)}
  /\ Exits(p, "killed")
  /\ UNCHANGED <<far, keychain, rows, told, unheld, contested>>

Enrolls(p) ==
  \/ EnrollStarts(p) \/ Abandoned(p)
  \/ \E i \in Items : Minted(p, i) \/ Returned(p, i) \/ ExchangeReplyLost(p, i)
  \/ GetItem(p) \/ GetItemFails(p) \/ Keep(p) \/ KeepFails(p) \/ RecordFails(p)
  \/ RecordNew(p) \/ RecordRefused(p) \/ RecordExisting(p) \/ RecordClashes(p)
  \/ OrphanRecorded(p) \/ OrphanNotRecorded(p)

Retires(p) ==
  \/ \E r \in RowIds : RetireStarts(p, r) \/ RetireRetries(p, r) \/ RetireAgain(p, r)
  \/ Mark(p) \/ MarkFails(p)

Releases(p) ==
  \/ NothingToRemove(p) \/ Remove(p) \/ RemoveReplyLost(p) \/ RemoveFails(p)
  \/ AlreadyRemoved(p) \/ Forget(p) \/ ForgetFails(p)

Commands ==
  \/ \E p \in Enrollers : Enrolls(p)
  \/ \E p \in Retirers : Retires(p)
  \/ \E p \in Procs : Releases(p) \/ Killed(p)

Syncs(s) ==
  \/ \E r \in RowIds : SyncReads(s, r)
  \/ SyncFetches(s) \/ SyncCommits(s) \/ SyncStamps(s) \/ SyncEnds(s)

\* A row that names another Item than before is overtaken when a run is under way
\* that read it, and in order again when there is none.
NoteOvertaken ==
  overtaken' = {r \in RowIds :
    IF rows'[r].item = rows[r].item THEN r \in overtaken
    ELSE \E s \in Syncers : InFlight(s) /\ runs[s].row = r}

Next ==
  \/ Commands /\ NoteOvertaken /\ UNCHANGED runs
  \/ /\ \E s \in Syncers : Syncs(s)
     /\ UNCHANGED <<far, keychain, cmd, history, overtaken, faults>>

Spec == Init /\ [][Next]_vars

-----------------------------------------------------------------------------
(***************************************************************************)
(* Properties.                                                             *)
(***************************************************************************)
\* Every variable has its type and no two connections name one Item.
TypeOK ==
  /\ far \in [Items -> {"none", "live", "removed"}]
  /\ keychain \subseteq Items
  /\ rows \in Seq(Row)
  /\ \A r, s \in RowIds : rows[r].item = rows[s].item => r = s
  /\ cmd \in [Procs -> Command]
  /\ told \subseteq Items /\ lost \subseteq Items
  /\ unheld \subseteq Items /\ contested \subseteq Items
  /\ faults \in 0 .. MaxFaults

\* An Item that bills is one `connections retire` can reach, or a running command
\* still holds it, or an error said that nothing here will retry it - unless its
\* handle was lost with a process or a reply, or its token never reached the
\* keychain.  Every path through refusal, release, orphan row and re-link, of any
\* number of commands at once, has to keep this.
NothingBillsUnseen ==
  \A i \in Items : far[i] = "live" =>
    OnRecord(i) \/ (\E p \in Procs : i \in InHand(p)) \/ i \in told \cup lost \cup unheld

\* The live connections never exceed the configured cap, however many enrollments
\* saw room before their Link sessions (AC-1.5).
CapHolds == Cardinality(LiveRows) <= Cap

\* The runs have their type, and hold a row there is.
RunsOK ==
  /\ runs \in [Syncers -> SyncRun]
  /\ \A s \in Syncers : InFlight(s) => runs[s].row \in RowIds /\ runs[s].item \in Items
  /\ overtaken \subseteq RowIds

\* A cursor and a success stamp are of the Item the row names, over any number of
\* re-links, retirements and syncs - unless the latest re-link of the row overtook
\* a sync that had read it: the page in flight then puts the cursor back, and the
\* code has nothing against that.
ProgressIsOfItsItem ==
  \A r \in RowIds \ overtaken : {rows[r].cursor, rows[r].stamp} \subseteq {None, rows[r].item}

\* The Item of a live connection exists and its token is stored: no command
\* releases one that a live row names.  The exception is an exchange that answers
\* with an Item already enrolled: when its recording fails, or is overtaken by the
\* release another command had decided on, the enrolled Item goes.
LiveRowKeepsItsItem ==
  \A r \in LiveRows :
    \/ far[rows[r].item] = "live" /\ rows[r].item \in keychain
    \/ rows[r].item \in contested

\* p's last command said that its Item is gone: exit 0 for the Item a re-link
\* replaced or the one a retirement read, "it was removed at the aggregator, so
\* nothing is billing" in the error of a failed enrollment.
SaysRemoved(p) ==
  /\ At(p, "idle")
  /\ \/ cmd[p].exit = "ok" /\ cmd[p].why \in {"superseded", "retired"}
     \/ cmd[p].exit = "error" /\ cmd[p].why = "undo" /\ cmd[p].item \notin told

\* What a command says is removed is removed: a credential that is not there is
\* trusted as the record of that, across failures, kills and other commands -
\* but for a token that never reached the keychain.
SaidRemovedIsGone ==
  \A p \in Procs : SaysRemoved(p) => far[Target(p)] = "removed" \/ Target(p) \in unheld
=============================================================================
