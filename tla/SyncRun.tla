------------------------------- MODULE SyncRun -------------------------------
(***************************************************************************)
(* `bankmachine sync run` over all live connections (cli/sync_run.py): one *)
(* connection after another, each failure recorded against that connection *)
(* or that domain, and one exit code for the whole run, repeated under     *)
(* --until-ready while that code says to come back.                        *)
(*                                                                         *)
(* The page loop of one connection is TransactionSync; here it is a single *)
(* step with the outcomes that module gives it.  Every write takes the     *)
(* writer lock for its own transaction and does not wait for it, so a      *)
(* `store backup` holding the lock makes any of them raise.                *)
(***************************************************************************)
EXTENDS Naturals

CONSTANTS
  N,            \* live connections, synced in the order of their ids 1 .. N
  Capable,      \* those whose recorded capabilities name investments
  Empty,        \* those that hold no transaction at all
  MaxAttempts,  \* --max-attempts; 1 without --until-ready
  MaxBacklog,   \* bound: runs that end on the page ceiling, per connection
  MaxEvents,    \* bound: failed calls, logins lost and crashes
  MaxBackups    \* bound: backups taken

Connections == 1 .. N

ASSUME SyncRunAssumption ==
  /\ N \in Nat
  /\ Capable \subseteq Connections
  /\ Empty \subseteq Connections
  /\ MaxAttempts \in Nat \ {0}
  /\ MaxBacklog \in Nat
  /\ MaxEvents \in Nat
  /\ MaxBackups \in Nat

VARIABLES
  \* the institutions behind the connections
  login,     \* the access token is accepted
  history,   \* transactions_update_status: "none", "initial" or "historical"
  product,   \* the investments product was initialized for the Item
  backlog,   \* runs that will still end on the page ceiling
  \* the datastore
  status,    \* connections.status
  success,   \* connections.last_success_at, as seen from the attempt in hand
  granted,   \* granted_history_days is measured
  tried,     \* sync_state has a row for investments
  invError,  \* its last_error_code
  invSuccess,\* its last_success_at
  lock,      \* the writer lock, between two steps of the run
  \* the command
  cmd,       \* phase, connection and attempt in hand
  outcome,   \* RunOutcome: one ConnectionOutcome each
  exit,      \* exit code of the last command that ended, "none" before and while one runs
  events, backups

institutions == <<login, history, product, backlog>>
store        == <<status, success, granted, tried, invError, invSuccess>>
vars         == <<institutions, store, lock, cmd, outcome, exit, events, backups>>

Stamps == {"never", "earlier", "now"}

Phases == {"idle", "accounts", "invAttempt", "holdings", "window", "invFailed", "invDone",
           "txAttempt", "pages", "granted", "stamp", "degrade", "report", "wait"}

\* The fields of ConnectionOutcome that the run reads again.
Outcome == [degraded : BOOLEAN, unfinished : BOOLEAN,
            invError : BOOLEAN, windowShort : BOOLEAN]

NoOutcome == [degraded |-> FALSE, unfinished |-> TRUE,
              invError |-> FALSE, windowShort |-> FALSE]

Init ==
  /\ login = [c \in Connections |-> TRUE]
  /\ history = [c \in Connections |-> "none"]
  /\ product \in [Capable -> BOOLEAN]
  /\ backlog \in [Connections -> 0 .. MaxBacklog]
  /\ status = [c \in Connections |-> "active"]
  /\ success = [c \in Connections |-> "never"]
  /\ granted = [c \in Connections |-> FALSE]
  /\ tried = [c \in Connections |-> FALSE]
  /\ invError = [c \in Connections |-> FALSE]
  /\ invSuccess = [c \in Connections |-> "never"]
  /\ lock = "free"
  /\ cmd = [phase |-> "idle", at |-> 1, attempt |-> 0]
  /\ outcome = [c \in Connections |-> NoOutcome]
  /\ exit = "none"
  /\ events = 0
  /\ backups = 0

-----------------------------------------------------------------------------
(***************************************************************************)
(* The institutions and the backup.                                        *)
(***************************************************************************)
LoginExpires(c) ==
  /\ login[c]
  /\ events < MaxEvents
  /\ login' = [login EXCEPT ![c] = FALSE]
  /\ events' = events + 1
  /\ UNCHANGED <<history, product, backlog, store, lock, cmd, outcome, exit, backups>>

LoginRenewed(c) ==
  /\ ~ login[c]
  /\ login' = [login EXCEPT ![c] = TRUE]
  /\ UNCHANGED <<history, product, backlog, store, lock, cmd, outcome, exit, events, backups>>

HistoryAdvances(c) ==
  /\ history[c] # "historical"
  /\ history' = [history EXCEPT ![c] = IF @ = "none" THEN "initial" ELSE "historical"]
  /\ UNCHANGED <<login, product, backlog, store, lock, cmd, outcome, exit, events, backups>>

Institution(c) ==
  LoginExpires(c) \/ LoginRenewed(c) \/ HistoryAdvances(c)

\* copying_writer holds the lock for as long as VACUUM INTO takes.
BackupTakesLock ==
  /\ lock = "free"
  /\ backups < MaxBackups
  /\ lock' = "backup"
  /\ backups' = backups + 1
  /\ UNCHANGED <<institutions, store, cmd, outcome, exit, events>>

BackupReleasesLock ==
  /\ lock = "backup"
  /\ lock' = "free"
  /\ UNCHANGED <<institutions, store, cmd, outcome, exit, events, backups>>

-----------------------------------------------------------------------------
(***************************************************************************)
(* One connection (_sync_one).  c is cmd.at throughout.                    *)
(***************************************************************************)
At(phase) == cmd.phase = phase

Goto(phase) == cmd' = [cmd EXCEPT !.phase = phase]

\* AnotherWriterRunningError: the lock is held and is not waited for.
Refused == lock # "free"

\* On to the next connection, or to the report after the last.
NextConnection ==
  cmd' = IF cmd.at < N THEN [cmd EXCEPT !.phase = "accounts", !.at = @ + 1]
         ELSE [cmd EXCEPT !.phase = "report"]

Mark(c, field) == outcome' = [outcome EXCEPT ![c][field] = TRUE]

\* An attempt starts: what was stamped before it is not of this run.
Aged(stamps) == [c \in Connections |-> IF stamps[c] = "never" THEN "never" ELSE "earlier"]

StartAttempt(k) ==
  /\ cmd' = [phase |-> IF N = 0 THEN "report" ELSE "accounts", at |-> 1, attempt |-> k]
  /\ outcome' = [c \in Connections |-> NoOutcome]
  /\ success' = Aged(success)
  /\ invSuccess' = Aged(invSuccess)
  /\ exit' = "none"
  /\ UNCHANGED <<institutions, status, granted, tried, invError, lock, events, backups>>

Begin == At("idle") /\ StartAttempt(1)

\* A call that could fail does: the network, a malformed reply, a refused derivation.
Unlucky == events < MaxEvents /\ events' = events + 1

(***************************************************************************)
(* The credential is read, the roster fetched and committed.  Any failure  *)
(* here is the connection's.                                               *)
(***************************************************************************)
RefreshAccounts ==
  /\ At("accounts")
  /\ \/ /\ login[cmd.at] /\ ~ Refused
        /\ Goto(IF cmd.at \in Capable THEN "invAttempt" ELSE "txAttempt")
        /\ UNCHANGED events
     \/ /\ ~ login[cmd.at] \/ Refused
        /\ Goto("degrade")
        /\ UNCHANGED events
     \/ Unlucky /\ Goto("degrade")
  /\ UNCHANGED <<institutions, store, lock, outcome, exit, backups>>

\* _record_attempt(INVESTMENTS_DOMAIN), before any call is made.
RecordInvestmentsAttempt ==
  /\ At("invAttempt")
  /\ IF Refused THEN Goto("degrade") /\ UNCHANGED tried
     ELSE Goto("holdings") /\ tried' = [tried EXCEPT ![cmd.at] = TRUE]
  /\ UNCHANGED <<institutions, status, success, granted, invError, invSuccess,
                 lock, outcome, exit, events, backups>>

\* A call and its page inside _pull_investments: only a lost login leaves it.
InvestmentsCall(done) ==
  /\ \/ /\ login[cmd.at] /\ product[cmd.at] /\ ~ Refused
        /\ done
        /\ UNCHANGED events
     \/ ~ login[cmd.at] /\ Goto("degrade") /\ UNCHANGED <<outcome, events>>
     \/ /\ login[cmd.at]
        /\ Unlucky \/ ((~ product[cmd.at] \/ Refused) /\ UNCHANGED events)
        /\ Mark(cmd.at, "invError")
        /\ Goto("invFailed")
  /\ UNCHANGED <<institutions, store, lock, exit, backups>>

PullHoldings == At("holdings") /\ InvestmentsCall(Goto("window") /\ UNCHANGED outcome)

\* The window is seen whole, or in part.
PullWindow ==
  /\ At("window")
  /\ InvestmentsCall(Goto("invDone") /\ (UNCHANGED outcome \/ Mark(cmd.at, "windowShort")))

\* The handler of a domain failure writes too, inside the connection's own catch.
RecordInvestmentsFailure ==
  /\ At("invFailed")
  /\ IF Refused THEN Goto("degrade") /\ UNCHANGED invError
     ELSE Goto("txAttempt") /\ invError' = [invError EXCEPT ![cmd.at] = TRUE]
  /\ UNCHANGED <<institutions, status, success, granted, tried, invSuccess,
                 lock, outcome, exit, events, backups>>

\* record_domain_success, or record_domain_incomplete for a short window.
RecordInvestments ==
  /\ At("invDone")
  /\ IF Refused THEN Goto("degrade") /\ UNCHANGED <<invError, invSuccess>>
     ELSE /\ Goto("txAttempt")
          /\ invError' = [invError EXCEPT ![cmd.at] = FALSE]
          /\ invSuccess' = IF outcome[cmd.at].windowShort THEN invSuccess
                           ELSE [invSuccess EXCEPT ![cmd.at] = "now"]
  /\ UNCHANGED <<institutions, status, success, granted, tried,
                 lock, outcome, exit, events, backups>>

\* _record_attempt(TRANSACTIONS_DOMAIN).
RecordTransactionsAttempt ==
  /\ At("txAttempt")
  /\ Goto(IF Refused THEN "degrade" ELSE "pages")
  /\ UNCHANGED <<institutions, store, lock, outcome, exit, events, backups>>

(***************************************************************************)
(* The page loop: it raises; or finds the history NOT_READY and returns at *)
(* once, having written nothing; or applies pages to the end of what is    *)
(* offered or to its ceiling.                                              *)
(***************************************************************************)
PageLoop ==
  /\ At("pages")
  /\ \/ ~ login[cmd.at] /\ Goto("degrade") /\ UNCHANGED <<backlog, outcome, events>>
     \/ Unlucky /\ Goto("degrade") /\ UNCHANGED <<backlog, outcome>>
     \/ /\ login[cmd.at] /\ history[cmd.at] = "none"
        /\ NextConnection
        /\ UNCHANGED <<backlog, outcome, events>>
     \/ /\ login[cmd.at] /\ history[cmd.at] # "none" /\ Refused
        /\ Goto("degrade")
        /\ UNCHANGED <<backlog, outcome, events>>
     \/ /\ login[cmd.at] /\ history[cmd.at] # "none" /\ ~ Refused
        /\ backlog' = [backlog EXCEPT ![cmd.at] = IF @ = 0 THEN 0 ELSE @ - 1]
        /\ outcome' = [outcome EXCEPT ![cmd.at].unfinished =
                         history[cmd.at] # "historical" \/ backlog[cmd.at] > 0]
        /\ Goto(IF history[cmd.at] = "historical" THEN "granted" ELSE "stamp")
        /\ UNCHANGED events
  /\ UNCHANGED <<login, history, product, store, lock, exit, backups>>

\* A StoreError outside every catch of the run: main() reports it and exits 2.
Escape ==
  /\ exit' = "error"
  /\ Goto("idle")
  /\ UNCHANGED store

\* _record_granted_window, written once, for a connection with transactions.
RecordGrantedWindow ==
  /\ At("granted")
  /\ IF granted[cmd.at] \/ cmd.at \in Empty THEN Goto("stamp") /\ UNCHANGED <<store, exit>>
     ELSE IF Refused THEN Escape
     ELSE /\ granted' = [granted EXCEPT ![cmd.at] = TRUE]
          /\ Goto("stamp")
          /\ UNCHANGED <<status, success, tried, invError, invSuccess, exit>>
  /\ UNCHANGED <<institutions, lock, outcome, events, backups>>

\* _record_success: the error clears; the freshness stamp needs the whole history.
RecordSuccess ==
  /\ At("stamp")
  /\ IF Refused THEN Escape
     ELSE /\ status' = [status EXCEPT ![cmd.at] = "active"]
          /\ success' = IF outcome[cmd.at].unfinished THEN success
                        ELSE [success EXCEPT ![cmd.at] = "now"]
          /\ NextConnection
          /\ UNCHANGED <<granted, tried, invError, invSuccess, exit>>
  /\ UNCHANGED <<institutions, lock, outcome, events, backups>>

\* Faulty variants of Degrade: the row is not written; the run stops there.
DegradeUnrecorded ==
  /\ At("degrade")
  /\ Mark(cmd.at, "degraded")
  /\ NextConnection
  /\ UNCHANGED <<institutions, store, exit, lock, events, backups>>

DegradeEndsRun ==
  /\ At("degrade")
  /\ Mark(cmd.at, "degraded")
  /\ status' = [status EXCEPT ![cmd.at] = "degraded"]
  /\ Goto("report")
  /\ UNCHANGED <<institutions, success, granted, tried, invError, invSuccess, exit,
                 lock, events, backups>>

\* _degrade: recorded on the connection's own row, and the run carries on.
Degrade ==
  /\ At("degrade")
  /\ Mark(cmd.at, "degraded")
  /\ IF Refused THEN Escape
     ELSE /\ status' = [status EXCEPT ![cmd.at] = "degraded"]
          /\ NextConnection
          /\ UNCHANGED <<success, granted, tried, invError, invSuccess, exit>>
  /\ UNCHANGED <<institutions, lock, events, backups>>

-----------------------------------------------------------------------------
(***************************************************************************)
(* The end of an attempt (RunOutcome.exit_code, cmd_sync_run).             *)
(***************************************************************************)
\* Faulty variant of ExitCode: a window seen in part owes nothing.
ExitCodeIgnoringWindow ==
  IF \E c \in Connections : outcome[c].degraded \/ outcome[c].invError THEN "unhealthy"
  ELSE IF \E c \in Connections : outcome[c].unfinished THEN "again"
  ELSE "ok"

\* A problem outranks work still owed.
ExitCode ==
  IF \E c \in Connections : outcome[c].degraded \/ outcome[c].invError THEN "unhealthy"
  ELSE IF \E c \in Connections : outcome[c].unfinished \/ outcome[c].windowShort THEN "again"
  ELSE "ok"

\* Faulty variant of Report: attempts without end.
ReportForever ==
  /\ At("report")
  /\ IF ExitCode = "again" THEN Goto("wait") /\ UNCHANGED exit
     ELSE Goto("idle") /\ exit' = ExitCode
  /\ UNCHANGED <<institutions, store, lock, outcome, events, backups>>

\* Only "again" is repeated, and only so often.
Report ==
  /\ At("report")
  /\ IF ExitCode = "again" /\ cmd.attempt < MaxAttempts THEN Goto("wait") /\ UNCHANGED exit
     ELSE Goto("idle") /\ exit' = ExitCode
  /\ UNCHANGED <<institutions, store, lock, outcome, events, backups>>

Retry == At("wait") /\ StartAttempt(IF cmd.attempt < MaxAttempts THEN cmd.attempt + 1
                                    ELSE cmd.attempt)

\* The process dies between two transactions.
Crash ==
  /\ ~ At("idle")
  /\ events < MaxEvents
  /\ events' = events + 1
  /\ Goto("idle")
  /\ UNCHANGED <<institutions, store, lock, outcome, exit, backups>>

RunStep ==
  \/ RefreshAccounts
  \/ RecordInvestmentsAttempt
  \/ PullHoldings
  \/ PullWindow
  \/ RecordInvestmentsFailure
  \/ RecordInvestments
  \/ RecordTransactionsAttempt
  \/ PageLoop
  \/ RecordGrantedWindow
  \/ RecordSuccess
  \/ Degrade
  \/ Report
  \/ Retry

Next ==
  \/ \E c \in Connections : Institution(c)
  \/ BackupTakesLock
  \/ BackupReleasesLock
  \/ Begin
  \/ RunStep
  \/ Crash

Spec == Init /\ [][Next]_vars

(***************************************************************************)
(* A run that has begun goes on, a backup ends, and a scheduler begins     *)
(* another run some time after one has ended.                              *)
(***************************************************************************)
FairSpec ==
  /\ Spec
  /\ WF_vars(RunStep)
  /\ WF_vars(Begin)
  /\ WF_vars(BackupReleasesLock)

-----------------------------------------------------------------------------
(***************************************************************************)
(* Properties.                                                             *)
(***************************************************************************)

\* Every variable has its type.
TypeOK ==
  /\ login \in [Connections -> BOOLEAN]
  /\ history \in [Connections -> {"none", "initial", "historical"}]
  /\ product \in [Capable -> BOOLEAN]
  /\ backlog \in [Connections -> 0 .. MaxBacklog]
  /\ status \in [Connections -> {"active", "degraded"}]
  /\ success \in [Connections -> Stamps]
  /\ granted \in [Connections -> BOOLEAN]
  /\ tried \in [Connections -> BOOLEAN]
  /\ invError \in [Connections -> BOOLEAN]
  /\ invSuccess \in [Connections -> Stamps]
  /\ lock \in {"free", "backup"}
  /\ cmd \in [phase : Phases, at : Nat, attempt : 0 .. MaxAttempts]
  /\ N > 0 => cmd.at \in Connections
  /\ outcome \in [Connections -> Outcome]
  /\ exit \in {"none", "ok", "again", "unhealthy", "error"}
  /\ events \in 0 .. MaxEvents
  /\ backups \in 0 .. MaxBackups

(***************************************************************************)
(* Exit 0 is a statement about the store: every connection is active and   *)
(* was stamped fresh by this very run, and every investments domain too.   *)
(***************************************************************************)
CleanExitMeansCurrent ==
  exit = "ok" =>
    \A c \in Connections :
      /\ status[c] = "active" /\ success[c] = "now"
      /\ c \in Capable => invSuccess[c] = "now" /\ ~ invError[c]

(***************************************************************************)
(* Exit 1 sends an operator to the health surface, which reads the store:  *)
(* some connection or domain row says what is wrong.                       *)
(***************************************************************************)
ProblemExitIsOnRecord ==
  exit = "unhealthy" => \E c \in Connections : status[c] = "degraded" \/ invError[c]

(***************************************************************************)
(* A domain's last_error_code is what its last attempt failed with, null   *)
(* when it did not fail (api-contract.md, of sync_state), for every        *)
(* connection this run did not have to give up on.                         *)
(***************************************************************************)
DomainErrorIsOfLastAttempt ==
  exit \in {"ok", "again", "unhealthy"} =>
    \A c \in Capable : ~ outcome[c].degraded => invError[c] = outcome[c].invError

(***************************************************************************)
(* Whatever stops a run during or after an investments call, the domain is *)
(* on record as tried: never-tried and always-failing differ (AC-4.5).     *)
(***************************************************************************)
AttemptIsOnRecord ==
  /\ \A c \in Connections : invError[c] \/ invSuccess[c] # "never" => tried[c]
  /\ cmd.phase \in {"holdings", "window", "invFailed", "invDone"} => tried[cmd.at]

(***************************************************************************)
(* A connection whose institution answers and whose history is complete is *)
(* eventually stamped fresh, whatever the other connections do for ever.   *)
(***************************************************************************)
HealthyConnectionBecomesFresh ==
  \A c \in Connections :
    <>[](login[c] /\ history[c] = "historical") => <>(success[c] # "never")

\* A command that was started ends.
CommandEnds == (cmd.phase # "idle") ~> (cmd.phase = "idle")
=============================================================================
