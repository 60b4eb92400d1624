--------------------------- MODULE SyncRun_proofs ---------------------------
(***************************************************************************)
(* Proofs about SyncRun, for any number of connections, attempts, failures *)
(* and backups: what a run reports at its end agrees with what it wrote,   *)
(* because each connection that is done with left its outcome and its rows *)
(* in agreement (Settled) and no later step of the run touches them.       *)
(***************************************************************************)
EXTENDS SyncRun, TLAPS

Working == Phases \ {"idle", "report", "wait"}

\* The connections this attempt is done with.
Finished ==
  IF cmd.phase \in Working THEN 1 .. (cmd.at - 1)
  ELSE IF cmd.phase \in {"report", "wait"} \/ exit \in {"ok", "again", "unhealthy"}
       THEN Connections ELSE {}

\* The investments domain of c is recorded as its outcome has it.
DomainSettled(c) ==
  /\ invError[c] = outcome[c].invError
  /\ ~ outcome[c].invError /\ ~ outcome[c].windowShort => invSuccess[c] = "now"

Settled(c) ==
  /\ outcome[c].degraded => status[c] = "degraded"
  /\ ~ outcome[c].degraded /\ ~ outcome[c].unfinished => status[c] = "active" /\ success[c] = "now"
  /\ ~ outcome[c].degraded /\ c \in Capable => DomainSettled(c)

\* The command is inside its list of connections, and has no exit code yet.
CommandShape ==
  /\ cmd.phase \in Working => cmd.at \in Connections
  /\ exit # "none" => cmd.phase = "idle"

\* What the connection in hand can have in its outcome, phase by phase.
InHand ==
  cmd.phase \in Working =>
    /\ ~ outcome[cmd.at].degraded
    /\ cmd.phase \notin {"granted", "stamp"} => outcome[cmd.at].unfinished
    /\ cmd.phase \in {"accounts", "invAttempt", "holdings", "window", "invDone"}
         => ~ outcome[cmd.at].invError
    /\ cmd.phase = "invFailed" => outcome[cmd.at].invError
    /\ cmd.phase \in {"txAttempt", "pages", "granted", "stamp"} /\ cmd.at \in Capable
         => DomainSettled(cmd.at)
    /\ cmd.phase \in {"invAttempt", "holdings", "window", "invFailed", "invDone"}
         => cmd.at \in Capable

Untouched == cmd.phase \in Working => \A c \in Connections : c > cmd.at => outcome[c] = NoOutcome
AllSettled == \A c \in Finished : Settled(c)
OnlyCapableFail == \A c \in Connections : outcome[c].invError => c \in Capable
ExitIsOfOutcome == exit \in {"ok", "again", "unhealthy"} => exit = ExitCode

IInv ==
  /\ TypeOK /\ CommandShape /\ InHand /\ Untouched
  /\ AllSettled /\ OnlyCapableFail /\ ExitIsOfOutcome /\ AttemptIsOnRecord

-----------------------------------------------------------------------------
LEMMA InitIInv == Init => IInv
<1> SUFFICES ASSUME Init PROVE IInv
  OBVIOUS
<1> USE SyncRunAssumption DEF Init
<1>1. TypeOK
  BY DEF TypeOK, Connections, Stamps, Phases, Outcome, NoOutcome
<1>2. CommandShape /\ InHand /\ Untouched
  BY DEF CommandShape, InHand, Untouched, Working
<1>3. AllSettled /\ OnlyCapableFail /\ ExitIsOfOutcome /\ AttemptIsOnRecord
  BY DEF AllSettled, Finished, Working, OnlyCapableFail, NoOutcome, ExitIsOfOutcome, AttemptIsOnRecord
<1> QED
  BY <1>1, <1>2, <1>3 DEF IInv

-----------------------------------------------------------------------------
(* What the steps of a connection have in common *)

\* Whatever a step writes, it writes on the connection in hand.
SameElsewhere ==
  \A c \in Connections : c # cmd.at =>
    /\ status'[c] = status[c] /\ success'[c] = success[c]
    /\ invError'[c] = invError[c] /\ invSuccess'[c] = invSuccess[c]
    /\ outcome'[c] = outcome[c]

LEMMA AtIsConnection == ASSUME IInv, cmd.phase \in Working PROVE cmd.at \in Connections
BY DEF IInv, CommandShape

CommandTyped ==
  /\ cmd \in [phase : Phases, at : Nat, attempt : 0 .. MaxAttempts]
  /\ N > 0 => cmd.at \in Connections

LEMMA NextTyped ==
  ASSUME CommandTyped, cmd.at \in Connections, NextConnection
  PROVE  CommandTyped'
<1> USE SyncRunAssumption DEF Connections
<1>1. CASE cmd.at < N
  <2>1. cmd' = [phase |-> "accounts", at |-> cmd.at + 1, attempt |-> cmd.attempt]
    BY <1>1 DEF CommandTyped, NextConnection
  <2> QED
    BY <1>1, <2>1 DEF CommandTyped, Phases
<1>2. CASE ~ (cmd.at < N)
  <2>1. cmd' = [cmd EXCEPT !.phase = "report"]
    BY <1>2 DEF CommandTyped, NextConnection
  <2> QED
    BY <2>1 DEF CommandTyped, Phases
<1> QED
  BY <1>1, <1>2

LEMMA GotoTyped ==
  ASSUME CommandTyped, NEW q \in Phases, cmd' = [cmd EXCEPT !.phase = q]
  PROVE  CommandTyped'
BY DEF CommandTyped, Connections

LEMMA MarkDegraded ==
  ASSUME outcome \in [Connections -> Outcome], NEW c \in Connections, Mark(c, "degraded")
  PROVE  /\ outcome' \in [Connections -> Outcome]
         /\ \A d \in Connections : d # c => outcome'[d] = outcome[d]
         /\ outcome'[c].degraded
         /\ outcome'[c].unfinished = outcome[c].unfinished
         /\ outcome'[c].invError = outcome[c].invError
         /\ outcome'[c].windowShort = outcome[c].windowShort
BY DEF Mark, Outcome

LEMMA MarkFailed ==
  ASSUME outcome \in [Connections -> Outcome], NEW c \in Connections, Mark(c, "invError")
  PROVE  /\ outcome' \in [Connections -> Outcome]
         /\ \A d \in Connections : d # c => outcome'[d] = outcome[d]
         /\ outcome'[c].invError
         /\ outcome'[c].degraded = outcome[c].degraded
         /\ outcome'[c].unfinished = outcome[c].unfinished
         /\ outcome'[c].windowShort = outcome[c].windowShort
BY DEF Mark, Outcome

LEMMA MarkShort ==
  ASSUME outcome \in [Connections -> Outcome], NEW c \in Connections, Mark(c, "windowShort")
  PROVE  /\ outcome' \in [Connections -> Outcome]
         /\ \A d \in Connections : d # c => outcome'[d] = outcome[d]
         /\ outcome'[c].windowShort
         /\ outcome'[c].degraded = outcome[c].degraded
         /\ outcome'[c].unfinished = outcome[c].unfinished
         /\ outcome'[c].invError = outcome[c].invError
BY DEF Mark, Outcome

\* A step on to another phase of the same connection.
LEMMA SameConnection ==
  ASSUME IInv, cmd.phase \in Working, NEW q \in Working, cmd' = [cmd EXCEPT !.phase = q],
         SameElsewhere, exit' = exit
  PROVE  TypeOK' => CommandShape' /\ Untouched' /\ AllSettled' /\ ExitIsOfOutcome'
<1> USE SyncRunAssumption DEF Connections
<1>1. /\ cmd.at \in Connections /\ cmd.phase # "idle" /\ exit = "none"
      /\ cmd'.at = cmd.at /\ cmd'.phase = q
  BY DEF IInv, CommandShape, Working, TypeOK
<1>2. CommandShape'
  BY <1>1 DEF CommandShape
<1>3. ExitIsOfOutcome'
  BY <1>1 DEF ExitIsOfOutcome
<1>4. Untouched'
  BY <1>1 DEF SameElsewhere, Untouched, IInv
<1>5. Finished' = Finished /\ Finished = 1 .. (cmd.at - 1)
  BY <1>1 DEF Finished
<1>6. ASSUME NEW c \in 1 .. (cmd.at - 1) PROVE Settled(c)'
  <2>1. c \in Connections /\ c # cmd.at
    BY <1>1
  <2>2. Settled(c)
    BY <1>5 DEF IInv, AllSettled
  <2> QED
    BY <2>1, <2>2 DEF SameElsewhere, Settled, DomainSettled
<1>7. AllSettled'
  BY <1>5, <1>6 DEF AllSettled
<1> QED
  BY <1>2, <1>3, <1>4, <1>7

\* A step on to the next connection, or to the report.
LEMMA NextInLine ==
  ASSUME IInv, cmd.phase \in Working, NextConnection, SameElsewhere, exit' = exit,
         TypeOK', NEW h, h = cmd.at, Settled(h)'
  PROVE  CommandShape' /\ InHand' /\ Untouched' /\ AllSettled' /\ ExitIsOfOutcome'
<1> USE SyncRunAssumption DEF Connections
<1>1. /\ cmd.at \in Connections /\ cmd.phase # "idle" /\ exit = "none" /\ N \in Nat
      /\ IF cmd.at < N THEN cmd'.phase = "accounts" /\ cmd'.at = cmd.at + 1
                       ELSE cmd'.phase = "report" /\ cmd'.at = cmd.at
  BY DEF IInv, CommandShape, Working, TypeOK, NextConnection
<1>2. CommandShape' /\ ExitIsOfOutcome'
  BY <1>1 DEF CommandShape, ExitIsOfOutcome, Working
<1>3. cmd.at < N => outcome'[cmd.at + 1] = NoOutcome
  BY <1>1 DEF SameElsewhere, Untouched, IInv
<1>4. InHand'
  BY <1>1, <1>3 DEF InHand, NoOutcome, Working
<1>5. Untouched'
  BY <1>1 DEF SameElsewhere, Untouched, IInv, Working
<1>6. Finished' = 1 .. cmd.at
  BY <1>1 DEF Finished, Working, Phases
<1>7. ASSUME NEW c \in 1 .. cmd.at PROVE Settled(c)'
  <2>1. CASE c = cmd.at
    BY <2>1
  <2>2. CASE c # cmd.at
    <3>1. c \in Connections /\ c \in Finished
      BY <1>1, <2>2 DEF Finished
    <3>2. Settled(c)
      BY <3>1 DEF IInv, AllSettled
    <3> QED
      BY <2>2, <3>1, <3>2 DEF SameElsewhere, Settled, DomainSettled
  <2> QED
    BY <2>1, <2>2
<1>8. AllSettled'
  BY <1>6, <1>7 DEF AllSettled
<1> QED
  BY <1>2, <1>4, <1>5, <1>8

LEMMA RefreshAccountsStep == IInv /\ RefreshAccounts => IInv'
<1> SUFFICES ASSUME IInv, RefreshAccounts PROVE IInv'
  OBVIOUS
<1> USE SyncRunAssumption
<1>1. cmd.phase \in Working /\ cmd.at \in Connections
  BY AtIsConnection DEF RefreshAccounts, At, Working, Phases
<1>2. /\ cmd'.at = cmd.at
      /\ outcome' = outcome
      /\ tried' = tried /\ invError' = invError /\ invSuccess' = invSuccess
      /\ \/ cmd'.phase = "invAttempt" /\ cmd.at \in Capable
         \/ cmd'.phase = "txAttempt" /\ cmd.at \notin Capable
         \/ cmd'.phase = "degrade"
  BY <1>1 DEF IInv, TypeOK, RefreshAccounts, At, Goto, Refused, institutions, store, Unlucky
<1>3. TypeOK'
  <2>1. cmd' \in [phase : Phases, at : Nat, attempt : 0 .. MaxAttempts] /\ (N > 0 => cmd'.at \in Connections)
    BY <1>1 DEF IInv, TypeOK, Phases, RefreshAccounts, At, Goto, Refused, institutions, store, Unlucky
  <2>2. outcome' \in [Connections -> Outcome]
    BY <1>1, <1>2 DEF IInv, TypeOK, Outcome
  <2>3. events' \in 0 .. MaxEvents
    BY DEF IInv, TypeOK, RefreshAccounts, At, Goto, Refused, institutions, store, Unlucky
  <2> QED
    BY <1>1, <2>1, <2>2, <2>3 DEF IInv, TypeOK, Stamps, RefreshAccounts, At, Goto, Refused, institutions, store, Unlucky
<1>4. SameElsewhere /\ exit' = exit
  BY <1>1, <1>2 DEF IInv, TypeOK, SameElsewhere, RefreshAccounts, At, Goto, Refused, institutions, store, Unlucky
<1>5. PICK q \in Working : cmd' = [cmd EXCEPT !.phase = q]
  BY <1>1 DEF Working, Phases, RefreshAccounts, At, Goto, Refused, institutions, store, Unlucky
<1>6. CommandShape' /\ Untouched' /\ AllSettled' /\ ExitIsOfOutcome'
  BY <1>1, <1>3, <1>4, <1>5, SameConnection
<1>7. InHand'
  BY <1>1, <1>2 DEF IInv, InHand, DomainSettled, Working, At, RefreshAccounts
<1>8. OnlyCapableFail'
  BY <1>1, <1>2, <1>4 DEF IInv, InHand, OnlyCapableFail, SameElsewhere, At, RefreshAccounts
<1>9. AttemptIsOnRecord'
  BY <1>1, <1>2, <1>4 DEF IInv, InHand, AttemptIsOnRecord, SameElsewhere, At, RefreshAccounts
<1> QED
  BY <1>3, <1>6, <1>7, <1>8, <1>9 DEF IInv

LEMMA RecordInvestmentsAttemptStep == IInv /\ RecordInvestmentsAttempt => IInv'
<1> SUFFICES ASSUME IInv, RecordInvestmentsAttempt PROVE IInv'
  OBVIOUS
<1> USE SyncRunAssumption
<1>1. cmd.phase \in Working /\ cmd.at \in Connections
  BY AtIsConnection DEF RecordInvestmentsAttempt, At, Working, Phases
<1>2. /\ cmd'.at = cmd.at
      /\ outcome' = outcome
      /\ invError' = invError /\ invSuccess' = invSuccess
      /\ \/ cmd'.phase = "holdings" /\ tried' = [tried EXCEPT ![cmd.at] = TRUE]
         \/ cmd'.phase = "degrade" /\ tried' = tried
      /\ tried \in [Connections -> BOOLEAN]
  BY <1>1 DEF IInv, TypeOK, RecordInvestmentsAttempt, At, Goto, Refused, institutions, store
<1>3. TypeOK'
  <2>1. cmd' \in [phase : Phases, at : Nat, attempt : 0 .. MaxAttempts] /\ (N > 0 => cmd'.at \in Connections)
    BY <1>1 DEF IInv, TypeOK, Phases, RecordInvestmentsAttempt, At, Goto, Refused, institutions, store
  <2>2. outcome' \in [Connections -> Outcome]
    BY <1>1, <1>2 DEF IInv, TypeOK, Outcome
  <2>3. events' \in 0 .. MaxEvents
    BY DEF IInv, TypeOK, RecordInvestmentsAttempt, At, Goto, Refused, institutions, store
  <2> QED
    BY <1>1, <2>1, <2>2, <2>3 DEF IInv, TypeOK, Stamps, RecordInvestmentsAttempt, At, Goto, Refused, institutions, store
<1>4. SameElsewhere /\ exit' = exit
  BY <1>1, <1>2 DEF IInv, TypeOK, SameElsewhere, RecordInvestmentsAttempt, At, Goto, Refused, institutions, store
<1>5. PICK q \in Working : cmd' = [cmd EXCEPT !.phase = q]
  BY <1>1 DEF Working, Phases, RecordInvestmentsAttempt, At, Goto, Refused, institutions, store
<1>6. CommandShape' /\ Untouched' /\ AllSettled' /\ ExitIsOfOutcome'
  BY <1>1, <1>3, <1>4, <1>5, SameConnection
<1>7. InHand'
  BY <1>1, <1>2 DEF IInv, InHand, DomainSettled, Working, At, RecordInvestmentsAttempt
<1>8. OnlyCapableFail'
  BY <1>1, <1>2, <1>4 DEF IInv, InHand, OnlyCapableFail, SameElsewhere, At, RecordInvestmentsAttempt
<1>9. AttemptIsOnRecord'
  BY <1>1, <1>2, <1>4 DEF IInv, InHand, AttemptIsOnRecord, SameElsewhere, At, RecordInvestmentsAttempt
<1> QED
  BY <1>3, <1>6, <1>7, <1>8, <1>9 DEF IInv

LEMMA PullHoldingsStep == IInv /\ PullHoldings => IInv'
<1> SUFFICES ASSUME IInv, PullHoldings PROVE IInv'
  OBVIOUS
<1> USE SyncRunAssumption
<1>1. cmd.phase \in Working /\ cmd.at \in Connections
  BY AtIsConnection DEF PullHoldings, At, Working, Phases
<1>2. /\ cmd'.at = cmd.at
      /\ tried' = tried /\ invError' = invError /\ invSuccess' = invSuccess
      /\ outcome' \in [Connections -> Outcome] /\ \A d \in Connections : d # cmd.at => outcome'[d] = outcome[d]
      /\ \/ cmd'.phase = "window" /\ outcome' = outcome
         \/ cmd'.phase = "degrade" /\ outcome' = outcome
         \/ /\ cmd'.phase = "invFailed"
            /\ outcome'[cmd.at].invError /\ outcome'[cmd.at].degraded = outcome[cmd.at].degraded
            /\ outcome'[cmd.at].unfinished = outcome[cmd.at].unfinished
  BY <1>1, MarkFailed, MarkShort DEF IInv, TypeOK, PullHoldings, At, Goto, Refused, institutions, store, InvestmentsCall, Unlucky
<1>3. TypeOK'
  <2>1. cmd' \in [phase : Phases, at : Nat, attempt : 0 .. MaxAttempts] /\ (N > 0 => cmd'.at \in Connections)
    BY <1>1 DEF IInv, TypeOK, Phases, PullHoldings, At, Goto, Refused, institutions, store, InvestmentsCall, Unlucky
  <2>2. outcome' \in [Connections -> Outcome]
    BY <1>1, <1>2 DEF IInv, TypeOK, Outcome
  <2>3. events' \in 0 .. MaxEvents
    BY DEF IInv, TypeOK, PullHoldings, At, Goto, Refused, institutions, store, InvestmentsCall, Unlucky
  <2> QED
    BY <1>1, <2>1, <2>2, <2>3 DEF IInv, TypeOK, Stamps, PullHoldings, At, Goto, Refused, institutions, store, InvestmentsCall, Unlucky
<1>4. SameElsewhere /\ exit' = exit
  BY <1>1, <1>2 DEF IInv, TypeOK, SameElsewhere, PullHoldings, At, Goto, Refused, institutions, store, InvestmentsCall, Unlucky
<1>5. PICK q \in Working : cmd' = [cmd EXCEPT !.phase = q]
  BY <1>1 DEF Working, Phases, PullHoldings, At, Goto, Refused, institutions, store, InvestmentsCall, Unlucky
<1>6. CommandShape' /\ Untouched' /\ AllSettled' /\ ExitIsOfOutcome'
  BY <1>1, <1>3, <1>4, <1>5, SameConnection
<1>7. InHand'
  BY <1>1, <1>2 DEF IInv, InHand, DomainSettled, Working, At, PullHoldings
<1>8. OnlyCapableFail'
  BY <1>1, <1>2, <1>4 DEF IInv, InHand, OnlyCapableFail, SameElsewhere, At, PullHoldings
<1>9. AttemptIsOnRecord'
  BY <1>1, <1>2, <1>4 DEF IInv, InHand, AttemptIsOnRecord, SameElsewhere, At, PullHoldings
<1> QED
  BY <1>3, <1>6, <1>7, <1>8, <1>9 DEF IInv

LEMMA PullWindowStep == IInv /\ PullWindow => IInv'
<1> SUFFICES ASSUME IInv, PullWindow PROVE IInv'
  OBVIOUS
<1> USE SyncRunAssumption
<1>1. cmd.phase \in Working /\ cmd.at \in Connections
  BY AtIsConnection DEF PullWindow, At, Working, Phases
<1>2. /\ cmd'.at = cmd.at
      /\ tried' = tried /\ invError' = invError /\ invSuccess' = invSuccess
      /\ outcome' \in [Connections -> Outcome] /\ \A d \in Connections : d # cmd.at => outcome'[d] = outcome[d]
      /\ \/ cmd'.phase = "invDone" /\ outcome' = outcome
         \/ /\ cmd'.phase = "invDone"
            /\ outcome'[cmd.at].windowShort /\ outcome'[cmd.at].degraded = outcome[cmd.at].degraded
            /\ outcome'[cmd.at].unfinished = outcome[cmd.at].unfinished /\ outcome'[cmd.at].invError = outcome[cmd.at].invError
         \/ cmd'.phase = "degrade" /\ outcome' = outcome
         \/ /\ cmd'.phase = "invFailed"
            /\ outcome'[cmd.at].invError /\ outcome'[cmd.at].degraded = outcome[cmd.at].degraded
            /\ outcome'[cmd.at].unfinished = outcome[cmd.at].unfinished
  BY <1>1, MarkFailed, MarkShort DEF IInv, TypeOK, PullWindow, At, Goto, Refused, institutions, store, InvestmentsCall, Unlucky
<1>3. TypeOK'
  <2>1. cmd' \in [phase : Phases, at : Nat, attempt : 0 .. MaxAttempts] /\ (N > 0 => cmd'.at \in Connections)
    BY <1>1 DEF IInv, TypeOK, Phases, PullWindow, At, Goto, Refused, institutions, store, InvestmentsCall, Unlucky
  <2>2. outcome' \in [Connections -> Outcome]
    BY <1>1, <1>2 DEF IInv, TypeOK, Outcome
  <2>3. events' \in 0 .. MaxEvents
    BY DEF IInv, TypeOK, PullWindow, At, Goto, Refused, institutions, store, InvestmentsCall, Unlucky
  <2> QED
    BY <1>1, <2>1, <2>2, <2>3 DEF IInv, TypeOK, Stamps, PullWindow, At, Goto, Refused, institutions, store, InvestmentsCall, Unlucky
<1>4. SameElsewhere /\ exit' = exit
  BY <1>1, <1>2 DEF IInv, TypeOK, SameElsewhere, PullWindow, At, Goto, Refused, institutions, store, InvestmentsCall, Unlucky
<1>5. PICK q \in Working : cmd' = [cmd EXCEPT !.phase = q]
  BY <1>1 DEF Working, Phases, PullWindow, At, Goto, Refused, institutions, store, InvestmentsCall, Unlucky
<1>6. CommandShape' /\ Untouched' /\ AllSettled' /\ ExitIsOfOutcome'
  BY <1>1, <1>3, <1>4, <1>5, SameConnection
<1>7. InHand'
  BY <1>1, <1>2 DEF IInv, InHand, DomainSettled, Working, At, PullWindow
<1>8. OnlyCapableFail'
  BY <1>1, <1>2, <1>4 DEF IInv, InHand, OnlyCapableFail, SameElsewhere, At, PullWindow
<1>9. AttemptIsOnRecord'
  BY <1>1, <1>2, <1>4 DEF IInv, InHand, AttemptIsOnRecord, SameElsewhere, At, PullWindow
<1> QED
  BY <1>3, <1>6, <1>7, <1>8, <1>9 DEF IInv

LEMMA RecordInvestmentsFailureStep == IInv /\ RecordInvestmentsFailure => IInv'
<1> SUFFICES ASSUME IInv, RecordInvestmentsFailure PROVE IInv'
  OBVIOUS
<1> USE SyncRunAssumption
<1>1. cmd.phase \in Working /\ cmd.at \in Connections
  BY AtIsConnection DEF RecordInvestmentsFailure, At, Working, Phases
<1>2. /\ cmd'.at = cmd.at
      /\ outcome' = outcome
      /\ tried' = tried /\ invSuccess' = invSuccess
      /\ invError \in [Connections -> BOOLEAN]
      /\ \/ cmd'.phase = "txAttempt" /\ invError' = [invError EXCEPT ![cmd.at] = TRUE]
         \/ cmd'.phase = "degrade" /\ invError' = invError
  BY <1>1 DEF IInv, TypeOK, RecordInvestmentsFailure, At, Goto, Refused, institutions, store
<1>3. TypeOK'
  <2>1. cmd' \in [phase : Phases, at : Nat, attempt : 0 .. MaxAttempts] /\ (N > 0 => cmd'.at \in Connections)
    BY <1>1 DEF IInv, TypeOK, Phases, RecordInvestmentsFailure, At, Goto, Refused, institutions, store
  <2>2. outcome' \in [Connections -> Outcome]
    BY <1>1, <1>2 DEF IInv, TypeOK, Outcome
  <2>3. events' \in 0 .. MaxEvents
    BY DEF IInv, TypeOK, RecordInvestmentsFailure, At, Goto, Refused, institutions, store
  <2> QED
    BY <1>1, <2>1, <2>2, <2>3 DEF IInv, TypeOK, Stamps, RecordInvestmentsFailure, At, Goto, Refused, institutions, store
<1>4. SameElsewhere /\ exit' = exit
  BY <1>1, <1>2 DEF IInv, TypeOK, SameElsewhere, RecordInvestmentsFailure, At, Goto, Refused, institutions, store
<1>5. PICK q \in Working : cmd' = [cmd EXCEPT !.phase = q]
  BY <1>1 DEF Working, Phases, RecordInvestmentsFailure, At, Goto, Refused, institutions, store
<1>6. CommandShape' /\ Untouched' /\ AllSettled' /\ ExitIsOfOutcome'
  BY <1>1, <1>3, <1>4, <1>5, SameConnection
<1>7. InHand'
  BY <1>1, <1>2 DEF IInv, InHand, DomainSettled, Working, At, RecordInvestmentsFailure
<1>8. OnlyCapableFail'
  BY <1>1, <1>2, <1>4 DEF IInv, InHand, OnlyCapableFail, SameElsewhere, At, RecordInvestmentsFailure
<1>9. AttemptIsOnRecord'
  BY <1>1, <1>2, <1>4 DEF IInv, InHand, AttemptIsOnRecord, SameElsewhere, At, RecordInvestmentsFailure
<1> QED
  BY <1>3, <1>6, <1>7, <1>8, <1>9 DEF IInv

LEMMA RecordInvestmentsStep == IInv /\ RecordInvestments => IInv'
<1> SUFFICES ASSUME IInv, RecordInvestments PROVE IInv'
  OBVIOUS
<1> USE SyncRunAssumption
<1>1. cmd.phase \in Working /\ cmd.at \in Connections
  BY AtIsConnection DEF RecordInvestments, At, Working, Phases
<1>2. /\ cmd'.at = cmd.at
      /\ outcome' = outcome
      /\ tried' = tried
      /\ invError' \in [Connections -> BOOLEAN] /\ invSuccess' \in [Connections -> Stamps]
      /\ \A d \in Connections : d # cmd.at => invError'[d] = invError[d] /\ invSuccess'[d] = invSuccess[d]
      /\ \/ /\ cmd'.phase = "txAttempt" /\ invError'[cmd.at] = FALSE /\ outcome[cmd.at].invError = FALSE
            /\ ~ outcome[cmd.at].windowShort => invSuccess'[cmd.at] = "now"
         \/ cmd'.phase = "degrade" /\ invError' = invError /\ invSuccess' = invSuccess
  <2>1. /\ cmd'.at = cmd.at /\ outcome' = outcome /\ tried' = tried
        /\ invError \in [Connections -> BOOLEAN] /\ invSuccess \in [Connections -> Stamps]
        /\ "now" \in Stamps /\ outcome[cmd.at].invError \in BOOLEAN
    BY <1>1 DEF IInv, TypeOK, Outcome, Stamps, RecordInvestments, Goto, store
  <2>2. ~ outcome[cmd.at].invError
    BY <1>1 DEF IInv, InHand, RecordInvestments, At
  <2>3. CASE Refused
    BY <2>1, <2>3 DEF IInv, TypeOK, RecordInvestments, Goto
  <2>4. CASE ~ Refused
    <3>1. cmd'.phase = "txAttempt" /\ invError' = [invError EXCEPT ![cmd.at] = FALSE]
      BY <2>4 DEF IInv, TypeOK, RecordInvestments, Goto
    <3>2. \/ outcome[cmd.at].windowShort /\ invSuccess' = invSuccess
          \/ ~ outcome[cmd.at].windowShort /\ invSuccess' = [invSuccess EXCEPT ![cmd.at] = "now"]
      BY <2>4 DEF RecordInvestments
    <3> QED
      BY <1>1, <2>1, <2>2, <3>1, <3>2
  <2> QED
    BY <2>3, <2>4
<1>3. TypeOK'
  <2>1. cmd' \in [phase : Phases, at : Nat, attempt : 0 .. MaxAttempts] /\ (N > 0 => cmd'.at \in Connections)
    BY <1>1 DEF IInv, TypeOK, Phases, RecordInvestments, At, Goto, Refused, institutions, store
  <2>2. outcome' \in [Connections -> Outcome]
    BY <1>1, <1>2 DEF IInv, TypeOK, Outcome
  <2>3. events' \in 0 .. MaxEvents
    BY DEF IInv, TypeOK, RecordInvestments, At, Goto, Refused, institutions, store
  <2> QED
    BY <1>1, <2>1, <2>2, <2>3 DEF IInv, TypeOK, Stamps, RecordInvestments, At, Goto, Refused, institutions, store
<1>4. SameElsewhere /\ exit' = exit
  BY <1>1, <1>2 DEF IInv, TypeOK, SameElsewhere, RecordInvestments, At, Goto, Refused, institutions, store
<1>5. PICK q \in Working : cmd' = [cmd EXCEPT !.phase = q]
  BY <1>1 DEF Working, Phases, RecordInvestments, At, Goto, Refused, institutions, store
<1>6. CommandShape' /\ Untouched' /\ AllSettled' /\ ExitIsOfOutcome'
  BY <1>1, <1>3, <1>4, <1>5, SameConnection
<1>7. InHand'
  BY <1>1, <1>2 DEF IInv, InHand, DomainSettled, Working, At, RecordInvestments
<1>8. OnlyCapableFail'
  BY <1>1, <1>2, <1>4 DEF IInv, InHand, OnlyCapableFail, SameElsewhere, At, RecordInvestments
<1>9. AttemptIsOnRecord'
  BY <1>1, <1>2, <1>4 DEF IInv, InHand, AttemptIsOnRecord, SameElsewhere, At, RecordInvestments
<1> QED
  BY <1>3, <1>6, <1>7, <1>8, <1>9 DEF IInv

LEMMA RecordTransactionsAttemptStep == IInv /\ RecordTransactionsAttempt => IInv'
<1> SUFFICES ASSUME IInv, RecordTransactionsAttempt PROVE IInv'
  OBVIOUS
<1> USE SyncRunAssumption
<1>1. cmd.phase \in Working /\ cmd.at \in Connections
  BY AtIsConnection DEF RecordTransactionsAttempt, At, Working, Phases
<1>2. /\ cmd'.at = cmd.at
      /\ outcome' = outcome
      /\ tried' = tried /\ invError' = invError /\ invSuccess' = invSuccess
      /\ cmd'.phase \in {"pages", "degrade"}
  BY <1>1 DEF IInv, TypeOK, RecordTransactionsAttempt, At, Goto, Refused, institutions, store
<1>3. TypeOK'
  <2>1. cmd' \in [phase : Phases, at : Nat, attempt : 0 .. MaxAttempts] /\ (N > 0 => cmd'.at \in Connections)
    BY <1>1 DEF IInv, TypeOK, Phases, RecordTransactionsAttempt, At, Goto, Refused, institutions, store
  <2>2. outcome' \in [Connections -> Outcome]
    BY <1>1, <1>2 DEF IInv, TypeOK, Outcome
  <2>3. events' \in 0 .. MaxEvents
    BY DEF IInv, TypeOK, RecordTransactionsAttempt, At, Goto, Refused, institutions, store
  <2> QED
    BY <1>1, <2>1, <2>2, <2>3 DEF IInv, TypeOK, Stamps, RecordTransactionsAttempt, At, Goto, Refused, institutions, store
<1>4. SameElsewhere /\ exit' = exit
  BY <1>1, <1>2 DEF IInv, TypeOK, SameElsewhere, RecordTransactionsAttempt, At, Goto, Refused, institutions, store
<1>5. PICK q \in Working : cmd' = [cmd EXCEPT !.phase = q]
  BY <1>1 DEF Working, Phases, RecordTransactionsAttempt, At, Goto, Refused, institutions, store
<1>6. CommandShape' /\ Untouched' /\ AllSettled' /\ ExitIsOfOutcome'
  BY <1>1, <1>3, <1>4, <1>5, SameConnection
<1>7. InHand'
  BY <1>1, <1>2 DEF IInv, InHand, DomainSettled, Working, At, RecordTransactionsAttempt
<1>8. OnlyCapableFail'
  BY <1>1, <1>2, <1>4 DEF IInv, InHand, OnlyCapableFail, SameElsewhere, At, RecordTransactionsAttempt
<1>9. AttemptIsOnRecord'
  BY <1>1, <1>2, <1>4 DEF IInv, InHand, AttemptIsOnRecord, SameElsewhere, At, RecordTransactionsAttempt
<1> QED
  BY <1>3, <1>6, <1>7, <1>8, <1>9 DEF IInv

LEMMA SetUnfinished ==
  ASSUME outcome \in [Connections -> Outcome], NEW c \in Connections, NEW b \in BOOLEAN,
         outcome' = [outcome EXCEPT ![c].unfinished = b]
  PROVE  /\ outcome' \in [Connections -> Outcome]
         /\ \A d \in Connections : d # c => outcome'[d] = outcome[d]
         /\ outcome'[c].unfinished = b
         /\ outcome'[c].degraded = outcome[c].degraded
         /\ outcome'[c].invError = outcome[c].invError
         /\ outcome'[c].windowShort = outcome[c].windowShort
BY DEF Outcome

LEMMA PageLoopStep == IInv /\ PageLoop => IInv'
<1> SUFFICES ASSUME IInv, PageLoop PROVE IInv'
  OBVIOUS
<1> USE SyncRunAssumption
<1>1. cmd.phase \in Working /\ cmd.at \in Connections
  BY AtIsConnection DEF PageLoop, At, Working, Phases
<1>2. /\ status' = status /\ success' = success /\ granted' = granted
      /\ tried' = tried /\ invError' = invError /\ invSuccess' = invSuccess
      /\ exit' = exit /\ lock' = lock /\ backups' = backups
      /\ outcome' \in [Connections -> Outcome]
      /\ \A c \in Connections : c # cmd.at => outcome'[c] = outcome[c]
      /\ outcome'[cmd.at].degraded = outcome[cmd.at].degraded
      /\ outcome'[cmd.at].invError = outcome[cmd.at].invError
      /\ outcome'[cmd.at].windowShort = outcome[cmd.at].windowShort
  <2>1. CASE outcome' = outcome
    BY <1>1, <2>1 DEF IInv, TypeOK, PageLoop, store
  <2>2. CASE \E b \in BOOLEAN : outcome' = [outcome EXCEPT ![cmd.at].unfinished = b]
    <3>1. PICK b \in BOOLEAN : outcome' = [outcome EXCEPT ![cmd.at].unfinished = b]
      BY <2>2
    <3>2. outcome \in [Connections -> Outcome]
      BY DEF IInv, TypeOK
    <3> QED
      BY <1>1, <3>1, <3>2, SetUnfinished DEF PageLoop, store
  <2> QED
    BY <2>1, <2>2 DEF PageLoop
<1>a. \/ NextConnection /\ outcome' = outcome
      \/ cmd' = [cmd EXCEPT !.phase = "degrade"] /\ outcome' = outcome
      \/ cmd' = [cmd EXCEPT !.phase = "granted"]
      \/ cmd' = [cmd EXCEPT !.phase = "stamp"]
  BY DEF PageLoop, Goto
<1>3. TypeOK'
  <2>1. cmd' \in [phase : Phases, at : Nat, attempt : 0 .. MaxAttempts] /\ (N > 0 => cmd'.at \in Connections)
    <3>1. CommandTyped
      BY DEF IInv, TypeOK, CommandTyped
    <3>2. CommandTyped'
      BY <1>1, <1>a, <3>1, NextTyped, GotoTyped DEF Phases
    <3> QED
      BY <3>2 DEF CommandTyped
  <2>2. outcome' \in [Connections -> Outcome]
    BY <1>1, <1>2 DEF IInv, TypeOK, Outcome
  <2>3. events' \in 0 .. MaxEvents /\ backlog' \in [Connections -> 0 .. MaxBacklog]
    BY <1>1 DEF IInv, TypeOK, PageLoop, Unlucky, NextConnection, At, Goto, Refused, institutions, store
  <2>4. status' \in [Connections -> {"active", "degraded"}] /\ success' \in [Connections -> Stamps]
    BY <1>1, <1>2 DEF IInv, TypeOK, Stamps
  <2> QED
    BY <1>1, <1>2, <2>1, <2>2, <2>3, <2>4 DEF IInv, TypeOK, PageLoop, Unlucky, NextConnection, At, Goto, Refused, institutions, store
<1>4. SameElsewhere
  BY <1>2 DEF SameElsewhere
<1>b. cmd'.phase \in {"accounts", "report", "degrade", "granted", "stamp"}
  BY <1>a DEF IInv, TypeOK, NextConnection
<1>5. OnlyCapableFail' /\ AttemptIsOnRecord'
  <2>1. OnlyCapableFail'
    BY <1>1, <1>2 DEF IInv, OnlyCapableFail
  <2>2. AttemptIsOnRecord'
    BY <1>2, <1>b DEF IInv, AttemptIsOnRecord
  <2> QED
    BY <2>1, <2>2
<1>6. CASE NextConnection /\ outcome' = outcome
  <2>1. outcome[cmd.at].unfinished /\ ~ outcome[cmd.at].degraded
        /\ (cmd.at \in Capable => DomainSettled(cmd.at))
    BY <1>1 DEF IInv, InHand, PageLoop, At
  <2>2. PICK h : h = cmd.at
    OBVIOUS
  <2>3. Settled(h)'
    BY <1>2, <1>6, <2>1, <2>2 DEF Settled, DomainSettled
  <2> QED
    BY <1>1, <1>2, <1>3, <1>4, <1>5, <1>6, <2>2, <2>3, NextInLine DEF IInv
<1>7. CASE \E q \in {"degrade", "granted", "stamp"} : cmd' = [cmd EXCEPT !.phase = q]
  <2>1. PICK q \in {"degrade", "granted", "stamp"} : cmd' = [cmd EXCEPT !.phase = q]
    BY <1>7
  <2>2. q \in Working
    BY DEF Working, Phases
  <2>3. CommandShape' /\ Untouched' /\ AllSettled' /\ ExitIsOfOutcome'
    BY <1>1, <1>2, <1>3, <1>4, <2>1, <2>2, SameConnection
  <2>4. cmd'.at = cmd.at /\ cmd'.phase = q
    BY <2>1 DEF IInv, TypeOK
  <2>5. q = "degrade" => outcome' = outcome
    <3>1. SUFFICES ASSUME q = "degrade" PROVE outcome' = outcome
      OBVIOUS
    <3>2. cmd'.phase = "degrade"
      BY <2>4, <3>1
    <3> QED
      BY <1>a, <3>2 DEF IInv, TypeOK
  <2>6. InHand'
    BY <1>1, <1>2, <2>4, <2>5 DEF IInv, InHand, DomainSettled, PageLoop, At
  <2> QED
    BY <1>3, <1>5, <2>3, <2>6 DEF IInv
<1> QED
  BY <1>6, <1>7, <1>a

\* The run ends on an error: nothing is claimed of the connections then.
LEMMA EscapeStep ==
  ASSUME IInv, Escape, TypeOK', OnlyCapableFail'
  PROVE  IInv'
<1>1. cmd'.phase = "idle" /\ exit' = "error" /\ cmd'.at = cmd.at
  BY DEF Escape, Goto, IInv, TypeOK
<1>2. tried' = tried /\ invError' = invError /\ invSuccess' = invSuccess
  BY DEF Escape, store
<1>3. CommandShape' /\ InHand' /\ Untouched' /\ AllSettled' /\ ExitIsOfOutcome'
  BY <1>1 DEF CommandShape, InHand, Untouched, AllSettled, Finished, ExitIsOfOutcome, Working
<1>4. AttemptIsOnRecord'
  BY <1>1, <1>2 DEF IInv, AttemptIsOnRecord
<1> QED
  BY <1>3, <1>4 DEF IInv

LEMMA EscapeTyped == ASSUME IInv, Escape PROVE CommandTyped' /\ exit' = "error" /\ UNCHANGED store
<1>1. CommandTyped /\ "idle" \in Phases
  BY DEF IInv, TypeOK, CommandTyped, Phases
<1> QED
  BY <1>1, GotoTyped DEF Escape, Goto

LEMMA RecordGrantedWindowStep == IInv /\ RecordGrantedWindow => IInv'
<1> SUFFICES ASSUME IInv, RecordGrantedWindow PROVE IInv'
  OBVIOUS
<1> USE SyncRunAssumption
<1>1. cmd.phase = "granted" /\ cmd.phase \in Working /\ cmd.at \in Connections
  BY AtIsConnection DEF RecordGrantedWindow, At, Working, Phases
<1>2. /\ UNCHANGED <<institutions, lock, outcome, events, backups>>
      /\ UNCHANGED <<status, success, tried, invError, invSuccess>>
      /\ granted' \in [Connections -> BOOLEAN]
  BY <1>1 DEF IInv, TypeOK, RecordGrantedWindow, Escape, store
<1>3. Escape \/ (cmd' = [cmd EXCEPT !.phase = "stamp"] /\ exit' = exit)
  BY DEF RecordGrantedWindow, Goto
<1>4. CommandTyped'
  <2>1. CommandTyped /\ "stamp" \in Phases
    BY DEF IInv, TypeOK, CommandTyped, Phases
  <2> QED
    BY <1>3, <2>1, EscapeTyped, GotoTyped
<1>5. exit' \in {"none", "ok", "again", "unhealthy", "error"}
  BY <1>3 DEF IInv, TypeOK, Escape
<1>6. TypeOK'
  BY <1>2, <1>4, <1>5 DEF IInv, TypeOK, CommandTyped, institutions
<1>7. CASE Escape
  BY <1>2, <1>6, <1>7, EscapeStep DEF IInv, OnlyCapableFail
<1>8. CASE cmd' = [cmd EXCEPT !.phase = "stamp"] /\ exit' = exit
  <2>1. cmd'.phase = "stamp" /\ cmd'.at = cmd.at /\ "stamp" \in Working
    BY <1>8 DEF IInv, TypeOK, Working, Phases
  <2>2. SameElsewhere
    BY <1>2 DEF SameElsewhere
  <2>3. CommandShape' /\ Untouched' /\ AllSettled' /\ ExitIsOfOutcome'
    BY <1>1, <1>6, <1>8, <2>1, <2>2, SameConnection
  <2>4. InHand' /\ OnlyCapableFail' /\ AttemptIsOnRecord'
    BY <1>1, <1>2, <2>1 DEF IInv, InHand, DomainSettled, OnlyCapableFail, AttemptIsOnRecord
  <2> QED
    BY <1>6, <2>3, <2>4 DEF IInv
<1> QED
  BY <1>3, <1>7, <1>8

LEMMA RecordSuccessStep == IInv /\ RecordSuccess => IInv'
<1> SUFFICES ASSUME IInv, RecordSuccess PROVE IInv'
  OBVIOUS
<1> USE SyncRunAssumption
<1>1. cmd.phase = "stamp" /\ cmd.phase \in Working /\ cmd.at \in Connections
  BY AtIsConnection DEF RecordSuccess, At, Working, Phases
<1>2. UNCHANGED <<institutions, lock, outcome, events, backups, granted, tried, invError, invSuccess>>
  BY DEF RecordSuccess, Escape, store
<1>3. OnlyCapableFail'
  BY <1>2 DEF IInv, OnlyCapableFail
<1>4. CASE Escape
  <2>1. TypeOK'
    BY <1>2, <1>4, EscapeTyped DEF IInv, TypeOK, CommandTyped, institutions, store
  <2> QED
    BY <1>3, <1>4, <2>1, EscapeStep
<1>5. CASE ~ Escape
  <2>1. NextConnection /\ exit' = exit /\ status' = [status EXCEPT ![cmd.at] = "active"]
    BY <1>5 DEF RecordSuccess
  <2>2. \/ outcome[cmd.at].unfinished /\ success' = success
        \/ ~ outcome[cmd.at].unfinished /\ success' = [success EXCEPT ![cmd.at] = "now"]
    BY <1>5 DEF RecordSuccess
  <2>3. /\ status' \in [Connections -> {"active", "degraded"}] /\ status'[cmd.at] = "active"
        /\ \A d \in Connections : d # cmd.at => status'[d] = status[d]
    BY <1>1, <2>1 DEF IInv, TypeOK
  <2>4. /\ success' \in [Connections -> Stamps]
        /\ ~ outcome[cmd.at].unfinished => success'[cmd.at] = "now"
        /\ \A d \in Connections : d # cmd.at => success'[d] = success[d]
    BY <1>1, <2>2 DEF IInv, TypeOK, Stamps
  <2>5. CommandTyped'
    BY <1>1, <2>1, NextTyped DEF IInv, TypeOK, CommandTyped
  <2>6. TypeOK'
    BY <1>2, <2>1, <2>3, <2>4, <2>5 DEF IInv, TypeOK, CommandTyped, institutions
  <2>7. SameElsewhere
    BY <1>2, <2>3, <2>4 DEF SameElsewhere
  <2>8. PICK h : h = cmd.at
    OBVIOUS
  <2>9. Settled(h)'
    <3>1. ~ outcome[h].degraded /\ (h \in Capable => DomainSettled(h))
      BY <1>1, <2>8 DEF IInv, InHand
    <3> QED
      BY <1>2, <2>3, <2>4, <2>8, <3>1 DEF Settled, DomainSettled
  <2>10. CommandShape' /\ InHand' /\ Untouched' /\ AllSettled' /\ ExitIsOfOutcome'
    BY <1>1, <2>1, <2>6, <2>7, <2>8, <2>9, NextInLine
  <2>11. AttemptIsOnRecord'
    <3>1. cmd'.phase \in {"accounts", "report"}
      BY <2>1 DEF IInv, TypeOK, NextConnection
    <3> QED
      BY <1>2, <3>1 DEF IInv, AttemptIsOnRecord
  <2> QED
    BY <1>3, <2>6, <2>10, <2>11 DEF IInv
<1> QED
  BY <1>4, <1>5

LEMMA DegradeStep == IInv /\ Degrade => IInv'
<1> SUFFICES ASSUME IInv, Degrade PROVE IInv'
  OBVIOUS
<1> USE SyncRunAssumption
<1>1. cmd.phase = "degrade" /\ cmd.phase \in Working /\ cmd.at \in Connections
  BY AtIsConnection DEF Degrade, At, Working, Phases
<1>2. UNCHANGED <<institutions, lock, events, backups, success, granted, tried, invError, invSuccess>>
  BY DEF Degrade, Escape, store
<1>3. /\ outcome' \in [Connections -> Outcome]
      /\ \A d \in Connections : d # cmd.at => outcome'[d] = outcome[d]
      /\ outcome'[cmd.at].degraded /\ outcome'[cmd.at].invError = outcome[cmd.at].invError
  BY <1>1, MarkDegraded DEF IInv, TypeOK, Degrade
<1>4. OnlyCapableFail'
  BY <1>1, <1>3 DEF IInv, OnlyCapableFail
<1>5. CASE Escape
  <2>1. TypeOK'
    BY <1>2, <1>3, <1>5, EscapeTyped DEF IInv, TypeOK, CommandTyped, institutions, store
  <2> QED
    BY <1>4, <1>5, <2>1, EscapeStep
<1>6. CASE ~ Escape
  <2>1. NextConnection /\ exit' = exit /\ status' = [status EXCEPT ![cmd.at] = "degraded"]
    BY <1>6 DEF Degrade
  <2>2. /\ status' \in [Connections -> {"active", "degraded"}] /\ status'[cmd.at] = "degraded"
        /\ \A d \in Connections : d # cmd.at => status'[d] = status[d]
    BY <1>1, <2>1 DEF IInv, TypeOK
  <2>3. CommandTyped'
    BY <1>1, <2>1, NextTyped DEF IInv, TypeOK, CommandTyped
  <2>4. TypeOK'
    BY <1>2, <1>3, <2>1, <2>2, <2>3 DEF IInv, TypeOK, CommandTyped, institutions
  <2>5. SameElsewhere
    BY <1>2, <1>3, <2>2 DEF SameElsewhere
  <2>6. PICK h : h = cmd.at
    OBVIOUS
  <2>7. Settled(h)'
    BY <1>3, <2>2, <2>6 DEF Settled
  <2>8. CommandShape' /\ InHand' /\ Untouched' /\ AllSettled' /\ ExitIsOfOutcome'
    BY <1>1, <2>1, <2>4, <2>5, <2>6, <2>7, NextInLine
  <2>9. AttemptIsOnRecord'
    <3>1. cmd'.phase \in {"accounts", "report"}
      BY <2>1 DEF IInv, TypeOK, NextConnection
    <3> QED
      BY <1>2, <3>1 DEF IInv, AttemptIsOnRecord
  <2> QED
    BY <1>4, <2>4, <2>8, <2>9 DEF IInv
<1> QED
  BY <1>5, <1>6

-----------------------------------------------------------------------------
(* The command begins, ends, is repeated or dies; and what goes on around it *)

LEMMA ReportStep == IInv /\ Report => IInv'
<1> SUFFICES ASSUME IInv, Report PROVE IInv'
  OBVIOUS
<1>1. /\ UNCHANGED <<institutions, store, lock, outcome, events, backups>>
      /\ cmd.phase = "report" /\ exit = "none"
  BY DEF IInv, TypeOK, CommandShape, Report, At
<1>2. PICK q \in {"wait", "idle"} :
        /\ cmd' = [cmd EXCEPT !.phase = q]
        /\ q = "wait" => exit' = exit
        /\ q = "idle" => exit' = ExitCode
  BY DEF Report, Goto
<1>3. CommandTyped' /\ cmd'.phase = q
  BY <1>2, GotoTyped DEF IInv, TypeOK, CommandTyped, Phases
<1>4. ExitCode \in {"ok", "again", "unhealthy"} /\ ExitCode' = ExitCode
  BY <1>1 DEF ExitCode
<1>5. TypeOK'
  BY <1>1, <1>2, <1>3, <1>4 DEF IInv, TypeOK, CommandTyped, institutions, store
<1>6. Finished = Connections /\ Finished' = Connections
  BY <1>1, <1>2, <1>3, <1>4 DEF Finished, Working
<1>7. AllSettled'
  BY <1>1, <1>6 DEF IInv, AllSettled, Settled, DomainSettled, store
<1>8. CommandShape' /\ InHand' /\ Untouched' /\ ExitIsOfOutcome'
  BY <1>1, <1>2, <1>3, <1>4 DEF CommandShape, InHand, Untouched, ExitIsOfOutcome, Working
<1>9. OnlyCapableFail' /\ AttemptIsOnRecord'
  BY <1>1, <1>3 DEF IInv, OnlyCapableFail, AttemptIsOnRecord, store
<1> QED
  BY <1>5, <1>7, <1>8, <1>9 DEF IInv

LEMMA StartStep ==
  ASSUME IInv, NEW k \in 1 .. MaxAttempts, StartAttempt(k)
  PROVE  IInv'
<1> USE SyncRunAssumption DEF StartAttempt
<1>1. /\ cmd'.phase = (IF N = 0 THEN "report" ELSE "accounts") /\ cmd'.at = 1
      /\ cmd' \in [phase : Phases, at : Nat, attempt : 0 .. MaxAttempts]
  BY DEF Phases
<1>2. \A c \in Connections : outcome'[c] = NoOutcome
  OBVIOUS
<1>3. /\ success' \in [Connections -> Stamps] /\ invSuccess' \in [Connections -> Stamps]
      /\ \A c \in Connections : invSuccess'[c] # "never" => invSuccess[c] # "never"
  BY DEF Aged, Stamps
<1>4. TypeOK'
  <2>1. outcome' \in [Connections -> Outcome]
    BY DEF Outcome, NoOutcome
  <2>2. N > 0 => cmd'.at \in Connections
    BY <1>1 DEF Connections
  <2> QED
    BY <1>1, <1>3, <2>1, <2>2 DEF IInv, TypeOK, institutions
<1>5. CommandShape' /\ InHand' /\ Untouched'
  <2>1. N > 0 => 1 \in Connections
    BY DEF Connections
  <2>2. cmd'.phase \in Working => N > 0
    BY <1>1 DEF Working
  <2> QED
    BY <1>1, <1>2, <2>1, <2>2 DEF CommandShape, InHand, Untouched, NoOutcome, Working
<1>6. Finished' = {}
  BY <1>1 DEF Finished, Working, Phases, Connections
<1>7. AllSettled' /\ ExitIsOfOutcome' /\ OnlyCapableFail'
  BY <1>2, <1>6 DEF AllSettled, ExitIsOfOutcome, OnlyCapableFail, NoOutcome
<1>8. AttemptIsOnRecord'
  BY <1>1, <1>3 DEF IInv, AttemptIsOnRecord
<1> QED
  BY <1>4, <1>5, <1>7, <1>8 DEF IInv

LEMMA CrashStep == IInv /\ Crash => IInv'
<1> SUFFICES ASSUME IInv, Crash PROVE IInv'
  OBVIOUS
<1>1. /\ UNCHANGED <<institutions, store, lock, outcome, exit, backups>>
      /\ exit = "none" /\ cmd' = [cmd EXCEPT !.phase = "idle"]
  BY DEF IInv, CommandShape, Crash, At, Goto
<1>2. CommandTyped' /\ cmd'.phase = "idle"
  BY <1>1, GotoTyped DEF IInv, TypeOK, CommandTyped, Phases
<1>3. events' \in 0 .. MaxEvents
  BY SyncRunAssumption DEF IInv, TypeOK, Crash
<1>4. TypeOK'
  BY <1>1, <1>2, <1>3 DEF IInv, TypeOK, CommandTyped, institutions, store
<1>5. CommandShape' /\ InHand' /\ Untouched' /\ AllSettled' /\ ExitIsOfOutcome'
  BY <1>1, <1>2 DEF CommandShape, InHand, Untouched, AllSettled, Finished, ExitIsOfOutcome, Working
<1>6. OnlyCapableFail' /\ AttemptIsOnRecord'
  BY <1>1, <1>2 DEF IInv, OnlyCapableFail, AttemptIsOnRecord, store
<1> QED
  BY <1>4, <1>5, <1>6 DEF IInv

\* What the run neither reads back nor writes does not disturb it.
LEMMA AroundStep ==
  ASSUME IInv, TypeOK', UNCHANGED <<store, cmd, outcome, exit>>
  PROVE  IInv'
<1>1. CommandShape' /\ Untouched' /\ OnlyCapableFail' /\ AttemptIsOnRecord'
  BY DEF IInv, CommandShape, Untouched, OnlyCapableFail, AttemptIsOnRecord, store
<1>2. InHand'
  BY DEF IInv, InHand, DomainSettled, store
<1>3. AllSettled' /\ ExitIsOfOutcome'
  BY DEF IInv, AllSettled, Settled, DomainSettled, Finished, ExitIsOfOutcome, ExitCode, store
<1> QED
  BY <1>1, <1>2, <1>3 DEF IInv

LEMMA InstitutionStep == ASSUME IInv, NEW c \in Connections, Institution(c) PROVE IInv'
<1> USE SyncRunAssumption DEF IInv, TypeOK, store
<1>1. CASE LoginExpires(c)
  BY <1>1, AroundStep DEF LoginExpires
<1>2. CASE LoginRenewed(c)
  BY <1>2, AroundStep DEF LoginRenewed
<1>3. CASE HistoryAdvances(c)
  <2>1. history' \in [Connections -> {"none", "initial", "historical"}]
    BY <1>3 DEF HistoryAdvances
  <2> QED
    BY <1>3, <2>1, AroundStep DEF HistoryAdvances
<1> QED
  BY <1>1, <1>2, <1>3 DEF Institution

LEMMA BackupStep == ASSUME IInv, BackupTakesLock \/ BackupReleasesLock PROVE IInv'
<1>1. TypeOK'
  BY SyncRunAssumption DEF IInv, TypeOK, institutions, store, BackupTakesLock, BackupReleasesLock
<1> QED
  BY <1>1, AroundStep DEF BackupTakesLock, BackupReleasesLock

LEMMA NextIInv == IInv /\ [Next]_vars => IInv'
<1> SUFFICES ASSUME IInv, [Next]_vars PROVE IInv'
  OBVIOUS
<1>1. CASE \E c \in Connections : Institution(c)
  BY <1>1, InstitutionStep
<1>2. CASE BackupTakesLock \/ BackupReleasesLock
  BY <1>2, BackupStep
<1>3. CASE Begin
  BY <1>3, SyncRunAssumption, StartStep DEF Begin
<1>4. CASE Retry
  <2>1. cmd.attempt \in 0 .. MaxAttempts /\ MaxAttempts \in Nat \ {0}
    BY SyncRunAssumption DEF IInv, TypeOK
  <2> QED
    BY <1>4, <2>1, StartStep DEF Retry
<1>5. CASE RunStep /\ ~ Retry
  BY <1>5, RefreshAccountsStep, RecordInvestmentsAttemptStep, PullHoldingsStep, PullWindowStep,
     RecordInvestmentsFailureStep, RecordInvestmentsStep, RecordTransactionsAttemptStep,
     PageLoopStep, RecordGrantedWindowStep, RecordSuccessStep, DegradeStep, ReportStep DEF RunStep
<1>6. CASE Crash
  BY <1>6, CrashStep
<1>7. CASE UNCHANGED vars
  <2>1. TypeOK'
    BY <1>7 DEF IInv, TypeOK, vars, institutions, store
  <2> QED
    BY <1>7, <2>1, AroundStep DEF vars
<1> QED
  BY <1>1, <1>2, <1>3, <1>4, <1>5, <1>6, <1>7 DEF Next

LEMMA InvariantHolds == Spec => []IInv
BY InitIInv, NextIInv, PTL DEF Spec

-----------------------------------------------------------------------------
(***************************************************************************)
(* Every variable keeps its type.                                          *)
(***************************************************************************)
THEOREM TypeCorrect == Spec => []TypeOK
<1>1. IInv => TypeOK
  BY DEF IInv
<1> QED
  BY <1>1, InvariantHolds, PTL

(***************************************************************************)
(* However many connections fail, expire, restart or are refused the lock, *)
(* exit 0 is given only over a store in which every connection is active   *)
(* and stamped by this run (cli/sync_run.py, RunOutcome.exit_code).        *)
(***************************************************************************)
THEOREM CleanExitIsCurrent == Spec => []CleanExitMeansCurrent
<1>1. IInv => CleanExitMeansCurrent
  <2> SUFFICES ASSUME IInv, exit = "ok", NEW c \in Connections
               PROVE  /\ status[c] = "active" /\ success[c] = "now"
                      /\ c \in Capable => invSuccess[c] = "now" /\ ~ invError[c]
    BY DEF CleanExitMeansCurrent
  <2>1. cmd.phase = "idle" /\ ExitCode = "ok"
    BY DEF IInv, CommandShape, ExitIsOfOutcome
  <2>2. /\ ~ outcome[c].degraded /\ ~ outcome[c].invError
        /\ ~ outcome[c].unfinished /\ ~ outcome[c].windowShort
    BY <2>1 DEF ExitCode
  <2>3. Settled(c)
    BY <2>1 DEF IInv, AllSettled, Finished, Working
  <2> QED
    BY <2>2, <2>3 DEF Settled, DomainSettled
<1> QED
  BY <1>1, InvariantHolds, PTL

(***************************************************************************)
(* Exit 1 always has a row behind it: a degraded connection, or a domain   *)
(* with an error, is in the store for the health surface to show.          *)
(***************************************************************************)
THEOREM ProblemExitIsRecorded == Spec => []ProblemExitIsOnRecord
<1>1. IInv => ProblemExitIsOnRecord
  <2> SUFFICES ASSUME IInv, exit = "unhealthy"
               PROVE  \E c \in Connections : status[c] = "degraded" \/ invError[c]
    BY DEF ProblemExitIsOnRecord
  <2>1. cmd.phase = "idle" /\ ExitCode = "unhealthy"
    BY DEF IInv, CommandShape, ExitIsOfOutcome
  <2>2. PICK c \in Connections : outcome[c].degraded \/ outcome[c].invError
    BY <2>1 DEF ExitCode
  <2>3. Settled(c) /\ (outcome[c].invError => c \in Capable)
    BY <2>1 DEF IInv, AllSettled, OnlyCapableFail, Finished, Working
  <2> QED
    BY <2>2, <2>3 DEF Settled, DomainSettled
<1> QED
  BY <1>1, InvariantHolds, PTL

(***************************************************************************)
(* When a run has reported, the investments row of every connection it did *)
(* not give up on carries an error exactly if its last attempt failed.     *)
(***************************************************************************)
THEOREM DomainErrorIsCurrent == Spec => []DomainErrorIsOfLastAttempt
<1>1. IInv => DomainErrorIsOfLastAttempt
  BY SyncRunAssumption DEF IInv, CommandShape, DomainErrorIsOfLastAttempt, AllSettled, Finished, Settled, DomainSettled, Working
<1> QED
  BY <1>1, InvariantHolds, PTL

(***************************************************************************)
(* Wherever a run is stopped, a domain that was called, failed or answered *)
(* is on record as tried (_record_attempt comes before the first call).    *)
(***************************************************************************)
THEOREM AttemptIsAlwaysOnRecord == Spec => []AttemptIsOnRecord
<1>1. IInv => AttemptIsOnRecord
  BY DEF IInv
<1> QED
  BY <1>1, InvariantHolds, PTL
=============================================================================
