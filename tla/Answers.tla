------------------------------ MODULE Answers ------------------------------
(***************************************************************************)
(* How an answer of list_accounts, get_coverage_report or                  *)
(* get_pipeline_health is put together while other processes write.  The   *)
(* read handle is in autocommit, so every SELECT sees its own snapshot: the *)
(* roster is four statements, the connections and their domains are two,   *)
(* and a sync may commit between any of them.                              *)
(*                                                                         *)
(* The writes are those of a run, an enrollment, a retirement and a        *)
(* rebuild, each a commit of its own, in any order (SyncRun and Enrollment *)
(* have the order).  The day 0 stands for None, and the hours of           *)
(* STALE_AFTER and the days of CONSENT_EXPIRY_WARNING_DAYS are counted in  *)
(* days of the model.                                                      *)
(***************************************************************************)
EXTENDS Integers, Sequences, FiniteSets, FiniteSetsExt

CONSTANTS
    Conns,       \* connections, positive numbers
    Accounts,    \* accounts a roster may list
    MaxDay,      \* last day of a behaviour
    StaleAfter,  \* days a success stays fresh (STALE_AFTER)
    WarnDays,    \* CONSENT_EXPIRY_WARNING_DAYS
    MaxWrites    \* commits of other processes in one behaviour

ASSUME AnswersAssumption ==
    /\ Conns \subseteq Nat \ {0} /\ MaxDay \in Nat \ {0}
    /\ StaleAfter \in Nat /\ WarnDays \in Nat /\ MaxWrites \in Nat

VARIABLES
    conns,      \* connections and sync_state
    accts,      \* accounts
    recorded,   \* accounts that a feed holds a row of
    versions,   \* derivation versions among the derived rows
    today,
    writes,     \* commits so far
    ask,        \* the answer being assembled
    answer,     \* the last answer
    held,       \* what has been wrong at every instant since the question
    warranted   \* what has been wrong at some instant since the question
store == <<conns, accts, recorded, versions>>
vars == <<store, today, writes, ask, answer, held, warranted>>

Days == 0 .. MaxDay
Domains == {"transactions", "investments"}
Tools == {"list_accounts", "get_coverage_report", "get_pipeline_health"}
Connection == [state: {"absent", "live", "retired"}, status: {"active", "degraded", "retired"},
               success: Days, standing: BOOLEAN, consent: Days,
               granted: {"none", "short", "whole"}, observed: Days,
               domains: [Domains -> [present: BOOLEAN, success: Days, failed: BOOLEAN]]]
Account == [conn: Conns \cup {0}, closed: BOOLEAN, seen: Days]

NoDomain == [present |-> FALSE, success |-> 0, failed |-> FALSE]
NoConnection == [state |-> "absent", status |-> "active", success |-> 0, standing |-> FALSE,
                 consent |-> 0, granted |-> "none", observed |-> 0,
                 domains |-> [d \in Domains |-> NoDomain]]
NoAccount == [conn |-> 0, closed |-> FALSE, seen |-> 0]

Live == {c \in Conns : conns[c].state = "live"}
Known == {c \in Conns : conns[c].state # "absent"}
Present(table) == {a \in Accounts : table[a].conn # 0}

-----------------------------------------------------------------------------
(* What is wrong with the store at one instant *)

Behind(day, now) == day # 0 /\ now - day > StaleAfter

When(condition, x) == IF condition THEN {x} ELSE {}
Said(kind, conn, why) == [kind |-> kind, conn |-> conn, why |-> why]

ConnectionProblems(c) ==
    LET row == conns[c]
    IN  When(row.status = "degraded", Said("degraded", c, "status"))
        \cup When(row.standing, Said("degraded", c, "standing"))
        \cup When(row.consent # 0 /\ row.consent < today, Said("degraded", c, "consent"))
        \cup When(row.success = 0, Said("partial", c, "never"))
        \cup When(Behind(row.success, today), Said("stale", c, "success"))
        \cup When(row.granted = "short", Said("gapped", c, "granted"))

DomainProblems(c) ==
    UNION {LET row == conns[c].domains[d]
           IN  When(row.failed, Said("degraded", c, d))
               \cup When(row.present /\ row.success = 0 /\ ~row.failed, Said("partial", c, d))
               \cup When(Behind(row.success, today), Said("stale", c, d))
           : d \in Domains}

Problems ==
    (UNION {ConnectionProblems(c) \cup DomainProblems(c) : c \in Live})
    \cup {Said("derivation_version_mismatch", 0, v) : v \in versions \ {"current"}}

\* An account that is declared closed, or that the last roster read did not list.
Unlisted(a) == conns[accts[a].conn].observed > accts[a].seen
Frozen == {a \in Present(accts) : accts[a].closed \/ Unlisted(a)}

-----------------------------------------------------------------------------
(* What the other processes write *)

Commit == writes < MaxWrites /\ writes' = writes + 1
Others == UNCHANGED <<today, ask, answer>>

\* What a commit leaves wrong, for the question that is open.
Watch ==
    IF ask.tool = "none" THEN UNCHANGED <<held, warranted>>
    ELSE /\ held' = [problems |-> held.problems \cap Problems',
                     frozen |-> held.frozen \cap Frozen',
                     bare |-> held.bare \/ (Live' # {} /\ Present(accts') = {})]
         /\ warranted' = warranted \cup Problems'

Enroll(c) ==
    /\ Commit /\ conns[c].state = "absent"
    /\ conns' = [conns EXCEPT ![c].state = "live"]
    /\ UNCHANGED <<accts, recorded, versions>> /\ Others /\ Watch

\* derive_accounts in one transaction: the accounts listed, then the roster.
DeriveAccounts(c, listed) ==
    /\ Commit /\ conns[c].state = "live"
    /\ \A a \in listed : accts[a].conn \in {0, c}
    /\ accts' = [a \in Accounts |->
                    IF a \notin listed THEN accts[a]
                    ELSE [conn |-> c, closed |-> accts[a].closed,
                          seen |-> Max({accts[a].seen, today})]]
    /\ conns' = [conns EXCEPT ![c].observed = Max({@, today})]
    /\ UNCHANGED <<recorded, versions>> /\ Others /\ Watch

RecordItemStanding(c, standing, consent) ==
    /\ Commit /\ conns[c].state = "live"
    /\ <<conns[c].standing, conns[c].consent>> # <<standing, consent>>
    /\ conns' = [conns EXCEPT ![c].standing = standing, ![c].consent = consent]
    /\ UNCHANGED <<accts, recorded, versions>> /\ Others /\ Watch

DeriveRows(a) ==
    /\ Commit /\ a \in Present(accts) \ recorded
    /\ recorded' = recorded \cup {a}
    /\ UNCHANGED <<conns, accts, versions>> /\ Others /\ Watch

RecordDomain(c, d, outcome) ==
    /\ Commit /\ conns[c].state = "live"
    /\ LET row == conns[c].domains[d]
       IN  conns' = [conns EXCEPT ![c].domains[d] =
                        [present |-> TRUE,
                         success |-> IF outcome = "success" THEN today ELSE row.success,
                         failed |-> \/ outcome = "failure"
                                    \/ outcome = "attempt" /\ row.failed]]
    /\ UNCHANGED <<accts, recorded, versions>> /\ Others /\ Watch

Degrade(c) ==
    /\ Commit /\ conns[c].state = "live" /\ conns[c].status = "active"
    /\ conns' = [conns EXCEPT ![c].status = "degraded"]
    /\ UNCHANGED <<accts, recorded, versions>> /\ Others /\ Watch

RecordSuccess(c, complete) ==
    /\ Commit /\ conns[c].state = "live"
    /\ conns' = [conns EXCEPT ![c].status = "active",
                              ![c].success = IF complete THEN today ELSE @]
    /\ UNCHANGED <<accts, recorded, versions>> /\ Others /\ Watch

MeasureGranted(c, window) ==
    /\ Commit /\ conns[c].state = "live" /\ conns[c].granted = "none"
    /\ conns' = [conns EXCEPT ![c].granted = window]
    /\ UNCHANGED <<accts, recorded, versions>> /\ Others /\ Watch

MarkRetired(c) ==
    /\ Commit /\ conns[c].state = "live"
    /\ conns' = [conns EXCEPT ![c].state = "retired", ![c].status = "retired"]
    /\ accts' = [a \in Accounts |-> IF accts[a].conn = c THEN [accts[a] EXCEPT !.closed = TRUE]
                                                         ELSE accts[a]]
    /\ UNCHANGED <<recorded, versions>> /\ Others /\ Watch

\* A build of another version has derived rows, or a rebuild has replaced them.
DeriveWith(present) ==
    /\ Commit /\ recorded # {} /\ versions # present
    /\ versions' = present
    /\ UNCHANGED <<conns, accts, recorded>> /\ Others /\ Watch

NextDay ==
    /\ today < MaxDay /\ today' = today + 1
    /\ UNCHANGED <<store, writes, ask, answer>> /\ Watch

Write ==
    \/ \E c \in Conns : Enroll(c) \/ Degrade(c) \/ MarkRetired(c)
    \/ \E c \in Conns, listed \in SUBSET Accounts : DeriveAccounts(c, listed)
    \/ \E c \in Conns, standing \in BOOLEAN, consent \in Days :
          RecordItemStanding(c, standing, consent)
    \/ \E a \in Accounts : DeriveRows(a)
    \/ \E c \in Conns, d \in Domains, outcome \in {"attempt", "success", "failure", "incomplete"} :
          RecordDomain(c, d, outcome)
    \/ \E c \in Conns, complete \in BOOLEAN : RecordSuccess(c, complete)
    \/ \E c \in Conns, window \in {"short", "whole"} : MeasureGranted(c, window)
    \/ \E present \in {{"older", "current"}, {"current"}, {"current", "newer"}} : DeriveWith(present)

-----------------------------------------------------------------------------
(* The statements of an answer *)

NoRoster == [a \in Accounts |-> NoAccount]
NoAsk == [tool |-> "none", todo |-> <<>>, now |-> 0, rows |-> {}, roster |-> NoRoster,
          observed |-> <<>>, live |-> {}, lifecycle |-> <<>>, read |-> <<>>,
          holding |-> {}, caveats |-> {}]
NoAnswer == [tool |-> "none", outcome |-> "none", rows |-> {}, lifecycle |-> <<>>, caveats |-> {}]

\* The statements of each tool in their order; those whose rows only count
\* or name something are left out.
Statements(tool) ==
    CASE tool = "list_accounts" ->
            <<"accounts", "coverage", "roster", "observations", "live", "matched",
              "connections", "holding", "domains", "versions">>
      [] tool = "get_coverage_report" ->
            <<"coverage", "roster", "observations", "live", "matched",
              "connections", "holding", "domains", "versions">>
      [] tool = "get_pipeline_health" ->
            <<"versions", "health", "holding", "observations", "live", "findings",
              "connections", "domains">>

Ask(tool) ==
    /\ ask.tool = "none" /\ answer.tool = "none"
    /\ ask' = [NoAsk EXCEPT !.tool = tool, !.todo = Statements(tool)]
    /\ held' = [problems |-> Problems, frozen |-> Frozen, bare |-> Live # {} /\ Present(accts) = {}]
    /\ warranted' = Problems
    /\ UNCHANGED <<store, today, writes, answer>>

\* One statement: what it leaves behind for the rest of the answer.
Statement(name, after) ==
    /\ ask.todo # <<>> /\ Head(ask.todo) = name
    /\ ask' = [after EXCEPT !.todo = Tail(ask.todo)]
    /\ UNCHANGED <<store, today, writes, answer, held, warranted>>

ListAccounts == Statement("accounts", [ask EXCEPT !.rows = Present(accts)])
PipelineHealth == Statement("health", [ask EXCEPT !.rows = Known])

UncoveredCaveat(uncovered) ==
    {Said("accounts_without_coverage", 0,
          IF conns[accts[a].conn].success = 0 THEN "unfinished" ELSE "completed") : a \in uncovered}
AccountCoverage ==
    Statement("coverage",
        [ask EXCEPT !.rows = IF ask.tool = "list_accounts" THEN @ ELSE Present(accts),
                    !.caveats = @ \cup UncoveredCaveat(Present(accts) \ recorded)])

\* _account_lifecycle: the accounts, then the days their rosters were read.
RosterAccounts == Statement("roster", [ask EXCEPT !.roster = accts])
RosterObservations ==
    Statement("observations",
        [ask EXCEPT !.observed = [c \in {k \in Known : conns[k].observed # 0} |-> conns[c].observed]])
ConnectionsOfRoster == Statement("live", [ask EXCEPT !.live = Live \cap DOMAIN ask.observed])

\* Faulty variant of LifecycleOf: a roster that was read again says nothing.
LifecycleOfDeclared(a) == IF ask.roster[a].closed THEN "closed" ELSE "active"

LifecycleOf(a) ==
    LET row == ask.roster[a]
    IN  IF row.closed THEN "closed"
        ELSE IF row.conn \in DOMAIN ask.observed /\ row.seen < ask.observed[row.conn]
             THEN "no_longer_reported" ELSE "active"

\* A roster that listed something leaves an account seen on its day.
EmptyRosters ==
    {c \in ask.live : \A a \in Present(accts) : accts[a].conn = c => accts[a].seen # ask.observed[c]}

AccountLifecycle ==
    Statement("matched",
        LET inactive == {a \in Present(ask.roster) : LifecycleOf(a) # "active"}
            named == {ask.roster[a].conn : a \in inactive}
        IN  [ask EXCEPT !.lifecycle = [a \in Present(ask.roster) |-> LifecycleOf(a)],
                        !.roster = NoRoster, !.observed = <<>>, !.live = {},
                        !.caveats = @ \cup When(inactive # {}, Said("account_no_longer_active", 0, "roster"))
                                      \cup {Said("roster_observed_empty", c, "roster")
                                            : c \in EmptyRosters \cap named}])

\* get_pipeline_health asks only for the empty rosters of the connections it names.
EmptyRosterFindings ==
    Statement("findings",
        [ask EXCEPT !.observed = <<>>, !.live = {},
                    !.caveats = @ \cup {Said("roster_observed_empty", c, "roster")
                                        : c \in EmptyRosters \cap ask.rows}])

\* Faulty variant of ConsentCaveats: expired already on its last day.
ConsentCaveatsOnTheDay(c, now) ==
    When(conns[c].consent # 0 /\ conns[c].consent <= now, Said("degraded", c, "consent"))

ConsentCaveats(c, now) ==
    LET expiry == conns[c].consent
    IN  When(expiry # 0 /\ expiry < now, Said("degraded", c, "consent"))
        \cup When(expiry >= now /\ expiry - now <= WarnDays, Said("partial", c, "consent"))

\* What one row of the connections statement says, and what the domains
\* statement may then leave unsaid.
ConnectionFreshness(c, now) ==
    [degraded |-> conns[c].status = "degraded", never |-> conns[c].success = 0,
     stale |-> Behind(conns[c].success, now), granted |-> conns[c].granted]

ConnectionCaveats(c, now) ==
    When(conns[c].standing, Said("degraded", c, "standing"))
    \cup ConsentCaveats(c, now)
    \cup When(conns[c].status = "degraded", Said("degraded", c, "status"))
    \cup When(conns[c].success = 0, Said("partial", c, "never"))
    \cup When(Behind(conns[c].success, now), Said("stale", c, "success"))
    \cup When(conns[c].granted = "short", Said("gapped", c, "granted"))

\* Faulty variant of PipelineWarnings: an empty datastore says nothing of it.
PipelineWarningsUnexplained ==
    Statement("connections",
        [ask EXCEPT !.now = today,
                    !.read = [c \in Live |-> ConnectionFreshness(c, today)],
                    !.caveats = @ \cup UNION {ConnectionCaveats(c, today) : c \in Live}])

PipelineWarnings ==
    Statement("connections",
        [ask EXCEPT !.now = today,
                    !.read = [c \in Live |-> ConnectionFreshness(c, today)],
                    !.caveats = @ \cup When(Live = {}, Said("partial", 0, "nothing enrolled"))
                                  \cup UNION {ConnectionCaveats(c, today) : c \in Live}])

HoldingTransactions == Statement("holding", [ask EXCEPT !.holding = {accts[a].conn : a \in recorded}])

GrantedHistoryStatus(read, holds) ==
    IF read.granted # "none" THEN "measured"
    ELSE IF ~read.never /\ ~holds THEN "no_transactions_to_measure" ELSE "not_yet_measured"
GrantedCaveats ==
    {Said("partial", c, "granted") : c \in {k \in DOMAIN ask.read :
        /\ ~ask.read[k].never
        /\ GrantedHistoryStatus(ask.read[k], k \in ask.holding) = "not_yet_measured"}}

\* Faulty variant of DomainCaveats: a failing connection hides every domain.
DomainCaveatsOfHealthy(c) ==
    IF ask.read[c].degraded \/ ask.read[c].stale THEN {} ELSE DomainProblems(c)

DomainCaveats(c) ==
    UNION {LET row == conns[c].domains[d]
           IN  When(row.failed /\ ~ask.read[c].degraded, Said("degraded", c, d))
               \cup When(/\ row.present /\ row.success = 0
                         /\ ~row.failed /\ ~ask.read[c].never, Said("partial", c, d))
               \cup When(Behind(row.success, ask.now) /\ ~ask.read[c].stale, Said("stale", c, d))
           : d \in Domains}
WithDomains == {c \in Live : \E d \in Domains : conns[c].domains[d].present}

ReadDomains ==
    /\ WithDomains \subseteq DOMAIN ask.read
    /\ Statement("domains",
          [ask EXCEPT !.caveats = @ \cup GrantedCaveats
                                    \cup UNION {DomainCaveats(c) : c \in WithDomains}])

\* freshness[connection_id] for a connection the earlier statement did not have.
ReadDomainsOfNewcomer ==
    /\ ask.todo # <<>> /\ Head(ask.todo) = "domains"
    /\ ~ WithDomains \subseteq DOMAIN ask.read
    /\ answer' = [NoAnswer EXCEPT !.tool = ask.tool, !.outcome = "internal_error"]
    /\ ask' = NoAsk
    /\ UNCHANGED <<store, today, writes, held, warranted>>

DerivationCaveats ==
    Statement("versions",
        [ask EXCEPT !.caveats = @ \cup {Said("derivation_version_mismatch", 0, v)
                                        : v \in versions \ {"current"}}])

Answer ==
    /\ ask.tool # "none" /\ ask.todo = <<>>
    /\ answer' = [tool |-> ask.tool, outcome |-> "answered", rows |-> ask.rows,
                  lifecycle |-> ask.lifecycle, caveats |-> ask.caveats]
    /\ ask' = NoAsk
    /\ UNCHANGED <<store, today, writes, held, warranted>>

Read ==
    \/ \E tool \in Tools : Ask(tool)
    \/ ListAccounts \/ PipelineHealth \/ AccountCoverage
    \/ RosterAccounts \/ RosterObservations \/ ConnectionsOfRoster \/ AccountLifecycle
    \/ EmptyRosterFindings
    \/ PipelineWarnings \/ HoldingTransactions \/ ReadDomains \/ ReadDomainsOfNewcomer
    \/ DerivationCaveats \/ Answer

Init ==
    /\ conns = [c \in Conns |-> NoConnection] /\ accts = NoRoster
    /\ recorded = {} /\ versions = {"current"} /\ today = 1 /\ writes = 0
    /\ ask = NoAsk /\ answer = NoAnswer
    /\ held = [problems |-> {}, frozen |-> {}, bare |-> FALSE] /\ warranted = {}

Next == Write \/ NextDay \/ Read
Spec == Init /\ [][Next]_vars

-----------------------------------------------------------------------------
(* Properties *)

TypeOK ==
    /\ conns \in [Conns -> Connection] /\ accts \in [Accounts -> Account]
    /\ recorded \subseteq Present(accts) /\ today \in 1 .. MaxDay
    /\ ask.tool \in Tools \cup {"none"} /\ answer.tool \in Tools \cup {"none"}
    /\ answer.tool \in {"list_accounts", "get_coverage_report"} /\ answer.outcome = "answered"
         => answer.rows \subseteq DOMAIN answer.lifecycle
    /\ DOMAIN ask.read \subseteq Known

Answered == answer.outcome = "answered"

\* Whatever was wrong with a connection, a domain of it or the derived rows at
\* every instant between the question and the answer is named by a caveat of
\* that kind, although connections and domains are read apart and the second
\* statement leaves unsaid what the first has said (_domain_caveats).
StandingProblemIsNamed ==
    Answered => \A p \in held.problems :
                    \E s \in answer.caveats : s.kind = p.kind /\ s.conn = p.conn

\* A caveat that a connection or a domain of it has stopped, is late or was cut
\* short (_connection_caveats, _domain_caveats) is about something that was so at
\* some instant of this question.  What is said of accounts and rosters pairs two
\* snapshots and is not covered.
NothingIsInvented ==
    Answered => \A s \in {x \in answer.caveats : x.kind \in {"degraded", "stale", "gapped"}} :
                    s \in warranted

\* An account that is closed or off its roster for as long as the answer takes
\* is never shown with an active lifecycle: its frozen balance is not a fact
\* about today.
FrozenBalanceIsTold ==
    Answered => \A a \in held.frozen \cap DOMAIN answer.lifecycle :
                    answer.lifecycle[a] # "active"

\* An answer with no row and no caveat is given only when, at some instant of
\* the question, a connection was live and the store knew no account: nothing
\* enrolled and nothing read are told apart from nothing there.
EmptyAnswerIsExplained ==
    Answered /\ answer.rows = {} /\ answer.caveats = {} => held.bare
=============================================================================
