--------------------------- MODULE Answers_proofs ---------------------------
(***************************************************************************)
(* What an answer says, for any connections, accounts, days and writes.    *)
(* The argument follows the question: held is what every instant of it     *)
(* found wrong, so it only shrinks, and each statement answers for the     *)
(* part of held it reads.  A statement that relies on an earlier one       *)
(* relies on what that one left in ask, and the commits between them can   *)
(* only take from held.                                                    *)
(***************************************************************************)
EXTENDS Answers, TLAPS

-----------------------------------------------------------------------------
(* The inductive invariant *)

Asking == ask.tool # "none"

\* ask is a record with the fields of NoAsk.
Fields == DOMAIN NoAsk
IsAsk(a) == a = [f \in Fields |-> a[f]]

Pending(todo, x) == \E k \in 1 .. Len(todo) : todo[k] = x

Names == {"accounts", "coverage", "health", "connections", "holding", "domains", "versions",
          "roster", "observations", "live", "matched", "findings"}

\* Whatever tool reads both, x is read before y.
Before(x, y) ==
    \/ x \in {"accounts", "coverage", "health"} /\ y = "connections"
    \/ x = "connections" /\ y = "domains"
    \/ x \in {"accounts", "coverage"} /\ y = "roster"
    \/ x = "roster" /\ y = "observations"
    \/ x \in {"roster", "observations"} /\ y = "matched"

Ordered(todo) ==
    /\ todo \in Seq(Names)
    /\ \A k, j \in 1 .. Len(todo) :
          k < j => todo[k] # todo[j] /\ ~Before(todo[j], todo[k])
    /\ \A x, y : Before(x, y) /\ y # "matched" /\ Pending(todo, x) => Pending(todo, y)

\* The store: an account belongs to a connection that exists, and a domain
\* that has an outcome has a row.
StoreOK ==
    /\ conns \in [Conns -> Connection] /\ accts \in [Accounts -> Account]
    /\ recorded \subseteq Present(accts) /\ today \in 1 .. MaxDay
    /\ \A a \in Present(accts) : accts[a].conn \in Known
    /\ \A c \in Conns, d \in Domains :
          conns[c].domains[d].failed \/ conns[c].domains[d].success # 0
            => conns[c].domains[d].present

\* Which statements are there for the tool alone that asks.
PerTool ==
    /\ Pending(ask.todo, "health") \/ Pending(ask.todo, "findings")
         => ask.tool = "get_pipeline_health"
    /\ ask.tool # "get_pipeline_health" =>
          (Pending(ask.todo, "roster") \/ Pending(ask.todo, "observations")
             => Pending(ask.todo, "matched"))
    /\ ask.tool = "get_pipeline_health" =>
          /\ \A x \in {"accounts", "coverage", "roster", "matched"} : ~Pending(ask.todo, x)
          /\ ask.roster = NoRoster /\ ask.lifecycle = <<>>

Basics ==
    /\ IsAsk(ask) /\ ask.tool \in Tools \cup {"none"}
    /\ Ordered(ask.todo)
    /\ PerTool
    /\ ask.now \in Nat /\ ask.now <= today

\* What the question has witnessed.
Watched ==
    /\ held.problems \subseteq Problems /\ Problems \subseteq warranted
    /\ held.frozen \subseteq Frozen
    /\ Live # {} /\ Present(accts) = {} => held.bare

\* What the connections statement left for the domains statement.
ReadsSaid ==
    /\ DOMAIN ask.read \subseteq Known
    /\ \A c \in DOMAIN ask.read :
          /\ ask.read[c].degraded => Said("degraded", c, "status") \in ask.caveats
          /\ ask.read[c].never => Said("partial", c, "never") \in ask.caveats
          /\ ask.read[c].stale => Said("stale", c, "success") \in ask.caveats

ConnectionWhys == {"status", "standing", "consent", "never", "success", "granted"}

Mismatch(p) == p.kind = "derivation_version_mismatch"
OfConnection(p) == p.why \in ConnectionWhys /\ ~Mismatch(p)
OfDomain(p) == p.why \in Domains /\ ~Mismatch(p)

ConnectionsSaid ==
    ~Pending(ask.todo, "connections") =>
        /\ \A p \in held.problems : OfConnection(p) => p \in ask.caveats
        /\ \A c \in Conns, d \in Domains :
              Said("stale", c, d) \in held.problems
                => Behind(conns[c].domains[d].success, ask.now)

Named(p) == \E s \in ask.caveats : s.kind = p.kind /\ s.conn = p.conn

DomainsSaid ==
    ~Pending(ask.todo, "domains") =>
        \A p \in held.problems : OfDomain(p) => Named(p)

VersionsSaid ==
    ~Pending(ask.todo, "versions") =>
        \A p \in held.problems : Mismatch(p) => p \in ask.caveats

Alarms == {"degraded", "stale", "gapped"}
Truthful == \A s \in ask.caveats : s.kind \in Alarms => s \in warranted

\* An account frozen all along, from the roster to its lifecycle.
RosterTold ==
    /\ ~Pending(ask.todo, "roster") /\ Pending(ask.todo, "observations") =>
          \A a \in held.frozen \cap Present(ask.roster) :
              \/ ask.roster[a].closed
              \/ conns[ask.roster[a].conn].observed > ask.roster[a].seen
    /\ ~Pending(ask.todo, "observations") /\ Pending(ask.todo, "matched") =>
          \A a \in held.frozen \cap Present(ask.roster) :
              \/ ask.roster[a].closed
              \/ /\ ask.roster[a].conn \in DOMAIN ask.observed
                 /\ ask.roster[a].seen < ask.observed[ask.roster[a].conn]
    /\ ~Pending(ask.todo, "roster") /\ Pending(ask.todo, "matched") =>
          /\ ask.roster \in [Accounts -> Account]
          /\ \A a \in Present(ask.roster) : ask.roster[a].conn \in Known
    /\ ~Pending(ask.todo, "matched") =>
          \A a \in held.frozen \cap DOMAIN ask.lifecycle : ask.lifecycle[a] # "active"

RowStatement(tool) ==
    CASE tool = "list_accounts" -> "accounts" [] tool = "get_coverage_report" -> "coverage"
      [] tool = "get_pipeline_health" -> "health"

OfAccounts == {"list_accounts", "get_coverage_report"}

RowsExplained ==
    /\ ~Pending(ask.todo, RowStatement(ask.tool)) /\ ask.rows = {}
         => Present(accts) = {} \/ held.bare
    /\ ~Pending(ask.todo, "connections") /\ ask.rows = {} /\ ask.caveats = {} => held.bare
    /\ ask.tool \in OfAccounts =>
          /\ ask.rows \subseteq Present(accts)
          /\ ~Pending(ask.todo, "roster") /\ Pending(ask.todo, "matched")
               => ask.rows \subseteq Present(ask.roster)
          /\ ~Pending(ask.todo, "matched") => ask.rows \subseteq DOMAIN ask.lifecycle

AskInv ==
    /\ Watched /\ ReadsSaid /\ ConnectionsSaid /\ DomainsSaid /\ VersionsSaid
    /\ Truthful /\ RosterTold /\ RowsExplained

AnswerInv ==
    /\ StandingProblemIsNamed /\ NothingIsInvented /\ FrozenBalanceIsTold
    /\ EmptyAnswerIsExplained
    /\ answer.tool \in OfAccounts /\ Answered => answer.rows \subseteq DOMAIN answer.lifecycle

IInv ==
    /\ StoreOK /\ Basics
    /\ ask.tool = "none" => ask = NoAsk
    /\ answer.tool \in Tools \cup {"none"} /\ (answer.tool = "none" => answer = NoAnswer)
    /\ Asking => answer = NoAnswer /\ AskInv
    /\ AnswerInv

-----------------------------------------------------------------------------
(* The order of the statements *)

LEMMA FieldsAre ==
    Fields = {"tool", "todo", "now", "rows", "roster", "observed", "live", "lifecycle",
              "read", "holding", "caveats"}
  BY DEF Fields, NoAsk

\* Every tool starts with its statements in order.
LEMMA StatementsOrdered ==
  ASSUME NEW tool \in Tools
  PROVE  /\ Ordered(Statements(tool))
         /\ Pending(Statements(tool), "health") \/ Pending(Statements(tool), "findings")
              => tool = "get_pipeline_health"
         /\ \A x \in {"connections", "domains", "versions", RowStatement(tool)} :
               Pending(Statements(tool), x)
         /\ tool # "get_pipeline_health" =>
               \A x \in {"roster", "observations", "matched"} : Pending(Statements(tool), x)
         /\ tool = "get_pipeline_health" =>
               \A x \in {"accounts", "coverage", "roster", "matched"} : ~Pending(Statements(tool), x)
  <1> DEFINE T == Statements(tool)
  <1>1. CASE tool = "list_accounts"
    <2>1. T = <<"accounts", "coverage", "roster", "observations", "live", "matched",
              "connections", "holding", "domains", "versions">>
      BY <1>1 DEF Statements
    <2>2. \A x : Pending(T, x) <=> x \in {"accounts", "coverage", "roster", "observations", "live",
              "matched", "connections", "holding", "domains", "versions"}
      BY <2>1 DEF Pending
    <2>3. \A k \in 1 .. 10 :
            /\ (T[k] = "accounts" <=> k = 1) /\ (T[k] = "coverage" <=> k = 2)
            /\ T[k] # "health" /\ (T[k] = "connections" <=> k = 7)
            /\ (T[k] = "domains" <=> k = 9) /\ (T[k] = "roster" <=> k = 3)
            /\ (T[k] = "observations" <=> k = 4) /\ (T[k] = "matched" <=> k = 6)
            /\ (T[k] = "live" <=> k = 5) /\ (T[k] = "holding" <=> k = 8)
            /\ (T[k] = "versions" <=> k = 10)
            /\ T[k] \in {"accounts", "coverage", "roster", "observations", "live",
                      "matched", "connections", "holding", "domains", "versions"}
      BY <2>1
    <2>4. T \in Seq(Names) /\ Len(T) = 10
      <3>1. Len(T) = 10 /\ T = [k \in 1 .. 10 |-> T[k]]
        BY <2>1
      <3>2. \A k \in 1 .. 10 : T[k] \in Names
        BY <2>3 DEF Names
      <3> HIDE DEF T
      <3>3. T \in [1 .. 10 -> Names]
        BY <3>1, <3>2
      <3> QED BY <3>1, <3>3
    <2> HIDE DEF T
    <2>5. \A k, j \in 1 .. Len(T) : k < j => T[k] # T[j] /\ ~Before(T[j], T[k])
      BY <2>3, <2>4 DEF Before
    <2> USE DEF T
    <2> QED BY <1>1, <2>2, <2>4, <2>5 DEF Ordered, Before, RowStatement
  <1>2. CASE tool = "get_coverage_report"
    <2>1. T = <<"coverage", "roster", "observations", "live", "matched",
              "connections", "holding", "domains", "versions">>
      BY <1>2 DEF Statements
    <2>2. \A x : Pending(T, x) <=> x \in {"coverage", "roster", "observations", "live",
              "matched", "connections", "holding", "domains", "versions"}
      BY <2>1 DEF Pending
    <2>3. \A k \in 1 .. 9 :
            /\ T[k] # "accounts" /\ (T[k] = "coverage" <=> k = 1)
            /\ T[k] # "health" /\ (T[k] = "connections" <=> k = 6)
            /\ (T[k] = "domains" <=> k = 8) /\ (T[k] = "roster" <=> k = 2)
            /\ (T[k] = "observations" <=> k = 3) /\ (T[k] = "matched" <=> k = 5)
            /\ (T[k] = "live" <=> k = 4) /\ (T[k] = "holding" <=> k = 7)
            /\ (T[k] = "versions" <=> k = 9)
            /\ T[k] \in {"coverage", "roster", "observations", "live", "matched",
                      "connections", "holding", "domains", "versions"}
      BY <2>1
    <2>4. T \in Seq(Names) /\ Len(T) = 9
      <3>1. Len(T) = 9 /\ T = [k \in 1 .. 9 |-> T[k]]
        BY <2>1
      <3>2. \A k \in 1 .. 9 : T[k] \in Names
        BY <2>3 DEF Names
      <3> HIDE DEF T
      <3>3. T \in [1 .. 9 -> Names]
        BY <3>1, <3>2
      <3> QED BY <3>1, <3>3
    <2> HIDE DEF T
    <2>5. \A k, j \in 1 .. Len(T) : k < j => T[k] # T[j] /\ ~Before(T[j], T[k])
      BY <2>3, <2>4 DEF Before
    <2> USE DEF T
    <2> QED BY <1>2, <2>2, <2>4, <2>5 DEF Ordered, Before, RowStatement
  <1>3. CASE tool = "get_pipeline_health"
    <2>1. T = <<"versions", "health", "holding", "observations", "live", "findings",
              "connections", "domains">>
      BY <1>3 DEF Statements
    <2>2. \A x : Pending(T, x) <=> x \in {"versions", "health", "holding", "observations", "live",
              "findings", "connections", "domains"}
      BY <2>1 DEF Pending
    <2>3. \A k \in 1 .. 8 :
            /\ T[k] \notin {"accounts", "coverage", "roster", "matched"}
            /\ (T[k] = "health" <=> k = 2) /\ (T[k] = "connections" <=> k = 7)
            /\ (T[k] = "domains" <=> k = 8) /\ (T[k] = "findings" <=> k = 6)
            /\ (T[k] = "observations" <=> k = 4) /\ (T[k] = "live" <=> k = 5)
            /\ (T[k] = "holding" <=> k = 3) /\ (T[k] = "versions" <=> k = 1)
            /\ T[k] \in {"versions", "health", "holding", "observations", "live",
                         "findings", "connections", "domains"}
      BY <2>1
    <2>4. T \in Seq(Names) /\ Len(T) = 8
      <3>1. Len(T) = 8 /\ T = [k \in 1 .. 8 |-> T[k]]
        BY <2>1
      <3>2. \A k \in 1 .. 8 : T[k] \in Names
        BY <2>3 DEF Names
      <3> HIDE DEF T
      <3>3. T \in [1 .. 8 -> Names]
        BY <3>1, <3>2
      <3> QED BY <3>1, <3>3
    <2> HIDE DEF T
    <2>5. \A k, j \in 1 .. Len(T) : k < j => T[k] # T[j] /\ ~Before(T[j], T[k])
      BY <2>3, <2>4 DEF Before
    <2> USE DEF T
    <2> QED BY <1>3, <2>2, <2>4, <2>5 DEF Ordered, Before, RowStatement
  <1> QED BY <1>1, <1>2, <1>3 DEF Tools

\* What is left when the first statement has been read.
LEMMA Popped ==
  ASSUME NEW todo, Ordered(todo), todo # <<>>
  PROVE  /\ Ordered(Tail(todo)) /\ Head(todo) \in Names
         /\ Pending(todo, Head(todo)) /\ ~Pending(Tail(todo), Head(todo))
         /\ \A x : x # Head(todo) => (Pending(Tail(todo), x) <=> Pending(todo, x))
         /\ \A x : Before(x, Head(todo)) => ~Pending(todo, x)
  <1> DEFINE n == Head(todo)
             t == Tail(todo)
  <1>1. /\ todo \in Seq(Names) /\ n = todo[1] /\ n \in Names /\ t \in Seq(Names)
        /\ Len(todo) \in Nat \ {0} /\ Len(t) = Len(todo) - 1
        /\ \A k \in 1 .. Len(t) : t[k] = todo[k + 1]
    BY DEF Ordered
  <1> HIDE DEF n, t
  <1>2. Pending(todo, n)
    BY <1>1 DEF Pending
  <1>3. ~Pending(t, n)
    <2> SUFFICES ASSUME NEW k \in 1 .. Len(t), t[k] = n PROVE FALSE
      BY DEF Pending
    <2>1. 1 \in 1 .. Len(todo) /\ k + 1 \in 1 .. Len(todo) /\ 1 < k + 1 /\ todo[k + 1] = todo[1]
      BY <1>1
    <2> QED BY <2>1 DEF Ordered
  <1>4. \A x : x # n => (Pending(t, x) <=> Pending(todo, x))
    <2> TAKE x
    <2> HAVE x # n
    <2>1. ASSUME Pending(t, x) PROVE Pending(todo, x)
      BY <2>1, <1>1 DEF Pending
    <2>2. ASSUME Pending(todo, x) PROVE Pending(t, x)
      <3>1. PICK k \in 1 .. Len(todo) : todo[k] = x
        BY <2>2 DEF Pending
      <3>2. k - 1 \in 1 .. Len(t) /\ t[k - 1] = x
        BY <3>1, <1>1
      <3> QED BY <3>2 DEF Pending
    <2> QED BY <2>1, <2>2
  <1>5. \A x : Before(x, n) => ~Pending(todo, x)
    <2> SUFFICES ASSUME NEW x, Before(x, n), NEW k \in 1 .. Len(todo), todo[k] = x
                 PROVE FALSE
      BY DEF Pending
    <2>1. CASE k = 1
      BY <2>1, <1>1 DEF Before
    <2>2. CASE k # 1
      BY <2>2, <1>1 DEF Ordered
    <2> QED BY <2>1, <2>2
  <1>6. Ordered(t)
    <2>1. \A k, j \in 1 .. Len(t) : k < j => t[k] # t[j] /\ ~Before(t[j], t[k])
      BY <1>1 DEF Ordered
    <2>2. \A x, y : Before(x, y) /\ y # "matched" /\ Pending(t, x) => Pending(t, y)
      <3> SUFFICES ASSUME NEW x, NEW y, Before(x, y), y # "matched", Pending(t, x)
                   PROVE Pending(t, y)
        OBVIOUS
      <3>1. x # n /\ Pending(todo, x)
        BY <1>3, <1>4
      <3>2. y # n
        BY <3>1, <1>5
      <3> QED BY <3>1, <3>2, <1>4 DEF Ordered
    <2> QED BY <2>1, <2>2, <1>1 DEF Ordered
  <1> QED BY <1>1, <1>2, <1>3, <1>4, <1>5, <1>6 DEF n, t

-----------------------------------------------------------------------------
(* What a problem is *)

LEMMA InConnectionProblems ==
  ASSUME NEW c, NEW p
  PROVE  p \in ConnectionProblems(c) <=>
           \/ conns[c].status = "degraded" /\ p = Said("degraded", c, "status")
           \/ conns[c].standing /\ p = Said("degraded", c, "standing")
           \/ /\ conns[c].consent # 0 /\ conns[c].consent < today
              /\ p = Said("degraded", c, "consent")
           \/ conns[c].success = 0 /\ p = Said("partial", c, "never")
           \/ Behind(conns[c].success, today) /\ p = Said("stale", c, "success")
           \/ conns[c].granted = "short" /\ p = Said("gapped", c, "granted")
  BY DEF ConnectionProblems, When

LEMMA InDomainProblems ==
  ASSUME NEW c, NEW p
  PROVE  p \in DomainProblems(c) <=>
           \E d \in Domains :
             \/ conns[c].domains[d].failed /\ p = Said("degraded", c, d)
             \/ /\ conns[c].domains[d].present /\ conns[c].domains[d].success = 0
                /\ ~conns[c].domains[d].failed /\ p = Said("partial", c, d)
             \/ Behind(conns[c].domains[d].success, today) /\ p = Said("stale", c, d)
  BY DEF DomainProblems, When

LEMMA InProblems ==
  ASSUME NEW p
  PROVE  p \in Problems <=>
           \/ \E c \in Live : p \in ConnectionProblems(c) \/ p \in DomainProblems(c)
           \/ \E v \in versions \ {"current"} : p = Said("derivation_version_mismatch", 0, v)
  <1>1. p \in UNION {ConnectionProblems(c) \cup DomainProblems(c) : c \in Live}
          <=> \E c \in Live : p \in ConnectionProblems(c) \/ p \in DomainProblems(c)
    <2>1. p \in UNION {ConnectionProblems(c) \cup DomainProblems(c) : c \in Live}
            <=> \E c \in Live : p \in ConnectionProblems(c) \cup DomainProblems(c)
      BY Zenon
    <2> QED BY <2>1
  <1>2. p \in {Said("derivation_version_mismatch", 0, v) : v \in versions \ {"current"}}
          <=> \E v \in versions \ {"current"} : p = Said("derivation_version_mismatch", 0, v)
    BY Zenon
  <1> QED BY <1>1, <1>2 DEF Problems

\* A domain's stale problem is of that domain's own stamp.
LEMMA StaleShape ==
  ASSUME NEW c, NEW d \in Domains, (Said("stale", c, d) \in Problems)'
  PROVE  Behind(conns[c].domains[d].success, today)'
  <1> DEFINE p == Said("stale", c, d)
  <1>1. p.kind = "stale" /\ p.conn = c /\ p.why = d
    BY DEF Said
  <1>2. \E k \in Live' : p \in ConnectionProblems(k)' \/ p \in DomainProblems(k)'
    <2>1. p \in UNION {ConnectionProblems(k) \cup DomainProblems(k) : k \in Live}'
      BY <1>1 DEF Problems, Said
    <2>2. \E k \in Live' : p \in ConnectionProblems(k)' \cup DomainProblems(k)'
      BY <2>1, Zenon
    <2> QED BY <2>2
  <1>3. PICK k \in Live' : p \in ConnectionProblems(k)' \/ p \in DomainProblems(k)'
    BY <1>2
  <1>4. p \notin ConnectionProblems(k)'
    BY <1>1 DEF ConnectionProblems, When, Said, Domains
  <1>5. PICK e \in Domains : Behind(conns'[k].domains[e].success, today') /\ p = Said("stale", k, e)
    BY <1>1, <1>3, <1>4 DEF DomainProblems, When, Said
  <1>6. k = c /\ e = d
    BY <1>1, <1>5 DEF Said
  <1> QED BY <1>5, <1>6 DEF Behind

-----------------------------------------------------------------------------
(* What a commit of another process may do *)

StoreStep ==
    /\ UNCHANGED <<ask, answer>> /\ Watch
    /\ StoreOK' /\ today <= today'
    /\ Known \subseteq Known' /\ Present(accts) \subseteq Present(accts')
    /\ \A c \in Conns : conns[c].observed <= conns'[c].observed
    /\ \A c \in Conns, d \in Domains :
          \/ conns'[c].domains[d].success = conns[c].domains[d].success
          \/ conns'[c].domains[d].success = today'
    /\ Present(accts) = {} /\ Present(accts') # {} => Live # {}

\* A commit that rewrites one connection's row and nothing else.
LEMMA RowCommit ==
  ASSUME StoreOK, NEW c \in Live, NEW row \in Connection,
         conns' = [conns EXCEPT ![c] = row],
         UNCHANGED <<accts, recorded, versions, today, ask, answer>>, Watch,
         row.state # "absent", row.observed = conns[c].observed,
         \A d \in Domains :
            /\ \/ row.domains[d].success = conns[c].domains[d].success
               \/ row.domains[d].success = today
            /\ row.domains[d].failed \/ row.domains[d].success # 0 => row.domains[d].present
  PROVE  StoreStep
  <1>1. c \in Conns /\ conns \in [Conns -> Connection] /\ today \in Nat
    BY AnswersAssumption DEF StoreOK, Live
  <1>2. conns' \in [Conns -> Connection] /\ conns'[c] = row
        /\ \A k \in Conns \ {c} : conns'[k] = conns[k]
    BY <1>1
  <1>3. Known \subseteq Known' /\ Present(accts') = Present(accts)
    BY <1>2 DEF Known, Present
  <1>4. \A k \in Conns : conns[k].observed \in Nat /\ conns'[k].observed = conns[k].observed
    BY <1>1, <1>2, AnswersAssumption DEF Connection, Days
  <1>5. StoreOK'
    <2>1. \A a \in Present(accts') : accts'[a].conn \in Known'
      BY <1>3 DEF StoreOK
    <2>2. \A k \in Conns, d \in Domains :
            conns'[k].domains[d].failed \/ conns'[k].domains[d].success # 0
              => conns'[k].domains[d].present
      BY <1>2 DEF StoreOK
    <2> QED BY <1>2, <1>3, <2>1, <2>2 DEF StoreOK
  <1>6. \A k \in Conns, d \in Domains :
          \/ conns'[k].domains[d].success = conns[k].domains[d].success
          \/ conns'[k].domains[d].success = today'
    BY <1>2
  <1> QED BY <1>1, <1>3, <1>4, <1>5, <1>6 DEF StoreStep

\* A commit that leaves the connections alone.
LEMMA AccountCommit ==
  ASSUME StoreOK, UNCHANGED <<conns, accts, today, ask, answer>>, Watch,
         recorded' \subseteq Present(accts)
  PROVE  StoreStep
  <1>1. today \in Nat /\ \A k \in Conns : conns[k].observed \in Nat
    BY AnswersAssumption DEF StoreOK, Connection, Days
  <1> QED BY <1>1 DEF StoreStep, StoreOK, Known, Present

LEMMA EnrollStep == ASSUME StoreOK, NEW c \in Conns, Enroll(c) PROVE StoreStep
  <1>1. conns \in [Conns -> Connection] /\ today \in Nat
        /\ \A k \in Conns : conns[k].observed \in Nat
    BY AnswersAssumption DEF StoreOK, Connection, Days
  <1>2. conns' = [conns EXCEPT ![c].state = "live"]
        /\ UNCHANGED <<accts, recorded, versions, today, ask, answer>> /\ Watch
    BY DEF Enroll, Others
  <1> DEFINE row == [conns[c] EXCEPT !.state = "live"]
  <1>3. row \in Connection /\ row.state = "live" /\ row.observed = conns[c].observed
        /\ row.domains = conns[c].domains
    BY <1>1 DEF Connection
  <1>4. conns' \in [Conns -> Connection] /\ conns'[c] = row
        /\ \A k \in Conns \ {c} : conns'[k] = conns[k]
    BY <1>1, <1>2, <1>3
  <1> HIDE DEF row
  <1>5. Known \subseteq Known' /\ Present(accts') = Present(accts)
    BY <1>2, <1>3, <1>4 DEF Known, Present
  <1>6. \A k \in Conns : conns'[k].domains = conns[k].domains
                          /\ conns'[k].observed = conns[k].observed
    BY <1>3, <1>4
  <1>7. StoreOK'
    BY <1>2, <1>4, <1>5, <1>6 DEF StoreOK
  <1> QED BY <1>1, <1>2, <1>5, <1>6, <1>7 DEF StoreStep

LEMMA RecordItemStandingStep ==
  ASSUME StoreOK, NEW c \in Conns, NEW standing \in BOOLEAN, NEW consent \in Days,
         RecordItemStanding(c, standing, consent)
  PROVE  StoreStep
  <1> DEFINE a == [conns[c] EXCEPT !.standing = standing]
             row == [a EXCEPT !.consent = consent]
  <1>1. conns \in [Conns -> Connection] /\ c \in Live
    BY DEF StoreOK, RecordItemStanding, Live
  <1>2. conns' = [conns EXCEPT ![c] = row]
    BY <1>1 DEF RecordItemStanding
  <1>3. a \in Connection /\ a.state = conns[c].state /\ a.observed = conns[c].observed
        /\ a.domains = conns[c].domains
    BY <1>1 DEF Connection
  <1> HIDE DEF a
  <1>4. row \in Connection /\ row.state = conns[c].state /\ row.observed = conns[c].observed
        /\ row.domains = conns[c].domains
    BY <1>3 DEF Connection
  <1> HIDE DEF row
  <1>5. UNCHANGED <<accts, recorded, versions, today, ask, answer>> /\ Watch
    BY DEF RecordItemStanding, Others
  <1>6. /\ row.state # "absent"
        /\ \A d \in Domains : row.domains[d].failed \/ row.domains[d].success # 0
                               => row.domains[d].present
    BY <1>1, <1>4 DEF StoreOK, Live
  <1> QED BY <1>1, <1>2, <1>4, <1>5, <1>6, RowCommit

LEMMA RecordDomainStep ==
  ASSUME StoreOK, NEW c \in Conns, NEW d \in Domains, NEW outcome, RecordDomain(c, d, outcome)
  PROVE  StoreStep
  <1> DEFINE old == conns[c].domains[d]
             new == [present |-> TRUE,
                     success |-> IF outcome = "success" THEN today ELSE old.success,
                     failed |-> \/ outcome = "failure"
                                \/ outcome = "attempt" /\ old.failed]
             doms == [conns[c].domains EXCEPT ![d] = new]
             row == [conns[c] EXCEPT !.domains = doms]
  <1>1. conns \in [Conns -> Connection] /\ c \in Live /\ today \in Days
    BY AnswersAssumption DEF StoreOK, RecordDomain, Live, Days
  <1>2. conns' = [conns EXCEPT ![c] = row]
    <2>1. conns' = [conns EXCEPT ![c].domains[d] = new]
      BY Zenon DEF RecordDomain
    <2> HIDE DEF new
    <2> QED BY <1>1, <2>1
  <1>3. conns[c].domains \in [Domains -> [present: BOOLEAN, success: Days, failed: BOOLEAN]]
    BY <1>1 DEF Connection
  <1>4. new \in [present: BOOLEAN, success: Days, failed: BOOLEAN] /\ new.present
        /\ new.success \in {old.success, today}
    BY <1>1, <1>3
  <1> HIDE DEF new
  <1>5. doms \in [Domains -> [present: BOOLEAN, success: Days, failed: BOOLEAN]]
        /\ doms[d] = new /\ \A e \in Domains \ {d} : doms[e] = conns[c].domains[e]
    BY <1>3, <1>4
  <1> HIDE DEF doms
  <1>6. row \in Connection /\ row.state = conns[c].state /\ row.observed = conns[c].observed
        /\ row.domains = doms
    BY <1>1, <1>5 DEF Connection
  <1> HIDE DEF row
  <1>7. UNCHANGED <<accts, recorded, versions, today, ask, answer>> /\ Watch
    BY DEF RecordDomain, Others
  <1>8. \A e \in Domains :
          /\ doms[e].success = conns[c].domains[e].success \/ doms[e].success = today
          /\ doms[e].failed \/ doms[e].success # 0 => doms[e].present
    BY <1>1, <1>4, <1>5 DEF StoreOK
  <1> QED BY <1>1, <1>2, <1>6, <1>7, <1>8, RowCommit DEF Live

LEMMA DegradeStep == ASSUME StoreOK, NEW c \in Conns, Degrade(c) PROVE StoreStep
  <1> DEFINE row == [conns[c] EXCEPT !.status = "degraded"]
  <1>1. conns \in [Conns -> Connection] /\ c \in Live
    BY DEF StoreOK, Degrade, Live
  <1>2. conns' = [conns EXCEPT ![c] = row]
    BY <1>1 DEF Degrade
  <1>3. row \in Connection /\ row.state = conns[c].state /\ row.observed = conns[c].observed
        /\ row.domains = conns[c].domains
    BY <1>1 DEF Connection
  <1> HIDE DEF row
  <1>4. UNCHANGED <<accts, recorded, versions, today, ask, answer>> /\ Watch
    BY DEF Degrade, Others
  <1>5. /\ row.state # "absent"
        /\ \A d \in Domains : row.domains[d].failed \/ row.domains[d].success # 0
                               => row.domains[d].present
    BY <1>1, <1>3 DEF StoreOK, Live
  <1> QED BY <1>1, <1>2, <1>3, <1>4, <1>5, RowCommit

LEMMA RecordSuccessStep ==
  ASSUME StoreOK, NEW c \in Conns, NEW complete \in BOOLEAN, RecordSuccess(c, complete)
  PROVE  StoreStep
  <1> DEFINE a == [conns[c] EXCEPT !.status = "active"]
             row == [a EXCEPT !.success = IF complete THEN today ELSE @]
  <1>1. conns \in [Conns -> Connection] /\ c \in Live /\ today \in Days
    BY AnswersAssumption DEF StoreOK, RecordSuccess, Live, Days
  <1>2. conns' = [conns EXCEPT ![c] = row]
    BY <1>1 DEF RecordSuccess
  <1>3. a \in Connection /\ a.state = conns[c].state /\ a.observed = conns[c].observed
        /\ a.domains = conns[c].domains
    BY <1>1 DEF Connection
  <1> HIDE DEF a
  <1>4. row \in Connection /\ row.state = conns[c].state /\ row.observed = conns[c].observed
        /\ row.domains = conns[c].domains
    BY <1>1, <1>3 DEF Connection
  <1> HIDE DEF row
  <1>5. UNCHANGED <<accts, recorded, versions, today, ask, answer>> /\ Watch
    BY DEF RecordSuccess, Others
  <1>6. /\ row.state # "absent"
        /\ \A d \in Domains : row.domains[d].failed \/ row.domains[d].success # 0
                               => row.domains[d].present
    BY <1>1, <1>4 DEF StoreOK, Live
  <1> QED BY <1>1, <1>2, <1>4, <1>5, <1>6, RowCommit

LEMMA MeasureGrantedStep ==
  ASSUME StoreOK, NEW c \in Conns, NEW window \in {"short", "whole"}, MeasureGranted(c, window)
  PROVE  StoreStep
  <1> DEFINE row == [conns[c] EXCEPT !.granted = window]
  <1>1. conns \in [Conns -> Connection] /\ c \in Live
    BY DEF StoreOK, MeasureGranted, Live
  <1>2. conns' = [conns EXCEPT ![c] = row]
    BY <1>1 DEF MeasureGranted
  <1>3. row \in Connection /\ row.state = conns[c].state /\ row.observed = conns[c].observed
        /\ row.domains = conns[c].domains
    BY <1>1 DEF Connection
  <1> HIDE DEF row
  <1>4. UNCHANGED <<accts, recorded, versions, today, ask, answer>> /\ Watch
    BY DEF MeasureGranted, Others
  <1>5. /\ row.state # "absent"
        /\ \A d \in Domains : row.domains[d].failed \/ row.domains[d].success # 0
                               => row.domains[d].present
    BY <1>1, <1>3 DEF StoreOK, Live
  <1> QED BY <1>1, <1>2, <1>3, <1>4, <1>5, RowCommit

LEMMA MarkRetiredStep == ASSUME StoreOK, NEW c \in Conns, MarkRetired(c) PROVE StoreStep
  <1> DEFINE a == [conns[c] EXCEPT !.state = "retired"]
             row == [a EXCEPT !.status = "retired"]
  <1>1. /\ conns \in [Conns -> Connection] /\ c \in Live /\ today \in Nat
        /\ \A k \in Conns : conns[k].observed \in Nat
    BY AnswersAssumption DEF StoreOK, MarkRetired, Live, Connection, Days
  <1>2. conns' = [conns EXCEPT ![c] = row]
    BY <1>1 DEF MarkRetired
  <1>3. a \in Connection /\ a.state = "retired" /\ a.observed = conns[c].observed
        /\ a.domains = conns[c].domains
    BY <1>1 DEF Connection
  <1> HIDE DEF a
  <1>4. row \in Connection /\ row.state = "retired" /\ row.observed = conns[c].observed
        /\ row.domains = conns[c].domains
    BY <1>3 DEF Connection
  <1> HIDE DEF row
  <1>5. conns' \in [Conns -> Connection] /\ conns'[c] = row
        /\ \A k \in Conns \ {c} : conns'[k] = conns[k]
    BY <1>1, <1>2, <1>4
  <1>6. UNCHANGED <<recorded, versions, today, ask, answer>> /\ Watch
    BY DEF MarkRetired, Others
  <1>7. accts' \in [Accounts -> Account]
        /\ \A x \in Accounts : accts'[x].conn = accts[x].conn
    <2>1. \A x \in Accounts : accts[x] \in Account
      BY DEF StoreOK
    <2>2. accts' = [x \in Accounts |-> IF accts[x].conn = c THEN [accts[x] EXCEPT !.closed = TRUE]
                                                          ELSE accts[x]]
      BY DEF MarkRetired
    <2> QED BY <2>1, <2>2 DEF Account
  <1>8. Known' = Known /\ Present(accts') = Present(accts)
    BY <1>1, <1>4, <1>5, <1>7 DEF Known, Present, Live
  <1>9. \A k \in Conns : conns'[k].domains = conns[k].domains
                          /\ conns'[k].observed = conns[k].observed
    BY <1>4, <1>5
  <1>10. StoreOK'
    <2>1. \A x \in Present(accts') : accts'[x].conn \in Known'
      BY <1>7, <1>8 DEF StoreOK, Present
    <2> QED BY <2>1, <1>5, <1>6, <1>7, <1>8, <1>9 DEF StoreOK
  <1> QED BY <1>1, <1>6, <1>8, <1>9, <1>10 DEF StoreStep

LEMMA DeriveAccountsStep ==
  ASSUME StoreOK, NEW c \in Conns, NEW listed \in SUBSET Accounts, DeriveAccounts(c, listed)
  PROVE  StoreStep
  <1> DEFINE row == [conns[c] EXCEPT !.observed = Max({@, today})]
             seen(a) == Max({accts[a].seen, today})
  <1>1. /\ conns \in [Conns -> Connection] /\ c \in Live /\ today \in Days /\ today \in Nat
        /\ \A k \in Conns : conns[k].observed \in Days
        /\ \A a \in Accounts : accts[a] \in Account
        /\ Days \subseteq Nat
    BY AnswersAssumption DEF StoreOK, DeriveAccounts, Live, Connection, Days
  <1>2. conns' = [conns EXCEPT ![c] = row]
    BY <1>1 DEF DeriveAccounts
  <1>3. ASSUME NEW m \in Days, NEW n \in Days PROVE Max({m, n}) \in {m, n} /\ Max({m, n}) >= m
    <2>1. \E x \in {m, n} : \A y \in {m, n} : x >= y
      BY <1>1, <1>3
    <2> QED BY <1>1, <1>3, <2>1 DEF Max
  <1>4. Max({conns[c].observed, today}) \in Days /\ Max({conns[c].observed, today}) >= conns[c].observed
    BY <1>1, <1>3
  <1>5. row \in Connection /\ row.state = "live" /\ row.observed >= conns[c].observed
        /\ row.domains = conns[c].domains
    BY <1>1, <1>4 DEF Connection, Live
  <1> HIDE DEF row
  <1>6. conns' \in [Conns -> Connection] /\ conns'[c] = row
        /\ \A k \in Conns \ {c} : conns'[k] = conns[k]
    BY <1>1, <1>2, <1>5
  <1>7. \A a \in Accounts : accts[a].seen \in Days /\ seen(a) \in Days
    <2> TAKE a \in Accounts
    <2>1. accts[a].seen \in Days
      BY <1>1 DEF Account
    <2> QED BY <2>1, <1>1, <1>3
  <1> HIDE DEF seen
  <1>8. UNCHANGED <<recorded, versions, today, ask, answer>> /\ Watch
    BY DEF DeriveAccounts, Others
  <1>9. /\ \A a \in listed : accts[a].conn \in {0, c}
        /\ accts' = [a \in Accounts |->
                        IF a \notin listed THEN accts[a]
                        ELSE [conn |-> c, closed |-> accts[a].closed, seen |-> seen(a)]]
    BY DEF DeriveAccounts, seen
  <1>10. accts' \in [Accounts -> Account]
    BY <1>1, <1>7, <1>9 DEF Account
  <1>11. \A a \in Accounts : /\ accts[a].conn # 0 => accts'[a].conn = accts[a].conn
                             /\ accts'[a].conn \in {accts[a].conn, c}
    BY <1>1, <1>9
  <1>12. Known \subseteq Known' /\ Present(accts) \subseteq Present(accts') /\ c \in Known'
    BY <1>1, <1>5, <1>6, <1>11 DEF Known, Present
  <1>13. \A k \in Conns : /\ conns'[k].domains = conns[k].domains
                          /\ conns'[k].observed >= conns[k].observed
    <2> TAKE k \in Conns
    <2>1. conns[k].observed \in Nat
      BY <1>1
    <2>2. CASE k = c
      BY <2>2, <1>5, <1>6
    <2>3. CASE k # c
      <3>1. conns'[k] = conns[k]
        BY <2>3, <1>6
      <3> QED BY <2>1, <3>1
    <2> QED BY <2>2, <2>3
  <1>14. StoreOK'
    <2>1. \A x \in Present(accts') : accts'[x].conn \in Known'
      BY <1>10, <1>11, <1>12 DEF StoreOK, Present
    <2> QED BY <2>1, <1>6, <1>8, <1>10, <1>12, <1>13 DEF StoreOK
  <1>15. \A k \in Conns : conns[k].observed <= conns'[k].observed
    BY <1>1, <1>6, <1>13, AnswersAssumption DEF Connection
  <1> QED BY <1>1, <1>8, <1>12, <1>13, <1>14, <1>15 DEF StoreStep

LEMMA NextDayStep == ASSUME StoreOK, NextDay PROVE StoreStep
  <1>1. today \in Nat /\ today' = today + 1 /\ today' \in 1 .. MaxDay
        /\ \A k \in Conns : conns[k].observed \in Nat
    BY AnswersAssumption DEF StoreOK, NextDay, Connection, Days
  <1>2. UNCHANGED <<conns, accts, recorded, versions, ask, answer>> /\ Watch
    BY DEF NextDay, store
  <1> QED BY <1>1, <1>2 DEF StoreStep, StoreOK, Known, Present

LEMMA WriteStep == ASSUME StoreOK, Write \/ NextDay PROVE StoreStep
  <1>1. ASSUME NEW a \in Accounts, DeriveRows(a) PROVE StoreStep
    <2>1. recorded' \subseteq Present(accts) /\ UNCHANGED <<conns, accts, today, ask, answer>> /\ Watch
      BY <1>1 DEF DeriveRows, Others, StoreOK
    <2> QED BY <2>1, AccountCommit
  <1>2. ASSUME NEW present, DeriveWith(present) PROVE StoreStep
    <2>1. recorded' \subseteq Present(accts) /\ UNCHANGED <<conns, accts, today, ask, answer>> /\ Watch
      BY <1>2 DEF DeriveWith, Others, StoreOK
    <2> QED BY <2>1, AccountCommit
  <1> QED BY <1>1, <1>2, EnrollStep, DegradeStep, MarkRetiredStep, DeriveAccountsStep,
             RecordItemStandingStep, RecordDomainStep, RecordSuccessStep, MeasureGrantedStep,
             NextDayStep DEF Write

-----------------------------------------------------------------------------
(* A commit keeps the invariant *)

LEMMA StoreStepKeeps ==
  ASSUME IInv, StoreStep
  PROVE  IInv'
  <1>1. /\ StoreOK /\ StoreOK' /\ Basics /\ AnswerInv /\ UNCHANGED <<ask, answer>>
        /\ today \in Nat /\ today' \in Nat /\ today <= today'
    BY AnswersAssumption DEF IInv, StoreStep, StoreOK
  <1>2. Basics'
    BY <1>1 DEF Basics, PerTool, IsAsk
  <1>3. CASE ask.tool = "none"
    <2>1. UNCHANGED <<held, warranted>>
      BY <1>3 DEF StoreStep, Watch
    <2>2. AnswerInv'
      BY <1>1, <2>1 DEF AnswerInv, StandingProblemIsNamed, NothingIsInvented, FrozenBalanceIsTold,
                        EmptyAnswerIsExplained, Answered
    <2> QED BY <1>1, <1>2, <1>3, <2>2 DEF IInv, Asking
  <1>4. CASE ask.tool # "none"
    <2>1. /\ AskInv /\ answer = NoAnswer
          /\ held' = [problems |-> held.problems \cap Problems', frozen |-> held.frozen \cap Frozen',
                      bare |-> held.bare \/ (Live' # {} /\ Present(accts') = {})]
          /\ warranted' = warranted \cup Problems'
      BY <1>4 DEF IInv, Asking, StoreStep, Watch
    <2>2. /\ held'.problems \subseteq held.problems /\ held'.problems \subseteq Problems'
          /\ held'.frozen \subseteq held.frozen /\ held'.frozen \subseteq Frozen'
          /\ held.bare => held'.bare
          /\ Live' # {} /\ Present(accts') = {} => held'.bare
      BY <2>1
    <2>3. Watched'
      BY <2>1, <2>2 DEF Watched
    <2>4. ReadsSaid'
      BY <1>1, <2>1 DEF AskInv, ReadsSaid, StoreStep
    <2>5. ConnectionsSaid'
      <3> SUFFICES ASSUME ~Pending(ask.todo, "connections")
                   PROVE  /\ \A p \in held'.problems : OfConnection(p) => p \in ask.caveats
                          /\ \A c \in Conns, d \in Domains :
                                Said("stale", c, d) \in held'.problems
                                  => Behind(conns[c].domains[d].success, ask.now)'
        BY <1>1 DEF ConnectionsSaid, Behind
      <3>1. \A p \in held'.problems : OfConnection(p) => p \in ask.caveats
        BY <2>1, <2>2 DEF AskInv, ConnectionsSaid
      <3>2. ASSUME NEW c \in Conns, NEW d \in Domains, Said("stale", c, d) \in held'.problems
            PROVE  Behind(conns[c].domains[d].success, ask.now)'
        <4>1. Behind(conns[c].domains[d].success, ask.now)
          BY <3>2, <2>1, <2>2 DEF AskInv, ConnectionsSaid
        <4>2. (Said("stale", c, d) \in Problems)'
          BY <3>2, <2>2 DEF Said
        <4>3. Behind(conns[c].domains[d].success, today)'
          BY <4>2, StaleShape
        <4>4. conns'[c].domains[d].success # today'
          BY <1>1, <4>3, AnswersAssumption DEF Behind
        <4>5. conns'[c].domains[d].success = conns[c].domains[d].success
          BY <4>4 DEF StoreStep
        <4> QED BY <1>1, <4>1, <4>5 DEF Behind
      <3> QED BY <3>1, <3>2
    <2>6. DomainsSaid' /\ VersionsSaid' /\ Truthful'
      BY <1>1, <2>1, <2>2 DEF AskInv, DomainsSaid, VersionsSaid, Truthful, Named
    <2>7. RosterTold'
      <3>1. \A c \in Conns : conns[c].observed <= conns'[c].observed
                             /\ conns[c].observed \in Nat /\ conns'[c].observed \in Nat
        BY <1>1, AnswersAssumption DEF StoreStep, StoreOK, Connection, Days
      <3>2. ASSUME ~Pending(ask.todo, "roster"), Pending(ask.todo, "observations"),
                   NEW a \in held'.frozen \cap Present(ask.roster)
            PROVE  \/ ask.roster[a].closed
                   \/ conns'[ask.roster[a].conn].observed > ask.roster[a].seen
        <4> ask.tool # "get_pipeline_health"
          BY <3>2, <1>1 DEF Basics, PerTool, Present, NoRoster, NoAccount
        <4>1. Pending(ask.todo, "matched")
          BY <3>2, <1>1 DEF Basics, PerTool
        <4>2. ask.roster \in [Accounts -> Account] /\ ask.roster[a].conn \in Known
          BY <3>2, <4>1, <2>1 DEF AskInv, RosterTold
        <4>3. ask.roster[a].conn \in Conns /\ ask.roster[a].seen \in Nat
          BY <4>2, <3>2, AnswersAssumption DEF Known, Present, Account, Days
        <4> QED BY <4>3, <3>1, <3>2, <2>1, <2>2 DEF AskInv, RosterTold
      <3> QED BY <1>1, <2>1, <2>2, <3>2 DEF AskInv, RosterTold, StoreStep
    <2>8. RowsExplained'
      <3>1. Present(accts) = {} /\ Present(accts') # {} => held.bare
        BY <2>1 DEF AskInv, Watched, StoreStep
      <3> QED BY <1>1, <2>1, <2>2, <3>1 DEF AskInv, RowsExplained, StoreStep
    <2>9. AnswerInv'
      BY <1>1, <2>1 DEF AnswerInv, StandingProblemIsNamed, NothingIsInvented, FrozenBalanceIsTold,
                        EmptyAnswerIsExplained, Answered, NoAnswer
    <2> QED BY <1>1, <1>2, <1>4, <2>1, <2>3, <2>4, <2>5, <2>6, <2>7, <2>8, <2>9
            DEF IInv, AskInv, Asking, NoAnswer
  <1> QED BY <1>3, <1>4

-----------------------------------------------------------------------------
(* A statement keeps the invariant *)

\* What every statement does: the first name goes, caveats are only added, and
\* an alarm among them is warranted.
ReadStep(name) ==
    /\ Asking /\ ask.todo # <<>> /\ Head(ask.todo) = name
    /\ UNCHANGED <<store, today, answer, held, warranted>>
    /\ IsAsk(ask') /\ ask'.tool = ask.tool /\ ask'.todo = Tail(ask.todo)
    /\ ask.caveats \subseteq ask'.caveats
    /\ \A s \in ask'.caveats : s \notin ask.caveats /\ s.kind \in Alarms => s \in warranted
    /\ name \notin {"roster", "matched"} => ask'.roster = ask.roster /\ ask'.lifecycle = ask.lifecycle

\* What the parts of the invariant that a statement does not touch need.
LEMMA ReadStepKeeps ==
  ASSUME IInv, NEW name, ReadStep(name)
  PROVE  /\ StoreOK' /\ Watched' /\ Truthful' /\ AnswerInv' /\ answer = NoAnswer
         /\ name \in Names /\ Pending(ask.todo, name) /\ ~Pending(ask'.todo, name)
         /\ Ordered(ask.todo) /\ Ordered(ask'.todo)
         /\ \A x : x # name => (Pending(ask'.todo, x) <=> Pending(ask.todo, x))
         /\ \A x : Before(x, name) => ~Pending(ask.todo, x)
         /\ PerTool'
         /\ ask.tool \in Tools
         /\ (name # "connections" /\ ask'.read = ask.read /\ ask'.now = ask.now
              => Basics' /\ ReadsSaid' /\ ConnectionsSaid')
         /\ (name # "domains" => DomainsSaid') /\ (name # "versions" => VersionsSaid')
         /\ (/\ ask'.roster = ask.roster /\ ask'.observed = ask.observed
             /\ ask'.lifecycle = ask.lifecycle
             /\ name \notin {"roster", "observations", "matched"}
             => RosterTold')
         /\ (/\ name \notin {"accounts", "coverage", "health", "connections", "roster", "matched"}
             /\ ask'.rows = ask.rows /\ ask'.roster = ask.roster /\ ask'.lifecycle = ask.lifecycle
             => RowsExplained')
  <1>1. /\ StoreOK /\ Basics /\ AskInv /\ AnswerInv /\ answer = NoAnswer
        /\ ask.tool # "none"
    BY DEF IInv, ReadStep, Asking
  <1>2. /\ UNCHANGED <<conns, accts, recorded, versions, today, answer, held, warranted>>
        /\ IsAsk(ask') /\ ask'.tool = ask.tool /\ ask'.todo = Tail(ask.todo)
        /\ ask.caveats \subseteq ask'.caveats /\ ask.todo # <<>> /\ Head(ask.todo) = name
    BY DEF ReadStep, store
  <1>3. /\ name \in Names /\ Pending(ask.todo, name) /\ ~Pending(ask'.todo, name)
        /\ Ordered(ask.todo) /\ Ordered(ask'.todo)
        /\ \A x : x # name => (Pending(ask'.todo, x) <=> Pending(ask.todo, x))
        /\ \A x : Before(x, name) => ~Pending(ask.todo, x)
    BY <1>1, <1>2, Popped DEF Basics
  <1>4. PerTool'
    BY <1>1, <1>2, <1>3 DEF Basics, PerTool, Before, ReadStep
  <1>5. StoreOK' /\ AnswerInv'
    BY <1>1, <1>2 DEF StoreOK, AnswerInv, StandingProblemIsNamed, NothingIsInvented,
                      FrozenBalanceIsTold, EmptyAnswerIsExplained, Answered, Known, Present
  <1>6. Problems' = Problems /\ Frozen' = Frozen /\ Known' = Known /\ Present(accts') = Present(accts)
        /\ Live' = Live
    BY <1>2 DEF Problems, ConnectionProblems, DomainProblems, Live, Frozen, Unlisted, Known, Present
  <1>7. Watched'
    BY <1>1, <1>2, <1>6 DEF AskInv, Watched
  <1>8. Truthful'
    BY <1>1, <1>2 DEF AskInv, Truthful, ReadStep
  <1>9. name # "connections" /\ ask'.read = ask.read /\ ask'.now = ask.now
          => Basics' /\ ReadsSaid' /\ ConnectionsSaid'
    BY <1>1, <1>2, <1>3, <1>4, <1>6 DEF AskInv, Basics, ReadsSaid, ConnectionsSaid, Behind
  <1>10. (name # "domains" => DomainsSaid') /\ (name # "versions" => VersionsSaid')
    BY <1>1, <1>2, <1>3 DEF AskInv, DomainsSaid, VersionsSaid, Named
  <1>11. /\ ask'.roster = ask.roster /\ ask'.observed = ask.observed
         /\ ask'.lifecycle = ask.lifecycle
         /\ name \notin {"roster", "observations", "matched"}
         => RosterTold'
    BY <1>1, <1>2, <1>3, <1>6 DEF AskInv, RosterTold
  <1>12. /\ name \notin {"accounts", "coverage", "health", "connections", "roster", "matched"}
         /\ ask'.rows = ask.rows /\ ask'.roster = ask.roster /\ ask'.lifecycle = ask.lifecycle
         => RowsExplained'
    <2> SUFFICES ASSUME name \notin {"accounts", "coverage", "health", "connections", "roster", "matched"},
                        ask'.rows = ask.rows, ask'.roster = ask.roster, ask'.lifecycle = ask.lifecycle
                 PROVE  RowsExplained'
      OBVIOUS
    <2>1. RowStatement(ask.tool) \in {"accounts", "coverage", "health"}
      BY <1>1 DEF RowStatement, Basics, Tools
    <2>2. ask'.caveats = {} => ask.caveats = {}
      BY <1>2
    <2> QED BY <2>1, <2>2, <1>1, <1>2, <1>3, <1>6 DEF AskInv, RowsExplained
  <1>13. ask.tool \in Tools
    BY <1>1 DEF Basics
  <1> QED BY <1>1, <1>3, <1>4, <1>5, <1>7, <1>8, <1>9, <1>10, <1>11, <1>12, <1>13

\* The same, for a statement that touches the rows, the roster or the reads.
LEMMA InvOf ==
  ASSUME IInv, NEW name, ReadStep(name), Basics', ReadsSaid', ConnectionsSaid', DomainsSaid',
         VersionsSaid', RosterTold', RowsExplained'
  PROVE  IInv'
  <1>1. StoreOK' /\ Watched' /\ Truthful' /\ AnswerInv' /\ answer = NoAnswer /\ ask.tool \in Tools
    BY ReadStepKeeps
  <1>2. UNCHANGED answer /\ ask'.tool = ask.tool /\ ask.tool # "none"
    BY DEF ReadStep, Asking
  <1> QED BY <1>1, <1>2 DEF IInv, AskInv, Asking, NoAnswer

\* A statement that only says something, or keeps what no property reads.
LEMMA PlainStatement ==
  ASSUME IInv, NEW name, ReadStep(name),
         name \in {"holding", "live", "versions", "domains"},
         \A f \in Fields \ {"todo", "holding", "live", "caveats"} : ask'[f] = ask[f],
         name = "domains" => DomainsSaid', name = "versions" => VersionsSaid'
  PROVE  IInv'
  <1>1. /\ ask'.read = ask.read /\ ask'.now = ask.now /\ ask'.roster = ask.roster
        /\ ask'.observed = ask.observed /\ ask'.lifecycle = ask.lifecycle /\ ask'.rows = ask.rows
    BY FieldsAre
  <1> QED BY <1>1, ReadStepKeeps, InvOf

LEMMA Fielded ==
  ASSUME IInv, Asking
  PROVE  IsAsk(ask)
  BY DEF IInv, Basics

\* A statement can only be read while a question is open.
LEMMA AskingWhileTodo == ASSUME IInv, ask.todo # <<>> PROVE Asking
  BY DEF IInv, Asking, NoAsk

LEMMA HoldingKeeps == ASSUME IInv, HoldingTransactions PROVE IInv'
  <1>1. Asking /\ IsAsk(ask)
    BY AskingWhileTodo, Fielded DEF HoldingTransactions, Statement
  <1>2. ReadStep("holding") /\ \A f \in Fields \ {"todo", "holding"} : ask'[f] = ask[f]
    BY <1>1, FieldsAre DEF HoldingTransactions, Statement, ReadStep, IsAsk
  <1> QED BY <1>2, PlainStatement

LEMMA LiveKeeps == ASSUME IInv, ConnectionsOfRoster PROVE IInv'
  <1>1. Asking /\ IsAsk(ask)
    BY AskingWhileTodo, Fielded DEF ConnectionsOfRoster, Statement
  <1>2. ReadStep("live") /\ \A f \in Fields \ {"todo", "live"} : ask'[f] = ask[f]
    BY <1>1, FieldsAre DEF ConnectionsOfRoster, Statement, ReadStep, IsAsk
  <1> QED BY <1>2, PlainStatement

LEMMA VersionsKeeps == ASSUME IInv, DerivationCaveats PROVE IInv'
  <1> DEFINE new == {Said("derivation_version_mismatch", 0, v) : v \in versions \ {"current"}}
  <1>1. Asking /\ IsAsk(ask)
    BY AskingWhileTodo, Fielded DEF DerivationCaveats, Statement
  <1>2. \A s \in new : s.kind \notin Alarms
    BY DEF Said, Alarms
  <1>3. Statement("versions", [ask EXCEPT !.caveats = @ \cup new])
    BY DEF DerivationCaveats
  <1>4. \A p \in Problems : Mismatch(p) => p \in new
    <2> SUFFICES ASSUME NEW p \in Problems, Mismatch(p) PROVE p \in new
      OBVIOUS
    <2>1. \A c \in Live : p \notin ConnectionProblems(c) /\ p \notin DomainProblems(c)
      BY InConnectionProblems, InDomainProblems DEF Said, Mismatch
    <2> QED BY <2>1, InProblems
  <1> HIDE DEF new
  <1>5. /\ ReadStep("versions") /\ \A f \in Fields \ {"todo", "caveats"} : ask'[f] = ask[f]
        /\ new \subseteq ask'.caveats
    BY <1>1, <1>2, <1>3, FieldsAre DEF Statement, ReadStep, IsAsk
  <1>6. held'.problems \subseteq Problems
    BY <1>1, <1>5 DEF IInv, AskInv, Watched, ReadStep, Asking
  <1>7. VersionsSaid'
    BY <1>4, <1>5, <1>6 DEF VersionsSaid
  <1> QED BY <1>5, <1>7, PlainStatement

LEMMA PipelineHealthKeeps == ASSUME IInv, PipelineHealth PROVE IInv'
  <1>1. Asking /\ IsAsk(ask)
    BY AskingWhileTodo, Fielded DEF PipelineHealth, Statement
  <1>2. /\ ReadStep("health") /\ \A f \in Fields \ {"todo", "rows"} : ask'[f] = ask[f]
        /\ ask'.rows = Known
    BY <1>1, FieldsAre DEF PipelineHealth, Statement, ReadStep, IsAsk
  <1>3. ask'.rows = {} => Present(accts') = {}
    <2>1. accts' = accts /\ \A a \in Present(accts) : accts[a].conn \in Known
      BY <1>2 DEF IInv, StoreOK, ReadStep, store
    <2>2. ask'.rows = {} => Known = {}
      BY <1>2
    <2>3. Known = {} => Present(accts) = {}
      BY <2>1 DEF Present
    <2>4. Present(accts') = Present(accts)
      BY <2>1
    <2> QED BY <2>2, <2>3, <2>4
  <1>4. Pending(ask'.todo, "connections") /\ ask'.tool = "get_pipeline_health"
    BY <1>1, <1>2, ReadStepKeeps DEF IInv, Basics, PerTool, Ordered, Before, ReadStep
  <1>5. RowsExplained'
    BY <1>3, <1>4 DEF RowsExplained, OfAccounts
  <1> QED BY <1>2, <1>5, ReadStepKeeps, InvOf, FieldsAre

LEMMA ListAccountsKeeps == ASSUME IInv, ListAccounts PROVE IInv'
  <1>1. Asking /\ IsAsk(ask)
    BY AskingWhileTodo, Fielded DEF ListAccounts, Statement
  <1>2. /\ ReadStep("accounts") /\ \A f \in Fields \ {"todo", "rows"} : ask'[f] = ask[f]
        /\ ask'.rows = Present(accts) /\ UNCHANGED accts
    BY <1>1, FieldsAre DEF ListAccounts, Statement, ReadStep, IsAsk, store
  <1>3. /\ Pending(ask'.todo, "connections") /\ Pending(ask'.todo, "roster")
        /\ Pending(ask'.todo, "matched")
    <2>1. ask.tool # "get_pipeline_health"
      BY <1>1, <1>2, ReadStepKeeps DEF IInv, Basics, PerTool
    <2> QED BY <2>1, <1>2, ReadStepKeeps DEF Ordered, Before, PerTool, ReadStep
  <1>4. ask'.rows = Present(accts')
    <2>1. accts' = accts /\ ask'.rows = Present(accts)
      BY <1>2
    <2> QED BY <2>1
  <1>5. RowsExplained'
    BY <1>3, <1>4 DEF RowsExplained
  <1> QED BY <1>2, <1>5, ReadStepKeeps, InvOf, FieldsAre

LEMMA CoverageKeeps == ASSUME IInv, AccountCoverage PROVE IInv'
  <1> DEFINE new == UncoveredCaveat(Present(accts) \ recorded)
             rows == IF ask.tool = "list_accounts" THEN ask.rows ELSE Present(accts)
  <1>1. Asking /\ IsAsk(ask)
    BY AskingWhileTodo, Fielded DEF AccountCoverage, Statement
  <1>2. \A s \in new : s.kind \notin Alarms
    BY DEF UncoveredCaveat, Said, Alarms
  <1>3. Statement("coverage", [ask EXCEPT !.rows = rows, !.caveats = @ \cup new])
    BY DEF AccountCoverage
  <1> HIDE DEF new, rows
  <1>4. /\ ReadStep("coverage") /\ \A f \in Fields \ {"todo", "rows", "caveats"} : ask'[f] = ask[f]
        /\ ask'.rows = rows /\ UNCHANGED <<accts, held>> /\ ask'.tool = ask.tool
    BY <1>1, <1>2, <1>3, FieldsAre DEF Statement, ReadStep, IsAsk, store
  <1>5. /\ Pending(ask'.todo, "connections") /\ Pending(ask'.todo, "roster")
        /\ Pending(ask'.todo, "matched") /\ ask.tool \in Tools
        /\ Pending(ask'.todo, "accounts") <=> Pending(ask.todo, "accounts")
    <2>1. ask.tool # "get_pipeline_health"
      BY <1>1, <1>4, ReadStepKeeps DEF IInv, Basics, PerTool
    <2> QED BY <2>1, <1>4, ReadStepKeeps DEF Ordered, Before, PerTool
  <1>6. Present(accts') = Present(accts) /\ RowsExplained
    BY <1>1, <1>4 DEF Present, IInv, AskInv
  <1>7. RowsExplained'
    <2>1. CASE ask.tool = "list_accounts"
      <3>1. ask'.rows = ask.rows /\ RowStatement(ask.tool) = "accounts"
        BY <1>4, <2>1 DEF rows, RowStatement
      <3> QED BY <3>1, <2>1, <1>4, <1>5, <1>6 DEF RowsExplained, OfAccounts
    <2>2. CASE ask.tool # "list_accounts"
      <3>1. ask'.rows = Present(accts')
        BY <1>4, <1>6, <2>2 DEF rows
      <3> QED BY <3>1, <1>5 DEF RowsExplained
    <2> QED BY <2>1, <2>2
  <1> QED BY <1>4, <1>7, ReadStepKeeps, InvOf, FieldsAre

-----------------------------------------------------------------------------
(* The roster, from its accounts to their lifecycle *)

LEMMA RosterKeeps == ASSUME IInv, RosterAccounts PROVE IInv'
  <1>1. Asking /\ IsAsk(ask)
    BY AskingWhileTodo, Fielded DEF RosterAccounts, Statement
  <1>2. /\ ReadStep("roster") /\ \A f \in Fields \ {"todo", "roster"} : ask'[f] = ask[f]
        /\ ask'.roster = accts /\ UNCHANGED <<conns, accts, held>> /\ ask'.tool = ask.tool
    BY <1>1, FieldsAre DEF RosterAccounts, Statement, ReadStep, IsAsk, store
  <1>3. /\ Pending(ask'.todo, "observations") /\ Pending(ask'.todo, "matched")
        /\ \A x : x # "roster" => (Pending(ask'.todo, x) <=> Pending(ask.todo, x))
    <2>1. ask.tool # "get_pipeline_health"
      BY <1>1, <1>2, ReadStepKeeps DEF IInv, Basics, PerTool
    <2> QED BY <2>1, <1>2, ReadStepKeeps DEF Ordered, Before, PerTool
  <1>4. /\ StoreOK /\ held.frozen \subseteq Frozen /\ RowsExplained /\ ask.tool \in Tools
        /\ Present(accts') = Present(accts) /\ Known' = Known
    BY <1>1, <1>2, ReadStepKeeps DEF IInv, AskInv, Watched, Present, Known
  <1>5. RosterTold'
    <2>1. \A a \in held.frozen \cap Present(accts) :
              accts[a].closed \/ conns[accts[a].conn].observed > accts[a].seen
      BY <1>4 DEF Frozen, Unlisted
    <2> QED BY <2>1, <1>2, <1>3, <1>4 DEF RosterTold, StoreOK
  <1>6. RowsExplained'
    <2>1. RowStatement(ask.tool) # "roster"
      BY <1>4 DEF RowStatement, Tools
    <2>2. ask'.rows = ask.rows /\ ask'.caveats = ask.caveats
      BY <1>2, FieldsAre
    <2> QED BY <2>1, <2>2, <1>2, <1>3, <1>4 DEF RowsExplained
  <1> QED BY <1>2, <1>5, <1>6, ReadStepKeeps, InvOf, FieldsAre

\* get_pipeline_health reads no roster, so it has nothing to tell of one.
LEMMA HealthTold ==
  ASSUME PerTool', ask'.tool = "get_pipeline_health"
  PROVE  RosterTold'
  BY DEF PerTool, RosterTold, Present, NoRoster, NoAccount

LEMMA ObservationsKeep == ASSUME IInv, RosterObservations PROVE IInv'
  <1> DEFINE seen == [c \in {k \in Known : conns[k].observed # 0} |-> conns[c].observed]
  <1>1. Asking /\ IsAsk(ask)
    BY AskingWhileTodo, Fielded DEF RosterObservations, Statement
  <1>2. /\ ReadStep("observations") /\ \A f \in Fields \ {"todo", "observed"} : ask'[f] = ask[f]
        /\ ask'.observed = seen /\ UNCHANGED <<conns, held>>
    BY <1>1, FieldsAre DEF RosterObservations, Statement, ReadStep, IsAsk, store
  <1>3. /\ Pending(ask.todo, "observations") /\ ~Pending(ask'.todo, "observations")
        /\ ~Pending(ask.todo, "roster") /\ ~Pending(ask'.todo, "roster")
    BY <1>1, <1>2, ReadStepKeeps DEF Before
  <1>4. CASE ask.tool = "get_pipeline_health"
    BY <1>1, <1>2, <1>4, HealthTold, ReadStepKeeps, InvOf, FieldsAre DEF ReadStep
  <1>5. CASE ask.tool # "get_pipeline_health"
    <2>0. Pending(ask'.todo, "matched") /\ Pending(ask.todo, "matched")
      BY <1>1, <1>2, <1>3, <1>5, ReadStepKeeps DEF IInv, Basics, PerTool
    <2>1. RosterTold /\ ask'.roster = ask.roster /\ Known' = Known
      BY <1>1, <1>2, FieldsAre DEF IInv, AskInv, Known
    <2>2. ask.roster \in [Accounts -> Account] /\ \A a \in Present(ask.roster) : ask.roster[a].conn \in Known
      BY <2>0, <2>1, <1>3 DEF RosterTold
    <2>3. ASSUME NEW a \in held.frozen \cap Present(ask.roster), ~ask.roster[a].closed
          PROVE  ask.roster[a].conn \in DOMAIN seen /\ ask.roster[a].seen < seen[ask.roster[a].conn]
      <3>1. conns[ask.roster[a].conn].observed > ask.roster[a].seen
        BY <2>1, <2>3, <1>3 DEF RosterTold
      <3>2. ask.roster[a].conn \in Known /\ ask.roster[a].seen \in Nat
        BY <2>2, <2>3 DEF Present, Account, Days
      <3>3. conns[ask.roster[a].conn].observed \in Nat
        BY <3>2 DEF IInv, StoreOK, Connection, Days, Known
      <3> QED BY <3>1, <3>2, <3>3
    <2>4. RosterTold'
      BY <2>0, <2>1, <2>2, <2>3, <1>2, <1>3 DEF RosterTold
    <2> QED BY <2>4, <1>2, ReadStepKeeps, InvOf, FieldsAre
  <1> QED BY <1>4, <1>5

LEMMA FindingsKeep == ASSUME IInv, EmptyRosterFindings PROVE IInv'
  <1> DEFINE new == {Said("roster_observed_empty", c, "roster") : c \in EmptyRosters \cap ask.rows}
  <1>1. Asking /\ IsAsk(ask)
    BY AskingWhileTodo, Fielded DEF EmptyRosterFindings, Statement
  <1>2. \A s \in new : s.kind \notin Alarms
    BY DEF Said, Alarms
  <1>3. Statement("findings", [ask EXCEPT !.observed = <<>>, !.live = {}, !.caveats = @ \cup new])
    BY DEF EmptyRosterFindings
  <1> HIDE DEF new
  <1>4. /\ ReadStep("findings")
        /\ \A f \in Fields \ {"todo", "observed", "live", "caveats"} : ask'[f] = ask[f]
    BY <1>1, <1>2, <1>3, FieldsAre DEF Statement, ReadStep, IsAsk
  <1>5. ask'.tool = "get_pipeline_health"
    BY <1>1, <1>4, ReadStepKeeps DEF IInv, Basics, PerTool, ReadStep
  <1>6. RosterTold'
    BY <1>4, <1>5, HealthTold, ReadStepKeeps, FieldsAre
  <1> QED BY <1>4, <1>6, ReadStepKeeps, InvOf, FieldsAre

LEMMA LifecycleKeeps == ASSUME IInv, AccountLifecycle PROVE IInv'
  <1> DEFINE inactive == {a \in Present(ask.roster) : LifecycleOf(a) # "active"}
             named == {ask.roster[a].conn : a \in inactive}
             none == When(inactive # {}, Said("account_no_longer_active", 0, "roster"))
             empty == {Said("roster_observed_empty", c, "roster") : c \in EmptyRosters \cap named}
             cycle == [a \in Present(ask.roster) |-> LifecycleOf(a)]
  <1>1. Asking /\ IsAsk(ask)
    BY AskingWhileTodo, Fielded DEF AccountLifecycle, Statement
  <1>2. \A s \in none \cup empty : s.kind \notin Alarms
    BY DEF When, Said, Alarms
  <1>3. Statement("matched", [ask EXCEPT !.lifecycle = cycle, !.roster = NoRoster, !.observed = <<>>,
                                         !.live = {}, !.caveats = @ \cup none \cup empty])
    BY DEF AccountLifecycle
  <1> HIDE DEF none, empty, cycle
  <1>4. /\ ReadStep("matched")
        /\ \A f \in Fields \ {"todo", "lifecycle", "roster", "observed", "live", "caveats"} :
              ask'[f] = ask[f]
        /\ ask'.lifecycle = cycle /\ UNCHANGED <<accts, held>> /\ ask'.tool = ask.tool
        /\ ask.caveats \subseteq ask'.caveats
    BY <1>1, <1>2, <1>3, FieldsAre DEF Statement, ReadStep, IsAsk, store
  <1>5. /\ Pending(ask.todo, "matched") /\ ~Pending(ask'.todo, "matched")
        /\ ~Pending(ask.todo, "roster") /\ ~Pending(ask.todo, "observations")
        /\ \A x : x # "matched" => (Pending(ask'.todo, x) <=> Pending(ask.todo, x))
        /\ ask.tool \in Tools
    BY <1>1, <1>4, ReadStepKeeps DEF Before
  <1>6. RosterTold /\ RowsExplained /\ Present(accts') = Present(accts)
    BY <1>1, <1>4 DEF IInv, AskInv, Present
  <1>7. RosterTold'
    <2>1. \A a \in held.frozen \cap Present(ask.roster) : LifecycleOf(a) # "active"
      BY <1>5, <1>6 DEF RosterTold, LifecycleOf
    <2>2. \A a \in held.frozen \cap DOMAIN cycle : cycle[a] # "active"
      BY <2>1 DEF cycle
    <2> QED BY <2>2, <1>4, <1>5 DEF RosterTold
  <1>8. RowsExplained'
    <2>1. RowStatement(ask.tool) # "matched"
      BY <1>5 DEF RowStatement, Tools
    <2>2. ask'.rows = ask.rows /\ (ask'.caveats = {} => ask.caveats = {})
      BY <1>4, FieldsAre
    <2>3. DOMAIN cycle = Present(ask.roster)
      BY DEF cycle
    <2> QED BY <2>1, <2>2, <2>3, <1>4, <1>5, <1>6 DEF RowsExplained
  <1> QED BY <1>4, <1>7, <1>8, ReadStepKeeps, InvOf, FieldsAre
-----------------------------------------------------------------------------
(* The connections and their domains *)

\* An alarm of a connection's row is a problem of it.
LEMMA AlarmIsProblem ==
  ASSUME NEW c, NEW s \in ConnectionCaveats(c, today), s.kind \in Alarms
  PROVE  s \in ConnectionProblems(c)
  <1>1. s \notin When(conns[c].consent >= today /\ conns[c].consent - today <= WarnDays,
                     Said("partial", c, "consent"))
    BY DEF When, Said, Alarms
  <1> QED BY <1>1 DEF ConnectionCaveats, ConsentCaveats, ConnectionProblems

LEMMA ConnectionsKeep == ASSUME IInv, PipelineWarnings PROVE IInv'
  <1> DEFINE said == UNION {ConnectionCaveats(c, today) : c \in Live}
             none == When(Live = {}, Said("partial", 0, "nothing enrolled"))
             read == [c \in Live |-> ConnectionFreshness(c, today)]
  <1>1. Asking /\ IsAsk(ask)
    BY AskingWhileTodo, Fielded DEF PipelineWarnings, Statement
  <1>2. \A p : p \in said <=> \E c \in Live : p \in ConnectionCaveats(c, today)
    BY Zenon
  <1>3. StoreOK /\ Watched /\ AskInv /\ RowsExplained /\ today \in Nat
    BY <1>1, AnswersAssumption DEF IInv, AskInv, StoreOK
  <1>4. \A s \in none \cup said : s.kind \in Alarms => s \in Problems
    <2>1. \A s \in none : s.kind \notin Alarms
      <3>1. none \subseteq {Said("partial", 0, "nothing enrolled")}
        BY DEF When
      <3>2. Said("partial", 0, "nothing enrolled").kind = "partial"
        BY DEF Said
      <3> HIDE DEF none
      <3> QED BY <3>1, <3>2 DEF Alarms
    <2> HIDE DEF none, said
    <2> SUFFICES ASSUME NEW s \in none \cup said, s.kind \in Alarms PROVE s \in Problems
      OBVIOUS
    <2>2. PICK c \in Live : s \in ConnectionCaveats(c, today)
      BY <1>2, <2>1
    <2>3. s \in ConnectionProblems(c)
      BY <2>2, AlarmIsProblem
    <2> QED BY <2>2, <2>3, InProblems
  <1>5. \A p \in held.problems : OfConnection(p) => p \in said
    <2> SUFFICES ASSUME NEW p \in held.problems, OfConnection(p) PROVE p \in said
      OBVIOUS
    <2>1. p \in Problems /\ ~Mismatch(p) /\ p.why \in ConnectionWhys
      BY <1>3 DEF Watched, OfConnection
    <2>2. PICK c \in Live : p \in ConnectionProblems(c) \/ p \in DomainProblems(c)
      BY <2>1, InProblems DEF Said, Mismatch
    <2>3. p \notin DomainProblems(c)
      BY <2>1, InDomainProblems DEF Said, ConnectionWhys, Domains
    <2>4. p \in ConnectionCaveats(c, today)
      BY <2>2, <2>3 DEF ConnectionCaveats, ConsentCaveats, ConnectionProblems, When
    <2> QED BY <2>4, <1>2
  <1>6. \A c \in Live :
          /\ read[c].degraded => Said("degraded", c, "status") \in said
          /\ read[c].never => Said("partial", c, "never") \in said
          /\ read[c].stale => Said("stale", c, "success") \in said
    <2> SUFFICES ASSUME NEW c \in Live
                 PROVE  /\ read[c].degraded => Said("degraded", c, "status") \in ConnectionCaveats(c, today)
                        /\ read[c].never => Said("partial", c, "never") \in ConnectionCaveats(c, today)
                        /\ read[c].stale => Said("stale", c, "success") \in ConnectionCaveats(c, today)
      BY <1>2
    <2> QED BY DEF ConnectionFreshness, ConnectionCaveats, When
  <1>7. Live = {} => none # {}
    BY DEF When
  <1>8. Statement("connections", [ask EXCEPT !.now = today, !.read = read,
                                             !.caveats = @ \cup none \cup said])
    BY DEF PipelineWarnings
  <1>9. DOMAIN read = Live
    OBVIOUS
  <1> HIDE DEF said, none, read
  <1>10. /\ ReadStep("connections")
         /\ \A f \in Fields \ {"todo", "now", "read", "caveats"} : ask'[f] = ask[f]
         /\ ask'.now = today /\ ask'.read = read /\ ask'.caveats = ask.caveats \cup none \cup said
         /\ UNCHANGED <<conns, accts, held, today>> /\ ask'.tool = ask.tool /\ IsAsk(ask')
    <2>1. \A s \in none \cup said : s.kind \in Alarms => s \in warranted
      BY <1>3, <1>4 DEF Watched
    <2> QED BY <2>1, <1>1, <1>8, FieldsAre DEF Statement, ReadStep, IsAsk, store
  <1>11. Basics'
    BY <1>3, <1>10, ReadStepKeeps DEF Basics
  <1>12. ReadsSaid'
    BY <1>6, <1>9, <1>10 DEF ReadsSaid, Live, Known
  <1>13. ConnectionsSaid'
    <2>1. ASSUME NEW c \in Conns, NEW d \in Domains, Said("stale", c, d) \in held.problems
          PROVE  Behind(conns[c].domains[d].success, today)
      <3>1. Said("stale", c, d) \in Problems
        BY <1>3, <2>1 DEF Watched
      <3>2. PICK k \in Live : Said("stale", c, d) \in ConnectionProblems(k)
                               \/ Said("stale", c, d) \in DomainProblems(k)
        BY <3>1, InProblems DEF Said
      <3>3. Said("stale", c, d) \notin ConnectionProblems(k)
        BY InConnectionProblems DEF Said, Domains
      <3> QED BY <3>2, <3>3, InDomainProblems DEF Said
    <2> QED BY <1>5, <1>10, <2>1 DEF ConnectionsSaid
  <1>14. RosterTold'
    BY <1>10, ReadStepKeeps, FieldsAre
  <1>15. RowsExplained'
    <2>1. /\ ~Pending(ask.todo, RowStatement(ask.tool)) /\ RowStatement(ask.tool) # "connections"
          /\ \A x : x # "connections" => (Pending(ask'.todo, x) <=> Pending(ask.todo, x))
      BY <1>10, ReadStepKeeps DEF RowStatement, Tools, Before
    <2>2. ask'.rows = ask.rows /\ ask'.roster = ask.roster /\ ask'.lifecycle = ask.lifecycle
      BY <1>10, FieldsAre
    <2>3. Present(accts') = Present(accts)
      BY <1>10
    <2>4. ask'.rows = {} /\ ask'.caveats = {} => held.bare
      BY <1>3, <1>7, <1>10, <2>1, <2>2 DEF RowsExplained, Watched
    <2> QED BY <1>3, <1>10, <2>1, <2>2, <2>3, <2>4 DEF RowsExplained
  <1> QED BY <1>10, <1>11, <1>12, <1>13, <1>14, <1>15, ReadStepKeeps, InvOf

LEMMA DomainsKeep == ASSUME IInv, ReadDomains PROVE IInv'
  <1> DEFINE said == UNION {DomainCaveats(c) : c \in WithDomains}
             new == GrantedCaveats \cup said
  <1>1. Asking /\ IsAsk(ask)
    BY AskingWhileTodo, Fielded DEF ReadDomains, Statement
  <1>2. \A p : p \in said <=> \E c \in WithDomains : p \in DomainCaveats(c)
    BY Zenon
  <1> HIDE DEF said, new
  <1>3. /\ StoreOK /\ Watched /\ AskInv /\ ReadsSaid /\ ConnectionsSaid /\ WithDomains \subseteq DOMAIN ask.read
        /\ today \in Nat /\ ask.now \in Nat /\ ask.now <= today
    BY <1>1, AnswersAssumption DEF IInv, AskInv, StoreOK, Basics, ReadDomains
  <1>4. \A c, p : p \in DomainCaveats(c) <=>
           \E d \in Domains :
             \/ /\ conns[c].domains[d].failed /\ ~ask.read[c].degraded
                /\ p = Said("degraded", c, d)
             \/ /\ conns[c].domains[d].present /\ conns[c].domains[d].success = 0
                /\ ~conns[c].domains[d].failed /\ ~ask.read[c].never /\ p = Said("partial", c, d)
             \/ /\ Behind(conns[c].domains[d].success, ask.now) /\ ~ask.read[c].stale
                /\ p = Said("stale", c, d)
    BY DEF DomainCaveats, When
  <1>5. \A s \in new : s.kind \in Alarms => s \in Problems
    <2>1. \A s \in GrantedCaveats : s.kind \notin Alarms
      BY DEF GrantedCaveats, Said, Alarms
    <2> SUFFICES ASSUME NEW s \in new, s.kind \in Alarms PROVE s \in Problems
      OBVIOUS
    <2>2. PICK c \in WithDomains : s \in DomainCaveats(c)
      BY <1>2, <2>1 DEF new
    <2>3. c \in Live
      BY DEF WithDomains
    <2>4. PICK d \in Domains :
             \/ /\ conns[c].domains[d].failed /\ ~ask.read[c].degraded
                /\ s = Said("degraded", c, d)
             \/ /\ conns[c].domains[d].present /\ conns[c].domains[d].success = 0
                /\ ~conns[c].domains[d].failed /\ ~ask.read[c].never /\ s = Said("partial", c, d)
             \/ /\ Behind(conns[c].domains[d].success, ask.now) /\ ~ask.read[c].stale
                /\ s = Said("stale", c, d)
      BY <2>2, <1>4
    <2>5. conns[c].domains[d].success \in Nat
      BY <1>3, <2>3 DEF StoreOK, Connection, Days, Live
    <2>6. Behind(conns[c].domains[d].success, ask.now) => Behind(conns[c].domains[d].success, today)
      BY <1>3, <2>5, AnswersAssumption DEF Behind
    <2>7. s \in DomainProblems(c)
      BY <2>4, <2>6, InDomainProblems DEF Alarms
    <2> QED BY <2>3, <2>7, InProblems
  <1>6. Statement("domains", [ask EXCEPT !.caveats = @ \cup GrantedCaveats \cup said])
    BY DEF ReadDomains, said
  <1>7. \A s \in new : s.kind \in Alarms => s \in warranted
    BY <1>3, <1>5 DEF Watched
  <1>8. /\ ReadStep("domains") /\ \A f \in Fields \ {"todo", "caveats"} : ask'[f] = ask[f]
        /\ ask'.caveats = ask.caveats \cup GrantedCaveats \cup said
    BY <1>1, <1>6, <1>7, FieldsAre DEF Statement, ReadStep, IsAsk, new
  <1>9. ~Pending(ask.todo, "connections") /\ UNCHANGED held
    BY <1>8, ReadStepKeeps DEF Before, ReadStep
  <1>10. DomainsSaid'
    <2> SUFFICES ASSUME NEW p \in held.problems, OfDomain(p) PROVE Named(p)'
      BY <1>9 DEF DomainsSaid, Named
    <2>1. p \in Problems /\ ~Mismatch(p) /\ p.why \in Domains
      BY <1>3 DEF Watched, OfDomain
    <2>2. PICK c \in Live : p \in ConnectionProblems(c) \/ p \in DomainProblems(c)
      BY <2>1, InProblems DEF Said, Mismatch
    <2>3. p \notin ConnectionProblems(c)
      BY <2>1, InConnectionProblems DEF Said, Domains
    <2>4. PICK d \in Domains :
             \/ conns[c].domains[d].failed /\ p = Said("degraded", c, d)
             \/ /\ conns[c].domains[d].present /\ conns[c].domains[d].success = 0
                /\ ~conns[c].domains[d].failed /\ p = Said("partial", c, d)
             \/ Behind(conns[c].domains[d].success, today) /\ p = Said("stale", c, d)
      BY <2>2, <2>3, InDomainProblems
    <2>5. c \in Conns /\ conns[c].domains[d].present
      BY <2>4, <1>3 DEF Live, StoreOK, Behind
    <2>6. c \in WithDomains /\ c \in DOMAIN ask.read
      BY <2>5, <1>3 DEF WithDomains
    <2>7. CASE conns[c].domains[d].failed /\ p = Said("degraded", c, d)
      <3>1. CASE ask.read[c].degraded
        <4>1. Said("degraded", c, "status") \in ask'.caveats
          BY <3>1, <2>6, <1>3, <1>8 DEF ReadsSaid
        <4> QED BY <4>1, <2>7 DEF Named, Said
      <3>2. CASE ~ask.read[c].degraded
        <4>1. p \in ask'.caveats
          BY <3>2, <2>6, <2>7, <1>2, <1>4, <1>8
        <4> QED BY <4>1 DEF Named
      <3> QED BY <3>1, <3>2
    <2>8. CASE /\ conns[c].domains[d].present /\ conns[c].domains[d].success = 0
               /\ ~conns[c].domains[d].failed /\ p = Said("partial", c, d)
      <3>1. CASE ask.read[c].never
        <4>1. Said("partial", c, "never") \in ask'.caveats
          BY <3>1, <2>6, <1>3, <1>8 DEF ReadsSaid
        <4> QED BY <4>1, <2>8 DEF Named, Said
      <3>2. CASE ~ask.read[c].never
        <4>1. p \in ask'.caveats
          BY <3>2, <2>6, <2>8, <1>2, <1>4, <1>8
        <4> QED BY <4>1 DEF Named
      <3> QED BY <3>1, <3>2
    <2>9. CASE Behind(conns[c].domains[d].success, today) /\ p = Said("stale", c, d)
      <3>1. CASE ask.read[c].stale
        <4>1. Said("stale", c, "success") \in ask'.caveats
          BY <3>1, <2>6, <1>3, <1>8 DEF ReadsSaid
        <4> QED BY <4>1, <2>9 DEF Named, Said
      <3>2. CASE ~ask.read[c].stale
        <4>1. Behind(conns[c].domains[d].success, ask.now)
          BY <2>5, <2>9, <1>3, <1>9 DEF ConnectionsSaid
        <4>2. p \in ask'.caveats
          BY <3>2, <4>1, <2>6, <2>9, <1>2, <1>4, <1>8
        <4> QED BY <4>2 DEF Named
      <3> QED BY <3>1, <3>2
    <2> QED BY <2>4, <2>7, <2>8, <2>9
  <1> QED BY <1>8, <1>10, PlainStatement

-----------------------------------------------------------------------------
(* A question opens and closes *)

\* Nothing is being asked: the empty answer in the making keeps Basics.
LEMMA NothingAsked ==
  ASSUME StoreOK', ask' = NoAsk
  PROVE  Basics'
  <1>1. Ordered(<<>>) /\ \A x : ~Pending(<<>>, x)
    BY DEF Ordered, Pending
  <1>2. IsAsk(NoAsk)
    BY DEF IsAsk, Fields, NoAsk
  <1>3. NoAsk.todo = <<>> /\ NoAsk.tool = "none" /\ NoAsk.now = 0
    BY DEF NoAsk
  <1> QED BY <1>1, <1>2, <1>3, AnswersAssumption DEF Basics, PerTool, StoreOK

LEMMA AskKeeps == ASSUME IInv, NEW tool \in Tools, Ask(tool) PROVE IInv'
  <1>1. /\ ask.tool = "none" /\ answer = NoAnswer /\ StoreOK /\ AnswerInv /\ ask = NoAsk
        /\ ask' = [NoAsk EXCEPT !.tool = tool, !.todo = Statements(tool)]
        /\ held' = [problems |-> Problems, frozen |-> Frozen, bare |-> Live # {} /\ Present(accts) = {}]
        /\ warranted' = Problems
        /\ UNCHANGED <<conns, accts, recorded, versions, today, writes, answer>>
    BY DEF Ask, IInv, store
  <1>2. /\ IsAsk(ask') /\ ask'.tool = tool /\ ask'.todo = Statements(tool) /\ ask'.now = 0
        /\ ask'.caveats = {} /\ ask'.rows = {} /\ ask'.read = <<>>
    BY <1>1 DEF IsAsk, Fields, NoAsk
  <1>3. /\ Problems' = Problems /\ Frozen' = Frozen /\ Known' = Known /\ Present(accts') = Present(accts)
        /\ Live' = Live
    BY <1>1 DEF Problems, ConnectionProblems, DomainProblems, Live, Frozen, Unlisted, Known, Present
  <1>4. StoreOK'
    BY <1>1, <1>3 DEF StoreOK
  <1>5. /\ Ordered(ask'.todo) /\ PerTool'
        /\ \A x \in {"connections", "domains", "versions", RowStatement(tool)} : Pending(ask'.todo, x)
        /\ tool # "get_pipeline_health" =>
              \A x \in {"roster", "observations", "matched"} : Pending(ask'.todo, x)
    <2>1. ask'.roster = NoRoster /\ ask'.lifecycle = <<>>
      BY <1>1 DEF NoAsk
    <2> QED BY <2>1, <1>2, StatementsOrdered DEF PerTool
  <1>6. Basics'
    BY <1>2, <1>4, <1>5, AnswersAssumption DEF Basics, StoreOK
  <1>7. Watched'
    BY <1>1, <1>3 DEF Watched
  <1>8. ReadsSaid'
    BY <1>2 DEF ReadsSaid
  <1>9. ConnectionsSaid' /\ DomainsSaid' /\ VersionsSaid' /\ Truthful'
    BY <1>2, <1>5 DEF ConnectionsSaid, DomainsSaid, VersionsSaid, Truthful
  <1>10. RosterTold' /\ RowsExplained'
    <2>1. CASE tool = "get_pipeline_health"
      BY <2>1, <1>2, <1>5, HealthTold DEF RowsExplained, OfAccounts
    <2>2. CASE tool # "get_pipeline_health"
      BY <2>2, <1>2, <1>5 DEF RosterTold, RowsExplained
    <2> QED BY <2>1, <2>2
  <1>11. AnswerInv' /\ answer' = NoAnswer
    BY <1>1 DEF AnswerInv, StandingProblemIsNamed, NothingIsInvented, FrozenBalanceIsTold,
                EmptyAnswerIsExplained, Answered, NoAnswer
  <1> QED BY <1>2, <1>4, <1>6, <1>7, <1>8, <1>9, <1>10, <1>11
          DEF IInv, AskInv, NoAnswer, Tools

LEMMA NewcomerKeeps == ASSUME IInv, ReadDomainsOfNewcomer PROVE IInv'
  <1>1. /\ StoreOK /\ ask' = NoAsk /\ UNCHANGED <<conns, accts, recorded, versions, today>>
        /\ answer' = [NoAnswer EXCEPT !.tool = ask.tool, !.outcome = "internal_error"]
        /\ ask.tool \in Tools
    BY AskingWhileTodo DEF ReadDomainsOfNewcomer, IInv, store, Basics, Asking
  <1>2. StoreOK'
    BY <1>1 DEF StoreOK, Known, Present
  <1>3. answer'.tool \in Tools /\ answer'.outcome = "internal_error" /\ ask'.tool = "none"
    BY <1>1 DEF NoAnswer, NoAsk
  <1>4. AnswerInv'
    BY <1>3 DEF AnswerInv, StandingProblemIsNamed, NothingIsInvented, FrozenBalanceIsTold,
                EmptyAnswerIsExplained, Answered
  <1> QED BY <1>1, <1>2, <1>3, <1>4, NothingAsked DEF IInv, Asking, Tools

LEMMA AnswerKeeps == ASSUME IInv, Answer PROVE IInv'
  <1>1. /\ StoreOK /\ AskInv /\ ask' = NoAsk /\ ask.todo = <<>> /\ ask.tool \in Tools
        /\ UNCHANGED <<conns, accts, recorded, versions, today, held, warranted>>
        /\ answer' = [tool |-> ask.tool, outcome |-> "answered", rows |-> ask.rows,
                      lifecycle |-> ask.lifecycle, caveats |-> ask.caveats]
    BY DEF Answer, IInv, store, Basics, Asking
  <1>2. StoreOK'
    BY <1>1 DEF StoreOK, Known, Present
  <1>3. \A x : ~Pending(ask.todo, x)
    BY <1>1 DEF Pending
  <1>4. /\ answer'.tool = ask.tool /\ answer'.rows = ask.rows /\ answer'.lifecycle = ask.lifecycle
        /\ answer'.caveats = ask.caveats /\ ask'.tool = "none"
    BY <1>1 DEF NoAsk
  <1>5. StandingProblemIsNamed'
    <2> SUFFICES ASSUME NEW p \in held.problems PROVE Named(p)
      BY <1>1, <1>4 DEF StandingProblemIsNamed, Named
    <2>1. p \in Problems
      BY <1>1 DEF AskInv, Watched
    <2>2. CASE Mismatch(p)
      <3>1. p \in ask.caveats
        BY <1>1, <1>3, <2>2 DEF AskInv, VersionsSaid
      <3> QED BY <3>1 DEF Named
    <2>3. CASE ~Mismatch(p)
      <3>1. PICK c \in Live : p \in ConnectionProblems(c) \/ p \in DomainProblems(c)
        BY <2>1, <2>3, InProblems DEF Said, Mismatch
      <3>2. CASE p \in ConnectionProblems(c)
        <4>1. OfConnection(p)
          BY <2>3, <3>2, InConnectionProblems DEF Said, OfConnection, ConnectionWhys
        <4>2. p \in ask.caveats
          BY <1>1, <1>3, <4>1 DEF AskInv, ConnectionsSaid
        <4> QED BY <4>2 DEF Named
      <3>3. CASE p \in DomainProblems(c)
        <4>1. OfDomain(p)
          BY <2>3, <3>3, InDomainProblems DEF Said, OfDomain
        <4> QED BY <1>1, <1>3, <4>1 DEF AskInv, DomainsSaid
      <3> QED BY <3>1, <3>2, <3>3
    <2> QED BY <2>2, <2>3
  <1>6. NothingIsInvented'
    BY <1>1, <1>4 DEF NothingIsInvented, AskInv, Truthful, Alarms
  <1>7. FrozenBalanceIsTold'
    BY <1>1, <1>3, <1>4 DEF FrozenBalanceIsTold, AskInv, RosterTold
  <1>8. EmptyAnswerIsExplained'
    BY <1>1, <1>3, <1>4 DEF EmptyAnswerIsExplained, AskInv, RowsExplained
  <1>9. answer'.tool \in OfAccounts => answer'.rows \subseteq DOMAIN answer'.lifecycle
    BY <1>1, <1>3, <1>4 DEF AskInv, RowsExplained
  <1>10. AnswerInv'
    BY <1>5, <1>6, <1>7, <1>8, <1>9 DEF AnswerInv
  <1> QED BY <1>1, <1>2, <1>4, <1>10, NothingAsked DEF IInv, Asking, Tools

-----------------------------------------------------------------------------
(* The theorems *)

LEMMA InitHolds == Init => IInv
  <1> SUFFICES ASSUME Init PROVE IInv
    OBVIOUS
  <1>1. /\ conns = [c \in Conns |-> NoConnection] /\ accts = NoRoster /\ recorded = {} /\ today = 1
        /\ ask = NoAsk /\ answer = NoAnswer
    BY DEF Init
  <1>2. Present(accts) = {} /\ accts \in [Accounts -> Account]
    BY <1>1, AnswersAssumption DEF Present, NoRoster, NoAccount, Account, Days
  <1>3. conns \in [Conns -> Connection]
    <2>1. NoConnection \in Connection
      BY AnswersAssumption DEF NoConnection, Connection, NoDomain, Days
    <2> QED BY <1>1, <2>1
  <1>4. \A c \in Conns, d \in Domains : /\ ~conns[c].domains[d].failed
                                        /\ conns[c].domains[d].success = 0
    BY <1>1 DEF NoConnection, NoDomain
  <1>5. StoreOK
    BY <1>1, <1>2, <1>3, <1>4, AnswersAssumption DEF StoreOK
  <1>6. Basics
    <2>1. Ordered(<<>>) /\ \A x : ~Pending(<<>>, x)
      BY DEF Ordered, Pending
    <2>2. IsAsk(NoAsk) /\ NoAsk.todo = <<>> /\ NoAsk.tool = "none" /\ NoAsk.now = 0
      BY DEF IsAsk, Fields, NoAsk
    <2> QED BY <1>1, <2>1, <2>2 DEF Basics, PerTool
  <1>7. AnswerInv /\ ask.tool = "none" /\ answer.tool = "none"
    BY <1>1 DEF AnswerInv, StandingProblemIsNamed, NothingIsInvented, FrozenBalanceIsTold,
                EmptyAnswerIsExplained, Answered, NoAnswer, NoAsk
  <1> QED BY <1>1, <1>5, <1>6, <1>7 DEF IInv, Asking

LEMMA StepKeeps == IInv /\ [Next]_vars => IInv'
  <1> SUFFICES ASSUME IInv, [Next]_vars PROVE IInv'
    OBVIOUS
  <1>1. CASE Write \/ NextDay
    <2>1. StoreStep
      BY <1>1, WriteStep DEF IInv
    <2> QED BY <2>1, StoreStepKeeps
  <1>2. CASE Read
    BY <1>2, AskKeeps, ListAccountsKeeps, PipelineHealthKeeps, CoverageKeeps, RosterKeeps,
       ObservationsKeep, LiveKeeps, FindingsKeep, LifecycleKeeps, ConnectionsKeep, HoldingKeeps, DomainsKeep,
       NewcomerKeeps, VersionsKeeps, AnswerKeeps DEF Read
  <1>3. CASE UNCHANGED vars
    <2>1. UNCHANGED <<conns, accts, recorded, versions, today, writes, ask, answer, held, warranted>>
      BY <1>3 DEF vars, store
    <2>2. /\ Problems' = Problems /\ Frozen' = Frozen /\ Known' = Known
          /\ Present(accts') = Present(accts) /\ Live' = Live
      BY <2>1 DEF Problems, ConnectionProblems, DomainProblems, Live, Frozen, Unlisted, Known, Present
    <2>3. StoreOK' /\ Basics'
      BY <2>1, <2>2 DEF IInv, StoreOK, Basics, PerTool
    <2>4. AnswerInv'
      BY <2>1 DEF IInv, AnswerInv, StandingProblemIsNamed, NothingIsInvented, FrozenBalanceIsTold,
                  EmptyAnswerIsExplained, Answered
    <2>5. Asking => AskInv'
      <3> SUFFICES ASSUME AskInv PROVE AskInv'
        BY DEF IInv
      <3>1. Watched' /\ ReadsSaid' /\ Truthful' /\ VersionsSaid'
        BY <2>1, <2>2 DEF AskInv, Watched, ReadsSaid, Truthful, VersionsSaid
      <3>2. ConnectionsSaid' /\ DomainsSaid'
        BY <2>1, <2>2 DEF AskInv, ConnectionsSaid, DomainsSaid, Named, Behind
      <3>3. RosterTold' /\ RowsExplained'
        BY <2>1, <2>2 DEF AskInv, RosterTold, RowsExplained
      <3> QED BY <3>1, <3>2, <3>3 DEF AskInv
    <2> QED BY <2>1, <2>3, <2>4, <2>5 DEF IInv, Asking
  <1> QED BY <1>1, <1>2, <1>3 DEF Next

\* At every instant each statement has answered for what it read: the part of
\* held that is its own is in the caveats, the lifecycle or the rows so far.
THEOREM Invariant == Spec => []IInv
  BY InitHolds, StepKeeps, PTL DEF Spec

\* Every state of a question and of the store it reads is well formed; an
\* answer about accounts has a lifecycle for each of its rows.
THEOREM TypeCorrect == Spec => []TypeOK
  <1>1. IInv => TypeOK
    <2> SUFFICES ASSUME IInv PROVE TypeOK
      OBVIOUS
    <2>1. DOMAIN ask.read \subseteq Known
      <3>1. CASE Asking
        BY <3>1 DEF IInv, AskInv, ReadsSaid
      <3>2. CASE ~Asking
        BY <3>2 DEF IInv, Asking, NoAsk
      <3> QED BY <3>1, <3>2
    <2> QED BY <2>1 DEF IInv, StoreOK, Basics, AnswerInv, TypeOK, OfAccounts, Answered
  <1> QED BY <1>1, Invariant, PTL

\* A problem that stood at every instant of the question is named in the
\* answer, whatever was committed between its statements.
THEOREM ProblemIsAlwaysNamed == Spec => []StandingProblemIsNamed
  <1>1. IInv => StandingProblemIsNamed
    BY DEF IInv, AnswerInv
  <1> QED BY <1>1, Invariant, PTL

\* A caveat of data that stopped, is late or was cut short was so at some
\* instant of the question.
THEOREM NothingIsEverInvented == Spec => []NothingIsInvented
  <1>1. IInv => NothingIsInvented
    BY DEF IInv, AnswerInv
  <1> QED BY <1>1, Invariant, PTL

\* An account closed or off its roster throughout is never shown as active.
THEOREM FrozenIsAlwaysTold == Spec => []FrozenBalanceIsTold
  <1>1. IInv => FrozenBalanceIsTold
    BY DEF IInv, AnswerInv
  <1> QED BY <1>1, Invariant, PTL

\* An answer that shows nothing and says nothing was given while, at some
\* instant, a live connection had no account.
THEOREM EmptyIsAlwaysExplained == Spec => []EmptyAnswerIsExplained
  <1>1. IInv => EmptyAnswerIsExplained
    BY DEF IInv, AnswerInv
  <1> QED BY <1>1, Invariant, PTL
=============================================================================
