----------------------------- MODULE PagedRead -----------------------------
(***************************************************************************)
(* A caller walks query_transactions or query_investment_transactions page *)
(* by page while a sync writes the table.  One page is several statements, *)
(* each over its own snapshot (store/connection.py opens the read handle   *)
(* in autocommit): the superseded rows, the page, the count from the       *)
(* cursor onward, the count of the whole request, then the coverage the    *)
(* window is reconciled with.  A page that leaves rows behind carries a    *)
(* cursor, and the caller presents it with a request of its choice.        *)
(*                                                                         *)
(* A transaction has two dates.  Its ledger date, the day it was           *)
(* authorised where the institution says so, selects and orders; its       *)
(* posted date, which still moves until it settles, measures the coverage. *)
(* A trade has one.                                                        *)
(*                                                                         *)
(* The day 0 stands for None: no bound, no filter, and a ledger date that  *)
(* no rebuild has stamped yet.                                             *)
(***************************************************************************)
EXTENDS Integers, Sequences, FiniteSets, SequencesExt, FiniteSetsExt

CONSTANTS
    Ids,        \* row identities, in the order the store hands them out
    Days,       \* calendar days, positive
    Today,      \* the day the caller asks on
    Accounts,   \* accounts of the store
    Kinds,      \* effective categories, or investment types
    Requests,   \* what the caller may ask: windows and filters of both tools
    Limits,     \* values of limit
    MaxRows,    \* MAX_ROWS, the cap on a page
    MaxWrites   \* writes in one behaviour

None == 0
Tools == {"query_transactions", "query_investment_transactions"}
Request == [tool: Tools, since: Days \cup {None}, until: Days \cup {None},
            account: Accounts \cup {None}, kind: Kinds \cup {None}]

ASSUME ReadAssumption ==
    /\ IsFiniteSet(Ids) /\ Ids \subseteq Nat \ {0} /\ Days \subseteq Nat \ {0} /\ Today \in Days
    /\ Requests \subseteq Request /\ Limits \subseteq Nat /\ MaxRows \in Nat \ {0}
    /\ MaxWrites \in Nat
    /\ \A r \in Requests : r.since # None /\ r.until # None => r.since <= r.until

VARIABLES
    rows,    \* the two tables, by row identity
    writes,  \* writes so far
    walk,    \* the caller and the answer being assembled
    answer,  \* the last answer, as it goes on the wire
    seen     \* what the walk has handed over so far, and what happened around it
vars == <<rows, writes, walk, answer, seen>>

\* Nothing posts before it was authorised.
Row == {r \in [tool: Tools, account: Accounts, kind: Kinds, day: Days \cup {None}, posted: Days,
               state: {"absent", "live", "removed"}, superseded: BOOLEAN] : r.day <= r.posted}

Position(i) == [day |-> rows[i].day, id |-> i]
NoPosition == [day |-> None, id |-> 0]
NoCursor == [scheme |-> "none", position |-> NoPosition, request |-> <<>>]

-----------------------------------------------------------------------------
(* Which rows a statement selects *)

OnOrAfter(i, since) == since = None \/ (rows[i].day # None /\ rows[i].day >= since)
OnOrBefore(i, until) == until = None \/ (rows[i].day # None /\ rows[i].day <= until)

\* Faulty variant of Beyond: the day alone, without its tie-break.
BeyondDayOnly(i, position) == rows[i].day # None /\ rows[i].day < position.day

\* Strictly further down ORDER BY day DESC, id DESC.  A row without a day
\* compares as NULL and is never further down.
Beyond(i, position) ==
    /\ rows[i].day # None
    /\ \/ rows[i].day < position.day
       \/ rows[i].day = position.day /\ i < position.id

Selects(i, r, spans) ==
    /\ rows[i].state = "live" /\ rows[i].tool = r.tool
    /\ i \notin spans
    /\ OnOrAfter(i, r.since) /\ OnOrBefore(i, r.until)
    /\ r.account # None => rows[i].account = r.account
    /\ r.kind # None => rows[i].kind = r.kind

TransactionFilters(r, after, spans) ==
    {i \in Ids : Selects(i, r, spans) /\ (after # NoPosition => Beyond(i, after))}

\* Trades know no lineage, and each of them has a trade date.
TradeFilters(r, after) ==
    {i \in Ids : Selects(i, r, {}) /\ (after # NoPosition => Beyond(i, after))}

Selected(r, after, spans) ==
    IF r.tool = "query_transactions" THEN TransactionFilters(r, after, spans)
                                     ELSE TradeFilters(r, after)

NewestFirst(i, j) ==
    \/ rows[i].day > rows[j].day
    \/ rows[i].day = rows[j].day /\ i > j

\* The n-th row of a set in that order: n - 1 of its rows come before it.
Nth(set, n) ==
    CHOOSE i \in set : Cardinality({j \in set : NewestFirst(j, i)}) = n - 1

Page(r, after, spans, limit) ==
    LET found == Selected(r, after, spans)
        cap == Max({1, Min({limit, MaxRows})})
    IN  [n \in 1 .. Min({cap, Cardinality(found)}) |-> Position(Nth(found, n))]

KnownKinds(tool, spans) == {rows[i].kind : i \in {j \in Ids : /\ rows[j].state = "live"
                                                             /\ rows[j].tool = tool
                                                             /\ j \notin spans}}

-----------------------------------------------------------------------------
(* Cursors, counts and windows *)

Scheme(tool) == IF tool = "query_transactions" THEN "v2" ELSE "v4"

\* Faulty variant of RequestFingerprint: the filters never join it.
RequestFingerprintOfWindow(r) == <<r.since, r.until, r.account>>

\* The filters join the fingerprint only when one of them narrows.
RequestFingerprint(r) ==
    <<r.since, r.until, r.account>> \o (IF r.kind = None THEN <<>> ELSE <<r.kind>>)
TradeFingerprint(r) == <<"trades", r.since, r.until, r.account, r.kind>>
Fingerprint(r) ==
    IF r.tool = "query_transactions" THEN RequestFingerprint(r) ELSE TradeFingerprint(r)

IssuedFor(r, position) ==
    [scheme |-> Scheme(r.tool), position |-> position, request |-> Fingerprint(r)]

CursorIsOf(cursor, r) ==
    /\ cursor.scheme = Scheme(r.tool)
    /\ cursor.request = Fingerprint(r)

Over(returned, remaining, matching) ==
    LET left == Max({remaining, returned})
    IN  [returned |-> returned, remaining |-> left, matching |-> Max({matching, left}),
         changed |-> remaining < returned]
Truncated(t) == t.returned < t.remaining

\* The days the store has rows for, by the date they posted.
Covering(tool) ==
    {rows[i].posted : i \in {j \in Ids : rows[j].state = "live" /\ rows[j].tool = tool}}

\* Faulty variant of ResolveWindow: coverage is taken to end today.
ResolveWindowToToday(r, days) ==
    IF days = {} THEN [since |-> None, until |-> None, caveats |-> {}]
    ELSE LET earliest == Min(days)
             since == IF r.since = None THEN earliest ELSE Max({r.since, earliest})
             until == IF r.until = None THEN Today ELSE Min({r.until, Today})
         IN  [since |-> IF since <= until THEN since ELSE None,
              until |-> IF since <= until THEN until ELSE None,
              caveats |-> (IF r.since # None /\ r.since < earliest
                           THEN {"window_starts_before_coverage"} ELSE {})
                          \cup (IF r.until > Today THEN {"window_extends_past_coverage"} ELSE {})]

\* The window that was asked for, cut to the days the store has rows for.
ResolveWindow(r, days) ==
    IF days = {} THEN [since |-> None, until |-> None, caveats |-> {}]
    ELSE LET earliest == Min(days)
             end == Max({Today, Max(days)})
             since == IF r.since = None THEN earliest ELSE Max({r.since, earliest})
             until == IF r.until = None THEN end ELSE Min({r.until, end})
             before == \/ r.since # None /\ r.since < earliest
                       \/ r.until # None /\ r.until < earliest
             beyond == \/ r.until # None /\ r.until > end
                       \/ r.since # None /\ r.since > end
             covers == since <= until
         IN  [since |-> IF covers THEN since ELSE None,
              until |-> IF covers THEN until ELSE None,
              caveats |-> (IF before THEN {"window_starts_before_coverage"} ELSE {})
                          \cup (IF beyond THEN {"window_extends_past_coverage"} ELSE {})]

\* Rows no window can measure: a ledger date waits for a rebuild.
Unstamped == \E i \in Ids : /\ rows[i].tool = "query_transactions"
                            /\ rows[i].state = "live" /\ rows[i].day = None

-----------------------------------------------------------------------------
(* States *)

NoAnswer == [kind |-> "none", page |-> <<>>, truncation |-> Over(0, 0, 0), cursor |-> NoCursor,
             window |-> [since |-> None, until |-> None, caveats |-> {}], caveats |-> {},
             covered |-> {}, posted |-> <<>>]
Quiet == [phase |-> "idle", request |-> CHOOSE r \in Requests : TRUE, limit |-> 1,
          after |-> NoPosition, spans |-> {}, page |-> <<>>, end |-> NoPosition,
          remaining |-> 0, matching |-> 0]
NothingSeen == [asked |-> Quiet.request, delivered |-> <<>>, steady |-> {}, split |-> FALSE]
Assembling == {"asked", "spans", "page", "remaining", "matching"}

Init ==
    /\ \E tool \in Tools :
          rows \in [Ids -> {r \in Row :
              /\ r.tool = tool /\ ~r.superseded
              /\ r.state = "live" \/ r.state = "absent"
              /\ r.state = "absent" => r.day = Today /\ r.posted = Today /\ r.kind = Min(Kinds)
              /\ tool # "query_transactions" => r.day = r.posted}]
    /\ \A i, j \in Ids : i < j /\ rows[i].state = "absent" => rows[j].state = "absent"
    /\ writes = 0 /\ walk = Quiet /\ answer = NoAnswer /\ seen = NothingSeen

(* The writer: one commit of a sync or of a rebuild *)

\* What the caller's walk can see of a write: the rows that stay what they
\* were, and whether it landed inside an answer.
Observe(table) ==
    seen' = [seen EXCEPT !.steady = {i \in @ : table[i] = rows[i]},
                         !.split = @ \/ walk.phase \in Assembling \ {"asked"}]

Write(table) ==
    /\ writes < MaxWrites /\ writes' = writes + 1
    /\ table # rows /\ rows' = table
    /\ Observe(table)
    /\ UNCHANGED <<walk, answer>>

Insert(i) ==
    /\ rows[i].state = "absent"
    /\ \A j \in Ids : rows[j].tool = rows[i].tool /\ j < i => rows[j].state # "absent"
    /\ \E day, posted \in Days :
          /\ IF rows[i].tool = "query_transactions" THEN day <= posted ELSE day = posted
          /\ Write([rows EXCEPT ![i] = [@ EXCEPT !.state = "live", !.day = day, !.posted = posted]])

SoftDelete(i) == rows[i].state = "live" /\ Write([rows EXCEPT ![i].state = "removed"])

\* A row sent again is present again, with the date it posts on by now; its ledger
\* date was stamped once.
Modify(i, kind, posted) ==
    /\ rows[i].state # "absent" /\ rows[i].tool = "query_transactions"
    /\ rows[i].day <= posted
    /\ Write([rows EXCEPT ![i] = [@ EXCEPT !.state = "live", !.kind = kind, !.posted = posted]])

\* A trade that is sent again takes its new trade date.
ModifyTrade(i, kind, day) ==
    /\ rows[i].state # "absent" /\ rows[i].tool = "query_investment_transactions"
    /\ Write([rows EXCEPT ![i] = [@ EXCEPT !.state = "live", !.kind = kind, !.day = day,
                                          !.posted = day]])

\* A newer Item sends the days an older one covered.
Supersede(i) ==
    /\ rows[i].state = "live" /\ rows[i].tool = "query_transactions" /\ ~rows[i].superseded
    /\ Write([rows EXCEPT ![i].superseded = TRUE])

\* A rebuild stamps every row from the archive.
Stamp ==
    /\ Unstamped
    /\ \E days \in [Ids -> Days] :
          /\ \A i \in Ids : days[i] <= rows[i].posted
          /\ Write([i \in Ids |-> IF rows[i].day = None THEN [rows[i] EXCEPT !.day = days[i]]
                                                       ELSE rows[i]])

Writer ==
    \/ \E i \in Ids : Insert(i) \/ SoftDelete(i) \/ Supersede(i)
    \/ \E i \in Ids, kind \in Kinds, day \in Days : Modify(i, kind, day) \/ ModifyTrade(i, kind, day)
    \/ Stamp

-----------------------------------------------------------------------------
(* The caller *)

Ask(r, limit) ==
    /\ walk.phase = "idle" /\ answer.kind = "none"
    /\ walk' = [Quiet EXCEPT !.phase = "asked", !.request = r, !.limit = limit]
    /\ seen' = [NothingSeen EXCEPT !.asked = r]
    /\ UNCHANGED <<rows, writes, answer>>

\* The envelope's refusal: the call is answered, the walk is over.
Refuse ==
    /\ walk' = [Quiet EXCEPT !.phase = "over"]
    /\ answer' = [NoAnswer EXCEPT !.kind = "invalid_argument"]

\* The caller presents the cursor it was given, with a request of its choice.
Follow(r, limit) ==
    /\ walk.phase = "idle" /\ answer.cursor # NoCursor
    /\ IF CursorIsOf(answer.cursor, r)
       THEN /\ walk' = [Quiet EXCEPT !.phase = "asked", !.request = r, !.limit = limit,
                                     !.after = answer.cursor.position]
            /\ UNCHANGED answer
       ELSE Refuse
    /\ UNCHANGED <<rows, writes, seen>>

(* The statements of one answer *)

\* The rows a newer Item covers again, which no total and no page shows.
ReadSpans ==
    /\ walk.phase = "asked" /\ walk.request.tool = "query_transactions"
    /\ walk' = [walk EXCEPT !.phase = "spans",
          !.spans = {i \in Ids : rows[i].state # "absent" /\ rows[i].superseded}]
    /\ seen' = IF walk.after = NoPosition
               THEN [seen EXCEPT !.steady = Selected(walk.request, NoPosition, walk'.spans)]
               ELSE seen
    /\ UNCHANGED <<rows, writes, answer>>

\* A filter that names no value the store holds is refused, as it would match nothing.
UnknownKind(r, spans) == r.kind # None /\ r.kind \notin KnownKinds(r.tool, spans)

TakePage(page) ==
    /\ walk' = [walk EXCEPT !.phase = "page", !.page = page,
                            !.end = IF page = <<>> THEN NoPosition ELSE Last(page)]
    /\ UNCHANGED answer

ReadTransactions ==
    /\ walk.phase = "spans"
    /\ IF UnknownKind(walk.request, walk.spans) THEN Refuse
       ELSE TakePage(Page(walk.request, walk.after, walk.spans, walk.limit))
    /\ UNCHANGED <<rows, writes, seen>>

ReadTrades ==
    /\ walk.phase = "asked" /\ walk.request.tool = "query_investment_transactions"
    /\ IF UnknownKind(walk.request, {}) THEN Refuse
       ELSE TakePage(Page(walk.request, walk.after, {}, walk.limit))
    /\ seen' = IF walk.after = NoPosition
               THEN [seen EXCEPT !.steady = Selected(walk.request, NoPosition, {})]
               ELSE seen
    /\ UNCHANGED <<rows, writes>>

CountRemaining ==
    /\ walk.phase = "page"
    /\ LET n == Cardinality(Selected(walk.request, walk.after, walk.spans))
       IN  walk' = [walk EXCEPT !.phase = IF walk.after = NoPosition THEN "matching" ELSE "remaining",
                                !.remaining = n, !.matching = n]
    /\ UNCHANGED <<rows, writes, answer, seen>>

\* A second count without the cursor, taken only when there was one.
CountMatching ==
    /\ walk.phase = "remaining"
    /\ walk' = [walk EXCEPT !.phase = "matching",
          !.matching = Cardinality(Selected(walk.request, NoPosition, walk.spans))]
    /\ UNCHANGED <<rows, writes, answer, seen>>

\* The coverage is read, the window resolved and the answer written out.  The
\* cursor of a page that ends on an unstamped row cannot be written out.
NextCursor(t) ==
    IF ~Truncated(t) \/ walk.page = <<>> THEN NoCursor ELSE IssuedFor(walk.request, walk.end)

Reply ==
    /\ walk.phase = "matching"
    /\ LET r == walk.request
           t == Over(Len(walk.page), walk.remaining, walk.matching)
           cursor == NextCursor(t)
           window == ResolveWindow(r, Covering(r.tool))
           failed == cursor # NoCursor /\ walk.end.day = None
           caveats == window.caveats
                      \cup (IF t.changed THEN {"counted_during_change"} ELSE {})
                      \cup (IF Truncated(t) THEN {"rows_truncated"} ELSE {})
                      \cup (IF Unstamped THEN {"partial"} ELSE {})
       IN  /\ answer' = IF failed THEN [NoAnswer EXCEPT !.kind = "internal_error"]
                        ELSE [kind |-> "rows", page |-> walk.page, truncation |-> t,
                              cursor |-> cursor, window |-> window, caveats |-> caveats,
                              covered |-> Covering(r.tool),
                              posted |-> [n \in DOMAIN walk.page |-> rows[walk.page[n].id].posted]]
           /\ walk' = [Quiet EXCEPT !.phase = IF cursor = NoCursor \/ failed THEN "over" ELSE "idle"]
           /\ seen' = IF failed THEN seen
                      ELSE [seen EXCEPT !.delivered = @ \o walk.page]
    /\ UNCHANGED <<rows, writes>>

Reader ==
    \/ \E r \in Requests, limit \in Limits : Ask(r, limit) \/ Follow(r, limit)
    \/ ReadSpans \/ ReadTransactions \/ ReadTrades \/ CountRemaining \/ CountMatching \/ Reply

Next == Reader \/ Writer
Spec == Init /\ [][Next]_vars

-----------------------------------------------------------------------------
(* Properties *)

Handed(i) == Cardinality({n \in DOMAIN seen.delivered : seen.delivered[n].id = i})
Ended == walk.phase = "over" /\ answer.kind = "rows"
Stamped == {i \in seen.steady : rows[i].day # None}

\* Keyset paging: a row that the request selected when the walk began and that
\* nothing has touched since is handed over once and never twice, whatever was
\* inserted, removed, superseded or re-dated between two pages.
SteadyRowReadOnce ==
    /\ \A i \in seen.steady : Handed(i) <= 1
    /\ Ended /\ ~seen.split => \A i \in Stamped : Handed(i) = 1

\* A walk answers one question: a page is only ever read for the request the
\* walk began with, and the pages come down one total order without a step back.
PagesAreOneAnswer ==
    /\ walk.phase \in Assembling => walk.request = seen.asked
    /\ \A m, n \in DOMAIN seen.delivered :
          m < n => LET a == seen.delivered[m] b == seen.delivered[n]
                   IN a.day > b.day \/ (a.day = b.day /\ a.id > b.id)

\* What a page says of its rows and of the window beside them hangs together over
\* the two dates: no row's ledger day is after the window, and none has posted
\* before it, unless a write landed inside the answer.  A window that is not the
\* one that was asked for, or is none, has a caveat that says on which side it was
\* cut.  A row may have been authorised before the window starts: the window is
\* measured by the posted date, the rows are chosen by the ledger date.
WindowHoldsTheRows ==
    answer.kind = "rows" =>
        LET w == answer.window
        IN /\ ~seen.split /\ w.since # None => \A n \in DOMAIN answer.page :
                 answer.page[n].day # None => /\ w.since <= answer.posted[n]
                                              /\ answer.page[n].day <= w.until
           /\ answer.covered # {} /\ w.caveats = {} =>
                 /\ w.since # None /\ w.until # None
                 /\ seen.asked.since \in {None, w.since} /\ seen.asked.until \in {None, w.until}
=============================================================================
