--------------------------- MODULE Rebuild_proofs ---------------------------
(***************************************************************************)
(* Theorems about Rebuild, for any accounts, transactions, connections,    *)
(* replies, processes and bounds.                                          *)
(*                                                                         *)
(* IInv is about the store and the archive together: what every table must *)
(* know of the bodies it came from (Sound).  A deriver keeps it whatever   *)
(* body it is given of whatever archive, so it holds after a body that has *)
(* just arrived and all through a replay, in any order.                    *)
(*                                                                         *)
(* A loop over a set is a recursive function over its subsets.  That it is *)
(* well defined, and that what each step of it keeps the loop keeps, is    *)
(* shown once (FoldExists, SubsetInduction) and used for the loops of the  *)
(* derivers, of the pairing pass and of the replay.                        *)
(*                                                                         *)
(* That a replay makes the tables what they were needs more than what they *)
(* know: RInv says that a store whose bodies were all derived reads as the *)
(* archive does (Read), and would take all of it again into the rows it    *)
(* has (Repeats).                                                          *)
(***************************************************************************)
EXTENDS Rebuild, FiniteSetTheorems, TLAPS

-----------------------------------------------------------------------------
(* Finite sets *)

\* A non-empty set of naturals has a least element.
LEMMA LeastOf ==
    ASSUME NEW S \in SUBSET Nat, S # {}
    PROVE  \E n \in S : \A d \in S : n <= d
<1> DEFINE R == OpToRel(<, Nat)
<1>1. IsWellFoundedOn(R, Nat)
  BY NatLessThanWellFounded
<1>2. \A y, x \in Nat : y < x => <<y, x>> \in R
  BY DEF OpToRel
<1> HIDE DEF R
<1>3. PICK n \in S : \A y \in S : ~ (<<y, n>> \in R)
  BY <1>1, WFMin
<1>4. ASSUME NEW d \in S PROVE n <= d
  <2>1. n \in Nat /\ d \in Nat /\ ~ (d < n)
    BY <1>2, <1>3
  <2> QED
    BY <2>1
<1> QED
  BY <1>3, <1>4

\* Induction over the subsets of a finite set, one element at a time.
LEMMA SubsetInduction ==
    ASSUME NEW S, IsFiniteSet(S), NEW H, {} \in H,
           \A T \in SUBSET S : T # {} => \E x \in T : T \ {x} \in H => T \in H
    PROVE  \A T \in SUBSET S : T \in H
<1> DEFINE Sizes == {n \in Nat : \E T \in SUBSET S : T \notin H /\ Cardinality(T) = n}
<1>1. \A T \in SUBSET S : IsFiniteSet(T) /\ Cardinality(T) \in Nat
  BY FS_Subset, FS_CardinalityType
<1>2. SUFFICES ASSUME NEW U \in SUBSET S, U \notin H PROVE FALSE
  OBVIOUS
<1>3. Sizes \in SUBSET Nat /\ Sizes # {}
  BY <1>1, <1>2
<1>4. PICK n \in Sizes : \A d \in Sizes : n <= d
  <2> HIDE DEF Sizes
  <2> QED
    BY <1>3, LeastOf
<1>5. PICK T \in SUBSET S : T \notin H /\ Cardinality(T) = n
  BY <1>4
<1>6. PICK x \in T : T \ {x} \in H => T \in H
  BY <1>5, ZenonT(40)
<1>7. T \ {x} \in SUBSET S /\ T \ {x} \notin H
  BY <1>5, <1>6
<1>8. Cardinality(T \ {x}) = n - 1 /\ n \in Nat
  BY <1>1, <1>4, <1>5, <1>6, FS_RemoveElement
<1>9. n - 1 \in Sizes
  BY <1>1, <1>7, <1>8
<1> QED
  BY <1>4, <1>8, <1>9

\* A finite set that is ordered has a last element.
LEMMA LastExists ==
    ASSUME NEW S, IsFiniteSet(S), S # {}, NEW R,
           \A x, y \in S : x # y => <<x, y>> \in R \/ <<y, x>> \in R,
           \A x, y, z \in S : <<x, y>> \in R /\ <<y, z>> \in R => <<x, z>> \in R
    PROVE  \E x \in S : \A y \in S \ {x} : <<y, x>> \in R
<1> DEFINE HasLast(T) == \E x \in T : \A y \in T \ {x} : <<y, x>> \in R
           H == {T \in SUBSET S : T = {} \/ HasLast(T)}
<1>1. ASSUME NEW T \in SUBSET S, T # {}
      PROVE  \E x \in T : T \ {x} \in H => T \in H
  <2>1. PICK x \in T : TRUE
    BY <1>1
  <2>2. ASSUME T \ {x} \in H PROVE HasLast(T)
    <3>1. CASE T \ {x} = {}
      BY <3>1
    <3>2. CASE HasLast(T \ {x})
      <4>1. PICK y \in T \ {x} : \A z \in (T \ {x}) \ {y} : <<z, y>> \in R
        BY <3>2
      <4>2. CASE <<x, y>> \in R
        BY <4>1, <4>2
      <4>3. CASE <<y, x>> \in R
        <5>1. \A z \in T \ {x} : <<z, x>> \in R
          BY <4>1, <4>3
        <5> QED
          BY <5>1
      <4> QED
        BY <4>1, <4>2, <4>3
    <3> QED
      BY <2>2, <3>1, <3>2
  <2> QED
    BY <2>2
<1>2. {} \in H
  OBVIOUS
<1>3. \A T \in SUBSET S : T \in H
  <2> HIDE DEF H
  <2> QED
    BY <1>1, <1>2, SubsetInduction
<1> QED
  BY <1>3

\* Max of a finite set of naturals, and Min of any, are members of it.
LEMMA Extremes ==
    ASSUME NEW S \in SUBSET Nat, S # {}
    PROVE  /\ Min(S) \in S /\ \A n \in S : Min(S) <= n
           /\ IsFiniteSet(S) => Max(S) \in S /\ \A n \in S : Max(S) >= n
<1>1. Min(S) \in S /\ \A n \in S : Min(S) <= n
  BY LeastOf DEF Min
<1>2. ASSUME IsFiniteSet(S) PROVE \E x \in S : \A n \in S : x >= n
  <2> DEFINE R == {p \in S \X S : p[1] < p[2]}
  <2>1. \A x, y \in S : <<x, y>> \in R <=> x < y
    OBVIOUS
  <2>2. \A x, y \in S : x # y => <<x, y>> \in R \/ <<y, x>> \in R
    BY <2>1
  <2>3. \A x, y, z \in S : <<x, y>> \in R /\ <<y, z>> \in R => <<x, z>> \in R
    BY <2>1
  <2> HIDE DEF R
  <2>4. PICK x \in S : \A y \in S \ {x} : <<y, x>> \in R
    BY <1>2, <2>2, <2>3, LastExists
  <2>5. ASSUME NEW n \in S PROVE x >= n
    <3>1. n # x => n < x
      BY <2>1, <2>4
    <3> QED
      BY <3>1
  <2> QED
    BY <2>5
<1> QED
  BY <1>1, <1>2 DEF Max

LEMMA OfTwo ==
    ASSUME NEW m \in Nat, NEW n \in Nat
    PROVE  /\ Max({m, n}) = (IF m >= n THEN m ELSE n)
           /\ Min({m, n}) = (IF m <= n THEN m ELSE n)
<1>1. IsFiniteSet({m, n})
  <2>1. {m, n} = {m} \cup {n} /\ IsFiniteSet({m})
    BY FS_Singleton
  <2> QED
    BY <2>1, FS_AddElement
<1>2. /\ Max({m, n}) \in {m, n} /\ \A j \in {m, n} : Max({m, n}) >= j
      /\ Min({m, n}) \in {m, n} /\ \A j \in {m, n} : Min({m, n}) <= j
  BY <1>1, Extremes
<1> QED
  BY <1>2

-----------------------------------------------------------------------------
(* Loops *)

\* The loop whose step for x is F[x], taking pick[T] last of T.
Loops(it, S, G, base, F, pick) ==
    /\ it \in [SUBSET S -> G]
    /\ \A T \in SUBSET S : it[T] = IF T = {} THEN base ELSE F[pick[T]][it[T \ {pick[T]}]]

\* A loop over a finite set, each step of which leads from G to G, is well
\* defined, whichever element it takes last.
LEMMA FoldExists ==
    ASSUME NEW S, IsFiniteSet(S), NEW G, NEW base \in G, NEW F \in [S -> [G -> G]],
           NEW pick, \A T \in SUBSET S : T # {} => pick[T] \in T
    PROVE  \E it : Loops(it, S, G, base, F, pick)
<1> DEFINE After(it, T) == IF T = {} THEN base ELSE F[pick[T]][it[T \ {pick[T]}]]
           Upto(n) == \E it \in [SUBSET S -> G] : \A T \in SUBSET S :
                         Cardinality(T) <= n => it[T] = After(it, T)
           Failing == {n \in Nat : ~ Upto(n)}
<1>1. \A T \in SUBSET S : /\ IsFiniteSet(T) /\ Cardinality(T) \in Nat
                          /\ Cardinality(T) = 0 <=> T = {}
                          /\ Cardinality(T) <= Cardinality(S)
  BY FS_Subset, FS_CardinalityType, FS_EmptySet
<1>2. \A T \in SUBSET S : T # {} => /\ T \ {pick[T]} \in SUBSET S
                                    /\ Cardinality(T \ {pick[T]}) = Cardinality(T) - 1
  BY <1>1, FS_RemoveElement
<1>3. Upto(0)
  <2> DEFINE first == [T \in SUBSET S |-> base]
  <2>1. first \in [SUBSET S -> G]
    OBVIOUS
  <2>2. \A T \in SUBSET S : Cardinality(T) <= 0 => first[T] = After(first, T)
    BY <1>1
  <2> HIDE DEF first, After
  <2> QED
    BY <2>1, <2>2
<1>4. ASSUME NEW n \in Nat, Upto(n) PROVE Upto(n + 1)
  <2>1. PICK it \in [SUBSET S -> G] : \A T \in SUBSET S :
           Cardinality(T) <= n => it[T] = After(it, T)
    BY <1>4
  <2> DEFINE more == [T \in SUBSET S |-> IF Cardinality(T) <= n THEN it[T] ELSE After(it, T)]
  <2>2. \A T \in SUBSET S : After(it, T) \in G
    BY <1>2
  <2>3. more \in [SUBSET S -> G]
    <3> HIDE DEF After
    <3> QED
      BY <2>2
  <2>4. ASSUME NEW T \in SUBSET S, Cardinality(T) <= n + 1
        PROVE  more[T] = After(more, T)
    <3>1. more[T] = After(it, T)
      BY <2>1
    <3>2. After(more, T) = After(it, T)
      <4>1. T # {} => more[T \ {pick[T]}] = it[T \ {pick[T]}]
        BY <1>1, <1>2, <2>4
      <4> HIDE DEF more
      <4> QED
        BY <4>1
    <3> QED
      BY <3>1, <3>2
  <2> HIDE DEF more, After
  <2> QED
    BY <2>3, <2>4
<1>5. Upto(Cardinality(S))
  <2>1. CASE Failing = {}
    BY <1>1, <2>1
  <2>2. CASE Failing # {}
    <3>1. Failing \in SUBSET Nat
      OBVIOUS
    <3>2. PICK n \in Failing : \A d \in Failing : n <= d
      <4> HIDE DEF Failing
      <4> QED
        BY <2>2, <3>1, LeastOf
    <3> HIDE DEF Upto
    <3>3. n # 0 /\ n \in Nat /\ ~ Upto(n)
      BY <1>3, <3>2
    <3>4. n - 1 \in Nat /\ ~ (n <= n - 1)
      BY <3>3
    <3>5. Upto(n - 1)
      BY <3>2, <3>4
    <3>6. Upto((n - 1) + 1)
      BY <1>4, <3>4, <3>5
    <3>7. (n - 1) + 1 = n
      BY <3>3
    <3> QED
      BY <3>3, <3>6, <3>7
  <2> QED
    BY <2>1, <2>2
<1>6. PICK it \in [SUBSET S -> G] : \A T \in SUBSET S :
         Cardinality(T) <= Cardinality(S) => it[T] = After(it, T)
  BY <1>5
<1>7. \A T \in SUBSET S : it[T] = After(it, T)
  <2> HIDE DEF After
  <2> QED
    BY <1>1, <1>6
<1> QED
  BY <1>7 DEF Loops

-----------------------------------------------------------------------------
(* The invariant, by named parts *)

AccountUpTo(now) ==
    [conn : Conns, source : (1 .. MaxItems) \X Real, persistent : Real \cup {0},
     first : Nat, last : Nat, active : BOOLEAN, touched : 1 .. now]

CaptureUpTo(n) == [key : Nat \X Nat, at : Nat, raw : 1 .. n, build : {1, 2}]

LedgerRowUpTo(n) ==
    [account : Nat, source : Moves, pairable : BOOLEAN, removed : BOOLEAN, pair : Nat,
     override : BOOLEAN, at : Nat, raw : 1 .. n, build : {1, 2}]

ProgressUpTo(n) == [item : Nat, raw : 0 .. n, at : Nat, error : BOOLEAN]

AnySecurity == [created : Nat, at : Nat, build : 0 .. 2]

AnyOffer ==
    [what : {"balance", "position"}, key : Nat \X Nat, at : Nat, raw : Nat, refused : BOOLEAN]

\* A store with n bodies archived and the clock at now.
StoreUpTo(now, n) ==
    [accounts : Seq(AccountUpTo(now)), balances : SUBSET CaptureUpTo(n),
     holdings : SUBSET CaptureUpTo(n), refused : SUBSET CaptureUpTo(n),
     ledger : Seq(LedgerRowUpTo(n)), domain : [Conns -> ProgressUpTo(n)],
     roster : [Conns -> Nat], security : AnySecurity, offers : SUBSET AnyOffer, ok : BOOLEAN]

ReplyUpTo(now) == [says : Template, conn : Conns, item : 1 .. MaxItems, at : 1 .. now]

BodyUpTo(now) ==
    [says : Template, conn : Conns, item : 1 .. MaxItems, at : 1 .. now, raw : Nat]

\* Bodies in the order they were persisted in.
Archives(now) == {A \in Seq(BodyUpTo(now)) : \A k \in DOMAIN A : A[k].raw = k}

StatedIn(A, r) == \A k \in DOMAIN A : r \in A[k].says.listed => A[k].says.stated

IsRosterOf(body, r) == Roster(body) /\ r \in body.says.listed

\* A row without a persistent id was listed by a body that states none.
IdentityKnown(s, A) ==
    \A i \in DOMAIN s.accounts :
        /\ s.accounts[i].persistent \in {0, s.accounts[i].source[2]}
        /\ s.accounts[i].persistent = 0 => ~ StatedIn(A, s.accounts[i].source[2])

OneRowEach(s, A) ==
    \A i, j \in DOMAIN s.accounts :
        s.accounts[i].source[2] = s.accounts[j].source[2] /\ StatedIn(A, s.accounts[i].source[2])
            => i = j

\* The day a row was last seen on is that of a roster that lists it.
SeenOnARoster(s, A, ids) ==
    \A i \in DOMAIN s.accounts : s.accounts[i].last # 0 =>
        \E k \in ids : /\ IsRosterOf(A[k], s.accounts[i].source[2])
                       /\ s.accounts[i].last = DayOf(A[k].at)

\* What a roster listed some row was seen on that day or later.
RosterIsIn(s, body) ==
    \A r \in Real : IsRosterOf(body, r) =>
        \E i \in DOMAIN s.accounts : /\ s.accounts[i].source[2] = r
                                     /\ s.accounts[i].last >= DayOf(body.at)

RostersAreIn(s, A, ids) == \A k \in ids : RosterIsIn(s, A[k])

AccountsSound(s, A, seen, in) ==
    /\ IdentityKnown(s, A) /\ OneRowEach(s, A)
    /\ SeenOnARoster(s, A, seen) /\ RostersAreIn(s, A, in)

Captured(s) == s.balances \cup s.holdings \cup s.refused

ReferencesResolve(s) ==
    /\ \A h \in Captured(s) : h.key[1] \in DOMAIN s.accounts
    /\ \A k \in DOMAIN s.ledger : /\ s.ledger[k].account \in DOMAIN s.accounts
                                  /\ s.ledger[k].pair <= k

OffersOf(s, what) == {o \in s.offers : o.what = what}

\* The captures of a table, against what was put forward for it.
FirstOfEachDay(table, offers) ==
    /\ \A h \in table : \A o \in offers : o.key = h.key => NotAfter(h, o)
    /\ \A h \in table : \E o \in offers : o.key = h.key /\ o.at = h.at /\ o.raw = h.raw
    /\ \A o \in offers : \E h \in table : h.key = o.key

OnePositionADay(s) ==
    /\ IsFiniteSet(s.holdings \cup s.refused)
    /\ \A g, h \in s.holdings \cup s.refused : g.key = h.key => g = h

\* A position is where its body put it, and was put forward as such.
PositionsAreOfBodies(s, A) ==
    /\ \A h \in s.holdings : Offer("position", h.key, h, FALSE) \in s.offers
    /\ \A h \in s.refused : Offer("position", h.key, h, TRUE) \in s.offers
    /\ \A o \in OffersOf(s, "position") :
          o.raw \in DOMAIN A /\ o.at = A[o.raw].at /\ o.refused = A[o.raw].says.refused

CapturesSound(s, A) ==
    /\ FirstOfEachDay(s.balances, OffersOf(s, "balance"))
    /\ FirstOfEachDay(s.holdings \cup s.refused, OffersOf(s, "position"))
    /\ OnePositionADay(s)
    /\ PositionsAreOfBodies(s, A)

SecuritySound(s, A) ==
    s.security = NoSecurity \/
        \E k \in DOMAIN A : A[k].says.kind = "holdings" /\ A[k].at = s.security.at

Sound(s, A, now, seen, in) ==
    /\ s \in StoreUpTo(now, Len(A))
    /\ AccountsSound(s, A, seen, in)
    /\ ReferencesResolve(s) /\ CapturesSound(s, A) /\ SecuritySound(s, A)

Typed ==
    /\ archive \in Archives(clock) /\ derived \subseteq DOMAIN archive
    /\ conns \in [Conns -> [state : {"none", "live", "retired"}, item : Nat]]
    /\ \A c \in Live : conns[c].item \in 1 .. items
    /\ items \in 0 .. MaxItems /\ clock \in Nat /\ build \in {1, 2} /\ faults \in Nat
    /\ inflight \in [Procs -> ReplyUpTo(clock) \cup {NoReply}]

IInv == Typed /\ Sound(store, archive, clock, derived, derived)

-----------------------------------------------------------------------------
(* Accounts *)

LEMMA DayIs ==
    ASSUME NEW at \in Nat, at # 0
    PROVE  DayOf(at) \in Nat /\ DayOf(at) # 0
BY DEF DayOf

\* What an archived body is.
LEMMA BodyIs ==
    ASSUME NEW now \in Nat, NEW A \in Archives(now), NEW n \in DOMAIN A
    PROVE  /\ A[n] \in BodyUpTo(now) /\ A[n].raw = n /\ n \in 1 .. Len(A) /\ Len(A) \in Nat
           /\ A[n].says \in Template /\ A[n].conn \in Conns /\ A[n].item \in 1 .. MaxItems
           /\ A[n].at \in 1 .. now /\ A[n].at \in Nat /\ A[n].at # 0
           /\ A[n].says.listed \in SUBSET Real /\ A[n].says.positions \in SUBSET Real
           /\ A[n].says.stated \in BOOLEAN /\ A[n].says.refused \in BOOLEAN
           /\ DayOf(A[n].at) \in Nat /\ DayOf(A[n].at) # 0
<1>1. /\ A[n] \in BodyUpTo(now) /\ A[n].raw = n /\ n \in 1 .. Len(A) /\ Len(A) \in Nat
  BY DEF Archives
<1>2. /\ A[n].says \in Template /\ A[n].conn \in Conns /\ A[n].item \in 1 .. MaxItems
      /\ A[n].at \in 1 .. now
  BY <1>1 DEF BodyUpTo
<1>3. /\ A[n].says.listed \in SUBSET Real /\ A[n].says.positions \in SUBSET Real
      /\ A[n].says.stated \in BOOLEAN /\ A[n].says.refused \in BOOLEAN
  BY <1>2 DEF Template
<1>4. A[n].at \in Nat /\ A[n].at # 0
  BY <1>2
<1> QED
  BY <1>1, <1>2, <1>3, <1>4, DayIs

\* The row that answers for an account is its own or holds its persistent id.
LEMMA MatchIs ==
    ASSUME NEW s, NEW body, NEW r, DOMAIN s.accounts \in SUBSET Nat,
           0 \notin DOMAIN s.accounts
    PROVE  LET i == MatchAccount(s, body, r) IN
           /\ i # 0 => /\ i \in DOMAIN s.accounts
                       /\ \/ /\ s.accounts[i].conn = body.conn
                             /\ s.accounts[i].source = <<body.item, r>>
                          \/ body.says.stated /\ s.accounts[i].persistent = r
           /\ i = 0 => \A j \in DOMAIN s.accounts :
                          /\ ~ (s.accounts[j].conn = body.conn
                                /\ s.accounts[j].source = <<body.item, r>>)
                          /\ body.says.stated => s.accounts[j].persistent # r
<1> DEFINE own == Own(s, body, r)
           held == PersistentHolders(s, r)
           i == MatchAccount(s, body, r)
<1>1. own \in SUBSET DOMAIN s.accounts /\ held \in SUBSET DOMAIN s.accounts
  BY DEF Own, PersistentHolders
<1>2. CASE own # {}
  <2>1. i = Min(own) /\ Min(own) \in own
    BY <1>1, <1>2, Extremes DEF MatchAccount
  <2>2. i \in DOMAIN s.accounts /\ i # 0
    BY <1>1, <2>1
  <2> QED
    BY <2>1, <2>2 DEF Own
<1>3. CASE own = {} /\ body.says.stated /\ held # {}
  <2>1. i = Min(held) /\ Min(held) \in held
    BY <1>1, <1>3, Extremes DEF MatchAccount
  <2>2. i \in DOMAIN s.accounts /\ i # 0
    BY <1>1, <2>1
  <2> QED
    BY <1>3, <2>1, <2>2 DEF PersistentHolders
<1>4. CASE own = {} /\ ~ (body.says.stated /\ held # {})
  <2>1. i = 0
    BY <1>4 DEF MatchAccount
  <2> QED
    BY <1>4, <2>1 DEF Own, PersistentHolders
<1> QED
  BY <1>2, <1>3, <1>4

LEMMA AccountsTyped ==
    ASSUME NEW now, NEW n, NEW s \in StoreUpTo(now, n), NEW i \in DOMAIN s.accounts
    PROVE  /\ s.accounts[i] \in AccountUpTo(now) /\ s.accounts[i].last \in Nat
           /\ s.accounts[i].source[2] \in Real /\ i \in Nat \ {0}
<1>1. s.accounts[i] \in AccountUpTo(now) /\ i \in Nat \ {0}
  BY DEF StoreUpTo
<1> QED
  BY <1>1 DEF AccountUpTo

\* No row is lost, goes over to another account, or is seen earlier.
RowsGrow(s, t) ==
    \A i \in DOMAIN s.accounts :
        /\ i \in DOMAIN t.accounts
        /\ t.accounts[i].source[2] = s.accounts[i].source[2]
        /\ t.accounts[i].last >= s.accounts[i].last

OnlyAccounts(s, t) ==
    /\ t.balances = s.balances /\ t.holdings = s.holdings /\ t.refused = s.refused
    /\ t.ledger = s.ledger /\ t.domain = s.domain /\ t.roster = s.roster
    /\ t.security = s.security /\ t.offers = s.offers /\ t.ok = s.ok

\* Row i of t is the account r as a body lists it.
ListedAt(t, i, body, r) ==
    /\ i \in DOMAIN t.accounts /\ t.accounts[i].source[2] = r
    /\ Roster(body) => t.accounts[i].last >= DayOf(body.at)

\* The row an upsert leaves for r.
RowOf(s, body, r) ==
    IF MatchAccount(s, body, r) = 0 THEN Len(UpsertAccount(s, body, r).accounts)
    ELSE MatchAccount(s, body, r)

\* Row i of t is new or changed, and the other rows are those of s.
OneRowMoves(s, t, i) ==
    /\ DOMAIN t.accounts = DOMAIN s.accounts \cup {i}
    /\ \A j \in DOMAIN s.accounts \ {i} : t.accounts[j] = s.accounts[j]

\* What an upsert makes of the row of r.
LEMMA UpsertRow ==
    ASSUME NEW now \in Nat, NEW A \in Archives(now), NEW n \in DOMAIN A,
           NEW s \in StoreUpTo(now, Len(A)), NEW r \in A[n].says.listed
    PROVE  LET t == UpsertAccount(s, A[n], r)
               i == RowOf(s, A[n], r)
               m == MatchAccount(s, A[n], r)
               a == t.accounts[i]
           IN
           /\ t \in StoreUpTo(now, Len(A)) /\ OnlyAccounts(s, t) /\ OneRowMoves(s, t, i)
           /\ i \in Nat \ {0} /\ a \in AccountUpTo(now)
           /\ m = 0 => i \notin DOMAIN s.accounts
           /\ m # 0 => i = m /\ i \in DOMAIN s.accounts
           /\ a.source = <<A[n].item, r>> /\ a.conn = A[n].conn
           /\ a.persistent = IF A[n].says.stated THEN r
                             ELSE IF m = 0 THEN 0 ELSE s.accounts[i].persistent
           /\ a.last = IF Roster(A[n])
                       THEN IF m # 0 /\ s.accounts[i].last >= DayOf(A[n].at)
                            THEN s.accounts[i].last ELSE DayOf(A[n].at)
                       ELSE IF m = 0 THEN 0 ELSE s.accounts[i].last
           /\ a.first = IF m # 0 /\ s.accounts[i].first <= DayOf(A[n].at)
                        THEN s.accounts[i].first ELSE DayOf(A[n].at)
           /\ a.touched = A[n].at /\ (m # 0 => a.active = s.accounts[i].active)
<1> DEFINE body == A[n]
           t == UpsertAccount(s, body, r)
           i == RowOf(s, body, r)
           m == MatchAccount(s, body, r)
           day == DayOf(body.at)
<1>1. /\ body \in BodyUpTo(now) /\ body.conn \in Conns /\ body.item \in 1 .. MaxItems
      /\ body.at \in 1 .. now /\ r \in Real /\ r # 0 /\ body.says.stated \in BOOLEAN
      /\ day \in Nat /\ day # 0
  BY BodyIs, RealAssumption
<1>2. /\ s.accounts \in Seq(AccountUpTo(now)) /\ Len(s.accounts) \in Nat
      /\ DOMAIN s.accounts = 1 .. Len(s.accounts)
  BY DEF StoreUpTo
<1>3. m # 0 => m \in DOMAIN s.accounts
  BY <1>2, MatchIs
<1> HIDE DEF m, body, day
<1>4. CASE m = 0
  <2> DEFINE row == [conn |-> body.conn, source |-> <<body.item, r>>,
                     persistent |-> IF body.says.stated THEN r ELSE 0,
                     first |-> day, last |-> IF Roster(body) THEN day ELSE 0,
                     active |-> TRUE, touched |-> body.at]
  <2>1. t = [s EXCEPT !.accounts = Append(@, row)]
    BY <1>4 DEF UpsertAccount, m, day
  <2>2. row \in AccountUpTo(now)
    BY <1>1 DEF AccountUpTo
  <2>3. /\ t.accounts = Append(s.accounts, row) /\ t.accounts \in Seq(AccountUpTo(now))
    BY <1>2, <2>1, <2>2 DEF StoreUpTo
  <2>4. OnlyAccounts(s, t)
    BY <2>1 DEF StoreUpTo, OnlyAccounts
  <2>5. t \in StoreUpTo(now, Len(A))
    BY <2>1, <2>3 DEF StoreUpTo
  <2> HIDE DEF row, t
  <2>6. i = Len(s.accounts) + 1 /\ t.accounts[i] = row /\ OneRowMoves(s, t, i)
    <3>1. i = Len(t.accounts)
      BY <1>4 DEF RowOf, m, t
    <3>2. /\ Len(t.accounts) = Len(s.accounts) + 1 /\ DOMAIN t.accounts = 1 .. Len(s.accounts) + 1
          /\ t.accounts[Len(s.accounts) + 1] = row
          /\ \A j \in 1 .. Len(s.accounts) : t.accounts[j] = s.accounts[j]
      BY <1>2, <2>2, <2>3
    <3> QED
      BY <1>2, <3>1, <3>2 DEF OneRowMoves
  <2>7. /\ row.source = <<body.item, r>> /\ row.conn = body.conn
        /\ row.persistent = IF body.says.stated THEN r ELSE 0
        /\ row.last = IF Roster(body) THEN day ELSE 0
        /\ row.first = day /\ row.touched = body.at
    BY DEF row
  <2> HIDE DEF i
  <2> QED
    BY <1>2, <1>4, <2>2, <2>4, <2>5, <2>6, <2>7 DEF t, i, m, body, day
<1>5. CASE m # 0
  <2> DEFINE old == s.accounts[m]
             row == [old EXCEPT !.conn = body.conn, !.source = <<body.item, r>>,
                       !.persistent = IF body.says.stated THEN r ELSE old.persistent,
                       !.first = Min({old.first, day}),
                       !.last = IF Roster(body) THEN Max({old.last, day}) ELSE old.last,
                       !.touched = body.at]
  <2>1. t = [s EXCEPT !.accounts[m] = row]
    <3>1. MatchAccount(s, body, r) # 0
      BY <1>5 DEF m
    <3> QED
      BY <3>1 DEF UpsertAccount, m, day
  <2>2. old \in AccountUpTo(now) /\ old.first \in Nat /\ old.last \in Nat
    <3>1. old \in AccountUpTo(now)
      BY <1>2, <1>3, <1>5
    <3> HIDE DEF old
    <3> QED
      BY <3>1 DEF AccountUpTo
  <2>3. /\ Min({old.first, day}) \in Nat
        /\ Min({old.first, day}) = IF old.first <= day THEN old.first ELSE day
        /\ Max({old.last, day}) = IF old.last >= day THEN old.last ELSE day
    BY <1>1, <2>2, OfTwo
  <2>4. /\ row \in AccountUpTo(now)
        /\ row.source = <<body.item, r>> /\ row.conn = body.conn
        /\ row.persistent = IF body.says.stated THEN r ELSE old.persistent
        /\ row.last = IF Roster(body) THEN IF old.last >= day THEN old.last ELSE day
                      ELSE old.last
        /\ row.first = IF old.first <= day THEN old.first ELSE day
        /\ row.touched = body.at /\ row.active = old.active
    BY <1>1, <2>2, <2>3 DEF AccountUpTo
  <2> HIDE DEF row
  <2>5. /\ t.accounts = [s.accounts EXCEPT ![m] = row] /\ t.accounts \in Seq(AccountUpTo(now))
    BY <1>2, <1>3, <1>5, <2>1, <2>4 DEF StoreUpTo
  <2>6. OnlyAccounts(s, t)
    BY <2>1 DEF StoreUpTo, OnlyAccounts
  <2>7. t \in StoreUpTo(now, Len(A))
    BY <2>1, <2>5 DEF StoreUpTo
  <2> HIDE DEF t
  <2>8. i = m /\ t.accounts[i] = row /\ OneRowMoves(s, t, i)
    <3>1. i = m
      BY <1>5 DEF RowOf, m
    <3> HIDE DEF i
    <3> QED
      BY <1>2, <1>3, <1>5, <2>5, <3>1 DEF OneRowMoves
  <2> HIDE DEF i
  <2> QED
    BY <1>2, <1>3, <1>5, <2>4, <2>6, <2>7, <2>8 DEF t, i, m, body, day
<1> QED
  BY <1>4, <1>5

\* An upsert keeps what the accounts know of the archive, and lists r.
LEMMA UpsertKeeps ==
    ASSUME NEW now \in Nat, NEW A \in Archives(now), NEW n \in DOMAIN A,
           NEW seen, n \in seen, NEW in \in SUBSET DOMAIN A,
           NEW s \in StoreUpTo(now, Len(A)), AccountsSound(s, A, seen, in),
           NEW r \in A[n].says.listed
    PROVE  LET t == UpsertAccount(s, A[n], r)
               i == RowOf(s, A[n], r)
           IN /\ AccountsSound(t, A, seen, in) /\ ListedAt(t, i, A[n], r) /\ RowsGrow(s, t)
<1> DEFINE body == A[n]
           t == UpsertAccount(s, body, r)
           i == RowOf(s, body, r)
           m == MatchAccount(s, body, r)
           a == t.accounts[i]
           day == DayOf(body.at)
<1>1. /\ r \in Real /\ r # 0 /\ body.says.stated \in BOOLEAN /\ day \in Nat /\ day # 0
  BY BodyIs, RealAssumption
<1>2. /\ OneRowMoves(s, t, i) /\ i \in Nat \ {0} /\ a \in AccountUpTo(now)
      /\ m = 0 => i \notin DOMAIN s.accounts
      /\ m # 0 => i = m /\ i \in DOMAIN s.accounts
      /\ a.source = <<body.item, r>>
      /\ a.persistent = IF body.says.stated THEN r
                        ELSE IF m = 0 THEN 0 ELSE s.accounts[i].persistent
      /\ a.last = IF Roster(body)
                  THEN IF m # 0 /\ s.accounts[i].last >= day THEN s.accounts[i].last ELSE day
                  ELSE IF m = 0 THEN 0 ELSE s.accounts[i].last
  BY UpsertRow
<1>3. /\ m # 0 => \/ s.accounts[i].source = <<body.item, r>>
                  \/ body.says.stated /\ s.accounts[i].persistent = r
      /\ m = 0 => \A j \in DOMAIN s.accounts :
                     body.says.stated => s.accounts[j].persistent # r
  <2>1. /\ DOMAIN s.accounts \in SUBSET Nat /\ 0 \notin DOMAIN s.accounts
    BY DEF StoreUpTo
  <2>2. /\ m # 0 => \/ s.accounts[m].source = <<body.item, r>>
                    \/ body.says.stated /\ s.accounts[m].persistent = r
        /\ m = 0 => \A j \in DOMAIN s.accounts :
                       body.says.stated => s.accounts[j].persistent # r
    BY <2>1, MatchIs
  <2> QED
    BY <1>2, <2>2
<1>4. /\ \A j \in DOMAIN s.accounts : s.accounts[j].last \in Nat
      /\ \A j \in DOMAIN t.accounts : t.accounts[j].last \in Nat
  BY UpsertRow, AccountsTyped
<1>5. IdentityKnown(s, A) /\ OneRowEach(s, A) /\ SeenOnARoster(s, A, seen) /\ RostersAreIn(s, A, in)
  BY DEF AccountsSound
<1>6. ~ body.says.stated => ~ StatedIn(A, r)
  BY DEF StatedIn
<1> HIDE DEF t, i, m, a, day
<1>7. /\ DOMAIN t.accounts = DOMAIN s.accounts \cup {i} /\ t.accounts[i] = a
      /\ \A j \in DOMAIN s.accounts \ {i} : t.accounts[j] = s.accounts[j]
      /\ a.source[2] = r
  BY <1>2 DEF OneRowMoves, a
<1>8. m # 0 => s.accounts[i].source[2] = r
  BY <1>1, <1>2, <1>3, <1>5 DEF IdentityKnown
<1>9. RowsGrow(s, t)
  <2> SUFFICES ASSUME NEW j \in DOMAIN s.accounts
               PROVE  /\ j \in DOMAIN t.accounts
                      /\ t.accounts[j].source[2] = s.accounts[j].source[2]
                      /\ t.accounts[j].last >= s.accounts[j].last
    BY DEF RowsGrow
  <2>1. CASE j # i
    BY <1>4, <1>7, <2>1
  <2>2. CASE j = i
    <3>1. m # 0
      BY <1>2, <2>2
    <3>2. a.last >= s.accounts[i].last
      BY <1>1, <1>2, <1>4, <2>2, <3>1
    <3> QED
      BY <1>7, <1>8, <2>2, <3>1, <3>2
  <2> QED
    BY <2>1, <2>2
<1>10. IdentityKnown(t, A)
  <2> SUFFICES ASSUME NEW j \in DOMAIN t.accounts
               PROVE  /\ t.accounts[j].persistent \in {0, t.accounts[j].source[2]}
                      /\ t.accounts[j].persistent = 0 => ~ StatedIn(A, t.accounts[j].source[2])
    BY DEF IdentityKnown
  <2>1. CASE j # i
    BY <1>5, <1>7, <2>1 DEF IdentityKnown
  <2>2. CASE j = i /\ body.says.stated
    BY <1>1, <1>2, <1>7, <2>2
  <2>3. CASE j = i /\ ~ body.says.stated
    <3>1. m # 0 => s.accounts[i].persistent \in {0, r}
      BY <1>2, <1>5, <1>8 DEF IdentityKnown
    <3>2. a.persistent \in {0, r}
      BY <1>2, <2>3, <3>1
    <3> QED
      BY <1>6, <1>7, <2>3, <3>2
  <2> QED
    BY <1>1, <2>1, <2>2, <2>3
<1>11. OneRowEach(t, A)
  <2>1. ASSUME NEW j \in DOMAIN s.accounts, j # i, s.accounts[j].source[2] = r, StatedIn(A, r)
        PROVE  FALSE
    <3>1. CASE m # 0
      BY <1>2, <1>5, <1>8, <2>1, <3>1 DEF OneRowEach
    <3>2. CASE m = 0
      <4>1. s.accounts[j].persistent \in {0, r} /\ s.accounts[j].persistent # 0
        BY <1>5, <2>1 DEF IdentityKnown
      <4> QED
        BY <1>3, <1>6, <2>1, <3>2, <4>1
    <3> QED
      BY <3>1, <3>2
  <2> SUFFICES ASSUME NEW j \in DOMAIN t.accounts, NEW k \in DOMAIN t.accounts,
                      t.accounts[j].source[2] = t.accounts[k].source[2],
                      StatedIn(A, t.accounts[j].source[2]), j # k
               PROVE  FALSE
    BY DEF OneRowEach
  <2>2. CASE j = i
    BY <1>7, <2>1, <2>2
  <2>3. CASE k = i
    BY <1>7, <2>1, <2>3
  <2>4. CASE j # i /\ k # i
    BY <1>5, <1>7, <2>4 DEF OneRowEach
  <2> QED
    BY <2>2, <2>3, <2>4
<1>12. SeenOnARoster(t, A, seen)
  <2> SUFFICES ASSUME NEW j \in DOMAIN t.accounts, t.accounts[j].last # 0
               PROVE  \E k \in seen : /\ IsRosterOf(A[k], t.accounts[j].source[2])
                                      /\ t.accounts[j].last = DayOf(A[k].at)
    BY DEF SeenOnARoster
  <2>1. CASE j # i
    BY <1>5, <1>7, <2>1 DEF SeenOnARoster
  <2>2. CASE j = i /\ m # 0 /\ a.last = s.accounts[i].last
    BY <1>2, <1>5, <1>7, <1>8, <2>2 DEF SeenOnARoster
  <2>3. CASE j = i /\ Roster(body) /\ a.last = day
    <3>1. IsRosterOf(A[n], r)
      BY <2>3 DEF IsRosterOf
    <3> QED
      BY <1>7, <2>3, <3>1 DEF day
  <2> QED
    BY <1>2, <1>7, <2>1, <2>2, <2>3
<1>13. RostersAreIn(t, A, in)
  <2> SUFFICES ASSUME NEW k \in in, NEW q \in Real, IsRosterOf(A[k], q)
               PROVE  \E j \in DOMAIN t.accounts : /\ t.accounts[j].source[2] = q
                                                   /\ t.accounts[j].last >= DayOf(A[k].at)
    BY DEF RostersAreIn, RosterIsIn
  <2>1. PICK j \in DOMAIN s.accounts : /\ s.accounts[j].source[2] = q
                                       /\ s.accounts[j].last >= DayOf(A[k].at)
    BY <1>5 DEF RostersAreIn, RosterIsIn
  <2>2. /\ j \in DOMAIN t.accounts /\ t.accounts[j].source[2] = q
        /\ t.accounts[j].last >= s.accounts[j].last
    BY <1>9, <2>1 DEF RowsGrow
  <2>3. DayOf(A[k].at) \in Nat /\ s.accounts[j].last \in Nat /\ t.accounts[j].last \in Nat
    BY <1>4, <2>2, BodyIs
  <2> QED
    BY <2>1, <2>2, <2>3
<1>14. ListedAt(t, i, body, r)
  BY <1>1, <1>2, <1>4, <1>7 DEF ListedAt, day
<1> QED
  BY <1>9, <1>10, <1>11, <1>12, <1>13, <1>14 DEF AccountsSound, t, i

-----------------------------------------------------------------------------
(* Captures *)

\* What was put forward for a key takes the day, or leaves it to an earlier one.
LEMMA ClaimKeepsTheFirst ==
    ASSUME NEW n \in Nat, NEW table \in SUBSET CaptureUpTo(n), NEW offers \in SUBSET AnyOffer,
           FirstOfEachDay(table, offers), NEW key, NEW body, NEW o, NEW b,
           o.key = key, o.at = body.at, o.raw = body.raw, body.at \in Nat, body.raw \in Nat
    PROVE  /\ Claims(table, key, body) =>
                FirstOfEachDay((table \ Held(table, key)) \cup {Capture(key, body, b)},
                               offers \cup {o})
           /\ ~ Claims(table, key, body) => FirstOfEachDay(table, offers \cup {o})
<1> DEFINE mine == Capture(key, body, b)
           after == (table \ Held(table, key)) \cup {mine}
<1>1. /\ \A h \in table : h.at \in Nat /\ h.raw \in Nat
      /\ \A p \in offers : p.at \in Nat /\ p.raw \in Nat
  BY DEF CaptureUpTo, AnyOffer
<1>2. mine.key = key /\ mine.at = body.at /\ mine.raw = body.raw
  BY DEF Capture
<1>3. /\ \A h \in table : \A p \in offers : p.key = h.key => NotAfter(h, p)
      /\ \A h \in table : \E p \in offers : p.key = h.key /\ p.at = h.at /\ p.raw = h.raw
      /\ \A p \in offers : \E h \in table : h.key = p.key
  BY DEF FirstOfEachDay
<1>4. NotAfter(mine, o)
  BY <1>2 DEF NotAfter
<1>5. \A h \in table : h.key # key => h \in table \ Held(table, key)
  BY DEF Held
<1> HIDE DEF mine
<1>6. ASSUME Claims(table, key, body)
      PROVE  FirstOfEachDay(after, offers \cup {o})
  <2>1. ASSUME NEW p \in offers, p.key = key PROVE NotAfter(mine, p)
    <3>1. PICK h \in table : h.key = key
      BY <1>3, <2>1
    <3>2. NotAfter(h, p) /\ ~ NotAfter(h, body)
      BY <1>3, <1>6, <2>1, <3>1 DEF Claims, Held
    <3> QED
      BY <1>1, <1>2, <3>2 DEF NotAfter
  <2>2. ASSUME NEW h \in after, NEW p \in offers \cup {o}, p.key = h.key
        PROVE  NotAfter(h, p)
    <3>1. CASE h = mine
      BY <1>2, <1>4, <2>1, <2>2, <3>1
    <3>2. CASE h # mine
      <4>1. h \in table /\ h.key # key
        BY <3>2 DEF Held
      <4>2. p \in offers
        BY <2>2, <4>1
      <4> QED
        BY <1>3, <2>2, <4>1, <4>2
    <3> QED
      BY <3>1, <3>2
  <2>3. \A h \in after : \E p \in offers \cup {o} :
           p.key = h.key /\ p.at = h.at /\ p.raw = h.raw
    BY <1>2, <1>3
  <2>4. ASSUME NEW p \in offers \cup {o}
        PROVE  \E h \in after : h.key = p.key
    <3>1. CASE p.key = key
      BY <1>2, <3>1
    <3>2. CASE p.key # key
      <4>1. p \in offers
        BY <3>2
      <4>2. PICK h \in table : h.key = p.key
        BY <1>3, <4>1
      <4>3. h \in after
        BY <1>5, <3>2, <4>2
      <4> QED
        BY <4>2, <4>3
    <3> QED
      BY <3>1, <3>2
  <2> HIDE DEF after
  <2> QED
    BY <2>2, <2>3, <2>4 DEF FirstOfEachDay
<1>7. ASSUME ~ Claims(table, key, body)
      PROVE  FirstOfEachDay(table, offers \cup {o})
  <2>1. PICK g \in table : g.key = key /\ NotAfter(g, body)
    BY <1>7 DEF Claims, Held
  <2>2. PICK p \in offers : p.key = key /\ p.at = g.at /\ p.raw = g.raw
    BY <1>3, <2>1
  <2>3. ASSUME NEW h \in table, h.key = key PROVE NotAfter(h, o)
    <3>1. NotAfter(h, p)
      BY <1>3, <2>2, <2>3
    <3> QED
      BY <1>1, <2>1, <2>2, <3>1 DEF NotAfter
  <2>4. \A h \in table : \A q \in offers \cup {o} : q.key = h.key => NotAfter(h, q)
    BY <1>3, <2>3
  <2> QED
    BY <1>3, <2>1, <2>4 DEF FirstOfEachDay
<1> QED
  BY <1>6, <1>7 DEF mine

OnlyCaptures(s, t) ==
    /\ t.accounts = s.accounts /\ t.ledger = s.ledger /\ t.domain = s.domain
    /\ t.roster = s.roster /\ t.security = s.security /\ t.ok = s.ok

\* A capture that s has not is of row i and build b.
NewCapturesOf(s, t, i, b) ==
    \A h \in Captured(t) : h \in Captured(s) \/ (h.key[1] = i /\ h.build = b)

LEMMA KeyTyped ==
    ASSUME NEW now \in Nat, NEW A \in Archives(now), NEW n \in DOMAIN A,
           NEW i \in Nat, NEW b \in {1, 2}
    PROVE  LET key == <<i, DayOf(A[n].at)>>
               h == Capture(key, A[n], b) IN
           /\ key \in Nat \X Nat /\ key[1] = i /\ A[n].at \in Nat /\ A[n].raw = n /\ n \in Nat
           /\ h \in CaptureUpTo(Len(A)) /\ h.key = key /\ h.build = b
           /\ h.at = A[n].at /\ h.raw = n
<1>1. /\ A[n].at \in Nat /\ A[n].raw = n /\ n \in 1 .. Len(A) /\ n \in Nat /\ DayOf(A[n].at) \in Nat
  BY BodyIs
<1>2. <<i, DayOf(A[n].at)>> \in Nat \X Nat
  BY <1>1
<1> QED
  BY <1>1, <1>2 DEF Capture, CaptureUpTo

LEMMA WriteBalanceKeeps ==
    ASSUME NEW now \in Nat, NEW A \in Archives(now), NEW n \in DOMAIN A,
           NEW s \in StoreUpTo(now, Len(A)), CapturesSound(s, A),
           NEW i \in Nat, NEW b \in {1, 2}
    PROVE  LET t == WriteBalance(s, A[n], i, b) IN
           /\ t \in StoreUpTo(now, Len(A)) /\ CapturesSound(t, A)
           /\ OnlyCaptures(s, t) /\ NewCapturesOf(s, t, i, b)
<1> DEFINE body == A[n]
           t == WriteBalance(s, body, i, b)
           key == <<i, DayOf(body.at)>>
           mine == Capture(key, body, b)
           o == Offer("balance", key, body, FALSE)
           taken == Claims(s.balances, key, body)
<1>1. /\ mine \in CaptureUpTo(Len(A)) /\ mine.key = key /\ mine.build = b /\ key[1] = i
      /\ o \in AnyOffer /\ o.what = "balance" /\ o.key = key /\ o.at = body.at /\ o.raw = n
  BY KeyTyped DEF Offer, AnyOffer
<1>2. Len(A) \in Nat /\ body.at \in Nat /\ body.raw \in Nat /\ body.raw = n
  BY BodyIs
<1>3. /\ s.balances \in SUBSET CaptureUpTo(Len(A)) /\ s.offers \in SUBSET AnyOffer
      /\ s.holdings \in SUBSET CaptureUpTo(Len(A)) /\ s.refused \in SUBSET CaptureUpTo(Len(A))
  BY DEF StoreUpTo
<1>4. /\ t.offers = s.offers \cup {o} /\ t.holdings = s.holdings /\ t.refused = s.refused
      /\ t.balances = IF taken THEN (s.balances \ Held(s.balances, key)) \cup {mine}
                      ELSE s.balances
      /\ OnlyCaptures(s, t)
  BY DEF WriteBalance, StoreUpTo, OnlyCaptures
<1>5. t \in StoreUpTo(now, Len(A))
  <2>1. /\ s.offers \cup {o} \in SUBSET AnyOffer
        /\ (s.balances \ Held(s.balances, key)) \cup {mine} \in SUBSET CaptureUpTo(Len(A))
    BY <1>1, <1>3
  <2> HIDE DEF o, mine, key
  <2> QED
    BY <1>3, <2>1 DEF WriteBalance, StoreUpTo, o, mine, key
<1> HIDE DEF t, o, mine, key, body, taken
<1>6. /\ OffersOf(t, "balance") = OffersOf(s, "balance") \cup {o}
      /\ OffersOf(t, "position") = OffersOf(s, "position")
  BY <1>1, <1>4 DEF OffersOf
<1>7. FirstOfEachDay(t.balances, OffersOf(t, "balance"))
  <2>1. /\ FirstOfEachDay(s.balances, OffersOf(s, "balance"))
        /\ OffersOf(s, "balance") \in SUBSET AnyOffer
    BY <1>3 DEF CapturesSound, OffersOf
  <2>2. /\ taken => FirstOfEachDay((s.balances \ Held(s.balances, key)) \cup {mine},
                                   OffersOf(s, "balance") \cup {o})
        /\ ~ taken => FirstOfEachDay(s.balances, OffersOf(s, "balance") \cup {o})
    BY <1>1, <1>2, <1>3, <2>1, ClaimKeepsTheFirst DEF taken, mine
  <2> QED
    BY <1>4, <1>6, <2>2
<1>8. PositionsAreOfBodies(t, A) /\ OnePositionADay(t)
  BY <1>4, <1>6 DEF CapturesSound, PositionsAreOfBodies, OnePositionADay
<1>9. NewCapturesOf(s, t, i, b)
  BY <1>1, <1>4 DEF NewCapturesOf, Captured
<1> QED
  BY <1>4, <1>5, <1>6, <1>7, <1>8, <1>9 DEF CapturesSound, t, body

LEMMA WriteHoldingKeeps ==
    ASSUME NEW now \in Nat, NEW A \in Archives(now), NEW n \in DOMAIN A,
           NEW s \in StoreUpTo(now, Len(A)), CapturesSound(s, A),
           NEW i \in Nat, NEW b \in {1, 2}
    PROVE  LET t == WriteHolding(s, A[n], i, b) IN
           /\ t \in StoreUpTo(now, Len(A)) /\ CapturesSound(t, A)
           /\ OnlyCaptures(s, t) /\ NewCapturesOf(s, t, i, b)
<1> DEFINE body == A[n]
           t == WriteHolding(s, body, i, b)
           key == <<i, DayOf(body.at)>>
           mine == Capture(key, body, b)
           o == Offer("position", key, body, body.says.refused)
           table == s.holdings \cup s.refused
           taken == Claims(table, key, body)
           priced == (s.holdings \ Held(s.holdings, key))
                        \cup (IF body.says.refused THEN {} ELSE {mine})
           unpriced == (s.refused \ Held(s.refused, key))
                        \cup (IF body.says.refused THEN {mine} ELSE {})
<1>2. /\ Len(A) \in Nat /\ body.at \in Nat /\ body.raw \in Nat /\ body.raw = n
      /\ body.says.refused \in BOOLEAN
  BY BodyIs
<1>1. /\ mine \in CaptureUpTo(Len(A)) /\ mine.key = key /\ mine.build = b /\ key[1] = i
      /\ mine.at = body.at /\ mine.raw = n
      /\ o \in AnyOffer /\ o.what = "position" /\ o.key = key /\ o.at = body.at /\ o.raw = n
      /\ o.refused = body.says.refused
  BY <1>2, KeyTyped DEF Offer, AnyOffer
<1>3. /\ s.balances \in SUBSET CaptureUpTo(Len(A)) /\ s.offers \in SUBSET AnyOffer
      /\ s.holdings \in SUBSET CaptureUpTo(Len(A)) /\ s.refused \in SUBSET CaptureUpTo(Len(A))
  BY DEF StoreUpTo
<1>4. /\ t.offers = s.offers \cup {o} /\ t.balances = s.balances
      /\ t.holdings = IF taken THEN priced ELSE s.holdings
      /\ t.refused = IF taken THEN unpriced ELSE s.refused
      /\ OnlyCaptures(s, t)
  BY DEF WriteHolding, StoreUpTo, OnlyCaptures
<1>5. t \in StoreUpTo(now, Len(A))
  <2>1. /\ s.offers \cup {o} \in SUBSET AnyOffer
        /\ priced \in SUBSET CaptureUpTo(Len(A)) /\ unpriced \in SUBSET CaptureUpTo(Len(A))
    BY <1>1, <1>3
  <2>2. t = [s EXCEPT !.offers = s.offers \cup {o},
                      !.holdings = IF taken THEN priced ELSE s.holdings,
                      !.refused = IF taken THEN unpriced ELSE s.refused]
    BY DEF WriteHolding, StoreUpTo
  <2> HIDE DEF o, mine, key, priced, unpriced, t, taken
  <2> QED
    BY <1>3, <2>1, <2>2 DEF StoreUpTo
<1>10. (table \ Held(table, key)) \cup {mine} = priced \cup unpriced
  BY DEF Held
<1> HIDE DEF t, o, mine, key, body, taken, table
<1>6. /\ OffersOf(t, "position") = OffersOf(s, "position") \cup {o}
      /\ OffersOf(t, "balance") = OffersOf(s, "balance")
  BY <1>1, <1>4 DEF OffersOf
<1>7. FirstOfEachDay(t.holdings \cup t.refused, OffersOf(t, "position"))
  <2>1. /\ FirstOfEachDay(table, OffersOf(s, "position"))
        /\ OffersOf(s, "position") \in SUBSET AnyOffer
        /\ table \in SUBSET CaptureUpTo(Len(A))
    BY <1>3 DEF CapturesSound, OffersOf, table
  <2>2. /\ taken => FirstOfEachDay((table \ Held(table, key)) \cup {mine},
                                   OffersOf(s, "position") \cup {o})
        /\ ~ taken => FirstOfEachDay(table, OffersOf(s, "position") \cup {o})
    BY <1>1, <1>2, <2>1, ClaimKeepsTheFirst DEF taken, mine
  <2> HIDE DEF priced, unpriced
  <2> QED
    BY <1>4, <1>6, <1>10, <2>2 DEF table
<1>8. OnePositionADay(t)
  <2>1. IsFiniteSet(table) /\ \A g, h \in table : g.key = h.key => g = h
    BY DEF CapturesSound, OnePositionADay, table
  <2>2. /\ IsFiniteSet((table \ Held(table, key)) \cup {mine})
    BY <2>1, FS_Difference, FS_AddElement
  <2>3. \A g, h \in (table \ Held(table, key)) \cup {mine} : g.key = h.key => g = h
    BY <1>1, <2>1 DEF Held
  <2> HIDE DEF priced, unpriced
  <2> QED
    BY <1>4, <1>10, <2>1, <2>2, <2>3 DEF OnePositionADay, table
<1>9. PositionsAreOfBodies(t, A)
  <2>1. /\ \A h \in s.holdings : Offer("position", h.key, h, FALSE) \in s.offers
        /\ \A h \in s.refused : Offer("position", h.key, h, TRUE) \in s.offers
        /\ \A p \in OffersOf(s, "position") :
              p.raw \in DOMAIN A /\ p.at = A[p.raw].at /\ p.refused = A[p.raw].says.refused
    BY DEF CapturesSound, PositionsAreOfBodies
  <2>2. Offer("position", mine.key, mine, body.says.refused) = o
    BY <1>1, <1>2 DEF Offer, o
  <2>3. /\ \A h \in t.holdings : h \in s.holdings \/ (h = mine /\ ~ body.says.refused)
        /\ \A h \in t.refused : h \in s.refused \/ (h = mine /\ body.says.refused)
    BY <1>4
  <2>4. \A h \in t.holdings : Offer("position", h.key, h, FALSE) \in t.offers
    BY <1>2, <1>4, <2>1, <2>2, <2>3
  <2>5. \A h \in t.refused : Offer("position", h.key, h, TRUE) \in t.offers
    BY <1>2, <1>4, <2>1, <2>2, <2>3
  <2>6. \A p \in OffersOf(t, "position") :
           p.raw \in DOMAIN A /\ p.at = A[p.raw].at /\ p.refused = A[p.raw].says.refused
    BY <1>1, <1>6, <2>1 DEF body
  <2> QED
    BY <2>4, <2>5, <2>6 DEF PositionsAreOfBodies
<1>11. NewCapturesOf(s, t, i, b)
  BY <1>1, <1>4 DEF NewCapturesOf, Captured
<1> QED
  BY <1>4, <1>5, <1>6, <1>7, <1>8, <1>9, <1>11 DEF CapturesSound, t, body

-----------------------------------------------------------------------------
(* Steps of a deriver *)

\* No row is another build's.
Stamped(s, b) ==
    /\ \A h \in Captured(s) : h.build = b
    /\ \A k \in DOMAIN s.ledger : s.ledger[k].build = b

\* What every step of a loop over accounts, changes or positions does.
Leads(s, t, A, now, seen, in, b) ==
    /\ Sound(t, A, now, seen, in) /\ RowsGrow(s, t) /\ t.security = s.security
    /\ Stamped(s, b) => Stamped(t, b)

LEMMA SameRowsGrow ==
    ASSUME NEW now, NEW n, NEW s \in StoreUpTo(now, n), NEW t, t.accounts = s.accounts
    PROVE  RowsGrow(s, t)
<1> SUFFICES ASSUME NEW i \in DOMAIN s.accounts
             PROVE  s.accounts[i].last >= s.accounts[i].last
  BY DEF RowsGrow
<1> QED
  BY AccountsTyped

LEMMA RowsGrowOn ==
    ASSUME NEW now, NEW n, NEW s \in StoreUpTo(now, n), NEW t \in StoreUpTo(now, n),
           NEW u \in StoreUpTo(now, n), RowsGrow(s, t), RowsGrow(t, u)
    PROVE  RowsGrow(s, u)
<1> SUFFICES ASSUME NEW i \in DOMAIN s.accounts
             PROVE  /\ i \in DOMAIN u.accounts
                    /\ u.accounts[i].source[2] = s.accounts[i].source[2]
                    /\ u.accounts[i].last >= s.accounts[i].last
  BY DEF RowsGrow
<1>1. i \in DOMAIN t.accounts /\ i \in DOMAIN u.accounts
  BY DEF RowsGrow
<1>2. s.accounts[i].last \in Nat /\ t.accounts[i].last \in Nat /\ u.accounts[i].last \in Nat
  BY <1>1, AccountsTyped
<1>3. /\ t.accounts[i].source[2] = s.accounts[i].source[2]
      /\ t.accounts[i].last >= s.accounts[i].last
      /\ u.accounts[i].source[2] = t.accounts[i].source[2]
      /\ u.accounts[i].last >= t.accounts[i].last
  BY <1>1 DEF RowsGrow
<1> QED
  BY <1>1, <1>2, <1>3

LEMMA LeadsOn ==
    ASSUME NEW now, NEW A, NEW seen, NEW in, NEW b, NEW s, NEW t, NEW u,
           Sound(s, A, now, seen, in), Leads(s, t, A, now, seen, in, b),
           Leads(t, u, A, now, seen, in, b)
    PROVE  Leads(s, u, A, now, seen, in, b)
<1>1. /\ s \in StoreUpTo(now, Len(A)) /\ t \in StoreUpTo(now, Len(A))
      /\ u \in StoreUpTo(now, Len(A))
  BY DEF Leads, Sound
<1>2. RowsGrow(s, u)
  BY <1>1, RowsGrowOn DEF Leads
<1> QED
  BY <1>2 DEF Leads

LEMMA LeadsNowhere ==
    ASSUME NEW now, NEW A, NEW seen, NEW in, NEW b, NEW s, Sound(s, A, now, seen, in)
    PROVE  Leads(s, s, A, now, seen, in, b)
<1>1. RowsGrow(s, s)
  BY SameRowsGrow DEF Sound
<1> QED
  BY <1>1 DEF Leads

\* A step that writes captures of an account that is there.
LEMMA CaptureStep ==
    ASSUME NEW now, NEW A, NEW seen, NEW in, NEW b, NEW s, NEW t, NEW i,
           Sound(s, A, now, seen, in), t \in StoreUpTo(now, Len(A)), CapturesSound(t, A),
           OnlyCaptures(s, t), NewCapturesOf(s, t, i, b), i \in DOMAIN s.accounts
    PROVE  Leads(s, t, A, now, seen, in, b)
<1>1. RowsGrow(s, t)
  BY SameRowsGrow DEF Sound, OnlyCaptures
<1>2. AccountsSound(t, A, seen, in)
  BY DEF Sound, OnlyCaptures, AccountsSound, IdentityKnown, OneRowEach, SeenOnARoster,
         RostersAreIn, RosterIsIn
<1>3. ReferencesResolve(t)
  BY DEF Sound, OnlyCaptures, ReferencesResolve, NewCapturesOf
<1>4. Stamped(s, b) => Stamped(t, b)
  BY DEF OnlyCaptures, NewCapturesOf, Stamped
<1>5. SecuritySound(t, A) /\ t.security = s.security
  BY DEF Sound, OnlyCaptures, SecuritySound
<1> QED
  BY <1>1, <1>2, <1>3, <1>4, <1>5 DEF Leads, Sound

\* A step that writes the ledger.
OnlyLedger(s, t) ==
    /\ t.accounts = s.accounts /\ t.domain = s.domain /\ t.roster = s.roster
    /\ t.balances = s.balances /\ t.holdings = s.holdings /\ t.refused = s.refused
    /\ t.offers = s.offers /\ t.security = s.security /\ t.ok = s.ok

LedgerResolves(s, ledger) ==
    \A k \in DOMAIN ledger : ledger[k].account \in DOMAIN s.accounts /\ ledger[k].pair <= k

LEMMA LedgerStep ==
    ASSUME NEW now, NEW A, NEW seen, NEW in, NEW b, NEW s, NEW t,
           Sound(s, A, now, seen, in), t \in StoreUpTo(now, Len(A)), OnlyLedger(s, t),
           LedgerResolves(s, t.ledger),
           \A k \in DOMAIN t.ledger : \/ t.ledger[k].build = b
                                      \/ (k \in DOMAIN s.ledger /\ t.ledger[k].build = s.ledger[k].build)
    PROVE  Leads(s, t, A, now, seen, in, b)
<1>1. RowsGrow(s, t)
  BY SameRowsGrow DEF Sound, OnlyLedger
<1>2. AccountsSound(t, A, seen, in)
  BY DEF Sound, OnlyLedger, AccountsSound, IdentityKnown, OneRowEach, SeenOnARoster,
         RostersAreIn, RosterIsIn
<1>3. ReferencesResolve(t)
  BY DEF Sound, OnlyLedger, ReferencesResolve, LedgerResolves, Captured
<1>4. Stamped(s, b) => Stamped(t, b)
  BY DEF OnlyLedger, Stamped, Captured
<1>5. SecuritySound(t, A) /\ t.security = s.security
  BY DEF Sound, OnlyLedger, SecuritySound
<1>6. CapturesSound(t, A)
  BY DEF Sound, OnlyLedger, CapturesSound, OffersOf, OnePositionADay, PositionsAreOfBodies
<1> QED
  BY <1>1, <1>2, <1>3, <1>4, <1>5, <1>6 DEF Leads, Sound

\* A step that writes neither accounts, nor captures, nor the ledger.
LEMMA AsideStep ==
    ASSUME NEW now, NEW A, NEW seen, NEW in, NEW b, NEW s, NEW t,
           Sound(s, A, now, seen, in), t \in StoreUpTo(now, Len(A)),
           t.accounts = s.accounts, t.balances = s.balances, t.holdings = s.holdings,
           t.refused = s.refused, t.offers = s.offers, t.ledger = s.ledger,
           t.security = s.security
    PROVE  Leads(s, t, A, now, seen, in, b)
<1>1. RowsGrow(s, t)
  BY SameRowsGrow DEF Sound
<1>2. AccountsSound(t, A, seen, in)
  BY DEF Sound, AccountsSound, IdentityKnown, OneRowEach, SeenOnARoster,
         RostersAreIn, RosterIsIn
<1>3. ReferencesResolve(t) /\ (Stamped(s, b) => Stamped(t, b)) /\ SecuritySound(t, A)
  BY DEF Sound, ReferencesResolve, Captured, Stamped, SecuritySound
<1>6. CapturesSound(t, A)
  BY DEF Sound, CapturesSound, OffersOf, OnePositionADay, PositionsAreOfBodies
<1> QED
  BY <1>1, <1>2, <1>3, <1>6 DEF Leads, Sound

-----------------------------------------------------------------------------
(* Entries, changes and positions *)

\* Some row is the account r as a body lists it.
Listed(t, body, r) == \E i \in DOMAIN t.accounts : ListedAt(t, i, body, r)

LEMMA ListedStays ==
    ASSUME NEW now \in Nat, NEW A \in Archives(now), NEW n \in DOMAIN A,
           NEW s \in StoreUpTo(now, Len(A)), NEW t \in StoreUpTo(now, Len(A)),
           RowsGrow(s, t), NEW r, Listed(s, A[n], r)
    PROVE  Listed(t, A[n], r)
<1>1. PICK i \in DOMAIN s.accounts : ListedAt(s, i, A[n], r)
  BY DEF Listed
<1>2. /\ i \in DOMAIN t.accounts /\ t.accounts[i].source[2] = s.accounts[i].source[2]
      /\ t.accounts[i].last >= s.accounts[i].last
  BY DEF RowsGrow
<1>3. s.accounts[i].last \in Nat /\ t.accounts[i].last \in Nat /\ DayOf(A[n].at) \in Nat
  BY <1>2, AccountsTyped, BodyIs
<1>4. ListedAt(t, i, A[n], r)
  BY <1>1, <1>2, <1>3 DEF ListedAt
<1> QED
  BY <1>2, <1>4 DEF Listed

LEMMA OneAccountKeeps ==
    ASSUME NEW now \in Nat, NEW A \in Archives(now), NEW n \in DOMAIN A,
           NEW seen, n \in seen, NEW in \in SUBSET DOMAIN A, NEW b \in {1, 2},
           NEW s, Sound(s, A, now, seen, in), NEW r \in A[n].says.listed
    PROVE  LET t == DeriveOneAccount(s, A[n], r, b) IN
           Leads(s, t, A, now, seen, in, b) /\ Listed(t, A[n], r)
<1> DEFINE body == A[n]
           u == UpsertAccount(s, body, r)
           i == RowOf(s, body, r)
           t == DeriveOneAccount(s, body, r, b)
<1>1. s \in StoreUpTo(now, Len(A)) /\ AccountsSound(s, A, seen, in)
  BY DEF Sound
<1>2. u \in StoreUpTo(now, Len(A)) /\ OnlyAccounts(s, u) /\ i \in Nat
  BY <1>1, UpsertRow
<1>3. AccountsSound(u, A, seen, in) /\ ListedAt(u, i, body, r) /\ RowsGrow(s, u)
  BY <1>1, UpsertKeeps
<1>4. t = IF body.says.quoted THEN WriteBalance(u, body, i, b) ELSE u
  BY DEF DeriveOneAccount, RowOf
<1> HIDE DEF u, i, t, body
<1>5. Leads(s, u, A, now, seen, in, b)
  <2>1. ReferencesResolve(u)
    BY <1>2, <1>3 DEF Sound, OnlyAccounts, ReferencesResolve, Captured, RowsGrow
  <2>2. CapturesSound(u, A)
    BY <1>2 DEF Sound, OnlyAccounts, CapturesSound, OffersOf, OnePositionADay, PositionsAreOfBodies
  <2>3. SecuritySound(u, A) /\ u.security = s.security
    BY <1>2 DEF Sound, OnlyAccounts, SecuritySound
  <2>4. Stamped(s, b) => Stamped(u, b)
    BY <1>2 DEF OnlyAccounts, Stamped, Captured
  <2> QED
    BY <1>2, <1>3, <2>1, <2>2, <2>3, <2>4 DEF Leads, Sound
<1>6. Sound(u, A, now, seen, in) /\ CapturesSound(u, A) /\ Listed(u, body, r)
  BY <1>3, <1>5 DEF Leads, Sound, Listed, ListedAt
<1>7. CASE ~ body.says.quoted
  BY <1>4, <1>5, <1>6, <1>7 DEF t, body
<1>8. CASE body.says.quoted
  <2>1. /\ t \in StoreUpTo(now, Len(A)) /\ CapturesSound(t, A)
        /\ OnlyCaptures(u, t) /\ NewCapturesOf(u, t, i, b)
    BY <1>2, <1>4, <1>6, <1>8, WriteBalanceKeeps DEF body
  <2>2. i \in DOMAIN u.accounts
    BY <1>3 DEF ListedAt
  <2>3. Leads(u, t, A, now, seen, in, b)
    BY <1>6, <2>1, <2>2, CaptureStep
  <2>4. Leads(s, t, A, now, seen, in, b)
    BY <1>5, <2>3, LeadsOn
  <2>5. Listed(t, body, r)
    BY <1>2, <1>6, <2>1, <2>3, ListedStays DEF Leads, body
  <2> QED
    BY <2>4, <2>5 DEF t, body
<1> QED
  BY <1>7, <1>8

LEMMA AccountIdIs ==
    ASSUME NEW now, NEW n, NEW s \in StoreUpTo(now, n), NEW body, NEW r, AccountId(s, body, r) # 0
    PROVE  AccountId(s, body, r) \in DOMAIN s.accounts /\ AccountId(s, body, r) \in Nat
<1>1. Own(s, body, r) \in SUBSET DOMAIN s.accounts /\ DOMAIN s.accounts \in SUBSET Nat
  BY DEF Own, StoreUpTo
<1>2. Own(s, body, r) # {}
  BY DEF AccountId
<1>3. Min(Own(s, body, r)) \in Own(s, body, r)
  BY <1>1, <1>2, Extremes
<1> QED
  BY <1>1, <1>2, <1>3 DEF AccountId

LEMMA OnePositionKeeps ==
    ASSUME NEW now \in Nat, NEW A \in Archives(now), NEW n \in DOMAIN A,
           NEW seen, NEW in, NEW b \in {1, 2},
           NEW s, Sound(s, A, now, seen, in), NEW r
    PROVE  Leads(s, DeriveOnePosition(s, A[n], r, b), A, now, seen, in, b)
<1> DEFINE body == A[n]
           i == AccountId(s, body, r)
           t == DeriveOnePosition(s, body, r, b)
<1>1. s \in StoreUpTo(now, Len(A)) /\ CapturesSound(s, A)
  BY DEF Sound
<1>2. CASE i = 0
  <2>1. t = [s EXCEPT !.ok = FALSE]
    BY <1>2 DEF DeriveOnePosition
  <2>2. /\ t \in StoreUpTo(now, Len(A))
        /\ t.accounts = s.accounts /\ t.balances = s.balances /\ t.holdings = s.holdings
        /\ t.refused = s.refused /\ t.offers = s.offers /\ t.ledger = s.ledger
        /\ t.security = s.security
    BY <1>1, <2>1, ZenonT(40) DEF StoreUpTo
  <2> HIDE DEF t
  <2> QED
    BY <2>2, AsideStep DEF t
<1>3. CASE i # 0
  <2>1. i \in DOMAIN s.accounts /\ i \in Nat
    BY <1>1, <1>3, AccountIdIs
  <2>2. t = WriteHolding(s, body, i, b)
    BY <1>3 DEF DeriveOnePosition
  <2> HIDE DEF i, t, body
  <2>3. /\ t \in StoreUpTo(now, Len(A)) /\ CapturesSound(t, A)
        /\ OnlyCaptures(s, t) /\ NewCapturesOf(s, t, i, b)
    BY <1>1, <2>1, <2>2, WriteHoldingKeeps DEF body
  <2> QED
    BY <2>1, <2>3, CaptureStep DEF t, body
<1> QED
  BY <1>2, <1>3

\* Row k of the ledger is new or rewritten.
RowWritten(s, t, k, row) ==
    \/ k \in DOMAIN s.ledger /\ t = [s EXCEPT !.ledger = [s.ledger EXCEPT ![k] = row]]
    \/ k = Len(s.ledger) + 1 /\ t = [s EXCEPT !.ledger = Append(s.ledger, row)]

LEMMA OneLedgerRow ==
    ASSUME NEW now \in Nat, NEW A \in Archives(now), NEW seen, NEW in,
           NEW b \in {1, 2}, NEW s, Sound(s, A, now, seen, in), NEW t,
           NEW row \in LedgerRowUpTo(Len(A)), NEW k \in Nat, RowWritten(s, t, k, row),
           row.account \in DOMAIN s.accounts, row.pair <= k,
           row.build = b \/ (k \in DOMAIN s.ledger /\ row.build = s.ledger[k].build)
    PROVE  Leads(s, t, A, now, seen, in, b)
<1>1. s \in StoreUpTo(now, Len(A)) /\ s.ledger \in Seq(LedgerRowUpTo(Len(A)))
  BY DEF Sound, StoreUpTo
<1>2. /\ t.ledger \in Seq(LedgerRowUpTo(Len(A)))
      /\ \A j \in DOMAIN t.ledger : \/ j = k /\ t.ledger[j] = row
                                    \/ j \in DOMAIN s.ledger /\ t.ledger[j] = s.ledger[j]
  <2>1. CASE k \in DOMAIN s.ledger /\ t = [s EXCEPT !.ledger = [s.ledger EXCEPT ![k] = row]]
    <3>1. t.ledger = [s.ledger EXCEPT ![k] = row]
      BY <1>1, <2>1 DEF StoreUpTo
    <3> QED
      BY <1>1, <2>1, <3>1
  <2>2. CASE k = Len(s.ledger) + 1 /\ t = [s EXCEPT !.ledger = Append(s.ledger, row)]
    <3>1. t.ledger = Append(s.ledger, row)
      BY <1>1, <2>2 DEF StoreUpTo
    <3> QED
      BY <1>1, <2>2, <3>1
  <2> QED
    BY <2>1, <2>2 DEF RowWritten
<1>3. t \in StoreUpTo(now, Len(A)) /\ OnlyLedger(s, t)
  BY <1>1, <1>2 DEF StoreUpTo, OnlyLedger, RowWritten
<1>4. LedgerResolves(s, t.ledger)
  <2>1. \A j \in DOMAIN s.ledger : s.ledger[j].account \in DOMAIN s.accounts /\ s.ledger[j].pair <= j
    BY DEF Sound, ReferencesResolve
  <2> QED
    BY <1>2, <2>1 DEF LedgerResolves
<1>5. \A j \in DOMAIN t.ledger : \/ t.ledger[j].build = b
                                 \/ j \in DOMAIN s.ledger /\ t.ledger[j].build = s.ledger[j].build
  BY <1>2
<1> QED
  BY <1>3, <1>4, <1>5, LedgerStep

LEMMA WriteTransactionKeeps ==
    ASSUME NEW now \in Nat, NEW A \in Archives(now), NEW n \in DOMAIN A,
           NEW seen, NEW in, NEW b \in {1, 2}, NEW s, Sound(s, A, now, seen, in),
           NEW m \in Moves, AccountId(s, A[n], m) # 0
    PROVE  Leads(s, WriteTransaction(s, A[n], m, b), A, now, seen, in, b)
<1> DEFINE body == A[n]
           i == AccountId(s, body, m)
           rows == TxRow(s, i, m)
           pairable == body.says.changes[m] = "transfer"
           t == WriteTransaction(s, body, m, b)
<1>1. s \in StoreUpTo(now, Len(A)) /\ s.ledger \in Seq(LedgerRowUpTo(Len(A)))
  BY DEF Sound, StoreUpTo
<1>2. i \in DOMAIN s.accounts /\ i \in Nat
  BY <1>1, AccountIdIs
<1>3. body.at \in Nat /\ body.raw \in 1 .. Len(A)
  BY BodyIs
<1>4. CASE rows = {}
  <2> DEFINE row == [account |-> i, source |-> m, pairable |-> pairable, removed |-> FALSE,
                     pair |-> 0, override |-> FALSE, at |-> body.at, raw |-> body.raw,
                     build |-> b]
  <2>1. t = [s EXCEPT !.ledger = Append(s.ledger, row)]
    BY <1>1, <1>4 DEF WriteTransaction, StoreUpTo
  <2>2. row \in LedgerRowUpTo(Len(A)) /\ row.account = i /\ row.pair = 0 /\ row.build = b
    <3> HIDE DEF i, body
    <3> QED
      BY <1>2, <1>3 DEF LedgerRowUpTo
  <2>3. Len(s.ledger) + 1 \in Nat /\ 0 <= Len(s.ledger) + 1
    BY <1>1
  <2> HIDE DEF row, i, t, body
  <2>4. Leads(s, t, A, now, seen, in, b)
    BY <1>2, <2>1, <2>2, <2>3, OneLedgerRow DEF RowWritten
  <2> QED
    BY <2>4 DEF t, body
<1>5. CASE rows # {}
  <2> DEFINE k == Min(rows)
             old == s.ledger[k]
             row == [old EXCEPT !.pairable = pairable, !.removed = FALSE,
                                !.at = body.at, !.raw = body.raw, !.build = b]
  <2>1. rows \in SUBSET DOMAIN s.ledger /\ rows \in SUBSET Nat
    BY <1>1 DEF TxRow
  <2>2. k \in rows
    BY <1>5, <2>1, Extremes
  <2>3. k \in DOMAIN s.ledger /\ k \in Nat
    BY <2>1, <2>2
  <2>4. t = [s EXCEPT !.ledger = [s.ledger EXCEPT ![k] = row]]
    BY <1>1, <1>5 DEF WriteTransaction, StoreUpTo
  <2> HIDE DEF k
  <2>5. old \in LedgerRowUpTo(Len(A)) /\ old.account \in DOMAIN s.accounts /\ old.pair <= k
    BY <1>1, <2>3 DEF Sound, ReferencesResolve
  <2> HIDE DEF old, body, i
  <2>6. row \in LedgerRowUpTo(Len(A)) /\ row.account = old.account /\ row.pair = old.pair
        /\ row.build = b
    BY <1>3, <2>5 DEF LedgerRowUpTo
  <2> HIDE DEF row, t
  <2>7. Leads(s, t, A, now, seen, in, b)
    BY <2>3, <2>4, <2>5, <2>6, OneLedgerRow DEF RowWritten
  <2> QED
    BY <2>7 DEF t, body
<1> QED
  BY <1>4, <1>5

LEMMA MarkRemovedKeeps ==
    ASSUME NEW now \in Nat, NEW A \in Archives(now), NEW n \in DOMAIN A,
           NEW seen, NEW in, NEW b \in {1, 2}, NEW s, Sound(s, A, now, seen, in), NEW m
    PROVE  Leads(s, MarkRemoved(s, A[n], m), A, now, seen, in, b)
<1> DEFINE body == A[n]
           rows == {k \in TxRow(s, AccountId(s, body, m), m) : ~ s.ledger[k].removed}
           t == MarkRemoved(s, body, m)
<1>1. s \in StoreUpTo(now, Len(A)) /\ s.ledger \in Seq(LedgerRowUpTo(Len(A)))
  BY DEF Sound, StoreUpTo
<1>2. body.at \in Nat
  BY BodyIs
<1>3. CASE rows = {}
  <2>1. t = s
    BY <1>3 DEF MarkRemoved
  <2> QED
    BY <2>1, LeadsNowhere
<1>4. CASE rows # {}
  <2> DEFINE k == Min(rows)
             old == s.ledger[k]
             row == [old EXCEPT !.removed = TRUE, !.at = body.at]
  <2>1. rows \in SUBSET DOMAIN s.ledger /\ rows \in SUBSET Nat
    BY <1>1 DEF TxRow
  <2>2. k \in rows
    BY <1>4, <2>1, Extremes
  <2>3. k \in DOMAIN s.ledger /\ k \in Nat
    BY <2>1, <2>2
  <2>4. t = [s EXCEPT !.ledger = [s.ledger EXCEPT ![k] = row]]
    BY <1>1, <1>4 DEF MarkRemoved, StoreUpTo
  <2> HIDE DEF k
  <2>5. old \in LedgerRowUpTo(Len(A)) /\ old.account \in DOMAIN s.accounts /\ old.pair <= k
    BY <1>1, <2>3 DEF Sound, ReferencesResolve
  <2>6. row \in LedgerRowUpTo(Len(A)) /\ row.account = old.account /\ row.pair = old.pair
        /\ row.build = s.ledger[k].build
    <3>1. old.build = s.ledger[k].build
      OBVIOUS
    <3> HIDE DEF old, body
    <3> QED
      BY <1>2, <2>5, <3>1 DEF LedgerRowUpTo
  <2> HIDE DEF old, body, row, t
  <2>7. Leads(s, t, A, now, seen, in, b)
    BY <2>3, <2>4, <2>5, <2>6, OneLedgerRow DEF RowWritten
  <2> QED
    BY <2>7 DEF t, body
<1> QED
  BY <1>3, <1>4

LEMMA ApplyChangeKeeps ==
    ASSUME NEW now \in Nat, NEW A \in Archives(now), NEW n \in DOMAIN A,
           NEW seen, NEW in, NEW b \in {1, 2}, NEW s, Sound(s, A, now, seen, in),
           NEW m \in Moves
    PROVE  Leads(s, ApplyChange(s, A[n], m, b), A, now, seen, in, b)
<1> DEFINE t == ApplyChange(s, A[n], m, b)
<1>1. CASE t = s
  BY <1>1, LeadsNowhere
<1>2. CASE t = MarkRemoved(s, A[n], m)
  BY <1>2, MarkRemovedKeeps
<1>3. CASE t = [s EXCEPT !.ok = FALSE]
  <2>1. /\ t \in StoreUpTo(now, Len(A))
        /\ t.accounts = s.accounts /\ t.balances = s.balances /\ t.holdings = s.holdings
        /\ t.refused = s.refused /\ t.offers = s.offers /\ t.ledger = s.ledger
        /\ t.security = s.security
    BY <1>3, ZenonT(40) DEF Sound, StoreUpTo
  <2> HIDE DEF t
  <2> QED
    BY <2>1, AsideStep DEF t
<1>4. CASE AccountId(s, A[n], m) # 0 /\ t = WriteTransaction(s, A[n], m, b)
  BY <1>4, WriteTransactionKeeps
<1> QED
  BY <1>1, <1>2, <1>3, <1>4 DEF ApplyChange

-----------------------------------------------------------------------------
(* The loops of the derivers *)

LEMMA MaxIn ==
    ASSUME NEW S \in SUBSET Real, NEW T \in SUBSET S, T # {}
    PROVE  IsFiniteSet(S) /\ Max(T) \in T
<1>1. IsFiniteSet(S) /\ IsFiniteSet(T) /\ T \in SUBSET Nat
  BY RealAssumption, FS_Subset
<1> QED
  BY <1>1, Extremes

AllLed(it, S, s, A, now, seen, in, b) ==
    \A T \in SUBSET S : Leads(s, it[T], A, now, seen, in, b)

\* The steps of the loop, up to each subset of what it is over.
EntriesTrace(it, s, body, b) ==
    LET S == body.says.listed IN
    /\ it[{}] = s /\ it[S] = DeriveAccountEntries(s, body, b)
    /\ \A T \in SUBSET S : T # {} =>
          Max(T) \in T /\ it[T] = DeriveOneAccount(it[T \ {Max(T)}], body, Max(T), b)

LEMMA EntriesRun ==
    ASSUME NEW now \in Nat, NEW A \in Archives(now), NEW n \in DOMAIN A,
           NEW seen, n \in seen, NEW in \in SUBSET DOMAIN A, NEW b \in {1, 2},
           NEW s, Sound(s, A, now, seen, in)
    PROVE  \E it : EntriesTrace(it, s, A[n], b) /\ AllLed(it, A[n].says.listed, s, A, now, seen, in, b)
<1> DEFINE S == A[n].says.listed
           G == {u \in StoreUpTo(now, Len(A)) : Leads(s, u, A, now, seen, in, b)}
           Step(r, u) == DeriveOneAccount(u, A[n], r, b)
           F == [r \in S |-> [u \in G |-> Step(r, u)]]
           pick == [T \in SUBSET S |-> Max(T)]
           Loop(it) == it = [T \in SUBSET S |-> IF T = {} THEN s
                                                ELSE LET x == Max(T) IN Step(x, it[T \ {x}])]
           it == CHOOSE it : Loop(it)
           H == {T \in SUBSET S : it[T] \in G}
<1>1. S \in SUBSET Real /\ IsFiniteSet(S)
  BY BodyIs, RealAssumption, FS_Subset
<1>2. \A T \in SUBSET S : T # {} => Max(T) \in T
  BY <1>1, MaxIn
<1>3. s \in G
  BY LeadsNowhere DEF Sound
<1>4. ASSUME NEW r \in S, NEW u \in G PROVE Step(r, u) \in G
  <2>1. Sound(u, A, now, seen, in)
    BY DEF Leads
  <2>2. Leads(u, Step(r, u), A, now, seen, in, b)
    BY <2>1, OneAccountKeeps
  <2> HIDE DEF Step
  <2>3. Leads(s, Step(r, u), A, now, seen, in, b)
    BY <2>2, LeadsOn
  <2> QED
    BY <2>3 DEF Leads, Sound
<1>5. \E f : Loop(f)
  <2>1. F \in [S -> [G -> G]]
    <3> HIDE DEF G, Step, S
    <3> QED
      BY <1>4
  <2>2. \A T \in SUBSET S : T # {} => pick[T] \in T
    BY <1>2
  <2>3. PICK f : Loops(f, S, G, s, F, pick)
    <3> HIDE DEF F, G, pick, S
    <3> QED
      BY <1>1, <1>3, <2>1, <2>2, FoldExists
  <2>4. ASSUME NEW T \in SUBSET S
        PROVE  f[T] = IF T = {} THEN s ELSE Step(Max(T), f[T \ {Max(T)}])
    <3> HIDE DEF G, Step, S
    <3> QED
      BY <1>2, <2>3 DEF Loops
  <2>5. Loop(f)
    <3> HIDE DEF G, Step, S, F, pick
    <3> QED
      BY <2>3, <2>4 DEF Loops
  <2> QED
    BY <2>5
<1>6. Loop(it)
  <2> HIDE DEF Loop
  <2> QED
    BY <1>5
<1>7. DeriveAccountEntries(s, A[n], b) = it[S]
  BY DEF DeriveAccountEntries, Each, MapThenFoldSet
<1> HIDE DEF it, G, S, Step
<1>8. {} \in H
  BY <1>3, <1>6
<1>9. ASSUME NEW T \in SUBSET S, T # {}
      PROVE  \E x \in T : T \ {x} \in H => T \in H
  <2>1. Max(T) \in T /\ T \ {Max(T)} \in SUBSET S
    BY <1>2, <1>9
  <2>2. it[T] = Step(Max(T), it[T \ {Max(T)}])
    BY <1>6, <1>9
  <2>3. T \ {Max(T)} \in H => T \in H
    BY <1>4, <2>1, <2>2
  <2> QED
    BY <2>1, <2>3
<1>10. SUBSET S \subseteq H
  <2> HIDE DEF H
  <2> QED
    BY <1>1, <1>8, <1>9, SubsetInduction
<1>11. it[{}] = s /\ \A T \in SUBSET S : Leads(s, it[T], A, now, seen, in, b)
  BY <1>6, <1>10 DEF G
<1>12. \A T \in SUBSET S : T # {} => Max(T) \in T /\ it[T] = Step(Max(T), it[T \ {Max(T)}])
  BY <1>2, <1>6
<1> WITNESS it
<1> QED
  BY <1>7, <1>11, <1>12 DEF S, Step, EntriesTrace, AllLed

LEMMA EntriesKeep ==
    ASSUME NEW now \in Nat, NEW A \in Archives(now), NEW n \in DOMAIN A,
           NEW seen, n \in seen, NEW in \in SUBSET DOMAIN A, NEW b \in {1, 2},
           NEW s, Sound(s, A, now, seen, in)
    PROVE  LET t == DeriveAccountEntries(s, A[n], b) IN
           /\ Leads(s, t, A, now, seen, in, b)
           /\ \A r \in A[n].says.listed : Listed(t, A[n], r)
<1> DEFINE S == A[n].says.listed
<1>1. PICK it : EntriesTrace(it, s, A[n], b) /\ AllLed(it, S, s, A, now, seen, in, b)
  BY EntriesRun
<1>2. /\ it[{}] = s /\ it[S] = DeriveAccountEntries(s, A[n], b)
      /\ \A T \in SUBSET S : Leads(s, it[T], A, now, seen, in, b)
      /\ \A T \in SUBSET S : T # {} =>
            Max(T) \in T /\ it[T] = DeriveOneAccount(it[T \ {Max(T)}], A[n], Max(T), b)
  BY <1>1 DEF EntriesTrace, AllLed
<1> DEFINE H == {T \in SUBSET S : \A r \in T : Listed(it[T], A[n], r)}
<1>3. IsFiniteSet(S)
  BY BodyIs, RealAssumption, FS_Subset
<1>4. ASSUME NEW T \in SUBSET S, T # {}, T \ {Max(T)} \in H PROVE T \in H
  <2> DEFINE u == it[T \ {Max(T)}]
  <2>1. Max(T) \in S /\ it[T] = DeriveOneAccount(u, A[n], Max(T), b) /\ T \ {Max(T)} \in SUBSET S
    BY <1>2, <1>4
  <2>2. Sound(u, A, now, seen, in)
    BY <1>2, <2>1 DEF Leads
  <2> HIDE DEF u
  <2>3. Leads(u, it[T], A, now, seen, in, b) /\ Listed(it[T], A[n], Max(T))
    BY <2>1, <2>2, OneAccountKeeps
  <2>4. u \in StoreUpTo(now, Len(A)) /\ it[T] \in StoreUpTo(now, Len(A)) /\ RowsGrow(u, it[T])
    BY <2>2, <2>3 DEF Leads, Sound
  <2>5. \A r \in T \ {Max(T)} : Listed(u, A[n], r)
    BY <1>4 DEF u
  <2> QED
    BY <2>3, <2>4, <2>5, ListedStays
<1>5. S \in H
  <2>1. {} \in H /\ \A T \in SUBSET S : T # {} => \E x \in T : T \ {x} \in H => T \in H
    BY <1>2, <1>4
  <2> HIDE DEF H, S
  <2>2. \A T \in SUBSET S : T \in H
    BY <1>3, <2>1, SubsetInduction
  <2> QED
    BY <2>2
<1> QED
  BY <1>2, <1>5

\* The steps of the loop, up to each subset of what it is over.
ChangesTrace(it, s, body, b) ==
    LET S == Moves IN
    /\ it[{}] = s /\ it[S] = Each(LAMBDA u, m : ApplyChange(u, body, m, b), s, Moves)
    /\ \A T \in SUBSET S : T # {} =>
          Max(T) \in T /\ it[T] = ApplyChange(it[T \ {Max(T)}], body, Max(T), b)

\* _apply_transaction_changes.
LEMMA ChangesRun ==
    ASSUME NEW now \in Nat, NEW A \in Archives(now), NEW n \in DOMAIN A,
           NEW seen, NEW in, NEW b \in {1, 2}, NEW s, Sound(s, A, now, seen, in)
    PROVE  \E it : ChangesTrace(it, s, A[n], b) /\ AllLed(it, Moves, s, A, now, seen, in, b)
<1> DEFINE S == Moves
           G == {u \in StoreUpTo(now, Len(A)) : Leads(s, u, A, now, seen, in, b)}
           Step(r, u) == ApplyChange(u, A[n], r, b)
           F == [r \in S |-> [u \in G |-> Step(r, u)]]
           pick == [T \in SUBSET S |-> Max(T)]
           Loop(it) == it = [T \in SUBSET S |-> IF T = {} THEN s
                                                ELSE LET x == Max(T) IN Step(x, it[T \ {x}])]
           it == CHOOSE it : Loop(it)
           H == {T \in SUBSET S : it[T] \in G}
<1>1. S \in SUBSET Real /\ IsFiniteSet(S)
  BY RealAssumption, FS_Subset
<1>2. \A T \in SUBSET S : T # {} => Max(T) \in T
  BY <1>1, MaxIn
<1>3. s \in G
  BY LeadsNowhere DEF Sound
<1>4. ASSUME NEW r \in S, NEW u \in G
      PROVE  Step(r, u) \in G
  <2>1. Sound(u, A, now, seen, in)
    BY DEF Leads
  <2>2. Leads(u, Step(r, u), A, now, seen, in, b)
    BY <2>1, ApplyChangeKeeps
  <2> HIDE DEF Step
  <2>3. Leads(s, Step(r, u), A, now, seen, in, b)
    BY <2>2, LeadsOn
  <2> QED
    BY <2>3 DEF Leads, Sound
<1>5. \E f : Loop(f)
  <2>1. F \in [S -> [G -> G]]
    <3> HIDE DEF G, Step, S
    <3> QED
      BY <1>4
  <2>2. \A T \in SUBSET S : T # {} => pick[T] \in T
    BY <1>2
  <2>3. PICK f : Loops(f, S, G, s, F, pick)
    <3> HIDE DEF F, G, pick, S
    <3> QED
      BY <1>1, <1>3, <2>1, <2>2, FoldExists
  <2>4. ASSUME NEW T \in SUBSET S
        PROVE  f[T] = IF T = {} THEN s ELSE Step(Max(T), f[T \ {Max(T)}])
    <3> HIDE DEF G, Step, S
    <3> QED
      BY <1>2, <2>3 DEF Loops
  <2>5. Loop(f)
    <3> HIDE DEF G, Step, S, F, pick
    <3> QED
      BY <2>3, <2>4 DEF Loops
  <2> QED
    BY <2>5
<1>6. Loop(it)
  <2> HIDE DEF Loop
  <2> QED
    BY <1>5
<1>7. Each(LAMBDA u, m : ApplyChange(u, A[n], m, b), s, Moves) = it[S]
  BY DEF Each, MapThenFoldSet
<1> HIDE DEF it, G, S, Step
<1>8. {} \in H
  BY <1>3, <1>6
<1>9. ASSUME NEW T \in SUBSET S, T # {}
      PROVE  \E x \in T : T \ {x} \in H => T \in H
  <2>1. Max(T) \in T /\ T \ {Max(T)} \in SUBSET S
    BY <1>2, <1>9
  <2>2. it[T] = Step(Max(T), it[T \ {Max(T)}])
    BY <1>6, <1>9
  <2>3. T \ {Max(T)} \in H => T \in H
    BY <1>4, <2>1, <2>2
  <2> QED
    BY <2>1, <2>3
<1>10. SUBSET S \subseteq H
  <2> HIDE DEF H
  <2> QED
    BY <1>1, <1>8, <1>9, SubsetInduction
<1>11. it[{}] = s /\ \A T \in SUBSET S : Leads(s, it[T], A, now, seen, in, b)
  BY <1>6, <1>10 DEF G
<1>12. \A T \in SUBSET S : T # {} => Max(T) \in T /\ it[T] = Step(Max(T), it[T \ {Max(T)}])
  BY <1>2, <1>6
<1> WITNESS it
<1> QED
  BY <1>7, <1>11, <1>12 DEF S, Step, ChangesTrace, AllLed

LEMMA ChangesKeep ==
    ASSUME NEW now \in Nat, NEW A \in Archives(now), NEW n \in DOMAIN A,
           NEW seen, NEW in, NEW b \in {1, 2}, NEW s, Sound(s, A, now, seen, in)
    PROVE  Leads(s, Each(LAMBDA u, m : ApplyChange(u, A[n], m, b), s, Moves), A, now, seen, in, b)
<1>1. PICK it : ChangesTrace(it, s, A[n], b) /\ AllLed(it, Moves, s, A, now, seen, in, b)
  BY ChangesRun
<1>2. it[Moves] = Each(LAMBDA u, m : ApplyChange(u, A[n], m, b), s, Moves)
  BY <1>1 DEF ChangesTrace
<1> QED
  BY <1>1, <1>2 DEF AllLed

\* The steps of the loop, up to each subset of what it is over.
PositionsTrace(it, s, body, b) ==
    LET S == body.says.positions IN
    /\ it[{}] = s /\ it[S] = Each(LAMBDA u, r : DeriveOnePosition(u, body, r, b), s, body.says.positions)
    /\ \A T \in SUBSET S : T # {} =>
          Max(T) \in T /\ it[T] = DeriveOnePosition(it[T \ {Max(T)}], body, Max(T), b)

\* The positions of a holdings reply.
LEMMA PositionsRun ==
    ASSUME NEW now \in Nat, NEW A \in Archives(now), NEW n \in DOMAIN A,
           NEW seen, NEW in, NEW b \in {1, 2}, NEW s, Sound(s, A, now, seen, in)
    PROVE  \E it : PositionsTrace(it, s, A[n], b) /\ AllLed(it, A[n].says.positions, s, A, now, seen, in, b)
<1> DEFINE S == A[n].says.positions
           G == {u \in StoreUpTo(now, Len(A)) : Leads(s, u, A, now, seen, in, b)}
           Step(r, u) == DeriveOnePosition(u, A[n], r, b)
           F == [r \in S |-> [u \in G |-> Step(r, u)]]
           pick == [T \in SUBSET S |-> Max(T)]
           Loop(it) == it = [T \in SUBSET S |-> IF T = {} THEN s
                                                ELSE LET x == Max(T) IN Step(x, it[T \ {x}])]
           it == CHOOSE it : Loop(it)
           H == {T \in SUBSET S : it[T] \in G}
<1>1. S \in SUBSET Real /\ IsFiniteSet(S)
  BY BodyIs, RealAssumption, FS_Subset
<1>2. \A T \in SUBSET S : T # {} => Max(T) \in T
  BY <1>1, MaxIn
<1>3. s \in G
  BY LeadsNowhere DEF Sound
<1>4. ASSUME NEW r \in S, NEW u \in G
      PROVE  Step(r, u) \in G
  <2>1. Sound(u, A, now, seen, in)
    BY DEF Leads
  <2>2. Leads(u, Step(r, u), A, now, seen, in, b)
    BY <2>1, OnePositionKeeps
  <2> HIDE DEF Step
  <2>3. Leads(s, Step(r, u), A, now, seen, in, b)
    BY <2>2, LeadsOn
  <2> QED
    BY <2>3 DEF Leads, Sound
<1>5. \E f : Loop(f)
  <2>1. F \in [S -> [G -> G]]
    <3> HIDE DEF G, Step, S
    <3> QED
      BY <1>4
  <2>2. \A T \in SUBSET S : T # {} => pick[T] \in T
    BY <1>2
  <2>3. PICK f : Loops(f, S, G, s, F, pick)
    <3> HIDE DEF F, G, pick, S
    <3> QED
      BY <1>1, <1>3, <2>1, <2>2, FoldExists
  <2>4. ASSUME NEW T \in SUBSET S
        PROVE  f[T] = IF T = {} THEN s ELSE Step(Max(T), f[T \ {Max(T)}])
    <3> HIDE DEF G, Step, S
    <3> QED
      BY <1>2, <2>3 DEF Loops
  <2>5. Loop(f)
    <3> HIDE DEF G, Step, S, F, pick
    <3> QED
      BY <2>3, <2>4 DEF Loops
  <2> QED
    BY <2>5
<1>6. Loop(it)
  <2> HIDE DEF Loop
  <2> QED
    BY <1>5
<1>7. Each(LAMBDA u, r : DeriveOnePosition(u, A[n], r, b), s, A[n].says.positions) = it[S]
  BY DEF Each, MapThenFoldSet
<1> HIDE DEF it, G, S, Step
<1>8. {} \in H
  BY <1>3, <1>6
<1>9. ASSUME NEW T \in SUBSET S, T # {}
      PROVE  \E x \in T : T \ {x} \in H => T \in H
  <2>1. Max(T) \in T /\ T \ {Max(T)} \in SUBSET S
    BY <1>2, <1>9
  <2>2. it[T] = Step(Max(T), it[T \ {Max(T)}])
    BY <1>6, <1>9
  <2>3. T \ {Max(T)} \in H => T \in H
    BY <1>4, <2>1, <2>2
  <2> QED
    BY <2>1, <2>3
<1>10. SUBSET S \subseteq H
  <2> HIDE DEF H
  <2> QED
    BY <1>1, <1>8, <1>9, SubsetInduction
<1>11. it[{}] = s /\ \A T \in SUBSET S : Leads(s, it[T], A, now, seen, in, b)
  BY <1>6, <1>10 DEF G
<1>12. \A T \in SUBSET S : T # {} => Max(T) \in T /\ it[T] = Step(Max(T), it[T \ {Max(T)}])
  BY <1>2, <1>6
<1> WITNESS it
<1> QED
  BY <1>7, <1>11, <1>12 DEF S, Step, PositionsTrace, AllLed

LEMMA PositionsKeep ==
    ASSUME NEW now \in Nat, NEW A \in Archives(now), NEW n \in DOMAIN A,
           NEW seen, NEW in, NEW b \in {1, 2}, NEW s, Sound(s, A, now, seen, in)
    PROVE  Leads(s, Each(LAMBDA u, r : DeriveOnePosition(u, A[n], r, b), s, A[n].says.positions), A, now, seen, in, b)
<1>1. PICK it : PositionsTrace(it, s, A[n], b) /\ AllLed(it, A[n].says.positions, s, A, now, seen, in, b)
  BY PositionsRun
<1>2. it[A[n].says.positions] = Each(LAMBDA u, r : DeriveOnePosition(u, A[n], r, b), s, A[n].says.positions)
  BY <1>1 DEF PositionsTrace
<1> QED
  BY <1>1, <1>2 DEF AllLed

-----------------------------------------------------------------------------
(* A whole body *)

\* The security is this build's, or a body as late as b wrote it later.
SecurityMoves(s, t, body, b) ==
    \/ t.security.build = b
    \/ /\ s.security # NoSecurity /\ body.at < s.security.at
       /\ t.security.at = s.security.at /\ t.security.build = s.security.build

LEMMA SecurityKeeps ==
    ASSUME NEW now \in Nat, NEW A \in Archives(now), NEW n \in DOMAIN A,
           NEW seen, NEW in, NEW b \in {1, 2}, NEW s, Sound(s, A, now, seen, in),
           A[n].says.kind = "holdings"
    PROVE  LET t == UpsertSecurity(s, A[n], b) IN
           /\ Sound(t, A, now, seen, in) /\ RowsGrow(s, t) /\ SecurityMoves(s, t, A[n], b)
           /\ Stamped(s, b) => Stamped(t, b)
<1> DEFINE body == A[n]
           old == s.security
           t == UpsertSecurity(s, body, b)
           older == old.at # 0 /\ body.at < old.at
<1>1. s \in StoreUpTo(now, Len(A)) /\ old \in AnySecurity /\ body.at \in Nat /\ body.at # 0
  BY BodyIs DEF Sound, StoreUpTo
<1>2. old.created \in Nat /\ old.at \in Nat
  BY <1>1 DEF AnySecurity
<1>3. Min({old.created, body.at}) \in Nat
  BY <1>1, <1>2, OfTwo
<1>4. PICK new \in AnySecurity :
         /\ t = [s EXCEPT !.security = new]
         /\ older => new.at = old.at /\ new.build = old.build
         /\ ~ older => new.at = body.at /\ new.build = b
  <2>1. CASE older
    <3> DEFINE new == [old EXCEPT !.created = Min({old.created, body.at})]
    <3>1. t = [s EXCEPT !.security = new]
      BY <1>1, <2>1 DEF UpsertSecurity, StoreUpTo
    <3>2. new \in AnySecurity /\ new.at = old.at /\ new.build = old.build
      <4> HIDE DEF old, body
      <4> QED
        BY <1>1, <1>3 DEF AnySecurity
    <3> HIDE DEF new, t
    <3> QED
      BY <2>1, <3>1, <3>2
  <2>2. CASE ~ older
    <3> DEFINE new == [created |-> IF old.at = 0 THEN body.at ELSE Min({old.created, body.at}),
                       at |-> body.at, build |-> b]
    <3>1. t = [s EXCEPT !.security = new]
      BY <1>1, <2>2 DEF UpsertSecurity, StoreUpTo
    <3>2. new \in AnySecurity /\ new.at = body.at /\ new.build = b
      <4> HIDE DEF old, body
      <4> QED
        BY <1>1, <1>3 DEF AnySecurity
    <3> HIDE DEF new, t
    <3> QED
      BY <2>2, <3>1, <3>2
  <2> QED
    BY <2>1, <2>2
<1> HIDE DEF t, older
<1>5. /\ t \in StoreUpTo(now, Len(A)) /\ t.security = new
      /\ t.accounts = s.accounts /\ t.balances = s.balances /\ t.holdings = s.holdings
      /\ t.refused = s.refused /\ t.offers = s.offers /\ t.ledger = s.ledger
  BY <1>1, <1>4 DEF StoreUpTo
<1>6. older => s.security # NoSecurity /\ body.at < s.security.at
  BY DEF older, NoSecurity
<1>7. SecuritySound(t, A)
  <2>1. CASE older
    BY <1>4, <1>5, <1>6, <2>1 DEF Sound, SecuritySound
  <2>2. CASE ~ older
    BY <1>4, <1>5, <2>2 DEF SecuritySound
  <2> QED
    BY <2>1, <2>2
<1>8. AccountsSound(t, A, seen, in)
  BY <1>5 DEF Sound, AccountsSound, IdentityKnown, OneRowEach, SeenOnARoster,
              RostersAreIn, RosterIsIn
<1>9. ReferencesResolve(t) /\ (Stamped(s, b) => Stamped(t, b))
  BY <1>5 DEF Sound, ReferencesResolve, Captured, Stamped
<1>10. CapturesSound(t, A)
  BY <1>5 DEF Sound, CapturesSound, OffersOf, OnePositionADay, PositionsAreOfBodies
<1>11. RowsGrow(s, t)
  BY <1>1, <1>5, SameRowsGrow
<1>12. SecurityMoves(s, t, body, b)
  BY <1>4, <1>5, <1>6 DEF SecurityMoves
<1> QED
  BY <1>5, <1>7, <1>8, <1>9, <1>10, <1>11, <1>12 DEF Sound, t

\* A body whose entries were all derived is in.
LEMMA ListedIsIn ==
    ASSUME NEW A, NEW now, NEW seen, NEW in, NEW n, NEW t, Sound(t, A, now, seen, in),
           Roster(A[n]) => \A r \in A[n].says.listed : Listed(t, A[n], r)
    PROVE  Sound(t, A, now, seen, in \cup {n})
<1>1. RosterIsIn(t, A[n])
  BY DEF RosterIsIn, IsRosterOf, Listed, ListedAt
<1>2. RostersAreIn(t, A, in \cup {n})
  BY <1>1 DEF Sound, AccountsSound, RostersAreIn
<1> QED
  BY <1>2 DEF Sound, AccountsSound

\* What deriving the body n does.
Derives(s, t, A, now, seen, in, b, n) ==
    /\ Sound(t, A, now, seen, in \cup {n})
    /\ Stamped(s, b) => Stamped(t, b)
    /\ IF A[n].says.kind = "holdings" THEN SecurityMoves(s, t, A[n], b)
       ELSE t.security = s.security

\* Deriving a body keeps what the store knows of the archive.
LEMMA DeriveKeeps ==
    ASSUME NEW now \in Nat, NEW A \in Archives(now), NEW n \in DOMAIN A,
           NEW seen, n \in seen, NEW in \in SUBSET DOMAIN A, NEW b \in {1, 2},
           NEW s, Sound(s, A, now, seen, in)
    PROVE  Derives(s, Derive(s, A[n], b), A, now, seen, in, b, n)
<1> DEFINE body == A[n]
           u == DeriveAccountEntries(s, body, b)
           t == Derive(s, body, b)
<1>1. /\ body.says.kind \in {"accounts", "page", "holdings"} /\ body.conn \in Conns
      /\ body.at \in Nat /\ body.raw \in 0 .. Len(A) /\ body.item \in Nat
      /\ DayOf(body.at) \in Nat
  BY BodyIs DEF Template, Kinds
<1>2. Leads(s, u, A, now, seen, in, b) /\ \A r \in body.says.listed : Listed(u, body, r)
  BY EntriesKeep
<1>3. Sound(u, A, now, seen, in) /\ u \in StoreUpTo(now, Len(A)) /\ u.security = s.security
  BY <1>2 DEF Leads, Sound
<1>4. CASE body.says.kind = "accounts"
  <2> DEFINE day == Max({u.roster[body.conn], DayOf(body.at)})
  <2>1. t = [u EXCEPT !.roster = [u.roster EXCEPT ![body.conn] = day]]
    BY <1>3, <1>4 DEF Derive, DeriveAccounts, StoreUpTo
  <2>2. u.roster \in [Conns -> Nat]
    BY <1>3 DEF StoreUpTo
  <2>3. day \in Nat
    <3>1. u.roster[body.conn] \in Nat
      BY <1>1, <2>2
    <3> HIDE DEF u, body
    <3> QED
      BY <1>1, <3>1, OfTwo
  <2> HIDE DEF t, u, day
  <2>4. /\ t \in StoreUpTo(now, Len(A))
        /\ t.accounts = u.accounts /\ t.balances = u.balances /\ t.holdings = u.holdings
        /\ t.refused = u.refused /\ t.offers = u.offers /\ t.ledger = u.ledger
        /\ t.security = u.security
    BY <1>1, <1>3, <2>1, <2>2, <2>3 DEF StoreUpTo
  <2>5. Leads(u, t, A, now, seen, in, b)
    BY <1>3, <2>4, AsideStep
  <2>6. \A r \in body.says.listed : Listed(t, body, r)
    BY <1>2, <2>4 DEF Listed, ListedAt
  <2>7. Sound(t, A, now, seen, in \cup {n})
    BY <2>5, <2>6, ListedIsIn DEF Leads
  <2> QED
    BY <1>2, <1>4, <2>5, <2>7 DEF Leads, Derives, t
<1>5. CASE body.says.kind = "page"
  <2> DEFINE v == Each(LAMBDA w, m : ApplyChange(w, body, m, b), u, Moves)
             old == v.domain[body.conn]
             progress == IF body.says.ends = "cursor"
                         THEN [item |-> body.item, raw |-> body.raw, at |-> body.at, error |-> FALSE]
                         ELSE [old EXCEPT !.at = body.at, !.error = FALSE]
  <2>1. t = IF body.says.ends = "open" THEN v ELSE RecordDomainSuccess(v, body)
    BY <1>5 DEF Derive, DeriveTransactionsSync
  <2>2. Leads(u, v, A, now, seen, in, b)
    <3> HIDE DEF u
    <3> QED
      BY <1>3, ChangesKeep
  <2> HIDE DEF v, t, u
  <2>3. Sound(v, A, now, seen, in) /\ v \in StoreUpTo(now, Len(A))
    BY <2>2 DEF Leads, Sound
  <2>4. \/ t = v
        \/ t = [v EXCEPT !.domain = [v.domain EXCEPT ![body.conn] = progress]]
    BY <2>1, <2>3 DEF RecordDomainSuccess, StoreUpTo
  <2>5. progress \in ProgressUpTo(Len(A))
    <3>1. old \in ProgressUpTo(Len(A))
      BY <1>1, <2>3 DEF StoreUpTo
    <3> HIDE DEF old
    <3> QED
      BY <1>1, <3>1 DEF ProgressUpTo
  <2> HIDE DEF progress
  <2>6. /\ t \in StoreUpTo(now, Len(A))
        /\ t.accounts = v.accounts /\ t.balances = v.balances /\ t.holdings = v.holdings
        /\ t.refused = v.refused /\ t.offers = v.offers /\ t.ledger = v.ledger
        /\ t.security = v.security
    <3>1. CASE t = v
      BY <2>3, <3>1
    <3>2. CASE t = [v EXCEPT !.domain = [v.domain EXCEPT ![body.conn] = progress]]
      <4> DEFINE moved == [v.domain EXCEPT ![body.conn] = progress]
      <4>1. moved \in [Conns -> ProgressUpTo(Len(A))]
        BY <2>3, <2>5 DEF StoreUpTo
      <4>2. t = [v EXCEPT !.domain = moved]
        BY <3>2
      <4> HIDE DEF moved
      <4> QED
        BY <2>3, <4>1, <4>2 DEF StoreUpTo
    <3> QED
      BY <2>4, <3>1, <3>2
  <2>7. Leads(v, t, A, now, seen, in, b)
    BY <2>3, <2>6, AsideStep
  <2>8. Leads(s, t, A, now, seen, in, b)
    BY <1>2, <2>2, <2>7, LeadsOn DEF u
  <2>9. Sound(t, A, now, seen, in \cup {n})
    BY <1>5, <2>8, ListedIsIn DEF Leads, Roster
  <2> QED
    BY <1>5, <2>8, <2>9 DEF Leads, Derives, t
<1>6. CASE body.says.kind = "holdings"
  <2> DEFINE v == UpsertSecurity(u, body, b)
  <2>1. t = Each(LAMBDA w, r : DeriveOnePosition(w, body, r, b), v, body.says.positions)
    BY <1>6 DEF Derive, DeriveInvestmentsHoldings
  <2> HIDE DEF u
  <2>2. /\ Sound(v, A, now, seen, in) /\ RowsGrow(u, v) /\ SecurityMoves(u, v, body, b)
        /\ Stamped(u, b) => Stamped(v, b)
    BY <1>3, <1>6, SecurityKeeps
  <2>3. Leads(v, t, A, now, seen, in, b)
    <3> HIDE DEF v, t
    <3> QED
      BY <2>1, <2>2, PositionsKeep
  <2> HIDE DEF v, t
  <2>4. SecurityMoves(s, t, body, b)
    BY <1>3, <2>2, <2>3 DEF Leads, SecurityMoves
  <2>5. Sound(t, A, now, seen, in \cup {n})
    BY <1>6, <2>3, ListedIsIn DEF Leads, Roster
  <2> QED
    BY <1>2, <1>6, <2>2, <2>3, <2>4, <2>5 DEF Leads, Derives, t, u
<1> QED
  BY <1>1, <1>4, <1>5, <1>6

-----------------------------------------------------------------------------
(* Pairing *)

\* Legs as the callers of pair_transfers hand them over.
AreLegs(legs) ==
    /\ IsFiniteSet(legs)
    /\ \A l \in legs : l.id \in Nat /\ l.day \in Nat /\ l.amount \in Int
    /\ \A l, m \in legs : l.id = m.id => l = m

\* Pairs of matching legs, of which no two share a leg.
Matchings(legs) ==
    {pairs \in SUBSET SUBSET Nat :
        /\ \A p \in pairs : \E l, m \in legs : p = {l.id, m.id} /\ l.id # m.id /\ Matches(l, m)
        /\ \A p, q \in pairs : p = q \/ p \cap q = {}}

\* A leg left over when its turn came has no match after it that is left over.
Settled(legs, l, pairs) ==
    \/ l.id \in Taken(pairs)
    \/ \A m \in legs : LegBefore(l, m) /\ Matches(l, m) => m.id \in Taken(pairs)

LEMMA BestExists ==
    ASSUME NEW legs, AreLegs(legs), NEW left \in legs, NEW free \in SUBSET legs, free # {}
    PROVE  \E r \in free : \A o \in free \ {r} : Nearer(left, r, o)
<1> DEFINE R == {p \in free \X free : Nearer(left, p[2], p[1])}
<1>1. /\ \A l \in free : l.id \in Nat /\ Distance(left, l) \in Nat
      /\ \A l, m \in free : l.id = m.id => l = m
  BY DEF AreLegs, Distance
<1>2. \A x, y \in free : <<x, y>> \in R <=> Nearer(left, y, x)
  OBVIOUS
<1>3. \A x, y \in free : x # y => <<x, y>> \in R \/ <<y, x>> \in R
  BY <1>1, <1>2 DEF Nearer
<1>4. \A x, y, z \in free : <<x, y>> \in R /\ <<y, z>> \in R => <<x, z>> \in R
  BY <1>1, <1>2 DEF Nearer
<1>5. IsFiniteSet(free)
  BY FS_Subset DEF AreLegs
<1> HIDE DEF R
<1>6. PICK r \in free : \A o \in free \ {r} : <<o, r>> \in R
  BY <1>3, <1>4, <1>5, LastExists
<1> QED
  BY <1>2, <1>6

LEMMA LastLegIn ==
    ASSUME NEW legs, AreLegs(legs), NEW T \in SUBSET legs, T # {}
    PROVE  LastLeg(T) \in T
<1> DEFINE R == {p \in T \X T : LegBefore(p[1], p[2])}
<1>1. /\ \A l \in T : l.id \in Nat /\ l.day \in Nat
      /\ \A l, m \in T : l.id = m.id => l = m
  BY DEF AreLegs
<1>2. \A x, y \in T : <<x, y>> \in R <=> LegBefore(x, y)
  OBVIOUS
<1>3. \A x, y \in T : x # y => <<x, y>> \in R \/ <<y, x>> \in R
  BY <1>1, <1>2 DEF LegBefore
<1>4. \A x, y, z \in T : <<x, y>> \in R /\ <<y, z>> \in R => <<x, z>> \in R
  BY <1>1, <1>2 DEF LegBefore
<1>5. IsFiniteSet(T)
  BY FS_Subset DEF AreLegs
<1> HIDE DEF R
<1>6. PICK x \in T : \A y \in T \ {x} : <<y, x>> \in R
  BY <1>3, <1>4, <1>5, LastExists
<1>7. \A y \in T \ {x} : LegBefore(y, x)
  BY <1>2, <1>6
<1> QED
  BY <1>7 DEF LastLeg

\* A leg takes a free partner, and no pair it takes shares a leg with another.
LEMMA PairOneKeeps ==
    ASSUME NEW legs, AreLegs(legs), NEW left \in legs, NEW pairs \in Matchings(legs)
    PROVE  /\ PairOne(left, legs, pairs) \in Matchings(legs)
           /\ Settled(legs, left, PairOne(left, legs, pairs))
           /\ \A l : Settled(legs, l, pairs) => Settled(legs, l, PairOne(left, legs, pairs))
<1> DEFINE free == Partners(left, legs, pairs)
           best == CHOOSE r \in free : \A o \in free \ {r} : Nearer(left, r, o)
<1>1. CASE left.id \in Taken(pairs) \/ free = {}
  <2>1. PairOne(left, legs, pairs) = pairs
    BY <1>1 DEF PairOne
  <2>2. Settled(legs, left, pairs)
    BY <1>1 DEF Settled, Partners
  <2> QED
    BY <2>1, <2>2
<1>2. CASE left.id \notin Taken(pairs) /\ free # {}
  <2>1. free \in SUBSET legs
    BY DEF Partners
  <2>2. \E r \in free : \A o \in free \ {r} : Nearer(left, r, o)
    <3> HIDE DEF free
    <3> QED
      BY <1>2, <2>1, BestExists
  <2>3. best \in free
    <3> HIDE DEF free
    <3> QED
      BY <2>2
  <2>4. PairOne(left, legs, pairs) = pairs \cup {{left.id, best.id}}
    BY <1>2 DEF PairOne
  <2> HIDE DEF best
  <2>5. /\ best \in legs /\ best.id \notin Taken(pairs) /\ Matches(left, best)
        /\ LegBefore(left, best)
    BY <2>3 DEF Partners
  <2>6. left.id \in Nat /\ best.id \in Nat /\ left.id # best.id
    BY <2>5 DEF AreLegs, LegBefore
  <2>7. /\ pairs \in SUBSET SUBSET Nat
        /\ \A p \in pairs : \E l, m \in legs : p = {l.id, m.id} /\ l.id # m.id /\ Matches(l, m)
        /\ \A p, q \in pairs : p = q \/ p \cap q = {}
        /\ \A p \in pairs : p \cap {left.id, best.id} = {}
    BY <1>2, <2>5 DEF Matchings, Taken
  <2>8. /\ pairs \cup {{left.id, best.id}} \in SUBSET SUBSET Nat
        /\ \A p \in pairs \cup {{left.id, best.id}} :
              \E l, m \in legs : p = {l.id, m.id} /\ l.id # m.id /\ Matches(l, m)
        /\ \A p, q \in pairs \cup {{left.id, best.id}} : p = q \/ p \cap q = {}
    BY <2>5, <2>6, <2>7
  <2>9. /\ left.id \in Taken(pairs \cup {{left.id, best.id}})
        /\ Taken(pairs) \subseteq Taken(pairs \cup {{left.id, best.id}})
    BY DEF Taken
  <2>10. PairOne(left, legs, pairs) \in Matchings(legs)
    BY <2>4, <2>8 DEF Matchings
  <2>11. Settled(legs, left, PairOne(left, legs, pairs))
    BY <2>4, <2>9 DEF Settled
  <2>12. \A l : Settled(legs, l, pairs) => Settled(legs, l, PairOne(left, legs, pairs))
    BY <2>4, <2>9 DEF Settled
  <2> QED
    BY <2>10, <2>11, <2>12
<1> QED
  BY <1>1, <1>2

\* pair_transfers (store/transfers.py) pairs matching legs, each at most once,
\* and leaves no two legs unpaired that match: of any legs, on any days.
THEOREM PairingIsMaximal ==
    ASSUME NEW legs, AreLegs(legs)
    PROVE  LET pairs == PairTransfers(legs) IN
           /\ pairs \in Matchings(legs)
           /\ \A l, m \in legs : Matches(l, m) => l.id \in Taken(pairs) \/ m.id \in Taken(pairs)
<1> DEFINE G == Matchings(legs)
           Step(l, pairs) == PairOne(l, legs, pairs)
           F == [l \in legs |-> [pairs \in G |-> Step(l, pairs)]]
           pick == [T \in SUBSET legs |-> LastLeg(T)]
           Loop(it) == it = [T \in SUBSET legs |-> IF T = {} THEN {}
                                                   ELSE LET x == LastLeg(T) IN Step(x, it[T \ {x}])]
           it == CHOOSE it : Loop(it)
           H == {T \in SUBSET legs : it[T] \in G /\ \A l \in T : Settled(legs, l, it[T])}
<1>1. IsFiniteSet(legs)
  BY DEF AreLegs
<1>2. \A T \in SUBSET legs : T # {} => LastLeg(T) \in T
  BY LastLegIn
<1>3. {} \in G
  BY DEF Matchings
<1>4. \A l \in legs : \A pairs \in G :
         /\ Step(l, pairs) \in G /\ Settled(legs, l, Step(l, pairs))
         /\ \A m : Settled(legs, m, pairs) => Settled(legs, m, Step(l, pairs))
  BY PairOneKeeps
<1>5. \E f : Loop(f)
  <2>1. F \in [legs -> [G -> G]]
    <3> HIDE DEF G, Step
    <3> QED
      BY <1>4
  <2>2. \A T \in SUBSET legs : T # {} => pick[T] \in T
    BY <1>2
  <2>3. PICK f : Loops(f, legs, G, {}, F, pick)
    <3> HIDE DEF F, G, pick
    <3> QED
      BY <1>1, <1>3, <2>1, <2>2, FoldExists
  <2>4. ASSUME NEW T \in SUBSET legs
        PROVE  f[T] = IF T = {} THEN {} ELSE Step(LastLeg(T), f[T \ {LastLeg(T)}])
    <3> HIDE DEF G, Step
    <3> QED
      BY <1>2, <2>3 DEF Loops
  <2>5. Loop(f)
    <3> HIDE DEF G, Step, F, pick
    <3> QED
      BY <2>3, <2>4 DEF Loops
  <2> QED
    BY <2>5
<1>6. Loop(it)
  <2> HIDE DEF Loop
  <2> QED
    BY <1>5
<1>7. PairTransfers(legs) = it[legs]
  BY DEF PairTransfers, MapThenFoldSet
<1> HIDE DEF it, G, Step
<1>8. {} \in H
  BY <1>3, <1>6
<1>9. ASSUME NEW T \in SUBSET legs, T # {}
      PROVE  \E x \in T : T \ {x} \in H => T \in H
  <2>1. LastLeg(T) \in T /\ T \ {LastLeg(T)} \in SUBSET legs
    BY <1>2, <1>9
  <2>2. it[T] = Step(LastLeg(T), it[T \ {LastLeg(T)}])
    BY <1>6, <1>9
  <2>3. T \ {LastLeg(T)} \in H => T \in H
    BY <1>4, <2>1, <2>2
  <2> QED
    BY <2>1, <2>3
<1>10. legs \in H
  <2> HIDE DEF H
  <2> QED
    BY <1>1, <1>8, <1>9, SubsetInduction, ZenonT(40)
<1> DEFINE pairs == PairTransfers(legs)
<1>11. pairs \in Matchings(legs) /\ \A l \in legs : Settled(legs, l, pairs)
  BY <1>7, <1>10 DEF G
<1>12. ASSUME NEW l \in legs, NEW m \in legs, Matches(l, m)
       PROVE  l.id \in Taken(pairs) \/ m.id \in Taken(pairs)
  <2>1. /\ l.id \in Nat /\ l.day \in Nat /\ l.amount \in Int
        /\ m.id \in Nat /\ m.day \in Nat /\ m.amount \in Int
    BY DEF AreLegs
  <2>2. Matches(m, l)
    BY <1>12, <2>1 DEF Matches, Distance
  <2>3. l.id # m.id
    BY <1>12 DEF AreLegs, Matches
  <2>4. LegBefore(l, m) \/ LegBefore(m, l)
    BY <2>1, <2>3 DEF LegBefore
  <2> HIDE DEF pairs
  <2> QED
    BY <1>11, <1>12, <2>2, <2>4 DEF Settled
<1> QED
  BY <1>11, <1>12

\* The id of a pair is that of its older row.
LEMMA PairIdIs ==
    ASSUME NEW legs, NEW pairs \in Matchings(legs), NEW k \in Nat
    PROVE  PairId(k, pairs) \in Nat /\ PairId(k, pairs) <= k
<1>1. CASE k \notin Taken(pairs)
  BY <1>1 DEF PairId
<1>2. CASE k \in Taken(pairs)
  <2> DEFINE p == CHOOSE p \in pairs : k \in p
  <2>1. \E q \in pairs : k \in q
    BY <1>2 DEF Taken
  <2>2. p \in pairs /\ k \in p
    BY <2>1
  <2>3. PairId(k, pairs) = Min(p)
    BY <1>2 DEF PairId
  <2> HIDE DEF p
  <2>4. p \in SUBSET Nat /\ p # {}
    BY <2>2 DEF Matchings
  <2>5. Min(p) \in p /\ Min(p) <= k
    BY <2>2, <2>4, Extremes
  <2> QED
    BY <2>3, <2>4, <2>5
<1> QED
  BY <1>1, <1>2

LEMMA PairedKeeps ==
    ASSUME NEW now \in Nat, NEW A \in Archives(now), NEW seen, NEW in, NEW b,
           NEW s, Sound(s, A, now, seen, in)
    PROVE  Leads(s, PairedStore(s), A, now, seen, in, b)
<1> DEFINE pairs == PairTransfers(Legs(s))
           ledger == [k \in DOMAIN s.ledger |->
                        IF s.ledger[k].pairable THEN [s.ledger[k] EXCEPT !.pair = PairId(k, pairs)]
                        ELSE s.ledger[k]]
           t == PairedStore(s)
<1>1. /\ s \in StoreUpTo(now, Len(A)) /\ s.ledger \in Seq(LedgerRowUpTo(Len(A)))
      /\ Len(s.ledger) \in Nat /\ DOMAIN s.ledger = 1 .. Len(s.ledger)
  BY DEF Sound, StoreUpTo
<1>2. AreLegs(Legs(s))
  <2> DEFINE rows == {j \in DOMAIN s.ledger : s.ledger[j].pairable /\ ~ s.ledger[j].removed}
             leg == [k \in rows |-> [id |-> k, account |-> s.ledger[k].account, day |-> 1,
                       currency |-> "USD",
                       amount |-> IF s.ledger[k].source = Min(Moves) THEN 1 ELSE -1]]
  <2>1. Legs(s) = {leg[k] : k \in rows}
    BY DEF Legs
  <2>2. IsFiniteSet(rows)
    <3>1. rows \in SUBSET (1 .. Len(s.ledger))
      BY <1>1
    <3>2. IsFiniteSet(1 .. Len(s.ledger))
      <4>1. Len(s.ledger) \in Int
        BY <1>1
      <4> HIDE DEF rows, leg, pairs, ledger, t
      <4> QED
        BY <4>1, FS_Interval
    <3> HIDE DEF rows
    <3> QED
      BY <3>1, <3>2, FS_Subset
  <2>3. \A k \in rows : leg[k].id = k /\ leg[k].day = 1 /\ leg[k].amount \in Int /\ k \in Nat
    BY <1>1
  <2>5. leg \in [rows -> {leg[k] : k \in rows}]
    OBVIOUS
  <2> HIDE DEF rows, leg
  <2>4. IsFiniteSet(Legs(s))
    <3>1. leg \in Surjection(rows, Legs(s))
      BY <2>1, <2>5 DEF Surjection
    <3> QED
      BY <2>2, <3>1, FS_Surjection
  <2> QED
    BY <2>1, <2>3, <2>4 DEF AreLegs
<1>3. pairs \in Matchings(Legs(s))
  BY <1>2, PairingIsMaximal
<1>4. t = [s EXCEPT !.ledger = ledger]
  BY <1>1 DEF PairedStore, StoreUpTo
<1> HIDE DEF pairs
<1>5. ASSUME NEW k \in DOMAIN s.ledger
      PROVE  /\ ledger[k] \in LedgerRowUpTo(Len(A)) /\ ledger[k].account = s.ledger[k].account
             /\ ledger[k].build = s.ledger[k].build /\ ledger[k].pair <= k
  <2>1. PairId(k, pairs) \in Nat /\ PairId(k, pairs) <= k /\ s.ledger[k].pair <= k
    BY <1>1, <1>3, PairIdIs, SMTT(30) DEF Sound, ReferencesResolve
  <2>2. s.ledger[k] \in LedgerRowUpTo(Len(A))
    BY <1>1
  <2> QED
    BY <2>1, <2>2 DEF LedgerRowUpTo
<1>6. ledger \in Seq(LedgerRowUpTo(Len(A))) /\ DOMAIN ledger = DOMAIN s.ledger
  <2>1. \A k \in DOMAIN s.ledger : ledger[k] \in LedgerRowUpTo(Len(A))
    BY <1>5
  <2> DEFINE row(k) == IF s.ledger[k].pairable THEN [s.ledger[k] EXCEPT !.pair = PairId(k, pairs)]
                       ELSE s.ledger[k]
  <2>2. ledger = [k \in 1 .. Len(s.ledger) |-> row(k)] /\ \A k \in 1 .. Len(s.ledger) : row(k) \in LedgerRowUpTo(Len(A))
    BY <1>1, <2>1
  <2> HIDE DEF row, ledger
  <2> QED
    BY <1>1, <2>2
<1> HIDE DEF ledger, t
<1>7. t \in StoreUpTo(now, Len(A)) /\ OnlyLedger(s, t) /\ t.ledger = ledger
  BY <1>1, <1>4, <1>6 DEF StoreUpTo, OnlyLedger
<1>8. LedgerResolves(s, t.ledger)
  BY <1>5, <1>6, <1>7 DEF Sound, ReferencesResolve, LedgerResolves
<1>9. \A k \in DOMAIN t.ledger : t.ledger[k].build = b
                              \/ (k \in DOMAIN s.ledger /\ t.ledger[k].build = s.ledger[k].build)
  BY <1>5, <1>6, <1>7
<1>10. Leads(s, t, A, now, seen, in, b)
  BY <1>7, <1>8, <1>9, LedgerStep
<1> QED
  BY <1>10 DEF t

-----------------------------------------------------------------------------
(* Later archives *)

LEMMA SoundLater ==
    ASSUME NEW now \in Nat, NEW then \in Nat, now <= then,
           NEW A \in Archives(now), NEW B \in Archives(then),
           Len(A) <= Len(B), \A k \in DOMAIN A : B[k] = A[k],
           NEW seen \in SUBSET DOMAIN A, NEW more, seen \subseteq more,
           NEW in \in SUBSET DOMAIN A, NEW less \in SUBSET in,
           NEW s, Sound(s, A, now, seen, in)
    PROVE  Sound(s, B, then, more, less)
<1>1. /\ Len(A) \in Nat /\ Len(B) \in Nat /\ DOMAIN A = 1 .. Len(A) /\ DOMAIN B = 1 .. Len(B)
      /\ DOMAIN A \subseteq DOMAIN B
  BY DEF Archives
<1>2. s \in StoreUpTo(then, Len(B))
  <2>1. /\ AccountUpTo(now) \subseteq AccountUpTo(then)
        /\ CaptureUpTo(Len(A)) \subseteq CaptureUpTo(Len(B))
        /\ LedgerRowUpTo(Len(A)) \subseteq LedgerRowUpTo(Len(B))
        /\ ProgressUpTo(Len(A)) \subseteq ProgressUpTo(Len(B))
    <3>1. 1 .. now \subseteq 1 .. then /\ 1 .. Len(A) \subseteq 1 .. Len(B)
          /\ 0 .. Len(A) \subseteq 0 .. Len(B)
      BY <1>1
    <3> QED
      BY <3>1 DEF AccountUpTo, CaptureUpTo, LedgerRowUpTo, ProgressUpTo
  <2>2. /\ Seq(AccountUpTo(now)) \subseteq Seq(AccountUpTo(then))
        /\ Seq(LedgerRowUpTo(Len(A))) \subseteq Seq(LedgerRowUpTo(Len(B)))
    BY <2>1
  <2>3. [Conns -> ProgressUpTo(Len(A))] \subseteq [Conns -> ProgressUpTo(Len(B))]
    BY <2>1
  <2>4. s \in StoreUpTo(now, Len(A))
    BY DEF Sound
  <2> QED
    BY <2>1, <2>2, <2>3, <2>4 DEF StoreUpTo
<1>3. \A r : StatedIn(B, r) => StatedIn(A, r)
  BY <1>1 DEF StatedIn
<1>4. AccountsSound(s, B, more, less)
  <2>1. IdentityKnown(s, A) /\ OneRowEach(s, A) /\ SeenOnARoster(s, A, seen) /\ RostersAreIn(s, A, in)
    BY DEF Sound, AccountsSound
  <2>2. IdentityKnown(s, B)
    BY <1>3, <2>1 DEF IdentityKnown
  <2>3. OneRowEach(s, B)
    BY <1>3, <2>1 DEF OneRowEach
  <2>4. SeenOnARoster(s, B, more)
    BY <2>1 DEF SeenOnARoster
  <2>5. RostersAreIn(s, B, less)
    BY <2>1 DEF RostersAreIn
  <2> QED
    BY <2>2, <2>3, <2>4, <2>5 DEF AccountsSound
<1>5. CapturesSound(s, B)
  BY <1>1 DEF Sound, CapturesSound, PositionsAreOfBodies
<1>6. SecuritySound(s, B)
  BY <1>1 DEF Sound, SecuritySound
<1> QED
  BY <1>2, <1>4, <1>5, <1>6 DEF Sound

-----------------------------------------------------------------------------
(* A replay *)

LEMMA LastOfIn ==
    ASSUME clock \in Nat, archive \in Archives(clock), NEW T \in SUBSET DOMAIN archive, T # {}
    PROVE  LastOf(T) \in T /\ IsFiniteSet(DOMAIN archive)
<1> DEFINE R == {p \in T \X T : NotAfter(archive[p[1]], archive[p[2]])}
<1>1. \A k \in T : archive[k].at \in Nat /\ archive[k].raw = k /\ k \in Nat
  BY BodyIs
<1>2. \A x, y \in T : <<x, y>> \in R <=> NotAfter(archive[x], archive[y])
  OBVIOUS
<1>3. \A x, y \in T : x # y => <<x, y>> \in R \/ <<y, x>> \in R
  BY <1>1, <1>2 DEF NotAfter
<1>4. \A x, y, z \in T : <<x, y>> \in R /\ <<y, z>> \in R => <<x, z>> \in R
  BY <1>1, <1>2 DEF NotAfter
<1>5. IsFiniteSet(DOMAIN archive)
  <2>1. Len(archive) \in Nat /\ DOMAIN archive = 1 .. Len(archive)
    BY DEF Archives
  <2> QED
    BY <2>1, FS_Interval
<1>6. IsFiniteSet(T)
  BY <1>5, FS_Subset
<1> HIDE DEF R
<1>7. PICK x \in T : \A y \in T \ {x} : <<y, x>> \in R
  BY <1>3, <1>4, <1>6, LastExists
<1>8. ASSUME NEW y \in T PROVE NotAfter(archive[y], archive[x])
  <2>1. CASE y = x
    BY <1>1, <2>1 DEF NotAfter
  <2>2. CASE y # x
    BY <1>2, <1>7, <2>2
  <2> QED
    BY <2>1, <2>2
<1> QED
  BY <1>5, <1>8 DEF LastOf

\* The security is this build's once the body it was last read from is in.
SecurityRestamped(s, u, last, T) ==
    \/ u.security = NoSecurity \/ u.security.build = build
    \/ u.security.at = s.security.at /\ s.security # NoSecurity /\ last \notin T

LEMMA ClearedIsSound ==
    ASSUME NEW now, NEW A, NEW seen, NEW in, NEW b, NEW s, Sound(s, A, now, seen, in)
    PROVE  /\ Sound(Cleared(s), A, now, seen, in) /\ Stamped(Cleared(s), b)
           /\ Cleared(s).security = s.security
<1> DEFINE t == Cleared(s)
<1>1. /\ t \in StoreUpTo(now, Len(A)) /\ t.accounts = s.accounts /\ t.security = s.security
      /\ t.balances = {} /\ t.holdings = {} /\ t.refused = {} /\ t.ledger = <<>> /\ t.offers = {}
  <2>1. s \in StoreUpTo(now, Len(A))
    BY DEF Sound
  <2>2. /\ {} \in SUBSET CaptureUpTo(Len(A)) /\ {} \in SUBSET AnyOffer
        /\ <<>> \in Seq(LedgerRowUpTo(Len(A)))
    OBVIOUS
  <2> QED
    BY <2>1, <2>2 DEF Cleared, StoreUpTo
<1> HIDE DEF t
<1>2. AccountsSound(t, A, seen, in) /\ SecuritySound(t, A)
  BY <1>1 DEF Sound, AccountsSound, IdentityKnown, OneRowEach, SeenOnARoster,
              RostersAreIn, RosterIsIn, SecuritySound
<1>3. ReferencesResolve(t) /\ Stamped(t, b)
  BY <1>1 DEF ReferencesResolve, Stamped, Captured
<1>4. CapturesSound(t, A)
  <2>1. t.holdings \cup t.refused = {} /\ IsFiniteSet({})
    BY <1>1, FS_EmptySet
  <2> QED
    BY <1>1, <2>1 DEF CapturesSound, FirstOfEachDay, OffersOf, OnePositionADay, PositionsAreOfBodies
<1> QED
  BY <1>1, <1>2, <1>3, <1>4 DEF Sound, t

\* The steps of the replay, up to each set of bodies that are taken first.
ReplayTrace(it, s) ==
    /\ it[{}] = Cleared(s) /\ it[DOMAIN archive] = Rederived(s)
    /\ \A T \in SUBSET DOMAIN archive : T # {} =>
          it[T] = Derive(it[T \ {LastOf(T)}], archive[LastOf(T)], build)

LEMMA ReplayRun ==
    ASSUME clock \in Nat, archive \in Archives(clock), build \in {1, 2},
           NEW s, Sound(s, archive, clock, derived, derived), derived \subseteq DOMAIN archive
    PROVE  \E it : ReplayTrace(it, s)
<1> DEFINE S == DOMAIN archive
           all == DOMAIN archive
           G == {u \in StoreUpTo(clock, Len(archive)) : Sound(u, archive, clock, all, derived)}
           Step(k, u) == Derive(u, archive[k], build)
           first == Cleared(s)
           F == [k \in S |-> [u \in G |-> Step(k, u)]]
           pick == [T \in SUBSET S |-> LastOf(T)]
           Loop(it) == it = [T \in SUBSET S |-> IF T = {} THEN first
                                                ELSE LET x == LastOf(T) IN Step(x, it[T \ {x}])]
           it == CHOOSE it : Loop(it)
<1>1. IsFiniteSet(S)
  <2>1. Len(archive) \in Nat /\ DOMAIN archive = 1 .. Len(archive)
    BY DEF Archives
  <2> QED
    BY <2>1, FS_Interval
<1>2. \A T \in SUBSET S : T # {} => LastOf(T) \in T
  BY LastOfIn
<1>3. first \in G
  <2>1. Sound(first, archive, clock, derived, derived)
    BY ClearedIsSound
  <2> HIDE DEF first
  <2>2. Sound(first, archive, clock, all, derived)
    <3>1. clock <= clock /\ Len(archive) <= Len(archive)
      BY DEF Archives
    <3> QED
      BY <2>1, <3>1, SoundLater
  <2> QED
    BY <2>2 DEF Sound
<1>4. ASSUME NEW k \in S, NEW u \in G
      PROVE  Step(k, u) \in G
  <2>1. Derives(u, Step(k, u), archive, clock, all, derived, build, k)
    <3>1. Sound(u, archive, clock, all, derived)
      OBVIOUS
    <3> QED
      BY <3>1, DeriveKeeps
  <2> HIDE DEF Step
  <2>2. Sound(Step(k, u), archive, clock, all, derived \cup {k})
    BY <2>1 DEF Derives
  <2>3. Sound(Step(k, u), archive, clock, all, derived)
    BY <2>2 DEF Sound, AccountsSound, RostersAreIn
  <2> QED
    BY <2>3 DEF Sound
<1> HIDE DEF first, Step
<1>5. \E f : Loop(f)
  <2>1. F \in [S -> [G -> G]]
    <3> HIDE DEF G, S
    <3> QED
      BY <1>4
  <2>2. \A T \in SUBSET S : T # {} => pick[T] \in T
    BY <1>2
  <2>3. PICK f : Loops(f, S, G, first, F, pick)
    <3> HIDE DEF F, G, pick, S
    <3> QED
      BY <1>1, <1>3, <2>1, <2>2, FoldExists
  <2>4. ASSUME NEW T \in SUBSET S
        PROVE  f[T] = IF T = {} THEN first ELSE Step(LastOf(T), f[T \ {LastOf(T)}])
    <3> HIDE DEF G, S
    <3> QED
      BY <1>2, <2>3 DEF Loops
  <2>5. Loop(f)
    <3> HIDE DEF G, S, F, pick
    <3> QED
      BY <2>3, <2>4 DEF Loops
  <2> QED
    BY <2>5
<1>6. Loop(it)
  <2> HIDE DEF Loop
  <2> QED
    BY <1>5
<1>7. Rederived(s) = it[S]
  BY DEF Rederived, MapThenFoldSet, first, Step
<1> HIDE DEF it, G
<1>8. it[{}] = first /\ \A T \in SUBSET S : T # {} => it[T] = Step(LastOf(T), it[T \ {LastOf(T)}])
  BY <1>6
<1> QED
  BY <1>7, <1>8 DEF ReplayTrace, first, Step

\* A replay of the whole archive, over any sound store, is sound, and no row
\* of it is another build's.
LEMMA ReplayKeeps ==
    ASSUME clock \in Nat, archive \in Archives(clock), build \in {1, 2},
           NEW s, Sound(s, archive, clock, derived, derived), derived \subseteq DOMAIN archive
    PROVE  LET t == Rederived(s) IN
           /\ Sound(t, archive, clock, DOMAIN archive, DOMAIN archive) /\ Stamped(t, build)
           /\ t.security = NoSecurity \/ t.security.build = build
<1> DEFINE S == DOMAIN archive
           all == DOMAIN archive
           Step(k, u) == Derive(u, archive[k], build)
           first == Cleared(s)
<1>1. IsFiniteSet(S)
  <2>1. Len(archive) \in Nat /\ DOMAIN archive = 1 .. Len(archive)
    BY DEF Archives
  <2> QED
    BY <2>1, FS_Interval
<1>2. \A T \in SUBSET S : T # {} => LastOf(T) \in T
  BY LastOfIn
<1>3. PICK last : s.security = NoSecurity \/
                     /\ last \in S /\ archive[last].says.kind = "holdings"
                     /\ archive[last].at = s.security.at
  BY DEF Sound, SecuritySound
<1>4. /\ Sound(first, archive, clock, all, derived) /\ Stamped(first, build)
      /\ first.security = s.security
  <2>1. /\ Sound(first, archive, clock, derived, derived) /\ Stamped(first, build)
        /\ first.security = s.security
    BY ClearedIsSound
  <2> HIDE DEF first
  <2>2. Sound(first, archive, clock, all, derived)
    <3>1. clock <= clock /\ Len(archive) <= Len(archive)
      BY DEF Archives
    <3> QED
      BY <2>1, <3>1, SoundLater
  <2> QED
    BY <2>1, <2>2
<1>5. ASSUME NEW k \in S, NEW u, NEW in \in SUBSET S, Sound(u, archive, clock, all, in)
      PROVE  /\ Sound(Step(k, u), archive, clock, all, in \cup {k})
             /\ Stamped(u, build) => Stamped(Step(k, u), build)
             /\ IF archive[k].says.kind = "holdings"
                THEN SecurityMoves(u, Step(k, u), archive[k], build)
                ELSE Step(k, u).security = u.security
  <2>1. Derives(u, Step(k, u), archive, clock, all, in, build, k)
    BY <1>5, DeriveKeeps
  <2> HIDE DEF Step
  <2> QED
    BY <2>1 DEF Derives
<1> HIDE DEF first, Step
<1>8. PICK it : ReplayTrace(it, s)
  BY ReplayRun
<1>9. /\ it[{}] = first /\ it[S] = Rederived(s)
      /\ \A T \in SUBSET S : T # {} => it[T] = Step(LastOf(T), it[T \ {LastOf(T)}])
  BY <1>8 DEF ReplayTrace, first, Step
<1> DEFINE H == {T \in SUBSET S :
                   /\ Sound(it[T], archive, clock, all, derived \cup T) /\ Stamped(it[T], build)
                   /\ SecurityRestamped(s, it[T], last, T)}
<1>10. {} \in H
  <2>1. it[{}] = first
    BY <1>9
  <2>2. SecurityRestamped(s, first, last, {})
    BY <1>4 DEF SecurityRestamped
  <2>3. derived \cup {} = derived
    OBVIOUS
  <2> QED
    BY <1>4, <2>1, <2>2, <2>3
<1>11. ASSUME NEW T \in SUBSET S, T # {}
       PROVE  \E x \in T : T \ {x} \in H => T \in H
  <2> DEFINE x == LastOf(T)
             u == it[T \ {x}]
  <2>1. x \in T /\ T \ {x} \in SUBSET S
    BY <1>2, <1>11
  <2>2. it[T] = Step(x, u)
    BY <1>9, <1>11
  <2> HIDE DEF x, u
  <2>3. ASSUME T \ {x} \in H PROVE T \in H
    <3>1. /\ Sound(u, archive, clock, all, derived \cup (T \ {x})) /\ Stamped(u, build)
          /\ SecurityRestamped(s, u, last, T \ {x})
      BY <2>3 DEF u
    <3>2. x \in S /\ derived \cup (T \ {x}) \in SUBSET S /\ (derived \cup (T \ {x})) \cup {x} = derived \cup T
      BY <2>1
    <3>3. /\ Sound(it[T], archive, clock, all, derived \cup T) /\ Stamped(it[T], build)
          /\ IF archive[x].says.kind = "holdings"
             THEN SecurityMoves(u, it[T], archive[x], build)
             ELSE it[T].security = u.security
      <4> HIDE DEF S, all
      <4> QED
        BY <1>5, <2>2, <3>1, <3>2
    <3>4. archive[x].at \in Nat /\ (s.security # NoSecurity => archive[last].at \in Nat)
      BY <1>3, <2>1, BodyIs
    <3>5. SecurityRestamped(s, it[T], last, T)
      <4>1. CASE archive[x].says.kind = "holdings"
        BY <1>3, <3>1, <3>3, <3>4, <4>1 DEF SecurityMoves, SecurityRestamped
      <4>2. CASE archive[x].says.kind # "holdings"
        BY <1>3, <3>1, <3>3, <4>2 DEF SecurityRestamped
      <4> QED
        BY <4>1, <4>2
    <3> QED
      BY <3>3, <3>5
  <2> QED
    BY <2>1, <2>3
<1>12. S \in H
  <2> HIDE DEF H, S
  <2>1. \A T \in SUBSET S : T # {} => \E x \in T : T \ {x} \in H => T \in H
    BY <1>11
  <2>2. \A T \in SUBSET S : T \in H
    BY <1>1, <1>10, <2>1, SubsetInduction
  <2> QED
    BY <2>2
<1>13. derived \cup S = S
  OBVIOUS
<1> QED
  BY <1>3, <1>9, <1>12, <1>13 DEF SecurityRestamped

-----------------------------------------------------------------------------
(* A whole rebuild *)

LEMMA RestoreKeeps ==
    ASSUME NEW now, NEW A, NEW seen, NEW in, NEW b, NEW s, Sound(s, A, now, seen, in), NEW held
    PROVE  Leads(s, RestoreOperatorState(s, held), A, now, seen, in, b)
<1> DEFINE row(k) == [s.ledger[k] EXCEPT
                         !.override = <<s.ledger[k].account, s.ledger[k].source>> \in held]
           t == RestoreOperatorState(s, held)
<1>1. /\ s \in StoreUpTo(now, Len(A)) /\ s.ledger \in Seq(LedgerRowUpTo(Len(A)))
      /\ Len(s.ledger) \in Nat /\ DOMAIN s.ledger = 1 .. Len(s.ledger)
  BY DEF Sound, StoreUpTo
<1>2. t = [s EXCEPT !.ledger = [k \in 1 .. Len(s.ledger) |-> row(k)]]
  BY <1>1 DEF RestoreOperatorState, StoreUpTo
<1>3. ASSUME NEW k \in 1 .. Len(s.ledger)
      PROVE  /\ row(k) \in LedgerRowUpTo(Len(A)) /\ row(k).account = s.ledger[k].account
             /\ row(k).build = s.ledger[k].build /\ row(k).pair = s.ledger[k].pair
  <2>1. s.ledger[k] \in LedgerRowUpTo(Len(A))
    BY <1>1
  <2>2. (<<s.ledger[k].account, s.ledger[k].source>> \in held) \in BOOLEAN
    OBVIOUS
  <2> QED
    BY <2>1, <2>2 DEF LedgerRowUpTo
<1> HIDE DEF row, t
<1>4. /\ t \in StoreUpTo(now, Len(A)) /\ OnlyLedger(s, t)
      /\ DOMAIN t.ledger = DOMAIN s.ledger /\ \A k \in DOMAIN s.ledger : t.ledger[k] = row(k)
  <2>1. [k \in 1 .. Len(s.ledger) |-> row(k)] \in Seq(LedgerRowUpTo(Len(A)))
    BY <1>1, <1>3
  <2> QED
    BY <1>1, <1>2, <2>1 DEF StoreUpTo, OnlyLedger
<1>5. LedgerResolves(s, t.ledger)
  BY <1>1, <1>3, <1>4 DEF Sound, ReferencesResolve, LedgerResolves
<1>6. \A k \in DOMAIN t.ledger : t.ledger[k].build = b
                              \/ (k \in DOMAIN s.ledger /\ t.ledger[k].build = s.ledger[k].build)
  BY <1>1, <1>3, <1>4
<1>7. Leads(s, t, A, now, seen, in, b)
  BY <1>4, <1>5, <1>6, LedgerStep
<1> QED
  BY <1>7 DEF t

LEMMA ReplayedIsSound ==
    ASSUME clock \in Nat, archive \in Archives(clock), build \in {1, 2},
           NEW s, Sound(s, archive, clock, derived, derived), derived \subseteq DOMAIN archive
    PROVE  LET t == Replayed(s) IN
           /\ Sound(t, archive, clock, DOMAIN archive, DOMAIN archive)
           /\ VersionsPresent(t) \subseteq {build}
<1> DEFINE all == DOMAIN archive
           u == Rederived(s)
           v == PairedStore(u)
           t == RestoreOperatorState(v, Preserved(s))
<1>1. /\ Sound(u, archive, clock, all, all) /\ Stamped(u, build)
      /\ u.security = NoSecurity \/ u.security.build = build
  BY ReplayKeeps
<1> HIDE DEF u
<1>2. Leads(u, v, archive, clock, all, all, build)
  BY <1>1, PairedKeeps
<1> HIDE DEF v
<1>3. Leads(v, t, archive, clock, all, all, build)
  BY <1>2, RestoreKeeps DEF Leads
<1> HIDE DEF t
<1>4. /\ Sound(t, archive, clock, all, all) /\ Stamped(t, build)
      /\ t.security = NoSecurity \/ t.security.build = build
  BY <1>1, <1>2, <1>3 DEF Leads
<1>5. VersionsPresent(t) \subseteq {build}
  BY <1>4 DEF VersionsPresent, Stamped, Captured
<1> QED
  BY <1>4, <1>5 DEF Replayed, t, v, u

-----------------------------------------------------------------------------
(* The invariant is inductive *)

LEMMA TemplatesTyped == Templates \subseteq Template /\ MaxItems \in Nat
BY RepliesAssumption

LEMMA InitTyped == Init => IInv
<1> SUFFICES ASSUME Init PROVE IInv
  OBVIOUS
<1>1. /\ archive = <<>> /\ derived = {} /\ store = EmptyStore /\ items = 0 /\ clock = 0
      /\ build = 1 /\ faults = 0 /\ inflight = [p \in Procs |-> NoReply]
      /\ conns = [c \in Conns |-> [state |-> "none", item |-> 0]]
  BY DEF Init
<1>2. archive \in Archives(clock) /\ Len(archive) = 0 /\ DOMAIN archive = {}
  BY <1>1 DEF Archives
<1>3. Typed
  <2>1. /\ conns \in [Conns -> [state : {"none", "live", "retired"}, item : Nat]]
        /\ Live = {}
    BY <1>1 DEF Live
  <2> QED
    BY <1>1, <1>2, <2>1, TemplatesTyped DEF Typed
<1>4. store \in StoreUpTo(clock, Len(archive))
  <2>1. /\ <<>> \in Seq(AccountUpTo(clock)) /\ <<>> \in Seq(LedgerRowUpTo(Len(archive)))
        /\ {} \in SUBSET CaptureUpTo(Len(archive)) /\ {} \in SUBSET AnyOffer
    OBVIOUS
  <2>2. /\ [c \in Conns |-> NoDomain] \in [Conns -> ProgressUpTo(Len(archive))]
        /\ [c \in Conns |-> 0] \in [Conns -> Nat] /\ NoSecurity \in AnySecurity
    BY <1>2 DEF NoDomain, ProgressUpTo, NoSecurity, AnySecurity
  <2> QED
    BY <1>1, <2>1, <2>2 DEF EmptyStore, StoreUpTo
<1>5. /\ store.accounts = <<>> /\ store.balances = {} /\ store.holdings = {}
      /\ store.refused = {} /\ store.ledger = <<>> /\ store.offers = {}
      /\ store.security = NoSecurity
  BY <1>1 DEF EmptyStore
<1>6. AccountsSound(store, archive, derived, derived)
  BY <1>1, <1>5 DEF AccountsSound, IdentityKnown, OneRowEach, SeenOnARoster, RostersAreIn
<1>7. ReferencesResolve(store) /\ SecuritySound(store, archive)
  BY <1>5 DEF ReferencesResolve, Captured, SecuritySound
<1>8. CapturesSound(store, archive)
  <2>1. store.holdings \cup store.refused = {} /\ IsFiniteSet({})
    BY <1>5, FS_EmptySet
  <2> QED
    BY <1>5, <2>1 DEF CapturesSound, FirstOfEachDay, OffersOf, OnePositionADay, PositionsAreOfBodies
<1> QED
  BY <1>3, <1>4, <1>6, <1>7, <1>8 DEF IInv, Sound

\* What a step needs of the state before it.
LEMMA StateIs ==
    ASSUME IInv
    PROVE  /\ archive \in Archives(clock) /\ derived \in SUBSET DOMAIN archive
           /\ Len(archive) \in Nat /\ DOMAIN archive = 1 .. Len(archive)
           /\ conns \in [Conns -> [state : {"none", "live", "retired"}, item : Nat]]
           /\ \A c \in Live : conns[c].item \in 1 .. items
           /\ items \in 0 .. MaxItems /\ clock \in Nat /\ build \in {1, 2} /\ faults \in Nat
           /\ inflight \in [Procs -> ReplyUpTo(clock) \cup {NoReply}]
           /\ Sound(store, archive, clock, derived, derived)
           /\ store \in StoreUpTo(clock, Len(archive))
BY DEF IInv, Typed, Archives, Sound

LEMMA EnrollKeeps ==
    ASSUME IInv, NEW c \in Conns, Enroll(c) PROVE IInv'
<1>1. /\ items \in 0 .. MaxItems /\ items < MaxItems /\ items' = items + 1 /\ MaxItems \in Nat
      /\ conns' = [conns EXCEPT ![c] = [state |-> "live", item |-> items + 1]]
      /\ UNCHANGED <<archive, derived, store, clock, build, inflight, faults>>
  BY StateIs, TemplatesTyped DEF Enroll
<1>2. conns' \in [Conns -> [state : {"none", "live", "retired"}, item : Nat]]
  BY <1>1, StateIs
<1>3. items' \in 0 .. MaxItems /\ \A d \in Live' : conns'[d].item \in 1 .. items'
  BY <1>1, StateIs DEF Live
<1>4. Typed'
  BY <1>1, <1>2, <1>3 DEF IInv, Typed
<1> QED
  BY <1>1, <1>4 DEF IInv

LEMMA ReLinkKeeps ==
    ASSUME IInv, NEW c \in Conns, ReLink(c) PROVE IInv'
<1>1. /\ items \in 0 .. MaxItems /\ items < MaxItems /\ items' = items + 1 /\ MaxItems \in Nat
      /\ conns' = [conns EXCEPT ![c].item = items + 1]
      /\ store' = [store EXCEPT !.domain[c] = NoDomain]
      /\ UNCHANGED <<archive, derived, clock, build, inflight, faults>>
  BY StateIs, TemplatesTyped DEF ReLink
<1>2. conns' \in [Conns -> [state : {"none", "live", "retired"}, item : Nat]]
  <2> DEFINE Row == [state : {"none", "live", "retired"}, item : Nat]
             new == [conns[c] EXCEPT !.item = items + 1]
  <2>1. conns[c] \in Row /\ conns \in [Conns -> Row] /\ items + 1 \in Nat
    BY StateIs
  <2>2. new \in Row
    BY <2>1
  <2>3. conns' = [conns EXCEPT ![c] = new]
    BY <1>1
  <2>4. conns' \in [Conns -> Row]
    <3> HIDE DEF Row, new
    <3> QED
      BY <2>1, <2>2, <2>3
  <2> QED
    BY <2>4
<1>3. items' \in 0 .. MaxItems /\ \A d \in Live' : conns'[d].item \in 1 .. items'
  BY <1>1, StateIs DEF Live
<1>4. Typed'
  BY <1>1, <1>2, <1>3 DEF IInv, Typed
<1>5. /\ store' \in StoreUpTo(clock, Len(archive))
      /\ store'.accounts = store.accounts /\ store'.balances = store.balances
      /\ store'.holdings = store.holdings /\ store'.refused = store.refused
      /\ store'.offers = store.offers /\ store'.ledger = store.ledger
      /\ store'.security = store.security
  <2>1. NoDomain \in ProgressUpTo(Len(archive))
    BY StateIs DEF NoDomain, ProgressUpTo
  <2> HIDE DEF NoDomain
  <2> QED
    BY <1>1, <2>1, StateIs DEF StoreUpTo
<1>6. Leads(store, store', archive, clock, derived, derived, build)
  BY <1>5, StateIs, AsideStep
<1> QED
  BY <1>1, <1>4, <1>6 DEF IInv, Leads

LEMMA RetireKeeps ==
    ASSUME IInv, NEW c \in Conns, Retire(c) PROVE IInv'
<1> DEFINE row(i) == IF store.accounts[i].conn = c THEN [store.accounts[i] EXCEPT !.active = FALSE]
                     ELSE store.accounts[i]
<1>1. /\ conns' = [conns EXCEPT ![c].state = "retired"]
      /\ store' = [store EXCEPT !.accounts = [i \in DOMAIN store.accounts |-> row(i)]]
      /\ UNCHANGED <<archive, derived, items, clock, build, inflight, faults>>
  BY StateIs DEF Retire, StoreUpTo
<1>2. conns' \in [Conns -> [state : {"none", "live", "retired"}, item : Nat]]
  <2> DEFINE Row == [state : {"none", "live", "retired"}, item : Nat]
             new == [conns[c] EXCEPT !.state = "retired"]
  <2>1. conns[c] \in Row /\ conns \in [Conns -> Row] /\ items + 1 \in Nat
    BY StateIs
  <2>2. new \in Row
    BY <2>1
  <2>3. conns' = [conns EXCEPT ![c] = new]
    BY <1>1
  <2>4. conns' \in [Conns -> Row]
    <3> HIDE DEF Row, new
    <3> QED
      BY <2>1, <2>2, <2>3
  <2> QED
    BY <2>4
<1>3. \A d \in Live' : conns'[d].item \in 1 .. items'
  BY <1>1, StateIs DEF Live
<1>4. Typed'
  BY <1>1, <1>2, <1>3 DEF IInv, Typed
<1>5. /\ store.accounts \in Seq(AccountUpTo(clock))
      /\ Len(store.accounts) \in Nat /\ DOMAIN store.accounts = 1 .. Len(store.accounts)
  BY StateIs DEF StoreUpTo
<1>6. ASSUME NEW i \in DOMAIN store.accounts
      PROVE  /\ row(i) \in AccountUpTo(clock) /\ row(i).source = store.accounts[i].source
             /\ row(i).persistent = store.accounts[i].persistent
             /\ row(i).last = store.accounts[i].last
  <2>1. store.accounts[i] \in AccountUpTo(clock)
    BY <1>5
  <2> QED
    BY <2>1 DEF AccountUpTo
<1> HIDE DEF row
<1>7. /\ store' \in StoreUpTo(clock, Len(archive))
      /\ DOMAIN store'.accounts = DOMAIN store.accounts
      /\ \A i \in DOMAIN store.accounts : store'.accounts[i] = row(i)
      /\ OnlyAccounts(store, store')
  <2>1. [i \in DOMAIN store.accounts |-> row(i)] \in Seq(AccountUpTo(clock))
    BY <1>5, <1>6
  <2> QED
    BY <1>1, <2>1, StateIs DEF StoreUpTo, OnlyAccounts
<1>8. Sound(store, archive, clock, derived, derived)
  BY StateIs
<1>9. AccountsSound(store', archive, derived, derived)
  <2>1. /\ IdentityKnown(store, archive) /\ OneRowEach(store, archive)
        /\ SeenOnARoster(store, archive, derived) /\ RostersAreIn(store, archive, derived)
    BY <1>8 DEF Sound, AccountsSound
  <2>2. IdentityKnown(store', archive)
    BY <1>6, <1>7, <2>1 DEF IdentityKnown
  <2>3. OneRowEach(store', archive)
    BY <1>6, <1>7, <2>1 DEF OneRowEach
  <2>4. SeenOnARoster(store', archive, derived)
    BY <1>6, <1>7, <2>1 DEF SeenOnARoster
  <2>5. RostersAreIn(store', archive, derived)
    BY <1>6, <1>7, <2>1 DEF RostersAreIn, RosterIsIn
  <2> QED
    BY <2>2, <2>3, <2>4, <2>5 DEF AccountsSound
<1>10. ReferencesResolve(store') /\ SecuritySound(store', archive)
  BY <1>7, <1>8 DEF Sound, OnlyAccounts, ReferencesResolve, Captured, SecuritySound
<1>11. CapturesSound(store', archive)
  BY <1>7, <1>8 DEF Sound, OnlyAccounts, CapturesSound, OffersOf, OnePositionADay,
                    PositionsAreOfBodies
<1>12. Sound(store', archive, clock, derived, derived)
  BY <1>7, <1>9, <1>10, <1>11 DEF Sound
<1> QED
  BY <1>1, <1>4, <1>12 DEF IInv

LEMMA LaterClock ==
    ASSUME NEW now \in Nat, NEW then \in Nat, now <= then
    PROVE  /\ Archives(now) \subseteq Archives(then)
           /\ ReplyUpTo(now) \subseteq ReplyUpTo(then)
<1>1. 1 .. now \subseteq 1 .. then
  OBVIOUS
<1>2. ReplyUpTo(now) \subseteq ReplyUpTo(then) /\ BodyUpTo(now) \subseteq BodyUpTo(then)
  BY <1>1 DEF ReplyUpTo, BodyUpTo
<1>3. Seq(BodyUpTo(now)) \subseteq Seq(BodyUpTo(then))
  BY <1>2
<1> QED
  BY <1>2, <1>3 DEF Archives

LEMMA ClockMoves ==
    ASSUME IInv
    PROVE  /\ archive \in Archives(clock + 1) /\ clock + 1 \in Nat
           /\ ReplyUpTo(clock) \subseteq ReplyUpTo(clock + 1)
           /\ Sound(store, archive, clock + 1, derived, derived)
<1>1. clock \in Nat /\ clock + 1 \in Nat /\ clock <= clock + 1 /\ Len(archive) <= Len(archive)
  BY StateIs
<1>2. archive \in Archives(clock + 1) /\ ReplyUpTo(clock) \subseteq ReplyUpTo(clock + 1)
  BY <1>1, StateIs, LaterClock
<1> QED
  BY <1>1, <1>2, StateIs, SoundLater

LEMMA FetchKeeps ==
    ASSUME IInv, NEW p \in Procs, NEW c \in Conns, NEW m \in Templates, Fetch(p, c, m)
    PROVE  IInv'
<1>1. /\ c \in Live /\ clock' = clock + 1
      /\ inflight' = [inflight EXCEPT ![p] =
            [says |-> m, conn |-> c, item |-> conns[c].item, at |-> clock + 1]]
      /\ UNCHANGED <<archive, derived, store, conns, items, build, faults>>
  BY DEF Fetch
<1>2. [says |-> m, conn |-> c, item |-> conns[c].item, at |-> clock + 1] \in ReplyUpTo(clock + 1)
  <2>1. /\ conns[c].item \in 1 .. items /\ items \in 0 .. MaxItems /\ MaxItems \in Nat
        /\ clock + 1 \in 1 .. clock + 1 /\ m \in Template
    BY <1>1, StateIs, TemplatesTyped
  <2> QED
    BY <2>1 DEF ReplyUpTo
<1>3. inflight' \in [Procs -> ReplyUpTo(clock + 1) \cup {NoReply}]
  BY <1>1, <1>2, StateIs, ClockMoves
<1>4. Typed'
  BY <1>1, <1>3, ClockMoves DEF IInv, Typed, Live
<1> QED
  BY <1>1, <1>4, ClockMoves DEF IInv

\* A body archived behind the others.
LEMMA ArchivedIs ==
    ASSUME IInv, NEW p \in Procs, inflight[p] # NoReply
    PROVE  LET B == Append(archive, Archived(p))
               n == Len(archive) + 1 IN
           /\ B \in Archives(clock) /\ Len(B) = n /\ n \in DOMAIN B /\ B[n] = Archived(p)
           /\ DOMAIN archive \subseteq DOMAIN B
           /\ Sound(store, B, clock, derived, derived)
           /\ Sound(store, B, clock, derived \cup {n}, derived)
<1> DEFINE B == Append(archive, Archived(p))
           n == Len(archive) + 1
<1>1. inflight[p] \in ReplyUpTo(clock) /\ n \in Nat
  BY StateIs
<1>2. Archived(p) \in BodyUpTo(clock) /\ Archived(p).raw = n
  BY <1>1 DEF Archived, ReplyUpTo, BodyUpTo
<1>3. archive \in Seq(BodyUpTo(clock)) /\ \A k \in DOMAIN archive : archive[k].raw = k
  BY StateIs DEF Archives
<1>4. /\ B \in Seq(BodyUpTo(clock)) /\ Len(B) = n /\ DOMAIN B = 1 .. n /\ B[n] = Archived(p)
      /\ \A k \in DOMAIN archive : B[k] = archive[k]
  BY <1>2, <1>3
<1> HIDE DEF B
<1>5. B \in Archives(clock)
  <2>1. \A k \in DOMAIN B : k = n \/ k \in DOMAIN archive
    BY <1>4, StateIs
  <2> QED
    BY <1>2, <1>3, <1>4, <2>1 DEF Archives
<1>6. n \in DOMAIN B /\ DOMAIN archive \subseteq DOMAIN B /\ Len(archive) <= Len(B)
      /\ clock \in Nat /\ clock <= clock
  BY <1>1, <1>4, StateIs
<1>7. Sound(store, B, clock, derived, derived)
  BY <1>4, <1>5, <1>6, StateIs, SoundLater
<1>8. Sound(store, B, clock, derived \cup {n}, derived)
  <2> HIDE DEF n
  <2>1. derived \subseteq derived \cup {n} /\ derived \in SUBSET derived
    OBVIOUS
  <2> QED
    BY <1>4, <1>5, <1>6, <2>1, StateIs, SoundLater
<1> QED
  BY <1>4, <1>5, <1>6, <1>7, <1>8 DEF B

LEMMA ApplyKeeps ==
    ASSUME IInv, NEW p \in Procs, Apply(p) PROVE IInv'
<1> DEFINE B == Append(archive, Archived(p))
           n == Len(archive) + 1
           after == Derive(store, Archived(p), build)
<1>1. /\ inflight[p] # NoReply /\ archive' = B
      /\ inflight' = [inflight EXCEPT ![p] = NoReply]
      /\ IF after.ok THEN store' = PairedStore(after) /\ derived' = derived \cup {n}
                     ELSE UNCHANGED <<store, derived>>
      /\ UNCHANGED <<conns, items, clock, build, faults>>
  BY DEF Apply
<1> HIDE DEF after
<1>2. /\ B \in Archives(clock) /\ Len(B) = n /\ n \in DOMAIN B /\ B[n] = Archived(p)
      /\ DOMAIN archive \subseteq DOMAIN B
      /\ Sound(store, B, clock, derived, derived)
      /\ Sound(store, B, clock, derived \cup {n}, derived)
  BY <1>1, ArchivedIs
<1> HIDE DEF B
<1>3. inflight' \in [Procs -> ReplyUpTo(clock) \cup {NoReply}]
  BY <1>1, StateIs
<1>4. derived' \subseteq DOMAIN B
  BY <1>1, <1>2, StateIs
<1>5. Typed'
  BY <1>1, <1>2, <1>3, <1>4 DEF IInv, Typed, Live
<1>6. CASE ~ after.ok
  BY <1>1, <1>2, <1>5, <1>6 DEF IInv
<1>7. CASE after.ok
  <2>1. Derives(store, after, B, clock, derived \cup {n}, derived, build, n)
    <3>1. /\ derived \in SUBSET DOMAIN B /\ n \in derived \cup {n}
          /\ build \in {1, 2} /\ clock \in Nat
      BY <1>2, StateIs
    <3>2. Derives(store, Derive(store, B[n], build), B, clock, derived \cup {n}, derived, build, n)
      <4> HIDE DEF n
      <4> QED
        BY <1>2, <3>1, DeriveKeeps
    <3> QED
      BY <1>2, <3>2 DEF after
  <2>2. Sound(after, B, clock, derived \cup {n}, derived \cup {n})
    BY <2>1 DEF Derives
  <2>3. Leads(after, PairedStore(after), B, clock, derived \cup {n}, derived \cup {n}, build)
    BY <1>2, <2>2, StateIs, PairedKeeps
  <2> QED
    BY <1>1, <1>5, <1>7, <2>3 DEF IInv, Leads
<1> QED
  BY <1>6, <1>7

LEMMA DieKeeps ==
    ASSUME IInv, NEW p \in Procs, Die(p) PROVE IInv'
<1>1. /\ inflight[p] # NoReply /\ archive' = Append(archive, Archived(p))
      /\ inflight' = [inflight EXCEPT ![p] = NoReply] /\ faults' = faults + 1
      /\ UNCHANGED <<derived, store, conns, items, clock, build>>
  BY DEF Die, Fault
<1>2. inflight' \in [Procs -> ReplyUpTo(clock) \cup {NoReply}]
  BY <1>1, StateIs
<1>3. /\ archive' \in Archives(clock) /\ DOMAIN archive \subseteq DOMAIN archive'
      /\ Sound(store, archive', clock, derived, derived)
  BY <1>1, ArchivedIs
<1>4. Typed'
  BY <1>1, <1>2, <1>3 DEF IInv, Typed, Live
<1> QED
  BY <1>1, <1>3, <1>4 DEF IInv

LEMMA AttemptKeeps ==
    ASSUME IInv, NEW c \in Conns, NEW failed \in BOOLEAN, Attempt(c, failed) PROVE IInv'
<1> DEFINE d == store.domain[c]
           new == [d EXCEPT !.at = clock + 1, !.error = failed \/ d.error]
<1>1. /\ clock' = clock + 1 /\ faults' = faults + 1
      /\ store' = [store EXCEPT !.domain[c] = new]
      /\ UNCHANGED <<archive, derived, conns, items, build, inflight>>
  BY DEF Attempt, Fault
<1>2. /\ archive \in Archives(clock + 1) /\ clock + 1 \in Nat
      /\ ReplyUpTo(clock) \subseteq ReplyUpTo(clock + 1)
      /\ Sound(store, archive, clock + 1, derived, derived)
      /\ store \in StoreUpTo(clock + 1, Len(archive))
  BY ClockMoves DEF Sound
<1>3. inflight \in [Procs -> ReplyUpTo(clock + 1) \cup {NoReply}]
  BY <1>2, StateIs
<1>4. Typed'
  BY <1>1, <1>2, <1>3 DEF IInv, Typed, Live
<1>5. new \in ProgressUpTo(Len(archive))
  <2>1. d \in ProgressUpTo(Len(archive))
    BY <1>2 DEF StoreUpTo
  <2> HIDE DEF d
  <2>2. (failed \/ d.error) \in BOOLEAN
    OBVIOUS
  <2> QED
    BY <1>2, <2>1, <2>2 DEF ProgressUpTo
<1> HIDE DEF new
<1>6. /\ store' \in StoreUpTo(clock + 1, Len(archive))
      /\ store'.accounts = store.accounts /\ store'.balances = store.balances
      /\ store'.holdings = store.holdings /\ store'.refused = store.refused
      /\ store'.offers = store.offers /\ store'.ledger = store.ledger
      /\ store'.security = store.security
  BY <1>1, <1>2, <1>5 DEF StoreUpTo
<1>7. Leads(store, store', archive, clock + 1, derived, derived, build)
  BY <1>2, <1>6, AsideStep
<1> QED
  BY <1>1, <1>4, <1>7 DEF IInv, Leads

LEMMA OverrideKeeps ==
    ASSUME IInv, NEW k \in DOMAIN store.ledger, Override(k) PROVE IInv'
<1> DEFINE old == store.ledger[k]
           row == [old EXCEPT !.override = TRUE]
<1>1. /\ store' = [store EXCEPT !.ledger = [store.ledger EXCEPT ![k] = row]] /\ faults' = faults + 1
      /\ UNCHANGED <<archive, derived, conns, items, clock, build, inflight>>
  BY StateIs DEF Override, Fault, StoreUpTo
<1>2. Typed'
  BY <1>1 DEF IInv, Typed, Live
<1>3. store.ledger \in Seq(LedgerRowUpTo(Len(archive)))
  BY StateIs DEF StoreUpTo
<1>4. k \in Nat /\ old \in LedgerRowUpTo(Len(archive))
  BY <1>3
<1>5. old.account \in DOMAIN store.accounts /\ old.pair <= k
  BY StateIs DEF Sound, ReferencesResolve
<1>6. /\ row \in LedgerRowUpTo(Len(archive)) /\ row.account \in DOMAIN store.accounts
      /\ row.pair <= k /\ row.build = store.ledger[k].build
  <2>1. old.build = store.ledger[k].build
    OBVIOUS
  <2> HIDE DEF old
  <2> QED
    BY <1>4, <1>5, <2>1 DEF LedgerRowUpTo
<1> HIDE DEF row
<1>7. RowWritten(store, store', k, row)
  BY <1>1 DEF RowWritten
<1>8. row.build = build \/ (k \in DOMAIN store.ledger /\ row.build = store.ledger[k].build)
  BY <1>6
<1>9. Leads(store, store', archive, clock, derived, derived, build)
  <2>1. /\ clock \in Nat /\ archive \in Archives(clock) /\ build \in {1, 2}
        /\ Sound(store, archive, clock, derived, derived)
    BY StateIs
  <2> QED
    BY <1>4, <1>6, <1>7, <1>8, <2>1, OneLedgerRow
<1> QED
  BY <1>1, <1>2, <1>9 DEF IInv, Leads

LEMMA RunRebuildKeeps ==
    ASSUME IInv, NEW accept \in BOOLEAN, RunRebuild(accept)
    PROVE  IInv' /\ VersionsPresent(store') \subseteq {build}
<1>1. /\ store' = Replayed(store) /\ derived' = DOMAIN archive
      /\ UNCHANGED <<archive, conns, items, clock, build, inflight, faults>>
  BY DEF RunRebuild
<1>2. /\ Sound(store', archive, clock, DOMAIN archive, DOMAIN archive)
      /\ VersionsPresent(store') \subseteq {build}
  BY <1>1, StateIs, ReplayedIsSound
<1>3. Typed'
  BY <1>1 DEF IInv, Typed, Live
<1> QED
  BY <1>1, <1>2, <1>3 DEF IInv

LEMMA NextKeeps == IInv /\ [Next]_vars => IInv'
<1> SUFFICES ASSUME IInv, [Next]_vars PROVE IInv'
  OBVIOUS
<1>1. ASSUME NEW c \in Conns, Enroll(c) PROVE IInv'
  BY <1>1, EnrollKeeps
<1>2. ASSUME NEW c \in Conns, ReLink(c) PROVE IInv'
  BY <1>2, ReLinkKeeps
<1>3. ASSUME NEW c \in Conns, Retire(c) PROVE IInv'
  BY <1>3, RetireKeeps
<1>4. ASSUME NEW p \in Procs, NEW c \in Conns, NEW m \in Templates, Fetch(p, c, m) PROVE IInv'
  BY <1>4, FetchKeeps
<1>5. ASSUME NEW p \in Procs, Apply(p) PROVE IInv'
  BY <1>5, ApplyKeeps
<1>6. ASSUME NEW p \in Procs, Die(p) PROVE IInv'
  BY <1>6, DieKeeps
<1>7. ASSUME NEW c \in Conns, NEW failed \in BOOLEAN, Attempt(c, failed) PROVE IInv'
  BY <1>7, AttemptKeeps
<1>8. ASSUME NEW k \in DOMAIN store.ledger, Override(k) PROVE IInv'
  BY <1>8, OverrideKeeps
<1>9. ASSUME OtherBuild PROVE IInv'
  <2>1. /\ build' = 3 - build /\ faults' = faults + 1
        /\ UNCHANGED <<archive, derived, store, conns, items, clock, inflight>>
    BY <1>9 DEF OtherBuild, Fault
  <2>2. build' \in {1, 2} /\ faults' \in Nat
    BY <2>1, StateIs
  <2>3. Typed'
    BY <2>1, <2>2 DEF IInv, Typed, Live
  <2> QED
    BY <2>1, <2>3 DEF IInv
<1>10. ASSUME NEW accept \in BOOLEAN, RunRebuild(accept) PROVE IInv'
  BY <1>10, RunRebuildKeeps
<1>11. CASE UNCHANGED vars
  BY <1>11 DEF vars, IInv, Typed, Live
<1> QED
  BY <1>1, <1>2, <1>3, <1>4, <1>5, <1>6, <1>7, <1>8, <1>9, <1>10, <1>11 DEF Next

-----------------------------------------------------------------------------
(* Theorems *)

\* Every reachable state satisfies the invariant.
THEOREM Invariance == Spec => []IInv
<1>1. Init => IInv
  BY InitTyped
<1>2. IInv /\ [Next]_vars => IInv'
  BY NextKeeps
<1> QED
  BY <1>1, <1>2, PTL DEF Spec

\* The tables are typed and every reference between them resolves, whatever
\* is derived, replayed, paired, re-linked and retired in whatever order.
THEOREM TypeCorrect == Spec => []TypeOK
<1>1. IInv => TypeOK
  <2> SUFFICES ASSUME IInv PROVE TypeOK
    OBVIOUS
  <2>1. /\ Sound(store, archive, clock, derived, derived) /\ ReferencesResolve(store)
        /\ store \in StoreUpTo(clock, Len(archive)) /\ DOMAIN archive = 1 .. Len(archive)
    BY StateIs DEF Sound
  <2>2. store.accounts \in Seq(AccountRow)
    BY <2>1 DEF StoreUpTo, AccountUpTo, AccountRow
  <2>3. ASSUME NEW h \in store.balances \cup store.holdings \cup store.refused
        PROVE  h.key[1] \in DOMAIN store.accounts /\ h.raw \in DOMAIN archive /\ h.build \in {1, 2}
    <3>1. h \in CaptureUpTo(Len(archive))
      BY <2>1 DEF StoreUpTo
    <3>2. h.raw \in 1 .. Len(archive) /\ h.build \in {1, 2}
      BY <3>1 DEF CaptureUpTo
    <3> QED
      BY <2>1, <3>2 DEF ReferencesResolve, Captured
  <2>4. ASSUME NEW k \in DOMAIN store.ledger
        PROVE  /\ store.ledger[k].account \in DOMAIN store.accounts
               /\ store.ledger[k].raw \in DOMAIN archive
               /\ store.ledger[k].pair \in {0} \cup (1 .. k)
    <3>1. store.ledger[k] \in LedgerRowUpTo(Len(archive)) /\ k \in Nat
      BY <2>1 DEF StoreUpTo
    <3>2. store.ledger[k].raw \in 1 .. Len(archive) /\ store.ledger[k].pair \in Nat
      BY <3>1 DEF LedgerRowUpTo
    <3>3. store.ledger[k].account \in DOMAIN store.accounts /\ store.ledger[k].pair <= k
      BY <2>1 DEF ReferencesResolve
    <3> QED
      BY <2>1, <3>1, <3>2, <3>3
  <2>5. ASSUME NEW c \in Conns
        PROVE  store.domain[c].raw \in {0} \cup DOMAIN archive
    <3>1. store.domain[c] \in ProgressUpTo(Len(archive))
      BY <2>1 DEF StoreUpTo
    <3>2. store.domain[c].raw \in 0 .. Len(archive) /\ Len(archive) \in Nat
      BY <3>1, StateIs DEF ProgressUpTo
    <3> QED
      BY <2>1, <3>2
  <2> QED
    BY <2>2, <2>3, <2>4, <2>5 DEF TypeOK
<1> QED
  BY <1>1, Invariance, PTL

\* Whatever order two runs' replies are persisted in, and however often they
\* are replayed, a day's balance and a day's position are those of the first
\* reply of that day, every day that was offered one has one, and a position
\* is priced or refused and never both.
THEOREM EarliestCapture == Spec => []EarliestCaptureStands
<1>1. IInv => EarliestCaptureStands
  <2> SUFFICES ASSUME IInv PROVE EarliestCaptureStands
    OBVIOUS
  <2> DEFINE keys == {h.key : h \in Positions}
             f == [h \in Positions |-> h.key]
  <2>1. /\ FirstOfEachDay(store.balances, OffersOf(store, "balance"))
        /\ FirstOfEachDay(Positions, OffersOf(store, "position"))
        /\ OnePositionADay(store) /\ PositionsAreOfBodies(store, archive)
    BY StateIs DEF Sound, CapturesSound, Positions
  <2>2. /\ Offers("balance") = OffersOf(store, "balance")
        /\ Offers("position") = OffersOf(store, "position")
    BY DEF Offers, OffersOf
  <2>3. /\ \A h \in store.balances : Earliest(h, Offers("balance"))
        /\ \A h \in Positions : Earliest(h, Offers("position"))
    BY <2>1, <2>2 DEF FirstOfEachDay, Earliest
  <2>4. /\ {h.key : h \in store.balances} = {o.key : o \in Offers("balance")}
        /\ {h.key : h \in Positions} = {o.key : o \in Offers("position")}
    <3> HIDE DEF Positions
    <3> QED
      BY <2>1, <2>2 DEF FirstOfEachDay
  <2>5. Cardinality(Positions) = Cardinality(keys)
    <3>1. f \in Surjection(Positions, keys)
      BY DEF Surjection
    <3>2. IsFiniteSet(Positions) /\ \A g, h \in Positions : g.key = h.key => g = h
      BY <2>1 DEF OnePositionADay, Positions
    <3>3. f \in Injection(Positions, keys)
      <4>1. \A g, h \in Positions : f[g] = f[h] => g = h
        BY <3>2
      <4>2. f \in [Positions -> keys]
        OBVIOUS
      <4> HIDE DEF f, keys
      <4> QED
        BY <4>1, <4>2 DEF Injection, IsInjective
    <3> HIDE DEF f, keys
    <3> QED
      BY <3>1, <3>2, <3>3, FS_Surjection
  <2>6. ASSUME NEW h \in Positions
        PROVE  h \in store.refused <=> Offer("position", h.key, h, TRUE) \in store.offers
    <3>1. CASE h \in store.refused
      BY <2>1, <3>1 DEF PositionsAreOfBodies
    <3>2. CASE h \notin store.refused
      <4> DEFINE o == Offer("position", h.key, h, FALSE)
                 p == Offer("position", h.key, h, TRUE)
      <4>1. o \in store.offers
        BY <2>1, <3>2 DEF PositionsAreOfBodies, Positions
      <4>2. /\ o.what = "position" /\ o.raw = h.raw /\ o.refused = FALSE
            /\ p.what = "position" /\ p.raw = h.raw /\ p.refused = TRUE
        BY DEF Offer
      <4> HIDE DEF o, p
      <4>3. \A q \in OffersOf(store, "position") : q.refused = archive[q.raw].says.refused
        BY <2>1 DEF PositionsAreOfBodies
      <4>4. archive[h.raw].says.refused = FALSE
        BY <4>1, <4>2, <4>3 DEF OffersOf
      <4>5. p \notin store.offers
        BY <4>2, <4>3, <4>4 DEF OffersOf
      <4> QED
        BY <3>2, <4>5 DEF p
    <3> QED
      BY <3>1, <3>2
  <2> QED
    BY <2>3, <2>4, <2>5, <2>6 DEF EarliestCaptureStands
<1> QED
  BY <1>1, Invariance, PTL

LEMMA OneRowOf ==
    ASSUME IInv, NEW r, AlwaysStated(r), NEW i \in RowsOf(r), NEW j \in RowsOf(r)
    PROVE  i = j
<1>1. StatedIn(archive, r)
  BY DEF AlwaysStated, Bodies, StatedIn
<1>2. OneRowEach(store, archive)
  BY StateIs DEF Sound, AccountsSound
<1> QED
  BY <1>1, <1>2 DEF OneRowEach, RowsOf

\* An account whose persistent id every body states is one row, through
\* re-linked Items, other connections, late replies and rebuilds.
THEOREM AccountsAreOneRow == Spec => []OneRowPerAccount
<1>1. IInv => OneRowPerAccount
  <2> SUFFICES ASSUME IInv, NEW r \in Real, AlwaysStated(r)
               PROVE  Cardinality(RowsOf(r)) <= 1
    BY DEF OneRowPerAccount
  <2>1. CASE RowsOf(r) = {}
    BY <2>1, FS_EmptySet
  <2>2. CASE RowsOf(r) # {}
    <3>1. PICK i \in RowsOf(r) : TRUE
      BY <2>2
    <3>2. RowsOf(r) = {i}
      BY <3>1, OneRowOf
    <3> QED
      BY <3>2, FS_Singleton
  <2> QED
    BY <2>1, <2>2
<1> QED
  BY <1>1, Invariance, PTL

\* An account reads as still reported exactly when a roster of its
\* connection's last observed day or later listed it.
THEOREM DelistedAreNotReported == Spec => []DelistedIsNotReported
<1>1. IInv => DelistedIsNotReported
  <2> SUFFICES ASSUME IInv, NEW r \in Real, NEW i \in RowsOf(r)
               PROVE  LET c == store.accounts[i].conn
                          lists == {b \in Rosters(r) : DayOf(b.at) >= store.roster[c]} IN
                      /\ StillReported(i) /\ store.roster[c] # 0 => lists # {}
                      /\ AlwaysStated(r) /\ c \in Live /\ lists # {} => StillReported(i)
    BY DEF DelistedIsNotReported
  <2> DEFINE a == store.accounts[i]
             c == a.conn
             lists == {b \in Rosters(r) : DayOf(b.at) >= store.roster[c]}
  <2>1. /\ store \in StoreUpTo(clock, Len(archive)) /\ i \in DOMAIN store.accounts
        /\ a.source[2] = r
        /\ SeenOnARoster(store, archive, derived) /\ RostersAreIn(store, archive, derived)
    BY StateIs DEF Sound, AccountsSound, RowsOf
  <2>2. c \in Conns /\ a.last \in Nat /\ store.roster[c] \in Nat
    <3>1. a \in AccountUpTo(clock)
      BY <2>1, AccountsTyped
    <3>2. c \in Conns /\ a.last \in Nat
      <4> HIDE DEF a
      <4> QED
        BY <3>1 DEF AccountUpTo
    <3>3. store.roster \in [Conns -> Nat]
      BY <2>1 DEF StoreUpTo
    <3> HIDE DEF c
    <3> QED
      BY <3>2, <3>3
  <2>3. ASSUME NEW k \in derived
        PROVE  DayOf(archive[k].at) \in Nat /\ DayOf(archive[k].at) # 0
    BY StateIs, BodyIs
  <2>4. Rosters(r) = {archive[k] : k \in {j \in derived : IsRosterOf(archive[j], r)}}
    BY DEF Rosters, IsRosterOf, Roster
  <2>5. ASSUME StillReported(i), store.roster[c] # 0 PROVE lists # {}
    <3>1. a.last # 0 /\ a.last >= store.roster[c]
      BY <2>5 DEF StillReported
    <3>2. PICK k \in derived : IsRosterOf(archive[k], r) /\ a.last = DayOf(archive[k].at)
      BY <2>1, <3>1 DEF SeenOnARoster
    <3>3. archive[k] \in Rosters(r)
      BY <2>4, <3>2
    <3> QED
      BY <3>1, <3>2, <3>3
  <2>6. ASSUME AlwaysStated(r), c \in Live, lists # {} PROVE StillReported(i)
    <3>1. PICK k \in derived : IsRosterOf(archive[k], r) /\ DayOf(archive[k].at) >= store.roster[c]
      BY <2>4, <2>6
    <3>2. PICK j \in DOMAIN store.accounts :
             store.accounts[j].source[2] = r /\ store.accounts[j].last >= DayOf(archive[k].at)
      BY <2>1, <3>1 DEF RostersAreIn, RosterIsIn
    <3>3. j = i
      BY <2>6, <3>2, OneRowOf DEF RowsOf
    <3>4. a.last >= DayOf(archive[k].at)
      BY <3>2, <3>3
    <3>5. a.last # 0 /\ a.last >= store.roster[c]
      BY <2>2, <2>3, <3>1, <3>4
    <3> QED
      BY <2>6, <3>5 DEF StillReported
  <2> QED
    BY <2>5, <2>6
<1> QED
  BY <1>1, Invariance, PTL

\* A rebuild that goes through leaves no row another build derived.
THEOREM RebuildLeavesOneBuild == Spec => RebuildRestampsEverything
<1>1. IInv /\ [Next]_vars => [RebuildStep => VersionsPresent(store') \subseteq {build}]_vars
  <2> SUFFICES ASSUME IInv, Next, RebuildStep
               PROVE  VersionsPresent(store') \subseteq {build}
    OBVIOUS
  <2>1. /\ conns' = conns /\ items' = items /\ clock' = clock /\ build' = build
        /\ inflight' = inflight /\ faults' = faults
    BY DEF RebuildStep
  <2>2. /\ items \in Nat /\ clock \in Nat /\ faults \in Nat /\ build \in {1, 2}
        /\ conns \in [Conns -> [state : {"none", "live", "retired"}, item : Nat]]
        /\ inflight \in [Procs -> ReplyUpTo(clock) \cup {NoReply}]
    BY StateIs, TemplatesTyped
  <2>3. ASSUME NEW c \in Conns, Enroll(c) \/ ReLink(c) \/ Retire(c) PROVE FALSE
    <3>1. CASE items' = items + 1
      BY <2>1, <2>2, <3>1
    <3>2. CASE Retire(c)
      <4>1. conns[c].state = "live" /\ conns' = [conns EXCEPT ![c].state = "retired"]
        BY <3>2 DEF Retire, Live
      <4>2. conns'[c].state = "retired"
        BY <2>2, <4>1
      <4> QED
        BY <2>1, <4>1, <4>2
    <3> QED
      BY <2>3, <3>1, <3>2 DEF Enroll, ReLink
  <2>4. ASSUME NEW p \in Procs, NEW c \in Conns, NEW m \in Templates, Fetch(p, c, m) PROVE FALSE
    BY <2>1, <2>2, <2>4 DEF Fetch
  <2>5. ASSUME NEW p \in Procs, Apply(p) \/ Die(p) PROVE FALSE
    <3>1. inflight[p] # NoReply /\ inflight' = [inflight EXCEPT ![p] = NoReply]
      BY <2>5 DEF Apply, Die
    <3>2. inflight'[p] = NoReply
      BY <2>2, <3>1
    <3> QED
      BY <2>1, <3>1, <3>2
  <2>6. ASSUME NEW c \in Conns, NEW failed \in BOOLEAN, Attempt(c, failed) PROVE FALSE
    BY <2>1, <2>2, <2>6 DEF Attempt
  <2>7. ASSUME NEW k \in DOMAIN store.ledger, Override(k) PROVE FALSE
    BY <2>1, <2>2, <2>7 DEF Override, Fault
  <2>8. ASSUME OtherBuild PROVE FALSE
    BY <2>1, <2>2, <2>8 DEF OtherBuild, Fault
  <2>9. PICK accept \in BOOLEAN : RunRebuild(accept)
    BY <2>3, <2>4, <2>5, <2>6, <2>7, <2>8 DEF Next
  <2> QED
    BY <2>9, RunRebuildKeeps
<1> QED
  BY <1>1, Invariance, PTL DEF Spec, RebuildRestampsEverything

-----------------------------------------------------------------------------
(* What a store derived body by body knows of an archive without a reason *)

\* What the reasons of RefusedOnlyForAReason deny, of any archive.
ItemsApart(A) == \A j, k \in DOMAIN A : A[j].item = A[k].item => A[j].conn = A[k].conn

IdentityFromTheStart(A) ==
    \A j, k \in DOMAIN A : \A r \in A[j].says.listed \cap A[k].says.listed :
        ~ A[j].says.stated /\ A[k].says.stated => A[j].item = A[k].item

InOrder(A) == \A j, k \in DOMAIN A : j <= k => A[j].at <= A[k].at

UsedAreListed(A) ==
    \A k \in DOMAIN A : \A r \in Used(A[k]) :
        \E j \in 1 .. k : A[j].item = A[k].item /\ r \in A[j].says.listed

Plain(A) == ItemsApart(A) /\ IdentityFromTheStart(A) /\ InOrder(A) /\ UsedAreListed(A)

\* B is A, or A and what was archived after it.
Continues(B, A) == Len(A) <= Len(B) /\ \A k \in DOMAIN A : B[k] = A[k]

\* One row answers for r, whichever Item lists it.
Shared(A, r) == \E k \in DOMAIN A : r \in A[k].says.listed /\ A[k].says.stated

\* Row i answers for the account that Item x knows as r.
IsRow(s, A, x, r, i) ==
    /\ i \in DOMAIN s.accounts /\ s.accounts[i].source[2] = r
    /\ Shared(A, r) \/ s.accounts[i].source[1] = x

\* A row is as some body of its Item listed it.
RowStands(s, A, i) ==
    LET a == s.accounts[i] IN
    /\ \E j \in DOMAIN A : /\ a.source[2] \in A[j].says.listed /\ A[j].item = a.source[1]
                           /\ A[j].conn = a.conn /\ (a.persistent = 0 => ~ A[j].says.stated)
    /\ a.persistent # 0 => Shared(A, a.source[2])

Apart(s, A, i, j) ==
    s.accounts[i].source[2] = s.accounts[j].source[2] =>
        ~ Shared(A, s.accounts[i].source[2]) /\ s.accounts[i].source[1] # s.accounts[j].source[1]

Table(s, A) ==
    /\ \A i \in DOMAIN s.accounts : RowStands(s, A, i)
    /\ \A i, j \in DOMAIN s.accounts : i # j => Apart(s, A, i, j)

\* The accounts the first k bodies list, and the positions they state.
Entries(A, k) == {e \in (1 .. k) \X Real : e[2] \in A[e[1]].says.listed}
Stated(A, k) == {e \in (1 .. k) \X Real : /\ A[e[1]].says.kind = "holdings"
                                          /\ e[2] \in A[e[1]].says.positions}

RowOfEntry(s, A, e, i) == IsRow(s, A, A[e[1]].item, e[2], i)

\* The row of an entry tells of it.
Covers(s, A, e) ==
    \E i \in DOMAIN s.accounts :
        LET a == s.accounts[i]
            b == A[e[1]] IN
        /\ RowOfEntry(s, A, e, i) /\ a.first <= DayOf(b.at)
        /\ Roster(b) => a.last >= DayOf(b.at)
        /\ b.says.stated => a.persistent = e[2]

\* No entry of the row is of a later body.
Latest(s, A, E, i, e) ==
    e \in E /\ RowOfEntry(s, A, e, i) /\ \A f \in E : RowOfEntry(s, A, f, i) => f[1] <= e[1]

AsListed(a, b) == a.conn = b.conn /\ a.source[1] = b.item /\ a.touched = b.at

RowsRead(s, A, E) ==
    /\ \A e \in E : Covers(s, A, e)
    /\ \A i \in DOMAIN s.accounts : \A e \in E :
          Latest(s, A, E, i, e) => AsListed(s.accounts[i], A[e[1]])

\* What was put forward for the days.
BalanceOf(s, A, e, o) ==
    /\ A[e[1]].says.quoted
    /\ \E i \in DOMAIN s.accounts : /\ RowOfEntry(s, A, e, i)
                                    /\ o = Offer("balance", <<i, DayOf(A[e[1]].at)>>, A[e[1]], FALSE)
PositionOf(s, A, e, o) ==
    \E i \in DOMAIN s.accounts :
        /\ RowOfEntry(s, A, e, i)
        /\ o = Offer("position", <<i, DayOf(A[e[1]].at)>>, A[e[1]], A[e[1]].says.refused)

OffersRead(s, A, E, P) ==
    \A o : o \in s.offers <=> \/ \E e \in E : BalanceOf(s, A, e, o)
                              \/ \E e \in P : PositionOf(s, A, e, o)

\* A transaction is on the one row of its account, which was listed.
LedgerRead(s, A, E) ==
    /\ \A k \in DOMAIN s.ledger : \E e \in E :
          e[2] = s.ledger[k].source /\ RowOfEntry(s, A, e, s.ledger[k].account)
    /\ \A k, l \in DOMAIN s.ledger : s.ledger[k].account = s.ledger[l].account => k = l

AsideRead(s, A, k) ==
    \A j \in 1 .. k :
        /\ Roster(A[j]) => s.roster[A[j].conn] >= DayOf(A[j].at)
        /\ A[j].says.kind = "holdings" => /\ s.security.at # 0 /\ s.security.created <= A[j].at
                                          /\ A[j].at <= s.security.at

\* The first k bodies were derived, in their order.
Read(s, A, k) ==
    /\ RowsRead(s, A, Entries(A, k)) /\ OffersRead(s, A, Entries(A, k), Stated(A, k))
    /\ LedgerRead(s, A, Entries(A, k)) /\ AsideRead(s, A, k)

\* Two ledgers, but for the pairing, the overrides and the build.
SameEntry(v, w) ==
    /\ v.account = w.account /\ v.source = w.source /\ v.pairable = w.pairable
    /\ v.removed = w.removed /\ v.at = w.at /\ v.raw = w.raw

Alike(s, t) ==
    /\ DOMAIN s.ledger = DOMAIN t.ledger
    /\ \A k \in DOMAIN s.ledger : SameEntry(s.ledger[k], t.ledger[k])

\* Every row of s is the same row of t.
SameRows(s, t, A) ==
    \A i \in DOMAIN s.accounts :
        /\ i \in DOMAIN t.accounts /\ t.accounts[i].source[2] = s.accounts[i].source[2]
        /\ \/ Shared(A, s.accounts[i].source[2])
           \/ t.accounts[i].source[1] = s.accounts[i].source[1]

PairsCurrent(s) ==
    \A k \in DOMAIN s.ledger : s.ledger[k].pairable =>
        s.ledger[k].pair = PairId(k, PairTransfers(Legs(s)))

\* An archive is a sequence.
LEMMA LengthsAre ==
    ASSUME NEW now \in Nat, NEW A \in Archives(now)
    PROVE  Len(A) \in Nat /\ DOMAIN A = 1 .. Len(A)
BY DEF Archives

\* What was archived first stays where it is.
LEMMA PrefixIs ==
    ASSUME NEW now \in Nat, NEW A \in Archives(now), NEW now2 \in Nat, NEW B \in Archives(now2),
           Continues(B, A)
    PROVE  /\ \A k \in DOMAIN A : k \in DOMAIN B /\ B[k] = A[k] /\ k \in Nat /\ 1 .. k \subseteq DOMAIN A
           /\ \A r : Shared(A, r) => Shared(B, r)
<1>1. \A k \in DOMAIN A : k \in DOMAIN B /\ B[k] = A[k] /\ k \in Nat /\ 1 .. k \subseteq DOMAIN A
  BY LengthsAre DEF Continues
<1> QED
  BY <1>1 DEF Shared

\* No reason appears by taking bodies away.
LEMMA PlainBefore ==
    ASSUME NEW now \in Nat, NEW A \in Archives(now), NEW now2 \in Nat, NEW B \in Archives(now2),
           Continues(B, A), Plain(B)
    PROVE  Plain(A)
<1>1. \A k \in DOMAIN A : k \in DOMAIN B /\ B[k] = A[k] /\ k \in Nat /\ 1 .. k \subseteq DOMAIN A
  BY PrefixIs
<1>2. ItemsApart(A) /\ IdentityFromTheStart(A) /\ InOrder(A)
  BY <1>1 DEF Plain, ItemsApart, IdentityFromTheStart, InOrder
<1>3. UsedAreListed(A)
  <2>1. ASSUME NEW k \in DOMAIN A, NEW r \in Used(A[k])
        PROVE  \E j \in 1 .. k : A[j].item = A[k].item /\ r \in A[j].says.listed
    <3>1. k \in DOMAIN B /\ r \in Used(B[k])
      BY <1>1
    <3>2. PICK j \in 1 .. k : B[j].item = B[k].item /\ r \in B[j].says.listed
      BY <3>1 DEF Plain, UsedAreListed
    <3> QED
      BY <1>1, <3>2
  <2> QED
    BY <2>1 DEF UsedAreListed
<1> QED
  BY <1>2, <1>3 DEF Plain

\* A row that comes to be the only one of its account was of the only Item.
LEMMA SharedLater ==
    ASSUME NEW now \in Nat, NEW A \in Archives(now), NEW now2 \in Nat, NEW B \in Archives(now2),
           Continues(B, A), Plain(B), NEW s, Table(s, A), NEW i \in DOMAIN s.accounts,
           NEW r, r = s.accounts[i].source[2], Shared(B, r), ~ Shared(A, r),
           NEW k \in DOMAIN B, r \in B[k].says.listed
    PROVE  B[k].item = s.accounts[i].source[1]
<1>1. RowStands(s, A, i)
  BY DEF Table
<1>2. PICK j \in DOMAIN A : /\ r \in A[j].says.listed /\ A[j].item = s.accounts[i].source[1]
                            /\ ~ A[j].says.stated
  BY <1>1 DEF RowStands
<1>3. j \in DOMAIN B /\ B[j] = A[j]
  BY PrefixIs
<1>4. PICK m \in DOMAIN B : r \in B[m].says.listed /\ B[m].says.stated
  BY DEF Shared
<1>5. \A x, y \in DOMAIN B : r \in B[x].says.listed /\ r \in B[y].says.listed
         /\ ~ B[x].says.stated /\ B[y].says.stated => B[x].item = B[y].item
  BY DEF Plain, IdentityFromTheStart
<1> QED
  BY <1>2, <1>3, <1>4, <1>5

\* Rows that stand for an archive stand for what is archived after it.
LEMMA TableLater ==
    ASSUME NEW now \in Nat, NEW A \in Archives(now), NEW now2 \in Nat, NEW B \in Archives(now2),
           Continues(B, A), Plain(B), NEW s, Table(s, A)
    PROVE  Table(s, B)
<1>1. ASSUME NEW i \in DOMAIN s.accounts PROVE RowStands(s, B, i)
  <2>1. RowStands(s, A, i)
    BY DEF Table
  <2> QED
    BY <2>1, PrefixIs DEF RowStands
<1>2. ASSUME NEW i \in DOMAIN s.accounts, NEW j \in DOMAIN s.accounts, i # j
      PROVE  Apart(s, B, i, j)
  <2>1. Apart(s, A, i, j)
    BY <1>2 DEF Table
  <2> SUFFICES ASSUME s.accounts[i].source[2] = s.accounts[j].source[2]
               PROVE  ~ Shared(B, s.accounts[i].source[2])
    BY <2>1 DEF Apart
  <2> SUFFICES ASSUME Shared(B, s.accounts[i].source[2]) PROVE FALSE
    OBVIOUS
  <2>2. PICK k \in DOMAIN B : s.accounts[i].source[2] \in B[k].says.listed
    BY DEF Shared
  <2>3. B[k].item = s.accounts[i].source[1] /\ B[k].item = s.accounts[j].source[1]
    BY <2>1, <2>2, SharedLater DEF Apart
  <2> QED
    BY <2>1, <2>3 DEF Apart
<1> QED
  BY <1>1, <1>2 DEF Table

\* A listed account keeps its row as more is archived.
LEMMA IsRowLater ==
    ASSUME NEW now \in Nat, NEW A \in Archives(now), NEW now2 \in Nat, NEW B \in Archives(now2),
           Continues(B, A), Plain(B), NEW s, Table(s, A),
           NEW k \in DOMAIN A, NEW r \in A[k].says.listed, NEW i
    PROVE  IsRow(s, A, A[k].item, r, i) <=> IsRow(s, B, B[k].item, r, i)
<1>1. k \in DOMAIN B /\ B[k] = A[k] /\ (Shared(A, r) => Shared(B, r))
  BY PrefixIs
<1>2. IsRow(s, B, B[k].item, r, i) => IsRow(s, A, A[k].item, r, i)
  <2> SUFFICES ASSUME IsRow(s, B, B[k].item, r, i), ~ Shared(A, r)
               PROVE  s.accounts[i].source[1] = A[k].item
    BY DEF IsRow
  <2>1. i \in DOMAIN s.accounts /\ r = s.accounts[i].source[2]
    BY DEF IsRow
  <2>2. CASE Shared(B, r)
    BY <1>1, <2>1, <2>2, SharedLater
  <2>3. CASE ~ Shared(B, r)
    BY <1>1, <2>3 DEF IsRow
  <2> QED
    BY <2>2, <2>3
<1> QED
  BY <1>1, <1>2 DEF IsRow

\* At most one row answers for an account of an Item.
LEMMA OneRowAnswers ==
    ASSUME NEW A, NEW s, Table(s, A), NEW x, NEW r, NEW i, NEW j,
           IsRow(s, A, x, r, i), IsRow(s, A, x, r, j)
    PROVE  i = j
<1>1. i # j => Apart(s, A, i, j)
  BY DEF Table, IsRow
<1> QED
  BY <1>1 DEF Apart, IsRow

\* An Item whose row was another's states persistent ids.
LEMMA MatchIsRow ==
    ASSUME NEW now \in Nat, NEW A \in Archives(now), Plain(A), NEW k \in DOMAIN A,
           NEW s \in StoreUpTo(now, Len(A)), Table(s, A), IdentityKnown(s, A),
           NEW r \in A[k].says.listed
    PROVE  LET m == MatchAccount(s, A[k], r) IN
           /\ m # 0 => IsRow(s, A, A[k].item, r, m)
           /\ \A i : IsRow(s, A, A[k].item, r, i) => i = m
<1> DEFINE m == MatchAccount(s, A[k], r)
<1>1. /\ DOMAIN s.accounts \in SUBSET Nat /\ 0 \notin DOMAIN s.accounts
      /\ r \in Real /\ r # 0 /\ A[k].says.stated \in BOOLEAN
  BY BodyIs, RealAssumption DEF StoreUpTo
<1>2. /\ m # 0 => /\ m \in DOMAIN s.accounts
                  /\ \/ /\ s.accounts[m].conn = A[k].conn
                        /\ s.accounts[m].source = <<A[k].item, r>>
                     \/ A[k].says.stated /\ s.accounts[m].persistent = r
      /\ m = 0 => \A j \in DOMAIN s.accounts :
                     /\ ~ (s.accounts[j].conn = A[k].conn
                           /\ s.accounts[j].source = <<A[k].item, r>>)
                     /\ A[k].says.stated => s.accounts[j].persistent # r
  BY <1>1, MatchIs
<1> HIDE DEF m
<1>3. ASSUME m # 0 PROVE IsRow(s, A, A[k].item, r, m)
  <2>1. CASE s.accounts[m].source = <<A[k].item, r>>
    BY <1>2, <1>3, <2>1 DEF IsRow
  <2>2. CASE A[k].says.stated /\ s.accounts[m].persistent = r
    <3>1. s.accounts[m].source[2] = r
      BY <1>1, <1>2, <1>3, <2>2 DEF IdentityKnown
    <3>2. Shared(A, r)
      BY <2>2 DEF Shared
    <3> QED
      BY <1>2, <1>3, <3>1, <3>2 DEF IsRow
  <2> QED
    BY <1>2, <1>3, <2>1, <2>2
<1>4. ASSUME NEW i, IsRow(s, A, A[k].item, r, i) PROVE i = m
  <2>1. i \in DOMAIN s.accounts /\ s.accounts[i].source[2] = r
    BY <1>4 DEF IsRow
  <2>2. RowStands(s, A, i)
    BY <2>1 DEF Table
  <2>3. PICK j \in DOMAIN A : /\ r \in A[j].says.listed /\ A[j].item = s.accounts[i].source[1]
                              /\ A[j].conn = s.accounts[i].conn
                              /\ (s.accounts[i].persistent = 0 => ~ A[j].says.stated)
    BY <2>1, <2>2 DEF RowStands
  <2>4. m # 0
    <3>1. CASE A[j].item = A[k].item
      <4>1. A[j].conn = A[k].conn
        BY <3>1 DEF Plain, ItemsApart
      <4>2. s.accounts[i].source = <<A[k].item, r>>
        <5>1. s.accounts[i] \in AccountUpTo(now)
          BY <2>1, AccountsTyped
        <5>2. s.accounts[i].source \in (1 .. MaxItems) \X Real
          BY <5>1 DEF AccountUpTo
        <5>3. s.accounts[i].source = <<s.accounts[i].source[1], s.accounts[i].source[2]>>
          BY <5>2
        <5> QED
          BY <2>1, <2>3, <3>1, <5>3
      <4> QED
        BY <1>2, <2>1, <2>3, <4>1, <4>2
    <3>2. CASE A[j].item # A[k].item
      <4>1. Shared(A, r)
        BY <1>4, <2>3, <3>2 DEF IsRow
      <4>2. PICK p \in DOMAIN A : r \in A[p].says.listed /\ A[p].says.stated
        BY <4>1 DEF Shared
      <4>3. \A x, y \in DOMAIN A : r \in A[x].says.listed /\ r \in A[y].says.listed
               /\ ~ A[x].says.stated /\ A[y].says.stated => A[x].item = A[y].item
        BY DEF Plain, IdentityFromTheStart
      <4>4. A[j].says.stated /\ A[k].says.stated
        BY <2>3, <3>2, <4>2, <4>3
      <4>5. s.accounts[i].persistent = r
        BY <2>1, <2>3, <4>4 DEF IdentityKnown
      <4> QED
        BY <1>2, <2>1, <4>4, <4>5
    <3> QED
      BY <3>1, <3>2
  <2> QED
    BY <1>3, <1>4, <2>4, OneRowAnswers
<1> QED
  BY <1>3, <1>4 DEF m

\* Rows that stay answer for the accounts they answered for.
LEMMA RowsStay ==
    ASSUME NEW A, NEW s, NEW t, SameRows(s, t, A), NEW x, NEW r, NEW i
    PROVE  /\ IsRow(s, A, x, r, i) => IsRow(t, A, x, r, i)
           /\ Table(t, A) /\ (\E j : IsRow(s, A, x, r, j)) =>
                (IsRow(s, A, x, r, i) <=> IsRow(t, A, x, r, i))
<1>1. ASSUME NEW j, IsRow(s, A, x, r, j) PROVE IsRow(t, A, x, r, j)
  BY <1>1 DEF SameRows, IsRow
<1>2. ASSUME Table(t, A), NEW j, IsRow(s, A, x, r, j), IsRow(t, A, x, r, i)
      PROVE  IsRow(s, A, x, r, i)
  <2>1. i = j
    BY <1>1, <1>2, OneRowAnswers
  <2> QED
    BY <1>2, <2>1
<1> QED
  BY <1>1, <1>2

LEMMA SameRowsOn ==
    ASSUME NEW A, NEW s, NEW t, NEW u, SameRows(s, t, A), SameRows(t, u, A)
    PROVE  SameRows(s, u, A)
BY DEF SameRows

\* An upsert makes the row of r tell of the body, and leaves the others.
LEMMA UpsertReads ==
    ASSUME NEW now \in Nat, NEW A \in Archives(now), Plain(A), NEW k \in DOMAIN A,
           NEW s \in StoreUpTo(now, Len(A)), Table(s, A), IdentityKnown(s, A),
           NEW E \in SUBSET Entries(A, k), RowsRead(s, A, E), NEW r \in A[k].says.listed
    PROVE  LET t == UpsertAccount(s, A[k], r) IN
           /\ Table(t, A) /\ SameRows(s, t, A) /\ RowsRead(t, A, E \cup {<<k, r>>})
           /\ RowOfEntry(t, A, <<k, r>>, RowOf(s, A[k], r))
<1> DEFINE t == UpsertAccount(s, A[k], r)
           i == RowOf(s, A[k], r)
           m == MatchAccount(s, A[k], r)
           a == t.accounts[i]
           old == s.accounts[i]
           day == DayOf(A[k].at)
           here == <<k, r>>
<1>1. /\ t \in StoreUpTo(now, Len(A)) /\ OneRowMoves(s, t, i) /\ i \in Nat \ {0}
      /\ m = 0 => i \notin DOMAIN s.accounts
      /\ m # 0 => i = m /\ i \in DOMAIN s.accounts
      /\ a.source = <<A[k].item, r>> /\ a.conn = A[k].conn
      /\ a.persistent = IF A[k].says.stated THEN r ELSE IF m = 0 THEN 0 ELSE old.persistent
      /\ a.last = IF Roster(A[k]) THEN IF m # 0 /\ old.last >= day THEN old.last ELSE day
                  ELSE IF m = 0 THEN 0 ELSE old.last
      /\ a.first = IF m # 0 /\ old.first <= day THEN old.first ELSE day
      /\ a.touched = A[k].at
  BY UpsertRow, SMTT(30)
<1>2. /\ m # 0 => IsRow(s, A, A[k].item, r, m)
      /\ \A j : IsRow(s, A, A[k].item, r, j) => j = m
  BY MatchIsRow
<1>3. /\ r \in Real /\ r # 0 /\ A[k].says.stated \in BOOLEAN /\ day \in Nat /\ k \in Nat
  BY BodyIs, RealAssumption
<1>4. \A j \in DOMAIN s.accounts : j # i => j \in DOMAIN t.accounts /\ t.accounts[j] = s.accounts[j]
  BY <1>1 DEF OneRowMoves
<1>5. i \in DOMAIN t.accounts /\ \A j \in DOMAIN t.accounts : j # i => j \in DOMAIN s.accounts
  BY <1>1 DEF OneRowMoves
<1>6. i \in DOMAIN s.accounts =>
        /\ m # 0 /\ i = m /\ old.source[2] = r /\ (Shared(A, r) \/ old.source[1] = A[k].item)
        /\ old.first \in Nat /\ old.last \in Nat
  <2> SUFFICES ASSUME i \in DOMAIN s.accounts
               PROVE  /\ m # 0 /\ i = m /\ old.source[2] = r
                      /\ (Shared(A, r) \/ old.source[1] = A[k].item)
                      /\ old.first \in Nat /\ old.last \in Nat
    OBVIOUS
  <2>1. m # 0 /\ i = m
    BY <1>1
  <2>2. old \in AccountUpTo(now)
    BY AccountsTyped
  <2> HIDE DEF old
  <2> QED
    BY <1>2, <2>1, <2>2 DEF IsRow, AccountUpTo, old
<1> HIDE DEF t, i, m
<1>7. RowOfEntry(t, A, here, i)
  BY <1>1, <1>5 DEF RowOfEntry, IsRow
<1>8. SameRows(s, t, A)
  BY <1>1, <1>4, <1>5, <1>6 DEF SameRows
<1>9. Table(t, A)
  <2>1. ASSUME NEW j \in DOMAIN t.accounts PROVE RowStands(t, A, j)
    <3>1. CASE j = i
      <4>1. /\ a.source[2] \in A[k].says.listed /\ A[k].item = a.source[1] /\ A[k].conn = a.conn
            /\ (a.persistent = 0 => ~ A[k].says.stated)
        BY <1>1, <1>3
      <4>2. a.persistent # 0 => Shared(A, a.source[2])
        <5>1. CASE A[k].says.stated
          BY <1>1, <5>1 DEF Shared
        <5>2. CASE ~ A[k].says.stated /\ m # 0
          <6>1. RowStands(s, A, i)
            BY <1>1, <5>2 DEF Table
          <6> QED
            BY <1>1, <1>6, <5>2, <6>1 DEF RowStands
        <5>3. CASE ~ A[k].says.stated /\ m = 0
          BY <1>1, <5>3
        <5> QED
          BY <1>3, <5>1, <5>2, <5>3
      <4> QED
        BY <3>1, <4>1, <4>2 DEF RowStands
    <3>2. CASE j # i
      <4>1. RowStands(s, A, j) /\ t.accounts[j] = s.accounts[j]
        BY <1>4, <1>5, <3>2 DEF Table
      <4> QED
        BY <4>1 DEF RowStands
    <3> QED
      BY <3>1, <3>2
  <2>2. ASSUME NEW j \in DOMAIN s.accounts, j # i, s.accounts[j].source[2] = r
        PROVE  ~ Shared(A, r) /\ s.accounts[j].source[1] # A[k].item
    <3>1. ~ IsRow(s, A, A[k].item, r, j)
      <4>1. j # 0
        BY AccountsTyped
      <4> QED
        BY <1>1, <1>2, <2>2, <4>1
    <3> QED
      BY <2>2, <3>1 DEF IsRow
  <2>3. ASSUME NEW j \in DOMAIN t.accounts, NEW l \in DOMAIN t.accounts, j # l
        PROVE  Apart(t, A, j, l)
    <3>1. CASE j # i /\ l # i
      <4>1. /\ j \in DOMAIN s.accounts /\ l \in DOMAIN s.accounts
            /\ t.accounts[j] = s.accounts[j] /\ t.accounts[l] = s.accounts[l]
        BY <1>4, <1>5, <3>1
      <4>2. Apart(s, A, j, l)
        BY <2>3, <4>1 DEF Table
      <4> QED
        BY <4>1, <4>2 DEF Apart
    <3>2. CASE j = i
      <4>1. l \in DOMAIN s.accounts /\ t.accounts[l] = s.accounts[l]
        BY <1>4, <1>5, <2>3, <3>2
      <4> QED
        BY <1>1, <2>2, <2>3, <3>2, <4>1 DEF Apart
    <3>3. CASE l = i
      <4>1. j \in DOMAIN s.accounts /\ t.accounts[j] = s.accounts[j]
        BY <1>4, <1>5, <2>3, <3>3
      <4> QED
        BY <1>1, <2>2, <2>3, <3>3, <4>1 DEF Apart
    <3> QED
      BY <3>1, <3>2, <3>3
  <2> QED
    BY <2>1, <2>3 DEF Table
<1>10. \A e, j : RowOfEntry(s, A, e, j) => RowOfEntry(t, A, e, j)
  BY <1>8, RowsStay DEF RowOfEntry
<1>11. ASSUME NEW e \in E \cup {here} PROVE Covers(t, A, e)
  <2>1. CASE e = here
    <3>1. a.first <= day /\ (Roster(A[k]) => a.last >= day) /\ (A[k].says.stated => a.persistent = r)
      BY <1>1, <1>3, <1>6
    <3> QED
      BY <1>5, <1>7, <2>1, <3>1 DEF Covers
  <2>2. CASE e \in E
    <3>1. Covers(s, A, e)
      BY <2>2 DEF RowsRead
    <3>2. PICK j \in DOMAIN s.accounts :
             /\ RowOfEntry(s, A, e, j) /\ s.accounts[j].first <= DayOf(A[e[1]].at)
             /\ Roster(A[e[1]]) => s.accounts[j].last >= DayOf(A[e[1]].at)
             /\ A[e[1]].says.stated => s.accounts[j].persistent = e[2]
      BY <3>1 DEF Covers
    <3>3. RowOfEntry(t, A, e, j)
      BY <1>10, <3>2
    <3>4. CASE j # i
      BY <1>4, <3>2, <3>3, <3>4 DEF Covers
    <3>5. CASE j = i
      <4>1. DayOf(A[e[1]].at) \in Nat
        BY <2>2, BodyIs, LengthsAre DEF Entries
      <4>2. e[2] = r
        BY <1>6, <3>2, <3>5 DEF RowOfEntry, IsRow
      <4>3. /\ a.first <= DayOf(A[e[1]].at)
            /\ Roster(A[e[1]]) => a.last >= DayOf(A[e[1]].at)
            /\ A[e[1]].says.stated => a.persistent = e[2]
        BY <1>1, <1>3, <1>6, <3>2, <3>5, <4>1, <4>2
      <4> QED
        BY <1>5, <3>3, <3>5, <4>3 DEF Covers
    <3> QED
      BY <3>4, <3>5
  <2> QED
    BY <2>1, <2>2
<1>12. ASSUME NEW j \in DOMAIN t.accounts, NEW e \in E \cup {here},
              Latest(t, A, E \cup {here}, j, e)
       PROVE  AsListed(t.accounts[j], A[e[1]])
  <2>1. CASE j = i
    <3>1. k <= e[1]
      BY <1>7, <1>12, <2>1 DEF Latest
    <3>2. e[1] \in 1 .. k
      BY <1>3, LengthsAre DEF Entries
    <3>3. e[1] = k
      BY <1>3, <3>1, <3>2
    <3> QED
      BY <1>1, <2>1, <3>3 DEF AsListed
  <2>2. CASE j # i
    <3>1. j \in DOMAIN s.accounts /\ t.accounts[j] = s.accounts[j]
      BY <1>4, <1>5, <2>2
    <3>2. e # here
      BY <1>7, <1>9, <1>12, <2>2, OneRowAnswers DEF Latest, RowOfEntry
    <3>3. e \in E /\ RowOfEntry(s, A, e, j)
      BY <1>12, <3>1, <3>2 DEF Latest, RowOfEntry, IsRow
    <3>4. Latest(s, A, E, j, e)
      BY <1>10, <1>12, <3>3 DEF Latest
    <3> QED
      BY <3>1, <3>3, <3>4 DEF RowsRead
  <2> QED
    BY <2>1, <2>2
<1>13. RowsRead(t, A, E \cup {here})
  BY <1>11, <1>12 DEF RowsRead
<1> QED
  BY <1>7, <1>8, <1>9, <1>13 DEF t, i

-----------------------------------------------------------------------------
(* What the loop over a body's accounts reads *)

HasRows(s, A, E) == \A e \in E : \E i : RowOfEntry(s, A, e, i)

\* Neither the transactions nor what is recorded beside the tables.
Aside(s, t) ==
    /\ t.ledger = s.ledger /\ t.domain = s.domain /\ t.roster = s.roster
    /\ t.security = s.security /\ t.ok = s.ok

\* A position is in an account its Item has listed.
LEMMA StatedHaveRows ==
    ASSUME NEW now \in Nat, NEW A \in Archives(now), Plain(A), NEW k \in 0 .. Len(A),
           NEW s, RowsRead(s, A, Entries(A, k))
    PROVE  HasRows(s, A, Stated(A, k))
<1> SUFFICES ASSUME NEW e \in Stated(A, k) PROVE \E i : RowOfEntry(s, A, e, i)
  BY DEF HasRows
<1>1. /\ e[1] \in DOMAIN A /\ e[1] \in 1 .. k /\ e[2] \in Real
      /\ A[e[1]].says.kind = "holdings" /\ e[2] \in A[e[1]].says.positions
  BY LengthsAre DEF Stated
<1>2. e[2] \in Used(A[e[1]])
  BY <1>1 DEF Used
<1>3. PICK j \in 1 .. e[1] : A[j].item = A[e[1]].item /\ e[2] \in A[j].says.listed
  BY <1>1, <1>2 DEF Plain, UsedAreListed
<1>4. <<j, e[2]>> \in Entries(A, k)
  BY <1>1, <1>3 DEF Entries
<1>5. Covers(s, A, <<j, e[2]>>)
  BY <1>4 DEF RowsRead
<1>6. PICK i \in DOMAIN s.accounts : RowOfEntry(s, A, <<j, e[2]>>, i)
  BY <1>5 DEF Covers
<1>7. RowOfEntry(s, A, e, i)
  BY <1>3, <1>6 DEF RowOfEntry
<1> QED
  BY <1>7

LEMMA CoveredHaveRows ==
    ASSUME NEW A, NEW s, NEW E, RowsRead(s, A, E)
    PROVE  HasRows(s, A, E)
BY DEF RowsRead, Covers, HasRows

\* Rows that stay leave what was put forward for them as it was.
LEMMA OffersStay ==
    ASSUME NEW A, NEW s, NEW t, SameRows(s, t, A), Table(t, A), NEW E, HasRows(s, A, E)
    PROVE  \A e \in E : \A o : /\ (BalanceOf(s, A, e, o) <=> BalanceOf(t, A, e, o))
                                /\ (PositionOf(s, A, e, o) <=> PositionOf(t, A, e, o))
<1> SUFFICES ASSUME NEW e \in E, NEW o
             PROVE  /\ (BalanceOf(s, A, e, o) <=> BalanceOf(t, A, e, o))
                    /\ (PositionOf(s, A, e, o) <=> PositionOf(t, A, e, o))
  OBVIOUS
<1>1. \A i : RowOfEntry(s, A, e, i) <=> RowOfEntry(t, A, e, i)
  BY RowsStay DEF HasRows, RowOfEntry
<1>2. \A i : RowOfEntry(s, A, e, i) => i \in DOMAIN s.accounts /\ i \in DOMAIN t.accounts
  BY <1>1 DEF RowOfEntry, IsRow
<1> QED
  BY <1>1, <1>2 DEF BalanceOf, PositionOf

\* What t offers and s does not is the balances of the entries E.
BalancesPut(s, t, A, E) ==
    \A o : o \in t.offers <=> o \in s.offers \/ \E e \in E : BalanceOf(t, A, e, o)

\* One entry of a body: its row tells of it, and its balance is put forward.
LEMMA OneAccountReads ==
    ASSUME NEW now \in Nat, NEW A \in Archives(now), Plain(A), NEW k \in DOMAIN A,
           NEW b \in {1, 2}, NEW s \in StoreUpTo(now, Len(A)), Table(s, A), IdentityKnown(s, A),
           NEW E \in SUBSET Entries(A, k), RowsRead(s, A, E), NEW r \in A[k].says.listed
    PROVE  LET t == DeriveOneAccount(s, A[k], r, b) IN
           /\ Table(t, A) /\ SameRows(s, t, A) /\ RowsRead(t, A, E \cup {<<k, r>>})
           /\ Aside(s, t) /\ BalancesPut(s, t, A, {<<k, r>>})
<1> DEFINE u == UpsertAccount(s, A[k], r)
           i == RowOf(s, A[k], r)
           t == DeriveOneAccount(s, A[k], r, b)
           here == <<k, r>>
           mine == Offer("balance", <<i, DayOf(A[k].at)>>, A[k], FALSE)
<1>1. u \in StoreUpTo(now, Len(A)) /\ OnlyAccounts(s, u)
  BY UpsertRow
<1>2. /\ Table(u, A) /\ SameRows(s, u, A) /\ RowsRead(u, A, E \cup {here})
      /\ RowOfEntry(u, A, here, i)
  BY UpsertReads
<1>3. t = IF A[k].says.quoted THEN WriteBalance(u, A[k], i, b) ELSE u
  BY DEF DeriveOneAccount, RowOf
<1> HIDE DEF u, i, t
<1>4. /\ t.accounts = u.accounts /\ Aside(u, t)
      /\ t.offers = IF A[k].says.quoted THEN u.offers \cup {mine} ELSE u.offers
  BY <1>1, <1>3 DEF WriteBalance, StoreUpTo, Aside
<1>5. Aside(s, t) /\ u.offers = s.offers
  BY <1>1, <1>4 DEF OnlyAccounts, Aside
<1>6. Table(t, A) /\ SameRows(s, t, A) /\ \A e, j : RowOfEntry(t, A, e, j) <=> RowOfEntry(u, A, e, j)
  BY <1>2, <1>4 DEF Table, RowStands, Apart, SameRows, RowOfEntry, IsRow
<1>7. RowsRead(t, A, E \cup {here})
  BY <1>2, <1>4, <1>6 DEF RowsRead, Covers, Latest
<1>8. \A o : BalanceOf(t, A, here, o) <=> A[k].says.quoted /\ o = mine
  <2>1. RowOfEntry(t, A, here, i) /\ \A j : RowOfEntry(t, A, here, j) => j = i
    <3>1. \A j : RowOfEntry(t, A, here, j) <=> IsRow(t, A, A[k].item, r, j)
      BY DEF RowOfEntry
    <3>2. RowOfEntry(t, A, here, i)
      BY <1>2, <1>6
    <3> QED
      BY <1>6, <3>1, <3>2, OneRowAnswers
  <2>2. i \in DOMAIN t.accounts
    BY <2>1 DEF RowOfEntry, IsRow
  <2> QED
    BY <2>1, <2>2 DEF BalanceOf
<1>9. BalancesPut(s, t, A, {here})
  <2>1. \A o : o \in t.offers <=> o \in s.offers \/ (A[k].says.quoted /\ o = mine)
    BY <1>4, <1>5
  <2> HIDE DEF mine, here
  <2> QED
    BY <1>8, <2>1 DEF BalancesPut
<1> QED
  BY <1>5, <1>6, <1>7, <1>9 DEF t

\* The entries of one more body.
LEMMA EntriesAre ==
    ASSUME NEW now \in Nat, NEW A \in Archives(now), NEW k \in DOMAIN A
    PROVE  /\ k - 1 \in 0 .. Len(A) /\ Entries(A, k - 1) \subseteq Entries(A, k)
           /\ Entries(A, k) = Entries(A, k - 1) \cup ({k} \X A[k].says.listed)
           /\ Stated(A, k) = Stated(A, k - 1) \cup
                (IF A[k].says.kind = "holdings" THEN {k} \X A[k].says.positions ELSE {})
<1>1. k \in Nat /\ k \in 1 .. Len(A) /\ Len(A) \in Nat
      /\ A[k].says.listed \in SUBSET Real /\ A[k].says.positions \in SUBSET Real
  BY BodyIs
<1>2. 1 .. k = (1 .. k - 1) \cup {k} /\ k - 1 \in 0 .. Len(A)
  BY <1>1
<1> QED
  BY <1>1, <1>2 DEF Entries, Stated

\* _derive_account_entries: the loop over a body's accounts.
LEMMA EntriesRead ==
    ASSUME NEW now \in Nat, NEW A \in Archives(now), Plain(A), NEW k \in DOMAIN A,
           NEW seen, k \in seen, NEW in \in SUBSET DOMAIN A, NEW b \in {1, 2},
           NEW s, Sound(s, A, now, seen, in), Table(s, A),
           NEW E \in SUBSET Entries(A, k), RowsRead(s, A, E)
    PROVE  LET t == DeriveAccountEntries(s, A[k], b)
               mine == {k} \X A[k].says.listed
           IN /\ Table(t, A) /\ SameRows(s, t, A) /\ RowsRead(t, A, E \cup mine)
              /\ Aside(s, t) /\ BalancesPut(s, t, A, mine)
<1> DEFINE S == A[k].says.listed
           upto(T) == E \cup ({k} \X T)
           Told(u, T) == /\ Table(u, A) /\ SameRows(s, u, A) /\ RowsRead(u, A, upto(T))
                         /\ Aside(s, u) /\ BalancesPut(s, u, A, {k} \X T)
<1>1. PICK it : EntriesTrace(it, s, A[k], b) /\ AllLed(it, S, s, A, now, seen, in, b)
  BY EntriesRun
<1>2. /\ it[{}] = s /\ it[S] = DeriveAccountEntries(s, A[k], b)
      /\ \A T \in SUBSET S : Leads(s, it[T], A, now, seen, in, b)
      /\ \A T \in SUBSET S : T # {} =>
            Max(T) \in T /\ it[T] = DeriveOneAccount(it[T \ {Max(T)}], A[k], Max(T), b)
  BY <1>1 DEF EntriesTrace, AllLed
<1>3. IsFiniteSet(S)
  BY BodyIs, RealAssumption, FS_Subset
<1>4. upto({}) = E /\ \A T \in SUBSET S : upto(T) \subseteq Entries(A, k)
  BY EntriesAre
<1> DEFINE H == {T \in SUBSET S : Told(it[T], T)}
<1>5. {} \in H
  <2>1. SameRows(s, s, A) /\ Aside(s, s) /\ BalancesPut(s, s, A, {k} \X {})
    BY DEF SameRows, Aside, BalancesPut
  <2> QED
    BY <1>2, <1>4, <2>1
<1>6. ASSUME NEW T \in SUBSET S, T # {}, T \ {Max(T)} \in H PROVE T \in H
  <2> DEFINE rest == T \ {Max(T)}
             u == it[rest]
             t == it[T]
             here == <<k, Max(T)>>
  <2>1. Max(T) \in S /\ t = DeriveOneAccount(u, A[k], Max(T), b) /\ rest \in SUBSET S
    BY <1>2, <1>6
  <2>2. u \in StoreUpTo(now, Len(A)) /\ IdentityKnown(u, A)
    BY <1>2, <2>1 DEF Leads, Sound, AccountsSound
  <2>3. /\ Table(u, A) /\ SameRows(s, u, A) /\ RowsRead(u, A, upto(rest))
        /\ Aside(s, u) /\ BalancesPut(s, u, A, {k} \X rest)
    BY <1>6
  <2>4. {k} \X T = ({k} \X rest) \cup {here} /\ upto(T) = upto(rest) \cup {here}
        /\ upto(rest) \subseteq Entries(A, k)
    <3>1. Max(T) \in T
      BY <1>2, <1>6
    <3>2. {k} \X T = ({k} \X rest) \cup {here}
      BY <3>1
    <3> QED
      BY <1>4, <2>1, <3>2
  <2>5. {k} \X rest \subseteq upto(rest)
    OBVIOUS
  <2> HIDE DEF u, t, rest, upto
  <2>6. /\ Table(t, A) /\ SameRows(u, t, A) /\ RowsRead(t, A, upto(T)) /\ Aside(u, t)
        /\ BalancesPut(u, t, A, {here})
    <3> DEFINE sofar == upto(rest)
               r == Max(T)
    <3>1. sofar \in SUBSET Entries(A, k) /\ RowsRead(u, A, sofar) /\ r \in A[k].says.listed
      BY <2>1, <2>3, <2>4
    <3> HIDE DEF sofar, r
    <3>2. LET v == DeriveOneAccount(u, A[k], r, b) IN
          /\ Table(v, A) /\ SameRows(u, v, A) /\ RowsRead(v, A, sofar \cup {<<k, r>>})
          /\ Aside(u, v) /\ BalancesPut(u, v, A, {<<k, r>>})
      BY <2>2, <2>3, <3>1, OneAccountReads
    <3> QED
      BY <2>1, <2>4, <3>2 DEF sofar, r
  <2>7. SameRows(s, t, A) /\ Aside(s, t)
    BY <2>3, <2>6, SameRowsOn DEF Aside
  <2>8. BalancesPut(s, t, A, {k} \X T)
    <3>1. HasRows(u, A, {k} \X rest)
      BY <2>3, <2>5, CoveredHaveRows DEF HasRows
    <3>2. \A e \in {k} \X rest : \A o : BalanceOf(u, A, e, o) <=> BalanceOf(t, A, e, o)
      BY <2>6, <3>1, OffersStay
    <3> HIDE DEF here
    <3> QED
      BY <2>3, <2>4, <2>6, <3>2 DEF BalancesPut
  <2> QED
    BY <2>6, <2>7, <2>8 DEF t
<1>7. S \in H
  <2>1. \A T \in SUBSET S : T # {} => \E x \in T : T \ {x} \in H => T \in H
    BY <1>2, <1>6
  <2> HIDE DEF H, S
  <2>2. \A T \in SUBSET S : T \in H
    BY <1>3, <1>5, <2>1, SubsetInduction
  <2> QED
    BY <2>2
<1> QED
  BY <1>2, <1>7

-----------------------------------------------------------------------------
(* What a lookup by source id finds *)

\* The row _account_ids finds is the row of the account.
LEMMA AccountIdIsRow ==
    ASSUME NEW now \in Nat, NEW A \in Archives(now), Plain(A), NEW k \in DOMAIN A,
           NEW s \in StoreUpTo(now, Len(A)), Table(s, A), NEW r
    PROVE  LET i == AccountId(s, A[k], r) IN
           /\ i # 0 => IsRow(s, A, A[k].item, r, i) /\ s.accounts[i].source[1] = A[k].item
           /\ \A j \in DOMAIN s.accounts :
                 s.accounts[j].source[1] = A[k].item /\ s.accounts[j].source[2] = r => i = j
<1> DEFINE i == AccountId(s, A[k], r)
           own == Own(s, A[k], r)
<1>1. own \in SUBSET DOMAIN s.accounts /\ own \in SUBSET Nat /\ 0 \notin own
  BY DEF Own, StoreUpTo
<1>2. own # {} => i \in own
  <2>1. own # {} => i = Min(own)
    BY DEF AccountId
  <2> HIDE DEF own, i
  <2> QED
    BY <1>1, <2>1, Extremes
<1>3. own = {} => i = 0
  BY DEF AccountId
<1> HIDE DEF i
<1>4. ASSUME i # 0
      PROVE  IsRow(s, A, A[k].item, r, i) /\ s.accounts[i].source[1] = A[k].item
  <2>1. i \in DOMAIN s.accounts /\ s.accounts[i].source = <<A[k].item, r>>
    BY <1>2, <1>3, <1>4 DEF Own
  <2> QED
    BY <2>1 DEF IsRow
<1>5. ASSUME NEW j \in DOMAIN s.accounts,
             s.accounts[j].source[1] = A[k].item, s.accounts[j].source[2] = r
      PROVE  i = j
  <2>1. RowStands(s, A, j)
    BY DEF Table
  <2>2. PICK m \in DOMAIN A : A[m].item = A[k].item /\ A[m].conn = s.accounts[j].conn
    BY <1>5, <2>1 DEF RowStands
  <2>3. A[m].conn = A[k].conn
    BY <2>2 DEF Plain, ItemsApart
  <2>4. s.accounts[j] \in AccountUpTo(now)
    BY AccountsTyped
  <2>5. s.accounts[j].source \in (1 .. MaxItems) \X Real
    BY <2>4 DEF AccountUpTo
  <2>6. s.accounts[j].source = <<s.accounts[j].source[1], s.accounts[j].source[2]>>
    BY <2>5
  <2>7. j \in own
    BY <1>5, <2>2, <2>3, <2>6 DEF Own
  <2>8. i # 0
    BY <1>1, <1>2, <2>7
  <2>9. IsRow(s, A, A[k].item, r, j)
    BY <1>5 DEF IsRow
  <2> QED
    BY <1>4, <2>8, <2>9, OneRowAnswers
<1> QED
  BY <1>4, <1>5 DEF i

\* An Item's account that is used was listed, and has a row.
LEMMA UsedHasEntry ==
    ASSUME NEW now \in Nat, NEW A \in Archives(now), Plain(A), NEW k \in DOMAIN A,
           NEW r \in Used(A[k]), r \in Real
    PROVE  \E e \in Entries(A, k) : e[2] = r /\ A[e[1]].item = A[k].item
<1>1. PICK j \in 1 .. k : A[j].item = A[k].item /\ r \in A[j].says.listed
  BY DEF Plain, UsedAreListed
<1>2. <<j, r>> \in Entries(A, k)
  BY <1>1 DEF Entries
<1> QED
  BY <1>1, <1>2

\* A row some entry is of has a latest entry.
LEMMA LatestExists ==
    ASSUME NEW k \in Nat, NEW A, NEW s, NEW E \in SUBSET Entries(A, k), NEW i,
           NEW e \in E, RowOfEntry(s, A, e, i)
    PROVE  \E f : Latest(s, A, E, i, f)
<1> DEFINE S == {j \in 1 .. k : \E f \in E : f[1] = j /\ RowOfEntry(s, A, f, i)}
<1>1. S \in SUBSET Nat /\ S # {} /\ IsFiniteSet(S)
  <2>1. e[1] \in 1 .. k
    BY DEF Entries
  <2>2. IsFiniteSet(1 .. k) /\ S \subseteq 1 .. k
    BY FS_Interval
  <2>3. IsFiniteSet(S)
    BY <2>2, FS_Subset
  <2> QED
    BY <2>1, <2>3
<1>2. Max(S) \in S /\ \A j \in S : Max(S) >= j
  <2> HIDE DEF S
  <2> QED
    BY <1>1, Extremes
<1>3. PICK f \in E : f[1] = Max(S) /\ RowOfEntry(s, A, f, i)
  BY <1>2
<1>4. ASSUME NEW g \in E, RowOfEntry(s, A, g, i) PROVE g[1] <= f[1]
  <2>1. g[1] \in S /\ g[1] \in Nat
    BY <1>4 DEF Entries
  <2>2. f[1] \in Nat
    BY DEF Entries
  <2> HIDE DEF S
  <2> QED
    BY <1>2, <1>3, <2>1, <2>2
<1> QED
  BY <1>3, <1>4 DEF Latest

\* Two stores that read the same bodies find the same row, or have nothing
\* under what they find.
LEMMA SameAnswer ==
    ASSUME NEW now \in Nat, NEW A \in Archives(now), Plain(A), NEW k \in DOMAIN A,
           NEW s \in StoreUpTo(now, Len(A)), Table(s, A), RowsRead(s, A, Entries(A, k)),
           NEW t \in StoreUpTo(now, Len(A)), Table(t, A), RowsRead(t, A, Entries(A, k)),
           SameRows(s, t, A), NEW r,
           NEW e \in Entries(A, k), e[2] = r, Shared(A, r) \/ A[e[1]].item = A[k].item
    PROVE  AccountId(s, A[k], r) = AccountId(t, A[k], r)
<1> DEFINE E == Entries(A, k)
           x == A[k].item
<1>1. Covers(s, A, e)
  BY DEF RowsRead
<1>2. PICK p \in DOMAIN s.accounts : RowOfEntry(s, A, e, p)
  BY <1>1 DEF Covers
<1>3. IsRow(s, A, x, r, p) /\ IsRow(t, A, x, r, p)
  <2>1. IsRow(s, A, x, r, p)
    BY <1>2 DEF RowOfEntry, IsRow
  <2> QED
    BY <2>1, RowsStay
<1>4. k \in Nat
  BY BodyIs
<1>5. PICK f : Latest(s, A, E, p, f)
  BY <1>2, <1>4, LatestExists
<1>6. HasRows(s, A, E)
  BY CoveredHaveRows
<1>7. \A g \in E : RowOfEntry(s, A, g, p) <=> RowOfEntry(t, A, g, p)
  BY <1>6, RowsStay DEF HasRows, RowOfEntry
<1>8. Latest(t, A, E, p, f)
  BY <1>5, <1>7 DEF Latest
<1>9. p \in DOMAIN t.accounts /\ t.accounts[p].source[2] = r /\ s.accounts[p].source[2] = r
  BY <1>3 DEF IsRow
<1>10. AsListed(s.accounts[p], A[f[1]]) /\ AsListed(t.accounts[p], A[f[1]])
  BY <1>5, <1>8, <1>9 DEF RowsRead, Latest
<1>11. s.accounts[p].source[1] = t.accounts[p].source[1]
  BY <1>10 DEF AsListed
<1> DEFINE i == AccountId(s, A[k], r)
           j == AccountId(t, A[k], r)
<1>12. /\ i # 0 => IsRow(s, A, x, r, i) /\ s.accounts[i].source[1] = x
       /\ s.accounts[p].source[1] = x => i = p
  BY <1>9, AccountIdIsRow
<1>13. /\ j # 0 => IsRow(t, A, x, r, j) /\ t.accounts[j].source[1] = x
       /\ t.accounts[p].source[1] = x => j = p
  BY <1>9, AccountIdIsRow
<1> HIDE DEF i, j, x, E
<1>14. i # 0 => i = p
  BY <1>3, <1>12, OneRowAnswers
<1>15. j # 0 => j = p
  BY <1>3, <1>13, OneRowAnswers
<1>16. i = j
  BY <1>11, <1>12, <1>13, <1>14, <1>15
<1> QED
  BY <1>16 DEF i, j

\* An account no body has listed yet has no transaction.
LEMMA NothingUnlisted ==
    ASSUME NEW now \in Nat, NEW A \in Archives(now), Plain(A), NEW k \in DOMAIN A,
           NEW s \in StoreUpTo(now, Len(A)), Table(s, A), LedgerRead(s, A, Entries(A, k)), NEW r,
           \A e \in Entries(A, k) :
               e[2] = r => ~ (Shared(A, r) \/ A[e[1]].item = A[k].item)
    PROVE  TxRow(s, AccountId(s, A[k], r), r) = {}
<1> DEFINE i == AccountId(s, A[k], r)
<1> SUFFICES ASSUME NEW l \in TxRow(s, i, r) PROVE FALSE
  OBVIOUS
<1>1. l \in DOMAIN s.ledger /\ s.ledger[l].account = i /\ s.ledger[l].source = r
  BY DEF TxRow
<1>2. PICK e \in Entries(A, k) : e[2] = r /\ RowOfEntry(s, A, e, i)
  BY <1>1 DEF LedgerRead
<1>3. i # 0
  <2>1. i \in DOMAIN s.accounts
    BY <1>2 DEF RowOfEntry, IsRow
  <2> QED
    BY <2>1, AccountsTyped
<1>4. s.accounts[i].source[1] = A[k].item
  BY <1>3, AccountIdIsRow
<1> QED
  BY <1>2, <1>4 DEF RowOfEntry, IsRow

-----------------------------------------------------------------------------
(* What the loops over positions and changes read *)

\* What t offers and s does not is the positions of the entries P.
PositionsPut(s, t, A, P) ==
    \A o : o \in t.offers <=> o \in s.offers \/ \E e \in P : PositionOf(t, A, e, o)

OnlyOffers(s, t) ==
    /\ t.accounts = s.accounts /\ t.ledger = s.ledger /\ t.domain = s.domain
    /\ t.roster = s.roster /\ t.security = s.security

Found(s, body, r) == AccountId(s, body, r) # 0

\* One position: put forward, or the body refused.
LEMMA OnePositionReads ==
    ASSUME NEW now \in Nat, NEW A \in Archives(now), Plain(A), NEW k \in DOMAIN A,
           NEW b \in {1, 2}, NEW s \in StoreUpTo(now, Len(A)), Table(s, A), NEW r
    PROVE  LET t == DeriveOnePosition(s, A[k], r, b) IN
           /\ OnlyOffers(s, t) /\ (t.ok <=> s.ok /\ Found(s, A[k], r))
           /\ t.ok => PositionsPut(s, t, A, {<<k, r>>})
<1> DEFINE i == AccountId(s, A[k], r)
           t == DeriveOnePosition(s, A[k], r, b)
           here == <<k, r>>
           mine == Offer("position", <<i, DayOf(A[k].at)>>, A[k], A[k].says.refused)
<1>1. s.ok \in BOOLEAN
  BY DEF StoreUpTo
<1>2. CASE i = 0
  <2>1. t = [s EXCEPT !.ok = FALSE]
    BY <1>2 DEF DeriveOnePosition
  <2>2. OnlyOffers(s, t) /\ t.ok = FALSE
    BY <2>1 DEF OnlyOffers, StoreUpTo
  <2> QED
    BY <1>2, <2>2 DEF Found
<1>3. CASE i # 0
  <2>1. t = WriteHolding(s, A[k], i, b)
    BY <1>3 DEF DeriveOnePosition
  <2>2. OnlyOffers(s, t) /\ t.ok = s.ok /\ t.offers = s.offers \cup {mine}
    BY <2>1 DEF WriteHolding, OnlyOffers, StoreUpTo
  <2>3. IsRow(s, A, A[k].item, r, i)
    BY <1>3, AccountIdIsRow
  <2> HIDE DEF i, t
  <2>4. \A j : RowOfEntry(t, A, here, j) <=> IsRow(s, A, A[k].item, r, j)
    BY <2>2 DEF RowOfEntry, IsRow, OnlyOffers
  <2>5. RowOfEntry(t, A, here, i) /\ \A j : RowOfEntry(t, A, here, j) => j = i
    BY <2>3, <2>4, OneRowAnswers
  <2>6. i \in DOMAIN t.accounts
    BY <2>5 DEF RowOfEntry, IsRow
  <2>7. \A o : PositionOf(t, A, here, o) <=> o = mine
    BY <2>5, <2>6 DEF PositionOf
  <2>8. PositionsPut(s, t, A, {here})
    <3> HIDE DEF mine, here
    <3> QED
      BY <2>2, <2>7 DEF PositionsPut
  <2> QED
    BY <1>1, <1>3, <2>2, <2>8 DEF Found, i, t
<1> QED
  BY <1>2, <1>3

ChangesOf(s, body, b) == Each(LAMBDA u, m : ApplyChange(u, body, m, b), s, Moves)
PositionsOf(s, body, b) == Each(LAMBDA u, r : DeriveOnePosition(u, body, r, b), s, body.says.positions)

\* The loop over a holdings reply's positions.
LEMMA PositionsRead ==
    ASSUME NEW now \in Nat, NEW A \in Archives(now), Plain(A), NEW k \in DOMAIN A,
           NEW seen, NEW in, NEW b \in {1, 2}, NEW s, Sound(s, A, now, seen, in), Table(s, A)
    PROVE  LET t == PositionsOf(s, A[k], b)
               S == A[k].says.positions
           IN /\ OnlyOffers(s, t) /\ (t.ok <=> s.ok /\ \A r \in S : Found(s, A[k], r))
              /\ t.ok => PositionsPut(s, t, A, {k} \X S)
<1> DEFINE S == A[k].says.positions
           Told(u, T) == /\ OnlyOffers(s, u) /\ (u.ok <=> s.ok /\ \A r \in T : Found(s, A[k], r))
                         /\ u.ok => PositionsPut(s, u, A, {k} \X T)
<1>1. PICK it : PositionsTrace(it, s, A[k], b) /\ AllLed(it, S, s, A, now, seen, in, b)
  BY PositionsRun
<1>2. /\ it[{}] = s
      /\ it[S] = PositionsOf(s, A[k], b)
      /\ \A T \in SUBSET S : Leads(s, it[T], A, now, seen, in, b)
      /\ \A T \in SUBSET S : T # {} =>
            Max(T) \in T /\ it[T] = DeriveOnePosition(it[T \ {Max(T)}], A[k], Max(T), b)
  BY <1>1 DEF PositionsTrace, AllLed, PositionsOf
<1>3. IsFiniteSet(S)
  BY BodyIs, RealAssumption, FS_Subset
<1> DEFINE H == {T \in SUBSET S : Told(it[T], T)}
<1>4. {} \in H
  <2>1. OnlyOffers(s, s) /\ PositionsPut(s, s, A, {k} \X {})
    BY DEF OnlyOffers, PositionsPut
  <2> QED
    BY <1>2, <2>1
<1>5. ASSUME NEW T \in SUBSET S, T # {}, T \ {Max(T)} \in H PROVE T \in H
  <2> DEFINE rest == T \ {Max(T)}
             m == Max(T)
             u == it[rest]
             t == it[T]
  <2>1. m \in T /\ t = DeriveOnePosition(u, A[k], m, b) /\ rest \in SUBSET S /\ T = rest \cup {m}
    BY <1>2, <1>5
  <2>2. u \in StoreUpTo(now, Len(A))
    BY <1>2, <2>1 DEF Leads, Sound
  <2>3. /\ OnlyOffers(s, u) /\ (u.ok <=> s.ok /\ \A r \in rest : Found(s, A[k], r))
        /\ u.ok => PositionsPut(s, u, A, {k} \X rest)
    BY <1>5
  <2>4. {k} \X T = ({k} \X rest) \cup {<<k, m>>}
    BY <2>1
  <2> HIDE DEF u, t, rest, m
  <2>5. Table(u, A) /\ (Found(u, A[k], m) <=> Found(s, A[k], m))
    BY <2>3 DEF OnlyOffers, Table, RowStands, Apart, Found, AccountId, Own
  <2>6. /\ OnlyOffers(u, t) /\ (t.ok <=> u.ok /\ Found(u, A[k], m))
        /\ t.ok => PositionsPut(u, t, A, {<<k, m>>})
    BY <2>1, <2>2, <2>5, OnePositionReads
  <2>7. OnlyOffers(s, t) /\ (t.ok <=> s.ok /\ \A r \in T : Found(s, A[k], r))
    BY <2>1, <2>3, <2>5, <2>6 DEF OnlyOffers
  <2>8. ASSUME t.ok PROVE PositionsPut(s, t, A, {k} \X T)
    <3>1. \A e, o : PositionOf(u, A, e, o) <=> PositionOf(t, A, e, o)
      BY <2>6 DEF PositionOf, RowOfEntry, IsRow, OnlyOffers
    <3> QED
      BY <2>3, <2>4, <2>6, <2>8, <3>1 DEF PositionsPut
  <2> QED
    BY <2>7, <2>8 DEF t
<1>6. S \in H
  <2>1. \A T \in SUBSET S : T # {} => \E x \in T : T \ {x} \in H => T \in H
    BY <1>2, <1>5
  <2> HIDE DEF H, S
  <2>2. \A T \in SUBSET S : T \in H
    BY <1>3, <1>4, <2>1, SubsetInduction
  <2> QED
    BY <2>2
<1> QED
  BY <1>2, <1>6

\* Only the transactions, and whether the body was taken.
OnlyTransactions(s, t) ==
    /\ t.accounts = s.accounts /\ t.offers = s.offers /\ t.domain = s.domain
    /\ t.roster = s.roster /\ t.security = s.security

Written(body, m) == body.says.changes[m] \in {"transfer", "other"}

\* A transaction that is rewritten in place stays on its account.
LEMMA LedgerKeepsPlaces ==
    ASSUME NEW A, NEW E, NEW s, NEW t, LedgerRead(s, A, E), t.accounts = s.accounts,
           DOMAIN t.ledger = DOMAIN s.ledger,
           \A l \in DOMAIN s.ledger : /\ t.ledger[l].account = s.ledger[l].account
                                      /\ t.ledger[l].source = s.ledger[l].source
    PROVE  LedgerRead(t, A, E)
BY DEF LedgerRead, RowOfEntry, IsRow

\* One change of a page: at most one transaction to an account.
LEMMA OneChangeReads ==
    ASSUME NEW now \in Nat, NEW A \in Archives(now), Plain(A), NEW k \in DOMAIN A,
           A[k].says.kind = "page", NEW b \in {1, 2},
           NEW s \in StoreUpTo(now, Len(A)), Table(s, A), LedgerRead(s, A, Entries(A, k)),
           NEW m \in Moves
    PROVE  LET t == ApplyChange(s, A[k], m, b) IN
           /\ OnlyTransactions(s, t) /\ LedgerRead(t, A, Entries(A, k))
           /\ t.ok <=> s.ok /\ (Written(A[k], m) => Found(s, A[k], m))
<1> DEFINE E == Entries(A, k)
           body == A[k]
           i == AccountId(s, body, m)
           rows == TxRow(s, i, m)
           live == {l \in rows : ~ s.ledger[l].removed}
           t == ApplyChange(s, body, m, b)
<1>1. s.ledger \in Seq(LedgerRowUpTo(Len(A))) /\ s.ok \in BOOLEAN
  BY DEF StoreUpTo
<1>2. rows \in SUBSET DOMAIN s.ledger /\ rows \in SUBSET Nat /\ live \in SUBSET rows
  BY <1>1 DEF TxRow
<1>3. body.says.changes[m] \in {"none", "removed", "transfer", "other"}
  BY BodyIs DEF Template
<1>4. OnlyTransactions(s, s)
  BY DEF OnlyTransactions
<1> HIDE DEF rows
<1>5. CASE body.says.changes[m] = "none"
  BY <1>3, <1>4, <1>5 DEF ApplyChange, Written
<1>6. CASE body.says.changes[m] = "removed"
  <2>1. t = MarkRemoved(s, body, m)
    BY <1>6 DEF ApplyChange
  <2>2. CASE live = {}
    <3>1. t = s
      BY <2>1, <2>2 DEF MarkRemoved, rows
    <3> QED
      BY <1>4, <1>6, <3>1 DEF Written
  <2>3. CASE live # {}
    <3> DEFINE l == Min(live)
               new == [s.ledger[l] EXCEPT !.removed = TRUE, !.at = body.at]
    <3>1. l \in DOMAIN s.ledger
      <4> HIDE DEF live
      <4> QED
        BY <1>2, <2>3, Extremes
    <3>2. t = [s EXCEPT !.ledger[l] = new]
      BY <2>1, <2>3 DEF MarkRemoved, rows
    <3> HIDE DEF l
    <3>3. OnlyTransactions(s, t) /\ t.ok = s.ok /\ t.ledger = [s.ledger EXCEPT ![l] = new]
      BY <3>2 DEF OnlyTransactions, StoreUpTo
    <3>4. new.account = s.ledger[l].account /\ new.source = s.ledger[l].source
      BY <1>1, <3>1 DEF LedgerRowUpTo
    <3> HIDE DEF new, t
    <3>5. LedgerRead(t, A, E)
      BY <1>1, <3>1, <3>3, <3>4, LedgerKeepsPlaces DEF OnlyTransactions
    <3> QED
      BY <1>6, <3>3, <3>5 DEF Written, t
  <2> QED
    BY <2>2, <2>3
<1>7. CASE Written(body, m) /\ i = 0
  <2>1. t = [s EXCEPT !.ok = FALSE]
    BY <1>7 DEF ApplyChange, Written
  <2>2. OnlyTransactions(s, t) /\ t.ok = FALSE /\ t.ledger = s.ledger
    BY <2>1 DEF OnlyTransactions, StoreUpTo
  <2> HIDE DEF t
  <2>3. LedgerRead(t, A, E)
    BY <2>2, LedgerKeepsPlaces DEF OnlyTransactions
  <2> QED
    BY <1>7, <2>2, <2>3 DEF Found, t
<1>8. CASE Written(body, m) /\ i # 0
  <2>1. t = WriteTransaction(s, body, m, b)
    BY <1>8 DEF ApplyChange, Written
  <2>2. CASE rows # {}
    <3> DEFINE l == Min(rows)
               new == [s.ledger[l] EXCEPT !.pairable = body.says.changes[m] = "transfer",
                          !.removed = FALSE, !.at = body.at, !.raw = body.raw, !.build = b]
    <3>1. l \in DOMAIN s.ledger
      BY <1>2, <2>2, Extremes
    <3>2. t = [s EXCEPT !.ledger[l] = new]
      BY <2>1, <2>2 DEF WriteTransaction, rows
    <3> HIDE DEF l
    <3>3. OnlyTransactions(s, t) /\ t.ok = s.ok /\ t.ledger = [s.ledger EXCEPT ![l] = new]
      BY <3>2 DEF OnlyTransactions, StoreUpTo
    <3>4. new.account = s.ledger[l].account /\ new.source = s.ledger[l].source
      BY <1>1, <3>1 DEF LedgerRowUpTo
    <3> HIDE DEF new, t
    <3>5. LedgerRead(t, A, E)
      BY <1>1, <3>1, <3>3, <3>4, LedgerKeepsPlaces DEF OnlyTransactions
    <3> QED
      BY <1>8, <3>3, <3>5 DEF Found, t
  <2>3. CASE rows = {}
    <3> DEFINE new == [account |-> i, source |-> m, pairable |-> body.says.changes[m] = "transfer",
                       removed |-> FALSE, pair |-> 0, override |-> FALSE, at |-> body.at,
                       raw |-> body.raw, build |-> b]
    <3>1. t = [s EXCEPT !.ledger = Append(s.ledger, new)]
      BY <2>1, <2>3 DEF WriteTransaction, rows, StoreUpTo
    <3>2. OnlyTransactions(s, t) /\ t.ok = s.ok /\ t.ledger = Append(s.ledger, new)
      BY <3>1 DEF OnlyTransactions, StoreUpTo
    <3>3. new.account = i /\ new.source = m
      OBVIOUS
    <3> HIDE DEF new, t
    <3>4. /\ DOMAIN t.ledger = DOMAIN s.ledger \cup {Len(s.ledger) + 1}
          /\ t.ledger[Len(s.ledger) + 1] = new
          /\ \A l \in DOMAIN s.ledger : t.ledger[l] = s.ledger[l]
      BY <1>1, <3>2
    <3>5. IsRow(s, A, body.item, m, i)
      BY <1>8, AccountIdIsRow
    <3>6. PICK e \in E : e[2] = m /\ A[e[1]].item = body.item
      <4>1. m \in Used(body) /\ m \in Real
        BY <1>8, RealAssumption DEF Used, Written
      <4> QED
        BY <4>1, UsedHasEntry
    <3>7. RowOfEntry(s, A, e, i)
      BY <3>5, <3>6 DEF RowOfEntry
    <3>8. \A l \in DOMAIN s.ledger : s.ledger[l].account # i
      <4> SUFFICES ASSUME NEW l \in DOMAIN s.ledger, s.ledger[l].account = i PROVE FALSE
        OBVIOUS
      <4>1. PICK g \in E : g[2] = s.ledger[l].source /\ RowOfEntry(s, A, g, i)
        BY DEF LedgerRead
      <4>2. s.ledger[l].source = m
        BY <3>5, <4>1 DEF RowOfEntry, IsRow
      <4> QED
        BY <2>3, <4>2 DEF TxRow, rows
    <3>9. \A g \in E : \A j : RowOfEntry(t, A, g, j) <=> RowOfEntry(s, A, g, j)
      BY <3>2 DEF OnlyTransactions, RowOfEntry, IsRow
    <3> HIDE DEF i, E
    <3>10. LedgerRead(t, A, E)
      <4>1. ASSUME NEW l \in DOMAIN t.ledger
            PROVE  \E g \in E : g[2] = t.ledger[l].source /\ RowOfEntry(t, A, g, t.ledger[l].account)
        <5>1. CASE l \in DOMAIN s.ledger
          BY <3>4, <3>9, <5>1 DEF LedgerRead, E
        <5>2. CASE l \notin DOMAIN s.ledger
          BY <3>3, <3>4, <3>6, <3>7, <3>9, <5>2
        <5> QED
          BY <5>1, <5>2
      <4>2. ASSUME NEW l \in DOMAIN t.ledger, NEW o \in DOMAIN t.ledger,
                   t.ledger[l].account = t.ledger[o].account
            PROVE  l = o
        BY <3>3, <3>4, <3>8, <4>2 DEF LedgerRead
      <4> QED
        BY <4>1, <4>2 DEF LedgerRead
    <3> QED
      BY <1>8, <3>2, <3>10 DEF Found, i, t, E
  <2> QED
    BY <2>2, <2>3
<1> QED
  BY <1>3, <1>5, <1>6, <1>7, <1>8 DEF Written

\* Whatever the ledger, a change writes transactions and nothing else.
LEMMA OneChangeOnly ==
    ASSUME NEW now, NEW n, NEW s \in StoreUpTo(now, n), NEW body, NEW m, NEW b
    PROVE  LET t == ApplyChange(s, body, m, b) IN OnlyTransactions(s, t) /\ (t.ok => s.ok)
<1> DEFINE t == ApplyChange(s, body, m, b)
<1>1. CASE t = s
  BY <1>1 DEF OnlyTransactions
<1>2. CASE t = [s EXCEPT !.ok = FALSE]
  BY <1>2 DEF OnlyTransactions, StoreUpTo
<1>3. CASE \E l : t = [s EXCEPT !.ledger = l]
  BY <1>3 DEF OnlyTransactions, StoreUpTo
<1>4. t = s \/ t = [s EXCEPT !.ok = FALSE] \/ \E l : t = [s EXCEPT !.ledger = l]
  <2> DEFINE written == WriteTransaction(s, body, m, b)
             marked == MarkRemoved(s, body, m)
  <2>1. \E l : written = [s EXCEPT !.ledger = l]
    BY DEF WriteTransaction, StoreUpTo
  <2>2. marked = s \/ \E l : marked = [s EXCEPT !.ledger = l]
    BY DEF MarkRemoved, StoreUpTo
  <2>3. t \in {s, marked, written, [s EXCEPT !.ok = FALSE]}
    BY DEF ApplyChange
  <2> HIDE DEF t, written, marked
  <2> QED
    BY <2>1, <2>2, <2>3
<1> QED
  BY <1>1, <1>2, <1>3, <1>4

\* _apply_transaction_changes: the loop over a page's changes.
LEMMA ChangesRead ==
    ASSUME NEW now \in Nat, NEW A \in Archives(now), Plain(A), NEW k \in DOMAIN A,
           A[k].says.kind = "page", NEW seen, NEW in, NEW b \in {1, 2},
           NEW s, Sound(s, A, now, seen, in), Table(s, A), NEW it,
           ChangesTrace(it, s, A[k], b), AllLed(it, Moves, s, A, now, seen, in, b)
    PROVE  \A T \in SUBSET Moves :
             /\ OnlyTransactions(s, it[T]) /\ (it[T].ok => s.ok)
             /\ LedgerRead(s, A, Entries(A, k)) =>
                  /\ LedgerRead(it[T], A, Entries(A, k))
                  /\ it[T].ok <=> s.ok /\ \A m \in T : Written(A[k], m) => Found(s, A[k], m)
<1> DEFINE E == Entries(A, k)
           Told(u, T) ==
             /\ OnlyTransactions(s, u) /\ (u.ok => s.ok)
             /\ LedgerRead(s, A, E) =>
                  /\ LedgerRead(u, A, E)
                  /\ u.ok <=> s.ok /\ \A m \in T : Written(A[k], m) => Found(s, A[k], m)
           H == {T \in SUBSET Moves : Told(it[T], T)}
<1>1. /\ it[{}] = s /\ \A T \in SUBSET Moves : Leads(s, it[T], A, now, seen, in, b)
      /\ \A T \in SUBSET Moves : T # {} =>
            Max(T) \in T /\ it[T] = ApplyChange(it[T \ {Max(T)}], A[k], Max(T), b)
  BY DEF ChangesTrace, AllLed
<1>2. IsFiniteSet(Moves)
  BY RealAssumption, FS_Subset
<1>3. {} \in H
  <2>1. OnlyTransactions(s, s)
    BY DEF OnlyTransactions
  <2> QED
    BY <1>1, <2>1
<1>4. ASSUME NEW T \in SUBSET Moves, T # {}, T \ {Max(T)} \in H PROVE T \in H
  <2> DEFINE rest == T \ {Max(T)}
             m == Max(T)
             u == it[rest]
             t == it[T]
  <2>1. m \in T /\ t = ApplyChange(u, A[k], m, b) /\ rest \in SUBSET Moves /\ T = rest \cup {m}
    BY <1>1, <1>4
  <2>2. u \in StoreUpTo(now, Len(A))
    BY <1>1, <2>1 DEF Leads, Sound
  <2>3. Told(u, rest)
    BY <1>4
  <2> HIDE DEF u, t, rest, m
  <2>4. Table(u, A) /\ (Found(u, A[k], m) <=> Found(s, A[k], m))
    BY <2>3 DEF OnlyTransactions, Table, RowStands, Apart, Found, AccountId, Own
  <2>5. OnlyTransactions(u, t) /\ (t.ok => u.ok)
    BY <2>1, <2>2, OneChangeOnly
  <2>6. OnlyTransactions(s, t) /\ (t.ok => s.ok)
    BY <2>3, <2>5 DEF OnlyTransactions
  <2>7. ASSUME LedgerRead(s, A, E)
        PROVE  /\ LedgerRead(t, A, E)
               /\ t.ok <=> s.ok /\ \A x \in T : Written(A[k], x) => Found(s, A[k], x)
    <3>1. LedgerRead(u, A, E) /\ m \in Moves
      BY <1>4, <2>1, <2>3, <2>7
    <3>2. LedgerRead(t, A, E) /\ (t.ok <=> u.ok /\ (Written(A[k], m) => Found(u, A[k], m)))
      BY <2>1, <2>2, <2>4, <3>1, OneChangeReads
    <3> QED
      BY <2>1, <2>3, <2>4, <2>7, <3>2
  <2> QED
    BY <2>6, <2>7 DEF t
<1>5. \A T \in SUBSET Moves : T \in H
  <2>1. \A T \in SUBSET Moves : T # {} => \E x \in T : T \ {x} \in H => T \in H
    BY <1>1, <1>4
  <2> HIDE DEF H
  <2> QED
    BY <1>2, <1>3, <2>1, SubsetInduction
<1> QED
  BY <1>5

-----------------------------------------------------------------------------
(* What a whole body reads *)

OnlyRoster(s, t) ==
    /\ t.accounts = s.accounts /\ t.offers = s.offers /\ t.ledger = s.ledger
    /\ t.domain = s.domain /\ t.security = s.security /\ t.ok = s.ok

OnlyProgress(s, t) ==
    /\ t.accounts = s.accounts /\ t.offers = s.offers /\ t.ledger = s.ledger
    /\ t.roster = s.roster /\ t.security = s.security /\ t.ok = s.ok

OnlySecurity(s, t) ==
    /\ t.accounts = s.accounts /\ t.offers = s.offers /\ t.ledger = s.ledger
    /\ t.domain = s.domain /\ t.roster = s.roster /\ t.ok = s.ok

Progress(body) == [item |-> body.item, raw |-> body.raw, at |-> body.at, error |-> FALSE]

RosterMoves(s, t, body) ==
    \A c \in Conns : t.roster[c] =
        IF c = body.conn /\ s.roster[c] < DayOf(body.at) THEN DayOf(body.at) ELSE s.roster[c]

ProgressMoves(s, t, body) ==
    \A c \in Conns :
        t.domain[c] = CASE c # body.conn \/ body.says.ends = "open" -> s.domain[c]
                        [] c = body.conn /\ body.says.ends = "cursor" -> Progress(body)
                        [] OTHER -> [s.domain[c] EXCEPT !.at = body.at, !.error = FALSE]

\* The kinds of bodies, by what each does after the accounts it lists.
LEMMA DeriveIs ==
    ASSUME NEW now \in Nat, NEW A \in Archives(now), NEW k \in DOMAIN A,
           NEW seen, k \in seen, NEW in \in SUBSET DOMAIN A, NEW b \in {1, 2},
           NEW s, Sound(s, A, now, seen, in)
    PROVE  LET body == A[k]
               u == DeriveAccountEntries(s, body, b)
               v == ChangesOf(u, body, b)
               w == UpsertSecurity(u, body, b)
               t == Derive(s, body, b)
           IN /\ body.says.kind \in {"accounts", "page", "holdings"} /\ Sound(u, A, now, seen, in)
              /\ body.says.kind = "accounts" =>
                   OnlyRoster(u, t) /\ RosterMoves(u, t, body)
              /\ body.says.kind = "page" =>
                   Sound(v, A, now, seen, in) /\ OnlyProgress(v, t) /\ ProgressMoves(v, t, body)
              /\ body.says.kind = "holdings" =>
                   /\ Sound(w, A, now, seen, in) /\ OnlySecurity(u, w)
                   /\ t = PositionsOf(w, body, b)
<1> DEFINE body == A[k]
           u == DeriveAccountEntries(s, body, b)
           v == ChangesOf(u, body, b)
           w == UpsertSecurity(u, body, b)
           t == Derive(s, body, b)
<1>1. body.says.kind \in {"accounts", "page", "holdings"} /\ body.conn \in Conns
      /\ DayOf(body.at) \in Nat
  BY BodyIs DEF Template, Kinds
<1>2. Sound(u, A, now, seen, in) /\ u \in StoreUpTo(now, Len(A))
  BY EntriesKeep DEF Leads, Sound
<1>3. ASSUME body.says.kind = "accounts"
      PROVE  OnlyRoster(u, t) /\ RosterMoves(u, t, body)
  <2> DEFINE day == Max({u.roster[body.conn], DayOf(body.at)})
  <2>1. t = [u EXCEPT !.roster = [u.roster EXCEPT ![body.conn] = day]]
    BY <1>2, <1>3 DEF Derive, DeriveAccounts, StoreUpTo
  <2>2. u.roster \in [Conns -> Nat]
    BY <1>2 DEF StoreUpTo
  <2>3. day = IF u.roster[body.conn] >= DayOf(body.at) THEN u.roster[body.conn] ELSE DayOf(body.at)
    <3>1. u.roster[body.conn] \in Nat
      BY <1>1, <2>2
    <3> HIDE DEF u, body
    <3> QED
      BY <1>1, <3>1, OfTwo
  <2> HIDE DEF t, u, day
  <2>4. OnlyRoster(u, t) /\ t.roster = [u.roster EXCEPT ![body.conn] = day]
    BY <1>2, <2>1 DEF OnlyRoster, StoreUpTo
  <2> HIDE DEF body
  <2>5. \A c \in Conns : u.roster[c] \in Nat
    BY <2>2
  <2> QED
    BY <1>1, <2>2, <2>3, <2>4, <2>5 DEF RosterMoves
<1>4. ASSUME body.says.kind = "page"
      PROVE  Sound(v, A, now, seen, in) /\ OnlyProgress(v, t) /\ ProgressMoves(v, t, body)
  <2>1. t = IF body.says.ends = "open" THEN v ELSE RecordDomainSuccess(v, body)
    BY <1>4 DEF Derive, DeriveTransactionsSync, ChangesOf
  <2>2. Leads(u, v, A, now, seen, in, b)
    <3> HIDE DEF u
    <3> QED
      BY <1>2, ChangesKeep DEF ChangesOf
  <2> HIDE DEF v, t, u
  <2>3. Sound(v, A, now, seen, in) /\ v \in StoreUpTo(now, Len(A))
    BY <2>2 DEF Leads, Sound
  <2>4. v.domain \in [Conns -> ProgressUpTo(Len(A))]
    BY <2>3 DEF StoreUpTo
  <2>5. CASE body.says.ends = "open"
    <3>1. t = v
      BY <2>1, <2>5
    <3> QED
      BY <2>3, <2>5, <3>1 DEF ProgressMoves, OnlyProgress
  <2>6. CASE body.says.ends # "open"
    <3> DEFINE new == IF body.says.ends = "cursor" THEN Progress(body)
                      ELSE [v.domain[body.conn] EXCEPT !.at = body.at, !.error = FALSE]
    <3>1. OnlyProgress(v, t) /\ t.domain = [v.domain EXCEPT ![body.conn] = new]
      BY <2>1, <2>3, <2>6 DEF RecordDomainSuccess, OnlyProgress, Progress, StoreUpTo
    <3>2. \A c \in Conns : t.domain[c] = IF c = body.conn THEN new ELSE v.domain[c]
      <4> HIDE DEF new, body
      <4> QED
        BY <1>1, <2>4, <3>1
    <3> HIDE DEF body
    <3> QED
      BY <2>3, <2>6, <3>1, <3>2 DEF ProgressMoves
  <2> QED
    BY <2>5, <2>6
<1>5. ASSUME body.says.kind = "holdings"
      PROVE  /\ Sound(w, A, now, seen, in) /\ OnlySecurity(u, w)
             /\ t = PositionsOf(w, body, b)
  <2>1. t = PositionsOf(w, body, b)
    BY <1>5 DEF Derive, DeriveInvestmentsHoldings, PositionsOf
  <2> HIDE DEF u
  <2>2. Sound(w, A, now, seen, in)
    BY <1>2, <1>5, SecurityKeeps
  <2>3. OnlySecurity(u, w)
    BY <1>2 DEF UpsertSecurity, OnlySecurity, StoreUpTo
  <2> QED
    BY <2>1, <2>2, <2>3
<1> QED
  BY <1>1, <1>2, <1>3, <1>4, <1>5

\* What is read of the accounts is read of the accounts alone.
LEMMA SameAccountsRead ==
    ASSUME NEW A, NEW s, NEW t, t.accounts = s.accounts
    PROVE  /\ (Table(s, A) <=> Table(t, A)) /\ SameRows(s, t, A) /\ SameRows(t, s, A)
           /\ \A E : RowsRead(s, A, E) <=> RowsRead(t, A, E)
           /\ \A e, i : RowOfEntry(s, A, e, i) <=> RowOfEntry(t, A, e, i)
           /\ \A e, o : BalanceOf(s, A, e, o) <=> BalanceOf(t, A, e, o)
           /\ \A e, o : PositionOf(s, A, e, o) <=> PositionOf(t, A, e, o)
           /\ \A body, r : AccountId(s, body, r) = AccountId(t, body, r)
<1>1. \A e, i : RowOfEntry(s, A, e, i) <=> RowOfEntry(t, A, e, i)
  BY DEF RowOfEntry, IsRow
<1>2. \A e : Covers(s, A, e) <=> Covers(t, A, e)
  BY <1>1 DEF Covers
<1>3. \A E, i, e : Latest(s, A, E, i, e) <=> Latest(t, A, E, i, e)
  BY <1>1 DEF Latest
<1>4. \A E : RowsRead(s, A, E) <=> RowsRead(t, A, E)
  BY <1>2, <1>3 DEF RowsRead
<1>5. /\ \A e, o : BalanceOf(s, A, e, o) <=> BalanceOf(t, A, e, o)
      /\ \A e, o : PositionOf(s, A, e, o) <=> PositionOf(t, A, e, o)
  BY <1>1 DEF BalanceOf, PositionOf
<1>6. \A body, r : AccountId(s, body, r) = AccountId(t, body, r)
  BY DEF AccountId, Own
<1>7. (Table(s, A) <=> Table(t, A)) /\ SameRows(s, t, A) /\ SameRows(t, s, A)
  BY DEF Table, RowStands, Apart, SameRows
<1> QED
  BY <1>1, <1>4, <1>5, <1>6, <1>7

\* What a derive leaves of what is recorded beside the rows.
Beside(u, t, body, b) ==
    /\ IF body.says.kind = "accounts" THEN RosterMoves(u, t, body) ELSE t.roster = u.roster
    /\ IF body.says.kind = "page" THEN ProgressMoves(u, t, body)
       ELSE t.domain = u.domain /\ t.ledger = u.ledger
    /\ t.security = IF body.says.kind = "holdings" THEN UpsertSecurity(u, body, b).security
                    ELSE u.security

\* No row of the table goes over to another account, whatever is derived.
LEMMA DeriveKeepsRows ==
    ASSUME NEW now \in Nat, NEW A \in Archives(now), Plain(A), NEW k \in DOMAIN A,
           NEW seen, k \in seen, NEW in \in SUBSET DOMAIN A, NEW b \in {1, 2},
           NEW s, Sound(s, A, now, seen, in), Table(s, A)
    PROVE  LET u == DeriveAccountEntries(s, A[k], b)
               t == Derive(s, A[k], b)
           IN /\ t.accounts = u.accounts /\ (t.ok => s.ok) /\ Aside(s, u) /\ Beside(u, t, A[k], b)
              /\ Table(u, A) /\ SameRows(s, u, A) /\ SameRows(t, u, A)
              /\ Table(t, A) /\ SameRows(s, t, A)
<1> DEFINE body == A[k]
           u == DeriveAccountEntries(s, body, b)
           v == ChangesOf(u, body, b)
           w == UpsertSecurity(u, body, b)
           t == Derive(s, body, b)
<1>1. Table(u, A) /\ SameRows(s, u, A) /\ Aside(s, u)
  <2>1. RowsRead(s, A, {}) /\ {} \in SUBSET Entries(A, k)
    BY DEF RowsRead
  <2> QED
    BY <2>1, EntriesRead
<1>2. /\ body.says.kind \in {"accounts", "page", "holdings"} /\ Sound(u, A, now, seen, in)
      /\ body.says.kind = "accounts" => OnlyRoster(u, t) /\ RosterMoves(u, t, body)
      /\ body.says.kind = "page" => OnlyProgress(v, t) /\ ProgressMoves(v, t, body)
      /\ body.says.kind = "holdings" =>
           Sound(w, A, now, seen, in) /\ OnlySecurity(u, w) /\ t = PositionsOf(w, body, b)
  BY DeriveIs
<1> HIDE DEF u, t
<1>3. t.accounts = u.accounts /\ (t.ok => s.ok) /\ Beside(u, t, A[k], b)
  <2>1. CASE body.says.kind = "accounts"
    BY <1>1, <1>2, <2>1 DEF OnlyRoster, Aside, Beside
  <2>2. CASE body.says.kind = "page"
    <3>1. PICK it : ChangesTrace(it, u, body, b) /\ AllLed(it, Moves, u, A, now, seen, in, b)
      BY <1>2, ChangesRun
    <3>2. it[Moves] = v
      BY <3>1 DEF ChangesTrace, ChangesOf
    <3> HIDE DEF v
    <3>3. \A T \in SUBSET Moves : OnlyTransactions(u, it[T]) /\ (it[T].ok => u.ok)
      <4>1. Sound(u, A, now, seen, in) /\ A[k].says.kind = "page"
        BY <1>2, <2>2
      <4> QED
        BY <1>1, <3>1, <4>1, ChangesRead, SMTT(30)
    <3>4. OnlyTransactions(u, v) /\ (v.ok => u.ok)
      BY <3>2, <3>3
    <3> QED
      BY <1>1, <1>2, <2>2, <3>4 DEF OnlyTransactions, OnlyProgress, Aside, Beside, ProgressMoves
  <2>3. CASE body.says.kind = "holdings"
    <3>1. Table(w, A)
      BY <1>1, <1>2, <2>3, SameAccountsRead DEF OnlySecurity
    <3> HIDE DEF w
    <3>2. Sound(w, A, now, seen, in) /\ t = PositionsOf(w, A[k], b)
      BY <1>2, <2>3
    <3> DEFINE z == PositionsOf(w, A[k], b)
    <3>3. OnlyOffers(w, z) /\ (z.ok <=> w.ok /\ \A r \in A[k].says.positions : Found(w, A[k], r))
      BY <3>1, <3>2, PositionsRead
    <3> HIDE DEF z
    <3> QED
      BY <1>1, <1>2, <2>3, <3>2, <3>3 DEF z, OnlyOffers, OnlySecurity, Aside, Beside, w
  <2> QED
    BY <1>2, <2>1, <2>2, <2>3
<1>4. Table(t, A) /\ SameRows(u, t, A) /\ SameRows(t, u, A)
  BY <1>1, <1>3, SameAccountsRead
<1>5. SameRows(s, t, A)
  BY <1>1, <1>4, SameRowsOn
<1> QED
  BY <1>1, <1>3, <1>4, <1>5 DEF u, t

\* The security is as old as the first body that states it, and as late as
\* the last.
LEMMA SecurityReads ==
    ASSUME NEW now \in Nat, NEW A \in Archives(now), NEW k \in DOMAIN A, NEW b \in {1, 2},
           NEW s \in StoreUpTo(now, Len(A))
    PROVE  LET old == s.security
               new == UpsertSecurity(s, A[k], b).security
               at == A[k].at
           IN /\ new.at # 0 /\ new.created <= at /\ at <= new.at
              /\ old.at # 0 => /\ new.created <= old.created /\ old.at <= new.at
                               /\ old.created \in Nat /\ old.at \in Nat
              /\ new.created \in Nat /\ new.at \in Nat
              /\ old.at # 0 /\ old.created <= at /\ at <= old.at /\ old.build = b => new = old
<1> DEFINE body == A[k]
           old == s.security
           t == UpsertSecurity(s, body, b)
           new == t.security
           least == Min({old.created, body.at})
<1>1. old \in AnySecurity /\ body.at \in Nat /\ body.at # 0
  BY BodyIs DEF StoreUpTo
<1>2. old.created \in Nat /\ old.at \in Nat
  BY <1>1 DEF AnySecurity
<1>3. least = IF old.created <= body.at THEN old.created ELSE body.at
  BY <1>1, <1>2, OfTwo
<1>4. /\ old.at # 0 /\ body.at < old.at => new = [old EXCEPT !.created = least]
      /\ ~ (old.at # 0 /\ body.at < old.at) =>
            new = [created |-> IF old.at = 0 THEN body.at ELSE least, at |-> body.at, build |-> b]
  BY DEF UpsertSecurity, StoreUpTo
<1> HIDE DEF new, least, old, body
<1>5. /\ old.at # 0 /\ body.at < old.at => new.created = least /\ new.at = old.at
      /\ ~ (old.at # 0 /\ body.at < old.at) =>
            /\ new.created = IF old.at = 0 THEN body.at ELSE least
            /\ new.at = body.at
  BY <1>1, <1>4 DEF AnySecurity
<1>6. ASSUME old.at # 0, old.created <= body.at, body.at <= old.at, old.build = b
      PROVE  new = old
  <2>1. least = old.created
    BY <1>3, <1>6
  <2>2. old = [created |-> old.created, at |-> old.at, build |-> old.build]
    BY <1>1 DEF AnySecurity
  <2>3. CASE body.at < old.at
    BY <1>1, <1>4, <1>6, <2>1, <2>3 DEF AnySecurity
  <2>4. CASE ~ (body.at < old.at)
    <3>1. body.at = old.at
      BY <1>1, <1>2, <1>6, <2>4
    <3> QED
      BY <1>4, <1>6, <2>1, <2>2, <2>4, <3>1
  <2> QED
    BY <2>3, <2>4
<1>7. /\ new.at # 0 /\ new.created <= body.at /\ body.at <= new.at
      /\ old.at # 0 => /\ new.created <= old.created /\ old.at <= new.at
                       /\ old.created \in Nat /\ old.at \in Nat
      /\ new.created \in Nat /\ new.at \in Nat
  BY <1>1, <1>2, <1>3, <1>5
<1> QED
  BY <1>6, <1>7 DEF new, t, old, body

\* After the accounts of body k were derived, its entries are read as well.
LEMMA AfterEntries ==
    ASSUME NEW now \in Nat, NEW A \in Archives(now), Plain(A), NEW k \in DOMAIN A,
           NEW seen, k \in seen, NEW in \in SUBSET DOMAIN A, NEW b \in {1, 2},
           NEW s, Sound(s, A, now, seen, in), Table(s, A), Read(s, A, k - 1)
    PROVE  LET u == DeriveAccountEntries(s, A[k], b) IN
           /\ RowsRead(u, A, Entries(A, k)) /\ LedgerRead(u, A, Entries(A, k))
           /\ OffersRead(u, A, Entries(A, k), Stated(A, k - 1))
<1> DEFINE body == A[k]
           u == DeriveAccountEntries(s, body, b)
           E == Entries(A, k)
           before == Entries(A, k - 1)
           mine == {k} \X body.says.listed
           priced == Stated(A, k - 1)
<1>1. Table(u, A) /\ SameRows(s, u, A) /\ Aside(s, u)
  BY DeriveKeepsRows
<1>2. k - 1 \in 0 .. Len(A) /\ before \subseteq E /\ E = before \cup mine
  BY EntriesAre
<1>3. /\ RowsRead(s, A, before) /\ OffersRead(s, A, before, priced) /\ LedgerRead(s, A, before)
  BY DEF Read
<1>4. RowsRead(u, A, E) /\ BalancesPut(s, u, A, mine)
  <2>1. before \in SUBSET Entries(A, k)
    BY <1>2
  <2> HIDE DEF E, before
  <2>2. RowsRead(u, A, before \cup mine) /\ BalancesPut(s, u, A, mine)
    BY <1>3, <2>1, EntriesRead
  <2> QED
    BY <1>2, <2>2
<1> HIDE DEF u, E, before, mine, priced
<1>5. OffersRead(u, A, E, priced)
  <2>1. HasRows(s, A, before) /\ HasRows(s, A, priced)
    BY <1>2, <1>3, CoveredHaveRows, StatedHaveRows DEF before, priced
  <2>2. /\ \A e \in before : \A o : BalanceOf(s, A, e, o) <=> BalanceOf(u, A, e, o)
        /\ \A e \in priced : \A o : PositionOf(s, A, e, o) <=> PositionOf(u, A, e, o)
    BY <1>1, <2>1, OffersStay
  <2> QED
    BY <1>2, <1>3, <1>4, <2>2 DEF OffersRead, BalancesPut
<1>6. LedgerRead(u, A, E)
  <2>1. u.ledger = s.ledger /\ \A e, i : RowOfEntry(s, A, e, i) => RowOfEntry(u, A, e, i)
    BY <1>1, RowsStay DEF Aside, RowOfEntry
  <2> QED
    BY <1>2, <1>3, <2>1 DEF LedgerRead
<1> QED
  BY <1>4, <1>5, <1>6 DEF u, E, priced

\* A body that is taken is read, with those before it.
LEMMA DeriveReads ==
    ASSUME NEW now \in Nat, NEW A \in Archives(now), Plain(A), NEW k \in DOMAIN A,
           NEW seen, k \in seen, NEW in \in SUBSET DOMAIN A, NEW b \in {1, 2},
           NEW s, Sound(s, A, now, seen, in), Table(s, A), Read(s, A, k - 1),
           Derive(s, A[k], b).ok
    PROVE  Read(Derive(s, A[k], b), A, k)
<1> DEFINE body == A[k]
           u == DeriveAccountEntries(s, body, b)
           v == ChangesOf(u, body, b)
           w == UpsertSecurity(u, body, b)
           t == Derive(s, body, b)
           E == Entries(A, k)
           P == Stated(A, k)
           priced == Stated(A, k - 1)
<1>1. /\ body.says.kind \in {"accounts", "page", "holdings"} /\ Sound(u, A, now, seen, in)
      /\ body.says.kind = "accounts" => OnlyRoster(u, t) /\ RosterMoves(u, t, body)
      /\ body.says.kind = "page" =>
           Sound(v, A, now, seen, in) /\ OnlyProgress(v, t) /\ ProgressMoves(v, t, body)
      /\ body.says.kind = "holdings" =>
           Sound(w, A, now, seen, in) /\ OnlySecurity(u, w) /\ t = PositionsOf(w, body, b)
  BY DeriveIs
<1>2. /\ t.accounts = u.accounts /\ s.ok /\ Aside(s, u) /\ Beside(u, t, body, b)
      /\ Table(u, A) /\ SameRows(s, u, A) /\ Table(t, A)
  BY DeriveKeepsRows
<1>3. /\ k - 1 \in 0 .. Len(A)
      /\ P = priced \cup (IF body.says.kind = "holdings" THEN {k} \X body.says.positions ELSE {})
  BY EntriesAre
<1>4. RowsRead(u, A, E) /\ LedgerRead(u, A, E) /\ OffersRead(u, A, E, priced)
  BY AfterEntries
<1>5. AsideRead(s, A, k - 1)
  BY DEF Read
<1> HIDE DEF u, v, w, t, E, P, priced
<1>6. RowsRead(t, A, E)
  BY <1>2, <1>4, SameAccountsRead
<1>7. /\ \A e, o : BalanceOf(u, A, e, o) <=> BalanceOf(t, A, e, o)
      /\ \A e, o : PositionOf(u, A, e, o) <=> PositionOf(t, A, e, o)
      /\ \A e, i : RowOfEntry(u, A, e, i) <=> RowOfEntry(t, A, e, i)
  BY <1>2, SameAccountsRead
<1>8. OffersRead(t, A, E, P) /\ LedgerRead(t, A, E)
  <2>1. CASE body.says.kind = "accounts"
    <3>1. P = priced /\ t.offers = u.offers /\ t.ledger = u.ledger
      BY <1>1, <1>3, <2>1 DEF OnlyRoster
    <3> QED
      BY <1>4, <1>7, <3>1 DEF OffersRead, LedgerRead
  <2>2. CASE body.says.kind = "page"
    <3>1. PICK it : ChangesTrace(it, u, body, b) /\ AllLed(it, Moves, u, A, now, seen, in, b)
      BY <1>1, ChangesRun
    <3>2. it[Moves] = v
      BY <3>1 DEF ChangesTrace, ChangesOf, v
    <3>3. \A T \in SUBSET Moves : OnlyTransactions(u, it[T]) /\ LedgerRead(it[T], A, E)
      <4>1. Sound(u, A, now, seen, in) /\ A[k].says.kind = "page" /\ Table(u, A)
        BY <1>1, <1>2, <2>2 DEF body
      <4>2. \A T \in SUBSET Moves :
               /\ OnlyTransactions(u, it[T]) /\ (it[T].ok => u.ok)
               /\ LedgerRead(u, A, Entries(A, k)) =>
                    /\ LedgerRead(it[T], A, Entries(A, k))
                    /\ it[T].ok <=> u.ok /\ \A m \in T : Written(A[k], m) => Found(u, A[k], m)
        <5>1. ChangesTrace(it, u, A[k], b) /\ AllLed(it, Moves, u, A, now, seen, in, b)
          BY <3>1 DEF body
        <5> QED
          BY <4>1, <5>1, ChangesRead
      <4> QED
        BY <1>4, <4>2 DEF E
    <3>4. OnlyTransactions(u, v) /\ LedgerRead(v, A, E)
      BY <3>2, <3>3
    <3>5. P = priced /\ t.offers = u.offers /\ t.ledger = v.ledger
      BY <1>1, <1>3, <2>2, <3>4 DEF OnlyProgress, OnlyTransactions
    <3>6. \A e, i : RowOfEntry(v, A, e, i) <=> RowOfEntry(u, A, e, i)
      BY <3>4, SameAccountsRead DEF OnlyTransactions
    <3> QED
      BY <1>4, <1>7, <3>4, <3>5, <3>6 DEF OffersRead, LedgerRead
  <2>3. CASE body.says.kind = "holdings"
    <3>1. Table(w, A) /\ Sound(w, A, now, seen, in) /\ t = PositionsOf(w, A[k], b)
      BY <1>1, <1>2, <2>3, SameAccountsRead DEF OnlySecurity
    <3> DEFINE z == PositionsOf(w, A[k], b)
               S == {k} \X A[k].says.positions
    <3>2. OnlyOffers(w, z) /\ (z.ok => PositionsPut(w, z, A, S))
      BY <3>1, PositionsRead
    <3> HIDE DEF z
    <3>3. OnlyOffers(w, t) /\ PositionsPut(w, t, A, S)
      BY <3>1, <3>2 DEF z, t
    <3>4. w.offers = u.offers /\ t.ledger = u.ledger
      BY <1>1, <2>3, <3>3 DEF OnlySecurity, OnlyOffers
    <3>5. P = priced \cup S
      BY <1>3, <2>3
    <3> HIDE DEF S
    <3> QED
      BY <1>4, <1>7, <3>3, <3>4, <3>5 DEF OffersRead, PositionsPut, LedgerRead
  <2> QED
    BY <1>1, <2>1, <2>2, <2>3
<1>9. AsideRead(t, A, k)
  <2>1. u.roster = s.roster /\ u.security = s.security /\ u \in StoreUpTo(now, Len(A))
    BY <1>1, <1>2 DEF Aside, Sound
  <2>2. /\ u.roster \in [Conns -> Nat] /\ body.conn \in Conns /\ DayOf(body.at) \in Nat
        /\ 1 .. k = (1 .. k - 1) \cup {k} /\ k \in Nat
    <3>1. k \in Nat /\ k \in 1 .. Len(A) /\ body.conn \in Conns /\ DayOf(body.at) \in Nat
      BY BodyIs
    <3> HIDE DEF body
    <3> QED
      BY <2>1, <3>1 DEF StoreUpTo
  <2>3. /\ \A c \in Conns : t.roster[c] >= u.roster[c] /\ u.roster[c] \in Nat /\ t.roster[c] \in Nat
        /\ body.says.kind = "accounts" => t.roster[body.conn] >= DayOf(body.at)
    <3>0. \A c \in Conns : u.roster[c] \in Nat
      BY <2>2
    <3>1. CASE body.says.kind = "accounts"
      <4>1. RosterMoves(u, t, body)
        BY <1>2, <3>1 DEF Beside
      <4> HIDE DEF body
      <4> QED
        BY <2>2, <3>0, <3>1, <4>1 DEF RosterMoves
    <3>2. CASE body.says.kind # "accounts"
      BY <1>2, <3>0, <3>2 DEF Beside
    <3> QED
      BY <3>1, <3>2
  <2>4. /\ t.security = IF body.says.kind = "holdings" THEN w.security ELSE u.security
        /\ w.security.at # 0 /\ w.security.created <= body.at /\ body.at <= w.security.at
        /\ u.security.at # 0 => /\ w.security.created <= u.security.created
                                /\ u.security.at <= w.security.at
                                /\ u.security.created \in Nat /\ u.security.at \in Nat
        /\ w.security.created \in Nat /\ w.security.at \in Nat
    <3>1. t.security = IF body.says.kind = "holdings" THEN w.security ELSE u.security
      BY <1>2 DEF Beside, w
    <3> DEFINE old == u.security
               new == w.security
    <3>2. /\ new.at # 0 /\ new.created <= body.at /\ body.at <= new.at
          /\ old.at # 0 => /\ new.created <= old.created /\ old.at <= new.at
                           /\ old.created \in Nat /\ old.at \in Nat
          /\ new.created \in Nat /\ new.at \in Nat
      BY <2>1, SecurityReads, SMTT(30) DEF w, body
    <3> HIDE DEF old, new
    <3> QED
      BY <3>1, <3>2 DEF old, new
  <2>5. ASSUME NEW j \in 1 .. k
        PROVE  /\ Roster(A[j]) => t.roster[A[j].conn] >= DayOf(A[j].at)
               /\ A[j].says.kind = "holdings" =>
                    /\ t.security.at # 0 /\ t.security.created <= A[j].at /\ A[j].at <= t.security.at
    <3>1. CASE j = k
      BY <2>3, <2>4, <3>1 DEF Roster, body
    <3>2. CASE j \in 1 .. k - 1
      <4>1. j \in DOMAIN A
        BY LengthsAre, <3>2
      <4>2. A[j].conn \in Conns /\ A[j].at \in Nat /\ DayOf(A[j].at) \in Nat
        BY <4>1, BodyIs
      <4>3. /\ Roster(A[j]) => u.roster[A[j].conn] >= DayOf(A[j].at)
            /\ A[j].says.kind = "holdings" =>
                 /\ u.security.at # 0 /\ u.security.created <= A[j].at /\ A[j].at <= u.security.at
        BY <1>5, <2>1, <3>2 DEF AsideRead
      <4>4. Roster(A[j]) => t.roster[A[j].conn] >= DayOf(A[j].at)
        BY <2>3, <4>2, <4>3
      <4>5. ASSUME A[j].says.kind = "holdings"
            PROVE  t.security.at # 0 /\ t.security.created <= A[j].at /\ A[j].at <= t.security.at
        BY <2>4, <4>2, <4>3, <4>5
      <4> QED
        BY <4>4, <4>5
    <3> QED
      BY <2>2, <3>1, <3>2
  <2> QED
    BY <2>5 DEF AsideRead
<1> QED
  BY <1>6, <1>8, <1>9 DEF Read, t, E, P

-----------------------------------------------------------------------------
(* Two stores that read the same bodies *)

LEMMA AppendIs ==
    ASSUME NEW V, NEW q \in Seq(V), NEW v
    PROVE  /\ DOMAIN Append(q, v) = DOMAIN q \cup {Len(q) + 1}
           /\ Append(q, v)[Len(q) + 1] = v
           /\ \A l \in DOMAIN q : Append(q, v)[l] = q[l]
OBVIOUS

\* One change of a page does the same to two stores that read the same.
LEMMA OneChangeAgrees ==
    ASSUME NEW now \in Nat, NEW A \in Archives(now), Plain(A), NEW k \in DOMAIN A,
           A[k].says.kind = "page", NEW b \in {1, 2}, NEW d \in {1, 2},
           NEW s \in StoreUpTo(now, Len(A)), Table(s, A), RowsRead(s, A, Entries(A, k)),
           LedgerRead(s, A, Entries(A, k)),
           NEW t \in StoreUpTo(now, Len(A)), Table(t, A), RowsRead(t, A, Entries(A, k)),
           LedgerRead(t, A, Entries(A, k)),
           SameRows(s, t, A), Alike(s, t), NEW m \in Moves
    PROVE  Alike(ApplyChange(s, A[k], m, b), ApplyChange(t, A[k], m, d))
<1> DEFINE body == A[k]
           E == Entries(A, k)
           i == AccountId(s, body, m)
           j == AccountId(t, body, m)
           rows == TxRow(s, i, m)
           live == {l \in rows : ~ s.ledger[l].removed}
           x == ApplyChange(s, body, m, b)
           y == ApplyChange(t, body, m, d)
           seen == \E e \in E : e[2] = m /\ (Shared(A, m) \/ A[e[1]].item = body.item)
<1>1. /\ s.ledger \in Seq(LedgerRowUpTo(Len(A))) /\ t.ledger \in Seq(LedgerRowUpTo(Len(A)))
      /\ Len(s.ledger) = Len(t.ledger)
  <2>1. /\ s.ledger \in Seq(LedgerRowUpTo(Len(A))) /\ t.ledger \in Seq(LedgerRowUpTo(Len(A)))
    BY DEF StoreUpTo
  <2> QED
    BY <2>1 DEF Alike
<1>2. body.says.changes[m] \in {"none", "removed", "transfer", "other"}
  BY BodyIs DEF Template
<1>3. seen => i = j
  BY SameAnswer
<1>4. i = j => TxRow(t, j, m) = rows
  BY DEF TxRow, Alike, SameEntry
<1>5. ~ seen => rows = {} /\ TxRow(t, j, m) = {}
  BY NothingUnlisted
<1>6. Written(body, m) => seen
  <2> SUFFICES ASSUME Written(body, m) PROVE seen
    OBVIOUS
  <2>1. m \in Used(body) /\ m \in Real
    BY RealAssumption DEF Used, Written
  <2> QED
    BY <2>1, UsedHasEntry
<1>7. rows \in SUBSET DOMAIN s.ledger /\ rows \in SUBSET Nat /\ live \in SUBSET rows
  BY <1>1 DEF TxRow
<1>8. live = {l \in TxRow(t, j, m) : ~ t.ledger[l].removed} /\ rows = TxRow(t, j, m)
  <2>1. rows = TxRow(t, j, m)
    BY <1>3, <1>4, <1>5
  <2> QED
    BY <1>7, <2>1 DEF Alike, SameEntry
<1> HIDE DEF rows, live, seen, E
<1>9. CASE body.says.changes[m] = "none"
  BY <1>9 DEF ApplyChange
<1>10. CASE body.says.changes[m] = "removed"
  <2>1. x = MarkRemoved(s, body, m) /\ y = MarkRemoved(t, body, m)
    BY <1>10 DEF ApplyChange
  <2>2. CASE live = {}
    <3>1. x = s /\ y = t
      BY <1>8, <2>1, <2>2 DEF MarkRemoved, live, rows
    <3> QED
      BY <3>1
  <2>3. CASE live # {}
    <3> DEFINE l == Min(live)
               v == [s.ledger[l] EXCEPT !.removed = TRUE, !.at = body.at]
               w == [t.ledger[l] EXCEPT !.removed = TRUE, !.at = body.at]
    <3>1. l \in DOMAIN s.ledger
      BY <1>7, <2>3, Extremes
    <3>2. x = [s EXCEPT !.ledger[l] = v]
      BY <2>1, <2>3 DEF MarkRemoved, live, rows
    <3>3. y = [t EXCEPT !.ledger[l] = w]
      <4>1. live = {o \in TxRow(t, j, m) : ~ t.ledger[o].removed}
        BY <1>8
      <4> HIDE DEF w
      <4> QED
        BY <2>1, <2>3, <4>1 DEF MarkRemoved, w
    <3> HIDE DEF l
    <3>4. x.ledger = [s.ledger EXCEPT ![l] = v] /\ y.ledger = [t.ledger EXCEPT ![l] = w]
      BY <3>2, <3>3 DEF StoreUpTo
    <3>5. SameEntry(v, w)
      <4>1. s.ledger[l] \in LedgerRowUpTo(Len(A)) /\ t.ledger[l] \in LedgerRowUpTo(Len(A))
            /\ SameEntry(s.ledger[l], t.ledger[l])
        BY <1>1, <3>1 DEF Alike
      <4> QED
        BY <4>1 DEF SameEntry, LedgerRowUpTo
    <3> HIDE DEF v, w, x, y
    <3> QED
      BY <1>1, <3>1, <3>4, <3>5 DEF Alike, x, y
  <2> QED
    BY <2>2, <2>3
<1>11. CASE Written(body, m) /\ i = 0
  <2>1. x = [s EXCEPT !.ok = FALSE] /\ y = [t EXCEPT !.ok = FALSE]
    BY <1>3, <1>6, <1>11 DEF ApplyChange, Written
  <2>2. x.ledger = s.ledger /\ y.ledger = t.ledger
    BY <2>1 DEF StoreUpTo
  <2> HIDE DEF x, y
  <2> QED
    BY <2>2 DEF Alike, x, y
<1>12. CASE Written(body, m) /\ i # 0
  <2> DEFINE pairable == body.says.changes[m] = "transfer"
  <2>1. x = WriteTransaction(s, body, m, b) /\ y = WriteTransaction(t, body, m, d) /\ i = j
    BY <1>3, <1>6, <1>12 DEF ApplyChange, Written
  <2>2. CASE rows # {}
    <3> DEFINE l == Min(rows)
               v == [s.ledger[l] EXCEPT !.pairable = pairable, !.removed = FALSE,
                        !.at = body.at, !.raw = body.raw, !.build = b]
               w == [t.ledger[l] EXCEPT !.pairable = pairable, !.removed = FALSE,
                        !.at = body.at, !.raw = body.raw, !.build = d]
    <3>1. l \in DOMAIN s.ledger
      BY <1>7, <2>2, Extremes
    <3>2. x = [s EXCEPT !.ledger[l] = v]
      BY <2>1, <2>2 DEF WriteTransaction, rows
    <3>3. y = [t EXCEPT !.ledger[l] = w]
      <4>1. rows = TxRow(t, j, m)
        BY <1>8
      <4> HIDE DEF w
      <4> QED
        BY <2>1, <2>2, <4>1 DEF WriteTransaction, w
    <3> HIDE DEF l
    <3>4. x.ledger = [s.ledger EXCEPT ![l] = v] /\ y.ledger = [t.ledger EXCEPT ![l] = w]
      BY <3>2, <3>3 DEF StoreUpTo
    <3>5. SameEntry(v, w)
      <4>1. s.ledger[l] \in LedgerRowUpTo(Len(A)) /\ t.ledger[l] \in LedgerRowUpTo(Len(A))
            /\ SameEntry(s.ledger[l], t.ledger[l])
        BY <1>1, <3>1 DEF Alike
      <4> HIDE DEF pairable
      <4> QED
        BY <4>1 DEF SameEntry, LedgerRowUpTo
    <3> HIDE DEF v, w, x, y
    <3> QED
      BY <1>1, <3>1, <3>4, <3>5 DEF Alike, x, y
  <2>3. CASE rows = {}
    <3> DEFINE row(p, n) == [account |-> p, source |-> m, pairable |-> pairable, removed |-> FALSE,
                             pair |-> 0, override |-> FALSE, at |-> body.at, raw |-> body.raw,
                             build |-> n]
               v == row(i, b)
               w == row(j, d)
    <3>1. x = [s EXCEPT !.ledger = Append(s.ledger, v)]
      BY <2>1, <2>3 DEF WriteTransaction, rows, StoreUpTo
    <3>2. y = [t EXCEPT !.ledger = Append(t.ledger, w)]
      <4>1. TxRow(t, j, m) = {}
        BY <1>8, <2>3
      <4> QED
        BY <2>1, <4>1 DEF WriteTransaction, StoreUpTo
    <3>3. x.ledger = Append(s.ledger, v) /\ y.ledger = Append(t.ledger, w)
      BY <3>1, <3>2 DEF StoreUpTo
    <3>4. SameEntry(v, w)
      BY <2>1 DEF SameEntry
    <3> HIDE DEF v, w, x, y
    <3>5. /\ DOMAIN x.ledger = DOMAIN s.ledger \cup {Len(s.ledger) + 1}
          /\ x.ledger[Len(s.ledger) + 1] = v
          /\ \A l \in DOMAIN s.ledger : x.ledger[l] = s.ledger[l]
      BY <1>1, <3>3, AppendIs, SMTT(30)
    <3>6. /\ DOMAIN y.ledger = DOMAIN t.ledger \cup {Len(t.ledger) + 1}
          /\ y.ledger[Len(t.ledger) + 1] = w
          /\ \A l \in DOMAIN t.ledger : y.ledger[l] = t.ledger[l]
      BY <1>1, <3>3, AppendIs, SMTT(30)
    <3> QED
      BY <1>1, <3>4, <3>5, <3>6 DEF Alike, x, y
  <2> QED
    BY <2>2, <2>3
<1> QED
  BY <1>2, <1>9, <1>10, <1>11, <1>12 DEF Written

\* A page's loop, with what is read all through it.
ChangesTold(it, s, A, k, now, seen, in, b) ==
    /\ ChangesTrace(it, s, A[k], b) /\ AllLed(it, Moves, s, A, now, seen, in, b)
    /\ \A T \in SUBSET Moves :
         /\ OnlyTransactions(s, it[T]) /\ LedgerRead(it[T], A, Entries(A, k))
         /\ it[T].ok <=> s.ok /\ \A m \in T : Written(A[k], m) => Found(s, A[k], m)

LEMMA ChangesTell ==
    ASSUME NEW now \in Nat, NEW A \in Archives(now), Plain(A), NEW k \in DOMAIN A,
           A[k].says.kind = "page", NEW seen, NEW in, NEW b \in {1, 2},
           NEW s, Sound(s, A, now, seen, in), Table(s, A), LedgerRead(s, A, Entries(A, k))
    PROVE  \E it : ChangesTold(it, s, A, k, now, seen, in, b)
<1>1. PICK it : ChangesTrace(it, s, A[k], b) /\ AllLed(it, Moves, s, A, now, seen, in, b)
  BY ChangesRun
<1>2. \A T \in SUBSET Moves :
         /\ OnlyTransactions(s, it[T]) /\ (it[T].ok => s.ok)
         /\ LedgerRead(s, A, Entries(A, k)) =>
              /\ LedgerRead(it[T], A, Entries(A, k))
              /\ it[T].ok <=> s.ok /\ \A m \in T : Written(A[k], m) => Found(s, A[k], m)
  BY <1>1, ChangesRead
<1> QED
  BY <1>1, <1>2 DEF ChangesTold

\* And so does the loop over the changes.
LEMMA ChangesAgree ==
    ASSUME NEW now \in Nat, NEW A \in Archives(now), Plain(A), NEW k \in DOMAIN A,
           A[k].says.kind = "page", NEW b \in {1, 2}, NEW d \in {1, 2}, NEW seen, NEW in,
           NEW s, Sound(s, A, now, seen, in), Table(s, A), RowsRead(s, A, Entries(A, k)),
           LedgerRead(s, A, Entries(A, k)),
           NEW t, Sound(t, A, now, seen, in), Table(t, A), RowsRead(t, A, Entries(A, k)),
           LedgerRead(t, A, Entries(A, k)),
           SameRows(s, t, A), Alike(s, t), s.ok, t.ok
    PROVE  LET x == ChangesOf(s, A[k], b)
               y == ChangesOf(t, A[k], d)
           IN Alike(x, y) /\ (x.ok => y.ok)
<1> DEFINE E == Entries(A, k)
<1>0. LedgerRead(s, A, E) /\ LedgerRead(t, A, E)
  OBVIOUS
<1>1. PICK it : ChangesTold(it, s, A, k, now, seen, in, b)
  BY ChangesTell
<1>2. PICK at : ChangesTold(at, t, A, k, now, seen, in, d)
  BY ChangesTell
<1>3. \A T \in SUBSET Moves :
         /\ OnlyTransactions(s, it[T]) /\ LedgerRead(it[T], A, E)
         /\ it[T].ok <=> s.ok /\ \A m \in T : Written(A[k], m) => Found(s, A[k], m)
  BY <1>1 DEF ChangesTold
<1>4. \A T \in SUBSET Moves :
         /\ OnlyTransactions(t, at[T]) /\ LedgerRead(at[T], A, E)
         /\ at[T].ok <=> t.ok /\ \A m \in T : Written(A[k], m) => Found(t, A[k], m)
  BY <1>2 DEF ChangesTold
<1>5. /\ it[{}] = s /\ it[Moves] = ChangesOf(s, A[k], b)
      /\ \A T \in SUBSET Moves : it[T] \in StoreUpTo(now, Len(A))
      /\ \A T \in SUBSET Moves : T # {} =>
            Max(T) \in T /\ it[T] = ApplyChange(it[T \ {Max(T)}], A[k], Max(T), b)
  BY <1>1 DEF ChangesTold, ChangesTrace, AllLed, ChangesOf, Leads, Sound
<1>6. /\ at[{}] = t /\ at[Moves] = ChangesOf(t, A[k], d)
      /\ \A T \in SUBSET Moves : at[T] \in StoreUpTo(now, Len(A))
      /\ \A T \in SUBSET Moves : T # {} => at[T] = ApplyChange(at[T \ {Max(T)}], A[k], Max(T), d)
  BY <1>2 DEF ChangesTold, ChangesTrace, AllLed, ChangesOf, Leads, Sound
<1> DEFINE H == {T \in SUBSET Moves : Alike(it[T], at[T])}
<1>7. ASSUME NEW T \in SUBSET Moves, T # {}, T \ {Max(T)} \in H PROVE T \in H
  <2> DEFINE rest == T \ {Max(T)}
             m == Max(T)
             u == it[rest]
             v == at[rest]
  <2>1. m \in Moves /\ rest \in SUBSET Moves /\ Alike(u, v)
    BY <1>5, <1>7
  <2>2. u.accounts = s.accounts /\ v.accounts = t.accounts
    BY <1>3, <1>4, <2>1 DEF OnlyTransactions
  <2>3. it[T] = ApplyChange(u, A[k], m, b) /\ at[T] = ApplyChange(v, A[k], m, d)
    BY <1>5, <1>6, <1>7
  <2>4. /\ u \in StoreUpTo(now, Len(A)) /\ v \in StoreUpTo(now, Len(A))
        /\ LedgerRead(u, A, E) /\ LedgerRead(v, A, E)
    BY <1>3, <1>4, <1>5, <1>6, <2>1
  <2> HIDE DEF u, v, m, rest, E
  <2>5. Table(u, A) /\ RowsRead(u, A, E)
    BY <2>2, SameAccountsRead DEF E
  <2>6. Table(v, A) /\ RowsRead(v, A, E)
    BY <2>2, SameAccountsRead DEF E
  <2>7. SameRows(u, v, A)
    BY <2>2 DEF SameRows
  <2>8. Alike(ApplyChange(u, A[k], m, b), ApplyChange(v, A[k], m, d))
    BY <2>1, <2>4, <2>5, <2>6, <2>7, OneChangeAgrees DEF E
  <2> QED
    BY <2>3, <2>8
<1>8. Moves \in H
  <2>1. {} \in H
    BY <1>5, <1>6
  <2>2. \A T \in SUBSET Moves : T # {} => \E x \in T : T \ {x} \in H => T \in H
    BY <1>5, <1>7
  <2>3. IsFiniteSet(Moves)
    BY RealAssumption, FS_Subset
  <2> HIDE DEF H
  <2>4. \A T \in SUBSET Moves : T \in H
    BY <2>1, <2>2, <2>3, SubsetInduction
  <2> QED
    BY <2>4
<1>9. \A m \in Moves : Written(A[k], m) => Found(s, A[k], m) = Found(t, A[k], m)
  <2> SUFFICES ASSUME NEW m \in Moves, Written(A[k], m) PROVE AccountId(s, A[k], m) = AccountId(t, A[k], m)
    BY DEF Found
  <2>1. m \in Used(A[k]) /\ m \in Real
    BY RealAssumption DEF Used, Written
  <2>2. PICK e \in Entries(A, k) : e[2] = m /\ A[e[1]].item = A[k].item
    BY <2>1, UsedHasEntry
  <2>3. s \in StoreUpTo(now, Len(A)) /\ t \in StoreUpTo(now, Len(A))
    BY DEF Sound
  <2> QED
    BY <2>2, <2>3, SameAnswer
<1>10. it[Moves].ok => at[Moves].ok
  BY <1>3, <1>4, <1>9
<1> QED
  BY <1>5, <1>6, <1>8, <1>10

\* How a derive goes on from the accounts it lists.
Ends(s, A, k, now, seen, in, b) ==
    LET body == A[k]
        u == DeriveAccountEntries(s, body, b)
        w == UpsertSecurity(u, body, b)
        t == Derive(s, body, b)
    IN /\ body.says.kind \in {"accounts", "page", "holdings"} /\ Sound(u, A, now, seen, in)
       /\ body.says.kind = "accounts" => OnlyRoster(u, t)
       /\ body.says.kind = "page" => OnlyProgress(ChangesOf(u, body, b), t)
       /\ body.says.kind = "holdings" =>
            Sound(w, A, now, seen, in) /\ OnlySecurity(u, w) /\ t = PositionsOf(w, body, b)

LEMMA DeriveEnds ==
    ASSUME NEW now \in Nat, NEW A \in Archives(now), NEW k \in DOMAIN A,
           NEW seen, k \in seen, NEW in \in SUBSET DOMAIN A, NEW b \in {1, 2},
           NEW s, Sound(s, A, now, seen, in)
    PROVE  Ends(s, A, k, now, seen, in, b)
<1> DEFINE body == A[k]
           u == DeriveAccountEntries(s, body, b)
           v == ChangesOf(u, body, b)
           w == UpsertSecurity(u, body, b)
           t == Derive(s, body, b)
<1>1. /\ body.says.kind \in {"accounts", "page", "holdings"} /\ Sound(u, A, now, seen, in)
      /\ body.says.kind = "accounts" => OnlyRoster(u, t) /\ RosterMoves(u, t, body)
      /\ body.says.kind = "page" =>
           Sound(v, A, now, seen, in) /\ OnlyProgress(v, t) /\ ProgressMoves(v, t, body)
      /\ body.says.kind = "holdings" =>
           Sound(w, A, now, seen, in) /\ OnlySecurity(u, w) /\ t = PositionsOf(w, body, b)
  BY DeriveIs
<1> QED
  BY <1>1 DEF Ends

\* A body taken where its rows are being made is taken where they all are.
LEMMA DeriveAgree ==
    ASSUME NEW now \in Nat, NEW A \in Archives(now), Plain(A), NEW k \in DOMAIN A,
           NEW seen, k \in seen, NEW in \in SUBSET DOMAIN A, NEW b \in {1, 2}, NEW d \in {1, 2},
           NEW s, Sound(s, A, now, seen, in), Table(s, A), Read(s, A, k - 1),
           Derive(s, A[k], b).ok,
           NEW t, Sound(t, A, now, seen, in), Table(t, A), Read(t, A, k - 1), t.ok,
           SameRows(Derive(s, A[k], b), t, A), Alike(s, t)
    PROVE  Derive(t, A[k], d).ok /\ Alike(Derive(s, A[k], b), Derive(t, A[k], d))
<1> DEFINE body == A[k]
           u == DeriveAccountEntries(s, body, b)
           v == DeriveAccountEntries(t, body, d)
           x == Derive(s, body, b)
           y == Derive(t, body, d)
           E == Entries(A, k)
<1>1. Ends(s, A, k, now, seen, in, b)
  BY DeriveEnds
<1>2. Ends(t, A, k, now, seen, in, d)
  BY DeriveEnds
<1>3. x.accounts = u.accounts /\ s.ok /\ Aside(s, u) /\ Table(u, A)
  BY DeriveKeepsRows
<1>4. Aside(t, v) /\ Table(v, A) /\ SameRows(t, v, A)
  BY DeriveKeepsRows
<1>5. RowsRead(u, A, E) /\ LedgerRead(u, A, E)
  BY AfterEntries
<1>6. RowsRead(v, A, E) /\ LedgerRead(v, A, E)
  BY AfterEntries
<1>7. SameRows(u, v, A)
  <2>1. SameRows(x, v, A)
    BY <1>4, SameRowsOn
  <2> HIDE DEF x, u, v
  <2> QED
    BY <1>3, <2>1 DEF SameRows
<1>8. /\ Alike(u, v) /\ u.ok /\ v.ok
  BY <1>3, <1>4 DEF Aside, Alike
<1> HIDE DEF u, v, x, y, E
<1>9. CASE body.says.kind = "accounts"
  BY <1>1, <1>2, <1>8, <1>9 DEF Ends, OnlyRoster, Alike, x, y, u, v, body
<1>10. CASE body.says.kind = "page"
  <2> DEFINE p == ChangesOf(u, A[k], b)
             q == ChangesOf(v, A[k], d)
  <2>1. Alike(p, q) /\ (p.ok => q.ok)
    <3>1. RowsRead(u, A, Entries(A, k)) /\ LedgerRead(u, A, Entries(A, k))
      BY <1>5 DEF E
    <3>2. RowsRead(v, A, Entries(A, k)) /\ LedgerRead(v, A, Entries(A, k))
      BY <1>6 DEF E
    <3>3. A[k].says.kind = "page"
      BY <1>10
    <3>4. Sound(u, A, now, seen, in) /\ Sound(v, A, now, seen, in)
      BY <1>1, <1>2 DEF Ends, u, v
    <3> QED
      BY <1>3, <1>4, <1>7, <1>8, <3>1, <3>2, <3>3, <3>4, ChangesAgree
  <2>2. OnlyProgress(p, x) /\ OnlyProgress(q, y)
    BY <1>1, <1>2, <1>10 DEF Ends, x, y, u, v
  <2> HIDE DEF p, q
  <2> QED
    BY <2>1, <2>2 DEF OnlyProgress, Alike, x, y, body
<1>11. CASE body.says.kind = "holdings"
  <2> DEFINE p == UpsertSecurity(u, A[k], b)
             q == UpsertSecurity(v, A[k], d)
             S == A[k].says.positions
  <2>1. /\ Sound(p, A, now, seen, in) /\ OnlySecurity(u, p) /\ x = PositionsOf(p, A[k], b)
        /\ Sound(q, A, now, seen, in) /\ OnlySecurity(v, q) /\ y = PositionsOf(q, A[k], d)
    BY <1>1, <1>2, <1>11 DEF Ends, x, y, u, v
  <2> HIDE DEF p, q
  <2>2. Table(p, A) /\ Table(q, A)
    BY <1>3, <1>4, <2>1, SameAccountsRead DEF OnlySecurity
  <2>3. OnlyOffers(p, x) /\ (x.ok <=> p.ok /\ \A r \in S : Found(p, A[k], r))
    BY <2>1, <2>2, PositionsRead
  <2>4. OnlyOffers(q, y) /\ (y.ok <=> q.ok /\ \A r \in S : Found(q, A[k], r))
    BY <2>1, <2>2, PositionsRead
  <2>5. ASSUME NEW r \in S PROVE Found(p, A[k], r) <=> Found(q, A[k], r)
    <3>1. r \in Used(A[k]) /\ r \in Real
      BY <1>11, <2>5, BodyIs DEF Used
    <3>2. PICK e \in Entries(A, k) : e[2] = r /\ A[e[1]].item = A[k].item
      BY <3>1, UsedHasEntry
    <3>3. u \in StoreUpTo(now, Len(A)) /\ v \in StoreUpTo(now, Len(A))
      BY <1>1, <1>2 DEF Ends, Sound, u, v
    <3>4. RowsRead(u, A, Entries(A, k)) /\ RowsRead(v, A, Entries(A, k))
      BY <1>5, <1>6 DEF E
    <3>5. AccountId(u, A[k], r) = AccountId(v, A[k], r)
      BY <1>3, <1>4, <1>7, <3>2, <3>3, <3>4, SameAnswer
    <3>6. AccountId(p, A[k], r) = AccountId(u, A[k], r) /\ AccountId(q, A[k], r) = AccountId(v, A[k], r)
      BY <2>1, SameAccountsRead DEF OnlySecurity
    <3> QED
      BY <3>5, <3>6 DEF Found
  <2>6. x.ok /\ q.ok
    BY <1>8, <2>1 DEF OnlySecurity, x, body
  <2>7. y.ok
    BY <2>3, <2>4, <2>5, <2>6
  <2>8. Alike(x, y)
    BY <1>8, <2>1, <2>3, <2>4 DEF OnlySecurity, OnlyOffers, Alike
  <2> QED
    BY <2>7, <2>8 DEF x, y, body
<1> QED
  BY <1>1, <1>9, <1>10, <1>11 DEF Ends

-----------------------------------------------------------------------------
(* Bodies derived one after another *)

\* Induction up to a bound.
LEMMA UpTo ==
    ASSUME NEW n \in Nat, NEW H, 0 \in H, \A j \in 1 .. n : j - 1 \in H => j \in H
    PROVE  \A j \in 0 .. n : j \in H
<1> DEFINE Failing == {j \in 0 .. n : j \notin H}
<1> SUFFICES ASSUME Failing # {} PROVE FALSE
  OBVIOUS
<1>1. Failing \in SUBSET Nat
  OBVIOUS
<1>2. PICK j \in Failing : \A i \in Failing : j <= i
  <2> HIDE DEF Failing
  <2> QED
    BY <1>1, LeastOf
<1>3. j \in 1 .. n /\ j - 1 \notin H
  BY <1>2
<1>4. j - 1 \in Failing /\ ~ (j <= j - 1)
  BY <1>3
<1> QED
  BY <1>2, <1>4

\* G[j] is what j bodies made of G[0].
Chain(G, A, n, b) == \A j \in 1 .. n : G[j] = Derive(G[j - 1], A[j], b)

\* A store that may hold rows already, and nothing that came from a body.
Start(s, A, now) ==
    Sound(s, A, now, DOMAIN A, {}) /\ Table(s, A) /\ s.ledger = <<>> /\ s.offers = {}

LEMMA StartReads ==
    ASSUME NEW now \in Nat, NEW A \in Archives(now), NEW s, Start(s, A, now)
    PROVE  Read(s, A, 0)
<1>1. /\ Entries(A, 0) = {} /\ Stated(A, 0) = {} /\ 1 .. 0 = {}
      /\ s.ledger = <<>> /\ s.offers = {}
  BY DEF Entries, Stated, Start
<1>2. DOMAIN s.ledger = {}
  BY <1>1
<1> QED
  BY <1>1, <1>2 DEF Read, RowsRead, OffersRead, LedgerRead, AsideRead, Latest

\* What a derive in a chain keeps.
LEMMA LinkKeeps ==
    ASSUME NEW now \in Nat, NEW A \in Archives(now), Plain(A), NEW k \in DOMAIN A,
           NEW b \in {1, 2}, NEW s, Sound(s, A, now, DOMAIN A, {}), Table(s, A)
    PROVE  LET t == Derive(s, A[k], b) IN
           /\ Sound(t, A, now, DOMAIN A, {}) /\ Table(t, A) /\ SameRows(s, t, A)
           /\ t.ok => s.ok
<1> DEFINE t == Derive(s, A[k], b)
<1>1. {} \in SUBSET DOMAIN A
  OBVIOUS
<1>2. Sound(t, A, now, DOMAIN A, {k})
  <2>1. Derives(s, t, A, now, DOMAIN A, {}, b, k)
    BY <1>1, DeriveKeeps
  <2> HIDE DEF t
  <2>2. Sound(t, A, now, DOMAIN A, {} \cup {k})
    BY <2>1 DEF Derives
  <2> QED
    BY <2>2
<1>3. Sound(t, A, now, DOMAIN A, {})
  <2> HIDE DEF t
  <2>1. /\ Len(A) <= Len(A) /\ \A j \in DOMAIN A : A[j] = A[j]
        /\ DOMAIN A \in SUBSET DOMAIN A /\ {k} \in SUBSET DOMAIN A /\ {} \in SUBSET {k}
        /\ now <= now
    BY LengthsAre
  <2> QED
    BY <1>2, <2>1, SoundLater
<1>4. Table(t, A) /\ SameRows(s, t, A) /\ (t.ok => s.ok)
  BY <1>1, DeriveKeepsRows
<1> QED
  BY <1>3, <1>4

\* What every store of a chain reads, and keeps of the rows before it.
LEMMA ChainKeeps ==
    ASSUME NEW now \in Nat, NEW A \in Archives(now), Plain(A), NEW n \in 0 .. Len(A),
           NEW b \in {1, 2}, NEW G, Start(G[0], A, now), Chain(G, A, n, b)
    PROVE  \A j \in 0 .. n :
             /\ Sound(G[j], A, now, DOMAIN A, {}) /\ Table(G[j], A)
             /\ \A i \in 0 .. j : SameRows(G[i], G[j], A) /\ (G[j].ok => G[i].ok)
             /\ G[j].ok => Read(G[j], A, j)
<1> DEFINE Fine(j) ==
             /\ Sound(G[j], A, now, DOMAIN A, {}) /\ Table(G[j], A)
             /\ \A i \in 0 .. j : SameRows(G[i], G[j], A) /\ (G[j].ok => G[i].ok)
             /\ G[j].ok => Read(G[j], A, j)
           H == {j \in 0 .. n : Fine(j)}
<1>0. n \in Nat /\ Len(A) \in Nat /\ DOMAIN A = 1 .. Len(A)
  BY LengthsAre
<1>1. 0 \in H
  <2>1. Sound(G[0], A, now, DOMAIN A, {}) /\ Table(G[0], A) /\ Read(G[0], A, 0)
    BY StartReads DEF Start
  <2>2. SameRows(G[0], G[0], A)
    BY DEF SameRows
  <2>3. 0 .. 0 = {0} /\ 0 \in 0 .. n
    BY <1>0
  <2> QED
    BY <2>1, <2>2, <2>3
<1>2. ASSUME NEW j \in 1 .. n, j - 1 \in H PROVE j \in H
  <2> DEFINE s == G[j - 1]
             t == G[j]
  <2>1. j \in DOMAIN A /\ j \in 0 .. n /\ j \in Nat
    BY <1>0
  <2>2. t = Derive(s, A[j], b)
    BY <1>2 DEF Chain
  <2>3. /\ Sound(s, A, now, DOMAIN A, {}) /\ Table(s, A) /\ (s.ok => Read(s, A, j - 1))
        /\ \A i \in 0 .. j - 1 : SameRows(G[i], s, A) /\ (s.ok => G[i].ok)
    BY <1>2
  <2> HIDE DEF s, t
  <2>4. /\ Sound(t, A, now, DOMAIN A, {}) /\ Table(t, A) /\ SameRows(s, t, A) /\ (t.ok => s.ok)
    BY <2>1, <2>2, <2>3, LinkKeeps
  <2>5. t.ok => Read(t, A, j)
    <3> SUFFICES ASSUME t.ok PROVE Read(t, A, j)
      OBVIOUS
    <3>1. Read(s, A, j - 1) /\ Derive(s, A[j], b).ok
      BY <2>2, <2>3, <2>4
    <3>2. j \in DOMAIN A /\ {} \in SUBSET DOMAIN A
      BY <2>1
    <3>3. Read(Derive(s, A[j], b), A, j)
      BY <2>3, <3>1, <3>2, DeriveReads
    <3> QED
      BY <2>2, <3>3
  <2>6. ASSUME NEW i \in 0 .. j PROVE SameRows(G[i], t, A) /\ (t.ok => G[i].ok)
    <3>1. CASE i = j
      BY <3>1 DEF SameRows, t
    <3>2. CASE i \in 0 .. j - 1
      <4>1. SameRows(G[i], s, A) /\ (s.ok => G[i].ok)
        BY <2>3, <3>2
      <4>2. SameRows(G[i], t, A)
        BY <2>4, <4>1, SameRowsOn
      <4> QED
        BY <2>4, <4>1, <4>2
    <3> QED
      BY <2>1, <3>1, <3>2
  <2> QED
    BY <2>1, <2>4, <2>5, <2>6 DEF t
<1> HIDE DEF H
<1>3. \A j \in 0 .. n : j \in H
  BY <1>0, <1>1, <1>2, UpTo
<1> QED
  BY <1>3 DEF H

\* Bodies taken while the rows were being made are taken again, and make the
\* same transactions, where the rows they made are there from the start.
LEMMA ChainsAgree ==
    ASSUME NEW now \in Nat, NEW A \in Archives(now), Plain(A), NEW n \in 0 .. Len(A),
           NEW b \in {1, 2}, NEW G, Start(G[0], A, now), Chain(G, A, n, b), G[n].ok,
           NEW d \in {1, 2}, NEW K, Start(K[0], A, now), Chain(K, A, n, d), K[0].ok,
           SameRows(G[n], K[0], A)
    PROVE  K[n].ok /\ Alike(G[n], K[n])
<1>0. n \in Nat /\ Len(A) \in Nat /\ DOMAIN A = 1 .. Len(A)
  BY LengthsAre
<1>1. \A j \in 0 .. n :
        /\ Sound(G[j], A, now, DOMAIN A, {}) /\ Table(G[j], A)
        /\ \A i \in 0 .. j : SameRows(G[i], G[j], A) /\ (G[j].ok => G[i].ok)
        /\ G[j].ok => Read(G[j], A, j)
  BY ChainKeeps
<1>2. \A j \in 0 .. n :
        /\ Sound(K[j], A, now, DOMAIN A, {}) /\ Table(K[j], A)
        /\ \A i \in 0 .. j : SameRows(K[i], K[j], A) /\ (K[j].ok => K[i].ok)
        /\ K[j].ok => Read(K[j], A, j)
  BY ChainKeeps
<1> DEFINE H == {j \in 0 .. n : K[j].ok /\ Alike(G[j], K[j])}
<1>3. 0 \in H
  BY <1>0 DEF Start, Alike
<1>4. ASSUME NEW j \in 1 .. n, j - 1 \in H PROVE j \in H
  <2> DEFINE s == G[j - 1]
             t == K[j - 1]
  <2>1. j \in DOMAIN A /\ j \in 0 .. n /\ j - 1 \in 0 .. n /\ j \in 0 .. n /\ n \in 0 .. n
        /\ 0 \in 0 .. j - 1
    BY <1>0
  <2>2. G[j] = Derive(s, A[j], b) /\ K[j] = Derive(t, A[j], d)
    BY <1>4 DEF Chain
  <2>3. G[j].ok /\ SameRows(G[j], G[n], A) /\ s.ok
    BY <1>1, <2>1
  <2>4. Sound(s, A, now, DOMAIN A, {}) /\ Table(s, A) /\ Read(s, A, j - 1)
    BY <1>1, <2>1, <2>3
  <2>5. t.ok /\ Alike(s, t)
    BY <1>4
  <2>6. Sound(t, A, now, DOMAIN A, {}) /\ Table(t, A) /\ Read(t, A, j - 1) /\ SameRows(K[0], t, A)
    BY <1>2, <2>1, <2>5
  <2> HIDE DEF s, t, H
  <2>7. SameRows(Derive(s, A[j], b), t, A)
    <3>1. SameRows(G[j], K[0], A)
      BY <2>3, SameRowsOn
    <3>2. SameRows(G[j], t, A)
      BY <2>6, <3>1, SameRowsOn
    <3> QED
      BY <2>2, <3>2
  <2>8. Derive(t, A[j], d).ok /\ Alike(Derive(s, A[j], b), Derive(t, A[j], d))
    <3>1. j \in DOMAIN A /\ {} \in SUBSET DOMAIN A /\ Derive(s, A[j], b).ok
      BY <2>1, <2>2, <2>3
    <3> QED
      BY <2>4, <2>5, <2>6, <2>7, <3>1, DeriveAgree
  <2> QED
    BY <2>1, <2>2, <2>8 DEF H
<1> HIDE DEF H
<1>5. \A j \in 0 .. n : j \in H
  BY <1>0, <1>3, <1>4, UpTo
<1> QED
  BY <1>0, <1>5 DEF H

-----------------------------------------------------------------------------
(* Later archives, and marks on the tables *)

\* An entry of the first bodies has the row it had.
LEMMA EntryLater ==
    ASSUME NEW now \in Nat, NEW A \in Archives(now), NEW now2 \in Nat, NEW B \in Archives(now2),
           Continues(B, A), Plain(B), NEW s, Table(s, A),
           NEW e \in Entries(A, Len(A)) \cup Stated(A, Len(A))
    PROVE  /\ e[1] \in DOMAIN A /\ B[e[1]] = A[e[1]]
           /\ \A i : RowOfEntry(s, A, e, i) <=> RowOfEntry(s, B, e, i)
<1>1. /\ e \in (1 .. Len(A)) \X Real /\ e[1] \in DOMAIN A /\ e[2] \in Real
      /\ \/ e[2] \in A[e[1]].says.listed
         \/ A[e[1]].says.kind = "holdings" /\ e[2] \in A[e[1]].says.positions
  BY LengthsAre DEF Entries, Stated
<1>2. B[e[1]] = A[e[1]]
  BY <1>1 DEF Continues
<1>3. PICK j \in DOMAIN A : A[j].item = A[e[1]].item /\ e[2] \in A[j].says.listed
  <2>1. CASE e[2] \in A[e[1]].says.listed
    BY <1>1, <2>1
  <2>2. CASE A[e[1]].says.kind = "holdings" /\ e[2] \in A[e[1]].says.positions
    <3>1. UsedAreListed(A)
      BY PlainBefore DEF Plain
    <3>2. e[2] \in Used(A[e[1]])
      BY <2>2 DEF Used
    <3>3. PICK j \in 1 .. e[1] : A[j].item = A[e[1]].item /\ e[2] \in A[j].says.listed
      BY <1>1, <3>1, <3>2 DEF UsedAreListed
    <3>4. j \in DOMAIN A
      BY <1>1, LengthsAre
    <3> QED
      BY <3>3, <3>4
  <2> QED
    BY <1>1, <2>1, <2>2
<1>4. \A i : IsRow(s, A, A[j].item, e[2], i) <=> IsRow(s, B, B[j].item, e[2], i)
  BY <1>3, IsRowLater
<1>5. B[j].item = B[e[1]].item
  BY <1>2, <1>3 DEF Continues
<1> QED
  BY <1>1, <1>2, <1>3, <1>4, <1>5 DEF RowOfEntry

\* What was read of an archive is read of its continuation.
LEMMA ReadLater ==
    ASSUME NEW now \in Nat, NEW A \in Archives(now), NEW now2 \in Nat, NEW B \in Archives(now2),
           Continues(B, A), Plain(B), NEW s, Table(s, A), Read(s, A, Len(A))
    PROVE  Read(s, B, Len(A))
<1> DEFINE n == Len(A)
           E == Entries(A, n)
           P == Stated(A, n)
<1>1. \A e \in E \cup P : /\ e[1] \in DOMAIN A /\ B[e[1]] = A[e[1]]
                          /\ \A i : RowOfEntry(s, A, e, i) <=> RowOfEntry(s, B, e, i)
  BY EntryLater
<1>2. /\ Entries(B, n) = E /\ Stated(B, n) = P /\ \A j \in 1 .. n : B[j] = A[j]
  <2>1. \A j \in 1 .. n : B[j] = A[j]
    BY LengthsAre DEF Continues
  <2>2. \A e \in (1 .. n) \X Real : B[e[1]] = A[e[1]]
    BY <2>1
  <2> QED
    BY <2>1, <2>2 DEF Entries, Stated
<1>3. RowsRead(s, A, E) /\ OffersRead(s, A, E, P) /\ LedgerRead(s, A, E) /\ AsideRead(s, A, n)
  BY DEF Read
<1> HIDE DEF E, P
<1>4. RowsRead(s, B, E)
  <2>1. \A e \in E : Covers(s, B, e)
    BY <1>1, <1>3 DEF RowsRead, Covers
  <2>2. \A i : \A e \in E : Latest(s, B, E, i, e) => Latest(s, A, E, i, e)
    BY <1>1 DEF Latest
  <2> QED
    BY <1>1, <1>3, <2>1, <2>2 DEF RowsRead
<1>5. OffersRead(s, B, E, P)
  <2>1. \A e \in E : \A o : BalanceOf(s, A, e, o) <=> BalanceOf(s, B, e, o)
    BY <1>1 DEF BalanceOf
  <2>2. \A e \in P : \A o : PositionOf(s, A, e, o) <=> PositionOf(s, B, e, o)
    BY <1>1 DEF PositionOf
  <2> QED
    BY <1>3, <2>1, <2>2 DEF OffersRead
<1>6. LedgerRead(s, B, E)
  BY <1>1, <1>3 DEF LedgerRead
<1>7. AsideRead(s, B, n)
  BY <1>2, <1>3 DEF AsideRead
<1> QED
  BY <1>2, <1>4, <1>5, <1>6, <1>7 DEF Read

\* The state an account was retired with, the progress of a connection, the
\* pair and the override of a transaction.
SameRow(a, b) ==
    /\ b.conn = a.conn /\ b.source = a.source /\ b.persistent = a.persistent
    /\ b.first = a.first /\ b.last = a.last /\ b.touched = a.touched

OnlyMarks(s, t) ==
    /\ DOMAIN t.accounts = DOMAIN s.accounts
    /\ \A i \in DOMAIN s.accounts : SameRow(s.accounts[i], t.accounts[i])
    /\ Alike(s, t) /\ t.offers = s.offers /\ t.roster = s.roster /\ t.security = s.security

\* Marks change nothing that is read.
LEMMA MarksRead ==
    ASSUME NEW A, NEW s, NEW t, OnlyMarks(s, t)
    PROVE  /\ SameRows(s, t, A) /\ SameRows(t, s, A)
           /\ Table(s, A) => Table(t, A)
           /\ \A n : Read(s, A, n) => Read(t, A, n)
<1>1. /\ DOMAIN t.accounts = DOMAIN s.accounts
      /\ \A i \in DOMAIN s.accounts : SameRow(s.accounts[i], t.accounts[i])
  BY DEF OnlyMarks
<1>2. SameRows(s, t, A) /\ SameRows(t, s, A)
  BY <1>1 DEF SameRows, SameRow
<1>3. ASSUME Table(s, A) PROVE Table(t, A)
  <2>1. \A i \in DOMAIN t.accounts : RowStands(t, A, i)
    BY <1>1, <1>3 DEF Table, RowStands, SameRow
  <2>2. \A i, j \in DOMAIN t.accounts : i # j => Apart(t, A, i, j)
    BY <1>1, <1>3 DEF Table, Apart, SameRow
  <2> QED
    BY <2>1, <2>2 DEF Table
<1>4. \A e, i : RowOfEntry(s, A, e, i) <=> RowOfEntry(t, A, e, i)
  BY <1>1 DEF RowOfEntry, IsRow, SameRow
<1>5. ASSUME NEW n, Read(s, A, n) PROVE Read(t, A, n)
  <2> DEFINE E == Entries(A, n)
             P == Stated(A, n)
  <2>1. RowsRead(s, A, E) /\ OffersRead(s, A, E, P) /\ LedgerRead(s, A, E) /\ AsideRead(s, A, n)
    BY <1>5 DEF Read
  <2> HIDE DEF E, P
  <2>2. RowsRead(t, A, E)
    <3>1. \A e \in E : Covers(t, A, e)
      BY <1>1, <1>4, <2>1 DEF RowsRead, Covers, SameRow
    <3>2. \A i : \A e \in E : Latest(t, A, E, i, e) => Latest(s, A, E, i, e)
      BY <1>4 DEF Latest
    <3> QED
      BY <1>1, <2>1, <3>1, <3>2 DEF RowsRead, AsListed, SameRow
  <2>3. OffersRead(t, A, E, P)
    <3>1. \A e, o : /\ BalanceOf(s, A, e, o) <=> BalanceOf(t, A, e, o)
                    /\ PositionOf(s, A, e, o) <=> PositionOf(t, A, e, o)
      BY <1>1, <1>4 DEF BalanceOf, PositionOf
    <3> QED
      BY <2>1, <3>1 DEF OffersRead, OnlyMarks
  <2>4. LedgerRead(t, A, E)
    BY <1>4, <2>1 DEF LedgerRead, OnlyMarks, Alike, SameEntry
  <2>5. AsideRead(t, A, n)
    BY <2>1 DEF AsideRead, OnlyMarks
  <2> QED
    BY <2>2, <2>3, <2>4, <2>5 DEF Read, E, P
<1> QED
  BY <1>2, <1>3, <1>5

-----------------------------------------------------------------------------
(* A replay takes bodies that were persisted as they were fetched in order *)

\* By instant is the order of persistence.
LEMMA LastInOrder ==
    ASSUME clock \in Nat, archive \in Archives(clock), InOrder(archive), NEW k \in DOMAIN archive
    PROVE  LastOf(1 .. k) = k /\ 1 .. k \in SUBSET DOMAIN archive /\ (1 .. k) \ {k} = 1 .. k - 1
<1>1. Len(archive) \in Nat /\ DOMAIN archive = 1 .. Len(archive) /\ k \in 1 .. Len(archive)
  BY LengthsAre
<1>2. 1 .. k \in SUBSET DOMAIN archive /\ k \in 1 .. k /\ (1 .. k) \ {k} = 1 .. k - 1
  BY <1>1
<1>3. \A j \in 1 .. k : /\ archive[j].at \in Nat /\ archive[j].raw = j /\ j \in Nat /\ j <= k
                        /\ archive[j].at <= archive[k].at
  <2>1. \A j \in DOMAIN archive : archive[j].at \in Nat /\ archive[j].raw = j /\ j \in Nat
    BY BodyIs
  <2>2. \A j \in 1 .. k : j \in DOMAIN archive /\ j <= k
    BY <1>1
  <2> QED
    BY <2>1, <2>2 DEF InOrder
<1>4. \A j \in 1 .. k : NotAfter(archive[j], archive[k])
  BY <1>2, <1>3 DEF NotAfter
<1>5. \A i \in 1 .. k : (\A j \in 1 .. k : NotAfter(archive[j], archive[i])) => i = k
  BY <1>2, <1>3 DEF NotAfter
<1> QED
  BY <1>2, <1>4, <1>5 DEF LastOf

\* The replay is a derive of each body, in the order of the archive.
LEMMA ReplayIsChain ==
    ASSUME clock \in Nat, archive \in Archives(clock), build \in {1, 2},
           NEW s, Sound(s, archive, clock, derived, derived), derived \subseteq DOMAIN archive,
           InOrder(archive)
    PROVE  \E G : /\ G[0] = Cleared(s) /\ Chain(G, archive, Len(archive), build)
                  /\ Rederived(s) = G[Len(archive)]
<1>1. PICK it : ReplayTrace(it, s)
  BY ReplayRun
<1> DEFINE n == Len(archive)
           G == [j \in 0 .. n |-> it[1 .. j]]
<1>2. n \in Nat /\ DOMAIN archive = 1 .. n
  BY LengthsAre
<1>3. G[0] = Cleared(s) /\ G[n] = Rederived(s)
  <2>1. 1 .. 0 = {} /\ 0 \in 0 .. n /\ n \in 0 .. n
    BY <1>2
  <2> QED
    BY <1>1, <1>2, <2>1 DEF ReplayTrace
<1>4. ASSUME NEW j \in 1 .. n PROVE G[j] = Derive(G[j - 1], archive[j], build)
  <2>1. /\ j \in 0 .. n /\ j - 1 \in 0 .. n /\ j \in DOMAIN archive /\ j \in 1 .. j
    <3>1. j \in Nat /\ 1 <= j /\ j <= n
      BY <1>2
    <3> QED
      BY <1>2, <3>1
  <2>2. LastOf(1 .. j) = j /\ 1 .. j \in SUBSET DOMAIN archive /\ (1 .. j) \ {j} = 1 .. j - 1
    BY <2>1, LastInOrder
  <2>3. it[1 .. j] = Derive(it[(1 .. j) \ {LastOf(1 .. j)}], archive[LastOf(1 .. j)], build)
    BY <1>1, <2>1, <2>2 DEF ReplayTrace
  <2>4. it[1 .. j] = Derive(it[1 .. j - 1], archive[j], build)
    BY <2>2, <2>3
  <2> QED
    BY <2>1, <2>4
<1> HIDE DEF G
<1> QED
  BY <1>3, <1>4 DEF Chain

-----------------------------------------------------------------------------
(* What every reachable store knows of an archive without a reason *)

\* Who an Item belongs to: what was archived, fetched or enrolled with it.
ItemUses ==
    {<<archive[k].item, archive[k].conn>> : k \in DOMAIN archive}
        \cup {<<inflight[p].item, inflight[p].conn>> : p \in {q \in Procs : inflight[q] # NoReply}}
        \cup {<<conns[c].item, c>> : c \in Live}

\* An Item is of one connection.
ItemsOnce ==
    /\ \A u \in ItemUses : u[1] \in 1 .. items
    /\ \A u, v \in ItemUses : u[1] = v[1] => u[2] = v[2]

\* The bodies of A, taken again into the rows that s has of them, are all
\* taken, and make the transactions that s has.
Repeats(s, A, now) ==
    \A later \in Nat : \A B \in Archives(later) : \A b \in {1, 2} : \A G :
        /\ now <= later /\ Continues(B, A) /\ Plain(B)
        /\ Start(G[0], B, later) /\ G[0].ok /\ Chain(G, B, Len(A), b) /\ SameRows(s, G[0], B)
        => G[Len(A)].ok /\ Alike(s, G[Len(A)])

Covered ==
    /\ Plain(archive) => Table(store, archive)
    /\ Plain(archive) /\ derived = DOMAIN archive =>
         Read(store, archive, Len(archive)) /\ Repeats(store, archive, clock)

Holds == store.ok /\ PairsCurrent(store) /\ Covered

RInv == IInv /\ ItemsOnce /\ Holds

-----------------------------------------------------------------------------
(* How a store keeps repeating *)

LEMMA AlikeOn ==
    ASSUME NEW s, NEW t, NEW u, Alike(s, t)
    PROVE  Alike(t, s) /\ Alike(s, s) /\ (Alike(t, u) => Alike(s, u))
BY DEF Alike, SameEntry

LEMMA MarksOn ==
    ASSUME NEW s, NEW t, NEW u, OnlyMarks(s, t), OnlyMarks(t, u)
    PROVE  OnlyMarks(s, u)
BY DEF OnlyMarks, SameRow, Alike, SameEntry

\* The ledger alone, row by row.
LEMMA LedgerMarks ==
    ASSUME NEW s, NEW t, OnlyLedger(s, t), Alike(s, t)
    PROVE  OnlyMarks(s, t)
BY DEF OnlyMarks, OnlyLedger, SameRow

\* What pairing leaves of a transaction, and what it writes.
LEMMA PairedIs ==
    ASSUME NEW now, NEW n, NEW s \in StoreUpTo(now, n)
    PROVE  LET t == PairedStore(s) IN
           /\ OnlyLedger(s, t) /\ Alike(s, t) /\ Legs(t) = Legs(s)
           /\ \A k \in DOMAIN s.ledger :
                /\ t.ledger[k].build = s.ledger[k].build
                /\ t.ledger[k].override = s.ledger[k].override
                /\ t.ledger[k].pair = IF s.ledger[k].pairable THEN PairId(k, PairTransfers(Legs(s)))
                                      ELSE s.ledger[k].pair
<1> DEFINE pairs == PairTransfers(Legs(s))
           row(k) == IF s.ledger[k].pairable THEN [s.ledger[k] EXCEPT !.pair = PairId(k, pairs)]
                     ELSE s.ledger[k]
           t == PairedStore(s)
<1>1. t = [s EXCEPT !.ledger = [k \in DOMAIN s.ledger |-> row(k)]]
  BY DEF PairedStore, StoreUpTo
<1> HIDE DEF pairs
<1>2. ASSUME NEW k \in DOMAIN s.ledger
      PROVE  /\ SameEntry(s.ledger[k], row(k)) /\ row(k).build = s.ledger[k].build
             /\ row(k).override = s.ledger[k].override
             /\ row(k).pair = IF s.ledger[k].pairable THEN PairId(k, pairs) ELSE s.ledger[k].pair
  <2>1. s.ledger[k] \in LedgerRowUpTo(n)
    BY DEF StoreUpTo
  <2> QED
    BY <2>1 DEF SameEntry, LedgerRowUpTo
<1> HIDE DEF row, t
<1>3. OnlyLedger(s, t) /\ t.ledger = [k \in DOMAIN s.ledger |-> row(k)]
  BY <1>1 DEF OnlyLedger, StoreUpTo
<1>4. Alike(s, t)
  BY <1>2, <1>3 DEF Alike
<1>5. Legs(t) = Legs(s)
  BY <1>4 DEF Legs, Alike, SameEntry
<1> QED
  BY <1>2, <1>3, <1>4, <1>5 DEF t, pairs

\* What restoring the overrides leaves of a transaction, and what it writes.
LEMMA RestoredIs ==
    ASSUME NEW now, NEW n, NEW s \in StoreUpTo(now, n), NEW held
    PROVE  LET t == RestoreOperatorState(s, held) IN
           /\ OnlyLedger(s, t) /\ Alike(s, t) /\ Legs(t) = Legs(s)
           /\ \A k \in DOMAIN s.ledger :
                /\ t.ledger[k].build = s.ledger[k].build /\ t.ledger[k].pair = s.ledger[k].pair
                /\ t.ledger[k].override =
                     (<<s.ledger[k].account, s.ledger[k].source>> \in held)
<1> DEFINE row(k) == [s.ledger[k] EXCEPT
                         !.override = <<s.ledger[k].account, s.ledger[k].source>> \in held]
           t == RestoreOperatorState(s, held)
<1>1. t = [s EXCEPT !.ledger = [k \in DOMAIN s.ledger |-> row(k)]]
  BY DEF RestoreOperatorState, StoreUpTo
<1>2. ASSUME NEW k \in DOMAIN s.ledger
      PROVE  /\ SameEntry(s.ledger[k], row(k)) /\ row(k).build = s.ledger[k].build
             /\ row(k).pair = s.ledger[k].pair
             /\ row(k).override = (<<s.ledger[k].account, s.ledger[k].source>> \in held)
  <2>1. s.ledger[k] \in LedgerRowUpTo(n)
    BY DEF StoreUpTo
  <2> DEFINE marked == <<s.ledger[k].account, s.ledger[k].source>> \in held
  <2> HIDE DEF marked
  <2>2. row(k) = [s.ledger[k] EXCEPT !.override = marked]
    BY DEF marked
  <2>3. /\ SameEntry(s.ledger[k], row(k)) /\ row(k).build = s.ledger[k].build
        /\ row(k).pair = s.ledger[k].pair /\ row(k).override = marked
    <3> HIDE DEF row
    <3> QED
      BY <2>1, <2>2 DEF SameEntry, LedgerRowUpTo
  <2> QED
    BY <2>3 DEF marked
<1> HIDE DEF row, t
<1>3. OnlyLedger(s, t) /\ t.ledger = [k \in DOMAIN s.ledger |-> row(k)]
  BY <1>1 DEF OnlyLedger, StoreUpTo
<1>4. Alike(s, t)
  BY <1>2, <1>3 DEF Alike
<1>5. Legs(t) = Legs(s)
  BY <1>4 DEF Legs, Alike, SameEntry
<1> QED
  BY <1>2, <1>3, <1>4, <1>5 DEF t

\* Only the pairing writes a pair, and the legs it pairs are of the rows.
SamePairs(s, t) ==
    DOMAIN s.ledger = DOMAIN t.ledger /\ \A k \in DOMAIN s.ledger : t.ledger[k].pair = s.ledger[k].pair

LEMMA PairsStayCurrent ==
    ASSUME NEW s, NEW t, Alike(s, t), SamePairs(s, t), PairsCurrent(s)
    PROVE  PairsCurrent(t)
<1>1. Legs(t) = Legs(s)
  BY DEF Legs, Alike, SameEntry
<1> QED
  BY <1>1 DEF PairsCurrent, Alike, SameEntry, SamePairs

\* After a pass, every pairable row has the pair of that pass.
LEMMA PairingIsCurrent ==
    ASSUME NEW now, NEW n, NEW s \in StoreUpTo(now, n)
    PROVE  PairsCurrent(PairedStore(s))
<1> DEFINE t == PairedStore(s)
<1>1. /\ OnlyLedger(s, t) /\ Alike(s, t) /\ Legs(t) = Legs(s)
      /\ \A k \in DOMAIN s.ledger :
           /\ t.ledger[k].build = s.ledger[k].build
           /\ t.ledger[k].override = s.ledger[k].override
           /\ t.ledger[k].pair = IF s.ledger[k].pairable THEN PairId(k, PairTransfers(Legs(s)))
                                 ELSE s.ledger[k].pair
  BY PairedIs
<1> HIDE DEF t
<1>2. PairsCurrent(t)
  BY <1>1 DEF PairsCurrent, Alike, SameEntry
<1> QED
  BY <1>2 DEF t

\* A store with other marks repeats as well.
LEMMA RepeatsMarked ==
    ASSUME NEW s, NEW t, OnlyMarks(s, t), NEW A, NEW now \in Nat, NEW now2 \in Nat, now <= now2,
           Repeats(s, A, now)
    PROVE  Repeats(t, A, now2)
<1> SUFFICES ASSUME NEW later \in Nat, NEW B \in Archives(later), NEW b \in {1, 2}, NEW G,
                    now2 <= later, Continues(B, A), Plain(B), Start(G[0], B, later), G[0].ok,
                    Chain(G, B, Len(A), b), SameRows(t, G[0], B)
             PROVE  G[Len(A)].ok /\ Alike(t, G[Len(A)])
  BY DEF Repeats
<1>1. now <= later
  OBVIOUS
<1>2. SameRows(s, G[0], B)
  BY MarksRead, SameRowsOn
<1>3. G[Len(A)].ok /\ Alike(s, G[Len(A)])
  BY <1>1, <1>2 DEF Repeats
<1> QED
  BY <1>3, AlikeOn DEF OnlyMarks

\* What a store knows of an archive it knows of its continuation.
LEMMA LaterStore ==
    ASSUME NEW now \in Nat, NEW A \in Archives(now), NEW later \in Nat, now <= later,
           NEW B \in Archives(later), Continues(B, A), Plain(B),
           NEW seen \in SUBSET DOMAIN A, NEW in \in SUBSET DOMAIN A,
           NEW s, Sound(s, A, now, seen, in), Table(s, A)
    PROVE  /\ Sound(s, B, later, DOMAIN B, {}) /\ Table(s, B)
           /\ Read(s, A, Len(A)) => Read(s, B, Len(A))
           /\ DOMAIN A \subseteq DOMAIN B /\ Len(A) \in 0 .. Len(B)
<1>1. /\ Len(A) <= Len(B) /\ \A k \in DOMAIN A : B[k] = A[k]
      /\ Len(A) \in Nat /\ DOMAIN A = 1 .. Len(A) /\ Len(B) \in Nat /\ DOMAIN B = 1 .. Len(B)
  BY LengthsAre DEF Continues
<1>2. DOMAIN A \subseteq DOMAIN B /\ Len(A) \in 0 .. Len(B)
  BY <1>1
<1>3. seen \subseteq DOMAIN B /\ {} \in SUBSET in
  BY <1>2
<1>4. Sound(s, B, later, DOMAIN B, {})
  BY <1>1, <1>3, SoundLater
<1>5. Table(s, B) /\ (Read(s, A, Len(A)) => Read(s, B, Len(A)))
  BY TableLater, ReadLater
<1> QED
  BY <1>2, <1>4, <1>5

\* A body that arrives last and is taken would be taken again.
LEMMA RepeatsOn ==
    ASSUME NEW now \in Nat, NEW A \in Archives(now), NEW B \in Archives(now), Continues(B, A),
           Len(B) = Len(A) + 1, NEW d \in {1, 2},
           NEW seen \in SUBSET DOMAIN A, NEW in \in SUBSET DOMAIN A,
           NEW s, Sound(s, A, now, seen, in), Table(s, A), Read(s, A, Len(A)),
           Repeats(s, A, now), Derive(s, B[Len(B)], d).ok,
           NEW t, OnlyMarks(Derive(s, B[Len(B)], d), t)
    PROVE  Repeats(t, B, now)
<1> DEFINE n == Len(B)
           m == Len(A)
<1> SUFFICES ASSUME NEW later \in Nat, NEW C \in Archives(later), NEW b \in {1, 2}, NEW G,
                    now <= later, Continues(C, B), Plain(C), Start(G[0], C, later), G[0].ok,
                    Chain(G, C, n, b), SameRows(t, G[0], C)
             PROVE  G[n].ok /\ Alike(t, G[n])
  BY DEF Repeats
<1>1. /\ m \in Nat /\ n = m + 1 /\ n - 1 = m /\ DOMAIN A = 1 .. m /\ DOMAIN B = 1 .. n
      /\ Len(C) \in Nat /\ DOMAIN C = 1 .. Len(C) /\ n <= Len(C) /\ n \in DOMAIN C
      /\ m \in 0 .. Len(C) /\ n \in 1 .. n
  <2>1. m \in Nat /\ n \in Nat /\ Len(C) \in Nat /\ DOMAIN C = 1 .. Len(C)
        /\ DOMAIN A = 1 .. m /\ DOMAIN B = 1 .. n /\ n <= Len(C) /\ n = m + 1
    BY LengthsAre DEF Continues
  <2> HIDE DEF n, m
  <2>2. n - 1 = m /\ n \in 1 .. Len(C) /\ m \in 0 .. Len(C) /\ n \in 1 .. n
    BY <2>1
  <2> QED
    BY <2>1, <2>2
<1>2. Continues(C, A) /\ B[n] = C[n]
  <2>1. \A k \in DOMAIN A : k \in DOMAIN B /\ B[k] = A[k]
    BY <1>1 DEF Continues
  <2>2. \A k \in DOMAIN B : C[k] = B[k]
    BY DEF Continues
  <2>3. Len(A) <= Len(C)
    BY <1>1
  <2> QED
    BY <1>1, <2>1, <2>2, <2>3 DEF Continues
<1> DEFINE x == Derive(s, C[n], d)
           h == G[m]
<1>3. OnlyMarks(x, t) /\ x.ok
  BY <1>2
<1>4. Sound(s, C, later, DOMAIN C, {}) /\ Table(s, C) /\ Read(s, C, m)
  BY <1>2, LaterStore
<1>5. SameRows(s, x, C)
  BY <1>1, <1>4, LinkKeeps
<1>6. G[n] = Derive(h, C[n], b)
  BY <1>1 DEF Chain
<1> HIDE DEF x, n, m, h
<1>7. SameRows(x, G[0], C) /\ SameRows(s, G[0], C)
  <2>1. SameRows(x, t, C)
    BY <1>3, MarksRead
  <2>2. SameRows(x, G[0], C)
    BY <2>1, SameRowsOn
  <2> QED
    BY <1>5, <2>2, SameRowsOn
<1>8. Chain(G, C, m, b)
  <2>1. 1 .. m \subseteq 1 .. n
    BY <1>1
  <2> QED
    BY <2>1 DEF Chain, n
<1>9. h.ok /\ Alike(s, h)
  BY <1>2, <1>7, <1>8 DEF Repeats, h, m
<1>10. /\ Sound(h, C, later, DOMAIN C, {}) /\ Table(h, C) /\ SameRows(G[0], h, C)
       /\ Read(h, C, m)
  <2>1. m \in 0 .. m /\ 0 \in 0 .. m
    BY <1>1
  <2>2. \A j \in 0 .. m :
          /\ Sound(G[j], C, later, DOMAIN C, {}) /\ Table(G[j], C)
          /\ \A i \in 0 .. j : SameRows(G[i], G[j], C) /\ (G[j].ok => G[i].ok)
          /\ G[j].ok => Read(G[j], C, j)
    BY <1>1, <1>8, ChainKeeps
  <2> QED
    BY <1>9, <2>1, <2>2 DEF h
<1>11. Derive(h, C[n], b).ok /\ Alike(x, Derive(h, C[n], b))
  <2>1. SameRows(x, h, C)
    BY <1>7, <1>10, SameRowsOn
  <2>2. n \in DOMAIN C /\ {} \in SUBSET DOMAIN C /\ Read(s, C, n - 1) /\ Read(h, C, n - 1)
    BY <1>1, <1>4, <1>10
  <2>3. SameRows(Derive(s, C[n], d), h, C) /\ Derive(s, C[n], d).ok
    BY <1>3, <2>1 DEF x
  <2>4. Derive(h, C[n], b).ok /\ Alike(Derive(s, C[n], d), Derive(h, C[n], b))
    BY <1>4, <1>9, <1>10, <2>2, <2>3, DeriveAgree
  <2> QED
    BY <2>4 DEF x
<1>12. Alike(t, x)
  BY <1>3, AlikeOn DEF OnlyMarks
<1>13. G[n].ok /\ Alike(t, G[n])
  BY <1>6, <1>11, <1>12, AlikeOn
<1> QED
  BY <1>13 DEF n

\* What a replay took, it would take again.
LEMMA ReplayRepeats ==
    ASSUME NEW now \in Nat, NEW A \in Archives(now), NEW d \in {1, 2},
           NEW seen \in SUBSET DOMAIN A, NEW in \in SUBSET DOMAIN A, NEW K,
           Sound(K[0], A, now, seen, in), Table(K[0], A), K[0].ledger = <<>>, K[0].offers = {},
           Chain(K, A, Len(A), d), K[Len(A)].ok, NEW t, OnlyMarks(K[Len(A)], t)
    PROVE  Repeats(t, A, now)
<1> DEFINE n == Len(A)
<1> SUFFICES ASSUME NEW later \in Nat, NEW C \in Archives(later), NEW b \in {1, 2}, NEW G,
                    now <= later, Continues(C, A), Plain(C), Start(G[0], C, later), G[0].ok,
                    Chain(G, C, n, b), SameRows(t, G[0], C)
             PROVE  G[n].ok /\ Alike(t, G[n])
  BY DEF Repeats
<1>1. Sound(K[0], C, later, DOMAIN C, {}) /\ Table(K[0], C) /\ n \in 0 .. Len(C)
  BY LaterStore
<1>2. Start(K[0], C, later)
  BY <1>1 DEF Start
<1>3. Chain(K, C, n, d)
  <2>1. \A j \in 1 .. n : C[j] = A[j]
    BY LengthsAre DEF Continues
  <2> QED
    BY <2>1 DEF Chain
<1>4. SameRows(K[n], G[0], C) /\ Alike(t, K[n])
  <2>1. SameRows(K[n], t, C)
    BY MarksRead
  <2> QED
    BY <2>1, SameRowsOn, AlikeOn DEF OnlyMarks
<1>5. G[n].ok /\ Alike(K[n], G[n])
  <2>1. K[n].ok
    OBVIOUS
  <2> HIDE DEF n
  <2> QED
    BY <1>1, <1>2, <1>3, <1>4, <2>1, ChainsAgree
<1> QED
  BY <1>4, <1>5, AlikeOn

-----------------------------------------------------------------------------
(* Every step keeps it *)

\* No new use of an Item.
LEMMA UsesStay ==
    ASSUME ItemsOnce, items \in Nat, items' \in Nat, items <= items', ItemUses' \subseteq ItemUses
    PROVE  ItemsOnce'
<1>1. \A u \in ItemUses' : u[1] \in 1 .. items'
  <2>1. \A u \in ItemUses : u[1] \in 1 .. items
    BY DEF ItemsOnce
  <2> QED
    BY <2>1
<1>2. \A u, v \in ItemUses' : u[1] = v[1] => u[2] = v[2]
  BY DEF ItemsOnce
<1> QED
  BY <1>1, <1>2 DEF ItemsOnce

\* A new Item is of one connection.
LEMMA NewItem ==
    ASSUME ItemsOnce, items \in Nat, items' = items + 1, NEW c,
           ItemUses' \subseteq ItemUses \cup {<<items + 1, c>>}
    PROVE  ItemsOnce'
<1>1. \A u \in ItemUses : u[1] \in 1 .. items' /\ u[1] # items + 1
  <2>1. \A u \in ItemUses : u[1] \in 1 .. items
    BY DEF ItemsOnce
  <2> QED
    BY <2>1
<1>2. \A u \in ItemUses' : u \in ItemUses \/ (u[1] = items + 1 /\ u[2] = c)
  OBVIOUS
<1>3. items + 1 \in 1 .. items'
  OBVIOUS
<1>4. \A u \in ItemUses' : u[1] \in 1 .. items'
  BY <1>1, <1>2, <1>3
<1>5. \A u, v \in ItemUses' : u[1] = v[1] => u[2] = v[2]
  BY <1>1, <1>2 DEF ItemsOnce
<1> QED
  BY <1>4, <1>5 DEF ItemsOnce

LEMMA ItemsAreApart == ItemsOnce => ItemsApart(archive)
<1> SUFFICES ASSUME ItemsOnce, NEW j \in DOMAIN archive, NEW k \in DOMAIN archive,
                    archive[j].item = archive[k].item
             PROVE  archive[j].conn = archive[k].conn
  BY DEF ItemsApart
<1>1. /\ <<archive[j].item, archive[j].conn>> \in ItemUses
      /\ <<archive[k].item, archive[k].conn>> \in ItemUses
  BY DEF ItemUses
<1> QED
  BY <1>1 DEF ItemsOnce

\* The reply of p is archived.
LEMMA UsesArchived ==
    ASSUME IInv, ItemsOnce, NEW p \in Procs, inflight[p] # NoReply,
           archive' = Append(archive, Archived(p)),
           inflight' = [inflight EXCEPT ![p] = NoReply], UNCHANGED <<conns, items>>
    PROVE  ItemsOnce'
<1> DEFINE B == Append(archive, Archived(p))
           n == Len(archive) + 1
<1>1. /\ B \in Archives(clock) /\ Len(B) = n /\ n \in DOMAIN B /\ B[n] = Archived(p)
      /\ DOMAIN archive \subseteq DOMAIN B
      /\ Sound(store, B, clock, derived, derived)
      /\ Sound(store, B, clock, derived \cup {n}, derived)
  BY ArchivedIs
<1>2. \A k \in DOMAIN B : k = n \/ (k \in DOMAIN archive /\ B[k] = archive[k])
  <2>1. /\ archive \in Seq(BodyUpTo(clock)) /\ Len(archive) \in Nat
    BY StateIs DEF Archives
  <2> QED
    BY <2>1
<1>3. <<inflight[p].item, inflight[p].conn>> \in ItemUses
  BY DEF ItemUses
<1>4. B[n].item = inflight[p].item /\ B[n].conn = inflight[p].conn
  BY <1>1 DEF Archived
<1> HIDE DEF B, n
<1>5. \A k \in DOMAIN B : <<B[k].item, B[k].conn>> \in ItemUses
  BY <1>2, <1>3, <1>4 DEF ItemUses
<1>6. \A q \in Procs : inflight'[q] # NoReply => inflight'[q] = inflight[q]
  BY StateIs
<1>7. ItemUses' \subseteq ItemUses
  <2>1. archive' = B /\ Live' = Live /\ conns' = conns
    BY DEF B, Live
  <2>2. \A q \in {r \in Procs : inflight'[r] # NoReply} :
           <<inflight'[q].item, inflight'[q].conn>> \in ItemUses
    BY <1>6 DEF ItemUses
  <2>3. \A c \in Live : <<conns[c].item, c>> \in ItemUses
    BY DEF ItemUses
  <2> QED
    BY <1>5, <2>1, <2>2, <2>3 DEF ItemUses
<1>8. items \in Nat /\ items' = items
  BY StateIs
<1> QED
  BY <1>7, <1>8, UsesStay

\* A step that leaves the archive alone, and the tables but for marks.
LEMMA MarksKeep ==
    ASSUME IInv, Holds, clock' \in Nat, clock <= clock', UNCHANGED <<archive, derived>>,
           OnlyMarks(store, store'), SamePairs(store, store'), store'.ok = store.ok
    PROVE  Holds'
<1>1. clock \in Nat
  BY StateIs
<1>2. PairsCurrent(store')
  BY PairsStayCurrent DEF Holds, OnlyMarks
<1>3. Plain(archive) => Table(store', archive)
  BY MarksRead DEF Holds, Covered
<1>4. Plain(archive) /\ derived = DOMAIN archive =>
        Read(store', archive, Len(archive)) /\ Repeats(store', archive, clock')
  <2> SUFFICES ASSUME Plain(archive), derived = DOMAIN archive
               PROVE  Read(store', archive, Len(archive)) /\ Repeats(store', archive, clock')
    OBVIOUS
  <2>1. Read(store, archive, Len(archive)) /\ Repeats(store, archive, clock)
    BY DEF Holds, Covered
  <2>2. Read(store', archive, Len(archive))
    BY <2>1, MarksRead
  <2>3. Repeats(store', archive, clock')
    BY <1>1, <2>1, RepeatsMarked
  <2> QED
    BY <2>2, <2>3
<1>5. Covered'
  BY <1>3, <1>4 DEF Covered
<1> QED
  BY <1>2, <1>5 DEF Holds

\* A step that leaves the archive and the tables alone.
LEMMA StoreStays ==
    ASSUME IInv, Holds, clock' \in Nat, clock <= clock', UNCHANGED <<archive, derived, store>>
    PROVE  Holds'
<1>1. OnlyMarks(store, store) /\ SamePairs(store, store)
  BY DEF OnlyMarks, SamePairs, SameRow, Alike, SameEntry
<1> QED
  BY <1>1, MarksKeep

LEMMA EnrollHolds ==
    ASSUME RInv, NEW c \in Conns, Enroll(c) PROVE ItemsOnce' /\ Holds'
<1>1. IInv /\ ItemsOnce /\ Holds
  BY DEF RInv
<1>2. /\ items' = items + 1 /\ items \in Nat /\ clock \in Nat
      /\ conns' = [conns EXCEPT ![c] = [state |-> "live", item |-> items + 1]]
      /\ UNCHANGED <<archive, derived, store, clock, build, inflight, faults>>
  BY <1>1, StateIs DEF Enroll
<1>3. \A d \in Live' : <<conns'[d].item, d>> \in ItemUses \cup {<<items + 1, c>>}
  <2> SUFFICES ASSUME NEW d \in Live'
               PROVE  <<conns'[d].item, d>> \in ItemUses \cup {<<items + 1, c>>}
    OBVIOUS
  <2>1. /\ d \in Conns /\ conns'[d].state = "live"
        /\ conns \in [Conns -> [state : {"none", "live", "retired"}, item : Nat]]
    BY <1>1, StateIs DEF Live
  <2>2. CASE d = c
    BY <1>2, <2>1, <2>2
  <2>3. CASE d # c
    BY <1>2, <2>1, <2>3 DEF Live, ItemUses
  <2> QED
    BY <2>2, <2>3
<1>4. ItemUses' \subseteq ItemUses \cup {<<items + 1, c>>}
  BY <1>2, <1>3 DEF ItemUses
<1>5. ItemsOnce'
  BY <1>1, <1>2, <1>4, NewItem
<1>6. Holds'
  BY <1>1, <1>2, StoreStays
<1> QED
  BY <1>5, <1>6

LEMMA ReLinkHolds ==
    ASSUME RInv, NEW c \in Conns, ReLink(c) PROVE ItemsOnce' /\ Holds'
<1>1. IInv /\ ItemsOnce /\ Holds
  BY DEF RInv
<1>2. /\ items' = items + 1 /\ items \in Nat /\ clock \in Nat
      /\ conns' = [conns EXCEPT ![c].item = items + 1]
      /\ store' = [store EXCEPT !.domain[c] = NoDomain]
      /\ UNCHANGED <<archive, derived, clock, build, inflight, faults>>
  BY <1>1, StateIs DEF ReLink
<1>3. \A d \in Live' : <<conns'[d].item, d>> \in ItemUses \cup {<<items + 1, c>>}
  <2> SUFFICES ASSUME NEW d \in Live'
               PROVE  <<conns'[d].item, d>> \in ItemUses \cup {<<items + 1, c>>}
    OBVIOUS
  <2>1. /\ d \in Conns /\ conns'[d].state = "live"
        /\ conns \in [Conns -> [state : {"none", "live", "retired"}, item : Nat]]
    BY <1>1, StateIs DEF Live
  <2>2. CASE d = c
    BY <1>2, <2>1, <2>2
  <2>3. CASE d # c
    BY <1>2, <2>1, <2>3 DEF Live, ItemUses
  <2> QED
    BY <2>2, <2>3
<1>4. ItemUses' \subseteq ItemUses \cup {<<items + 1, c>>}
  BY <1>2, <1>3 DEF ItemUses
<1>5. ItemsOnce'
  BY <1>1, <1>2, <1>4, NewItem
<1>6. /\ store'.accounts = store.accounts /\ store'.ledger = store.ledger
      /\ store'.offers = store.offers /\ store'.roster = store.roster
      /\ store'.security = store.security /\ store'.ok = store.ok
  BY <1>1, <1>2, StateIs DEF StoreUpTo
<1>7. OnlyMarks(store, store') /\ SamePairs(store, store')
  BY <1>6 DEF OnlyMarks, SamePairs, SameRow, Alike, SameEntry
<1>8. Holds'
  BY <1>1, <1>2, <1>6, <1>7, MarksKeep
<1> QED
  BY <1>5, <1>8

LEMMA RetireHolds ==
    ASSUME RInv, NEW c \in Conns, Retire(c) PROVE ItemsOnce' /\ Holds'
<1> DEFINE row(i) == IF store.accounts[i].conn = c THEN [store.accounts[i] EXCEPT !.active = FALSE]
                     ELSE store.accounts[i]
<1>1. IInv /\ ItemsOnce /\ Holds
  BY DEF RInv
<1>2. /\ items' = items /\ items \in Nat /\ clock \in Nat
      /\ conns' = [conns EXCEPT ![c].state = "retired"]
      /\ store' = [store EXCEPT !.accounts = [i \in DOMAIN store.accounts |-> row(i)]]
      /\ UNCHANGED <<archive, derived, clock, build, inflight, faults>>
  BY <1>1, StateIs DEF Retire, StoreUpTo
<1>3. \A d \in Live' : <<conns'[d].item, d>> \in ItemUses
  <2> SUFFICES ASSUME NEW d \in Live' PROVE <<conns'[d].item, d>> \in ItemUses
    OBVIOUS
  <2>1. /\ d \in Conns /\ conns'[d].state = "live"
        /\ conns \in [Conns -> [state : {"none", "live", "retired"}, item : Nat]]
    BY <1>1, StateIs DEF Live
  <2>2. d # c /\ conns'[d] = conns[d]
    BY <1>2, <2>1
  <2> QED
    BY <2>1, <2>2 DEF Live, ItemUses
<1>4. ItemUses' \subseteq ItemUses
  BY <1>2, <1>3 DEF ItemUses
<1>5. ItemsOnce'
  BY <1>1, <1>2, <1>4, UsesStay
<1>6. ASSUME NEW i \in DOMAIN store.accounts PROVE SameRow(store.accounts[i], row(i))
  <2>1. store.accounts[i] \in AccountUpTo(clock)
    BY <1>1, StateIs DEF StoreUpTo
  <2> QED
    BY <2>1 DEF AccountUpTo, SameRow
<1> HIDE DEF row
<1>7. /\ store'.accounts = [i \in DOMAIN store.accounts |-> row(i)]
      /\ store'.ledger = store.ledger
      /\ store'.offers = store.offers /\ store'.roster = store.roster
      /\ store'.security = store.security /\ store'.ok = store.ok
  BY <1>1, <1>2, StateIs DEF StoreUpTo
<1>8. OnlyMarks(store, store') /\ SamePairs(store, store')
  BY <1>6, <1>7 DEF OnlyMarks, SamePairs, Alike, SameEntry
<1>9. Holds'
  BY <1>1, <1>2, <1>7, <1>8, MarksKeep
<1> QED
  BY <1>5, <1>9

LEMMA FetchHolds ==
    ASSUME RInv, NEW p \in Procs, NEW c \in Conns, NEW m \in Templates, Fetch(p, c, m)
    PROVE  ItemsOnce' /\ Holds'
<1>1. IInv /\ ItemsOnce /\ Holds
  BY DEF RInv
<1>2. /\ c \in Live /\ clock' = clock + 1 /\ clock \in Nat /\ items \in Nat
      /\ inflight' = [inflight EXCEPT ![p] =
            [says |-> m, conn |-> c, item |-> conns[c].item, at |-> clock + 1]]
      /\ UNCHANGED <<archive, derived, store, conns, items, build, faults>>
  BY <1>1, StateIs DEF Fetch
<1>3. \A q \in Procs : inflight'[q] # NoReply => <<inflight'[q].item, inflight'[q].conn>> \in ItemUses
  <2> SUFFICES ASSUME NEW q \in Procs, inflight'[q] # NoReply
               PROVE  <<inflight'[q].item, inflight'[q].conn>> \in ItemUses
    OBVIOUS
  <2>1. inflight \in [Procs -> ReplyUpTo(clock) \cup {NoReply}]
    BY <1>1, StateIs
  <2>2. CASE q = p
    <3>1. inflight'[q].item = conns[c].item /\ inflight'[q].conn = c
      BY <1>2, <2>1, <2>2
    <3> QED
      BY <1>2, <3>1 DEF ItemUses
  <2>3. CASE q # p
    BY <1>2, <2>1, <2>3 DEF ItemUses
  <2> QED
    BY <2>2, <2>3
<1>4. Live' = Live
  BY <1>2 DEF Live
<1>5. ItemUses' \subseteq ItemUses
  BY <1>2, <1>3, <1>4 DEF ItemUses
<1>6. ItemsOnce'
  BY <1>1, <1>2, <1>5, UsesStay
<1>7. Holds'
  BY <1>1, <1>2, StoreStays
<1> QED
  BY <1>6, <1>7

LEMMA AttemptHolds ==
    ASSUME RInv, NEW c \in Conns, NEW failed \in BOOLEAN, Attempt(c, failed)
    PROVE  ItemsOnce' /\ Holds'
<1> DEFINE d == store.domain[c]
           new == [d EXCEPT !.at = clock + 1, !.error = failed \/ d.error]
<1>1. IInv /\ ItemsOnce /\ Holds
  BY DEF RInv
<1>2. /\ clock' = clock + 1 /\ clock \in Nat /\ items \in Nat
      /\ store' = [store EXCEPT !.domain[c] = new]
      /\ UNCHANGED <<archive, derived, conns, items, build, inflight>>
  BY <1>1, StateIs DEF Attempt
<1> HIDE DEF new
<1>3. ItemUses' = ItemUses
  BY <1>2 DEF ItemUses, Live
<1>4. ItemsOnce'
  BY <1>1, <1>2, <1>3, UsesStay
<1>5. /\ store'.accounts = store.accounts /\ store'.ledger = store.ledger
      /\ store'.offers = store.offers /\ store'.roster = store.roster
      /\ store'.security = store.security /\ store'.ok = store.ok
  BY <1>1, <1>2, StateIs DEF StoreUpTo
<1>6. OnlyMarks(store, store') /\ SamePairs(store, store')
  BY <1>5 DEF OnlyMarks, SamePairs, SameRow, Alike, SameEntry
<1>7. Holds'
  BY <1>1, <1>2, <1>5, <1>6, MarksKeep
<1> QED
  BY <1>4, <1>7

LEMMA OverrideHolds ==
    ASSUME RInv, NEW k \in DOMAIN store.ledger, Override(k) PROVE ItemsOnce' /\ Holds'
<1> DEFINE new == [store.ledger[k] EXCEPT !.override = TRUE]
<1>1. IInv /\ ItemsOnce /\ Holds
  BY DEF RInv
<1>2. /\ clock \in Nat /\ items \in Nat
      /\ store' = [store EXCEPT !.ledger[k] = new]
      /\ UNCHANGED <<archive, derived, conns, items, clock, build, inflight>>
  BY <1>1, StateIs DEF Override
<1>3. SameEntry(store.ledger[k], new) /\ new.pair = store.ledger[k].pair
  <2>1. store.ledger[k] \in LedgerRowUpTo(Len(archive))
    BY <1>1, StateIs DEF StoreUpTo
  <2> QED
    BY <2>1 DEF LedgerRowUpTo, SameEntry
<1> HIDE DEF new
<1>4. ItemUses' = ItemUses
  BY <1>2 DEF ItemUses, Live
<1>5. ItemsOnce'
  BY <1>1, <1>2, <1>4, UsesStay
<1>6. /\ store'.accounts = store.accounts /\ store'.ledger = [store.ledger EXCEPT ![k] = new]
      /\ store'.offers = store.offers /\ store'.roster = store.roster
      /\ store'.security = store.security /\ store'.ok = store.ok
      /\ store.ledger \in Seq(LedgerRowUpTo(Len(archive)))
  BY <1>1, <1>2, StateIs DEF StoreUpTo
<1>7. Alike(store, store') /\ SamePairs(store, store')
  BY <1>3, <1>6 DEF SamePairs, Alike, SameEntry
<1>8. OnlyMarks(store, store')
  BY <1>6, <1>7 DEF OnlyMarks, SameRow
<1>9. Holds'
  BY <1>1, <1>2, <1>6, <1>7, <1>8, MarksKeep
<1> QED
  BY <1>5, <1>9

\* The archive with the reply of p behind it.
LEMMA BehindIs ==
    ASSUME IInv, NEW p \in Procs, inflight[p] # NoReply
    PROVE  LET B == Append(archive, Archived(p))
               n == Len(archive) + 1 IN
           /\ archive \in Archives(clock) /\ clock \in Nat /\ clock <= clock
           /\ B \in Archives(clock) /\ Len(B) = n /\ DOMAIN B = DOMAIN archive \cup {n}
           /\ n \notin DOMAIN archive /\ n \in DOMAIN B /\ B[n] = Archived(p) /\ Continues(B, archive)
           /\ derived \in SUBSET DOMAIN archive
           /\ Sound(store, archive, clock, derived, derived)
<1> DEFINE B == Append(archive, Archived(p))
           n == Len(archive) + 1
<1>1. /\ B \in Archives(clock) /\ Len(B) = n /\ n \in DOMAIN B /\ B[n] = Archived(p)
      /\ DOMAIN archive \subseteq DOMAIN B
      /\ Sound(store, B, clock, derived, derived)
      /\ Sound(store, B, clock, derived \cup {n}, derived)
  BY ArchivedIs
<1>2. /\ archive \in Archives(clock) /\ clock \in Nat /\ derived \in SUBSET DOMAIN archive
      /\ Len(archive) \in Nat /\ DOMAIN archive = 1 .. Len(archive)
      /\ Sound(store, archive, clock, derived, derived)
  BY StateIs
<1>3. \A k \in DOMAIN archive : B[k] = archive[k]
  BY <1>2 DEF Archives
<1> HIDE DEF B
<1>4. DOMAIN B = 1 .. n
  BY <1>1, LengthsAre
<1>5. DOMAIN B = DOMAIN archive \cup {n} /\ n \notin DOMAIN archive /\ Len(archive) <= Len(B)
  BY <1>1, <1>2, <1>4
<1>6. Continues(B, archive)
  BY <1>3, <1>5 DEF Continues
<1> QED
  BY <1>1, <1>2, <1>5, <1>6 DEF B

\* The reply is archived and not derived.
LEMMA LeftHolds ==
    ASSUME RInv, NEW p \in Procs, inflight[p] # NoReply,
           archive' = Append(archive, Archived(p)), UNCHANGED <<derived, store, clock>>
    PROVE  Holds'
<1> DEFINE B == Append(archive, Archived(p))
           n == Len(archive) + 1
<1>1. IInv /\ Holds
  BY DEF RInv
<1>2. /\ archive \in Archives(clock) /\ clock \in Nat /\ clock <= clock
      /\ B \in Archives(clock) /\ Len(B) = n /\ DOMAIN B = DOMAIN archive \cup {n}
      /\ n \notin DOMAIN archive /\ n \in DOMAIN B /\ B[n] = Archived(p) /\ Continues(B, archive)
      /\ derived \in SUBSET DOMAIN archive
      /\ Sound(store, archive, clock, derived, derived)
  BY <1>1, BehindIs
<1> HIDE DEF B, n
<1>3. Plain(B) => Table(store, B)
  <2> SUFFICES ASSUME Plain(B) PROVE Table(store, B)
    OBVIOUS
  <2>1. Plain(archive)
    BY <1>2, PlainBefore
  <2>2. Table(store, archive)
    BY <1>1, <2>1 DEF Holds, Covered
  <2> QED
    BY <1>2, <2>2, TableLater
<1>4. derived # DOMAIN B
  BY <1>2
<1>5. archive' = B
  BY DEF B
<1> QED
  BY <1>1, <1>3, <1>4, <1>5 DEF Holds, Covered

\* The reply is archived, derived and paired.
LEMMA TakenHolds ==
    ASSUME RInv, NEW p \in Procs, inflight[p] # NoReply,
           archive' = Append(archive, Archived(p)),
           Derive(store, Archived(p), build).ok,
           store' = PairedStore(Derive(store, Archived(p), build)),
           derived' = derived \cup {Len(archive) + 1}, UNCHANGED clock
    PROVE  Holds'
<1> DEFINE B == Append(archive, Archived(p))
           n == Len(archive) + 1
           x == Derive(store, B[n], build)
           t == PairedStore(x)
<1>1. IInv /\ Holds /\ build \in {1, 2}
  BY StateIs DEF RInv
<1>2. /\ archive \in Archives(clock) /\ clock \in Nat /\ clock <= clock
      /\ B \in Archives(clock) /\ Len(B) = n /\ DOMAIN B = DOMAIN archive \cup {n}
      /\ n \notin DOMAIN archive /\ n \in DOMAIN B /\ B[n] = Archived(p) /\ Continues(B, archive)
      /\ derived \in SUBSET DOMAIN archive
      /\ Sound(store, archive, clock, derived, derived)
  BY <1>1, BehindIs
<1>3. archive' = B /\ store' = t /\ derived' = derived \cup {n} /\ x.ok /\ clock' = clock
  BY <1>2
<1>4. Len(archive) \in Nat /\ n = Len(archive) + 1 /\ n - 1 = Len(archive)
  BY <1>2, LengthsAre
<1> HIDE DEF B, n, x, t
<1>5. x \in StoreUpTo(clock, Len(B))
  <2>1. n \in derived \cup {n} /\ derived \in SUBSET DOMAIN B
    BY <1>2
  <2>2. Sound(store, B, clock, derived \cup {n}, derived)
    <3>1. Len(archive) <= Len(B) /\ \A k \in DOMAIN archive : B[k] = archive[k]
      BY <1>2 DEF Continues
    <3>2. derived \subseteq derived \cup {n} /\ derived \in SUBSET derived
      OBVIOUS
    <3> QED
      BY <1>2, <3>1, <3>2, SoundLater
  <2>3. Derives(store, x, B, clock, derived \cup {n}, derived, build, n)
    BY <1>1, <1>2, <2>1, <2>2, DeriveKeeps DEF x
  <2> QED
    BY <2>3 DEF Derives, Sound
<1>6. OnlyMarks(x, t) /\ t.ok = x.ok /\ PairsCurrent(t)
  <2>1. OnlyLedger(x, PairedStore(x)) /\ Alike(x, PairedStore(x))
    BY <1>5, PairedIs
  <2>2. PairsCurrent(PairedStore(x))
    BY <1>5, PairingIsCurrent
  <2> QED
    BY <2>1, <2>2, LedgerMarks DEF t, OnlyLedger
<1>7. ASSUME Plain(B)
      PROVE  /\ Plain(archive) /\ Table(store, archive) /\ Table(t, B)
             /\ Sound(store, B, clock, DOMAIN B, {}) /\ Table(store, B)
             /\ Read(store, archive, Len(archive)) => Read(store, B, Len(archive))
  <2>1. Plain(archive)
    BY <1>2, <1>7, PlainBefore
  <2>2. Table(store, archive)
    BY <1>1, <2>1 DEF Holds, Covered
  <2>3. /\ Sound(store, B, clock, DOMAIN B, {}) /\ Table(store, B)
        /\ Read(store, archive, Len(archive)) => Read(store, B, Len(archive))
    BY <1>2, <1>7, <2>2, LaterStore
  <2>4. Table(x, B)
    BY <1>1, <1>2, <1>7, <2>3, LinkKeeps DEF x
  <2>5. Table(t, B)
    BY <1>6, <2>4, MarksRead
  <2> QED
    BY <2>1, <2>2, <2>3, <2>5
<1>8. ASSUME Plain(B), derived \cup {n} = DOMAIN B
      PROVE  Read(t, B, Len(B)) /\ Repeats(t, B, clock)
  <2>1. derived = DOMAIN archive
    BY <1>2, <1>8
  <2>2. /\ Plain(archive) /\ Table(store, archive) /\ Sound(store, B, clock, DOMAIN B, {})
        /\ Table(store, B)
        /\ Read(store, archive, Len(archive)) => Read(store, B, Len(archive))
    BY <1>7, <1>8
  <2>3. Read(store, archive, Len(archive)) /\ Repeats(store, archive, clock)
    BY <1>1, <2>1, <2>2 DEF Holds, Covered
  <2>4. Read(x, B, n)
    <3>1. Read(store, B, n - 1) /\ {} \in SUBSET DOMAIN B /\ Derive(store, B[n], build).ok
      BY <1>3, <1>4, <2>2, <2>3 DEF x
    <3>2. Read(Derive(store, B[n], build), B, n)
      BY <1>1, <1>2, <1>8, <2>2, <3>1, DeriveReads
    <3> QED
      BY <3>2 DEF x
  <2>5. Read(t, B, n)
    BY <1>6, <2>4, MarksRead
  <2>6. Repeats(t, B, clock)
    <3>1. /\ OnlyMarks(Derive(store, B[Len(B)], build), t) /\ Derive(store, B[Len(B)], build).ok
          /\ Len(B) = Len(archive) + 1
      BY <1>2, <1>3, <1>4, <1>6 DEF x
    <3> QED
      BY <1>1, <1>2, <2>2, <2>3, <3>1, RepeatsOn
  <2> QED
    BY <1>2, <2>5, <2>6
<1> QED
  BY <1>3, <1>6, <1>7, <1>8 DEF Holds, Covered

LEMMA ApplyHolds ==
    ASSUME RInv, NEW p \in Procs, Apply(p) PROVE ItemsOnce' /\ Holds'
<1> DEFINE after == Derive(store, Archived(p), build)
<1>1. /\ inflight[p] # NoReply /\ archive' = Append(archive, Archived(p))
      /\ inflight' = [inflight EXCEPT ![p] = NoReply] /\ UNCHANGED <<conns, items, clock, build, faults>>
      /\ IF after.ok THEN store' = PairedStore(after) /\ derived' = derived \cup {Len(archive) + 1}
                     ELSE UNCHANGED <<store, derived>>
  BY DEF Apply
<1>2. ItemsOnce'
  BY <1>1, UsesArchived DEF RInv
<1> HIDE DEF after
<1>3. CASE after.ok
  BY <1>1, <1>2, <1>3, TakenHolds DEF after
<1>4. CASE ~ after.ok
  BY <1>1, <1>2, <1>4, LeftHolds
<1> QED
  BY <1>3, <1>4

LEMMA DieHolds ==
    ASSUME RInv, NEW p \in Procs, Die(p) PROVE ItemsOnce' /\ Holds'
<1>1. /\ inflight[p] # NoReply /\ archive' = Append(archive, Archived(p))
      /\ inflight' = [inflight EXCEPT ![p] = NoReply]
      /\ UNCHANGED <<derived, store, conns, items, clock, build>>
  BY DEF Die
<1>2. ItemsOnce'
  BY <1>1, UsesArchived DEF RInv
<1> QED
  BY <1>1, <1>2, LeftHolds

\* A rebuild reads the whole archive, and would repeat itself.
LEMMA RunRebuildHolds ==
    ASSUME RInv, NEW accept \in BOOLEAN, RunRebuild(accept) PROVE ItemsOnce' /\ Holds'
<1> DEFINE x == Rederived(store)
           y == PairedStore(x)
           t == RestoreOperatorState(y, Preserved(store))
           n == Len(archive)
<1>1. /\ t.ok /\ store' = t /\ derived' = DOMAIN archive
      /\ UNCHANGED <<archive, conns, items, clock, build, inflight, faults>>
  BY DEF RunRebuild, Replayed
<1>2. IInv /\ ItemsOnce /\ Holds
  BY DEF RInv
<1>3. /\ archive \in Archives(clock) /\ derived \in SUBSET DOMAIN archive /\ clock \in Nat
      /\ build \in {1, 2} /\ Sound(store, archive, clock, derived, derived) /\ items \in Nat
      /\ Len(archive) \in Nat
  BY <1>2, StateIs
<1>4. ItemsOnce'
  <2>1. ItemUses' = ItemUses
    BY <1>1 DEF ItemUses, Live
  <2> QED
    BY <1>1, <1>2, <1>3, <2>1, UsesStay
<1>5. x \in StoreUpTo(clock, n)
  BY <1>3, ReplayKeeps DEF Sound
<1> HIDE DEF x, t
<1>6. y \in StoreUpTo(clock, n) /\ OnlyLedger(x, y) /\ Alike(x, y) /\ PairsCurrent(y)
  <2>1. Sound(x, archive, clock, DOMAIN archive, DOMAIN archive)
    BY <1>3, ReplayKeeps DEF x
  <2>2. Leads(x, y, archive, clock, DOMAIN archive, DOMAIN archive, build)
    <3>1. clock \in Nat /\ archive \in Archives(clock)
      BY <1>3
    <3> QED
      BY <2>1, <3>1, PairedKeeps
  <2>3. OnlyLedger(x, PairedStore(x)) /\ Alike(x, PairedStore(x)) /\ PairsCurrent(PairedStore(x))
    BY <1>5, PairedIs, PairingIsCurrent
  <2> HIDE DEF y
  <2>4. y \in StoreUpTo(clock, n)
    BY <2>2 DEF Leads, Sound
  <2> QED
    BY <2>3, <2>4 DEF y
<1> HIDE DEF y
<1>7. OnlyLedger(y, t) /\ Alike(y, t) /\ SamePairs(y, t)
  <2>1. LET u == RestoreOperatorState(y, Preserved(store)) IN
           /\ OnlyLedger(y, u) /\ Alike(y, u) /\ Legs(u) = Legs(y)
           /\ \A k \in DOMAIN y.ledger :
                /\ u.ledger[k].build = y.ledger[k].build /\ u.ledger[k].pair = y.ledger[k].pair
                /\ u.ledger[k].override =
                     (<<y.ledger[k].account, y.ledger[k].source>> \in Preserved(store))
    BY <1>6, RestoredIs
  <2> QED
    BY <2>1 DEF SamePairs, Alike, t
<1>8. PairsCurrent(t) /\ OnlyMarks(x, t) /\ x.ok
  BY <1>1, <1>6, <1>7, PairsStayCurrent, LedgerMarks, MarksOn DEF OnlyLedger
<1>9. ASSUME Plain(archive)
      PROVE  Table(t, archive) /\ Read(t, archive, n) /\ Repeats(t, archive, clock)
  <2>1. Table(store, archive)
    BY <1>2, <1>9 DEF Holds, Covered
  <2>2. InOrder(archive)
    BY <1>9 DEF Plain
  <2>3. PICK K : K[0] = Cleared(store) /\ Chain(K, archive, n, build) /\ x = K[n]
    BY <1>3, <2>2, ReplayIsChain DEF x
  <2>4. /\ Sound(K[0], archive, clock, derived, derived) /\ K[0].accounts = store.accounts
        /\ K[0].ledger = <<>> /\ K[0].offers = {}
    <3>1. Sound(Cleared(store), archive, clock, derived, derived)
      BY <1>3, ClearedIsSound
    <3>2. /\ Cleared(store).accounts = store.accounts
          /\ Cleared(store).ledger = <<>> /\ Cleared(store).offers = {}
      BY <1>3 DEF Cleared, Sound, StoreUpTo
    <3> QED
      BY <2>3, <3>1, <3>2
  <2>5. Table(K[0], archive)
    BY <2>1, <2>4, SameAccountsRead
  <2>6. Start(K[0], archive, clock)
    <3>1. Continues(archive, archive) /\ clock <= clock
      BY <1>3 DEF Continues
    <3>2. Sound(K[0], archive, clock, DOMAIN archive, {})
      BY <1>3, <1>9, <2>4, <2>5, <3>1, LaterStore
    <3> QED
      BY <2>4, <2>5, <3>2 DEF Start
  <2>7. Table(x, archive) /\ Read(x, archive, n)
    <3>1. n \in 0 .. Len(archive) /\ n \in 0 .. n
      BY <1>3
    <3>2. \A j \in 0 .. n :
            /\ Sound(K[j], archive, clock, DOMAIN archive, {}) /\ Table(K[j], archive)
            /\ \A i \in 0 .. j : SameRows(K[i], K[j], archive) /\ (K[j].ok => K[i].ok)
            /\ K[j].ok => Read(K[j], archive, j)
      BY <1>3, <1>9, <2>3, <2>6, <3>1, ChainKeeps
    <3> QED
      BY <1>8, <2>3, <3>1, <3>2
  <2>8. Table(t, archive) /\ Read(t, archive, n)
    BY <1>8, <2>7, MarksRead
  <2>9. Repeats(t, archive, clock)
    <3>1. K[Len(archive)].ok /\ OnlyMarks(K[Len(archive)], t) /\ Chain(K, archive, Len(archive), build)
      BY <1>8, <2>3
    <3> QED
      BY <1>3, <2>4, <2>5, <3>1, ReplayRepeats
  <2> QED
    BY <2>8, <2>9
<1>10. Holds'
  BY <1>1, <1>8, <1>9 DEF Holds, Covered
<1> QED
  BY <1>4, <1>10

LEMMA InitHolds == Init => ItemsOnce /\ Holds
<1> SUFFICES ASSUME Init PROVE ItemsOnce /\ Holds
  OBVIOUS
<1>1. IInv
  BY InitTyped
<1>2. /\ archive = <<>> /\ derived = {} /\ store = EmptyStore /\ inflight = [p \in Procs |-> NoReply]
      /\ conns = [c \in Conns |-> [state |-> "none", item |-> 0]] /\ DOMAIN archive = {}
      /\ Len(archive) = 0
  BY DEF Init
<1>3. /\ archive \in Archives(clock) /\ clock \in Nat
      /\ Sound(store, archive, clock, derived, derived)
  BY <1>1, StateIs
<1>4. ItemsOnce
  <2>1. Live = {}
    BY <1>2 DEF Live
  <2>2. ItemUses = {}
    BY <1>2, <2>1 DEF ItemUses
  <2> QED
    BY <2>2 DEF ItemsOnce
<1>5. /\ store.ok /\ store.ledger = <<>> /\ store.offers = {} /\ store.accounts = <<>>
      /\ DOMAIN store.ledger = {} /\ DOMAIN store.accounts = {}
  BY <1>2 DEF EmptyStore
<1>6. PairsCurrent(store) /\ Table(store, archive)
  BY <1>5 DEF PairsCurrent, Table
<1>7. Read(store, archive, Len(archive))
  <2>1. Start(store, archive, clock)
    BY <1>2, <1>3, <1>5, <1>6 DEF Start
  <2>2. Read(store, archive, 0)
    BY <1>3, <2>1, StartReads
  <2> QED
    BY <1>2, <2>2
<1>8. Repeats(store, archive, clock)
  <2> SUFFICES ASSUME NEW later \in Nat, NEW B \in Archives(later), NEW G,
                      Start(G[0], B, later), G[0].ok
               PROVE  G[Len(archive)].ok /\ Alike(store, G[Len(archive)])
    BY DEF Repeats
  <2>1. G[0].ledger = <<>>
    BY DEF Start
  <2> QED
    BY <1>2, <1>5, <2>1 DEF Alike
<1> QED
  BY <1>4, <1>5, <1>6, <1>7, <1>8 DEF Holds, Covered

LEMMA NextHolds == RInv /\ [Next]_vars => RInv'
<1> SUFFICES ASSUME RInv, [Next]_vars PROVE RInv'
  OBVIOUS
<1>0. IInv' /\ IInv /\ ItemsOnce /\ Holds
  BY NextKeeps DEF RInv
<1> SUFFICES ItemsOnce' /\ Holds'
  BY <1>0 DEF RInv
<1>1. ASSUME NEW c \in Conns, Enroll(c) PROVE ItemsOnce' /\ Holds'
  BY <1>1, EnrollHolds
<1>2. ASSUME NEW c \in Conns, ReLink(c) PROVE ItemsOnce' /\ Holds'
  BY <1>2, ReLinkHolds
<1>3. ASSUME NEW c \in Conns, Retire(c) PROVE ItemsOnce' /\ Holds'
  BY <1>3, RetireHolds
<1>4. ASSUME NEW p \in Procs, NEW c \in Conns, NEW m \in Templates, Fetch(p, c, m)
      PROVE  ItemsOnce' /\ Holds'
  BY <1>4, FetchHolds
<1>5. ASSUME NEW p \in Procs, Apply(p) PROVE ItemsOnce' /\ Holds'
  BY <1>5, ApplyHolds
<1>6. ASSUME NEW p \in Procs, Die(p) PROVE ItemsOnce' /\ Holds'
  BY <1>6, DieHolds
<1>7. ASSUME NEW c \in Conns, NEW failed \in BOOLEAN, Attempt(c, failed)
      PROVE  ItemsOnce' /\ Holds'
  BY <1>7, AttemptHolds
<1>8. ASSUME NEW k \in DOMAIN store.ledger, Override(k) PROVE ItemsOnce' /\ Holds'
  BY <1>8, OverrideHolds
<1>9. ASSUME UNCHANGED <<archive, derived, store, conns, items, clock, inflight>>
      PROVE  ItemsOnce' /\ Holds'
  <2>1. clock \in Nat /\ clock <= clock /\ items \in Nat
    BY <1>0, StateIs
  <2>2. ItemUses' = ItemUses
    BY <1>9 DEF ItemUses, Live
  <2>3. ItemsOnce'
    BY <1>0, <1>9, <2>1, <2>2, UsesStay
  <2>4. Holds'
    BY <1>0, <1>9, <2>1, StoreStays
  <2> QED
    BY <2>3, <2>4
<1>10. CASE OtherBuild
  BY <1>9, <1>10 DEF OtherBuild
<1>11. ASSUME NEW accept \in BOOLEAN, RunRebuild(accept) PROVE ItemsOnce' /\ Holds'
  BY <1>11, RunRebuildHolds
<1>12. CASE UNCHANGED vars
  BY <1>9, <1>12 DEF vars
<1> QED
  BY <1>1, <1>2, <1>3, <1>4, <1>5, <1>6, <1>7, <1>8, <1>10, <1>11, <1>12 DEF Next

-----------------------------------------------------------------------------
(* A replay into the rows that tell of every body changes none of them *)

\* The rows of t are those of s, but for the connection and the Item they
\* are of, and when that was written.
Still(s, t) ==
    /\ DOMAIN t.accounts = DOMAIN s.accounts
    /\ \A i \in DOMAIN s.accounts :
        LET a == s.accounts[i]
            b == t.accounts[i] IN
        /\ b.source[2] = a.source[2] /\ b.persistent = a.persistent
        /\ b.first = a.first /\ b.last = a.last /\ b.active = a.active

\* An upsert of an entry its row tells of.
LEMMA UpsertStill ==
    ASSUME NEW now \in Nat, NEW A \in Archives(now), Plain(A), NEW k \in DOMAIN A,
           NEW full \in StoreUpTo(now, Len(A)), NEW r \in A[k].says.listed,
           Covers(full, A, <<k, r>>),
           NEW s \in StoreUpTo(now, Len(A)), Table(s, A), IdentityKnown(s, A),
           SameRows(full, s, A), Still(full, s)
    PROVE  Still(full, UpsertAccount(s, A[k], r))
<1> DEFINE t == UpsertAccount(s, A[k], r)
           i == RowOf(s, A[k], r)
           m == MatchAccount(s, A[k], r)
           a == t.accounts[i]
           day == DayOf(A[k].at)
           e == <<k, r>>
<1>1. PICK j \in DOMAIN full.accounts :
         /\ RowOfEntry(full, A, e, j) /\ full.accounts[j].first <= day
         /\ Roster(A[k]) => full.accounts[j].last >= day
         /\ A[k].says.stated => full.accounts[j].persistent = r
  BY DEF Covers
<1>2. IsRow(full, A, A[k].item, r, j)
  BY <1>1 DEF RowOfEntry
<1>3. IsRow(s, A, A[k].item, r, j)
  BY <1>2, RowsStay
<1>4. j = m
  BY <1>3, MatchIsRow
<1>5. /\ j \in DOMAIN s.accounts /\ s.accounts[j] \in AccountUpTo(now) /\ j # 0
      /\ s.accounts[j].first \in Nat /\ s.accounts[j].last \in Nat /\ day \in Nat
  <2>1. j \in DOMAIN s.accounts
    BY <1>3 DEF IsRow
  <2>2. s.accounts[j] \in AccountUpTo(now) /\ j \in Nat \ {0}
    BY <2>1, AccountsTyped
  <2> QED
    BY <2>1, <2>2, BodyIs DEF AccountUpTo
<1>6. /\ OneRowMoves(s, t, i) /\ i = m /\ a.source = <<A[k].item, r>>
      /\ a.persistent = IF A[k].says.stated THEN r ELSE s.accounts[i].persistent
      /\ a.last = IF Roster(A[k])
                  THEN IF s.accounts[i].last >= day THEN s.accounts[i].last ELSE day
                  ELSE s.accounts[i].last
      /\ a.first = IF s.accounts[i].first <= day THEN s.accounts[i].first ELSE day
      /\ a.active = s.accounts[i].active
  <2>1. m # 0
    BY <1>4, <1>5
  <2> QED
    BY <2>1, UpsertRow
<1> HIDE DEF t, i, m, day
<1>7. /\ full.accounts[j].source[2] = r /\ s.accounts[j].source[2] = r
      /\ full.accounts[j].first = s.accounts[j].first /\ full.accounts[j].last = s.accounts[j].last
      /\ full.accounts[j].persistent = s.accounts[j].persistent
      /\ full.accounts[j].active = s.accounts[j].active
  BY <1>2, <1>3 DEF IsRow, Still
<1>8. /\ t.accounts[j].source[2] = r /\ t.accounts[j].first = full.accounts[j].first
      /\ t.accounts[j].last = full.accounts[j].last
      /\ t.accounts[j].persistent = full.accounts[j].persistent
      /\ t.accounts[j].active = full.accounts[j].active
  BY <1>1, <1>4, <1>5, <1>6, <1>7
<1>9. /\ DOMAIN t.accounts = DOMAIN s.accounts
      /\ \A l \in DOMAIN s.accounts \ {j} : t.accounts[l] = s.accounts[l]
  BY <1>4, <1>5, <1>6 DEF OneRowMoves
<1>10. Still(full, t)
  BY <1>7, <1>8, <1>9 DEF Still
<1> QED
  BY <1>10 DEF t

\* The loop over the accounts of a body whose entries the rows tell of.
LEMMA EntriesStill ==
    ASSUME NEW now \in Nat, NEW A \in Archives(now), Plain(A), NEW k \in DOMAIN A,
           NEW b \in {1, 2}, NEW full \in StoreUpTo(now, Len(A)),
           \A r \in A[k].says.listed : Covers(full, A, <<k, r>>),
           NEW s, Sound(s, A, now, DOMAIN A, {}), Table(s, A), SameRows(full, s, A), Still(full, s)
    PROVE  Still(full, DeriveAccountEntries(s, A[k], b))
<1> DEFINE S == A[k].says.listed
<1>1. PICK it : EntriesTrace(it, s, A[k], b) /\ AllLed(it, S, s, A, now, DOMAIN A, {}, b)
  <2>1. {} \in SUBSET DOMAIN A
    OBVIOUS
  <2> QED
    BY <2>1, EntriesRun
<1>2. /\ it[{}] = s /\ it[S] = DeriveAccountEntries(s, A[k], b)
      /\ \A T \in SUBSET S : T # {} =>
            Max(T) \in T /\ it[T] = DeriveOneAccount(it[T \ {Max(T)}], A[k], Max(T), b)
      /\ \A T \in SUBSET S : Sound(it[T], A, now, DOMAIN A, {})
  BY <1>1 DEF EntriesTrace, AllLed, Leads
<1> DEFINE H == {T \in SUBSET S : Table(it[T], A) /\ SameRows(full, it[T], A) /\ Still(full, it[T])}
<1>3. {} \in H
  BY <1>2
<1>4. ASSUME NEW T \in SUBSET S, T # {}, T \ {Max(T)} \in H PROVE T \in H
  <2> DEFINE r == Max(T)
             u == it[T \ {r}]
             x == UpsertAccount(u, A[k], r)
             t == DeriveOneAccount(u, A[k], r, b)
  <2>1. r \in S /\ it[T] = t /\ T \ {r} \in SUBSET S
    BY <1>2, <1>4
  <2>2. Table(u, A) /\ SameRows(full, u, A) /\ Still(full, u)
    BY <1>4
  <2>3. u \in StoreUpTo(now, Len(A)) /\ IdentityKnown(u, A)
    BY <1>2, <2>1 DEF Sound, AccountsSound
  <2> HIDE DEF u, r
  <2>4. Still(full, x)
    <3>1. Covers(full, A, <<k, r>>) /\ r \in A[k].says.listed
      BY <2>1
    <3> HIDE DEF x
    <3>2. Still(full, UpsertAccount(u, A[k], r))
      BY <2>2, <2>3, <3>1, UpsertStill
    <3> QED
      BY <3>2 DEF x
  <2>5. Table(t, A) /\ SameRows(u, t, A)
    <3>1. {} \in SUBSET Entries(A, k) /\ RowsRead(u, A, {}) /\ r \in A[k].says.listed
      BY <2>1 DEF RowsRead
    <3> HIDE DEF t
    <3>2. LET v == DeriveOneAccount(u, A[k], r, b) IN
           /\ Table(v, A) /\ SameRows(u, v, A) /\ RowsRead(v, A, {} \cup {<<k, r>>})
           /\ Aside(u, v) /\ BalancesPut(u, v, A, {<<k, r>>})
      BY <2>2, <2>3, <3>1, OneAccountReads
    <3> QED
      BY <3>2 DEF t
  <2>6. t.accounts = x.accounts
    <3> DEFINE i == IF MatchAccount(u, A[k], r) = 0 THEN Len(x.accounts)
                    ELSE MatchAccount(u, A[k], r)
    <3>1. t = IF A[k].says.quoted THEN WriteBalance(x, A[k], i, b) ELSE x
      BY DEF DeriveOneAccount
    <3>2. x \in StoreUpTo(now, Len(A))
      <4>1. r \in A[k].says.listed
        BY <2>1
      <4> QED
        BY <2>3, <4>1, UpsertRow
    <3> HIDE DEF x, t, i
    <3> QED
      BY <3>1, <3>2 DEF WriteBalance, StoreUpTo
  <2> HIDE DEF x, t
  <2>7. Still(full, t)
    BY <2>4, <2>6 DEF Still
  <2>8. SameRows(full, t, A)
    BY <2>2, <2>5, SameRowsOn
  <2> QED
    BY <2>1, <2>5, <2>7, <2>8
<1>5. S \in H
  <2>1. IsFiniteSet(S)
    BY BodyIs, RealAssumption, FS_Subset
  <2>2. \A T \in SUBSET S : T # {} => \E x \in T : T \ {x} \in H => T \in H
    BY <1>2, <1>4
  <2> HIDE DEF H, S
  <2>3. \A T \in SUBSET S : T \in H
    BY <1>3, <2>1, <2>2, SubsetInduction
  <2> QED
    BY <2>3
<1> QED
  BY <1>2, <1>5

\* A replay of all of A, from the rows that full has of it.
Replays(K, full, A, now, b) ==
    /\ Start(K[0], A, now) /\ Chain(K, A, Len(A), b)
    /\ K[0].accounts = full.accounts /\ K[0].roster = full.roster
    /\ K[0].security = full.security /\ K[0].domain = full.domain
    /\ Sound(full, A, now, DOMAIN A, {}) /\ Table(full, A) /\ Read(full, A, Len(A))

\* One body of it.
LEMMA ReplayStep ==
    ASSUME NEW now \in Nat, NEW A \in Archives(now), Plain(A), NEW b \in {1, 2},
           NEW K, NEW full, Replays(K, full, A, now, b), NEW k \in 1 .. Len(A)
    PROVE  LET s == K[k - 1]
               u == DeriveAccountEntries(s, A[k], b)
           IN /\ k \in DOMAIN A /\ k \in Nat
              /\ Sound(s, A, now, DOMAIN A, {}) /\ Table(s, A) /\ SameRows(full, s, A)
              /\ K[k] = Derive(s, A[k], b) /\ K[k].accounts = u.accounts
              /\ Aside(s, u) /\ Beside(u, K[k], A[k], b)
<1> DEFINE s == K[k - 1]
           u == DeriveAccountEntries(s, A[k], b)
<1>1. Len(A) \in Nat /\ k \in DOMAIN A /\ k \in Nat /\ k - 1 \in 0 .. Len(A) /\ 0 \in 0 .. k - 1
      /\ Len(A) \in 0 .. Len(A)
  <2>1. Len(A) \in Nat /\ DOMAIN A = 1 .. Len(A)
    BY LengthsAre
  <2> QED
    BY <2>1
<1>2. Sound(s, A, now, DOMAIN A, {}) /\ Table(s, A) /\ SameRows(K[0], s, A)
  <2>1. Start(K[0], A, now) /\ Chain(K, A, Len(A), b)
    BY DEF Replays
  <2>2. \A j \in 0 .. Len(A) :
          /\ Sound(K[j], A, now, DOMAIN A, {}) /\ Table(K[j], A)
          /\ \A i \in 0 .. j : SameRows(K[i], K[j], A) /\ (K[j].ok => K[i].ok)
          /\ K[j].ok => Read(K[j], A, j)
    BY <1>1, <2>1, ChainKeeps
  <2> QED
    BY <1>1, <2>2
<1>3. SameRows(full, s, A)
  <2>1. SameRows(full, K[0], A)
    BY SameAccountsRead DEF Replays
  <2> HIDE DEF s
  <2> QED
    BY <1>2, <2>1, SameRowsOn
<1>4. K[k] = Derive(s, A[k], b)
  BY DEF Replays, Chain
<1> HIDE DEF s
<1>5. LET w == DeriveAccountEntries(s, A[k], b)
          t == Derive(s, A[k], b)
      IN /\ t.accounts = w.accounts /\ (t.ok => s.ok) /\ Aside(s, w) /\ Beside(w, t, A[k], b)
         /\ Table(w, A) /\ SameRows(s, w, A) /\ SameRows(t, w, A)
         /\ Table(t, A) /\ SameRows(s, t, A)
  <2>1. {} \in SUBSET DOMAIN A
    OBVIOUS
  <2> QED
    BY <1>1, <1>2, <2>1, DeriveKeepsRows
<1> QED
  BY <1>1, <1>2, <1>3, <1>4, <1>5 DEF s

\* The replay changes no row, but for who wrote it last.
LEMMA ReplayStill ==
    ASSUME NEW now \in Nat, NEW A \in Archives(now), Plain(A), NEW b \in {1, 2},
           NEW K, NEW full, Replays(K, full, A, now, b)
    PROVE  \A j \in 0 .. Len(A) : Still(full, K[j])
<1> DEFINE H == {j \in 0 .. Len(A) : Still(full, K[j])}
<1>1. Len(A) \in Nat /\ DOMAIN A = 1 .. Len(A) /\ full \in StoreUpTo(now, Len(A))
      /\ RowsRead(full, A, Entries(A, Len(A)))
  BY LengthsAre DEF Replays, Sound, Read
<1>2. 0 \in H
  BY <1>1 DEF Replays, Still
<1>3. ASSUME NEW k \in 1 .. Len(A), k - 1 \in H PROVE k \in H
  <2> DEFINE s == K[k - 1]
             u == DeriveAccountEntries(s, A[k], b)
  <2>1. /\ k \in DOMAIN A /\ Sound(s, A, now, DOMAIN A, {}) /\ Table(s, A)
        /\ SameRows(full, s, A) /\ K[k].accounts = u.accounts
    BY ReplayStep
  <2>2. Still(full, s)
    BY <1>3
  <2>3. \A r \in A[k].says.listed : Covers(full, A, <<k, r>>)
    <3>1. \A r \in A[k].says.listed : <<k, r>> \in Entries(A, Len(A))
      BY <1>1, <2>1, BodyIs DEF Entries
    <3> QED
      BY <1>1, <3>1 DEF RowsRead
  <2> HIDE DEF s
  <2>4. Still(full, u)
    BY <1>1, <2>1, <2>2, <2>3, EntriesStill
  <2> HIDE DEF u
  <2>5. Still(full, K[k])
    BY <2>1, <2>4 DEF Still
  <2> QED
    BY <2>5
<1> HIDE DEF H
<1>4. \A j \in 0 .. Len(A) : j \in H
  BY <1>1, <1>2, <1>3, UpTo
<1> QED
  BY <1>4 DEF H

\* Nor the days the rosters were observed, nor the security.
LEMMA ReplayAside ==
    ASSUME NEW now \in Nat, NEW A \in Archives(now), Plain(A), NEW b \in {1, 2},
           NEW K, NEW full, Replays(K, full, A, now, b),
           full.security = NoSecurity \/ full.security.build = b
    PROVE  \A j \in 0 .. Len(A) : K[j].roster = full.roster /\ K[j].security = full.security
<1> DEFINE H == {j \in 0 .. Len(A) : K[j].roster = full.roster /\ K[j].security = full.security}
<1>1. /\ Len(A) \in Nat /\ DOMAIN A = 1 .. Len(A) /\ full \in StoreUpTo(now, Len(A))
      /\ AsideRead(full, A, Len(A)) /\ full.roster \in [Conns -> Nat]
  BY LengthsAre DEF Replays, Sound, Read, StoreUpTo
<1>2. 0 \in H
  BY <1>1 DEF Replays
<1>3. ASSUME NEW k \in 1 .. Len(A), k - 1 \in H PROVE k \in H
  <2> DEFINE s == K[k - 1]
             t == K[k]
             u == DeriveAccountEntries(s, A[k], b)
  <2>1. /\ k \in DOMAIN A /\ Sound(s, A, now, DOMAIN A, {}) /\ t = Derive(s, A[k], b)
        /\ Aside(s, u) /\ Beside(u, t, A[k], b)
    BY ReplayStep
  <2>2. u \in StoreUpTo(now, Len(A)) /\ t \in StoreUpTo(now, Len(A))
    <3>1. {} \in SUBSET DOMAIN A
      OBVIOUS
    <3>2. Ends(s, A, k, now, DOMAIN A, {}, b)
      BY <2>1, <3>1, DeriveEnds
    <3>3. Derives(s, Derive(s, A[k], b), A, now, DOMAIN A, {}, b, k)
      BY <2>1, <3>1, DeriveKeeps
    <3> HIDE DEF s, t
    <3> QED
      BY <2>1, <3>2, <3>3 DEF Ends, Derives, Sound
  <2>3. u.roster = full.roster /\ u.security = full.security
    BY <1>3, <2>1 DEF Aside
  <2> HIDE DEF u, s, t
  <2>4. t.roster = full.roster
    <3>1. t.roster \in [Conns -> Nat]
      BY <2>2 DEF StoreUpTo
    <3>2. ASSUME NEW c \in Conns PROVE t.roster[c] = full.roster[c]
      <4>1. Roster(A[k]) => full.roster[A[k].conn] >= DayOf(A[k].at)
        BY <1>1, <2>1 DEF AsideRead
      <4>2. DayOf(A[k].at) \in Nat /\ full.roster[c] \in Nat
        BY <1>1, <2>1, BodyIs
      <4>3. CASE A[k].says.kind = "accounts"
        <5>1. t.roster[c] = IF c = A[k].conn /\ u.roster[c] < DayOf(A[k].at)
                            THEN DayOf(A[k].at) ELSE u.roster[c]
          BY <2>1, <4>3 DEF Beside, RosterMoves
        <5>2. c = A[k].conn => full.roster[c] >= DayOf(A[k].at)
          BY <4>1, <4>3 DEF Roster
        <5> QED
          BY <2>3, <4>2, <5>1, <5>2
      <4>4. CASE A[k].says.kind # "accounts"
        BY <2>1, <2>3, <4>4 DEF Beside
      <4> QED
        BY <4>3, <4>4
    <3> QED
      BY <1>1, <3>1, <3>2
  <2>5. t.security = full.security
    <3>1. CASE A[k].says.kind = "holdings"
      <4>1. t.security = UpsertSecurity(u, A[k], b).security
        BY <2>1, <3>1 DEF Beside
      <4>2. /\ full.security.at # 0 /\ full.security.created <= A[k].at
            /\ A[k].at <= full.security.at
        BY <1>1, <3>1 DEF AsideRead
      <4>3. full.security.build = b
        BY <4>2 DEF NoSecurity
      <4>4. LET old == u.security
                new == UpsertSecurity(u, A[k], b).security
                at == A[k].at
            IN /\ new.at # 0 /\ new.created <= at /\ at <= new.at
               /\ old.at # 0 => /\ new.created <= old.created /\ old.at <= new.at
                                /\ old.created \in Nat /\ old.at \in Nat
               /\ new.created \in Nat /\ new.at \in Nat
               /\ old.at # 0 /\ old.created <= at /\ at <= old.at /\ old.build = b => new = old
        BY <2>1, <2>2, SecurityReads
      <4> QED
        BY <2>3, <4>1, <4>2, <4>3, <4>4
    <3>2. CASE A[k].says.kind # "holdings"
      BY <2>1, <2>3, <3>2 DEF Beside
    <3> QED
      BY <3>1, <3>2
  <2> QED
    BY <2>4, <2>5 DEF t
<1> HIDE DEF H
<1>4. \A j \in 0 .. Len(A) : j \in H
  BY <1>1, <1>2, <1>3, UpTo
<1> QED
  BY <1>4 DEF H

\* The cursor of a connection is of the last of its pages among the first j
\* bodies that has one, and its stamp of the last that gives one; or neither was
\* ever replaced.
LastPageOf(A, c, ends, j, k) ==
    /\ k \in 1 .. j /\ IsPage(A[k], c, ends)
    /\ \A l \in 1 .. j : IsPage(A[l], c, ends) => l <= k

CursorIs(d, e, A, c, j) ==
    \/ d.item = e.item /\ d.raw = e.raw
    \/ \E k \in 1 .. j : /\ LastPageOf(A, c, {"cursor"}, j, k)
                         /\ d.item = A[k].item /\ d.raw = A[k].raw

StampIs(d, e, A, c, j) ==
    \/ d.at = e.at /\ d.error = e.error
    \/ \E k \in 1 .. j : /\ LastPageOf(A, c, {"cursor", "complete"}, j, k)
                         /\ d.at = A[k].at /\ d.error = FALSE

ProgressIs(s, t, A, j) ==
    \A c \in Conns : /\ CursorIs(t.domain[c], s.domain[c], A, c, j)
                     /\ StampIs(t.domain[c], s.domain[c], A, c, j)

\* The progress it leaves is of each connection's last page.
LEMMA ReplayProgress ==
    ASSUME NEW now \in Nat, NEW A \in Archives(now), Plain(A), NEW b \in {1, 2},
           NEW K, NEW full, Replays(K, full, A, now, b)
    PROVE  \A j \in 0 .. Len(A) : ProgressIs(full, K[j], A, j)
<1> DEFINE H == {j \in 0 .. Len(A) : ProgressIs(full, K[j], A, j)}
<1>1. Len(A) \in Nat
  BY LengthsAre
<1>2. 0 \in H
  BY <1>1 DEF Replays, ProgressIs, CursorIs, StampIs
<1>3. ASSUME NEW k \in 1 .. Len(A), k - 1 \in H PROVE k \in H
  <2> DEFINE s == K[k - 1]
             t == K[k]
             u == DeriveAccountEntries(s, A[k], b)
  <2>1. k \in Nat /\ Aside(s, u) /\ Beside(u, t, A[k], b)
    BY ReplayStep
  <2>2. ProgressIs(full, s, A, k - 1) /\ u.domain = s.domain
    BY <1>3, <2>1 DEF Aside
  <2>3. k \in 1 .. k /\ 1 .. k = (1 .. k - 1) \cup {k} /\ \A l \in 1 .. k : l <= k
    BY <1>1
  <2>4. s.domain \in [Conns -> ProgressUpTo(Len(A))]
    BY ReplayStep DEF Sound, StoreUpTo
  <2>9. A[k].says.ends \in Endings
    BY <1>1, LengthsAre, BodyIs DEF Template
  <2> HIDE DEF u, s, t
  <2>5. ASSUME NEW c \in Conns, NEW ends, IsPage(A[k], c, ends)
        PROVE  LastPageOf(A, c, ends, k, k)
    BY <2>3, <2>5 DEF LastPageOf
  <2>6. ASSUME NEW c \in Conns, NEW ends, ~ IsPage(A[k], c, ends)
        PROVE  \A l : LastPageOf(A, c, ends, k - 1, l) => LastPageOf(A, c, ends, k, l)
    BY <2>3, <2>6 DEF LastPageOf
  <2>7. ASSUME NEW c \in Conns
        PROVE  /\ CursorIs(t.domain[c], full.domain[c], A, c, k)
               /\ StampIs(t.domain[c], full.domain[c], A, c, k)
    <3>1. /\ CursorIs(s.domain[c], full.domain[c], A, c, k - 1)
          /\ StampIs(s.domain[c], full.domain[c], A, c, k - 1)
      BY <2>2 DEF ProgressIs
    <3>2. CASE IsPage(A[k], c, {"cursor"})
      <4>1. t.domain[c] = Progress(A[k])
        BY <2>1, <3>2 DEF Beside, ProgressMoves, IsPage
      <4>2. LastPageOf(A, c, {"cursor"}, k, k) /\ LastPageOf(A, c, {"cursor", "complete"}, k, k)
        BY <2>5, <3>2 DEF IsPage
      <4>3. /\ t.domain[c].item = A[k].item /\ t.domain[c].raw = A[k].raw
            /\ t.domain[c].at = A[k].at /\ t.domain[c].error = FALSE
        BY <4>1 DEF Progress
      <4>4. CursorIs(t.domain[c], full.domain[c], A, c, k)
        BY <2>3, <4>2, <4>3 DEF CursorIs
      <4>5. StampIs(t.domain[c], full.domain[c], A, c, k)
        BY <2>3, <4>2, <4>3 DEF StampIs
      <4> QED
        BY <4>4, <4>5
    <3>3. CASE ~ IsPage(A[k], c, {"cursor"}) /\ IsPage(A[k], c, {"cursor", "complete"})
      <4>1. t.domain[c] = [s.domain[c] EXCEPT !.at = A[k].at, !.error = FALSE]
        BY <2>1, <2>2, <3>3 DEF Beside, ProgressMoves, IsPage
      <4>2. s.domain[c] \in ProgressUpTo(Len(A))
        BY <2>4
      <4>3. /\ t.domain[c].item = s.domain[c].item /\ t.domain[c].raw = s.domain[c].raw
            /\ t.domain[c].at = A[k].at /\ t.domain[c].error = FALSE
        BY <4>1, <4>2 DEF ProgressUpTo
      <4>4. LastPageOf(A, c, {"cursor", "complete"}, k, k)
        BY <2>5, <3>3
      <4>5. \A l : LastPageOf(A, c, {"cursor"}, k - 1, l) => LastPageOf(A, c, {"cursor"}, k, l)
        BY <2>6, <3>3
      <4>6. CursorIs(t.domain[c], full.domain[c], A, c, k)
        BY <2>3, <3>1, <4>3, <4>5 DEF CursorIs
      <4> QED
        BY <2>3, <4>3, <4>4, <4>6 DEF StampIs
    <3>4. CASE ~ IsPage(A[k], c, {"cursor"}) /\ ~ IsPage(A[k], c, {"cursor", "complete"})
      <4>1. t.domain[c] = s.domain[c]
        BY <1>3, <2>1, <2>2, <2>9, <3>4 DEF Beside, ProgressMoves, IsPage, Endings
      <4>2. \A l : /\ LastPageOf(A, c, {"cursor"}, k - 1, l) => LastPageOf(A, c, {"cursor"}, k, l)
                   /\ LastPageOf(A, c, {"cursor", "complete"}, k - 1, l)
                        => LastPageOf(A, c, {"cursor", "complete"}, k, l)
        BY <2>6, <3>4
      <4> QED
        BY <2>3, <3>1, <4>1, <4>2 DEF CursorIs, StampIs
    <3> QED
      BY <3>2, <3>3, <3>4
  <2>8. ProgressIs(full, t, A, k)
    BY <2>7 DEF ProgressIs
  <2> QED
    BY <2>8 DEF t
<1> HIDE DEF H
<1>4. \A j \in 0 .. Len(A) : j \in H
  BY <1>1, <1>2, <1>3, UpTo
<1> QED
  BY <1>4 DEF H

\* Only the pass over the whole ledger pairs.
Unpaired(s) == \A l \in DOMAIN s.ledger : s.ledger[l].pair = 0

\* A change leaves the pairs to the pairing pass.
LEMMA ChangeUnpaired ==
    ASSUME NEW now, NEW n, NEW s \in StoreUpTo(now, n), NEW body, NEW m, NEW b, Unpaired(s)
    PROVE  Unpaired(ApplyChange(s, body, m, b))
<1> DEFINE i == AccountId(s, body, m)
           rows == TxRow(s, i, m)
           live == {l \in rows : ~ s.ledger[l].removed}
           t == ApplyChange(s, body, m, b)
<1>1. s.ledger \in Seq(LedgerRowUpTo(n))
  BY DEF StoreUpTo
<1>2. rows \in SUBSET DOMAIN s.ledger /\ rows \in SUBSET Nat /\ live \in SUBSET rows
  BY <1>1 DEF TxRow
<1> HIDE DEF rows
<1>3. CASE t = s
  BY <1>3
<1>4. CASE t = [s EXCEPT !.ok = FALSE]
  <2>1. t.ledger = s.ledger
    BY <1>4 DEF StoreUpTo
  <2> HIDE DEF t
  <2>2. Unpaired(t)
    BY <2>1 DEF Unpaired
  <2> QED
    BY <2>2 DEF t
<1>5. CASE t = MarkRemoved(s, body, m) /\ live # {}
  <2> DEFINE l == Min(live)
             new == [s.ledger[l] EXCEPT !.removed = TRUE, !.at = body.at]
  <2>1. l \in DOMAIN s.ledger
    <3> HIDE DEF live
    <3> QED
      BY <1>2, <1>5, Extremes
  <2>2. t = [s EXCEPT !.ledger[l] = new]
    BY <1>5 DEF MarkRemoved, rows
  <2> HIDE DEF l
  <2>3. t.ledger = [s.ledger EXCEPT ![l] = new] /\ new.pair = s.ledger[l].pair
    BY <1>1, <2>1, <2>2 DEF StoreUpTo, LedgerRowUpTo
  <2> HIDE DEF new, t
  <2>4. Unpaired(t)
    BY <1>1, <2>1, <2>3 DEF Unpaired
  <2> QED
    BY <2>4 DEF t
<1>6. CASE t = WriteTransaction(s, body, m, b) /\ rows # {}
  <2> DEFINE l == Min(rows)
             new == [s.ledger[l] EXCEPT !.pairable = body.says.changes[m] = "transfer",
                        !.removed = FALSE, !.at = body.at, !.raw = body.raw, !.build = b]
  <2>1. l \in DOMAIN s.ledger
    BY <1>2, <1>6, Extremes
  <2>2. t = [s EXCEPT !.ledger[l] = new]
    BY <1>6 DEF WriteTransaction, rows
  <2> HIDE DEF l
  <2>3. t.ledger = [s.ledger EXCEPT ![l] = new]
    BY <2>2 DEF StoreUpTo
  <2>4. new.pair = s.ledger[l].pair
    <3>1. s.ledger[l] \in LedgerRowUpTo(n)
      BY <1>1, <2>1
    <3> DEFINE q == body.says.changes[m] = "transfer"
    <3> HIDE DEF q
    <3>2. new = [s.ledger[l] EXCEPT !.pairable = q, !.removed = FALSE, !.at = body.at,
                                    !.raw = body.raw, !.build = b]
      BY DEF q
    <3> HIDE DEF new
    <3> QED
      BY <3>1, <3>2 DEF LedgerRowUpTo
  <2> HIDE DEF new, t
  <2>5. Unpaired(t)
    BY <1>1, <2>1, <2>3, <2>4 DEF Unpaired
  <2> QED
    BY <2>5 DEF t
<1>7. CASE t = WriteTransaction(s, body, m, b) /\ rows = {}
  <2> DEFINE new == [account |-> i, source |-> m, pairable |-> body.says.changes[m] = "transfer",
                     removed |-> FALSE, pair |-> 0, override |-> FALSE, at |-> body.at,
                     raw |-> body.raw, build |-> b]
  <2>1. t = [s EXCEPT !.ledger = Append(s.ledger, new)]
    BY <1>7 DEF WriteTransaction, rows, StoreUpTo
  <2>2. new.pair = 0
    OBVIOUS
  <2> HIDE DEF new
  <2>3. t.ledger = Append(s.ledger, new)
    BY <2>1 DEF StoreUpTo
  <2> HIDE DEF t
  <2>4. Unpaired(t)
    BY <1>1, <2>2, <2>3, AppendIs DEF Unpaired
  <2> QED
    BY <2>4 DEF t
<1>8. \/ t = s \/ t = [s EXCEPT !.ok = FALSE] \/ t = WriteTransaction(s, body, m, b)
      \/ t = MarkRemoved(s, body, m)
  BY DEF ApplyChange
<1>9. live = {} => MarkRemoved(s, body, m) = s
  BY DEF MarkRemoved, rows
<1> HIDE DEF t, live
<1>10. Unpaired(t)
  BY <1>3, <1>4, <1>5, <1>6, <1>7, <1>8, <1>9 DEF t
<1> QED
  BY <1>10 DEF t

\* So the replay itself pairs nothing.
LEMMA ReplayUnpaired ==
    ASSUME NEW now \in Nat, NEW A \in Archives(now), Plain(A), NEW b \in {1, 2},
           NEW K, NEW full, Replays(K, full, A, now, b)
    PROVE  \A j \in 0 .. Len(A) : Unpaired(K[j])
<1> DEFINE H == {j \in 0 .. Len(A) : Unpaired(K[j])}
<1>1. Len(A) \in Nat
  BY LengthsAre
<1>2. 0 \in H
  BY <1>1 DEF Replays, Start, Unpaired
<1>3. ASSUME NEW k \in 1 .. Len(A), k - 1 \in H PROVE k \in H
  <2> DEFINE s == K[k - 1]
             t == K[k]
             u == DeriveAccountEntries(s, A[k], b)
             v == ChangesOf(u, A[k], b)
  <2>1. /\ k \in DOMAIN A /\ Sound(s, A, now, DOMAIN A, {}) /\ t = Derive(s, A[k], b)
        /\ Aside(s, u) /\ Beside(u, t, A[k], b)
    BY ReplayStep
  <2>2. Ends(s, A, k, now, DOMAIN A, {}, b)
    <3>1. {} \in SUBSET DOMAIN A
      OBVIOUS
    <3> HIDE DEF s, t
    <3> QED
      BY <2>1, <3>1, DeriveEnds
  <2>3. Sound(u, A, now, DOMAIN A, {}) /\ (A[k].says.kind = "page" => OnlyProgress(v, t))
    BY <2>1, <2>2 DEF Ends
  <2>4. Unpaired(u)
    BY <1>3, <2>1 DEF Aside, Unpaired
  <2> HIDE DEF s, u
  <2>5. Unpaired(v)
    <3>1. PICK it : ChangesTrace(it, u, A[k], b) /\ AllLed(it, Moves, u, A, now, DOMAIN A, {}, b)
      BY <2>1, <2>3, ChangesRun
    <3> DEFINE G == {T \in SUBSET Moves : Unpaired(it[T])}
    <3>2. /\ it[{}] = u /\ it[Moves] = v
          /\ \A T \in SUBSET Moves : it[T] \in StoreUpTo(now, Len(A))
          /\ \A T \in SUBSET Moves : T # {} =>
                Max(T) \in T /\ it[T] = ApplyChange(it[T \ {Max(T)}], A[k], Max(T), b)
      BY <3>1 DEF ChangesTrace, AllLed, Leads, Sound, ChangesOf
    <3> HIDE DEF v
    <3>3. {} \in G
      BY <2>4, <3>2
    <3>4. ASSUME NEW T \in SUBSET Moves, T # {} PROVE \E x \in T : T \ {x} \in G => T \in G
      <4>1. Max(T) \in T /\ it[T] = ApplyChange(it[T \ {Max(T)}], A[k], Max(T), b)
            /\ it[T \ {Max(T)}] \in StoreUpTo(now, Len(A))
        BY <3>2, <3>4
      <4>2. T \ {Max(T)} \in G => Unpaired(it[T])
        BY <4>1, ChangeUnpaired
      <4> QED
        BY <4>1, <4>2
    <3>5. IsFiniteSet(Moves)
      BY RealAssumption, FS_Subset
    <3> HIDE DEF G
    <3>6. \A T \in SUBSET Moves : T \in G
      BY <3>3, <3>4, <3>5, SubsetInduction
    <3> QED
      BY <3>2, <3>6 DEF G
  <2> HIDE DEF v, t
  <2>6. Unpaired(t)
    BY <2>1, <2>3, <2>4, <2>5 DEF Beside, OnlyProgress, Unpaired
  <2> QED
    BY <2>6 DEF t
<1> HIDE DEF H
<1>4. \A j \in 0 .. Len(A) : j \in H
  BY <1>1, <1>2, <1>3, UpTo
<1> QED
  BY <1>4 DEF H

-----------------------------------------------------------------------------
(* Two stores that read all of the archive and answer with the same rows *)

Twins(s, t, A, now) ==
    /\ Sound(s, A, now, DOMAIN A, {}) /\ Table(s, A) /\ Read(s, A, Len(A))
    /\ Sound(t, A, now, DOMAIN A, {}) /\ Table(t, A) /\ Read(t, A, Len(A))
    /\ SameRows(s, t, A)

\* The latest entry of a row says who wrote it last.
LEMMA TwinAccounts ==
    ASSUME NEW now \in Nat, NEW A \in Archives(now), Plain(A),
           NEW s, NEW t, Twins(s, t, A, now), Still(s, t)
    PROVE  t.accounts = s.accounts
<1> DEFINE n == Len(A)
           E == Entries(A, n)
<1>1. /\ n \in Nat /\ s \in StoreUpTo(now, n) /\ t \in StoreUpTo(now, n)
      /\ RowsRead(s, A, E) /\ RowsRead(t, A, E) /\ Table(s, A) /\ Table(t, A) /\ SameRows(s, t, A)
  BY LengthsAre DEF Twins, Sound, Read
<1>2. \A e \in E : \A i : RowOfEntry(s, A, e, i) <=> RowOfEntry(t, A, e, i)
  <2>1. HasRows(s, A, E)
    BY <1>1, CoveredHaveRows
  <2> HIDE DEF E
  <2> QED
    BY <1>1, <2>1, RowsStay DEF HasRows, RowOfEntry
<1>3. ASSUME NEW i \in DOMAIN s.accounts PROVE t.accounts[i] = s.accounts[i]
  <2> DEFINE a == s.accounts[i]
             b == t.accounts[i]
  <2>1. i \in DOMAIN t.accounts /\ a \in AccountUpTo(now) /\ b \in AccountUpTo(now)
    <3>1. i \in DOMAIN t.accounts
      BY DEF Still
    <3> QED
      BY <1>1, <3>1, AccountsTyped
  <2>2. PICK j \in DOMAIN A : a.source[2] \in A[j].says.listed /\ A[j].item = a.source[1]
    BY <1>1 DEF Table, RowStands
  <2>3. <<j, a.source[2]>> \in E /\ RowOfEntry(s, A, <<j, a.source[2]>>, i)
    <3>1. a.source[2] \in Real /\ j \in 1 .. n
      BY <1>1, <2>2, AccountsTyped, BodyIs
    <3> HIDE DEF n
    <3>2. <<j, a.source[2]>> \in E
      BY <2>2, <3>1 DEF Entries
    <3> QED
      BY <2>2, <3>2 DEF RowOfEntry, IsRow
  <2>4. PICK f : Latest(s, A, E, i, f)
    <3>1. E \in SUBSET Entries(A, n)
      OBVIOUS
    <3> HIDE DEF E, n, a
    <3> QED
      BY <1>1, <2>3, <3>1, LatestExists
  <2>5. Latest(t, A, E, i, f) /\ f \in E
    BY <1>2, <2>4 DEF Latest
  <2>6. AsListed(a, A[f[1]]) /\ AsListed(b, A[f[1]])
    BY <1>1, <2>1, <2>4, <2>5 DEF RowsRead
  <2>7. /\ b.source[2] = a.source[2] /\ b.persistent = a.persistent
        /\ b.first = a.first /\ b.last = a.last /\ b.active = a.active
    BY DEF Still
  <2> HIDE DEF a, b
  <2>8. a.conn = b.conn /\ a.source[1] = b.source[1] /\ a.touched = b.touched
    BY <2>6 DEF AsListed
  <2>9. a.source = b.source
    <3>1. a.source \in (1 .. MaxItems) \X Real /\ b.source \in (1 .. MaxItems) \X Real
      BY <2>1 DEF AccountUpTo
    <3> QED
      BY <2>7, <2>8, <3>1
  <2>10. a = b
    BY <2>1, <2>7, <2>8, <2>9 DEF AccountUpTo
  <2> QED
    BY <2>10 DEF a, b
<1>4. /\ s.accounts \in Seq(AccountUpTo(now)) /\ t.accounts \in Seq(AccountUpTo(now))
      /\ DOMAIN s.accounts = DOMAIN t.accounts
  BY <1>1 DEF StoreUpTo, Still
<1> QED
  BY <1>3, <1>4

\* What was put forward is what the bodies say of the same rows.
LEMMA TwinOffers ==
    ASSUME NEW now \in Nat, NEW A \in Archives(now), Plain(A),
           NEW s, NEW t, Twins(s, t, A, now)
    PROVE  t.offers = s.offers
<1> DEFINE n == Len(A)
           E == Entries(A, n)
           P == Stated(A, n)
<1>1. /\ n \in 0 .. Len(A)
      /\ RowsRead(s, A, E) /\ OffersRead(s, A, E, P) /\ OffersRead(t, A, E, P)
      /\ Table(t, A) /\ SameRows(s, t, A)
  BY LengthsAre DEF Twins, Read
<1>2. HasRows(s, A, E) /\ HasRows(s, A, P)
  BY <1>1, CoveredHaveRows, StatedHaveRows
<1> HIDE DEF E, P, n
<1>3. /\ \A e \in E : \A o : BalanceOf(s, A, e, o) <=> BalanceOf(t, A, e, o)
      /\ \A e \in P : \A o : PositionOf(s, A, e, o) <=> PositionOf(t, A, e, o)
  BY <1>1, <1>2, OffersStay
<1>4. \A o : o \in t.offers <=> o \in s.offers
  BY <1>1, <1>3 DEF OffersRead
<1> QED
  BY <1>4

\* The first offer of every day decides a table, but for the build.
LEMMA SameFirsts ==
    ASSUME NEW n, NEW b, NEW offers, NEW T \in SUBSET CaptureUpTo(n), NEW U \in SUBSET CaptureUpTo(n),
           n \in Nat, FirstOfEachDay(T, offers), FirstOfEachDay(U, offers),
           \A h \in T \cup U : h.build = b
    PROVE  T \subseteq U
<1> SUFFICES ASSUME NEW h \in T PROVE h \in U
  OBVIOUS
<1>1. PICK o \in offers : o.key = h.key /\ o.at = h.at /\ o.raw = h.raw
  BY DEF FirstOfEachDay
<1>2. PICK g \in U : g.key = o.key
  BY DEF FirstOfEachDay
<1>3. PICK p \in offers : p.key = g.key /\ p.at = g.at /\ p.raw = g.raw
  BY DEF FirstOfEachDay
<1>4. NotAfter(h, p) /\ NotAfter(g, o)
  BY <1>1, <1>2, <1>3 DEF FirstOfEachDay
<1>5. /\ h \in CaptureUpTo(n) /\ g \in CaptureUpTo(n) /\ h.build = g.build
      /\ h.at \in Nat /\ h.raw \in Nat /\ g.at \in Nat /\ g.raw \in Nat
  BY DEF CaptureUpTo
<1>6. h.at = g.at /\ h.raw = g.raw
  BY <1>1, <1>3, <1>4, <1>5 DEF NotAfter
<1>7. h = g
  BY <1>1, <1>2, <1>5, <1>6 DEF CaptureUpTo
<1> QED
  BY <1>2, <1>7

\* The same offers leave the same captures.
LEMMA TwinCaptures ==
    ASSUME NEW now \in Nat, NEW A \in Archives(now), Plain(A), NEW b,
           NEW s, NEW t, Twins(s, t, A, now), Stamped(s, b), Stamped(t, b)
    PROVE  t.balances = s.balances /\ t.holdings = s.holdings /\ t.refused = s.refused
<1> DEFINE n == Len(A)
<1>1. /\ n \in Nat /\ s \in StoreUpTo(now, n) /\ t \in StoreUpTo(now, n)
      /\ CapturesSound(s, A) /\ CapturesSound(t, A) /\ t.offers = s.offers
  BY LengthsAre, TwinOffers DEF Twins, Sound
<1> HIDE DEF n
<1>2. /\ s.balances \in SUBSET CaptureUpTo(n) /\ t.balances \in SUBSET CaptureUpTo(n)
      /\ s.holdings \cup s.refused \in SUBSET CaptureUpTo(n)
      /\ t.holdings \cup t.refused \in SUBSET CaptureUpTo(n)
      /\ \A h \in Captured(s) \cup Captured(t) : h.build = b
  BY <1>1 DEF StoreUpTo, Stamped
<1>3. OffersOf(t, "balance") = OffersOf(s, "balance") /\ OffersOf(t, "position") = OffersOf(s, "position")
  BY <1>1 DEF OffersOf
<1>4. t.balances = s.balances
  <2> DEFINE S == s.balances
             T == t.balances
             O == OffersOf(s, "balance")
  <2>1. (\A h \in S \cup T : h.build = b) /\ (\A h \in T \cup S : h.build = b)
    BY <1>2 DEF Captured
  <2>2. FirstOfEachDay(S, O) /\ FirstOfEachDay(T, O)
    BY <1>1, <1>3 DEF CapturesSound
  <2>3. S \in SUBSET CaptureUpTo(n) /\ T \in SUBSET CaptureUpTo(n)
    BY <1>2
  <2> HIDE DEF S, T, O
  <2>4. S \subseteq T
    BY <1>1, <2>1, <2>2, <2>3, SameFirsts
  <2>5. T \subseteq S
    BY <1>1, <2>1, <2>2, <2>3, SameFirsts
  <2> QED
    BY <2>4, <2>5 DEF S, T
<1>5. t.holdings \cup t.refused = s.holdings \cup s.refused
  <2> DEFINE S == s.holdings \cup s.refused
             T == t.holdings \cup t.refused
             O == OffersOf(s, "position")
  <2>1. (\A h \in S \cup T : h.build = b) /\ (\A h \in T \cup S : h.build = b)
    BY <1>2 DEF Captured
  <2>2. FirstOfEachDay(S, O) /\ FirstOfEachDay(T, O)
    BY <1>1, <1>3 DEF CapturesSound
  <2>3. S \in SUBSET CaptureUpTo(n) /\ T \in SUBSET CaptureUpTo(n)
    BY <1>2
  <2> HIDE DEF S, T, O
  <2>4. S \subseteq T
    BY <1>1, <2>1, <2>2, <2>3, SameFirsts
  <2>5. T \subseteq S
    BY <1>1, <2>1, <2>2, <2>3, SameFirsts
  <2> QED
    BY <2>4, <2>5 DEF S, T
<1>6. /\ \A h \in s.holdings \cup t.holdings : Offer("position", h.key, h, FALSE) \in s.offers
      /\ \A h \in s.refused \cup t.refused : Offer("position", h.key, h, TRUE) \in s.offers
      /\ \A o \in OffersOf(s, "position") : o.refused = A[o.raw].says.refused
  BY <1>1 DEF CapturesSound, PositionsAreOfBodies
<1>7. ASSUME NEW h, h \in s.holdings \cup t.holdings, h \in s.refused \cup t.refused PROVE FALSE
  <2>1. /\ Offer("position", h.key, h, FALSE) \in OffersOf(s, "position")
        /\ Offer("position", h.key, h, TRUE) \in OffersOf(s, "position")
    BY <1>6, <1>7 DEF OffersOf, Offer
  <2>2. A[h.raw].says.refused = FALSE /\ A[h.raw].says.refused = TRUE
    BY <1>6, <2>1 DEF Offer
  <2> QED
    BY <2>2
<1> QED
  BY <1>4, <1>5, <1>7

\* What is restored and paired again is what was there.
LEMMA SameLedger ==
    ASSUME NEW now \in Nat, NEW A \in Archives(now), NEW b,
           NEW s, s \in StoreUpTo(now, Len(A)), NEW x, x \in StoreUpTo(now, Len(A)),
           NEW y, y \in StoreUpTo(now, Len(A)), y = PairedStore(x),
           NEW t, t \in StoreUpTo(now, Len(A)), t = RestoreOperatorState(y, Preserved(s)),
           Alike(s, x), Unpaired(x), Stamped(s, b), Stamped(x, b),
           PairsCurrent(s), \A k \in DOMAIN s.ledger : s.ledger[k].pair # 0 => s.ledger[k].pairable,
           LedgerRead(s, A, Entries(A, Len(A)))
    PROVE  t.ledger = s.ledger
<1>1. /\ Alike(x, y) /\ Legs(y) = Legs(x)
      /\ \A k \in DOMAIN x.ledger :
           /\ y.ledger[k].build = x.ledger[k].build
           /\ y.ledger[k].override = x.ledger[k].override
           /\ y.ledger[k].pair = IF x.ledger[k].pairable THEN PairId(k, PairTransfers(Legs(x)))
                                 ELSE x.ledger[k].pair
  BY PairedIs
<1>2. /\ Alike(y, t)
      /\ \A k \in DOMAIN y.ledger :
           /\ t.ledger[k].build = y.ledger[k].build /\ t.ledger[k].pair = y.ledger[k].pair
           /\ t.ledger[k].override = (<<y.ledger[k].account, y.ledger[k].source>> \in Preserved(s))
  BY RestoredIs
<1>3. Legs(x) = Legs(s)
  BY DEF Alike, SameEntry, Legs
<1>4. Alike(s, t) /\ Alike(s, y)
  BY <1>1, <1>2, AlikeOn
<1>5. /\ DOMAIN s.ledger = DOMAIN x.ledger /\ DOMAIN s.ledger = DOMAIN y.ledger
      /\ DOMAIN s.ledger = DOMAIN t.ledger
  BY <1>1, <1>2 DEF Alike
<1>6. ASSUME NEW k \in DOMAIN s.ledger PROVE t.ledger[k] = s.ledger[k]
  <2> DEFINE v == s.ledger[k]
             w == t.ledger[k]
             pairs == PairTransfers(Legs(s))
  <2>1. v \in LedgerRowUpTo(Len(A)) /\ w \in LedgerRowUpTo(Len(A))
    BY <1>5 DEF StoreUpTo
  <2>2. SameEntry(v, w)
    BY <1>4 DEF Alike
  <2>3. v.build = w.build
    <3>1. s.ledger[k].build = b /\ x.ledger[k].build = b
      BY <1>5 DEF Stamped
    <3>2. t.ledger[k].build = x.ledger[k].build
      BY <1>1, <1>2, <1>5
    <3> QED
      BY <3>1, <3>2
  <2>4. v.pair = w.pair
    <3>1. v.pairable = x.ledger[k].pairable /\ x.ledger[k].pair = 0
      BY <1>5 DEF Alike, SameEntry, Unpaired
    <3>2. w.pair = IF v.pairable THEN PairId(k, pairs) ELSE 0
      BY <1>1, <1>2, <1>3, <1>5, <3>1, ZenonT(40)
    <3>3. v.pair = IF v.pairable THEN PairId(k, pairs) ELSE 0
      BY DEF PairsCurrent
    <3> QED
      BY <3>2, <3>3
  <2>5. v.override = w.override
    <3>1. w.override = (<<v.account, v.source>> \in Preserved(s))
      <4>1. y.ledger[k].account = s.ledger[k].account /\ y.ledger[k].source = s.ledger[k].source
        BY <1>4 DEF Alike, SameEntry
      <4>2. t.ledger[k].override = (<<y.ledger[k].account, y.ledger[k].source>> \in Preserved(s))
        BY <1>2, <1>5
      <4> QED
        BY <4>1, <4>2
    <3>2. v.override <=> <<v.account, v.source>> \in Preserved(s)
      <4>1. v.override => <<v.account, v.source>> \in Preserved(s)
        BY DEF Preserved
      <4>2. ASSUME <<v.account, v.source>> \in Preserved(s) PROVE v.override
        <5>1. PICK j \in DOMAIN s.ledger :
                 /\ s.ledger[j].override
                 /\ <<v.account, v.source>> = <<s.ledger[j].account, s.ledger[j].source>>
          BY <4>2 DEF Preserved
        <5>2. s.ledger[j].account = v.account
          BY <5>1
        <5>3. j = k
          BY <5>2 DEF LedgerRead
        <5> QED
          BY <5>1, <5>3
      <4> QED
        BY <4>1, <4>2
    <3>3. v.override \in BOOLEAN
      BY <2>1 DEF LedgerRowUpTo
    <3> HIDE DEF v, w
    <3> QED
      BY <3>1, <3>2, <3>3
  <2> HIDE DEF v, w
  <2>6. v = w
    BY <2>1, <2>2, <2>3, <2>4, <2>5 DEF SameEntry, LedgerRowUpTo
  <2> QED
    BY <2>6 DEF v, w
<1>7. s.ledger \in Seq(LedgerRowUpTo(Len(A))) /\ t.ledger \in Seq(LedgerRowUpTo(Len(A)))
  BY DEF StoreUpTo
<1> QED
  BY <1>5, <1>6, <1>7

-----------------------------------------------------------------------------
(* Without a reason, a rebuild reproduces the store *)

\* The archive's own reasons, denied.
LEMMA PlainWithoutReason ==
    ASSUME RInv, ~ OutOfOrder, ~ LateIdentity, ~ UsedUnlisted
    PROVE  Plain(archive)
<1>1. archive \in Archives(clock) /\ clock \in Nat /\ DOMAIN archive \in SUBSET Nat
  <2>1. IInv
    BY DEF RInv
  <2> QED
    BY <2>1, StateIs
<1>2. ItemsApart(archive)
  BY ItemsAreApart DEF RInv
<1>3. IdentityFromTheStart(archive)
  <2> SUFFICES ASSUME NEW j \in DOMAIN archive, NEW k \in DOMAIN archive,
                      NEW r \in archive[j].says.listed \cap archive[k].says.listed,
                      ~ archive[j].says.stated, archive[k].says.stated
               PROVE  archive[j].item = archive[k].item
    BY DEF IdentityFromTheStart
  <2>1. r \in Real /\ archive[j] \in Bodies /\ archive[k] \in Bodies
    BY <1>1, BodyIs DEF Bodies
  <2> QED
    BY <2>1 DEF LateIdentity
<1>4. InOrder(archive)
  <2> SUFFICES ASSUME NEW j \in DOMAIN archive, NEW k \in DOMAIN archive, j <= k
               PROVE  archive[j].at <= archive[k].at
    BY DEF InOrder
  <2>1. j \in Nat /\ k \in Nat /\ archive[j].at \in Nat /\ archive[k].at \in Nat
    BY <1>1, BodyIs
  <2>2. CASE j = k
    BY <2>1, <2>2
  <2>3. CASE j < k
    <3>1. ~ (archive[k].at < archive[j].at)
      BY <2>3 DEF OutOfOrder
    <3> QED
      BY <2>1, <3>1
  <2> QED
    BY <2>1, <2>2, <2>3
<1>5. UsedAreListed(archive)
  BY DEF UsedAreListed, UsedUnlisted
<1> QED
  BY <1>2, <1>3, <1>4, <1>5 DEF Plain

\* The last page of each connection wrote its progress, and does again.
LEMMA ProgressStands ==
    ASSUME IInv, InOrder(archive), ~ ProgressWrittenSince,
           NEW x, x \in StoreUpTo(clock, Len(archive)),
           ProgressIs(store, x, archive, Len(archive))
    PROVE  x.domain = store.domain
<1>1. /\ archive \in Archives(clock) /\ clock \in Nat
      /\ Len(archive) \in Nat /\ DOMAIN archive = 1 .. Len(archive)
      /\ store.domain \in [Conns -> ProgressUpTo(Len(archive))]
      /\ x.domain \in [Conns -> ProgressUpTo(Len(archive))]
  BY StateIs DEF StoreUpTo
<1>2. ASSUME NEW c \in Conns, NEW ends, NEW k \in 1 .. Len(archive),
             LastPageOf(archive, c, ends, Len(archive), k)
      PROVE  archive[k] \in LastPage(c, ends)
  <2>1. k \in DOMAIN archive /\ IsPage(archive[k], c, ends)
    BY <1>1, <1>2 DEF LastPageOf
  <2>2. \A l \in DOMAIN archive : IsPage(archive[l], c, ends) => archive[l].at <= archive[k].at
    BY <1>1, <1>2, <2>1 DEF LastPageOf, InOrder
  <2> QED
    BY <2>1, <2>2 DEF LastPage, Bodies
<1>3. ASSUME NEW c \in Conns PROVE x.domain[c] = store.domain[c]
  <2>1. /\ CursorIs(x.domain[c], store.domain[c], archive, c, Len(archive))
        /\ StampIs(x.domain[c], store.domain[c], archive, c, Len(archive))
    BY DEF ProgressIs
  <2>2. x.domain[c].item = store.domain[c].item /\ x.domain[c].raw = store.domain[c].raw
    <3>1. \A b \in LastPage(c, {"cursor"}) : store.domain[c].item = b.item /\ store.domain[c].raw = b.raw
      BY DEF ProgressWrittenSince
    <3> QED
      BY <1>2, <2>1, <3>1 DEF CursorIs
  <2>3. x.domain[c] \in ProgressUpTo(Len(archive)) /\ store.domain[c] \in ProgressUpTo(Len(archive))
    BY <1>1
  <2>4. x.domain[c].at = store.domain[c].at /\ x.domain[c].error = store.domain[c].error
    <3>1. \A b \in LastPage(c, {"cursor", "complete"}) :
            store.domain[c].at = b.at /\ ~ store.domain[c].error
      BY DEF ProgressWrittenSince
    <3>2. store.domain[c].error \in BOOLEAN
      BY <2>3 DEF ProgressUpTo
    <3> QED
      BY <1>2, <2>1, <3>1, <3>2 DEF StampIs
  <2> QED
    BY <2>2, <2>3, <2>4 DEF ProgressUpTo
<1> QED
  BY <1>1, <1>3

\* The replay ends with the rows it started from, takes every body, and makes
\* each other table as it was.
LEMMA ReproducedWithoutReason ==
    ASSUME RInv, VersionsPresent(store) = {build}, Plain(archive), derived = DOMAIN archive,
           ~ ProgressWrittenSince, ~ StalePair
    PROVE  Reproducible
<1> DEFINE x == Rederived(store)
           y == PairedStore(x)
           t == RestoreOperatorState(y, Preserved(store))
           n == Len(archive)
<1>1. IInv /\ store.ok /\ PairsCurrent(store) /\ InOrder(archive)
      /\ Table(store, archive) /\ Read(store, archive, n) /\ Repeats(store, archive, clock)
  BY DEF RInv, Holds, Covered, Plain
<1>2. /\ archive \in Archives(clock) /\ derived \in SUBSET DOMAIN archive /\ clock \in Nat
      /\ build \in {1, 2} /\ Sound(store, archive, clock, derived, derived)
      /\ n \in Nat /\ n \in 0 .. n /\ n \in 0 .. Len(archive) /\ 0 \in 0 .. n
      /\ store \in StoreUpTo(clock, n)
  BY <1>1, StateIs
<1>3. Continues(archive, archive) /\ clock <= clock
  BY <1>2 DEF Continues
<1>4. Sound(store, archive, clock, DOMAIN archive, {})
  BY <1>1, <1>2, <1>3, LaterStore
<1>5. /\ \A h \in Captured(store) : h.build = build
      /\ \A k \in DOMAIN store.ledger : store.ledger[k].build = build
      /\ store.security = NoSecurity \/ store.security.build = build
  <2>1. /\ {h.build : h \in Captured(store)} \subseteq {build}
        /\ {store.ledger[k].build : k \in DOMAIN store.ledger} \subseteq {build}
        /\ (IF store.security = NoSecurity THEN {} ELSE {store.security.build}) \subseteq {build}
    BY DEF VersionsPresent, Captured
  <2> QED
    BY <2>1
<1>6. PICK K : K[0] = Cleared(store) /\ Chain(K, archive, n, build) /\ x = K[n]
  BY <1>1, <1>2, ReplayIsChain
<1>7. /\ Sound(K[0], archive, clock, derived, derived) /\ K[0].accounts = store.accounts
      /\ K[0].ledger = <<>> /\ K[0].offers = {} /\ K[0].roster = store.roster
      /\ K[0].security = store.security /\ K[0].domain = store.domain /\ K[0].ok = store.ok
  <2>1. Sound(Cleared(store), archive, clock, derived, derived)
    BY <1>2, ClearedIsSound
  <2>2. /\ Cleared(store).accounts = store.accounts
        /\ Cleared(store).ledger = <<>> /\ Cleared(store).offers = {}
        /\ Cleared(store).roster = store.roster /\ Cleared(store).security = store.security
        /\ Cleared(store).domain = store.domain /\ Cleared(store).ok = store.ok
    BY <1>2 DEF Cleared, StoreUpTo
  <2> QED
    BY <1>6, <2>1, <2>2
<1>8. Start(K[0], archive, clock) /\ SameRows(store, K[0], archive)
  <2>1. Table(K[0], archive) /\ SameRows(store, K[0], archive)
    BY <1>1, <1>7, SameAccountsRead
  <2>2. Sound(K[0], archive, clock, DOMAIN archive, {})
    BY <1>2, <1>3, <1>7, <2>1, LaterStore
  <2> QED
    BY <1>7, <2>1, <2>2 DEF Start
<1>9. Replays(K, store, archive, clock, build)
  BY <1>1, <1>4, <1>6, <1>7, <1>8 DEF Replays
<1> HIDE DEF x
<1>10. x.ok /\ Alike(store, x)
  <2>1. K[0].ok
    BY <1>1, <1>7
  <2>2. K[n].ok /\ Alike(store, K[n])
    BY <1>1, <1>2, <1>3, <1>6, <1>8, <2>1 DEF Repeats
  <2> QED
    BY <1>6, <2>2
<1>11. Twins(store, x, archive, clock)
  <2>1. \A j \in 0 .. n :
          /\ Sound(K[j], archive, clock, DOMAIN archive, {}) /\ Table(K[j], archive)
          /\ \A i \in 0 .. j : SameRows(K[i], K[j], archive) /\ (K[j].ok => K[i].ok)
          /\ K[j].ok => Read(K[j], archive, j)
    BY <1>2, <1>6, <1>8, ChainKeeps
  <2>2. /\ Sound(x, archive, clock, DOMAIN archive, {}) /\ Table(x, archive)
        /\ Read(x, archive, n) /\ SameRows(K[0], x, archive)
    BY <1>2, <1>6, <1>10, <2>1
  <2>3. SameRows(store, x, archive)
    BY <1>8, <2>2, SameRowsOn
  <2> QED
    BY <1>1, <1>4, <2>2, <2>3 DEF Twins
<1>12. /\ Still(store, x) /\ x.roster = store.roster /\ x.security = store.security
       /\ ProgressIs(store, x, archive, n) /\ Unpaired(x)
  BY <1>2, <1>5, <1>6, <1>9, ReplayStill, ReplayAside, ReplayProgress, ReplayUnpaired
<1>13. Stamped(store, build) /\ Stamped(x, build) /\ x \in StoreUpTo(clock, n)
  <2>1. Stamped(store, build)
    BY <1>5 DEF Stamped
  <2>2. Stamped(x, build)
    BY <1>2, ReplayKeeps DEF x
  <2> QED
    BY <1>11, <2>1, <2>2 DEF Twins, Sound
<1>14. x.accounts = store.accounts
  BY <1>2, <1>11, <1>12, TwinAccounts
<1>15. x.balances = store.balances /\ x.holdings = store.holdings /\ x.refused = store.refused
  BY <1>2, <1>11, <1>13, TwinCaptures
<1>16. x.domain = store.domain
  BY <1>1, <1>12, <1>13, ProgressStands
<1>17. OnlyLedger(x, y) /\ y \in StoreUpTo(clock, n)
  <2>1. Sound(x, archive, clock, DOMAIN archive, {})
    BY <1>11 DEF Twins
  <2>2. Leads(x, y, archive, clock, DOMAIN archive, {}, build)
    BY <1>2, <2>1, PairedKeeps
  <2>3. OnlyLedger(x, PairedStore(x))
    BY <1>13, PairedIs
  <2> QED
    BY <2>2, <2>3 DEF Leads, Sound
<1>18. OnlyLedger(y, t) /\ t \in StoreUpTo(clock, n)
  <2>1. t = Replayed(store)
    BY DEF Replayed, x
  <2>2. Sound(Replayed(store), archive, clock, DOMAIN archive, DOMAIN archive)
    BY <1>2, ReplayedIsSound
  <2> HIDE DEF y
  <2>3. OnlyLedger(y, RestoreOperatorState(y, Preserved(store)))
    BY <1>17, RestoredIs
  <2> QED
    BY <2>1, <2>2, <2>3 DEF Sound
<1>19. t.ledger = store.ledger
  <2>1. \A k \in DOMAIN store.ledger : store.ledger[k].pair # 0 => store.ledger[k].pairable
    BY DEF StalePair
  <2>2. LedgerRead(store, archive, Entries(archive, Len(archive)))
    BY <1>1 DEF Read
  <2>3. y = PairedStore(x) /\ t = RestoreOperatorState(y, Preserved(store))
    OBVIOUS
  <2> HIDE DEF y, t
  <2> QED
    BY <1>1, <1>2, <1>10, <1>12, <1>13, <1>17, <1>18, <2>1, <2>2, <2>3, SameLedger
<1>20. /\ t.ok /\ t.accounts = store.accounts /\ t.balances = store.balances
       /\ t.holdings = store.holdings /\ t.refused = store.refused /\ t.domain = store.domain
       /\ t.roster = store.roster /\ t.security = store.security
  <2> HIDE DEF y, t
  <2> QED
    BY <1>10, <1>12, <1>14, <1>15, <1>16, <1>17, <1>18 DEF OnlyLedger
<1>21. t = Replayed(store)
  BY DEF Replayed, x
<1> HIDE DEF t
<1> QED
  BY <1>19, <1>20, <1>21 DEF Reproducible, Content

\* What every store knows of the archive it was derived from, with RInv's
\* parts: an Item is of one connection, and a store that was derived body by
\* body reads as the archive does and would take all of it again.
THEOREM RInvariance == Spec => []RInv
<1>1. Init => RInv
  BY InitTyped, InitHolds DEF RInv
<1>2. RInv /\ [Next]_vars => RInv'
  BY NextHolds
<1> QED
  BY <1>1, <1>2, PTL DEF Spec

\* A rebuild by the build that derived every row reproduces the store, the
\* operator's overrides included, unless a body was archived and not derived,
\* bodies were persisted out of their order, the progress of a connection was
\* written after its last page, a transaction left its category while it was
\* paired, a persistent id was not stated from the start, or a body was about
\* an account its Item had not listed (store/rebuild.py).
THEOREM RebuildsReproduce == Spec => []RefusedOnlyForAReason
<1>1. RInv => RefusedOnlyForAReason
  BY PlainWithoutReason, ReproducedWithoutReason DEF RefusedOnlyForAReason, Underived
<1> QED
  BY <1>1, RInvariance, PTL
=============================================================================
