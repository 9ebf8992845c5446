---------------------------- MODULE CashAccountProofs ----------------------------
(***************************************************************************)
(* The monthly cash account, for every set of offices, months, heads,      *)
(* contents and requests, and any number of verifications, reversions and  *)
(* faults.                                                                 *)
(*                                                                         *)
(* CashTypes is the type invariant; the lemmas named after the actions     *)
(* (FetchIs, VerifiedIs, CopyIs, ...) say what each one does to the tables *)
(* and are what the invariants below rest on.                              *)
(*                                                                         *)
(* NothingVanishesUnrecorded: VanishInv follows an account from the answer *)
(* of the sub-accounts system to the audit row that tells of it.           *)
(*                                                                         *)
(* SheetFollowsDetail: RowsInv relates the four tables an account has rows *)
(* in, head by head, whatever the order of the requests.                   *)
(*                                                                         *)
(* BroadSheetIsAChain: ChainInv orders the rows by when they were verified *)
(* and says that nothing is taken back without being counted.              *)
(*                                                                         *)
(* SubmittedIsTheSum: SubInv says what is summed, on its way and stored    *)
(* agrees as long as nothing it was summed from changed (Steady);          *)
(* SourceInv says which content a request under way, or a verified         *)
(* account, comes from.                                                    *)
(***************************************************************************)
EXTENDS CashAccount, FiniteSetTheorems, SequenceTheorems, WellFoundedInduction, TLAPS

--------------------------------------------------------------------------------
(* Partial functions *)

Partial(S, T) == UNION {[D -> T] : D \in SUBSET S}

LEMMA PartialIs ==
  ASSUME NEW S, NEW T, NEW f
  PROVE  f \in Partial(S, T) <=> DOMAIN f \subseteq S /\ f \in [DOMAIN f -> T]
<1>1. ASSUME f \in Partial(S, T) PROVE DOMAIN f \subseteq S /\ f \in [DOMAIN f -> T]
  <2>1. PICK D \in SUBSET S : f \in [D -> T]
    BY <1>1 DEF Partial
  <2> QED BY <2>1
<1>2. ASSUME DOMAIN f \subseteq S, f \in [DOMAIN f -> T] PROVE f \in Partial(S, T)
  BY <1>2 DEF Partial
<1> QED BY <1>1, <1>2

LEMMA EmptyPartial == ASSUME NEW S, NEW T PROVE << >> \in Partial(S, T) /\ DOMAIN << >> = {}
<1>1. DOMAIN << >> = {}
  OBVIOUS
<1>2. << >> \in [{} -> T]
  OBVIOUS
<1> QED BY <1>1, <1>2 DEF Partial

LEMMA PutPartial ==
  ASSUME NEW S, NEW T, NEW f \in Partial(S, T), NEW k \in S, NEW v \in T
  PROVE  Put(f, k, v) \in Partial(S, T)
<1>1. DOMAIN f \subseteq S /\ f \in [DOMAIN f -> T]
  BY PartialIs
<1>2. Put(f, k, v) \in [DOMAIN f \cup {k} -> T]
  BY <1>1 DEF Put
<1>3. DOMAIN f \cup {k} \subseteq S
  BY <1>1
<1> QED BY <1>2, <1>3 DEF Partial

LEMMA WithoutPartial ==
  ASSUME NEW S, NEW T, NEW f \in Partial(S, T), NEW a
  PROVE  Without(f, a) \in Partial(S, T)
<1>1. DOMAIN f \subseteq S /\ f \in [DOMAIN f -> T]
  BY PartialIs
<1>2. Without(f, a) \in [DOMAIN f \ {a} -> T]
  BY <1>1 DEF Without, Restrict
<1>3. DOMAIN f \ {a} \subseteq S
  BY <1>1
<1> QED BY <1>2, <1>3 DEF Partial

LEMMA OverPartial ==
  ASSUME NEW S, NEW T, NEW g \in Partial(S, T), NEW f \in Partial(S, T)
  PROVE  Over(g, f) \in Partial(S, T)
<1>1. DOMAIN f \subseteq S /\ f \in [DOMAIN f -> T] /\ DOMAIN g \subseteq S /\ g \in [DOMAIN g -> T]
  BY PartialIs
<1>2. Over(g, f) \in [DOMAIN g \cup DOMAIN f -> T]
  BY <1>1 DEF Over
<1>3. DOMAIN g \cup DOMAIN f \subseteq S
  BY <1>1
<1> QED BY <1>2, <1>3 DEF Partial

(* What a merge leaves of the entries of one key, and of the others. *)
LEMMA MergeDomain ==
  ASSUME NEW f, NEW a, NEW g
  PROVE  \A x : x \in DOMAIN Merge(f, a, g) <=> x \in DOMAIN f \/ x = a
<1>1. CASE a \in DOMAIN f
  BY <1>1 DEF Merge, Put
<1>2. CASE a \notin DOMAIN f
  BY <1>2 DEF Merge, Put
<1> QED BY <1>1, <1>2

LEMMA MergeElsewhere ==
  ASSUME NEW f, NEW a, NEW g
  PROVE  \A x \in DOMAIN f : x # a => Merge(f, a, g)[x] = f[x]
<1>1. CASE a \in DOMAIN f
  BY <1>1 DEF Merge, Put
<1>2. CASE a \notin DOMAIN f
  BY <1>2 DEF Merge, Put
<1> QED BY <1>1, <1>2

LEMMA MergeThere == ASSUME NEW f, NEW a \in DOMAIN f, NEW g PROVE Merge(f, a, g)[a] = Over(g, f[a])
BY DEF Merge, Put

LEMMA MergeNew == ASSUME NEW f, NEW a, a \notin DOMAIN f, NEW g PROVE Merge(f, a, g)[a] = g
BY DEF Merge, Put

LEMMA MergePartial ==
  ASSUME NEW S, NEW R, NEW T, NEW f \in Partial(S, Partial(R, T)), NEW a \in S, NEW g \in Partial(R, T)
  PROVE  Merge(f, a, g) \in Partial(S, Partial(R, T))
<1>1. ASSUME a \in DOMAIN f PROVE Over(g, f[a]) \in Partial(R, T)
  <2>1. f[a] \in Partial(R, T)
    BY <1>1, PartialIs
  <2> QED BY <2>1, OverPartial
<1>2. CASE a \in DOMAIN f
  BY <1>1, <1>2, PutPartial DEF Merge
<1>3. CASE a \notin DOMAIN f
  BY <1>3, PutPartial DEF Merge
<1> QED BY <1>2, <1>3

--------------------------------------------------------------------------------
(* Types *)

Row == [recv : BOOLEAN, ver : BOOLEAN, opening : Int, closing : Int]
Line == [receipt : Int, payment : Int, te_receipt : Int, te_payment : Int]
SheetLine == [opening : Int, closing : Int, credit : Int, debit : Int, at : Nat]
PraoLine == [receipt : Int, payment : Int, ddos : SUBSET {a.ddo : a \in Accounts}]
AuditRow == [of : Accounts, sub : {"SUCCESS", "NOT_FOUND", "FAILED"}, final : {"SUCCESS", "FAILED"}]
Submissions == Paos \X Months

Requests ==
  {Idle}
  \cup [op : {"verify"}, pc : {"post"}, of : Accounts, lines : Partial(Heads, Line), opening : Int, closing : Int]
  \cup [op : {"prao"}, pc : {"read", "copy", "main"}, of : Submissions, totals : Partial(Heads, PraoLine)]
  \cup [op : {"revert", "legacy"}, pc : {"sub", "delete", "audit"}, of : Accounts,
        sub : {"SUCCESS", "NOT_FOUND", "FAILED"}, final : {"SUCCESS", "FAILED"}]

Held == UNION {Contents[a] : a \in Accounts}

CashTypes ==
  /\ closed \subseteq Accounts
  /\ account \in Partial(Accounts, Held) /\ \A a \in DOMAIN account : account[a] \in Contents[a]
  /\ te \in [Accounts -> [Heads -> [receipt : Int, payment : Int]]]
  /\ monthly \in Partial(Accounts, Row)
  /\ detail \in Partial(Accounts, Partial(Heads, Line))
  /\ sheet \in Partial(Accounts, Partial(Heads, SheetLine))
  /\ praoDetail \in Partial(Submissions, Partial(Heads, PraoLine))
  /\ praoMain \subseteq Submissions
  /\ audit \in Seq(AuditRow)
  /\ req \in [Threads -> Requests]
  /\ legacy \subseteq Accounts /\ unlogged \subseteq Accounts /\ changed \subseteq Submissions
  /\ verified \in Nat /\ reverts \in Nat /\ faults \in Nat

(* A request of a kind has the fields of the kind. *)
LEMMA VerifyFields ==
  ASSUME NEW r \in Requests, r.op = "verify"
  PROVE  r.of \in Accounts /\ r.lines \in Partial(Heads, Line) /\ r.opening \in Int /\ r.closing \in Int
         /\ r.pc = "post"
BY DEF Requests, Idle

LEMMA PraoFields ==
  ASSUME NEW r \in Requests, r.op = "prao"
  PROVE  /\ r.of \in Submissions /\ r.totals \in Partial(Heads, PraoLine) /\ r.pc \in {"read", "copy", "main"}
         /\ r.of = <<r.of[1], r.of[2]>> /\ r.of[1] \in Paos /\ r.of[2] \in Months
<1>1. r.of \in Submissions /\ r.totals \in Partial(Heads, PraoLine) /\ r.pc \in {"read", "copy", "main"}
  BY DEF Requests, Idle
<1> QED BY <1>1 DEF Submissions

LEMMA RevertFields ==
  ASSUME NEW r \in Requests, r.op \in {"revert", "legacy"}
  PROVE  /\ r.of \in Accounts /\ r.pc \in {"sub", "delete", "audit"}
         /\ r.sub \in {"SUCCESS", "NOT_FOUND", "FAILED"} /\ r.final \in {"SUCCESS", "FAILED"}
BY DEF Requests, Idle

--------------------------------------------------------------------------------
(* The types are kept *)

LEMMA TotalIs ==
  ASSUME NEW a \in Accounts, NEW c \in Contents[a], NEW h \in Heads
  PROVE  Total(c, h).receipt \in Int /\ Total(c, h).payment \in Int
<1>1. CASE h \in DOMAIN c.lines
  BY <1>1, CashAccountAssumption DEF Total
<1>2. CASE h \notin DOMAIN c.lines
  BY <1>2 DEF Total, None
<1> QED BY <1>1, <1>2

LEMMA FetchedLines ==
  ASSUME CashTypes, NEW a \in DOMAIN account
  PROVE  DdoDetailMonthly(a) \in Partial(Heads, Line)
<1>1. a \in Accounts /\ account[a] \in Contents[a]
  BY PartialIs DEF CashTypes
<1>2. \A h \in Heads : Total(account[a], h).receipt \in Int /\ Total(account[a], h).payment \in Int
  BY <1>1, TotalIs
<1>3. \A h \in Heads : te[a][h].receipt \in Int /\ te[a][h].payment \in Int
  BY <1>1 DEF CashTypes
<1> DEFINE row(h) == [receipt |-> Total(account[a], h).receipt, payment |-> Total(account[a], h).payment,
                      te_receipt |-> te[a][h].receipt, te_payment |-> te[a][h].payment]
           shown == {h \in Heads : row(h) # [receipt |-> 0, payment |-> 0, te_receipt |-> 0, te_payment |-> 0]}
<1>4. \A h \in Heads : row(h) \in Line
  BY <1>2, <1>3 DEF Line
<1>5. DdoDetailMonthly(a) = [h \in shown |-> row(h)]
  BY DEF DdoDetailMonthly
<1>6. [h \in shown |-> row(h)] \in [shown -> Line]
  BY <1>4
<1>7. shown \in SUBSET Heads
  OBVIOUS
<1> QED BY <1>5, <1>6, <1>7 DEF Partial

LEMMA ClosingIsInt ==
  ASSUME NEW kind \in Kinds \ {"plain"}, NEW o \in Int, NEW l \in Line
  PROVE  Closing(kind, o, l) \in Int
<1>1. Credits[kind] \in Int /\ Debits[kind] \in Int
  BY DEF Credits, Debits, Kinds
<1>2. l.receipt \in Int /\ l.payment \in Int
  BY DEF Line
<1>3. \A x, y \in Int : x * y \in Int
  OBVIOUS
<1>4. Credits[kind] * l.receipt \in Int /\ Debits[kind] * l.payment \in Int
  BY <1>1, <1>2, <1>3
<1> QED BY <1>4 DEF Closing

LEMMA NewRequest ==
  ASSUME CashTypes, NEW t \in Threads, NEW r \in Requests, req' = [req EXCEPT ![t] = r]
  PROVE  req' \in [Threads -> Requests] /\ req'[t] = r /\ \A u \in Threads : u # t => req'[u] = req[u]
BY DEF CashTypes

LEMMA ReqIs == ASSUME CashTypes, NEW t \in Threads PROVE req[t] \in Requests
BY DEF CashTypes

LEMMA DoneIs ==
  ASSUME CashTypes, NEW t \in Threads, Done(t)
  PROVE  req' \in [Threads -> Requests] /\ req'[t] = Idle /\ \A u \in Threads : u # t => req'[u] = req[u]
<1>1. Idle \in Requests
  BY DEF Requests
<1> QED BY <1>1, NewRequest DEF Done

(* A thread's request moves to another place. *)
LEMMA GotoIs ==
  ASSUME CashTypes, NEW t \in Threads, NEW pc, Goto(t, pc), [req[t] EXCEPT !.pc = pc] \in Requests
  PROVE  /\ req' \in [Threads -> Requests] /\ req'[t] = [req[t] EXCEPT !.pc = pc]
         /\ \A u \in Threads : u # t => req'[u] = req[u]
<1>1. req' = [req EXCEPT ![t] = [req[t] EXCEPT !.pc = pc]]
  BY DEF Goto
<1> QED BY <1>1, NewRequest

LEMMA PaoOfAccount ==
  ASSUME NEW a \in Accounts
  PROVE  <<Pao(a), a.period>> \in Submissions /\ Pao(a) \in Paos /\ a.period \in Months
BY DEF Submissions, Pao, Paos, Months

LEMMA ArriveTypes ==
  ASSUME CashTypes, NEW a \in Accounts, NEW c \in Contents[a], Arrive(a, c)
  PROVE  CashTypes'
<1>1. account' = Put(account, a, c) /\ closed' = closed \cup {a}
  BY DEF Arrive
<1>2. c \in Held
  BY DEF Held
<1>3. account' \in Partial(Accounts, Held)
  BY <1>1, <1>2, PutPartial DEF CashTypes
<1>4. \A x \in DOMAIN account' : account'[x] \in Contents[x]
  <2>1. DOMAIN account' = DOMAIN account \cup {a} /\ account'[a] = c
        /\ \A x \in DOMAIN account : x # a => account'[x] = account[x]
    BY <1>1 DEF Put
  <2> QED BY <2>1 DEF CashTypes
<1>5. closed' \subseteq Accounts
  BY <1>1 DEF CashTypes
<1> QED BY <1>3, <1>4, <1>5 DEF CashTypes, Arrive, ghosts, bounds

LEMMA TransferEntryTypes ==
  ASSUME CashTypes, NEW a \in Accounts, NEW h \in Heads, NEW side \in {"receipt", "payment"},
         TransferEntryMade(a, h, side)
  PROVE  CashTypes'
<1>1. te' = [te EXCEPT ![a][h][side] = @ + 1]
  BY DEF TransferEntryMade
<1>2. te[a] \in [Heads -> [receipt : Int, payment : Int]] /\ te[a][h] \in [receipt : Int, payment : Int]
  BY DEF CashTypes
<1>3. [te[a][h] EXCEPT ![side] = @ + 1] \in [receipt : Int, payment : Int]
  <2>1. CASE side = "receipt"
    BY <1>2, <2>1
  <2>2. CASE side = "payment"
    BY <1>2, <2>2
  <2> QED BY <2>1, <2>2
<1>4. te' = [te EXCEPT ![a] = [te[a] EXCEPT ![h] = [te[a][h] EXCEPT ![side] = @ + 1]]]
  BY <1>1
<1>5. te' \in [Accounts -> [Heads -> [receipt : Int, payment : Int]]]
  <2>1. PICK v : v = [te[a][h] EXCEPT ![side] = @ + 1]
    OBVIOUS
  <2>2. PICK w : w = [te[a] EXCEPT ![h] = v]
    OBVIOUS
  <2>3. v \in [receipt : Int, payment : Int]
    BY <1>3, <2>1
  <2>4. w \in [Heads -> [receipt : Int, payment : Int]]
    BY <1>2, <2>2, <2>3
  <2>5. te' = [te EXCEPT ![a] = w]
    BY <1>4, <2>1, <2>2
  <2> QED BY <2>4, <2>5 DEF CashTypes
<1> QED BY <1>5 DEF CashTypes, TransferEntryMade, tables, ghosts, bounds

LEMMA NewRows ==
  ASSUME CashTypes, NEW pao, NEW p, GetDDOlistMonthlyupdate(pao, p)
  PROVE  /\ monthly' \in Partial(Accounts, Row)
         /\ DOMAIN monthly \subseteq DOMAIN monthly'
         /\ DOMAIN monthly' \subseteq DOMAIN monthly \cup (Of(pao, p) \cap DOMAIN account)
         /\ \A a \in DOMAIN monthly : monthly'[a] = monthly[a]
         /\ \A a \in DOMAIN monthly' \ DOMAIN monthly : monthly'[a].ver = FALSE
<1>1. DOMAIN monthly \subseteq Accounts /\ \A a \in DOMAIN monthly : monthly[a] \in Row
  BY PartialIs DEF CashTypes
<1> DEFINE missing == (Of(pao, p) \cap DOMAIN account) \ DOMAIN monthly
<1>2. monthly' = [a \in DOMAIN monthly \cup missing |-> IF a \in DOMAIN monthly THEN monthly[a] ELSE NewRow]
  BY DEF GetDDOlistMonthlyupdate
<1>3. NewRow \in Row /\ NewRow.ver = FALSE
  BY DEF NewRow, Row
<1>4. missing \subseteq Accounts
  BY DEF Of
<1>5. monthly' \in [DOMAIN monthly \cup missing -> Row]
  BY <1>1, <1>2, <1>3
<1>6. DOMAIN monthly' = DOMAIN monthly \cup missing
  BY <1>2
<1>7. monthly' \in Partial(Accounts, Row)
  BY <1>1, <1>4, <1>5 DEF Partial
<1> QED BY <1>2, <1>3, <1>6, <1>7

LEMMA UpdateTypes ==
  ASSUME CashTypes, NEW pao \in Paos, NEW p \in Months, UpdateDdoMonthly(pao, p)
  PROVE  CashTypes'
<1>1. monthly' \in Partial(Accounts, Row)
  BY NewRows DEF UpdateDdoMonthly
<1>2. changed' \subseteq Submissions
  <2>1. <<pao, p>> \in Submissions
    BY DEF Submissions
  <2> QED BY <2>1 DEF UpdateDdoMonthly, CashTypes
<1> QED BY <1>1, <1>2 DEF CashTypes, UpdateDdoMonthly, bounds

LEMMA AccountIs ==
  ASSUME CashTypes, NEW a \in DOMAIN account
  PROVE  a \in Accounts /\ account[a] \in Contents[a] /\ account[a].opening \in Int /\ account[a].closing \in Int
<1>1. a \in Accounts /\ account[a] \in Contents[a]
  BY PartialIs DEF CashTypes
<1> QED BY <1>1, CashAccountAssumption

(* The request a fetch leaves behind. *)
LEMMA FetchIs ==
  ASSUME CashTypes, NEW t \in Threads, NEW a \in Accounts, FetchDdoMonthlyDetail(t, a)
  PROVE  /\ req' \in [Threads -> Requests]
         /\ req'[t].op = "verify" /\ req'[t].of = a /\ req'[t].lines = DdoDetailMonthly(a)
         /\ \A u \in Threads : u # t => req'[u] = req[u]
<1>1. PICK r : r = [op |-> "verify", pc |-> "post", of |-> a, lines |-> DdoDetailMonthly(a),
                    opening |-> account[a].opening, closing |-> account[a].closing]
  OBVIOUS
<1>2. a \in DOMAIN account
  BY DEF FetchDdoMonthlyDetail
<1>3. r \in Requests
  BY <1>1, <1>2, AccountIs, FetchedLines DEF Requests
<1>4. req' = [req EXCEPT ![t] = r]
  BY <1>1 DEF FetchDdoMonthlyDetail
<1>5. r.op = "verify" /\ r.of = a /\ r.lines = DdoDetailMonthly(a)
  BY <1>1
<1> QED BY <1>3, <1>4, <1>5, NewRequest

LEMMA FetchTypes ==
  ASSUME CashTypes, NEW t \in Threads, NEW a \in Accounts, FetchDdoMonthlyDetail(t, a)
  PROVE  CashTypes'
<1>1. req' \in [Threads -> Requests]
  BY FetchIs
<1>2. verified' \in Nat
  BY DEF FetchDdoMonthlyDetail, CashTypes
<1> QED BY <1>1, <1>2 DEF CashTypes, FetchDdoMonthlyDetail, tables, ghosts

LEMMA VerifiedIs ==
  ASSUME CashTypes, NEW r \in Requests, r.op = "verify", NEW a, a = r.of, a \in DOMAIN monthly
  PROVE  /\ Verified(a, r) \in Partial(Accounts, Row)
         /\ DOMAIN Verified(a, r) = DOMAIN monthly
         /\ Verified(a, r)[a].ver = TRUE
         /\ \A x \in DOMAIN monthly : x # a => Verified(a, r)[x] = monthly[x]
<1>1. DOMAIN monthly \subseteq Accounts /\ monthly \in [DOMAIN monthly -> Row]
  BY PartialIs DEF CashTypes
<1>2. monthly[a] \in Row /\ r.opening \in Int /\ r.closing \in Int
  BY <1>1, VerifyFields
<1>3. PICK row : row = [recv |-> monthly[a].recv, ver |-> TRUE, opening |-> r.opening, closing |-> r.closing]
  OBVIOUS
<1>4. row \in Row
  BY <1>2, <1>3 DEF Row
<1>5. Verified(a, r) = [monthly EXCEPT ![a] = row]
  BY <1>3 DEF Verified
<1>6. [monthly EXCEPT ![a] = row] \in [DOMAIN monthly -> Row]
  BY <1>1, <1>4
<1>7. row.ver = TRUE
  BY <1>3
<1>8. Verified(a, r) \in Partial(Accounts, Row)
  BY <1>1, <1>5, <1>6 DEF Partial
<1> QED BY <1>1, <1>5, <1>7, <1>8

LEMMA LeastNatural ==
  ASSUME NEW S \in SUBSET Nat, S # {}
  PROVE  \E n \in S : \A m \in S : n <= m
<1>1. PICK n \in S : \A m \in S : ~(<<m, n>> \in OpToRel(<, Nat))
  BY NatLessThanWellFounded, WFMin
<1>2. \A m \in S : ~(m < n)
  BY <1>1 DEF OpToRel
<1> QED BY <1>2

LEMMA NumberIs == ASSUME NEW a \in Accounts PROVE Number(a.period) \in Nat
<1>1. a.period \in [m : 1..12, y : Nat]
  BY CashAccountAssumption
<1> QED BY <1>1 DEF Number

(* Among the rows before a month there is a last one, and the previous closing is its. *)
LEMMA PrevClosingIs ==
  ASSUME CashTypes, NEW a \in Accounts, NEW h, Before(a, h) # {}
  PROVE  \E b \in Before(a, h) : /\ \A c \in Before(a, h) : Number(c.period) <= Number(b.period)
                                 /\ PrevClosing(a, h) = sheet[b][h].closing
<1>1. \E b \in Before(a, h) : \A c \in Before(a, h) : Number(c.period) <= Number(b.period)
  <2>0. \A b \in Before(a, h) : Number(b.period) \in Nat /\ Number(b.period) < Number(a.period)
    <3>1. \A b \in Before(a, h) : b \in Accounts
      BY PartialIs DEF Before, CashTypes
    <3> QED BY <3>1, NumberIs DEF Before
  <2>1. PICK n : n = Number(a.period)
    OBVIOUS
  <2>2. n \in Nat
    BY <2>1, NumberIs
  <2>3. PICK S : S = {n - Number(b.period) : b \in Before(a, h)}
    OBVIOUS
  <2>4. S \in SUBSET Nat
    BY <2>0, <2>1, <2>2, <2>3
  <2>5. PICK m \in S : \A k \in S : m <= k
    <3>1. S # {}
      BY <2>3
    <3> QED BY <2>4, <3>1, LeastNatural
  <2>6. PICK b \in Before(a, h) : m = n - Number(b.period)
    BY <2>3, <2>5
  <2>7. \A c \in Before(a, h) : n - Number(b.period) <= n - Number(c.period)
    BY <2>3, <2>5, <2>6
  <2>8. \A c \in Before(a, h) : Number(c.period) <= Number(b.period)
    BY <2>0, <2>2, <2>7
  <2> QED BY <2>8
<1>2. PICK b : b = CHOOSE x \in Before(a, h) : \A c \in Before(a, h) : Number(c.period) <= Number(x.period)
  OBVIOUS
<1>3. b \in Before(a, h) /\ \A c \in Before(a, h) : Number(c.period) <= Number(b.period)
  BY <1>1, <1>2
<1>4. PrevClosing(a, h) = sheet[b][h].closing
  BY <1>2 DEF PrevClosing
<1> QED BY <1>3, <1>4

LEMMA SheetRowsAre ==
  ASSUME CashTypes, NEW a \in Accounts, NEW lines \in Partial(Heads, Line)
  PROVE  [h \in SheetHeads(lines) |-> SheetRow(a, h, lines[h])] \in Partial(Heads, SheetLine)
<1>1. DOMAIN lines \subseteq Heads /\ lines \in [DOMAIN lines -> Line]
  BY PartialIs
<1>2. ASSUME NEW h \in SheetHeads(lines) PROVE SheetRow(a, h, lines[h]) \in SheetLine
  <2>1. h \in Heads /\ lines[h] \in Line /\ Kind[h] \in Kinds \ {"plain"}
    BY <1>1, <1>2, CashAccountAssumption DEF SheetHeads
  <2>2. PrevClosing(a, h) \in Int
    <3>1. ASSUME NEW b \in Before(a, h) PROVE sheet[b][h].closing \in Int
      <4>1. b \in DOMAIN sheet /\ h \in DOMAIN sheet[b]
        BY DEF Before
      <4>2. sheet[b] \in Partial(Heads, SheetLine)
        BY <4>1, PartialIs DEF CashTypes
      <4>3. sheet[b][h] \in SheetLine
        BY <4>1, <4>2, PartialIs
      <4> QED BY <4>3 DEF SheetLine
    <3>2. CASE Before(a, h) = {}
      BY <3>2 DEF PrevClosing
    <3>3. CASE Before(a, h) # {}
      BY <3>1, <3>3, PrevClosingIs
    <3> QED BY <3>2, <3>3
  <2>3. Closing(Kind[h], PrevClosing(a, h), lines[h]) \in Int
    BY <2>1, <2>2, ClosingIsInt
  <2>4. lines[h].receipt \in Int /\ lines[h].payment \in Int /\ verified \in Nat
    BY <2>1 DEF Line, CashTypes
  <2> QED BY <2>2, <2>3, <2>4 DEF SheetRow, SheetLine
<1>3. SheetHeads(lines) \in SUBSET Heads
  BY <1>1 DEF SheetHeads
<1>4. [h \in SheetHeads(lines) |-> SheetRow(a, h, lines[h])] \in [SheetHeads(lines) -> SheetLine]
  BY <1>2
<1> QED BY <1>3, <1>4 DEF Partial

LEMMA PostTypes ==
  ASSUME CashTypes, NEW t \in Threads, PostPfmsMonthlyverified(t)
  PROVE  CashTypes'
<1> DEFINE a == req[t].of
           lines == req[t].lines
<1>1. a \in Accounts /\ lines \in Partial(Heads, Line) /\ req[t] \in Requests /\ req[t].op = "verify"
  BY ReqIs, VerifyFields DEF PostPfmsMonthlyverified, At
<1>2. req' \in [Threads -> Requests]
  BY DoneIs DEF PostPfmsMonthlyverified
<1>3. CASE Refused(a, lines)
  BY <1>2, <1>3 DEF PostPfmsMonthlyverified, CashTypes, bounds
<1>4. CASE ~Refused(a, lines)
  <2>1. /\ monthly' = Verified(a, req[t]) /\ detail' = Merge(detail, a, lines) /\ Changes(a)
        /\ sheet' = IF SheetHeads(lines) = {} THEN sheet
                    ELSE Merge(sheet, a, [h \in SheetHeads(lines) |-> SheetRow(a, h, lines[h])])
    BY <1>4 DEF PostPfmsMonthlyverified
  <2>2. a \in DOMAIN monthly
    BY <1>4 DEF Refused
  <2>3. monthly' \in Partial(Accounts, Row)
    BY <1>1, <2>1, <2>2, VerifiedIs
  <2>4. detail' \in Partial(Accounts, Partial(Heads, Line))
    BY <1>1, <2>1, MergePartial DEF CashTypes
  <2>5. sheet' \in Partial(Accounts, Partial(Heads, SheetLine))
    <3>1. PICK g : g = [h \in SheetHeads(lines) |-> SheetRow(a, h, lines[h])]
      OBVIOUS
    <3>2. g \in Partial(Heads, SheetLine)
      BY <1>1, <3>1, SheetRowsAre
    <3>3. Merge(sheet, a, g) \in Partial(Accounts, Partial(Heads, SheetLine))
      BY <1>1, <3>2, MergePartial DEF CashTypes
    <3>4. sheet' = sheet \/ sheet' = Merge(sheet, a, g)
      BY <2>1, <3>1
    <3> QED BY <3>3, <3>4 DEF CashTypes
  <2>6. changed' \subseteq Submissions
    BY <1>1, <2>1, PaoOfAccount DEF Changes, CashTypes
  <2> QED BY <1>2, <2>3, <2>4, <2>5, <2>6 DEF PostPfmsMonthlyverified, CashTypes, bounds
<1> QED BY <1>3, <1>4

LEMMA PostEmptyTypes ==
  ASSUME CashTypes, NEW t \in Threads, PostEmptyPfmsMonthlyverified(t)
  PROVE  CashTypes'
<1> DEFINE a == req[t].of
<1>1. a \in Accounts /\ req[t] \in Requests /\ req[t].op = "verify"
  BY ReqIs, VerifyFields DEF PostEmptyPfmsMonthlyverified, At
<1>2. req' \in [Threads -> Requests]
  BY DoneIs DEF PostEmptyPfmsMonthlyverified
<1>3. CASE a \notin DOMAIN monthly
  BY <1>2, <1>3 DEF PostEmptyPfmsMonthlyverified, CashTypes, bounds
<1>4. CASE a \in DOMAIN monthly
  <2>1. monthly' = Verified(a, req[t]) /\ Changes(a)
    BY <1>4 DEF PostEmptyPfmsMonthlyverified
  <2>3. monthly' \in Partial(Accounts, Row)
    BY <1>1, <1>4, <2>1, VerifiedIs
  <2>6. changed' \subseteq Submissions
    BY <1>1, <2>1, PaoOfAccount DEF Changes, CashTypes
  <2> QED BY <1>2, <2>3, <2>6 DEF PostEmptyPfmsMonthlyverified, CashTypes, bounds
<1> QED BY <1>3, <1>4

\* The listed accounts of a PAO and month that moved a head.
MovedIn(pao, p, h) ==
  {a \in Listed(pao, p) \cap DOMAIN detail :
     h \in DOMAIN detail[a] /\ (Receipts(detail[a][h]) # 0 \/ Payments(detail[a][h]) # 0)}

LEMMA PraoTotalsAre ==
  ASSUME NEW pao, NEW p
  PROVE  PraoTotals(pao, p) =
           [h \in {g \in Heads : MovedIn(pao, p, g) # {}} |->
              [receipt |-> SumOf([a \in MovedIn(pao, p, h) |-> Receipts(detail[a][h])], MovedIn(pao, p, h)),
               payment |-> SumOf([a \in MovedIn(pao, p, h) |-> Payments(detail[a][h])], MovedIn(pao, p, h)),
               ddos |-> {a.ddo : a \in MovedIn(pao, p, h)}]]
BY DEF PraoTotals, MovedIn

LEMMA DetailLine ==
  ASSUME CashTypes, NEW a \in DOMAIN detail
  PROVE  a \in Accounts /\ DOMAIN detail[a] \subseteq Heads /\ \A h \in DOMAIN detail[a] : detail[a][h] \in Line
<1>1. a \in Accounts /\ detail[a] \in Partial(Heads, Line)
  BY PartialIs DEF CashTypes
<1> QED BY <1>1, PartialIs

LEMMA PraoTotalsType ==
  ASSUME CashTypes, NEW pao, NEW p
  PROVE  PraoTotals(pao, p) \in Partial(Heads, PraoLine)
<1>1. ASSUME NEW h \in Heads, NEW W, W = MovedIn(pao, p, h)
      PROVE  [receipt |-> SumOf([a \in W |-> Receipts(detail[a][h])], W),
              payment |-> SumOf([a \in W |-> Payments(detail[a][h])], W),
              ddos |-> {a.ddo : a \in W}] \in PraoLine
  <2>1. W \subseteq Accounts /\ \A a \in W : detail[a][h] \in Line
    BY <1>1, DetailLine DEF MovedIn
  <2>2. IsFiniteSet(W)
    BY <2>1, CashAccountAssumption, FS_Subset
  <2>3. \A l \in Line : Receipts(l) \in Int /\ Payments(l) \in Int
    BY DEF Line, Receipts, Payments
  <2>4. PICK f : f = [a \in W |-> Receipts(detail[a][h])]
    OBVIOUS
  <2>5. PICK g : g = [a \in W |-> Payments(detail[a][h])]
    OBVIOUS
  <2>6. Summable(f, W) /\ Summable(g, W)
    BY <2>1, <2>3, <2>4, <2>5 DEF Summable
  <2>7. SumOf(f, W) \in Int /\ SumOf(g, W) \in Int
    BY <2>2, <2>6, SumInt
  <2>8. {a.ddo : a \in W} \in SUBSET {a.ddo : a \in Accounts}
    BY <2>1
  <2> QED BY <2>4, <2>5, <2>7, <2>8 DEF PraoLine
<1>2. PICK D : D = {g \in Heads : MovedIn(pao, p, g) # {}}
  OBVIOUS
<1>3. PraoTotals(pao, p) =
           [h \in D |->
              [receipt |-> SumOf([a \in MovedIn(pao, p, h) |-> Receipts(detail[a][h])], MovedIn(pao, p, h)),
               payment |-> SumOf([a \in MovedIn(pao, p, h) |-> Payments(detail[a][h])], MovedIn(pao, p, h)),
               ddos |-> {a.ddo : a \in MovedIn(pao, p, h)}]]
  BY <1>2, PraoTotalsAre
<1>4. \A h \in Heads : [receipt |-> SumOf([a \in MovedIn(pao, p, h) |-> Receipts(detail[a][h])], MovedIn(pao, p, h)),
               payment |-> SumOf([a \in MovedIn(pao, p, h) |-> Payments(detail[a][h])], MovedIn(pao, p, h)),
               ddos |-> {a.ddo : a \in MovedIn(pao, p, h)}] \in PraoLine
  BY <1>1
<1>5. D \in SUBSET Heads
  BY <1>2
<1>6. PraoTotals(pao, p) \in [D -> PraoLine]
  BY <1>3, <1>4, <1>5
<1> QED BY <1>5, <1>6 DEF Partial

LEMMA StartPraoIs ==
  ASSUME CashTypes, NEW t \in Threads, NEW pao \in Paos, NEW p \in Months, StartPrao(t, pao, p)
  PROVE  /\ req' \in [Threads -> Requests] /\ req'[t].op = "prao" /\ req'[t].of = <<pao, p>> /\ req'[t].pc = "read"
         /\ \A u \in Threads : u # t => req'[u] = req[u]
<1>1. PICK r : r = [op |-> "prao", pc |-> "read", of |-> <<pao, p>>, totals |-> << >>]
  OBVIOUS
<1>2. r \in Requests
  BY <1>1, EmptyPartial DEF Requests, Submissions
<1>3. req' = [req EXCEPT ![t] = r]
  BY <1>1 DEF StartPrao
<1>4. r.op = "prao" /\ r.of = <<pao, p>> /\ r.pc = "read"
  BY <1>1
<1> QED BY <1>2, <1>3, <1>4, NewRequest

LEMMA StartPraoTypes ==
  ASSUME CashTypes, NEW t \in Threads, NEW pao \in Paos, NEW p \in Months, StartPrao(t, pao, p)
  PROVE  CashTypes'
<1>1. req' \in [Threads -> Requests]
  BY StartPraoIs
<1>2. changed' \subseteq Submissions
  BY DEF StartPrao, CashTypes
<1> QED BY <1>1, <1>2 DEF CashTypes, StartPrao, tables, bounds

LEMMA ReadIs ==
  ASSUME CashTypes, NEW t \in Threads, GetPostPraoAccount(t)
  PROVE  /\ req' \in [Threads -> Requests]
         /\ \A u \in Threads : u # t => req'[u] = req[u]
         /\ \/ req'[t] = Idle
            \/ /\ req'[t].op = "prao" /\ req'[t].of = req[t].of /\ req'[t].pc = "copy"
               /\ req'[t].totals = PraoTotals(req[t].of[1], req[t].of[2]) /\ req'[t].totals # << >>
<1>1. req[t] \in Requests /\ req[t].op = "prao" /\ req[t].of \in Submissions
  BY ReqIs, PraoFields DEF GetPostPraoAccount, At
<1>2. PICK tot : tot = PraoTotals(req[t].of[1], req[t].of[2])
  OBVIOUS
<1>3. CASE tot = << >>
  BY <1>2, <1>3, DoneIs DEF GetPostPraoAccount
<1>4. CASE tot # << >>
  <2>1. tot \in Partial(Heads, PraoLine)
    BY <1>2, PraoTotalsType
  <2>2. PICK r : r = [req[t] EXCEPT !.pc = "copy", !.totals = tot]
    OBVIOUS
  <2>6. req[t] \in [op : {"prao"}, pc : {"read", "copy", "main"}, of : Submissions, totals : Partial(Heads, PraoLine)]
    BY <1>1 DEF Requests, Idle
  <2>7. r \in [op : {"prao"}, pc : {"read", "copy", "main"}, of : Submissions, totals : Partial(Heads, PraoLine)]
    BY <2>1, <2>2, <2>6
  <2>3. r \in Requests
    BY <2>7 DEF Requests
  <2>4. req' = [req EXCEPT ![t] = r]
    BY <1>2, <1>4, <2>2 DEF GetPostPraoAccount
  <2>5. r.op = "prao" /\ r.of = req[t].of /\ r.pc = "copy" /\ r.totals = tot
    BY <2>2, <2>6
  <2> QED BY <1>2, <1>4, <2>3, <2>4, <2>5, NewRequest
<1> QED BY <1>3, <1>4

LEMMA ReadTypes ==
  ASSUME CashTypes, NEW t \in Threads, GetPostPraoAccount(t)
  PROVE  CashTypes'
<1>1. req' \in [Threads -> Requests]
  BY ReadIs
<1> QED BY <1>1 DEF CashTypes, GetPostPraoAccount, tables, ghosts, bounds

\* A prao request that moves on keeps what it is about.
LEMMA PraoGoes ==
  ASSUME NEW r \in Requests, r.op = "prao", NEW pc \in {"read", "copy", "main"}
  PROVE  /\ [r EXCEPT !.pc = pc] \in Requests
         /\ [r EXCEPT !.pc = pc].op = "prao" /\ [r EXCEPT !.pc = pc].of = r.of
         /\ [r EXCEPT !.pc = pc].pc = pc /\ [r EXCEPT !.pc = pc].totals = r.totals
<1>1. r \in [op : {"prao"}, pc : {"read", "copy", "main"}, of : Submissions, totals : Partial(Heads, PraoLine)]
  BY DEF Requests, Idle
<1>2. PICK q : q = [r EXCEPT !.pc = pc]
  OBVIOUS
<1>3. q \in [op : {"prao"}, pc : {"read", "copy", "main"}, of : Submissions, totals : Partial(Heads, PraoLine)]
  BY <1>1, <1>2
<1>4. q \in Requests
  BY <1>3 DEF Requests
<1>5. q.op = "prao" /\ q.of = r.of /\ q.pc = pc /\ q.totals = r.totals
  BY <1>1, <1>2
<1> QED BY <1>2, <1>4, <1>5

\* So does a reversion.
LEMMA RevertGoes ==
  ASSUME NEW r \in Requests, r.op \in {"revert", "legacy"}, NEW q,
         NEW pc \in {"sub", "delete", "audit"},
         \/ q = [r EXCEPT !.pc = pc]
         \/ q = [r EXCEPT !.pc = pc, !.final = "SUCCESS"]
  PROVE  q \in Requests /\ q.op = r.op /\ q.of = r.of /\ q.pc = pc
<1>1. r \in [op : {"revert", "legacy"}, pc : {"sub", "delete", "audit"}, of : Accounts,
        sub : {"SUCCESS", "NOT_FOUND", "FAILED"}, final : {"SUCCESS", "FAILED"}]
  BY DEF Requests, Idle
<1>2. q \in [op : {"revert", "legacy"}, pc : {"sub", "delete", "audit"}, of : Accounts,
        sub : {"SUCCESS", "NOT_FOUND", "FAILED"}, final : {"SUCCESS", "FAILED"}]
      /\ q.op = r.op /\ q.of = r.of /\ q.pc = pc
  BY <1>1
<1> QED BY <1>2 DEF Requests

LEMMA CopyIs ==
  ASSUME CashTypes, NEW t \in Threads, CopyPraoDetail(t)
  PROVE  /\ req[t] \in Requests /\ req[t].op = "prao" /\ req[t].pc = "copy"
         /\ req' \in [Threads -> Requests]
         /\ \A u \in Threads : u # t => req'[u] = req[u]
         /\ \/ req'[t] = Idle /\ praoDetail' = praoDetail
            \/ /\ req'[t].op = "prao" /\ req'[t].of = req[t].of /\ req'[t].pc = "main"
               /\ req'[t].totals = req[t].totals
               /\ praoDetail' = Merge(praoDetail, req[t].of, req[t].totals)
               /\ ~(req[t].of \in DOMAIN praoDetail
                      /\ DOMAIN praoDetail[req[t].of] \cap DOMAIN req[t].totals # {})
<1> DEFINE k == req[t].of
           there == k \in DOMAIN praoDetail /\ DOMAIN praoDetail[k] \cap DOMAIN req[t].totals # {}
<1>1. req[t] \in Requests /\ req[t].op = "prao" /\ req[t].pc = "copy"
  BY ReqIs DEF CopyPraoDetail, At
<1>2. CASE there
  BY <1>1, <1>2, DoneIs DEF CopyPraoDetail
<1>3. CASE ~there
  <2>1. praoDetail' = Merge(praoDetail, k, req[t].totals) /\ Goto(t, "main")
    BY <1>3 DEF CopyPraoDetail
  <2>2. /\ [req[t] EXCEPT !.pc = "main"] \in Requests
        /\ [req[t] EXCEPT !.pc = "main"].op = "prao" /\ [req[t] EXCEPT !.pc = "main"].of = req[t].of
        /\ [req[t] EXCEPT !.pc = "main"].pc = "main" /\ [req[t] EXCEPT !.pc = "main"].totals = req[t].totals
    BY <1>1, PraoGoes
  <2>3. /\ req' \in [Threads -> Requests] /\ req'[t] = [req[t] EXCEPT !.pc = "main"]
        /\ \A u \in Threads : u # t => req'[u] = req[u]
    BY <2>1, <2>2, GotoIs
  <2> QED BY <1>1, <1>3, <2>1, <2>2, <2>3
<1> QED BY <1>2, <1>3

LEMMA CopyTypes ==
  ASSUME CashTypes, NEW t \in Threads, CopyPraoDetail(t)
  PROVE  CashTypes'
<1>1. req' \in [Threads -> Requests]
  BY CopyIs
<1>2. praoDetail' \in Partial(Submissions, Partial(Heads, PraoLine))
  <2>1. req[t].of \in Submissions /\ req[t].totals \in Partial(Heads, PraoLine)
    BY CopyIs, PraoFields
  <2>2. Merge(praoDetail, req[t].of, req[t].totals) \in Partial(Submissions, Partial(Heads, PraoLine))
    BY <2>1, MergePartial DEF CashTypes
  <2> QED BY <2>2, CopyIs DEF CashTypes
<1> QED BY <1>1, <1>2 DEF CashTypes, CopyPraoDetail, ghosts, bounds

LEMMA InsertPraoTypes ==
  ASSUME CashTypes, NEW t \in Threads, InsertPraoMain(t)
  PROVE  CashTypes'
<1>1. req' \in [Threads -> Requests]
  BY DoneIs DEF InsertPraoMain
<1>2. req[t].of \in Submissions
  BY ReqIs, PraoFields DEF InsertPraoMain, At
<1> QED BY <1>1, <1>2 DEF CashTypes, InsertPraoMain, ghosts, bounds

LEMMA StartReversionIs ==
  ASSUME CashTypes, NEW t \in Threads, NEW op \in {"revert", "legacy"}, NEW a \in Accounts, StartReversion(t, op, a)
  PROVE  /\ req' \in [Threads -> Requests] /\ req'[t].op = op /\ req'[t].of = a /\ req'[t].pc = "sub"
         /\ \A u \in Threads : u # t => req'[u] = req[u]
<1>1. PICK r : r = [op |-> op, pc |-> "sub", of |-> a, sub |-> "FAILED", final |-> "FAILED"]
  OBVIOUS
<1>2. r \in Requests
  BY <1>1 DEF Requests
<1>3. req' = [req EXCEPT ![t] = r]
  BY <1>1 DEF StartReversion
<1>4. r.op = op /\ r.of = a /\ r.pc = "sub"
  BY <1>1
<1> QED BY <1>2, <1>3, <1>4, NewRequest

LEMMA StartReversionTypes ==
  ASSUME CashTypes, NEW t \in Threads, NEW op \in {"revert", "legacy"}, NEW a \in Accounts, StartReversion(t, op, a)
  PROVE  CashTypes'
<1>1. req' \in [Threads -> Requests]
  BY StartReversionIs
<1>2. reverts' \in Nat
  BY DEF StartReversion, CashTypes
<1> QED BY <1>1, <1>2 DEF CashTypes, StartReversion, tables, ghosts

(* What the sub-accounts system's answer does: closed loses the account on SUCCESS,   *)
(* keeps it on FAILED, and does not have it on NOT_FOUND.                             *)
LEMMA AnswerIs ==
  ASSUME CashTypes, NEW t \in Threads, SubaccountsDeletes(t)
  PROVE  /\ req[t] \in Requests /\ req[t].op = "revert" /\ req[t].pc = "sub"
         /\ req' \in [Threads -> Requests]
         /\ req'[t].op = "revert" /\ req'[t].of = req[t].of /\ req'[t].pc = "delete"
         /\ \A u \in Threads : u # t => req'[u] = req[u]
         /\ \/ req[t].of \in closed /\ closed' = closed \ {req[t].of} /\ req'[t].sub = "SUCCESS" /\ faults' = faults
            \/ req[t].of \notin closed /\ closed' = closed /\ req'[t].sub = "NOT_FOUND" /\ faults' = faults
            \/ req[t].of \in closed /\ closed' = closed /\ req'[t].sub = "FAILED" /\ faults' \in Nat
<1>1. req[t] \in Requests /\ req[t].op = "revert" /\ req[t].pc = "sub"
  BY ReqIs DEF SubaccountsDeletes, Asked
<1>2. req[t] \in [op : {"revert", "legacy"}, pc : {"sub", "delete", "audit"}, of : Accounts,
        sub : {"SUCCESS", "NOT_FOUND", "FAILED"}, final : {"SUCCESS", "FAILED"}]
  BY <1>1 DEF Requests, Idle
<1>3. ASSUME NEW sub \in {"SUCCESS", "NOT_FOUND", "FAILED"}, req' = [req EXCEPT ![t].pc = "delete", ![t].sub = sub]
      PROVE  /\ req' \in [Threads -> Requests]
             /\ req'[t].op = "revert" /\ req'[t].of = req[t].of /\ req'[t].pc = "delete" /\ req'[t].sub = sub
             /\ \A u \in Threads : u # t => req'[u] = req[u]
  <2>1. PICK q : q = [req[t] EXCEPT !.pc = "delete", !.sub = sub]
    OBVIOUS
  <2>2. req' = [req EXCEPT ![t] = q]
    BY <1>3, <2>1
  <2>3. q \in [op : {"revert", "legacy"}, pc : {"sub", "delete", "audit"}, of : Accounts,
        sub : {"SUCCESS", "NOT_FOUND", "FAILED"}, final : {"SUCCESS", "FAILED"}]
    BY <1>2, <1>3, <2>1
  <2>4. q.op = "revert" /\ q.of = req[t].of /\ q.pc = "delete" /\ q.sub = sub
    BY <1>1, <1>2, <2>1
  <2>5. q \in Requests
    BY <2>3 DEF Requests
  <2> QED BY <2>2, <2>4, <2>5, NewRequest
<1> DEFINE on(sub) == req' = [req EXCEPT ![t].pc = "delete", ![t].sub = sub]
<1>4. \/ req[t].of \in closed /\ closed' = closed \ {req[t].of} /\ on("SUCCESS") /\ faults' = faults
      \/ req[t].of \notin closed /\ closed' = closed /\ on("NOT_FOUND") /\ faults' = faults
      \/ req[t].of \in closed /\ closed' = closed /\ on("FAILED") /\ Fault
  BY Zenon DEF SubaccountsDeletes, Asked
<1>5. Fault => faults' \in Nat
  BY DEF Fault, CashTypes
<1> QED BY <1>1, <1>3, <1>4, <1>5

LEMMA AnswerTypes ==
  ASSUME CashTypes, NEW t \in Threads, SubaccountsDeletes(t)
  PROVE  CashTypes'
<1>1. req' \in [Threads -> Requests] /\ closed' \subseteq Accounts /\ faults' \in Nat
  BY AnswerIs DEF CashTypes
<1>2. UNCHANGED <<te, tables, ghosts, verified, reverts>>
  BY DEF SubaccountsDeletes, Asked
<1> QED BY <1>1, <1>2 DEF CashTypes, tables, ghosts

LEMMA LegacyAnswerIs ==
  ASSUME CashTypes, NEW t \in Threads, SubaccountsDeletesFirst(t)
  PROVE  /\ req' \in [Threads -> Requests] /\ closed' \subseteq closed /\ faults' \in Nat
         /\ \A u \in Threads : u # t => req'[u] = req[u]
         /\ \/ req'[t] = Idle
            \/ req'[t].op = "legacy" /\ req'[t].of = req[t].of
<1>1. req[t] \in Requests /\ req[t].op = "legacy" /\ req[t].pc = "sub"
  BY ReqIs DEF SubaccountsDeletesFirst, Asked
<1>2. closed' \subseteq closed /\ faults' \in Nat /\ (Goto(t, "delete") \/ Done(t))
  BY DEF SubaccountsDeletesFirst, Asked, Fault, CashTypes
<1>3. CASE Done(t)
  BY <1>2, <1>3, DoneIs
<1>4. CASE Goto(t, "delete")
  <2>1. [req[t] EXCEPT !.pc = "delete"] \in Requests /\ [req[t] EXCEPT !.pc = "delete"].op = "legacy"
        /\ [req[t] EXCEPT !.pc = "delete"].of = req[t].of
    BY <1>1, RevertGoes
  <2> QED BY <1>2, <1>4, <2>1, GotoIs
<1> QED BY <1>2, <1>3, <1>4

LEMMA LegacyAnswerTypes ==
  ASSUME CashTypes, NEW t \in Threads, SubaccountsDeletesFirst(t)
  PROVE  CashTypes'
<1>1. req' \in [Threads -> Requests] /\ closed' \subseteq Accounts /\ faults' \in Nat
  BY LegacyAnswerIs DEF CashTypes
<1>2. UNCHANGED <<te, tables, ghosts, verified, reverts>>
  BY DEF SubaccountsDeletesFirst, Asked
<1> QED BY <1>1, <1>2 DEF CashTypes, tables, ghosts

\* The deletion takes the account out of all four tables, or fails and changes none.
LEMMA DeleteIs ==
  ASSUME CashTypes, NEW t \in Threads, DeletePAOCashAccount(t)
  PROVE  /\ req[t] \in Requests /\ req[t].op = "revert" /\ req[t].pc = "delete"
         /\ req' \in [Threads -> Requests]
         /\ req'[t].op = "revert" /\ req'[t].of = req[t].of /\ req'[t].pc = "audit" /\ req'[t].sub = req[t].sub
         /\ \A u \in Threads : u # t => req'[u] = req[u]
         /\ faults' \in Nat
         /\ \/ /\ account' = Without(account, req[t].of) /\ monthly' = Without(monthly, req[t].of)
               /\ detail' = Without(detail, req[t].of) /\ sheet' = Without(sheet, req[t].of)
               /\ Changes(req[t].of)
            \/ UNCHANGED <<account, monthly, detail, sheet, changed>>
<1>1. req[t] \in Requests /\ req[t].op = "revert" /\ req[t].pc = "delete"
  BY ReqIs DEF DeletePAOCashAccount, At
<1>2. req[t] \in [op : {"revert", "legacy"}, pc : {"sub", "delete", "audit"}, of : Accounts,
        sub : {"SUCCESS", "NOT_FOUND", "FAILED"}, final : {"SUCCESS", "FAILED"}]
  BY <1>1 DEF Requests, Idle
<1>3. ASSUME NEW q, q = [req[t] EXCEPT !.pc = "audit", !.final = "SUCCESS"] \/ q = [req[t] EXCEPT !.pc = "audit"],
             req' = [req EXCEPT ![t] = q]
      PROVE  /\ req' \in [Threads -> Requests]
             /\ req'[t].op = "revert" /\ req'[t].of = req[t].of /\ req'[t].pc = "audit" /\ req'[t].sub = req[t].sub
             /\ \A u \in Threads : u # t => req'[u] = req[u]
  <2>1. q \in [op : {"revert", "legacy"}, pc : {"sub", "delete", "audit"}, of : Accounts,
        sub : {"SUCCESS", "NOT_FOUND", "FAILED"}, final : {"SUCCESS", "FAILED"}]
    BY <1>2, <1>3
  <2>2. q.op = "revert" /\ q.of = req[t].of /\ q.pc = "audit" /\ q.sub = req[t].sub
    BY <1>1, <1>2, <1>3
  <2>3. q \in Requests
    BY <2>1 DEF Requests
  <2> QED BY <1>3, <2>2, <2>3, NewRequest
<1> DEFINE deleted ==
             /\ account' = Without(account, req[t].of) /\ monthly' = Without(monthly, req[t].of)
             /\ detail' = Without(detail, req[t].of) /\ sheet' = Without(sheet, req[t].of)
             /\ Changes(req[t].of)
<1>4. \/ deleted /\ req' = [req EXCEPT ![t].pc = "audit", ![t].final = "SUCCESS"] /\ UNCHANGED faults
      \/ Fault /\ Goto(t, "audit") /\ UNCHANGED <<account, monthly, detail, sheet, changed>>
  BY Zenon DEF DeletePAOCashAccount
<1>5. CASE deleted /\ req' = [req EXCEPT ![t].pc = "audit", ![t].final = "SUCCESS"] /\ UNCHANGED faults
  <2>1. PICK q : q = [req[t] EXCEPT !.pc = "audit", !.final = "SUCCESS"]
    OBVIOUS
  <2>2. req' = [req EXCEPT ![t] = q]
    BY <1>5, <2>1
  <2>3. faults' \in Nat
    BY <1>5 DEF CashTypes
  <2> QED BY <1>1, <1>3, <1>5, <2>1, <2>2, <2>3
<1>6. CASE Fault /\ Goto(t, "audit") /\ UNCHANGED <<account, monthly, detail, sheet, changed>>
  <2>1. PICK q : q = [req[t] EXCEPT !.pc = "audit"]
    OBVIOUS
  <2>2. req' = [req EXCEPT ![t] = q]
    BY <1>6, <2>1 DEF Goto
  <2>3. faults' \in Nat
    BY <1>6 DEF CashTypes, Fault
  <2> QED BY <1>1, <1>3, <1>6, <2>1, <2>2, <2>3
<1> QED BY <1>4, <1>5, <1>6

LEMMA HeldWithout ==
  ASSUME CashTypes, NEW a
  PROVE  /\ Without(account, a) \in Partial(Accounts, Held)
         /\ \A x \in DOMAIN Without(account, a) : Without(account, a)[x] \in Contents[x]
         /\ Without(monthly, a) \in Partial(Accounts, Row)
         /\ Without(detail, a) \in Partial(Accounts, Partial(Heads, Line))
         /\ Without(sheet, a) \in Partial(Accounts, Partial(Heads, SheetLine))
<1>1. Without(account, a) \in Partial(Accounts, Held)
  BY WithoutPartial DEF CashTypes
<1>2. Without(monthly, a) \in Partial(Accounts, Row)
  BY WithoutPartial DEF CashTypes
<1>3. Without(detail, a) \in Partial(Accounts, Partial(Heads, Line))
  BY WithoutPartial DEF CashTypes
<1>4. Without(sheet, a) \in Partial(Accounts, Partial(Heads, SheetLine))
  BY WithoutPartial DEF CashTypes
<1>5. \A x \in DOMAIN Without(account, a) : Without(account, a)[x] \in Contents[x]
  BY DEF Without, Restrict, CashTypes
<1> QED BY <1>1, <1>2, <1>3, <1>4, <1>5

LEMMA DeleteTypes ==
  ASSUME CashTypes, NEW t \in Threads, DeletePAOCashAccount(t)
  PROVE  CashTypes'
<1>1. req' \in [Threads -> Requests] /\ faults' \in Nat /\ req[t].of \in Accounts
  BY DeleteIs, RevertFields
<1>2. UNCHANGED <<closed, te, praoDetail, praoMain, audit, legacy, unlogged, verified, reverts>>
  BY DEF DeletePAOCashAccount
<1>3. CASE /\ account' = Without(account, req[t].of) /\ monthly' = Without(monthly, req[t].of)
           /\ detail' = Without(detail, req[t].of) /\ sheet' = Without(sheet, req[t].of)
           /\ Changes(req[t].of)
  <2>1. changed' \subseteq Submissions
    BY <1>1, <1>3, PaoOfAccount DEF Changes, CashTypes
  <2>2. account' \in Partial(Accounts, Held) /\ \A x \in DOMAIN account' : account'[x] \in Contents[x]
    BY <1>3, HeldWithout
  <2>3. monthly' \in Partial(Accounts, Row)
    BY <1>3, HeldWithout
  <2>4. detail' \in Partial(Accounts, Partial(Heads, Line))
    BY <1>3, HeldWithout
  <2>5. sheet' \in Partial(Accounts, Partial(Heads, SheetLine))
    BY <1>3, HeldWithout
  <2> QED BY <1>1, <1>2, <2>1, <2>2, <2>3, <2>4, <2>5 DEF CashTypes
<1>4. CASE UNCHANGED <<account, monthly, detail, sheet, changed>>
  BY <1>1, <1>2, <1>4 DEF CashTypes
<1> QED BY <1>3, <1>4, DeleteIs

LEMMA FinishIs ==
  ASSUME CashTypes, NEW t \in Threads, FinishReversion(t)
  PROVE  /\ req[t] \in Requests /\ req[t].op = "revert" /\ req[t].pc = "audit"
         /\ req' \in [Threads -> Requests] /\ req'[t] = Idle
         /\ \A u \in Threads : u # t => req'[u] = req[u]
         /\ \/ /\ audit' \in Seq(AuditRow) /\ Len(audit') = Len(audit) + 1
               /\ \A i \in 1..Len(audit) : audit'[i] = audit[i]
               /\ audit'[Len(audit')].of = req[t].of /\ audit'[Len(audit')].sub = req[t].sub
               /\ unlogged' = unlogged /\ faults' = faults
            \/ audit' = audit /\ unlogged' = unlogged \cup {req[t].of} /\ faults' \in Nat
<1>1. req[t] \in Requests /\ req[t].op = "revert" /\ req[t].pc = "audit"
  BY ReqIs DEF FinishReversion, At
<1>2. req' \in [Threads -> Requests] /\ req'[t] = Idle /\ \A u \in Threads : u # t => req'[u] = req[u]
  BY DoneIs DEF FinishReversion
<1>3. CASE InsertCashAccReversion(req[t]) /\ UNCHANGED <<faults, unlogged>>
  <2>1. PICK row : row = [of |-> req[t].of, sub |-> req[t].sub, final |-> req[t].final]
    OBVIOUS
  <2>2. row \in AuditRow /\ row.of = req[t].of /\ row.sub = req[t].sub
    BY <1>1, <2>1, RevertFields DEF AuditRow
  <2>3. audit' = Append(audit, row) /\ audit \in Seq(AuditRow)
    BY <1>3, <2>1 DEF InsertCashAccReversion, CashTypes
  <2>4. /\ audit' \in Seq(AuditRow) /\ Len(audit') = Len(audit) + 1
        /\ \A i \in 1..Len(audit) : audit'[i] = audit[i]
        /\ audit'[Len(audit) + 1] = row
    BY <2>2, <2>3, AppendProperties
  <2> QED BY <1>1, <1>2, <1>3, <2>2, <2>4
<1>4. CASE Fault /\ UNCHANGED audit /\ unlogged' = unlogged \cup {req[t].of}
  BY <1>1, <1>2, <1>4 DEF Fault, CashTypes
<1> QED BY <1>3, <1>4 DEF FinishReversion

LEMMA FinishTypes ==
  ASSUME CashTypes, NEW t \in Threads, FinishReversion(t)
  PROVE  CashTypes'
<1>1. req' \in [Threads -> Requests] /\ faults' \in Nat /\ audit' \in Seq(AuditRow)
  BY FinishIs DEF CashTypes
<1>2. req[t].of \in Accounts
  BY FinishIs, RevertFields
<1>3. unlogged' \subseteq Accounts
  BY <1>2, FinishIs DEF CashTypes
<1> QED BY <1>1, <1>3 DEF CashTypes, FinishReversion

LEMMA LegacyDeleteTypes ==
  ASSUME CashTypes, NEW t \in Threads, RevertCashAccount(t)
  PROVE  CashTypes'
<1>1. req' \in [Threads -> Requests]
  BY DoneIs DEF RevertCashAccount
<1>2. req[t].of \in Accounts
  BY ReqIs, RevertFields DEF RevertCashAccount, At
<1>3. PICK a : a = req[t].of
  OBVIOUS
<1>4. /\ account' = account \/ account' = Without(account, a)
      /\ detail' = detail \/ detail' = Without(detail, a)
      /\ monthly' = monthly \/ monthly' = Without(monthly, a)
      /\ legacy' = legacy \cup {a} /\ Changes(a)
      /\ UNCHANGED <<closed, te, sheet, praoDetail, praoMain, audit, unlogged, bounds>>
  BY <1>3 DEF RevertCashAccount
<1>5. legacy' \subseteq Accounts /\ changed' \subseteq Submissions
  BY <1>2, <1>3, <1>4, PaoOfAccount DEF Changes, CashTypes
<1>6. account' \in Partial(Accounts, Held) /\ \A x \in DOMAIN account' : account'[x] \in Contents[x]
  BY <1>4, HeldWithout DEF CashTypes
<1>7. monthly' \in Partial(Accounts, Row)
  BY <1>4, HeldWithout DEF CashTypes
<1>8. detail' \in Partial(Accounts, Partial(Heads, Line))
  BY <1>4, HeldWithout DEF CashTypes
<1> QED BY <1>1, <1>4, <1>5, <1>6, <1>7, <1>8 DEF CashTypes, bounds

LEMMA StopTypes ==
  ASSUME CashTypes, NEW t \in Threads, Stop(t)
  PROVE  CashTypes'
<1>1. req' \in [Threads -> Requests]
  BY DoneIs DEF Stop
<1>2. legacy' \subseteq Accounts
  BY ReqIs, RevertFields DEF Stop, CashTypes
<1>3. faults' \in Nat
  BY DEF Stop, Fault, CashTypes
<1> QED BY <1>1, <1>2, <1>3 DEF CashTypes, Stop, tables

LEMMA InitTypes == ASSUME Init PROVE CashTypes
<1>1. \A S, T : << >> \in Partial(S, T) /\ DOMAIN << >> = {}
  BY EmptyPartial
<1>2. te \in [Accounts -> [Heads -> [receipt : Int, payment : Int]]]
  BY DEF Init, None
<1>3. req \in [Threads -> Requests]
  BY DEF Init, Requests
<1>4. audit \in Seq(AuditRow)
  BY DEF Init
<1> QED BY <1>1, <1>2, <1>3, <1>4 DEF Init, CashTypes

LEMMA StutterTypes == ASSUME CashTypes, UNCHANGED vars PROVE CashTypes'
BY DEF CashTypes, vars, tables, ghosts, bounds

LEMMA NextTypes == ASSUME CashTypes, Next PROVE CashTypes'
<1>1. CASE Outside
  BY <1>1, ArriveTypes, TransferEntryTypes, UpdateTypes DEF Outside
<1>2. ASSUME NEW t \in Threads, Begin(t) PROVE CashTypes'
  BY <1>2, FetchTypes, StartReversionTypes, StartPraoTypes DEF Begin
<1>3. ASSUME NEW t \in Threads, Serve(t) PROVE CashTypes'
  BY <1>3, PostTypes, PostEmptyTypes, ReadTypes, CopyTypes, InsertPraoTypes, AnswerTypes, LegacyAnswerTypes,
     DeleteTypes, FinishTypes, LegacyDeleteTypes, StopTypes DEF Serve
<1> QED BY <1>1, <1>2, <1>3 DEF Next

--------------------------------------------------------------------------------
(* What vanished is on record *)

Told == {audit[i].of : i \in {j \in DOMAIN audit : audit[j].sub # "SUCCESS"}}
\* Reversions about to store that the other side did not delete.
Telling == {req[t].of : t \in {u \in Threads : req[u].op = "revert" /\ req[u].pc = "audit" /\ req[u].sub # "SUCCESS"}}
OnRecord == Told \cup Telling \cup legacy \cup unlogged
\* Reversions that delete here what the other side deleted for them.
Sure == {t \in Threads : req[t].op = "revert" /\ req[t].pc = "delete" /\ req[t].sub = "SUCCESS"}

VanishInv ==
  /\ closed \ DOMAIN account \subseteq OnRecord
  /\ \A t \in Sure : req[t].of \in closed \/ req[t].of \notin DOMAIN account => req[t].of \in OnRecord
  /\ \A t, u \in Sure : t # u /\ req[t].of = req[u].of => req[t].of \in OnRecord

LEMMA InitVanish == ASSUME Init PROVE VanishInv
<1>1. \A t \in Threads : req[t].op # "revert"
  BY DEF Init, Idle
<1>2. Sure = {}
  BY <1>1 DEF Sure
<1> QED BY <1>2 DEF Init, VanishInv

(* Steps that neither begin nor end the deletion of a reversion. *)
LEMMA VanishAside ==
  ASSUME CashTypes, VanishInv, closed' \subseteq closed,
         \A a \in DOMAIN account \ DOMAIN account' : a \in legacy',
         legacy \subseteq legacy', unlogged' = unlogged, audit' = audit,
         \A u \in Threads : \/ req'[u] = req[u]
                            \/ req[u].op # "revert" /\ ~(req'[u].op = "revert" /\ req'[u].pc = "delete")
                            \/ req[u].of \in legacy' /\ req'[u] = Idle
  PROVE  VanishInv'
<1>1. Told' = Told
  BY DEF Told
<1>2. Telling \subseteq Telling' \cup legacy'
  BY DEF Telling
<1>3. OnRecord \subseteq OnRecord'
  BY <1>1, <1>2 DEF OnRecord
<1>4. \A t \in Sure' : t \in Sure /\ req'[t] = req[t]
  <2>1. Idle.op # "revert"
    BY DEF Idle
  <2> QED BY <2>1 DEF Sure
<1>5. legacy' \subseteq OnRecord'
  BY DEF OnRecord
<1>6. (closed \ DOMAIN account \subseteq OnRecord)'
  BY <1>3, <1>5 DEF VanishInv
<1>7. (\A t \in Sure : req[t].of \in closed \/ req[t].of \notin DOMAIN account => req[t].of \in OnRecord)'
  BY <1>3, <1>4, <1>5 DEF VanishInv
<1>8. (\A t, u \in Sure : t # u /\ req[t].of = req[u].of => req[t].of \in OnRecord)'
  BY <1>3, <1>4 DEF VanishInv
<1> QED BY <1>6, <1>7, <1>8 DEF VanishInv

LEMMA ArriveVanish ==
  ASSUME CashTypes, VanishInv, NEW a \in Accounts, NEW c \in Contents[a], Arrive(a, c)
  PROVE  VanishInv'
<1>1. /\ a \notin closed /\ a \notin DOMAIN account /\ closed' = closed \cup {a}
      /\ DOMAIN account' = DOMAIN account \cup {a}
      /\ UNCHANGED <<audit, req, legacy, unlogged>>
  BY DEF Arrive, Put, ghosts
<1>2. OnRecord' = OnRecord /\ Sure' = Sure
  BY <1>1 DEF OnRecord, Told, Telling, Sure
<1> QED BY <1>1, <1>2 DEF VanishInv

LEMMA AnswerVanish ==
  ASSUME CashTypes, VanishInv, NEW t \in Threads, SubaccountsDeletes(t)
  PROVE  VanishInv'
<1>1. UNCHANGED <<account, audit, legacy, unlogged>>
  BY DEF SubaccountsDeletes, Asked, tables, ghosts
<1>2. OnRecord' = OnRecord
  <2>1. Told' = Told
    BY <1>1 DEF Told
  <2>2. Telling' = Telling
    BY AnswerIs DEF Telling
  <2> QED BY <1>1, <2>1, <2>2 DEF OnRecord
<1>3. \A u \in Sure' : u = t \/ (u \in Sure /\ req'[u] = req[u])
  <2>1. \A u \in Threads : u # t => req'[u] = req[u]
    BY AnswerIs
  <2> QED BY <2>1 DEF Sure
<1>4. CASE req[t].of \in closed /\ closed' = closed \ {req[t].of} /\ req'[t].sub = "SUCCESS"
  <2>1. req'[t].of = req[t].of /\ t \notin Sure
    BY AnswerIs DEF Sure
  <2>2. (closed \ DOMAIN account \subseteq OnRecord)'
    BY <1>1, <1>2, <1>4 DEF VanishInv
  <2>3. (\A u \in Sure : req[u].of \in closed \/ req[u].of \notin DOMAIN account => req[u].of \in OnRecord)'
    BY <1>1, <1>2, <1>3, <1>4, <2>1 DEF VanishInv
  <2>4. \A u \in Sure : req[u].of = req[t].of => req[t].of \in OnRecord
    BY <1>4 DEF VanishInv
  <2>5. (\A v, u \in Sure : v # u /\ req[v].of = req[u].of => req[v].of \in OnRecord)'
    BY <1>2, <1>3, <2>1, <2>4 DEF VanishInv
  <2> QED BY <2>2, <2>3, <2>5 DEF VanishInv
<1>5. CASE closed' = closed /\ req'[t].sub # "SUCCESS"
  <2>1. \A u \in Sure' : u \in Sure /\ req'[u] = req[u]
    BY <1>3, <1>5 DEF Sure
  <2> QED BY <1>1, <1>2, <1>5, <2>1 DEF VanishInv
<1> QED BY <1>4, <1>5, AnswerIs

LEMMA DeleteVanish ==
  ASSUME CashTypes, VanishInv, NEW t \in Threads, DeletePAOCashAccount(t)
  PROVE  VanishInv'
<1>1. UNCHANGED <<closed, audit, legacy, unlogged>>
  BY DEF DeletePAOCashAccount
<1>2. Told' = Told
  BY <1>1 DEF Told
<1>3. /\ Telling \subseteq Telling'
      /\ req[t].sub # "SUCCESS" => req[t].of \in Telling'
  <2>1. \A u \in Threads : req[u].pc = "audit" => req'[u] = req[u]
    BY DeleteIs
  <2> QED BY <2>1, DeleteIs DEF Telling
<1>4. OnRecord \subseteq OnRecord' /\ (req[t].sub # "SUCCESS" => req[t].of \in OnRecord')
  BY <1>1, <1>2, <1>3 DEF OnRecord
<1>5. \A u \in Sure' : u \in Sure /\ u # t /\ req'[u] = req[u]
  BY DeleteIs DEF Sure
<1>6. \A a \in DOMAIN account : a # req[t].of => a \in DOMAIN account'
  <2>1. account' = Without(account, req[t].of) \/ account' = account
    BY DeleteIs
  <2> QED BY <2>1 DEF Without, Restrict
<1>7. req[t].sub = "SUCCESS" => t \in Sure
  BY DeleteIs DEF Sure
<1>8. (closed \ DOMAIN account \subseteq OnRecord)'
  BY <1>1, <1>4, <1>6, <1>7 DEF VanishInv
<1>9. (\A u \in Sure : req[u].of \in closed \/ req[u].of \notin DOMAIN account => req[u].of \in OnRecord)'
  BY <1>1, <1>4, <1>5, <1>6, <1>7 DEF VanishInv
<1>10. (\A v, u \in Sure : v # u /\ req[v].of = req[u].of => req[v].of \in OnRecord)'
  BY <1>4, <1>5 DEF VanishInv
<1> QED BY <1>8, <1>9, <1>10 DEF VanishInv

LEMMA FinishVanish ==
  ASSUME CashTypes, VanishInv, NEW t \in Threads, FinishReversion(t)
  PROVE  VanishInv'
<1>1. UNCHANGED <<closed, account, legacy>>
  BY DEF FinishReversion
<1>2. audit \in Seq(AuditRow) /\ Len(audit) \in Nat /\ DOMAIN audit = 1..Len(audit)
  BY LenProperties DEF CashTypes
<1>3. Told \subseteq Told'
  <2>1. CASE audit' = audit
    BY <2>1 DEF Told
  <2>2. CASE audit' # audit
    <3>1. audit' \in Seq(AuditRow) /\ Len(audit') = Len(audit) + 1 /\ \A i \in 1..Len(audit) : audit'[i] = audit[i]
      BY <2>2, FinishIs
    <3>2. DOMAIN audit' = 1..Len(audit')
      BY <3>1, LenProperties
    <3>3. \A i \in DOMAIN audit : i \in DOMAIN audit' /\ audit'[i] = audit[i]
      BY <1>2, <3>1, <3>2
    <3> QED BY <3>3 DEF Told
  <2> QED BY <2>1, <2>2
<1>4. req[t].sub # "SUCCESS" => req[t].of \in Told' \cup unlogged'
  <2>1. CASE unlogged' = unlogged \cup {req[t].of}
    BY <2>1
  <2>2. CASE unlogged' # unlogged \cup {req[t].of}
    <3>1. /\ audit' \in Seq(AuditRow) /\ Len(audit') = Len(audit) + 1
          /\ audit'[Len(audit')].of = req[t].of /\ audit'[Len(audit')].sub = req[t].sub
      BY <2>2, FinishIs
    <3>2. DOMAIN audit' = 1..Len(audit')
      BY <3>1, LenProperties
    <3>3. Len(audit') \in DOMAIN audit'
      BY <1>2, <3>1, <3>2
    <3> QED BY <3>1, <3>3 DEF Told
  <2> QED BY <2>1, <2>2
<1>5. \A u \in Threads : u = t \/ req'[u] = req[u]
  BY FinishIs
<1>6. Telling \subseteq Telling' \cup Told' \cup unlogged'
  BY <1>4, <1>5 DEF Telling
<1>7. unlogged \subseteq unlogged'
  BY FinishIs
<1>8. OnRecord \subseteq OnRecord'
  BY <1>1, <1>3, <1>6, <1>7 DEF OnRecord
<1>9. \A u \in Sure' : u \in Sure /\ req'[u] = req[u]
  <2>1. Idle.op # "revert"
    BY DEF Idle
  <2> QED BY <1>5, <2>1, FinishIs DEF Sure
<1> QED BY <1>1, <1>8, <1>9 DEF VanishInv

LEMMA NextVanish == ASSUME CashTypes, VanishInv, Next PROVE VanishInv'
<1>0. Idle.op # "revert"
  BY DEF Idle
<1>1. CASE Outside
  <2>1. CASE \E a \in Accounts : \E c \in Contents[a] : Arrive(a, c)
    BY <2>1, ArriveVanish
  <2>2. ASSUME NEW a \in Accounts, NEW h \in Heads, NEW side \in {"receipt", "payment"}, TransferEntryMade(a, h, side)
        PROVE  VanishInv'
    BY <2>2, VanishAside DEF TransferEntryMade, tables, ghosts
  <2>3. ASSUME NEW pao \in Paos, NEW p \in Months, UpdateDdoMonthly(pao, p) PROVE VanishInv'
    BY <2>3, VanishAside DEF UpdateDdoMonthly
  <2> QED BY <1>1, <2>1, <2>2, <2>3 DEF Outside
<1>2. ASSUME NEW t \in Threads, Begin(t) PROVE VanishInv'
  <2>0. \A u \in Threads : Free(t) /\ u = t => req[u].op # "revert"
    BY <1>0 DEF Free
  <2>1. ASSUME NEW a \in Accounts, FetchDdoMonthlyDetail(t, a) PROVE VanishInv'
    <3>1. Free(t) /\ UNCHANGED <<closed, account, audit, legacy, unlogged>>
      BY <2>1 DEF FetchDdoMonthlyDetail, tables, ghosts
    <3>2. \A u \in Threads : req'[u] = req[u] \/ (req[u].op # "revert" /\ req'[u].op # "revert")
      BY <2>0, <2>1, <3>1, FetchIs
    <3> QED BY <3>1, <3>2, VanishAside
  <2>2. ASSUME NEW op \in {"revert", "legacy"}, NEW a \in Accounts, StartReversion(t, op, a) PROVE VanishInv'
    <3>1. Free(t) /\ UNCHANGED <<closed, account, audit, legacy, unlogged>>
      BY <2>2 DEF StartReversion, tables, ghosts
    <3>2. \A u \in Threads : req'[u] = req[u] \/ (req[u].op # "revert" /\ req'[u].pc # "delete")
      BY <2>0, <2>2, <3>1, StartReversionIs
    <3> QED BY <3>1, <3>2, VanishAside
  <2>3. ASSUME NEW pao \in Paos, NEW p \in Months, StartPrao(t, pao, p) PROVE VanishInv'
    <3>1. Free(t) /\ UNCHANGED <<closed, account, audit, legacy, unlogged>>
      BY <2>3 DEF StartPrao, tables
    <3>2. \A u \in Threads : req'[u] = req[u] \/ (req[u].op # "revert" /\ req'[u].op # "revert")
      BY <2>0, <2>3, <3>1, StartPraoIs
    <3> QED BY <3>1, <3>2, VanishAside
  <2> QED BY <1>2, <2>1, <2>2, <2>3 DEF Begin
<1>3. ASSUME NEW t \in Threads, Serve(t) PROVE VanishInv'
  <2>1. ASSUME Done(t), req[t].op # "revert", closed' = closed, account' = account, audit' = audit,
               legacy' = legacy, unlogged' = unlogged
        PROVE  VanishInv'
    <3>1. \A u \in Threads : req'[u] = req[u] \/ (req[u].op # "revert" /\ req'[u].op # "revert")
      BY <1>0, <2>1, DoneIs
    <3> QED BY <2>1, <3>1, VanishAside
  <2>2. CASE PostPfmsMonthlyverified(t)
    BY <2>1, <2>2 DEF PostPfmsMonthlyverified, At
  <2>3. CASE PostEmptyPfmsMonthlyverified(t)
    BY <2>1, <2>3 DEF PostEmptyPfmsMonthlyverified, At
  <2>4. CASE GetPostPraoAccount(t)
    <3>1. req[t].op # "revert" /\ UNCHANGED <<closed, account, audit, legacy, unlogged>>
      BY <2>4 DEF GetPostPraoAccount, At, tables, ghosts
    <3>2. \A u \in Threads : req'[u] = req[u] \/ (req[u].op # "revert" /\ req'[u].op # "revert")
      <4>1. \A u \in Threads : u # t => req'[u] = req[u]
        BY <2>4, ReadIs
      <4>2. req'[t].op # "revert"
        BY <1>0, <2>4, ReadIs
      <4> QED BY <3>1, <4>1, <4>2
    <3> QED BY <3>1, <3>2, VanishAside
  <2>5. CASE CopyPraoDetail(t)
    <3>1. req[t].op # "revert" /\ UNCHANGED <<closed, account, audit, legacy, unlogged>>
      BY <2>5 DEF CopyPraoDetail, At, ghosts
    <3>2. \A u \in Threads : req'[u] = req[u] \/ (req[u].op # "revert" /\ req'[u].op # "revert")
      <4>1. \A u \in Threads : u # t => req'[u] = req[u]
        BY <2>5, CopyIs
      <4>2. req'[t].op # "revert"
        BY <1>0, <2>5, CopyIs
      <4> QED BY <3>1, <4>1, <4>2
    <3> QED BY <3>1, <3>2, VanishAside
  <2>6. CASE InsertPraoMain(t)
    BY <2>1, <2>6 DEF InsertPraoMain, At, ghosts
  <2>7. CASE SubaccountsDeletes(t)
    BY <2>7, AnswerVanish
  <2>8. CASE SubaccountsDeletesFirst(t)
    <3>1. req[t].op # "revert" /\ UNCHANGED <<account, audit, legacy, unlogged>>
      BY <2>8 DEF SubaccountsDeletesFirst, Asked, tables, ghosts
    <3>2. \A u \in Threads : req'[u] = req[u] \/ (req[u].op # "revert" /\ req'[u].op # "revert")
      <4>1. \A u \in Threads : u # t => req'[u] = req[u]
        BY <2>8, LegacyAnswerIs
      <4>2. req'[t].op # "revert"
        BY <1>0, <2>8, LegacyAnswerIs
      <4> QED BY <3>1, <4>1, <4>2
    <3>3. closed' \subseteq closed
      BY <2>8, LegacyAnswerIs
    <3> QED BY <3>1, <3>2, <3>3, VanishAside
  <2>9. CASE DeletePAOCashAccount(t)
    BY <2>9, DeleteVanish
  <2>10. CASE FinishReversion(t)
    BY <2>10, FinishVanish
  <2>11. CASE RevertCashAccount(t)
    <3>1. req[t].op # "revert" /\ UNCHANGED <<closed, audit, unlogged>> /\ legacy' = legacy \cup {req[t].of} /\ Done(t)
      BY <2>11 DEF RevertCashAccount, At
    <3>2. \A u \in Threads : req'[u] = req[u] \/ (req[u].op # "revert" /\ req'[u].op # "revert")
      BY <1>0, <3>1, DoneIs
    <3>3. \A a \in DOMAIN account \ DOMAIN account' : a \in legacy'
      <4>1. account' = account \/ account' = Without(account, req[t].of)
        BY <2>11 DEF RevertCashAccount
      <4> QED BY <3>1, <4>1 DEF Without, Restrict
    <3> QED BY <3>1, <3>2, <3>3, VanishAside
  <2>12. CASE Stop(t)
    <3>1. Done(t) /\ UNCHANGED <<closed, account, audit, unlogged>> /\ legacy \subseteq legacy'
          /\ (req[t].op = "revert" => req[t].of \in legacy')
      BY <2>12 DEF Stop, tables
    <3>2. \A u \in Threads : \/ req'[u] = req[u]
                             \/ req[u].op # "revert" /\ req'[u].op # "revert"
                             \/ req[u].of \in legacy' /\ req'[u] = Idle
      <4>1. req'[t] = Idle /\ \A u \in Threads : u # t => req'[u] = req[u]
        BY <3>1, DoneIs
      <4>2. req'[t].op # "revert"
        BY <1>0, <4>1
      <4>3. CASE req[t].op = "revert"
        BY <3>1, <4>1, <4>3
      <4>4. CASE req[t].op # "revert"
        BY <4>1, <4>2, <4>4
      <4> QED BY <4>3, <4>4
    <3> QED BY <3>1, <3>2, VanishAside
  <2> QED BY <1>3, <2>2, <2>3, <2>4, <2>5, <2>6, <2>7, <2>8, <2>9, <2>10, <2>11, <2>12 DEF Serve
<1> QED BY <1>1, <1>2, <1>3 DEF Next

LEMMA StutterVanish == ASSUME CashTypes, VanishInv, UNCHANGED vars PROVE VanishInv'
BY VanishAside DEF vars, tables, ghosts

LEMMA VanishSays == ASSUME CashTypes, VanishInv PROVE NothingVanishes
<1> SUFFICES ASSUME Quiet, NEW a \in closed \ (DOMAIN account \cup legacy \cup unlogged)
             PROVE  \E i \in DOMAIN audit : audit[i].of = a /\ audit[i].sub # "SUCCESS"
  BY DEF NothingVanishes
<1>1. Telling = {}
  BY DEF Telling, Quiet, Free, Idle
<1>2. a \in Told
  BY <1>1 DEF VanishInv, OnRecord
<1> QED BY <1>2 DEF Told

(* The reversion ends with an account gone from the PAO and still closed at the    *)
(* sub-accounts system only where an audit row, an unstored one or the older        *)
(* reversion's list says so, however many reversions run (CashAccountReversion).     *)
THEOREM NothingVanishesUnrecorded == Spec => []NothingVanishes
<1>1. Init => CashTypes /\ VanishInv
  BY InitTypes, InitVanish
<1>2. CashTypes /\ VanishInv /\ [Next]_vars => (CashTypes /\ VanishInv)'
  BY NextTypes, StutterTypes, NextVanish, StutterVanish
<1>3. CashTypes /\ VanishInv => NothingVanishes
  BY VanishSays
<1> QED BY <1>1, <1>2, <1>3, PTL DEF Spec

--------------------------------------------------------------------------------
(* Verified heads and their rows in the broad sheet *)

\* The heads a table has of an account.
HeadsIn(f, a) == IF a \in DOMAIN f THEN DOMAIN f[a] ELSE {}

LEMMA MergeHeads ==
  ASSUME NEW f, NEW a, NEW g
  PROVE  \A h : h \in HeadsIn(Merge(f, a, g), a) <=> h \in HeadsIn(f, a) \/ h \in DOMAIN g
<1>1. PICK m : m = Merge(f, a, g)
  OBVIOUS
<1>2. a \in DOMAIN m
  BY <1>1, MergeDomain
<1>3. HeadsIn(m, a) = DOMAIN m[a]
  BY <1>2 DEF HeadsIn
<1>4. CASE a \notin DOMAIN f
  <2>1. m[a] = g /\ HeadsIn(f, a) = {}
    BY <1>1, <1>4, MergeNew DEF HeadsIn
  <2> QED BY <1>1, <1>3, <2>1
<1>5. CASE a \in DOMAIN f
  <2>1. m[a] = Over(g, f[a]) /\ HeadsIn(f, a) = DOMAIN f[a]
    <3>1. m[a] = Over(g, f[a])
      BY <1>1, <1>5, MergeThere
    <3> QED BY <1>5, <3>1 DEF HeadsIn
  <2>2. DOMAIN Over(g, f[a]) = DOMAIN g \cup DOMAIN f[a]
    BY DEF Over
  <2> QED BY <1>1, <1>3, <2>1, <2>2
<1> QED BY <1>4, <1>5

LEMMA MergedIn ==
  ASSUME NEW f, NEW a, NEW g, NEW h \in DOMAIN g
  PROVE  Merge(f, a, g)[a][h] = g[h]
<1>1. CASE a \notin DOMAIN f
  BY <1>1, MergeNew
<1>2. CASE a \in DOMAIN f
  <2>1. Merge(f, a, g)[a] = Over(g, f[a])
    BY <1>2, MergeThere
  <2> QED BY <2>1 DEF Over
<1> QED BY <1>1, <1>2

LEMMA MergeKeeps ==
  ASSUME NEW f, NEW a, NEW g, NEW h \in HeadsIn(f, a), h \notin DOMAIN g
  PROVE  Merge(f, a, g)[a][h] = f[a][h]
<1>1. a \in DOMAIN f /\ h \in DOMAIN f[a]
  BY DEF HeadsIn
<1>2. Merge(f, a, g)[a] = Over(g, f[a])
  BY <1>1, MergeThere
<1> QED BY <1>1, <1>2 DEF Over

LEMMA SheetRowSays ==
  ASSUME NEW a, NEW h, NEW l
  PROVE  /\ SheetRow(a, h, l).credit = l.receipt /\ SheetRow(a, h, l).debit = l.payment
         /\ SheetRow(a, h, l).opening = PrevClosing(a, h) /\ SheetRow(a, h, l).at = verified
BY DEF SheetRow

(* What a verification that is not refused adds, and that it changes nothing else. *)
LEMMA PostDoes ==
  ASSUME CashTypes, NEW a \in Accounts, NEW lines \in Partial(Heads, Line), NEW t \in Threads,
         PostPfmsMonthlyverified(t), a = req[t].of, lines = req[t].lines, ~Refused(a, lines)
  PROVE  /\ a \in Accounts /\ a \in DOMAIN monthly /\ DOMAIN lines \subseteq Heads
         /\ DOMAIN monthly' = DOMAIN monthly /\ monthly'[a].ver = TRUE
         /\ \A x \in DOMAIN monthly : x # a => monthly'[x] = monthly[x]
         /\ \A x : x \in DOMAIN detail' <=> x \in DOMAIN detail \/ x = a
         /\ \A x \in DOMAIN detail : x # a => detail'[x] = detail[x]
         /\ \A h : h \in HeadsIn(detail', a) <=> h \in HeadsIn(detail, a) \/ h \in DOMAIN lines
         /\ \A h \in DOMAIN lines : h \notin HeadsIn(detail, a)
         /\ \A h \in DOMAIN lines : detail'[a][h] = lines[h]
         /\ \A h \in HeadsIn(detail, a) : detail'[a][h] = detail[a][h]
         /\ (\A x \in DOMAIN sheet' : x \in DOMAIN sheet \/ x = a) /\ DOMAIN sheet \subseteq DOMAIN sheet'
         /\ \A x \in DOMAIN sheet : x # a => sheet'[x] = sheet[x]
         /\ \A h : h \in HeadsIn(sheet', a) <=> h \in HeadsIn(sheet, a) \/ h \in SheetHeads(lines)
         /\ \A h \in SheetHeads(lines) : h \notin HeadsIn(sheet, a)
         /\ \A h \in SheetHeads(lines) : sheet'[a][h] = SheetRow(a, h, lines[h])
         /\ \A h \in HeadsIn(sheet, a) : sheet'[a][h] = sheet[a][h]
         /\ Changes(a) /\ Done(t)
         /\ UNCHANGED <<closed, te, account, praoDetail, praoMain, audit, legacy, unlogged, bounds>>
<1>1. /\ monthly' = Verified(a, req[t]) /\ detail' = Merge(detail, a, lines) /\ Changes(a) /\ Done(t)
      /\ sheet' = IF SheetHeads(lines) = {} THEN sheet
                  ELSE Merge(sheet, a, [h \in SheetHeads(lines) |-> SheetRow(a, h, lines[h])])
      /\ UNCHANGED <<closed, te, account, praoDetail, praoMain, audit, legacy, unlogged, bounds>>
      /\ req[t].op = "verify"
  BY DEF PostPfmsMonthlyverified, At
<1>2. a \in Accounts /\ lines \in Partial(Heads, Line) /\ req[t] \in Requests
  BY <1>1, ReqIs, VerifyFields
<1>3. a \in DOMAIN monthly /\ HeadsIn(detail, a) \cap DOMAIN lines = {} /\ \A h \in SheetHeads(lines) : h \notin HeadsIn(sheet, a)
  BY DEF Refused, HeadsIn
<1>4. DOMAIN lines \subseteq Heads
  BY <1>2, PartialIs
<1>5. /\ DOMAIN monthly' = DOMAIN monthly /\ monthly'[a].ver = TRUE
      /\ \A x \in DOMAIN monthly : x # a => monthly'[x] = monthly[x]
  BY <1>1, <1>2, <1>3, VerifiedIs
<1>6. /\ \A x : x \in DOMAIN detail' <=> x \in DOMAIN detail \/ x = a
      /\ \A x \in DOMAIN detail : x # a => detail'[x] = detail[x]
      /\ \A h : h \in HeadsIn(detail', a) <=> h \in HeadsIn(detail, a) \/ h \in DOMAIN lines
      /\ \A h \in DOMAIN lines : detail'[a][h] = lines[h]
      /\ \A h \in HeadsIn(detail, a) : detail'[a][h] = detail[a][h]
  <2>1. PICK m : m = Merge(detail, a, lines)
    OBVIOUS
  <2>5. \A x : x \in DOMAIN m <=> x \in DOMAIN detail \/ x = a
    BY <2>1, MergeDomain
  <2>6. \A x \in DOMAIN detail : x # a => m[x] = detail[x]
    BY <2>1, MergeElsewhere
  <2>7. \A h : h \in HeadsIn(m, a) <=> h \in HeadsIn(detail, a) \/ h \in DOMAIN lines
    BY <2>1, MergeHeads
  <2>8. \A h \in DOMAIN lines : m[a][h] = lines[h]
    BY <2>1, MergedIn
  <2>9. \A h \in HeadsIn(detail, a) : m[a][h] = detail[a][h]
    BY <1>3, <2>1, MergeKeeps
  <2>3. detail' = m
    BY <1>1, <2>1
  <2>4. HeadsIn(detail', a) = HeadsIn(m, a)
    BY <2>3
  <2> QED BY <2>3, <2>4, <2>5, <2>6, <2>7, <2>8, <2>9
<1>7. /\ (\A x \in DOMAIN sheet' : x \in DOMAIN sheet \/ x = a) /\ DOMAIN sheet \subseteq DOMAIN sheet'
      /\ \A x \in DOMAIN sheet : x # a => sheet'[x] = sheet[x]
      /\ \A h : h \in HeadsIn(sheet', a) <=> h \in HeadsIn(sheet, a) \/ h \in SheetHeads(lines)
      /\ \A h \in SheetHeads(lines) : sheet'[a][h] = SheetRow(a, h, lines[h])
      /\ \A h \in HeadsIn(sheet, a) : sheet'[a][h] = sheet[a][h]
  <2>1. CASE SheetHeads(lines) = {}
    <3>1. sheet' = sheet
      BY <1>1, <2>1
    <3>2. HeadsIn(sheet', a) = HeadsIn(sheet, a)
      BY <3>1
    <3> QED BY <2>1, <3>1, <3>2
  <2>2. CASE SheetHeads(lines) # {}
    <3>1. PICK g : g = [h \in SheetHeads(lines) |-> SheetRow(a, h, lines[h])]
      OBVIOUS
    <3>2. DOMAIN g = SheetHeads(lines) /\ \A h \in SheetHeads(lines) : g[h] = SheetRow(a, h, lines[h])
      BY <3>1
    <3>3. PICK m : m = Merge(sheet, a, g)
      OBVIOUS
    <3>4. \A x : x \in DOMAIN m <=> x \in DOMAIN sheet \/ x = a
      BY <3>3, MergeDomain
    <3>7. \A x \in DOMAIN sheet : x # a => m[x] = sheet[x]
      BY <3>3, MergeElsewhere
    <3>8. \A h : h \in HeadsIn(m, a) <=> h \in HeadsIn(sheet, a) \/ h \in SheetHeads(lines)
      BY <3>2, <3>3, MergeHeads
    <3>9. \A h \in SheetHeads(lines) : m[a][h] = g[h]
      BY <3>2, <3>3, MergedIn
    <3>10. \A h \in HeadsIn(sheet, a) : m[a][h] = sheet[a][h]
      BY <1>3, <3>2, <3>3, MergeKeeps
    <3>5. sheet' = m
      BY <1>1, <2>2, <3>1, <3>3
    <3>6. HeadsIn(sheet', a) = HeadsIn(m, a)
      BY <3>5
    <3> QED BY <3>2, <3>4, <3>5, <3>6, <3>7, <3>8, <3>9, <3>10
  <2> QED BY <2>1, <2>2
<1> QED BY <1>1, <1>2, <1>3, <1>4, <1>5, <1>6, <1>7

RowsInv ==
  /\ \A a \in DOMAIN monthly \ legacy : a \in DOMAIN account
  /\ \A a \in DOMAIN detail \ legacy : a \in DOMAIN monthly /\ monthly[a].ver
  /\ \A a \in DOMAIN detail \ legacy : \A h \in DOMAIN detail[a] :
       Kind[h] # "plain" => a \in DOMAIN sheet /\ h \in DOMAIN sheet[a]
  /\ \A a \in DOMAIN sheet \ legacy : \A h \in DOMAIN sheet[a] :
       /\ a \in DOMAIN detail /\ h \in DOMAIN detail[a]
       /\ sheet[a][h].credit = detail[a][h].receipt /\ sheet[a][h].debit = detail[a][h].payment

LEMMA InitRows == ASSUME Init PROVE RowsInv
<1>1. DOMAIN << >> = {}
  BY EmptyPartial
<1> QED BY <1>1 DEF Init, RowsInv

(* Rows may come, and be verified; accounts may come; nothing is deleted but what is *)
(* then known as half deleted.                                                      *)
LEMMA RowsStand ==
  ASSUME RowsInv, UNCHANGED <<detail, sheet>>, legacy \subseteq legacy', DOMAIN account \subseteq DOMAIN account',
         DOMAIN monthly \subseteq DOMAIN monthly',
         \A a \in DOMAIN monthly : monthly'[a] = monthly[a] \/ monthly'[a].ver,
         \A a \in DOMAIN monthly' \ DOMAIN monthly : a \in DOMAIN account'
  PROVE  RowsInv'
<1>1. \A a \in DOMAIN monthly' \ legacy' : a \in DOMAIN account'
  BY DEF RowsInv
<1>2. \A a \in DOMAIN detail' \ legacy' : a \in DOMAIN monthly' /\ monthly'[a].ver
  BY DEF RowsInv
<1> QED BY <1>1, <1>2 DEF RowsInv

LEMMA PostRows ==
  ASSUME CashTypes, RowsInv, NEW t \in Threads, PostPfmsMonthlyverified(t)
  PROVE  RowsInv'
<1>3. req[t].of \in Accounts /\ req[t].lines \in Partial(Heads, Line)
  BY ReqIs, VerifyFields DEF PostPfmsMonthlyverified, At
<1>0. PICK a \in Accounts, lines \in Partial(Heads, Line) : a = req[t].of /\ lines = req[t].lines
  BY <1>3
<1>1. CASE Refused(a, lines)
  <2>1. UNCHANGED <<account, monthly, detail, sheet, legacy>>
    BY <1>0, <1>1 DEF PostPfmsMonthlyverified
  <2> QED BY <2>1 DEF RowsInv
<1>2. CASE ~Refused(a, lines)
  <2>1. /\ DOMAIN monthly' = DOMAIN monthly /\ monthly'[a].ver = TRUE /\ a \in DOMAIN monthly
        /\ \A x \in DOMAIN monthly : x # a => monthly'[x] = monthly[x]
        /\ account' = account /\ legacy' = legacy
    BY <1>0, <1>2, PostDoes
  <2>2. /\ \A x : x \in DOMAIN detail' <=> x \in DOMAIN detail \/ x = a
        /\ \A x \in DOMAIN detail : x # a => detail'[x] = detail[x]
        /\ \A h : h \in HeadsIn(detail', a) <=> h \in HeadsIn(detail, a) \/ h \in DOMAIN lines
        /\ \A h \in DOMAIN lines : h \notin HeadsIn(detail, a)
        /\ \A h \in DOMAIN lines : detail'[a][h] = lines[h]
        /\ \A h \in HeadsIn(detail, a) : detail'[a][h] = detail[a][h]
    BY <1>0, <1>2, PostDoes
  <2>3. /\ (\A x \in DOMAIN sheet' : x \in DOMAIN sheet \/ x = a) /\ DOMAIN sheet \subseteq DOMAIN sheet'
        /\ \A x \in DOMAIN sheet : x # a => sheet'[x] = sheet[x]
        /\ \A h : h \in HeadsIn(sheet', a) <=> h \in HeadsIn(sheet, a) \/ h \in SheetHeads(lines)
        /\ \A h \in SheetHeads(lines) : h \notin HeadsIn(sheet, a)
        /\ \A h \in SheetHeads(lines) : sheet'[a][h] = SheetRow(a, h, lines[h])
        /\ \A h \in HeadsIn(sheet, a) : sheet'[a][h] = sheet[a][h]
    BY <1>0, <1>2, PostDoes
  <2>4. \A h \in SheetHeads(lines) : h \in DOMAIN lines /\ sheet'[a][h].credit = lines[h].receipt
                                     /\ sheet'[a][h].debit = lines[h].payment
    <3>1. \A h \in SheetHeads(lines) : h \in DOMAIN lines
      BY DEF SheetHeads
    <3> QED BY <2>3, <3>1, SheetRowSays
  <2>5. DOMAIN detail'[a] = HeadsIn(detail', a) /\ (a \in DOMAIN detail => HeadsIn(detail, a) = DOMAIN detail[a])
    BY <2>2 DEF HeadsIn
  <2>6. (a \in DOMAIN sheet' => DOMAIN sheet'[a] = HeadsIn(sheet', a))
        /\ (a \in DOMAIN sheet => HeadsIn(sheet, a) = DOMAIN sheet[a])
        /\ (a \notin DOMAIN sheet => HeadsIn(sheet, a) = {}) /\ (a \notin DOMAIN detail => HeadsIn(detail, a) = {})
        /\ (a \notin DOMAIN sheet' => HeadsIn(sheet', a) = {})
    BY DEF HeadsIn
  <2>7. \A x \in DOMAIN monthly' \ legacy' : x \in DOMAIN account'
    BY <2>1 DEF RowsInv
  <2>8. \A x \in DOMAIN detail' \ legacy' : x \in DOMAIN monthly' /\ monthly'[x].ver
    BY <2>1, <2>2 DEF RowsInv
  <2>9. ASSUME NEW x \in DOMAIN detail' \ legacy', NEW h \in DOMAIN detail'[x], Kind[h] # "plain"
        PROVE  x \in DOMAIN sheet' /\ h \in DOMAIN sheet'[x]
    <3>1. CASE x # a
      <4>1. x \in DOMAIN detail \ legacy /\ h \in DOMAIN detail[x]
        BY <2>1, <2>2, <2>9, <3>1
      <4>2. x \in DOMAIN sheet /\ h \in DOMAIN sheet[x]
        BY <2>9, <4>1 DEF RowsInv
      <4> QED BY <2>3, <3>1, <4>2
    <3>2. CASE x = a /\ h \in DOMAIN lines
      <4>1. h \in SheetHeads(lines)
        BY <2>9, <3>2 DEF SheetHeads
      <4> QED BY <2>3, <2>6, <3>2, <4>1
    <3>3. CASE x = a /\ h \notin DOMAIN lines
      <4>1. a \in DOMAIN detail \ legacy /\ h \in DOMAIN detail[a]
        BY <2>1, <2>2, <2>5, <2>6, <2>9, <3>3
      <4>2. a \in DOMAIN sheet /\ h \in DOMAIN sheet[a]
        BY <2>9, <4>1 DEF RowsInv
      <4> QED BY <2>3, <2>6, <3>3, <4>2
    <3> QED BY <3>1, <3>2, <3>3
  <2>10. ASSUME NEW x \in DOMAIN sheet' \ legacy', NEW h \in DOMAIN sheet'[x]
         PROVE  /\ x \in DOMAIN detail' /\ h \in DOMAIN detail'[x]
                /\ sheet'[x][h].credit = detail'[x][h].receipt /\ sheet'[x][h].debit = detail'[x][h].payment
    <3>1. CASE x # a
      <4>1. x \in DOMAIN sheet \ legacy /\ h \in DOMAIN sheet[x] /\ sheet'[x] = sheet[x]
        BY <2>1, <2>3, <2>10, <3>1
      <4>2. /\ x \in DOMAIN detail /\ h \in DOMAIN detail[x]
            /\ sheet[x][h].credit = detail[x][h].receipt /\ sheet[x][h].debit = detail[x][h].payment
        BY <4>1 DEF RowsInv
      <4> QED BY <2>2, <3>1, <4>1, <4>2
    <3>2. CASE x = a /\ h \in SheetHeads(lines)
      BY <2>2, <2>4, <2>5, <3>2
    <3>3. CASE x = a /\ h \notin SheetHeads(lines)
      <4>1. a \in DOMAIN sheet \ legacy /\ h \in DOMAIN sheet[a] /\ sheet'[a][h] = sheet[a][h]
        BY <2>1, <2>3, <2>6, <2>10, <3>3
      <4>2. /\ a \in DOMAIN detail /\ h \in DOMAIN detail[a]
            /\ sheet[a][h].credit = detail[a][h].receipt /\ sheet[a][h].debit = detail[a][h].payment
        BY <4>1 DEF RowsInv
      <4>3. detail'[a][h] = detail[a][h] /\ h \in DOMAIN detail'[a]
        BY <2>2, <2>5, <4>2
      <4> QED BY <2>2, <3>3, <4>1, <4>2, <4>3
    <3> QED BY <3>1, <3>2, <3>3
  <2> QED BY <2>7, <2>8, <2>9, <2>10 DEF RowsInv
<1> QED BY <1>1, <1>2

LEMMA DeleteRows ==
  ASSUME CashTypes, RowsInv, NEW t \in Threads, DeletePAOCashAccount(t)
  PROVE  RowsInv'
<1>1. legacy' = legacy
  BY DEF DeletePAOCashAccount
<1>2. PICK a : a = req[t].of
  OBVIOUS
<1>3. CASE /\ account' = Without(account, a) /\ monthly' = Without(monthly, a)
           /\ detail' = Without(detail, a) /\ sheet' = Without(sheet, a)
  <2>1. /\ DOMAIN account' = DOMAIN account \ {a} /\ DOMAIN monthly' = DOMAIN monthly \ {a}
        /\ DOMAIN detail' = DOMAIN detail \ {a} /\ DOMAIN sheet' = DOMAIN sheet \ {a}
        /\ \A x \in DOMAIN monthly : x # a => monthly'[x] = monthly[x]
        /\ \A x \in DOMAIN detail : x # a => detail'[x] = detail[x]
        /\ \A x \in DOMAIN sheet : x # a => sheet'[x] = sheet[x]
    BY <1>3 DEF Without, Restrict
  <2>2. \A x \in DOMAIN monthly' \ legacy' : x \in DOMAIN account'
    BY <1>1, <2>1 DEF RowsInv
  <2>3. \A x \in DOMAIN detail' \ legacy' : x \in DOMAIN monthly' /\ monthly'[x].ver
    BY <1>1, <2>1 DEF RowsInv
  <2>4. ASSUME NEW x \in DOMAIN detail' \ legacy', NEW h \in DOMAIN detail'[x], Kind[h] # "plain"
        PROVE  x \in DOMAIN sheet' /\ h \in DOMAIN sheet'[x]
    BY <1>1, <2>1, <2>4 DEF RowsInv
  <2>5. ASSUME NEW x \in DOMAIN sheet' \ legacy', NEW h \in DOMAIN sheet'[x]
        PROVE  /\ x \in DOMAIN detail' /\ h \in DOMAIN detail'[x]
               /\ sheet'[x][h].credit = detail'[x][h].receipt /\ sheet'[x][h].debit = detail'[x][h].payment
    BY <1>1, <2>1, <2>5 DEF RowsInv
  <2> QED BY <2>2, <2>3, <2>4, <2>5 DEF RowsInv
<1>4. CASE UNCHANGED <<account, monthly, detail, sheet, changed>>
  BY <1>1, <1>4 DEF RowsInv
<1> QED BY <1>2, <1>3, <1>4, DeleteIs

LEMMA LegacyRows ==
  ASSUME CashTypes, RowsInv, NEW t \in Threads, RevertCashAccount(t)
  PROVE  RowsInv'
<1>1. PICK a : a = req[t].of
  OBVIOUS
<1>2. /\ account' = account \/ account' = Without(account, a)
      /\ detail' = detail \/ detail' = Without(detail, a)
      /\ monthly' = monthly \/ monthly' = Without(monthly, a)
      /\ legacy' = legacy \cup {a} /\ sheet' = sheet
  BY <1>1 DEF RevertCashAccount
<1>3. \A x \in DOMAIN account : x # a => x \in DOMAIN account'
  BY <1>2 DEF Without, Restrict
<1>4. \A x : x # a => (x \in DOMAIN detail <=> x \in DOMAIN detail') /\ (x \in DOMAIN detail => detail'[x] = detail[x])
  BY <1>2 DEF Without, Restrict
<1>5. \A x : x # a => (x \in DOMAIN monthly <=> x \in DOMAIN monthly') /\ (x \in DOMAIN monthly => monthly'[x] = monthly[x])
  BY <1>2 DEF Without, Restrict
<1>6. \A x \in DOMAIN monthly' \ legacy' : x \in DOMAIN account'
  BY <1>2, <1>3, <1>5 DEF RowsInv
<1>7. \A x \in DOMAIN detail' \ legacy' : x \in DOMAIN monthly' /\ monthly'[x].ver
  BY <1>2, <1>4, <1>5 DEF RowsInv
<1>8. ASSUME NEW x \in DOMAIN detail' \ legacy', NEW h \in DOMAIN detail'[x], Kind[h] # "plain"
      PROVE  x \in DOMAIN sheet' /\ h \in DOMAIN sheet'[x]
  BY <1>2, <1>4, <1>8 DEF RowsInv
<1>9. ASSUME NEW x \in DOMAIN sheet' \ legacy', NEW h \in DOMAIN sheet'[x]
      PROVE  /\ x \in DOMAIN detail' /\ h \in DOMAIN detail'[x]
             /\ sheet'[x][h].credit = detail'[x][h].receipt /\ sheet'[x][h].debit = detail'[x][h].payment
  BY <1>2, <1>4, <1>9 DEF RowsInv
<1> QED BY <1>6, <1>7, <1>8, <1>9 DEF RowsInv

LEMMA NextRows == ASSUME CashTypes, RowsInv, Next PROVE RowsInv'
<1>1. CASE Outside
  <2>1. ASSUME NEW a \in Accounts, NEW c \in Contents[a], Arrive(a, c) PROVE RowsInv'
    <3>1. UNCHANGED <<monthly, detail, sheet, legacy>>
      BY <2>1 DEF Arrive, ghosts
    <3>2. DOMAIN account \subseteq DOMAIN account'
      BY <2>1 DEF Arrive, Put
    <3> QED BY <3>1, <3>2, RowsStand
  <2>2. ASSUME NEW a \in Accounts, NEW h \in Heads, NEW side \in {"receipt", "payment"}, TransferEntryMade(a, h, side)
        PROVE  RowsInv'
    BY <2>2, RowsStand DEF TransferEntryMade, tables, ghosts
  <2>3. ASSUME NEW pao \in Paos, NEW p \in Months, UpdateDdoMonthly(pao, p) PROVE RowsInv'
    <3>1. UNCHANGED <<account, detail, sheet, legacy>> /\ GetDDOlistMonthlyupdate(pao, p)
      BY <2>3 DEF UpdateDdoMonthly
    <3>2. /\ DOMAIN monthly \subseteq DOMAIN monthly'
          /\ \A a \in DOMAIN monthly : monthly'[a] = monthly[a]
          /\ \A a \in DOMAIN monthly' \ DOMAIN monthly : a \in DOMAIN account
      BY <3>1, NewRows
    <3> QED BY <3>1, <3>2, RowsStand
  <2> QED BY <1>1, <2>1, <2>2, <2>3 DEF Outside
<1>2. ASSUME NEW t \in Threads, Begin(t) PROVE RowsInv'
  <2>1. UNCHANGED <<account, monthly, detail, sheet, legacy>>
    BY <1>2 DEF Begin, FetchDdoMonthlyDetail, StartReversion, StartPrao, tables, ghosts
  <2> QED BY <2>1, RowsStand
<1>3. ASSUME NEW t \in Threads, Serve(t) PROVE RowsInv'
  <2>1. CASE PostPfmsMonthlyverified(t)
    BY <2>1, PostRows
  <2>2. CASE PostEmptyPfmsMonthlyverified(t)
    <3>1. UNCHANGED <<account, detail, sheet, legacy>>
      BY <2>2 DEF PostEmptyPfmsMonthlyverified
    <3>2. PICK a : a = req[t].of
      OBVIOUS
    <3>3. CASE a \in DOMAIN monthly
      <4>1. monthly' = Verified(a, req[t]) /\ req[t] \in Requests /\ req[t].op = "verify"
        BY <2>2, <3>2, <3>3, ReqIs DEF PostEmptyPfmsMonthlyverified, At
      <4>2. /\ DOMAIN monthly' = DOMAIN monthly /\ monthly'[a].ver = TRUE
            /\ \A x \in DOMAIN monthly : x # a => monthly'[x] = monthly[x]
        BY <3>2, <3>3, <4>1, VerifiedIs
      <4> QED BY <3>1, <4>2, RowsStand
    <3>4. CASE a \notin DOMAIN monthly
      <4>1. monthly' = monthly
        BY <2>2, <3>2, <3>4 DEF PostEmptyPfmsMonthlyverified
      <4> QED BY <3>1, <4>1, RowsStand
    <3> QED BY <3>3, <3>4
  <2>3. CASE DeletePAOCashAccount(t)
    BY <2>3, DeleteRows
  <2>4. CASE RevertCashAccount(t)
    BY <2>4, LegacyRows
  <2>5. CASE GetPostPraoAccount(t) \/ CopyPraoDetail(t) \/ InsertPraoMain(t)
    <3>1. UNCHANGED <<account, monthly, detail, sheet, legacy>>
      BY <2>5 DEF GetPostPraoAccount, CopyPraoDetail, InsertPraoMain, tables, ghosts
    <3> QED BY <3>1, RowsStand
  <2>6. CASE SubaccountsDeletes(t) \/ SubaccountsDeletesFirst(t)
    <3>1. UNCHANGED <<account, monthly, detail, sheet, legacy>>
      BY <2>6 DEF SubaccountsDeletes, SubaccountsDeletesFirst, Asked, tables, ghosts
    <3> QED BY <3>1, RowsStand
  <2>7. CASE FinishReversion(t)
    <3>1. UNCHANGED <<account, monthly, detail, sheet, legacy>>
      BY <2>7 DEF FinishReversion
    <3> QED BY <3>1, RowsStand
  <2>8. CASE Stop(t)
    <3>1. UNCHANGED <<account, monthly, detail, sheet>> /\ legacy \subseteq legacy'
      BY <2>8 DEF Stop, tables
    <3> QED BY <3>1, RowsStand
  <2> QED BY <1>3, <2>1, <2>2, <2>3, <2>4, <2>5, <2>6, <2>7, <2>8 DEF Serve
<1> QED BY <1>1, <1>2, <1>3 DEF Next

LEMMA StutterRows == ASSUME RowsInv, UNCHANGED vars PROVE RowsInv'
BY RowsStand DEF vars, tables, ghosts

--------------------------------------------------------------------------------
(* The months of an office, the latest first *)

LEMMA FewMonths == IsFiniteSet(Months) /\ IsFiniteSet(Paos) /\ IsFiniteSet(Submissions)
<1>1. IsFiniteSet(Accounts)
  BY CashAccountAssumption
<1>2. IsFiniteSet(Months)
  <2>1. PICK f : f = [a \in Accounts |-> a.period]
    OBVIOUS
  <2>2. f \in Surjection(Accounts, Months)
    BY <2>1 DEF Surjection, Months
  <2> QED BY <1>1, <2>2, FS_Surjection
<1>3. IsFiniteSet(Paos)
  <2>1. PICK f : f = [a \in Accounts |-> PaoOf[a.ddo]]
    OBVIOUS
  <2>2. f \in Surjection(Accounts, Paos)
    BY <2>1 DEF Surjection, Paos
  <2> QED BY <1>1, <2>2, FS_Surjection
<1>4. IsFiniteSet(Submissions)
  BY <1>2, <1>3, FS_Product DEF Submissions
<1> QED BY <1>2, <1>3, <1>4

LEMMA LaterIsTotal ==
  /\ \A p, q \in Months : p = q \/ Later(p, q) \/ Later(q, p)
  /\ \A p, q, r \in Months : Later(p, q) /\ Later(q, r) => Later(p, r)
  /\ \A p \in Months : ~Later(p, p)
<1>1. \A p \in Months : p.m \in Nat /\ p.y \in Nat /\ p = [m |-> p.m, y |-> p.y]
  <2>1. \A p \in Months : p \in [m : 1..12, y : Nat]
    BY CashAccountAssumption DEF Months
  <2> QED BY <2>1
<1> QED BY <1>1 DEF Later

\* The place of each of finitely many months is one more than the months later than it.
LEMMA EveryMonthHasAPlace ==
  ASSUME NEW S \in SUBSET Months, IsFiniteSet(S), NEW p \in S
  PROVE  \E i \in 1..Cardinality(S) :
           p = CHOOSE r \in S : Cardinality({q \in S : Later(q, r)}) = i - 1
<1>1. \A r \in S : IsFiniteSet({q \in S : Later(q, r)}) /\ Cardinality({q \in S : Later(q, r)}) \in Nat
  BY FS_Subset, FS_CardinalityType
<1>2. ASSUME NEW r \in S, NEW s \in S, Later(r, s)
      PROVE  Cardinality({q \in S : Later(q, r)}) < Cardinality({q \in S : Later(q, s)})
  <2>1. PICK A : A = {q \in S : Later(q, r)}
    OBVIOUS
  <2>2. PICK B : B = {q \in S : Later(q, s)}
    OBVIOUS
  <2>3. A \subseteq B /\ A # B
    BY <1>2, <2>1, <2>2, LaterIsTotal
  <2>4. IsFiniteSet(B)
    BY <1>1, <2>2
  <2>5. Cardinality(A) < Cardinality(B)
    <3>1. Cardinality(A) \in Nat /\ Cardinality(B) \in Nat
      BY <1>1, <2>1, <2>2
    <3> QED BY <2>3, <2>4, <3>1, FS_Subset
  <2> QED BY <2>1, <2>2, <2>5
<1>3. PICK n : n = Cardinality({q \in S : Later(q, p)})
  OBVIOUS
<1>4. n \in Nat /\ n < Cardinality(S) /\ Cardinality(S) \in Nat
  <2>1. PICK A : A = {q \in S : Later(q, p)}
    OBVIOUS
  <2>2. A \subseteq S /\ A # S
    BY <2>1, LaterIsTotal
  <2>3. Cardinality(A) < Cardinality(S) /\ Cardinality(S) \in Nat /\ Cardinality(A) \in Nat
    BY <1>1, <2>1, <2>2, FS_Subset, FS_CardinalityType
  <2> QED BY <1>3, <2>1, <2>3
<1>5. \A r \in S : Cardinality({q \in S : Later(q, r)}) = n => r = p
  BY <1>1, <1>2, <1>3, LaterIsTotal
<1>6. p = CHOOSE r \in S : Cardinality({q \in S : Later(q, r)}) = n
  BY <1>3, <1>5
<1>7. n + 1 \in 1..Cardinality(S) /\ (n + 1) - 1 = n
  BY <1>4
<1> QED BY <1>6, <1>7

LEMMA ListedMonthIsShown ==
  ASSUME CashTypes, NEW a \in DOMAIN monthly
  PROVE  a.period \in Range(DdoPfmsStatus(a.ddo))
<1>1. DOMAIN monthly \subseteq Accounts
  BY PartialIs DEF CashTypes
<1>2. PICK S : S = {b.period : b \in {c \in DOMAIN monthly : c.ddo = a.ddo}}
  OBVIOUS
<1>3. S \in SUBSET Months /\ a.period \in S
  BY <1>1, <1>2 DEF Months
<1>4. IsFiniteSet(S)
  <2>1. IsFiniteSet(Accounts)
    BY CashAccountAssumption
  <2>2. IsFiniteSet(Months)
    BY FewMonths
  <2> QED BY <1>3, <2>2, FS_Subset
<1>5. PICK i \in 1..Cardinality(S) :
           a.period = CHOOSE r \in S : Cardinality({q \in S : Later(q, r)}) = i - 1
  BY <1>3, <1>4, EveryMonthHasAPlace
<1>6. DdoPfmsStatus(a.ddo) =
        [j \in 1..Cardinality(S) |-> CHOOSE r \in S : Cardinality({q \in S : Later(q, r)}) = j - 1]
  BY <1>2 DEF DdoPfmsStatus
<1>7. PICK f : f = DdoPfmsStatus(a.ddo)
  OBVIOUS
<1>8. DOMAIN f = 1..Cardinality(S) /\ f[i] = a.period
  BY <1>5, <1>6, <1>7
<1> QED BY <1>7, <1>8 DEF Range

LEMMA RowsSay == ASSUME CashTypes, RowsInv PROVE SheetMatchesDetail
<1>1. ASSUME NEW a \in DOMAIN sheet \ legacy, NEW h \in DOMAIN sheet[a] PROVE RowOfDetail(a, h)
  <2>1. /\ a \in DOMAIN detail /\ h \in DOMAIN detail[a]
        /\ sheet[a][h].credit = detail[a][h].receipt /\ sheet[a][h].debit = detail[a][h].payment
    BY <1>1 DEF RowsInv
  <2>2. a \in DOMAIN monthly /\ monthly[a].ver
    BY <1>1, <2>1 DEF RowsInv
  <2> QED BY <2>1, <2>2 DEF RowOfDetail
<1>2. ASSUME NEW a \in DOMAIN detail \ legacy
      PROVE  /\ a.period \in Range(DdoPfmsStatus(a.ddo))
             /\ \A h \in SheetHeads(detail[a]), type \in 1..5 :
                  <<a, h>> \in BroadSheet(type, a.period, h, a.ddo, Pao(a))
  <2>1. a \in DOMAIN monthly
    BY <1>2 DEF RowsInv
  <2>2. a.period \in Range(DdoPfmsStatus(a.ddo))
    BY <2>1, ListedMonthIsShown
  <2>3. ASSUME NEW h \in SheetHeads(detail[a]), NEW type \in 1..5
        PROVE  <<a, h>> \in BroadSheet(type, a.period, h, a.ddo, Pao(a))
    <3>1. h \in DOMAIN detail[a] /\ Kind[h] # "plain" /\ h \in Heads
      BY <1>2, <2>3, DetailLine DEF SheetHeads
    <3>2. a \in DOMAIN sheet /\ h \in DOMAIN sheet[a]
      BY <1>2, <3>1 DEF RowsInv
    <3> QED BY <3>1, <3>2 DEF BroadSheet
  <2> QED BY <2>2, <2>3
<1> QED BY <1>1, <1>2 DEF SheetMatchesDetail

(* For every set of offices, months and heads: a broad sheet row and the verified  *)
(* head it was made from come and go together, and what is shown as verified is in *)
(* the office's months and in every view of the broad sheet                        *)
(* (PostPfmsMonthlyverifiedRepo, DeletePAOCashAccountRepoTracked).                  *)
THEOREM SheetFollowsDetail == Spec => []SheetMatchesDetail
<1>1. Init => CashTypes /\ RowsInv
  BY InitTypes, InitRows
<1>2. CashTypes /\ RowsInv /\ [Next]_vars => (CashTypes /\ RowsInv)'
  BY NextTypes, StutterTypes, NextRows, StutterRows
<1>3. CashTypes /\ RowsInv => SheetMatchesDetail
  BY RowsSay
<1> QED BY <1>1, <1>2, <1>3, PTL DEF Spec

--------------------------------------------------------------------------------
(* The chain of the broad sheet *)

\* The chain, of any broad sheet.
EarlierIn(s, a, h) ==
  {b \in DOMAIN s : b.ddo = a.ddo /\ h \in DOMAIN s[b] /\ Number(b.period) < Number(a.period)}
SameYear(s, ddo, h) ==
  \A a, b \in {c \in DOMAIN s : c.ddo = ddo /\ h \in DOMAIN s[c]} : a.period.y = b.period.y
Next2(s, a, b, h) ==
  /\ h \in HeadsIn(s, a) /\ h \in HeadsIn(s, b)
  /\ a.ddo = b.ddo /\ Later(b.period, a.period) /\ SameYear(s, a.ddo, h)
  /\ \A c \in EarlierIn(s, b, h) : ~Later(c.period, a.period)
  /\ s[a][h].at < s[b][h].at
ChainOf(s) == \A a, b \in Accounts, h \in Heads : Next2(s, a, b, h) => s[b][h].opening = s[a][h].closing

SheetType == Partial(Accounts, Partial(Heads, SheetLine))

LEMMA SheetOf ==
  ASSUME NEW s \in SheetType, NEW a, NEW h \in HeadsIn(s, a)
  PROVE  a \in Accounts /\ a \in DOMAIN s /\ h \in Heads /\ h \in DOMAIN s[a] /\ s[a][h] \in SheetLine
<1>1. a \in DOMAIN s /\ h \in DOMAIN s[a]
  BY DEF HeadsIn
<1>2. a \in Accounts /\ s[a] \in Partial(Heads, SheetLine)
  BY <1>1, PartialIs DEF SheetType
<1> QED BY <1>1, <1>2, PartialIs

LEMMA AccountParts ==
  ASSUME NEW a \in Accounts, NEW b \in Accounts
  PROVE  /\ a.period.m \in 1..12 /\ a.period.y \in Nat
         /\ a.ddo = b.ddo /\ a.period.m = b.period.m /\ a.period.y = b.period.y => a = b
<1>1. \A x \in Accounts : x = [ddo |-> x.ddo, period |-> x.period] /\ x.period \in [m : 1..12, y : Nat]
  BY CashAccountAssumption
<1>2. \A x \in Accounts : x.period.m \in 1..12 /\ x.period.y \in Nat
                          /\ x.period = [m |-> x.period.m, y |-> x.period.y]
  BY <1>1
<1> QED BY <1>1, <1>2

LEMMA InEarlier ==
  ASSUME NEW s \in SheetType, NEW a, NEW h, NEW b
  PROVE  b \in EarlierIn(s, a, h) <=> h \in HeadsIn(s, b) /\ b.ddo = a.ddo /\ Number(b.period) < Number(a.period)
BY DEF EarlierIn, HeadsIn

LEMMA InSameYear ==
  ASSUME NEW s \in SheetType, NEW ddo, NEW h
  PROVE  SameYear(s, ddo, h) <=>
           \A a, b \in Accounts : h \in HeadsIn(s, a) /\ h \in HeadsIn(s, b) /\ a.ddo = ddo /\ b.ddo = ddo
                                  => a.period.y = b.period.y
<1>1. DOMAIN s \subseteq Accounts
  BY PartialIs DEF SheetType
<1> QED BY <1>1 DEF SameYear, HeadsIn

\* The rows of the heads H are added for an account, each after the last row before it.
Grown(s, r, a0, H, v) ==
  /\ \A x, h : h \in HeadsIn(r, x) <=> h \in HeadsIn(s, x) \/ (x = a0 /\ h \in H)
  /\ \A x : \A h \in HeadsIn(s, x) : r[x][h] = s[x][h] /\ s[x][h].at <= v
  /\ \A h \in H : r[a0][h].at = v /\ h \notin HeadsIn(s, a0)
  /\ \A h \in H : EarlierIn(s, a0, h) # {} =>
       \E b \in EarlierIn(s, a0, h) : /\ \A c \in EarlierIn(s, a0, h) : Number(c.period) <= Number(b.period)
                                      /\ r[a0][h].opening = s[b][h].closing

(* A row added last opens with the closing of the last row before it: the chain goes on. *)
LEMMA ChainGrows ==
  ASSUME NEW s \in SheetType, NEW r \in SheetType, NEW a0 \in Accounts, NEW H \in SUBSET Heads, NEW v \in Nat,
         Grown(s, r, a0, H, v), ChainOf(s)
  PROVE  ChainOf(r)
<1>0. /\ \A x, h : h \in HeadsIn(r, x) <=> h \in HeadsIn(s, x) \/ (x = a0 /\ h \in H)
      /\ \A x : \A h \in HeadsIn(s, x) : r[x][h] = s[x][h] /\ s[x][h].at <= v
      /\ \A h \in H : r[a0][h].at = v /\ h \notin HeadsIn(s, a0)
      /\ \A h \in H : EarlierIn(s, a0, h) # {} =>
           \E b \in EarlierIn(s, a0, h) : /\ \A c \in EarlierIn(s, a0, h) : Number(c.period) <= Number(b.period)
                                          /\ r[a0][h].opening = s[b][h].closing
  BY DEF Grown
<1>1. SUFFICES ASSUME NEW a \in Accounts, NEW b \in Accounts, NEW h \in Heads, Next2(r, a, b, h)
               PROVE  r[b][h].opening = r[a][h].closing
  BY DEF ChainOf
<1>2. /\ h \in HeadsIn(r, a) /\ h \in HeadsIn(r, b)
      /\ a.ddo = b.ddo /\ Later(b.period, a.period) /\ SameYear(r, a.ddo, h)
      /\ \A c \in EarlierIn(r, b, h) : ~Later(c.period, a.period)
      /\ r[a][h].at < r[b][h].at
  BY <1>1 DEF Next2
<1>3. \A x \in Accounts : h \in HeadsIn(s, x) => s[x][h].at \in Nat
  <2>1. \A x \in Accounts : h \in HeadsIn(s, x) => s[x][h] \in SheetLine
    BY SheetOf
  <2> QED BY <2>1 DEF SheetLine
<1>4. h \in HeadsIn(s, a)
  <2>1. SUFFICES ASSUME h \notin HeadsIn(s, a) PROVE FALSE
    OBVIOUS
  <2>2. a = a0 /\ h \in H /\ r[a][h].at = v
    BY <1>0, <1>2, <2>1
  <2>3. r[b][h].at <= v /\ r[b][h].at \in Nat
    <3>1. CASE h \in HeadsIn(s, b)
      BY <1>0, <1>3, <3>1
    <3>2. CASE h \notin HeadsIn(s, b)
      BY <1>0, <1>2, <3>2
    <3> QED BY <3>1, <3>2
  <2> QED BY <1>2, <2>2, <2>3
<1>5. r[a][h] = s[a][h]
  BY <1>0, <1>4
<1>6. \A x : EarlierIn(s, x, h) \subseteq EarlierIn(r, x, h)
  BY <1>0, InEarlier
<1>7. SameYear(s, a.ddo, h)
  BY <1>0, <1>2, InSameYear
<1>8. CASE h \in HeadsIn(s, b)
  <2>1. r[b][h] = s[b][h]
    BY <1>0, <1>8
  <2>2. Next2(s, a, b, h)
    BY <1>2, <1>4, <1>5, <1>6, <1>7, <1>8, <2>1 DEF Next2
  <2> QED BY <1>5, <2>1, <2>2 DEF ChainOf
<1>9. CASE h \notin HeadsIn(s, b)
  <2>1. b = a0 /\ h \in H
    BY <1>0, <1>2, <1>9
  <2>2. \A x \in Accounts : h \in HeadsIn(r, x) /\ x.ddo = a.ddo => x.period.y = a.period.y
    BY <1>0, <1>2, InSameYear
  <2>3. b.period.y = a.period.y /\ b.period.m > a.period.m
    <3>1. b.period.y = a.period.y
      BY <1>2, <2>2
    <3> QED BY <1>2, <3>1, AccountParts DEF Later
  <2>4. a \in EarlierIn(s, b, h)
    <3>1. Number(a.period) < Number(b.period)
      BY <2>3, AccountParts DEF Number
    <3> QED BY <1>2, <1>4, <3>1, InEarlier
  <2>5. PICK c \in EarlierIn(s, b, h) : /\ \A d \in EarlierIn(s, b, h) : Number(d.period) <= Number(c.period)
                                        /\ r[b][h].opening = s[c][h].closing
    BY <1>0, <2>1, <2>4
  <2>6. c \in Accounts /\ h \in HeadsIn(s, c) /\ c.ddo = b.ddo
    <3>1. h \in HeadsIn(s, c) /\ c.ddo = b.ddo
      BY <2>5, InEarlier
    <3> QED BY <3>1, SheetOf
  <2>7. ~Later(c.period, a.period)
    BY <1>2, <1>6, <2>5
  <2>8. Number(a.period) <= Number(c.period)
    BY <2>4, <2>5
  <2>9. c.period.y = a.period.y
    BY <1>0, <1>2, <2>2, <2>6
  <2>10. c.period.m = a.period.m
    BY <2>6, <2>7, <2>8, <2>9, AccountParts DEF Later, Number
  <2>11. c = a
    BY <1>2, <2>6, <2>9, <2>10, AccountParts
  <2> QED BY <1>5, <2>5, <2>11
<1> QED BY <1>8, <1>9

\* As long as nothing was taken back: no reversion is under way, no row is from later.
ChainInv ==
  /\ \A t \in Threads : req[t].op \in {"revert", "legacy"} => reverts > 0
  /\ \A a : \A h \in HeadsIn(sheet, a) : sheet[a][h].at <= verified
  /\ reverts = 0 => ChainOf(sheet)

LEMMA ChainSays == ASSUME CashTypes, ChainInv PROVE BroadSheetChain
<1>1. SUFFICES ASSUME reverts = 0,
                      NEW a \in DOMAIN sheet, NEW b \in DOMAIN sheet, NEW h \in DOMAIN sheet[a] \cap DOMAIN sheet[b],
                      a.ddo = b.ddo, Later(b.period, a.period), OneYear(a.ddo, h),
                      \A c \in Before(b, h) : ~Later(c.period, a.period),
                      sheet[a][h].at < sheet[b][h].at
               PROVE  sheet[b][h].opening = sheet[a][h].closing
  BY DEF BroadSheetChain
<1>2. ChainOf(sheet)
  BY <1>1 DEF ChainInv
<1>3. h \in HeadsIn(sheet, a) /\ h \in HeadsIn(sheet, b)
  BY <1>1 DEF HeadsIn
<1>4. sheet \in SheetType
  BY DEF CashTypes, SheetType
<1>5. a \in Accounts /\ b \in Accounts /\ h \in Heads
  BY <1>3, <1>4, SheetOf
<1>6. SameYear(sheet, a.ddo, h) /\ \A c \in EarlierIn(sheet, b, h) : ~Later(c.period, a.period)
  BY <1>1 DEF SameYear, OneYear, EarlierIn, Before
<1>7. Next2(sheet, a, b, h)
  BY <1>1, <1>3, <1>6 DEF Next2
<1> QED BY <1>2, <1>5, <1>7 DEF ChainOf

LEMMA InitChain == ASSUME Init PROVE ChainInv
<1>1. \A a : HeadsIn(sheet, a) = {}
  BY EmptyPartial DEF Init, HeadsIn
<1>2. \A t \in Threads : req[t].op = "idle"
  BY DEF Init, Idle
<1> QED BY <1>1, <1>2 DEF ChainInv, ChainOf, Next2

(* The broad sheet stays, and no reversion begins that is not counted. *)
LEMMA ChainStands ==
  ASSUME CashTypes, CashTypes', ChainInv, reverts' >= reverts, reverts' > 0 \/ sheet' = sheet,
         verified' >= verified,
         \A x : \A h \in HeadsIn(sheet', x) : h \in HeadsIn(sheet, x) /\ sheet'[x][h] = sheet[x][h],
         \A t \in Threads : req'[t].op \in {"revert", "legacy"} =>
                              reverts' > 0 \/ req[t].op \in {"revert", "legacy"}
  PROVE  ChainInv'
<1>1. verified \in Nat /\ verified' \in Nat /\ reverts \in Nat /\ reverts' \in Nat
  BY DEF CashTypes
<1>2. \A t \in Threads : req'[t].op \in {"revert", "legacy"} => reverts' > 0
  BY <1>1 DEF ChainInv
<1>3. \A x : \A h \in HeadsIn(sheet', x) : sheet'[x][h].at <= verified'
  <2>1. SUFFICES ASSUME NEW x, NEW h \in HeadsIn(sheet', x) PROVE sheet'[x][h].at <= verified'
    OBVIOUS
  <2>2. h \in HeadsIn(sheet, x) /\ sheet'[x][h] = sheet[x][h]
    OBVIOUS
  <2>3. sheet[x][h].at <= verified
    BY <2>2 DEF ChainInv
  <2>4. sheet[x][h] \in SheetLine
    BY <2>2, SheetOf DEF CashTypes, SheetType
  <2>5. sheet[x][h].at \in Nat
    BY <2>4 DEF SheetLine
  <2> QED BY <1>1, <2>2, <2>3, <2>5
<1>4. reverts' = 0 => ChainOf(sheet')
  <2>1. SUFFICES ASSUME reverts' = 0 PROVE ChainOf(sheet')
    OBVIOUS
  <2>2. reverts = 0 /\ sheet' = sheet
    BY <1>1, <2>1
  <2>3. ChainOf(sheet)
    BY <2>2 DEF ChainInv
  <2> QED BY <2>2, <2>3
<1> QED BY <1>2, <1>3, <1>4 DEF ChainInv

LEMMA PostChain ==
  ASSUME CashTypes, CashTypes', ChainInv, NEW t \in Threads, PostPfmsMonthlyverified(t)
  PROVE  ChainInv'
<1>0. Done(t) /\ UNCHANGED bounds
  BY DEF PostPfmsMonthlyverified
<1>1. \A u \in Threads : req'[u].op \in {"revert", "legacy"} => req[u].op \in {"revert", "legacy"}
  BY <1>0, DoneIs DEF Idle
<1>2. verified' = verified /\ reverts' = reverts /\ verified \in Nat /\ reverts \in Nat
  BY <1>0 DEF bounds, CashTypes
<1>3. PICK a : a = req[t].of
  OBVIOUS
<1>4. PICK lines : lines = req[t].lines
  OBVIOUS
<1>5. a \in Accounts /\ lines \in Partial(Heads, Line)
  BY <1>3, <1>4, ReqIs, VerifyFields DEF PostPfmsMonthlyverified, At
<1>6. CASE Refused(a, lines)
  <2>1. sheet' = sheet
    BY <1>3, <1>4, <1>6 DEF PostPfmsMonthlyverified
  <2> QED BY <1>1, <1>2, <2>1, ChainStands
<1>7. CASE ~Refused(a, lines)
  <2>1. /\ (\A x \in DOMAIN sheet' : x \in DOMAIN sheet \/ x = a) /\ DOMAIN sheet \subseteq DOMAIN sheet'
        /\ \A x \in DOMAIN sheet : x # a => sheet'[x] = sheet[x]
        /\ \A h : h \in HeadsIn(sheet', a) <=> h \in HeadsIn(sheet, a) \/ h \in SheetHeads(lines)
        /\ \A h \in SheetHeads(lines) : h \notin HeadsIn(sheet, a)
        /\ \A h \in SheetHeads(lines) : sheet'[a][h] = SheetRow(a, h, lines[h])
        /\ \A h \in HeadsIn(sheet, a) : sheet'[a][h] = sheet[a][h]
    BY <1>3, <1>4, <1>5, <1>7, PostDoes
  <2>2. PICK H : H = SheetHeads(lines)
    OBVIOUS
  <2>12. H \in SUBSET Heads
    BY <1>5, <2>2, PartialIs DEF SheetHeads
  <2>3. \A x : x # a => HeadsIn(sheet', x) = HeadsIn(sheet, x)
    BY <2>1 DEF HeadsIn
  <2>4. \A x, h : h \in HeadsIn(sheet', x) <=> h \in HeadsIn(sheet, x) \/ (x = a /\ h \in H)
    BY <2>1, <2>2, <2>3
  <2>5. \A x : \A h \in HeadsIn(sheet, x) : sheet'[x][h] = sheet[x][h] /\ sheet[x][h].at <= verified
    <3>1. SUFFICES ASSUME NEW x, NEW h \in HeadsIn(sheet, x)
                   PROVE  sheet'[x][h] = sheet[x][h] /\ sheet[x][h].at <= verified
      OBVIOUS
    <3>2. x \in DOMAIN sheet
      BY <3>1 DEF HeadsIn
    <3>3. sheet'[x][h] = sheet[x][h]
      BY <2>1, <3>1, <3>2
    <3> QED BY <3>3 DEF ChainInv
  <2>6. \A h \in H : sheet'[a][h].at = verified /\ sheet'[a][h].opening = PrevClosing(a, h)
    BY <2>1, <2>2, SheetRowSays
  <2>7. \A h \in H : h \notin HeadsIn(sheet, a)
    BY <2>1, <2>2
  <2>8. ASSUME NEW h \in H, EarlierIn(sheet, a, h) # {}
        PROVE  \E b \in EarlierIn(sheet, a, h) :
                   /\ \A c \in EarlierIn(sheet, a, h) : Number(c.period) <= Number(b.period)
                   /\ sheet'[a][h].opening = sheet[b][h].closing
    <3>1. EarlierIn(sheet, a, h) = Before(a, h)
      BY DEF EarlierIn, Before
    <3> QED BY <1>5, <2>6, <2>8, <3>1, PrevClosingIs
  <2>9. \A x : \A h \in HeadsIn(sheet', x) : sheet'[x][h].at <= verified'
    BY <1>2, <2>4, <2>5, <2>6
  <2>10. \A u \in Threads : req'[u].op \in {"revert", "legacy"} => reverts' > 0
    BY <1>1, <1>2 DEF ChainInv
  <2>11. reverts' = 0 => ChainOf(sheet')
    <3>1. SUFFICES ASSUME reverts' = 0 PROVE ChainOf(sheet')
      OBVIOUS
    <3>2. ChainOf(sheet)
      BY <1>2, <3>1 DEF ChainInv
    <3>3. PICK s : s = sheet
      OBVIOUS
    <3>4. PICK r : r = sheet'
      OBVIOUS
    <3>5. s \in SheetType /\ r \in SheetType
      BY <3>3, <3>4 DEF CashTypes, SheetType
    <3>6. \A x, h : h \in HeadsIn(r, x) <=> h \in HeadsIn(s, x) \/ (x = a /\ h \in H)
      BY <2>4, <3>3, <3>4
    <3>7. \A x : \A h \in HeadsIn(s, x) : r[x][h] = s[x][h] /\ s[x][h].at <= verified
      BY <2>5, <3>3, <3>4
    <3>8. \A h \in H : r[a][h].at = verified /\ h \notin HeadsIn(s, a)
      BY <2>6, <2>7, <3>3, <3>4
    <3>9. \A h \in H : EarlierIn(s, a, h) # {} =>
           \E b \in EarlierIn(s, a, h) : /\ \A c \in EarlierIn(s, a, h) : Number(c.period) <= Number(b.period)
                                         /\ r[a][h].opening = s[b][h].closing
      BY <2>8, <3>3, <3>4
    <3>10. ChainOf(s)
      BY <3>2, <3>3
    <3>12. Grown(s, r, a, H, verified)
      BY <3>6, <3>7, <3>8, <3>9 DEF Grown
    <3>11. ChainOf(r)
      BY <1>2, <1>5, <2>12, <3>5, <3>10, <3>12, ChainGrows
    <3> QED BY <3>4, <3>11
  <2> QED BY <2>9, <2>10, <2>11 DEF ChainInv
<1> QED BY <1>6, <1>7

LEMMA NextChain == ASSUME CashTypes, CashTypes', ChainInv, Next PROVE ChainInv'
<1>0. verified \in Nat /\ verified' \in Nat /\ reverts \in Nat /\ reverts' \in Nat
  BY DEF CashTypes
<1>1. CASE Outside
  <2>1. UNCHANGED <<sheet, req, verified, reverts>>
    BY <1>1 DEF Outside, Arrive, TransferEntryMade, UpdateDdoMonthly, tables, bounds
  <2> QED BY <1>0, <2>1, ChainStands
<1>2. ASSUME NEW t \in Threads, Begin(t) PROVE ChainInv'
  <2>1. ASSUME NEW a \in Accounts, FetchDdoMonthlyDetail(t, a) PROVE ChainInv'
    <3>1. UNCHANGED <<sheet, reverts>> /\ verified' = verified + 1
      BY <2>1 DEF FetchDdoMonthlyDetail, tables
    <3>2. \A u \in Threads : req'[u].op \in {"revert", "legacy"} => req[u].op \in {"revert", "legacy"}
      BY <2>1, FetchIs
    <3> QED BY <1>0, <3>1, <3>2, ChainStands
  <2>2. ASSUME NEW a \in Accounts, NEW op \in {"revert", "legacy"}, StartReversion(t, op, a) PROVE ChainInv'
    <3>1. UNCHANGED <<sheet, verified>> /\ reverts' = reverts + 1
      BY <2>2 DEF StartReversion, tables
    <3>2. reverts' > 0
      BY <1>0, <3>1
    <3> QED BY <1>0, <3>1, <3>2, ChainStands
  <2>3. ASSUME NEW pao \in Paos, NEW p \in Months, StartPrao(t, pao, p) PROVE ChainInv'
    <3>1. UNCHANGED <<sheet, verified, reverts>>
      BY <2>3 DEF StartPrao, tables, bounds
    <3>2. \A u \in Threads : req'[u].op \in {"revert", "legacy"} => req[u].op \in {"revert", "legacy"}
      BY <2>3, StartPraoIs
    <3> QED BY <1>0, <3>1, <3>2, ChainStands
  <2> QED BY <1>2, <2>1, <2>2, <2>3 DEF Begin
<1>3. ASSUME NEW t \in Threads, Serve(t) PROVE ChainInv'
  <2>1. CASE PostPfmsMonthlyverified(t)
    BY <2>1, PostChain
  <2>2. CASE PostEmptyPfmsMonthlyverified(t)
    <3>1. UNCHANGED <<sheet, verified, reverts>> /\ Done(t)
      BY <2>2 DEF PostEmptyPfmsMonthlyverified, bounds
    <3>2. \A u \in Threads : req'[u].op \in {"revert", "legacy"} => req[u].op \in {"revert", "legacy"}
      BY <3>1, DoneIs DEF Idle
    <3> QED BY <1>0, <3>1, <3>2, ChainStands
  <2>3. CASE DeletePAOCashAccount(t)
    <3>1. req[t].op = "revert" /\ UNCHANGED <<verified, reverts>>
      BY <2>3, DeleteIs DEF DeletePAOCashAccount
    <3>2. reverts > 0
      BY <3>1 DEF ChainInv
    <3>3. sheet' = sheet \/ sheet' = Without(sheet, req[t].of)
      BY <2>3, DeleteIs
    <3>4. \A x : \A h \in HeadsIn(sheet', x) : h \in HeadsIn(sheet, x) /\ sheet'[x][h] = sheet[x][h]
      BY <3>3 DEF HeadsIn, Without, Restrict
    <3> QED BY <1>0, <3>1, <3>2, <3>4, ChainStands
  <2>4. CASE RevertCashAccount(t)
    <3>1. UNCHANGED <<sheet, verified, reverts>> /\ Done(t)
      BY <2>4 DEF RevertCashAccount, bounds
    <3>2. \A u \in Threads : req'[u].op \in {"revert", "legacy"} => req[u].op \in {"revert", "legacy"}
      BY <3>1, DoneIs DEF Idle
    <3> QED BY <1>0, <3>1, <3>2, ChainStands
  <2>5. CASE GetPostPraoAccount(t)
    <3>1. UNCHANGED <<sheet, verified, reverts>>
      BY <2>5 DEF GetPostPraoAccount, tables, bounds
    <3>2. \A u \in Threads : req'[u].op \in {"revert", "legacy"} => req[u].op \in {"revert", "legacy"}
      BY <2>5, ReadIs DEF Idle
    <3> QED BY <1>0, <3>1, <3>2, ChainStands
  <2>6. CASE CopyPraoDetail(t)
    <3>1. UNCHANGED <<sheet, verified, reverts>>
      BY <2>6 DEF CopyPraoDetail, bounds
    <3>2. \A u \in Threads : req'[u].op \in {"revert", "legacy"} => req[u].op \in {"revert", "legacy"}
      BY <2>6, CopyIs DEF Idle
    <3> QED BY <1>0, <3>1, <3>2, ChainStands
  <2>7. CASE InsertPraoMain(t)
    <3>1. UNCHANGED <<sheet, verified, reverts>> /\ Done(t)
      BY <2>7 DEF InsertPraoMain, bounds
    <3>2. \A u \in Threads : req'[u].op \in {"revert", "legacy"} => req[u].op \in {"revert", "legacy"}
      BY <3>1, DoneIs DEF Idle
    <3> QED BY <1>0, <3>1, <3>2, ChainStands
  <2>8. CASE SubaccountsDeletes(t)
    <3>1. UNCHANGED <<sheet, verified, reverts>>
      BY <2>8 DEF SubaccountsDeletes, Asked, tables
    <3>2. \A u \in Threads : req'[u].op \in {"revert", "legacy"} => req[u].op \in {"revert", "legacy"}
      BY <2>8, AnswerIs
    <3> QED BY <1>0, <3>1, <3>2, ChainStands
  <2>9. CASE SubaccountsDeletesFirst(t)
    <3>1. UNCHANGED <<sheet, verified, reverts>> /\ req[t].op = "legacy"
      BY <2>9 DEF SubaccountsDeletesFirst, Asked, tables
    <3>2. \A u \in Threads : req'[u].op \in {"revert", "legacy"} => req[u].op \in {"revert", "legacy"}
      BY <2>9, <3>1, LegacyAnswerIs
    <3> QED BY <1>0, <3>1, <3>2, ChainStands
  <2>10. CASE FinishReversion(t)
    <3>1. UNCHANGED <<sheet, verified, reverts>> /\ Done(t)
      BY <2>10 DEF FinishReversion
    <3>2. \A u \in Threads : req'[u].op \in {"revert", "legacy"} => req[u].op \in {"revert", "legacy"}
      BY <3>1, DoneIs DEF Idle
    <3> QED BY <1>0, <3>1, <3>2, ChainStands
  <2>11. CASE Stop(t)
    <3>1. UNCHANGED <<sheet, verified, reverts>> /\ Done(t)
      BY <2>11 DEF Stop, tables
    <3>2. \A u \in Threads : req'[u].op \in {"revert", "legacy"} => req[u].op \in {"revert", "legacy"}
      BY <3>1, DoneIs DEF Idle
    <3> QED BY <1>0, <3>1, <3>2, ChainStands
  <2> QED BY <1>3, <2>1, <2>2, <2>3, <2>4, <2>5, <2>6, <2>7, <2>8, <2>9, <2>10, <2>11 DEF Serve
<1> QED BY <1>1, <1>2, <1>3 DEF Next

LEMMA StutterChain == ASSUME ChainInv, UNCHANGED vars PROVE ChainInv'
BY DEF vars, tables, bounds, ChainInv, ChainOf, Next2, SameYear, EarlierIn, HeadsIn

(* For every set of offices, months and heads: as long as nothing is taken back    *)
(* and the rows lie in one year, a broad sheet row opens with the closing balance  *)
(* of the last month verified before it (PostPfmsMonthlyverifiedRepo's LAG).       *)
THEOREM BroadSheetIsAChain == Spec => []BroadSheetChain
<1>1. Init => CashTypes /\ ChainInv
  BY InitTypes, InitChain
<1>2. CashTypes /\ ChainInv /\ [Next]_vars => (CashTypes /\ ChainInv)'
  <2>1. ASSUME CashTypes, ChainInv, Next PROVE (CashTypes /\ ChainInv)'
    <3>1. CashTypes'
      BY <2>1, NextTypes
    <3> QED BY <2>1, <3>1, NextChain
  <2>2. ASSUME CashTypes, ChainInv, UNCHANGED vars PROVE (CashTypes /\ ChainInv)'
    BY <2>2, StutterTypes, StutterChain
  <2> QED BY <2>1, <2>2
<1>3. CashTypes /\ ChainInv => BroadSheetChain
  BY ChainSays
<1> QED BY <1>1, <1>2, <1>3, PTL DEF Spec

--------------------------------------------------------------------------------
(* What is submitted to the PrAO *)

\* The totals of a set of listed accounts, of any details.
Moved(L, d, h) ==
  {a \in L \cap DOMAIN d : h \in DOMAIN d[a] /\ (Receipts(d[a][h]) # 0 \/ Payments(d[a][h]) # 0)}
TotalsOf(L, d) ==
  [h \in {g \in Heads : Moved(L, d, g) # {}} |->
     [receipt |-> SumOf([a \in Moved(L, d, h) |-> Receipts(d[a][h])], Moved(L, d, h)),
      payment |-> SumOf([a \in Moved(L, d, h) |-> Payments(d[a][h])], Moved(L, d, h)),
      ddos |-> {a.ddo : a \in Moved(L, d, h)}]]

LEMMA SameTotals ==
  ASSUME NEW L, NEW d, NEW e,
         \A a \in L : (a \in DOMAIN d <=> a \in DOMAIN e) /\ (a \in DOMAIN d => d[a] = e[a])
  PROVE  TotalsOf(L, d) = TotalsOf(L, e)
<1>1. ASSUME NEW h PROVE Moved(L, d, h) = Moved(L, e, h) /\ \A a \in Moved(L, d, h) : d[a] = e[a]
  BY DEF Moved
<1>2. PICK H : H = {g \in Heads : Moved(L, d, g) # {}}
  OBVIOUS
<1>3. H = {g \in Heads : Moved(L, e, g) # {}}
  BY <1>1, <1>2
<1>4. ASSUME NEW h \in H
      PROVE  [receipt |-> SumOf([a \in Moved(L, d, h) |-> Receipts(d[a][h])], Moved(L, d, h)),
              payment |-> SumOf([a \in Moved(L, d, h) |-> Payments(d[a][h])], Moved(L, d, h)),
              ddos |-> {a.ddo : a \in Moved(L, d, h)}]
             = [receipt |-> SumOf([a \in Moved(L, e, h) |-> Receipts(e[a][h])], Moved(L, e, h)),
                payment |-> SumOf([a \in Moved(L, e, h) |-> Payments(e[a][h])], Moved(L, e, h)),
                ddos |-> {a.ddo : a \in Moved(L, e, h)}]
  <2>1. PICK W : W = Moved(L, d, h)
    OBVIOUS
  <2>2. W = Moved(L, e, h) /\ \A a \in W : d[a] = e[a]
    BY <1>1, <2>1
  <2>3. [a \in W |-> Receipts(d[a][h])] = [a \in W |-> Receipts(e[a][h])]
    BY <2>2
  <2>4. [a \in W |-> Payments(d[a][h])] = [a \in W |-> Payments(e[a][h])]
    BY <2>2
  <2> QED BY <2>1, <2>2, <2>3, <2>4
<1>5. TotalsOf(L, d) = [h \in H |-> [receipt |-> SumOf([a \in Moved(L, d, h) |-> Receipts(d[a][h])], Moved(L, d, h)),
                                     payment |-> SumOf([a \in Moved(L, d, h) |-> Payments(d[a][h])], Moved(L, d, h)),
                                     ddos |-> {a.ddo : a \in Moved(L, d, h)}]]
  BY <1>2 DEF TotalsOf
<1>6. TotalsOf(L, e) = [h \in H |-> [receipt |-> SumOf([a \in Moved(L, e, h) |-> Receipts(e[a][h])], Moved(L, e, h)),
                                     payment |-> SumOf([a \in Moved(L, e, h) |-> Payments(e[a][h])], Moved(L, e, h)),
                                     ddos |-> {a.ddo : a \in Moved(L, e, h)}]]
  BY <1>3 DEF TotalsOf
<1> QED BY <1>4, <1>5, <1>6

LEMMA PraoTotalsOf ==
  ASSUME NEW pao, NEW p
  PROVE  PraoTotals(pao, p) = TotalsOf(Listed(pao, p), detail)
BY DEF PraoTotals, TotalsOf, Moved

LEMMA PraoTotalsOfNext ==
  ASSUME NEW pao, NEW p
  PROVE  PraoTotals(pao, p)' = TotalsOf(Listed(pao, p)', detail')
BY DEF PraoTotals, TotalsOf, Moved

\* Nothing that is summed of a PAO and month changes in a step.
Steady(pao, p) ==
  \A a \in Of(pao, p) :
    /\ a \in DOMAIN monthly <=> a \in DOMAIN monthly'
    /\ a \in DOMAIN monthly => monthly'[a].ver = monthly[a].ver
    /\ a \in DOMAIN detail <=> a \in DOMAIN detail'
    /\ a \in DOMAIN detail => detail'[a] = detail[a]

LEMMA SteadyMeans ==
  ASSUME NEW pao, NEW p, Steady(pao, p)
  PROVE  (AllVerified(pao, p) => AllVerified(pao, p)') /\ PraoTotals(pao, p)' = PraoTotals(pao, p)
<1>1. PICK L : L = Listed(pao, p)
  OBVIOUS
<1>2. Listed(pao, p)' = L
  BY <1>1 DEF Listed, Of, Steady
<1>3. \A a \in L : a \in Of(pao, p) /\ a \in DOMAIN monthly
  BY <1>1 DEF Listed
<1>4. AllVerified(pao, p) => AllVerified(pao, p)'
  BY <1>1, <1>2, <1>3 DEF AllVerified, Steady
<1>5. PICK d : d = detail
  OBVIOUS
<1>6. PICK e : e = detail'
  OBVIOUS
<1>7. \A a \in L : (a \in DOMAIN d <=> a \in DOMAIN e) /\ (a \in DOMAIN d => d[a] = e[a])
  BY <1>3, <1>5, <1>6 DEF Steady
<1>8. TotalsOf(L, d) = TotalsOf(L, e)
  BY <1>7, SameTotals
<1>9. PraoTotals(pao, p) = TotalsOf(L, d)
  BY <1>1, <1>5, PraoTotalsOf
<1>10. PraoTotals(pao, p)' = TotalsOf(L, e)
  BY <1>2, <1>6, PraoTotalsOfNext
<1> QED BY <1>4, <1>8, <1>9, <1>10

LEMMA SteadyElsewhere ==
  ASSUME NEW a, Changes(a),
         \A x : x # a => /\ x \in DOMAIN monthly <=> x \in DOMAIN monthly'
                         /\ x \in DOMAIN monthly => monthly'[x] = monthly[x]
                         /\ x \in DOMAIN detail <=> x \in DOMAIN detail'
                         /\ x \in DOMAIN detail => detail'[x] = detail[x]
  PROVE  \A pao, p : <<pao, p>> \notin changed' => Steady(pao, p)
<1>1. SUFFICES ASSUME NEW pao, NEW p, <<pao, p>> \notin changed' PROVE Steady(pao, p)
  OBVIOUS
<1>2. <<pao, p>> # <<Pao(a), a.period>>
  BY <1>1 DEF Changes
<1>3. a \notin Of(pao, p)
  BY <1>2 DEF Of
<1> QED BY <1>3 DEF Steady

(* A step leaves alone the submissions it does not mark as changed. *)
LEMMA StepsAreSteady ==
  ASSUME CashTypes, Next
  PROVE  \A pao \in Paos, p \in Months : <<pao, p>> \notin changed' => Steady(pao, p)
<1>0. ASSUME UNCHANGED <<monthly, detail>> PROVE \A pao, p : Steady(pao, p)
  BY <1>0 DEF Steady
<1>1. CASE Outside
  <2>1. ASSUME NEW a \in Accounts, NEW c \in Contents[a], Arrive(a, c) PROVE UNCHANGED <<monthly, detail>>
    BY <2>1 DEF Arrive
  <2>2. ASSUME NEW a \in Accounts, NEW h \in Heads, NEW side \in {"receipt", "payment"}, TransferEntryMade(a, h, side)
        PROVE  UNCHANGED <<monthly, detail>>
    BY <2>2 DEF TransferEntryMade, tables
  <2>3. ASSUME NEW pao1 \in Paos, NEW p1 \in Months, UpdateDdoMonthly(pao1, p1)
        PROVE \A pao \in Paos, p \in Months : <<pao, p>> \notin changed' => Steady(pao, p)
    <3>1. SUFFICES ASSUME NEW pao \in Paos, NEW p \in Months, <<pao, p>> \notin changed' PROVE Steady(pao, p)
      OBVIOUS
    <3>2. detail' = detail /\ GetDDOlistMonthlyupdate(pao1, p1) /\ <<pao, p>> # <<pao1, p1>>
      BY <2>3, <3>1 DEF UpdateDdoMonthly
    <3>3. /\ DOMAIN monthly \subseteq DOMAIN monthly'
          /\ \A a \in DOMAIN monthly' : a \in DOMAIN monthly \/ a \in Of(pao1, p1)
          /\ \A a \in DOMAIN monthly : monthly'[a] = monthly[a]
      BY <3>2, NewRows
    <3>4. \A a \in Of(pao, p) : a \notin Of(pao1, p1)
      BY <3>2 DEF Of
    <3> QED BY <3>2, <3>3, <3>4 DEF Steady
  <2> QED BY <1>0, <1>1, <2>1, <2>2, <2>3 DEF Outside
<1>2. ASSUME NEW t \in Threads, Begin(t) PROVE UNCHANGED <<monthly, detail>>
  BY <1>2 DEF Begin, FetchDdoMonthlyDetail, StartReversion, StartPrao, tables
<1>3. ASSUME NEW t \in Threads, Serve(t)
      PROVE \A pao \in Paos, p \in Months : <<pao, p>> \notin changed' => Steady(pao, p)
  <2>0. PICK a : a = req[t].of
    OBVIOUS
  <2>1. CASE PostPfmsMonthlyverified(t)
    <3>0. PICK lines : lines = req[t].lines
      OBVIOUS
    <3>1. a \in Accounts /\ lines \in Partial(Heads, Line)
      BY <2>0, <2>1, <3>0, ReqIs, VerifyFields DEF PostPfmsMonthlyverified, At
    <3>2. CASE Refused(a, lines)
      BY <1>0, <2>0, <2>1, <3>0, <3>2 DEF PostPfmsMonthlyverified
    <3>3. CASE ~Refused(a, lines)
      <4>1. /\ DOMAIN monthly' = DOMAIN monthly
            /\ \A x \in DOMAIN monthly : x # a => monthly'[x] = monthly[x]
            /\ \A x : x \in DOMAIN detail' <=> x \in DOMAIN detail \/ x = a
            /\ \A x \in DOMAIN detail : x # a => detail'[x] = detail[x]
            /\ Changes(a)
        BY <2>0, <2>1, <3>0, <3>1, <3>3, PostDoes
      <4> QED BY <4>1, SteadyElsewhere
    <3> QED BY <3>2, <3>3
  <2>2. CASE PostEmptyPfmsMonthlyverified(t)
    <3>1. detail' = detail
      BY <2>2 DEF PostEmptyPfmsMonthlyverified
    <3>2. CASE a \in DOMAIN monthly
      <4>1. monthly' = Verified(a, req[t]) /\ req[t] \in Requests /\ req[t].op = "verify" /\ Changes(a)
        BY <2>0, <2>2, <3>2, ReqIs DEF PostEmptyPfmsMonthlyverified, At
      <4>2. /\ DOMAIN monthly' = DOMAIN monthly
            /\ \A x \in DOMAIN monthly : x # a => monthly'[x] = monthly[x]
        BY <2>0, <3>2, <4>1, VerifiedIs
      <4> QED BY <3>1, <4>1, <4>2, SteadyElsewhere
    <3>3. CASE a \notin DOMAIN monthly
      BY <1>0, <2>0, <2>2, <3>1, <3>3 DEF PostEmptyPfmsMonthlyverified
    <3> QED BY <3>2, <3>3
  <2>3. CASE DeletePAOCashAccount(t)
    <3>1. CASE monthly' = Without(monthly, a) /\ detail' = Without(detail, a) /\ Changes(a)
      <4>1. /\ DOMAIN monthly' = DOMAIN monthly \ {a} /\ DOMAIN detail' = DOMAIN detail \ {a}
            /\ \A x \in DOMAIN monthly : x # a => monthly'[x] = monthly[x]
            /\ \A x \in DOMAIN detail : x # a => detail'[x] = detail[x]
        BY <3>1 DEF Without, Restrict
      <4> QED BY <3>1, <4>1, SteadyElsewhere
    <3>2. CASE UNCHANGED <<account, monthly, detail, sheet, changed>>
      BY <1>0, <3>2
    <3> QED BY <2>0, <2>3, <3>1, <3>2, DeleteIs
  <2>4. CASE RevertCashAccount(t)
    <3>1. /\ detail' = detail \/ detail' = Without(detail, a)
          /\ monthly' = monthly \/ monthly' = Without(monthly, a)
          /\ Changes(a)
      BY <2>0, <2>4 DEF RevertCashAccount
    <3>2. \A x : x # a => (x \in DOMAIN detail <=> x \in DOMAIN detail') /\ (x \in DOMAIN detail => detail'[x] = detail[x])
      BY <3>1 DEF Without, Restrict
    <3>3. \A x : x # a => (x \in DOMAIN monthly <=> x \in DOMAIN monthly') /\ (x \in DOMAIN monthly => monthly'[x] = monthly[x])
      BY <3>1 DEF Without, Restrict
    <3> QED BY <3>1, <3>2, <3>3, SteadyElsewhere
  <2>5. CASE GetPostPraoAccount(t) \/ CopyPraoDetail(t) \/ InsertPraoMain(t)
    BY <1>0, <2>5 DEF GetPostPraoAccount, CopyPraoDetail, InsertPraoMain, tables
  <2>6. CASE SubaccountsDeletes(t) \/ SubaccountsDeletesFirst(t)
    BY <1>0, <2>6 DEF SubaccountsDeletes, SubaccountsDeletesFirst, Asked, tables
  <2>7. CASE FinishReversion(t) \/ Stop(t)
    BY <1>0, <2>7 DEF FinishReversion, Stop, tables
  <2> QED BY <1>3, <2>1, <2>2, <2>3, <2>4, <2>5, <2>6, <2>7 DEF Serve
<1> QED BY <1>0, <1>1, <1>2, <1>3 DEF Next

LEMMA EmptyIs ==
  ASSUME NEW S, NEW T, NEW f \in Partial(S, T), DOMAIN f = {}
  PROVE  f = << >>
<1>1. f \in [{} -> T]
  BY PartialIs
<1> QED BY <1>1

\* What is summed, stored and on its way agrees for a PAO and month.
Settled(pao, p) ==
  /\ \A t \in Threads : req[t].op = "prao" /\ req[t].of = <<pao, p>> =>
       AllVerified(pao, p) /\ (req[t].pc = "copy" => req[t].totals = PraoTotals(pao, p))
  /\ <<pao, p>> \in DOMAIN praoDetail =>
       AllVerified(pao, p) /\ praoDetail[<<pao, p>>] = PraoTotals(pao, p)

SubInv ==
  /\ \A pao \in Paos, p \in Months : <<pao, p>> \notin changed => Settled(pao, p)
  /\ \A t \in Threads : req[t].op = "prao" /\ req[t].pc = "copy" => DOMAIN req[t].totals # {}
  /\ \A t \in Threads : req[t].op = "prao" /\ req[t].pc = "main" => req[t].of \in DOMAIN praoDetail
  /\ praoMain \subseteq DOMAIN praoDetail

LEMMA SettledNext ==
  ASSUME NEW pao, NEW p, Steady(pao, p),
         \A t \in Threads : req'[t].op = "prao" /\ req'[t].of = <<pao, p>> =>
           AllVerified(pao, p) /\ (req'[t].pc = "copy" => req'[t].totals = PraoTotals(pao, p)),
         <<pao, p>> \in DOMAIN praoDetail' =>
           AllVerified(pao, p) /\ praoDetail'[<<pao, p>>] = PraoTotals(pao, p)
  PROVE  Settled(pao, p)'
<1>1. (AllVerified(pao, p) => AllVerified(pao, p)') /\ PraoTotals(pao, p)' = PraoTotals(pao, p)
  BY SteadyMeans
<1> QED BY <1>1 DEF Settled

LEMMA InitSub == ASSUME Init PROVE SubInv
<1>1. DOMAIN praoDetail = {} /\ praoMain = {}
  BY EmptyPartial DEF Init
<1>2. \A t \in Threads : req[t].op = "idle"
  BY DEF Init, Idle
<1> QED BY <1>1, <1>2 DEF SubInv, Settled

\* A step that stores no details and lets no submission on its way move.
LEMMA SubStands ==
  ASSUME SubInv, changed \subseteq changed', praoDetail' = praoDetail, praoMain' \subseteq DOMAIN praoDetail,
         \A pao \in Paos, p \in Months : <<pao, p>> \notin changed' => Steady(pao, p),
         \A t \in Threads : req'[t].op = "prao" => req'[t] = req[t]
  PROVE  SubInv'
<1>1. ASSUME NEW pao \in Paos, NEW p \in Months, <<pao, p>> \notin changed' PROVE Settled(pao, p)'
  <2>1. Settled(pao, p)
    BY <1>1 DEF SubInv
  <2>2. \A t \in Threads : req'[t].op = "prao" /\ req'[t].of = <<pao, p>> =>
           AllVerified(pao, p) /\ (req'[t].pc = "copy" => req'[t].totals = PraoTotals(pao, p))
    BY <2>1 DEF Settled
  <2>3. <<pao, p>> \in DOMAIN praoDetail' =>
           AllVerified(pao, p) /\ praoDetail'[<<pao, p>>] = PraoTotals(pao, p)
    BY <2>1 DEF Settled
  <2>4. Steady(pao, p)
    BY <1>1
  <2> QED BY <2>2, <2>3, <2>4, SettledNext
<1>2. \A t \in Threads : req'[t].op = "prao" /\ req'[t].pc = "copy" => DOMAIN req'[t].totals # {}
  BY DEF SubInv
<1>3. \A t \in Threads : req'[t].op = "prao" /\ req'[t].pc = "main" => req'[t].of \in DOMAIN praoDetail'
  BY DEF SubInv
<1> QED BY <1>1, <1>2, <1>3 DEF SubInv

LEMMA StartPraoSub ==
  ASSUME CashTypes, SubInv, NEW t \in Threads, NEW pao0 \in Paos, NEW p0 \in Months, StartPrao(t, pao0, p0),
         \A pao \in Paos, p \in Months : <<pao, p>> \notin changed' => Steady(pao, p)
  PROVE  SubInv'
<1>1. /\ req'[t].op = "prao" /\ req'[t].of = <<pao0, p0>> /\ req'[t].pc = "read"
      /\ \A u \in Threads : u # t => req'[u] = req[u]
  BY StartPraoIs
<1>2. praoDetail' = praoDetail /\ praoMain' = praoMain /\ AllVerified(pao0, p0)
  BY DEF StartPrao, tables
<1>3. ASSUME NEW pao \in Paos, NEW p \in Months, <<pao, p>> \notin changed' PROVE Settled(pao, p)'
  <2>1. \A u \in Threads : req'[u].op = "prao" /\ req'[u].of = <<pao, p>> =>
           AllVerified(pao, p) /\ (req'[u].pc = "copy" => req'[u].totals = PraoTotals(pao, p))
    <3>1. SUFFICES ASSUME NEW u \in Threads, req'[u].op = "prao", req'[u].of = <<pao, p>>
                   PROVE  AllVerified(pao, p) /\ (req'[u].pc = "copy" => req'[u].totals = PraoTotals(pao, p))
      OBVIOUS
    <3>2. CASE u = t
      <4>1. pao = pao0 /\ p = p0
        BY <1>1, <3>1, <3>2
      <4> QED BY <1>1, <1>2, <3>2, <4>1
    <3>3. CASE u # t /\ <<pao, p>> \in changed
      <4>1. <<pao, p>> = <<pao0, p0>> /\ ~InFlight(pao0, p0)
        BY <1>3, <3>3 DEF StartPrao
      <4> QED BY <1>1, <3>1, <3>3, <4>1 DEF InFlight
    <3>4. CASE u # t /\ <<pao, p>> \notin changed
      <4>1. Settled(pao, p)
        BY <3>4 DEF SubInv
      <4> QED BY <1>1, <3>1, <3>4, <4>1 DEF Settled
    <3> QED BY <3>2, <3>3, <3>4
  <2>2. <<pao, p>> \in DOMAIN praoDetail' =>
           AllVerified(pao, p) /\ praoDetail'[<<pao, p>>] = PraoTotals(pao, p)
    <3>1. SUFFICES ASSUME <<pao, p>> \in DOMAIN praoDetail
                   PROVE  AllVerified(pao, p) /\ praoDetail[<<pao, p>>] = PraoTotals(pao, p)
      BY <1>2
    <3>2. <<pao, p>> \notin changed
      BY <1>3, <3>1 DEF StartPrao
    <3>3. Settled(pao, p)
      BY <3>2 DEF SubInv
    <3> QED BY <3>1, <3>3 DEF Settled
  <2>3. Steady(pao, p)
    BY <1>3
  <2> QED BY <2>1, <2>2, <2>3, SettledNext
<1>4. \A u \in Threads : req'[u].op = "prao" /\ req'[u].pc = "copy" => DOMAIN req'[u].totals # {}
  BY <1>1 DEF SubInv
<1>5. \A u \in Threads : req'[u].op = "prao" /\ req'[u].pc = "main" => req'[u].of \in DOMAIN praoDetail'
  BY <1>1, <1>2 DEF SubInv
<1> QED BY <1>2, <1>3, <1>4, <1>5 DEF SubInv

LEMMA ReadSub ==
  ASSUME CashTypes, SubInv, NEW t \in Threads, GetPostPraoAccount(t),
         \A pao \in Paos, p \in Months : <<pao, p>> \notin changed' => Steady(pao, p)
  PROVE  SubInv'
<1>1. UNCHANGED <<praoDetail, praoMain, changed>>
  BY DEF GetPostPraoAccount, tables, ghosts
<1>2. /\ \A u \in Threads : u # t => req'[u] = req[u]
      /\ \/ req'[t] = Idle
         \/ /\ req'[t].op = "prao" /\ req'[t].of = req[t].of /\ req'[t].pc = "copy"
            /\ req'[t].totals = PraoTotals(req[t].of[1], req[t].of[2]) /\ req'[t].totals # << >>
  BY ReadIs
<1>3. req[t] \in Requests /\ req[t].op = "prao"
  BY ReqIs DEF GetPostPraoAccount, At
<1>4. CASE req'[t] = Idle
  <2>1. \A u \in Threads : req'[u].op = "prao" => req'[u] = req[u]
    BY <1>2, <1>4 DEF Idle
  <2>2. praoMain' \subseteq DOMAIN praoDetail
    BY <1>1 DEF SubInv
  <2> QED BY <1>1, <2>1, <2>2, SubStands
<1>5. CASE req'[t] # Idle
  <2>1. /\ req'[t].op = "prao" /\ req'[t].of = req[t].of /\ req'[t].pc = "copy"
        /\ req'[t].totals = PraoTotals(req[t].of[1], req[t].of[2]) /\ req'[t].totals # << >>
    BY <1>2, <1>5
  <2>2. ASSUME NEW pao \in Paos, NEW p \in Months, <<pao, p>> \notin changed' PROVE Settled(pao, p)'
    <3>1. Settled(pao, p) /\ Steady(pao, p)
      BY <1>1, <2>2 DEF SubInv
    <3>2. \A u \in Threads : req'[u].op = "prao" /\ req'[u].of = <<pao, p>> =>
             AllVerified(pao, p) /\ (req'[u].pc = "copy" => req'[u].totals = PraoTotals(pao, p))
      <4>1. SUFFICES ASSUME NEW u \in Threads, req'[u].op = "prao", req'[u].of = <<pao, p>>
                     PROVE  AllVerified(pao, p) /\ (req'[u].pc = "copy" => req'[u].totals = PraoTotals(pao, p))
        OBVIOUS
      <4>2. CASE u = t
        <5>1. req[t].of = <<pao, p>>
          BY <2>1, <4>1, <4>2
        <5>2. req[t].of[1] = pao /\ req[t].of[2] = p
          BY <5>1
        <5>3. AllVerified(pao, p)
          BY <1>3, <3>1, <5>1 DEF Settled
        <5> QED BY <2>1, <4>2, <5>2, <5>3
      <4>3. CASE u # t
        BY <1>2, <3>1, <4>1, <4>3 DEF Settled
      <4> QED BY <4>2, <4>3
    <3>3. <<pao, p>> \in DOMAIN praoDetail' =>
             AllVerified(pao, p) /\ praoDetail'[<<pao, p>>] = PraoTotals(pao, p)
      BY <1>1, <3>1 DEF Settled
    <3> QED BY <3>1, <3>2, <3>3, SettledNext
  <2>3. DOMAIN req'[t].totals # {}
    <3>1. PICK tot : tot = req'[t].totals
      OBVIOUS
    <3>2. tot \in Partial(Heads, PraoLine) /\ tot # << >>
      BY <2>1, <3>1, PraoTotalsType
    <3>3. DOMAIN tot # {}
      BY <3>2, EmptyIs
    <3> QED BY <3>1, <3>3
  <2>4. \A u \in Threads : req'[u].op = "prao" /\ req'[u].pc = "copy" => DOMAIN req'[u].totals # {}
    BY <1>2, <2>3 DEF SubInv
  <2>5. \A u \in Threads : req'[u].op = "prao" /\ req'[u].pc = "main" => req'[u].of \in DOMAIN praoDetail'
    BY <1>1, <1>2, <2>1 DEF SubInv
  <2>6. praoMain' \subseteq DOMAIN praoDetail'
    BY <1>1 DEF SubInv
  <2> QED BY <2>2, <2>4, <2>5, <2>6 DEF SubInv
<1> QED BY <1>4, <1>5

LEMMA CopySub ==
  ASSUME CashTypes, SubInv, NEW t \in Threads, CopyPraoDetail(t),
         \A pao \in Paos, p \in Months : <<pao, p>> \notin changed' => Steady(pao, p)
  PROVE  SubInv'
<1>1. UNCHANGED <<praoMain, changed>>
  BY DEF CopyPraoDetail, ghosts
<1>2. PICK k : k = req[t].of
  OBVIOUS
<1>3. PICK tot : tot = req[t].totals
  OBVIOUS
<1>4. /\ req[t] \in Requests /\ req[t].op = "prao" /\ req[t].pc = "copy"
      /\ \A u \in Threads : u # t => req'[u] = req[u]
      /\ \/ req'[t] = Idle /\ praoDetail' = praoDetail
         \/ /\ req'[t].op = "prao" /\ req'[t].of = k /\ req'[t].pc = "main"
            /\ praoDetail' = Merge(praoDetail, k, tot)
            /\ ~(k \in DOMAIN praoDetail /\ DOMAIN praoDetail[k] \cap DOMAIN tot # {})
  BY <1>2, <1>3, CopyIs
<1>5. CASE req'[t] = Idle /\ praoDetail' = praoDetail
  <2>1. \A u \in Threads : req'[u].op = "prao" => req'[u] = req[u]
    BY <1>4, <1>5 DEF Idle
  <2>2. praoMain' \subseteq DOMAIN praoDetail
    BY <1>1 DEF SubInv
  <2> QED BY <1>1, <1>5, <2>1, <2>2, SubStands
<1>6. CASE /\ req'[t].op = "prao" /\ req'[t].of = k /\ req'[t].pc = "main"
           /\ praoDetail' = Merge(praoDetail, k, tot)
           /\ ~(k \in DOMAIN praoDetail /\ DOMAIN praoDetail[k] \cap DOMAIN tot # {})
  <2>1. PICK m : m = Merge(praoDetail, k, tot)
    OBVIOUS
  <2>2. \A x : x \in DOMAIN m <=> x \in DOMAIN praoDetail \/ x = k
    BY <2>1, MergeDomain
  <2>3. \A x \in DOMAIN praoDetail : x # k => m[x] = praoDetail[x]
    BY <2>1, MergeElsewhere
  <2>4. praoDetail' = m
    BY <1>6, <2>1
  <2>5. DOMAIN tot # {}
    BY <1>3, <1>4 DEF SubInv
  <2>6. ASSUME NEW pao \in Paos, NEW p \in Months, <<pao, p>> \notin changed' PROVE Settled(pao, p)'
    <3>1. Settled(pao, p) /\ Steady(pao, p)
      BY <1>1, <2>6 DEF SubInv
    <3>2. \A u \in Threads : req'[u].op = "prao" /\ req'[u].of = <<pao, p>> =>
             AllVerified(pao, p) /\ (req'[u].pc = "copy" => req'[u].totals = PraoTotals(pao, p))
      <4>1. SUFFICES ASSUME NEW u \in Threads, req'[u].op = "prao", req'[u].of = <<pao, p>>
                     PROVE  AllVerified(pao, p) /\ (req'[u].pc = "copy" => req'[u].totals = PraoTotals(pao, p))
        OBVIOUS
      <4>2. CASE u = t
        <5>1. k = <<pao, p>>
          BY <1>6, <4>1, <4>2
        <5>2. AllVerified(pao, p)
          BY <1>2, <1>4, <3>1, <5>1 DEF Settled
        <5> QED BY <1>6, <4>2, <5>2
      <4>3. CASE u # t
        BY <1>4, <3>1, <4>1, <4>3 DEF Settled
      <4> QED BY <4>2, <4>3
    <3>3. <<pao, p>> \in DOMAIN praoDetail' =>
             AllVerified(pao, p) /\ praoDetail'[<<pao, p>>] = PraoTotals(pao, p)
      <4>1. CASE <<pao, p>> # k
        BY <2>2, <2>3, <2>4, <3>1, <4>1 DEF Settled
      <4>2. CASE <<pao, p>> = k
        <5>1. AllVerified(pao, p) /\ tot = PraoTotals(pao, p)
          BY <1>2, <1>3, <1>4, <3>1, <4>2 DEF Settled
        <5>2. k \notin DOMAIN praoDetail
          <6>1. SUFFICES ASSUME k \in DOMAIN praoDetail PROVE FALSE
            OBVIOUS
          <6>2. praoDetail[k] = tot
            BY <3>1, <4>2, <5>1, <6>1 DEF Settled
          <6> QED BY <1>6, <2>5, <6>1, <6>2
        <5>3. m[k] = tot
          BY <2>1, <5>2, MergeNew
        <5> QED BY <2>4, <4>2, <5>1, <5>3
      <4> QED BY <4>1, <4>2
    <3> QED BY <3>1, <3>2, <3>3, SettledNext
  <2>7. \A u \in Threads : req'[u].op = "prao" /\ req'[u].pc = "copy" => DOMAIN req'[u].totals # {}
    BY <1>4, <1>6 DEF SubInv
  <2>8. \A u \in Threads : req'[u].op = "prao" /\ req'[u].pc = "main" => req'[u].of \in DOMAIN praoDetail'
    BY <1>4, <1>6, <2>2, <2>4 DEF SubInv
  <2>9. praoMain' \subseteq DOMAIN praoDetail'
    BY <1>1, <2>2, <2>4 DEF SubInv
  <2> QED BY <2>6, <2>7, <2>8, <2>9 DEF SubInv
<1> QED BY <1>4, <1>5, <1>6

LEMMA NextSub == ASSUME CashTypes, SubInv, Next PROVE SubInv'
<1>0. \A pao \in Paos, p \in Months : <<pao, p>> \notin changed' => Steady(pao, p)
  BY StepsAreSteady
<1>1. praoMain \subseteq DOMAIN praoDetail
  BY DEF SubInv
<1>2. CASE Outside
  <2>1. /\ changed \subseteq changed' /\ praoDetail' = praoDetail /\ praoMain' = praoMain /\ req' = req
    BY <1>2 DEF Outside, Arrive, TransferEntryMade, UpdateDdoMonthly, tables, ghosts
  <2> QED BY <1>0, <1>1, <2>1, SubStands
<1>3. ASSUME NEW t \in Threads, Begin(t) PROVE SubInv'
  <2>1. ASSUME NEW a \in Accounts, FetchDdoMonthlyDetail(t, a) PROVE SubInv'
    <3>1. UNCHANGED <<praoDetail, praoMain, changed>>
      BY <2>1 DEF FetchDdoMonthlyDetail, tables, ghosts
    <3>2. \A u \in Threads : req'[u].op = "prao" => req'[u] = req[u]
      BY <2>1, FetchIs
    <3> QED BY <1>0, <1>1, <3>1, <3>2, SubStands
  <2>2. ASSUME NEW a \in Accounts, NEW op \in {"revert", "legacy"}, StartReversion(t, op, a) PROVE SubInv'
    <3>1. UNCHANGED <<praoDetail, praoMain, changed>>
      BY <2>2 DEF StartReversion, tables, ghosts
    <3>2. \A u \in Threads : req'[u].op = "prao" => req'[u] = req[u]
      BY <2>2, StartReversionIs
    <3> QED BY <1>0, <1>1, <3>1, <3>2, SubStands
  <2>3. ASSUME NEW pao \in Paos, NEW p \in Months, StartPrao(t, pao, p) PROVE SubInv'
    BY <1>0, <2>3, StartPraoSub
  <2> QED BY <1>3, <2>1, <2>2, <2>3 DEF Begin
<1>4. ASSUME NEW t \in Threads, Serve(t) PROVE SubInv'
  <2>0. ASSUME Done(t) PROVE \A u \in Threads : req'[u].op = "prao" => req'[u] = req[u]
    BY <2>0, DoneIs DEF Idle
  <2>1. CASE PostPfmsMonthlyverified(t) \/ PostEmptyPfmsMonthlyverified(t)
    <3>1. UNCHANGED <<praoDetail, praoMain>> /\ Done(t) /\ changed \subseteq changed'
      BY <2>1 DEF PostPfmsMonthlyverified, PostEmptyPfmsMonthlyverified, Changes
    <3> QED BY <1>0, <1>1, <2>0, <3>1, SubStands
  <2>2. CASE GetPostPraoAccount(t)
    BY <1>0, <2>2, ReadSub
  <2>3. CASE CopyPraoDetail(t)
    BY <1>0, <2>3, CopySub
  <2>4. CASE InsertPraoMain(t)
    <3>1. UNCHANGED <<praoDetail, changed>> /\ Done(t) /\ praoMain' = praoMain \cup {req[t].of}
      BY <2>4 DEF InsertPraoMain, ghosts
    <3>2. praoMain' \subseteq DOMAIN praoDetail
      BY <1>1, <2>4, <3>1 DEF InsertPraoMain, At, SubInv
    <3> QED BY <1>0, <2>0, <3>1, <3>2, SubStands
  <2>5. CASE SubaccountsDeletes(t)
    <3>1. UNCHANGED <<praoDetail, praoMain, changed>>
      BY <2>5 DEF SubaccountsDeletes, Asked, tables, ghosts
    <3>2. \A u \in Threads : req'[u].op = "prao" => req'[u] = req[u]
      BY <2>5, AnswerIs
    <3> QED BY <1>0, <1>1, <3>1, <3>2, SubStands
  <2>6. CASE SubaccountsDeletesFirst(t)
    <3>1. UNCHANGED <<praoDetail, praoMain, changed>>
      BY <2>6 DEF SubaccountsDeletesFirst, Asked, tables, ghosts
    <3>2. \A u \in Threads : req'[u].op = "prao" => req'[u] = req[u]
      BY <2>6, LegacyAnswerIs DEF Idle
    <3> QED BY <1>0, <1>1, <3>1, <3>2, SubStands
  <2>7. CASE DeletePAOCashAccount(t)
    <3>1. UNCHANGED <<praoDetail, praoMain>>
      BY <2>7 DEF DeletePAOCashAccount
    <3>2. changed \subseteq changed'
      BY <2>7, DeleteIs DEF Changes
    <3>3. \A u \in Threads : req'[u].op = "prao" => req'[u] = req[u]
      BY <2>7, DeleteIs
    <3> QED BY <1>0, <1>1, <3>1, <3>2, <3>3, SubStands
  <2>8. CASE FinishReversion(t) \/ RevertCashAccount(t) \/ Stop(t)
    <3>1. UNCHANGED <<praoDetail, praoMain>> /\ Done(t) /\ changed \subseteq changed'
      BY <2>8 DEF FinishReversion, RevertCashAccount, Stop, Changes, tables
    <3> QED BY <1>0, <1>1, <2>0, <3>1, SubStands
  <2> QED BY <1>4, <2>1, <2>2, <2>3, <2>4, <2>5, <2>6, <2>7, <2>8 DEF Serve
<1> QED BY <1>2, <1>3, <1>4 DEF Next

LEMMA StutterSub == ASSUME SubInv, UNCHANGED vars PROVE SubInv'
<1>1. UNCHANGED <<monthly, detail, praoDetail, praoMain, req, changed>>
  BY DEF vars, tables, ghosts
<1>2. \A pao, p : Steady(pao, p)
  BY <1>1 DEF Steady
<1> QED BY <1>1, <1>2, SubStands DEF SubInv

--------------------------------------------------------------------------------
(* Where the verified heads come from *)

\* The receipts of some heads are those of an account's content; the heads left out have none.
Sourced(lines, d) ==
  \A h \in Heads : (IF h \in DOMAIN lines THEN lines[h].receipt ELSE 0) = Total(d, h).receipt

LEMMA FetchedAreSourced ==
  ASSUME CashTypes, NEW a \in DOMAIN account
  PROVE  Sourced(DdoDetailMonthly(a), account[a])
<1> DEFINE row(h) == [receipt |-> Total(account[a], h).receipt, payment |-> Total(account[a], h).payment,
                      te_receipt |-> te[a][h].receipt, te_payment |-> te[a][h].payment]
           shown == {h \in Heads : row(h) # [receipt |-> 0, payment |-> 0, te_receipt |-> 0, te_payment |-> 0]}
<1>1. DdoDetailMonthly(a) = [h \in shown |-> row(h)]
  BY DEF DdoDetailMonthly
<1>2. ASSUME NEW h \in shown PROVE [x \in shown |-> row(x)][h].receipt = Total(account[a], h).receipt
  BY <1>2
<1>3. ASSUME NEW h \in Heads, h \notin shown PROVE Total(account[a], h).receipt = 0
  <2>1. row(h) = [receipt |-> 0, payment |-> 0, te_receipt |-> 0, te_payment |-> 0]
    BY <1>3
  <2>2. row(h).receipt = 0
    BY <2>1
  <2> QED BY <2>2
<1>4. DOMAIN [x \in shown |-> row(x)] = shown
  OBVIOUS
<1> HIDE DEF row, shown
<1>5. PICK f : f = [x \in shown |-> row(x)]
  OBVIOUS
<1>6. \A h \in Heads : (IF h \in DOMAIN f THEN f[h].receipt ELSE 0) = Total(account[a], h).receipt
  BY <1>2, <1>3, <1>4, <1>5
<1> QED BY <1>1, <1>5, <1>6 DEF Sourced

\* What an account's details say, nothing when there are none.
DetailOf(a) == IF a \in DOMAIN detail THEN detail[a] ELSE << >>

SourceInv ==
  /\ \A t \in Threads : req[t].op = "verify" =>
       \E d \in Contents[req[t].of] : /\ Sourced(req[t].lines, d)
                                      /\ reverts = 0 => req[t].of \in DOMAIN account /\ d = account[req[t].of]
  /\ SaidOnce => \A a \in DOMAIN monthly \ legacy : monthly[a].ver =>
       \E d \in Contents[a] : /\ Sourced(DetailOf(a), d)
                              /\ reverts = 0 => a \in DOMAIN account /\ d = account[a]

LEMMA InitSource == ASSUME Init PROVE SourceInv
<1>1. DOMAIN monthly = {}
  BY EmptyPartial DEF Init
<1>2. \A t \in Threads : req[t].op = "idle"
  BY DEF Init, Idle
<1> QED BY <1>1, <1>2 DEF SourceInv

\* No new request, no new verified account; what was received stays until a reversion.
LEMMA SourceStands ==
  ASSUME SourceInv, CashTypes, CashTypes', reverts' >= reverts, legacy \subseteq legacy',
         \A t \in Threads : req'[t].op = "verify" => req'[t] = req[t],
         \A a \in DOMAIN monthly' \ legacy' : monthly'[a].ver => a \in DOMAIN monthly /\ monthly[a].ver,
         \A a \in DOMAIN monthly' \ legacy' : (a \in DOMAIN detail' <=> a \in DOMAIN detail)
                                             /\ (a \in DOMAIN detail => detail'[a] = detail[a]),
         reverts' = 0 => \A a \in DOMAIN account : a \in DOMAIN account' /\ account'[a] = account[a]
  PROVE  SourceInv'
<1>0. reverts \in Nat /\ reverts' \in Nat
  BY DEF CashTypes
<1>1. reverts' = 0 => reverts = 0
  BY <1>0
<1>2. SaidOnce' => SaidOnce
  BY <1>1 DEF SaidOnce
<1>3. ASSUME NEW t \in Threads, req'[t].op = "verify"
      PROVE  \E d \in Contents[req'[t].of] :
                  /\ Sourced(req'[t].lines, d)
                  /\ reverts' = 0 => req'[t].of \in DOMAIN account' /\ d = account'[req'[t].of]
  <2>1. req'[t] = req[t] /\ req[t].op = "verify"
    BY <1>3
  <2>2. PICK d \in Contents[req[t].of] : /\ Sourced(req[t].lines, d)
                                         /\ reverts = 0 => req[t].of \in DOMAIN account /\ d = account[req[t].of]
    BY <2>1 DEF SourceInv
  <2>3. ASSUME reverts' = 0 PROVE req[t].of \in DOMAIN account' /\ d = account'[req[t].of]
    <3>1. req[t].of \in DOMAIN account /\ d = account[req[t].of]
      BY <1>1, <2>2, <2>3
    <3>2. \A a \in DOMAIN account : a \in DOMAIN account' /\ account'[a] = account[a]
      BY <2>3
    <3> QED BY <3>1, <3>2
  <2> QED BY <2>1, <2>2, <2>3
<1>4. ASSUME SaidOnce', NEW a \in DOMAIN monthly' \ legacy', monthly'[a].ver
      PROVE  \E d \in Contents[a] : /\ Sourced(DetailOf(a)', d)
                                    /\ reverts' = 0 => a \in DOMAIN account' /\ d = account'[a]
  <2>1. a \in DOMAIN monthly \ legacy /\ monthly[a].ver
    BY <1>4
  <2>2. PICK d \in Contents[a] : /\ Sourced(DetailOf(a), d)
                                 /\ reverts = 0 => a \in DOMAIN account /\ d = account[a]
    BY <1>2, <1>4, <2>1 DEF SourceInv
  <2>3. DetailOf(a)' = DetailOf(a)
    BY <1>4 DEF DetailOf
  <2>4. ASSUME reverts' = 0 PROVE a \in DOMAIN account' /\ d = account'[a]
    <3>1. a \in DOMAIN account /\ d = account[a]
      BY <1>1, <2>2, <2>4
    <3>2. \A x \in DOMAIN account : x \in DOMAIN account' /\ account'[x] = account[x]
      BY <2>4
    <3> QED BY <3>1, <3>2
  <2> QED BY <2>2, <2>3, <2>4
<1> QED BY <1>3, <1>4 DEF SourceInv, Sourced

LEMMA DoneSource ==
  ASSUME CashTypes, SourceInv, NEW t \in Threads, Done(t), UNCHANGED <<account, reverts>>
  PROVE  \A u \in Threads : req'[u].op = "verify" =>
           \E d \in Contents[req'[u].of] :
             /\ Sourced(req'[u].lines, d)
             /\ reverts' = 0 => req'[u].of \in DOMAIN account' /\ d = account'[req'[u].of]
<1>1. SUFFICES ASSUME NEW u \in Threads, req'[u].op = "verify"
               PROVE  \E d \in Contents[req'[u].of] :
                        /\ Sourced(req'[u].lines, d)
                        /\ reverts' = 0 => req'[u].of \in DOMAIN account' /\ d = account'[req'[u].of]
  OBVIOUS
<1>2. req'[u] = req[u]
  BY <1>1, DoneIs DEF Idle
<1> QED BY <1>1, <1>2 DEF SourceInv

\* Two contents an account was verified from are one.
LEMMA OneSource ==
  ASSUME SaidOnce, NEW a \in Accounts, NEW c \in Contents[a], NEW d \in Contents[a],
         reverts = 0 => c = d
  PROVE  c = d
BY DEF SaidOnce

LEMMA PostSource ==
  ASSUME CashTypes, RowsInv, SourceInv, NEW t \in Threads, PostPfmsMonthlyverified(t), CashTypes'
  PROVE  SourceInv'
<1>0. PICK a : a = req[t].of
  OBVIOUS
<1>1. PICK lines : lines = req[t].lines
  OBVIOUS
<1>2. Done(t) /\ UNCHANGED <<account, reverts, legacy>> /\ req[t].op = "verify"
  BY DEF PostPfmsMonthlyverified, At, bounds
<1>3. a \in Accounts /\ lines \in Partial(Heads, Line)
  BY <1>0, <1>1, <1>2, ReqIs, VerifyFields
<1>4. \A u \in Threads : req'[u].op = "verify" => req'[u] = req[u]
  BY <1>2, DoneIs DEF Idle
<1>5. CASE Refused(a, lines)
  <2>1. UNCHANGED <<monthly, detail>>
    BY <1>0, <1>1, <1>5 DEF PostPfmsMonthlyverified
  <2>2. reverts \in Nat
    BY DEF CashTypes
  <2> QED BY <1>2, <1>4, <2>1, <2>2, SourceStands
<1>6. CASE ~Refused(a, lines)
  <2>1. /\ a \in DOMAIN monthly /\ DOMAIN monthly' = DOMAIN monthly
        /\ \A x \in DOMAIN monthly : x # a => monthly'[x] = monthly[x]
        /\ \A x : x \in DOMAIN detail' <=> x \in DOMAIN detail \/ x = a
        /\ \A x \in DOMAIN detail : x # a => detail'[x] = detail[x]
        /\ \A h : h \in HeadsIn(detail', a) <=> h \in HeadsIn(detail, a) \/ h \in DOMAIN lines
        /\ \A h \in DOMAIN lines : detail'[a][h] = lines[h]
        /\ \A h \in HeadsIn(detail, a) : detail'[a][h] = detail[a][h]
    BY <1>0, <1>1, <1>3, <1>6, PostDoes
  <2>2. PICK d2 \in Contents[a] : /\ Sourced(lines, d2)
                                  /\ reverts = 0 => a \in DOMAIN account /\ d2 = account[a]
    BY <1>0, <1>1, <1>2 DEF SourceInv
  <2>3. ASSUME SaidOnce', a \notin legacy PROVE Sourced(detail'[a], d2)
    <3>1. SaidOnce
      BY <1>2, <2>3 DEF SaidOnce
    <3>2. ASSUME a \in DOMAIN detail PROVE Sourced(detail[a], d2)
      <4>1. monthly[a].ver
        BY <2>3, <3>2 DEF RowsInv
      <4>2. PICK d1 \in Contents[a] : /\ Sourced(DetailOf(a), d1)
                                      /\ reverts = 0 => a \in DOMAIN account /\ d1 = account[a]
        BY <2>1, <2>3, <3>1, <4>1 DEF SourceInv
      <4>3. d1 = d2
        <5>1. reverts = 0 => d1 = d2
          BY <2>2, <4>2
        <5> QED BY <1>3, <3>1, <5>1, OneSource
      <4> QED BY <3>2, <4>2, <4>3 DEF DetailOf
    <3>3. SUFFICES ASSUME NEW h \in Heads
                   PROVE  (IF h \in DOMAIN detail'[a] THEN detail'[a][h].receipt ELSE 0) = Total(d2, h).receipt
      BY DEF Sourced
    <3>4. (IF h \in DOMAIN lines THEN lines[h].receipt ELSE 0) = Total(d2, h).receipt
      BY <2>2 DEF Sourced
    <3>5. a \in DOMAIN detail => (IF h \in DOMAIN detail[a] THEN detail[a][h].receipt ELSE 0) = Total(d2, h).receipt
      BY <3>2 DEF Sourced
    <3>6. HeadsIn(detail', a) = DOMAIN detail'[a]
      BY <2>1 DEF HeadsIn
    <3>7. h \in HeadsIn(detail, a) <=> a \in DOMAIN detail /\ h \in DOMAIN detail[a]
      BY DEF HeadsIn
    <3> QED BY <2>1, <3>4, <3>5, <3>6, <3>7
  <2>4. ASSUME SaidOnce', NEW x \in DOMAIN monthly' \ legacy', monthly'[x].ver
        PROVE  \E d \in Contents[x] : /\ Sourced(DetailOf(x)', d)
                                      /\ reverts' = 0 => x \in DOMAIN account' /\ d = account'[x]
    <3>1. CASE x = a
      <4>1. Sourced(detail'[a], d2)
        BY <1>2, <2>3, <2>4, <3>1
      <4>2. DetailOf(x)' = detail'[a]
        BY <2>1, <3>1 DEF DetailOf
      <4> QED BY <1>2, <2>2, <3>1, <4>1, <4>2
    <3>2. CASE x # a
      <4>1. x \in DOMAIN monthly \ legacy /\ monthly[x].ver /\ SaidOnce
        BY <1>2, <2>1, <2>4, <3>2 DEF SaidOnce
      <4>2. PICK d \in Contents[x] : /\ Sourced(DetailOf(x), d)
                                     /\ reverts = 0 => x \in DOMAIN account /\ d = account[x]
        BY <4>1 DEF SourceInv
      <4>3. DetailOf(x)' = DetailOf(x)
        BY <2>1, <3>2 DEF DetailOf
      <4> QED BY <1>2, <4>2, <4>3
    <3> QED BY <3>1, <3>2
  <2>5. \A u \in Threads : req'[u].op = "verify" =>
           \E d \in Contents[req'[u].of] :
             /\ Sourced(req'[u].lines, d)
             /\ reverts' = 0 => req'[u].of \in DOMAIN account' /\ d = account'[req'[u].of]
    BY <1>2, DoneSource
  <2> QED BY <2>4, <2>5 DEF SourceInv, Sourced
<1> QED BY <1>5, <1>6

LEMMA PostEmptySource ==
  ASSUME CashTypes, RowsInv, SourceInv, NEW t \in Threads, PostEmptyPfmsMonthlyverified(t), CashTypes'
  PROVE  SourceInv'
<1>0. PICK a : a = req[t].of
  OBVIOUS
<1>1. Done(t) /\ UNCHANGED <<account, detail, reverts, legacy>> /\ req[t].op = "verify" /\ req[t].lines = << >>
  BY DEF PostEmptyPfmsMonthlyverified, At, bounds
<1>2. req[t] \in Requests
  BY ReqIs
<1>3. \A u \in Threads : req'[u].op = "verify" =>
           \E d \in Contents[req'[u].of] :
             /\ Sourced(req'[u].lines, d)
             /\ reverts' = 0 => req'[u].of \in DOMAIN account' /\ d = account'[req'[u].of]
  BY <1>1, DoneSource
<1>4. PICK d2 \in Contents[a] : /\ Sourced(<< >>, d2)
                                /\ reverts = 0 => a \in DOMAIN account /\ d2 = account[a]
  BY <1>0, <1>1 DEF SourceInv
<1>5. \A x : x # a => (x \in DOMAIN monthly' <=> x \in DOMAIN monthly)
                      /\ (x \in DOMAIN monthly => monthly'[x] = monthly[x])
  <2>1. CASE a \in DOMAIN monthly
    <3>1. monthly' = Verified(a, req[t])
      BY <1>0, <2>1 DEF PostEmptyPfmsMonthlyverified
    <3> QED BY <1>0, <1>1, <1>2, <2>1, <3>1, VerifiedIs
  <2>2. CASE a \notin DOMAIN monthly
    BY <1>0, <2>2 DEF PostEmptyPfmsMonthlyverified
  <2> QED BY <2>1, <2>2
<1>6. ASSUME SaidOnce', NEW x \in DOMAIN monthly' \ legacy', monthly'[x].ver
      PROVE  \E d \in Contents[x] : /\ Sourced(DetailOf(x)', d)
                                    /\ reverts' = 0 => x \in DOMAIN account' /\ d = account'[x]
  <2>0. DetailOf(x)' = DetailOf(x) /\ SaidOnce /\ x \notin legacy
    BY <1>1, <1>6 DEF DetailOf, SaidOnce
  <2>1. CASE x = a /\ a \notin DOMAIN detail
    <3>1. DetailOf(x) = << >>
      BY <2>1 DEF DetailOf
    <3> QED BY <1>1, <1>4, <2>0, <2>1, <3>1
  <2>2. CASE x # a \/ a \in DOMAIN detail
    <3>1. x \in DOMAIN monthly /\ monthly[x].ver
      BY <1>5, <1>6, <2>0, <2>2 DEF RowsInv
    <3>2. PICK d \in Contents[x] : /\ Sourced(DetailOf(x), d)
                                   /\ reverts = 0 => x \in DOMAIN account /\ d = account[x]
      BY <2>0, <3>1 DEF SourceInv
    <3> QED BY <1>1, <2>0, <3>2
  <2> QED BY <2>1, <2>2
<1> QED BY <1>3, <1>6 DEF SourceInv, Sourced

LEMMA FetchSource ==
  ASSUME CashTypes, SourceInv, NEW t \in Threads, NEW a \in Accounts, FetchDdoMonthlyDetail(t, a)
  PROVE  SourceInv'
<1>1. UNCHANGED <<account, monthly, detail, legacy, reverts>> /\ a \in DOMAIN account
  BY DEF FetchDdoMonthlyDetail, tables, ghosts
<1>2. /\ req'[t].op = "verify" /\ req'[t].of = a /\ req'[t].lines = DdoDetailMonthly(a)
      /\ \A u \in Threads : u # t => req'[u] = req[u]
  BY FetchIs
<1>3. ASSUME NEW u \in Threads, req'[u].op = "verify"
      PROVE  \E d \in Contents[req'[u].of] :
               /\ Sourced(req'[u].lines, d)
               /\ reverts' = 0 => req'[u].of \in DOMAIN account' /\ d = account'[req'[u].of]
  <2>1. CASE u = t
    <3>1. account[a] \in Contents[a] /\ Sourced(DdoDetailMonthly(a), account[a])
      BY <1>1, AccountIs, FetchedAreSourced
    <3> QED BY <1>1, <1>2, <2>1, <3>1
  <2>2. CASE u # t
    <3>1. req'[u] = req[u]
      BY <1>2, <2>2
    <3> QED BY <1>1, <1>3, <3>1 DEF SourceInv
  <2> QED BY <2>1, <2>2
<1>4. ASSUME SaidOnce', NEW x \in DOMAIN monthly' \ legacy', monthly'[x].ver
      PROVE  \E d \in Contents[x] : /\ Sourced(DetailOf(x)', d)
                                    /\ reverts' = 0 => x \in DOMAIN account' /\ d = account'[x]
  <2>1. DetailOf(x)' = DetailOf(x) /\ SaidOnce
    BY <1>1, <1>4 DEF DetailOf, SaidOnce
  <2>2. PICK d \in Contents[x] : /\ Sourced(DetailOf(x), d)
                                 /\ reverts = 0 => x \in DOMAIN account /\ d = account[x]
    BY <1>1, <1>4, <2>1 DEF SourceInv
  <2> QED BY <1>1, <2>1, <2>2
<1> QED BY <1>3, <1>4 DEF SourceInv, Sourced

LEMMA NextSource ==
  ASSUME CashTypes, CashTypes', RowsInv, ChainInv, SourceInv, Next
  PROVE  SourceInv'
<1>0. reverts \in Nat /\ reverts' \in Nat
  BY DEF CashTypes
<1>1. CASE Outside
  <2>1. ASSUME NEW a \in Accounts, NEW c \in Contents[a], Arrive(a, c) PROVE SourceInv'
    <3>1. UNCHANGED <<monthly, detail, req, legacy, reverts>>
      BY <2>1 DEF Arrive, ghosts, bounds
    <3>2. \A x \in DOMAIN account : x \in DOMAIN account' /\ account'[x] = account[x]
      BY <2>1 DEF Arrive, Put
    <3> QED BY <1>0, <3>1, <3>2, SourceStands
  <2>2. ASSUME NEW a \in Accounts, NEW h \in Heads, NEW side \in {"receipt", "payment"}, TransferEntryMade(a, h, side)
        PROVE  SourceInv'
    <3>1. UNCHANGED <<account, monthly, detail, req, legacy, reverts>>
      BY <2>2 DEF TransferEntryMade, tables, ghosts, bounds
    <3> QED BY <1>0, <3>1, SourceStands
  <2>3. ASSUME NEW pao \in Paos, NEW p \in Months, UpdateDdoMonthly(pao, p) PROVE SourceInv'
    <3>1. UNCHANGED <<account, detail, req, legacy, reverts>> /\ GetDDOlistMonthlyupdate(pao, p)
      BY <2>3 DEF UpdateDdoMonthly, bounds
    <3>2. \A a \in DOMAIN monthly' : monthly'[a].ver => a \in DOMAIN monthly /\ monthly[a].ver
      BY <3>1, NewRows
    <3> QED BY <1>0, <3>1, <3>2, SourceStands
  <2> QED BY <1>1, <2>1, <2>2, <2>3 DEF Outside
<1>2. ASSUME NEW t \in Threads, Begin(t) PROVE SourceInv'
  <2>1. ASSUME NEW a \in Accounts, FetchDdoMonthlyDetail(t, a) PROVE SourceInv'
    BY <2>1, FetchSource
  <2>2. ASSUME NEW a \in Accounts, NEW op \in {"revert", "legacy"}, StartReversion(t, op, a) PROVE SourceInv'
    <3>1. UNCHANGED <<account, monthly, detail, legacy>> /\ reverts' = reverts + 1
      BY <2>2 DEF StartReversion, tables, ghosts
    <3>2. \A u \in Threads : req'[u].op = "verify" => req'[u] = req[u]
      BY <2>2, StartReversionIs
    <3> QED BY <1>0, <3>1, <3>2, SourceStands
  <2>3. ASSUME NEW pao \in Paos, NEW p \in Months, StartPrao(t, pao, p) PROVE SourceInv'
    <3>1. UNCHANGED <<account, monthly, detail, legacy, reverts>>
      BY <2>3 DEF StartPrao, tables, bounds
    <3>2. \A u \in Threads : req'[u].op = "verify" => req'[u] = req[u]
      BY <2>3, StartPraoIs
    <3> QED BY <1>0, <3>1, <3>2, SourceStands
  <2> QED BY <1>2, <2>1, <2>2, <2>3 DEF Begin
<1>3. ASSUME NEW t \in Threads, Serve(t) PROVE SourceInv'
  <2>0. ASSUME Done(t) PROVE \A u \in Threads : req'[u].op = "verify" => req'[u] = req[u]
    BY <2>0, DoneIs DEF Idle
  <2>1. CASE PostPfmsMonthlyverified(t)
    BY <2>1, PostSource
  <2>2. CASE PostEmptyPfmsMonthlyverified(t)
    BY <2>2, PostEmptySource
  <2>3. CASE GetPostPraoAccount(t)
    <3>1. UNCHANGED <<account, monthly, detail, legacy, reverts>>
      BY <2>3 DEF GetPostPraoAccount, tables, ghosts, bounds
    <3>2. \A u \in Threads : req'[u].op = "verify" => req'[u] = req[u]
      BY <2>3, ReadIs DEF Idle
    <3> QED BY <1>0, <3>1, <3>2, SourceStands
  <2>4. CASE CopyPraoDetail(t)
    <3>1. UNCHANGED <<account, monthly, detail, legacy, reverts>>
      BY <2>4 DEF CopyPraoDetail, ghosts, bounds
    <3>2. \A u \in Threads : req'[u].op = "verify" => req'[u] = req[u]
      BY <2>4, CopyIs DEF Idle
    <3> QED BY <1>0, <3>1, <3>2, SourceStands
  <2>5. CASE InsertPraoMain(t)
    <3>1. UNCHANGED <<account, monthly, detail, legacy, reverts>> /\ Done(t)
      BY <2>5 DEF InsertPraoMain, ghosts, bounds
    <3> QED BY <1>0, <2>0, <3>1, SourceStands
  <2>6. CASE SubaccountsDeletes(t)
    <3>1. UNCHANGED <<account, monthly, detail, legacy, reverts>>
      BY <2>6 DEF SubaccountsDeletes, Asked, tables, ghosts
    <3>2. \A u \in Threads : req'[u].op = "verify" => req'[u] = req[u]
      BY <2>6, AnswerIs
    <3> QED BY <1>0, <3>1, <3>2, SourceStands
  <2>7. CASE SubaccountsDeletesFirst(t)
    <3>1. UNCHANGED <<account, monthly, detail, legacy, reverts>>
      BY <2>7 DEF SubaccountsDeletesFirst, Asked, tables, ghosts
    <3>2. \A u \in Threads : req'[u].op = "verify" => req'[u] = req[u]
      BY <2>7, LegacyAnswerIs DEF Idle
    <3> QED BY <1>0, <3>1, <3>2, SourceStands
  <2>8. CASE DeletePAOCashAccount(t)
    <3>0. PICK a : a = req[t].of
      OBVIOUS
    <3>1. UNCHANGED <<legacy, reverts>> /\ req[t].op = "revert"
      BY <2>8 DEF DeletePAOCashAccount, At
    <3>2. reverts > 0
      BY <3>1 DEF ChainInv
    <3>3. \A u \in Threads : req'[u].op = "verify" => req'[u] = req[u]
      BY <2>8, DeleteIs
    <3>4. (\A x \in DOMAIN monthly' : /\ x \in DOMAIN monthly /\ monthly'[x] = monthly[x]
                                      /\ x \in DOMAIN detail' <=> x \in DOMAIN detail
                                      /\ x \in DOMAIN detail => detail'[x] = detail[x])
      <4>1. CASE monthly' = Without(monthly, a) /\ detail' = Without(detail, a)
        BY <4>1 DEF Without, Restrict
      <4>2. CASE UNCHANGED <<monthly, detail>>
        BY <4>2
      <4> QED BY <2>8, <3>0, <4>1, <4>2, DeleteIs
    <3> QED BY <1>0, <3>1, <3>2, <3>3, <3>4, SourceStands
  <2>9. CASE FinishReversion(t)
    <3>1. UNCHANGED <<account, monthly, detail, legacy, reverts>> /\ Done(t)
      BY <2>9 DEF FinishReversion
    <3> QED BY <1>0, <2>0, <3>1, SourceStands
  <2>10. CASE RevertCashAccount(t)
    <3>0. PICK a : a = req[t].of
      OBVIOUS
    <3>1. /\ detail' = detail \/ detail' = Without(detail, a)
          /\ monthly' = monthly \/ monthly' = Without(monthly, a)
          /\ legacy' = legacy \cup {a} /\ reverts' = reverts /\ req[t].op = "legacy" /\ Done(t)
      BY <2>10, <3>0 DEF RevertCashAccount, At, bounds
    <3>2. reverts > 0
      BY <3>1 DEF ChainInv
    <3>3. \A x \in DOMAIN monthly' : x \in DOMAIN monthly /\ monthly'[x] = monthly[x]
      BY <3>1 DEF Without, Restrict
    <3>4. \A x \in DOMAIN monthly' \ legacy' : (x \in DOMAIN detail' <=> x \in DOMAIN detail)
                                             /\ (x \in DOMAIN detail => detail'[x] = detail[x])
      BY <3>1 DEF Without, Restrict
    <3>5. legacy \subseteq legacy' /\ \A x \in DOMAIN monthly' \ legacy' :
                                        monthly'[x].ver => x \in DOMAIN monthly /\ monthly[x].ver
      BY <3>1, <3>3
    <3> QED BY <1>0, <2>0, <3>1, <3>2, <3>4, <3>5, SourceStands
  <2>11. CASE Stop(t)
    <3>1. UNCHANGED <<account, monthly, detail, reverts>> /\ Done(t) /\ legacy \subseteq legacy'
      BY <2>11 DEF Stop, tables
    <3> QED BY <1>0, <2>0, <3>1, SourceStands
  <2> QED BY <1>3, <2>1, <2>2, <2>3, <2>4, <2>5, <2>6, <2>7, <2>8, <2>9, <2>10, <2>11 DEF Serve
<1> QED BY <1>1, <1>2, <1>3 DEF Next

LEMMA StutterSource == ASSUME CashTypes, SourceInv, UNCHANGED vars PROVE SourceInv'
<1>1. UNCHANGED <<account, monthly, detail, req, legacy, reverts>>
  BY DEF vars, tables, ghosts, bounds
<1>2. CashTypes' /\ reverts \in Nat
  BY StutterTypes DEF CashTypes
<1> QED BY <1>1, <1>2, SourceStands

(* What was verified of a listed account is what the sub-accounts sent. *)
LEMMA VerifiedAsSent ==
  ASSUME CashTypes, SourceInv, SaidOnce, NEW a \in (DOMAIN account \cap DOMAIN monthly) \ legacy, monthly[a].ver
  PROVE  \A h \in Heads : VerifiedReceipt(a, h) = Total(account[a], h).receipt
<1>1. PICK d \in Contents[a] : /\ Sourced(DetailOf(a), d)
                               /\ reverts = 0 => a \in DOMAIN account /\ d = account[a]
  BY DEF SourceInv
<1>2. a \in Accounts /\ account[a] \in Contents[a]
  BY AccountIs
<1>3. d = account[a]
  BY <1>1, <1>2, OneSource
<1>4. \A h \in Heads : (IF h \in DOMAIN DetailOf(a) THEN DetailOf(a)[h].receipt ELSE 0) = Total(account[a], h).receipt
  BY <1>1, <1>3 DEF Sourced
<1>5. \A h : (IF h \in DOMAIN DetailOf(a) THEN DetailOf(a)[h].receipt ELSE 0) = VerifiedReceipt(a, h)
  <2>1. CASE a \in DOMAIN detail
    BY <2>1 DEF DetailOf, VerifiedReceipt
  <2>2. CASE a \notin DOMAIN detail
    BY <2>2, EmptyPartial DEF DetailOf, VerifiedReceipt
  <2> QED BY <2>1, <2>2
<1> QED BY <1>4, <1>5

LEMMA SentIsShown ==
  ASSUME CashTypes, SourceInv, SaidOnce, NEW pao \in Paos, NEW p \in Months,
         Of(pao, p) \cap legacy = {}, AllVerified(pao, p), Listed(pao, p) = Of(pao, p) \cap DOMAIN account,
         NEW h \in DOMAIN Consolidated(pao, p)
  PROVE  SumOf([a \in Listed(pao, p) |-> VerifiedReceipt(a, h)], Listed(pao, p)) = Consolidated(pao, p)[h].receipt
<1>1. PICK L : L = Listed(pao, p)
  OBVIOUS
<1>2. PICK W : W = {a \in Of(pao, p) \cap DOMAIN account : h \in DOMAIN account[a].lines}
  OBVIOUS
<1>3. h \in Heads /\ Consolidated(pao, p)[h].receipt = SumOf([a \in W |-> account[a].lines[h].receipt], W)
  BY <1>2 DEF Consolidated
<1>4. W \subseteq L /\ L \subseteq Accounts /\ \A a \in L : a \in (DOMAIN account \cap DOMAIN monthly) \ legacy
                                                        /\ monthly[a].ver
  BY <1>1, <1>2 DEF Listed, Of, AllVerified
<1>5. IsFiniteSet(L) /\ IsFiniteSet(W)
  <2>1. IsFiniteSet(Accounts)
    BY CashAccountAssumption
  <2>2. IsFiniteSet(L)
    BY <1>4, <2>1, FS_Subset
  <2> QED BY <1>4, <2>2, FS_Subset
<1>6. \A a \in L : VerifiedReceipt(a, h) = Total(account[a], h).receipt /\ Total(account[a], h).receipt \in Int
  <2>1. ASSUME NEW a \in L PROVE VerifiedReceipt(a, h) = Total(account[a], h).receipt
    BY <1>3, <1>4, VerifiedAsSent
  <2>2. ASSUME NEW a \in L PROVE Total(account[a], h).receipt \in Int
    <3>1. a \in Accounts /\ account[a] \in Contents[a]
      BY <1>4, AccountIs
    <3> QED BY <1>3, <3>1, TotalIs
  <2> QED BY <2>1, <2>2
<1>7. PICK f : f = [a \in L |-> VerifiedReceipt(a, h)]
  OBVIOUS
<1>8. PICK g : g = [a \in W |-> account[a].lines[h].receipt]
  OBVIOUS
<1>9. Summable(f, L)
  BY <1>6, <1>7 DEF Summable
<1>10. \A a \in L \ W : f[a] = 0
  <2>1. SUFFICES ASSUME NEW a \in L \ W PROVE f[a] = 0
    OBVIOUS
  <2>2. h \notin DOMAIN account[a].lines
    BY <1>1, <1>2, <1>4
  <2>3. Total(account[a], h).receipt = 0
    BY <2>2 DEF Total, None
  <2> QED BY <1>6, <1>7, <2>3
<1>11. \A a \in W : f[a] = g[a]
  <2>1. SUFFICES ASSUME NEW a \in W PROVE f[a] = g[a]
    OBVIOUS
  <2>2. h \in DOMAIN account[a].lines
    BY <1>2
  <2>3. Total(account[a], h) = account[a].lines[h]
    BY <2>2 DEF Total
  <2> QED BY <1>4, <1>6, <1>7, <1>8, <2>3
<1>12. Summable(f, W)
  BY <1>4, <1>9 DEF Summable
<1>13. SumOf(f, W) = SumOf(f, L)
  BY <1>4, <1>5, <1>9, <1>10, SumWithoutZeros
<1>14. SumOf(f, W) = SumOf(g, W)
  BY <1>5, <1>11, <1>12, SumSame
<1> QED BY <1>1, <1>3, <1>7, <1>8, <1>13, <1>14

LEMMA SubmissionsSay == ASSUME CashTypes, SubInv, SourceInv PROVE PraoAgrees
<1>1. SUFFICES ASSUME NEW pao \in Paos, NEW p \in Months, PraoStatusList(p)[pao] = "submitted",
                      <<pao, p>> \notin changed, Of(pao, p) \cap legacy = {}
               PROVE  /\ AllVerified(pao, p)
                      /\ PraoAccount(pao, p) = PraoTotals(pao, p)
                      /\ SaidOnce /\ Listed(pao, p) = Of(pao, p) \cap DOMAIN account =>
                           \A h \in DOMAIN ConsolidatedCashAccount(pao, p).heads :
                             SumOf([a \in Listed(pao, p) |-> VerifiedReceipt(a, h)], Listed(pao, p))
                             = ConsolidatedCashAccount(pao, p).heads[h].receipt
  BY DEF PraoAgrees
<1>2. <<pao, p>> \in praoMain
  <2>1. PraoStatus(pao, p) = "submitted"
    BY <1>1 DEF PraoStatusList
  <2> QED BY <2>1 DEF PraoStatus
<1>3. <<pao, p>> \in DOMAIN praoDetail /\ Settled(pao, p)
  BY <1>1, <1>2 DEF SubInv
<1>4. AllVerified(pao, p) /\ praoDetail[<<pao, p>>] = PraoTotals(pao, p)
  BY <1>3 DEF Settled
<1>5. PraoAccount(pao, p) = praoDetail[<<pao, p>>]
  BY <1>3 DEF PraoAccount
<1>7. ConsolidatedCashAccount(pao, p).heads = Consolidated(pao, p)
  BY DEF ConsolidatedCashAccount
<1>8. ASSUME SaidOnce, Listed(pao, p) = Of(pao, p) \cap DOMAIN account
      PROVE  \A h \in DOMAIN Consolidated(pao, p) :
               SumOf([a \in Listed(pao, p) |-> VerifiedReceipt(a, h)], Listed(pao, p)) = Consolidated(pao, p)[h].receipt
  BY <1>1, <1>4, <1>8, SentIsShown
<1> QED BY <1>4, <1>5, <1>7, <1>8

(* For every set of offices, PAOs, months and heads: what the PrAO is shown as       *)
(* submitted, for a month that did not change since it was checked, is the sum of    *)
(* verified accounts, and agrees with what the sub-accounts sent                     *)
(* (CreatePraoAccountHandler, PostPraoAccountRepo).                                  *)
THEOREM SubmittedIsTheSum == Spec => []PraoAgrees
<1> DEFINE IInv == CashTypes /\ RowsInv /\ ChainInv /\ SubInv /\ SourceInv
<1>1. Init => IInv
  BY InitTypes, InitRows, InitChain, InitSub, InitSource
<1>2. IInv /\ [Next]_vars => IInv'
  <2>1. ASSUME IInv, Next PROVE IInv'
    <3>1. CashTypes' /\ RowsInv'
      BY <2>1, NextTypes, NextRows
    <3>2. ChainInv' /\ SubInv'
      BY <2>1, <3>1, NextChain, NextSub
    <3>3. SourceInv'
      BY <2>1, <3>1, NextSource
    <3> QED BY <3>1, <3>2, <3>3
  <2>2. ASSUME IInv, UNCHANGED vars PROVE IInv'
    BY <2>2, StutterTypes, StutterRows, StutterChain, StutterSub, StutterSource
  <2> QED BY <2>1, <2>2
<1>3. IInv => PraoAgrees
  BY SubmissionsSay
<1> QED BY <1>1, <1>2, <1>3, PTL DEF Spec

================================================================================
