------------------------------ MODULE CashAccount ------------------------------
(***************************************************************************)
(* The monthly cash account of a DDO: it arrives from the sub-accounts     *)
(* system, is listed, verified head by head, carried into the broad sheet  *)
(* of the heads that keep a balance, summed per PAO for the principal      *)
(* accounts office (PrAO), and taken back by a reversion.  The reports     *)
(* over these tables are operators.                                        *)
(***************************************************************************)
EXTENDS Integers, Sequences, FiniteSets, Functions, Sums

CONSTANTS
  Accounts,      \* the cash accounts there may be, records [ddo, period]
  PaoOf,         \* the PAO of each DDO (ddo_master)
  Contents,      \* what each account may say: records [opening, closing, lines]
  Heads,         \* the heads of account
  Kind,          \* what the broad sheet does with a head
  Threads,       \* requests being served at the same time
  MaxTe,         \* bound on the transfer entries
  MaxVerified,   \* bound on the verifications
  MaxReverts,    \* bound on the reversions
  MaxFaults      \* bound on failed statements and calls

Kinds == {"payable", "asset", "both", "credit", "debit", "plain"}

ASSUME CashAccountAssumption ==
  /\ IsFiniteSet(Accounts)
  /\ \A a \in Accounts : a = [ddo |-> a.ddo, period |-> a.period] /\ a.period \in [m : 1..12, y : Nat]
  /\ \A a \in Accounts : \A c \in Contents[a] :
       /\ c.opening \in Int /\ c.closing \in Int /\ DOMAIN c.lines \subseteq Heads
       /\ \A h \in DOMAIN c.lines : c.lines[h].receipt \in Int /\ c.lines[h].payment \in Int
  /\ IsFiniteSet(Heads)
  /\ Kind \in [Heads -> Kinds]
  /\ {MaxTe, MaxVerified, MaxReverts, MaxFaults} \subseteq Nat

VARIABLES
  closed,    \* the accounts the sub-accounts system holds as closed
  account,   \* pao.kafka_cash_account: the accounts received
  te,        \* the transfer entries per account and head: [receipt, payment]
  monthly,   \* pao.pfms_monthly_main
  detail,    \* pao.pfms_monthly_detail: per account, the verified heads
  sheet,     \* pao.broad_sheet: per account, the heads that keep a balance
  praoDetail,\* pao.pao_prao_account_detail
  praoMain,  \* pao.pao_prao_account_main: what is shown as submitted
  audit,     \* pao.cashacc_reversion
  req,       \* the request each thread serves
  legacy,    \* accounts the older reversion deleted, or any reversion left half-way
  unlogged,  \* accounts with a reversion whose audit row could not be stored
  changed,   \* submissions whose accounts changed after they were found all verified
  verified, reverts, faults

tables == <<account, monthly, detail, sheet, praoDetail, praoMain, audit>>
ghosts == <<legacy, unlogged, changed>>
bounds == <<verified, reverts, faults>>
vars == <<closed, te, tables, req, ghosts, bounds>>

--------------------------------------------------------------------------------
Months == {a.period : a \in Accounts}
Paos == {PaoOf[a.ddo] : a \in Accounts}
Pao(a) == PaoOf[a.ddo]
Of(pao, p) == {a \in Accounts : Pao(a) = pao /\ a.period = p}

Put(f, k, v) == [x \in DOMAIN f \cup {k} |-> IF x = k THEN v ELSE f[x]]
None == [receipt |-> 0, payment |-> 0]

Idle == [op |-> "idle"]
Free(t) == req[t] = Idle
At(t, op, pc) == req[t].op = op /\ req[t].pc = pc
Done(t) == req' = [req EXCEPT ![t] = Idle]
Goto(t, pc) == req' = [req EXCEPT ![t].pc = pc]
Fault == faults < MaxFaults /\ faults' = faults + 1

(* The submissions an account belongs to are no longer what was summed. *)
Changes(a) == changed' = changed \cup {<<Pao(a), a.period>>}

--------------------------------------------------------------------------------
(* Receiving and listing *)

Arrive(a, c) ==
  /\ a \notin closed /\ a \notin DOMAIN account
  /\ closed' = closed \cup {a}
  /\ account' = Put(account, a, c)
  /\ UNCHANGED <<te, monthly, detail, sheet, praoDetail, praoMain, audit, req, ghosts, bounds>>

(* A transfer entry of the month, approved or not, counts for its account. *)
Posted == LET count == [k \in Accounts \X Heads |-> te[k[1]][k[2]].receipt + te[k[1]][k[2]].payment]
          IN  SumOf(count, Accounts \X Heads)

TransferEntryMade(a, h, side) ==
  /\ Posted < MaxTe
  /\ te' = [te EXCEPT ![a][h][side] = @ + 1]
  /\ UNCHANGED <<closed, tables, req, ghosts, bounds>>

NewRow == [recv |-> TRUE, ver |-> FALSE, opening |-> 0, closing |-> 0]

(* GetDDOlistMonthlyupdateRepo: the received accounts of the month without a row. *)
GetDDOlistMonthlyupdate(pao, p) ==
  LET missing == (Of(pao, p) \cap DOMAIN account) \ DOMAIN monthly
  IN  monthly' = [a \in DOMAIN monthly \cup missing |->
                    IF a \in DOMAIN monthly THEN monthly[a] ELSE NewRow]

UpdateDdoMonthly(pao, p) ==
  /\ GetDDOlistMonthlyupdate(pao, p)
  /\ monthly' # monthly
  /\ changed' = changed \cup {<<pao, p>>}
  /\ UNCHANGED <<closed, te, account, detail, sheet, praoDetail, praoMain, audit, req,
                 legacy, unlogged, bounds>>

(* GetDDOlistMonthlyRepo and GetDDOlistMonthlyOffRepo: the offices of the PAO and *)
(* how far their account is; an office without a row shows as not received.       *)
DdoListMonthly(pao, p) ==
  [a \in Of(pao, p) |->
     IF a \in DOMAIN monthly THEN [recv |-> monthly[a].recv, ver |-> monthly[a].ver]
     ELSE [recv |-> FALSE, ver |-> FALSE]]

(* GetDdoPfmsStatusRepo: the listed months of an office, the latest first. *)
Later(p, q) == p.y > q.y \/ (p.y = q.y /\ p.m > q.m)
DdoPfmsStatus(ddo) ==
  LET months == {a.period : a \in {b \in DOMAIN monthly : b.ddo = ddo}}
  IN  [i \in 1..Cardinality(months) |->
         CHOOSE p \in months : Cardinality({q \in months : Later(q, p)}) = i - 1]

--------------------------------------------------------------------------------
(* Verification *)

Total(c, h) == IF h \in DOMAIN c.lines THEN c.lines[h] ELSE None

(* GetDDOdetail_monthlyRepo: the account's heads joined with the transfer entries *)
(* of the month, the rows of zeros left out.                                      *)
DdoDetailMonthly(a) ==
  LET row(h) == [receipt |-> Total(account[a], h).receipt, payment |-> Total(account[a], h).payment,
                 te_receipt |-> te[a][h].receipt, te_payment |-> te[a][h].payment]
      shown == {h \in Heads : row(h) # [receipt |-> 0, payment |-> 0, te_receipt |-> 0, te_payment |-> 0]}
  IN  [h \in shown |-> row(h)]

(* FetchDdoMonthlyDetailHandler; CheckEmptyCashbookMonthlyRepo offers a NIL row    *)
(* when there is nothing to show.  The officer verifies what was fetched.          *)
FetchDdoMonthlyDetail(t, a) ==
  /\ Free(t) /\ verified < MaxVerified
  /\ a \in DOMAIN account
  /\ verified' = verified + 1
  /\ req' = [req EXCEPT ![t] = [op |-> "verify", pc |-> "post", of |-> a, lines |-> DdoDetailMonthly(a),
                                opening |-> account[a].opening, closing |-> account[a].closing]]
  /\ UNCHANGED <<closed, te, tables, ghosts, reverts, faults>>

(* broadsheet_month is the text MMYYYY; the queries order it as a number. *)
Number(p) == p.m * 10000 + p.y

(* The heads entered into the broad sheet, and what their closing balance is. *)
SheetHeads(lines) == {h \in DOMAIN lines : Kind[h] # "plain"}

Credits == [asset |-> -1, payable |-> 1, both |-> 1, credit |-> 1, debit |-> 0]
Debits == [asset |-> 1, payable |-> -1, both |-> 1, credit |-> 0, debit |-> 1]
Closing(kind, opening, l) == opening + Credits[kind] * l.receipt + Debits[kind] * l.payment

(* LAG(closing_balance) OVER (ORDER BY broadsheet_month::integer), 0 when first. *)
Before(a, h) == {b \in DOMAIN sheet : b.ddo = a.ddo /\ h \in DOMAIN sheet[b]
                                      /\ Number(b.period) < Number(a.period)}
(* Mutant of PrevClosing: the balance the month before opened with. *)
PrevClosingOpens(a, h) ==
  IF Before(a, h) = {} THEN 0
  ELSE sheet[CHOOSE b \in Before(a, h) : \A c \in Before(a, h) : Number(c.period) <= Number(b.period)][h].opening

PrevClosing(a, h) ==
  IF Before(a, h) = {} THEN 0
  ELSE sheet[CHOOSE b \in Before(a, h) : \A c \in Before(a, h) : Number(c.period) <= Number(b.period)][h].closing

(* Mutant of SheetRow: the sides are swapped. *)
SheetRowSwapped(a, h, l) ==
  [opening |-> PrevClosing(a, h), closing |-> Closing(Kind[h], PrevClosing(a, h), l),
   credit |-> l.payment, debit |-> l.receipt, at |-> verified]

SheetRow(a, h, l) ==
  [opening |-> PrevClosing(a, h), closing |-> Closing(Kind[h], PrevClosing(a, h), l),
   credit |-> l.receipt, debit |-> l.payment, at |-> verified]

(* The batch of PostPfmsMonthlyverifiedRepo is one transaction.  It is    *)
(* when the account is not listed (foreign key), or when its heads or its broad  *)
(* sheet rows are there already (primary keys).                                  *)
Refused(a, lines) ==
  \/ a \notin DOMAIN monthly
  \/ a \in DOMAIN detail /\ DOMAIN detail[a] \cap DOMAIN lines # {}
  \/ a \in DOMAIN sheet /\ DOMAIN sheet[a] \cap SheetHeads(lines) # {}

Over(g, f) == [x \in DOMAIN g \cup DOMAIN f |-> IF x \in DOMAIN g THEN g[x] ELSE f[x]]
Merge(f, a, g) == Put(f, a, IF a \in DOMAIN f THEN Over(g, f[a]) ELSE g)

Verified(a, r) ==
  [monthly EXCEPT ![a] = [recv |-> @.recv, ver |-> TRUE, opening |-> r.opening, closing |-> r.closing]]

PostPfmsMonthlyverified(t) ==
  LET a == req[t].of
      lines == req[t].lines
  IN
  /\ At(t, "verify", "post") /\ lines # << >>
  /\ IF Refused(a, lines)
     THEN UNCHANGED <<monthly, detail, sheet, changed>>
     ELSE /\ monthly' = Verified(a, req[t])
          /\ detail' = Merge(detail, a, lines)
          /\ sheet' = IF SheetHeads(lines) = {} THEN sheet
                      ELSE Merge(sheet, a, [h \in SheetHeads(lines) |-> SheetRow(a, h, lines[h])])
          /\ Changes(a)
  /\ Done(t)
  /\ UNCHANGED <<closed, te, account, praoDetail, praoMain, audit, legacy, unlogged, bounds>>

(* PostEmptyPfmsMonthlyverifiedRepo: an account of zeros changes its row alone. *)
PostEmptyPfmsMonthlyverified(t) ==
  LET a == req[t].of IN
  /\ At(t, "verify", "post") /\ req[t].lines = << >>
  /\ IF a \in DOMAIN monthly
     THEN monthly' = Verified(a, req[t]) /\ Changes(a)
     ELSE UNCHANGED <<monthly, changed>>
  /\ Done(t)
  /\ UNCHANGED <<closed, te, account, detail, sheet, praoDetail, praoMain, audit, legacy, unlogged, bounds>>

--------------------------------------------------------------------------------
(* Submission to the PrAO *)

Listed(pao, p) == Of(pao, p) \cap DOMAIN monthly

(* Mutant of AllVerified: one verified account is enough. *)
AllVerifiedSome(pao, p) == \E a \in Listed(pao, p) : monthly[a].ver

(* CheckCashAccountVerificationRepo counts the listed accounts, not the offices. *)
AllVerified(pao, p) == Listed(pao, p) # {} /\ \A a \in Listed(pao, p) : monthly[a].ver

(* GetPostPraoAccountRepo: receipts and payments per head over the listed accounts. *)
Receipts(l) == l.receipt + l.te_receipt
Payments(l) == l.payment + l.te_payment
PraoTotals(pao, p) ==
  LET with(h) == {a \in Listed(pao, p) \cap DOMAIN detail :
                    h \in DOMAIN detail[a] /\ (Receipts(detail[a][h]) # 0 \/ Payments(detail[a][h]) # 0)}
  IN  [h \in {g \in Heads : with(g) # {}} |->
         [receipt |-> SumOf([a \in with(h) |-> Receipts(detail[a][h])], with(h)),
          payment |-> SumOf([a \in with(h) |-> Payments(detail[a][h])], with(h)),
          ddos |-> {a.ddo : a \in with(h)}]]

InFlight(pao, p) == \E t \in Threads : req[t].op = "prao" /\ req[t].of = <<pao, p>>

(* CreatePraoAccountHandler. *)
StartPrao(t, pao, p) ==
  /\ Free(t)
  /\ AllVerified(pao, p)
  /\ req' = [req EXCEPT ![t] = [op |-> "prao", pc |-> "read", of |-> <<pao, p>>, totals |-> << >>]]
  /\ changed' = IF <<pao, p>> \in DOMAIN praoDetail \/ InFlight(pao, p)
                THEN changed ELSE changed \ {<<pao, p>>}
  /\ UNCHANGED <<closed, te, tables, legacy, unlogged, bounds>>

(* Without any head the answer is "created" and nothing is stored. *)
GetPostPraoAccount(t) ==
  LET k == req[t].of IN
  /\ At(t, "prao", "read")
  /\ IF PraoTotals(k[1], k[2]) = << >> THEN Done(t)
     ELSE req' = [req EXCEPT ![t].pc = "copy", ![t].totals = PraoTotals(k[1], k[2])]
  /\ UNCHANGED <<closed, te, tables, ghosts, bounds>>

(* PostPraoAccountRepo, first the copy of the details, then the row that says    *)
(* submitted: two statements without a transaction.  A key that is there already  *)
(* answers "prao account already submitted" and changes nothing.                  *)
CopyPraoDetail(t) ==
  LET k == req[t].of IN
  /\ At(t, "prao", "copy")
  /\ IF k \in DOMAIN praoDetail /\ DOMAIN praoDetail[k] \cap DOMAIN req[t].totals # {}
     THEN /\ Done(t)
          /\ UNCHANGED praoDetail
     ELSE praoDetail' = Merge(praoDetail, k, req[t].totals) /\ Goto(t, "main")
  /\ UNCHANGED <<closed, te, account, monthly, detail, sheet, praoMain, audit, ghosts, bounds>>

InsertPraoMain(t) ==
  LET k == req[t].of IN
  /\ At(t, "prao", "main")
  /\ praoMain' = praoMain \cup {k}
  /\ Done(t)
  /\ UNCHANGED <<closed, te, account, monthly, detail, sheet, praoDetail, audit, ghosts, bounds>>

(* PraoAccountSubStatusRepo, PraoAccountSubStatusListRepo, GetPaoPraoStatusRepo. *)
PraoStatus(pao, p) == IF <<pao, p>> \in praoMain THEN "submitted" ELSE "Not Submitted to Pr AO"
PraoStatusList(p) == [pao \in Paos |-> PraoStatus(pao, p)]

(* GetPraoAccountRepo: the details of the month, submitted or not. *)
PraoAccount(pao, p) == IF <<pao, p>> \in DOMAIN praoDetail THEN praoDetail[<<pao, p>>] ELSE << >>

--------------------------------------------------------------------------------
(* Taking an account back *)

(* The officer reverts an account the PAO has received. *)
StartReversion(t, op, a) ==
  /\ Free(t) /\ a \in DOMAIN account /\ reverts < MaxReverts /\ op \in {"revert", "legacy"}
  /\ reverts' = reverts + 1
  /\ req' = [req EXCEPT ![t] = [op |-> op, pc |-> "sub", of |-> a, sub |-> "FAILED", final |-> "FAILED"]]
  /\ UNCHANGED <<closed, te, tables, ghosts, verified, faults>>

(* What the sub-accounts system may answer: deleted, unknown, or nothing usable. *)
Asked(t, deleted, unknown, failed) ==
  LET a == req[t].of IN
  /\ req[t].pc = "sub"
  /\ \/ a \in closed /\ closed' = closed \ {a} /\ deleted /\ UNCHANGED faults
     \/ a \notin closed /\ unknown /\ UNCHANGED <<closed, faults>>
     \/ a \in closed /\ Fault /\ failed /\ UNCHANGED closed
  /\ UNCHANGED <<te, tables, ghosts, verified, reverts>>

(* CashAccountReversionHandler goes on whatever the answer is. *)
SubaccountsDeletes(t) ==
  LET on(sub) == req' = [req EXCEPT ![t].pc = "delete", ![t].sub = sub] IN
  /\ req[t].op = "revert"
  /\ Asked(t, on("SUCCESS"), on("NOT_FOUND"), on("FAILED"))

(* RevertCashAccountPostHandler stops unless the status is 200. *)
SubaccountsDeletesFirst(t) ==
  /\ req[t].op = "legacy"
  /\ Asked(t, Goto(t, "delete"), Done(t), Done(t))

(* DeletePAOCashAccountRepoTracked: one transaction over the four tables. *)
Without(f, a) == Restrict(f, DOMAIN f \ {a})

DeletePAOCashAccount(t) ==
  LET a == req[t].of IN
  /\ At(t, "revert", "delete")
  /\ \/ /\ account' = Without(account, a) /\ monthly' = Without(monthly, a)
        /\ detail' = Without(detail, a) /\ sheet' = Without(sheet, a)
        /\ Changes(a)
        /\ req' = [req EXCEPT ![t].pc = "audit", ![t].final = "SUCCESS"]
        /\ UNCHANGED faults
     \/ /\ Fault /\ Goto(t, "audit")
        /\ UNCHANGED <<account, monthly, detail, sheet, changed>>
  /\ UNCHANGED <<closed, te, praoDetail, praoMain, audit, legacy, unlogged, verified, reverts>>

(* Mutant of InsertCashAccReversion: every reversion is recorded as done there. *)
InsertCashAccReversionDone(r) == audit' = Append(audit, [of |-> r.of, sub |-> "SUCCESS", final |-> r.final])

InsertCashAccReversion(r) == audit' = Append(audit, [of |-> r.of, sub |-> r.sub, final |-> r.final])

(* The answer is "updated" in every case: a failed audit row is only logged. *)
FinishReversion(t) ==
  /\ At(t, "revert", "audit")
  /\ \/ InsertCashAccReversion(req[t]) /\ UNCHANGED <<faults, unlogged>>
     \/ Fault /\ UNCHANGED audit /\ unlogged' = unlogged \cup {req[t].of}
  /\ Done(t)
  /\ UNCHANGED <<closed, te, account, monthly, detail, sheet, praoDetail, praoMain, legacy, changed,
                 verified, reverts>>

(* RevertCashAccountRepo: three statements of their own over ho_code and          *)
(* camonthyear, columns the schema kept in the repository does not have; the      *)
(* broad sheet is not touched.                                                    *)
RevertCashAccount(t) ==
  LET a == req[t].of IN
  /\ At(t, "legacy", "delete")
  /\ \E n \in 0..3 :
       /\ account' = IF n >= 1 THEN Without(account, a) ELSE account
       /\ detail' = IF n >= 2 THEN Without(detail, a) ELSE detail
       /\ monthly' = IF n = 3 THEN Without(monthly, a) ELSE monthly
  /\ legacy' = legacy \cup {a} /\ Changes(a)
  /\ Done(t)
  /\ UNCHANGED <<closed, te, sheet, praoDetail, praoMain, audit, unlogged, bounds>>

(* A request ends half-way: a statement fails, the process goes away. *)
Stop(t) ==
  /\ ~Free(t) /\ Fault
  /\ Done(t)
  /\ legacy' = IF req[t].op \in {"revert", "legacy"} THEN legacy \cup {req[t].of} ELSE legacy
  /\ UNCHANGED <<closed, te, tables, unlogged, changed, verified, reverts>>

--------------------------------------------------------------------------------
(* Reports *)

(* GetConsolidatedCashAccountRepo: what the received accounts of a PAO say. *)
Consolidated(pao, p) ==
  LET has(h) == {a \in Of(pao, p) \cap DOMAIN account : h \in DOMAIN account[a].lines}
  IN  [h \in {g \in Heads : has(g) # {}} |->
         [receipt |-> SumOf([a \in has(h) |-> account[a].lines[h].receipt], has(h)),
          payment |-> SumOf([a \in has(h) |-> account[a].lines[h].payment], has(h))]]

(* GetConsolidatedCashAccountHandler: a month without heads is an empty account,  *)
(* not an error.                                                                  *)
ConsolidatedCashAccount(pao, p) == [pao |-> pao, period |-> p, heads |-> Consolidated(pao, p)]

(* GetbroadsheetRepo: by month and head (1), office (2), month alone (3), head    *)
(* and office (4), PAO (5); any other type is an error.                           *)
BroadSheet(type, p, head, ddo, pao) ==
  {k \in (DOMAIN sheet) \X Heads :
     LET a == k[1]
         h == k[2]
     IN  /\ a.period = p /\ h \in DOMAIN sheet[a]
         /\ type \in 1..5
         /\ type \in {1, 4} => h = head
         /\ type \in {2, 4} => a.ddo = ddo
         /\ type = 5 => Pao(a) = pao}

--------------------------------------------------------------------------------
Init ==
  /\ closed = {} /\ account = << >> /\ monthly = << >> /\ detail = << >> /\ sheet = << >>
  /\ te = [a \in Accounts |-> [h \in Heads |-> None]]
  /\ praoDetail = << >> /\ praoMain = {} /\ audit = << >>
  /\ req = [t \in Threads |-> Idle]
  /\ legacy = {} /\ unlogged = {} /\ changed = {}
  /\ verified = 0 /\ reverts = 0 /\ faults = 0

Begin(t) ==
  \/ \E a \in Accounts : FetchDdoMonthlyDetail(t, a) \/ \E op \in {"revert", "legacy"} : StartReversion(t, op, a)
  \/ \E pao \in Paos, p \in Months : StartPrao(t, pao, p)

Serve(t) ==
  \/ PostPfmsMonthlyverified(t) \/ PostEmptyPfmsMonthlyverified(t)
  \/ GetPostPraoAccount(t) \/ CopyPraoDetail(t) \/ InsertPraoMain(t)
  \/ SubaccountsDeletes(t) \/ SubaccountsDeletesFirst(t) \/ DeletePAOCashAccount(t) \/ FinishReversion(t)
  \/ RevertCashAccount(t)
  \/ Stop(t)

Outside ==
  \/ \E a \in Accounts : \E c \in Contents[a] : Arrive(a, c)
  \/ \E a \in Accounts, h \in Heads, side \in {"receipt", "payment"} : TransferEntryMade(a, h, side)
  \/ \E pao \in Paos, p \in Months : UpdateDdoMonthly(pao, p)

Next == Outside \/ \E t \in Threads : Begin(t) \/ Serve(t)

Spec == Init /\ [][Next]_vars

--------------------------------------------------------------------------------
(* Properties *)

Quiet == \A t \in Threads : Free(t)

(* A broad sheet row opens with the closing balance of the month before it, as   *)
(* long as all the rows of that office and head lie in one year (the numbers     *)
(* MMYYYY order months before years), the earlier month was verified first, and  *)
(* nothing was taken back.                                                       *)
OneYear(ddo, h) ==
  \A a, b \in {c \in DOMAIN sheet : c.ddo = ddo /\ h \in DOMAIN sheet[c]} : a.period.y = b.period.y

BroadSheetChain ==
  \A a, b \in DOMAIN sheet : \A h \in DOMAIN sheet[a] \cap DOMAIN sheet[b] :
    /\ a.ddo = b.ddo /\ Later(b.period, a.period) /\ OneYear(a.ddo, h)
    /\ \A c \in Before(b, h) : ~Later(c.period, a.period)
    /\ sheet[a][h].at < sheet[b][h].at
    /\ reverts = 0
    => sheet[b][h].opening = sheet[a][h].closing

(* A broad sheet row and the verified head it was made from live and die          *)
(* together, and what the officers are shown agrees: an account shown as verified *)
(* is among its office's months, and its kept heads are in the broad sheet of the *)
(* month, the office, the head and the PAO.  The accounts the older reversion     *)
(* half deleted are the exception.                                                *)
RowOfDetail(a, h) ==
  /\ a \in DOMAIN monthly /\ monthly[a].ver
  /\ a \in DOMAIN detail /\ h \in DOMAIN detail[a]
  /\ sheet[a][h].credit = detail[a][h].receipt /\ sheet[a][h].debit = detail[a][h].payment

SheetMatchesDetail ==
  /\ \A a \in DOMAIN sheet \ legacy : \A h \in DOMAIN sheet[a] : RowOfDetail(a, h)
  /\ \A a \in DOMAIN detail \ legacy :
       DdoListMonthly(Pao(a), a.period)[a].ver =>
         /\ a.period \in Range(DdoPfmsStatus(a.ddo))
         /\ \A h \in SheetHeads(detail[a]), type \in 1..5 :
              <<a, h>> \in BroadSheet(type, a.period, h, a.ddo, Pao(a))

(* An account that comes again after a reversion may say something else, and an   *)
(* officer who fetched the first one verifies that one.                           *)
SaidOnce == reverts = 0 \/ \A a \in Accounts : \A c, d \in Contents[a] : c = d

(* What was verified of a head, as the sub-accounts sent it. *)
VerifiedReceipt(a, h) == IF a \in DOMAIN detail /\ h \in DOMAIN detail[a] THEN detail[a][h].receipt ELSE 0

(* What the PrAO is shown as submitted is the sum of verified accounts, of every  *)
(* account listed, and without the transfer entries it is what the sub-accounts   *)
(* sent; so it is although the details and the row that says submitted are stored *)
(* by two statements, and several requests submit at once (PostPraoAccountRepo).  *)
(* It holds as long as no account of the month changed after they were checked    *)
(* (nothing in the code keeps the check, the reading and the copy together, nor    *)
(* takes a submission back), and none was half deleted by the older reversion.    *)
PraoAgrees ==
  \A pao \in Paos, p \in Months :
    PraoStatusList(p)[pao] = "submitted" /\ <<pao, p>> \notin changed /\ Of(pao, p) \cap legacy = {} =>
      LET shown == ConsolidatedCashAccount(pao, p).heads IN
      /\ AllVerified(pao, p)
      /\ PraoAccount(pao, p) = PraoTotals(pao, p)
      /\ SaidOnce /\ Listed(pao, p) = Of(pao, p) \cap DOMAIN account =>
           \A h \in DOMAIN shown :
             SumOf([a \in Listed(pao, p) |-> VerifiedReceipt(a, h)], Listed(pao, p)) = shown[h].receipt

(* An account the sub-accounts system holds as closed and the PAO deleted will     *)
(* not come again; an audit row says that the other side did not delete it.  The   *)
(* exceptions are the accounts whose audit row could not be stored (that is only   *)
(* logged), and those the older reversion half deleted.                            *)
NothingVanishes ==
  Quiet =>
    \A a \in closed \ (DOMAIN account \cup legacy \cup unlogged) :
      \E i \in DOMAIN audit : audit[i].of = a /\ audit[i].sub # "SUCCESS"
================================================================================
