# dakcoder: models, checks and proofs

The repository holds two programs and the tools between them.

* The **PAO accounts backend** (Go, `pao-back-end-development/`): the books of a pay and
  accounts office (PAO). Drawing offices (DDO) send daily cash books and monthly cash accounts
  through a *sub-accounts* system; the PAO verifies them, books them with PFMS, the
  government's ledger, makes transfer entries of its own against a budget service, and
  reports to a principal office (PrAO).
* The **coding agent** dakcoder (Python and TypeScript, `apps/`, `extension/`): a gateway that
  meters model calls, an agent daemon that runs the agent's loop and keeps its sessions, and a
  VS Code extension that follows the daemon's event streams.
* The **Go tools** (`gotools/`): scaffolding, wiring, linting, auditing and route inventories
  of Go services, which the agent calls while it works on a service like the first one.

This directory holds TLA+ models of them, the TLC runs that check the models, and proofs.

## 1. Inventory

`pao/` is `pao-back-end-development/`, `agent/` is `apps/agent/src/dakcoder_agent/`,
`gateway/` is `apps/gateway/src/dakcoder_gateway/`, `tools/` is `gotools/internal/`.

| component | state | operations | what must hold |
|---|---|---|---|
| Cash book and PFMS (`pao/handler/paogen.go`, `pao/repo/postgres/paogen.go`) | `pfms_main`, `pfms_submission`, `kafka_accounting_detail`; what PFMS holds | receive, verify, submit, poll, re-submit | a day is with PFMS once; its flags say what PFMS said; a payload balances |
| Reversion (same files) | `reversion`, the same tables; the sub-accounts system's | revert one or many, delete, record, post a negative, poll it | no logged entry is forgotten; only what is booked is negated |
| Monthly account, broad sheet, PrAO (same files) | `pfms_detail_monthly`, `broad_sheet`, `prao_account`, the audit | verify, carry balances, post, revert | sheet, detail and PrAO account agree; balances chain |
| Transfer entries (`transferentry.go` in both) | `transfer_entry`, `pfms_submission`; budget, PFMS | create, verify or reject, submit, poll, reset, reverse | budget follows verification; posted once; negated once |
| Approval workflow (`transferentry.go`, `temporalrepo.go`) | workflow id, workflow position, three outside ledgers | budget, sub-accounts, reversal, post | posted only when all agreed; what each end leaves in the ledgers |
| Inter-PAO entries | `transfer_entry_interpao` | create, approve, verify, reject | rows of an entry move together |
| Objections (`objection.go` in both) | `objection`, `prao_objection` | raise, comment, close | an open one is found by who must act |
| Remuneration (`publicacct.go` in both) | rates, payments | rate, authorise, read, pay | paid at an authorised rate |
| Lists | none | 34 list handlers (39 lists), read in pages | a reader who pages sees every row |
| Scaffolder, wiring, patches (`tools/scaffold`, `fxwire`, `gopatch`, `spec`) | the source tree | plan, check, write, register | the tree is not lost; what is scaffolded is served |
| Rules, settings, audits (`tools/rules`, `workspace`) | none | lint by scope, rule and set; three audits | an edit's findings are found, and only those; what an audit condemns a rule reports |
| Route inventory (`tools/routes`) | the saved inventory | save, compare | what is reported missing is missing, and the reverse |
| Session log, live stream (`agent/session.py`, `journal.py`, `loopback.py`; `extension/src/session-state.ts`) | event list, ids, journal, cursor, queues | record, flush, restore, stream, ingest | in order, once; a kill costs little |
| Approvals, runs (`agent/loopback.py`, `loop.py`) | approval fields of two threads; status, message queue | register, wait, decide, extend, abort; start, message, rescue | only an acceptance runs a call; no message vanishes |
| Metering (`gateway/proxy.py`, `gateway/quota/`, `gateway/ledger.py`) | charges, claims, reservations, ledger rows | reserve, relay, settle, release, record | charged exactly once, told to the ledger once; ceilings hold |
| Not modelled | | | see section 7 |

**How they interact.** A handler of the backend is a sequence of separate database statements
and outside calls; nothing spans them but the few batches that are one transaction, and
several requests run at once. PFMS answers later and is polled; Temporal replays the approval
workflow; the other systems are called over HTTP or nexus. In the agent, HTTP handlers run on
an event loop, each run has a worker thread, and its model calls go through the gateway with
settlement in sibling tasks. The Go tools read a tree without a lock, plan, and write file by file.

**What is hard.** Answers that are lost after the other side has acted; a lease that runs out
while its holder works; a row that is deleted, reset or re-submitted under a request; writes
that fail between two others; officers who act on lists read before; months verified out of
order; a kill between two writes; cancellation at an `await`; a file saved while a plan is
being written. `hazards` in `PROJECT.json` lists them at the line where each bites.

## 2. The modules

### Accounts backend

In all of them `Threads` are requests in progress; `req[t]` holds what a request has read
(its local variables), and each step is one statement or one outside call with what the
handler does after it. `faults` bounds what goes wrong: a statement that fails (the handler
takes its error return, or logs and goes on, as the code does), a call that fails before or
after the other side acted, a process that ends between two steps (`Stop`). A sub-accounts,
budget or PFMS action is external and modelled from how the handlers read its answers.

* **PfmsPayload**: the amounts and signs of an entry for PFMS: receipts, payments and the closing line
  of each office, `ProcessAmountAndSign`, the mirrored entry of a negative. Heads and descriptions are
  left out.
* **Cashbook**: days of offices from their arrival to the answer of PFMS. `TryStartSubmission`
  is the lease: one conditional update. Time counts in units of some seconds. The submission is split
  at each of its calls; it takes any list of cash books, since `FetchPfmsHandler` asks neither whether
  they are still pending nor whether they were verified, and `late` records that the list was outdated
  when it came. The poll takes up to five pending entries in the code's order and stops at an error.
* **Reversion** EXTENDS it: single and bulk reversion classify a day by what is known of its
  submission, delete at the sub-accounts and locally, record one row per day, and later post
  the negative and follow its answer. The file-driven handlers are here as well: they name an
  identifier and leave no row.
* **CashAccount**: months of offices; the verification's batch, one sheet row for each kept
  head with the balance carried by `PrevClosing`, both reversions, the PrAO check and copy, a
  transfer entry arriving in a month, and the lists over all of it.
* **TransferEntry**: entries made by a PAO, their heads of account checked or not. The entry's id is its
  second of creation, so two can collide. Verification calls the budget first.
* **TeWorkflow**: entries made by a DDO: the handler's check and start, and the durable
  workflow with its nexus calls and retried last activity. **ApprovalSaga** is what it
  promises, from the three ledgers' side; TeWorkflow implements it (`Saga`, `ImplementsSaga`).
* **InterPao**, **Objection**, **Remuneration**: one action per statement, each taken by an officer who
  holds the page or the figures read earlier. **ListShapes** gives for every list handler what
  tells its rows apart, its order, and how it reads `skip`; **Lists** walks such a list while
  its rows change. **Registers** puts the four side by side: they share no table, so each
  behaviour exercises one.

### Go tools

* **GoFiles** is a source tree as parsed: imports, structs, functions as sequences of
  statements, FX modules, configuration keys. **GoPatch** is the import editing.
* **LintRules**, **LintRun**: each rule as the set of paths it reports; the
  selection by set, rule and scope; settings; exit code; the three audits.
* **SpecView**, **FxWire**, **Templates**, **Scaffold**: a resource specification is corrected
  and refused, names are derived, files are rendered as declarations, a plan is made, checked
  for clashes and written file by file while `Edits` change the tree between any two steps.
* **RouteInventory**: what a service declares, read as the inventory reads it and as the router
  would build it; saves that fail half-way; the comparison after conversion steps.

### Agent

* **SessionLog**: the log, journal and summary of one session. `Record` is `Session.record`
  with its flush and summary write in one step, under its lock; `CrashInFlush` is the place
  where a kill cuts it. `FollowUp` changes the status in memory and not the summary.
* **EventStream** EXTENDS it: `Resume` runs the `_stream` generator to its next suspension, so
  events are recorded between any two frames; `Take` is an iteration of the follow loop,
  `KeepAlive` its timeout, `Receive` is `SessionState.ingest`. A frame sent and lost is one not sent.
* **Approvals**: the worker's wait, pop, give-up and two reads of `approved` are separate steps;
  so are a handler's find, check, store and set, and an abort's three. Handlers do not await
  after parsing their body, so they are not interleaved with each other.
* **SessionRuns**: `status`, the message queue, each run's worker and the first-in-first-out
  callbacks. A handler is one step; the worker's end of run is five.
* **Metering**: every `await` of reserve, reconcile and release is a step boundary where the
  caller may leave and the store may fail. `Apply` is the Lua script. The ledger is told by an
  await of its own, after the reservation is closed (`Record`); a write that fails is swallowed
  and counted (`RecordFails`), and may have stored the row all the same. Time stands still.

MC modules give TLC the values of constants, and three of them (MCReversion, MCCashAccount,
MCTransferEntry) choose between loads: requests one at a time over more days, months or
seconds, or two at once over one of them; MCReversion has a third, where a day comes back.
MCEventStream chooses a session's fate in the same way: watched, or killed.

## 3. What the runs check

| run | bounds | what holds |
|---|---|---|
| `cashbook` | 1 office and day, 2 requests at once, 1 fault or outdated lists; or 2 offices in one list, a request at a time; 2 submissions, 2 verifications, contents with a rounding line, without entries, with an unmapped code | `OneSubmissionInFlight`: the 50 seconds of the lease outlive the three calls of at most 15 each. `BookedTwiceOnlyAfterALoss`: two live entries of a day mean that the first outcome was not recorded, or that the second was a re-submission or came with an outdated list. `FinalFlagsAreTrue`: flags written late or by another request are still PFMS's answer to the entry they name. `EntriesBalance`: office by office |
| `reversion` | 1 office, 1 reversion: one day or two in one entry with a fault, 2 identifiers; or 3 and no fault, where a reverted day comes back and is submitted again; or two requests at once for one day, 2 identifiers; or one at a time for one day, from lists however old | `NothingForgotten`: an entry that was logged is found under a day, a reversion row or a file's answer, apart from what a reversion lost and what a resubmission or an outdated list wrote over. `ShownMeansBooked`, `NegativeIsPosted` |
| `cash_account` | 1 PAO, 2 offices, one with two months, 1 reversion, 1 transfer entry, 1 fault | `BroadSheetChain`: months of one year verified in order carry their balance. `SheetMatchesDetail`, `PraoAgrees`, `NothingVanishes` |
| `transfer_entry` | a batch of a budget and a suspense head, one request at a time over 2 seconds (so ids collide or not, and two entries may share a posting), 2 identifiers; or 2 requests at once in one second, 3 identifiers; 1 fault | `BudgetFollowsVerification`, `PostedTwiceOnlyWhenAdrift`, `ShownMeansHeld`, `NegativeOnceAndBooked`; `adrift` and `contested` are histories of what broke the record: a lost answer, a reset, two officers at once |
| `te_workflow` | 2 approvals of an entry with 2 budget lines, 1 of an entry without, 3 faults | `CompletedMeansAgreed`, `PostedMeansPaid`, `EndsOrIsPosted`, `ImplementsSaga` |
| `registers` | 3 PAOs, 2 officers, batches that balance and one that does not; 2 objections; 2 rates; lists of 3 rows in pages of 1, 2 or all, 2 changes | `EntryMovesTogether`, `ApprovedStaysApproved`, `OpenIsFound`, `PaidAtAnApprovedRate`, `ReadingIsComplete` |
| `tools` | a seed and 3 specifications (one refused), an empty tree and a CRLF one, an edit for each rule, 2 turns and 1 failed write; three settings (defaults, severities moved and rules disabled, thresholds raised); 2 conversion steps and 2 saves | `TreeIsKept`, `ScaffoldedServes`, `FindingsAreTheEdits`, `AuditsAgree`, `ComparedTruly` |
| `scaffold_time` | the same trees and specifications | finds a counterexample, see section 6 |
| `event_stream` | 1 window, 2 runs, 1 work event and 1 broken link; or 2 runs, 2 work events, 1 path, 2 kills; flush at 3 (32 in the code) | `InOrderOnce`, `WatchersLearnTheEnd`, `CrashCostsLittle`, `JournalMirrorsLog` |
| `approvals` | 1 call, timeout of 1 tick, 2 extensions | `OnlyAnAcceptanceRuns`, `NoRefusalBeforeThePromise`, `AbortStopsTheRun` |
| `session_runs` | 2 messages, 1 resume | `LostOnlyWhenOvertaken`, `EveryMessageIsRead` |
| `metering` | 3 deliveries, two of one key, 2 series, bills below and above the estimate, 1 failing store call or ledger write, memory of 1 settled reservation | `SettledExactly`: charged its bill and told to the ledger once (a row, or a write counted as dropped), or nothing. `SpendIsWithinLimits` |

**Why the bounds are enough.** A race of the backend needs two requests on one row; offices
and days share nothing, except days sent in one entry and months of one balance chain, for
which there are two. Two identifiers let an old submission meet a newer one or its re-submission,
three let it be re-submitted after a day of it came back in another. One failed write
or lost answer at every possible place is what the error paths distinguish. A unit of time is seven and
a half seconds: with 7 units of lease (50 seconds, rounded up) against three calls of at most 2 the lease just suffices while the statements around them take less than a
unit (`DbLimit` is 0); that is the assumption `OneSubmissionInFlight` rests on, and the code
does not enforce it. In `reversion` time is shortened to a lease of one unit and calls of
none, which keeps the order of the two. Three rows
tell a missed row from a shifted one. Rules read one file, or one file and the settings, or the bootstrap file and the constructors, so one
edit for each way a rule can fire, two at a time, shows what they report and what they let pass.
Two agent runs are what a follow-up, a rescued message or a reused id need; two kills let a
daemon append behind a line a kill cut. The handlers of one approval touch no other.

**Deadlock** is not checked: every model is a system that rests when nobody asks for anything,
and each has bounded work.

**Fairness.** *TeWorkflow*: a started workflow is run by Temporal, which replays it after a crash;
the handler that starts it promises nothing. *EventStream*: the worker finishes a run that
is ending, the event loop settles it and runs each generator that has something to do, and a
client that takes the run to be running reconnects, its backoff being finite. *Approvals*: the
worker runs, a handler that started finishes, the clock moves; nobody has to decide.
*SessionRuns*: callbacks and the tail of a run are executed, questions are answered (the
approval's timeout), and a run that can end again and again does (the turn limit). The other
backend models state no liveness: PFMS need not answer and no officer need act.

## 4. What the models assume

* An officer verifies and reverts what a list shows, as it was when it was opened; a submission may
  name any cash books and a re-submission any logged entry, from lists however old.
* PFMS gives a transfer entry number exactly when it reports success, and its answer to an
  entry does not change.
* A failed write leaves the row as it was; a failed write of a file fails before the file is opened.
* `RepoEOL` decides by majority over all files rather than the first twelve it meets.
* Names that differ in their case alone are one name in the route inventory.
* Temporal replays a workflow exactly and keeps its history.
* `build_loop` returns; one gateway process; Redis runs a script atomically.

## 5. What is proved

`CashbookProofs.tla`, from `CashbookAssumption`: any offices, days, contents, requests and bounds,
any lease and call limit; a poll takes at least one identifier and a request names at least one day.

* `FlagsAreTrue` (`FinalFlagsAreTrue`). Rows are written from what a request read earlier, so the
  invariant says what each request carries: a verification the day as received, a submission its
  own entry, a poll an identifier PFMS knows and, if the flag it read is final, PFMS's answer. An
  answer does not change (section 4), so what is carried stays true however late it is written.

  Two more are about the lease of `TryStartSubmission` and need hypotheses on time.
* `OneSubmissionAtATime` (`OneSubmissionInFlight`) from `LongLease`: the lease is longer than three
  calls and two stretches of statements. In seconds: 50 against three calls of at most 15, so the
  statements between the leasing and the first call, and those behind the last, have less than
  2.5 each. Nothing in the code enforces that, so it is a hypothesis and no assumption of the
  module. `LeaseInv` says that at each place of a submission enough of the lease is left for
  what is still to come (`Timed`), so two holders share no day (`Apart`).
* `BookedOnceUnlessLost` (`BookedTwiceOnlyAfterALoss`) from `LongerLease`, a third stretch: a
  submission of several days may wait for one that another request records meanwhile
  (`WaitIsCovered`). An entry not named by its rows is in the hands of the request that posted it.
  A submission of a pending list finds the days of every recorded entry either generated, and then
  its list was outdated, or leased for longer than it may wait.

* `EveryEntryBalances` (`EntriesBalance`), from nothing on time: the totals of each office survive the
  turning of signs (`ProcessingKeepsTotals`) and the leaving out of empty lines (`DetailsKeepTotals`),
  its cash line makes up its difference and no other's (`ClosingAdds`), and `BalanceInv` says that the
  cash books an entry was made of are not replaced, so the closing balances it used stand. `ReversalMirrors`: a
  negative entry nets to minus its original, which is what Reversion records.

  The second half is about Reversion, with every request of Cashbook beside; the first two are from
  nothing on time.
* `NegativesArePosted` (`NegativeIsPosted`), `ShownAreBooked` (`ShownMeansBooked`). A request that
  logs an identifier is the only one that has it (`OwnEntry`) and has written its rows before.
  `RevInv` therefore has: what a reversion or a negative entry names is logged and, once the
  deletion took its only cash book away, is in nobody's hands (`Tells`, `Stands`), although the
  officer's rows were prepared from what was logged before (`Reverting`).
* `WhatIsLoggedIsFound` (`NothingForgotten`) from `LongerLease`. `FoundInv` says that a logged entry
  is told of by a reversion or stands in a row nobody writes over (`Traced`, `Secure`). Such a row
  is generated, so no list shows it as pending any more; a submission of an earlier list finds it
  leased for longer than it may wait (`Doomed`). What is left is a resubmission, which takes no lease,
  a submission whose list was outdated when it came (`TakenOver`), and a
  deletion: it carries off the identifiers it will write down, or the day is in `crossed` or the
  entry in `unsaved`. Deletions take rows, and their leases, away: `ClockInv` is the argument about
  the lease for the days no deletion crossed.

`CashAccountProofs.tla`, from `CashAccountAssumption`: any finite set of accounts, each an office and
a month of 1 to 12, any finite set of heads of any kind, whole amounts, any requests, verifications,
reversions and faults.

* `NothingVanishesUnrecorded` (`NothingVanishes`): `VanishInv` follows an account the sub-accounts
  did not delete from their answer, through the steps of the reversion that holds it, to the audit
  row. `unlogged` (the row could not be stored, which the code only logs) and `legacy` (the older
  reversion, or a deletion left half-way) are histories of what the code itself does not record.
* `SheetFollowsDetail` (`SheetMatchesDetail`): `RowsInv` relates the rows an account has in the four
  tables head by head. Its batch writes them at once; the tracked deletion removes them at once. The views
  follow since a list in descending order of months holds every month (`EveryMonthHasAPlace`).
* `BroadSheetIsAChain` (`BroadSheetChain`): `ChainInv` states the chain for the order in which rows were
  verified, and a batch adds rows behind all others, each opening with what the last month before it
  closed with (`ChainGrows`). In one year the order of the numbers MMYYYY is that of the months; over two
  years it is not (section 6), which is why the property speaks of one.
* `SubmittedIsTheSum` (`PraoAgrees`). The PrAO account is checked, summed and copied in steps, so
  `SubInv` says that the sum a request holds, and the copy that is stored, is the sum of what is
  verified as long as nothing of the month changed since the check (`changed`). `SourceInv` says
  which content a verification under way carries. What is shown as sent may differ when an account came
  back with other contents after an officer fetched it (`SaidOnce`), which the property excepts.

`RegistersProofs.tla`, from the assumptions of the registers: any offices, officers, entries,
objections, rates. One invariant for each register; a step of one leaves the others alone.

* `EntriesMoveTogether`, `ApprovalsStay` (`ApprovedStaysApproved`, an action property): bookings of an identifier are
  numbered without gaps, so a new one touches no old row, and an officer's page was opened on a
  row that could still be answered (`PageWasOpen`).
* `OpenObjectionsAreFound` (`OpenIsFound`), `RatesWereApproved` (`PaidAtAnApprovedRate`).

Its second half is about TeWorkflow, from `TeWorkflowAssumption` alone: any sets of approvals, budget lines and
entries, any number of approvals of one entry, any bound on faults.

* `TypeCorrect`, `Completed` (`Spec => []CompletedMeansAgreed`), `Paid`
  (`Spec => []PostedMeansPaid`). Neither property is inductive: nothing in them says what is
  true of an approval that is half-way. The invariant `IInv` says for each place of the
  workflow and each result what has been consumed and told (`Known`), and that only a workflow
  at its last activity or verified has rows (`Shaped`). The lemma `OneMoves` reduces a step of
  one approval to that approval; then there is a lemma for each action.
* `Implements` (`Spec => ImplementsSaga`): a step of a guarded approval is a step of the saga
  or a stutter, a step of another is a stutter. `Promised`: the saga's promise under this mapping.

`TransferEntryProofs.tla`: any batches, requests, seconds, identifiers and faults.

* `RowsTellTheTruth` (`ShownMeansHeld`), `OnePostingEach` (`PostedTwiceOnlyWhenAdrift`),
  `OneNegativeEach` (`NegativeOnceAndBooked`). The properties speak of PFMS, the code decides by
  its tables. `TeInv` ties them: a posting that counts is named by the rows of its entries or by the
  request about to write it, requests that post share no entry, and each of these holds
  for the entries that are not adrift. `CheckedHeadsArePosted` and `YearsAgree` are lemmas about
  the check of a batch: what passes it is posted whole, under one financial year.
* `BudgetFollows` (`BudgetFollowsVerification`), from batches that are finite. `BudgetInv`: of an
  entry that is not contested one request decides, it holds the lines as they are, and the
  budget has their sum from its answer to the update, what is verified before and after.

`SessionRunsProofs.tla`: any set of messages, any number of resumes.

* `NoMessageIsLost` (`LostOnlyWhenOvertaken`): unless a run was overtaken, its worker is the only
  one, and the callback that delivers a rescued message is behind the one that makes the
  session idle (`SettledFirst`); each message is at one place (`Carried`).

`SessionProofs.tla`, from `LogAssumption`: any paths, buffer size, runs and kills, any windows
and broken links.

* `CrashesCostLittle` (`CrashCostsLittle`). What a kill takes depends on what earlier kills left
  behind, so `LogInv` is about the live daemon's three copies: an event in memory that is neither
  in the file nor in the buffer (`Lost`) is the one glued to a torn line, of which there is at
  most one in each life, and nothing a kill must not take waits in the buffer.
* `JournalMirrors` (`JournalMirrorsLog`). The history variable `n` numbers what happened, and
  `Orders` says that memory, file and buffer are each in that order, the buffer behind the file.
  `Untold` is about what the file alone holds: older than all of memory while the journal waits to
  be read back, which is why `Hydrate` may put it in front; afterwards memory names another event by
  its id, which the property's hypothesis excludes. `ReadsInOrder` is what `Restored` computes, by
  descent to a least prefix on which it were wrong.
* `EventsInOrderOnce` (`InOrderOnce`). EventStream has no kills, so an event's id is its place in
  the log (`Numbered`). Up to its cursor a window has every event or can say why not
  (`Ingested`); behind it an event is still to be replayed, queued, or was recorded while a
  replay was being sent (`Replaying`, `Following`); a queue is in order of ids, though a delta or
  a relayed quota carries the id of the event after it (`Queued`).
* `StreamsServeTheLog` (`StreamSpec => LogSpec`): a step of EventStream is one of the log or
  leaves it as it is, so `CrashCostsLittle` and `JournalMirrorsLog` hold of the streamed log too.

Its second half is about Approvals, from `ApprovalAssumption` alone (timeout and extensions are naturals,
the set of calls is arbitrary). The two models share no variable.

* `TypeCorrect`: the strengthening `Shape` says that a thread past its first step names a call.
* `NothingRunsUnaccepted` (`OnlyAnAcceptanceRuns`): `ApprovedByAnAnswer` says that whenever
  `approved` is true an acceptance was stored, whatever a timeout, abort or release does.
* `ExtensionsAreHonoured` (`NoRefusalBeforeThePromise`): `PromiseIsKept` bounds every promised
  age by the deadline of the current number of extensions, which only grows (`DeadlineGrows`).
* `EveryRefusalHasACause`: `HandlerDoesWhatItWasAsked` ties what a handler stores to what it
  was asked; `DecidedForACause` says that a decision that is set and not approved has a rejection,
  an abort or a timeout behind it.

`MeteringProofs.tla`, from `MeteringAssumption`: any deliveries, keys, estimate, bills and outages,
any series in an order without repetition.

* `ChargedExactly` (`SettledExactly`): `MeterInv` says for each place of the relay, the
  settlement and the release what each series has been charged, up to the series reached, and
  that a closed reservation whose ledger row is still to be written stands at its bill (`Owing`).
* `SpentWithinLimits` (`SpendIsWithinLimits`): what estimates cover stays within each ceiling
  (`WithinEstimates`), since the script admits a delivery only when all charges, which cover
  the others, leave room for it; the overshoot of single answers is what comes on top.

`Sums.tla` is what all these sums are: `SumOf(f, S)` takes one element after the other, as a function of
the subsets of `S`, since the prover cannot read the folds' operator arguments. Its lemmas, by
descent to a least set on which the sum were wrong, say it is a number, adds up, and is monotone.

**Only model-checked.** Liveness (`WatchersLearnTheEnd`, `AbortStopsTheRun`, `EveryMessageIsRead`)
and `ENABLED` are out of the prover's reach.
The Go tools compute finite functions of a tree, which TLC evaluates, as it does the
pages of `ReadingIsComplete`.

## 6. Where code and comments disagree

One run is expected to find a counterexample to a sentence of the source.

* `scaffold_time`: `tools/spec/view.go:237-242` decides whether a scaffolded handler imports
  `time`, saying that only the update path names `time.Time`. The template's list path names
  it as well (`scaffold/templates/resource/handler.go.tmpl:63-64`), for a filter over a time
  or date; a specification with such a list and no update renders a handler that does not compile.

Met while modelling, in the models, and told here rather than run:

* *Backend.* `handler/paogen.go:570` checks the opening balance and inserts in a later
  statement; with two requests the chain of daily balances can break, so no run claims it.
  `FetchPfmsHandler` (`:1652-1720`) asks for no status: a list opened before its days were booked
  books them again, under an identifier that replaces the first. A re-submission takes no lease: two
  at once, or one over a day that came back, leave an entry that no row names (`TakenOver`). A submission that could not be stored in `pfms_submission`
  (`:1938`) is forgotten when its day is reverted. `handler/paogen.go:601-604` compares a lower-cased flag with
  "Pending" and "Failed", so the check never fires. "Negative entry
  already posted for this date" (`:5272`) looks at one reversion row, so an identifier that is reverted
  twice can be negated twice. A row classified WAIT (`:4814`) never becomes NO, so it is not among the pending ones the
  listing promises. Reverting from a file names the first day's identifier only.
  `TryStartSubmission` compares with `sql.ErrNoRows`. "prao account already submitted"
  (`:2476`) is also answered when only the details were copied. A reversion goes on, and is
  answered with success, when the sub-accounts are not reached.
* *Lists.* `skip` is documented as a number of records (`handler/paogen.go:412`,
  `docs/swagger.yaml:3198`) and used as a page number (`repo/postgres/paogen.go:235`). Several
  orders are not total. The broad sheet orders months as MMYYYY numbers, so balances of two
  years do not chain (`repo/postgres/paogen.go:774`).
* *Transfer entries.* `repo/postgres/transferentry.go:957-958`: when an entry has no
  budget to give back, a workflow whose sub-account step answered with an error falls through and posts
  the entry. A sub-account step that cannot be started leaves the budget consumed (`:949-950`). The budget answers for each line: when one lacks funds the workflow
  returns "Insufficient funds" as completed and the lines that were consumed stay consumed (`:912-924`). The mirrored
  payload of a negative (`handler/transferentry.go:3908-3926`) turns both the amount and the
  sign. Ids are the PAO's code and the second. Master approval of an inter-PAO entry offers
  rows again whatever their status.
* *Go tools.* "every route in the saved inventory is still registered"
  (`cmd/gotools/routes.go:95`) is also printed when a lost route's method has a namesake (`routes/routes.go:186-188`); a group passed as a parameter, a
  constructor in another file and two appended prefixes are misread. A plain registration of a handler counts
  as already registered. The route "ok" of an audit for a method that batches in a loop is a
  finding of `RepoBatchInLoop`. Scaffolded updates use NOW(), which `repo-sql-now` warns about,
  and identifiers in a URI are unbounded for `request-validate-depth`. "An unscoped run blocks on
  everything" has an exception for secrets in a configuration file. `--only` ignores the
  disabled rules and the legacy set. Any `.Get("literal")` counts as a configuration key.
* *Agent.* A session restored from disk numbers new events from 1 until its journal is read,
  and `hydrate` then drops old events by id (`agent/session.py:316-320`). QUOTA is transient but not
  on the lists that `_stream` and `ingest` use, so the FINISH behind it is skipped
  (`agent/loopback.py:1349-1368`). A decision can be answered 200 while the worker gives up
  between the check and the set (`:926-936`). A message rescued by an old run's worker is dropped
  when that worker closed the new run's queue (`:468-474`). A duplicate delivery that
  reads a claim before its reservation is opened is charged too (`gateway/quota/policy.py:241-256`).
  `InOrderOnce`, `JournalMirrorsLog`, `LostOnlyWhenOvertaken` and `SettledExactly` state what is left of these promises.

## 7. Not modelled

* Backend: file blobs of objections, single-field validators, wiring, route tables, generated
  swagger and protobuf code, CSV and report wording, test endpoints, office master maintenance,
  the expenditure reports. Most statements are single reads of one table.
* Go tools: the knowledge base, the repository map, the library catalogue and the stdio
  server's dispatch; text, formatting and line numbers everywhere.
* New service template: one row, one statement per operation.
* Gateway: quota windows with a clock, sign-in, routing, the bounded in-memory ledger and the
  ledger's totals. They need time on top of Metering's interleavings or an identity provider.
* Agent: the loop's turns (what it does is what the language model asks for), the gate, undo,
  context and compaction, tools, the LLM client. Extension views and processes.

They keep no state that two steps of two actors share, or are reached only through a service
whose behaviour the repository does not fix.
