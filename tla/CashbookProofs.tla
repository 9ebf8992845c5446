----------------------------- MODULE CashbookProofs -----------------------------
(***************************************************************************)
(* What holds of the daily cash book for every set of offices, days,       *)
(* contents, requests and threads: a final answer in pfms_main or          *)
(* pfms_submission is the one PFMS gave to that very entry.                *)
(*                                                                         *)
(* The inductive invariant says what each request carries (a verification  *)
(* the received cash book, a submission its own entry, a status request an *)
(* identifier PFMS knows and, when final, its true answer) and what each   *)
(* row may name.  It is preserved action by action; most steps are of one  *)
(* request and leave the entries at PFMS alone, which RequestAlone states  *)
(* once.                                                                   *)
(*                                                                         *)
(* Then: two submissions never work on the same cash book, and PFMS books  *)
(* one twice only after a loss, while the lease is long enough; and what   *)
(* PFMS receives closes.  Then Reversion: what is reverted or negated      *)
(* beside all this, and at the end that no logged entry is forgotten,      *)
(* which takes up the argument about the lease again.                      *)
(***************************************************************************)
EXTENDS Reversion, FiniteSetTheorems, SequenceTheorems, WellFoundedInduction, TLAPS

--------------------------------------------------------------------------------
(* What the rows and the requests look like. *)

MainFields   == {"ver", "gen", "flag", "uid", "opening", "closing", "lease", "at"}
PfmsFields   == {"by", "cbs", "amount", "of", "st", "late"}
WriteFields  == {"op", "pc", "book", "content"}
SubmitFields == {"op", "pc", "cbs", "left", "uid", "age", "late"}
FollowFields == {"op", "pc", "uid", "flag", "left"}
Final        == {"Success", "Failed"}
States       == {"built", "sent", "refused", "Pending"} \cup Final

SubmRow == [uid : Nat, type : {"cb"}, cbs : Seq(Books) \ {<< >>}, day : Nat, status : States, of : {0}]

RowsOK ==
  /\ IsFiniteSet(DOMAIN kafka) /\ DOMAIN main \subseteq DOMAIN kafka
  /\ \A b \in DOMAIN main : DOMAIN main[b] = MainFields /\ main[b].lease \in Nat /\ main[b].gen \in BOOLEAN
  /\ \E n \in Nat : DOMAIN pfms = 1..n
  /\ \A u \in DOMAIN pfms : DOMAIN pfms[u] = PfmsFields /\ pfms[u].st \in States /\ pfms[u].cbs \in Seq(Books)
                           /\ pfms[u].by \in {"submit", "resubmit"}
  /\ subm \in Seq(SubmRow)

\* A verification writes what the sub-accounts system sent.
Writes(t) ==
  /\ req[t].op \in {"verify", "verify_empty"} /\ DOMAIN req[t] = WriteFields
  /\ req[t].book \in DOMAIN kafka /\ req[t].content = kafka[req[t].book]

\* A submission has cash books to lease and, once built, one entry at PFMS, its own.
Submission_(t) ==
  /\ Submits(t) /\ DOMAIN req[t] = SubmitFields
  /\ req[t].pc \in {"lease", "read", "login", "post", "record", "log"}
  /\ req[t].cbs \in Seq(Books) /\ req[t].cbs # << >>
  /\ req[t].left \in Seq(Books) /\ (req[t].pc = "lease" => req[t].op = "submit" /\ req[t].left # << >>)
  /\ req[t].age \in Nat

\* A request that asks PFMS carries identifiers PFMS knows, and a final answer to one is true.
Follower(t) ==
  /\ Follows(t) /\ DOMAIN req[t] = FollowFields
  /\ req[t].pc \in {"ask", "main", "submission"}
  /\ req[t].left \in Seq(DOMAIN pfms)
  /\ req[t].pc = "ask" => req[t].left # << >>
  /\ req[t].pc # "ask" => /\ req[t].uid \in DOMAIN pfms /\ req[t].flag \in States
                          /\ req[t].flag \in Final => pfms[req[t].uid].st = req[t].flag

ReqOK == DOMAIN req = Threads /\ \A t \in Threads : Free(t) \/ Writes(t) \/ Submission_(t) \/ Follower(t)

\* A submission that has built its entry.
Sends(t) == Submits(t) /\ req[t].pc \in {"login", "post", "record", "log"}

Entries ==
  /\ \A t \in Threads : Sends(t) =>
       /\ req[t].uid \in DOMAIN pfms
       /\ pfms[req[t].uid].cbs = req[t].cbs /\ pfms[req[t].uid].by = req[t].op
       /\ pfms[req[t].uid].late = req[t].late
       /\ req[t].pc = "login" <=> pfms[req[t].uid].st = "built"
  /\ \A t, s \in Threads : Sends(t) /\ Sends(s) /\ req[t].uid = req[s].uid => t = s

Answers ==
  /\ \A b \in DOMAIN main :
       /\ main[b].uid # 0 => main[b].uid \in DOMAIN pfms /\ InBook(main[b].uid, b)
       /\ main[b].flag = "Pending" => main[b].uid \in DOMAIN pfms
       /\ main[b].flag \in Final => main[b].uid \in DOMAIN pfms /\ pfms[main[b].uid].st = main[b].flag
       /\ main[b].gen /\ main[b].uid = 0 =>
            /\ kafka[b].opening = 0 /\ kafka[b].closing = 0
            /\ main[b].opening = 0 /\ main[b].closing = 0
  /\ \A i \in DOMAIN subm :
       /\ subm[i].uid \in DOMAIN pfms
       /\ subm[i].status \in Final => pfms[subm[i].uid].st = subm[i].status

Inv == RowsOK /\ ReqOK /\ Entries /\ Answers

--------------------------------------------------------------------------------
(* Frames *)

\* Nobody's request but t's changes.
Alone(t) == DOMAIN req' = Threads /\ \A x \in Threads : x # t => req'[x] = req[x]

\* PFMS keeps its entries and its final answers.
Kept ==
  \A u \in DOMAIN pfms :
    /\ u \in DOMAIN pfms'
    /\ pfms'[u].cbs = pfms[u].cbs /\ pfms'[u].by = pfms[u].by /\ pfms'[u].late = pfms[u].late
    /\ pfms[u].st \in Final => pfms'[u].st = pfms[u].st

\* A cash book received is not replaced.
KafkaKept == \A b \in DOMAIN kafka : b \in DOMAIN kafka' /\ kafka'[b] = kafka[b]

(* Requests other than t stand still; their shape survives as long as PFMS keeps its *)
(* entries and final answers and no received cash book is replaced.                  *)
LEMMA Others ==
  ASSUME ReqOK, NEW t \in Threads, Alone(t), Kept, KafkaKept,
         Free(t)' \/ Writes(t)' \/ Submission_(t)' \/ Follower(t)'
  PROVE  ReqOK'
<1> SUFFICES ASSUME NEW x \in Threads, x # t PROVE Free(x)' \/ Writes(x)' \/ Submission_(x)' \/ Follower(x)'
  BY DEF ReqOK, Alone
<1>1. req'[x] = req[x]
  BY DEF Alone
<1>2. CASE Free(x)
  BY <1>1, <1>2 DEF Free
<1>3. CASE Writes(x)
  BY <1>1, <1>3 DEF Writes, KafkaKept
<1>4. CASE Submission_(x)
  BY <1>1, <1>4 DEF Submission_, Submits
<1>5. CASE Follower(x)
  <2>1. DOMAIN pfms \subseteq DOMAIN pfms'
    BY DEF Kept
  <2>2. req[x].left \in Seq(DOMAIN pfms')
    BY <1>5, <2>1 DEF Follower
  <2> QED BY <1>1, <1>5, <2>2 DEF Follower, Follows, Kept, Final
<1> QED BY <1>2, <1>3, <1>4, <1>5 DEF ReqOK

(* A submission that goes on to its next stage keeps its cash books and its identifier. *)
LEMMA Advance ==
  ASSUME ReqOK, NEW t \in Threads, Submission_(t), NEW pc, Goto(t, pc)
  PROVE  /\ Alone(t)
         /\ DOMAIN req'[t] = SubmitFields /\ req'[t].pc = pc /\ req'[t].age = 0
         /\ req'[t].op = req[t].op /\ req'[t].cbs = req[t].cbs /\ req'[t].left = req[t].left
         /\ req'[t].uid = req[t].uid /\ req'[t].late = req[t].late
BY DEF ReqOK, Submission_, Goto, Alone, SubmitFields

(* A request that ends leaves its thread idle and touches no other. *)
LEMMA Ends ==
  ASSUME ReqOK, NEW t \in Threads, Done(t)
  PROVE  Alone(t) /\ req'[t] = Idle
BY DEF ReqOK, Done, Alone

(* A step of one request that neither builds an entry nor writes the state of one *)
(* keeps every sender attached to the entry it built.                             *)
LEMMA EntriesStand ==
  ASSUME Entries, ReqOK, NEW t \in Threads, Alone(t), UNCHANGED pfms,
         Sends(t)' => /\ Sends(t) /\ req'[t].uid = req[t].uid /\ req'[t].cbs = req[t].cbs /\ req'[t].op = req[t].op
                      /\ req'[t].late = req[t].late
                      /\ req'[t].pc = "login" <=> req[t].pc = "login"
  PROVE  Entries'
<1>1. ASSUME NEW x \in Threads, Sends(x)'
      PROVE  /\ Sends(x) /\ req'[x].uid = req[x].uid /\ req'[x].cbs = req[x].cbs /\ req'[x].op = req[x].op
             /\ req'[x].late = req[x].late
             /\ req'[x].pc = "login" <=> req[x].pc = "login"
  BY <1>1 DEF Alone, Sends, Submits
<1> QED BY <1>1 DEF Entries

(* What the rows say of PFMS stays true while the rows stand still. *)
LEMMA AnswersStand ==
  ASSUME Answers, RowsOK, Kept, KafkaKept, UNCHANGED <<main, subm>>
  PROVE  Answers'
<1>1. \A u \in DOMAIN pfms : \A b : InBook(u, b) => u \in DOMAIN pfms' /\ InBook(u, b)'
  BY DEF InBook, Kept
<1>2. \A b \in DOMAIN main : b \in DOMAIN kafka /\ kafka'[b] = kafka[b]
  BY DEF RowsOK, KafkaKept
<1>3. ASSUME NEW b \in DOMAIN main
      PROVE  /\ main[b].uid # 0 => main[b].uid \in DOMAIN pfms' /\ InBook(main[b].uid, b)'
             /\ main[b].flag = "Pending" => main[b].uid \in DOMAIN pfms'
             /\ main[b].flag \in Final => main[b].uid \in DOMAIN pfms' /\ pfms'[main[b].uid].st = main[b].flag
             /\ main[b].gen /\ main[b].uid = 0 =>
                  /\ kafka'[b].opening = 0 /\ kafka'[b].closing = 0
                  /\ main[b].opening = 0 /\ main[b].closing = 0
  BY <1>1, <1>2 DEF Answers, Kept
<1>4. ASSUME NEW i \in DOMAIN subm
      PROVE  /\ subm[i].uid \in DOMAIN pfms'
             /\ subm[i].status \in Final => pfms'[subm[i].uid].st = subm[i].status
  BY DEF Answers, Kept
<1> QED BY <1>3, <1>4 DEF Answers

(* Untouched entries are kept. *)
LEMMA PfmsRests == UNCHANGED pfms => Kept
BY DEF Kept

(* Untouched cash books are kept. *)
LEMMA KafkaRests == UNCHANGED kafka => KafkaKept
BY DEF KafkaKept

(* Untouched rows keep their shape. *)
LEMMA RowsRest == RowsOK /\ UNCHANGED <<tables, pfms>> => RowsOK'
BY DEF RowsOK, tables

(* A step of one request that writes no row and nothing at PFMS. *)
LEMMA RequestAlone ==
  ASSUME Inv, NEW t \in Threads, Alone(t), UNCHANGED <<tables, pfms>>,
         Free(t)' \/ Writes(t)' \/ Submission_(t)' \/ Follower(t)',
         Sends(t)' => /\ Sends(t) /\ req'[t].uid = req[t].uid /\ req'[t].cbs = req[t].cbs /\ req'[t].op = req[t].op
                      /\ req'[t].late = req[t].late
                      /\ req'[t].pc = "login" <=> req[t].pc = "login"
  PROVE  Inv'
<1>1. Kept /\ KafkaKept
  BY PfmsRests, KafkaRests DEF tables
<1>2. ReqOK' BY <1>1, Others DEF Inv
<1>3. Entries' BY EntriesStand DEF Inv
<1>4. Answers' BY <1>1, AnswersStand DEF Inv, tables
<1> QED BY <1>2, <1>3, <1>4, RowsRest DEF Inv

--------------------------------------------------------------------------------
(* The steps of the requests *)

(* FetchDDOCashbookHandler and the checks of the verification handlers write nothing. *)
LEMMA EnterKeeps ==
  ASSUME Inv, NEW t \in Threads, NEW op \in {"verify", "verify_empty"}, NEW b, Enter(t, op, b)
  PROVE  Inv'
<1>1. b \in DOMAIN kafka /\ UNCHANGED <<tables, pfms>>
  BY DEF Enter
<1>2. Alone(t) /\ req'[t] = [op |-> op, pc |-> "write", book |-> b, content |-> kafka[b]]
  BY DEF Enter, Inv, ReqOK, Alone
<1>3. Writes(t)'
  BY <1>1, <1>2 DEF Writes, WriteFields, tables
<1>4. ~Sends(t)'
  BY <1>2 DEF Sends, Submits
<1> QED BY <1>1, <1>2, <1>3, <1>4, RequestAlone

(* FetchPfmsHandler begins with cash books to lease and no entry. *)
LEMMA StartSubmissionKeeps ==
  ASSUME Inv, NEW t \in Threads, NEW cbs \in Requests, StartSubmission(t, cbs)
  PROVE  Inv'
<1>1. UNCHANGED <<tables, pfms>> /\ Alone(t)
      /\ req'[t] = [op |-> "submit", pc |-> "lease", cbs |-> cbs, left |-> cbs, uid |-> 0, age |-> 0,
                    late |-> Outdated(cbs)]
  BY DEF StartSubmission, Inv, ReqOK, Alone
<1>2. cbs \in Seq(Books) /\ cbs # << >>
  BY CashbookAssumption
<1>3. Submission_(t)'
  BY <1>1, <1>2 DEF Submission_, Submits, SubmitFields
<1>4. ~Sends(t)'
  BY <1>1 DEF Sends, Submits
<1> QED BY <1>1, <1>3, <1>4, RequestAlone

(* FetchPfmsReSubmissionHandler begins with the cash books of a logged submission. *)
LEMMA StartResubmissionKeeps ==
  ASSUME Inv, NEW t \in Threads, NEW u, StartResubmission(t, u)
  PROVE  Inv'
<1>0. PICK l : l = \A b \in PfmsSubmissionStatus("Failed") : main[b].uid # u
  OBVIOUS
<1>1. PICK i \in DOMAIN subm : req' = [req EXCEPT ![t] = [op |-> "resubmit", pc |-> "read", cbs |-> subm[i].cbs,
                                  left |-> << >>, uid |-> 0, age |-> 0, late |-> l]]
  BY <1>0 DEF StartResubmission, GetCbRequestData
<1>2. UNCHANGED <<tables, pfms>>
  BY DEF StartResubmission
<1>3. Alone(t) /\ req'[t] = [op |-> "resubmit", pc |-> "read", cbs |-> subm[i].cbs,
                                  left |-> << >>, uid |-> 0, age |-> 0, late |-> l]
  BY <1>1 DEF Inv, ReqOK, Alone
<1>4. subm[i].cbs \in Seq(Books) /\ subm[i].cbs # << >>
  <2>1. subm[i] \in SubmRow
    BY DEF Inv, RowsOK
  <2> QED BY <2>1 DEF SubmRow
<1>5. Submission_(t)'
  BY <1>3, <1>4 DEF Submission_, Submits, SubmitFields
<1>6. ~Sends(t)'
  BY <1>3 DEF Sends, Submits
<1> QED BY <1>2, <1>3, <1>5, <1>6, RequestAlone

(* UpdatePfmsSubmissionStatusHandler carries the true state of the entry it asked for. *)
LEMMA AskStatusKeeps ==
  ASSUME Inv, NEW t \in Threads, NEW u, AskStatus(t, u)
  PROVE  Inv'
<1>1. UNCHANGED <<tables, pfms>> /\ Alone(t) /\ u \in DOMAIN pfms
      /\ req'[t] = [op |-> "status", pc |-> "main", uid |-> u, flag |-> pfms[u].st, left |-> << >>]
  BY DEF AskStatus, Inv, ReqOK, Alone
<1>2. pfms[u].st \in States
  BY <1>1 DEF Inv, RowsOK
<1>3. Follower(t)'
  BY <1>1, <1>2 DEF Follower, Follows, FollowFields
<1>4. ~Sends(t)'
  BY <1>1 DEF Sends, Submits
<1> QED BY <1>1, <1>3, <1>4, RequestAlone

(* UpdatePfmsHandler polls identifiers PFMS knows: a pending row names one, and there *)
(* is at least one pending row, so the list is not empty.                             *)
LEMMA StartPollKeeps ==
  ASSUME Inv, NEW t \in Threads, StartPoll(t)
  PROVE  Inv'
<1>a. PICK n : n = IF Cardinality(PendingRows) < PollLimit THEN Cardinality(PendingRows) ELSE PollLimit
  OBVIOUS
<1>b. PICK uids \in GetPendingPfmsUniqueIds :
        req' = [req EXCEPT ![t] = [op |-> "poll", pc |-> "ask", uid |-> 0, flag |-> "none", left |-> uids]]
  BY DEF StartPoll
<1>1. PICK s \in [1..n -> PendingRows] : uids = [i \in 1..n |-> main[s[i]].uid]
  BY <1>a, <1>b DEF GetPendingPfmsUniqueIds
<1>2. UNCHANGED <<tables, pfms>> /\ PendingRows # {}
  BY DEF StartPoll
<1>3. n \in Nat /\ n > 0
  <2>1. IsFiniteSet(DOMAIN main)
    BY FS_Subset DEF Inv, RowsOK
  <2>2. IsFiniteSet(PendingRows)
    BY <2>1, FS_Subset DEF PendingRows
  <2>3. Cardinality(PendingRows) \in Nat /\ Cardinality(PendingRows) # 0
    BY <1>2, <2>2, FS_CardinalityType, FS_EmptySet
  <2> QED BY <1>a, <2>3, CashbookAssumption
<1>5. uids \in Seq(DOMAIN pfms) /\ uids # << >>
  <2>1. \A i \in 1..n : main[s[i]].uid \in DOMAIN pfms
    <3>1. \A i \in 1..n : s[i] \in PendingRows
      OBVIOUS
    <3> QED BY <3>1 DEF PendingRows, Inv, Answers
  <2>2. uids \in [1..n -> DOMAIN pfms] /\ DOMAIN uids = 1..n /\ 1 \in 1..n
    BY <1>1, <1>3, <2>1
  <2>3. uids \in Seq(DOMAIN pfms)
    BY <1>3, <2>2, SeqDef
  <2>4. uids # << >>
    <3> SUFFICES ASSUME uids = << >> PROVE FALSE
      OBVIOUS
    <3>1. Len(uids) = 0
      BY EmptySeq
    <3>2. DOMAIN uids = 1..0
      BY <2>3, <3>1, LenProperties
    <3> QED BY <2>2, <3>2
  <2> QED BY <2>3, <2>4
<1>6. Alone(t) /\ req'[t] = [op |-> "poll", pc |-> "ask", uid |-> 0, flag |-> "none", left |-> uids]
  BY <1>b DEF Inv, ReqOK, Alone
<1>7. Follower(t)'
  BY <1>2, <1>5, <1>6 DEF Follower, Follows, FollowFields
<1>8. ~Sends(t)'
  BY <1>6 DEF Sends, Submits
<1> QED BY <1>2, <1>6, <1>7, <1>8, RequestAlone

(* The poll asks for the next identifier and carries the true answer. *)
LEMMA PollAsksKeeps ==
  ASSUME Inv, NEW t \in Threads, PollAsks(t)
  PROVE  Inv'
<1>1. Follower(t) /\ req[t].pc = "ask"
  BY DEF PollAsks, At, Inv, ReqOK, Free, Idle, Writes, Submission_, Submits
<1>2. PICK u : u = Head(req[t].left)
  OBVIOUS
<1>3. UNCHANGED <<tables, pfms>> /\ Alone(t)
      /\ req'[t] = [op |-> "poll", pc |-> "main", uid |-> u, flag |-> pfms[u].st, left |-> Tail(req[t].left)]
  BY <1>2 DEF PollAsks, Inv, ReqOK, Alone
<1>4. u \in DOMAIN pfms /\ Tail(req[t].left) \in Seq(DOMAIN pfms)
  <2>1. req[t].left \in Seq(DOMAIN pfms) /\ req[t].left # << >>
    BY <1>1 DEF Follower
  <2> QED BY <1>2, <2>1, HeadTailProperties
<1>5. pfms[u].st \in States
  BY <1>4 DEF Inv, RowsOK
<1>6. Follower(t)'
  BY <1>3, <1>4, <1>5 DEF Follower, Follows, FollowFields
<1>7. ~Sends(t)'
  BY <1>3 DEF Sends, Submits
<1> QED BY <1>3, <1>6, <1>7, RequestAlone

(* A request that stops where it stands writes nothing. *)
LEMMA StopKeeps ==
  ASSUME Inv, NEW t \in Threads, Stop(t)
  PROVE  Inv'
<1>1. UNCHANGED <<tables, pfms>> /\ Done(t)
  BY DEF Stop
<1>2. Alone(t) /\ req'[t] = Idle
  BY <1>1, Ends DEF Inv
<1> QED BY <1>1, <1>2, RequestAlone DEF Free, Sends, Submits, Idle

(* The answer of ReceiveTransferEntryData ends the request or moves it on. *)
LEMMA AnswerOfKeeps ==
  ASSUME Inv, NEW t \in Threads, NEW op \in {"submit", "resubmit"}, AnswerOf(t, op)
  PROVE  Inv'
<1>1. UNCHANGED <<tables, pfms>> /\ req[t].op = op /\ req[t].pc = "post"
  BY DEF AnswerOf, At
<1>2. Submission_(t)
  BY <1>1 DEF Inv, ReqOK, Free, Idle, Writes, Follower, Follows
<1>3. CASE Done(t)
  BY <1>1, <1>3, Ends, RequestAlone DEF Inv, Free, Sends, Submits, Idle
<1>4. CASE Goto(t, "record")
  <2>1. Alone(t) /\ DOMAIN req'[t] = SubmitFields /\ req'[t].pc = "record" /\ req'[t].age = 0
         /\ req'[t].op = req[t].op /\ req'[t].cbs = req[t].cbs /\ req'[t].left = req[t].left
         /\ req'[t].uid = req[t].uid /\ req'[t].late = req[t].late
    BY <1>2, <1>4, Advance DEF Inv
  <2>2. Submission_(t)'
    BY <1>1, <1>2, <2>1 DEF Submission_, Submits
  <2> QED BY <1>1, <2>1, <2>2, RequestAlone DEF Sends, Submits
<1> QED BY <1>3, <1>4 DEF AnswerOf

(* A step that leaves pfms, kafka and subm alone, and the named fields of main. *)
LEMMA MainWritten ==
  ASSUME Inv, UNCHANGED <<kafka, subm, pfms>>, DOMAIN main' = DOMAIN main,
         \A b \in DOMAIN main : /\ DOMAIN main'[b] = MainFields /\ main'[b].lease \in Nat /\ main'[b].gen \in BOOLEAN
                                /\ main'[b].uid = main[b].uid /\ main'[b].flag = main[b].flag
                                /\ main'[b].gen /\ main[b].uid = 0 =>
                                     /\ kafka[b].opening = 0 /\ kafka[b].closing = 0
                                     /\ main'[b].opening = 0 /\ main'[b].closing = 0
  PROVE  RowsOK' /\ Answers'
<1>1. RowsOK'
  BY DEF Inv, RowsOK
<1>2. \A u, b : InBook(u, b)' <=> InBook(u, b)
  BY DEF InBook
<1>3. Answers'
  BY <1>2 DEF Inv, Answers
<1> QED BY <1>1, <1>3

(* PostPfmsverifiedRepo writes the balances of the received cash book and no identifier. *)
LEMMA PostPfmsverifiedKeeps ==
  ASSUME Inv, NEW t \in Threads, PostPfmsverified(t)
  PROVE  Inv'
<1>1. Writes(t)
  BY DEF PostPfmsverified, At, Inv, ReqOK, Free, Idle, Submission_, Submits, Follower, Follows
<1>2. UNCHANGED <<kafka, subm, pfms>> /\ Done(t)
  BY DEF PostPfmsverified
<1>3. Alone(t) /\ req'[t] = Idle
  BY <1>2, Ends DEF Inv
<1>4. PICK b : b = req[t].book
  OBVIOUS
<1>5. RowsOK' /\ Answers'
  <2>1. CASE UNCHANGED main
    BY <1>2, <2>1, MainWritten DEF Inv, RowsOK, Answers
  <2>2. CASE b \in DOMAIN main /\ main' = [main EXCEPT ![b] = Verified(b, req[t].content)]
    <3>1. DOMAIN main[b] = MainFields /\ main[b].lease \in Nat /\ main[b].gen \in BOOLEAN
      BY <2>2 DEF Inv, RowsOK
    <3>2. main'[b] = [main[b] EXCEPT !.ver = TRUE, !.opening = kafka[b].opening, !.closing = kafka[b].closing, !.at = NextAt]
      BY <1>1, <1>4, <2>2 DEF Verified, Writes
    <3>3. /\ DOMAIN main'[b] = MainFields /\ main'[b].lease = main[b].lease /\ main'[b].gen = main[b].gen
          /\ main'[b].uid = main[b].uid /\ main'[b].flag = main[b].flag
          /\ main'[b].opening = kafka[b].opening /\ main'[b].closing = kafka[b].closing
      BY <3>1, <3>2 DEF MainFields
    <3>4. \A x \in DOMAIN main : x # b => main'[x] = main[x]
      BY <2>2
    <3>5. DOMAIN main' = DOMAIN main
      BY <2>2
    <3>6. \A x \in DOMAIN main : main[x].gen /\ main[x].uid = 0 =>
                                     /\ kafka[x].opening = 0 /\ kafka[x].closing = 0
                                     /\ main[x].opening = 0 /\ main[x].closing = 0
      BY DEF Inv, Answers
    <3>7. \A x \in DOMAIN main : /\ DOMAIN main[x] = MainFields /\ main[x].lease \in Nat /\ main[x].gen \in BOOLEAN
      BY DEF Inv, RowsOK
    <3> QED BY <1>2, <3>1, <3>3, <3>4, <3>5, <3>6, <3>7, MainWritten
  <2> QED BY <1>4, <2>1, <2>2 DEF PostPfmsverified
<1>6. ReqOK'
  BY <1>2, <1>3, Others, PfmsRests, KafkaRests DEF Inv, Free
<1>7. Entries'
  BY <1>2, <1>3, EntriesStand DEF Inv, Sends, Submits, Idle
<1> QED BY <1>5, <1>6, <1>7 DEF Inv

(* PostEmptyPfmsverifiedRepo sets the generated flag only of a day without balances. *)
LEMMA PostEmptyPfmsverifiedKeeps ==
  ASSUME Inv, NEW t \in Threads, PostEmptyPfmsverified(t)
  PROVE  Inv'
<1>1. Writes(t)
  BY DEF PostEmptyPfmsverified, At, Inv, ReqOK, Free, Idle, Submission_, Submits, Follower, Follows
<1>2. UNCHANGED <<kafka, subm, pfms>> /\ Done(t)
  BY DEF PostEmptyPfmsverified
<1>3. Alone(t) /\ req'[t] = Idle
  BY <1>2, Ends DEF Inv
<1>4. PICK b : b = req[t].book
  OBVIOUS
<1>5. RowsOK' /\ Answers'
  <2>1. CASE UNCHANGED main
    BY <1>2, <2>1, MainWritten DEF Inv, RowsOK, Answers
  <2>2. CASE b \in DOMAIN main /\ main' # main
    <3>1. DOMAIN main[b] = MainFields /\ main[b].lease \in Nat /\ main[b].gen \in BOOLEAN
      BY <2>2 DEF Inv, RowsOK
    <3>2. PICK row : row = [main[b] EXCEPT !.ver = TRUE, !.opening = kafka[b].opening, !.closing = kafka[b].closing, !.at = NextAt]
      OBVIOUS
    <3>3. /\ DOMAIN row = MainFields /\ row.lease = main[b].lease /\ row.gen = main[b].gen
          /\ row.uid = main[b].uid /\ row.flag = main[b].flag
          /\ row.opening = kafka[b].opening /\ row.closing = kafka[b].closing
      BY <3>1, <3>2 DEF MainFields
    <3>4. PICK g \in BOOLEAN : /\ g <=> row.gen \/ (kafka[b].opening = 0 /\ kafka[b].closing = 0)
                               /\ main' = [main EXCEPT ![b] = [row EXCEPT !.gen = g]]
      BY <1>1, <1>4, <2>2, <3>2 DEF PostEmptyPfmsverified, Verified, Writes
    <3>5. /\ DOMAIN main'[b] = MainFields /\ main'[b].lease = main[b].lease /\ main'[b].gen = g
          /\ main'[b].uid = main[b].uid /\ main'[b].flag = main[b].flag
          /\ main'[b].opening = kafka[b].opening /\ main'[b].closing = kafka[b].closing
      BY <2>2, <3>3, <3>4 DEF MainFields
    <3>6. \A x \in DOMAIN main : x # b => main'[x] = main[x]
      BY <3>4
    <3>7. DOMAIN main' = DOMAIN main
      BY <3>4
    <3>8. \A x \in DOMAIN main : main[x].gen /\ main[x].uid = 0 =>
                                     /\ kafka[x].opening = 0 /\ kafka[x].closing = 0
                                     /\ main[x].opening = 0 /\ main[x].closing = 0
      BY DEF Inv, Answers
    <3>9. \A x \in DOMAIN main : /\ DOMAIN main[x] = MainFields /\ main[x].lease \in Nat /\ main[x].gen \in BOOLEAN
      BY DEF Inv, RowsOK
    <3> QED BY <1>2, <3>1, <3>3, <3>4, <3>5, <3>6, <3>7, <3>8, <3>9, MainWritten
  <2> QED BY <1>4, <2>1, <2>2 DEF PostEmptyPfmsverified
<1>6. ReqOK'
  BY <1>2, <1>3, Others, PfmsRests, KafkaRests DEF Inv, Free
<1>7. Entries'
  BY <1>2, <1>3, EntriesStand DEF Inv, Sends, Submits, Idle
<1> QED BY <1>5, <1>6, <1>7 DEF Inv

(* GetPfmsUpdateStatusRepo gives each row an identifier whose entry holds its cash book, *)
(* and takes the old answer away.                                                        *)
LEMMA GetPfmsUpdateStatusKeeps ==
  ASSUME Inv, NEW t \in Threads, GetPfmsUpdateStatus(t)
  PROVE  Inv'
<1>1. Submission_(t) /\ req[t].pc = "record" /\ Sends(t)
  BY DEF GetPfmsUpdateStatus, Inv, ReqOK, Free, Idle, Writes, Submits, Follower, Follows, Sends
<1>2. /\ UNCHANGED <<kafka, subm, pfms>> /\ Goto(t, "log")
      /\ main' = [b \in DOMAIN main |->
                IF b \in Range(req[t].cbs) THEN Recorded(main[b], req[t].uid) ELSE main[b]]
  BY DEF GetPfmsUpdateStatus
<1>3. /\ Alone(t) /\ DOMAIN req'[t] = SubmitFields /\ req'[t].pc = "log" /\ req'[t].age = 0
      /\ req'[t].op = req[t].op /\ req'[t].cbs = req[t].cbs /\ req'[t].left = req[t].left
      /\ req'[t].uid = req[t].uid /\ req'[t].late = req[t].late
  BY <1>1, <1>2, Advance DEF Inv
<1>4. Submission_(t)'
  BY <1>1, <1>3 DEF Submission_, Submits
<1>5. ReqOK'
  BY <1>2, <1>3, <1>4, Others, PfmsRests, KafkaRests DEF Inv
<1>6. Entries'
  BY <1>1, <1>2, <1>3, EntriesStand DEF Inv, Sends, Submits
<1>7. PICK u : u = req[t].uid
  OBVIOUS
<1>8. u \in DOMAIN pfms /\ u # 0 /\ pfms[u].cbs = req[t].cbs
  BY <1>1, <1>7 DEF Inv, Entries, RowsOK
<1>9. ASSUME NEW b \in DOMAIN main, b \in Range(req[t].cbs)
      PROVE  /\ InBook(u, b) /\ DOMAIN main'[b] = MainFields /\ main'[b].lease = main[b].lease
             /\ main'[b].uid = u /\ main'[b].flag = "Pending" /\ main'[b].gen = TRUE
  <2>1. InBook(u, b)
    BY <1>8, <1>9 DEF InBook, Range
  <2>2. main'[b] = [main[b] EXCEPT !.uid = u, !.gen = TRUE, !.flag = "Pending"]
    BY <1>2, <1>7, <1>9 DEF Recorded
  <2>3. DOMAIN main[b] = MainFields
    BY DEF Inv, RowsOK
  <2> QED BY <2>1, <2>2, <2>3 DEF MainFields
<1>10. DOMAIN main' = DOMAIN main /\ \A b \in DOMAIN main : b \notin Range(req[t].cbs) => main'[b] = main[b]
  BY <1>2
<1>11. RowsOK'
  <2>1. ASSUME NEW b \in DOMAIN main
        PROVE  DOMAIN main'[b] = MainFields /\ main'[b].lease \in Nat /\ main'[b].gen \in BOOLEAN
    BY <1>9, <1>10 DEF Inv, RowsOK
  <2> QED BY <1>2, <1>10, <2>1 DEF Inv, RowsOK
<1>12. Answers'
  <2>1. ASSUME NEW b \in DOMAIN main
        PROVE  /\ main'[b].uid # 0 => main'[b].uid \in DOMAIN pfms /\ InBook(main'[b].uid, b)
               /\ main'[b].flag = "Pending" => main'[b].uid \in DOMAIN pfms
               /\ main'[b].flag \in Final => main'[b].uid \in DOMAIN pfms /\ pfms[main'[b].uid].st = main'[b].flag
               /\ main'[b].gen /\ main'[b].uid = 0 =>
                    /\ kafka[b].opening = 0 /\ kafka[b].closing = 0
                    /\ main'[b].opening = 0 /\ main'[b].closing = 0
    <3>1. CASE b \in Range(req[t].cbs)
      BY <1>8, <1>9, <3>1 DEF Final
    <3>2. CASE b \notin Range(req[t].cbs)
      BY <1>10, <3>2 DEF Inv, Answers
    <3> QED BY <3>1, <3>2
  <2>2. \A v, b : InBook(v, b)' <=> InBook(v, b)
    BY <1>2 DEF InBook
  <2> QED BY <1>2, <1>10, <2>1, <2>2 DEF Inv, Answers
<1> QED BY <1>5, <1>6, <1>11, <1>12 DEF Inv

(* The first statement of UpdatePfmsSubmissionStatusRepo writes an answer into the rows *)
(* of the very identifier it was given for.                                             *)
LEMMA UpdateStatusInMainKeeps ==
  ASSUME Inv, NEW t \in Threads, UpdateStatusInMain(t)
  PROVE  Inv'
<1>1. Follower(t) /\ req[t].pc = "main"
  BY DEF UpdateStatusInMain, Inv, ReqOK, Free, Idle, Writes, Submission_, Submits, Follows
<1>2. /\ UNCHANGED <<kafka, subm, pfms>> /\ req' = [req EXCEPT ![t].pc = "submission"]
      /\ main' = [b \in DOMAIN main |->
                IF main[b].uid = req[t].uid THEN [main[b] EXCEPT !.flag = req[t].flag] ELSE main[b]]
  BY DEF UpdateStatusInMain
<1>3. /\ Alone(t) /\ DOMAIN req'[t] = FollowFields /\ req'[t].pc = "submission"
      /\ req'[t].op = req[t].op /\ req'[t].left = req[t].left
      /\ req'[t].uid = req[t].uid /\ req'[t].flag = req[t].flag
  BY <1>1, <1>2 DEF Inv, ReqOK, Alone, Follower, FollowFields
<1>4. Follower(t)'
  BY <1>1, <1>2, <1>3 DEF Follower, Follows
<1>5. ReqOK'
  BY <1>2, <1>3, <1>4, Others, PfmsRests, KafkaRests DEF Inv
<1>6. Entries'
  BY <1>1, <1>2, <1>3, EntriesStand DEF Inv, Sends, Submits, Follower, Follows
<1>7. /\ req[t].uid \in DOMAIN pfms
      /\ req[t].flag \in Final => pfms[req[t].uid].st = req[t].flag
  BY <1>1 DEF Follower
<1>8. ASSUME NEW b \in DOMAIN main, main[b].uid = req[t].uid
      PROVE  /\ DOMAIN main'[b] = MainFields /\ main'[b].lease = main[b].lease /\ main'[b].gen = main[b].gen
             /\ main'[b].uid = main[b].uid /\ main'[b].flag = req[t].flag
             /\ main'[b].opening = main[b].opening /\ main'[b].closing = main[b].closing
  <2>1. DOMAIN main[b] = MainFields
    BY DEF Inv, RowsOK
  <2>2. main'[b] = [main[b] EXCEPT !.flag = req[t].flag]
    BY <1>2, <1>8
  <2> QED BY <2>1, <2>2 DEF MainFields
<1>9. DOMAIN main' = DOMAIN main /\ \A b \in DOMAIN main : main[b].uid # req[t].uid => main'[b] = main[b]
  BY <1>2
<1>10. RowsOK'
  <2>1. ASSUME NEW b \in DOMAIN main
        PROVE  DOMAIN main'[b] = MainFields /\ main'[b].lease \in Nat /\ main'[b].gen \in BOOLEAN
    BY <1>8, <1>9 DEF Inv, RowsOK
  <2> QED BY <1>2, <1>9, <2>1 DEF Inv, RowsOK
<1>11. Answers'
  <2>1. ASSUME NEW b \in DOMAIN main
        PROVE  /\ main'[b].uid # 0 => main'[b].uid \in DOMAIN pfms /\ InBook(main'[b].uid, b)
               /\ main'[b].flag = "Pending" => main'[b].uid \in DOMAIN pfms
               /\ main'[b].flag \in Final => main'[b].uid \in DOMAIN pfms /\ pfms[main'[b].uid].st = main'[b].flag
               /\ main'[b].gen /\ main'[b].uid = 0 =>
                    /\ kafka[b].opening = 0 /\ kafka[b].closing = 0
                    /\ main'[b].opening = 0 /\ main'[b].closing = 0
    <3>1. CASE main[b].uid = req[t].uid
      BY <1>7, <1>8, <3>1 DEF Inv, Answers
    <3>2. CASE main[b].uid # req[t].uid
      BY <1>9, <3>2 DEF Inv, Answers
    <3> QED BY <3>1, <3>2
  <2>2. \A v, b : InBook(v, b)' <=> InBook(v, b)
    BY <1>2 DEF InBook
  <2> QED BY <1>2, <1>9, <2>1, <2>2 DEF Inv, Answers
<1> QED BY <1>5, <1>6, <1>10, <1>11 DEF Inv

(* The second statement does the same in pfms_submission. *)
LEMMA UpdateStatusInSubmissionKeeps ==
  ASSUME Inv, NEW t \in Threads, UpdateStatusInSubmission(t)
  PROVE  Inv'
<1>1. Follower(t) /\ req[t].pc = "submission"
  BY DEF UpdateStatusInSubmission, Inv, ReqOK, Free, Idle, Writes, Submission_, Submits, Follows
<1>2. /\ UNCHANGED <<kafka, main, pfms>>
      /\ req' = [req EXCEPT ![t] = IF @.left = << >> THEN Idle ELSE [@ EXCEPT !.pc = "ask"]]
      /\ subm' = [i \in DOMAIN subm |->
                IF subm[i].uid = req[t].uid THEN [subm[i] EXCEPT !.status = req[t].flag] ELSE subm[i]]
  BY DEF UpdateStatusInSubmission
<1>3. Alone(t)
  BY <1>2 DEF Inv, ReqOK, Alone
<1>4. Free(t)' \/ Follower(t)'
  <2>1. CASE req[t].left = << >>
    BY <1>2, <2>1 DEF Free, Inv, ReqOK
  <2>2. CASE req[t].left # << >>
    <3>1. req'[t] = [req[t] EXCEPT !.pc = "ask"]
      BY <1>2, <2>2 DEF Inv, ReqOK
    <3>2. /\ DOMAIN req'[t] = FollowFields /\ req'[t].pc = "ask"
          /\ req'[t].op = req[t].op /\ req'[t].left = req[t].left
      BY <1>1, <3>1 DEF Follower, FollowFields
    <3> QED BY <1>1, <1>2, <2>2, <3>2 DEF Follower, Follows
  <2> QED BY <2>1, <2>2
<1>5. ReqOK'
  BY <1>2, <1>3, <1>4, Others, PfmsRests, KafkaRests DEF Inv
<1>6. Entries'
  BY <1>2, <1>3, <1>4, EntriesStand DEF Inv, Sends, Submits, Follower, Follows, Free, Idle
<1>7. /\ req[t].uid \in DOMAIN pfms /\ req[t].flag \in States
      /\ req[t].flag \in Final => pfms[req[t].uid].st = req[t].flag
  BY <1>1 DEF Follower
<1>8. subm \in Seq(SubmRow)
  BY DEF Inv, RowsOK
<1>9. ASSUME NEW i \in DOMAIN subm
      PROVE  /\ subm'[i] \in SubmRow /\ subm'[i].uid = subm[i].uid
             /\ subm'[i].status = IF subm[i].uid = req[t].uid THEN req[t].flag ELSE subm[i].status
  <2>1. subm[i] \in SubmRow
    BY <1>8
  <2>2. CASE subm[i].uid = req[t].uid
    <3>1. subm'[i] = [subm[i] EXCEPT !.status = req[t].flag]
      BY <1>2, <2>2
    <3> QED BY <1>7, <2>1, <2>2, <3>1 DEF SubmRow
  <2>3. CASE subm[i].uid # req[t].uid
    BY <1>2, <2>1, <2>3
  <2> QED BY <2>2, <2>3
<1>10. subm' \in Seq(SubmRow) /\ DOMAIN subm' = DOMAIN subm
  <2>1. Len(subm) \in Nat /\ DOMAIN subm = 1..Len(subm)
    BY <1>8, LenProperties
  <2>2. subm' \in [1..Len(subm) -> SubmRow]
    BY <1>2, <1>9, <2>1
  <2> QED BY <1>2, <2>1, <2>2
<1>11. RowsOK'
  BY <1>2, <1>10 DEF Inv, RowsOK
<1>12. Answers'
  <2>1. ASSUME NEW i \in DOMAIN subm
        PROVE  /\ subm'[i].uid \in DOMAIN pfms
               /\ subm'[i].status \in Final => pfms[subm'[i].uid].st = subm'[i].status
    BY <1>7, <1>9 DEF Inv, Answers
  <2>2. \A v, b : InBook(v, b)' <=> InBook(v, b)
    BY <1>2 DEF InBook
  <2> QED BY <1>2, <1>10, <2>1, <2>2 DEF Inv, Answers
<1> QED BY <1>5, <1>6, <1>11, <1>12 DEF Inv

(* InsertPfmsSubmission logs an identifier PFMS knows, as pending. *)
LEMMA FinishKeeps ==
  ASSUME Inv, NEW t \in Threads, NEW op \in {"submit", "resubmit"}, Finish(t, op)
  PROVE  Inv'
<1>1. Submission_(t) /\ req[t].pc = "log" /\ Sends(t)
  BY DEF Finish, At, Inv, ReqOK, Free, Idle, Writes, Submits, Follower, Follows, Sends
<1>2. UNCHANGED <<kafka, main, pfms>> /\ Done(t)
  BY DEF Finish
<1>3. Alone(t) /\ req'[t] = Idle
  BY <1>2, Ends DEF Inv
<1>4. ReqOK'
  BY <1>2, <1>3, Others, PfmsRests, KafkaRests DEF Inv, Free
<1>5. Entries'
  BY <1>2, <1>3, EntriesStand DEF Inv, Sends, Submits, Idle
<1>6. CASE UNCHANGED subm
  <2>1. RowsOK' /\ Answers'
    BY <1>2, <1>6, AnswersStand, PfmsRests, KafkaRests DEF Inv, RowsOK
  <2> QED BY <1>4, <1>5, <2>1 DEF Inv
<1>7. CASE InsertPfmsSubmission(t)
  <2>1. PICK row : row = Submission(req[t].uid, "cb", req[t].cbs, 0)
    OBVIOUS
  <2>2. subm' = Append(subm, row)
    BY <1>7, <2>1 DEF InsertPfmsSubmission
  <2>3. req[t].uid \in DOMAIN pfms /\ req[t].uid \in Nat
    BY <1>1 DEF Inv, Entries, RowsOK
  <2>4. row \in SubmRow /\ row.status = "Pending" /\ row.uid = req[t].uid
    <3>1. Len(req[t].cbs) \in 1..Len(req[t].cbs)
      BY <1>1, EmptySeq DEF Submission_
    <3>2. Last(req[t].cbs) \in Books
      BY <1>1, <3>1, ElementOfSeq DEF Submission_, Last
    <3>3. Last(req[t].cbs).day \in Nat
      BY <3>2, CashbookAssumption
    <3> QED BY <1>1, <2>1, <2>3, <3>3 DEF Submission, SubmRow, States, Submission_
  <2>5. subm \in Seq(SubmRow)
    BY DEF Inv, RowsOK
  <2>6. subm' \in Seq(SubmRow) /\ \A i \in DOMAIN subm' : (i \in DOMAIN subm /\ subm'[i] = subm[i]) \/ subm'[i] = row
    BY <2>2, <2>4, <2>5
  <2>7. RowsOK'
    BY <1>2, <2>6 DEF Inv, RowsOK
  <2>8. ASSUME NEW i \in DOMAIN subm'
        PROVE  /\ subm'[i].uid \in DOMAIN pfms
               /\ subm'[i].status \in Final => pfms[subm'[i].uid].st = subm'[i].status
    BY <2>3, <2>4, <2>6 DEF Inv, Answers, Final
  <2>9. \A v, b : InBook(v, b)' <=> InBook(v, b)
    BY <1>2 DEF InBook
  <2>10. Answers'
    BY <1>2, <2>8, <2>9 DEF Inv, Answers
  <2> QED BY <1>4, <1>5, <2>7, <2>10 DEF Inv
<1> QED BY <1>6, <1>7 DEF Finish

(* TryStartSubmission writes the lease of a row and nothing else of it. *)
LEMMA TryStartSubmissionKeeps ==
  ASSUME Inv, NEW t \in Threads, TryStartSubmission(t)
  PROVE  Inv'
<1>1. Submission_(t) /\ req[t].pc = "lease" /\ req[t].op = "submit"
  BY DEF TryStartSubmission, At, Inv, ReqOK, Free, Idle, Writes, Submits, Follower, Follows
<1>2. PICK b : b = Head(req[t].left)
  OBVIOUS
<1>3. UNCHANGED <<kafka, subm, pfms>>
  BY DEF TryStartSubmission
<1>4. CASE UNCHANGED main /\ Done(t)
  <2>1. Alone(t) /\ req'[t] = Idle
    BY <1>4, Ends DEF Inv
  <2>2. UNCHANGED <<tables, pfms>>
    BY <1>3, <1>4 DEF TryStartSubmission, tables
  <2> QED BY <2>1, <2>2, RequestAlone DEF Free, Sends, Submits, Idle
<1>5. CASE /\ b \in DOMAIN main
           /\ main' = [main EXCEPT ![b].lease = Lease]
           /\ req' = IF Len(req[t].left) = 1
                     THEN [req EXCEPT ![t].pc = "read", ![t].left = << >>]
                     ELSE [req EXCEPT ![t].left = Tail(@)]
  <2>1. /\ Alone(t) /\ DOMAIN req'[t] = SubmitFields
        /\ req'[t].op = "submit" /\ req'[t].cbs = req[t].cbs /\ req'[t].age = req[t].age /\ req'[t].late = req[t].late
        /\ IF Len(req[t].left) = 1 THEN req'[t].pc = "read" /\ req'[t].left = << >>
           ELSE req'[t].pc = "lease" /\ req'[t].left = Tail(req[t].left)
    BY <1>1, <1>5 DEF Inv, ReqOK, Alone, Submission_, SubmitFields
  <2>2. Submission_(t)'
    <3>1. CASE Len(req[t].left) = 1
      BY <1>1, <2>1, <3>1, EmptySeq DEF Submission_, Submits
    <3>2. CASE Len(req[t].left) # 1
      <4>1. Tail(req[t].left) \in Seq(Books) /\ Len(Tail(req[t].left)) = Len(req[t].left) - 1
        BY <1>1, HeadTailProperties DEF Submission_
      <4>2. Len(Tail(req[t].left)) # 0
        BY <3>2, <4>1
      <4>3. Tail(req[t].left) # << >>
        BY <4>2, EmptySeq
      <4> QED BY <1>1, <2>1, <3>2, <4>1, <4>3 DEF Submission_, Submits
    <3> QED BY <3>1, <3>2
  <2>3. ReqOK'
    BY <1>3, <2>1, <2>2, Others, PfmsRests, KafkaRests DEF Inv
  <2>4. Entries'
    BY <1>3, <2>1, EntriesStand DEF Inv, Sends, Submits
  <2>5. DOMAIN main[b] = MainFields /\ main[b].gen \in BOOLEAN
    BY <1>5 DEF Inv, RowsOK
  <2>6. /\ DOMAIN main'[b] = MainFields /\ main'[b].lease = Lease /\ main'[b].gen = main[b].gen
        /\ main'[b].uid = main[b].uid /\ main'[b].flag = main[b].flag
        /\ main'[b].opening = main[b].opening /\ main'[b].closing = main[b].closing
    BY <1>5, <2>5 DEF MainFields
  <2>7. DOMAIN main' = DOMAIN main /\ \A x \in DOMAIN main : x # b => main'[x] = main[x]
    BY <1>5
  <2>8. \A x \in DOMAIN main : main[x].gen /\ main[x].uid = 0 =>
                                   /\ kafka[x].opening = 0 /\ kafka[x].closing = 0
                                   /\ main[x].opening = 0 /\ main[x].closing = 0
    BY DEF Inv, Answers
  <2>9. \A x \in DOMAIN main : /\ DOMAIN main[x] = MainFields /\ main[x].lease \in Nat /\ main[x].gen \in BOOLEAN
    BY DEF Inv, RowsOK
  <2>10. Lease \in Nat
    BY CashbookAssumption
  <2>11. RowsOK' /\ Answers'
    BY <1>3, <2>6, <2>7, <2>8, <2>9, <2>10, MainWritten
  <2> QED BY <2>3, <2>4, <2>11 DEF Inv
<1> QED BY <1>2, <1>4, <1>5 DEF TryStartSubmission

(* The identifiers of PFMS are 1..n, so the next is n + 1 and new. *)
LEMMA NextUidIsNew ==
  ASSUME Inv
  PROVE  NextUid \notin DOMAIN pfms /\ \E n \in Nat : DOMAIN pfms = 1..n /\ NextUid = n + 1
<1>1. PICK n \in Nat : DOMAIN pfms = 1..n
  BY DEF Inv, RowsOK
<1>2. Cardinality(1..n) = n
  BY FS_Interval
<1> QED BY <1>1, <1>2 DEF NextUid

(* The payload gets a new identifier, the entry holds the cash books of its request. *)
LEMMA BuildKeeps ==
  ASSUME Inv, NEW t \in Threads, NEW op \in {"submit", "resubmit"}, NEW refused, Build(t, op, refused)
  PROVE  Inv'
<1>1. Submission_(t) /\ req[t].pc = "read" /\ UNCHANGED tables
  BY DEF Build, At, Inv, ReqOK, Free, Idle, Writes, Submits, Follower, Follows
<1>2. CASE Done(t) /\ UNCHANGED pfms
  <2>1. Alone(t) /\ req'[t] = Idle
    BY <1>2, Ends DEF Inv
  <2> QED BY <1>1, <1>2, <2>1, RequestAlone DEF Free, Sends, Submits, Idle
<1>3. CASE ~refused
  <2>1. PICK u : u = NextUid
    OBVIOUS
  <2>2. PICK n \in Nat : DOMAIN pfms = 1..n /\ u = n + 1 /\ u \notin DOMAIN pfms
    BY <2>1, NextUidIsNew
  <2>3. PICK e : e = [by |-> req[t].op, cbs |-> req[t].cbs, of |-> 0, st |-> "built",
                 late |-> req[t].late,
                 amount |-> [o \in DdoCodes |-> Net(Payload(GetPfmsJson(req[t].cbs), ClosingBalance(req[t].cbs)), o)]]
    OBVIOUS
  <2>4. pfms' = Put(pfms, u, e) /\ req' = [req EXCEPT ![t].pc = "login", ![t].uid = u, ![t].age = 0]
    BY <1>3, <2>1, <2>3 DEF Build
  <2>5. DOMAIN e = PfmsFields /\ e.by = req[t].op /\ e.cbs = req[t].cbs /\ e.st = "built" /\ e.late = req[t].late
    BY <2>3 DEF PfmsFields
  <2>6. DOMAIN pfms' = 1..(n + 1) /\ pfms'[u] = e /\ \A v \in DOMAIN pfms : v # u /\ pfms'[v] = pfms[v]
    BY <2>2, <2>4 DEF Put
  <2>7. Kept
    BY <2>2, <2>6 DEF Kept
  <2>8. /\ Alone(t) /\ DOMAIN req'[t] = SubmitFields /\ req'[t].pc = "login" /\ req'[t].age = 0
        /\ req'[t].op = req[t].op /\ req'[t].cbs = req[t].cbs /\ req'[t].left = req[t].left
        /\ req'[t].uid = u /\ req'[t].late = req[t].late
    BY <1>1, <2>4 DEF Inv, ReqOK, Alone, Submission_, SubmitFields
  <2>9. Submission_(t)'
    BY <1>1, <2>8 DEF Submission_, Submits
  <2>10. ReqOK'
    BY <1>1, <2>7, <2>8, <2>9, Others, KafkaRests DEF Inv, tables
  <2>11. RowsOK'
    <3>1. \A v \in DOMAIN pfms' : v = u \/ v \in DOMAIN pfms
      BY <2>2, <2>6
    <3>2. ASSUME NEW v \in DOMAIN pfms'
          PROVE  DOMAIN pfms'[v] = PfmsFields /\ pfms'[v].st \in States /\ pfms'[v].cbs \in Seq(Books)
               /\ pfms'[v].by \in {"submit", "resubmit"}
      BY <1>1, <2>5, <2>6, <3>1 DEF Inv, RowsOK, States, Submission_, Submits
    <3>3. n + 1 \in Nat
      BY <2>2
    <3> QED BY <1>1, <2>6, <3>2, <3>3 DEF Inv, RowsOK, tables
  <2>12. Entries'
    <3>1. ASSUME NEW x \in Threads, Sends(x)', x # t
          PROVE  /\ Sends(x) /\ req'[x] = req[x] /\ req[x].uid \in DOMAIN pfms /\ req[x].uid # u
      BY <2>2, <2>8, <3>1 DEF Inv, Entries, Alone, Sends, Submits
    <3>2. ASSUME NEW x \in Threads, Sends(x)'
          PROVE  /\ req'[x].uid \in DOMAIN pfms'
                 /\ pfms'[req'[x].uid].cbs = req'[x].cbs /\ pfms'[req'[x].uid].by = req'[x].op
                 /\ pfms'[req'[x].uid].late = req'[x].late
                 /\ req'[x].pc = "login" <=> pfms'[req'[x].uid].st = "built"
      <4>1. CASE x = t
        BY <2>2, <2>5, <2>6, <2>8, <4>1
      <4>2. CASE x # t
        BY <2>2, <2>6, <3>1, <3>2, <4>2 DEF Inv, Entries
      <4> QED BY <4>1, <4>2
    <3>3. ASSUME NEW x \in Threads, NEW y \in Threads, Sends(x)', Sends(y)', req'[x].uid = req'[y].uid
          PROVE  x = y
      BY <2>8, <3>1, <3>3 DEF Inv, Entries
    <3> QED BY <3>2, <3>3 DEF Entries
  <2>13. Answers'
    BY <1>1, <2>7, AnswersStand, KafkaRests DEF Inv, tables
  <2> QED BY <2>10, <2>11, <2>12, <2>13 DEF Inv
<1> QED BY <1>2, <1>3 DEF Build

(* PFMS, or a submission that logs in, writes the state of one entry that is not final. *)
LEMMA StateWritten ==
  ASSUME Inv, UNCHANGED tables, NEW u \in DOMAIN pfms, pfms[u].st \notin Final, NEW st \in States,
         pfms' = [pfms EXCEPT ![u].st = st]
  PROVE  Kept /\ RowsOK' /\ Answers' /\ DOMAIN pfms' = DOMAIN pfms /\ pfms'[u].st = st
         /\ \A v \in DOMAIN pfms : v # u => pfms'[v] = pfms[v]
<1>1. DOMAIN pfms[u] = PfmsFields
  BY DEF Inv, RowsOK
<1>2. /\ DOMAIN pfms'[u] = PfmsFields /\ pfms'[u].st = st
      /\ pfms'[u].cbs = pfms[u].cbs /\ pfms'[u].by = pfms[u].by /\ pfms'[u].late = pfms[u].late
  BY <1>1 DEF PfmsFields
<1>3. DOMAIN pfms' = DOMAIN pfms /\ \A v \in DOMAIN pfms : v # u => pfms'[v] = pfms[v]
  OBVIOUS
<1>4. Kept
  BY <1>2, <1>3 DEF Kept
<1>5. RowsOK'
  <2>1. ASSUME NEW v \in DOMAIN pfms
        PROVE  DOMAIN pfms'[v] = PfmsFields /\ pfms'[v].st \in States /\ pfms'[v].cbs \in Seq(Books)
               /\ pfms'[v].by \in {"submit", "resubmit"}
    BY <1>2, <1>3 DEF Inv, RowsOK
  <2> QED BY <1>3, <2>1 DEF Inv, RowsOK, tables
<1>6. Answers'
  BY <1>4, AnswersStand, KafkaRests DEF Inv, tables
<1> QED BY <1>2, <1>3, <1>4, <1>5, <1>6

(* LogIn sends the entry its own request built, and no other. *)
LEMMA LogInKeeps ==
  ASSUME Inv, NEW t \in Threads, LogIn(t)
  PROVE  Inv'
<1>1. Submission_(t) /\ req[t].pc = "login" /\ Sends(t) /\ UNCHANGED tables
  BY DEF LogIn, Inv, ReqOK, Free, Idle, Writes, Submits, Follower, Follows, Sends
<1>2. PICK u : u = req[t].uid
  OBVIOUS
<1>3. u \in DOMAIN pfms /\ pfms[u].st = "built" /\ pfms[u].cbs = req[t].cbs /\ pfms[u].by = req[t].op
      /\ pfms[u].late = req[t].late
  BY <1>1, <1>2 DEF Inv, Entries
<1>4. Goto(t, "post") /\ pfms' = [pfms EXCEPT ![u].st = "sent"]
  BY <1>2 DEF LogIn
<1>5. /\ Kept /\ RowsOK' /\ Answers' /\ DOMAIN pfms' = DOMAIN pfms /\ pfms'[u].st = "sent"
      /\ \A v \in DOMAIN pfms : v # u => pfms'[v] = pfms[v]
  BY <1>1, <1>3, <1>4, StateWritten DEF Final, States
<1>6. /\ Alone(t) /\ DOMAIN req'[t] = SubmitFields /\ req'[t].pc = "post" /\ req'[t].age = 0
      /\ req'[t].op = req[t].op /\ req'[t].cbs = req[t].cbs /\ req'[t].left = req[t].left
      /\ req'[t].uid = req[t].uid /\ req'[t].late = req[t].late
  BY <1>1, <1>4, Advance DEF Inv
<1>7. Submission_(t)'
  BY <1>1, <1>6 DEF Submission_, Submits
<1>8. ReqOK'
  BY <1>1, <1>5, <1>6, <1>7, Others, KafkaRests DEF Inv, tables
<1>9. Entries'
  <2>1. ASSUME NEW x \in Threads, Sends(x)'
        PROVE  Sends(x) /\ req'[x].uid = req[x].uid /\ req'[x].cbs = req[x].cbs /\ req'[x].op = req[x].op
               /\ req'[x].late = req[x].late /\ (x # t => req'[x].pc = req[x].pc)
    BY <1>1, <1>6, <2>1 DEF Alone, Sends, Submits
  <2>2. ASSUME NEW x \in Threads, Sends(x)'
        PROVE  /\ req'[x].uid \in DOMAIN pfms'
               /\ pfms'[req'[x].uid].cbs = req'[x].cbs /\ pfms'[req'[x].uid].by = req'[x].op
               /\ pfms'[req'[x].uid].late = req'[x].late
               /\ req'[x].pc = "login" <=> pfms'[req'[x].uid].st = "built"
    <3>1. CASE x = t
      BY <1>2, <1>3, <1>5, <1>6, <3>1 DEF Kept
    <3>2. CASE x # t
      <4>1. req[x].uid # u
        BY <1>1, <1>2, <2>1, <2>2, <3>2 DEF Inv, Entries
      <4> QED BY <1>5, <2>1, <2>2, <3>2, <4>1 DEF Inv, Entries
    <3> QED BY <3>1, <3>2
  <2> QED BY <2>1, <2>2 DEF Inv, Entries
<1> QED BY <1>5, <1>8, <1>9 DEF Inv

(* PFMS takes, refuses, books or fails an entry; a final answer it never changes. *)
LEMMA PfmsKeeps ==
  ASSUME Inv, NEW u, PfmsTakes(u) \/ PfmsDecides(u)
  PROVE  Inv'
<1>1. u \in DOMAIN pfms /\ pfms[u].st \in {"sent", "Pending"} /\ UNCHANGED <<tables, req>>
  BY DEF PfmsTakes, PfmsDecides
<1>2. PICK st \in States : st # "built" /\ pfms' = [pfms EXCEPT ![u].st = st]
  BY DEF PfmsTakes, PfmsDecides, States, Final
<1>3. /\ Kept /\ RowsOK' /\ Answers' /\ DOMAIN pfms' = DOMAIN pfms /\ pfms'[u].st = st
      /\ \A v \in DOMAIN pfms : v # u => pfms'[v] = pfms[v]
  BY <1>1, <1>2, StateWritten DEF Final
<1>4. Entries'
  <2>1. \A v \in DOMAIN pfms : pfms'[v].st = "built" <=> pfms[v].st = "built"
    BY <1>1, <1>2, <1>3
  <2> QED BY <1>1, <1>3, <2>1 DEF Inv, Entries, Sends, Submits, Kept
<1>5. ReqOK'
  <2>1. ASSUME NEW x \in Threads PROVE Free(x)' \/ Writes(x)' \/ Submission_(x)' \/ Follower(x)'
    <3>1. CASE Free(x) BY <1>1, <3>1 DEF Free
    <3>2. CASE Writes(x) BY <1>1, <3>2 DEF Writes, tables
    <3>3. CASE Submission_(x) BY <1>1, <3>3 DEF Submission_, Submits
    <3>4. CASE Follower(x) BY <1>1, <1>3, <3>4 DEF Follower, Follows, Kept
    <3> QED BY <3>1, <3>2, <3>3, <3>4 DEF Inv, ReqOK
  <2> QED BY <1>1, <2>1 DEF Inv, ReqOK
<1> QED BY <1>3, <1>4, <1>5 DEF Inv

(* A cash book that arrives is new. *)
LEMMA ArriveKeeps ==
  ASSUME Inv, NEW b, NEW c, Arrive(b, c)
  PROVE  Inv'
<1>1. b \notin DOMAIN kafka /\ kafka' = Put(kafka, b, c) /\ UNCHANGED <<main, detail, subm, pfms, req>>
  BY DEF Arrive
<1>2. DOMAIN kafka' = DOMAIN kafka \cup {b} /\ KafkaKept
  BY <1>1 DEF Put, KafkaKept
<1>3. RowsOK'
  <2>1. IsFiniteSet(DOMAIN kafka \cup {b})
    BY FS_AddElement DEF Inv, RowsOK
  <2> QED BY <1>1, <1>2, <2>1 DEF Inv, RowsOK
<1>4. Answers'
  BY <1>1, <1>2, AnswersStand, PfmsRests DEF Inv
<1>5. Entries'
  BY <1>1 DEF Inv, Entries, Sends, Submits
<1>6. ReqOK'
  <2>1. ASSUME NEW x \in Threads PROVE Free(x)' \/ Writes(x)' \/ Submission_(x)' \/ Follower(x)'
    <3>1. CASE Free(x) BY <1>1, <3>1 DEF Free
    <3>2. CASE Writes(x) BY <1>1, <1>2, <3>2 DEF Writes, KafkaKept
    <3>3. CASE Submission_(x) BY <1>1, <3>3 DEF Submission_, Submits
    <3>4. CASE Follower(x) BY <1>1, <3>4 DEF Follower, Follows
    <3> QED BY <3>1, <3>2, <3>3, <3>4 DEF Inv, ReqOK
  <2> QED BY <1>1, <2>1 DEF Inv, ReqOK
<1> QED BY <1>3, <1>4, <1>5, <1>6 DEF Inv

(* GetDDOlistupdateRepo adds blank rows and touches none that is there. *)
LEMMA ListingKeeps ==
  ASSUME Inv, NEW from, NEW to, UpdateDDOCashbookList(from, to)
  PROVE  Inv'
<1>1. PICK missing \in SUBSET DOMAIN kafka :
        main' = [b \in DOMAIN main \cup missing |-> IF b \in DOMAIN main THEN main[b] ELSE NewRow]
  BY DEF UpdateDDOCashbookList, GetDDOlistupdate
<1>2. UNCHANGED <<kafka, detail, subm, pfms, req>>
  BY DEF UpdateDDOCashbookList
<1>3. /\ DOMAIN main' = DOMAIN main \cup missing
      /\ \A b \in DOMAIN main : main'[b] = main[b]
      /\ \A b \in missing : b \notin DOMAIN main => main'[b] = NewRow
  BY <1>1
<1>4. /\ DOMAIN NewRow = MainFields /\ NewRow.lease = 0 /\ NewRow.gen = FALSE
      /\ NewRow.uid = 0 /\ NewRow.flag = "none"
  BY DEF NewRow, MainFields
<1>5. RowsOK'
  <2>1. ASSUME NEW b \in DOMAIN main'
        PROVE  DOMAIN main'[b] = MainFields /\ main'[b].lease \in Nat /\ main'[b].gen \in BOOLEAN
    <3>1. CASE b \in DOMAIN main
      BY <1>3, <3>1 DEF Inv, RowsOK
    <3>2. CASE b \notin DOMAIN main
      <4>1. main'[b] = NewRow BY <1>3, <2>1, <3>2
      <4>2. 0 \in Nat /\ FALSE \in BOOLEAN OBVIOUS
      <4> QED BY <1>4, <4>1, <4>2
    <3> QED BY <3>1, <3>2
  <2> QED BY <1>2, <1>3, <2>1 DEF Inv, RowsOK
<1>6. Answers'
  <2>1. ASSUME NEW b \in DOMAIN main'
        PROVE  /\ main'[b].uid # 0 => main'[b].uid \in DOMAIN pfms /\ InBook(main'[b].uid, b)
               /\ main'[b].flag = "Pending" => main'[b].uid \in DOMAIN pfms
               /\ main'[b].flag \in Final => main'[b].uid \in DOMAIN pfms /\ pfms[main'[b].uid].st = main'[b].flag
               /\ main'[b].gen /\ main'[b].uid = 0 =>
                    /\ kafka[b].opening = 0 /\ kafka[b].closing = 0
                    /\ main'[b].opening = 0 /\ main'[b].closing = 0
    <3>1. CASE b \in DOMAIN main
      BY <1>3, <3>1 DEF Inv, Answers
    <3>2. CASE b \notin DOMAIN main
      BY <1>3, <1>4, <3>2 DEF Final
    <3> QED BY <3>1, <3>2
  <2>2. \A v, b : InBook(v, b)' <=> InBook(v, b)
    BY <1>2 DEF InBook
  <2> QED BY <1>2, <2>1, <2>2 DEF Inv, Answers
<1>7. Entries'
  BY <1>2 DEF Inv, Entries, Sends, Submits
<1>8. ReqOK'
  BY <1>2 DEF Inv, ReqOK, Free, Writes, Submission_, Submits, Follower, Follows
<1> QED BY <1>5, <1>6, <1>7, <1>8 DEF Inv

(* The lease after one unit of time, without Max. *)
LEMMA OneLess ==
  ASSUME NEW n \in Nat
  PROVE  Max({0, n - 1}) = IF n = 0 THEN 0 ELSE n - 1
<1>1. CASE n = 0
  <2>1. n - 1 < 0 /\ n - 1 \in Int BY <1>1
  <2>2. \E x \in {0, n - 1} : \A y \in {0, n - 1} : x >= y BY <2>1
  <2> QED BY <1>1, <2>1, <2>2 DEF Max
<1>2. CASE n # 0
  <2>1. n - 1 >= 0 /\ n - 1 \in Int BY <1>2
  <2>2. \E x \in {0, n - 1} : \A y \in {0, n - 1} : x >= y BY <2>1
  <2> QED BY <1>2, <2>1, <2>2 DEF Max
<1> QED BY <1>1, <1>2

(* What the clock does: the leases run down, the stages grow older. *)
LEMMA TickDoes ==
  ASSUME Inv, Tick
  PROVE  /\ UNCHANGED <<kafka, detail, subm, pfms, lost>>
         /\ DOMAIN main' = DOMAIN main /\ DOMAIN req' = Threads
         /\ \A b \in DOMAIN main :
              /\ DOMAIN main'[b] = MainFields /\ main'[b].gen = main[b].gen /\ main'[b].uid = main[b].uid
              /\ main'[b].lease = IF main[b].lease = 0 THEN 0 ELSE main[b].lease - 1
              /\ main'[b].flag = main[b].flag
              /\ main'[b].opening = main[b].opening /\ main'[b].closing = main[b].closing
         /\ \A x \in Threads : ~Submits(x) => req'[x] = req[x]
         /\ \A x \in Threads : Submits(x) =>
              /\ DOMAIN req'[x] = SubmitFields /\ req'[x].op = req[x].op /\ req'[x].pc = req[x].pc
              /\ req'[x].cbs = req[x].cbs /\ req'[x].left = req[x].left /\ req'[x].uid = req[x].uid /\ req'[x].late = req[x].late
              /\ req'[x].age = req[x].age + 1 /\ req[x].age < StageLimit(x)
<1>1. UNCHANGED <<kafka, detail, subm, pfms, lost>>
  BY DEF Tick
<1>2. main' = [b \in DOMAIN main |-> [main[b] EXCEPT !.lease = Max({0, @ - 1})]]
  BY DEF Tick
<1>3. req' = [t \in Threads |-> IF Submits(t) THEN [req[t] EXCEPT !.age = @ + 1] ELSE req[t]]
  BY DEF Tick
<1>4. ASSUME NEW b \in DOMAIN main
      PROVE  /\ DOMAIN main'[b] = MainFields /\ main'[b].gen = main[b].gen /\ main'[b].uid = main[b].uid
             /\ main'[b].lease = IF main[b].lease = 0 THEN 0 ELSE main[b].lease - 1
             /\ main'[b].flag = main[b].flag
             /\ main'[b].opening = main[b].opening /\ main'[b].closing = main[b].closing
  <2>1. DOMAIN main[b] = MainFields /\ main[b].lease \in Nat
    BY DEF Inv, RowsOK
  <2>2. Max({0, main[b].lease - 1}) = IF main[b].lease = 0 THEN 0 ELSE main[b].lease - 1
    BY <2>1, OneLess
  <2>3. main'[b] = [main[b] EXCEPT !.lease = Max({0, main[b].lease - 1})]
    BY <1>2
  <2> QED BY <2>1, <2>2, <2>3 DEF MainFields
<1>5. ASSUME NEW x \in Threads, Submits(x)
      PROVE  /\ DOMAIN req'[x] = SubmitFields /\ req'[x].op = req[x].op /\ req'[x].pc = req[x].pc
             /\ req'[x].cbs = req[x].cbs /\ req'[x].left = req[x].left /\ req'[x].uid = req[x].uid /\ req'[x].late = req[x].late
             /\ req'[x].age = req[x].age + 1 /\ req[x].age < StageLimit(x)
  <2>1. DOMAIN req[x] = SubmitFields
    BY <1>5 DEF Inv, ReqOK, Free, Idle, Writes, Submission_, Submits, Follower, Follows
  <2>2. req'[x] = [req[x] EXCEPT !.age = @ + 1]
    BY <1>3, <1>5
  <2>3. req[x].age < StageLimit(x)
    BY <1>5 DEF Tick
  <2> QED BY <2>1, <2>2, <2>3 DEF SubmitFields
<1> QED BY <1>1, <1>2, <1>3, <1>4, <1>5

(* Time writes no row but its lease. *)
LEMMA TickKeeps ==
  ASSUME Inv, Tick
  PROVE  Inv'
<1>1. /\ UNCHANGED <<kafka, detail, subm, pfms, lost>>
      /\ DOMAIN main' = DOMAIN main /\ DOMAIN req' = Threads
      /\ \A b \in DOMAIN main :
           /\ DOMAIN main'[b] = MainFields /\ main'[b].gen = main[b].gen /\ main'[b].uid = main[b].uid
           /\ main'[b].lease = IF main[b].lease = 0 THEN 0 ELSE main[b].lease - 1
           /\ main'[b].flag = main[b].flag
           /\ main'[b].opening = main[b].opening /\ main'[b].closing = main[b].closing
      /\ \A x \in Threads : ~Submits(x) => req'[x] = req[x]
      /\ \A x \in Threads : Submits(x) =>
           /\ DOMAIN req'[x] = SubmitFields /\ req'[x].op = req[x].op /\ req'[x].pc = req[x].pc
           /\ req'[x].cbs = req[x].cbs /\ req'[x].left = req[x].left /\ req'[x].uid = req[x].uid /\ req'[x].late = req[x].late
           /\ req'[x].age = req[x].age + 1 /\ req[x].age < StageLimit(x)
  BY TickDoes
<1>2. RowsOK' /\ Answers'
  <2>1. \A x \in DOMAIN main : main[x].gen /\ main[x].uid = 0 =>
                                   /\ kafka[x].opening = 0 /\ kafka[x].closing = 0
                                   /\ main[x].opening = 0 /\ main[x].closing = 0
    BY DEF Inv, Answers
  <2>2. \A x \in DOMAIN main : main[x].lease \in Nat /\ main[x].gen \in BOOLEAN
    BY DEF Inv, RowsOK
  <2>3. \A x \in DOMAIN main : main'[x].lease \in Nat
    BY <1>1, <2>2
  <2> QED BY <1>1, <2>1, <2>2, <2>3, MainWritten
<1>3. ASSUME NEW x \in Threads
      PROVE  \/ ~Submits(x) /\ req'[x] = req[x]
             \/ /\ Submits(x) /\ DOMAIN req'[x] = SubmitFields /\ req'[x].op = req[x].op /\ req'[x].pc = req[x].pc
                /\ req'[x].cbs = req[x].cbs /\ req'[x].left = req[x].left /\ req'[x].uid = req[x].uid /\ req'[x].late = req[x].late
                /\ req'[x].age = req[x].age + 1
  <2>1. /\ ~Submits(x) => req'[x] = req[x]
        /\ Submits(x) =>
              /\ DOMAIN req'[x] = SubmitFields /\ req'[x].op = req[x].op /\ req'[x].pc = req[x].pc
              /\ req'[x].cbs = req[x].cbs /\ req'[x].left = req[x].left /\ req'[x].uid = req[x].uid /\ req'[x].late = req[x].late
              /\ req'[x].age = req[x].age + 1 /\ req[x].age < StageLimit(x)
    BY TickDoes
  <2> QED BY <2>1
<1>4. Entries'
  <2>1. UNCHANGED pfms BY <1>1
  <2>2. ASSUME NEW x \in Threads, Sends(x)'
        PROVE  Sends(x) /\ req'[x].op = req[x].op /\ req'[x].pc = req[x].pc /\ req'[x].cbs = req[x].cbs
               /\ req'[x].uid = req[x].uid /\ req'[x].late = req[x].late
    BY <1>3, <2>2 DEF Sends, Submits
  <2> QED BY <2>1, <2>2 DEF Inv, Entries
<1>5. ReqOK'
  <2>1. UNCHANGED <<kafka, pfms>> /\ DOMAIN req' = Threads
    BY <1>1
  <2>2. ASSUME NEW x \in Threads, req'[x] = req[x]
        PROVE  Free(x)' \/ Writes(x)' \/ Submission_(x)' \/ Follower(x)'
    BY <2>1, <2>2 DEF Inv, ReqOK, Free, Writes, Submission_, Submits, Follower, Follows
  <2>3. ASSUME NEW x \in Threads, Submits(x), DOMAIN req'[x] = SubmitFields, req'[x].op = req[x].op,
               req'[x].pc = req[x].pc, req'[x].cbs = req[x].cbs, req'[x].left = req[x].left,
               req'[x].age = req[x].age + 1
        PROVE  Submission_(x)'
    <3>1. Submission_(x)
      BY <2>3 DEF Inv, ReqOK, Free, Idle, Writes, Submits, Follower, Follows
    <3> QED BY <2>3, <3>1 DEF Submission_, Submits
  <2> QED BY <1>3, <2>1, <2>2, <2>3 DEF ReqOK
<1> QED BY <1>2, <1>4, <1>5 DEF Inv

(* Nothing is received, sent or asked at first. *)
LEMMA Starts == CashbookInit => Inv
<1> SUFFICES ASSUME CashbookInit PROVE Inv
  OBVIOUS
<1>1. DOMAIN kafka = {} /\ DOMAIN main = {} /\ DOMAIN pfms = {} /\ DOMAIN subm = {}
  BY DEF CashbookInit
<1>2. RowsOK
  <2>1. DOMAIN pfms = 1..0
    BY <1>1
  <2> QED BY <1>1, <2>1, FS_EmptySet, EmptySeq DEF RowsOK, CashbookInit
<1>3. ReqOK
  BY DEF CashbookInit, ReqOK, Free
<1>4. Entries
  BY DEF CashbookInit, Entries, Sends, Submits, Idle
<1>5. Answers
  BY <1>1 DEF Answers
<1> QED BY <1>2, <1>3, <1>4, <1>5 DEF Inv

(* Every step of the cash book service keeps the invariant. *)
LEMMA Steps == Inv /\ CashbookNext => Inv'
<1> SUFFICES ASSUME Inv, CashbookNext PROVE Inv'
  OBVIOUS
<1>1. CASE Outside
  BY <1>1, ArriveKeeps, ListingKeeps, PfmsKeeps, TickKeeps DEF Outside
<1>2. ASSUME NEW t \in Threads, Begin(t) PROVE Inv'
  BY <1>2, EnterKeeps, StartSubmissionKeeps, StartResubmissionKeeps, AskStatusKeeps, StartPollKeeps
     DEF Begin, StartVerification, StartEmptyVerification
<1>3. ASSUME NEW t \in Threads, Serve(t) PROVE Inv'
  BY <1>3, PostPfmsverifiedKeeps, PostEmptyPfmsverifiedKeeps, TryStartSubmissionKeeps, BuildKeeps, LogInKeeps,
     AnswerOfKeeps, GetPfmsUpdateStatusKeeps, FinishKeeps, PollAsksKeeps, UpdateStatusInMainKeeps,
     UpdateStatusInSubmissionKeeps, StopKeeps
     DEF Serve, BuildPayload, RebuildPayload, Answered, ReAnswered, FinishSubmission, FinishResubmission
<1> QED BY <1>1, <1>2, <1>3 DEF CashbookNext

(* So does a step that changes nothing. *)
LEMMA Rests == Inv /\ UNCHANGED vars => Inv'
<1> SUFFICES ASSUME Inv, UNCHANGED vars PROVE Inv'
  OBVIOUS
<1>1. UNCHANGED <<kafka, main, detail, subm, pfms, req>>
  BY DEF vars
<1>2. RowsOK' BY <1>1 DEF Inv, RowsOK
<1>3. ReqOK' BY <1>1 DEF Inv, ReqOK, Free, Writes, Submission_, Submits, Follower, Follows
<1>4. Entries' BY <1>1 DEF Inv, Entries, Sends, Submits
<1>5. Answers' BY <1>1, AnswersStand, PfmsRests, KafkaRests DEF Inv
<1> QED BY <1>2, <1>3, <1>4, <1>5 DEF Inv

(* What the rows, the requests and the entries at PFMS have in common, always. *)
LEMMA Invariant == CashbookSpec => []Inv
BY Starts, Steps, Rests, PTL DEF CashbookSpec

(* A final answer in pfms_main or pfms_submission is the one PFMS gave to that very  *)
(* entry, and a day reported as submitted is in the entry its row names or had       *)
(* nothing to submit.                                                                *)
THEOREM FlagsAreTrue == CashbookSpec => []FinalFlagsAreTrue
<1>1. Inv => FinalFlagsAreTrue
  BY DEF Inv, Answers, FinalFlagsAreTrue, Final, CashbookPfmsStatus, GetCashbookPfmsStatus
<1> QED BY <1>1, Invariant, PTL

--------------------------------------------------------------------------------
(* What the lease of TryStartSubmission is good for: two submissions never hold the   *)
(* same cash book, and PFMS has a cash book twice only when the outcome of the first  *)
(* submission was lost, or the second was a resubmission or came with an outdated     *)
(* list.  Both need the lease to be longer than everything a submission does while it *)
(* holds it; how much longer is the hypothesis of each theorem.                       *)

(* Three calls to PFMS, and the statements before and after them. *)
LongLease == Lease > 2 * DbLimit + 3 * CallLimit

(* The same for a request that also waited for its turn behind another one. *)
LongerLease == Lease > 3 * DbLimit + 3 * CallLimit

--------------------------------------------------------------------------------
(* The invariant of the lease *)

Holds(t) == req[t].op = "submit" /\ req[t].pc \in {"lease", "read", "login", "post", "record"}

\* The first Taken(t) cash books of a submission are the ones it has leased.
Taken(t) == Len(req[t].cbs) - Len(req[t].left)

\* How long ago, at most, it took the first of them.
Since(t) ==
  CASE req[t].pc \in {"lease", "read"} -> req[t].age
    [] req[t].pc = "login" -> DbLimit + req[t].age
    [] req[t].pc = "post"  -> DbLimit + 2 * CallLimit + req[t].age
    [] OTHER               -> DbLimit + 3 * CallLimit + req[t].age

Timely(t) ==
  /\ req[t].age <= StageLimit(t)
  /\ Taken(t) >= 0 /\ \A j \in 1..Len(req[t].left) : req[t].left[j] = req[t].cbs[Taken(t) + j]
  /\ req[t].pc # "lease" => req[t].left = << >>
  /\ \A i \in 1..Taken(t) : /\ req[t].cbs[i] \in DOMAIN main
                            /\ main[req[t].cbs[i]].lease + Since(t) >= Lease

Timed == \A t \in Threads : Holds(t) => Timely(t)

Apart ==
  \A t, s \in Threads : t # s /\ Holds(t) /\ Holds(s) =>
    \A i \in 1..Taken(t), j \in 1..Taken(s) : req[t].cbs[i] # req[s].cbs[j]

LeaseInv == Timed /\ Apart

--------------------------------------------------------------------------------
(* The invariant of the entries *)

\* A row that names an entry is generated.
NamedIsGenerated == \A b \in DOMAIN main : main[b].uid # 0 => main[b].gen

\* A cash book a submission waits for, of a list that was not outdated, may be recorded by
\* another one meanwhile, but then its lease runs for as long as the wait can last.
WaitIsCovered ==
  \A t \in Threads : Holds(t) /\ ~req[t].late =>
    \A j \in 1..Len(req[t].left) :
      req[t].left[j] \in DOMAIN main /\ main[req[t].left[j]].uid # 0 =>
        main[req[t].left[j]].lease + req[t].age + 2 * DbLimit + 3 * CallLimit >= Lease

\* The cash books a submission holds of such a list name no entry.
HeldIsUnnamed ==
  \A t \in Threads : Holds(t) /\ ~req[t].late => \A i \in 1..Taken(t) : main[req[t].cbs[i]].uid = 0

Named(cbs) == \A i \in DOMAIN cbs : cbs[i] \in DOMAIN main /\ main[cbs[i]].uid # 0

\* A resubmission, and a submission that is recorded, work on cash books that name an entry.
OthersAreNamed == \A t \in Threads : Submits(t) /\ ~Holds(t) => Named(req[t].cbs)
LoggedAreNamed == \A i \in DOMAIN subm : Named(subm[i].cbs)

\* An entry PFMS has, or may have, is lost, or recorded, or a request is about to record it.
Accounted ==
  \A u \in DOMAIN pfms : pfms[u].st \in {"sent", "Pending", "Success"} =>
    \/ u \in lost
    \/ Named(pfms[u].cbs)
    \/ \E t \in Threads : Unrecorded(t) /\ req[t].uid = u

\* An entry nothing will come of.
Dead(u) ==
  \/ pfms[u].st \in {"refused", "Failed"}
  \/ pfms[u].st = "built" /\ \A t \in Threads : Submits(t) /\ req[t].pc = "login" => req[t].uid # u

Shares(u, v) == \E b \in Books : InBook(u, b) /\ InBook(v, b)

\* A first submission of a list that was not outdated is built only over earlier entries that
\* are dead or lost.
BuiltAfterTheDead ==
  \A u, v \in DOMAIN pfms :
    u < v /\ pfms[v].by = "submit" /\ ~pfms[v].late /\ Shares(u, v) => u \in lost \/ Dead(u)

LossInv ==
  /\ NamedIsGenerated /\ WaitIsCovered /\ HeldIsUnnamed
  /\ OthersAreNamed /\ LoggedAreNamed /\ Accounted /\ BuiltAfterTheDead

--------------------------------------------------------------------------------
(* Steps that touch neither leases nor identifiers *)

RowsStand ==
  /\ DOMAIN main \subseteq DOMAIN main'
  /\ \A b \in DOMAIN main : /\ main'[b].lease = main[b].lease /\ main'[b].uid = main[b].uid
                            /\ main[b].gen => main'[b].gen
  /\ \A b \in DOMAIN main' : b \notin DOMAIN main => main'[b].uid = 0

EntryStands(u) ==
  /\ pfms'[u].cbs = pfms[u].cbs /\ pfms'[u].by = pfms[u].by /\ pfms'[u].late = pfms[u].late
  /\ \/ pfms'[u].st = pfms[u].st
     \/ pfms[u].st = "sent" /\ pfms'[u].st \in {"Pending", "refused"}
     \/ pfms[u].st = "Pending" /\ pfms'[u].st \in {"Success", "Failed"}

SubmStands ==
  \A i \in DOMAIN subm' :
    \/ i \in DOMAIN subm /\ subm'[i].cbs = subm[i].cbs
    \/ \E t \in Threads : Submits(t) /\ req[t].pc = "log" /\ subm'[i].cbs = req[t].cbs

\* A request that goes on sending does nothing here, and one that stops unrecorded is lost or refused.
RequestStands(t) ==
  \/ req'[t] = req[t]
  \/ ~Submits(t)' /\ (Unrecorded(t) => req[t].uid \in lost' \/ pfms[req[t].uid].st = "refused")

Uninvolved ==
  /\ RowsStand /\ SubmStands
  /\ DOMAIN pfms' = DOMAIN pfms /\ \A u \in DOMAIN pfms : EntryStands(u)
  /\ lost \subseteq lost'
  /\ \A t \in Threads : RequestStands(t)

(* A request of FetchPfmsHandler or FetchPfmsReSubmissionHandler has their shape. *)
LEMMA SubmissionIs ==
  ASSUME Inv, NEW t \in Threads, Submits(t)
  PROVE  Submission_(t) /\ Free(t) = FALSE
BY DEF Inv, ReqOK, Free, Idle, Writes, Submits, Follower, Follows

(* An untouched pfms_main stands. *)
LEMMA MainUnchanged == UNCHANGED main => RowsStand
BY DEF RowsStand

(* Untouched entries stand. *)
LEMMA PfmsUnchanged ==
  UNCHANGED pfms => DOMAIN pfms' = DOMAIN pfms /\ \A u \in DOMAIN pfms : EntryStands(u)
BY DEF EntryStands

(* An untouched pfms_submission stands. *)
LEMMA SubmUnchanged == UNCHANGED subm => SubmStands
BY DEF SubmStands

(* A step of a request that is not a submission, or ends one. *)
LEMMA QuietRequest ==
  ASSUME NEW t \in Threads, Alone(t), RowsStand, SubmStands, UNCHANGED pfms, lost \subseteq lost',
         ~Submits(t)', Unrecorded(t) => req[t].uid \in lost' \/ pfms[req[t].uid].st = "refused"
  PROVE  Uninvolved
BY PfmsUnchanged DEF Uninvolved, Alone, RequestStands

(* A cash book that arrives touches neither leases nor identifiers. *)
LEMMA ArriveQuiet == ASSUME NEW b, NEW c, Arrive(b, c) PROVE Uninvolved
BY MainUnchanged, PfmsUnchanged, SubmUnchanged DEF Arrive, Uninvolved, RequestStands

(* GetDDOlistupdateRepo adds rows without an identifier. *)
LEMMA ListingQuiet ==
  ASSUME NEW from, NEW to, UpdateDDOCashbookList(from, to)
  PROVE  Uninvolved
<1>1. PICK missing \in SUBSET DOMAIN kafka :
        main' = [b \in DOMAIN main \cup missing |-> IF b \in DOMAIN main THEN main[b] ELSE NewRow]
  BY DEF UpdateDDOCashbookList, GetDDOlistupdate
<1>2. NewRow.uid = 0
  BY DEF NewRow
<1>3. RowsStand
  BY <1>1, <1>2 DEF RowsStand
<1> QED BY <1>3, PfmsUnchanged, SubmUnchanged DEF UpdateDDOCashbookList, Uninvolved, RequestStands

(* PFMS takes, refuses or decides an entry that was sent. *)
LEMMA PfmsQuiet ==
  ASSUME Inv, NEW u, PfmsTakes(u) \/ PfmsDecides(u)
  PROVE  Uninvolved
<1>1. u \in DOMAIN pfms /\ UNCHANGED <<main, subm, req, lost>>
  BY DEF PfmsTakes, PfmsDecides, tables
<1>2. PICK st \in States :
        /\ pfms' = [pfms EXCEPT ![u].st = st]
        /\ \/ pfms[u].st = "sent" /\ st \in {"Pending", "refused"}
           \/ pfms[u].st = "Pending" /\ st \in {"Success", "Failed"}
  BY DEF PfmsTakes, PfmsDecides, States, Final
<1>3. DOMAIN pfms[u] = PfmsFields
  BY <1>1 DEF Inv, RowsOK
<1>4. pfms'[u].st = st /\ pfms'[u].cbs = pfms[u].cbs /\ pfms'[u].by = pfms[u].by /\ pfms'[u].late = pfms[u].late
  BY <1>1, <1>2, <1>3 DEF PfmsFields
<1>5. ASSUME NEW v \in DOMAIN pfms PROVE EntryStands(v)
  <2>1. CASE v = u BY <1>2, <1>4, <2>1 DEF EntryStands
  <2>2. CASE v # u BY <1>2, <2>2 DEF EntryStands
  <2> QED BY <2>1, <2>2
<1> QED BY <1>1, <1>2, <1>5, MainUnchanged, SubmUnchanged DEF Uninvolved, RequestStands

(* A verification, a status request or a poll begins. *)
LEMMA BeginQuiet ==
  ASSUME Inv, NEW t \in Threads,
         \/ \E op \in {"verify", "verify_empty"}, b \in Books : Enter(t, op, b)
         \/ \E u \in 1..MaxUid : AskStatus(t, u)
         \/ StartPoll(t)
  PROVE  Uninvolved
<1>1. UNCHANGED <<main, subm, pfms, lost>> /\ Free(t) /\ Alone(t)
  BY DEF Enter, AskStatus, StartPoll, tables, Inv, ReqOK, Alone
<1>2. ~Submits(t)'
  BY DEF Enter, AskStatus, StartPoll, Submits, Inv, ReqOK
<1>3. ~Unrecorded(t)
  BY <1>1 DEF Unrecorded, Free, Idle, Submits
<1> QED BY <1>1, <1>2, <1>3, QuietRequest, MainUnchanged, SubmUnchanged

(* The poll only asks. *)
LEMMA PollAsksQuiet == ASSUME Inv, NEW t \in Threads, PollAsks(t) PROVE Uninvolved
<1>1. UNCHANGED <<main, subm, pfms, lost>> /\ Alone(t) /\ req[t].op = "poll"
  BY DEF PollAsks, At, tables, Inv, ReqOK, Alone
<1>2. ~Submits(t)' /\ ~Unrecorded(t)
  BY <1>1 DEF PollAsks, Submits, Inv, ReqOK, Unrecorded
<1> QED BY <1>1, <1>2, QuietRequest, MainUnchanged, SubmUnchanged

(* A request ends, accounted for when it had sent something. *)
LEMMA EndQuiet ==
  ASSUME Inv, NEW t \in Threads, Done(t), RowsStand, SubmStands, UNCHANGED pfms, lost \subseteq lost',
         Unrecorded(t) => req[t].uid \in lost' \/ pfms[req[t].uid].st = "refused"
  PROVE  Uninvolved
<1>1. Alone(t) /\ req'[t] = Idle
  BY Ends DEF Inv
<1> QED BY <1>1, QuietRequest DEF Submits, Idle

(* PostPfmsverifiedRepo writes neither the lease nor the identifier. *)
LEMMA PostPfmsverifiedQuiet == ASSUME Inv, NEW t \in Threads, PostPfmsverified(t) PROVE Uninvolved
<1>1. Done(t) /\ UNCHANGED <<subm, pfms, lost>> /\ ~Unrecorded(t)
  BY DEF PostPfmsverified, At, Unrecorded, Submits
<1>2. PICK b : b = req[t].book
  OBVIOUS
<1>3. PICK c : c = req[t].content
  OBVIOUS
<1>4. RowsStand
  <2>1. CASE UNCHANGED main BY <2>1, MainUnchanged
  <2>2. CASE b \in DOMAIN main /\ main' = [main EXCEPT ![b] = Verified(b, c)]
    <3>1. DOMAIN main[b] = MainFields
      BY <2>2 DEF Inv, RowsOK
    <3>2. main'[b] = [main[b] EXCEPT !.ver = TRUE, !.opening = c.opening, !.closing = c.closing, !.at = NextAt]
      BY <2>2 DEF Verified
    <3>3. main'[b].lease = main[b].lease /\ main'[b].gen = main[b].gen /\ main'[b].uid = main[b].uid
      BY <3>1, <3>2 DEF MainFields
    <3>4. DOMAIN main' = DOMAIN main /\ \A x \in DOMAIN main : x # b => main'[x] = main[x]
      BY <2>2
    <3> QED BY <3>3, <3>4 DEF RowsStand
  <2> QED BY <1>2, <1>3, <2>1, <2>2 DEF PostPfmsverified
<1> QED BY <1>1, <1>4, EndQuiet, SubmUnchanged

(* Nor does PostEmptyPfmsverifiedRepo, and what was generated stays generated. *)
LEMMA PostEmptyPfmsverifiedQuiet == ASSUME Inv, NEW t \in Threads, PostEmptyPfmsverified(t) PROVE Uninvolved
<1>1. Done(t) /\ UNCHANGED <<subm, pfms, lost>> /\ ~Unrecorded(t)
  BY DEF PostEmptyPfmsverified, At, Unrecorded, Submits
<1>2. PICK b : b = req[t].book
  OBVIOUS
<1>3. PICK c : c = req[t].content
  OBVIOUS
<1>4. RowsStand
  <2>1. CASE UNCHANGED main BY <2>1, MainUnchanged
  <2>2. CASE b \in DOMAIN main /\ main' # main
    <3>1. DOMAIN main[b] = MainFields
      BY <2>2 DEF Inv, RowsOK
    <3>2. PICK row : row = [main[b] EXCEPT !.ver = TRUE, !.opening = c.opening, !.closing = c.closing, !.at = NextAt]
      OBVIOUS
    <3>3. DOMAIN row = MainFields /\ row.lease = main[b].lease /\ row.gen = main[b].gen /\ row.uid = main[b].uid
      BY <3>1, <3>2 DEF MainFields
    <3>4. PICK g \in BOOLEAN : /\ g <=> row.gen \/ (c.opening = 0 /\ c.closing = 0)
                               /\ main' = [main EXCEPT ![b] = [row EXCEPT !.gen = g]]
      BY <1>2, <1>3, <2>2, <3>2 DEF PostEmptyPfmsverified, Verified
    <3>5. main'[b].lease = main[b].lease /\ main'[b].gen = g /\ main'[b].uid = main[b].uid
      BY <2>2, <3>3, <3>4 DEF MainFields
    <3>6. DOMAIN main' = DOMAIN main /\ \A x \in DOMAIN main : x # b => main'[x] = main[x]
      BY <3>4
    <3> QED BY <3>3, <3>4, <3>5, <3>6 DEF RowsStand
  <2> QED BY <1>2, <1>3, <2>1, <2>2 DEF PostEmptyPfmsverified
<1> QED BY <1>1, <1>4, EndQuiet, SubmUnchanged

(* UpdatePfmsSubmissionStatusRepo writes flags alone. *)
LEMMA UpdateStatusInMainQuiet == ASSUME Inv, NEW t \in Threads, UpdateStatusInMain(t) PROVE Uninvolved
<1>1. Follower(t) /\ req[t].pc = "main" /\ UNCHANGED <<subm, pfms, lost>>
  BY DEF UpdateStatusInMain, Inv, ReqOK, Free, Idle, Writes, Submission_, Submits, Follows
<1>2. /\ req' = [req EXCEPT ![t].pc = "submission"]
      /\ main' = [b \in DOMAIN main |->
                IF main[b].uid = req[t].uid THEN [main[b] EXCEPT !.flag = req[t].flag] ELSE main[b]]
  BY DEF UpdateStatusInMain
<1>3. Alone(t) /\ req'[t].op = req[t].op
  BY <1>1, <1>2 DEF Inv, ReqOK, Alone, Follower, FollowFields
<1>4. ~Submits(t)' /\ ~Unrecorded(t)
  BY <1>1, <1>3 DEF Submits, Unrecorded, Follower, Follows
<1>5. DOMAIN main' = DOMAIN main
  BY <1>2
<1>6. ASSUME NEW b \in DOMAIN main
      PROVE  main'[b].lease = main[b].lease /\ main'[b].uid = main[b].uid /\ main'[b].gen = main[b].gen
  <2>1. DOMAIN main[b] = MainFields
    BY DEF Inv, RowsOK
  <2>2. CASE main[b].uid = req[t].uid
    <3>1. main'[b] = [main[b] EXCEPT !.flag = req[t].flag]
      BY <1>2, <2>2
    <3> QED BY <2>1, <3>1 DEF MainFields
  <2>3. CASE main[b].uid # req[t].uid
    BY <1>2, <2>3
  <2> QED BY <2>2, <2>3
<1>7. RowsStand
  BY <1>5, <1>6 DEF RowsStand
<1> QED BY <1>1, <1>3, <1>4, <1>7, QuietRequest, SubmUnchanged

(* And its second statement only the status of logged submissions. *)
LEMMA UpdateStatusInSubmissionQuiet == ASSUME Inv, NEW t \in Threads, UpdateStatusInSubmission(t) PROVE Uninvolved
<1>1. Follower(t) /\ req[t].pc = "submission" /\ UNCHANGED <<main, pfms, lost>>
  BY DEF UpdateStatusInSubmission, Inv, ReqOK, Free, Idle, Writes, Submission_, Submits, Follows
<1>2. /\ req' = [req EXCEPT ![t] = IF @.left = << >> THEN Idle ELSE [@ EXCEPT !.pc = "ask"]]
      /\ subm' = [i \in DOMAIN subm |->
                IF subm[i].uid = req[t].uid THEN [subm[i] EXCEPT !.status = req[t].flag] ELSE subm[i]]
  BY DEF UpdateStatusInSubmission
<1>3. Alone(t)
  BY <1>2 DEF Inv, ReqOK, Alone
<1>4. ~Submits(t)' /\ ~Unrecorded(t)
  <2>1. CASE req[t].left = << >>
    BY <1>1, <1>2, <2>1 DEF Inv, ReqOK, Submits, Idle, Unrecorded, Follower, Follows
  <2>2. CASE req[t].left # << >>
    <3>1. req'[t] = [req[t] EXCEPT !.pc = "ask"]
      BY <1>2, <2>2 DEF Inv, ReqOK
    <3>2. req'[t].op = req[t].op
      BY <1>1, <3>1 DEF Follower, FollowFields
    <3> QED BY <1>1, <3>2 DEF Follower, Follows, Submits, Unrecorded
  <2> QED BY <2>1, <2>2
<1>5. SubmStands
  <2>1. ASSUME NEW i \in DOMAIN subm PROVE subm'[i].cbs = subm[i].cbs
    <3>1. subm[i] \in SubmRow
      BY DEF Inv, RowsOK
    <3>2. CASE subm[i].uid = req[t].uid
      <4>1. subm'[i] = [subm[i] EXCEPT !.status = req[t].flag]
        BY <1>2, <3>2
      <4> QED BY <3>1, <4>1 DEF SubmRow
    <3>3. CASE subm[i].uid # req[t].uid
      BY <1>2, <3>3
    <3> QED BY <3>2, <3>3
  <2> QED BY <1>2, <2>1 DEF SubmStands
<1> QED BY <1>1, <1>3, <1>4, <1>5, QuietRequest, MainUnchanged

(* InsertPfmsSubmission logs the cash books of a request that has recorded them. *)
LEMMA FinishQuiet ==
  ASSUME Inv, NEW t \in Threads, NEW op \in {"submit", "resubmit"}, Finish(t, op)
  PROVE  Uninvolved
<1>1. Submits(t) /\ req[t].pc = "log" /\ Done(t) /\ UNCHANGED <<main, pfms, lost>>
  BY DEF Finish, At, Submits
<1>2. ~Unrecorded(t)
  BY <1>1 DEF Unrecorded
<1>3. CASE UNCHANGED subm
  BY <1>1, <1>2, <1>3, EndQuiet, MainUnchanged, SubmUnchanged
<1>4. CASE InsertPfmsSubmission(t)
  <2>1. PICK row : row = Submission(req[t].uid, "cb", req[t].cbs, 0)
    OBVIOUS
  <2>2. subm' = Append(subm, row) /\ subm \in Seq(SubmRow) /\ row.cbs = req[t].cbs
    BY <1>4, <2>1 DEF InsertPfmsSubmission, Submission, Inv, RowsOK
  <2>3. \A i \in DOMAIN subm' : (i \in DOMAIN subm /\ subm'[i] = subm[i]) \/ subm'[i] = row
    BY <2>2
  <2>4. SubmStands
    BY <1>1, <2>2, <2>3 DEF SubmStands
  <2> QED BY <1>1, <1>2, <2>4, EndQuiet, MainUnchanged
<1> QED BY <1>3, <1>4 DEF Finish

(* A request that stops between LogIn and the record leaves its entry in the history *)
(* of the lost ones.                                                                 *)
LEMMA StopQuiet == ASSUME Inv, NEW t \in Threads, Stop(t) PROVE Uninvolved
<1>1. Done(t) /\ UNCHANGED <<main, subm, pfms>>
      /\ lost' = IF Unrecorded(t) THEN lost \cup {req[t].uid} ELSE lost
  BY DEF Stop, tables
<1> QED BY <1>1, EndQuiet, MainUnchanged, SubmUnchanged

--------------------------------------------------------------------------------
(* The lease *)

\* A submission that goes on within its time, with the cash books it has leased.
Onward(t) ==
  /\ Holds(t) /\ Holds(t)' /\ req[t].pc # "lease"
  /\ req'[t].cbs = req[t].cbs /\ req'[t].left = req[t].left
  /\ req'[t].age <= StageLimit(t)' /\ Since(t)' >= Since(t)
  /\ Since(t) \in Int /\ Since(t)' \in Int /\ req'[t].pc # "lease"

(* A step that leaves the leases alone keeps the invariant when every request     *)
(* that still holds cash books stood still or went on within its time.           *)
LEMMA LeasesStand ==
  ASSUME Inv, LeaseInv, DOMAIN main \subseteq DOMAIN main',
         \A b \in DOMAIN main : main'[b].lease = main[b].lease,
         \A t \in Threads : req'[t] = req[t] \/ ~Holds(t)' \/ Onward(t)
  PROVE  LeaseInv'
<1>1. ASSUME NEW t \in Threads, Holds(t)'
      PROVE  Holds(t) /\ req'[t].cbs = req[t].cbs /\ req'[t].left = req[t].left /\ Timely(t)'
  <2>1. CASE req'[t] = req[t]
    <3>1. Holds(t) /\ Timely(t)
      BY <1>1, <2>1 DEF Holds, LeaseInv, Timed
    <3> QED BY <2>1, <3>1 DEF Timely, StageLimit, Taken, Since
  <2>2. CASE Onward(t)
    <3>1. Timely(t)
      BY <2>2 DEF Onward, LeaseInv, Timed
    <3>2. ASSUME NEW i \in 1..Taken(t)
          PROVE  /\ req[t].cbs[i] \in DOMAIN main'
                 /\ main'[req[t].cbs[i]].lease + Since(t)' >= Lease
      <4>1. PICK b \in DOMAIN main : b = req[t].cbs[i]
        BY <3>1 DEF Timely
      <4>2. main[b].lease \in Nat /\ main[b].lease + Since(t) >= Lease /\ main'[b].lease = main[b].lease
        BY <3>1, <4>1 DEF Timely, Inv, RowsOK
      <4>3. Since(t) \in Int /\ Since(t)' \in Int /\ Since(t)' >= Since(t) /\ Lease \in Int
        BY <2>2, CashbookAssumption DEF Onward
      <4> QED BY <4>1, <4>2, <4>3
    <3> QED BY <2>2, <3>1, <3>2 DEF Onward, Timely, Taken
  <2> QED BY <1>1, <2>1, <2>2
<1>2. Apart'
  <2> SUFFICES ASSUME NEW x \in Threads, NEW y \in Threads, x # y, Holds(x)', Holds(y)',
                      NEW i \in 1..(Len(req'[x].cbs) - Len(req'[x].left)),
                      NEW j \in 1..(Len(req'[y].cbs) - Len(req'[y].left))
               PROVE  req'[x].cbs[i] # req'[y].cbs[j]
    BY DEF Apart, Taken, Holds
  <2>1. /\ Holds(x) /\ req'[x].cbs = req[x].cbs /\ req'[x].left = req[x].left
        /\ Holds(y) /\ req'[y].cbs = req[y].cbs /\ req'[y].left = req[y].left
    BY <1>1
  <2> QED BY <2>1 DEF LeaseInv, Apart, Taken
<1> QED BY <1>1, <1>2 DEF LeaseInv, Timed

(* A quiet step keeps every lease. *)
LEMMA QuietLease == ASSUME Inv, LeaseInv, Uninvolved PROVE LeaseInv'
BY LeasesStand DEF Uninvolved, RowsStand, RequestStands, Holds, Submits

(* FetchPfmsHandler begins without a lease. *)
LEMMA StartSubmissionLease ==
  ASSUME Inv, LeaseInv, NEW t \in Threads, NEW cbs \in Requests, StartSubmission(t, cbs)
  PROVE  LeaseInv'
<1>1. UNCHANGED main /\ Alone(t)
      /\ req'[t] = [op |-> "submit", pc |-> "lease", cbs |-> cbs, left |-> cbs, uid |-> 0, age |-> 0,
                    late |-> Outdated(cbs)]
  BY DEF StartSubmission, tables, Inv, ReqOK, Alone
<1>2. cbs \in Seq(Books) /\ DbLimit \in Nat
  BY CashbookAssumption
<1>3. Len(cbs) \in Nat /\ Len(cbs) - Len(cbs) = 0 /\ \A j \in 1..Len(cbs) : 0 + j = j
  BY <1>2
<1>4. Timely(t)' /\ Taken(t)' = 0
  BY <1>1, <1>2, <1>3 DEF Timely, Taken, StageLimit
<1>5. ASSUME NEW x \in Threads, x # t, Holds(x)'
      PROVE  Holds(x) /\ req'[x] = req[x] /\ Timely(x)'
  <2>1. req'[x] = req[x] /\ Holds(x) /\ Timely(x)
    BY <1>1, <1>5 DEF Alone, Holds, LeaseInv, Timed
  <2> QED BY <1>1, <2>1 DEF Timely, StageLimit, Taken, Since
<1>6. Timed'
  BY <1>4, <1>5 DEF Timed
<1>7. Apart'
  <2> SUFFICES ASSUME NEW x \in Threads, NEW y \in Threads, x # y, Holds(x)', Holds(y)',
                      NEW i \in 1..(Len(req'[x].cbs) - Len(req'[x].left)),
                      NEW j \in 1..(Len(req'[y].cbs) - Len(req'[y].left))
               PROVE  req'[x].cbs[i] # req'[y].cbs[j]
    BY DEF Apart, Taken, Holds
  <2>1. x # t /\ y # t
    BY <1>1, <1>3
  <2>2. Holds(x) /\ req'[x] = req[x] /\ Holds(y) /\ req'[y] = req[y]
    BY <1>5, <2>1
  <2> QED BY <2>2 DEF LeaseInv, Apart, Taken
<1> QED BY <1>6, <1>7 DEF LeaseInv

(* What taking the next lease does. *)
LEMMA TryStartSubmissionDoes ==
  ASSUME Inv, Timed, NEW t \in Threads, TryStartSubmission(t)
  PROVE  \/ UNCHANGED main /\ Done(t)
         \/ \E b \in DOMAIN main :
              /\ main[b].lease = 0 /\ Holds(t) /\ req[t].pc = "lease" /\ Len(req[t].left) > 0
              /\ b = req[t].left[1] /\ b = req[t].cbs[Taken(t) + 1] /\ Taken(t) \in Nat
              /\ DOMAIN main' = DOMAIN main /\ \A x \in DOMAIN main : x # b => main'[x] = main[x]
              /\ main'[b].lease = Lease /\ main'[b].gen = main[b].gen /\ main'[b].uid = main[b].uid
              /\ Alone(t) /\ Holds(t)' /\ req'[t].pc \in {"lease", "read"} /\ Taken(t)' = Taken(t) + 1
              /\ req'[t].cbs = req[t].cbs /\ req'[t].age = req[t].age /\ req'[t].late = req[t].late
              /\ req'[t].pc # "lease" => req'[t].left = << >>
              /\ req'[t].left \in Seq(Books) /\ Len(req'[t].left) = Len(req[t].left) - 1
              /\ \A j \in 1..Len(req'[t].left) : req'[t].left[j] = req[t].left[j + 1]
<1>1. Submits(t) /\ req[t].pc = "lease" /\ req[t].op = "submit"
  BY DEF TryStartSubmission, At, Submits
<1>2. Submission_(t)
  BY <1>1, SubmissionIs
<1>3. PICK left \in Seq(Books) : left = req[t].left /\ left # << >>
  BY <1>1, <1>2 DEF Submission_
<1>4. /\ Len(left) \in Nat /\ Len(left) > 0 /\ Head(left) = left[1]
      /\ Tail(left) \in Seq(Books) /\ Len(Tail(left)) = Len(left) - 1
      /\ \A j \in 1..Len(Tail(left)) : Tail(left)[j] = left[j + 1]
  BY <1>3, HeadTailProperties, EmptySeq
<1>5. Holds(t) /\ Timely(t)
  BY <1>1 DEF Holds, Timed
<1>6. Len(req[t].cbs) \in Nat /\ Taken(t) \in Nat
  BY <1>2, <1>3, <1>4, <1>5 DEF Submission_, Timely, Taken
<1>7. ASSUME left[1] \in DOMAIN main, main[left[1]].lease = 0,
             main' = [main EXCEPT ![left[1]].lease = Lease],
             req' = IF Len(left) = 1
                    THEN [req EXCEPT ![t].pc = "read", ![t].left = << >>]
                    ELSE [req EXCEPT ![t].left = Tail(@)]
      PROVE  \E b \in DOMAIN main :
              /\ main[b].lease = 0 /\ Holds(t) /\ req[t].pc = "lease" /\ Len(req[t].left) > 0
              /\ b = req[t].left[1] /\ b = req[t].cbs[Taken(t) + 1] /\ Taken(t) \in Nat
              /\ DOMAIN main' = DOMAIN main /\ \A x \in DOMAIN main : x # b => main'[x] = main[x]
              /\ main'[b].lease = Lease /\ main'[b].gen = main[b].gen /\ main'[b].uid = main[b].uid
              /\ Alone(t) /\ Holds(t)' /\ req'[t].pc \in {"lease", "read"} /\ Taken(t)' = Taken(t) + 1
              /\ req'[t].cbs = req[t].cbs /\ req'[t].age = req[t].age /\ req'[t].late = req[t].late
              /\ req'[t].pc # "lease" => req'[t].left = << >>
              /\ req'[t].left \in Seq(Books) /\ Len(req'[t].left) = Len(req[t].left) - 1
              /\ \A j \in 1..Len(req'[t].left) : req'[t].left[j] = req[t].left[j + 1]
  <2>1. PICK b \in DOMAIN main : b = left[1]
    BY <1>7
  <2>2. DOMAIN main[b] = MainFields
    BY DEF Inv, RowsOK
  <2>3. main'[b].lease = Lease /\ main'[b].gen = main[b].gen /\ main'[b].uid = main[b].uid
    BY <1>7, <2>1, <2>2 DEF MainFields
  <2>4. DOMAIN main' = DOMAIN main /\ \A x \in DOMAIN main : x # b => main'[x] = main[x]
    BY <1>7, <2>1
  <2>5. b = req[t].cbs[Taken(t) + 1]
    BY <1>3, <1>4, <1>5, <2>1 DEF Timely
  <2>6. /\ Alone(t) /\ req'[t].op = "submit"
        /\ req'[t].cbs = req[t].cbs /\ req'[t].age = req[t].age /\ req'[t].late = req[t].late
        /\ IF Len(left) = 1 THEN req'[t].pc = "read" /\ req'[t].left = << >>
           ELSE req'[t].pc = "lease" /\ req'[t].left = Tail(left)
    BY <1>1, <1>2, <1>3, <1>7 DEF Inv, ReqOK, Alone, Submission_, SubmitFields
  <2>7. /\ req'[t].left \in Seq(Books) /\ Len(req'[t].left) = Len(left) - 1
        /\ \A j \in 1..Len(req'[t].left) : req'[t].left[j] = left[j + 1]
    <3>1. CASE Len(left) = 1
      <4>1. req'[t].left = << >>
        BY <2>6, <3>1
      <4>2. << >> \in Seq(Books) /\ Len(<< >>) = 0 /\ 1..0 = {}
        BY EmptySeq
      <4> QED BY <3>1, <4>1, <4>2
    <3>2. CASE Len(left) # 1
      BY <1>4, <2>6, <3>2
    <3> QED BY <3>1, <3>2
  <2>8. Taken(t)' = Taken(t) + 1
    BY <1>3, <1>4, <1>6, <2>6, <2>7 DEF Taken
  <2>9. Holds(t)' /\ req'[t].pc \in {"lease", "read"} /\ (req'[t].pc # "lease" => req'[t].left = << >>)
    BY <2>6 DEF Holds
  <2>10. main[b].lease = 0 /\ Holds(t) /\ req[t].pc = "lease" /\ Len(req[t].left) > 0 /\ Taken(t) \in Nat
         /\ b = req[t].left[1]
    BY <1>1, <1>3, <1>4, <1>5, <1>6, <1>7, <2>1
  <2>11. Len(req'[t].left) = Len(req[t].left) - 1
         /\ \A j \in 1..Len(req'[t].left) : req'[t].left[j] = req[t].left[j + 1]
    BY <1>3, <2>7
  <2>12. Alone(t) /\ req'[t].cbs = req[t].cbs /\ req'[t].age = req[t].age /\ req'[t].late = req[t].late
         /\ req'[t].left \in Seq(Books)
    BY <2>6, <2>7
  <2> QED BY <2>3, <2>4, <2>5, <2>8, <2>9, <2>10, <2>11, <2>12
<1> QED BY <1>3, <1>4, <1>7 DEF TryStartSubmission

(* How long a submission holds a cash book, at most. *)
LEMMA SinceIsShort ==
  ASSUME Inv, Timed, NEW x \in Threads, Holds(x)
  PROVE  Since(x) \in Nat /\ Since(x) <= 2 * DbLimit + 3 * CallLimit /\ req[x].age \in Nat
         /\ StageLimit(x) \in Nat
<1>1. DbLimit \in Nat /\ CallLimit \in Nat
  BY CashbookAssumption
<1>2. req[x].age \in Nat /\ req[x].age <= StageLimit(x)
  BY SubmissionIs DEF Holds, Submits, Submission_, Timed, Timely
<1>3. CASE req[x].pc \in {"lease", "read"}
  BY <1>1, <1>2, <1>3 DEF Since, StageLimit
<1>4. CASE req[x].pc = "login"
  BY <1>1, <1>2, <1>4 DEF Since, StageLimit
<1>5. CASE req[x].pc = "post"
  BY <1>1, <1>2, <1>5 DEF Since, StageLimit
<1>6. CASE req[x].pc = "record"
  BY <1>1, <1>2, <1>6 DEF Since, StageLimit
<1> QED BY <1>3, <1>4, <1>5, <1>6 DEF Holds

(* So its lease runs as long. *)
LEMMA LeaseRuns ==
  ASSUME Inv, Timed, LongLease, NEW x \in Threads, Holds(x), NEW i \in 1..Taken(x)
  PROVE  req[x].cbs[i] \in DOMAIN main /\ main[req[x].cbs[i]].lease > 0
<1>1. PICK b \in DOMAIN main : b = req[x].cbs[i] /\ main[b].lease + Since(x) >= Lease
  BY DEF Timed, Timely
<1>2. main[b].lease \in Nat
  BY DEF Inv, RowsOK
<1>3. Since(x) \in Nat /\ Since(x) <= 2 * DbLimit + 3 * CallLimit
  BY SinceIsShort
<1>4. DbLimit \in Nat /\ CallLimit \in Nat /\ Lease \in Nat
  BY CashbookAssumption
<1>5. main[b].lease > 0
  BY <1>1, <1>2, <1>3, <1>4 DEF LongLease
<1> QED BY <1>1, <1>5

(* TryStartSubmission takes a lease that has run out, so nobody holds the cash book. *)
LEMMA TryStartSubmissionLease ==
  ASSUME Inv, LeaseInv, LongLease, NEW t \in Threads, TryStartSubmission(t)
  PROVE  LeaseInv'
<1>1. CASE UNCHANGED main /\ Done(t)
  <2>1. Alone(t) /\ req'[t] = Idle
    BY <1>1, Ends DEF Inv
  <2> QED BY <1>1, <2>1, LeasesStand DEF Alone, Holds, Idle
<1>2. ASSUME NEW b \in DOMAIN main,
              main[b].lease = 0, Holds(t), req[t].pc = "lease", Len(req[t].left) > 0,
              b = req[t].left[1], b = req[t].cbs[Taken(t) + 1], Taken(t) \in Nat,
              DOMAIN main' = DOMAIN main, \A x \in DOMAIN main : x # b => main'[x] = main[x],
              main'[b].lease = Lease, main'[b].gen = main[b].gen, main'[b].uid = main[b].uid,
              Alone(t), Holds(t)', req'[t].pc \in {"lease", "read"}, Taken(t)' = Taken(t) + 1,
              req'[t].cbs = req[t].cbs, req'[t].age = req[t].age, req'[t].late = req[t].late,
              req'[t].pc # "lease" => req'[t].left = << >>,
              req'[t].left \in Seq(Books), Len(req'[t].left) = Len(req[t].left) - 1,
              \A j \in 1..Len(req'[t].left) : req'[t].left[j] = req[t].left[j + 1]
      PROVE  LeaseInv'
  <2>1. Lease \in Nat /\ DbLimit \in Nat
    BY CashbookAssumption
  <2>2. \A x \in DOMAIN main : main[x].lease \in Nat
    BY DEF Inv, RowsOK
  <2>3. ASSUME NEW x \in Threads, x # t, Holds(x)'
        PROVE  Holds(x) /\ req'[x] = req[x] /\ Timely(x) /\ Since(x) \in Nat
    BY <1>2, <2>3, SinceIsShort DEF Alone, Holds, LeaseInv, Timed
  <2>4. Timely(t) /\ req[t].age \in Nat /\ Len(req[t].left) \in Nat
    <3>1. Submission_(t)
      BY <1>2, SubmissionIs DEF Holds, Submits
    <3> QED BY <1>2, <3>1, LenProperties DEF LeaseInv, Timed, Submission_
  <2>5. Timely(t)'
    <3>1. req'[t].age <= StageLimit(t)'
      BY <1>2, <2>4 DEF Timely, StageLimit
    <3>2. ASSUME NEW j \in 1..Len(req'[t].left)
          PROVE  req'[t].left[j] = req[t].cbs[Taken(t) + 1 + j]
      <4>1. PICK n \in Nat : n = Taken(t)
        BY <1>2
      <4>2. PICK m \in Nat : m = Len(req[t].left)
        BY <2>4
      <4>3. j \in 1..(m - 1)
        BY <1>2, <4>2
      <4>4. j + 1 \in 1..m /\ n + (j + 1) = n + 1 + j
        BY <4>3
      <4>5. req[t].left[j + 1] = req[t].cbs[n + (j + 1)]
        BY <2>4, <4>1, <4>2, <4>4 DEF Timely
      <4>6. req'[t].left[j] = req[t].left[j + 1]
        BY <1>2
      <4> QED BY <4>1, <4>4, <4>5, <4>6
    <3>3. ASSUME NEW i \in 1..(Taken(t) + 1)
          PROVE  req[t].cbs[i] \in DOMAIN main /\ main'[req[t].cbs[i]].lease + req[t].age >= Lease
      <4>1. CASE i \in 1..Taken(t)
        <5>1. PICK c \in DOMAIN main : c = req[t].cbs[i] /\ main[c].lease + req[t].age >= Lease
          BY <1>2, <2>4, <4>1 DEF Timely, Since
        <5>2. CASE c = b BY <1>2, <2>1, <2>4, <5>1, <5>2
        <5>3. CASE c # b BY <1>2, <5>1, <5>3
        <5> QED BY <5>2, <5>3
      <4>2. CASE i = Taken(t) + 1
        BY <1>2, <2>1, <2>4, <4>2
      <4> QED BY <1>2, <4>1, <4>2
    <3>4. Since(t)' = req[t].age
      BY <1>2 DEF Since
    <3>5. Taken(t)' \in Nat
      BY <1>2
    <3> QED BY <1>2, <3>1, <3>2, <3>3, <3>4, <3>5 DEF Timely
  <2>6. ASSUME NEW x \in Threads, x # t, Holds(x)'
        PROVE  Timely(x)'
    <3>1. ASSUME NEW i \in 1..Taken(x)
          PROVE  req[x].cbs[i] \in DOMAIN main /\ main'[req[x].cbs[i]].lease + Since(x) >= Lease
      <4>1. PICK c \in DOMAIN main : c = req[x].cbs[i] /\ main[c].lease + Since(x) >= Lease
        BY <2>3, <2>6 DEF Timely
      <4>2. CASE c = b BY <1>2, <2>1, <2>3, <2>6, <4>1, <4>2
      <4>3. CASE c # b BY <1>2, <4>1, <4>3
      <4> QED BY <4>2, <4>3
    <3>2. req'[x] = req[x] /\ Timely(x) /\ DOMAIN main' = DOMAIN main
      BY <1>2, <2>3, <2>6
    <3> QED BY <3>1, <3>2 DEF Timely, Taken, Since, StageLimit
  <2>7. Timed'
    BY <2>5, <2>6 DEF Timed
  <2>8. ASSUME NEW x \in Threads, x # t, Holds(x), NEW i \in 1..Taken(x)
        PROVE  req[x].cbs[i] # b
    BY <1>2, <2>8, LeaseRuns DEF LeaseInv
  <2>9. Len(req'[t].cbs) - Len(req'[t].left) = Taken(t) + 1
    BY <1>2 DEF Taken
  <2>10. ASSUME NEW x \in Threads, x # t, Holds(x), NEW i \in 1..Taken(x), NEW j \in 1..(Taken(t) + 1)
         PROVE  req[x].cbs[i] # req[t].cbs[j]
    <3>1. CASE j \in 1..Taken(t)
      BY <1>2, <2>10, <3>1 DEF LeaseInv, Apart
    <3>2. CASE j = Taken(t) + 1
      BY <1>2, <2>8, <2>10, <3>2
    <3> QED BY <1>2, <3>1, <3>2
  <2>11. Apart'
    <3> SUFFICES ASSUME NEW x \in Threads, NEW y \in Threads, x # y, Holds(x)', Holds(y)',
                        NEW i \in 1..(Len(req'[x].cbs) - Len(req'[x].left)),
                        NEW j \in 1..(Len(req'[y].cbs) - Len(req'[y].left))
                 PROVE  req'[x].cbs[i] # req'[y].cbs[j]
      BY DEF Apart, Taken, Holds
    <3>a. req'[t].cbs = req[t].cbs
      BY <1>2
    <3>1. CASE x = t
      <4>1. Holds(y) /\ req'[y] = req[y] /\ j \in 1..Taken(y) /\ i \in 1..(Taken(t) + 1)
        BY <2>3, <2>9, <3>1 DEF Taken
      <4> QED BY <2>10, <3>a, <3>1, <4>1
    <3>2. CASE y = t
      <4>1. Holds(x) /\ req'[x] = req[x] /\ i \in 1..Taken(x) /\ j \in 1..(Taken(t) + 1)
        BY <2>3, <2>9, <3>2 DEF Taken
      <4> QED BY <2>10, <3>a, <3>2, <4>1
    <3>3. CASE x # t /\ y # t
      <4>1. Holds(x) /\ req'[x] = req[x] /\ Holds(y) /\ req'[y] = req[y]
        BY <2>3, <3>3
      <4> QED BY <4>1 DEF LeaseInv, Apart, Taken
    <3> QED BY <3>1, <3>2, <3>3
  <2> QED BY <2>7, <2>11 DEF LeaseInv
<1>3. TryStartSubmission(t) /\ Timed
  BY DEF LeaseInv
<1> QED BY <1>1, <1>2, <1>3, TryStartSubmissionDoes

(* A resubmission holds nothing. *)
LEMMA StartResubmissionLease ==
  ASSUME Inv, LeaseInv, NEW t \in Threads, NEW u, StartResubmission(t, u)
  PROVE  LeaseInv'
<1>0. PICK l : l = \A b \in PfmsSubmissionStatus("Failed") : main[b].uid # u
  OBVIOUS
<1>1. PICK i \in DOMAIN subm : req' = [req EXCEPT ![t] = [op |-> "resubmit", pc |-> "read", cbs |-> subm[i].cbs,
                                  left |-> << >>, uid |-> 0, age |-> 0, late |-> l]]
  BY <1>0 DEF StartResubmission, GetCbRequestData
<1>2. Alone(t) /\ req'[t].op = "resubmit" /\ UNCHANGED main
  BY <1>1 DEF StartResubmission, tables, Inv, ReqOK, Alone
<1> QED BY <1>2, LeasesStand DEF Alone, Holds

(* What building the entry does. *)
LEMMA BuildDoes ==
  ASSUME Inv, NEW t \in Threads, NEW op \in {"submit", "resubmit"}, NEW refused, Build(t, op, refused)
  PROVE  /\ Submission_(t) /\ req[t].op = op /\ req[t].pc = "read" /\ UNCHANGED <<main, subm, lost>>
         /\ \/ Done(t) /\ UNCHANGED pfms
            \/ /\ Alone(t) /\ req'[t].op = op /\ req'[t].pc = "login" /\ req'[t].uid = NextUid
               /\ req'[t].cbs = req[t].cbs /\ req'[t].left = req[t].left /\ req'[t].age = 0
               /\ req'[t].late = req[t].late
               /\ DOMAIN pfms' = DOMAIN pfms \cup {NextUid}
               /\ \A u \in DOMAIN pfms : pfms'[u] = pfms[u]
               /\ pfms'[NextUid].by = op /\ pfms'[NextUid].cbs = req[t].cbs /\ pfms'[NextUid].st = "built"
               /\ pfms'[NextUid].late = req[t].late
<1>1. Submission_(t) /\ req[t].op = op /\ req[t].pc = "read" /\ UNCHANGED <<main, subm, lost>>
  BY SubmissionIs DEF Build, At, Submits, tables
<1>2. ASSUME ~refused
      PROVE  /\ Alone(t) /\ req'[t].op = op /\ req'[t].pc = "login" /\ req'[t].uid = NextUid
             /\ req'[t].cbs = req[t].cbs /\ req'[t].left = req[t].left /\ req'[t].age = 0
             /\ req'[t].late = req[t].late
             /\ DOMAIN pfms' = DOMAIN pfms \cup {NextUid}
             /\ \A u \in DOMAIN pfms : pfms'[u] = pfms[u]
             /\ pfms'[NextUid].by = op /\ pfms'[NextUid].cbs = req[t].cbs /\ pfms'[NextUid].st = "built"
             /\ pfms'[NextUid].late = req[t].late
  <2>1. PICK u : u = NextUid
    OBVIOUS
  <2>2. PICK e : e = [by |-> req[t].op, cbs |-> req[t].cbs, of |-> 0, st |-> "built",
                 late |-> req[t].late,
                 amount |-> [o \in DdoCodes |-> Net(Payload(GetPfmsJson(req[t].cbs), ClosingBalance(req[t].cbs)), o)]]
    OBVIOUS
  <2>3. pfms' = Put(pfms, u, e) /\ req' = [req EXCEPT ![t].pc = "login", ![t].uid = u, ![t].age = 0]
    BY <1>2, <2>1, <2>2 DEF Build
  <2>4. e.by = op /\ e.cbs = req[t].cbs /\ e.st = "built" /\ e.late = req[t].late
    BY <1>1, <2>2
  <2>5. u \notin DOMAIN pfms
    BY <2>1, NextUidIsNew
  <2>6. DOMAIN pfms' = DOMAIN pfms \cup {u} /\ pfms'[u] = e /\ \A v \in DOMAIN pfms : pfms'[v] = pfms[v]
    BY <2>3, <2>5 DEF Put
  <2>7. /\ Alone(t) /\ req'[t].op = op /\ req'[t].pc = "login" /\ req'[t].uid = u
        /\ req'[t].cbs = req[t].cbs /\ req'[t].left = req[t].left /\ req'[t].age = 0
        /\ req'[t].late = req[t].late
    BY <1>1, <2>3 DEF Inv, ReqOK, Alone, Submission_, SubmitFields
  <2> QED BY <2>1, <2>4, <2>6, <2>7
<1>3. CASE refused
  BY <1>1, <1>3 DEF Build
<1> QED BY <1>1, <1>2, <1>3

(* A submission that goes on to the next stage. *)
LEMMA StageLease ==
  ASSUME Inv, LeaseInv, NEW t \in Threads, Submits(t), Alone(t),
         req'[t].op = req[t].op, req'[t].cbs = req[t].cbs, req'[t].left = req[t].left, req'[t].age = 0,
         \/ req[t].pc = "read" /\ req'[t].pc = "login"
         \/ req[t].pc = "login" /\ req'[t].pc = "post"
         \/ req[t].pc = "post" /\ req'[t].pc = "record"
         \/ req'[t].pc = "log",
         DOMAIN main' = DOMAIN main, \A b \in DOMAIN main : main'[b].lease = main[b].lease
  PROVE  LeaseInv'
<1>1. DbLimit \in Nat /\ CallLimit \in Nat
  BY CashbookAssumption
<1>2. CASE Holds(t) /\ Holds(t)'
  <2>1. req[t].age \in Nat /\ req[t].age <= StageLimit(t) /\ Since(t) \in Nat
    BY <1>2, SinceIsShort DEF LeaseInv, Timed, Timely
  <2>2. CASE req[t].pc = "read" /\ req'[t].pc = "login"
    BY <1>1, <1>2, <2>1, <2>2, LeasesStand DEF Onward, Since, StageLimit, Alone
  <2>3. CASE req[t].pc = "login" /\ req'[t].pc = "post"
    BY <1>1, <1>2, <2>1, <2>3, LeasesStand DEF Onward, Since, StageLimit, Alone
  <2>4. CASE req[t].pc = "post" /\ req'[t].pc = "record"
    BY <1>1, <1>2, <2>1, <2>4, LeasesStand DEF Onward, Since, StageLimit, Alone
  <2> QED BY <1>2, <2>2, <2>3, <2>4 DEF Holds
<1>3. CASE ~Holds(t)'
  BY <1>3, LeasesStand DEF Alone
<1>4. CASE ~Holds(t)
  BY <1>3, <1>4 DEF Holds
<1> QED BY <1>2, <1>3, <1>4

(* Building the payload takes no longer than the statements are granted. *)
LEMMA BuildLease ==
  ASSUME Inv, LeaseInv, NEW t \in Threads, NEW op \in {"submit", "resubmit"}, NEW refused, Build(t, op, refused)
  PROVE  LeaseInv'
<1>1. UNCHANGED main /\ Submits(t) /\ req[t].op = op /\ req[t].pc = "read"
  BY BuildDoes DEF Submission_
<1>2. CASE Done(t)
  <2>1. Alone(t) /\ req'[t] = Idle
    BY <1>2, Ends DEF Inv
  <2> QED BY <1>1, <2>1, LeasesStand DEF Alone, Holds, Idle
<1>3. CASE ~Done(t)
  BY <1>1, <1>3, BuildDoes, StageLease
<1> QED BY <1>2, <1>3

(* What logging in at PFMS, and its answer, do. *)
LEMMA LogInDoes ==
  ASSUME Inv, NEW t \in Threads, LogIn(t)
  PROVE  /\ Submits(t) /\ req[t].pc = "login" /\ req[t].uid \in DOMAIN pfms
         /\ pfms[req[t].uid].cbs = req[t].cbs /\ pfms[req[t].uid].st = "built"
         /\ Alone(t) /\ req'[t].op = req[t].op /\ req'[t].pc = "post" /\ req'[t].uid = req[t].uid
         /\ req'[t].cbs = req[t].cbs /\ req'[t].left = req[t].left /\ req'[t].age = 0
         /\ req'[t].late = req[t].late /\ UNCHANGED <<main, subm, lost>>
         /\ DOMAIN pfms' = DOMAIN pfms /\ \A u \in DOMAIN pfms : u # req[t].uid => pfms'[u] = pfms[u]
         /\ pfms'[req[t].uid].st = "sent" /\ pfms'[req[t].uid].cbs = req[t].cbs
         /\ pfms'[req[t].uid].by = pfms[req[t].uid].by /\ pfms'[req[t].uid].late = pfms[req[t].uid].late
<1>1. Submission_(t) /\ Sends(t) /\ req[t].pc = "login" /\ UNCHANGED <<main, subm, lost>>
  BY SubmissionIs DEF LogIn, Sends, tables
<1>2. PICK u : u = req[t].uid
  OBVIOUS
<1>3. u \in DOMAIN pfms /\ pfms[u].st = "built" /\ pfms[u].cbs = req[t].cbs
  BY <1>1, <1>2 DEF Inv, Entries
<1>4. Goto(t, "post") /\ pfms' = [pfms EXCEPT ![u].st = "sent"]
  BY <1>2 DEF LogIn
<1>5. DOMAIN pfms[u] = PfmsFields
  BY <1>3 DEF Inv, RowsOK
<1>6. /\ DOMAIN pfms' = DOMAIN pfms /\ \A v \in DOMAIN pfms : v # u => pfms'[v] = pfms[v]
      /\ pfms'[u].st = "sent" /\ pfms'[u].cbs = pfms[u].cbs /\ pfms'[u].by = pfms[u].by
      /\ pfms'[u].late = pfms[u].late
  BY <1>3, <1>4, <1>5 DEF PfmsFields
<1>7. /\ Alone(t) /\ req'[t].op = req[t].op /\ req'[t].pc = "post" /\ req'[t].uid = req[t].uid
      /\ req'[t].cbs = req[t].cbs /\ req'[t].left = req[t].left /\ req'[t].age = 0
      /\ req'[t].late = req[t].late
  BY <1>1, <1>4, Advance DEF Inv
<1> QED BY <1>1, <1>2, <1>3, <1>6, <1>7 DEF Submission_

(* The answer of PFMS ends a refused submission and moves any other on. *)
LEMMA AnswerOfDoes ==
  ASSUME Inv, NEW t \in Threads, NEW op \in {"submit", "resubmit"}, AnswerOf(t, op)
  PROVE  /\ Submits(t) /\ req[t].pc = "post" /\ UNCHANGED <<main, subm, pfms, lost>>
         /\ \/ Done(t) /\ pfms[req[t].uid].st = "refused"
            \/ /\ Alone(t) /\ req'[t].op = req[t].op /\ req'[t].pc = "record" /\ req'[t].uid = req[t].uid
               /\ req'[t].cbs = req[t].cbs /\ req'[t].left = req[t].left /\ req'[t].age = 0
               /\ req'[t].late = req[t].late
<1>1. Submits(t) /\ req[t].pc = "post" /\ UNCHANGED <<main, subm, pfms, lost>>
  BY DEF AnswerOf, At, Submits, tables
<1>2. CASE Goto(t, "record")
  BY <1>1, <1>2, Advance, SubmissionIs DEF Inv
<1> QED BY <1>1, <1>2 DEF AnswerOf

(* The answer comes within the timeout of CallAPI. *)
LEMMA AnswerOfLease ==
  ASSUME Inv, LeaseInv, NEW t \in Threads, NEW op \in {"submit", "resubmit"}, AnswerOf(t, op)
  PROVE  LeaseInv'
<1>1. Submits(t) /\ req[t].pc = "post" /\ UNCHANGED main
  BY AnswerOfDoes
<1>2. CASE Done(t)
  <2>1. Alone(t) /\ req'[t] = Idle
    BY <1>2, Ends DEF Inv
  <2> QED BY <1>1, <2>1, LeasesStand DEF Alone, Holds, Idle
<1>3. CASE ~Done(t)
  BY <1>1, <1>3, AnswerOfDoes, StageLease
<1> QED BY <1>2, <1>3

(* What recording the identifier does. *)
LEMMA RecordDoes ==
  ASSUME Inv, NEW t \in Threads, GetPfmsUpdateStatus(t)
  PROVE  /\ Submits(t) /\ req[t].pc = "record" /\ UNCHANGED <<subm, pfms, lost>>
         /\ req[t].uid # 0 /\ req[t].uid \in DOMAIN pfms /\ pfms[req[t].uid].cbs = req[t].cbs
         /\ Alone(t) /\ req'[t].op = req[t].op /\ req'[t].pc = "log"
         /\ req'[t].cbs = req[t].cbs /\ req'[t].left = req[t].left /\ req'[t].age = 0
         /\ DOMAIN main' = DOMAIN main
         /\ \A b \in DOMAIN main : main'[b].lease = main[b].lease
         /\ \A b \in DOMAIN main : b \in Range(req[t].cbs) => main'[b].uid = req[t].uid /\ main'[b].gen = TRUE
         /\ \A b \in DOMAIN main : b \notin Range(req[t].cbs) => main'[b] = main[b]
<1>1. Submission_(t) /\ req[t].pc = "record" /\ Sends(t) /\ Goto(t, "log") /\ UNCHANGED <<subm, pfms, lost>>
  BY SubmissionIs DEF GetPfmsUpdateStatus, Sends
<1>2. PICK u : u = req[t].uid
  OBVIOUS
<1>3. main' = [b \in DOMAIN main |-> IF b \in Range(req[t].cbs) THEN Recorded(main[b], u) ELSE main[b]]
  BY <1>2 DEF GetPfmsUpdateStatus
<1>4. u # 0 /\ u \in DOMAIN pfms /\ pfms[u].cbs = req[t].cbs
  BY <1>1, <1>2 DEF Inv, Entries, RowsOK
<1>5. ASSUME NEW b \in DOMAIN main, b \in Range(req[t].cbs)
      PROVE  main'[b].uid = u /\ main'[b].gen = TRUE /\ main'[b].lease = main[b].lease
  <2>1. main'[b] = [main[b] EXCEPT !.uid = u, !.gen = TRUE, !.flag = "Pending"]
    BY <1>3, <1>5 DEF Recorded
  <2>2. DOMAIN main[b] = MainFields
    BY DEF Inv, RowsOK
  <2> QED BY <2>1, <2>2 DEF MainFields
<1>6. DOMAIN main' = DOMAIN main /\ \A b \in DOMAIN main : b \notin Range(req[t].cbs) => main'[b] = main[b]
  BY <1>3
<1>7. /\ Alone(t) /\ req'[t].op = req[t].op /\ req'[t].pc = "log"
      /\ req'[t].cbs = req[t].cbs /\ req'[t].left = req[t].left /\ req'[t].age = 0
  BY <1>1, Advance DEF Inv
<1>8. \A b \in DOMAIN main : main'[b].lease = main[b].lease
  BY <1>5, <1>6
<1> QED BY <1>1, <1>2, <1>4, <1>5, <1>6, <1>7, <1>8 DEF Submission_

(* A unit of time takes as much from the lease as it adds to the time it is held. *)
LEMMA TickLease ==
  ASSUME Inv, LeaseInv, Tick
  PROVE  LeaseInv'
<1>1. DOMAIN main' = DOMAIN main /\ \A b \in DOMAIN main :
        main'[b].lease = IF main[b].lease = 0 THEN 0 ELSE main[b].lease - 1
  BY TickDoes
<1>2. \A x \in Threads : ~Submits(x) => req'[x] = req[x]
  BY TickDoes
<1>3. \A x \in Threads : Submits(x) =>
         /\ req'[x].op = req[x].op /\ req'[x].pc = req[x].pc
         /\ req'[x].cbs = req[x].cbs /\ req'[x].left = req[x].left /\ req'[x].uid = req[x].uid
         /\ req'[x].age = req[x].age + 1 /\ req[x].age < StageLimit(x)
  BY TickDoes
<1>4. DbLimit \in Nat /\ CallLimit \in Nat /\ Lease \in Nat
  BY CashbookAssumption
<1>5. ASSUME NEW x \in Threads, Holds(x)'
      PROVE  /\ Holds(x) /\ req'[x].pc = req[x].pc /\ req'[x].cbs = req[x].cbs /\ req'[x].left = req[x].left
             /\ req'[x].age = req[x].age + 1 /\ req[x].age < StageLimit(x)
  BY <1>2, <1>3, <1>5 DEF Holds, Submits
<1>6. ASSUME NEW x \in Threads, Holds(x)'
      PROVE  Timely(x)'
  <2>1. Holds(x) /\ req'[x].pc = req[x].pc /\ req'[x].cbs = req[x].cbs /\ req'[x].left = req[x].left
        /\ req'[x].age = req[x].age + 1 /\ req[x].age < StageLimit(x)
    BY <1>5, <1>6
  <2>2. Timely(x) /\ Since(x) \in Nat /\ req[x].age \in Nat /\ StageLimit(x) \in Nat
    BY <2>1, SinceIsShort DEF LeaseInv, Timed
  <2>3. Since(x)' = Since(x) + 1
    BY <1>4, <2>1, <2>2 DEF Since
  <2>4. req'[x].age <= StageLimit(x)'
    BY <2>1, <2>2 DEF StageLimit
  <2>5. ASSUME NEW i \in 1..Taken(x)
        PROVE  req[x].cbs[i] \in DOMAIN main /\ main'[req[x].cbs[i]].lease + (Since(x) + 1) >= Lease
    <3>1. PICK b \in DOMAIN main : b = req[x].cbs[i] /\ main[b].lease + Since(x) >= Lease
      BY <2>2 DEF Timely
    <3>2. main[b].lease \in Nat
      BY DEF Inv, RowsOK
    <3> QED BY <1>1, <1>4, <2>2, <3>1, <3>2
  <2> QED BY <1>1, <2>1, <2>2, <2>3, <2>4, <2>5 DEF Timely, Taken
<1>7. Apart'
  <2> SUFFICES ASSUME NEW x \in Threads, NEW y \in Threads, x # y, Holds(x)', Holds(y)',
                      NEW i \in 1..(Len(req'[x].cbs) - Len(req'[x].left)),
                      NEW j \in 1..(Len(req'[y].cbs) - Len(req'[y].left))
               PROVE  req'[x].cbs[i] # req'[y].cbs[j]
    BY DEF Apart, Taken, Holds
  <2>1. /\ Holds(x) /\ req'[x].cbs = req[x].cbs /\ req'[x].left = req[x].left
        /\ Holds(y) /\ req'[y].cbs = req[y].cbs /\ req'[y].left = req[y].left
    BY <1>5
  <2> QED BY <2>1 DEF LeaseInv, Apart, Taken
<1> QED BY <1>6, <1>7 DEF LeaseInv, Timed

(* No request holds anything at first. *)
LEMMA LeaseStarts == CashbookInit => LeaseInv
BY DEF CashbookInit, LeaseInv, Timed, Apart, Holds, Idle

(* A step is quiet, or the clock's, or one of a submission that goes on. *)
LEMMA StepKinds ==
  ASSUME Inv, CashbookNext
  PROVE  \/ Uninvolved \/ Tick
         \/ \E t \in Threads :
              \/ \E cbs \in Requests : StartSubmission(t, cbs)
              \/ \E u \in 1..MaxUid : StartResubmission(t, u)
              \/ TryStartSubmission(t)
              \/ \E op \in {"submit", "resubmit"} : AnswerOf(t, op) \/ \E refused \in BOOLEAN : Build(t, op, refused)
              \/ LogIn(t) \/ GetPfmsUpdateStatus(t)
<1>1. CASE Outside
  BY <1>1, ArriveQuiet, ListingQuiet, PfmsQuiet DEF Outside
<1>2. ASSUME NEW t \in Threads, Begin(t)
      PROVE  \/ Uninvolved
             \/ \E cbs \in Requests : StartSubmission(t, cbs)
             \/ \E u \in 1..MaxUid : StartResubmission(t, u)
  BY <1>2, BeginQuiet DEF Begin, StartVerification, StartEmptyVerification
<1>3. ASSUME NEW t \in Threads, Serve(t)
      PROVE  \/ Uninvolved \/ TryStartSubmission(t)
             \/ \E op \in {"submit", "resubmit"} : AnswerOf(t, op) \/ \E refused \in BOOLEAN : Build(t, op, refused)
             \/ LogIn(t) \/ GetPfmsUpdateStatus(t)
  <2>1. CASE \/ PostPfmsverified(t) \/ PostEmptyPfmsverified(t) \/ FinishSubmission(t) \/ FinishResubmission(t)
             \/ PollAsks(t) \/ UpdateStatusInMain(t) \/ UpdateStatusInSubmission(t) \/ Stop(t)
    BY <2>1, PostPfmsverifiedQuiet, PostEmptyPfmsverifiedQuiet, FinishQuiet, PollAsksQuiet, UpdateStatusInMainQuiet,
       UpdateStatusInSubmissionQuiet, StopQuiet DEF FinishSubmission, FinishResubmission
  <2>2. CASE BuildPayload(t)
    <3>1. PICK refused \in BOOLEAN :
            refused <=> (DOMAIN Lines(t) = {} \/ TooFarOff(Lines(t), ClosingBalance(req[t].cbs)))
      OBVIOUS
    <3>2. Build(t, "submit", refused)
      BY <2>2, <3>1 DEF BuildPayload, Build
    <3> QED BY <3>2
  <2>3. CASE RebuildPayload(t)
    BY <2>3 DEF RebuildPayload
  <2> QED BY <1>3, <2>1, <2>2, <2>3 DEF Serve, Answered, ReAnswered
<1> QED BY <1>1, <1>2, <1>3 DEF CashbookNext

(* Every step keeps the invariant of the lease. *)
LEMMA LeaseSteps == ASSUME LongLease, Inv, LeaseInv, CashbookNext PROVE LeaseInv'
<1>1. ASSUME NEW t \in Threads, LogIn(t) PROVE LeaseInv'
  BY <1>1, LogInDoes, StageLease
<1>2. ASSUME NEW t \in Threads, GetPfmsUpdateStatus(t) PROVE LeaseInv'
  BY <1>2, RecordDoes, StageLease
<1> QED BY <1>1, <1>2, StepKinds, QuietLease, TickLease, StartSubmissionLease, StartResubmissionLease,
           TryStartSubmissionLease, AnswerOfLease, BuildLease

(* So does a step that changes nothing. *)
LEMMA LeaseRests == Inv /\ LeaseInv /\ UNCHANGED vars => LeaseInv'
BY LeasesStand DEF vars

(* The invariant of the lease, always, while the lease is long enough. *)
LEMMA LeaseHolds == ASSUME LongLease PROVE CashbookSpec => []LeaseInv
<1>1. Inv /\ Inv' /\ LeaseInv /\ [CashbookNext]_vars => LeaseInv'
  BY LeaseSteps, LeaseRests
<1> QED BY <1>1, LeaseStarts, Invariant, PTL DEF CashbookSpec

(* While the lease of TryStartSubmission is longer than the three calls to PFMS and *)
(* the statements around them, no two submissions ever hold the same cash book.     *)
THEOREM OneSubmissionAtATime ==
  ASSUME LongLease
  PROVE  CashbookSpec => []OneSubmissionInFlight
<1>1. ASSUME Inv, LeaseInv PROVE OneSubmissionInFlight
  <2> SUFFICES ASSUME NEW t1 \in Threads, NEW t2 \in Threads, t1 # t2, InFlight(t1), InFlight(t2),
                      NEW b \in Range(req[t1].cbs) \cap Range(req[t2].cbs)
               PROVE  FALSE
    BY DEF OneSubmissionInFlight
  <2>1. ASSUME NEW t \in Threads, InFlight(t), b \in Range(req[t].cbs)
        PROVE  Holds(t) /\ \E i \in 1..Taken(t) : req[t].cbs[i] = b
    <3>1. Holds(t) /\ req[t].left = << >> /\ req[t].cbs \in Seq(Books)
      BY <1>1, <2>1, SubmissionIs DEF InFlight, At, Holds, Submits, LeaseInv, Timed, Timely, Submission_
    <3>2. Taken(t) = Len(req[t].cbs) /\ DOMAIN req[t].cbs = 1..Len(req[t].cbs)
      BY <3>1, EmptySeq, LenProperties DEF Taken
    <3> QED BY <2>1, <3>1, <3>2 DEF Range
  <2> QED BY <1>1, <2>1 DEF LeaseInv, Apart
<1> QED BY <1>1, LeaseHolds, Invariant, PTL

--------------------------------------------------------------------------------
(* The entries *)

NamesKept ==
  /\ DOMAIN main \subseteq DOMAIN main'
  /\ \A b \in DOMAIN main : main[b].uid # 0 => main'[b].uid # 0

NamedNext(cbs) == \A i \in DOMAIN cbs : cbs[i] \in DOMAIN main' /\ main'[cbs[i]].uid # 0

\* What is on its way to PFMS stays so, or is accounted for otherwise; nothing new logs in.
SendersStand ==
  \A x \in Threads :
    /\ Unrecorded(x) => \/ Unrecorded(x)' /\ req'[x].uid = req[x].uid
                        \/ req[x].uid \in lost'
                        \/ pfms[req[x].uid].st = "refused"
                        \/ NamedNext(pfms[req[x].uid].cbs)
    /\ Submits(x)' /\ req'[x].pc = "login" =>
         Submits(x) /\ req[x].pc = "login" /\ req'[x].uid = req[x].uid

(* Cash books that name an entry go on naming one. *)
LEMMA NamedStays == ASSUME NamesKept, NEW cbs, Named(cbs) PROVE Named(cbs)'
BY DEF NamesKept, Named

(* The entries stay accounted for by a step that builds and sends nothing. *)
LEMMA EntriesAccounted ==
  ASSUME Accounted, BuiltAfterTheDead, DOMAIN pfms' = DOMAIN pfms, \A u \in DOMAIN pfms : EntryStands(u),
         lost \subseteq lost', NamesKept, SendersStand
  PROVE  Accounted' /\ BuiltAfterTheDead'
<1>1. ASSUME NEW u \in DOMAIN pfms, pfms'[u].st \in {"sent", "Pending", "Success"}
      PROVE  \/ u \in lost'
             \/ Named(pfms[u].cbs)'
             \/ \E t \in Threads : Unrecorded(t)' /\ req'[t].uid = u
  <2>1. pfms[u].st \in {"sent", "Pending", "Success"} /\ pfms'[u].cbs = pfms[u].cbs
    BY <1>1 DEF EntryStands
  <2>2. CASE u \in lost
    BY <2>2
  <2>3. CASE Named(pfms[u].cbs)
    BY <2>1, <2>3 DEF Named, NamesKept
  <2>4. ASSUME NEW t \in Threads, Unrecorded(t), req[t].uid = u
        PROVE  \/ u \in lost'
               \/ Named(pfms[u].cbs)'
               \/ Unrecorded(t)' /\ req'[t].uid = u
    <3>1. \/ Unrecorded(t)' /\ req'[t].uid = req[t].uid
          \/ req[t].uid \in lost'
          \/ pfms[req[t].uid].st = "refused"
          \/ NamedNext(pfms[u].cbs)
      BY <2>4 DEF SendersStand
    <3>2. CASE NamedNext(pfms[u].cbs)
      BY <2>1, <3>2 DEF Named, NamedNext
    <3> QED BY <2>1, <2>4, <3>1, <3>2
  <2> QED BY <2>1, <2>2, <2>3, <2>4 DEF Accounted
<1>2. Accounted'
  BY <1>1 DEF Accounted
<1>3. ASSUME NEW u \in DOMAIN pfms, Dead(u) PROVE Dead(u)'
  <2>1. EntryStands(u)
    OBVIOUS
  <2>2. CASE pfms[u].st \in {"refused", "Failed"}
    BY <2>1, <2>2 DEF EntryStands, Dead
  <2>3. CASE pfms[u].st = "built" /\ \A t \in Threads : Submits(t) /\ req[t].pc = "login" => req[t].uid # u
    <3>1. pfms'[u].st = "built"
      BY <2>1, <2>3 DEF EntryStands
    <3>2. ASSUME NEW t \in Threads, Submits(t)', req'[t].pc = "login" PROVE req'[t].uid # u
      BY <2>3, <3>2 DEF SendersStand
    <3> QED BY <3>1, <3>2 DEF Dead, Submits
  <2> QED BY <1>3, <2>2, <2>3 DEF Dead
<1>4. ASSUME NEW u \in DOMAIN pfms, NEW v \in DOMAIN pfms, u < v, pfms'[v].by = "submit", ~pfms'[v].late, Shares(u, v)'
      PROVE  u \in lost' \/ Dead(u)'
  <2>1. pfms[v].by = "submit" /\ ~pfms[v].late /\ Shares(u, v)
    <3>1. EntryStands(u) /\ EntryStands(v)
      OBVIOUS
    <3> QED BY <1>4, <3>1 DEF EntryStands, Shares, InBook
  <2>2. u \in lost \/ Dead(u)
    BY <1>4, <2>1 DEF BuiltAfterTheDead
  <2> QED BY <1>3, <2>2
<1>5. BuiltAfterTheDead'
  BY <1>4 DEF BuiltAfterTheDead, Shares, Dead
<1> QED BY <1>2, <1>5

(* A quiet step keeps the invariant of the entries. *)
LEMMA QuietLoss == ASSUME Inv, LeaseInv, LossInv, Uninvolved PROVE LossInv'
<1>1. RowsStand /\ SubmStands
  BY DEF Uninvolved
<1>2. NamesKept
  BY <1>1 DEF RowsStand, NamesKept
<1>3. NamedIsGenerated'
  BY <1>1 DEF RowsStand, LossInv, NamedIsGenerated
<1>4. ASSUME NEW x \in Threads, Submits(x)'
      PROVE  req'[x] = req[x] /\ Submits(x)
  <2>1. req'[x] = req[x]
    BY <1>4 DEF Uninvolved, RequestStands
  <2> QED BY <1>4, <2>1 DEF Submits
<1>5. ASSUME NEW x \in Threads, Holds(x)'
      PROVE  req'[x] = req[x] /\ Holds(x) /\ Timely(x)
  <2>1. req'[x] = req[x]
    BY <1>4, <1>5 DEF Holds, Submits
  <2> QED BY <1>5, <2>1 DEF Holds, LeaseInv, Timed
<1>6. WaitIsCovered'
  <2>1. ASSUME NEW x \in Threads, Holds(x)', ~req'[x].late, NEW j \in 1..Len(req'[x].left),
               req'[x].left[j] \in DOMAIN main', main'[req'[x].left[j]].uid # 0
        PROVE  main'[req'[x].left[j]].lease + req'[x].age + 2 * DbLimit + 3 * CallLimit >= Lease
    BY <1>1, <1>5, <2>1 DEF RowsStand, LossInv, WaitIsCovered
  <2> QED BY <2>1 DEF WaitIsCovered
<1>7. HeldIsUnnamed'
  <2>1. ASSUME NEW x \in Threads, Holds(x)', ~req'[x].late, NEW i \in 1..(Len(req'[x].cbs) - Len(req'[x].left))
        PROVE  main'[req'[x].cbs[i]].uid = 0
    <3>1. req'[x] = req[x] /\ Holds(x) /\ Timely(x) /\ i \in 1..Taken(x)
      BY <1>5, <2>1 DEF Taken
    <3>2. ~req[x].late
      BY <2>1, <3>1
    <3>3. req[x].cbs[i] \in DOMAIN main /\ main[req[x].cbs[i]].uid = 0
      BY <3>1, <3>2 DEF LossInv, HeldIsUnnamed, Timely
    <3> QED BY <1>1, <3>1, <3>3 DEF RowsStand
  <2> QED BY <2>1 DEF HeldIsUnnamed, Taken, Holds
<1>8. OthersAreNamed'
  <2>1. ASSUME NEW x \in Threads, Submits(x)', ~Holds(x)'
        PROVE  Named(req[x].cbs)' /\ req'[x] = req[x]
    <3>1. req'[x] = req[x] /\ Submits(x) /\ ~Holds(x)
      BY <1>4, <2>1 DEF Holds
    <3>2. Named(req[x].cbs)
      BY <3>1 DEF LossInv, OthersAreNamed
    <3> QED BY <1>2, <3>1, <3>2 DEF NamesKept, Named
  <2> QED BY <2>1 DEF OthersAreNamed, Named, Submits, Holds
<1>9. LoggedAreNamed'
  <2>1. ASSUME NEW i \in DOMAIN subm', NEW k \in DOMAIN subm'[i].cbs
        PROVE  subm'[i].cbs[k] \in DOMAIN main' /\ main'[subm'[i].cbs[k]].uid # 0
    <3>1. CASE i \in DOMAIN subm /\ subm'[i].cbs = subm[i].cbs
      BY <1>2, <2>1, <3>1 DEF LossInv, LoggedAreNamed, Named, NamesKept
    <3>2. ASSUME NEW t \in Threads, Submits(t), req[t].pc = "log", subm'[i].cbs = req[t].cbs
          PROVE  subm'[i].cbs[k] \in DOMAIN main' /\ main'[subm'[i].cbs[k]].uid # 0
      <4>1. ~Holds(t)
        BY <3>2 DEF Holds
      <4>2. Named(req[t].cbs)
        BY <3>2, <4>1 DEF LossInv, OthersAreNamed
      <4> QED BY <1>2, <2>1, <3>2, <4>2 DEF Named, NamesKept
    <3> QED BY <1>1, <3>1, <3>2 DEF SubmStands
  <2> QED BY <2>1 DEF LoggedAreNamed, Named
<1>10. SendersStand
  <2>1. ASSUME NEW x \in Threads PROVE RequestStands(x)
    BY DEF Uninvolved
  <2>2. ASSUME NEW x \in Threads
        PROVE  /\ Unrecorded(x) => \/ Unrecorded(x)' /\ req'[x].uid = req[x].uid
                                   \/ req[x].uid \in lost'
                                   \/ pfms[req[x].uid].st = "refused"
                                   \/ NamedNext(pfms[req[x].uid].cbs)
               /\ Submits(x)' /\ req'[x].pc = "login" =>
                    Submits(x) /\ req[x].pc = "login" /\ req'[x].uid = req[x].uid
    BY <1>4, <2>1 DEF RequestStands, Unrecorded, Submits
  <2> QED BY <2>2 DEF SendersStand
<1>11. Accounted' /\ BuiltAfterTheDead'
  BY <1>2, <1>10, EntriesAccounted DEF Uninvolved, LossInv
<1> QED BY <1>3, <1>6, <1>7, <1>8, <1>9, <1>11 DEF LossInv

\* What LossInv says of one request.
RequestLoss(t) ==
  /\ Holds(t) /\ ~req[t].late =>
       /\ \A j \in 1..Len(req[t].left) :
            req[t].left[j] \in DOMAIN main /\ main[req[t].left[j]].uid # 0 =>
              main[req[t].left[j]].lease + req[t].age + 2 * DbLimit + 3 * CallLimit >= Lease
       /\ \A i \in 1..Taken(t) : main[req[t].cbs[i]].uid = 0
  /\ Submits(t) /\ ~Holds(t) => Named(req[t].cbs)

(* The parts of the invariant about requests, request by request. *)
LEMMA LossOfRequests ==
  (WaitIsCovered /\ HeldIsUnnamed /\ OthersAreNamed) <=> \A t \in Threads : RequestLoss(t)
BY DEF WaitIsCovered, HeldIsUnnamed, OthersAreNamed, RequestLoss

(* A step of one submission that writes no identifier. *)
LEMMA OneRequestLoss ==
  ASSUME Inv, LeaseInv, LossInv, NEW t \in Threads, Alone(t), UNCHANGED subm,
         DOMAIN main' = DOMAIN main,
         \A b \in DOMAIN main : main'[b].uid = main[b].uid /\ main'[b].gen = main[b].gen
                                /\ main'[b].lease \in {main[b].lease, Lease},
         RequestLoss(t)'
  PROVE  NamedIsGenerated' /\ WaitIsCovered' /\ HeldIsUnnamed' /\ OthersAreNamed' /\ LoggedAreNamed' /\ NamesKept
<1>1. NamesKept
  BY DEF NamesKept
<1>2. NamedIsGenerated' /\ LoggedAreNamed'
  BY DEF LossInv, NamedIsGenerated, LoggedAreNamed, Named
<1>3. ASSUME NEW x \in Threads, x # t
      PROVE  RequestLoss(x)'
  <2>1. req'[x] = req[x] /\ RequestLoss(x)
    BY <1>3, LossOfRequests DEF Alone, LossInv
  <2>2. CASE Holds(x) /\ ~req[x].late
    <3>1. Timely(x) /\ req[x].age \in Nat /\ DbLimit \in Nat /\ CallLimit \in Nat /\ Lease \in Nat
      BY <2>2, SinceIsShort, CashbookAssumption DEF LeaseInv, Timed
    <3>2. ASSUME NEW j \in 1..Len(req[x].left), req[x].left[j] \in DOMAIN main
          PROVE  main'[req[x].left[j]].uid # 0 =>
                   main'[req[x].left[j]].lease + req[x].age + 2 * DbLimit + 3 * CallLimit >= Lease
      <4>1. PICK b \in DOMAIN main : b = req[x].left[j]
        BY <3>2
      <4>2. main[b].uid # 0 => main[b].lease + req[x].age + 2 * DbLimit + 3 * CallLimit >= Lease
        BY <2>1, <2>2, <4>1 DEF RequestLoss
      <4>3. main'[b].uid = main[b].uid /\ main'[b].lease \in {main[b].lease, Lease}
        OBVIOUS
      <4>4. CASE main'[b].lease = Lease
        BY <3>1, <4>1, <4>4
      <4>5. CASE main'[b].lease = main[b].lease
        BY <4>1, <4>2, <4>3, <4>5
      <4> QED BY <4>3, <4>4, <4>5
    <3>3. ASSUME NEW i \in 1..Taken(x)
          PROVE  main'[req[x].cbs[i]].uid = 0
      <4>1. req[x].cbs[i] \in DOMAIN main /\ main[req[x].cbs[i]].uid = 0
        BY <2>1, <2>2, <3>1 DEF RequestLoss, Timely
      <4> QED BY <4>1
    <3>4. Holds(x)' /\ Taken(x)' = Taken(x)
      BY <2>1, <2>2 DEF Holds, Taken
    <3> QED BY <2>1, <3>2, <3>3, <3>4 DEF RequestLoss
  <2>3. CASE ~Holds(x)
    <3>1. ~Holds(x)' /\ (Submits(x)' <=> Submits(x))
      BY <2>1, <2>3 DEF Holds, Submits
    <3> QED BY <2>1, <2>3, <3>1 DEF RequestLoss, Named
  <2>4. CASE Holds(x) /\ req[x].late
    <3>1. Holds(x)' /\ req'[x].late
      BY <2>1, <2>4 DEF Holds
    <3> QED BY <3>1 DEF RequestLoss
  <2> QED BY <2>2, <2>3, <2>4
<1>4. \A x \in Threads : RequestLoss(x)'
  BY <1>3
<1>5. WaitIsCovered' /\ HeldIsUnnamed' /\ OthersAreNamed'
  <2>1. (WaitIsCovered /\ HeldIsUnnamed /\ OthersAreNamed)' <=> (\A x \in Threads : RequestLoss(x))'
    BY DEF WaitIsCovered, HeldIsUnnamed, OthersAreNamed, RequestLoss
  <2>2. (\A x \in Threads : RequestLoss(x))' <=> \A x \in Threads : RequestLoss(x)'
    OBVIOUS
  <2> QED BY <1>4, <2>1, <2>2
<1> QED BY <1>1, <1>2, <1>5

(* The same, when PFMS has no new entry and the request goes on. *)
LEMMA SenderGoesOn ==
  ASSUME NEW t \in Threads, Alone(t),
         Unrecorded(t) => \/ Unrecorded(t)' /\ req'[t].uid = req[t].uid
                          \/ NamedNext(pfms[req[t].uid].cbs),
         ~Submits(t)' \/ req'[t].pc # "login"
  PROVE  SendersStand
<1>1. ASSUME NEW x \in Threads, x # t
      PROVE  /\ Unrecorded(x) => Unrecorded(x)' /\ req'[x].uid = req[x].uid
             /\ Submits(x)' /\ req'[x].pc = "login" => Submits(x) /\ req[x].pc = "login" /\ req'[x].uid = req[x].uid
  BY <1>1 DEF Alone, Unrecorded, Submits
<1> QED BY <1>1 DEF SendersStand

(* A list that is not outdated has cash books that are not generated, so they name no entry. *)
LEMMA StartSubmissionLoss ==
  ASSUME Inv, LeaseInv, LossInv, NEW t \in Threads, NEW cbs \in Requests, StartSubmission(t, cbs)
  PROVE  LossInv'
<1>1. UNCHANGED <<main, subm, pfms, lost>> /\ Alone(t) /\ Free(t)
      /\ req'[t] = [op |-> "submit", pc |-> "lease", cbs |-> cbs, left |-> cbs, uid |-> 0, age |-> 0,
                    late |-> Outdated(cbs)]
  BY DEF StartSubmission, tables, Inv, ReqOK, Alone
<1>2. cbs \in Seq(Books)
  BY CashbookAssumption
<1>3. ~Outdated(cbs) => \A i \in 1..Len(cbs) : cbs[i] \in DOMAIN main => main[cbs[i]].uid = 0
  <2>1. ASSUME ~Outdated(cbs), NEW i \in DOMAIN cbs, cbs[i] \in DOMAIN main PROVE main[cbs[i]].uid = 0
    <3>1. cbs[i] \in PfmsPending
      BY <2>1 DEF Outdated, Range
    <3> QED BY <2>1, <3>1 DEF PfmsPending, LossInv, NamedIsGenerated
  <2> QED BY <1>2, <2>1, LenProperties
<1>4. RequestLoss(t)'
  <2>1. Holds(t)' /\ Submits(t)'
    BY <1>1 DEF Holds, Submits
  <2>2. Len(cbs) - Len(cbs) = 0 /\ 1..0 = {}
    BY <1>2
  <2>3. Taken(t)' = 0
    BY <1>1, <2>2 DEF Taken
  <2>4. req'[t].late <=> Outdated(cbs)
    BY <1>1
  <2>5. req'[t].left = cbs /\ UNCHANGED main
    BY <1>1
  <2> QED BY <1>3, <2>1, <2>2, <2>3, <2>4, <2>5 DEF RequestLoss
<1>5. SendersStand
  BY <1>1, SenderGoesOn DEF Unrecorded, Free, Idle, Submits
<1>6. NamedIsGenerated' /\ WaitIsCovered' /\ HeldIsUnnamed' /\ OthersAreNamed' /\ LoggedAreNamed' /\ NamesKept
  BY <1>1, <1>4, OneRequestLoss
<1>7. Accounted' /\ BuiltAfterTheDead'
  BY <1>1, <1>5, <1>6, EntriesAccounted, PfmsUnchanged DEF LossInv
<1> QED BY <1>6, <1>7 DEF LossInv

(* A resubmission works on the cash books of a logged submission, which name an entry. *)
LEMMA StartResubmissionLoss ==
  ASSUME Inv, LeaseInv, LossInv, NEW t \in Threads, NEW u, StartResubmission(t, u)
  PROVE  LossInv'
<1>0. PICK l : l = \A b \in PfmsSubmissionStatus("Failed") : main[b].uid # u
  OBVIOUS
<1>1. PICK i \in DOMAIN subm : req' = [req EXCEPT ![t] = [op |-> "resubmit", pc |-> "read", cbs |-> subm[i].cbs,
                                  left |-> << >>, uid |-> 0, age |-> 0, late |-> l]]
  BY <1>0 DEF StartResubmission, GetCbRequestData
<1>2. Alone(t) /\ req'[t].op = "resubmit" /\ req'[t].pc = "read" /\ req'[t].cbs = subm[i].cbs
      /\ Free(t) /\ UNCHANGED <<main, subm, pfms, lost>>
  BY <1>1 DEF StartResubmission, tables, Inv, ReqOK, Alone
<1>3. RequestLoss(t)'
  <2>1. ~Holds(t)'
    BY <1>2 DEF Holds
  <2>2. Named(subm[i].cbs)
    BY DEF LossInv, LoggedAreNamed
  <2> QED BY <1>2, <2>1, <2>2 DEF RequestLoss, Named
<1>4. SendersStand
  BY <1>2, SenderGoesOn DEF Unrecorded, Free, Idle, Submits
<1>5. NamedIsGenerated' /\ WaitIsCovered' /\ HeldIsUnnamed' /\ OthersAreNamed' /\ LoggedAreNamed' /\ NamesKept
  BY <1>2, <1>3, OneRequestLoss
<1>6. Accounted' /\ BuiltAfterTheDead'
  BY <1>2, <1>4, <1>5, EntriesAccounted, PfmsUnchanged DEF LossInv
<1> QED BY <1>5, <1>6 DEF LossInv

(* When the lease is there to take, nobody has recorded the cash book during the wait: *)
(* the lease of whoever did would still run.                                           *)
LEMMA TryStartSubmissionLoss ==
  ASSUME Inv, LeaseInv, LossInv, LongerLease, NEW t \in Threads, TryStartSubmission(t)
  PROVE  LossInv'
<1>0. UNCHANGED <<subm, pfms, lost>> /\ req[t].pc = "lease" /\ Submits(t) /\ req[t].op = "submit"
  BY DEF TryStartSubmission, At, Submits
<1>1. CASE UNCHANGED main /\ Done(t)
  BY <1>0, <1>1, EndQuiet, QuietLoss, MainUnchanged, SubmUnchanged DEF Unrecorded
<1>2. ASSUME NEW b \in DOMAIN main,
              main[b].lease = 0, Holds(t), req[t].pc = "lease", Len(req[t].left) > 0,
              b = req[t].left[1], b = req[t].cbs[Taken(t) + 1], Taken(t) \in Nat,
              DOMAIN main' = DOMAIN main, \A x \in DOMAIN main : x # b => main'[x] = main[x],
              main'[b].lease = Lease, main'[b].gen = main[b].gen, main'[b].uid = main[b].uid,
              Alone(t), Holds(t)', req'[t].pc \in {"lease", "read"}, Taken(t)' = Taken(t) + 1,
              req'[t].cbs = req[t].cbs, req'[t].age = req[t].age, req'[t].late = req[t].late,
              req'[t].pc # "lease" => req'[t].left = << >>,
              req'[t].left \in Seq(Books), Len(req'[t].left) = Len(req[t].left) - 1,
              \A j \in 1..Len(req'[t].left) : req'[t].left[j] = req[t].left[j + 1]
      PROVE  LossInv'
  <2>1. Timely(t) /\ req[t].age \in Nat /\ Len(req[t].left) \in Nat /\ RequestLoss(t)
    <3>1. Submission_(t)
      BY <1>0, SubmissionIs
    <3>2. Timely(t) /\ RequestLoss(t)
      BY <1>2, LossOfRequests DEF LeaseInv, Timed, LossInv
    <3> QED BY <3>1, <3>2, LenProperties DEF Submission_
  <2>2. DbLimit \in Nat /\ CallLimit \in Nat /\ Lease \in Nat
    BY CashbookAssumption
  <2>3. ASSUME ~req[t].late PROVE main[b].uid = 0
    <3>1. 1 \in 1..Len(req[t].left)
      BY <1>2, <2>1
    <3>2. main[b].uid # 0 => 0 + req[t].age + 2 * DbLimit + 3 * CallLimit >= Lease
      BY <1>2, <2>1, <2>3, <3>1 DEF RequestLoss
    <3>3. req[t].age <= DbLimit
      BY <1>0, <2>1 DEF Timely, StageLimit
    <3> QED BY <2>1, <2>2, <3>2, <3>3 DEF LongerLease
  <2>4. ASSUME ~req[t].late, NEW j \in 1..Len(req'[t].left), req'[t].left[j] \in DOMAIN main'
        PROVE  main'[req'[t].left[j]].uid # 0 =>
                 main'[req'[t].left[j]].lease + req'[t].age + 2 * DbLimit + 3 * CallLimit >= Lease
    <3>1. j + 1 \in 1..Len(req[t].left) /\ req'[t].left[j] = req[t].left[j + 1]
      <4>1. PICK m \in Nat : m = Len(req[t].left)
        BY <2>1
      <4>2. j \in 1..(m - 1)
        BY <1>2, <4>1
      <4>3. j + 1 \in 1..m
        BY <4>2
      <4> QED BY <1>2, <4>1, <4>3
    <3>2. PICK c \in DOMAIN main : c = req'[t].left[j] /\
            (main[c].uid # 0 => main[c].lease + req[t].age + 2 * DbLimit + 3 * CallLimit >= Lease)
      BY <1>2, <2>1, <2>4, <3>1 DEF RequestLoss
    <3>3. CASE c = b BY <1>2, <2>3, <2>4, <3>2, <3>3
    <3>4. CASE c # b BY <1>2, <3>2, <3>4
    <3> QED BY <3>3, <3>4
  <2>5. ASSUME ~req[t].late, NEW i \in 1..(Taken(t) + 1)
        PROVE  main'[req[t].cbs[i]].uid = 0
    <3>1. CASE i = Taken(t) + 1
      BY <1>2, <2>3, <2>5, <3>1
    <3>2. CASE i # Taken(t) + 1
      <4>1. i \in 1..Taken(t)
        BY <1>2, <3>2
      <4>2. PICK c \in DOMAIN main : c = req[t].cbs[i] /\ main[c].uid = 0
        BY <1>2, <2>1, <2>5, <4>1 DEF RequestLoss, Timely
      <4>3. CASE c = b BY <1>2, <2>3, <2>5, <4>2, <4>3
      <4>4. CASE c # b BY <1>2, <4>2, <4>4
      <4> QED BY <4>3, <4>4
    <3> QED BY <3>1, <3>2
  <2>6. RequestLoss(t)'
    <3>1. Holds(t)' /\ Taken(t)' = Taken(t) + 1 /\ req'[t].cbs = req[t].cbs /\ req'[t].late = req[t].late
      BY <1>2
    <3> QED BY <2>4, <2>5, <3>1 DEF RequestLoss
  <2>7. SendersStand
    <3>1. req'[t].pc # "login" /\ Alone(t) /\ ~Unrecorded(t)
      BY <1>0, <1>2 DEF Unrecorded
    <3> QED BY <3>1, SenderGoesOn
  <2>8. NamedIsGenerated' /\ WaitIsCovered' /\ HeldIsUnnamed' /\ OthersAreNamed' /\ LoggedAreNamed' /\ NamesKept
    <3>1. DOMAIN main' = DOMAIN main /\ Alone(t)
      BY <1>2
    <3>2. \A x \in DOMAIN main : main'[x].uid = main[x].uid /\ main'[x].gen = main[x].gen
                                /\ main'[x].lease \in {main[x].lease, Lease}
      BY <1>2
    <3> QED BY <1>0, <2>6, <3>1, <3>2, OneRequestLoss
  <2>9. Accounted' /\ BuiltAfterTheDead'
    BY <1>0, <2>7, <2>8, EntriesAccounted, PfmsUnchanged DEF LossInv
  <2> QED BY <2>8, <2>9 DEF LossInv
<1>3. TryStartSubmission(t) /\ Timed
  BY DEF LeaseInv
<1> QED BY <1>1, <1>2, <1>3, TryStartSubmissionDoes

Sending == {"read", "login", "post", "record"}

(* What a submission past its leases works on. *)
LEMMA WorksOn ==
  ASSUME Inv, LeaseInv, LossInv, NEW t \in Threads, Submits(t), req[t].pc \in Sending, NEW i \in DOMAIN req[t].cbs
  PROVE  /\ req[t].cbs[i] \in DOMAIN main
         /\ req[t].op = "submit"   => Holds(t) /\ i \in 1..Taken(t)
         /\ req[t].op = "submit" /\ ~req[t].late => main[req[t].cbs[i]].uid = 0
         /\ req[t].op = "resubmit" => main[req[t].cbs[i]].uid # 0
<1>1. CASE req[t].op = "submit"
  <2>1. Holds(t)
    BY <1>1 DEF Holds, Sending
  <2>2. Timely(t) /\ req[t].left = << >>
    BY <2>1 DEF LeaseInv, Timed, Timely, Sending
  <2>3. i \in 1..Taken(t)
    <3>1. req[t].cbs \in Seq(Books)
      BY SubmissionIs DEF Submission_
    <3>2. Len(req[t].cbs) \in Nat /\ DOMAIN req[t].cbs = 1..Len(req[t].cbs)
      BY <3>1, LenProperties
    <3>3. Taken(t) = Len(req[t].cbs)
      BY <2>2, <3>2, EmptySeq DEF Taken
    <3> QED BY <3>2, <3>3
  <2> QED BY <1>1, <2>1, <2>2, <2>3 DEF Timely, LossInv, HeldIsUnnamed
<1>2. CASE req[t].op = "resubmit"
  <2>1. ~Holds(t)
    BY <1>2 DEF Holds
  <2> QED BY <1>2, <2>1 DEF LossInv, OthersAreNamed, Named
<1> QED BY <1>1, <1>2 DEF Submits

(* So two of them never have a cash book in common when one is a first submission of a *)
(* list that was not outdated.                                                         *)
LEMMA NothingInCommon ==
  ASSUME Inv, LeaseInv, LossInv, NEW t \in Threads, NEW x \in Threads, x # t,
         Submits(t), req[t].op = "submit", ~req[t].late, req[t].pc \in Sending,
         Submits(x), req[x].pc \in Sending,
         NEW i \in DOMAIN req[t].cbs, NEW j \in DOMAIN req[x].cbs
  PROVE  req[t].cbs[i] # req[x].cbs[j]
<1>1. Holds(t) /\ i \in 1..Taken(t) /\ main[req[t].cbs[i]].uid = 0
  BY WorksOn
<1>2. CASE req[x].op = "submit"
  <2>1. Holds(x) /\ j \in 1..Taken(x)
    BY <1>2, WorksOn
  <2> QED BY <1>1, <2>1 DEF LeaseInv, Apart
<1>3. CASE req[x].op = "resubmit"
  BY <1>1, <1>3, WorksOn
<1> QED BY <1>2, <1>3 DEF Submits

(* A submission that goes on to the next stage. *)
LEMMA StageLoss ==
  ASSUME Inv, LeaseInv, LossInv, NEW t \in Threads, Submits(t), Alone(t), UNCHANGED <<main, subm>>,
         req[t].pc \in Sending, req'[t].pc \in Sending,
         req'[t].op = req[t].op, req'[t].cbs = req[t].cbs, req'[t].left = req[t].left, req'[t].late = req[t].late
  PROVE  NamedIsGenerated' /\ WaitIsCovered' /\ HeldIsUnnamed' /\ OthersAreNamed' /\ LoggedAreNamed' /\ NamesKept
<1>1. RequestLoss(t)
  BY LossOfRequests DEF LossInv
<1>2. RequestLoss(t)'
  <2>1. CASE Holds(t)
    <3>1. Holds(t)' /\ Taken(t)' = Taken(t)
      BY <2>1 DEF Holds, Sending, Taken
    <3>2. req[t].left = << >>
      BY <2>1 DEF LeaseInv, Timed, Timely, Sending
    <3>3. 1..Len(req'[t].left) = {}
      BY <3>2, EmptySeq
    <3> QED BY <1>1, <2>1, <3>1, <3>3 DEF RequestLoss
  <2>2. CASE ~Holds(t)
    <3>1. ~Holds(t)'
      BY <2>2 DEF Holds, Sending
    <3> QED BY <1>1, <2>2, <3>1 DEF RequestLoss, Named
  <2> QED BY <2>1, <2>2
<1> QED BY <1>2, OneRequestLoss

(* A refused entry is dead; any other is about to be recorded by its request. *)
LEMMA AnswerOfLoss ==
  ASSUME Inv, LeaseInv, LossInv, NEW t \in Threads, NEW op \in {"submit", "resubmit"}, AnswerOf(t, op)
  PROVE  LossInv'
<1>1. Submits(t) /\ req[t].pc = "post" /\ UNCHANGED <<main, subm, pfms, lost>>
  BY AnswerOfDoes
<1>2. CASE Done(t) /\ pfms[req[t].uid].st = "refused"
  BY <1>1, <1>2, EndQuiet, QuietLoss, MainUnchanged, SubmUnchanged
<1>3. CASE /\ Alone(t) /\ req'[t].op = req[t].op /\ req'[t].pc = "record" /\ req'[t].uid = req[t].uid
           /\ req'[t].cbs = req[t].cbs /\ req'[t].left = req[t].left /\ req'[t].age = 0
           /\ req'[t].late = req[t].late
  <2>1. NamedIsGenerated' /\ WaitIsCovered' /\ HeldIsUnnamed' /\ OthersAreNamed' /\ LoggedAreNamed' /\ NamesKept
    BY <1>1, <1>3, StageLoss DEF Sending
  <2>2. SendersStand
    <3>1. Unrecorded(t)' /\ req'[t].uid = req[t].uid /\ req'[t].pc # "login"
      BY <1>1, <1>3 DEF Unrecorded, Submits
    <3> QED BY <1>3, <3>1, SenderGoesOn
  <2>3. Accounted' /\ BuiltAfterTheDead'
    BY <1>1, <2>1, <2>2, EntriesAccounted, PfmsUnchanged DEF LossInv
  <2> QED BY <2>1, <2>3 DEF LossInv
<1> QED BY <1>2, <1>3, AnswerOfDoes

(* The entry that is sent was built by the request that sends it. *)
LEMMA LogInLoss ==
  ASSUME Inv, LeaseInv, LossInv, NEW t \in Threads, LogIn(t)
  PROVE  LossInv'
<1>1. PICK w \in DOMAIN pfms : w = req[t].uid
  BY LogInDoes
<1>2. /\ Submits(t) /\ req[t].pc = "login" /\ pfms[w].st = "built"
      /\ Alone(t) /\ req'[t].op = req[t].op /\ req'[t].pc = "post" /\ req'[t].uid = w
      /\ req'[t].cbs = req[t].cbs /\ req'[t].left = req[t].left /\ req'[t].late = req[t].late
      /\ UNCHANGED <<main, subm, lost>>
  BY <1>1, LogInDoes
<1>3. /\ DOMAIN pfms' = DOMAIN pfms /\ \A u \in DOMAIN pfms : u # w => pfms'[u] = pfms[u]
      /\ pfms'[w].cbs = pfms[w].cbs /\ pfms'[w].by = pfms[w].by /\ pfms'[w].late = pfms[w].late
  BY <1>1, LogInDoes
<1>4. NamedIsGenerated' /\ WaitIsCovered' /\ HeldIsUnnamed' /\ OthersAreNamed' /\ LoggedAreNamed' /\ NamesKept
  BY <1>2, StageLoss DEF Sending
<1>5. ASSUME NEW u \in DOMAIN pfms, pfms'[u].st \in {"sent", "Pending", "Success"}
      PROVE  \/ u \in lost'
             \/ Named(pfms'[u].cbs)
             \/ \E x \in Threads : Submits(x)' /\ req'[x].pc \in {"post", "record"} /\ req'[x].uid = u
  <2>1. CASE u = w
    BY <1>2, <2>1 DEF Submits
  <2>2. CASE u # w
    <3>1. pfms'[u] = pfms[u]
      BY <1>3, <2>2
    <3>2. ASSUME NEW x \in Threads, Unrecorded(x), req[x].uid = u
          PROVE  Submits(x)' /\ req'[x].pc \in {"post", "record"} /\ req'[x].uid = u
      <4>1. x # t
        BY <1>2, <3>2 DEF Unrecorded
      <4> QED BY <1>2, <3>2, <4>1 DEF Unrecorded, Alone, Submits
    <3> QED BY <1>2, <1>5, <3>1, <3>2 DEF LossInv, Accounted
  <2> QED BY <2>1, <2>2
<1>6. Accounted'
  <2>1. \A c : Named(c)' <=> Named(c)
    BY <1>2 DEF Named
  <2> QED BY <1>2, <1>3, <1>5 DEF Accounted, Named, Unrecorded, Submits
<1>7. ASSUME NEW u \in DOMAIN pfms, NEW v \in DOMAIN pfms, u < v, pfms'[v].by = "submit", ~pfms'[v].late, Shares(u, v)'
      PROVE  u \in lost' \/ Dead(u)'
  <2>1. /\ pfms'[u].cbs = pfms[u].cbs /\ pfms'[v].cbs = pfms[v].cbs /\ pfms'[v].by = pfms[v].by
        /\ pfms'[v].late = pfms[v].late
    BY <1>3
  <2>2. Shares(u, v)
    BY <1>7, <2>1 DEF Shares, InBook
  <2>3. u \in lost \/ Dead(u)
    BY <1>7, <2>1, <2>2 DEF LossInv, BuiltAfterTheDead
  <2>4. CASE u \in lost
    BY <1>2, <2>4
  <2>5. CASE Dead(u)
    <3>1. u # w
      BY <1>1, <1>2, <2>5 DEF Dead
    <3>2. pfms'[u] = pfms[u]
      BY <1>3, <3>1
    <3>3. ASSUME NEW x \in Threads, Submits(x)', req'[x].pc = "login"
          PROVE  Submits(x) /\ req[x].pc = "login" /\ req'[x].uid = req[x].uid
      <4>1. x # t
        BY <1>2, <3>3
      <4> QED BY <1>2, <3>3, <4>1 DEF Alone, Submits
    <3> QED BY <2>5, <3>2, <3>3 DEF Dead, Submits
  <2> QED BY <2>3, <2>4, <2>5
<1>8. BuiltAfterTheDead'
  BY <1>3, <1>7 DEF BuiltAfterTheDead, Shares, Dead
<1> QED BY <1>4, <1>6, <1>8 DEF LossInv

(* An earlier entry with a cash book of a new first submission is dead or lost: were it *)
(* recorded, or about to be, its cash books would name an entry or be held.             *)
LEMMA BuildLoss ==
  ASSUME Inv, LeaseInv, LossInv, NEW t \in Threads, NEW op \in {"submit", "resubmit"}, NEW refused, Build(t, op, refused)
  PROVE  LossInv'
<1>1. Submission_(t) /\ Submits(t) /\ req[t].op = op /\ req[t].pc = "read" /\ UNCHANGED <<main, subm, lost>>
  BY BuildDoes DEF Submission_
<1>2. CASE Done(t) /\ UNCHANGED pfms
  <2>1. ~Unrecorded(t)
    BY <1>1 DEF Unrecorded
  <2> QED BY <1>1, <1>2, <2>1, EndQuiet, QuietLoss, MainUnchanged, SubmUnchanged
<1>3. CASE /\ Alone(t) /\ req'[t].op = op /\ req'[t].pc = "login" /\ req'[t].uid = NextUid
           /\ req'[t].cbs = req[t].cbs /\ req'[t].left = req[t].left /\ req'[t].age = 0
           /\ req'[t].late = req[t].late
           /\ DOMAIN pfms' = DOMAIN pfms \cup {NextUid}
           /\ \A u \in DOMAIN pfms : pfms'[u] = pfms[u]
           /\ pfms'[NextUid].by = op /\ pfms'[NextUid].cbs = req[t].cbs /\ pfms'[NextUid].st = "built"
           /\ pfms'[NextUid].late = req[t].late
  <2>1. PICK w : w = NextUid
    OBVIOUS
  <2>2. PICK n \in Nat : DOMAIN pfms = 1..n /\ w = n + 1 /\ w \notin DOMAIN pfms
    BY <2>1, NextUidIsNew
  <2>3. /\ Alone(t) /\ req'[t].pc = "login" /\ req'[t].uid = w
        /\ DOMAIN pfms' = DOMAIN pfms \cup {w} /\ \A u \in DOMAIN pfms : pfms'[u] = pfms[u]
        /\ pfms'[w].by = op /\ pfms'[w].cbs = req[t].cbs /\ pfms'[w].st = "built" /\ pfms'[w].late = req[t].late
    BY <1>3, <2>1
  <2>4. NamedIsGenerated' /\ WaitIsCovered' /\ HeldIsUnnamed' /\ OthersAreNamed' /\ LoggedAreNamed' /\ NamesKept
    BY <1>1, <1>3, StageLoss DEF Sending
  <2>5. ASSUME NEW u \in DOMAIN pfms', pfms'[u].st \in {"sent", "Pending", "Success"}
        PROVE  \/ u \in lost'
               \/ Named(pfms'[u].cbs)
               \/ \E x \in Threads : Submits(x)' /\ req'[x].pc \in {"post", "record"} /\ req'[x].uid = u
    <3>1. u \in DOMAIN pfms /\ pfms'[u] = pfms[u]
      BY <2>3, <2>5
    <3>2. ASSUME NEW x \in Threads, Unrecorded(x), req[x].uid = u
          PROVE  Submits(x)' /\ req'[x].pc \in {"post", "record"} /\ req'[x].uid = u
      <4>1. x # t
        BY <1>1, <3>2 DEF Unrecorded
      <4> QED BY <2>3, <3>2, <4>1 DEF Unrecorded, Alone, Submits
    <3> QED BY <1>1, <2>5, <3>1, <3>2 DEF LossInv, Accounted
  <2>6. Accounted'
    <3>1. \A c : Named(c)' <=> Named(c)
      BY <1>1 DEF Named
    <3> QED BY <1>1, <2>5 DEF Accounted, Named, Unrecorded, Submits
  <2>7. ASSUME NEW u \in DOMAIN pfms, Dead(u)
        PROVE  Dead(u)'
    <3>1. pfms'[u] = pfms[u] /\ u # w
      BY <2>2, <2>3
    <3>2. ASSUME NEW x \in Threads, Submits(x)', req'[x].pc = "login", x # t
          PROVE  Submits(x) /\ req[x].pc = "login" /\ req'[x].uid = req[x].uid
      BY <2>3, <3>2 DEF Alone, Submits
    <3> QED BY <2>3, <2>7, <3>1, <3>2 DEF Dead, Submits
  <2>8. ASSUME NEW u \in DOMAIN pfms, op = "submit", ~req[t].late, NEW i \in DOMAIN req[t].cbs, InBook(u, req[t].cbs[i]),
               u \notin lost
        PROVE  Dead(u)
    <3>1. PICK j \in DOMAIN pfms[u].cbs : pfms[u].cbs[j] = req[t].cbs[i]
      BY <2>8 DEF InBook
    <3>2. ~Named(pfms[u].cbs)
      BY <1>1, <2>8, <3>1, WorksOn DEF Named, Sending
    <3>3. ASSUME NEW x \in Threads, Submits(x), req[x].pc \in {"login", "post", "record"}
          PROVE  req[x].uid # u
      <4> SUFFICES ASSUME req[x].uid = u PROVE FALSE
        OBVIOUS
      <4>1. pfms[u].cbs = req[x].cbs
        BY <3>3 DEF Inv, Entries, Sends
      <4>2. x # t
        BY <1>1, <3>3
      <4> QED BY <1>1, <2>8, <3>1, <3>3, <4>1, <4>2, NothingInCommon DEF Sending
    <3>4. pfms[u].st \notin {"sent", "Pending", "Success"}
      BY <2>8, <3>2, <3>3 DEF LossInv, Accounted, Unrecorded
    <3>5. pfms[u].st \in States
      BY DEF Inv, RowsOK
    <3> QED BY <3>3, <3>4, <3>5 DEF Dead, States, Final
  <2>9. ASSUME NEW u \in DOMAIN pfms', NEW v \in DOMAIN pfms', u < v, pfms'[v].by = "submit", ~pfms'[v].late, Shares(u, v)'
        PROVE  u \in lost' \/ Dead(u)'
    <3>1. u \in DOMAIN pfms /\ pfms'[u] = pfms[u]
      BY <2>2, <2>3, <2>9
    <3>2. CASE v \in DOMAIN pfms
      <4>1. pfms'[v] = pfms[v]
        BY <2>3, <3>2
      <4>2. Shares(u, v)
        BY <2>9, <3>1, <4>1 DEF Shares, InBook
      <4> QED BY <1>1, <2>7, <2>9, <3>1, <3>2, <4>1, <4>2 DEF LossInv, BuiltAfterTheDead
    <3>3. CASE v = w
      <4>1. PICK b \in Books : (\E j \in DOMAIN pfms'[u].cbs : pfms'[u].cbs[j] = b)
                               /\ \E i \in DOMAIN pfms'[v].cbs : pfms'[v].cbs[i] = b
        BY <2>9 DEF Shares, InBook
      <4>2. PICK i \in DOMAIN req[t].cbs : req[t].cbs[i] = b
        BY <2>3, <3>3, <4>1
      <4>3. InBook(u, req[t].cbs[i])
        BY <3>1, <4>1, <4>2 DEF InBook
      <4> QED BY <1>1, <2>3, <2>7, <2>8, <2>9, <3>1, <3>3, <4>2, <4>3
    <3> QED BY <2>3, <3>2, <3>3
  <2>10. BuiltAfterTheDead'
    BY <2>9 DEF BuiltAfterTheDead, Shares, Dead
  <2> QED BY <2>4, <2>6, <2>10 DEF LossInv
<1> QED BY <1>2, <1>3, BuildDoes

(* GetPfmsUpdateStatusRepo names the entry in cash books nobody else holds, and whoever *)
(* waits for one of them finds its lease still running.                                 *)
LEMMA RecordLoss ==
  ASSUME Inv, LeaseInv, LossInv, NEW t \in Threads, GetPfmsUpdateStatus(t)
  PROVE  LossInv'
<1>1. /\ Submits(t) /\ req[t].pc = "record" /\ UNCHANGED <<subm, pfms, lost>>
      /\ req[t].uid # 0 /\ req[t].uid \in DOMAIN pfms /\ pfms[req[t].uid].cbs = req[t].cbs
      /\ Alone(t) /\ req'[t].op = req[t].op /\ req'[t].pc = "log" /\ req'[t].cbs = req[t].cbs
  BY RecordDoes
<1>2. /\ DOMAIN main' = DOMAIN main
      /\ \A b \in DOMAIN main : main'[b].lease = main[b].lease
      /\ \A b \in DOMAIN main : b \in Range(req[t].cbs) => main'[b].uid = req[t].uid /\ main'[b].gen = TRUE
      /\ \A b \in DOMAIN main : b \notin Range(req[t].cbs) => main'[b] = main[b]
  BY RecordDoes
<1>3. NamesKept
  BY <1>1, <1>2 DEF NamesKept
<1>4. NamedIsGenerated'
  BY <1>2 DEF LossInv, NamedIsGenerated
<1>5. LoggedAreNamed'
  BY <1>1, <1>3 DEF LossInv, LoggedAreNamed, Named, NamesKept
<1>6. NamedNext(req[t].cbs)
  <2>1. ASSUME NEW i \in DOMAIN req[t].cbs
        PROVE  req[t].cbs[i] \in DOMAIN main' /\ main'[req[t].cbs[i]].uid # 0
    <3>1. req[t].cbs[i] \in DOMAIN main
      BY <1>1, WorksOn DEF Sending
    <3>2. req[t].cbs[i] \in Range(req[t].cbs)
      BY DEF Range
    <3> QED BY <1>1, <1>2, <3>1, <3>2
  <2> QED BY <2>1 DEF NamedNext
<1>7. ASSUME NEW x \in Threads PROVE RequestLoss(x)'
  <2>1. CASE x = t
    <3>1. ~Holds(t)'
      BY <1>1 DEF Holds
    <3> QED BY <1>1, <1>6, <2>1, <3>1 DEF RequestLoss, Named, NamedNext
  <2>2. CASE x # t
    <3>1. req'[x] = req[x] /\ RequestLoss(x)
      BY <1>1, <2>2, LossOfRequests DEF Alone, LossInv
    <3>2. CASE Holds(x) /\ ~req[x].late
      <4>1. Timely(x) /\ req[x].age \in Nat /\ DbLimit \in Nat /\ CallLimit \in Nat /\ Lease \in Nat
        BY <3>2, SinceIsShort, CashbookAssumption DEF LeaseInv, Timed
      <4>2. ASSUME NEW j \in 1..Len(req[x].left), req[x].left[j] \in DOMAIN main
            PROVE  main'[req[x].left[j]].uid # 0 =>
                     main'[req[x].left[j]].lease + req[x].age + 2 * DbLimit + 3 * CallLimit >= Lease
        <5>1. PICK b \in DOMAIN main : b = req[x].left[j]
          BY <4>2
        <5>2. main[b].uid # 0 => main[b].lease + req[x].age + 2 * DbLimit + 3 * CallLimit >= Lease
          BY <3>1, <3>2, <5>1 DEF RequestLoss
        <5>3. CASE b \in Range(req[t].cbs)
          <6>1. PICK i \in DOMAIN req[t].cbs : req[t].cbs[i] = b
            BY <5>3 DEF Range
          <6>2. CASE req[t].op = "submit"
            <7>1. Holds(t) /\ i \in 1..Taken(t)
              BY <1>1, <6>2, WorksOn DEF Sending
            <7>2. main[b].lease + Since(t) >= Lease
              BY <6>1, <7>1 DEF LeaseInv, Timed, Timely
            <7>3. Since(t) \in Nat /\ Since(t) <= 2 * DbLimit + 3 * CallLimit
              BY <7>1, SinceIsShort DEF LeaseInv
            <7>4. main[b].lease \in Nat
              BY DEF Inv, RowsOK
            <7>5. main[b].lease + req[x].age + 2 * DbLimit + 3 * CallLimit >= Lease
              BY <4>1, <7>2, <7>3, <7>4
            <7> QED BY <1>2, <5>1, <7>5
          <6>3. CASE req[t].op = "resubmit"
            <7>1. main[b].uid # 0
              BY <1>1, <6>1, <6>3, WorksOn DEF Sending
            <7> QED BY <1>2, <5>1, <5>2, <7>1
          <6> QED BY <1>1, <6>2, <6>3 DEF Submits
        <5>4. CASE b \notin Range(req[t].cbs)
          BY <1>2, <5>1, <5>2, <5>4
        <5> QED BY <5>3, <5>4
      <4>3. ASSUME NEW i \in 1..Taken(x)
            PROVE  main'[req[x].cbs[i]].uid = 0
        <5>1. PICK b \in DOMAIN main : b = req[x].cbs[i] /\ main[b].uid = 0
          BY <3>1, <3>2, <4>1 DEF RequestLoss, Timely
        <5>2. b \notin Range(req[t].cbs)
          <6> SUFFICES ASSUME NEW k \in DOMAIN req[t].cbs, req[t].cbs[k] = b PROVE FALSE
            BY DEF Range
          <6>1. CASE req[t].op = "submit"
            <7>1. Holds(t) /\ k \in 1..Taken(t)
              BY <1>1, <6>1, WorksOn DEF Sending
            <7> QED BY <2>2, <3>2, <5>1, <7>1 DEF LeaseInv, Apart
          <6>2. CASE req[t].op = "resubmit"
            BY <1>1, <5>1, <6>2, WorksOn DEF Sending
          <6> QED BY <1>1, <6>1, <6>2 DEF Submits
        <5> QED BY <1>2, <5>1, <5>2
      <4>4. Holds(x)' /\ Taken(x)' = Taken(x)
        BY <3>1, <3>2 DEF Holds, Taken
      <4> QED BY <1>2, <3>1, <4>2, <4>3, <4>4 DEF RequestLoss
    <3>3. CASE ~Holds(x)
      <4>1. ~Holds(x)' /\ (Submits(x)' <=> Submits(x))
        BY <3>1, <3>3 DEF Holds, Submits
      <4> QED BY <1>3, <3>1, <3>3, <4>1 DEF RequestLoss, Named, NamesKept
    <3>4. CASE Holds(x) /\ req[x].late
      <4>1. Holds(x)' /\ req'[x].late
        BY <3>1, <3>4 DEF Holds
      <4> QED BY <4>1 DEF RequestLoss
    <3> QED BY <3>2, <3>3, <3>4
  <2> QED BY <2>1, <2>2
<1>8. WaitIsCovered' /\ HeldIsUnnamed' /\ OthersAreNamed'
  <2>1. (WaitIsCovered /\ HeldIsUnnamed /\ OthersAreNamed)' <=> (\A x \in Threads : RequestLoss(x))'
    BY DEF WaitIsCovered, HeldIsUnnamed, OthersAreNamed, RequestLoss
  <2>2. (\A x \in Threads : RequestLoss(x))' <=> \A x \in Threads : RequestLoss(x)'
    OBVIOUS
  <2> QED BY <1>7, <2>1, <2>2
<1>9. SendersStand
  BY <1>1, <1>6, SenderGoesOn
<1>10. Accounted' /\ BuiltAfterTheDead'
  BY <1>1, <1>3, <1>9, EntriesAccounted, PfmsUnchanged DEF LossInv
<1> QED BY <1>4, <1>5, <1>8, <1>10 DEF LossInv

(* Time takes from a lease what it adds to the wait for it. *)
LEMMA TickLoss ==
  ASSUME Inv, LeaseInv, LossInv, Tick
  PROVE  LossInv'
<1>1. UNCHANGED <<subm, pfms, lost>> /\ DOMAIN main' = DOMAIN main
  BY TickDoes
<1>2. \A b \in DOMAIN main : main'[b].gen = main[b].gen /\ main'[b].uid = main[b].uid
  BY TickDoes
<1>3. \A b \in DOMAIN main : main'[b].lease = IF main[b].lease = 0 THEN 0 ELSE main[b].lease - 1
  BY TickDoes
<1>4. \A x \in Threads : ~Submits(x) => req'[x] = req[x]
  BY TickDoes
<1>5. \A x \in Threads : Submits(x) =>
         /\ req'[x].op = req[x].op /\ req'[x].pc = req[x].pc
         /\ req'[x].cbs = req[x].cbs /\ req'[x].left = req[x].left /\ req'[x].uid = req[x].uid
         /\ req'[x].late = req[x].late /\ req'[x].age = req[x].age + 1 /\ req[x].age < StageLimit(x)
  BY TickDoes
<1>6. ASSUME NEW x \in Threads, Submits(x)'
      PROVE  /\ Submits(x) /\ req'[x].op = req[x].op /\ req'[x].pc = req[x].pc
             /\ req'[x].cbs = req[x].cbs /\ req'[x].left = req[x].left /\ req'[x].uid = req[x].uid
             /\ req'[x].age = req[x].age + 1 /\ req'[x].late = req[x].late
  BY <1>4, <1>5, <1>6 DEF Submits
<1>7. NamesKept
  BY <1>1, <1>2 DEF NamesKept
<1>8. NamedIsGenerated'
  BY <1>1, <1>2 DEF LossInv, NamedIsGenerated
<1>9. LoggedAreNamed'
  BY <1>1, <1>7 DEF LossInv, LoggedAreNamed, Named, NamesKept
<1>10. ASSUME NEW x \in Threads PROVE RequestLoss(x)'
  <2>1. RequestLoss(x)
    BY LossOfRequests DEF LossInv
  <2>2. CASE Submits(x)' /\ Holds(x) /\ ~req[x].late
    <3>1. /\ req'[x].op = req[x].op /\ req'[x].pc = req[x].pc
          /\ req'[x].cbs = req[x].cbs /\ req'[x].left = req[x].left /\ req'[x].age = req[x].age + 1
          /\ req'[x].late = req[x].late
      BY <1>6, <2>2
    <3>2. Timely(x) /\ req[x].age \in Nat /\ DbLimit \in Nat /\ CallLimit \in Nat /\ Lease \in Nat
      BY <2>2, SinceIsShort, CashbookAssumption DEF LeaseInv, Timed
    <3>3. ASSUME NEW j \in 1..Len(req[x].left), req[x].left[j] \in DOMAIN main
          PROVE  main'[req[x].left[j]].uid # 0 =>
                   main'[req[x].left[j]].lease + (req[x].age + 1) + 2 * DbLimit + 3 * CallLimit >= Lease
      <4>1. PICK b \in DOMAIN main : b = req[x].left[j]
        BY <3>3
      <4>2. main[b].uid # 0 => main[b].lease + req[x].age + 2 * DbLimit + 3 * CallLimit >= Lease
        BY <2>1, <2>2, <4>1 DEF RequestLoss
      <4>3. main[b].lease \in Nat
        BY DEF Inv, RowsOK
      <4>4. main'[b].uid = main[b].uid /\ main'[b].lease = IF main[b].lease = 0 THEN 0 ELSE main[b].lease - 1
        BY <1>2, <1>3
      <4>5. main'[b].uid # 0 => main'[b].lease + (req[x].age + 1) + 2 * DbLimit + 3 * CallLimit >= Lease
        <5>1. CASE main[b].lease = 0
          BY <3>2, <4>2, <4>4, <5>1
        <5>2. CASE main[b].lease # 0
          BY <3>2, <4>2, <4>3, <4>4, <5>2
        <5> QED BY <5>1, <5>2
      <4> QED BY <4>1, <4>5
    <3>4. ASSUME NEW i \in 1..Taken(x) PROVE main'[req[x].cbs[i]].uid = 0
      BY <1>2, <2>1, <2>2, <3>2 DEF RequestLoss, Timely
    <3>5. Holds(x)' /\ Taken(x)' = Taken(x)
      BY <2>2, <3>1 DEF Holds, Taken
    <3> QED BY <1>1, <3>1, <3>3, <3>4, <3>5 DEF RequestLoss
  <2>3. CASE Submits(x)' /\ ~Holds(x)
    <3>1. ~Holds(x)' /\ Submits(x) /\ req'[x].cbs = req[x].cbs
      BY <1>6, <2>3 DEF Holds
    <3> QED BY <1>7, <2>1, <2>3, <3>1 DEF RequestLoss, Named, NamesKept
  <2>4. CASE ~Submits(x)'
    <3>1. ~Holds(x)'
      BY <2>4 DEF Holds, Submits
    <3> QED BY <2>4, <3>1 DEF RequestLoss
  <2>5. CASE Submits(x)' /\ Holds(x) /\ req[x].late
    <3>1. Holds(x)' /\ req'[x].late
      BY <1>6, <2>5 DEF Holds
    <3> QED BY <3>1 DEF RequestLoss
  <2> QED BY <2>2, <2>3, <2>4, <2>5
<1>11. WaitIsCovered' /\ HeldIsUnnamed' /\ OthersAreNamed'
  <2>1. (WaitIsCovered /\ HeldIsUnnamed /\ OthersAreNamed)' <=> (\A x \in Threads : RequestLoss(x))'
    BY DEF WaitIsCovered, HeldIsUnnamed, OthersAreNamed, RequestLoss
  <2>2. (\A x \in Threads : RequestLoss(x))' <=> \A x \in Threads : RequestLoss(x)'
    OBVIOUS
  <2> QED BY <1>10, <2>1, <2>2
<1>12. SendersStand
  <2>1. ASSUME NEW x \in Threads
        PROVE  /\ Unrecorded(x) => Unrecorded(x)' /\ req'[x].uid = req[x].uid
               /\ Submits(x)' /\ req'[x].pc = "login" => Submits(x) /\ req[x].pc = "login" /\ req'[x].uid = req[x].uid
    BY <1>5, <1>6 DEF Unrecorded, Submits
  <2> QED BY <2>1 DEF SendersStand
<1>13. Accounted' /\ BuiltAfterTheDead'
  BY <1>1, <1>7, <1>12, EntriesAccounted, PfmsUnchanged DEF LossInv
<1> QED BY <1>8, <1>9, <1>11, <1>13 DEF LossInv

(* PFMS has no entry at first. *)
LEMMA LossStarts == CashbookInit => LossInv
<1> SUFFICES ASSUME CashbookInit PROVE LossInv
  OBVIOUS
<1>1. DOMAIN main = {} /\ DOMAIN pfms = {} /\ DOMAIN subm = {}
  BY DEF CashbookInit
<1>2. \A t \in Threads : ~Holds(t) /\ ~Submits(t)
  BY DEF CashbookInit, Idle, Holds, Submits
<1> QED BY <1>1, <1>2 DEF LossInv, NamedIsGenerated, WaitIsCovered, HeldIsUnnamed, OthersAreNamed, LoggedAreNamed,
                          Accounted, BuiltAfterTheDead

(* Every step keeps the invariant of the entries. *)
LEMMA LossSteps == ASSUME LongerLease, Inv, LeaseInv, LossInv, CashbookNext PROVE LossInv'
BY StepKinds, QuietLoss, TickLoss, StartSubmissionLoss, StartResubmissionLoss, TryStartSubmissionLoss,
   AnswerOfLoss, BuildLoss, LogInLoss, RecordLoss

(* So does a step that changes nothing. *)
LEMMA LossRests == Inv /\ LeaseInv /\ LossInv /\ UNCHANGED vars => LossInv'
<1> SUFFICES ASSUME Inv, LeaseInv, LossInv, UNCHANGED vars PROVE LossInv'
  OBVIOUS
<1>1. Uninvolved
  BY MainUnchanged, PfmsUnchanged, SubmUnchanged DEF vars, Uninvolved, RequestStands
<1> QED BY <1>1, QuietLoss

(* The second hypothesis on the lease is the stronger one. *)
LEMMA LongerIsLong == LongerLease => LongLease
<1>1. DbLimit \in Nat /\ CallLimit \in Nat /\ Lease \in Nat
  BY CashbookAssumption
<1> QED BY <1>1 DEF LongerLease, LongLease

(* The invariant of the entries, always, while the lease also covers the wait. *)
LEMMA LossHolds == ASSUME LongerLease PROVE CashbookSpec => []LossInv
<1>1. LongLease
  BY LongerIsLong
<1>2. CashbookSpec => []LeaseInv
  BY <1>1, LeaseHolds
<1>3. Inv /\ LeaseInv /\ LossInv /\ [CashbookNext]_vars => LossInv'
  BY LossSteps, LossRests
<1> QED BY <1>2, <1>3, LossStarts, Invariant, PTL DEF CashbookSpec

(* Under a lease that also covers the wait for it, PFMS has a cash book twice only  *)
(* when the request that sent the first entry stopped before recording it, or when  *)
(* the second entry is a resubmission or was made of an outdated list.              *)
THEOREM BookedOnceUnlessLost ==
  ASSUME LongerLease
  PROVE  CashbookSpec => []BookedTwiceOnlyAfterALoss
<1>1. ASSUME Inv, LossInv PROVE BookedTwiceOnlyAfterALoss
  <2> SUFFICES ASSUME NEW u \in DOMAIN pfms, NEW v \in DOMAIN pfms, NEW b \in Books,
                      u < v, Alive(u), Alive(v), InBook(u, b), InBook(v, b), u \notin lost
               PROVE  pfms[v].by = "resubmit" \/ pfms[v].late
    BY DEF BookedTwiceOnlyAfterALoss
  <2>1. ~Dead(u)
    BY DEF Alive, Dead
  <2>2. pfms[v].by # "submit" \/ pfms[v].late
    BY <1>1, <2>1 DEF LossInv, BuiltAfterTheDead, Shares
  <2>3. pfms[v].by \in {"submit", "resubmit"}
    BY <1>1 DEF Inv, RowsOK
  <2> QED BY <2>2, <2>3
<1> QED BY <1>1, LossHolds, Invariant, PTL

--------------------------------------------------------------------------------
(* The payload of a list of cash books closes for each office *)

IsLine(l) ==
  /\ l = [ddo |-> l.ddo, sign |-> l.sign, amount |-> l.amount, side |-> l.side]
  /\ l.sign \in {"+", "-"} /\ l.amount \in Int /\ l.side \in {"T", "F"}

Account(lines) ==
  /\ IsFiniteSet(DOMAIN lines) /\ lines = [i \in DOMAIN lines |-> lines[i]]
  /\ \A i \in DOMAIN lines : IsLine(lines[i])

\* What each line adds to the total of a side of an office.
Adds(lines, side, o) ==
  [i \in DOMAIN lines |-> IF lines[i].side = side /\ lines[i].ddo = o THEN Signed(lines[i]) ELSE 0]

(* A line counts a whole amount, whatever its sign. *)
LEMMA SignedInt == ASSUME NEW l, IsLine(l) PROVE Signed(l) \in Int
BY DEF IsLine, Signed

(* A total is the sum of what the lines add. *)
LEMMA TotalIs ==
  ASSUME NEW lines, Account(lines), NEW side, NEW o
  PROVE  /\ Summable(Adds(lines, side, o), DOMAIN lines) /\ IsFiniteSet(DOMAIN lines)
         /\ TotalOf(lines, side, o) = SumOf(Adds(lines, side, o), DOMAIN lines)
         /\ TotalOf(lines, side, o) \in Int
<1>1. Summable(Adds(lines, side, o), DOMAIN lines) /\ IsFiniteSet(DOMAIN lines)
  BY SignedInt DEF Account, Summable, Adds
<1>2. TotalOf(lines, side, o) = SumOf(Adds(lines, side, o), DOMAIN lines)
  BY DEF TotalOf, Adds
<1> QED BY <1>1, <1>2, SumInt

(* ProcessAmountAndSign turns the sign of a negative amount, and the totals stay. *)
LEMMA ProcessingKeepsTotals ==
  ASSUME NEW lines, Account(lines)
  PROVE  /\ Account(ProcessAmountAndSign(lines)) /\ DOMAIN ProcessAmountAndSign(lines) = DOMAIN lines
         /\ \A i \in DOMAIN lines :
              ProcessAmountAndSign(lines)[i].amount >= 0 /\ ProcessAmountAndSign(lines)[i].ddo = lines[i].ddo
         /\ \A side, o : TotalOf(ProcessAmountAndSign(lines), side, o) = TotalOf(lines, side, o)
<1>1. PICK p : p = ProcessAmountAndSign(lines)
  OBVIOUS
<1>2. DOMAIN p = DOMAIN lines
  BY <1>1 DEF ProcessAmountAndSign
<1>3. ASSUME NEW i \in DOMAIN lines
      PROVE  /\ IsLine(p[i]) /\ p[i].amount >= 0 /\ p[i].ddo = lines[i].ddo
             /\ p[i].side = lines[i].side /\ Signed(p[i]) = Signed(lines[i])
  <2>1. PICK l : l = lines[i]
    OBVIOUS
  <2>2. p[i] = IF l.amount < 0 THEN [l EXCEPT !.amount = -l.amount, !.sign = Flipped(l.sign)] ELSE l
    BY <1>1, <2>1 DEF ProcessAmountAndSign
  <2>3. /\ l.amount \in Int /\ l.sign \in {"+", "-"} /\ l.side \in {"T", "F"}
        /\ l = [ddo |-> l.ddo, sign |-> l.sign, amount |-> l.amount, side |-> l.side]
    BY <2>1 DEF Account, IsLine
  <2>4. CASE l.amount < 0
    <3>0. PICK d, s, a, e : d = l.ddo /\ s = l.sign /\ a = l.amount /\ e = l.side
      OBVIOUS
    <3>1. p[i] = [ddo |-> d, sign |-> Flipped(s), amount |-> -a, side |-> e]
      <4>1. l = [ddo |-> d, sign |-> s, amount |-> a, side |-> e]
        BY <2>3, <3>0
      <4> QED BY <2>2, <2>4, <3>0, <4>1
    <3> QED BY <2>1, <2>3, <2>4, <3>0, <3>1 DEF IsLine, Signed, Flipped
  <2>5. CASE ~(l.amount < 0)
    BY <2>1, <2>2, <2>3, <2>5 DEF IsLine
  <2> QED BY <2>4, <2>5
<1>4. Account(p)
  <2>1. p = [i \in DOMAIN lines |-> p[i]]
    BY <1>1, <1>2 DEF ProcessAmountAndSign
  <2> QED BY <1>2, <1>3, <2>1 DEF Account
<1>5. ASSUME NEW side, NEW o PROVE TotalOf(p, side, o) = TotalOf(lines, side, o)
  <2>1. Adds(p, side, o) = Adds(lines, side, o)
    BY <1>2, <1>3 DEF Adds
  <2> QED BY <1>2, <1>4, <2>1, TotalIs
<1> QED BY <1>1, <1>2, <1>3, <1>4, <1>5

\* No generated line has the place of a closing one.
Open(lines) == \A o : Closing(o) \notin DOMAIN lines

\* What closes the account of an office.
Gap(lines, closing, o) == CashLine(o, Equation(lines, closing, o))

(* The offices of the lines are finitely many, and so are the places of the lines that close them. *)
LEMMA FewToClose ==
  ASSUME NEW lines, Account(lines), NEW closing
  PROVE  IsFiniteSet({Closing(o) : o \in ToClose(lines, closing)})
<1>1. PICK D, O, T, C : D = DOMAIN lines /\ O = Offices(lines) /\ T = ToClose(lines, closing)
                        /\ C = {Closing(o) : o \in T}
  OBVIOUS
<1>2. IsFiniteSet(O)
  <2>1. PICK s : s = [i \in D |-> lines[i].ddo]
    OBVIOUS
  <2>2. s \in Surjection(D, O)
    BY <1>1, <2>1 DEF Surjection, Offices
  <2> QED BY <1>1, <2>2, FS_Surjection DEF Account
<1>3. IsFiniteSet(T)
  <2>1. T \subseteq O
    BY <1>1 DEF ToClose, Compared
  <2> QED BY <1>2, <2>1, FS_Subset
<1>4. PICK s : s = [o \in T |-> Closing(o)]
  OBVIOUS
<1>5. s \in Surjection(T, C)
  BY <1>1, <1>4 DEF Surjection
<1>6. IsFiniteSet(C)
  BY <1>3, <1>5, FS_Surjection
<1> QED BY <1>1, <1>6

(* What the closed account is: the lines, and one more for each office to close. *)
LEMMA ClosedIs ==
  ASSUME NEW lines, Account(lines), Open(lines), NEW closing,
         \A o \in ToClose(lines, closing) : Equation(lines, closing, o) \in Int
  PROVE  /\ Account(Closed(lines, closing))
         /\ DOMAIN Closed(lines, closing) = DOMAIN lines \cup {Closing(o) : o \in ToClose(lines, closing)}
         /\ \A i \in DOMAIN lines : Closed(lines, closing)[i] = lines[i]
         /\ \A o \in ToClose(lines, closing) : Closed(lines, closing)[Closing(o)] = Gap(lines, closing, o)
<1>1. PICK c, D, T, C : c = Closed(lines, closing) /\ D = DOMAIN lines /\ T = ToClose(lines, closing)
                        /\ C = {Closing(o) : o \in T}
  OBVIOUS
<1>2. c = [i \in D \cup C |-> IF i \in D THEN lines[i] ELSE Gap(lines, closing, i[2])]
  BY <1>1 DEF Closed, Gap
<1>3. DOMAIN c = D \cup C /\ \A i \in D : c[i] = lines[i]
  BY <1>2
<1>4. ASSUME NEW o \in T PROVE c[Closing(o)] = Gap(lines, closing, o) /\ IsLine(Gap(lines, closing, o))
  <2>1. Closing(o) \in C /\ Closing(o) \notin D
    BY <1>1 DEF Open
  <2>2. Closing(o)[2] = o
    BY DEF Closing
  <2>3. PICK e \in Int : e = Equation(lines, closing, o)
    BY <1>1
  <2>4. IsLine(CashLine(o, e))
    BY DEF CashLine, IsLine
  <2>5. c[Closing(o)] = Gap(lines, closing, Closing(o)[2])
    BY <1>2, <2>1
  <2> QED BY <2>2, <2>3, <2>4, <2>5 DEF Gap
<1>5. IsFiniteSet(D \cup C)
  BY <1>1, FewToClose, FS_Union DEF Account
<1>6. \A i \in D \cup C : IsLine(c[i])
  BY <1>1, <1>3, <1>4 DEF Account
<1>7. Account(c)
  BY <1>2, <1>3, <1>5, <1>6 DEF Account
<1> QED BY <1>1, <1>3, <1>4, <1>7

(* The line that closes the account of an office adds to its own side, and those *)
(* of the other offices add nothing.                                             *)
LEMMA ClosingAdds ==
  ASSUME NEW lines, Account(lines), Open(lines), NEW closing,
         \A q \in ToClose(lines, closing) : Equation(lines, closing, q) \in Int,
         NEW o, NEW side
  PROVE  TotalOf(Closed(lines, closing), side, o)
           = TotalOf(lines, side, o)
             + IF o \in ToClose(lines, closing) /\ Gap(lines, closing, o).side = side
               THEN Signed(Gap(lines, closing, o)) ELSE 0
<1>1. PICK c, D, T, C : c = Closed(lines, closing) /\ D = DOMAIN lines /\ T = ToClose(lines, closing)
                        /\ C = {Closing(q) : q \in T}
  OBVIOUS
<1>2. /\ Account(c) /\ DOMAIN c = D \cup C /\ \A i \in D : c[i] = lines[i]
  BY <1>1, ClosedIs
<1>3. \A q \in T : c[Closing(q)] = Gap(lines, closing, q)
  BY <1>1, ClosedIs
<1>4. PICK f, g : f = Adds(c, side, o) /\ g = Adds(lines, side, o)
  OBVIOUS
<1>5. /\ TotalOf(c, side, o) = SumOf(f, D \cup C) /\ Summable(f, D \cup C) /\ IsFiniteSet(D \cup C)
      /\ TotalOf(lines, side, o) = SumOf(g, D) /\ Summable(g, D) /\ TotalOf(lines, side, o) \in Int
      /\ IsFiniteSet(D)
  <2>1. TotalOf(c, side, o) = SumOf(f, D \cup C) /\ Summable(f, D \cup C) /\ IsFiniteSet(D \cup C)
    BY <1>2, <1>4, TotalIs
  <2>2. TotalOf(lines, side, o) = SumOf(g, D) /\ Summable(g, D) /\ IsFiniteSet(D) /\ TotalOf(lines, side, o) \in Int
    BY <1>1, <1>4, TotalIs
  <2> QED BY <2>1, <2>2
<1>6. SumOf(g, D) = SumOf(f, D)
  <2>1. \A i \in D : g[i] = f[i]
    BY <1>1, <1>2, <1>4 DEF Adds
  <2> QED BY <1>5, <2>1, SumSame
<1>7. ASSUME NEW q \in T, q # o PROVE f[Closing(q)] = 0
  <2>1. Gap(lines, closing, q).ddo = q
    BY DEF Gap, CashLine
  <2>2. Closing(q) \in DOMAIN c /\ c[Closing(q)].ddo = q
    BY <1>1, <1>2, <1>3, <2>1
  <2> QED BY <1>4, <1>7, <2>2 DEF Adds
<1>8. CASE o \in T
  <2>1. PICK x, l : x = Closing(o) /\ l = Gap(lines, closing, o)
    OBVIOUS
  <2>2. x \in C /\ x \notin D /\ c[x] = l /\ D \cup {x} \in SUBSET (D \cup C)
    BY <1>1, <1>3, <1>8, <2>1 DEF Open
  <2>3. ASSUME NEW i \in (D \cup C) \ (D \cup {x}) PROVE f[i] = 0
    <3>1. PICK q \in T : i = Closing(q) /\ q # o
      BY <1>1, <2>1, <2>3
    <3> QED BY <1>7, <3>1
  <2>4. SumOf(f, D \cup {x}) = SumOf(f, D \cup C)
    BY <1>5, <2>2, <2>3, SumWithoutZeros
  <2>5. SumOf(f, D \cup {x}) = f[x] + SumOf(f, D)
    <3>1. Summable(f, D \cup {x})
      BY <1>5, <2>2 DEF Summable
    <3> QED BY <1>5, <2>2, <3>1, SumAdd
  <2>6. f[x] = IF l.side = side THEN Signed(l) ELSE 0
    <3>1. l.ddo = o
      BY <2>1 DEF Gap, CashLine
    <3> QED BY <1>2, <1>4, <2>2, <3>1 DEF Adds
  <2>7. f[x] \in Int
    BY <1>5, <2>2 DEF Summable
  <2>8. TotalOf(c, side, o) = TotalOf(lines, side, o) + f[x]
    BY <1>5, <1>6, <2>4, <2>5, <2>7
  <2> QED BY <1>1, <1>8, <2>1, <2>6, <2>8
<1>9. CASE o \notin T
  <2>1. \A i \in (D \cup C) \ D : f[i] = 0
    BY <1>1, <1>7, <1>9
  <2>2. SumOf(f, D) = SumOf(f, D \cup C)
    <3>1. D \in SUBSET (D \cup C)
      OBVIOUS
    <3> QED BY <1>5, <2>1, <3>1, SumWithoutZeros
  <2> QED BY <1>1, <1>5, <1>6, <1>9, <2>2
<1> QED BY <1>8, <1>9

(* Lines without an amount are not sent, and add nothing. *)
LEMMA DetailsKeepTotals ==
  ASSUME NEW lines, Account(lines), \A i \in DOMAIN lines : lines[i].amount >= 0
  PROVE  \A side, o : TotalOf(ConvertToDetailsArray(lines), side, o) = TotalOf(lines, side, o)
<1>1. PICK T : T = {i \in DOMAIN lines : lines[i].amount > 0}
  OBVIOUS
<1>2. PICK d : d = ConvertToDetailsArray(lines)
  OBVIOUS
<1>3. d = [i \in T |-> lines[i]] /\ T \in SUBSET DOMAIN lines /\ DOMAIN d = T
  BY <1>1, <1>2 DEF ConvertToDetailsArray, Restrict
<1>4. Account(d)
  <2>1. IsFiniteSet(T)
    BY <1>3, FS_Subset DEF Account
  <2> QED BY <1>3, <2>1 DEF Account
<1> SUFFICES ASSUME NEW side, NEW o PROVE TotalOf(d, side, o) = TotalOf(lines, side, o)
  BY <1>2
<1>5. PICK f, g : f = Adds(lines, side, o) /\ g = Adds(d, side, o)
  OBVIOUS
<1>6. /\ TotalOf(d, side, o) = SumOf(g, T) /\ Summable(g, T) /\ IsFiniteSet(T)
      /\ TotalOf(lines, side, o) = SumOf(f, DOMAIN lines) /\ Summable(f, DOMAIN lines) /\ IsFiniteSet(DOMAIN lines)
  BY <1>3, <1>4, <1>5, TotalIs
<1>7. \A i \in T : g[i] = f[i]
  BY <1>3, <1>5 DEF Adds
<1>8. ASSUME NEW i \in DOMAIN lines \ T PROVE f[i] = 0
  <2>1. lines[i].amount \in Int /\ lines[i].amount >= 0 /\ ~(lines[i].amount > 0)
    BY <1>1 DEF Account, IsLine
  <2>2. lines[i].amount = 0
    BY <2>1
  <2> QED BY <1>5, <2>2 DEF Adds, Signed
<1>9. SumOf(g, T) = SumOf(f, T)
  BY <1>6, <1>7, SumSame
<1>10. SumOf(f, T) = SumOf(f, DOMAIN lines)
  BY <1>3, <1>6, <1>8, SumWithoutZeros
<1> QED BY <1>6, <1>9, <1>10

(* Receipts less payments of an office are twice its closing balance. *)
LEMMA PayloadCloses ==
  ASSUME NEW lines, Account(lines), Open(lines), NEW closing, \A q \in DOMAIN closing : closing[q] \in Int,
         NEW o \in Offices(lines) \cap DOMAIN closing
  PROVE  Net(Payload(lines, closing), o) = 2 * closing[o]
<1>1. PICK p : p = ProcessAmountAndSign(lines)
  OBVIOUS
<1>2. Account(p) /\ Open(p) /\ \A i \in DOMAIN p : p[i].amount >= 0
  BY <1>1, ProcessingKeepsTotals DEF Open
<1>3. o \in Compared(p, closing)
  <2>1. DOMAIN p = DOMAIN lines /\ \A i \in DOMAIN lines : p[i].ddo = lines[i].ddo
    BY <1>1, ProcessingKeepsTotals
  <2> QED BY <2>1 DEF Compared, Offices
<1>4. ASSUME NEW q
      PROVE  TotalOf(p, "T", q) \in Int /\ TotalOf(p, "F", q) \in Int
             /\ Net(p, q) = TotalOf(p, "T", q) - TotalOf(p, "F", q)
  BY <1>2, TotalIs DEF Net
<1>5. ASSUME NEW q \in DOMAIN closing
      PROVE  Equation(p, closing, q) \in Int /\ Equation(p, closing, q) = Net(p, q) - 2 * closing[q]
  BY <1>4 DEF Equation
<1>6. \A q \in ToClose(p, closing) : Equation(p, closing, q) \in Int
  BY <1>5 DEF ToClose, Compared
<1>7. PICK c : c = Closed(p, closing)
  OBVIOUS
<1>8. Account(c) /\ \A i \in DOMAIN c : c[i].amount >= 0
  <2>1. /\ Account(c) /\ DOMAIN c = DOMAIN p \cup {Closing(q) : q \in ToClose(p, closing)}
        /\ \A i \in DOMAIN p : c[i] = p[i]
    BY <1>2, <1>6, <1>7, ClosedIs
  <2>2. \A q \in ToClose(p, closing) : c[Closing(q)] = Gap(p, closing, q)
    BY <1>2, <1>6, <1>7, ClosedIs
  <2>3. ASSUME NEW q \in ToClose(p, closing) PROVE Gap(p, closing, q).amount >= 0
    <3>1. PICK e \in Int : e = Equation(p, closing, q)
      BY <1>6
    <3>2. CashLine(q, e).amount >= 0
      BY DEF CashLine
    <3> QED BY <3>1, <3>2 DEF Gap
  <2> QED BY <1>2, <2>1, <2>2, <2>3
<1>9. PICK e \in Int : e = Equation(p, closing, o)
  BY <1>5
<1>10. PICK l : l = Gap(p, closing, o)
  OBVIOUS
<1>11. /\ e < 0 => l.side = "T" /\ Signed(l) = -e
       /\ ~(e < 0) => l.side = "F" /\ Signed(l) = e
  BY <1>9, <1>10 DEF Gap, CashLine, Signed
<1>12. o \in ToClose(p, closing) <=> e # 0
  BY <1>3, <1>9 DEF ToClose
<1>13. TotalOf(c, "T", o) = TotalOf(p, "T", o) + IF e # 0 /\ l.side = "T" THEN Signed(l) ELSE 0
  BY <1>2, <1>6, <1>7, <1>10, <1>12, ClosingAdds
<1>14. TotalOf(c, "F", o) = TotalOf(p, "F", o) + IF e # 0 /\ l.side = "F" THEN Signed(l) ELSE 0
  BY <1>2, <1>6, <1>7, <1>10, <1>12, ClosingAdds
<1>15. TotalOf(c, "T", o) - TotalOf(c, "F", o) = TotalOf(p, "T", o) - TotalOf(p, "F", o) - e
  BY <1>4, <1>11, <1>13, <1>14
<1>16. Net(Payload(lines, closing), o) = TotalOf(c, "T", o) - TotalOf(c, "F", o)
  <2>1. Payload(lines, closing) = ConvertToDetailsArray(c)
    BY <1>1, <1>7 DEF Payload
  <2> QED BY <1>8, <2>1, DetailsKeepTotals DEF Net
<1>17. e = Net(p, o) - 2 * closing[o] /\ closing[o] \in Int
  BY <1>5, <1>9
<1> QED BY <1>4, <1>15, <1>16, <1>17

(* A negative entry takes back, office by office, what its original said. *)
LEMMA ReversalMirrors ==
  ASSUME NEW details, Account(details), NEW o
  PROVE  Net(BuildReversalPayload(details), o) = -Net(details, o)
<1>1. PICK r, D : r = BuildReversalPayload(details) /\ D = DOMAIN details
  OBVIOUS
<1>2. r = [i \in D |-> [details[i] EXCEPT !.sign = Flipped(details[i].sign)]] /\ DOMAIN r = D
  BY <1>1 DEF BuildReversalPayload
<1>3. ASSUME NEW i \in D
      PROVE  /\ IsLine(r[i]) /\ r[i].side = details[i].side /\ r[i].ddo = details[i].ddo
             /\ Signed(r[i]) = -Signed(details[i]) /\ Signed(details[i]) \in Int
  <2>1. PICK l : l = details[i]
    OBVIOUS
  <2>2. /\ l.amount \in Int /\ l.sign \in {"+", "-"} /\ l.side \in {"T", "F"}
        /\ l = [ddo |-> l.ddo, sign |-> l.sign, amount |-> l.amount, side |-> l.side]
    BY <1>1, <2>1 DEF Account, IsLine
  <2>3. PICK d, s, a, e : d = l.ddo /\ s = l.sign /\ a = l.amount /\ e = l.side
    OBVIOUS
  <2>4. l = [ddo |-> d, sign |-> s, amount |-> a, side |-> e]
    BY <2>2, <2>3
  <2>5. r[i] = [ddo |-> d, sign |-> Flipped(s), amount |-> a, side |-> e]
    BY <1>2, <2>1, <2>3, <2>4
  <2> QED BY <2>1, <2>2, <2>3, <2>5 DEF IsLine, Signed, Flipped
<1>4. Account(r)
  BY <1>1, <1>2, <1>3 DEF Account
<1>5. ASSUME NEW side
      PROVE  TotalOf(r, side, o) = -TotalOf(details, side, o) /\ TotalOf(details, side, o) \in Int
  <2>1. PICK f, g : f = Adds(details, side, o) /\ g = Adds(r, side, o)
    OBVIOUS
  <2>2. /\ TotalOf(r, side, o) = SumOf(g, D) /\ Summable(g, D) /\ IsFiniteSet(D) /\ TotalOf(r, side, o) \in Int
        /\ TotalOf(details, side, o) = SumOf(f, D) /\ Summable(f, D) /\ TotalOf(details, side, o) \in Int
    BY <1>1, <1>2, <1>4, <2>1, TotalIs
  <2>3. PICK z : z = [i \in D |-> 0]
    OBVIOUS
  <2>4. \A i \in D : z[i] = 0 /\ z[i] = f[i] + g[i]
    BY <1>1, <1>2, <1>3, <2>1, <2>3 DEF Adds
  <2>5. SumOf(z, D) = SumOf(f, D) + SumOf(g, D) /\ SumOf(z, D) = 0
    BY <2>2, <2>4, SumPlus, SumZero
  <2> QED BY <2>2, <2>5
<1>6. /\ TotalOf(r, "T", o) = -TotalOf(details, "T", o) /\ TotalOf(details, "T", o) \in Int
      /\ TotalOf(r, "F", o) = -TotalOf(details, "F", o) /\ TotalOf(details, "F", o) \in Int
  BY <1>5
<1> QED BY <1>1, <1>6 DEF Net

--------------------------------------------------------------------------------
(* What PFMS receives closes *)

\* Cash books that were all received.
Held(cbs) == cbs \in Seq(Books) /\ cbs # << >> /\ \A i \in DOMAIN cbs : cbs[i] \in DOMAIN kafka

\* A request that took every lease names received cash books alone; before that, what
\* it has a lease on was received.
Checked(r) ==
  /\ r.cbs \in Seq(Books) /\ r.cbs # << >>
  /\ r.pc # "lease" => Held(r.cbs)
  /\ r.pc = "lease" =>
       \A i \in DOMAIN r.cbs : r.cbs[i] \in DOMAIN kafka \/ \E j \in DOMAIN r.left : r.left[j] = r.cbs[i]

\* These amounts of the offices close what the cash books say.
Closes(amount, cbs) ==
  \A o \in Offices(GetPfmsJson(cbs)) : amount[o] = 2 * ClosingBalance(cbs)[o]

BalanceInv ==
  /\ \A b \in DOMAIN kafka : kafka[b] \in Contents
  /\ \A t \in Threads : Submits(t) => Checked(req[t])
  /\ \A i \in DOMAIN subm : Held(subm[i].cbs)
  /\ \A u \in DOMAIN pfms : Held(pfms[u].cbs) /\ Closes(pfms[u].amount, pfms[u].cbs)

(* There is a greatest number in a set of them that is bounded. *)
LEMMA Greatest ==
  ASSUME NEW n \in Nat, NEW S, S \subseteq 1..n, S # {}
  PROVE  Max(S) \in S
<1> DEFINE T == {n - x : x \in S}
<1>1. T \subseteq Nat /\ T # {}
  <2>1. \A x \in S : n - x \in Nat
    OBVIOUS
  <2> QED BY <2>1
<1>2. PICK m \in T : \A y \in T : ~(<<y, m>> \in OpToRel(<, Nat))
  BY <1>1, NatLessThanWellFounded, WFMin
<1>3. PICK x \in S : m = n - x
  OBVIOUS
<1>4. \A y \in S : x >= y
  <2> SUFFICES ASSUME NEW y \in S, ~(x >= y) PROVE FALSE
    OBVIOUS
  <2>1. n - y \in T /\ n - y \in Nat /\ n - y < m /\ m \in Nat
    BY <1>3
  <2>2. <<n - y, m>> \in OpToRel(<, Nat)
    BY <2>1 DEF OpToRel
  <2> QED BY <1>2, <2>1, <2>2
<1> QED BY <1>4 DEF Max

(* The places of the cash books that were received are all there are. *)
LEMMA AllReceived ==
  ASSUME NEW cbs, Held(cbs)
  PROVE  Received(cbs) = DOMAIN cbs /\ DOMAIN cbs = 1..Len(cbs) /\ Len(cbs) \in Nat \ {0}
<1>1. Len(cbs) \in Nat /\ DOMAIN cbs = 1..Len(cbs) /\ Len(cbs) # 0
  BY LenProperties, EmptySeq DEF Held
<1>2. Received(cbs) = DOMAIN cbs
  BY DEF Held, Received
<1> QED BY <1>1, <1>2

(* The last received cash book of an office is one of the list and of the office. *)
LEMMA LastIs ==
  ASSUME NEW cbs, Held(cbs), NEW i \in DOMAIN cbs
  PROVE  LastOf(cbs, cbs[i].ddo) \in DOMAIN cbs /\ cbs[LastOf(cbs, cbs[i].ddo)].ddo = cbs[i].ddo
<1>1. PICK S, n, o : S = {j \in Received(cbs) : cbs[j].ddo = o} /\ n = Len(cbs) /\ o = cbs[i].ddo
  OBVIOUS
<1>2. Received(cbs) = DOMAIN cbs /\ DOMAIN cbs = 1..n /\ n \in Nat
  BY <1>1, AllReceived
<1>3. S \subseteq 1..n /\ S # {}
  BY <1>1, <1>2
<1>4. Max(S) \in S
  BY <1>2, <1>3, Greatest
<1>5. LastOf(cbs, o) = Max(S)
  BY <1>1 DEF LastOf
<1> QED BY <1>1, <1>2, <1>4, <1>5

\* The lines K at these places of a list, each with its office.
Made(cbs, K, places) ==
  [p \in UNION {{i} \X DOMAIN K[i] : i \in places} |->
     [ddo |-> cbs[p[1]].ddo, sign |-> K[p[1]][p[2]].sign, amount |-> K[p[1]][p[2]].amount,
      side |-> K[p[1]][p[2]].side]]

\* GetPfmsJson for cash books with this content.
Generated(k, cbs, places) ==
  [p \in UNION {{i} \X DOMAIN k[cbs[i]].lines : i \in places} |->
     [ddo |-> cbs[p[1]].ddo, sign |-> k[cbs[p[1]]].lines[p[2]].sign, amount |-> k[cbs[p[1]]].lines[p[2]].amount,
      side |-> k[cbs[p[1]]].lines[p[2]].side]]

(* What the lines of a list of cash books are made from. *)
LEMMA GeneratedIs ==
  ASSUME NEW k, NEW cbs, NEW S, NEW K, \A i \in S : K[i] = k[cbs[i]].lines
  PROVE  Generated(k, cbs, S) = Made(cbs, K, S)
<1>1. PICK P : P = {{i} \X DOMAIN K[i] : i \in S}
  OBVIOUS
<1>2. P = {{i} \X DOMAIN k[cbs[i]].lines : i \in S}
  BY <1>1
<1>3. Generated(k, cbs, S) =
        [p \in UNION P |-> [ddo |-> cbs[p[1]].ddo, sign |-> k[cbs[p[1]]].lines[p[2]].sign,
                            amount |-> k[cbs[p[1]]].lines[p[2]].amount,
                            side |-> k[cbs[p[1]]].lines[p[2]].side]]
  BY <1>2 DEF Generated
<1>4. \A p \in UNION P : k[cbs[p[1]]].lines = K[p[1]]
  <2> SUFFICES ASSUME NEW p \in UNION P PROVE p[1] \in S
    OBVIOUS
  <2>1. PICK i \in S : p \in {i} \X DOMAIN K[i]
    BY <1>1
  <2> QED BY <2>1
<1>5. Generated(k, cbs, S) =
        [p \in UNION P |-> [ddo |-> cbs[p[1]].ddo, sign |-> K[p[1]][p[2]].sign, amount |-> K[p[1]][p[2]].amount,
                            side |-> K[p[1]][p[2]].side]]
  BY <1>3, <1>4
<1> QED BY <1>1, <1>5 DEF Made

(* A cash book that was received is not replaced, so what the list says stands. *)
LEMMA ClosingStands ==
  ASSUME NEW cbs, Held(cbs), KafkaKept
  PROVE  /\ Held(cbs)' /\ GetPfmsJson(cbs)' = GetPfmsJson(cbs)
         /\ ClosingBalance(cbs)' = ClosingBalance(cbs)
<1>1. Held(cbs)'
  BY DEF Held, KafkaKept
<1>2. PICK S : S = Received(cbs)
  OBVIOUS
<1>3. S = DOMAIN cbs
  BY <1>2, AllReceived
<1>4. Received(cbs)' = S
  BY <1>1, <1>3 DEF Held, Received
<1>5. \A i \in S : kafka'[cbs[i]] = kafka[cbs[i]]
  BY <1>3 DEF Held, KafkaKept
<1>6. GetPfmsJson(cbs)' = GetPfmsJson(cbs)
  <2>1. PICK K : K = [i \in S |-> kafka[cbs[i]].lines]
    OBVIOUS
  <2>2. \A i \in S : K[i] = kafka[cbs[i]].lines /\ K[i] = kafka'[cbs[i]].lines
    BY <1>5, <2>1
  <2>3. Generated(kafka, cbs, S) = Made(cbs, K, S) /\ Generated(kafka', cbs, S) = Made(cbs, K, S)
    BY <2>2, GeneratedIs
  <2>4. GetPfmsJson(cbs) = Generated(kafka, cbs, S)
    BY <1>2 DEF GetPfmsJson, Generated
  <2>5. GetPfmsJson(cbs)' = Generated(kafka', cbs, S)
    BY <1>4 DEF GetPfmsJson, Generated
  <2> QED BY <2>3, <2>4, <2>5
<1>7. ClosingBalance(cbs)' = ClosingBalance(cbs)
  <2>1. PICK O : O = {cbs[i].ddo : i \in S}
    OBVIOUS
  <2>2. ASSUME NEW o \in O
        PROVE  LastOf(cbs, o)' = LastOf(cbs, o) /\ LastOf(cbs, o) \in S
    <3>1. LastOf(cbs, o)' = LastOf(cbs, o)
      BY <1>2, <1>4 DEF LastOf
    <3>2. PICK i \in DOMAIN cbs : o = cbs[i].ddo
      BY <1>3, <2>1
    <3> QED BY <1>3, <3>1, <3>2, LastIs
  <2>3. PICK c, l : c = [o \in O |-> kafka[cbs[l[o]]].closing] /\ l = [o \in O |-> LastOf(cbs, o)]
    <3>1. PICK l : l = [o \in O |-> LastOf(cbs, o)]
      OBVIOUS
    <3> QED BY <3>1
  <2>4. ClosingBalance(cbs) = c
    BY <1>2, <2>1, <2>3 DEF ClosingBalance
  <2>5. ClosingBalance(cbs)' = [o \in O |-> kafka'[cbs[LastOf(cbs, o)']].closing]
    BY <1>4, <2>1 DEF ClosingBalance
  <2>6. \A o \in O : kafka'[cbs[LastOf(cbs, o)']].closing = kafka[cbs[l[o]]].closing
    BY <1>5, <2>2, <2>3
  <2> QED BY <2>3, <2>4, <2>5, <2>6
<1> QED BY <1>1, <1>6, <1>7

(* The lines of cash books that were received are an account. *)
LEMMA GeneratedAccount ==
  ASSUME NEW cbs, Held(cbs), \A b \in DOMAIN kafka : kafka[b] \in Contents
  PROVE  /\ Account(GetPfmsJson(cbs)) /\ Open(GetPfmsJson(cbs))
         /\ Offices(GetPfmsJson(cbs)) \subseteq {cbs[i].ddo : i \in DOMAIN cbs}
<1>1. PICK S, n : S = Received(cbs) /\ n = Len(cbs)
  OBVIOUS
<1>2. S = 1..n /\ S = DOMAIN cbs /\ n \in Nat
  BY <1>1, AllReceived
<1>3. PICK K : K = [i \in S |-> kafka[cbs[i]].lines]
  OBVIOUS
<1>4. ASSUME NEW i \in S
      PROVE  /\ IsFiniteSet({i} \X DOMAIN K[i]) /\ \A o : Closing(o) \notin {i} \X DOMAIN K[i]
             /\ \A j \in DOMAIN K[i] :
                  K[i][j].sign \in {"+", "-"} /\ K[i][j].amount \in Int /\ K[i][j].side \in {"T", "F"}
  <2>1. PICK c \in Contents : c = kafka[cbs[i]]
    BY <1>2 DEF Held
  <2>2. PICK ls : ls = c.lines
    OBVIOUS
  <2>8. PICK L : L = [sign : {"+", "-"}, amount : Int, side : {"T", "F"}]
    OBVIOUS
  <2>3. ls \in Seq(L) /\ K[i] = ls
    BY <1>3, <2>1, <2>2, <2>8, CashbookAssumption
  <2>4. PICK m \in Nat : DOMAIN ls = 1..m
    BY <2>3, LenProperties
  <2>5. IsFiniteSet({i} \X (1..m))
    <3>1. PICK R : R = 1..m
      OBVIOUS
    <3>2. IsFiniteSet(R)
      BY <3>1, FS_Interval
    <3>4. IsFiniteSet({i})
      BY FS_Singleton
    <3>3. IsFiniteSet({i} \X R)
      BY <3>2, <3>4, FS_Product
    <3> QED BY <3>1, <3>3
  <2>6. \A o : Closing(o) \notin {i} \X (1..m)
    BY <1>2 DEF Closing
  <2>7. \A j \in DOMAIN ls : ls[j] \in L
    BY <2>3
  <2>9. \A l \in L : l.sign \in {"+", "-"} /\ l.amount \in Int /\ l.side \in {"T", "F"}
    BY <2>8
  <2> QED BY <2>3, <2>4, <2>5, <2>6, <2>7, <2>9
<1>5. PICK P : P = {{i} \X DOMAIN K[i] : i \in S}
  OBVIOUS
<1>6. PICK g : g = GetPfmsJson(cbs)
  OBVIOUS
<1>7. g = [p \in UNION P |->
             [ddo |-> cbs[p[1]].ddo, sign |-> K[p[1]][p[2]].sign, amount |-> K[p[1]][p[2]].amount,
              side |-> K[p[1]][p[2]].side]]
  <2>1. \A i \in S : K[i] = kafka[cbs[i]].lines
    BY <1>3
  <2>2. Generated(kafka, cbs, S) = Made(cbs, K, S)
    BY <2>1, GeneratedIs
  <2>3. g = Generated(kafka, cbs, S)
    BY <1>1, <1>6 DEF GetPfmsJson, Generated
  <2> QED BY <1>5, <2>2, <2>3 DEF Made
<1>8. IsFiniteSet(UNION P)
  <2>1. IsFiniteSet(S)
    BY <1>2, FS_Interval
  <2>2. IsFiniteSet(P)
    <3>1. PICK s : s = [i \in S |-> {i} \X DOMAIN K[i]]
      OBVIOUS
    <3>2. s \in Surjection(S, P)
      BY <1>5, <3>1 DEF Surjection
    <3> QED BY <2>1, <3>2, FS_Surjection
  <2>3. \A Q \in P : IsFiniteSet(Q)
    BY <1>4, <1>5
  <2> QED BY <2>2, <2>3, FS_UNION
<1>9. ASSUME NEW p \in UNION P
      PROVE  IsLine(g[p]) /\ (\A o : p # Closing(o)) /\ \E i \in DOMAIN cbs : g[p].ddo = cbs[i].ddo
  <2>1. PICK i \in S : p \in {i} \X DOMAIN K[i]
    BY <1>5
  <2>2. PICK j \in DOMAIN K[i] : p = <<i, j>>
    BY <2>1
  <2>3. PICK l : l = K[i][j]
    OBVIOUS
  <2>4. g[p] = [ddo |-> cbs[i].ddo, sign |-> l.sign, amount |-> l.amount, side |-> l.side]
    BY <1>7, <2>2, <2>3
  <2>5. l.sign \in {"+", "-"} /\ l.amount \in Int /\ l.side \in {"T", "F"}
    BY <1>4, <2>3
  <2>6. \A o : p # Closing(o)
    BY <1>4, <2>1
  <2> QED BY <1>2, <2>4, <2>5, <2>6 DEF IsLine
<1>10. DOMAIN g = UNION P /\ g = [p \in UNION P |-> g[p]]
  BY <1>7
<1>11. Account(g)
  BY <1>8, <1>9, <1>10 DEF Account
<1>12. Open(g)
  BY <1>9, <1>10 DEF Open
<1>13. Offices(g) \subseteq {cbs[i].ddo : i \in DOMAIN cbs}
  BY <1>9, <1>10 DEF Offices
<1> QED BY <1>6, <1>11, <1>12, <1>13

(* The payload of cash books that were received closes for each office. *)
LEMMA BuiltCloses ==
  ASSUME NEW cbs, Held(cbs), \A b \in DOMAIN kafka : kafka[b] \in Contents,
         NEW o \in Offices(GetPfmsJson(cbs))
  PROVE  /\ o \in DdoCodes
         /\ Net(Payload(GetPfmsJson(cbs), ClosingBalance(cbs)), o) = 2 * ClosingBalance(cbs)[o]
<1>1. PICK g, c : g = GetPfmsJson(cbs) /\ c = ClosingBalance(cbs)
  OBVIOUS
<1>2. Account(g) /\ Open(g) /\ \E i \in DOMAIN cbs : o = cbs[i].ddo
  BY <1>1, GeneratedAccount
<1>3. o \in DdoCodes
  BY <1>2 DEF Held, DdoCodes
<1>4. PICK O : O = {cbs[i].ddo : i \in DOMAIN cbs}
  OBVIOUS
<1>5. c = [q \in O |-> kafka[cbs[LastOf(cbs, q)]].closing]
  BY <1>1, <1>4, AllReceived DEF ClosingBalance
<1>6. ASSUME NEW q \in O PROVE c[q] \in Int
  <2>1. PICK i \in DOMAIN cbs : q = cbs[i].ddo
    BY <1>4
  <2>2. LastOf(cbs, q) \in DOMAIN cbs
    BY <2>1, LastIs
  <2>3. PICK k \in Contents : k = kafka[cbs[LastOf(cbs, q)]]
    BY <2>2 DEF Held
  <2>4. k.closing \in Int
    BY CashbookAssumption
  <2> QED BY <1>5, <2>3, <2>4
<1>7. DOMAIN c = O /\ o \in O
  BY <1>2, <1>4, <1>5
<1>8. Net(Payload(g, c), o) = 2 * c[o]
  BY <1>1, <1>2, <1>6, <1>7, PayloadCloses
<1> QED BY <1>1, <1>3, <1>8

SubmFromRequests ==
  \A i \in DOMAIN subm' :
    \/ i \in DOMAIN subm /\ subm'[i].cbs = subm[i].cbs
    \/ \E t \in Threads : Submits(t) /\ req[t].pc = "log" /\ subm'[i].cbs = req[t].cbs

EntriesKept ==
  \A u \in DOMAIN pfms : u \in DOMAIN pfms' /\ pfms'[u].cbs = pfms[u].cbs /\ pfms'[u].amount = pfms[u].amount

(* What no step changes of cash books and entries. *)
LEMMA AmountsStand ==
  ASSUME Inv, BalanceInv, CashbookNext
  PROVE  KafkaKept /\ (\A b \in DOMAIN kafka' : kafka'[b] \in Contents) /\ EntriesKept
<1>1. (\A b \in DOMAIN kafka : kafka[b] \in Contents) /\ \A u \in DOMAIN pfms : DOMAIN pfms[u] = PfmsFields
  BY DEF Inv, RowsOK, BalanceInv
<1>2. CASE UNCHANGED <<kafka, pfms>>
  BY <1>1, <1>2, KafkaRests DEF EntriesKept
<1>3. ASSUME NEW b \in Books, NEW c \in Contents, Arrive(b, c)
      PROVE  KafkaKept /\ (\A e \in DOMAIN kafka' : kafka'[e] \in Contents) /\ EntriesKept
  BY <1>1, <1>3 DEF Arrive, Put, KafkaKept, EntriesKept
<1>4. ASSUME UNCHANGED kafka, NEW u, NEW s, pfms' = [pfms EXCEPT ![u].st = s]
      PROVE  KafkaKept /\ (\A b \in DOMAIN kafka' : kafka'[b] \in Contents) /\ EntriesKept
  <2>1. ASSUME NEW v \in DOMAIN pfms
        PROVE  v \in DOMAIN pfms' /\ pfms'[v].cbs = pfms[v].cbs /\ pfms'[v].amount = pfms[v].amount
    BY <1>1, <1>4 DEF PfmsFields
  <2> QED BY <1>1, <1>4, <2>1, KafkaRests DEF EntriesKept
<1>5. ASSUME NEW t \in Threads, NEW op \in {"submit", "resubmit"}, NEW refused, Build(t, op, refused)
      PROVE  KafkaKept /\ (\A b \in DOMAIN kafka' : kafka'[b] \in Contents) /\ EntriesKept
  <2>1. UNCHANGED kafka
    BY <1>5 DEF Build, tables
  <2>2. \A u \in DOMAIN pfms : u \in DOMAIN pfms' /\ pfms'[u] = pfms[u]
    BY <1>5, BuildDoes
  <2> QED BY <1>1, <2>1, <2>2, KafkaRests DEF EntriesKept
<1>6. CASE Outside
  <2>1. CASE \E b \in Books, c \in Contents : Arrive(b, c)
    BY <1>3, <2>1
  <2>2. CASE \E from, to \in Days : UpdateDDOCashbookList(from, to)
    BY <1>2, <2>2 DEF UpdateDDOCashbookList
  <2>3. CASE \E u \in 1..MaxUid : PfmsTakes(u) \/ PfmsDecides(u)
    <3>1. PICK u, s : pfms' = [pfms EXCEPT ![u].st = s]
      BY <2>3 DEF PfmsTakes, PfmsDecides
    <3>2. UNCHANGED kafka
      BY <2>3 DEF PfmsTakes, PfmsDecides, tables
    <3> QED BY <1>4, <3>1, <3>2
  <2>4. CASE Tick
    BY <1>2, <2>4 DEF Tick
  <2> QED BY <1>6, <2>1, <2>2, <2>3, <2>4 DEF Outside
<1>7. ASSUME NEW t \in Threads, Begin(t)
      PROVE  UNCHANGED <<kafka, pfms>>
  BY <1>7 DEF Begin, StartVerification, StartEmptyVerification, Enter, StartSubmission, StartResubmission, AskStatus,
     StartPoll, tables
<1>8. ASSUME NEW t \in Threads, Serve(t)
      PROVE  \/ UNCHANGED <<kafka, pfms>>
             \/ LogIn(t)
             \/ \E op \in {"submit", "resubmit"}, refused \in BOOLEAN : Build(t, op, refused)
  <2>1. CASE BuildPayload(t)
    <3>1. PICK refused \in BOOLEAN :
            refused <=> (DOMAIN Lines(t) = {} \/ TooFarOff(Lines(t), ClosingBalance(req[t].cbs)))
      OBVIOUS
    <3>2. Build(t, "submit", refused)
      BY <2>1, <3>1 DEF BuildPayload, Build
    <3> QED BY <3>2
  <2>2. CASE RebuildPayload(t)
    BY <2>2 DEF RebuildPayload
  <2>3. CASE ~BuildPayload(t) /\ ~RebuildPayload(t) /\ ~LogIn(t)
    <3>1. \/ PostPfmsverified(t) \/ PostEmptyPfmsverified(t) \/ TryStartSubmission(t)
          \/ Answered(t) \/ ReAnswered(t)
          \/ GetPfmsUpdateStatus(t) \/ FinishSubmission(t) \/ FinishResubmission(t)
          \/ PollAsks(t) \/ UpdateStatusInMain(t) \/ UpdateStatusInSubmission(t)
          \/ Stop(t)
      BY <1>8, <2>3 DEF Serve
    <3> QED BY <3>1 DEF PostPfmsverified, PostEmptyPfmsverified, TryStartSubmission,
          Answered, ReAnswered, AnswerOf, GetPfmsUpdateStatus, FinishSubmission, FinishResubmission, Finish,
          PollAsks, UpdateStatusInMain, UpdateStatusInSubmission, Stop, tables
  <2> QED BY <1>8, <2>1, <2>2, <2>3
<1>9. ASSUME NEW t \in Threads, LogIn(t)
      PROVE  KafkaKept /\ (\A b \in DOMAIN kafka' : kafka'[b] \in Contents) /\ EntriesKept
  <2>1. PICK u : u = req[t].uid
    OBVIOUS
  <2>2. UNCHANGED kafka /\ pfms' = [pfms EXCEPT ![u].st = "sent"]
    BY <1>9, <2>1 DEF LogIn, tables
  <2> QED BY <1>4, <2>2
<1> QED BY <1>2, <1>5, <1>6, <1>7, <1>8, <1>9 DEF CashbookNext

(* A request that was checked stays so while no cash book is deleted. *)
LEMMA CheckedStands ==
  ASSUME NEW r, Checked(r), KafkaKept
  PROVE  Checked(r)'
BY ClosingStands DEF Checked, KafkaKept

(* The lists of cash books that name received ones go on naming received ones. *)
LEMMA BalanceStands ==
  ASSUME BalanceInv, KafkaKept, \A b \in DOMAIN kafka' : kafka'[b] \in Contents, EntriesKept,
         \A t \in Threads : Submits(t)' => Checked(req'[t]),
         SubmFromRequests,
         \A u \in DOMAIN pfms' : u \in DOMAIN pfms \/ (Held(pfms'[u].cbs) /\ Closes(pfms'[u].amount, pfms'[u].cbs))
  PROVE  BalanceInv'
<1>1. ASSUME NEW t \in Threads, Submits(t)' PROVE Checked(req[t])'
  <2>1. PICK r : r = req'[t]
    OBVIOUS
  <2>2. Checked(r)
    BY <1>1, <2>1
  <2>3. Checked(r)'
    BY <2>2, CheckedStands
  <2> QED BY <2>1, <2>3 DEF Checked, Held
<1>2. ASSUME NEW i \in DOMAIN subm' PROVE Held(subm[i].cbs)'
  <2>1. PICK cbs : Held(cbs) /\ subm'[i].cbs = cbs
    BY <1>2 DEF BalanceInv, SubmFromRequests, Checked
  <2>2. Held(cbs)'
    BY <2>1, ClosingStands
  <2> QED BY <2>1, <2>2 DEF Held
<1>3. ASSUME NEW u \in DOMAIN pfms' PROVE Held(pfms[u].cbs)' /\ Closes(pfms[u].amount, pfms[u].cbs)'
  <2>1. PICK cbs, a : cbs = pfms'[u].cbs /\ a = pfms'[u].amount
    OBVIOUS
  <2>2. Held(cbs) /\ Closes(a, cbs)
    <3>1. CASE u \in DOMAIN pfms
      BY <2>1, <3>1 DEF BalanceInv, EntriesKept
    <3>2. CASE u \notin DOMAIN pfms
      BY <1>3, <2>1, <3>2
    <3> QED BY <3>1, <3>2
  <2>3. Held(cbs)' /\ GetPfmsJson(cbs)' = GetPfmsJson(cbs) /\ ClosingBalance(cbs)' = ClosingBalance(cbs)
    BY <2>2, ClosingStands
  <2>4. Closes(a, cbs)'
    BY <2>2, <2>3 DEF Closes
  <2>5. Held(pfms[u].cbs)'
    BY <2>1, <2>3 DEF Held
  <2>6. Closes(pfms[u].amount, pfms[u].cbs)'
    <3>1. GetPfmsJson(pfms[u].cbs)' = GetPfmsJson(cbs)'
      BY <2>1 DEF GetPfmsJson, Received
    <3>2. ClosingBalance(pfms[u].cbs)' = ClosingBalance(cbs)'
      BY <2>1 DEF ClosingBalance, LastOf, Received
    <3>3. \A o \in Offices(GetPfmsJson(cbs)') : a[o] = 2 * ClosingBalance(cbs)'[o]
      BY <2>4 DEF Closes, Offices
    <3> QED BY <2>1, <3>1, <3>2, <3>3 DEF Closes, Offices
  <2> QED BY <2>5, <2>6
<1> QED BY <1>1, <1>2, <1>3 DEF BalanceInv

(* A list that is not checked yet at all: none of its leases is taken. *)
LEMMA UncheckedIs ==
  ASSUME NEW r, r.cbs \in Seq(Books), r.cbs # << >>, r.pc = "lease", r.left = r.cbs
  PROVE  Checked(r)
BY DEF Checked

(* The first cash book of what is left is received, and the others are still left. *)
LEMMA OneMoreChecked ==
  ASSUME NEW r, Checked(r), r.pc = "lease", r.left \in Seq(Books), r.left # << >>, Head(r.left) \in DOMAIN kafka,
         NEW q, q.cbs = r.cbs,
         \/ Len(r.left) = 1 /\ q.pc # "lease"
         \/ q.pc = "lease" /\ q.left = Tail(r.left)
  PROVE  Checked(q)
<1>1. PICK l, cbs : l = r.left /\ cbs = r.cbs
  OBVIOUS
<1>2. /\ l \in Seq(Books) /\ l # << >> /\ cbs \in Seq(Books) /\ cbs # << >>
      /\ \A i \in DOMAIN cbs : cbs[i] \in DOMAIN kafka \/ \E j \in DOMAIN l : l[j] = cbs[i]
  BY <1>1 DEF Checked
<1>3. /\ Len(l) \in Nat /\ DOMAIN l = 1..Len(l) /\ Tail(l) \in Seq(Books) /\ Len(Tail(l)) = Len(l) - 1
      /\ \A k \in 1..Len(Tail(l)) : Tail(l)[k] = l[k + 1]
  BY <1>2, HeadTailProperties, LenProperties
<1>4. l[1] \in DOMAIN kafka
  BY <1>1
<1>5. DOMAIN Tail(l) = 1..(Len(l) - 1)
  BY <1>3, LenProperties
<1>6. ASSUME NEW j \in DOMAIN l PROVE l[j] \in DOMAIN kafka \/ \E k \in DOMAIN Tail(l) : Tail(l)[k] = l[j]
  <2>1. CASE j = 1
    BY <1>4, <2>1
  <2>2. CASE j # 1
    <3>1. j - 1 \in DOMAIN Tail(l) /\ (j - 1) + 1 = j
      BY <1>3, <1>5, <2>2
    <3>2. Tail(l)[j - 1] = l[j]
      BY <1>3, <3>1
    <3> QED BY <3>1, <3>2
  <2> QED BY <2>1, <2>2
<1>7. CASE Len(l) = 1 /\ q.pc # "lease"
  <2>1. \A i \in DOMAIN cbs : cbs[i] \in DOMAIN kafka
    BY <1>2, <1>3, <1>4, <1>7
  <2> QED BY <1>1, <1>2, <1>7, <2>1 DEF Checked, Held
<1>8. CASE q.pc = "lease" /\ q.left = Tail(l)
  BY <1>1, <1>2, <1>6, <1>8 DEF Checked
<1> QED BY <1>1, <1>7, <1>8

(* A request past its leases stays checked while it names the same cash books. *)
LEMMA CheckedOn ==
  ASSUME NEW r, NEW q, Checked(r), r.pc # "lease", q.pc # "lease", q.cbs = r.cbs
  PROVE  Checked(q)
BY DEF Checked

(* Every step keeps it. *)
LEMMA BalanceSteps ==
  ASSUME Inv, BalanceInv, CashbookNext
  PROVE  BalanceInv'
<1>1. KafkaKept /\ (\A b \in DOMAIN kafka' : kafka'[b] \in Contents) /\ EntriesKept
  BY AmountsStand
<1>2. ASSUME Uninvolved PROVE BalanceInv'
  <2>1. SubmFromRequests /\ \A u \in DOMAIN pfms' : u \in DOMAIN pfms
    BY <1>2 DEF Uninvolved, SubmStands, SubmFromRequests
  <2>2. \A t \in Threads : Submits(t)' => Submits(t) /\ req'[t] = req[t]
    BY <1>2 DEF Uninvolved, RequestStands, Submits
  <2>3. \A t \in Threads : Submits(t)' => Checked(req'[t])
    BY <2>2 DEF BalanceInv
  <2> QED BY <1>1, <2>1, <2>3, BalanceStands
<1>3. ASSUME UNCHANGED subm, DOMAIN pfms' = DOMAIN pfms,
             \A t \in Threads : Submits(t)' => Checked(req'[t])
      PROVE  BalanceInv'
  <2>1. SubmFromRequests /\ \A u \in DOMAIN pfms' : u \in DOMAIN pfms
    BY <1>3 DEF SubmFromRequests
  <2> QED BY <1>1, <1>3, <2>1, BalanceStands
<1>4. CASE Tick
  <2>1. UNCHANGED subm /\ DOMAIN pfms' = DOMAIN pfms
    BY <1>4 DEF Tick
  <2>2. ASSUME NEW t \in Threads, Submits(t)' PROVE Checked(req'[t])
    <3>1. /\ Submits(t) /\ req'[t].cbs = req[t].cbs /\ req'[t].pc = req[t].pc /\ req'[t].left = req[t].left
      BY <1>4, <2>2, TickDoes DEF Submits
    <3>2. PICK r, q : r = req[t] /\ q = req'[t]
      OBVIOUS
    <3>3. Checked(r) /\ q.cbs = r.cbs /\ q.pc = r.pc /\ q.left = r.left
      BY <3>1, <3>2 DEF BalanceInv
    <3>4. Checked(q)
      BY <3>3 DEF Checked
    <3> QED BY <3>2, <3>4
  <2> QED BY <1>3, <2>1, <2>2
<1>5. ASSUME NEW t \in Threads, Alone(t), UNCHANGED subm, DOMAIN pfms' = DOMAIN pfms,
             Submits(t)' => Checked(req'[t])
      PROVE  BalanceInv'
  <2>1. \A x \in Threads : x # t => req'[x] = req[x]
    BY <1>5 DEF Alone
  <2>2. \A x \in Threads : Submits(x)' => Checked(req'[x])
    BY <1>5, <2>1 DEF Submits, BalanceInv
  <2> QED BY <1>3, <1>5, <2>2
<1>6. ASSUME NEW t \in Threads, NEW cbs \in Requests, StartSubmission(t, cbs) PROVE BalanceInv'
  <2>1. PICK r : r = [op |-> "submit", pc |-> "lease", cbs |-> cbs, left |-> cbs, uid |-> 0, age |-> 0,
                      late |-> Outdated(cbs)]
    OBVIOUS
  <2>2. UNCHANGED <<subm, pfms>> /\ Alone(t) /\ req'[t] = r
    BY <1>6, <2>1 DEF StartSubmission, tables, Inv, ReqOK, Alone
  <2>3. cbs \in Seq(Books) /\ cbs # << >>
    BY CashbookAssumption
  <2>4. r.cbs = cbs /\ r.pc = "lease" /\ r.left = cbs
    BY <2>1
  <2>5. Checked(r)
    BY <2>3, <2>4, UncheckedIs
  <2> QED BY <1>5, <2>2, <2>5
<1>7. ASSUME NEW t \in Threads, NEW u, StartResubmission(t, u) PROVE BalanceInv'
  <2>0. PICK l : l = \A b \in PfmsSubmissionStatus("Failed") : main[b].uid # u
    OBVIOUS
  <2>1. PICK i \in DOMAIN subm : req' = [req EXCEPT ![t] = [op |-> "resubmit", pc |-> "read", cbs |-> subm[i].cbs,
                                    left |-> << >>, uid |-> 0, age |-> 0, late |-> l]]
    BY <1>7, <2>0 DEF StartResubmission, GetCbRequestData
  <2>2. UNCHANGED <<subm, pfms>> /\ Alone(t) /\ req'[t].cbs = subm[i].cbs /\ req'[t].pc = "read"
    BY <1>7, <2>1 DEF StartResubmission, tables, Inv, ReqOK, Alone
  <2>3. Held(subm[i].cbs)
    BY DEF BalanceInv
  <2>4. Checked(req'[t])
    BY <2>2, <2>3 DEF Checked, Held
  <2> QED BY <1>5, <2>2, <2>4
<1>8. ASSUME NEW t \in Threads, Done(t), UNCHANGED <<subm, pfms>> PROVE BalanceInv'
  <2>1. Alone(t) /\ req'[t] = Idle
    BY <1>8, Ends DEF Inv
  <2> QED BY <1>5, <1>8, <2>1 DEF Submits, Idle
<1>9. ASSUME NEW t \in Threads, TryStartSubmission(t) PROVE BalanceInv'
  <2>1. UNCHANGED <<subm, pfms>> /\ Submits(t) /\ Submission_(t) /\ req[t].pc = "lease"
    BY <1>9, SubmissionIs DEF TryStartSubmission, At, Submits
  <2>2. CASE Done(t)
    BY <1>8, <2>1, <2>2
  <2>3. CASE ~Done(t)
    <3>1. PICK b : b = Head(req[t].left)
      OBVIOUS
    <3>2. /\ b \in DOMAIN main
          /\ \/ Len(req[t].left) = 1 /\ req' = [req EXCEPT ![t].pc = "read", ![t].left = << >>]
             \/ req' = [req EXCEPT ![t].left = Tail(req[t].left)]
      BY <1>9, <2>3, <3>1 DEF TryStartSubmission
    <3>3. b \in DOMAIN kafka
      BY <3>2 DEF Inv, RowsOK
    <3>4. PICK r, q : r = req[t] /\ q = req'[t]
      OBVIOUS
    <3>5. /\ Alone(t) /\ q.cbs = r.cbs
          /\ \/ Len(r.left) = 1 /\ q.pc # "lease"
             \/ q.pc = "lease" /\ q.left = Tail(r.left)
      BY <2>1, <3>2, <3>4 DEF Submission_, SubmitFields, Alone, Inv, ReqOK
    <3>6. Checked(r) /\ r.pc = "lease" /\ r.left \in Seq(Books) /\ r.left # << >> /\ Head(r.left) \in DOMAIN kafka
      BY <2>1, <3>1, <3>3, <3>4 DEF Submission_, BalanceInv
    <3>7. Checked(q)
      BY <3>5, <3>6, OneMoreChecked
    <3> QED BY <1>5, <2>1, <3>4, <3>5, <3>7
  <2> QED BY <2>2, <2>3
<1>14. ASSUME NEW t \in Threads, Submits(t), req[t].pc # "lease", req'[t].pc # "lease", req'[t].cbs = req[t].cbs
       PROVE  Checked(req'[t])
  <2>1. PICK r, q : r = req[t] /\ q = req'[t]
    OBVIOUS
  <2>2. Checked(r)
    BY <1>14, <2>1 DEF BalanceInv
  <2>3. Checked(q)
    BY <1>14, <2>1, <2>2, CheckedOn
  <2> QED BY <2>1, <2>3
<1>10. ASSUME NEW t \in Threads, NEW op \in {"submit", "resubmit"}, AnswerOf(t, op) PROVE BalanceInv'
  BY <1>5, <1>8, <1>10, <1>14, AnswerOfDoes
<1>11. ASSUME NEW t \in Threads, LogIn(t) PROVE BalanceInv'
  BY <1>5, <1>11, <1>14, LogInDoes
<1>12. ASSUME NEW t \in Threads, GetPfmsUpdateStatus(t) PROVE BalanceInv'
  BY <1>5, <1>12, <1>14, RecordDoes
<1>13. ASSUME NEW t \in Threads, NEW op \in {"submit", "resubmit"}, NEW refused \in BOOLEAN, Build(t, op, refused)
       PROVE  BalanceInv'
  <2>1. /\ Submits(t) /\ Submission_(t) /\ req[t].op = op /\ req[t].pc = "read" /\ UNCHANGED <<main, subm, lost>>
    BY <1>13, BuildDoes DEF Submission_
  <2>2. CASE Done(t) /\ UNCHANGED pfms
    BY <1>8, <2>1, <2>2
  <2>3. CASE ~(Done(t) /\ UNCHANGED pfms)
    <3>1. PICK cbs : cbs = req[t].cbs
      OBVIOUS
    <3>2. Held(cbs)
      BY <2>1, <3>1 DEF BalanceInv, Checked
    <3>3. /\ Alone(t) /\ req'[t].cbs = cbs /\ req'[t].pc = "login" /\ DOMAIN pfms' = DOMAIN pfms \cup {NextUid}
          /\ pfms'[NextUid].cbs = cbs
      BY <1>13, <2>3, <3>1, BuildDoes
    <3>4. Closes(pfms'[NextUid].amount, cbs)
      <4>0. PICK a, p : a = [o \in DdoCodes |-> Net(p, o)] /\ p = Payload(GetPfmsJson(cbs), ClosingBalance(cbs))
        <5>1. PICK p : p = Payload(GetPfmsJson(cbs), ClosingBalance(cbs))
          OBVIOUS
        <5> QED BY <5>1
      <4>1. PICK e : e = [by |-> req[t].op, cbs |-> cbs, of |-> 0, st |-> "built", late |-> req[t].late, amount |-> a]
        OBVIOUS
      <4>2. pfms' = Put(pfms, NextUid, e)
        BY <1>13, <2>3, <3>1, <4>0, <4>1 DEF Build
      <4>3. pfms'[NextUid] = e
        BY <4>2 DEF Put
      <4>4. e.amount = a
        BY <4>1
      <4>5. \A o \in Offices(GetPfmsJson(cbs)) : o \in DdoCodes /\ Net(p, o) = 2 * ClosingBalance(cbs)[o]
        BY <3>2, <4>0, BuiltCloses DEF BalanceInv
      <4>6. Closes(a, cbs)
        BY <4>0, <4>5 DEF Closes
      <4> QED BY <4>3, <4>4, <4>6
    <3>5. \A u \in DOMAIN pfms' :
            u \in DOMAIN pfms \/ (Held(pfms'[u].cbs) /\ Closes(pfms'[u].amount, pfms'[u].cbs))
      BY <3>2, <3>3, <3>4
    <3>6. \A x \in Threads : Submits(x)' => Checked(req'[x])
      <4>1. Checked(req'[t])
        BY <1>14, <2>1, <3>1, <3>3
      <4> QED BY <3>3, <4>1 DEF Alone, Submits, BalanceInv
    <3>7. SubmFromRequests
      BY <2>1 DEF SubmFromRequests
    <3> QED BY <1>1, <3>5, <3>6, <3>7, BalanceStands
  <2> QED BY <2>2, <2>3
<1> QED BY <1>2, <1>4, <1>6, <1>7, <1>9, <1>10, <1>11, <1>12, <1>13, StepKinds

(* The entry PFMS receives for a submission or a resubmission closes: for every      *)
(* office with a line, receipts less payments are twice the closing balance of its   *)
(* last cash book in the list (FetchPfmsHandler, equationResult), whatever the signs *)
(* and amounts of the generated lines and whichever offices the list mixes.          *)
THEOREM EveryEntryBalances == CashbookSpec => []EntriesBalance
<1>1. CashbookInit => BalanceInv
  BY DEF CashbookInit, BalanceInv, Submits, Idle
<1>2. Inv /\ BalanceInv /\ [CashbookNext]_vars => BalanceInv'
  <2> SUFFICES ASSUME Inv, BalanceInv, UNCHANGED vars PROVE BalanceInv'
    BY BalanceSteps
  <2>1. UNCHANGED <<kafka, subm, pfms, req>>
    BY DEF vars
  <2>2. KafkaKept /\ EntriesKept /\ SubmFromRequests
    BY <2>1, KafkaRests DEF EntriesKept, SubmFromRequests
  <2>3. \A t \in Threads : Submits(t)' => Submits(t) /\ req'[t] = req[t]
    BY <2>1 DEF Submits
  <2>5. \A t \in Threads : Submits(t)' => Checked(req'[t])
    BY <2>3 DEF BalanceInv
  <2>4. (\A b \in DOMAIN kafka' : kafka'[b] \in Contents) /\ \A u \in DOMAIN pfms' : u \in DOMAIN pfms
    BY <2>1 DEF BalanceInv
  <2> QED BY <2>2, <2>4, <2>5, BalanceStands
<1>3. BalanceInv => EntriesBalance
  BY DEF BalanceInv, Closes, EntriesBalance
<1> QED BY <1>1, <1>2, <1>3, Invariant, PTL DEF CashbookSpec

--------------------------------------------------------------------------------
(***************************************************************************)
(* Reversion and negative entries, with every request of Cashbook going on *)
(* beside them.  Neither property speaks of what a request has read and    *)
(* not yet written; RevInv does.  The argument: an identifier is recorded  *)
(* in pfms_main before it is logged in pfms_submission, by the one request *)
(* that sent it.  A reversion names logged identifiers alone.  So once its *)
(* deletion has taken the cash book of such an entry from the list, nobody *)
(* can write the identifier into a row again.                              *)
(***************************************************************************)

(* What the tables, the entries and the requests look like *)

LogFields    == {"uid", "type", "cbs", "day", "status", "of"}
RecordFields == {"ddo", "from", "day", "type", "uid", "neg", "del", "revuid"}
RevertFields == {"op", "pc", "from", "rows"}
NegateFields == {"op", "pc", "of", "uid"}

IsSeq(s) == s \in Seq({s[i] : i \in DOMAIN s})

\* The identifiers of logged submissions, of reversion rows and of listed cash books.
LoggedIds == {subm[i].uid : i \in {j \in DOMAIN subm : subm[j].type = "cb"}}
NotedIds  == {rev[i].uid : i \in DOMAIN rev}
ListedIds == {main[b].uid : b \in DOMAIN main}

\* The entries not sent yet, and those PFMS took or whose answer is lost.
BuiltIds == {u \in DOMAIN pfms : pfms[u].st = "built"}
TakenIds == {u \in DOMAIN pfms : pfms[u].st \in {"Pending", "Success", "Failed"}} \cup lost

TablesOK ==
  /\ IsFiniteSet(DOMAIN kafka) /\ IsFiniteSet(DOMAIN main)
  /\ \A b \in DOMAIN main :
       /\ DOMAIN main[b] = MainFields
       /\ main[b].uid # 0 => main[b].uid \in DOMAIN pfms /\ InBook(main[b].uid, b)

PfmsOK ==
  /\ \E n \in Nat : DOMAIN pfms = 1..n
  /\ \A u \in DOMAIN pfms :
       /\ DOMAIN pfms[u] = PfmsFields /\ pfms[u].cbs \in Seq(Books) /\ pfms[u].st \in States
       /\ pfms[u].by = "reversal" => pfms[u].of \in LoggedIds \cap NotedIds

\* A logged submission is the entry of its identifier.
SubmOK ==
  /\ IsSeq(subm)
  /\ \A i \in DOMAIN subm :
       /\ DOMAIN subm[i] = LogFields
       /\ subm[i].type = "cb" =>
            /\ subm[i].uid \in DOMAIN pfms /\ subm[i].cbs = pfms[subm[i].uid].cbs
            /\ subm[i].cbs # << >> /\ subm[i].day = Last(subm[i].cbs).day

\* A row tells whether the local cash books are gone: an entry of one cash book is then
\* not listed any more.
Tells(r) ==
  /\ r.del \in {"SUCCESS", "FAILED"}
  /\ r.uid # 0 /\ r.del = "SUCCESS" /\ Len(pfms[r.uid].cbs) = 1 => r.uid \notin ListedIds

RevOK ==
  /\ IsSeq(rev)
  /\ \A i \in DOMAIN rev :
       /\ DOMAIN rev[i] = RecordFields
       /\ rev[i].uid # 0 => rev[i].uid \in LoggedIds
       /\ Tells(rev[i])
       /\ rev[i].neg = "YES" =>
            /\ rev[i].revuid \in DOMAIN pfms \cap TakenIds
            /\ pfms[rev[i].revuid].of = rev[i].uid

Verifies(t) == req[t].op \in {"verify", "verify_empty"} /\ DOMAIN req[t] = WriteFields

\* A submission that has built its entry has not logged it.
Submitting(t) ==
  /\ Submits(t) /\ DOMAIN req[t] = SubmitFields
  /\ req[t].pc \in {"lease", "read", "login", "post", "record", "log"}
  /\ req[t].cbs \in Seq(Books) /\ req[t].cbs # << >>
  /\ Sends(t) => /\ req[t].uid \in DOMAIN pfms \ LoggedIds /\ pfms[req[t].uid].cbs = req[t].cbs
                 /\ req[t].pc = "login" <=> req[t].uid \in BuiltIds

Following(t) ==
  /\ Follows(t) /\ DOMAIN req[t] = FollowFields /\ req[t].pc \in {"ask", "main", "submission"}

\* The rows of a reversion name logged submissions; one of a single cash book takes that
\* cash book away.
Reverting(t) ==
  /\ Reverts(t) /\ DOMAIN req[t] = RevertFields
  /\ req[t].pc \in {"ask", "kafka", "detail", "main", "rows", "again"}
  /\ IsSeq(req[t].rows)
  /\ \A i \in DOMAIN req[t].rows :
       /\ DOMAIN req[t].rows[i] = RecordFields /\ req[t].rows[i].neg # "YES"
       /\ req[t].rows[i].uid # 0 =>
            /\ req[t].rows[i].uid \in LoggedIds
            /\ Len(pfms[req[t].rows[i].uid].cbs) = 1 => pfms[req[t].rows[i].uid].cbs[1] \in Below(t)
       /\ req[t].pc = "rows" => Tells(req[t].rows[i])

Negating(t) ==
  /\ Negates(t) /\ DOMAIN req[t] = NegateFields /\ req[t].pc \in {"send", "answer", "mark", "log"}
  /\ req[t].of \in LoggedIds /\ (req[t].op = "negative" => req[t].of \in NotedIds)
  /\ req[t].pc # "send" =>
       /\ req[t].uid \in DOMAIN pfms \ BuiltIds
       /\ pfms[req[t].uid].of = req[t].of
  /\ req[t].pc \in {"mark", "log"} => req[t].op = "negative" /\ req[t].uid \in TakenIds

Shape(t) ==
  Free(t) \/ Verifies(t) \/ Submitting(t) \/ Following(t) \/ Reverting(t) \/ Negating(t)

\* Nobody else sends the entry a submission has built.
OwnEntry == \A t, s \in Threads : Sends(t) /\ Sends(s) /\ req[t].uid = req[s].uid => t = s

RequestsOK == DOMAIN req = Threads /\ (\A t \in Threads : Shape(t)) /\ OwnEntry

RevInv == TablesOK /\ PfmsOK /\ SubmOK /\ RevOK /\ RequestsOK

--------------------------------------------------------------------------------
(* What a step leaves as it is *)

\* Nothing that was written is taken back: entries keep what they are and are not unsent,
\* submissions stay logged and rows noted, and a logged entry is not listed again.
Stands ==
  /\ \A u \in DOMAIN pfms :
       u \in DOMAIN pfms' /\ pfms'[u].cbs = pfms[u].cbs /\ pfms'[u].of = pfms[u].of
  /\ BuiltIds' \cap DOMAIN pfms \subseteq BuiltIds
  /\ TakenIds \subseteq TakenIds'
  /\ LoggedIds \subseteq LoggedIds' /\ NotedIds \subseteq NotedIds'
  /\ LoggedIds \cap ListedIds' \subseteq ListedIds

\* A submission's entry is still its own to send and to log.
StillOwn(x) ==
  Sends(x) => /\ req[x].uid \notin LoggedIds'
              /\ req[x].uid \in BuiltIds' <=> req[x].uid \in BuiltIds

(* A logged identifier is an entry PFMS was sent. *)
LEMMA LoggedAreEntries == SubmOK => LoggedIds \subseteq DOMAIN pfms
BY DEF SubmOK, LoggedIds

(* A request that stands still keeps its shape. *)
LEMMA Onlooker ==
  ASSUME RevInv, Stands, NEW x \in Threads, req'[x] = req[x], StillOwn(x)
  PROVE  Shape(x)'
<1>0. LoggedIds \subseteq DOMAIN pfms
  BY LoggedAreEntries DEF RevInv
<1>1. CASE Free(x)
  BY <1>1 DEF Free, Shape
<1>2. CASE Verifies(x)
  BY <1>2 DEF Verifies, Shape
<1>3. CASE Submitting(x)
  BY <1>3 DEF Submitting, Submits, Sends, Shape, StillOwn, Stands
<1>4. CASE Following(x)
  BY <1>4 DEF Following, Follows, Shape
<1>5. CASE Reverting(x)
  <2>1. Reverts(x)' /\ Below(x)' = Below(x)
    BY <1>5 DEF Reverting, Reverts, FromFile, Below
  <2>2. ASSUME NEW i \in DOMAIN req[x].rows, req[x].rows[i].uid # 0
        PROVE  /\ req[x].rows[i].uid \in LoggedIds'
               /\ Len(pfms'[req[x].rows[i].uid].cbs) = 1 => pfms'[req[x].rows[i].uid].cbs[1] \in Below(x)
    BY <1>0, <1>5, <2>2 DEF Reverting, Stands
  <2>3. ASSUME NEW i \in DOMAIN req[x].rows, req[x].pc = "rows"
        PROVE  Tells(req[x].rows[i])'
    BY <1>0, <1>5, <2>3 DEF Reverting, Stands, Tells
  <2>4. Reverting(x)'
    BY <1>5, <2>1, <2>2, <2>3 DEF Reverting, IsSeq
  <2> QED BY <2>4 DEF Shape
<1>6. CASE Negating(x)
  <2>1. Negating(x)'
    BY <1>6 DEF Negating, Negates, Stands
  <2> QED BY <2>1 DEF Shape
<1>7. Shape(x)
  BY DEF RevInv, RequestsOK
<1> QED BY <1>1, <1>2, <1>3, <1>4, <1>5, <1>6, <1>7 DEF Shape

(* A step of one request: what the others are stands. *)
LEMMA StepOfOne ==
  ASSUME RevInv, Stands, NEW t \in Threads, Alone(t), Shape(t)',
         \A x \in Threads : x # t => StillOwn(x),
         Sends(t)' => \A x \in Threads : x # t /\ Sends(x) => req[x].uid # req'[t].uid
  PROVE  RequestsOK'
<1>1. DOMAIN req' = Threads
  BY DEF Alone
<1>2. \A x \in Threads : Shape(x)'
  BY Onlooker DEF Alone
<1>3. \A x \in Threads : x # t => (Sends(x)' <=> Sends(x)) /\ req'[x].uid = req[x].uid
  BY DEF Alone, Sends, Submits
<1>4. OwnEntry'
  <2> SUFFICES ASSUME NEW x \in Threads, NEW s \in Threads, Sends(x)', Sends(s)', req'[x].uid = req'[s].uid, x # s
               PROVE  FALSE
    BY DEF OwnEntry
  <2>1. CASE x # t /\ s # t
    BY <1>3, <2>1 DEF RevInv, RequestsOK, OwnEntry
  <2>2. CASE x = t
    BY <1>3, <2>2
  <2>3. CASE s = t
    BY <1>3, <2>3
  <2> QED BY <2>1, <2>2, <2>3
<1> QED BY <1>1, <1>2, <1>4 DEF RequestsOK

(* A step of nobody: every request stands. *)
LEMMA StepOfNobody ==
  ASSUME RevInv, Stands, UNCHANGED req, \A x \in Threads : StillOwn(x)
  PROVE  RequestsOK'
<1>1. \A x \in Threads : Shape(x)'
  BY Onlooker
<1>2. \A x \in Threads : Sends(x)' <=> Sends(x)
  BY DEF Sends, Submits
<1> QED BY <1>1, <1>2 DEF RevInv, RequestsOK, OwnEntry

(* Tables that are not written stay as they should be. *)
LEMMA TablesRest == ASSUME RevInv, Stands, UNCHANGED <<kafka, main>> PROVE TablesOK'
<1>1. \A b : \A u \in DOMAIN pfms : InBook(u, b) => InBook(u, b)'
  BY DEF Stands, InBook
<1>2. \A b \in DOMAIN main' : main'[b].uid # 0 => main'[b].uid \in DOMAIN pfms' /\ InBook(main[b].uid, b)'
  BY <1>1 DEF RevInv, TablesOK, Stands
<1> QED BY <1>2 DEF RevInv, TablesOK, InBook

(* The same for the entries, the submissions and the reversion rows. *)
LEMMA PfmsRest == ASSUME RevInv, Stands, UNCHANGED pfms PROVE PfmsOK'
BY DEF RevInv, PfmsOK, Stands

(* Submissions that are not written. *)
LEMMA SubmRest == ASSUME RevInv, Stands, UNCHANGED subm PROVE SubmOK'
BY DEF RevInv, SubmOK, Stands, IsSeq

(* Reversion rows that are not written. *)
LEMMA RevRest == ASSUME RevInv, Stands, UNCHANGED rev PROVE RevOK'
<1>0. LoggedIds \subseteq DOMAIN pfms
  BY LoggedAreEntries DEF RevInv
<1>1. ASSUME NEW i \in DOMAIN rev
      PROVE  Tells(rev[i])'
  BY <1>0 DEF RevInv, RevOK, Stands, Tells
<1>2. ASSUME NEW i \in DOMAIN rev
      PROVE  /\ rev[i].uid # 0 => rev[i].uid \in LoggedIds'
             /\ rev[i].neg = "YES" =>
                  /\ rev[i].revuid \in DOMAIN pfms' \cap TakenIds'
                  /\ pfms'[rev[i].revuid].of = rev[i].uid
  BY DEF RevInv, RevOK, Stands
<1> QED BY <1>1, <1>2 DEF RevInv, RevOK, IsSeq

(* Sets of identifiers whose tables are not written. *)
LEMMA IdsRest ==
  /\ UNCHANGED subm => LoggedIds' = LoggedIds
  /\ UNCHANGED rev => NotedIds' = NotedIds
  /\ UNCHANGED main => ListedIds' = ListedIds
  /\ UNCHANGED pfms => BuiltIds' = BuiltIds
  /\ UNCHANGED pfms /\ lost \subseteq lost' => TakenIds \subseteq TakenIds'
BY DEF LoggedIds, NotedIds, ListedIds, BuiltIds, TakenIds

(* A request of FetchPfmsHandler or FetchPfmsReSubmissionHandler has their shape, and so on. *)
LEMMA SubmitterIs == ASSUME RevInv, NEW t \in Threads, Submits(t) PROVE Submitting(t)
BY DEF RevInv, RequestsOK, Shape, Submits, Free, Idle, Verifies, Following, Follows, Reverting, Reverts, FromFile,
   Negating, Negates

(* A request of UpdatePfmsSubmissionStatusHandler or UpdatePfmsHandler. *)
LEMMA FollowerIs == ASSUME RevInv, NEW t \in Threads, Follows(t) PROVE Following(t)
BY DEF RevInv, RequestsOK, Shape, Submitting, Submits, Free, Idle, Verifies, Follows, Reverting, Reverts, FromFile,
   Negating, Negates

(* A request of one of the three revert handlers. *)
LEMMA ReverterIs == ASSUME RevInv, NEW t \in Threads, Reverts(t) PROVE Reverting(t)
BY DEF RevInv, RequestsOK, Shape, Submitting, Submits, Free, Idle, Verifies, Following, Follows, Reverts, FromFile,
   Negating, Negates

(* A request of PostNegativeEntryHandler or its test twin. *)
LEMMA NegatorIs == ASSUME RevInv, NEW t \in Threads, Negates(t) PROVE Negating(t)
BY DEF RevInv, RequestsOK, Shape, Submitting, Submits, Free, Idle, Verifies, Following, Follows, Reverting, Reverts,
   FromFile, Negates

(* A step of one request that writes nothing but what the request itself has read. *)
LEMMA RequestOnly ==
  ASSUME RevInv, NEW t \in Threads, Alone(t), UNCHANGED <<kafka, main, subm, pfms, rev>>, lost \subseteq lost',
         Shape(t)', Sends(t)' => Sends(t) /\ req'[t].uid = req[t].uid
  PROVE  RevInv'
<1>1. Stands
  BY IdsRest DEF Stands
<1>2. \A x \in Threads : StillOwn(x)
  BY IdsRest, SubmitterIs DEF StillOwn, Submitting, Sends
<1>3. Sends(t)' => \A x \in Threads : x # t /\ Sends(x) => req[x].uid # req'[t].uid
  BY DEF RevInv, RequestsOK, OwnEntry
<1> QED BY <1>1, <1>2, <1>3, StepOfOne, TablesRest, PfmsRest, SubmRest, RevRest DEF RevInv

--------------------------------------------------------------------------------
(* Requests that begin *)

(* A function on an initial interval of the naturals is a sequence. *)
LEMMA SequenceIs == ASSUME NEW n \in Nat, NEW f, f = [i \in 1..n |-> f[i]] PROVE IsSeq(f)
BY DEF IsSeq

(* A sequence is a function on the interval up to its length. *)
LEMMA SequenceHas == ASSUME NEW f, IsSeq(f) PROVE Len(f) \in Nat /\ DOMAIN f = 1..Len(f)
BY DEF IsSeq

(* GetPfmsSubmissionByDateRepo finds a submission of cash books with the office and the date. *)
LEMMA NewestIsOne ==
  ASSUME RevInv, NEW b, SubmissionsOf(b) # {}
  PROVE  Max(SubmissionsOf(b)) \in SubmissionsOf(b)
<1>1. Len(subm) \in Nat /\ DOMAIN subm = 1..Len(subm)
  BY SequenceHas DEF RevInv, SubmOK
<1> QED BY <1>1, Greatest DEF SubmissionsOf

(* The row prepared for a day names a logged submission that names the day, or none. *)
LEMMA ClassifyIs ==
  ASSUME RevInv, NEW b, NEW from, NEW r, r = Classify(b, from)
  PROVE  /\ DOMAIN r = RecordFields /\ r.neg # "YES"
         /\ r.uid # 0 =>
              /\ r.uid \in LoggedIds
              /\ Len(pfms[r.uid].cbs) = 1 =>
                   pfms[r.uid].cbs[1] \in Books /\ pfms[r.uid].cbs[1].ddo = b.ddo /\ pfms[r.uid].cbs[1].day = b.day
<1>1. PICK none : none = [ddo |-> b.ddo, from |-> from, day |-> b.day, type |-> "local_only", uid |-> 0, neg |-> "",
                          del |-> "", revuid |-> 0]
  OBVIOUS
<1>2. CASE SubmissionsOf(b) = {}
  <2>1. r = none
    BY <1>1, <1>2 DEF Classify
  <2>2. DOMAIN none = RecordFields /\ none.neg = "" /\ none.uid = 0
    BY <1>1 DEF RecordFields
  <2> QED BY <2>1, <2>2
<1>3. CASE SubmissionsOf(b) # {}
  <2>1. PICK i : i = Max(SubmissionsOf(b))
    OBVIOUS
  <2>2. i \in SubmissionsOf(b)
    BY <1>3, <2>1, NewestIsOne
  <2>3. PICK s : s = subm[i]
    OBVIOUS
  <2>4. \/ r = [none EXCEPT !.type = "with_pfms", !.uid = s.uid, !.neg = "NO"]
        \/ r = [none EXCEPT !.type = "with_pfms", !.uid = s.uid, !.neg = "WAIT"]
        \/ r = [none EXCEPT !.uid = s.uid]
    BY <1>1, <1>3, <2>1, <2>3 DEF Classify
  <2>5. DOMAIN r = RecordFields /\ r.neg # "YES" /\ r.uid = s.uid
    BY <1>1, <2>4 DEF RecordFields
  <2>6. /\ s.uid \in LoggedIds /\ s.uid \in DOMAIN pfms /\ s.cbs = pfms[s.uid].cbs
        /\ s.day = b.day /\ s.day = Last(s.cbs).day /\ s.cbs \in Seq(Books)
        /\ \E j \in DOMAIN s.cbs : s.cbs[j].ddo = b.ddo
    BY <2>2, <2>3 DEF SubmissionsOf, RevInv, SubmOK, PfmsOK, LoggedIds
  <2>7. ASSUME Len(s.cbs) = 1
        PROVE  s.cbs[1] \in Books /\ s.cbs[1].ddo = b.ddo /\ s.cbs[1].day = b.day
    <3>1. DOMAIN s.cbs = {1} /\ s.cbs[1] \in Books
      BY <2>6, <2>7
    <3>2. Last(s.cbs) = s.cbs[1]
      BY <2>7 DEF Last
    <3> QED BY <2>6, <3>1, <3>2
  <2> QED BY <2>5, <2>6, <2>7
<1> QED BY <1>2, <1>3

(* RevertCashbookPostHandler begins with a row for each day, none of them done. *)
LEMMA StartReversionKeeps ==
  ASSUME RevInv, NEW t \in Threads, NEW ddo, NEW from, StartReversion(t, ddo, from)
  PROVE  RevInv'
<1>1. PICK days \in OldestFirst(Swept(ddo, from)) :
        req' = [req EXCEPT ![t] =
          [op |-> "revert", pc |-> "ask", from |-> [ddo |-> ddo, day |-> from],
           rows |-> [i \in DOMAIN days |-> Classify(days[i], from)]]]
  BY DEF StartReversion
<1>2. PICK rows : rows = [i \in DOMAIN days |-> Classify(days[i], from)]
  OBVIOUS
<1>3. Alone(t) /\ req'[t] = [op |-> "revert", pc |-> "ask", from |-> [ddo |-> ddo, day |-> from], rows |-> rows]
  BY <1>1, <1>2 DEF RevInv, RequestsOK, Alone
<1>4. Cardinality(Swept(ddo, from)) \in Nat
  <2>1. IsFiniteSet(DOMAIN kafka \cup DOMAIN main)
    BY FS_Union DEF RevInv, TablesOK
  <2>2. IsFiniteSet(Swept(ddo, from))
    BY <2>1, FS_Subset DEF Swept
  <2> QED BY <2>2, FS_CardinalityType
<1>5. PICK n \in Nat : days \in [1..n -> Swept(ddo, from)]
  BY <1>4 DEF OldestFirst
<1>6. IsSeq(rows)
  BY <1>2, <1>5, SequenceIs
<1>7. ASSUME NEW i \in DOMAIN rows
      PROVE  /\ DOMAIN rows[i] = RecordFields /\ rows[i].neg # "YES"
             /\ rows[i].uid # 0 =>
                  /\ rows[i].uid \in LoggedIds
                  /\ Len(pfms[rows[i].uid].cbs) = 1 =>
                       /\ pfms[rows[i].uid].cbs[1] \in Books
                       /\ pfms[rows[i].uid].cbs[1].ddo = ddo /\ pfms[rows[i].uid].cbs[1].day >= from
  <2>1. days[i] \in Swept(ddo, from) /\ rows[i] = Classify(days[i], from)
    BY <1>2, <1>5
  <2>2. days[i].ddo = ddo /\ days[i].day >= from
    BY <2>1 DEF Swept
  <2> QED BY <2>1, <2>2, ClassifyIs
<1>8. UNCHANGED <<kafka, main, subm, pfms, rev, lost>>
  BY DEF StartReversion, tables
<1>9. Reverting(t)'
  <2>1. LoggedIds' = LoggedIds
    BY <1>8, IdsRest
  <2>2. Below(t)' = {b \in Books : b.ddo = ddo /\ b.day >= from}
    BY <1>3 DEF Below
  <2> QED BY <1>3, <1>6, <1>7, <1>8, <2>1, <2>2 DEF Reverting, Reverts, RevertFields
<1>10. ~Sends(t)'
  BY <1>3 DEF Sends, Submits
<1> QED BY <1>3, <1>8, <1>9, <1>10, RequestOnly DEF Shape

(* A request that ends leaves its thread idle and touches no other. *)
LEMMA Over ==
  ASSUME RevInv, NEW t \in Threads, Done(t)
  PROVE  Alone(t) /\ req'[t] = Idle /\ Shape(t)' /\ ~Sends(t)'
<1>1. Alone(t) /\ req'[t] = Idle
  BY DEF RevInv, RequestsOK, Done, Alone
<1> QED BY <1>1 DEF Shape, Free, Sends, Submits, Idle

(* A request that ends with nothing written. *)
LEMMA OverQuietly ==
  ASSUME RevInv, NEW t \in Threads, Done(t), UNCHANGED <<kafka, main, subm, pfms, rev>>, lost \subseteq lost'
  PROVE  RevInv'
BY Over, RequestOnly

(* The verification handlers. *)
LEMMA EnterRev ==
  ASSUME RevInv, NEW t \in Threads, NEW op \in {"verify", "verify_empty"}, NEW b, Enter(t, op, b), UNCHANGED rvars
  PROVE  RevInv'
<1>1. Alone(t) /\ req'[t] = [op |-> op, pc |-> "write", book |-> b, content |-> kafka[b]]
  BY DEF Enter, RevInv, RequestsOK, Alone
<1>2. Verifies(t)' /\ ~Sends(t)'
  BY <1>1 DEF Verifies, WriteFields, Sends, Submits
<1> QED BY <1>1, <1>2, RequestOnly DEF Enter, tables, rvars, Shape

(* FetchPfmsHandler and FetchPfmsReSubmissionHandler. *)
LEMMA StartSubmissionRev ==
  ASSUME RevInv, NEW t \in Threads, NEW cbs \in Requests, StartSubmission(t, cbs), UNCHANGED rvars
  PROVE  RevInv'
<1>0. PICK l : l = Outdated(cbs)
  OBVIOUS
<1>1. Alone(t) /\ req'[t] = [op |-> "submit", pc |-> "lease", cbs |-> cbs, left |-> cbs, uid |-> 0, age |-> 0,
                            late |-> l]
  BY <1>0 DEF StartSubmission, RevInv, RequestsOK, Alone
<1>2. Submitting(t)' /\ ~Sends(t)'
  BY <1>1, CashbookAssumption DEF Submitting, SubmitFields, Sends, Submits
<1> QED BY <1>1, <1>2, RequestOnly DEF StartSubmission, tables, rvars, Shape

(* FetchPfmsReSubmissionHandler begins with the cash books of a logged submission. *)
LEMMA StartResubmissionRev ==
  ASSUME RevInv, NEW t \in Threads, NEW u, StartResubmission(t, u), UNCHANGED rvars
  PROVE  RevInv'
<1>0. PICK l : l = \A b \in PfmsSubmissionStatus("Failed") : main[b].uid # u
  OBVIOUS
<1>1. PICK i \in GetCbRequestData(u) :
        req' = [req EXCEPT ![t] = [op |-> "resubmit", pc |-> "read", cbs |-> subm[i].cbs,
                                   left |-> << >>, uid |-> 0, age |-> 0, late |-> l]]
  BY <1>0 DEF StartResubmission
<1>2. Alone(t) /\ req'[t] = [op |-> "resubmit", pc |-> "read", cbs |-> subm[i].cbs,
                             left |-> << >>, uid |-> 0, age |-> 0, late |-> l]
  BY <1>1 DEF RevInv, RequestsOK, Alone
<1>3. subm[i].cbs \in Seq(Books) /\ subm[i].cbs # << >>
  BY DEF GetCbRequestData, RevInv, SubmOK, PfmsOK
<1>4. Submitting(t)' /\ ~Sends(t)'
  BY <1>2, <1>3 DEF Submitting, SubmitFields, Sends, Submits
<1> QED BY <1>2, <1>4, RequestOnly DEF StartResubmission, tables, rvars, Shape

(* The requests that ask PFMS about an entry. *)
LEMMA AskingRev ==
  ASSUME RevInv, NEW t \in Threads, NEW u, AskStatus(t, u) \/ StartPoll(t) \/ PollAsks(t), UNCHANGED rvars
  PROVE  RevInv'
<1>1. PICK r : /\ DOMAIN r = FollowFields /\ r.op \in {"status", "poll"} /\ r.pc \in {"ask", "main"}
               /\ req' = [req EXCEPT ![t] = r]
  <2>1. CASE AskStatus(t, u)
    <3>1. PICK r : r = [op |-> "status", pc |-> "main", uid |-> u, flag |-> pfms[u].st, left |-> << >>]
      OBVIOUS
    <3> QED BY <2>1, <3>1 DEF AskStatus, FollowFields
  <2>2. CASE StartPoll(t)
    <3>1. PICK uids : req' = [req EXCEPT ![t] = [op |-> "poll", pc |-> "ask", uid |-> 0, flag |-> "none",
                                                 left |-> uids]]
      BY <2>2 DEF StartPoll
    <3>2. PICK r : r = [op |-> "poll", pc |-> "ask", uid |-> 0, flag |-> "none", left |-> uids]
      OBVIOUS
    <3> QED BY <3>1, <3>2 DEF FollowFields
  <2>3. CASE PollAsks(t)
    <3>1. PICK v : v = Head(req[t].left)
      OBVIOUS
    <3>2. PICK r : r = [op |-> "poll", pc |-> "main", uid |-> v, flag |-> pfms[v].st, left |-> Tail(req[t].left)]
      OBVIOUS
    <3> QED BY <2>3, <3>1, <3>2 DEF PollAsks, FollowFields
  <2> QED BY <2>1, <2>2, <2>3
<1>2. Alone(t) /\ req'[t] = r
  BY <1>1 DEF RevInv, RequestsOK, Alone
<1>3. Following(t)' /\ ~Sends(t)'
  BY <1>1, <1>2 DEF Following, Follows, Sends, Submits
<1> QED BY <1>2, <1>3, RequestOnly DEF AskStatus, StartPoll, PollAsks, tables, rvars, Shape

(* RevertCashbookHandler and RevertResubmitCashbookHandler prepare no row. *)
LEMMA CsvRowRev ==
  ASSUME RevInv, NEW t \in Threads, NEW op \in {"csv", "csv_again"}, NEW ddo, NEW from, CsvRow(t, op, ddo, from)
  PROVE  RevInv'
<1>1. Alone(t) /\ req'[t] = [op |-> op, pc |-> "ask", from |-> [ddo |-> ddo, day |-> from], rows |-> << >>]
  BY DEF CsvRow, RevInv, RequestsOK, Alone
<1>2. Reverting(t)' /\ ~Sends(t)'
  BY <1>1 DEF Reverting, Reverts, FromFile, RevertFields, IsSeq, Sends, Submits
<1> QED BY <1>1, <1>2, RequestOnly DEF CsvRow, tables, Shape

(* A reversion that goes on keeps its rows. *)
LEMMA RevertingGoesOn ==
  ASSUME RevInv, NEW t \in Threads, Reverting(t), NEW pc \in {"kafka", "detail", "main", "again"},
         req' = [req EXCEPT ![t].pc = pc], UNCHANGED pfms, LoggedIds' = LoggedIds
  PROVE  Alone(t) /\ Reverting(t)' /\ ~Sends(t)' /\ Below(t)' = Below(t) /\ req'[t].rows = req[t].rows
<1>1. /\ Alone(t) /\ DOMAIN req'[t] = RevertFields /\ req'[t].pc = pc /\ req'[t].op = req[t].op
      /\ req'[t].from = req[t].from /\ req'[t].rows = req[t].rows
  BY DEF RevInv, RequestsOK, Alone, Reverting, RevertFields
<1>2. Below(t)' = Below(t) /\ Reverts(t)' /\ ~Sends(t)'
  BY <1>1 DEF Below, Reverting, Reverts, FromFile, Sends, Submits
<1> QED BY <1>1, <1>2 DEF Reverting

(* The sub-accounts system's answer ends the request or lets it delete. *)
LEMMA SubaccountsDeletesRev == ASSUME RevInv, NEW t \in Threads, SubaccountsDeletes(t) PROVE RevInv'
<1>1. Reverts(t) /\ UNCHANGED <<kafka, main, subm, pfms, rev, lost>>
  BY DEF SubaccountsDeletes, At, Reverts, tables, rvars
<1>2. CASE Done(t)
  BY <1>1, <1>2, OverQuietly
<1>3. CASE req' = [req EXCEPT ![t].pc = "kafka"]
  BY <1>1, <1>3, ReverterIs, RevertingGoesOn, RequestOnly, IdsRest DEF Shape
<1> QED BY <1>2, <1>3 DEF SubaccountsDeletes

(* The deletion fails: the rows say so. *)
LEMMA DeleteFailsRev == ASSUME RevInv, NEW t \in Threads, DeleteFails(t) PROVE RevInv'
<1>1. Reverting(t) /\ UNCHANGED <<kafka, main, subm, pfms, rev, lost>>
  BY ReverterIs DEF DeleteFails, tables, rvars
<1>2. CASE FromFile(t)
  BY <1>1, <1>2, OverQuietly DEF DeleteFails
<1>3. CASE ~FromFile(t)
  <2>1. PICK rows : rows = [i \in DOMAIN req[t].rows |-> [req[t].rows[i] EXCEPT !.del = "FAILED"]]
    OBVIOUS
  <2>2. /\ Alone(t) /\ DOMAIN req'[t] = RevertFields /\ req'[t].pc = "rows" /\ req'[t].op = req[t].op
        /\ req'[t].from = req[t].from /\ req'[t].rows = rows
    BY <1>1, <1>3, <2>1 DEF DeleteFails, RevInv, RequestsOK, Alone, Reverting, RevertFields
  <2>3. DOMAIN rows = DOMAIN req[t].rows
        /\ \A i \in DOMAIN rows : /\ DOMAIN rows[i] = RecordFields /\ rows[i].neg = req[t].rows[i].neg
                                  /\ rows[i].uid = req[t].rows[i].uid /\ rows[i].del = "FAILED"
    BY <1>1, <2>1 DEF Reverting, RecordFields
  <2>4. IsSeq(rows)
    <3>1. PICK n \in Nat : DOMAIN req[t].rows = 1..n
      BY <1>1, SequenceHas DEF Reverting
    <3> QED BY <2>1, <3>1, SequenceIs
  <2>5. Below(t)' = Below(t) /\ Reverts(t)' /\ ~Sends(t)' /\ LoggedIds' = LoggedIds
    BY <1>1, <2>2, IdsRest DEF Below, Reverting, Reverts, FromFile, Sends, Submits
  <2>6. Reverting(t)'
    BY <1>1, <2>2, <2>3, <2>4, <2>5 DEF Reverting, Tells
  <2> QED BY <1>1, <2>2, <2>5, <2>6, RequestOnly DEF Shape
<1> QED BY <1>2, <1>3

(* A negative entry is begun for an identifier that is logged and, unless it is a test, noted. *)
LEMMA StartNegatingRev ==
  ASSUME RevInv, NEW t \in Threads, NEW u, StartNegative(t, u) \/ StartTest(t, u)
  PROVE  RevInv'
<1>1. PICK op \in {"negative", "test"} :
        /\ req' = [req EXCEPT ![t] = [op |-> op, pc |-> "send", of |-> u, uid |-> 0]]
        /\ op = "negative" => RowsOf(u) # {}
  BY DEF StartNegative, StartTest
<1>2. Alone(t) /\ req'[t] = [op |-> op, pc |-> "send", of |-> u, uid |-> 0]
  BY <1>1 DEF RevInv, RequestsOK, Alone
<1>3. u \in LoggedIds /\ UNCHANGED <<kafka, main, subm, pfms, rev, lost>>
  BY DEF StartNegative, StartTest, BookedSubmission, GetCbRequestData, LoggedIds, tables, rvars
<1>4. RowsOf(u) # {} => u \in NotedIds
  BY DEF RowsOf, NotedIds
<1>5. Negating(t)' /\ ~Sends(t)'
  BY <1>1, <1>2, <1>3, <1>4, IdsRest DEF Negating, Negates, NegateFields, Sends, Submits
<1> QED BY <1>2, <1>3, <1>5, RequestOnly DEF Shape

(* The answer to a negative entry: one that is taken for accepted is, or counts as lost. *)
LEMMA NegativeAnsweredRev == ASSUME RevInv, NEW t \in Threads, NegativeAnswered(t) PROVE RevInv'
<1>1. /\ Negating(t) /\ req[t].pc = "answer" /\ UNCHANGED <<kafka, main, subm, pfms, rev>>
      /\ lost \subseteq lost' /\ pfms[req[t].uid].st # "sent"
  BY NegatorIs DEF NegativeAnswered, tables, rvars
<1>2. PICK v : v = req[t].uid
  OBVIOUS
<1>3. v \in DOMAIN pfms \ BuiltIds /\ pfms[v].st \in States
  BY <1>1, <1>2 DEF Negating, RevInv, PfmsOK
<1>4. CASE Done(t)
  BY <1>1, <1>4, OverQuietly
<1>5. CASE req' = [req EXCEPT ![t].pc = "mark"] /\ req[t].op = "negative" /\ (pfms[v].st # "refused" \/ v \in lost')
  <2>1. /\ Alone(t) /\ DOMAIN req'[t] = NegateFields /\ req'[t].pc = "mark" /\ req'[t].op = "negative"
        /\ req'[t].of = req[t].of /\ req'[t].uid = v
    BY <1>1, <1>2, <1>5 DEF RevInv, RequestsOK, Alone, Negating, NegateFields
  <2>2. v \in TakenIds'
    BY <1>1, <1>2, <1>3, <1>5 DEF TakenIds, BuiltIds, States, Final
  <2>a. BuiltIds' = BuiltIds /\ LoggedIds' = LoggedIds /\ NotedIds' = NotedIds /\ UNCHANGED pfms
    BY <1>1, IdsRest
  <2>b. req[t].of \in LoggedIds \cap NotedIds /\ pfms[v].of = req[t].of
    BY <1>1, <1>2, <1>5 DEF Negating
  <2>3. Negating(t)' /\ ~Sends(t)'
    BY <1>3, <2>a, <2>b, <2>1, <2>2 DEF Negating, Negates, Sends, Submits
  <2> QED BY <1>1, <2>1, <2>3, RequestOnly DEF Shape
<1>6. Done(t) \/ (req' = [req EXCEPT ![t].pc = "mark"] /\ req[t].op = "negative"
                  /\ (pfms[v].st # "refused" \/ v \in lost'))
  BY <1>2 DEF NegativeAnswered
<1> QED BY <1>4, <1>5, <1>6

(* Requests that stop. *)
LEMMA StoppingRev ==
  ASSUME RevInv, NEW t \in Threads, (Stop(t) /\ UNCHANGED rvars) \/ StopReversion(t)
  PROVE  RevInv'
BY OverQuietly DEF Stop, StopReversion, tables, rvars

(* The answer of ReceiveTransferEntryData. *)
LEMMA AnswerOfRev ==
  ASSUME RevInv, NEW t \in Threads, NEW op \in {"submit", "resubmit"}, AnswerOf(t, op), UNCHANGED rvars
  PROVE  RevInv'
<1>1. Submitting(t) /\ req[t].pc = "post" /\ UNCHANGED <<kafka, main, subm, pfms, rev, lost>>
  BY SubmitterIs DEF AnswerOf, At, Submits, tables, rvars
<1>2. CASE Done(t)
  BY <1>1, <1>2, OverQuietly
<1>3. CASE Goto(t, "record")
  <2>1. /\ Alone(t) /\ DOMAIN req'[t] = SubmitFields /\ req'[t].pc = "record" /\ req'[t].op = req[t].op
        /\ req'[t].cbs = req[t].cbs /\ req'[t].uid = req[t].uid
    BY <1>1, <1>3 DEF RevInv, RequestsOK, Alone, Submitting, SubmitFields, Goto
  <2>2. Submitting(t)' /\ Sends(t)
    BY <1>1, <2>1, IdsRest DEF Submitting, Sends, Submits
  <2> QED BY <1>1, <2>1, <2>2, RequestOnly DEF Shape
<1> QED BY <1>2, <1>3 DEF AnswerOf

--------------------------------------------------------------------------------
(* Steps that write the tables of cash books *)

\* No row comes or goes, and each keeps its identifier.
SameIds ==
  /\ DOMAIN main' = DOMAIN main
  /\ \A b \in DOMAIN main : DOMAIN main'[b] = MainFields /\ main'[b].uid = main[b].uid

(* Where no entry and no submission changes, it is enough that no logged one is listed anew. *)
LEMMA BooksOnly ==
  ASSUME RevInv, UNCHANGED <<subm, pfms, rev>>, lost \subseteq lost', LoggedIds \cap ListedIds' \subseteq ListedIds
  PROVE  Stands /\ \A x \in Threads : StillOwn(x)
<1>1. Stands
  BY IdsRest DEF Stands
<1>2. \A x \in Threads : StillOwn(x)
  BY IdsRest, SubmitterIs DEF StillOwn, Submitting, Sends
<1> QED BY <1>1, <1>2

(* A step of one request over these tables. *)
LEMMA BooksOfOne ==
  ASSUME RevInv, NEW t \in Threads, Alone(t), UNCHANGED <<subm, pfms, rev>>, lost \subseteq lost',
         LoggedIds \cap ListedIds' \subseteq ListedIds, TablesOK', Shape(t)',
         Sends(t)' => Sends(t) /\ req'[t].uid = req[t].uid
  PROVE  RevInv'
<1>1. Stands /\ \A x \in Threads : StillOwn(x)
  BY BooksOnly
<1>2. Sends(t)' => \A x \in Threads : x # t /\ Sends(x) => req[x].uid # req'[t].uid
  BY DEF RevInv, RequestsOK, OwnEntry
<1> QED BY <1>1, <1>2, StepOfOne, PfmsRest, SubmRest, RevRest DEF RevInv

(* Rows that keep their identifiers stay as they should be. *)
LEMMA SameIdsRest ==
  ASSUME RevInv, SameIds, UNCHANGED <<kafka, pfms>>
  PROVE  TablesOK' /\ ListedIds' = ListedIds
<1>1. ListedIds' = ListedIds
  BY DEF SameIds, ListedIds
<1>2. TablesOK'
  BY DEF SameIds, RevInv, TablesOK, InBook
<1> QED BY <1>1, <1>2

(* The statements of the verification handlers change neither rows nor identifiers. *)
LEMMA VerifiedRev ==
  ASSUME RevInv, NEW t \in Threads, PostPfmsverified(t) \/ PostEmptyPfmsverified(t), UNCHANGED rvars
  PROVE  RevInv'
<1>1. Done(t) /\ UNCHANGED <<kafka, subm, pfms, rev, lost>>
  BY DEF PostPfmsverified, PostEmptyPfmsverified, rvars
<1>2. PICK b : b = req[t].book
  OBVIOUS
<1>3. ASSUME NEW row, row = Verified(b, req[t].content), b \in DOMAIN main
      PROVE  DOMAIN row = MainFields /\ row.uid = main[b].uid
  BY <1>3 DEF Verified, RevInv, TablesOK, MainFields
<1>4. SameIds
  <2>1. CASE PostPfmsverified(t)
    <3>1. main' = main \/ (b \in DOMAIN main /\ main' = [main EXCEPT ![b] = Verified(b, req[t].content)])
      BY <1>2, <2>1 DEF PostPfmsverified
    <3> QED BY <1>3, <3>1 DEF SameIds, RevInv, TablesOK
  <2>2. CASE PostEmptyPfmsverified(t)
    <3>1. PICK row : row = Verified(b, req[t].content)
      OBVIOUS
    <3>2. \/ main' = main
          \/ b \in DOMAIN main /\ main' = [main EXCEPT ![b] = [row EXCEPT !.gen =
               @ \/ (req[t].content.opening = 0 /\ req[t].content.closing = 0)]]
      BY <1>2, <2>2, <3>1 DEF PostEmptyPfmsverified
    <3> QED BY <1>3, <3>1, <3>2 DEF SameIds, RevInv, TablesOK, MainFields
  <2> QED BY <2>1, <2>2
<1> QED BY <1>1, <1>4, Over, SameIdsRest, BooksOfOne

(* The lease. *)
LEMMA TryStartSubmissionRev ==
  ASSUME RevInv, NEW t \in Threads, TryStartSubmission(t), UNCHANGED rvars
  PROVE  RevInv'
<1>1. Submitting(t) /\ req[t].op = "submit" /\ req[t].pc = "lease" /\ UNCHANGED <<kafka, subm, pfms, rev, lost>>
  BY SubmitterIs DEF TryStartSubmission, At, Submits, rvars
<1>2. CASE Done(t) /\ UNCHANGED main
  BY <1>1, <1>2, OverQuietly
<1>3. CASE ~(Done(t) /\ UNCHANGED main)
  <2>1. PICK b : b = Head(req[t].left)
    OBVIOUS
  <2>2. /\ b \in DOMAIN main /\ main' = [main EXCEPT ![b].lease = Lease]
        /\ \/ req' = [req EXCEPT ![t].pc = "read", ![t].left = << >>]
           \/ req' = [req EXCEPT ![t].left = Tail(@)]
    BY <1>3, <2>1 DEF TryStartSubmission
  <2>3. SameIds
    BY <2>2 DEF SameIds, RevInv, TablesOK, MainFields
  <2>4. /\ Alone(t) /\ DOMAIN req'[t] = SubmitFields /\ req'[t].pc \in {"lease", "read"}
        /\ req'[t].op = req[t].op /\ req'[t].cbs = req[t].cbs
    BY <1>1, <2>2 DEF RevInv, RequestsOK, Alone, Submitting, SubmitFields
  <2>5. Submitting(t)' /\ ~Sends(t)'
    BY <1>1, <2>4 DEF Submitting, Sends, Submits
  <2> QED BY <1>1, <2>3, <2>4, <2>5, SameIdsRest, BooksOfOne DEF Shape
<1> QED BY <1>2, <1>3

(* The flag of a row. *)
LEMMA UpdateStatusInMainRev ==
  ASSUME RevInv, NEW t \in Threads, UpdateStatusInMain(t), UNCHANGED rvars
  PROVE  RevInv'
<1>1. Following(t) /\ UNCHANGED <<kafka, subm, pfms, rev, lost>>
  BY FollowerIs DEF UpdateStatusInMain, rvars
<1>2. SameIds
  BY DEF UpdateStatusInMain, SameIds, RevInv, TablesOK, MainFields
<1>3. Alone(t) /\ DOMAIN req'[t] = FollowFields /\ req'[t].pc = "submission" /\ req'[t].op = req[t].op
  BY <1>1 DEF UpdateStatusInMain, RevInv, RequestsOK, Alone, Following, FollowFields
<1>4. Following(t)' /\ ~Sends(t)'
  BY <1>1, <1>3 DEF Following, Follows, Sends, Submits
<1> QED BY <1>1, <1>2, <1>3, <1>4, SameIdsRest, BooksOfOne DEF Shape

(* GetPfmsUpdateStatusRepo writes the identifier of an entry that is not logged yet. *)
LEMMA GetPfmsUpdateStatusRev ==
  ASSUME RevInv, NEW t \in Threads, GetPfmsUpdateStatus(t), UNCHANGED rvars
  PROVE  RevInv'
<1>1. Submitting(t) /\ req[t].pc = "record" /\ Sends(t) /\ UNCHANGED <<kafka, subm, pfms, rev, lost>>
  BY SubmitterIs DEF GetPfmsUpdateStatus, Sends, Submits, rvars
<1>2. PICK v : v = req[t].uid
  OBVIOUS
<1>3. v \in DOMAIN pfms \ LoggedIds /\ pfms[v].cbs = req[t].cbs /\ v \notin BuiltIds
  BY <1>1, <1>2 DEF Submitting
<1>4. /\ DOMAIN main' = DOMAIN main
      /\ \A b \in DOMAIN main : /\ DOMAIN main'[b] = MainFields
                                /\ \/ main'[b].uid = main[b].uid
                                   \/ main'[b].uid = v /\ b \in Range(req[t].cbs)
  BY <1>2 DEF GetPfmsUpdateStatus, Recorded, RevInv, TablesOK, MainFields
<1>5. LoggedIds \cap ListedIds' \subseteq ListedIds
  BY <1>3, <1>4 DEF ListedIds
<1>6. \A b \in Range(req[t].cbs) : InBook(v, b)
  BY <1>3 DEF InBook, Range
<1>7. TablesOK'
  <2>1. \A b \in DOMAIN main : main'[b].uid # 0 => main'[b].uid \in DOMAIN pfms /\ InBook(main'[b].uid, b)
    BY <1>3, <1>4, <1>6 DEF RevInv, TablesOK
  <2>2. \A b \in DOMAIN main : \A u : InBook(u, b) <=> InBook(u, b)'
    BY <1>1 DEF InBook
  <2>3. \A b \in DOMAIN main' : main'[b].uid # 0 => main'[b].uid \in DOMAIN pfms' /\ InBook(main[b].uid, b)'
    BY <1>1, <1>4, <2>1, <2>2 DEF InBook
  <2> QED BY <1>1, <1>4, <2>3 DEF RevInv, TablesOK, InBook
<1>8. /\ Alone(t) /\ DOMAIN req'[t] = SubmitFields /\ req'[t].pc = "log" /\ req'[t].op = req[t].op
      /\ req'[t].cbs = req[t].cbs /\ req'[t].uid = v
  BY <1>1, <1>2 DEF GetPfmsUpdateStatus, Goto, RevInv, RequestsOK, Alone, Submitting, SubmitFields
<1>9. Submitting(t)'
  BY <1>1, <1>3, <1>8, IdsRest DEF Submitting, Sends, Submits
<1> QED BY <1>1, <1>2, <1>5, <1>7, <1>8, <1>9, BooksOfOne DEF Shape

(* UpdateDDOCashbookList adds rows that name no entry. *)
LEMMA ListingRev ==
  ASSUME RevInv, NEW from, NEW to, UpdateDDOCashbookList(from, to), UNCHANGED rvars
  PROVE  RevInv'
<1>1. PICK missing : /\ missing \subseteq DOMAIN kafka
                     /\ main' = [b \in DOMAIN main \cup missing |-> IF b \in DOMAIN main THEN main[b] ELSE NewRow]
  BY DEF UpdateDDOCashbookList, GetDDOlistupdate
<1>2. UNCHANGED <<kafka, req, subm, pfms, rev, lost>>
  BY DEF UpdateDDOCashbookList, rvars
<1>3. DOMAIN NewRow = MainFields /\ NewRow.uid = 0
  BY DEF NewRow, MainFields
<1>4. IsFiniteSet(DOMAIN main')
  BY <1>1, FS_Subset, FS_Union DEF RevInv, TablesOK
<1>5. \A b \in DOMAIN main' : \/ b \in DOMAIN main /\ main'[b] = main[b]
                              \/ main'[b] = NewRow
  BY <1>1
<1>6. TablesOK'
  BY <1>2, <1>3, <1>4, <1>5 DEF RevInv, TablesOK, InBook
<1>7. LoggedIds \cap ListedIds' \subseteq ListedIds
  <2>1. 0 \notin LoggedIds
    BY LoggedAreEntries DEF RevInv, PfmsOK
  <2> QED BY <1>3, <1>5, <2>1 DEF ListedIds
<1> QED BY <1>2, <1>6, <1>7, BooksOnly, StepOfNobody, PfmsRest, SubmRest, RevRest DEF RevInv

(* Time passes: leases run out and requests get older. *)
LEMMA TickRev ==
  ASSUME RevInv, Tick, UNCHANGED rvars
  PROVE  RevInv'
<1>1. UNCHANGED <<kafka, subm, pfms, rev, lost>>
  BY DEF Tick, rvars
<1>2. SameIds
  BY DEF Tick, SameIds, RevInv, TablesOK, MainFields
<1>3. TablesOK' /\ ListedIds' = ListedIds
  BY <1>1, <1>2, SameIdsRest
<1>4. Stands /\ \A x \in Threads : StillOwn(x)
  BY <1>1, <1>3, BooksOnly
<1>5. DOMAIN req' = Threads
      /\ \A x \in Threads : req'[x] = IF Submits(x) THEN [req[x] EXCEPT !.age = @ + 1] ELSE req[x]
  BY DEF Tick
<1>6. ASSUME NEW x \in Threads, Submits(x)
      PROVE  /\ DOMAIN req'[x] = SubmitFields /\ req'[x].op = req[x].op /\ req'[x].pc = req[x].pc
             /\ req'[x].cbs = req[x].cbs /\ req'[x].uid = req[x].uid
  BY <1>5, <1>6, SubmitterIs DEF Submitting, SubmitFields
<1>7. ASSUME NEW x \in Threads
      PROVE  Shape(x)' /\ (Sends(x)' <=> Sends(x)) /\ (Sends(x) => req'[x].uid = req[x].uid)
  <2>1. CASE Submits(x)
    <3>1. Submitting(x)
      BY <2>1, SubmitterIs
    <3>2. LoggedIds' = LoggedIds /\ BuiltIds' = BuiltIds
      BY <1>1, IdsRest
    <3>3. Submitting(x)'
      BY <1>1, <1>6, <2>1, <3>1, <3>2 DEF Submitting, Sends, Submits
    <3> QED BY <1>6, <2>1, <3>3 DEF Shape, Sends, Submits
  <2>2. CASE ~Submits(x)
    <3>1. req'[x] = req[x]
      BY <1>5, <2>2
    <3> QED BY <1>4, <2>2, <3>1, Onlooker DEF Sends, Submits
  <2> QED BY <2>1, <2>2
<1>8. RequestsOK'
  BY <1>5, <1>7 DEF RevInv, RequestsOK, OwnEntry
<1> QED BY <1>1, <1>3, <1>4, <1>8, PfmsRest, SubmRest, RevRest DEF RevInv

(* The received cash books. *)
LEMMA PutDomain == ASSUME NEW f, NEW k, NEW v PROVE DOMAIN Put(f, k, v) = DOMAIN f \cup {k}
BY DEF Put

(* A cash book arrives. *)
LEMMA ArriveRev == ASSUME RevInv, NEW b, NEW c, Arrive(b, c), UNCHANGED rvars PROVE RevInv'
<1>1. UNCHANGED <<main, req, subm, pfms, rev, lost>> /\ DOMAIN kafka' = DOMAIN kafka \cup {b}
  BY PutDomain DEF Arrive, rvars
<1>2. IsFiniteSet(DOMAIN kafka')
  BY <1>1, FS_AddElement DEF RevInv, TablesOK
<1>3. TablesOK'
  BY <1>1, <1>2 DEF RevInv, TablesOK, InBook
<1> QED BY <1>1, <1>3, IdsRest, BooksOnly, StepOfNobody, PfmsRest, SubmRest, RevRest DEF RevInv

(* The first statement of RevertCashbookRepo. *)
LEMMA DeleteKafkaRev == ASSUME RevInv, NEW t \in Threads, DeleteKafka(t) PROVE RevInv'
<1>1. Reverting(t) /\ UNCHANGED <<main, subm, pfms, rev, lost>> /\ LoggedIds' = LoggedIds
  BY ReverterIs, IdsRest DEF DeleteKafka, rvars
<1>2. DOMAIN kafka' \subseteq DOMAIN kafka
  BY DEF DeleteKafka, Restrict
<1>3. TablesOK'
  <2>1. IsFiniteSet(DOMAIN kafka')
    BY <1>2, FS_Subset DEF RevInv, TablesOK
  <2> QED BY <1>1, <2>1 DEF RevInv, TablesOK, InBook
<1>4. Alone(t) /\ Reverting(t)' /\ ~Sends(t)'
  BY <1>1, RevertingGoesOn DEF DeleteKafka
<1> QED BY <1>1, <1>3, <1>4, IdsRest, BooksOfOne DEF Shape

(* The second statement, over the verified heads. *)
LEMMA DeleteDetailRev == ASSUME RevInv, NEW t \in Threads, DeleteDetail(t) PROVE RevInv'
<1>1. Reverting(t) /\ UNCHANGED <<kafka, main, subm, pfms, rev, lost>> /\ LoggedIds' = LoggedIds
  BY ReverterIs, IdsRest DEF DeleteDetail, rvars
<1>2. Alone(t) /\ Reverting(t)' /\ ~Sends(t)'
  BY <1>1, RevertingGoesOn DEF DeleteDetail
<1> QED BY <1>1, <1>2, RequestOnly DEF Shape

(* RevertResubmitCashbookHandler may bring a day back. *)
LEMMA ResubmitDayRev == ASSUME RevInv, NEW t \in Threads, ResubmitDay(t) PROVE RevInv'
<1>1. Done(t) /\ UNCHANGED <<main, subm, pfms, rev, lost>>
  BY DEF ResubmitDay, rvars
<1>2. PICK b : b = req[t].from
  OBVIOUS
<1>3. kafka' = kafka \/ \E c : kafka' = Put(kafka, b, c)
  BY <1>2 DEF ResubmitDay
<1>4. IsFiniteSet(DOMAIN kafka')
  <2>1. IsFiniteSet(DOMAIN kafka) /\ IsFiniteSet(DOMAIN kafka \cup {b})
    BY FS_AddElement DEF RevInv, TablesOK
  <2>2. DOMAIN kafka' = DOMAIN kafka \/ DOMAIN kafka' = DOMAIN kafka \cup {b}
    BY <1>3, PutDomain
  <2> QED BY <2>1, <2>2
<1>5. TablesOK'
  BY <1>1, <1>4 DEF RevInv, TablesOK, InBook
<1> QED BY <1>1, <1>5, IdsRest, Over, BooksOfOne

(* After the deletion an entry of one cash book among the rows is not listed any more: *)
(* its cash book was below the officer's date.                                         *)
LEMMA DeleteMainRev == ASSUME RevInv, NEW t \in Threads, DeleteMain(t) PROVE RevInv'
<1>1. Reverting(t) /\ UNCHANGED <<kafka, subm, pfms, rev, lost>>
  BY ReverterIs DEF DeleteMain
<1>2. DOMAIN main' = DOMAIN main \ Below(t) /\ \A b \in DOMAIN main' : main'[b] = main[b]
  BY DEF DeleteMain, Restrict
<1>3. ListedIds' \subseteq ListedIds
  BY <1>2 DEF ListedIds
<1>4. TablesOK'
  <2>1. IsFiniteSet(DOMAIN main')
    BY <1>2, FS_Subset DEF RevInv, TablesOK
  <2> QED BY <1>1, <1>2, <2>1 DEF RevInv, TablesOK, InBook
<1>5. LoggedIds' = LoggedIds
  BY <1>1, IdsRest
<1>6. CASE FromFile(t) /\ Done(t)
  BY <1>1, <1>3, <1>4, <1>6, Over, BooksOfOne
<1>7. CASE FromFile(t) /\ req' = [req EXCEPT ![t].pc = "again"]
  <2>1. Alone(t) /\ Reverting(t)' /\ ~Sends(t)'
    BY <1>1, <1>5, <1>7, RevertingGoesOn
  <2> QED BY <1>1, <1>3, <1>4, <2>1, BooksOfOne DEF Shape
<1>8. CASE ~FromFile(t)
  <2>1. PICK rows : rows = [i \in DOMAIN req[t].rows |-> [req[t].rows[i] EXCEPT !.del = "SUCCESS"]]
    OBVIOUS
  <2>2. /\ Alone(t) /\ DOMAIN req'[t] = RevertFields /\ req'[t].pc = "rows" /\ req'[t].op = req[t].op
        /\ req'[t].from = req[t].from /\ req'[t].rows = rows
    BY <1>1, <1>8, <2>1 DEF DeleteMain, RevInv, RequestsOK, Alone, Reverting, RevertFields
  <2>3. DOMAIN rows = DOMAIN req[t].rows
        /\ \A i \in DOMAIN rows : /\ DOMAIN rows[i] = RecordFields /\ rows[i].neg = req[t].rows[i].neg
                                  /\ rows[i].uid = req[t].rows[i].uid /\ rows[i].del = "SUCCESS"
    BY <1>1, <2>1 DEF Reverting, RecordFields
  <2>4. IsSeq(rows)
    <3>1. PICK n \in Nat : DOMAIN req[t].rows = 1..n
      BY <1>1, SequenceHas DEF Reverting
    <3> QED BY <2>1, <3>1, SequenceIs
  <2>5. Below(t)' = Below(t) /\ Reverts(t)' /\ ~Sends(t)'
    BY <1>1, <2>2 DEF Below, Reverting, Reverts, FromFile, Sends, Submits
  <2>6. ASSUME NEW u, u \in LoggedIds, Len(pfms[u].cbs) = 1, pfms[u].cbs[1] \in Below(t)
        PROVE  u \notin ListedIds'
    <3> SUFFICES ASSUME NEW b \in DOMAIN main', main[b].uid = u PROVE FALSE
      BY <1>2 DEF ListedIds
    <3>1. u \in DOMAIN pfms /\ u # 0
      BY <2>6, LoggedAreEntries DEF RevInv, PfmsOK
    <3>2. InBook(u, b) /\ pfms[u].cbs \in Seq(Books)
      BY <1>2, <3>1 DEF RevInv, TablesOK, PfmsOK
    <3>3. b = pfms[u].cbs[1]
      BY <2>6, <3>2 DEF InBook
    <3> QED BY <1>2, <2>6, <3>3
  <2>7. Reverting(t)'
    BY <1>1, <1>5, <2>2, <2>3, <2>4, <2>5, <2>6 DEF Reverting, Tells
  <2> QED BY <1>1, <1>3, <1>4, <2>2, <2>5, <2>7, BooksOfOne DEF Shape
<1> QED BY <1>6, <1>7, <1>8 DEF DeleteMain

--------------------------------------------------------------------------------
(* Steps that write the entries at PFMS *)

(* The next identifier is free. *)
LEMMA NextIsFree ==
  ASSUME RevInv
  PROVE  /\ NextUid \in Nat \ {0} /\ NextUid \notin DOMAIN pfms
         /\ \E n \in Nat : DOMAIN pfms \cup {NextUid} = 1..n
<1>1. PICK n \in Nat : DOMAIN pfms = 1..n
  BY DEF RevInv, PfmsOK
<1>2. Cardinality(DOMAIN pfms) = n
  BY <1>1, FS_Interval
<1>3. NextUid = n + 1
  BY <1>2 DEF NextUid
<1>4. (1..n) \cup {n + 1} = 1..(n + 1)
  OBVIOUS
<1> QED BY <1>1, <1>3, <1>4

(* An entry is added. *)
LEMMA EntryAdded ==
  ASSUME RevInv, NEW rec, pfms' = Put(pfms, NextUid, rec),
         DOMAIN rec = PfmsFields, rec.cbs \in Seq(Books), rec.st \in States,
         rec.by = "reversal" => rec.of \in LoggedIds \cap NotedIds,
         UNCHANGED <<kafka, main, subm, rev, lost>>
  PROVE  /\ PfmsOK' /\ Stands /\ \A x \in Threads : StillOwn(x)
         /\ NextUid \in DOMAIN pfms' /\ NextUid \notin LoggedIds' /\ pfms'[NextUid] = rec
<1>1. PICK v : v = NextUid
  OBVIOUS
<1>2. v \notin DOMAIN pfms /\ (\E n \in Nat : DOMAIN pfms \cup {v} = 1..n)
  BY <1>1, NextIsFree
<1>3. DOMAIN pfms' = DOMAIN pfms \cup {v} /\ pfms'[v] = rec /\ \A u \in DOMAIN pfms : pfms'[u] = pfms[u]
  BY <1>1, <1>2 DEF Put
<1>4. LoggedIds' = LoggedIds /\ NotedIds' = NotedIds /\ ListedIds' = ListedIds
  BY IdsRest
<1>5. PfmsOK'
  BY <1>2, <1>3, <1>4 DEF RevInv, PfmsOK
<1>6. BuiltIds' \cap DOMAIN pfms = BuiltIds /\ TakenIds \subseteq TakenIds'
  BY <1>3 DEF BuiltIds, TakenIds
<1>7. Stands
  BY <1>3, <1>4, <1>6 DEF Stands
<1>8. \A x \in Threads : StillOwn(x)
  BY <1>4, <1>6, SubmitterIs DEF StillOwn, Submitting, Sends
<1>9. v \notin LoggedIds
  BY <1>2, LoggedAreEntries DEF RevInv
<1> QED BY <1>1, <1>3, <1>4, <1>5, <1>7, <1>8, <1>9

(* The state of an entry moves on. *)
LEMMA StateMoves ==
  ASSUME RevInv, NEW u \in DOMAIN pfms, NEW st \in States \ {"built"}, pfms' = [pfms EXCEPT ![u].st = st],
         pfms[u].st \in {"built", "sent", "refused"} \/ st \in {"Pending", "Success", "Failed"},
         UNCHANGED <<kafka, main, subm, rev, lost>>
  PROVE  PfmsOK' /\ Stands /\ BuiltIds' = BuiltIds \ {u} /\ LoggedIds' = LoggedIds
<1>1. /\ DOMAIN pfms' = DOMAIN pfms
      /\ \A v \in DOMAIN pfms : /\ DOMAIN pfms'[v] = PfmsFields /\ pfms'[v].cbs = pfms[v].cbs
                                /\ pfms'[v].of = pfms[v].of /\ pfms'[v].by = pfms[v].by
                                /\ pfms'[v].st = IF v = u THEN st ELSE pfms[v].st
  BY DEF RevInv, PfmsOK, PfmsFields
<1>2. LoggedIds' = LoggedIds /\ NotedIds' = NotedIds /\ ListedIds' = ListedIds
  BY IdsRest
<1>3. PfmsOK'
  BY <1>1, <1>2 DEF RevInv, PfmsOK
<1>4. BuiltIds' = BuiltIds \ {u}
  BY <1>1 DEF BuiltIds
<1>5. TakenIds \subseteq TakenIds'
  BY <1>1 DEF TakenIds
<1> QED BY <1>1, <1>2, <1>3, <1>4, <1>5 DEF Stands

(* The payload of a submission or a resubmission. *)
LEMMA BuildRev ==
  ASSUME RevInv, NEW t \in Threads, NEW op \in {"submit", "resubmit"}, NEW refused, Build(t, op, refused),
         UNCHANGED rvars
  PROVE  RevInv'
<1>1. Submitting(t) /\ req[t].pc = "read" /\ req[t].op = op /\ UNCHANGED <<kafka, main, subm, rev, lost>>
  BY SubmitterIs DEF Build, At, Submits, tables, rvars
<1>2. CASE refused
  BY <1>1, <1>2, OverQuietly DEF Build
<1>3. CASE ~refused
  <2>1. PICK rec : rec = [by |-> req[t].op, cbs |-> req[t].cbs, of |-> 0, st |-> "built",
             late |-> req[t].late,
              amount |-> [o \in DdoCodes |-> Net(Payload(GetPfmsJson(req[t].cbs), ClosingBalance(req[t].cbs)), o)]]
    OBVIOUS
  <2>2. /\ pfms' = Put(pfms, NextUid, rec)
        /\ req' = [req EXCEPT ![t].pc = "login", ![t].uid = NextUid, ![t].age = 0]
    BY <1>3, <2>1 DEF Build
  <2>3. DOMAIN rec = PfmsFields /\ rec.cbs = req[t].cbs /\ rec.by = op /\ rec.st = "built"
    BY <1>1, <2>1 DEF PfmsFields
  <2>4. /\ PfmsOK' /\ Stands /\ \A x \in Threads : StillOwn(x)
        /\ NextUid \in DOMAIN pfms' /\ NextUid \notin LoggedIds' /\ pfms'[NextUid] = rec
    <3>1. rec.cbs \in Seq(Books) /\ rec.st \in States /\ rec.by # "reversal"
      BY <1>1, <2>3 DEF Submitting, States
    <3> QED BY <1>1, <2>2, <2>3, <3>1, EntryAdded
  <2>5. PICK v : v = NextUid
    OBVIOUS
  <2>6. /\ Alone(t) /\ DOMAIN req'[t] = SubmitFields /\ req'[t].pc = "login" /\ req'[t].op = req[t].op
        /\ req'[t].cbs = req[t].cbs /\ req'[t].uid = v
    BY <1>1, <2>2, <2>5 DEF RevInv, RequestsOK, Alone, Submitting, SubmitFields
  <2>7. v \in BuiltIds' /\ v \in DOMAIN pfms' /\ v \notin LoggedIds' /\ pfms'[v].cbs = req[t].cbs
    BY <2>3, <2>4, <2>5 DEF BuiltIds
  <2>8. Submitting(t)'
    BY <1>1, <2>6, <2>7 DEF Submitting, Sends, Submits
  <2>9. \A x \in Threads : Sends(x) => req[x].uid # v
    BY <2>5, NextIsFree, SubmitterIs DEF Submitting, Sends
  <2>10. RequestsOK'
    BY <2>4, <2>6, <2>8, <2>9, StepOfOne DEF Shape
  <2> QED BY <1>1, <2>4, <2>10, TablesRest, SubmRest, RevRest DEF RevInv
<1> QED BY <1>2, <1>3

(* The login: the entry is sent by the one request that has it. *)
LEMMA LogInRev ==
  ASSUME RevInv, NEW t \in Threads, LogIn(t), UNCHANGED rvars
  PROVE  RevInv'
<1>1. Submitting(t) /\ Sends(t) /\ req[t].pc = "login" /\ UNCHANGED <<kafka, main, subm, rev, lost>>
  BY SubmitterIs DEF LogIn, Sends, tables, rvars
<1>2. PICK u : u = req[t].uid
  OBVIOUS
<1>3. u \in DOMAIN pfms /\ u \in BuiltIds /\ pfms[u].st = "built" /\ u \notin LoggedIds /\ pfms[u].cbs = req[t].cbs
  BY <1>1, <1>2 DEF Submitting, BuiltIds
<1>4. PfmsOK' /\ Stands /\ BuiltIds' = BuiltIds \ {u} /\ LoggedIds' = LoggedIds
  <2>1. pfms' = [pfms EXCEPT ![u].st = "sent"]
    BY <1>2 DEF LogIn
  <2>2. "sent" \in States \ {"built"}
    BY DEF States, Final
  <2> QED BY <1>1, <1>3, <2>1, <2>2, StateMoves
<1>5. \A x \in Threads : x # t => StillOwn(x)
  BY <1>1, <1>2, <1>4, SubmitterIs DEF StillOwn, Submitting, Sends, RevInv, RequestsOK, OwnEntry
<1>6. /\ Alone(t) /\ DOMAIN req'[t] = SubmitFields /\ req'[t].pc = "post" /\ req'[t].op = req[t].op
      /\ req'[t].cbs = req[t].cbs /\ req'[t].uid = u
  BY <1>1, <1>2 DEF LogIn, Goto, RevInv, RequestsOK, Alone, Submitting, SubmitFields
<1>7. u \in DOMAIN pfms' /\ pfms'[u].cbs = req[t].cbs
  BY <1>3, <1>4 DEF Stands
<1>8. Submitting(t)'
  BY <1>1, <1>3, <1>4, <1>6, <1>7 DEF Submitting, Sends, Submits
<1>9. \A x \in Threads : x # t /\ Sends(x) => req[x].uid # u
  BY <1>1, <1>2 DEF RevInv, RequestsOK, OwnEntry
<1>10. RequestsOK'
  BY <1>4, <1>5, <1>6, <1>8, <1>9, StepOfOne DEF Shape
<1> QED BY <1>1, <1>4, <1>10, TablesRest, SubmRest, RevRest DEF RevInv

(* PFMS takes, refuses, books or fails an entry that was sent. *)
LEMMA PfmsRev ==
  ASSUME RevInv, NEW u, PfmsTakes(u) \/ PfmsDecides(u), UNCHANGED rvars
  PROVE  RevInv'
<1>1. PICK st \in {"Pending", "refused", "Success", "Failed"} :
        /\ pfms' = [pfms EXCEPT ![u].st = st]
        /\ pfms[u].st # "built"
        /\ (pfms[u].st = "sent" \/ st \in {"Success", "Failed"})
  <2>1. CASE PfmsTakes(u)
    BY <2>1 DEF PfmsTakes
  <2>2. CASE PfmsDecides(u)
    BY <2>2 DEF PfmsDecides
  <2> QED BY <2>1, <2>2
<1>2. u \in DOMAIN pfms /\ UNCHANGED <<kafka, main, subm, rev, lost, req>>
  BY DEF PfmsTakes, PfmsDecides, tables, rvars
<1>3. PfmsOK' /\ Stands /\ BuiltIds' = BuiltIds \ {u} /\ LoggedIds' = LoggedIds
  <2>1. st \in States \ {"built"}
    BY <1>1 DEF States, Final
  <2> QED BY <1>1, <1>2, <2>1, StateMoves
<1>4. u \notin BuiltIds
  BY <1>1 DEF BuiltIds
<1>5. \A x \in Threads : StillOwn(x)
  BY <1>3, <1>4, SubmitterIs DEF StillOwn, Submitting, Sends
<1> QED BY <1>2, <1>3, <1>5, StepOfNobody, TablesRest, SubmRest, RevRest DEF RevInv

(* SubmitPayloadToPfms sends a reversal of an identifier that is logged and noted. *)
LEMMA SubmitPayloadToPfmsRev ==
  ASSUME RevInv, NEW t \in Threads, SubmitPayloadToPfms(t)
  PROVE  RevInv'
<1>1. Negating(t) /\ req[t].pc = "send" /\ UNCHANGED <<kafka, main, subm, rev, lost>>
  BY NegatorIs DEF SubmitPayloadToPfms, tables, rvars
<1>2. PICK u : u = req[t].of
  OBVIOUS
<1>0. PICK by : by = IF req[t].op = "test" THEN "test" ELSE "reversal"
  OBVIOUS
<1>3. PICK rec : rec = [by |-> by, cbs |-> pfms[u].cbs, amount |-> [o \in DdoCodes |-> -pfms[u].amount[o]], of |-> u,
                   st |-> "sent", late |-> FALSE]
  OBVIOUS
<1>4. pfms' = Put(pfms, NextUid, rec) /\ req' = [req EXCEPT ![t].pc = "answer", ![t].uid = NextUid]
  BY <1>0, <1>2, <1>3 DEF SubmitPayloadToPfms
<1>5. /\ u \in LoggedIds /\ u \in DOMAIN pfms
      /\ by = "reversal" => u \in NotedIds
      /\ req[t].op = "negative" => u \in NotedIds
  BY <1>0, <1>1, <1>2, LoggedAreEntries DEF Negating, Negates, RevInv
<1>6. DOMAIN rec = PfmsFields /\ rec.cbs \in Seq(Books) /\ rec.st = "sent" /\ rec.of = u /\ rec.by = by
  BY <1>3, <1>5 DEF PfmsFields, RevInv, PfmsOK
<1>7. /\ PfmsOK' /\ Stands /\ \A x \in Threads : StillOwn(x)
      /\ NextUid \in DOMAIN pfms' /\ NextUid \notin LoggedIds' /\ pfms'[NextUid] = rec
  <2>1. rec.st \in States /\ (rec.by = "reversal" => rec.of \in LoggedIds \cap NotedIds)
    BY <1>5, <1>6 DEF States
  <2> QED BY <1>1, <1>4, <1>6, <2>1, EntryAdded
<1>8. PICK v : v = NextUid
  OBVIOUS
<1>9. /\ Alone(t) /\ DOMAIN req'[t] = NegateFields /\ req'[t].pc = "answer" /\ req'[t].op = req[t].op
      /\ req'[t].of = u /\ req'[t].uid = v
  BY <1>1, <1>2, <1>4, <1>8 DEF RevInv, RequestsOK, Alone, Negating, NegateFields
<1>10. v \in DOMAIN pfms' /\ v \notin BuiltIds' /\ pfms'[v].of = u
  <2>1. v \in DOMAIN pfms' /\ pfms'[v].st = "sent" /\ pfms'[v].of = u
    BY <1>6, <1>7, <1>8
  <2> QED BY <2>1 DEF BuiltIds
<1>11. LoggedIds' = LoggedIds /\ NotedIds' = NotedIds
  BY <1>1, IdsRest
<1>12. Negating(t)' /\ ~Sends(t)'
  BY <1>1, <1>5, <1>9, <1>10, <1>11 DEF Negating, Negates, Sends, Submits
<1>13. RequestsOK'
  BY <1>7, <1>9, <1>12, StepOfOne DEF Shape
<1> QED BY <1>1, <1>7, <1>13, TablesRest, SubmRest, RevRest DEF RevInv

--------------------------------------------------------------------------------
(* Steps that log submissions and write reversion rows *)

(* A sequence with one element more: the others stay where they are. *)
LEMMA AppendIs ==
  ASSUME NEW s, IsSeq(s), NEW r, NEW q, q = Append(s, r)
  PROVE  /\ IsSeq(q) /\ DOMAIN q = DOMAIN s \cup {Len(s) + 1} /\ Len(s) + 1 \notin DOMAIN s
         /\ q[Len(s) + 1] = r /\ \A i \in DOMAIN s : q[i] = s[i]
<1>1. Len(s) \in Nat /\ DOMAIN s = 1..Len(s)
  BY SequenceHas
<1>2. /\ Len(q) = Len(s) + 1 /\ DOMAIN q = 1..(Len(s) + 1) /\ q[Len(s) + 1] = r
      /\ (\A i \in 1..Len(s) : q[i] = s[i]) /\ q = [i \in 1..(Len(s) + 1) |-> q[i]]
  <2>1. PICK S : S = {s[i] : i \in DOMAIN s} \cup {r}
    OBVIOUS
  <2>2. s \in Seq(S) /\ r \in S
    BY <1>1, <2>1 DEF IsSeq
  <2>3. /\ q \in Seq(S) /\ Len(q) = Len(s) + 1 /\ q[Len(s) + 1] = r
        /\ \A i \in 1..Len(s) : q[i] = s[i]
    BY <2>2, AppendProperties
  <2>4. q \in [1..(Len(s) + 1) -> S]
    BY <2>3, LenProperties
  <2>5. DOMAIN q = 1..(Len(s) + 1) /\ q = [i \in 1..(Len(s) + 1) |-> q[i]]
    BY <2>4
  <2> QED BY <2>3, <2>5
<1>3. IsSeq(q)
  <2>1. Len(s) + 1 \in Nat
    BY <1>1
  <2> QED BY <1>2, <2>1, SequenceIs
<1>4. 1..(Len(s) + 1) = (1..Len(s)) \cup {Len(s) + 1}
  BY <1>1
<1> QED BY <1>1, <1>2, <1>3, <1>4

(* InsertPfmsSubmission logs the entry its request has sent, the only one that has it. *)
LEMMA FinishRev ==
  ASSUME RevInv, NEW t \in Threads, NEW op \in {"submit", "resubmit"}, Finish(t, op), UNCHANGED rvars
  PROVE  RevInv'
<1>1. Submitting(t) /\ Sends(t) /\ req[t].pc = "log" /\ Done(t) /\ UNCHANGED <<kafka, main, pfms, rev, lost>>
  BY SubmitterIs DEF Finish, At, Sends, Submits, rvars
<1>2. CASE UNCHANGED subm
  BY <1>1, <1>2, OverQuietly
<1>3. CASE InsertPfmsSubmission(t)
  <2>1. PICK u : u = req[t].uid
    OBVIOUS
  <2>2. u \in DOMAIN pfms \ LoggedIds /\ pfms[u].cbs = req[t].cbs /\ req[t].cbs # << >>
    BY <1>1, <2>1 DEF Submitting
  <2>3. PICK row : row = Submission(u, "cb", req[t].cbs, 0)
    OBVIOUS
  <2>4. /\ DOMAIN row = LogFields /\ row.uid = u /\ row.type = "cb" /\ row.cbs = pfms[u].cbs
        /\ row.cbs # << >> /\ row.day = Last(row.cbs).day
    BY <2>2, <2>3 DEF Submission, LogFields
  <2>5. subm' = Append(subm, row)
    BY <1>3, <2>1, <2>3 DEF InsertPfmsSubmission
  <2>6. PICK k : k = Len(subm) + 1
    OBVIOUS
  <2>7. /\ IsSeq(subm') /\ DOMAIN subm' = DOMAIN subm \cup {k} /\ k \notin DOMAIN subm
        /\ subm'[k] = row /\ \A i \in DOMAIN subm : subm'[i] = subm[i]
    <3>1. IsSeq(subm)
      BY DEF RevInv, SubmOK
    <3>2. PICK s : s = subm
      OBVIOUS
    <3>3. PICK q : q = subm'
      OBVIOUS
    <3>4. q = Append(s, row) /\ IsSeq(s)
      BY <2>5, <3>1, <3>2, <3>3
    <3>5. IsSeq(q)
      BY <3>4, AppendIs
    <3>6. /\ DOMAIN q = DOMAIN s \cup {Len(s) + 1} /\ Len(s) + 1 \notin DOMAIN s
          /\ q[Len(s) + 1] = row /\ \A i \in DOMAIN s : q[i] = s[i]
      BY <3>4, AppendIs
    <3>7. IsSeq(subm')
      BY <3>3, <3>5
    <3> QED BY <2>6, <3>2, <3>3, <3>6, <3>7
  <2>8. LoggedIds' = LoggedIds \cup {u}
    BY <2>4, <2>7 DEF LoggedIds
  <2>9. NotedIds' = NotedIds /\ ListedIds' = ListedIds /\ BuiltIds' = BuiltIds /\ TakenIds \subseteq TakenIds'
    BY <1>1, IdsRest
  <2>10. Stands
    BY <1>1, <2>8, <2>9 DEF Stands
  <2>11. \A x \in Threads : x # t => StillOwn(x)
    <3> SUFFICES ASSUME NEW x \in Threads, x # t, Sends(x) PROVE req[x].uid \notin LoggedIds'
      BY <2>9 DEF StillOwn
    <3>1. req[x].uid # u
      BY <1>1, <2>1 DEF RevInv, RequestsOK, OwnEntry
    <3>2. req[x].uid \notin LoggedIds
      BY SubmitterIs DEF Submitting, Sends
    <3> QED BY <2>8, <3>1, <3>2
  <2>12. SubmOK'
    BY <1>1, <2>2, <2>4, <2>7 DEF RevInv, SubmOK
  <2>13. RequestsOK'
    BY <1>1, <2>10, <2>11, Over, StepOfOne
  <2>14. PfmsOK'
    BY <1>1, <2>10, PfmsRest
  <2> QED BY <1>1, <2>10, <2>12, <2>13, <2>14, TablesRest, RevRest DEF RevInv
<1> QED BY <1>2, <1>3 DEF Finish

(* The answer PFMS gave, among the submissions. *)
LEMMA UpdateStatusInSubmissionRev ==
  ASSUME RevInv, NEW t \in Threads, UpdateStatusInSubmission(t), UNCHANGED rvars
  PROVE  RevInv'
<1>1. Following(t) /\ UNCHANGED <<kafka, main, pfms, rev, lost>>
  BY FollowerIs DEF UpdateStatusInSubmission, rvars
<1>2. /\ subm' = [i \in DOMAIN subm |->
                    IF subm[i].uid = req[t].uid THEN [subm[i] EXCEPT !.status = req[t].flag] ELSE subm[i]]
      /\ req' = [req EXCEPT ![t] = IF @.left = << >> THEN Idle ELSE [@ EXCEPT !.pc = "ask"]]
  BY DEF UpdateStatusInSubmission
<1>3. DOMAIN subm' = DOMAIN subm
      /\ \A i \in DOMAIN subm : /\ DOMAIN subm'[i] = LogFields /\ subm'[i].uid = subm[i].uid
                                /\ subm'[i].type = subm[i].type /\ subm'[i].cbs = subm[i].cbs
                                /\ subm'[i].day = subm[i].day
  BY <1>2 DEF RevInv, SubmOK, LogFields
<1>4. IsSeq(subm')
  <2>1. PICK n \in Nat : DOMAIN subm = 1..n
    BY SequenceHas DEF RevInv, SubmOK
  <2>2. subm' = [i \in 1..n |-> subm'[i]]
    BY <1>2, <2>1
  <2> QED BY <2>2, SequenceIs
<1>5. LoggedIds' = LoggedIds
  BY <1>3 DEF LoggedIds
<1>6. SubmOK'
  BY <1>1, <1>3, <1>4 DEF RevInv, SubmOK
<1>7. Stands
  BY <1>1, <1>5, IdsRest DEF Stands
<1>8. \A x \in Threads : StillOwn(x)
  BY <1>1, <1>5, IdsRest, SubmitterIs DEF StillOwn, Submitting, Sends
<1>9. Alone(t) /\ Shape(t)' /\ ~Sends(t)'
  <2>1. CASE req[t].left = << >>
    <3>1. Done(t)
      BY <1>2, <2>1 DEF Done, RevInv, RequestsOK
    <3> QED BY <3>1, Over
  <2>2. CASE req[t].left # << >>
    <3>1. /\ Alone(t) /\ DOMAIN req'[t] = FollowFields /\ req'[t].pc = "ask" /\ req'[t].op = req[t].op
      BY <1>1, <1>2, <2>2 DEF RevInv, RequestsOK, Alone, Following, FollowFields
    <3>2. Following(t)' /\ ~Sends(t)'
      BY <1>1, <3>1 DEF Following, Follows, Sends, Submits
    <3> QED BY <3>1, <3>2 DEF Shape
  <2> QED BY <2>1, <2>2
<1>10. RequestsOK'
  BY <1>7, <1>8, <1>9, StepOfOne
<1> QED BY <1>1, <1>6, <1>7, <1>10, TablesRest, PfmsRest, RevRest DEF RevInv

(* Two sequences, one behind the other. *)
LEMMA ConcatIs ==
  ASSUME NEW s, IsSeq(s), NEW r, IsSeq(r), NEW q, q = s \o r
  PROVE  /\ IsSeq(q) /\ DOMAIN s \subseteq DOMAIN q /\ \A i \in DOMAIN s : q[i] = s[i]
         /\ \A j \in DOMAIN r : Len(s) + j \in DOMAIN q /\ q[Len(s) + j] = r[j]
         /\ \A i \in DOMAIN q : \/ i \in DOMAIN s /\ q[i] = s[i]
                                \/ i - Len(s) \in DOMAIN r /\ q[i] = r[i - Len(s)]
<1>1. PICK n \in Nat, m \in Nat : DOMAIN s = 1..n /\ Len(s) = n /\ DOMAIN r = 1..m /\ Len(r) = m
  BY SequenceHas
<1>2. PICK S : S = {s[i] : i \in DOMAIN s} \cup {r[i] : i \in DOMAIN r}
  OBVIOUS
<1>3. s \in Seq(S) /\ r \in Seq(S)
  BY <1>1, <1>2 DEF IsSeq
<1>4. /\ q \in Seq(S) /\ Len(q) = n + m
      /\ \A i \in 1..(n + m) : q[i] = IF i <= n THEN s[i] ELSE r[i - n]
  BY <1>1, <1>3, ConcatProperties
<1>5. DOMAIN q = 1..(n + m) /\ q = [i \in 1..(n + m) |-> q[i]]
  <2>1. q \in [1..(n + m) -> S]
    BY <1>4, LenProperties
  <2> QED BY <2>1
<1>6. IsSeq(q)
  <2>1. n + m \in Nat
    OBVIOUS
  <2> QED BY <1>5, <2>1, SequenceIs
<1>7. \A j \in 1..m : n + j \in 1..(n + m) /\ q[n + j] = r[j]
  <2> SUFFICES ASSUME NEW j \in 1..m PROVE n + j \in 1..(n + m) /\ q[n + j] = r[j]
    OBVIOUS
  <2>1. n + j \in 1..(n + m) /\ ~(n + j <= n) /\ (n + j) - n = j
    OBVIOUS
  <2> QED BY <1>4, <2>1
<1>8. \A i \in 1..(n + m) : (i \in 1..n /\ q[i] = s[i]) \/ (i - n \in 1..m /\ q[i] = r[i - n])
  BY <1>4
<1>9. \A i \in 1..n : i \in 1..(n + m) /\ q[i] = s[i]
  BY <1>4
<1>10. DOMAIN s \subseteq DOMAIN q /\ \A i \in DOMAIN s : q[i] = s[i]
  BY <1>1, <1>5, <1>9
<1>11. \A j \in DOMAIN r : Len(s) + j \in DOMAIN q /\ q[Len(s) + j] = r[j]
  BY <1>1, <1>5, <1>7
<1>12. \A i \in DOMAIN q : \/ i \in DOMAIN s /\ q[i] = s[i]
                           \/ i - Len(s) \in DOMAIN r /\ q[i] = r[i - Len(s)]
  <2> SUFFICES ASSUME NEW i \in DOMAIN q
               PROVE  (i \in DOMAIN s /\ q[i] = s[i]) \/ (i - Len(s) \in DOMAIN r /\ q[i] = r[i - Len(s)])
    OBVIOUS
  <2>1. (i \in 1..n /\ q[i] = s[i]) \/ (i - n \in 1..m /\ q[i] = r[i - n])
    BY <1>5, <1>8
  <2> QED BY <1>1, <2>1
<1> QED BY <1>6, <1>10, <1>11, <1>12

(* The rows of a reversion are written, all or none. *)
LEMMA FinishReversionRev == ASSUME RevInv, NEW t \in Threads, FinishReversion(t) PROVE RevInv'
<1>1. Reverting(t) /\ req[t].pc = "rows" /\ Done(t) /\ UNCHANGED <<kafka, main, subm, pfms, lost>>
  BY ReverterIs DEF FinishReversion, At, Reverts, tables
<1>2. CASE UNCHANGED rev
  BY <1>1, <1>2, OverQuietly
<1>3. CASE rev' = rev \o req[t].rows
  <2>1. PICK s, rows, q : s = rev /\ rows = req[t].rows /\ q = rev'
    OBVIOUS
  <2>2. IsSeq(s) /\ IsSeq(rows) /\ q = s \o rows
    BY <1>1, <1>3, <2>1 DEF RevInv, RevOK, Reverting
  <2>3. DOMAIN s \subseteq DOMAIN q /\ \A i \in DOMAIN s : q[i] = s[i]
    BY <2>2, ConcatIs
  <2>4. \A i \in DOMAIN q : \/ i \in DOMAIN s /\ q[i] = s[i]
                            \/ i - Len(s) \in DOMAIN rows /\ q[i] = rows[i - Len(s)]
    BY <2>2, ConcatIs
  <2>5. IsSeq(rev')
    <3>1. IsSeq(q)
      BY <2>2, ConcatIs
    <3> QED BY <2>1, <3>1 DEF IsSeq
  <2>6. DOMAIN rev \subseteq DOMAIN rev' /\ \A i \in DOMAIN rev : rev'[i] = rev[i]
    BY <2>1, <2>3
  <2>7. \A i \in DOMAIN rev' : \/ i \in DOMAIN rev /\ rev'[i] = rev[i]
                               \/ i - Len(rev) \in DOMAIN rows /\ rev'[i] = rows[i - Len(rev)]
    BY <2>1, <2>4
  <2>8. NotedIds \subseteq NotedIds'
    BY <2>6 DEF NotedIds
  <2>9. UNCHANGED <<LoggedIds, ListedIds, BuiltIds>> /\ TakenIds' = TakenIds
    BY <1>1 DEF LoggedIds, ListedIds, BuiltIds, TakenIds
  <2>10. Stands
    BY <1>1, <2>8, <2>9 DEF Stands
  <2>11. \A x \in Threads : StillOwn(x)
    BY <2>9, SubmitterIs DEF StillOwn, Submitting, Sends
  <2>12. RequestsOK'
    BY <1>1, <2>10, <2>11, Over, StepOfOne
  <2>13. PfmsOK'
    BY <1>1, <2>10, PfmsRest
  <2>14. \A j \in DOMAIN rows : /\ DOMAIN rows[j] = RecordFields /\ rows[j].neg # "YES"
                                /\ rows[j].uid # 0 => rows[j].uid \in LoggedIds
                                /\ Tells(rows[j])
    BY <1>1, <2>1 DEF Reverting
  <2>15. ASSUME NEW r PROVE Tells(r) => Tells(r)'
    BY <1>1, <2>9 DEF Tells
  <2>16. ASSUME NEW i \in DOMAIN rev'
         PROVE  /\ DOMAIN rev'[i] = RecordFields
                /\ rev'[i].uid # 0 => rev'[i].uid \in LoggedIds'
                /\ Tells(rev[i])'
                /\ rev'[i].neg = "YES" =>
                     /\ rev'[i].revuid \in DOMAIN pfms' \cap TakenIds'
                     /\ pfms'[rev'[i].revuid].of = rev'[i].uid
    <3>1. PICK r : r = rev'[i]
      OBVIOUS
    <3>2. CASE i \in DOMAIN rev /\ r = rev[i]
      <4>1. Tells(r)
        BY <3>2 DEF RevInv, RevOK
      <4>2. Tells(rev[i])'
        BY <1>1, <2>9, <3>1, <4>1 DEF Tells
      <4> QED BY <1>1, <2>9, <3>1, <3>2, <4>2 DEF RevInv, RevOK
    <3>3. CASE i - Len(rev) \in DOMAIN rows /\ r = rows[i - Len(rev)]
      <4>1. Tells(r)
        BY <2>14, <3>3
      <4>2. Tells(rev[i])'
        BY <1>1, <2>9, <3>1, <4>1 DEF Tells
      <4> QED BY <2>9, <2>14, <3>1, <3>3, <4>2
    <3> QED BY <2>7, <3>1, <3>2, <3>3
  <2>17. RevOK'
    BY <2>5, <2>16 DEF RevOK
  <2> QED BY <1>1, <2>10, <2>12, <2>13, <2>17, TablesRest, SubmRest DEF RevInv
<1> QED BY <1>2, <1>3 DEF FinishReversion, BulkInsertReversion

(* UpdateReversionAfterPfms names the reversal in the rows of its own identifier. *)
LEMMA MarkReversedRev == ASSUME RevInv, NEW t \in Threads, MarkReversed(t) PROVE RevInv'
<1>1. /\ Negating(t) /\ req[t].pc = "mark" /\ UNCHANGED <<kafka, main, subm, pfms>> /\ lost \subseteq lost'
      /\ req' = [req EXCEPT ![t].pc = "log"]
  BY NegatorIs DEF MarkReversed, At, Negates, tables
<1>2. PICK u, v : u = req[t].of /\ v = req[t].uid
  OBVIOUS
<1>3. /\ v \in DOMAIN pfms \ BuiltIds /\ v \in TakenIds /\ pfms[v].of = u /\ req[t].op = "negative"
      /\ u \in LoggedIds \cap NotedIds
  BY <1>1, <1>2 DEF Negating
<1>4. /\ Alone(t) /\ DOMAIN req'[t] = NegateFields /\ req'[t].pc = "log" /\ req'[t].op = "negative"
      /\ req'[t].of = u /\ req'[t].uid = v
  BY <1>1, <1>2, <1>3 DEF RevInv, RequestsOK, Alone, Negating, NegateFields
<1>5. /\ UNCHANGED <<LoggedIds, ListedIds, BuiltIds>> /\ TakenIds \subseteq TakenIds'
  BY <1>1, IdsRest
<1>6. /\ IsSeq(rev') /\ DOMAIN rev' = DOMAIN rev
      /\ \A i \in DOMAIN rev :
           /\ DOMAIN rev'[i] = RecordFields /\ rev'[i].uid = rev[i].uid /\ rev'[i].del = rev[i].del
           /\ \/ rev'[i].neg = rev[i].neg /\ rev'[i].revuid = rev[i].revuid
              \/ rev'[i].uid = u /\ rev'[i].revuid = v
  <2>1. CASE UNCHANGED rev
    BY <2>1 DEF RevInv, RevOK, IsSeq
  <2>2. CASE UpdateReversionAfterPfms(u, v)
    <3>1. rev' = [i \in DOMAIN rev |->
                    IF rev[i].uid = u THEN [rev[i] EXCEPT !.neg = "YES", !.revuid = v] ELSE rev[i]]
      BY <2>2 DEF UpdateReversionAfterPfms
    <3>2. PICK n \in Nat : DOMAIN rev = 1..n
      BY SequenceHas DEF RevInv, RevOK
    <3>3. rev' = [i \in 1..n |-> rev'[i]]
      BY <3>1, <3>2
    <3>4. IsSeq(rev')
      BY <3>3, SequenceIs
    <3> QED BY <3>1, <3>4 DEF RevInv, RevOK, RecordFields
  <2> QED BY <1>2, <2>1, <2>2 DEF MarkReversed
<1>7. NotedIds' = NotedIds
  BY <1>6 DEF NotedIds
<1>8. Stands /\ \A x \in Threads : StillOwn(x)
  BY <1>1, <1>5, <1>7, SubmitterIs DEF Stands, StillOwn, Submitting, Sends
<1>9. Negating(t)' /\ ~Sends(t)'
  BY <1>1, <1>3, <1>4, <1>5, <1>7 DEF Negating, Negates, Sends, Submits
<1>10. RequestsOK'
  BY <1>4, <1>8, <1>9, StepOfOne DEF Shape
<1>11. ASSUME NEW i \in DOMAIN rev
       PROVE  /\ Tells(rev[i])'
              /\ rev'[i].uid # 0 => rev'[i].uid \in LoggedIds'
              /\ rev'[i].neg = "YES" =>
                   /\ rev'[i].revuid \in DOMAIN pfms' \cap TakenIds'
                   /\ pfms'[rev'[i].revuid].of = rev'[i].uid
  <2>1. Tells(rev[i])'
    BY <1>1, <1>5, <1>6 DEF RevInv, RevOK, Tells
  <2> QED BY <1>1, <1>3, <1>5, <1>6, <2>1 DEF RevInv, RevOK
<1>12. RevOK'
  BY <1>6, <1>11 DEF RevOK
<1> QED BY <1>1, <1>8, <1>10, <1>12, TablesRest, PfmsRest, SubmRest DEF RevInv

(* The reversal among the submissions is none of a cash book. *)
LEMMA FinishNegativeRev == ASSUME RevInv, NEW t \in Threads, FinishNegative(t) PROVE RevInv'
<1>1. Negating(t) /\ Done(t) /\ UNCHANGED <<kafka, main, pfms, rev, lost>>
  BY NegatorIs DEF FinishNegative, At, Negates, rvars
<1>2. CASE UNCHANGED subm
  BY <1>1, <1>2, OverQuietly
<1>3. CASE InsertPfmsSubmissionNew(req[t].of, req[t].uid)
  <2>1. PICK row : row = Submission(req[t].uid, "cb_reversal", pfms[req[t].of].cbs, req[t].of)
    OBVIOUS
  <2>2. DOMAIN row = LogFields /\ row.type = "cb_reversal"
    BY <2>1 DEF Submission, LogFields
  <2>3. PICK s, q : s = subm /\ q = subm'
    OBVIOUS
  <2>4. q = Append(s, row) /\ IsSeq(s)
    BY <1>3, <2>1, <2>3 DEF InsertPfmsSubmissionNew, RevInv, SubmOK
  <2>5. IsSeq(q)
    BY <2>4, AppendIs
  <2>6. /\ DOMAIN q = DOMAIN s \cup {Len(s) + 1} /\ Len(s) + 1 \notin DOMAIN s
        /\ q[Len(s) + 1] = row /\ \A i \in DOMAIN s : q[i] = s[i]
    BY <2>4, AppendIs
  <2>7. IsSeq(subm')
    BY <2>3, <2>5
  <2>8. LoggedIds' = LoggedIds
    BY <2>2, <2>3, <2>6 DEF LoggedIds
  <2>9. SubmOK'
    BY <1>1, <2>2, <2>3, <2>6, <2>7 DEF RevInv, SubmOK
  <2>10. Stands /\ \A x \in Threads : StillOwn(x)
    BY <1>1, <2>8, IdsRest, SubmitterIs DEF Stands, StillOwn, Submitting, Sends
  <2>11. RequestsOK'
    BY <1>1, <2>10, Over, StepOfOne
  <2>12. PfmsOK'
    BY <1>1, <2>10, PfmsRest
  <2> QED BY <1>1, <2>9, <2>10, <2>11, <2>12, TablesRest, RevRest DEF RevInv
<1> QED BY <1>2, <1>3 DEF FinishNegative

--------------------------------------------------------------------------------
(* The whole *)

(* It holds before anything has arrived. *)
LEMMA InitRev == ReversionInit => RevInv
<1> SUFFICES ASSUME ReversionInit PROVE RevInv
  OBVIOUS
<1>1. TablesOK
  BY FS_EmptySet DEF ReversionInit, CashbookInit, TablesOK
<1>2. PfmsOK
  <2>1. DOMAIN pfms = 1..0
    BY DEF ReversionInit, CashbookInit
  <2> QED BY <2>1 DEF PfmsOK
<1>3. SubmOK /\ RevOK
  BY DEF ReversionInit, CashbookInit, SubmOK, RevOK, IsSeq
<1>4. RequestsOK
  BY DEF ReversionInit, CashbookInit, RequestsOK, Shape, Free, OwnEntry, Sends, Submits, Idle
<1> QED BY <1>1, <1>2, <1>3, <1>4 DEF RevInv

(* What happens outside the requests. *)
LEMMA OutsideRev == ASSUME RevInv, Outside, UNCHANGED rvars PROVE RevInv'
BY ArriveRev, ListingRev, PfmsRev, TickRev DEF Outside

(* Requests that begin. *)
LEMMA BeginRev == ASSUME RevInv, NEW t \in Threads, Begin(t), UNCHANGED rvars PROVE RevInv'
BY EnterRev, StartSubmissionRev, StartResubmissionRev, AskingRev DEF Begin, StartVerification, StartEmptyVerification

(* Requests that go on. *)
LEMMA ServeRev == ASSUME RevInv, NEW t \in Threads, Serve(t), UNCHANGED rvars PROVE RevInv'
BY VerifiedRev, TryStartSubmissionRev, BuildRev, LogInRev, AnswerOfRev, GetPfmsUpdateStatusRev, FinishRev, AskingRev,
   UpdateStatusInMainRev, UpdateStatusInSubmissionRev, StoppingRev
   DEF Serve, BuildPayload, RebuildPayload, Answered, ReAnswered, FinishSubmission, FinishResubmission

(* The revert handlers. *)
LEMMA RevertRev == ASSUME RevInv, NEW t \in Threads, Revert(t) PROVE RevInv'
BY StartReversionKeeps, CsvRowRev, SubaccountsDeletesRev, DeleteKafkaRev, DeleteDetailRev, DeleteMainRev, DeleteFailsRev,
   FinishReversionRev, ResubmitDayRev
   DEF Revert, StartCsvRow, StartResubmitRow

(* The negative entry. *)
LEMMA NegateRev == ASSUME RevInv, NEW t \in Threads, Negate(t) PROVE RevInv'
BY StartNegatingRev, SubmitPayloadToPfmsRev, NegativeAnsweredRev, MarkReversedRev, FinishNegativeRev DEF Negate

(* Every step keeps it, and so does a stutter. *)
LEMMA StepsRev == RevInv /\ [ReversionNext]_allvars => RevInv'
<1> SUFFICES ASSUME RevInv, [ReversionNext]_allvars PROVE RevInv'
  OBVIOUS
<1>1. CASE CashbookStep /\ UNCHANGED rvars
  BY <1>1, OutsideRev, BeginRev, ServeRev DEF CashbookStep
<1>2. ASSUME NEW t \in Threads, Revert(t) \/ Negate(t) \/ StopReversion(t) PROVE RevInv'
  BY <1>2, RevertRev, NegateRev, StoppingRev
<1>3. CASE UNCHANGED allvars
  <2>1. UNCHANGED <<kafka, main, subm, pfms, req, lost, rev>>
    BY <1>3 DEF allvars, vars, rvars
  <2>2. Stands /\ \A x \in Threads : StillOwn(x)
    BY <2>1, IdsRest, BooksOnly
  <2> QED BY <2>1, <2>2, StepOfNobody, TablesRest, PfmsRest, SubmRest, RevRest DEF RevInv
<1> QED BY <1>1, <1>2, <1>3 DEF ReversionNext

(* Whatever is reverted, submitted and negated at once: the submissions logged are entries *)
(* of PFMS, the rows of a reversion name logged submissions, and a row that says its      *)
(* deletion succeeded names no listed entry of one cash book.                              *)
THEOREM ReversionKeepsTrack == ReversionSpec => []RevInv
<1> QED BY InitRev, StepsRev, PTL DEF ReversionSpec

(* UpdateReversionAfterPfmsRepo writes YES only beside a reversal that was sent for that *)
(* very identifier, and that PFMS took unless its answer lacked isSuccess.               *)
THEOREM NegativesArePosted == ReversionSpec => []NegativeIsPosted
<1>1. RevInv => NegativeIsPosted
  <2> SUFFICES ASSUME RevInv, NEW i \in DOMAIN rev, rev[i].neg = "YES"
               PROVE  LET v == rev[i].revuid
                      IN  /\ v \in DOMAIN pfms /\ pfms[v].of = rev[i].uid
                          /\ Alive(v) \/ v \in lost \/ pfms[v].st = "Failed"
    BY DEF NegativeIsPosted
  <2>1. PICK v : v = rev[i].revuid
    OBVIOUS
  <2>2. v \in DOMAIN pfms \cap TakenIds /\ pfms[v].of = rev[i].uid
    BY <2>1 DEF RevInv, RevOK
  <2> QED BY <2>1, <2>2 DEF TakenIds, Alive
<1> QED BY <1>1, ReversionKeepsTrack, PTL

(* A listed cash book shown as booked has no booked reversal at PFMS, unless its entry has *)
(* other days too or a reversion of it failed to delete the row.                           *)
THEOREM ShownAreBooked == ReversionSpec => []ShownMeansBooked
<1>1. ASSUME RevInv, NEW b \in DOMAIN main, NEW u, u = main[b].uid, Cancelled(u)
      PROVE  Len(pfms[u].cbs) > 1 \/ \E i \in RowsOf(u) : rev[i].del = "FAILED"
  <2>1. u \in LoggedIds \cap NotedIds
    BY <1>1 DEF Cancelled, RevInv, PfmsOK
  <2>2. PICK j \in DOMAIN subm : subm[j].type = "cb" /\ subm[j].uid = u
    BY <2>1 DEF LoggedIds
  <2>3. u \in DOMAIN pfms /\ pfms[u].cbs \in Seq(Books) /\ pfms[u].cbs # << >> /\ u # 0
    BY <1>1, <2>2 DEF RevInv, SubmOK, PfmsOK
  <2>4. Len(pfms[u].cbs) = 1 \/ Len(pfms[u].cbs) > 1
    <3>1. PICK cbs : cbs = pfms[u].cbs
      OBVIOUS
    <3>2. cbs \in Seq(Books) /\ cbs # << >>
      BY <2>3, <3>1
    <3>3. Len(cbs) \in Nat /\ Len(cbs) # 0
      BY <3>2, EmptySeq, LenProperties
    <3>4. \A n \in Nat : n # 0 => n = 1 \/ n > 1
      OBVIOUS
    <3> QED BY <3>1, <3>3, <3>4
  <2>5. PICK i \in DOMAIN rev : rev[i].uid = u
    BY <2>1 DEF NotedIds
  <2>6. u \in ListedIds
    BY <1>1 DEF ListedIds
  <2>7. Len(pfms[u].cbs) = 1 => rev[i].del = "FAILED"
    BY <1>1, <2>3, <2>5, <2>6 DEF RevInv, RevOK, Tells
  <2> QED BY <2>4, <2>5, <2>7 DEF RowsOf
<1>2. RevInv => ShownMeansBooked
  <2> SUFFICES ASSUME RevInv, NEW b \in DOMAIN main, Cancelled(main[b].uid)
               PROVE  Len(pfms[main[b].uid].cbs) > 1 \/ \E i \in RowsOf(main[b].uid) : rev[i].del = "FAILED"
    BY DEF ShownMeansBooked
  <2>1. PICK u : u = main[b].uid
    OBVIOUS
  <2> QED BY <1>1, <2>1
<1> QED BY <1>2, ReversionKeepsTrack, PTL

--------------------------------------------------------------------------------
(***************************************************************************)
(* No logged entry is forgotten.  Two things can take an identifier from a *)
(* row: a deletion, which notes or names what it takes or loses it by one  *)
(* of its own faults, and another entry recorded over it.  The second      *)
(* happens only by a resubmission or by a submission whose list was        *)
(* outdated when it came: the cash book of a recorded entry is generated,  *)
(* so no list shows it as pending any more, and a submission of an earlier *)
(* list finds it leased for longer than it may wait for it.                *)
(***************************************************************************)

\* The cash books a submission has leased.
Leased(t) == Range(req[t].cbs) \ Range(req[t].left)

\* A submission that waits for a cash book will find it leased for as long as it may wait.
Doomed(t, b) ==
  req[t].pc = "lease" /\ b \in Range(req[t].left) /\ main[b].lease + req[t].age > DbLimit

\* No submission of a list that was pending writes another identifier into this row.
Secure(b) ==
  main[b].gen /\ \A t \in Threads : Holds(t) /\ ~req[t].late /\ b \in Range(req[t].cbs) => Doomed(t, b)

Clocked(t) ==
  /\ req[t].pc = "lease" <=> req[t].left # << >>
  /\ Range(req[t].left) \subseteq Range(req[t].cbs)
  /\ req[t].age <= StageLimit(t)
  /\ Leased(t) \ crossed \subseteq DOMAIN main
  /\ \A b \in Leased(t) \ crossed : main[b].lease + Since(t) >= Lease

\* A submission holds its leases until it has recorded its entry.
ClockInv ==
  /\ \A b \in DOMAIN main : main[b].lease \in Nat /\ main[b].gen \in BOOLEAN
  /\ \A t \in Threads : Submits(t) => req[t].age \in Nat /\ req[t].left \in Seq(Books)
  /\ \A t \in Threads : Holds(t) => Clocked(t)
  /\ \A t, s \in Threads : t # s /\ Holds(t) /\ Holds(s) => Leased(t) \cap Leased(s) \subseteq crossed

BySubmission(u) == pfms[u].by \in {"submit", "resubmit"}

\* A row names an entry of a submission, and one of a first submission stays there.
NamesInv ==
  /\ \A b \in DOMAIN main : main[b].uid # 0 => main[b].gen /\ BySubmission(main[b].uid)
  /\ \A b \in DOMAIN main \ crossed : main[b].uid # 0 /\ pfms[main[b].uid].by = "submit" => Secure(b)

\* A resubmission of a failed entry that has not recorded its own yet works on a row that
\* stays, or on the cash books of another resubmission.
Resubmits(t) ==
  req[t].op = "resubmit" /\ ~req[t].late /\ req[t].pc \in {"read", "login", "post", "record"}

Anchored(t) ==
  \/ Range(req[t].cbs) \cap crossed # {}
  \/ \E b \in Range(req[t].cbs) \cap DOMAIN main : Secure(b)
  \/ \E v \in DOMAIN pfms : /\ pfms[v].by = "resubmit" /\ Range(pfms[v].cbs) \cap Range(req[t].cbs) # {}
                            /\ Sends(t) => req[t].uid # v

SendersInv ==
  /\ \A t \in Threads : Sends(t) => pfms[req[t].uid].by = req[t].op /\ pfms[req[t].uid].late = req[t].late
  /\ \A t \in Threads : Resubmits(t) => Anchored(t)

\* Entries that are in pfms_main, or were: logged, or about to be.
Logs(t) == Submits(t) /\ req[t].pc = "log"
RecordedIds == LoggedIds \cup {req[t].uid : t \in {x \in Threads : Logs(x)}}

\* What a reversion has written down, will write down, or has lost.
Told == NotedIds \cup named \cup unsaved \cup UNION {Classified(t) : t \in {x \in Threads : At(x, "revert", "rows")}}

Traced(u) == u \in Told \/ \E c \in DOMAIN main : main[c].uid = u /\ Secure(c)

TraceInv ==
  \A u \in DOMAIN pfms :
    BySubmission(u) /\ u \in RecordedIds /\ Range(pfms[u].cbs) \cap crossed = {} /\ ~TakenOver(u) /\ ~Unlisted(u)
      => Traced(u)

\* What the rows of a reversion are filed under.
Filed(r) == r.ddo \in {b.ddo : b \in Books} /\ r.from \in Days
FiledInv ==
  /\ \A i \in DOMAIN rev : Filed(rev[i])
  /\ \A t \in Threads : Reverts(t) => \A i \in DOMAIN req[t].rows : Filed(req[t].rows[i])

FoundInv == ClockInv /\ NamesInv /\ SendersInv /\ TraceInv /\ FiledInv

--------------------------------------------------------------------------------
(* What a step leaves as it is, for that invariant *)

\* A row that stays keeps its lease; it stays generated; one that goes while it is submitted
\* is remembered.
LeasesLast == \A b \in DOMAIN main \cap DOMAIN main' : main'[b].lease = main[b].lease
GenLast == \A b \in DOMAIN main \cap DOMAIN main' : main[b].gen => main'[b].gen
RowsGone ==
  /\ crossed \subseteq crossed'
  /\ \A b \in DOMAIN main \ DOMAIN main' : \A t \in Threads : Submits(t) /\ b \in Range(req[t].cbs) => b \in crossed'

\* No row gets another name; the name of one that goes is told.
NamesLast == \A b \in DOMAIN main' : main'[b].uid = 0 \/ (b \in DOMAIN main /\ main'[b].uid = main[b].uid)
RowsNoted ==
  \A b \in DOMAIN main :
    main[b].uid = 0 \/ main[b].uid \in Told' \/ (b \in DOMAIN main' /\ main'[b].uid = main[b].uid)

EntriesLast ==
  \A u \in DOMAIN pfms :
    u \in DOMAIN pfms' /\ pfms'[u].by = pfms[u].by /\ pfms'[u].cbs = pfms[u].cbs /\ pfms'[u].late = pfms[u].late

RowsTyped == \A b \in DOMAIN main : main[b].lease \in Nat /\ main[b].gen \in BOOLEAN

SecureStay == \A b \in DOMAIN main \cap DOMAIN main' : Secure(b) => Secure(b)'

\* A submission stands still or goes on to its next stage, with a new entry or with its own.
GoesOn(t) ==
  Submits(t)' =>
    \/ req'[t] = req[t]
    \/ /\ Submits(t) /\ req'[t].op = req[t].op /\ req'[t].cbs = req[t].cbs /\ req'[t].left = req[t].left
       /\ req'[t].late = req[t].late
       /\ req[t].pc \notin {"lease", "log"} /\ req'[t].pc # "lease" /\ req'[t].age \in Nat
       /\ Holds(t)' => req'[t].age <= StageLimit(t)' /\ Since(t)' \in Nat /\ Since(t)' >= Since(t)
       /\ Sends(t)' => /\ req'[t].uid \in DOMAIN pfms' /\ pfms'[req'[t].uid].by = req'[t].op
                       /\ pfms'[req'[t].uid].late = req'[t].late
                       /\ (Sends(t) /\ req'[t].uid = req[t].uid) \/ req'[t].uid \notin DOMAIN pfms

(* How long a submission has held its leases is a number. *)
LEMMA SinceIs == ASSUME NEW t \in Threads, Holds(t), req[t].age \in Nat PROVE Since(t) \in Nat
<1>1. DbLimit \in Nat /\ CallLimit \in Nat
  BY CashbookAssumption
<1>2. CASE req[t].pc \in {"lease", "read"}
  BY <1>2 DEF Since
<1>3. CASE req[t].pc = "login"
  BY <1>1, <1>3 DEF Since
<1>4. CASE req[t].pc = "post"
  BY <1>1, <1>4 DEF Since
<1>5. CASE req[t].pc = "record"
  BY <1>1, <1>5 DEF Since
<1> QED BY <1>2, <1>3, <1>4, <1>5 DEF Holds

(* And never longer than its stages last together. *)
LEMMA SinceIsBounded ==
  ASSUME ClockInv, NEW t \in Threads, Holds(t)
  PROVE  /\ Since(t) \in Nat /\ Since(t) <= 2 * DbLimit + 3 * CallLimit
         /\ req[t].age \in Nat /\ (req[t].pc \in {"lease", "read"} => req[t].age <= DbLimit)
<1>1. DbLimit \in Nat /\ CallLimit \in Nat
  BY CashbookAssumption
<1>2. req[t].age \in Nat /\ req[t].age <= StageLimit(t)
  BY DEF ClockInv, Clocked, Holds, Submits
<1>3. CASE req[t].pc \in {"lease", "read"}
  BY <1>1, <1>2, <1>3 DEF Since, StageLimit
<1>4. CASE req[t].pc = "login"
  BY <1>1, <1>2, <1>4 DEF Since, StageLimit
<1>5. CASE req[t].pc = "post"
  BY <1>1, <1>2, <1>5 DEF Since, StageLimit
<1>6. CASE req[t].pc = "record"
  BY <1>1, <1>2, <1>6 DEF Since, StageLimit
<1> QED BY <1>3, <1>4, <1>5, <1>6 DEF Holds

(* A submission that still holds its cash books held them before. *)
LEMMA HeldBefore ==
  ASSUME RevInv, ClockInv, NEW x \in Threads, GoesOn(x), Holds(x)'
  PROVE  /\ Holds(x) /\ Submits(x) /\ req'[x].cbs = req[x].cbs /\ req'[x].left = req[x].left
         /\ req'[x].late = req[x].late
         /\ req'[x].pc = "lease" <=> req[x].pc = "lease"
         /\ req'[x].age \in Nat /\ req'[x].age <= StageLimit(x)'
         /\ Since(x) \in Nat /\ Since(x)' \in Nat /\ Since(x)' >= Since(x)
         /\ req[x].pc = "lease" => req'[x] = req[x]
<1>1. Submits(x)'
  BY DEF Holds, Submits
<1>2. CASE req'[x] = req[x]
  <2>1. Holds(x) /\ Submits(x) /\ Since(x)' = Since(x) /\ StageLimit(x)' = StageLimit(x)
    BY <1>2 DEF Holds, Submits, Since, StageLimit
  <2>2. req[x].age \in Nat /\ req[x].age <= StageLimit(x)
    BY <2>1 DEF ClockInv, Clocked
  <2>3. Since(x) \in Nat
    BY <2>1, <2>2, SinceIs
  <2> QED BY <1>2, <2>1, <2>2, <2>3
<1>3. CASE req'[x] # req[x]
  <2>1. /\ Submits(x) /\ req'[x].op = req[x].op /\ req'[x].cbs = req[x].cbs /\ req'[x].left = req[x].left
        /\ req'[x].late = req[x].late
        /\ req[x].pc \notin {"lease", "log"} /\ req'[x].pc # "lease" /\ req'[x].age \in Nat
        /\ req'[x].age <= StageLimit(x)' /\ Since(x)' \in Nat /\ Since(x)' >= Since(x)
    BY <1>1, <1>3 DEF GoesOn
  <2>2. Submitting(x)
    BY <2>1, SubmitterIs
  <2>3. Holds(x)
    BY <2>1, <2>2 DEF Holds, Submitting
  <2>4. Since(x) \in Nat
    BY <2>1, <2>3, SinceIs DEF ClockInv
  <2> QED BY <2>1, <2>3, <2>4
<1> QED BY <1>2, <1>3

(* Leases go on while rows and stages do. *)
LEMMA ClockStands ==
  ASSUME RevInv, ClockInv, LeasesLast, RowsGone, RowsTyped', \A x \in Threads : GoesOn(x)
  PROVE  ClockInv'
<1>1. ASSUME NEW x \in Threads, Submits(x)'
      PROVE  req'[x].age \in Nat /\ req'[x].left \in Seq(Books)
  BY <1>1 DEF GoesOn, ClockInv, Submits
<1>2. ASSUME NEW x \in Threads, Holds(x)'
      PROVE  Clocked(x)'
  <2>1. /\ Holds(x) /\ Submits(x) /\ req'[x].cbs = req[x].cbs /\ req'[x].left = req[x].left
        /\ req'[x].pc = "lease" <=> req[x].pc = "lease"
        /\ req'[x].age <= StageLimit(x)'
        /\ Since(x) \in Nat /\ Since(x)' \in Nat /\ Since(x)' >= Since(x)
    BY <1>2, HeldBefore
  <2>2. Clocked(x)
    BY <2>1 DEF ClockInv
  <2>3. \A b \in Leased(x) \ crossed' : b \in DOMAIN main /\ b \in DOMAIN main'
    BY <2>1, <2>2 DEF Clocked, RowsGone, Leased
  <2>4. ASSUME NEW b \in Leased(x) \ crossed'
        PROVE  main'[b].lease + Since(x)' >= Lease
    <3>1. b \in Leased(x) \ crossed' /\ b \in Leased(x) \ crossed
      BY <2>4 DEF RowsGone
    <3>2. main[b].lease + Since(x) >= Lease /\ main'[b].lease = main[b].lease /\ main[b].lease \in Nat
      BY <2>2, <2>3, <3>1 DEF Clocked, LeasesLast, ClockInv
    <3> QED BY <2>1, <3>2, CashbookAssumption
  <2>5. Leased(x)' = Leased(x)
    BY <2>1 DEF Leased
  <2> QED BY <2>1, <2>2, <2>3, <2>4, <2>5 DEF Clocked
<1>3. ASSUME NEW x \in Threads, NEW y \in Threads, x # y, Holds(x)', Holds(y)'
      PROVE  Leased(x)' \cap Leased(y)' \subseteq crossed'
  <2>1. Holds(x) /\ Holds(y) /\ Leased(x)' = Leased(x) /\ Leased(y)' = Leased(y)
    BY <1>3, HeldBefore DEF Leased
  <2> QED BY <1>3, <2>1 DEF ClockInv, RowsGone
<1> QED BY <1>1, <1>2, <1>3 DEF ClockInv, RowsTyped

(* A row nobody will write over stays one. *)
LEMMA SecureStands ==
  ASSUME RevInv, ClockInv, LeasesLast, GenLast, \A x \in Threads : GoesOn(x)
  PROVE  SecureStay
<1> SUFFICES ASSUME NEW b \in DOMAIN main \cap DOMAIN main', Secure(b) PROVE Secure(b)'
  BY DEF SecureStay
<1>1. ASSUME NEW x \in Threads, Holds(x)', ~req'[x].late, b \in Range(req'[x].cbs)
      PROVE  Doomed(x, b)'
  <2>1. Holds(x) /\ ~req[x].late /\ b \in Range(req[x].cbs) /\ (req[x].pc = "lease" => req'[x] = req[x])
    BY <1>1, HeldBefore
  <2>2. Doomed(x, b)
    BY <2>1 DEF Secure
  <2> QED BY <2>1, <2>2 DEF Doomed, LeasesLast
<1> QED BY <1>1 DEF Secure, GenLast

(* Rows that get no other name. *)
LEMMA NamesStand ==
  ASSUME RevInv, NamesInv, SecureStay, GenLast, NamesLast, EntriesLast, crossed \subseteq crossed'
  PROVE  NamesInv'
<1>1. ASSUME NEW b \in DOMAIN main', main'[b].uid # 0
      PROVE  /\ b \in DOMAIN main /\ main'[b].uid = main[b].uid /\ main'[b].gen /\ BySubmission(main[b].uid)
             /\ pfms'[main[b].uid].by = pfms[main[b].uid].by
  <2>1. b \in DOMAIN main /\ main'[b].uid = main[b].uid /\ main[b].uid # 0
    BY <1>1 DEF NamesLast
  <2>2. main[b].uid \in DOMAIN pfms /\ main[b].gen /\ BySubmission(main[b].uid)
    BY <2>1 DEF RevInv, TablesOK, NamesInv
  <2> QED BY <2>1, <2>2 DEF GenLast, EntriesLast
<1>2. ASSUME NEW b \in DOMAIN main' \ crossed', main'[b].uid # 0, pfms'[main'[b].uid].by = "submit"
      PROVE  Secure(b)'
  <2>1. b \in DOMAIN main \ crossed /\ main[b].uid # 0 /\ pfms[main[b].uid].by = "submit"
    BY <1>1, <1>2
  <2> QED BY <1>2, <2>1 DEF NamesInv, SecureStay
<1> QED BY <1>1, <1>2 DEF NamesInv, BySubmission

(* What a submission sends is its own, and a resubmission stays where it was. *)
LEMMA SenderStands ==
  ASSUME RevInv, SendersInv, SecureStay, EntriesLast, RowsGone, NEW x \in Threads, GoesOn(x)
  PROVE  /\ Sends(x)' => pfms'[req'[x].uid].by = req'[x].op /\ pfms'[req'[x].uid].late = req'[x].late
         /\ Resubmits(x)' => Anchored(x)'
<1>1. ASSUME Sends(x)' PROVE pfms'[req'[x].uid].by = req'[x].op /\ pfms'[req'[x].uid].late = req'[x].late
  <2>1. CASE req'[x] = req[x]
    <3>1. Sends(x) /\ Submitting(x)
      BY <1>1, <2>1, SubmitterIs DEF Sends, Submits
    <3> QED BY <2>1, <3>1 DEF SendersInv, EntriesLast, Submitting
  <2> QED BY <1>1, <2>1 DEF GoesOn, Sends, Submits
<1>2. ASSUME Resubmits(x)' PROVE Anchored(x)'
  <2>1. Submits(x)'
    BY <1>2 DEF Resubmits, Submits
  <2>2. /\ Resubmits(x) /\ Submits(x) /\ req'[x].cbs = req[x].cbs
        /\ Sends(x)' => (Sends(x) /\ req'[x].uid = req[x].uid) \/ req'[x].uid \notin DOMAIN pfms
    <3>1. CASE req'[x] = req[x]
      BY <1>2, <2>1, <3>1 DEF Resubmits, Sends, Submits
    <3>2. CASE req'[x] # req[x]
      <4>1. /\ Submits(x) /\ req'[x].op = req[x].op /\ req'[x].cbs = req[x].cbs
            /\ req'[x].late = req[x].late /\ req[x].pc \notin {"lease", "log"}
        BY <2>1, <3>2 DEF GoesOn
      <4>2. Submitting(x)
        BY <4>1, SubmitterIs
      <4>3. Resubmits(x)
        BY <1>2, <4>1, <4>2 DEF Resubmits, Submitting
      <4>4. Sends(x)' => (Sends(x) /\ req'[x].uid = req[x].uid) \/ req'[x].uid \notin DOMAIN pfms
        BY <2>1, <3>2 DEF GoesOn
      <4> QED BY <4>1, <4>3, <4>4
    <3> QED BY <3>1, <3>2
  <2>3. Anchored(x)
    BY <2>2 DEF SendersInv
  <2>4. CASE Range(req[x].cbs) \cap crossed # {}
    BY <2>2, <2>4 DEF Anchored, RowsGone
  <2>5. ASSUME NEW b \in Range(req[x].cbs) \cap DOMAIN main, Secure(b)
        PROVE  Anchored(x)'
    <3>1. CASE b \in DOMAIN main'
      BY <2>2, <2>5, <3>1 DEF Anchored, SecureStay
    <3>2. CASE b \notin DOMAIN main'
      BY <2>2, <2>5, <3>2 DEF Anchored, RowsGone
    <3> QED BY <3>1, <3>2
  <2>6. ASSUME NEW v \in DOMAIN pfms, pfms[v].by = "resubmit", Range(pfms[v].cbs) \cap Range(req[x].cbs) # {},
               Sends(x) => req[x].uid # v
        PROVE  Anchored(x)'
    <3>1. v \in DOMAIN pfms' /\ pfms'[v].by = "resubmit" /\ Range(pfms'[v].cbs) \cap Range(req'[x].cbs) # {}
      BY <2>2, <2>6 DEF EntriesLast
    <3>2. Sends(x)' => req'[x].uid # v
      BY <2>2, <2>6
    <3> QED BY <3>1, <3>2 DEF Anchored
  <2> QED BY <2>3, <2>4, <2>5, <2>6 DEF Anchored
<1> QED BY <1>1, <1>2

(* An identifier recorded is one of PFMS. *)
LEMMA RecordedAreEntries == ASSUME RevInv PROVE RecordedIds \subseteq DOMAIN pfms
<1>1. LoggedIds \subseteq DOMAIN pfms
  BY LoggedAreEntries DEF RevInv
<1>2. ASSUME NEW x \in Threads, Logs(x) PROVE req[x].uid \in DOMAIN pfms
  BY <1>2, SubmitterIs DEF Logs, Sends, Submitting
<1> QED BY <1>1, <1>2 DEF RecordedIds

(* What was told stays told, and a row that names it stays or is told. *)
LEMMA TraceStands ==
  ASSUME RevInv, TraceInv, SecureStay, EntriesLast, RowsNoted, crossed \subseteq crossed',
         RecordedIds' \subseteq RecordedIds, Told \subseteq Told'
  PROVE  TraceInv'
<1> SUFFICES ASSUME NEW u \in DOMAIN pfms', BySubmission(u)', u \in RecordedIds',
                    Range(pfms'[u].cbs) \cap crossed' = {}, ~TakenOver(u)', ~Unlisted(u)'
             PROVE  Traced(u)'
  BY DEF TraceInv
<1>1. u \in DOMAIN pfms /\ u \in RecordedIds
  BY RecordedAreEntries
<1>2. BySubmission(u) /\ Range(pfms[u].cbs) \cap crossed = {}
  BY <1>1 DEF BySubmission, EntriesLast
<1>3. ~TakenOver(u) /\ ~Unlisted(u)
  BY <1>1 DEF TakenOver, Unlisted, EntriesLast
<1>4. Traced(u)
  BY <1>1, <1>2, <1>3 DEF TraceInv
<1>5. u # 0
  BY <1>1 DEF RevInv, PfmsOK
<1>6. ASSUME NEW c \in DOMAIN main, main[c].uid = u, Secure(c)
      PROVE  Traced(u)'
  BY <1>5, <1>6 DEF RowsNoted, SecureStay, Traced
<1> QED BY <1>4, <1>6 DEF Traced

(* Whatever a step does to the requests that submit, the rest follows. *)
LEMMA FoundStands ==
  ASSUME RevInv, FoundInv, \A x \in Threads : GoesOn(x), LeasesLast, GenLast, RowsGone, RowsTyped',
         NamesLast, RowsNoted, EntriesLast, RecordedIds' \subseteq RecordedIds, Told \subseteq Told', FiledInv'
  PROVE  FoundInv'
<1>1. ClockInv' /\ SecureStay
  BY ClockStands, SecureStands DEF FoundInv
<1>2. SendersInv'
  BY <1>1, SenderStands DEF FoundInv, SendersInv
<1>3. NamesInv' /\ TraceInv'
  BY <1>1, NamesStand, TraceStands DEF FoundInv, RowsGone
<1> QED BY <1>1, <1>2, <1>3 DEF FoundInv

(* Tables that are not written. *)
LEMMA MainRests ==
  ASSUME RevInv, FoundInv, UNCHANGED main, crossed \subseteq crossed'
  PROVE  LeasesLast /\ GenLast /\ RowsGone /\ RowsTyped' /\ NamesLast /\ RowsNoted
BY DEF LeasesLast, GenLast, RowsGone, RowsTyped, NamesLast, RowsNoted, FoundInv, ClockInv

(* A step of one request over what is recorded and what is told. *)
LEMMA OthersRecord ==
  ASSUME RevInv, NEW t \in Threads, Alone(t), LoggedIds' \subseteq RecordedIds, Logs(t)' => Logs(t) /\ req'[t] = req[t]
  PROVE  RecordedIds' \subseteq RecordedIds
BY DEF RecordedIds, Alone, Logs, Submits

(* The rows another request has prepared are told. *)
LEMMA OthersTell ==
  ASSUME NEW t \in Threads, Alone(t), NotedIds \subseteq NotedIds', named \subseteq named', unsaved \subseteq unsaved',
         At(t, "revert", "rows") => Classified(t) \subseteq NotedIds' \cup unsaved'
  PROVE  Told \subseteq Told'
<1>1. ASSUME NEW x \in Threads, At(x, "revert", "rows")
      PROVE  Classified(x) \subseteq Told'
  <2>1. CASE x = t
    BY <1>1, <2>1 DEF Told
  <2>2. CASE x # t
    <3>1. req'[x] = req[x]
      BY <2>2 DEF Alone
    <3>2. At(x, "revert", "rows")' /\ Classified(x)' = Classified(x)
      BY <1>1, <3>1 DEF At, Classified
    <3> QED BY <3>2 DEF Told
  <2> QED BY <2>1, <2>2
<1> QED BY <1>1 DEF Told

(* The rows others have prepared are filed. *)
LEMMA OthersFile ==
  ASSUME FiledInv, NEW t \in Threads, Alone(t), \A i \in DOMAIN rev' : Filed(rev'[i]),
         Reverts(t)' => \A i \in DOMAIN req'[t].rows : Filed(req'[t].rows[i])
  PROVE  FiledInv'
<1>1. ASSUME NEW x \in Threads, Reverts(x)', NEW i \in DOMAIN req'[x].rows
      PROVE  Filed(req'[x].rows[i])
  <2>1. CASE x = t
    BY <1>1, <2>1
  <2>2. CASE x # t
    BY <1>1, <2>2 DEF Alone, FiledInv, Reverts, FromFile
  <2> QED BY <2>1, <2>2
<1> QED BY <1>1 DEF FiledInv, Filed

(* A step of one request that does not log. *)
LEMMA FoundOfOne ==
  ASSUME RevInv, FoundInv, NEW t \in Threads, Alone(t), GoesOn(t), ~Logs(t)', LoggedIds' \subseteq RecordedIds,
         LeasesLast, GenLast, RowsGone, RowsTyped', NamesLast, RowsNoted, EntriesLast, Told \subseteq Told',
         UNCHANGED rev, Reverts(t)' => \A i \in DOMAIN req'[t].rows : Filed(req'[t].rows[i])
  PROVE  FoundInv'
<1>1. \A x \in Threads : GoesOn(x)
  BY DEF Alone, GoesOn
<1>2. RecordedIds' \subseteq RecordedIds
  BY OthersRecord
<1>3. FiledInv'
  BY OthersFile DEF FoundInv, FiledInv
<1> QED BY <1>1, <1>2, <1>3, FoundStands

(* A step of one request over what the invariant does not speak of. *)
LEMMA FoundQuietly ==
  ASSUME RevInv, FoundInv, NEW t \in Threads, Alone(t), UNCHANGED <<main, pfms, LoggedIds, rev, named, crossed>>,
         unsaved \subseteq unsaved', ~Submits(t)', At(t, "revert", "rows") => Classified(t) \subseteq unsaved',
         Reverts(t)' => \A i \in DOMAIN req'[t].rows : Filed(req'[t].rows[i])
  PROVE  FoundInv'
<1>1. LeasesLast /\ GenLast /\ RowsGone /\ RowsTyped' /\ NamesLast /\ RowsNoted
  BY MainRests
<1>2. GoesOn(t) /\ ~Logs(t)' /\ EntriesLast /\ LoggedIds' \subseteq RecordedIds
  BY DEF GoesOn, Logs, EntriesLast, RecordedIds
<1>3. Told \subseteq Told'
  BY IdsRest, OthersTell
<1> QED BY <1>1, <1>2, <1>3, FoundOfOne

(* A step of no request over what the invariant does not speak of. *)
LEMMA FoundOfNobody ==
  ASSUME RevInv, FoundInv, UNCHANGED <<req, subm, rev, named, unsaved, crossed>>,
         LeasesLast, GenLast, RowsTyped', NamesLast, EntriesLast, DOMAIN main \subseteq DOMAIN main',
         \A b \in DOMAIN main : main'[b].uid = main[b].uid
  PROVE  FoundInv'
<1>1. \A x \in Threads : GoesOn(x)
  BY DEF GoesOn
<1>2. RowsGone /\ RowsNoted
  BY DEF RowsGone, RowsNoted
<1>3. RecordedIds' = RecordedIds
  BY IdsRest DEF RecordedIds, Logs, Submits
<1>4. Told' = Told
  BY IdsRest DEF Told, At, Classified
<1>5. FiledInv'
  BY DEF FoundInv, FiledInv, Reverts, FromFile
<1> QED BY <1>1, <1>2, <1>3, <1>4, <1>5, FoundStands

--------------------------------------------------------------------------------
(* Requests that write nothing of this *)

(* A request that ends. *)
LEMMA OverFound ==
  ASSUME RevInv, FoundInv, NEW t \in Threads, Done(t), UNCHANGED <<main, pfms, LoggedIds, rev, named, crossed>>,
         unsaved \subseteq unsaved', At(t, "revert", "rows") => Classified(t) \subseteq unsaved'
  PROVE  FoundInv'
<1>1. Alone(t) /\ ~Submits(t)' /\ ~Reverts(t)'
  BY Over DEF Submits, Reverts, FromFile, Idle
<1> QED BY <1>1, FoundQuietly

(* A verification handler, or one that asks PFMS, begins or goes on. *)
LEMMA ReadingFound ==
  ASSUME RevInv, FoundInv, NEW t \in Threads, NEW u, NEW b,
         StartVerification(t, b) \/ StartEmptyVerification(t, b) \/ AskStatus(t, u) \/ StartPoll(t) \/ PollAsks(t),
         UNCHANGED rvars
  PROVE  FoundInv'
<1>1. UNCHANGED <<main, pfms, subm, rev, named, unsaved, crossed>> /\ ~At(t, "revert", "rows")
  BY DEF StartVerification, StartEmptyVerification, Enter, AskStatus, StartPoll, PollAsks, Free, Idle, At, tables, rvars
<1>2. Alone(t) /\ req'[t].op \in {"verify", "verify_empty", "status", "poll"}
  <2>1. CASE StartVerification(t, b) \/ StartEmptyVerification(t, b)
    <3>1. PICK op \in {"verify", "verify_empty"} :
            req' = [req EXCEPT ![t] = [op |-> op, pc |-> "write", book |-> b, content |-> kafka[b]]]
      BY <2>1 DEF StartVerification, StartEmptyVerification, Enter
    <3> QED BY <3>1 DEF RevInv, RequestsOK, Alone
  <2>2. CASE AskStatus(t, u)
    BY <2>2 DEF AskStatus, RevInv, RequestsOK, Alone
  <2>3. CASE StartPoll(t)
    <3>1. PICK uids : req' = [req EXCEPT ![t] = [op |-> "poll", pc |-> "ask", uid |-> 0, flag |-> "none",
                                                 left |-> uids]]
      BY <2>3 DEF StartPoll
    <3> QED BY <3>1 DEF RevInv, RequestsOK, Alone
  <2>4. CASE PollAsks(t)
    <3>1. PICK v : v = Head(req[t].left)
      OBVIOUS
    <3>2. req' = [req EXCEPT ![t] = [op |-> "poll", pc |-> "main", uid |-> v, flag |-> pfms[v].st,
                                     left |-> Tail(@.left)]]
      BY <2>4, <3>1 DEF PollAsks
    <3> QED BY <3>2 DEF RevInv, RequestsOK, Alone
  <2> QED BY <2>1, <2>2, <2>3, <2>4
<1>3. ~Submits(t)' /\ ~Reverts(t)'
  BY <1>2 DEF Submits, Reverts, FromFile
<1> QED BY <1>1, <1>2, <1>3, IdsRest, FoundQuietly

(* A reversion that begins: its rows are filed under what the officer named. *)
LEMMA StartReversionFound ==
  ASSUME RevInv, FoundInv, NEW t \in Threads, NEW ddo \in {b.ddo : b \in Books}, NEW from \in Days,
         StartReversion(t, ddo, from)
  PROVE  FoundInv'
<1>1. PICK days \in OldestFirst(Swept(ddo, from)) :
        req' = [req EXCEPT ![t] =
          [op |-> "revert", pc |-> "ask", from |-> [ddo |-> ddo, day |-> from],
           rows |-> [i \in DOMAIN days |-> Classify(days[i], from)]]]
  BY DEF StartReversion
<1>2. PICK rows : rows = [i \in DOMAIN days |-> Classify(days[i], from)]
  OBVIOUS
<1>3. Alone(t) /\ req'[t] = [op |-> "revert", pc |-> "ask", from |-> [ddo |-> ddo, day |-> from], rows |-> rows]
  BY <1>1, <1>2 DEF RevInv, RequestsOK, Alone
<1>4. ASSUME NEW b, NEW r, r = Classify(b, from)
      PROVE  r.ddo = b.ddo /\ r.from = from
  <2>1. PICK none : none = [ddo |-> b.ddo, from |-> from, day |-> b.day, type |-> "local_only", uid |-> 0,
                            neg |-> "", del |-> "", revuid |-> 0]
    OBVIOUS
  <2>2. PICK v : v = subm[Max(SubmissionsOf(b))].uid
    OBVIOUS
  <2>3. \/ r = none
        \/ r = [none EXCEPT !.type = "with_pfms", !.uid = v, !.neg = "NO"]
        \/ r = [none EXCEPT !.type = "with_pfms", !.uid = v, !.neg = "WAIT"]
        \/ r = [none EXCEPT !.uid = v]
    BY <1>4, <2>1, <2>2 DEF Classify
  <2>4. DOMAIN none = RecordFields /\ none.ddo = b.ddo /\ none.from = from
    BY <2>1 DEF RecordFields
  <2>5. r.ddo = none.ddo /\ r.from = none.from
    BY <2>3, <2>4 DEF RecordFields
  <2> QED BY <2>4, <2>5
<1>5. ASSUME NEW i \in DOMAIN rows
      PROVE  Filed(rows[i])
  <2>1. days[i] \in Swept(ddo, from) /\ rows[i] = Classify(days[i], from)
    BY <1>2, <1>5 DEF OldestFirst
  <2>2. days[i].ddo = ddo
    BY <2>1 DEF Swept
  <2> QED BY <1>4, <2>1, <2>2 DEF Filed
<1>6. UNCHANGED <<main, pfms, subm, rev, named, unsaved, crossed>> /\ ~At(t, "revert", "rows")
  BY DEF StartReversion, tables, Free, Idle, At
<1>7. ~Submits(t)'
  BY <1>3 DEF Submits
<1> QED BY <1>3, <1>5, <1>6, <1>7, IdsRest, FoundQuietly

(* The CSV handlers have no rows. *)
LEMMA CsvRowFound ==
  ASSUME RevInv, FoundInv, NEW t \in Threads, NEW op \in {"csv", "csv_again"}, NEW ddo, NEW from, CsvRow(t, op, ddo, from)
  PROVE  FoundInv'
<1>1. Alone(t) /\ req'[t] = [op |-> op, pc |-> "ask", from |-> [ddo |-> ddo, day |-> from], rows |-> << >>]
  BY DEF CsvRow, RevInv, RequestsOK, Alone
<1>2. UNCHANGED <<main, pfms, subm, rev, named, unsaved, crossed>> /\ ~At(t, "revert", "rows") /\ ~Submits(t)'
  BY <1>1 DEF CsvRow, tables, Free, Idle, At, Submits
<1> QED BY <1>1, <1>2, IdsRest, FoundQuietly

(* A reversion goes on to its next statement with the rows it has. *)
LEMMA RevertingFound ==
  ASSUME RevInv, FoundInv, NEW t \in Threads, Reverts(t), NEW pc \in {"kafka", "detail", "main", "again"},
         req' = [req EXCEPT ![t].pc = pc], UNCHANGED <<main, pfms, subm, rev, named, unsaved, crossed>>, req[t].pc # "rows"
  PROVE  FoundInv'
<1>1. Alone(t) /\ Reverting(t)' /\ req'[t].rows = req[t].rows
  BY ReverterIs, RevertingGoesOn, IdsRest
<1>2. ~Submits(t)' /\ ~At(t, "revert", "rows")
  BY <1>1 DEF Reverting, Reverts, FromFile, Submits, At
<1> QED BY <1>1, <1>2, IdsRest, FoundQuietly DEF FoundInv, FiledInv

(* The statements of a reversion before the last. *)
LEMMA DeletingFound ==
  ASSUME RevInv, FoundInv, NEW t \in Threads, SubaccountsDeletes(t) \/ DeleteKafka(t) \/ DeleteDetail(t)
  PROVE  FoundInv'
<1>1. Reverts(t) /\ req[t].pc # "rows" /\ UNCHANGED <<main, pfms, subm, rev, named, unsaved, crossed>>
  BY DEF SubaccountsDeletes, DeleteKafka, DeleteDetail, At, Reverts, tables, rvars
<1>2. Done(t) \/ \E pc \in {"kafka", "detail", "main"} : req' = [req EXCEPT ![t].pc = pc]
  BY DEF SubaccountsDeletes, DeleteKafka, DeleteDetail
<1> QED BY <1>1, <1>2, IdsRest, OverFound, RevertingFound DEF At

(* A deletion that fails. *)
LEMMA DeleteFailsFound == ASSUME RevInv, FoundInv, NEW t \in Threads, DeleteFails(t) PROVE FoundInv'
<1>1. /\ Reverting(t) /\ ~At(t, "revert", "rows")
      /\ UNCHANGED <<main, pfms, subm, rev, named, unsaved, crossed>>
  BY ReverterIs DEF DeleteFails, At, tables, rvars
<1>2. CASE FromFile(t)
  BY <1>1, <1>2, IdsRest, OverFound DEF DeleteFails
<1>3. CASE ~FromFile(t)
  <2>1. PICK rows : rows = [i \in DOMAIN req[t].rows |-> [req[t].rows[i] EXCEPT !.del = "FAILED"]]
    OBVIOUS
  <2>2. Alone(t) /\ req'[t].op = req[t].op /\ req'[t].rows = rows
    BY <1>1, <1>3, <2>1 DEF DeleteFails, RevInv, RequestsOK, Alone, Reverting, RevertFields
  <2>3. \A i \in DOMAIN rows : i \in DOMAIN req[t].rows /\ rows[i].ddo = req[t].rows[i].ddo
                                /\ rows[i].from = req[t].rows[i].from
    BY <1>1, <2>1 DEF Reverting, RecordFields
  <2>4. ~Submits(t)' /\ \A i \in DOMAIN rows : Filed(rows[i])
    BY <1>1, <2>2, <2>3 DEF Submits, Reverting, Reverts, FromFile, FoundInv, FiledInv, Filed
  <2> QED BY <1>1, <2>2, <2>4, IdsRest, FoundQuietly
<1> QED BY <1>2, <1>3

(* RevertResubmitCashbookHandler asks for the day again. *)
LEMMA ResubmitDayFound == ASSUME RevInv, FoundInv, NEW t \in Threads, ResubmitDay(t) PROVE FoundInv'
BY IdsRest, OverFound DEF ResubmitDay, rvars, At

(* A negative entry that begins or is answered. *)
LEMMA NegatingFound ==
  ASSUME RevInv, FoundInv, NEW t \in Threads, NEW u, StartNegative(t, u) \/ StartTest(t, u) \/ NegativeAnswered(t)
  PROVE  FoundInv'
<1>1. UNCHANGED <<main, pfms, subm, rev, named, unsaved, crossed>> /\ ~At(t, "revert", "rows")
  BY DEF StartNegative, StartTest, NegativeAnswered, Negates, Free, Idle, At, tables, rvars
<1>2. CASE Done(t)
  BY <1>1, <1>2, IdsRest, OverFound
<1>3. CASE ~Done(t)
  <2>1. \/ \E op \in {"negative", "test"} : req' = [req EXCEPT ![t] = [op |-> op, pc |-> "send", of |-> u, uid |-> 0]]
        \/ Negates(t) /\ req' = [req EXCEPT ![t].pc = "mark"]
    BY <1>3 DEF StartNegative, StartTest, NegativeAnswered
  <2>2. Alone(t) /\ req'[t].op \in {"negative", "test"}
    <3>1. CASE \E op \in {"negative", "test"} : req' = [req EXCEPT ![t] = [op |-> op, pc |-> "send", of |-> u, uid |-> 0]]
      BY <3>1 DEF RevInv, RequestsOK, Alone
    <3>2. CASE Negates(t) /\ req' = [req EXCEPT ![t].pc = "mark"]
      BY <3>2, NegatorIs DEF RevInv, RequestsOK, Alone, Negating, NegateFields, Negates
    <3> QED BY <2>1, <3>1, <3>2
  <2>3. ~Submits(t)' /\ ~Reverts(t)'
    BY <2>2 DEF Submits, Reverts, FromFile
  <2> QED BY <1>1, <2>2, <2>3, IdsRest, FoundQuietly
<1> QED BY <1>2, <1>3

(* Requests that stop: a reversion loses what it has read and not written. *)
LEMMA StoppingFound ==
  ASSUME RevInv, FoundInv, NEW t \in Threads, (Stop(t) /\ ~Reverts(t) /\ UNCHANGED rvars) \/ StopReversion(t)
  PROVE  FoundInv'
<1>1. Done(t) /\ UNCHANGED <<main, pfms, subm, rev, named, crossed>> /\ unsaved \subseteq unsaved'
  BY DEF Stop, StopReversion, tables, rvars
<1>2. At(t, "revert", "rows") => Classified(t) \subseteq unsaved'
  BY DEF Stop, StopReversion, At, Reverts
<1> QED BY <1>1, <1>2, IdsRest, OverFound

--------------------------------------------------------------------------------
(* Steps that write rows, but neither names nor leases *)

\* Rows keep their name and their lease, and stay generated.
RowsKept ==
  /\ DOMAIN main' = DOMAIN main
  /\ \A b \in DOMAIN main : /\ main'[b].uid = main[b].uid /\ main'[b].lease = main[b].lease
                            /\ main'[b].gen \in BOOLEAN /\ (main[b].gen => main'[b].gen)

(* Such a step of one request. *)
LEMMA RowsKeptFound ==
  ASSUME RevInv, FoundInv, NEW t \in Threads, Alone(t), RowsKept, ~Submits(t)', ~Reverts(t)',
         ~At(t, "revert", "rows"), UNCHANGED <<pfms, subm, rvars>>
  PROVE  FoundInv'
<1>0. LeasesLast /\ GenLast /\ NamesLast /\ RowsNoted
  BY DEF RowsKept, LeasesLast, GenLast, NamesLast, RowsNoted
<1>a. RowsGone
  BY DEF RowsKept, RowsGone, rvars
<1>b. RowsTyped'
  BY DEF RowsKept, RowsTyped, FoundInv, ClockInv
<1>1. LeasesLast /\ GenLast /\ RowsGone /\ RowsTyped' /\ NamesLast /\ RowsNoted
  BY <1>0, <1>a, <1>b
<1>2. GoesOn(t) /\ ~Logs(t)' /\ EntriesLast /\ LoggedIds' \subseteq RecordedIds
  BY IdsRest DEF GoesOn, Logs, EntriesLast, RecordedIds
<1>3. Told \subseteq Told'
  BY IdsRest, OthersTell DEF rvars
<1> QED BY <1>1, <1>2, <1>3, FoundOfOne DEF rvars

(* The verification of a cash book. *)
LEMMA VerifiedFound ==
  ASSUME RevInv, FoundInv, NEW t \in Threads, PostPfmsverified(t) \/ PostEmptyPfmsverified(t), UNCHANGED rvars
  PROVE  FoundInv'
<1>1. Done(t) /\ UNCHANGED <<subm, pfms>> /\ ~At(t, "revert", "rows")
  BY DEF PostPfmsverified, PostEmptyPfmsverified, At
<1>2. PICK b : b = req[t].book
  OBVIOUS
<1>3. ASSUME NEW row, row = Verified(b, req[t].content), b \in DOMAIN main
      PROVE  /\ DOMAIN row = MainFields /\ row.uid = main[b].uid /\ row.lease = main[b].lease
             /\ row.gen = main[b].gen
  BY <1>3 DEF Verified, RevInv, TablesOK, MainFields
<1>4. \A c \in DOMAIN main : DOMAIN main[c] = MainFields /\ main[c].gen \in BOOLEAN
  BY DEF RevInv, TablesOK, FoundInv, ClockInv
<1>5. RowsKept
  <2>1. CASE PostPfmsverified(t)
    <3>1. main' = main \/ (b \in DOMAIN main /\ main' = [main EXCEPT ![b] = Verified(b, req[t].content)])
      BY <1>2, <2>1 DEF PostPfmsverified
    <3> QED BY <1>3, <1>4, <3>1 DEF RowsKept
  <2>2. CASE PostEmptyPfmsverified(t)
    <3>1. PICK row : row = Verified(b, req[t].content)
      OBVIOUS
    <3>2. PICK zero : zero = (req[t].content.opening = 0 /\ req[t].content.closing = 0)
      OBVIOUS
    <3>3. \/ main' = main
          \/ b \in DOMAIN main /\ main' = [main EXCEPT ![b] = [row EXCEPT !.gen = @ \/ zero]]
      BY <1>2, <2>2, <3>1, <3>2 DEF PostEmptyPfmsverified
    <3>4. PICK new : new = [row EXCEPT !.gen = @ \/ zero]
      OBVIOUS
    <3>5. main' = main \/ (b \in DOMAIN main /\ main' = [main EXCEPT ![b] = new])
      BY <3>3, <3>4
    <3>6. ASSUME b \in DOMAIN main
          PROVE  /\ new.uid = main[b].uid /\ new.lease = main[b].lease
                 /\ new.gen \in BOOLEAN /\ (main[b].gen => new.gen)
      <4>1. DOMAIN row = MainFields /\ row.uid = main[b].uid /\ row.lease = main[b].lease /\ row.gen = main[b].gen
        BY <1>3, <3>1, <3>6
      <4>2. new.uid = row.uid /\ new.lease = row.lease /\ new.gen = (row.gen \/ zero)
        BY <3>4, <4>1 DEF MainFields
      <4>3. new.gen \in BOOLEAN
        BY <4>2
      <4>4. row.gen => new.gen
        BY <4>2
      <4> QED BY <4>1, <4>2, <4>3, <4>4
    <3> QED BY <1>4, <3>5, <3>6 DEF RowsKept
  <2> QED BY <2>1, <2>2
<1>6. Alone(t) /\ ~Submits(t)' /\ ~Reverts(t)'
  BY <1>1, Over DEF Submits, Reverts, FromFile, Idle
<1> QED BY <1>1, <1>5, <1>6, RowsKeptFound

(* The flag of a row. *)
LEMMA UpdateStatusInMainFound ==
  ASSUME RevInv, FoundInv, NEW t \in Threads, UpdateStatusInMain(t), UNCHANGED rvars
  PROVE  FoundInv'
<1>1. Following(t) /\ UNCHANGED <<subm, pfms>>
  BY FollowerIs DEF UpdateStatusInMain
<1>2. RowsKept
  BY DEF UpdateStatusInMain, RowsKept, RevInv, TablesOK, MainFields, FoundInv, ClockInv
<1>3. Alone(t) /\ req'[t].op = req[t].op
  BY <1>1 DEF UpdateStatusInMain, RevInv, RequestsOK, Alone, Following, FollowFields
<1>4. ~Submits(t)' /\ ~Reverts(t)' /\ ~At(t, "revert", "rows")
  BY <1>1, <1>3 DEF Following, Follows, Submits, Reverts, FromFile, At
<1> QED BY <1>1, <1>2, <1>3, <1>4, RowsKeptFound

(* UpdateDDOCashbookList adds rows without a name. *)
LEMMA ListingFound ==
  ASSUME RevInv, FoundInv, NEW from, NEW to, UpdateDDOCashbookList(from, to), UNCHANGED rvars
  PROVE  FoundInv'
<1>1. PICK missing : main' = [b \in DOMAIN main \cup missing |-> IF b \in DOMAIN main THEN main[b] ELSE NewRow]
  BY DEF UpdateDDOCashbookList, GetDDOlistupdate
<1>2. NewRow.uid = 0 /\ NewRow.lease \in Nat /\ NewRow.gen \in BOOLEAN
  BY DEF NewRow
<1>3. /\ DOMAIN main \subseteq DOMAIN main' /\ \A b \in DOMAIN main : main'[b] = main[b]
      /\ \A b \in DOMAIN main' : b \in DOMAIN main \/ main'[b] = NewRow
  BY <1>1
<1>4. LeasesLast /\ GenLast /\ NamesLast
  BY <1>2, <1>3 DEF LeasesLast, GenLast, NamesLast
<1>5. RowsTyped'
  BY <1>2, <1>3 DEF RowsTyped, FoundInv, ClockInv
<1>6. EntriesLast /\ UNCHANGED <<req, subm, rev, named, unsaved, crossed>>
  BY DEF UpdateDDOCashbookList, EntriesLast, rvars
<1> QED BY <1>3, <1>4, <1>5, <1>6, FoundOfNobody

(* A cash book that arrives, and what PFMS does with an entry. *)
LEMMA ElsewhereFound ==
  ASSUME RevInv, FoundInv, NEW b, NEW c, NEW u, Arrive(b, c) \/ PfmsTakes(u) \/ PfmsDecides(u), UNCHANGED rvars
  PROVE  FoundInv'
<1>1. UNCHANGED <<main, req, subm, rev, named, unsaved, crossed>>
  BY DEF Arrive, PfmsTakes, PfmsDecides, tables, rvars
<1>2. UNCHANGED pfms \/ \E st : pfms' = [pfms EXCEPT ![u].st = st]
  BY DEF Arrive, PfmsTakes, PfmsDecides
<1>3. EntriesLast
  BY <1>2 DEF EntriesLast, RevInv, PfmsOK, PfmsFields
<1>4. LeasesLast /\ GenLast /\ RowsTyped' /\ NamesLast
  BY <1>1, MainRests
<1> QED BY <1>1, <1>3, <1>4, FoundOfNobody

--------------------------------------------------------------------------------
(* Steps that add entries and log submissions *)

(* The next entry is none of those before. *)
LEMMA EntryIsNew ==
  ASSUME RevInv, NEW rec, pfms' = Put(pfms, NextUid, rec)
  PROVE  EntriesLast /\ NextUid \in DOMAIN pfms' /\ NextUid \notin DOMAIN pfms /\ pfms'[NextUid] = rec
<1>1. PICK v : v = NextUid
  OBVIOUS
<1>2. v \notin DOMAIN pfms
  BY <1>1, NextIsFree
<1>3. DOMAIN pfms' = DOMAIN pfms \cup {v} /\ pfms'[v] = rec /\ \A u \in DOMAIN pfms : pfms'[u] = pfms[u]
  BY <1>1, <1>2 DEF Put
<1> QED BY <1>1, <1>2, <1>3 DEF EntriesLast

(* The reversal is no entry of a submission. *)
LEMMA SubmitPayloadToPfmsFound ==
  ASSUME RevInv, FoundInv, NEW t \in Threads, SubmitPayloadToPfms(t)
  PROVE  FoundInv'
<1>1. Negating(t) /\ UNCHANGED <<main, subm, rev, named, unsaved, crossed>>
  BY NegatorIs DEF SubmitPayloadToPfms, tables, rvars
<1>2. PICK rec : pfms' = Put(pfms, NextUid, rec)
  BY DEF SubmitPayloadToPfms
<1>3. EntriesLast
  BY <1>2, EntryIsNew
<1>4. Alone(t) /\ req'[t].op = req[t].op
  BY <1>1 DEF SubmitPayloadToPfms, RevInv, RequestsOK, Alone, Negating, NegateFields
<1>5. ~Submits(t)' /\ ~Reverts(t)' /\ ~At(t, "revert", "rows")
  BY <1>1, <1>4 DEF Negating, Negates, Submits, Reverts, FromFile, At
<1>6. GoesOn(t) /\ ~Logs(t)' /\ LoggedIds' \subseteq RecordedIds
  BY <1>1, <1>5, IdsRest DEF GoesOn, Logs, RecordedIds
<1>7. Told \subseteq Told'
  BY <1>1, <1>4, <1>5, IdsRest, OthersTell
<1>8. LeasesLast /\ GenLast /\ RowsGone /\ RowsTyped' /\ NamesLast /\ RowsNoted
  BY <1>1, MainRests
<1> QED BY <1>1, <1>3, <1>4, <1>5, <1>6, <1>7, <1>8, FoundOfOne

(* A request that ends with a row more among the submissions. *)
LEMMA LoggedFound ==
  ASSUME RevInv, FoundInv, NEW t \in Threads, Done(t), UNCHANGED <<main, pfms, rvars>>, ~Reverts(t),
         LoggedIds' \subseteq RecordedIds
  PROVE  FoundInv'
<1>1. Alone(t) /\ ~Submits(t)' /\ ~Reverts(t)' /\ ~At(t, "revert", "rows")
  BY Over DEF Submits, Reverts, FromFile, Idle, At
<1>2. GoesOn(t) /\ ~Logs(t)' /\ EntriesLast
  BY <1>1 DEF GoesOn, Logs, EntriesLast
<1>3. Told \subseteq Told'
  BY <1>1, IdsRest, OthersTell DEF rvars
<1>4. LeasesLast /\ GenLast /\ RowsGone /\ RowsTyped' /\ NamesLast /\ RowsNoted
  BY MainRests DEF rvars
<1> QED BY <1>1, <1>2, <1>3, <1>4, FoundOfOne DEF rvars

(* InsertPfmsSubmission logs what was recorded. *)
LEMMA FinishFound ==
  ASSUME RevInv, FoundInv, NEW t \in Threads, NEW op \in {"submit", "resubmit"}, Finish(t, op), UNCHANGED rvars
  PROVE  FoundInv'
<1>1. Logs(t) /\ Done(t) /\ UNCHANGED <<main, pfms>> /\ ~Reverts(t)
  BY DEF Finish, At, Logs, Submits, Reverts, FromFile
<1>2. LoggedIds' \subseteq LoggedIds \cup {req[t].uid}
  <2>1. CASE UNCHANGED subm
    BY <2>1, IdsRest
  <2>2. CASE InsertPfmsSubmission(t)
    <3>1. PICK s, q, row : /\ s = subm /\ q = subm' /\ row = Submission(req[t].uid, "cb", req[t].cbs, 0)
      OBVIOUS
    <3>2. q = Append(s, row) /\ IsSeq(s) /\ row.uid = req[t].uid
      BY <2>2, <3>1 DEF InsertPfmsSubmission, Submission, RevInv, SubmOK
    <3>3. /\ DOMAIN q = DOMAIN s \cup {Len(s) + 1}
          /\ q[Len(s) + 1] = row /\ \A i \in DOMAIN s : q[i] = s[i]
      BY <3>2, AppendIs
    <3> QED BY <3>1, <3>2, <3>3 DEF LoggedIds
  <2> QED BY <2>1, <2>2 DEF Finish
<1>3. LoggedIds' \subseteq RecordedIds
  BY <1>1, <1>2 DEF RecordedIds
<1> QED BY <1>1, <1>3, LoggedFound

(* The reversal among the submissions is none of a cash book. *)
LEMMA FinishNegativeFound == ASSUME RevInv, FoundInv, NEW t \in Threads, FinishNegative(t) PROVE FoundInv'
<1>1. Done(t) /\ UNCHANGED <<main, pfms, rvars>> /\ ~Reverts(t)
  BY DEF FinishNegative, At, Reverts, FromFile
<1>2. LoggedIds' \subseteq RecordedIds
  <2>1. CASE UNCHANGED subm
    BY <2>1, IdsRest DEF RecordedIds
  <2>2. CASE InsertPfmsSubmissionNew(req[t].of, req[t].uid)
    <3>1. PICK s, q, row : /\ s = subm /\ q = subm'
                           /\ row = Submission(req[t].uid, "cb_reversal", pfms[req[t].of].cbs, req[t].of)
      OBVIOUS
    <3>2. q = Append(s, row) /\ IsSeq(s) /\ row.type = "cb_reversal"
      BY <2>2, <3>1 DEF InsertPfmsSubmissionNew, Submission, RevInv, SubmOK
    <3>3. /\ DOMAIN q = DOMAIN s \cup {Len(s) + 1}
          /\ q[Len(s) + 1] = row /\ \A i \in DOMAIN s : q[i] = s[i]
      BY <3>2, AppendIs
    <3> QED BY <3>1, <3>2, <3>3 DEF LoggedIds, RecordedIds
  <2> QED BY <2>1, <2>2 DEF FinishNegative
<1> QED BY <1>1, <1>2, LoggedFound

(* The answer PFMS gave, among the submissions. *)
LEMMA UpdateStatusInSubmissionFound ==
  ASSUME RevInv, FoundInv, NEW t \in Threads, UpdateStatusInSubmission(t), UNCHANGED rvars
  PROVE  FoundInv'
<1>1. Following(t) /\ UNCHANGED <<main, pfms>>
  BY FollowerIs DEF UpdateStatusInSubmission
<1>2. LoggedIds' = LoggedIds
  <2>1. DOMAIN subm' = DOMAIN subm
        /\ \A i \in DOMAIN subm : subm'[i].uid = subm[i].uid /\ subm'[i].type = subm[i].type
    BY DEF UpdateStatusInSubmission, RevInv, SubmOK, LogFields
  <2> QED BY <2>1 DEF LoggedIds
<1>3. Alone(t) /\ req'[t].op \in {"idle", req[t].op}
  <2>1. req' = [req EXCEPT ![t] = Idle] \/ req' = [req EXCEPT ![t] = [@ EXCEPT !.pc = "ask"]]
    BY DEF UpdateStatusInSubmission
  <2> QED BY <1>1, <2>1 DEF RevInv, RequestsOK, Alone, Following, FollowFields, Idle
<1>4. ~Submits(t)' /\ ~Reverts(t)' /\ ~At(t, "revert", "rows")
  BY <1>1, <1>3 DEF Following, Follows, Submits, Reverts, FromFile, At
<1> QED BY <1>1, <1>2, <1>3, <1>4, FoundQuietly DEF rvars

--------------------------------------------------------------------------------
(* Steps of a reversion that write *)

(* DeleteMain: what it takes from the rows it has read before, or names, or loses; and it *)
(* marks the cash books that are being submitted.                                         *)
LEMMA DeleteMainFound == ASSUME RevInv, FoundInv, NEW t \in Threads, DeleteMain(t) PROVE FoundInv'
<1>1. Reverting(t) /\ ~At(t, "revert", "rows") /\ UNCHANGED <<subm, pfms, rev>>
  BY ReverterIs DEF DeleteMain, At
<1>2. DOMAIN main' = DOMAIN main \ Below(t) /\ \A b \in DOMAIN main' : main'[b] = main[b]
  BY DEF DeleteMain, Restrict
<1>3. crossed' = crossed \cup {b \in Below(t) : \E x \in Threads : Submits(x) /\ b \in Range(req[x].cbs)}
  BY DEF DeleteMain
<1>4. LeasesLast /\ GenLast /\ NamesLast
  BY <1>2 DEF LeasesLast, GenLast, NamesLast
<1>5. RowsTyped'
  BY <1>2 DEF RowsTyped, FoundInv, ClockInv
<1>6. RowsGone
  BY <1>2, <1>3 DEF RowsGone
<1>7. EntriesLast /\ LoggedIds' \subseteq RecordedIds
  BY <1>1, IdsRest DEF EntriesLast, RecordedIds
<1>8. named \subseteq named' /\ unsaved \subseteq unsaved'
  BY DEF DeleteMain
<1>9. /\ Alone(t) /\ ~Submits(t)' /\ (Reverts(t)' => \A i \in DOMAIN req'[t].rows : Filed(req'[t].rows[i]))
      /\ Dropped(t) \subseteq Told'
  <2>1. CASE FromFile(t)
    <3>1. Dropped(t) \subseteq named' \cup unsaved'
      BY <2>1 DEF DeleteMain
    <3>2. CASE Done(t)
      BY <3>1, <3>2, Over DEF Submits, Reverts, FromFile, Idle, Told
    <3>3. CASE req' = [req EXCEPT ![t].pc = "again"]
      <4>1. Alone(t) /\ req'[t].op = req[t].op /\ req'[t].rows = req[t].rows
        BY <1>1, <3>3 DEF RevInv, RequestsOK, Alone, Reverting, RevertFields
      <4>2. ~Submits(t)' /\ (\A i \in DOMAIN req'[t].rows : Filed(req'[t].rows[i]))
        BY <1>1, <4>1 DEF Submits, Reverting, Reverts, FromFile, FoundInv, FiledInv
      <4> QED BY <3>1, <4>1, <4>2 DEF Told
    <3> QED BY <2>1, <3>2, <3>3 DEF DeleteMain
  <2>2. CASE ~FromFile(t)
    <3>1. PICK rows : rows = [i \in DOMAIN req[t].rows |-> [req[t].rows[i] EXCEPT !.del = "SUCCESS"]]
      OBVIOUS
    <3>2. Alone(t) /\ req'[t].op = "revert" /\ req'[t].pc = "rows" /\ req'[t].rows = rows
      BY <1>1, <2>2, <3>1 DEF DeleteMain, RevInv, RequestsOK, Alone, Reverting, Reverts, RevertFields
    <3>3. /\ DOMAIN rows = DOMAIN req[t].rows
          /\ \A i \in DOMAIN rows : /\ rows[i].ddo = req[t].rows[i].ddo /\ rows[i].from = req[t].rows[i].from
                                    /\ rows[i].uid = req[t].rows[i].uid
      BY <1>1, <3>1 DEF Reverting, RecordFields
    <3>4. ~Submits(t)' /\ (\A i \in DOMAIN rows : Filed(rows[i]))
      BY <1>1, <3>2, <3>3 DEF Submits, Reverting, FoundInv, FiledInv, Filed
    <3>5. Classified(t)' = Classified(t) /\ At(t, "revert", "rows")'
      BY <3>2, <3>3 DEF Classified, At
    <3>6. Classified(t) \subseteq Told'
      BY <3>5 DEF Told
    <3>7. Dropped(t) \subseteq Classified(t) \cup unsaved'
      BY <2>2 DEF DeleteMain
    <3> QED BY <3>2, <3>4, <3>6, <3>7 DEF Told
  <2> QED BY <2>1, <2>2
<1>10. RowsNoted
  BY <1>2, <1>9 DEF RowsNoted, Dropped
<1>11. Told \subseteq Told'
  BY <1>1, <1>8, <1>9, IdsRest, OthersTell
<1>12. GoesOn(t) /\ ~Logs(t)'
  BY <1>9 DEF GoesOn, Logs
<1> QED BY <1>1, <1>4, <1>5, <1>6, <1>7, <1>9, <1>10, <1>11, <1>12, FoundOfOne

(* A step of one request over the rows of reversions. *)
LEMMA NotedFound ==
  ASSUME RevInv, FoundInv, NEW t \in Threads, Alone(t), ~Submits(t)', ~Reverts(t)', Told \subseteq Told',
         UNCHANGED <<main, pfms, subm, crossed>>, \A i \in DOMAIN rev' : Filed(rev'[i])
  PROVE  FoundInv'
<1>1. LeasesLast /\ GenLast /\ RowsGone /\ RowsTyped' /\ NamesLast /\ RowsNoted
  BY MainRests
<1>2. EntriesLast /\ \A x \in Threads : GoesOn(x)
  BY DEF GoesOn, Alone, EntriesLast
<1>3. RecordedIds' \subseteq RecordedIds
  BY IdsRest, OthersRecord DEF RecordedIds, Logs
<1>4. FiledInv'
  BY OthersFile DEF FoundInv
<1> QED BY <1>1, <1>2, <1>3, <1>4, FoundStands

(* The rows of a reversion are written, or their identifiers are lost. *)
LEMMA FinishReversionFound == ASSUME RevInv, FoundInv, NEW t \in Threads, FinishReversion(t) PROVE FoundInv'
<1>1. Reverting(t) /\ Done(t) /\ UNCHANGED <<main, pfms, subm, named, crossed>>
  BY ReverterIs DEF FinishReversion, At, Reverts, tables
<1>2. CASE unsaved' = unsaved \cup Classified(t) /\ UNCHANGED rev
  BY <1>1, <1>2, IdsRest, OverFound
<1>3. CASE rev' = rev \o req[t].rows /\ UNCHANGED unsaved
  <2>1. PICK s, r, q : s = rev /\ r = req[t].rows /\ q = rev'
    OBVIOUS
  <2>2. IsSeq(s) /\ IsSeq(r) /\ q = s \o r
    BY <1>1, <1>3, <2>1 DEF RevInv, RevOK, Reverting
  <2>3. /\ DOMAIN s \subseteq DOMAIN q /\ \A i \in DOMAIN s : q[i] = s[i]
        /\ \A j \in DOMAIN r : Len(s) + j \in DOMAIN q /\ q[Len(s) + j] = r[j]
    BY <2>2, ConcatIs
  <2>4. \A i \in DOMAIN q : \/ i \in DOMAIN s /\ q[i] = s[i]
                            \/ i - Len(s) \in DOMAIN r /\ q[i] = r[i - Len(s)]
    BY <2>2, ConcatIs
  <2>5. NotedIds \subseteq NotedIds' /\ Classified(t) \subseteq NotedIds'
    BY <2>1, <2>3 DEF NotedIds, Classified
  <2>6. \A i \in DOMAIN rev' : Filed(rev'[i])
    BY <1>1, <2>1, <2>4 DEF FoundInv, FiledInv, Reverting
  <2>7. Alone(t) /\ ~Submits(t)' /\ ~Reverts(t)'
    BY <1>1, Over DEF Submits, Reverts, FromFile, Idle
  <2>8. Told \subseteq Told'
    BY <1>1, <1>3, <2>5, <2>7, OthersTell
  <2> QED BY <1>1, <2>6, <2>7, <2>8, NotedFound
<1> QED BY <1>2, <1>3 DEF FinishReversion, BulkInsertReversion

(* UpdateReversionAfterPfms leaves the identifiers of the rows. *)
LEMMA MarkReversedFound == ASSUME RevInv, FoundInv, NEW t \in Threads, MarkReversed(t) PROVE FoundInv'
<1>1. Negating(t) /\ UNCHANGED <<main, pfms, subm, named, unsaved, crossed>> /\ req' = [req EXCEPT ![t].pc = "log"]
  BY NegatorIs DEF MarkReversed, At, Negates, tables
<1>2. Alone(t) /\ req'[t].op = req[t].op
  BY <1>1 DEF RevInv, RequestsOK, Alone, Negating, NegateFields
<1>3. ~Submits(t)' /\ ~Reverts(t)' /\ ~At(t, "revert", "rows")
  BY <1>1, <1>2 DEF Negating, Negates, Submits, Reverts, FromFile, At
<1>4. DOMAIN rev' = DOMAIN rev
      /\ \A i \in DOMAIN rev : rev'[i].uid = rev[i].uid /\ rev'[i].ddo = rev[i].ddo /\ rev'[i].from = rev[i].from
  BY DEF MarkReversed, UpdateReversionAfterPfms, RevInv, RevOK, RecordFields
<1>5. NotedIds' = NotedIds
  BY <1>4 DEF NotedIds
<1>6. Told \subseteq Told'
  BY <1>1, <1>2, <1>3, <1>5, OthersTell
<1>7. \A i \in DOMAIN rev' : Filed(rev'[i])
  BY <1>4 DEF FoundInv, FiledInv, Filed
<1> QED BY <1>1, <1>2, <1>3, <1>6, <1>7, NotedFound

--------------------------------------------------------------------------------
(* Submissions that lease, build, send and record *)

(* A submission that goes on to its next stage, up to the answer. *)
LEMMA StageFound ==
  ASSUME RevInv, FoundInv, NEW t \in Threads, Submitting(t), Alone(t), UNCHANGED <<main, subm, rvars>>, EntriesLast,
         req'[t].op = req[t].op, req'[t].cbs = req[t].cbs, req'[t].left = req[t].left, req'[t].late = req[t].late,
         req'[t].age = 0,
         \/ req[t].pc = "read" /\ req'[t].pc = "login"
         \/ req[t].pc = "login" /\ req'[t].pc = "post"
         \/ req[t].pc = "post" /\ req'[t].pc = "record",
         req'[t].uid \in DOMAIN pfms', pfms'[req'[t].uid].by = req[t].op, pfms'[req'[t].uid].late = req[t].late,
         (Sends(t) /\ req'[t].uid = req[t].uid) \/ req'[t].uid \notin DOMAIN pfms
  PROVE  FoundInv'
<1>1. DbLimit \in Nat /\ CallLimit \in Nat
  BY CashbookAssumption
<1>2. ASSUME Holds(t)'
      PROVE  req'[t].age <= StageLimit(t)' /\ Since(t)' \in Nat /\ Since(t)' >= Since(t)
  <2>1. Holds(t)
    BY <1>2 DEF Holds
  <2>2. req[t].age \in Nat /\ req[t].age <= StageLimit(t)
    BY <2>1 DEF FoundInv, ClockInv, Clocked, Submitting
  <2>3. CASE req[t].pc = "read" /\ req'[t].pc = "login"
    BY <1>1, <2>2, <2>3 DEF Since, StageLimit
  <2>4. CASE req[t].pc = "login" /\ req'[t].pc = "post"
    BY <1>1, <2>2, <2>4 DEF Since, StageLimit
  <2>5. CASE req[t].pc = "post" /\ req'[t].pc = "record"
    BY <1>1, <2>2, <2>5 DEF Since, StageLimit
  <2> QED BY <2>3, <2>4, <2>5
<1>3. GoesOn(t)
  BY <1>2 DEF GoesOn, Submitting
<1>4. ~Logs(t)' /\ ~Reverts(t)' /\ ~At(t, "revert", "rows")
  BY DEF Logs, Submitting, Submits, Reverts, FromFile, At
<1>5. LeasesLast /\ GenLast /\ RowsGone /\ RowsTyped' /\ NamesLast /\ RowsNoted
  BY MainRests DEF rvars
<1>6. Told \subseteq Told' /\ LoggedIds' \subseteq RecordedIds
  BY <1>4, IdsRest, OthersTell DEF rvars, RecordedIds
<1> QED BY <1>3, <1>4, <1>5, <1>6, FoundOfOne DEF rvars

(* The payload of a submission or a resubmission. *)
LEMMA BuildFound ==
  ASSUME RevInv, FoundInv, NEW t \in Threads, NEW op \in {"submit", "resubmit"}, NEW refused, Build(t, op, refused),
         UNCHANGED rvars
  PROVE  FoundInv'
<1>1. Submitting(t) /\ req[t].pc = "read" /\ req[t].op = op /\ UNCHANGED <<main, subm>> /\ ~At(t, "revert", "rows")
  BY SubmitterIs DEF Build, At, Submits, tables
<1>2. CASE refused
  BY <1>1, <1>2, IdsRest, OverFound DEF Build, rvars
<1>3. CASE ~refused
  <2>1. PICK rec : rec = [by |-> req[t].op, cbs |-> req[t].cbs, of |-> 0, st |-> "built",
             late |-> req[t].late,
              amount |-> [o \in DdoCodes |-> Net(Payload(GetPfmsJson(req[t].cbs), ClosingBalance(req[t].cbs)), o)]]
    OBVIOUS
  <2>2. /\ pfms' = Put(pfms, NextUid, rec)
        /\ req' = [req EXCEPT ![t].pc = "login", ![t].uid = NextUid, ![t].age = 0]
    BY <1>3, <2>1 DEF Build
  <2>3. EntriesLast /\ NextUid \in DOMAIN pfms' /\ NextUid \notin DOMAIN pfms /\ pfms'[NextUid] = rec
    BY <2>2, EntryIsNew
  <2>4. PICK v : v = NextUid
    OBVIOUS
  <2>5. rec.by = req[t].op /\ rec.late = req[t].late
    BY <2>1
  <2>6. /\ Alone(t) /\ req'[t].late = req[t].late /\ req'[t].pc = "login" /\ req'[t].op = req[t].op /\ req'[t].cbs = req[t].cbs
        /\ req'[t].left = req[t].left /\ req'[t].age = 0 /\ req'[t].uid = v
    BY <1>1, <2>2, <2>4 DEF RevInv, RequestsOK, Alone, Submitting, SubmitFields
  <2>7. v \in DOMAIN pfms' /\ v \notin DOMAIN pfms /\ pfms'[v].by = req[t].op /\ pfms'[v].late = req[t].late
    BY <2>3, <2>4, <2>5
  <2> QED BY <1>1, <2>3, <2>6, <2>7, StageFound
<1> QED BY <1>2, <1>3

(* The login. *)
LEMMA LogInFound == ASSUME RevInv, FoundInv, NEW t \in Threads, LogIn(t), UNCHANGED rvars PROVE FoundInv'
<1>1. Submitting(t) /\ Sends(t) /\ req[t].pc = "login" /\ UNCHANGED <<main, subm>>
  BY SubmitterIs DEF LogIn, Sends, tables
<1>2. PICK u : u = req[t].uid
  OBVIOUS
<1>3. u \in DOMAIN pfms /\ pfms[u].by = req[t].op /\ pfms[u].late = req[t].late
  BY <1>1, <1>2 DEF Submitting, FoundInv, SendersInv
<1>4. pfms' = [pfms EXCEPT ![u].st = "sent"]
  BY <1>2 DEF LogIn
<1>5. EntriesLast
  BY <1>4 DEF EntriesLast, RevInv, PfmsOK, PfmsFields
<1>6. /\ Alone(t) /\ req'[t].late = req[t].late /\ req'[t].pc = "post" /\ req'[t].op = req[t].op /\ req'[t].cbs = req[t].cbs
      /\ req'[t].left = req[t].left /\ req'[t].age = 0 /\ req'[t].uid = u
  BY <1>1, <1>2 DEF LogIn, Goto, RevInv, RequestsOK, Alone, Submitting, SubmitFields
<1>7. u \in DOMAIN pfms' /\ pfms'[u].by = req[t].op /\ pfms'[u].late = req[t].late
  BY <1>3, <1>5 DEF EntriesLast
<1> QED BY <1>1, <1>2, <1>5, <1>6, <1>7, StageFound

(* The answer. *)
LEMMA AnswerOfFound ==
  ASSUME RevInv, FoundInv, NEW t \in Threads, NEW op \in {"submit", "resubmit"}, AnswerOf(t, op), UNCHANGED rvars
  PROVE  FoundInv'
<1>1. Submitting(t) /\ Sends(t) /\ req[t].pc = "post" /\ UNCHANGED <<main, subm, pfms>> /\ ~At(t, "revert", "rows")
  BY SubmitterIs DEF AnswerOf, At, Submits, Sends, tables
<1>2. CASE Done(t)
  BY <1>1, <1>2, IdsRest, OverFound DEF rvars
<1>3. CASE Goto(t, "record")
  <2>1. /\ Alone(t) /\ req'[t].late = req[t].late /\ req'[t].pc = "record" /\ req'[t].op = req[t].op /\ req'[t].cbs = req[t].cbs
        /\ req'[t].left = req[t].left /\ req'[t].age = 0 /\ req'[t].uid = req[t].uid
    BY <1>1, <1>3 DEF Goto, RevInv, RequestsOK, Alone, Submitting, SubmitFields
  <2>2. EntriesLast /\ req[t].uid \in DOMAIN pfms /\ pfms[req[t].uid].by = req[t].op
        /\ pfms[req[t].uid].late = req[t].late
    BY <1>1 DEF EntriesLast, Submitting, FoundInv, SendersInv
  <2> QED BY <1>1, <2>1, <2>2, StageFound
<1> QED BY <1>2, <1>3 DEF AnswerOf

(* The leases after a step of one submission that has sent nothing yet. *)
LEMMA ClockOfOne ==
  ASSUME RevInv, ClockInv, NEW t \in Threads, Alone(t), UNCHANGED crossed, DOMAIN main' = DOMAIN main,
         \A b \in DOMAIN main : main'[b].lease \in Nat /\ main'[b].gen \in BOOLEAN /\ main'[b].lease >= main[b].lease,
         req'[t].age \in Nat, req'[t].left \in Seq(Books), Holds(t)' => Clocked(t)',
         \A x \in Threads : x # t /\ Holds(t)' /\ Holds(x) => Leased(t)' \cap Leased(x) \subseteq crossed
  PROVE  ClockInv'
<1>1. ASSUME NEW x \in Threads, Submits(x)' PROVE req'[x].age \in Nat /\ req'[x].left \in Seq(Books)
  BY <1>1 DEF Alone, ClockInv, Submits
<1>2. ASSUME NEW x \in Threads, x # t, Holds(x)'
      PROVE  Holds(x) /\ Leased(x)' = Leased(x) /\ Clocked(x)'
  <2>1. req'[x] = req[x]
    BY <1>2 DEF Alone
  <2>2. Holds(x) /\ Leased(x)' = Leased(x) /\ Since(x)' = Since(x) /\ StageLimit(x)' = StageLimit(x)
    BY <1>2, <2>1 DEF Holds, Leased, Since, StageLimit
  <2>3. Clocked(x) /\ Since(x) \in Nat
    BY <2>2, SinceIsBounded DEF ClockInv
  <2>4. ASSUME NEW b \in Leased(x) \ crossed
        PROVE  main'[b].lease + Since(x) >= Lease
    <3>1. b \in DOMAIN main /\ main[b].lease \in Nat /\ main[b].lease + Since(x) >= Lease
      BY <2>3, <2>4 DEF Clocked, Leased, ClockInv
    <3>2. main'[b].lease \in Nat /\ main'[b].lease >= main[b].lease
      BY <3>1
    <3> QED BY <2>3, <3>1, <3>2, CashbookAssumption
  <2> QED BY <2>1, <2>2, <2>3, <2>4 DEF Clocked
<1>3. ASSUME NEW x \in Threads, NEW y \in Threads, x # y, Holds(x)', Holds(y)'
      PROVE  Leased(x)' \cap Leased(y)' \subseteq crossed'
  <2>1. CASE x # t /\ y # t
    BY <1>2, <1>3, <2>1 DEF ClockInv
  <2>2. CASE x = t
    BY <1>2, <1>3, <2>2
  <2>3. CASE y = t
    BY <1>2, <1>3, <2>3
  <2> QED BY <2>1, <2>2, <2>3
<1>4. \A x \in Threads : Holds(x)' => Clocked(x)'
  BY <1>2
<1>5. \A b \in DOMAIN main' : main'[b].lease \in Nat /\ main'[b].gen \in BOOLEAN
  OBVIOUS
<1> QED BY <1>1, <1>3, <1>4, <1>5 DEF ClockInv

(* The rest, after such a step. *)
LEMMA UnsentFound ==
  ASSUME RevInv, FoundInv, NEW t \in Threads, Alone(t), UNCHANGED <<pfms, subm, rvars>>, ClockInv', SecureStay,
         GenLast, RowsGone, NamesLast, RowsNoted,
         ~At(t, "revert", "rows"), Submits(t)', ~Sends(t)', Resubmits(t)' => Anchored(t)'
  PROVE  FoundInv'
<1>1. EntriesLast /\ ~Logs(t)' /\ ~Reverts(t)' /\ \A x \in Threads : x # t => GoesOn(x)
  BY DEF EntriesLast, Logs, Sends, Submits, Reverts, FromFile, Alone, GoesOn
<1>2. SendersInv'
  <2>1. ASSUME NEW x \in Threads
        PROVE  /\ Sends(x)' => pfms'[req'[x].uid].by = req'[x].op /\ pfms'[req'[x].uid].late = req'[x].late
               /\ Resubmits(x)' => Anchored(x)'
    <3>1. CASE x = t
      BY <3>1
    <3>2. CASE x # t
      BY <1>1, <3>2, SenderStands DEF FoundInv
    <3> QED BY <3>1, <3>2
  <2> QED BY <2>1 DEF SendersInv
<1>3. NamesInv'
  BY <1>1, NamesStand DEF FoundInv, rvars
<1>4. RecordedIds' \subseteq RecordedIds /\ Told \subseteq Told'
  BY <1>1, IdsRest, OthersRecord, OthersTell DEF rvars, RecordedIds
<1>5. TraceInv'
  BY <1>1, <1>4, TraceStands DEF FoundInv, rvars
<1>6. FiledInv'
  BY <1>1, OthersFile DEF FoundInv, FiledInv, rvars
<1> QED BY <1>2, <1>3, <1>5, <1>6 DEF FoundInv

(* FetchPfmsHandler: a list of pending cash books has none that is generated. *)
LEMMA StartSubmissionFound ==
  ASSUME RevInv, FoundInv, NEW t \in Threads, NEW cbs \in Requests, StartSubmission(t, cbs), UNCHANGED rvars
  PROVE  FoundInv'
<1>0. PICK l : l = Outdated(cbs)
  OBVIOUS
<1>1. /\ Alone(t)
      /\ req'[t] = [op |-> "submit", pc |-> "lease", cbs |-> cbs, left |-> cbs, uid |-> 0, age |-> 0, late |-> l]
  BY <1>0 DEF StartSubmission, RevInv, RequestsOK, Alone
<1>2. UNCHANGED <<main, subm, pfms, crossed>> /\ ~At(t, "revert", "rows")
  BY DEF StartSubmission, tables, rvars, Free, Idle, At
<1>9. ASSUME ~l, NEW b \in Range(cbs), b \in DOMAIN main PROVE ~main[b].gen
  BY <1>0, <1>9 DEF Outdated, PfmsPending
<1>3. cbs \in Seq(Books) /\ cbs # << >> /\ DbLimit \in Nat
  BY CashbookAssumption
<1>4. Submits(t)' /\ ~Sends(t)' /\ ~Resubmits(t)' /\ Leased(t)' = {}
  BY <1>1 DEF Submits, Sends, Resubmits, Leased
<1>5. Clocked(t)'
  <2>1. StageLimit(t)' = DbLimit
    BY <1>1 DEF StageLimit
  <2> QED BY <1>1, <1>2, <1>3, <1>4, <2>1 DEF Clocked
<1>6. ClockInv'
  <2>1. \A b \in DOMAIN main : main'[b].lease \in Nat /\ main'[b].gen \in BOOLEAN /\ main'[b].lease >= main[b].lease
    BY <1>2 DEF FoundInv, ClockInv
  <2>2. req'[t].age \in Nat /\ req'[t].left \in Seq(Books)
    BY <1>1, <1>3
  <2> QED BY <1>1, <1>2, <1>4, <1>5, <2>1, <2>2, ClockOfOne DEF FoundInv
<1>7. SecureStay
  <2> SUFFICES ASSUME NEW b \in DOMAIN main, Secure(b), NEW x \in Threads, Holds(x)', ~req'[x].late,
                      b \in Range(req'[x].cbs)
               PROVE  Doomed(x, b)'
    BY <1>2 DEF SecureStay, Secure
  <2>1. CASE x = t
    BY <1>1, <1>9, <2>1 DEF Secure
  <2>2. CASE x # t
    BY <1>1, <1>2, <2>2 DEF Alone, Secure, Holds, Doomed
  <2> QED BY <2>1, <2>2
<1>8. GenLast /\ RowsGone /\ NamesLast /\ RowsNoted
  BY <1>2, MainRests
<1> QED BY <1>1, <1>2, <1>4, <1>6, <1>7, <1>8, UnsentFound

(* FetchPfmsReSubmissionHandler for a failed entry that is shown works on a row that names *)
(* it, which stays if the entry was a first submission's.                                   *)
LEMMA StartResubmissionFound ==
  ASSUME RevInv, FoundInv, NEW t \in Threads, NEW u, StartResubmission(t, u), UNCHANGED rvars
  PROVE  FoundInv'
<1>0. PICK l : l = \A b \in PfmsSubmissionStatus("Failed") : main[b].uid # u
  OBVIOUS
<1>1. PICK i \in GetCbRequestData(u) :
        req' = [req EXCEPT ![t] = [op |-> "resubmit", pc |-> "read", cbs |-> subm[i].cbs,
                                   left |-> << >>, uid |-> 0, age |-> 0, late |-> l]]
  BY <1>0 DEF StartResubmission
<1>2. /\ Alone(t)
      /\ req'[t] = [op |-> "resubmit", pc |-> "read", cbs |-> subm[i].cbs, left |-> << >>, uid |-> 0, age |-> 0,
                    late |-> l]
  BY <1>1 DEF RevInv, RequestsOK, Alone
<1>3. UNCHANGED <<main, subm, pfms, crossed>> /\ ~At(t, "revert", "rows")
  BY DEF StartResubmission, tables, rvars, Free, Idle, At
<1>4. Submits(t)' /\ ~Sends(t)' /\ ~Holds(t)'
  BY <1>2 DEF Submits, Sends, Holds
<1>5. ClockInv'
  <2>1. \A b \in DOMAIN main : main'[b].lease \in Nat /\ main'[b].gen \in BOOLEAN /\ main'[b].lease >= main[b].lease
    BY <1>3 DEF FoundInv, ClockInv
  <2>2. req'[t].age \in Nat /\ req'[t].left \in Seq(Books)
    BY <1>2
  <2> QED BY <1>2, <1>3, <1>4, <2>1, <2>2, ClockOfOne DEF FoundInv
<1>6. SecureStay
  BY <1>2, <1>3, <1>4 DEF SecureStay, Secure, Alone, Holds, Doomed
<1>7. ASSUME ~l PROVE Anchored(t)'
  <2>1. u \in DOMAIN pfms /\ u # 0 /\ subm[i].cbs = pfms[u].cbs
    BY DEF GetCbRequestData, RevInv, SubmOK, PfmsOK
  <2>2. PICK b \in DOMAIN main : main[b].uid = u
    BY <1>0, <1>7 DEF PfmsSubmissionStatus
  <2>3. b \in Range(pfms[u].cbs)
    BY <2>1, <2>2 DEF RevInv, TablesOK, InBook, Range
  <2>4. BySubmission(u)
    BY <2>1, <2>2 DEF FoundInv, NamesInv
  <2>5. CASE b \in crossed
    BY <1>2, <1>3, <2>1, <2>3, <2>5 DEF Anchored
  <2>6. CASE b \notin crossed /\ pfms[u].by = "submit"
    <3>1. Secure(b)'
      BY <1>3, <1>6, <2>1, <2>2, <2>6 DEF FoundInv, NamesInv, SecureStay
    <3> QED BY <1>2, <1>3, <2>1, <2>2, <2>3, <3>1 DEF Anchored
  <2>7. CASE pfms[u].by = "resubmit"
    BY <1>2, <1>3, <1>4, <2>1, <2>3, <2>7 DEF Anchored
  <2> QED BY <2>4, <2>5, <2>6, <2>7 DEF BySubmission
<1>8. GenLast /\ RowsGone /\ NamesLast /\ RowsNoted
  BY <1>3, MainRests
<1>9. Resubmits(t)' => ~l
  BY <1>2 DEF Resubmits
<1> QED BY <1>2, <1>3, <1>4, <1>5, <1>6, <1>7, <1>8, <1>9, UnsentFound

--------------------------------------------------------------------------------
(* The head of a sequence and what is behind it. *)
LEMMA HeadAndTail ==
  ASSUME NEW s \in Seq(Books), s # << >>
  PROVE  /\ Tail(s) \in Seq(Books) /\ Range(s) = {Head(s)} \cup Range(Tail(s))
         /\ Len(s) = 1 => Range(s) = {Head(s)}
         /\ Len(s) # 1 => Tail(s) # << >>
<1>1. PICK n \in Nat : n = Len(s) /\ DOMAIN s = 1..n /\ n # 0
  BY LenProperties, EmptySeq
<1>2. PICK r \in Seq(Books) : r = Tail(s) /\ Len(r) = n - 1 /\ Head(s) = s[1] /\ \A j \in 1..(n - 1) : r[j] = s[j + 1]
  <2>1. PICK r : r = Tail(s)
    OBVIOUS
  <2>2. r \in Seq(Books) /\ Len(r) = Len(s) - 1 /\ Head(s) = s[1] /\ \A j \in 1..Len(r) : r[j] = s[j + 1]
    BY <2>1, HeadTailProperties
  <2> QED BY <1>1, <2>1, <2>2
<1>3. DOMAIN r = 1..(n - 1)
  BY <1>2, LenProperties
<1>4. ASSUME NEW i \in 1..n, i # 1
      PROVE  s[i] \in Range(r)
  <2>1. i - 1 \in 1..(n - 1) /\ (i - 1) + 1 = i
    BY <1>4
  <2>2. r[i - 1] = s[i]
    BY <1>2, <2>1
  <2> QED BY <1>3, <2>1, <2>2 DEF Range
<1>5. ASSUME NEW j \in 1..(n - 1)
      PROVE  r[j] \in Range(s)
  <2>1. j + 1 \in 1..n
    OBVIOUS
  <2> QED BY <1>1, <1>2, <2>1 DEF Range
<1>6. Range(s) \subseteq {s[1]} \cup Range(r)
  BY <1>1, <1>4 DEF Range
<1>7. Range(r) \subseteq Range(s)
  BY <1>3, <1>5 DEF Range
<1>8. s[1] \in Range(s)
  BY <1>1 DEF Range
<1>9. n = 1 => Range(s) = {s[1]}
  BY <1>1 DEF Range
<1>10. n # 1 => r # << >>
  BY <1>2, EmptySeq
<1>11. Range(s) = {s[1]} \cup Range(r)
  BY <1>6, <1>7, <1>8
<1> QED BY <1>1, <1>2, <1>9, <1>10, <1>11

(* TryStartSubmission: who holds a cash book holds it for less time than its lease runs, so *)
(* one whose lease has run out is nobody's; and a submission does not wait for the end of a *)
(* lease that its wait cannot reach.                                                         *)
LEMMA TryStartSubmissionFound ==
  ASSUME LongerLease, RevInv, FoundInv, NEW t \in Threads, TryStartSubmission(t), UNCHANGED rvars
  PROVE  FoundInv'
<1>1. /\ Submitting(t) /\ req[t].op = "submit" /\ req[t].pc = "lease" /\ UNCHANGED <<subm, pfms, crossed>>
      /\ ~At(t, "revert", "rows")
  BY SubmitterIs DEF TryStartSubmission, At, Submits, rvars
<1>2. CASE Done(t) /\ UNCHANGED main
  BY <1>1, <1>2, IdsRest, OverFound DEF rvars
<1>3. CASE ~(Done(t) /\ UNCHANGED main)
  <2>1. PICK left \in Seq(Books) : left = req[t].left /\ left # << >>
    BY <1>1 DEF FoundInv, ClockInv, Clocked, Holds, Submits
  <2>2. PICK b : b = Head(left)
    OBVIOUS
  <2>3. /\ b \in DOMAIN main /\ main[b].lease = 0 /\ main' = [main EXCEPT ![b].lease = Lease]
        /\ req' = IF Len(left) = 1
                  THEN [req EXCEPT ![t].pc = "read", ![t].left = << >>]
                  ELSE [req EXCEPT ![t].left = Tail(@)]
    BY <1>3, <2>1, <2>2 DEF TryStartSubmission
  <2>4. /\ Alone(t) /\ req'[t].op = "submit" /\ req'[t].cbs = req[t].cbs /\ req'[t].age = req[t].age
        /\ req'[t].late = req[t].late
        /\ IF Len(left) = 1 THEN req'[t].pc = "read" /\ req'[t].left = << >>
           ELSE req'[t].pc = "lease" /\ req'[t].left = Tail(left)
    BY <1>1, <2>1, <2>3 DEF RevInv, RequestsOK, Alone, Submitting, SubmitFields
  <2>5. PICK rest \in Seq(Books) : /\ rest = req'[t].left /\ Range(left) = {b} \cup Range(rest)
                                   /\ req'[t].pc \in {"lease", "read"} /\ (req'[t].pc = "lease" <=> rest # << >>)
    <3>1. Tail(left) \in Seq(Books) /\ Range(left) = {b} \cup Range(Tail(left))
          /\ (Len(left) = 1 => Range(left) = {b}) /\ (Len(left) # 1 => Tail(left) # << >>)
      BY <2>1, <2>2, HeadAndTail
    <3>2. CASE Len(left) = 1
      <4>1. << >> \in Seq(Books) /\ Range(<< >>) = {}
        BY DEF Range
      <4> QED BY <2>4, <3>1, <3>2, <4>1
    <3>3. CASE Len(left) # 1
      BY <2>4, <3>1, <3>3
    <3> QED BY <3>2, <3>3
  <2>6. /\ DOMAIN main' = DOMAIN main /\ main'[b].lease = Lease
        /\ \A c \in DOMAIN main : /\ c # b => main'[c] = main[c]
                                  /\ main'[c].gen = main[c].gen /\ main'[c].uid = main[c].uid
    BY <2>3 DEF RevInv, TablesOK, MainFields
  <2>7. Lease \in Nat /\ DbLimit \in Nat /\ CallLimit \in Nat
    BY CashbookAssumption
  <2>8. \A c \in DOMAIN main : main[c].lease \in Nat /\ main[c].gen \in BOOLEAN
    BY DEF FoundInv, ClockInv
  <2>9. \A c \in DOMAIN main : main'[c].lease \in Nat /\ main'[c].gen \in BOOLEAN /\ main'[c].lease >= main[c].lease
    BY <2>3, <2>6, <2>7, <2>8
  <2>10. Holds(t) /\ Holds(t)' /\ Submits(t)' /\ ~Sends(t)' /\ ~Resubmits(t)'
    BY <1>1, <2>4, <2>5 DEF Holds, Submits, Sends, Resubmits
  <2>11. Clocked(t) /\ req[t].age \in Nat /\ req[t].age <= DbLimit
    BY <1>1, <2>10, SinceIsBounded DEF FoundInv, ClockInv
  <2>12. Since(t) = req[t].age /\ Since(t)' = req[t].age
    BY <1>1, <2>4, <2>5 DEF Since
  <2>13. Leased(t)' \subseteq Leased(t) \cup {b}
    BY <2>1, <2>4, <2>5 DEF Leased
  <2>14. Clocked(t)'
    <3>1. ASSUME NEW c \in Leased(t)' \ crossed
          PROVE  main'[c].lease + req[t].age >= Lease
      <4>1. CASE c = b
        BY <2>6, <2>7, <2>11, <4>1
      <4>2. CASE c # b
        <5>1. c \in Leased(t) \ crossed /\ c \in DOMAIN main
          BY <2>11, <2>13, <3>1, <4>2 DEF Clocked
        <5>2. main[c].lease + Since(t) >= Lease
          BY <2>11, <5>1 DEF Clocked
        <5> QED BY <2>6, <2>12, <4>2, <5>1, <5>2
      <4> QED BY <4>1, <4>2
    <3>2. StageLimit(t)' = DbLimit
      BY <2>5 DEF StageLimit
    <3>3. Range(rest) \subseteq Range(req[t].cbs) /\ Leased(t)' \ crossed \subseteq DOMAIN main
      BY <2>1, <2>3, <2>5, <2>11, <2>13 DEF Clocked
    <3> QED BY <1>1, <2>4, <2>5, <2>6, <2>11, <2>12, <3>1, <3>2, <3>3 DEF Clocked
  <2>15. ASSUME NEW x \in Threads, x # t, Holds(x)
         PROVE  Leased(t)' \cap Leased(x) \subseteq crossed
    <3>1. Since(x) \in Nat /\ Since(x) <= 2 * DbLimit + 3 * CallLimit /\ Clocked(x)
      BY <2>15, SinceIsBounded DEF FoundInv, ClockInv
    <3>2. ASSUME b \in Leased(x) \ crossed PROVE FALSE
      <4>1. main[b].lease + Since(x) >= Lease
        BY <3>1, <3>2 DEF Clocked
      <4> QED BY <2>3, <2>7, <3>1, <4>1 DEF LongerLease
    <3>3. Leased(t) \cap Leased(x) \subseteq crossed
      BY <2>10, <2>15 DEF FoundInv, ClockInv
    <3> QED BY <2>13, <3>2, <3>3
  <2>16. ClockInv'
    <3>1. req'[t].age \in Nat /\ req'[t].left \in Seq(Books)
      BY <2>4, <2>5, <2>11
    <3> QED BY <1>1, <2>4, <2>6, <2>9, <2>14, <2>15, <3>1, ClockOfOne DEF FoundInv
  <2>17. SecureStay
    <3> SUFFICES ASSUME NEW c \in DOMAIN main, Secure(c), NEW x \in Threads, Holds(x)', ~req'[x].late,
                        c \in Range(req'[x].cbs)
                 PROVE  Doomed(x, c)'
      BY <2>6 DEF SecureStay, Secure
    <3>1. CASE x = t
      <4>1. c \in Range(left) /\ main[c].lease + req[t].age > DbLimit
        BY <2>1, <2>4, <2>10, <3>1 DEF Secure, Doomed
      <4>2. c # b
        BY <2>3, <2>7, <2>11, <4>1
      <4>3. c \in Range(rest)
        BY <2>5, <4>1, <4>2
      <4>4. rest # << >>
        BY <4>3 DEF Range
      <4> QED BY <2>4, <2>5, <2>6, <3>1, <4>1, <4>2, <4>3, <4>4 DEF Doomed
    <3>2. CASE x # t
      <4>1. req'[x] = req[x] /\ Holds(x)
        BY <2>4, <3>2 DEF Alone, Holds
      <4>2. Doomed(x, c) /\ req[x].age \in Nat
        BY <4>1, SinceIsBounded DEF Secure, FoundInv
      <4>3. main'[c].lease + req[x].age > DbLimit
        <5>1. main[c].lease + req[x].age > DbLimit
          BY <4>2 DEF Doomed
        <5>2. main[c].lease \in Nat /\ main'[c].lease \in Nat /\ main'[c].lease >= main[c].lease
          BY <2>8, <2>9
        <5> QED BY <2>7, <4>2, <5>1, <5>2
      <4> QED BY <4>1, <4>2, <4>3 DEF Doomed
    <3> QED BY <3>1, <3>2
  <2>18. GenLast /\ RowsGone /\ NamesLast /\ RowsNoted
    BY <1>1, <2>6 DEF GenLast, RowsGone, NamesLast, RowsNoted
  <2> QED BY <1>1, <2>4, <2>10, <2>16, <2>17, <2>18, UnsentFound
<1> QED BY <1>2, <1>3

(* Time passes: a wait that cannot reach the end of a lease still cannot. *)
LEMMA TickFound == ASSUME RevInv, FoundInv, Tick, UNCHANGED rvars PROVE FoundInv'
<1>1. UNCHANGED <<subm, pfms, rev, named, unsaved, crossed>>
  BY DEF Tick, rvars
<1>2. Lease \in Nat /\ DbLimit \in Nat /\ CallLimit \in Nat
  BY CashbookAssumption
<1>3. main' = [b \in DOMAIN main |-> [main[b] EXCEPT !.lease = Max({0, @ - 1})]]
  BY DEF Tick
<1>4. DOMAIN main' = DOMAIN main
  BY <1>3
<1>5. ASSUME NEW b \in DOMAIN main
      PROVE  /\ main'[b].gen = main[b].gen /\ main'[b].uid = main[b].uid /\ main[b].gen \in BOOLEAN
             /\ main[b].lease \in Nat /\ main'[b].lease \in Nat /\ main'[b].lease + 1 >= main[b].lease
  <2>1. PICK n \in Nat : n = main[b].lease
    BY DEF FoundInv, ClockInv
  <2>2. Max({0, n - 1}) = IF n = 0 THEN 0 ELSE n - 1
    BY OneLess
  <2>3. DOMAIN main[b] = MainFields /\ main'[b] = [main[b] EXCEPT !.lease = Max({0, n - 1})]
    BY <1>3, <2>1 DEF RevInv, TablesOK
  <2>4. main'[b].lease = Max({0, n - 1}) /\ main'[b].gen = main[b].gen /\ main'[b].uid = main[b].uid
    BY <2>3 DEF MainFields
  <2>5. Max({0, n - 1}) \in Nat /\ Max({0, n - 1}) + 1 >= n
    BY <2>2
  <2> QED BY <2>1, <2>4, <2>5 DEF FoundInv, ClockInv
<1>6. ASSUME NEW x \in Threads, ~Submits(x) PROVE req'[x] = req[x]
  BY <1>6 DEF Tick
<1>7. ASSUME NEW x \in Threads, Submits(x)
      PROVE  /\ req'[x].op = req[x].op /\ req'[x].pc = req[x].pc /\ req'[x].cbs = req[x].cbs
             /\ req'[x].left = req[x].left /\ req'[x].uid = req[x].uid /\ req'[x].age = req[x].age + 1
             /\ req'[x].late = req[x].late
             /\ req[x].age < StageLimit(x) /\ req[x].age \in Nat /\ req[x].left \in Seq(Books)
  BY <1>7, SubmitterIs DEF Tick, Submitting, SubmitFields, FoundInv, ClockInv
<1>8. ASSUME NEW x \in Threads
      PROVE  /\ Submits(x)' <=> Submits(x)
             /\ Holds(x)' <=> Holds(x)
             /\ Sends(x)' <=> Sends(x)
             /\ Resubmits(x)' <=> Resubmits(x)
             /\ Logs(x)' <=> Logs(x)
  BY <1>6, <1>7 DEF Submits, Holds, Sends, Resubmits, Logs
<1>9. ASSUME NEW x \in Threads, Holds(x) PROVE Clocked(x)'
  <2>1. Submits(x)
    BY <1>9 DEF Holds, Submits
  <2>2. /\ req'[x].pc = req[x].pc /\ req'[x].cbs = req[x].cbs /\ req'[x].left = req[x].left
        /\ req'[x].age = req[x].age + 1 /\ req[x].age < StageLimit(x)
    BY <1>7, <2>1
  <2>3. Clocked(x) /\ Since(x) \in Nat /\ req[x].age \in Nat
    BY <1>9, SinceIsBounded DEF FoundInv, ClockInv
  <2>4. Since(x)' = Since(x) + 1 /\ StageLimit(x)' = StageLimit(x) /\ StageLimit(x) \in Nat
    <3>1. StageLimit(x)' = StageLimit(x) /\ StageLimit(x) \in Nat
      <4>1. CASE req[x].pc = "login"
        BY <1>2, <2>2, <4>1 DEF StageLimit
      <4>2. CASE req[x].pc = "post"
        BY <1>2, <2>2, <4>2 DEF StageLimit
      <4>3. CASE req[x].pc \notin {"login", "post"}
        BY <1>2, <2>2, <4>3 DEF StageLimit
      <4> QED BY <4>1, <4>2, <4>3
    <3>2. CASE req[x].pc \in {"lease", "read"}
      BY <2>2, <3>1, <3>2 DEF Since
    <3>3. CASE req[x].pc = "login"
      BY <1>2, <2>2, <2>3, <3>1, <3>3 DEF Since
    <3>4. CASE req[x].pc = "post"
      BY <1>2, <2>2, <2>3, <3>1, <3>4 DEF Since
    <3>5. CASE req[x].pc = "record"
      BY <1>2, <2>2, <2>3, <3>1, <3>5 DEF Since
    <3> QED BY <1>9, <3>2, <3>3, <3>4, <3>5 DEF Holds
  <2>5. ASSUME NEW b \in Leased(x) \ crossed
        PROVE  main'[b].lease + (Since(x) + 1) >= Lease
    <3>1. b \in DOMAIN main /\ main[b].lease + Since(x) >= Lease
      BY <2>3, <2>5 DEF Clocked
    <3> QED BY <1>2, <1>5, <2>3, <3>1
  <2>6. req[x].age + 1 <= StageLimit(x)
    BY <2>2, <2>3, <2>4
  <2>7. Leased(x)' = Leased(x)
    BY <2>2 DEF Leased
  <2> QED BY <1>1, <1>4, <2>2, <2>3, <2>4, <2>5, <2>6, <2>7 DEF Clocked
<1>10. ClockInv'
  <2>1. \A x \in Threads : Submits(x)' => req'[x].age \in Nat /\ req'[x].left \in Seq(Books)
    BY <1>7, <1>8
  <2>2. ASSUME NEW x \in Threads, Holds(x)' PROVE Leased(x)' = Leased(x) /\ Holds(x)
    BY <1>7, <1>8, <2>2 DEF Holds, Submits, Leased
  <2>3. \A x, y \in Threads : x # y /\ Holds(x)' /\ Holds(y)' => Leased(x)' \cap Leased(y)' \subseteq crossed'
    BY <1>1, <2>2 DEF FoundInv, ClockInv
  <2>4. \A b \in DOMAIN main' : main'[b].lease \in Nat /\ main'[b].gen \in BOOLEAN
    BY <1>4, <1>5
  <2>5. \A x \in Threads : Holds(x)' => Clocked(x)'
    BY <1>8, <1>9
  <2> QED BY <2>1, <2>3, <2>4, <2>5 DEF ClockInv
<1>11. SecureStay
  <2> SUFFICES ASSUME NEW c \in DOMAIN main, Secure(c), NEW x \in Threads, Holds(x)', ~req'[x].late,
                      c \in Range(req'[x].cbs)
               PROVE  Doomed(x, c)'
    BY <1>4, <1>5 DEF SecureStay, Secure
  <2>1. Holds(x) /\ Submits(x)
    BY <1>8 DEF Holds, Submits
  <2>2. /\ req'[x].pc = req[x].pc /\ req'[x].cbs = req[x].cbs /\ req'[x].left = req[x].left
        /\ req'[x].age = req[x].age + 1 /\ req[x].age \in Nat /\ req'[x].late = req[x].late
    BY <1>7, <2>1
  <2>3. Doomed(x, c)
    BY <2>1, <2>2 DEF Secure
  <2>4. main'[c].lease + (req[x].age + 1) > DbLimit
    BY <1>2, <1>5, <2>2, <2>3 DEF Doomed
  <2> QED BY <2>2, <2>3, <2>4 DEF Doomed
<1>12. GenLast /\ NamesLast /\ EntriesLast /\ RowsNoted
  BY <1>1, <1>4, <1>5 DEF GenLast, NamesLast, EntriesLast, RowsNoted
<1>13. NamesInv'
  BY <1>1, <1>11, <1>12, NamesStand DEF FoundInv
<1>14. SendersInv'
  <2>1. ASSUME NEW x \in Threads, Sends(x)'
        PROVE  pfms'[req'[x].uid].by = req'[x].op /\ pfms'[req'[x].uid].late = req'[x].late
    BY <1>1, <1>7, <1>8, <2>1 DEF FoundInv, SendersInv, Sends
  <2>2. ASSUME NEW x \in Threads, Resubmits(x)' PROVE Anchored(x)'
    <3>1. Resubmits(x) /\ Submits(x)
      BY <1>8, <2>2 DEF Resubmits, Submits
    <3>2. req'[x].cbs = req[x].cbs /\ req'[x].uid = req[x].uid /\ (Sends(x)' <=> Sends(x))
      BY <1>7, <1>8, <3>1
    <3>3. Anchored(x)
      BY <3>1 DEF FoundInv, SendersInv
    <3>4. \A b \in DOMAIN main : Secure(b) => Secure(b)'
      BY <1>4, <1>11 DEF SecureStay
    <3> QED BY <1>1, <1>4, <3>2, <3>3, <3>4 DEF Anchored
  <2> QED BY <2>1, <2>2 DEF SendersInv
<1>15. RecordedIds' = RecordedIds
  <2>1. \A x \in Threads : Logs(x) => req'[x].uid = req[x].uid
    BY <1>7 DEF Logs
  <2> QED BY <1>1, <1>8, <2>1, IdsRest DEF RecordedIds
<1>16. Told \subseteq Told'
  <2>1. ASSUME NEW x \in Threads, At(x, "revert", "rows")
        PROVE  Classified(x) \subseteq Told'
    <3>1. req'[x] = req[x]
      BY <1>6, <2>1 DEF At, Submits
    <3>2. At(x, "revert", "rows")' /\ Classified(x)' = Classified(x)
      BY <2>1, <3>1 DEF At, Classified
    <3> QED BY <3>2 DEF Told
  <2> QED BY <1>1, <2>1, IdsRest DEF Told
<1>17. TraceInv'
  BY <1>1, <1>11, <1>12, <1>15, <1>16, TraceStands DEF FoundInv
<1>18. FiledInv'
  <2>1. ASSUME NEW x \in Threads, Reverts(x)' PROVE req'[x] = req[x]
    BY <1>6, <1>7, <2>1 DEF Reverts, FromFile, Submits
  <2>2. \A x \in Threads : Reverts(x)' => Reverts(x) /\ req'[x] = req[x]
    BY <2>1 DEF Reverts, FromFile
  <2> QED BY <1>1, <2>2 DEF FoundInv, FiledInv, Filed
<1> QED BY <1>10, <1>13, <1>14, <1>17, <1>18 DEF FoundInv

--------------------------------------------------------------------------------
(* GetPfmsUpdateStatus writes a name over others.  A first submission writes over none that *)
(* is anybody's: it holds its cash books, and whoever else waits for one waits in vain.  A   *)
(* resubmission takes the entry over whose name it replaces.                                  *)
LEMMA RecordFound ==
  ASSUME LongerLease, RevInv, FoundInv, NEW t \in Threads, GetPfmsUpdateStatus(t), UNCHANGED rvars
  PROVE  FoundInv'
<1>1. Submitting(t) /\ Sends(t) /\ req[t].pc = "record" /\ UNCHANGED <<subm, pfms, rev, named, unsaved, crossed>>
  BY SubmitterIs DEF GetPfmsUpdateStatus, Sends, rvars
<1>2. PICK u : u = req[t].uid
  OBVIOUS
<1>3. PICK cbs \in Seq(Books) : cbs = req[t].cbs /\ cbs # << >>
  BY <1>1 DEF Submitting
<1>4. /\ u \in DOMAIN pfms /\ u # 0 /\ pfms[u].cbs = cbs /\ pfms[u].by = req[t].op /\ BySubmission(u)
      /\ pfms[u].late = req[t].late
  BY <1>1, <1>2, <1>3 DEF Submitting, Submits, FoundInv, SendersInv, BySubmission, RevInv, PfmsOK
<1>5. main' = [b \in DOMAIN main |-> IF b \in Range(cbs) THEN Recorded(main[b], u) ELSE main[b]]
  BY <1>2, <1>3 DEF GetPfmsUpdateStatus
<1>6. DOMAIN main' = DOMAIN main
  BY <1>5
<1>7. ASSUME NEW b \in DOMAIN main
      PROVE  /\ main'[b].lease = main[b].lease
             /\ b \in Range(cbs) => main'[b].uid = u /\ main'[b].gen = TRUE
             /\ b \notin Range(cbs) => main'[b] = main[b]
  BY <1>5 DEF Recorded, RevInv, TablesOK, MainFields
<1>8. /\ Alone(t) /\ req'[t].late = req[t].late /\ req'[t].pc = "log" /\ req'[t].op = req[t].op /\ req'[t].cbs = cbs
      /\ req'[t].left = req[t].left /\ req'[t].age = 0 /\ req'[t].uid = u
  BY <1>1, <1>2, <1>3 DEF GetPfmsUpdateStatus, Goto, RevInv, RequestsOK, Alone, Submitting, SubmitFields
<1>9. ~Holds(t)' /\ ~Reverts(t)' /\ ~At(t, "revert", "rows") /\ Submits(t)
  BY <1>1, <1>8 DEF Holds, Submitting, Submits, Reverts, FromFile, At
<1>10. \A x \in Threads : GoesOn(x)
  <2>1. GoesOn(t)
    BY <1>1, <1>2, <1>3, <1>4, <1>8, <1>9 DEF GoesOn
  <2>2. \A x \in Threads : x # t => GoesOn(x)
    BY <1>8 DEF Alone, GoesOn
  <2> QED BY <2>1, <2>2
<1>11. EntriesLast /\ LeasesLast /\ RowsGone
  BY <1>1, <1>6, <1>7 DEF EntriesLast, LeasesLast, RowsGone
<1>12. GenLast
  BY <1>6, <1>7 DEF GenLast
<1>13. RowsTyped'
  <2>1. \A b \in DOMAIN main : main[b].lease \in Nat /\ main[b].gen \in BOOLEAN
    BY DEF FoundInv, ClockInv
  <2>2. \A b \in DOMAIN main : main'[b].lease \in Nat /\ main'[b].gen \in BOOLEAN
    BY <1>7, <2>1
  <2> QED BY <1>6, <2>2 DEF RowsTyped
<1>14. ClockInv' /\ SecureStay
  BY <1>10, <1>11, <1>12, <1>13, ClockStands, SecureStands DEF FoundInv
<1>15. SendersInv'
  BY <1>10, <1>11, <1>14, SenderStands DEF FoundInv, SendersInv
<1>16. ASSUME req[t].op = "submit", NEW c \in Range(cbs) \ crossed
       PROVE  c \in DOMAIN main /\ Secure(c)'
  <2>1. Holds(t)
    BY <1>1, <1>16 DEF Holds
  <2>2. Clocked(t) /\ Since(t) \in Nat /\ Since(t) <= 2 * DbLimit + 3 * CallLimit
    BY <2>1, SinceIsBounded DEF FoundInv, ClockInv
  <2>3. req[t].left = << >>
    BY <1>1, <2>2 DEF Clocked
  <2>4. c \in Leased(t) \ crossed
    BY <1>3, <1>16, <2>3 DEF Leased, Range
  <2>5. c \in DOMAIN main /\ main[c].lease + Since(t) >= Lease /\ main[c].lease \in Nat
    BY <1>3, <1>16, <2>2, <2>4 DEF Clocked, FoundInv, ClockInv
  <2>6. main[c].lease > DbLimit
    <3>1. Lease \in Nat /\ DbLimit \in Nat /\ CallLimit \in Nat
      BY CashbookAssumption
    <3> QED BY <2>2, <2>5, <3>1 DEF LongerLease
  <2>7. ASSUME NEW x \in Threads, Holds(x)', ~req'[x].late, c \in Range(req'[x].cbs)
        PROVE  Doomed(x, c)'
    <3>1. x # t
      BY <1>9, <2>7
    <3>2. req'[x] = req[x] /\ Holds(x)
      BY <1>8, <2>7, <3>1 DEF Alone, Holds
    <3>3. Clocked(x) /\ req[x].age \in Nat
      BY <3>2, SinceIsBounded DEF FoundInv, ClockInv
    <3>4. Leased(t) \cap Leased(x) \subseteq crossed
      BY <2>1, <3>1, <3>2 DEF FoundInv, ClockInv
    <3>5. c \in Range(req[x].left)
      BY <2>4, <2>7, <3>2, <3>4 DEF Leased
    <3>6. req[x].pc = "lease"
      BY <3>3, <3>5 DEF Clocked, Range
    <3>7. main'[c].lease + req[x].age > DbLimit
      <4>1. main'[c].lease = main[c].lease /\ DbLimit \in Nat
        BY <1>7, <2>5, CashbookAssumption
      <4> QED BY <2>5, <2>6, <3>3, <4>1
    <3> QED BY <3>2, <3>5, <3>6, <3>7 DEF Doomed
  <2>8. main'[c].gen = TRUE
    BY <1>7, <1>16, <2>5
  <2> QED BY <2>5, <2>7, <2>8 DEF Secure
<1>17. NamesInv'
  <2>1. ASSUME NEW b \in DOMAIN main, main'[b].uid # 0
        PROVE  main'[b].gen /\ BySubmission(main'[b].uid)
    <3>1. CASE b \in Range(cbs)
      <4>1. main'[b].uid = u /\ main'[b].gen = TRUE
        BY <1>7, <3>1
      <4> QED BY <1>4, <4>1
    <3>2. CASE b \notin Range(cbs)
      <4>1. main'[b] = main[b]
        BY <1>7, <3>2
      <4> QED BY <2>1, <4>1 DEF FoundInv, NamesInv
    <3> QED BY <3>1, <3>2
  <2>2. ASSUME NEW b \in DOMAIN main \ crossed, main'[b].uid # 0, pfms[main'[b].uid].by = "submit"
        PROVE  Secure(b)'
    <3>1. CASE b \in Range(cbs)
      <4>1. main'[b].uid = u
        BY <1>7, <3>1
      <4> QED BY <1>4, <1>16, <2>2, <3>1, <4>1
    <3>2. CASE b \notin Range(cbs)
      <4>1. main'[b] = main[b]
        BY <1>7, <3>2
      <4>2. Secure(b)
        BY <2>2, <4>1 DEF FoundInv, NamesInv
      <4> QED BY <1>6, <1>14, <4>2 DEF SecureStay
    <3> QED BY <3>1, <3>2
  <2> QED BY <1>1, <1>6, <2>1, <2>2 DEF NamesInv, BySubmission
<1>18. RecordedIds' \subseteq RecordedIds \cup {u} /\ Told \subseteq Told'
  <2>1. \A x \in Threads : Logs(x)' => (x = t /\ req'[x].uid = u) \/ (Logs(x) /\ req'[x].uid = req[x].uid)
    BY <1>8 DEF Alone, Logs, Submits
  <2>2. RecordedIds' \subseteq RecordedIds \cup {u}
    BY <1>1, <2>1, IdsRest DEF RecordedIds
  <2>3. Told \subseteq Told'
    BY <1>1, <1>8, <1>9, IdsRest, OthersTell
  <2> QED BY <2>2, <2>3
<1>19. TraceInv'
  <2> SUFFICES ASSUME NEW v \in DOMAIN pfms, BySubmission(v), v \in RecordedIds',
                      Range(pfms[v].cbs) \cap crossed = {}, ~TakenOver(v), ~Unlisted(v)
               PROVE  Traced(v)'
    BY <1>1 DEF TraceInv, BySubmission, TakenOver, Unlisted
  <2>1. CASE v = u /\ req[t].op = "submit"
    <3>1. PICK c : c \in Range(cbs)
      <4>1. Len(cbs) \in Nat /\ Len(cbs) # 0 /\ DOMAIN cbs = 1..Len(cbs)
        BY <1>3, EmptySeq, LenProperties
      <4>2. 1 \in DOMAIN cbs
        BY <4>1
      <4> QED BY <4>2 DEF Range
    <3>2. c \notin crossed
      BY <1>4, <2>1, <3>1
    <3>3. c \in DOMAIN main /\ Secure(c)'
      BY <1>16, <2>1, <3>1, <3>2
    <3>4. main'[c].uid = v
      BY <1>7, <2>1, <3>1, <3>3
    <3> QED BY <1>6, <3>3, <3>4 DEF Traced
  <2>2. CASE v = u /\ req[t].op = "resubmit"
    <3>1. Anchored(t)
      BY <1>1, <1>4, <2>2 DEF FoundInv, SendersInv, Resubmits, Unlisted
    <3>2. Range(req[t].cbs) \cap crossed = {}
      BY <1>3, <1>4, <2>2
    <3>3. ASSUME NEW w \in DOMAIN pfms, pfms[w].by = "resubmit", Range(pfms[w].cbs) \cap Range(req[t].cbs) # {},
                 req[t].uid # w
          PROVE  FALSE
      BY <1>2, <1>3, <1>4, <2>2, <3>3 DEF TakenOver
    <3>4. PICK b \in Range(cbs) \cap DOMAIN main : Secure(b)
      BY <1>1, <1>3, <3>1, <3>2, <3>3 DEF Anchored
    <3>5. main'[b].uid = v /\ Secure(b)'
      BY <1>6, <1>7, <1>14, <2>2, <3>4 DEF SecureStay
    <3> QED BY <1>6, <3>4, <3>5 DEF Traced
  <2>3. CASE v # u
    <3>1. Traced(v)
      BY <1>18, <2>3 DEF FoundInv, TraceInv
    <3>2. CASE v \in Told
      BY <1>18, <3>2 DEF Traced
    <3>3. ASSUME NEW c \in DOMAIN main, main[c].uid = v, Secure(c)
          PROVE  Traced(v)'
      <4>1. CASE c \notin Range(cbs)
        <5>1. main'[c].uid = v /\ Secure(c)'
          BY <1>6, <1>7, <1>14, <3>3, <4>1 DEF SecureStay
        <5> QED BY <1>6, <5>1 DEF Traced
      <4>2. CASE c \in Range(cbs) /\ req[t].op = "submit" /\ ~req[t].late
        <5>1. Holds(t)
          BY <1>1, <4>2 DEF Holds
        <5> QED BY <1>1, <1>3, <3>3, <4>2, <5>1 DEF Secure, Doomed
      <4>3. CASE c \in Range(cbs) /\ (req[t].op = "resubmit" \/ req[t].late)
        <5>1. v # 0
          BY DEF RevInv, PfmsOK
        <5>2. c \in Range(pfms[v].cbs)
          BY <3>3, <5>1 DEF RevInv, TablesOK, InBook, Range
        <5>3. u \in DOMAIN pfms \ {v} /\ (pfms[u].by = "resubmit" \/ pfms[u].late) /\ Range(pfms[u].cbs) \cap Range(pfms[v].cbs) # {}
          BY <1>4, <2>3, <4>3, <5>2
        <5> QED BY <5>3 DEF TakenOver
      <4> QED BY <1>9, <4>1, <4>2, <4>3 DEF Submits
    <3> QED BY <3>1, <3>2, <3>3 DEF Traced
  <2> QED BY <1>9, <2>1, <2>2, <2>3 DEF Submits
<1>20. FiledInv'
  BY <1>1, <1>8, <1>9, OthersFile DEF FoundInv, FiledInv
<1> QED BY <1>14, <1>15, <1>17, <1>19, <1>20 DEF FoundInv

--------------------------------------------------------------------------------
(* The whole *)

(* Before anything has arrived. *)
LEMMA FoundInit == ReversionInit => FoundInv
<1> SUFFICES ASSUME ReversionInit PROVE FoundInv
  OBVIOUS
<1>1. main = << >> /\ subm = << >> /\ pfms = << >> /\ rev = << >> /\ req = [t \in Threads |-> Idle]
  BY DEF ReversionInit, CashbookInit
<1>2. DOMAIN main = {} /\ DOMAIN pfms = {} /\ DOMAIN rev = {}
  BY <1>1
<1>3. \A t \in Threads : ~Submits(t) /\ ~Holds(t) /\ ~Sends(t) /\ ~Resubmits(t) /\ ~Reverts(t)
  BY <1>1 DEF Idle, Submits, Holds, Sends, Resubmits, Reverts, FromFile
<1>4. ClockInv /\ NamesInv /\ SendersInv /\ TraceInv /\ FiledInv
  BY <1>2, <1>3 DEF ClockInv, NamesInv, SendersInv, TraceInv, FiledInv
<1> QED BY <1>4 DEF FoundInv

(* What happens outside the requests. *)
LEMMA OutsideFound == ASSUME RevInv, FoundInv, Outside, UNCHANGED rvars PROVE FoundInv'
BY ElsewhereFound, ListingFound, TickFound DEF Outside

(* Requests that begin. *)
LEMMA BeginFound == ASSUME RevInv, FoundInv, NEW t \in Threads, Begin(t), UNCHANGED rvars PROVE FoundInv'
BY ReadingFound, StartSubmissionFound, StartResubmissionFound DEF Begin

(* Requests that go on. *)
LEMMA ServeFound ==
  ASSUME LongerLease, RevInv, FoundInv, NEW t \in Threads, Serve(t), ~Reverts(t), UNCHANGED rvars
  PROVE  FoundInv'
BY VerifiedFound, TryStartSubmissionFound, BuildFound, LogInFound, AnswerOfFound, RecordFound, FinishFound, ReadingFound,
   UpdateStatusInMainFound, UpdateStatusInSubmissionFound, StoppingFound
   DEF Serve, BuildPayload, RebuildPayload, Answered, ReAnswered, FinishSubmission, FinishResubmission

(* The revert handlers. *)
LEMMA RevertFound == ASSUME RevInv, FoundInv, NEW t \in Threads, Revert(t) PROVE FoundInv'
BY StartReversionFound, CsvRowFound, DeletingFound, DeleteMainFound, DeleteFailsFound, FinishReversionFound,
   ResubmitDayFound
   DEF Revert, StartCsvRow, StartResubmitRow

(* The negative entry. *)
LEMMA NegateFound == ASSUME RevInv, FoundInv, NEW t \in Threads, Negate(t) PROVE FoundInv'
BY NegatingFound, SubmitPayloadToPfmsFound, MarkReversedFound, FinishNegativeFound DEF Negate

(* Every step keeps it, and so does a stutter. *)
LEMMA FoundSteps ==
  ASSUME LongerLease, RevInv, FoundInv, [ReversionNext]_allvars
  PROVE  FoundInv'
<1>1. CASE CashbookStep /\ UNCHANGED rvars
  BY <1>1, OutsideFound, BeginFound, ServeFound DEF CashbookStep
<1>2. ASSUME NEW t \in Threads, Revert(t) \/ Negate(t) \/ StopReversion(t) PROVE FoundInv'
  BY <1>2, RevertFound, NegateFound, StoppingFound
<1>3. CASE UNCHANGED allvars
  <2>1. UNCHANGED <<main, subm, pfms, req, rev, named, unsaved, crossed>>
    BY <1>3 DEF allvars, vars, rvars
  <2>2. LeasesLast /\ GenLast /\ RowsTyped' /\ NamesLast /\ EntriesLast
    BY <2>1, MainRests DEF EntriesLast
  <2> QED BY <2>1, <2>2, FoundOfNobody
<1> QED BY <1>1, <1>2, <1>3 DEF ReversionNext

(* When no request is served, an entry that was logged as a submission is listed, or a row *)
(* of a reversion or the answer of a CSV handler names it: whatever was submitted, reverted *)
(* and negated at once, only the losses the property names take it from all three.  Like    *)
(* BookedOnceUnlessLost it asks for a lease that covers the wait for it.                     *)
THEOREM WhatIsLoggedIsFound ==
  ASSUME LongerLease
  PROVE  ReversionSpec => []NothingForgotten
<1>1. ASSUME RevInv, FoundInv PROVE NothingForgotten
  <2> SUFFICES ASSUME Quiet, NEW u \in DOMAIN pfms, BySubmission(u), u \notin unsaved,
                      Range(pfms[u].cbs) \cap crossed = {}, GetCbRequestData(u) # {}, ~TakenOver(u), ~Unlisted(u)
               PROVE  \/ \E c \in DOMAIN main : InBook(u, c) /\ main[c].uid = u
                      \/ \E ddo \in {b.ddo : b \in Books}, from \in Days :
                           \E i \in ReversionRecords({ddo}) \cap RecordsOfReversion(ddo, from) : rev[i].uid = u
                      \/ u \in named
    BY DEF NothingForgotten, BySubmission
  <2>1. u \in RecordedIds /\ u # 0
    BY <1>1 DEF GetCbRequestData, RecordedIds, LoggedIds, RevInv, PfmsOK
  <2>2. Traced(u)
    BY <1>1, <2>1 DEF FoundInv, TraceInv
  <2>3. \A t \in Threads : ~At(t, "revert", "rows")
    BY DEF Quiet, Free, Idle, At
  <2>4. CASE u \in NotedIds
    <3>1. PICK i \in DOMAIN rev : rev[i].uid = u
      BY <2>4 DEF NotedIds
    <3>2. rev[i].ddo \in {b.ddo : b \in Books} /\ rev[i].from \in Days
      BY <1>1 DEF FoundInv, FiledInv, Filed
    <3>3. i \in ReversionRecords({rev[i].ddo}) \cap RecordsOfReversion(rev[i].ddo, rev[i].from)
      BY DEF ReversionRecords, RecordsOfReversion
    <3> QED BY <3>1, <3>2, <3>3
  <2>5. CASE \E c \in DOMAIN main : main[c].uid = u
    BY <1>1, <2>1, <2>5 DEF RevInv, TablesOK
  <2> QED BY <2>2, <2>3, <2>4, <2>5 DEF Traced, Told
<1>2. RevInv /\ FoundInv /\ [ReversionNext]_allvars => FoundInv'
  BY FoundSteps
<1> QED BY <1>1, <1>2, FoundInit, ReversionKeepsTrack, PTL DEF ReversionSpec

================================================================================
