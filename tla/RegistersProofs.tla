---------------------------- MODULE RegistersProofs ----------------------------
(***************************************************************************)
(* What holds of the registers of the accounts office for every set of     *)
(* offices, officers, entries, codes, remarks, items and rates: the rows   *)
(* of an inter-office entry move together and what an office approved      *)
(* stays approved, an open objection is found with all its remarks, and a  *)
(* calculation is recorded at an approved rate.                            *)
(*                                                                         *)
(* Each register has an inductive invariant of its own; a step of one      *)
(* register leaves the variables of the others alone.                      *)
(*                                                                         *)
(* The approval workflow of transfer entries, at the end, for any set of   *)
(* approvals and entries and any number of faults: the ledgers of a        *)
(* completed approval agree, a posted entry was paid for, and the workflow *)
(* implements the saga on the approvals it guards.                         *)
(***************************************************************************)
EXTENDS Registers, TeWorkflow, FiniteSetTheorems, TLAPS

--------------------------------------------------------------------------------
(* Inter-office entries. *)

\* The bookings of an identifier are numbered from 1 on, so the next number is free.
Numbered ==
  \A id \in Ids :
    /\ IsFiniteSet(BooksOf(id))
    /\ \A n \in BooksOf(id) : n \in Nat /\ n <= Cardinality(BooksOf(id))

\* An officer opened the page on a row that was still to be answered: a row of the
\* master not approved yet, or a row offered to another office.
PageWasOpen ==
  \A o \in Officers : page[o].id # << >> =>
    \E r \in DOMAIN page[o].shows :
      /\ r.id = page[o].id /\ r.pao = page[o].pao
      /\ page[o].shows[r] = IF page[o].pao = page[o].id[1] THEN "initiated" ELSE "created"

InterInv ==
  /\ DOMAIN page = Officers
  /\ \A id \in Ids : id # << >>
  /\ Numbered
  /\ PageWasOpen
  /\ EntryMovesTogether

(* The number of the next booking of an identifier is free, so that a booking (the   *)
(* insert of TransferentryInterPaoCreationRepo) touches no row that is there.        *)
LEMMA NextBookIsFree ==
  ASSUME Numbered, NEW id
  PROVE  /\ IsFiniteSet(BooksOf(id))
         /\ Cardinality(BooksOf(id)) \in Nat
         /\ 1 + Cardinality(BooksOf(id)) \notin BooksOf(id)
<1>1. CASE id \in Ids
  <2>1. IsFiniteSet(BooksOf(id)) /\ \A n \in BooksOf(id) : n \in Nat /\ n <= Cardinality(BooksOf(id))
    BY <1>1 DEF Numbered
  <2>2. Cardinality(BooksOf(id)) \in Nat
    BY <2>1, FS_CardinalityType
  <2> QED BY <2>1, <2>2
<1>2. CASE id \notin Ids
  <2>1. BooksOf(id) = {}
    BY <1>2 DEF Ids, BooksOf, RowsOf
  <2> QED BY <2>1, FS_EmptySet
<1> QED BY <1>1, <1>2

(* A booking keeps every row that is there and adds rows not approved by anybody, *)
(* all under the next number of one identifier.                                   *)
LEMMA BookingAdds ==
  ASSUME NEW m, NEW batch, TransferentryInterPaoCreation(m, batch), Numbered
  PROVE  \E id, new :
           /\ id # << >>
           /\ \A r \in new : r.id = id /\ r.nth = 1 + Cardinality(BooksOf(id))
           /\ Rows' = Rows \cup new
           /\ \A r \in Rows : interpao'[r] = interpao[r]
           /\ \A r \in new : interpao'[r] = "initiated"
<1>1. PICK id : id = <<m, clock>>
  OBVIOUS
<1>2. PICK nth : nth = 1 + Cardinality(BooksOf(id))
  OBVIOUS
<1>3. PICK new : new = {[id |-> id, nth |-> nth, pao |-> p] : p \in DOMAIN batch}
  OBVIOUS
<1>4. interpao' = [r \in Rows \cup new |-> IF r \in new THEN "initiated" ELSE interpao[r]]
  BY <1>1, <1>2, <1>3 DEF TransferentryInterPaoCreation
<1>5. \A r \in new : r.id = id /\ r.nth = nth
  BY <1>3
<1>6. \A r \in Rows : r \notin new
  <2>1. \A r \in Rows : r.id = id => r.nth \in BooksOf(id)
    BY DEF BooksOf, RowsOf
  <2>2. nth \notin BooksOf(id)
    BY <1>2, NextBookIsFree
  <2> QED BY <1>5, <2>1, <2>2
<1>7. Rows' = Rows \cup new
  BY <1>4 DEF Rows
<1>8. (\A r \in Rows : interpao'[r] = interpao[r]) /\ (\A r \in new : interpao'[r] = "initiated")
  BY <1>4, <1>6
<1>9. id # << >>
  BY <1>1
<1> QED BY <1>2, <1>5, <1>7, <1>8, <1>9

(* A booking keeps the invariant: the second entry of one identifier is not plain. *)
LEMMA BookingKeeps ==
  ASSUME NEW m, NEW batch, CreateInterPao(m, batch), InterInv
  PROVE  InterInv'
<1>1. PICK id, new :
           /\ id # << >>
           /\ \A r \in new : r.id = id /\ r.nth = 1 + Cardinality(BooksOf(id))
           /\ Rows' = Rows \cup new
           /\ \A r \in Rows : interpao'[r] = interpao[r]
           /\ \A r \in new : interpao'[r] = "initiated"
  BY BookingAdds DEF CreateInterPao, InterInv
<1>2. PICK nth : nth = 1 + Cardinality(BooksOf(id))
  OBVIOUS
<1>3. IsFiniteSet(BooksOf(id)) /\ Cardinality(BooksOf(id)) \in Nat /\ nth \notin BooksOf(id)
  BY <1>2, NextBookIsFree DEF InterInv
<1>4. IsFiniteSet(BooksOf(id) \cup {nth}) /\ Cardinality(BooksOf(id) \cup {nth}) = nth
  BY <1>2, <1>3, FS_AddElement
<1>5. UNCHANGED <<clock, page, overtaken>>
  BY DEF CreateInterPao
<1>6. ASSUME NEW i, i # id \/ new = {}
      PROVE  (i \in Ids' => i \in Ids) /\ BooksOf(i)' = BooksOf(i)
  <2>1. \A r \in Rows' : r.id = i <=> r \in Rows /\ r.id = i
    BY <1>1, <1>6
  <2>2. {r \in Rows' : r.id = i} = {r \in Rows : r.id = i}
    BY <1>1, <2>1
  <2> QED BY <2>1, <2>2 DEF Ids, BooksOf, RowsOf
<1>7. ASSUME NEW i, i = id, new # {}
      PROVE  BooksOf(i)' = BooksOf(id) \cup {nth}
  <2>1. {r \in Rows' : r.id = i} = {r \in Rows : r.id = id} \cup new
    BY <1>1, <1>7
  <2>2. {r.nth : r \in {q \in Rows : q.id = id} \cup new} = {r.nth : r \in {q \in Rows : q.id = id}} \cup {nth}
    BY <1>1, <1>2, <1>7
  <2> QED BY <2>1, <2>2 DEF BooksOf, RowsOf
<1>8. \A i \in Ids' : i # << >>
  BY <1>1 DEF Ids, InterInv
<1>9. Numbered'
  <2> SUFFICES ASSUME NEW i \in Ids'
               PROVE  /\ IsFiniteSet(BooksOf(i)')
                      /\ \A n \in BooksOf(i)' : n \in Nat /\ n <= Cardinality(BooksOf(i)')
    BY DEF Numbered
  <2>1. CASE i # id \/ new = {}
    <3>1. BooksOf(i)' = BooksOf(i) /\ i \in Ids
      BY <1>6, <2>1
    <3> QED BY <3>1 DEF Numbered, InterInv
  <2>2. CASE i = id /\ new # {}
    <3>1. \A n \in BooksOf(id) : n \in Nat /\ n <= Cardinality(BooksOf(id))
      BY DEF Numbered, InterInv, Ids, BooksOf, RowsOf
    <3>2. BooksOf(i)' = BooksOf(id) \cup {nth}
      BY <1>7, <2>2
    <3>3. \A n \in BooksOf(id) \cup {nth} : n \in Nat /\ n <= nth
      BY <1>2, <1>3, <3>1
    <3> QED BY <1>4, <3>2, <3>3
  <2> QED BY <2>1, <2>2
<1>10. PageWasOpen' /\ DOMAIN page' = Officers
  BY <1>5 DEF PageWasOpen, InterInv
<1>11. EntryMovesTogether'
  <2> SUFFICES ASSUME NEW i \in Ids', Plain(i)', NEW r \in Rows', NEW q \in Rows', r.id = i, q.id = i
               PROVE  /\ r.pao # i[1] /\ interpao'[r] \in {"created", "verified"} /\ q.pao = i[1]
                           => interpao'[q] = "verified"
                      /\ interpao'[r] = "deleted" => interpao'[q] = "deleted"
    BY DEF EntryMovesTogether, RowsOf
  <2>1. CASE i # id \/ new = {}
    <3>1. i \in Ids /\ BooksOf(i)' = BooksOf(i)
      BY <1>6, <2>1
    <3>2. Plain(i)
      BY <1>5, <3>1 DEF Plain
    <3>3. r \in RowsOf(i) /\ q \in RowsOf(i)
      BY <1>1, <2>1 DEF RowsOf
    <3>4. interpao'[r] = interpao[r] /\ interpao'[q] = interpao[q]
      BY <1>1, <3>3 DEF RowsOf
    <3> QED BY <3>1, <3>2, <3>3, <3>4 DEF EntryMovesTogether, InterInv
  <2>2. CASE i = id /\ new # {}
    <3>1. BooksOf(i)' = BooksOf(id) \cup {nth}
      BY <1>7, <2>2
    <3>2. Cardinality(BooksOf(i)') = 1
      BY DEF Plain
    <3>3. Cardinality(BooksOf(id)) = 0
      BY <1>2, <1>3, <1>4, <3>1, <3>2
    <3>4. BooksOf(id) = {}
      BY <1>3, <3>3, FS_EmptySet
    <3>5. r \in new /\ q \in new
      <4>1. \A x \in Rows : x.id = id => x.nth \in BooksOf(id)
        BY DEF BooksOf, RowsOf
      <4> QED BY <1>1, <2>2, <3>4, <4>1
    <3> QED BY <1>1, <3>5
  <2> QED BY <2>1, <2>2
<1> QED BY <1>8, <1>9, <1>10, <1>11 DEF InterInv

(* The statements of the answers (the repository's three updates) write the status   *)
(* of rows that are there: nothing is added, and no identifier gains a booking.      *)
LEMMA AnswersKeepRows ==
  ASSUME Rows' = Rows, NEW i
  PROVE  (i \in Ids' <=> i \in Ids) /\ BooksOf(i)' = BooksOf(i)
BY DEF Ids, BooksOf, RowsOf

(* An officer answers a page that still shows the entry: a row of the page's office  *)
(* is as it was shown, open; so no row of a plain entry is deleted.                  *)
LEMMA AnswerToTheTruth ==
  ASSUME InterInv, NEW o \in Officers, NEW id \in Ids, Answers(o, id), id \notin overtaken'
  PROVE  /\ overtaken' = overtaken
         /\ \E r \in Rows : /\ r.id = id /\ r.pao = page[o].pao
                            /\ interpao[r] = IF page[o].pao = id[1] THEN "initiated" ELSE "created"
<1>1. page[o].id = id /\ id # << >>
  BY DEF Answers, InterInv
<1>2. page[o].shows = Detail(id) /\ overtaken' = overtaken
  BY DEF Answers
<1>3. PICK r \in DOMAIN page[o].shows :
        /\ r.id = page[o].id /\ r.pao = page[o].pao
        /\ page[o].shows[r] = IF page[o].pao = page[o].id[1] THEN "initiated" ELSE "created"
  BY <1>1 DEF InterInv, PageWasOpen
<1>4. r \in Rows /\ page[o].shows[r] = interpao[r]
  BY <1>2, <1>3 DEF Detail, RowsOf
<1> QED BY <1>1, <1>2, <1>3, <1>4

(* An answer keeps the invariant.  The master's approval writes every row of the      *)
(* entry, so does a deletion; the approval of another office is of an entry that the  *)
(* master approved and nobody deleted, for the page's own row was offered.            *)
LEMMA AnswerKeeps ==
  ASSUME InterInv, NEW o \in Officers, NEW id \in Ids,
         UpdateInterPaoMaster(o, id) \/ UpdateInterPao(o, id)
  PROVE  InterInv'
<1>1. Answers(o, id)
  BY DEF UpdateInterPaoMaster, UpdateInterPao
<1>2. Rows' = Rows
  BY DEF UpdateInterPaoMaster, UpdateInterPao, MasterVerify, VerifyInterPao, RejectInterPao, Rows
<1>3. \A r \in Rows : r.id # id => interpao'[r] = interpao[r]
  BY DEF UpdateInterPaoMaster, UpdateInterPao, MasterVerify, VerifyInterPao, RejectInterPao, Rows
<1>4. Numbered' /\ \A i \in Ids' : i # << >>
  <2> SUFFICES ASSUME NEW i \in Ids'
               PROVE  /\ IsFiniteSet(BooksOf(i)') /\ i # << >>
                      /\ \A n \in BooksOf(i)' : n \in Nat /\ n <= Cardinality(BooksOf(i)')
    BY DEF Numbered
  <2>1. i \in Ids /\ BooksOf(i)' = BooksOf(i)
    BY <1>2, AnswersKeepRows
  <2> QED BY <2>1 DEF Numbered, InterInv
<1>5. DOMAIN page' = Officers /\ PageWasOpen'
  BY <1>1 DEF Answers, NoPage, PageWasOpen, InterInv
<1>6. EntryMovesTogether'
  <2> SUFFICES ASSUME NEW i \in Ids', Plain(i)', NEW r \in Rows', NEW q \in Rows', r.id = i, q.id = i
               PROVE  /\ r.pao # i[1] /\ interpao'[r] \in {"created", "verified"} /\ q.pao = i[1]
                           => interpao'[q] = "verified"
                      /\ interpao'[r] = "deleted" => interpao'[q] = "deleted"
    BY DEF EntryMovesTogether, RowsOf
  <2>1. i \in Ids /\ BooksOf(i)' = BooksOf(i)
    BY <1>2, AnswersKeepRows
  <2>2. overtaken \subseteq overtaken'
    BY <1>1 DEF Answers
  <2>3. Plain(i)
    BY <2>1, <2>2 DEF Plain
  <2>4. r \in RowsOf(i) /\ q \in RowsOf(i)
    BY <1>2 DEF RowsOf
  <2>5. \A x \in RowsOf(i), y \in RowsOf(i) :
             /\ x.pao # i[1] /\ interpao[x] \in {"created", "verified"} /\ y.pao = i[1] => interpao[y] = "verified"
             /\ interpao[x] = "deleted" => interpao[y] = "deleted"
    BY <2>1, <2>3 DEF EntryMovesTogether, InterInv
  <2>6. CASE i # id
    <3>1. interpao'[r] = interpao[r] /\ interpao'[q] = interpao[q]
      BY <1>2, <1>3, <2>6
    <3> QED BY <2>4, <2>5, <3>1
  <2>7. CASE i = id /\ UpdateInterPaoMaster(o, id)
    <3>1. CASE UNCHANGED interpao
      BY <2>4, <2>5, <3>1
    <3>2. CASE interpao' = [x \in Rows |-> IF x.id # id THEN interpao[x]
                                           ELSE IF x.pao = id[1] THEN "verified" ELSE "created"]
      BY <1>2, <2>7, <3>2
    <3>3. CASE RejectInterPao(id)
      BY <1>2, <2>7, <3>3 DEF RejectInterPao
    <3> QED BY <2>7, <3>1, <3>2, <3>3 DEF UpdateInterPaoMaster, MasterVerify
  <2>8. CASE i = id /\ UpdateInterPao(o, id)
    <3>1. CASE RejectInterPao(id)
      BY <1>2, <2>8, <3>1 DEF RejectInterPao
    <3>2. CASE VerifyInterPao(id, page[o].pao)
      <4>1. page[o].pao # id[1]
        BY <2>8 DEF UpdateInterPao
      <4>2. id \notin overtaken'
        BY <2>8 DEF Plain
      <4>3. PICK x \in Rows : x.id = id /\ x.pao = page[o].pao /\ interpao[x] = "created"
        BY <1>1, <4>1, <4>2, AnswerToTheTruth
      <4>4. x \in RowsOf(i)
        BY <2>8, <4>3 DEF RowsOf
      <4>5. interpao[r] # "deleted" /\ interpao[q] # "deleted"
        BY <2>4, <2>5, <4>3, <4>4
      <4>6. q.pao = i[1] => interpao[q] = "verified"
        BY <2>4, <2>5, <2>8, <4>1, <4>3, <4>4
      <4>7. /\ interpao'[q] = IF q.pao = page[o].pao THEN "verified" ELSE interpao[q]
            /\ interpao'[r] = IF r.pao = page[o].pao THEN "verified" ELSE interpao[r]
        BY <1>2, <2>8, <3>2 DEF VerifyInterPao
      <4> QED BY <4>5, <4>6, <4>7
    <3> QED BY <2>8, <3>1, <3>2 DEF UpdateInterPao
  <2> QED BY <2>6, <2>7, <2>8
<1> QED BY <1>4, <1>5, <1>6 DEF InterInv

(* What is said of the rows stands when no row is written and no entry overtaken. *)
LEMMA RestingRows ==
  ASSUME UNCHANGED <<interpao, overtaken>>, InterInv
  PROVE  (\A id \in Ids' : id # << >>) /\ Numbered' /\ EntryMovesTogether'
<1>1. Rows' = Rows /\ Ids' = Ids
  BY DEF Rows, Ids
<1>2. Numbered'
  BY <1>1 DEF Numbered, InterInv, BooksOf, RowsOf
<1>3. EntryMovesTogether'
  <2> SUFFICES ASSUME NEW i \in Ids', Plain(i)', NEW r \in Rows', NEW q \in Rows', r.id = i, q.id = i
               PROVE  /\ r.pao # i[1] /\ interpao'[r] \in {"created", "verified"} /\ q.pao = i[1]
                           => interpao'[q] = "verified"
                      /\ interpao'[r] = "deleted" => interpao'[q] = "deleted"
    BY DEF EntryMovesTogether, RowsOf
  <2>1. BooksOf(i)' = BooksOf(i)
    BY <1>1, AnswersKeepRows
  <2>2. Plain(i) /\ i \in Ids /\ r \in RowsOf(i) /\ q \in RowsOf(i)
    BY <1>1, <2>1 DEF Plain, RowsOf
  <2> QED BY <2>2 DEF EntryMovesTogether, InterInv
<1> QED BY <1>1, <1>2, <1>3 DEF InterInv

(* Opening a page and the clock write no row; a page is opened on an open row. *)
LEMMA OpeningKeeps ==
  ASSUME InterInv, NEW o \in Officers, NEW p, NEW id \in Ids, OpenInterPao(o, p, id)
  PROVE  InterInv'
<1>1. UNCHANGED <<interpao, overtaken>> /\ page' = [page EXCEPT ![o] = [id |-> id, pao |-> p, shows |-> Detail(id)]]
  BY DEF OpenInterPao
<1>2. \E r \in RowsOf(id) : r.id = id /\ r.pao = p /\ interpao[r] = IF p = id[1] THEN "initiated" ELSE "created"
  BY DEF OpenInterPao, ListInterPao, RowsOf
<1>3. \E r \in DOMAIN Detail(id) : r.id = id /\ r.pao = p /\ Detail(id)[r] = IF p = id[1] THEN "initiated" ELSE "created"
  BY <1>2 DEF Detail
<1>4. PageWasOpen' /\ DOMAIN page' = Officers
  <2> SUFFICES ASSUME NEW u \in Officers, page'[u].id # << >>
               PROVE  \E r \in DOMAIN page'[u].shows :
                         /\ r.id = page'[u].id /\ r.pao = page'[u].pao
                         /\ page'[u].shows[r] = IF page'[u].pao = page'[u].id[1] THEN "initiated" ELSE "created"
    BY <1>1 DEF PageWasOpen, InterInv
  <2>1. CASE u = o
    <3>1. page'[u] = [id |-> id, pao |-> p, shows |-> Detail(id)]
      BY <1>1, <2>1 DEF InterInv
    <3> QED BY <1>3, <3>1
  <2>2. CASE u # o
    <3>1. page'[u] = page[u]
      BY <1>1, <2>2 DEF InterInv
    <3> QED BY <3>1 DEF PageWasOpen, InterInv
  <2> QED BY <2>1, <2>2
<1> QED BY <1>1, <1>4, RestingRows DEF InterInv

(* No entry is booked at first. *)
LEMMA InterStart == InterInit => InterInv
BY DEF InterInit, InterInv, Numbered, PageWasOpen, EntryMovesTogether, Ids, Rows, RowsOf, BooksOf, NoPage

(* Booking, offering, approving and answering an inter-office entry keep the invariant. *)
LEMMA InterStep == InterInv /\ InterNext => InterInv'
<1> SUFFICES ASSUME InterInv, InterNext PROVE InterInv'
  OBVIOUS
<1>1. ASSUME NEW m \in Paos, NEW batch \in Batches, CreateInterPao(m, batch) PROVE InterInv'
  BY <1>1, BookingKeeps
<1>2. CASE InterTick
  BY <1>2, RestingRows DEF InterTick, InterInv, PageWasOpen
<1>3. ASSUME NEW o \in Officers, NEW id \in Ids, NEW p \in Paos, OpenInterPao(o, p, id) PROVE InterInv'
  BY <1>3, OpeningKeeps
<1>4. ASSUME NEW o \in Officers, NEW id \in Ids, UpdateInterPaoMaster(o, id) \/ UpdateInterPao(o, id) PROVE InterInv'
  BY <1>4, AnswerKeeps
<1> QED BY <1>1, <1>2, <1>3, <1>4 DEF InterNext

(* What an office approved is taken back by a deletion only: the master's second     *)
(* approval, which offers approved rows again, answers a page that was overtaken.    *)
LEMMA ApprovalStep ==
  ASSUME InterInv, InterNext, NEW r \in Rows, interpao[r] = "verified", interpao'[r] # "verified"
  PROVE  interpao'[r] = "deleted" \/ r.id \in overtaken' \/ ~Plain(r.id)
<1>1. CASE \E m \in Paos, batch \in Batches : CreateInterPao(m, batch)
  BY <1>1, BookingAdds DEF CreateInterPao, InterInv
<1>2. CASE InterTick
  BY <1>2 DEF InterTick
<1>3. ASSUME NEW o \in Officers, NEW id \in Ids, NEW p \in Paos, OpenInterPao(o, p, id) PROVE FALSE
  BY <1>3 DEF OpenInterPao
<1>4. ASSUME NEW o \in Officers, NEW id \in Ids, UpdateInterPao(o, id) PROVE interpao'[r] = "deleted"
  BY <1>4 DEF UpdateInterPao, VerifyInterPao, RejectInterPao, Rows
<1>5. ASSUME NEW o \in Officers, NEW id \in Ids, UpdateInterPaoMaster(o, id), interpao'[r] # "deleted",
             r.id \notin overtaken', Plain(r.id)
      PROVE  FALSE
  <2>1. Answers(o, id) /\ page[o].pao = id[1]
    BY <1>5 DEF UpdateInterPaoMaster
  <2>2. interpao' = [x \in Rows |-> IF x.id # id THEN interpao[x]
                                    ELSE IF x.pao = id[1] THEN "verified" ELSE "created"]
    BY <1>5 DEF UpdateInterPaoMaster, MasterVerify, RejectInterPao, Rows
  <2>3. r.id = id /\ r.pao # id[1]
    BY <2>2
  <2>4. PICK x \in Rows : x.id = id /\ x.pao = page[o].pao /\ interpao[x] = "initiated"
    BY <1>5, <2>1, <2>3, AnswerToTheTruth
  <2>5. interpao[x] = "verified"
    BY <1>5, <2>1, <2>3, <2>4 DEF InterInv, EntryMovesTogether, RowsOf
  <2> QED BY <2>4, <2>5
<1> QED BY <1>1, <1>2, <1>3, <1>4, <1>5 DEF InterNext

--------------------------------------------------------------------------------
(* Objections. *)

\* Every objection is in one of the two tables, with the remarks confirmed to their senders.
ObjInv ==
  /\ now \in Nat
  /\ DOMAIN confirmed = Keys
  /\ \A k \in Keys :
       /\ k = <<k[1], k[2]>> /\ k[1] \in Tables
       /\ DOMAIN objections[k] = {"by", "on", "day", "status", "remarks"}
       /\ objections[k].day \in Nat
       /\ objections[k].remarks = confirmed[k]

(* An objection of the tables is found where OpenIsFound looks for it. *)
LEMMA ObjectionsAreFound == ObjInv => OpenIsFound
<1> SUFFICES ASSUME ObjInv PROVE OpenIsFound
  OBVIOUS
<1>1. ASSUME NEW k \in Keys
      PROVE  "found" = IF k[1] = "objection" THEN FetchObjectionById(k[2]) ELSE FetchObjectionPraoById(k[2])
  BY DEF FetchObjectionById, FetchObjectionPraoById, ObjectionPaoById, ObjectionPraoById, ObjInv, Tables
<1>2. ASSUME NEW k \in Keys, NEW type \in {1, 2}, NEW st, NEW code,
             code = IF type = 1 THEN objections[k].by ELSE objections[k].on
      PROVE  /\ k \in Finds(k[1], type, code, st) <=> Asked(k, st)
             /\ k \in Reports(k[1], type, code, st, objections[k].day, objections[k].day) <=> Asked(k, st)
  <2>1. Within(k, objections[k].day, objections[k].day)
    <3>1. objections[k].day \in Nat
      BY DEF ObjInv
    <3> QED BY <3>1 DEF Within
  <2>2. k \in Of(k[1], st) <=> Asked(k, st)
    BY DEF Of
  <2>3. CASE k[1] = "objection"
    BY <1>2, <2>1, <2>2, <2>3
       DEF Finds, Reports, ListObjectionCode, ListObjectionPaoReport, ObjectionPaocode, ObjectionDdocode,
           ObjectionPaocodeRpt, ObjectionDdocodeRpt
  <2>4. CASE k[1] = "objection_prao"
    BY <1>2, <2>1, <2>2, <2>4
       DEF Finds, Reports, ListObjectionPraoCode, ListObjectionPraoReport, ObjectionPraocodePrao,
           ObjectionPaocodePrao, ObjectionPraocodePraoRpt, ObjectionPaocodePraoRpt
  <2> QED BY <2>3, <2>4 DEF ObjInv, Tables
<1>3. ASSUME NEW k \in Keys PROVE Open(k) <=> Asked(k, "created") \/ Asked(k, "notclosed")
  BY DEF Open, Asked
<1>4. \A k \in Keys : objections[k].remarks = confirmed[k]
  BY DEF ObjInv
<1> QED BY <1>1, <1>2, <1>3, <1>4 DEF OpenIsFound

(* No objection is open at first. *)
LEMMA ObjStart == ObjInit => ObjInv
BY DEF ObjInit, ObjInv, Keys

(* A creation adds an objection under a key of its table, without remarks. *)
LEMMA RaiseKeeps ==
  ASSUME ObjInv, NEW tab \in Tables, NEW by, NEW on, NEW draw, NEW st, Raise(tab, by, on, draw, st)
  PROVE  ObjInv'
<1>1. PICK k : k = <<tab, GenerateObjectionID(on, draw)>>
  OBVIOUS
<1>2. /\ objections' = [x \in Keys \cup {k} |->
            IF x = k THEN [by |-> by, on |-> on, day |-> now, status |-> st, remarks |-> << >>] ELSE objections[x]]
      /\ confirmed' = [x \in Keys \cup {k} |-> IF x = k THEN << >> ELSE confirmed[x]]
      /\ now' = now
  BY <1>1 DEF Raise
<1>3. k = <<k[1], k[2]>> /\ k[1] \in Tables
  BY <1>1
<1> QED BY <1>2, <1>3 DEF ObjInv, Keys

(* A remark is appended to the objection and to what its sender was told, or to none. *)
LEMMA CommentKeeps ==
  ASSUME ObjInv, NEW tab, NEW k, NEW note, NEW st, Comment(tab, k, note, st)
  PROVE  ObjInv'
<1>1. CASE UNCHANGED <<objections, confirmed, now>>
  BY <1>1 DEF ObjInv, Keys
<1>2. CASE /\ k \in Keys /\ UNCHANGED now
           /\ objections' = [objections EXCEPT ![k].remarks = Append(@, note), ![k].status = st]
           /\ confirmed' = [confirmed EXCEPT ![k] = Append(@, note)]
  <2>1. Keys' = Keys /\ DOMAIN confirmed' = Keys
    BY <1>2 DEF ObjInv, Keys
  <2>2. \A x \in Keys : x # k => objections'[x] = objections[x] /\ confirmed'[x] = confirmed[x]
    BY <1>2 DEF ObjInv, Keys
  <2>3. confirmed'[k] = Append(confirmed[k], note)
    BY <1>2 DEF ObjInv
  <2>4. objections'[k] = [[objections[k] EXCEPT !.remarks = Append(@, note)] EXCEPT !.status = st]
    BY <1>2 DEF Keys
  <2>5. /\ DOMAIN objections'[k] = DOMAIN objections[k]
        /\ objections'[k].day = objections[k].day
        /\ objections'[k].remarks = Append(objections[k].remarks, note)
    <3>1. DOMAIN objections[k] = {"by", "on", "day", "status", "remarks"}
      BY <1>2 DEF ObjInv
    <3> QED BY <2>4, <3>1
  <2>6. objections[k].day \in Nat /\ objections[k].remarks = confirmed[k] /\ now \in Nat
    BY <1>2 DEF ObjInv
  <2>7. ASSUME NEW x \in Keys
        PROVE  /\ x = <<x[1], x[2]>> /\ x[1] \in Tables
               /\ DOMAIN objections'[x] = {"by", "on", "day", "status", "remarks"}
               /\ objections'[x].day \in Nat
               /\ objections'[x].remarks = confirmed'[x]
    <3>1. CASE x = k
      BY <2>3, <2>5, <2>6, <3>1 DEF ObjInv
    <3>2. CASE x # k
      BY <2>2, <3>2 DEF ObjInv
    <3> QED BY <3>1, <3>2
  <2> QED BY <1>2, <2>1, <2>6, <2>7 DEF ObjInv
<1> QED BY <1>1, <1>2 DEF Comment

(* Raising an objection and answering one keep the invariant. *)
LEMMA ObjStep == ObjInv /\ ObjNext => ObjInv'
<1> SUFFICES ASSUME ObjInv, ObjNext PROVE ObjInv'
  OBVIOUS
<1>1. ASSUME NEW by, NEW on, NEW draw, NEW st, NEW tab \in Tables, Raise(tab, by, on, draw, st) PROVE ObjInv'
  BY <1>1, RaiseKeeps
<1>2. ASSUME NEW k, NEW note, NEW st, NEW tab, Comment(tab, k, note, st) PROVE ObjInv'
  BY <1>2, CommentKeeps
<1>3. CASE NextSecond
  BY <1>3 DEF NextSecond, ObjInv, Keys
<1> QED
  BY <1>1, <1>2, <1>3
     DEF ObjNext, Tables, CreateObjection, CreateObjectionPrao, CreateObjectionGrpc, CreateObjectionPraoGrpc,
         ObjectionCreation, ObjectionCreationPrao, UpdateObjection, UpdateObjectionPrao, UpdateObjectionClosure,
         UpdateObjectionClosurePrao, ObjectionUpdate, ObjectionUpdatePrao, ObjectionClosure, ObjectionClosurePrao

--------------------------------------------------------------------------------
(* Remuneration. *)

\* What a calculation holds: one amount, of a rate the item was approved with.
PaidRight(rows) ==
  /\ Cardinality(rows) = 1
  /\ \A r \in rows : r.item \in Items /\ r.rate \in effective[r.item] /\ r.amount = r.count * r.rate

\* Every approved row of an item holds a rate the item was approved with, so what a
\* caller has read and what is recorded does too, whatever the rates become.
RemInv ==
  /\ DOMAIN effective = Items /\ DOMAIN calc = Callers
  /\ \A k \in RateKeys : /\ k = [item |-> k.item, auth |-> k.auth] /\ k.item \in Items
                         /\ rates[k].inForce \in BOOLEAN
                         /\ k.auth = "2" => rates[k].rate \in effective[k.item]
  /\ \A c \in Callers : calc[c].pc = "post" => PaidRight(calc[c].rows)
  /\ \A p \in paid : PaidRight(p.rows)

(* No rate is set at first. *)
LEMMA RemStart == RemInit => RemInv
BY DEF RemInit, RemInv, RateKeys, Idle

(* What is recorded, and how rates are found, is what PaidAtAnApprovedRate says. *)
LEMMA PaidRightSuffices == RemInv => PaidAtAnApprovedRate
<1> SUFFICES ASSUME RemInv PROVE PaidAtAnApprovedRate
  OBVIOUS
<1>1. \A i \in Items : \A r \in CalculatedFor(i) : r.rate \in effective[i] /\ r.amount = r.count * r.rate
  BY DEF RemInv, PaidRight, CalculatedFor
<1>2. \A p \in paid : Cardinality(p.rows) = 1
  BY DEF RemInv, PaidRight
<1>3. \A k \in RateKeys : k \in ListRates(2, k.auth) <=> k \in ListRates(3, TRUE) /\ k \in ListRates(1, k.item)
  BY DEF RemInv, ListRates
<1> QED BY <1>1, <1>2, <1>3 DEF PaidAtAnApprovedRate

(* The store of new rates keeps every rate an item was approved with. *)
LEMMA StoreKeeps ==
  ASSUME RemInv, NEW new, Store(new), UNCHANGED <<calc, paid>>,
         \A k \in DOMAIN new : k = [item |-> k.item, auth |-> k.auth] /\ k.item \in Items /\ new[k].inForce \in BOOLEAN
  PROVE  RemInv'
<1>1. \A i \in Items : effective'[i] =
        effective[i] \cup {new[k].rate : k \in {q \in DOMAIN new : q.item = i /\ q.auth = "2"}}
  BY DEF Store
<1>2. DOMAIN effective' = Items /\ \A i \in Items : effective[i] \subseteq effective'[i]
  BY <1>1 DEF Store
<1>3. rates' = new /\ RateKeys' = DOMAIN new
  BY DEF Store, RateKeys
<1>4. \A k \in DOMAIN new : k.auth = "2" => new[k].rate \in effective'[k.item]
  BY <1>1
<1>5. ASSUME NEW rows, PaidRight(rows)
      PROVE  /\ Cardinality(rows) = 1
             /\ \A r \in rows : r.item \in Items /\ r.rate \in effective'[r.item] /\ r.amount = r.count * r.rate
  BY <1>2, <1>5 DEF PaidRight
<1> QED BY <1>2, <1>3, <1>4, <1>5 DEF RemInv, PaidRight

(* A reading takes the approved row, of which an item has one. *)
LEMMA ReadingIsRight ==
  ASSUME RemInv, NEW c \in Callers, NEW i \in Items, NEW n, ReadRate(c, i, n)
  PROVE  RemInv'
<1>1. PICK found : found = {k \in RowsFor(i) : k.auth = "2"}
  OBVIOUS
<1>2. PICK rows : rows = {[item |-> i, rate |-> rates[k].rate, count |-> n, amount |-> n * rates[k].rate] : k \in found}
  OBVIOUS
<1>3. calc' = [calc EXCEPT ![c] = IF found = {} THEN Idle ELSE [pc |-> "post", rows |-> rows]]
  BY <1>1, <1>2 DEF ReadRate
<1>4. UNCHANGED <<rates, paid, effective>>
  BY DEF ReadRate
<1>5. \A k \in found : k = [item |-> i, auth |-> "2"] /\ rates[k].rate \in effective[i]
  BY <1>1 DEF RowsFor, RemInv
<1>6. CASE found = {}
  BY <1>3, <1>4, <1>6 DEF RemInv, Idle, RateKeys, PaidRight
<1>7. CASE found # {}
  <2>1. PICK k \in found : found = {k}
    BY <1>5, <1>7
  <2>2. rows = {[item |-> i, rate |-> rates[k].rate, count |-> n, amount |-> n * rates[k].rate]}
    BY <1>2, <2>1
  <2>3. PaidRight(rows)
    <3>1. Cardinality(rows) = 1
      BY <2>2, FS_Singleton
    <3> QED BY <1>5, <2>1, <2>2, <3>1 DEF PaidRight
  <2>4. calc' = [calc EXCEPT ![c] = [pc |-> "post", rows |-> rows]]
    BY <1>3, <1>7
  <2> QED BY <1>4, <2>3, <2>4 DEF RemInv, RateKeys, PaidRight
<1> QED BY <1>6, <1>7

(* Setting a rate, reading one and recording a calculation keep the invariant. *)
LEMMA RemStep == RemInv /\ RemNext => RemInv'
<1> SUFFICES ASSUME RemInv, RemNext PROVE RemInv'
  OBVIOUS
<1>1. ASSUME NEW i \in Items, NEW rate, NEW auth, CreateRemunerationRate(i, rate, auth) PROVE RemInv'
  <2>1. PICK k : k = [item |-> i, auth |-> auth]
    OBVIOUS
  <2>2. PICK new : new = [x \in RateKeys \cup {k} |-> IF x = k THEN [rate |-> rate, inForce |-> TRUE] ELSE rates[x]]
    OBVIOUS
  <2>3. Store(new) /\ UNCHANGED <<calc, paid>>
    BY <1>1, <2>1, <2>2 DEF CreateRemunerationRate
  <2>4. ASSUME NEW x \in DOMAIN new
        PROVE  x = [item |-> x.item, auth |-> x.auth] /\ x.item \in Items /\ new[x].inForce \in BOOLEAN
    <3>1. CASE x = k
      BY <2>1, <2>2, <3>1
    <3>2. CASE x # k
      BY <2>2, <3>2 DEF RemInv
    <3> QED BY <3>1, <3>2
  <2> QED BY <2>3, <2>4, StoreKeeps
<1>2. ASSUME NEW i \in Items, NEW rate, NEW auth, NEW f \in BOOLEAN, UpdateRemunerationRate(i, rate, auth, f)
      PROVE  RemInv'
  <2>1. PICK k : k = [item |-> i, auth |-> auth]
    OBVIOUS
  <2>2. PICK new : new = [x \in (RateKeys \ RowsFor(i)) \cup {k} |->
                            IF x = k THEN [rate |-> rate, inForce |-> f] ELSE rates[x]]
    OBVIOUS
  <2>3. Store(new) /\ UNCHANGED <<calc, paid>>
    BY <1>2, <2>1, <2>2 DEF UpdateRemunerationRate, Updateremexe
  <2>4. ASSUME NEW x \in DOMAIN new
        PROVE  x = [item |-> x.item, auth |-> x.auth] /\ x.item \in Items /\ new[x].inForce \in BOOLEAN
    <3>1. CASE x = k
      BY <1>2, <2>1, <2>2, <3>1
    <3>2. CASE x # k
      BY <2>2, <3>2 DEF RemInv
    <3> QED BY <3>1, <3>2
  <2> QED BY <2>3, <2>4, StoreKeeps
<1>3. ASSUME NEW c \in Callers, NEW i \in Items, NEW n, ReadRate(c, i, n) PROVE RemInv'
  BY <1>3, ReadingIsRight
<1>4. ASSUME NEW c \in Callers, PostCalculation(c) PROVE RemInv'
  <2>1. UNCHANGED <<rates, effective>> /\ calc' = [calc EXCEPT ![c] = Idle]
    BY <1>4 DEF PostCalculation
  <2>2. \A p \in paid' : p \in paid \/ p.rows = calc[c].rows
    BY <1>4 DEF PostCalculation, RemunerationCalculationPost
  <2>3. PaidRight(calc[c].rows)
    BY <1>4 DEF PostCalculation, RemInv
  <2> QED BY <2>1, <2>2, <2>3 DEF RemInv, RateKeys, PaidRight, Idle
<1> QED BY <1>1, <1>2, <1>3, <1>4 DEF RemNext

--------------------------------------------------------------------------------
(* The registers together. *)

RegistersInv == InterInv /\ ObjInv /\ RemInv

(* A step of another register leaves the inter-office entries alone. *)
LEMMA InterRests == InterInv /\ UNCHANGED interVars => InterInv'
BY RestingRows DEF interVars, InterInv, PageWasOpen

(* A step of another register leaves the objections alone. *)
LEMMA ObjRests == ObjInv /\ UNCHANGED objVars => ObjInv'
BY DEF objVars, ObjInv, Keys

(* A step of another register leaves the rates alone. *)
LEMMA RemRests == RemInv /\ UNCHANGED remVars => RemInv'
BY DEF remVars, RemInv, PaidRight, RateKeys

(* Each step is of one register; the others rest. *)
LEMMA RegistersInductive == RegistersSpec => []RegistersInv
<1>1. RegistersInit => RegistersInv
  BY InterStart, ObjStart, RemStart DEF RegistersInit, RegistersInv
<1>2. RegistersInv /\ [RegistersNext]_allVars => RegistersInv'
  <2> SUFFICES ASSUME RegistersInv, [RegistersNext]_allVars PROVE RegistersInv'
    OBVIOUS
  <2>1. /\ InterNext \/ UNCHANGED interVars
        /\ ObjNext \/ UNCHANGED objVars
        /\ RemNext \/ UNCHANGED remVars
    BY DEF RegistersNext, allVars
  <2> QED BY <2>1, InterStep, InterRests, ObjStep, ObjRests, RemStep, RemRests DEF RegistersInv
<1> QED BY <1>1, <1>2, PTL DEF RegistersSpec

(* The rows of an inter-office entry that nobody overtook move together: no office   *)
(* has it before its master approved it, and deleted for one it is deleted for all   *)
(* (the three updates of transfer_entry_interpao, none of which looks at the status  *)
(* it replaces).                                                                     *)
THEOREM EntriesMoveTogether == RegistersSpec => []EntryMovesTogether
<1>1. RegistersInv => EntryMovesTogether
  BY DEF RegistersInv, InterInv
<1> QED BY <1>1, RegistersInductive, PTL

(* What an office approved stays approved or is deleted, until somebody answers a    *)
(* page that was overtaken.                                                          *)
THEOREM ApprovalsStay == RegistersSpec => ApprovedStaysApproved
<1>1. RegistersInv /\ [RegistersNext]_allVars =>
        [\A r \in Rows : interpao[r] = "verified" /\ interpao'[r] # "verified" =>
           interpao'[r] = "deleted" \/ r.id \in overtaken' \/ ~Plain(r.id)]_interVars
  <2> SUFFICES ASSUME RegistersInv, [RegistersNext]_allVars, interVars' # interVars,
                      NEW r \in Rows, interpao[r] = "verified", interpao'[r] # "verified"
               PROVE  interpao'[r] = "deleted" \/ r.id \in overtaken' \/ ~Plain(r.id)
    OBVIOUS
  <2>1. InterNext
    BY DEF RegistersNext, allVars
  <2> QED BY <2>1, ApprovalStep DEF RegistersInv
<1> QED BY <1>1, RegistersInductive, PTL DEF RegistersSpec, ApprovedStaysApproved

(* Both offices find an open objection, and no other, where they look for it, with   *)
(* every remark that was confirmed, in the order of the answers.                     *)
THEOREM OpenObjectionsAreFound == RegistersSpec => []OpenIsFound
<1>1. RegistersInv => OpenIsFound
  BY ObjectionsAreFound DEF RegistersInv
<1> QED BY <1>1, RegistersInductive, PTL

(* What is recorded is one amount of a rate that was approved for the item, although *)
(* rates change between the reading and the record.                                  *)
THEOREM RatesWereApproved == RegistersSpec => []PaidAtAnApprovedRate
<1>1. RegistersInv => PaidAtAnApprovedRate
  BY PaidRightSuffices DEF RegistersInv
<1> QED BY <1>1, RegistersInductive, PTL

--------------------------------------------------------------------------------
(* The approval workflow of transfer entries. *)


(* What is known of a guarded approval at a place p of its workflow, with result r, *)
(* of the lines it asks the budget for and those it consumed, whether it told the   *)
(* sub-accounts, and whether its entry's rows are its own.                          *)
Known(p, r, took, all, said, own) ==
  /\ took \subseteq all
  /\ p \in {"none", "saved", "budget"} => took = {} /\ ~said
  /\ p = "subaccounts" => took = all /\ ~said
  /\ p = "reverse" => took = all
  /\ p = "post" => took = all /\ said
  /\ r = "Insufficient funds" => took # all /\ ~said
  /\ r = "Subaccounts updation failed" => took = {}
  /\ r = "Transfer Entry Successfully verified" => own
  /\ r = "not started" => took = {} /\ ~said
  /\ own => took = all /\ said

(* A result is returned at the end, and only a posting workflow has rows. *)
Shaped(p, r, own) ==
  /\ p = "done" <=> r # "none"
  /\ own => p = "post" \/ r = "Transfer Entry Successfully verified"

Own(w) == postedBy[EntryOf[w]] = w

PlaceInv ==
  /\ \A w \in Approvals : Shaped(pc[w], result[w], Own(w))
  /\ \A w \in Guarded : Known(pc[w], result[w], consumed[w], BudgetRequests(w), told[w], Own(w))

(* The types of the ledgers; the count of faults is kept apart. *)
Ledgers ==
  /\ pc \in [Approvals -> Started \cup {"none", "saved", "done"}]
  /\ result \in [Approvals -> Results]
  /\ consumed \in [Approvals -> SUBSET Heads]
  /\ told \in [Approvals -> BOOLEAN]
  /\ wid \in [Entries -> Approvals \cup {None}]
  /\ postedBy \in [Entries -> Approvals \cup {None}]

IInv == Ledgers /\ PlaceInv

USE DEF Errors, Started, Results

(* An approval is of an entry, and None is none of the approvals. *)
LEMMA OfAnEntry == None \notin Approvals /\ \A w \in Approvals : EntryOf[w] \in Entries
  BY TeWorkflowAssumption

(* The lines an approval asks the budget for. *)
LEMMA LinesAsked == \A w \in Approvals : BudgetRequests(w) \in SUBSET Heads
  BY TeWorkflowAssumption DEF BudgetRequests

(* A guarded approval is one that asks for some. *)
LEMMA GuardedIs == \A w : w \in Guarded <=> w \in Approvals /\ BudgetRequests(w) # {}
  BY DEF Guarded

(* The initial states satisfy the inductive invariant. *)
LEMMA InitIInv == Init => IInv
<1> SUFFICES ASSUME Init PROVE IInv
  OBVIOUS
<1>1. Ledgers
  BY DEF Init, Ledgers
<1>2. \A w \in Approvals : pc[w] = "none" /\ result[w] = "none" /\ consumed[w] = {} /\ ~told[w]
  BY DEF Init
<1>3. \A w \in Approvals : ~Own(w)
  BY OfAnEntry DEF Init, Own
<1>4. \A w \in Approvals : Shaped(pc[w], result[w], Own(w))
  BY <1>2, <1>3 DEF Shaped
<1>5. \A w \in Approvals : Known(pc[w], result[w], consumed[w], BudgetRequests(w), told[w], Own(w))
  BY <1>2, <1>3 DEF Known
<1> QED BY <1>1, <1>4, <1>5, GuardedIs DEF IInv, PlaceInv

(* What an approval w does leaves the others where they are. *)
Others(w) == \A v \in Approvals : v # w =>
  /\ pc'[v] = pc[v] /\ result'[v] = result[v]
  /\ consumed'[v] = consumed[v] /\ told'[v] = told[v]
  /\ Own(v)' <=> Own(v)

(* Then only the place of w has to be looked at. *)
LEMMA OneMoves ==
  ASSUME IInv, NEW w \in Approvals, Others(w), Shaped(pc'[w], result'[w], Own(w)'),
         w \in Guarded => Known(pc'[w], result'[w], consumed'[w], BudgetRequests(w), told'[w], Own(w)')
  PROVE PlaceInv'
<1>1. ASSUME NEW v \in Approvals PROVE Shaped(pc'[v], result'[v], Own(v)')
  <2>1. CASE v = w
    BY <2>1
  <2>2. CASE v # w
    <3>1. Shaped(pc[v], result[v], Own(v))
      BY DEF IInv, PlaceInv
    <3> QED BY <2>2, <3>1 DEF Others, Shaped
  <2> QED BY <2>1, <2>2
<1>2. ASSUME NEW v \in Guarded PROVE Known(pc'[v], result'[v], consumed'[v], BudgetRequests(v), told'[v], Own(v)')
  <2>1. CASE v = w
    BY <2>1
  <2>2. CASE v # w
    <3>1. Known(pc[v], result[v], consumed[v], BudgetRequests(v), told[v], Own(v))
      BY DEF IInv, PlaceInv
    <3> QED BY <2>2, <3>1, GuardedIs DEF Others, Known
  <2> QED BY <2>1, <2>2
<1> QED BY <1>1, <1>2, GuardedIs DEF PlaceInv

(* What the invariant says of one approval. *)
LEMMA AtOne ==
  ASSUME IInv, NEW w \in Approvals
  PROVE  /\ Shaped(pc[w], result[w], Own(w))
         /\ w \in Guarded => Known(pc[w], result[w], consumed[w], BudgetRequests(w), told[w], Own(w))
         /\ EntryOf[w] \in Entries
         /\ consumed[w] \in SUBSET Heads /\ told[w] \in BOOLEAN
  BY OfAnEntry DEF IInv, PlaceInv, Ledgers

(* The stage of an approval without rows is a function of its place and result. *)
At(p, r) ==
  CASE p \in {"none", "saved", "budget"} -> "open"
    [] p = "subaccounts" -> "consumed"
    [] p = "post" -> "told"
    [] p = "reverse" -> "undoing"
    [] r = "Insufficient funds" -> "refused"
    [] r = "Subaccounts updation failed" -> "undone"
    [] OTHER -> "left"

LEMMA StageIs ==
  ASSUME NEW v
  PROVE  /\ Own(v) => Stage(v) = "posted"
         /\ ~Own(v) => Stage(v) = At(pc[v], result[v])
         /\ Own(v)' => Stage(v)' = "posted"
         /\ ~Own(v)' => Stage(v)' = At(pc'[v], result'[v])
<1>1. Own(v) => Stage(v) = "posted"
  BY DEF Stage, Own
<1>2. ~Own(v) => Stage(v) = At(pc[v], result[v])
  BY DEF Stage, Own, At
<1>3. Own(v)' => Stage(v)' = "posted"
  BY DEF Stage, Own
<1>4. ~Own(v)' => Stage(v)' = At(pc'[v], result'[v])
  BY DEF Stage, Own, At
<1> QED BY <1>1, <1>2, <1>3, <1>4

LEMMA SameStage ==
  ASSUME NEW v, pc'[v] = pc[v], result'[v] = result[v], Own(v)' <=> Own(v)
  PROVE  Stage(v)' = Stage(v)
  BY StageIs

(* The stage at each place an approval can be at. *)
LEMMA Running ==
  /\ \A p \in {"none", "saved", "budget"} : At(p, "none") = "open"
  /\ At("subaccounts", "none") = "consumed"
  /\ At("post", "none") = "told"
  /\ At("reverse", "none") = "undoing"
  BY DEF At
LEMMA Returned ==
  /\ At("done", "Insufficient funds") = "refused"
  /\ At("done", "Subaccounts updation failed") = "undone"
  /\ \A r \in Errors \cup {"not started"} : At("done", r) = "left"
  BY DEF At

(* Not all of the lines. *)
Parts(w) == (SUBSET BudgetRequests(w)) \ {BudgetRequests(w)}

(* The moves of the saga, seen from one approval. *)
SagaStep(w) ==
  \/ Stage(w)' = Stage(w) /\ consumed'[w] = consumed[w] /\ told'[w] = told[w]
  \/ Stage(w) = "open" /\ Stage(w)' = "consumed" /\ consumed'[w] = BudgetRequests(w) /\ told'[w] = told[w]
  \/ Stage(w) = "open" /\ Stage(w)' = "refused" /\ consumed'[w] \in Parts(w) /\ told'[w] = told[w]
  \/ Stage(w) = "consumed" /\ Stage(w)' = "told" /\ consumed'[w] = consumed[w] /\ told'[w] = TRUE
  \/ Stage(w) = "told" /\ Stage(w)' = "posted" /\ consumed'[w] = consumed[w] /\ told'[w] = told[w]
  \/ Stage(w) = "consumed" /\ Stage(w)' = "undoing" /\ consumed'[w] = consumed[w]
  \/ Stage(w) = "undoing" /\ Stage(w)' = "undone" /\ consumed'[w] = {} /\ told'[w] = told[w]
  \/ Stage(w) \in {"open", "consumed", "undoing"} /\ Stage(w)' = "left" /\ consumed'[w] \in SUBSET BudgetRequests(w) /\ told'[w] = told[w]


(* SaveWorkflowId keeps it, and is a step of the saga. *)
LEMMA SaveIInv == ASSUME IInv, NEW w \in Approvals, SaveWorkflowId(w)
  PROVE  IInv' /\ Others(w) /\ (w \in Guarded => SagaStep(w))
<1>1. Ledgers'
  <2>1. pc' \in [Approvals -> Started \cup {"none", "saved", "done"}]
    BY DEF IInv, Ledgers, SaveWorkflowId, Goes, Ends
  <2>2. result' \in [Approvals -> Results]
    BY DEF IInv, Ledgers, SaveWorkflowId, Goes, Ends
  <2>3. consumed' \in [Approvals -> SUBSET Heads] /\ told' \in [Approvals -> BOOLEAN]
    BY DEF IInv, Ledgers, SaveWorkflowId, Goes, Ends
  <2>4. wid' \in [Entries -> Approvals \cup {None}] /\ postedBy' \in [Entries -> Approvals \cup {None}]
    <3>1. wid' = wid \/ wid' = [wid EXCEPT ![EntryOf[w]] = w]
      BY DEF SaveWorkflowId
    <3>2. wid' \in [Entries -> Approvals \cup {None}]
      BY <3>1, OfAnEntry DEF IInv, Ledgers
    <3>3. postedBy' \in [Entries -> Approvals \cup {None}]
      BY DEF IInv, Ledgers, SaveWorkflowId
    <3> QED BY <3>2, <3>3
  <2> QED BY <2>1, <2>2, <2>3, <2>4 DEF Ledgers
<1>2. Others(w)
  BY OfAnEntry DEF IInv, Ledgers, SaveWorkflowId, Goes, Ends, Others, Own
<1>3. pc[w] = "none" /\ (Own(w)' <=> Own(w)) /\ consumed'[w] = consumed[w] /\ told'[w] = told[w]
  BY OfAnEntry DEF IInv, Ledgers, SaveWorkflowId, Goes, Ends, Own
<1>4. ~Own(w) /\ result[w] = "none"
  BY <1>3, AtOne DEF Shaped
<1>5. \/ pc'[w] = "saved" /\ result'[w] = result[w]
      \/ pc'[w] = "done" /\ result'[w] = "not started"
  BY OfAnEntry, GuardedIs DEF IInv, Ledgers, SaveWorkflowId, Goes, Ends
<1>6. Shaped(pc'[w], result'[w], Own(w)')
  BY <1>3, <1>4, <1>5 DEF Shaped
<1>7. ASSUME w \in Guarded PROVE Known(pc'[w], result'[w], consumed'[w], BudgetRequests(w), told'[w], Own(w)')
  BY <1>3, <1>4, <1>5, <1>7, AtOne DEF Known
<1>8. ASSUME w \in Guarded PROVE SagaStep(w)
  <2>1. told'[w] \in BOOLEAN /\ consumed'[w] \in SUBSET BudgetRequests(w)
    BY <1>1, <1>7, <1>8 DEF Ledgers, Known
  <2>2. ~Own(w)'
    BY <1>3, <1>4
  <2>3. Stage(w) = At(pc[w], result[w]) /\ Stage(w)' = At(pc'[w], result'[w])
    BY <2>2, <1>4, StageIs
  <2> QED BY <1>3, <1>4, <1>5, <1>8, <2>1, <2>3, Running, Returned DEF SagaStep
<1> QED BY <1>1, <1>2, <1>6, <1>7, <1>8, OneMoves DEF IInv

(* ExecuteWorkflow keeps it, and is a step of the saga. *)
LEMMA ExecuteIInv == ASSUME IInv, NEW w \in Approvals, ExecuteWorkflow(w)
  PROVE  IInv' /\ Others(w) /\ (w \in Guarded => SagaStep(w))
<1>1. Ledgers'
  <2>1. pc' \in [Approvals -> Started \cup {"none", "saved", "done"}]
    BY DEF IInv, Ledgers, ExecuteWorkflow, BudgetRequests, Goes, Ends
  <2>2. result' \in [Approvals -> Results]
    BY DEF IInv, Ledgers, ExecuteWorkflow, BudgetRequests, Goes, Ends
  <2>3. consumed' \in [Approvals -> SUBSET Heads] /\ told' \in [Approvals -> BOOLEAN]
    BY DEF IInv, Ledgers, ExecuteWorkflow, BudgetRequests, Goes, Ends
  <2>4. wid' \in [Entries -> Approvals \cup {None}] /\ postedBy' \in [Entries -> Approvals \cup {None}]
    BY OfAnEntry DEF IInv, Ledgers, ExecuteWorkflow, BudgetRequests, Goes, Ends
  <2> QED BY <2>1, <2>2, <2>3, <2>4 DEF Ledgers
<1>2. Others(w)
  BY OfAnEntry DEF IInv, Ledgers, ExecuteWorkflow, BudgetRequests, Goes, Ends, Others, Own
<1>3. pc[w] = "saved" /\ (Own(w)' <=> Own(w)) /\ consumed'[w] = consumed[w] /\ told'[w] = told[w]
  BY OfAnEntry DEF IInv, Ledgers, ExecuteWorkflow, BudgetRequests, Goes, Ends, Own
<1>4. ~Own(w) /\ result[w] = "none"
  BY <1>3, AtOne DEF Shaped
<1>5. \/ pc'[w] = "budget" /\ result'[w] = result[w]
      \/ pc'[w] = "subaccounts" /\ result'[w] = result[w] /\ w \notin Guarded
      \/ pc'[w] = "done" /\ result'[w] = "not started"
  BY OfAnEntry, GuardedIs DEF IInv, Ledgers, ExecuteWorkflow, BudgetRequests, Goes, Ends
<1>6. Shaped(pc'[w], result'[w], Own(w)')
  BY <1>3, <1>4, <1>5 DEF Shaped
<1>7. ASSUME w \in Guarded PROVE Known(pc'[w], result'[w], consumed'[w], BudgetRequests(w), told'[w], Own(w)')
  BY <1>3, <1>4, <1>5, <1>7, AtOne DEF Known
<1>8. ASSUME w \in Guarded PROVE SagaStep(w)
  <2>1. told'[w] \in BOOLEAN /\ consumed'[w] \in SUBSET BudgetRequests(w)
    BY <1>1, <1>7, <1>8 DEF Ledgers, Known
  <2>2. ~Own(w)'
    BY <1>3, <1>4
  <2>3. Stage(w) = At(pc[w], result[w]) /\ Stage(w)' = At(pc'[w], result'[w])
    BY <2>2, <1>4, StageIs
  <2> QED BY <1>3, <1>4, <1>5, <1>8, <2>1, <2>3, Running, Returned DEF SagaStep
<1> QED BY <1>1, <1>2, <1>6, <1>7, <1>8, OneMoves DEF IInv

(* The budget operation keeps it, and is a step of the saga. *)
LEMMA BudgetIInv == ASSUME IInv, NEW w \in Approvals, BudgetOperation(w)
  PROVE  IInv' /\ Others(w) /\ (w \in Guarded => SagaStep(w))
<1>0. PICK lines \in SUBSET BudgetRequests(w) : consumed' = [consumed EXCEPT ![w] = lines]
  BY DEF BudgetOperation, SomeConsumed
<1>1. Ledgers'
  <2>1. pc' \in [Approvals -> Started \cup {"none", "saved", "done"}]
    BY DEF IInv, Ledgers, BudgetOperation, Goes, Ends
  <2>2. result' \in [Approvals -> Results]
    BY DEF IInv, Ledgers, BudgetOperation, Goes, Ends
  <2>3. consumed' \in [Approvals -> SUBSET Heads] /\ told' \in [Approvals -> BOOLEAN]
    BY <1>0, LinesAsked DEF IInv, Ledgers, BudgetOperation
  <2>4. wid' \in [Entries -> Approvals \cup {None}] /\ postedBy' \in [Entries -> Approvals \cup {None}]
    BY OfAnEntry DEF IInv, Ledgers, BudgetOperation, Goes, Ends
  <2> QED BY <2>1, <2>2, <2>3, <2>4 DEF Ledgers
<1>2. Others(w)
  BY <1>0, OfAnEntry DEF IInv, Ledgers, BudgetOperation, Goes, Ends, Others, Own
<1>3. pc[w] = "budget" /\ (Own(w)' <=> Own(w)) /\ told'[w] = told[w]
  BY OfAnEntry DEF IInv, Ledgers, BudgetOperation, Goes, Ends, Own
<1>4. ~Own(w) /\ result[w] = "none"
  BY <1>3, AtOne DEF Shaped
<1>9. consumed'[w] = lines
  BY <1>0 DEF IInv, Ledgers
<1>5. \/ pc'[w] = "subaccounts" /\ result'[w] = result[w] /\ consumed'[w] = BudgetRequests(w)
      \/ pc'[w] = "done" /\ result'[w] = "Insufficient funds" /\ consumed'[w] \in Parts(w)
      \/ pc'[w] = "done" /\ result'[w] = "Budget Nexus call failed"
  <2>1. CASE consumed' = [consumed EXCEPT ![w] = BudgetRequests(w)] /\ Goes(w, "subaccounts") /\ UNCHANGED result
    BY <2>1 DEF IInv, Ledgers, Goes
  <2>2. CASE \E some \in Parts(w) : consumed' = [consumed EXCEPT ![w] = some] /\ Ends(w, "Insufficient funds")
    BY <2>2 DEF IInv, Ledgers, Ends
  <2>3. CASE Ends(w, "Budget Nexus call failed")
    BY <2>3 DEF IInv, Ledgers, Ends
  <2> QED BY <2>1, <2>2, <2>3 DEF BudgetOperation, Parts
<1>6. Shaped(pc'[w], result'[w], Own(w)')
  BY <1>3, <1>4, <1>5 DEF Shaped
<1>7. ASSUME w \in Guarded PROVE Known(pc'[w], result'[w], consumed'[w], BudgetRequests(w), told'[w], Own(w)')
  <2>1. ~told'[w] /\ ~Own(w)' /\ consumed'[w] \subseteq BudgetRequests(w)
    BY <1>0, <1>3, <1>4, <1>7, <1>9, AtOne DEF Known
  <2>2. CASE pc'[w] = "subaccounts" /\ result'[w] = "none" /\ consumed'[w] = BudgetRequests(w)
    BY <2>1, <2>2 DEF Known
  <2>3. CASE pc'[w] = "done" /\ result'[w] = "Insufficient funds" /\ consumed'[w] # BudgetRequests(w)
    BY <2>1, <2>3 DEF Known
  <2>4. CASE pc'[w] = "done" /\ result'[w] = "Budget Nexus call failed"
    BY <2>1, <2>4 DEF Known
  <2>5. \/ pc'[w] = "subaccounts" /\ result'[w] = "none" /\ consumed'[w] = BudgetRequests(w)
        \/ pc'[w] = "done" /\ result'[w] = "Insufficient funds" /\ consumed'[w] # BudgetRequests(w)
        \/ pc'[w] = "done" /\ result'[w] = "Budget Nexus call failed"
    <3>1. consumed'[w] \in Parts(w) => consumed'[w] # BudgetRequests(w)
      BY DEF Parts
    <3>2. result[w] = "none"
      BY <1>4
    <3> QED BY <1>5, <3>1, <3>2
  <2> QED BY <2>2, <2>3, <2>4, <2>5
<1>8. ASSUME w \in Guarded PROVE SagaStep(w)
  <2>1. told'[w] \in BOOLEAN /\ consumed'[w] \in SUBSET BudgetRequests(w)
    BY <1>1, <1>7, <1>8 DEF Ledgers, Known
  <2>2. ~Own(w)'
    BY <1>3, <1>4
  <2>3. Stage(w) = At(pc[w], result[w]) /\ Stage(w)' = At(pc'[w], result'[w])
    BY <2>2, <1>4, StageIs
  <2> QED BY <1>3, <1>4, <1>5, <1>8, <2>1, <2>3, Running, Returned DEF SagaStep
<1> QED BY <1>1, <1>2, <1>6, <1>7, <1>8, OneMoves DEF IInv

(* The sub-accounts operation keeps it, and is a step of the saga. *)
LEMMA SubaccountsIInv == ASSUME IInv, NEW w \in Approvals, SubaccountsOperation(w)
  PROVE  IInv' /\ Others(w) /\ (w \in Guarded => SagaStep(w))
<1>1. Ledgers'
  <2>1. pc' \in [Approvals -> Started \cup {"none", "saved", "done"}]
    BY DEF IInv, Ledgers, SubaccountsOperation, Goes, Ends
  <2>2. result' \in [Approvals -> Results]
    BY DEF IInv, Ledgers, SubaccountsOperation, Goes, Ends
  <2>3. consumed' \in [Approvals -> SUBSET Heads] /\ told' \in [Approvals -> BOOLEAN]
    BY DEF IInv, Ledgers, SubaccountsOperation, Goes, Ends
  <2>4. wid' \in [Entries -> Approvals \cup {None}] /\ postedBy' \in [Entries -> Approvals \cup {None}]
    BY OfAnEntry DEF IInv, Ledgers, SubaccountsOperation, Goes, Ends
  <2> QED BY <2>1, <2>2, <2>3, <2>4 DEF Ledgers
<1>2. Others(w)
  BY OfAnEntry DEF IInv, Ledgers, SubaccountsOperation, Goes, Ends, Others, Own
<1>3. pc[w] = "subaccounts" /\ (Own(w)' <=> Own(w)) /\ consumed'[w] = consumed[w]
  BY OfAnEntry DEF IInv, Ledgers, SubaccountsOperation, Goes, Ends, Own
<1>4. ~Own(w) /\ result[w] = "none"
  BY <1>3, AtOne DEF Shaped
<1>5. \/ pc'[w] = "post" /\ result'[w] = result[w] /\ told'[w]
      \/ pc'[w] = "done" /\ result'[w] = "Subaccounts Nexus Call Failed" /\ told'[w] = told[w]
      \/ pc'[w] = "reverse" /\ result'[w] = result[w]
      \/ pc'[w] = "post" /\ result'[w] = result[w] /\ w \notin Guarded
  BY OfAnEntry, GuardedIs DEF IInv, Ledgers, SubaccountsOperation, Goes, Ends, BudgetRequests
<1>6. Shaped(pc'[w], result'[w], Own(w)')
  BY <1>3, <1>4, <1>5 DEF Shaped
<1>7. ASSUME w \in Guarded PROVE Known(pc'[w], result'[w], consumed'[w], BudgetRequests(w), told'[w], Own(w)')
  BY <1>3, <1>4, <1>5, <1>7, AtOne DEF Known
<1>8. ASSUME w \in Guarded PROVE SagaStep(w)
  <2>1. told'[w] \in BOOLEAN /\ consumed'[w] \in SUBSET BudgetRequests(w)
    BY <1>1, <1>7, <1>8 DEF Ledgers, Known
  <2>2. ~Own(w)'
    BY <1>3, <1>4
  <2>3. Stage(w) = At(pc[w], result[w]) /\ Stage(w)' = At(pc'[w], result'[w])
    BY <2>2, <1>4, StageIs
  <2> QED BY <1>3, <1>4, <1>5, <1>8, <2>1, <2>3, Running, Returned DEF SagaStep
<1> QED BY <1>1, <1>2, <1>6, <1>7, <1>8, OneMoves DEF IInv

(* The reversal of the budget keeps it, and is a step of the saga. *)
LEMMA ReversalIInv == ASSUME IInv, NEW w \in Approvals, ReversalOperation(w)
  PROVE  IInv' /\ Others(w) /\ (w \in Guarded => SagaStep(w))
<1>0. PICK lines \in SUBSET BudgetRequests(w) : consumed' = [consumed EXCEPT ![w] = lines]
  BY DEF ReversalOperation, SomeConsumed
<1>1. Ledgers'
  <2>1. pc' \in [Approvals -> Started \cup {"none", "saved", "done"}]
    BY DEF IInv, Ledgers, ReversalOperation, Goes, Ends
  <2>2. result' \in [Approvals -> Results]
    BY DEF IInv, Ledgers, ReversalOperation, Goes, Ends
  <2>3. consumed' \in [Approvals -> SUBSET Heads] /\ told' \in [Approvals -> BOOLEAN]
    BY <1>0, LinesAsked DEF IInv, Ledgers, ReversalOperation
  <2>4. wid' \in [Entries -> Approvals \cup {None}] /\ postedBy' \in [Entries -> Approvals \cup {None}]
    BY OfAnEntry DEF IInv, Ledgers, ReversalOperation, Goes, Ends
  <2> QED BY <2>1, <2>2, <2>3, <2>4 DEF Ledgers
<1>2. Others(w)
  BY <1>0, OfAnEntry DEF IInv, Ledgers, ReversalOperation, Goes, Ends, Others, Own
<1>3. pc[w] = "reverse" /\ (Own(w)' <=> Own(w)) /\ told'[w] = told[w]
  BY OfAnEntry DEF IInv, Ledgers, ReversalOperation, Goes, Ends, Own
<1>4. ~Own(w) /\ result[w] = "none"
  BY <1>3, AtOne DEF Shaped
<1>5. \/ pc'[w] = "done" /\ result'[w] = "Subaccounts updation failed" /\ consumed'[w] = {}
      \/ pc'[w] = "done" /\ result'[w] = "Budget reversal failed"
  BY OfAnEntry, GuardedIs DEF IInv, Ledgers, ReversalOperation, Goes, Ends
<1>9. consumed'[w] = lines
  BY <1>0 DEF IInv, Ledgers
<1>6. Shaped(pc'[w], result'[w], Own(w)')
  BY <1>3, <1>4, <1>5 DEF Shaped
<1>7. ASSUME w \in Guarded PROVE Known(pc'[w], result'[w], consumed'[w], BudgetRequests(w), told'[w], Own(w)')
  BY <1>0, <1>3, <1>4, <1>5, <1>7, <1>9, AtOne DEF Known, Parts
<1>8. ASSUME w \in Guarded PROVE SagaStep(w)
  <2>1. told'[w] \in BOOLEAN /\ consumed'[w] \in SUBSET BudgetRequests(w)
    BY <1>1, <1>7, <1>8 DEF Ledgers, Known
  <2>2. ~Own(w)'
    BY <1>3, <1>4
  <2>3. Stage(w) = At(pc[w], result[w]) /\ Stage(w)' = At(pc'[w], result'[w])
    BY <2>2, <1>4, StageIs
  <2> QED BY <1>3, <1>4, <1>5, <1>8, <2>1, <2>3, Running, Returned DEF SagaStep
<1> QED BY <1>1, <1>2, <1>6, <1>7, <1>8, OneMoves DEF IInv

(* The posting keeps it, and is a step of the saga: an entry has the rows of one approval only. *)
LEMMA PostingIInv == ASSUME IInv, NEW w \in Approvals, SubVerifiedTePosting(w)
  PROVE  IInv' /\ Others(w) /\ (w \in Guarded => SagaStep(w))
<1>1. Ledgers'
  <2>1. pc' \in [Approvals -> Started \cup {"none", "saved", "done"}]
    BY DEF IInv, Ledgers, SubVerifiedTePosting, Ends
  <2>2. result' \in [Approvals -> Results]
    BY DEF IInv, Ledgers, SubVerifiedTePosting, Ends
  <2>3. consumed' \in [Approvals -> SUBSET Heads] /\ told' \in [Approvals -> BOOLEAN]
    BY DEF IInv, Ledgers, SubVerifiedTePosting, Ends
  <2>4. wid' \in [Entries -> Approvals \cup {None}] /\ postedBy' \in [Entries -> Approvals \cup {None}]
    BY OfAnEntry DEF IInv, Ledgers, SubVerifiedTePosting, Ends
  <2> QED BY <2>1, <2>2, <2>3, <2>4 DEF Ledgers
<1>2. Own(w)' /\ \A v \in Approvals : v # w => ~Own(v)' \/ EntryOf[v] # EntryOf[w]
  BY OfAnEntry DEF IInv, Ledgers, SubVerifiedTePosting, Own
<1>3. \A v \in Approvals : EntryOf[v] = EntryOf[w] => ~Own(v)
  BY OfAnEntry DEF SubVerifiedTePosting, Own
<1>4. \A v \in Approvals : EntryOf[v] # EntryOf[w] => (Own(v)' <=> Own(v))
  BY OfAnEntry DEF IInv, Ledgers, SubVerifiedTePosting, Own
<1>5. \A v \in Approvals : v # w =>
        pc'[v] = pc[v] /\ result'[v] = result[v] /\ consumed'[v] = consumed[v] /\ told'[v] = told[v]
  BY DEF IInv, Ledgers, SubVerifiedTePosting, Ends
<1>6. Others(w)
  BY <1>2, <1>3, <1>4, <1>5 DEF Others
<1>7. pc[w] = "post" /\ consumed'[w] = consumed[w] /\ told'[w] = told[w]
  BY DEF SubVerifiedTePosting
<1>8. \/ pc'[w] = "post" /\ result'[w] = result[w]
      \/ pc'[w] = "done" /\ result'[w] = "Transfer Entry Successfully verified"
  BY <1>7 DEF IInv, Ledgers, SubVerifiedTePosting, Ends
<1>9. result[w] = "none"
  BY <1>7, AtOne DEF Shaped
<1>10. Shaped(pc'[w], result'[w], Own(w)')
  BY <1>2, <1>8, <1>9 DEF Shaped
<1>11. ASSUME w \in Guarded PROVE Known(pc'[w], result'[w], consumed'[w], BudgetRequests(w), told'[w], Own(w)')
  BY <1>2, <1>7, <1>8, <1>9, <1>11, AtOne DEF Known
<1>12. ASSUME w \in Guarded PROVE SagaStep(w)
  <2>1. ~Own(w) /\ Own(w)'
    BY <1>2, <1>3
  <2> QED BY <1>7, <1>9, <2>1, StageIs, Running DEF SagaStep
<1> QED BY <1>1, <1>6, <1>10, <1>11, <1>12, OneMoves DEF IInv

(* The bound on faults is counted by a natural number. *)
Counted == faults \in Nat
LEMMA FaultsCounted == Counted /\ [Next]_vars => Counted'
<1> SUFFICES ASSUME Counted, [Next]_vars PROVE Counted'
  OBVIOUS
<1>1. UNCHANGED faults \/ Fault
  BY DEF Next, Handler, Workflow, vars, SaveWorkflowId, ExecuteWorkflow, BudgetOperation,
         SubaccountsOperation, ReversalOperation, SubVerifiedTePosting
<1> QED BY <1>1 DEF Fault, Counted

(* The invariant is inductive. *)
THEOREM Invariant == Spec => []IInv
<1>1. IInv /\ [Next]_vars => IInv'
  <2> SUFFICES ASSUME IInv, [Next]_vars PROVE IInv'
    OBVIOUS
  <2>1. CASE UNCHANGED vars
    BY <2>1 DEF vars, IInv, Ledgers, PlaceInv, Own
  <2>2. CASE \E w \in Approvals : Handler(w)
    BY <2>2, SaveIInv, ExecuteIInv DEF Handler
  <2>3. CASE \E w \in Approvals : Workflow(w)
    BY <2>3, BudgetIInv, SubaccountsIInv, ReversalIInv, PostingIInv DEF Workflow
  <2> QED BY <2>1, <2>2, <2>3 DEF Next
<1> QED BY <1>1, InitIInv, PTL DEF Spec

(* The variables of the approval keep their types. *)
THEOREM TypeCorrect == Spec => []WorkflowTypeOK
<1>1. Init => Counted
  BY DEF Init, Counted
<1>2. IInv /\ Counted => WorkflowTypeOK
  BY DEF IInv, Ledgers, WorkflowTypeOK, Counted
<1> QED BY <1>1, <1>2, FaultsCounted, Invariant, PTL DEF Spec

(* A completed workflow leaves the ledgers agreeing with its message: success with  *)
(* every line consumed, insufficient funds with a line unconsumed and nothing told, *)
(* a failed update of the sub-accounts with no line consumed.                       *)
THEOREM Completed == Spec => []CompletedMeansAgreed
<1>1. ASSUME IInv, NEW w \in Guarded, GetWorkflowDetails(w) = "COMPLETED"
      PROVE \/ result[w] = "Transfer Entry Successfully verified" /\ Own(w) /\ consumed[w] = BudgetRequests(w) /\ told[w]
            \/ result[w] = "Insufficient funds" /\ ~Own(w) /\ consumed[w] # BudgetRequests(w) /\ ~told[w]
            \/ result[w] = "Subaccounts updation failed" /\ ~Own(w) /\ consumed[w] = {}
  <2>1. pc[w] = "done" /\ result[w] \notin Errors /\ result[w] # "not started"
    <3>1. pc[w] \in Started => getWorkflowStatus(w) = "RUNNING"
      BY DEF getWorkflowStatus
    <3>2. pc[w] \notin Started /\ result[w] \in Errors => getWorkflowStatus(w) = "FAILED"
      BY DEF getWorkflowStatus
    <3> QED BY <1>1, <3>1, <3>2 DEF GetWorkflowDetails
  <2>2. result[w] \in {"Insufficient funds", "Subaccounts updation failed", "Transfer Entry Successfully verified"}
    BY <1>1, <2>1, AtOne, GuardedIs DEF IInv, Ledgers, Shaped
  <2> QED BY <1>1, <2>1, <2>2, AtOne, GuardedIs DEF Known, Shaped
<1>2. IInv => CompletedMeansAgreed
  BY <1>1 DEF CompletedMeansAgreed, buildStandardizedOutput, Own
<1> QED BY <1>2, Invariant, PTL

(* A posted entry had every line consumed and was told, whatever its workflow shows. *)
THEOREM Paid == Spec => []PostedMeansPaid
<1>1. ASSUME IInv, NEW w \in Guarded, Own(w) PROVE consumed[w] = BudgetRequests(w) /\ told[w]
  BY <1>1, AtOne, GuardedIs DEF Known
<1>2. IInv => PostedMeansPaid
  BY <1>1 DEF PostedMeansPaid, Own
<1> QED BY <1>2, Invariant, PTL

(* What the saga promises of its stages holds of the workflow's ledgers: a posted  *)
(* approval consumed every line and told, a refused one did not consume them all   *)
(* and told nobody, an undone one holds no budget.                                 *)
THEOREM Promised == Spec => []Saga!Promise
<1>1. ASSUME IInv, NEW w \in Guarded
      PROVE  /\ Stage(w) \in {"told", "posted"} => consumed[w] = BudgetRequests(w) /\ told[w]
             /\ Stage(w) = "refused" => consumed[w] # BudgetRequests(w) /\ ~told[w]
             /\ Stage(w) = "undone" => consumed[w] = {}
  <2>1. Known(pc[w], result[w], consumed[w], BudgetRequests(w), told[w], Own(w))
    BY <1>1, AtOne, GuardedIs
  <2>2. CASE Own(w)
    BY <2>1, <2>2, StageIs DEF Known
  <2>3. CASE ~Own(w)
    <3>1. Stage(w) = At(pc[w], result[w])
      BY <2>3, StageIs
    <3>2. /\ At(pc[w], result[w]) = "told" => pc[w] = "post"
          /\ At(pc[w], result[w]) # "posted"
          /\ At(pc[w], result[w]) = "refused" => result[w] = "Insufficient funds"
          /\ At(pc[w], result[w]) = "undone" => result[w] = "Subaccounts updation failed"
      BY DEF At
    <3> QED BY <2>1, <3>1, <3>2 DEF Known
  <2> QED BY <2>2, <2>3
<1>2. IInv => Saga!Promise
  BY <1>1 DEF Saga!Promise
<1> QED BY <1>2, Invariant, PTL
--------------------------------------------------------------------------------
(* The refinement *)

(* The ledgers of the saga. *)
StageF == [w \in Guarded |-> Stage(w)]
PaidF == [w \in Guarded |-> consumed[w]]
SaidF == [w \in Guarded |-> told[w]]

(* A step of w moves the ledgers of the saga at w only. *)
LEMMA SagaMoves ==
  ASSUME NEW w \in Approvals, Others(w)
  PROVE  /\ w \in Guarded => /\ StageF' = [StageF EXCEPT ![w] = Stage(w)']
                              /\ PaidF' = [PaidF EXCEPT ![w] = consumed'[w]]
                              /\ SaidF' = [SaidF EXCEPT ![w] = told'[w]]
         /\ w \notin Guarded => UNCHANGED <<StageF, PaidF, SaidF>>
<1>1. \A v \in Guarded : v # w => Stage(v)' = Stage(v) /\ consumed'[v] = consumed[v] /\ told'[v] = told[v]
  BY SameStage, GuardedIs DEF Others
<1>2. Guarded' = Guarded
  BY DEF Guarded
<1>3. ASSUME w \in Guarded PROVE StageF' = [StageF EXCEPT ![w] = Stage(w)']
  BY <1>1, <1>2, <1>3 DEF StageF
<1>4. ASSUME w \in Guarded PROVE PaidF' = [PaidF EXCEPT ![w] = consumed'[w]]
  BY <1>1, <1>2, <1>4 DEF PaidF
<1>5. ASSUME w \in Guarded PROVE SaidF' = [SaidF EXCEPT ![w] = told'[w]]
  BY <1>1, <1>2, <1>5 DEF SaidF
<1>6. ASSUME w \notin Guarded PROVE UNCHANGED <<StageF, PaidF, SaidF>>
  BY <1>1, <1>2, <1>6 DEF StageF, PaidF, SaidF
<1> QED BY <1>3, <1>4, <1>5, <1>6

(* A step of an approval maps to a step of the saga, or to none. *)
LEMMA SagaSteps ==
  ASSUME IInv, IInv', NEW w \in Approvals, Others(w),
         w \in Guarded => SagaStep(w)
  PROVE  [Saga!Next]_<<StageF, PaidF, SaidF>>
<1>1. CASE w \notin Guarded
  BY <1>1, SagaMoves
<1>2. CASE w \in Guarded
  <2>1. /\ StageF' = [StageF EXCEPT ![w] = Stage(w)'] /\ PaidF' = [PaidF EXCEPT ![w] = consumed'[w]]
        /\ SaidF' = [SaidF EXCEPT ![w] = told'[w]]
    BY <1>2, SagaMoves
  <2>2. StageF[w] = Stage(w) /\ PaidF[w] = consumed[w] /\ SaidF[w] = told[w]
    BY <1>2 DEF StageF, PaidF, SaidF
  <2>3. StageF = [StageF EXCEPT ![w] = StageF[w]] /\ PaidF = [PaidF EXCEPT ![w] = PaidF[w]]
        /\ SaidF = [SaidF EXCEPT ![w] = SaidF[w]]
    BY DEF StageF, PaidF, SaidF
  <2>4. told'[w] \in BOOLEAN
    BY DEF IInv, Ledgers
  <2>5. CASE Stage(w)' = Stage(w) /\ consumed'[w] = consumed[w] /\ told'[w] = told[w]
    BY <2>1, <2>2, <2>3, <2>5
  <2>6. CASE Stage(w) = "open" /\ Stage(w)' = "consumed" /\ consumed'[w] = BudgetRequests(w) /\ told'[w] = told[w]
    <3>1. Saga!Consume(w)
      BY <1>2, <2>1, <2>2, <2>3, <2>6 DEF Saga!Consume, Saga!Step, Saga!Takes, StageF, PaidF, SaidF
    <3> QED BY <1>2, <3>1 DEF Saga!Next
  <2>7. CASE Stage(w) = "open" /\ Stage(w)' = "refused" /\ consumed'[w] \in Parts(w) /\ told'[w] = told[w]
    <3>1. Saga!Refuse(w)
      BY <1>2, <2>1, <2>2, <2>3, <2>7 DEF Saga!Refuse, Saga!Step, Saga!Takes, Parts, StageF, PaidF, SaidF
    <3> QED BY <1>2, <3>1 DEF Saga!Next
  <2>8. CASE Stage(w) = "consumed" /\ Stage(w)' = "told" /\ consumed'[w] = consumed[w] /\ told'[w] = TRUE
    <3>1. Saga!Tell(w)
      BY <2>1, <2>2, <2>3, <2>8 DEF Saga!Tell, Saga!Step, StageF, PaidF, SaidF
    <3> QED BY <1>2, <3>1 DEF Saga!Next
  <2>9. CASE Stage(w) = "told" /\ Stage(w)' = "posted" /\ consumed'[w] = consumed[w] /\ told'[w] = told[w]
    <3>1. Saga!Post(w)
      BY <2>1, <2>2, <2>3, <2>9 DEF Saga!Post, Saga!Step, StageF, PaidF, SaidF
    <3> QED BY <1>2, <3>1 DEF Saga!Next
  <2>10. CASE Stage(w) = "consumed" /\ Stage(w)' = "undoing" /\ consumed'[w] = consumed[w]
    <3>1. Saga!GiveUp(w)
      BY <2>1, <2>2, <2>3, <2>4, <2>10 DEF Saga!GiveUp, Saga!Step, StageF, PaidF, SaidF
    <3> QED BY <1>2, <3>1 DEF Saga!Next
  <2>11. CASE Stage(w) = "undoing" /\ Stage(w)' = "undone" /\ consumed'[w] = {} /\ told'[w] = told[w]
    <3>1. Saga!Undo(w)
      BY <2>1, <2>2, <2>3, <2>11 DEF Saga!Undo, Saga!Step, Saga!Takes, StageF, PaidF, SaidF
    <3> QED BY <1>2, <3>1 DEF Saga!Next
  <2>12. CASE Stage(w) \in {"open", "consumed", "undoing"} /\ Stage(w)' = "left" /\ consumed'[w] \in SUBSET BudgetRequests(w) /\ told'[w] = told[w]
    <3>1. Saga!Leave(w)
      BY <2>1, <2>2, <2>3, <2>4, <2>12, <1>2 DEF Saga!Leave, Saga!Step, Saga!Takes, StageF, PaidF, SaidF
    <3> QED BY <1>2, <3>1 DEF Saga!Next
  <2> QED BY <1>2, <2>5, <2>6, <2>7, <2>8, <2>9, <2>10, <2>11, <2>12 DEF SagaStep
<1> QED BY <1>1, <1>2

(* Every step of the workflow is one of the saga, or changes nothing of it. *)
LEMMA NextSaga == ASSUME IInv, IInv', [Next]_vars PROVE [Saga!Next]_<<StageF, PaidF, SaidF>>
<1>1. CASE UNCHANGED vars
  BY <1>1 DEF vars, StageF, PaidF, SaidF, Stage
<1>2. CASE \E w \in Approvals : Handler(w) \/ Workflow(w)
  <2>1. PICK w \in Approvals : Handler(w) \/ Workflow(w)
    BY <1>2
  <2>2. Others(w) /\ (w \in Guarded => SagaStep(w))
    BY <2>1, SaveIInv, ExecuteIInv, BudgetIInv, SubaccountsIInv, ReversalIInv, PostingIInv DEF Handler, Workflow
  <2> QED BY <2>2, SagaSteps
<1> QED BY <1>1, <1>2 DEF Next

LEMMA InitSaga == ASSUME Init PROVE Saga!Init
<1>1. \A w \in Approvals : ~Own(w) /\ pc[w] = "none" /\ result[w] = "none" /\ consumed[w] = {} /\ ~told[w]
  BY OfAnEntry DEF Init, Own
<1>2. \A w \in Guarded : Stage(w) = "open" /\ consumed[w] = {} /\ told[w] = FALSE
  BY <1>1, GuardedIs, StageIs, Running DEF Init
<1> QED BY <1>2 DEF Saga!Init

(* The workflow implements the saga on the approvals it guards. *)
THEOREM Implements == Spec => ImplementsSaga
<1>1. Init => Saga!Init
  BY InitSaga
<1>2. IInv /\ IInv' /\ [Next]_vars => [Saga!Next]_<<StageF, PaidF, SaidF>>
  BY NextSaga
<1> QED BY <1>1, <1>2, Invariant, PTL DEF Spec, ImplementsSaga, Saga!Spec, StageF, PaidF, SaidF
================================================================================
