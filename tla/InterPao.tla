-------------------------------- MODULE InterPao --------------------------------
(***************************************************************************)
(* Transfer entries between accounts offices (PAOs).  A master PAO books   *)
(* rows of several PAOs under one identifier; it approves its own rows,    *)
(* which offers the others to their PAOs; each PAO approves its rows; any  *)
(* of them may delete the entry.  Officers act on the page they opened,    *)
(* while others act; no statement looks at the status it replaces.         *)
(***************************************************************************)
EXTENDS Integers, FiniteSets, FiniteSetsExt

CONSTANTS
  Paos,         \* the accounts offices
  Officers,     \* who has a page open
  Batches,      \* what may be booked: the signed amount of each PAO
  MaxBatches,   \* bound on the entries booked
  MaxClock      \* bound on the seconds

VARIABLES
  interpao,     \* pao.transfer_entry_interpao: the status of each row
  clock,        \* the second
  page,         \* the page each officer has open: the entry, its rows, the PAO
  overtaken     \* entries acted on from a page that was no longer true

interVars == <<interpao, clock, page, overtaken>>

Rows == DOMAIN interpao
RowsOf(id) == {r \in Rows : r.id = id}
BooksOf(id) == {r.nth : r \in RowsOf(id)}
NoPage == [id |-> << >>]

InterInit ==
  /\ interpao = [r \in {} |-> "initiated"]
  /\ clock = 0
  /\ page = [o \in Officers |-> NoPage]
  /\ overtaken = {}

(* Total_debit = Total_credit. *)
InterBalanced(batch) == MapThenSumSet(LAMBDA p : batch[p], DOMAIN batch) = 0

(* TransferentryInterPaoCreationRepo: the identifier is the master's code and *)
(* the second, so that two entries of one second are one.                     *)
TransferentryInterPaoCreation(m, batch) ==
  LET id == <<m, clock>>
      nth == 1 + Cardinality(BooksOf(id))
      new == {[id |-> id, nth |-> nth, pao |-> p] : p \in DOMAIN batch}
  IN interpao' = [r \in Rows \cup new |-> IF r \in new THEN "initiated" ELSE interpao[r]]

CreateInterPao(m, batch) ==
  /\ InterBalanced(batch)
  /\ Cardinality({<<r.id, r.nth>> : r \in Rows}) < MaxBatches
  /\ TransferentryInterPaoCreation(m, batch)
  /\ UNCHANGED <<clock, page, overtaken>>

InterTick == clock < MaxClock /\ clock' = clock + 1 /\ UNCHANGED <<interpao, page, overtaken>>

(* The lists of the master's and of the other PAOs' entries, by status: "initiated" *)
(* cannot be asked for.                                                             *)
ListInterPaoMaster(p, st) == {r.id : r \in {q \in Rows : q.id[1] = p /\ interpao[q] = st}}
ListInterPao(p, st) == {r.id : r \in {q \in Rows : q.pao = p /\ interpao[q] = st}}

(* InterPaoTransferentryDetailRepo: all rows of the identifier. *)
Detail(id) == [r \in RowsOf(id) |-> interpao[r]]

(* An officer opens an entry: of its own PAO, known from the answer of the creation *)
(* and not approved yet, or offered to the PAO by the list.                         *)
OpenInterPao(o, p, id) ==
  /\ \/ p = id[1] /\ \E r \in RowsOf(id) : r.pao = p /\ interpao[r] = "initiated"
     \/ p # id[1] /\ id \in ListInterPao(p, "created")
  /\ page' = [page EXCEPT ![o] = [id |-> id, pao |-> p, shows |-> Detail(id)]]
  /\ UNCHANGED <<interpao, clock, overtaken>>

(* The officer answers the page; the entry is overtaken if it no longer shows it. *)
Answers(o, id) ==
  /\ page[o].id = id
  /\ page' = [page EXCEPT ![o] = NoPage]
  /\ overtaken' = IF page[o].shows = Detail(id) THEN overtaken ELSE overtaken \cup {id}
  /\ UNCHANGED clock

(* TransferentryInterPaoMasterVerifyRepo: the master's rows are verified, all others *)
(* are offered, whatever they were.  When the second statement fails the batch is    *)
(* undone, and the answer is a success all the same.                                 *)
MasterVerify(id) ==
  \/ interpao' = [r \in Rows |-> IF r.id # id THEN interpao[r]
                                 ELSE IF r.pao = id[1] THEN "verified" ELSE "created"]
  \/ UNCHANGED interpao

(* Mutant of VerifyInterPao: the other offices' rows are offered again, as the master's *)
(* approval does.                                                                       *)
VerifyInterPaoOffers(id, p) ==
  interpao' = [r \in Rows |-> IF r.id # id THEN interpao[r] ELSE IF r.pao = p THEN "verified" ELSE "created"]
(* TransferentryInterPaoVerifyRepo. *)
VerifyInterPao(id, p) ==
  interpao' = [r \in Rows |-> IF r.id = id /\ r.pao = p THEN "verified" ELSE interpao[r]]

(* Mutant of RejectInterPao: what an office has approved stays. *)
RejectInterPaoPending(id) ==
  interpao' = [r \in Rows |-> IF r.id = id /\ interpao[r] # "verified" THEN "deleted" ELSE interpao[r]]
(* TransferentryInterPaoRejectRepo: all rows of the identifier. *)
RejectInterPao(id) == interpao' = [r \in Rows |-> IF r.id = id THEN "deleted" ELSE interpao[r]]

(* The master's answer and another PAO's answer to the page. *)
UpdateInterPaoMaster(o, id) ==
  /\ Answers(o, id) /\ page[o].pao = id[1]
  /\ MasterVerify(id) \/ RejectInterPao(id)

UpdateInterPao(o, id) ==
  /\ Answers(o, id) /\ page[o].pao # id[1]
  /\ VerifyInterPao(id, page[o].pao) \/ RejectInterPao(id)

Ids == {r.id : r \in Rows}

InterNext ==
  \/ \E m \in Paos, batch \in Batches : CreateInterPao(m, batch)
  \/ InterTick
  \/ \E o \in Officers, id \in Ids :
       \/ \E p \in Paos : OpenInterPao(o, p, id)
       \/ UpdateInterPaoMaster(o, id)
       \/ UpdateInterPao(o, id)

--------------------------------------------------------------------------------
(* Properties *)

(* Entries nobody overtook, and that share their identifier with no other. *)
Plain(id) == id \notin overtaken /\ Cardinality(BooksOf(id)) = 1

(* The rows of an entry move together: no PAO has an entry its master did not      *)
(* approve, and a deleted entry is deleted for everybody.                          *)
EntryMovesTogether ==
  \A id \in {i \in Ids : Plain(i)} : \A r, q \in RowsOf(id) :
    /\ r.pao # id[1] /\ interpao[r] \in {"created", "verified"} /\ q.pao = id[1] => interpao[q] = "verified"
    /\ interpao[r] = "deleted" => interpao[q] = "deleted"

(* What a PAO approved is taken back by a deletion only, unless the entry was       *)
(* overtaken: a second approval of the master offers it again.                      *)
ApprovedStaysApproved ==
  [][\A r \in Rows : interpao[r] = "verified" /\ interpao'[r] # "verified" =>
       interpao'[r] = "deleted" \/ r.id \in overtaken' \/ ~Plain(r.id)]_interVars
================================================================================
