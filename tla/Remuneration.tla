------------------------------- MODULE Remuneration -------------------------------
(***************************************************************************)
(* Remuneration rates and the calculations made with them.  A rate is kept *)
(* per year, item and type, here one key, and per authorisation status;    *)
(* "2" is an approved one.  An update is by key only: it writes every row  *)
(* of the key, and fails when two rows would become one.                   *)
(***************************************************************************)
EXTENDS Integers, FiniteSets

CONSTANTS
  Items,        \* year, item and type
  Rates,
  Auth,         \* authorisation statuses, "2" among them
  Callers,      \* who calculates: the handler and the service of another system
  Counts,       \* how many of an item
  MaxPaid       \* bound on the calculations recorded

VARIABLES
  rates,        \* pao.remuneration_rate_master: the rate and whether it is in force
  calc,         \* what each caller has read and not recorded yet
  paid,         \* pao.remuneration
  effective     \* the rates an item has been approved with so far

remVars == <<rates, calc, paid, effective>>

RateKeys == DOMAIN rates
RowsFor(i) == {k \in RateKeys : k.item = i}
Idle == [pc |-> "idle"]

RemInit ==
  /\ rates = [k \in {} |-> << >>]
  /\ calc = [c \in Callers |-> Idle]
  /\ paid = {}
  /\ effective = [i \in Items |-> {}]

Store(new) ==
  /\ rates' = new
  /\ effective' = [i \in Items |->
       effective[i] \cup {new[k].rate : k \in {q \in DOMAIN new : q.item = i /\ q.auth = "2"}}]

(* RemCreatewithpgx: a copy, refused if a row is there. *)
CreateRemunerationRate(i, rate, auth) ==
  LET k == [item |-> i, auth |-> auth] IN
  /\ k \notin RateKeys
  /\ Store([x \in RateKeys \cup {k} |-> IF x = k THEN [rate |-> rate, inForce |-> TRUE] ELSE rates[x]])
  /\ UNCHANGED <<calc, paid>>

(* Updateremexe: all rows of the key get the new values, the status among them, so  *)
(* an item with two rows cannot be updated.                                         *)
Updateremexe(i, k, row) ==
  /\ Cardinality(RowsFor(i)) = 1
  /\ Store([x \in (RateKeys \ RowsFor(i)) \cup {k} |-> IF x = k THEN row ELSE rates[x]])

(* The handler sets who updated or who approved, and passes the rest on. *)
UpdateRemunerationRate(i, rate, auth, inForce) ==
  /\ Updateremexe(i, [item |-> i, auth |-> auth], [rate |-> rate, inForce |-> inForce])
  /\ UNCHANGED <<calc, paid>>

(* GetRemRepo: by item or by authorisation those in force, or those in force or not. *)
ListRates(type, id) ==
  {k \in RateKeys : CASE type = 1 -> k.item = id /\ rates[k].inForce
                      [] type = 2 -> k.auth = id /\ rates[k].inForce
                      [] type = 3 -> rates[k].inForce = id}

(* Mutant of ReadRate: the rates in force, approved or not. *)
ReadRateInForce(c, i, n) ==
  /\ calc[c].pc = "idle"
  /\ LET found == {k \in RowsFor(i) : rates[k].inForce} IN
     calc' = [calc EXCEPT ![c] =
       IF found = {} THEN Idle
       ELSE [pc |-> "post", rows |-> {[item |-> i, rate |-> rates[k].rate, count |-> n,
                                       amount |-> n * rates[k].rate] : k \in found}]]
  /\ UNCHANGED <<rates, paid, effective>>
(* RemunerationCalculationRepo: the approved rates, in force or not. *)
ReadRate(c, i, n) ==
  /\ calc[c].pc = "idle"
  /\ LET found == {k \in RowsFor(i) : k.auth = "2"} IN
     calc' = [calc EXCEPT ![c] =
       IF found = {} THEN Idle
       ELSE [pc |-> "post", rows |-> {[item |-> i, rate |-> rates[k].rate, count |-> n,
                                       amount |-> n * rates[k].rate] : k \in found}]]
  /\ UNCHANGED <<rates, paid, effective>>

(* RemunerationCalculationPostRepo: recorded under the time. *)
RemunerationCalculationPost(rows) ==
  /\ Cardinality(paid) < MaxPaid
  /\ paid' = paid \cup {[at |-> Cardinality(paid), rows |-> rows]}

(* The second half of RemunerationCalculation; the insert may fail. *)
PostCalculation(c) ==
  /\ calc[c].pc = "post"
  /\ calc' = [calc EXCEPT ![c] = Idle]
  /\ RemunerationCalculationPost(calc[c].rows) \/ UNCHANGED paid
  /\ UNCHANGED <<rates, effective>>

(* RemunerationCalculatedYearRepo *)
CalculatedFor(i) == UNION {{r \in p.rows : r.item = i} : p \in paid}

RemNext ==
  \/ \E i \in Items, rate \in Rates, auth \in Auth :
       \/ CreateRemunerationRate(i, rate, auth)
       \/ \E f \in BOOLEAN : UpdateRemunerationRate(i, rate, auth, f)
  \/ \E c \in Callers :
       \/ \E i \in Items, n \in Counts : ReadRate(c, i, n)
       \/ PostCalculation(c)

--------------------------------------------------------------------------------
(* Properties *)

(* A recorded calculation has one amount for its item, of a rate that was approved  *)
(* for it at some time, although rates change between the reading and the record;   *)
(* and the officer who looks for a rate by its status, by its item or among all     *)
(* finds the same rows.                                                             *)
PaidAtAnApprovedRate ==
  /\ \A i \in Items : \A r \in CalculatedFor(i) : r.rate \in effective[i] /\ r.amount = r.count * r.rate
  /\ \A p \in paid : Cardinality(p.rows) = 1
  /\ \A k \in RateKeys : k \in ListRates(2, k.auth) <=> k \in ListRates(3, TRUE) /\ k \in ListRates(1, k.item)
================================================================================
