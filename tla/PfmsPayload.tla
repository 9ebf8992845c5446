------------------------------ MODULE PfmsPayload ------------------------------
(***************************************************************************)
(* What the PAO back end sends to PFMS for a list of cash books: the       *)
(* accounting lines generate_pfms_json returns, brought to positive        *)
(* amounts, closed by one cash line per office, and their mirror image for *)
(* a negative entry.                                                       *)
(* A line is [ddo, sign, amount, side]: its office, and side "T" for a     *)
(* receipt, "F" for a payment.  The heads, grants and remarks of a line do *)
(* not matter to any property and are left out, and so is the order of the *)
(* lines: a payload is a function from the place a line comes from to the  *)
(* line.                                                                   *)
(***************************************************************************)
EXTENDS Integers, Functions, Sums

CONSTANT Allowance    \* the difference from which a submission is refused (100)

Flipped(s) == IF s = "+" THEN "-" ELSE "+"

(* ProcessAmountAndSign: a negative amount becomes positive and its sign turns. *)
ProcessAmountAndSign(lines) ==
  [i \in DOMAIN lines |->
     IF lines[i].amount < 0
     THEN [lines[i] EXCEPT !.amount = -@, !.sign = Flipped(@)]
     ELSE lines[i]]

(* What one line adds to the total of its side. *)
Signed(l) == IF l.sign = "-" THEN -l.amount ELSE l.amount

(* CalculateTotalsByDDO: the offices that have a line, and their receipts and payments. *)
Offices(lines) == {lines[i].ddo : i \in DOMAIN lines}

TotalOf(lines, side, o) ==
  SumOf([i \in DOMAIN lines |->
           IF lines[i].side = side /\ lines[i].ddo = o THEN Signed(lines[i]) ELSE 0], DOMAIN lines)

Net(lines, o) == TotalOf(lines, "T", o) - TotalOf(lines, "F", o)

(* equationResult of FetchPfmsHandler; closing is its closingBalMap, and an office *)
(* without an entry there is passed over.                                          *)
Equation(lines, closing, o) == Net(lines, o) - 2 * closing[o]
Compared(lines, closing) == Offices(lines) \cap DOMAIN closing

TooFarOff(lines, closing) == \E o \in Compared(lines, closing) : Equation(lines, closing, o) >= Allowance

(* The line that closes the account of an office: cash received or cash sent. *)
CashLine(o, e) ==
  [ddo |-> o, sign |-> "+", amount |-> IF e < 0 THEN -e ELSE e, side |-> IF e < 0 THEN "T" ELSE "F"]

\* Its place, which no generated line has.
Closing(o) == <<0, o>>

ToClose(lines, closing) == {o \in Compared(lines, closing) : Equation(lines, closing, o) # 0}

Closed(lines, closing) ==
  [i \in DOMAIN lines \cup {Closing(o) : o \in ToClose(lines, closing)} |->
     IF i \in DOMAIN lines THEN lines[i] ELSE CashLine(i[2], Equation(lines, closing, i[2]))]

(* ConvertToDetailsArray: only lines with a positive amount are sent. *)
ConvertToDetailsArray(lines) == Restrict(lines, {i \in DOMAIN lines : lines[i].amount > 0})

(* Mutant of Payload: negative amounts are sent, and dropped, as they are. *)
PayloadUnprocessed(generated, closing) == ConvertToDetailsArray(Closed(generated, closing))

(* The payload for these generated lines and closing balances. *)
Payload(generated, closing) == ConvertToDetailsArray(Closed(ProcessAmountAndSign(generated), closing))

(* BuildReversalPayload: the same lines with every sign turned. *)
BuildReversalPayload(details) ==
  [i \in DOMAIN details |-> [details[i] EXCEPT !.sign = Flipped(@)]]
================================================================================
