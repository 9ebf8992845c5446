-------------------------- MODULE TransferEntryProofs --------------------------
(***************************************************************************)
(* For any batches, number of requests and bounds, whatever is lost, fails *)
(* or is reset: what a row says of PFMS is so, PFMS holds two postings of  *)
(* an entry only when the entry is adrift, and a negative entry is posted  *)
(* once, for a booked posting.                                             *)
(*                                                                         *)
(* The properties speak of what PFMS holds, the code decides by what its   *)
(* tables say.  The invariant ties the two: a posting that counts is named *)
(* by the rows of its entries (Posted) and a negative one by a submission  *)
(* (Reversed), or by the request that is about to write it; requests that  *)
(* post share no entry (Apart), and one about to post has seen none of     *)
(* this (Unmarked, FirstToNegate).  Each of these is about the entries     *)
(* that are not adrift.                                                    *)
(***************************************************************************)
EXTENDS TransferEntry, FiniteSetTheorems, SequenceTheorems, TLAPS

RowFields == {"type", "amount", "status", "by", "uid", "flag", "gen"}
PostingFields == {"ids", "lines", "of", "state"}
SubFields == {"type", "ids", "status", "of"}

HasRows(id) == \E k \in DOMAIN rows : k[2] = id

\* What a row says of PFMS is so.
RowsTrue ==
  \A k \in DOMAIN rows :
    /\ DOMAIN rows[k] = RowFields
    /\ rows[k].gen \in BOOLEAN
    /\ ~rows[k].gen => rows[k].uid = 0
    /\ rows[k].uid # 0 => rows[k].uid \in DOMAIN pfms /\ k[2] \in pfms[rows[k].uid].ids
    /\ rows[k].flag = "Success" => rows[k].uid # 0 /\ pfms[rows[k].uid].state = "ok"

\* A posting holds entries that have rows; a negative one those of a booked posting.
InSequence == pfms \in Seq({pfms[u] : u \in DOMAIN pfms})
PostingsTrue ==
  /\ InSequence
  /\ \A u \in DOMAIN pfms :
       /\ DOMAIN pfms[u] = PostingFields
       /\ pfms[u].ids # {} /\ \A id \in pfms[u].ids : HasRows(id)
       /\ pfms[u].of # 0 => /\ pfms[u].of \in DOMAIN pfms /\ pfms[u].ids = pfms[pfms[u].of].ids
                            /\ pfms[pfms[u].of].of = 0 /\ pfms[pfms[u].of].state = "ok"

SubTrue ==
  \A u \in DOMAIN sub :
    /\ DOMAIN sub[u] = SubFields /\ sub[u].type \in {"te", "terev"}
    /\ sub[u].status = "Pending" => sub[u].type = "te"
    /\ sub[u].type = "te" =>
         /\ u \in DOMAIN pfms /\ pfms[u].of = 0 /\ pfms[u].ids = sub[u].ids
         /\ sub[u].status = "Success" => pfms[u].state = "ok"
    /\ sub[u].type = "terev" /\ sub[u].status = "Success" =>
         u \in DOMAIN pfms /\ pfms[u].of # 0 /\ pfms[u].of = sub[u].of

IsOp(t, op) == req[t].op = op
Posts(t) == req[t].op \in {"submit", "negative"}

Submitting(t) ==
  /\ DOMAIN req[t] = {"op", "pc", "ids", "uid"} /\ req[t].pc \in {"call", "mark", "record"}
  /\ req[t].ids # {} /\ \A id \in req[t].ids : HasRows(id)
  /\ req[t].pc = "call" => req[t].uid = 0
  /\ req[t].pc # "call" => /\ req[t].uid \in DOMAIN pfms /\ pfms[req[t].uid].of = 0
                           /\ pfms[req[t].uid].ids = req[t].ids

Negating(t) ==
  /\ DOMAIN req[t] = {"op", "pc", "ids", "of", "uid", "status"} /\ req[t].pc \in {"call", "insert", "audit"}
  /\ req[t].of \in DOMAIN pfms /\ req[t].ids = pfms[req[t].of].ids
  /\ pfms[req[t].of].of = 0 /\ pfms[req[t].of].state = "ok"
  /\ req[t].pc = "call" => req[t].uid = 0
  /\ req[t].uid = 0 => req[t].status = "Failed"
  /\ req[t].uid # 0 => /\ req[t].uid \in DOMAIN pfms /\ pfms[req[t].uid].of = req[t].of
                       /\ req[t].status = "Success"

ReqOK(t) ==
  /\ {"op", "ids"} \subseteq DOMAIN req[t]
  /\ req[t].op \in {"idle", "verify", "reject", "submit", "negative"}
  /\ IsOp(t, "idle") => req[t] = Idle
  /\ req[t].op \in {"verify", "reject"} => DOMAIN req[t] = {"op", "pc", "ids", "lines"}
  /\ IsOp(t, "submit") => Submitting(t)
  /\ IsOp(t, "negative") => Negating(t)
ReqTrue == DOMAIN req = Threads /\ \A t \in Threads : ReqOK(t)

\* Two requests that post to PFMS share no entry that is not adrift.
Apart ==
  \A t, u \in Threads : t # u /\ Posts(t) /\ Posts(u) => req[t].ids \cap req[u].ids \subseteq adrift

\* An entry on its way to PFMS is not marked as generated yet.
Unmarked ==
  \A t \in Threads : IsOp(t, "submit") /\ req[t].pc \in {"call", "mark"} =>
    \A k \in DOMAIN rows : k[2] \in req[t].ids \ adrift => ~rows[k].gen

\* A posting PFMS did not turn down is the one its entries name, or is about to be.
MarkedBy(u, id) == \A k \in DOMAIN rows : k[2] = id => rows[k].gen /\ rows[k].uid = u
Marking(u) == \E t \in Threads : IsOp(t, "submit") /\ req[t].pc = "mark" /\ req[t].uid = u
Posted ==
  \A u \in DOMAIN pfms : pfms[u].of = 0 /\ pfms[u].state # "bad" =>
    \A id \in pfms[u].ids \ adrift : MarkedBy(u, id) \/ Marking(u)

\* A negative posting is recorded, or is about to be.
Recorded(w) == w \in DOMAIN sub /\ sub[w].type = "terev" /\ sub[w].of = pfms[w].of /\ sub[w].status = "Success"
Recording(w) == \E t \in Threads : IsOp(t, "negative") /\ req[t].pc = "insert" /\ req[t].uid = w
Reversed ==
  \A w \in DOMAIN pfms : pfms[w].of # 0 /\ pfms[w].ids \cap adrift = {} => Recorded(w) \/ Recording(w)

\* A request about to post a negative entry is the first to.
FirstToNegate ==
  \A t \in Threads : IsOp(t, "negative") /\ req[t].pc = "call" /\ req[t].ids \cap adrift = {} =>
    \A w \in DOMAIN pfms : pfms[w].of # req[t].of
Once ==
  \A v, w \in DOMAIN pfms : pfms[v].of # 0 /\ pfms[v].of = pfms[w].of /\ pfms[v].ids \cap adrift = {} => v = w

TeInv ==
  RowsTrue /\ PostingsTrue /\ SubTrue /\ ReqTrue /\ Apart /\ Unmarked /\ Posted
  /\ Reversed /\ FirstToNegate /\ Once

--------------------------------------------------------------------------------
(* What steps leave alone *)

\* A posting keeps its entries and what it cancels, and is decided on once.
Kept ==
  \A u \in DOMAIN pfms :
    /\ u \in DOMAIN pfms' /\ pfms'[u].ids = pfms[u].ids /\ pfms'[u].of = pfms[u].of
    /\ pfms[u].state = "ok" => pfms'[u].state = "ok"
    /\ pfms'[u].state # "bad" => pfms[u].state # "bad"

KeysKept == DOMAIN rows \subseteq DOMAIN rows'
SameMarks(k) ==
  /\ k \in DOMAIN rows /\ DOMAIN rows'[k] = RowFields
  /\ rows'[k].gen = rows[k].gen /\ rows'[k].uid = rows[k].uid
Unset(k) ==
  DOMAIN rows'[k] = RowFields /\ rows'[k].gen = FALSE /\ rows'[k].uid = 0
FlagsRest ==
  \A k \in DOMAIN rows' : rows'[k].flag = "Success" => SameMarks(k) /\ rows[k].flag = "Success"

RowsRest == \A k \in DOMAIN rows' : SameMarks(k) \/ Unset(k)
\* Rows are only added, to an entry that has some only when it is adrift.
RowsSame ==
  /\ KeysKept
  /\ \A k \in DOMAIN rows' : SameMarks(k) \/ (Unset(k) /\ (HasRows(k[2]) => k[2] \in adrift'))

OthersRest(t) == DOMAIN req' = Threads /\ \A x \in Threads : x # t => req'[x] = req[x]
ReversalsKept ==
  \A w \in DOMAIN sub : sub[w].type = "terev" /\ sub[w].status = "Success" =>
    /\ w \in DOMAIN sub' /\ sub'[w].type = "terev" /\ sub'[w].status = "Success"
    /\ sub'[w].of = sub[w].of

(* The identifiers of postings are the positions in the sequence; 0 is none. *)
LEMMA PostingIds ==
  ASSUME PostingsTrue
  PROVE  \A u \in DOMAIN pfms : u \in Nat /\ u # 0
<1>1. DOMAIN pfms = 1 .. Len(pfms) /\ Len(pfms) \in Nat
  BY DEF PostingsTrue, InSequence
<1> QED  BY <1>1

(* Rows keep telling the truth while their marks stand and no flag turns to Success. *)
LEMMA RowsStand ==
  ASSUME RowsTrue, Kept, RowsRest, FlagsRest
  PROVE  RowsTrue'
<1> SUFFICES ASSUME NEW k \in DOMAIN rows'
             PROVE  /\ DOMAIN rows'[k] = RowFields /\ rows'[k].gen \in BOOLEAN
                    /\ ~rows'[k].gen => rows'[k].uid = 0
                    /\ rows'[k].uid # 0 =>
                         rows'[k].uid \in DOMAIN pfms' /\ k[2] \in pfms'[rows'[k].uid].ids
                    /\ rows'[k].flag = "Success" => rows'[k].uid # 0 /\ pfms'[rows'[k].uid].state = "ok"
  BY DEF RowsTrue
<1>1. CASE SameMarks(k)
  <2>1. /\ rows[k].gen \in BOOLEAN
        /\ ~rows[k].gen => rows[k].uid = 0
        /\ rows[k].uid # 0 => rows[k].uid \in DOMAIN pfms /\ k[2] \in pfms[rows[k].uid].ids
        /\ rows[k].flag = "Success" => rows[k].uid # 0 /\ pfms[rows[k].uid].state = "ok"
    BY <1>1 DEF RowsTrue, SameMarks
  <2>2. rows[k].uid # 0 => /\ rows[k].uid \in DOMAIN pfms' /\ k[2] \in pfms'[rows[k].uid].ids
                           /\ pfms[rows[k].uid].state = "ok" => pfms'[rows[k].uid].state = "ok"
    BY <2>1 DEF Kept
  <2>3. rows'[k].flag = "Success" => rows[k].flag = "Success"
    BY DEF FlagsRest
  <2> QED  BY <1>1, <2>1, <2>2, <2>3 DEF SameMarks
<1>2. CASE Unset(k) /\ ~SameMarks(k)
  BY <1>2 DEF Unset, FlagsRest
<1> QED  BY <1>1, <1>2 DEF RowsRest

(* Postings hold entries with rows as long as no row goes. *)
LEMMA PostingsStand ==
  ASSUME PostingsTrue, pfms' = pfms, KeysKept
  PROVE  PostingsTrue'
BY DEF PostingsTrue, InSequence, KeysKept, HasRows

(* The submissions agree with postings that keep what they hold. *)
LEMMA SubStands ==
  ASSUME SubTrue, Kept, sub' = sub
  PROVE  SubTrue'
BY DEF SubTrue, Kept

(* A request that does not move keeps its shape. *)
LEMMA ReqOKStands ==
  ASSUME NEW t \in Threads, ReqOK(t), Kept, KeysKept, req'[t] = req[t]
  PROVE  ReqOK(t)'
<1>1. Submitting(t) => Submitting(t)'
  BY DEF Submitting, Kept, KeysKept, HasRows
<1>2. Negating(t) => Negating(t)'
  BY DEF Negating, Kept
<1> QED  BY <1>1, <1>2 DEF ReqOK, IsOp

(* When only t moves, the others keep their shape. *)
LEMMA ReqStands ==
  ASSUME NEW t, ReqTrue, Kept, KeysKept, OthersRest(t), t \in Threads => ReqOK(t)'
  PROVE  ReqTrue'
<1>1. ASSUME NEW x \in Threads, x # t PROVE ReqOK(x)'
  BY <1>1, ReqOKStands DEF ReqTrue, OthersRest
<1> QED  BY <1>1 DEF ReqTrue, OthersRest

(* A request that ends leaves an idle thread. *)
LEMMA IdleIsOK ==
  ASSUME NEW t \in Threads, ReqTrue, Done(t)
  PROVE  OthersRest(t) /\ req'[t] = Idle /\ ReqOK(t)'
<1>1. OthersRest(t) /\ req'[t] = Idle
  BY DEF ReqTrue, Done, OthersRest
<1> QED  BY <1>1 DEF ReqOK, IsOp, Idle

(* Postings under way stay apart when t begins none, or begins one with entries nobody *)
(* else holds or that become adrift.                                                   *)
LEMMA ApartStands ==
  ASSUME NEW t, Apart, OthersRest(t), adrift \subseteq adrift',
         Posts(t)' => \/ Posts(t) /\ req'[t].ids = req[t].ids
                      \/ \A x \in Threads : x # t => req'[t].ids \cap req[x].ids \subseteq adrift'
  PROVE  Apart'
BY DEF Apart, OthersRest, Posts

(* No step marks a row but the one of the request that posted it. *)
LEMMA UnmarkedStands ==
  ASSUME NEW t, Unmarked, OthersRest(t), adrift \subseteq adrift', RowsRest,
         IsOp(t, "submit")' /\ req'[t].pc \in {"call", "mark"} =>
           IsOp(t, "submit") /\ req[t].pc \in {"call", "mark"} /\ req'[t].ids = req[t].ids
  PROVE  Unmarked'
BY DEF Unmarked, OthersRest, IsOp, RowsRest, SameMarks, Unset

(* A posting stays named by its rows or by the request that is about to mark them. *)
LEMMA PostedStands ==
  ASSUME NEW t, Posted, PostingsTrue, ReqTrue, OthersRest(t), adrift \subseteq adrift',
         Kept, RowsSame,
         \A u \in DOMAIN pfms' \ DOMAIN pfms : pfms'[u].of = 0 => pfms'[u].ids \subseteq adrift' \/ Marking(u)',
         IsOp(t, "submit") /\ req[t].pc = "mark" => req'[t] = req[t] \/ req[t].ids \subseteq adrift'
  PROVE  Posted'
<1> SUFFICES ASSUME NEW u \in DOMAIN pfms, pfms[u].of = 0, pfms[u].state # "bad",
                    NEW id \in pfms[u].ids, id \notin adrift'
             PROVE  MarkedBy(u, id)' \/ Marking(u)'
  <2> DEFINE Old(u, id) == u \in DOMAIN pfms /\ pfms[u].of = 0 /\ pfms[u].state # "bad" /\ id \in pfms[u].ids
  <2>1. ASSUME NEW u \in DOMAIN pfms', pfms'[u].of = 0, pfms'[u].state # "bad",
               NEW id \in pfms'[u].ids, id \notin adrift'
        PROVE  Old(u, id) \/ Marking(u)'
    BY <2>1 DEF Kept
  <2> QED  BY <2>1 DEF Posted
<1>1. HasRows(id)
  BY DEF PostingsTrue
<1>2. \A k \in DOMAIN rows' : k[2] = id => SameMarks(k)
  BY <1>1 DEF RowsSame
<1>3. MarkedBy(u, id) => MarkedBy(u, id)'
  BY <1>2 DEF MarkedBy, SameMarks
<1>4. ASSUME NEW x \in Threads, IsOp(x, "submit"), req[x].pc = "mark", req[x].uid = u
      PROVE  req'[x] = req[x]
  BY <1>4 DEF OthersRest, ReqTrue, ReqOK, Submitting
<1>5. Marking(u) => Marking(u)'
  BY <1>4 DEF Marking, IsOp
<1> QED  BY <1>3, <1>5 DEF Posted

(* A negative posting stays recorded or about to be. *)
LEMMA ReversedStands ==
  ASSUME NEW t, Reversed, ReqTrue, PostingsTrue, OthersRest(t), adrift \subseteq adrift',
         Kept, ReversalsKept,
         \A w \in DOMAIN pfms' \ DOMAIN pfms :
           pfms'[w].of # 0 => pfms'[w].ids \cap adrift' # {} \/ Recording(w)',
         IsOp(t, "negative") /\ req[t].pc = "insert" =>
           \/ req'[t] = req[t]
           \/ req[t].ids \subseteq adrift'
           \/ \A w : w = req[t].uid /\ w # 0 => Recorded(w)'
  PROVE  Reversed'
<1> SUFFICES ASSUME NEW w \in DOMAIN pfms, pfms[w].of # 0, pfms[w].ids \cap adrift' = {}
             PROVE  Recorded(w)' \/ Recording(w)'
  BY DEF Reversed, Kept
<1>1. Recorded(w) => Recorded(w)'
  BY DEF Recorded, ReversalsKept, Kept
<1>2. ASSUME NEW x \in Threads, IsOp(x, "negative"), req[x].pc = "insert", req[x].uid = w
      PROVE  Recorded(w)' \/ req'[x] = req[x]
  <2>1. CASE x # t
    BY <2>1 DEF OthersRest
  <2>2. CASE x = t
    <3>1. w # 0 /\ req[t].ids = pfms[w].ids /\ pfms[w].ids # {}
      <4>1. w # 0
        BY PostingIds
      <4>2. Negating(t) /\ pfms[w].ids # {} /\ pfms[w].ids = pfms[pfms[w].of].ids
        BY <1>2, <2>2 DEF ReqTrue, ReqOK, PostingsTrue
      <4>3. req[t].uid = w
        BY <1>2, <2>2
      <4>4. req[t].ids = pfms[req[t].of].ids /\ pfms[w].of = req[t].of
        BY <4>1, <4>2, <4>3 DEF Negating
      <4> QED  BY <4>1, <4>2, <4>4
    <3> QED  BY <1>2, <2>2, <3>1
  <2> QED  BY <2>1, <2>2
<1>3. Recording(w) => Recorded(w)' \/ Recording(w)'
  BY <1>2 DEF Recording, IsOp
<1> QED  BY <1>1, <1>3 DEF Reversed

(* Nobody posts a negative entry in front of a request that found none. *)
LEMMA FirstStands ==
  ASSUME NEW t, FirstToNegate, ReqTrue, OthersRest(t), adrift \subseteq adrift', Kept,
         \A w \in DOMAIN pfms' \ DOMAIN pfms : \A x \in Threads :
           IsOp(x, "negative") /\ req[x].pc = "call" /\ x # t /\ req[x].ids \cap adrift' = {} =>
             pfms'[w].of # req[x].of,
         IsOp(t, "negative")' /\ req'[t].pc = "call" =>
           req'[t] = req[t] /\ DOMAIN pfms' = DOMAIN pfms
  PROVE  FirstToNegate'
<1> SUFFICES ASSUME NEW x \in Threads, IsOp(x, "negative")', req'[x].pc = "call",
                    req'[x].ids \cap adrift' = {}, NEW w \in DOMAIN pfms'
             PROVE  pfms'[w].of # req'[x].of
  BY DEF FirstToNegate
<1>1. req'[x] = req[x] /\ IsOp(x, "negative") /\ req[x].pc = "call" /\ req[x].ids \cap adrift = {}
  BY DEF OthersRest, IsOp
<1>2. CASE w \in DOMAIN pfms
  BY <1>1, <1>2 DEF FirstToNegate, Kept
<1>3. CASE w \notin DOMAIN pfms
  BY <1>1, <1>3
<1> QED  BY <1>2, <1>3

(* A new negative entry is the first of its posting. *)
LEMMA OnceStands ==
  ASSUME Once, adrift \subseteq adrift', Kept, NEW n, DOMAIN pfms' \subseteq DOMAIN pfms \cup {n},
         n \in DOMAIN pfms' /\ n \notin DOMAIN pfms /\ pfms'[n].of # 0 /\ pfms'[n].ids \cap adrift' = {} =>
           \A w \in DOMAIN pfms : pfms[w].of # pfms'[n].of,
         \A w \in DOMAIN pfms' : pfms'[w].of # 0 =>
           pfms'[w].of \in DOMAIN pfms' /\ pfms'[w].ids = pfms'[pfms'[w].of].ids
  PROVE  Once'
<1> SUFFICES ASSUME NEW v \in DOMAIN pfms', NEW w \in DOMAIN pfms', pfms'[v].of # 0,
                    pfms'[v].of = pfms'[w].of, pfms'[v].ids \cap adrift' = {}
             PROVE  v = w
  BY DEF Once
<1>1. pfms'[w].ids = pfms'[v].ids
  OBVIOUS
<1>2. CASE v \in DOMAIN pfms /\ w \in DOMAIN pfms
  BY <1>2 DEF Once, Kept
<1>3. CASE v \notin DOMAIN pfms /\ w \in DOMAIN pfms
  BY <1>3 DEF Kept
<1>4. CASE v \in DOMAIN pfms /\ w \notin DOMAIN pfms
  BY <1>1, <1>4 DEF Kept
<1> QED  BY <1>2, <1>3, <1>4

(* Without a new posting no negative entry is repeated. *)
LEMMA OnceStill ==
  ASSUME Once, adrift \subseteq adrift', Kept, DOMAIN pfms' = DOMAIN pfms
  PROVE  Once'
BY DEF Once, Kept

(* Rows that are not written stand. *)
LEMMA Untouched ==
  ASSUME RowsTrue, rows' = rows
  PROVE  RowsSame /\ RowsRest /\ FlagsRest /\ KeysKept
BY DEF RowsTrue, RowsSame, RowsRest, FlagsRest, KeysKept, SameMarks

(* A step that posts nothing keeps the invariant, when it keeps the rows and submissions *)
(* true and t loses no posting it was about to write down.                               *)
LEMMA StepKeeps ==
  ASSUME TeInv, NEW t, OthersRest(t), t \in Threads => ReqOK(t)', adrift \subseteq adrift',
         Kept, DOMAIN pfms' = DOMAIN pfms, PostingsTrue', RowsTrue', RowsSame, SubTrue', ReversalsKept,
         Posts(t)' => \/ Posts(t) /\ req'[t].ids = req[t].ids
                      \/ \A x \in Threads : x # t => req'[t].ids \cap req[x].ids \subseteq adrift',
         IsOp(t, "submit")' /\ req'[t].pc \in {"call", "mark"} =>
           IsOp(t, "submit") /\ req[t].pc \in {"call", "mark"} /\ req'[t].ids = req[t].ids,
         IsOp(t, "submit") /\ req[t].pc = "mark" => req'[t] = req[t] \/ req[t].ids \subseteq adrift',
         IsOp(t, "negative") /\ req[t].pc = "insert" =>
           \/ req'[t] = req[t]
           \/ req[t].ids \subseteq adrift'
           \/ \A w : w = req[t].uid /\ w # 0 => Recorded(w)',
         IsOp(t, "negative")' /\ req'[t].pc = "call" => req'[t] = req[t]
  PROVE  TeInv'
<1>1. RowsRest /\ KeysKept
  BY DEF RowsSame, RowsRest
<1>2. ReqTrue' /\ Apart'
  BY <1>1, ReqStands, ApartStands DEF TeInv
<1>3. Unmarked' /\ Posted'
  BY <1>1, UnmarkedStands, PostedStands DEF TeInv
<1>4. Reversed' /\ FirstToNegate' /\ Once'
  BY <1>1, ReversedStands, FirstStands, OnceStill DEF TeInv
<1> QED  BY <1>2, <1>3, <1>4 DEF TeInv

(* So does a step that leaves postings, submissions and posting requests alone. *)
LEMMA QuietKeeps ==
  ASSUME TeInv, NEW t, OthersRest(t), t \in Threads => ReqOK(t)', adrift \subseteq adrift',
         pfms' = pfms, sub' = sub, RowsSame, FlagsRest,
         req'[t] = req[t] \/ (~Posts(t) /\ ~Posts(t)')
  PROVE  TeInv'
<1>1. Kept /\ DOMAIN pfms' = DOMAIN pfms /\ ReversalsKept
  BY DEF Kept, ReversalsKept
<1>2. PostingsTrue' /\ SubTrue' /\ RowsTrue'
  BY <1>1, PostingsStand, SubStands, RowsStand DEF TeInv, RowsSame, RowsRest
<1>3. IsOp(t, "negative")' /\ req'[t].pc = "call" => req'[t] = req[t]
  BY DEF Posts, IsOp
<1>4. IsOp(t, "submit")' /\ req'[t].pc \in {"call", "mark"} =>
           IsOp(t, "submit") /\ req[t].pc \in {"call", "mark"} /\ req'[t].ids = req[t].ids
  BY DEF Posts, IsOp
<1>5. Posts(t)' => Posts(t) /\ req'[t].ids = req[t].ids
  BY DEF Posts
<1>6. (IsOp(t, "submit") \/ IsOp(t, "negative")) => req'[t] = req[t]
  BY DEF Posts, IsOp
<1> QED  BY <1>1, <1>2, <1>3, <1>4, <1>5, <1>6, StepKeeps

--------------------------------------------------------------------------------
(* Creation, verification, rejection *)

(* A step of no request moves none. *)
LEMMA RequestsRest ==
  ASSUME TeInv, UNCHANGED req, Kept, KeysKept
  PROVE  OthersRest(0) /\ (0 \in Threads => ReqOK(0)') /\ req'[0] = req[0]
BY ReqOKStands DEF TeInv, ReqTrue, OthersRest

(* The clock touches no table. *)
LEMMA TickKeeps ==
  ASSUME TeInv, Tick
  PROVE  TeInv'
<1>1. UNCHANGED <<rows, sub, pfms, req, adrift>>
  BY DEF Tick, tables, outside, ghosts
<1>2. RowsSame /\ FlagsRest /\ KeysKept /\ Kept
  BY <1>1, Untouched DEF TeInv, Kept
<1> QED  BY <1>1, <1>2, RequestsRest, QuietKeeps

(* A creation adds unmarked rows only; an id that has rows becomes adrift. *)
LEMMA CopyDoes ==
  ASSUME RowsTrue, NEW b, NEW status, NEW by, Copy(b, status, by),
         HasRows(second) => second \in adrift'
  PROVE  RowsSame /\ FlagsRest
<1> DEFINE new == {<<h, second>> : h \in DOMAIN b}
<1>1. /\ new \cap DOMAIN rows = {}
      /\ rows' = [k \in DOMAIN rows \cup new |->
                    IF k \in new THEN NewRow(b[k[1]], status, by) ELSE rows[k]]
  BY DEF Copy
<1>2. \A k \in new : k[2] = second
  OBVIOUS
<1>3. \A k \in DOMAIN rows : SameMarks(k) /\ rows'[k].flag = rows[k].flag
  BY <1>1 DEF SameMarks, RowsTrue
<1>4. \A k \in new : Unset(k) /\ rows'[k].flag # "Success"
  <2> HIDE DEF new
  <2> QED  BY <1>1 DEF Unset, NewRow, RowFields
<1>5. DOMAIN rows' = DOMAIN rows \cup new
  BY <1>1
<1> HIDE DEF new
<1> QED  BY <1>2, <1>3, <1>4, <1>5 DEF RowsSame, FlagsRest, KeysKept

(* The five creation handlers keep the invariant. *)
LEMMA CreateKeeps ==
  ASSUME TeInv, Create
  PROVE  TeInv'
<1>1. PICK b \in Batches : \E status, by : Created(b) /\ Copy(b, status, by)
  BY DEF Create, CreateTransferEntry, CreateTransferEntryGrpc, CreateTransferEntryDirect,
         CreateTransferEntryDirectGrpc, CreateTransferEntryDirectBRS, TransferentryCreation,
         TransferentryDirectCreation
<1>2. PICK status, by : Created(b) /\ Copy(b, status, by)
  BY <1>1
<1>3. /\ adrift \subseteq adrift' /\ (HasRows(second) => second \in adrift')
      /\ UNCHANGED <<sub, req, pfms>>
  BY <1>2 DEF Created, outside, HasRows, RowsOf
<1>4. RowsSame /\ FlagsRest /\ KeysKept /\ Kept
  BY <1>2, <1>3, CopyDoes DEF RowsSame, Kept, TeInv
<1> QED  BY <1>3, <1>4, RequestsRest, QuietKeeps

(* A status update leaves the marks of the rows alone. *)
LEMMA SetStatusDoes ==
  ASSUME RowsTrue, NEW id, NEW s, SetStatus(id, s)
  PROVE  RowsSame /\ FlagsRest
<1>1. ASSUME NEW k \in DOMAIN rows
      PROVE  SameMarks(k) /\ rows'[k].flag = rows[k].flag
  <2>1. DOMAIN rows[k] = RowFields
    BY DEF RowsTrue
  <2>2. rows'[k] = rows[k] \/ rows'[k] = [rows[k] EXCEPT !.status = s]
    BY DEF SetStatus
  <2> QED  BY <2>1, <2>2 DEF SameMarks, RowFields
<1>2. DOMAIN rows' = DOMAIN rows
  BY DEF SetStatus
<1> QED  BY <1>1, <1>2 DEF RowsSame, FlagsRest, KeysKept

(* A verification or rejection that begins posts nothing. *)
LEMMA TakeCreatedKeeps ==
  ASSUME TeInv, NEW t \in Threads, NEW op \in {"verify", "reject"}, NEW id, TakeCreated(t, op, id)
  PROVE  TeInv'
<1>1. UNCHANGED <<rows, sub, pfms, adrift>> /\ req[t] = Idle
  BY DEF TakeCreated, Free, tables, outside
<1>2. PICK lines : req' = [req EXCEPT ![t] = [op |-> op, pc |-> "ask", ids |-> {id}, lines |-> lines]]
  BY DEF TakeCreated
<1>3. OthersRest(t) /\ req'[t] = [op |-> op, pc |-> "ask", ids |-> {id}, lines |-> lines]
  BY <1>2 DEF TeInv, ReqTrue, OthersRest
<1>4. ReqOK(t)' /\ ~Posts(t) /\ ~Posts(t)'
  BY <1>1, <1>3 DEF ReqOK, IsOp, Posts, Idle
<1>5. RowsSame /\ FlagsRest
  BY <1>1, Untouched DEF TeInv
<1> QED  BY <1>1, <1>3, <1>4, <1>5, QuietKeeps

(* A request that goes on keeps its fields but its place. *)
LEMMA GotoDoes ==
  ASSUME NEW t \in Threads, ReqTrue, "pc" \in DOMAIN req[t], NEW pc, Goto(t, pc)
  PROVE  /\ OthersRest(t) /\ req'[t].pc = pc /\ DOMAIN req'[t] = DOMAIN req[t]
         /\ \A f \in DOMAIN req[t] : f # "pc" => req'[t][f] = req[t][f]
BY DEF ReqTrue, Goto, OthersRest

\* What a verification or a rejection does with its own record.
OwnStep(t) ==
  /\ OthersRest(t)
  /\ req[t].op \in {"verify", "reject"}
  /\ req'[t] = Idle \/ (DOMAIN req'[t] = DOMAIN req[t] /\ req'[t].op = req[t].op)

(* The steps of a verification or rejection keep the invariant. *)
LEMMA OwnStepKeeps ==
  ASSUME TeInv, NEW t \in Threads, OwnStep(t), adrift \subseteq adrift', pfms' = pfms, sub' = sub, RowsSame,
         FlagsRest
  PROVE  TeInv'
<1>1. ReqOK(t)
  BY DEF TeInv, ReqTrue
<1>2. ReqOK(t)' /\ ~Posts(t) /\ ~Posts(t)'
  BY <1>1 DEF OwnStep, ReqOK, IsOp, Posts, Idle
<1> QED  BY <1>2, QuietKeeps DEF OwnStep

(* UpdateTransferEntryVerifyHandler asks the budget service and writes no table. *)
LEMMA AskBudgetKeeps ==
  ASSUME TeInv, NEW t \in Threads, AskBudget(t)
  PROVE  TeInv'
<1>1. /\ UNCHANGED <<rows, sub, pfms, adrift>> /\ req[t].op = "verify"
      /\ Goto(t, "store") \/ Done(t)
  BY DEF AskBudget, At, tables
<1>2. ReqOK(t) /\ ReqTrue /\ RowsTrue
  BY DEF TeInv, ReqTrue
<1>3. CASE Goto(t, "store")
  <2>1. DOMAIN req[t] = {"op", "pc", "ids", "lines"}
    BY <1>1, <1>2 DEF ReqOK
  <2>2. OwnStep(t)
    BY <1>1, <1>2, <1>3, <2>1, GotoDoes DEF OwnStep
  <2> QED  BY <1>1, <1>2, <2>2, Untouched, OwnStepKeeps
<1>4. CASE Done(t)
  <2>1. OwnStep(t)
    BY <1>1, <1>2, <1>4, IdleIsOK DEF OwnStep
  <2> QED  BY <1>1, <1>2, <2>1, Untouched, OwnStepKeeps
<1> QED  BY <1>1, <1>3, <1>4

(* TransferentryVerifyRepo and TransferentryRejectRepo write statuses. *)
LEMMA DecideKeeps ==
  ASSUME TeInv, NEW t \in Threads, TransferentryVerify(t) \/ TransferentryReject(t)
  PROVE  TeInv'
<1>1. /\ \E id, s : SetStatus(id, s)
      /\ req[t].op \in {"verify", "reject"} /\ Done(t)
      /\ UNCHANGED <<sub, pfms, adrift>>
  BY DEF TransferentryVerify, TransferentryReject, At, outside, ghosts
<1>2. ReqTrue /\ RowsTrue
  BY DEF TeInv
<1>3. RowsSame /\ FlagsRest
  BY <1>1, <1>2, SetStatusDoes
<1>4. OwnStep(t)
  BY <1>1, <1>2, IdleIsOK DEF OwnStep
<1> QED  BY <1>1, <1>3, <1>4, OwnStepKeeps

--------------------------------------------------------------------------------
(* Requests that post *)

(* CreatePfmsTeHandler begins with rows that are not generated; the entries another *)
(* request holds become adrift.                                                     *)
LEMMA TakeVerifiedKeeps ==
  ASSUME TeInv, NEW t \in Threads, NEW ids, TakeVerified(t, ids)
  PROVE  TeInv'
<1>1. /\ UNCHANGED <<rows, sub, pfms>> /\ req[t] = Idle /\ ids # {}
      /\ adrift' = adrift \cup HeldByOther(t, ids)
      /\ req' = [req EXCEPT ![t] = [op |-> "submit", pc |-> "call", ids |-> ids, uid |-> 0]]
      /\ \A id \in ids : RowsOf(id) # {} /\ RowsOf(id) \subseteq TransferentryReport("verified", FALSE)
  BY DEF TakeVerified, Free, tables, outside
<1>2. RowsSame /\ RowsRest /\ FlagsRest /\ KeysKept /\ Kept /\ ReversalsKept
  BY <1>1, Untouched DEF TeInv, Kept, ReversalsKept
<1>3. OthersRest(t) /\ req'[t] = [op |-> "submit", pc |-> "call", ids |-> ids, uid |-> 0]
  BY <1>1 DEF TeInv, ReqTrue, OthersRest
<1>4. \A id \in ids : HasRows(id) /\ \A k \in DOMAIN rows : k[2] = id => ~rows[k].gen
  BY <1>1 DEF HasRows, RowsOf, TransferentryReport
<1>5. ReqOK(t)'
  BY <1>1, <1>3, <1>4 DEF ReqOK, IsOp, Submitting, HasRows
<1>6. Apart'
  <2>1. \A x \in Threads : x # t => ids \cap req[x].ids \subseteq adrift'
    BY <1>1 DEF HeldByOther
  <2> QED  BY <1>1, <1>3, <2>1, ApartStands DEF TeInv
<1>7. Unmarked'
  <2>1. ASSUME NEW x \in Threads, IsOp(x, "submit")', req'[x].pc \in {"call", "mark"},
               NEW k \in DOMAIN rows, k[2] \in req'[x].ids \ adrift'
        PROVE  ~rows[k].gen
    <3>1. CASE x = t
      BY <1>3, <1>4, <2>1, <3>1
    <3>2. CASE x # t
      BY <1>1, <1>3, <2>1, <3>2 DEF TeInv, Unmarked, OthersRest, IsOp
    <3> QED  BY <3>1, <3>2
  <2> QED  BY <1>1, <2>1 DEF Unmarked
<1>8. ~IsOp(t, "submit") /\ ~IsOp(t, "negative") /\ ~IsOp(t, "negative")' /\ adrift \subseteq adrift'
  BY <1>1, <1>3 DEF IsOp, Idle
<1>9. RowsTrue' /\ PostingsTrue' /\ SubTrue' /\ ReqTrue'
  BY <1>1, <1>2, <1>3, <1>5, RowsStand, PostingsStand, SubStands, ReqStands DEF TeInv
<1>10. Posted' /\ Reversed' /\ FirstToNegate' /\ Once'
  BY <1>1, <1>2, <1>3, <1>8, PostedStands, ReversedStands, FirstStands, OnceStill DEF TeInv
<1> QED  BY <1>6, <1>7, <1>9, <1>10 DEF TeInv

(* PFMS takes a payload under the next identifier. *)
LEMMA TakeDoes ==
  ASSUME PostingsTrue, NEW ids, NEW lines, NEW of, Take(ids, lines, of), NEW n, n = Uid
  PROVE  /\ n \notin DOMAIN pfms /\ n # 0 /\ DOMAIN pfms' = DOMAIN pfms \cup {n} /\ Kept
         /\ \A u \in DOMAIN pfms : pfms'[u] = pfms[u]
         /\ DOMAIN pfms'[n] = PostingFields /\ pfms'[n].ids = ids /\ pfms'[n].of = of
         /\ InSequence'
<1> DEFINE S == {pfms[u] : u \in DOMAIN pfms}
           p == [ids |-> ids, lines |-> lines, of |-> of, state |-> "taken"]
<1>1. pfms \in Seq(S) /\ pfms \in Seq(S \cup {p}) /\ pfms' = Append(pfms, p)
  BY DEF PostingsTrue, Take, InSequence
<1>2. /\ Len(pfms) \in Nat /\ DOMAIN pfms = 1 .. Len(pfms)
      /\ Len(pfms') = Len(pfms) + 1 /\ DOMAIN pfms' = 1 .. Len(pfms')
      /\ pfms' \in Seq(S \cup {p})
      /\ pfms'[Len(pfms) + 1] = p /\ \A u \in 1 .. Len(pfms) : pfms'[u] = pfms[u]
  <2> HIDE DEF S, p
  <2> QED  BY <1>1
<1>3. InSequence'
  <2> HIDE DEF S, p
  <2>1. \A u \in 1 .. Len(pfms') : pfms'[u] \in {pfms'[v] : v \in DOMAIN pfms'}
    BY <1>2
  <2>2. pfms' = [u \in 1 .. Len(pfms') |-> pfms'[u]] /\ Len(pfms') \in Nat
    BY <1>2
  <2>3. pfms' \in [1 .. Len(pfms') -> {pfms'[v] : v \in DOMAIN pfms'}]
    BY <2>1, <2>2
  <2> HIDE <2>1, <1>2
  <2> QED  BY <2>2, <2>3, SeqDef DEF InSequence
<1>4. n = Len(pfms) + 1 /\ n \notin DOMAIN pfms /\ n # 0 /\ DOMAIN pfms' = DOMAIN pfms \cup {n}
  <2> HIDE DEF S, p
  <2> QED  BY <1>2 DEF Uid
<1>5. Kept
  <2> HIDE DEF S, p
  <2> QED  BY <1>2, <1>4 DEF Kept
<1>6. DOMAIN p = PostingFields /\ p.ids = ids /\ p.of = of
  BY DEF PostingFields
<1> HIDE DEF S, p
<1> QED  BY <1>2, <1>3, <1>4, <1>5, <1>6

(* A posting of entries with rows joins the others. *)
LEMMA PostingAdded ==
  ASSUME PostingsTrue, KeysKept, NEW n, n \notin DOMAIN pfms, DOMAIN pfms' = DOMAIN pfms \cup {n},
         \A u \in DOMAIN pfms : pfms'[u] = pfms[u],
         InSequence',
         DOMAIN pfms'[n] = PostingFields, pfms'[n].ids # {}, \A id \in pfms'[n].ids : HasRows(id),
         pfms'[n].of # 0 => /\ pfms'[n].of \in DOMAIN pfms /\ pfms'[n].ids = pfms[pfms'[n].of].ids
                            /\ pfms[pfms'[n].of].of = 0 /\ pfms[pfms'[n].of].state = "ok"
  PROVE  PostingsTrue'
BY DEF PostingsTrue, KeysKept, HasRows

\* A request that ends, its posting recorded or not.
LEMMA EndKeeps ==
  ASSUME TeInv, NEW t \in Threads, Done(t), adrift \subseteq adrift',
         UNCHANGED <<pfms, rows>>, SubTrue', ReversalsKept,
         IsOp(t, "submit") /\ req[t].pc = "mark" => req[t].ids \subseteq adrift',
         IsOp(t, "negative") /\ req[t].pc = "insert" =>
           req[t].ids \subseteq adrift' \/ \A w : w = req[t].uid /\ w # 0 => Recorded(w)'
  PROVE  TeInv'
<1>1. OthersRest(t) /\ req'[t] = Idle /\ ReqOK(t)'
  BY IdleIsOK DEF TeInv
<1>2. ~Posts(t)' /\ ~IsOp(t, "submit")' /\ ~IsOp(t, "negative")'
  BY <1>1 DEF Posts, IsOp, Idle
<1>3. RowsSame /\ RowsRest /\ FlagsRest /\ KeysKept /\ Kept
  BY Untouched DEF TeInv, Kept
<1>4. DOMAIN pfms' = DOMAIN pfms /\ PostingsTrue' /\ RowsTrue'
  BY <1>3, PostingsStand, RowsStand DEF TeInv
<1> QED  BY <1>4, <1>1, <1>2, <1>3, StepKeeps

(* A posting is about to be marked by its request, or its entries are adrift. *)
LEMMA SubmissionTakes ==
  ASSUME TeInv, NEW t \in Threads, IsOp(t, "submit"), req[t].pc = "call", NEW lines,
         Take(req[t].ids, lines, 0), UNCHANGED <<rows, sub>>, OthersRest(t), ReqOK(t)',
         NEW n, n = Uid, adrift \subseteq adrift',
         \/ req'[t] = Idle /\ req[t].ids \subseteq adrift'
         \/ IsOp(t, "submit")' /\ req'[t].pc = "mark" /\ req'[t].uid = n /\ req'[t].ids = req[t].ids
  PROVE  TeInv'
<1>1. /\ n \notin DOMAIN pfms /\ n # 0 /\ DOMAIN pfms' = DOMAIN pfms \cup {n} /\ Kept
      /\ \A u \in DOMAIN pfms : pfms'[u] = pfms[u]
      /\ DOMAIN pfms'[n] = PostingFields /\ pfms'[n].ids = req[t].ids /\ pfms'[n].of = 0
      /\ InSequence'
  <2>1. PostingsTrue
    BY DEF TeInv
  <2>2. PICK ids : ids = req[t].ids
    OBVIOUS
  <2>3. Take(ids, lines, 0)
    BY <2>2
  <2> QED  BY <2>1, <2>2, <2>3, TakeDoes
<1>2. RowsSame /\ RowsRest /\ FlagsRest /\ KeysKept /\ ReversalsKept
  BY Untouched DEF TeInv, ReversalsKept
<1>3. Submitting(t)
  BY DEF TeInv, ReqTrue, ReqOK
<1>4. PostingsTrue'
  BY <1>1, <1>2, <1>3, PostingAdded DEF TeInv, Submitting, PostingFields
<1>5. RowsTrue' /\ SubTrue' /\ ReqTrue'
  BY <1>1, <1>2, RowsStand, SubStands, ReqStands DEF TeInv
<1>6. Apart'
  BY ApartStands DEF TeInv, Posts, IsOp, Idle
<1>7. Unmarked'
  BY <1>2, UnmarkedStands DEF TeInv, IsOp, Idle
<1>8. Posted'
  <2>1. pfms'[n].ids \subseteq adrift' \/ Marking(n)'
    BY <1>1 DEF Marking
  <2> QED  BY <1>1, <1>2, <2>1, PostedStands DEF TeInv
<1>9. Reversed' /\ FirstToNegate'
  <2>1. ~IsOp(t, "negative") /\ ~IsOp(t, "negative")'
    BY DEF IsOp, Idle
  <2>2. \A x \in Threads : IsOp(x, "negative") => req[x].of # 0
    BY PostingIds DEF TeInv, ReqTrue, ReqOK, Negating
  <2> QED  BY <1>1, <1>2, <2>1, <2>2, ReversedStands, FirstStands DEF TeInv
<1>10. Once'
  BY <1>1, <1>4, OnceStands DEF TeInv, PostingsTrue
<1> QED  BY <1>4, <1>5, <1>6, <1>7, <1>8, <1>9, <1>10 DEF TeInv

(* The calls of CreatePfmsTeHandler: taken, refused, or taken with the answer lost. *)
LEMMA CreatePfmsTeKeeps ==
  ASSUME TeInv, NEW t \in Threads, CreatePfmsTe(t)
  PROVE  TeInv'
<1>1. IsOp(t, "submit") /\ req[t].pc = "call" /\ UNCHANGED <<rows, sub>>
  BY DEF CreatePfmsTe, At, IsOp, tables
<1>2. ReqTrue /\ Submitting(t)
  BY <1>1 DEF TeInv, ReqTrue, ReqOK
<1>3. PICK n, lines : n = Uid /\ lines = Lines(req[t].ids)
  OBVIOUS
<1>4. CASE Take(req[t].ids, lines, 0) /\ req' = [req EXCEPT ![t].pc = "mark", ![t].uid = n] /\ adrift' = adrift
  <2>1. /\ OthersRest(t) /\ DOMAIN req'[t] = {"op", "pc", "ids", "uid"} /\ req'[t].op = "submit"
        /\ req'[t].pc = "mark" /\ req'[t].uid = n /\ req'[t].ids = req[t].ids
    BY <1>1, <1>2, <1>4 DEF ReqTrue, OthersRest, Submitting, IsOp
  <2>2. n \in DOMAIN pfms' /\ pfms'[n].ids = req[t].ids /\ pfms'[n].of = 0
    <3>1. PostingsTrue
      BY DEF TeInv
    <3>2. PICK ids : ids = req[t].ids
      OBVIOUS
    <3>3. Take(ids, lines, 0) /\ n = Uid
      BY <1>3, <1>4, <3>2
    <3>4. DOMAIN pfms' = DOMAIN pfms \cup {n} /\ pfms'[n].ids = ids /\ pfms'[n].of = 0
      BY <3>1, <3>3, TakeDoes
    <3> QED  BY <3>2, <3>4
  <2>3. Submitting(t)'
    BY <1>1, <1>2, <2>1, <2>2 DEF Submitting, HasRows
  <2>4. ReqOK(t)' /\ IsOp(t, "submit")'
    BY <2>1, <2>3 DEF ReqOK, IsOp
  <2> QED  BY <1>1, <1>3, <1>4, <2>1, <2>4, SubmissionTakes
<1>5. CASE Done(t) /\ UNCHANGED <<pfms, adrift>>
  <2>1. ReversalsKept /\ SubTrue'
    BY <1>1, <1>5, SubStands DEF TeInv, ReversalsKept, Kept
  <2> QED  BY <1>1, <1>5, <2>1, EndKeeps DEF IsOp
<1>6. CASE Take(req[t].ids, lines, 0) /\ Done(t) /\ adrift' = adrift \cup req[t].ids
  <2>1. OthersRest(t) /\ req'[t] = Idle /\ ReqOK(t)'
    BY <1>2, <1>6, IdleIsOK
  <2> QED  BY <1>1, <1>3, <1>6, <2>1, SubmissionTakes
<1> QED  BY <1>3, <1>4, <1>5, <1>6 DEF CreatePfmsTe

(* GetTePfmsUpdateStatus marks the rows of the posting and of no other one. *)
LEMMA GetTePfmsUpdateStatusKeeps ==
  ASSUME TeInv, NEW t \in Threads, GetTePfmsUpdateStatus(t)
  PROVE  TeInv'
<1>1. PICK n, ids : n = req[t].uid /\ ids = req[t].ids
  OBVIOUS
<1>2. /\ IsOp(t, "submit") /\ req[t].pc = "mark" /\ Goto(t, "record")
      /\ rows' = [k \in DOMAIN rows |-> IF k[2] \in ids THEN Submitted(rows[k], n) ELSE rows[k]]
      /\ UNCHANGED <<sub, pfms, adrift>>
  BY <1>1 DEF GetTePfmsUpdateStatus, At, IsOp, outside, ghosts
<1>3. ReqTrue /\ Submitting(t) /\ RowsTrue
  BY <1>2 DEF TeInv, ReqTrue, ReqOK
<1>4. n \in DOMAIN pfms /\ n # 0 /\ pfms[n].of = 0 /\ pfms[n].ids = ids
  BY <1>1, <1>2, <1>3, PostingIds DEF Submitting, TeInv
<1>5. /\ OthersRest(t) /\ DOMAIN req'[t] = {"op", "pc", "ids", "uid"} /\ req'[t].op = "submit"
      /\ req'[t].pc = "record" /\ req'[t].uid = n /\ req'[t].ids = ids
  BY <1>1, <1>2, <1>3 DEF ReqTrue, OthersRest, Submitting, IsOp, Goto
<1>6. ASSUME NEW k \in DOMAIN rows, k[2] \in ids
      PROVE  DOMAIN rows'[k] = RowFields /\ rows'[k].gen = TRUE /\ rows'[k].uid = n
             /\ rows'[k].flag = "Pending"
  <2>1. DOMAIN rows[k] = RowFields /\ rows'[k] = Submitted(rows[k], n)
    BY <1>2, <1>3, <1>6 DEF RowsTrue
  <2> QED  BY <2>1 DEF Submitted, RowFields
<1>7. ASSUME NEW k \in DOMAIN rows, k[2] \notin ids
      PROVE  rows'[k] = rows[k]
  BY <1>2, <1>7
<1>8. DOMAIN rows' = DOMAIN rows /\ Kept /\ KeysKept /\ ReversalsKept
  BY <1>2 DEF Kept, KeysKept, ReversalsKept
<1>9. RowsTrue'
  BY <1>2, <1>3, <1>4, <1>6, <1>7, <1>8 DEF RowsTrue
<1>10. ReqOK(t)'
  BY <1>1, <1>2, <1>3, <1>4, <1>5, <1>8 DEF ReqOK, IsOp, Submitting, HasRows
<1>11. PostingsTrue' /\ SubTrue' /\ ReqTrue' /\ Apart'
  BY <1>1, <1>2, <1>3, <1>5, <1>8, <1>10, PostingsStand, SubStands, ReqStands, ApartStands
  DEF TeInv, Posts, IsOp
<1>12. \A x \in Threads : x # t /\ Posts(x) => ids \cap req[x].ids \subseteq adrift
  BY <1>1, <1>2 DEF TeInv, Apart, Posts, IsOp
<1>13. Unmarked'
  <2>1. ASSUME NEW x \in Threads, IsOp(x, "submit")', req'[x].pc \in {"call", "mark"},
               NEW k \in DOMAIN rows, k[2] \in req'[x].ids \ adrift
        PROVE  ~rows'[k].gen
    <3>1. x # t /\ req'[x] = req[x] /\ IsOp(x, "submit")
      BY <1>5, <2>1 DEF OthersRest, IsOp
    <3>2. k[2] \notin ids
      BY <1>12, <2>1, <3>1 DEF Posts, IsOp
    <3> QED  BY <1>7, <2>1, <3>1, <3>2 DEF TeInv, Unmarked, IsOp
  <2> QED  BY <1>2, <1>8, <2>1 DEF Unmarked
<1>14. Posted'
  <2>1. ASSUME NEW u \in DOMAIN pfms, pfms[u].of = 0, pfms[u].state # "bad",
               NEW id \in pfms[u].ids, id \notin adrift
        PROVE  MarkedBy(u, id)' \/ Marking(u)'
    <3>1. CASE id \in ids /\ u = n
      BY <1>6, <1>8, <3>1 DEF MarkedBy
    <3>2. CASE id \in ids /\ u # n
      <4>1. PICK k \in DOMAIN rows : k[2] = id
        BY <2>1 DEF TeInv, PostingsTrue, HasRows
      <4>2. ~rows[k].gen
        BY <1>1, <1>2, <2>1, <3>2, <4>1 DEF TeInv, Unmarked
      <4>3. ~MarkedBy(u, id)
        BY <4>1, <4>2 DEF MarkedBy
      <4>4. PICK x \in Threads : IsOp(x, "submit") /\ req[x].pc = "mark" /\ req[x].uid = u
        BY <2>1, <4>3 DEF TeInv, Posted, Marking
      <4>5. req[x].ids = pfms[u].ids /\ x # t
        BY <1>1, <3>2, <4>4 DEF TeInv, ReqTrue, ReqOK, Submitting
      <4> QED  BY <1>12, <2>1, <3>2, <4>4, <4>5 DEF Posts, IsOp
    <3>3. CASE id \notin ids
      <4>1. MarkedBy(u, id) => MarkedBy(u, id)'
        BY <1>7, <1>8, <3>3 DEF MarkedBy
      <4>2. ASSUME NEW x \in Threads, IsOp(x, "submit"), req[x].pc = "mark", req[x].uid = u
            PROVE  req'[x] = req[x]
        <5>1. x # t
          BY <1>1, <1>4, <2>1, <3>3, <4>2
        <5> QED  BY <1>5, <5>1 DEF OthersRest
      <4>3. Marking(u) => Marking(u)'
        BY <4>2 DEF Marking, IsOp
      <4> QED  BY <2>1, <4>1, <4>3 DEF TeInv, Posted
    <3> QED  BY <3>1, <3>2, <3>3
  <2> QED  BY <1>2, <2>1 DEF Posted
<1>15. Reversed' /\ FirstToNegate' /\ Once'
  <2>1. ~IsOp(t, "negative") /\ ~IsOp(t, "negative")'
    BY <1>2, <1>5 DEF IsOp
  <2> QED  BY <1>2, <1>3, <1>5, <1>8, <2>1, ReversedStands, FirstStands, OnceStill DEF TeInv
<1> QED  BY <1>9, <1>11, <1>13, <1>14, <1>15 DEF TeInv

(* InsertTePfmsSubmission records what PFMS took, as pending. *)
LEMMA InsertTePfmsSubmissionKeeps ==
  ASSUME TeInv, NEW t \in Threads, InsertTePfmsSubmission(t)
  PROVE  TeInv'
<1>1. PICK n, ids : n = req[t].uid /\ ids = req[t].ids
  OBVIOUS
<1>2. /\ IsOp(t, "submit") /\ req[t].pc = "record" /\ Done(t) /\ UNCHANGED <<rows, pfms>>
      /\ adrift \subseteq adrift'
      /\ \/ sub' = sub
         \/ sub' = Put(sub, n, [type |-> "te", ids |-> ids, status |-> "Pending", of |-> 0])
  BY <1>1 DEF InsertTePfmsSubmission, At, IsOp, outside
<1>3. n \in DOMAIN pfms /\ pfms[n].of = 0 /\ pfms[n].ids = ids
  BY <1>1, <1>2 DEF TeInv, ReqTrue, ReqOK, Submitting
<1>4. SubTrue' /\ ReversalsKept
  <2>1. CASE sub' = sub
    BY <1>2, <2>1, SubStands DEF TeInv, Kept, ReversalsKept
  <2>2. CASE sub' = Put(sub, n, [type |-> "te", ids |-> ids, status |-> "Pending", of |-> 0])
    <3>1. /\ DOMAIN sub' = DOMAIN sub \cup {n} /\ \A u \in DOMAIN sub : u # n => sub'[u] = sub[u]
          /\ DOMAIN sub'[n] = SubFields /\ sub'[n].type = "te" /\ sub'[n].ids = ids
          /\ sub'[n].status = "Pending"
      BY <2>2 DEF Put, SubFields
    <3>2. SubTrue'
      BY <1>2, <1>3, <3>1 DEF TeInv, SubTrue
    <3>3. ReversalsKept
      BY <1>3, <3>1 DEF TeInv, SubTrue, ReversalsKept
    <3> QED  BY <3>2, <3>3
  <2> QED  BY <1>2, <2>1, <2>2
<1> QED  BY <1>2, <1>4, EndKeeps DEF IsOp

--------------------------------------------------------------------------------
(* PFMS's decisions, status updates, resets *)

(* PFMS decides once on what it took. *)
LEMMA PfmsDecidesKeeps ==
  ASSUME TeInv, NEW u \in DOMAIN pfms, NEW s \in {"ok", "bad"}, PfmsDecides(u, s)
  PROVE  TeInv'
<1>1. /\ pfms[u].state = "taken" /\ pfms' = [pfms EXCEPT ![u].state = s]
      /\ UNCHANGED <<rows, sub, req, adrift>>
  BY DEF PfmsDecides, tables, ghosts
<1>2. /\ DOMAIN pfms' = DOMAIN pfms /\ DOMAIN pfms = 1 .. Len(pfms) /\ Len(pfms) \in Nat
      /\ \A v \in DOMAIN pfms : v # u => pfms'[v] = pfms[v]
      /\ DOMAIN pfms'[u] = PostingFields /\ pfms'[u].ids = pfms[u].ids /\ pfms'[u].of = pfms[u].of
      /\ pfms'[u].state = s
  BY <1>1 DEF TeInv, PostingsTrue, InSequence, PostingFields
<1>3. Kept /\ ReversalsKept
  BY <1>1, <1>2 DEF Kept, ReversalsKept
<1>4. InSequence'
  <2>1. pfms' = [v \in 1 .. Len(pfms) |-> pfms'[v]]
    BY <1>1, <1>2
  <2>2. \A v \in 1 .. Len(pfms) : pfms'[v] \in {pfms'[w] : w \in DOMAIN pfms'}
    BY <1>2
  <2>3. pfms' \in [1 .. Len(pfms) -> {pfms'[w] : w \in DOMAIN pfms'}]
    BY <2>1, <2>2
  <2> QED  BY <1>2, <2>3, SeqDef DEF InSequence
<1>5. PostingsTrue'
  <2>1. ASSUME NEW v \in DOMAIN pfms
        PROVE  DOMAIN pfms'[v] = PostingFields /\ pfms'[v].ids = pfms[v].ids /\ pfms'[v].of = pfms[v].of
    BY <1>2 DEF TeInv, PostingsTrue
  <2>2. \A v \in DOMAIN pfms : pfms[v].state = "ok" => pfms'[v].state = "ok"
    BY <1>3 DEF Kept
  <2> QED  BY <1>1, <1>2, <1>4, <2>1, <2>2 DEF TeInv, PostingsTrue, HasRows
<1>6. RowsSame /\ RowsRest /\ FlagsRest /\ KeysKept
  BY <1>1, Untouched DEF TeInv
<1>7. RowsTrue' /\ SubTrue'
  BY <1>1, <1>3, <1>6, RowsStand, SubStands DEF TeInv
<1>8. OthersRest(0) /\ (0 \in Threads => ReqOK(0)') /\ req'[0] = req[0]
  BY <1>1, <1>3, <1>6, RequestsRest
<1> QED  BY <1>1, <1>2, <1>3, <1>5, <1>6, <1>7, <1>8, StepKeeps DEF Posts, IsOp

(* UpdatePfmsSubmissionStatusRepo writes PFMS's answer to the rows of its identifier. *)
LEMMA UpdatePfmsSubmissionStatusKeeps ==
  ASSUME TeInv, NEW u \in DOMAIN sub, UpdatePfmsSubmissionStatus(u)
  PROVE  TeInv'
<1>1. PICK f : f = FlagOf(u)
  OBVIOUS
<1>2. /\ sub[u].status = "Pending" /\ pfms[u].state # "taken"
      /\ rows' = [k \in DOMAIN rows |->
                    IF rows[k].uid = u THEN [rows[k] EXCEPT !.flag = f] ELSE rows[k]]
      /\ sub' = [sub EXCEPT ![u].status = f] \/ sub' = sub
      /\ UNCHANGED <<pfms, req, adrift>>
  BY <1>1 DEF UpdatePfmsSubmissionStatus, outside, ghosts
<1>3. /\ u \in DOMAIN pfms /\ u # 0 /\ sub[u].type = "te" /\ pfms[u].of = 0 /\ pfms[u].ids = sub[u].ids
      /\ DOMAIN sub[u] = SubFields
  BY <1>2, PostingIds DEF TeInv, SubTrue
<1>4. f \in {"Success", "Failed"} /\ (f = "Success" => pfms[u].state = "ok")
  BY <1>1 DEF FlagOf
<1>5. ASSUME NEW k \in DOMAIN rows
      PROVE  SameMarks(k) /\ (rows'[k].flag = rows[k].flag \/ (rows[k].uid = u /\ rows'[k].flag = f))
  <2>1. DOMAIN rows[k] = RowFields
    BY DEF TeInv, RowsTrue
  <2> QED  BY <1>2, <2>1 DEF SameMarks, RowFields
<1>6. DOMAIN rows' = DOMAIN rows
  BY <1>2
<1>7. RowsSame /\ KeysKept /\ Kept
  BY <1>2, <1>5, <1>6 DEF RowsSame, KeysKept, Kept
<1>8. RowsTrue'
  BY <1>2, <1>3, <1>4, <1>5, <1>6 DEF TeInv, RowsTrue, SameMarks
<1>9. SubTrue' /\ ReversalsKept
  <2>1. CASE sub' = sub
    BY <1>2, <1>7, <2>1, SubStands DEF TeInv, ReversalsKept
  <2>2. CASE sub' = [sub EXCEPT ![u].status = f]
    <3>1. /\ DOMAIN sub' = DOMAIN sub /\ \A v \in DOMAIN sub : v # u => sub'[v] = sub[v]
          /\ DOMAIN sub'[u] = SubFields /\ sub'[u].type = "te" /\ sub'[u].ids = sub[u].ids
          /\ sub'[u].status = f
      BY <1>3, <2>2 DEF SubFields
    <3>2. SubTrue'
      BY <1>2, <1>3, <1>4, <3>1 DEF TeInv, SubTrue
    <3>3. ReversalsKept
      BY <1>3, <3>1 DEF ReversalsKept
    <3> QED  BY <3>2, <3>3
  <2> QED  BY <1>2, <2>1, <2>2
<1>10. PostingsTrue'
  BY <1>2, <1>7, PostingsStand DEF TeInv
<1>11. OthersRest(0) /\ (0 \in Threads => ReqOK(0)') /\ req'[0] = req[0]
  BY <1>2, <1>7, RequestsRest
<1> QED  BY <1>2, <1>7, <1>8, <1>9, <1>10, <1>11, StepKeeps DEF Posts, IsOp

(* A reset of a posting that was not turned down leaves its entries adrift. *)
LEMMA ResetPFMSFlagKeeps ==
  ASSUME TeInv, NEW u \in DOMAIN pfms, ResetPFMSFlag(u)
  PROVE  TeInv'
<1>1. PICK mine : mine = {k \in DOMAIN rows : rows[k].uid = u}
  OBVIOUS
<1>2. /\ rows' = [k \in DOMAIN rows |->
                    IF k \in mine THEN [rows[k] EXCEPT !.uid = 0, !.gen = FALSE, !.flag = "false"] ELSE rows[k]]
      /\ adrift' = IF pfms[u].state = "bad" THEN adrift ELSE adrift \cup {k[2] : k \in mine}
      /\ UNCHANGED <<sub, pfms, req>>
  BY <1>1 DEF ResetPFMSFlag, ResetPFMSFlagByPfmsUniqueId, outside
<1>3. DOMAIN rows' = DOMAIN rows /\ adrift \subseteq adrift'
  BY <1>2
<1>4. ASSUME NEW k \in DOMAIN rows, k \notin mine
      PROVE  SameMarks(k) /\ rows'[k].flag = rows[k].flag
  BY <1>2, <1>4 DEF TeInv, RowsTrue, SameMarks
<1>5. ASSUME NEW k \in mine
      PROVE  Unset(k) /\ rows'[k].flag # "Success"
  <2>1. DOMAIN rows[k] = RowFields
    BY <1>1, <1>5 DEF TeInv, RowsTrue
  <2> QED  BY <1>1, <1>2, <1>5, <2>1 DEF Unset, RowFields
<1>6. RowsRest /\ FlagsRest /\ KeysKept /\ Kept /\ ReversalsKept
  BY <1>2, <1>3, <1>4, <1>5 DEF RowsRest, FlagsRest, KeysKept, Kept, ReversalsKept
<1>7. OthersRest(0) /\ (0 \in Threads => ReqOK(0)') /\ req'[0] = req[0]
  BY <1>2, <1>6, RequestsRest
<1>8. RowsTrue' /\ PostingsTrue' /\ SubTrue' /\ ReqTrue'
  BY <1>2, <1>6, <1>7, RowsStand, PostingsStand, SubStands, ReqStands DEF TeInv
<1>9. Apart' /\ Unmarked'
  BY <1>3, <1>6, <1>7, ApartStands, UnmarkedStands DEF TeInv, Posts, IsOp
<1>10. Posted'
  <2>1. ASSUME NEW v \in DOMAIN pfms, pfms[v].of = 0, pfms[v].state # "bad",
               NEW id \in pfms[v].ids, id \notin adrift'
        PROVE  MarkedBy(v, id)' \/ Marking(v)'
    <3>1. CASE MarkedBy(v, id)
      <4>1. ASSUME NEW k \in DOMAIN rows, k[2] = id
            PROVE  k \notin mine
        <5>1. rows[k].uid = v
          BY <3>1, <4>1 DEF MarkedBy
        <5> QED  BY <1>1, <1>2, <2>1, <4>1, <5>1
      <4> QED  BY <1>3, <1>4, <3>1, <4>1 DEF MarkedBy, SameMarks
    <3>2. CASE Marking(v)
      BY <1>2, <3>2 DEF Marking, IsOp
    <3> QED  BY <1>3, <2>1, <3>1, <3>2 DEF TeInv, Posted
  <2> QED  BY <1>2, <2>1 DEF Posted
<1>11. Reversed' /\ FirstToNegate' /\ Once'
  BY <1>2, <1>3, <1>6, <1>7, ReversedStands, FirstStands, OnceStill DEF TeInv
<1> QED  BY <1>8, <1>9, <1>10, <1>11 DEF TeInv

--------------------------------------------------------------------------------
(* Negative entries *)

(* A reversal that begins found no negative entry recorded, and nobody is recording one: *)
(* the entries would be held by another request.                                         *)
LEMMA StartNegativeKeeps ==
  ASSUME TeInv, NEW t \in Threads, NEW u \in DOMAIN sub, StartNegative(t, u)
  PROVE  TeInv'
<1>1. PICK ids : ids = sub[u].ids
  OBVIOUS
<1>2. /\ UNCHANGED <<rows, sub, pfms>> /\ req[t] = Idle
      /\ sub[u].type = "te" /\ sub[u].status = "Success" /\ ~CheckIfAlreadyReversed(u)
      /\ adrift' = adrift \cup HeldByOther(t, ids)
      /\ req' = [req EXCEPT ![t] = [op |-> "negative", pc |-> "call", ids |-> ids, of |-> u,
                                    uid |-> 0, status |-> "Failed"]]
  BY <1>1 DEF StartNegative, Free, Reversible, tables, outside
<1>3. /\ u \in DOMAIN pfms /\ u # 0 /\ pfms[u].of = 0 /\ pfms[u].ids = ids /\ pfms[u].state = "ok"
      /\ ids # {}
  BY <1>1, <1>2, PostingIds DEF TeInv, SubTrue, PostingsTrue
<1>4. RowsSame /\ RowsRest /\ FlagsRest /\ KeysKept /\ Kept /\ ReversalsKept
  BY <1>2, Untouched DEF TeInv, Kept, ReversalsKept
<1>5. /\ OthersRest(t)
      /\ req'[t] = [op |-> "negative", pc |-> "call", ids |-> ids, of |-> u, uid |-> 0, status |-> "Failed"]
  BY <1>2 DEF TeInv, ReqTrue, OthersRest
<1>6. ReqOK(t)'
  <2>1. Negating(t)'
    BY <1>2, <1>3, <1>5 DEF Negating
  <2> QED  BY <1>5, <2>1 DEF ReqOK, IsOp
<1>7. \A x \in Threads : x # t => ids \cap req[x].ids \subseteq adrift'
  BY <1>2 DEF HeldByOther
<1>8. Apart'
  BY <1>2, <1>5, <1>7, ApartStands DEF TeInv
<1>9. /\ ~IsOp(t, "submit") /\ ~IsOp(t, "submit")' /\ ~IsOp(t, "negative")
      /\ adrift \subseteq adrift'
  BY <1>2, <1>5 DEF IsOp, Idle
<1>10. RowsTrue' /\ PostingsTrue' /\ SubTrue' /\ ReqTrue'
  BY <1>2, <1>4, <1>5, <1>6, RowsStand, PostingsStand, SubStands, ReqStands DEF TeInv
<1>11. Unmarked' /\ Posted' /\ Reversed' /\ Once'
  BY <1>2, <1>4, <1>5, <1>9, UnmarkedStands, PostedStands, ReversedStands, OnceStill DEF TeInv
<1>12. ASSUME ids \cap adrift' = {}, NEW w \in DOMAIN pfms, pfms[w].of = u
       PROVE  FALSE
  <2>1. Recorded(w) \/ Recording(w)
    BY <1>3, <1>9, <1>12 DEF TeInv, Reversed, PostingsTrue
  <2>2. ~Recorded(w)
    BY <1>2, <1>12 DEF Recorded, CheckIfAlreadyReversed
  <2>3. PICK x \in Threads : IsOp(x, "negative") /\ req[x].uid = w
    BY <2>1, <2>2 DEF Recording
  <2>4. Negating(x) /\ w # 0
    BY <2>3, PostingIds DEF TeInv, ReqTrue, ReqOK
  <2>5. req[x].of = u /\ req[x].ids = ids
    BY <1>3, <1>12, <2>3, <2>4 DEF Negating
  <2> QED  BY <1>3, <1>7, <1>9, <1>12, <2>3, <2>5
<1>13. FirstToNegate'
  <2>1. ASSUME NEW x \in Threads, IsOp(x, "negative")', req'[x].pc = "call", req'[x].ids \cap adrift' = {},
               NEW w \in DOMAIN pfms
        PROVE  pfms[w].of # req'[x].of
    <3>1. CASE x = t
      BY <1>5, <1>12, <2>1, <3>1
    <3>2. CASE x # t
      <4>1. req'[x] = req[x] /\ IsOp(x, "negative") /\ req[x].ids \cap adrift = {}
        BY <1>5, <1>9, <2>1, <3>2 DEF OthersRest, IsOp
      <4> QED  BY <2>1, <4>1 DEF TeInv, FirstToNegate
    <3> QED  BY <3>1, <3>2
  <2> QED  BY <1>2, <2>1 DEF FirstToNegate
<1> QED  BY <1>8, <1>10, <1>11, <1>13 DEF TeInv

(* A negative entry is about to be recorded, or its entries are adrift. *)
LEMMA NegationTakes ==
  ASSUME TeInv, NEW t \in Threads, IsOp(t, "negative"), req[t].pc = "call", NEW lines,
         Take(req[t].ids, lines, req[t].of), UNCHANGED <<rows, sub>>, OthersRest(t), ReqOK(t)',
         NEW n, n = Uid, adrift \subseteq adrift',
         \/ req'[t] = Idle /\ req[t].ids \subseteq adrift'
         \/ IsOp(t, "negative")' /\ req'[t].pc = "insert" /\ req'[t].uid = n /\ req'[t].ids = req[t].ids
  PROVE  TeInv'
<1>1. PICK ids, u : ids = req[t].ids /\ u = req[t].of
  OBVIOUS
<1>2. /\ n \notin DOMAIN pfms /\ n # 0 /\ DOMAIN pfms' = DOMAIN pfms \cup {n} /\ Kept
      /\ \A v \in DOMAIN pfms : pfms'[v] = pfms[v]
      /\ DOMAIN pfms'[n] = PostingFields /\ pfms'[n].ids = ids /\ pfms'[n].of = u
      /\ InSequence'
  <2>1. PostingsTrue
    BY DEF TeInv
  <2>2. Take(ids, lines, u)
    BY <1>1
  <2> QED  BY <2>1, <2>2, TakeDoes
<1>3. RowsSame /\ RowsRest /\ FlagsRest /\ KeysKept /\ ReversalsKept
  BY Untouched DEF TeInv, ReversalsKept
<1>4. /\ u \in DOMAIN pfms /\ u # 0 /\ pfms[u].of = 0 /\ pfms[u].ids = ids /\ pfms[u].state = "ok"
      /\ ids # {} /\ \A id \in ids : HasRows(id)
  BY <1>1, PostingIds DEF TeInv, ReqTrue, ReqOK, Negating, PostingsTrue
<1>5. PostingsTrue'
  BY <1>2, <1>3, <1>4, PostingAdded DEF TeInv
<1>6. RowsTrue' /\ SubTrue' /\ ReqTrue'
  BY <1>2, <1>3, RowsStand, SubStands, ReqStands DEF TeInv
<1>7. Apart'
  BY ApartStands DEF TeInv, Posts, IsOp, Idle
<1>8. ~IsOp(t, "submit") /\ ~IsOp(t, "submit")' /\ ~(IsOp(t, "negative")' /\ req'[t].pc = "call")
  BY DEF IsOp, Idle
<1>9. Unmarked'
  BY <1>3, <1>8, UnmarkedStands DEF TeInv
<1>10. Posted'
  BY <1>2, <1>3, <1>4, <1>8, PostedStands DEF TeInv
<1>11. Reversed'
  <2>1. pfms'[n].ids \cap adrift' # {} \/ Recording(n)'
    BY <1>1, <1>2, <1>4 DEF Recording
  <2> QED  BY <1>2, <1>3, <2>1, ReversedStands DEF TeInv
<1>12. FirstToNegate'
  <2>1. ASSUME NEW x \in Threads, IsOp(x, "negative"), x # t, req[x].ids \cap adrift' = {}
        PROVE  pfms'[n].of # req[x].of
    <3>1. SUFFICES ASSUME req[x].of = u PROVE FALSE
      BY <1>2
    <3>2. req[x].ids = ids
      BY <1>4, <2>1, <3>1 DEF TeInv, ReqTrue, ReqOK, Negating
    <3>3. ids \cap ids \subseteq adrift
      BY <1>1, <2>1, <3>2 DEF TeInv, Apart, Posts, IsOp
    <3> QED  BY <1>4, <2>1, <3>2, <3>3
  <2> QED  BY <1>2, <1>8, <2>1, FirstStands DEF TeInv
<1>13. Once'
  <2>1. ids \cap adrift' = {} => \A w \in DOMAIN pfms : pfms[w].of # u
    BY <1>1 DEF TeInv, FirstToNegate
  <2> QED  BY <1>2, <1>5, <2>1, OnceStands DEF TeInv, PostingsTrue
<1> QED  BY <1>5, <1>6, <1>7, <1>9, <1>10, <1>11, <1>12, <1>13 DEF TeInv

(* The calls of CreateNegativePfmsTeHandler: taken, refused, not logged in, answer lost. *)
LEMMA CreateNegativePfmsTeKeeps ==
  ASSUME TeInv, NEW t \in Threads, CreateNegativePfmsTe(t)
  PROVE  TeInv'
<1>1. PICK ids, u, n, lines :
        ids = req[t].ids /\ u = req[t].of /\ n = Uid /\ lines = FlipPayloadAmounts(pfms[req[t].of].lines)
  OBVIOUS
<1>2. IsOp(t, "negative") /\ req[t].pc = "call" /\ UNCHANGED <<rows, sub>>
  BY DEF CreateNegativePfmsTe, At, IsOp, tables
<1>3. ReqTrue /\ PostingsTrue /\ Negating(t)
  BY <1>2 DEF TeInv, ReqTrue, ReqOK
<1>4. \/ /\ Take(ids, lines, u) /\ adrift' = adrift
         /\ req' = [req EXCEPT ![t].pc = "insert", ![t].uid = n, ![t].status = "Success"]
      \/ Goto(t, "insert") /\ UNCHANGED <<pfms, adrift>>
      \/ Done(t) /\ UNCHANGED <<pfms, adrift>>
      \/ Take(ids, lines, u) /\ Done(t) /\ adrift' = adrift \cup ids
  BY <1>1 DEF CreateNegativePfmsTe
<1>5. CASE /\ Take(ids, lines, u) /\ adrift' = adrift
           /\ req' = [req EXCEPT ![t].pc = "insert", ![t].uid = n, ![t].status = "Success"]
  <2>1. /\ OthersRest(t) /\ DOMAIN req'[t] = DOMAIN req[t] /\ req'[t].op = req[t].op
        /\ req'[t].pc = "insert" /\ req'[t].uid = n /\ req'[t].ids = ids /\ req'[t].of = u
        /\ req'[t].status = "Success"
    BY <1>1, <1>3, <1>5 DEF ReqTrue, OthersRest, Negating
  <2>2. /\ n # 0 /\ Kept /\ DOMAIN pfms' = DOMAIN pfms \cup {n} /\ pfms'[n].of = u
        /\ \A v \in DOMAIN pfms : pfms'[v] = pfms[v]
    BY <1>1, <1>3, <1>5, TakeDoes
  <2>3. Negating(t)'
    BY <1>1, <1>3, <2>1, <2>2 DEF Negating
  <2>4. ReqOK(t)' /\ IsOp(t, "negative")'
    BY <1>2, <1>3, <2>1, <2>3 DEF ReqOK, IsOp, Negating
  <2> QED  BY <1>1, <1>2, <1>5, <2>1, <2>4, NegationTakes
<1>6. CASE Goto(t, "insert") /\ UNCHANGED <<pfms, adrift>>
  <2>1. /\ OthersRest(t) /\ DOMAIN req'[t] = DOMAIN req[t] /\ req'[t].op = "negative"
        /\ req'[t].pc = "insert" /\ req'[t].uid = 0 /\ req'[t].ids = ids /\ req'[t].of = u
        /\ req'[t].status = "Failed"
    BY <1>1, <1>2, <1>3, <1>6 DEF ReqTrue, OthersRest, Negating, Goto, IsOp
  <2>2. ReqOK(t)'
    <3>1. Negating(t)'
      BY <1>1, <1>3, <1>6, <2>1 DEF Negating
    <3> QED  BY <1>3, <2>1, <3>1 DEF ReqOK, IsOp, Negating
  <2>3. RowsSame /\ RowsRest /\ FlagsRest /\ KeysKept /\ Kept /\ ReversalsKept
    BY <1>2, <1>6, Untouched DEF TeInv, Kept, ReversalsKept
  <2>4. PostingsTrue' /\ RowsTrue' /\ SubTrue'
    BY <1>2, <1>6, <2>3, PostingsStand, RowsStand, SubStands DEF TeInv
  <2> QED  BY <1>1, <1>2, <1>6, <2>1, <2>2, <2>3, <2>4, StepKeeps DEF Posts, IsOp
<1>7. CASE Done(t) /\ UNCHANGED <<pfms, adrift>>
  <2>1. ReversalsKept /\ SubTrue'
    BY <1>2, <1>7, SubStands DEF TeInv, ReversalsKept, Kept
  <2> QED  BY <1>2, <1>7, <2>1, EndKeeps DEF IsOp
<1>8. CASE Take(ids, lines, u) /\ Done(t) /\ adrift' = adrift \cup ids
  <2>1. OthersRest(t) /\ req'[t] = Idle /\ ReqOK(t)'
    BY <1>3, <1>8, IdleIsOK
  <2> QED  BY <1>1, <1>2, <1>8, <2>1, NegationTakes
<1> QED  BY <1>4, <1>5, <1>6, <1>7, <1>8

(* InsertReversalPfmsSubmission records the negative entry; when it fails the entries are *)
(* adrift, and a refused one is recorded as Failed.                                       *)
LEMMA RecordReversalKeeps ==
  ASSUME TeInv, NEW t \in Threads, RecordReversal(t)
  PROVE  TeInv'
<1>1. PICK n, ids, of, status :
        n = req[t].uid /\ ids = req[t].ids /\ of = req[t].of /\ status = req[t].status
  OBVIOUS
<1>2. /\ IsOp(t, "negative") /\ req[t].pc = "insert" /\ Goto(t, "audit") /\ UNCHANGED <<rows, pfms>>
      /\ adrift \subseteq adrift'
      /\ \/ sub' = sub /\ (n # 0 => ids \subseteq adrift')
         \/ sub' = Put(sub, n, [type |-> "terev", ids |-> ids, status |-> status, of |-> of])
  BY <1>1 DEF RecordReversal, InsertReversalPfmsSubmission, Unrecorded, At, IsOp, outside
<1>3. Negating(t) /\ ReqTrue
  BY <1>2 DEF TeInv, ReqTrue, ReqOK
<1>4. /\ n = 0 => status = "Failed"
      /\ n # 0 => n \in DOMAIN pfms /\ pfms[n].of = of /\ of # 0 /\ status = "Success"
  BY <1>1, <1>3, PostingIds DEF Negating, TeInv
<1>5. /\ OthersRest(t) /\ DOMAIN req'[t] = DOMAIN req[t] /\ req'[t].op = "negative"
      /\ req'[t].pc = "audit" /\ req'[t].uid = n /\ req'[t].ids = ids /\ req'[t].of = of
      /\ req'[t].status = status
  BY <1>1, <1>2, <1>3 DEF ReqTrue, OthersRest, Negating, Goto, IsOp
<1>6. ReqOK(t)'
  <2>1. Negating(t)'
    BY <1>1, <1>2, <1>3, <1>5 DEF Negating
  <2> QED  BY <1>3, <1>5, <2>1 DEF ReqOK, IsOp, Negating
<1>7. 0 \notin DOMAIN pfms
  BY PostingIds DEF TeInv
<1>8. SubTrue' /\ ReversalsKept /\ (n # 0 => ids \subseteq adrift' \/ Recorded(n)')
  <2>1. CASE sub' = sub /\ (n # 0 => ids \subseteq adrift')
    BY <1>2, <2>1, SubStands DEF TeInv, Kept, ReversalsKept
  <2>2. CASE sub' = Put(sub, n, [type |-> "terev", ids |-> ids, status |-> status, of |-> of])
    <3>1. /\ DOMAIN sub' = DOMAIN sub \cup {n} /\ \A u \in DOMAIN sub : u # n => sub'[u] = sub[u]
          /\ DOMAIN sub'[n] = SubFields /\ sub'[n].type = "terev" /\ sub'[n].ids = ids
          /\ sub'[n].status = status /\ sub'[n].of = of
      BY <2>2 DEF Put, SubFields
    <3>2. SubTrue'
      BY <1>2, <1>4, <3>1 DEF TeInv, SubTrue
    <3>3. ReversalsKept
      BY <1>4, <1>7, <3>1 DEF TeInv, SubTrue, ReversalsKept
    <3>4. n # 0 => Recorded(n)'
      BY <1>2, <1>4, <3>1 DEF Recorded
    <3> QED  BY <3>2, <3>3, <3>4
  <2> QED  BY <1>2, <2>1, <2>2
<1>9. RowsSame /\ RowsRest /\ FlagsRest /\ KeysKept /\ Kept
  BY <1>2, Untouched DEF TeInv, Kept
<1>10. PostingsTrue' /\ RowsTrue' /\ DOMAIN pfms' = DOMAIN pfms
  BY <1>2, <1>9, PostingsStand, RowsStand DEF TeInv
<1>11. req[t].ids \subseteq adrift' \/ \A w : w = req[t].uid /\ w # 0 => Recorded(w)'
  BY <1>1, <1>8
<1> QED  BY <1>1, <1>2, <1>5, <1>6, <1>8, <1>9, <1>10, <1>11, StepKeeps DEF Posts, IsOp

(* InsertTeReversal is an audit row only. *)
LEMMA FinishReversalKeeps ==
  ASSUME TeInv, NEW t \in Threads, FinishReversal(t)
  PROVE  TeInv'
<1>1. IsOp(t, "negative") /\ req[t].pc = "audit" /\ Done(t) /\ UNCHANGED <<rows, sub, pfms, adrift>>
  BY DEF FinishReversal, At, IsOp, outside, ghosts
<1>2. ReversalsKept /\ SubTrue'
  BY <1>1, SubStands DEF TeInv, ReversalsKept, Kept
<1> QED  BY <1>1, <1>2, EndKeeps DEF IsOp

(* A request that stops with a posting in hand leaves its entries adrift. *)
LEMMA StopKeeps ==
  ASSUME TeInv, NEW t \in Threads, Stop(t)
  PROVE  TeInv'
<1>1. /\ Done(t) /\ UNCHANGED <<rows, sub, pfms>> /\ adrift \subseteq adrift'
      /\ Posts(t) /\ req[t].uid # 0 => req[t].ids \subseteq adrift'
  BY DEF Stop, Unrecorded, Posts, tables, outside
<1>2. ReversalsKept /\ SubTrue'
  BY <1>1, SubStands DEF TeInv, ReversalsKept, Kept
<1>3. IsOp(t, "submit") /\ req[t].pc = "mark" => req[t].ids \subseteq adrift'
  BY <1>1, PostingIds DEF TeInv, ReqTrue, ReqOK, Submitting, Posts, IsOp
<1>4. IsOp(t, "negative") =>
        req[t].ids \subseteq adrift' \/ \A w : w = req[t].uid /\ w # 0 => Recorded(w)'
  BY <1>1 DEF Posts, IsOp
<1> QED  BY <1>1, <1>2, <1>3, <1>4, EndKeeps

--------------------------------------------------------------------------------
(* The invariant and what follows from it *)

(* Nothing is created, posted or asked at first. *)
LEMMA InitHolds ==
  ASSUME Init
  PROVE  TeInv
<1>1. DOMAIN pfms = {} /\ pfms = << >> /\ DOMAIN rows = {} /\ DOMAIN sub = {}
  BY DEF Init
<1>2. InSequence
  BY <1>1, EmptySeq DEF InSequence
<1>3. DOMAIN req = Threads /\ \A t \in Threads : req[t] = Idle
  BY DEF Init
<1>4. ReqTrue
  BY <1>3 DEF ReqTrue, ReqOK, IsOp, Idle
<1>5. \A t \in Threads : req[t].op = "idle"
  BY <1>3 DEF Idle
<1>6. Apart /\ Unmarked /\ FirstToNegate
  BY <1>5 DEF Apart, Unmarked, FirstToNegate, Posts, IsOp
<1> QED  BY <1>1, <1>2, <1>4, <1>6 DEF TeInv, RowsTrue, PostingsTrue, SubTrue, Posted, Reversed, Once

(* A step that changes nothing keeps the invariant. *)
LEMMA StutterKeeps ==
  ASSUME TeInv, UNCHANGED vars
  PROVE  TeInv'
<1>1. UNCHANGED <<rows, sub, pfms, req, adrift>>
  BY DEF vars, tables, outside, ghosts
<1>2. RowsSame /\ FlagsRest /\ KeysKept /\ Kept
  BY <1>1, Untouched DEF TeInv, Kept
<1> QED  BY <1>1, <1>2, RequestsRest, QuietKeeps

(* Every step keeps the invariant. *)
LEMMA NextKeeps ==
  ASSUME TeInv, [Next]_vars
  PROVE  TeInv'
<1>1. CASE Tick \/ Create
  BY <1>1, TickKeeps, CreateKeeps
<1>2. ASSUME NEW t \in Threads, Begin(t)
      PROVE  TeInv'
  <2>1. CASE \E id \in Ids : TakeToVerify(t, id) \/ TakeToReject(t, id)
    BY <2>1, TakeCreatedKeeps DEF TakeToVerify, TakeToReject
  <2>2. CASE \E ids \in SUBSET Ids : TakeVerified(t, ids)
    BY <2>2, TakeVerifiedKeeps
  <2>3. CASE \E u \in DOMAIN sub : StartNegative(t, u)
    BY <2>3, StartNegativeKeeps
  <2> QED  BY <1>2, <2>1, <2>2, <2>3 DEF Begin
<1>3. ASSUME NEW t \in Threads, Serve(t)
      PROVE  TeInv'
  BY <1>3, AskBudgetKeeps, DecideKeeps, CreatePfmsTeKeeps, GetTePfmsUpdateStatusKeeps,
     InsertTePfmsSubmissionKeeps, CreateNegativePfmsTeKeeps, RecordReversalKeeps,
     FinishReversalKeeps, StopKeeps DEF Serve
<1>4. ASSUME NEW u \in DOMAIN pfms, (\E s \in {"ok", "bad"} : PfmsDecides(u, s)) \/ ResetPFMSFlag(u)
      PROVE  TeInv'
  BY <1>4, PfmsDecidesKeeps, ResetPFMSFlagKeeps
<1>5. ASSUME NEW u \in DOMAIN sub, UpdatePfmsSubmissionStatus(u)
      PROVE  TeInv'
  BY <1>5, UpdatePfmsSubmissionStatusKeeps
<1>6. CASE UNCHANGED vars
  BY <1>6, StutterKeeps
<1> QED  BY <1>1, <1>2, <1>3, <1>4, <1>5, <1>6 DEF Next

(* Rows, submissions, requests and postings agree, always. *)
THEOREM TeInvariant == Spec => []TeInv
<1>1. Init => TeInv
  BY InitHolds
<1>2. TeInv /\ [Next]_vars => TeInv'
  BY NextKeeps
<1> QED  BY <1>1, <1>2, PTL DEF Spec

(* A set without two elements has at most one. *)
LEMMA AtMostOne ==
  ASSUME NEW S, \A a, b \in S : a = b
  PROVE  Cardinality(S) <= 1
<1>1. CASE S = {}
  BY <1>1, FS_EmptySet
<1>2. CASE S # {}
  <2>1. PICK a \in S : S = {a}
    BY <1>2
  <2> QED  BY <2>1, FS_Singleton
<1> QED  BY <1>1, <1>2

(* A row that is not generated has no posting but one its request is about to mark. *)
LEMMA RowsTell ==
  ASSUME TeInv
  PROVE  ShownMeansHeld
<1> SUFFICES ASSUME NEW k \in DOMAIN rows
             PROVE  /\ rows[k].flag = "Success" =>
                         pfms[rows[k].uid].state = "ok" /\ k[2] \in pfms[rows[k].uid].ids
                    /\ ~rows[k].gen /\ k[2] \notin adrift /\ ~Working(k[2]) => Live(k[2]) = {}
  BY DEF ShownMeansHeld
<1>1. rows[k].flag = "Success" => pfms[rows[k].uid].state = "ok" /\ k[2] \in pfms[rows[k].uid].ids
  BY DEF TeInv, RowsTrue
<1>2. ASSUME ~rows[k].gen, k[2] \notin adrift, ~Working(k[2]), NEW u \in Live(k[2])
      PROVE  FALSE
  <2>1. u \in DOMAIN pfms /\ k[2] \in pfms[u].ids /\ pfms[u].of = 0 /\ pfms[u].state # "bad"
    BY DEF Live
  <2>2. MarkedBy(u, k[2]) \/ Marking(u)
    BY <1>2, <2>1 DEF TeInv, Posted
  <2>3. ~MarkedBy(u, k[2])
    BY <1>2 DEF MarkedBy
  <2>4. PICK x \in Threads : IsOp(x, "submit") /\ req[x].pc = "mark" /\ req[x].uid = u
    BY <2>2, <2>3 DEF Marking
  <2>5. req[x].ids = pfms[u].ids
    BY <2>4 DEF TeInv, ReqTrue, ReqOK, Submitting
  <2> QED  BY <1>2, <2>1, <2>5 DEF Working
<1> QED  BY <1>1, <1>2

(* Two postings of an entry would both be named by its rows, or be marked by two requests. *)
LEMMA OnePosting ==
  ASSUME TeInv
  PROVE  PostedTwiceOnlyWhenAdrift
<1>1. ASSUME NEW id, id \notin adrift, NEW u \in Live(id), NEW v \in Live(id)
      PROVE  u = v
  <2>1. /\ u \in DOMAIN pfms /\ id \in pfms[u].ids /\ pfms[u].of = 0 /\ pfms[u].state # "bad"
        /\ v \in DOMAIN pfms /\ id \in pfms[v].ids /\ pfms[v].of = 0 /\ pfms[v].state # "bad"
    BY DEF Live
  <2>2. (MarkedBy(u, id) \/ Marking(u)) /\ (MarkedBy(v, id) \/ Marking(v))
    BY <1>1, <2>1 DEF TeInv, Posted
  <2>3. PICK k \in DOMAIN rows : k[2] = id
    BY <2>1 DEF TeInv, PostingsTrue, HasRows
  <2>4. ASSUME NEW x \in Threads, NEW w, IsOp(x, "submit"), req[x].pc = "mark", req[x].uid = w,
               w \in DOMAIN pfms, id \in pfms[w].ids
        PROVE  id \in req[x].ids /\ Posts(x) /\ ~rows[k].gen
    <3>1. id \in req[x].ids
      BY <2>4 DEF TeInv, ReqTrue, ReqOK, Submitting
    <3> QED  BY <1>1, <2>3, <2>4, <3>1 DEF TeInv, Unmarked, Posts, IsOp
  <2>5. CASE MarkedBy(u, id)
    <3>1. rows[k].gen /\ rows[k].uid = u
      BY <2>3, <2>5 DEF MarkedBy
    <3>2. MarkedBy(v, id)
      BY <2>1, <2>2, <2>4, <3>1 DEF Marking
    <3> QED  BY <2>3, <3>1, <3>2 DEF MarkedBy
  <2>6. CASE Marking(u) /\ ~MarkedBy(u, id)
    <3>1. PICK x \in Threads : IsOp(x, "submit") /\ req[x].pc = "mark" /\ req[x].uid = u
      BY <2>6 DEF Marking
    <3>2. id \in req[x].ids /\ Posts(x) /\ ~rows[k].gen
      BY <2>1, <2>4, <3>1
    <3>3. ~MarkedBy(v, id)
      BY <2>3, <3>2 DEF MarkedBy
    <3>4. PICK y \in Threads : IsOp(y, "submit") /\ req[y].pc = "mark" /\ req[y].uid = v
      BY <2>2, <3>3 DEF Marking
    <3>5. id \in req[y].ids /\ Posts(y)
      BY <2>1, <2>4, <3>4
    <3>6. x = y
      BY <1>1, <3>2, <3>5 DEF TeInv, Apart
    <3> QED  BY <3>1, <3>4, <3>6
  <2> QED  BY <2>2, <2>5, <2>6
<1> QED  BY <1>1, AtMostOne DEF PostedTwiceOnlyWhenAdrift

(* Two negative entries of a posting would be one. *)
LEMMA OneNegative ==
  ASSUME TeInv
  PROVE  NegativeOnceAndBooked
<1> SUFFICES ASSUME NEW v \in DOMAIN pfms, pfms[v].of # 0
             PROVE  /\ pfms[pfms[v].of].state = "ok" /\ pfms[pfms[v].of].of = 0
                    /\ pfms[v].ids \cap adrift = {} =>
                         Cardinality({w \in DOMAIN pfms : pfms[w].of = pfms[v].of
                                                          /\ pfms[w].state # "bad"}) <= 1
  BY DEF NegativeOnceAndBooked
<1>1. pfms[pfms[v].of].state = "ok" /\ pfms[pfms[v].of].of = 0
  BY DEF TeInv, PostingsTrue
<1>2. pfms[v].ids \cap adrift = {} => \A w \in DOMAIN pfms : pfms[w].of = pfms[v].of => w = v
  BY DEF TeInv, Once
<1> QED  BY <1>1, <1>2, AtMostOne

(* An entry shown as Success is in a posting PFMS booked; one not shown as submitted, at        *)
(* rest and not adrift, is in none (UpdatePfmsSubmissionStatusRepo, GetTePfmsUpdateStatusRepo). *)
THEOREM RowsTellTheTruth == Spec => []ShownMeansHeld
<1> QED  BY TeInvariant, RowsTell, PTL

(* PFMS holds two postings of an entry only after a lost answer, a record that was not *)
(* written, a reset, or two submissions at once (CreatePfmsTeHandler).                 *)
THEOREM OnePostingEach == Spec => []PostedTwiceOnlyWhenAdrift
<1> QED  BY TeInvariant, OnePosting, PTL

(* A negative entry is posted for a booked submission only, and once unless its entries *)
(* are adrift (CreateNegativePfmsTeHandler, CheckIfAlreadyReversed).                    *)
THEOREM OneNegativeEach == Spec => []NegativeOnceAndBooked
<1> QED  BY TeInvariant, OneNegative, PTL

(* A head the budget is checked for is one it is consumed for (shouldCheckBudget, *)
(* shouldPostToBudget).                                                          *)
LEMMA CheckedHeadsArePosted ==
  \A h : ShouldCheckBudget(h) => ShouldPostToBudget(h)
BY DEF ShouldCheckBudget, ShouldPostToBudget

(* The two names of a financial year differ by one, in every month. *)
LEMMA YearsAgree ==
  ASSUME NEW date, date.y \in Int, date.m \in Int
  PROVE  PfmsFinYear(date) = FinancialYear(date) + 1
BY DEF PfmsFinYear, FinancialYear

--------------------------------------------------------------------------------
(* The budget *)

Decides(t) == req[t].op \in {"verify", "reject"}
Stores(t) == req[t].op = "verify" /\ req[t].pc = "store"

\* What the rows are, and that what was not verified as it was created is an officer's.
RowsWritten ==
  /\ IsFiniteSet(DOMAIN rows)
  /\ \A k \in DOMAIN rows :
       /\ k = <<k[1], k[2]>> /\ rows[k].amount \in Int
       /\ rows[k].status = "created" => rows[k].by = "officer"

\* All its rows wait for an officer, and these lines are theirs.
Awaits(id) == HasRows(id) /\ \A k \in DOMAIN rows : k[2] = id => rows[k].status = "created"
LinesAre(lines, id) ==
  /\ DOMAIN lines = {k[1] : k \in RowsOf(id)}
  /\ \A h \in DOMAIN lines : lines[h].type = rows[<<h, id>>].type /\ lines[h].amount = rows[<<h, id>>].amount

\* One request at a time decides on an entry, and finds it as it took it.
DecidedByOne(id) ==
  \A t \in Threads : Decides(t) /\ id \in req[t].ids =>
    /\ Awaits(id) /\ LinesAre(req[t].lines, id)
    /\ \A u \in Threads : u # t /\ Decides(u) => id \notin req[u].ids

\* What is consumed for it: what is about to be stored as verified, or what is.
Consumes(id) ==
  /\ \A t \in Threads : Stores(t) /\ id \in req[t].ids => budget[id] = BudgetSum(req[t].lines)
  /\ (\A t \in Threads : Stores(t) => id \notin req[t].ids) => budget[id] = BudgetSum(VerifiedLines(id))

OneEntryEach == \A t \in Threads : Decides(t) => \E id \in Ids : req[t].ids = {id}

(* The inductive invariant. *)
BudgetInv ==
  RowsWritten /\ DOMAIN budget = Ids /\ OneEntryEach
  /\ \A id \in Ids \ contested : DecidedByOne(id) /\ Consumes(id)

\* The rows of an entry say what they did, PFMS aside.
LinesKept(id) ==
  /\ {k \in DOMAIN rows' : k[2] = id} = {k \in DOMAIN rows : k[2] = id}
  /\ \A k \in DOMAIN rows : k[2] = id =>
       /\ rows'[k].type = rows[k].type /\ rows'[k].amount = rows[k].amount
       /\ rows'[k].status = rows[k].status /\ rows'[k].by = rows[k].by

(* The sum depends on the types and amounts alone. *)
LEMMA SameSum ==
  ASSUME NEW f, NEW g, DOMAIN f = DOMAIN g,
         \A h \in DOMAIN f : f[h].type = g[h].type /\ f[h].amount = g[h].amount
  PROVE  BudgetSum(f) = BudgetSum(g)
<1>1. PICK S : S = BudgetLines(f)
  OBVIOUS
<1>2. S = BudgetLines(g) /\ S \subseteq DOMAIN f
  BY <1>1 DEF BudgetLines
<1>3. [h \in S |-> Consumed(f[h])] = [h \in S |-> Consumed(g[h])]
  BY <1>2 DEF Consumed
<1>4. BudgetSum(f) = SumOf([h \in S |-> Consumed(f[h])], S)
  BY <1>1 DEF BudgetSum
<1>5. BudgetSum(g) = SumOf([h \in S |-> Consumed(g[h])], S)
  BY <1>2 DEF BudgetSum
<1> QED  BY <1>3, <1>4, <1>5

(* Lines the budget service is not asked about consume nothing. *)
LEMMA NoLines ==
  ASSUME NEW f, BudgetLines(f) = {}
  PROVE  BudgetSum(f) = 0
BY SumEmpty DEF BudgetSum

(* Nothing is verified of an entry that waits, or has no rows. *)
LEMMA NoneVerified ==
  ASSUME NEW id, \A k \in DOMAIN rows : k[2] = id => rows[k].status # "verified" \/ rows[k].by = "direct"
  PROVE  BudgetSum(VerifiedLines(id)) = 0
<1>1. DOMAIN VerifiedLines(id) = {}
  BY DEF VerifiedLines, RowsOf
<1> QED  BY <1>1, NoLines DEF BudgetLines

(* An entry whose lines, consumption and deciding request stand is as it was. *)
LEMMA EntryStands ==
  ASSUME NEW id, DecidedByOne(id), Consumes(id), RowsWritten, LinesKept(id), budget'[id] = budget[id],
         \A t \in Threads : (Decides(t) /\ id \in req[t].ids) \/ (Decides(t)' /\ id \in req'[t].ids) =>
           req'[t] = req[t]
  PROVE  DecidedByOne(id)' /\ Consumes(id)'
<1>1. \A t \in Threads : Decides(t)' /\ id \in req'[t].ids => req'[t] = req[t] /\ Decides(t) /\ id \in req[t].ids
  BY DEF Decides
<1>2. /\ \A k \in DOMAIN rows' : k[2] = id =>
           /\ k \in DOMAIN rows /\ rows'[k].type = rows[k].type /\ rows'[k].amount = rows[k].amount
           /\ rows'[k].status = rows[k].status /\ rows'[k].by = rows[k].by
      /\ \A k \in DOMAIN rows : k[2] = id => k \in DOMAIN rows'
  BY DEF LinesKept
<1>3. RowsOf(id)' = RowsOf(id)
  BY <1>2 DEF RowsOf
<1>4. Awaits(id) => Awaits(id)'
  BY <1>2 DEF Awaits, HasRows
<1>5. \A h : <<h, id>> \in DOMAIN rows =>
        rows'[<<h, id>>].type = rows[<<h, id>>].type /\ rows'[<<h, id>>].amount = rows[<<h, id>>].amount
  BY DEF LinesKept
<1>6. \A k \in RowsOf(id) : k = <<k[1], id>> /\ k \in DOMAIN rows
  BY DEF RowsOf, RowsWritten
<1>7. ASSUME NEW lines, LinesAre(lines, id) PROVE LinesAre(lines, id)'
  <2>1. \A h \in DOMAIN lines : <<h, id>> \in DOMAIN rows
    BY <1>6, <1>7 DEF LinesAre
  <2> QED  BY <1>3, <1>5, <1>7, <2>1 DEF LinesAre
<1>8. DecidedByOne(id)'
  <2> SUFFICES ASSUME NEW t \in Threads, Decides(t)', id \in req'[t].ids
               PROVE  /\ Awaits(id)' /\ LinesAre(req[t].lines, id)' /\ req'[t].lines = req[t].lines
                      /\ \A u \in Threads : u # t /\ Decides(u)' => id \notin req'[u].ids
    BY <1>1 DEF DecidedByOne
  <2>1. req'[t] = req[t] /\ Decides(t) /\ id \in req[t].ids
    BY <1>1
  <2>2. PICK lines : lines = req[t].lines
    OBVIOUS
  <2>3. LinesAre(lines, id) /\ Awaits(id)
    BY <2>1, <2>2 DEF DecidedByOne
  <2>4. LinesAre(lines, id)'
    BY <1>7, <2>3
  <2>5. LinesAre(req[t].lines, id)'
    BY <2>1, <2>2, <2>4 DEF LinesAre
  <2> QED  BY <1>1, <1>4, <2>1, <2>3, <2>5 DEF DecidedByOne
<1>9. \A t \in Threads : (Stores(t) /\ id \in req[t].ids <=> Stores(t)' /\ id \in req'[t].ids)
                         /\ (Stores(t) /\ id \in req[t].ids => req'[t] = req[t])
  BY <1>1 DEF Stores, Decides
<1>10. BudgetSum(VerifiedLines(id))' = BudgetSum(VerifiedLines(id))
  <2>1. PICK f : f = VerifiedLines(id)
    OBVIOUS
  <2>2. PICK g : g = VerifiedLines(id)'
    OBVIOUS
  <2>3. PICK S : S = {k[1] : k \in {q \in RowsOf(id) : rows[q].status = "verified" /\ rows[q].by # "direct"}}
    OBVIOUS
  <2>4. S = {k[1] : k \in {q \in RowsOf(id)' : rows'[q].status = "verified" /\ rows'[q].by # "direct"}}
    <3>1. \A q \in RowsOf(id) : rows'[q].status = rows[q].status /\ rows'[q].by = rows[q].by
      BY DEF RowsOf, LinesKept
    <3>2. {q \in RowsOf(id)' : rows'[q].status = "verified" /\ rows'[q].by # "direct"}
            = {q \in RowsOf(id) : rows[q].status = "verified" /\ rows[q].by # "direct"}
      BY <1>3, <3>1
    <3> QED  BY <2>3, <3>2
  <2>5. f = [h \in S |-> rows[<<h, id>>]]
    BY <2>1, <2>3 DEF VerifiedLines
  <2>6. g = [h \in S |-> rows'[<<h, id>>]]
    BY <2>2, <2>4 DEF VerifiedLines
  <2>7. \A h \in S : <<h, id>> \in DOMAIN rows
    BY <1>6, <2>3
  <2>8. BudgetSum(f) = BudgetSum(g)
    BY <1>5, <2>5, <2>6, <2>7, SameSum
  <2>9. BudgetSum(VerifiedLines(id))' = BudgetSum(g)
    BY <2>2 DEF BudgetSum, BudgetLines
  <2> QED  BY <2>1, <2>8, <2>9
<1>11. Consumes(id)'
  <2>1. ASSUME NEW t \in Threads, Stores(t)', id \in req'[t].ids
        PROVE  budget'[id] = BudgetSum(req[t].lines) /\ req'[t].lines = req[t].lines
    BY <1>9, <2>1 DEF Consumes
  <2>2. \A t \in Threads : Stores(t)' /\ id \in req'[t].ids => budget'[id] = BudgetSum(req[t].lines)'
    <3> SUFFICES ASSUME NEW t \in Threads, Stores(t)', id \in req'[t].ids
                 PROVE  budget'[id] = BudgetSum(req[t].lines)'
      OBVIOUS
    <3>1. BudgetSum(req[t].lines)' = BudgetSum(req[t].lines)
      BY <2>1 DEF BudgetSum, BudgetLines
    <3> QED  BY <2>1, <3>1
  <2>3. (\A t \in Threads : Stores(t)' => id \notin req'[t].ids) => budget'[id] = BudgetSum(VerifiedLines(id))'
    BY <1>9, <1>10 DEF Consumes
  <2> QED  BY <2>2, <2>3 DEF Consumes
<1> QED  BY <1>8, <1>11

(* A step that concerns one entry keeps the invariant when it leaves that one in order. *)
LEMMA OneEntryMoves ==
  ASSUME BudgetInv, NEW id, contested \subseteq contested', RowsWritten', DOMAIN budget' = Ids, OneEntryEach',
         \A e \in Ids : e # id =>
           /\ LinesKept(e) /\ budget'[e] = budget[e]
           /\ \A t \in Threads : (Decides(t) /\ e \in req[t].ids) \/ (Decides(t)' /\ e \in req'[t].ids) =>
                req'[t] = req[t],
         id \in Ids \ contested' => DecidedByOne(id)' /\ Consumes(id)'
  PROVE  BudgetInv'
<1>1. ASSUME NEW e \in Ids, e \notin contested', e # id
      PROVE  DecidedByOne(e)' /\ Consumes(e)'
  <2>1. DecidedByOne(e) /\ Consumes(e) /\ RowsWritten
    BY <1>1 DEF BudgetInv
  <2>2. LinesKept(e) /\ budget'[e] = budget[e]
    BY <1>1
  <2>3. \A t \in Threads : (Decides(t) /\ e \in req[t].ids) \/ (Decides(t)' /\ e \in req'[t].ids) => req'[t] = req[t]
    BY <1>1
  <2> QED  BY <2>1, <2>2, <2>3, EntryStands
<1>2. ASSUME NEW e \in Ids, e \notin contested' PROVE DecidedByOne(e)' /\ Consumes(e)'
  BY <1>1, <1>2
<1> QED  BY <1>2 DEF BudgetInv

\* Rows are marked by PFMS at most.
MarksOnly ==
  /\ DOMAIN rows' = DOMAIN rows
  /\ \A k \in DOMAIN rows :
       /\ rows'[k].type = rows[k].type /\ rows'[k].amount = rows[k].amount
       /\ rows'[k].status = rows[k].status /\ rows'[k].by = rows[k].by

LEMMA MarksKeepLines ==
  ASSUME MarksOnly, RowsWritten
  PROVE  RowsWritten' /\ \A id : LinesKept(id)
BY DEF MarksOnly, RowsWritten, LinesKept

(* A step of a request that decides on no entry leaves the budget alone. *)
LEMMA BudgetRests ==
  ASSUME BudgetInv, MarksOnly, UNCHANGED <<budget, contested>>,
         \A t \in Threads : Decides(t) \/ Decides(t)' => req'[t] = req[t]
  PROVE  BudgetInv'
<1>1. RowsWritten' /\ \A e : LinesKept(e)
  BY MarksKeepLines DEF BudgetInv
<1>2. OneEntryEach'
  BY DEF BudgetInv, OneEntryEach, Decides
<1>3. ASSUME NEW e \in Ids, e \notin contested' PROVE DecidedByOne(e)' /\ Consumes(e)'
  <2>1. DecidedByOne(e) /\ Consumes(e) /\ RowsWritten /\ LinesKept(e) /\ budget'[e] = budget[e]
    BY <1>1, <1>3 DEF BudgetInv
  <2> QED  BY <2>1, EntryStands
<1> QED  BY <1>1, <1>2, <1>3 DEF BudgetInv

(* What is known of an entry an officer decides on. *)
LEMMA DecidedEntry ==
  ASSUME BudgetInv, NEW t \in Threads, Decides(t)
  PROVE  \E id \in Ids :
           /\ req[t].ids = {id} /\ TheId(t) = id
           /\ id \notin contested =>
                /\ Awaits(id) /\ LinesAre(req[t].lines, id)
                /\ \A u \in Threads : u # t /\ Decides(u) => id \notin req[u].ids
                /\ BudgetSum(VerifiedLines(id)) = 0
                /\ budget[id] = IF Stores(t) THEN BudgetSum(req[t].lines) ELSE 0
<1>1. PICK id \in Ids : req[t].ids = {id}
  BY DEF BudgetInv, OneEntryEach
<1>2. TheId(t) = id
  BY <1>1 DEF TheId
<1>3. ASSUME id \notin contested
      PROVE  /\ Awaits(id) /\ LinesAre(req[t].lines, id)
             /\ \A u \in Threads : u # t /\ Decides(u) => id \notin req[u].ids
             /\ BudgetSum(VerifiedLines(id)) = 0
             /\ budget[id] = IF Stores(t) THEN BudgetSum(req[t].lines) ELSE 0
  <2>1. DecidedByOne(id) /\ Consumes(id)
    BY <1>3 DEF BudgetInv
  <2>2. /\ Awaits(id) /\ LinesAre(req[t].lines, id)
        /\ \A u \in Threads : u # t /\ Decides(u) => id \notin req[u].ids
    BY <1>1, <2>1 DEF DecidedByOne
  <2>3. BudgetSum(VerifiedLines(id)) = 0
    BY <2>2, NoneVerified DEF Awaits
  <2>4. Stores(t) => budget[id] = BudgetSum(req[t].lines)
    BY <1>1, <2>1 DEF Consumes
  <2>5. ~Stores(t) => budget[id] = 0
    BY <2>1, <2>2, <2>3 DEF Consumes, Stores, Decides
  <2> QED  BY <2>2, <2>3, <2>4, <2>5
<1> QED  BY <1>1, <1>2, <1>3

(* Nothing is verified of what waits after the step, was created as verified, or is rejected. *)
LEMMA NoneVerifiedNext ==
  ASSUME NEW id, \A k \in DOMAIN rows' : k[2] = id => rows'[k].status # "verified" \/ rows'[k].by = "direct"
  PROVE  BudgetSum(VerifiedLines(id))' = 0
<1>1. PICK f : f = VerifiedLines(id)'
  OBVIOUS
<1>2. DOMAIN f = {}
  BY <1>1 DEF VerifiedLines, RowsOf
<1>3. BudgetSum(f) = 0
  BY <1>2, NoLines DEF BudgetLines
<1>4. BudgetSum(VerifiedLines(id))' = BudgetSum(f)
  BY <1>1 DEF BudgetSum, BudgetLines
<1> QED  BY <1>3, <1>4

(* The lines of an entry add up to a number. *)
LEMMA SumIsNumber ==
  ASSUME RowsWritten, NEW id, NEW lines, LinesAre(lines, id)
  PROVE  BudgetSum(lines) \in Int
<1>1. PICK S : S = BudgetLines(lines)
  OBVIOUS
<1>2. IsFiniteSet(RowsOf(id))
  <2>1. RowsOf(id) \subseteq DOMAIN rows /\ IsFiniteSet(DOMAIN rows)
    BY DEF RowsOf, RowsWritten
  <2> QED  BY <2>1, FS_Subset
<1>3. IsFiniteSet(DOMAIN lines)
  <2>1. DOMAIN lines = {k[1] : k \in RowsOf(id)}
    BY DEF LinesAre
  <2>2. PICK q : q = [k \in RowsOf(id) |-> k[1]]
    OBVIOUS
  <2>3. q \in Surjection(RowsOf(id), DOMAIN lines)
    BY <2>1, <2>2 DEF Surjection
  <2> QED  BY <1>2, <2>3, FS_Surjection
<1>4. IsFiniteSet(S)
  <2>1. S \subseteq DOMAIN lines
    BY <1>1 DEF BudgetLines
  <2> QED  BY <1>3, <2>1, FS_Subset
<1>5. \A h \in DOMAIN lines : lines[h].amount \in Int
  BY DEF LinesAre, RowsOf, RowsWritten
<1>6. PICK f : f = [h \in S |-> Consumed(lines[h])]
  OBVIOUS
<1>7. \A h \in S : f[h] \in Int
  BY <1>1, <1>5, <1>6 DEF Consumed, BudgetLines
<1>8. SumOf(f, S) \in Int
  BY <1>4, <1>7, SumInt DEF Summable
<1> QED  BY <1>1, <1>6, <1>8 DEF BudgetSum

(* Nor does the step of a request that decides neither before nor after. *)
LEMMA RequestRests ==
  ASSUME BudgetInv, MarksOnly, UNCHANGED <<budget, contested>>,
         NEW t, OthersRest(t), ~Decides(t), ~Decides(t)'
  PROVE  BudgetInv'
<1>1. \A u \in Threads : Decides(u) \/ Decides(u)' => u # t
  BY DEF Decides
<1>2. \A u \in Threads : Decides(u) \/ Decides(u)' => req'[u] = req[u]
  BY <1>1 DEF OthersRest
<1> QED  BY <1>2, BudgetRests

(* A request that ends, or goes on to its next step. *)
LEMMA RequestEnds ==
  ASSUME TeInv, BudgetInv, UNCHANGED <<rows, budget, contested>>, NEW t \in Threads, ~Decides(t), Done(t)
  PROVE  BudgetInv'
<1>1. OthersRest(t) /\ req'[t] = Idle
  BY IdleIsOK DEF TeInv
<1>2. ~Decides(t)' /\ MarksOnly
  BY <1>1 DEF Decides, Idle, MarksOnly
<1> QED  BY <1>1, <1>2, RequestRests

LEMMA RequestGoesOn ==
  ASSUME TeInv, BudgetInv, MarksOnly, UNCHANGED <<budget, contested>>, NEW t \in Threads, ~Decides(t),
         "pc" \in DOMAIN req[t], NEW pc, Goto(t, pc)
  PROVE  BudgetInv'
<1>1. OthersRest(t) /\ req'[t].op = req[t].op
  <2>1. "op" \in DOMAIN req[t] /\ ReqTrue
    BY DEF TeInv, ReqTrue, ReqOK
  <2> QED  BY <2>1, GotoDoes
<1>2. ~Decides(t)'
  BY <1>1 DEF Decides
<1> QED  BY <1>1, <1>2, RequestRests

(* A request that begins to post. *)
LEMMA BeginsToPost ==
  ASSUME TeInv, BudgetInv, NEW t \in Threads,
         (\E ids : TakeVerified(t, ids)) \/ (\E u \in DOMAIN sub : StartNegative(t, u))
  PROVE  BudgetInv'
<1>1. UNCHANGED <<rows, budget, contested>> /\ req[t] = Idle
  BY DEF TakeVerified, StartNegative, Free, tables, outside
<1>2. \E r : req' = [req EXCEPT ![t] = r] /\ r.op \in {"submit", "negative"}
  <2>1. ASSUME NEW ids, TakeVerified(t, ids)
        PROVE  \E r : req' = [req EXCEPT ![t] = r] /\ r.op \in {"submit", "negative"}
    <3>1. PICK r : r = [op |-> "submit", pc |-> "call", ids |-> ids, uid |-> 0]
      OBVIOUS
    <3>2. r.op = "submit" /\ req' = [req EXCEPT ![t] = r]
      BY <2>1, <3>1 DEF TakeVerified
    <3> QED  BY <3>2
  <2>2. ASSUME NEW u \in DOMAIN sub, StartNegative(t, u)
        PROVE  \E r : req' = [req EXCEPT ![t] = r] /\ r.op \in {"submit", "negative"}
    <3>1. PICK r : r = [op |-> "negative", pc |-> "call", ids |-> sub[u].ids, of |-> u,
                        uid |-> 0, status |-> "Failed"]
      OBVIOUS
    <3>2. r.op = "negative" /\ req' = [req EXCEPT ![t] = r]
      BY <2>2, <3>1 DEF StartNegative
    <3> QED  BY <3>2
  <2> QED  BY <2>1, <2>2
<1>3. OthersRest(t) /\ req'[t].op \in {"submit", "negative"}
  BY <1>2 DEF TeInv, ReqTrue, OthersRest
<1>4. MarksOnly /\ ~Decides(t) /\ ~Decides(t)'
  BY <1>1, <1>3 DEF MarksOnly, Decides, Idle
<1> QED  BY <1>1, <1>3, <1>4, RequestRests

(* A request that posts to PFMS. *)
LEMMA PostsRest ==
  ASSUME TeInv, BudgetInv, NEW t \in Threads, CreatePfmsTe(t) \/ CreateNegativePfmsTe(t)
  PROVE  BudgetInv'
<1>1. UNCHANGED <<rows, budget, contested>> /\ req[t].op \in {"submit", "negative"}
  BY DEF CreatePfmsTe, CreateNegativePfmsTe, At, tables
<1>2. ~Decides(t) /\ MarksOnly /\ ReqOK(t) /\ DOMAIN req = Threads
  BY <1>1 DEF Decides, MarksOnly, TeInv, ReqTrue
<1>3. {"op", "pc"} \subseteq DOMAIN req[t]
  BY <1>1, <1>2 DEF ReqOK, IsOp, Submitting, Negating
<1>4. PICK n : n = Uid
  OBVIOUS
<1>5. \/ Done(t) \/ Goto(t, "insert")
      \/ req' = [req EXCEPT ![t].pc = "mark", ![t].uid = n]
      \/ req' = [req EXCEPT ![t].pc = "insert", ![t].uid = n, ![t].status = "Success"]
  BY <1>4 DEF CreatePfmsTe, CreateNegativePfmsTe
<1>6. CASE Done(t)
  BY <1>1, <1>2, <1>6, RequestEnds
<1>7. CASE Goto(t, "insert")
  BY <1>1, <1>2, <1>3, <1>7, RequestGoesOn
<1>8. CASE \/ req' = [req EXCEPT ![t].pc = "mark", ![t].uid = n]
           \/ req' = [req EXCEPT ![t].pc = "insert", ![t].uid = n, ![t].status = "Success"]
  <2>1. OthersRest(t) /\ req'[t].op = req[t].op
    BY <1>2, <1>3, <1>8 DEF OthersRest
  <2>2. ~Decides(t)'
    BY <1>1, <2>1 DEF Decides
  <2> QED  BY <1>1, <1>2, <2>1, <2>2, RequestRests
<1> QED  BY <1>5, <1>6, <1>7, <1>8

(* A request that writes down what it posted. *)
LEMMA WritesRest ==
  ASSUME TeInv, BudgetInv, NEW t \in Threads,
         GetTePfmsUpdateStatus(t) \/ InsertTePfmsSubmission(t) \/ RecordReversal(t) \/ FinishReversal(t)
  PROVE  BudgetInv'
<1>1. UNCHANGED <<budget, contested>> /\ req[t].op \in {"submit", "negative"}
  BY DEF GetTePfmsUpdateStatus, InsertTePfmsSubmission, RecordReversal, FinishReversal, At, outside, ghosts
<1>2. ~Decides(t) /\ ReqOK(t)
  BY <1>1 DEF Decides, TeInv, ReqTrue
<1>3. "pc" \in DOMAIN req[t]
  BY <1>1, <1>2 DEF ReqOK, IsOp, Submitting, Negating
<1>4. CASE GetTePfmsUpdateStatus(t)
  <2>1. PICK n, ids : n = req[t].uid /\ ids = req[t].ids
    OBVIOUS
  <2>2. rows' = [k \in DOMAIN rows |-> IF k[2] \in ids THEN Submitted(rows[k], n) ELSE rows[k]]
    BY <1>4, <2>1 DEF GetTePfmsUpdateStatus
  <2>3. MarksOnly
    BY <2>2 DEF MarksOnly, Submitted, TeInv, RowsTrue, RowFields
  <2>4. Goto(t, "record")
    BY <1>4 DEF GetTePfmsUpdateStatus
  <2> QED  BY <1>1, <1>2, <1>3, <2>3, <2>4, RequestGoesOn
<1>5. CASE RecordReversal(t)
  <2>1. MarksOnly /\ Goto(t, "audit")
    BY <1>5 DEF RecordReversal, MarksOnly
  <2> QED  BY <1>1, <1>2, <1>3, <2>1, RequestGoesOn
<1>6. CASE InsertTePfmsSubmission(t) \/ FinishReversal(t)
  <2>1. UNCHANGED rows /\ Done(t)
    BY <1>6 DEF InsertTePfmsSubmission, FinishReversal
  <2> QED  BY <1>1, <1>2, <2>1, RequestEnds
<1> QED  BY <1>4, <1>5, <1>6

(* The clock, PFMS, and what the two routes of its answers write. *)
LEMMA AnswersRest ==
  ASSUME TeInv, BudgetInv,
         \/ Tick \/ UNCHANGED vars
         \/ \E u : UpdatePfmsSubmissionStatus(u) \/ ResetPFMSFlag(u) \/ \E s : PfmsDecides(u, s)
  PROVE  BudgetInv'
<1>1. UNCHANGED <<budget, contested, req>>
  BY DEF Tick, vars, UpdatePfmsSubmissionStatus, ResetPFMSFlag, PfmsDecides, outside, ghosts
<1>2. CASE Tick \/ UNCHANGED vars \/ \E u, s : PfmsDecides(u, s)
  <2>1. MarksOnly
    BY <1>2 DEF MarksOnly, Tick, vars, PfmsDecides, tables
  <2> QED  BY <1>1, <2>1, BudgetRests
<1>3. ASSUME NEW u, UpdatePfmsSubmissionStatus(u)
      PROVE  BudgetInv'
  <2>1. PICK f : f = FlagOf(u)
    OBVIOUS
  <2>2. rows' = [k \in DOMAIN rows |-> IF rows[k].uid = u THEN [rows[k] EXCEPT !.flag = f] ELSE rows[k]]
    BY <1>3, <2>1 DEF UpdatePfmsSubmissionStatus
  <2>3. MarksOnly
    BY <2>2 DEF MarksOnly, TeInv, RowsTrue, RowFields
  <2> QED  BY <1>1, <2>3, BudgetRests
<1>4. ASSUME NEW u, ResetPFMSFlag(u)
      PROVE  BudgetInv'
  <2>1. PICK mine : mine = {k \in DOMAIN rows : rows[k].uid = u}
    OBVIOUS
  <2>2. rows' = [k \in DOMAIN rows |->
                   IF k \in mine THEN [rows[k] EXCEPT !.uid = 0, !.gen = FALSE, !.flag = "false"] ELSE rows[k]]
    BY <1>4, <2>1 DEF ResetPFMSFlag, ResetPFMSFlagByPfmsUniqueId
  <2>3. MarksOnly
    BY <2>2 DEF MarksOnly, TeInv, RowsTrue, RowFields
  <2> QED  BY <1>1, <2>3, BudgetRests
<1> QED  BY <1>2, <1>3, <1>4

(* What is created is nobody's yet: nothing is verified of it by an officer. *)
LEMMA CreateKeepsBudget ==
  ASSUME BudgetInv, Create
  PROVE  BudgetInv'
<1>1. PICK b \in Batches : \E status, by : Created(b) /\ Copy(b, status, by)
                                         /\ (status = "created" => by = "officer")
                                         /\ (status = "created" \/ by = "direct")
  <2>1. \E b \in Batches : \/ Created(b) /\ Copy(b, "created", "officer")
                           \/ Created(b) /\ Copy(b, "verified", "direct")
    BY DEF Create, CreateTransferEntry, CreateTransferEntryGrpc, CreateTransferEntryDirect,
           CreateTransferEntryDirectGrpc, CreateTransferEntryDirectBRS, TransferentryCreation,
           TransferentryDirectCreation
  <2> QED  BY <2>1
<1>2. PICK status, by : Created(b) /\ Copy(b, status, by)
                        /\ (status = "created" => by = "officer")
                        /\ (status = "created" \/ by = "direct")
  BY <1>1
<1>3. PICK id : id = second
  OBVIOUS
<1>4. /\ UNCHANGED <<budget, req>> /\ contested \subseteq contested'
      /\ id \notin contested' => RowsOf(id) = {}
  BY <1>2, <1>3 DEF Created, outside
<1>5. PICK new : new = {<<h, id>> : h \in DOMAIN b}
  OBVIOUS
<1>6. rows' = [k \in DOMAIN rows \cup new |-> IF k \in new THEN NewRow(b[k[1]], status, by) ELSE rows[k]]
  BY <1>2, <1>3, <1>5 DEF Copy
<1>6a. new \cap DOMAIN rows = {}
  BY <1>2, <1>3, <1>5 DEF Copy
<1>7. \A k \in new : k = <<k[1], k[2]>> /\ k[1] \in DOMAIN b /\ k[2] = id
  BY <1>5
<1>8. \A k \in new : rows'[k].amount = b[k[1]].amount /\ rows'[k].status = status /\ rows'[k].by = by
  BY <1>6 DEF NewRow
<1>9. RowsWritten'
  <2>1. IsFiniteSet(new)
    <3>1. IsFiniteSet(DOMAIN b)
      BY TransferEntryAssumption
    <3>2. PICK q : q = [h \in DOMAIN b |-> <<h, id>>]
      OBVIOUS
    <3>3. q \in Surjection(DOMAIN b, new)
      BY <1>5, <3>2 DEF Surjection
    <3> QED  BY <3>1, <3>3, FS_Surjection
  <2>2. IsFiniteSet(DOMAIN rows')
    <3>1. IsFiniteSet(DOMAIN rows)
      BY DEF BudgetInv, RowsWritten
    <3>2. DOMAIN rows' = DOMAIN rows \cup new
      BY <1>6
    <3> QED  BY <2>1, <3>1, <3>2, FS_Union
  <2>3. \A k \in new : rows'[k].amount \in Int
    BY <1>7, <1>8, TransferEntryAssumption
  <2>4. \A k \in DOMAIN rows' : k \in new \/ (k \in DOMAIN rows /\ rows'[k] = rows[k])
    BY <1>6
  <2>5. ASSUME NEW k \in DOMAIN rows'
        PROVE  /\ k = <<k[1], k[2]>> /\ rows'[k].amount \in Int
               /\ rows'[k].status = "created" => rows'[k].by = "officer"
    <3>1. CASE k \in new
      BY <1>2, <1>7, <1>8, <2>3, <3>1
    <3>2. CASE k \notin new
      BY <2>4, <3>2 DEF BudgetInv, RowsWritten
    <3> QED  BY <3>1, <3>2
  <2> QED  BY <2>2, <2>5 DEF RowsWritten
<1>10. ASSUME NEW e \in Ids, e # id PROVE LinesKept(e)
  <2>1. \A k \in DOMAIN rows : rows'[k] = rows[k] /\ k \in DOMAIN rows'
    BY <1>6, <1>6a
  <2>2. \A k \in DOMAIN rows' : k[2] = e => k \in DOMAIN rows
    BY <1>6, <1>7, <1>10
  <2> QED  BY <2>1, <2>2 DEF LinesKept
<1>11. ASSUME id \in Ids \ contested' PROVE DecidedByOne(id)' /\ Consumes(id)'
  <2>1. RowsOf(id) = {} /\ DecidedByOne(id) /\ Consumes(id)
    BY <1>4, <1>11 DEF BudgetInv
  <2>2. \A t \in Threads : ~(Decides(t) /\ id \in req[t].ids)
    BY <2>1 DEF DecidedByOne, Awaits, HasRows, RowsOf
  <2>3. \A t \in Threads : ~(Decides(t)' /\ id \in req'[t].ids)
    BY <1>4, <2>2 DEF Decides
  <2>4. BudgetSum(VerifiedLines(id)) = 0
    BY <2>1, NoneVerified DEF RowsOf
  <2>5. \A k \in DOMAIN rows' : k[2] = id => k \in new
    BY <1>6, <2>1 DEF RowsOf
  <2>6. \A k \in DOMAIN rows' : k[2] = id => rows'[k].status # "verified" \/ rows'[k].by = "direct"
    BY <1>2, <1>8, <2>5
  <2>7. BudgetSum(VerifiedLines(id))' = 0
    BY <2>6, NoneVerifiedNext
  <2>8. budget'[id] = 0
    BY <1>4, <2>1, <2>2, <2>4 DEF Consumes, Stores, Decides
  <2> QED  BY <2>3, <2>7, <2>8 DEF DecidedByOne, Consumes, Stores, Decides
<1>12. OneEntryEach' /\ DOMAIN budget' = Ids
  BY <1>4 DEF BudgetInv, OneEntryEach, Decides
<1>13. \A e \in Ids : e # id =>
         /\ LinesKept(e) /\ budget'[e] = budget[e]
         /\ \A t \in Threads : (Decides(t) /\ e \in req[t].ids) \/ (Decides(t)' /\ e \in req'[t].ids) => req'[t] = req[t]
  BY <1>4, <1>10
<1> QED  BY <1>4, <1>9, <1>11, <1>12, <1>13, OneEntryMoves

(* An officer takes an entry nobody decides on. *)
LEMMA TakeCreatedKeepsBudget ==
  ASSUME TeInv, BudgetInv, NEW t \in Threads, NEW op \in {"verify", "reject"}, NEW id \in Ids,
         TakeCreated(t, op, id)
  PROVE  BudgetInv'
<1>1. /\ UNCHANGED <<rows, budget>> /\ req[t] = Idle
      /\ contested' = contested \cup HeldByOther(t, {id})
      /\ RowsOf(id) # {} /\ RowsOf(id) \subseteq TransferentryReport("created", FALSE)
  BY DEF TakeCreated, Free, tables, outside
<1>2. PICK lines : lines = [h \in {k[1] : k \in RowsOf(id)} |-> rows[<<h, id>>]]
  OBVIOUS
<1>3. PICK r : r = [op |-> op, pc |-> "ask", ids |-> {id}, lines |-> lines]
  OBVIOUS
<1>4. req' = [req EXCEPT ![t] = r]
  BY <1>2, <1>3 DEF TakeCreated
<1>5. OthersRest(t) /\ req'[t] = r /\ ~Decides(t)
  BY <1>1, <1>4 DEF TeInv, ReqTrue, OthersRest, Decides, Idle
<1>6. r.op = op /\ r.pc = "ask" /\ r.ids = {id} /\ r.lines = lines
  BY <1>3
<1>7. RowsWritten' /\ \A e : LinesKept(e)
  <2>1. MarksOnly
    BY <1>1 DEF MarksOnly
  <2> QED  BY <2>1, MarksKeepLines DEF BudgetInv
<1>8. OneEntryEach'
  BY <1>5, <1>6 DEF BudgetInv, OneEntryEach, Decides, OthersRest
<1>9. ASSUME NEW e \in Ids, e # id, NEW u \in Threads,
             (Decides(u) /\ e \in req[u].ids) \/ (Decides(u)' /\ e \in req'[u].ids)
      PROVE  req'[u] = req[u]
  BY <1>5, <1>6, <1>9 DEF OthersRest
<1>10. ASSUME id \notin contested' PROVE DecidedByOne(id)' /\ Consumes(id)'
  <2>1. /\ \A u \in Threads : u # t => id \notin req[u].ids
        /\ DecidedByOne(id) /\ Consumes(id)
    BY <1>1, <1>10 DEF HeldByOther, BudgetInv
  <2>2. \A u \in Threads : Decides(u)' /\ id \in req'[u].ids => u = t
    BY <1>5, <2>1 DEF OthersRest
  <2>3. Awaits(id)'
    BY <1>1 DEF Awaits, HasRows, RowsOf, TransferentryReport
  <2>4. LinesAre(lines, id)'
    BY <1>1, <1>2 DEF LinesAre, RowsOf
  <2>5. LinesAre(req[t].lines, id)'
    BY <1>5, <1>6, <2>4 DEF LinesAre
  <2>6. BudgetSum(VerifiedLines(id)) = 0 /\ BudgetSum(VerifiedLines(id))' = 0
    <3>1. \A k \in DOMAIN rows : k[2] = id => rows[k].status = "created"
      BY <1>1 DEF RowsOf, TransferentryReport
    <3>2. \A k \in DOMAIN rows' : k[2] = id => rows'[k].status = "created"
      BY <1>1, <3>1
    <3> QED  BY <3>1, <3>2, NoneVerified, NoneVerifiedNext
  <2>7. budget'[id] = 0
    BY <1>1, <1>5, <2>1, <2>6 DEF Consumes, Stores, Decides
  <2>8. \A u \in Threads : ~(Stores(u)' /\ id \in req'[u].ids)
    BY <1>5, <1>6, <2>2 DEF Stores, Decides
  <2>9. DecidedByOne(id)'
    BY <2>2, <2>3, <2>5 DEF DecidedByOne
  <2> QED  BY <2>6, <2>7, <2>8, <2>9 DEF Consumes
<1>11. DOMAIN budget' = Ids /\ contested \subseteq contested' /\ \A e \in Ids : budget'[e] = budget[e]
  BY <1>1 DEF BudgetInv
<1>12. \A e \in Ids : e # id =>
         /\ LinesKept(e) /\ budget'[e] = budget[e]
         /\ \A u \in Threads : (Decides(u) /\ e \in req[u].ids) \/ (Decides(u)' /\ e \in req'[u].ids) => req'[u] = req[u]
  BY <1>7, <1>9, <1>11
<1> QED  BY <1>7, <1>8, <1>10, <1>11, <1>12, OneEntryMoves

(* A decision that ends leaves its entry in order when the budget has what is verified now. *)
LEMMA DecisionEnds ==
  ASSUME TeInv, BudgetInv, NEW t \in Threads, Decides(t), Done(t), NEW id \in Ids, req[t].ids = {id},
         contested \subseteq contested', RowsWritten', DOMAIN budget' = Ids,
         \A e \in Ids : e # id => LinesKept(e) /\ budget'[e] = budget[e],
         id \notin contested' => budget'[id] = BudgetSum(VerifiedLines(id))'
  PROVE  BudgetInv'
<1>1. OthersRest(t) /\ req'[t] = Idle
  BY IdleIsOK DEF TeInv
<1>2. ~Decides(t)'
  BY <1>1 DEF Decides, Idle
<1>3. OneEntryEach'
  BY <1>1, <1>2 DEF BudgetInv, OneEntryEach, Decides, OthersRest
<1>4. ASSUME NEW e \in Ids, e # id, NEW u \in Threads,
             (Decides(u) /\ e \in req[u].ids) \/ (Decides(u)' /\ e \in req'[u].ids)
      PROVE  req'[u] = req[u]
  BY <1>1, <1>2, <1>4 DEF OthersRest
<1>5. ASSUME id \notin contested' PROVE DecidedByOne(id)' /\ Consumes(id)'
  <2>1. DecidedByOne(id)
    BY <1>5 DEF BudgetInv
  <2>2. \A u \in Threads : u # t /\ Decides(u) => id \notin req[u].ids
    BY <2>1 DEF DecidedByOne
  <2>3. \A u \in Threads : ~(Decides(u)' /\ id \in req'[u].ids)
    BY <1>1, <1>2, <2>2 DEF OthersRest, Decides
  <2>4. \A u \in Threads : ~(Stores(u)' /\ id \in req'[u].ids)
    BY <2>3 DEF Stores, Decides
  <2> QED  BY <1>5, <2>3, <2>4 DEF DecidedByOne, Consumes
<1>6. \A e \in Ids : e # id =>
        /\ LinesKept(e) /\ budget'[e] = budget[e]
        /\ \A u \in Threads : (Decides(u) /\ e \in req[u].ids) \/ (Decides(u)' /\ e \in req'[u].ids) => req'[u] = req[u]
  BY <1>4
<1> QED  BY <1>3, <1>5, <1>6, OneEntryMoves

(* The budget service is asked: it consumes the sum of the lines, refuses, or does not answer. *)
LEMMA AskBudgetKeepsBudget ==
  ASSUME TeInv, BudgetInv, NEW t \in Threads, AskBudget(t)
  PROVE  BudgetInv'
<1>1. Decides(t) /\ ~Stores(t) /\ req[t].op = "verify"
  BY DEF AskBudget, At, Decides, Stores
<1>2. PICK id \in Ids :
        /\ req[t].ids = {id} /\ TheId(t) = id
        /\ id \notin contested =>
             /\ Awaits(id) /\ LinesAre(req[t].lines, id)
             /\ \A u \in Threads : u # t /\ Decides(u) => id \notin req[u].ids
             /\ BudgetSum(VerifiedLines(id)) = 0
             /\ budget[id] = IF Stores(t) THEN BudgetSum(req[t].lines) ELSE 0
  BY <1>1, DecidedEntry
<1>3. PICK lines : lines = req[t].lines
  OBVIOUS
<1>4. PICK sum : sum = BudgetSum(lines)
  OBVIOUS
<1>5. /\ UNCHANGED rows /\ contested \subseteq contested'
      /\ \/ /\ BudgetLines(lines) = {} /\ Goto(t, "store") /\ budget' = budget
         \/ Goto(t, "store") /\ budget' = [budget EXCEPT ![id] = @ + sum]
         \/ Done(t) /\ budget' = budget
         \/ Done(t) /\ budget' = [budget EXCEPT ![id] = @ + sum] /\ id \in contested'
  BY <1>2, <1>3, <1>4 DEF AskBudget, tables
<1>6. RowsWritten' /\ \A e : LinesKept(e)
  <2>1. MarksOnly
    BY <1>5 DEF MarksOnly
  <2> QED  BY <2>1, MarksKeepLines DEF BudgetInv
<1>7. DOMAIN budget' = Ids /\ \A e \in Ids : e # id => LinesKept(e) /\ budget'[e] = budget[e]
  BY <1>5, <1>6 DEF BudgetInv
<1>8. CASE Done(t)
  <2>1. ASSUME id \notin contested' PROVE budget'[id] = BudgetSum(VerifiedLines(id))'
    <3>1. id \notin contested /\ budget'[id] = budget[id]
      <4>1. ~Goto(t, "store")
        <5>1. "pc" \in DOMAIN req[t] /\ ReqTrue
          BY <1>1 DEF TeInv, ReqTrue, ReqOK
        <5>2. Goto(t, "store") => req'[t].op = req[t].op
          <6>1. "op" \in DOMAIN req[t]
            BY DEF TeInv, ReqTrue, ReqOK
          <6> QED  BY <5>1, <6>1, GotoDoes
        <5>3. req'[t].op = "idle"
          BY <1>8, <5>1, IdleIsOK DEF Idle
        <5> QED  BY <1>1, <5>2, <5>3
      <4> QED  BY <1>5, <2>1, <4>1
    <3>2. budget[id] = 0
      BY <1>1, <1>2, <3>1
    <3>3. \A k \in DOMAIN rows' : k[2] = id => rows'[k].status = "created"
      BY <1>2, <1>5, <3>1 DEF Awaits
    <3> QED  BY <3>1, <3>2, <3>3, NoneVerifiedNext
  <2> QED  BY <1>1, <1>2, <1>5, <1>6, <1>7, <1>8, <2>1, DecisionEnds
<1>9. CASE /\ Goto(t, "store")
           /\ \/ BudgetLines(lines) = {} /\ budget' = budget
              \/ budget' = [budget EXCEPT ![id] = @ + sum]
  <2>1. /\ OthersRest(t) /\ req'[t].pc = "store" /\ req'[t].op = "verify"
        /\ req'[t].ids = {id} /\ req'[t].lines = lines
    <3>1. {"op", "pc", "ids", "lines"} \subseteq DOMAIN req[t] /\ ReqTrue
      BY <1>1 DEF TeInv, ReqTrue, ReqOK
    <3> QED  BY <1>1, <1>2, <1>3, <1>9, <3>1, GotoDoes
  <2>2. Decides(t)'
    BY <2>1 DEF Decides
  <2>3. OneEntryEach'
    BY <2>1 DEF BudgetInv, OneEntryEach, Decides, OthersRest
  <2>4. ASSUME NEW e \in Ids, e # id, NEW u \in Threads,
               (Decides(u) /\ e \in req[u].ids) \/ (Decides(u)' /\ e \in req'[u].ids)
        PROVE  req'[u] = req[u]
    BY <1>2, <2>1, <2>4 DEF OthersRest
  <2>5. ASSUME id \notin contested' PROVE DecidedByOne(id)' /\ Consumes(id)'
    <3>1. /\ Awaits(id) /\ LinesAre(lines, id) /\ budget[id] = 0
          /\ \A u \in Threads : u # t /\ Decides(u) => id \notin req[u].ids
      BY <1>1, <1>2, <1>3, <1>5, <2>5
    <3>2. \A u \in Threads : Decides(u)' /\ id \in req'[u].ids => u = t
      BY <2>1, <3>1 DEF OthersRest, Decides
    <3>3. Awaits(id)' /\ LinesAre(lines, id)'
      BY <1>5, <3>1 DEF Awaits, HasRows, LinesAre, RowsOf
    <3>4. LinesAre(req[t].lines, id)'
      BY <2>1, <3>3 DEF LinesAre
    <3>5. DecidedByOne(id)'
      BY <3>2, <3>3, <3>4 DEF DecidedByOne
    <3>6. budget'[id] = sum
      <4>1. CASE BudgetLines(lines) = {} /\ budget' = budget
        BY <1>4, <3>1, <4>1, NoLines
      <4>2. CASE budget' = [budget EXCEPT ![id] = @ + sum]
        <5>1. sum \in Int
          BY <1>4, <3>1, SumIsNumber DEF BudgetInv
        <5> QED  BY <3>1, <4>2, <5>1 DEF BudgetInv
      <4> QED  BY <1>9, <4>1, <4>2
    <3>7. BudgetSum(req[t].lines)' = sum
      BY <1>4, <2>1 DEF BudgetSum, BudgetLines
    <3>8. \A u \in Threads : Stores(u)' /\ id \in req'[u].ids => budget'[id] = BudgetSum(req[u].lines)'
      <4> SUFFICES ASSUME NEW u \in Threads, Stores(u)', id \in req'[u].ids
                   PROVE  budget'[id] = BudgetSum(req[u].lines)'
        OBVIOUS
      <4>1. u = t
        BY <3>2 DEF Stores, Decides
      <4> QED  BY <3>6, <3>7, <4>1
    <3>9. Stores(t)' /\ id \in req'[t].ids
      BY <2>1 DEF Stores
    <3> QED  BY <3>5, <3>8, <3>9 DEF Consumes
  <2>6. \A e \in Ids : e # id =>
          /\ LinesKept(e) /\ budget'[e] = budget[e]
          /\ \A u \in Threads : (Decides(u) /\ e \in req[u].ids) \/ (Decides(u)' /\ e \in req'[u].ids) => req'[u] = req[u]
    BY <1>7, <2>4
  <2> QED  BY <1>5, <1>6, <1>7, <2>3, <2>5, <2>6, OneEntryMoves
<1> QED  BY <1>5, <1>8, <1>9

(* A status is set for every row of an entry and no other. *)
LEMMA SetStatusWrites ==
  ASSUME RowsTrue, RowsWritten, NEW id, NEW s \in {"verified", "deleted"}, SetStatus(id, s)
  PROVE  /\ RowsWritten' /\ DOMAIN rows' = DOMAIN rows
         /\ \A e : e # id => LinesKept(e)
         /\ \A k \in DOMAIN rows : /\ rows'[k].type = rows[k].type /\ rows'[k].amount = rows[k].amount
                                   /\ rows'[k].by = rows[k].by
                                   /\ k[2] = id => rows'[k].status = s
<1>1. rows' = [k \in DOMAIN rows |-> IF k[2] = id THEN [rows[k] EXCEPT !.status = s] ELSE rows[k]]
  BY DEF SetStatus
<1>2. ASSUME NEW k \in DOMAIN rows
      PROVE  /\ rows'[k].type = rows[k].type /\ rows'[k].amount = rows[k].amount
             /\ rows'[k].by = rows[k].by
             /\ rows'[k].status = IF k[2] = id THEN s ELSE rows[k].status
  BY <1>1 DEF RowsTrue, RowFields
<1>3. RowsWritten'
  BY <1>1, <1>2 DEF RowsWritten
<1>4. \A e : e # id => LinesKept(e)
  BY <1>1, <1>2 DEF LinesKept
<1> QED  BY <1>1, <1>2, <1>3, <1>4

(* The entry is stored as verified after its sum was consumed, or as deleted. *)
LEMMA DecideKeepsBudget ==
  ASSUME TeInv, BudgetInv, NEW t \in Threads, TransferentryVerify(t) \/ TransferentryReject(t)
  PROVE  BudgetInv'
<1>1. /\ Decides(t) /\ Done(t) /\ UNCHANGED <<budget, contested>>
      /\ \/ Stores(t) /\ SetStatus(TheId(t), "verified")
         \/ ~Stores(t) /\ SetStatus(TheId(t), "deleted")
  BY DEF TransferentryVerify, TransferentryReject, At, Decides, Stores, outside, ghosts
<1>2. PICK id \in Ids :
        /\ req[t].ids = {id} /\ TheId(t) = id
        /\ id \notin contested =>
             /\ Awaits(id) /\ LinesAre(req[t].lines, id)
             /\ \A u \in Threads : u # t /\ Decides(u) => id \notin req[u].ids
             /\ BudgetSum(VerifiedLines(id)) = 0
             /\ budget[id] = IF Stores(t) THEN BudgetSum(req[t].lines) ELSE 0
  BY <1>1, DecidedEntry
<1>3. PICK s \in {"verified", "deleted"} :
        SetStatus(id, s) /\ (s = "verified" => Stores(t)) /\ (s = "deleted" => ~Stores(t))
  BY <1>1, <1>2
<1>4. /\ RowsWritten' /\ DOMAIN rows' = DOMAIN rows
      /\ \A e : e # id => LinesKept(e)
      /\ \A k \in DOMAIN rows : /\ rows'[k].type = rows[k].type /\ rows'[k].amount = rows[k].amount
                                /\ rows'[k].by = rows[k].by
                                /\ k[2] = id => rows'[k].status = s
  BY <1>3, SetStatusWrites DEF TeInv, BudgetInv
<1>5. ASSUME id \notin contested' PROVE budget'[id] = BudgetSum(VerifiedLines(id))'
  <2>1. id \notin contested
    BY <1>1, <1>5
  <2>2. CASE ~Stores(t)
    <3>1. budget'[id] = 0
      BY <1>1, <1>2, <2>1, <2>2
    <3>2. \A k \in DOMAIN rows' : k[2] = id => rows'[k].status # "verified"
      BY <1>3, <1>4, <2>2
    <3> QED  BY <3>1, <3>2, NoneVerifiedNext
  <2>3. CASE Stores(t)
    <3>1. PICK lines : lines = req[t].lines
      OBVIOUS
    <3>2. PICK f : f = VerifiedLines(id)'
      OBVIOUS
    <3>3. budget'[id] = BudgetSum(lines) /\ LinesAre(lines, id) /\ Awaits(id)
      BY <1>1, <1>2, <2>1, <2>3, <3>1
    <3>4. \A k \in DOMAIN rows : k[2] = id => rows'[k].status = "verified" /\ rows'[k].by # "direct"
      BY <1>3, <1>4, <2>3, <3>3 DEF Awaits, BudgetInv, RowsWritten
    <3>5. RowsOf(id)' = RowsOf(id)
      BY <1>4 DEF RowsOf
    <3>6. {q \in RowsOf(id)' : rows'[q].status = "verified" /\ rows'[q].by # "direct"} = RowsOf(id)
      BY <3>4, <3>5 DEF RowsOf
    <3>7. DOMAIN f = {k[1] : k \in RowsOf(id)} /\ \A h \in DOMAIN f : f[h] = rows'[<<h, id>>]
      <4>1. f = [h \in {k[1] : k \in {q \in RowsOf(id)' : rows'[q].status = "verified" /\ rows'[q].by # "direct"}}
                   |-> rows'[<<h, id>>]]
        BY <3>2 DEF VerifiedLines
      <4> QED  BY <3>6, <4>1
    <3>8. DOMAIN lines = DOMAIN f
      BY <3>3, <3>7 DEF LinesAre
    <3>9. \A h \in DOMAIN lines : <<h, id>> \in DOMAIN rows
      BY <3>3 DEF LinesAre, RowsOf, BudgetInv, RowsWritten
    <3>10. \A h \in DOMAIN lines : lines[h].type = f[h].type /\ lines[h].amount = f[h].amount
      BY <1>4, <3>3, <3>7, <3>8, <3>9 DEF LinesAre
    <3>11. BudgetSum(lines) = BudgetSum(f)
      BY <3>8, <3>10, SameSum
    <3>12. BudgetSum(VerifiedLines(id))' = BudgetSum(f)
      BY <3>2 DEF BudgetSum, BudgetLines
    <3> QED  BY <3>3, <3>11, <3>12
  <2> QED  BY <2>2, <2>3
<1>6. DOMAIN budget' = Ids /\ contested \subseteq contested'
      /\ \A e \in Ids : e # id => LinesKept(e) /\ budget'[e] = budget[e]
  BY <1>1, <1>4 DEF BudgetInv
<1> QED  BY <1>1, <1>2, <1>4, <1>5, <1>6, DecisionEnds

(* A request that stops half-way consumed for nothing only when its entry becomes contested. *)
LEMMA StopKeepsBudget ==
  ASSUME TeInv, BudgetInv, NEW t \in Threads, Stop(t)
  PROVE  BudgetInv'
<1>1. /\ UNCHANGED <<rows, budget>> /\ Done(t) /\ contested \subseteq contested'
      /\ ~Stores(t) => contested' = contested
      /\ Stores(t) /\ BudgetLines(req[t].lines) # {} => req[t].ids \subseteq contested'
  BY DEF Stop, Stores, At, tables, outside
<1>2. CASE ~Decides(t)
  <2>1. contested' = contested
    BY <1>1, <1>2 DEF Stores, Decides
  <2> QED  BY <1>1, <1>2, <2>1, RequestEnds
<1>3. CASE Decides(t)
  <2>1. PICK id \in Ids :
          /\ req[t].ids = {id} /\ TheId(t) = id
          /\ id \notin contested =>
               /\ Awaits(id) /\ LinesAre(req[t].lines, id)
               /\ \A u \in Threads : u # t /\ Decides(u) => id \notin req[u].ids
               /\ BudgetSum(VerifiedLines(id)) = 0
               /\ budget[id] = IF Stores(t) THEN BudgetSum(req[t].lines) ELSE 0
    BY <1>3, DecidedEntry
  <2>2. RowsWritten' /\ \A e : LinesKept(e)
    <3>1. MarksOnly
      BY <1>1 DEF MarksOnly
    <3> QED  BY <3>1, MarksKeepLines DEF BudgetInv
  <2>3. ASSUME id \notin contested' PROVE budget'[id] = BudgetSum(VerifiedLines(id))'
    <3>1. id \notin contested
      BY <1>1, <2>3
    <3>2. budget[id] = 0
      <4>1. CASE Stores(t)
        <5>1. PICK lines : lines = req[t].lines
          OBVIOUS
        <5>2. BudgetLines(lines) = {} /\ budget[id] = BudgetSum(lines)
          BY <1>1, <2>1, <2>3, <3>1, <4>1, <5>1
        <5> QED  BY <5>2, NoLines
      <4>2. CASE ~Stores(t)
        BY <2>1, <3>1, <4>2
      <4> QED  BY <4>1, <4>2
    <3>3. \A k \in DOMAIN rows' : k[2] = id => rows'[k].status = "created"
      BY <1>1, <2>1, <3>1 DEF Awaits
    <3>4. budget'[id] = budget[id]
      BY <1>1
    <3> QED  BY <3>2, <3>3, <3>4, NoneVerifiedNext
  <2>4. DOMAIN budget' = Ids /\ \A e \in Ids : e # id => LinesKept(e) /\ budget'[e] = budget[e]
    BY <1>1, <2>2 DEF BudgetInv
  <2> QED  BY <1>1, <1>3, <2>1, <2>2, <2>3, <2>4, DecisionEnds
<1> QED  BY <1>2, <1>3

(* Nothing is consumed before anything is created. *)
LEMMA InitBudget ==
  ASSUME Init
  PROVE  BudgetInv
<1>1. /\ rows = << >> /\ DOMAIN rows = {} /\ budget = [id \in Ids |-> 0]
      /\ \A t \in Threads : req[t] = Idle
  BY DEF Init
<1>2. RowsWritten
  BY <1>1, FS_EmptySet DEF RowsWritten
<1>3. \A t \in Threads : ~Decides(t) /\ ~Stores(t)
  BY <1>1 DEF Decides, Stores, Idle
<1>4. ASSUME NEW id \in Ids PROVE DecidedByOne(id) /\ Consumes(id)
  <2>1. BudgetSum(VerifiedLines(id)) = 0
    BY <1>1, NoneVerified
  <2> QED  BY <1>1, <1>3, <2>1 DEF DecidedByOne, Consumes
<1> QED  BY <1>1, <1>2, <1>3, <1>4 DEF BudgetInv, OneEntryEach

(* Every step keeps the budget with what is verified. *)
LEMMA NextKeepsBudget ==
  ASSUME TeInv, BudgetInv, [Next]_vars
  PROVE  BudgetInv'
<1>1. CASE Create
  BY <1>1, CreateKeepsBudget
<1>2. ASSUME NEW t \in Threads, Begin(t)
      PROVE  BudgetInv'
  <2>1. CASE \E id \in Ids : TakeToVerify(t, id) \/ TakeToReject(t, id)
    BY <2>1, TakeCreatedKeepsBudget DEF TakeToVerify, TakeToReject
  <2>2. CASE (\E ids \in SUBSET Ids : TakeVerified(t, ids)) \/ (\E u \in DOMAIN sub : StartNegative(t, u))
    BY <2>2, BeginsToPost
  <2> QED  BY <1>2, <2>1, <2>2 DEF Begin
<1>3. ASSUME NEW t \in Threads, Serve(t)
      PROVE  BudgetInv'
  BY <1>3, AskBudgetKeepsBudget, DecideKeepsBudget, PostsRest, WritesRest, StopKeepsBudget DEF Serve
<1>4. CASE \/ Tick \/ UNCHANGED vars
           \/ \E u \in DOMAIN pfms : (\E s \in {"ok", "bad"} : PfmsDecides(u, s)) \/ ResetPFMSFlag(u)
           \/ \E u \in DOMAIN sub : UpdatePfmsSubmissionStatus(u)
  BY <1>4, AnswersRest
<1> QED  BY <1>1, <1>2, <1>3, <1>4 DEF Next

(* The budget service has consumed, for every entry nobody works on, what its verified rows *)
(* say, once, whatever is refused, lost or stopped, but for entries created as verified and *)
(* contested ones (UpdateTransferEntryVerifyHandler, TransferentryVerifyRepo).              *)
THEOREM BudgetFollows == Spec => []BudgetFollowsVerification
<1>1. Init => BudgetInv
  BY InitBudget
<1>2. TeInv /\ BudgetInv /\ [Next]_vars => BudgetInv'
  BY NextKeepsBudget
<1>3. BudgetInv => BudgetFollowsVerification
  <2> SUFFICES ASSUME BudgetInv, NEW id \in Ids, id \notin contested, ~Working(id)
               PROVE  budget[id] = BudgetSum(VerifiedLines(id))
    BY DEF BudgetFollowsVerification
  <2>1. Consumes(id) /\ \A t \in Threads : id \notin req[t].ids
    BY DEF BudgetInv, Working
  <2> QED  BY <2>1 DEF Consumes
<1> QED  BY <1>1, <1>2, <1>3, TeInvariant, PTL DEF Spec

================================================================================
