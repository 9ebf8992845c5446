------------------------------ MODULE SessionProofs ------------------------------
(***************************************************************************)
(* One session of the daemon: its log and its live stream, for any number  *)
(* of windows, runs, kills and broken links, and the approvals of a run,   *)
(* for every set of calls, every timeout and any number of extensions.     *)
(*                                                                         *)
(* CrashesCostLittle: what a hard kill may cost the journal, for every     *)
(* buffer size and every place a flush is cut off.  Its invariant, LogInv, *)
(* says what is in memory and in neither the file nor the buffer (Lost: at *)
(* most the one event glued to a line a kill cut short) and that nothing   *)
(* a kill must not take is ever left in the buffer.                        *)
(*                                                                         *)
(* JournalMirrors: file and buffer tell what memory tells, in its order.   *)
(* Its invariant, Mirror, orders all three by the time of recording and    *)
(* says of an event that only the file holds that it is older than all of  *)
(* memory while the journal waits to be read back, and that memory knows   *)
(* another one by its id afterwards.                                       *)
(*                                                                         *)
(* EventsInOrderOnce: what a window is sent.  Its invariant, StreamInv,    *)
(* says that up to its cursor a window has every event or can say why not, *)
(* and where the events behind the cursor are: still to be replayed,       *)
(* queued, or recorded while a replay was being sent.                      *)
(*                                                                         *)
(* The last part is about the approvals: what the two threads that share   *)
(* them rely on about each other (Shape), that an accepted answer is       *)
(* behind every call that runs, that a refusal comes after the promised    *)
(* time, and that it has a cause.                                          *)
(***************************************************************************)
EXTENDS EventStream, Approvals, FiniteSetTheorems, SequenceTheorems, WellFoundedInduction, TLAPS

--------------------------------------------------------------------------------
(* Least naturals, and the highest id of a log *)

LEMMA LeastNatural ==
  ASSUME NEW S \in SUBSET Nat, S # {}
  PROVE  \E n \in S : \A m \in S : n <= m
<1>1. PICK n \in S : \A m \in S : ~(<<m, n>> \in OpToRel(<, Nat))
  BY NatLessThanWellFounded, WFMin
<1>2. \A m \in S : ~(m < n)
  BY <1>1 DEF OpToRel
<1> QED BY <1>2

LEMMA Bounded ==
  ASSUME NEW S, NEW s \in Seq(S), NEW f, \A x \in S : f[x] \in Nat
  PROVE  \E b \in Nat : \A i \in DOMAIN s : f[s[i]] <= b
<1>1. PICK Bad : Bad = {n \in 0 .. Len(s) : ~ \E b \in Nat : \A i \in 1 .. n : f[s[i]] <= b}
  OBVIOUS
<1>2. CASE Bad = {}
  <2>1. Len(s) \in 0 .. Len(s) /\ DOMAIN s = 1 .. Len(s)
    BY LenProperties
  <2> QED BY <1>1, <1>2, <2>1
<1>3. CASE Bad # {}
  <2>0. Len(s) \in Nat /\ DOMAIN s = 1 .. Len(s)
    BY LenProperties
  <2>a. Bad \in SUBSET Nat
    BY <1>1, <2>0
  <2>1. PICK n \in Bad : \A m \in Bad : n <= m
    BY <2>a, <1>3, LeastNatural
  <2>b. n \in 0 .. Len(s)
    BY <1>1
  <2>2. n # 0
    <3>1. \A i \in 1 .. 0 : f[s[i]] <= 0
      OBVIOUS
    <3> QED BY <1>1, <3>1
  <2>3. n - 1 \in 0 .. Len(s) /\ n - 1 \notin Bad
    BY <2>b, <2>0, <2>1, <2>2
  <2>4. PICK b \in Nat : \A i \in 1 .. n - 1 : f[s[i]] <= b
    BY <1>1, <2>3
  <2>5. f[s[n]] \in Nat
    BY <2>b, <2>0, <2>2
  <2>6. PICK d \in Nat : d >= b /\ d >= f[s[n]]
    BY <2>5
  <2>7. \A i \in 1 .. n : f[s[i]] <= d
    <3> SUFFICES ASSUME NEW i \in 1 .. n PROVE f[s[i]] <= d
      OBVIOUS
    <3>1. f[s[i]] \in Nat /\ n \in Nat
      <4>1. s[i] \in S
        BY <2>b, <2>0
      <4> QED BY <4>1, <2>b, <2>0
    <3>2. CASE i = n
      BY <2>6, <3>2
    <3>3. CASE i # n
      BY <2>4, <2>5, <2>6, <3>1, <3>3
    <3> QED BY <3>2, <3>3
  <2> QED BY <1>1, <2>7
<1> QED BY <1>2, <1>3

LEMMA HighestIsThere ==
  ASSUME NEW S \in SUBSET Nat, 0 \in S, NEW b \in Nat, \A x \in S : x <= b
  PROVE  Max(S) \in S /\ \A x \in S : x <= Max(S)
<1>1. PICK Up : Up = {n \in Nat : \A x \in S : x <= n}
  OBVIOUS
<1>2. PICK n \in Up : \A m \in Up : n <= m
  BY <1>1, LeastNatural
<1>3. n \in S
  <2> SUFFICES ASSUME n \notin S PROVE FALSE
    OBVIOUS
  <2>1. n # 0 /\ n \in Nat
    BY <1>1
  <2>2. n - 1 \in Up
    BY <1>1, <2>1
  <2> QED BY <1>2, <2>1, <2>2
<1>4. \A x \in S : n >= x
  BY <1>1
<1>5. Max(S) \in S /\ \A x \in S : Max(S) >= x
  BY <1>3, <1>4 DEF Max
<1> QED BY <1>5

LEMMA IdAfterIsAnId ==
  ASSUME NEW s \in Seq(Event)
  PROVE  IdAfter(s) \in Nat \ {0} /\ \A i \in DOMAIN s : s[i].id < IdAfter(s)
<1>1. PICK f : f = [e \in Event |-> e.id]
  OBVIOUS
<1>2. \A e \in Event : f[e] \in Nat /\ f[e] = e.id
  BY <1>1 DEF Event
<1>3. PICK b \in Nat : \A i \in DOMAIN s : f[s[i]] <= b
  BY <1>2, Bounded
<1>4. \A i \in DOMAIN s : s[i] \in Event
  OBVIOUS
<1>5. PICK S : S = Ids(s) \cup {0}
  OBVIOUS
<1>6. S \in SUBSET Nat /\ 0 \in S /\ \A x \in S : x <= b
  BY <1>2, <1>3, <1>4, <1>5 DEF Ids
<1>7. Max(S) \in S /\ \A x \in S : x <= Max(S)
  BY <1>6, HighestIsThere
<1>8. \A i \in DOMAIN s : s[i].id \in S /\ s[i].id \in Nat
  BY <1>2, <1>4, <1>5 DEF Ids
<1>9. IdAfter(s) = Max(S) + 1
  BY <1>5 DEF IdAfter
<1>10. PICK m : m = Max(S)
  OBVIOUS
<1>11. m \in Nat /\ \A x \in S : x <= m
  BY <1>6, <1>7, <1>10
<1>12. IdAfter(s) = m + 1
  BY <1>9, <1>10
<1>13. m + 1 \in Nat \ {0}
  BY <1>11
<1>14. \A i \in DOMAIN s : s[i].id < m + 1
  BY <1>8, <1>11
<1> QED BY <1>12, <1>13, <1>14

--------------------------------------------------------------------------------
(* What hydrate reads back *)

\* g gives every prefix of the file the events of it that memory lacks.
Reads(g, n, s, known) ==
  g = [i \in 0 .. n |->
         IF i = 0 THEN <<>>
         ELSE IF s[i].id \in known THEN g[i - 1] ELSE Append(g[i - 1], s[i])]

LEMMA ReadsExtend ==
  ASSUME NEW n \in Nat, NEW s, NEW known, NEW g, Reads(g, n, s, known)
  PROVE  \E h : Reads(h, n + 1, s, known)
<1>1. PICK h : h = [i \in 0 .. n + 1 |->
                      IF i = 0 THEN <<>>
                      ELSE IF s[i].id \in known THEN g[i - 1] ELSE Append(g[i - 1], s[i])]
  OBVIOUS
<1>0. \A i \in 0 .. n : i \in 0 .. n + 1
  OBVIOUS
<1>2. \A i \in 0 .. n : g[i] = h[i]
  <2> SUFFICES ASSUME NEW i \in 0 .. n PROVE g[i] = h[i]
    OBVIOUS
  <2>1. h[i] = IF i = 0 THEN <<>>
               ELSE IF s[i].id \in known THEN g[i - 1] ELSE Append(g[i - 1], s[i])
    BY <1>0, <1>1
  <2>2. g[i] = IF i = 0 THEN <<>>
               ELSE IF s[i].id \in known THEN g[i - 1] ELSE Append(g[i - 1], s[i])
    BY DEF Reads
  <2> QED BY <2>1, <2>2
<1>3. \A i \in 0 .. n + 1 : i # 0 => i - 1 \in 0 .. n
  OBVIOUS
<1>4. h = [i \in 0 .. n + 1 |->
             IF i = 0 THEN <<>>
             ELSE IF s[i].id \in known THEN h[i - 1] ELSE Append(h[i - 1], s[i])]
  <2>1. PICK k : k = [i \in 0 .. n + 1 |->
             IF i = 0 THEN <<>>
             ELSE IF s[i].id \in known THEN h[i - 1] ELSE Append(h[i - 1], s[i])]
    OBVIOUS
  <2>2. \A i \in 0 .. n + 1 : h[i] = k[i]
    BY <1>1, <1>2, <1>3, <2>1
  <2>3. h = k
    BY <1>1, <2>1, <2>2
  <2> QED BY <2>1, <2>3
<1> QED BY <1>4 DEF Reads

LEMMA ReadsExist ==
  ASSUME NEW n \in Nat, NEW s, NEW known
  PROVE  \E g : Reads(g, n, s, known)
<1>1. PICK Bad : Bad = {m \in Nat : ~ \E g : Reads(g, m, s, known)}
  OBVIOUS
<1>2. Bad = {}
  <2> SUFFICES ASSUME Bad # {} PROVE FALSE
    OBVIOUS
  <2>1. PICK m \in Bad : \A k \in Bad : m <= k
    BY <1>1, LeastNatural
  <2>2. m # 0
    <3>1. PICK g : g = [i \in 0 .. 0 |-> <<>>]
      OBVIOUS
    <3>2. PICK h : h = [i \in 0 .. 0 |->
                 IF i = 0 THEN <<>>
                 ELSE IF s[i].id \in known THEN g[i - 1] ELSE Append(g[i - 1], s[i])]
      OBVIOUS
    <3>3. g = h
      BY <3>1, <3>2
    <3>4. Reads(g, 0, s, known)
      BY <3>2, <3>3 DEF Reads
    <3> QED BY <1>1, <3>4
  <2>3. m \in Nat /\ m - 1 \in Nat /\ m - 1 \notin Bad
    BY <1>1, <2>1, <2>2
  <2>4. PICK g : Reads(g, m - 1, s, known)
    BY <1>1, <2>3
  <2>5. \E h : Reads(h, m - 1 + 1, s, known)
    BY <2>3, <2>4, ReadsExtend
  <2>6. m - 1 + 1 = m
    BY <2>3
  <2> QED BY <1>1, <2>5, <2>6
<1> QED BY <1>1, <1>2

\* Only what the file holds is read back.
LEMMA ReadsFromTheFile ==
  ASSUME NEW s \in Seq(Event), NEW known, NEW g, Reads(g, Len(s), s, known)
  PROVE  \A n \in 0 .. Len(s) :
           g[n] \in Seq(Event) /\ \A i \in DOMAIN g[n] : \E j \in DOMAIN s : g[n][i] = s[j]
<1>0. Len(s) \in Nat /\ DOMAIN s = 1 .. Len(s) /\ \A j \in DOMAIN s : s[j] \in Event
  BY LenProperties
<1>1. \A n \in 0 .. Len(s) :
        g[n] = IF n = 0 THEN <<>>
               ELSE IF s[n].id \in known THEN g[n - 1] ELSE Append(g[n - 1], s[n])
  BY DEF Reads
<1>2. PICK Bad : Bad = {n \in 0 .. Len(s) :
        ~ (g[n] \in Seq(Event) /\ \A i \in DOMAIN g[n] : \E j \in DOMAIN s : g[n][i] = s[j])}
  OBVIOUS
<1>3. Bad = {}
  <2> SUFFICES ASSUME Bad # {} PROVE FALSE
    OBVIOUS
  <2>0. Bad \in SUBSET Nat
    BY <1>0, <1>2
  <2>1. PICK n \in Bad : \A m \in Bad : n <= m
    BY <2>0, LeastNatural
  <2>2. n # 0
    <3>1. g[0] = <<>>
      BY <1>0, <1>1
    <3>2. g[0] \in Seq(Event) /\ DOMAIN g[0] = {}
      BY <3>1, EmptySeq
    <3> QED BY <1>2, <3>2
  <2>3. n \in 1 .. Len(s) /\ n - 1 \in 0 .. Len(s) /\ n - 1 \notin Bad
    BY <1>0, <1>2, <2>1, <2>2
  <2>4. PICK t : t = g[n - 1]
    OBVIOUS
  <2>5. t \in Seq(Event) /\ \A i \in DOMAIN t : \E j \in DOMAIN s : t[i] = s[j]
    BY <1>2, <2>3, <2>4
  <2>6. CASE s[n].id \in known
    <3>1. g[n] = t
      BY <1>0, <1>1, <2>2, <2>3, <2>4, <2>6
    <3> QED BY <1>2, <2>5, <3>1
  <2>7. CASE s[n].id \notin known
    <3>0. n \in DOMAIN s /\ s[n] \in Event
      BY <1>0, <2>3
    <3>1. PICK u : u = Append(t, s[n])
      OBVIOUS
    <3>2. g[n] = u
      <4>1. g[n] = IF n = 0 THEN <<>>
                   ELSE IF s[n].id \in known THEN g[n - 1] ELSE Append(g[n - 1], s[n])
        BY <1>1, <2>3
      <4> QED BY <4>1, <2>2, <2>4, <2>7, <3>1
    <3>3. u \in Seq(Event) /\ Len(u) = Len(t) + 1 /\ u[Len(t) + 1] = s[n]
          /\ \A i \in 1 .. Len(t) : u[i] = t[i]
      BY <2>5, <3>0, <3>1, AppendProperties
    <3>4. DOMAIN u = 1 .. Len(t) + 1 /\ DOMAIN t = 1 .. Len(t) /\ Len(t) \in Nat
      BY <2>5, <3>3, LenProperties
    <3>5. \A i \in DOMAIN u : \E j \in DOMAIN s : u[i] = s[j]
      BY <2>5, <3>0, <3>3, <3>4
    <3> QED BY <1>2, <3>2, <3>3, <3>5
  <2> QED BY <2>6, <2>7
<1> QED BY <1>2, <1>3

LEMMA RestoredIsOnFile ==
  ASSUME file \in Seq(Event)
  PROVE  Restored \in Seq(Event) /\ Range(Restored) \subseteq Range(file)
<1>1. PICK n : n = Len(file)
  OBVIOUS
<1>2. n \in Nat
  BY <1>1, LenProperties
<1>3. PICK known : known = Ids(events)
  OBVIOUS
<1>4. \E h : Reads(h, n, file, known)
  BY <1>2, ReadsExist
<1>5. PICK g : g = CHOOSE h : Reads(h, n, file, known)
  OBVIOUS
<1>6. Reads(g, n, file, known)
  BY <1>4, <1>5
<1>7. Restored = g[n]
  BY <1>1, <1>3, <1>5 DEF Restored, Reads
<1>8. Reads(g, Len(file), file, known)
  BY <1>1, <1>6
<1>9. g[n] \in Seq(Event) /\ \A i \in DOMAIN g[n] : \E j \in DOMAIN file : g[n][i] = file[j]
  <2>1. \A m \in 0 .. Len(file) :
          g[m] \in Seq(Event) /\ \A i \in DOMAIN g[m] : \E j \in DOMAIN file : g[m][i] = file[j]
    BY <1>8, ReadsFromTheFile
  <2>2. n \in 0 .. Len(file)
    BY <1>1, <1>2
  <2> QED BY <2>1, <2>2
<1> QED BY <1>7, <1>9 DEF Range

--------------------------------------------------------------------------------
(* Sequences and the set of what they hold *)

LEMMA HeldByConcat ==
  ASSUME NEW S, NEW s \in Seq(S), NEW t \in Seq(S)
  PROVE  s \o t \in Seq(S) /\ Range(s \o t) = Range(s) \cup Range(t)
<1>0. /\ Len(s) \in Nat /\ DOMAIN s = 1 .. Len(s)
      /\ Len(t) \in Nat /\ DOMAIN t = 1 .. Len(t)
  BY LenProperties
<1>1. PICK u : u = s \o t
  OBVIOUS
<1>2. u \in Seq(S) /\ Len(u) = Len(s) + Len(t)
      /\ \A i \in 1 .. Len(s) + Len(t) : u[i] = IF i <= Len(s) THEN s[i] ELSE t[i - Len(s)]
  BY <1>1, ConcatProperties
<1>3. DOMAIN u = 1 .. Len(s) + Len(t)
  BY <1>2, LenProperties
<1>4. \A x \in Range(u) : x \in Range(s) \cup Range(t)
  <2> SUFFICES ASSUME NEW i \in 1 .. Len(s) + Len(t) PROVE u[i] \in Range(s) \cup Range(t)
    BY <1>3 DEF Range
  <2>1. CASE i <= Len(s)
    BY <1>0, <1>2, <2>1 DEF Range
  <2>2. CASE ~(i <= Len(s))
    <3>1. i - Len(s) \in DOMAIN t
      BY <1>0, <2>2
    <3> QED BY <1>2, <2>2, <3>1 DEF Range
  <2> QED BY <2>1, <2>2
<1>5. \A x \in Range(s) : x \in Range(u)
  BY <1>0, <1>2, <1>3 DEF Range
<1>6. \A x \in Range(t) : x \in Range(u)
  <2> SUFFICES ASSUME NEW i \in DOMAIN t PROVE t[i] \in Range(u)
    BY DEF Range
  <2>1. Len(s) + i \in DOMAIN u /\ u[Len(s) + i] = t[i]
    BY <1>0, <1>2, <1>3
  <2> QED BY <2>1 DEF Range
<1> QED BY <1>1, <1>2, <1>4, <1>5, <1>6

LEMMA HeldByAppend ==
  ASSUME NEW S, NEW s \in Seq(S), NEW e \in S
  PROVE  /\ Append(s, e) \in Seq(S) /\ Len(Append(s, e)) = Len(s) + 1
         /\ Append(s, e) # <<>> /\ Range(Append(s, e)) = Range(s) \cup {e}
<1>0. Len(s) \in Nat /\ DOMAIN s = 1 .. Len(s)
  BY LenProperties
<1>1. PICK u : u = Append(s, e)
  OBVIOUS
<1>2. u \in Seq(S) /\ Len(u) = Len(s) + 1 /\ u # <<>> /\ u[Len(s) + 1] = e
      /\ \A i \in 1 .. Len(s) : u[i] = s[i]
  BY <1>1, AppendProperties
<1>3. DOMAIN u = 1 .. Len(s) + 1
  BY <1>2, LenProperties
<1>4. Range(u) = Range(s) \cup {e}
  BY <1>0, <1>2, <1>3 DEF Range
<1> QED BY <1>1, <1>2, <1>4

LEMMA HeldByPart ==
  ASSUME NEW S, NEW s \in Seq(S), NEW m \in Nat \ {0}, NEW n \in 0 .. Len(s)
  PROVE  /\ SubSeq(s, m, n) \in Seq(S)
         /\ Range(SubSeq(s, m, n)) = {s[i] : i \in m .. n}
<1>0. Len(s) \in Nat /\ DOMAIN s = 1 .. Len(s)
  BY LenProperties
<1>1. \A i \in m .. n : s[i] \in S
  BY <1>0
<1>2. PICK u : u = SubSeq(s, m, n)
  OBVIOUS
<1>3. n \in Int /\ m \in Int
  BY <1>0
<1>4. u \in Seq(S) /\ Len(u) = (IF m <= n THEN n - m + 1 ELSE 0)
      /\ \A i \in 1 .. n - m + 1 : u[i] = s[m + i - 1]
  BY <1>1, <1>2, <1>3, SubSeqProperties
<1>5. DOMAIN u = 1 .. n - m + 1
  <2>1. DOMAIN u = 1 .. Len(u)
    BY <1>4, LenProperties
  <2> QED BY <1>3, <1>4, <2>1
<1>6. \A x \in Range(u) : x \in {s[i] : i \in m .. n}
  <2> SUFFICES ASSUME NEW i \in 1 .. n - m + 1 PROVE u[i] \in {s[j] : j \in m .. n}
    BY <1>5 DEF Range
  <2>1. m + i - 1 \in m .. n
    BY <1>3
  <2> QED BY <1>4, <2>1
<1>7. \A i \in m .. n : s[i] \in Range(u)
  <2> SUFFICES ASSUME NEW i \in m .. n PROVE s[i] \in Range(u)
    OBVIOUS
  <2>1. i - m + 1 \in 1 .. n - m + 1 /\ m + (i - m + 1) - 1 = i
    BY <1>3
  <2>2. u[i - m + 1] = s[i]
    BY <1>4, <2>1
  <2> QED BY <1>5, <2>1, <2>2 DEF Range
<1> QED BY <1>2, <1>4, <1>6, <1>7

LEMMA HeldIsFinite ==
  ASSUME NEW S, NEW s \in Seq(S)
  PROVE  IsFiniteSet(Range(s)) /\ Cardinality(Range(s)) <= Len(s)
<1>0. Len(s) \in Nat /\ DOMAIN s = 1 .. Len(s) /\ s \in [1 .. Len(s) -> S]
  BY LenProperties
<1>1. PICK n : n = Len(s)
  OBVIOUS
<1>2. PICK R : R = Range(s)
  OBVIOUS
<1>3. s \in Surjection(1 .. n, R)
  BY <1>0, <1>1, <1>2 DEF Range, Surjection
<1>4. n \in Nat /\ IsFiniteSet(1 .. n) /\ Cardinality(1 .. n) = n
  <2>1. n \in Nat
    BY <1>0, <1>1
  <2> QED BY <2>1, FS_Interval
<1>5. IsFiniteSet(R) /\ Cardinality(R) <= Cardinality(1 .. n)
  BY <1>3, <1>4, FS_Surjection
<1> QED BY <1>1, <1>2, <1>4, <1>5

--------------------------------------------------------------------------------
(* What a flush leaves in the file *)

LEMMA AppendedHolds ==
  ASSUME file \in Seq(Event), NEW lines \in Seq(Event), NEW k \in 0 .. Len(lines)
  PROVE  /\ Appended(lines, k) \in Seq(Event)
         /\ Range(file) \subseteq Range(Appended(lines, k))
         /\ Range(Appended(lines, k)) \subseteq Range(file) \cup Range(lines)
         /\ \A i \in 1 .. k : (i # 1 \/ ~torn) => lines[i] \in Range(Appended(lines, k))
<1>0. Len(lines) \in Nat /\ DOMAIN lines = 1 .. Len(lines)
  BY LenProperties
<1>1. CASE torn /\ k > 0
  <2>1. PICK t : t = SubSeq(lines, 2, k)
    OBVIOUS
  <2>2. t \in Seq(Event) /\ Range(t) = {lines[i] : i \in 2 .. k}
    <3>1. 2 \in Nat \ {0}
      OBVIOUS
    <3>2. /\ SubSeq(lines, 2, k) \in Seq(Event)
          /\ Range(SubSeq(lines, 2, k)) = {lines[i] : i \in 2 .. k}
      BY <3>1, HeldByPart
    <3> QED BY <2>1, <3>2
  <2>3. Appended(lines, k) = file \o t
    BY <1>1, <2>1 DEF Appended
  <2>4. file \o t \in Seq(Event) /\ Range(file \o t) = Range(file) \cup Range(t)
    BY <2>2, HeldByConcat
  <2>5. Range(t) \subseteq Range(lines)
    <3>1. \A x \in Range(t) : \E i \in DOMAIN lines : x = lines[i]
      BY <1>0, <2>2
    <3> QED BY <3>1 DEF Range
  <2>6. \A i \in 1 .. k : (i # 1 \/ ~torn) => lines[i] \in Range(t)
    BY <1>0, <1>1, <2>2
  <2> QED BY <2>3, <2>4, <2>5, <2>6
<1>2. CASE ~(torn /\ k > 0)
  <2>1. PICK t : t = SubSeq(lines, 1, k)
    OBVIOUS
  <2>2. t \in Seq(Event) /\ Range(t) = {lines[i] : i \in 1 .. k}
    <3>1. 1 \in Nat \ {0}
      OBVIOUS
    <3>2. /\ SubSeq(lines, 1, k) \in Seq(Event)
          /\ Range(SubSeq(lines, 1, k)) = {lines[i] : i \in 1 .. k}
      BY <3>1, HeldByPart
    <3> QED BY <2>1, <3>2
  <2>3. Appended(lines, k) = file \o t
    BY <1>2, <2>1 DEF Appended
  <2>4. file \o t \in Seq(Event) /\ Range(file \o t) = Range(file) \cup Range(t)
    BY <2>2, HeldByConcat
  <2>5. Range(t) \subseteq Range(lines)
    <3>1. \A x \in Range(t) : \E i \in DOMAIN lines : x = lines[i]
      BY <1>0, <2>2
    <3> QED BY <3>1 DEF Range
  <2>6. \A i \in 1 .. k : (i # 1 \/ ~torn) => lines[i] \in Range(t)
    BY <2>2
  <2> QED BY <2>3, <2>4, <2>5, <2>6
<1> QED BY <1>1, <1>2

LEMMA FlushDoes ==
  ASSUME file \in Seq(Event), torn \in BOOLEAN, NEW lines \in Seq(Event), Flush(lines)
  PROVE  /\ file' \in Seq(Event) /\ torn' \in BOOLEAN /\ buffer' = <<>>
         /\ Range(file) \subseteq Range(file')
         /\ Range(file') \subseteq Range(file) \cup Range(lines)
         /\ Range(lines) \subseteq Range(file') \cup {lines[1]}
         /\ ~torn => Range(lines) \subseteq Range(file')
         /\ torn' => torn /\ lines = <<>>
<1>0. Len(lines) \in Nat /\ DOMAIN lines = 1 .. Len(lines)
  BY LenProperties
<1>1. PICK k : k = Len(lines)
  OBVIOUS
<1>2. k \in 0 .. Len(lines)
  BY <1>0, <1>1
<1>3. PICK f : f = Appended(lines, k)
  OBVIOUS
<1>4. /\ f \in Seq(Event)
      /\ Range(file) \subseteq Range(f)
      /\ Range(f) \subseteq Range(file) \cup Range(lines)
      /\ \A i \in 1 .. k : (i # 1 \/ ~torn) => lines[i] \in Range(f)
  BY <1>2, <1>3, AppendedHolds
<1>5. file' = f /\ buffer' = <<>> /\ torn' = (torn /\ lines = <<>>)
  BY <1>1, <1>3 DEF Flush
<1>6. Range(file') = Range(f)
  BY <1>5
<1>7. Range(lines) \subseteq Range(f) \cup {lines[1]} /\ (~torn => Range(lines) \subseteq Range(f))
  BY <1>0, <1>1, <1>4 DEF Range
<1> QED BY <1>4, <1>5, <1>6, <1>7

--------------------------------------------------------------------------------
(* The invariant *)

Muts == SUBSET Paths
Steps == {"idle", "work", "finish", "metrics", "end", "settle"}

Types ==
  /\ torn \in BOOLEAN
  /\ events \in Seq(Event) /\ buffer \in Seq(Event) /\ file \in Seq(Event)
  /\ nextId \in Nat \ {0} /\ serial \in Nat /\ crashes \in Nat
  /\ mutations \in Muts
  /\ meta \in [status : Statuses \cup {"none"}, mutations : Muts]

\* Events in memory that neither the file nor the buffer holds any more: the
\* one glued to a line a kill cut short.
Lost == Range(events) \ (Range(file) \cup Range(buffer))

Journal ==
  /\ Types
  /\ Len(buffer) < FlushAt
  /\ \A i \in DOMAIN buffer : ~Costly(buffer[i])
  /\ \E g : Lost \subseteq {g}
  /\ Lost # {} => ~torn /\ TornWrites /\ crashes >= 1
  /\ torn => TornWrites /\ crashes >= 1
  /\ meta # NoMeta => meta.status \in Statuses
  /\ IsFiniteSet(Unlisted) /\ Cardinality(Unlisted) <= crashes

\* A session without a status has no summary: it was never started.
Life ==
  /\ alive \in BOOLEAN
  /\ status \in Statuses \cup {"none"}
  /\ step \in Steps
  /\ outcome \in {"done", "error"}
  /\ step # "idle" => alive /\ status = "running"
  /\ alive /\ status = "none" => meta = NoMeta
  /\ mutations = IF alive THEN meta.mutations ELSE {}

LogInv == Journal /\ Life

LEMMA EventFields ==
  ASSUME NEW e \in Event
  PROVE  e.type \in StoredTypes \cup TransientTypes /\ e.path \in Paths \cup {NoPath}
         /\ e.id \in Nat \ {0} /\ e.n \in Nat
BY DEF Event

LEMMA StampIsEvent ==
  ASSUME nextId \in Nat \ {0}, serial \in Nat,
         NEW t \in StoredTypes \cup TransientTypes, NEW p \in Paths \cup {NoPath}
  PROVE  /\ Stamp(t, p) \in Event /\ Stamp(t, p).type = t /\ Stamp(t, p).path = p
         /\ Stamp(t, p).id = nextId /\ Stamp(t, p).n = serial + 1
<1>1. serial + 1 \in Nat
  OBVIOUS
<1> QED BY <1>1 DEF Stamp, Event

(* Paths the file shows as changed and the summary does not name appear only *)
(* with lines that bring them.                                              *)
LEMMA UnlistedGrows ==
  ASSUME Journal, NEW New, IsFiniteSet(New), crashes' \in Nat,
         crashes + Cardinality(New) <= crashes',
         meta.mutations \subseteq meta'.mutations,
         \A x \in Range(file') :
           \/ x \in Range(file)
           \/ x.type = "mutation" => x.path \in meta'.mutations \cup New
  PROVE  IsFiniteSet(Unlisted') /\ Cardinality(Unlisted') <= crashes'
<1>1. PICK U : U = Unlisted
  OBVIOUS
<1>2. PICK V : V = Unlisted'
  OBVIOUS
<1>3. V \subseteq U \cup New
  BY <1>1, <1>2 DEF Unlisted
<1>4. IsFiniteSet(U) /\ Cardinality(U) <= crashes /\ crashes \in Nat
  BY <1>1 DEF Journal, Types
<1>5. /\ IsFiniteSet(U \cup New)
      /\ Cardinality(U \cup New) = Cardinality(U) + Cardinality(New) - Cardinality(U \cap New)
  BY <1>4, FS_Union
<1>6. IsFiniteSet(U \cap New)
  BY <1>4, FS_Intersection
<1>7. /\ Cardinality(U) \in Nat /\ Cardinality(New) \in Nat
      /\ Cardinality(U \cap New) \in Nat
  BY <1>4, <1>6, FS_CardinalityType
<1>8. IsFiniteSet(V) /\ Cardinality(V) <= Cardinality(U \cup New)
  BY <1>3, <1>5, FS_Subset
<1>9. Cardinality(V) \in Nat
  BY <1>8, FS_CardinalityType
<1>10. Cardinality(V) <= crashes'
  BY <1>4, <1>5, <1>7, <1>8, <1>9
<1> QED BY <1>2, <1>8, <1>10

--------------------------------------------------------------------------------
(* Session.record *)

\* What it does to the list of changed paths and to the summary.
LEMMA RecordSummarises ==
  ASSUME Types, NEW e \in Event, e.type = "mutation" => e.path \in Paths,
         status \in Statuses, mutations = meta.mutations, Record(e)
  PROVE  /\ mutations' \in Muts
         /\ meta' \in [status : Statuses \cup {"none"}, mutations : Muts]
         /\ mutations' = meta'.mutations
         /\ meta.mutations \subseteq meta'.mutations
         /\ e.type = "mutation" => e.path \in meta'.mutations
         /\ meta' = meta \/ meta'.status = status
<1>1. CASE IsNewMutation(e)
  <2>1. mutations' = mutations \cup {e.path} /\ meta' = Summary(status, mutations')
    BY <1>1 DEF Record
  <2>2. e.path \in Paths
    BY <1>1 DEF IsNewMutation
  <2>3. PICK m : m = mutations \cup {e.path}
    OBVIOUS
  <2>4. m \in Muts
    BY <2>2, <2>3 DEF Muts, Types
  <2>5. meta' = [status |-> status, mutations |-> m] /\ mutations' = m
    BY <2>1, <2>3 DEF Summary
  <2>6. /\ meta' \in [status : Statuses \cup {"none"}, mutations : Muts]
        /\ meta'.mutations = m /\ meta'.status = status
    BY <2>4, <2>5
  <2> QED BY <2>3, <2>4, <2>5, <2>6
<1>2. CASE ~IsNewMutation(e)
  <2>1. mutations' = mutations /\ meta' = meta
    BY <1>2 DEF Record
  <2>2. e.type = "mutation" => e.path \in mutations
    BY <1>2 DEF IsNewMutation
  <2> QED BY <2>1, <2>2 DEF Types
<1> QED BY <1>1, <1>2

\* What it does to the log, the buffer and the file.
LEMMA RecordWrites ==
  ASSUME Types, NEW e \in Event, Record(e)
  PROVE  /\ events' \in Seq(Event) /\ buffer' \in Seq(Event) /\ file' \in Seq(Event)
         /\ torn' \in BOOLEAN /\ nextId' \in Nat \ {0} /\ serial' \in Nat
         /\ Range(events') = Range(events) \cup {e}
         /\ Range(file) \subseteq Range(file')
         /\ Range(file') \subseteq Range(file) \cup Range(buffer) \cup {e}
         /\ \E g : Range(buffer) \cup {e} \subseteq Range(file') \cup Range(buffer') \cup {g}
         /\ ~torn => Range(buffer) \cup {e} \subseteq Range(file') \cup Range(buffer')
         /\ Flushes(e) => Len(buffer') = 0 /\ ~torn'
         /\ ~Flushes(e) => /\ Len(buffer') = Len(buffer) + 1 /\ torn' = torn
                           /\ file' = file /\ Range(buffer') = Range(buffer) \cup {e}
<1>1. PICK b : b = Append(buffer, e)
  OBVIOUS
<1>2. b \in Seq(Event) /\ b # <<>> /\ Range(b) = Range(buffer) \cup {e} /\ Len(b) = Len(buffer) + 1
  BY <1>1, HeldByAppend DEF Types
<1>3. events' \in Seq(Event) /\ Range(events') = Range(events) \cup {e}
  BY HeldByAppend DEF Types, Record
<1>4. nextId' \in Nat \ {0} /\ serial' \in Nat
  BY DEF Types, Record, Count
<1>5. CASE Flushes(e)
  <2>1. Flush(b)
    BY <1>1, <1>5 DEF Record
  <2>2. /\ file' \in Seq(Event) /\ torn' \in BOOLEAN /\ buffer' = <<>>
        /\ Range(file) \subseteq Range(file')
        /\ Range(file') \subseteq Range(file) \cup Range(b)
        /\ Range(b) \subseteq Range(file') \cup {b[1]}
        /\ ~torn => Range(b) \subseteq Range(file')
        /\ torn' => torn /\ b = <<>>
    BY <1>2, <2>1, FlushDoes DEF Types
  <2>3. buffer' \in Seq(Event) /\ Len(buffer') = 0
    BY <2>2, EmptySeq
  <2>4. \E g : Range(b) \subseteq Range(file') \cup Range(buffer') \cup {g}
    BY <2>2
  <2> QED BY <1>2, <1>3, <1>4, <1>5, <2>2, <2>3, <2>4
<1>6. CASE ~Flushes(e)
  <2>1. buffer' = b /\ file' = file /\ torn' = torn
    BY <1>1, <1>6 DEF Record, Buffered
  <2>2. Range(buffer') = Range(b) /\ Range(file') = Range(file)
    BY <2>1
  <2> QED BY <1>2, <1>3, <1>4, <1>6, <2>1, <2>2 DEF Types
<1> QED BY <1>5, <1>6

LEMMA RecordKeeps ==
  ASSUME Journal, NEW e \in Event, e.type = "mutation" => e.path \in Paths,
         status \in Statuses, mutations = meta.mutations, Record(e), crashes' = crashes
  PROVE  Journal' /\ mutations' = meta'.mutations
<1>1. Types
  BY DEF Journal
<1>2. /\ mutations' \in Muts
      /\ meta' \in [status : Statuses \cup {"none"}, mutations : Muts]
      /\ mutations' = meta'.mutations
      /\ meta.mutations \subseteq meta'.mutations
      /\ e.type = "mutation" => e.path \in meta'.mutations
      /\ meta' = meta \/ meta'.status = status
  BY <1>1, RecordSummarises
<1>3. PICK g : Range(buffer) \cup {e} \subseteq Range(file') \cup Range(buffer') \cup {g}
  BY <1>1, RecordWrites
<1>4. /\ events' \in Seq(Event) /\ buffer' \in Seq(Event) /\ file' \in Seq(Event)
      /\ torn' \in BOOLEAN /\ nextId' \in Nat \ {0} /\ serial' \in Nat
      /\ Range(events') = Range(events) \cup {e}
      /\ Range(file) \subseteq Range(file')
      /\ Range(file') \subseteq Range(file) \cup Range(buffer) \cup {e}
      /\ ~torn => Range(buffer) \cup {e} \subseteq Range(file') \cup Range(buffer')
      /\ Flushes(e) => Len(buffer') = 0 /\ ~torn'
      /\ ~Flushes(e) => /\ Len(buffer') = Len(buffer) + 1 /\ torn' = torn
                        /\ file' = file /\ Range(buffer') = Range(buffer) \cup {e}
  BY <1>1, RecordWrites
<1>5. Types'
  BY <1>1, <1>2, <1>4 DEF Types
<1>6. Len(buffer) \in Nat /\ Len(buffer) < FlushAt /\ FlushAt \in Nat \ {0}
  BY <1>1, LogAssumption, LenProperties DEF Types, Journal
<1>7. Len(buffer') < FlushAt
  BY <1>4, <1>6 DEF Flushes
<1>8. \A x \in Range(buffer) \cup {e} : x.type = "mutation" => x.path \in meta'.mutations
  <2>1. \A x \in Range(buffer) : x.type = "mutation" => x.path \in meta.mutations
    BY DEF Journal, Costly, Range
  <2> QED BY <1>2, <2>1
<1>9. \A i \in DOMAIN buffer' : ~Costly(buffer[i])'
  <2>1. CASE Flushes(e)
    <3>1. DOMAIN buffer' = {}
      BY <1>4, <2>1, LenProperties
    <3> QED BY <3>1
  <2>2. CASE ~Flushes(e)
    <3>1. Range(buffer') = Range(buffer) \cup {e}
      BY <1>4, <2>2
    <3>2. \A x \in Range(buffer) : x.type \notin {"finish", "end"}
      BY DEF Journal, Costly, Range
    <3>3. e.type \notin {"finish", "end"}
      BY <2>2 DEF Flushes
    <3>4. \A x \in Range(buffer') :
            x.type \notin {"finish", "end"} /\ (x.type = "mutation" => x.path \in meta'.mutations)
      BY <1>8, <3>1, <3>2, <3>3
    <3>5. \A i \in DOMAIN buffer' : buffer'[i] \in Range(buffer')
      BY DEF Range
    <3> QED BY <3>4, <3>5 DEF Costly
  <2> QED BY <2>1, <2>2
<1>10. Lost' \subseteq Lost \cup ((Range(buffer) \cup {e}) \ (Range(file') \cup Range(buffer')))
  BY <1>4 DEF Lost
<1>11. Lost = {} \/ ~torn
  BY DEF Journal
<1>12. \E h : Lost' \subseteq {h}
  <2>1. CASE torn
    BY <1>3, <1>10, <1>11, <2>1
  <2>2. CASE ~torn
    BY <1>4, <1>10, <2>2 DEF Journal
  <2> QED BY <2>1, <2>2
<1>13. Lost' # {} => ~torn' /\ TornWrites /\ crashes' >= 1
  <2> SUFFICES ASSUME Lost' # {} PROVE ~torn' /\ TornWrites /\ crashes' >= 1
    OBVIOUS
  <2>1. CASE torn
    <3>1. Flushes(e)
      BY <1>4, <1>10, <1>11, <2>1
    <3> QED BY <1>4, <2>1, <3>1 DEF Journal
  <2>2. CASE ~torn
    <3>1. Lost # {} /\ ~torn'
      BY <1>4, <1>10, <2>2
    <3> QED BY <3>1 DEF Journal
  <2> QED BY <2>1, <2>2
<1>14. torn' => TornWrites /\ crashes' >= 1
  BY <1>4 DEF Journal
<1>15. meta' # NoMeta => meta'.status \in Statuses
  BY <1>2 DEF Journal
<1>16. IsFiniteSet(Unlisted') /\ Cardinality(Unlisted') <= crashes'
  <2>1. PICK New : New = {}
    OBVIOUS
  <2>2. IsFiniteSet(New) /\ Cardinality(New) = 0
    BY <2>1, FS_EmptySet
  <2>3. crashes' \in Nat /\ crashes + Cardinality(New) <= crashes'
    BY <1>1, <2>2 DEF Types
  <2>4. \A x \in Range(file') :
           \/ x \in Range(file)
           \/ x.type = "mutation" => x.path \in meta'.mutations \cup New
    BY <1>4, <1>8
  <2> QED BY <1>2, <2>2, <2>3, <2>4, UnlistedGrows
<1>17. Journal'
  BY <1>5, <1>7, <1>9, <1>12, <1>13, <1>14, <1>15, <1>16 DEF Journal
<1> QED BY <1>2, <1>17

--------------------------------------------------------------------------------
(* The steps of a run *)

LEMMA EmitsKeeps ==
  ASSUME LogInv, NEW from \in Steps \ {"idle"}, NEW to \in Steps, NEW e \in Event,
         e.type = "mutation" => e.path \in Paths, Emits(from, to, e),
         outcome' \in {"done", "error"}
  PROVE  LogInv'
<1>1. /\ alive /\ status = "running" /\ step = from /\ step' = to /\ Record(e)
      /\ alive' = alive /\ status' = status /\ crashes' = crashes
  BY DEF Emits, LogInv, Life
<1>2. Journal /\ mutations = meta.mutations /\ status \in Statuses
  BY <1>1 DEF LogInv, Life, Statuses
<1>3. Journal' /\ mutations' = meta'.mutations
  BY <1>1, <1>2, RecordKeeps
<1>4. Life'
  BY <1>1, <1>3 DEF Life, LogInv
<1> QED BY <1>3, <1>4 DEF LogInv

LEMMA JournalStands ==
  ASSUME Journal,
         UNCHANGED <<torn, events, buffer, file, nextId, serial, crashes, mutations, meta>>
  PROVE  Journal'
BY DEF Journal, Types, Lost, Unlisted, Costly

LEMMA WorkKeeps == ASSUME LogInv, Work PROVE LogInv'
<1>1. outcome' \in {"done", "error"}
  BY DEF Work, LogInv, Life
<1>2. nextId \in Nat \ {0} /\ serial \in Nat
  BY DEF LogInv, Journal, Types
<1>3. "work" \in Steps \ {"idle"}
  BY DEF Steps
<1>4. CASE Emits("work", "work", Stamp("work", NoPath))
  <2>1. PICK e : e = Stamp("work", NoPath)
    OBVIOUS
  <2>2. e \in Event /\ e.type = "work"
    BY <1>2, <2>1, StampIsEvent DEF StoredTypes
  <2>3. Emits("work", "work", e)
    BY <1>4, <2>1
  <2> QED BY <1>1, <1>3, <2>2, <2>3, EmitsKeeps
<1>5. CASE \E p \in Paths : Emits("work", "work", Stamp("mutation", p))
  <2>0. PICK p \in Paths : Emits("work", "work", Stamp("mutation", p))
    BY <1>5
  <2>1. PICK e : e = Stamp("mutation", p)
    OBVIOUS
  <2>2. e \in Event /\ e.path \in Paths
    BY <1>2, <2>1, StampIsEvent DEF StoredTypes
  <2>3. Emits("work", "work", e)
    BY <2>0, <2>1
  <2> QED BY <1>1, <1>3, <2>2, <2>3, EmitsKeeps
<1> QED BY <1>4, <1>5 DEF Work

LEMMA EndingKeeps ==
  ASSUME LogInv, RecordError \/ RecordFinish \/ RecordMetrics \/ RecordEnd
  PROVE  LogInv'
<1>1. nextId \in Nat \ {0} /\ serial \in Nat
  BY DEF LogInv, Journal, Types
<1>2. PICK from \in Steps \ {"idle"}, to \in Steps, t \in {"error", "finish", "metrics", "end"} :
        Emits(from, to, Stamp(t, NoPath)) /\ outcome' \in {"done", "error"}
  <2>1. CASE RecordError
    BY <2>1 DEF RecordError, Steps
  <2>2. CASE RecordFinish
    BY <2>2 DEF RecordFinish, Steps, LogInv, Life
  <2>3. CASE RecordMetrics
    BY <2>3 DEF RecordMetrics, Steps, LogInv, Life
  <2>4. CASE RecordEnd
    BY <2>4 DEF RecordEnd, Steps, LogInv, Life
  <2> QED BY <2>1, <2>2, <2>3, <2>4
<1>3. PICK e : e = Stamp(t, NoPath)
  OBVIOUS
<1>4. e \in Event /\ e.type = t
  BY <1>1, <1>3, StampIsEvent DEF StoredTypes
<1>5. Emits(from, to, e)
  BY <1>2, <1>3
<1> QED BY <1>2, <1>4, <1>5, EmitsKeeps

LEMMA RelayQuotaKeeps == ASSUME LogInv, RelayQuota PROVE LogInv'
<1>1. Journal'
  BY JournalStands DEF LogInv, RelayQuota
<1>2. Life'
  BY DEF LogInv, Life, RelayQuota, Steps
<1> QED BY <1>1, <1>2 DEF LogInv

LEMMA SettleKeeps == ASSUME LogInv, Settle PROVE LogInv'
<1>1. /\ alive /\ alive' /\ status = "running" /\ step' = "idle" /\ status' = outcome
      /\ outcome' = outcome /\ outcome \in {"done", "error"}
      /\ UNCHANGED <<events, nextId, mutations, serial, crashes>>
  BY DEF LogInv, Life, Settle
<1>2. Journal /\ Types /\ mutations = meta.mutations
  BY <1>1 DEF LogInv, Life, Journal
<1>3. CASE outcome = "error"
  <2>1. UNCHANGED <<buffer, file, torn, meta>>
    BY <1>3 DEF Settle
  <2>2. Journal'
    BY <1>1, <1>2, <2>1, JournalStands
  <2>3. Life'
    BY <1>1, <1>2, <2>1 DEF Life, Steps, Statuses
  <2> QED BY <2>2, <2>3 DEF LogInv
<1>4. CASE outcome # "error"
  <2>1. Flush(buffer) /\ meta' = Summary(outcome, mutations)
    BY <1>4 DEF Settle
  <2>2. /\ file' \in Seq(Event) /\ torn' \in BOOLEAN /\ buffer' = <<>>
        /\ Range(file) \subseteq Range(file')
        /\ Range(file') \subseteq Range(file) \cup Range(buffer)
        /\ Range(buffer) \subseteq Range(file') \cup {buffer[1]}
        /\ ~torn => Range(buffer) \subseteq Range(file')
        /\ torn' => torn /\ buffer = <<>>
    BY <1>2, <2>1, FlushDoes DEF Types
  <2>3. buffer' \in Seq(Event) /\ Len(buffer') = 0 /\ DOMAIN buffer' = {}
    BY <2>2, EmptySeq
  <2>4. /\ meta' \in [status : Statuses \cup {"none"}, mutations : Muts]
        /\ meta'.mutations = mutations /\ meta'.status = outcome
    BY <1>1, <1>2, <2>1 DEF Summary, Statuses, Types
  <2>5. Types'
    BY <1>1, <1>2, <2>2, <2>3, <2>4 DEF Types
  <2>6. Lost' \subseteq Lost \cup (Range(buffer) \ Range(file'))
    BY <1>1, <2>2 DEF Lost
  <2>7. \E g : Lost' \subseteq {g}
    <3>1. CASE torn
      BY <1>2, <2>2, <2>6, <3>1 DEF Journal
    <3>2. CASE ~torn
      BY <1>2, <2>2, <2>6, <3>2 DEF Journal
    <3> QED BY <3>1, <3>2
  <2>8. Lost' # {} => ~torn' /\ TornWrites /\ crashes' >= 1
    <3>1. buffer = <<>> => Range(buffer) = {}
      BY DEF Range
    <3>2. CASE torn
      BY <1>1, <1>2, <2>2, <2>6, <3>1, <3>2 DEF Journal
    <3>3. CASE ~torn
      BY <1>1, <1>2, <2>2, <2>6, <3>3 DEF Journal
    <3> QED BY <3>2, <3>3
  <2>9. IsFiniteSet(Unlisted') /\ Cardinality(Unlisted') <= crashes'
    <3>1. PICK New : New = {}
      OBVIOUS
    <3>2. IsFiniteSet(New) /\ Cardinality(New) = 0
      BY <3>1, FS_EmptySet
    <3>3. crashes' \in Nat /\ crashes + Cardinality(New) <= crashes'
      BY <1>1, <1>2, <3>2 DEF Types
    <3>4. \A x \in Range(buffer) : x.type = "mutation" => x.path \in meta.mutations
      BY <1>2 DEF Journal, Costly, Range
    <3>5. meta.mutations = meta'.mutations
      BY <1>2, <2>4
    <3>6. \A x \in Range(file') :
           \/ x \in Range(file)
           \/ x.type = "mutation" => x.path \in meta'.mutations \cup New
      BY <2>2, <3>4, <3>5
    <3> QED BY <1>2, <3>2, <3>3, <3>5, <3>6, UnlistedGrows
  <2>10. Len(buffer') < FlushAt
    BY <2>3, LogAssumption
  <2>11. torn' => TornWrites /\ crashes' >= 1
    BY <1>1, <1>2, <2>2 DEF Journal
  <2>12. meta'.status \in Statuses
    BY <1>1, <2>4 DEF Statuses
  <2>13. Journal'
    BY <2>3, <2>5, <2>7, <2>8, <2>9, <2>10, <2>11, <2>12 DEF Journal
  <2>14. Life'
    BY <1>1, <1>2, <2>4 DEF Life, Steps, Statuses
  <2> QED BY <2>13, <2>14 DEF LogInv
<1> QED BY <1>3, <1>4

--------------------------------------------------------------------------------
(* Starting runs, reading back, kills and restarts *)

LEMMA FollowUpKeeps == ASSUME LogInv, FollowUp PROVE LogInv'
<1>1. /\ alive /\ alive' /\ status \in Statuses /\ status' = "running" /\ step' = "work"
      /\ Record(Stamp("user", NoPath)) /\ outcome' = outcome /\ crashes' = crashes
  BY DEF FollowUp, LogInv, Life
<1>2. nextId \in Nat \ {0} /\ serial \in Nat
  BY DEF LogInv, Journal, Types
<1>3. PICK e : e = Stamp("user", NoPath)
  OBVIOUS
<1>4. e \in Event /\ e.type = "user"
  BY <1>2, <1>3, StampIsEvent DEF StoredTypes
<1>5. Journal /\ mutations = meta.mutations /\ Record(e)
  BY <1>1, <1>3 DEF LogInv, Life
<1>6. Journal' /\ mutations' = meta'.mutations
  BY <1>1, <1>4, <1>5, RecordKeeps
<1>7. Life'
  BY <1>1, <1>6 DEF Life, LogInv, Steps, Statuses
<1> QED BY <1>6, <1>7 DEF LogInv

LEMMA OneEvent ==
  ASSUME NEW e \in Event
  PROVE  <<e>> \in Seq(Event) /\ Len(<<e>>) = 1 /\ DOMAIN <<e>> = {1} /\ <<e>>[1] = e
         /\ Range(<<e>>) = {e}
<1>1. DOMAIN <<e>> = {1} /\ <<e>>[1] = e /\ Len(<<e>>) = 1 /\ <<e>> \in Seq(Event)
  OBVIOUS
<1> QED BY <1>1 DEF Range

LEMMA StartKeeps == ASSUME LogInv, Start PROVE LogInv'
<1>1. PICK e : e = Stamp("user", NoPath)
  OBVIOUS
<1>2. /\ alive /\ alive' /\ status = "none" /\ status' = "running" /\ step' = "work"
      /\ events' = <<e>> /\ serial' = serial + 1 /\ nextId' = 2
      /\ IF FlushAt = 1 THEN Flush(<<e>>) ELSE Buffered(<<e>>)
      /\ meta' = Summary("running", {})
      /\ outcome' = outcome /\ mutations' = mutations /\ crashes' = crashes
  BY <1>1 DEF Start, Count, LogInv, Life
<1>3. Types /\ Journal
  BY DEF LogInv, Journal
<1>4. e \in Event /\ e.type = "user"
  BY <1>1, <1>3, StampIsEvent DEF StoredTypes, Types
<1>5. PICK b : b = <<e>>
  OBVIOUS
<1>6. b \in Seq(Event) /\ Len(b) = 1 /\ DOMAIN b = {1} /\ b[1] = e /\ Range(b) = {e} /\ b # <<>>
  BY <1>4, <1>5, OneEvent
<1>7. meta = NoMeta /\ mutations = {}
  BY <1>2 DEF LogInv, Life, NoMeta
<1>8. /\ meta' \in [status : Statuses \cup {"none"}, mutations : Muts]
      /\ meta'.mutations = {} /\ meta'.status = "running"
  BY <1>2 DEF Summary, Statuses, Muts
<1>9. /\ file' \in Seq(Event) /\ buffer' \in Seq(Event) /\ torn' \in BOOLEAN
      /\ Range(file') \subseteq Range(file) \cup {e}
      /\ Len(buffer') < FlushAt /\ (\A i \in DOMAIN buffer' : buffer'[i] = e)
      /\ e \in Range(file') \cup Range(buffer') \/ (torn /\ ~torn')
      /\ torn' => torn
  <2>1. CASE FlushAt = 1
    <3>1. Flush(b)
      BY <1>2, <1>5, <2>1
    <3>2. /\ file' \in Seq(Event) /\ torn' \in BOOLEAN /\ buffer' = <<>>
          /\ Range(file) \subseteq Range(file')
          /\ Range(file') \subseteq Range(file) \cup Range(b)
          /\ ~torn => Range(b) \subseteq Range(file')
          /\ torn' => torn /\ b = <<>>
      BY <1>3, <1>6, <3>1, FlushDoes DEF Types
    <3>3. buffer' \in Seq(Event) /\ Len(buffer') = 0 /\ DOMAIN buffer' = {}
      BY <3>2, EmptySeq
    <3> QED BY <1>3, <1>6, <2>1, <3>2, <3>3 DEF Types
  <2>2. CASE FlushAt # 1
    <3>1. buffer' = b /\ file' = file /\ torn' = torn
      BY <1>2, <1>5, <2>2 DEF Buffered
    <3>2. Range(buffer') = {e} /\ Range(file') = Range(file)
      BY <1>6, <3>1
    <3>3. Len(buffer') < FlushAt
      <4>1. Len(buffer') = 1
        BY <1>6, <3>1
      <4>2. FlushAt \in Nat /\ FlushAt > 1
        BY <2>2, LogAssumption
      <4> QED BY <4>1, <4>2
    <3> QED BY <1>3, <1>6, <3>1, <3>2, <3>3 DEF Types
  <2> QED BY <2>1, <2>2
<1>10. Types'
  BY <1>2, <1>3, <1>5, <1>6, <1>7, <1>8, <1>9 DEF Types, Muts
<1>11. Range(events') = {e}
  BY <1>2, <1>5, <1>6
<1>12. Lost' \subseteq {e} /\ (Lost' # {} => torn /\ ~torn')
  BY <1>9, <1>11 DEF Lost
<1>13. torn => TornWrites /\ crashes' >= 1
  BY <1>2, <1>3 DEF Journal
<1>14. \A i \in DOMAIN buffer' : ~Costly(buffer[i])'
  BY <1>4, <1>9 DEF Costly
<1>15. IsFiniteSet(Unlisted') /\ Cardinality(Unlisted') <= crashes'
  <2>1. PICK New : New = {}
    OBVIOUS
  <2>2. IsFiniteSet(New) /\ Cardinality(New) = 0
    BY <2>1, FS_EmptySet
  <2>3. crashes' \in Nat /\ crashes + Cardinality(New) <= crashes'
    BY <1>2, <1>3, <2>2 DEF Types
  <2>4. meta.mutations \subseteq meta'.mutations
    BY <1>7 DEF NoMeta
  <2>5. \A x \in Range(file') :
          \/ x \in Range(file)
          \/ x.type = "mutation" => x.path \in meta'.mutations \cup New
    BY <1>4, <1>9
  <2> QED BY <1>3, <2>2, <2>3, <2>4, <2>5, UnlistedGrows
<1>16. Journal'
  BY <1>8, <1>9, <1>10, <1>12, <1>13, <1>14, <1>15 DEF Journal, Statuses
<1>17. Life'
  BY <1>2, <1>7, <1>8 DEF Life, LogInv, Steps, Statuses
<1> QED BY <1>16, <1>17 DEF LogInv

LEMMA HydrateKeeps == ASSUME LogInv, Hydrate PROVE LogInv'
<1>1. Types /\ Journal
  BY DEF LogInv, Journal
<1>2. PICK r : r = Restored
  OBVIOUS
<1>3. r \in Seq(Event) /\ Range(r) \subseteq Range(file)
  BY <1>1, <1>2, RestoredIsOnFile DEF Types
<1>4. PICK s : s = r \o events
  OBVIOUS
<1>5. s \in Seq(Event) /\ Range(s) = Range(r) \cup Range(events)
  BY <1>1, <1>3, <1>4, HeldByConcat DEF Types
<1>6. events' = s
  BY <1>2, <1>4 DEF Hydrate
<1>7. nextId' = IdAfter(s)
  BY <1>6 DEF Hydrate, IdAfter, Ids
<1>8. nextId' \in Nat \ {0}
  BY <1>5, <1>7, IdAfterIsAnId
<1>9. UNCHANGED <<alive, status, step, outcome, mutations, buffer, file, torn, meta, serial, crashes>>
  BY DEF Hydrate
<1>10. Types'
  BY <1>1, <1>5, <1>6, <1>8, <1>9 DEF Types
<1>11. Range(events') = Range(r) \cup Range(events) /\ Range(file') = Range(file)
       /\ Range(buffer') = Range(buffer)
  BY <1>5, <1>6, <1>9
<1>12. Lost' \subseteq Lost
  BY <1>3, <1>11 DEF Lost
<1>13. Unlisted' = Unlisted
  BY <1>9 DEF Unlisted
<1>14. Journal'
  BY <1>1, <1>9, <1>10, <1>12, <1>13 DEF Journal, Costly
<1>15. Life'
  BY <1>9 DEF LogInv, Life
<1> QED BY <1>14, <1>15 DEF LogInv

\* What is left when the process is gone.
LEMMA KilledKeeps ==
  ASSUME LogInv, Killed, meta' = meta, file' \in Seq(Event), torn' \in BOOLEAN,
         serial' \in Nat, torn' => torn \/ TornWrites,
         IsFiniteSet(Unlisted'), Cardinality(Unlisted') <= crashes'
  PROVE  LogInv'
<1>1. /\ alive' = FALSE /\ status' = "none" /\ step' = "idle" /\ outcome' = "error"
      /\ events' = <<>> /\ nextId' = 1 /\ mutations' = {} /\ buffer' = <<>>
      /\ crashes' = crashes + 1
  BY DEF Killed
<1>2. Types /\ Journal
  BY DEF LogInv, Journal
<1>3. events' \in Seq(Event) /\ buffer' \in Seq(Event) /\ Len(buffer') = 0 /\ DOMAIN buffer' = {}
  BY <1>1, EmptySeq
<1>4. crashes' \in Nat /\ crashes' >= 1
  BY <1>1, <1>2 DEF Types
<1>5. Types'
  BY <1>1, <1>2, <1>3, <1>4 DEF Types, Muts
<1>6. Lost' = {}
  BY <1>1 DEF Lost, Range
<1>7. torn' => TornWrites
  BY <1>2 DEF Journal
<1>8. Len(buffer') < FlushAt
  BY <1>3, LogAssumption
<1>9. Journal'
  BY <1>2, <1>3, <1>4, <1>5, <1>6, <1>7, <1>8 DEF Journal
<1>10. Life'
  BY <1>1 DEF Life, Steps
<1> QED BY <1>9, <1>10 DEF LogInv

LEMMA CrashKeeps == ASSUME LogInv, Crash PROVE LogInv'
<1>1. Killed /\ UNCHANGED <<file, torn, meta, serial>> /\ crashes' = crashes + 1
  BY DEF Crash, Killed
<1>2. Types /\ Journal
  BY DEF LogInv, Journal
<1>3. PICK U : U = Unlisted
  OBVIOUS
<1>4. Unlisted' = U
  BY <1>1, <1>3 DEF Unlisted
<1>5. IsFiniteSet(U) /\ Cardinality(U) <= crashes /\ crashes \in Nat
  BY <1>2, <1>3 DEF Journal, Types
<1>6. Cardinality(U) \in Nat
  BY <1>5, FS_CardinalityType
<1>7. IsFiniteSet(Unlisted') /\ Cardinality(Unlisted') <= crashes'
  BY <1>1, <1>4, <1>5, <1>6
<1> QED BY <1>1, <1>2, <1>7, KilledKeeps DEF Types

LEMMA CrashInFlushKeeps == ASSUME LogInv, CrashInFlush PROVE LogInv'
<1>1. Types /\ Journal
  BY DEF LogInv, Journal
<1>2. PICK e \in {Stamp("work", NoPath), Stamp("finish", NoPath), Stamp("end", NoPath)}
                    \cup {Stamp("mutation", p) : p \in Paths} :
        /\ Count(e)
        /\ \E k \in 0 .. Len(buffer) + 1, cut \in {FALSE, TornWrites} :
             /\ file' = Appended(Append(buffer, e), k)
             /\ torn' = IF k = 0 THEN torn \/ cut ELSE cut /\ k <= Len(buffer)
  BY DEF CrashInFlush
<1>3. e \in Event
  <2>1. nextId \in Nat \ {0} /\ serial \in Nat
    BY <1>1 DEF Types
  <2>2. \A t \in {"work", "finish", "end"} : Stamp(t, NoPath) \in Event
    BY <2>1, StampIsEvent DEF StoredTypes
  <2>3. \A p \in Paths : Stamp("mutation", p) \in Event
    BY <2>1, StampIsEvent DEF StoredTypes
  <2> QED BY <1>2, <2>2, <2>3
<1>4. PICK b : b = Append(buffer, e)
  OBVIOUS
<1>5. b \in Seq(Event) /\ Len(b) = Len(buffer) + 1 /\ Range(b) = Range(buffer) \cup {e}
  BY <1>1, <1>3, <1>4, HeldByAppend DEF Types
<1>6. PICK k \in 0 .. Len(b), cut \in {FALSE, TornWrites} :
        /\ file' = Appended(b, k)
        /\ torn' = IF k = 0 THEN torn \/ cut ELSE cut /\ k <= Len(buffer)
  BY <1>2, <1>4, <1>5
<1>7. PICK f : f = Appended(b, k)
  OBVIOUS
<1>8. f \in Seq(Event) /\ Range(f) \subseteq Range(file) \cup Range(b)
  BY <1>1, <1>5, <1>7, AppendedHolds DEF Types
<1>9. file' = f /\ Range(file') = Range(f)
  BY <1>6, <1>7
<1>10. Killed /\ meta' = meta /\ serial' = serial + 1 /\ crashes' = crashes + 1
  BY <1>2 DEF CrashInFlush, Killed, Count
<1>11. torn' \in BOOLEAN /\ (torn' => torn \/ TornWrites)
  <2>1. torn \in BOOLEAN /\ TornWrites \in BOOLEAN
    BY <1>1, LogAssumption DEF Types
  <2>2. CASE k = 0
    <3>1. torn' = (torn \/ cut)
      BY <1>6, <2>2
    <3>2. CASE cut = FALSE
      BY <2>1, <3>1, <3>2
    <3>3. CASE cut = TornWrites
      BY <2>1, <3>1, <3>3
    <3> QED BY <1>6, <3>2, <3>3
  <2>3. CASE k # 0
    <3>1. torn' = (cut /\ k <= Len(buffer))
      BY <1>6, <2>3
    <3>2. CASE cut = FALSE
      BY <3>1, <3>2
    <3>3. CASE cut = TornWrites
      <4>1. torn' = (TornWrites /\ k <= Len(buffer))
        BY <3>1, <3>3
      <4>2. torn' \in BOOLEAN
        BY <4>1
      <4> QED BY <4>1, <4>2
    <3> QED BY <1>6, <3>2, <3>3
  <2> QED BY <2>2, <2>3
<1>12. IsFiniteSet(Unlisted') /\ Cardinality(Unlisted') <= crashes'
  <2>1. PICK New : New = {e.path}
    OBVIOUS
  <2>2. IsFiniteSet(New) /\ Cardinality(New) = 1
    BY <2>1, FS_Singleton
  <2>3. crashes' \in Nat /\ crashes + Cardinality(New) <= crashes'
    BY <1>1, <1>10, <2>2 DEF Types
  <2>4. \A x \in Range(buffer) : x.type = "mutation" => x.path \in meta.mutations
    BY <1>1 DEF Journal, Costly, Range
  <2>5. \A x \in Range(file') :
          \/ x \in Range(file)
          \/ x.type = "mutation" => x.path \in meta'.mutations \cup New
    BY <1>5, <1>8, <1>9, <1>10, <2>1, <2>4
  <2> QED BY <1>1, <1>10, <2>2, <2>3, <2>5, UnlistedGrows
<1>13. serial' \in Nat /\ file' \in Seq(Event)
  BY <1>1, <1>8, <1>9, <1>10 DEF Types
<1> QED BY <1>10, <1>11, <1>12, <1>13, KilledKeeps

LEMMA RestartKeeps == ASSUME LogInv, Restart PROVE LogInv'
<1>1. /\ ~alive /\ alive' = TRUE
      /\ UNCHANGED <<step, outcome, events, nextId, buffer, file, torn, meta, serial, crashes>>
  BY DEF Restart
<1>2. Types /\ Journal /\ mutations = {} /\ step = "idle"
  BY <1>1 DEF LogInv, Journal, Life
<1>3. CASE meta = NoMeta
  <2>1. status' = status /\ mutations' = mutations
    BY <1>3 DEF Restart
  <2>2. Journal'
    BY <1>1, <1>2, <2>1, JournalStands
  <2>3. meta.mutations = {}
    BY <1>3 DEF NoMeta
  <2>4. Life'
    BY <1>1, <1>2, <1>3, <2>1, <2>3 DEF Life, LogInv
  <2> QED BY <2>2, <2>4 DEF LogInv
<1>4. CASE meta # NoMeta
  <2>1. status' = Revived /\ mutations' = meta.mutations
    BY <1>4 DEF Restart
  <2>2. status' \in Statuses
    BY <1>2, <1>4, <2>1 DEF Revived, Journal, Statuses
  <2>3. Types'
    BY <1>1, <1>2, <2>1 DEF Types
  <2>4. Lost' = Lost /\ Unlisted' = Unlisted
    BY <1>1 DEF Lost, Unlisted
  <2>5. Journal'
    BY <1>1, <1>2, <2>3, <2>4 DEF Journal, Costly
  <2>6. Life'
    BY <1>1, <1>2, <2>1, <2>2 DEF Life, LogInv, Statuses
  <2> QED BY <2>5, <2>6 DEF LogInv
<1> QED BY <1>3, <1>4

--------------------------------------------------------------------------------
(* A kill costs little *)

LEMMA LogStarts == LogInit => LogInv
<1> SUFFICES ASSUME LogInit PROVE LogInv
  OBVIOUS
<1>1. /\ alive = TRUE /\ status = "none" /\ step = "idle" /\ outcome = "error"
      /\ events = <<>> /\ nextId = 1 /\ mutations = {}
      /\ buffer = <<>> /\ file = <<>> /\ torn = FALSE /\ meta = NoMeta
      /\ serial = 0 /\ crashes = 0
  BY DEF LogInit
<1>2. <<>> \in Seq(Event) /\ Len(<<>>) = 0 /\ DOMAIN <<>> = {}
  BY EmptySeq
<1>3. Types
  <2>1. NoMeta \in [status : Statuses \cup {"none"}, mutations : Muts]
    BY DEF NoMeta, Muts
  <2>2. <<>> \in Seq(Event)
    BY EmptySeq
  <2>3. 1 \in Nat \ {0} /\ 0 \in Nat /\ FALSE \in BOOLEAN /\ {} \in Muts
    BY DEF Muts
  <2> QED BY <1>1, <2>1, <2>2, <2>3 DEF Types
<1>4. Lost = {} /\ Unlisted = {}
  BY <1>1 DEF Lost, Unlisted, Range
<1>5. IsFiniteSet(Unlisted) /\ Cardinality(Unlisted) <= crashes
  BY <1>1, <1>4, FS_EmptySet
<1>6. Len(buffer) < FlushAt
  BY <1>1, <1>2, LogAssumption
<1>7. Journal
  BY <1>1, <1>2, <1>3, <1>4, <1>5, <1>6 DEF Journal
<1>8. Life
  BY <1>1 DEF Life, Steps, NoMeta
<1> QED BY <1>7, <1>8 DEF LogInv

LEMMA LogNextKeeps == LogInv /\ [LogNext]_logVars => LogInv'
<1> SUFFICES ASSUME LogInv, [LogNext]_logVars PROVE LogInv'
  OBVIOUS
<1>1. CASE Start
  BY <1>1, StartKeeps
<1>2. CASE FollowUp
  BY <1>2, FollowUpKeeps
<1>3. CASE Work
  BY <1>3, WorkKeeps
<1>4. CASE RelayQuota
  BY <1>4, RelayQuotaKeeps
<1>5. CASE RecordError \/ RecordFinish \/ RecordMetrics \/ RecordEnd
  BY <1>5, EndingKeeps
<1>6. CASE Settle
  BY <1>6, SettleKeeps
<1>7. CASE Hydrate
  BY <1>7, HydrateKeeps
<1>8. CASE Crash
  BY <1>8, CrashKeeps
<1>9. CASE CrashInFlush
  BY <1>9, CrashInFlushKeeps
<1>10. CASE Restart
  BY <1>10, RestartKeeps
<1>11. CASE UNCHANGED logVars
  <2>1. Journal'
    BY <1>11, JournalStands DEF logVars, LogInv
  <2>2. Life'
    BY <1>11 DEF logVars, LogInv, Life
  <2> QED BY <2>1, <2>2 DEF LogInv
<1> QED BY <1>1, <1>2, <1>3, <1>4, <1>5, <1>6, <1>7, <1>8, <1>9, <1>10, <1>11 DEF LogNext

\* Torn lines cost at most one event of those in memory.
LEMMA FewAreLost ==
  ASSUME LogInv
  PROVE  IsFiniteSet(Lost) /\ Cardinality(Lost) <= Glued /\ Glued \in Nat /\ Cardinality(Lost) \in Nat
<1>1. Types /\ Journal
  BY DEF LogInv, Journal
<1>2. PICK g : Lost \subseteq {g}
  BY <1>1 DEF Journal
<1>3. PICK L : L = Lost
  OBVIOUS
<1>4. Glued \in Nat
  BY <1>1 DEF Glued, Types
<1>5. CASE L = {}
  <2>1. IsFiniteSet(L) /\ Cardinality(L) = 0
    BY <1>5, FS_EmptySet
  <2> QED BY <1>3, <1>4, <2>1
<1>6. CASE L # {}
  <2>1. L = {g}
    BY <1>2, <1>3, <1>6
  <2>2. IsFiniteSet(L) /\ Cardinality(L) = 1
    BY <2>1, FS_Singleton
  <2>3. Glued >= 1
    BY <1>1, <1>3, <1>6 DEF Journal, Glued
  <2> QED BY <1>3, <1>4, <2>2, <2>3
<1> QED BY <1>5, <1>6

LEMMA LogInvCostsLittle == LogInv => CrashCostsLittle
<1> SUFFICES ASSUME LogInv PROVE CrashCostsLittle
  OBVIOUS
<1>1. Types /\ Journal
  BY DEF LogInv, Journal
<1>3. PICK L : L = Lost
  OBVIOUS
<1>4. IsFiniteSet(L) /\ Cardinality(L) <= Glued /\ Glued \in Nat /\ Cardinality(L) \in Nat
  BY <1>3, FewAreLost
<1>5. PICK B : B = Range(buffer)
  OBVIOUS
<1>6. IsFiniteSet(B) /\ Cardinality(B) <= Len(buffer) /\ Len(buffer) \in Nat /\ Cardinality(B) \in Nat
  <2>1. IsFiniteSet(B) /\ Cardinality(B) <= Len(buffer)
    BY <1>1, <1>5, HeldIsFinite DEF Types
  <2> QED BY <1>1, <2>1, FS_CardinalityType, LenProperties DEF Types
<1>7. Unsaved \subseteq L \cup B
  BY <1>3, <1>5 DEF Unsaved, Lost
<1>8. IsFiniteSet(L \cup B) /\ Cardinality(L \cup B) <= Cardinality(L) + Cardinality(B)
      /\ Cardinality(L \cup B) \in Nat
  <2>1. IsFiniteSet(L \cup B)
        /\ Cardinality(L \cup B) = Cardinality(L) + Cardinality(B) - Cardinality(L \cap B)
    BY <1>4, <1>6, FS_Union
  <2>2. IsFiniteSet(L \cap B)
    BY <1>4, FS_Intersection
  <2>3. Cardinality(L \cap B) \in Nat
    BY <2>2, FS_CardinalityType
  <2>4. Cardinality(L \cup B) \in Nat
    BY <2>1, FS_CardinalityType
  <2>5. Cardinality(L) \in Nat /\ Cardinality(B) \in Nat
    BY <1>4, <1>6
  <2>6. Cardinality(L \cup B) <= Cardinality(L) + Cardinality(B)
    BY <2>1, <2>3, <2>5
  <2> QED BY <2>1, <2>4, <2>6
<1>9. Cardinality(Unsaved) < FlushAt + Glued
  <2>1. PICK U : U = Unsaved
    OBVIOUS
  <2>2. IsFiniteSet(U) /\ Cardinality(U) <= Cardinality(L \cup B)
    BY <1>7, <1>8, <2>1, FS_Subset
  <2>3. Cardinality(U) \in Nat
    BY <2>2, FS_CardinalityType
  <2>4. Len(buffer) < FlushAt /\ FlushAt \in Nat
    BY <1>1, LogAssumption DEF Journal
  <2> QED BY <1>4, <1>6, <1>8, <2>1, <2>2, <2>3, <2>4
<1>10. Cardinality({e \in Unsaved : Costly(e)}) <= Glued
  <2>1. PICK C : C = {e \in Unsaved : Costly(e)}
    OBVIOUS
  <2>2. \A e \in B : ~Costly(e)
    BY <1>1, <1>5 DEF Journal, Range
  <2>3. C \subseteq L
    BY <1>7, <2>1, <2>2
  <2>4. IsFiniteSet(C) /\ Cardinality(C) <= Cardinality(L)
    BY <1>4, <2>3, FS_Subset
  <2>5. Cardinality(C) \in Nat
    BY <2>4, FS_CardinalityType
  <2> QED BY <1>4, <2>1, <2>4, <2>5
<1>11. Cardinality(Unlisted) <= crashes
  BY <1>1 DEF Journal
<1> QED BY <1>9, <1>10, <1>11 DEF CrashCostsLittle

(* A hard kill loses very little (journal.py, FLUSH_AT): fewer events than the *)
(* buffer takes and, torn lines apart, never how a run ended nor a change that *)
(* `revert` would not know of, whatever FlushAt is and wherever the kill comes. *)
THEOREM CrashesCostLittle == LogSpec => []CrashCostsLittle
<1>1. LogInit => LogInv
  BY LogStarts
<1>2. LogInv /\ [LogNext]_logVars => LogInv'
  BY LogNextKeeps
<1>3. LogInv => CrashCostsLittle
  BY LogInvCostsLittle
<1> QED BY <1>1, <1>2, <1>3, PTL DEF LogSpec

--------------------------------------------------------------------------------
(* The log in memory and the one on disk: orders *)

Ordered(s) == \A i, j \in DOMAIN s : i < j => s[i].n < s[j].n
Before(S, T) == \A x \in S, y \in T : x.n < y.n

LEMMA OrderedConcat ==
  ASSUME NEW s \in Seq(Event), NEW t \in Seq(Event), Ordered(s), Ordered(t), Before(Range(s), Range(t))
  PROVE  Ordered(s \o t)
<1>0. /\ Len(s) \in Nat /\ DOMAIN s = 1 .. Len(s)
      /\ Len(t) \in Nat /\ DOMAIN t = 1 .. Len(t)
  BY LenProperties
<1>1. PICK u : u = s \o t
  OBVIOUS
<1>2. u \in Seq(Event) /\ Len(u) = Len(s) + Len(t)
      /\ \A i \in 1 .. Len(s) + Len(t) : u[i] = IF i <= Len(s) THEN s[i] ELSE t[i - Len(s)]
  BY <1>1, ConcatProperties
<1>3. DOMAIN u = 1 .. Len(s) + Len(t)
  BY <1>2, LenProperties
<1>4. SUFFICES ASSUME NEW i \in DOMAIN u, NEW j \in DOMAIN u, i < j PROVE u[i].n < u[j].n
  BY <1>1 DEF Ordered
<1>5. CASE j <= Len(s)
  <2>1. i \in DOMAIN s /\ j \in DOMAIN s /\ u[i] = s[i] /\ u[j] = s[j]
    BY <1>0, <1>2, <1>3, <1>4, <1>5
  <2> QED BY <1>4, <2>1 DEF Ordered
<1>6. CASE ~(i <= Len(s))
  <2>1. i - Len(s) \in DOMAIN t /\ j - Len(s) \in DOMAIN t /\ i - Len(s) < j - Len(s)
        /\ u[i] = t[i - Len(s)] /\ u[j] = t[j - Len(s)]
    BY <1>0, <1>2, <1>3, <1>4, <1>6
  <2> QED BY <2>1 DEF Ordered
<1>7. CASE i <= Len(s) /\ ~(j <= Len(s))
  <2>1. i \in DOMAIN s /\ j - Len(s) \in DOMAIN t /\ u[i] = s[i] /\ u[j] = t[j - Len(s)]
    BY <1>0, <1>2, <1>3, <1>4, <1>7
  <2>2. u[i] \in Range(s) /\ u[j] \in Range(t)
    BY <2>1 DEF Range
  <2> QED BY <2>2 DEF Before
<1> QED BY <1>0, <1>3, <1>5, <1>6, <1>7

LEMMA OrderedAppend ==
  ASSUME NEW s \in Seq(Event), NEW e \in Event, Ordered(s), Before(Range(s), {e})
  PROVE  Ordered(Append(s, e))
<1>0. Len(s) \in Nat /\ DOMAIN s = 1 .. Len(s)
  BY LenProperties
<1>1. PICK u : u = Append(s, e)
  OBVIOUS
<1>2. u \in Seq(Event) /\ Len(u) = Len(s) + 1 /\ u[Len(s) + 1] = e
      /\ \A i \in 1 .. Len(s) : u[i] = s[i]
  BY <1>1, AppendProperties
<1>3. DOMAIN u = 1 .. Len(s) + 1
  BY <1>2, LenProperties
<1>4. SUFFICES ASSUME NEW i \in DOMAIN u, NEW j \in DOMAIN u, i < j PROVE u[i].n < u[j].n
  BY <1>1 DEF Ordered
<1>5. i \in DOMAIN s /\ u[i] = s[i]
  BY <1>0, <1>2, <1>3, <1>4
<1>6. CASE j \in DOMAIN s
  <2>1. u[j] = s[j]
    BY <1>0, <1>2, <1>6
  <2> QED BY <1>4, <1>5, <1>6, <2>1 DEF Ordered
<1>7. CASE j \notin DOMAIN s
  <2>1. u[j] = e
    BY <1>0, <1>2, <1>3, <1>7
  <2>2. u[i] \in Range(s)
    BY <1>5 DEF Range
  <2> QED BY <2>1, <2>2 DEF Before
<1> QED BY <1>6, <1>7

LEMMA OrderedPart ==
  ASSUME NEW s \in Seq(Event), NEW m \in Nat \ {0}, NEW n \in 0 .. Len(s), Ordered(s)
  PROVE  Ordered(SubSeq(s, m, n))
<1>0. Len(s) \in Nat /\ DOMAIN s = 1 .. Len(s)
  BY LenProperties
<1>1. \A i \in m .. n : s[i] \in Event
  BY <1>0
<1>2. PICK u : u = SubSeq(s, m, n)
  OBVIOUS
<1>3. n \in Int /\ m \in Int
  BY <1>0
<1>4. u \in Seq(Event) /\ Len(u) = (IF m <= n THEN n - m + 1 ELSE 0)
      /\ \A i \in 1 .. n - m + 1 : u[i] = s[m + i - 1]
  BY <1>1, <1>2, <1>3, SubSeqProperties
<1>5. DOMAIN u = 1 .. n - m + 1
  <2>1. DOMAIN u = 1 .. Len(u)
    BY <1>4, LenProperties
  <2> QED BY <1>3, <1>4, <2>1
<1>6. SUFFICES ASSUME NEW i \in DOMAIN u, NEW j \in DOMAIN u, i < j PROVE u[i].n < u[j].n
  BY <1>2 DEF Ordered
<1>7. m + i - 1 \in DOMAIN s /\ m + j - 1 \in DOMAIN s /\ m + i - 1 < m + j - 1
  BY <1>0, <1>3, <1>5, <1>6
<1>8. u[i] = s[m + i - 1] /\ u[j] = s[m + j - 1]
  BY <1>4, <1>5
<1> QED BY <1>7, <1>8 DEF Ordered

\* Among ordered events, being the same event, having the same number and
\* standing at the same place are one thing.
LEMMA OrderedPlaces ==
  ASSUME NEW s \in Seq(Event), Ordered(s)
  PROVE  \A i, j \in DOMAIN s : s[i].n < s[j].n <=> i < j
<1>a. Len(s) \in Nat /\ DOMAIN s = 1 .. Len(s) /\ \A i \in DOMAIN s : s[i] \in Event
  BY LenProperties
<1>0. Len(s) \in Nat /\ DOMAIN s = 1 .. Len(s) /\ \A i \in DOMAIN s : s[i].n \in Nat
  BY <1>a, EventFields
<1> SUFFICES ASSUME NEW i \in DOMAIN s, NEW j \in DOMAIN s PROVE s[i].n < s[j].n <=> i < j
  OBVIOUS
<1>1. CASE i < j
  BY <1>1 DEF Ordered
<1>2. CASE i = j
  BY <1>0, <1>2
<1>3. CASE j < i
  <2>1. s[j].n < s[i].n
    BY <1>3 DEF Ordered
  <2> QED BY <1>0, <1>3, <2>1
<1> QED BY <1>0, <1>1, <1>2, <1>3

LEMMA OrderedAreDistinct ==
  ASSUME NEW s \in Seq(Event), Ordered(s)
  PROVE  Cardinality(Range(s)) = Len(s)
<1>0. Len(s) \in Nat /\ DOMAIN s = 1 .. Len(s) /\ s \in [1 .. Len(s) -> Event]
  BY LenProperties
<1>1. PICK n : n = Len(s)
  OBVIOUS
<1>2. PICK R : R = Range(s)
  OBVIOUS
<1>3. s \in Surjection(1 .. n, R)
  BY <1>0, <1>1, <1>2 DEF Range, Surjection
<1>4. \A i \in DOMAIN s : s[i].n \in Nat
  BY EventFields
<1>5. \A i, j \in DOMAIN s : s[i] = s[j] => i = j
  BY <1>0, <1>4, OrderedPlaces
<1>6. s \in Injection(1 .. n, R)
  BY <1>0, <1>1, <1>3, <1>5 DEF Injection, Surjection, IsInjective
<1>7. n \in Nat /\ IsFiniteSet(1 .. n) /\ Cardinality(1 .. n) = n
  <2>1. n \in Nat
    BY <1>0, <1>1
  <2> QED BY <2>1, FS_Interval
<1>8. Cardinality(R) = Cardinality(1 .. n)
  BY <1>3, <1>6, <1>7, FS_Surjection
<1> QED BY <1>1, <1>2, <1>7, <1>8

\* What is read back keeps the file's order and lacks only what memory knows.
ReadInOrder(r, s, n, known) ==
  /\ r \in Seq(Event) /\ Ordered(r)
  /\ \A x \in Range(r) : x.id \notin known /\ \E j \in 1 .. n : x = s[j]
  /\ \A j \in 1 .. n : s[j].id \notin known => s[j] \in Range(r)

LEMMA ReadsInOrder ==
  ASSUME NEW s \in Seq(Event), Ordered(s), NEW known, NEW g, Reads(g, Len(s), s, known)
  PROVE  \A n \in 0 .. Len(s) : ReadInOrder(g[n], s, n, known)
<1>0. Len(s) \in Nat /\ DOMAIN s = 1 .. Len(s) /\ \A j \in DOMAIN s : s[j] \in Event
  BY LenProperties
<1>1. \A n \in 0 .. Len(s) :
        g[n] = IF n = 0 THEN <<>>
               ELSE IF s[n].id \in known THEN g[n - 1] ELSE Append(g[n - 1], s[n])
  BY DEF Reads
<1>2. PICK Bad : Bad = {n \in 0 .. Len(s) : ~ReadInOrder(g[n], s, n, known)}
  OBVIOUS
<1>3. Bad = {}
  <2> SUFFICES ASSUME Bad # {} PROVE FALSE
    OBVIOUS
  <2>0. Bad \in SUBSET Nat
    BY <1>0, <1>2
  <2>1. PICK n \in Bad : \A m \in Bad : n <= m
    BY <2>0, LeastNatural
  <2>2. n # 0
    <3>1. g[0] = <<>>
      BY <1>0, <1>1
    <3>2. g[0] \in Seq(Event) /\ DOMAIN g[0] = {}
      BY <3>1, EmptySeq
    <3>3. Ordered(g[0]) /\ Range(g[0]) = {}
      BY <3>2 DEF Ordered, Range
    <3>4. ReadInOrder(g[0], s, 0, known)
      BY <3>2, <3>3 DEF ReadInOrder
    <3> QED BY <1>2, <3>4
  <2>3. n \in 1 .. Len(s) /\ n - 1 \in 0 .. Len(s) /\ n - 1 \notin Bad
    BY <1>0, <1>2, <2>1, <2>2
  <2>4. PICK t : t = g[n - 1]
    OBVIOUS
  <2>5. ReadInOrder(t, s, n - 1, known)
    BY <1>2, <2>3, <2>4
  <2>a. n \in DOMAIN s /\ s[n] \in Event /\ n \in Nat /\ 1 .. n = 1 .. (n - 1) \cup {n}
    BY <1>0, <2>3
  <2>6. CASE s[n].id \in known
    <3>1. g[n] = t
      BY <1>0, <1>1, <2>2, <2>3, <2>4, <2>6
    <3>2. ReadInOrder(t, s, n, known)
      BY <2>5, <2>6, <2>a DEF ReadInOrder
    <3> QED BY <1>2, <3>1, <3>2
  <2>7. CASE s[n].id \notin known
    <3>1. PICK u : u = Append(t, s[n])
      OBVIOUS
    <3>2. g[n] = u
      <4>1. g[n] = IF n = 0 THEN <<>>
                   ELSE IF s[n].id \in known THEN g[n - 1] ELSE Append(g[n - 1], s[n])
        BY <1>1, <2>3
      <4> QED BY <4>1, <2>2, <2>4, <2>7, <3>1
    <3>3. t \in Seq(Event) /\ Ordered(t)
      BY <2>5 DEF ReadInOrder
    <3>4. u \in Seq(Event) /\ Range(u) = Range(t) \cup {s[n]}
      BY <2>a, <3>1, <3>3, HeldByAppend
    <3>5. Before(Range(t), {s[n]})
      <4> SUFFICES ASSUME NEW x \in Range(t) PROVE x.n < s[n].n
        BY DEF Before
      <4>1. PICK j \in 1 .. n - 1 : x = s[j]
        BY <2>5 DEF ReadInOrder
      <4>2. j \in DOMAIN s /\ j < n
        BY <1>0, <2>a, <4>1
      <4> QED BY <2>a, <4>1, <4>2 DEF Ordered
    <3>6. Ordered(u)
      BY <2>a, <3>1, <3>3, <3>5, OrderedAppend
    <3>7. \A x \in Range(u) : x.id \notin known /\ \E j \in 1 .. n : x = s[j]
      BY <2>5, <2>7, <2>a, <3>4 DEF ReadInOrder
    <3>8. \A j \in 1 .. n : s[j].id \notin known => s[j] \in Range(u)
      BY <2>5, <2>a, <3>4 DEF ReadInOrder
    <3>9. ReadInOrder(u, s, n, known)
      BY <3>4, <3>6, <3>7, <3>8 DEF ReadInOrder
    <3> QED BY <1>2, <3>2, <3>9
  <2> QED BY <2>6, <2>7
<1> QED BY <1>2, <1>3

LEMMA RestoredInOrder ==
  ASSUME file \in Seq(Event), Ordered(file)
  PROVE  ReadInOrder(Restored, file, Len(file), Ids(events))
<1>1. PICK n : n = Len(file)
  OBVIOUS
<1>2. n \in Nat
  BY <1>1, LenProperties
<1>3. PICK known : known = Ids(events)
  OBVIOUS
<1>4. \E h : Reads(h, n, file, known)
  BY <1>2, ReadsExist
<1>5. PICK g : g = CHOOSE h : Reads(h, n, file, known)
  OBVIOUS
<1>6. Reads(g, n, file, known)
  BY <1>4, <1>5
<1>7. Restored = g[n]
  BY <1>1, <1>3, <1>5 DEF Restored, Reads
<1>8. n \in 0 .. n
  BY <1>2
<1>9. ReadInOrder(g[n], file, n, known)
  BY <1>1, <1>6, <1>8, ReadsInOrder
<1> QED BY <1>1, <1>3, <1>7, <1>9

LEMMA AppendedInOrder ==
  ASSUME file \in Seq(Event), NEW lines \in Seq(Event), NEW k \in 0 .. Len(lines),
         Ordered(file), Ordered(lines), Before(Range(file), Range(lines))
  PROVE  Ordered(Appended(lines, k))
<1>0. Len(lines) \in Nat /\ DOMAIN lines = 1 .. Len(lines)
  BY LenProperties
<1>1. PICK m \in {1, 2} : Appended(lines, k) = file \o SubSeq(lines, m, k)
  BY DEF Appended
<1>2. PICK t : t = SubSeq(lines, m, k)
  OBVIOUS
<1>3. m \in Nat \ {0}
  OBVIOUS
<1>4. t \in Seq(Event) /\ Range(t) = {lines[i] : i \in m .. k}
  BY <1>2, <1>3, HeldByPart
<1>5. Ordered(t)
  BY <1>2, <1>3, OrderedPart
<1>6. Range(t) \subseteq Range(lines)
  <2>1. \A x \in Range(t) : \E i \in DOMAIN lines : x = lines[i]
    BY <1>0, <1>4
  <2> QED BY <2>1 DEF Range
<1>7. Before(Range(file), Range(t))
  BY <1>6 DEF Before
<1>8. Ordered(file \o t)
  BY <1>4, <1>5, <1>7, OrderedConcat
<1> QED BY <1>1, <1>2, <1>8

\* The log in memory is the record of what happened, in the order it happened;
\* file and buffer tell the same, in the same order.  What the file holds and
\* memory does not is older than everything in memory until the journal has been
\* read back; then memory knows another event by its id.
Orders ==
  /\ Ordered(events) /\ Ordered(file) /\ Ordered(buffer)
  /\ Before(Range(file), Range(buffer))
  /\ \A x \in Range(events) \cup Range(file) \cup Range(buffer) : x.n <= serial

Untold ==
  \A x \in Range(file) \ Range(events) :
    /\ pending => \A e \in Range(events) : x.n < e.n
    /\ ~pending => \E e \in Range(events) : e.id = x.id

Mirror ==
  /\ Orders
  /\ Range(buffer) \subseteq Range(events)
  /\ alive => Untold
  /\ ~alive => status = "none" /\ events = <<>> /\ buffer = <<>>
  /\ meta = NoMeta => file = <<>>
  /\ alive /\ status # "none" => meta # NoMeta

LEMMA MirrorStands ==
  ASSUME Mirror, alive, alive', status # "none", meta' # NoMeta,
         UNCHANGED <<events, buffer, file, pending, serial>>
  PROVE  Mirror'
BY DEF Mirror, Orders, Untold, Ordered, Before, Range

\* Nothing is in an empty sequence.
LEMMA EmptyOrdered ==
  Ordered(<<>>) /\ Range(<<>>) = {} /\ \A S : Before(S, Range(<<>>)) /\ Before(Range(<<>>), S)
<1>1. DOMAIN <<>> = {}
  BY EmptySeq
<1>2. Range(<<>>) = {}
  BY <1>1 DEF Range
<1> QED BY <1>1, <1>2 DEF Ordered, Before

LEMMA FlushInOrder ==
  ASSUME file \in Seq(Event), torn \in BOOLEAN, NEW lines \in Seq(Event), Flush(lines),
         Ordered(file), Ordered(lines), Before(Range(file), Range(lines))
  PROVE  /\ Ordered(file') /\ Ordered(buffer') /\ Range(buffer') = {}
         /\ Before(Range(file'), Range(buffer'))
<1>1. PICK k : k = Len(lines)
  OBVIOUS
<1>2. k \in 0 .. Len(lines)
  BY <1>1, LenProperties
<1>3. PICK f : f = Appended(lines, k)
  OBVIOUS
<1>4. Ordered(f)
  BY <1>2, <1>3, AppendedInOrder
<1>5. file' = f /\ buffer' = <<>>
  BY <1>1, <1>3 DEF Flush
<1>6. Ordered(file')
  BY <1>4, <1>5 DEF Ordered
<1>7. PICK b : b = <<>>
  OBVIOUS
<1>8. Ordered(b) /\ Range(b) = {}
  BY <1>7, EmptyOrdered
<1>9. Ordered(buffer') /\ Range(buffer') = {}
  BY <1>5, <1>7, <1>8 DEF Ordered, Range
<1> QED BY <1>6, <1>9 DEF Before

LEMMA RecordOrders ==
  ASSUME Types, Orders, NEW e \in Event, e.n = serial + 1, Record(e)
  PROVE  Orders' /\ Range(buffer') \subseteq Range(buffer) \cup {e}
<1>1. /\ events \in Seq(Event) /\ buffer \in Seq(Event) /\ file \in Seq(Event)
      /\ torn \in BOOLEAN /\ serial \in Nat
  BY DEF Types
<1>2. /\ Range(events') = Range(events) \cup {e}
      /\ Range(file') \subseteq Range(file) \cup Range(buffer) \cup {e}
  BY RecordWrites
<1>3. /\ Ordered(events) /\ Ordered(file) /\ Ordered(buffer)
      /\ Before(Range(file), Range(buffer))
      /\ \A x \in Range(events) \cup Range(file) \cup Range(buffer) : x.n <= serial
  BY DEF Orders
<1>4. \A x \in Range(events) \cup Range(file) \cup Range(buffer) : x \in Event /\ x.n \in Nat
  BY <1>1, EventFields DEF Range
<1>5. \A x \in Range(events) \cup Range(file) \cup Range(buffer) : x.n < e.n
  BY <1>1, <1>3, <1>4
<1>6. PICK s : s = Append(events, e)
  OBVIOUS
<1>7. Ordered(s) /\ events' = s
  <2>1. Before(Range(events), {e})
    BY <1>5 DEF Before
  <2> QED BY <1>1, <1>3, <1>6, <2>1, OrderedAppend DEF Record
<1>8. PICK b : b = Append(buffer, e)
  OBVIOUS
<1>9. b \in Seq(Event) /\ Range(b) = Range(buffer) \cup {e}
  BY <1>1, <1>8, HeldByAppend
<1>10. Ordered(b) /\ Before(Range(file), Range(b))
  <2>1. Before(Range(buffer), {e})
    BY <1>5 DEF Before
  <2>2. Ordered(b)
    BY <1>1, <1>3, <1>8, <2>1, OrderedAppend
  <2>3. Before(Range(file), Range(b))
    BY <1>3, <1>5, <1>9 DEF Before
  <2> QED BY <2>2, <2>3
<1>11. /\ Ordered(file') /\ Ordered(buffer') /\ Range(buffer') \subseteq Range(b)
       /\ Before(Range(file'), Range(buffer'))
  <2>1. CASE Flushes(e)
    <3>1. Flush(b)
      BY <1>8, <2>1 DEF Record
    <3> QED BY <1>1, <1>3, <1>9, <1>10, <3>1, FlushInOrder
  <2>2. CASE ~Flushes(e)
    <3>1. buffer' = b /\ file' = file
      BY <1>8, <2>2 DEF Record, Buffered
    <3>2. Ordered(buffer') /\ Ordered(file')
      BY <1>3, <1>10, <3>1 DEF Ordered
    <3>3. Range(buffer') = Range(b) /\ Range(file') = Range(file)
      BY <3>1
    <3> QED BY <1>10, <3>2, <3>3
  <2> QED BY <2>1, <2>2
<1>12. serial' = serial + 1
  BY DEF Record, Count
<1>13. \A x \in Range(events') \cup Range(file') \cup Range(buffer') : x.n <= serial'
  BY <1>1, <1>2, <1>3, <1>4, <1>9, <1>11, <1>12
<1>14. Ordered(events')
  BY <1>7 DEF Ordered
<1> QED BY <1>9, <1>11, <1>13, <1>14 DEF Orders

LEMMA RecordMirrors ==
  ASSUME LogInv, Mirror, NEW e \in Event, e.type = "mutation" => e.path \in Paths,
         e.n = serial + 1, Record(e), alive, alive', status \in Statuses,
         status' # "none", pending' = pending
  PROVE  Mirror'
<1>1. Types /\ mutations = meta.mutations
  BY DEF LogInv, Journal, Life
<1>2. Orders' /\ Range(buffer') \subseteq Range(buffer) \cup {e}
  BY <1>1, RecordOrders DEF Mirror
<1>3. /\ Range(events') = Range(events) \cup {e}
      /\ Range(file') \subseteq Range(file) \cup Range(buffer) \cup {e}
  BY <1>1, RecordWrites
<1>4. Range(buffer') \subseteq Range(events')
  BY <1>2, <1>3 DEF Mirror
<1>5. \A x \in Range(file) : x.n < e.n
  <2>1. \A x \in Range(file) : x \in Event /\ x.n \in Nat /\ x.n <= serial
    BY <1>1, EventFields DEF Types, Range, Mirror, Orders
  <2> QED BY <1>1, <2>1 DEF Types
<1>6. Untold'
  <2> SUFFICES ASSUME NEW x \in Range(file') \ Range(events')
               PROVE  /\ pending' => \A d \in Range(events') : x.n < d.n
                      /\ ~pending' => \E d \in Range(events') : d.id = x.id
    BY DEF Untold
  <2>1. x \in Range(file) \ Range(events)
    BY <1>3 DEF Mirror
  <2>2. /\ pending => \A d \in Range(events) : x.n < d.n
        /\ ~pending => \E d \in Range(events) : d.id = x.id
    BY <2>1 DEF Mirror, Untold
  <2>3. x.n < e.n
    BY <1>5, <2>1
  <2> QED BY <1>3, <2>2, <2>3
<1>7. meta # NoMeta /\ meta' # NoMeta
  <2>1. meta # NoMeta
    BY DEF Mirror, Statuses
  <2>2. meta' = meta \/ meta'.status = status
    BY <1>1, RecordSummarises
  <2> QED BY <2>1, <2>2 DEF Statuses, NoMeta
<1> QED BY <1>2, <1>4, <1>6, <1>7 DEF Mirror

LEMMA EmitsMirrors ==
  ASSUME LogInv, Mirror, NEW from \in Steps \ {"idle"}, NEW to, NEW t \in StoredTypes,
         NEW p \in Paths \cup {NoPath}, t = "mutation" => p \in Paths, Emits(from, to, Stamp(t, p))
  PROVE  Mirror'
<1>1. PICK e : e = Stamp(t, p)
  OBVIOUS
<1>2. nextId \in Nat \ {0} /\ serial \in Nat
  BY DEF LogInv, Journal, Types
<1>3. e \in Event /\ e.type = t /\ e.path = p /\ e.n = serial + 1
  BY <1>1, <1>2, StampIsEvent
<1>4. Emits(from, to, e)
  BY <1>1
<1>5. /\ alive /\ alive' /\ status = "running" /\ status' = status /\ Record(e)
      /\ pending' = pending
  BY <1>4 DEF Emits, LogInv, Life
<1>6. status \in Statuses /\ status' # "none"
  BY <1>5 DEF Statuses
<1> QED BY <1>3, <1>5, <1>6, RecordMirrors

LEMMA WorkMirrors ==
  ASSUME LogInv, Mirror, Work \/ RecordError \/ RecordFinish \/ RecordMetrics \/ RecordEnd
  PROVE  Mirror'
<1>1. PICK from \in Steps \ {"idle"}, to \in Steps, t \in StoredTypes, p \in Paths \cup {NoPath} :
        (t = "mutation" => p \in Paths) /\ Emits(from, to, Stamp(t, p))
  <2>1. CASE Work
    BY <2>1 DEF Work, Steps, StoredTypes
  <2>2. CASE RecordError
    BY <2>2 DEF RecordError, Steps, StoredTypes
  <2>3. CASE RecordFinish
    BY <2>3 DEF RecordFinish, Steps, StoredTypes
  <2>4. CASE RecordMetrics
    BY <2>4 DEF RecordMetrics, Steps, StoredTypes
  <2>5. CASE RecordEnd
    BY <2>5 DEF RecordEnd, Steps, StoredTypes
  <2> QED BY <2>1, <2>2, <2>3, <2>4, <2>5
<1> QED BY <1>1, EmitsMirrors

LEMMA FollowUpMirrors == ASSUME LogInv, Mirror, FollowUp PROVE Mirror'
<1>1. PICK e : e = Stamp("user", NoPath)
  OBVIOUS
<1>2. nextId \in Nat \ {0} /\ serial \in Nat
  BY DEF LogInv, Journal, Types
<1>3. e \in Event /\ e.type = "user" /\ e.n = serial + 1
  BY <1>1, <1>2, StampIsEvent DEF StoredTypes
<1>4. /\ alive /\ alive' /\ status \in Statuses /\ status' = "running" /\ Record(e)
      /\ pending' = pending
  BY <1>1 DEF FollowUp
<1> QED BY <1>3, <1>4, RecordMirrors

LEMMA SettleMirrors == ASSUME LogInv, Mirror, Settle PROVE Mirror'
<1>1. /\ alive /\ alive' /\ status = "running" /\ status' = outcome /\ outcome \in {"done", "error"}
      /\ UNCHANGED <<events, pending, serial>>
  BY DEF LogInv, Life, Settle
<1>2. Types /\ Orders /\ meta # NoMeta
  BY <1>1 DEF LogInv, Journal, Mirror
<1>3. CASE outcome = "error"
  <2>1. UNCHANGED <<buffer, file, meta>>
    BY <1>3 DEF Settle
  <2> QED BY <1>1, <1>2, <2>1, MirrorStands
<1>4. CASE outcome # "error"
  <2>1. Flush(buffer) /\ meta' = Summary(outcome, mutations)
    BY <1>4 DEF Settle
  <2>2. Range(file') \subseteq Range(file) \cup Range(buffer)
    BY <1>2, <2>1, FlushDoes DEF Types
  <2>3. /\ Ordered(file') /\ Ordered(buffer') /\ Range(buffer') = {}
        /\ Before(Range(file'), Range(buffer'))
    BY <1>2, <2>1, FlushInOrder DEF Types, Orders
  <2>4. Orders'
    BY <1>1, <1>2, <2>2, <2>3 DEF Orders, Ordered, Range
  <2>5. meta' # NoMeta /\ status' # "none"
    BY <1>1, <2>1 DEF Summary, NoMeta
  <2>6. Range(events') = Range(events)
    BY <1>1
  <2>7. Untold'
    <3>1. Range(file') \ Range(events') \subseteq Range(file) \ Range(events)
      BY <2>2, <2>6 DEF Mirror
    <3> QED BY <1>1, <2>6, <3>1 DEF Untold, Mirror
  <2> QED BY <1>1, <2>3, <2>4, <2>5, <2>7 DEF Mirror
<1> QED BY <1>3, <1>4

LEMMA RelayQuotaMirrors == ASSUME LogInv, Mirror, RelayQuota PROVE Mirror'
<1>1. /\ alive /\ alive' /\ status # "none"
      /\ UNCHANGED <<events, buffer, file, pending, serial, meta>>
  BY DEF LogInv, Life, RelayQuota
<1>2. meta' # NoMeta
  BY <1>1 DEF Mirror
<1> QED BY <1>1, <1>2, MirrorStands

LEMMA StartMirrors == ASSUME LogInv, Mirror, Start PROVE Mirror'
<1>1. PICK e : e = Stamp("user", NoPath)
  OBVIOUS
<1>2. PICK b : b = <<e>>
  OBVIOUS
<1>3. /\ alive /\ alive' /\ status = "none" /\ status' = "running"
      /\ events' = b /\ serial' = serial + 1
      /\ IF FlushAt = 1 THEN Flush(b) ELSE Buffered(b)
      /\ meta' = Summary("running", {})
  BY <1>1, <1>2 DEF Start, Count, LogInv, Life
<1>4. Types /\ serial \in Nat
  BY DEF LogInv, Journal, Types
<1>5. e \in Event /\ e.n = serial + 1
  BY <1>1, <1>4, StampIsEvent DEF StoredTypes, Types
<1>6. b \in Seq(Event) /\ Len(b) = 1 /\ DOMAIN b = {1} /\ Range(b) = {e}
  BY <1>2, <1>5, OneEvent
<1>7. Ordered(b)
  BY <1>6 DEF Ordered
<1>8. file = <<>> /\ Ordered(file) /\ Range(file) = {}
  <2>1. file = <<>>
    BY <1>3 DEF LogInv, Life, Mirror
  <2> QED BY <2>1, EmptyOrdered
<1>9. Before(Range(file), Range(b))
  BY <1>8 DEF Before
<1>10. /\ Ordered(file') /\ Ordered(buffer') /\ Range(buffer') \subseteq {e}
       /\ Before(Range(file'), Range(buffer')) /\ Range(file') \subseteq {e}
  <2>1. CASE FlushAt = 1
    <3>1. Flush(b)
      BY <1>3, <2>1
    <3>2. Range(file') \subseteq Range(file) \cup Range(b)
      BY <1>4, <1>6, <3>1, FlushDoes DEF Types
    <3>3. /\ Ordered(file') /\ Ordered(buffer') /\ Range(buffer') = {}
          /\ Before(Range(file'), Range(buffer'))
      BY <1>4, <1>6, <1>7, <1>8, <1>9, <3>1, FlushInOrder DEF Types
    <3> QED BY <1>6, <1>8, <3>2, <3>3
  <2>2. CASE FlushAt # 1
    <3>1. buffer' = b /\ file' = file
      BY <1>3, <2>2 DEF Buffered
    <3>2. Range(buffer') = {e} /\ Range(file') = {}
      BY <1>6, <1>8, <3>1
    <3>3. Ordered(file') /\ Ordered(buffer')
      BY <1>7, <1>8, <3>1 DEF Ordered
    <3> QED BY <3>2, <3>3 DEF Before
  <2> QED BY <2>1, <2>2
<1>11. Range(events') = {e} /\ Ordered(events')
  BY <1>3, <1>6, <1>7 DEF Ordered
<1>12. Orders'
  BY <1>3, <1>4, <1>5, <1>10, <1>11 DEF Orders
<1>13. Untold'
  BY <1>10, <1>11 DEF Untold
<1>14. meta' # NoMeta
  BY <1>3 DEF Summary, NoMeta
<1> QED BY <1>3, <1>10, <1>11, <1>12, <1>13, <1>14 DEF Mirror

LEMMA HydrateMirrors == ASSUME LogInv, Mirror, Hydrate PROVE Mirror'
<1>1. Types /\ Orders
  BY DEF LogInv, Journal, Mirror
<1>2. alive /\ pending /\ pending' = FALSE
      /\ UNCHANGED <<alive, status, buffer, file, meta, serial>>
  BY DEF Hydrate
<1>3. PICK r : r = Restored
  OBVIOUS
<1>4. PICK n \in Nat : n = Len(file) /\ DOMAIN file = 1 .. n
  BY <1>1, LenProperties DEF Types
<1>5. ReadInOrder(r, file, n, Ids(events))
  BY <1>1, <1>3, <1>4, RestoredInOrder DEF Types, Orders
<1>6. /\ r \in Seq(Event) /\ Ordered(r)
      /\ \A x \in Range(r) : x.id \notin Ids(events) /\ x \in Range(file)
      /\ \A x \in Range(file) : x.id \notin Ids(events) => x \in Range(r)
  BY <1>4, <1>5 DEF ReadInOrder, Range
<1>7. \A x \in Range(r) : x \notin Range(events)
  BY <1>6 DEF Ids, Range
<1>8. Before(Range(r), Range(events))
  BY <1>2, <1>6, <1>7 DEF Mirror, Untold, Before
<1>9. PICK s : s = r \o events
  OBVIOUS
<1>10. s \in Seq(Event) /\ Range(s) = Range(r) \cup Range(events) /\ Ordered(s)
  BY <1>1, <1>6, <1>8, <1>9, HeldByConcat, OrderedConcat DEF Types, Orders
<1>11. events' = s
  BY <1>3, <1>9 DEF Hydrate
<1>12. Range(events') = Range(r) \cup Range(events) /\ Ordered(events')
  BY <1>10, <1>11 DEF Ordered
<1>13. Range(file') = Range(file) /\ Range(buffer') = Range(buffer)
       /\ Ordered(file') /\ Ordered(buffer')
  BY <1>1, <1>2 DEF Orders, Ordered
<1>14. Orders'
  BY <1>1, <1>2, <1>6, <1>12, <1>13 DEF Orders
<1>15. Untold'
  <2> SUFFICES ASSUME NEW x \in Range(file) \ Range(events')
               PROVE  \E e \in Range(events') : e.id = x.id
    BY <1>2, <1>13 DEF Untold
  <2>1. x.id \in Ids(events)
    BY <1>6, <1>12
  <2>2. PICK i \in DOMAIN events : events[i].id = x.id
    BY <2>1 DEF Ids
  <2>3. events[i] \in Range(events)
    BY DEF Range
  <2> QED BY <1>12, <2>2, <2>3
<1> QED BY <1>2, <1>12, <1>13, <1>14, <1>15 DEF Mirror

LEMMA KilledMirrors ==
  ASSUME LogInv, Mirror, Killed, meta' = meta, meta' = NoMeta => file' = <<>>,
         Ordered(file'), \A x \in Range(file') : x.n <= serial'
  PROVE  Mirror'
<1>1. alive' = FALSE /\ status' = "none" /\ events' = <<>> /\ buffer' = <<>>
  BY DEF Killed
<1>2. PICK b : b = <<>>
  OBVIOUS
<1>3. Ordered(b) /\ Range(b) = {}
  BY <1>2, EmptyOrdered
<1>4. /\ Ordered(events') /\ Range(events') = {}
      /\ Ordered(buffer') /\ Range(buffer') = {}
  BY <1>1, <1>2, <1>3 DEF Ordered, Range
<1>5. Orders'
  BY <1>4 DEF Orders, Before
<1> QED BY <1>1, <1>4, <1>5 DEF Mirror

LEMMA CrashMirrors == ASSUME LogInv, Mirror, Crash PROVE Mirror'
<1>1. Killed /\ meta' = meta /\ file' = file /\ serial' = serial
  BY DEF Crash
<1>2. Ordered(file') /\ Range(file') = Range(file)
  BY <1>1 DEF Mirror, Orders, Ordered
<1>3. \A x \in Range(file') : x.n <= serial'
  BY <1>1, <1>2 DEF Mirror, Orders
<1>4. meta' = NoMeta => file' = <<>>
  BY <1>1 DEF Mirror
<1> QED BY <1>1, <1>2, <1>3, <1>4, KilledMirrors

LEMMA CrashInFlushMirrors == ASSUME LogInv, Mirror, CrashInFlush PROVE Mirror'
<1>1. Types /\ Orders /\ serial \in Nat
  BY DEF LogInv, Journal, Types, Mirror
<1>2. PICK e \in {Stamp("work", NoPath), Stamp("finish", NoPath), Stamp("end", NoPath)}
                    \cup {Stamp("mutation", p) : p \in Paths} :
        \E k \in 0 .. Len(buffer) + 1 : file' = Appended(Append(buffer, e), k)
  BY DEF CrashInFlush
<1>3. e \in Event /\ e.n = serial + 1
  <2>1. nextId \in Nat \ {0} /\ serial \in Nat
    BY <1>1 DEF Types
  <2>2. \A t \in {"work", "finish", "end"} :
          Stamp(t, NoPath) \in Event /\ Stamp(t, NoPath).n = serial + 1
    BY <2>1, StampIsEvent DEF StoredTypes
  <2>3. \A p \in Paths : Stamp("mutation", p) \in Event /\ Stamp("mutation", p).n = serial + 1
    BY <2>1, StampIsEvent DEF StoredTypes
  <2> QED BY <1>2, <2>2, <2>3
<1>4. PICK b : b = Append(buffer, e)
  OBVIOUS
<1>5. b \in Seq(Event) /\ Len(b) = Len(buffer) + 1 /\ Range(b) = Range(buffer) \cup {e}
  BY <1>1, <1>3, <1>4, HeldByAppend DEF Types
<1>6. PICK k \in 0 .. Len(b) : file' = Appended(b, k)
  BY <1>2, <1>4, <1>5
<1>7. PICK f : f = Appended(b, k)
  OBVIOUS
<1>8. f \in Seq(Event) /\ Range(f) \subseteq Range(file) \cup Range(b)
  BY <1>1, <1>5, <1>7, AppendedHolds DEF Types
<1>9. \A x \in Range(file) \cup Range(buffer) : x \in Event /\ x.n \in Nat /\ x.n <= serial
  BY <1>1, EventFields DEF Types, Range, Orders
<1>10. Before(Range(buffer), {e}) /\ Before(Range(file), {e})
  BY <1>1, <1>3, <1>9 DEF Before
<1>11. Ordered(b) /\ Before(Range(file), Range(b))
  <2>1. Ordered(b)
    BY <1>1, <1>3, <1>4, <1>10, OrderedAppend DEF Types, Orders
  <2> QED BY <1>1, <1>5, <1>10, <2>1 DEF Orders, Before
<1>12. Ordered(f)
  BY <1>1, <1>5, <1>7, <1>11, AppendedInOrder DEF Types, Orders
<1>13. file' = f /\ Range(file') = Range(f)
  BY <1>6, <1>7
<1>14. Ordered(file')
  BY <1>12, <1>13 DEF Ordered
<1>15. Killed /\ meta' = meta /\ serial' = serial + 1
  BY DEF CrashInFlush, Count
<1>16. \A x \in Range(file') : x.n <= serial'
  BY <1>1, <1>3, <1>5, <1>8, <1>9, <1>13, <1>15
<1>17. meta' # NoMeta
  <2>1. alive /\ status # "none"
    BY DEF CrashInFlush, LogInv, Life
  <2> QED BY <1>15, <2>1 DEF Mirror
<1> QED BY <1>14, <1>15, <1>16, <1>17, KilledMirrors

LEMMA RestartMirrors == ASSUME LogInv, Mirror, Restart PROVE Mirror'
<1>1. /\ ~alive /\ alive' = TRUE
      /\ UNCHANGED <<events, buffer, file, meta, serial>>
  BY DEF Restart
<1>2. status = "none" /\ events = <<>> /\ Range(events) = {}
  BY <1>1, EmptyOrdered DEF Mirror
<1>3. Orders'
  BY <1>1 DEF Mirror, Orders, Ordered, Before, Range
<1>4. CASE meta = NoMeta
  <2>1. file = <<>> /\ Range(file) = {}
    BY <1>4, EmptyOrdered DEF Mirror
  <2>2. status' = status
    BY <1>4 DEF Restart
  <2>3. Range(file') = {}
    BY <1>1, <2>1
  <2>4. Untold'
    BY <2>3 DEF Untold
  <2> QED BY <1>1, <1>2, <1>3, <2>1, <2>2, <2>4 DEF Mirror, Range
<1>5. CASE meta # NoMeta
  <2>1. pending' = TRUE
    BY <1>5 DEF Restart
  <2>2. Range(events') = {}
    BY <1>1, <1>2
  <2>3. Untold'
    BY <2>1, <2>2 DEF Untold
  <2> QED BY <1>1, <1>3, <1>5, <2>3 DEF Mirror, Range
<1> QED BY <1>4, <1>5

LEMMA MirrorStarts == LogInit => Mirror
<1> SUFFICES ASSUME LogInit PROVE Mirror
  OBVIOUS
<1>1. /\ alive = TRUE /\ status = "none" /\ events = <<>> /\ buffer = <<>> /\ file = <<>>
  BY DEF LogInit
<1>2. PICK s : s = <<>>
  OBVIOUS
<1>3. Ordered(s) /\ Range(s) = {}
  BY <1>2, EmptyOrdered
<1>4. events = s /\ buffer = s /\ file = s
  BY <1>1, <1>2
<1> QED BY <1>1, <1>3, <1>4 DEF Mirror, Orders, Untold, Before

LEMMA MirrorNext == LogInv /\ Mirror /\ [LogNext]_logVars => Mirror'
<1> SUFFICES ASSUME LogInv, Mirror, [LogNext]_logVars PROVE Mirror'
  OBVIOUS
<1>1. CASE Start
  BY <1>1, StartMirrors
<1>2. CASE FollowUp
  BY <1>2, FollowUpMirrors
<1>3. CASE Work \/ RecordError \/ RecordFinish \/ RecordMetrics \/ RecordEnd
  BY <1>3, WorkMirrors
<1>4. CASE RelayQuota
  BY <1>4, RelayQuotaMirrors
<1>5. CASE Settle
  BY <1>5, SettleMirrors
<1>6. CASE Hydrate
  BY <1>6, HydrateMirrors
<1>7. CASE Crash
  BY <1>7, CrashMirrors
<1>8. CASE CrashInFlush
  BY <1>8, CrashInFlushMirrors
<1>9. CASE Restart
  BY <1>9, RestartMirrors
<1>10. CASE UNCHANGED logVars
  <2>1. /\ alive' = alive /\ status' = status /\ events' = events /\ pending' = pending
        /\ buffer' = buffer /\ file' = file /\ meta' = meta /\ serial' = serial
    BY <1>10 DEF logVars
  <2>2. Orders'
    BY <2>1 DEF Mirror, Orders, Ordered, Before, Range
  <2>3. alive => Untold'
    BY <2>1 DEF Mirror, Untold, Range
  <2> QED BY <2>1, <2>2, <2>3 DEF Mirror, Range
<1> QED BY <1>1, <1>2, <1>3, <1>4, <1>5, <1>6, <1>7, <1>8, <1>9, <1>10 DEF LogNext

\* When there are as many ids as events, an id names one event.
LEMMA IdsNameEvents ==
  ASSUME NEW s \in Seq(Event), Cardinality(Ids(s)) = Cardinality(Range(s))
  PROVE  \A x, y \in Range(s) : x.id = y.id => x = y
<1>1. PICK R : R = Range(s)
  OBVIOUS
<1>2. PICK I : I = Ids(s)
  OBVIOUS
<1>3. IsFiniteSet(R)
  BY <1>1, HeldIsFinite
<1>4. PICK f : f = [x \in R |-> x.id]
  OBVIOUS
<1>5. f \in [R -> I]
  BY <1>1, <1>2, <1>4 DEF Ids, Range
<1>6. \A d \in I : \E x \in R : f[x] = d
  <2> SUFFICES ASSUME NEW i \in DOMAIN s PROVE \E x \in R : f[x] = s[i].id
    BY <1>2 DEF Ids
  <2>1. s[i] \in R
    BY <1>1 DEF Range
  <2> QED BY <1>4, <2>1
<1>7. f \in Surjection(R, I)
  BY <1>5, <1>6 DEF Surjection, Range
<1>8. f \in Injection(R, I)
  BY <1>1, <1>2, <1>3, <1>7, FS_Surjection
<1>9. \A x, y \in R : f[x] = f[y] => x = y
  BY <1>5, <1>8 DEF Injection, IsInjective
<1> QED BY <1>1, <1>4, <1>9

LEMMA MirrorMirrors == LogInv /\ Mirror => JournalMirrorsLog
<1> SUFFICES ASSUME LogInv, Mirror, alive, ~pending, OneEventPerId
             PROVE  /\ Cardinality(Range(events)) = Len(events)
                    /\ Range(Written) \subseteq Range(events)
                    /\ \A i \in 2 .. Len(Written) : Place(Written[i - 1]) < Place(Written[i])
                    /\ Len(events) <= Len(Written) + Glued
  BY DEF JournalMirrorsLog
<1>1. /\ events \in Seq(Event) /\ buffer \in Seq(Event) /\ file \in Seq(Event)
      /\ Ordered(events) /\ Ordered(file) /\ Ordered(buffer) /\ Before(Range(file), Range(buffer))
  BY DEF LogInv, Journal, Types, Mirror, Orders
<1>2. PICK w : w = Written
  OBVIOUS
<1>3. w \in Seq(Event) /\ Range(w) = Range(file) \cup Range(buffer) /\ Ordered(w)
  BY <1>1, <1>2, HeldByConcat, OrderedConcat DEF Written
<1>4. Len(w) \in Nat /\ DOMAIN w = 1 .. Len(w) /\ Len(events) \in Nat /\ DOMAIN events = 1 .. Len(events)
  BY <1>1, <1>3, LenProperties
<1>5. Cardinality(Range(events)) = Len(events)
  BY <1>1, OrderedAreDistinct
<1>6. Range(w) \subseteq Range(events)
  <2>1. PICK s : s = events \o w
    OBVIOUS
  <2>2. s \in Seq(Event) /\ Range(s) = Range(events) \cup Range(w)
    BY <1>1, <1>3, <2>1, HeldByConcat
  <2>3. Cardinality(Ids(s)) = Cardinality(Range(s))
    BY <1>2, <2>1, <2>2 DEF OneEventPerId
  <2>4. \A x, y \in Range(s) : x.id = y.id => x = y
    BY <2>2, <2>3, IdsNameEvents
  <2>5. \A x \in Range(file) : x \in Range(events)
    <3> SUFFICES ASSUME NEW x \in Range(file) \ Range(events) PROVE FALSE
      OBVIOUS
    <3>1. PICK e \in Range(events) : e.id = x.id
      BY DEF Mirror, Untold
    <3> QED BY <1>3, <2>2, <2>4, <3>1
  <2> QED BY <1>3, <2>5 DEF Mirror
<1>7. \A i \in 2 .. Len(w) : Place(w[i - 1]) < Place(w[i])
  <2> SUFFICES ASSUME NEW i \in 2 .. Len(w) PROVE Place(w[i - 1]) < Place(w[i])
    OBVIOUS
  <2>1. i \in DOMAIN w /\ i - 1 \in DOMAIN w /\ i - 1 < i
    BY <1>4
  <2>2. w[i - 1].n < w[i].n
    BY <1>3, <2>1 DEF Ordered
  <2>3. \A j \in DOMAIN w : Place(w[j]) \in DOMAIN events /\ events[Place(w[j])] = w[j]
    <3> SUFFICES ASSUME NEW j \in DOMAIN w
                 PROVE  Place(w[j]) \in DOMAIN events /\ events[Place(w[j])] = w[j]
      OBVIOUS
    <3>1. w[j] \in Range(events)
      BY <1>6 DEF Range
    <3>2. \E k \in DOMAIN events : events[k] = w[j]
      BY <3>1 DEF Range
    <3> QED BY <3>2 DEF Place
  <2>4. PICK k \in DOMAIN events : k = Place(w[i - 1]) /\ events[k] = w[i - 1]
    BY <2>1, <2>3
  <2>5. PICK l \in DOMAIN events : l = Place(w[i]) /\ events[l] = w[i]
    BY <2>1, <2>3
  <2>6. k < l
    BY <1>1, <2>2, <2>4, <2>5, OrderedPlaces
  <2> QED BY <2>4, <2>5, <2>6
<1>8. Len(events) <= Len(w) + Glued
  <2>1. PICK L : L = Lost
    OBVIOUS
  <2>2. IsFiniteSet(L) /\ Cardinality(L) <= Glued /\ Glued \in Nat /\ Cardinality(L) \in Nat
    BY <2>1, FewAreLost
  <2>3. PICK R : R = Range(w)
    OBVIOUS
  <2>4. IsFiniteSet(R) /\ Cardinality(R) <= Len(w)
    BY <1>3, <2>3, HeldIsFinite
  <2>5. Cardinality(R) \in Nat
    BY <2>4, FS_CardinalityType
  <2>6. Range(events) \subseteq L \cup R
    BY <1>3, <2>1, <2>3 DEF Lost
  <2>7. IsFiniteSet(L \cup R)
        /\ Cardinality(L \cup R) = Cardinality(L) + Cardinality(R) - Cardinality(L \cap R)
    BY <2>2, <2>4, FS_Union
  <2>8. IsFiniteSet(L \cap R)
    BY <2>2, FS_Intersection
  <2>9. Cardinality(L \cap R) \in Nat
    BY <2>8, FS_CardinalityType
  <2>10. Cardinality(Range(events)) <= Cardinality(L \cup R)
    BY <2>6, <2>7, FS_Subset
  <2> QED BY <1>4, <1>5, <2>2, <2>4, <2>5, <2>7, <2>9, <2>10
<1> QED BY <1>2, <1>5, <1>6, <1>7, <1>8

(* While every id names one event, the file and the buffer are the log in memory  *)
(* in the same order, whatever was flushed, cut short, read back or restarted in  *)
(* between (Session.record and Session.hydrate).                                  *)
THEOREM JournalMirrors == LogSpec => []JournalMirrorsLog
<1>1. LogInit => LogInv /\ Mirror
  BY LogStarts, MirrorStarts
<1>2. LogInv /\ Mirror /\ [LogNext]_logVars => LogInv' /\ Mirror'
  BY LogNextKeeps, MirrorNext
<1>3. LogInv /\ Mirror => JournalMirrorsLog
  BY MirrorMirrors
<1> QED BY <1>1, <1>2, <1>3, PTL DEF LogSpec

--------------------------------------------------------------------------------
(* What a window is sent: the invariant *)

\* Positions of the FINISH events that a relayed quota stands before, with the
\* one that is about to be recorded.
Behind == {i \in DOMAIN events : BehindQuota(events[i])}
Quotas == Behind \cup (IF step = "finish" /\ outcome = "done" THEN {nextId} ELSE {})

\* While no daemon dies an event's id is its place in the log.
Numbered ==
  /\ alive = TRUE
  /\ outcome \in {"done", "error"}
  /\ events \in Seq(Event) /\ nextId = Len(events) + 1 /\ serial = Len(events)
  /\ \A i \in DOMAIN events : events[i].id = i /\ events[i].n = i /\ Stored(events[i])
  /\ status = "none" <=> events = <<>>
  /\ step # "idle" => status # "none"
  /\ step = "work" \/ (step = "finish" /\ outcome = "done") =>
       events # <<>> /\ events[Len(events)].type # "error"

LinkTypes ==
  /\ link \in [Clients -> {"down", "replay", "follow"}]
  /\ backlog \in [Clients -> SUBSET Nat]
  /\ queue \in [Clients -> Seq(Event)]
  /\ seen \in [Clients -> Nat] /\ lastId \in [Clients -> Nat]
  /\ watching \in [Clients -> BOOLEAN]
  /\ got \in [Clients -> Seq(Nat)]
  /\ gap \in [Clients -> SUBSET Nat]

\* Up to its cursor a window has every event, or can say why not.
Ingested(c) ==
  /\ lastId[c] \in 0 .. Len(events)
  /\ \A i, j \in DOMAIN got[c] : i < j => got[c][i] < got[c][j]
  /\ \A i \in DOMAIN got[c] : got[c][i] <= lastId[c]
  /\ \A i \in 1 .. lastId[c] : i \in Range(got[c]) \cup gap[c] \cup Behind

Queued(c) ==
  /\ \A i, j \in DOMAIN queue[c] : i < j => queue[c][i].id <= queue[c][j].id
  /\ \A i \in DOMAIN queue[c] :
       /\ queue[c][i].id <= nextId
       /\ Stored(queue[c][i]) => \E k \in DOMAIN events : queue[c][i] = events[k]
       /\ queue[c][i].type = "quota" => queue[c][i].id \in Quotas

\* What is left to replay is a stretch of the log behind the cursor, and what
\* lies behind that was recorded while the replay was being sent.
Replaying(c) ==
  link[c] = "replay" =>
    \E m \in lastId[c] .. Len(events) :
      backlog[c] = lastId[c] + 1 .. m /\ m + 1 .. Len(events) \subseteq gap[c]

\* What the generator has not seen is queued.
Following(c) ==
  link[c] = "follow" =>
    /\ seen[c] \in lastId[c] .. nextId
    /\ lastId[c] + 1 .. seen[c] \subseteq gap[c] \cup Quotas
    /\ \A i \in seen[c] + 1 .. Len(events) : \E j \in DOMAIN queue[c] : queue[c][j] = events[i]

StreamInv ==
  /\ Numbered
  /\ LinkTypes
  /\ \A c \in Clients : Ingested(c) /\ Queued(c) /\ Replaying(c) /\ Following(c)

LEMMA LogLength ==
  ASSUME events \in Seq(Event)
  PROVE  Len(events) \in Nat /\ DOMAIN events = 1 .. Len(events)
         /\ \A i \in DOMAIN events : events[i] \in Event
BY LenProperties

--------------------------------------------------------------------------------
(* Recording an event *)

\* A step of the run that stores an event.
Stores == \/ Start \/ FollowUp
          \/ Work \/ RecordError \/ RecordFinish \/ RecordMetrics \/ RecordEnd

\* e is the event it stores.
Storing(e) ==
  /\ e \in Event /\ Stored(e)
  /\ e.id = nextId /\ e.n = serial + 1
  /\ events' = Append(events, e) /\ nextId' = nextId + 1 /\ serial' = serial + 1

LEMMA EmitsStores ==
  ASSUME Numbered, NEW from \in Steps \ {"idle"}, NEW to \in Steps, NEW t \in StoredTypes,
         NEW p \in Paths \cup {NoPath}, Emits(from, to, Stamp(t, p))
  PROVE  /\ Storing(Stamp(t, p)) /\ Stamp(t, p).type = t
         /\ step = from /\ step' = to
         /\ alive' = alive /\ status' = status /\ status # "none"
<1>1. nextId \in Nat \ {0} /\ serial \in Nat
  BY LogLength DEF Numbered
<1>2. /\ Stamp(t, p) \in Event /\ Stamp(t, p).type = t
      /\ Stamp(t, p).id = nextId /\ Stamp(t, p).n = serial + 1
  BY <1>1, StampIsEvent
<1>3. Stored(Stamp(t, p))
  BY <1>2 DEF Stored
<1>4. /\ events' = Append(events, Stamp(t, p)) /\ nextId' = nextId + 1 /\ serial' = serial + 1
      /\ step = from /\ step' = to /\ alive' = alive /\ status' = status
  BY DEF Emits, Record, Count
<1>5. status # "none"
  BY <1>4 DEF Numbered
<1> QED BY <1>2, <1>3, <1>4, <1>5 DEF Storing

\* What a step stores, and what the step before it allows.
LEMMA StoresOne ==
  ASSUME Numbered, Stores
  PROVE  /\ \E e \in Event :
              /\ Storing(e)
              /\ step = "finish" => e.type = "finish"
              /\ step' = "work" \/ (step' = "finish" /\ outcome' = "done") => e.type # "error"
         /\ alive' = TRUE /\ status' # "none" /\ outcome' \in {"done", "error"}
<1>1. nextId \in Nat \ {0} /\ serial \in Nat
  BY LogLength DEF Numbered
<1>2. CASE Start
  <2>1. PICK e : e = Stamp("user", NoPath)
    OBVIOUS
  <2>2. e \in Event /\ e.type = "user" /\ e.id = nextId /\ e.n = serial + 1
    BY <1>1, <2>1, StampIsEvent DEF StoredTypes
  <2>3. /\ alive' = alive /\ status = "none" /\ status' = "running" /\ outcome' = outcome
        /\ events' = <<e>> /\ serial' = serial + 1 /\ nextId' = 2
    BY <1>2, <2>1 DEF Start, Count
  <2>4. events = <<>> /\ step = "idle"
    BY <2>3 DEF Numbered
  <2>5. Append(events, e) = <<e>> /\ nextId = 1
    <3>1. Len(<<>>) = 0 /\ Append(<<>>, e) = <<e>>
      OBVIOUS
    <3> QED BY <2>4, <3>1 DEF Numbered
  <2>6. Storing(e)
    BY <2>2, <2>3, <2>5 DEF Storing, Stored, StoredTypes
  <2> QED BY <2>2, <2>3, <2>4, <2>6 DEF Numbered
<1>3. CASE FollowUp
  <2>1. PICK e : e = Stamp("user", NoPath)
    OBVIOUS
  <2>2. e \in Event /\ e.type = "user" /\ e.id = nextId /\ e.n = serial + 1
    BY <1>1, <2>1, StampIsEvent DEF StoredTypes
  <2>3. /\ alive' = alive /\ status' = "running" /\ outcome' = outcome /\ step = "idle"
        /\ events' = Append(events, e) /\ nextId' = nextId + 1 /\ serial' = serial + 1
    BY <1>3, <2>1 DEF FollowUp, Record, Count
  <2>4. Storing(e)
    BY <2>2, <2>3 DEF Storing, Stored, StoredTypes
  <2> QED BY <2>2, <2>3, <2>4 DEF Numbered
<1>4. CASE Work \/ RecordError \/ RecordFinish \/ RecordMetrics \/ RecordEnd
  <2>1. PICK from \in Steps \ {"idle"}, to \in Steps, t \in StoredTypes, p \in Paths \cup {NoPath} :
          /\ Emits(from, to, Stamp(t, p))
          /\ outcome' \in {"done", "error"}
          /\ from = "finish" => t = "finish"
          /\ to = "work" => t # "error"
          /\ to = "finish" => outcome' = "error"
    <3>1. CASE Work
      <4>1. outcome' \in {"done", "error"} /\ "work" \in Steps \ {"idle"}
            /\ "work" \in StoredTypes /\ "mutation" \in StoredTypes
        BY <3>1 DEF Work, Numbered, Steps, StoredTypes
      <4>2. CASE Emits("work", "work", Stamp("work", NoPath))
        BY <4>1, <4>2
      <4>3. CASE \E p \in Paths : Emits("work", "work", Stamp("mutation", p))
        BY <4>1, <4>3
      <4> QED BY <3>1, <4>2, <4>3 DEF Work
    <3>2. CASE RecordError
      BY <3>2 DEF RecordError, Steps, StoredTypes
    <3>3. CASE RecordFinish
      BY <3>3 DEF RecordFinish, Steps, StoredTypes, Numbered
    <3>4. CASE RecordMetrics
      BY <3>4 DEF RecordMetrics, Steps, StoredTypes, Numbered
    <3>5. CASE RecordEnd
      BY <3>5 DEF RecordEnd, Steps, StoredTypes, Numbered
    <3> QED BY <1>4, <3>1, <3>2, <3>3, <3>4, <3>5
  <2>2. PICK e : e = Stamp(t, p)
    OBVIOUS
  <2>3. /\ Storing(e) /\ e.type = t /\ step = from /\ step' = to
        /\ alive' = alive /\ status' = status /\ status # "none"
    BY <2>1, <2>2, EmitsStores
  <2>4. e \in Event
    BY <2>3 DEF Storing
  <2> QED BY <2>1, <2>3, <2>4 DEF Numbered
<1> QED BY <1>2, <1>3, <1>4 DEF Stores

LEMMA StoringDoes ==
  ASSUME Numbered, NEW e, Storing(e)
  PROVE  /\ events' \in Seq(Event) /\ Len(events') = Len(events) + 1
         /\ DOMAIN events' = 1 .. Len(events) + 1
         /\ \A i \in DOMAIN events : events'[i] = events[i]
         /\ events'[Len(events) + 1] = e
         /\ events' # <<>> /\ events'[Len(events')] = e
         /\ e \in Event /\ e.id = Len(events) + 1 /\ e.n = Len(events) + 1
<1>1. Len(events) \in Nat /\ DOMAIN events = 1 .. Len(events) /\ events \in Seq(Event)
  BY LogLength DEF Numbered
<1>2. e \in Event /\ e.id = Len(events) + 1 /\ e.n = Len(events) + 1
  BY DEF Storing, Numbered
<1>3. PICK u : u = Append(events, e)
  OBVIOUS
<1>4. u \in Seq(Event) /\ u # <<>> /\ Len(u) = Len(events) + 1 /\ u[Len(events) + 1] = e
      /\ \A i \in 1 .. Len(events) : u[i] = events[i]
  BY <1>1, <1>2, <1>3, AppendProperties
<1>5. DOMAIN u = 1 .. Len(events) + 1
  BY <1>4, LenProperties
<1>6. events' = u
  BY <1>3 DEF Storing
<1> QED BY <1>1, <1>2, <1>4, <1>5, <1>6

LEMMA StoresNumbered == ASSUME Numbered, Stores PROVE Numbered'
<1>1. PICK e \in Event :
        /\ Storing(e)
        /\ step = "finish" => e.type = "finish"
        /\ step' = "work" \/ (step' = "finish" /\ outcome' = "done") => e.type # "error"
  BY StoresOne
<1>2. alive' = TRUE /\ status' # "none" /\ outcome' \in {"done", "error"}
  BY StoresOne
<1>3. /\ events' \in Seq(Event) /\ Len(events') = Len(events) + 1
      /\ DOMAIN events' = 1 .. Len(events) + 1
      /\ \A i \in DOMAIN events : events'[i] = events[i]
      /\ events'[Len(events) + 1] = e
      /\ events' # <<>> /\ events'[Len(events')] = e
      /\ e.id = Len(events) + 1 /\ e.n = Len(events) + 1
  BY <1>1, StoringDoes
<1>4. nextId' = Len(events') + 1 /\ serial' = Len(events')
  BY <1>1, <1>3 DEF Storing, Numbered
<1>5. \A i \in DOMAIN events' : events'[i].id = i /\ events'[i].n = i /\ Stored(events'[i])
  <2> SUFFICES ASSUME NEW i \in DOMAIN events'
               PROVE  events'[i].id = i /\ events'[i].n = i /\ Stored(events'[i])
    OBVIOUS
  <2>1. CASE i = Len(events) + 1
    BY <1>1, <1>3, <2>1 DEF Storing
  <2>2. CASE i # Len(events) + 1
    <3>1. i \in DOMAIN events
      BY <1>3, <2>2, LogLength DEF Numbered
    <3> QED BY <1>3, <3>1 DEF Numbered
  <2> QED BY <2>1, <2>2
<1>6. \A i \in DOMAIN events' :
        events'[i].id = i /\ events'[i].n = i /\ events'[i].type \in StoredTypes
  BY <1>5 DEF Stored
<1> QED BY <1>1, <1>2, <1>3, <1>4, <1>6 DEF Numbered, Stored

\* What stood behind a quota still does, and a quota keeps its place.
LEMMA StoresQuotas ==
  ASSUME Numbered, Stores
  PROVE  Behind \subseteq Behind' /\ Quotas \subseteq Behind'
<1>1. PICK e \in Event :
        /\ Storing(e)
        /\ step = "finish" => e.type = "finish"
        /\ step' = "work" \/ (step' = "finish" /\ outcome' = "done") => e.type # "error"
  BY StoresOne
<1>2. /\ events' \in Seq(Event) /\ Len(events') = Len(events) + 1
      /\ DOMAIN events' = 1 .. Len(events) + 1
      /\ \A i \in DOMAIN events : events'[i] = events[i]
      /\ events'[Len(events) + 1] = e
      /\ e.id = Len(events) + 1
  BY <1>1, StoringDoes
<1>3. Len(events) \in Nat /\ DOMAIN events = 1 .. Len(events)
  BY LogLength DEF Numbered
<1>4. Range(events) \subseteq Range(events')
  <2>1. \A i \in DOMAIN events : i \in DOMAIN events' /\ events'[i] = events[i]
    BY <1>2, <1>3
  <2> QED BY <2>1 DEF Range
<1>5. \A i \in Behind : i \in Behind'
  <2> SUFFICES ASSUME NEW i \in Behind PROVE i \in Behind'
    OBVIOUS
  <2>1. i \in DOMAIN events /\ events[i].type = "finish"
        /\ \E f \in Range(events) : f.id = events[i].id - 1 /\ f.type # "error"
    BY DEF Behind, BehindQuota
  <2>2. i \in DOMAIN events' /\ events'[i] = events[i]
    BY <1>2, <1>3, <2>1
  <2>3. \E f \in Range(events') : f.id = events'[i].id - 1 /\ f.type # "error"
    BY <1>4, <2>1, <2>2
  <2> QED BY <2>1, <2>2, <2>3 DEF Behind, BehindQuota
<1>6. step = "finish" /\ outcome = "done" => nextId \in Behind'
  <2> SUFFICES ASSUME step = "finish", outcome = "done" PROVE nextId \in Behind'
    OBVIOUS
  <2>1. nextId = Len(events) + 1 /\ events # <<>> /\ events[Len(events)].type # "error"
    BY DEF Numbered
  <2>2. Len(events) \in DOMAIN events
    BY <1>3, <2>1, EmptySeq DEF Numbered
  <2>3. events[Len(events)].id = Len(events) /\ events[Len(events)] \in Range(events')
    BY <1>4, <2>2 DEF Numbered, Range
  <2>4. nextId \in DOMAIN events' /\ events'[nextId] = e /\ e.type = "finish"
    BY <1>1, <1>2, <1>3, <2>1
  <2>5. events[Len(events)].id = e.id - 1
    BY <1>2, <1>3, <2>3
  <2> QED BY <2>1, <2>3, <2>4, <2>5 DEF Behind, BehindQuota
<1> QED BY <1>5, <1>6 DEF Quotas

--------------------------------------------------------------------------------
(* Delivering an event *)

LEMMA DeliverDoes ==
  ASSUME LinkTypes, NEW e \in Event, Deliver(e)
  PROVE  /\ LinkTypes'
         /\ \A c \in Clients :
              /\ link'[c] = link[c] /\ backlog'[c] = backlog[c] /\ seen'[c] = seen[c]
              /\ lastId'[c] = lastId[c] /\ got'[c] = got[c]
              /\ queue'[c] = IF Subscribed(c) THEN Append(queue[c], e) ELSE queue[c]
              /\ gap[c] \subseteq gap'[c]
              /\ link[c] = "replay" /\ Stored(e) => e.n \in gap'[c]
<1>1. /\ queue' = [c \in Clients |-> IF Subscribed(c) THEN Append(queue[c], e) ELSE queue[c]]
      /\ gap' = [c \in Clients |-> IF link[c] = "replay" /\ Stored(e)
                                   THEN gap[c] \cup {e.n} ELSE gap[c]]
      /\ UNCHANGED <<link, backlog, seen, lastId, watching, got, drops>>
  BY DEF Deliver
<1>2. \A c \in Clients : queue[c] \in Seq(Event) /\ Append(queue[c], e) \in Seq(Event)
  BY AppendProperties DEF LinkTypes
<1>3. queue' \in [Clients -> Seq(Event)]
  BY <1>1, <1>2
<1>4. e.n \in Nat
  BY DEF Event
<1>5. gap' \in [Clients -> SUBSET Nat]
  BY <1>1, <1>4 DEF LinkTypes
<1>6. LinkTypes'
  BY <1>1, <1>3, <1>5 DEF LinkTypes
<1> QED BY <1>1, <1>6

\* How the log moves when e is published: it takes e in, or only passes it on.
Publishes(e) ==
  /\ e \in Event /\ e.id = nextId /\ e.n = serial + 1
  /\ \A i \in DOMAIN events : i \in DOMAIN events' /\ events'[i] = events[i]
  /\ \/ Stored(e) /\ Len(events') = Len(events) + 1 /\ events'[Len(events) + 1] = e
     \/ ~Stored(e) /\ Len(events') = Len(events)
  /\ Behind \subseteq Behind' /\ Quotas \subseteq Quotas'
  /\ e.type = "quota" => nextId \in Quotas'

LEMMA PublishLengths ==
  ASSUME Numbered, Numbered', NEW e, Publishes(e)
  PROVE  /\ Len(events) \in Nat /\ Len(events') \in Nat /\ Len(events) <= Len(events')
         /\ DOMAIN events = 1 .. Len(events) /\ DOMAIN events' = 1 .. Len(events')
         /\ nextId = Len(events) + 1 /\ nextId' = Len(events') + 1
         /\ Len(events') \in {Len(events), Len(events) + 1}
         /\ e.id = Len(events) + 1 /\ e.n = Len(events) + 1
<1>1. Len(events) \in Nat /\ DOMAIN events = 1 .. Len(events)
  BY LenProperties DEF Numbered
<1>2. Len(events') \in Nat /\ DOMAIN events' = 1 .. Len(events')
  BY LenProperties DEF Numbered
<1> QED BY <1>1, <1>2 DEF Publishes, Numbered

LEMMA PublishIngested ==
  ASSUME Numbered, Numbered', LinkTypes, NEW e, Publishes(e), Deliver(e),
         NEW c \in Clients, Ingested(c)
  PROVE  Ingested(c)'
<1>1. e \in Event
  BY DEF Publishes
<1>2. lastId'[c] = lastId[c] /\ got'[c] = got[c] /\ gap[c] \subseteq gap'[c]
  BY <1>1, DeliverDoes
<1>3. Len(events) \in Nat /\ Len(events') \in Nat /\ Len(events) <= Len(events')
  BY PublishLengths
<1>4. Behind \subseteq Behind'
  BY DEF Publishes
<1>5. Range(got'[c]) = Range(got[c])
  BY <1>2
<1>6. lastId'[c] \in 0 .. Len(events')
  BY <1>2, <1>3 DEF Ingested
<1>7. \A i \in 1 .. lastId'[c] : i \in Range(got'[c]) \cup gap'[c] \cup Behind'
  BY <1>2, <1>4, <1>5 DEF Ingested
<1> QED BY <1>2, <1>6, <1>7 DEF Ingested

LEMMA PublishQueued ==
  ASSUME Numbered, Numbered', LinkTypes, NEW e, Publishes(e), Deliver(e),
         NEW c \in Clients, Queued(c)
  PROVE  Queued(c)'
<1>1. e \in Event /\ e.id = nextId
  BY DEF Publishes
<1>2. queue'[c] = IF Subscribed(c) THEN Append(queue[c], e) ELSE queue[c]
  BY <1>1, DeliverDoes
<1>3. PICK q : q = queue[c]
  OBVIOUS
<1>4. q \in Seq(Event)
  BY <1>3 DEF LinkTypes
<1>5. Len(q) \in Nat /\ DOMAIN q = 1 .. Len(q) /\ \A i \in DOMAIN q : q[i] \in Event
  BY <1>4, LenProperties
<1>6. nextId \in Nat /\ nextId' \in Nat /\ nextId <= nextId'
  BY PublishLengths
<1>7. /\ \A i, j \in DOMAIN q : i < j => q[i].id <= q[j].id
      /\ \A i \in DOMAIN q :
           /\ q[i].id \in Nat /\ q[i].id <= nextId
           /\ Stored(q[i]) => \E k \in DOMAIN events : q[i] = events[k]
           /\ q[i].type = "quota" => q[i].id \in Quotas
  BY <1>3, <1>5, EventFields DEF Queued
<1>8. \A x : (\E k \in DOMAIN events : x = events[k]) => \E k \in DOMAIN events' : x = events'[k]
  BY DEF Publishes
<1>9. \A i \in DOMAIN q :
        /\ q[i].id <= nextId'
        /\ Stored(q[i]) => \E k \in DOMAIN events' : q[i] = events'[k]
        /\ q[i].type = "quota" => q[i].id \in Quotas'
  BY <1>6, <1>7, <1>8 DEF Publishes
<1>10. CASE ~Subscribed(c)
  <2>1. queue'[c] = q
    BY <1>2, <1>3, <1>10
  <2>2. \A x : Stored(x)' <=> Stored(x)
    BY DEF Stored
  <2> QED BY <1>7, <1>9, <2>1 DEF Queued, Stored
<1>11. CASE Subscribed(c)
  <2>1. PICK r : r = Append(q, e)
    OBVIOUS
  <2>2. queue'[c] = r
    BY <1>2, <1>3, <1>11, <2>1
  <2>3. r \in Seq(Event) /\ Len(r) = Len(q) + 1 /\ r[Len(q) + 1] = e
        /\ \A i \in 1 .. Len(q) : r[i] = q[i]
    BY <1>1, <1>4, <2>1, AppendProperties
  <2>4. DOMAIN r = 1 .. Len(q) + 1
    BY <2>3, LenProperties
  <2>5. \A i \in DOMAIN r : (i \in DOMAIN q /\ r[i] = q[i]) \/ (i = Len(q) + 1 /\ r[i] = e)
    <3> SUFFICES ASSUME NEW i \in DOMAIN r
                 PROVE  (i \in DOMAIN q /\ r[i] = q[i]) \/ (i = Len(q) + 1 /\ r[i] = e)
      OBVIOUS
    <3>1. CASE i = Len(q) + 1
      BY <2>3, <3>1
    <3>2. CASE i # Len(q) + 1
      <4>1. i \in 1 .. Len(q)
        BY <1>5, <2>4, <3>2
      <4>2. r[i] = q[i]
        BY <2>3, <4>1
      <4>3. i \in DOMAIN q
        BY <1>5, <4>1
      <4> QED BY <4>2, <4>3
    <3> QED BY <3>1, <3>2
  <2>6. Stored(e) => \E k \in DOMAIN events' : e = events'[k]
    <3> SUFFICES ASSUME Stored(e) PROVE \E k \in DOMAIN events' : e = events'[k]
      OBVIOUS
    <3>1. Len(events') = Len(events) + 1 /\ events'[Len(events) + 1] = e
      BY DEF Publishes
    <3>2. Len(events) + 1 \in DOMAIN events'
      BY <3>1, PublishLengths
    <3> QED BY <3>1, <3>2
  <2>7. e.type = "quota" => e.id \in Quotas'
    BY DEF Publishes
  <2>8. \A i \in DOMAIN r :
          /\ r[i].id <= nextId'
          /\ Stored(r[i]) => \E k \in DOMAIN events' : r[i] = events'[k]
          /\ r[i].type = "quota" => r[i].id \in Quotas'
    BY <1>1, <1>6, <1>9, <2>5, <2>6, <2>7
  <2>9. \A i, j \in DOMAIN r : i < j => r[i].id <= r[j].id
    <3> SUFFICES ASSUME NEW i \in DOMAIN r, NEW j \in DOMAIN r, i < j PROVE r[i].id <= r[j].id
      OBVIOUS
    <3>1. i \in DOMAIN q /\ r[i] = q[i]
      BY <1>5, <2>4, <2>5
    <3>2. CASE j \in DOMAIN q /\ r[j] = q[j]
      BY <1>7, <3>1, <3>2
    <3>3. CASE r[j] = e
      BY <1>1, <1>7, <3>1, <3>3
    <3> QED BY <2>5, <3>2, <3>3
  <2> QED BY <2>2, <2>8, <2>9 DEF Queued, Stored
<1> QED BY <1>10, <1>11

LEMMA PublishReplaying ==
  ASSUME Numbered, Numbered', LinkTypes, NEW e, Publishes(e), Deliver(e),
         NEW c \in Clients, Replaying(c)
  PROVE  Replaying(c)'
<1>1. e \in Event
  BY DEF Publishes
<1>2. /\ link'[c] = link[c] /\ backlog'[c] = backlog[c] /\ lastId'[c] = lastId[c]
      /\ gap[c] \subseteq gap'[c] /\ (link[c] = "replay" /\ Stored(e) => e.n \in gap'[c])
  BY <1>1, DeliverDoes
<1> SUFFICES ASSUME link[c] = "replay"
             PROVE  \E m \in lastId'[c] .. Len(events') :
                      backlog'[c] = lastId'[c] + 1 .. m /\ m + 1 .. Len(events') \subseteq gap'[c]
  BY <1>2 DEF Replaying
<1>3. PICK m \in lastId[c] .. Len(events) :
        backlog[c] = lastId[c] + 1 .. m /\ m + 1 .. Len(events) \subseteq gap[c]
  BY DEF Replaying
<1>4. /\ Len(events) \in Nat /\ Len(events') \in Nat /\ Len(events) <= Len(events')
      /\ e.n = Len(events) + 1
  BY PublishLengths
<1>5. lastId[c] \in Nat
  BY DEF LinkTypes
<1>6. m \in lastId[c] .. Len(events')
  BY <1>4, <1>5
<1>7. m + 1 .. Len(events') \subseteq gap'[c]
  <2>1. CASE Stored(e)
    <3>1. Len(events') = Len(events) + 1 /\ Len(events) + 1 \in gap'[c]
      BY <1>2, <1>4, <2>1 DEF Publishes
    <3>2. \A i \in m + 1 .. Len(events') : i \in m + 1 .. Len(events) \/ i = Len(events) + 1
      BY <1>4, <1>5, <3>1
    <3> QED BY <1>2, <1>3, <3>1, <3>2
  <2>2. CASE ~Stored(e)
    <3>1. Len(events') = Len(events)
      BY <2>2 DEF Publishes
    <3> QED BY <1>2, <1>3, <3>1
  <2> QED BY <2>1, <2>2
<1> QED BY <1>2, <1>3, <1>6, <1>7

LEMMA PublishFollowing ==
  ASSUME Numbered, Numbered', LinkTypes, NEW e, Publishes(e), Deliver(e),
         NEW c \in Clients, Following(c)
  PROVE  Following(c)'
<1>1. e \in Event
  BY DEF Publishes
<1>2. /\ link'[c] = link[c] /\ seen'[c] = seen[c] /\ lastId'[c] = lastId[c]
      /\ gap[c] \subseteq gap'[c]
      /\ queue'[c] = IF Subscribed(c) THEN Append(queue[c], e) ELSE queue[c]
  BY <1>1, DeliverDoes
<1> SUFFICES ASSUME link[c] = "follow"
             PROVE  /\ seen'[c] \in lastId'[c] .. nextId'
                    /\ lastId'[c] + 1 .. seen'[c] \subseteq gap'[c] \cup Quotas'
                    /\ \A i \in seen'[c] + 1 .. Len(events') :
                         \E j \in DOMAIN queue'[c] : queue'[c][j] = events'[i]
  BY <1>2 DEF Following
<1>3. /\ seen[c] \in lastId[c] .. nextId
      /\ lastId[c] + 1 .. seen[c] \subseteq gap[c] \cup Quotas
      /\ \A i \in seen[c] + 1 .. Len(events) : \E j \in DOMAIN queue[c] : queue[c][j] = events[i]
  BY DEF Following
<1>4. /\ Len(events) \in Nat /\ Len(events') \in Nat /\ Len(events) <= Len(events')
      /\ nextId = Len(events) + 1 /\ nextId' = Len(events') + 1
      /\ DOMAIN events = 1 .. Len(events)
  BY PublishLengths
<1>5. lastId[c] \in Nat /\ seen[c] \in Nat /\ queue[c] \in Seq(Event)
  BY DEF LinkTypes
<1>6. seen'[c] \in lastId'[c] .. nextId'
  BY <1>2, <1>3, <1>4, <1>5
<1>7. lastId'[c] + 1 .. seen'[c] \subseteq gap'[c] \cup Quotas'
  BY <1>2, <1>3 DEF Publishes
<1>8. PICK q : q = queue[c]
  OBVIOUS
<1>9. PICK r : r = Append(q, e)
  OBVIOUS
<1>10. queue'[c] = r
  BY <1>2, <1>8, <1>9 DEF Subscribed
<1>11. /\ r \in Seq(Event) /\ Len(r) = Len(q) + 1 /\ r[Len(q) + 1] = e
       /\ \A i \in 1 .. Len(q) : r[i] = q[i]
  BY <1>1, <1>5, <1>8, <1>9, AppendProperties
<1>12. Len(q) \in Nat /\ DOMAIN q = 1 .. Len(q) /\ DOMAIN r = 1 .. Len(q) + 1
  BY <1>5, <1>8, <1>11, LenProperties
<1>13. \A j \in DOMAIN q : j \in DOMAIN r /\ r[j] = q[j]
  BY <1>11, <1>12
<1>14. \A i \in seen[c] + 1 .. Len(events') : \E j \in DOMAIN r : r[j] = events'[i]
  <2> SUFFICES ASSUME NEW i \in seen[c] + 1 .. Len(events')
               PROVE  \E j \in DOMAIN r : r[j] = events'[i]
    OBVIOUS
  <2>1. CASE i \in seen[c] + 1 .. Len(events)
    <3>1. i \in DOMAIN events
      BY <1>4, <1>5, <2>1
    <3>2. events'[i] = events[i]
      BY <3>1 DEF Publishes
    <3>3. PICK j \in DOMAIN q : q[j] = events[i]
      BY <1>3, <1>8, <2>1
    <3> QED BY <1>13, <3>2, <3>3
  <2>2. CASE i \notin seen[c] + 1 .. Len(events)
    <3>1. Len(events') = Len(events) + 1 /\ i = Len(events) + 1
      BY <1>4, <1>5, <2>2, PublishLengths
    <3>2. events'[i] = e
      <4>0. PICK n \in Nat : n = Len(events)
        BY <1>4
      <4>1. Len(events') # Len(events)
        BY <3>1, <4>0
      <4>2. events'[Len(events) + 1] = e
        BY <4>1 DEF Publishes
      <4> QED BY <3>1, <4>2
    <3>3. Len(q) + 1 \in DOMAIN r
      BY <1>12
    <3> QED BY <1>11, <3>2, <3>3
  <2> QED BY <2>1, <2>2
<1> QED BY <1>2, <1>6, <1>7, <1>10, <1>14

LEMMA PublishesKeeps ==
  ASSUME StreamInv, Numbered', NEW e, Publishes(e), Deliver(e)
  PROVE  StreamInv'
<1>1. Numbered /\ LinkTypes /\ e \in Event
  BY DEF StreamInv, Publishes
<1>2. LinkTypes'
  BY <1>1, DeliverDoes
<1>3. ASSUME NEW c \in Clients
      PROVE  Ingested(c)' /\ Queued(c)' /\ Replaying(c)' /\ Following(c)'
  <2>1. Ingested(c) /\ Queued(c) /\ Replaying(c) /\ Following(c)
    BY DEF StreamInv
  <2> QED BY <1>1, <2>1, PublishIngested, PublishQueued, PublishReplaying, PublishFollowing
<1> QED BY <1>2, <1>3 DEF StreamInv

LEMMA PublishKeeps == ASSUME StreamInv, Publish PROVE StreamInv'
<1>1. Numbered /\ Stores /\ Deliver(Last(events'))
  BY DEF StreamInv, Publish, Stores
<1>2. PICK e \in Event :
        /\ Storing(e)
        /\ step = "finish" => e.type = "finish"
        /\ step' = "work" \/ (step' = "finish" /\ outcome' = "done") => e.type # "error"
  BY <1>1, StoresOne
<1>3. /\ Len(events') = Len(events) + 1 /\ DOMAIN events' = 1 .. Len(events) + 1
      /\ \A i \in DOMAIN events : events'[i] = events[i]
      /\ events'[Len(events) + 1] = e
      /\ events'[Len(events')] = e
  BY <1>1, <1>2, StoringDoes
<1>4. Deliver(e)
  <2>1. Last(events') = e
    BY <1>3 DEF Last
  <2> QED BY <1>1, <2>1
<1>5. Behind \subseteq Behind' /\ Quotas \subseteq Quotas'
  BY <1>1, StoresQuotas DEF Quotas
<1>6. e.type # "quota"
  BY <1>2 DEF Storing, Stored, StoredTypes
<1>7. Len(events) \in Nat /\ DOMAIN events = 1 .. Len(events)
  BY <1>1, LogLength DEF Numbered
<1>8. Publishes(e)
  BY <1>2, <1>3, <1>5, <1>6, <1>7 DEF Publishes, Storing
<1>9. Numbered'
  BY <1>1, StoresNumbered
<1> QED BY <1>4, <1>8, <1>9, PublishesKeeps

LEMMA PublishQuotaKeeps == ASSUME StreamInv, PublishQuota PROVE StreamInv'
<1>1. PICK e : e = Stamp("quota", NoPath)
  OBVIOUS
<1>2. Numbered
  BY DEF StreamInv
<1>3. nextId \in Nat \ {0} /\ serial \in Nat
  BY <1>2, LogLength DEF Numbered
<1>4. e \in Event /\ e.type = "quota" /\ e.id = nextId /\ e.n = serial + 1
  BY <1>1, <1>3, StampIsEvent DEF TransientTypes
<1>5. /\ step = "work" /\ step' = "finish" /\ outcome' = "done"
      /\ UNCHANGED <<alive, status, events, nextId, serial>> /\ Deliver(e)
  BY <1>1 DEF PublishQuota, RelayQuota
<1>6. Behind' = Behind
  BY <1>5 DEF Behind, BehindQuota
<1>7. Quotas \subseteq Quotas' /\ nextId \in Quotas'
  BY <1>5, <1>6 DEF Quotas
<1>8. ~Stored(e)
  BY <1>4 DEF Stored, StoredTypes
<1>9. Publishes(e)
  BY <1>4, <1>5, <1>6, <1>7, <1>8 DEF Publishes
<1>10. Numbered'
  BY <1>2, <1>5 DEF Numbered, Stored
<1> QED BY <1>5, <1>9, <1>10, PublishesKeeps

LEMMA PublishDeltaKeeps == ASSUME StreamInv, PublishDelta PROVE StreamInv'
<1>1. PICK e : e = Stamp("delta", NoPath)
  OBVIOUS
<1>2. Numbered
  BY DEF StreamInv
<1>3. nextId \in Nat \ {0} /\ serial \in Nat
  BY <1>2, LogLength DEF Numbered
<1>4. e \in Event /\ e.type = "delta" /\ e.id = nextId /\ e.n = serial + 1
  BY <1>1, <1>3, StampIsEvent DEF TransientTypes
<1>5. UNCHANGED <<alive, status, step, outcome, events, nextId, serial>> /\ Deliver(e)
  BY <1>1 DEF PublishDelta, logVars
<1>6. Behind' = Behind /\ Quotas' = Quotas
  BY <1>5 DEF Behind, BehindQuota, Quotas
<1>7. ~Stored(e)
  BY <1>4 DEF Stored, StoredTypes
<1>8. Publishes(e)
  BY <1>4, <1>5, <1>6, <1>7 DEF Publishes
<1>9. Numbered'
  BY <1>2, <1>5 DEF Numbered, Stored
<1> QED BY <1>5, <1>8, <1>9, PublishesKeeps

--------------------------------------------------------------------------------
(* The steps of one window's stream *)

\* A window d that a step leaves alone.
Alone(d) ==
  /\ link'[d] = link[d] /\ backlog'[d] = backlog[d] /\ queue'[d] = queue[d]
  /\ seen'[d] = seen[d] /\ lastId'[d] = lastId[d] /\ got'[d] = got[d] /\ gap'[d] = gap[d]

LogStands == UNCHANGED <<alive, status, step, outcome, events, nextId, serial>>

LEMMA QuotasStand == ASSUME LogStands PROVE Behind' = Behind /\ Quotas' = Quotas
BY DEF LogStands, Behind, BehindQuota, Quotas

LEMMA OneWindowMoves ==
  ASSUME StreamInv, LogStands, LinkTypes', NEW c \in Clients,
         \A d \in Clients \ {c} : Alone(d),
         Ingested(c)', Queued(c)', Replaying(c)', Following(c)'
  PROVE  StreamInv'
<1>1. Numbered'
  BY DEF StreamInv, Numbered, LogStands, Stored
<1>2. Behind' = Behind /\ Quotas' = Quotas /\ events' = events /\ nextId' = nextId
  BY QuotasStand DEF LogStands
<1>3. ASSUME NEW d \in Clients
      PROVE  Ingested(d)' /\ Queued(d)' /\ Replaying(d)' /\ Following(d)'
  <2>1. CASE d = c
    BY <2>1
  <2>2. CASE d # c
    <3>1. Alone(d) /\ Ingested(d) /\ Queued(d) /\ Replaying(d) /\ Following(d)
      BY <2>2 DEF StreamInv
    <3>2. Ingested(d)'
      BY <1>2, <3>1 DEF Alone, Ingested, Range
    <3>3. Queued(d)'
      BY <1>2, <3>1 DEF Alone, Queued, Stored
    <3>4. Replaying(d)'
      BY <1>2, <3>1 DEF Alone, Replaying
    <3>5. Following(d)'
      BY <1>2, <3>1 DEF Alone, Following
    <3> QED BY <3>2, <3>3, <3>4, <3>5
  <2> QED BY <2>1, <2>2
<1> QED BY <1>1, <1>3 DEF StreamInv

LEMMA CloseDoes ==
  ASSUME LinkTypes, NEW c \in Clients, Close(c)
  PROVE  /\ link' \in [Clients -> {"down", "replay", "follow"}]
         /\ backlog' \in [Clients -> SUBSET Nat] /\ queue' \in [Clients -> Seq(Event)]
         /\ link'[c] = "down" /\ queue'[c] = <<>>
         /\ \A d \in Clients \ {c} :
              link'[d] = link[d] /\ backlog'[d] = backlog[d] /\ queue'[d] = queue[d]
<1>1. <<>> \in Seq(Event) /\ {} \in SUBSET Nat
  BY EmptySeq
<1> QED BY <1>1 DEF LinkTypes, Close

\* A window whose stream is closed has nothing queued and nothing to replay.
LEMMA ClosedStands ==
  ASSUME NEW c \in Clients, link'[c] = "down", queue'[c] = <<>>
  PROVE  Queued(c)' /\ Replaying(c)' /\ Following(c)'
<1>1. DOMAIN queue'[c] = {}
  OBVIOUS
<1> QED BY <1>1 DEF Queued, Replaying, Following

LEMMA ReceiveDoes ==
  ASSUME LinkTypes, NEW c \in Clients, NEW e \in Event, Receive(c, e)
  PROVE  /\ lastId' \in [Clients -> Nat] /\ got' \in [Clients -> Seq(Nat)]
         /\ watching' \in [Clients -> BOOLEAN]
         /\ \A d \in Clients \ {c} : lastId'[d] = lastId[d] /\ got'[d] = got[d]
         /\ Ingests(c, e) => lastId'[c] = e.id /\ got'[c] = Append(got[c], e.n)
         /\ ~Ingests(c, e) => lastId'[c] = lastId[c] /\ got'[c] = got[c]
<1>1. e.id \in Nat /\ e.n \in Nat
  BY DEF Event
<1>2. got[c] \in Seq(Nat) /\ Append(got[c], e.n) \in Seq(Nat)
  BY <1>1, AppendProperties DEF LinkTypes
<1>3. CASE Ingests(c, e)
  <2>1. /\ lastId' = [lastId EXCEPT ![c] = e.id]
        /\ got' = [got EXCEPT ![c] = Append(@, e.n)]
        /\ watching' = [watching EXCEPT ![c] = Watches(c, e)]
    BY <1>3 DEF Receive
  <2>2. Watches(c, e) \in BOOLEAN
    BY DEF Watches
  <2> QED BY <1>1, <1>2, <1>3, <2>1, <2>2 DEF LinkTypes
<1>4. CASE ~Ingests(c, e)
  BY <1>4 DEF Receive, LinkTypes
<1> QED BY <1>3, <1>4

\* A window takes in the stored event at position k.
LEMMA ReceiveIngests ==
  ASSUME Numbered, LinkTypes, LogStands, NEW c \in Clients, Ingested(c),
         NEW k \in DOMAIN events, k > lastId[c],
         \A i \in lastId[c] + 1 .. k - 1 : i \in gap[c] \cup Behind,
         gap'[c] = gap[c], Receive(c, events[k])
  PROVE  Ingested(c)' /\ lastId'[c] = k
<1>1. PICK e : e = events[k]
  OBVIOUS
<1>2. e \in Event /\ e.id = k /\ e.n = k /\ Stored(e) /\ k \in 1 .. Len(events) /\ Len(events) \in Nat
  BY <1>1, LogLength DEF Numbered
<1>3. Ingests(c, e)
  BY <1>2 DEF Ingests
<1>4. lastId'[c] = k /\ got'[c] = Append(got[c], k)
  BY <1>1, <1>2, <1>3, ReceiveDoes
<1>5. PICK g : g = got[c]
  OBVIOUS
<1>6. g \in Seq(Nat) /\ lastId[c] \in Nat
  BY <1>5 DEF LinkTypes
<1>7. PICK h : h = Append(g, k)
  OBVIOUS
<1>8. h \in Seq(Nat) /\ Len(h) = Len(g) + 1 /\ h[Len(g) + 1] = k /\ Range(h) = Range(g) \cup {k}
      /\ \A i \in 1 .. Len(g) : h[i] = g[i]
  BY <1>2, <1>6, <1>7, AppendProperties, HeldByAppend
<1>9. Len(g) \in Nat /\ DOMAIN g = 1 .. Len(g) /\ DOMAIN h = 1 .. Len(g) + 1
      /\ \A i \in DOMAIN g : g[i] \in Nat
  BY <1>6, <1>8, LenProperties
<1>10. \A i \in DOMAIN h : (i \in DOMAIN g /\ h[i] = g[i]) \/ (i = Len(g) + 1 /\ h[i] = k)
  <2> SUFFICES ASSUME NEW i \in DOMAIN h
               PROVE  (i \in DOMAIN g /\ h[i] = g[i]) \/ (i = Len(g) + 1 /\ h[i] = k)
    OBVIOUS
  <2>1. CASE i = Len(g) + 1
    BY <1>8, <2>1
  <2>2. CASE i # Len(g) + 1
    <3>1. i \in 1 .. Len(g)
      BY <1>9, <2>2
    <3>2. h[i] = g[i]
      BY <1>8, <3>1
    <3>3. i \in DOMAIN g
      BY <1>9, <3>1
    <3> QED BY <3>2, <3>3
  <2> QED BY <2>1, <2>2
<1>11. /\ \A i, j \in DOMAIN g : i < j => g[i] < g[j]
       /\ \A i \in DOMAIN g : g[i] <= lastId[c]
       /\ \A i \in 1 .. lastId[c] : i \in Range(g) \cup gap[c] \cup Behind
  BY <1>5 DEF Ingested
<1>12. \A i \in DOMAIN h : h[i] <= k
  BY <1>2, <1>6, <1>9, <1>10, <1>11
<1>13. \A i, j \in DOMAIN h : i < j => h[i] < h[j]
  <2> SUFFICES ASSUME NEW i \in DOMAIN h, NEW j \in DOMAIN h, i < j PROVE h[i] < h[j]
    OBVIOUS
  <2>1. i \in DOMAIN g /\ h[i] = g[i]
    BY <1>9, <1>10
  <2>2. CASE j \in DOMAIN g /\ h[j] = g[j]
    BY <1>11, <2>1, <2>2
  <2>3. CASE h[j] = k
    <3>1. g[i] <= lastId[c] /\ g[i] \in Nat
      BY <1>9, <1>11, <2>1
    <3> QED BY <1>2, <1>6, <2>1, <2>3, <3>1
  <2> QED BY <1>10, <2>2, <2>3
<1>14. \A i \in 1 .. k : i \in Range(h) \cup gap[c] \cup Behind
  <2> SUFFICES ASSUME NEW i \in 1 .. k PROVE i \in Range(h) \cup gap[c] \cup Behind
    OBVIOUS
  <2>1. CASE i = k
    BY <1>8, <2>1
  <2>2. CASE i <= lastId[c]
    BY <1>6, <1>8, <1>11, <2>2
  <2>3. CASE i # k /\ ~(i <= lastId[c])
    <3>1. i \in lastId[c] + 1 .. k - 1
      BY <1>2, <1>6, <2>3
    <3> QED BY <3>1
  <2> QED BY <2>1, <2>2, <2>3
<1>15. Behind' = Behind /\ events' = events
  BY QuotasStand DEF LogStands
<1>16. got'[c] = h
  BY <1>4, <1>5, <1>7
<1>17. k \in 0 .. Len(events)
  BY <1>2
<1> QED BY <1>4, <1>12, <1>13, <1>14, <1>15, <1>16, <1>17 DEF Ingested

\* A window that takes nothing in.
LEMMA IngestedStands ==
  ASSUME LogStands, NEW c \in Clients, Ingested(c),
         lastId'[c] = lastId[c], got'[c] = got[c], gap'[c] = gap[c]
  PROVE  Ingested(c)'
<1>1. Behind' = Behind /\ events' = events
  BY QuotasStand DEF LogStands
<1> QED BY <1>1 DEF Ingested, Range

LEMMA QueuedStands ==
  ASSUME LogStands, NEW c \in Clients, Queued(c), queue'[c] = queue[c]
  PROVE  Queued(c)'
<1>1. Quotas' = Quotas /\ events' = events /\ nextId' = nextId
  BY QuotasStand DEF LogStands
<1> QED BY <1>1 DEF Queued, Stored

\* The stream closes and the window takes nothing more in.
LEMMA ClosingKeeps ==
  ASSUME StreamInv, LogStands, NEW c \in Clients, Close(c),
         UNCHANGED <<seen, lastId, got, gap>>, watching' \in [Clients -> BOOLEAN]
  PROVE  StreamInv'
<1>1. LinkTypes /\ Ingested(c)
  BY DEF StreamInv
<1>2. /\ link' \in [Clients -> {"down", "replay", "follow"}]
      /\ backlog' \in [Clients -> SUBSET Nat] /\ queue' \in [Clients -> Seq(Event)]
      /\ link'[c] = "down" /\ queue'[c] = <<>>
      /\ \A d \in Clients \ {c} :
           link'[d] = link[d] /\ backlog'[d] = backlog[d] /\ queue'[d] = queue[d]
  BY <1>1, CloseDoes
<1>3. LinkTypes'
  BY <1>1, <1>2 DEF LinkTypes
<1>4. \A d \in Clients \ {c} : Alone(d)
  BY <1>2 DEF Alone
<1>5. Ingested(c)'
  BY <1>1, IngestedStands
<1> QED BY <1>2, <1>3, <1>4, <1>5, ClosedStands, OneWindowMoves

LEMMA StretchStarts ==
  ASSUME NEW a \in Nat, NEW m \in Nat, a <= m
  PROVE  Min(a .. m) = a
<1>1. a \in a .. m /\ \A y \in a .. m : a <= y
  OBVIOUS
<1>2. Min(a .. m) \in a .. m /\ \A y \in a .. m : Min(a .. m) <= y
  BY <1>1 DEF Min
<1> QED BY <1>1, <1>2

\* A stretch of the log is replayed, and what lies behind it is in the gap.
LEMMA ResumeKeeps ==
  ASSUME StreamInv, LogStands, gap' = gap, NEW c \in Clients,
         NEW m \in lastId[c] .. Len(events), NEW waiting,
         m + 1 .. Len(events) \subseteq gap[c],
         Resume(c, lastId[c] + 1 .. m, waiting)
  PROVE  StreamInv'
<1>1. Numbered /\ LinkTypes /\ Ingested(c) /\ Queued(c)
  BY DEF StreamInv
<1>2. PICK a \in Nat : a = lastId[c]
  BY <1>1 DEF LinkTypes
<1>3. Len(events) \in Nat /\ DOMAIN events = 1 .. Len(events) /\ m \in Nat /\ a <= m /\ m <= Len(events)
  BY <1>1, <1>2, LogLength DEF Numbered
<1>4. PICK rest : rest = a + 1 .. m
  OBVIOUS
<1>5. Resume(c, rest, waiting)
  BY <1>2, <1>4
<1>6. events' = events /\ nextId' = nextId /\ nextId = Len(events) + 1
  BY <1>1 DEF LogStands, Numbered
<1>7. CASE rest # {}
  <2>1. a + 1 <= m
    BY <1>3, <1>4, <1>7
  <2>2. Min(rest) = a + 1
    BY <1>3, <1>4, <2>1, StretchStarts
  <2>3. a + 1 \in DOMAIN events /\ events[a + 1] \in Event
    BY <1>1, <1>3, <2>1, LogLength DEF Numbered
  <2>4. /\ Receive(c, events[a + 1]) /\ seen' = seen
        /\ IF events[a + 1].type = "end"
             THEN Close(c)
             ELSE /\ link' = [link EXCEPT ![c] = "replay"]
                  /\ backlog' = [backlog EXCEPT ![c] = rest \ {a + 1}]
                  /\ UNCHANGED queue
    BY <1>5, <1>7, <2>2 DEF Resume
  <2>5. /\ lastId' \in [Clients -> Nat] /\ got' \in [Clients -> Seq(Nat)]
        /\ watching' \in [Clients -> BOOLEAN]
        /\ \A d \in Clients \ {c} : lastId'[d] = lastId[d] /\ got'[d] = got[d]
    BY <1>1, <2>3, <2>4, ReceiveDoes
  <2>6. a + 1 > lastId[c] /\ \A i \in lastId[c] + 1 .. a + 1 - 1 : i \in gap[c] \cup Behind
    BY <1>2
  <2>7. Ingested(c)' /\ lastId'[c] = a + 1
    BY <1>1, <2>3, <2>4, <2>6, ReceiveIngests
  <2>8. CASE events[a + 1].type = "end"
    <3>1. Close(c)
      BY <2>4, <2>8
    <3>2. /\ link' \in [Clients -> {"down", "replay", "follow"}]
          /\ backlog' \in [Clients -> SUBSET Nat] /\ queue' \in [Clients -> Seq(Event)]
          /\ link'[c] = "down" /\ queue'[c] = <<>>
          /\ \A d \in Clients \ {c} :
               link'[d] = link[d] /\ backlog'[d] = backlog[d] /\ queue'[d] = queue[d]
      BY <1>1, <3>1, CloseDoes
    <3>3. LinkTypes'
      BY <1>1, <2>4, <2>5, <3>2 DEF LinkTypes
    <3>4. \A d \in Clients \ {c} : Alone(d)
      BY <2>4, <2>5, <3>2 DEF Alone
    <3> QED BY <2>7, <3>2, <3>3, <3>4, ClosedStands, OneWindowMoves
  <2>9. CASE events[a + 1].type # "end"
    <3>1. /\ link' = [link EXCEPT ![c] = "replay"]
          /\ backlog' = [backlog EXCEPT ![c] = rest \ {a + 1}]
          /\ queue' = queue
      BY <2>4, <2>9
    <3>2. rest \ {a + 1} = a + 1 + 1 .. m
      BY <1>3, <1>4
    <3>3. LinkTypes'
      <4>1. rest \ {a + 1} \in SUBSET Nat
        BY <1>3, <3>2
      <4> QED BY <1>1, <2>4, <2>5, <3>1, <4>1 DEF LinkTypes
    <3>4. \A d \in Clients \ {c} : Alone(d)
      BY <1>1, <2>4, <2>5, <3>1 DEF Alone, LinkTypes
    <3>5. link'[c] = "replay" /\ backlog'[c] = a + 1 + 1 .. m /\ queue'[c] = queue[c]
      BY <1>1, <3>1, <3>2 DEF LinkTypes
    <3>6. Queued(c)'
      BY <1>1, <3>5, QueuedStands
    <3>7. Following(c)'
      BY <3>5 DEF Following
    <3>8. Replaying(c)'
      <4>1. m \in lastId'[c] .. Len(events')
        BY <1>3, <1>6, <2>1, <2>7
      <4>2. backlog'[c] = lastId'[c] + 1 .. m /\ m + 1 .. Len(events') \subseteq gap'[c]
        BY <1>6, <2>7, <3>5
      <4> QED BY <4>1, <4>2 DEF Replaying
    <3> QED BY <2>7, <3>3, <3>4, <3>6, <3>7, <3>8, OneWindowMoves
  <2> QED BY <2>8, <2>9
<1>8. CASE rest = {}
  <2>1. a = m
    BY <1>3, <1>4, <1>8
  <2>2. /\ seen' = [seen EXCEPT ![c] = Cursor(c)]
        /\ IF ~Running /\ waiting = <<>>
             THEN Close(c)
             ELSE /\ link' = [link EXCEPT ![c] = "follow"]
                  /\ UNCHANGED <<backlog, queue>>
        /\ UNCHANGED <<lastId, got, watching>>
    BY <1>5, <1>8 DEF Resume
  <2>3. Cursor(c) = Len(events)
    <3>1. CASE events # <<>>
      <4>1. Len(events) \in DOMAIN events
        BY <1>1, <1>3, <3>1, EmptySeq DEF Numbered
      <4>2. Last(events).id = Len(events)
        BY <1>1, <4>1 DEF Numbered, Last
      <4> QED BY <3>1, <4>2 DEF Cursor
    <3>2. CASE events = <<>>
      <4>1. Len(events) = 0
        BY <3>2, EmptySeq
      <4>2. lastId[c] = 0
        BY <1>2, <1>3, <2>1, <4>1
      <4> QED BY <3>2, <4>1, <4>2 DEF Cursor
    <3> QED BY <3>1, <3>2
  <2>4. /\ seen' \in [Clients -> Nat] /\ seen'[c] = Len(events)
        /\ \A d \in Clients \ {c} : seen'[d] = seen[d]
    BY <1>1, <1>3, <2>2, <2>3 DEF LinkTypes
  <2>5. Ingested(c)'
    BY <1>1, <2>2, IngestedStands
  <2>6. CASE ~Running /\ waiting = <<>>
    <3>1. Close(c)
      BY <2>2, <2>6
    <3>2. /\ link' \in [Clients -> {"down", "replay", "follow"}]
          /\ backlog' \in [Clients -> SUBSET Nat] /\ queue' \in [Clients -> Seq(Event)]
          /\ link'[c] = "down" /\ queue'[c] = <<>>
          /\ \A d \in Clients \ {c} :
               link'[d] = link[d] /\ backlog'[d] = backlog[d] /\ queue'[d] = queue[d]
      BY <1>1, <3>1, CloseDoes
    <3>3. LinkTypes'
      BY <1>1, <2>2, <2>4, <3>2 DEF LinkTypes
    <3>4. \A d \in Clients \ {c} : Alone(d)
      BY <2>2, <2>4, <3>2 DEF Alone
    <3> QED BY <2>5, <3>2, <3>3, <3>4, ClosedStands, OneWindowMoves
  <2>7. CASE ~(~Running /\ waiting = <<>>)
    <3>1. link' = [link EXCEPT ![c] = "follow"] /\ UNCHANGED <<backlog, queue>>
      BY <2>2, <2>7
    <3>2. LinkTypes'
      BY <1>1, <2>2, <2>4, <3>1 DEF LinkTypes
    <3>3. \A d \in Clients \ {c} : Alone(d)
      BY <1>1, <2>2, <2>4, <3>1 DEF Alone, LinkTypes
    <3>4. link'[c] = "follow" /\ queue'[c] = queue[c] /\ lastId'[c] = a
      BY <1>1, <1>2, <2>2, <3>1 DEF LinkTypes
    <3>5. Queued(c)'
      BY <1>1, <3>4, QueuedStands
    <3>6. Replaying(c)'
      BY <3>4 DEF Replaying
    <3>7. Following(c)'
      <4>1. seen'[c] \in lastId'[c] .. nextId'
        BY <1>3, <1>6, <2>4, <3>4
      <4>2. lastId'[c] + 1 .. seen'[c] \subseteq gap'[c] \cup Quotas'
        BY <1>2, <2>1, <2>4, <3>4
      <4>3. seen'[c] + 1 .. Len(events') = {}
        BY <1>3, <1>6, <2>4
      <4> QED BY <4>1, <4>2, <4>3 DEF Following
    <3> QED BY <2>5, <3>2, <3>3, <3>5, <3>6, <3>7, OneWindowMoves
  <2> QED BY <2>6, <2>7
<1> QED BY <1>7, <1>8

LEMMA ConnectKeeps == ASSUME StreamInv, NEW c \in Clients, Connect(c) PROVE StreamInv'
<1>1. /\ gap' = gap /\ LogStands
      /\ Resume(c, Since(lastId[c]), <<>>)
  BY DEF Connect, LogStands, logVars
<1>2. Numbered /\ LinkTypes /\ Ingested(c)
  BY DEF StreamInv
<1>3. Len(events) \in Nat /\ DOMAIN events = 1 .. Len(events) /\ lastId[c] \in Nat
      /\ lastId[c] <= Len(events)
  BY <1>2, LogLength DEF Numbered, LinkTypes, Ingested
<1>4. Since(lastId[c]) = lastId[c] + 1 .. Len(events)
  <2>1. \A i \in DOMAIN events : events[i].id = i
    BY <1>2 DEF Numbered
  <2>2. Since(lastId[c]) = {i \in 1 .. Len(events) : i > lastId[c]}
    BY <1>3, <2>1 DEF Since
  <2> QED BY <1>3, <2>2
<1>5. PICK m \in lastId[c] .. Len(events) : m = Len(events)
  <2>1. PICK n \in Nat : n = Len(events)
    BY <1>3
  <2>2. PICK a \in Nat : a = lastId[c]
    BY <1>3
  <2>3. n \in a .. n
    BY <1>3, <2>1, <2>2
  <2> QED BY <2>1, <2>2, <2>3
<1>6. m + 1 .. Len(events) = {}
  BY <1>3, <1>5
<1>7. Resume(c, lastId[c] + 1 .. m, <<>>)
  BY <1>1, <1>4, <1>5
<1> QED BY <1>1, <1>6, <1>7, ResumeKeeps

LEMMA ReplayKeeps == ASSUME StreamInv, NEW c \in Clients, Replay(c) PROVE StreamInv'
<1>1. /\ link[c] = "replay" /\ gap' = gap /\ LogStands
      /\ Resume(c, backlog[c], queue[c])
  BY DEF Replay, LogStands, logVars
<1>2. PICK m \in lastId[c] .. Len(events) :
        backlog[c] = lastId[c] + 1 .. m /\ m + 1 .. Len(events) \subseteq gap[c]
  BY <1>1 DEF StreamInv, Replaying
<1>3. Resume(c, lastId[c] + 1 .. m, queue[c])
  BY <1>1, <1>2
<1> QED BY <1>1, <1>2, <1>3, ResumeKeeps

\* What the head of the queue says of the events behind it.
LEMMA HeadOfQueue ==
  ASSUME StreamInv, NEW c \in Clients, queue[c] # <<>>
  PROVE  /\ Head(queue[c]) \in Event /\ Tail(queue[c]) \in Seq(Event)
         /\ Head(queue[c]).id \in Nat /\ Head(queue[c]).id <= nextId
         /\ Stored(Head(queue[c])) =>
              Head(queue[c]).id \in DOMAIN events /\ events[Head(queue[c]).id] = Head(queue[c])
         /\ Head(queue[c]).type = "quota" => Head(queue[c]).id \in Quotas
         /\ LogStands /\ queue'[c] = Tail(queue[c]) => Queued(c)'
         /\ link[c] = "follow" =>
              \A i \in seen[c] + 1 .. Len(events) :
                /\ Head(queue[c]).id <= i
                /\ events[i] # Head(queue[c]) =>
                     \E j \in DOMAIN Tail(queue[c]) : Tail(queue[c])[j] = events[i]
<1>1. Numbered /\ LinkTypes /\ Queued(c) /\ Following(c)
  BY DEF StreamInv
<1>2. PICK q : q = queue[c]
  OBVIOUS
<1>3. q \in Seq(Event) /\ q # <<>>
  BY <1>1, <1>2 DEF LinkTypes
<1>4. PICK t : t = Tail(q)
  OBVIOUS
<1>5. /\ Head(q) \in Event /\ t \in Seq(Event) /\ Len(t) = Len(q) - 1
      /\ \A i \in 1 .. Len(t) : t[i] = q[i + 1]
  BY <1>3, <1>4, HeadTailProperties
<1>6. /\ Len(q) \in Nat \ {0} /\ DOMAIN q = 1 .. Len(q) /\ DOMAIN t = 1 .. Len(q) - 1
      /\ \A i \in DOMAIN q : q[i] \in Event
  BY <1>3, <1>5, EmptySeq, LenProperties
<1>7. PICK e : e = q[1]
  OBVIOUS
<1>8. Head(q) = e /\ 1 \in DOMAIN q
  BY <1>3, <1>6, <1>7
<1>9. /\ \A i, j \in DOMAIN q : i < j => q[i].id <= q[j].id
      /\ \A i \in DOMAIN q :
           /\ q[i].id \in Nat /\ q[i].id <= nextId
           /\ Stored(q[i]) => \E k \in DOMAIN events : q[i] = events[k]
           /\ q[i].type = "quota" => q[i].id \in Quotas
  BY <1>1, <1>2, <1>6, EventFields DEF Queued
<1>10. e.id \in Nat /\ e.id <= nextId /\ (e.type = "quota" => e.id \in Quotas)
  BY <1>7, <1>8, <1>9
<1>11. Stored(e) => e.id \in DOMAIN events /\ events[e.id] = e
  <2> SUFFICES ASSUME Stored(e) PROVE e.id \in DOMAIN events /\ events[e.id] = e
    OBVIOUS
  <2>1. PICK k \in DOMAIN events : e = events[k]
    BY <1>7, <1>8, <1>9
  <2> QED BY <1>1, <2>1 DEF Numbered
<1>12. ASSUME LogStands, queue'[c] = t PROVE Queued(c)'
  <2>1. Quotas' = Quotas /\ events' = events /\ nextId' = nextId
    BY <1>12, QuotasStand DEF LogStands
  <2>2. \A i \in DOMAIN t : i + 1 \in DOMAIN q /\ t[i] = q[i + 1] /\ i \in Nat
    BY <1>5, <1>6
  <2>3. \A i \in DOMAIN t :
          /\ t[i].id <= nextId
          /\ Stored(t[i]) => \E k \in DOMAIN events : t[i] = events[k]
          /\ t[i].type = "quota" => t[i].id \in Quotas
    BY <1>9, <2>2
  <2>4. \A i, j \in DOMAIN t : i < j => t[i].id <= t[j].id
    <3> SUFFICES ASSUME NEW i \in DOMAIN t, NEW j \in DOMAIN t, i < j PROVE t[i].id <= t[j].id
      OBVIOUS
    <3>1. i + 1 < j + 1
      BY <2>2
    <3> QED BY <1>9, <2>2, <3>1
  <2> QED BY <1>12, <2>1, <2>3, <2>4 DEF Queued, Stored
<1>13. ASSUME link[c] = "follow", NEW i \in seen[c] + 1 .. Len(events)
       PROVE  e.id <= i /\ (events[i] # e => \E j \in DOMAIN t : t[j] = events[i])
  <2>1. PICK j \in DOMAIN q : q[j] = events[i]
    BY <1>1, <1>2, <1>13 DEF Following
  <2>2. i \in DOMAIN events /\ i \in Nat
    <3>1. seen[c] \in Nat /\ Len(events) \in Nat /\ DOMAIN events = 1 .. Len(events)
      BY <1>1, LogLength DEF LinkTypes, Numbered
    <3> QED BY <3>1
  <2>3. events[i].id = i
    BY <1>1, <2>2 DEF Numbered
  <2>4. CASE j = 1
    BY <1>7, <2>1, <2>2, <2>3, <2>4
  <2>5. CASE j # 1
    <3>1. 1 < j /\ j - 1 \in DOMAIN t /\ j - 1 + 1 = j
      BY <1>6, <2>5
    <3>2. e.id <= i
      BY <1>7, <1>8, <1>9, <2>1, <2>3, <3>1
    <3>3. t[j - 1] = events[i]
      BY <1>5, <1>6, <2>1, <3>1
    <3> QED BY <3>1, <3>2, <3>3
  <2> QED BY <2>4, <2>5
<1> QED BY <1>2, <1>4, <1>5, <1>8, <1>10, <1>11, <1>12, <1>13

\* The generator drops the head of the queue; the window's state stands.
LEMMA DroppingKeeps ==
  ASSUME StreamInv, LogStands, NEW c \in Clients, link[c] = "follow", queue[c] # <<>>,
         UNCHANGED <<link, backlog, lastId, got, gap>>, watching' \in [Clients -> BOOLEAN],
         queue' = [queue EXCEPT ![c] = Tail(@)],
         \/ seen' = seen /\ (Stored(Head(queue[c])) => Head(queue[c]).id <= seen[c])
         \/ /\ seen' = [seen EXCEPT ![c] = Head(queue[c]).id]
            /\ Head(queue[c]).id > seen[c] /\ Head(queue[c]).type = "quota"
  PROVE  StreamInv'
<1>1. Numbered /\ LinkTypes /\ Ingested(c) /\ Queued(c) /\ Following(c)
  BY DEF StreamInv
<1>2. PICK e : e = Head(queue[c])
  OBVIOUS
<1>3. PICK t : t = Tail(queue[c])
  OBVIOUS
<1>4. /\ e \in Event /\ t \in Seq(Event) /\ e.id \in Nat /\ e.id <= nextId
      /\ e.type = "quota" => e.id \in Quotas
      /\ queue'[c] = t => Queued(c)'
      /\ \A i \in seen[c] + 1 .. Len(events) :
           e.id <= i /\ (events[i] # e => \E j \in DOMAIN t : t[j] = events[i])
  BY <1>2, <1>3, HeadOfQueue
<1>5. queue' \in [Clients -> Seq(Event)] /\ queue'[c] = t
      /\ \A d \in Clients \ {c} : queue'[d] = queue[d]
  BY <1>1, <1>3, <1>4 DEF LinkTypes
<1>6. seen' \in [Clients -> Nat] /\ \A d \in Clients \ {c} : seen'[d] = seen[d]
  BY <1>1, <1>2, <1>4 DEF LinkTypes
<1>7. LinkTypes'
  BY <1>1, <1>5, <1>6 DEF LinkTypes
<1>8. \A d \in Clients \ {c} : Alone(d)
  BY <1>5, <1>6 DEF Alone
<1>9. Ingested(c)'
  BY <1>1, IngestedStands
<1>10. Queued(c)'
  BY <1>4, <1>5
<1>11. Replaying(c)'
  BY DEF Replaying
<1>12. Quotas' = Quotas /\ events' = events /\ nextId' = nextId /\ nextId = Len(events) + 1
  BY <1>1, QuotasStand DEF LogStands, Numbered
<1>13. PICK n \in Nat : n = Len(events)
  BY <1>1, LogLength DEF Numbered
<1>14. \A i \in seen[c] + 1 .. n : i \in Nat /\ events[i].id = i /\ Stored(events[i])
  <2>1. seen[c] \in Nat /\ DOMAIN events = 1 .. n
    BY <1>1, <1>13, LogLength DEF LinkTypes, Numbered
  <2> QED BY <1>1, <2>1 DEF Numbered
<1>15. /\ seen[c] \in lastId[c] .. nextId /\ lastId[c] \in Nat /\ seen[c] \in Nat
       /\ lastId[c] + 1 .. seen[c] \subseteq gap[c] \cup Quotas
  BY <1>1 DEF Following, LinkTypes
<1>16. Following(c)'
  <2>1. CASE seen' = seen /\ (Stored(e) => e.id <= seen[c])
    <3>1. \A i \in seen[c] + 1 .. n : events[i] # e
      BY <1>14, <1>15, <2>1
    <3>2. \A i \in seen[c] + 1 .. Len(events) : \E j \in DOMAIN t : t[j] = events[i]
      BY <1>4, <1>13, <3>1
    <3> QED BY <1>5, <1>12, <1>15, <2>1, <3>2 DEF Following
  <2>2. CASE seen' = [seen EXCEPT ![c] = e.id] /\ e.id > seen[c] /\ e.type = "quota"
    <3>1. seen'[c] = e.id
      BY <1>1, <2>2 DEF LinkTypes
    <3>2. e.id \in lastId[c] .. nextId
      BY <1>4, <1>12, <1>13, <1>15, <2>2
    <3>3. \A i \in lastId[c] + 1 .. e.id : i \in gap[c] \cup Quotas
      <4> SUFFICES ASSUME NEW i \in lastId[c] + 1 .. e.id PROVE i \in gap[c] \cup Quotas
        OBVIOUS
      <4>1. CASE i <= seen[c]
        BY <1>15, <4>1
      <4>2. CASE i = e.id
        BY <1>4, <2>2, <4>2
      <4>3. CASE ~(i <= seen[c]) /\ i # e.id
        <5>1. i \in seen[c] + 1 .. n /\ i < e.id
          BY <1>4, <1>12, <1>13, <1>15, <4>3
        <5> QED BY <1>4, <1>13, <5>1
      <4> QED BY <4>1, <4>2, <4>3
    <3>4. ~Stored(e)
      BY <2>2 DEF Stored, StoredTypes
    <3>5. \A i \in e.id + 1 .. n : i \in seen[c] + 1 .. n
      BY <1>4, <1>15, <2>2
    <3>6. \A i \in e.id + 1 .. n : \E j \in DOMAIN t : t[j] = events[i]
      BY <1>4, <1>13, <1>14, <3>4, <3>5
    <3> QED BY <1>5, <1>12, <1>13, <3>1, <3>2, <3>3, <3>6 DEF Following
  <2> QED BY <1>2, <2>1, <2>2
<1> QED BY <1>7, <1>8, <1>9, <1>10, <1>11, <1>16, OneWindowMoves

LEMMA TakeKeeps == ASSUME StreamInv, NEW c \in Clients, Take(c) PROVE StreamInv'
<1>0. Numbered /\ LinkTypes /\ Ingested(c) /\ Queued(c) /\ Following(c)
  BY DEF StreamInv
<1>1. PICK e : e = Head(queue[c])
  OBVIOUS
<1>2. /\ link[c] = "follow" /\ queue[c] # <<>> /\ LogStands /\ gap' = gap
      /\ IF IsTransient(e)
         THEN /\ Receive(c, e)
              /\ queue' = [queue EXCEPT ![c] = Tail(@)]
              /\ UNCHANGED <<link, backlog, seen>>
         ELSE IF e.id <= seen[c]
         THEN /\ queue' = [queue EXCEPT ![c] = Tail(@)]
              /\ UNCHANGED <<link, backlog, seen, lastId, got, watching>>
         ELSE /\ seen' = [seen EXCEPT ![c] = e.id]
              /\ Receive(c, e)
              /\ IF e.type = "end"
                   THEN Close(c)
                   ELSE /\ queue' = [queue EXCEPT ![c] = Tail(@)]
                        /\ UNCHANGED <<link, backlog>>
  BY <1>1 DEF Take, LogStands, logVars
<1>3. PICK t : t = Tail(queue[c])
  OBVIOUS
<1>4. /\ e \in Event /\ t \in Seq(Event) /\ e.id \in Nat /\ e.id <= nextId
      /\ Stored(e) => e.id \in DOMAIN events /\ events[e.id] = e
      /\ queue'[c] = t => Queued(c)'
      /\ \A i \in seen[c] + 1 .. Len(events) :
           e.id <= i /\ (events[i] # e => \E j \in DOMAIN t : t[j] = events[i])
  BY <1>1, <1>2, <1>3, HeadOfQueue
<1>5. ASSUME ~Stored(e), Receive(c, e)
      PROVE  UNCHANGED <<lastId, got>> /\ watching' \in [Clients -> BOOLEAN]
  BY <1>0, <1>5 DEF Receive, Ingests, LinkTypes
<1>6. CASE IsTransient(e)
  <2>1. ~Stored(e)
    BY <1>6 DEF IsTransient, Stored, StoredTypes
  <2>2. UNCHANGED <<lastId, got>> /\ watching' \in [Clients -> BOOLEAN]
    BY <1>2, <1>5, <1>6, <2>1
  <2> QED BY <1>1, <1>2, <1>6, <2>1, <2>2, DroppingKeeps
<1>7. CASE ~IsTransient(e) /\ e.id <= seen[c]
  <2>1. watching' \in [Clients -> BOOLEAN]
    BY <1>0, <1>2, <1>7 DEF LinkTypes
  <2> QED BY <1>1, <1>2, <1>7, <2>1, DroppingKeeps
<1>8. CASE ~IsTransient(e) /\ ~(e.id <= seen[c]) /\ ~Stored(e)
  <2>1. e.type = "quota"
    BY <1>4, <1>8, EventFields DEF IsTransient, Stored, TransientTypes
  <2>2. UNCHANGED <<lastId, got>> /\ watching' \in [Clients -> BOOLEAN]
    BY <1>2, <1>5, <1>8
  <2>3. e.id > seen[c]
    BY <1>0, <1>4, <1>8 DEF LinkTypes
  <2> QED BY <1>1, <1>2, <1>8, <2>1, <2>2, <2>3, DroppingKeeps
<1>9. CASE ~IsTransient(e) /\ ~(e.id <= seen[c]) /\ Stored(e)
  <2>1. PICK k : k = e.id
    OBVIOUS
  <2>2. PICK n \in Nat : n = Len(events)
    BY <1>0, LogLength DEF Numbered
  <2>3. k \in DOMAIN events /\ events[k] = e /\ k \in Nat /\ DOMAIN events = 1 .. n
        /\ nextId = n + 1
    BY <1>0, <1>4, <1>9, <2>1, <2>2, LogLength DEF Numbered
  <2>4. /\ seen' = [seen EXCEPT ![c] = k] /\ Receive(c, e)
        /\ IF e.type = "end"
             THEN Close(c)
             ELSE /\ queue' = [queue EXCEPT ![c] = Tail(@)]
                  /\ UNCHANGED <<link, backlog>>
    BY <1>2, <1>9, <2>1
  <2>5. /\ seen[c] \in Nat /\ lastId[c] \in Nat /\ lastId[c] <= seen[c] /\ seen[c] < k
        /\ lastId[c] + 1 .. seen[c] \subseteq gap[c] \cup Quotas
    <3>1. seen[c] \in Nat /\ lastId[c] \in Nat
      BY <1>0 DEF LinkTypes
    <3>2. seen[c] \in lastId[c] .. nextId /\ lastId[c] + 1 .. seen[c] \subseteq gap[c] \cup Quotas
      BY <1>0, <1>2 DEF Following
    <3>3. seen[c] < k
      BY <1>9, <2>1, <2>3, <3>1
    <3> QED BY <2>3, <3>1, <3>2, <3>3
  <2>6. \A i \in lastId[c] + 1 .. k - 1 : i \in gap[c] \cup Behind
    <3> SUFFICES ASSUME NEW i \in lastId[c] + 1 .. k - 1 PROVE i \in gap[c] \cup Behind
      OBVIOUS
    <3>1. CASE i <= seen[c]
      <4>1. i \in gap[c] \cup Quotas
        BY <2>5, <3>1
      <4>2. i # nextId
        BY <2>3, <2>5
      <4> QED BY <4>1, <4>2 DEF Quotas
    <3>2. CASE ~(i <= seen[c])
      <4>1. i \in seen[c] + 1 .. n /\ i < k
        BY <2>2, <2>3, <2>5, <3>2
      <4> QED BY <1>4, <2>1, <2>2, <4>1
    <3> QED BY <3>1, <3>2
  <2>7. Receive(c, events[k])
    BY <2>3, <2>4
  <2>8. k > lastId[c]
    BY <2>3, <2>5
  <2>9. Ingested(c)' /\ lastId'[c] = k
    BY <1>0, <1>2, <2>3, <2>6, <2>7, <2>8, ReceiveIngests
  <2>10. /\ lastId' \in [Clients -> Nat] /\ got' \in [Clients -> Seq(Nat)]
         /\ watching' \in [Clients -> BOOLEAN]
         /\ \A d \in Clients \ {c} : lastId'[d] = lastId[d] /\ got'[d] = got[d]
    BY <1>0, <1>4, <2>4, ReceiveDoes
  <2>11. /\ seen' \in [Clients -> Nat] /\ seen'[c] = k
         /\ \A d \in Clients \ {c} : seen'[d] = seen[d]
    BY <1>0, <2>3, <2>4 DEF LinkTypes
  <2>12. CASE e.type = "end"
    <3>1. Close(c)
      BY <2>4, <2>12
    <3>2. /\ link' \in [Clients -> {"down", "replay", "follow"}]
          /\ backlog' \in [Clients -> SUBSET Nat] /\ queue' \in [Clients -> Seq(Event)]
          /\ link'[c] = "down" /\ queue'[c] = <<>>
          /\ \A d \in Clients \ {c} :
               link'[d] = link[d] /\ backlog'[d] = backlog[d] /\ queue'[d] = queue[d]
      BY <1>0, <3>1, CloseDoes
    <3>3. LinkTypes'
      BY <1>0, <1>2, <2>10, <2>11, <3>2 DEF LinkTypes
    <3>4. \A d \in Clients \ {c} : Alone(d)
      BY <1>2, <2>10, <2>11, <3>2 DEF Alone
    <3> QED BY <1>2, <2>9, <3>2, <3>3, <3>4, ClosedStands, OneWindowMoves
  <2>13. CASE e.type # "end"
    <3>1. queue' = [queue EXCEPT ![c] = Tail(@)] /\ UNCHANGED <<link, backlog>>
      BY <2>4, <2>13
    <3>2. queue' \in [Clients -> Seq(Event)] /\ queue'[c] = t
          /\ \A d \in Clients \ {c} : queue'[d] = queue[d]
      BY <1>0, <1>3, <1>4, <3>1 DEF LinkTypes
    <3>3. LinkTypes'
      BY <1>0, <1>2, <2>10, <2>11, <3>1, <3>2 DEF LinkTypes
    <3>4. \A d \in Clients \ {c} : Alone(d)
      BY <1>2, <2>10, <2>11, <3>1, <3>2 DEF Alone
    <3>5. Queued(c)'
      BY <1>4, <3>2
    <3>6. Replaying(c)'
      BY <1>2, <3>1 DEF Replaying
    <3>7. events' = events /\ nextId' = nextId
      BY <1>2 DEF LogStands
    <3>8. Following(c)'
      <4>1. seen'[c] \in lastId'[c] .. nextId'
        BY <2>3, <2>9, <2>11, <3>7
      <4>2. lastId'[c] + 1 .. seen'[c] = {}
        BY <2>3, <2>9, <2>11
      <4>3. \A i \in k + 1 .. n : \E j \in DOMAIN t : t[j] = events[i]
        <5> SUFFICES ASSUME NEW i \in k + 1 .. n PROVE \E j \in DOMAIN t : t[j] = events[i]
          OBVIOUS
        <5>1. i \in seen[c] + 1 .. n /\ i \in DOMAIN events /\ i # k
          BY <2>3, <2>5
        <5>2. events[i].id = i
          BY <1>0, <5>1 DEF Numbered
        <5>3. events[i] # e
          BY <2>1, <5>1, <5>2
        <5> QED BY <1>4, <2>2, <5>1, <5>3
      <4> QED BY <2>2, <2>11, <3>2, <3>7, <4>1, <4>2, <4>3 DEF Following
    <3> QED BY <1>2, <2>9, <3>3, <3>4, <3>5, <3>6, <3>8, OneWindowMoves
  <2> QED BY <2>12, <2>13
<1> QED BY <1>6, <1>7, <1>8, <1>9

--------------------------------------------------------------------------------
(* Every event once and in order *)

LEMMA StreamStarts == StreamInit => StreamInv
<1> SUFFICES ASSUME StreamInit PROVE StreamInv
  OBVIOUS
<1>1. <<>> \in Seq(Event) /\ <<>> \in Seq(Nat) /\ Len(<<>>) = 0 /\ DOMAIN <<>> = {}
  BY EmptySeq
<1>2. /\ alive = TRUE /\ status = "none" /\ step = "idle" /\ outcome = "error"
      /\ events = <<>> /\ nextId = 1 /\ serial = 0
  BY DEF StreamInit, LogInit
<1>3. Numbered
  BY <1>1, <1>2 DEF Numbered
<1>4. /\ link = [c \in Clients |-> "down"]
      /\ backlog = [c \in Clients |-> {}] /\ queue = [c \in Clients |-> <<>>]
      /\ seen = [c \in Clients |-> 0] /\ lastId = [c \in Clients |-> 0]
      /\ watching \in [Clients -> BOOLEAN]
      /\ got = [c \in Clients |-> <<>>] /\ gap = [c \in Clients |-> {}]
  BY DEF StreamInit
<1>5. LinkTypes
  <2>1. {} \in SUBSET Nat /\ 0 \in Nat
    OBVIOUS
  <2> QED BY <1>1, <1>4, <2>1 DEF LinkTypes
<1>6. ASSUME NEW c \in Clients
      PROVE  Ingested(c) /\ Queued(c) /\ Replaying(c) /\ Following(c)
  <2>1. link[c] = "down" /\ queue[c] = <<>> /\ lastId[c] = 0 /\ got[c] = <<>>
    BY <1>4
  <2>2. DOMAIN queue[c] = {} /\ DOMAIN got[c] = {} /\ Len(events) = 0
    BY <1>1, <1>2, <2>1
  <2>3. Ingested(c)
    BY <2>1, <2>2 DEF Ingested
  <2> QED BY <2>1, <2>2, <2>3 DEF Queued, Replaying, Following
<1> QED BY <1>3, <1>5, <1>6 DEF StreamInv

LEMMA StreamNextKeeps == StreamInv /\ [StreamNext]_vars => StreamInv'
<1> SUFFICES ASSUME StreamInv, [StreamNext]_vars PROVE StreamInv'
  OBVIOUS
<1>1. CASE Publish
  BY <1>1, PublishKeeps
<1>2. CASE PublishQuota
  BY <1>2, PublishQuotaKeeps
<1>3. CASE PublishDelta
  BY <1>3, PublishDeltaKeeps
<1>4. ASSUME NEW c \in Clients, Connect(c) \/ Serve(c) \/ Drop(c) \/ Attach(c) PROVE StreamInv'
  <2>1. watching \in [Clients -> BOOLEAN]
    BY DEF StreamInv, LinkTypes
  <2>2. CASE Connect(c)
    BY <2>2, ConnectKeeps
  <2>3. CASE Replay(c)
    BY <2>3, ReplayKeeps
  <2>4. CASE Take(c)
    BY <2>4, TakeKeeps
  <2>5. CASE KeepAlive(c)
    <3>1. LogStands /\ Close(c) /\ UNCHANGED <<seen, lastId, got, gap, watching>>
      BY <2>5 DEF KeepAlive, LogStands, logVars
    <3> QED BY <2>1, <3>1, ClosingKeeps
  <2>6. CASE Drop(c)
    <3>1. LogStands /\ Close(c) /\ UNCHANGED <<seen, lastId, got, gap, watching>>
      BY <2>6 DEF Drop, LogStands, logVars
    <3> QED BY <2>1, <3>1, ClosingKeeps
  <2>7. CASE Attach(c)
    <3>1. LogStands /\ Close(c) /\ UNCHANGED <<seen, lastId, got, gap>>
          /\ watching' = [watching EXCEPT ![c] = TRUE]
      BY <2>7 DEF Attach, LogStands, logVars
    <3>2. watching' \in [Clients -> BOOLEAN]
      BY <2>1, <3>1
    <3> QED BY <3>1, <3>2, ClosingKeeps
  <2> QED BY <1>4, <2>2, <2>3, <2>4, <2>5, <2>6, <2>7 DEF Serve
<1>5. ASSUME UNCHANGED streamVars, Numbered', events' = events, nextId' = nextId, Quotas' = Quotas,
             Behind' = Behind
      PROVE  StreamInv'
  <2>1. LinkTypes'
    BY <1>5 DEF StreamInv, LinkTypes, streamVars
  <2>2. ASSUME NEW c \in Clients
        PROVE  Ingested(c)' /\ Queued(c)' /\ Replaying(c)' /\ Following(c)'
    <3>1. Ingested(c) /\ Queued(c) /\ Replaying(c) /\ Following(c) /\ UNCHANGED streamVars
      BY <1>5 DEF StreamInv
    <3>2. Ingested(c)'
      BY <1>5, <3>1 DEF Ingested, Range, streamVars
    <3>3. Queued(c)'
      BY <1>5, <3>1 DEF Queued, Stored, streamVars
    <3>4. Replaying(c)'
      BY <1>5, <3>1 DEF Replaying, streamVars
    <3>5. Following(c)'
      BY <1>5, <3>1 DEF Following, streamVars
    <3> QED BY <3>2, <3>3, <3>4, <3>5
  <2> QED BY <1>5, <2>1, <2>2 DEF StreamInv
<1>6. CASE Settle /\ UNCHANGED streamVars
  <2>1. Numbered
    BY DEF StreamInv
  <2>2. /\ step = "settle" /\ step' = "idle" /\ status' = outcome
        /\ UNCHANGED <<alive, outcome, events, nextId, serial>>
    BY <1>6 DEF Settle
  <2>3. Numbered'
    BY <2>1, <2>2 DEF Numbered, Stored
  <2>4. Behind' = Behind /\ Quotas' = Quotas
    BY <2>2 DEF Behind, BehindQuota, Quotas
  <2> QED BY <1>5, <1>6, <2>2, <2>3, <2>4
<1>7. CASE UNCHANGED vars
  <2>1. LogStands /\ UNCHANGED streamVars
    BY <1>7 DEF vars, logVars, LogStands, streamVars
  <2>2. Numbered'
    BY <2>1 DEF StreamInv, Numbered, LogStands, Stored
  <2> QED BY <1>5, <2>1, <2>2, QuotasStand DEF LogStands
<1> QED BY <1>1, <1>2, <1>3, <1>4, <1>6, <1>7 DEF StreamNext

LEMMA StreamInvInOrder == StreamInv => InOrderOnce
<1> SUFFICES ASSUME StreamInv, NEW c \in Clients
             PROVE  /\ \A i, j \in DOMAIN got[c] : i < j => got[c][i] < got[c][j]
                    /\ \A e \in Skipped(c) : e.n \in gap[c] \/ BehindQuota(e)
  BY DEF InOrderOnce
<1>1. Numbered /\ Ingested(c) /\ lastId[c] \in Nat
  BY DEF StreamInv, LinkTypes
<1>2. ASSUME NEW e \in Skipped(c) PROVE e.n \in gap[c] \/ BehindQuota(e)
  <2>1. PICK i \in DOMAIN events : e = events[i]
    BY DEF Skipped, Range
  <2>2. e.id = i /\ e.n = i /\ i <= lastId[c] /\ i \notin Range(got[c])
    BY <1>1, <2>1 DEF Skipped, Numbered
  <2>3. i \in 1 .. lastId[c]
    BY <1>1, <2>2, LogLength DEF Numbered
  <2>4. i \in gap[c] \cup Behind
    BY <1>1, <2>2, <2>3 DEF Ingested
  <2> QED BY <2>1, <2>2, <2>4 DEF Behind
<1> QED BY <1>1, <1>2 DEF Ingested

(* Whatever links break and however often a window reconnects, it ingests each *)
(* event at most once and in order, and never gets only what was recorded      *)
(* during its replay or a FINISH behind a relayed quota (_stream and           *)
(* SessionState.ingest).                                                       *)
THEOREM EventsInOrderOnce == StreamSpec => []InOrderOnce
<1>1. StreamInit => StreamInv
  BY StreamStarts
<1>2. StreamInv /\ [StreamNext]_vars => StreamInv'
  BY StreamNextKeeps
<1>3. StreamInv => InOrderOnce
  BY StreamInvInOrder
<1> QED BY <1>1, <1>2, <1>3, PTL DEF StreamSpec

(* Serving windows changes nothing that a session records: the streamed log is *)
(* the log of SessionLog.                                                      *)
THEOREM StreamsServeTheLog == StreamSpec => LogSpec
<1>1. StreamInit => LogInit
  BY DEF StreamInit
<1>2. [StreamNext]_vars => [LogNext]_logVars
  <2> SUFFICES ASSUME [StreamNext]_vars PROVE [LogNext]_logVars
    OBVIOUS
  <2>1. CASE Publish
    BY <2>1 DEF Publish, LogNext
  <2>2. CASE PublishQuota
    BY <2>2 DEF PublishQuota, LogNext
  <2>3. CASE PublishDelta
    BY <2>3 DEF PublishDelta
  <2>4. CASE Settle /\ UNCHANGED streamVars
    BY <2>4 DEF LogNext
  <2>5. ASSUME NEW c \in Clients, Connect(c) \/ Serve(c) \/ Drop(c) \/ Attach(c)
        PROVE  UNCHANGED logVars
    BY <2>5 DEF Connect, Serve, Replay, Take, KeepAlive, Drop, Attach
  <2>6. CASE UNCHANGED vars
    BY <2>6 DEF vars
  <2> QED BY <2>1, <2>2, <2>3, <2>4, <2>5, <2>6 DEF StreamNext
<1> QED BY <1>1, <1>2, PTL DEF StreamSpec, LogSpec

--------------------------------------------------------------------------------
(* Approvals *)


Granted(c) == \E d \in Granting : <<c, d>> \in accepted

\* Both threads are on a call of the run whenever they use one.
OnACall ==
  /\ worker.at \notin {"running", "over"} => worker.call \in Calls
  /\ handler.at \in {"found", "in time", "stored", "extending", "releasing"}
       => handler.call \in Calls
  /\ handler.at = "extending" => ext[handler.call] < MaxExt

\* What the two threads rely on about each other.
Shape == TypeOK /\ OnACall

\* An answer is behind every approval that reads as approved.
ApprovedByAnAnswer == \A c \in Calls : approved[c] => Granted(c)

\* No extension promised more than the deadline the worker reads.
PromiseIsKept == \A c \in Calls : promised[c] <= Deadline(ext[c])

Cause(c) == <<c, "reject">> \in receipts \/ RejectStored(c) \/ aborted \/ timedOut[c]

\* A handler stores and sets what it was asked to.
HandlerDoesWhatItWasAsked ==
  /\ handler.at = "stored" => handler.ask \in Decisions \cup {"abort"}
  /\ handler.at \in {"found", "in time"} => handler.ask \in Decisions
  /\ handler.at \in {"aborting", "releasing"} => handler.ask = "abort"
  /\ handler.ask = "abort" => aborted
  /\ handler.at = "stored" /\ handler.ask \in Granting => approved[handler.call]

\* The worker reads a decision only once it is set, and one that is set and
\* reads as a refusal has a cause.
DecidedForACause ==
  /\ \A c \in Calls : decided[c] => approved[c] \/ Cause(c)
  /\ worker.at \in {"woken", "reading", "run edited", "run asked"} => decided[worker.call]

-----------------------------------------------------------------------------
(* Deadlines *)

\* A deadline is a time, and an extension moves it later (deadline_in).
LEMMA DeadlineGrows ==
  ASSUME NEW m \in Nat, NEW n \in Nat, m <= n
  PROVE  Deadline(m) \in Nat /\ Deadline(m) <= Deadline(n)
<1>1. Timeout \in Nat
  BY ApprovalAssumption
<1>2. PICK k \in Nat : n = m + k
  <2>1. n - m \in Nat
    OBVIOUS
  <2> QED BY <2>1
<1>3. Timeout * (1 + n) = Timeout * (1 + m) + Timeout * k
  BY <1>1, <1>2
<1>4. Timeout * k \in Nat /\ Timeout * (1 + m) \in Nat
  BY <1>1
<1> QED BY <1>3, <1>4 DEF Deadline

-----------------------------------------------------------------------------
(* The two threads stay in step *)

\* A run starts with an empty table.
LEMMA ShapeInit == Init => Shape
<1> SUFFICES ASSUME Init PROVE Shape
  OBVIOUS
<1>1. 0 \in 0 .. Deadline(MaxExt) /\ 0 \in 0 .. MaxExt
  BY DeadlineGrows, ApprovalAssumption
<1>2. ApprovalTypeOK /\ HistoryTypeOK
  BY <1>1 DEF Init, ApprovalTypeOK, HistoryTypeOK
<1>3. ThreadTypeOK
  BY DEF Init, ThreadTypeOK, WorkerPlaces, HandlerPlaces, Idle, Results
<1>4. OnlyWhileWaiting /\ OnACall
  BY DEF Init, OnlyWhileWaiting, OnACall, Idle
<1> QED BY <1>2, <1>3, <1>4 DEF Shape, TypeOK

\* The fields of a PendingApproval keep their types.
LEMMA ShapeApproval == Shape /\ [Next]_approvalVars => ApprovalTypeOK'
<1> SUFFICES ASSUME Shape, [Next]_approvalVars PROVE ApprovalTypeOK'
  OBVIOUS
<1> USE DEF Shape, TypeOK, ApprovalTypeOK
<1>1. CASE GiveUp
  BY <1>1 DEF GiveUp
<1>2. CASE EndRun
  BY <1>2 DEF EndRun
<1>3. CASE DecideStore
  <2>1. (handler.ask \in Granting) \in BOOLEAN
    OBVIOUS
  <2>2. approved' \in [Calls -> BOOLEAN]
    BY <1>3, <2>1, Zenon DEF DecideStore
  <2> QED BY <1>3, <2>2 DEF DecideStore
<1>4. CASE DecideSet
  BY <1>4 DEF DecideSet
<1>5. CASE ExtendGrant
  BY <1>5, ApprovalAssumption DEF ExtendGrant, OnACall, HandlerAt
<1>6. CASE ReleaseRefuse
  BY <1>6 DEF ReleaseRefuse
<1>7. CASE Tick
  <2>1. Deadline(MaxExt) \in Nat
    BY DeadlineGrows, ApprovalAssumption
  <2> QED BY <1>7, <2>1 DEF Tick
<1>8. CASE \E c \in Calls, d \in Decisions : DecideFind(c, d)
  BY <1>8 DEF DecideFind
<1>9. CASE UNCHANGED <<age, decided, approved, edited, ext, timedOut>>
  BY <1>9
<1> QED
  BY <1>1, <1>2, <1>3, <1>4, <1>5, <1>6, <1>7, <1>8, <1>9
  DEF Next, Worker, Handler, Register, WakeDecided, WakeExpired, Pop, ReadArguments,
      ReadApproved, DecideCheck, Release, Abort, Reach, ExtendFind, approvalVars, pendingVars

\* So do the records of what was answered.
LEMMA ShapeHistory == Shape /\ [Next]_approvalVars => HistoryTypeOK'
<1> SUFFICES ASSUME Shape, [Next]_approvalVars PROVE HistoryTypeOK'
  OBVIOUS
<1> USE DEF Shape, TypeOK, HistoryTypeOK
<1>1. CASE DecideStore
  <2>1. handler.call \in Calls
    BY <1>1 DEF DecideStore, OnACall, HandlerAt
  <2>2. handler.ask \in Granting => <<handler.call, handler.ask>> \in Calls \X Granting
    BY <2>1
  <2>3. accepted' \subseteq Calls \X Granting
    BY <1>1, <2>2, Zenon DEF DecideStore
  <2> QED BY <1>1, <2>3 DEF DecideStore
<1>2. CASE DecideSet
  BY <1>2 DEF DecideSet, OnACall, HandlerAt
<1>3. CASE ExtendGrant
  <2>1. handler.call \in Calls /\ ext[handler.call] + 1 \in 0 .. MaxExt
    BY <1>3, ApprovalAssumption DEF ExtendGrant, HandlerAt, OnACall, ApprovalTypeOK
  <2>2. Deadline(ext[handler.call] + 1) \in 0 .. Deadline(MaxExt)
    BY <2>1, DeadlineGrows, ApprovalAssumption
  <2>3. ext'[handler.call] = ext[handler.call] + 1
    BY <1>3, <2>1 DEF ExtendGrant, ApprovalTypeOK
  <2> QED BY <1>3, <2>1, <2>2, <2>3 DEF ExtendGrant
<1>4. CASE UNCHANGED historyVars
  BY <1>4 DEF historyVars
<1> QED
  BY <1>1, <1>2, <1>3, <1>4
  DEF Next, Worker, Handler, Register, WakeDecided, WakeExpired, Pop, GiveUp, ReadArguments,
      ReadApproved, EndRun, DecideCheck, ReleaseRefuse, Release, Abort, Tick, Reach, ExtendFind,
      DecideFind, approvalVars, historyVars

\* And what the two threads rely on about each other.
LEMMA ShapeThreads ==
  Shape /\ [Next]_approvalVars => ThreadTypeOK' /\ OnlyWhileWaiting' /\ OnACall'
<1> SUFFICES ASSUME Shape, [Next]_approvalVars
             PROVE  ThreadTypeOK' /\ OnlyWhileWaiting' /\ OnACall'
  OBVIOUS
<1> USE DEF Shape, TypeOK, ThreadTypeOK, OnlyWhileWaiting, OnACall, WorkerPlaces, HandlerPlaces
<1>1. CASE Register
  BY <1>1 DEF Register, WorkerAt, Go
<1>2. CASE WakeDecided
  BY <1>2 DEF WakeDecided, WorkerAt, Go, pendingVars
<1>3. CASE WakeExpired
  BY <1>3 DEF WakeExpired, WorkerAt, Go, pendingVars
<1>4. CASE Pop
  <2>1. table' = {}
    BY <1>4 DEF Pop
  <2>2. worker.call \in Calls
    BY <1>4 DEF Pop, WorkerAt
  <2>3. PICK pc \in {"giving up", "reading"} : worker' = [at |-> pc, call |-> worker.call]
    BY <1>4 DEF Pop, Go
  <2> QED BY <1>4, <2>1, <2>2, <2>3 DEF Pop
<1>5. CASE GiveUp
  BY <1>5 DEF GiveUp, WorkerAt, Go, Results
<1>6. CASE ReadArguments
  BY <1>6 DEF ReadArguments, WorkerAt, Go, pendingVars
<1>7. CASE ReadApproved
  BY <1>7 DEF ReadApproved, WorkerAt, Go, pendingVars, Results
<1>8. CASE EndRun
  BY <1>8 DEF EndRun, WorkerAt, Go
<1>9. CASE DecideCheck
  <2>1. CASE handler' = Idle
    BY <1>9, <2>1 DEF DecideCheck, Idle, pendingVars
  <2>2. CASE Handle("in time")
    BY <1>9, <2>2 DEF DecideCheck, HandlerAt, Handle, pendingVars
  <2> QED BY <1>9, <2>1, <2>2 DEF DecideCheck
<1>10. CASE DecideStore
  BY <1>10 DEF DecideStore, HandlerAt, Handle
<1>11. CASE DecideSet
  BY <1>11 DEF DecideSet, HandlerAt, Idle
<1>12. CASE ExtendGrant
  BY <1>12 DEF ExtendGrant, HandlerAt, Idle
<1>13. CASE Release
  <2>1. CASE handler' = Idle
    BY <1>13, <2>1 DEF Release, Idle, pendingVars
  <2>2. ASSUME NEW c \in table, handler' = [at |-> "releasing", call |-> c, ask |-> "abort"]
        PROVE  ThreadTypeOK' /\ OnlyWhileWaiting' /\ OnACall'
    BY <1>13, <2>2 DEF Release, pendingVars
  <2> QED BY <1>13, <2>1, <2>2 DEF Release
<1>14. CASE ReleaseRefuse
  BY <1>14 DEF ReleaseRefuse, HandlerAt, Handle
<1>15. CASE Abort
  BY <1>15 DEF Abort, Idle, pendingVars
<1>16. CASE Tick
  BY <1>16 DEF Tick
<1>17. ASSUME NEW c \in Calls, Reach(c)
       PROVE  ThreadTypeOK' /\ OnlyWhileWaiting' /\ OnACall'
  BY <1>17 DEF Reach, WorkerAt, pendingVars
<1>18. ASSUME NEW c \in Calls, ExtendFind(c)
       PROVE  ThreadTypeOK' /\ OnlyWhileWaiting' /\ OnACall'
  BY <1>18 DEF ExtendFind, Idle, pendingVars
<1>19. ASSUME NEW c \in Calls, NEW d \in Decisions, DecideFind(c, d)
       PROVE  ThreadTypeOK' /\ OnlyWhileWaiting' /\ OnACall'
  BY <1>19 DEF DecideFind, Idle
<1>20. CASE UNCHANGED approvalVars
  BY <1>20 DEF approvalVars, pendingVars
<1> QED BY <1>1, <1>2, <1>3, <1>4, <1>5, <1>6, <1>7, <1>8, <1>9, <1>10, <1>11, <1>12, <1>13,
          <1>14, <1>15, <1>16, <1>17, <1>18, <1>19, <1>20
       DEF Next, Worker, Handler

\* No step of either thread breaks the shape.
LEMMA ShapeStep == Shape /\ [Next]_approvalVars => Shape'
  BY ShapeApproval, ShapeThreads, ShapeHistory DEF Shape, TypeOK

\* Every field keeps its type, and at most the one call the worker is on is in
\* the table of approvals (Loopback.approvals), whatever the handlers do.
THEOREM TypeCorrect == Spec => []TypeOK
<1>1. Spec => []Shape
  BY ShapeInit, ShapeStep, PTL DEF Spec
<1>2. Shape => TypeOK
  BY DEF Shape
<1> QED BY <1>1, <1>2, PTL

-----------------------------------------------------------------------------
(* Nothing runs that nobody accepted *)

\* Only a stored acceptance makes an approval read as approved.
LEMMA AcceptanceStep ==
  Shape /\ ApprovedByAnAnswer /\ OnlyAnAcceptanceRuns /\ [Next]_approvalVars
    => ApprovedByAnAnswer' /\ OnlyAnAcceptanceRuns'
<1> SUFFICES ASSUME Shape, ApprovedByAnAnswer, OnlyAnAcceptanceRuns, [Next]_approvalVars
             PROVE  ApprovedByAnAnswer' /\ OnlyAnAcceptanceRuns'
  OBVIOUS
<1>0. /\ approved \in [Calls -> BOOLEAN] /\ result \in [Calls -> Results]
      /\ worker.at \notin {"running", "over"} => worker.call \in Calls
      /\ handler.at \in {"in time", "stored", "releasing"} => handler.call \in Calls
  BY DEF Shape, TypeOK, ApprovalTypeOK, ThreadTypeOK, OnACall
<1>1. accepted \subseteq accepted'
  BY DEF Next, Worker, Handler, Register, WakeDecided, WakeExpired, Pop, GiveUp, ReadArguments,
      ReadApproved, EndRun, DecideCheck, DecideStore, DecideSet, ExtendGrant, ReleaseRefuse,
      Release, Abort, Tick, Reach, ExtendFind, DecideFind, approvalVars, historyVars
<1>2. \A c \in Calls : Granted(c) => Granted(c)'
  BY <1>1 DEF Granted
<1> USE DEF ApprovedByAnAnswer, OnlyAnAcceptanceRuns, Ran
<1>3. CASE GiveUp
  BY <1>3, <1>0, <1>2 DEF GiveUp, WorkerAt, Granted
<1>4. CASE ReadApproved
  <2>1. worker.call \in Calls
    BY <1>4, <1>0 DEF ReadApproved
  <2>2. \A c \in Calls : result'[c] \in {"ran asked", "ran edited"}
                           => result[c] = result'[c] \/ approved[c]
    BY <1>4, <1>0, <2>1 DEF ReadApproved
  <2> QED BY <1>4, <1>2, <2>2 DEF ReadApproved, pendingVars, Granted
<1>5. CASE EndRun
  BY <1>5, <1>0, <1>2 DEF EndRun, Granted
<1>6. CASE DecideStore
  <2>1. handler.call \in Calls
    BY <1>6, <1>0 DEF DecideStore, HandlerAt
  <2>2. handler.ask \in Granting => <<handler.call, handler.ask>> \in accepted'
    BY <1>6 DEF DecideStore
  <2>3. approved'[handler.call] => handler.ask \in Granting
    BY <1>6, <1>0, <2>1 DEF DecideStore
  <2>4. ASSUME NEW c \in Calls, approved'[c] PROVE Granted(c)'
    <3>1. CASE c = handler.call
      BY <2>2, <2>3, <2>4, <3>1 DEF Granted
    <3>2. CASE c # handler.call
      <4>1. approved'[c] = approved[c]
        BY <1>6, <1>0, <2>1, <3>2 DEF DecideStore
      <4> QED BY <1>2, <2>4, <4>1
    <3> QED BY <3>1, <3>2
  <2> QED BY <1>6, <1>2, <2>4 DEF DecideStore, Granted
<1>7. CASE ReleaseRefuse
  BY <1>7, <1>0, <1>2 DEF ReleaseRefuse, HandlerAt, Granted
<1>8. CASE UNCHANGED <<approved, result>>
  BY <1>8, <1>2 DEF Granted
<1> QED
  BY <1>3, <1>4, <1>5, <1>6, <1>7, <1>8
  DEF Next, Worker, Handler, Register, WakeDecided, WakeExpired, Pop, ReadArguments, DecideCheck,
      DecideSet, ExtendGrant, Release, Abort, Tick, Reach, ExtendFind, DecideFind, approvalVars,
      pendingVars

\* A call that ran was accepted first; no timeout, abort, release or end of the
\* run lets one through (Loopback._await_decision, _release).
THEOREM NothingRunsUnaccepted == Spec => []OnlyAnAcceptanceRuns
<1>1. Init => ApprovedByAnAnswer /\ OnlyAnAcceptanceRuns
  BY DEF Init, ApprovedByAnAnswer, OnlyAnAcceptanceRuns, Ran
<1>2. Spec => [](Shape /\ ApprovedByAnAnswer /\ OnlyAnAcceptanceRuns)
  BY <1>1, ShapeInit, ShapeStep, AcceptanceStep, PTL DEF Spec
<1> QED BY <1>2, PTL

-----------------------------------------------------------------------------
(* An extension is honoured *)

\* Nothing is promised at first.
LEMMA PromiseInit == Init => PromiseIsKept
<1> SUFFICES ASSUME Init, NEW c \in Calls PROVE promised[c] <= Deadline(ext[c])
  BY DEF PromiseIsKept
<1>1. promised[c] = 0 /\ ext[c] = 0
  BY DEF Init
<1>2. Deadline(0) \in Nat
  BY DeadlineGrows
<1> QED BY <1>1, <1>2

\* Every grant moves the promise and the deadline together.
LEMMA PromiseStep == Shape /\ PromiseIsKept /\ [Next]_approvalVars => PromiseIsKept'
<1> SUFFICES ASSUME Shape, PromiseIsKept, [Next]_approvalVars PROVE PromiseIsKept'
  OBVIOUS
<1> USE DEF PromiseIsKept
<1>1. CASE ExtendGrant
  <2>1. handler.call \in Calls /\ ext[handler.call] + 1 \in Nat
        /\ ext \in [Calls -> 0 .. MaxExt] /\ promised \in [Calls -> 0 .. Deadline(MaxExt)]
    BY <1>1, ApprovalAssumption
    DEF ExtendGrant, HandlerAt, Shape, TypeOK, ApprovalTypeOK, HistoryTypeOK, OnACall
  <2>2. Deadline(ext[handler.call] + 1) \in Nat
    BY <2>1, DeadlineGrows
  <2>3. ASSUME NEW c \in Calls PROVE promised'[c] <= Deadline(ext'[c])
    <3>1. CASE c = handler.call
      <4>1. ext'[c] = ext[handler.call] + 1 /\ promised'[c] = Deadline(ext'[c])
        BY <1>1, <2>1, <3>1 DEF ExtendGrant
      <4> QED BY <4>1, <2>2
    <3>2. CASE c # handler.call
      <4>1. ext'[c] = ext[c] /\ promised'[c] = promised[c]
        BY <1>1, <2>1, <3>2 DEF ExtendGrant
      <4> QED BY <4>1
    <3> QED BY <3>1, <3>2
  <2> QED BY <2>3
<1>2. CASE UNCHANGED <<ext, promised>>
  BY <1>2
<1> QED
  BY <1>1, <1>2
  DEF Next, Worker, Handler, Register, WakeDecided, WakeExpired, Pop, GiveUp, ReadArguments,
      ReadApproved, EndRun, DecideCheck, DecideStore, DecideSet, Release, ReleaseRefuse, Abort,
      Tick, Reach, ExtendFind, DecideFind, approvalVars, pendingVars, historyVars

\* The worker gives up no earlier than any extension granted before it looked
\* said it would (PendingApproval.deadline_in, BUG EXT-1).
THEOREM ExtensionsAreHonoured == Spec => NoRefusalBeforeThePromise
<1>1. Spec => [](Shape /\ PromiseIsKept)
  BY ShapeInit, ShapeStep, PromiseInit, PromiseStep, PTL DEF Spec
<1>2. Shape /\ PromiseIsKept /\ [Next]_approvalVars
        => [worker.at = "waiting" /\ worker'.at = "expired"
              => age[worker.call] >= promised[worker.call]]_approvalVars
  <2> SUFFICES ASSUME Shape, PromiseIsKept, [Next]_approvalVars,
                      worker.at = "waiting", worker'.at = "expired"
               PROVE  age[worker.call] >= promised[worker.call]
    OBVIOUS
  <2>1. WakeExpired
    <3>1. CASE Worker
      BY <3>1 DEF Worker, Register, WakeDecided, Pop, GiveUp, ReadArguments, ReadApproved, EndRun,
                  WorkerAt, Go
    <3>2. ASSUME NEW c \in Calls, Reach(c) PROVE FALSE
      BY <3>2 DEF Reach
    <3>3. CASE UNCHANGED worker
      BY <3>3
    <3> QED
      BY <3>1, <3>2, <3>3
      DEF Next, Handler, DecideCheck, DecideStore, DecideSet, ExtendGrant, Release, ReleaseRefuse,
          Abort, Tick, ExtendFind, DecideFind, approvalVars
  <2>2. worker.call \in Calls
    BY DEF Shape, OnACall
  <2>3. ext[worker.call] \in Nat /\ age[worker.call] \in Nat /\ promised[worker.call] \in Nat
    BY <2>2, DeadlineGrows, ApprovalAssumption
    DEF Shape, TypeOK, ApprovalTypeOK, HistoryTypeOK
  <2>4. Deadline(ext[worker.call]) \in Nat
    BY <2>3, DeadlineGrows
  <2>5. promised[worker.call] <= Deadline(ext[worker.call])
    BY <2>2 DEF PromiseIsKept
  <2> QED BY <2>1, <2>3, <2>4, <2>5 DEF WakeExpired, Expired
<1> QED BY <1>1, <1>2, PTL DEF Spec, NoRefusalBeforeThePromise

-----------------------------------------------------------------------------
(* Every refusal has a cause *)

\* No step of the worker changes what a handler is about to do.
LEMMA HandlerStep ==
  Shape /\ HandlerDoesWhatItWasAsked /\ [Next]_approvalVars => HandlerDoesWhatItWasAsked'
<1> SUFFICES ASSUME Shape, HandlerDoesWhatItWasAsked, [Next]_approvalVars
             PROVE  HandlerDoesWhatItWasAsked'
  OBVIOUS
<1>0. /\ approved \in [Calls -> BOOLEAN] /\ (table # {} => ~WorkerAt("running"))
      /\ handler.at \in {"found", "in time", "stored", "releasing"} => handler.call \in Calls
  BY DEF Shape, TypeOK, ApprovalTypeOK, OnACall, OnlyWhileWaiting, WorkerAt
<1> USE DEF HandlerDoesWhatItWasAsked
<1>1. CASE EndRun
  BY <1>0, <1>1 DEF EndRun
<1>2. CASE DecideCheck
  <2>1. CASE handler' = Idle
    BY <1>2, <2>1 DEF DecideCheck, Idle, pendingVars
  <2>2. CASE Handle("in time")
    BY <1>2, <2>2 DEF DecideCheck, HandlerAt, Handle, pendingVars
  <2> QED BY <1>2, <2>1, <2>2 DEF DecideCheck
<1>3. CASE DecideStore
  BY <1>0, <1>3 DEF DecideStore, HandlerAt, Handle, Decisions
<1>4. CASE DecideSet
  BY <1>4 DEF DecideSet, Idle
<1>5. CASE ExtendGrant
  BY <1>5 DEF ExtendGrant, Idle
<1>6. CASE Release
  <2>1. CASE handler' = Idle
    BY <1>6, <2>1 DEF Release, Idle, pendingVars
  <2>2. ASSUME NEW c \in table, handler' = [at |-> "releasing", call |-> c, ask |-> "abort"]
        PROVE  HandlerDoesWhatItWasAsked'
    BY <1>6, <2>2 DEF Release, HandlerAt
  <2> QED BY <1>6, <2>1, <2>2 DEF Release
<1>7. CASE ReleaseRefuse
  BY <1>7 DEF ReleaseRefuse, HandlerAt, Handle, Granting
<1>8. CASE Abort
  BY <1>8 DEF Abort
<1>9. ASSUME NEW c \in Calls, ExtendFind(c) PROVE HandlerDoesWhatItWasAsked'
  BY <1>9 DEF ExtendFind
<1>10. ASSUME NEW c \in Calls, NEW d \in Decisions, DecideFind(c, d)
       PROVE HandlerDoesWhatItWasAsked'
  BY <1>10 DEF DecideFind, Decisions
<1>11. CASE UNCHANGED <<handler, approved, aborted>>
  BY <1>11
<1> QED
  BY <1>1, <1>2, <1>3, <1>4, <1>5, <1>6, <1>7, <1>8, <1>9, <1>10, <1>11
  DEF Next, Worker, Handler, Register, WakeDecided, WakeExpired, Pop, GiveUp, ReadArguments,
      ReadApproved, Tick, Reach, approvalVars, pendingVars

\* A cause stays one: a reject that is stored is answered.
LEMMA CauseStays ==
  ASSUME Shape, [Next]_approvalVars, NEW c \in Calls, Cause(c)
  PROVE  Cause(c)'
<1>0. timedOut \in [Calls -> BOOLEAN]
      /\ (handler.at = "stored" => handler.call \in Calls)
      /\ worker.at \notin {"running", "over"} => worker.call \in Calls
  BY DEF Shape, TypeOK, ApprovalTypeOK, OnACall
<1> USE DEF Cause
<1>1. CASE RejectStored(c)
  <2>1. CASE DecideSet
    BY <1>1, <2>1 DEF DecideSet, RejectStored, Decisions
  <2>2. CASE UNCHANGED handler
    BY <1>1, <2>2 DEF RejectStored
  <2> QED
    BY <1>1, <2>1, <2>2
    DEF Next, Worker, Handler, Register, WakeDecided, WakeExpired, Pop, GiveUp, ReadArguments,
        ReadApproved, EndRun, DecideCheck, DecideStore, ExtendGrant, Release, ReleaseRefuse, Abort,
        Tick, Reach, ExtendFind, DecideFind, approvalVars, HandlerAt, RejectStored, Idle
<1>2. CASE <<c, "reject">> \in receipts
  <2>1. receipts \subseteq receipts'
    BY DEF Next, Worker, Handler, Register, WakeDecided, WakeExpired, Pop, GiveUp, ReadArguments,
        ReadApproved, EndRun, DecideCheck, DecideStore, DecideSet, ExtendGrant, Release,
        ReleaseRefuse, Abort, Tick, Reach, ExtendFind, DecideFind, approvalVars, historyVars
  <2> QED BY <1>2, <2>1
<1>3. CASE aborted
  <2>1. aborted'
    BY <1>3
    DEF Next, Worker, Handler, Register, WakeDecided, WakeExpired, Pop, GiveUp, ReadArguments,
        ReadApproved, EndRun, DecideCheck, DecideStore, DecideSet, ExtendGrant, Release,
        ReleaseRefuse, Abort, Tick, Reach, ExtendFind, DecideFind, approvalVars
  <2> QED BY <2>1
<1>4. CASE timedOut[c]
  <2>1. CASE GiveUp
    <3>1. timedOut' = [timedOut EXCEPT ![worker.call] = TRUE]
      BY <2>1 DEF GiveUp
    <3>2. timedOut'[c] = TRUE
      BY <1>0, <1>4, <3>1
    <3> QED BY <3>2
  <2>2. CASE UNCHANGED timedOut
    BY <1>4, <2>2
  <2> QED
    BY <2>1, <2>2
    DEF Next, Worker, Handler, Register, WakeDecided, WakeExpired, Pop, ReadArguments,
        ReadApproved, EndRun, DecideCheck, DecideStore, DecideSet, ExtendGrant, Release,
        ReleaseRefuse, Abort, Tick, Reach, ExtendFind, DecideFind, approvalVars, pendingVars
<1> QED BY <1>1, <1>2, <1>3, <1>4

\* What the worker reads as a refusal has a cause by then.
LEMMA CauseStep ==
  Shape /\ HandlerDoesWhatItWasAsked /\ DecidedForACause /\ RefusalHasACause /\ [Next]_approvalVars
    => DecidedForACause' /\ RefusalHasACause'
<1> SUFFICES ASSUME Shape, HandlerDoesWhatItWasAsked, DecidedForACause, RefusalHasACause,
                    [Next]_approvalVars
             PROVE  DecidedForACause' /\ RefusalHasACause'
  OBVIOUS
<1>0. /\ approved \in [Calls -> BOOLEAN] /\ decided \in [Calls -> BOOLEAN]
      /\ timedOut \in [Calls -> BOOLEAN] /\ result \in [Calls -> Results]
      /\ worker.at \notin {"running", "over"} => worker.call \in Calls
      /\ handler.at \in {"found", "in time", "stored", "releasing"} => handler.call \in Calls
      /\ worker.at = "running" => table = {}
      /\ \A c \in Calls : result[c] = "refused" => Cause(c)
  BY DEF Shape, TypeOK, ApprovalTypeOK, ThreadTypeOK, OnACall, OnlyWhileWaiting,
         RefusalHasACause, Cause
<1>1. \A c \in Calls : Cause(c) => Cause(c)'
  BY CauseStays
<1>2. SUFFICES /\ \A c \in Calls : decided'[c] => approved'[c] \/ Cause(c)'
               /\ worker'.at \in {"woken", "reading", "run edited", "run asked"}
                    => decided'[worker'.call]
               /\ \A c \in Calls : result'[c] = "refused" => Cause(c)'
  BY DEF DecidedForACause, RefusalHasACause, Cause
<1>3. /\ \A c \in Calls : decided[c] => approved[c] \/ Cause(c)
      /\ worker.at \in {"woken", "reading", "run edited", "run asked"} => decided[worker.call]
  BY DEF DecidedForACause
<1>4. CASE WakeDecided
  BY <1>0, <1>1, <1>3, <1>4 DEF WakeDecided, WorkerAt, Go, pendingVars
<1>5. CASE GiveUp
  <2>1. \A c \in Calls : c = worker.call => timedOut'[c]
    BY <1>0, <1>5 DEF GiveUp
  <2>2. \A c \in Calls : c = worker.call => Cause(c)'
    BY <2>1 DEF Cause
  <2>3. \A c \in Calls : c # worker.call => result'[c] = result[c]
    BY <1>0, <1>5 DEF GiveUp
  <2>4. worker'.at = "running"
    BY <1>5 DEF GiveUp, Go
  <2> QED BY <1>0, <1>1, <1>3, <1>5, <2>2, <2>3, <2>4 DEF GiveUp
<1>6. CASE ReadApproved
  <2>1. worker.call \in Calls /\ decided[worker.call]
    BY <1>0, <1>3, <1>6 DEF ReadApproved
  <2>2. \A c \in Calls : result'[c] = "refused"
                           => result[c] = "refused" \/ (c = worker.call /\ ~approved[c])
    BY <1>0, <1>6, <2>1 DEF ReadApproved
  <2>3. worker'.at = "running"
    BY <1>6 DEF ReadApproved, Go
  <2> QED BY <1>0, <1>1, <1>3, <1>6, <2>1, <2>2, <2>3 DEF ReadApproved, pendingVars
<1>7. CASE EndRun
  BY <1>0, <1>1, <1>3, <1>7 DEF EndRun, WorkerAt, Go
<1>8. CASE DecideStore
  <2>1. handler.call \in Calls /\ handler.ask \in Decisions
    BY <1>0, <1>8 DEF DecideStore, HandlerAt, HandlerDoesWhatItWasAsked
  <2>2. ASSUME NEW c \in Calls, decided'[c] PROVE approved'[c] \/ Cause(c)'
    <3>1. CASE c # handler.call
      <4>1. approved'[c] = approved[c] /\ decided[c]
        BY <1>0, <1>8, <2>1, <2>2, <3>1 DEF DecideStore
      <4> QED BY <1>1, <1>3, <4>1
    <3>2. CASE c = handler.call /\ handler.ask \in Granting
      BY <1>0, <1>8, <2>1, <3>2 DEF DecideStore
    <3>3. CASE c = handler.call /\ handler.ask \notin Granting
      <4>1. handler.ask = "reject"
        BY <2>1, <3>3 DEF Decisions, Granting
      <4>2. RejectStored(c)'
        BY <1>8, <3>3, <4>1 DEF DecideStore, Handle, RejectStored
      <4> QED BY <4>2 DEF Cause
    <3> QED BY <3>1, <3>2, <3>3
  <2> QED BY <1>0, <1>1, <1>3, <1>8, <2>2 DEF DecideStore
<1>9. CASE DecideSet
  <2>1. handler.call \in Calls
    BY <1>0, <1>9 DEF DecideSet, HandlerAt
  <2>2. approved[handler.call] \/ Cause(handler.call)
    BY <1>9 DEF DecideSet, HandlerAt, HandlerDoesWhatItWasAsked, Decisions, Granting, Cause,
                RejectStored, Shape, TypeOK, ThreadTypeOK
  <2>3. \A c \in Calls : decided'[c] => decided[c] \/ c = handler.call
    BY <1>0, <1>9, <2>1 DEF DecideSet
  <2>4. \A c \in Calls : decided[c] => decided'[c]
    BY <1>0, <1>9, <2>1 DEF DecideSet
  <2>5. approved' = approved /\ worker' = worker /\ result' = result
    BY <1>9 DEF DecideSet
  <2> QED BY <1>0, <1>1, <1>3, <2>1, <2>2, <2>3, <2>4, <2>5
<1>10. CASE ReleaseRefuse
  <2>1. handler.call \in Calls /\ aborted
    BY <1>0, <1>10 DEF ReleaseRefuse, HandlerAt, HandlerDoesWhatItWasAsked
  <2>2. aborted'
    BY <1>10, <2>1 DEF ReleaseRefuse
  <2>3. \A c \in Calls : Cause(c)'
    BY <2>2 DEF Cause
  <2> QED BY <1>0, <1>3, <1>10, <2>3 DEF ReleaseRefuse
<1>11. ASSUME UNCHANGED <<approved, decided, result>>,
              worker'.at \in {"woken", "reading", "run edited", "run asked"}
                => decided[worker'.call]
       PROVE  /\ \A c \in Calls : decided'[c] => approved'[c] \/ Cause(c)'
              /\ worker'.at \in {"woken", "reading", "run edited", "run asked"}
                   => decided'[worker'.call]
              /\ \A c \in Calls : result'[c] = "refused" => Cause(c)'
  BY <1>0, <1>1, <1>3, <1>11
<1>12. CASE Pop \/ ReadArguments
  <2>1. UNCHANGED <<approved, decided, result>>
    BY <1>12 DEF Pop, ReadArguments, pendingVars
  <2>2. ASSUME Pop
        PROVE  \/ worker'.at = "giving up"
               \/ worker'.call = worker.call /\ worker.at = "woken"
    <3>1. CASE WorkerAt("expired") /\ Go("giving up")
      BY <3>1 DEF Go
    <3>2. CASE WorkerAt("woken") /\ Go("reading")
      BY <3>2 DEF Go, WorkerAt
    <3> QED BY <2>2, <3>1, <3>2 DEF Pop
  <2>3. ASSUME ReadArguments PROVE worker'.call = worker.call /\ worker.at = "reading"
    BY <2>3 DEF ReadArguments, Go, WorkerAt
  <2> QED BY <1>3, <1>11, <1>12, <2>1, <2>2, <2>3
<1>13. CASE Register \/ WakeExpired \/ \E c \in Calls : Reach(c)
  <2>1. UNCHANGED <<approved, decided, result>>
    BY <1>13 DEF Register, WakeExpired, Reach, pendingVars
  <2>2. worker'.at \in {"announcing", "waiting", "expired"}
    BY <1>13 DEF Register, WakeExpired, Reach, Go
  <2> QED BY <1>11, <2>1, <2>2
<1>14. CASE UNCHANGED <<worker, approved, decided, result>>
  BY <1>3, <1>11, <1>14
<1> QED
  BY <1>4, <1>5, <1>6, <1>7, <1>8, <1>9, <1>10, <1>12, <1>13, <1>14
  DEF Next, Worker, Handler, DecideCheck, ExtendGrant, Release, Abort, Tick, ExtendFind,
      DecideFind, approvalVars, pendingVars

\* A call the run did not execute was rejected by somebody, was stopped with the
\* run, or timed out; a race of the two threads refuses nothing by itself
\* (Loopback._await_decision, decide, abort).
THEOREM EveryRefusalHasACause == Spec => []RefusalHasACause
<1>1. Init => HandlerDoesWhatItWasAsked /\ DecidedForACause /\ RefusalHasACause
  BY DEF Init, HandlerDoesWhatItWasAsked, DecidedForACause, RefusalHasACause, Idle
<1>2. Spec => [](/\ Shape /\ HandlerDoesWhatItWasAsked /\ DecidedForACause /\ RefusalHasACause)
  BY <1>1, ShapeInit, ShapeStep, HandlerStep, CauseStep, PTL DEF Spec
<1> QED BY <1>2, PTL

================================================================================
