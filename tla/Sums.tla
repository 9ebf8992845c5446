---------------------------------- MODULE Sums ----------------------------------
(***************************************************************************)
(* The sum of a function's values over a finite set, and the facts about   *)
(* it that the proofs of the components rest on.                           *)
(***************************************************************************)
EXTENDS Integers, FiniteSets, FiniteSetTheorems, WellFoundedInduction, TLAPS

\* f[x] over the x of S.
SumOf(f, S) ==
  LET sum[T \in SUBSET S] ==
        IF T = {} THEN 0 ELSE LET x == CHOOSE x \in T : TRUE IN f[x] + sum[T \ {x}]
  IN  sum[S]

--------------------------------------------------------------------------------
(* The recursion *)

TakenFirst(T) == CHOOSE x \in T : TRUE
TheRest(T) == T \ {TakenFirst(T)}

\* g gives every subset of S its sum.
Totals(g, f, S) == g = [T \in SUBSET S |-> IF T = {} THEN 0 ELSE f[TakenFirst(T)] + g[TheRest(T)]]

(* Among subsets of a finite set that are bad, one has only good ones below it. *)
LEMMA LeastOne ==
  ASSUME NEW S, IsFiniteSet(S), NEW Bad \in SUBSET SUBSET S, Bad # {}
  PROVE  \E T \in Bad : \A U \in SUBSET T : U # T => U \notin Bad
<1>1. IsWellFoundedOn(StrictSubsetOrdering(S), SUBSET S)
  BY FS_StrictSubsetOrderingWellFounded, FS_FiniteSubsetsOfFinite
<1>2. PICK T \in Bad : \A U \in Bad : ~(<<U, T>> \in StrictSubsetOrdering(S))
  BY <1>1, WFMin
<1>3. ASSUME NEW U \in SUBSET T, U # T, U \in Bad PROVE FALSE
  <2>1. <<U, T>> \in StrictSubsetOrdering(S)
    BY <1>2, <1>3 DEF StrictSubsetOrdering
  <2> QED BY <1>2, <1>3, <2>1
<1> QED BY <1>2, <1>3

LEMMA OneIsThere ==
  ASSUME NEW T, T # {}
  PROVE  TakenFirst(T) \in T /\ TheRest(T) \in SUBSET T /\ TheRest(T) # T
<1>1. TakenFirst(T) \in T
  BY DEF TakenFirst
<1> QED BY <1>1 DEF TheRest

\* What g says of one subset.
LEMMA SumsAt ==
  ASSUME NEW f, NEW S, NEW g, Totals(g, f, S)
  PROVE  \A T \in SUBSET S :
           /\ T = {} => g[T] = 0
           /\ T # {} => TakenFirst(T) \in T /\ g[T] = f[TakenFirst(T)] + g[TheRest(T)]
<1>1. \A T \in SUBSET S : g[T] = IF T = {} THEN 0 ELSE f[TakenFirst(T)] + g[TheRest(T)]
  BY DEF Totals
<1> QED BY <1>1, OneIsThere

(* Two sets give a subset of both the same sum. *)
LEMMA SumsAgree ==
  ASSUME NEW f, NEW S, NEW g, Totals(g, f, S), NEW R, NEW h, Totals(h, f, R),
         NEW T \in SUBSET S, T \subseteq R, IsFiniteSet(T)
  PROVE  g[T] = h[T]
<1>0. PICK Bad : Bad = {U \in SUBSET T : g[U] # h[U]}
  OBVIOUS
<1> SUFFICES ASSUME Bad # {} PROVE FALSE
  BY <1>0
<1>1. PICK U \in Bad : \A V \in SUBSET U : V # U => V \notin Bad
  <2>1. Bad \in SUBSET SUBSET T
    BY <1>0
  <2> QED BY <2>1, LeastOne
<1>2. U \in SUBSET S /\ U \in SUBSET R /\ g[U] # h[U] /\ U \in SUBSET T
  BY <1>0
<1>5. \A V \in SUBSET S :
           /\ V = {} => g[V] = 0
           /\ V # {} => TakenFirst(V) \in V /\ g[V] = f[TakenFirst(V)] + g[TheRest(V)]
  BY SumsAt
<1>6. \A V \in SUBSET R :
           /\ V = {} => h[V] = 0
           /\ V # {} => TakenFirst(V) \in V /\ h[V] = f[TakenFirst(V)] + h[TheRest(V)]
  BY SumsAt
<1>3. CASE U = {}
  BY <1>2, <1>3, <1>5, <1>6
<1>4. CASE U # {}
  <2>1. TakenFirst(U) \in U /\ g[U] = f[TakenFirst(U)] + g[TheRest(U)] /\ h[U] = f[TakenFirst(U)] + h[TheRest(U)]
    BY <1>2, <1>4, <1>5, <1>6
  <2>2. TheRest(U) \in SUBSET U /\ TheRest(U) # U
    BY <1>4, OneIsThere
  <2>3. g[TheRest(U)] = h[TheRest(U)]
    BY <1>0, <1>1, <1>2, <2>2
  <2> QED BY <1>2, <2>1, <2>3
<1> QED BY <1>3, <1>4

LEMMA SumIs ==
  ASSUME NEW f, NEW S, NEW g, Totals(g, f, S)
  PROVE  \E k : Totals(k, f, S) /\ SumOf(f, S) = k[S]
<1>1. PICK k : k = CHOOSE h : Totals(h, f, S)
  OBVIOUS
<1>2. Totals(k, f, S)
  BY <1>1
<1>3. SumOf(f, S) = k[S]
  BY <1>1 DEF SumOf, Totals, TakenFirst, TheRest
<1> QED BY <1>2, <1>3

(* The recursion defines a sum for every subset of a finite set. *)
LEMMA SumsExist ==
  ASSUME NEW f, NEW S, IsFiniteSet(S)
  PROVE  \E g : Totals(g, f, S)
<1>0. PICK Bad : Bad = {T \in SUBSET S : ~\E g : Totals(g, f, T)}
  OBVIOUS
<1> SUFFICES ASSUME Bad # {} PROVE FALSE
  BY <1>0
<1>1. PICK T \in Bad : \A U \in SUBSET T : U # T => U \notin Bad
  <2>1. Bad \in SUBSET SUBSET S
    BY <1>0
  <2> QED BY <2>1, LeastOne
<1>8. T \in SUBSET S /\ IsFiniteSet(T) /\ ~\E g : Totals(g, f, T)
  <2>1. T \in SUBSET S
    BY <1>0
  <2> QED BY <1>0, <2>1, FS_Subset
<1>2. ASSUME NEW U \in SUBSET T, U # T
      PROVE  \E k : Totals(k, f, U) /\ SumOf(f, U) = k[U]
  <2>1. \E g : Totals(g, f, U)
    BY <1>0, <1>1, <1>2, <1>8
  <2> QED BY <2>1, SumIs
<1> DEFINE g == [U \in SUBSET T |-> IF U = {} THEN 0 ELSE f[TakenFirst(U)] + SumOf(f, TheRest(U))]
<1>3. ASSUME NEW U \in SUBSET T, U # T PROVE g[U] = SumOf(f, U)
  <2>1. PICK k : Totals(k, f, U) /\ SumOf(f, U) = k[U]
    BY <1>2, <1>3
  <2>2. CASE U = {}
    BY <2>1, <2>2, SumsAt
  <2>3. CASE U # {}
    <3>1. TakenFirst(U) \in U /\ k[U] = f[TakenFirst(U)] + k[TheRest(U)]
      BY <2>1, <2>3, SumsAt
    <3>2. PICK V : V = TheRest(U)
      OBVIOUS
    <3>3. V \in SUBSET T /\ V # T /\ V \in SUBSET U
      BY <1>3, <2>3, <3>2, OneIsThere
    <3>4. PICK h : Totals(h, f, V) /\ SumOf(f, V) = h[V]
      BY <1>2, <3>3
    <3>5. IsFiniteSet(V)
      BY <1>8, <3>3, FS_Subset
    <3>6. k[V] = h[V]
      BY <2>1, <3>3, <3>4, <3>5, SumsAgree
    <3> QED BY <2>1, <2>3, <3>1, <3>2, <3>4, <3>6
  <2> QED BY <2>2, <2>3
<1>4. ASSUME NEW U \in SUBSET T, U # {} PROVE g[TheRest(U)] = SumOf(f, TheRest(U))
  <2>1. TakenFirst(U) \in U
    BY <1>4, OneIsThere
  <2>2. TheRest(U) \in SUBSET T /\ TheRest(U) # T
    BY <1>4, OneIsThere
  <2> QED BY <1>3, <2>2
<1>5. PICK q : q = g
  OBVIOUS
<1>6. \A U \in SUBSET T : g[U] = IF U = {} THEN 0 ELSE f[TakenFirst(U)] + SumOf(f, TheRest(U))
  OBVIOUS
<1> HIDE DEF g
<1>7. q = [U \in SUBSET T |-> IF U = {} THEN 0 ELSE f[TakenFirst(U)] + q[TheRest(U)]]
  <2>1. q = [U \in SUBSET T |-> IF U = {} THEN 0 ELSE f[TakenFirst(U)] + SumOf(f, TheRest(U))]
    BY <1>5 DEF g
  <2>2. \A U \in SUBSET T : U # {} => q[TheRest(U)] = SumOf(f, TheRest(U))
    BY <1>4, <1>5
  <2> QED BY <2>1, <2>2
<1> QED BY <1>7, <1>8 DEF Totals

(* The sum of a finite set is what the recursion gives it, and its subsets theirs. *)
LEMMA SumsOf ==
  ASSUME NEW f, NEW S, IsFiniteSet(S)
  PROVE  \E g : Totals(g, f, S) /\ \A T \in SUBSET S : g[T] = SumOf(f, T)
<1>1. PICK g : Totals(g, f, S)
  BY SumsExist
<1>2. ASSUME NEW T \in SUBSET S PROVE g[T] = SumOf(f, T)
  <2>1. IsFiniteSet(T)
    BY FS_Subset
  <2>2. PICK h : Totals(h, f, T)
    BY <2>1, SumsExist
  <2>3. PICK k : Totals(k, f, T) /\ SumOf(f, T) = k[T]
    BY <2>2, SumIs
  <2> QED BY <1>1, <2>1, <2>3, SumsAgree
<1> QED BY <1>1, <1>2

--------------------------------------------------------------------------------
(* What sums are, and how they change *)

\* f gives every element of S an integer.
Summable(f, S) == \A x \in S : f[x] \in Int

LEMMA SumEmpty == ASSUME NEW f PROVE SumOf(f, {}) = 0
<1>1. IsFiniteSet({})
  BY FS_EmptySet
<1>2. PICK g : Totals(g, f, {}) /\ \A T \in SUBSET {} : g[T] = SumOf(f, T)
  BY <1>1, SumsOf
<1> QED BY <1>2, SumsAt

LEMMA SumInt ==
  ASSUME NEW f, NEW S, IsFiniteSet(S), Summable(f, S)
  PROVE  SumOf(f, S) \in Int
<1>1. PICK g : Totals(g, f, S) /\ \A T \in SUBSET S : g[T] = SumOf(f, T)
  BY SumsOf
<1>2. PICK Bad : Bad = {T \in SUBSET S : g[T] \notin Int}
  OBVIOUS
<1>3. Bad = {}
  <2> SUFFICES ASSUME Bad # {} PROVE FALSE
    OBVIOUS
  <2>1. PICK T \in Bad : \A U \in SUBSET T : U # T => U \notin Bad
    <3>1. Bad \in SUBSET SUBSET S
      BY <1>2
    <3> QED BY <3>1, LeastOne
  <2>2. T \in SUBSET S /\ g[T] \notin Int
    BY <1>2
  <2>3. T # {} /\ g[T] = f[TakenFirst(T)] + g[TheRest(T)]
    BY <1>1, <2>2, SumsAt
  <2>4. TakenFirst(T) \in S /\ TheRest(T) \in SUBSET S /\ g[TheRest(T)] \in Int
    BY <1>2, <2>1, <2>2, <2>3, OneIsThere
  <2> QED BY <2>2, <2>3, <2>4 DEF Summable
<1> QED BY <1>1, <1>2, <1>3

(* The order in which the elements are taken does not matter. *)
LEMMA SumWithout ==
  ASSUME NEW f, NEW S, IsFiniteSet(S), Summable(f, S)
  PROVE  \A x \in S : SumOf(f, S) = f[x] + SumOf(f, S \ {x})
<1>1. PICK g : Totals(g, f, S) /\ \A T \in SUBSET S : g[T] = SumOf(f, T)
  BY SumsOf
<1>2. ASSUME NEW T \in SUBSET S PROVE g[T] \in Int
  <2>1. IsFiniteSet(T) /\ Summable(f, T)
    BY FS_Subset DEF Summable
  <2> QED BY <1>1, <2>1, SumInt
<1>3. PICK Bad : Bad = {T \in SUBSET S : \E x \in T : g[T] # f[x] + g[T \ {x}]}
  OBVIOUS
<1>4. Bad = {}
  <2> SUFFICES ASSUME Bad # {} PROVE FALSE
    OBVIOUS
  <2>1. PICK T \in Bad : \A U \in SUBSET T : U # T => U \notin Bad
    <3>1. Bad \in SUBSET SUBSET S
      BY <1>3
    <3> QED BY <3>1, LeastOne
  <2>2. T \in SUBSET S /\ \E x \in T : g[T] # f[x] + g[T \ {x}]
    BY <1>3
  <2>9. PICK x \in T : g[T] # f[x] + g[T \ {x}]
    BY <2>2
  <2>3. PICK y : y = TakenFirst(T)
    OBVIOUS
  <2>4. y \in T /\ y \in S /\ TheRest(T) = T \ {y} /\ g[T] = f[y] + g[T \ {y}]
    <3>1. T # {} /\ TheRest(T) = T \ {y} /\ g[T] = f[TakenFirst(T)] + g[TheRest(T)]
      BY <1>1, <2>2, <2>3, SumsAt DEF TheRest
    <3> QED BY <2>2, <2>3, <3>1, OneIsThere
  <2>5. y # x
    BY <2>9, <2>4
  <2>6. g[T \ {y}] = f[x] + g[(T \ {y}) \ {x}]
    <3>1. T \ {y} \in SUBSET T /\ T \ {y} # T /\ T \ {y} \in SUBSET S /\ x \in T \ {y}
      BY <2>2, <2>4, <2>5
    <3> QED BY <1>3, <2>1, <3>1
  <2>7. g[T \ {x}] = f[y] + g[(T \ {y}) \ {x}]
    <3>1. T \ {x} \in SUBSET T /\ T \ {x} # T /\ T \ {x} \in SUBSET S /\ y \in T \ {x}
      BY <2>2, <2>4, <2>5
    <3>2. g[T \ {x}] = f[y] + g[(T \ {x}) \ {y}]
      BY <1>3, <2>1, <3>1
    <3>3. (T \ {x}) \ {y} = (T \ {y}) \ {x}
      OBVIOUS
    <3> QED BY <3>2, <3>3
  <2>8. f[x] \in Int /\ f[y] \in Int /\ g[(T \ {y}) \ {x}] \in Int
    <3>1. x \in S /\ (T \ {y}) \ {x} \in SUBSET S
      BY <2>2
    <3> QED BY <1>2, <2>4, <3>1 DEF Summable
  <2> QED BY <2>4, <2>6, <2>7, <2>8, <2>9
<1> QED BY <1>1, <1>3, <1>4

LEMMA SumAdd ==
  ASSUME NEW f, NEW S, IsFiniteSet(S), NEW x, x \notin S, Summable(f, S \cup {x})
  PROVE  SumOf(f, S \cup {x}) = f[x] + SumOf(f, S)
<1>1. PICK T : T = S \cup {x}
  OBVIOUS
<1>2. IsFiniteSet(T) /\ T \ {x} = S /\ x \in T
  BY <1>1, FS_AddElement
<1> QED BY <1>1, <1>2, SumWithout

(* What is bad of no subset once an element can always be taken away from a bad one. *)
LEMMA NoneIsBad ==
  ASSUME NEW S, IsFiniteSet(S), NEW Bad \in SUBSET SUBSET S, {} \notin Bad,
         \A T \in Bad : T # {} => \E x \in T : T \ {x} \in Bad
  PROVE  Bad = {}
<1> SUFFICES ASSUME Bad # {} PROVE FALSE
  OBVIOUS
<1>1. PICK T \in Bad : \A U \in SUBSET T : U # T => U \notin Bad
  BY LeastOne
<1>2. PICK x \in T : T \ {x} \in Bad
  BY <1>1
<1> QED BY <1>1, <1>2

(* A sum of what is nowhere more is not more. *)
LEMMA SumMono ==
  ASSUME NEW S, IsFiniteSet(S), NEW f, NEW g, Summable(f, S), Summable(g, S), \A x \in S : f[x] <= g[x]
  PROVE  SumOf(f, S) <= SumOf(g, S)
<1>1. PICK Bad : Bad = {T \in SUBSET S : ~(SumOf(f, T) <= SumOf(g, T))}
  OBVIOUS
<1>2. {} \notin Bad
  BY <1>1, SumEmpty
<1>3. ASSUME NEW T \in Bad, T # {} PROVE \E x \in T : T \ {x} \in Bad
  <2>1. T \in SUBSET S /\ ~(SumOf(f, T) <= SumOf(g, T))
    BY <1>1
  <2>2. PICK x \in T : TRUE
    BY <1>3
  <2>3. IsFiniteSet(T) /\ IsFiniteSet(T \ {x}) /\ T \ {x} \in SUBSET S
    BY <2>1, FS_Subset
  <2>4. Summable(f, T) /\ Summable(g, T) /\ Summable(f, T \ {x}) /\ Summable(g, T \ {x})
    BY <2>1 DEF Summable
  <2>5. SumOf(f, T) = f[x] + SumOf(f, T \ {x})
    BY <2>3, <2>4, SumWithout
  <2>6. SumOf(g, T) = g[x] + SumOf(g, T \ {x})
    BY <2>3, <2>4, SumWithout
  <2>7. SumOf(f, T \ {x}) \in Int /\ SumOf(g, T \ {x}) \in Int
    BY <2>3, <2>4, SumInt
  <2>8. f[x] \in Int /\ g[x] \in Int /\ f[x] <= g[x]
    BY <2>1, <2>4 DEF Summable
  <2>9. ~(SumOf(f, T \ {x}) <= SumOf(g, T \ {x}))
    BY <2>1, <2>5, <2>6, <2>7, <2>8
  <2> QED BY <1>1, <2>3, <2>9
<1>4. Bad \in SUBSET SUBSET S
  BY <1>1
<1>5. Bad = {}
  BY <1>2, <1>3, <1>4, NoneIsBad
<1> QED BY <1>1, <1>5

(* The sum of sums. *)
LEMMA SumPlus ==
  ASSUME NEW S, IsFiniteSet(S), NEW f, NEW g, NEW h, Summable(f, S), Summable(g, S),
         \A x \in S : h[x] = f[x] + g[x]
  PROVE  SumOf(h, S) = SumOf(f, S) + SumOf(g, S)
<1>0. Summable(h, S)
  BY DEF Summable
<1>1. PICK Bad : Bad = {T \in SUBSET S : SumOf(h, T) # SumOf(f, T) + SumOf(g, T)}
  OBVIOUS
<1>2. {} \notin Bad
  BY <1>1, SumEmpty
<1>3. ASSUME NEW T \in Bad, T # {} PROVE \E x \in T : T \ {x} \in Bad
  <2>1. T \in SUBSET S /\ SumOf(h, T) # SumOf(f, T) + SumOf(g, T)
    BY <1>1
  <2>2. PICK x \in T : TRUE
    BY <1>3
  <2>3. IsFiniteSet(T) /\ IsFiniteSet(T \ {x}) /\ T \ {x} \in SUBSET S
    BY <2>1, FS_Subset
  <2>4. /\ Summable(f, T) /\ Summable(g, T) /\ Summable(h, T)
        /\ Summable(f, T \ {x}) /\ Summable(g, T \ {x}) /\ Summable(h, T \ {x})
    BY <1>0, <2>1 DEF Summable
  <2>5. SumOf(f, T) = f[x] + SumOf(f, T \ {x})
    BY <2>3, <2>4, SumWithout
  <2>6. SumOf(g, T) = g[x] + SumOf(g, T \ {x})
    BY <2>3, <2>4, SumWithout
  <2>7. SumOf(h, T) = h[x] + SumOf(h, T \ {x})
    BY <2>3, <2>4, SumWithout
  <2>8. SumOf(f, T \ {x}) \in Int /\ SumOf(g, T \ {x}) \in Int /\ SumOf(h, T \ {x}) \in Int
    BY <2>3, <2>4, SumInt
  <2>9. f[x] \in Int /\ g[x] \in Int /\ h[x] = f[x] + g[x]
    BY <2>1, <2>4 DEF Summable
  <2>10. SumOf(h, T \ {x}) # SumOf(f, T \ {x}) + SumOf(g, T \ {x})
    BY <2>1, <2>5, <2>6, <2>7, <2>8, <2>9
  <2> QED BY <1>1, <2>3, <2>10
<1>4. Bad \in SUBSET SUBSET S
  BY <1>1
<1>5. Bad = {}
  BY <1>2, <1>3, <1>4, NoneIsBad
<1> QED BY <1>1, <1>5

(* Functions that agree on a set have the same sum over it. *)
LEMMA SumSame ==
  ASSUME NEW S, IsFiniteSet(S), NEW f, NEW g, Summable(f, S), \A x \in S : f[x] = g[x]
  PROVE  SumOf(f, S) = SumOf(g, S)
<1>1. Summable(g, S) /\ \A x \in S : f[x] \in Int /\ g[x] \in Int /\ f[x] <= g[x] /\ g[x] <= f[x]
  BY DEF Summable
<1>2. SumOf(f, S) <= SumOf(g, S) /\ SumOf(g, S) <= SumOf(f, S)
  BY <1>1, SumMono
<1>3. SumOf(f, S) \in Int /\ SumOf(g, S) \in Int
  BY <1>1, SumInt
<1> QED BY <1>2, <1>3

(* When one element alone has another value, the sum changes by the difference. *)
LEMMA SumChanges ==
  ASSUME NEW S, IsFiniteSet(S), NEW f, NEW g, Summable(f, S), Summable(g, S), NEW x \in S,
         \A y \in S : y # x => g[y] = f[y]
  PROVE  SumOf(g, S) = SumOf(f, S) - f[x] + g[x]
<1>1. PICK R : R = S \ {x}
  OBVIOUS
<1>2. IsFiniteSet(R) /\ Summable(f, R) /\ \A y \in R : f[y] = g[y]
  BY <1>1, FS_Subset DEF Summable
<1>3. SumOf(f, R) = SumOf(g, R) /\ SumOf(f, R) \in Int
  BY <1>2, SumSame, SumInt
<1>4. SumOf(f, S) = f[x] + SumOf(f, R)
  BY <1>1, SumWithout
<1>5. SumOf(g, S) = g[x] + SumOf(g, R)
  BY <1>1, SumWithout
<1> QED BY <1>3, <1>4, <1>5 DEF Summable

(* Nothing adds up to nothing. *)
LEMMA SumZero ==
  ASSUME NEW S, IsFiniteSet(S), NEW f, \A x \in S : f[x] = 0
  PROVE  SumOf(f, S) = 0
<1>1. Summable(f, S) /\ \A x \in S : f[x] = f[x] + f[x]
  BY DEF Summable
<1>2. SumOf(f, S) = SumOf(f, S) + SumOf(f, S)
  BY <1>1, SumPlus
<1>3. SumOf(f, S) \in Int
  BY <1>1, SumInt
<1>4. \A n \in Int : n = n + n => n = 0
  OBVIOUS
<1> QED BY <1>2, <1>3, <1>4

(* What adds nothing may be left out. *)
LEMMA SumWithoutZeros ==
  ASSUME NEW S, IsFiniteSet(S), NEW T \in SUBSET S, NEW f, Summable(f, S), \A x \in S \ T : f[x] = 0
  PROVE  SumOf(f, T) = SumOf(f, S)
<1>1. PICK R : R = S \ T
  OBVIOUS
<1>2. PICK Bad : Bad = {U \in SUBSET R : SumOf(f, T \cup U) # SumOf(f, T)}
  OBVIOUS
<1>3. {} \notin Bad
  <2>1. T \cup {} = T
    OBVIOUS
  <2> QED BY <1>2, <2>1
<1>4. ASSUME NEW U \in Bad, U # {} PROVE \E x \in U : U \ {x} \in Bad
  <2>1. U \in SUBSET R /\ SumOf(f, T \cup U) # SumOf(f, T)
    BY <1>2
  <2>2. PICK x \in U : TRUE
    BY <1>4
  <2>3. PICK V : V = T \cup (U \ {x})
    OBVIOUS
  <2>4. V \in SUBSET S /\ x \notin V /\ V \cup {x} = T \cup U /\ V \cup {x} \in SUBSET S /\ f[x] = 0
    BY <1>1, <2>1, <2>2, <2>3
  <2>5. IsFiniteSet(V) /\ Summable(f, V \cup {x}) /\ Summable(f, V)
    BY <2>4, FS_Subset DEF Summable
  <2>6. SumOf(f, V \cup {x}) = f[x] + SumOf(f, V) /\ SumOf(f, V) \in Int
    BY <2>4, <2>5, SumAdd, SumInt
  <2>7. SumOf(f, V) # SumOf(f, T)
    <3>1. SumOf(f, V \cup {x}) = SumOf(f, T \cup U)
      BY <2>4
    <3>2. SumOf(f, V \cup {x}) = SumOf(f, V)
      BY <2>4, <2>6
    <3> QED BY <2>1, <3>1, <3>2
  <2> QED BY <1>2, <2>1, <2>2, <2>3, <2>7
<1>5. IsFiniteSet(R) /\ Bad \in SUBSET SUBSET R /\ R \in SUBSET R
  BY <1>1, <1>2, FS_Subset
<1>6. Bad = {}
  BY <1>3, <1>4, <1>5, NoneIsBad
<1>7. T \cup R = S
  BY <1>1
<1> QED BY <1>2, <1>5, <1>6, <1>7

================================================================================
