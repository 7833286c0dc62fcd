----------------------------- MODULE SumProofs -----------------------------
(***************************************************************************)
(* The sum of a function's values (SumFunction), by which the counters of  *)
(* several instances are read together: it is a number, it is zero when    *)
(* all values are, and a change of one value changes it by as much.        *)
(*                                                                         *)
(* SumFunction is a fold, and a fold is a function chosen by its own       *)
(* equation.  That one exists is the first thing to prove; both it and the *)
(* facts that follow are inductions on the size of a set, each by its      *)
(* least counterexample.                                                   *)
(***************************************************************************)
EXTENDS Naturals, Functions, FiniteSetTheorems, WellFoundedInduction, TLAPS

\* Every set of natural numbers but the empty one has a least element.
LEMMA LeastExists ==
  ASSUME NEW S \in SUBSET Nat, S # {}
  PROVE  \E x \in S : \A y \in S : x <= y
<1> DEFINE Less == OpToRel(<, Nat)
<1>1. IsWellFoundedOn(Less, Nat)
  BY NatLessThanWellFounded
<1>2. Less = {pair \in Nat \X Nat : pair[1] < pair[2]}
  BY DEF OpToRel
<1> HIDE DEF Less
<1>3. \E x \in S : \A y \in S : ~ (<<y, x>> \in Less)
  BY <1>1, WFMin
<1>4. \A x, y \in Nat : <<y, x>> \notin Less => x <= y
  <2> SUFFICES ASSUME NEW x \in Nat, NEW y \in Nat, y < x PROVE <<y, x>> \in Less
    OBVIOUS
  <2>1. <<y, x>> \in Nat \X Nat /\ <<y, x>>[1] = y /\ <<y, x>>[2] = x
    OBVIOUS
  <2> QED BY <1>2, <2>1
<1> QED BY <1>3, <1>4

\* The fold takes an element out of a set in this way.
pick(s) == CHOOSE x \in s : TRUE

\* The equation of the fold at the set s: sum gives what the values add up to.
Adds(sum, f, s) == sum[s] = IF s = {} THEN 0 ELSE f[pick(s)] + sum[s \ {pick(s)}]

\* The functions the fold may choose.
Sums(f, S) ==
  {sum \in [SUBSET S -> Nat] : \A s \in SUBSET S : Adds(sum, f, s)}

\* Taking out the element picked leaves a smaller set.
LEMMA PickLeavesLess ==
  ASSUME NEW S, IsFiniteSet(S), NEW s \in SUBSET S, s # {}
  PROVE  /\ pick(s) \in s /\ s \ {pick(s)} \in SUBSET S
         /\ Cardinality(s) \in Nat /\ Cardinality(s \ {pick(s)}) \in Nat
         /\ Cardinality(s \ {pick(s)}) < Cardinality(s)
<1>1. pick(s) \in s
  BY DEF pick
<1>2. IsFiniteSet(s)
  BY FS_Subset
<1>3. Cardinality(s) \in Nat
  BY <1>2, FS_CardinalityType
<1>4. Cardinality(s \ {pick(s)}) \in Nat
  BY <1>2, FS_Subset, FS_CardinalityType
<1>5. Cardinality(s \ {pick(s)}) = Cardinality(s) - 1
  BY <1>1, <1>2, FS_RemoveElement
<1> QED BY <1>1, <1>3, <1>4, <1>5

SumsUpTo(f, S, n) ==
  {sum \in [SUBSET S -> Nat] : \A s \in SUBSET S : Cardinality(s) <= n => Adds(sum, f, s)}

\* Up to every size of the set there is a function that adds up.
LEMMA SumsExist ==
  ASSUME NEW S, IsFiniteSet(S), NEW f \in [S -> Nat], NEW n \in Nat
  PROVE  SumsUpTo(f, S, n) # {}
<1> DEFINE Good(sum, m) == \A s \in SUBSET S : Cardinality(s) <= m => Adds(sum, f, s)
           Bad == {m \in Nat : \A sum \in [SUBSET S -> Nat] : ~Good(sum, m)}
<1>1. SUFFICES ASSUME n \in Bad PROVE FALSE
  BY DEF SumsUpTo
<1>2. PICK m \in Bad : \A k \in Bad : m <= k
  BY <1>1, LeastExists
<1> DEFINE rest(s) == s \ {pick(s)}
           next(sum) == [s \in SUBSET S |-> IF s = {} THEN 0 ELSE f[pick(s)] + sum[rest(s)]]
<1>3. ASSUME NEW sum \in [SUBSET S -> Nat]
      PROVE  next(sum) \in [SUBSET S -> Nat]
  <2> SUFFICES ASSUME NEW s \in SUBSET S, s # {}
               PROVE  f[pick(s)] + sum[rest(s)] \in Nat
    OBVIOUS
  <2>1. pick(s) \in S /\ rest(s) \in SUBSET S
    BY PickLeavesLess
  <2> QED BY <2>1
<1>4. CASE m = 0
  <2> DEFINE sum == [s \in SUBSET S |-> 0]
  <2>1. sum \in [SUBSET S -> Nat]
    OBVIOUS
  <2>2. sum[{}] = 0
    OBVIOUS
  <2> HIDE DEF sum
  <2>3. ASSUME NEW s \in SUBSET S, Cardinality(s) <= 0 PROVE s = {}
    <3>1. IsFiniteSet(s)
      BY FS_Subset
    <3>2. Cardinality(s) = 0
      BY <2>3, <3>1, FS_CardinalityType
    <3> QED BY <3>1, <3>2, FS_EmptySet
  <2>4. Good(sum, 0)
    BY <2>2, <2>3 DEF Adds
  <2> QED BY <1>4, <2>1, <2>4
<1>5. CASE m # 0
  <2>1. m - 1 \in Nat /\ m - 1 \notin Bad
    <3>1. m \in Nat
      BY <1>2
    <3>2. \A k \in Bad : m <= k
      BY <1>2
    <3> HIDE DEF Bad
    <3>3. m - 1 \in Nat /\ ~(m <= m - 1)
      BY <1>5, <3>1
    <3> QED BY <3>2, <3>3
  <2>2. PICK sum \in [SUBSET S -> Nat] : Good(sum, m - 1)
    BY <2>1
  <2>3. ASSUME NEW s \in SUBSET S, Cardinality(s) <= m
        PROVE  Adds(next(sum), f, s)
    <3>1. next(sum)[s] = IF s = {} THEN 0 ELSE f[pick(s)] + sum[rest(s)]
      OBVIOUS
    <3>2. CASE s = {}
      BY <3>1, <3>2 DEF Adds
    <3>3. CASE s # {}
      <4>1. rest(s) \in SUBSET S /\ Cardinality(rest(s)) <= m - 1
        BY <2>3, <3>3, PickLeavesLess
      <4>2. Adds(sum, f, rest(s))
        BY <2>2, <4>1
      <4>3. next(sum)[rest(s)] = sum[rest(s)]
        BY <4>1, <4>2 DEF Adds
      <4> HIDE DEF next
      <4> QED BY <3>1, <3>3, <4>3 DEF Adds
    <3> QED BY <3>2, <3>3
  <2>4. Good(next(sum), m)
    BY <2>3
  <2> QED BY <1>2, <1>3, <2>4
<1> QED BY <1>4, <1>5

\* SumFunction is such a function's value at the whole set.
LEMMA SumIs ==
  ASSUME NEW S, IsFiniteSet(S), NEW f \in [S -> Nat]
  PROVE  \E sum \in Sums(f, S) : SumFunction(f) = sum[S]
<1> DEFINE Step(iter) == [s \in SUBSET S |->
                            IF s = {} THEN 0 ELSE f[pick(s)] + iter[s \ {pick(s)}]]
           chosen == CHOOSE iter : iter = Step(iter)
<1>1. SumFunction(f) = chosen[S]
  <2>1. DOMAIN f = S
    OBVIOUS
  <2> QED BY <2>1 DEF SumFunction, SumFunctionOnSet, FoldFunctionOnSet, MapThenFoldSet, pick
<1>2. PICK sum \in [SUBSET S -> Nat] :
        \A s \in SUBSET S : Cardinality(s) <= Cardinality(S) => Adds(sum, f, s)
  <2>1. SumsUpTo(f, S, Cardinality(S)) # {}
    BY SumsExist, FS_CardinalityType
  <2> QED BY <2>1 DEF SumsUpTo
<1>3. \A s \in SUBSET S : Cardinality(s) <= Cardinality(S)
  BY FS_Subset
<1>4. sum = Step(sum)
  BY <1>2, <1>3 DEF Adds
<1>5. chosen = Step(chosen)
  BY <1>4
<1> HIDE DEF chosen
<1>6. \A s \in SUBSET S : Adds(chosen, f, s)
  BY <1>5 DEF Adds
<1>7. DOMAIN chosen = SUBSET S
  BY <1>5
<1> DEFINE Untyped == {m \in Nat : \E s \in SUBSET S : Cardinality(s) = m /\ chosen[s] \notin Nat}
<1>8. Untyped = {}
  <2> SUFFICES ASSUME Untyped # {} PROVE FALSE
    OBVIOUS
  <2>1. PICK m \in Untyped : \A k \in Untyped : m <= k
    BY LeastExists
  <2>2. PICK s \in SUBSET S : Cardinality(s) = m /\ chosen[s] \notin Nat
    OBVIOUS
  <2> DEFINE value == f[pick(s)]
             others == chosen[s \ {pick(s)}]
  <2>3. chosen[s] = IF s = {} THEN 0 ELSE value + others
    BY <1>6 DEF Adds
  <2> HIDE DEF value, others
  <2>4. s # {}
    BY <2>2, <2>3
  <2>5. /\ pick(s) \in S /\ s \ {pick(s)} \in SUBSET S
        /\ Cardinality(s \ {pick(s)}) \in Nat /\ Cardinality(s \ {pick(s)}) < m
    BY <2>2, <2>4, PickLeavesLess
  <2>6. others \in Nat
    BY <2>1, <2>5 DEF others
  <2>7. value \in Nat
    BY <2>5 DEF value
  <2> QED BY <2>2, <2>3, <2>4, <2>6, <2>7
<1>9. \A s \in SUBSET S : chosen[s] \in Nat
  <2> SUFFICES ASSUME NEW s \in SUBSET S PROVE chosen[s] \in Nat
    OBVIOUS
  <2>1. Cardinality(s) \in Nat
    BY FS_Subset, FS_CardinalityType
  <2> QED BY <1>8, <2>1
<1>10. chosen \in [SUBSET S -> Nat]
  <2>1. chosen = [s \in SUBSET S |-> chosen[s]]
    BY <1>5, <1>7
  <2> QED BY <1>9, <2>1
<1> QED BY <1>1, <1>6, <1>10 DEF Sums

\* One more element adds its value, whichever element the fold picks first.
LEMMA SumGrows ==
  ASSUME NEW S, IsFiniteSet(S), NEW f \in [S -> Nat], NEW sum \in Sums(f, S),
         NEW x \in S, NEW s \in SUBSET S, x \notin s
  PROVE  sum[s \cup {x}] = f[x] + sum[s]
<1> DEFINE Bad == {m \in Nat : \E r \in SUBSET S : \E y \in S :
                     y \notin r /\ Cardinality(r) = m /\ sum[r \cup {y}] # f[y] + sum[r]}
<1>1. SUFFICES ASSUME Bad # {} PROVE FALSE
  <2>1. Cardinality(s) \in Nat
    BY FS_Subset, FS_CardinalityType
  <2> QED BY <2>1
<1>2. PICK m \in Bad : \A k \in Bad : m <= k
  BY <1>1, LeastExists
<1>3. PICK r \in SUBSET S, y \in S :
        y \notin r /\ Cardinality(r) = m /\ sum[r \cup {y}] # f[y] + sum[r]
  BY <1>2
<1> DEFINE all == r \cup {y}
           z   == pick(all)
<1>4. all \in SUBSET S /\ all # {}
  OBVIOUS
<1>5. z \in all /\ z \in S /\ sum[all] = f[z] + sum[all \ {z}]
  <2>1. Adds(sum, f, all)
    BY <1>4 DEF Sums
  <2>2. z \in all
    BY <1>4, PickLeavesLess
  <2> HIDE DEF all
  <2> QED BY <1>4, <2>1, <2>2 DEF Adds
<1>6. CASE z = y
  <2>1. all \ {z} = r
    BY <1>3, <1>6
  <2> HIDE DEF all, z
  <2> QED BY <1>3, <1>5, <1>6, <2>1 DEF all
<1>7. CASE z # y
  <2> HIDE DEF z
  <2>1. z \in r
    BY <1>5, <1>7
  <2> DEFINE less == r \ {z}
  <2>2. less \in SUBSET S /\ z \notin less /\ y \notin less /\ z \in S /\ y \in S
    BY <1>3, <2>1
  <2>3. r = less \cup {z} /\ all \ {z} = less \cup {y}
    BY <1>7, <2>1
  <2>4. Cardinality(less) \in Nat /\ Cardinality(less) < m
    <3>1. IsFiniteSet(r)
      BY FS_Subset
    <3>2. Cardinality(less) = Cardinality(r) - 1 /\ Cardinality(r) \in Nat
      BY <2>1, <3>1, FS_RemoveElement, FS_CardinalityType
    <3>3. Cardinality(less) \in Nat
      BY <3>1, FS_RemoveElement, FS_CardinalityType
    <3> QED BY <1>3, <3>2, <3>3
  <2> HIDE DEF less, all
  <2>5. Cardinality(less) \notin Bad
    <3>1. m \in Nat
      BY <1>2
    <3> HIDE DEF Bad
    <3> QED BY <1>2, <2>4, <3>1
  <2>6. sum[less \cup {z}] = f[z] + sum[less] /\ sum[less \cup {y}] = f[y] + sum[less]
    BY <2>2, <2>4, <2>5
  <2>7. sum[less] \in Nat /\ f[z] \in Nat /\ f[y] \in Nat
    BY <2>2 DEF Sums
  <2>8. sum[r] = f[z] + sum[less] /\ sum[all] = f[z] + (f[y] + sum[less])
    BY <1>5, <2>3, <2>6
  <2>9. sum[all] # f[y] + sum[r]
    BY <1>3 DEF all
  <2> DEFINE a == f[z]  b == f[y]  c == sum[less]
  <2>10. a \in Nat /\ b \in Nat /\ c \in Nat /\ a + (b + c) # b + (a + c)
    BY <2>7, <2>8, <2>9
  <2> HIDE DEF a, b, c
  <2> QED BY <2>10
<1> QED BY <1>6, <1>7

\* Functions that agree on a set have the same sum there.
LEMMA SumAgrees ==
  ASSUME NEW S, IsFiniteSet(S), NEW f \in [S -> Nat], NEW g \in [S -> Nat],
         NEW sumf \in Sums(f, S), NEW sumg \in Sums(g, S),
         NEW s \in SUBSET S, \A x \in s : f[x] = g[x]
  PROVE  sumf[s] = sumg[s]
<1> DEFINE Bad == {m \in Nat : \E r \in SUBSET s : Cardinality(r) = m /\ sumf[r] # sumg[r]}
<1>1. SUFFICES ASSUME Bad # {} PROVE FALSE
  <2>1. Cardinality(s) \in Nat
    BY FS_Subset, FS_CardinalityType
  <2> QED BY <2>1
<1>2. PICK m \in Bad : \A k \in Bad : m <= k
  BY <1>1, LeastExists
<1>3. PICK r \in SUBSET s : Cardinality(r) = m /\ sumf[r] # sumg[r]
  BY <1>2
<1>4. Adds(sumf, f, r) /\ Adds(sumg, g, r) /\ r \in SUBSET S
  BY DEF Sums
<1>5. r # {}
  BY <1>3, <1>4 DEF Adds
<1> DEFINE rest == r \ {pick(r)}
<1>6. /\ pick(r) \in r /\ rest \in SUBSET s
      /\ Cardinality(rest) \in Nat /\ Cardinality(rest) < m
  BY <1>3, <1>4, <1>5, PickLeavesLess
<1>7. f[pick(r)] = g[pick(r)]
  BY <1>6
<1>8. Cardinality(rest) \notin Bad
  <2>1. m \in Nat
    BY <1>2
  <2> HIDE DEF Bad, rest
  <2> QED BY <1>2, <1>6, <2>1
<1>9. sumf[rest] = sumg[rest]
  BY <1>6, <1>8
<1> HIDE DEF rest
<1>10. sumf[r] = f[pick(r)] + sumf[rest] /\ sumg[r] = g[pick(r)] + sumg[rest]
  BY <1>4, <1>5 DEF Adds, rest
<1> QED BY <1>3, <1>7, <1>9, <1>10

\* The sum of a function to the naturals is a natural number, zero when every
\* value is.
LEMMA SumTyped ==
  ASSUME NEW S, IsFiniteSet(S), NEW f \in [S -> Nat]
  PROVE  SumFunction(f) \in Nat /\ ((\A x \in S : f[x] = 0) => SumFunction(f) = 0)
<1>1. PICK sum \in Sums(f, S) : SumFunction(f) = sum[S]
  BY SumIs
<1>2. SumFunction(f) \in Nat
  BY <1>1 DEF Sums
<1>3. ASSUME \A x \in S : f[x] = 0 PROVE sum[S] = 0
  <2> DEFINE zero == [s \in SUBSET S |-> 0]
  <2>1. ASSUME NEW s \in SUBSET S PROVE Adds(zero, f, s)
    <3>1. CASE s = {}
      BY <3>1 DEF Adds
    <3>2. CASE s # {}
      <4>1. pick(s) \in S /\ s \ {pick(s)} \in SUBSET S
        BY <3>2, PickLeavesLess
      <4>2. f[pick(s)] = 0 /\ zero[s \ {pick(s)}] = 0 /\ zero[s] = 0
        BY <1>3, <4>1
      <4> QED BY <3>2, <4>2 DEF Adds
    <3> QED BY <3>1, <3>2
  <2>2. zero \in Sums(f, S)
    BY <2>1 DEF Sums
  <2>3. sum[S] = zero[S]
    BY <2>2, SumAgrees
  <2> QED BY <2>3
<1> QED BY <1>1, <1>2, <1>3

\* One value changed: the sum changes by as much.
LEMMA SumChanges ==
  ASSUME NEW S, IsFiniteSet(S), NEW f \in [S -> Nat], NEW g \in [S -> Nat],
         NEW x \in S, \A y \in S : y # x => g[y] = f[y]
  PROVE  SumFunction(g) + f[x] = SumFunction(f) + g[x]
<1>1. PICK sumf \in Sums(f, S) : SumFunction(f) = sumf[S]
  BY SumIs
<1>2. PICK sumg \in Sums(g, S) : SumFunction(g) = sumg[S]
  BY SumIs
<1> DEFINE others == S \ {x}
<1>3. others \in SUBSET S /\ x \notin others /\ S = others \cup {x}
  OBVIOUS
<1>4. \A y \in others : f[y] = g[y]
  OBVIOUS
<1> HIDE DEF others
<1>5. sumf[S] = f[x] + sumf[others] /\ sumg[S] = g[x] + sumg[others]
  BY <1>3, SumGrows
<1>6. sumf[others] = sumg[others]
  BY <1>3, <1>4, SumAgrees
<1>7. sumf[others] \in Nat /\ f[x] \in Nat /\ g[x] \in Nat
  BY <1>3 DEF Sums
<1> QED BY <1>1, <1>2, <1>5, <1>6, <1>7

=============================================================================
