----------------------------- MODULE LotsProofs -----------------------------
(***************************************************************************)
(* Sums over finite sets and the lot engine, for all lots and events: FIFO *)
(* consumption takes exactly what is asked for and empties the lots in     *)
(* their order, the operations keep the types of a book, and a replay      *)
(* applies the events one by one in the order of their dates.              *)
(*                                                                         *)
(* The community modules define sums and folds by a recursive function;    *)
(* what is proved of them here rests on a smallest counterexample.         *)
(***************************************************************************)
EXTENDS Lots, FiniteSetTheorems, WellFoundedInduction, TLAPS

(* A finite set that has subsets against Bad has a smallest one.            *)
LEMMA Smallest ==
  ASSUME NEW S, IsFiniteSet(S), NEW Bad \in SUBSET SUBSET S, Bad # {}
  PROVE  \E s \in Bad : \A x \in s : s \ {x} \notin Bad
<1> DEFINE Sizes == {n \in Nat : \E s \in Bad : Cardinality(s) = n}
           R == {p \in Nat \X Nat : p[1] < p[2]}
<1>1. \A s \in Bad : IsFiniteSet(s) /\ Cardinality(s) \in Nat
  BY FS_Subset, FS_CardinalityType
<1>2. Sizes \in SUBSET Nat /\ Sizes # {}
  BY <1>1
<1>3. IsWellFoundedOn(R, Nat)
  BY NatLessThanWellFounded DEF OpToRel
<1> HIDE DEF R
<1>4. PICK n \in Sizes : \A m \in Sizes : <<m, n>> \notin R
  <2> HIDE DEF Sizes
  <2> QED BY <1>2, <1>3, WFMin
<1>5. PICK s \in Bad : Cardinality(s) = n
  BY <1>4
<1>6. ASSUME NEW x \in s, s \ {x} \in Bad PROVE FALSE
  <2>1. Cardinality(s \ {x}) = n - 1 /\ n - 1 \in Nat /\ n \in Nat
    BY <1>1, <1>5, <1>6, FS_RemoveElement
  <2>2. n - 1 \in Sizes
    BY <1>6, <2>1
  <2>3. <<n - 1, n>> \in R
    BY <2>1 DEF R
  <2> QED BY <1>4, <2>2, <2>3
<1> QED BY <1>5, <1>6

(* The element a sum or fold of the community modules takes out of a set.   *)
Pick(s) == CHOOSE x \in s : TRUE

(* g adds up f over the subsets of S.                                       *)
Adds(g, f, S) == g = [s \in SUBSET S |-> IF s = {} THEN 0 ELSE f[Pick(s)] + g[s \ {Pick(s)}]]

(* The sum of f over S.                                                     *)
Total(f, S) == (CHOOSE g : Adds(g, f, S))[S]

(* SumFunctionOnSet, which the community modules define by a fold, is that  *)
(* sum.                                                                     *)
LEMMA SumIsTotal ==
  ASSUME NEW f, NEW S
  PROVE  SumFunctionOnSet(f, S) = Total(f, S)
BY DEF SumFunctionOnSet, FoldFunctionOnSet, MapThenFoldSet, Total, Adds, Pick

(* What is picked from a set is in it.                                      *)
LEMMA PickIn == ASSUME NEW s, s # {} PROVE Pick(s) \in s
BY DEF Pick

(* What is added up over a set does not depend on the set it is part of.    *)
LEMMA AddsAgree ==
  ASSUME NEW f, NEW S, NEW T, NEW g, Adds(g, f, S), NEW h, Adds(h, f, T),
         NEW s, s \in SUBSET S, s \in SUBSET T, IsFiniteSet(s)
  PROVE  g[s] = h[s]
<1> DEFINE Bad == {t \in SUBSET s : g[t] # h[t]}
<1> SUFFICES ASSUME Bad # {} PROVE FALSE
  OBVIOUS
<1>1. PICK t \in Bad : \A x \in t : t \ {x} \notin Bad
  <2>1. Bad \in SUBSET SUBSET s
    OBVIOUS
  <2> HIDE DEF Bad
  <2> QED BY <2>1, Smallest
<1>2. /\ g[t] = IF t = {} THEN 0 ELSE f[Pick(t)] + g[t \ {Pick(t)}]
      /\ h[t] = IF t = {} THEN 0 ELSE f[Pick(t)] + h[t \ {Pick(t)}]
  BY <1>1 DEF Adds
<1>3. CASE t = {}
  BY <1>1, <1>2, <1>3
<1>4. CASE t # {}
  <2>1. Pick(t) \in t
    BY <1>4, PickIn
  <2>2. g[t \ {Pick(t)}] = h[t \ {Pick(t)}]
    BY <1>1, <2>1
  <2> QED BY <1>1, <1>2, <1>4, <2>2
<1> QED BY <1>3, <1>4

(* There is a function that adds up f over the subsets of a finite set.     *)
LEMMA AddsExists ==
  ASSUME NEW f, NEW S, IsFiniteSet(S)
  PROVE  \E g : Adds(g, f, S)
<1> DEFINE Bad == {t \in SUBSET S : ~\E g : Adds(g, f, t)}
<1> SUFFICES ASSUME Bad # {} PROVE FALSE
  OBVIOUS
<1>1. PICK t \in Bad : \A x \in t : t \ {x} \notin Bad
  <2>1. Bad \in SUBSET SUBSET S
    OBVIOUS
  <2> HIDE DEF Bad
  <2> QED BY <2>1, Smallest
<1>2. t \in SUBSET S /\ IsFiniteSet(t) /\ ~\E g : Adds(g, f, t)
  BY <1>1, FS_Subset
<1>3. CASE t = {}
  <2> DEFINE g == [s \in SUBSET t |-> 0]
  <2>1. SUBSET t = {{}}
    BY <1>3
  <2>2. g = [s \in SUBSET t |-> IF s = {} THEN 0 ELSE f[Pick(s)] + g[s \ {Pick(s)}]]
    BY <2>1
  <2> QED BY <1>2, <2>2 DEF Adds
<1>4. CASE t # {}
  <2> DEFINE G(x) == CHOOSE g : Adds(g, f, t \ {x})
  <2>1. ASSUME NEW x \in t PROVE Adds(G(x), f, t \ {x})
    <3>1. \E g : Adds(g, f, t \ {x})
      BY <1>1
    <3> QED BY <3>1
  <2> HIDE DEF G
  <2> DEFINE Of(s) == G(CHOOSE x \in t : x \notin s)
             g == [s \in SUBSET t |-> IF s = t THEN f[Pick(t)] + G(Pick(t))[t \ {Pick(t)}]
                                                ELSE Of(s)[s]]
  <2>2. ASSUME NEW s \in SUBSET t, NEW x \in t, x \notin s PROVE g[s] = G(x)[s]
    <3> DEFINE y == CHOOSE y \in t : y \notin s
    <3>1. y \in t /\ y \notin s
      BY <2>2
    <3>2. g[s] = G(y)[s]
      BY <2>2
    <3> HIDE DEF y, g
    <3>3. Adds(G(x), f, t \ {x}) /\ Adds(G(y), f, t \ {y})
      BY <2>1, <3>1
    <3>4. s \in SUBSET (t \ {x}) /\ s \in SUBSET (t \ {y}) /\ IsFiniteSet(s)
      BY <1>2, <2>2, <3>1, FS_Subset
    <3> QED BY <3>2, <3>3, <3>4, AddsAgree
  <2>3. ASSUME NEW s \in SUBSET t
        PROVE  g[s] = IF s = {} THEN 0 ELSE f[Pick(s)] + g[s \ {Pick(s)}]
    <3>1. CASE s = t
      <4>1. Pick(t) \in t /\ t \ {Pick(t)} \in SUBSET t /\ Pick(t) \notin t \ {Pick(t)}
        BY <1>4, PickIn
      <4>2. g[t \ {Pick(t)}] = G(Pick(t))[t \ {Pick(t)}]
        <5> HIDE DEF g
        <5> QED BY <2>2, <4>1
      <4>3. g[t] = f[Pick(t)] + G(Pick(t))[t \ {Pick(t)}]
        OBVIOUS
      <4> HIDE DEF g
      <4> QED BY <1>4, <3>1, <4>2, <4>3
    <3>2. CASE s # t
      <4>1. PICK x \in t : x \notin s
        BY <3>2
      <4> HIDE DEF g
      <4>2. g[s] = G(x)[s] /\ g[s \ {Pick(s)}] = G(x)[s \ {Pick(s)}]
        BY <2>2, <4>1
      <4>3. Adds(G(x), f, t \ {x})
        BY <2>1
      <4>4. G(x)[s] = IF s = {} THEN 0 ELSE f[Pick(s)] + G(x)[s \ {Pick(s)}]
        BY <4>1, <4>3 DEF Adds
      <4> QED BY <4>2, <4>4
    <3> QED BY <3>1, <3>2
  <2>4. g = [s \in SUBSET t |-> g[s]]
    OBVIOUS
  <2> HIDE DEF g
  <2>5. Adds(g, f, t)
    <3>1. g = [s \in SUBSET t |-> IF s = {} THEN 0 ELSE f[Pick(s)] + g[s \ {Pick(s)}]]
      BY <2>3, <2>4, Zenon
    <3> QED BY <3>1 DEF Adds
  <2> QED BY <1>2, <2>5
<1> QED BY <1>3, <1>4

(* The sum over a set takes out the element it picks.                       *)
LEMMA SumPick ==
  ASSUME NEW f, NEW S, IsFiniteSet(S)
  PROVE  SumFunctionOnSet(f, S) =
           IF S = {} THEN 0 ELSE f[Pick(S)] + SumFunctionOnSet(f, S \ {Pick(S)})
<1> DEFINE g == CHOOSE g : Adds(g, f, S)
           T == S \ {Pick(S)}
           h == CHOOSE h : Adds(h, f, T)
<1>1. Adds(g, f, S) /\ Adds(h, f, T)
  BY AddsExists, FS_RemoveElement
<1>2. SumFunctionOnSet(f, S) = g[S] /\ SumFunctionOnSet(f, T) = h[T]
  BY SumIsTotal DEF Total
<1> HIDE DEF g, h
<1>3. g[T] = h[T]
  <2>1. T \in SUBSET S /\ T \in SUBSET T /\ IsFiniteSet(T)
    BY FS_RemoveElement
  <2> HIDE DEF T
  <2> QED BY <1>1, <2>1, AddsAgree
<1>4. g[S] = IF S = {} THEN 0 ELSE f[Pick(S)] + g[T]
  BY <1>1 DEF Adds
<1> QED BY <1>2, <1>3, <1>4

(* Nothing adds up to zero.                                                 *)
LEMMA SumEmpty == ASSUME NEW f PROVE SumFunctionOnSet(f, {}) = 0
BY SumPick, FS_EmptySet

(* A sum of integers is an integer.                                         *)
LEMMA SumInt ==
  ASSUME NEW S, IsFiniteSet(S), NEW f, \A x \in S : f[x] \in Int
  PROVE  SumFunctionOnSet(f, S) \in Int
<1> DEFINE Bad == {t \in SUBSET S : SumFunctionOnSet(f, t) \notin Int}
<1> SUFFICES ASSUME Bad # {} PROVE FALSE
  OBVIOUS
<1>1. PICK t \in Bad : \A x \in t : t \ {x} \notin Bad
  <2>1. Bad \in SUBSET SUBSET S
    OBVIOUS
  <2> HIDE DEF Bad
  <2> QED BY <2>1, Smallest
<1>2. IsFiniteSet(t) /\ t \subseteq S
  BY <1>1, FS_Subset
<1>3. t # {}
  BY <1>1, SumEmpty
<1>4. Pick(t) \in t /\ SumFunctionOnSet(f, t \ {Pick(t)}) \in Int
  BY <1>1, <1>3, PickIn
<1> QED BY <1>1, <1>2, <1>3, <1>4, SumPick

(* Any element can be taken out of a sum, not only the one it picks.        *)
LEMMA SumRemove ==
  ASSUME NEW S, IsFiniteSet(S), NEW f, \A x \in S : f[x] \in Int, NEW x \in S
  PROVE  SumFunctionOnSet(f, S) = f[x] + SumFunctionOnSet(f, S \ {x})
<1> DEFINE Sum(t) == SumFunctionOnSet(f, t)
           Bad == {t \in SUBSET S : \E y \in t : Sum(t) # f[y] + Sum(t \ {y})}
<1> SUFFICES ASSUME Bad # {} PROVE FALSE
  OBVIOUS
<1>1. PICK t \in Bad : \A y \in t : t \ {y} \notin Bad
  <2>1. Bad \in SUBSET SUBSET S
    OBVIOUS
  <2> HIDE DEF Bad
  <2> QED BY <2>1, Smallest
<1>2. PICK y \in t : Sum(t) # f[y] + Sum(t \ {y})
  BY <1>1
<1> DEFINE p == Pick(t)
           both == (t \ {y}) \ {p}
<1>3. p \in t /\ Sum(t) = f[p] + Sum(t \ {p})
  BY <1>1, <1>2, PickIn, SumPick, FS_Subset
<1>4. p # y
  BY <1>2, <1>3
<1> HIDE DEF p
<1>5. Sum(t \ {y}) = f[p] + Sum(both)
  BY <1>1, <1>3, <1>4
<1>6. Sum(t \ {p}) = f[y] + Sum(both)
  <2>1. (t \ {p}) \ {y} = both
    OBVIOUS
  <2> QED BY <1>1, <1>3, <1>4, <2>1
<1>7. Sum(both) \in Int /\ f[p] \in Int /\ f[y] \in Int
  <2>1. both \in SUBSET S /\ IsFiniteSet(both)
    BY <1>1, FS_Subset
  <2> QED BY <1>1, <1>3, <2>1, SumInt
<1> HIDE DEF Sum, both
<1> QED BY <1>2, <1>3, <1>5, <1>6, <1>7

(* One more element adds its value.                                         *)
LEMMA SumAdd ==
  ASSUME NEW S, IsFiniteSet(S), NEW x, x \notin S,
         NEW f, \A y \in S \union {x} : f[y] \in Int
  PROVE  SumFunctionOnSet(f, S \union {x}) = SumFunctionOnSet(f, S) + f[x]
<1>1. IsFiniteSet(S \union {x}) /\ (S \union {x}) \ {x} = S
  BY FS_AddElement
<1>2. SumFunctionOnSet(f, S \union {x}) = f[x] + SumFunctionOnSet(f, S)
  BY <1>1, SumRemove
<1> QED BY <1>2, SumInt

(* Functions that agree on a set have the same sum over it.                 *)
LEMMA SumSame ==
  ASSUME NEW S, IsFiniteSet(S), NEW f, NEW g, \A x \in S : f[x] = g[x]
  PROVE  SumFunctionOnSet(f, S) = SumFunctionOnSet(g, S)
<1> DEFINE Bad == {t \in SUBSET S : SumFunctionOnSet(f, t) # SumFunctionOnSet(g, t)}
<1> SUFFICES ASSUME Bad # {} PROVE FALSE
  OBVIOUS
<1>1. PICK t \in Bad : \A x \in t : t \ {x} \notin Bad
  <2>1. Bad \in SUBSET SUBSET S
    OBVIOUS
  <2> HIDE DEF Bad
  <2> QED BY <2>1, Smallest
<1>2. IsFiniteSet(t) /\ t \subseteq S /\ t # {}
  BY <1>1, SumEmpty, FS_Subset
<1>3. Pick(t) \in t
  BY <1>2, PickIn
<1>4. SumFunctionOnSet(f, t \ {Pick(t)}) = SumFunctionOnSet(g, t \ {Pick(t)})
  BY <1>1, <1>3
<1>5. f[Pick(t)] = g[Pick(t)]
  BY <1>2, <1>3
<1> QED BY <1>1, <1>2, <1>4, <1>5, SumPick

(* The sums over two sets that have nothing in common.                      *)
LEMMA SumUnion ==
  ASSUME NEW S, IsFiniteSet(S), NEW T, IsFiniteSet(T), S \intersect T = {},
         NEW f, \A x \in S \union T : f[x] \in Int
  PROVE  SumFunctionOnSet(f, S \union T) = SumFunctionOnSet(f, S) + SumFunctionOnSet(f, T)
<1> DEFINE Sum(t) == SumFunctionOnSet(f, t)
           Bad == {t \in SUBSET T : Sum(S \union t) # Sum(S) + Sum(t)}
<1> SUFFICES ASSUME Bad # {} PROVE FALSE
  OBVIOUS
<1>1. PICK t \in Bad : \A x \in t : t \ {x} \notin Bad
  <2>1. Bad \in SUBSET SUBSET T
    OBVIOUS
  <2> HIDE DEF Bad
  <2> QED BY <2>1, Smallest
<1>2. IsFiniteSet(t) /\ t \subseteq T /\ Sum(S) \in Int /\ Sum(S \union t) # Sum(S) + Sum(t)
  BY <1>1, FS_Subset, SumInt
<1>3. t # {}
  <2> SUFFICES ASSUME t = {} PROVE FALSE
    OBVIOUS
  <2>1. S \union t = S /\ Sum(t) = 0
    BY SumEmpty
  <2> HIDE DEF Sum
  <2> QED BY <1>2, <2>1
<1>4. PICK x \in t : TRUE
  BY <1>3
<1> DEFINE r == t \ {x}
<1>5. Sum(S \union r) = Sum(S) + Sum(r)
  BY <1>1, <1>4
<1>6. Sum(t) = f[x] + Sum(r) /\ Sum(r) \in Int
  <2>1. \A y \in t : f[y] \in Int
    BY <1>2
  <2>2. IsFiniteSet(r)
    BY <1>2, FS_RemoveElement
  <2> QED BY <1>2, <1>4, <2>1, <2>2, SumRemove, SumInt
<1>7. Sum(S \union t) = f[x] + Sum(S \union r)
  <2> DEFINE u == S \union t
  <2>1. IsFiniteSet(u) /\ x \in u /\ u \ {x} = S \union r /\ \A y \in u : f[y] \in Int
    BY <1>2, <1>4, FS_Union
  <2> HIDE DEF u
  <2>2. Sum(u) = f[x] + Sum(u \ {x})
    BY <2>1, SumRemove
  <2> QED BY <2>1, <2>2 DEF u
<1>8. f[x] \in Int
  BY <1>2, <1>4
<1> HIDE DEF Sum, r
<1> QED BY <1>2, <1>5, <1>6, <1>7, <1>8

(* A sum of naturals is a natural.                                          *)
LEMMA SumNat ==
  ASSUME NEW S, IsFiniteSet(S), NEW f, \A x \in S : f[x] \in Nat
  PROVE  SumFunctionOnSet(f, S) \in Nat
<1> DEFINE Bad == {t \in SUBSET S : SumFunctionOnSet(f, t) \notin Nat}
<1> SUFFICES ASSUME Bad # {} PROVE FALSE
  OBVIOUS
<1>1. PICK t \in Bad : \A x \in t : t \ {x} \notin Bad
  <2>1. Bad \in SUBSET SUBSET S
    OBVIOUS
  <2> HIDE DEF Bad
  <2> QED BY <2>1, Smallest
<1>2. IsFiniteSet(t) /\ t \subseteq S
  BY <1>1, FS_Subset
<1>3. t # {}
  BY <1>1, SumEmpty
<1>4. Pick(t) \in t /\ SumFunctionOnSet(f, t \ {Pick(t)}) \in Nat
  BY <1>1, <1>3, PickIn
<1> QED BY <1>1, <1>2, <1>3, <1>4, SumPick

(* A part of a sum of naturals is at most the whole.                        *)
LEMMA SumPart ==
  ASSUME NEW S, IsFiniteSet(S), NEW T \in SUBSET S, NEW f, \A x \in S : f[x] \in Nat
  PROVE  SumFunctionOnSet(f, T) <= SumFunctionOnSet(f, S)
<1> DEFINE R == S \ T
<1>1. IsFiniteSet(T) /\ IsFiniteSet(R) /\ T \intersect R = {} /\ T \union R = S
  BY FS_Subset
<1> HIDE DEF R
<1>2. (\A x \in T : f[x] \in Nat) /\ (\A x \in R : f[x] \in Nat)
  BY <1>1
<1>3. SumFunctionOnSet(f, T) \in Nat /\ SumFunctionOnSet(f, R) \in Nat
  BY <1>1, <1>2, SumNat
<1>4. \A x \in T \union R : f[x] \in Int
  BY <1>2
<1>5. SumFunctionOnSet(f, T \union R) = SumFunctionOnSet(f, T) + SumFunctionOnSet(f, R)
  BY <1>1, <1>4, SumUnion
<1>6. SumFunctionOnSet(f, S) = SumFunctionOnSet(f, T) + SumFunctionOnSet(f, R)
  BY <1>1, <1>5, Zenon
<1> QED BY <1>3, <1>6

(* A sum of zeros, and only that among the sums of naturals, is zero.       *)
LEMMA SumZero ==
  ASSUME NEW S, IsFiniteSet(S), NEW f, \A x \in S : f[x] \in Nat
  PROVE  SumFunctionOnSet(f, S) = 0 <=> \A x \in S : f[x] = 0
<1>1. ASSUME SumFunctionOnSet(f, S) = 0, NEW x \in S PROVE f[x] = 0
  <2>1. SumFunctionOnSet(f, S) = f[x] + SumFunctionOnSet(f, S \ {x})
    BY SumRemove
  <2>2. SumFunctionOnSet(f, S \ {x}) \in Nat
    BY SumNat, FS_RemoveElement
  <2> QED BY <1>1, <2>1, <2>2
<1>2. ASSUME \A x \in S : f[x] = 0 PROVE SumFunctionOnSet(f, S) = 0
  <2> DEFINE Bad == {t \in SUBSET S : SumFunctionOnSet(f, t) # 0}
  <2> SUFFICES ASSUME Bad # {} PROVE FALSE
    OBVIOUS
  <2>1. PICK t \in Bad : \A x \in t : t \ {x} \notin Bad
    <3>1. Bad \in SUBSET SUBSET S
      OBVIOUS
    <3> HIDE DEF Bad
    <3> QED BY <3>1, Smallest
  <2>2. IsFiniteSet(t) /\ t \subseteq S /\ t # {}
    BY <2>1, SumEmpty, FS_Subset
  <2>3. Pick(t) \in t
    BY <2>2, PickIn
  <2>4. SumFunctionOnSet(f, t \ {Pick(t)}) = 0 /\ f[Pick(t)] = 0
    BY <1>2, <2>1, <2>2, <2>3
  <2> QED BY <2>1, <2>2, <2>4, SumPick
<1> QED BY <1>1, <1>2

(* The sum of what two functions add up to.                                 *)
LEMMA SumPlus ==
  ASSUME NEW S, IsFiniteSet(S), NEW f, NEW g, NEW h,
         \A x \in S : f[x] \in Int /\ g[x] \in Int /\ h[x] = f[x] + g[x]
  PROVE  SumFunctionOnSet(h, S) = SumFunctionOnSet(f, S) + SumFunctionOnSet(g, S)
<1> DEFINE F(t) == SumFunctionOnSet(f, t)
           G(t) == SumFunctionOnSet(g, t)
           H(t) == SumFunctionOnSet(h, t)
           Bad == {t \in SUBSET S : H(t) # F(t) + G(t)}
<1> SUFFICES ASSUME Bad # {} PROVE FALSE
  OBVIOUS
<1>1. PICK t \in Bad : \A x \in t : t \ {x} \notin Bad
  <2>1. Bad \in SUBSET SUBSET S
    OBVIOUS
  <2> HIDE DEF Bad
  <2> QED BY <2>1, Smallest
<1>2. IsFiniteSet(t) /\ t \subseteq S /\ H(t) # F(t) + G(t)
  BY <1>1, FS_Subset
<1>3. t # {}
  <2> SUFFICES ASSUME t = {} PROVE FALSE
    OBVIOUS
  <2>1. F(t) = 0 /\ G(t) = 0 /\ H(t) = 0
    BY SumEmpty
  <2> HIDE DEF F, G, H
  <2> QED BY <1>2, <2>1
<1> DEFINE p == Pick(t)
           r == t \ {p}
<1>4. p \in t /\ H(r) = F(r) + G(r)
  BY <1>1, <1>3, PickIn
<1>5. H(t) = h[p] + H(r) /\ F(t) = f[p] + F(r) /\ G(t) = g[p] + G(r)
  BY <1>2, <1>3, SumPick
<1>6. F(r) \in Int /\ G(r) \in Int
  <2>1. IsFiniteSet(r) /\ r \subseteq S
    BY <1>2, FS_RemoveElement
  <2> QED BY <2>1, SumInt
<1>7. f[p] \in Int /\ g[p] \in Int /\ h[p] = f[p] + g[p]
  BY <1>2, <1>4
<1> HIDE DEF F, G, H, p, r
<1> QED BY <1>2, <1>4, <1>5, <1>6, <1>7

(* Multiplying a sum, for SumTimes.                                         *)
LEMMA Distributes ==
  ASSUME NEW a \in Int, NEW x \in Int, NEW y \in Int
  PROVE  a * x + a * y = a * (x + y) /\ a * x \in Int /\ a * 0 = 0
OBVIOUS

(* The sum of the multiples of what a function adds up.                     *)
LEMMA SumTimes ==
  ASSUME NEW S, IsFiniteSet(S), NEW c \in Int, NEW f, NEW h,
         \A x \in S : f[x] \in Int /\ h[x] = c * f[x]
  PROVE  SumFunctionOnSet(h, S) = c * SumFunctionOnSet(f, S)
<1> DEFINE F(t) == SumFunctionOnSet(f, t)
           H(t) == SumFunctionOnSet(h, t)
           Bad == {t \in SUBSET S : H(t) # c * F(t)}
<1> SUFFICES ASSUME Bad # {} PROVE FALSE
  OBVIOUS
<1>1. PICK t \in Bad : \A x \in t : t \ {x} \notin Bad
  <2>1. Bad \in SUBSET SUBSET S
    OBVIOUS
  <2> HIDE DEF Bad
  <2> QED BY <2>1, Smallest
<1>2. IsFiniteSet(t) /\ t \subseteq S /\ H(t) # c * F(t)
  BY <1>1, FS_Subset
<1>3. t # {}
  BY <1>2, SumEmpty, Distributes
<1> DEFINE p == Pick(t)
           r == t \ {p}
<1>4. p \in t /\ H(r) = c * F(r)
  BY <1>1, <1>3, PickIn
<1>5. H(t) = h[p] + H(r) /\ F(t) = f[p] + F(r)
  BY <1>2, <1>3, SumPick
<1>6. F(r) \in Int
  <2>1. IsFiniteSet(r) /\ r \subseteq S
    BY <1>2, FS_RemoveElement
  <2> QED BY <2>1, SumInt
<1>7. f[p] \in Int /\ h[p] = c * f[p]
  BY <1>2, <1>4
<1> HIDE DEF F, H, p, r
<1> QED BY <1>2, <1>4, <1>5, <1>6, <1>7, Distributes

(* A sum over the images of different elements.                             *)
LEMMA SumImage ==
  ASSUME NEW S, IsFiniteSet(S), NEW m, \A x, y \in S : m[x] = m[y] => x = y,
         NEW f, NEW h, \A x \in S : h[x] \in Int /\ f[m[x]] = h[x]
  PROVE  /\ IsFiniteSet({m[x] : x \in S})
         /\ SumFunctionOnSet(f, {m[x] : x \in S}) = SumFunctionOnSet(h, S)
<1> DEFINE Im(t) == {m[x] : x \in t}
           F(t) == SumFunctionOnSet(f, Im(t))
           H(t) == SumFunctionOnSet(h, t)
           Bad == {t \in SUBSET S : ~(IsFiniteSet(Im(t)) /\ F(t) = H(t))}
<1> SUFFICES ASSUME Bad # {} PROVE FALSE
  OBVIOUS
<1>1. PICK t \in Bad : \A x \in t : t \ {x} \notin Bad
  <2>1. Bad \in SUBSET SUBSET S
    OBVIOUS
  <2> HIDE DEF Bad
  <2> QED BY <2>1, Smallest
<1>2. IsFiniteSet(t) /\ t \subseteq S /\ ~(IsFiniteSet(Im(t)) /\ F(t) = H(t))
  BY <1>1, FS_Subset
<1>3. t # {}
  <2> SUFFICES ASSUME t = {} PROVE FALSE
    OBVIOUS
  <2>1. Im(t) = {}
    OBVIOUS
  <2> HIDE DEF Im
  <2> QED BY <1>2, <2>1, SumEmpty, FS_EmptySet
<1>4. PICK x \in t : TRUE
  BY <1>3
<1> DEFINE r == t \ {x}
<1>5. IsFiniteSet(Im(r)) /\ F(r) = H(r)
  BY <1>1, <1>4
<1>6. H(t) = h[x] + H(r) /\ H(r) \in Int /\ h[x] \in Int /\ f[m[x]] = h[x]
  <2>1. IsFiniteSet(r) /\ \A y \in t : h[y] \in Int
    BY <1>2, FS_RemoveElement
  <2> QED BY <1>2, <1>4, <2>1, SumRemove, SumInt
<1>7. Im(t) = Im(r) \union {m[x]} /\ m[x] \notin Im(r)
  BY <1>2, <1>4
<1>8. \A y \in Im(r) \union {m[x]} : f[y] \in Int
  BY <1>2, <1>4
<1>9. IsFiniteSet(Im(t)) /\ F(t) = F(r) + f[m[x]]
  <2>1. IsFiniteSet(Im(r) \union {m[x]})
    BY <1>5, FS_AddElement
  <2> DEFINE u == Im(r)
             y == m[x]
  <2>2. SumFunctionOnSet(f, u \union {y}) = SumFunctionOnSet(f, u) + f[y]
    <3>1. IsFiniteSet(u) /\ y \notin u /\ \A z \in u \union {y} : f[z] \in Int
      BY <1>5, <1>7, <1>8
    <3> HIDE DEF u, y
    <3> QED BY <3>1, SumAdd
  <2> QED BY <1>7, <2>1, <2>2, Zenon
<1> HIDE DEF F, H, Im, r
<1> QED BY <1>2, <1>5, <1>6, <1>9

(* What is zero may be left out of a sum.                                   *)
LEMMA SumWithin ==
  ASSUME NEW S, IsFiniteSet(S), NEW T \in SUBSET S,
         NEW f, \A x \in S : f[x] \in Int, \A x \in S \ T : f[x] = 0
  PROVE  SumFunctionOnSet(f, S) = SumFunctionOnSet(f, T)
<1> DEFINE R == S \ T
<1>1. IsFiniteSet(T) /\ IsFiniteSet(R) /\ T \intersect R = {} /\ T \union R = S
  BY FS_Subset
<1>2. SumFunctionOnSet(f, R) = 0
  <2>1. \A x \in R : f[x] \in Nat /\ f[x] = 0
    OBVIOUS
  <2> HIDE DEF R
  <2> QED BY <1>1, <2>1, SumZero
<1> HIDE DEF R
<1>3. \A x \in T \union R : f[x] \in Int
  BY <1>1
<1>4. SumFunctionOnSet(f, T \union R) = SumFunctionOnSet(f, T) + SumFunctionOnSet(f, R)
  BY <1>1, <1>3, SumUnion
<1>5. SumFunctionOnSet(f, S) = SumFunctionOnSet(f, T) + SumFunctionOnSet(f, R)
  BY <1>1, <1>4, Zenon
<1>6. SumFunctionOnSet(f, T) \in Int
  BY <1>1, SumInt
<1> QED BY <1>2, <1>5, <1>6

(* The smaller of two numbers.                                              *)
LEMMA MinTwo ==
  ASSUME NEW x \in Int, NEW y \in Int
  PROVE  Min({x, y}) = IF x <= y THEN x ELSE y
<1>1. CASE x <= y
  <2>1. \A z \in {x, y} : x <= z
    BY <1>1
  <2>2. \A m \in {x, y} : (\A z \in {x, y} : m <= z) => m = x
    BY <1>1
  <2> QED BY <1>1, <2>1, <2>2 DEF Min
<1>2. CASE ~(x <= y)
  <2>1. \A z \in {x, y} : y <= z
    BY <1>2
  <2>2. \A m \in {x, y} : (\A z \in {x, y} : m <= z) => m = y
    BY <1>2
  <2> QED BY <1>2, <2>1, <2>2 DEF Min
<1> QED BY <1>1, <1>2

(* The larger of two numbers.                                               *)
LEMMA MaxTwo ==
  ASSUME NEW x \in Int, NEW y \in Int
  PROVE  Max({x, y}) = IF x >= y THEN x ELSE y
<1>1. CASE x >= y
  <2>1. \A z \in {x, y} : x >= z
    BY <1>1
  <2>2. \A m \in {x, y} : (\A z \in {x, y} : m >= z) => m = x
    BY <1>1
  <2> QED BY <1>1, <2>1, <2>2 DEF Max
<1>2. CASE ~(x >= y)
  <2>1. \A z \in {x, y} : y >= z
    BY <1>2
  <2>2. \A m \in {x, y} : (\A z \in {x, y} : m >= z) => m = y
    BY <1>2
  <2> QED BY <1>2, <2>1, <2>2 DEF Max
<1> QED BY <1>1, <1>2

-----------------------------------------------------------------------------
(* Rows with a date, named by numbers, are in a total order.                *)
Dated(rows, S) == IsFiniteSet(S) /\ \A i \in S : i \in Nat /\ rows[i].date \in Nat

(* The order of lots and events is total: by date, then by creation.        *)
LEMMA BeforeIsTotalOrder ==
  ASSUME NEW rows, NEW S, Dated(rows, S)
  PROVE  /\ \A i \in S : ~Before(rows, i, i)
         /\ \A i, j \in S : Before(rows, i, j) => ~Before(rows, j, i)
         /\ \A i, j \in S : i = j \/ Before(rows, i, j) \/ Before(rows, j, i)
         /\ \A i, j, k \in S : Before(rows, i, j) /\ Before(rows, j, k) => Before(rows, i, k)
BY DEF Dated, Before

(* A set of rows that is not empty has a last one.                          *)
LEMMA LastExists ==
  ASSUME NEW rows, NEW S, Dated(rows, S), S # {}
  PROVE  /\ LastOf(rows, S) \in S
         /\ \A j \in S \ {LastOf(rows, S)} : Before(rows, j, LastOf(rows, S))
<1> DEFINE IsLast(i, s) == \A j \in s \ {i} : Before(rows, j, i)
           Bad == {s \in SUBSET S : s # {} /\ ~\E i \in s : IsLast(i, s)}
<1>1. Bad = {}
  <2> SUFFICES ASSUME Bad # {} PROVE FALSE
    OBVIOUS
  <2>1. PICK s \in Bad : \A x \in s : s \ {x} \notin Bad
    <3>1. Bad \in SUBSET SUBSET S
      OBVIOUS
    <3>2. IsFiniteSet(S)
      BY DEF Dated
    <3> HIDE DEF Bad
    <3> QED BY <3>1, <3>2, Smallest
  <2>2. PICK x \in s : TRUE
    BY <2>1
  <2>3. s \ {x} # {}
    BY <2>1, <2>2
  <2>4. PICK i \in s \ {x} : IsLast(i, s \ {x})
    BY <2>1, <2>2, <2>3
  <2>5. i \in S /\ x \in S /\ i # x /\ s \subseteq S
    BY <2>1, <2>2, <2>4
  <2>6. CASE Before(rows, x, i)
    <3>1. IsLast(i, s)
      BY <2>4, <2>6
    <3> QED BY <2>1, <2>4, <3>1
  <2>7. CASE Before(rows, i, x)
    <3>1. ASSUME NEW j \in s \ {x} PROVE Before(rows, j, x)
      <4>1. j = i \/ Before(rows, j, i)
        BY <2>4, <3>1
      <4>2. j \in S
        BY <2>5, <3>1
      <4> QED BY <2>5, <2>7, <4>1, <4>2, BeforeIsTotalOrder
    <3>2. IsLast(x, s)
      BY <3>1
    <3> QED BY <2>1, <2>2, <3>2
  <2> QED BY <2>5, <2>6, <2>7, BeforeIsTotalOrder
<1>2. \E i \in S : IsLast(i, S)
  BY <1>1
<1> QED BY <1>2 DEF LastOf

(* A finite set of numbers that is not empty has a largest one.             *)
LEMMA MaxOfSet ==
  ASSUME NEW S, IsFiniteSet(S), S \subseteq Nat, S # {}
  PROVE  Max(S) \in S /\ \A n \in S : n <= Max(S)
<1> DEFINE rows == [n \in S |-> [date |-> n]]
           m == LastOf(rows, S)
<1>1. m \in S /\ \A n \in S \ {m} : Before(rows, n, m)
  BY LastExists DEF Dated
<1>2. \A n \in S : rows[n].date = n
  OBVIOUS
<1> HIDE DEF rows, m
<1>3. \A n \in S : m >= n
  BY <1>1, <1>2 DEF Before
<1>4. \E x \in S : \A n \in S : x >= n
  BY <1>1, <1>3
<1>5. Max(S) \in S /\ \A n \in S : Max(S) >= n
  BY <1>4 DEF Max
<1> QED BY <1>5

(* Only one row is the last, whatever else the rows hold.                   *)
LEMMA LastIsUnique ==
  ASSUME NEW rows, NEW S, Dated(rows, S), NEW i \in S,
         \A j \in S \ {i} : Before(rows, j, i)
  PROVE  LastOf(rows, S) = i
<1>1. /\ LastOf(rows, S) \in S
      /\ \A j \in S \ {LastOf(rows, S)} : Before(rows, j, LastOf(rows, S))
  BY LastExists
<1> QED BY <1>1, BeforeIsTotalOrder

(* Which row is the last depends on the dates alone.                        *)
LEMMA LastOfSame ==
  ASSUME NEW rows, NEW others, NEW S, Dated(rows, S), S # {},
         \A i \in S : others[i].date = rows[i].date
  PROVE  LastOf(others, S) = LastOf(rows, S)
<1> DEFINE i == LastOf(rows, S)
<1>1. i \in S /\ \A j \in S \ {i} : Before(rows, j, i)
  BY LastExists
<1> HIDE DEF i
<1>2. Dated(others, S)
  BY DEF Dated
<1>3. \A j \in S \ {i} : Before(others, j, i)
  BY <1>1 DEF Before
<1>4. LastOf(others, S) = i
  BY <1>1, <1>2, <1>3, LastIsUnique
<1> QED BY <1>4 DEF i

-----------------------------------------------------------------------------
(* One more event of a replay.                                              *)
ReplayStep(events, s, b) ==
  IF b.err # "ok" THEN b ELSE ApplyEventToLots(b, LastOf(events, s), events[LastOf(events, s)])

(* g replays the events of each subset of S.                                *)
Replays(g, events, S) ==
  g = [s \in SUBSET S |->
        IF s = {} THEN EmptyBook ELSE ReplayStep(events, s, g[s \ {LastOf(events, s)}])]

(* Replay, a fold of the community modules, in these terms.                 *)
LEMMA ReplayIsChosen ==
  ASSUME NEW events, NEW S
  PROVE  Replay(events, S) = (CHOOSE g : Replays(g, events, S))[S]
BY DEF Replay, MapThenFoldSet, Replays, ReplayStep

(* A replay of some events does not depend on the events beside them.       *)
LEMMA ReplaysAgree ==
  ASSUME NEW events, NEW others, NEW S, NEW T,
         NEW g, Replays(g, events, S), NEW h, Replays(h, others, T),
         NEW s, s \in SUBSET S, s \in SUBSET T, Dated(events, s),
         \A i \in s : others[i] = events[i]
  PROVE  g[s] = h[s]
<1> DEFINE Bad == {t \in SUBSET s : g[t] # h[t]}
<1> SUFFICES ASSUME Bad # {} PROVE FALSE
  OBVIOUS
<1>1. PICK t \in Bad : \A x \in t : t \ {x} \notin Bad
  <2>1. Bad \in SUBSET SUBSET s
    OBVIOUS
  <2>2. IsFiniteSet(s)
    BY DEF Dated
  <2> HIDE DEF Bad
  <2> QED BY <2>1, <2>2, Smallest
<1>2. g[t] # h[t] /\ t \in SUBSET s /\ t \in SUBSET S /\ t \in SUBSET T
  BY <1>1
<1>3. /\ g[t] = IF t = {} THEN EmptyBook ELSE ReplayStep(events, t, g[t \ {LastOf(events, t)}])
      /\ h[t] = IF t = {} THEN EmptyBook ELSE ReplayStep(others, t, h[t \ {LastOf(others, t)}])
  BY <1>2 DEF Replays
<1>4. t # {}
  BY <1>2, <1>3
<1>5. Dated(events, t) /\ \A i \in t : others[i].date = events[i].date
  BY <1>2, FS_Subset DEF Dated
<1> DEFINE l == LastOf(events, t)
<1>6. l \in t /\ LastOf(others, t) = l
  BY <1>4, <1>5, LastExists, LastOfSame
<1>7. g[t \ {l}] = h[t \ {l}]
  BY <1>1, <1>6
<1>8. others[l] = events[l]
  BY <1>2, <1>6
<1>9. ReplayStep(events, t, g[t \ {l}]) = ReplayStep(others, t, h[t \ {l}])
  BY <1>6, <1>7, <1>8, Zenon DEF ReplayStep
<1> QED BY <1>2, <1>3, <1>4, <1>6, <1>9

(* There is a function that replays the subsets of a finite set of events.  *)
LEMMA ReplaysExist ==
  ASSUME NEW events, NEW S, Dated(events, S)
  PROVE  \E g : Replays(g, events, S)
<1> DEFINE Bad == {t \in SUBSET S : ~\E g : Replays(g, events, t)}
<1> SUFFICES ASSUME Bad # {} PROVE FALSE
  OBVIOUS
<1>1. PICK t \in Bad : \A x \in t : t \ {x} \notin Bad
  <2>1. Bad \in SUBSET SUBSET S
    OBVIOUS
  <2>2. IsFiniteSet(S)
    BY DEF Dated
  <2> HIDE DEF Bad
  <2> QED BY <2>1, <2>2, Smallest
<1>2. t \in SUBSET S /\ Dated(events, t) /\ ~\E g : Replays(g, events, t)
  BY <1>1, FS_Subset DEF Dated
<1>3. CASE t = {}
  <2> DEFINE g == [s \in SUBSET t |-> EmptyBook]
  <2>1. SUBSET t = {{}}
    BY <1>3
  <2>2. g = [s \in SUBSET t |->
             IF s = {} THEN EmptyBook ELSE ReplayStep(events, s, g[s \ {LastOf(events, s)}])]
    BY <2>1
  <2> QED BY <1>2, <2>2 DEF Replays
<1>4. CASE t # {}
  <2> DEFINE G(x) == CHOOSE g : Replays(g, events, t \ {x})
             l == LastOf(events, t)
  <2>1. ASSUME NEW x \in t PROVE Replays(G(x), events, t \ {x})
    <3>1. \E g : Replays(g, events, t \ {x})
      BY <1>1
    <3> QED BY <3>1
  <2> HIDE DEF G
  <2> DEFINE Of(s) == G(CHOOSE x \in t : x \notin s)
             g == [s \in SUBSET t |-> IF s = t THEN ReplayStep(events, t, G(l)[t \ {l}])
                                                ELSE Of(s)[s]]
  <2>2. ASSUME NEW s \in SUBSET t, NEW x \in t, x \notin s PROVE g[s] = G(x)[s]
    <3> DEFINE y == CHOOSE y \in t : y \notin s
    <3>1. y \in t /\ y \notin s
      BY <2>2
    <3>2. g[s] = G(y)[s]
      BY <2>2
    <3> HIDE DEF y, g
    <3>3. Replays(G(x), events, t \ {x}) /\ Replays(G(y), events, t \ {y})
      BY <2>1, <3>1
    <3>4. s \in SUBSET (t \ {x}) /\ s \in SUBSET (t \ {y}) /\ Dated(events, s)
      BY <1>2, <2>2, <3>1, FS_Subset DEF Dated
    <3>5. G(y)[s] = G(x)[s]
      BY <3>3, <3>4, ReplaysAgree
    <3> QED BY <3>2, <3>5
  <2>3. ASSUME NEW s \in SUBSET t
        PROVE  g[s] = IF s = {} THEN EmptyBook
                      ELSE ReplayStep(events, s, g[s \ {LastOf(events, s)}])
    <3>1. CASE s = t
      <4>1. l \in t /\ t \ {l} \in SUBSET t /\ l \notin t \ {l}
        BY <1>2, <1>4, LastExists
      <4>2. g[t \ {l}] = G(l)[t \ {l}]
        <5> HIDE DEF g, l
        <5> QED BY <2>2, <4>1
      <4>3. g[t] = ReplayStep(events, t, G(l)[t \ {l}])
        OBVIOUS
      <4> HIDE DEF g
      <4> QED BY <1>4, <3>1, <4>2, <4>3
    <3>2. CASE s # t
      <4>1. PICK x \in t : x \notin s
        BY <3>2
      <4> DEFINE k == LastOf(events, s)
      <4> HIDE DEF g, k
      <4>2. g[s] = G(x)[s] /\ g[s \ {k}] = G(x)[s \ {k}]
        BY <2>2, <4>1
      <4>3. Replays(G(x), events, t \ {x})
        BY <2>1
      <4>4. G(x)[s] = IF s = {} THEN EmptyBook ELSE ReplayStep(events, s, G(x)[s \ {k}])
        BY <4>1, <4>3 DEF Replays, k
      <4> QED BY <4>2, <4>4 DEF k
    <3> QED BY <3>1, <3>2
  <2>4. g = [s \in SUBSET t |-> g[s]]
    OBVIOUS
  <2> HIDE DEF g
  <2>5. Replays(g, events, t)
    <3>1. g = [s \in SUBSET t |->
               IF s = {} THEN EmptyBook ELSE ReplayStep(events, s, g[s \ {LastOf(events, s)}])]
      BY <2>3, <2>4, Zenon
    <3> QED BY <3>1 DEF Replays
  <2> QED BY <1>2, <2>5
<1> QED BY <1>3, <1>4

(* A replay applies the last of its events to the replay of the others.     *)
LEMMA ReplayLast ==
  ASSUME NEW events, NEW S, Dated(events, S)
  PROVE  Replay(events, S) =
           IF S = {} THEN EmptyBook
           ELSE ReplayStep(events, S, Replay(events, S \ {LastOf(events, S)}))
<1> DEFINE g == CHOOSE g : Replays(g, events, S)
           l == LastOf(events, S)
           T == S \ {l}
           h == CHOOSE h : Replays(h, events, T)
<1>1. Dated(events, T)
  BY FS_RemoveElement DEF Dated
<1>2. Replays(g, events, S) /\ Replays(h, events, T)
  BY <1>1, ReplaysExist
<1>3. Replay(events, S) = g[S] /\ Replay(events, T) = h[T]
  BY ReplayIsChosen
<1> HIDE DEF g, h
<1>4. g[T] = h[T]
  <2>1. T \in SUBSET S /\ T \in SUBSET T
    OBVIOUS
  <2> HIDE DEF T
  <2> QED BY <1>1, <1>2, <2>1, ReplaysAgree
<1>5. g[S] = IF S = {} THEN EmptyBook ELSE ReplayStep(events, S, g[T])
  BY <1>2 DEF Replays
<1> QED BY <1>3, <1>4, <1>5

(* A replay depends on nothing but the events it replays.                   *)
LEMMA ReplaySame ==
  ASSUME NEW events, NEW others, NEW S, Dated(events, S), \A i \in S : others[i] = events[i]
  PROVE  Replay(others, S) = Replay(events, S)
<1> DEFINE g == CHOOSE g : Replays(g, events, S)
           h == CHOOSE h : Replays(h, others, S)
<1>1. Dated(others, S)
  BY DEF Dated
<1>2. Replays(g, events, S) /\ Replays(h, others, S)
  BY <1>1, ReplaysExist
<1>3. Replay(events, S) = g[S] /\ Replay(others, S) = h[S]
  BY ReplayIsChosen
<1> HIDE DEF g, h
<1>4. S \in SUBSET S
  OBVIOUS
<1>5. g[S] = h[S]
  BY <1>2, <1>4, ReplaysAgree
<1> QED BY <1>3, <1>5

-----------------------------------------------------------------------------
(* The remaining shares of every lot.                                       *)
Rem(ls) == [l \in DOMAIN ls |-> ls[l].remaining]

(* Lots as the tables hold them.                                            *)
LotsOK(ls) ==
  /\ IsFiniteSet(DOMAIN ls) /\ DOMAIN ls \subseteq Nat
  /\ \A l \in DOMAIN ls : ls[l] \in Lot /\ ls[l].remaining <= ls[l].original

(* All lots of an asset, the closed ones too.                               *)
LotsOf(ls, a) == {l \in DOMAIN ls : ls[l].asset = a}

(* The open lots are some of the lots; there are finitely many.             *)
LEMMA OpenFacts ==
  ASSUME NEW ls, LotsOK(ls), NEW a
  PROVE  /\ Dated(ls, OpenLots(ls, a)) /\ IsFiniteSet(OpenLots(ls, a))
         /\ \A l \in OpenLots(ls, a) : Rem(ls)[l] = ls[l].remaining /\ ls[l].remaining \in Nat
         /\ IsFiniteSet(LotsOf(ls, a)) /\ OpenLots(ls, a) \subseteq LotsOf(ls, a)
         /\ \A l \in LotsOf(ls, a) : Rem(ls)[l] = ls[l].remaining /\ ls[l].remaining \in Nat
<1>1. IsFiniteSet(OpenLots(ls, a)) /\ IsFiniteSet(LotsOf(ls, a))
  BY FS_Subset DEF OpenLots, LotsOf, LotsOK
<1> QED BY <1>1 DEF LotsOK, OpenLots, LotsOf, Lot, Dated, Rem

(* The open shares of an asset are what all its lots have left.             *)
LEMMA OpenSharesOfAll ==
  ASSUME NEW ls, LotsOK(ls), NEW a
  PROVE  /\ OpenShares(ls, a) = SumFunctionOnSet(Rem(ls), OpenLots(ls, a))
         /\ OpenShares(ls, a) = SumFunctionOnSet(Rem(ls), LotsOf(ls, a))
         /\ OpenShares(ls, a) \in Nat
<1> DEFINE f == [l \in OpenLots(ls, a) |-> ls[l].remaining]
           O == OpenLots(ls, a)
           L == LotsOf(ls, a)
<1>1. OpenShares(ls, a) = SumFunctionOnSet(f, O)
  BY DEF OpenShares, SumFunction
<1>2. \A l \in O : f[l] = Rem(ls)[l]
  BY OpenFacts
<1>3. IsFiniteSet(O) /\ IsFiniteSet(L) /\ O \in SUBSET L
  BY OpenFacts
<1>4. \A l \in L : Rem(ls)[l] \in Nat
  BY OpenFacts
<1>5. ASSUME NEW l \in L \ O PROVE Rem(ls)[l] = 0
  <2>1. Rem(ls)[l] = ls[l].remaining /\ ls[l].remaining \in Nat
    BY OpenFacts
  <2>2. ~(ls[l].remaining > 0)
    BY <1>5 DEF LotsOf, OpenLots
  <2> QED BY <2>1, <2>2
<1> HIDE DEF f, O, L
<1>6. SumFunctionOnSet(f, O) = SumFunctionOnSet(Rem(ls), O)
  BY <1>2, <1>3, SumSame
<1>7. SumFunctionOnSet(Rem(ls), L) = SumFunctionOnSet(Rem(ls), O)
  <2>1. \A l \in L : Rem(ls)[l] \in Int
    BY <1>4
  <2> QED BY <1>3, <1>5, <2>1, SumWithin
<1>8. SumFunctionOnSet(Rem(ls), L) \in Nat
  BY <1>3, <1>4, SumNat
<1> QED BY <1>1, <1>6, <1>7, <1>8 DEF O, L

(* The shares ahead of a lot, as a sum over the remaining shares.           *)
LEMMA AheadSum ==
  ASSUME NEW ls, LotsOK(ls), NEW a, NEW l
  PROVE  /\ Ahead(ls, a, l) = SumFunctionOnSet(Rem(ls), {k \in OpenLots(ls, a) : Before(ls, k, l)})
         /\ Ahead(ls, a, l) \in Nat
<1> DEFINE S == {k \in OpenLots(ls, a) : Before(ls, k, l)}
           f == [k \in S |-> ls[k].remaining]
<1>1. Ahead(ls, a, l) = SumFunctionOnSet(f, S)
  BY DEF Ahead, SumFunction
<1>2. S \subseteq OpenLots(ls, a) /\ IsFiniteSet(S)
  BY OpenFacts, FS_Subset
<1>3. \A k \in S : f[k] = Rem(ls)[k] /\ Rem(ls)[k] \in Nat
  BY OpenFacts, <1>2
<1> HIDE DEF f, S
<1>4. SumFunctionOnSet(f, S) = SumFunctionOnSet(Rem(ls), S)
  BY <1>2, <1>3, SumSame
<1>5. SumFunctionOnSet(Rem(ls), S) \in Nat
  BY <1>2, <1>3, SumNat
<1> QED BY <1>1, <1>4, <1>5 DEF S

(* What a lot gives up, without Min and Max.                                *)
LEMMA TakenIs ==
  ASSUME NEW ls, LotsOK(ls), NEW a, NEW q \in Nat, NEW l \in OpenLots(ls, a)
  PROVE  /\ Taken(ls, a, q, l) = IF q <= Ahead(ls, a, l) THEN 0
                                 ELSE IF ls[l].remaining <= q - Ahead(ls, a, l) THEN ls[l].remaining
                                 ELSE q - Ahead(ls, a, l)
         /\ Taken(ls, a, q, l) \in 0..ls[l].remaining
<1> DEFINE h == Ahead(ls, a, l)
           r == ls[l].remaining
           m == Max({0, q - h})
<1>1. h \in Nat /\ r \in Nat
  BY AheadSum, OpenFacts
<1>2. Taken(ls, a, q, l) = Min({r, m})
  BY DEF Taken
<1> HIDE DEF h, r
<1>3. m = IF 0 >= q - h THEN 0 ELSE q - h
  BY <1>1, MaxTwo
<1>4. m \in Int
  BY <1>1, <1>3
<1> HIDE DEF m
<1>5. Min({r, m}) = IF r <= m THEN r ELSE m
  BY <1>1, <1>4, MinTwo
<1> QED BY <1>1, <1>2, <1>3, <1>5 DEF h, r

(* What comes before an earlier lot, and that lot, comes before a later one. *)
LEMMA AheadGrows ==
  ASSUME NEW ls, LotsOK(ls), NEW a, NEW k \in OpenLots(ls, a), NEW l \in OpenLots(ls, a),
         Before(ls, k, l)
  PROVE  Ahead(ls, a, k) + ls[k].remaining <= Ahead(ls, a, l)
<1> DEFINE O == OpenLots(ls, a)
           A(j) == {i \in O : Before(ls, i, j)}
<1>1. Dated(ls, O) /\ IsFiniteSet(O) /\ \A j \in O : Rem(ls)[j] = ls[j].remaining /\ ls[j].remaining \in Nat
  BY OpenFacts
<1>2. A(k) \union {k} \in SUBSET A(l) /\ k \notin A(k)
  BY <1>1, BeforeIsTotalOrder
<1>3. IsFiniteSet(A(k)) /\ IsFiniteSet(A(l))
  BY <1>1, FS_Subset
<1>4. (\A j \in A(l) : Rem(ls)[j] \in Nat) /\ \A j \in A(k) \union {k} : Rem(ls)[j] \in Int
  BY <1>1, <1>2
<1>5. Ahead(ls, a, k) = SumFunctionOnSet(Rem(ls), A(k)) /\ Ahead(ls, a, k) \in Nat
  BY AheadSum
<1>6. Ahead(ls, a, l) = SumFunctionOnSet(Rem(ls), A(l)) /\ Ahead(ls, a, l) \in Nat
  BY AheadSum
<1> DEFINE Ak == A(k)
           Al == A(l)
<1> HIDE DEF A
<1>7. SumFunctionOnSet(Rem(ls), Ak \union {k}) = SumFunctionOnSet(Rem(ls), Ak) + Rem(ls)[k]
  BY <1>2, <1>3, <1>4, SumAdd
<1>8. SumFunctionOnSet(Rem(ls), Ak \union {k}) <= SumFunctionOnSet(Rem(ls), Al)
  BY <1>2, <1>3, <1>4, SumPart
<1> QED BY <1>1, <1>5, <1>6, <1>7, <1>8

(* First in, first out: a lot gives nothing up before every open lot ahead  *)
(* of it has given up all it has.                                           *)
LEMMA TakenInOrder ==
  ASSUME NEW ls, LotsOK(ls), NEW a, NEW q \in Nat,
         NEW k \in OpenLots(ls, a), NEW l \in OpenLots(ls, a),
         Before(ls, k, l), Taken(ls, a, q, l) > 0
  PROVE  Taken(ls, a, q, k) = ls[k].remaining
<1>1. Ahead(ls, a, k) + ls[k].remaining <= Ahead(ls, a, l)
  BY AheadGrows
<1>2. ~(q <= Ahead(ls, a, l))
  BY TakenIs
<1>3. Ahead(ls, a, k) \in Nat /\ Ahead(ls, a, l) \in Nat /\ ls[k].remaining \in Nat
  BY AheadSum, OpenFacts
<1>4. q > Ahead(ls, a, k) /\ ls[k].remaining <= q - Ahead(ls, a, k)
  BY <1>1, <1>2, <1>3
<1> QED BY <1>3, <1>4, TakenIs

(* The lots give up what is asked for, or all they have.                    *)
LEMMA TakenAddsUp ==
  ASSUME NEW ls, LotsOK(ls), NEW a, NEW q \in Nat,
         NEW t, \A l \in OpenLots(ls, a) : t[l] = Taken(ls, a, q, l)
  PROVE  SumFunctionOnSet(t, OpenLots(ls, a)) =
           IF OpenShares(ls, a) < q THEN OpenShares(ls, a) ELSE q
<1> DEFINE O == OpenLots(ls, a)
           R(s) == SumFunctionOnSet(Rem(ls), s)
           T(s) == SumFunctionOnSet(t, s)
           Down(s) == \A k \in O, l \in s : Before(ls, k, l) => k \in s
           Bad == {s \in SUBSET O : Down(s) /\ T(s) # IF R(s) < q THEN R(s) ELSE q}
<1>1. Bad = {}
  <2> SUFFICES ASSUME Bad # {} PROVE FALSE
    OBVIOUS
  <2>1. PICK s \in Bad : \A x \in s : s \ {x} \notin Bad
    <3>1. Bad \in SUBSET SUBSET O
      OBVIOUS
    <3>2. IsFiniteSet(O)
      BY OpenFacts
    <3> HIDE DEF Bad
    <3> QED BY <3>1, <3>2, Smallest
  <2>2. s \subseteq O /\ Down(s) /\ T(s) # IF R(s) < q THEN R(s) ELSE q
    BY <2>1
  <2>3. Dated(ls, O) /\ Dated(ls, s) /\ IsFiniteSet(s)
    BY <2>2, OpenFacts, FS_Subset DEF Dated
  <2>4. s # {}
    <3> SUFFICES ASSUME s = {} PROVE FALSE
      OBVIOUS
    <3>1. T(s) = 0 /\ R(s) = 0
      BY SumEmpty
    <3> HIDE DEF T, R
    <3> QED BY <2>2, <3>1
  <2> DEFINE l == LastOf(ls, s)
             r == s \ {l}
  <2>5. l \in s /\ \A j \in r : Before(ls, j, l)
    BY <2>3, <2>4, LastExists
  <2> HIDE DEF l
  <2>6. l \in O /\ r \in SUBSET O /\ IsFiniteSet(r)
    BY <2>2, <2>3, <2>5, FS_RemoveElement
  <2>7. r = {k \in O : Before(ls, k, l)}
    BY <2>2, <2>3, <2>5, <2>6, BeforeIsTotalOrder
  <2>8. Down(r)
    BY <2>3, <2>6, <2>7, BeforeIsTotalOrder
  <2>9. T(r) = IF R(r) < q THEN R(r) ELSE q
    BY <2>1, <2>5, <2>6, <2>8
  <2>10. R(r) = Ahead(ls, a, l) /\ R(r) \in Nat
    <3>1. Ahead(ls, a, l) = R({k \in O : Before(ls, k, l)}) /\ Ahead(ls, a, l) \in Nat
      BY AheadSum
    <3> QED BY <2>7, <3>1
  <2>11. R(s) = Rem(ls)[l] + R(r) /\ Rem(ls)[l] = ls[l].remaining /\ ls[l].remaining \in Nat
    <3>1. \A x \in s : Rem(ls)[x] \in Int
      BY <2>2, OpenFacts
    <3> QED BY <2>3, <2>5, <2>6, <3>1, SumRemove, OpenFacts
  <2>12. T(s) = t[l] + T(r) /\ t[l] = Taken(ls, a, q, l)
    <3>1. \A x \in s : t[x] \in Int
      BY <2>2, TakenIs, OpenFacts
    <3> QED BY <2>3, <2>5, <2>6, <3>1, SumRemove
  <2>13. Taken(ls, a, q, l) = IF q <= R(r) THEN 0
                              ELSE IF ls[l].remaining <= q - R(r) THEN ls[l].remaining ELSE q - R(r)
    BY <2>6, <2>10, TakenIs
  <2> DEFINE n == ls[l].remaining
             Rr == R(r)
             Rs == R(s)
             Tr == T(r)
             Ts == T(s)
  <2>14. Rr \in Nat /\ n \in Nat /\ Rs = n + Rr /\ Tr = IF Rr < q THEN Rr ELSE q
    BY <2>9, <2>10, <2>11
  <2>15. Ts = (IF q <= Rr THEN 0 ELSE IF n <= q - Rr THEN n ELSE q - Rr) + Tr
    BY <2>12, <2>13
  <2>16. Ts # IF Rs < q THEN Rs ELSE q
    BY <2>2
  <2> HIDE DEF n, Rr, Rs, Tr, Ts
  <2> QED BY <2>14, <2>15, <2>16
<1>2. Down(O)
  OBVIOUS
<1>3. T(O) = IF R(O) < q THEN R(O) ELSE q
  BY <1>1, <1>2
<1> HIDE DEF T, R
<1>4. OpenShares(ls, a) = R(O)
  BY OpenSharesOfAll DEF R
<1> QED BY <1>3, <1>4 DEF T

-----------------------------------------------------------------------------
(* A book as replays and requests leave it.                                 *)
BookOK(b) ==
  /\ b = [lots |-> b.lots, cons |-> b.cons, err |-> b.err]
  /\ LotsOK(b.lots)
  /\ b.cons \subseteq Consumption
  /\ b.err \in {"ok", "insufficient"}

(* The lots a consumption takes shares from.                                *)
Hit(ls, a, q) == {l \in OpenLots(ls, a) : Taken(ls, a, q, l) > 0}

(* What becomes of the lots.                                                *)
Used(ls, a, q) ==
  [l \in DOMAIN ls |-> IF l \in Hit(ls, a, q)
                       THEN [ls[l] EXCEPT !.remaining = @ - Taken(ls, a, q, l)] ELSE ls[l]]

(* The rows that are recorded, with given costs and profits.                *)
Rows(ls, id, a, q, cost, pnl) ==
  {[event |-> id, lot |-> l, qty |-> Taken(ls, a, q, l), cost |-> cost[l], pnl |-> pnl[l]] :
     l \in Hit(ls, a, q)}

(* The book after the consumption, which fails if the shares do not suffice. *)
Consumed(b, id, a, q, cost, pnl) ==
  IF OpenShares(b.lots, a) < q THEN [b EXCEPT !.err = "insufficient"]
  ELSE [b EXCEPT !.lots = Used(b.lots, a, q), !.cons = @ \union Rows(b.lots, id, a, q, cost, pnl)]

(* The events that open a lot.                                              *)
Inserts(e) ==
  \/ e.type \in {"buy", "stock_dividend"}
  \/ e.type = "adjustment" /\ e.qty > 0

(* The events that consume lots.                                            *)
Consumes(e) ==
  \/ e.type \in {"sell", "capital_reduction"}
  \/ e.type = "adjustment" /\ e.qty < 0

(* The events that leave the rows alone.                                    *)
Idles(e) ==
  \/ e.asset = NoAsset
  \/ e.type \in {"cash", "cash_dividend"}
  \/ e.type \in {"capital_reduction", "adjustment"} /\ e.qty = 0

(* What the lot that e opens has cost.                                      *)
OpeningCost(e) ==
  IF e.type = "buy" THEN -e.cash
  ELSE IF e.type = "adjustment" /\ e.unitCost # Absent THEN e.unitCost * e.qty ELSE 0

(* c is b with the lot of e.                                                *)
Inserted(b, id, e, c) ==
  Inserts(e) /\ e.asset \in Asset /\ c = InsertLot(b, id, e, OpeningCost(e))

(* Unless the event says otherwise, shares leave a lot at its own cost.     *)
AtCost(ls, e, cost) ==
  e.unitCost = Absent =>
    \A l \in Hit(ls, e.asset, Abs(e.qty)) :
      cost[l] = FifoCost(ls, l, Taken(ls, e.asset, Abs(e.qty), l))

(* c is b after a consumption for e.                                        *)
Sold(b, id, e, c) ==
  /\ Consumes(e) /\ e.asset \in Asset
  /\ \E cost, pnl \in [Hit(b.lots, e.asset, Abs(e.qty)) -> Int] :
       /\ c = Consumed(b, id, e.asset, Abs(e.qty), cost, pnl)
       /\ e.type # "adjustment" =>
            \A l \in Hit(b.lots, e.asset, Abs(e.qty)) :
              cost[l] + pnl[l] = (e.cash * Taken(b.lots, e.asset, Abs(e.qty), l)) \div Abs(e.qty)
       /\ AtCost(b.lots, e, cost)

(* The consumptions once those of event e have been recorded.               *)
Booked(b, id, e, cons) ==
  \E cost, pnl \in [Hit(b.lots, e.asset, Abs(e.qty)) -> Int] :
    /\ cons = b.cons \union Rows(b.lots, id, e.asset, Abs(e.qty), cost, pnl)
    /\ e.type # "adjustment" =>
         \A l \in Hit(b.lots, e.asset, Abs(e.qty)) :
           cost[l] + pnl[l] = (e.cash * Taken(b.lots, e.asset, Abs(e.qty), l)) \div Abs(e.qty)
    /\ AtCost(b.lots, e, cost)

(* c is b after the split e.                                                *)
Split(b, e, c) == e.type = "split" /\ e.asset \in Asset /\ c = ApplySplitToLots(b, e.asset, e.ratio)

(* d is c with other adjusted costs.                                        *)
Recosted(c, d) ==
  /\ d = [lots |-> d.lots, cons |-> c.cons, err |-> c.err]
  /\ DOMAIN d.lots = DOMAIN c.lots
  /\ \A l \in DOMAIN c.lots :
       d.lots[l].adjusted \in Int /\ d.lots[l] = [c.lots[l] EXCEPT !.adjusted = d.lots[l].adjusted]

(* Dividing by a positive number.                                           *)
LEMMA Divides ==
  ASSUME NEW x \in Int, NEW d \in Nat \ {0}
  PROVE  x \div d \in Int /\ (x \in Nat => x \div d \in Nat)
OBVIOUS

(* Scaling by a ratio, rounded down, keeps the order.                       *)
LEMMA DivideInOrder ==
  ASSUME NEW x \in Nat, NEW y \in Nat, x <= y, NEW r \in Nat, NEW d \in Nat \ {0}
  PROVE  (x * r) \div d <= (y * r) \div d
<1> DEFINE u == x * r
           v == y * r
<1>1. u \in Nat /\ v \in Nat /\ u <= v
  OBVIOUS
<1> HIDE DEF u, v
<1>2. u \div d <= v \div d
  <2> DEFINE m == u \div d
             n == v \div d
  <2>1. m \in Nat /\ n \in Nat /\ m * d <= u /\ v < (n + 1) * d
    BY <1>1
  <2> HIDE DEF m, n
  <2>2. ASSUME n < m PROVE FALSE
    <3>1. n + 1 <= m
      BY <2>1, <2>2
    <3>2. (n + 1) * d <= m * d
      BY <2>1, <3>1
    <3> DEFINE s == (n + 1) * d
               t == m * d
    <3>3. s \in Int /\ t \in Int /\ t <= u /\ v < s /\ s <= t
      BY <2>1, <3>2
    <3> HIDE DEF s, t
    <3> QED BY <1>1, <3>3
  <2> QED BY <2>1, <2>2 DEF m, n
<1> QED BY <1>2 DEF u, v

(* The types of what an event says.                                         *)
LEMMA EventFields ==
  ASSUME NEW e \in Event
  PROVE  /\ e.type \in EventTypes /\ e.asset \in Asset \union {NoAsset} /\ e.date \in Nat
         /\ e.qty \in Int /\ e.cash \in Int /\ e.costDelta \in Int
         /\ e.ratio[1] \in Nat /\ e.ratio[2] \in Nat \ {0}
         /\ e.unitCost \in Nat \union {Absent} /\ e.unitCost \in Int
         /\ Abs(e.qty) \in Nat
BY DEF Event, Abs, Absent

(* That cost is a number.                                                   *)
LEMMA OpeningCostInt == ASSUME NEW e \in Event PROVE OpeningCost(e) \in Int
<1>1. e.cash \in Int /\ e.unitCost \in Int /\ e.qty \in Int
  BY EventFields
<1>2. -e.cash \in Int /\ e.unitCost * e.qty \in Int
  BY <1>1
<1> QED BY <1>2 DEF OpeningCost

(* A new lot leaves the others as they were.                                *)
LEMMA InsertedOK ==
  ASSUME NEW b, BookOK(b), NEW id \in Nat, NEW e \in Event, NEW c, Inserted(b, id, e, c)
  PROVE  /\ BookOK(c) /\ c.cons = b.cons /\ c.err = b.err
         /\ DOMAIN c.lots = DOMAIN b.lots \union {id}
         /\ \A l \in DOMAIN b.lots \ {id} : c.lots[l] = b.lots[l]
         /\ c.lots[id].asset = e.asset /\ c.lots[id].date = e.date
         /\ c.lots[id].remaining = Abs(e.qty)
<1> DEFINE cost == OpeningCost(e)
<1>1. c = InsertLot(b, id, e, cost) /\ cost \in Int
  BY OpeningCostInt DEF Inserted
<1> HIDE DEF cost
<1> DEFINE new == [asset |-> e.asset, date |-> e.date, original |-> Abs(e.qty),
                   remaining |-> Abs(e.qty), cost |-> cost, adjusted |-> cost]
           ls == [l \in DOMAIN b.lots \union {id} |-> IF l = id THEN new ELSE b.lots[l]]
<1>2. new \in Lot /\ new.remaining <= new.original
  BY <1>1, EventFields DEF Inserted, Lot
<1>3. b = [lots |-> b.lots, cons |-> b.cons, err |-> b.err]
  BY DEF BookOK
<1>4. c = [lots |-> ls, cons |-> b.cons, err |-> b.err]
  BY <1>1, <1>3 DEF InsertLot
<1>5. LotsOK(ls)
  <2>1. IsFiniteSet(DOMAIN b.lots \union {id})
    BY FS_AddElement DEF BookOK, LotsOK
  <2> HIDE DEF new
  <2> QED BY <1>2, <2>1 DEF BookOK, LotsOK
<1>6. BookOK(c)
  <2> HIDE DEF ls
  <2> QED BY <1>4, <1>5 DEF BookOK
<1> QED BY <1>4, <1>6

(* The numbers of a lot that shares are taken from.                         *)
LEMMA HitOK ==
  ASSUME NEW ls, LotsOK(ls), NEW a, NEW q \in Nat, NEW l \in Hit(ls, a, q)
  PROVE  /\ l \in OpenLots(ls, a) /\ l \in DOMAIN ls /\ l \in Nat
         /\ Taken(ls, a, q, l) \in Nat /\ Taken(ls, a, q, l) > 0
         /\ Taken(ls, a, q, l) <= ls[l].remaining /\ ls[l].remaining \in Nat
         /\ q > 0 /\ ls[l].original \in Nat \ {0} /\ ls[l].cost \in Int
<1>1. l \in OpenLots(ls, a) /\ l \in DOMAIN ls /\ l \in Nat /\ Taken(ls, a, q, l) > 0
  BY DEF Hit, OpenLots, LotsOK
<1>2. ls[l] \in Lot /\ ls[l].remaining <= ls[l].original
  BY <1>1 DEF LotsOK
<1>3. /\ Taken(ls, a, q, l) = IF q <= Ahead(ls, a, l) THEN 0
                               ELSE IF ls[l].remaining <= q - Ahead(ls, a, l) THEN ls[l].remaining
                               ELSE q - Ahead(ls, a, l)
      /\ Taken(ls, a, q, l) \in 0..ls[l].remaining
  BY <1>1, TakenIs
<1>4. Ahead(ls, a, l) \in Nat
  BY AheadSum
<1>5. ls[l].remaining \in Nat /\ ls[l].original \in Nat /\ ls[l].cost \in Int
  BY <1>2 DEF Lot
<1> QED BY <1>1, <1>2, <1>3, <1>4, <1>5

(* What becomes of the lots: only their remaining shares change.            *)
LEMMA UsedOK ==
  ASSUME NEW ls, LotsOK(ls), NEW a, NEW q \in Nat
  PROVE  /\ LotsOK(Used(ls, a, q)) /\ DOMAIN Used(ls, a, q) = DOMAIN ls
         /\ \A l \in DOMAIN ls :
              /\ Used(ls, a, q)[l].asset = ls[l].asset /\ Used(ls, a, q)[l].date = ls[l].date
              /\ Used(ls, a, q)[l].remaining =
                   ls[l].remaining - (IF l \in Hit(ls, a, q) THEN Taken(ls, a, q, l) ELSE 0)
<1>1. DOMAIN Used(ls, a, q) = DOMAIN ls
  BY DEF Used
<1>2. ASSUME NEW l \in DOMAIN ls
      PROVE  /\ Used(ls, a, q)[l] \in Lot
             /\ Used(ls, a, q)[l].remaining <= Used(ls, a, q)[l].original
             /\ Used(ls, a, q)[l].asset = ls[l].asset /\ Used(ls, a, q)[l].date = ls[l].date
             /\ Used(ls, a, q)[l].remaining =
                  ls[l].remaining - (IF l \in Hit(ls, a, q) THEN Taken(ls, a, q, l) ELSE 0)
  <2>1. ls[l] \in Lot /\ ls[l].remaining <= ls[l].original
    BY DEF LotsOK
  <2>2. CASE l \in Hit(ls, a, q)
    <3> DEFINE n == Taken(ls, a, q, l)
    <3>1. n \in Nat /\ n <= ls[l].remaining
      BY <2>2, HitOK
    <3>2. Used(ls, a, q)[l] = [ls[l] EXCEPT !.remaining = @ - n]
      BY <2>2 DEF Used
    <3> HIDE DEF n
    <3>3. /\ [ls[l] EXCEPT !.remaining = @ - n] \in Lot
          /\ [ls[l] EXCEPT !.remaining = @ - n].remaining = ls[l].remaining - n
          /\ [ls[l] EXCEPT !.remaining = @ - n].original = ls[l].original
          /\ [ls[l] EXCEPT !.remaining = @ - n].asset = ls[l].asset
          /\ [ls[l] EXCEPT !.remaining = @ - n].date = ls[l].date
      BY <2>1, <3>1 DEF Lot
    <3>4. ls[l].remaining - n <= ls[l].original
      BY <2>1, <3>1 DEF Lot
    <3> QED BY <2>2, <3>2, <3>3, <3>4 DEF n
  <2>3. CASE l \notin Hit(ls, a, q)
    <3>1. Used(ls, a, q)[l] = ls[l]
      BY <2>3 DEF Used
    <3>2. ls[l].remaining - 0 = ls[l].remaining
      BY <2>1 DEF Lot
    <3> QED BY <2>1, <2>3, <3>1, <3>2
  <2> QED BY <2>2, <2>3
<1> QED BY <1>1, <1>2 DEF LotsOK

(* The rows a consumption records are consumptions.                         *)
LEMMA RowsOK ==
  ASSUME NEW ls, LotsOK(ls), NEW id \in Nat, NEW a, NEW q \in Nat,
         NEW cost \in [Hit(ls, a, q) -> Int], NEW pnl \in [Hit(ls, a, q) -> Int]
  PROVE  Rows(ls, id, a, q, cost, pnl) \subseteq Consumption
<1> SUFFICES ASSUME NEW l \in Hit(ls, a, q)
             PROVE  [event |-> id, lot |-> l, qty |-> Taken(ls, a, q, l),
                     cost |-> cost[l], pnl |-> pnl[l]] \in Consumption
  BY DEF Rows
<1>1. l \in Nat /\ Taken(ls, a, q, l) \in Nat /\ cost[l] \in Int /\ pnl[l] \in Int
  BY HitOK
<1> QED BY <1>1 DEF Consumption

(* A consumption that finds enough shares, and one that does not.           *)
LEMMA SoldOK ==
  ASSUME NEW b, BookOK(b), NEW id \in Nat, NEW e \in Event, NEW c, Sold(b, id, e, c)
  PROVE  /\ BookOK(c)
         /\ OpenShares(b.lots, e.asset) < Abs(e.qty) =>
              c.lots = b.lots /\ c.cons = b.cons /\ c.err = "insufficient"
         /\ ~(OpenShares(b.lots, e.asset) < Abs(e.qty)) =>
              /\ c.err = b.err /\ c.lots = Used(b.lots, e.asset, Abs(e.qty))
              /\ Booked(b, id, e, c.cons)
<1> DEFINE q == Abs(e.qty)
           H == Hit(b.lots, e.asset, q)
<1>1. PICK cost \in [H -> Int], pnl \in [H -> Int] :
        /\ c = Consumed(b, id, e.asset, q, cost, pnl)
        /\ e.type # "adjustment" =>
             \A l \in H : cost[l] + pnl[l] = (e.cash * Taken(b.lots, e.asset, q, l)) \div q
        /\ AtCost(b.lots, e, cost)
  BY DEF Sold
<1>2. q \in Nat
  BY EventFields
<1>3. b = [lots |-> b.lots, cons |-> b.cons, err |-> b.err] /\ LotsOK(b.lots)
      /\ b.cons \subseteq Consumption /\ b.err \in {"ok", "insufficient"}
  BY DEF BookOK
<1> HIDE DEF q
<1> DEFINE R == Rows(b.lots, id, e.asset, q, cost, pnl)
           U == Used(b.lots, e.asset, q)
<1>4. CASE OpenShares(b.lots, e.asset) < q
  <2>1. c = [lots |-> b.lots, cons |-> b.cons, err |-> "insufficient"]
    BY <1>1, <1>3, <1>4 DEF Consumed
  <2>2. BookOK(c)
    BY <1>3, <2>1 DEF BookOK
  <2> QED BY <1>4, <2>1, <2>2 DEF q
<1>5. CASE ~(OpenShares(b.lots, e.asset) < q)
  <2>1. c = [lots |-> U, cons |-> b.cons \union R, err |-> b.err]
    BY <1>1, <1>3, <1>5 DEF Consumed
  <2>2. R \subseteq Consumption
    BY <1>2, <1>3, RowsOK
  <2>3. LotsOK(U)
    BY <1>2, <1>3, UsedOK
  <2> HIDE DEF U, R
  <2>4. BookOK(c)
    BY <1>3, <2>1, <2>2, <2>3 DEF BookOK
  <2>5. c.err = b.err /\ c.lots = U /\ c.cons = b.cons \union R
    BY <2>1
  <2>6. Booked(b, id, e, c.cons)
    <3>1. \E x, y \in [H -> Int] :
            /\ c.cons = b.cons \union Rows(b.lots, id, e.asset, q, x, y)
            /\ e.type # "adjustment" =>
                 \A l \in H : x[l] + y[l] = (e.cash * Taken(b.lots, e.asset, q, l)) \div q
            /\ AtCost(b.lots, e, x)
      <4> HIDE DEF H
      <4> QED BY <1>1, <2>5 DEF R
    <3> QED BY <3>1, Zenon DEF Booked, q
  <2> QED BY <1>5, <2>4, <2>5, <2>6 DEF q, U
<1> QED BY <1>4, <1>5

(* A split scales the open lots and keeps everything else.                  *)
LEMMA SplitOK ==
  ASSUME NEW b, BookOK(b), NEW e \in Event, NEW c, Split(b, e, c)
  PROVE  /\ BookOK(c) /\ c.cons = b.cons /\ c.err = b.err
         /\ DOMAIN c.lots = DOMAIN b.lots
         /\ \A l \in DOMAIN b.lots :
              /\ c.lots[l].asset = b.lots[l].asset /\ c.lots[l].date = b.lots[l].date
              /\ c.lots[l].remaining = IF l \in OpenLots(b.lots, e.asset)
                                       THEN (b.lots[l].remaining * e.ratio[1]) \div e.ratio[2]
                                       ELSE b.lots[l].remaining
<1> DEFINE ls == [l \in DOMAIN b.lots |->
                    IF l \in OpenLots(b.lots, e.asset)
                    THEN [b.lots[l] EXCEPT !.original = (@ * e.ratio[1]) \div e.ratio[2],
                                           !.remaining = (@ * e.ratio[1]) \div e.ratio[2]]
                    ELSE b.lots[l]]
<1>1. b = [lots |-> b.lots, cons |-> b.cons, err |-> b.err] /\ LotsOK(b.lots)
      /\ b.cons \subseteq Consumption /\ b.err \in {"ok", "insufficient"}
  BY DEF BookOK
<1>2. c = [lots |-> ls, cons |-> b.cons, err |-> b.err]
  BY <1>1 DEF Split, ApplySplitToLots
<1>3. DOMAIN ls = DOMAIN b.lots
  OBVIOUS
<1>4. ASSUME NEW l \in DOMAIN b.lots
      PROVE  /\ ls[l] \in Lot /\ ls[l].remaining <= ls[l].original
             /\ ls[l].asset = b.lots[l].asset /\ ls[l].date = b.lots[l].date
             /\ ls[l].remaining = IF l \in OpenLots(b.lots, e.asset)
                                  THEN (b.lots[l].remaining * e.ratio[1]) \div e.ratio[2]
                                  ELSE b.lots[l].remaining
  <2> DEFINE x == b.lots[l]
             m == x.original
             n == x.remaining
             r == e.ratio[1]
             d == e.ratio[2]
  <2>1. x \in Lot /\ n \in Nat /\ m \in Nat /\ n <= m
    BY <1>1 DEF LotsOK, Lot
  <2>2. r \in Nat /\ d \in Nat \ {0}
    BY EventFields
  <2>3. CASE l \in OpenLots(b.lots, e.asset)
    <3> DEFINE M == (m * r) \div d
               N == (n * r) \div d
    <3>1. M \in Nat /\ N \in Nat
      <4>1. m * r \in Nat /\ n * r \in Nat
        BY <2>1, <2>2
      <4> HIDE DEF m, n, r, d
      <4> QED BY <2>2, <4>1, Divides
    <3>2. N <= M
      <4> HIDE DEF m, n, r, d
      <4> QED BY <2>1, <2>2, DivideInOrder
    <3>3. ls[l] = [x EXCEPT !.original = M, !.remaining = N]
      BY <2>3
    <3> HIDE DEF M, N, x
    <3>4. /\ [x EXCEPT !.original = M, !.remaining = N] \in Lot
          /\ [x EXCEPT !.original = M, !.remaining = N].remaining = N
          /\ [x EXCEPT !.original = M, !.remaining = N].original = M
          /\ [x EXCEPT !.original = M, !.remaining = N].asset = x.asset
          /\ [x EXCEPT !.original = M, !.remaining = N].date = x.date
      BY <2>1, <3>1 DEF Lot
    <3> HIDE DEF ls
    <3> QED BY <2>3, <3>2, <3>3, <3>4 DEF x, N
  <2>4. CASE l \notin OpenLots(b.lots, e.asset)
    BY <2>1, <2>4
  <2> QED BY <2>3, <2>4
<1> HIDE DEF ls
<1>5. LotsOK(ls)
  BY <1>1, <1>3, <1>4 DEF LotsOK
<1>6. BookOK(c)
  BY <1>1, <1>2, <1>5 DEF BookOK
<1> QED BY <1>2, <1>3, <1>4, <1>6

(* Other adjusted costs change nothing else.                                *)
LEMMA RecostedOK ==
  ASSUME NEW c, BookOK(c), NEW d, Recosted(c, d)
  PROVE  /\ BookOK(d) /\ d.cons = c.cons /\ d.err = c.err /\ DOMAIN d.lots = DOMAIN c.lots
         /\ \A l \in DOMAIN c.lots :
              /\ d.lots[l].asset = c.lots[l].asset /\ d.lots[l].date = c.lots[l].date
              /\ d.lots[l].remaining = c.lots[l].remaining
<1>1. ASSUME NEW l \in DOMAIN c.lots
      PROVE  /\ d.lots[l] \in Lot /\ d.lots[l].remaining <= d.lots[l].original
             /\ d.lots[l].asset = c.lots[l].asset /\ d.lots[l].date = c.lots[l].date
             /\ d.lots[l].remaining = c.lots[l].remaining
  <2> DEFINE x == c.lots[l]
             n == d.lots[l].adjusted
  <2>1. x \in Lot /\ x.remaining <= x.original
    BY DEF BookOK, LotsOK
  <2>2. n \in Int /\ d.lots[l] = [x EXCEPT !.adjusted = n]
    BY DEF Recosted
  <2> HIDE DEF x, n
  <2> QED BY <2>1, <2>2 DEF Lot, x
<1>2. DOMAIN d.lots = DOMAIN c.lots /\ d = [lots |-> d.lots, cons |-> c.cons, err |-> c.err]
  BY DEF Recosted
<1>3. LotsOK(d.lots)
  BY <1>1, <1>2 DEF BookOK, LotsOK
<1>4. d.cons = c.cons /\ d.err = c.err
  BY <1>2
<1>5. BookOK(d)
  BY <1>2, <1>3, <1>4 DEF BookOK
<1> QED BY <1>1, <1>2, <1>4, <1>5

(* Nothing is a change of adjusted costs too.                               *)
LEMMA NothingRecosted == ASSUME NEW b, BookOK(b) PROVE Recosted(b, b)
<1>1. b = [lots |-> b.lots, cons |-> b.cons, err |-> b.err]
  BY DEF BookOK
<1>2. ASSUME NEW l \in DOMAIN b.lots
      PROVE  /\ b.lots[l].adjusted \in Int
             /\ b.lots[l] = [b.lots[l] EXCEPT !.adjusted = b.lots[l].adjusted]
  <2>1. b.lots[l] \in Lot
    BY DEF BookOK, LotsOK
  <2> QED BY <2>1 DEF Lot
<1> QED BY <1>1, <1>2 DEF Recosted

(* A deduction changes adjusted costs only.                                 *)
LEMMA DeductRecosts ==
  ASSUME NEW b, BookOK(b), NEW a, NEW amount \in Int
  PROVE  Recosted(b, DeductAdjustedCostProRata(b, a, amount))
<1> DEFINE total == OpenShares(b.lots, a)
           ls == [l \in DOMAIN b.lots |->
                    IF l \in OpenLots(b.lots, a)
                    THEN [b.lots[l] EXCEPT !.adjusted = @ - (amount * b.lots[l].original) \div total]
                    ELSE b.lots[l]]
           d == DeductAdjustedCostProRata(b, a, amount)
<1>1. CASE b.err # "ok" \/ total = 0
  BY <1>1, NothingRecosted DEF DeductAdjustedCostProRata
<1>2. CASE ~(b.err # "ok" \/ total = 0)
  <2>1. b = [lots |-> b.lots, cons |-> b.cons, err |-> b.err] /\ LotsOK(b.lots)
    BY DEF BookOK
  <2>2. d = [lots |-> ls, cons |-> b.cons, err |-> b.err]
    BY <1>2, <2>1 DEF DeductAdjustedCostProRata
  <2>3. total \in Nat \ {0}
    BY <1>2, <2>1, OpenSharesOfAll
  <2>4. ASSUME NEW l \in DOMAIN b.lots
        PROVE  /\ ls[l].adjusted \in Int
               /\ ls[l] = [b.lots[l] EXCEPT !.adjusted = ls[l].adjusted]
    <3>1. b.lots[l] \in Lot
      BY <2>1 DEF LotsOK
    <3> DEFINE part == (amount * b.lots[l].original) \div total
    <3>2. part \in Int
      <4>1. amount * b.lots[l].original \in Int
        BY <3>1 DEF Lot
      <4> HIDE DEF total
      <4> QED BY <2>3, <4>1, Divides
    <3>3. ls[l] = IF l \in OpenLots(b.lots, a)
                  THEN [b.lots[l] EXCEPT !.adjusted = @ - part] ELSE b.lots[l]
      OBVIOUS
    <3> HIDE DEF part, ls
    <3> QED BY <3>1, <3>2, <3>3 DEF Lot
  <2>5. DOMAIN ls = DOMAIN b.lots
    OBVIOUS
  <2> HIDE DEF ls, d
  <2> QED BY <2>2, <2>4, <2>5 DEF Recosted, d
<1> QED BY <1>1, <1>2

(* A sale or a reduction is a consumption whose costs and profits add up to *)
(* its share of the proceeds.                                               *)
LEMMA FifoIsSold ==
  ASSUME NEW b, BookOK(b), NEW id, NEW e \in Event, e.asset \in Asset,
         e.type \in {"sell", "capital_reduction"}
  PROVE  Sold(b, id, e, ConsumeLotsFIFO(b, id, e.asset, Abs(e.qty), e.cash))
<1> DEFINE q == Abs(e.qty)
           ls == b.lots
           H == Hit(ls, e.asset, q)
           n(l) == Taken(ls, e.asset, q, l)
           cost == [l \in H |-> FifoCost(ls, l, n(l))]
           pnl == [l \in H |-> (e.cash * n(l)) \div q - FifoCost(ls, l, n(l))]
<1>1. q \in Nat /\ e.cash \in Int
  BY EventFields
<1>2. LotsOK(ls)
  BY DEF BookOK
<1>3. ASSUME NEW l \in H
      PROVE  FifoCost(ls, l, n(l)) \in Int /\ (e.cash * n(l)) \div q \in Int
  <2>1. n(l) \in Nat /\ ls[l].original \in Nat \ {0} /\ ls[l].cost \in Int /\ q \in Nat \ {0}
    <3> HIDE DEF q
    <3> QED BY <1>1, <1>2, HitOK
  <2>2. ls[l].cost * n(l) \in Int /\ e.cash * n(l) \in Int
    <3> DEFINE N == n(l)
               C == ls[l].cost
    <3>1. N \in Nat /\ C \in Int
      BY <2>1
    <3> HIDE DEF N, C
    <3>2. C * N \in Int /\ e.cash * N \in Int
      BY <1>1, <3>1
    <3> QED BY <3>2 DEF N, C
  <2> HIDE DEF q, n
  <2> QED BY <2>1, <2>2, Divides DEF FifoCost
<1>4. cost \in [H -> Int] /\ pnl \in [H -> Int]
  <2>1. \A l \in H : FifoCost(ls, l, n(l)) \in Int
                     /\ (e.cash * n(l)) \div q - FifoCost(ls, l, n(l)) \in Int
    <3> HIDE DEF H, n, q
    <3> QED BY <1>3
  <2> HIDE DEF H, n, q
  <2> QED BY <2>1
<1>5. \A l \in H : cost[l] + pnl[l] = (e.cash * n(l)) \div q
  <2> HIDE DEF H, n, q
  <2> QED BY <1>3
<1>6. ConsumeLotsFIFO(b, id, e.asset, q, e.cash) = Consumed(b, id, e.asset, q, cost, pnl)
  <2>1. \A l \in H : cost[l] = FifoCost(ls, l, n(l))
                     /\ pnl[l] = (e.cash * n(l)) \div q - FifoCost(ls, l, n(l))
    OBVIOUS
  <2>2. {[event |-> id, lot |-> l, qty |-> n(l), cost |-> FifoCost(ls, l, n(l)),
          pnl |-> (e.cash * n(l)) \div q - FifoCost(ls, l, n(l))] : l \in H}
        = Rows(ls, id, e.asset, q, cost, pnl)
    BY DEF Rows
  <2> QED BY <2>2 DEF ConsumeLotsFIFO, ConsumeLots, Consumed, Used, Hit
<1>7. \E x, y \in [H -> Int] :
        /\ ConsumeLotsFIFO(b, id, e.asset, q, e.cash) = Consumed(b, id, e.asset, q, x, y)
        /\ e.type # "adjustment" => \A l \in H : x[l] + y[l] = (e.cash * n(l)) \div q
        /\ AtCost(ls, e, x)
  <2>1. AtCost(ls, e, cost)
    BY DEF AtCost
  <2> HIDE DEF cost, pnl, H, n, q
  <2> QED BY <1>4, <1>5, <1>6, <2>1
<1>8. Consumes(e)
  BY DEF Consumes
<1> QED BY <1>7, <1>8, Zenon DEF Sold

(* A negative adjustment is a consumption.                                  *)
LEMMA AdjustmentIsSold ==
  ASSUME NEW b, BookOK(b), NEW id, NEW e \in Event, e.asset \in Asset,
         e.type = "adjustment", e.qty < 0
  PROVE  Sold(b, id, e, ConsumeLotsForAdjustment(b, id, e.asset, -e.qty, e.unitCost))
<1> DEFINE q == Abs(e.qty)
           ls == b.lots
           H == Hit(ls, e.asset, q)
           n(l) == Taken(ls, e.asset, q, l)
           of(l) == IF e.unitCost = Absent THEN FifoCost(ls, l, n(l)) ELSE e.unitCost * n(l)
           cost == [l \in H |-> of(l)]
           pnl == [l \in H |-> 0]
<1>1. q \in Nat /\ e.unitCost \in Int /\ -e.qty = q
  BY EventFields DEF Abs
<1>2. LotsOK(ls)
  BY DEF BookOK
<1>3. ASSUME NEW l \in H PROVE of(l) \in Int
  <2> DEFINE N == n(l)
             C == ls[l].cost
  <2>1. N \in Nat /\ ls[l].original \in Nat \ {0} /\ C \in Int
    <3> HIDE DEF q
    <3> QED BY <1>1, <1>2, HitOK
  <2> HIDE DEF q, N, C
  <2>2. C * N \in Int /\ e.unitCost * N \in Int
    BY <1>1, <2>1
  <2>3. FifoCost(ls, l, N) \in Int
    BY <2>1, <2>2, Divides DEF FifoCost, C
  <2> QED BY <2>2, <2>3 DEF N
<1>4. cost \in [H -> Int] /\ pnl \in [H -> Int]
  <2> HIDE DEF H, of, q
  <2> QED BY <1>3
<1>5. ConsumeLotsForAdjustment(b, id, e.asset, q, e.unitCost) = Consumed(b, id, e.asset, q, cost, pnl)
  <2>1. {[event |-> id, lot |-> l, qty |-> n(l), cost |-> of(l), pnl |-> 0] : l \in H}
        = Rows(ls, id, e.asset, q, cost, pnl)
    BY DEF Rows
  <2> QED BY <2>1 DEF ConsumeLotsForAdjustment, ConsumeLots, Consumed, Used, Hit
<1>6. ConsumeLotsForAdjustment(b, id, e.asset, -e.qty, e.unitCost)
        = Consumed(b, id, e.asset, q, cost, pnl)
  <2> HIDE DEF q, cost, pnl
  <2> QED BY <1>1, <1>5
<1>7. \E x, y \in [H -> Int] :
        /\ ConsumeLotsForAdjustment(b, id, e.asset, -e.qty, e.unitCost)
             = Consumed(b, id, e.asset, q, x, y)
        /\ e.type # "adjustment" => \A l \in H : x[l] + y[l] = (e.cash * n(l)) \div q
        /\ AtCost(ls, e, x)
  <2>1. AtCost(ls, e, cost)
    BY DEF AtCost
  <2> HIDE DEF cost, pnl, H, n, q
  <2> QED BY <1>4, <1>6, <2>1
<1>8. Consumes(e)
  BY DEF Consumes
<1> QED BY <1>7, <1>8, Zenon DEF Sold

(* An insert is one, at the cost of the event.                              *)
LEMMA InsertIs ==
  ASSUME NEW b, NEW id, NEW e, Inserts(e), e.asset \in Asset, NEW cost, cost = OpeningCost(e)
  PROVE  Inserted(b, id, e, InsertLot(b, id, e, cost))
BY DEF Inserted

(* Applying an event moves shares in one of four ways, or not at all, and   *)
(* then perhaps changes adjusted costs.                                     *)
Moved(b, id, e, c) ==
  \/ c = b /\ Idles(e)
  \/ Inserted(b, id, e, c)
  \/ Sold(b, id, e, c)
  \/ Split(b, e, c)

(* However an event moves shares, the book stays one.                       *)
LEMMA MovedOK ==
  ASSUME NEW b, BookOK(b), NEW id \in Nat, NEW e \in Event, NEW c, Moved(b, id, e, c)
  PROVE  BookOK(c)
BY InsertedOK, SoldOK, SplitOK DEF Moved

(* Applying an event is such a move and a change of adjusted costs.         *)
LEMMA Applied ==
  ASSUME NEW b, BookOK(b), NEW id \in Nat, NEW e \in Event
  PROVE  \E c : Moved(b, id, e, c) /\ Recosted(c, ApplyEventToLots(b, id, e))
<1> DEFINE d == ApplyEventToLots(b, id, e)
<1> SUFFICES \E c : Moved(b, id, e, c) /\ (Recosted(c, d) \/ d = c)
  BY MovedOK, NothingRecosted
<1>1. CASE e.asset = NoAsset
  <2>1. d = b
    BY <1>1 DEF ApplyEventToLots
  <2>2. Moved(b, id, e, b)
    BY <1>1 DEF Moved, Idles
  <2> HIDE DEF d
  <2> QED BY <2>1, <2>2
<1>2. CASE e.asset # NoAsset
  <2>1. e.asset \in Asset /\ e.type \in EventTypes /\ e.cash \in Int /\ e.qty \in Int /\ e.costDelta \in Int
        /\ e.unitCost \in Int
    BY <1>2, EventFields
  <2>2. CASE e.type = "buy"
    <3> DEFINE paid == -e.cash
    <3>1. d = InsertLot(b, id, e, paid) /\ paid = OpeningCost(e)
      BY <1>2, <2>1, <2>2 DEF ApplyEventToLots, OpeningCost
    <3> HIDE DEF d, paid
    <3>2. Inserts(e)
      BY <2>2 DEF Inserts
    <3>3. Inserted(b, id, e, d)
      BY <2>1, <3>1, <3>2, InsertIs
    <3> QED BY <3>3 DEF Moved
  <2>3. CASE e.type = "stock_dividend"
    <3> DEFINE paid == 0
    <3>1. d = InsertLot(b, id, e, paid) /\ paid = OpeningCost(e)
      BY <1>2, <2>1, <2>3 DEF ApplyEventToLots, OpeningCost
    <3> HIDE DEF d, paid
    <3>2. Inserts(e)
      BY <2>3 DEF Inserts
    <3>3. Inserted(b, id, e, d)
      BY <2>1, <3>1, <3>2, InsertIs
    <3> QED BY <3>3 DEF Moved
  <2>4. CASE e.type = "sell"
    <3>1. d = ConsumeLotsFIFO(b, id, e.asset, Abs(e.qty), e.cash)
      BY <1>2, <2>4 DEF ApplyEventToLots
    <3> HIDE DEF d
    <3>2. Sold(b, id, e, d)
      BY <2>1, <2>4, <3>1, FifoIsSold
    <3> QED BY <3>2 DEF Moved
  <2>5. CASE e.type = "capital_reduction"
    <3> DEFINE c == IF e.qty = 0 THEN b ELSE ConsumeLotsFIFO(b, id, e.asset, Abs(e.qty), e.cash)
    <3>1. d = IF e.cash > 0 THEN DeductAdjustedCostProRata(c, e.asset, e.cash) ELSE c
      BY <1>2, <2>5 DEF ApplyEventToLots
    <3>2. Moved(b, id, e, c)
      <4>1. CASE e.qty = 0
        BY <2>5, <4>1 DEF Moved, Idles
      <4>2. CASE e.qty # 0
        <5>1. Sold(b, id, e, ConsumeLotsFIFO(b, id, e.asset, Abs(e.qty), e.cash))
          BY <2>1, <2>5, FifoIsSold
        <5> QED BY <4>2, <5>1 DEF Moved
      <4> QED BY <4>1, <4>2
    <3> HIDE DEF c, d
    <3> QED BY <2>1, <3>1, <3>2, MovedOK, DeductRecosts
  <2>6. CASE e.type = "cash_dividend"
    <3>1. d = IF e.cash > 0 THEN DeductAdjustedCostProRata(b, e.asset, e.cash) ELSE b
      BY <1>2, <2>6 DEF ApplyEventToLots
    <3>2. Moved(b, id, e, b)
      BY <2>6 DEF Moved, Idles
    <3> HIDE DEF d
    <3> QED BY <2>1, <3>1, <3>2, DeductRecosts
  <2>7. CASE e.type = "split"
    <3>1. d = ApplySplitToLots(b, e.asset, e.ratio)
      BY <1>2, <2>7 DEF ApplyEventToLots
    <3>2. Split(b, e, d)
      BY <2>1, <2>7, <3>1 DEF Split
    <3> QED BY <3>2 DEF Moved
  <2>8. CASE e.type = "adjustment"
    <3> DEFINE c == CASE e.qty < 0 -> ConsumeLotsForAdjustment(b, id, e.asset, -e.qty, e.unitCost)
                      [] e.qty > 0 -> InsertLot(b, id, e, IF e.unitCost = Absent THEN 0
                                                          ELSE e.unitCost * e.qty)
                      [] OTHER -> b
    <3>1. d = IF e.costDelta = 0 THEN c ELSE DeductAdjustedCostProRata(c, e.asset, -e.costDelta)
      BY <1>2, <2>8 DEF ApplyEventToLots, ApplyAdjustmentToLots
    <3>2. Moved(b, id, e, c)
      <4>1. CASE e.qty < 0
        <5>1. c = ConsumeLotsForAdjustment(b, id, e.asset, -e.qty, e.unitCost)
          BY <2>1, <4>1
        <5>2. Sold(b, id, e, c)
          <6> HIDE DEF c
          <6> QED BY <2>1, <2>8, <4>1, <5>1, AdjustmentIsSold
        <5> HIDE DEF c
        <5> QED BY <5>2 DEF Moved
      <4>2. CASE e.qty > 0
        <5> DEFINE paid == IF e.unitCost = Absent THEN 0 ELSE e.unitCost * e.qty
        <5>1. c = InsertLot(b, id, e, paid) /\ paid = OpeningCost(e)
          BY <2>1, <2>8, <4>2 DEF OpeningCost
        <5> HIDE DEF c, paid
        <5>2. Inserts(e)
          BY <2>8, <4>2 DEF Inserts
        <5>3. Inserted(b, id, e, c)
          BY <2>1, <5>1, <5>2, InsertIs
        <5> QED BY <5>3 DEF Moved
      <4>3. CASE e.qty = 0
        <5>1. c = b
          BY <4>3
        <5>2. Moved(b, id, e, b)
          BY <2>8, <4>3 DEF Moved, Idles
        <5> HIDE DEF c
        <5> QED BY <5>1, <5>2
      <4> HIDE DEF c
      <4> QED BY <2>1, <4>1, <4>2, <4>3
    <3> HIDE DEF c, d
    <3>3. -e.costDelta \in Int
      BY <2>1
    <3> QED BY <3>1, <3>2, <3>3, MovedOK, DeductRecosts
  <2>9. CASE e.type = "cash"
    <3>1. d = b
      BY <1>2, <2>9 DEF ApplyEventToLots
    <3>2. Moved(b, id, e, b)
      BY <2>9 DEF Moved, Idles
    <3> HIDE DEF d
    <3> QED BY <3>1, <3>2
  <2> HIDE DEF d
  <2> QED BY <2>1, <2>2, <2>3, <2>4, <2>5, <2>6, <2>7, <2>8, <2>9 DEF EventTypes
<1> QED BY <1>1, <1>2

(* Lots that hold the same shares of an asset.                              *)
LEMMA SharesSame ==
  ASSUME NEW ls, LotsOK(ls), NEW ms, LotsOK(ms), NEW s,
         LotsOf(ms, s) = LotsOf(ls, s),
         \A l \in LotsOf(ls, s) : ms[l].remaining = ls[l].remaining
  PROVE  OpenShares(ms, s) = OpenShares(ls, s)
<1> DEFINE L == LotsOf(ls, s)
<1>1. IsFiniteSet(L)
  BY OpenFacts
<1>2. \A l \in L : Rem(ls)[l] = Rem(ms)[l]
  BY OpenFacts
<1>3. OpenShares(ls, s) = SumFunctionOnSet(Rem(ls), L)
  BY OpenSharesOfAll
<1>4. OpenShares(ms, s) = SumFunctionOnSet(Rem(ms), L)
  <2>1. OpenShares(ms, s) = SumFunctionOnSet(Rem(ms), LotsOf(ms, s))
    BY OpenSharesOfAll
  <2> QED BY <2>1
<1> HIDE DEF L
<1>5. SumFunctionOnSet(Rem(ls), L) = SumFunctionOnSet(Rem(ms), L)
  BY <1>1, <1>2, SumSame
<1> QED BY <1>3, <1>4, <1>5

(* A new lot adds its shares to those of its asset.                         *)
LEMMA InsertedShares ==
  ASSUME NEW b, BookOK(b), NEW id \in Nat, id \notin DOMAIN b.lots, NEW e \in Event,
         NEW c, Inserted(b, id, e, c), NEW s
  PROVE  /\ e.asset = s => OpenShares(c.lots, s) = OpenShares(b.lots, s) + Abs(e.qty)
         /\ e.asset # s => OpenShares(c.lots, s) = OpenShares(b.lots, s)
<1> DEFINE ls == b.lots
           ms == c.lots
           L == LotsOf(ls, s)
<1>1. LotsOK(ls) /\ LotsOK(ms)
  BY InsertedOK DEF BookOK
<1>2. /\ DOMAIN ms = DOMAIN ls \union {id} /\ \A l \in DOMAIN ls : ms[l] = ls[l]
      /\ ms[id].asset = e.asset /\ ms[id].remaining = Abs(e.qty)
  BY InsertedOK
<1> HIDE DEF ls, ms
<1>3. CASE e.asset # s
  <2>1. LotsOf(ms, s) = L /\ \A l \in L : ms[l].remaining = ls[l].remaining
    BY <1>2, <1>3 DEF LotsOf
  <2>2. OpenShares(ms, s) = OpenShares(ls, s)
    BY <1>1, <2>1, SharesSame
  <2> QED BY <1>1, <1>3, <2>2, OpenSharesOfAll DEF ls, ms
<1>4. CASE e.asset = s
  <2>1. LotsOf(ms, s) = L \union {id} /\ id \notin L
    BY <1>2, <1>4 DEF LotsOf, ls
  <2>2. IsFiniteSet(L) /\ \A l \in L : Rem(ls)[l] = Rem(ms)[l] /\ Rem(ls)[l] \in Nat
    BY <1>1, <1>2, <2>1, OpenFacts DEF Rem, LotsOf
  <2>3. Rem(ms)[id] = Abs(e.qty) /\ Abs(e.qty) \in Nat
    BY <1>2, EventFields DEF Rem
  <2> HIDE DEF L
  <2>4. \A l \in L \union {id} : Rem(ms)[l] \in Int
    BY <2>2, <2>3
  <2>5. SumFunctionOnSet(Rem(ms), L \union {id}) = SumFunctionOnSet(Rem(ms), L) + Rem(ms)[id]
    BY <2>1, <2>2, <2>4, SumAdd
  <2>6. SumFunctionOnSet(Rem(ls), L) = SumFunctionOnSet(Rem(ms), L)
    BY <2>2, SumSame
  <2>7. OpenShares(ls, s) = SumFunctionOnSet(Rem(ls), L)
    BY <1>1, OpenSharesOfAll DEF L
  <2>8. OpenShares(ms, s) = SumFunctionOnSet(Rem(ms), L \union {id})
    <3>1. OpenShares(ms, s) = SumFunctionOnSet(Rem(ms), LotsOf(ms, s))
      BY <1>1, OpenSharesOfAll
    <3> QED BY <2>1, <3>1
  <2> QED BY <1>4, <2>3, <2>5, <2>6, <2>7, <2>8 DEF ls, ms
<1> QED BY <1>3, <1>4

(* A consumption takes what it was asked for out of the lots of its asset.  *)
LEMMA UsedShares ==
  ASSUME NEW ls, LotsOK(ls), NEW a, NEW q \in Nat, ~(OpenShares(ls, a) < q), NEW s
  PROVE  OpenShares(Used(ls, a, q), s) = OpenShares(ls, s) - IF a = s THEN q ELSE 0
<1> DEFINE ms == Used(ls, a, q)
           L == LotsOf(ls, s)
<1>1. LotsOK(ms) /\ DOMAIN ms = DOMAIN ls /\ LotsOf(ms, s) = L
  BY UsedOK DEF LotsOf
<1>2. CASE a # s
  <2>1. ASSUME NEW l \in L PROVE ms[l].remaining = ls[l].remaining
    <3>1. l \notin Hit(ls, a, q) /\ l \in DOMAIN ls
      BY <1>2 DEF LotsOf, Hit, OpenLots
    <3> QED BY <3>1 DEF Used
  <2>2. OpenShares(ms, s) = OpenShares(ls, s)
    <3> HIDE DEF ms
    <3> QED BY <1>1, <2>1, SharesSame
  <2> QED BY <1>2, <2>2, OpenSharesOfAll
<1>3. CASE a = s
  <2> DEFINE O == OpenLots(ls, a)
             t == [l \in L |-> IF l \in Hit(ls, a, q) THEN Taken(ls, a, q, l) ELSE 0]
  <2>1. IsFiniteSet(L) /\ O \in SUBSET L /\ L \subseteq DOMAIN ls
    <3>1. O \in SUBSET L /\ L \subseteq DOMAIN ls
      BY <1>3 DEF LotsOf, OpenLots
    <3> QED BY <3>1, OpenFacts
  <2>2. ASSUME NEW l \in L
        PROVE  Rem(ms)[l] \in Int /\ t[l] \in Int /\ Rem(ls)[l] = Rem(ms)[l] + t[l]
    <3>1. Rem(ls)[l] = ls[l].remaining /\ ls[l].remaining \in Nat
      BY <2>2, OpenFacts
    <3>2. Rem(ms)[l] = ls[l].remaining - t[l]
      BY <2>1, <2>2, UsedOK DEF Rem
    <3>3. t[l] \in Int
      BY <2>2, HitOK
    <3> HIDE DEF t, ms
    <3> QED BY <3>1, <3>2, <3>3
  <2>3. \A l \in O : t[l] = Taken(ls, a, q, l)
    <3>1. ASSUME NEW l \in O, l \notin Hit(ls, a, q) PROVE Taken(ls, a, q, l) = 0
      <4>1. ~(Taken(ls, a, q, l) > 0)
        BY <3>1 DEF Hit
      <4>2. Taken(ls, a, q, l) \in 0..ls[l].remaining /\ ls[l].remaining \in Nat
        BY TakenIs, OpenFacts
      <4> QED BY <4>1, <4>2
    <3> QED BY <2>1, <3>1
  <2>4. \A l \in L \ O : t[l] = 0
    BY DEF Hit
  <2> HIDE DEF t, L, O, ms
  <2>5. SumFunctionOnSet(Rem(ls), L) = SumFunctionOnSet(Rem(ms), L) + SumFunctionOnSet(t, L)
    BY <2>1, <2>2, SumPlus
  <2>6. SumFunctionOnSet(t, L) = SumFunctionOnSet(t, O)
    BY <2>1, <2>2, <2>4, SumWithin
  <2>7. SumFunctionOnSet(t, O) = q
    <3>1. SumFunctionOnSet(t, O) = IF OpenShares(ls, a) < q THEN OpenShares(ls, a) ELSE q
      BY <2>3, TakenAddsUp DEF O
    <3> QED BY <3>1
  <2>8. OpenShares(ls, s) = SumFunctionOnSet(Rem(ls), L)
    BY OpenSharesOfAll DEF L
  <2>9. OpenShares(ms, s) = SumFunctionOnSet(Rem(ms), L)
    <3>1. OpenShares(ms, s) = SumFunctionOnSet(Rem(ms), LotsOf(ms, s))
      BY <1>1, OpenSharesOfAll
    <3> QED BY <1>1, <3>1
  <2>10. OpenShares(ms, s) \in Int
    BY <1>1, OpenSharesOfAll
  <2> QED BY <1>3, <2>5, <2>6, <2>7, <2>8, <2>9, <2>10 DEF ms
<1> QED BY <1>2, <1>3

(* A quotient without remainder.                                            *)
LEMMA WholeQuotient ==
  ASSUME NEW x \in Nat, NEW y \in Nat, NEW d \in Nat \ {0}, d * x = y
  PROVE  x = y \div d
<1> DEFINE m == y \div d
<1>1. m \in Nat /\ m * d <= y /\ y < (m + 1) * d
  OBVIOUS
<1> HIDE DEF m
<1>2. ASSUME NEW i \in Nat, NEW j \in Nat, i < j PROVE (i + 1) * d <= j * d
  <2>1. i + 1 <= j
    BY <1>2
  <2> QED BY <2>1
<1>3. d * x = x * d
  OBVIOUS
<1>4. ~(x < m)
  <2>1. ASSUME x < m PROVE FALSE
    <3>1. (x + 1) * d <= m * d
      BY <1>1, <1>2, <2>1
    <3>2. (x + 1) * d = x * d + d
      OBVIOUS
    <3> DEFINE u == x * d
               v == m * d
               w == (x + 1) * d
    <3>3. u = y /\ v <= y /\ w = u + d /\ w <= v /\ u \in Int /\ v \in Int
      BY <1>1, <1>3, <3>1, <3>2
    <3> HIDE DEF u, v, w
    <3> QED BY <3>3
  <2> QED BY <2>1
<1>5. ~(m < x)
  BY <1>1, <1>2, <1>3
<1> QED BY <1>1, <1>4, <1>5 DEF m

(* A product taken back.                                                    *)
LEMMA WholeProduct ==
  ASSUME NEW y \in Nat, NEW d \in Nat \ {0}, y % d = 0
  PROVE  d * (y \div d) = y
OBVIOUS

(* A split that leaves whole shares in every lot scales the total.          *)
LEMMA SplitShares ==
  ASSUME NEW b, BookOK(b), NEW e \in Event, NEW c, Split(b, e, c), NEW s
  PROVE  /\ e.asset # s => OpenShares(c.lots, s) = OpenShares(b.lots, s)
         /\ /\ e.asset = s
            /\ \A l \in OpenLots(b.lots, s) : (b.lots[l].remaining * e.ratio[1]) % e.ratio[2] = 0
            => OpenShares(c.lots, s) = (OpenShares(b.lots, s) * e.ratio[1]) \div e.ratio[2]
<1> DEFINE ls == b.lots
           ms == c.lots
           L == LotsOf(ls, s)
           r == e.ratio[1]
           d == e.ratio[2]
<1>1. LotsOK(ls) /\ LotsOK(ms) /\ r \in Nat /\ d \in Nat \ {0}
  BY SplitOK, EventFields DEF BookOK
<1>2. /\ DOMAIN ms = DOMAIN ls
      /\ \A l \in DOMAIN ls :
           /\ ms[l].asset = ls[l].asset
           /\ ms[l].remaining = IF l \in OpenLots(ls, e.asset) THEN (ls[l].remaining * r) \div d
                                ELSE ls[l].remaining
  BY SplitOK
<1> HIDE DEF ls, ms, r, d
<1>3. LotsOf(ms, s) = L /\ IsFiniteSet(L) /\ L \subseteq DOMAIN ls
  BY <1>1, <1>2, OpenFacts DEF LotsOf
<1>4. ASSUME e.asset # s PROVE OpenShares(ms, s) = OpenShares(ls, s)
  <2>1. \A l \in L : ms[l].remaining = ls[l].remaining
    BY <1>2, <1>3, <1>4 DEF LotsOf, OpenLots
  <2> QED BY <1>1, <1>3, <2>1, SharesSame
<1>5. ASSUME e.asset = s, \A l \in OpenLots(ls, s) : (ls[l].remaining * r) % d = 0
      PROVE  OpenShares(ms, s) = (OpenShares(ls, s) * r) \div d
  <2> DEFINE h == [l \in L |-> r * Rem(ls)[l]]
  <2>1. ASSUME NEW l \in L
        PROVE  /\ Rem(ls)[l] \in Nat /\ Rem(ms)[l] \in Nat
               /\ h[l] = r * Rem(ls)[l] /\ h[l] = d * Rem(ms)[l]
    <3> DEFINE n == ls[l].remaining
               m == ms[l].remaining
    <3>1. Rem(ls)[l] = n /\ n \in Nat /\ Rem(ms)[l] = m /\ m \in Nat
      BY <1>1, <1>3, <2>1, OpenFacts
    <3>2. d * m = r * n
      <4>1. CASE l \in OpenLots(ls, s)
        <5>1. m = (n * r) \div d /\ (n * r) % d = 0
          BY <1>2, <1>3, <1>5, <2>1, <4>1
        <5> HIDE DEF n, m
        <5> DEFINE y == n * r
        <5>2. y \in Nat /\ y = r * n
          BY <1>1, <3>1
        <5> HIDE DEF y
        <5>3. d * (y \div d) = y
          BY <1>1, <5>1, <5>2, WholeProduct DEF y
        <5> QED BY <5>1, <5>2, <5>3 DEF y
      <4>2. CASE l \notin OpenLots(ls, s)
        <5>1. m = n
          BY <1>2, <1>3, <1>5, <2>1, <4>2
        <5>2. n = 0
          <6>1. ~(n > 0)
            BY <1>3, <2>1, <4>2 DEF LotsOf, OpenLots
          <6> HIDE DEF n
          <6> QED BY <3>1, <6>1
        <5> HIDE DEF n, m
        <5> QED BY <1>1, <5>1, <5>2
      <4> QED BY <4>1, <4>2
    <3>3. h[l] = r * Rem(ls)[l]
      BY <2>1
    <3> HIDE DEF n, m, h
    <3> QED BY <3>1, <3>2, <3>3
  <2> HIDE DEF h, L
  <2>2. SumFunctionOnSet(h, L) = r * SumFunctionOnSet(Rem(ls), L)
    <3>1. \A l \in L : Rem(ls)[l] \in Int /\ h[l] = r * Rem(ls)[l]
      BY <2>1
    <3>2. r \in Int
      BY <1>1
    <3> QED BY <1>3, <3>1, <3>2, SumTimes
  <2>3. SumFunctionOnSet(h, L) = d * SumFunctionOnSet(Rem(ms), L)
    <3>1. \A l \in L : Rem(ms)[l] \in Int /\ h[l] = d * Rem(ms)[l]
      BY <2>1
    <3>2. d \in Int
      BY <1>1
    <3> QED BY <1>3, <3>1, <3>2, SumTimes
  <2>4. OpenShares(ls, s) = SumFunctionOnSet(Rem(ls), L) /\ OpenShares(ls, s) \in Nat
    BY <1>1, OpenSharesOfAll DEF L
  <2>5. OpenShares(ms, s) = SumFunctionOnSet(Rem(ms), L) /\ OpenShares(ms, s) \in Nat
    <3>1. OpenShares(ms, s) = SumFunctionOnSet(Rem(ms), LotsOf(ms, s)) /\ OpenShares(ms, s) \in Nat
      BY <1>1, OpenSharesOfAll
    <3> QED BY <1>3, <3>1
  <2> DEFINE x == OpenShares(ls, s)
             y == OpenShares(ms, s)
  <2>6. x \in Nat /\ y \in Nat /\ d * y = r * x
    BY <2>2, <2>3, <2>4, <2>5
  <2> HIDE DEF x, y
  <2> DEFINE z == x * r
  <2>7. z \in Nat /\ d * y = z
    BY <1>1, <2>6
  <2> HIDE DEF z
  <2>8. y = z \div d
    BY <1>1, <2>6, <2>7, WholeQuotient
  <2> QED BY <2>8 DEF x, y, z
<1> QED BY <1>4, <1>5 DEF ls, ms, r, d

-----------------------------------------------------------------------------
(* First in, first out: an event that took shares from a lot left nothing   *)
(* in the lots of the same asset that come before it and were there.        *)
InOrder(b) ==
  \A c \in b.cons, k \in DOMAIN b.lots :
    b.lots[k].asset = b.lots[c.lot].asset /\ Before(b.lots, k, c.lot) /\ k < c.event
      => b.lots[k].remaining = 0

(* A book that the events named by ids have built.                          *)
Sound(events, ids, b) ==
  /\ BookOK(b)
  /\ DOMAIN b.lots \subseteq ids
  /\ \A l \in DOMAIN b.lots : b.lots[l].date = events[l].date
  /\ \A c \in b.cons : c.event \in ids /\ c.lot \in DOMAIN b.lots
  /\ InOrder(b)

(* The events that come before i in the order of a replay or of creation.   *)
Precede(events, ids, i) ==
  \/ \A j \in ids : events[j].date \in Nat /\ Before(events, j, i)
  \/ \A j \in ids : j < i

(* A lot that is inserted comes after the lots that were consumed so far, or*)
(* its event is created after theirs.                                       *)
LEMMA InsertedSound ==
  ASSUME NEW events, NEW ids \in SUBSET Nat, NEW i \in Nat, i \notin ids, events[i] \in Event,
         NEW b, Sound(events, ids, b), Precede(events, ids, i),
         NEW c, Inserted(b, i, events[i], c)
  PROVE  Sound(events, ids \union {i}, c)
<1>1. BookOK(b) /\ DOMAIN b.lots \subseteq ids
  BY DEF Sound
<1>2. /\ BookOK(c) /\ c.cons = b.cons
      /\ DOMAIN c.lots = DOMAIN b.lots \union {i}
      /\ \A l \in DOMAIN b.lots \ {i} : c.lots[l] = b.lots[l]
      /\ c.lots[i].date = events[i].date
  BY <1>1, InsertedOK
<1>3. \A l \in DOMAIN b.lots : c.lots[l] = b.lots[l]
  BY <1>1, <1>2
<1>4. \A l \in DOMAIN c.lots : c.lots[l].date = events[l].date
  BY <1>2, <1>3 DEF Sound
<1>5. \A r \in c.cons : r.event \in ids /\ r.lot \in DOMAIN b.lots /\ r.lot \in ids
  BY <1>1, <1>2 DEF Sound
<1>6. ASSUME NEW r \in c.cons, NEW k \in DOMAIN c.lots,
             c.lots[k].asset = c.lots[r.lot].asset, Before(c.lots, k, r.lot), k < r.event
      PROVE  c.lots[k].remaining = 0
  <2>1. CASE k \in DOMAIN b.lots
    <3>1. c.lots[k] = b.lots[k] /\ c.lots[r.lot] = b.lots[r.lot]
      BY <1>3, <1>5, <2>1
    <3>2. Before(b.lots, k, r.lot)
      BY <1>6, <3>1 DEF Before
    <3> QED BY <1>2, <1>6, <2>1, <3>1, <3>2 DEF Sound, InOrder
  <2>2. CASE k = i
    <3>1. events[i].date \in Nat /\ r.event \in Nat /\ r.lot \in Nat
      BY <1>5, EventFields
    <3>2. Before(events, i, r.lot)
      BY <1>2, <1>4, <1>5, <1>6, <2>2 DEF Before
    <3>3. CASE \A j \in ids : events[j].date \in Nat /\ Before(events, j, i)
      <4>1. events[r.lot].date \in Nat /\ Before(events, r.lot, i)
        BY <1>5, <3>3
      <4> QED BY <3>1, <3>2, <4>1 DEF Before
    <3>4. CASE \A j \in ids : j < i
      <4>1. r.event < i
        BY <1>5, <3>4
      <4> QED BY <1>6, <2>2, <3>1, <4>1
    <3> QED BY <3>3, <3>4 DEF Precede
  <2> QED BY <1>2, <2>1, <2>2
<1>7. InOrder(c)
  BY <1>6 DEF InOrder
<1> QED BY <1>1, <1>2, <1>4, <1>5, <1>7 DEF Sound

(* A consumption empties the lots it takes from in their order.             *)
LEMMA SoldSound ==
  ASSUME NEW events, NEW ids \in SUBSET Nat, NEW i \in Nat, i \notin ids, events[i] \in Event,
         NEW b, Sound(events, ids, b), NEW c, Sold(b, i, events[i], c)
  PROVE  Sound(events, ids \union {i}, c)
<1> DEFINE a == events[i].asset
           q == Abs(events[i].qty)
           ls == b.lots
<1>1. BookOK(b) /\ LotsOK(ls) /\ DOMAIN ls \subseteq ids /\ q \in Nat
  BY EventFields DEF Sound, BookOK
<1>2. BookOK(c)
  BY <1>1, SoldOK
<1>3. CASE OpenShares(ls, a) < q
  <2>1. c.lots = b.lots /\ c.cons = b.cons
    BY <1>1, <1>3, SoldOK
  <2> QED BY <1>2, <2>1 DEF Sound, InOrder
<1>4. CASE ~(OpenShares(ls, a) < q)
  <2>1. PICK cost, pnl \in [Hit(ls, a, q) -> Int] :
          c.lots = Used(ls, a, q) /\ c.cons = b.cons \union Rows(ls, i, a, q, cost, pnl)
    <3>1. c.lots = Used(ls, a, q)
      BY <1>1, <1>4, SoldOK
    <3>2. Booked(b, i, events[i], c.cons)
      BY <1>1, <1>4, SoldOK
    <3> QED BY <3>1, <3>2 DEF Booked
  <2>2. DOMAIN c.lots = DOMAIN ls
    BY <2>1 DEF Used
  <2>3. \A l \in DOMAIN ls :
          /\ c.lots[l].asset = ls[l].asset /\ c.lots[l].date = ls[l].date
          /\ c.lots[l].remaining = ls[l].remaining - (IF l \in Hit(ls, a, q) THEN Taken(ls, a, q, l) ELSE 0)
    <3> HIDE DEF ls, a, q
    <3> QED BY <1>1, <2>1, UsedOK
  <2>4. ASSUME NEW r \in Rows(ls, i, a, q, cost, pnl)
        PROVE  r.event = i /\ r.lot \in Hit(ls, a, q) /\ r.lot \in DOMAIN ls /\ r.lot \in OpenLots(ls, a)
               /\ Taken(ls, a, q, r.lot) > 0
    BY DEF Rows, Hit, OpenLots
  <2>5. ASSUME NEW k \in DOMAIN ls, ls[k].remaining = 0 PROVE c.lots[k].remaining = 0
    <3>1. k \notin Hit(ls, a, q)
      BY <2>5 DEF Hit, OpenLots
    <3> QED BY <2>3, <2>5, <3>1
  <2>6. ASSUME NEW r \in c.cons, NEW k \in DOMAIN ls,
               c.lots[k].asset = c.lots[r.lot].asset, Before(c.lots, k, r.lot), k < r.event
        PROVE  c.lots[k].remaining = 0
    <3>1. CASE r \in b.cons
      <4>1. r.lot \in DOMAIN ls
        BY <3>1 DEF Sound
      <4>2. ls[k].asset = ls[r.lot].asset /\ Before(ls, k, r.lot)
        BY <2>3, <2>6, <4>1 DEF Before
      <4>3. ls[k].remaining = 0
        BY <2>6, <3>1, <4>2 DEF Sound, InOrder
      <4> QED BY <2>5, <4>3
    <3>2. CASE r \in Rows(ls, i, a, q, cost, pnl)
      <4>1. r.lot \in OpenLots(ls, a) /\ r.lot \in DOMAIN ls /\ Taken(ls, a, q, r.lot) > 0
        BY <2>4, <3>2
      <4>2. ls[k].asset = a /\ Before(ls, k, r.lot)
        BY <2>3, <2>6, <4>1 DEF Before, OpenLots
      <4>3. CASE k \in OpenLots(ls, a)
        <5> HIDE DEF ls, a, q
        <5>1. Taken(ls, a, q, k) = ls[k].remaining
          BY <1>1, <4>1, <4>2, <4>3, TakenInOrder
        <5>2. ls[k].remaining \in Nat /\ ls[k].remaining > 0
          BY <1>1, <4>3, OpenFacts DEF OpenLots
        <5>3. k \in Hit(ls, a, q)
          BY <4>3, <5>1, <5>2 DEF Hit
        <5> QED BY <2>3, <5>1, <5>2, <5>3
      <4>4. CASE k \notin OpenLots(ls, a)
        <5>1. ls[k] \in Lot
          BY <1>1 DEF LotsOK
        <5>2. ls[k].remaining = 0
          BY <4>2, <4>4, <5>1 DEF OpenLots, Lot
        <5> QED BY <2>5, <5>2
      <4> QED BY <4>3, <4>4
    <3> QED BY <2>1, <2>6, <3>1, <3>2
  <2>7. InOrder(c)
    BY <2>2, <2>6 DEF InOrder
  <2>8. \A r \in c.cons : r.event \in ids \union {i} /\ r.lot \in DOMAIN c.lots
    BY <2>1, <2>2, <2>4 DEF Sound
  <2>9. \A l \in DOMAIN c.lots : c.lots[l].date = events[l].date
    BY <2>2, <2>3 DEF Sound
  <2> QED BY <1>1, <1>2, <2>2, <2>7, <2>8, <2>9 DEF Sound
<1> QED BY <1>3, <1>4

(* Lots with the assets and dates they had, and nothing in those that were  *)
(* empty.                                                                   *)
LEMMA KeptSound ==
  ASSUME NEW events, NEW ids, NEW more, ids \subseteq more, NEW b, Sound(events, ids, b), NEW c, BookOK(c),
         c.cons = b.cons, DOMAIN c.lots = DOMAIN b.lots,
         \A l \in DOMAIN b.lots :
           /\ c.lots[l].asset = b.lots[l].asset /\ c.lots[l].date = b.lots[l].date
           /\ b.lots[l].remaining = 0 => c.lots[l].remaining = 0
  PROVE  Sound(events, more, c)
<1>1. ASSUME NEW r \in c.cons, NEW k \in DOMAIN c.lots,
             c.lots[k].asset = c.lots[r.lot].asset, Before(c.lots, k, r.lot), k < r.event
      PROVE  c.lots[k].remaining = 0
  <2>1. r.lot \in DOMAIN b.lots
    BY DEF Sound
  <2>2. b.lots[k].asset = b.lots[r.lot].asset /\ Before(b.lots, k, r.lot)
    BY <1>1, <2>1 DEF Before
  <2>3. b.lots[k].remaining = 0
    BY <1>1, <2>2 DEF Sound, InOrder
  <2> QED BY <2>3
<1>2. InOrder(c)
  BY <1>1 DEF InOrder
<1> QED BY <1>2 DEF Sound

(* Applying one more event leaves a sound book.                             *)
LEMMA AppliedSound ==
  ASSUME NEW events, NEW ids \in SUBSET Nat, NEW i \in Nat, i \notin ids, events[i] \in Event,
         NEW b, Sound(events, ids, b), Precede(events, ids, i)
  PROVE  Sound(events, ids \union {i}, ApplyEventToLots(b, i, events[i]))
<1> DEFINE e == events[i]
           d == ApplyEventToLots(b, i, e)
<1>1. BookOK(b)
  BY DEF Sound
<1>2. PICK c : Moved(b, i, e, c) /\ Recosted(c, d)
  BY <1>1, Applied
<1> HIDE DEF d
<1>3. Sound(events, ids \union {i}, c)
  <2>1. CASE c = b
    BY <1>1, <2>1, KeptSound
  <2>2. CASE Inserted(b, i, e, c)
    BY <2>2, InsertedSound
  <2>3. CASE Sold(b, i, e, c)
    BY <2>3, SoldSound
  <2>4. CASE Split(b, e, c)
    <3>1. /\ BookOK(c) /\ c.cons = b.cons /\ DOMAIN c.lots = DOMAIN b.lots
          /\ \A l \in DOMAIN b.lots :
              /\ c.lots[l].asset = b.lots[l].asset /\ c.lots[l].date = b.lots[l].date
              /\ c.lots[l].remaining = IF l \in OpenLots(b.lots, e.asset)
                                       THEN (b.lots[l].remaining * e.ratio[1]) \div e.ratio[2]
                                       ELSE b.lots[l].remaining
      BY <1>1, <2>4, SplitOK
    <3>2. \A l \in DOMAIN b.lots : b.lots[l].remaining = 0 => c.lots[l].remaining = 0
      <4>1. \A l \in DOMAIN b.lots : b.lots[l].remaining = 0 => l \notin OpenLots(b.lots, e.asset)
        BY DEF OpenLots
      <4> QED BY <3>1, <4>1
    <3> QED BY <3>1, <3>2, KeptSound
  <2> QED BY <1>2, <2>1, <2>2, <2>3, <2>4 DEF Moved
<1>4. BookOK(c)
  BY <1>3 DEF Sound
<1>5. /\ BookOK(d) /\ d.cons = c.cons /\ DOMAIN d.lots = DOMAIN c.lots
      /\ \A l \in DOMAIN c.lots :
           /\ d.lots[l].asset = c.lots[l].asset /\ d.lots[l].date = c.lots[l].date
           /\ d.lots[l].remaining = c.lots[l].remaining
  BY <1>2, <1>4, RecostedOK
<1>6. Sound(events, ids \union {i}, d)
  BY <1>3, <1>5, KeptSound
<1> QED BY <1>6 DEF d

(* The empty book is sound.                                                 *)
LEMMA EmptySound == ASSUME NEW events PROVE Sound(events, {}, EmptyBook)
<1>1. DOMAIN EmptyBook.lots = {} /\ EmptyBook.cons = {} /\ EmptyBook.err = "ok"
  BY DEF EmptyBook
<1>2. LotsOK(EmptyBook.lots)
  BY <1>1, FS_EmptySet DEF LotsOK
<1>3. EmptyBook = [lots |-> EmptyBook.lots, cons |-> EmptyBook.cons, err |-> EmptyBook.err]
  BY DEF EmptyBook
<1> QED BY <1>1, <1>2, <1>3 DEF Sound, BookOK, InOrder

(* A replay builds a sound book.                                            *)
LEMMA ReplaySound ==
  ASSUME NEW events, NEW S, IsFiniteSet(S), S \subseteq Nat, \A i \in S : events[i] \in Event
  PROVE  Sound(events, S, Replay(events, S))
<1> DEFINE Bad == {t \in SUBSET S : ~Sound(events, t, Replay(events, t))}
<1> SUFFICES ASSUME Bad # {} PROVE FALSE
  OBVIOUS
<1>1. PICK t \in Bad : \A x \in t : t \ {x} \notin Bad
  <2>1. Bad \in SUBSET SUBSET S
    OBVIOUS
  <2> HIDE DEF Bad
  <2> QED BY <2>1, Smallest
<1>2. t \in SUBSET S /\ ~Sound(events, t, Replay(events, t)) /\ IsFiniteSet(t)
  BY <1>1, FS_Subset
<1>3. Dated(events, t)
  BY <1>2, EventFields DEF Dated
<1> DEFINE l == LastOf(events, t)
           r == t \ {l}
           b == Replay(events, r)
<1>4. Replay(events, t) = IF t = {} THEN EmptyBook ELSE ReplayStep(events, t, b)
  BY <1>3, ReplayLast
<1>5. t # {}
  <2> SUFFICES ASSUME t = {} PROVE FALSE
    OBVIOUS
  <2> QED BY <1>2, <1>4, EmptySound
<1>6. l \in t /\ \A j \in r : Before(events, j, l)
  BY <1>3, <1>5, LastExists
<1>7. Sound(events, r, b)
  BY <1>1, <1>6
<1>8. Precede(events, r, l)
  BY <1>3, <1>6 DEF Precede, Dated
<1>9. l \in Nat /\ events[l] \in Event /\ r \in SUBSET Nat /\ l \notin r /\ r \union {l} = t
  BY <1>2, <1>6
<1>10. Replay(events, t) = IF b.err # "ok" THEN b ELSE ApplyEventToLots(b, l, events[l])
  BY <1>4, <1>5 DEF ReplayStep
<1> HIDE DEF l, r, b
<1>11. Sound(events, t, b)
  <2>1. BookOK(b) /\ r \subseteq t
    BY <1>7, <1>9 DEF Sound
  <2> QED BY <1>7, <2>1, KeptSound
<1>12. Sound(events, t, ApplyEventToLots(b, l, events[l]))
  <2>1. Sound(events, r \union {l}, ApplyEventToLots(b, l, events[l]))
    BY <1>7, <1>8, <1>9, AppliedSound
  <2> QED BY <1>9, <2>1
<1> QED BY <1>2, <1>10, <1>11, <1>12

-----------------------------------------------------------------------------
(* The shares events record for an asset.                                   *)
Recorded(events, ids, s) ==
  SumFunction([i \in {i \in ids : events[i].asset = s} |-> events[i].qty])

(* Quantities as events are stored: signed by what they do to the shares.   *)
Signed(e) ==
  /\ e.type \in {"buy", "stock_dividend"} => e.qty >= 0
  /\ e.type \in {"sell", "capital_reduction"} => e.qty <= 0
  /\ e.type \in {"cash", "cash_dividend"} /\ e.asset # NoAsset => e.qty = 0

(* One event more records its quantity.                                     *)
LEMMA RecordedAdd ==
  ASSUME NEW events, NEW ids, IsFiniteSet(ids), \A j \in ids : events[j].qty \in Int,
         NEW i \in ids, NEW s
  PROVE  /\ events[i].asset = s =>
              Recorded(events, ids, s) = Recorded(events, ids \ {i}, s) + events[i].qty
         /\ events[i].asset # s => Recorded(events, ids, s) = Recorded(events, ids \ {i}, s)
<1> DEFINE r == ids \ {i}
           S == {j \in r : events[j].asset = s}
           T == {j \in ids : events[j].asset = s}
           f == [j \in S |-> events[j].qty]
           g == [j \in T |-> events[j].qty]
<1>1. Recorded(events, r, s) = SumFunctionOnSet(f, S)
      /\ Recorded(events, ids, s) = SumFunctionOnSet(g, T)
  BY DEF Recorded, SumFunction
<1>2. IsFiniteSet(S) /\ S \subseteq r
  BY FS_Subset
<1>3. \A j \in S : f[j] = g[j] /\ g[j] \in Int
  OBVIOUS
<1>4. CASE events[i].asset = s
  <2>1. T = S \union {i} /\ i \notin S /\ g[i] = events[i].qty
    BY <1>4
  <2> HIDE DEF f, g, S, T, r
  <2>2. \A j \in S \union {i} : g[j] \in Int
    BY <1>3, <2>1
  <2>3. SumFunctionOnSet(g, S \union {i}) = SumFunctionOnSet(g, S) + g[i]
    BY <1>2, <2>1, <2>2, SumAdd
  <2>4. SumFunctionOnSet(f, S) = SumFunctionOnSet(g, S)
    BY <1>2, <1>3, SumSame
  <2> QED BY <1>1, <1>4, <2>1, <2>3, <2>4 DEF r
<1>5. CASE events[i].asset # s
  <2>1. T = S
    BY <1>5
  <2> HIDE DEF f, g, S, T, r
  <2>2. SumFunctionOnSet(f, S) = SumFunctionOnSet(g, S)
    BY <1>2, <1>3, SumSame
  <2> QED BY <1>1, <1>5, <2>1, <2>2 DEF r
<1> QED BY <1>4, <1>5

(* An event that is applied moves the open shares by what it records.       *)
LEMMA AppliedShares ==
  ASSUME NEW b, BookOK(b), NEW id \in Nat, id \notin DOMAIN b.lots, NEW e \in Event, Signed(e),
         NEW s \in Asset, e.type = "split" => e.asset # s,
         ApplyEventToLots(b, id, e).err = "ok"
  PROVE  OpenShares(ApplyEventToLots(b, id, e).lots, s)
           = OpenShares(b.lots, s) + IF e.asset = s THEN e.qty ELSE 0
<1> DEFINE d == ApplyEventToLots(b, id, e)
<1>1. PICK c : Moved(b, id, e, c) /\ Recosted(c, d)
  BY Applied
<1>2. d.err = "ok" /\ OpenShares(b.lots, s) \in Int /\ LotsOK(b.lots)
  BY OpenSharesOfAll DEF BookOK
<1> HIDE DEF d
<1>3. /\ BookOK(c) /\ BookOK(d) /\ LotsOK(c.lots) /\ LotsOK(d.lots) /\ c.err = "ok"
      /\ DOMAIN d.lots = DOMAIN c.lots
      /\ \A l \in DOMAIN c.lots : d.lots[l].asset = c.lots[l].asset
                                  /\ d.lots[l].remaining = c.lots[l].remaining
  <2>1. BookOK(c)
    BY <1>1, MovedOK
  <2> QED BY <1>1, <1>2, <2>1, RecostedOK DEF BookOK
<1>4. OpenShares(d.lots, s) = OpenShares(c.lots, s)
  <2>1. LotsOf(d.lots, s) = LotsOf(c.lots, s)
    BY <1>3 DEF LotsOf
  <2>2. \A l \in LotsOf(c.lots, s) : d.lots[l].remaining = c.lots[l].remaining
    BY <1>3 DEF LotsOf
  <2> QED BY <1>3, <2>1, <2>2, SharesSame
<1>5. OpenShares(c.lots, s) = OpenShares(b.lots, s) + IF e.asset = s THEN e.qty ELSE 0
  <2>1. e.qty \in Int /\ Abs(e.qty) \in Nat
    BY EventFields
  <2>2. CASE c = b /\ Idles(e)
    <3>1. e.asset = s => e.qty = 0
      BY <2>2, NoAssetAssumption DEF Idles, Signed
    <3> QED BY <1>2, <2>2, <3>1
  <2>3. CASE Inserted(b, id, e, c)
    <3>1. /\ e.asset = s => OpenShares(c.lots, s) = OpenShares(b.lots, s) + Abs(e.qty)
          /\ e.asset # s => OpenShares(c.lots, s) = OpenShares(b.lots, s)
      BY <2>3, InsertedShares
    <3>2. Abs(e.qty) = e.qty
      BY <2>1, <2>3 DEF Inserted, Inserts, Signed, Abs
    <3> QED BY <1>2, <3>1, <3>2
  <2>4. CASE Sold(b, id, e, c)
    <3>1. ~(OpenShares(b.lots, e.asset) < Abs(e.qty)) /\ c.lots = Used(b.lots, e.asset, Abs(e.qty))
      BY <1>3, <2>4, SoldOK
    <3>2. OpenShares(c.lots, s) = OpenShares(b.lots, s) - IF e.asset = s THEN Abs(e.qty) ELSE 0
      BY <1>2, <2>1, <3>1, UsedShares
    <3>3. Abs(e.qty) = -e.qty
      BY <2>1, <2>4 DEF Sold, Consumes, Signed, Abs
    <3> QED BY <1>2, <2>1, <3>2, <3>3
  <2>5. CASE Split(b, e, c)
    <3>1. e.asset # s
      BY <2>5 DEF Split
    <3>2. OpenShares(c.lots, s) = OpenShares(b.lots, s)
      BY <2>5, <3>1, SplitShares
    <3> QED BY <1>2, <3>1, <3>2
  <2> QED BY <1>1, <2>2, <2>3, <2>4, <2>5 DEF Moved
<1> QED BY <1>4, <1>5 DEF d

(* A recorded split whose shares are whole multiplies them.                 *)
LEMMA AppliedSplit ==
  ASSUME NEW b, BookOK(b), NEW id \in Nat, NEW e \in Event, e.type = "split", e.asset \in Asset,
         \A l \in OpenLots(b.lots, e.asset) : (b.lots[l].remaining * e.ratio[1]) % e.ratio[2] = 0
  PROVE  OpenShares(ApplyEventToLots(b, id, e).lots, e.asset)
           = (OpenShares(b.lots, e.asset) * e.ratio[1]) \div e.ratio[2]
<1>1. ApplyEventToLots(b, id, e) = ApplySplitToLots(b, e.asset, e.ratio)
  BY NoAssetAssumption DEF ApplyEventToLots
<1>2. Split(b, e, ApplyEventToLots(b, id, e))
  BY <1>1 DEF Split
<1> QED BY <1>2, SplitShares

(* The shares of every asset that was not split are those its events        *)
(* record.                                                                  *)
SharesMatch(events, ids, b) ==
  \A s \in Asset :
    (\A i \in ids : events[i].type = "split" => events[i].asset # s)
      => Recorded(events, ids, s) = OpenShares(b.lots, s)

(* No events, no shares.                                                    *)
LEMMA EmptyShares == ASSUME NEW events PROVE SharesMatch(events, {}, EmptyBook)
<1> SUFFICES ASSUME NEW s \in Asset
             PROVE  Recorded(events, {}, s) = OpenShares(EmptyBook.lots, s)
  BY DEF SharesMatch
<1>1. {i \in {} : events[i].asset = s} = {} /\ OpenLots(EmptyBook.lots, s) = {}
  BY DEF OpenLots, EmptyBook
<1>2. Recorded(events, {}, s) = 0
  BY <1>1, SumEmpty DEF Recorded, SumFunction
<1>3. OpenShares(EmptyBook.lots, s) = 0
  BY <1>1, SumEmpty DEF OpenShares, SumFunction
<1> QED BY <1>2, <1>3

(* A replay holds the shares its events record.                             *)
LEMMA ReplayShares ==
  ASSUME NEW events, NEW S, IsFiniteSet(S), S \subseteq Nat,
         \A i \in S : events[i] \in Event /\ Signed(events[i]),
         Replay(events, S).err = "ok"
  PROVE  SharesMatch(events, S, Replay(events, S))
<1> DEFINE OK(t) == Replay(events, t).err = "ok" => SharesMatch(events, t, Replay(events, t))
           Bad == {t \in SUBSET S : ~OK(t)}
<1> SUFFICES ASSUME Bad # {} PROVE FALSE
  OBVIOUS
<1>1. PICK t \in Bad : \A x \in t : t \ {x} \notin Bad
  <2>1. Bad \in SUBSET SUBSET S
    OBVIOUS
  <2> HIDE DEF Bad
  <2> QED BY <2>1, Smallest
<1>2. t \in SUBSET S /\ ~OK(t) /\ IsFiniteSet(t)
  BY <1>1, FS_Subset
<1>3. Dated(events, t)
  BY <1>2, EventFields DEF Dated
<1> DEFINE l == LastOf(events, t)
           r == t \ {l}
           b == Replay(events, r)
<1>4. Replay(events, t) = IF t = {} THEN EmptyBook ELSE ReplayStep(events, t, b)
  BY <1>3, ReplayLast
<1>5. t # {}
  <2> SUFFICES ASSUME t = {} PROVE FALSE
    OBVIOUS
  <2> QED BY <1>2, <1>4, EmptyShares
<1>6. l \in t
  BY <1>3, <1>5, LastExists
<1>7. OK(r)
  BY <1>1, <1>6
<1>8. l \in Nat /\ events[l] \in Event /\ Signed(events[l]) /\ l \notin r /\ r \union {l} = t
      /\ IsFiniteSet(r) /\ r \subseteq Nat /\ \A i \in r : events[i] \in Event /\ events[i].qty \in Int
  <2>1. l \in Nat /\ events[l] \in Event /\ Signed(events[l]) /\ l \notin r /\ r \union {l} = t
    BY <1>2, <1>6
  <2>2. IsFiniteSet(r) /\ r \subseteq S
    BY <1>2, FS_RemoveElement
  <2>3. \A i \in S : events[i] \in Event /\ events[i].qty \in Int
    BY EventFields
  <2> HIDE DEF r, l
  <2> QED BY <2>1, <2>2, <2>3
<1>9. Replay(events, t) = IF b.err # "ok" THEN b ELSE ApplyEventToLots(b, l, events[l])
  BY <1>4, <1>5 DEF ReplayStep
<1>10. Sound(events, r, b)
  BY <1>8, ReplaySound
<1>11. b.err = "ok" => SharesMatch(events, r, b)
  BY <1>7
<1> HIDE DEF l, r, b
<1>12. SUFFICES ASSUME Replay(events, t).err = "ok", NEW s \in Asset,
                       \A i \in t : events[i].type = "split" => events[i].asset # s
                PROVE  Recorded(events, t, s) = OpenShares(Replay(events, t).lots, s)
  BY <1>2 DEF SharesMatch
<1> HIDE DEF Bad, OK
<1>13. b.err = "ok" /\ Replay(events, t) = ApplyEventToLots(b, l, events[l])
  BY <1>9, <1>12
<1>14. Recorded(events, r, s) = OpenShares(b.lots, s)
  BY <1>8, <1>11, <1>12, <1>13 DEF SharesMatch
<1>15. /\ Recorded(events, t, s)
            = Recorded(events, r, s) + (IF events[l].asset = s THEN events[l].qty ELSE 0)
       /\ Recorded(events, r, s) \in Int
  <2>1. \A i \in t : events[i].qty \in Int
    BY <1>2, EventFields
  <2>2. Recorded(events, r, s) \in Int
    BY <1>10, <1>14, OpenSharesOfAll DEF Sound, BookOK
  <2>3. /\ events[l].asset = s => Recorded(events, t, s) = Recorded(events, t \ {l}, s) + events[l].qty
        /\ events[l].asset # s => Recorded(events, t, s) = Recorded(events, t \ {l}, s)
    <3>1. IsFiniteSet(t)
      BY <1>2
    <3> QED BY <3>1, <1>6, <2>1, RecordedAdd
  <2> QED BY <2>2, <2>3 DEF r
<1>16. OpenShares(ApplyEventToLots(b, l, events[l]).lots, s)
         = OpenShares(b.lots, s) + IF events[l].asset = s THEN events[l].qty ELSE 0
  <2>1. BookOK(b) /\ l \notin DOMAIN b.lots
    BY <1>8, <1>10 DEF Sound
  <2> QED BY <1>6, <1>8, <1>12, <1>13, <2>1, AppliedShares
<1> QED BY <1>13, <1>14, <1>15, <1>16

(* The rows event i has recorded add up to its cash and its shares.         *)
RowsOf(cons, i) == {c \in cons : c.event = i}

(* Every sale and reduction among ids has been allocated in full.           *)
Allocated(events, ids, b) ==
  \A i \in ids :
    events[i].type \in {"sell", "capital_reduction"} /\ events[i].qty # 0 =>
      /\ SumFunction([c \in RowsOf(b.cons, i) |-> c.cost + c.pnl]) = events[i].cash
      /\ SumFunction([c \in RowsOf(b.cons, i) |-> c.qty]) = Abs(events[i].qty)

(* Proceeds that are a whole amount per share: what they are divided into   *)
(* is not rounded.                                                          *)
Even(e) ==
  e.type \in {"sell", "capital_reduction"} /\ e.qty # 0 =>
    e.asset \in Asset /\ \E price \in Int : e.cash = price * Abs(e.qty)

(* The proceeds of n shares at a whole price.                               *)
LEMMA PriceTimesShares ==
  ASSUME NEW price \in Int, NEW n \in Int, NEW q \in Nat \ {0}
  PROVE  ((price * q) * n) \div q = price * n
<1> DEFINE z == price * n
<1>1. (price * q) * n = z * q /\ z \in Int
  OBVIOUS
<1> HIDE DEF z
<1>2. (z * q) \div q = z
  BY <1>1
<1> QED BY <1>1, <1>2 DEF z

(* The rows a consumption records add up.                                   *)
LEMMA RowsAddUp ==
  ASSUME NEW ls, LotsOK(ls), NEW id, NEW a, NEW q \in Nat, ~(OpenShares(ls, a) < q), q # 0,
         NEW cash, NEW price \in Int, cash = price * q,
         NEW cost \in [Hit(ls, a, q) -> Int], NEW pnl \in [Hit(ls, a, q) -> Int],
         \A l \in Hit(ls, a, q) : cost[l] + pnl[l] = (cash * Taken(ls, a, q, l)) \div q,
         NEW rows, rows = Rows(ls, id, a, q, cost, pnl)
  PROVE  /\ SumFunction([c \in rows |-> c.cost + c.pnl]) = cash
         /\ SumFunction([c \in rows |-> c.qty]) = q
<1> DEFINE H == Hit(ls, a, q)
           O == OpenLots(ls, a)
           m == [l \in H |-> [event |-> id, lot |-> l, qty |-> Taken(ls, a, q, l),
                              cost |-> cost[l], pnl |-> pnl[l]]]
           t == [l \in O |-> Taken(ls, a, q, l)]
           p == [l \in H |-> price * t[l]]
           n == [c \in rows |-> c.qty]
           w == [c \in rows |-> c.cost + c.pnl]
<1>1. IsFiniteSet(H) /\ H \in SUBSET O /\ IsFiniteSet(O)
  <2>1. H \in SUBSET O
    BY DEF Hit
  <2> QED BY <2>1, OpenFacts, FS_Subset
<1>2. rows = {m[l] : l \in H}
  BY DEF Rows
<1>3. \A x, y \in H : m[x] = m[y] => x = y
  <2>1. \A l \in H : m[l].lot = l
    OBVIOUS
  <2> HIDE DEF m, H
  <2> QED BY <2>1
<1>4. ASSUME NEW l \in H
      PROVE  /\ t[l] \in Int /\ n[m[l]] = t[l]
             /\ p[l] \in Int /\ p[l] = price * t[l] /\ w[m[l]] = p[l]
  <2>1. t[l] = Taken(ls, a, q, l) /\ t[l] \in Int
    BY <1>1, HitOK
  <2>2. m[l] \in rows /\ m[l].qty = Taken(ls, a, q, l) /\ m[l].cost = cost[l] /\ m[l].pnl = pnl[l]
    BY <1>2
  <2>3. n[m[l]] = t[l] /\ w[m[l]] = cost[l] + pnl[l]
    BY <2>1, <2>2
  <2>4. p[l] = price * t[l]
    OBVIOUS
  <2> HIDE DEF t, n, w, m, p
  <2>5. (cash * t[l]) \div q = price * t[l]
    BY <2>1, PriceTimesShares
  <2>6. price * t[l] \in Int
    BY <2>1
  <2> QED BY <2>1, <2>3, <2>4, <2>5, <2>6
<1>5. \A l \in O \ H : t[l] = 0
  <2> SUFFICES ASSUME NEW l \in O, l \notin H PROVE Taken(ls, a, q, l) = 0
    OBVIOUS
  <2>1. ~(Taken(ls, a, q, l) > 0)
    BY DEF Hit
  <2>2. Taken(ls, a, q, l) \in 0..ls[l].remaining /\ ls[l].remaining \in Nat
    BY TakenIs, OpenFacts
  <2> QED BY <2>1, <2>2
<1>6. SumFunctionOnSet(t, H) = q
  <2>1. SumFunctionOnSet(t, O) = IF OpenShares(ls, a) < q THEN OpenShares(ls, a) ELSE q
    BY TakenAddsUp
  <2>2. \A l \in O : t[l] \in Int
    <3> SUFFICES ASSUME NEW l \in O PROVE t[l] \in Int
      OBVIOUS
    <3>1. Taken(ls, a, q, l) \in 0..ls[l].remaining /\ ls[l].remaining \in Nat
      BY TakenIs, OpenFacts
    <3> QED BY <3>1
  <2> HIDE DEF t, O, H
  <2>3. SumFunctionOnSet(t, O) = SumFunctionOnSet(t, H)
    BY <1>1, <1>5, <2>2, SumWithin
  <2> QED BY <2>1, <2>3
<1>7. SumFunction(n) = SumFunctionOnSet(n, rows) /\ SumFunction(w) = SumFunctionOnSet(w, rows)
  BY DEF SumFunction
<1> HIDE DEF m, t, p, n, w, H, O
<1>8. SumFunctionOnSet(n, {m[l] : l \in H}) = SumFunctionOnSet(t, H)
  BY <1>1, <1>3, <1>4, SumImage
<1>9. SumFunctionOnSet(w, {m[l] : l \in H}) = SumFunctionOnSet(p, H)
  BY <1>1, <1>3, <1>4, SumImage
<1>10. SumFunctionOnSet(p, H) = price * SumFunctionOnSet(t, H)
  BY <1>1, <1>4, SumTimes
<1> QED BY <1>2, <1>6, <1>7, <1>8, <1>9, <1>10 DEF n, w

(* Applying an event allocates its proceeds and touches no earlier rows.    *)
LEMMA AppliedAllocated ==
  ASSUME NEW events, NEW ids \in SUBSET Nat, NEW i \in Nat, i \notin ids, events[i] \in Event,
         Even(events[i]), NEW b, Sound(events, ids, b), Allocated(events, ids, b),
         ApplyEventToLots(b, i, events[i]).err = "ok"
  PROVE  Allocated(events, ids \union {i}, ApplyEventToLots(b, i, events[i]))
<1> DEFINE e == events[i]
           d == ApplyEventToLots(b, i, e)
           q == Abs(e.qty)
<1>1. BookOK(b)
  BY DEF Sound
<1>2. PICK c : Moved(b, i, e, c) /\ Recosted(c, d)
  BY <1>1, Applied
<1>3. d.err = "ok"
  OBVIOUS
<1> HIDE DEF d
<1>4. BookOK(c) /\ d.cons = c.cons /\ c.err = "ok"
  <2>1. BookOK(c)
    BY <1>1, <1>2, MovedOK
  <2> QED BY <1>2, <1>3, <2>1, RecostedOK
<1>5. ASSUME NEW j \in ids PROVE RowsOf(c.cons, j) = RowsOf(b.cons, j)
  <2>1. j # i
    OBVIOUS
  <2>2. CASE c.cons = b.cons
    BY <2>2
  <2>3. CASE Sold(b, i, e, c)
    <3>1. Booked(b, i, e, c.cons)
      BY <1>1, <1>4, <2>3, SoldOK
    <3>2. PICK cost, pnl : c.cons = b.cons \union Rows(b.lots, i, e.asset, q, cost, pnl)
      BY <3>1 DEF Booked
    <3>3. \A r \in Rows(b.lots, i, e.asset, q, cost, pnl) : r.event = i
      BY DEF Rows
    <3> QED BY <2>1, <3>2, <3>3 DEF RowsOf
  <2> QED BY <1>1, <1>2, <2>2, <2>3, InsertedOK, SplitOK DEF Moved
<1>6. ASSUME e.type \in {"sell", "capital_reduction"}, e.qty # 0
      PROVE  /\ SumFunction([r \in RowsOf(c.cons, i) |-> r.cost + r.pnl]) = e.cash
             /\ SumFunction([r \in RowsOf(c.cons, i) |-> r.qty]) = q
  <2>1. e.asset \in Asset /\ q \in Nat /\ q # 0 /\ e.qty \in Int
    BY <1>6, EventFields DEF Even, Abs
  <2>2. PICK price \in Int : e.cash = price * q
    BY <1>6 DEF Even
  <2>3. Sold(b, i, e, c)
    BY <1>2, <1>6, <2>1, NoAssetAssumption DEF Moved, Idles, Inserted, Inserts, Split
  <2>4. ~(OpenShares(b.lots, e.asset) < q) /\ Booked(b, i, e, c.cons)
    BY <1>1, <1>4, <2>3, SoldOK
  <2>5. PICK cost, pnl \in [Hit(b.lots, e.asset, q) -> Int] :
          /\ c.cons = b.cons \union Rows(b.lots, i, e.asset, q, cost, pnl)
          /\ \A l \in Hit(b.lots, e.asset, q) :
               cost[l] + pnl[l] = (e.cash * Taken(b.lots, e.asset, q, l)) \div q
    BY <1>6, <2>4 DEF Booked
  <2>6. RowsOf(c.cons, i) = Rows(b.lots, i, e.asset, q, cost, pnl)
    <3>1. \A r \in Rows(b.lots, i, e.asset, q, cost, pnl) : r.event = i
      BY DEF Rows
    <3>2. \A r \in b.cons : r.event # i
      BY DEF Sound
    <3> QED BY <2>5, <3>1, <3>2 DEF RowsOf
  <2>7. LotsOK(b.lots)
    BY <1>1 DEF BookOK
  <2> DEFINE ls == b.lots
             a == e.asset
             cash == e.cash
             rows == RowsOf(c.cons, i)
  <2>8. /\ LotsOK(ls) /\ q \in Nat /\ ~(OpenShares(ls, a) < q) /\ q # 0 /\ cash = price * q
        /\ cost \in [Hit(ls, a, q) -> Int] /\ pnl \in [Hit(ls, a, q) -> Int]
        /\ \A l \in Hit(ls, a, q) : cost[l] + pnl[l] = (cash * Taken(ls, a, q, l)) \div q
        /\ rows = Rows(ls, i, a, q, cost, pnl)
    BY <2>1, <2>2, <2>4, <2>5, <2>6, <2>7
  <2> HIDE DEF ls, a, cash, rows, q
  <2>9. /\ SumFunction([r \in rows |-> r.cost + r.pnl]) = cash
        /\ SumFunction([r \in rows |-> r.qty]) = q
    BY <2>8, RowsAddUp
  <2> QED BY <2>9 DEF rows, cash
<1>7. ASSUME NEW j \in ids \union {i},
             events[j].type \in {"sell", "capital_reduction"}, events[j].qty # 0
      PROVE  /\ SumFunction([r \in RowsOf(d.cons, j) |-> r.cost + r.pnl]) = events[j].cash
             /\ SumFunction([r \in RowsOf(d.cons, j) |-> r.qty]) = Abs(events[j].qty)
  <2>1. CASE j = i
    BY <1>4, <1>6, <1>7, <2>1
  <2>2. CASE j \in ids
    BY <1>4, <1>5, <1>7, <2>2 DEF Allocated
  <2> QED BY <2>1, <2>2
<1> QED BY <1>7 DEF Allocated, d

(* A replay allocates the proceeds of every event.                          *)
LEMMA ReplayAllocated ==
  ASSUME NEW events, NEW S, IsFiniteSet(S), S \subseteq Nat,
         \A i \in S : events[i] \in Event /\ Even(events[i]),
         Replay(events, S).err = "ok"
  PROVE  Allocated(events, S, Replay(events, S))
<1> DEFINE OK(t) == Replay(events, t).err = "ok" => Allocated(events, t, Replay(events, t))
           Bad == {t \in SUBSET S : ~OK(t)}
<1> SUFFICES ASSUME Bad # {} PROVE FALSE
  OBVIOUS
<1>1. PICK t \in Bad : \A x \in t : t \ {x} \notin Bad
  <2>1. Bad \in SUBSET SUBSET S
    OBVIOUS
  <2> HIDE DEF Bad
  <2> QED BY <2>1, Smallest
<1>2. t \in SUBSET S /\ ~OK(t) /\ IsFiniteSet(t)
  BY <1>1, FS_Subset
<1>3. Dated(events, t)
  BY <1>2, EventFields DEF Dated
<1> DEFINE l == LastOf(events, t)
           r == t \ {l}
           b == Replay(events, r)
<1>4. Replay(events, t) = IF t = {} THEN EmptyBook ELSE ReplayStep(events, t, b)
  BY <1>3, ReplayLast
<1>5. t # {}
  <2> SUFFICES ASSUME t = {} PROVE FALSE
    OBVIOUS
  <2> QED BY <1>2 DEF Allocated
<1>6. l \in t
  BY <1>3, <1>5, LastExists
<1>7. OK(r)
  BY <1>1, <1>6
<1>8. /\ l \in Nat /\ events[l] \in Event /\ Even(events[l]) /\ l \notin r /\ r \union {l} = t
      /\ IsFiniteSet(r) /\ r \in SUBSET Nat /\ \A i \in r : events[i] \in Event
  <2>1. l \in Nat /\ events[l] \in Event /\ Even(events[l]) /\ l \notin r /\ r \union {l} = t
    BY <1>2, <1>6
  <2>2. IsFiniteSet(r) /\ r \subseteq S
    BY <1>2, FS_RemoveElement
  <2> HIDE DEF r, l
  <2> QED BY <2>1, <2>2
<1>9. Replay(events, t) = IF b.err # "ok" THEN b ELSE ApplyEventToLots(b, l, events[l])
  BY <1>4, <1>5 DEF ReplayStep
<1>10. Sound(events, r, b)
  BY <1>8, ReplaySound
<1>11. b.err = "ok" => Allocated(events, r, b)
  BY <1>7
<1> HIDE DEF l, r, b
<1>12. Replay(events, t).err = "ok" /\ ~Allocated(events, t, Replay(events, t))
  BY <1>2
<1>13. b.err = "ok" /\ Replay(events, t) = ApplyEventToLots(b, l, events[l])
  BY <1>9, <1>12
<1>14. Allocated(events, r \union {l}, ApplyEventToLots(b, l, events[l]))
  BY <1>8, <1>10, <1>11, <1>12, <1>13, AppliedAllocated
<1> QED BY <1>8, <1>12, <1>13, <1>14

-----------------------------------------------------------------------------
(* The rows of a lot, and the cost they took out of it.                     *)
RowsIn(cons, l) == {c \in cons : c.lot = l}

(* That cost.                                                               *)
Spent(rows) == SumFunction([c \in rows |-> c.cost])

(* A lot that cost u per share, out of which its rows took u per share, but *)
(* for a row that carries a cost of its own.                                *)
AtPrice(events, lot, rows, u) ==
  /\ lot.original > 0 /\ IsFiniteSet(rows)
  /\ lot.cost = u * lot.original
  /\ \/ \E c \in rows : events[c.event].unitCost # Absent
     \/ Spent(rows) = u * (lot.original - lot.remaining)

(* Every lot of the book is one, at a multiple of K.                        *)
Priced(events, b, K) ==
  \A l \in DOMAIN b.lots : \E p \in Int : AtPrice(events, b.lots[l], RowsIn(b.cons, l), p * K)

(* Nothing was spent before the first row.                                  *)
LEMMA SpentNothing == Spent({}) = 0
<1> DEFINE f == [c \in {} |-> c.cost]
<1>1. Spent({}) = SumFunctionOnSet(f, {})
  BY DEF Spent, SumFunction
<1> HIDE DEF f
<1> QED BY <1>1, SumEmpty

(* A row more takes its cost.                                               *)
LEMMA SpentMore ==
  ASSUME NEW rows \in SUBSET Consumption, IsFiniteSet(rows), NEW r \in Consumption, r \notin rows
  PROVE  Spent(rows \union {r}) = Spent(rows) + r.cost
<1> DEFINE more == rows \union {r}
           f == [c \in more |-> c.cost]
           g == [c \in rows |-> c.cost]
<1>1. \A c \in more : f[c] \in Int
  BY DEF Consumption
<1>2. Spent(more) = SumFunctionOnSet(f, more) /\ Spent(rows) = SumFunctionOnSet(g, rows)
  BY DEF Spent, SumFunction
<1>3. (\A c \in rows : f[c] = g[c]) /\ f[r] = r.cost
  OBVIOUS
<1> HIDE DEF f, g
<1>4. SumFunctionOnSet(f, more) = SumFunctionOnSet(f, rows) + f[r]
  BY <1>1, SumAdd
<1>5. SumFunctionOnSet(f, rows) = SumFunctionOnSet(g, rows)
  BY <1>3, SumSame
<1> QED BY <1>2, <1>3, <1>4, <1>5

(* What is spent is a number.                                               *)
LEMMA SpentInt ==
  ASSUME NEW rows \in SUBSET Consumption, IsFiniteSet(rows)
  PROVE  Spent(rows) \in Int
<1> DEFINE f == [c \in rows |-> c.cost]
<1>1. \A c \in rows : f[c] \in Int
  BY DEF Consumption
<1>2. Spent(rows) = SumFunctionOnSet(f, rows)
  BY DEF Spent, SumFunction
<1> HIDE DEF f
<1> QED BY <1>1, <1>2, SumInt

(* A multiple of M is one of what divides M.                                *)
LEMMA PricedFiner ==
  ASSUME NEW events, NEW b, NEW K \in Int, NEW m \in Int, Priced(events, b, m * K)
  PROVE  Priced(events, b, K)
<1> SUFFICES ASSUME NEW l \in DOMAIN b.lots
             PROVE  \E p \in Int : AtPrice(events, b.lots[l], RowsIn(b.cons, l), p * K)
  BY DEF Priced
<1>1. PICK p \in Int : AtPrice(events, b.lots[l], RowsIn(b.cons, l), p * (m * K))
  BY DEF Priced
<1> DEFINE n == p * m
<1>2. n \in Int /\ p * (m * K) = n * K
  OBVIOUS
<1> HIDE DEF n
<1> QED BY <1>1, <1>2

(* Other adjusted costs change no price.                                    *)
LEMMA RecostedPriced ==
  ASSUME NEW events, NEW K \in Int, NEW c, BookOK(c), NEW d, Recosted(c, d), Priced(events, c, K)
  PROVE  Priced(events, d, K)
<1>1. d.cons = c.cons /\ DOMAIN d.lots = DOMAIN c.lots
  BY RecostedOK
<1> SUFFICES ASSUME NEW l \in DOMAIN c.lots
             PROVE  \E p \in Int : AtPrice(events, d.lots[l], RowsIn(d.cons, l), p * K)
  BY <1>1 DEF Priced
<1>2. PICK p \in Int : AtPrice(events, c.lots[l], RowsIn(c.cons, l), p * K)
  BY DEF Priced
<1>3. c.lots[l] \in Lot /\ d.lots[l] = [c.lots[l] EXCEPT !.adjusted = d.lots[l].adjusted]
  BY DEF BookOK, LotsOK, Recosted
<1>4. /\ d.lots[l].original = c.lots[l].original /\ d.lots[l].remaining = c.lots[l].remaining
      /\ d.lots[l].cost = c.lots[l].cost
  BY <1>3 DEF Lot
<1> QED BY <1>1, <1>2, <1>4 DEF AtPrice

(* A lot that is opened at a whole price has no rows yet.                   *)
LEMMA InsertedPriced ==
  ASSUME NEW events, NEW ids \in SUBSET Nat, NEW i \in Nat, i \notin ids, NEW e \in Event,
         e.qty # 0, NEW b, Sound(events, ids, b), NEW c, Inserted(b, i, e, c),
         NEW K \in Int, Priced(events, b, K),
         NEW p \in Int, OpeningCost(e) = p * (Abs(e.qty) * K)
  PROVE  Priced(events, c, K)
<1>1. BookOK(b) /\ DOMAIN b.lots \subseteq ids /\ \A r \in b.cons : r.lot \in DOMAIN b.lots
  BY DEF Sound
<1>2. /\ c.cons = b.cons /\ DOMAIN c.lots = DOMAIN b.lots \union {i}
      /\ \A l \in DOMAIN b.lots \ {i} : c.lots[l] = b.lots[l]
  BY <1>1, InsertedOK
<1>3. \A l \in DOMAIN b.lots : \E u \in Int : AtPrice(events, c.lots[l], RowsIn(c.cons, l), u * K)
  <2> SUFFICES ASSUME NEW l \in DOMAIN b.lots
               PROVE  \E u \in Int : AtPrice(events, c.lots[l], RowsIn(c.cons, l), u * K)
    OBVIOUS
  <2>1. c.lots[l] = b.lots[l]
    BY <1>1, <1>2
  <2> QED BY <1>2, <2>1 DEF Priced
<1>4. AtPrice(events, c.lots[i], RowsIn(c.cons, i), p * K)
  <2> DEFINE q == Abs(e.qty)
  <2>1. q \in Nat /\ q > 0
    BY EventFields DEF Abs
  <2>2. c.lots[i].original = q /\ c.lots[i].remaining = q /\ c.lots[i].cost = p * (q * K)
    <3> DEFINE cost == OpeningCost(e)
               new == [asset |-> e.asset, date |-> e.date, original |-> Abs(e.qty),
                       remaining |-> Abs(e.qty), cost |-> cost, adjusted |-> cost]
               ls == [l \in DOMAIN b.lots \union {i} |-> IF l = i THEN new ELSE b.lots[l]]
    <3>1. c = InsertLot(b, i, e, cost) /\ b = [lots |-> b.lots, cons |-> b.cons, err |-> b.err]
      BY <1>1 DEF Inserted, BookOK
    <3> HIDE DEF cost
    <3>2. c = [lots |-> ls, cons |-> b.cons, err |-> b.err]
      BY <3>1 DEF InsertLot
    <3>3. c.lots[i] = new
      BY <3>2
    <3> QED BY <3>3 DEF cost
  <2>3. RowsIn(c.cons, i) = {}
    BY <1>1, <1>2 DEF RowsIn
  <2> HIDE DEF q
  <2>4. p * (q * K) = (p * K) * q /\ p * K \in Int
    BY <2>1
  <2> DEFINE u == p * K
  <2>5. u * (q - q) = 0
    BY <2>1, <2>4
  <2> HIDE DEF u
  <2> QED BY <2>1, <2>2, <2>3, <2>4, <2>5, SpentNothing, FS_EmptySet DEF AtPrice, u
<1> QED BY <1>2, <1>3, <1>4 DEF Priced

(* A consumption takes shares out of a lot at the lot's price, or says what *)
(* they cost.                                                               *)
LEMMA SoldPriced ==
  ASSUME NEW events, NEW ids \in SUBSET Nat, NEW i \in Nat, i \notin ids, events[i] \in Event,
         NEW b, Sound(events, ids, b), NEW c, Sold(b, i, events[i], c), c.err = "ok",
         NEW K \in Int, Priced(events, b, K)
  PROVE  Priced(events, c, K)
<1> DEFINE e == events[i]
           a == e.asset
           q == Abs(e.qty)
           ls == b.lots
<1>1. BookOK(b) /\ LotsOK(ls) /\ b.cons \subseteq Consumption /\ \A r \in b.cons : r.event # i
  BY DEF Sound, BookOK
<1>2. q \in Nat
  BY EventFields
<1>3. c.lots = Used(ls, a, q) /\ Booked(b, i, e, c.cons)
  BY <1>1, SoldOK
<1>4. PICK cost, pnl \in [Hit(ls, a, q) -> Int] :
        /\ c.cons = b.cons \union Rows(ls, i, a, q, cost, pnl)
        /\ AtCost(ls, e, cost)
  BY <1>3 DEF Booked
<1>5. e.unitCost = Absent =>
        \A l \in Hit(ls, a, q) : cost[l] = FifoCost(ls, l, Taken(ls, a, q, l))
  BY <1>4 DEF AtCost
<1>6. DOMAIN c.lots = DOMAIN ls
  BY <1>3 DEF Used
<1> HIDE DEF q, a, ls
<1> SUFFICES ASSUME NEW l \in DOMAIN ls
             PROVE  \E p \in Int : AtPrice(events, c.lots[l], RowsIn(c.cons, l), p * K)
  BY <1>6 DEF Priced
<1>7. PICK p \in Int : AtPrice(events, ls[l], RowsIn(b.cons, l), p * K)
  BY DEF Priced, ls
<1> DEFINE u == p * K
           old == RowsIn(b.cons, l)
           o == ls[l].original
           m == ls[l].remaining
<1>8. ls[l] \in Lot /\ u \in Int /\ o \in Nat \ {0} /\ m \in Nat
  BY <1>1, <1>7 DEF LotsOK, Lot, AtPrice
<1>9. /\ IsFiniteSet(old) /\ ls[l].cost = u * o
      /\ \/ \E r \in old : events[r.event].unitCost # Absent
         \/ Spent(old) = u * (o - m)
  BY <1>7 DEF AtPrice
<1> HIDE DEF u
<1>10. CASE l \notin Hit(ls, a, q)
  <2>1. c.lots[l] = ls[l]
    BY <1>3, <1>10 DEF Used
  <2>2. \A r \in Rows(ls, i, a, q, cost, pnl) : r.lot # l
    BY <1>10 DEF Rows
  <2>3. RowsIn(c.cons, l) = old
    BY <1>4, <2>2 DEF RowsIn
  <2> QED BY <1>7, <2>1, <2>3
<1>11. CASE l \in Hit(ls, a, q)
  <2> DEFINE n == Taken(ls, a, q, l)
             r == [event |-> i, lot |-> l, qty |-> n, cost |-> cost[l], pnl |-> pnl[l]]
  <2>1. n \in Nat /\ n <= m /\ l \in Nat
    BY <1>1, <1>2, <1>11, HitOK
  <2>2. c.lots[l] = [ls[l] EXCEPT !.remaining = @ - n]
    BY <1>3, <1>11 DEF Used
  <2>3. r \in Consumption /\ r.event = i /\ r.lot = l /\ r.cost = cost[l]
    <3> HIDE DEF n
    <3> QED BY <1>11, <2>1 DEF Consumption
  <2>4. RowsIn(c.cons, l) = old \union {r}
    <3>1. r \in Rows(ls, i, a, q, cost, pnl)
      BY <1>11 DEF Rows
    <3>2. \A x \in Rows(ls, i, a, q, cost, pnl) : x.lot = l => x = r
      BY DEF Rows
    <3> HIDE DEF r
    <3> QED BY <1>4, <2>3, <3>1, <3>2 DEF RowsIn
  <2>5. r \notin old /\ old \in SUBSET Consumption
    BY <1>1, <2>3 DEF RowsIn
  <2> HIDE DEF n, r
  <2>6. /\ c.lots[l].original = o /\ c.lots[l].remaining = m - n /\ c.lots[l].cost = u * o
    BY <1>8, <1>9, <2>1, <2>2 DEF Lot
  <2> HIDE DEF old, o, m
  <2>7. IsFiniteSet(old \union {r}) /\ Spent(old \union {r}) = Spent(old) + r.cost
    BY <1>9, <2>3, <2>5, SpentMore, FS_AddElement
  <2>8. \/ \E x \in old \union {r} : events[x.event].unitCost # Absent
        \/ Spent(old \union {r}) = u * (o - (m - n))
    <3>1. CASE events[i].unitCost # Absent
      BY <2>3, <3>1
    <3>2. CASE \E x \in old : events[x.event].unitCost # Absent
      BY <3>2
    <3>3. CASE events[i].unitCost = Absent /\ Spent(old) = u * (o - m)
      <4>1. r.cost = (ls[l].cost * n) \div ls[l].original
        BY <1>5, <1>11, <2>3, <3>3 DEF FifoCost, n
      <4>2. r.cost = u * n
        BY <1>8, <1>9, <2>1, <4>1, PriceTimesShares DEF o
      <4>3. u * (o - m) + u * n = u * (o - (m - n))
        BY <1>8, <2>1
      <4> QED BY <2>7, <3>3, <4>2, <4>3
    <3> QED BY <1>9, <3>1, <3>2, <3>3
  <2>9. AtPrice(events, c.lots[l], RowsIn(c.cons, l), u)
    BY <1>8, <2>4, <2>6, <2>7, <2>8 DEF AtPrice
  <2> QED BY <2>9 DEF u
<1> QED BY <1>10, <1>11

(* A lot that is scaled by k at k times the price costs what it cost.       *)
LEMMA ScaledPrice ==
  ASSUME NEW v \in Int, NEW k \in Int, NEW n \in Int, NEW w, w = v * k, NEW x, x = n * k
  PROVE  v * x = w * n
OBVIOUS

(* A whole split multiplies the shares and leaves the cost and the rows.    *)
LEMMA SplitPriced ==
  ASSUME NEW events, NEW e \in Event, NEW b, BookOK(b), NEW c, Split(b, e, c),
         NEW k \in Nat \ {0}, e.ratio[1] = k * e.ratio[2],
         NEW K \in Int, NEW m \in Int, Priced(events, b, m * (K * k))
  PROVE  Priced(events, c, K)
<1> DEFINE ls == b.lots
           r == e.ratio[1]
           d == e.ratio[2]
<1>1. LotsOK(ls) /\ b = [lots |-> b.lots, cons |-> b.cons, err |-> b.err]
  BY DEF BookOK
<1>2. r \in Nat /\ d \in Nat \ {0} /\ r = k * d
  BY EventFields
<1> DEFINE new == [l \in DOMAIN ls |->
                     IF l \in OpenLots(ls, e.asset)
                     THEN [ls[l] EXCEPT !.original = (@ * r) \div d, !.remaining = (@ * r) \div d]
                     ELSE ls[l]]
<1>3. c.cons = b.cons /\ c.lots = new /\ DOMAIN new = DOMAIN ls
  BY <1>1 DEF Split, ApplySplitToLots
<1> SUFFICES ASSUME NEW l \in DOMAIN ls
             PROVE  \E p \in Int : AtPrice(events, c.lots[l], RowsIn(c.cons, l), p * K)
  BY <1>3 DEF Priced
<1>4. PICK p \in Int : AtPrice(events, ls[l], RowsIn(b.cons, l), p * (m * (K * k)))
  BY DEF Priced
<1> DEFINE o == ls[l].original
           n == ls[l].remaining
           w == p * (m * (K * k))
<1>5. ls[l] \in Lot /\ o \in Nat \ {0} /\ n \in Nat
  BY <1>1, <1>4 DEF LotsOK, Lot, AtPrice
<1>6. CASE l \notin OpenLots(ls, e.asset)
  <2>1. c.lots[l] = ls[l]
    BY <1>3, <1>6
  <2> DEFINE x == p * (m * k)
  <2>2. x \in Int /\ w = x * K
    OBVIOUS
  <2> HIDE DEF x, w
  <2>3. AtPrice(events, c.lots[l], RowsIn(c.cons, l), x * K)
    BY <1>3, <1>4, <2>1, <2>2 DEF w
  <2> QED BY <2>2, <2>3
<1>7. CASE l \in OpenLots(ls, e.asset)
  <2> DEFINE x == p * m
             v == x * K
  <2>1. x \in Int /\ v \in Int /\ w = v * k /\ w \in Int
    OBVIOUS
  <2>2. (o * r) \div d = o * k /\ (n * r) \div d = n * k
    <3> HIDE DEF o, n, r, d
    <3>1. o * r = (o * k) * d /\ n * r = (n * k) * d /\ o * k \in Int /\ n * k \in Int
      BY <1>2, <1>5
    <3> DEFINE y == o * k
               z == n * k
    <3> HIDE DEF y, z
    <3>2. (y * d) \div d = y /\ (z * d) \div d = z
      BY <1>2, <3>1 DEF y, z
    <3> QED BY <3>1, <3>2 DEF y, z
  <2>3. c.lots[l] = [ls[l] EXCEPT !.original = o * k, !.remaining = n * k]
    BY <1>3, <1>7, <2>2
  <2>4. c.lots[l].original = o * k /\ c.lots[l].remaining = n * k /\ c.lots[l].cost = ls[l].cost
    <3> DEFINE y == o * k
               z == n * k
    <3>1. c.lots[l] = [ls[l] EXCEPT !.original = y, !.remaining = z]
      BY <2>3
    <3> HIDE DEF y, z, o, n
    <3>2. c.lots[l].original = y /\ c.lots[l].remaining = z /\ c.lots[l].cost = ls[l].cost
      BY <1>5, <3>1 DEF Lot
    <3> QED BY <3>2 DEF y, z
  <2>5. /\ IsFiniteSet(RowsIn(b.cons, l)) /\ ls[l].cost = w * o
        /\ \/ \E y \in RowsIn(b.cons, l) : events[y.event].unitCost # Absent
           \/ Spent(RowsIn(b.cons, l)) = w * (o - n)
    BY <1>4 DEF AtPrice
  <2> HIDE DEF v, x, w, o, n
  <2>6. w * o = v * (o * k) /\ w * (o - n) = v * (o * k - n * k) /\ o * k > 0
    <3>1. o - n \in Int /\ (o - n) * k = o * k - n * k /\ o * k > 0
      BY <1>5
    <3>2. v * (o * k) = w * o
      BY <1>5, <2>1, ScaledPrice
    <3>3. v * ((o - n) * k) = w * (o - n)
      BY <2>1, <3>1, ScaledPrice
    <3> QED BY <3>1, <3>2, <3>3
  <2>7. AtPrice(events, c.lots[l], RowsIn(c.cons, l), v)
    BY <1>3, <2>4, <2>5, <2>6 DEF AtPrice
  <2> QED BY <2>1, <2>7 DEF v
<1> QED BY <1>6, <1>7

(* What e opens has a multiple of K for its price.                          *)
Fits(e, K) ==
  Inserts(e) => e.qty # 0 /\ \E p \in Int : OpeningCost(e) = p * (Abs(e.qty) * K)

(* M can be divided by K, and by K times the ratio of the split e.          *)
Scales(e, M, K) ==
  /\ \E m \in Int : M = m * K
  /\ e.type = "split" => \E k \in Nat \ {0}, m \in Int :
                           e.ratio[1] = k * e.ratio[2] /\ M = m * (K * k)

(* K[n] is what prices are multiples of once n events are applied, of which *)
(* e may be any.                                                            *)
Fine(e, N, K) ==
  /\ \A n \in 0..N : Fits(e, K[n])
  /\ \A n \in 1..N : Scales(e, K[n - 1], K[n])

(* Applying an event keeps the prices whole.                                *)
LEMMA AppliedPriced ==
  ASSUME NEW events, NEW ids \in SUBSET Nat, NEW i \in Nat, i \notin ids, events[i] \in Event,
         NEW M \in Int, NEW K \in Int, Fits(events[i], K), Scales(events[i], M, K),
         NEW b, Sound(events, ids, b), Priced(events, b, M),
         ApplyEventToLots(b, i, events[i]).err = "ok"
  PROVE  Priced(events, ApplyEventToLots(b, i, events[i]), K)
<1> DEFINE e == events[i]
           d == ApplyEventToLots(b, i, e)
<1>1. BookOK(b)
  BY DEF Sound
<1>2. PICK c : Moved(b, i, e, c) /\ Recosted(c, d)
  BY <1>1, Applied
<1>3. d.err = "ok"
  OBVIOUS
<1> HIDE DEF d
<1>4. BookOK(c) /\ c.err = "ok"
  <2>1. BookOK(c)
    BY <1>1, <1>2, MovedOK
  <2> QED BY <1>2, <1>3, <2>1, RecostedOK
<1>5. Priced(events, b, K)
  <2>1. PICK m \in Int : M = m * K
    BY DEF Scales
  <2> QED BY <2>1, PricedFiner
<1>6. Priced(events, c, K)
  <2>1. CASE c = b
    BY <1>5, <2>1
  <2>2. CASE Inserted(b, i, e, c)
    <3>1. Inserts(e)
      BY <2>2 DEF Inserted
    <3>2. PICK p \in Int : OpeningCost(e) = p * (Abs(e.qty) * K)
      BY <3>1 DEF Fits
    <3>3. e.qty # 0
      BY <3>1 DEF Fits
    <3> QED BY <1>5, <2>2, <3>2, <3>3, InsertedPriced
  <2>3. CASE Sold(b, i, e, c)
    BY <1>4, <1>5, <2>3, SoldPriced
  <2>4. CASE Split(b, e, c)
    <3>1. PICK k \in Nat \ {0}, m \in Int : e.ratio[1] = k * e.ratio[2] /\ M = m * (K * k)
      BY <2>4 DEF Split, Scales
    <3>2. Priced(events, b, m * (K * k))
      BY <3>1
    <3> HIDE DEF e
    <3>3. e \in Event
      BY DEF e
    <3> QED BY <1>1, <2>4, <3>1, <3>2, <3>3, SplitPriced
  <2> QED BY <1>2, <2>1, <2>2, <2>3, <2>4 DEF Moved
<1>7. Priced(events, d, K)
  BY <1>2, <1>4, <1>6, RecostedPriced
<1> QED BY <1>7 DEF d

(* A replay of n events leaves prices that are multiples of K[n].           *)
LEMMA ReplayPriced ==
  ASSUME NEW events, NEW N \in Nat, NEW K \in [0..N -> Int],
         NEW S, IsFiniteSet(S), S \subseteq Nat, Cardinality(S) <= N,
         \A i \in S : events[i] \in Event /\ Fine(events[i], N, K),
         Replay(events, S).err = "ok"
  PROVE  Priced(events, Replay(events, S), K[Cardinality(S)])
<1> DEFINE OK(t) == Replay(events, t).err = "ok" =>
                      Priced(events, Replay(events, t), K[Cardinality(t)])
           Bad == {t \in SUBSET S : ~OK(t)}
<1> SUFFICES ASSUME Bad # {} PROVE FALSE
  OBVIOUS
<1>1. PICK t \in Bad : \A x \in t : t \ {x} \notin Bad
  <2>1. Bad \in SUBSET SUBSET S
    OBVIOUS
  <2> HIDE DEF Bad
  <2> QED BY <2>1, Smallest
<1>2. t \in SUBSET S /\ ~OK(t) /\ IsFiniteSet(t) /\ Cardinality(t) \in Nat /\ Cardinality(t) <= N
  <2>1. t \in SUBSET S /\ ~OK(t)
    BY <1>1
  <2>2. IsFiniteSet(t) /\ Cardinality(t) <= Cardinality(S)
    BY <2>1, FS_Subset
  <2>3. Cardinality(t) \in Nat /\ Cardinality(S) \in Nat
    BY <2>2, FS_CardinalityType
  <2> QED BY <2>1, <2>2, <2>3
<1>3. Dated(events, t)
  BY <1>2, EventFields DEF Dated
<1> DEFINE l == LastOf(events, t)
           r == t \ {l}
           b == Replay(events, r)
<1>4. Replay(events, t) = IF t = {} THEN EmptyBook ELSE ReplayStep(events, t, b)
  BY <1>3, ReplayLast
<1>5. t # {}
  <2> SUFFICES ASSUME t = {} PROVE FALSE
    OBVIOUS
  <2>1. Replay(events, t) = EmptyBook /\ DOMAIN EmptyBook.lots = {}
    BY <1>4 DEF EmptyBook
  <2> QED BY <1>2, <2>1 DEF Priced
<1>6. l \in t
  BY <1>3, <1>5, LastExists
<1>7. OK(r)
  BY <1>1, <1>6
<1>8. /\ l \in Nat /\ events[l] \in Event /\ Fine(events[l], N, K) /\ l \notin r /\ r \union {l} = t
      /\ IsFiniteSet(r) /\ r \in SUBSET Nat /\ \A i \in r : events[i] \in Event
      /\ Cardinality(t) \in 1..N /\ Cardinality(r) = Cardinality(t) - 1
  <2>1. l \in Nat /\ events[l] \in Event /\ Fine(events[l], N, K) /\ l \notin r /\ r \union {l} = t
    BY <1>2, <1>6
  <2>2. IsFiniteSet(r) /\ r \subseteq S /\ Cardinality(r) = Cardinality(t) - 1
    BY <1>2, <1>6, FS_RemoveElement
  <2>3. Cardinality(r) \in Nat
    BY <2>2, FS_CardinalityType
  <2> HIDE DEF r, l
  <2>4. Cardinality(t) \in 1..N
    BY <1>2, <2>2, <2>3
  <2> QED BY <2>1, <2>2, <2>4
<1>9. Replay(events, t) = IF b.err # "ok" THEN b ELSE ApplyEventToLots(b, l, events[l])
  BY <1>4, <1>5 DEF ReplayStep
<1>10. Sound(events, r, b)
  BY <1>8, ReplaySound
<1>11. b.err = "ok" => Priced(events, b, K[Cardinality(r)])
  BY <1>7
<1> HIDE DEF l, r, b
<1> DEFINE n == Cardinality(t)
<1>12. Replay(events, t).err = "ok" /\ ~Priced(events, Replay(events, t), K[n])
  BY <1>2
<1>13. b.err = "ok" /\ Replay(events, t) = ApplyEventToLots(b, l, events[l])
  BY <1>9, <1>12
<1>14. n \in 1..N /\ n \in 0..N /\ n - 1 \in 0..N /\ Cardinality(r) = n - 1
  BY <1>8
<1> HIDE DEF n
<1>15. K[n] \in Int /\ K[n - 1] \in Int /\ Fits(events[l], K[n]) /\ Scales(events[l], K[n - 1], K[n])
  BY <1>8, <1>14 DEF Fine
<1>16. Priced(events, b, K[n - 1])
  BY <1>11, <1>13, <1>14
<1>17. Priced(events, ApplyEventToLots(b, l, events[l]), K[n])
  BY <1>8, <1>10, <1>12, <1>13, <1>15, <1>16, AppliedPriced
<1> QED BY <1>12, <1>13, <1>17

-----------------------------------------------------------------------------
(* The cost and the adjusted cost that the open shares of an asset carry,   *)
(* as the portfolio adds them up.                                           *)
CostOf(ls, a) ==
  SumFunction([l \in OpenLots(ls, a) |-> (ls[l].cost * ls[l].remaining) \div ls[l].original])

(* The adjusted cost.                                                       *)
AdjustedOf(ls, a) ==
  SumFunction([l \in OpenLots(ls, a) |-> (ls[l].adjusted * ls[l].remaining) \div ls[l].original])

(* What an open lot carries is a number.                                    *)
LEMMA OpenLotFields ==
  ASSUME NEW ls, LotsOK(ls), NEW a, NEW l \in OpenLots(ls, a)
  PROVE  /\ l \in DOMAIN ls /\ ls[l] \in Lot /\ ls[l].cost \in Int /\ ls[l].adjusted \in Int
         /\ ls[l].original \in Nat \ {0} /\ ls[l].remaining \in Nat \ {0}
         /\ (ls[l].cost * ls[l].remaining) \div ls[l].original \in Int
         /\ (ls[l].adjusted * ls[l].remaining) \div ls[l].original \in Int
<1>1. /\ l \in DOMAIN ls /\ ls[l] \in Lot /\ ls[l].cost \in Int /\ ls[l].adjusted \in Int
      /\ ls[l].original \in Nat \ {0} /\ ls[l].remaining \in Nat \ {0}
  BY DEF OpenLots, LotsOK, Lot
<1> DEFINE x == ls[l].cost * ls[l].remaining
           y == ls[l].adjusted * ls[l].remaining
<1>2. x \in Int /\ y \in Int
  BY <1>1
<1> HIDE DEF x, y
<1>3. x \div ls[l].original \in Int /\ y \div ls[l].original \in Int
  BY <1>1, <1>2, Divides
<1> QED BY <1>1, <1>3 DEF x, y

(* Taking whole multiples of the divisor out of a dividend.                 *)
LEMMA DivideLess ==
  ASSUME NEW x \in Int, NEW n \in Int, NEW d \in Nat \ {0}
  PROVE  (x - n * d) \div d = x \div d - n
<1> DEFINE m == x \div d
<1>1. m \in Int /\ m * d <= x /\ x < (m + 1) * d
  OBVIOUS
<1> HIDE DEF m
<1>2. x - n * d \in Int /\ (m - n) * d <= x - n * d /\ x - n * d < ((m - n) + 1) * d
  BY <1>1
<1> DEFINE y == x - n * d
           k == m - n
<1>3. y \in Int /\ k \in Int /\ k * d <= y /\ y < (k + 1) * d
  BY <1>1, <1>2
<1> HIDE DEF y, k
<1>4. y \div d = k
  BY <1>3
<1> QED BY <1>4 DEF y, k, m

(* A dividend of a whole amount per share takes that amount out of each lot *)
(* for each of its shares, and so the whole dividend out of the position.   *)
LEMMA DeductTotals ==
  ASSUME NEW b, BookOK(b), b.err = "ok", NEW a, OpenShares(b.lots, a) # 0,
         NEW x \in Int, NEW amount, amount = x * OpenShares(b.lots, a)
  PROVE  LET d == DeductAdjustedCostProRata(b, a, amount)
         IN  /\ OpenShares(d.lots, a) = OpenShares(b.lots, a)
             /\ CostOf(d.lots, a) = CostOf(b.lots, a)
             /\ AdjustedOf(d.lots, a) = AdjustedOf(b.lots, a) - amount
<1> DEFINE total == OpenShares(b.lots, a)
           ls == b.lots
           O == OpenLots(ls, a)
           ms == [l \in DOMAIN ls |->
                    IF l \in O
                    THEN [ls[l] EXCEPT !.adjusted = @ - (amount * ls[l].original) \div total]
                    ELSE ls[l]]
           d == DeductAdjustedCostProRata(b, a, amount)
<1>1. LotsOK(ls) /\ b = [lots |-> b.lots, cons |-> b.cons, err |-> b.err]
  BY DEF BookOK
<1>2. d.lots = ms
  BY <1>1 DEF DeductAdjustedCostProRata
<1>3. total \in Nat \ {0} /\ amount = x * total /\ total = SumFunctionOnSet(Rem(ls), O)
  BY <1>1, OpenSharesOfAll
<1> HIDE DEF d, total
<1>4. ASSUME NEW l \in O
      PROVE  /\ ms[l].original = ls[l].original /\ ms[l].remaining = ls[l].remaining
             /\ ms[l].asset = ls[l].asset
             /\ ms[l].cost = ls[l].cost /\ ms[l].adjusted = ls[l].adjusted - x * ls[l].original
  <2>1. ls[l] \in Lot /\ l \in DOMAIN ls /\ ls[l].original \in Nat
    BY <1>1, OpenLotFields
  <2> DEFINE o == ls[l].original
             part == (amount * o) \div total
  <2>2. part = x * o
    BY <1>3, <2>1, PriceTimesShares
  <2>3. ms[l] = [ls[l] EXCEPT !.adjusted = @ - part]
    BY <2>1
  <2> HIDE DEF part, ms
  <2> QED BY <2>1, <2>2, <2>3 DEF Lot
<1>5. DOMAIN ms = DOMAIN ls /\ \A l \in DOMAIN ls \ O : ms[l] = ls[l]
  OBVIOUS
<1> HIDE DEF ms
<1>6. OpenLots(ms, a) = O
  BY <1>4, <1>5 DEF OpenLots
<1> DEFINE rem == [l \in O |-> ls[l].remaining]
           cost == [l \in O |-> (ls[l].cost * ls[l].remaining) \div ls[l].original]
           old == [l \in O |-> (ls[l].adjusted * ls[l].remaining) \div ls[l].original]
           new == [l \in O |-> (ms[l].adjusted * ms[l].remaining) \div ms[l].original]
           less == [l \in O |-> (-x) * Rem(ls)[l]]
<1>7. [l \in O |-> ms[l].remaining] = rem
      /\ [l \in O |-> (ms[l].cost * ms[l].remaining) \div ms[l].original] = cost
  BY <1>4
<1>8. OpenShares(ms, a) = OpenShares(ls, a) /\ CostOf(ms, a) = CostOf(ls, a)
  BY <1>6, <1>7 DEF OpenShares, CostOf
<1>9. ASSUME NEW l \in O
      PROVE  /\ old[l] \in Int /\ Rem(ls)[l] \in Int /\ less[l] = (-x) * Rem(ls)[l]
             /\ less[l] \in Int /\ new[l] = old[l] + less[l]
  <2> DEFINE o == ls[l].original
             n == ls[l].remaining
             c == ls[l].adjusted
             y == c * n
             z == x * n
  <2>1. o \in Nat \ {0} /\ n \in Nat /\ c \in Int /\ Rem(ls)[l] = n /\ old[l] \in Int
    BY <1>1, OpenLotFields, OpenFacts
  <2>2. old[l] = y \div o /\ new[l] = ((c - x * o) * n) \div o /\ less[l] = (-x) * n
    BY <1>4, <2>1
  <2> HIDE DEF o, n, c
  <2>3. y \in Int /\ z \in Int /\ (c - x * o) * n = y - z * o /\ (-x) * n = -z
    BY <2>1
  <2> HIDE DEF y, z, old, new, less
  <2>4. (y - z * o) \div o = y \div o - z
    BY <2>1, <2>3, DivideLess
  <2> QED BY <2>1, <2>2, <2>3, <2>4
<1>10. AdjustedOf(ls, a) = SumFunctionOnSet(old, O) /\ AdjustedOf(ms, a) = SumFunctionOnSet(new, O)
  BY <1>6 DEF AdjustedOf, SumFunction
<1>11. IsFiniteSet(O)
  BY <1>1, OpenFacts
<1> HIDE DEF old, new, less, O
<1>12. SumFunctionOnSet(new, O) = SumFunctionOnSet(old, O) + SumFunctionOnSet(less, O)
  BY <1>9, <1>11, SumPlus
<1>13. SumFunctionOnSet(less, O) = (-x) * SumFunctionOnSet(Rem(ls), O)
  BY <1>9, <1>11, SumTimes
<1>14. SumFunctionOnSet(old, O) \in Int
  BY <1>9, <1>11, SumInt
<1>15. (-x) * total = -amount /\ amount \in Int
  BY <1>3
<1>16. AdjustedOf(ms, a) = AdjustedOf(ls, a) - amount
  BY <1>3, <1>10, <1>12, <1>13, <1>14, <1>15
<1> QED BY <1>2, <1>8, <1>16 DEF d, ls

(* A factor that is positive can be put on both sides of an inequality.     *)
LEMMA TimesInOrder ==
  ASSUME NEW x \in Int, NEW y \in Int, NEW r \in Nat \ {0}
  PROVE  /\ x <= y => x * r <= y * r
         /\ x < y => x * r < y * r
<1>1. ASSUME x <= y PROVE x * r <= y * r
  BY <1>1
<1>2. ASSUME x < y PROVE x * r < y * r
  BY <1>2
<1> QED BY <1>1, <1>2

(* ... or left out.                                                         *)
LEMMA WithoutFactor ==
  ASSUME NEW x \in Int, NEW y \in Int, NEW d \in Nat \ {0}
  PROVE  /\ x * d <= y * d => x <= y
         /\ x * d < y * d => x < y
<1> DEFINE v == x * d
           w == y * d
<1>1. v \in Int /\ w \in Int
  OBVIOUS
<1>2. (y < x => w < v) /\ (y <= x => w <= v)
  BY TimesInOrder
<1> HIDE DEF v, w
<1>3. (v <= w => x <= y) /\ (v < w => x < y)
  BY <1>1, <1>2
<1> QED BY <1>3 DEF v, w

(* Dividend and divisor scaled by the same ratio r / d.                     *)
LEMMA ScaledQuotient ==
  ASSUME NEW c \in Int, NEW o \in Nat \ {0}, NEW n \in Nat, NEW r \in Nat \ {0}, NEW d \in Nat \ {0},
         NEW O \in Nat \ {0}, d * O = o * r, NEW N \in Nat, d * N = n * r
  PROVE  (c * N) \div O = (c * n) \div o
<1> DEFINE x == c * n
           q == x \div o
           X == c * N
           u == q * o
           v == (q + 1) * o
           U == q * O
           V == (q + 1) * O
<1>1. x \in Int /\ X \in Int
  OBVIOUS
<1>2. q \in Int /\ u <= x /\ x < v
  <2> HIDE DEF x
  <2> QED BY <1>1
<1>3. X * d = x * r
  <2>1. (c * N) * d = c * (d * N) /\ c * (n * r) = (c * n) * r
    OBVIOUS
  <2> QED BY <2>1
<1> HIDE DEF x, X, q
<1>4. U * d = u * r /\ V * d = v * r
  <2>1. (q * O) * d = q * (d * O) /\ q * (o * r) = (q * o) * r
    BY <1>2
  <2> DEFINE k == q + 1
  <2>2. k \in Int
    BY <1>2
  <2> HIDE DEF k
  <2>3. (k * O) * d = k * (d * O) /\ k * (o * r) = (k * o) * r
    BY <2>2
  <2> QED BY <2>1, <2>3 DEF k
<1>5. u \in Int /\ v \in Int /\ U \in Int /\ V \in Int
  BY <1>2
<1> HIDE DEF u, v, U, V
<1>6. u * r <= x * r /\ x * r < v * r
  BY <1>1, <1>2, <1>5, TimesInOrder
<1>7. U * d <= X * d /\ X * d < V * d
  BY <1>3, <1>4, <1>6
<1>8. U <= X /\ X < V
  BY <1>1, <1>5, <1>7, WithoutFactor
<1>9. X \div O = q
  <2>1. q * O <= X /\ X < (q + 1) * O
    BY <1>8 DEF U, V
  <2> QED BY <1>1, <1>2, <2>1
<1> QED BY <1>9 DEF X, q, x

(* A split that leaves whole shares in every lot keeps what each of them    *)
(* carries, and so both costs of the position.                              *)
LEMMA SplitTotals ==
  ASSUME NEW b, BookOK(b), NEW e \in Event, NEW c, Split(b, e, c), e.ratio[1] # 0,
         \A l \in OpenLots(b.lots, e.asset) :
           /\ (b.lots[l].original * e.ratio[1]) % e.ratio[2] = 0
           /\ (b.lots[l].remaining * e.ratio[1]) % e.ratio[2] = 0
  PROVE  /\ CostOf(c.lots, e.asset) = CostOf(b.lots, e.asset)
         /\ AdjustedOf(c.lots, e.asset) = AdjustedOf(b.lots, e.asset)
<1> DEFINE ls == b.lots
           a == e.asset
           O == OpenLots(ls, a)
           r == e.ratio[1]
           d == e.ratio[2]
           ms == [l \in DOMAIN ls |->
                    IF l \in O
                    THEN [ls[l] EXCEPT !.original = (@ * r) \div d, !.remaining = (@ * r) \div d]
                    ELSE ls[l]]
<1>1. LotsOK(ls) /\ b = [lots |-> b.lots, cons |-> b.cons, err |-> b.err]
  BY DEF BookOK
<1>2. r \in Nat \ {0} /\ d \in Nat \ {0}
  BY EventFields
<1>3. c.lots = ms
  BY <1>1 DEF Split, ApplySplitToLots
<1>4. ASSUME NEW l \in O
      PROVE  /\ ms[l].asset = ls[l].asset /\ ms[l].remaining > 0
             /\ (ms[l].cost * ms[l].remaining) \div ms[l].original
                  = (ls[l].cost * ls[l].remaining) \div ls[l].original
             /\ (ms[l].adjusted * ms[l].remaining) \div ms[l].original
                  = (ls[l].adjusted * ls[l].remaining) \div ls[l].original
  <2> DEFINE o == ls[l].original
             n == ls[l].remaining
             M == (o * r) \div d
             N == (n * r) \div d
  <2>1. /\ ls[l] \in Lot /\ l \in DOMAIN ls /\ o \in Nat \ {0} /\ n \in Nat \ {0}
        /\ ls[l].cost \in Int /\ ls[l].adjusted \in Int
    BY <1>1, OpenLotFields
  <2>2. (o * r) % d = 0 /\ (n * r) % d = 0
    OBVIOUS
  <2>3. ms[l] = [ls[l] EXCEPT !.original = M, !.remaining = N]
    <3> HIDE DEF O, r, d
    <3> QED BY <2>1
  <2> HIDE DEF o, n, ms, r, d
  <2>4. /\ M \in Nat \ {0} /\ N \in Nat \ {0} /\ d * M = o * r /\ d * N = n * r
    <3> DEFINE x == o * r
               y == n * r
    <3>1. x \in Nat \ {0} /\ y \in Nat \ {0} /\ x % d = 0 /\ y % d = 0
      BY <1>2, <2>1, <2>2
    <3> HIDE DEF x, y
    <3>2. d * (x \div d) = x /\ d * (y \div d) = y /\ x \div d \in Nat /\ y \div d \in Nat
      BY <1>2, <3>1, WholeProduct, Divides
    <3>3. d * 0 = 0
      BY <1>2
    <3>4. x \div d # 0 /\ y \div d # 0
      BY <3>1, <3>2, <3>3
    <3> QED BY <3>2, <3>4 DEF x, y
  <2> HIDE DEF M, N
  <2>5. /\ ms[l].original = M /\ ms[l].remaining = N /\ ms[l].asset = ls[l].asset
        /\ ms[l].cost = ls[l].cost /\ ms[l].adjusted = ls[l].adjusted
    BY <2>1, <2>3 DEF Lot
  <2>6. ASSUME NEW z \in Int PROVE (z * N) \div M = (z * n) \div o
    BY <1>2, <2>1, <2>4, ScaledQuotient
  <2>7. N > 0
    BY <2>4
  <2>8. /\ (ls[l].cost * N) \div M = (ls[l].cost * n) \div o
        /\ (ls[l].adjusted * N) \div M = (ls[l].adjusted * n) \div o
    BY <2>1, <2>6
  <2> QED BY <2>5, <2>7, <2>8 DEF o, n
<1>5. DOMAIN ms = DOMAIN ls /\ \A l \in DOMAIN ls \ O : ms[l] = ls[l]
  <2> HIDE DEF O, r, d
  <2> QED OBVIOUS
<1> HIDE DEF ms
<1>6. OpenLots(ms, a) = O
  BY <1>4, <1>5 DEF OpenLots
<1>7. /\ [l \in O |-> (ms[l].cost * ms[l].remaining) \div ms[l].original]
           = [l \in O |-> (ls[l].cost * ls[l].remaining) \div ls[l].original]
      /\ [l \in O |-> (ms[l].adjusted * ms[l].remaining) \div ms[l].original]
           = [l \in O |-> (ls[l].adjusted * ls[l].remaining) \div ls[l].original]
  BY <1>4
<1> HIDE DEF O
<1>8. CostOf(ms, a) = CostOf(ls, a) /\ AdjustedOf(ms, a) = AdjustedOf(ls, a)
  BY <1>6, <1>7 DEF CostOf, AdjustedOf, O
<1> QED BY <1>3, <1>8

(* The shares events record are a number.                                   *)
LEMMA RecordedInt ==
  ASSUME NEW evs, NEW ids, IsFiniteSet(ids), \A j \in ids : evs[j] \in Event, NEW s
  PROVE  Recorded(evs, ids, s) \in Int
<1> DEFINE S == {i \in ids : evs[i].asset = s}
           f == [i \in S |-> evs[i].qty]
<1>1. IsFiniteSet(S)
  BY FS_Subset
<1>2. \A i \in S : f[i] \in Int
  BY EventFields
<1>3. Recorded(evs, ids, s) = SumFunctionOnSet(f, S)
  BY DEF Recorded, SumFunction
<1> HIDE DEF f, S
<1> QED BY <1>1, <1>2, <1>3, SumInt

(* An event more adds its quantity to what is recorded of its asset.        *)
LEMMA RecordedWith ==
  ASSUME NEW evs, NEW ids, IsFiniteSet(ids), \A j \in ids : evs[j] \in Event,
         NEW i, i \notin ids, evs[i] \in Event, NEW s
  PROVE  Recorded(evs, ids \union {i}, s)
           = Recorded(evs, ids, s) + (IF evs[i].asset = s THEN evs[i].qty ELSE 0)
<1> DEFINE more == ids \union {i}
<1>1. IsFiniteSet(more) /\ i \in more /\ more \ {i} = ids
  BY FS_AddElement
<1>2. \A j \in more : evs[j].qty \in Int
  BY EventFields
<1> HIDE DEF more
<1>3. /\ evs[i].asset = s => Recorded(evs, more, s) = Recorded(evs, more \ {i}, s) + evs[i].qty
      /\ evs[i].asset # s => Recorded(evs, more, s) = Recorded(evs, more \ {i}, s)
  BY <1>1, <1>2, RecordedAdd
<1>4. Recorded(evs, ids, s) \in Int
  BY RecordedInt
<1>5. /\ evs[i].asset = s => Recorded(evs, more, s) = Recorded(evs, ids, s) + evs[i].qty
      /\ evs[i].asset # s => Recorded(evs, more, s) = Recorded(evs, ids, s) + 0
  BY <1>1, <1>3, <1>4
<1> QED BY <1>5 DEF more

(* What is recorded of some events depends on those events only.           *)
LEMMA RecordedSame ==
  ASSUME NEW evs, NEW others, NEW ids, NEW s, \A i \in ids : others[i] = evs[i]
  PROVE  Recorded(others, ids, s) = Recorded(evs, ids, s)
<1>1. {i \in ids : others[i].asset = s} = {i \in ids : evs[i].asset = s}
  OBVIOUS
<1>2. [i \in {i \in ids : others[i].asset = s} |-> others[i].qty]
        = [i \in {i \in ids : evs[i].asset = s} |-> evs[i].qty]
  BY <1>1
<1> QED BY <1>2 DEF Recorded

(* A multiple of a whole ratio is divided without a rest.                   *)
LEMMA WholeMultiple ==
  ASSUME NEW x \in Nat, NEW r \in Nat, NEW d \in Nat \ {0}, r % d = 0
  PROVE  (x * r) % d = 0
<1> DEFINE k == r \div d
           m == x * k
<1>1. d * k = r /\ k \in Nat
  BY WholeProduct, Divides
<1> HIDE DEF k
<1>2. x * r = d * m /\ m \in Nat
  BY <1>1
<1> HIDE DEF m
<1>3. (d * m) % d = 0
  BY <1>2
<1> QED BY <1>2, <1>3

-----------------------------------------------------------------------------
(* Some of the rows of a table of lots are a table of lots.                 *)
LEMMA RestrictOK ==
  ASSUME NEW ls, LotsOK(ls), NEW H, H \subseteq DOMAIN ls
  PROVE  /\ LotsOK(Restrict(ls, H)) /\ DOMAIN Restrict(ls, H) = H
         /\ \A n \in H : Restrict(ls, H)[n] = ls[n]
<1>1. IsFiniteSet(H) /\ H \subseteq Nat
  BY FS_Subset DEF LotsOK
<1> QED BY <1>1 DEF LotsOK, Restrict

(* The lots in H and the others hold all the shares between them.           *)
LEMMA LotsParted ==
  ASSUME NEW ls, LotsOK(ls), NEW H \in SUBSET DOMAIN ls, NEW a
  PROVE  OpenShares(ls, a) = OpenShares(Restrict(ls, H), a)
                               + OpenShares(Restrict(ls, DOMAIN ls \ H), a)
<1> DEFINE x == Restrict(ls, H)
           y == Restrict(ls, DOMAIN ls \ H)
<1>1. /\ LotsOK(x) /\ DOMAIN x = H /\ \A n \in H : x[n] = ls[n]
      /\ LotsOK(y) /\ DOMAIN y = DOMAIN ls \ H /\ \A n \in DOMAIN ls \ H : y[n] = ls[n]
  BY RestrictOK
<1> HIDE DEF x, y
<1>2. /\ OpenShares(ls, a) = SumFunctionOnSet(Rem(ls), LotsOf(ls, a))
      /\ OpenShares(x, a) = SumFunctionOnSet(Rem(x), LotsOf(x, a))
      /\ OpenShares(y, a) = SumFunctionOnSet(Rem(y), LotsOf(y, a))
  BY <1>1, OpenSharesOfAll
<1>3. /\ IsFiniteSet(LotsOf(x, a)) /\ IsFiniteSet(LotsOf(y, a))
      /\ \A l \in LotsOf(ls, a) : Rem(ls)[l] \in Int
  BY <1>1, OpenFacts
<1>4. LotsOf(ls, a) = LotsOf(x, a) \union LotsOf(y, a) /\ LotsOf(x, a) \intersect LotsOf(y, a) = {}
  BY <1>1 DEF LotsOf
<1>5. \A l \in LotsOf(x, a) : Rem(ls)[l] = Rem(x)[l]
  BY <1>1 DEF LotsOf, Rem
<1>6. \A l \in LotsOf(y, a) : Rem(ls)[l] = Rem(y)[l]
  BY <1>1 DEF LotsOf, Rem
<1>7. /\ SumFunctionOnSet(Rem(ls), LotsOf(x, a)) = SumFunctionOnSet(Rem(x), LotsOf(x, a))
      /\ SumFunctionOnSet(Rem(ls), LotsOf(y, a)) = SumFunctionOnSet(Rem(y), LotsOf(y, a))
  BY <1>3, <1>5, <1>6, SumSame
<1>8. SumFunctionOnSet(Rem(ls), LotsOf(ls, a))
        = SumFunctionOnSet(Rem(ls), LotsOf(x, a)) + SumFunctionOnSet(Rem(ls), LotsOf(y, a))
  BY <1>3, <1>4, SumUnion
<1> QED BY <1>2, <1>7, <1>8 DEF x, y

(* Lots that are written over others change the shares by what they hold    *)
(* themselves.                                                              *)
LEMMA LotsOverwritten ==
  ASSUME NEW ls, LotsOK(ls), NEW H \in SUBSET DOMAIN ls, NEW ms, LotsOK(ms),
         DOMAIN ms \intersect (DOMAIN ls \ H) = {},
         NEW ns, DOMAIN ns = (DOMAIN ls \ H) \union DOMAIN ms,
         \A n \in DOMAIN ns : ns[n] = IF n \in DOMAIN ms THEN ms[n] ELSE ls[n],
         NEW a
  PROVE  /\ LotsOK(ns)
         /\ OpenShares(ns, a) = OpenShares(ls, a) - OpenShares(Restrict(ls, H), a)
                                  + OpenShares(ms, a)
<1> DEFINE D == DOMAIN ls \ H
           M == DOMAIN ms
           N == DOMAIN ns
<1>1. LotsOK(ns)
  <2>1. IsFiniteSet(N) /\ N \subseteq Nat
    <3>1. /\ IsFiniteSet(DOMAIN ls) /\ DOMAIN ls \subseteq Nat
          /\ IsFiniteSet(M) /\ M \subseteq Nat
      BY DEF LotsOK
    <3>2. IsFiniteSet(D)
      BY <3>1, FS_Subset
    <3>3. N = D \union M
      OBVIOUS
    <3> HIDE DEF D, M, N
    <3>4. IsFiniteSet(N)
      BY <3>1, <3>2, <3>3, FS_Union
    <3>5. D \subseteq Nat
      BY <3>1 DEF D
    <3> QED BY <3>1, <3>3, <3>4, <3>5
  <2>2. ASSUME NEW n \in N PROVE ns[n] \in Lot /\ ns[n].remaining <= ns[n].original
    <3>1. CASE n \in M
      BY <3>1 DEF LotsOK
    <3>2. CASE n \notin M
      BY <3>2 DEF LotsOK
    <3> QED BY <3>1, <3>2
  <2> QED BY <2>1, <2>2 DEF LotsOK
<1>2. OpenShares(ns, a) = OpenShares(Restrict(ns, M), a) + OpenShares(Restrict(ns, N \ M), a)
  BY <1>1, LotsParted
<1>3. OpenShares(ls, a) = OpenShares(Restrict(ls, H), a) + OpenShares(Restrict(ls, D), a)
  BY LotsParted
<1>4. OpenShares(Restrict(ns, M), a) = OpenShares(ms, a)
  <2>1. LotsOK(Restrict(ns, M)) /\ DOMAIN Restrict(ns, M) = M
        /\ \A n \in M : Restrict(ns, M)[n] = ns[n]
    BY <1>1, RestrictOK
  <2>2. \A n \in M : Restrict(ns, M)[n] = ms[n]
    BY <2>1
  <2>3. LotsOf(Restrict(ns, M), a) = LotsOf(ms, a)
    BY <2>1, <2>2 DEF LotsOf
  <2>4. \A l \in LotsOf(ms, a) : Restrict(ns, M)[l].remaining = ms[l].remaining
    BY <2>2 DEF LotsOf
  <2> QED BY <2>1, <2>3, <2>4, SharesSame
<1>5. Restrict(ns, N \ M) = Restrict(ls, D)
  <2>1. N \ M = D
    OBVIOUS
  <2>2. \A n \in D : ns[n] = ls[n]
    OBVIOUS
  <2> HIDE DEF D, N, M
  <2> QED BY <2>1, <2>2 DEF Restrict
<1>6. /\ OpenShares(Restrict(ls, H), a) \in Int /\ OpenShares(Restrict(ls, D), a) \in Int
      /\ OpenShares(ms, a) \in Int
  BY RestrictOK, OpenSharesOfAll
<1> QED BY <1>1, <1>2, <1>3, <1>4, <1>5, <1>6

(* Where there are no lots there are no shares.                             *)
LEMMA NoLotsNoShares ==
  ASSUME NEW ls, DOMAIN ls = {}, NEW a
  PROVE  OpenShares(ls, a) = 0
<1>1. LotsOK(ls) /\ LotsOf(ls, a) = {}
  BY FS_EmptySet DEF LotsOK, LotsOf
<1> QED BY <1>1, OpenSharesOfAll, SumEmpty

(* Leaving out no lot leaves the shares.                                    *)
LEMMA AllLotsLeft ==
  ASSUME NEW ls, LotsOK(ls), NEW a
  PROVE  OpenShares(Restrict(ls, DOMAIN ls \ {}), a) = OpenShares(ls, a)
<1> DEFINE ms == Restrict(ls, DOMAIN ls \ {})
<1>1. LotsOK(ms) /\ DOMAIN ms = DOMAIN ls /\ \A n \in DOMAIN ls : ms[n] = ls[n]
  BY RestrictOK
<1> HIDE DEF ms
<1>2. LotsOf(ms, a) = LotsOf(ls, a) /\ \A l \in LotsOf(ls, a) : ms[l].remaining = ls[l].remaining
  BY <1>1 DEF LotsOf
<1>3. OpenShares(ms, a) = OpenShares(ls, a)
  BY <1>1, <1>2, SharesSame
<1> QED BY <1>3 DEF ms
=============================================================================
