----------------------------- MODULE FiniteSums -----------------------------
(***************************************************************************)
(* Sums over finite sets, SumFunctionOnSet of the community modules: that  *)
(* its recursion has a solution, that any element can be taken out first,  *)
(* and what changes when one value does.  By induction on the cardinality, *)
(* as a least counterexample.                                              *)
(***************************************************************************)
EXTENDS Functions, FiniteSetTheorems, WellFoundedInduction, TLAPS

\* Induction over the naturals, of a set of numbers.
LEMMA AllNaturals ==
    ASSUME NEW P, 0 \in P, \A n \in Nat : n \in P => n + 1 \in P
    PROVE  \A n \in Nat : n \in P
<1> DEFINE T == {n \in Nat : n \notin P}
           R == OpToRel(<, Nat)
<1> SUFFICES ASSUME T # {} PROVE FALSE
  OBVIOUS
<1>1. IsWellFoundedOn(R, Nat)
  BY NatLessThanWellFounded
<1> HIDE DEF R
<1>2. PICK v \in T : \A w \in T : ~(<<w, v>> \in R)
  BY <1>1, WFMin
<1>3. \A w \in T : ~(w < v)
  BY <1>2 DEF R, OpToRel
<1>4. v # 0 /\ v - 1 \in Nat
  OBVIOUS
<1> QED BY <1>3, <1>4

LEMMA OneOut ==
    ASSUME NEW S, IsFiniteSet(S), NEW T \in SUBSET S, NEW x \in T
    PROVE  /\ T \ {x} \in SUBSET S
           /\ Cardinality(T) \in Nat /\ Cardinality(T) > 0
           /\ Cardinality(T \ {x}) = Cardinality(T) - 1
<1>1. IsFiniteSet(T)
  BY FS_Subset
<1>2. Cardinality(T) \in Nat /\ Cardinality(T) # 0
  BY <1>1, FS_CardinalityType, FS_EmptySet
<1>3. Cardinality(T \ {x}) = Cardinality(T) - 1
  BY <1>1, FS_RemoveElement
<1> QED BY <1>2, <1>3

\* Induction over the subsets of a finite set, of a set of subsets: a set follows
\* from what is left when any one element is taken out.
LEMMA AllSubsets ==
    ASSUME NEW S, IsFiniteSet(S), NEW Q, {} \in Q,
           \A T \in SUBSET S : T # {} /\ (\A x \in T : T \ {x} \in Q) => T \in Q
    PROVE  \A T \in SUBSET S : T \in Q
<1> DEFINE P == {n \in Nat : \A T \in SUBSET S : Cardinality(T) = n => T \in Q}
<1>1. \A T \in SUBSET S : Cardinality(T) \in Nat /\ (Cardinality(T) = 0 => T = {})
  BY FS_Subset, FS_CardinalityType, FS_EmptySet
<1>2. 0 \in P
  BY <1>1
<1>3. ASSUME NEW n \in Nat, n \in P PROVE n + 1 \in P
  <2> SUFFICES ASSUME NEW T \in SUBSET S, Cardinality(T) = n + 1 PROVE T \in Q
    OBVIOUS
  <2>1. T # {}
    BY FS_EmptySet
  <2>2. \A x \in T : T \ {x} \in SUBSET S /\ Cardinality(T \ {x}) = n
    BY OneOut
  <2> QED BY <1>3, <2>1, <2>2
<1>4. \A n \in Nat : n \in P
  <2> HIDE DEF P
  <2> QED BY <1>2, <1>3, AllNaturals
<1> QED BY <1>1, <1>4

-----------------------------------------------------------------------------
(* The recursion.                                                          *)

\* The element that is taken out first.
First(T) == CHOOSE y \in T : TRUE

\* h adds up f over T, taking the first element of T from T.
Adds(h, f, T) == h[T] = IF T = {} THEN 0 ELSE f[First(T)] + h[T \ {First(T)}]

\* h does so over every subset of S, and is nothing more.
AddsUp(h, f, S) ==
  h = [T \in SUBSET S |-> IF T = {} THEN 0 ELSE f[First(T)] + h[T \ {First(T)}]]

\* There is a function that adds up f over every subset of S.
LEMMA SumExists ==
    ASSUME NEW f, NEW S, IsFiniteSet(S)
    PROVE  \E h : AddsUp(h, f, S)
<1> DEFINE Upto(n) == {T \in SUBSET S : Cardinality(T) <= n}
           P == {n \in Nat : \E h : \A T \in Upto(n) : Adds(h, f, T)}
<1>1. \A T \in SUBSET S : IsFiniteSet(T) /\ Cardinality(T) \in Nat
  BY FS_Subset, FS_CardinalityType
<1>2. \A T \in SUBSET S : T # {} =>
        /\ T \ {First(T)} \in SUBSET S
        /\ Cardinality(T \ {First(T)}) = Cardinality(T) - 1
  BY OneOut DEF First
<1>3. 0 \in P
  <2> DEFINE h == [T \in SUBSET S |-> 0]
  <2>1. \A T \in Upto(0) : T = {}
    BY <1>1, FS_EmptySet
  <2>2. \A T \in Upto(0) : Adds(h, f, T)
    BY <2>1 DEF Adds
  <2> QED BY <2>2
<1>4. ASSUME NEW n \in Nat, n \in P PROVE n + 1 \in P
  <2>1. PICK h : \A T \in Upto(n) : Adds(h, f, T)
    BY <1>4
  <2> DEFINE g == [T \in SUBSET S |-> IF Cardinality(T) <= n THEN h[T]
                                      ELSE f[First(T)] + h[T \ {First(T)}]]
  <2>2. ASSUME NEW T \in Upto(n + 1) PROVE Adds(g, f, T)
    <3>1. CASE T = {}
      <4>1. T \in Upto(n) /\ Cardinality(T) <= n /\ g[T] = h[T]
        BY <3>1, FS_EmptySet
      <4> QED BY <2>1, <3>1, <4>1 DEF Adds
    <3>2. CASE T # {}
      <4>1. T \ {First(T)} \in Upto(n) /\ g[T \ {First(T)}] = h[T \ {First(T)}]
        BY <1>1, <1>2, <3>2
      <4>2. g[T] = f[First(T)] + h[T \ {First(T)}]
        BY <1>1, <2>1, <3>2 DEF Adds
      <4> QED BY <3>2, <4>1, <4>2 DEF Adds
    <3> QED BY <3>1, <3>2
  <2> HIDE DEF g
  <2>3. \E h1 : \A T \in Upto(n + 1) : Adds(h1, f, T)
    BY <2>2
  <2> QED BY <2>3
<1>5. Cardinality(S) \in Nat /\ Cardinality(S) \in P
  <2> HIDE DEF P
  <2> QED BY <1>1, <1>3, <1>4, AllNaturals
<1>6. PICK h : \A T \in SUBSET S : Adds(h, f, T)
  BY <1>5, FS_Subset
<1> DEFINE g == [T \in SUBSET S |-> h[T]]
<1>7. \A T \in SUBSET S :
        g[T] = IF T = {} THEN 0 ELSE f[First(T)] + g[T \ {First(T)}]
  BY <1>2, <1>6 DEF Adds
<1>8. AddsUp(g, f, S)
  BY <1>7 DEF AddsUp
<1> QED BY <1>8

\* So SumFunctionOnSet adds up: there is a function of the subsets of S that does,
\* and its value at S is the sum.
LEMMA SumAdds ==
    ASSUME NEW f, NEW S, IsFiniteSet(S)
    PROVE  \E h : (\A T \in SUBSET S : Adds(h, f, T)) /\ SumFunctionOnSet(f, S) = h[S]
<1> DEFINE total == CHOOSE h : AddsUp(h, f, S)
<1>1. AddsUp(total, f, S)
  BY SumExists
<1>2. SumFunctionOnSet(f, S) = total[S]
  BY DEF SumFunctionOnSet, FoldFunctionOnSet, MapThenFoldSet, AddsUp, First
<1> HIDE DEF total
<1>3. \A T \in SUBSET S : Adds(total, f, T)
  BY <1>1 DEF Adds, AddsUp
<1> QED BY <1>2, <1>3

\* Whatever adds up numbers over the subsets of S is a number on each.
LEMMA AddsNumbers ==
    ASSUME NEW f, NEW S, IsFiniteSet(S), \A x \in S : f[x] \in Int,
           NEW h, \A T \in SUBSET S : Adds(h, f, T)
    PROVE  \A T \in SUBSET S : h[T] \in Int
<1> DEFINE Q == {T \in SUBSET S : h[T] \in Int}
<1>1. {} \in Q
  BY DEF Adds
<1>2. ASSUME NEW T \in SUBSET S, T # {}, \A x \in T : T \ {x} \in Q PROVE T \in Q
  <2>0. T # {} /\ Adds(h, f, T)
    BY <1>2
  <2> HIDE DEF Q
  <2>1. h[T] = f[First(T)] + h[T \ {First(T)}]
    BY <2>0 DEF Adds
  <2>2. First(T) \in T
    BY <2>0 DEF First
  <2> USE DEF Q
  <2>3. PICK y \in T : h[T] = f[y] + h[T \ {y}]
    BY <2>1, <2>2
  <2>4. f[y] \in Int /\ h[T \ {y}] \in Int
    BY <1>2
  <2> QED BY <2>3, <2>4
<1> HIDE DEF Q
<1>3. \A T \in SUBSET S : T \in Q
  BY <1>1, <1>2, AllSubsets
<1> QED BY <1>3 DEF Q

\* And it takes any element first.
LEMMA AddsInAnyOrder ==
    ASSUME NEW f, NEW S, IsFiniteSet(S), \A x \in S : f[x] \in Int,
           NEW h, \A T \in SUBSET S : Adds(h, f, T)
    PROVE  \A T \in SUBSET S : \A x \in T : h[T] = f[x] + h[T \ {x}]
<1> DEFINE Q == {T \in SUBSET S : \A x \in T : h[T] = f[x] + h[T \ {x}]}
<1>1. {} \in Q
  OBVIOUS
<1>2. ASSUME NEW T \in SUBSET S, T # {}, \A x \in T : T \ {x} \in Q PROVE T \in Q
  <2> SUFFICES ASSUME NEW x \in T PROVE h[T] = f[x] + h[T \ {x}]
    OBVIOUS
  <2>0. T # {} /\ Adds(h, f, T)
    BY <1>2
  <2> HIDE DEF Q
  <2>1. h[T] = f[First(T)] + h[T \ {First(T)}]
    BY <2>0 DEF Adds
  <2>2. First(T) \in T
    BY <2>0 DEF First
  <2> USE DEF Q
  <2>3. PICK y \in T : h[T] = f[y] + h[T \ {y}]
    BY <2>1, <2>2
  <2>4. CASE x = y
    BY <2>3, <2>4
  <2>5. CASE x # y
    <3>1. h[T \ {y}] = f[x] + h[(T \ {y}) \ {x}]
      BY <1>2, <2>5
    <3>2. h[T \ {x}] = f[y] + h[(T \ {x}) \ {y}]
      BY <1>2, <2>5
    <3>3. (T \ {y}) \ {x} = (T \ {x}) \ {y} /\ (T \ {y}) \ {x} \in SUBSET S
      OBVIOUS
    <3>4. h[(T \ {y}) \ {x}] \in Int
      BY <3>3, AddsNumbers
    <3>5. f[x] \in Int /\ f[y] \in Int
      OBVIOUS
    <3> DEFINE rest == h[(T \ {y}) \ {x}]
    <3>6. h[T] = f[y] + (f[x] + rest) /\ h[T \ {x}] = f[y] + rest
      BY <2>3, <3>1, <3>2, <3>3
    <3>7. rest \in Int
      BY <3>4
    <3> HIDE DEF rest, Q
    <3>8. f[y] + (f[x] + rest) = f[x] + (f[y] + rest)
      BY <3>5, <3>7
    <3> QED BY <3>6, <3>8
  <2> QED BY <2>4, <2>5
<1> HIDE DEF Q
<1>3. \A T \in SUBSET S : T \in Q
  BY <1>1, <1>2, AllSubsets
<1> QED BY <1>3 DEF Q

\* Two that add up the same values are the same, so that a part of a sum is a sum.
LEMMA AddsTheSame ==
    ASSUME NEW f, NEW g, NEW S, IsFiniteSet(S), \A x \in S : f[x] = g[x],
           NEW h, \A T \in SUBSET S : Adds(h, f, T),
           NEW k, \A T \in SUBSET S : Adds(k, g, T)
    PROVE  \A T \in SUBSET S : h[T] = k[T]
<1> DEFINE Q == {T \in SUBSET S : h[T] = k[T]}
<1>1. {} \in Q
  BY DEF Adds
<1>2. ASSUME NEW T \in SUBSET S, T # {}, \A x \in T : T \ {x} \in Q PROVE T \in Q
  <2>0. T # {} /\ Adds(h, f, T) /\ Adds(k, g, T)
    BY <1>2
  <2> HIDE DEF Q
  <2>1. h[T] = f[First(T)] + h[T \ {First(T)}] /\ k[T] = g[First(T)] + k[T \ {First(T)}]
    BY <2>0 DEF Adds
  <2>2. First(T) \in T
    BY <2>0 DEF First
  <2> USE DEF Q
  <2> QED BY <1>2, <2>1, <2>2
<1> HIDE DEF Q
<1>3. \A T \in SUBSET S : T \in Q
  BY <1>1, <1>2, AllSubsets
<1> QED BY <1>3 DEF Q

LEMMA AddsOnce ==
    ASSUME NEW f, NEW S, IsFiniteSet(S),
           NEW h, \A T \in SUBSET S : Adds(h, f, T),
           NEW k, \A T \in SUBSET S : Adds(k, f, T)
    PROVE  h[S] = k[S]
<1> DEFINE g == f
<1>1. /\ \A x \in S : f[x] = g[x]
      /\ \A T \in SUBSET S : Adds(k, g, T)
  OBVIOUS
<1> HIDE DEF g
<1>2. \A T \in SUBSET S : h[T] = k[T]
  BY <1>1, AddsTheSame
<1> QED BY <1>2

-----------------------------------------------------------------------------
(* What the proofs about the contracts use.                                *)

LEMMA SumEmpty ==
    ASSUME NEW f
    PROVE  SumFunctionOnSet(f, {}) = 0
<1>1. IsFiniteSet({})
  BY FS_EmptySet
<1> QED BY <1>1, SumAdds DEF Adds

\* A sum of numbers is one, and any of them can be taken out.
LEMMA SumTakeOut ==
    ASSUME NEW f, NEW S, IsFiniteSet(S), \A x \in S : f[x] \in Int
    PROVE  /\ SumFunctionOnSet(f, S) \in Int
           /\ \A x \in S : /\ SumFunctionOnSet(f, S \ {x}) \in Int
                           /\ SumFunctionOnSet(f, S) = f[x] + SumFunctionOnSet(f, S \ {x})
<1>1. PICK h : (\A T \in SUBSET S : Adds(h, f, T)) /\ SumFunctionOnSet(f, S) = h[S]
  BY SumAdds
<1>2. ASSUME NEW x \in S PROVE SumFunctionOnSet(f, S \ {x}) = h[S \ {x}]
  <2>1. IsFiniteSet(S \ {x}) /\ S \ {x} \subseteq S
    BY FS_Subset
  <2>2. PICK k : (\A T \in SUBSET (S \ {x}) : Adds(k, f, T))
                 /\ SumFunctionOnSet(f, S \ {x}) = k[S \ {x}]
    BY <2>1, SumAdds
  <2>3. \A T \in SUBSET (S \ {x}) : Adds(h, f, T)
    BY <1>1
  <2>4. k[S \ {x}] = h[S \ {x}]
    BY <2>1, <2>2, <2>3, AddsOnce
  <2> QED BY <2>2, <2>4
<1>3. \A T \in SUBSET S : h[T] \in Int /\ (\A x \in T : h[T] = f[x] + h[T \ {x}])
  BY <1>1, AddsNumbers, AddsInAnyOrder
<1> QED BY <1>1, <1>2, <1>3

LEMMA SumSame ==
    ASSUME NEW f, NEW g, NEW S, IsFiniteSet(S), \A x \in S : f[x] = g[x]
    PROVE  SumFunctionOnSet(f, S) = SumFunctionOnSet(g, S)
<1>1. PICK h : (\A T \in SUBSET S : Adds(h, f, T)) /\ SumFunctionOnSet(f, S) = h[S]
  BY SumAdds
<1>2. PICK k : (\A T \in SUBSET S : Adds(k, g, T)) /\ SumFunctionOnSet(g, S) = k[S]
  BY SumAdds
<1>3. \A T \in SUBSET S : h[T] = k[T]
  BY <1>1, <1>2, AddsTheSame
<1> QED BY <1>1, <1>2, <1>3

\* One value changed, the sum changes by as much.
LEMMA SumChange ==
    ASSUME NEW f, NEW g, NEW S, IsFiniteSet(S), NEW x \in S,
           \A y \in S : f[y] \in Int, g[x] \in Int,
           \A y \in S : y # x => g[y] = f[y]
    PROVE  SumFunctionOnSet(g, S) = SumFunctionOnSet(f, S) + g[x] - f[x]
<1>1. IsFiniteSet(S \ {x})
  BY FS_Subset
<1>2. SumFunctionOnSet(f, S \ {x}) = SumFunctionOnSet(g, S \ {x})
  BY <1>1, SumSame
<1>3. \A y \in S : g[y] \in Int
  OBVIOUS
<1>4. SumFunctionOnSet(f, S) = f[x] + SumFunctionOnSet(f, S \ {x})
  BY SumTakeOut
<1>5. SumFunctionOnSet(f, S \ {x}) \in Int
  BY SumTakeOut
<1>6. SumFunctionOnSet(g, S) = g[x] + SumFunctionOnSet(g, S \ {x})
  BY <1>3, SumTakeOut
<1> QED BY <1>2, <1>4, <1>5, <1>6

LEMMA SumZero ==
    ASSUME NEW f, NEW S, IsFiniteSet(S), \A x \in S : f[x] = 0
    PROVE  SumFunctionOnSet(f, S) = 0
<1> DEFINE h == [T \in SUBSET S |-> 0]
<1>1. \A T \in SUBSET S : Adds(h, f, T)
  BY DEF Adds, First
<1>2. PICK k : (\A T \in SUBSET S : Adds(k, f, T)) /\ SumFunctionOnSet(f, S) = k[S]
  BY SumAdds
<1> HIDE DEF h
<1>3. h[S] = k[S]
  BY <1>1, <1>2, AddsTheSame
<1> QED BY <1>2, <1>3 DEF h

\* A sum of naturals is none of them less.
LEMMA SumNatural ==
    ASSUME NEW f, NEW S, IsFiniteSet(S), \A x \in S : f[x] \in Nat
    PROVE  SumFunctionOnSet(f, S) \in Nat /\ (\A x \in S : f[x] <= SumFunctionOnSet(f, S))
<1> DEFINE Q == {T \in SUBSET S : SumFunctionOnSet(f, T) \in Nat}
<1>1. {} \in Q
  BY SumEmpty
<1>2. ASSUME NEW T \in SUBSET S, NEW x \in T
      PROVE  SumFunctionOnSet(f, T) = f[x] + SumFunctionOnSet(f, T \ {x})
  <2>1. IsFiniteSet(T) /\ (\A y \in T : f[y] \in Int)
    BY FS_Subset
  <2> QED BY <2>1, SumTakeOut
<1>3. ASSUME NEW T \in SUBSET S, T # {}, \A x \in T : T \ {x} \in Q PROVE T \in Q
  <2>1. PICK y \in T : SumFunctionOnSet(f, T) = f[y] + SumFunctionOnSet(f, T \ {y})
    BY <1>2, <1>3
  <2> QED BY <1>3, <2>1
<1> HIDE DEF Q
<1>4. \A T \in SUBSET S : T \in Q
  BY <1>1, <1>3, AllSubsets
<1>5. \A T \in SUBSET S : SumFunctionOnSet(f, T) \in Nat
  BY <1>4 DEF Q
<1>6. ASSUME NEW x \in S PROVE f[x] <= SumFunctionOnSet(f, S)
  <2>1. SumFunctionOnSet(f, S) = f[x] + SumFunctionOnSet(f, S \ {x})
    BY <1>2
  <2>2. f[x] \in Nat /\ SumFunctionOnSet(f, S \ {x}) \in Nat
    BY <1>5
  <2> QED BY <2>1, <2>2
<1> QED BY <1>5, <1>6
=============================================================================
