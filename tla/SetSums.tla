------------------------------- MODULE SetSums -------------------------------
(***************************************************************************)
(* Sums of weights over finite sets.  The fold of the community modules is *)
(* a recursive function over the subsets of a set; what it returns is      *)
(* proved here from least counterexamples instead of by induction, for the *)
(* theorems about BondBooking and BondTrading.                             *)
(***************************************************************************)
EXTENDS Integers, FiniteSets, FiniteSetTheorems, WellFoundedInduction, TLAPS

LEMMA LeastNatural ==
    ASSUME NEW T, T \subseteq Nat, T # {}
    PROVE  \E n \in T : \A m \in T : n <= m
<1>1. IsWellFoundedOn(OpToRel(<, Nat), Nat)
  BY NatLessThanWellFounded
<1>2. PICK n \in T : \A m \in T : ~(<<m, n>> \in OpToRel(<, Nat))
  BY <1>1, WFMin
<1>3. \A m \in T : ~(m < n)
  BY <1>2 DEF OpToRel
<1> QED
  BY <1>3

\* Among sets of subsets of a finite set, there is always a smallest one.
LEMMA LeastSubset ==
    ASSUME NEW S, IsFiniteSet(S), NEW T, T \subseteq SUBSET S, T # {}
    PROVE  \E s \in T : \A r \in T : r \subseteq s => r = s
<1> DEFINE sizes == {Cardinality(s) : s \in T}
<1>1. \A s \in T : IsFiniteSet(s) /\ Cardinality(s) \in Nat
  BY FS_Subset, FS_CardinalityType
<1>2. sizes \subseteq Nat /\ sizes # {}
  BY <1>1
<1>3. PICK n \in sizes : \A m \in sizes : n <= m
  <2> HIDE DEF sizes
  <2> QED
    BY <1>2, LeastNatural
<1>4. PICK s \in T : n = Cardinality(s)
  BY <1>2
<1>5. ASSUME NEW r \in T, r \subseteq s PROVE r = s
  BY <1>1, <1>3, <1>4, <1>5, FS_Subset
<1> QED
  BY <1>4, <1>5

\* The element a fold takes out of a set next.
Taken(s) == CHOOSE x \in s : TRUE

\* h[s] is the sum of the weights of s, for every subset s of S.
Sums(h, weight, S) ==
    h = [s \in SUBSET S |-> IF s = {} THEN 0 ELSE weight[Taken(s)] + h[s \ {Taken(s)}]]

SumsOf(weight, S) == CHOOSE h : Sums(h, weight, S)

WeightOf(weight, S) == SumsOf(weight, S)[S]

LEMMA TakenIn == ASSUME NEW s, s # {} PROVE Taken(s) \in s
BY DEF Taken

LEMMA SumsAgree ==
    ASSUME NEW weight, NEW S, IsFiniteSet(S), NEW T \in SUBSET S,
           NEW g, Sums(g, weight, S), NEW h, Sums(h, weight, T)
    PROVE  \A s \in SUBSET T : g[s] = h[s]
<1> DEFINE wrong == {s \in SUBSET T : g[s] # h[s]}
<1> SUFFICES ASSUME wrong # {} PROVE FALSE
  OBVIOUS
<1>1. PICK s \in wrong : \A r \in wrong : r \subseteq s => r = s
  <2>1. wrong \subseteq SUBSET S
    OBVIOUS
  <2> HIDE DEF wrong
  <2> QED
    BY <2>1, LeastSubset
<1>2. s # {}
  BY DEF Sums
<1>3. g[s \ {Taken(s)}] = h[s \ {Taken(s)}]
  BY <1>1, <1>2, TakenIn
<1> QED
  BY <1>1, <1>2, <1>3 DEF Sums

LEMMA SumsExist ==
    ASSUME NEW weight, NEW S, IsFiniteSet(S)
    PROVE  Sums(SumsOf(weight, S), weight, S)
<1> DEFINE none == {T \in SUBSET S : ~ \E h : Sums(h, weight, T)}
<1> SUFFICES ASSUME none # {} PROVE FALSE
  <2>1. \E h : Sums(h, weight, S)
    OBVIOUS
  <2> QED
    BY <2>1 DEF SumsOf
<1>1. PICK T \in none : \A r \in none : r \subseteq T => r = T
  <2>1. none \subseteq SUBSET S
    OBVIOUS
  <2> HIDE DEF none
  <2> QED
    BY <2>1, LeastSubset
<1> DEFINE below(s) == IF s = {} THEN 0
                       ELSE weight[Taken(s)] + WeightOf(weight, s \ {Taken(s)})
           h == [s \in SUBSET T |-> below(s)]
<1>2. ASSUME NEW s \in SUBSET T, s # T PROVE Sums(SumsOf(weight, s), weight, s)
  <2>1. \E g : Sums(g, weight, s)
    BY <1>1, <1>2
  <2> QED
    BY <2>1 DEF SumsOf
<1>3. ASSUME NEW s \in SUBSET T, s # T PROVE WeightOf(weight, s) = below(s)
  <2>1. CASE s = {}
    BY <1>2, <1>3, <2>1 DEF Sums, WeightOf
  <2>2. CASE s # {}
    <3> DEFINE r == s \ {Taken(s)}
    <3>1. r \in SUBSET s /\ r # T
      BY <1>3, <2>2, TakenIn
    <3>2. SumsOf(weight, s)[s] = weight[Taken(s)] + SumsOf(weight, s)[r]
      BY <1>2, <1>3, <2>2 DEF Sums
    <3>3. Sums(SumsOf(weight, s), weight, s) /\ Sums(SumsOf(weight, r), weight, r)
          /\ IsFiniteSet(s)
      BY <1>2, <1>3, <3>1, FS_Subset
    <3>4. SumsOf(weight, s)[r] = SumsOf(weight, r)[r]
      <4> HIDE DEF r
      <4> QED
        BY <3>1, <3>3, SumsAgree
    <3> QED
      BY <2>2, <3>2, <3>4 DEF WeightOf
  <2> QED
    BY <2>1, <2>2
<1>4. ASSUME NEW s \in SUBSET T
      PROVE  h[s] = IF s = {} THEN 0 ELSE weight[Taken(s)] + h[s \ {Taken(s)}]
  <2>1. s # {} => s \ {Taken(s)} \in SUBSET T /\ s \ {Taken(s)} # T
    BY TakenIn
  <2>2. s # {} => h[s \ {Taken(s)}] = WeightOf(weight, s \ {Taken(s)})
    BY <1>3, <2>1
  <2>3. h[s] = below(s)
    OBVIOUS
  <2> HIDE DEF h
  <2> QED
    BY <2>2, <2>3
<1>5. Sums(h, weight, T)
  <2>1. h = [s \in SUBSET T |-> h[s]]
    OBVIOUS
  <2> HIDE DEF h
  <2> QED
    BY <1>4, <2>1 DEF Sums
<1> QED
  BY <1>1, <1>5

\* It does not matter which element is taken out of a sum.
LEMMA SumWithout ==
    ASSUME NEW weight, NEW S, IsFiniteSet(S), \A y \in S : weight[y] \in Int, NEW x \in S
    PROVE  /\ SumsOf(weight, S)[S] = weight[x] + SumsOf(weight, S)[S \ {x}]
           /\ SumsOf(weight, S)[S \ {x}] \in Int
<1> DEFINE h == SumsOf(weight, S)
<1>1. /\ h[{}] = 0
      /\ \A s \in SUBSET S : s # {} => h[s] = weight[Taken(s)] + h[s \ {Taken(s)}]
  <2>1. Sums(SumsOf(weight, S), weight, S)
    BY SumsExist
  <2> QED
    BY <2>1 DEF Sums
<1> HIDE DEF h
<1>2. \A s \in SUBSET S : h[s] \in Int
  <2> DEFINE wrong == {s \in SUBSET S : h[s] \notin Int}
  <2> SUFFICES ASSUME wrong # {} PROVE FALSE
    OBVIOUS
  <2>1. PICK s \in wrong : \A r \in wrong : r \subseteq s => r = s
    <3>1. wrong \subseteq SUBSET S
      OBVIOUS
    <3> HIDE DEF wrong
    <3> QED
      BY <3>1, LeastSubset
  <2>2. s # {}
    <3>1. h[s] \notin Int /\ h[{}] \in Int
      BY <1>1, <2>1
    <3> QED
      BY <3>1
  <2>3. Taken(s) \in S /\ h[s \ {Taken(s)}] \in Int
    BY <2>1, <2>2, TakenIn
  <2>4. h[s] = weight[Taken(s)] + h[s \ {Taken(s)}]
    BY <1>1, <2>2
  <2> QED
    BY <2>1, <2>3, <2>4
<1> DEFINE wrong == {s \in SUBSET S : \E y \in s : h[s] # weight[y] + h[s \ {y}]}
<1>3. wrong = {}
  <2> SUFFICES ASSUME wrong # {} PROVE FALSE
    OBVIOUS
  <2>1. PICK s \in wrong : \A r \in wrong : r \subseteq s => r = s
    <3>1. wrong \subseteq SUBSET S
      OBVIOUS
    <3> HIDE DEF wrong
    <3> QED
      BY <3>1, LeastSubset
  <2>2. PICK y \in s : h[s] # weight[y] + h[s \ {y}]
    BY <2>1
  <2> DEFINE z == Taken(s)
             rest == (s \ {y}) \ {z}
  <2>3. z \in s /\ h[s] = weight[z] + h[s \ {z}]
    BY <1>1, <2>2, TakenIn
  <2> HIDE DEF z
  <2>4. y # z
    BY <2>2, <2>3
  <2>5. h[s \ {z}] = weight[y] + h[rest]
    <3>1. s \ {z} \notin wrong /\ (s \ {z}) \ {y} = rest
      BY <2>1, <2>3
    <3> QED
      BY <3>1, <2>1, <2>2, <2>4
  <2>6. h[s \ {y}] = weight[z] + h[rest]
    <3>1. s \ {y} \notin wrong
      BY <2>1, <2>2
    <3> QED
      BY <3>1, <2>1, <2>3, <2>4
  <2>7. y \in S /\ z \in S /\ rest \in SUBSET S
    BY <2>1, <2>2, <2>3
  <2>8. weight[y] \in Int /\ weight[z] \in Int /\ h[rest] \in Int
    BY <1>2, <2>7
  <2> HIDE DEF rest
  <2>9. weight[z] + (weight[y] + h[rest]) = weight[y] + (weight[z] + h[rest])
    BY <2>8
  <2> QED
    BY <2>2, <2>3, <2>5, <2>6, <2>9
<1> QED
  BY <1>2, <1>3 DEF h

\* What the invariants need to know of sums.
LEMMA WeightOfNone == ASSUME NEW weight PROVE WeightOf(weight, {}) = 0
<1>1. Sums(SumsOf(weight, {}), weight, {})
  BY SumsExist, FS_EmptySet
<1> QED
  BY <1>1 DEF Sums, WeightOf

LEMMA WeightWith ==
    ASSUME NEW weight, NEW S, IsFiniteSet(S), NEW x, x \notin S,
           \A y \in S \cup {x} : weight[y] \in Int
    PROVE  /\ WeightOf(weight, S \cup {x}) = WeightOf(weight, S) + weight[x]
           /\ WeightOf(weight, S) \in Int
<1> DEFINE T == S \cup {x}
<1>1. IsFiniteSet(T) /\ T \ {x} = S /\ S \in SUBSET T
  BY FS_AddElement
<1>2. \A y \in T : weight[y] \in Int
  OBVIOUS
<1>3. /\ SumsOf(weight, T)[T] = weight[x] + SumsOf(weight, T)[S]
      /\ SumsOf(weight, T)[S] \in Int
  <2> HIDE DEF T
  <2>1. x \in T
    BY DEF T
  <2> QED
    BY <1>1, <1>2, <2>1, SumWithout
<1>4. SumsOf(weight, T)[S] = SumsOf(weight, S)[S]
  <2>1. Sums(SumsOf(weight, T), weight, T) /\ Sums(SumsOf(weight, S), weight, S)
    BY <1>1, SumsExist
  <2> HIDE DEF T
  <2> QED
    BY <1>1, <2>1, SumsAgree
<1> QED
  BY <1>2, <1>3, <1>4 DEF WeightOf
=============================================================================
