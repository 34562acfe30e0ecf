---------------------------- MODULE DataTheorems ----------------------------
(***************************************************************************)
(* What the proofs need to know of numbers, finite sets and sums. Induction *)
(* over them is stated of sets, not of predicates: every set of numbers    *)
(* that has 0 and with each number the next one has them all.              *)
(***************************************************************************)
EXTENDS Functions, FiniteSetTheorems, TLAPS

(* Induction on the numbers of a set.                                      *)
LEMMA NatSetInduction ==
  ASSUME NEW S, 0 \in S, \A n \in Nat : n \in S => n + 1 \in S
  PROVE  Nat \subseteq S
<1> DEFINE T == Nat \ S
<1> SUFFICES ASSUME T # {} PROVE FALSE
  OBVIOUS
<1>1. PICK n \in T : \A m \in T : <<m, n>> \notin OpToRel(<, Nat)
  <2>1. IsWellFoundedOn(OpToRel(<, Nat), Nat)
    BY NatLessThanWellFounded
  <2> HIDE DEF T
  <2>2. T \subseteq Nat
    BY DEF T
  <2>. QED BY ONLY <2>1, <2>2, WFMin, T # {}
<1>2. \A m \in T : ~(m < n)
  BY <1>1 DEF OpToRel
<1>3. n # 0 /\ n - 1 \in Nat
  OBVIOUS
<1>4. n - 1 \in S
  BY <1>2, <1>3
<1>. QED BY <1>3, <1>4

(* Induction on the subsets of a finite set.                               *)
LEMMA SubsetInduction ==
  ASSUME NEW S, IsFiniteSet(S), NEW P,
         \A T \in SUBSET S : (\A U \in SUBSET T : U # T => U \in P) => T \in P
  PROVE  SUBSET S \subseteq P
<1> DEFINE Bad == (SUBSET S) \ P
<1> SUFFICES ASSUME Bad # {} PROVE FALSE
  OBVIOUS
<1>1. IsWellFoundedOn(StrictSubsetOrdering(S), SUBSET S)
  <2>1. FiniteSubsetsOf(S) = SUBSET S
    BY FS_FiniteSubsetsOfFinite
  <2>2. IsWellFoundedOn(StrictSubsetOrdering(S), FiniteSubsetsOf(S))
    BY FS_StrictSubsetOrderingWellFounded
  <2>. QED BY ONLY <2>1, <2>2
<1>2. PICK T \in Bad : \A U \in Bad : <<U, T>> \notin StrictSubsetOrdering(S)
  <2> HIDE DEF Bad
  <2>2. Bad \subseteq SUBSET S
    BY DEF Bad
  <2>. QED BY ONLY <1>1, <2>2, WFMin, Bad # {}
<1>3. PICK U \in SUBSET T : U # T /\ U \notin P
  OBVIOUS
<1>4. U \in Bad
  BY <1>3
<1>5. <<U, T>> \in StrictSubsetOrdering(S)
  <2>1. U \in SUBSET S /\ T \in SUBSET S /\ U \subseteq T /\ U # T
    BY <1>3
  <2>. HIDE DEF Bad
  <2>. QED BY <2>1 DEF StrictSubsetOrdering
<1>. QED BY <1>2, <1>4, <1>5

(* A finite set of integers has a least and a greatest element.            *)
Extremes(T) ==
  /\ \E x \in T : \A y \in T : x <= y
  /\ \E x \in T : \A y \in T : y <= x

LEMMA ExtremesExist ==
  ASSUME NEW S, S \subseteq Int, IsFiniteSet(S), S # {}
  PROVE  Extremes(S)
<1> DEFINE P == {T \in SUBSET S : T # {} => Extremes(T)}
<1>1. ASSUME NEW T \in SUBSET S, \A U \in SUBSET T : U # T => U \in P
      PROVE  T \in P
  <2>. SUFFICES ASSUME NEW z \in T PROVE Extremes(T)
    OBVIOUS
  <2>1. CASE T \ {z} = {}
    <3>1. z \in Int /\ \A y \in T : y = z
      BY <2>1
    <3>. QED BY <3>1 DEF Extremes
  <2>2. CASE T \ {z} # {}
    <3>0. T \ {z} \in SUBSET T /\ T \ {z} # T
      OBVIOUS
    <3>1. Extremes(T \ {z})
      BY <1>1, <2>2, <3>0
    <3>2. PICK a \in T \ {z} : \A y \in T \ {z} : a <= y
      BY <3>1 DEF Extremes
    <3>3. PICK b \in T \ {z} : \A y \in T \ {z} : y <= b
      BY <3>1 DEF Extremes
    <3>4. a \in Int /\ b \in Int /\ \A y \in T : y \in Int
      OBVIOUS
    <3>5. \E x \in T : \A y \in T : x <= y
      BY <3>2, <3>4
    <3>6. \E x \in T : \A y \in T : y <= x
      BY <3>3, <3>4
    <3>. QED BY <3>5, <3>6 DEF Extremes
  <2>. QED BY <2>1, <2>2
<1> HIDE DEF P
<1>2. SUBSET S \subseteq P
  BY <1>1, SubsetInduction
<1>. QED BY <1>2 DEF P

(* The range of a function on a finite set is finite.                      *)
LEMMA RangeFinite ==
  ASSUME NEW S, IsFiniteSet(S), NEW f, DOMAIN f = S, f = [x \in S |-> f[x]]
  PROVE  IsFiniteSet(Range(f))
<1>1. f \in Surjection(S, Range(f))
  BY DEF Surjection, Range
<1>. QED BY <1>1, FS_Surjection DEF ExistsSurjection

(***************************************************************************)
(* Sums                                                                    *)
(***************************************************************************)
Chosen(s) == CHOOSE x \in s : TRUE

SumsOf(f, S, g) ==
  g = [s \in SUBSET S |-> IF s = {} THEN 0 ELSE f[Chosen(s)] + g[s \ {Chosen(s)}]]

LEMMA SumIsChosen ==
  ASSUME NEW f, NEW S
  PROVE  SumFunctionOnSet(f, S) = (CHOOSE g : SumsOf(f, S, g))[S]
BY DEF SumFunctionOnSet, FoldFunctionOnSet, MapThenFoldSet, SumsOf, Chosen

LEMMA SumsAgree ==
  ASSUME NEW f, NEW S, NEW g, SumsOf(f, S, g),
         NEW T \in SUBSET S, NEW h, SumsOf(f, T, h), IsFiniteSet(T)
  PROVE  \A U \in SUBSET T : g[U] = h[U]
<1> DEFINE P == {U \in SUBSET T : g[U] = h[U]}
<1>1. ASSUME NEW U \in SUBSET T, \A V \in SUBSET U : V # U => V \in P
      PROVE  U \in P
  <2>1. g[U] = IF U = {} THEN 0 ELSE f[Chosen(U)] + g[U \ {Chosen(U)}]
    BY DEF SumsOf
  <2>2. h[U] = IF U = {} THEN 0 ELSE f[Chosen(U)] + h[U \ {Chosen(U)}]
    BY DEF SumsOf
  <2>3. U # {} => Chosen(U) \in U
    BY DEF Chosen
  <2>. QED BY <1>1, <2>1, <2>2, <2>3
<1> HIDE DEF P
<1>2. SUBSET T \subseteq P
  BY <1>1, SubsetInduction
<1>. QED BY <1>2 DEF P

LEMMA SumsExist ==
  ASSUME NEW f, NEW S, IsFiniteSet(S)
  PROVE  \E g : SumsOf(f, S, g)
<1> DEFINE P == {T \in SUBSET S : \E g : SumsOf(f, T, g)}
           V(s) == (CHOOSE g : SumsOf(f, s, g))[s]
<1>1. ASSUME NEW T \in SUBSET S, \A U \in SUBSET T : U # T => U \in P
      PROVE  T \in P
  <2> DEFINE W(s) == IF s = {} THEN 0 ELSE f[Chosen(s)] + V(s \ {Chosen(s)})
             g == [s \in SUBSET T |-> W(s)]
  <2>1. ASSUME NEW s \in SUBSET T, s # T
        PROVE  V(s) = W(s)
    <3>1. PICK h : h = CHOOSE k : SumsOf(f, s, k)
      OBVIOUS
    <3>2. SumsOf(f, s, h)
      BY <1>1, <2>1, <3>1
    <3>3. V(s) = IF s = {} THEN 0 ELSE f[Chosen(s)] + h[s \ {Chosen(s)}]
      BY <3>1, <3>2 DEF SumsOf
    <3>4. ASSUME s # {}
          PROVE  h[s \ {Chosen(s)}] = V(s \ {Chosen(s)})
      <4> DEFINE u == s \ {Chosen(s)}
      <4>1. u \in SUBSET T /\ u # T /\ u \in SUBSET s
        BY <3>4 DEF Chosen
      <4>2. PICK k : k = CHOOSE l : SumsOf(f, u, l)
        OBVIOUS
      <4>3. SumsOf(f, u, k)
        BY <1>1, <4>1, <4>2
      <4>4. IsFiniteSet(u)
        BY <4>1, FS_Subset
      <4> HIDE DEF u
      <4>5. h[u] = k[u]
        BY <3>2, <4>1, <4>3, <4>4, SumsAgree
      <4>. QED BY <4>2, <4>5 DEF u
    <3>. QED BY <3>3, <3>4
  <2>2. ASSUME NEW s \in SUBSET T, s # {}
        PROVE  g[s] = f[Chosen(s)] + g[s \ {Chosen(s)}]
    <3>1. s \ {Chosen(s)} \in SUBSET T /\ s \ {Chosen(s)} # T
      BY <2>2 DEF Chosen
    <3>2. g[s \ {Chosen(s)}] = V(s \ {Chosen(s)})
      BY <2>1, <3>1
    <3>. QED BY <2>2, <3>2
  <2>3. SumsOf(f, T, g)
    <3>1. ASSUME NEW s \in SUBSET T
          PROVE  g[s] = IF s = {} THEN 0 ELSE f[Chosen(s)] + g[s \ {Chosen(s)}]
      <4>1. CASE s = {}
        BY <4>1
      <4>2. CASE s # {}
        <5> HIDE DEF g
        <5>. QED BY <2>2, <4>2
      <4>. QED BY <4>1, <4>2
    <3>2. g = [s \in SUBSET T |-> g[s]]
      OBVIOUS
    <3> HIDE DEF g
    <3>. QED BY <3>1, <3>2 DEF SumsOf
  <2>. QED BY <2>3
<1> HIDE DEF P
<1>2. SUBSET S \subseteq P
  BY <1>1, SubsetInduction
<1>. QED BY <1>2 DEF P

(* The sum over a set is taken one element at a time.                      *)
LEMMA SumUnfold ==
  ASSUME NEW f, NEW S, IsFiniteSet(S)
  PROVE  SumFunctionOnSet(f, S) =
           IF S = {} THEN 0 ELSE f[Chosen(S)] + SumFunctionOnSet(f, S \ {Chosen(S)})
<1> DEFINE U == S \ {Chosen(S)}
<1>1. PICK g : SumsOf(f, S, g) /\ SumFunctionOnSet(f, S) = g[S]
  BY SumIsChosen, SumsExist
<1>2. IsFiniteSet(U)
  BY FS_Subset
<1>3. PICK h : SumsOf(f, U, h) /\ SumFunctionOnSet(f, U) = h[U]
  <2> HIDE DEF U
  <2>. QED BY <1>2, SumIsChosen, SumsExist
<1>4. g[U] = h[U]
  BY <1>1, <1>2, <1>3, SumsAgree
<1>5. g[S] = IF S = {} THEN 0 ELSE f[Chosen(S)] + g[U]
  BY <1>1 DEF SumsOf
<1>. QED BY <1>1, <1>3, <1>4, <1>5

LEMMA SumTypeAndSplit ==
  ASSUME NEW S, IsFiniteSet(S), NEW f, \A x \in S : f[x] \in Int
  PROVE  \A T \in SUBSET S :
           /\ SumFunctionOnSet(f, T) \in Int
           /\ \A x \in T : SumFunctionOnSet(f, T) = f[x] + SumFunctionOnSet(f, T \ {x})
<1> DEFINE Sm(T) == SumFunctionOnSet(f, T)
           P == {T \in SUBSET S : /\ Sm(T) \in Int
                                  /\ \A x \in T : Sm(T) = f[x] + Sm(T \ {x})}
<1>0. \A T \in SUBSET S : Sm(T) = IF T = {} THEN 0 ELSE f[Chosen(T)] + Sm(T \ {Chosen(T)})
  BY SumUnfold, FS_Subset
<1> HIDE DEF Sm
<1>1. ASSUME NEW T \in SUBSET S, \A U \in SUBSET T : U # T => U \in P
      PROVE  T \in P
  <2>1. CASE T = {}
    <3>1. Sm(T) = 0
      BY <2>1, <1>0
    <3>. QED BY <2>1, <3>1 DEF P
  <2>2. CASE T # {}
    <3> DEFINE y == Chosen(T)
    <3>1. y \in T
      BY <2>2 DEF Chosen
    <3> HIDE DEF y
    <3>2. Sm(T) = f[y] + Sm(T \ {y})
      BY <1>0, <2>2 DEF y
    <3>3. T \ {y} \in P
      BY <1>1, <3>1
    <3>4. Sm(T) \in Int
      BY <3>1, <3>2, <3>3
    <3>5. ASSUME NEW x \in T, x # y
          PROVE  Sm(T) = f[x] + Sm(T \ {x})
      <4>1. Sm(T \ {y}) = f[x] + Sm((T \ {y}) \ {x})
        BY <3>3, <3>5
      <4>2. T \ {x} \in P
        BY <1>1
      <4>3. Sm(T \ {x}) = f[y] + Sm((T \ {x}) \ {y})
        BY <4>2, <3>1, <3>5
      <4>4. (T \ {x}) \ {y} = (T \ {y}) \ {x}
        OBVIOUS
      <4>5. (T \ {y}) \ {x} \in P
        BY <1>1, <3>1
      <4>6. Sm((T \ {y}) \ {x}) \in Int /\ f[x] \in Int /\ f[y] \in Int
        BY <4>5, <3>1
      <4>7. Sm(T \ {x}) = f[y] + Sm((T \ {y}) \ {x})
        BY ONLY <4>3, <4>4
      <4>. QED BY ONLY <3>2, <4>1, <4>6, <4>7
    <3>. QED BY <3>2, <3>4, <3>5
  <2>. QED BY <2>1, <2>2
<1> HIDE DEF P
<1>2. SUBSET S \subseteq P
  BY <1>1, SubsetInduction
<1>. QED BY <1>2 DEF P, Sm

(* A sum depends on the values in the set only.                            *)
LEMMA SumSame ==
  ASSUME NEW S, IsFiniteSet(S), NEW f, NEW g, \A x \in S : f[x] = g[x] /\ f[x] \in Int
  PROVE  SumFunctionOnSet(f, S) = SumFunctionOnSet(g, S)
<1> DEFINE P == {T \in SUBSET S : SumFunctionOnSet(f, T) = SumFunctionOnSet(g, T)}
<1>1. ASSUME NEW T \in SUBSET S, \A U \in SUBSET T : U # T => U \in P
      PROVE  T \in P
  <2>1. IsFiniteSet(T)
    BY FS_Subset
  <2>2. T # {} => T \ {Chosen(T)} \in P /\ Chosen(T) \in S
    BY <1>1 DEF Chosen
  <2>3. SumFunctionOnSet(f, T) =
           IF T = {} THEN 0 ELSE f[Chosen(T)] + SumFunctionOnSet(f, T \ {Chosen(T)})
    BY <2>1, SumUnfold
  <2>4. SumFunctionOnSet(g, T) =
           IF T = {} THEN 0 ELSE g[Chosen(T)] + SumFunctionOnSet(g, T \ {Chosen(T)})
    BY <2>1, SumUnfold
  <2>. QED BY <2>2, <2>3, <2>4
<1> HIDE DEF P
<1>2. SUBSET S \subseteq P
  BY <1>1, SubsetInduction
<1>. QED BY <1>2 DEF P

(* The sum of an integer function is an integer, and a new value at one    *)
(* argument changes it by the difference.                                  *)
LEMMA SumType ==
  ASSUME NEW S, IsFiniteSet(S), NEW f \in [S -> Int]
  PROVE  SumFunction(f) \in Int
BY SumTypeAndSplit DEF SumFunction

LEMMA SumExcept ==
  ASSUME NEW S, IsFiniteSet(S), NEW f \in [S -> Int], NEW x \in S, NEW v \in Int
  PROVE  SumFunction([f EXCEPT ![x] = v]) = SumFunction(f) - f[x] + v
<1> DEFINE g == [f EXCEPT ![x] = v]
           U == S \ {x}
<1>1. g \in [S -> Int] /\ g[x] = v
  OBVIOUS
<1>2. SumFunctionOnSet(f, S) = f[x] + SumFunctionOnSet(f, U) /\ SumFunctionOnSet(f, U) \in Int
  BY SumTypeAndSplit
<1>3. SumFunctionOnSet(g, S) = v + SumFunctionOnSet(g, U)
  <2> HIDE DEF g
  <2>. QED BY <1>1, SumTypeAndSplit
<1>4. SumFunctionOnSet(g, U) = SumFunctionOnSet(f, U)
  <2>1. IsFiniteSet(U) /\ \A y \in U : g[y] = f[y] /\ g[y] \in Int
    BY FS_Subset
  <2> HIDE DEF g, U
  <2>. QED BY <2>1, SumSame
<1>5. SumFunction(g) = SumFunctionOnSet(g, S) /\ SumFunction(f) = SumFunctionOnSet(f, S)
  BY <1>1 DEF SumFunction
<1> HIDE DEF g
<1>. QED BY <1>2, <1>3, <1>4, <1>5 DEF g

LEMMA SumAdd ==
  ASSUME NEW S, IsFiniteSet(S), NEW f \in [S -> Int], NEW g \in [S -> Int],
         NEW x \in S, NEW d \in Int, g[x] = f[x] + d,
         \A y \in S \ {x} : g[y] = f[y]
  PROVE  SumFunction(g) = SumFunction(f) + d
<1>1. g = [f EXCEPT ![x] = g[x]]
  OBVIOUS
<1>2. SumFunction(g) = SumFunction(f) - f[x] + g[x]
  BY ONLY <1>1, SumExcept, IsFiniteSet(S), f \in [S -> Int], x \in S, g[x] \in Int
<1>3. SumFunction(f) \in Int /\ f[x] \in Int
  BY SumType
<1>. QED BY <1>2, <1>3

LEMMA SumZero ==
  ASSUME NEW S, IsFiniteSet(S)
  PROVE  SumFunction([x \in S |-> 0]) = 0
<1> DEFINE f == [x \in S |-> 0]
           P == {T \in SUBSET S : SumFunctionOnSet(f, T) = 0}
<1>1. ASSUME NEW T \in SUBSET S, \A U \in SUBSET T : U # T => U \in P
      PROVE  T \in P
  <2>1. IsFiniteSet(T)
    BY FS_Subset
  <2>2. T # {} => T \ {Chosen(T)} \in P /\ f[Chosen(T)] = 0
    BY <1>1 DEF Chosen
  <2> HIDE DEF f
  <2>3. SumFunctionOnSet(f, T) =
           IF T = {} THEN 0 ELSE f[Chosen(T)] + SumFunctionOnSet(f, T \ {Chosen(T)})
    BY <2>1, SumUnfold
  <2>. QED BY <2>2, <2>3
<1> HIDE DEF P
<1>2. SUBSET S \subseteq P
  BY <1>1, SubsetInduction
<1>3. SumFunctionOnSet(f, S) = 0
  BY <1>2 DEF P
<1>. QED BY <1>3 DEF SumFunction

=============================================================================
