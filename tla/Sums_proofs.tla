----------------------------- MODULE Sums_proofs -----------------------------
(***************************************************************************)
(* What SumOver returns, for any function of natural numbers on a finite   *)
(* set: nothing over the empty set, and with every element more its value  *)
(* more, whichever element the fold takes first.  There is no induction    *)
(* over sets to cite here; each lemma takes a smallest counterexample.     *)
(***************************************************************************)
EXTENDS Sums, FiniteSetTheorems, TLAPS

(* A collection of subsets of a finite set has a smallest one in it.       *)
LEMMA Smallest ==
    ASSUME NEW A, IsFiniteSet(A), NEW C \in SUBSET SUBSET A, C # {}
    PROVE  \E T \in C : \A U \in C : U \subseteq T => U = T
<1>. DEFINE R == StrictSubsetOrdering(A)
<1>1. IsWellFoundedOn(R, SUBSET A)
  BY FS_StrictSubsetOrderingWellFounded, FS_FiniteSubsetsOfFinite
<1>. HIDE DEF R
<1>2. PICK T \in C : \A U \in C : ~(<<U, T>> \in R)
  BY <1>1, WFMin
<1>3. ASSUME NEW U \in C, U \subseteq T, U # T
      PROVE  FALSE
  <2>1. U \in SUBSET A /\ T \in SUBSET A
    OBVIOUS
  <2>2. <<U, T>> \in R
    BY <1>3, <2>1 DEF R, StrictSubsetOrdering
  <2>. QED BY <1>2, <2>2
<1>. QED BY <1>3

(* The table of partial sums that the fold fills.                          *)
Summed(f, S, g) ==
    g = [T \in SUBSET S |-> IF T = {} THEN 0
                            ELSE f[AnyOf(T)] + g[T \ {AnyOf(T)}]]

LEMMA SumIsChosen ==
    ASSUME NEW f, NEW S
    PROVE  SumOver(f, S) = (CHOOSE g : Summed(f, S, g))[S]
  BY DEF SumOver, MapThenFoldSet, Summed

LEMMA AnyIsIn ==
    ASSUME NEW S, S # {}
    PROVE  AnyOf(S) \in S
  BY DEF AnyOf

LEMMA SummedAt ==
    ASSUME NEW f, NEW S, NEW g, Summed(f, S, g), NEW T \in SUBSET S
    PROVE  /\ T = {} => g[T] = 0
           /\ T # {} => g[T] = f[AnyOf(T)] + g[T \ {AnyOf(T)}]
<1>1. g[T] = IF T = {} THEN 0 ELSE f[AnyOf(T)] + g[T \ {AnyOf(T)}]
  BY DEF Summed
<1>. QED BY <1>1

(* Two tables agree where both are defined, and so do tables of functions  *)
(* that agree.                                                             *)
LEMMA TablesAgree ==
    ASSUME NEW S, IsFiniteSet(S), NEW f, NEW g, NEW SS, NEW h, NEW k,
           S \subseteq SS, Summed(f, SS, h), Summed(g, S, k),
           \A x \in S : f[x] = g[x]
    PROVE  \A T \in SUBSET S : h[T] = k[T]
<1>. DEFINE C == {T \in SUBSET S : h[T] # k[T]}
<1>1. SUFFICES ASSUME C # {} PROVE FALSE
  OBVIOUS
<1>2. PICK T \in C : \A U \in C : U \subseteq T => U = T
  <2>1. C \in SUBSET SUBSET S
    OBVIOUS
  <2>. HIDE DEF C
  <2>. QED BY <1>1, <2>1, Smallest
<1>3. T \in SUBSET S /\ T \in SUBSET SS /\ h[T] # k[T]
  OBVIOUS
<1>4. T # {}
  <2>1. T = {} => h[T] = 0
    BY <1>3, SummedAt
  <2>2. T = {} => k[T] = 0
    BY <1>3, SummedAt
  <2>. QED BY <1>3, <2>1, <2>2
<1>5. AnyOf(T) \in T
  BY <1>4, AnyIsIn
<1>. DEFINE U == T \ {AnyOf(T)}
<1>6. U \subseteq T /\ U # T /\ U \in SUBSET S
  BY <1>3, <1>5
<1>7. h[U] = k[U]
  BY <1>2, <1>6
<1>8. h[T] = f[AnyOf(T)] + h[U] /\ k[T] = g[AnyOf(T)] + k[U]
  BY <1>3, <1>4, SummedAt
<1>9. f[AnyOf(T)] = g[AnyOf(T)]
  BY <1>3, <1>5
<1>. QED BY <1>3, <1>7, <1>8, <1>9

(* There is such a table.                                                  *)
LEMMA TableExists ==
    ASSUME NEW A, IsFiniteSet(A), NEW f
    PROVE  \A S \in SUBSET A : \E g : Summed(f, S, g)
<1>. DEFINE C == {S \in SUBSET A : ~ \E g : Summed(f, S, g)}
<1>1. SUFFICES ASSUME C # {} PROVE FALSE
  OBVIOUS
<1>2. PICK S \in C : \A U \in C : U \subseteq S => U = S
  <2>1. C \in SUBSET SUBSET A
    OBVIOUS
  <2>. HIDE DEF C
  <2>. QED BY <1>1, <2>1, Smallest
<1>3. S \in SUBSET A /\ ~ \E g : Summed(f, S, g)
  OBVIOUS
<1>4. ASSUME NEW U \in SUBSET S, U # S
      PROVE  \E g : Summed(f, U, g)
  BY <1>2, <1>3, <1>4
<1>. DEFINE table(U) == CHOOSE g : Summed(f, U, g)
            value(U) == IF U = {} THEN 0 ELSE f[AnyOf(U)] + table(U \ {AnyOf(U)})[U \ {AnyOf(U)}]
            g == [U \in SUBSET S |-> value(U)]
<1>. HIDE DEF C
<1>5. ASSUME NEW U \in SUBSET S, U # S
      PROVE  Summed(f, U, table(U))
  BY <1>4, <1>5
<1>6. ASSUME NEW U \in SUBSET S, U # S
      PROVE  g[U] = table(U)[U]
  <2>. HIDE DEF table
  <2>1. IsFiniteSet(U) /\ Summed(f, U, table(U)) /\ U \in SUBSET U
    BY <1>3, <1>5, <1>6, FS_Subset
  <2>2. CASE U = {}
    BY <2>1, <2>2, SummedAt
  <2>3. CASE U # {}
    <3>. DEFINE V == U \ {AnyOf(U)}
    <3>1. V \in SUBSET S /\ V # S /\ V \subseteq U /\ V \in SUBSET V /\ IsFiniteSet(V)
      BY <2>1, <1>6, FS_Subset
    <3>2. Summed(f, V, table(V))
      BY <1>5, <3>1
    <3>3. table(U)[V] = table(V)[V]
      BY <2>1, <3>1, <3>2, TablesAgree
    <3>4. table(U)[U] = f[AnyOf(U)] + table(U)[V]
      BY <2>1, <2>3, SummedAt
    <3>. QED BY <2>3, <3>3, <3>4
  <2>. QED BY <2>2, <2>3
<1>7. Summed(f, S, g)
  <2>1. ASSUME NEW U \in SUBSET S
        PROVE  g[U] = IF U = {} THEN 0 ELSE f[AnyOf(U)] + g[U \ {AnyOf(U)}]
    <3>1. CASE U # {}
      <4>. DEFINE V == U \ {AnyOf(U)}
      <4>1. V \in SUBSET S /\ V # S
        BY <3>1, AnyIsIn
      <4>2. g[V] = table(V)[V]
        BY <1>6, <4>1
      <4>. HIDE DEF table
      <4>. QED BY <3>1, <4>2
    <3>. QED BY <3>1
  <2>. HIDE DEF value
  <2>2. g = [U \in SUBSET S |-> g[U]]
    OBVIOUS
  <2>. HIDE DEF g
  <2>. QED BY <2>1, <2>2 DEF Summed
<1>. QED BY <1>3, <1>7

(* So a sum is what every table holds,                                     *)
LEMMA SumIsTabled ==
    ASSUME NEW S, IsFiniteSet(S), NEW SS, S \subseteq SS, NEW f, NEW h, Summed(f, SS, h)
    PROVE  SumOver(f, S) = h[S]
<1>1. S \in SUBSET S
  OBVIOUS
<1>2. \E g : Summed(f, S, g)
  BY <1>1, TableExists
<1>. DEFINE k == CHOOSE g : Summed(f, S, g)
<1>3. Summed(f, S, k)
  BY <1>2
<1>4. SumOver(f, S) = k[S]
  BY SumIsChosen
<1>. HIDE DEF k
<1>5. \A T \in SUBSET S : h[T] = k[T]
  BY <1>3, TablesAgree
<1>. QED BY <1>1, <1>4, <1>5

(* and unfolds as the fold does.                                           *)
LEMMA SumUnfolds ==
    ASSUME NEW S, IsFiniteSet(S), NEW f
    PROVE  /\ S = {} => SumOver(f, S) = 0
           /\ S # {} => SumOver(f, S) = f[AnyOf(S)] + SumOver(f, S \ {AnyOf(S)})
<1>. DEFINE U == S \ {AnyOf(S)}
<1>1. PICK h : Summed(f, S, h)
  <2>1. S \in SUBSET S
    OBVIOUS
  <2>. QED BY <2>1, TableExists
<1>2. IsFiniteSet(U) /\ U \subseteq S
  BY FS_Subset
<1>3. SumOver(f, S) = h[S]
  BY <1>1, SumIsTabled
<1>4. SumOver(f, U) = h[U]
  BY <1>1, <1>2, SumIsTabled
<1>5. /\ S = {} => h[S] = 0
      /\ S # {} => h[S] = f[AnyOf(S)] + h[U]
  BY <1>1, SummedAt
<1>. QED BY <1>3, <1>4, <1>5

(* Functions that agree on the set have one sum over it.                   *)
THEOREM SumsAgree ==
    ASSUME NEW S, IsFiniteSet(S), NEW f, NEW g, \A x \in S : f[x] = g[x]
    PROVE  SumOver(f, S) = SumOver(g, S)
<1>1. S \in SUBSET S
  OBVIOUS
<1>2. PICK h : Summed(f, S, h)
  BY <1>1, TableExists
<1>3. PICK k : Summed(g, S, k)
  BY <1>1, TableExists
<1>4. h[S] = k[S]
  BY <1>1, <1>2, <1>3, TablesAgree
<1>5. SumOver(f, S) = h[S]
  BY <1>2, SumIsTabled
<1>6. SumOver(g, S) = k[S]
  BY <1>3, SumIsTabled
<1>. QED BY <1>4, <1>5, <1>6

(* A sum of natural numbers is one.                                        *)
THEOREM SumIsNatural ==
    ASSUME NEW A, IsFiniteSet(A), NEW f, \A x \in A : f[x] \in Nat
    PROVE  SumOver(f, A) \in Nat
<1>. DEFINE C == {S \in SUBSET A : SumOver(f, S) \notin Nat}
<1>1. SUFFICES ASSUME C # {} PROVE FALSE
  OBVIOUS
<1>2. PICK S \in C : \A U \in C : U \subseteq S => U = S
  <2>1. C \in SUBSET SUBSET A
    OBVIOUS
  <2>. HIDE DEF C
  <2>. QED BY <1>1, <2>1, Smallest
<1>. DEFINE U == S \ {AnyOf(S)}
<1>3. S \in SUBSET A /\ IsFiniteSet(S)
  BY FS_Subset
<1>4. S # {}
  BY <1>3, SumUnfolds
<1>5. AnyOf(S) \in S
  BY <1>4, AnyIsIn
<1>6. SumOver(f, U) \in Nat
  <2>1. U \in SUBSET A /\ U \subseteq S /\ U # S
    BY <1>3, <1>5
  <2>. QED BY <1>2, <2>1
<1>7. SumOver(f, S) = f[AnyOf(S)] + SumOver(f, U)
  BY <1>3, <1>4, SumUnfolds
<1>8. f[AnyOf(S)] \in Nat
  BY <1>3, <1>5
<1>. HIDE DEF U
<1>9. SumOver(f, S) \in Nat
  BY <1>6, <1>7, <1>8
<1>. QED BY <1>9

(* Any element may be taken out of the sum first.                          *)
THEOREM SumSplits ==
    ASSUME NEW A, IsFiniteSet(A), NEW f, \A x \in A : f[x] \in Nat, NEW x \in A
    PROVE  SumOver(f, A) = f[x] + SumOver(f, A \ {x})
<1>. DEFINE Splits(S) == \A y \in S : SumOver(f, S) = f[y] + SumOver(f, S \ {y})
            C == {S \in SUBSET A : ~Splits(S)}
<1>1. SUFFICES ASSUME C # {} PROVE FALSE
  <2>1. A \in SUBSET A
    OBVIOUS
  <2>. QED BY <2>1
<1>2. PICK S \in C : \A U \in C : U \subseteq S => U = S
  <2>1. C \in SUBSET SUBSET A
    OBVIOUS
  <2>. HIDE DEF C
  <2>. QED BY <1>1, <2>1, Smallest
<1>3. /\ S \in SUBSET A /\ IsFiniteSet(S)
      /\ \A U \in SUBSET S : U # S => Splits(U)
  <2>1. IsFiniteSet(S)
    BY FS_Subset
  <2>. HIDE DEF Splits
  <2>. QED BY <1>2, <2>1
<1>4. PICK y \in S : SumOver(f, S) # f[y] + SumOver(f, S \ {y})
  OBVIOUS
<1>. DEFINE z == AnyOf(S)
            rest == S \ {y, z}
<1>5. z \in S
  BY <1>4, AnyIsIn
<1>6. SumOver(f, S) = f[z] + SumOver(f, S \ {z})
  BY <1>3, <1>4, SumUnfolds
<1>7. y # z
  BY <1>4, <1>6
<1>. HIDE DEF z
<1>8. SumOver(f, S \ {z}) = f[y] + SumOver(f, rest)
  <2>1. Splits(S \ {z}) /\ y \in S \ {z} /\ (S \ {z}) \ {y} = rest
    BY <1>3, <1>4, <1>5, <1>7
  <2>. QED BY <2>1
<1>9. SumOver(f, S \ {y}) = f[z] + SumOver(f, rest)
  <2>1. Splits(S \ {y}) /\ z \in S \ {y} /\ (S \ {y}) \ {z} = rest
    BY <1>3, <1>4, <1>5, <1>7
  <2>. QED BY <2>1
<1>10. f[y] \in Nat /\ f[z] \in Nat /\ SumOver(f, rest) \in Nat
  <2>1. y \in A /\ z \in A /\ \A v \in rest : f[v] \in Nat
    BY <1>3, <1>5
  <2>2. IsFiniteSet(rest)
    BY <1>3, FS_Subset
  <2>. QED BY <2>1, <2>2, SumIsNatural
<1>. HIDE DEF rest
<1>. QED BY <1>4, <1>6, <1>8, <1>9, <1>10

(* One element more.                                                       *)
THEOREM SumGrows ==
    ASSUME NEW S, IsFiniteSet(S), NEW f, NEW x, x \notin S,
           \A y \in S \cup {x} : f[y] \in Nat
    PROVE  SumOver(f, S \cup {x}) = SumOver(f, S) + f[x]
<1>1. IsFiniteSet(S \cup {x}) /\ (S \cup {x}) \ {x} = S /\ x \in S \cup {x}
  BY FS_AddElement
<1>2. SumOver(f, S \cup {x}) = f[x] + SumOver(f, S)
  BY <1>1, SumSplits
<1>3. SumOver(f, S) \in Nat /\ f[x] \in Nat
  BY SumIsNatural
<1>. QED BY <1>2, <1>3

(* Nothing adds up to nothing.                                             *)
THEOREM SumOfNone == \A f : SumOver(f, {}) = 0
  BY SumUnfolds, FS_EmptySet

(* The same when the function is another one on the smaller set,           *)
THEOREM SumWithout ==
    ASSUME NEW S, IsFiniteSet(S), NEW x \in S, NEW f, NEW g,
           \A y \in S : f[y] \in Nat, \A y \in S \ {x} : g[y] = f[y]
    PROVE  /\ SumOver(g, S \ {x}) = SumOver(f, S) - f[x]
           /\ f[x] <= SumOver(f, S)
<1>1. IsFiniteSet(S \ {x})
  BY FS_Subset
<1>2. SumOver(f, S) = f[x] + SumOver(f, S \ {x})
  BY SumSplits
<1>3. SumOver(f, S \ {x}) \in Nat
  <2>1. \A y \in S \ {x} : f[y] \in Nat
    OBVIOUS
  <2>. QED BY <1>1, <2>1, SumIsNatural
<1>4. SumOver(g, S \ {x}) = SumOver(f, S \ {x})
  <2>1. \A y \in S \ {x} : g[y] = f[y]
    OBVIOUS
  <2>. QED BY <1>1, <2>1, SumsAgree
<1>5. f[x] \in Nat
  OBVIOUS
<1>. QED BY <1>2, <1>3, <1>4, <1>5

(* or, to say what the larger one adds up to, on that one.                 *)
THEOREM SumWith ==
    ASSUME NEW S, IsFiniteSet(S), NEW x \in S, NEW f, NEW g,
           \A y \in S : g[y] \in Nat, \A y \in S \ {x} : f[y] = g[y]
    PROVE  SumOver(g, S) = SumOver(f, S \ {x}) + g[x]
<1>1. SumOver(f, S \ {x}) = SumOver(g, S) - g[x]
  BY SumWithout
<1>2. SumOver(g, S) \in Nat /\ g[x] \in Nat
  BY SumIsNatural
<1>. QED BY <1>1, <1>2

(* A part adds up to no more than the whole.                               *)
THEOREM SumOfPart ==
    ASSUME NEW A, IsFiniteSet(A), NEW f, \A x \in A : f[x] \in Nat, NEW S \in SUBSET A
    PROVE  SumOver(f, S) <= SumOver(f, A)
<1>. DEFINE Below(T) == S \subseteq T /\ SumOver(f, T) < SumOver(f, S)
            C == {T \in SUBSET A : Below(T)}
<1>1. SumOver(f, S) \in Nat /\ SumOver(f, A) \in Nat
  <2>1. IsFiniteSet(S) /\ \A x \in S : f[x] \in Nat
    BY FS_Subset
  <2>. QED BY <2>1, SumIsNatural
<1>2. SUFFICES ASSUME C # {} PROVE FALSE
  BY <1>1
<1>3. PICK T \in C : \A U \in C : U \subseteq T => U = T
  <2>1. C \in SUBSET SUBSET A
    OBVIOUS
  <2>. HIDE DEF C
  <2>. QED BY <1>2, <2>1, Smallest
<1>4. T \in SUBSET A /\ IsFiniteSet(T) /\ \A x \in T : f[x] \in Nat
  BY FS_Subset
<1>5. S \subseteq T /\ SumOver(f, T) < SumOver(f, S)
  OBVIOUS
<1>6. PICK x \in T : x \notin S
  BY <1>1, <1>5
<1>. DEFINE U == T \ {x}
<1>7. U \in SUBSET A /\ U \subseteq T /\ U # T /\ S \subseteq U
  BY <1>4, <1>5, <1>6
<1>8. ~(SumOver(f, U) < SumOver(f, S))
  BY <1>3, <1>7
<1>9. SumOver(f, T) = f[x] + SumOver(f, U)
  BY <1>4, SumSplits
<1>10. SumOver(f, U) \in Nat /\ f[x] \in Nat
  <2>1. IsFiniteSet(U) /\ \A y \in U : f[y] \in Nat
    BY <1>4, <1>7, FS_Subset
  <2>2. SumOver(f, U) \in Nat
    BY <2>1, SumIsNatural
  <2>. QED BY <1>4, <2>2
<1>. HIDE DEF U
<1>. QED BY <1>1, <1>5, <1>8, <1>9, <1>10
=============================================================================
