------------------------- MODULE ContainerFile_proofs -------------------------
(***************************************************************************)
(* The theorems of ContainerFile, for files of any chunks, pictures of any *)
(* size and levels, kernels of any length and containers of any size:      *)
(*                                                                         *)
(*   RegionIsLargest           Spec => []LargestRegion                     *)
(*   GridIsWhatIsSeen          Spec => []GridIsSeen                        *)
(*   NoBorderIsInvented        Spec => []NoInventedBorder                  *)
(*   TheShapeSurvives          Spec => []ShapeSurvives                     *)
(*   OnlyTheTechnicalTravels   Spec => []OnlyTechnicalTravels              *)
(*   TheDrawnCarries           Spec => []DrawnCarries                      *)
(*                                                                         *)
(* Each rests on an invariant of its own, which says how far its part of   *)
(* the work has come: Computing and Filtered for the cost map, Looked for  *)
(* the detector, Travelling for the envelope, DrawnSoFar for the carrier.  *)
(* Every recursive function of the model is a CHOOSE to the provers: it is *)
(* shown to exist first, and then to be what the walk, the sum, the search *)
(* or the byte it computes ought to be, step by step with NatInd.          *)
(***************************************************************************)
EXTENDS ContainerFile, FiniteSetTheorems, SequenceTheorems, WellFoundedInduction, TLAPS

\* A set of natural numbers has a least member.
LEMMA NatMin ==
    ASSUME NEW T, T \subseteq Nat, T # {}
    PROVE  \E x \in T : \A y \in T : x <= y
<1> DEFINE R == {ss \in Nat \X Nat : ss[1] < ss[2]}
<1>1. IsWellFoundedOn(R, Nat)
  BY NatLessThanWellFounded DEF OpToRel
<1>2. \E x \in T : \A y \in T : <<y, x>> \notin R
  <2> HIDE DEF R
  <2> QED BY <1>1, WFMin
<1>3. \A x, y \in Nat : <<y, x>> \notin R => x <= y
  <2> SUFFICES ASSUME NEW x \in Nat, NEW y \in Nat, ~(x <= y) PROVE <<y, x>> \in R
    OBVIOUS
  <2>1. y < x
    OBVIOUS
  <2> QED BY <2>1
<1> HIDE DEF R
<1> QED BY <1>2, <1>3

\* Induction, as an argument about the least number that is missing.
LEMMA NatInd ==
    ASSUME NEW S, 0 \in S, \A n \in Nat : n \in S => n + 1 \in S
    PROVE  Nat \subseteq S
<1> DEFINE T == {n \in Nat : n \notin S}
<1> SUFFICES ASSUME T # {} PROVE FALSE
  OBVIOUS
<1>1. PICK x \in T : \A y \in T : x <= y
  <2>1. T \subseteq Nat
    OBVIOUS
  <2> HIDE DEF T
  <2> QED BY <2>1, NatMin
<1>2. x # 0 /\ x \in Nat
  OBVIOUS
<1>3. x - 1 \in Nat /\ x - 1 \notin T
  BY <1>1, <1>2
<1> QED BY <1>2, <1>3

(***************************************************************************)
(* Sums over finite sets.  The folds of the library take the members in    *)
(* some order; the sum is the same in every order.                         *)
(***************************************************************************)
Some(s) == CHOOSE x \in s : TRUE

SumsTo(g, f, S) == g = [s \in SUBSET S |-> IF s = {} THEN 0 ELSE f[Some(s)] + g[s \ {Some(s)}]]

Total(f, S) == FoldFunctionOnSet(+, 0, f, S)

UpToSize(S, n) == {s \in SUBSET S : Cardinality(s) <= n}
SumsUpTo(g, f, S, n) ==
    g = [s \in UpToSize(S, n) |-> IF s = {} THEN 0 ELSE f[Some(s)] + g[s \ {Some(s)}]]

\* The member a fold takes next is one.
LEMMA SomeIs ==
    ASSUME NEW s, s # {}
    PROVE  Some(s) \in s
BY DEF Some

\* A finite set without one of its members.
LEMMA OneLess ==
    ASSUME NEW s, IsFiniteSet(s), NEW x \in s
    PROVE  /\ IsFiniteSet(s \ {x}) /\ Cardinality(s \ {x}) = Cardinality(s) - 1
           /\ Cardinality(s) \in Nat \ {0} /\ Cardinality(s \ {x}) \in Nat
<1>1. IsFiniteSet(s \ {x}) /\ Cardinality(s \ {x}) = Cardinality(s) - 1
  BY FS_RemoveElement
<1>2. Cardinality(s) \in Nat /\ Cardinality(s \ {x}) \in Nat
  BY <1>1, FS_CardinalityType
<1> QED BY <1>1, <1>2

\* There is a function that satisfies the equations of a fold.
LEMMA SumsExist ==
    ASSUME NEW f, NEW S, IsFiniteSet(S)
    PROVE  \E g : SumsTo(g, f, S)
<1> DEFINE N == {n \in Nat : \E g : SumsUpTo(g, f, S, n)}
<1>0. \A s \in SUBSET S : IsFiniteSet(s) /\ Cardinality(s) \in Nat /\ Cardinality(s) <= Cardinality(S)
                            /\ (Cardinality(s) = 0 => s = {})
  BY FS_Subset, FS_CardinalityType, FS_EmptySet
<1>1. 0 \in N
  <2> DEFINE g == [s \in UpToSize(S, 0) |-> 0]
  <2>1. \A s \in UpToSize(S, 0) : s = {}
    BY <1>0 DEF UpToSize
  <2>2. SumsUpTo(g, f, S, 0)
    <3>1. g = [s \in UpToSize(S, 0) |-> IF s = {} THEN 0 ELSE f[Some(s)] + g[s \ {Some(s)}]]
      BY <2>1
    <3> HIDE DEF g
    <3> QED BY <3>1 DEF SumsUpTo
  <2> HIDE DEF g
  <2> QED BY <2>2
<1>2. ASSUME NEW n \in Nat, n \in N
      PROVE  n + 1 \in N
  <2>1. PICK g : SumsUpTo(g, f, S, n)
    BY <1>2
  <2> DEFINE h == [s \in UpToSize(S, n + 1) |->
                     IF s \in UpToSize(S, n) THEN g[s] ELSE f[Some(s)] + g[s \ {Some(s)}]]
  <2>2. \A s \in UpToSize(S, n) : g[s] = IF s = {} THEN 0 ELSE f[Some(s)] + g[s \ {Some(s)}]
    BY <2>1 DEF SumsUpTo
  <2>3. ASSUME NEW s \in UpToSize(S, n + 1), s # {}
        PROVE  s \ {Some(s)} \in UpToSize(S, n) /\ s \ {Some(s)} \in UpToSize(S, n + 1)
    <3>1. s \in SUBSET S /\ Cardinality(s) <= n + 1
      BY DEF UpToSize
    <3>2. Some(s) \in s
      BY <2>3, SomeIs
    <3>3. Cardinality(s \ {Some(s)}) = Cardinality(s) - 1 /\ Cardinality(s) \in Nat
      BY <1>0, <3>1, <3>2, OneLess
    <3>4. Cardinality(s \ {Some(s)}) <= n /\ Cardinality(s \ {Some(s)}) <= n + 1
      BY <3>1, <3>3
    <3> QED BY <3>1, <3>4 DEF UpToSize
  <2>4. {} \in UpToSize(S, n)
    BY FS_EmptySet DEF UpToSize
  <2>5. \A s \in UpToSize(S, n + 1) : h[s] = IF s = {} THEN 0 ELSE f[Some(s)] + h[s \ {Some(s)}]
    BY <2>2, <2>3, <2>4
  <2>6. SumsUpTo(h, f, S, n + 1)
    <3>1. h = [s \in UpToSize(S, n + 1) |-> h[s]]
      OBVIOUS
    <3> HIDE DEF h
    <3> QED BY <2>5, <3>1 DEF SumsUpTo
  <2> HIDE DEF h
  <2> QED BY <2>6
<1>3. Cardinality(S) \in N
  <2>1. Nat \subseteq N
    <3> HIDE DEF N
    <3> QED BY <1>1, <1>2, NatInd
  <2> QED BY <2>1, FS_CardinalityType
<1>4. UpToSize(S, Cardinality(S)) = SUBSET S
  BY <1>0 DEF UpToSize
<1>5. PICK g : SumsUpTo(g, f, S, Cardinality(S))
  BY <1>3
<1>6. SumsTo(g, f, S)
  BY <1>4, <1>5 DEF SumsUpTo, SumsTo
<1> QED BY <1>6

\* The fold is that function.
LEMMA TotalSums ==
    ASSUME NEW f, NEW S, IsFiniteSet(S)
    PROVE  \E g : SumsTo(g, f, S) /\ Total(f, S) = g[S]
<1> DEFINE g == CHOOSE h : SumsTo(h, f, S)
<1>1. Total(f, S) = g[S]
  BY DEF Total, FoldFunctionOnSet, MapThenFoldSet, SumsTo, Some
<1>2. SumsTo(g, f, S)
  BY SumsExist
<1> HIDE DEF g
<1> QED BY <1>1, <1>2

\* It does not matter which member is taken first.
LEMMA SumsTakeAny ==
    ASSUME NEW f, NEW S, IsFiniteSet(S), NEW g, SumsTo(g, f, S), \A x \in S : f[x] \in Int
    PROVE  \A s \in SUBSET S : g[s] \in Int /\ \A x \in s : g[s] = f[x] + g[s \ {x}]
<1> DEFINE Takes(s) == g[s] \in Int /\ \A x \in s : g[s] = f[x] + g[s \ {x}]
           Good(n) == \A s \in SUBSET S : Cardinality(s) <= n => Takes(s)
           N == {n \in Nat : Good(n)}
<1>0. \A s \in SUBSET S : IsFiniteSet(s) /\ Cardinality(s) \in Nat /\ (Cardinality(s) = 0 => s = {})
  BY FS_Subset, FS_CardinalityType, FS_EmptySet
<1>1. \A s \in SUBSET S : g[s] = IF s = {} THEN 0 ELSE f[Some(s)] + g[s \ {Some(s)}]
  BY DEF SumsTo
<1>2. Takes({})
  <2>1. g[{}] = 0
    BY <1>1
  <2> QED BY <2>1
<1>3. 0 \in N
  <2>1. \A s \in SUBSET S : Cardinality(s) <= 0 => s = {}
    BY <1>0
  <2> HIDE DEF Takes
  <2> QED BY <1>2, <2>1
<1>4. ASSUME NEW n \in Nat, n \in N
      PROVE  n + 1 \in N
  <2> SUFFICES ASSUME NEW s \in SUBSET S, Cardinality(s) <= n + 1, s # {}
               PROVE  Takes(s)
    BY <1>2
  <2>0. \A t \in SUBSET S : Cardinality(t) <= n => Takes(t)
    <3> HIDE DEF Takes
    <3> QED BY <1>4
  <2> DEFINE y == Some(s)
  <2>1. y \in s /\ g[s] = f[y] + g[s \ {y}] /\ f[y] \in Int
    BY <1>1, SomeIs
  <2> HIDE DEF y
  <2>2. ASSUME NEW x \in s
        PROVE  Takes(s \ {x})
    <3>1. Cardinality(s \ {x}) <= n /\ s \ {x} \in SUBSET S
      BY <1>0, OneLess
    <3> HIDE DEF Takes
    <3> QED BY <2>0, <3>1
  <2>3. g[s] \in Int
    <3>1. g[s \ {y}] \in Int
      BY <2>1, <2>2
    <3> QED BY <2>1, <3>1
  <2>4. ASSUME NEW x \in s, x # y
        PROVE  g[s] = f[x] + g[s \ {x}]
    <3>1. g[s \ {y}] = f[x] + g[(s \ {y}) \ {x}]
      BY <2>1, <2>2, <2>4
    <3>2. g[s \ {x}] = f[y] + g[(s \ {x}) \ {y}]
      BY <2>1, <2>2, <2>4
    <3>3. (s \ {x}) \ {y} = (s \ {y}) \ {x}
      OBVIOUS
    <3>4. g[s \ {y}] \in Int /\ g[s \ {x}] \in Int /\ f[x] \in Int /\ f[y] \in Int
      BY <2>1, <2>2
    <3>5. g[(s \ {x}) \ {y}] \in Int
      <4>1. x \in s \ {y}
        BY <2>4
      <4>2. (s \ {y}) \ {x} \in SUBSET S /\ Cardinality((s \ {y}) \ {x}) <= n
        BY <1>0, <2>1, <4>1, OneLess
      <4>3. Takes((s \ {y}) \ {x})
        <5> HIDE DEF Takes
        <5> QED BY <2>0, <4>2
      <4> QED BY <3>3, <4>3
    <3>6. g[s \ {y}] = f[x] + g[(s \ {x}) \ {y}]
      BY <3>1, <3>3
    <3> HIDE DEF Takes, N
    <3> QED BY <2>1, <3>2, <3>4, <3>5, <3>6
  <2> QED BY <2>1, <2>3, <2>4
<1>5. Nat \subseteq N
  <2> HIDE DEF N
  <2> QED BY <1>3, <1>4, NatInd
<1>6. ASSUME NEW s \in SUBSET S PROVE Takes(s)
  <2> HIDE DEF Takes
  <2>1. Cardinality(s) \in N /\ Cardinality(s) \in Nat
    BY <1>0, <1>5
  <2>2. Cardinality(s) <= Cardinality(s)
    BY <2>1
  <2> QED BY <2>1, <2>2
<1> QED BY <1>6

\* Sums over two sets agree on what the sets have in common.
LEMMA SumsAgree ==
    ASSUME NEW f, NEW S, IsFiniteSet(S), NEW T, NEW g, SumsTo(g, f, S), NEW h, SumsTo(h, f, T)
    PROVE  \A s \in SUBSET S : s \subseteq T => g[s] = h[s]
<1> DEFINE Good(n) == \A s \in SUBSET S : Cardinality(s) <= n /\ s \subseteq T => g[s] = h[s]
           N == {n \in Nat : Good(n)}
<1>0. \A s \in SUBSET S : IsFiniteSet(s) /\ Cardinality(s) \in Nat /\ (Cardinality(s) = 0 => s = {})
  BY FS_Subset, FS_CardinalityType, FS_EmptySet
<1>1. \A s \in SUBSET S : g[s] = IF s = {} THEN 0 ELSE f[Some(s)] + g[s \ {Some(s)}]
  BY DEF SumsTo
<1>2. \A s \in SUBSET T : h[s] = IF s = {} THEN 0 ELSE f[Some(s)] + h[s \ {Some(s)}]
  BY DEF SumsTo
<1>3. 0 \in N
  <2>1. \A s \in SUBSET S : Cardinality(s) <= 0 => s = {}
    BY <1>0
  <2>2. g[{}] = 0 /\ (h[{}] = 0 \/ ~({} \in SUBSET T))
    BY <1>1, <1>2
  <2> QED BY <2>1, <2>2
<1>4. ASSUME NEW n \in Nat, n \in N
      PROVE  n + 1 \in N
  <2>1. ASSUME NEW s \in SUBSET S, Cardinality(s) <= n + 1, s \subseteq T, s # {}
        PROVE  g[s] = h[s]
    <3>1. Some(s) \in s
      BY <2>1, SomeIs
    <3>2. Cardinality(s \ {Some(s)}) <= n
      BY <1>0, <2>1, <3>1, OneLess
    <3>3. g[s \ {Some(s)}] = h[s \ {Some(s)}]
      <4>1. \A t \in SUBSET S : Cardinality(t) <= n /\ t \subseteq T => g[t] = h[t]
        BY <1>4
      <4>2. s \ {Some(s)} \in SUBSET S /\ s \ {Some(s)} \subseteq T
        BY <2>1
      <4> QED BY <3>2, <4>1, <4>2
    <3> QED BY <1>1, <1>2, <2>1, <3>3
  <2>2. g[{}] = h[{}]
    BY <1>1, <1>2
  <2>3. Good(n + 1)
    <3> SUFFICES ASSUME NEW s \in SUBSET S, Cardinality(s) <= n + 1, s \subseteq T
                 PROVE  g[s] = h[s]
      OBVIOUS
    <3> QED BY <2>1, <2>2
  <2>4. n + 1 \in Nat
    BY <1>4
  <2> HIDE DEF Good
  <2> QED BY <2>3, <2>4
<1>5. Nat \subseteq N
  <2> HIDE DEF N
  <2> QED BY <1>3, <1>4, NatInd
<1> QED BY <1>0, <1>5

\* Any member can be the last to be added.
LEMMA TotalTakes ==
    ASSUME NEW f, NEW S, IsFiniteSet(S), \A x \in S : f[x] \in Int
    PROVE  /\ Total(f, S) \in Int
           /\ \A x \in S : Total(f, S) = f[x] + Total(f, S \ {x})
<1>1. PICK g : SumsTo(g, f, S) /\ Total(f, S) = g[S]
  BY TotalSums
<1>2. \A s \in SUBSET S : g[s] \in Int /\ \A x \in s : g[s] = f[x] + g[s \ {x}]
  BY <1>1, SumsTakeAny
<1>3. ASSUME NEW x \in S
      PROVE  Total(f, S \ {x}) = g[S \ {x}]
  <2>1. IsFiniteSet(S \ {x})
    BY OneLess
  <2>2. PICK h : SumsTo(h, f, S \ {x}) /\ Total(f, S \ {x}) = h[S \ {x}]
    BY <2>1, TotalSums
  <2> QED BY <1>1, <2>1, <2>2, SumsAgree
<1>4. S \in SUBSET S
  OBVIOUS
<1> QED BY <1>1, <1>2, <1>3, <1>4

\* The empty sum.
LEMMA TotalNone ==
    ASSUME NEW f
    PROVE  Total(f, {}) = 0
<1>1. PICK g : SumsTo(g, f, {}) /\ Total(f, {}) = g[{}]
  BY TotalSums, FS_EmptySet
<1> QED BY <1>1 DEF SumsTo

\* A sum over one member more.
LEMMA TotalAdds ==
    ASSUME NEW f, NEW S, IsFiniteSet(S), \A y \in S : f[y] \in Int, NEW x, x \notin S, f[x] \in Int
    PROVE  Total(f, S \cup {x}) = Total(f, S) + f[x]
<1>1. IsFiniteSet(S \cup {x}) /\ (S \cup {x}) \ {x} = S
  BY FS_AddElement
<1>2. \A y \in S \cup {x} : f[y] \in Int
  OBVIOUS
<1>3. Total(f, S \cup {x}) = f[x] + Total(f, S)
  <2> DEFINE T == S \cup {x}
  <2>1. x \in T /\ IsFiniteSet(T) /\ T \ {x} = S /\ \A y \in T : f[y] \in Int
    BY <1>1
  <2> HIDE DEF T
  <2>2. Total(f, T) = f[x] + Total(f, T \ {x})
    BY <2>1, TotalTakes
  <2> QED BY <2>1, <2>2 DEF T
<1>4. Total(f, S) \in Int
  BY TotalTakes
<1> QED BY <1>3, <1>4

\* What holds of nothing and of one member more holds of a finite set.
LEMMA SetInd ==
    ASSUME NEW S, IsFiniteSet(S), NEW F, {} \in F,
           \A T \in SUBSET S, x \in S : T \in F /\ x \notin T => T \cup {x} \in F
    PROVE  S \in F
<1> DEFINE Good(n) == \A s \in SUBSET S : Cardinality(s) <= n => s \in F
           N == {n \in Nat : Good(n)}
<1>0. \A s \in SUBSET S : IsFiniteSet(s) /\ Cardinality(s) \in Nat /\ (Cardinality(s) = 0 => s = {})
  BY FS_Subset, FS_CardinalityType, FS_EmptySet
<1>1. 0 \in N
  <2>1. \A s \in SUBSET S : Cardinality(s) <= 0 => s = {}
    BY <1>0
  <2> QED BY <2>1
<1>2. ASSUME NEW n \in Nat, n \in N
      PROVE  n + 1 \in N
  <2> SUFFICES ASSUME NEW s \in SUBSET S, Cardinality(s) <= n + 1, s # {}
               PROVE  s \in F
    OBVIOUS
  <2>1. PICK x \in s : TRUE
    OBVIOUS
  <2>2. Cardinality(s \ {x}) <= n
    BY <1>0, <2>1, OneLess
  <2>3. s \ {x} \in SUBSET S /\ (s \ {x}) \cup {x} = s /\ x \notin s \ {x} /\ x \in S
    BY <2>1
  <2>4. s \ {x} \in F
    BY <1>2, <2>2, <2>3
  <2> HIDE DEF N
  <2> QED BY <2>3, <2>4
<1>3. Nat \subseteq N
  <2> HIDE DEF N
  <2> QED BY <1>1, <1>2, NatInd
<1>4. Cardinality(S) \in N /\ Cardinality(S) \in Nat /\ S \in SUBSET S
  BY <1>0, <1>3
<1>5. Cardinality(S) <= Cardinality(S)
  BY <1>4
<1> QED BY <1>4, <1>5

\* A sum of naturals is one, and no member exceeds it.
LEMMA TotalIsNat ==
    ASSUME NEW f, NEW S, IsFiniteSet(S), \A x \in S : f[x] \in Nat
    PROVE  Total(f, S) \in Nat /\ \A x \in S : f[x] <= Total(f, S)
<1> DEFINE F == {T \in SUBSET S : Total(f, T) \in Nat}
<1>1. {} \in F
  BY TotalNone
<1>2. ASSUME NEW T \in SUBSET S, NEW x \in S, T \in F, x \notin T
      PROVE  T \cup {x} \in F
  <2>1. Total(f, T \cup {x}) = Total(f, T) + f[x]
    <3>1. IsFiniteSet(T) /\ \A y \in T : f[y] \in Int
      BY FS_Subset
    <3> QED BY <1>2, <3>1, TotalAdds
  <2> QED BY <1>2, <2>1
<1>3. \A T \in SUBSET S : Total(f, T) \in Nat
  <2> SUFFICES ASSUME NEW T \in SUBSET S PROVE T \in F
    OBVIOUS
  <2>1. IsFiniteSet(T)
    BY FS_Subset
  <2>2. \A A \in SUBSET T, x \in T : A \in F /\ x \notin A => A \cup {x} \in F
    BY <1>2
  <2> HIDE DEF F
  <2> QED BY <1>1, <2>1, <2>2, SetInd
<1>4. ASSUME NEW x \in S
      PROVE  f[x] <= Total(f, S)
  <2>1. Total(f, S) = f[x] + Total(f, S \ {x})
    BY TotalTakes
  <2>2. Total(f, S \ {x}) \in Nat
    BY <1>3
  <2> QED BY <2>1, <2>2
<1> QED BY <1>3, <1>4

\* A product with one more.
LEMMA OneTimesMore ==
    ASSUME NEW c \in Int, NEW n \in Int
    PROVE  c * (n + 1) = c * n + c
OBVIOUS

\* The sum of one value is a product.
LEMMA TotalOfOneValue ==
    ASSUME NEW f, NEW S, IsFiniteSet(S), NEW c \in Int, \A x \in S : f[x] = c
    PROVE  Total(f, S) = c * Cardinality(S)
<1> DEFINE F == {T \in SUBSET S : Total(f, T) = c * Cardinality(T)}
<1>1. {} \in F
  BY TotalNone, FS_EmptySet
<1>2. ASSUME NEW T \in SUBSET S, NEW x \in S, T \in F, x \notin T
      PROVE  T \cup {x} \in F
  <2>1. IsFiniteSet(T) /\ Cardinality(T) \in Nat
    BY FS_Subset, FS_CardinalityType
  <2>2. Total(f, T \cup {x}) = Total(f, T) + c
    BY <1>2, <2>1, TotalAdds
  <2>3. Cardinality(T \cup {x}) = Cardinality(T) + 1
    BY <1>2, <2>1, FS_AddElement
  <2>4. c * (Cardinality(T) + 1) = c * Cardinality(T) + c
    BY <2>1, OneTimesMore
  <2> QED BY <1>2, <2>2, <2>3, <2>4
<1>3. S \in F
  <2> HIDE DEF F
  <2> QED BY <1>1, <1>2, SetInd
<1> QED BY <1>3

\* The sum of the same numbers, found at other places.
LEMMA TotalMoved ==
    ASSUME NEW f, NEW S, IsFiniteSet(S), \A x \in S : f[x] \in Int,
           NEW h, NEW r, \A x, y \in S : r[x] = r[y] => x = y,
           \A x \in S : h[r[x]] = f[x]
    PROVE  Total(h, {r[x] : x \in S}) = Total(f, S)
<1> DEFINE image(T) == {r[x] : x \in T}
           F == {T \in SUBSET S : IsFiniteSet(image(T)) /\ Total(h, image(T)) = Total(f, T)}
<1>1. {} \in F
  <2>1. image({}) = {}
    OBVIOUS
  <2> QED BY <2>1, TotalNone, FS_EmptySet
<1>2. ASSUME NEW T \in SUBSET S, NEW x \in S, T \in F, x \notin T
      PROVE  T \cup {x} \in F
  <2>1. IsFiniteSet(T) /\ \A y \in T : f[y] \in Int
    BY FS_Subset
  <2>2. Total(f, T \cup {x}) = Total(f, T) + f[x]
    BY <1>2, <2>1, TotalAdds
  <2>3. image(T \cup {x}) = image(T) \cup {r[x]} /\ r[x] \notin image(T)
    BY <1>2
  <2>4. \A y \in image(T) : h[y] \in Int
    OBVIOUS
  <2>5. IsFiniteSet(image(T)) /\ Total(h, image(T)) = Total(f, T)
    BY <1>2
  <2>6. h[r[x]] = f[x] /\ f[x] \in Int
    OBVIOUS
  <2> HIDE DEF image
  <2>7. Total(h, image(T) \cup {r[x]}) = Total(h, image(T)) + h[r[x]]
    BY <2>3, <2>4, <2>5, <2>6, TotalAdds
  <2>8. IsFiniteSet(image(T) \cup {r[x]})
    BY <2>5, FS_AddElement
  <2> QED BY <2>2, <2>3, <2>5, <2>6, <2>7, <2>8
<1>3. S \in F
  <2> HIDE DEF F
  <2> QED BY <1>1, <1>2, SetInd
<1> QED BY <1>3

(***************************************************************************)
(* Pixels in rows.                                                         *)
(***************************************************************************)
LEMMA Division ==
    ASSUME NEW a \in Int, NEW m \in Nat, m >= 1
    PROVE  /\ a \div m \in Int /\ a % m \in 0 .. m - 1
           /\ a = (a \div m) * m + (a % m)
  BY SMT

\* Quotient and remainder are unique.
LEMMA QuotientOf ==
    ASSUME NEW m \in Nat, m >= 1, NEW q \in Int, NEW r \in 0 .. m - 1
    PROVE  (q * m + r) \div m = q /\ (q * m + r) % m = r
<1> DEFINE a == q * m + r
           k == a \div m
           s == a % m
<1>1. a \in Int
  BY SMT
<1>2. k \in Int /\ s \in 0 .. m - 1 /\ q * m + r = k * m + s
  <2> HIDE DEF a
  <2>1. a = k * m + s /\ k \in Int /\ s \in 0 .. m - 1
    BY <1>1, Division
  <2> QED BY <2>1 DEF a
<1> HIDE DEF k, s
<1>3. CASE q < k
  <2>1. q * m + m <= k * m
    BY <1>2, <1>3, SMT
  <2> QED BY <2>1, <1>2, SMT
<1>4. CASE k < q
  <2>1. k * m + m <= q * m
    BY <1>2, <1>4, SMT
  <2> QED BY <2>1, <1>2, SMT
<1>5. CASE k = q
  <2>1. s = r
    BY <1>2, <1>5, SMT
  <2> QED BY <1>5, <2>1 DEF a, k, s
<1> QED BY <1>2, <1>3, <1>4, <1>5

\* The row and the column of a pixel.
LEMMA OfRow ==
    ASSUME NEW w \in Nat, w >= 1, NEW h \in Nat, h >= 1, NEW p, p \in 0 .. w * h - 1
    PROVE  /\ p % w \in 0 .. w - 1 /\ p \div w \in 0 .. h - 1
           /\ p = (p \div w) * w + (p % w)
<1>0. w * h \in Int
  BY SMT
<1>1. p \in Int /\ p >= 0 /\ p < w * h
  BY <1>0
<1> DEFINE q == p \div w
<1> DEFINE r == p % w
<1>2. r \in 0 .. w - 1 /\ q \in Int /\ p = q * w + r
  BY <1>1, Division
<1> HIDE DEF q, r
<1>3. q >= 0
  <2> SUFFICES ASSUME q < 0 PROVE FALSE
    BY <1>2
  <2>1. q * w <= -w
    BY <1>2, SMT
  <2> QED BY <1>1, <1>2, <2>1, SMT
<1>4. q < h
  <2> SUFFICES ASSUME h <= q PROVE FALSE
    BY <1>2
  <2>1. w * h <= q * w
    BY <1>2, SMT
  <2>2. q * w <= p
    BY <1>1, <1>2, SMT
  <2> QED BY <1>0, <1>1, <1>2, <2>1, <2>2, SMT
<1> QED BY <1>2, <1>3, <1>4 DEF q, r

\* The pixel of a row and a column.
LEMMA InRow ==
    ASSUME NEW w \in Nat, w >= 1, NEW h \in Nat, h >= 1, NEW x, x \in 0 .. w - 1, NEW y, y \in 0 .. h - 1
    PROVE  /\ y * w + x \in 0 .. w * h - 1
           /\ (y * w + x) % w = x /\ (y * w + x) \div w = y
<1>1. y + 1 <= h /\ y \in Nat /\ x \in Nat /\ x < w
  OBVIOUS
<1>2. (y + 1) * w <= w * h
  BY <1>1, SMT
<1>3. (y + 1) * w = y * w + w
  BY <1>1, SMT
<1>4. y * w \in Nat /\ w * h \in Nat
  BY <1>1, SMT
<1>5. y * w + x \in 0 .. w * h - 1
  BY <1>1, <1>2, <1>3, <1>4
<1> QED BY <1>1, <1>5, QuotientOf

\* reflect stays inside the picture.
LEMMA Reflected ==
    ASSUME NEW c \in Int, NEW len \in Nat, len >= 1
    PROVE  reflect(c, len) \in 0 .. len - 1
<1>1. CASE len = 1
  BY <1>1 DEF reflect
<1>2. CASE len > 1
  <2> DEFINE period == 2 * (len - 1)
             folded == c % period
  <2>1. period \in Nat /\ period >= 1
    BY <1>2
  <2>2. folded \in 0 .. period - 1
    <3> HIDE DEF period
    <3> QED BY <2>1, Division
  <2>3. reflect(c, len) = IF folded >= len THEN period - folded ELSE folded
    BY <1>2 DEF reflect
  <2> HIDE DEF folded
  <2> QED BY <1>2, <2>2, <2>3
<1> QED BY <1>1, <1>2

(***************************************************************************)
(* The planes.  The filters keep them full, of naturals.                   *)
(***************************************************************************)
Picture(width, height) == [0 .. width * height - 1 -> Nat]

\* The high-pass filter of a plane is a plane of naturals.
LEMMA HighPassKeeps ==
    ASSUME NEW w \in Nat, w >= 1, NEW h \in Nat, h >= 1, NEW luma \in Picture(w, h)
    PROVE  high_pass(luma, w, h) \in Picture(w, h)
<1> DEFINE At(sx, sy) == luma[reflect(sy, h) * w + reflect(sx, w)]
           Here(p) == Absolute(4 * At(p % w, p \div w) - At((p % w) - 1, p \div w) - At((p % w) + 1, p \div w)
                                 - At(p % w, p \div w - 1) - At(p % w, p \div w + 1))
<1>1. high_pass(luma, w, h) = [p \in DOMAIN luma |-> Here(p)]
  BY DEF high_pass
<1>2. DOMAIN luma = 0 .. w * h - 1 /\ \A p \in 0 .. w * h - 1 : luma[p] \in Nat
  BY DEF Picture
<1>3. ASSUME NEW sx \in Int, NEW sy \in Int
      PROVE  At(sx, sy) \in Nat
  <2>1. reflect(sx, w) \in 0 .. w - 1 /\ reflect(sy, h) \in 0 .. h - 1
    BY Reflected
  <2>2. reflect(sy, h) * w + reflect(sx, w) \in 0 .. w * h - 1
    BY <2>1, InRow
  <2> QED BY <1>2, <2>2
<1>4. ASSUME NEW p \in DOMAIN luma
      PROVE  Here(p) \in Nat
  <2>1. p % w \in Int /\ p \div w \in Int
    BY <1>2, OfRow
  <2>2. /\ (p % w) - 1 \in Int /\ (p % w) + 1 \in Int /\ p \div w - 1 \in Int /\ p \div w + 1 \in Int
    BY <2>1
  <2>3. /\ At(p % w, p \div w) \in Nat /\ At((p % w) - 1, p \div w) \in Nat /\ At((p % w) + 1, p \div w) \in Nat
        /\ At(p % w, p \div w - 1) \in Nat /\ At(p % w, p \div w + 1) \in Nat
    BY <1>3, <2>1, <2>2
  <2> HIDE DEF At
  <2> QED BY <2>3 DEF Absolute
<1> HIDE DEF Here
<1> QED BY <1>1, <1>2, <1>4 DEF Picture

\* A kernel has finitely many taps.
LEMMA TapsAreFinite ==
    ASSUME NEW taps \in Seq(Nat)
    PROVE  IsFiniteSet(DOMAIN taps)
<1>1. DOMAIN taps = 1 .. Len(taps) /\ Len(taps) \in Int
  OBVIOUS
<1> QED BY <1>1, FS_Interval

\* So is the plane one pass of a convolution gives.
LEMMA ConvolveKeeps ==
    ASSUME NEW w \in Nat, w >= 1, NEW h \in Nat, h >= 1, NEW input \in Picture(w, h),
           NEW taps \in Seq(Nat), NEW axis
    PROVE  convolve_axis(input, w, h, taps, axis) \in Picture(w, h)
<1> DEFINE From(p, t) == LET offset == t - 1 - Len(taps) \div 2
                         IN  IF axis = "horizontal" THEN (p \div w) * w + reflect((p % w) + offset, w)
                             ELSE reflect(p \div w + offset, h) * w + (p % w)
           Here(p) == [t \in DOMAIN taps |-> taps[t] * input[From(p, t)]]
<1>1. convolve_axis(input, w, h, taps, axis) = [p \in DOMAIN input |-> Total(Here(p), DOMAIN taps)]
  BY DEF convolve_axis, FoldFunction, Total
<1>2. DOMAIN input = 0 .. w * h - 1 /\ \A p \in 0 .. w * h - 1 : input[p] \in Nat
  BY DEF Picture
<1>3. ASSUME NEW p \in DOMAIN input, NEW t \in DOMAIN taps
      PROVE  From(p, t) \in 0 .. w * h - 1
  <2>1. p % w \in 0 .. w - 1 /\ p \div w \in 0 .. h - 1
    BY <1>2, OfRow
  <2> DEFINE offset == t - 1 - Len(taps) \div 2
  <2>2. offset \in Int
    <3>1. Len(taps) \in Int /\ t \in Int
      OBVIOUS
    <3>2. Len(taps) \div 2 \in Int
      BY <3>1, Division
    <3> QED BY <3>1, <3>2
  <2>3. From(p, t) = IF axis = "horizontal" THEN (p \div w) * w + reflect((p % w) + offset, w)
                     ELSE reflect(p \div w + offset, h) * w + (p % w)
    OBVIOUS
  <2> HIDE DEF offset, From
  <2>4. (p % w) + offset \in Int /\ p \div w + offset \in Int
    BY <2>1, <2>2
  <2>5. reflect((p % w) + offset, w) \in 0 .. w - 1 /\ reflect(p \div w + offset, h) \in 0 .. h - 1
    BY <2>4, Reflected
  <2>6. /\ (p \div w) * w + reflect((p % w) + offset, w) \in 0 .. w * h - 1
        /\ reflect(p \div w + offset, h) * w + (p % w) \in 0 .. w * h - 1
    BY <2>1, <2>5, InRow
  <2> QED BY <2>3, <2>6
<1>4. ASSUME NEW p \in DOMAIN input
      PROVE  Total(Here(p), DOMAIN taps) \in Nat
  <2>1. DOMAIN Here(p) = DOMAIN taps
    OBVIOUS
  <2>2. ASSUME NEW t \in DOMAIN taps
        PROVE  Here(p)[t] \in Nat
    <3>1. taps[t] \in Nat /\ input[From(p, t)] \in Nat
      <4> HIDE DEF From
      <4> QED BY <1>2, <1>3
    <3>2. Here(p)[t] = taps[t] * input[From(p, t)]
      OBVIOUS
    <3> HIDE DEF From, Here
    <3> QED BY <3>1, <3>2, SMT
  <2> HIDE DEF Here
  <2> QED BY <2>1, <2>2, TapsAreFinite, TotalIsNat
<1> HIDE DEF Here
<1> QED BY <1>1, <1>2, <1>4 DEF Picture

\* And what both passes give.
LEMMA SmoothingKeeps ==
    ASSUME NEW w \in Nat, w >= 1, NEW h \in Nat, h >= 1, NEW input \in Picture(w, h), NEW taps \in Seq(Nat)
    PROVE  convolve_separable(input, w, h, taps) \in Picture(w, h)
  BY ConvolveKeeps DEF convolve_separable

(***************************************************************************)
(* The search for regions.  What is done with one pixel at a time holds of *)
(* any finite set of pixels in rows of any width.                          *)
(***************************************************************************)
Beside(w, p, q) == (p \div w = q \div w /\ Abs(p - q) = 1) \/ Abs(p - q) = w
ClosedIn(w, smooth, R) == \A p \in R, q \in smooth : Beside(w, p, q) => q \in R
RegionsOf(w, smooth) ==
    {R \in SUBSET smooth : /\ R # {} /\ ClosedIn(w, smooth, R)
                           /\ \A S \in SUBSET R : S \in {{}, R} \/ ~ClosedIn(w, smooth, S)}

\* No closed set has a part of it only.
Together(w, smooth, C) ==
    \A S \in SUBSET smooth : ClosedIn(w, smooth, S) /\ S \cap C # {} => C \subseteq S

\* The regions that meet a set of pixels have been measured.
MeasuredIn(w, smooth, old, most) ==
    /\ \A R \in RegionsOf(w, smooth) : R \cap old # {} => Cardinality(R) <= most
    /\ most > 0 => \E R \in RegionsOf(w, smooth) : Cardinality(R) = most

Queued(queued) == {queued[i] : i \in DOMAIN queued}

\* C is what is known of the region that is being measured.
Searching(C, w, smooth, seen, queued, taken, most, from) ==
    /\ seen \subseteq smooth /\ C \subseteq seen
    /\ queued \in Seq(C) /\ taken \in Nat /\ most \in Nat /\ from \in Nat
    /\ IF queued = <<>> THEN C = {} ELSE taken + Len(queued) = Cardinality(C)
    /\ Together(w, smooth, C)
    /\ \A p \in C : p \in Queued(queued) \/ \A q \in smooth : Beside(w, p, q) => q \in C
    /\ ClosedIn(w, smooth, seen \ C)
    /\ MeasuredIn(w, smooth, seen \ C, most)
    /\ \A p \in smooth : p < from => p \in seen

\* Neighbours are so of each other.
LEMMA BesideIsMutual ==
    ASSUME NEW w, NEW p \in Int, NEW q \in Int
    PROVE  Beside(w, p, q) <=> Beside(w, q, p)
BY DEF Beside, Abs

\* Two lists, one behind the other.
LEMMA JoinedLists ==
    ASSUME NEW S, NEW a \in Seq(S), NEW b \in Seq(S)
    PROVE  /\ a \o b \in Seq(S) /\ Len(a \o b) = Len(a) + Len(b)
           /\ DOMAIN (a \o b) = 1 .. Len(a \o b) /\ Len(a) \in Nat /\ Len(b) \in Nat
           /\ \A i \in 1 .. Len(a) : (a \o b)[i] = a[i]
           /\ \A i \in 1 .. Len(b) : (a \o b)[Len(a) + i] = b[i]
<1>1. a \o b \in Seq(S) /\ Len(a \o b) = Len(a) + Len(b) /\ Len(a) \in Nat /\ Len(b) \in Nat
  OBVIOUS
<1>2. DOMAIN (a \o b) = 1 .. Len(a \o b)
  BY <1>1
<1>3. \A i \in 1 .. Len(a) : (a \o b)[i] = a[i]
  OBVIOUS
<1>4. ASSUME NEW i \in 1 .. Len(b)
      PROVE  (a \o b)[Len(a) + i] = b[i]
  <2>1. Len(a) + i \in 1 .. Len(a) + Len(b) /\ ~(Len(a) + i <= Len(a)) /\ (Len(a) + i) - Len(a) = i
    BY <1>1
  <2> QED BY <2>1
<1> QED BY <1>1, <1>2, <1>3, <1>4

\* A region is started from the first pixel that was not seen.
LEMMA SearchStarts ==
    ASSUME NEW w, NEW smooth, smooth \subseteq Nat,
           NEW seen, NEW taken, NEW most, NEW from,
           Searching({}, w, smooth, seen, <<>>, taken, most, from),
           NEW next, next \in smooth \ seen, \A q \in smooth \ seen : q >= from => next <= q
    PROVE  Searching({next}, w, smooth, seen \cup {next}, <<next>>, 0, most, next + 1)
<1>1. (seen \cup {next}) \ {next} = seen \ {}
  OBVIOUS
<1>2. seen \cup {next} \subseteq smooth /\ next \in Nat /\ <<next>> \in Seq({next}) /\ <<next>> # <<>>
  BY DEF Searching
<1>3. 0 + Len(<<next>>) = Cardinality({next})
  <2>1. Cardinality({next}) = 1 /\ Len(<<next>>) = 1
    BY FS_Singleton
  <2> QED BY <2>1
<1>4. Together(w, smooth, {next})
  BY DEF Together
<1>5. next \in Queued(<<next>>)
  <2>1. 1 \in DOMAIN <<next>> /\ <<next>>[1] = next
    OBVIOUS
  <2> QED BY <2>1 DEF Queued
<1>6. ASSUME NEW p \in smooth, p < next + 1
      PROVE  p \in seen \cup {next}
  <2>1. p \in Nat /\ next \in Nat /\ from \in Nat
    BY DEF Searching
  <2>2. CASE p = next
    BY <2>2
  <2>3. CASE p # next
    <3>1. ~(next <= p)
      BY <1>6, <2>1, <2>3
    <3>2. p \in seen \/ p < from
      BY <2>1, <3>1
    <3> QED BY <3>2 DEF Searching
  <2> QED BY <2>2, <2>3
<1>7. ClosedIn(w, smooth, seen \ {}) /\ MeasuredIn(w, smooth, seen \ {}, most) /\ most \in Nat
  BY DEF Searching
<1> QED BY <1>1, <1>2, <1>3, <1>4, <1>5, <1>6, <1>7 DEF Searching

\* The list of a finite set has each of its members.
LEMMA ListIsComplete ==
    ASSUME NEW S, IsFiniteSet(S)
    PROVE  /\ SetToSeq(S) \in Seq(S) /\ Len(SetToSeq(S)) = Cardinality(S)
           /\ \A x \in S : \E i \in 1 .. Cardinality(S) : SetToSeq(S)[i] = x
<1> DEFINE n == Cardinality(S)
           f == SetToSeq(S)
<1>1. n \in Nat /\ \E g \in [1 .. n -> S] : IsInjective(g)
  <2>1. n \in Nat /\ ExistsBijection(1 .. n, S)
    BY FS_CardinalityType
  <2>2. PICK g \in Bijection(1 .. n, S) : TRUE
    BY <2>1 DEF ExistsBijection
  <2>3. g \in [1 .. n -> S] /\ \A a, b \in 1 .. n : g[a] = g[b] => a = b
    BY <2>2 DEF Bijection, Injection, IsInjective
  <2>4. IsInjective(g)
    BY <2>3 DEF IsInjective
  <2> QED BY <2>1, <2>3, <2>4
<1>2. f \in [1 .. n -> S] /\ IsInjective(f)
  BY <1>1 DEF SetToSeq
<1> HIDE DEF f
<1>3. f \in Seq(S) /\ Len(f) = n
  <2> HIDE DEF n
  <2> QED BY <1>1, <1>2
<1>4. f \in Injection(1 .. n, S)
  BY <1>2 DEF IsInjective, Injection
<1>5. Cardinality(1 .. n) = n
  BY <1>1, FS_Interval
<1>6. f \in Surjection(1 .. n, S)
  BY <1>4, <1>5, FS_Injection
<1> QED BY <1>3, <1>6 DEF Surjection, f

Joining(w, smooth, seen, p) == {q \in smooth \ seen : Beside(w, p, q)}
Waiting(queued, joined) == Tail(queued) \o SetToSeq(joined)

Grown(w, smooth, D, all, rest, taken, old) ==
    /\ taken + Len(rest) = Cardinality(D)
    /\ rest \in Seq(D)
    /\ D \subseteq all /\ all \subseteq smooth
    /\ Together(w, smooth, D)
    /\ \A p \in D : p \in Queued(rest) \/ \A q \in smooth : Beside(w, p, q) => q \in D
    /\ all \ D = old

\* One pixel is taken out, and those next to it that are new join.
LEMMA SearchGrows ==
    ASSUME NEW w, NEW smooth, smooth \subseteq Nat, IsFiniteSet(smooth),
           NEW C, NEW seen, NEW queued, NEW taken, NEW most, NEW from,
           Searching(C, w, smooth, seen, queued, taken, most, from), queued # <<>>,
           NEW joined, joined = Joining(w, smooth, seen, Head(queued)),
           NEW rest, rest = Waiting(queued, joined)
    PROVE  Grown(w, smooth, C \cup joined, seen \cup joined, rest, taken + 1, seen \ C)
<1> DEFINE head == Head(queued)
<1>1. /\ seen \subseteq smooth /\ C \subseteq seen /\ queued \in Seq(C) /\ taken \in Nat
      /\ taken + Len(queued) = Cardinality(C)
      /\ Together(w, smooth, C)
      /\ \A p \in C : p \in Queued(queued) \/ \A q \in smooth : Beside(w, p, q) => q \in C
      /\ ClosedIn(w, smooth, seen \ C)
  BY DEF Searching
<1>2. head \in C /\ head \in smooth /\ Tail(queued) \in Seq(C) /\ Len(Tail(queued)) = Len(queued) - 1
      /\ Len(queued) \in Nat \ {0}
  <2>1. Len(queued) \in Nat \ {0} /\ head \in C
    BY <1>1
  <2>2. Tail(queued) \in Seq(C) /\ Len(Tail(queued)) = Len(queued) - 1
    BY <1>1
  <2> QED BY <1>1, <2>1, <2>2
<1>3. IsFiniteSet(C) /\ IsFiniteSet(joined) /\ joined \subseteq smooth /\ joined \cap C = {}
      /\ joined \cap seen = {} /\ IsFiniteSet({})
  <2>1. joined \subseteq smooth /\ joined \cap seen = {}
    BY DEF Joining
  <2> QED BY <1>1, <2>1, FS_Subset, FS_EmptySet
<1>4. Cardinality(C \cup joined) = Cardinality(C) + Cardinality(joined)
      /\ Cardinality(C) \in Nat /\ Cardinality(joined) \in Nat
  <2>1. C \cap joined = {} /\ Cardinality({}) = 0
    BY <1>3, FS_EmptySet
  <2>2. Cardinality(C \cup joined) = Cardinality(C) + Cardinality(joined) - Cardinality(C \cap joined)
    BY <1>3, FS_Union
  <2>3. Cardinality(C) \in Nat /\ Cardinality(joined) \in Nat
    BY <1>3, FS_CardinalityType
  <2>4. Cardinality(C \cap joined) = 0
    BY <2>1
  <2> QED BY <2>2, <2>3, <2>4
<1>5. SetToSeq(joined) \in Seq(joined) /\ Len(SetToSeq(joined)) = Cardinality(joined)
      /\ \A x \in joined : \E i \in 1 .. Cardinality(joined) : SetToSeq(joined)[i] = x
  BY <1>3, ListIsComplete
<1> DEFINE tail == Tail(queued)
           list == SetToSeq(joined)
<1> HIDE DEF tail, list
<1>6. tail \in Seq(C \cup joined) /\ list \in Seq(C \cup joined)
  BY <1>2, <1>5 DEF tail, list
<1>7. /\ rest \in Seq(C \cup joined) /\ Len(rest) = Len(tail) + Len(list)
      /\ DOMAIN rest = 1 .. Len(rest) /\ Len(tail) \in Nat /\ Len(list) \in Nat
      /\ \A i \in 1 .. Len(tail) : rest[i] = tail[i]
      /\ \A i \in 1 .. Len(list) : rest[Len(tail) + i] = list[i]
  <2>1. rest = tail \o list
    BY DEF Waiting, tail, list
  <2>2. /\ tail \o list \in Seq(C \cup joined) /\ Len(tail \o list) = Len(tail) + Len(list)
        /\ DOMAIN (tail \o list) = 1 .. Len(tail \o list) /\ Len(tail) \in Nat /\ Len(list) \in Nat
        /\ \A i \in 1 .. Len(tail) : (tail \o list)[i] = tail[i]
        /\ \A i \in 1 .. Len(list) : (tail \o list)[Len(tail) + i] = list[i]
    <3> DEFINE S == C \cup joined
    <3>1. tail \in Seq(S) /\ list \in Seq(S)
      BY <1>6
    <3> HIDE DEF S
    <3>2. tail \o list \in Seq(S)
      BY <3>1, JoinedLists
    <3> QED BY <3>1, <3>2, JoinedLists DEF S
  <2> QED BY <2>1, <2>2
<1>8. taken + 1 + Len(rest) = Cardinality(C \cup joined)
  <2>1. Len(tail) = Len(queued) - 1 /\ Len(list) = Cardinality(joined)
    BY <1>2, <1>5 DEF tail, list
  <2>2. Len(rest) = Len(queued) - 1 + Cardinality(joined)
    BY <1>7, <2>1
  <2> QED BY <1>1, <1>2, <1>4, <2>2
<1>9. Together(w, smooth, C \cup joined)
  <2> SUFFICES ASSUME NEW S \in SUBSET smooth, ClosedIn(w, smooth, S), NEW z \in S, z \in C \cup joined
               PROVE  C \cup joined \subseteq S
    BY DEF Together
  <2>1. head \in S => C \subseteq S /\ joined \subseteq S
    <3>1. ASSUME head \in S PROVE C \subseteq S
      BY <1>1, <1>2, <3>1 DEF Together
    <3>2. ASSUME head \in S PROVE joined \subseteq S
      BY <1>3, <3>2 DEF ClosedIn, Joining
    <3> QED BY <3>1, <3>2
  <2>2. CASE z \in C
    <3>1. C \subseteq S
      BY <1>1, <2>2 DEF Together
    <3> QED BY <1>2, <2>1, <3>1
  <2>3. CASE z \in joined
    <3>1. Beside(w, head, z) /\ z \in Nat /\ head \in Nat
      BY <1>2, <1>3, <2>3 DEF Joining
    <3>2. Beside(w, z, head)
      BY <3>1, BesideIsMutual
    <3>3. head \in S
      BY <1>2, <3>2 DEF ClosedIn
    <3> QED BY <2>1, <3>3
  <2> QED BY <2>2, <2>3
<1>10. ASSUME NEW q \in smooth, Beside(w, head, q)
       PROVE  q \in C \cup joined
  <2> SUFFICES ASSUME q \in seen \ C PROVE FALSE
    BY <1>10 DEF Joining
  <2>1. Beside(w, q, head)
    <3>1. head \in Int /\ q \in Int
      <4> HIDE DEF head
      <4> QED BY <1>2
    <3>2. Beside(w, head, q)
      BY <1>10
    <3> HIDE DEF head
    <3> QED BY <3>1, <3>2, BesideIsMutual
  <2>2. head \in seen \ C
    BY <1>1, <1>2, <2>1 DEF ClosedIn
  <2> QED BY <1>2, <2>2
<1>11. ASSUME NEW p \in C \cup joined
       PROVE  p \in Queued(rest) \/ \A q \in smooth : Beside(w, p, q) => q \in C \cup joined
  <2>1. CASE p \in joined
    <3>1. PICK i \in 1 .. Cardinality(joined) : list[i] = p
      BY <1>5, <2>1 DEF list
    <3>2. i \in 1 .. Len(list)
      BY <1>5 DEF list
    <3>3. Len(tail) + i \in DOMAIN rest /\ rest[Len(tail) + i] = p
      BY <1>7, <3>1, <3>2
    <3> QED BY <3>3 DEF Queued
  <2>2. CASE p \in C /\ ~(p \in Queued(queued))
    <3>1. \A q \in smooth : Beside(w, p, q) => q \in C
      BY <1>1, <2>2
    <3> QED BY <3>1
  <2>3. CASE p \in Queued(queued)
    <3>1. PICK i \in DOMAIN queued : queued[i] = p
      BY <2>3 DEF Queued
    <3>2. CASE i = 1
      <4>1. p = head
        BY <1>1, <3>1, <3>2
      <4> QED BY <1>10, <4>1
    <3>3. CASE i # 1
      <4>1. i - 1 \in 1 .. Len(tail) /\ tail[i - 1] = p
        BY <1>1, <1>2, <3>1, <3>3 DEF tail
      <4>2. i - 1 \in DOMAIN rest /\ rest[i - 1] = p
        BY <1>7, <4>1
      <4> QED BY <4>2 DEF Queued
    <3> QED BY <3>2, <3>3
  <2> QED BY <2>1, <2>2, <2>3
<1>12. (seen \cup joined) \ (C \cup joined) = seen \ C
  BY <1>3
<1>13. C \cup joined \subseteq seen \cup joined /\ seen \cup joined \subseteq smooth
  BY <1>1, <1>3
<1> QED BY <1>7, <1>8, <1>9, <1>11, <1>12, <1>13 DEF Grown

\* The region goes on ...
LEMMA SearchGoesOn ==
    ASSUME NEW w, NEW smooth, smooth \subseteq Nat, IsFiniteSet(smooth),
           NEW C, NEW seen, NEW queued, NEW taken, NEW most, NEW from,
           Searching(C, w, smooth, seen, queued, taken, most, from), queued # <<>>,
           NEW joined, joined = Joining(w, smooth, seen, Head(queued)),
           NEW rest, rest = Waiting(queued, joined), rest # <<>>
    PROVE  Searching(C \cup joined, w, smooth, seen \cup joined, rest, taken + 1, most, from)
<1> DEFINE D == C \cup joined
           all == seen \cup joined
<1>1. Grown(w, smooth, D, all, rest, taken + 1, seen \ C)
  BY SearchGrows
<1> HIDE DEF D, all
<1>2. /\ taken \in Nat /\ most \in Nat /\ from \in Nat
      /\ ClosedIn(w, smooth, seen \ C) /\ MeasuredIn(w, smooth, seen \ C, most)
      /\ \A p \in smooth : p < from => p \in seen
  BY DEF Searching
<1>3. \A p \in smooth : p < from => p \in all
  BY <1>2 DEF all
<1>4. Searching(D, w, smooth, all, rest, taken + 1, most, from)
  <2>1. /\ taken + 1 + Len(rest) = Cardinality(D)
        /\ rest \in Seq(D) /\ D \subseteq all /\ all \subseteq smooth
        /\ Together(w, smooth, D)
        /\ \A p \in D : p \in Queued(rest) \/ \A q \in smooth : Beside(w, p, q) => q \in D
        /\ all \ D = seen \ C
    BY <1>1 DEF Grown
  <2>2. ClosedIn(w, smooth, all \ D) /\ MeasuredIn(w, smooth, all \ D, most)
    BY <1>2, <2>1
  <2>3. taken + 1 \in Nat
    BY <1>2
  <2> QED BY <1>2, <1>3, <2>1, <2>2, <2>3 DEF Searching
<1> QED BY <1>4 DEF D, all

\* A pixel that is closed on all sides with those it hangs together with is
\* the region it belongs to.
LEMMA RegionIs ==
    ASSUME NEW w, NEW smooth, NEW C, C \subseteq smooth, C # {},
           Together(w, smooth, C), ClosedIn(w, smooth, C)
    PROVE  /\ C \in RegionsOf(w, smooth)
           /\ \A R \in RegionsOf(w, smooth) : R \cap C # {} => R = C
<1>1. ASSUME NEW S \in SUBSET C, S # {}, ClosedIn(w, smooth, S)
      PROVE  S = C
  BY <1>1 DEF Together
<1>2. C \in RegionsOf(w, smooth)
  BY <1>1 DEF RegionsOf
<1>3. ASSUME NEW R \in RegionsOf(w, smooth), R \cap C # {}
      PROVE  R = C
  <2>1. R \in SUBSET smooth /\ ClosedIn(w, smooth, R) /\ \A S \in SUBSET R : S \in {{}, R} \/ ~ClosedIn(w, smooth, S)
    BY DEF RegionsOf
  <2>2. C \subseteq R
    BY <1>3, <2>1 DEF Together
  <2> QED BY <2>1, <2>2
<1> QED BY <1>2, <1>3

\* ... until no pixel is left in the queue; then it has been measured.
LEMMA RegionIsMeasured ==
    ASSUME NEW w, NEW smooth, smooth \subseteq Nat, IsFiniteSet(smooth),
           NEW C, NEW seen, NEW queued, NEW taken, NEW most, NEW from,
           Searching(C, w, smooth, seen, queued, taken, most, from), queued # <<>>,
           NEW joined, joined = Joining(w, smooth, seen, Head(queued)),
           NEW rest, rest = Waiting(queued, joined), rest = <<>>
    PROVE  Searching({}, w, smooth, seen \cup joined, <<>>, taken + 1,
                     IF taken + 1 > most THEN taken + 1 ELSE most, from)
<1> DEFINE D == C \cup joined
           all == seen \cup joined
           now == IF taken + 1 > most THEN taken + 1 ELSE most
<1>0. Grown(w, smooth, D, all, rest, taken + 1, seen \ C)
  BY SearchGrows
<1>1. /\ taken + 1 + Len(rest) = Cardinality(D)
      /\ D \subseteq all /\ all \subseteq smooth
      /\ Together(w, smooth, D)
      /\ \A p \in D : p \in Queued(rest) \/ \A q \in smooth : Beside(w, p, q) => q \in D
      /\ all \ D = seen \ C
  <2> HIDE DEF D, all
  <2> QED BY <1>0 DEF Grown
<1>2. /\ taken \in Nat /\ most \in Nat /\ from \in Nat
      /\ ClosedIn(w, smooth, seen \ C) /\ MeasuredIn(w, smooth, seen \ C, most)
      /\ \A p \in smooth : p < from => p \in seen
  BY DEF Searching
<1>3. Cardinality(D) = taken + 1 /\ D # {}
  <2>1. Len(rest) = 0
    OBVIOUS
  <2>2. Cardinality(D) = taken + 1
    BY <1>1, <1>2, <2>1
  <2>3. Cardinality({}) = 0
    BY FS_EmptySet
  <2>4. taken + 1 # 0
    BY <1>2
  <2> HIDE DEF D
  <2> QED BY <2>2, <2>3, <2>4
<1>4. ClosedIn(w, smooth, D)
  <2>1. Queued(rest) = {}
    BY DEF Queued
  <2> QED BY <1>1, <2>1 DEF ClosedIn
<1>5. /\ D \in RegionsOf(w, smooth)
      /\ \A R \in RegionsOf(w, smooth) : R \cap D # {} => R = D
  BY <1>1, <1>3, <1>4, RegionIs
<1>6. now \in Nat /\ now >= most /\ now >= taken + 1 /\ (now = most \/ now = taken + 1)
  BY <1>2
<1> HIDE DEF D, all, now
<1>7. all = (all \ D) \cup D /\ all \ {} = all
  BY <1>1
<1>8. ClosedIn(w, smooth, all)
  BY <1>1, <1>2, <1>4, <1>7 DEF ClosedIn
<1>9. ASSUME NEW R \in RegionsOf(w, smooth), R \cap all # {}
      PROVE  Cardinality(R) <= now
  <2>1. CASE R \cap D # {}
    BY <1>3, <1>5, <1>6, <2>1
  <2>2. CASE R \cap (all \ D) # {}
    <3>1. Cardinality(R) <= most
      BY <1>1, <1>2, <2>2 DEF MeasuredIn
    <3>2. Cardinality(R) \in Nat
      <4>1. R \in SUBSET smooth
        BY DEF RegionsOf
      <4>2. IsFiniteSet(R)
        BY <4>1, FS_Subset
      <4> QED BY <4>2, FS_CardinalityType
    <3> QED BY <1>2, <1>6, <3>1, <3>2
  <2> QED BY <1>7, <1>9, <2>1, <2>2
<1>10. now > 0 => \E R \in RegionsOf(w, smooth) : Cardinality(R) = now
  <2>1. CASE now = taken + 1
    BY <1>3, <1>5, <2>1
  <2>2. CASE now = most
    BY <1>2, <2>2 DEF MeasuredIn
  <2> QED BY <1>6, <2>1, <2>2
<1>11. MeasuredIn(w, smooth, all \ {}, now)
  BY <1>7, <1>9, <1>10 DEF MeasuredIn
<1>12. Together(w, smooth, {}) /\ <<>> \in Seq({}) /\ ClosedIn(w, smooth, all \ {})
  BY <1>7, <1>8 DEF Together
<1>13. \A p \in smooth : p < from => p \in all
  BY <1>2 DEF all
<1>14. Searching({}, w, smooth, all, <<>>, taken + 1, now, from)
  BY <1>1, <1>2, <1>6, <1>11, <1>12, <1>13 DEF Searching
<1> QED BY <1>14 DEF all, now

\* At the end no region is left that has not been measured, and none is larger
\* than all of them together.
LargestOf(w, smooth, most) ==
    /\ most \in Nat /\ most <= Cardinality(smooth)
    /\ \A R \in RegionsOf(w, smooth) : Cardinality(R) <= most
    /\ most > 0 => \E R \in RegionsOf(w, smooth) : Cardinality(R) = most

\* When every smooth pixel was seen, every region was measured.
LEMMA SearchIsOver ==
    ASSUME NEW w, NEW smooth, smooth \subseteq Nat, IsFiniteSet(smooth),
           NEW taken, NEW most, NEW from,
           Searching({}, w, smooth, smooth, <<>>, taken, most, from)
    PROVE  LargestOf(w, smooth, most)
<1>1. most \in Nat /\ MeasuredIn(w, smooth, smooth \ {}, most)
  BY DEF Searching
<1>2. smooth \ {} = smooth
  OBVIOUS
<1>3. ASSUME NEW R \in RegionsOf(w, smooth)
      PROVE  R \in SUBSET smooth /\ R \cap smooth # {}
  BY DEF RegionsOf
<1>4. /\ \A R \in RegionsOf(w, smooth) : Cardinality(R) <= most
      /\ most > 0 => \E R \in RegionsOf(w, smooth) : Cardinality(R) = most
  BY <1>1, <1>2, <1>3 DEF MeasuredIn
<1>5. most <= Cardinality(smooth)
  <2>1. Cardinality(smooth) \in Nat
    BY FS_CardinalityType
  <2>2. CASE most = 0
    BY <2>1, <2>2
  <2>3. CASE most > 0
    <3>1. PICK R \in RegionsOf(w, smooth) : Cardinality(R) = most
      BY <1>4, <2>3
    <3>2. Cardinality(R) <= Cardinality(smooth)
      BY <1>3, FS_Subset
    <3> QED BY <3>1, <3>2
  <2> QED BY <1>1, <2>2, <2>3
<1> QED BY <1>1, <1>4, <1>5 DEF LargestOf

(***************************************************************************)
(* The percentiles and the gates.                                          *)
(***************************************************************************)
Above(texture, v) == {p \in DOMAIN texture : texture[p] > v}
FromOn(texture, v) == {p \in DOMAIN texture : texture[p] >= v}

\* The rank of a percentile is that of a value, and not above its share.
LEMMA BeforeIs ==
    ASSUME NEW percent \in 0 .. 100, NEW n \in Nat, n >= 1
    PROVE  Before(percent, n) \in 0 .. n - 1 /\ 100 * Before(percent, n) <= percent * n
<1> DEFINE a == percent * n
           rank == (a + 99) \div 100
<1>1. a \in Nat /\ a <= 100 * n
  BY SMT
<1>2. Before(percent, n) = IF rank = 0 THEN 0 ELSE rank - 1
  BY DEF Before
<1> HIDE DEF a
<1>3. rank \in Nat /\ 100 * rank <= a + 99
  BY <1>1, SMT
<1> HIDE DEF rank
<1> QED BY <1>1, <1>2, <1>3 DEF a

\* There is a nearest rank: the least number that few enough values exceed is
\* one of the values.
LEMMA RankExists ==
    ASSUME NEW S, IsFiniteSet(S), NEW texture \in [S -> Nat],
           NEW index \in Nat, index < Cardinality(S)
    PROVE  \E v \in {texture[p] : p \in S} :
              Cardinality(Above(texture, v)) <= index /\ index < Cardinality(FromOn(texture, v))
<1> DEFINE T == {v \in Nat : Cardinality(Above(texture, v)) <= index}
<1>0. DOMAIN texture = S /\ \A p \in S : texture[p] \in Nat
  OBVIOUS
<1>1. T # {}
  <2> DEFINE top == Total(texture, S)
  <2>1. top \in Nat /\ \A p \in S : texture[p] <= top
    BY TotalIsNat
  <2> HIDE DEF top
  <2>2. Above(texture, top) = {}
    BY <1>0, <2>1 DEF Above
  <2>3. Cardinality(Above(texture, top)) = 0
    BY <2>2, FS_EmptySet
  <2> QED BY <2>1, <2>3
<1>2. PICK v \in T : \A u \in T : v <= u
  <2>1. T \subseteq Nat
    OBVIOUS
  <2> HIDE DEF T
  <2> QED BY <1>1, <2>1, NatMin
<1>3. v \in Nat /\ Cardinality(Above(texture, v)) <= index
  OBVIOUS
<1>4. /\ Cardinality(Above(texture, v)) \in Nat /\ Cardinality(FromOn(texture, v)) \in Nat
  <2>1. Above(texture, v) \in SUBSET S /\ FromOn(texture, v) \in SUBSET S
    BY <1>0 DEF Above, FromOn
  <2> QED BY <2>1, FS_Subset, FS_CardinalityType
<1>5. index < Cardinality(FromOn(texture, v))
  <2>1. CASE v = 0
    <3>1. FromOn(texture, v) = S
      BY <1>0, <2>1 DEF FromOn
    <3> QED BY <3>1
  <2>2. CASE v # 0
    <3>1. v - 1 \in Nat /\ ~(v <= v - 1)
      BY <1>3, <2>2
    <3>2. ~(Cardinality(Above(texture, v - 1)) <= index)
      BY <1>2, <3>1
    <3>3. Above(texture, v - 1) = FromOn(texture, v)
      BY <1>0, <1>3, <3>1 DEF Above, FromOn
    <3>4. ~(Cardinality(FromOn(texture, v)) <= index)
      BY <3>2, <3>3
    <3> QED BY <1>4, <3>4
  <2> QED BY <2>1, <2>2
<1>6. PICK p \in S : p \in FromOn(texture, v) /\ p \notin Above(texture, v)
  <2>1. FromOn(texture, v) # Above(texture, v)
    BY <1>3, <1>4, <1>5
  <2>2. Above(texture, v) \subseteq FromOn(texture, v) /\ FromOn(texture, v) \subseteq S
    BY <1>0, <1>3 DEF Above, FromOn
  <2> QED BY <2>1, <2>2
<1>7. texture[p] = v
  BY <1>0, <1>3, <1>6 DEF Above, FromOn
<1> QED BY <1>3, <1>5, <1>7

\* No more than its share of the values lies above a percentile.
LEMMA PercentileIs ==
    ASSUME NEW S, IsFiniteSet(S), S # {}, NEW texture \in [S -> Nat], NEW percent \in 0 .. 100
    PROVE  /\ percentile(texture, percent) \in Nat
           /\ 100 * Cardinality(Above(texture, percentile(texture, percent))) <= percent * Cardinality(S)
<1> DEFINE n == Cardinality(S)
           index == Before(percent, n)
           found == percentile(texture, percent)
           Right(v) == Cardinality(Above(texture, v)) <= index /\ index < Cardinality(FromOn(texture, v))
<1>1. n \in Nat /\ n >= 1
  <2>1. n \in Nat /\ (n = 0 <=> S = {})
    BY FS_CardinalityType, FS_EmptySet
  <2> QED BY <2>1
<1>2. index \in 0 .. n - 1 /\ 100 * index <= percent * n
  <2> HIDE DEF n
  <2> QED BY <1>1, BeforeIs
<1>3. DOMAIN texture = S
  OBVIOUS
<1>4. found = CHOOSE v \in {texture[p] : p \in S} : Right(v)
  BY <1>3 DEF percentile, Above, FromOn
<1>5. \E v \in {texture[p] : p \in S} : Right(v)
  <2>1. index \in Nat /\ index < Cardinality(S)
    BY <1>1, <1>2
  <2> HIDE DEF index
  <2> QED BY <2>1, RankExists
<1>6. found \in {texture[p] : p \in S} /\ Right(found)
  <2> HIDE DEF Right, found
  <2> QED BY <1>4, <1>5
<1>7. Cardinality(Above(texture, found)) \in Nat
  <2>1. Above(texture, found) \in SUBSET S
    BY <1>3 DEF Above
  <2> QED BY <2>1, FS_Subset, FS_CardinalityType
<1> DEFINE c == Cardinality(Above(texture, found))
<1>8. found \in Nat /\ c <= index
  BY <1>6
<1>9. 100 * c <= percent * n
  <2> DEFINE limit == percent * n
  <2>1. limit \in Int
    BY <1>1, SMT
  <2> HIDE DEF c, index, limit
  <2> QED BY <1>2, <1>7, <1>8, <2>1 DEF c, limit
<1> QED BY <1>8, <1>9

\* Inside the picture the neighbours are the pixels beside.
LEMMA NeighboursAre ==
    ASSUME IsPicture(picture), plane \in Picture(Width, Height), NEW p \in Positions, NEW q \in Positions
    PROVE  /\ q \in Neighbours(p) <=> Beside(Width, p, q)
           /\ Neighbour(p, q) <=> Beside(Width, p, q)
<1> DEFINE w == Width
           h == Height
           x == p % w
           y == p \div w
<1>1. w \in Nat /\ w >= 2 /\ h \in Nat /\ h >= 2 /\ Positions = 0 .. w * h - 1
  BY DEF IsPicture, Width, Height, Positions, Picture
<1>2. x \in 0 .. w - 1 /\ y \in 0 .. h - 1 /\ p = y * w + x
  <2> HIDE DEF w, h
  <2>1. w >= 1 /\ h >= 1
    BY <1>1
  <2> QED BY <1>1, <2>1, OfRow
<1>3. q % w \in 0 .. w - 1 /\ q \div w \in 0 .. h - 1 /\ q = (q \div w) * w + (q % w)
  <2> HIDE DEF w, h
  <2>1. w >= 1 /\ h >= 1
    BY <1>1
  <2> QED BY <1>1, <2>1, OfRow
<1>4. p \in Int /\ q \in Int /\ p >= 0 /\ q >= 0 /\ w * h \in Int /\ p < w * h /\ q < w * h
  <2>1. w * h \in Int
    BY <1>1, SMT
  <2> QED BY <1>1, <2>1
<1>5. Neighbour(p, q) <=> Beside(w, p, q)
  BY DEF Neighbour, Beside
<1>6. Beside(w, p, q) <=> \/ y = q \div w /\ (q = p - 1 \/ q = p + 1)
                          \/ q = p - w \/ q = p + w
  <2> HIDE DEF w
  <2> QED BY <1>1, <1>4 DEF Beside, Abs
<1>7. q \in Neighbours(p) <=>
         /\ q \in {p - 1, p + 1, p - w, p + w}
         /\ q = p - 1 => x > 0
         /\ q = p + 1 => x + 1 < w
         /\ q = p - w => y > 0
         /\ q = p + w => y + 1 < h
  BY DEF Neighbours
<1> HIDE DEF w, h, x, y
<1>8. q = p - 1 => (x > 0 <=> y = q \div w)
  <2> SUFFICES ASSUME q = p - 1 PROVE x > 0 <=> y = q \div w
    OBVIOUS
  <2>1. CASE x > 0
    <3>1. q = y * w + (x - 1) /\ x - 1 \in 0 .. w - 1 /\ y \in Int /\ w >= 1
      BY <1>1, <1>2, <2>1, SMT
    <3>2. (y * w + (x - 1)) \div w = y
      BY <1>1, <3>1, QuotientOf
    <3> QED BY <2>1, <3>1, <3>2
  <2>2. CASE x = 0
    <3>1. q = (y - 1) * w + (w - 1) /\ w - 1 \in 0 .. w - 1 /\ y - 1 \in Int /\ w >= 1
      BY <1>1, <1>2, <2>2, SMT
    <3>2. ((y - 1) * w + (w - 1)) \div w = y - 1
      BY <1>1, <3>1, QuotientOf
    <3> QED BY <1>2, <2>2, <3>1, <3>2
  <2> QED BY <1>2, <2>1, <2>2
<1>9. q = p + 1 => (x + 1 < w <=> y = q \div w)
  <2> SUFFICES ASSUME q = p + 1 PROVE x + 1 < w <=> y = q \div w
    OBVIOUS
  <2>1. CASE x + 1 < w
    <3>1. q = y * w + (x + 1) /\ x + 1 \in 0 .. w - 1 /\ y \in Int /\ w >= 1
      BY <1>1, <1>2, <2>1, SMT
    <3>2. (y * w + (x + 1)) \div w = y
      BY <1>1, <3>1, QuotientOf
    <3> QED BY <2>1, <3>1, <3>2
  <2>2. CASE x + 1 = w
    <3>1. q = (y + 1) * w + 0 /\ 0 \in 0 .. w - 1 /\ y + 1 \in Int /\ w >= 1
      BY <1>1, <1>2, <2>2, SMT
    <3>2. ((y + 1) * w + 0) \div w = y + 1
      BY <1>1, <3>1, QuotientOf
    <3> QED BY <1>1, <1>2, <2>2, <3>1, <3>2
  <2> QED BY <1>1, <1>2, <2>1, <2>2
<1>10. q = p - w => y > 0
  <2> SUFFICES ASSUME q = p - w, y = 0 PROVE FALSE
    BY <1>2
  <2>1. p = x
    <3>1. y * w = 0
      BY <1>1, SMT
    <3> QED BY <1>2, <3>1
  <2> QED BY <1>1, <1>2, <1>4, <2>1
<1>11. q = p + w => y + 1 < h
  <2> SUFFICES ASSUME q = p + w, y + 1 = h PROVE FALSE
    BY <1>1, <1>2
  <2>1. w * h = y * w + w
    BY <1>1, <1>2, SMT
  <2> QED BY <1>1, <1>2, <1>4, <2>1
<1>12. p - 1 # p - w /\ p + 1 # p + w /\ p - 1 # p + w /\ p + 1 # p - w /\ p - 1 # p + 1
  BY <1>1, <1>4
<1>13. q \in Neighbours(p) <=> Beside(w, p, q)
  BY <1>6, <1>7, <1>8, <1>9, <1>10, <1>11, <1>12
<1> QED BY <1>5, <1>13 DEF w

(***************************************************************************)
(* What holds while the cost map is computed.                              *)
(***************************************************************************)
BeforeSearch == {"high_pass", "first", "second", "validate"}
Unsearched == visited = {} /\ queue = <<>> /\ size = 0 /\ largest = 0 /\ start = 0
FewSmooth == 100 * Cardinality(Smooth) <= SMOOTH_PERCENTILE * Cardinality(Positions)
SearchGoes == \E C : Searching(C, Width, Smooth, visited, queue, size, largest, start)
AllMeasured ==
    /\ \A R \in RegionsOf(Width, Smooth) : Cardinality(R) <= largest
    /\ largest > 0 => \E R \in RegionsOf(Width, Smooth) : Cardinality(R) = largest

Computing ==
    /\ picture \in Pictures /\ plane \in Picture(Width, Height)
    /\ stage \in BeforeSearch \cup {"search", "texture", "done"}
    /\ stage \in BeforeSearch => Unsearched
    /\ stage = "search" => FewSmooth /\ SearchGoes
    /\ stage = "texture" => AllMeasured
    /\ FirstTwoGatesPass

\* Every picture has a pixel.
LEMMA PicturesAre ==
    ASSUME picture \in Pictures
    PROVE  /\ IsPicture(picture)
           /\ Width \in Nat /\ Width >= 1 /\ Height \in Nat /\ Height >= 1
<1>1. IsPicture(picture)
  BY FileAssumption
<1> QED BY <1>1 DEF IsPicture, Width, Height

\* The positions are the pixels of the picture, finitely many.
LEMMA PlanesAreFinite ==
    ASSUME picture \in Pictures, plane \in Picture(Width, Height)
    PROVE  /\ Positions = 0 .. Width * Height - 1 /\ IsFiniteSet(Positions) /\ Positions # {}
           /\ plane \in [Positions -> Nat] /\ Smooth \subseteq Nat /\ IsFiniteSet(Smooth)
           /\ Cardinality(Positions) \in Nat
<1> DEFINE n == Width * Height
<1>1. n \in Nat /\ n >= 1
  <2>1. Width \in Nat /\ Width >= 1 /\ Height \in Nat /\ Height >= 1
    BY PicturesAre
  <2> QED BY <2>1, SMT
<1>2. Positions = 0 .. n - 1 /\ plane \in [Positions -> Nat]
  BY DEF Picture, Positions
<1> HIDE DEF n
<1>3. IsFiniteSet(Positions) /\ 0 \in Positions /\ Positions \subseteq Nat
  BY <1>1, <1>2, FS_Interval
<1>4. Smooth \in SUBSET Positions
  BY DEF Smooth
<1> QED BY <1>2, <1>3, <1>4, FS_Subset, FS_CardinalityType DEF n

\* At the start nothing has been searched.
LEMMA ComputingInit == Init => Computing
<1> SUFFICES ASSUME Init PROVE Computing
  OBVIOUS
<1>1. PICK r \in Requests : HillInit({r[2]})
  BY DEF Init
<1>2. picture \in Pictures /\ plane = picture.luma /\ stage = "high_pass" /\ Unsearched /\ verdict = "pending"
  <2>1. picture = r[2] /\ r[2] \in Pictures
    BY <1>1, FileAssumption DEF HillInit
  <2> QED BY <1>1, <2>1 DEF HillInit, Unsearched
<1>3. plane \in Picture(Width, Height)
  BY <1>2, PicturesAre DEF IsPicture, Picture, Width, Height
<1> QED BY <1>2, <1>3 DEF Computing, BeforeSearch, FirstTwoGatesPass

\* The filters.
LEMMA FiltersKeep ==
    ASSUME Computing, HighPass \/ FirstSmoothing \/ SecondSmoothing
    PROVE  Computing'
<1>1. picture \in Pictures /\ plane \in Picture(Width, Height)
      /\ Width \in Nat /\ Width >= 1 /\ Height \in Nat /\ Height >= 1
  BY PicturesAre DEF Computing
<1>2. FIRST_SMOOTHING \in Seq(Nat) /\ SECOND_SMOOTHING \in Seq(Nat)
  BY HillAssumption DEF IsKernel
<1>3. \E from \in BeforeSearch, to \in BeforeSearch, filtered \in Picture(Width, Height) :
         Filter(from, to, filtered)
  <2>1. CASE HighPass
    <3>1. high_pass(plane, Width, Height) \in Picture(Width, Height)
      BY <1>1, HighPassKeeps
    <3> QED BY <2>1, <3>1 DEF HighPass, BeforeSearch
  <2>2. CASE FirstSmoothing
    <3>1. convolve_separable(plane, Width, Height, FIRST_SMOOTHING) \in Picture(Width, Height)
      BY <1>1, <1>2, SmoothingKeeps
    <3> QED BY <2>2, <3>1 DEF FirstSmoothing, BeforeSearch
  <2>3. CASE SecondSmoothing
    <3>1. convolve_separable(plane, Width, Height, SECOND_SMOOTHING) \in Picture(Width, Height)
      BY <1>1, <1>2, SmoothingKeeps
    <3> QED BY <2>3, <3>1 DEF SecondSmoothing, BeforeSearch
  <2> QED BY <2>1, <2>2, <2>3
<1>4. PICK from \in BeforeSearch : \E to \in BeforeSearch, filtered \in Picture(Width, Height) :
         Filter(from, to, filtered)
  BY <1>3
<1>5. PICK to \in BeforeSearch : \E filtered \in Picture(Width, Height) : Filter(from, to, filtered)
  BY <1>4
<1>6. PICK filtered \in Picture(Width, Height) : Filter(from, to, filtered)
  BY <1>5
<1>7. /\ stage \in BeforeSearch /\ stage' \in BeforeSearch /\ plane' \in Picture(Width, Height)
      /\ picture' = picture /\ visited' = visited /\ queue' = queue /\ size' = size
      /\ largest' = largest /\ start' = start /\ verdict' = verdict
  BY <1>6 DEF Filter, searchVars
<1>8. Width' = Width /\ Height' = Height
  BY <1>7 DEF Width, Height
<1>9. Unsearched'
  BY <1>7 DEF Computing, Unsearched
<1> QED BY <1>7, <1>8, <1>9 DEF Computing, BeforeSearch, FirstTwoGatesPass

\* A share within one limit is within a larger one.
LEMMA NotOver ==
    ASSUME NEW c \in Nat, NEW a \in Nat, NEW b \in Nat, NEW n \in Nat, a <= b, 100 * c <= a * n
    PROVE  ~(100 * c > b * n)
<1>1. a * n <= b * n
  BY SMT
<1>2. a * n \in Int /\ b * n \in Int
  BY SMT
<1> QED BY <1>1, <1>2, SMT

\* The first gate: few pixels lie above their own percentile.
LEMMA RatioKeeps ==
    ASSUME Computing, SmoothRatioGate
    PROVE  Computing'
<1>1. picture \in Pictures /\ plane \in Picture(Width, Height) /\ Unsearched /\ stage = "validate"
  BY DEF Computing, SmoothRatioGate, BeforeSearch
<1>2. /\ IsFiniteSet(Positions) /\ Positions # {} /\ plane \in [Positions -> Nat]
      /\ Cardinality(Positions) \in Nat
  BY <1>1, PlanesAreFinite
<1> DEFINE threshold == percentile(plane, SMOOTH_PERCENTILE)
           smooth == {p \in Positions : plane[p] > threshold}
           n == Cardinality(Positions)
<1>3. SMOOTH_PERCENTILE \in 0 .. 100 /\ SMOOTH_PERCENTILE <= MAX_SMOOTH_RATIO
  BY HillAssumption
<1>4. smooth = Above(plane, threshold)
  BY DEF Above, Positions
<1>5. 100 * Cardinality(smooth) <= SMOOTH_PERCENTILE * n
  BY <1>2, <1>3, <1>4, PercentileIs
<1>6. /\ theta' = threshold
      /\ IF 100 * Cardinality(smooth) > MAX_SMOOTH_RATIO * n
         THEN Refuse("excessive_smooth_regions")
         ELSE stage' = "search" /\ UNCHANGED verdict
      /\ picture' = picture /\ plane' = plane /\ visited' = visited /\ queue' = queue /\ size' = size
      /\ largest' = largest /\ start' = start
  BY DEF SmoothRatioGate, searchVars
<1>7. Width' = Width /\ Height' = Height /\ Positions' = Positions /\ Smooth' = smooth
  BY <1>6 DEF Width, Height, Positions, Smooth
<1>8. Cardinality(smooth) \in Nat /\ smooth \subseteq Nat
  <2>1. Smooth' \subseteq Nat
    <3>1. Positions \subseteq Nat
      BY <1>1, PlanesAreFinite
    <3> QED BY <1>7, <3>1
  <2>2. smooth \in SUBSET Positions
    OBVIOUS
  <2> QED BY <1>2, <1>7, <2>1, <2>2, FS_Subset, FS_CardinalityType
<1> HIDE DEF threshold, smooth
<1>9. ~(100 * Cardinality(smooth) > MAX_SMOOTH_RATIO * n)
  <2> HIDE DEF n
  <2> QED BY <1>2, <1>3, <1>5, <1>8, HillAssumption, NotOver DEF n
<1>10. stage' = "search" /\ verdict' = verdict
  BY <1>6, <1>9
<1>11. FewSmooth'
  BY <1>5, <1>7 DEF FewSmooth
<1>12. Searching({}, Width, smooth, {}, <<>>, 0, 0, 0)
  <2>1. Together(Width, smooth, {}) /\ ClosedIn(Width, smooth, {} \ {})
    BY DEF Together, ClosedIn
  <2>2. MeasuredIn(Width, smooth, {} \ {}, 0)
    BY DEF MeasuredIn
  <2>3. \A p \in smooth : p < 0 => p \in {}
    BY <1>8
  <2>4. <<>> \in Seq({})
    OBVIOUS
  <2> QED BY <2>1, <2>2, <2>3, <2>4 DEF Searching
<1>13. SearchGoes'
  <2>1. visited' = {} /\ queue' = <<>> /\ size' = 0 /\ largest' = 0 /\ start' = 0
    BY <1>1, <1>6 DEF Unsearched
  <2> QED BY <1>7, <1>12, <2>1 DEF SearchGoes
<1>14. picture' \in Pictures /\ plane' \in Picture(Width', Height')
  BY <1>1, <1>6, <1>7
<1> QED BY <1>10, <1>11, <1>13, <1>14 DEF Computing, BeforeSearch, FirstTwoGatesPass

\* One step of the search.
LEMMA SearchKeeps ==
    ASSUME Computing, StartRegion \/ GrowRegion
    PROVE  Computing'
<1>1. picture \in Pictures /\ plane \in Picture(Width, Height) /\ stage = "search" /\ FewSmooth /\ SearchGoes
  BY DEF Computing, StartRegion, GrowRegion
<1>2. /\ picture' = picture /\ plane' = plane /\ stage' = stage /\ theta' = theta /\ verdict' = verdict
  BY DEF StartRegion, GrowRegion
<1>3. Width' = Width /\ Height' = Height /\ Positions' = Positions
  BY <1>2 DEF Width, Height, Positions
<1>4. Smooth' = Smooth
  BY <1>2 DEF Smooth, Positions
<1>5. Smooth \subseteq Nat /\ IsFiniteSet(Smooth)
  BY <1>1, PlanesAreFinite
<1> DEFINE w == Width
           smooth == Smooth
<1>6. PICK C : Searching(C, w, smooth, visited, queue, size, largest, start)
  BY <1>1 DEF SearchGoes
<1>7. \E D : Searching(D, w, smooth, visited', queue', size', largest', start')
  <2>1. CASE StartRegion
    <3> DEFINE free == {p \in Smooth \ visited : p >= start}
               next == CHOOSE p \in free : \A q \in free : p <= q
    <3>1. /\ queue = <<>> /\ free # {} /\ start' = next + 1 /\ visited' = visited \cup {next}
          /\ queue' = <<next>> /\ size' = 0 /\ largest' = largest
      BY <2>1 DEF StartRegion
    <3>2. next \in free /\ \A q \in free : next <= q
      <4>1. \E p \in free : \A q \in free : p <= q
        <5>1. free \subseteq Nat
          BY <1>5
        <5> HIDE DEF free
        <5> QED BY <3>1, <5>1, NatMin
      <4> HIDE DEF free
      <4> QED BY <4>1
    <3>3. next \in smooth \ visited /\ \A q \in smooth \ visited : q >= start => next <= q
      <4> HIDE DEF next
      <4> QED BY <3>2
    <3> HIDE DEF next, free, smooth, w
    <3>4. C = {}
      BY <1>6, <3>1 DEF Searching
    <3>5. Searching({}, w, smooth, visited, <<>>, size, largest, start)
      BY <1>6, <3>1, <3>4
    <3>6. Searching({next}, w, smooth, visited \cup {next}, <<next>>, 0, largest, next + 1)
      BY <1>5, <3>3, <3>5, SearchStarts DEF smooth
    <3> QED BY <3>1, <3>6
  <2>2. CASE GrowRegion
    <3> DEFINE joined == Joining(w, smooth, visited, Head(queue))
               rest == Waiting(queue, joined)
    <3>0. queue # <<>> /\ Head(queue) \in Positions /\ smooth \subseteq Positions
      <4>1. queue # <<>>
        BY <2>2 DEF GrowRegion
      <4>2. smooth \subseteq Positions
        BY DEF Smooth
      <4>3. queue \in Seq(C) /\ C \subseteq smooth
        BY <1>6 DEF Searching
      <4>4. Head(queue) \in C
        BY <4>1, <4>3
      <4> QED BY <4>1, <4>2, <4>3, <4>4
    <3>1. joined = Neighbours(Head(queue)) \cap (Smooth \ visited)
      <4>1. \A q \in Smooth : q \in Neighbours(Head(queue)) <=> Beside(w, Head(queue), q)
        BY <1>1, <3>0, PicturesAre, NeighboursAre
      <4> QED BY <4>1 DEF Joining
    <3>2. /\ visited' = visited \cup joined /\ queue' = rest /\ size' = size + 1 /\ start' = start
          /\ largest' = IF queue' = <<>> /\ size' > largest THEN size' ELSE largest
      BY <2>2, <3>1 DEF GrowRegion, Waiting
    <3>3. smooth \subseteq Nat /\ IsFiniteSet(smooth)
      BY <1>5
    <3> HIDE DEF smooth, w
    <3>4. joined = Joining(w, smooth, visited, Head(queue)) /\ rest = Waiting(queue, joined)
      OBVIOUS
    <3> HIDE DEF joined, rest
    <3>5. CASE rest # <<>>
      <4>1. Searching(C \cup joined, w, smooth, visited \cup joined, rest, size + 1, largest, start)
        BY <1>6, <3>0, <3>3, <3>4, <3>5, SearchGoesOn
      <4>2. largest' = largest
        BY <3>2, <3>5
      <4> QED BY <3>2, <4>1, <4>2
    <3>6. CASE rest = <<>>
      <4>1. Searching({}, w, smooth, visited \cup joined, <<>>, size + 1,
                      IF size + 1 > largest THEN size + 1 ELSE largest, start)
        BY <1>6, <3>0, <3>3, <3>4, <3>6, RegionIsMeasured
      <4>2. largest' = IF size + 1 > largest THEN size + 1 ELSE largest
        BY <3>2, <3>6
      <4>3. queue' = <<>>
        BY <3>2, <3>6
      <4> QED BY <3>2, <4>1, <4>2, <4>3
    <3> QED BY <3>5, <3>6
  <2> QED BY <2>1, <2>2
<1>8. SearchGoes'
  BY <1>3, <1>4, <1>7 DEF SearchGoes
<1>9. FewSmooth'
  BY <1>1, <1>3, <1>4 DEF FewSmooth
<1> QED BY <1>1, <1>2, <1>3, <1>8, <1>9 DEF Computing, BeforeSearch, FirstTwoGatesPass

\* The second gate: no region is larger than all of them together.
LEMMA RegionKeeps ==
    ASSUME Computing, SmoothRegionGate
    PROVE  Computing'
<1>1. /\ picture \in Pictures /\ plane \in Picture(Width, Height) /\ FewSmooth /\ SearchGoes
      /\ queue = <<>> /\ \A p \in Smooth \ visited : p < start
  BY DEF Computing, SmoothRegionGate
<1>2. /\ picture' = picture /\ plane' = plane /\ theta' = theta /\ largest' = largest
  BY DEF SmoothRegionGate, searchVars
<1>3. Smooth \subseteq Nat /\ IsFiniteSet(Smooth) /\ Cardinality(Smooth) \in Nat /\ Cardinality(Positions) \in Nat
  BY <1>1, PlanesAreFinite, FS_CardinalityType
<1>4. /\ largest \in Nat /\ largest <= Cardinality(Smooth) /\ AllMeasured
  <2>1. PICK C : Searching(C, Width, Smooth, visited, queue, size, largest, start)
    BY <1>1 DEF SearchGoes
  <2>2. C = {}
    BY <1>1, <2>1 DEF Searching
  <2>3. Searching({}, Width, Smooth, visited, <<>>, size, largest, start)
    BY <1>1, <2>1, <2>2
  <2>4. /\ largest \in Nat /\ largest <= Cardinality(Smooth)
        /\ \A R \in RegionsOf(Width, Smooth) : Cardinality(R) <= largest
        /\ largest > 0 => \E R \in RegionsOf(Width, Smooth) : Cardinality(R) = largest
    <3> DEFINE w == Width
               smooth == Smooth
    <3>1. smooth \subseteq Nat /\ IsFiniteSet(smooth) /\ \A p \in smooth \ visited : p < start
      BY <1>1, <1>3
    <3>2. Searching({}, w, smooth, visited, <<>>, size, largest, start)
      BY <2>3
    <3> HIDE DEF w, smooth
    <3>3. visited \subseteq smooth /\ \A p \in smooth : p < start => p \in visited
      BY <3>2 DEF Searching
    <3>4. visited = smooth
      BY <3>1, <3>3
    <3>5. Searching({}, w, smooth, smooth, <<>>, size, largest, start)
      BY <3>2, <3>4
    <3>6. LargestOf(w, smooth, largest)
      BY <3>1, <3>5, SearchIsOver
    <3> QED BY <3>6 DEF w, smooth, LargestOf
  <2> QED BY <2>4 DEF AllMeasured
<1>5. ~(100 * largest > MAX_SMOOTH_REGION_RATIO * Cardinality(Positions))
  <2>1. 100 * largest <= SMOOTH_PERCENTILE * Cardinality(Positions)
    <3> DEFINE limit == SMOOTH_PERCENTILE * Cardinality(Positions)
    <3>1. limit \in Int
      BY <1>3, HillAssumption, SMT
    <3>2. 100 * Cardinality(Smooth) <= limit
      BY <1>1 DEF FewSmooth
    <3> HIDE DEF limit
    <3>3. 100 * largest <= limit
      BY <1>3, <1>4, <3>1, <3>2
    <3> QED BY <3>3 DEF limit
  <2> QED BY <1>3, <1>4, <2>1, HillAssumption, NotOver
<1>6. stage' = "texture" /\ verdict' = verdict
  BY <1>5 DEF SmoothRegionGate
<1>7. Width' = Width /\ Height' = Height /\ Smooth' = Smooth
  BY <1>2 DEF Width, Height, Smooth, Positions
<1>8. AllMeasured'
  BY <1>2, <1>4, <1>7 DEF AllMeasured
<1> QED BY <1>1, <1>2, <1>6, <1>7, <1>8 DEF Computing, BeforeSearch, FirstTwoGatesPass

\* The last gate changes the verdict alone.
LEMMA TextureKeeps ==
    ASSUME Computing, TextureGate
    PROVE  Computing'
<1>1. /\ picture' = picture /\ plane' = plane /\ stage' = "done"
      /\ verdict' \in {"insufficient_global_texture", "usable"}
  BY DEF TextureGate, Refuse
<1>2. Width' = Width /\ Height' = Height
  BY <1>1 DEF Width, Height
<1> QED BY <1>1, <1>2 DEF Computing, BeforeSearch, FirstTwoGatesPass

\* Every step keeps Computing.
LEMMA ComputingStep ==
    ASSUME Computing, [Next]_vars
    PROVE  Computing'
<1>1. CASE Compute
  <2>1. Hill
    BY <1>1 DEF Compute
  <2> QED BY <2>1, FiltersKeep, RatioKeeps, SearchKeeps, RegionKeeps, TextureKeeps DEF Hill
<1>2. CASE Decode \/ Detect \/ Render \/ WritePng \/ Reread \/ ReadPayload \/ Finished \/ UNCHANGED vars
  <2>1. UNCHANGED hillVars
    BY <1>2 DEF Decode, Detect, Render, WritePng, Reread, ReadPayload, Finished, vars
  <2>2. /\ picture' = picture /\ plane' = plane /\ stage' = stage /\ theta' = theta /\ start' = start
        /\ visited' = visited /\ queue' = queue /\ size' = size /\ largest' = largest /\ verdict' = verdict
    BY <2>1 DEF hillVars
  <2>3. Width' = Width /\ Height' = Height /\ Positions' = Positions
    BY <2>2 DEF Width, Height, Positions
  <2>4. Smooth' = Smooth
    BY <2>2 DEF Smooth, Positions
  <2>5. FewSmooth' = FewSmooth /\ SearchGoes' = SearchGoes /\ AllMeasured' = AllMeasured /\ Unsearched' = Unsearched
    BY <2>2, <2>3, <2>4 DEF FewSmooth, SearchGoes, AllMeasured, Unsearched
  <2> QED BY <2>2, <2>3, <2>5 DEF Computing, FirstTwoGatesPass
<1> QED BY <1>1, <1>2 DEF Next

\* The cost map, at every moment.
LEMMA ComputingAlways == Spec => []Computing
<1>1. Init => Computing
  BY ComputingInit
<1>2. Computing /\ [Next]_vars => Computing'
  BY ComputingStep
<1> QED BY <1>1, <1>2, PTL DEF Spec

\* The search measures the largest of the regions, and none is so large, nor
\* are all of them together, that a picture is refused for it.
THEOREM RegionIsLargest == Spec => []LargestRegion
<1>1. Computing => LargestRegion
  <2> SUFFICES ASSUME Computing PROVE LargestRegion
    OBVIOUS
  <2>1. ASSUME stage = "texture" PROVE Regions = RegionsOf(Width, Smooth)
    <3>1. picture \in Pictures /\ plane \in Picture(Width, Height)
      BY DEF Computing
    <3>2. \A p, q \in Smooth : Neighbour(p, q) <=> Beside(Width, p, q)
      BY <3>1, PicturesAre, NeighboursAre DEF Smooth
    <3>3. \A R \in SUBSET Smooth : Closed(R) <=> ClosedIn(Width, Smooth, R)
      BY <3>2 DEF Closed, ClosedIn
    <3>4. ASSUME NEW R \in SUBSET Smooth
          PROVE  (\A S \in SUBSET R : S \in {{}, R} \/ ~Closed(S))
                   <=> (\A S \in SUBSET R : S \in {{}, R} \/ ~ClosedIn(Width, Smooth, S))
      BY <3>3
    <3> QED BY <3>3, <3>4 DEF Regions, RegionsOf
  <2>2. stage = "texture" => AllMeasured
    BY DEF Computing
  <2> QED BY <2>1, <2>2 DEF LargestRegion, AllMeasured, Computing
<1> QED BY <1>1, ComputingAlways, PTL

(***************************************************************************)
(* The detector.  The steps of a block join pixels next to each other, and *)
(* cross a border of the grid exactly when they are said to.               *)
(***************************************************************************)
BlockOf(w, p) == <<(p % w) \div BLOCK_SIZE, (p \div w) \div BLOCK_SIZE>>
Left(b, w) == (b % (w \div BLOCK_SIZE)) * BLOCK_SIZE
Top(b, w) == (b \div (w \div BLOCK_SIZE)) * BLOCK_SIZE

IsStep(s, w, h) ==
    /\ s.from \in 0 .. w * h - 1 /\ s.to \in 0 .. w * h - 1 /\ s.edge \in BOOLEAN
    /\ s = [from |-> s.from, to |-> s.to, edge |-> s.edge]
    /\ Beside(w, s.from, s.to)
    /\ s.edge <=> BlockOf(w, s.from) # BlockOf(w, s.to)

\* A picture holds a block in either direction.
LEMMA BlocksAre ==
    ASSUME NEW w \in Nat, w > BLOCK_SIZE, NEW h \in Nat, h > BLOCK_SIZE
    PROVE  /\ w \div BLOCK_SIZE \in Nat /\ w \div BLOCK_SIZE >= 1 /\ (w \div BLOCK_SIZE) * BLOCK_SIZE <= w
           /\ h \div BLOCK_SIZE \in Nat /\ h \div BLOCK_SIZE >= 1 /\ (h \div BLOCK_SIZE) * BLOCK_SIZE <= h
<1> DEFINE B == BLOCK_SIZE
<1>1. B \in Nat /\ B >= 1
  BY GridAssumption
<1>2. ASSUME NEW n \in Nat, n > B
      PROVE  n \div B \in Nat /\ n \div B >= 1 /\ (n \div B) * B <= n
  <2> HIDE DEF B
  <2> DEFINE q == n \div B
             r == n % B
  <2>1. q \in Int /\ r \in 0 .. B - 1 /\ n = q * B + r
    BY <1>1, Division
  <2> HIDE DEF q, r
  <2>2. q * B <= n /\ q * B > 0
    BY <1>1, <1>2, <2>1, SMT
  <2>3. q >= 1
    BY <1>1, <2>1, <2>2, SMT
  <2> QED BY <2>1, <2>2, <2>3 DEF q
<1> QED BY <1>2

\* A block lies inside the picture, at a multiple of the block size, and only the
\* last one has no room behind it in either direction.
LEMMA CornerOf ==
    ASSUME NEW w \in Nat, w > BLOCK_SIZE, NEW h \in Nat, h > BLOCK_SIZE, NEW b, b \in Blocks(w, h)
    PROVE  \E bx, by \in Nat :
             /\ Left(b, w) = bx * BLOCK_SIZE /\ Left(b, w) + BLOCK_SIZE <= w
             /\ Top(b, w) = by * BLOCK_SIZE /\ Top(b, w) + BLOCK_SIZE <= h
             /\ \/ Left(b, w) + BLOCK_SIZE < w \/ Top(b, w) + BLOCK_SIZE < h
                \/ b = (w \div BLOCK_SIZE) * (h \div BLOCK_SIZE) - 1
<1> DEFINE B == BLOCK_SIZE
           bw == w \div B
           bh == h \div B
           bx == b % bw
           by == b \div bw
<1>1. B \in Nat /\ B >= 1
  BY GridAssumption
<1>2. bw \in Nat /\ bw >= 1 /\ bw * B <= w /\ bh \in Nat /\ bh >= 1 /\ bh * B <= h
  BY BlocksAre
<1>3. b \in 0 .. bw * bh - 1
  BY DEF Blocks
<1>4. Left(b, w) = bx * B /\ Top(b, w) = by * B
  BY DEF Left, Top
<1> HIDE DEF B, bw, bh
<1>5. bx \in 0 .. bw - 1 /\ by \in 0 .. bh - 1 /\ b = by * bw + bx
  BY <1>2, <1>3, OfRow
<1> HIDE DEF bx, by
<1>6. /\ bx * B + B = (bx + 1) * B /\ by * B + B = (by + 1) * B
      /\ (bx + 1) * B <= bw * B /\ (by + 1) * B <= bh * B
  BY <1>1, <1>2, <1>5, SMT
<1>7. CASE bx + 1 < bw
  <2>1. (bx + 1) * B < bw * B
    BY <1>1, <1>2, <1>5, <1>7, SMT
  <2> QED BY <1>1, <1>2, <1>4, <1>5, <1>6, <2>1 DEF B
<1>8. CASE by + 1 < bh
  <2>1. (by + 1) * B < bh * B
    BY <1>1, <1>2, <1>5, <1>8, SMT
  <2> QED BY <1>1, <1>2, <1>4, <1>5, <1>6, <2>1 DEF B
<1>9. CASE bx + 1 = bw /\ by + 1 = bh
  <2>1. by = bh - 1 /\ bx = bw - 1
    BY <1>2, <1>5, <1>9
  <2>2. b = bw * bh - 1
    BY <1>2, <1>5, <2>1, SMT
  <2> QED BY <1>1, <1>2, <1>4, <1>5, <1>6, <2>2 DEF B, bw, bh
<1> QED BY <1>2, <1>5, <1>7, <1>8, <1>9

\* What a block compares is two neighbours, apart as they are said to be.
LEMMA StepIs ==
    ASSUME NEW w \in Nat, w > BLOCK_SIZE, NEW h \in Nat, h > BLOCK_SIZE,
           NEW b, b \in Blocks(w, h), NEW s \in Steps(b, w, h)
    PROVE  IsStep(s, w, h)
<1> DEFINE B == BLOCK_SIZE
           x0 == Left(b, w)
           y0 == Top(b, w)
<1>1. B \in Nat /\ B >= 1 /\ w >= 1 /\ h >= 1
  BY GridAssumption
<1>2. PICK bx \in Nat : \E by \in Nat : x0 = bx * B /\ x0 + B <= w /\ y0 = by * B /\ y0 + B <= h
  BY CornerOf
<1>3. PICK by \in Nat : x0 = bx * B /\ x0 + B <= w /\ y0 = by * B /\ y0 + B <= h
  BY <1>2
<1>4. x0 \in Nat /\ y0 \in Nat
  BY <1>1, <1>3, SMT
<1>5. \/ \E d, i \in 0 .. B - 1 :
            /\ x0 + d + 1 < w
            /\ s = [from |-> (y0 + i) * w + (x0 + d), to |-> (y0 + i) * w + (x0 + d) + 1, edge |-> d = B - 1]
      \/ \E d, i \in 0 .. B - 1 :
            /\ y0 + d + 1 < h
            /\ s = [from |-> (y0 + d) * w + (x0 + i), to |-> (y0 + d) * w + (x0 + i) + w, edge |-> d = B - 1]
  BY DEF Steps, Index, Left, Top
<1>6. ASSUME NEW k \in Nat, NEW d \in 0 .. B - 1
      PROVE  /\ (k * B + d) \div B = k
             /\ (k * B + d + 1) \div B = IF d = B - 1 THEN k + 1 ELSE k
  <2> HIDE DEF B
  <2>1. (k * B + d) \div B = k
    BY <1>1, QuotientOf
  <2>2. CASE d = B - 1
    <3>1. ((k + 1) * B + 0) \div B = k + 1
      <4>1. 0 \in 0 .. B - 1 /\ k + 1 \in Int
        BY <1>1
      <4> QED BY <1>1, <4>1, QuotientOf
    <3>2. k * B + d + 1 = (k + 1) * B + 0
      BY <1>1, <2>2, SMT
    <3> QED BY <2>1, <2>2, <3>1, <3>2
  <2>3. CASE d # B - 1
    <3>1. d + 1 \in 0 .. B - 1 /\ k * B + d + 1 = k * B + (d + 1)
      BY <1>1, <2>3, SMT
    <3>2. (k * B + (d + 1)) \div B = k
      BY <1>1, <3>1, QuotientOf
    <3> QED BY <2>1, <2>3, <3>1, <3>2
  <2> QED BY <2>2, <2>3
<1> HIDE DEF B, x0, y0
<1>7. ASSUME NEW d \in 0 .. B - 1, NEW i \in 0 .. B - 1, x0 + d + 1 < w,
             s = [from |-> (y0 + i) * w + (x0 + d), to |-> (y0 + i) * w + (x0 + d) + 1, edge |-> d = B - 1]
      PROVE  IsStep(s, w, h)
  <2> DEFINE x == x0 + d
             y == y0 + i
             x1 == x + 1
             p == y * w + x
             q == y * w + x1
  <2>1. x \in 0 .. w - 1 /\ y \in 0 .. h - 1 /\ x1 \in 0 .. w - 1 /\ x1 = x + 1 /\ x \in Int
    BY <1>1, <1>3, <1>4, <1>7
  <2>2. x \div B = bx /\ x1 \div B = IF d = B - 1 THEN bx + 1 ELSE bx
    BY <1>3, <1>6
  <2>3. s = [from |-> p, to |-> p + 1, edge |-> d = B - 1]
    BY <1>7
  <2> HIDE DEF x, y, x1
  <2>4. p \in 0 .. w * h - 1 /\ p % w = x /\ p \div w = y
    BY <1>1, <2>1, InRow
  <2>5. q \in 0 .. w * h - 1 /\ q % w = x1 /\ q \div w = y
    BY <1>1, <2>1, InRow
  <2>6. p + 1 = q /\ p \in Int /\ q \in Int /\ p - q = -1
    BY <1>1, <2>1, SMT
  <2> HIDE DEF p, q
  <2>7. s.from = p /\ s.to = q /\ s.edge = (d = B - 1)
    BY <2>3, <2>6
  <2>8. Beside(w, p, q)
    BY <2>4, <2>5, <2>6 DEF Beside, Abs
  <2>9. (d = B - 1) <=> BlockOf(w, p) # BlockOf(w, q)
    BY <2>2, <2>4, <2>5 DEF BlockOf, B
  <2>10. s = [from |-> s.from, to |-> s.to, edge |-> s.edge]
    BY <2>3, <2>6, <2>7
  <2>11. s.edge \in BOOLEAN
    BY <2>7
  <2> QED BY <2>4, <2>5, <2>7, <2>8, <2>9, <2>10, <2>11 DEF IsStep
<1>8. ASSUME NEW d \in 0 .. B - 1, NEW i \in 0 .. B - 1, y0 + d + 1 < h,
             s = [from |-> (y0 + d) * w + (x0 + i), to |-> (y0 + d) * w + (x0 + i) + w, edge |-> d = B - 1]
      PROVE  IsStep(s, w, h)
  <2> DEFINE x == x0 + i
             y == y0 + d
             y1 == y + 1
             p == y * w + x
             q == y1 * w + x
  <2>1. x \in 0 .. w - 1 /\ y \in 0 .. h - 1 /\ y1 \in 0 .. h - 1 /\ y1 = y + 1 /\ x \in Int /\ y \in Int
    BY <1>1, <1>3, <1>4, <1>8
  <2>2. y \div B = by /\ y1 \div B = IF d = B - 1 THEN by + 1 ELSE by
    BY <1>3, <1>6
  <2>3. s = [from |-> p, to |-> p + w, edge |-> d = B - 1]
    BY <1>8
  <2> HIDE DEF x, y, y1
  <2>4. p \in 0 .. w * h - 1 /\ p % w = x /\ p \div w = y
    BY <1>1, <2>1, InRow
  <2>5. q \in 0 .. w * h - 1 /\ q % w = x /\ q \div w = y1
    BY <1>1, <2>1, InRow
  <2>6. p + w = q /\ p \in Int /\ q \in Int /\ p - q = -w
    BY <1>1, <2>1, SMT
  <2> HIDE DEF p, q
  <2>7. s.from = p /\ s.to = q /\ s.edge = (d = B - 1)
    BY <2>3, <2>6
  <2>8. Beside(w, p, q)
    BY <1>1, <2>4, <2>5, <2>6 DEF Beside, Abs
  <2>9. (d = B - 1) <=> BlockOf(w, p) # BlockOf(w, q)
    BY <2>2, <2>4, <2>5 DEF BlockOf, B
  <2>10. s = [from |-> s.from, to |-> s.to, edge |-> s.edge]
    BY <2>3, <2>6, <2>7
  <2>11. s.edge \in BOOLEAN
    BY <2>7
  <2> QED BY <2>4, <2>5, <2>7, <2>8, <2>9, <2>10, <2>11 DEF IsStep
<1> QED BY <1>5, <1>7, <1>8

\* A block shows steps of its own, and unless it is the last there is, some
\* over its border.
LEMMA StepsThere ==
    ASSUME NEW w \in Nat, w > BLOCK_SIZE, NEW h \in Nat, h > BLOCK_SIZE, NEW b, b \in Blocks(w, h)
    PROVE  /\ BLOCK_SIZE > 1 => \E s \in Steps(b, w, h) : ~s.edge
           /\ Left(b, w) + BLOCK_SIZE < w \/ Top(b, w) + BLOCK_SIZE < h => \E s \in Steps(b, w, h) : s.edge
<1> DEFINE B == BLOCK_SIZE
           x0 == Left(b, w)
           y0 == Top(b, w)
           Row(d, i) == [from |-> (y0 + i) * w + (x0 + d), to |-> (y0 + i) * w + (x0 + d) + 1, edge |-> d = B - 1]
           Column(d, i) == [from |-> (y0 + d) * w + (x0 + i), to |-> (y0 + d) * w + (x0 + i) + w, edge |-> d = B - 1]
<1>1. B \in Nat /\ B >= 1
  BY GridAssumption
<1>2. PICK bx \in Nat : \E by \in Nat : x0 = bx * B /\ x0 + B <= w /\ y0 = by * B /\ y0 + B <= h
  BY CornerOf
<1>3. PICK by \in Nat : x0 = bx * B /\ x0 + B <= w /\ y0 = by * B /\ y0 + B <= h
  BY <1>2
<1>4. x0 \in Nat /\ y0 \in Nat
  BY <1>1, <1>3, SMT
<1>5. \A d, i \in 0 .. B - 1 : x0 + d + 1 < w => Row(d, i) \in Steps(b, w, h)
  BY DEF Steps, Index, Left, Top
<1>6. \A d, i \in 0 .. B - 1 : y0 + d + 1 < h => Column(d, i) \in Steps(b, w, h)
  BY DEF Steps, Index, Left, Top
<1>7. \A d, i \in 0 .. B - 1 : Row(d, i).edge = (d = B - 1) /\ Column(d, i).edge = (d = B - 1)
  OBVIOUS
<1> HIDE DEF Row, Column, B, x0, y0
<1>8. ASSUME B > 1 PROVE \E s \in Steps(b, w, h) : ~s.edge
  <2>1. 0 \in 0 .. B - 1 /\ x0 + 0 + 1 < w /\ 0 # B - 1
    BY <1>1, <1>3, <1>4, <1>8
  <2> QED BY <1>5, <1>7, <2>1
<1>9. ASSUME x0 + B < w PROVE \E s \in Steps(b, w, h) : s.edge
  <2>1. B - 1 \in 0 .. B - 1 /\ 0 \in 0 .. B - 1 /\ x0 + (B - 1) + 1 < w
    BY <1>1, <1>4, <1>9
  <2> QED BY <1>5, <1>7, <2>1
<1>10. ASSUME y0 + B < h PROVE \E s \in Steps(b, w, h) : s.edge
  <2>1. B - 1 \in 0 .. B - 1 /\ 0 \in 0 .. B - 1 /\ y0 + (B - 1) + 1 < h
    BY <1>1, <1>4, <1>10
  <2> QED BY <1>6, <1>7, <2>1
<1> QED BY <1>8, <1>9, <1>10 DEF B, x0, y0

\* Every sample has a block with a pixel behind its edge, to the right or below.
LEMMA SampleReaches ==
    ASSUME NEW w \in Nat, w > BLOCK_SIZE, NEW h \in Nat, h > BLOCK_SIZE, NEW blocks \in Samples(w, h)
    PROVE  /\ blocks \subseteq Blocks(w, h) /\ blocks # {}
           /\ \E b \in blocks : Left(b, w) + BLOCK_SIZE < w \/ Top(b, w) + BLOCK_SIZE < h
<1> DEFINE bw == w \div BLOCK_SIZE
           bh == h \div BLOCK_SIZE
           total == bw * bh
           all == Blocks(w, h)
<1>1. bw \in Nat /\ bw >= 1 /\ bh \in Nat /\ bh >= 1
  BY BlocksAre
<1>2. all = 0 .. total - 1
  BY DEF Blocks
<1>3. total \in Nat /\ total >= 1 /\ bw <= total /\ bh <= total
  <2> HIDE DEF bw, bh
  <2> QED BY <1>1, SMT
<1>4. IsFiniteSet(all) /\ Cardinality(all) = total
  <2> HIDE DEF all, total
  <2> QED BY <1>2, <1>3, FS_Interval
<1>5. blocks \in SUBSET all /\ Cardinality(blocks) = SampleSize(total)
  <2> HIDE DEF all, total
  <2> USE <1>4
  <2>1. Samples(w, h) = kSubset(SampleSize(Cardinality(all)), all)
    BY DEF Samples, all
  <2> QED BY <2>1 DEF kSubset
<1> HIDE DEF all, total
<1>6. SampleSize(total) \in Nat /\ SampleSize(total) >= 1 /\ (total > 1 => SampleSize(total) > 1)
  <2> DEFINE wanted == (total * SAMPLE_PERCENT) \div 100
  <2>1. MIN_SAMPLES \in Nat /\ MIN_SAMPLES > 1 /\ MAX_SAMPLES \in Nat /\ MIN_SAMPLES <= MAX_SAMPLES
    BY GridAssumption
  <2>2. wanted \in Int
    <3> DEFINE product == total * SAMPLE_PERCENT
    <3>1. product \in Int
      BY <1>3, GridAssumption, SMT
    <3> HIDE DEF product
    <3>2. product \div 100 \in Int
      BY <3>1, SMT
    <3> QED BY <3>2 DEF product
  <2> HIDE DEF wanted
  <2>3. SampleSize(total) =
          LET clamped == IF wanted < MIN_SAMPLES THEN MIN_SAMPLES
                         ELSE IF wanted > MAX_SAMPLES THEN MAX_SAMPLES ELSE wanted
          IN  IF clamped < total THEN clamped ELSE total
    BY DEF SampleSize, wanted
  <2> QED BY <1>3, <2>1, <2>2, <2>3
<1>7. blocks # {}
  BY <1>5, <1>6, FS_EmptySet
<1>8. ASSUME \A b \in blocks : b = total - 1
      PROVE  \E b \in blocks : Left(b, w) + BLOCK_SIZE < w \/ Top(b, w) + BLOCK_SIZE < h
  <2>1. blocks = {total - 1}
    BY <1>7, <1>8
  <2>2. Cardinality(blocks) = 1
    BY <2>1, FS_Singleton
  <2>3. total = 1
    BY <1>3, <1>5, <1>6, <2>2
  <2>4. bw = 1 /\ 0 \in blocks
    <3> HIDE DEF bw, bh
    <3> QED BY <1>1, <1>3, <2>1, <2>3
  <2>5. Left(0, w) = 0
    <3>1. Left(0, w) = (0 % bw) * BLOCK_SIZE
      BY DEF Left
    <3>2. 0 % bw = 0
      BY <2>4, SMT
    <3>3. BLOCK_SIZE \in Nat
      BY GridAssumption
    <3> HIDE DEF bw
    <3> QED BY <3>1, <3>2, <3>3, SMT
  <2>6. Left(0, w) + BLOCK_SIZE < w
    BY <2>5, GridAssumption
  <2> QED BY <2>4, <2>6
<1>9. ASSUME NEW b \in blocks, b # total - 1
      PROVE  Left(b, w) + BLOCK_SIZE < w \/ Top(b, w) + BLOCK_SIZE < h
  BY <1>5, <1>9, CornerOf DEF total, all
<1> QED BY <1>5, <1>7, <1>8, <1>9 DEF all

(***************************************************************************)
(* Sums of differences.                                                    *)
(***************************************************************************)
Gaps(luma, steps) == [s \in steps |-> Abs(luma[s.from] - luma[s.to])]

\* The energy of some steps is the sum of their contrasts.
LEMMA EnergyIsTotal ==
    ASSUME NEW luma, NEW steps, IsFiniteSet(steps)
    PROVE  Energy(luma, steps) = Total(Gaps(luma, steps), steps)
<1> DEFINE f == Gaps(luma, steps)
           Adds(h) == h = [s \in SUBSET steps |-> IF s = {} THEN 0
                             ELSE Abs(luma[Some(s).from] - luma[Some(s).to]) + h[s \ {Some(s)}]]
           g == CHOOSE h : Adds(h)
<1>1. Energy(luma, steps) = g[steps]
  BY DEF Energy, MapThenSumSet, MapThenFoldSet, Some
<1>2. PICK h : SumsTo(h, f, steps) /\ Total(f, steps) = h[steps]
  BY TotalSums
<1>3. \A s \in SUBSET steps : s # {} => f[Some(s)] = Abs(luma[Some(s).from] - luma[Some(s).to])
  BY SomeIs DEF Gaps
<1>4. Adds(h)
  <2> HIDE DEF f
  <2> QED BY <1>2, <1>3 DEF SumsTo
<1>5. Adds(g)
  BY <1>4
<1>6. SumsTo(g, f, steps)
  <2> HIDE DEF f, g
  <2> QED BY <1>3, <1>5 DEF SumsTo
<1> HIDE DEF f, g, Adds
<1>7. g[steps] = h[steps]
  BY <1>2, <1>6, SumsAgree
<1> QED BY <1>1, <1>2, <1>7 DEF f

\* The steps of several blocks are steps, finitely many.
LEMMA PooledAre ==
    ASSUME NEW w \in Nat, w > BLOCK_SIZE, NEW h \in Nat, h > BLOCK_SIZE,
           NEW blocks, blocks \subseteq Blocks(w, h)
    PROVE  /\ \A s \in Pooled(blocks, w, h) : IsStep(s, w, h)
           /\ IsFiniteSet(Pooled(blocks, w, h))
<1> DEFINE steps == Pooled(blocks, w, h)
           P == 0 .. w * h - 1
           f == [s \in steps |-> <<<<s.from, s.to>>, s.edge>>]
<1>1. \A s \in steps : IsStep(s, w, h)
  BY StepIs DEF Pooled
<1>2. IsFiniteSet((P \X P) \X BOOLEAN)
  <2>1. w * h \in Int
    BY SMT
  <2>2. IsFiniteSet(P)
    BY <2>1, FS_Interval
  <2>3. IsFiniteSet(BOOLEAN)
    <3>1. IsFiniteSet({TRUE}) /\ BOOLEAN = {TRUE} \cup {FALSE}
      BY FS_Singleton
    <3> QED BY <3>1, FS_AddElement
  <2> HIDE DEF P
  <2> QED BY <2>2, <2>3, FS_Product
<1>3. f \in [steps -> (P \X P) \X BOOLEAN]
  BY <1>1 DEF IsStep
<1>4. ASSUME NEW s \in steps, NEW t \in steps, f[s] = f[t]
      PROVE  s = t
  <2>1. s.from = t.from /\ s.to = t.to /\ s.edge = t.edge
    BY <1>4
  <2> QED BY <1>1, <2>1 DEF IsStep
<1> HIDE DEF f, steps, P
<1>5. f \in Injection(steps, (P \X P) \X BOOLEAN)
  BY <1>3, <1>4 DEF IsInjective, Injection
<1>6. IsFiniteSet(steps)
  BY <1>2, <1>5, FS_Injection
<1> QED BY <1>1, <1>6 DEF steps

\* A picture whose neighbours all differ alike shows no grid ...
LEMMA OneContrast ==
    ASSUME NEW w \in Nat, w > BLOCK_SIZE, NEW h \in Nat, h > BLOCK_SIZE,
           NEW luma, NEW blocks, blocks \subseteq Blocks(w, h), NEW c \in Nat,
           \A p, q \in 0 .. w * h - 1 : Beside(w, p, q) => Abs(luma[p] - luma[q]) = c
    PROVE  ~Artifacts(luma, blocks, w, h)
<1> DEFINE steps == Pooled(blocks, w, h)
           boundary == {s \in steps : s.edge}
           interior == {s \in steps : ~s.edge}
<1>1. IsFiniteSet(steps) /\ \A s \in steps : IsStep(s, w, h)
  BY PooledAre
<1>2. ASSUME NEW S, S \subseteq steps
      PROVE  IsFiniteSet(S) /\ Cardinality(S) \in Nat /\ Energy(luma, S) = c * Cardinality(S)
  <2> DEFINE f == Gaps(luma, S)
  <2>1. IsFiniteSet(S) /\ Cardinality(S) \in Nat
    BY <1>1, <1>2, FS_Subset, FS_CardinalityType
  <2>2. \A s \in S : f[s] = c
    BY <1>1, <1>2 DEF Gaps, IsStep
  <2> HIDE DEF f
  <2>3. Total(f, S) = c * Cardinality(S)
    BY <2>1, <2>2, TotalOfOneValue
  <2> QED BY <2>1, <2>3, EnergyIsTotal DEF f
<1>3. /\ Cardinality(boundary) \in Nat /\ Energy(luma, boundary) = c * Cardinality(boundary)
      /\ Cardinality(interior) \in Nat /\ Energy(luma, interior) = c * Cardinality(interior)
  <2>1. boundary \subseteq steps /\ interior \subseteq steps
    OBVIOUS
  <2> HIDE DEF steps, boundary, interior
  <2> QED BY <1>2, <2>1
<1>4. ~(10 * Energy(luma, boundary) * Cardinality(interior)
           > 13 * Energy(luma, interior) * Cardinality(boundary))
  <2> DEFINE m == Cardinality(boundary)
             n == Cardinality(interior)
             k == c * m * n
  <2>1. m \in Nat /\ n \in Nat /\ Energy(luma, boundary) = c * m /\ Energy(luma, interior) = c * n
    BY <1>3
  <2> HIDE DEF boundary, interior, m, n
  <2>2. 10 * (c * m) * n = 10 * k /\ 13 * (c * n) * m = 13 * k /\ k \in Nat
    BY <2>1, SMT
  <2> HIDE DEF k
  <2>3. ~(10 * (c * m) * n > 13 * (c * n) * m)
    BY <2>2
  <2> QED BY <2>1, <2>3 DEF m, n
<1> QED BY <1>4 DEF Artifacts

\* ... and one that differs at the edges of its blocks alone does.
LEMMA EdgesAlone ==
    ASSUME NEW w \in Nat, w > BLOCK_SIZE, NEW h \in Nat, h > BLOCK_SIZE, BLOCK_SIZE > 1,
           NEW luma, \A p \in 0 .. w * h - 1 : luma[p] \in Int, NEW blocks \in Samples(w, h),
           \A p, q \in 0 .. w * h - 1 :
              Beside(w, p, q) => (luma[p] = luma[q] <=> BlockOf(w, p) = BlockOf(w, q))
    PROVE  blocks # {} /\ Artifacts(luma, blocks, w, h)
<1> DEFINE steps == Pooled(blocks, w, h)
           boundary == {s \in steps : s.edge}
           interior == {s \in steps : ~s.edge}
<1>0. /\ blocks \subseteq Blocks(w, h) /\ blocks # {}
      /\ \E b \in blocks : Left(b, w) + BLOCK_SIZE < w \/ Top(b, w) + BLOCK_SIZE < h
  BY SampleReaches
<1>1. IsFiniteSet(steps) /\ \A s \in steps : IsStep(s, w, h)
  BY <1>0, PooledAre
<1>2. PICK e \in steps : e.edge
  BY <1>0, StepsThere DEF Pooled
<1>3. PICK i \in steps : ~i.edge
  BY <1>0, StepsThere DEF Pooled
<1>4. /\ IsFiniteSet(boundary) /\ e \in boundary /\ boundary \subseteq steps
      /\ IsFiniteSet(interior) /\ i \in interior /\ interior \subseteq steps
  BY <1>1, <1>2, <1>3, FS_Subset
<1>5. /\ \A s \in boundary : Gaps(luma, boundary)[s] \in Nat \ {0}
      /\ \A s \in interior : Gaps(luma, interior)[s] = 0
  <2>1. ASSUME NEW s \in steps
        PROVE  /\ luma[s.from] \in Int /\ luma[s.to] \in Int
               /\ s.edge <=> luma[s.from] # luma[s.to]
    BY <1>1, <2>1 DEF IsStep
  <2>2. \A s \in boundary : Abs(luma[s.from] - luma[s.to]) \in Nat \ {0}
    BY <2>1 DEF Abs
  <2>3. \A s \in interior : Abs(luma[s.from] - luma[s.to]) = 0
    BY <2>1 DEF Abs
  <2> QED BY <2>2, <2>3 DEF Gaps
<1> HIDE DEF boundary, interior, steps
<1>6. Energy(luma, boundary) \in Nat /\ Energy(luma, boundary) >= 1
  <2> DEFINE f == Gaps(luma, boundary)
  <2>1. \A s \in boundary : f[s] \in Nat \ {0}
    BY <1>5
  <2> HIDE DEF f
  <2>2. Total(f, boundary) \in Nat /\ f[e] <= Total(f, boundary)
    BY <1>4, <2>1, TotalIsNat
  <2>3. f[e] \in Nat \ {0}
    BY <1>4, <2>1
  <2>4. Total(f, boundary) >= 1
    BY <2>2, <2>3
  <2> QED BY <1>4, <2>2, <2>4, EnergyIsTotal DEF f
<1>7. Energy(luma, interior) = 0
  <2> DEFINE f == Gaps(luma, interior)
  <2>1. \A s \in interior : f[s] = 0
    BY <1>5
  <2> HIDE DEF f
  <2>2. Total(f, interior) = 0 * Cardinality(interior) /\ Cardinality(interior) \in Nat
    BY <1>4, <2>1, TotalOfOneValue, FS_CardinalityType
  <2>3. Total(f, interior) = 0
    BY <2>2
  <2> QED BY <1>4, <2>3, EnergyIsTotal DEF f
<1>8. Cardinality(interior) \in Nat /\ Cardinality(interior) >= 1 /\ Cardinality(boundary) \in Nat
  BY <1>4, FS_EmptySet, FS_CardinalityType
<1>9. 10 * Energy(luma, boundary) * Cardinality(interior)
           > 13 * Energy(luma, interior) * Cardinality(boundary)
  <2> DEFINE m == Energy(luma, boundary)
             n == Cardinality(interior)
             k == Cardinality(boundary)
  <2>1. m \in Nat /\ m >= 1 /\ n \in Nat /\ n >= 1 /\ k \in Nat
    BY <1>6, <1>8
  <2> HIDE DEF m, n, k
  <2>2. 10 * m * n > 13 * 0 * k
    BY <2>1, SMT
  <2> QED BY <1>7, <2>2 DEF m, n, k
<1>10. boundary # {} /\ interior # {}
  BY <1>4
<1> QED BY <1>0, <1>9, <1>10 DEF Artifacts, boundary, interior, steps

Looked ==
    LET shown == Artifacts(picture.luma, sample, Width, Height)
    IN  /\ grid = "artifacts" => sample \subseteq Blocks(Width, Height) /\ shown
        /\ grid = "clean" => sample \in Samples(Width, Height) /\ ~(sample # {} /\ shown)

\* Nothing was looked at yet.
LEMMA LookedInit ==
    ASSUME Init
    PROVE  Looked
BY DEF Init, Looked

\* Every step keeps Looked.
LEMMA LookedStep ==
    ASSUME Looked, [Next]_vars
    PROVE  Looked'
<1>1. ASSUME Detect
      PROVE  Looked'
  <2>1. picture' = picture /\ sample' \in Samples(Width, Height)
    BY <1>1 DEF Detect, hillVars
  <2>2. Width' = Width /\ Height' = Height
    BY <2>1 DEF Width, Height
  <2>3. \/ grid' = "artifacts" /\ Artifacts(picture.luma, sample', Width, Height)
        \/ grid' = "clean" /\ ~(sample' # {} /\ Artifacts(picture.luma, sample', Width, Height))
    BY <1>1 DEF Detect
  <2>4. sample' \subseteq Blocks(Width, Height)
    BY <2>1 DEF Samples, kSubset
  <2> QED BY <2>1, <2>2, <2>3, <2>4 DEF Looked
<1>2. ASSUME ~Detect
      PROVE  Looked'
  <2>1. picture' = picture /\ sample' = sample /\ grid' = grid
    <3>1. CASE UNCHANGED vars
      BY <3>1 DEF vars, hillVars
    <3>2. CASE Compute
      BY <3>2 DEF Compute, Hill, HighPass, FirstSmoothing, SecondSmoothing, Filter, SmoothRatioGate, StartRegion,
                  GrowRegion, SmoothRegionGate, TextureGate
    <3>3. CASE Decode \/ Render \/ WritePng \/ Reread \/ ReadPayload \/ Finished
      BY <3>3 DEF Decode, Render, WritePng, Reread, ReadPayload, Finished, vars, hillVars
    <3> QED BY <1>2, <3>1, <3>2, <3>3 DEF Next
  <2>2. Width' = Width /\ Height' = Height
    BY <2>1 DEF Width, Height
  <2> QED BY <2>1, <2>2 DEF Looked
<1> QED BY <1>1, <1>2

\* The verdict of the detector, at every moment.
LEMMA LookedAlways == Spec => []Looked
<1>1. Init => Looked
  BY LookedInit
<1>2. Looked /\ [Next]_vars => Looked'
  BY LookedStep
<1> QED BY <1>1, <1>2, PTL DEF Spec

\* What is said of the contrasts, pair by pair.
LEMMA ContrastsAre ==
    ASSUME Computing
    PROVE  /\ \A p, q \in Positions : Neighbour(p, q) <=> Beside(Width, p, q)
           /\ \A p, q \in Positions : Block(p) = Block(q) <=> BlockOf(Width, p) = BlockOf(Width, q)
           /\ Positions = 0 .. Width * Height - 1 /\ IsFiniteSet(AllPairs)
           /\ picture.luma \in [Positions -> Nat]
           /\ Width \in Nat /\ Width > BLOCK_SIZE /\ Height \in Nat /\ Height > BLOCK_SIZE
<1>1. picture \in Pictures /\ plane \in Picture(Width, Height) /\ IsPicture(picture)
  BY PicturesAre DEF Computing
<1>2. \A p, q \in Positions : Neighbour(p, q) <=> Beside(Width, p, q)
  BY <1>1, NeighboursAre
<1>3. Positions = 0 .. Width * Height - 1 /\ IsFiniteSet(Positions)
  BY <1>1, PlanesAreFinite
<1>4. IsFiniteSet(AllPairs)
  <2>1. IsFiniteSet(Positions \X Positions)
    BY <1>3, FS_Product
  <2>2. AllPairs \in SUBSET (Positions \X Positions)
    BY DEF AllPairs
  <2> QED BY <2>1, <2>2, FS_Subset
<1>5. picture.luma \in [Positions -> Nat]
  BY <1>1, <1>3 DEF IsPicture, Width, Height
<1>6. Width \in Nat /\ Width > BLOCK_SIZE /\ Height \in Nat /\ Height > BLOCK_SIZE
  BY <1>1 DEF IsPicture, Width, Height
<1> QED BY <1>2, <1>3, <1>4, <1>5, <1>6 DEF Block, BlockOf

\* A picture that is refused has two contrasts.
LEMMA ArtifactsAreContrast ==
    ASSUME Computing, Looked, grid = "artifacts"
    PROVE  Cardinality(Contrasts(AllPairs)) > 1
<1> DEFINE all == Contrasts(AllPairs)
           w == Width
           h == Height
           luma == picture.luma
           f == [e \in AllPairs |-> Abs(luma[e[1]] - luma[e[2]])]
<1>1. /\ \A p, q \in Positions : Neighbour(p, q) <=> Beside(w, p, q)
      /\ Positions = 0 .. w * h - 1 /\ IsFiniteSet(AllPairs) /\ luma \in [Positions -> Nat]
      /\ w \in Nat /\ w > BLOCK_SIZE /\ h \in Nat /\ h > BLOCK_SIZE
  BY ContrastsAre
<1>2. sample \subseteq Blocks(w, h) /\ Artifacts(luma, sample, w, h)
  BY DEF Looked
<1>3. IsFiniteSet(all)
  <2>1. f \in Surjection(AllPairs, all)
    BY DEF Surjection, Contrasts
  <2> HIDE DEF f, all
  <2> QED BY <1>1, <2>1, FS_Surjection
<1>4. ASSUME NEW p \in Positions, NEW q \in Positions, Beside(w, p, q)
      PROVE  Abs(luma[p] - luma[q]) \in all
  <2>1. <<p, q>> \in AllPairs
    BY <1>1, <1>4 DEF AllPairs
  <2> DEFINE pair == <<p, q>>
  <2>2. pair[1] = p /\ pair[2] = q
    OBVIOUS
  <2>3. pair \in AllPairs
    BY <2>1
  <2> HIDE DEF pair
  <2>4. Abs(luma[pair[1]] - luma[pair[2]]) \in all
    BY <2>3 DEF Contrasts
  <2> QED BY <2>2, <2>4
<1>5. \A p, q \in Positions : Abs(luma[p] - luma[q]) \in Nat
  BY <1>1 DEF Abs
<1> HIDE DEF all, w, h, luma
<1> SUFFICES ASSUME ~(Cardinality(all) > 1)
             PROVE  FALSE
  BY DEF all
<1>6. \A x, y \in all : x = y
  <2> SUFFICES ASSUME NEW x \in all, NEW y \in all, x # y PROVE FALSE
    OBVIOUS
  <2>1. /\ IsFiniteSet(all \ {x}) /\ Cardinality(all \ {x}) = Cardinality(all) - 1
        /\ Cardinality(all) \in Nat \ {0} /\ Cardinality(all \ {x}) \in Nat
    BY <1>3, OneLess
  <2>2. Cardinality(all \ {x}) = 0
    BY <2>1
  <2>3. all \ {x} = {}
    BY <2>1, <2>2, FS_EmptySet
  <2> QED BY <2>3
<1>7. \E c \in Nat : \A p, q \in Positions : Beside(w, p, q) => Abs(luma[p] - luma[q]) = c
  <2>1. CASE \E p, q \in Positions : Beside(w, p, q)
    BY <1>4, <1>5, <1>6, <2>1
  <2>2. CASE ~\E p, q \in Positions : Beside(w, p, q)
    BY <2>2
  <2> QED BY <2>1, <2>2
<1>8. PICK c \in Nat : \A p, q \in 0 .. w * h - 1 : Beside(w, p, q) => Abs(luma[p] - luma[q]) = c
  BY <1>1, <1>7
<1>9. ~Artifacts(luma, sample, w, h)
  BY <1>1, <1>2, <1>8, OneContrast
<1> QED BY <1>2, <1>9

\* A picture that is not refused does not differ at its blocks alone.
LEMMA CleanIsNoGrid ==
    ASSUME Computing, Looked, grid = "clean",
           Contrasts(InBlocks) = {0}, 0 \notin Contrasts(AllPairs \ InBlocks)
    PROVE  FALSE
<1> DEFINE w == Width
           h == Height
           luma == picture.luma
<1>1. /\ \A p, q \in Positions : Neighbour(p, q) <=> Beside(w, p, q)
      /\ \A p, q \in Positions : Block(p) = Block(q) <=> BlockOf(w, p) = BlockOf(w, q)
      /\ Positions = 0 .. w * h - 1 /\ luma \in [Positions -> Nat]
      /\ w \in Nat /\ w > BLOCK_SIZE /\ h \in Nat /\ h > BLOCK_SIZE
  BY ContrastsAre
<1>2. sample \in Samples(w, h) /\ ~(sample # {} /\ Artifacts(luma, sample, w, h))
  BY DEF Looked
<1>3. \A p, q \in Positions :
        Beside(w, p, q) => (luma[p] = luma[q] <=> BlockOf(w, p) = BlockOf(w, q))
  <2> SUFFICES ASSUME NEW p \in Positions, NEW q \in Positions, Beside(w, p, q)
               PROVE  luma[p] = luma[q] <=> BlockOf(w, p) = BlockOf(w, q)
    OBVIOUS
  <2>1. <<p, q>> \in AllPairs
    BY <1>1 DEF AllPairs
  <2>2. luma[p] \in Nat /\ luma[q] \in Nat
    BY <1>1
  <2>3. CASE BlockOf(w, p) = BlockOf(w, q)
    <3>1. <<p, q>> \in InBlocks
      BY <1>1, <2>1, <2>3 DEF InBlocks
    <3>2. Abs(luma[p] - luma[q]) = 0
      BY <3>1 DEF Contrasts
    <3> QED BY <2>2, <2>3, <3>2 DEF Abs
  <2>4. CASE BlockOf(w, p) # BlockOf(w, q)
    <3>1. <<p, q>> \in AllPairs \ InBlocks
      BY <1>1, <2>1, <2>4 DEF InBlocks
    <3>2. Abs(luma[p] - luma[q]) # 0
      BY <3>1 DEF Contrasts
    <3> QED BY <2>2, <2>4, <3>2 DEF Abs
  <2> QED BY <2>3, <2>4
<1>4. BLOCK_SIZE > 1
  <2> SUFFICES ASSUME BLOCK_SIZE = 1 PROVE FALSE
    BY GridAssumption
  <2>1. PICK e \in InBlocks : TRUE
    BY DEF Contrasts
  <2> DEFINE p == e[1]
             q == e[2]
  <2>2. p \in Positions /\ q \in Positions /\ Beside(w, p, q) /\ BlockOf(w, p) = BlockOf(w, q)
    BY <1>1 DEF InBlocks, AllPairs
  <2> HIDE DEF p, q, w, h
  <2>3. /\ p % w \in Int /\ p \div w \in Int /\ p = (p \div w) * w + (p % w)
        /\ q % w \in Int /\ q \div w \in Int /\ q = (q \div w) * w + (q % w)
    <3>1. w >= 1 /\ h >= 1
      BY <1>1
    <3>2. p % w \in 0 .. w - 1 /\ p \div w \in 0 .. h - 1 /\ p = (p \div w) * w + (p % w)
      BY <1>1, <2>2, <3>1, OfRow
    <3>3. q % w \in 0 .. w - 1 /\ q \div w \in 0 .. h - 1 /\ q = (q \div w) * w + (q % w)
      BY <1>1, <2>2, <3>1, OfRow
    <3> QED BY <3>2, <3>3
  <2>4. \A n \in Int : n \div 1 = n
    BY SMT
  <2>5. p % w = q % w /\ p \div w = q \div w
    BY <2>2, <2>3, <2>4 DEF BlockOf
  <2>6. p = q
    BY <2>3, <2>5
  <2>7. p - q = 0
    BY <1>1, <2>2, <2>6
  <2> QED BY <1>1, <2>2, <2>7 DEF Beside, Abs
<1>5. \A p \in 0 .. w * h - 1 : luma[p] \in Int
  BY <1>1
<1>6. \A p, q \in 0 .. w * h - 1 :
        Beside(w, p, q) => (luma[p] = luma[q] <=> BlockOf(w, p) = BlockOf(w, q))
  BY <1>1, <1>3
<1> HIDE DEF w, h, luma
<1>7. sample # {} /\ Artifacts(luma, sample, w, h)
  BY <1>1, <1>2, <1>4, <1>5, <1>6, EdgesAlone
<1> QED BY <1>2, <1>7

\* The detector sees the grid and nothing else, whichever blocks it draws.
THEOREM GridIsWhatIsSeen == Spec => []GridIsSeen
<1>1. Computing /\ Looked => GridIsSeen
  BY ArtifactsAreContrast, CleanIsNoGrid DEF GridIsSeen
<1> QED BY <1>1, ComputingAlways, LookedAlways, PTL

(***************************************************************************)
(* The mirror image.  A coordinate is folded back to where the coordinate  *)
(* of the unfolded picture shows it, and a step away from the mirror is    *)
(* one towards it.                                                         *)
(***************************************************************************)
LEMMA ReflectIs ==
    ASSUME NEW c \in Int, NEW len \in Nat, len >= 2
    PROVE  /\ Period(len) \in Nat /\ Period(len) >= 2
           /\ c % Period(len) \in 0 .. Period(len) - 1
           /\ reflect(c, len) = Unfolded(c % Period(len), len)
<1>1. Period(len) \in Nat /\ Period(len) >= 2
  BY DEF Period
<1>2. c % Period(len) \in 0 .. Period(len) - 1
  <2> DEFINE m == Period(len)
  <2> HIDE DEF m
  <2>1. m \in Nat /\ m >= 1
    BY <1>1 DEF m
  <2> QED BY <2>1, Division DEF m
<1>3. reflect(c, len) = IF c % Period(len) >= len THEN Period(len) - (c % Period(len)) ELSE c % Period(len)
  BY DEF reflect, Period
<1> QED BY <1>1, <1>2, <1>3 DEF Unfolded

\* What is unfolded is a coordinate of the picture.
LEMMA UnfoldedIs ==
    ASSUME NEW len \in Nat, len >= 2, NEW k, k \in 0 .. Period(len) - 1
    PROVE  Unfolded(k, len) \in 0 .. len - 1
BY DEF Unfolded, Period

\* What is left of a multiple of the period.
LEMMA SameRemainder ==
    ASSUME NEW m \in Nat, m >= 1, NEW a \in Int, NEW b \in Int, NEW q \in Int, a = b + q * m
    PROVE  a % m = b % m
<1> DEFINE k == b \div m
           r == b % m
<1>1. k \in Int /\ r \in 0 .. m - 1 /\ b = k * m + r
  BY Division
<1> HIDE DEF k, r
<1>2. a = (k + q) * m + r /\ k + q \in Int
  BY <1>1, SMT
<1>3. ((k + q) * m + r) % m = r
  BY <1>1, <1>2, QuotientOf
<1> QED BY <1>2, <1>3 DEF r

\* The picture continued is its own mirror image.
LEMMA UnfoldedIsEven ==
    ASSUME NEW len \in Nat, len >= 2, NEW c \in Int
    PROVE  Unfolded((Period(len) - c) % Period(len), len) = Unfolded(c % Period(len), len)
<1> DEFINE m == Period(len)
           a == c % m
           k == c \div m
           d == m - c
<1>1. m \in Nat /\ m >= 2 /\ m = 2 * (len - 1)
  BY DEF Period
<1> HIDE DEF m
<1>2. k \in Int /\ a \in 0 .. m - 1 /\ c = k * m + a
  <2>1. m >= 1
    BY <1>1
  <2> QED BY <1>1, <2>1, Division
<1> HIDE DEF a, k
<1>3. d \in Int
  BY <1>1
<1>4. CASE a = 0
  <2>1. d = 0 + (1 - k) * m /\ 1 - k \in Int
    BY <1>1, <1>2, <1>4, SMT
  <2> HIDE DEF d
  <2>2. d % m = 0 % m
    <3>1. m >= 1 /\ 0 \in Int
      BY <1>1
    <3> QED BY <1>1, <1>3, <2>1, <3>1, SameRemainder
  <2>3. 0 % m = 0
    <3>1. m >= 1 /\ 0 \in Int /\ 0 \in 0 .. m - 1 /\ 0 * m + 0 = 0
      BY <1>1
    <3>2. (0 * m + 0) % m = 0
      BY <1>1, <3>1, QuotientOf
    <3> QED BY <3>1, <3>2
  <2> QED BY <1>4, <2>2, <2>3 DEF a, m, d
<1>5. CASE a > 0
  <2> DEFINE e == m - a
  <2>1. d = (0 - k) * m + e /\ 0 - k \in Int /\ e \in 0 .. m - 1
    BY <1>1, <1>2, <1>5, SMT
  <2> HIDE DEF d, e
  <2>2. d % m = e
    <3>1. m >= 1
      BY <1>1
    <3>2. ((0 - k) * m + e) % m = e
      BY <1>1, <2>1, <3>1, QuotientOf
    <3> QED BY <2>1, <3>2
  <2>3. Unfolded(e, len) = Unfolded(a, len)
    <3>1. Unfolded(e, len) = (IF e < len THEN e ELSE m - e) /\ Unfolded(a, len) = (IF a < len THEN a ELSE m - a)
      BY DEF Unfolded, m
    <3>2. e = m - a
      BY DEF e
    <3> QED BY <1>1, <1>2, <1>5, <2>1, <3>1, <3>2
  <2> QED BY <2>2, <2>3 DEF a, m, d
<1> QED BY <1>2, <1>4, <1>5

\* A step in the continued picture is a reflected one in the picture, towards the
\* mirror or away from it.
LEMMA AwayFromMirror ==
    ASSUME NEW len \in Nat, len >= 2, NEW k, k \in 0 .. Period(len) - 1, NEW o \in Int
    PROVE  /\ k < len => reflect(Unfolded(k, len) + o, len) = Unfolded((k + o) % Period(len), len)
           /\ k >= len => reflect(Unfolded(k, len) + o, len) = Unfolded((k - o) % Period(len), len)
<1>1. Period(len) \in Nat /\ k \in Int
  BY DEF Period
<1>2. ASSUME k < len
      PROVE  reflect(Unfolded(k, len) + o, len) = Unfolded((k + o) % Period(len), len)
  <2>1. Unfolded(k, len) = k
    BY <1>2 DEF Unfolded
  <2>2. k + o \in Int
    BY <1>1
  <2> QED BY <2>1, <2>2, ReflectIs
<1>3. ASSUME k >= len
      PROVE  reflect(Unfolded(k, len) + o, len) = Unfolded((k - o) % Period(len), len)
  <2>1. Unfolded(k, len) + o = Period(len) - (k - o)
    BY <1>1, <1>3 DEF Unfolded
  <2>2. Period(len) - (k - o) \in Int /\ k - o \in Int
    BY <1>1
  <2>3. reflect(Period(len) - (k - o), len) = Unfolded((Period(len) - (k - o)) % Period(len), len)
    BY <2>2, ReflectIs
  <2> QED BY <2>1, <2>2, <2>3, UnfoldedIsEven
<1> QED BY <1>2, <1>3

\* A smoothing over the mirror is one towards it: the taps are the same from
\* either end.
Offset(t, taps) == t - 1 - Len(taps) \div 2
OverMirror(g, k, len, taps) ==
    [t \in DOMAIN taps |-> taps[t] * g[Unfolded((k + Offset(t, taps)) % Period(len), len)]]
Folded(g, k, len, taps) ==
    [t \in DOMAIN taps |-> taps[t] * g[reflect(Unfolded(k, len) + Offset(t, taps), len)]]

\* A kernel is its own mirror image, around the middle.
LEMMA TapsAre ==
    ASSUME NEW taps, IsKernel(taps)
    PROVE  /\ taps \in Seq(Nat) /\ DOMAIN taps = 1 .. Len(taps) /\ Len(taps) \in Nat
           /\ \A t \in DOMAIN taps :
                /\ Offset(t, taps) \in Int /\ Len(taps) + 1 - t \in DOMAIN taps
                /\ taps[Len(taps) + 1 - t] = taps[t] /\ taps[t] \in Nat
                /\ Offset(Len(taps) + 1 - t, taps) = 0 - Offset(t, taps)
<1> DEFINE n == Len(taps)
           r == n \div 2
<1>1. taps \in Seq(Nat) /\ n % 2 = 1 /\ \A t \in DOMAIN taps : taps[n + 1 - t] = taps[t]
  BY DEF IsKernel
<1>2. DOMAIN taps = 1 .. n /\ n \in Nat /\ \A t \in DOMAIN taps : taps[t] \in Nat
  BY <1>1
<1>3. r \in Int /\ n = r * 2 + 1
  <2> HIDE DEF n
  <2> QED BY <1>1, <1>2, Division
<1>4. \A t : Offset(t, taps) = t - 1 - r
  BY DEF Offset
<1> HIDE DEF n, r
<1>5. ASSUME NEW t \in DOMAIN taps
      PROVE  /\ Offset(t, taps) \in Int /\ n + 1 - t \in DOMAIN taps
             /\ Offset(n + 1 - t, taps) = 0 - Offset(t, taps)
  <2>1. t \in Int /\ t >= 1 /\ t <= n
    BY <1>2
  <2>2. n + 1 - t \in 1 .. n
    BY <1>2, <2>1
  <2> QED BY <1>2, <1>3, <1>4, <2>1, <2>2
<1> QED BY <1>1, <1>2, <1>5 DEF n

\* What a kernel gives behind the mirror is what it gives in front of it.
LEMMA SmoothedOverMirror ==
    ASSUME NEW len \in Nat, len >= 2, NEW k, k \in 0 .. Period(len) - 1,
           NEW taps, IsKernel(taps), NEW g, \A x \in 0 .. len - 1 : g[x] \in Nat
    PROVE  Total(OverMirror(g, k, len, taps), DOMAIN taps) = Total(Folded(g, k, len, taps), DOMAIN taps)
<1> DEFINE D == DOMAIN taps
           n == Len(taps)
           over == OverMirror(g, k, len, taps)
           folded == Folded(g, k, len, taps)
           At(o) == g[Unfolded((k + o) % Period(len), len)]
<1>1. /\ taps \in Seq(Nat) /\ D = 1 .. n /\ n \in Nat
      /\ \A t \in D :
           /\ Offset(t, taps) \in Int /\ n + 1 - t \in D
           /\ taps[n + 1 - t] = taps[t] /\ taps[t] \in Nat
           /\ Offset(n + 1 - t, taps) = 0 - Offset(t, taps)
  BY TapsAre
<1>2. k \in Int /\ Period(len) \in Nat
  BY DEF Period
<1>3. ASSUME NEW o \in Int
      PROVE  At(o) \in Nat
  <2>1. k + o \in Int
    BY <1>2
  <2>2. (k + o) % Period(len) \in 0 .. Period(len) - 1
    BY <2>1, ReflectIs
  <2>3. Unfolded((k + o) % Period(len), len) \in 0 .. len - 1
    BY <2>2, UnfoldedIs
  <2> QED BY <2>3
<1>4. \A t \in D : over[t] = taps[t] * At(Offset(t, taps))
  BY DEF OverMirror
<1>5. \A t \in D : folded[t] = taps[t] * g[reflect(Unfolded(k, len) + Offset(t, taps), len)]
  BY DEF Folded
<1>6. CASE k < len
  <2>1. \A t \in D : g[reflect(Unfolded(k, len) + Offset(t, taps), len)] = At(Offset(t, taps))
    BY <1>1, <1>6, AwayFromMirror
  <2>2. over = folded
    <3>1. over = [t \in D |-> over[t]] /\ folded = [t \in D |-> folded[t]]
      BY DEF OverMirror, Folded
    <3>2. \A t \in D : over[t] = folded[t]
      <4> HIDE DEF over, folded, At, D
      <4> QED BY <1>4, <1>5, <2>1
    <3> HIDE DEF over, folded
    <3> QED BY <3>1, <3>2
  <2> QED BY <2>2
<1>7. CASE k >= len
  <2> DEFINE turned == [t \in D |-> n + 1 - t]
  <2>1. \A t \in D : g[reflect(Unfolded(k, len) + Offset(t, taps), len)] = At(0 - Offset(t, taps))
    <3> SUFFICES ASSUME NEW t \in D
                 PROVE  g[reflect(Unfolded(k, len) + Offset(t, taps), len)] = At(0 - Offset(t, taps))
      OBVIOUS
    <3>1. Offset(t, taps) \in Int
      BY <1>1
    <3>2. k - Offset(t, taps) = k + (0 - Offset(t, taps))
      BY <1>2, <3>1
    <3> QED BY <1>7, <3>1, <3>2, AwayFromMirror
  <2>2. \A t \in D : turned[t] = n + 1 - t
    OBVIOUS
  <2> HIDE DEF turned, over, folded, At, D, n
  <2>3. \A t \in D : over[turned[t]] = folded[t]
    <3> SUFFICES ASSUME NEW t \in D PROVE over[turned[t]] = folded[t]
      OBVIOUS
    <3>1. over[n + 1 - t] = taps[n + 1 - t] * At(Offset(n + 1 - t, taps))
      BY <1>1, <1>4
    <3> QED BY <1>1, <1>5, <2>1, <2>2, <3>1
  <2>4. \A t \in D : folded[t] \in Int
    <3> SUFFICES ASSUME NEW t \in D PROVE folded[t] \in Int
      OBVIOUS
    <3>1. 0 - Offset(t, taps) \in Int /\ taps[t] \in Nat
      BY <1>1
    <3>2. At(0 - Offset(t, taps)) \in Nat
      BY <1>3, <3>1
    <3>3. taps[t] * At(0 - Offset(t, taps)) \in Int
      BY <3>1, <3>2, SMT
    <3> QED BY <1>5, <2>1, <3>3
  <2>5. \A t, u \in D : turned[t] = turned[u] => t = u
    BY <1>1, <2>2
  <2>6. {turned[t] : t \in D} = D
    <3>1. ASSUME NEW u \in D PROVE \E t \in D : turned[t] = u
      <4>1. n + 1 - u \in D
        BY <1>1
      <4>2. turned[n + 1 - u] = u
        BY <1>1, <2>2, <4>1
      <4> QED BY <4>1, <4>2
    <3>2. \A t \in D : turned[t] \in D
      BY <1>1, <2>2
    <3> QED BY <3>1, <3>2
  <2>7. IsFiniteSet(D)
    BY <1>1, FS_Interval
  <2>8. Total(over, {turned[t] : t \in D}) = Total(folded, D)
    BY <2>3, <2>4, <2>5, <2>7, TotalMoved
  <2> QED BY <2>6, <2>8 DEF over, folded, D
<1> QED BY <1>2, <1>6, <1>7

(***************************************************************************)
(* The picture continued by its mirror image.                              *)
(***************************************************************************)
Shows(field, image) ==
    /\ field = [c \in Torus |-> field[c]]
    /\ \A c \in Torus : field[c] = image[Unfolded(c[2], Height) * Width + Unfolded(c[1], Width)]

\* The members of the torus, and where they are in the picture.
LEMMA TorusIs ==
    ASSUME Width \in Nat, Width >= 2, Height \in Nat, Height >= 2
    PROVE  /\ \A x \in 0 .. Period(Width) - 1, y \in 0 .. Period(Height) - 1 :
                /\ <<x, y>> \in Torus
                /\ Unfolded(x, Width) \in 0 .. Width - 1 /\ Unfolded(y, Height) \in 0 .. Height - 1
           /\ \A c \in Torus :
                /\ c = <<c[1], c[2]>>
                /\ c[1] \in 0 .. Period(Width) - 1 /\ c[2] \in 0 .. Period(Height) - 1
<1>1. \A x \in 0 .. Period(Width) - 1, y \in 0 .. Period(Height) - 1 : <<x, y>> \in Torus
  BY DEF Torus
<1>2. \A x \in 0 .. Period(Width) - 1 : Unfolded(x, Width) \in 0 .. Width - 1
  BY UnfoldedIs
<1>3. \A y \in 0 .. Period(Height) - 1 : Unfolded(y, Height) \in 0 .. Height - 1
  BY UnfoldedIs
<1>4. \A c \in Torus :
        /\ c = <<c[1], c[2]>>
        /\ c[1] \in 0 .. Period(Width) - 1 /\ c[2] \in 0 .. Period(Height) - 1
  BY DEF Torus
<1> QED BY <1>1, <1>2, <1>3, <1>4

\* A shift in the torus shows the pixel that the coordinates of the shift do.
LEMMA ShiftShows ==
    ASSUME Width \in Nat, Width >= 2, Height \in Nat, Height >= 2,
           NEW field, NEW image, Shows(field, image),
           NEW x, x \in 0 .. Period(Width) - 1, NEW y, y \in 0 .. Period(Height) - 1,
           NEW dx \in Int, NEW dy \in Int
    PROVE  /\ Shift(<<x, y>>, dx, dy) = <<(x + dx) % Period(Width), (y + dy) % Period(Height)>>
           /\ Shift(<<x, y>>, dx, dy) \in Torus
           /\ field[Shift(<<x, y>>, dx, dy)]
                = image[Unfolded((y + dy) % Period(Height), Height) * Width
                          + Unfolded((x + dx) % Period(Width), Width)]
<1> DEFINE u == (x + dx) % Period(Width)
           v == (y + dy) % Period(Height)
<1>1. Shift(<<x, y>>, dx, dy) = <<u, v>>
  BY DEF Shift
<1>2. x + dx \in Int /\ y + dy \in Int
  BY DEF Period
<1>3. u \in 0 .. Period(Width) - 1 /\ v \in 0 .. Period(Height) - 1
  BY <1>2, ReflectIs
<1> HIDE DEF u, v
<1>4. <<u, v>> \in Torus
  BY <1>3, TorusIs
<1>5. field[<<u, v>>] = image[Unfolded(v, Height) * Width + Unfolded(u, Width)]
  BY <1>4 DEF Shows
<1> QED BY <1>1, <1>4, <1>5 DEF u, v

\* Where a place of the picture is its own image.
LEMMA InsideIsKept ==
    ASSUME NEW len \in Nat, len >= 2, NEW x, x \in 0 .. len - 1
    PROVE  reflect(x, len) = x
<1>1. Period(len) \in Nat /\ Period(len) >= 1 /\ x \in 0 .. Period(len) - 1 /\ x \in Int /\ 0 \in Int
  BY DEF Period
<1>2. x % Period(len) = x
  <2> DEFINE m == Period(len)
  <2> HIDE DEF m
  <2>1. (0 * m + x) % m = x
    BY <1>1, QuotientOf DEF m
  <2>2. 0 * m + x = x
    BY <1>1 DEF m
  <2> QED BY <2>1, <2>2 DEF m
<1>3. reflect(x, len) = Unfolded(x % Period(len), len)
  BY <1>1, ReflectIs
<1> QED BY <1>2, <1>3 DEF Unfolded

\* The contrasts of the continued picture are the high-pass filter of the picture.
LEMMA ContrastShows ==
    ASSUME Width \in Nat, Width >= 2, Height \in Nat, Height >= 2,
           NEW image, image \in Picture(Width, Height), NEW field, Shows(field, image)
    PROVE  Shows(Contrast(field), high_pass(image, Width, Height))
<1> DEFINE w == Width
           h == Height
           At(sx, sy) == image[reflect(sy, h) * w + reflect(sx, w)]
<1>1. Contrast(field) = [c \in Torus |-> Contrast(field)[c]]
  BY DEF Contrast
<1>2. ASSUME NEW c \in Torus
      PROVE  Contrast(field)[c]
               = high_pass(image, w, h)[Unfolded(c[2], h) * w + Unfolded(c[1], w)]
  <2> DEFINE k == c[1]
             l == c[2]
             x == Unfolded(k, w)
             y == Unfolded(l, h)
             p == y * w + x
  <2>1. /\ c = <<k, l>> /\ k \in 0 .. Period(w) - 1 /\ l \in 0 .. Period(h) - 1
        /\ x \in 0 .. w - 1 /\ y \in 0 .. h - 1 /\ k \in Int /\ l \in Int
    BY TorusIs
  <2>2. p \in 0 .. w * h - 1 /\ p % w = x /\ p \div w = y
    <3> HIDE DEF w, h, x, y
    <3>1. w \in Nat /\ w >= 1 /\ h \in Nat /\ h >= 1
      BY DEF w, h
    <3> QED BY <2>1, <3>1, InRow
  <2>3. high_pass(image, w, h)[p] = Absolute(4 * At(x, y) - At(x - 1, y) - At(x + 1, y) - At(x, y - 1) - At(x, y + 1))
    <3>1. p \in DOMAIN image
      BY <2>2 DEF Picture
    <3> DEFINE Here(q) == Absolute(4 * At(q % w, q \div w) - At((q % w) - 1, q \div w) - At((q % w) + 1, q \div w)
                                     - At(q % w, q \div w - 1) - At(q % w, q \div w + 1))
    <3>2. high_pass(image, w, h) = [q \in DOMAIN image |-> Here(q)]
      BY DEF high_pass
    <3>3. high_pass(image, w, h)[p] = Here(p)
      <4> HIDE DEF Here, p
      <4> QED BY <3>1, <3>2
    <3> HIDE DEF p, x, y, w, h, At
    <3> QED BY <2>2, <3>3
  <2>4. field[c] = At(x, y)
    <3>1. reflect(x, w) = x /\ reflect(y, h) = y
      BY <2>1, InsideIsKept
    <3> QED BY <3>1 DEF Shows
  <2>5. /\ x - 1 = x + (-1) /\ y - 1 = y + (-1) /\ (-1) \in Int /\ x + 0 = x /\ y + 0 = y
        /\ k + 0 = k /\ l + 0 = l /\ k - (-1) = k + 1 /\ l - (-1) = l + 1 /\ k - 1 = k + (-1) /\ l - 1 = l + (-1)
    BY <2>1
  <2> HIDE DEF w, h
  <2>6. /\ k % Period(w) = k /\ l % Period(h) = l
    <3>1. ASSUME NEW m \in Nat, m >= 1, NEW i, i \in 0 .. m - 1
          PROVE  i % m = i
      <4>1. (0 * m + i) % m = i
        <5>1. 0 \in Int
          OBVIOUS
        <5> QED BY <3>1, <5>1, QuotientOf
      <4>2. 0 * m + i = i
        BY <3>1
      <4> QED BY <4>1, <4>2
    <3>2. Period(w) \in Nat /\ Period(w) >= 1 /\ Period(h) \in Nat /\ Period(h) >= 1
      BY DEF Period, w, h
    <3> QED BY <2>1, <3>1, <3>2
  <2>7. ASSUME NEW d \in Int
        PROVE  /\ field[Shift(c, d, 0)] = image[y * w + Unfolded((k + d) % Period(w), w)]
               /\ field[Shift(c, 0, d)] = image[Unfolded((l + d) % Period(h), h) * w + x]
    <3>0. k \in 0 .. Period(Width) - 1 /\ l \in 0 .. Period(Height) - 1 /\ 0 \in Int
      BY <2>1 DEF w, h
    <3>1. field[Shift(<<k, l>>, d, 0)]
            = image[Unfolded((l + 0) % Period(h), h) * w + Unfolded((k + d) % Period(w), w)]
      <4> HIDE DEF k, l, x, y
      <4>1. field[Shift(<<k, l>>, d, 0)]
              = image[Unfolded((l + 0) % Period(Height), Height) * Width + Unfolded((k + d) % Period(Width), Width)]
        BY <3>0, ShiftShows
      <4> QED BY <4>1 DEF w, h
    <3>2. field[Shift(<<k, l>>, 0, d)]
            = image[Unfolded((l + d) % Period(h), h) * w + Unfolded((k + 0) % Period(w), w)]
      <4> HIDE DEF k, l, x, y
      <4>1. field[Shift(<<k, l>>, 0, d)]
              = image[Unfolded((l + d) % Period(Height), Height) * Width + Unfolded((k + 0) % Period(Width), Width)]
        BY <3>0, ShiftShows
      <4> QED BY <4>1 DEF w, h
    <3> QED BY <2>1, <2>5, <2>6, <3>1, <3>2
  <2>8. w \in Nat /\ w >= 2 /\ h \in Nat /\ h >= 2
    BY DEF w, h
  <2>9. reflect(x, w) = x /\ reflect(y, h) = y
    BY <2>1, <2>8, InsideIsKept
  <2>10. \/ /\ field[Shift(c, 1, 0)] = At(x + 1, y) /\ field[Shift(c, -1, 0)] = At(x - 1, y)
         \/ /\ field[Shift(c, 1, 0)] = At(x - 1, y) /\ field[Shift(c, -1, 0)] = At(x + 1, y)
    <3>1. CASE k < w
      <4>1. /\ reflect(x + 1, w) = Unfolded((k + 1) % Period(w), w)
            /\ reflect(x + (-1), w) = Unfolded((k + (-1)) % Period(w), w)
        BY <2>1, <2>5, <2>8, <3>1, AwayFromMirror
      <4> QED BY <2>5, <2>7, <2>9, <4>1
    <3>2. CASE k >= w
      <4>1. /\ reflect(x + 1, w) = Unfolded((k - 1) % Period(w), w)
            /\ reflect(x + (-1), w) = Unfolded((k - (-1)) % Period(w), w)
        BY <2>1, <2>5, <2>8, <3>2, AwayFromMirror
      <4> QED BY <2>5, <2>7, <2>9, <4>1
    <3> QED BY <2>1, <2>8, <3>1, <3>2
  <2>11. \/ /\ field[Shift(c, 0, 1)] = At(x, y + 1) /\ field[Shift(c, 0, -1)] = At(x, y - 1)
         \/ /\ field[Shift(c, 0, 1)] = At(x, y - 1) /\ field[Shift(c, 0, -1)] = At(x, y + 1)
    <3>1. CASE l < h
      <4>1. /\ reflect(y + 1, h) = Unfolded((l + 1) % Period(h), h)
            /\ reflect(y + (-1), h) = Unfolded((l + (-1)) % Period(h), h)
        BY <2>1, <2>5, <2>8, <3>1, AwayFromMirror
      <4> QED BY <2>5, <2>7, <2>9, <4>1
    <3>2. CASE l >= h
      <4>1. /\ reflect(y + 1, h) = Unfolded((l - 1) % Period(h), h)
            /\ reflect(y + (-1), h) = Unfolded((l - (-1)) % Period(h), h)
        BY <2>1, <2>5, <2>8, <3>2, AwayFromMirror
      <4> QED BY <2>5, <2>7, <2>9, <4>1
    <3> QED BY <2>1, <2>8, <3>1, <3>2
  <2>12. ASSUME NEW sx \in Int, NEW sy \in Int
         PROVE  At(sx, sy) \in Int
    <3>1. reflect(sx, w) \in 0 .. w - 1 /\ reflect(sy, h) \in 0 .. h - 1
      <4>1. w >= 1 /\ h >= 1
        BY <2>8
      <4> QED BY <2>8, <4>1, Reflected
    <3>2. reflect(sy, h) * w + reflect(sx, w) \in 0 .. w * h - 1
      <4>1. w >= 1 /\ h >= 1
        BY <2>8
      <4> QED BY <2>8, <3>1, <4>1, InRow
    <3>3. image \in [0 .. w * h - 1 -> Nat]
      BY DEF Picture, w, h
    <3> QED BY <3>2, <3>3
  <2>13. /\ At(x, y) \in Int /\ At(x - 1, y) \in Int /\ At(x + 1, y) \in Int
         /\ At(x, y - 1) \in Int /\ At(x, y + 1) \in Int
    <3>1. x \in Int /\ y \in Int /\ x - 1 \in Int /\ x + 1 \in Int /\ y - 1 \in Int /\ y + 1 \in Int
      BY <2>1, <2>8
    <3> HIDE DEF At, x, y
    <3> QED BY <2>12, <3>1
  <2>14. Contrast(field)[c] = Abs(4 * field[c] - field[Shift(c, 1, 0)] - field[Shift(c, -1, 0)]
                                      - field[Shift(c, 0, 1)] - field[Shift(c, 0, -1)])
    BY DEF Contrast
  <2> HIDE DEF At, x, y, p, k, l
  <2>15. Contrast(field)[c] = Absolute(4 * At(x, y) - At(x - 1, y) - At(x + 1, y) - At(x, y - 1) - At(x, y + 1))
    <3> DEFINE a1 == field[Shift(c, 1, 0)]
               a2 == field[Shift(c, -1, 0)]
               a3 == field[Shift(c, 0, 1)]
               a4 == field[Shift(c, 0, -1)]
               b1 == At(x - 1, y)
               b2 == At(x + 1, y)
               b3 == At(x, y - 1)
               b4 == At(x, y + 1)
               m == At(x, y)
    <3>1. /\ (a1 = b2 /\ a2 = b1) \/ (a1 = b1 /\ a2 = b2)
          /\ (a3 = b4 /\ a4 = b3) \/ (a3 = b3 /\ a4 = b4)
      BY <2>10, <2>11
    <3>2. m \in Int /\ b1 \in Int /\ b2 \in Int /\ b3 \in Int /\ b4 \in Int
      BY <2>13
    <3>3. Contrast(field)[c] = Abs(4 * m - a1 - a2 - a3 - a4)
      BY <2>4, <2>14
    <3> HIDE DEF a1, a2, a3, a4, b1, b2, b3, b4, m
    <3>4. 4 * m - a1 - a2 - a3 - a4 = 4 * m - b1 - b2 - b3 - b4
      BY <3>1, <3>2
    <3>5. Contrast(field)[c] = Absolute(4 * m - b1 - b2 - b3 - b4)
      BY <3>3, <3>4 DEF Abs, Absolute
    <3> QED BY <3>5 DEF m, b1, b2, b3, b4
  <2>16. p = Unfolded(c[2], h) * w + Unfolded(c[1], w)
    BY DEF p, x, y, k, l
  <2> QED BY <2>3, <2>15, <2>16
<1> HIDE DEF At
<1> QED BY <1>1, <1>2 DEF Shows

Row(image, w, y) == [u \in 0 .. w - 1 |-> image[y * w + u]]
Column(image, w, h, x) == [v \in 0 .. h - 1 |-> image[v * w + x]]

\* What one of the two convolutions gives at a place of the picture.
LEMMA HorizontalIs ==
    ASSUME NEW w \in Nat, w >= 2, NEW h \in Nat, h >= 2, NEW image, image \in Picture(w, h),
           NEW taps, IsKernel(taps), NEW k, k \in 0 .. Period(w) - 1, NEW y, y \in 0 .. h - 1
    PROVE  convolve_axis(image, w, h, taps, "horizontal")[y * w + Unfolded(k, w)]
             = Total(Folded(Row(image, w, y), k, w, taps), DOMAIN taps)
<1> DEFINE x == Unfolded(k, w)
           p == y * w + x
           From(q, t) == (q \div w) * w + reflect((q % w) + (t - 1 - Len(taps) \div 2), w)
           Here(q) == [t \in DOMAIN taps |-> taps[t] * image[From(q, t)]]
           folded == Folded(Row(image, w, y), k, w, taps)
<1>1. convolve_axis(image, w, h, taps, "horizontal") = [q \in DOMAIN image |-> Total(Here(q), DOMAIN taps)]
  BY DEF convolve_axis, FoldFunction, Total
<1>2. x \in 0 .. w - 1 /\ x \in Int
  BY UnfoldedIs
<1>3. p \in 0 .. w * h - 1 /\ p % w = x /\ p \div w = y
  <2> HIDE DEF x
  <2>1. w >= 1 /\ h >= 1
    OBVIOUS
  <2> QED BY <1>2, <2>1, InRow
<1>4. convolve_axis(image, w, h, taps, "horizontal")[p] = Total(Here(p), DOMAIN taps)
  <2>1. p \in DOMAIN image
    BY <1>3 DEF Picture
  <2> HIDE DEF Here, p
  <2> QED BY <1>1, <2>1
<1>5. Here(p) = folded
  <2>1. ASSUME NEW t \in DOMAIN taps
        PROVE  Here(p)[t] = folded[t]
    <3> DEFINE z == reflect(x + Offset(t, taps), w)
    <3>1. z \in 0 .. w - 1
      <4>1. x + Offset(t, taps) \in Int /\ w >= 1
        BY <1>2, TapsAre
      <4> QED BY <4>1, Reflected
    <3>2. folded[t] = taps[t] * Row(image, w, y)[z]
      BY DEF Folded
    <3>3. Here(p)[t] = taps[t] * image[From(p, t)]
      OBVIOUS
    <3>4. From(p, t) = y * w + z
      <4> HIDE DEF p, x
      <4> QED BY <1>3 DEF Offset
    <3>5. Row(image, w, y)[z] = image[y * w + z]
      <4> HIDE DEF z
      <4> QED BY <3>1 DEF Row
    <3> QED BY <3>2, <3>3, <3>4, <3>5
  <2>2. Here(p) = [t \in DOMAIN taps |-> Here(p)[t]] /\ folded = [t \in DOMAIN taps |-> folded[t]]
    BY DEF Folded
  <2> HIDE DEF Here, folded
  <2> QED BY <2>1, <2>2
<1> QED BY <1>4, <1>5

\* The second pass, column by column.
LEMMA VerticalIs ==
    ASSUME NEW w \in Nat, w >= 2, NEW h \in Nat, h >= 2, NEW image, image \in Picture(w, h),
           NEW taps, IsKernel(taps), NEW l, l \in 0 .. Period(h) - 1, NEW x, x \in 0 .. w - 1
    PROVE  convolve_axis(image, w, h, taps, "vertical")[Unfolded(l, h) * w + x]
             = Total(Folded(Column(image, w, h, x), l, h, taps), DOMAIN taps)
<1> DEFINE y == Unfolded(l, h)
           p == y * w + x
           From(q, t) == reflect(q \div w + (t - 1 - Len(taps) \div 2), h) * w + (q % w)
           Here(q) == [t \in DOMAIN taps |-> taps[t] * image[From(q, t)]]
           folded == Folded(Column(image, w, h, x), l, h, taps)
<1>1. convolve_axis(image, w, h, taps, "vertical") = [q \in DOMAIN image |-> Total(Here(q), DOMAIN taps)]
  BY DEF convolve_axis, FoldFunction, Total
<1>2. y \in 0 .. h - 1 /\ y \in Int
  BY UnfoldedIs
<1>3. p \in 0 .. w * h - 1 /\ p % w = x /\ p \div w = y
  <2> HIDE DEF y
  <2>1. w >= 1 /\ h >= 1
    OBVIOUS
  <2> QED BY <1>2, <2>1, InRow
<1>4. convolve_axis(image, w, h, taps, "vertical")[p] = Total(Here(p), DOMAIN taps)
  <2>1. p \in DOMAIN image
    BY <1>3 DEF Picture
  <2> HIDE DEF Here, p
  <2> QED BY <1>1, <2>1
<1>5. Here(p) = folded
  <2>1. ASSUME NEW t \in DOMAIN taps
        PROVE  Here(p)[t] = folded[t]
    <3> DEFINE z == reflect(y + Offset(t, taps), h)
    <3>1. z \in 0 .. h - 1
      <4>1. y + Offset(t, taps) \in Int /\ h >= 1
        BY <1>2, TapsAre
      <4> QED BY <4>1, Reflected
    <3>2. folded[t] = taps[t] * Column(image, w, h, x)[z]
      BY DEF Folded
    <3>3. Here(p)[t] = taps[t] * image[From(p, t)]
      OBVIOUS
    <3>4. From(p, t) = z * w + x
      <4> HIDE DEF p, y
      <4> QED BY <1>3 DEF Offset
    <3>5. Column(image, w, h, x)[z] = image[z * w + x]
      <4> HIDE DEF z
      <4> QED BY <3>1 DEF Column
    <3> QED BY <3>2, <3>3, <3>4, <3>5
  <2>2. Here(p) = [t \in DOMAIN taps |-> Here(p)[t]] /\ folded = [t \in DOMAIN taps |-> folded[t]]
    BY DEF Folded
  <2> HIDE DEF Here, folded
  <2> QED BY <2>1, <2>2
<1> QED BY <1>4, <1>5

\* The filter of the continued picture is the separable filter of the picture.
LEMMA BlurredShows ==
    ASSUME Width \in Nat, Width >= 2, Height \in Nat, Height >= 2,
           NEW image, image \in Picture(Width, Height), NEW field, Shows(field, image),
           NEW taps, IsKernel(taps)
    PROVE  Shows(Blurred(field, taps), convolve_separable(image, Width, Height, taps))
<1> DEFINE w == Width
           h == Height
           D == DOMAIN taps
           across == convolve_axis(image, w, h, taps, "horizontal")
           both == convolve_axis(across, w, h, taps, "vertical")
           Inner(c, i) == [j \in D |-> taps[j] * field[Shift(c, Offset(j, taps), Offset(i, taps))]]
           Outer(c) == [i \in D |-> taps[i] * Total(Inner(c, i), D)]
<1>1. w \in Nat /\ w >= 2 /\ w >= 1 /\ h \in Nat /\ h >= 2 /\ h >= 1
  OBVIOUS
<1>2. taps \in Seq(Nat) /\ \A t \in D : Offset(t, taps) \in Int
  BY TapsAre
<1>3. image \in Picture(w, h) /\ across \in Picture(w, h)
  <2> HIDE DEF w, h
  <2> QED BY <1>1, <1>2, ConvolveKeeps DEF w, h
<1>4. Blurred(field, taps) = [c \in Torus |-> Total(Outer(c), D)]
  BY DEF Blurred, FoldFunction, Total, Offset
<1>5. ASSUME NEW c \in Torus
      PROVE  Total(Outer(c), D) = both[Unfolded(c[2], h) * w + Unfolded(c[1], w)]
  <2> DEFINE k == c[1]
             l == c[2]
             x == Unfolded(k, w)
             g == Column(across, w, h, x)
             M(i) == Unfolded((l + Offset(i, taps)) % Period(h), h)
  <2>1. /\ c = <<k, l>> /\ k \in 0 .. Period(w) - 1 /\ l \in 0 .. Period(h) - 1
        /\ x \in 0 .. w - 1 /\ k \in Int /\ l \in Int
    BY TorusIs
  <2>2. ASSUME NEW i \in D
        PROVE  Total(Inner(c, i), D) = g[M(i)]
    <3> DEFINE m == M(i)
               row == Row(image, w, m)
               over == OverMirror(row, k, w, taps)
    <3>1. m \in 0 .. h - 1
      <4>1. l + Offset(i, taps) \in Int
        BY <1>2, <2>1
      <4> HIDE DEF w, h
      <4>2. (l + Offset(i, taps)) % Period(h) \in 0 .. Period(h) - 1
        BY <1>1, <4>1, ReflectIs
      <4> QED BY <1>1, <4>2, UnfoldedIs
    <3>2. ASSUME NEW j \in D
          PROVE  Inner(c, i)[j] = over[j]
      <4> DEFINE n == Unfolded((k + Offset(j, taps)) % Period(w), w)
      <4>1. Inner(c, i)[j] = taps[j] * field[Shift(c, Offset(j, taps), Offset(i, taps))]
        OBVIOUS
      <4>2. field[Shift(c, Offset(j, taps), Offset(i, taps))] = image[m * w + n]
        <5> DEFINE dx == Offset(j, taps)
                   dy == Offset(i, taps)
        <5>1. dx \in Int /\ dy \in Int /\ k \in 0 .. Period(Width) - 1 /\ l \in 0 .. Period(Height) - 1
          BY <1>2, <2>1
        <5> HIDE DEF dx, dy, k, l
        <5>2. field[Shift(<<k, l>>, dx, dy)]
                = image[Unfolded((l + dy) % Period(Height), Height) * Width
                          + Unfolded((k + dx) % Period(Width), Width)]
          BY <5>1, ShiftShows
        <5> QED BY <2>1, <5>2 DEF dx, dy
      <4>3. n \in 0 .. w - 1
        <5>1. k + Offset(j, taps) \in Int
          BY <1>2, <2>1
        <5> HIDE DEF w, h
        <5>2. (k + Offset(j, taps)) % Period(w) \in 0 .. Period(w) - 1
          BY <1>1, <5>1, ReflectIs
        <5> QED BY <1>1, <5>2, UnfoldedIs
      <4>4. over[j] = taps[j] * row[n]
        BY DEF OverMirror
      <4>5. row[n] = image[m * w + n]
        <5> HIDE DEF n, m
        <5> QED BY <4>3 DEF Row
      <4> HIDE DEF n, m, w, h, row, over, Inner
      <4> QED BY <4>1, <4>2, <4>4, <4>5
    <3>3. Inner(c, i) = over
      <4>1. Inner(c, i) = [j \in D |-> Inner(c, i)[j]] /\ over = [j \in D |-> over[j]]
        BY DEF OverMirror
      <4> HIDE DEF Inner, over
      <4> QED BY <3>2, <4>1
    <3>4. \A u \in 0 .. w - 1 : row[u] \in Nat
      <4> SUFFICES ASSUME NEW u \in 0 .. w - 1 PROVE row[u] \in Nat
        OBVIOUS
      <4> HIDE DEF m, w, h
      <4>1. m * w + u \in 0 .. w * h - 1
        BY <1>1, <3>1, InRow
      <4>2. row[u] = image[m * w + u]
        BY DEF Row
      <4> QED BY <1>3, <4>1, <4>2 DEF Picture
    <3> HIDE DEF w, h, k, l, m
    <3>5. Total(over, D) = Total(Folded(row, k, w, taps), D)
      <4> HIDE DEF row
      <4> QED BY <1>1, <2>1, <3>4, SmoothedOverMirror
    <3>6. across[m * w + Unfolded(k, w)] = Total(Folded(row, k, w, taps), D)
      BY <1>1, <1>3, <2>1, <3>1, HorizontalIs
    <3>7. g[m] = across[m * w + Unfolded(k, w)]
      BY <3>1 DEF Column
    <3> HIDE DEF g, row, over, across, Inner
    <3> QED BY <3>3, <3>5, <3>6, <3>7 DEF m
  <2>3. Outer(c) = OverMirror(g, l, h, taps)
    <3> DEFINE over == OverMirror(g, l, h, taps)
    <3>1. ASSUME NEW i \in D PROVE Outer(c)[i] = over[i]
      <4>1. Outer(c)[i] = taps[i] * Total(Inner(c, i), D)
        OBVIOUS
      <4>2. over[i] = taps[i] * g[M(i)]
        BY DEF OverMirror
      <4> HIDE DEF Inner, g, M, over, Outer
      <4> QED BY <2>2, <4>1, <4>2
    <3>2. Outer(c) = [i \in D |-> Outer(c)[i]] /\ over = [i \in D |-> over[i]]
      BY DEF OverMirror
    <3> HIDE DEF Outer, over
    <3>3. Outer(c) = over
      BY <3>1, <3>2
    <3> QED BY <3>3 DEF over
  <2>4. \A v \in 0 .. h - 1 : g[v] \in Nat
    <3> SUFFICES ASSUME NEW v \in 0 .. h - 1 PROVE g[v] \in Nat
      OBVIOUS
    <3> HIDE DEF x, w, h, across
    <3>1. v * w + x \in 0 .. w * h - 1
      BY <1>1, <2>1, InRow
    <3>2. g[v] = across[v * w + x]
      BY DEF Column
    <3> QED BY <1>3, <3>1, <3>2 DEF Picture
  <2> HIDE DEF w, h, k, l, x, across
  <2>5. Total(OverMirror(g, l, h, taps), D) = Total(Folded(g, l, h, taps), D)
    <3> HIDE DEF g
    <3> QED BY <1>1, <2>1, <2>4, SmoothedOverMirror
  <2>6. both[Unfolded(l, h) * w + x] = Total(Folded(g, l, h, taps), D)
    BY <1>1, <1>3, <2>1, VerticalIs
  <2> HIDE DEF both, Outer, g
  <2> QED BY <2>3, <2>5, <2>6 DEF x, k, l
<1>6. both = convolve_separable(image, w, h, taps)
  BY DEF convolve_separable
<1> HIDE DEF both, Outer, across
<1>7. Blurred(field, taps) = [c \in Torus |-> Blurred(field, taps)[c]]
  BY <1>4
<1>8. \A c \in Torus : Blurred(field, taps)[c] = both[Unfolded(c[2], h) * w + Unfolded(c[1], w)]
  BY <1>4, <1>5
<1> QED BY <1>6, <1>7, <1>8 DEF Shows

\* How far the filters are.
Texture(image, w, h, taps) == convolve_separable(image, w, h, taps)
Filtered ==
    LET contrast == high_pass(picture.luma, Width, Height)
        first == Texture(contrast, Width, Height, FIRST_SMOOTHING)
    IN  /\ stage = "high_pass" => plane = picture.luma
        /\ stage = "first" => plane = contrast
        /\ stage = "second" => plane = first
        /\ stage = "validate" => plane = Texture(first, Width, Height, SECOND_SMOOTHING)

\* Nothing was filtered yet.
LEMMA FilteredInit ==
    ASSUME Init
    PROVE  Filtered
BY DEF Init, HillInit, Filtered

\* Every step keeps Filtered.
LEMMA FilteredStep ==
    ASSUME Filtered, [Next]_vars
    PROVE  Filtered'
<1>1. CASE Compute
  <2>1. CASE HighPass
    <3>1. /\ picture' = picture /\ stage = "high_pass" /\ stage' = "first"
          /\ plane' = high_pass(plane, Width, Height)
      BY <2>1 DEF HighPass, Filter
    <3>2. Width' = Width /\ Height' = Height
      BY <3>1 DEF Width, Height
    <3> QED BY <3>1, <3>2 DEF Filtered
  <2>2. CASE FirstSmoothing
    <3>1. /\ picture' = picture /\ stage = "first" /\ stage' = "second"
          /\ plane' = Texture(plane, Width, Height, FIRST_SMOOTHING)
      BY <2>2 DEF FirstSmoothing, Filter, Texture
    <3>2. Width' = Width /\ Height' = Height
      BY <3>1 DEF Width, Height
    <3> QED BY <3>1, <3>2 DEF Filtered
  <2>3. CASE SecondSmoothing
    <3>1. /\ picture' = picture /\ stage = "second" /\ stage' = "validate"
          /\ plane' = Texture(plane, Width, Height, SECOND_SMOOTHING)
      BY <2>3 DEF SecondSmoothing, Filter, Texture
    <3>2. Width' = Width /\ Height' = Height
      BY <3>1 DEF Width, Height
    <3> QED BY <3>1, <3>2 DEF Filtered
  <2>4. ASSUME SmoothRatioGate \/ StartRegion \/ GrowRegion \/ SmoothRegionGate \/ TextureGate
        PROVE  stage' \notin {"high_pass", "first", "second", "validate"}
    BY <2>4 DEF SmoothRatioGate, StartRegion, GrowRegion, SmoothRegionGate, TextureGate, Refuse
  <2> QED BY <1>1, <2>1, <2>2, <2>3, <2>4 DEF Compute, Hill, Filtered
<1>2. CASE ~Compute
  <2>1. picture' = picture /\ plane' = plane /\ stage' = stage
    BY <1>2 DEF Next, vars, hillVars, Decode, Detect, Render, WritePng, Reread, ReadPayload, Finished
  <2>2. Width' = Width /\ Height' = Height
    BY <2>1 DEF Width, Height
  <2> QED BY <2>1, <2>2 DEF Filtered
<1> QED BY <1>1, <1>2

\* The plane, at every moment.
LEMMA FilteredAlways == Spec => []Filtered
<1>1. Init => Filtered
  BY FilteredInit
<1>2. Filtered /\ [Next]_vars => Filtered'
  BY FilteredStep
<1> QED BY <1>1, <1>2, PTL DEF Spec

\* The continued picture has the levels of the picture.
LEMMA ShownIsNatural ==
    ASSUME Width \in Nat, Width >= 2, Height \in Nat, Height >= 2,
           NEW image, image \in Picture(Width, Height), NEW field, Shows(field, image)
    PROVE  field \in [Torus -> Nat]
<1>1. ASSUME NEW c \in Torus
      PROVE  field[c] \in Nat
  <2> DEFINE x == Unfolded(c[1], Width)
             y == Unfolded(c[2], Height)
  <2>1. x \in 0 .. Width - 1 /\ y \in 0 .. Height - 1
    BY TorusIs
  <2>2. field[c] = image[y * Width + x]
    BY DEF Shows
  <2> HIDE DEF x, y
  <2>3. Width >= 1 /\ Height >= 1
    OBVIOUS
  <2>4. y * Width + x \in 0 .. Width * Height - 1
    BY <2>1, <2>3, InRow
  <2> QED BY <2>2, <2>4 DEF Picture
<1> QED BY <1>1 DEF Shows

\* The texture is that of a picture without a border, its own mirror image
\* behind every edge.
THEOREM NoBorderIsInvented == Spec => []NoInventedBorder
<1>1. Computing /\ Filtered => NoInventedBorder
  <2> SUFFICES ASSUME Computing, Filtered, stage = "validate"
               PROVE  NoInventedBorder
    BY DEF NoInventedBorder
  <2> DEFINE w == Width
             h == Height
             contrast == Contrast(Mirrored)
             first == Blurred(contrast, FIRST_SMOOTHING)
             texture == Blurred(first, SECOND_SMOOTHING)
             plane1 == high_pass(picture.luma, w, h)
             plane2 == convolve_separable(plane1, w, h, FIRST_SMOOTHING)
             plane3 == convolve_separable(plane2, w, h, SECOND_SMOOTHING)
  <2>1. /\ w \in Nat /\ w >= 2 /\ w >= 1 /\ h \in Nat /\ h >= 2 /\ h >= 1
        /\ picture.luma \in Picture(w, h) /\ Positions = 0 .. w * h - 1
    <3>1. picture \in Pictures /\ plane \in Picture(w, h) /\ IsPicture(picture)
      BY PicturesAre DEF Computing
    <3> QED BY <3>1, PlanesAreFinite DEF IsPicture, Picture, Width, Height
  <2>2. /\ IsKernel(FIRST_SMOOTHING) /\ FIRST_SMOOTHING \in Seq(Nat)
        /\ IsKernel(SECOND_SMOOTHING) /\ SECOND_SMOOTHING \in Seq(Nat)
    BY HillAssumption DEF IsKernel
  <2>3. plane1 \in Picture(w, h) /\ plane2 \in Picture(w, h)
    <3> HIDE DEF w, h
    <3>1. plane1 \in Picture(w, h)
      BY <2>1, HighPassKeeps
    <3> HIDE DEF plane1
    <3> QED BY <2>1, <2>2, <3>1, SmoothingKeeps
  <2>4. Shows(Mirrored, picture.luma)
    BY DEF Shows, Mirrored
  <2> HIDE DEF plane1, plane2, plane3, contrast, first, texture
  <2>5. Shows(contrast, plane1)
    BY <2>1, <2>4, ContrastShows DEF contrast, plane1
  <2>6. Shows(first, plane2)
    BY <2>1, <2>2, <2>3, <2>5, BlurredShows DEF first, plane2
  <2>7. Shows(texture, plane3)
    BY <2>1, <2>2, <2>3, <2>6, BlurredShows DEF texture, plane3
  <2>8. contrast \in [Torus -> Nat] /\ first \in [Torus -> Nat]
    BY <2>1, <2>3, <2>5, <2>6, ShownIsNatural
  <2>9. plane = plane3
    BY DEF Filtered, Texture, plane1, plane2, plane3
  <2>10. ASSUME NEW p \in Positions
         PROVE  plane[p] = texture[<<p % w, p \div w>>]
    <3>1. p % w \in 0 .. w - 1 /\ p \div w \in 0 .. h - 1 /\ p = (p \div w) * w + (p % w)
      <4> HIDE DEF w, h
      <4> QED BY <2>1, OfRow
    <3> DEFINE x == p % w
               y == p \div w
    <3>2. x \in 0 .. w - 1 /\ y \in 0 .. h - 1 /\ p = y * w + x
      BY <3>1
    <3> HIDE DEF x, y
    <3>3. /\ x \in 0 .. Period(w) - 1 /\ y \in 0 .. Period(h) - 1
          /\ Unfolded(x, w) = x /\ Unfolded(y, h) = y
      BY <2>1, <3>2 DEF Period, Unfolded
    <3>4. <<x, y>> \in Torus
      BY <2>1, <3>3, TorusIs
    <3>5. texture[<<x, y>>] = plane3[Unfolded(y, h) * w + Unfolded(x, w)]
      BY <2>7, <3>4 DEF Shows
    <3> QED BY <2>9, <3>2, <3>3, <3>5 DEF x, y
  <2> QED BY <2>8, <2>10 DEF NoInventedBorder, contrast, first, texture
<1> QED BY <1>1, ComputingAlways, FilteredAlways, PTL

(***************************************************************************)
(* The envelope.  The walk over the chunks of a file, one chunk at a time. *)
(***************************************************************************)
ChunkType == [type : STRING, length : Nat, whole : BOOLEAN]
EnvelopeType == [preserved : Seq(ChunkType), size : {DefaultIdat}, count : {0}, discarded : Nat]
WalkType == [envelope : EnvelopeType, lengths : Seq(Nat)]

Begin == [envelope |-> NewEnvelope(<<>>), lengths |-> <<>>]
Filed(st, chunk) ==
    IF chunk.type = "IDAT" THEN [st EXCEPT !.lengths = Append(@, chunk.length)]
    ELSE [st EXCEPT !.envelope = record(@, chunk, st.lengths = <<>>)]
WalksOver(f, c, n) == f = [k \in 0 .. n |-> IF k = 0 THEN Begin ELSE Filed(f[k - 1], c[k])]
SizeOf(lengths) ==
    IF lengths = <<>> \/ dominant_length(lengths) < MinIdat THEN DefaultIdat
    ELSE IF dominant_length(lengths) > MaxIdat THEN MaxIdat
    ELSE dominant_length(lengths)

Keeps(preserved, chunk, before) ==
    /\ chunk.type \in Technical /\ before /\ chunk.length <= MaxPreserved
    /\ \A i \in DOMAIN preserved : preserved[i].type # chunk.type

\* There is a walk over the chunks of a file.
LEMMA WalkExists ==
    ASSUME NEW c, NEW n \in Nat
    PROVE  \E f : WalksOver(f, c, n)
<1> DEFINE S == {m \in Nat : \E f : WalksOver(f, c, m)}
           Next_(s, k) == Filed(s, c[k])
<1>1. 0 \in S
  <2> DEFINE f == [k \in 0 .. 0 |-> Begin]
  <2>1. WalksOver(f, c, 0)
    BY DEF WalksOver
  <2> QED BY <2>1
<1>2. ASSUME NEW m \in Nat, m \in S
      PROVE  m + 1 \in S
  <2>1. PICK f : WalksOver(f, c, m)
    BY <1>2
  <2> DEFINE g == [k \in 0 .. m + 1 |-> IF k <= m THEN f[k] ELSE Next_(f[m], m + 1)]
  <2>2. \A k \in 0 .. m : f[k] = IF k = 0 THEN Begin ELSE Next_(f[k - 1], k)
    BY <2>1 DEF WalksOver
  <2>3. \A k \in 0 .. m + 1 : g[k] = IF k = 0 THEN Begin ELSE Next_(g[k - 1], k)
    <3> HIDE DEF Next_
    <3> SUFFICES ASSUME NEW k \in 0 .. m + 1
                 PROVE  g[k] = IF k = 0 THEN Begin ELSE Next_(g[k - 1], k)
      OBVIOUS
    <3>1. CASE k = 0
      BY <2>2, <3>1
    <3>2. CASE k # 0 /\ k <= m
      <4>1. k - 1 \in 0 .. m /\ k \in 0 .. m
        BY <3>2
      <4> QED BY <2>2, <3>2, <4>1
    <3>3. CASE k = m + 1
      <4>1. k - 1 = m /\ m \in 0 .. m + 1 /\ k # 0 /\ ~(k <= m)
        BY <3>3
      <4> QED BY <3>3, <4>1
    <3> QED BY <3>1, <3>2, <3>3
  <2>4. WalksOver(g, c, m + 1)
    <3>1. g = [k \in 0 .. m + 1 |-> g[k]]
      OBVIOUS
    <3> HIDE DEF g
    <3> QED BY <2>3, <3>1 DEF WalksOver
  <2> HIDE DEF g
  <2> QED BY <2>4
<1>3. Nat \subseteq S
  <2> HIDE DEF S
  <2> QED BY <1>1, <1>2, NatInd
<1> QED BY <1>3

\* read is where the walk ends, with the size that its lengths give.
LEMMA ReadIs ==
    ASSUME NEW file, Len(Visible(file)) \in Nat
    PROVE  \E f : /\ WalksOver(f, Visible(file), Len(Visible(file)))
                  /\ read(file) = [f[Len(Visible(file))].envelope EXCEPT
                                      !.size = SizeOf(f[Len(Visible(file))].lengths),
                                      !.count = Len(f[Len(Visible(file))].lengths)]
<1> DEFINE c == Visible(file)
           L == Len(c)
           f == CHOOSE g : WalksOver(g, c, L)
<1>1. read(file) = [f[L].envelope EXCEPT !.size = SizeOf(f[L].lengths), !.count = Len(f[L].lengths)]
  BY DEF read, WalksOver, Begin, Filed, SizeOf
<1>2. WalksOver(f, c, L)
  <2> HIDE DEF f, c
  <2> QED BY WalkExists DEF f
<1> HIDE DEF f
<1> QED BY <1>1, <1>2

\* What filing one chunk does.
LEMMA FiledIs ==
    ASSUME NEW st \in WalkType, NEW chunk \in ChunkType
    PROVE  /\ Filed(st, chunk) \in WalkType
           /\ chunk.type = "IDAT" => /\ Filed(st, chunk).envelope = st.envelope
                                     /\ Filed(st, chunk).lengths = Append(st.lengths, chunk.length)
           /\ chunk.type # "IDAT" => Filed(st, chunk).lengths = st.lengths
           /\ chunk.type # "IDAT" /\ Keeps(st.envelope.preserved, chunk, st.lengths = <<>>) =>
                /\ Filed(st, chunk).envelope.preserved = Append(st.envelope.preserved, chunk)
                /\ Filed(st, chunk).envelope.discarded = st.envelope.discarded
           /\ chunk.type # "IDAT" /\ ~Keeps(st.envelope.preserved, chunk, st.lengths = <<>>) =>
                /\ Filed(st, chunk).envelope.preserved = st.envelope.preserved
                /\ Filed(st, chunk).envelope.discarded
                     = st.envelope.discarded + IF chunk.type \in Lowercase THEN 1 ELSE 0
<1> DEFINE e == st.envelope
           r == record(e, chunk, st.lengths = <<>>)
           after == Filed(st, chunk)
<1>1. e \in EnvelopeType /\ st.lengths \in Seq(Nat) /\ e.preserved \in Seq(ChunkType) /\ e.discarded \in Nat
      /\ chunk.length \in Nat
  BY DEF WalkType, EnvelopeType, ChunkType
<1>2. CASE chunk.type = "IDAT"
  <2>1. after = [st EXCEPT !.lengths = Append(@, chunk.length)]
    BY <1>2 DEF Filed
  <2>2. Append(st.lengths, chunk.length) \in Seq(Nat)
    BY <1>1
  <2>3. after.envelope = e /\ after.lengths = Append(st.lengths, chunk.length) /\ after \in WalkType
    BY <2>1, <2>2 DEF WalkType
  <2> QED BY <1>2, <2>3
<1>3. CASE chunk.type # "IDAT"
  <2>1. after = [st EXCEPT !.envelope = r]
    BY <1>3 DEF Filed
  <2>2. r = IF Keeps(e.preserved, chunk, st.lengths = <<>>)
            THEN [e EXCEPT !.preserved = Append(@, chunk)]
            ELSE [e EXCEPT !.discarded = @ + IF chunk.type \in Lowercase THEN 1 ELSE 0]
    BY DEF record, Keeps
  <2> HIDE DEF e
  <2>3. CASE Keeps(e.preserved, chunk, st.lengths = <<>>)
    <3>1. r = [e EXCEPT !.preserved = Append(@, chunk)]
      BY <2>2, <2>3
    <3>2. Append(e.preserved, chunk) \in Seq(ChunkType)
      BY <1>1
    <3> HIDE DEF r
    <3>3. r \in EnvelopeType /\ r.preserved = Append(e.preserved, chunk) /\ r.discarded = e.discarded
      BY <1>1, <3>1, <3>2 DEF EnvelopeType
    <3>4. after.envelope = r /\ after.lengths = st.lengths /\ after \in WalkType
      BY <2>1, <3>3 DEF WalkType
    <3> QED BY <1>3, <2>3, <3>3, <3>4 DEF e
  <2>4. CASE ~Keeps(e.preserved, chunk, st.lengths = <<>>)
    <3> DEFINE more == IF chunk.type \in Lowercase THEN 1 ELSE 0
    <3>1. r = [e EXCEPT !.discarded = @ + more]
      BY <2>2, <2>4
    <3>2. e.discarded + more \in Nat
      BY <1>1
    <3> HIDE DEF r, more
    <3>3. r \in EnvelopeType /\ r.preserved = e.preserved /\ r.discarded = e.discarded + more
      BY <1>1, <3>1, <3>2 DEF EnvelopeType
    <3>4. after.envelope = r /\ after.lengths = st.lengths /\ after \in WalkType
      BY <2>1, <3>3 DEF WalkType
    <3> QED BY <1>3, <2>4, <3>3, <3>4 DEF e, more
  <2> QED BY <2>3, <2>4
<1> QED BY <1>2, <1>3

\* Where a walk begins.
LEMMA BeginIs == Begin \in WalkType /\ Begin.lengths = <<>> /\ Begin.envelope.preserved = <<>> /\ Begin.envelope.discarded = 0
BY EmptySeq DEF Begin, WalkType, EnvelopeType, NewEnvelope

\* One step of a walk.
LEMMA WalkSteps ==
    ASSUME NEW f, NEW c, NEW n \in Nat, WalksOver(f, c, n), NEW m \in Nat, m + 1 <= n
    PROVE  f[m + 1] = Filed(f[m], c[m + 1])
<1>1. \A k \in 0 .. n : f[k] = IF k = 0 THEN Begin ELSE Filed(f[k - 1], c[k])
  BY DEF WalksOver
<1>2. m + 1 \in 0 .. n /\ m + 1 # 0 /\ (m + 1) - 1 = m
  OBVIOUS
<1> QED BY <1>1, <1>2

\* What a reader sees is in front of the end, and whole.
LEMMA VisibleIs ==
    ASSUME NEW file \in Seq(ChunkType)
    PROVE  /\ Visible(file) \in Seq(ChunkType)
           /\ \A i \in DOMAIN Visible(file) : Visible(file)[i].type # "IEND" /\ Visible(file)[i].whole
<1> DEFINE stops == {i \in DOMAIN file : file[i].type = "IEND" \/ ~file[i].whole}
           first == CHOOSE i \in stops : \A j \in stops : i <= j
           n == Len(file)
<1>1. n \in Nat /\ DOMAIN file = 1 .. n
  OBVIOUS
<1>2. CASE stops = {}
  <2>1. Visible(file) = file
    BY <1>2 DEF Visible
  <2>2. \A i \in DOMAIN file : file[i].type # "IEND" /\ file[i].whole
    BY <1>2
  <2> QED BY <2>1, <2>2
<1>3. CASE stops # {}
  <2>1. Visible(file) = SubSeq(file, 1, first - 1)
    BY <1>3 DEF Visible
  <2>2. first \in stops /\ \A j \in stops : first <= j
    <3>1. stops \subseteq Nat
      BY <1>1
    <3> HIDE DEF stops
    <3> QED BY <1>3, <3>1, NatMin
  <2>3. first \in 1 .. n
    BY <1>1, <2>2
  <2>4. ASSUME NEW i \in 1 .. first - 1
        PROVE  file[i].type # "IEND" /\ file[i].whole
    <3>1. i \in DOMAIN file /\ ~(first <= i)
      BY <1>1, <2>3
    <3>2. i \notin stops
      <4> HIDE DEF stops, first
      <4> QED BY <2>2, <3>1
    <3> QED BY <3>1, <3>2
  <2> HIDE DEF first, n, stops
  <2>5. /\ SubSeq(file, 1, first - 1) \in Seq(ChunkType)
        /\ Len(SubSeq(file, 1, first - 1)) = first - 1
        /\ \A i \in 1 .. first - 1 : SubSeq(file, 1, first - 1)[i] = file[i]
    <3>1. first - 1 \in 0 .. n /\ \A i \in 1 .. first - 1 : i \in 1 .. n
      BY <1>1, <2>3
    <3> QED BY <1>1, <3>1, SubSeqProperties DEF n
  <2> QED BY <2>1, <2>4, <2>5
<1> QED BY <1>2, <1>3

\* part is list at the places w, one after the other, which are all of ks.
Places(w, part, list, ks) ==
    /\ w \in [1 .. Len(part) -> ks]
    /\ \A i, j \in 1 .. Len(part) : i < j => w[i] < w[j]
    /\ \A i \in 1 .. Len(part) : part[i] = list[w[i]]
    /\ \A k \in ks : \E i \in 1 .. Len(part) : w[i] = k

\* One more member of a list, behind those that were picked out of it.
LEMMA PlacesAppend ==
    ASSUME NEW S, NEW list \in Seq(S), NEW ks, NEW m \in Nat, ks \subseteq 1 .. m,
           m + 1 \in 1 .. Len(list), NEW part \in Seq(S), NEW w, Places(w, part, list, ks)
    PROVE  \E v : Places(v, Append(part, list[m + 1]), list, ks \cup {m + 1})
<1> DEFINE L == Len(part)
           more == Append(part, list[m + 1])
           v == [i \in 1 .. L + 1 |-> IF i <= L THEN w[i] ELSE m + 1]
           new == ks \cup {m + 1}
<1>1. L \in Nat /\ list[m + 1] \in S
  OBVIOUS
<1> HIDE DEF L
<1>2. Len(more) = L + 1 /\ more[L + 1] = list[m + 1] /\ \A i \in 1 .. L : more[i] = part[i]
  BY <1>1, AppendProperties DEF L
<1>3. /\ w \in [1 .. L -> ks]
      /\ \A i, j \in 1 .. L : i < j => w[i] < w[j]
      /\ \A i \in 1 .. L : part[i] = list[w[i]]
      /\ \A k \in ks : \E i \in 1 .. L : w[i] = k
  BY DEF Places, L
<1>4. (\A i \in 1 .. L : v[i] = w[i] /\ i \in 1 .. L + 1) /\ v[L + 1] = m + 1
  BY <1>1
<1>5. v \in [1 .. L + 1 -> new]
  BY <1>1, <1>3
<1>6. \A i, j \in 1 .. L + 1 : i < j => v[i] < v[j]
  <2> SUFFICES ASSUME NEW i \in 1 .. L + 1, NEW j \in 1 .. L + 1, i < j PROVE v[i] < v[j]
    OBVIOUS
  <2>0. i \in 1 .. L
    BY <1>1
  <2>1. i \in 1 .. L /\ w[i] \in 1 .. m
    BY <1>3, <2>0
  <2>2. CASE j \in 1 .. L
    <3> HIDE DEF v
    <3> QED BY <1>3, <1>4, <2>1, <2>2
  <2>3. CASE j = L + 1
    <3>1. v[i] = w[i] /\ v[j] = m + 1
      BY <1>4, <2>1, <2>3
    <3> QED BY <2>1, <3>1
  <2> QED BY <1>1, <2>2, <2>3
<1>7. \A i \in 1 .. L + 1 : more[i] = list[v[i]]
  <2> SUFFICES ASSUME NEW i \in 1 .. L + 1 PROVE more[i] = list[v[i]]
    OBVIOUS
  <2>1. i \in 1 .. L \/ i = L + 1
    BY <1>1
  <2> HIDE DEF v, more
  <2> QED BY <1>2, <1>3, <1>4, <2>1
<1>8. \A k \in new : \E i \in 1 .. L + 1 : v[i] = k
  <2> SUFFICES ASSUME NEW k \in new PROVE \E i \in 1 .. L + 1 : v[i] = k
    OBVIOUS
  <2>1. CASE k \in ks
    <3>1. PICK i \in 1 .. L : w[i] = k
      BY <1>3, <2>1
    <3> QED BY <1>4, <3>1
  <2>2. CASE k = m + 1
    BY <1>1, <1>4, <2>2
  <2> QED BY <2>1, <2>2
<1>9. Places(v, more, list, new)
  <2> HIDE DEF v, new, more
  <2> QED BY <1>2, <1>5, <1>6, <1>7, <1>8 DEF Places
<1> QED BY <1>9

\* What is kept of the first n chunks, and what of them is counted.
Fits(c, i) ==
    /\ c[i].type \in Technical /\ c[i].length <= MaxPreserved
    /\ \A j \in 1 .. i : c[j].type # "IDAT"
    /\ \A j \in 1 .. i - 1 : c[j].length <= MaxPreserved => c[j].type # c[i].type
Fit(c, n) == {i \in 1 .. n : Fits(c, i)}
AncillaryTo(c, n) == {i \in 1 .. n : c[i].type \in Lowercase}
Placed(part, c, ks) == \E w : Places(w, part, c, ks)

WalkedTo(st, c, n) ==
    /\ st \in WalkType
    /\ st.lengths = <<>> <=> \A j \in 1 .. n : c[j].type # "IDAT"
    /\ Placed(st.envelope.preserved, c, Fit(c, n))
    /\ Len(st.envelope.preserved) + st.envelope.discarded = Cardinality(AncillaryTo(c, n))

\* Technical chunks are not critical.
LEMMA CriticalIs ==
    /\ \A t \in Technical : t \in Lowercase /\ t # "IDAT" /\ t # "IEND" /\ t # "IHDR"
    /\ Lowercase \cap Critical = {}
    /\ "IDAT" \in Critical /\ "IEND" \in Critical /\ "IHDR" \in Critical
BY EnvelopeAssumption DEF Critical

\* The chunks that count, with one more.
LEMMA OneMoreChunk ==
    ASSUME NEW c, NEW m \in Nat
    PROVE  /\ IsFiniteSet(AncillaryTo(c, m)) /\ Cardinality(AncillaryTo(c, m)) \in Nat
           /\ Cardinality(AncillaryTo(c, m + 1))
                = Cardinality(AncillaryTo(c, m)) + IF c[m + 1].type \in Lowercase THEN 1 ELSE 0
<1> DEFINE before == AncillaryTo(c, m)
           after == AncillaryTo(c, m + 1)
<1>1. before \subseteq 1 .. m /\ IsFiniteSet(1 .. m)
  BY FS_Interval DEF AncillaryTo
<1>2. IsFiniteSet(before) /\ Cardinality(before) \in Nat
  BY <1>1, FS_Subset, FS_CardinalityType
<1>3. m + 1 \notin before
  BY <1>1
<1>4. CASE c[m + 1].type \notin Lowercase
  <2>1. after = before
    BY <1>4 DEF AncillaryTo
  <2> HIDE DEF after, before
  <2> QED BY <1>2, <1>4, <2>1 DEF after, before
<1>5. CASE c[m + 1].type \in Lowercase
  <2>1. after = before \cup {m + 1}
    BY <1>5 DEF AncillaryTo
  <2> HIDE DEF after, before
  <2>2. Cardinality(after) = Cardinality(before) + 1
    BY <1>2, <1>3, <2>1, FS_AddElement
  <2> QED BY <1>2, <1>5, <2>2 DEF after, before
<1> QED BY <1>4, <1>5

\* The next chunk is kept exactly when it fits.
LEMMA KeepsWhatFits ==
    ASSUME NEW c \in Seq(ChunkType), NEW m \in Nat, m + 1 <= Len(c), NEW st, WalkedTo(st, c, m),
           c[m + 1].type # "IDAT"
    PROVE  Keeps(st.envelope.preserved, c[m + 1], st.lengths = <<>>) <=> Fits(c, m + 1)
<1> DEFINE part == st.envelope.preserved
           ch == c[m + 1]
           before == st.lengths = <<>>
<1>1. Len(c) \in Nat /\ \A i \in 1 .. Len(c) : c[i] \in ChunkType
  OBVIOUS
<1>2. part \in Seq(ChunkType) /\ DOMAIN part = 1 .. Len(part) /\ Len(part) \in Nat
  BY DEF WalkedTo, WalkType, EnvelopeType
<1>3. PICK w : Places(w, part, c, Fit(c, m))
  BY DEF WalkedTo, Placed
<1>4. before <=> \A j \in 1 .. m : c[j].type # "IDAT"
  BY DEF WalkedTo
<1>5. before <=> \A j \in 1 .. m + 1 : c[j].type # "IDAT"
  <2>1. \A j \in 1 .. m + 1 : j \in 1 .. m \/ j = m + 1
    OBVIOUS
  <2>2. 1 .. m \subseteq 1 .. m + 1
    OBVIOUS
  <2> QED BY <1>4, <2>1, <2>2
<1> HIDE DEF before, part
<1>6. ASSUME Fits(c, m + 1)
      PROVE  Keeps(part, ch, before)
  <2>1. ASSUME NEW i \in DOMAIN part
        PROVE  part[i].type # ch.type
    <3>1. part[i] = c[w[i]] /\ w[i] \in Fit(c, m)
      BY <1>2, <1>3 DEF Places
    <3>2. w[i] \in 1 .. m /\ c[w[i]].length <= MaxPreserved
      BY <3>1 DEF Fit, Fits
    <3>3. w[i] \in 1 .. (m + 1) - 1
      BY <3>2
    <3> QED BY <1>6, <3>1, <3>2, <3>3 DEF Fits
  <2> QED BY <1>5, <1>6, <2>1 DEF Keeps, Fits
<1>7. ASSUME Keeps(part, ch, before)
      PROVE  Fits(c, m + 1)
  <2> DEFINE T == {j \in 1 .. m : c[j].length <= MaxPreserved /\ c[j].type = ch.type}
  <2>1. T = {}
    <3> SUFFICES ASSUME T # {} PROVE FALSE
      OBVIOUS
    <3>1. T \subseteq Nat
      OBVIOUS
    <3> HIDE DEF T
    <3>2. PICK j \in T : \A k \in T : j <= k
      BY <3>1, NatMin
    <3>3. j \in 1 .. m /\ c[j].length <= MaxPreserved /\ c[j].type = ch.type
      BY <3>2 DEF T
    <3>4. c[j].type \in Technical
      BY <1>7, <3>3 DEF Keeps
    <3>5. \A k \in 1 .. j : c[k].type # "IDAT"
      <4>1. \A k \in 1 .. j : k \in 1 .. m
        BY <3>3
      <4> QED BY <1>4, <1>7, <4>1 DEF Keeps
    <3>6. ASSUME NEW k \in 1 .. j - 1, c[k].length <= MaxPreserved
          PROVE  c[k].type # c[j].type
      <4>1. k \in 1 .. m /\ ~(j <= k)
        BY <3>3
      <4>2. k \notin T
        BY <3>2, <4>1
      <4> QED BY <3>3, <3>6, <4>1, <4>2 DEF T
    <3>7. j \in Fit(c, m)
      BY <3>3, <3>4, <3>5, <3>6 DEF Fit, Fits
    <3>8. PICK i \in 1 .. Len(part) : w[i] = j
      BY <1>3, <3>7 DEF Places
    <3>9. part[i] = c[j]
      BY <1>3, <3>8 DEF Places
    <3> QED BY <1>2, <1>7, <3>3, <3>8, <3>9 DEF Keeps
  <2>2. \A j \in 1 .. (m + 1) - 1 : c[j].length <= MaxPreserved => c[j].type # ch.type
    BY <2>1
  <2> HIDE DEF T
  <2> QED BY <1>5, <1>7, <2>2 DEF Keeps, Fits
<1> QED BY <1>6, <1>7 DEF part, before

\* Filing the next chunk keeps what holds of a walk.
LEMMA WalkGoesOn ==
    ASSUME NEW c \in Seq(ChunkType), NEW m \in Nat, m + 1 <= Len(c), NEW st, WalkedTo(st, c, m)
    PROVE  WalkedTo(Filed(st, c[m + 1]), c, m + 1)
<1> DEFINE ch == c[m + 1]
           after == Filed(st, ch)
           part == st.envelope.preserved
           before == st.lengths = <<>>
<1>0. m + 1 \in 1 .. Len(c) /\ \A i \in 1 .. Len(c) : c[i] \in ChunkType
  OBVIOUS
<1>1. st \in WalkType /\ ch \in ChunkType
  BY <1>0 DEF WalkedTo
<1>2. part \in Seq(ChunkType) /\ Len(part) \in Nat /\ st.envelope.discarded \in Nat /\ st.lengths \in Seq(Nat)
  BY <1>1 DEF WalkType, EnvelopeType
<1>3. /\ after \in WalkType
      /\ ch.type = "IDAT" => after.envelope = st.envelope /\ after.lengths = Append(st.lengths, ch.length)
      /\ ch.type # "IDAT" => after.lengths = st.lengths
      /\ ch.type # "IDAT" /\ Keeps(part, ch, before) =>
           after.envelope.preserved = Append(part, ch) /\ after.envelope.discarded = st.envelope.discarded
      /\ ch.type # "IDAT" /\ ~Keeps(part, ch, before) =>
           /\ after.envelope.preserved = part
           /\ after.envelope.discarded = st.envelope.discarded + IF ch.type \in Lowercase THEN 1 ELSE 0
  BY <1>1, FiledIs
<1>4. /\ Cardinality(AncillaryTo(c, m)) \in Nat
      /\ Cardinality(AncillaryTo(c, m + 1)) = Cardinality(AncillaryTo(c, m)) + IF ch.type \in Lowercase THEN 1 ELSE 0
  BY OneMoreChunk
<1>5. /\ before <=> \A j \in 1 .. m : c[j].type # "IDAT"
      /\ Placed(part, c, Fit(c, m))
      /\ Len(part) + st.envelope.discarded = Cardinality(AncillaryTo(c, m))
  BY DEF WalkedTo
<1>6. Fit(c, m + 1) = IF Fits(c, m + 1) THEN Fit(c, m) \cup {m + 1} ELSE Fit(c, m)
  BY DEF Fit
<1>7. \A j : j \in 1 .. m + 1 <=> (j \in 1 .. m \/ j = m + 1)
  OBVIOUS
<1> HIDE DEF ch, after, part, before
<1>8. CASE ch.type = "IDAT"
  <2>1. ch.type \notin Lowercase /\ ~Fits(c, m + 1)
    BY <1>8, CriticalIs DEF Fits, ch
  <2>2. after.envelope = st.envelope /\ after.lengths # <<>>
    BY <1>2, <1>3, <1>8, <1>1 DEF ChunkType
  <2>3. ~\A j \in 1 .. m + 1 : c[j].type # "IDAT"
    BY <1>7, <1>8 DEF ch
  <2> QED BY <1>3, <1>4, <1>5, <1>6, <2>1, <2>2, <2>3 DEF WalkedTo, after, part, ch
<1>9. CASE ch.type # "IDAT"
  <2>1. after.lengths = <<>> <=> \A j \in 1 .. m + 1 : c[j].type # "IDAT"
    BY <1>3, <1>5, <1>7, <1>9 DEF ch, before
  <2>2. Keeps(part, ch, before) <=> Fits(c, m + 1)
    BY <1>9, KeepsWhatFits DEF part, ch, before
  <2>3. CASE Fits(c, m + 1)
    <3>1. after.envelope.preserved = Append(part, ch) /\ after.envelope.discarded = st.envelope.discarded
      BY <1>3, <1>9, <2>2, <2>3
    <3>2. ch.type \in Lowercase
      BY <2>3, CriticalIs DEF Fits, ch
    <3>3. PICK w : Places(w, part, c, Fit(c, m))
      BY <1>5 DEF Placed
    <3>4. Placed(Append(part, ch), c, Fit(c, m) \cup {m + 1})
      <4>1. Fit(c, m) \subseteq 1 .. m
        BY DEF Fit
      <4> DEFINE ks == Fit(c, m)
      <4> HIDE DEF ks
      <4>2. ks \subseteq 1 .. m /\ Places(w, part, c, ks)
        BY <3>3, <4>1 DEF ks
      <4>3. \E v : Places(v, Append(part, c[m + 1]), c, ks \cup {m + 1})
        BY <1>0, <1>2, <4>2, PlacesAppend
      <4> QED BY <4>3 DEF Placed, ks, ch
    <3>5. Len(Append(part, ch)) = Len(part) + 1
      BY <1>1, <1>2
    <3>6. Len(Append(part, ch)) + st.envelope.discarded = Cardinality(AncillaryTo(c, m + 1))
      <4>1. Cardinality(AncillaryTo(c, m + 1)) = Cardinality(AncillaryTo(c, m)) + 1
        BY <1>4, <3>2
      <4>2. /\ Len(part) \in Nat /\ st.envelope.discarded \in Nat
            /\ Len(part) + st.envelope.discarded = Cardinality(AncillaryTo(c, m))
        BY <1>2, <1>5
      <4> QED BY <3>5, <4>1, <4>2
    <3> QED BY <1>3, <1>6, <2>1, <2>3, <3>1, <3>4, <3>6 DEF WalkedTo, after, ch
  <2>4. CASE ~Fits(c, m + 1)
    <3>1. /\ after.envelope.preserved = part
          /\ after.envelope.discarded = st.envelope.discarded + IF ch.type \in Lowercase THEN 1 ELSE 0
      BY <1>3, <1>9, <2>2, <2>4
    <3>2. Len(part) + after.envelope.discarded = Cardinality(AncillaryTo(c, m + 1))
      BY <1>2, <1>4, <1>5, <3>1
    <3> QED BY <1>3, <1>5, <1>6, <2>1, <2>4, <3>1, <3>2 DEF WalkedTo, after, ch
  <2> QED BY <2>3, <2>4
<1> QED BY <1>8, <1>9

\* What a walk over a whole file has kept and counted.
LEMMA WalkIs ==
    ASSUME NEW c \in Seq(ChunkType), NEW f, WalksOver(f, c, Len(c))
    PROVE  WalkedTo(f[Len(c)], c, Len(c))
<1> DEFINE L == Len(c)
           T == {n \in Nat : n <= L => WalkedTo(f[n], c, n)}
<1>0. L \in Nat
  OBVIOUS
<1>1. 0 \in T
  <2>1. f[0] = Begin
    BY <1>0 DEF WalksOver
  <2>2. Fit(c, 0) = {} /\ AncillaryTo(c, 0) = {} /\ 1 .. 0 = {}
    BY DEF Fit, AncillaryTo
  <2>3. Placed(<<>>, c, {})
    <3> DEFINE v == [i \in 1 .. 0 |-> 0]
               part == <<>>
               none == {}
    <3>1. v \in [1 .. 0 -> none] /\ 1 .. 0 = {} /\ Len(part) = 0
      OBVIOUS
    <3> HIDE DEF v, none, part
    <3>2. Places(v, part, c, none)
      BY <3>1 DEF Places, none
    <3> QED BY <3>2 DEF Placed, none, part
  <2>4. Cardinality({}) = 0
    BY FS_EmptySet
  <2>5. Len(Begin.envelope.preserved) + Begin.envelope.discarded = 0
    BY BeginIs
  <2>6. WalkedTo(Begin, c, 0)
    BY <2>2, <2>3, <2>4, <2>5, BeginIs DEF WalkedTo
  <2> QED BY <2>1, <2>6
<1>2. ASSUME NEW m \in Nat, m \in T PROVE m + 1 \in T
  <2> SUFFICES ASSUME m + 1 <= L PROVE WalkedTo(f[m + 1], c, m + 1)
    OBVIOUS
  <2>1. WalkedTo(f[m], c, m)
    BY <1>0, <1>2
  <2>2. f[m + 1] = Filed(f[m], c[m + 1])
    BY <1>0, WalkSteps
  <2>3. WalkedTo(Filed(f[m], c[m + 1]), c, m + 1)
    BY <2>1, WalkGoesOn
  <2> QED BY <2>2, <2>3
<1>3. Nat \subseteq T
  <2> HIDE DEF T
  <2> QED BY <1>1, <1>2, NatInd
<1> QED BY <1>0, <1>3

\* The lengths that were noted are those of the pieces, in their order.
Sizes(c) == [i \in 1 .. Len(c) |-> c[i].length]
PiecesTo(c, n) == {i \in 1 .. n : c[i].type = "IDAT"}
NotedTo(st, c, n) == st \in WalkType /\ Placed(st.lengths, Sizes(c), PiecesTo(c, n))

\* Filing the next chunk notes its length, if it is a piece.
LEMMA NotingGoesOn ==
    ASSUME NEW c \in Seq(ChunkType), NEW m \in Nat, m + 1 <= Len(c), NEW st, NotedTo(st, c, m)
    PROVE  NotedTo(Filed(st, c[m + 1]), c, m + 1)
<1> DEFINE ch == c[m + 1]
           after == Filed(st, ch)
           list == Sizes(c)
           ks == PiecesTo(c, m)
<1>0. m + 1 \in 1 .. Len(c) /\ Len(c) \in Nat /\ \A i \in 1 .. Len(c) : c[i] \in ChunkType
  OBVIOUS
<1>1. st \in WalkType /\ ch \in ChunkType /\ Placed(st.lengths, list, ks)
  BY <1>0 DEF NotedTo
<1>2. st.lengths \in Seq(Nat)
  BY <1>1 DEF WalkType
<1>3. /\ after \in WalkType
      /\ ch.type = "IDAT" => after.lengths = Append(st.lengths, ch.length)
      /\ ch.type # "IDAT" => after.lengths = st.lengths
  BY <1>1, FiledIs
<1>4. \A i \in 1 .. Len(c) : list[i] = c[i].length /\ c[i].length \in Nat
  BY <1>0 DEF Sizes, ChunkType
<1>5. list \in Seq(Nat) /\ Len(list) = Len(c)
  <2>1. list \in [1 .. Len(c) -> Nat]
    BY <1>4 DEF Sizes
  <2> HIDE DEF list
  <2> QED BY <1>0, <2>1, LenProperties
<1>6. ks \subseteq 1 .. m
  BY DEF PiecesTo
<1>7. PiecesTo(c, m + 1) = IF ch.type = "IDAT" THEN ks \cup {m + 1} ELSE ks
  BY DEF PiecesTo
<1>8. list[m + 1] = ch.length
  BY <1>0, <1>4
<1> HIDE DEF after, list, ks, ch
<1>9. CASE ch.type = "IDAT"
  <2>1. PICK w : Places(w, st.lengths, list, ks)
    BY <1>1 DEF Placed
  <2>2. \E v : Places(v, Append(st.lengths, list[m + 1]), list, ks \cup {m + 1})
    BY <1>0, <1>2, <1>5, <1>6, <2>1, PlacesAppend
  <2>3. Placed(after.lengths, list, PiecesTo(c, m + 1))
    BY <1>3, <1>7, <1>8, <1>9, <2>2 DEF Placed
  <2> QED BY <1>3, <2>3 DEF NotedTo, after, list, ch
<1>10. CASE ch.type # "IDAT"
  BY <1>1, <1>3, <1>7, <1>10 DEF NotedTo, after, list, ch
<1> QED BY <1>9, <1>10

\* What a walk over a whole file has noted.
LEMMA NotedIs ==
    ASSUME NEW c \in Seq(ChunkType), NEW f, WalksOver(f, c, Len(c))
    PROVE  NotedTo(f[Len(c)], c, Len(c))
<1> DEFINE L == Len(c)
           T == {n \in Nat : n <= L => NotedTo(f[n], c, n)}
<1>0. L \in Nat
  OBVIOUS
<1>1. 0 \in T
  <2>1. f[0] = Begin
    BY <1>0 DEF WalksOver
  <2>2. PiecesTo(c, 0) = {}
    BY DEF PiecesTo
  <2>3. Placed(<<>>, Sizes(c), {})
    <3> DEFINE v == [i \in 1 .. 0 |-> 0]
               part == <<>>
               none == {}
    <3>1. v \in [1 .. 0 -> none] /\ 1 .. 0 = {} /\ Len(part) = 0
      OBVIOUS
    <3> HIDE DEF v, none, part
    <3>2. Places(v, part, Sizes(c), none)
      BY <3>1 DEF Places, none
    <3> QED BY <3>2 DEF Placed, none, part
  <2>4. NotedTo(Begin, c, 0)
    BY <2>2, <2>3, BeginIs DEF NotedTo
  <2> QED BY <2>1, <2>4
<1>2. ASSUME NEW m \in Nat, m \in T PROVE m + 1 \in T
  <2> SUFFICES ASSUME m + 1 <= L PROVE NotedTo(f[m + 1], c, m + 1)
    OBVIOUS
  <2>1. NotedTo(f[m], c, m)
    BY <1>0, <1>2
  <2>2. f[m + 1] = Filed(f[m], c[m + 1])
    BY <1>0, WalkSteps
  <2>3. NotedTo(Filed(f[m], c[m + 1]), c, m + 1)
    BY <2>1, NotingGoesOn
  <2> QED BY <2>2, <2>3
<1>3. Nat \subseteq T
  <2> HIDE DEF T
  <2> QED BY <1>1, <1>2, NatInd
<1> QED BY <1>0, <1>3

(***************************************************************************)
(* The size of the pieces.                                                 *)
(***************************************************************************)
AtLeast(lengths, l, m) ==
    \/ Occurrences(lengths, m) < Occurrences(lengths, l)
    \/ Occurrences(lengths, m) = Occurrences(lengths, l) /\ m <= l

\* How often a length occurs.
LEMMA OccurrencesAre ==
    ASSUME NEW lengths \in Seq(Nat), NEW l
    PROVE  Occurrences(lengths, l) \in Nat
<1>1. Len(lengths) \in Nat /\ DOMAIN lengths = 1 .. Len(lengths)
  OBVIOUS
<1>2. IsFiniteSet(1 .. Len(lengths))
  BY <1>1, FS_Interval
<1>3. IsFiniteSet({i \in DOMAIN lengths : lengths[i] = l})
  BY <1>1, <1>2, FS_Subset
<1> QED BY <1>3, FS_CardinalityType DEF Occurrences

\* The dominant length occurs, as often as any other, and is the larger of two that
\* occur alike.
LEMMA DominantIs ==
    ASSUME NEW lengths \in Seq(Nat), lengths # <<>>
    PROVE  /\ dominant_length(lengths) \in Nat
           /\ \E i \in 1 .. Len(lengths) : lengths[i] = dominant_length(lengths)
           /\ \A i \in 1 .. Len(lengths) : AtLeast(lengths, dominant_length(lengths), lengths[i])
<1> DEFINE L == Len(lengths)
           Best(n) == \E i \in 1 .. n : \A j \in 1 .. n : AtLeast(lengths, lengths[i], lengths[j])
           T == {n \in Nat : n >= 1 /\ n <= L => Best(n)}
<1>1. L \in Nat /\ L >= 1 /\ DOMAIN lengths = 1 .. L /\ \A i \in 1 .. L : lengths[i] \in Nat
  BY EmptySeq
<1>2. \A l : Occurrences(lengths, l) \in Nat
  BY OccurrencesAre
<1>3. ASSUME NEW i \in 1 .. L PROVE AtLeast(lengths, lengths[i], lengths[i])
  BY <1>1, <1>3 DEF AtLeast
<1>4. ASSUME NEW i \in 1 .. L, NEW j \in 1 .. L, NEW k \in 1 .. L,
             AtLeast(lengths, lengths[i], lengths[j]), AtLeast(lengths, lengths[j], lengths[k])
      PROVE  AtLeast(lengths, lengths[i], lengths[k])
  BY <1>1, <1>2, <1>4 DEF AtLeast
<1>5. ASSUME NEW i \in 1 .. L, NEW j \in 1 .. L
      PROVE  AtLeast(lengths, lengths[i], lengths[j]) \/ AtLeast(lengths, lengths[j], lengths[i])
  BY <1>1, <1>2, <1>5 DEF AtLeast
<1> HIDE DEF L
<1>6. ASSUME NEW n \in Nat, n \in T PROVE n + 1 \in T
  <2> SUFFICES ASSUME n + 1 <= L PROVE Best(n + 1)
    OBVIOUS
  <2>0. n + 1 \in 1 .. L /\ \A j \in 1 .. n + 1 : j \in 1 .. L /\ (j \in 1 .. n \/ j = n + 1)
    BY <1>1
  <2>1. CASE n = 0
    BY <1>3, <2>0, <2>1
  <2>2. CASE n # 0
    <3>1. PICK i \in 1 .. n : \A j \in 1 .. n : AtLeast(lengths, lengths[i], lengths[j])
      BY <1>1, <1>6, <2>2
    <3>2. i \in 1 .. n + 1 /\ i \in 1 .. L
      BY <2>0
    <3>3. CASE AtLeast(lengths, lengths[i], lengths[n + 1])
      <4>1. \A j \in 1 .. n + 1 : AtLeast(lengths, lengths[i], lengths[j])
        BY <2>0, <3>1, <3>3
      <4> QED BY <3>2, <4>1
    <3>4. CASE AtLeast(lengths, lengths[n + 1], lengths[i])
      <4>1. \A j \in 1 .. n + 1 : AtLeast(lengths, lengths[n + 1], lengths[j])
        BY <1>3, <1>4, <2>0, <3>1, <3>2, <3>4
      <4>2. n + 1 \in 1 .. n + 1
        OBVIOUS
      <4> QED BY <4>1, <4>2
    <3> QED BY <1>5, <2>0, <3>2, <3>3, <3>4
  <2> QED BY <2>1, <2>2
<1>7. 0 \in T
  OBVIOUS
<1>8. L \in T
  <2>1. Nat \subseteq T
    <3> HIDE DEF T
    <3> QED BY <1>6, <1>7, NatInd
  <2> QED BY <1>1, <2>1
<1>9. PICK i \in 1 .. L : \A j \in 1 .. L : AtLeast(lengths, lengths[i], lengths[j])
  BY <1>1, <1>8
<1> DEFINE d == dominant_length(lengths)
<1>10. d \in ToSet(lengths) /\ \A m \in ToSet(lengths) : AtLeast(lengths, d, m)
  <2> DEFINE S == ToSet(lengths)
  <2>1. lengths[i] \in S /\ \A m \in S : AtLeast(lengths, lengths[i], m)
    BY <1>1, <1>9 DEF ToSet
  <2>2. d = CHOOSE l \in S : \A m \in S : AtLeast(lengths, l, m)
    BY DEF dominant_length, AtLeast
  <2> HIDE DEF S, d
  <2>3. d \in S /\ \A m \in S : AtLeast(lengths, d, m)
    BY <2>1, <2>2
  <2> QED BY <2>3 DEF S
<1>11. \A j \in 1 .. L : lengths[j] \in ToSet(lengths)
  BY <1>1 DEF ToSet
<1>12. PICK j \in 1 .. L : lengths[j] = d
  BY <1>1, <1>10 DEF ToSet
<1> HIDE DEF d
<1> QED BY <1>1, <1>10, <1>11, <1>12 DEF L, d

\* The size of the pieces is in its range, for whatever lengths.
LEMMA SizeIs ==
    ASSUME NEW lengths \in Seq(Nat)
    PROVE  SizeOf(lengths) \in MinIdat .. MaxIdat
<1>1. MinIdat \in Nat /\ MaxIdat \in Nat /\ DefaultIdat \in MinIdat .. MaxIdat
  BY EnvelopeAssumption
<1>2. CASE lengths = <<>>
  BY <1>1, <1>2 DEF SizeOf
<1>3. CASE lengths # <<>>
  <2>1. dominant_length(lengths) \in Nat
    BY <1>3, DominantIs
  <2> QED BY <1>1, <1>3, <2>1 DEF SizeOf
<1> QED BY <1>2, <1>3

(***************************************************************************)
(* What is read of a file.                                                 *)
(***************************************************************************)
ReadFrom(e, c) ==
    /\ e.preserved \in Seq(ChunkType) /\ e.discarded \in Nat
    /\ e.size \in MinIdat .. MaxIdat
    /\ Placed(e.preserved, c, Fit(c, Len(c)))
    /\ Len(e.preserved) + e.discarded = Cardinality(AncillaryTo(c, Len(c)))

\* What is read of a file.
LEMMA ReadOf ==
    ASSUME NEW file \in Seq(ChunkType)
    PROVE  ReadFrom(read(file), Visible(file))
<1> DEFINE c == Visible(file)
           L == Len(c)
<1>1. c \in Seq(ChunkType) /\ L \in Nat
  BY VisibleIs
<1> HIDE DEF c
<1>2. PICK f : /\ WalksOver(f, c, L)
               /\ read(file) = [f[L].envelope EXCEPT !.size = SizeOf(f[L].lengths), !.count = Len(f[L].lengths)]
  BY <1>1, ReadIs DEF c
<1> DEFINE st == f[L]
<1>3. WalkedTo(st, c, L)
  BY <1>1, <1>2, WalkIs
<1> HIDE DEF st
<1>4. st \in WalkType /\ Placed(st.envelope.preserved, c, Fit(c, L))
      /\ Len(st.envelope.preserved) + st.envelope.discarded = Cardinality(AncillaryTo(c, L))
  BY <1>3 DEF WalkedTo
<1>5. SizeOf(st.lengths) \in MinIdat .. MaxIdat
  BY <1>4, SizeIs DEF WalkType
<1>6. /\ read(file).preserved = st.envelope.preserved /\ read(file).discarded = st.envelope.discarded
      /\ read(file).size = SizeOf(st.lengths)
  BY <1>2, <1>4 DEF st, WalkType, EnvelopeType
<1>7. st.envelope.preserved \in Seq(ChunkType) /\ st.envelope.discarded \in Nat
  BY <1>4 DEF WalkType, EnvelopeType
<1> QED BY <1>4, <1>5, <1>6, <1>7 DEF ReadFrom, c

\* An envelope that can be written and read again.
Neat(e) ==
    /\ e.preserved \in Seq(ChunkType) /\ e.size \in MinIdat .. MaxIdat
    /\ \A i \in 1 .. Len(e.preserved) :
         /\ e.preserved[i].type \in Technical /\ e.preserved[i].length <= MaxPreserved
         /\ e.preserved[i].whole
    /\ \A i, j \in 1 .. Len(e.preserved) : i # j => e.preserved[i].type # e.preserved[j].type

\* What is read can be written and read again.
LEMMA WhatIsReadIsNeat ==
    ASSUME NEW file \in Seq(ChunkType)
    PROVE  Neat(read(file))
<1> DEFINE e == read(file)
           c == Visible(file)
           part == e.preserved
<1>1. ReadFrom(e, c)
  BY ReadOf
<1>2. c \in Seq(ChunkType) /\ \A i \in DOMAIN c : c[i].type # "IEND" /\ c[i].whole
  BY VisibleIs
<1> HIDE DEF e, c
<1>3. part \in Seq(ChunkType) /\ e.size \in MinIdat .. MaxIdat /\ Placed(part, c, Fit(c, Len(c)))
  BY <1>1 DEF ReadFrom
<1> HIDE DEF part
<1>4. PICK w : Places(w, part, c, Fit(c, Len(c)))
  BY <1>3 DEF Placed
<1>5. Len(c) \in Nat /\ DOMAIN c = 1 .. Len(c) /\ Len(part) \in Nat
  BY <1>2, <1>3
<1>6. ASSUME NEW i \in 1 .. Len(part)
      PROVE  part[i] = c[w[i]] /\ w[i] \in 1 .. Len(c) /\ Fits(c, w[i])
  BY <1>4, <1>6 DEF Places, Fit
<1>7. ASSUME NEW i \in 1 .. Len(part)
      PROVE  part[i].type \in Technical /\ part[i].length <= MaxPreserved /\ part[i].whole
  BY <1>2, <1>5, <1>6, <1>7 DEF Fits
<1>8. ASSUME NEW i \in 1 .. Len(part), NEW j \in 1 .. Len(part), i < j
      PROVE  part[i].type # part[j].type
  <2>1. w[i] < w[j]
    BY <1>4, <1>8 DEF Places
  <2>2. Fits(c, w[i]) /\ Fits(c, w[j]) /\ w[i] \in 1 .. Len(c) /\ w[j] \in 1 .. Len(c)
    BY <1>6
  <2>3. w[i] \in 1 .. w[j] - 1
    BY <1>5, <2>1, <2>2
  <2>4. c[w[i]].type # c[w[j]].type
    BY <2>2, <2>3 DEF Fits
  <2> QED BY <1>6, <2>4
<1>9. ASSUME NEW i \in 1 .. Len(part), NEW j \in 1 .. Len(part), i # j
      PROVE  part[i].type # part[j].type
  <2>1. i < j \/ j < i
    BY <1>5, <1>9
  <2> QED BY <1>8, <2>1
<1> QED BY <1>3, <1>7, <1>9 DEF Neat, part, e

\* So can what is made up.
LEMMA TheSyntheticIsNeat == Neat(synthesised)
<1> DEFINE part == [i \in DOMAIN Synthetic |-> Chunk(Synthetic[i], 1)]
<1>1. synthesised.preserved = part /\ synthesised.size = DefaultIdat
  BY DEF synthesised, NewEnvelope
<1>2. /\ Synthetic \in Seq(Technical) /\ Technical \subseteq STRING
      /\ \A i, j \in DOMAIN Synthetic : i # j => Synthetic[i] # Synthetic[j]
      /\ 1 <= MaxPreserved /\ DefaultIdat \in MinIdat .. MaxIdat
  <2>1. MaxPreserved \in Nat /\ MaxPreserved # 0
    BY EnvelopeAssumption
  <2>2. 1 <= MaxPreserved
    BY <2>1
  <2> QED BY <2>2, EnvelopeAssumption
<1>3. Len(Synthetic) \in Nat /\ DOMAIN Synthetic = 1 .. Len(Synthetic)
      /\ \A i \in 1 .. Len(Synthetic) : Synthetic[i] \in Technical
  BY <1>2
<1>4. \A i \in 1 .. Len(Synthetic) : /\ part[i].type = Synthetic[i] /\ part[i].length = 1
                                     /\ part[i].whole /\ part[i] \in ChunkType
  BY <1>2, <1>3 DEF Chunk, ChunkType
<1>5. part \in Seq(ChunkType) /\ Len(part) = Len(Synthetic)
  <2>1. part = [i \in 1 .. Len(Synthetic) |-> part[i]]
    BY <1>3
  <2> HIDE DEF part
  <2>2. part \in [1 .. Len(Synthetic) -> ChunkType]
    BY <1>4, <2>1
  <2>3. part \in Seq(ChunkType)
    BY <1>3, <2>2
  <2> QED BY <1>3, <2>2, <2>3, LenProperties
<1> HIDE DEF part
<1>6. Neat(synthesised)
  BY <1>1, <1>2, <1>3, <1>4, <1>5 DEF Neat
<1> QED BY <1>6

(***************************************************************************)
(* What is written, chunk by chunk.                                        *)
(***************************************************************************)
Cuts(P, cut) ==
    /\ P \in Seq(ChunkType) /\ Len(P) >= 1
    /\ \A i \in 1 .. Len(P) : P[i].type = "IDAT" /\ P[i].whole /\ P[i].length <= cut
    /\ \A i \in 1 .. Len(P) - 1 : P[i].length = cut

\* A product grows with its factor.
LEMMA TimesMonotone ==
    ASSUME NEW a \in Nat, NEW b \in Nat, a <= b, NEW n \in Nat
    PROVE  a * n <= b * n
OBVIOUS

\* How many pieces a stream is cut into.
LEMMA HowMany ==
    ASSUME NEW stream \in Nat \ {0}, NEW cut \in Nat \ {0},
           NEW n, n = (stream + cut - 1) \div cut
    PROVE  n \in Nat /\ n >= 1 /\ (n - 1) * cut < stream
<1> DEFINE a == stream + cut - 1
<1>1. a \in Nat /\ cut \in Nat /\ cut >= 1 /\ a >= cut /\ n = a \div cut
  OBVIOUS
<1>2. stream = (a - cut) + 1
  OBVIOUS
<1> HIDE DEF a
<1>3. n \in Nat /\ n >= 1 /\ n * cut <= a
  BY <1>1, SMT
<1>4. (n - 1) * cut = n * cut - cut
  BY <1>1, <1>3
<1> QED BY <1>1, <1>2, <1>3, <1>4

\* The parts of a chunk.
LEMMA ChunkIs ==
    ASSUME NEW t \in STRING, NEW l \in Nat
    PROVE  /\ Chunk(t, l) \in ChunkType
           /\ Chunk(t, l).type = t /\ Chunk(t, l).length = l /\ Chunk(t, l).whole
<1>1. Chunk(t, l) = [type |-> t, length |-> l, whole |-> TRUE]
  BY DEF Chunk
<1>2. Chunk(t, l) \in ChunkType
  BY <1>1 DEF ChunkType
<1>3. Chunk(t, l).type = t /\ Chunk(t, l).length = l /\ Chunk(t, l).whole = TRUE
  BY <1>1
<1> QED BY <1>2, <1>3

\* The types the writer gives are strings.
LEMMA Named == "IHDR" \in STRING /\ "IEND" \in STRING /\ "IDAT" \in STRING
BY EnvelopeAssumption DEF Critical

\* All pieces but the last are of the size of the cut, and none is larger.
LEMMA PiecesAre ==
    ASSUME NEW stream \in Nat \ {0}, NEW cut \in Nat \ {0}
    PROVE  Cuts(Pieces(stream, cut), cut)
<1> DEFINE P == Pieces(stream, cut)
           n == (stream + cut - 1) \div cut
<1>1. n \in Nat /\ n >= 1 /\ (n - 1) * cut < stream
  BY HowMany
<1> HIDE DEF n
<1>2. P = [i \in 1 .. n |-> Chunk("IDAT", IF i * cut <= stream THEN cut ELSE stream % cut)]
  BY DEF Pieces, n
<1>3. stream % cut \in Nat /\ stream % cut <= cut
  BY SMT
<1>4. ASSUME NEW i \in 1 .. n
      PROVE  P[i] \in ChunkType /\ P[i].type = "IDAT" /\ P[i].whole /\ P[i].length <= cut
  <2> DEFINE l == IF i * cut <= stream THEN cut ELSE stream % cut
  <2>1. l \in Nat /\ l <= cut
    BY <1>3
  <2>2. P[i] = Chunk("IDAT", l)
    BY <1>2
  <2> HIDE DEF l, P
  <2> QED BY <2>1, <2>2, ChunkIs, Named
<1>5. ASSUME NEW i \in 1 .. n - 1
      PROVE  P[i].length = cut
  <2>1. i \in 1 .. n
    BY <1>1
  <2>2. i * cut <= (n - 1) * cut
    <3>1. i \in Nat /\ n - 1 \in Nat /\ i <= n - 1 /\ cut \in Nat
      BY <1>1
    <3> HIDE DEF P
    <3> QED BY <3>1, TimesMonotone
  <2>3. i * cut <= stream
    <3>1. i * cut \in Int /\ (n - 1) * cut \in Int
      BY <1>1
    <3> QED BY <1>1, <2>2, <3>1
  <2> QED BY <1>2, <2>1, <2>3 DEF Chunk
<1> HIDE DEF P
<1>6. P \in Seq(ChunkType) /\ Len(P) = n
  <2>1. P \in [1 .. n -> ChunkType]
    <3>1. P = [i \in 1 .. n |-> P[i]]
      BY <1>2
    <3> QED BY <1>4, <3>1
  <2> QED BY <1>1, <2>1
<1>7. Cuts(P, cut)
  BY <1>1, <1>4, <1>5, <1>6 DEF Cuts
<1> QED BY <1>7 DEF P

\* c is the chunk of the dimensions, then pres, then P.
Layout(c, pres, P) ==
    /\ c \in Seq(ChunkType) /\ Len(c) = Len(pres) + Len(P) + 1
    /\ c[1].type = "IHDR" /\ c[1].whole
    /\ \A i \in 1 .. Len(pres) : c[i + 1] = pres[i]
    /\ \A i \in 1 .. Len(P) : c[Len(pres) + 1 + i] = P[i]

\* u is s and then t.
JoinOf(u, s, t, S) ==
    /\ u \in Seq(S) /\ Len(u) = Len(s) + Len(t)
    /\ \A i \in 1 .. Len(s) : u[i] = s[i]
    /\ \A i \in 1 .. Len(t) : u[Len(s) + i] = t[i]

\* The concatenation is.
LEMMA Joined ==
    ASSUME NEW S, NEW s \in Seq(S), NEW t \in Seq(S)
    PROVE  JoinOf(s \o t, s, t, S)
BY DEF JoinOf

\* What is written: the dimensions, what travels, the pieces, the end.
LEMMA WrittenIs ==
    ASSUME NEW e, Neat(e), NEW stream \in Streams, NEW out_, out_ = Written(e, stream)
    PROVE  \E P, c : /\ Cuts(P, e.size) /\ Layout(c, e.preserved, P)
                     /\ out_ \in Seq(ChunkType) /\ Len(out_) = Len(c) + 1
                     /\ \A i \in 1 .. Len(c) : out_[i] = c[i]
                     /\ out_[Len(c) + 1] = Chunk("IEND", 0)
<1> DEFINE P == Pieces(stream, e.size)
           pres == e.preserved
           head == <<Chunk("IHDR", 13)>>
           last == <<Chunk("IEND", 0)>>
           most == head \o pres
           c == most \o P
<1>1. /\ stream \in Nat \ {0} /\ e.size \in Nat \ {0}
      /\ pres \in Seq(ChunkType)
  <2>1. Streams \subseteq Nat \ {0}
    BY FileAssumption
  <2>2. MinIdat \in Nat \ {0} /\ MaxIdat \in Nat /\ e.size \in MinIdat .. MaxIdat
    BY EnvelopeAssumption DEF Neat
  <2>3. pres \in Seq(ChunkType)
    BY DEF Neat
  <2> QED BY <2>1, <2>2, <2>3
<1>2. Cuts(P, e.size)
  BY <1>1, PiecesAre
<1>3. out_ = c \o last
  BY DEF Written
<1> HIDE DEF P, pres
<1>4. /\ head \in Seq(ChunkType) /\ Len(head) = 1 /\ head[1].type = "IHDR" /\ head[1].whole
      /\ last \in Seq(ChunkType) /\ Len(last) = 1 /\ last[1] = Chunk("IEND", 0)
  <2>1. Chunk("IHDR", 13) \in ChunkType /\ Chunk("IHDR", 13).type = "IHDR" /\ Chunk("IHDR", 13).whole
    BY ChunkIs, Named
  <2>2. Chunk("IEND", 0) \in ChunkType
    BY ChunkIs, Named
  <2> QED BY <2>1, <2>2
<1>5. P \in Seq(ChunkType) /\ Len(P) \in Nat /\ Len(pres) \in Nat
  <2>1. P \in Seq(ChunkType)
    BY <1>2 DEF Cuts
  <2> QED BY <1>1, <2>1
<1> HIDE DEF head, last
<1>6. /\ most \in Seq(ChunkType) /\ Len(most) = 1 + Len(pres)
      /\ \A i \in 1 .. 1 : most[i] = head[i]
      /\ \A i \in 1 .. Len(pres) : most[1 + i] = pres[i]
  <2>1. JoinOf(most, head, pres, ChunkType)
    BY <1>1, <1>4, Joined
  <2> QED BY <1>4, <2>1 DEF JoinOf
<1>7. /\ c \in Seq(ChunkType) /\ Len(c) = 1 + Len(pres) + Len(P)
      /\ \A i \in 1 .. 1 + Len(pres) : c[i] = most[i]
      /\ \A i \in 1 .. Len(P) : c[1 + Len(pres) + i] = P[i]
  <2> HIDE DEF most
  <2>1. JoinOf(c, most, P, ChunkType)
    BY <1>5, <1>6, Joined
  <2> QED BY <1>6, <2>1 DEF JoinOf
<1>8. /\ out_ \in Seq(ChunkType) /\ Len(out_) = Len(c) + 1
      /\ \A i \in 1 .. Len(c) : out_[i] = c[i]
      /\ \A i \in 1 .. 1 : out_[Len(c) + i] = last[i]
  <2> HIDE DEF c
  <2>1. JoinOf(c \o last, c, last, ChunkType)
    BY <1>4, <1>7, Joined
  <2>2. out_ = c \o last
    BY <1>3 DEF c
  <2>3. JoinOf(out_, c, last, ChunkType)
    BY <2>1, <2>2
  <2> QED BY <1>4, <2>3 DEF JoinOf
<1> HIDE DEF most, c
<1>9. Layout(c, pres, P)
  <2>1. c[1] = head[1]
    BY <1>5, <1>6, <1>7
  <2>2. ASSUME NEW i \in 1 .. Len(pres) PROVE c[i + 1] = pres[i]
    <3>1. 1 + i \in 1 .. 1 + Len(pres) /\ 1 + i = i + 1
      BY <1>5
    <3>2. c[1 + i] = most[1 + i]
      BY <1>7, <3>1
    <3> QED BY <1>6, <3>1, <3>2
  <2>3. ASSUME NEW i \in 1 .. Len(P) PROVE c[Len(pres) + 1 + i] = P[i]
    <3>1. Len(pres) + 1 = 1 + Len(pres)
      BY <1>5
    <3> QED BY <1>7, <3>1
  <2> QED BY <1>4, <1>5, <1>7, <2>1, <2>2, <2>3 DEF Layout
<1>10. out_[Len(c) + 1] = Chunk("IEND", 0)
  BY <1>4, <1>8
<1> QED BY <1>2, <1>8, <1>9, <1>10 DEF pres

\* The chunks of what is written, one after the other.
LEMMA LaidOut ==
    ASSUME NEW e, Neat(e), NEW P, NEW c, Cuts(P, e.size), Layout(c, e.preserved, P)
    PROVE  /\ Len(c) \in Nat /\ Len(e.preserved) \in Nat /\ Len(P) \in Nat
           /\ \A i \in 1 .. Len(c) :
                /\ c[i] \in ChunkType /\ c[i].whole
                /\ i = 1 => c[i].type = "IHDR"
                /\ i \in 2 .. Len(e.preserved) + 1 => c[i] = e.preserved[i - 1] /\ c[i].type \in Technical
                /\ i > Len(e.preserved) + 1 =>
                     c[i] = P[i - (Len(e.preserved) + 1)] /\ c[i].type = "IDAT"
<1> DEFINE pres == e.preserved
           m == Len(pres)
<1>1. pres \in Seq(ChunkType) /\ m \in Nat
  BY DEF Neat
<1>2. P \in Seq(ChunkType) /\ Len(P) \in Nat
  BY DEF Cuts
<1>3. c \in Seq(ChunkType) /\ Len(c) = m + Len(P) + 1 /\ c[1].type = "IHDR" /\ c[1].whole
  BY DEF Layout
<1>4. \A i \in 1 .. m : c[i + 1] = pres[i] /\ pres[i].type \in Technical /\ pres[i].whole
  BY DEF Layout, Neat
<1>5. \A i \in 1 .. Len(P) : c[m + 1 + i] = P[i] /\ P[i].type = "IDAT" /\ P[i].whole
  BY DEF Layout, Cuts
<1> HIDE DEF pres, m
<1>6. ASSUME NEW i \in 1 .. Len(c)
      PROVE  /\ c[i] \in ChunkType /\ c[i].whole
             /\ i = 1 => c[i].type = "IHDR"
             /\ i \in 2 .. m + 1 => c[i] = pres[i - 1] /\ c[i].type \in Technical
             /\ i > m + 1 => c[i] = P[i - (m + 1)] /\ c[i].type = "IDAT"
  <2>1. c[i] \in ChunkType
    BY <1>3
  <2>2. i = 1 => c[i].type = "IHDR" /\ c[i].whole
    BY <1>3
  <2>3. ASSUME i \in 2 .. m + 1 PROVE c[i] = pres[i - 1] /\ c[i].type \in Technical /\ c[i].whole
    <3>1. i - 1 \in 1 .. m /\ (i - 1) + 1 = i
      BY <1>1, <2>3
    <3> QED BY <1>4, <3>1
  <2>4. ASSUME i > m + 1 PROVE c[i] = P[i - (m + 1)] /\ c[i].type = "IDAT" /\ c[i].whole
    <3>1. i - (m + 1) \in 1 .. Len(P) /\ m + 1 + (i - (m + 1)) = i
      BY <1>1, <1>2, <1>3, <2>4
    <3> QED BY <1>5, <3>1
  <2>5. i = 1 \/ i \in 2 .. m + 1 \/ i > m + 1
    BY <1>1, <1>3
  <2> QED BY <2>1, <2>2, <2>3, <2>4, <2>5
<1>7. Len(c) \in Nat
  BY <1>3
<1> QED BY <1>1, <1>2, <1>6, <1>7 DEF pres, m

(***************************************************************************)
(* What is read of what was written.                                       *)
(***************************************************************************)
LEMMA AllIsVisible ==
    ASSUME NEW c \in Seq(ChunkType), NEW file \in Seq(ChunkType), Len(file) = Len(c) + 1,
           \A i \in 1 .. Len(c) : file[i] = c[i] /\ c[i].type # "IEND" /\ c[i].whole,
           file[Len(c) + 1].type = "IEND"
    PROVE  Visible(file) = c
<1> DEFINE stops == {i \in DOMAIN file : file[i].type = "IEND" \/ ~file[i].whole}
           first == CHOOSE i \in stops : \A j \in stops : i <= j
           L == Len(c)
<1>1. L \in Nat /\ DOMAIN file = 1 .. L + 1
  BY LenProperties
<1>2. stops = {L + 1}
  <2>1. \A i \in 1 .. L + 1 : i \in 1 .. L \/ i = L + 1
    BY <1>1
  <2>2. \A i \in 1 .. L : i \notin stops
    OBVIOUS
  <2>3. L + 1 \in stops
    BY <1>1
  <2> QED BY <1>1, <2>1, <2>2, <2>3
<1>3. first = L + 1
  <2> HIDE DEF stops
  <2>1. \E i \in stops : \A j \in stops : i <= j
    BY <1>1, <1>2
  <2>2. first \in stops
    BY <2>1
  <2> QED BY <1>2, <2>2
<1>4. Visible(file) = SubSeq(file, 1, first - 1)
  BY <1>2 DEF Visible
<1> HIDE DEF stops, first, L
<1>5. Visible(file) = SubSeq(file, 1, L)
  BY <1>1, <1>3, <1>4
<1>6. \A i \in 1 .. L : file[i] = c[i]
  BY DEF L
<1>7. \A i \in 1 .. L : file[i] \in ChunkType
  BY <1>6 DEF L
<1>8. /\ SubSeq(file, 1, L) \in Seq(ChunkType) /\ Len(SubSeq(file, 1, L)) = L
      /\ \A i \in 1 .. L : SubSeq(file, 1, L)[i] = file[i]
  BY <1>1, <1>7, SubSeqProperties
<1>9. Len(c) = L
  BY DEF L
<1> DEFINE cut == SubSeq(file, 1, L)
<1>10. cut \in Seq(ChunkType) /\ Len(cut) = Len(c) /\ \A i \in 1 .. Len(cut) : cut[i] = c[i]
  BY <1>6, <1>8, <1>9
<1> HIDE DEF cut
<1>11. cut = c
  BY <1>10, SeqEqual
<1> QED BY <1>5, <1>11 DEF cut

\* Nothing is dropped on the way back.
WalkedBack(st, pres, P, n) ==
    /\ st \in WalkType /\ st.envelope.discarded = 0
    /\ n <= Len(pres) + 1 => st.lengths = <<>>
    /\ n = 0 => Len(st.envelope.preserved) = 0
    /\ n \in 1 .. Len(pres) + 1 => Len(st.envelope.preserved) = n - 1
    /\ n > Len(pres) + 1 => Len(st.envelope.preserved) = Len(pres)
    /\ \A i \in 1 .. Len(st.envelope.preserved) : st.envelope.preserved[i] = pres[i]
    /\ n > Len(pres) + 1 =>
         /\ Len(st.lengths) = n - (Len(pres) + 1)
         /\ \A i \in 1 .. n - (Len(pres) + 1) : st.lengths[i] = P[i].length

\* Filing the next chunk of what was written files it where it was.
LEMMA WalkGoesBack ==
    ASSUME NEW e, Neat(e), NEW P, NEW c, Cuts(P, e.size), Layout(c, e.preserved, P),
           NEW n \in Nat, n + 1 <= Len(c), NEW st, WalkedBack(st, e.preserved, P, n)
    PROVE  WalkedBack(Filed(st, c[n + 1]), e.preserved, P, n + 1)
<1> DEFINE pres == e.preserved
           m == Len(pres)
           ch == c[n + 1]
           part == st.envelope.preserved
           after == Filed(st, ch)
           before == st.lengths = <<>>
<1>1. /\ Len(c) \in Nat /\ m \in Nat /\ Len(P) \in Nat
      /\ ch \in ChunkType
      /\ n + 1 = 1 => ch.type = "IHDR"
      /\ n + 1 \in 2 .. m + 1 => ch = pres[n] /\ ch.type \in Technical
      /\ n + 1 > m + 1 => ch = P[(n + 1) - (m + 1)] /\ ch.type = "IDAT"
  <2>1. /\ Len(c) \in Nat /\ m \in Nat /\ Len(P) \in Nat
        /\ \A i \in 1 .. Len(c) :
                /\ c[i] \in ChunkType /\ c[i].whole
                /\ i = 1 => c[i].type = "IHDR"
                /\ i \in 2 .. m + 1 => c[i] = pres[i - 1] /\ c[i].type \in Technical
                /\ i > m + 1 => c[i] = P[i - (m + 1)] /\ c[i].type = "IDAT"
    BY LaidOut
  <2> HIDE DEF m, pres
  <2>2. n + 1 \in 1 .. Len(c) /\ (n + 1) - 1 = n
    BY <2>1
  <2> DEFINE i == n + 1
  <2>3. i \in 1 .. Len(c) /\ i - 1 = n
    BY <2>2
  <2> HIDE DEF i
  <2>4. /\ c[i] \in ChunkType
        /\ i = 1 => c[i].type = "IHDR"
        /\ i \in 2 .. m + 1 => c[i] = pres[n] /\ c[i].type \in Technical
        /\ i > m + 1 => c[i] = P[i - (m + 1)] /\ c[i].type = "IDAT"
    BY <2>1, <2>3
  <2> QED BY <2>1, <2>4 DEF i
<1>2. /\ st \in WalkType /\ st.envelope.discarded = 0
      /\ n <= m + 1 => before
      /\ n = 0 => Len(part) = 0
      /\ n \in 1 .. m + 1 => Len(part) = n - 1
      /\ n > m + 1 => Len(part) = m
      /\ \A i \in 1 .. Len(part) : part[i] = pres[i]
      /\ n > m + 1 => /\ Len(st.lengths) = n - (m + 1)
                      /\ \A i \in 1 .. n - (m + 1) : st.lengths[i] = P[i].length
  BY DEF WalkedBack
<1>3. part \in Seq(ChunkType) /\ Len(part) \in Nat /\ st.lengths \in Seq(Nat) /\ DOMAIN part = 1 .. Len(part)
  BY <1>2 DEF WalkType, EnvelopeType
<1>4. /\ after \in WalkType
      /\ ch.type = "IDAT" => after.envelope = st.envelope /\ after.lengths = Append(st.lengths, ch.length)
      /\ ch.type # "IDAT" => after.lengths = st.lengths
      /\ ch.type # "IDAT" /\ Keeps(part, ch, before) =>
           after.envelope.preserved = Append(part, ch) /\ after.envelope.discarded = st.envelope.discarded
      /\ ch.type # "IDAT" /\ ~Keeps(part, ch, before) =>
           /\ after.envelope.preserved = part
           /\ after.envelope.discarded = st.envelope.discarded + IF ch.type \in Lowercase THEN 1 ELSE 0
  BY <1>1, <1>2, FiledIs
<1>5. /\ \A i \in 1 .. m : /\ pres[i].type \in Technical /\ pres[i].length <= MaxPreserved
      /\ \A i, j \in 1 .. m : i # j => pres[i].type # pres[j].type
  BY DEF Neat
<1>6. ch.length \in Nat
  BY <1>1 DEF ChunkType
<1> HIDE DEF m, pres, ch, part, after, before
<1>7. CASE n = 0
  <2>1. ch.type = "IHDR" /\ ch.type # "IDAT" /\ ch.type \notin Lowercase /\ ch.type \notin Technical
    BY <1>1, <1>7, CriticalIs
  <2>2. ~Keeps(part, ch, before)
    BY <2>1 DEF Keeps
  <2>3. after.envelope.preserved = part /\ after.envelope.discarded = 0 /\ after.lengths = st.lengths
    BY <1>2, <1>4, <2>1, <2>2
  <2>4. before /\ Len(part) = 0 /\ n + 1 = 1 /\ ~(n + 1 > m + 1) /\ n + 1 # 0 /\ Len(part) = (n + 1) - 1
    BY <1>1, <1>2, <1>7
  <2> QED BY <1>2, <1>4, <2>3, <2>4 DEF WalkedBack, after, before, m, pres, ch
<1>8. CASE n # 0 /\ n + 1 <= m + 1
  <2>0. n \in 1 .. m /\ n + 1 \in 2 .. m + 1 /\ n \in 1 .. m + 1
    BY <1>1, <1>8
  <2>1. ch = pres[n] /\ ch.type \in Technical /\ ch.type # "IDAT" /\ ch.length <= MaxPreserved
    BY <1>1, <1>5, <2>0, CriticalIs
  <2>2. before /\ Len(part) = n - 1
    BY <1>1, <1>2, <2>0
  <2>3. Keeps(part, ch, before)
    <3>1. ASSUME NEW i \in DOMAIN part PROVE part[i].type # ch.type
      <4>1. i \in 1 .. n - 1 /\ i \in 1 .. Len(part) /\ i \in 1 .. m /\ i # n
        BY <1>1, <1>3, <2>0, <2>2
      <4> QED BY <1>2, <1>5, <2>0, <2>1, <4>1
    <3> QED BY <2>1, <2>2, <3>1 DEF Keeps
  <2>4. after.envelope.preserved = Append(part, ch) /\ after.envelope.discarded = 0 /\ after.lengths = st.lengths
    BY <1>2, <1>4, <2>1, <2>3
  <2>5. Len(Append(part, ch)) = n /\ \A i \in 1 .. n : Append(part, ch)[i] = pres[i]
    <3>1. Len(Append(part, ch)) = Len(part) + 1
      BY <1>1, <1>3
    <3>2. ASSUME NEW i \in 1 .. n PROVE Append(part, ch)[i] = pres[i]
      <4>1. i \in 1 .. Len(part) \/ i = Len(part) + 1
        BY <1>3, <2>2
      <4>2. i \in 1 .. Len(part) => Append(part, ch)[i] = part[i]
        BY <1>1, <1>3
      <4>3. Append(part, ch)[Len(part) + 1] = ch
        BY <1>1, <1>3
      <4>4. Len(part) + 1 = n
        BY <2>0, <2>2
      <4> QED BY <1>2, <2>1, <4>1, <4>2, <4>3, <4>4
    <3> QED BY <2>0, <2>2, <3>1, <3>2
  <2>6. n + 1 # 0 /\ ~(n + 1 > m + 1) /\ (n + 1) - 1 = n
    BY <1>1, <1>8
  <2> QED BY <1>4, <2>2, <2>4, <2>5, <2>6 DEF WalkedBack, after, before, m, pres, ch
<1>9. CASE n + 1 > m + 1
  <2> DEFINE k == n - m
  <2>0. /\ k \in Nat /\ k >= 1 /\ (n + 1) - (m + 1) = k /\ n - (m + 1) = k - 1 /\ n + 1 # 0
        /\ ~(n + 1 <= m + 1) /\ n + 1 \notin 1 .. m + 1
    BY <1>1, <1>9
  <2>1. ch.type = "IDAT" /\ ch = P[k]
    BY <1>1, <1>9, <2>0
  <2>2. after.envelope = st.envelope /\ after.lengths = Append(st.lengths, ch.length)
    BY <1>4, <2>1
  <2>3. Len(part) = m /\ Len(st.lengths) = k - 1 /\ \A i \in 1 .. k - 1 : st.lengths[i] = P[i].length
    <3>1. CASE n = m + 1
      <4>1. n \in 1 .. m + 1 /\ n <= m + 1 /\ n - 1 = m /\ k - 1 = 0 /\ 1 .. k - 1 = {}
        BY <1>1, <2>0, <3>1
      <4>2. st.lengths = <<>>
        BY <1>2, <4>1 DEF before
      <4>3. Len(st.lengths) = 0
        BY <4>2
      <4> QED BY <1>2, <4>1, <4>3
    <3>2. CASE n > m + 1
      <4>1. n - (m + 1) = k - 1
        BY <2>0
      <4> HIDE DEF k
      <4> QED BY <1>2, <3>2, <4>1
    <3>3. n = m + 1 \/ n > m + 1
      BY <1>1, <1>9
    <3> QED BY <3>1, <3>2, <3>3
  <2> HIDE DEF k
  <2>4. Len(Append(st.lengths, ch.length)) = k
        /\ \A i \in 1 .. k : Append(st.lengths, ch.length)[i] = P[i].length
    <3>1. Len(Append(st.lengths, ch.length)) = k
      BY <1>3, <1>6, <2>0, <2>3
    <3>2. ASSUME NEW i \in 1 .. k PROVE Append(st.lengths, ch.length)[i] = P[i].length
      <4>1. i \in 1 .. k - 1 \/ i = k
        BY <2>0
      <4>2. i \in 1 .. k - 1 => Append(st.lengths, ch.length)[i] = st.lengths[i]
        BY <1>3, <1>6, <2>3
      <4>3. Append(st.lengths, ch.length)[k] = ch.length
        <5>1. Append(st.lengths, ch.length)[Len(st.lengths) + 1] = ch.length
          BY <1>3, <1>6
        <5>2. Len(st.lengths) + 1 = k
          BY <2>0, <2>3
        <5> QED BY <5>1, <5>2
      <4> QED BY <2>1, <2>3, <4>1, <4>2, <4>3
    <3> QED BY <3>1, <3>2
  <2>5. after.envelope.preserved = part /\ after.envelope.discarded = 0
    BY <1>2, <2>2 DEF part
  <2>6. n + 1 > m + 1 /\ ~(n + 1 = 0)
    BY <1>9, <2>0
  <2> QED BY <1>2, <1>4, <2>0, <2>2, <2>3, <2>4, <2>5, <2>6 DEF WalkedBack, after, m, pres, ch
<1>10. n = 0 \/ (n # 0 /\ n + 1 <= m + 1) \/ n + 1 > m + 1
  BY <1>1
<1> QED BY <1>7, <1>8, <1>9, <1>10 DEF ch, pres

\* A walk over what was written keeps all that travelled.
LEMMA WalkIsBack ==
    ASSUME NEW e, Neat(e), NEW P, NEW c, Cuts(P, e.size), Layout(c, e.preserved, P),
           NEW f, WalksOver(f, c, Len(c))
    PROVE  WalkedBack(f[Len(c)], e.preserved, P, Len(c))
<1> DEFINE L == Len(c)
           pres == e.preserved
           T == {n \in Nat : n <= L => WalkedBack(f[n], pres, P, n)}
<1>0. L \in Nat /\ Len(pres) \in Nat
  BY LaidOut
<1>1. 0 \in T
  <2>1. f[0] = Begin
    BY <1>0 DEF WalksOver
  <2>2. WalkedBack(Begin, pres, P, 0)
    <3>1. Len(Begin.envelope.preserved) = 0 /\ 1 .. 0 = {} /\ 0 \notin 1 .. Len(pres) + 1 /\ ~(0 > Len(pres) + 1)
      BY <1>0, BeginIs
    <3> HIDE DEF pres
    <3> QED BY <3>1, BeginIs DEF WalkedBack
  <2> QED BY <2>1, <2>2
<1>2. ASSUME NEW m \in Nat, m \in T PROVE m + 1 \in T
  <2> SUFFICES ASSUME m + 1 <= L PROVE WalkedBack(f[m + 1], pres, P, m + 1)
    OBVIOUS
  <2>1. WalkedBack(f[m], pres, P, m)
    BY <1>0, <1>2
  <2>2. f[m + 1] = Filed(f[m], c[m + 1])
    BY <1>0, WalkSteps
  <2>3. WalkedBack(Filed(f[m], c[m + 1]), pres, P, m + 1)
    BY <2>1, WalkGoesBack
  <2> QED BY <2>2, <2>3
<1>3. Nat \subseteq T
  <2> HIDE DEF T
  <2> QED BY <1>1, <1>2, NatInd
<1> QED BY <1>0, <1>3

\* Of pieces of one size and a rest that size is the most frequent, as soon as
\* there are two; of two it is the larger.
LEMMA SizeStays ==
    ASSUME NEW lengths \in Seq(Nat), NEW cut \in MinIdat .. MaxIdat, Len(lengths) > 1,
           \A i \in 1 .. Len(lengths) : lengths[i] <= cut,
           \A i \in 1 .. Len(lengths) - 1 : lengths[i] = cut
    PROVE  SizeOf(lengths) = cut
<1> DEFINE n == Len(lengths)
           d == dominant_length(lengths)
<1>1. n \in Nat /\ n > 1 /\ DOMAIN lengths = 1 .. n /\ lengths # <<>> /\ \A i \in 1 .. n : lengths[i] \in Nat
  <2>1. lengths # <<>>
    BY EmptySeq
  <2> QED BY <2>1
<1>2. MinIdat \in Nat /\ MaxIdat \in Nat /\ cut \in Nat /\ MinIdat <= cut /\ cut <= MaxIdat
  BY EnvelopeAssumption
<1>3. /\ d \in Nat /\ \E i \in 1 .. n : lengths[i] = d
      /\ \A i \in 1 .. n : AtLeast(lengths, d, lengths[i])
  BY <1>1, DominantIs
<1> HIDE DEF d
<1>4. PICK k \in 1 .. n : lengths[k] = d
  BY <1>3
<1>5. d = cut
  <2> SUFFICES ASSUME d # cut PROVE FALSE
    OBVIOUS
  <2>1. k = n /\ d < cut
    <3>1. lengths[k] <= cut /\ (k \in 1 .. n - 1 => lengths[k] = cut)
      OBVIOUS
    <3>2. k \notin 1 .. n - 1
      BY <1>4, <3>1
    <3>3. k = n
      <4> HIDE DEF n
      <4> QED BY <1>1, <3>2
    <3>4. d < cut
      <4> HIDE DEF n
      <4> QED BY <1>2, <1>3, <1>4, <3>1
    <3> QED BY <3>3, <3>4
  <2>2. {i \in DOMAIN lengths : lengths[i] = d} = {n}
    BY <1>1, <1>4, <2>1
  <2>3. Occurrences(lengths, d) = 1
    BY <2>2, FS_Singleton DEF Occurrences
  <2>4. {i \in DOMAIN lengths : lengths[i] = cut} = 1 .. n - 1
    BY <1>1, <1>4, <2>1
  <2>5. Occurrences(lengths, cut) = n - 1
    <3>1. Cardinality(1 .. n - 1) = n - 1
      BY <1>1, FS_Interval
    <3> QED BY <2>4, <3>1 DEF Occurrences
  <2>6. AtLeast(lengths, d, cut)
    BY <1>1, <1>3
  <2> HIDE DEF n
  <2> QED BY <1>1, <1>2, <1>3, <2>1, <2>3, <2>5, <2>6 DEF AtLeast
<1> QED BY <1>1, <1>2, <1>5 DEF SizeOf, d

\* A file that is cut at one size is read to be cut at that size.
LEMMA TheCutIsSeen ==
    ASSUME NEW file \in Seq(ChunkType), NEW cut \in MinIdat .. MaxIdat,
           CutAt(Visible(file), cut), Cardinality(Pixels(Visible(file))) > 1
    PROVE  read(file).size = cut
<1> DEFINE c == Visible(file)
           L == Len(c)
<1>1. c \in Seq(ChunkType) /\ L \in Nat
  BY VisibleIs
<1>2. PICK f : /\ WalksOver(f, c, L)
               /\ read(file) = [f[L].envelope EXCEPT !.size = SizeOf(f[L].lengths), !.count = Len(f[L].lengths)]
  BY <1>1, ReadIs
<1> DEFINE st == f[L]
           lengths == st.lengths
           n == Len(lengths)
           P == Pixels(c)
<1>3. NotedTo(st, c, L)
  BY <1>1, <1>2, NotedIs
<1>4. st \in WalkType /\ Placed(lengths, Sizes(c), PiecesTo(c, L))
  BY <1>3 DEF NotedTo
<1>5. read(file).size = SizeOf(lengths)
  BY <1>2, <1>4 DEF WalkType, EnvelopeType
<1>6. lengths \in Seq(Nat) /\ n \in Nat
  BY <1>4 DEF WalkType
<1>7. PiecesTo(c, L) = P /\ P \subseteq 1 .. L
  BY <1>1 DEF PiecesTo, Pixels
<1>8. PICK w : Places(w, lengths, Sizes(c), PiecesTo(c, L))
  BY <1>4 DEF Placed
<1>9. /\ \A i \in 1 .. n : w[i] \in P
      /\ \A i, j \in 1 .. n : i < j => w[i] < w[j]
      /\ \A k \in P : \E i \in 1 .. n : w[i] = k
  BY <1>7, <1>8 DEF Places
<1>10. \A i \in 1 .. n : lengths[i] = c[w[i]].length
  BY <1>7, <1>8, <1>9 DEF Places, Sizes
<1>11. /\ \A k \in P : c[k].length <= cut
       /\ \A j, k \in P : j < k => c[j].length = cut
       /\ Cardinality(P) > 1
  BY DEF CutAt
<1> HIDE DEF c, L, st, lengths, n, P
<1>12. n > 1
  <2>1. n # 0
    <3> SUFFICES ASSUME n = 0 PROVE FALSE
      OBVIOUS
    <3>1. P = {}
      BY <1>9
    <3> QED BY <1>11, <3>1, FS_EmptySet
  <2>2. n # 1
    <3> SUFFICES ASSUME n = 1 PROVE FALSE
      OBVIOUS
    <3>1. P = {w[1]}
      BY <1>9
    <3>2. Cardinality(P) = 1
      BY <3>1, FS_Singleton
    <3> QED BY <1>11, <3>2
  <2> QED BY <1>6, <2>1, <2>2
<1>13. \A i \in 1 .. n : lengths[i] <= cut
  BY <1>9, <1>10, <1>11
<1>14. ASSUME NEW i \in 1 .. n - 1 PROVE lengths[i] = cut
  <2>1. i \in 1 .. n /\ n \in 1 .. n /\ i < n
    BY <1>6, <1>12
  <2>2. w[i] \in P /\ w[n] \in P /\ w[i] < w[n]
    BY <1>9, <2>1
  <2> QED BY <1>10, <1>11, <2>1, <2>2
<1>15. SizeOf(lengths) = cut
  BY <1>6, <1>12, <1>13, <1>14, SizeStays DEF n
<1> QED BY <1>5, <1>15

\* What is read again.
LEMMA RereadIs ==
    ASSUME NEW e, Neat(e), NEW P, NEW c, Cuts(P, e.size), Layout(c, e.preserved, P),
           NEW file, file \in Seq(ChunkType), Visible(file) = c
    PROVE  /\ read(file).preserved = e.preserved /\ read(file).discarded = 0
           /\ Len(P) > 1 => read(file).size = e.size
<1> DEFINE L == Len(c)
           pres == e.preserved
           m == Len(pres)
<1>1. L \in Nat /\ m \in Nat /\ Len(P) \in Nat /\ L = m + Len(P) + 1 /\ pres \in Seq(ChunkType) /\ Len(P) >= 1
      /\ e.size \in MinIdat .. MaxIdat
  BY LaidOut DEF Layout, Neat, Cuts
<1>2. PICK f : /\ WalksOver(f, c, L)
               /\ read(file) = [f[L].envelope EXCEPT !.size = SizeOf(f[L].lengths), !.count = Len(f[L].lengths)]
  BY <1>1, ReadIs
<1> DEFINE st == f[L]
           part == st.envelope.preserved
           lengths == st.lengths
<1>3. WalkedBack(st, pres, P, L)
  BY <1>2, WalkIsBack
<1>4. /\ read(file).preserved = part /\ read(file).discarded = st.envelope.discarded
      /\ read(file).size = SizeOf(lengths)
  <2>1. st \in WalkType
    BY <1>3 DEF WalkedBack
  <2> QED BY <1>2, <2>1 DEF WalkType, EnvelopeType
<1> HIDE DEF st
<1>5. /\ st \in WalkType /\ st.envelope.discarded = 0 /\ Len(part) = m
      /\ \A i \in 1 .. Len(part) : part[i] = pres[i]
      /\ Len(lengths) = L - (m + 1)
      /\ \A i \in 1 .. L - (m + 1) : lengths[i] = P[i].length
  <2>1. L > m + 1
    BY <1>1
  <2> HIDE DEF L
  <2> QED BY <1>3, <2>1 DEF WalkedBack
<1>6. part \in Seq(ChunkType) /\ lengths \in Seq(Nat)
  BY <1>5 DEF WalkType, EnvelopeType
<1> HIDE DEF L, pres, part, lengths
<1>7. part = pres
  <2> DEFINE T == ChunkType
  <2> HIDE DEF T
  <2>1. part \in Seq(T) /\ pres \in Seq(T)
    BY <1>1, <1>6 DEF T
  <2> QED BY <1>5, <2>1, SeqEqual DEF m
<1> HIDE DEF m
<1>8. ASSUME Len(P) > 1 PROVE SizeOf(lengths) = e.size
  <2>1. L - (m + 1) = Len(P)
    BY <1>1
  <2>2. Len(lengths) = Len(P) /\ \A i \in 1 .. Len(P) : lengths[i] = P[i].length
    BY <1>5, <2>1
  <2>3. /\ \A i \in 1 .. Len(P) : P[i].length <= e.size
        /\ \A i \in 1 .. Len(P) - 1 : P[i].length = e.size
    BY DEF Cuts
  <2>4. \A i \in 1 .. Len(P) - 1 : i \in 1 .. Len(P)
    BY <1>1
  <2>5. /\ \A i \in 1 .. Len(lengths) : lengths[i] <= e.size
        /\ \A i \in 1 .. Len(lengths) - 1 : lengths[i] = e.size
    BY <2>2, <2>3, <2>4
  <2> QED BY <1>1, <1>6, <1>8, <2>2, <2>5, SizeStays
<1> QED BY <1>4, <1>5, <1>7, <1>8 DEF pres

FileShows(file, e, P) ==
    /\ P \in Seq(ChunkType) /\ Cuts(P, e.size) /\ Len(e.preserved) \in Nat
    /\ Extras(file) = 2 .. Len(e.preserved) + 1
    /\ \A i \in 2 .. Len(e.preserved) + 1 : file[i] = e.preserved[i - 1]
    /\ Pixels(file) = Len(e.preserved) + 2 .. Len(e.preserved) + Len(P) + 1
    /\ \A i \in Len(e.preserved) + 2 .. Len(e.preserved) + Len(P) + 1 :
         file[i] = P[i - (Len(e.preserved) + 1)]
    /\ read(file).preserved = e.preserved /\ read(file).discarded = 0
    /\ Len(P) > 1 => read(file).size = e.size

\* What a container shows, chunk by chunk.
LEMMA FileIs ==
    ASSUME NEW e, Neat(e), NEW stream \in Streams, NEW file, file = Written(e, stream)
    PROVE  \E P : FileShows(file, e, P)
<1>1. PICK P, c : /\ Cuts(P, e.size) /\ Layout(c, e.preserved, P)
                  /\ file \in Seq(ChunkType) /\ Len(file) = Len(c) + 1
                  /\ \A i \in 1 .. Len(c) : file[i] = c[i]
                  /\ file[Len(c) + 1] = Chunk("IEND", 0)
  BY WrittenIs
<1> DEFINE pres == e.preserved
           m == Len(pres)
           L == Len(c)
<1>2. /\ L \in Nat /\ m \in Nat /\ Len(P) \in Nat /\ L = m + Len(P) + 1
      /\ \A i \in 1 .. L :
                /\ c[i] \in ChunkType /\ c[i].whole
                /\ i = 1 => c[i].type = "IHDR"
                /\ i \in 2 .. m + 1 => c[i] = pres[i - 1] /\ c[i].type \in Technical
                /\ i > m + 1 => c[i] = P[i - (m + 1)] /\ c[i].type = "IDAT"
  <2>1. L = m + Len(P) + 1
    BY <1>1 DEF Layout
  <2>2. Cuts(P, e.size) /\ Layout(c, e.preserved, P)
    BY <1>1
  <2> QED BY <2>1, <2>2, LaidOut
<1>3. file[L + 1].type = "IEND"
  BY <1>1, ChunkIs, Named
<1>4. DOMAIN file = 1 .. L + 1 /\ \A i \in 1 .. L : file[i] = c[i]
  BY <1>1, LenProperties
<1>5. c \in Seq(ChunkType) /\ P \in Seq(ChunkType)
  BY <1>1 DEF Layout, Cuts
<1> HIDE DEF L, m, pres
<1>6. ASSUME NEW i \in 1 .. L
      PROVE  /\ c[i].type # "IEND"
             /\ c[i].type \notin Critical <=> i \in 2 .. m + 1
             /\ c[i].type = "IDAT" <=> i \in m + 2 .. L
  <2>1. i = 1 \/ i \in 2 .. m + 1 \/ i > m + 1
    BY <1>2
  <2>2. CASE i = 1
    BY <1>2, <2>2, CriticalIs
  <2>3. CASE i \in 2 .. m + 1
    <3>1. c[i].type \in Technical /\ ~(i \in m + 2 .. L)
      BY <1>2, <2>3
    <3> QED BY <2>3, <3>1, CriticalIs
  <2>4. CASE i > m + 1
    <3>1. c[i].type = "IDAT" /\ i \in m + 2 .. L /\ i \notin 2 .. m + 1
      BY <1>2, <2>4
    <3> QED BY <3>1, CriticalIs
  <2> QED BY <2>1, <2>2, <2>3, <2>4
<1>7. Visible(file) = c
  <2>1. Len(file) = Len(c) + 1 /\ file[Len(c) + 1].type = "IEND"
        /\ \A i \in 1 .. Len(c) : file[i] = c[i] /\ c[i].type # "IEND" /\ c[i].whole
    BY <1>1, <1>2, <1>3, <1>6 DEF L
  <2> QED BY <1>1, <1>5, <2>1, AllIsVisible
<1>8. ASSUME NEW i
      PROVE  i \in DOMAIN file <=> (i \in 1 .. L \/ i = L + 1)
  BY <1>2, <1>4
<1>9. ASSUME NEW i \in 2 .. m + 1
      PROVE  i \in 1 .. L
  BY <1>2
<1>10. ASSUME NEW i \in m + 2 .. L
       PROVE  i \in 1 .. L /\ i > m + 1
  BY <1>2
<1>11. Extras(file) = 2 .. m + 1
  <2>1. ASSUME NEW i \in Extras(file) PROVE i \in 2 .. m + 1
    BY <1>3, <1>4, <1>6, <1>8, CriticalIs DEF Extras
  <2>2. ASSUME NEW i \in 2 .. m + 1 PROVE i \in Extras(file)
    BY <1>4, <1>6, <1>8, <1>9 DEF Extras
  <2> QED BY <2>1, <2>2
<1>12. Pixels(file) = m + 2 .. L
  <2>1. ASSUME NEW i \in Pixels(file) PROVE i \in m + 2 .. L
    BY <1>3, <1>4, <1>6, <1>8 DEF Pixels
  <2>2. ASSUME NEW i \in m + 2 .. L PROVE i \in Pixels(file)
    BY <1>4, <1>6, <1>8, <1>10 DEF Pixels
  <2> QED BY <2>1, <2>2
<1>13. \A i \in 2 .. m + 1 : file[i] = pres[i - 1]
  BY <1>2, <1>4, <1>9
<1>14. \A i \in m + 2 .. L : file[i] = P[i - (m + 1)]
  BY <1>2, <1>4, <1>10
<1>15. /\ read(file).preserved = pres /\ read(file).discarded = 0
       /\ Len(P) > 1 => read(file).size = e.size
  <2>1. Cuts(P, e.size) /\ Layout(c, e.preserved, P) /\ file \in Seq(ChunkType)
    BY <1>1
  <2>2. /\ read(file).preserved = e.preserved /\ read(file).discarded = 0
        /\ Len(P) > 1 => read(file).size = e.size
    BY <1>7, <2>1, RereadIs
  <2> QED BY <2>2 DEF pres
<1>16. FileShows(file, e, P)
  BY <1>1, <1>2, <1>5, <1>11, <1>12, <1>13, <1>14, <1>15 DEF FileShows, m, pres
<1> QED BY <1>16

(***************************************************************************)
(* The envelope of every container.                                        *)
(***************************************************************************)
Travelling ==
    /\ chunks \in Files
    /\ IF chunks = <<>> THEN kept = synthesised /\ pc # "decode"
       ELSE pc # "draw" /\ (pc # "decode" => kept = read(chunks))
    /\ pc \in {"written", "reread"} => \E stream \in Streams : out = Written(kept, stream)
    /\ pc = "reread" => again = read(out)

\* What a request begins with.
LEMMA TravellingInit == Init => Travelling
<1> SUFFICES ASSUME Init PROVE Travelling
  OBVIOUS
<1>1. PICK r \in Requests : /\ EnvelopeInit({r[1]})
                            /\ pc = IF r[1] = <<>> THEN "draw" ELSE "decode"
  BY DEF Init
<1>2. chunks = r[1] /\ kept = IF chunks = <<>> THEN synthesised ELSE Untold
  BY <1>1 DEF EnvelopeInit
<1>3. r[1] \in Files
  BY FileAssumption
<1> QED BY <1>1, <1>2, <1>3 DEF Travelling

\* Every step keeps Travelling.
LEMMA TravellingStep ==
    ASSUME Travelling, [Next]_vars
    PROVE  Travelling'
<1>1. CASE Decode
  BY <1>1 DEF Decode, ReadEnvelope, Travelling
<1>2. CASE Detect
  BY <1>2 DEF Detect, envelopeVars, Travelling
<1>3. CASE Compute
  BY <1>3 DEF Compute, envelopeVars, Travelling
<1>4. CASE Render
  <2>1. UNCHANGED <<chunks, kept, out, again>> /\ pc = "draw" /\ pc' \in {"write", "draw", "refused"}
    BY <1>4 DEF Render, envelopeVars
  <2> QED BY <2>1 DEF Travelling
<1>5. CASE WritePng
  BY <1>5 DEF WritePng, Write, Travelling
<1>6. CASE Reread
  BY <1>6 DEF Reread, ReadAgain, Travelling
<1>7. CASE ReadPayload
  BY <1>7 DEF ReadPayload, envelopeVars, Travelling
<1>8. CASE UNCHANGED vars
  BY <1>8 DEF vars, envelopeVars, Travelling
<1> QED BY <1>1, <1>2, <1>3, <1>4, <1>5, <1>6, <1>7, <1>8 DEF Next, Finished

\* The envelope, at every moment.
LEMMA TravellingAlways == Spec => []Travelling
<1>1. Init => Travelling
  BY TravellingInit
<1>2. Travelling /\ [Next]_vars => Travelling'
  BY TravellingStep
<1> QED BY <1>1, <1>2, PTL DEF Spec

\* A file is a sequence of chunks.
LEMMA FilesAre == ASSUME chunks \in Files PROVE chunks \in Seq(ChunkType)
BY FileAssumption DEF ChunkType

\* No file shows no pixels.
LEMMA NothingIsShown == ASSUME chunks = <<>> PROVE Pixels(Visible(chunks)) = {}
<1>1. DOMAIN chunks = {}
  OBVIOUS
<1>2. Visible(chunks) = chunks
  BY <1>1 DEF Visible
<1> QED BY <1>1, <1>2 DEF Pixels

\* What is written from can be read again.
LEMMA KeptIsNeat ==
    ASSUME Travelling, pc \in {"written", "reread"}
    PROVE  Neat(kept)
<1>1. CASE chunks = <<>>
  BY <1>1, TheSyntheticIsNeat DEF Travelling
<1>2. CASE chunks # <<>>
  <2>1. kept = read(chunks) /\ chunks \in Seq(ChunkType)
    BY <1>2, FilesAre DEF Travelling
  <2> QED BY <2>1, WhatIsReadIsNeat
<1> QED BY <1>1, <1>2

\* What the file that is written shows its next reader is what the original
\* showed, whatever the samples compress to.
THEOREM TheShapeSurvives == Spec => []ShapeSurvives
<1>1. Travelling => ShapeSurvives
  <2> SUFFICES ASSUME Travelling, pc = "reread"
               PROVE  /\ again.preserved = kept.preserved /\ again.discarded = 0
                      /\ CutAt(out, kept.size)
                      /\ Cardinality(Pixels(out)) > 1 => again.size = kept.size
                      /\ Cardinality(Pixels(Visible(chunks))) > 1 =>
                           \A cut \in MinIdat .. MaxIdat : CutAt(Visible(chunks), cut) => CutAt(out, cut)
    BY DEF ShapeSurvives
  <2>1. Neat(kept)
    BY KeptIsNeat
  <2>2. PICK stream \in Streams : out = Written(kept, stream)
    BY DEF Travelling
  <2>3. PICK P : FileShows(out, kept, P)
    BY <2>1, <2>2, FileIs
  <2> DEFINE m == Len(kept.preserved)
             L == m + Len(P) + 1
  <2>4. /\ m \in Nat /\ Pixels(out) = m + 2 .. L
        /\ \A i \in m + 2 .. L : out[i] = P[i - (m + 1)]
        /\ read(out).preserved = kept.preserved /\ read(out).discarded = 0
        /\ Len(P) > 1 => read(out).size = kept.size
        /\ P \in Seq(ChunkType) /\ \A i \in 1 .. Len(P) - 1 : P[i].length = kept.size
        /\ \A i \in 1 .. Len(P) : P[i].length <= kept.size
    BY <2>3 DEF FileShows, Cuts
  <2>5. again = read(out)
    BY DEF Travelling
  <2>6. Len(P) \in Nat
    BY <2>4
  <2> HIDE DEF m
  <2>7. ASSUME NEW i \in Pixels(out), NEW j \in Pixels(out), i < j
        PROVE  out[i].length = kept.size
    <3>1. i \in m + 2 .. L /\ i - (m + 1) \in 1 .. Len(P) - 1
      BY <2>4, <2>6, <2>7
    <3> QED BY <2>4, <3>1
  <2>8. ASSUME NEW i \in Pixels(out) PROVE out[i].length <= kept.size
    <3>1. i \in m + 2 .. L /\ i - (m + 1) \in 1 .. Len(P)
      BY <2>4, <2>6
    <3> QED BY <2>4, <3>1
  <2>9. CutAt(out, kept.size)
    BY <2>7, <2>8 DEF CutAt
  <2>10. Cardinality(Pixels(out)) = Len(P)
    <3>1. m + 2 \in Int /\ L \in Int /\ L - (m + 2) + 1 = Len(P) /\ (Len(P) > 0 <=> m + 2 <= L)
      BY <2>4, <2>6
    <3>2. Cardinality(m + 2 .. L) = IF m + 2 > L THEN 0 ELSE L - (m + 2) + 1
      <4> DEFINE a == m + 2
      <4>1. a \in Int /\ L \in Int
        BY <3>1
      <4> HIDE DEF a, L
      <4> QED BY <4>1, FS_Interval DEF a
    <3> QED BY <2>4, <2>6, <3>1, <3>2
  <2>11. ASSUME Cardinality(Pixels(Visible(chunks))) > 1, NEW cut \in MinIdat .. MaxIdat,
                CutAt(Visible(chunks), cut)
         PROVE  CutAt(out, cut)
    <3>1. chunks # <<>>
      <4> SUFFICES ASSUME chunks = <<>> PROVE FALSE
        OBVIOUS
      <4>1. Pixels(Visible(chunks)) = {}
        BY NothingIsShown
      <4> QED BY <2>11, <4>1, FS_EmptySet
    <3>2. kept = read(chunks) /\ chunks \in Seq(ChunkType)
      BY <3>1, FilesAre DEF Travelling
    <3>3. kept.size = cut
      BY <2>11, <3>2, TheCutIsSeen
    <3> QED BY <2>9, <3>3
  <2> QED BY <2>4, <2>5, <2>9, <2>10, <2>11
<1> QED BY <1>1, TravellingAlways, PTL

\* Nothing but technical data travels, each kind once and in its order, and what
\* is left behind is counted.
THEOREM OnlyTheTechnicalTravels == Spec => []OnlyTechnicalTravels
<1>1. Travelling => OnlyTechnicalTravels
  <2> DEFINE r == Visible(chunks)
             first == {i \in DOMAIN r : /\ r[i].type \in Technical
                                        /\ \A j \in 1 .. i : r[j].type # "IDAT"
                                        /\ \A j \in 1 .. i - 1 :
                                             r[j].length <= MaxPreserved => r[j].type # r[i].type}
             chosen == {k \in first : r[k].length <= MaxPreserved}
  <2> SUFFICES ASSUME Travelling, pc \in {"written", "reread"}, chunks # <<>>
               PROVE  /\ {out[i] : i \in Extras(out)} = {r[i] : i \in chosen}
                      /\ \A i, j \in Extras(out) :
                           i < j => \E k, l \in first : k < l /\ r[k] = out[i] /\ r[l] = out[j]
                      /\ Cardinality(Extras(out)) + kept.discarded = Cardinality(Ancillary(r))
    BY DEF OnlyTechnicalTravels
  <2>1. Neat(kept) /\ chunks \in Seq(ChunkType) /\ kept = read(chunks)
    BY KeptIsNeat, FilesAre DEF Travelling
  <2>2. PICK stream \in Streams : out = Written(kept, stream)
    BY DEF Travelling
  <2>3. PICK P : FileShows(out, kept, P)
    BY <2>1, <2>2, FileIs
  <2> DEFINE part == kept.preserved
             m == Len(part)
             A == Extras(out)
             L == Len(r)
  <2>4. m \in Nat /\ A = 2 .. m + 1 /\ \A i \in 2 .. m + 1 : out[i] = part[i - 1]
    BY <2>3 DEF FileShows
  <2>5. /\ Placed(part, r, Fit(r, L))
        /\ m + kept.discarded = Cardinality(AncillaryTo(r, L))
    BY <2>1, ReadOf DEF ReadFrom
  <2>6. r \in Seq(ChunkType)
    BY <2>1, VisibleIs
  <2> HIDE DEF r
  <2>7. DOMAIN r = 1 .. L /\ L \in Nat
    BY <2>6
  <2>8. PICK w : Places(w, part, r, Fit(r, L))
    BY <2>5 DEF Placed
  <2>9. chosen = Fit(r, L)
    BY <2>7 DEF Fit, Fits
  <2>10. AncillaryTo(r, L) = Ancillary(r)
    BY <2>7 DEF AncillaryTo, Ancillary
  <2> HIDE DEF A, part, L
  <2>11. /\ w \in [1 .. m -> chosen]
         /\ \A i, j \in 1 .. m : i < j => w[i] < w[j]
         /\ \A i \in 1 .. m : part[i] = r[w[i]]
         /\ \A k \in chosen : \E i \in 1 .. m : w[i] = k
    BY <2>8, <2>9 DEF Places
  <2>12. chosen \subseteq first
    OBVIOUS
  <2> HIDE DEF chosen, first, m
  <2>13. ASSUME NEW i \in A
         PROVE  i - 1 \in 1 .. m /\ w[i - 1] \in chosen /\ out[i] = r[w[i - 1]]
    <3>1. i - 1 \in 1 .. m
      BY <2>4
    <3> QED BY <2>4, <2>11, <3>1
  <2>14. ASSUME NEW i \in 1 .. m
         PROVE  i + 1 \in A /\ out[i + 1] = r[w[i]]
    <3>1. i + 1 \in 2 .. m + 1 /\ (i + 1) - 1 = i
      BY <2>4
    <3> QED BY <2>4, <2>11, <3>1
  <2>15. {out[i] : i \in A} = {r[i] : i \in chosen}
    <3>1. ASSUME NEW i \in A PROVE out[i] \in {r[k] : k \in chosen}
      BY <2>13
    <3>2. ASSUME NEW k \in chosen PROVE r[k] \in {out[i] : i \in A}
      <4>1. PICK i \in 1 .. m : w[i] = k
        BY <2>11
      <4>2. i + 1 \in A /\ out[i + 1] = r[k]
        BY <2>14, <4>1
      <4> QED BY <4>2
    <3> QED BY <3>1, <3>2
  <2>16. ASSUME NEW i \in A, NEW j \in A, i < j
         PROVE  \E k, l \in first : k < l /\ r[k] = out[i] /\ r[l] = out[j]
    <3>1. i - 1 < j - 1
      BY <2>4, <2>16
    <3>2. w[i - 1] < w[j - 1]
      BY <2>11, <2>13, <3>1
    <3>3. w[i - 1] \in first /\ w[j - 1] \in first
      BY <2>12, <2>13
    <3> QED BY <2>13, <3>2, <3>3
  <2>17. Cardinality(A) = m
    <3>1. Cardinality(2 .. m + 1) = IF 2 > m + 1 THEN 0 ELSE (m + 1) - 2 + 1
      BY <2>4, FS_Interval
    <3> QED BY <2>4, <3>1
  <2> QED BY <2>5, <2>10, <2>15, <2>16, <2>17 DEF A
<1> QED BY <1>1, TravellingAlways, PTL

(***************************************************************************)
(* The carrier.  The bits of a byte, and the byte of these bits.           *)
(***************************************************************************)
Halves(f, b, n) == f = [k \in 0 .. n |-> IF k = 0 THEN b ELSE f[k - 1] \div 2]

\* A byte can be halved any number of times.
LEMMA HalvesExist ==
    ASSUME NEW b, NEW n \in Nat
    PROVE  \E f : Halves(f, b, n)
<1> DEFINE S == {m \in Nat : \E f : Halves(f, b, m)}
<1>1. 0 \in S
  <2> DEFINE f == [k \in 0 .. 0 |-> b]
  <2>1. Halves(f, b, 0)
    BY DEF Halves
  <2> QED BY <2>1
<1>2. ASSUME NEW m \in Nat, m \in S
      PROVE  m + 1 \in S
  <2>1. PICK f : Halves(f, b, m)
    BY <1>2
  <2> DEFINE g == [k \in 0 .. m + 1 |-> IF k <= m THEN f[k] ELSE f[m] \div 2]
  <2>2. \A k \in 0 .. m : f[k] = IF k = 0 THEN b ELSE f[k - 1] \div 2
    BY <2>1 DEF Halves
  <2>3. \A k \in 0 .. m + 1 : g[k] = IF k = 0 THEN b ELSE g[k - 1] \div 2
    <3> SUFFICES ASSUME NEW k \in 0 .. m + 1
                 PROVE  g[k] = IF k = 0 THEN b ELSE g[k - 1] \div 2
      OBVIOUS
    <3>1. CASE k = 0
      BY <2>2, <3>1
    <3>2. CASE k # 0 /\ k <= m
      <4>1. k - 1 \in 0 .. m /\ k \in 0 .. m
        BY <3>2
      <4> QED BY <2>2, <3>2, <4>1
    <3>3. CASE k = m + 1
      <4>1. k - 1 = m /\ m \in 0 .. m + 1 /\ k # 0 /\ ~(k <= m)
        BY <3>3
      <4> QED BY <3>3, <4>1
    <3> QED BY <3>1, <3>2, <3>3
  <2>4. Halves(g, b, m + 1)
    <3>1. g = [k \in 0 .. m + 1 |-> g[k]]
      OBVIOUS
    <3> HIDE DEF g
    <3> QED BY <2>3, <3>1 DEF Halves
  <2> HIDE DEF g
  <2> QED BY <2>4
<1>3. Nat \subseteq S
  <2> HIDE DEF S
  <2> QED BY <1>1, <1>2, NatInd
<1> QED BY <1>3

\* A shift is the last of these halves.
LEMMA ShiftedIs ==
    ASSUME NEW b, NEW n \in Nat
    PROVE  \E f : Halves(f, b, n) /\ Shifted(b, n) = f[n]
<1> DEFINE f == CHOOSE g : Halves(g, b, n)
<1>1. Shifted(b, n) = f[n]
  BY DEF Shifted, Halves
<1>2. Halves(f, b, n)
  <2> HIDE DEF f
  <2> QED BY HalvesExist DEF f
<1> HIDE DEF f
<1> QED BY <1>1, <1>2

\* Two rows of halves agree as far as both go.
LEMMA HalvesAgree ==
    ASSUME NEW b, NEW n \in Nat, NEW m \in Nat, n <= m, NEW f, NEW g, Halves(f, b, n), Halves(g, b, m)
    PROVE  \A k \in 0 .. n : f[k] = g[k]
<1> DEFINE T == {k \in Nat : k <= n => f[k] = g[k]}
<1>1. /\ \A k \in 0 .. n : f[k] = IF k = 0 THEN b ELSE f[k - 1] \div 2
      /\ \A k \in 0 .. m : g[k] = IF k = 0 THEN b ELSE g[k - 1] \div 2
  BY DEF Halves
<1>2. 0 \in T
  BY <1>1
<1>3. ASSUME NEW k \in Nat, k \in T PROVE k + 1 \in T
  <2>1. k + 1 <= n => /\ k + 1 \in 0 .. n /\ k + 1 \in 0 .. m /\ k + 1 # 0 /\ (k + 1) - 1 = k
                      /\ k <= n
    OBVIOUS
  <2> QED BY <1>1, <1>3, <2>1
<1>4. Nat \subseteq T
  <2> HIDE DEF T
  <2> QED BY <1>2, <1>3, NatInd
<1> QED BY <1>4

\* A shift by one more.
LEMMA ShiftedOnce ==
    ASSUME NEW b \in Nat
    PROVE  /\ Shifted(b, 0) = b
           /\ \A n \in Nat : Shifted(b, n) \in Nat /\ Shifted(b, n + 1) = Shifted(b, n) \div 2
<1>1. Shifted(b, 0) = b
  <2>1. PICK f : Halves(f, b, 0) /\ Shifted(b, 0) = f[0]
    BY ShiftedIs
  <2> QED BY <2>1 DEF Halves
<1>2. ASSUME NEW n \in Nat PROVE Shifted(b, n + 1) = Shifted(b, n) \div 2
  <2>1. PICK f : Halves(f, b, n) /\ Shifted(b, n) = f[n]
    BY ShiftedIs
  <2>2. n + 1 \in Nat
    OBVIOUS
  <2>3. PICK g : Halves(g, b, n + 1) /\ Shifted(b, n + 1) = g[n + 1]
    BY <2>2, ShiftedIs
  <2>4. \A k \in 0 .. n : f[k] = g[k]
    BY <2>1, <2>2, <2>3, HalvesAgree
  <2>5. g[n + 1] = g[n] \div 2
    <3>1. \A k \in 0 .. n + 1 : g[k] = IF k = 0 THEN b ELSE g[k - 1] \div 2
      BY <2>3 DEF Halves
    <3>2. n + 1 \in 0 .. n + 1 /\ n + 1 # 0 /\ (n + 1) - 1 = n
      OBVIOUS
    <3> QED BY <3>1, <3>2
  <2>6. f[n] = g[n]
    BY <2>4
  <2> QED BY <2>1, <2>3, <2>5, <2>6
<1> DEFINE T == {n \in Nat : Shifted(b, n) \in Nat}
<1>3. 0 \in T
  BY <1>1
<1>4. ASSUME NEW n \in Nat, n \in T PROVE n + 1 \in T
  <2> DEFINE v == Shifted(b, n)
  <2>1. v \in Nat
    BY <1>4
  <2>2. Shifted(b, n + 1) = v \div 2
    BY <1>2
  <2> HIDE DEF v
  <2>3. v \div 2 \in Nat
    BY <2>1
  <2> QED BY <2>2, <2>3
<1>5. Nat \subseteq T
  <2> HIDE DEF T
  <2> QED BY <1>3, <1>4, NatInd
<1> QED BY <1>1, <1>2, <1>5

\* What gather_carrier_bits makes of the bits of one byte.
Reads(v, bit, n) == v = [k \in 0 .. n |-> IF k = 0 THEN 0 ELSE 2 * v[k - 1] + bit[k]]

\* Bits can be put together.
LEMMA ReadsExist ==
    ASSUME NEW bit, NEW n \in Nat
    PROVE  \E v : Reads(v, bit, n)
<1> DEFINE S == {m \in Nat : \E v : Reads(v, bit, m)}
<1>1. 0 \in S
  <2> DEFINE v == [k \in 0 .. 0 |-> 0]
  <2>1. Reads(v, bit, 0)
    BY DEF Reads
  <2> QED BY <2>1
<1>2. ASSUME NEW m \in Nat, m \in S
      PROVE  m + 1 \in S
  <2>1. PICK v : Reads(v, bit, m)
    BY <1>2
  <2> DEFINE g == [k \in 0 .. m + 1 |-> IF k <= m THEN v[k] ELSE 2 * v[m] + bit[m + 1]]
  <2>2. \A k \in 0 .. m : v[k] = IF k = 0 THEN 0 ELSE 2 * v[k - 1] + bit[k]
    BY <2>1 DEF Reads
  <2>3. \A k \in 0 .. m + 1 : g[k] = IF k = 0 THEN 0 ELSE 2 * g[k - 1] + bit[k]
    <3> SUFFICES ASSUME NEW k \in 0 .. m + 1
                 PROVE  g[k] = IF k = 0 THEN 0 ELSE 2 * g[k - 1] + bit[k]
      OBVIOUS
    <3>1. CASE k = 0
      BY <2>2, <3>1
    <3>2. CASE k # 0 /\ k <= m
      <4>1. k - 1 \in 0 .. m /\ k \in 0 .. m
        BY <3>2
      <4> QED BY <2>2, <3>2, <4>1
    <3>3. CASE k = m + 1
      <4>1. k - 1 = m /\ m \in 0 .. m + 1 /\ k # 0 /\ ~(k <= m)
        BY <3>3
      <4> QED BY <3>3, <4>1
    <3> QED BY <3>1, <3>2, <3>3
  <2>4. Reads(g, bit, m + 1)
    <3>1. g = [k \in 0 .. m + 1 |-> g[k]]
      OBVIOUS
    <3> HIDE DEF g
    <3> QED BY <2>3, <3>1 DEF Reads
  <2> HIDE DEF g
  <2> QED BY <2>4
<1>3. Nat \subseteq S
  <2> HIDE DEF S
  <2> QED BY <1>1, <1>2, NatInd
<1> QED BY <1>3

\* A number is its half twice, and its last bit.
LEMMA HalfAndRest ==
    ASSUME NEW n \in Nat
    PROVE  2 * (n \div 2) + (n % 2) = n /\ n % 2 \in {0, 1}
OBVIOUS

\* The bits of a byte, the most significant first, make the byte.
LEMMA ByteIsRead ==
    ASSUME NEW b, IsByte(b), NEW bit, NEW v, Reads(v, bit, BITS),
           \A k \in 1 .. BITS : bit[k] = Shifted(b, BITS - k) % 2
    PROVE  v[BITS] = b
<1>0. BITS \in Nat /\ BITS >= 1 /\ b \in Nat /\ Shifted(b, BITS) = 0
  BY CarrierAssumption DEF IsByte
<1>1. \A k \in 0 .. BITS : v[k] = IF k = 0 THEN 0 ELSE 2 * v[k - 1] + bit[k]
  BY DEF Reads
<1> DEFINE T == {k \in Nat : k <= BITS => v[k] = Shifted(b, BITS - k)}
<1>2. 0 \in T
  <2>1. v[0] = 0 /\ BITS - 0 = BITS
    BY <1>0, <1>1
  <2> QED BY <1>0, <2>1
<1>3. ASSUME NEW k \in Nat, k \in T PROVE k + 1 \in T
  <2> SUFFICES ASSUME k + 1 <= BITS PROVE v[k + 1] = Shifted(b, BITS - (k + 1))
    OBVIOUS
  <2> DEFINE n == BITS - (k + 1)
             x == Shifted(b, n)
  <2>1. n \in Nat /\ BITS - k = n + 1 /\ k + 1 \in 1 .. BITS /\ k + 1 \in 0 .. BITS /\ (k + 1) - 1 = k /\ k <= BITS
    BY <1>0
  <2>2. v[k + 1] = 2 * v[k] + bit[k + 1]
    BY <1>1, <2>1
  <2>3. v[k] = Shifted(b, n + 1) /\ bit[k + 1] = x % 2
    BY <1>3, <2>1
  <2> HIDE DEF n
  <2>4. x \in Nat /\ Shifted(b, n + 1) = x \div 2
    BY <1>0, <2>1, ShiftedOnce
  <2> HIDE DEF x
  <2>5. 2 * (x \div 2) + (x % 2) = x
    BY <2>4, HalfAndRest
  <2> QED BY <2>2, <2>3, <2>4, <2>5 DEF x, n
<1>4. Nat \subseteq T
  <2> HIDE DEF T
  <2> QED BY <1>2, <1>3, NatInd
<1>5. BITS - BITS = 0 /\ Shifted(b, 0) = b
  BY <1>0, ShiftedOnce
<1> QED BY <1>0, <1>4, <1>5

(***************************************************************************)
(* The bits of the samples.                                                *)
(***************************************************************************)
Gathered(skip, i) ==
    LET Bit(k) == samples[(skip + i - 1) * BITS + k] % 2
        Value[k \in 0 .. BITS] == IF k = 0 THEN 0 ELSE 2 * Value[k - 1] + Bit(k)
    IN  Value[BITS]
Bits(q) == [k \in 1 .. BITS |-> samples[q * BITS + k] % 2]

\* A byte the receiver gathers is its bits put together.
LEMMA GatheredIs ==
    ASSUME NEW skip \in Nat, NEW i \in Nat, i >= 1
    PROVE  \E v : Reads(v, Bits(skip + i - 1), BITS) /\ Gathered(skip, i) = v[BITS]
<1> DEFINE q == skip + i - 1
           Good(v) == v = [k \in 0 .. BITS |-> IF k = 0 THEN 0
                                               ELSE 2 * v[k - 1] + (samples[(skip + i - 1) * BITS + k] % 2)]
           w == CHOOSE v : Good(v)
<1>0. BITS \in Nat
  BY CarrierAssumption
<1>1. Gathered(skip, i) = w[BITS]
  BY DEF Gathered
<1>2. ASSUME NEW v PROVE Good(v) <=> Reads(v, Bits(q), BITS)
  <2>1. \A k \in 0 .. BITS : k # 0 => Bits(q)[k] = samples[(skip + i - 1) * BITS + k] % 2
    BY <1>0 DEF Bits
  <2>2. [k \in 0 .. BITS |-> IF k = 0 THEN 0 ELSE 2 * v[k - 1] + (samples[(skip + i - 1) * BITS + k] % 2)]
          = [k \in 0 .. BITS |-> IF k = 0 THEN 0 ELSE 2 * v[k - 1] + Bits(q)[k]]
    BY <2>1
  <2> QED BY <2>2 DEF Reads
<1>3. \E v : Reads(v, Bits(q), BITS)
  BY <1>0, ReadsExist
<1>4. \E v : Good(v)
  <2> HIDE DEF Good
  <2> QED BY <1>2, <1>3
<1>5. Good(w)
  <2> HIDE DEF Good
  <2> QED BY <1>4
<1>6. Reads(w, Bits(q), BITS)
  <2> HIDE DEF Good, w
  <2> QED BY <1>2, <1>5
<1> HIDE DEF w
<1> QED BY <1>1, <1>6

\* The first n bytes of list are in the samples.
Holds(list, n) ==
    \A p \in Nat : p < n * BITS => samples[p + 1] % 2 = BitOf(list, p)

\* If the samples have the bits of a byte, that byte is gathered.
LEMMA OneByteIsHeld ==
    ASSUME NEW list, NEW n \in Nat, Holds(list, n), NEW q \in Nat, q < n, IsByte(list[q + 1]),
           NEW v, Reads(v, Bits(q), BITS)
    PROVE  v[BITS] = list[q + 1]
<1>0. BITS \in Nat /\ BITS >= 1
  BY CarrierAssumption
<1>1. ASSUME NEW k \in 1 .. BITS
      PROVE  Bits(q)[k] = Shifted(list[q + 1], BITS - k) % 2
  <2> DEFINE p == q * BITS + (k - 1)
  <2>1. q * BITS \in Nat /\ k - 1 \in 0 .. BITS - 1
    BY <1>0
  <2>2. p \div BITS = q /\ p % BITS = k - 1
    BY <1>0, <2>1, QuotientOf
  <2>3. p < n * BITS
    <3>1. (q + 1) * BITS <= n * BITS
      BY <1>0, TimesMonotone
    <3>2. (q + 1) * BITS = q * BITS + BITS
      BY <1>0
    <3>3. n * BITS \in Nat
      BY <1>0
    <3> QED BY <1>0, <2>1, <3>1, <3>2, <3>3
  <2>4. p \in Nat /\ p + 1 = q * BITS + k
    BY <1>0, <2>1
  <2> HIDE DEF p
  <2>5. samples[p + 1] % 2 = BitOf(list, p)
    BY <2>3, <2>4 DEF Holds
  <2>6. BITS - 1 - (k - 1) = BITS - k
    BY <1>0
  <2>7. BitOf(list, p) = Shifted(list[q + 1], BITS - k) % 2
    BY <2>2, <2>6 DEF BitOf
  <2> QED BY <2>4, <2>5, <2>7 DEF Bits
<1> QED BY <1>1, ByteIsRead

Bytes(list, n) ==
    list \in Seq(Nat) /\ n <= Len(list) /\ \A i \in 1 .. Len(list) : IsByte(list[i])

\* What is gathered is what was put there.
LEMMA GatherIs ==
    ASSUME NEW list, NEW n \in Nat, Bytes(list, n), Holds(list, n),
           NEW skip \in Nat, NEW bytes \in Nat, skip + bytes <= n
    PROVE  gather_carrier_bits(skip, bytes) = SubSeq(list, skip + 1, skip + bytes)
<1>0. list \in Seq(Nat) /\ n <= Len(list) /\ \A i \in 1 .. Len(list) : IsByte(list[i])
  BY DEF Bytes
<1>1. gather_carrier_bits(skip, bytes) = [i \in 1 .. bytes |-> Gathered(skip, i)]
  BY DEF gather_carrier_bits, Gathered
<1>2. ASSUME NEW i \in 1 .. bytes
      PROVE  Gathered(skip, i) = list[skip + i]
  <2> DEFINE q == skip + i - 1
  <2>1. q \in Nat /\ q < n /\ q + 1 = skip + i /\ q + 1 \in 1 .. Len(list) /\ i \in Nat /\ i >= 1
    BY <1>0, <1>2
  <2>2. PICK v : Reads(v, Bits(q), BITS) /\ Gathered(skip, i) = v[BITS]
    BY <2>1, GatheredIs
  <2> HIDE DEF q
  <2>3. v[BITS] = list[q + 1]
    BY <1>0, <2>1, <2>2, OneByteIsHeld
  <2> QED BY <2>1, <2>2, <2>3
<1>3. \A i \in skip + 1 .. skip + bytes : list[i] \in Nat
  BY <1>0, ElementOfSeq
<1> DEFINE part == SubSeq(list, skip + 1, skip + bytes)
<1>4. part \in Seq(Nat) /\ Len(part) = bytes /\ \A i \in 1 .. bytes : part[i] = list[skip + i]
  <2>1. /\ part \in Seq(Nat)
        /\ Len(part) = IF skip + 1 <= skip + bytes THEN (skip + bytes) - (skip + 1) + 1 ELSE 0
        /\ \A i \in 1 .. (skip + bytes) - (skip + 1) + 1 : part[i] = list[(skip + 1) + i - 1]
    BY <1>3, SubSeqProperties
  <2> HIDE DEF part
  <2>2. (skip + bytes) - (skip + 1) + 1 = bytes
    OBVIOUS
  <2>3. Len(part) = bytes
    BY <2>1, <2>2
  <2>4. ASSUME NEW i \in 1 .. bytes PROVE part[i] = list[skip + i]
    <3>1. (skip + 1) + i - 1 = skip + i
      OBVIOUS
    <3> QED BY <2>1, <2>2, <3>1
  <2> QED BY <2>1, <2>3, <2>4
<1> HIDE DEF part
<1>5. part = [i \in 1 .. bytes |-> part[i]]
  BY <1>4, LenProperties
<1> QED BY <1>1, <1>2, <1>4, <1>5 DEF part

(***************************************************************************)
(* What is drawn.                                                          *)
(***************************************************************************)
LEMMA JobIs ==
    ASSUME NEW j, IsJob(j)
    PROVE  /\ j.mode \in {"password", "recipient"}
           /\ j.width \in Nat /\ j.width >= 1 /\ j.height \in Nat /\ j.height >= 1
           /\ j.width * j.height \in Nat /\ j.width * j.height >= 1
           /\ Held(j) = 3 * (j.width * j.height)
           /\ capacity(j) \in Nat /\ capacity(j) * BITS <= Held(j) /\ Held(j) < (capacity(j) + 1) * BITS
<1>1. /\ j.mode \in {"password", "recipient"}
      /\ j.width \in Nat /\ j.width >= 1 /\ j.height \in Nat /\ j.height >= 1
  <2>1. j.width \in Nat \ {0} /\ j.height \in Nat \ {0}
    BY DEF IsJob
  <2> QED BY <2>1 DEF IsJob
<1>2. j.width * j.height \in Nat /\ j.width * j.height >= 1
  <2>1. \A a, b \in Nat : a >= 1 /\ b >= 1 => a * b \in Nat /\ a * b >= 1
    BY SMT
  <2> QED BY <1>1, <2>1
<1>3. Held(j) = 3 * (j.width * j.height)
  <2>1. \A a, b \in Nat : 3 * a * b = 3 * (a * b)
    BY SMT
  <2> QED BY <1>1, <2>1 DEF Held, CHANNELS
<1> DEFINE n == Held(j)
           k == n \div BITS
<1>4. n \in Nat /\ BITS \in Nat /\ BITS >= 1
  BY <1>2, <1>3, CarrierAssumption
<1> HIDE DEF n
<1>5. k \in Nat /\ k * BITS <= n /\ n < (k + 1) * BITS
  <2>1. k \in Int /\ n % BITS \in 0 .. BITS - 1 /\ n = k * BITS + (n % BITS)
    BY <1>4, Division
  <2> DEFINE r == n % BITS
  <2>2. k \in Nat
    BY <1>4, SMT
  <2> HIDE DEF k, r
  <2>3. (k + 1) * BITS = k * BITS + BITS /\ k * BITS \in Int
    BY <1>4, <2>1
  <2>4. n = k * BITS + r /\ r \in 0 .. BITS - 1
    BY <2>1 DEF r
  <2> QED BY <1>4, <2>2, <2>3, <2>4
<1>6. capacity(j) = k
  BY DEF capacity, n
<1> HIDE DEF k
<1> QED BY <1>1, <1>2, <1>3, <1>5, <1>6 DEF n

\* While samples are missing, the next one is of a pixel of the container.
LEMMA PixelIs ==
    ASSUME IsJob(job), Len(samples) \in Nat, Len(samples) < Held(job)
    PROVE  /\ Position \div CHANNELS + 1 \in 1 .. job.width * job.height
           /\ (Position % CHANNELS) + 1 \in 1 .. 3
           /\ Pixel.x \in 0 .. job.width - 1 /\ Pixel.y \in 0 .. job.height - 1
<1> DEFINE n == Len(samples)
           w == job.width
           h == job.height
           p == n \div 3
<1>1. /\ w \in Nat /\ w >= 1 /\ h \in Nat /\ h >= 1 /\ w * h \in Nat /\ n < 3 * (w * h) /\ n \in Nat
  BY JobIs
<1> HIDE DEF w, h, n
<1>2. p \in 0 .. w * h - 1 /\ n % 3 \in 0 .. 2
  BY <1>1
<1> HIDE DEF p
<1>3. p % w \in 0 .. w - 1 /\ p \div w \in 0 .. h - 1
  BY <1>1, <1>2, OfRow
<1>4. Pixel.x = p % w /\ Pixel.y = p \div w
  BY DEF Pixel, Position, CHANNELS, n, w, h, p
<1>5. p + 1 \in 1 .. w * h /\ (n % 3) + 1 \in 1 .. 3
  BY <1>1, <1>2
<1> QED BY <1>3, <1>4, <1>5 DEF Position, CHANNELS, n, w, h, p

\* A coordinate falls into a cell of the grid.
LEMMA CellIs ==
    ASSUME NEW w \in Nat, w >= 1, NEW x \in 0 .. w - 1
    PROVE  (x * CELLS) \div w \in 0 .. CELLS - 1
<1> DEFINE c == CELLS
           a == x * c
           k == a \div w
<1>1. c \in Nat /\ c >= 1 /\ a \in Nat
  <2>1. c \in Nat /\ c >= 1
    BY CarrierAssumption
  <2> QED BY <2>1, SMT
<1> HIDE DEF c
<1>2. a + c <= w * c
  <2>1. x + 1 \in Nat /\ w \in Nat /\ x + 1 <= w
    OBVIOUS
  <2>2. (x + 1) * c <= w * c
    BY <1>1, <2>1, TimesMonotone
  <2>3. (x + 1) * c = x * c + c
    BY <1>1
  <2> QED BY <2>2, <2>3
<1> HIDE DEF a
<1>3. k \in Int /\ a % w \in 0 .. w - 1 /\ a = k * w + (a % w)
  BY <1>1, Division
<1>4. k \in Nat
  BY <1>1, SMT
<1> DEFINE r == a % w
<1> HIDE DEF k, r
<1>5. a = k * w + r /\ r \in 0 .. w - 1
  BY <1>3 DEF r
<1>6. k < c
  <2> SUFFICES ASSUME c <= k PROVE FALSE
    BY <1>1, <1>4
  <2>1. c * w <= k * w
    BY <1>1, <1>4, TimesMonotone
  <2>2. c * w = w * c
    BY <1>1
  <2>3. k * w \in Int /\ w * c \in Int
    BY <1>1, <1>4
  <2> QED BY <1>1, <1>2, <1>5, <2>1, <2>2, <2>3
<1> QED BY <1>1, <1>4, <1>6 DEF k, a, c

\* The cells around a pixel are in the grid, its own among them.
LEMMA AroundIsInGrid ==
    ASSUME NEW j, IsJob(j), NEW x \in 0 .. j.width - 1, NEW y \in 0 .. j.height - 1
    PROVE  Around(j, x, y) \subseteq Grid /\ CellOf(j, x, y) \in Around(j, x, y)
<1>1. /\ (x * CELLS) \div j.width \in 0 .. CELLS - 1
      /\ (y * CELLS) \div j.height \in 0 .. CELLS - 1
  BY JobIs, CellIs
<1> DEFINE a == (x * CELLS) \div j.width
           b == (y * CELLS) \div j.height
<1>2. CELLS \in Nat
  BY CarrierAssumption
<1>3. CellOf(j, x, y) = <<a, b>>
  BY DEF CellOf
<1> HIDE DEF a, b
<1>4. Around(j, x, y) = {<<a + ox, b + oy>> : ox, oy \in -1 .. 1}
  BY <1>3 DEF Around
<1>5. ASSUME NEW ox \in -1 .. 1, NEW oy \in -1 .. 1
      PROVE  <<a + ox, b + oy>> \in Grid
  <2>1. a + ox \in -1 .. CELLS /\ b + oy \in -1 .. CELLS
    BY <1>1, <1>2 DEF a, b
  <2> QED BY <2>1 DEF Grid
<1>6. <<a, b>> \in Around(j, x, y)
  <2>1. a + 0 = a /\ b + 0 = b /\ 0 \in -1 .. 1
    BY <1>1, <1>2 DEF a, b
  <2>2. <<a + 0, b + 0>> \in {<<a + ox, b + oy>> : ox, oy \in -1 .. 1}
    BY <2>1
  <2> QED BY <1>4, <2>1, <2>2
<1> QED BY <1>3, <1>4, <1>5, <1>6

\* One of the members has the least value.
LEMMA LeastOf ==
    ASSUME NEW S, S # {}, NEW f \in [S -> Nat]
    PROVE  \E c \in S : \A d \in S : f[c] <= f[d]
<1> DEFINE T == {f[c] : c \in S}
<1>1. T \subseteq Nat /\ T # {}
  OBVIOUS
<1>2. PICK m \in T : \A n \in T : m <= n
  <2> HIDE DEF T
  <2> QED BY <1>1, NatMin
<1>3. PICK c \in S : f[c] = m
  BY <1>2
<1>4. \A d \in S : f[c] <= f[d]
  BY <1>2, <1>3
<1> QED BY <1>4

\* Of several that are least the least, and of those.
Foremost(S, f, g, h, c) ==
    \A d \in S :
        \/ f[c] < f[d]
        \/ /\ f[c] = f[d]
           /\ g[c] < g[d] \/ (g[c] = g[d] /\ h[c] <= h[d])

\* One is the foremost by the first value, the second and the third.
LEMMA LeastOfThree ==
    ASSUME NEW S, S # {}, NEW f \in [S -> Nat], NEW g \in [S -> Nat], NEW h \in [S -> Nat]
    PROVE  \E c \in S : Foremost(S, f, g, h, c)
<1>1. PICK a \in S : \A d \in S : f[a] <= f[d]
  BY LeastOf
<1> DEFINE A == {c \in S : f[c] = f[a]}
           gA == [c \in A |-> g[c]]
<1>2. PICK b \in A : \A d \in A : gA[b] <= gA[d]
  <2>1. A # {} /\ gA \in [A -> Nat]
    OBVIOUS
  <2> HIDE DEF A, gA
  <2> QED BY <2>1, LeastOf
<1> DEFINE B == {c \in A : g[c] = g[b]}
           hB == [c \in B |-> h[c]]
<1>3. PICK c \in B : \A d \in B : hB[c] <= hB[d]
  <2>1. B # {} /\ hB \in [B -> Nat]
    BY <1>2
  <2> HIDE DEF B, hB
  <2> QED BY <2>1, LeastOf
<1>4. c \in S /\ f[c] = f[a] /\ g[c] = g[b]
  BY <1>3
<1>5. ASSUME NEW d \in S
      PROVE  \/ f[c] < f[d]
             \/ /\ f[c] = f[d]
                /\ g[c] < g[d] \/ (g[c] = g[d] /\ h[c] <= h[d])
  <2>0. f[d] \in Nat /\ f[a] \in Nat /\ g[d] \in Nat /\ g[b] \in Nat
    BY <1>1, <1>2
  <2>1. f[a] <= f[d]
    BY <1>1
  <2>2. CASE f[a] = f[d]
    <3>1. d \in A /\ g[b] <= g[d]
      BY <1>2, <2>2
    <3>2. g[b] = g[d] => h[c] <= h[d]
      <4>1. g[b] = g[d] => d \in B
        BY <3>1
      <4> QED BY <1>3, <4>1
    <3> QED BY <1>4, <2>0, <2>2, <3>1, <3>2
  <2>3. CASE f[a] # f[d]
    BY <1>4, <2>0, <2>1, <2>3
  <2> QED BY <2>2, <2>3
<1> QED BY <1>4, <1>5 DEF Foremost

\* A square is not negative.
LEMMA SquareIsNat ==
    ASSUME NEW n \in Int
    PROVE  n * n \in Nat
BY SMT

\* Distances are naturals.
LEMMA DistanceIs ==
    ASSUME NEW j, IsJob(j), NEW x \in Nat, NEW y \in Nat, NEW cell \in Grid
    PROVE  Distance(j, x, y, cell) \in Nat /\ j.field[cell].level \in Int
<1> DEFINE point == j.field[cell]
           dx == x * CELLS * UNITS - (cell[1] * UNITS + point.x) * j.width
           dy == y * CELLS * UNITS - (cell[2] * UNITS + point.y) * j.height
<1>1. point.x \in Int /\ point.y \in Int /\ point.level \in Int
  <2>1. j.field \in Fields
    BY DEF IsJob
  <2>2. UNITS \in Nat
    BY CarrierAssumption
  <2> DEFINE L == -(CELL_AMPLITUDE \div 2) .. CELL_AMPLITUDE \div 2 - 1
  <2>3. point \in [x : 0 .. UNITS - 1, y : 0 .. UNITS - 1, level : L]
    BY <2>1 DEF Fields
  <2>4. L \subseteq Int
    BY DEF CELL_AMPLITUDE
  <2> HIDE DEF L, point
  <2>5. point.x \in 0 .. UNITS - 1 /\ point.y \in 0 .. UNITS - 1 /\ point.level \in L
    BY <2>3
  <2>6. 0 .. UNITS - 1 \subseteq Int
    OBVIOUS
  <2> QED BY <2>4, <2>5, <2>6
<1>2. CELLS \in Nat /\ UNITS \in Nat /\ j.width \in Nat /\ j.height \in Nat
      /\ cell[1] \in Int /\ cell[2] \in Int
  BY JobIs, CarrierAssumption DEF Grid
<1>3. \A a, b \in Int : a * b \in Int /\ a - b \in Int /\ a + b \in Int
  OBVIOUS
<1> HIDE DEF point
<1>4. dx \in Int /\ dy \in Int
  <2>1. x * CELLS * UNITS \in Int /\ y * CELLS * UNITS \in Int
    BY <1>2, <1>3
  <2>2. cell[1] * UNITS + point.x \in Int /\ cell[2] * UNITS + point.y \in Int
    BY <1>1, <1>2, <1>3
  <2>3. (cell[1] * UNITS + point.x) * j.width \in Int /\ (cell[2] * UNITS + point.y) * j.height \in Int
    BY <1>2, <1>3, <2>2
  <2> QED BY <1>3, <2>1, <2>3
<1>5. Distance(j, x, y, cell) = (dx * j.height) * (dx * j.height) + (dy * j.width) * (dy * j.width)
  BY DEF Distance, point
<1> HIDE DEF dx, dy
<1>6. dx * j.height \in Int /\ dy * j.width \in Int
  BY <1>2, <1>3, <1>4
<1>7. (dx * j.height) * (dx * j.height) \in Nat /\ (dy * j.width) * (dy * j.width) \in Nat
  BY <1>6, SquareIsNat
<1> QED BY <1>1, <1>5, <1>7 DEF point

\* There is a nearest point.
LEMMA NearestIs ==
    ASSUME NEW j, IsJob(j), NEW x \in 0 .. j.width - 1, NEW y \in 0 .. j.height - 1
    PROVE  Nearest(j, x, y) \in Grid
<1> DEFINE S == Around(j, x, y)
           f == [c \in S |-> Distance(j, x, y, c)]
           g == [c \in S |-> c[2] + 1]
           h == [c \in S |-> c[1] + 1]
           Best(c) == \A d \in S :
               \/ Distance(j, x, y, c) < Distance(j, x, y, d)
               \/ /\ Distance(j, x, y, c) = Distance(j, x, y, d)
                  /\ c[2] < d[2] \/ (c[2] = d[2] /\ c[1] <= d[1])
<1>1. S \subseteq Grid /\ S # {} /\ x \in Nat /\ y \in Nat /\ CELLS \in Nat
  BY AroundIsInGrid, CarrierAssumption
<1>2. Nearest(j, x, y) = CHOOSE c \in S : Best(c)
  BY DEF Nearest
<1> HIDE DEF S
<1>3. ASSUME NEW c \in S
      PROVE  c[1] \in Int /\ c[2] \in Int /\ c[1] + 1 \in Nat /\ c[2] + 1 \in Nat
  BY <1>1, <1>3 DEF Grid
<1>4. f \in [S -> Nat] /\ g \in [S -> Nat] /\ h \in [S -> Nat]
  BY <1>1, <1>3, DistanceIs
<1>5. PICK c \in S : Foremost(S, f, g, h, c)
  <2> HIDE DEF f, g, h
  <2> QED BY <1>1, <1>4, LeastOfThree
<1>6. Best(c)
  <2> SUFFICES ASSUME NEW d \in S
               PROVE  \/ Distance(j, x, y, c) < Distance(j, x, y, d)
                      \/ /\ Distance(j, x, y, c) = Distance(j, x, y, d)
                         /\ c[2] < d[2] \/ (c[2] = d[2] /\ c[1] <= d[1])
    OBVIOUS
  <2>1. \/ f[c] < f[d]
        \/ /\ f[c] = f[d]
           /\ g[c] < g[d] \/ (g[c] = g[d] /\ h[c] <= h[d])
    BY <1>5 DEF Foremost
  <2>2. f[c] = Distance(j, x, y, c) /\ f[d] = Distance(j, x, y, d)
    OBVIOUS
  <2>3. g[c] = c[2] + 1 /\ g[d] = d[2] + 1 /\ h[c] = c[1] + 1 /\ h[d] = d[1] + 1
    OBVIOUS
  <2>4. c[1] \in Int /\ c[2] \in Int /\ d[1] \in Int /\ d[2] \in Int
    BY <1>3
  <2> HIDE DEF f, g, h
  <2> QED BY <2>1, <2>2, <2>3, <2>4
<1>7. Nearest(j, x, y) \in S
  <2> HIDE DEF Best
  <2> QED BY <1>2, <1>6
<1> QED BY <1>1, <1>7

\* A level that leaves room for the grain.
InRange(n) == n \in Int /\ 2400 <= n /\ n <= 23100

\* The two tints of a level in the range stay in the range.
LEMMA Tints ==
    ASSUME NEW n, InRange(n)
    PROVE  InRange((n * 98) \div 100 + 300) /\ InRange((n * 94) \div 100 + 800)
<1>1. n \in Int /\ 2400 <= n /\ n <= 23100
  BY DEF InRange
<1>2. InRange((n * 98) \div 100 + 300)
  BY <1>1, SMT DEF InRange
<1>3. InRange((n * 94) \div 100 + 800)
  BY <1>1, SMT DEF InRange
<1> QED BY <1>2, <1>3

\* The base of every sample is in the range, for whatever ridge.
LEMMA BaseIs ==
    ASSUME IsJob(job), Len(samples) \in Nat, Len(samples) < Held(job), NEW r \in Int
    PROVE  InRange(Base(r))
<1> DEFINE x == Pixel.x
           y == Pixel.y
           cell == Nearest(job, x, y)
           v == MID_LEVEL + job.field[cell].level + r - RIDGE_BIAS
           level == Clamp(v, LEVEL_FLOOR, LEVEL_CEILING)
           i == (Position % CHANNELS) + 1
<1>1. i \in 1 .. 3 /\ x \in 0 .. job.width - 1 /\ y \in 0 .. job.height - 1
  BY PixelIs
<1>2. cell \in Grid /\ x \in Nat /\ y \in Nat
  <2> HIDE DEF x, y
  <2> QED BY <1>1, NearestIs
<1>3. job.field[cell].level \in Int
  <2> HIDE DEF x, y, cell
  <2> QED BY <1>2, DistanceIs
<1> DEFINE a == (level * 98) \div 100 + 300
           b == (level * 94) \div 100 + 800
<1>4. Base(r) = <<level, a, b>>[i]
  BY DEF Base, base_levels
<1> HIDE DEF cell, x, y, i
<1>5. InRange(level)
  <2>1. v \in Int
    BY <1>3 DEF MID_LEVEL, RIDGE_BIAS
  <2> HIDE DEF v
  <2> QED BY <2>1 DEF InRange, Clamp, LEVEL_FLOOR, LEVEL_CEILING
<1> HIDE DEF level
<1>6. InRange(a) /\ InRange(b)
  BY <1>5, Tints
<1> HIDE DEF a, b
<1>7. <<level, a, b>>[1] = level /\ <<level, a, b>>[2] = a /\ <<level, a, b>>[3] = b
  OBVIOUS
<1>8. i = 1 \/ i = 2 \/ i = 3
  BY <1>1
<1> QED BY <1>4, <1>5, <1>6, <1>7, <1>8

\* Around a base in the range a value with either bit can be drawn.
LEMMA BothAreDrawn ==
    ASSUME NEW base, InRange(base), NEW bit \in 0 .. 1
    PROVE  draw_with_lsb(base, bit) # {}
<1>1. PICK g \in Grain : g + 100 \in Grain /\ -LEVEL_FLOOR <= g /\ g + 100 <= 25500 - LEVEL_CEILING
  BY CarrierAssumption
<1> DEFINE a == base + g
           b == base + (g + 100)
<1>2. g \in Int /\ base \in Int /\ 2400 <= base /\ base <= 23100 /\ -2400 <= g /\ g + 100 <= 2400
  BY <1>1, CarrierAssumption DEF LEVEL_FLOOR, LEVEL_CEILING, InRange
<1>3. a \in Int /\ 0 <= a /\ b = a + 100 /\ b <= 25500
  BY <1>2
<1>4. a \div 100 \in draw_free(base) /\ b \div 100 \in draw_free(base)
  <2>1. Clamp(a, 0, 25500) = a /\ Clamp(b, 0, 25500) = b
    <3> HIDE DEF a, b
    <3> QED BY <1>3 DEF Clamp
  <2> QED BY <1>1, <2>1 DEF draw_free
<1> HIDE DEF a, b
<1>5. b \div 100 = a \div 100 + 1 /\ a \div 100 \in Nat
  BY <1>3
<1>6. (a \div 100) % 2 = bit \/ (b \div 100) % 2 = bit
  BY <1>5
<1>7. CASE (a \div 100) % 2 = bit
  BY <1>4, <1>7 DEF draw_with_lsb
<1>8. CASE (b \div 100) % 2 = bit
  BY <1>4, <1>8 DEF draw_with_lsb
<1> QED BY <1>6, <1>7, <1>8

(***************************************************************************)
(* What is read.                                                           *)
(***************************************************************************)
LEMMA CarriedIs ==
    ASSUME IsJob(job)
    PROVE  /\ Carried(job) \in Seq(Nat) /\ Len(Carried(job)) = capacity(job)
           /\ \A i \in 1 .. Len(Carried(job)) : IsByte(Carried(job)[i])
<1> DEFINE c == capacity(job)
           noise == job.noise
           list == SubSeq(noise, 1, c)
<1>1. c \in Nat
  BY JobIs
<1>2. noise \in Seq(Nat) /\ Len(noise) >= c /\ \A i \in DOMAIN noise : IsByte(noise[i])
  BY DEF IsJob
<1> HIDE DEF c, noise
<1>3. Len(noise) \in Nat /\ DOMAIN noise = 1 .. Len(noise) /\ \A i \in 1 .. c : i \in 1 .. Len(noise)
  BY <1>1, <1>2
<1>4. \A i \in 1 .. c : noise[i] \in Nat
  BY <1>2, <1>3
<1>5. /\ list \in Seq(Nat)
      /\ Len(list) = IF 1 <= c THEN c - 1 + 1 ELSE 0
      /\ \A i \in 1 .. c - 1 + 1 : list[i] = noise[1 + i - 1]
  BY <1>1, <1>4, SubSeqProperties
<1> HIDE DEF list
<1>6. Len(list) = c /\ c - 1 + 1 = c
  BY <1>1, <1>5
<1>7. ASSUME NEW i \in 1 .. c PROVE IsByte(list[i])
  <2>1. list[i] = noise[i]
    BY <1>5, <1>6
  <2> QED BY <1>2, <1>3, <2>1
<1> QED BY <1>5, <1>6, <1>7 DEF Carried, list, noise, c

\* The receiver cuts the message out of the padding.
LEMMA MessageComesOut ==
    ASSUME IsJob(job)
    PROVE  LET buffer == Buffer(job)
           IN  /\ buffer.announced <= Len(buffer.rest)
               /\ SubSeq(buffer.rest, 1, buffer.announced) = job.msg
<1> DEFINE msg == job.msg
           m == Len(msg)
           n == payload_capacity(job)
           pad == [i \in 1 .. n - m |-> "padding"]
           S == STRING \cup {"padding"}
           rest == msg \o pad
<1>1. msg \in Seq(STRING) /\ m \in 1 .. n
  BY DEF IsJob
<1>2. n \in Int
  BY JobIs, CarrierAssumption DEF payload_capacity, Sealed
<1>3. Buffer(job).announced = m /\ Buffer(job).rest = rest
  BY DEF Buffer
<1> HIDE DEF msg, n
<1>4. msg \in Seq(S)
  BY <1>1, SeqMonotonic
<1>5. n - m \in Nat /\ m \in Nat
  BY <1>1, <1>2
<1>6. pad \in Seq(S) /\ Len(pad) = n - m
  <2> DEFINE k == n - m
  <2>1. k \in Nat
    BY <1>5
  <2> HIDE DEF k
  <2>2. [i \in 1 .. k |-> "padding"] \in Seq(S) /\ Len([i \in 1 .. k |-> "padding"]) = k
    BY <2>1
  <2> QED BY <2>2 DEF k
<1> HIDE DEF pad, S
<1>7. /\ rest \in Seq(S) /\ Len(rest) = m + (n - m)
      /\ \A i \in 1 .. m : rest[i] = msg[i]
  <2>1. JoinOf(rest, msg, pad, S)
    BY <1>4, <1>6, Joined
  <2> QED BY <1>4, <1>6, <2>1 DEF JoinOf
<1> HIDE DEF rest
<1>8. m <= Len(rest)
  BY <1>1, <1>2, <1>7
<1> DEFINE part == SubSeq(rest, 1, m)
<1>9. part \in Seq(S) /\ Len(part) = m /\ \A i \in 1 .. m : part[i] = msg[i]
  <2>1. \A i \in 1 .. m : rest[i] \in S
    BY <1>5, <1>7, <1>8, ElementOfSeq
  <2>2. /\ part \in Seq(S)
        /\ Len(part) = IF 1 <= m THEN m - 1 + 1 ELSE 0
        /\ \A i \in 1 .. m - 1 + 1 : part[i] = rest[1 + i - 1]
    BY <1>5, <2>1, SubSeqProperties
  <2> HIDE DEF part
  <2>3. m - 1 + 1 = m
    BY <1>5
  <2>4. Len(part) = m
    BY <1>1, <1>5, <2>2, <2>3
  <2>5. ASSUME NEW i \in 1 .. m PROVE part[i] = msg[i]
    <3>1. 1 + i - 1 = i
      OBVIOUS
    <3> QED BY <1>7, <2>2, <2>3, <3>1
  <2> QED BY <2>2, <2>4, <2>5
<1> HIDE DEF part
<1>10. part = msg
  BY <1>4, <1>9, SeqEqual DEF m
<1> QED BY <1>3, <1>8, <1>10 DEF part, msg

\* A container that holds its carrier is read in its own mode, and in no other.
LEMMA ReadIsRight ==
    ASSUME IsJob(job), Len(samples) = Held(job), Holds(Carried(job), capacity(job)),
           NEW mode \in {"password", "recipient"}
    PROVE  ReadGenerated(mode) = IF mode = job.mode THEN job.msg ELSE Rejected
<1>1. CASE mode # job.mode
  BY <1>1 DEF ReadGenerated, KeyIsRight
<1>2. CASE mode = job.mode
  <2> DEFINE list == Carried(job)
             c == capacity(job)
             k == key_transport_overhead_bytes(mode)
             available == IF Len(samples) \div BITS < k THEN 0 ELSE Len(samples) \div BITS - k
             opens == /\ available > TAG_BYTES + LENGTH_HEADER_BYTES
                      /\ KeyIsRight(mode)
                      /\ gather_carrier_bits(k, available) = SubSeq(list, c - Sealed(job) + 1, c)
  <2>1. c \in Nat /\ k \in Nat /\ TAG_BYTES \in Nat /\ LENGTH_HEADER_BYTES \in Nat
    BY JobIs, CarrierAssumption
  <2>2. Len(samples) \div BITS = c
    BY DEF capacity
  <2>3. Sealed(job) = c - k
    BY <1>2 DEF Sealed
  <2>4. c - k > TAG_BYTES + LENGTH_HEADER_BYTES
    <3>1. 1 <= payload_capacity(job)
      <4>1. payload_capacity(job) \in Int
        BY <2>1, <2>3 DEF payload_capacity
      <4>2. Len(job.msg) \in 1 .. payload_capacity(job)
        BY DEF IsJob
      <4> QED BY <4>1, <4>2
    <3>2. payload_capacity(job) = (c - k) - TAG_BYTES - LENGTH_HEADER_BYTES
      BY <2>3 DEF payload_capacity
    <3> HIDE DEF c, k
    <3> QED BY <2>1, <3>1, <3>2
  <2>5. list \in Seq(Nat) /\ Len(list) = c /\ (\A i \in 1 .. Len(list) : IsByte(list[i])) /\ Holds(list, c)
    BY CarriedIs
  <2> HIDE DEF list, c, k
  <2>6. available = c - k
    BY <2>1, <2>2, <2>4
  <2>7. ASSUME NEW skip \in Nat, NEW bytes \in Nat, skip + bytes <= c
        PROVE  gather_carrier_bits(skip, bytes) = SubSeq(list, skip + 1, skip + bytes)
    <3>1. Bytes(list, c) /\ Holds(list, c)
      BY <2>1, <2>5 DEF Bytes
    <3> QED BY <2>1, <2>7, <3>1, GatherIs
  <2>8. gather_carrier_bits(0, k) = SubSeq(list, 1, k)
    <3>1. gather_carrier_bits(0, k) = SubSeq(list, 0 + 1, 0 + k)
      BY <2>1, <2>4, <2>7
    <3>2. 0 + 1 = 1 /\ 0 + k = k
      BY <2>1
    <3> QED BY <3>1, <3>2
  <2>9. gather_carrier_bits(k, c - k) = SubSeq(list, c - Sealed(job) + 1, c)
    <3>1. c - k \in Nat /\ k + (c - k) = c /\ k + (c - k) <= c /\ c - (c - k) + 1 = k + 1
      BY <2>1, <2>4
    <3>2. gather_carrier_bits(k, c - k) = SubSeq(list, k + 1, k + (c - k))
      BY <2>1, <2>7, <3>1
    <3> QED BY <2>3, <3>1, <3>2
  <2>10. KeyIsRight(mode)
    BY <1>2, <2>8 DEF KeyIsRight, list, k
  <2>11. opens
    BY <2>4, <2>6, <2>9, <2>10
  <2>12. ReadGenerated(mode) =
           IF opens /\ Buffer(job).announced <= Len(Buffer(job).rest)
           THEN SubSeq(Buffer(job).rest, 1, Buffer(job).announced) ELSE Rejected
    BY DEF ReadGenerated, list, c, k
  <2> HIDE DEF opens
  <2>13. /\ Buffer(job).announced <= Len(Buffer(job).rest)
         /\ SubSeq(Buffer(job).rest, 1, Buffer(job).announced) = job.msg
    BY MessageComesOut
  <2> QED BY <1>2, <2>11, <2>12, <2>13
<1> QED BY <1>1, <1>2

(***************************************************************************)
(* How far a container is drawn.                                           *)
(***************************************************************************)
Put(j, list) ==
    /\ list \in Seq(Int)
    /\ \A p \in Nat : p < Len(list) /\ p < capacity(j) * BITS => list[p + 1] % 2 = BitOf(Carried(j), p)
DrawnSoFar ==
    /\ job \in Jobs \cup {NoJob}
    /\ reader # "none" => pc = "answered"
    /\ IF job = NoJob THEN pc \notin {"draw", "answered"}
       ELSE /\ Put(job, samples)
            /\ pc = "draw" => Len(samples) < Held(job)
            /\ pc \notin {"draw", "refused"} => Len(samples) = Held(job)
    /\ pc = "answered" /\ reader # "none" => got = IF reader = job.mode THEN job.msg ELSE Rejected

\* What is being drawn is a job.
LEMMA JobsAre ==
    ASSUME job \in Jobs \cup {NoJob}
    PROVE  job # NoJob => IsJob(job)
BY FileAssumption

\* No job is the absence of one.
LEMMA NoJobIsNone == \A j \in Jobs : j # NoJob
<1> SUFFICES ASSUME NEW j \in Jobs, j = NoJob PROVE FALSE
  OBVIOUS
<1>1. j.mode \in {"password", "recipient"}
  BY FileAssumption DEF IsJob
<1> QED BY <1>1 DEF NoJob

\* Nothing was drawn yet.
LEMMA DrawnInit == Init => DrawnSoFar
<1> SUFFICES ASSUME Init PROVE DrawnSoFar
  OBVIOUS
<1>1. PICK r \in Requests : /\ CarrierInit(IF r[1] = <<>> THEN Jobs ELSE {NoJob})
                            /\ pc = IF r[1] = <<>> THEN "draw" ELSE "decode"
  BY DEF Init
<1>2. samples = <<>> /\ reader = "none" /\ job \in IF r[1] = <<>> THEN Jobs ELSE {NoJob}
  BY <1>1 DEF CarrierInit
<1>3. CASE r[1] = <<>>
  <2>1. job \in Jobs /\ job # NoJob /\ pc = "draw"
    BY <1>1, <1>2, <1>3, NoJobIsNone
  <2>2. Len(samples) = 0 /\ samples \in Seq(Int)
    BY <1>2
  <2>3. Put(job, samples)
    <3>1. \A p \in Nat : ~(p < 0)
      OBVIOUS
    <3> QED BY <2>2, <3>1 DEF Put
  <2>4. 0 < Held(job)
    <3>1. IsJob(job)
      BY <2>1, FileAssumption
    <3> QED BY <3>1, JobIs
  <2> QED BY <1>2, <2>1, <2>2, <2>3, <2>4 DEF DrawnSoFar
<1>4. CASE r[1] # <<>>
  BY <1>1, <1>2, <1>4 DEF DrawnSoFar
<1> QED BY <1>3, <1>4

\* A free draw gives a sample.
LEMMA FreeIs ==
    ASSUME NEW base \in Int, NEW value \in draw_free(base)
    PROVE  value \in Int
<1>1. PICK g \in Grain : value = Clamp(base + g, 0, 25500) \div 100
  BY DEF draw_free
<1>2. base + g \in Int
  BY CarrierAssumption
<1> DEFINE v == base + g
<1> HIDE DEF v
<1>3. Clamp(v, 0, 25500) \in Int
  BY <1>2 DEF Clamp, v
<1> QED BY <1>1, <1>3 DEF v

\* One more sample, with the bit of its position.
LEMMA DrawSampleKeeps ==
    ASSUME DrawnSoFar, pc = "draw", DrawSample, pc' = IF Drawn' THEN "write" ELSE "draw"
    PROVE  DrawnSoFar'
<1>1. /\ pc = "draw" /\ ~Drawn /\ job' = job /\ reader' = reader /\ got' = got
      /\ pc' = IF Drawn' THEN "write" ELSE "draw"
  BY DEF DrawSample
<1>2. /\ job \in Jobs \cup {NoJob} /\ job # NoJob /\ IsJob(job) /\ reader = "none"
      /\ Put(job, samples) /\ Len(samples) < Held(job)
  BY <1>1, JobsAre DEF DrawnSoFar
<1>3. samples \in Seq(Int) /\ Len(samples) \in Nat
  BY <1>2 DEF Put
<1> DEFINE n == Len(samples)
           base == Base(job.ridge[Position \div CHANNELS + 1])
<1>4. PICK value \in IF Position < capacity(job) * BITS
                     THEN draw_with_lsb(base, BitOf(Carried(job), Position)) ELSE draw_free(base) :
        samples' = Append(samples, value)
  BY DEF DrawSample
<1>5. base \in Int
  <2>1. Position \div CHANNELS + 1 \in 1 .. job.width * job.height
    BY <1>2, <1>3, PixelIs
  <2> DEFINE i == Position \div CHANNELS + 1
             r == job.ridge[i]
  <2>2. r \in Int
    <3>1. job.ridge \in [1 .. job.width * job.height -> 0 .. RIDGE_CEILING]
      BY <1>2 DEF IsJob
    <3> HIDE DEF i
    <3>2. r \in 0 .. RIDGE_CEILING
      BY <2>1, <3>1 DEF i
    <3>3. RIDGE_CEILING \in Int
      BY DEF RIDGE_CEILING
    <3> QED BY <3>2, <3>3
  <2> HIDE DEF r
  <2>3. InRange(Base(r))
    BY <1>2, <1>3, <2>2, BaseIs
  <2> QED BY <2>3 DEF InRange, r
<1> HIDE DEF base
<1>6. value \in Int /\ (n < capacity(job) * BITS => value % 2 = BitOf(Carried(job), n))
  <2>1. Position = n
    BY DEF Position
  <2>2. CASE Position < capacity(job) * BITS
    <3>1. value \in draw_free(base) /\ value % 2 = BitOf(Carried(job), n)
      BY <1>4, <2>1, <2>2 DEF draw_with_lsb
    <3> QED BY <1>5, <3>1, FreeIs
  <2>3. CASE ~(Position < capacity(job) * BITS)
    <3>1. value \in draw_free(base)
      BY <1>4, <2>3
    <3> QED BY <1>5, <2>1, <2>3, <3>1, FreeIs
  <2> QED BY <2>2, <2>3
<1>7. /\ samples' \in Seq(Int) /\ Len(samples') = n + 1 /\ samples'[n + 1] = value
      /\ \A i \in 1 .. n : samples'[i] = samples[i]
  BY <1>3, <1>4, <1>6, AppendProperties
<1>8. n \in Nat /\ Held(job) \in Nat /\ n < Held(job)
  BY <1>2, <1>3, JobIs
<1> HIDE DEF n
<1>9. Put(job, samples')
  <2> SUFFICES ASSUME NEW p \in Nat, p < n + 1, p < capacity(job) * BITS
               PROVE  samples'[p + 1] % 2 = BitOf(Carried(job), p)
    BY <1>7 DEF Put
  <2>1. CASE p = n
    BY <1>6, <1>7, <2>1
  <2>2. CASE p < n
    <3>1. samples[p + 1] % 2 = BitOf(Carried(job), p)
      BY <1>2, <2>2 DEF Put, n
    <3>2. p + 1 \in 1 .. n
      BY <1>8, <2>2
    <3> QED BY <1>7, <3>1, <3>2
  <2> QED BY <1>8, <2>1, <2>2
<1>10. Drawn' <=> n + 1 = Held(job)
  BY <1>1, <1>2, <1>7 DEF Drawn
<1>11. /\ pc' = "draw" => Len(samples') < Held(job)
       /\ pc' # "draw" => Len(samples') = Held(job)
  BY <1>1, <1>7, <1>8, <1>10
<1>12. pc' # "answered"
  BY <1>1
<1> QED BY <1>1, <1>2, <1>9, <1>11, <1>12 DEF DrawnSoFar

\* A draw that gives up leaves what there is.
LEMMA RenderKeeps ==
    ASSUME DrawnSoFar, Render
    PROVE  DrawnSoFar'
<1>1. pc = "draw"
  BY DEF Render
<1>2. CASE DrawSample /\ pc' = IF Drawn' THEN "write" ELSE "draw"
  BY <1>1, <1>2, DrawSampleKeeps
<1>3. CASE RejectionExhausted /\ pc' = "refused"
  <2>1. UNCHANGED <<job, samples, reader, got>> /\ pc' = "refused"
    BY <1>3 DEF RejectionExhausted, carrierVars
  <2> QED BY <1>1, <2>1 DEF DrawnSoFar
<1> QED BY <1>2, <1>3 DEF Render

\* The reading at the end.
LEMMA ReadPayloadKeeps ==
    ASSUME DrawnSoFar, ReadPayload
    PROVE  DrawnSoFar'
<1>1. /\ pc = "reread" /\ job # NoJob /\ pc' = "answered" /\ job' = job /\ samples' = samples
      /\ reader' \in {"password", "recipient"} /\ got' = ReadGenerated(reader')
  BY DEF ReadPayload, ReadDrawn
<1>2. IsJob(job) /\ Put(job, samples) /\ Len(samples) = Held(job) /\ job \in Jobs \cup {NoJob}
  BY <1>1, JobsAre DEF DrawnSoFar
<1>3. Holds(Carried(job), capacity(job))
  <2>1. capacity(job) * BITS <= Held(job) /\ Held(job) \in Nat /\ capacity(job) * BITS \in Int
    BY <1>2, JobIs, CarrierAssumption
  <2>2. ASSUME NEW p \in Nat, p < capacity(job) * BITS
        PROVE  samples[p + 1] % 2 = BitOf(Carried(job), p)
    <3>1. p < Len(samples)
      BY <1>2, <2>1, <2>2
    <3> QED BY <1>2, <2>2, <3>1 DEF Put
  <2> QED BY <2>2 DEF Holds
<1>4. got' = IF reader' = job.mode THEN job.msg ELSE Rejected
  BY <1>1, <1>2, <1>3, ReadIsRight
<1> QED BY <1>1, <1>2, <1>4 DEF DrawnSoFar

\* Every step keeps DrawnSoFar.
LEMMA DrawnStep ==
    ASSUME DrawnSoFar, [Next]_vars
    PROVE  DrawnSoFar'
<1>1. CASE Render
  BY <1>1, RenderKeeps
<1>2. CASE ReadPayload
  BY <1>2, ReadPayloadKeeps
<1>3. ASSUME Decode \/ Detect \/ Compute \/ WritePng \/ Reread
      PROVE  DrawnSoFar'
  <2>1. /\ UNCHANGED <<job, samples, reader, got>>
        /\ pc \notin {"draw", "refused", "answered"} /\ pc' \notin {"draw", "answered"}
    BY <1>3 DEF Decode, Detect, Compute, WritePng, Reread, carrierVars
  <2> QED BY <2>1 DEF DrawnSoFar
<1>4. CASE UNCHANGED vars
  <2>1. UNCHANGED <<job, samples, reader, got, pc>>
    BY <1>4 DEF vars, carrierVars
  <2> QED BY <2>1 DEF DrawnSoFar
<1> QED BY <1>1, <1>2, <1>3, <1>4 DEF Next, Finished

\* The container being drawn, at every moment.
LEMMA DrawnAlways == Spec => []DrawnSoFar
<1>1. Init => DrawnSoFar
  BY DrawnInit
<1>2. DrawnSoFar /\ [Next]_vars => DrawnSoFar'
  BY DrawnStep
<1> QED BY <1>1, <1>2, PTL DEF Spec

\* Every sample gets its bit, and what was sealed into them is read in the mode
\* it was drawn for and in no other.
THEOREM TheDrawnCarries == Spec => []DrawnCarries
<1>1. DrawnSoFar => DrawnCarries
  <2> SUFFICES ASSUME DrawnSoFar PROVE DrawnCarries
    OBVIOUS
  <2>1. NeverStuck
    <3> SUFFICES ASSUME pc = "draw"
                 PROVE  /\ Around(job, Pixel.x, Pixel.y) \subseteq Grid
                        /\ \A r \in {0, RIDGE_CEILING}, bit \in 0 .. 1 : draw_with_lsb(Base(r), bit) # {}
      BY DEF NeverStuck
    <3>1. IsJob(job) /\ Len(samples) < Held(job) /\ samples \in Seq(Int)
      BY JobsAre DEF DrawnSoFar, Put
    <3>2. Len(samples) \in Nat
      BY <3>1
    <3>3. Pixel.x \in 0 .. job.width - 1 /\ Pixel.y \in 0 .. job.height - 1
      BY <3>1, <3>2, PixelIs
    <3>4. Around(job, Pixel.x, Pixel.y) \subseteq Grid
      <4> DEFINE x == Pixel.x
                 y == Pixel.y
      <4> HIDE DEF x, y
      <4>1. x \in 0 .. job.width - 1 /\ y \in 0 .. job.height - 1
        BY <3>3 DEF x, y
      <4>2. Around(job, x, y) \subseteq Grid
        BY <3>1, <4>1, AroundIsInGrid
      <4> QED BY <4>2 DEF x, y
    <3>5. ASSUME NEW r \in {0, RIDGE_CEILING}, NEW bit \in 0 .. 1
          PROVE  draw_with_lsb(Base(r), bit) # {}
      <4>1. r \in Int
        BY DEF RIDGE_CEILING
      <4>2. InRange(Base(r))
        BY <3>1, <3>2, <4>1, BaseIs
      <4> QED BY <4>2, BothAreDrawn
    <3> QED BY <3>4, <3>5
  <2>2. reader # "none" => got = IF reader = job.mode THEN job.msg ELSE Rejected
    BY DEF DrawnSoFar
  <2> QED BY <2>1, <2>2 DEF DrawnCarries
<1> QED BY <1>1, DrawnAlways, PTL
=============================================================================
