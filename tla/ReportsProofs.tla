--------------------------- MODULE ReportsProofs ---------------------------
(* The reports tell the same of the same operations, the replies about modes    *)
(* account for the inventory they read, those about the equity and the BUYs say *)
(* no more than what they have read supports, and every part of a reply that is *)
(* split fits: proofs for any operations, symbols, lots, replies, limits and    *)
(* times. They rest on what the sums of the model do, of which the first part   *)
(* of the module is about.                                                      *)
EXTENDS TradingReports, PositionModes, StatusReplies, HtmlParts,
        SequenceTheorems, FiniteSetTheorems, NaturalsInduction, WellFoundedInduction, TLAPS

\* A set of natural numbers has a least element.
LEMMA LeastNat ==
    ASSUME NEW T \in SUBSET Nat, T # {}
    PROVE  \E x \in T : \A y \in T : x <= y
<1> DEFINE R == {ss \in Nat \X Nat : ss[1] < ss[2]}
<1>1. IsWellFoundedOn(R, Nat)
  BY NatLessThanWellFounded DEF OpToRel
<1> HIDE DEF R
<1>2. PICK x \in T : \A y \in T : ~(<<y, x>> \in R)
  BY <1>1, WFMin
<1>3. \A y \in T : ~(y < x)
  BY <1>2 DEF R
<1> QED BY <1>3

\* Induction over the subsets of a finite set, for the property of being in F.
LEMMA SubsetInduction ==
    ASSUME NEW S, IsFiniteSet(S), NEW F, {} \in F,
           \A T \in SUBSET S : \A x \in S \ T : T \in F => T \cup {x} \in F
    PROVE  \A T \in SUBSET S : T \in F
<1> SUFFICES ASSUME NEW U \in SUBSET S, U \notin F PROVE FALSE
  OBVIOUS
<1> DEFINE Bad == {T \in SUBSET S : T \notin F}
           Sizes == {Cardinality(T) : T \in Bad}
<1>1. \A T \in SUBSET S : IsFiniteSet(T) /\ Cardinality(T) \in Nat
  BY FS_Subset, FS_CardinalityType
<1>2. Sizes \in SUBSET Nat /\ Sizes # {}
  BY <1>1
<1>3. PICK n \in Sizes : \A y \in Sizes : n <= y
  <2> HIDE DEF Sizes
  <2> QED BY <1>2, LeastNat
<1>4. PICK T \in Bad : Cardinality(T) = n
  BY <1>3
<1>5. T # {}
  BY <1>4
<1>6. PICK x \in T : TRUE
  BY <1>5
<1>7. Cardinality(T \ {x}) = Cardinality(T) - 1
  BY <1>1, <1>4, FS_RemoveElement
<1>8. T \ {x} \in F
  <2>1. T \ {x} \in SUBSET S
    BY <1>4
  <2>2. SUFFICES ASSUME T \ {x} \in Bad PROVE FALSE
    BY <2>1
  <2>3. n <= Cardinality(T \ {x})
    BY <1>3, <2>2
  <2>4. n \in Nat /\ Cardinality(T) = n /\ Cardinality(T \ {x}) = Cardinality(T) - 1
    BY <1>2, <1>3, <1>4, <1>7
  <2> HIDE DEF Bad, Sizes
  <2> QED BY <2>3, <2>4
<1>9. (T \ {x}) \cup {x} = T
  <2> HIDE DEF Bad, Sizes
  <2> QED BY <1>6
<1>10. T \ {x} \in SUBSET S /\ x \in S \ (T \ {x}) /\ T \notin F
  BY <1>4
<1> HIDE DEF Bad, Sizes
<1>11. (T \ {x}) \cup {x} \in F
  BY <1>8, <1>10
<1> QED BY <1>9, <1>10, <1>11

\* The function by which SumFunctionOnSet is defined: the sums over the subsets of S.
Some(s) == CHOOSE x \in s : TRUE
IsSums(g, f, S) ==
    g = [s \in SUBSET S |-> IF s = {} THEN 0 ELSE f[Some(s)] + g[s \ {Some(s)}]]

LEMMA SumByDefinition ==
    ASSUME NEW f, NEW S
    PROVE  SumFunctionOnSet(f, S) = (CHOOSE g : IsSums(g, f, S))[S]
BY DEF SumFunctionOnSet, FoldFunctionOnSet, MapThenFoldSet, IsSums, Some

LEMMA SumsExist ==
    ASSUME NEW f, NEW S, IsFiniteSet(S)
    PROVE  \E g : IsSums(g, f, S)
<1> DEFINE Sub(n) == {s \in SUBSET S : Cardinality(s) <= n}
           Body(g, s) == IF s = {} THEN 0 ELSE f[Some(s)] + g[s \ {Some(s)}]
           Upto(n) == \E g : g = [s \in Sub(n) |-> Body(g, s)]
           Missing == {n \in Nat : ~Upto(n)}
<1>1. \A s \in SUBSET S : IsFiniteSet(s) /\ Cardinality(s) \in Nat
  BY FS_Subset, FS_CardinalityType
<1>2. \A s \in SUBSET S : s # {} =>
          Some(s) \in s /\ s \ {Some(s)} \in SUBSET S /\ Cardinality(s \ {Some(s)}) = Cardinality(s) - 1
  <2> SUFFICES ASSUME NEW s \in SUBSET S, s # {}
               PROVE  Some(s) \in s /\ s \ {Some(s)} \in SUBSET S
                        /\ Cardinality(s \ {Some(s)}) = Cardinality(s) - 1
    OBVIOUS
  <2>1. Some(s) \in s
    BY DEF Some
  <2> QED BY <2>1, <1>1, FS_RemoveElement
<1>3. Upto(0)
  <2>1. \A s \in Sub(0) : s = {}
    BY <1>1, FS_EmptySet
  <2> DEFINE zero == [s \in Sub(0) |-> 0]
  <2>2. zero = [s \in Sub(0) |-> Body(zero, s)]
    BY <2>1
  <2> QED BY <2>2
<1>4. ASSUME NEW n \in Nat, Upto(n) PROVE Upto(n + 1)
  <2>1. PICK g : g = [s \in Sub(n) |-> Body(g, s)]
    BY <1>4
  <2> DEFINE h == [s \in Sub(n + 1) |-> Body(g, s)]
  <2>2. \A s \in Sub(n) : s \in Sub(n + 1) /\ h[s] = g[s]
    <3>1. \A s \in Sub(n) : s \in Sub(n + 1)
      BY <1>1
    <3>2. \A s \in Sub(n) : g[s] = Body(g, s)
      <4> HIDE DEF Sub, Body
      <4> QED BY <2>1
    <3>3. \A s \in Sub(n + 1) : h[s] = Body(g, s)
      <4> HIDE DEF Sub, Body
      <4> QED OBVIOUS
    <3> HIDE DEF Sub, Body, h
    <3> QED BY <3>1, <3>2, <3>3
  <2>3. \A s \in Sub(n + 1) : s # {} => s \ {Some(s)} \in Sub(n)
    BY <1>1, <1>2
  <2>4. \A s \in Sub(n + 1) : Body(g, s) = Body(h, s)
    <3> HIDE DEF Sub, h
    <3> QED BY <2>2, <2>3
  <2>5. h = [s \in Sub(n + 1) |-> Body(h, s)]
    <3>1. \A s \in Sub(n + 1) : h[s] = Body(g, s)
      <4> HIDE DEF Sub, Body
      <4> QED OBVIOUS
    <3>2. h = [s \in Sub(n + 1) |-> h[s]]
      <4> HIDE DEF Sub, Body
      <4> QED OBVIOUS
    <3> HIDE DEF Sub, Body, h
    <3> QED BY <2>4, <3>1, <3>2
  <2> QED BY <2>5
<1>5. \A n \in Nat : Upto(n)
  <2> SUFFICES ASSUME Missing # {} PROVE FALSE
    OBVIOUS
  <2>1. PICK n \in Missing : \A m \in Missing : n <= m
    <3>1. Missing \in SUBSET Nat
      OBVIOUS
    <3> HIDE DEF Missing
    <3> QED BY <3>1, LeastNat
  <2>2. n \in Nat /\ ~Upto(n)
    BY <2>1
  <2>3. n # 0
    <3> HIDE DEF Upto
    <3> QED BY <1>3, <2>2
  <2>4. n - 1 \in Nat
    BY <2>2, <2>3
  <2>5. n - 1 \notin Missing
    <3> HIDE DEF Missing
    <3> QED BY <2>1, <2>2
  <2>6. Upto(n - 1)
    <3> HIDE DEF Upto
    <3> QED BY <2>4, <2>5
  <2>7. Upto((n - 1) + 1)
    <3> HIDE DEF Upto
    <3> QED BY <2>4, <2>6, <1>4
  <2>8. (n - 1) + 1 = n
    BY <2>2
  <2> HIDE DEF Upto
  <2> QED BY <2>2, <2>7, <2>8
<1>6. Sub(Cardinality(S)) = SUBSET S
  BY <1>1, FS_Subset
<1>7. Upto(Cardinality(S))
  <2> HIDE DEF Upto
  <2> QED BY <1>5, FS_CardinalityType
<1>8. PICK g : g = [s \in Sub(Cardinality(S)) |-> Body(g, s)]
  BY <1>7
<1>9. g = [s \in SUBSET S |-> Body(g, s)]
  <2> HIDE DEF Sub, Body
  <2> QED BY <1>6, <1>8
<1> QED BY <1>9 DEF IsSums

\* Among finite sets there is one of least size.
LEMMA SmallestSet ==
    ASSUME NEW F, F # {}, \A T \in F : IsFiniteSet(T)
    PROVE  \E T \in F : \A U \in F : Cardinality(T) <= Cardinality(U)
<1> DEFINE Sizes == {Cardinality(T) : T \in F}
<1>1. Sizes \in SUBSET Nat /\ Sizes # {}
  BY FS_CardinalityType
<1>2. PICK n \in Sizes : \A y \in Sizes : n <= y
  <2> HIDE DEF Sizes
  <2> QED BY <1>1, LeastNat
<1> QED BY <1>2

LEMMA SumsAgree ==
    ASSUME NEW f, NEW S, IsFiniteSet(S), NEW T \in SUBSET S,
           NEW g, IsSums(g, f, S), NEW h, IsSums(h, f, T)
    PROVE  g[T] = h[T]
<1> DEFINE Differ == {s \in SUBSET T : g[s] # h[s]}
<1> SUFFICES ASSUME Differ # {} PROVE FALSE
  OBVIOUS
<1>1. \A s \in SUBSET S : IsFiniteSet(s) /\ Cardinality(s) \in Nat
  BY FS_Subset, FS_CardinalityType
<1>2. PICK s \in Differ : \A u \in Differ : Cardinality(s) <= Cardinality(u)
  <2>1. \A u \in Differ : IsFiniteSet(u)
    BY <1>1
  <2> HIDE DEF Differ
  <2> QED BY <2>1, SmallestSet
<1>3. s \in SUBSET T /\ s \in SUBSET S /\ g[s] # h[s]
  BY <1>2
<1>4. g[s] = (IF s = {} THEN 0 ELSE f[Some(s)] + g[s \ {Some(s)}])
  BY <1>3 DEF IsSums
<1>5. h[s] = (IF s = {} THEN 0 ELSE f[Some(s)] + h[s \ {Some(s)}])
  BY <1>3 DEF IsSums
<1>6. s # {} /\ g[s \ {Some(s)}] # h[s \ {Some(s)}]
  BY <1>3, <1>4, <1>5
<1>7. Cardinality(s \ {Some(s)}) = Cardinality(s) - 1
  <2>1. Some(s) \in s
    BY <1>6 DEF Some
  <2> QED BY <1>1, <1>3, <2>1, FS_RemoveElement
<1>8. s \ {Some(s)} \in Differ
  BY <1>3, <1>6
<1>9. Cardinality(s) <= Cardinality(s \ {Some(s)})
  <2> HIDE DEF Differ
  <2> QED BY <1>2, <1>8
<1> QED BY <1>1, <1>3, <1>7, <1>9

\* How a sum comes apart by the element that is chosen first.
LEMMA SumStep ==
    ASSUME NEW f, NEW S, IsFiniteSet(S)
    PROVE  /\ S = {} => SumFunctionOnSet(f, S) = 0
           /\ S # {} => SumFunctionOnSet(f, S) = f[Some(S)] + SumFunctionOnSet(f, S \ {Some(S)})
<1>1. PICK g : IsSums(g, f, S) /\ SumFunctionOnSet(f, S) = g[S]
  BY SumsExist, SumByDefinition
<1>2. g[S] = IF S = {} THEN 0 ELSE f[Some(S)] + g[S \ {Some(S)}]
  BY <1>1 DEF IsSums
<1>3. ASSUME S # {} PROVE g[S \ {Some(S)}] = SumFunctionOnSet(f, S \ {Some(S)})
  <2>1. IsFiniteSet(S \ {Some(S)})
    BY FS_Subset
  <2>2. PICK h : IsSums(h, f, S \ {Some(S)}) /\ SumFunctionOnSet(f, S \ {Some(S)}) = h[S \ {Some(S)}]
    BY <2>1, SumsExist, SumByDefinition
  <2> QED BY <1>1, <2>2, SumsAgree
<1> QED BY <1>1, <1>2, <1>3

\* A sum of integers is an integer.
LEMMA SumType ==
    ASSUME NEW f, NEW S, IsFiniteSet(S), \A x \in S : f[x] \in Int
    PROVE  SumFunctionOnSet(f, S) \in Int
<1> DEFINE Odd == {T \in SUBSET S : SumFunctionOnSet(f, T) \notin Int}
<1> SUFFICES ASSUME Odd # {} PROVE FALSE
  OBVIOUS
<1>1. \A T \in SUBSET S : IsFiniteSet(T) /\ Cardinality(T) \in Nat
  BY FS_Subset, FS_CardinalityType
<1>2. PICK T \in Odd : \A u \in Odd : Cardinality(T) <= Cardinality(u)
  <2>1. \A u \in Odd : IsFiniteSet(u)
    BY <1>1
  <2> HIDE DEF Odd
  <2> QED BY <2>1, SmallestSet
<1>3. T \in SUBSET S /\ SumFunctionOnSet(f, T) \notin Int
  BY <1>2
<1>4. T # {} /\ SumFunctionOnSet(f, T) = f[Some(T)] + SumFunctionOnSet(f, T \ {Some(T)})
  <2>1. /\ T = {} => SumFunctionOnSet(f, T) = 0
        /\ T # {} => SumFunctionOnSet(f, T) = f[Some(T)] + SumFunctionOnSet(f, T \ {Some(T)})
    BY <1>1, <1>3, SumStep
  <2>2. 0 \in Int
    OBVIOUS
  <2>3. T # {}
    BY <1>3, <2>1, <2>2
  <2> QED BY <2>1, <2>3
<1>5. Some(T) \in T /\ Cardinality(T \ {Some(T)}) = Cardinality(T) - 1
  <2>1. Some(T) \in T
    BY <1>4 DEF Some
  <2> QED BY <1>1, <1>3, <2>1, FS_RemoveElement
<1>6. T \ {Some(T)} \in Odd
  BY <1>3, <1>4, <1>5
<1>7. Cardinality(T) <= Cardinality(T \ {Some(T)})
  <2> HIDE DEF Odd
  <2> QED BY <1>2, <1>6
<1> QED BY <1>1, <1>3, <1>5, <1>7

\* A sum comes apart by any of its elements.
LEMMA SumWithout ==
    ASSUME NEW f, NEW S, IsFiniteSet(S), \A x \in S : f[x] \in Int, NEW y \in S
    PROVE  SumFunctionOnSet(f, S) = f[y] + SumFunctionOnSet(f, S \ {y})
<1> DEFINE Odd == {T \in SUBSET S :
                \E z \in T : SumFunctionOnSet(f, T) # f[z] + SumFunctionOnSet(f, T \ {z})}
<1> SUFFICES ASSUME Odd # {} PROVE FALSE
  OBVIOUS
<1>1. \A T \in SUBSET S : IsFiniteSet(T) /\ Cardinality(T) \in Nat /\ SumFunctionOnSet(f, T) \in Int
  BY FS_Subset, FS_CardinalityType, SumType
<1>2. PICK T \in Odd : \A u \in Odd : Cardinality(T) <= Cardinality(u)
  <2>1. \A u \in Odd : IsFiniteSet(u)
    BY <1>1
  <2> HIDE DEF Odd
  <2> QED BY <2>1, SmallestSet
<1>3. PICK z \in T : SumFunctionOnSet(f, T) # f[z] + SumFunctionOnSet(f, T \ {z})
  BY <1>2
<1>4. PICK a : a = Some(T)
  OBVIOUS
<1>5. a \in T
  BY <1>4, <1>3 DEF Some
<1>6. T \in SUBSET S
  BY <1>2
<1>7. \A u \in T : T \ {u} \in SUBSET S /\ T \ {u} \notin Odd
  <2> SUFFICES ASSUME NEW u \in T PROVE T \ {u} \in SUBSET S /\ T \ {u} \notin Odd
    OBVIOUS
  <2>1. Cardinality(T \ {u}) = Cardinality(T) - 1
    BY <1>1, <1>6, FS_RemoveElement
  <2>2. ~(Cardinality(T) <= Cardinality(T \ {u}))
    BY <2>1, <1>1, <1>6
  <2>3. T \ {u} \in SUBSET S
    BY <1>6
  <2> HIDE DEF Odd
  <2> QED BY <1>2, <2>2, <2>3
<1>8. SumFunctionOnSet(f, T) = f[a] + SumFunctionOnSet(f, T \ {a})
  BY <1>1, <1>3, <1>4, <1>6, SumStep
<1>9. a # z
  BY <1>3, <1>8
<1>10. SumFunctionOnSet(f, T \ {a}) = f[z] + SumFunctionOnSet(f, (T \ {a}) \ {z})
  BY <1>5, <1>7, <1>9
<1>11. SumFunctionOnSet(f, T \ {z}) = f[a] + SumFunctionOnSet(f, (T \ {z}) \ {a})
  BY <1>5, <1>7, <1>9
<1>12. (T \ {a}) \ {z} = (T \ {z}) \ {a} /\ (T \ {a}) \ {z} \in SUBSET S
  BY <1>6
<1>13. f[a] \in Int /\ f[z] \in Int /\ SumFunctionOnSet(f, (T \ {a}) \ {z}) \in Int
  BY <1>1, <1>5, <1>6, <1>12
<1>14. PICK r \in Int : r = SumFunctionOnSet(f, (T \ {a}) \ {z})
  BY <1>13
<1>15. SumFunctionOnSet(f, T) = f[a] + (f[z] + r) /\ SumFunctionOnSet(f, T \ {z}) = f[a] + r
  BY <1>8, <1>10, <1>11, <1>12, <1>14
<1> HIDE DEF Odd
<1> QED BY <1>3, <1>13, <1>15

LEMMA SumWith ==
    ASSUME NEW f, NEW S, IsFiniteSet(S), \A x \in S : f[x] \in Int,
           NEW T \in SUBSET S, NEW y \in S \ T
    PROVE  SumFunctionOnSet(f, T \cup {y}) = f[y] + SumFunctionOnSet(f, T)
<1>1. IsFiniteSet(T \cup {y}) /\ \A x \in T \cup {y} : f[x] \in Int
  BY FS_Subset
<1>2. (T \cup {y}) \ {y} = T /\ y \in T \cup {y}
  OBVIOUS
<1>3. SumFunctionOnSet(f, T \cup {y}) = f[y] + SumFunctionOnSet(f, (T \cup {y}) \ {y})
  BY <1>1, <1>2, SumWithout
<1> QED BY <1>2, <1>3

\* Functions that agree on a set have the same sum over it.
LEMMA SumSame ==
    ASSUME NEW f, NEW g, NEW S, IsFiniteSet(S), \A x \in S : f[x] \in Int /\ g[x] = f[x]
    PROVE  SumFunctionOnSet(g, S) = SumFunctionOnSet(f, S)
<1> DEFINE F == {T \in SUBSET S : SumFunctionOnSet(g, T) = SumFunctionOnSet(f, T)}
<1>1. {} \in F
  BY SumStep, FS_EmptySet
<1>2. ASSUME NEW T \in SUBSET S, NEW x \in S \ T, T \in F
      PROVE  T \cup {x} \in F
  <2>1. SumFunctionOnSet(f, T \cup {x}) = f[x] + SumFunctionOnSet(f, T)
    BY SumWith
  <2>2. \A z \in S : g[z] \in Int
    OBVIOUS
  <2>3. SumFunctionOnSet(g, T \cup {x}) = g[x] + SumFunctionOnSet(g, T)
    BY <2>2, SumWith
  <2> QED BY <1>2, <2>1, <2>3
<1>3. S \in F
  <2> HIDE DEF F
  <2> QED BY <1>1, <1>2, SubsetInduction
<1> QED BY <1>3

\* The sum over two sets that are apart.
LEMMA SumApart ==
    ASSUME NEW f, NEW S, IsFiniteSet(S), NEW T, IsFiniteSet(T), S \cap T = {},
           \A x \in S \cup T : f[x] \in Int
    PROVE  SumFunctionOnSet(f, S \cup T) = SumFunctionOnSet(f, S) + SumFunctionOnSet(f, T)
<1> DEFINE F == {U \in SUBSET T :
                SumFunctionOnSet(f, S \cup U) = SumFunctionOnSet(f, S) + SumFunctionOnSet(f, U)}
<1>1. IsFiniteSet(S \cup T)
  BY FS_Union
<1>2. \A U \in SUBSET (S \cup T) : IsFiniteSet(U) /\ SumFunctionOnSet(f, U) \in Int
  <2> SUFFICES ASSUME NEW U \in SUBSET (S \cup T)
               PROVE  IsFiniteSet(U) /\ SumFunctionOnSet(f, U) \in Int
    OBVIOUS
  <2>1. IsFiniteSet(U)
    BY <1>1, FS_Subset
  <2> QED BY <2>1, SumType
<1>3. {} \in F
  <2>1. S \cup {} = S /\ SumFunctionOnSet(f, {}) = 0
    BY SumStep, FS_EmptySet
  <2> QED BY <1>2, <2>1
<1>4. ASSUME NEW U \in SUBSET T, NEW x \in T \ U, U \in F
      PROVE  U \cup {x} \in F
  <2>1. SumFunctionOnSet(f, U \cup {x}) = f[x] + SumFunctionOnSet(f, U)
    BY SumWith
  <2>2. SumFunctionOnSet(f, (S \cup U) \cup {x}) = f[x] + SumFunctionOnSet(f, S \cup U)
    <3>1. S \cup U \in SUBSET (S \cup T) /\ x \in (S \cup T) \ (S \cup U)
      OBVIOUS
    <3> HIDE DEF F
    <3> QED BY <1>1, <3>1, SumWith
  <2>3. (S \cup U) \cup {x} = S \cup (U \cup {x})
    OBVIOUS
  <2>4. PICK a \in Int, b \in Int : a = SumFunctionOnSet(f, S) /\ b = SumFunctionOnSet(f, U)
    BY <1>2
  <2>5. SumFunctionOnSet(f, S \cup U) = a + b
    BY <1>4, <2>4
  <2>6. SumFunctionOnSet(f, S \cup (U \cup {x})) = f[x] + (a + b)
    BY <2>2, <2>3, <2>5
  <2>7. f[x] + (a + b) = a + (f[x] + b)
    OBVIOUS
  <2> QED BY <2>1, <2>4, <2>6, <2>7
<1>5. T \in F
  <2> HIDE DEF F
  <2> QED BY <1>3, <1>4, SubsetInduction
<1> QED BY <1>5

\* A sum of natural numbers is one, and is zero only if each of them is.
LEMMA SumOfNats ==
    ASSUME NEW f, NEW S, IsFiniteSet(S), \A x \in S : f[x] \in Nat
    PROVE  /\ SumFunctionOnSet(f, S) \in Nat
           /\ SumFunctionOnSet(f, S) = 0 <=> \A x \in S : f[x] = 0
<1> DEFINE Zero(T) == \A x \in T : f[x] = 0
           F == {T \in SUBSET S : /\ SumFunctionOnSet(f, T) \in Nat
                                  /\ SumFunctionOnSet(f, T) = 0 <=> Zero(T)}
<1>1. {} \in F
  <2>1. SumFunctionOnSet(f, {}) = 0 /\ {} \in SUBSET S
    BY SumStep, FS_EmptySet
  <2> QED BY <2>1
<1>2. ASSUME NEW T \in SUBSET S, NEW x \in S \ T, T \in F
      PROVE  T \cup {x} \in F
  <2>1. SumFunctionOnSet(f, T \cup {x}) = f[x] + SumFunctionOnSet(f, T)
    BY SumWith
  <2>2. Zero(T \cup {x}) <=> Zero(T) /\ f[x] = 0
    OBVIOUS
  <2>3. f[x] \in Nat /\ SumFunctionOnSet(f, T) \in Nat /\ (SumFunctionOnSet(f, T) = 0 <=> Zero(T))
    BY <1>2
  <2> HIDE DEF Zero
  <2> QED BY <2>1, <2>2, <2>3
<1>3. S \in F
  <2> HIDE DEF F
  <2> QED BY <1>1, <1>2, SubsetInduction
<1> QED BY <1>3

\* A sum of zeros.
LEMMA SumOfZeros ==
    ASSUME NEW f, NEW S, IsFiniteSet(S), \A x \in S : f[x] = 0
    PROVE  SumFunctionOnSet(f, S) = 0
BY SumOfNats

\* A sum over a set is that of the sums over its parts, here the x of each key[x].
LEMMA SumOfParts ==
    ASSUME NEW f, NEW S, IsFiniteSet(S), \A x \in S : f[x] \in Int,
           NEW K, IsFiniteSet(K), NEW key, \A x \in S : key[x] \in K
    PROVE  SumFunctionOnSet(f, S)
             = SumFunctionOnSet([k \in K |-> SumFunctionOnSet(f, {x \in S : key[x] = k})], K)
<1> DEFINE Part(k) == {x \in S : key[x] = k}
           Within(L) == {x \in S : key[x] \in L}
           shares == [k \in K |-> SumFunctionOnSet(f, Part(k))]
           F == {L \in SUBSET K : SumFunctionOnSet(f, Within(L)) = SumFunctionOnSet(shares, L)}
<1>1. \A U \in SUBSET S : IsFiniteSet(U) /\ SumFunctionOnSet(f, U) \in Int
  <2> SUFFICES ASSUME NEW U \in SUBSET S PROVE IsFiniteSet(U) /\ SumFunctionOnSet(f, U) \in Int
    OBVIOUS
  <2>1. IsFiniteSet(U)
    BY FS_Subset
  <2> QED BY <2>1, SumType
<1>2. \A k \in K : shares[k] = SumFunctionOnSet(f, Part(k)) /\ shares[k] \in Int
  BY <1>1
<1>3. {} \in F
  <2>1. Within({}) = {}
    OBVIOUS
  <2>2. SumFunctionOnSet(f, {}) = 0 /\ SumFunctionOnSet(shares, {}) = 0
    <3> HIDE DEF shares
    <3> QED BY SumStep, FS_EmptySet
  <2> HIDE DEF Within, shares
  <2> QED BY <2>1, <2>2
<1>4. ASSUME NEW L \in SUBSET K, NEW k \in K \ L, L \in F
      PROVE  L \cup {k} \in F
  <2>1. Within(L \cup {k}) = Within(L) \cup Part(k) /\ Within(L) \cap Part(k) = {}
    OBVIOUS
  <2>2. Within(L) \in SUBSET S /\ Part(k) \in SUBSET S
    OBVIOUS
  <2>3. SumFunctionOnSet(f, Within(L) \cup Part(k))
          = SumFunctionOnSet(f, Within(L)) + SumFunctionOnSet(f, Part(k))
    <3> HIDE DEF Within, Part
    <3>1. IsFiniteSet(Within(L)) /\ IsFiniteSet(Part(k))
             /\ \A x \in Within(L) \cup Part(k) : f[x] \in Int
      BY <2>2, <1>1
    <3> QED BY <3>1, <2>1, SumApart
  <2>4. SumFunctionOnSet(shares, L \cup {k}) = shares[k] + SumFunctionOnSet(shares, L)
    <3>1. \A x \in K : shares[x] \in Int
      BY <1>2
    <3> HIDE DEF shares, F, Part, Within
    <3> QED BY <3>1, SumWith
  <2>5. SumFunctionOnSet(f, Within(L)) = SumFunctionOnSet(shares, L)
    BY <1>4
  <2>6. SumFunctionOnSet(f, Within(L)) \in Int /\ SumFunctionOnSet(f, Part(k)) \in Int
    BY <1>1, <2>2
  <2>7. shares[k] = SumFunctionOnSet(f, Part(k))
    BY <1>2
  <2>8. SumFunctionOnSet(f, Within(L \cup {k})) = SumFunctionOnSet(shares, L \cup {k})
    <3> HIDE DEF Within, Part, shares
    <3>1. PICK a \in Int, b \in Int :
             a = SumFunctionOnSet(f, Within(L)) /\ b = SumFunctionOnSet(f, Part(k))
      BY <2>6
    <3>2. SumFunctionOnSet(f, Within(L \cup {k})) = a + b
      BY <2>1, <2>3, <3>1
    <3>3. SumFunctionOnSet(shares, L \cup {k}) = b + a
      BY <2>4, <2>5, <2>7, <3>1
    <3> QED BY <3>2, <3>3
  <2> HIDE DEF Within, shares
  <2> QED BY <2>8
<1>5. K \in F
  <2> HIDE DEF F
  <2> QED BY <1>3, <1>4, SubsetInduction
<1>6. Within(K) = S
  OBVIOUS
<1> QED BY <1>5, <1>6

\* The size of a set is a sum of ones.
LEMMA SumOfOnes ==
    ASSUME NEW f, NEW S, IsFiniteSet(S), \A x \in S : f[x] = 1
    PROVE  SumFunctionOnSet(f, S) = Cardinality(S)
<1> DEFINE F == {T \in SUBSET S : SumFunctionOnSet(f, T) = Cardinality(T)}
<1>1. {} \in F
  BY SumStep, FS_EmptySet
<1>2. ASSUME NEW T \in SUBSET S, NEW x \in S \ T, T \in F
      PROVE  T \cup {x} \in F
  <2>1. SumFunctionOnSet(f, T \cup {x}) = f[x] + SumFunctionOnSet(f, T)
    BY SumWith
  <2>2. IsFiniteSet(T)
    BY FS_Subset
  <2>3. Cardinality(T \cup {x}) = Cardinality(T) + 1 /\ Cardinality(T) \in Nat
    BY <2>2, FS_AddElement, FS_CardinalityType
  <2> QED BY <1>2, <2>1, <2>3
<1>3. S \in F
  <2> HIDE DEF F
  <2> QED BY <1>1, <1>2, SubsetInduction
<1> QED BY <1>3
-----------------------------------------------------------------------------
Entry == [op : Operations, at : Nat]
Reporting == [kind : DOMAIN Queries, at : Nat, marks : Seq(Nat)]

\* The history and the queries of the report in work, each in the order of time.
ReportTypeOK == minute \in 0..MaxMinute /\ history \in Seq(Entry) /\ report \in Reporting
InOrderOfTime ==
    /\ \A i \in 1..Len(history), j \in 1..Len(history) : i <= j => history[i].at <= history[j].at
    /\ \A i \in 1..Len(history) : history[i].at <= minute
MarksGrow ==
    /\ \A i \in 1..Len(report.marks), j \in 1..Len(report.marks) : i <= j => report.marks[i] <= report.marks[j]
    /\ \A i \in 1..Len(report.marks) : report.marks[i] <= Len(history)
RInv == ReportTypeOK /\ InOrderOfTime /\ MarksGrow

\* The assumptions on the constants, one by one.
LEMMA ReportsConstants ==
    /\ IsFiniteSet(Traded) /\ Operations \subseteq Operation
    /\ \A op \in Operations : op.side = "BUY" => op.realized = <<>>
    /\ CHURN_GAP \in Nat \ {0} /\ CHURN_WINDOW \in Nat \ {0} /\ DAY \in Nat \ {0}
    /\ LATEST_LIMIT \in Nat /\ MaxMinute \in Nat
BY ReportsAssumption

\* How many queries a report makes.
LEMMA QueriesNumbers ==
    ASSUME NEW kind \in DOMAIN Queries
    PROVE  /\ Queries[kind] \in 0..4
           /\ kind # "none" => Queries[kind] >= 1
           /\ kind = "performance" => Queries[kind] = 4
           /\ kind \in {"operational", "last"} => Queries[kind] = 2
<1>1. kind \in {"none", "performance", "operational", "churn", "last", "today"}
  BY DEF Queries
<1>2. CASE kind = "none"
  BY <1>2 DEF Queries
<1>3. CASE kind = "performance"
  BY <1>3 DEF Queries
<1>4. CASE kind = "operational"
  BY <1>4 DEF Queries
<1>5. CASE kind = "churn"
  BY <1>5 DEF Queries
<1>6. CASE kind = "last"
  BY <1>6 DEF Queries
<1>7. CASE kind = "today"
  BY <1>7 DEF Queries
<1> QED BY <1>1, <1>2, <1>3, <1>4, <1>5, <1>6, <1>7

LEMMA InitReports == ReportInit => RInv
<1> SUFFICES ASSUME ReportInit PROVE RInv
  OBVIOUS
<1>1. minute = 0 /\ history = <<>> /\ report = NoReport
  BY DEF ReportInit
<1>2. report.marks = <<>>
  BY <1>1 DEF NoReport
<1>3. report \in Reporting
  BY <1>1 DEF NoReport, Reporting, Queries
<1> QED BY <1>1, <1>2, <1>3, ReportsConstants DEF RInv, ReportTypeOK, InOrderOfTime, MarksGrow

\* A growing sequence grows on with a number that is no less than any in it.
LEMMA GrowingAppend ==
    ASSUME NEW seq \in Seq(Nat), NEW n \in Nat,
           \A i \in 1..Len(seq), j \in 1..Len(seq) : i <= j => seq[i] <= seq[j],
           \A i \in 1..Len(seq) : seq[i] <= n,
           NEW longer, longer = Append(seq, n)
    PROVE  /\ \A i \in 1..Len(longer), j \in 1..Len(longer) : i <= j => longer[i] <= longer[j]
           /\ \A i \in 1..Len(longer) : longer[i] <= n
<1>1. PICK k \in Nat : k = Len(seq)
  BY LenProperties
<1>2. /\ Len(longer) = k + 1 /\ longer[k + 1] = n
      /\ \A i \in 1..k : longer[i] = seq[i] /\ seq[i] \in Nat
  BY <1>1, AppendProperties
<1>3. \A i \in 1..k + 1 : longer[i] <= n /\ longer[i] \in Nat
  <2> SUFFICES ASSUME NEW i \in 1..k + 1 PROVE longer[i] <= n /\ longer[i] \in Nat
    OBVIOUS
  <2>1. CASE i = k + 1
    BY <1>2, <2>1
  <2>2. CASE i # k + 1
    <3>1. i \in 1..k
      BY <2>2
    <3> QED BY <1>1, <1>2, <3>1
  <2> QED BY <2>1, <2>2
<1>4. ASSUME NEW i \in 1..k + 1, NEW j \in 1..k + 1, i <= j PROVE longer[i] <= longer[j]
  <2>1. CASE j = k + 1
    BY <1>2, <1>3, <2>1
  <2>2. CASE j # k + 1
    <3>1. i \in 1..k /\ j \in 1..k
      BY <1>4, <2>2
    <3>2. seq[i] <= seq[j]
      BY <1>1, <1>4, <3>1
    <3> QED BY <1>2, <3>1, <3>2
  <2> QED BY <2>1, <2>2
<1> QED BY <1>2, <1>3, <1>4

\* Every step keeps the invariant.
LEMMA NextReports == RInv /\ [ReportNext]_reportVars => RInv'
<1> SUFFICES ASSUME RInv, [ReportNext]_reportVars PROVE RInv'
  OBVIOUS
<1>0. /\ minute \in 0..MaxMinute /\ history \in Seq(Entry) /\ report \in Reporting
      /\ Len(history) \in Nat /\ report.marks \in Seq(Nat) /\ Len(report.marks) \in Nat
      /\ \A i \in 1..Len(history) : history[i] \in Entry /\ history[i].at \in Nat
      /\ \A i \in 1..Len(report.marks) : report.marks[i] \in Nat
  <2>1. minute \in 0..MaxMinute /\ history \in Seq(Entry) /\ report \in Reporting
    BY DEF RInv, ReportTypeOK
  <2>2. report.marks \in Seq(Nat)
    BY <2>1 DEF Reporting
  <2>3. Len(history) \in Nat /\ Len(report.marks) \in Nat
    BY <2>1, <2>2, LenProperties
  <2>4. \A i \in 1..Len(history) : history[i] \in Entry
    BY <2>1
  <2>5. \A e \in Entry : e.at \in Nat
    BY DEF Entry
  <2>6. \A i \in 1..Len(report.marks) : report.marks[i] \in Nat
    BY <2>2
  <2> QED BY <2>1, <2>2, <2>3, <2>4, <2>5, <2>6
<1>1. ASSUME PassMinute PROVE RInv'
  <2>1. minute' \in 0..MaxMinute /\ minute <= minute' /\ UNCHANGED <<history, report>>
    BY <1>0, <1>1, ReportsConstants DEF PassMinute
  <2>2. InOrderOfTime'
    BY <1>0, <2>1, ReportsConstants DEF RInv, InOrderOfTime
  <2> QED BY <2>1, <2>2 DEF RInv, ReportTypeOK, MarksGrow
<1>2. ASSUME NEW op \in Operations, Record(op) PROVE RInv'
  <2>1. history' = Append(history, [op |-> op, at |-> minute]) /\ UNCHANGED <<minute, report>>
    BY <1>2 DEF Record
  <2>2. PICK e \in Entry : e = [op |-> op, at |-> minute] /\ e.at = minute
    <3>1. minute \in Nat
      BY <1>0, ReportsConstants
    <3>2. [op |-> op, at |-> minute] \in Entry /\ [op |-> op, at |-> minute].at = minute
      BY <3>1 DEF Entry
    <3> QED BY <3>2
  <2>3. /\ history' \in Seq(Entry) /\ Len(history') = Len(history) + 1
        /\ \A i \in 1..Len(history) : history'[i] = history[i]
        /\ history'[Len(history) + 1] = e
    BY <1>0, <2>1, <2>2
  <2>4. \A i \in 1..Len(history') : history'[i].at <= minute
    BY <1>0, <2>2, <2>3 DEF RInv, InOrderOfTime
  <2>5. ASSUME NEW i \in 1..Len(history'), NEW j \in 1..Len(history'), i <= j
        PROVE  history'[i].at <= history'[j].at
    <3>1. CASE j = Len(history) + 1
      BY <2>2, <2>3, <2>4, <3>1
    <3>2. CASE j # Len(history) + 1
      <4>1. i \in 1..Len(history) /\ j \in 1..Len(history)
        BY <1>0, <2>3, <2>5, <3>2
      <4> QED BY <2>3, <2>5, <4>1 DEF RInv, InOrderOfTime
    <3> QED BY <3>1, <3>2
  <2>6. InOrderOfTime'
    BY <2>1, <2>4, <2>5 DEF InOrderOfTime
  <2>7. MarksGrow'
    BY <1>0, <2>1, <2>3 DEF RInv, MarksGrow
  <2> QED BY <1>0, <2>1, <2>3, <2>6, <2>7 DEF RInv, ReportTypeOK
<1>3. ASSUME Query PROVE RInv'
  <2>1. report' = [report EXCEPT !.marks = Append(@, Len(history))] /\ UNCHANGED <<minute, history>>
    BY <1>3 DEF Query
  <2>2. PICK marks \in Seq(Nat) : marks = Append(report.marks, Len(history))
    BY <1>0, AppendProperties
  <2>3. report' \in Reporting /\ report'.marks = marks
    BY <1>0, <2>1, <2>2 DEF Reporting
  <2>4. /\ Len(marks) = Len(report.marks) + 1 /\ marks[Len(report.marks) + 1] = Len(history)
        /\ \A i \in 1..Len(report.marks) : marks[i] = report.marks[i]
    BY <1>0, <2>2, AppendProperties
  <2>5. /\ \A i \in 1..Len(marks), j \in 1..Len(marks) : i <= j => marks[i] <= marks[j]
        /\ \A i \in 1..Len(marks) : marks[i] <= Len(history)
    <3>1. /\ \A i \in 1..Len(report.marks), j \in 1..Len(report.marks) :
                  i <= j => report.marks[i] <= report.marks[j]
          /\ \A i \in 1..Len(report.marks) : report.marks[i] <= Len(history)
      BY DEF RInv, MarksGrow
    <3> QED BY <1>0, <2>2, <3>1, GrowingAppend
  <2>7. MarksGrow'
    BY <2>1, <2>3, <2>5 DEF MarksGrow
  <2> QED BY <1>0, <2>1, <2>3, <2>7 DEF RInv, ReportTypeOK, InOrderOfTime
<1>4. ASSUME NEW kind \in DOMAIN Queries \ {"none"}, AskReport(kind) PROVE RInv'
  <2>1. report' = [kind |-> kind, at |-> minute, marks |-> <<>>] /\ UNCHANGED <<minute, history>>
    BY <1>4 DEF AskReport
  <2>2. report' \in Reporting /\ report'.marks = <<>>
    BY <1>0, <2>1, ReportsConstants DEF Reporting
  <2> QED BY <1>0, <2>1, <2>2 DEF RInv, ReportTypeOK, InOrderOfTime, MarksGrow
<1>5. ASSUME UNCHANGED reportVars PROVE RInv'
  BY <1>5 DEF reportVars, RInv, ReportTypeOK, InOrderOfTime, MarksGrow
<1> QED BY <1>1, <1>2, <1>3, <1>4, <1>5 DEF ReportNext

\* The history and what the queries have seen of it are in the order of time
\* (dashboard/dashboard_read_model.py:997).
THEOREM ReportsInvariant == ReportSpec => []RInv
BY InitReports, NextReports, PTL DEF ReportSpec
-----------------------------------------------------------------------------
\* What is known of a recorded operation.
LEMMA OperationOf ==
    ASSUME RInv, NEW i \in 1..Len(history)
    PROVE  /\ history[i].op \in Operations /\ history[i].op \in Operation
           /\ history[i].op.symbol \in Traded /\ history[i].op.side \in {"BUY", "SELL"}
           /\ history[i].op.marks \in SUBSET {"source", "accounting_only"}
           /\ history[i].op.version \in {"unversioned", "v1"}
           /\ history[i].op.realized \in Seq(Int) /\ history[i].op.fee \in Nat
           /\ history[i].op.side = "BUY" => history[i].op.realized = <<>>
           /\ history[i].at \in Nat /\ history[i].at <= minute /\ history[i].at <= MaxMinute
<1>1. history \in Seq(Entry) /\ minute \in 0..MaxMinute
  BY DEF RInv, ReportTypeOK
<1>2. history[i] \in Entry
  BY <1>1
<1>3. history[i].op \in Operations /\ history[i].at \in Nat
  BY <1>2 DEF Entry
<1>4. history[i].op \in Operation
  BY <1>3, ReportsConstants
<1>5. history[i].at <= minute /\ history[i].at <= MaxMinute
  BY <1>1, <1>3, ReportsConstants DEF RInv, InOrderOfTime
<1>6. history[i].op.side = "BUY" => history[i].op.realized = <<>>
  BY <1>3, ReportsConstants
<1> QED BY <1>3, <1>4, <1>5, <1>6 DEF Operation

\* A closure names its operation and its place among the results of it.
LEMMA ClosureFacts ==
    ASSUME RInv, NEW n \in 0..Len(history), NEW c \in Closures(n)
    PROVE  /\ c[1] \in 1..n /\ c[1] \in 1..Len(history)
           /\ c[2] \in DOMAIN history[c[1]].op.realized /\ c = <<c[1], c[2]>>
           /\ Amount(c) \in Int
<1>1. PICK i \in 1..n : \E j \in DOMAIN history[i].op.realized : c = <<i, j>>
  BY DEF Closures
<1>0. PICK j \in DOMAIN history[i].op.realized : c = <<i, j>>
  BY <1>1
<1>2. c[1] = i /\ c[2] = j
  BY <1>0
<1>3. Len(history) \in Nat
  BY LenProperties DEF RInv, ReportTypeOK
<1>4. i \in 1..Len(history)
  BY <1>3
<1>5. history[i].op.realized \in Seq(Int)
  BY <1>4, OperationOf
<1>6. history[i].op.realized[j] \in Int
  BY <1>0, <1>5
<1> QED BY <1>0, <1>2, <1>4, <1>6 DEF Amount

\* The closures of the first operations are among those of more of them.
LEMMA ClosuresUpto ==
    ASSUME RInv, NEW n \in 0..Len(history), NEW m \in 0..n
    PROVE  /\ Closures(m) \subseteq Closures(n)
           /\ \A S \in SUBSET (1..m) : {c \in Closures(n) : c[1] \in S} = {c \in Closures(m) : c[1] \in S}
           /\ \A c \in Closures(m) : c[1] <= n
<1>1. Len(history) \in Nat
  BY LenProperties DEF RInv, ReportTypeOK
<1>2. n \in Nat /\ m \in Nat /\ m <= n /\ m \in 0..Len(history)
  BY <1>1
<1>3. Closures(m) \subseteq Closures(n)
  <2>1. 1..m \subseteq 1..n
    BY <1>2
  <2> QED BY <2>1 DEF Closures
<1>4. ASSUME NEW c \in Closures(n), c[1] \in 1..m PROVE c \in Closures(m)
  <2>1. c[2] \in DOMAIN history[c[1]].op.realized /\ c = <<c[1], c[2]>>
    BY ClosureFacts
  <2>2. <<c[1], c[2]>> \in {<<c[1], j>> : j \in DOMAIN history[c[1]].op.realized}
    BY <2>1
  <2>3. PICK i \in 1..m : i = c[1] /\ c \in {<<i, j>> : j \in DOMAIN history[i].op.realized}
    BY <1>4, <2>1, <2>2
  <2> QED BY <2>3 DEF Closures
<1>5. \A c \in Closures(m) : c[1] <= n
  BY <1>2, ClosureFacts
<1> QED BY <1>3, <1>4, <1>5

\* There are finitely many closures, so that their results have a sum.
LEMMA ClosuresFinite ==
    ASSUME RInv, NEW n \in 0..Len(history)
    PROVE  IsFiniteSet(Closures(n))
<1> DEFINE OfOne(i) == {<<i, j>> : j \in DOMAIN history[i].op.realized}
           Among(T) == UNION {OfOne(i) : i \in T}
           F == {T \in SUBSET (1..n) : IsFiniteSet(Among(T))}
<1>1. Len(history) \in Nat /\ n \in Nat /\ IsFiniteSet(1..n)
  BY LenProperties, FS_Interval DEF RInv, ReportTypeOK
<1>2. ASSUME NEW i \in 1..n PROVE IsFiniteSet(OfOne(i))
  <2>1. history[i].op.realized \in Seq(Int)
    BY <1>1, OperationOf
  <2>2. PICK k \in Nat : DOMAIN history[i].op.realized = 1..k
    <3>1. PICK results \in Seq(Int) : results = history[i].op.realized
      BY <2>1
    <3>2. Len(results) \in Nat /\ DOMAIN results = 1..Len(results)
      BY <3>1, LenProperties
    <3> QED BY <3>1, <3>2
  <2>3. IsFiniteSet({i}) /\ IsFiniteSet(1..k)
    <3>1. IsFiniteSet({i})
      BY FS_Singleton
    <3>2. IsFiniteSet(1..k)
      BY FS_Interval
    <3> QED BY <3>1, <3>2
  <2>4. IsFiniteSet({i} \X (1..k))
    BY <2>3, FS_Product
  <2>5. OfOne(i) \in SUBSET ({i} \X (1..k))
    BY <2>2
  <2> HIDE DEF OfOne
  <2> QED BY <2>4, <2>5, FS_Subset
<1>3. {} \in F
  <2>1. Among({}) = {}
    OBVIOUS
  <2> HIDE DEF Among
  <2> QED BY <2>1, FS_EmptySet
<1>4. ASSUME NEW T \in SUBSET (1..n), NEW i \in (1..n) \ T, T \in F
      PROVE  T \cup {i} \in F
  <2>1. Among(T \cup {i}) = Among(T) \cup OfOne(i)
    <3> HIDE DEF OfOne
    <3> QED OBVIOUS
  <2>2. IsFiniteSet(Among(T)) /\ IsFiniteSet(OfOne(i))
    BY <1>2, <1>4
  <2>3. IsFiniteSet(Among(T) \cup OfOne(i))
    <3> HIDE DEF Among, OfOne
    <3> QED BY <2>2, FS_Union
  <2> HIDE DEF Among, OfOne
  <2> QED BY <2>1, <2>3
<1>5. 1..n \in F
  <2> HIDE DEF F, OfOne, Among
  <2>1. PICK S : S = 1..n
    OBVIOUS
  <2>2. /\ IsFiniteSet(S)
        /\ \A T \in SUBSET S : \A x \in S \ T : T \in F => T \cup {x} \in F
    BY <1>1, <1>4, <2>1
  <2>3. \A T \in SUBSET S : T \in F
    BY <1>3, <2>2, SubsetInduction
  <2> QED BY <2>1, <2>3
<1> QED BY <1>5 DEF Closures

\* The results of a set of closures, as a sum of one function.
Amounts == [c \in Closures(Len(history)) |-> Amount(c)]

LEMMA RealizedFacts ==
    ASSUME RInv, NEW C \in SUBSET Closures(Len(history))
    PROVE  /\ IsFiniteSet(C) /\ \A c \in C : Amounts[c] = Amount(c) /\ Amounts[c] \in Int
           /\ Realized(C) = SumFunctionOnSet(Amounts, C) /\ Realized(C) \in Int
<1> DEFINE amount == [c \in C |-> Amount(c)]
<1>1. Len(history) \in Nat
  BY LenProperties DEF RInv, ReportTypeOK
<1>2. IsFiniteSet(C)
  <2>1. IsFiniteSet(Closures(Len(history)))
    BY <1>1, ClosuresFinite
  <2> QED BY <2>1, FS_Subset
<1>3. \A c \in C : Amount(c) \in Int
  BY <1>1, ClosureFacts
<1>4. \A c \in C : Amounts[c] = Amount(c) /\ Amounts[c] \in Int
  BY <1>3 DEF Amounts
<1>5. DOMAIN amount = C /\ \A c \in C : amount[c] = Amounts[c] /\ Amounts[c] \in Int
  BY <1>4
<1>6. Realized(C) = SumFunctionOnSet(amount, C)
  <2>1. Realized(C) = SumFunction(amount)
    BY DEF Realized
  <2> HIDE DEF amount
  <2> QED BY <1>5, <2>1 DEF SumFunction
<1>7. SumFunctionOnSet(amount, C) = SumFunctionOnSet(Amounts, C) /\ SumFunctionOnSet(amount, C) \in Int
  <2>1. \A c \in C : amount[c] \in Int
    BY <1>3
  <2> HIDE DEF amount
  <2> QED BY <1>2, <1>5, <2>1, SumSame, SumType
<1> HIDE DEF amount
<1> QED BY <1>2, <1>4, <1>6, <1>7

\* Some of the results and the others add up to all.
LEMMA RealizedApart ==
    ASSUME RInv, NEW C \in SUBSET Closures(Len(history)), NEW D \in SUBSET C
    PROVE  Realized(C) = Realized(D) + Realized(C \ D)
<1>1. D \in SUBSET Closures(Len(history)) /\ C \ D \in SUBSET Closures(Len(history))
  OBVIOUS
<1>2. IsFiniteSet(D) /\ IsFiniteSet(C \ D) /\ D \cap (C \ D) = {} /\ D \cup (C \ D) = C
  BY <1>1, RealizedFacts
<1>3. \A c \in D \cup (C \ D) : Amounts[c] \in Int
  BY RealizedFacts
<1>4. SumFunctionOnSet(Amounts, D \cup (C \ D))
        = SumFunctionOnSet(Amounts, D) + SumFunctionOnSet(Amounts, C \ D)
  BY <1>2, <1>3, SumApart
<1>5. Realized(D) = SumFunctionOnSet(Amounts, D) /\ Realized(C \ D) = SumFunctionOnSet(Amounts, C \ D)
        /\ Realized(C) = SumFunctionOnSet(Amounts, C)
  BY <1>1, RealizedFacts
<1> QED BY <1>2, <1>4, <1>5

\* The results by a key of the closures add up to the results.
LEMMA RealizedByKey ==
    ASSUME RInv, NEW C \in SUBSET Closures(Len(history)), NEW K, IsFiniteSet(K),
           NEW key, \A c \in C : key[c] \in K
    PROVE  Realized(C) = SumFunction([k \in K |-> Realized({c \in C : key[c] = k})])
<1> DEFINE shares == [k \in K |-> SumFunctionOnSet(Amounts, {c \in C : key[c] = k})]
           sums == [k \in K |-> Realized({c \in C : key[c] = k})]
<1>1. IsFiniteSet(C) /\ (\A c \in C : Amounts[c] \in Int) /\ Realized(C) = SumFunctionOnSet(Amounts, C)
  BY RealizedFacts
<1>2. SumFunctionOnSet(Amounts, C) = SumFunctionOnSet(shares, K)
  BY <1>1, SumOfParts
<1>3. \A k \in K : Realized({c \in C : key[c] = k}) = SumFunctionOnSet(Amounts, {c \in C : key[c] = k})
  <2> SUFFICES ASSUME NEW k \in K
               PROVE  Realized({c \in C : key[c] = k}) = SumFunctionOnSet(Amounts, {c \in C : key[c] = k})
    OBVIOUS
  <2>1. {c \in C : key[c] = k} \in SUBSET Closures(Len(history))
    OBVIOUS
  <2> QED BY <2>1, RealizedFacts
<1>4. sums = shares
  BY <1>3
<1>5. SumFunction(sums) = SumFunctionOnSet(sums, K)
  <2>1. DOMAIN sums = K
    OBVIOUS
  <2> HIDE DEF sums
  <2> QED BY <2>1 DEF SumFunction
<1> HIDE DEF sums, shares
<1>6. Realized(C) = SumFunction(sums)
  BY <1>1, <1>2, <1>4, <1>5
<1> QED BY <1>6 DEF sums
-----------------------------------------------------------------------------
\* The queries of an answered report: the first has seen no more than the others.
LEMMA AnsweredFacts ==
    ASSUME RInv, Answered
    PROVE  /\ Len(history) \in Nat /\ Seen \in 0..Len(history) /\ Seen \in Nat
           /\ \A q \in 1..4 : AtOnce[q] = Seen
           /\ \A q \in 1..Queries[report.kind] :
                 report.marks[q] \in 0..Len(history) /\ Seen <= report.marks[q]
           /\ report.kind = "performance" => Queries[report.kind] = 4
           /\ report.kind \in {"operational", "last"} => Queries[report.kind] = 2
<1>1. /\ report \in Reporting /\ Len(history) \in Nat
  BY LenProperties DEF RInv, ReportTypeOK
<1>2. report.kind \in DOMAIN Queries /\ report.marks \in Seq(Nat)
  BY <1>1 DEF Reporting
<1>3. report.kind # "none" /\ Len(report.marks) = Queries[report.kind]
  BY DEF Answered
<1>4. Queries[report.kind] \in 1..4
  BY <1>2, <1>3, QueriesNumbers
<1>5. \A q \in 1..Queries[report.kind] :
          report.marks[q] \in Nat /\ report.marks[q] <= Len(history) /\ Seen <= report.marks[q]
  <2> SUFFICES ASSUME NEW q \in 1..Queries[report.kind]
               PROVE  report.marks[q] \in Nat /\ report.marks[q] <= Len(history) /\ Seen <= report.marks[q]
    OBVIOUS
  <2>1. q \in 1..Len(report.marks) /\ 1 \in 1..Len(report.marks) /\ 1 <= q
    BY <1>3, <1>4
  <2>2. report.marks[q] \in Nat
    BY <1>2, <2>1
  <2> QED BY <2>1, <2>2 DEF RInv, MarksGrow, Seen
<1>6. Seen \in Nat /\ Seen <= Len(history)
  <2>1. 1 \in 1..Queries[report.kind]
    BY <1>4
  <2> QED BY <1>5, <2>1 DEF Seen
<1> QED BY <1>1, <1>2, <1>3, <1>5, <1>6, QueriesNumbers DEF AtOnce

\* The closures of operations that were all recorded.
LEMMA KnownClosures ==
    ASSUME RInv, NEW n \in 0..Len(history), NEW m \in Nat, n <= m
    PROVE  {c \in Closures(n) : c[1] <= m} = Closures(n)
<1>1. n \in Nat
  BY LenProperties DEF RInv, ReportTypeOK
<1>2. \A c \in Closures(n) : c[1] <= m
  BY <1>1, ClosureFacts
<1> QED BY <1>2

\* The performance KPIs, of the closures and fees that were seen.
PerformanceOf(closures, known, fees) ==
    LET manual == With(known, IsManualCorrectionOperation)
    IN [gross |-> Realized(closures), manual |-> Realized(manual),
        bot |-> Realized(closures \ manual),
        count |-> [sign \in {-1, 0, 1} |-> Quantify(closures, LAMBDA c :
            sign = IF Amount(c) > 0 THEN 1 ELSE IF Amount(c) < 0 THEN -1 ELSE 0)],
        fees |-> Fees(1..fees),
        by_symbol |-> [s \in Traded |-> Realized(With(known, LAMBDA op : op.symbol = s))],
        by_day |-> [d \in Days |-> Realized({c \in known : Day(c[1]) = d})]]

LEMMA PerformanceSeen ==
    ASSUME NEW m
    PROVE  Performance(m) = PerformanceOf(Closures(m[1]), {c \in Closures(m[1]) : c[1] <= m[2]}, m[3])
<1> DEFINE seen == PerformanceQueries(m)
<1>1. seen.closures = m[1] /\ seen.operations = m[2] /\ seen.fees = m[3]
  BY DEF PerformanceQueries
<1>2. Performance(m) = PerformanceOf(Closures(seen.closures),
                          {c \in Closures(seen.closures) : c[1] <= seen.operations}, seen.fees)
  BY DEF Performance, PerformanceOf
<1> HIDE DEF seen
<1> QED BY <1>1, <1>2

LEMMA OtherFees ==
    ASSUME NEW a, NEW b, NEW c, NEW d, NEW e, NEW f, NEW g, NEW h
    PROVE  [gross |-> a, manual |-> b, bot |-> c, count |-> d, fees |-> h, by_symbol |-> f, by_day |-> g]
             = [[gross |-> a, manual |-> b, bot |-> c, count |-> d, fees |-> e, by_symbol |-> f, by_day |-> g]
                    EXCEPT !.fees = h]
OBVIOUS

LEMMA PerformanceFees ==
    ASSUME NEW C, NEW K, NEW m, NEW n
    PROVE  /\ PerformanceOf(C, K, m) = [PerformanceOf(C, K, n) EXCEPT !.fees = Fees(1..m)]
           /\ PerformanceOf(C, K, n).fees = Fees(1..n)
<1> DEFINE manual == With(K, IsManualCorrectionOperation)
           a == Realized(C)
           b == Realized(manual)
           c == Realized(C \ manual)
           d == [sign \in {-1, 0, 1} |-> Quantify(C, LAMBDA e :
                    sign = IF Amount(e) > 0 THEN 1 ELSE IF Amount(e) < 0 THEN -1 ELSE 0)]
           f == [s \in Traded |-> Realized(With(K, LAMBDA op : op.symbol = s))]
           g == [e \in Days |-> Realized({x \in K : Day(x[1]) = e})]
<1>1. \A e : PerformanceOf(C, K, e)
                = [gross |-> a, manual |-> b, bot |-> c, count |-> d, fees |-> Fees(1..e),
                   by_symbol |-> f, by_day |-> g]
  BY DEF PerformanceOf
<1> HIDE DEF a, b, c, d, f, g
<1> QED BY <1>1, OtherFees

\* The fees of more operations are no less.
LEMMA FeesFacts ==
    ASSUME RInv, NEW m \in 0..Len(history), NEW n \in 0..m
    PROVE  Fees(1..m) >= Fees(1..n)
<1> DEFINE fees == [i \in 1..Len(history) |-> history[i].op.fee]
<1>1. Len(history) \in Nat /\ m \in Nat /\ n \in Nat /\ n <= m /\ m <= Len(history)
  BY LenProperties DEF RInv, ReportTypeOK
<1>2. \A i \in 1..Len(history) : fees[i] \in Nat /\ fees[i] = history[i].op.fee
  BY OperationOf
<1>3. ASSUME NEW k \in 0..Len(history)
      PROVE  Fees(1..k) = SumFunctionOnSet(fees, 1..k)
  <2> DEFINE some == [i \in 1..k |-> history[i].op.fee]
  <2>1. IsFiniteSet(1..k)
    BY <1>1, FS_Interval
  <2>2. \A i \in 1..k : some[i] = fees[i] /\ fees[i] \in Nat
    BY <1>1, <1>2
  <2>3. DOMAIN some = 1..k /\ Fees(1..k) = SumFunction(some)
    BY DEF Fees
  <2> HIDE DEF some, fees
  <2>4. SumFunctionOnSet(some, 1..k) = SumFunctionOnSet(fees, 1..k)
    <3>1. \A i \in 1..k : fees[i] \in Int /\ some[i] = fees[i]
      BY <2>2
    <3>2. PICK S : S = 1..k
      OBVIOUS
    <3> QED BY <2>1, <3>1, <3>2, SumSame
  <2> QED BY <2>3, <2>4 DEF SumFunction
<1> HIDE DEF fees
<1>4. PICK old, new : old = 1..n /\ new = n + 1..m
  OBVIOUS
<1>5. IsFiniteSet(old) /\ IsFiniteSet(new) /\ old \cap new = {} /\ old \cup new = 1..m
  <2>1. IsFiniteSet(1..n) /\ IsFiniteSet(n + 1..m)
    <3>1. IsFiniteSet(1..n)
      BY <1>1, FS_Interval
    <3>2. PICK k \in Int : k = n + 1
      BY <1>1
    <3>3. IsFiniteSet(k..m)
      BY <1>1, FS_Interval
    <3> QED BY <3>1, <3>2, <3>3
  <2>2. old \cap new = {} /\ old \cup new = 1..m
    BY <1>1, <1>4
  <2> QED BY <1>4, <2>1, <2>2
<1>6. \A i \in 1..m : fees[i] \in Nat
  BY <1>1, <1>2
<1>7. SumFunctionOnSet(fees, old \cup new) = SumFunctionOnSet(fees, old) + SumFunctionOnSet(fees, new)
  BY <1>5, <1>6, SumApart
<1>8. SumFunctionOnSet(fees, old) \in Nat /\ SumFunctionOnSet(fees, new) \in Nat
  <2>1. (\A i \in old : fees[i] \in Nat) /\ \A i \in new : fees[i] \in Nat
    BY <1>5, <1>6
  <2> QED BY <1>5, <2>1, SumOfNats
<1>9. Fees(1..n) = SumFunctionOnSet(fees, old) /\ Fees(1..m) = SumFunctionOnSet(fees, old \cup new)
  <2>1. m \in 0..Len(history) /\ n \in 0..Len(history)
    BY <1>1
  <2>2. Fees(1..n) = SumFunctionOnSet(fees, 1..n) /\ Fees(1..m) = SumFunctionOnSet(fees, 1..m)
    BY <1>3, <2>1
  <2> QED BY <1>4, <1>5, <2>2
<1> QED BY <1>7, <1>8, <1>9

\* The SELLs of the operational KPIs, and these of a set of closures.
OperationalSells(n) == Of(1..n, LAMBDA op : op.side = "SELL" /\ ~IsManualCorrection(op))
OperationalOf(sells, closures) ==
    LET row(Test(_)) == OperationalRow(Of(sells, Test), closures)
    IN [all |-> OperationalRow(sells, closures),
        by_version |-> [v \in {"unversioned", "v1"} |-> row(LAMBDA op : op.version = v)],
        by_symbol |-> [s \in Traded |-> row(LAMBDA op : op.symbol = s)]]
ClosuresOf(n, sells) == {c \in Closures(n) : c[1] \in sells}

LEMMA OperationalSeen ==
    ASSUME NEW m
    PROVE  Operational(m)
             = OperationalOf(OperationalSells(m[1]), ClosuresOf(m[2], OperationalSells(m[1])))
BY DEF Operational, OperationalOf, OperationalSells, ClosuresOf

\* The newest SELLs.
Newest(n) ==
    LET sells == Of(1..n, LAMBDA op : op.side = "SELL")
    IN {i \in sells : Quantify(sells, LAMBDA j : j > i) < LATEST_LIMIT}

LEMMA LastOperationsSeen ==
    ASSUME NEW m
    PROVE  LastOperations(m)
             = [total |-> Realized(ClosuresOf(m[2], Newest(m[1]))),
                missing |-> Newest(m[1]) \ {c[1] : c \in Closures(m[2])}]
BY DEF LastOperations, Newest, ClosuresOf

\* Closures recorded between two queries are of none of the operations that the first saw.
LEMMA LaterClosures ==
    ASSUME RInv, NEW n \in 0..Len(history), NEW m \in 0..n, NEW S \in SUBSET (1..m)
    PROVE  /\ ClosuresOf(n, S) = ClosuresOf(m, S)
           /\ S \ {c[1] : c \in Closures(n)} = S \ {c[1] : c \in Closures(m)}
<1>1. {c \in Closures(n) : c[1] \in S} = {c \in Closures(m) : c[1] \in S}
  BY ClosuresUpto
<1> QED BY <1>1 DEF ClosuresOf

\* One report is that of the moment of its first query, apart from its fees.
LEMMA FirstQuery == RInv /\ Answered => ReportIsOfItsFirstQuery
<1> SUFFICES ASSUME RInv, Answered PROVE ReportIsOfItsFirstQuery
  OBVIOUS
<1>1. /\ Len(history) \in Nat /\ Seen \in 0..Len(history) /\ Seen \in Nat
      /\ AtOnce[1] = Seen /\ AtOnce[2] = Seen /\ AtOnce[3] = Seen /\ report.marks[1] = Seen
  BY AnsweredFacts DEF Seen
<1>2. ASSUME report.kind = "performance"
      PROVE  /\ Performance(report.marks) = [Performance(AtOnce) EXCEPT !.fees = Fees(1..report.marks[3])]
             /\ Fees(1..report.marks[3]) >= Performance(AtOnce).fees
  <2>1. /\ report.marks[2] \in Nat /\ Seen <= report.marks[2]
        /\ report.marks[3] \in 0..Len(history) /\ Seen <= report.marks[3]
    BY <1>2, AnsweredFacts
  <2>2. Performance(report.marks) = PerformanceOf(Closures(Seen), Closures(Seen), report.marks[3])
    BY <1>1, <2>1, PerformanceSeen, KnownClosures
  <2>3. Performance(AtOnce) = PerformanceOf(Closures(Seen), Closures(Seen), Seen)
    <3>1. Seen <= Seen
      BY <1>1
    <3>2. {c \in Closures(Seen) : c[1] <= Seen} = Closures(Seen)
      BY <1>1, <3>1, KnownClosures
    <3> QED BY <1>1, <3>2, PerformanceSeen
  <2>4. Seen \in 0..report.marks[3]
    BY <1>1, <2>1
  <2> QED BY <2>1, <2>2, <2>3, <2>4, PerformanceFees, FeesFacts
<1>3. ASSUME report.kind = "operational"
      PROVE  Operational(report.marks) = Operational(AtOnce)
  <2>1. report.marks[2] \in 0..Len(history) /\ Seen \in 0..report.marks[2]
    BY <1>1, <1>3, AnsweredFacts
  <2>2. OperationalSells(Seen) \in SUBSET (1..Seen)
    BY DEF OperationalSells, Of
  <2>3. ClosuresOf(report.marks[2], OperationalSells(Seen)) = ClosuresOf(Seen, OperationalSells(Seen))
    BY <2>1, <2>2, LaterClosures
  <2> QED BY <1>1, <2>3, OperationalSeen
<1>4. ASSUME report.kind = "last"
      PROVE  LastOperations(report.marks) = LastOperations(AtOnce)
  <2>1. report.marks[2] \in 0..Len(history) /\ Seen \in 0..report.marks[2]
    BY <1>1, <1>4, AnsweredFacts
  <2>2. Newest(Seen) \in SUBSET (1..Seen)
    BY DEF Newest, Of
  <2>3. /\ ClosuresOf(report.marks[2], Newest(Seen)) = ClosuresOf(Seen, Newest(Seen))
        /\ Newest(Seen) \ {c[1] : c \in Closures(report.marks[2])}
             = Newest(Seen) \ {c[1] : c \in Closures(Seen)}
    BY <2>1, <2>2, LaterClosures
  <2> QED BY <1>1, <2>3, LastOperationsSeen
<1> QED BY <1>2, <1>3, <1>4 DEF ReportIsOfItsFirstQuery
-----------------------------------------------------------------------------
\* The sizes of the parts of a set add up to its size.
LEMMA CountByKey ==
    ASSUME NEW S, IsFiniteSet(S), NEW K, IsFiniteSet(K), NEW key, \A x \in S : key[x] \in K
    PROVE  Cardinality(S) = SumFunction([k \in K |-> Cardinality({x \in S : key[x] = k})])
<1> DEFINE one == [x \in S |-> 1]
           shares == [k \in K |-> SumFunctionOnSet(one, {x \in S : key[x] = k})]
           sizes == [k \in K |-> Cardinality({x \in S : key[x] = k})]
<1>1. \A x \in S : one[x] = 1 /\ one[x] \in Int
  OBVIOUS
<1>2. SumFunctionOnSet(one, S) = Cardinality(S)
  <2> HIDE DEF one
  <2> QED BY <1>1, SumOfOnes
<1>3. SumFunctionOnSet(one, S) = SumFunctionOnSet(shares, K)
  <2> HIDE DEF one
  <2> QED BY <1>1, SumOfParts
<1>4. \A k \in K : SumFunctionOnSet(one, {x \in S : key[x] = k}) = Cardinality({x \in S : key[x] = k})
  <2> SUFFICES ASSUME NEW k \in K
               PROVE  SumFunctionOnSet(one, {x \in S : key[x] = k}) = Cardinality({x \in S : key[x] = k})
    OBVIOUS
  <2>1. PICK T \in SUBSET S : T = {x \in S : key[x] = k}
    OBVIOUS
  <2>2. IsFiniteSet(T) /\ \A x \in T : one[x] = 1
    BY FS_Subset, <1>1
  <2> HIDE DEF one
  <2>3. SumFunctionOnSet(one, T) = Cardinality(T)
    BY <2>2, SumOfOnes
  <2> QED BY <2>1, <2>3
<1>5. sizes = shares
  BY <1>4
<1>6. DOMAIN sizes = K
  OBVIOUS
<1> HIDE DEF sizes, shares, one
<1>7. Cardinality(S) = SumFunction(sizes)
  BY <1>2, <1>3, <1>5, <1>6 DEF SumFunction
<1> QED BY <1>7 DEF sizes

\* The closures of the performance KPIs, each of a known SELL.
LEMMA SeenClosures ==
    ASSUME RInv, Answered
    PROVE  /\ Closures(Seen) \in SUBSET Closures(Len(history)) /\ IsFiniteSet(Closures(Seen))
           /\ Performance(AtOnce) = PerformanceOf(Closures(Seen), Closures(Seen), Seen)
           /\ \A c \in Closures(Seen) :
                 /\ c[1] \in 1..Seen /\ c[1] \in 1..Len(history) /\ Amount(c) \in Int
                 /\ history[c[1]].op \in Operation
                 /\ history[c[1]].op.side = "SELL" /\ Day(c[1]) \in Days
<1>1. Len(history) \in Nat /\ Seen \in 0..Len(history) /\ Seen \in Nat
      /\ AtOnce[1] = Seen /\ AtOnce[2] = Seen /\ AtOnce[3] = Seen
  BY AnsweredFacts
<1>2. Closures(Seen) \in SUBSET Closures(Len(history))
  <2>1. Len(history) \in 0..Len(history)
    BY <1>1
  <2> QED BY <1>1, <2>1, ClosuresUpto
<1>3. IsFiniteSet(Closures(Seen))
  BY <1>1, ClosuresFinite
<1>4. Performance(AtOnce) = PerformanceOf(Closures(Seen), Closures(Seen), Seen)
  <2>1. Seen <= Seen
    BY <1>1
  <2>2. {c \in Closures(Seen) : c[1] <= Seen} = Closures(Seen)
    BY <1>1, <2>1, KnownClosures
  <2> QED BY <1>1, <2>2, PerformanceSeen
<1>5. ASSUME NEW c \in Closures(Seen)
      PROVE  /\ c[1] \in 1..Seen /\ c[1] \in 1..Len(history) /\ Amount(c) \in Int
             /\ history[c[1]].op \in Operation
             /\ history[c[1]].op.side = "SELL" /\ Day(c[1]) \in Days
  <2>1. /\ c[1] \in 1..Seen /\ c[1] \in 1..Len(history) /\ Amount(c) \in Int
        /\ c[2] \in DOMAIN history[c[1]].op.realized
    BY <1>1, ClosureFacts
  <2>2. /\ history[c[1]].op \in Operation /\ history[c[1]].op.side \in {"BUY", "SELL"}
        /\ history[c[1]].op.side = "BUY" => history[c[1]].op.realized = <<>>
        /\ history[c[1]].at \in Nat /\ history[c[1]].at <= MaxMinute
    BY <2>1, OperationOf
  <2>3. history[c[1]].op.realized # <<>>
    BY <2>1
  <2>4. Day(c[1]) \in Days
    <3>1. MaxMinute \in Nat /\ DAY \in Nat \ {0}
      BY ReportsConstants
    <3>2. PICK at \in Nat : at = history[c[1]].at /\ at <= MaxMinute
      BY <2>2
    <3>3. at \div DAY \in Nat /\ MaxMinute \div DAY \in Nat /\ at \div DAY <= MaxMinute \div DAY
      BY <3>1, <3>2
    <3> QED BY <3>2, <3>3 DEF Day, Days
  <2> QED BY <2>1, <2>2, <2>3, <2>4
<1> QED BY <1>2, <1>3, <1>4, <1>5

\* The performance KPIs by source, by symbol and by day.
LEMMA BySourceSymbolAndDay ==
    ASSUME RInv, Answered
    PROVE  LET P == Performance(AtOnce) IN
           /\ P.gross = P.bot + P.manual
           /\ P.gross = SumFunction(P.by_symbol) /\ P.gross = SumFunction(P.by_day)
           /\ \A d \in Days : P.by_day[d] = RealizedOnDay(Seen, d)
<1> DEFINE P == Performance(AtOnce)
           C == Closures(Seen)
           manual == With(C, IsManualCorrectionOperation)
<1>1. P.gross = Realized(C) /\ P.manual = Realized(manual) /\ P.bot = Realized(C \ manual)
  BY SeenClosures DEF PerformanceOf
<1>2. /\ P.by_symbol = [s \in Traded |-> Realized(With(C, LAMBDA op : op.symbol = s))]
      /\ P.by_day = [d \in Days |-> Realized({c \in C : Day(c[1]) = d})]
  <2>1. P = PerformanceOf(C, C, Seen)
    BY SeenClosures
  <2> HIDE DEF P
  <2> QED BY <2>1 DEF PerformanceOf
<1>3. C \in SUBSET Closures(Len(history)) /\ manual \in SUBSET C
  BY SeenClosures DEF With
<1>4. Realized(C) \in Int /\ Realized(manual) \in Int /\ Realized(C \ manual) \in Int
  <2>1. manual \in SUBSET Closures(Len(history)) /\ C \ manual \in SUBSET Closures(Len(history))
    BY <1>3
  <2> HIDE DEF C, manual
  <2> QED BY <1>3, <2>1, RealizedFacts
<1>5. P.gross = P.bot + P.manual
  <2> HIDE DEF C, manual, P
  <2>1. Realized(C) = Realized(manual) + Realized(C \ manual)
    BY <1>3, RealizedApart
  <2> QED BY <1>1, <1>4, <2>1
<1>6. P.gross = SumFunction(P.by_symbol)
  <2> DEFINE key == [c \in C |-> history[c[1]].op.symbol]
             sums == [s \in Traded |-> Realized({c \in C : key[c] = s})]
  <2>1. \A c \in C : key[c] = history[c[1]].op.symbol /\ key[c] \in Traded
    BY SeenClosures DEF Operation
  <2>2. IsFiniteSet(Traded)
    BY ReportsConstants
  <2>3. \A s \in Traded : With(C, LAMBDA op : op.symbol = s) = {c \in C : key[c] = s}
    BY <2>1 DEF With
  <2>4. P.by_symbol = sums
    BY <1>2, <2>3
  <2> HIDE DEF C, key, P
  <2>5. Realized(C) = SumFunction(sums)
    BY <1>3, <2>1, <2>2, RealizedByKey
  <2> QED BY <1>1, <2>4, <2>5
<1>7. P.gross = SumFunction(P.by_day)
  <2> DEFINE key == [c \in C |-> Day(c[1])]
             sums == [d \in Days |-> Realized({c \in C : key[c] = d})]
  <2>1. \A c \in C : key[c] = Day(c[1]) /\ key[c] \in Days
    BY SeenClosures
  <2>2. IsFiniteSet(Days)
    <3>1. MaxMinute \div DAY \in Int
      BY ReportsConstants
    <3> QED BY <3>1, FS_Interval DEF Days
  <2>3. \A d \in Days : {c \in C : Day(c[1]) = d} = {c \in C : key[c] = d}
    BY <2>1
  <2>4. P.by_day = sums
    BY <1>2, <2>3
  <2> HIDE DEF C, key, P
  <2>5. Realized(C) = SumFunction(sums)
    BY <1>3, <2>1, <2>2, RealizedByKey
  <2> QED BY <1>1, <2>4, <2>5
<1>8. \A d \in Days : P.by_day[d] = RealizedOnDay(Seen, d)
  BY <1>2 DEF RealizedOnDay
<1> QED BY <1>5, <1>6, <1>7, <1>8

\* Every closure is counted as won, lost or neither.
LEMMA ByResult ==
    ASSUME RInv, Answered
    PROVE  Cardinality(Closures(Seen)) = SumFunction(Performance(AtOnce).count)
<1> DEFINE C == Closures(Seen)
           P == Performance(AtOnce)
           Sign(c) == IF Amount(c) > 0 THEN 1 ELSE IF Amount(c) < 0 THEN -1 ELSE 0
           key == [c \in C |-> Sign(c)]
           K == {-1, 0, 1}
           sizes == [k \in K |-> Cardinality({c \in C : key[c] = k})]
<1>1. P.count = [k \in K |-> Quantify(C, LAMBDA c : k = Sign(c))]
  <2>1. P = PerformanceOf(C, C, Seen)
    BY SeenClosures
  <2> HIDE DEF P
  <2> QED BY <2>1 DEF PerformanceOf
<1>2. \A k \in K : Quantify(C, LAMBDA c : k = Sign(c)) = Cardinality({c \in C : k = Sign(c)})
  <2> HIDE DEF Sign, C
  <2> QED BY DEF Quantify
<1>3. \A k \in K : {c \in C : k = Sign(c)} = {c \in C : key[c] = k}
  <2> HIDE DEF Sign, C
  <2> QED OBVIOUS
<1>4. P.count = sizes
  <2> HIDE DEF key, Sign, P, C
  <2> QED BY <1>1, <1>2, <1>3
<1>5. \A c \in C : key[c] \in K
  BY SeenClosures
<1>6. IsFiniteSet(C) /\ IsFiniteSet(K)
  <2>1. IsFiniteSet(C)
    BY SeenClosures
  <2>2. PICK some : some = {-1, 0}
    OBVIOUS
  <2>3. some = {-1} \cup {0} /\ K = some \cup {1}
    BY <2>2
  <2>4. IsFiniteSet(some)
    BY <2>3, FS_Singleton, FS_AddElement
  <2>5. IsFiniteSet(some \cup {1})
    BY <2>4, FS_AddElement
  <2> HIDE DEF K, C
  <2> QED BY <2>1, <2>3, <2>5
<1> HIDE DEF key, K, C, P
<1>7. Cardinality(C) = SumFunction(sizes)
  BY <1>5, <1>6, CountByKey
<1> QED BY <1>4, <1>7 DEF C, P

\* The operational KPIs, by version and by symbol.
Within(C, S) == {c \in C : c[1] \in S}
Closed(S, C) == {i \in S : \E c \in C : c[1] = i}
VersionIn(S, v) == {i \in S : history[i].op.version = v}
SymbolIn(S, s) == {i \in S : history[i].op.symbol = s}

LEMMA OperationalRows ==
    ASSUME NEW S, NEW C
    PROVE  /\ OperationalOf(S, C).all.realized = Realized(Within(C, S))
           /\ OperationalOf(S, C).all.trades = Cardinality(Closed(S, C))
           /\ DOMAIN OperationalOf(S, C).by_version = {"unversioned", "v1"}
           /\ \A v \in {"unversioned", "v1"} :
                 OperationalOf(S, C).by_version[v].realized = Realized(Within(C, VersionIn(S, v)))
           /\ \A s \in Traded :
                 OperationalOf(S, C).by_symbol[s].trades = Cardinality(Closed(SymbolIn(S, s), C))
<1>1. \A T : /\ OperationalRow(T, C).realized = Realized(Within(C, T))
             /\ OperationalRow(T, C).trades = Cardinality(Closed(T, C))
  BY DEF OperationalRow, Within, Closed
<1>2. OperationalOf(S, C).all = OperationalRow(S, C)
  BY DEF OperationalOf
<1>3. OperationalOf(S, C).by_version
        = [v \in {"unversioned", "v1"} |-> OperationalRow(VersionIn(S, v), C)]
  BY DEF OperationalOf, Of, VersionIn
<1>4. OperationalOf(S, C).by_symbol = [s \in Traded |-> OperationalRow(SymbolIn(S, s), C)]
  BY DEF OperationalOf, Of, SymbolIn
<1>5. DOMAIN OperationalOf(S, C).by_version = {"unversioned", "v1"}
  BY <1>3
<1>6. \A v \in {"unversioned", "v1"} :
         OperationalOf(S, C).by_version[v].realized = Realized(Within(C, VersionIn(S, v)))
  BY <1>1, <1>3
<1>7. \A s \in Traded :
         OperationalOf(S, C).by_symbol[s].trades = Cardinality(Closed(SymbolIn(S, s), C))
  BY <1>1, <1>4
<1> QED BY <1>1, <1>2, <1>5, <1>6, <1>7

\* The operational KPIs by strategy version and by symbol.
LEMMA ByVersionAndSymbol ==
    ASSUME RInv, Answered
    PROVE  LET O == Operational(AtOnce) IN
           /\ O.all.realized = SumFunction([v \in DOMAIN O.by_version |-> O.by_version[v].realized])
           /\ O.all.trades = SumFunction([s \in Traded |-> O.by_symbol[s].trades])
           /\ O.all.realized = Realized({c \in Closures(Seen) : c[1] \in OperationalSells(Seen)})
<1> DEFINE O == Operational(AtOnce)
           S == OperationalSells(Seen)
           C == ClosuresOf(Seen, S)
           Versions == {"unversioned", "v1"}
<1>1. /\ O.all.realized = Realized(Within(C, S)) /\ O.all.trades = Cardinality(Closed(S, C))
      /\ DOMAIN O.by_version = Versions
      /\ \A v \in Versions : O.by_version[v].realized = Realized(Within(C, VersionIn(S, v)))
      /\ \A s \in Traded : O.by_symbol[s].trades = Cardinality(Closed(SymbolIn(S, s), C))
  <2>1. O = OperationalOf(S, C)
    BY AnsweredFacts, OperationalSeen
  <2> HIDE DEF O, S, C
  <2> QED BY <2>1, OperationalRows
<1>2. C \in SUBSET Closures(Len(history)) /\ \A c \in C : c[1] \in S
  BY SeenClosures DEF ClosuresOf
<1>3. S \in SUBSET (1..Seen) /\ IsFiniteSet(S)
  <2>1. S \in SUBSET (1..Seen)
    BY DEF OperationalSells, Of
  <2>2. IsFiniteSet(1..Seen)
    <3>1. Seen \in Int
      BY AnsweredFacts
    <3> QED BY <3>1, FS_Interval
  <2> HIDE DEF S
  <2> QED BY <2>1, <2>2, FS_Subset
<1>4. \A i \in S : history[i].op.version \in Versions /\ history[i].op.symbol \in Traded
  <2>1. 1..Seen \subseteq 1..Len(history)
    BY AnsweredFacts
  <2> HIDE DEF S
  <2> QED BY <1>3, <2>1, OperationOf
<1> HIDE DEF O, S, C
<1>5. O.all.realized = Realized(C)
  <2>1. Within(C, S) = C
    BY <1>2 DEF Within
  <2> QED BY <1>1, <2>1
<1>6. O.all.realized = SumFunction([v \in DOMAIN O.by_version |-> O.by_version[v].realized])
  <2> DEFINE key == [c \in C |-> history[c[1]].op.version]
             sums == [v \in Versions |-> Realized({c \in C : key[c] = v})]
             rows == [v \in DOMAIN O.by_version |-> O.by_version[v].realized]
  <2>1. \A c \in C : key[c] = history[c[1]].op.version /\ key[c] \in Versions
    BY <1>2, <1>4
  <2>2. IsFiniteSet(Versions)
    <3>1. IsFiniteSet({"unversioned"} \cup {"v1"})
      BY FS_Singleton, FS_AddElement
    <3>2. Versions = {"unversioned"} \cup {"v1"}
      OBVIOUS
    <3> QED BY <3>1, <3>2
  <2>3. \A v \in Versions : Within(C, VersionIn(S, v)) = {c \in C : key[c] = v}
    <3> HIDE DEF key
    <3> QED BY <1>2, <2>1 DEF Within, VersionIn
  <2>4. rows = sums
    <3> HIDE DEF key, Versions
    <3> QED BY <1>1, <2>3
  <2> HIDE DEF key, rows, Versions
  <2>5. Realized(C) = SumFunction(sums)
    BY <1>2, <2>1, <2>2, RealizedByKey
  <2>6. O.all.realized = SumFunction(rows)
    BY <1>5, <2>4, <2>5
  <2> QED BY <2>6 DEF rows
<1>7. O.all.trades = SumFunction([s \in Traded |-> O.by_symbol[s].trades])
  <2> DEFINE closed == Closed(S, C)
             key == [i \in closed |-> history[i].op.symbol]
             sizes == [s \in Traded |-> Cardinality({i \in closed : key[i] = s})]
             rows == [s \in Traded |-> O.by_symbol[s].trades]
  <2>1. closed \in SUBSET S
    BY DEF Closed
  <2>2. \A i \in closed : key[i] = history[i].op.symbol /\ key[i] \in Traded
    BY <1>4, <2>1
  <2>3. IsFiniteSet(Traded)
    BY ReportsConstants
  <2>4. \A s \in Traded : Closed(SymbolIn(S, s), C) = {i \in closed : key[i] = s}
    <3> HIDE DEF key
    <3> QED BY <2>2 DEF Closed, SymbolIn
  <2>5. rows = sizes
    <3> HIDE DEF key, closed
    <3> QED BY <1>1, <2>4
  <2> HIDE DEF key, rows, closed
  <2>6. O.all.trades = Cardinality(closed)
    BY <1>1 DEF closed
  <2>7. IsFiniteSet(closed)
    BY <1>3, <2>1, FS_Subset
  <2>8. Cardinality(closed) = SumFunction(sizes)
    BY <2>2, <2>3, <2>7, CountByKey
  <2>9. O.all.trades = SumFunction(rows)
    BY <2>5, <2>6, <2>8
  <2> QED BY <2>9 DEF rows
<1> QED BY <1>5, <1>6, <1>7 DEF O, S, C, ClosuresOf

\* The two ways to know a correction: each with "source" is one of those with any mark.
LEMMA DisputedResults ==
    ASSUME RInv, Answered
    PROVE  LET disputed == Of(1..Seen, LAMBDA op : IsManualCorrection(op) # IsManualCorrectionOperation(op))
           IN  Realized({c \in Closures(Seen) : c[1] \in OperationalSells(Seen)})
                 = Performance(AtOnce).bot - Realized({c \in Closures(Seen) : c[1] \in disputed})
<1> DEFINE C == Closures(Seen)
           disputed == Of(1..Seen, LAMBDA op : IsManualCorrection(op) # IsManualCorrectionOperation(op))
           manual == With(C, IsManualCorrectionOperation)
           traded == {c \in C : c[1] \in OperationalSells(Seen)}
           others == {c \in C : c[1] \in disputed}
<1>1. C \in SUBSET Closures(Len(history))
        /\ \A c \in C : c[1] \in 1..Seen /\ history[c[1]].op.side = "SELL"
  BY SeenClosures
<1>2. Performance(AtOnce).bot = Realized(C \ manual)
  BY SeenClosures DEF PerformanceOf
<1>3. \A c \in C :
        /\ c \in manual <=> "source" \in history[c[1]].op.marks
        /\ c \in traded <=> history[c[1]].op.marks = {}
        /\ c \in others <=> (history[c[1]].op.marks # {} /\ "source" \notin history[c[1]].op.marks)
  <2> SUFFICES ASSUME NEW c \in C
               PROVE  /\ c \in manual <=> "source" \in history[c[1]].op.marks
                      /\ c \in traded <=> history[c[1]].op.marks = {}
                      /\ c \in others <=> (history[c[1]].op.marks # {} /\ "source" \notin history[c[1]].op.marks)
    OBVIOUS
  <2>1. c[1] \in 1..Seen /\ history[c[1]].op.side = "SELL"
    BY <1>1
  <2> HIDE DEF C
  <2>2. c \in manual <=> "source" \in history[c[1]].op.marks
    BY DEF With, IsManualCorrectionOperation
  <2>3. c \in traded <=> history[c[1]].op.marks = {}
    BY <2>1 DEF OperationalSells, Of, IsManualCorrection
  <2>4. c \in others <=> (history[c[1]].op.marks # {} /\ "source" \notin history[c[1]].op.marks)
    BY <2>1 DEF Of, IsManualCorrection, IsManualCorrectionOperation
  <2> QED BY <2>2, <2>3, <2>4
<1>4. traded \in SUBSET (C \ manual) /\ (C \ manual) \ traded = others
  <2>1. manual \subseteq C
    BY DEF With
  <2>2. traded \subseteq C /\ others \subseteq C
    OBVIOUS
  <2> HIDE DEF C, manual, traded, others
  <2> QED BY <1>3, <2>1, <2>2
<1> HIDE DEF manual, traded, others
<1>5. C \ manual \in SUBSET Closures(Len(history))
  BY <1>1
<1>6. Realized(C \ manual) = Realized(traded) + Realized(others)
  BY <1>4, <1>5, RealizedApart
<1>7. Realized(traded) \in Int /\ Realized(others) \in Int
  <2>1. traded \in SUBSET Closures(Len(history)) /\ others \in SUBSET Closures(Len(history))
    BY <1>4, <1>5
  <2> QED BY <2>1, RealizedFacts
<1>8. Realized(traded) = Performance(AtOnce).bot - Realized(others)
  BY <1>2, <1>6, <1>7
<1> QED BY <1>8 DEF traded, others

\* With no more operations than it can list, /last_operations sums all of the results.
LEMMA LastOfAll ==
    ASSUME RInv, Answered, Seen <= LATEST_LIMIT
    PROVE  LastOperations(AtOnce).total = Performance(AtOnce).gross
<1> DEFINE sells == Of(1..Seen, LAMBDA op : op.side = "SELL")
<1>1. Len(history) \in Nat /\ Seen \in 0..Len(history) /\ Seen \in Nat
      /\ AtOnce[1] = Seen /\ AtOnce[2] = Seen /\ LATEST_LIMIT \in Nat
  BY AnsweredFacts, ReportsConstants
<1>2. sells \in SUBSET (1..Seen)
  BY DEF Of
<1>3. Newest(Seen) = {i \in sells : Cardinality({j \in sells : j > i}) < LATEST_LIMIT}
  BY DEF Newest, Quantify
<1>4. ASSUME NEW i \in sells
      PROVE  Cardinality({j \in sells : j > i}) < LATEST_LIMIT
  <2>1. PICK later \in SUBSET sells : later = {j \in sells : j > i}
    OBVIOUS
  <2>2. i \in 1..Seen /\ i \in Int /\ i >= 1
    BY <1>1, <1>2
  <2>3. later \in SUBSET (i + 1..Seen)
    <3> HIDE DEF sells
    <3>1. \A j \in later : j \in 1..Seen /\ j > i
      BY <1>2, <2>1
    <3> QED BY <1>1, <2>2, <3>1
  <2>4. IsFiniteSet(i + 1..Seen) /\ Cardinality(i + 1..Seen) <= Seen - i
    <3>1. PICK k \in Int : k = i + 1
      BY <2>2
    <3>2. IsFiniteSet(k..Seen) /\ Cardinality(k..Seen) = IF k > Seen THEN 0 ELSE Seen - k + 1
      BY <1>1, FS_Interval
    <3> QED BY <1>1, <2>2, <3>1, <3>2
  <2>5. Cardinality(later) <= Cardinality(i + 1..Seen) /\ Cardinality(later) \in Nat
          /\ Cardinality(i + 1..Seen) \in Nat
    BY <2>3, <2>4, FS_Subset, FS_CardinalityType
  <2> QED BY <1>1, <2>1, <2>2, <2>4, <2>5
<1>5. Newest(Seen) = sells
  BY <1>3, <1>4
<1>6. ClosuresOf(Seen, sells) = Closures(Seen)
  <2>1. \A c \in Closures(Seen) : c[1] \in sells
    BY SeenClosures DEF Of
  <2> HIDE DEF sells
  <2> QED BY <2>1 DEF ClosuresOf
<1>7. LastOperations(AtOnce).total = Realized(Closures(Seen))
  <2> HIDE DEF sells
  <2> QED BY <1>1, <1>5, <1>6, LastOperationsSeen
<1>8. Performance(AtOnce).gross = Realized(Closures(Seen))
  BY SeenClosures DEF PerformanceOf
<1> QED BY <1>7, <1>8

\* All that is summed in several ways.
LEMMA Totals == RInv /\ Answered => TotalsAgree
<1> SUFFICES ASSUME RInv, Answered PROVE TotalsAgree
  OBVIOUS
<1> DEFINE P == Performance(AtOnce)
           O == Operational(AtOnce)
           disputed == Of(1..Seen, LAMBDA op : IsManualCorrection(op) # IsManualCorrectionOperation(op))
<1>1. /\ P.gross = P.bot + P.manual
      /\ P.gross = SumFunction(P.by_symbol) /\ P.gross = SumFunction(P.by_day)
      /\ \A d \in Days : P.by_day[d] = RealizedOnDay(Seen, d)
  BY BySourceSymbolAndDay
<1>2. Cardinality(Closures(Seen)) = SumFunction(P.count)
  BY ByResult
<1>3. /\ O.all.realized = SumFunction([v \in DOMAIN O.by_version |-> O.by_version[v].realized])
      /\ O.all.trades = SumFunction([s \in Traded |-> O.by_symbol[s].trades])
      /\ O.all.realized = Realized({c \in Closures(Seen) : c[1] \in OperationalSells(Seen)})
  BY ByVersionAndSymbol
<1>4. O.all.realized = P.bot - Realized({c \in Closures(Seen) : c[1] \in disputed})
  <2>1. Realized({c \in Closures(Seen) : c[1] \in OperationalSells(Seen)})
          = P.bot - Realized({c \in Closures(Seen) : c[1] \in disputed})
    BY DisputedResults
  <2> HIDE DEF P, O, disputed
  <2> QED BY <1>3, <2>1
<1>5. Seen <= LATEST_LIMIT => LastOperations(AtOnce).total = P.gross
  BY LastOfAll
<1> HIDE DEF P, O, disputed
<1> QED BY <1>1, <1>2, <1>3, <1>4, <1>5 DEF TotalsAgree, P, O, disputed
-----------------------------------------------------------------------------
\* Max and Min of the numbers of some operations.
LEMMA EndsOfNats ==
    ASSUME NEW n \in Nat, NEW S \in SUBSET (1..n), S # {}
    PROVE  /\ Max(S) \in S /\ \A x \in S : x <= Max(S)
           /\ Min(S) \in S /\ \A x \in S : Min(S) <= x
<1>1. S \in SUBSET Nat
  OBVIOUS
<1>2. \E x \in S : \A y \in S : x <= y
  BY <1>1, LeastNat
<1>3. Min(S) \in S /\ \A x \in S : Min(S) <= x
  BY <1>2 DEF Min
<1>4. PICK y \in S : \A x \in S : x <= y
  <2> DEFINE left == {n - x : x \in S}
  <2>1. left \in SUBSET Nat /\ left # {}
    <3>1. left \in SUBSET Nat
      OBVIOUS
    <3>2. PICK x \in S : n - x \in left
      OBVIOUS
    <3> QED BY <3>1, <3>2
  <2>2. PICK d \in left : \A e \in left : d <= e
    <3> HIDE DEF left
    <3> QED BY <2>1, LeastNat
  <2>3. PICK last \in S : d = n - last
    BY <2>2
  <2>4. ASSUME NEW x \in S PROVE x <= last
    <3>1. n - x \in left
      OBVIOUS
    <3>2. d <= n - x /\ x \in Int /\ last \in Int
      BY <2>2, <3>1
    <3> QED BY <2>3, <3>2
  <2> QED BY <2>4
<1>5. \E z \in S : \A x \in S : z >= x
  BY <1>1, <1>4
<1>6. Max(S) \in S /\ \A x \in S : Max(S) >= x
  BY <1>5 DEF Max
<1> QED BY <1>1, <1>3, <1>6

\* The SELLs of a symbol before one of its operations, and the BUYs of it after one.
SellsBefore(S, i) ==
    {j \in S : history[j].op.side = "SELL" /\ history[j].op.symbol = history[i].op.symbol /\ j < i}
BuysAfter(S, i) ==
    {j \in S : history[j].op.side = "BUY" /\ history[j].op.symbol = history[i].op.symbol /\ j > i}
Trades(S) == {i \in S : ~IsManualCorrection(history[i].op)}

LEMMA ReentriesMembers ==
    ASSUME NEW S, NEW i
    PROVE  i \in Reentries(S) <=>
             /\ i \in S /\ history[i].op.side = "BUY" /\ SellsBefore(S, i) # {}
             /\ Apart(Max(SellsBefore(S, i)), i) < CHURN_GAP
<1> DEFINE sells == {j \in Of(S, LAMBDA op : op.side = "SELL" /\ op.symbol = history[i].op.symbol) : j < i}
<1>1. sells = SellsBefore(S, i)
  BY DEF Of, SellsBefore
<1>2. i \in Reentries(S) <=> /\ i \in S /\ history[i].op.side = "BUY"
                             /\ sells # {} /\ Apart(Max(sells), i) < CHURN_GAP
  BY DEF Reentries, Of
<1> HIDE DEF sells
<1> QED BY <1>1, <1>2

LEMMA ChurnedMembers ==
    ASSUME NEW S, NEW gap, NEW i
    PROVE  i \in ChurnedSells(S, gap) <=>
             /\ i \in Trades(S) /\ history[i].op.side = "SELL" /\ BuysAfter(Trades(S), i) # {}
             /\ Apart(i, Min(BuysAfter(Trades(S), i))) <= gap
<1> DEFINE trades == Of(S, LAMBDA op : ~IsManualCorrection(op))
           buys == {j \in Of(trades, LAMBDA op : op.side = "BUY" /\ op.symbol = history[i].op.symbol) : j > i}
<1>1. trades = Trades(S)
  BY DEF Of, Trades
<1>2. buys = BuysAfter(Trades(S), i)
  <2> HIDE DEF trades
  <2> QED BY <1>1 DEF Of, BuysAfter
<1>3. i \in ChurnedSells(S, gap) <=> /\ i \in trades /\ history[i].op.side = "SELL"
                                     /\ buys # {} /\ Apart(i, Min(buys)) <= gap
  <2> HIDE DEF IsManualCorrection
  <2> QED BY DEF ChurnedSells, Of
<1> HIDE DEF buys, trades
<1> QED BY <1>1, <1>2, <1>3

\* The last SELL before a BUY and the first BUY after a SELL: the time between two operations
\* is no less than that between any two in between.
LEMMA ReentriesBothOrNeither == RInv /\ Answered => ReentriesAgree
<1> SUFFICES ASSUME RInv, Answered PROVE ReentriesAgree
  OBVIOUS
<1> DEFINE loaded == Window(Seen, report.at - CHURN_WINDOW)
           corrected == Symbols(Of(loaded, IsManualCorrection))
           short == Symbols(Reentries(loaded)) \ corrected
<1>1. Seen \in Nat /\ loaded \in SUBSET (1..Seen) /\ CHURN_GAP \in Nat
  BY AnsweredFacts, ReportsConstants DEF Window
<1>2. /\ \A i \in 1..Seen : history[i].at \in Nat
      /\ \A i \in 1..Seen, j \in 1..Seen : i <= j => history[i].at <= history[j].at
  <2>1. 1..Seen \subseteq 1..Len(history)
    BY AnsweredFacts
  <2> QED BY <2>1, OperationOf DEF RInv, InOrderOfTime
<1>3. ASSUME NEW i \in loaded, history[i].op.symbol \notin corrected
      PROVE  \A j \in loaded : history[j].op.symbol = history[i].op.symbol => j \in Trades(loaded)
  BY <1>3 DEF Symbols, Of, Trades
<1>4. \A S \in SUBSET loaded : \A i :
          SellsBefore(S, i) \in SUBSET (1..Seen) /\ BuysAfter(S, i) \in SUBSET (1..Seen)
  BY <1>1 DEF SellsBefore, BuysAfter
<1>5. Trades(loaded) \in SUBSET loaded
  BY DEF Trades
<1> HIDE DEF loaded
<1>6. ASSUME NEW s \in short
      PROVE  s \in Symbols(ChurnedSells(loaded, CHURN_GAP))
  <2>1. PICK i \in Reentries(loaded) : s = history[i].op.symbol
    BY <1>6 DEF Symbols
  <2>2. /\ i \in loaded /\ history[i].op.side = "BUY" /\ SellsBefore(loaded, i) # {}
        /\ Apart(Max(SellsBefore(loaded, i)), i) < CHURN_GAP
    BY <2>1, ReentriesMembers
  <2>3. history[i].op.symbol \notin corrected
    BY <1>6, <2>1
  <2>4. PICK j \in SellsBefore(loaded, i) : j = Max(SellsBefore(loaded, i))
    BY <1>1, <1>4, <2>2, EndsOfNats
  <2>5. /\ j \in loaded /\ history[j].op.side = "SELL" /\ j < i
        /\ history[j].op.symbol = history[i].op.symbol
    BY <2>4 DEF SellsBefore
  <2>6. i \in Trades(loaded) /\ j \in Trades(loaded)
    <3> HIDE DEF corrected
    <3> QED BY <1>3, <2>2, <2>3, <2>5
  <2>7. i \in BuysAfter(Trades(loaded), j)
    BY <1>1, <2>2, <2>5, <2>6 DEF BuysAfter
  <2>8. PICK k \in BuysAfter(Trades(loaded), j) : k = Min(BuysAfter(Trades(loaded), j)) /\ k <= i
    BY <1>1, <1>4, <1>5, <2>7, EndsOfNats
  <2>9. i \in 1..Seen /\ j \in 1..Seen /\ k \in 1..Seen
    BY <1>1, <1>4, <1>5, <2>2, <2>5, <2>8
  <2>10. history[k].at <= history[i].at /\ history[k].at \in Nat /\ history[i].at \in Nat
           /\ history[j].at \in Nat
    BY <1>2, <2>8, <2>9
  <2>11. Apart(j, k) <= CHURN_GAP
    BY <1>1, <2>2, <2>4, <2>10 DEF Apart
  <2>12. j \in ChurnedSells(loaded, CHURN_GAP)
    BY <2>5, <2>6, <2>7, <2>8, <2>11, ChurnedMembers
  <2> QED BY <2>1, <2>5, <2>12 DEF Symbols
<1>7. ASSUME NEW s \in Symbols(ChurnedSells(loaded, CHURN_GAP - 1)) \ corrected
      PROVE  s \in short
  <2>1. PICK j \in ChurnedSells(loaded, CHURN_GAP - 1) : s = history[j].op.symbol
    BY <1>7 DEF Symbols
  <2>2. /\ j \in Trades(loaded) /\ history[j].op.side = "SELL" /\ BuysAfter(Trades(loaded), j) # {}
        /\ Apart(j, Min(BuysAfter(Trades(loaded), j))) <= CHURN_GAP - 1
    BY <2>1, ChurnedMembers
  <2>3. PICK i \in BuysAfter(Trades(loaded), j) : i = Min(BuysAfter(Trades(loaded), j))
    BY <1>1, <1>4, <1>5, <2>2, EndsOfNats
  <2>4. /\ i \in Trades(loaded) /\ history[i].op.side = "BUY" /\ i > j
        /\ history[i].op.symbol = history[j].op.symbol
    BY <2>3 DEF BuysAfter
  <2>5. i \in loaded /\ j \in loaded /\ i \in 1..Seen /\ j \in 1..Seen
    BY <1>1, <1>5, <2>2, <2>4
  <2>6. j \in SellsBefore(loaded, i)
    BY <2>2, <2>4, <2>5 DEF SellsBefore
  <2>7. PICK k \in SellsBefore(loaded, i) : k = Max(SellsBefore(loaded, i)) /\ j <= k
    BY <1>1, <1>4, <2>6, EndsOfNats
  <2>8. k \in 1..Seen
    BY <1>4, <2>7
  <2>9. history[j].at <= history[k].at /\ history[k].at \in Nat /\ history[i].at \in Nat
          /\ history[j].at \in Nat
    BY <1>2, <2>5, <2>7, <2>8
  <2>10. Apart(k, i) < CHURN_GAP
    BY <1>1, <2>2, <2>3, <2>9 DEF Apart
  <2>11. i \in Reentries(loaded)
    BY <2>4, <2>5, <2>6, <2>7, <2>10, ReentriesMembers
  <2>12. s = history[i].op.symbol
    BY <2>1, <2>4
  <2> QED BY <1>7, <2>11, <2>12 DEF Symbols
<1> QED BY <1>6, <1>7 DEF ReentriesAgree, loaded

\* One report is that of the moment of its first query, and all reports tell the same of the
\* same operations (dashboard/dashboard_read_model.py:1040,
\* dashboard/services/operational_kpis.py:113).
THEOREM ReportsTellTheSame == ReportSpec => []ReportsAgree
<1>1. RInv => ReportsAgree
  BY FirstQuery, Totals, ReentriesBothOrNeither DEF ReportsAgree
<1> QED BY <1>1, ReportsInvariant, PTL
-----------------------------------------------------------------------------
LotIds == Ids \cup {NoId}
Generation == [symbol : Coins, phase : Phases]
Gens == UNION {[S -> Generation] : S \in SUBSET Ids}
Holdings == [Coins \X LotIds -> Nat]
Projection == [Coins -> Nat \cup {NoRow}]
Writes == {"opened", "moved", "shifted"}
Inquiry == [kind : DOMAIN Reads, symbols : SUBSET Coins, pos : Nat \ {0},
            generations : {<<>>} \cup Gens, lots : {<<>>} \cup Holdings,
            rows : {<<>>} \cup Projection, noted : SUBSET (Writes \X Coins),
            then : {<<>>} \cup Gens]

ModesTypeOK ==
    /\ generations \in Gens /\ holdings \in Holdings /\ projection \in Projection
    /\ inquiry = NoInquiry \/ inquiry \in Inquiry

\* Which tables the reply in work has read.
HasGenerations == inquiry.kind \in {"modes", "mode"} /\ inquiry.pos > 1
HasLots == inquiry.kind # "none" /\ inquiry.pos > 2
HasRows == \/ inquiry.kind \in {"position", "inventory"} /\ inquiry.pos > 1
           \/ inquiry.kind = "mode" /\ inquiry.pos > 3

TablesRead ==
    /\ HasGenerations => inquiry.generations \in Gens
    /\ HasLots => inquiry.lots \in Holdings /\ inquiry.then \in Gens
    /\ HasRows => inquiry.rows \in Projection

\* What may have become of the generations g: none is lost and none is open again, of those
\* closed meanwhile there are no lots, and what was opened is noted.
Since(g, gens, lots, noted) ==
    /\ DOMAIN g \subseteq DOMAIN gens
    /\ \A id \in DOMAIN g :
         /\ gens[id].symbol = g[id].symbol
         /\ g[id].phase = "CLOSED" => gens[id].phase = "CLOSED"
         /\ gens[id].phase = "CLOSED" =>
              g[id].phase = "CLOSED" \/ \A s \in Coins : lots[<<s, id>>] = 0
    /\ \A id \in DOMAIN gens \ DOMAIN g : <<"opened", gens[id].symbol>> \in noted

ListOfThen ==
    inquiry.kind = "modes" =>
        /\ inquiry.pos = 2 => Since(inquiry.generations, generations, holdings, inquiry.noted)
        /\ inquiry.pos > 2 => Since(inquiry.generations, inquiry.then, inquiry.lots, inquiry.noted)

\* What was read of a symbol of which nothing has been written since is still so.
Untouched(s) == <<"opened", s>> \notin inquiry.noted /\ <<"moved", s>> \notin inquiry.noted
ReadStill ==
    inquiry.kind # "none" => \A s \in Coins : Untouched(s) =>
        /\ HasLots => \A id \in LotIds : inquiry.lots[<<s, id>>] = holdings[<<s, id>>]
        /\ HasRows => inquiry.rows[s] = projection[s]

MInv == ModesTypeOK /\ TablesRead /\ ListOfThen /\ ReadStill

LEMMA ModesConstants ==
    /\ IsFiniteSet(Ids) /\ NoId \notin Ids /\ NoRow \notin Int /\ MaxQty \in Nat
    /\ "CLOSED" \notin ACTIVE_PHASES /\ "CLOSED" \in Phases /\ "CLOSED" \notin OddPhases
    /\ ACTIVE_PHASES \subseteq Phases /\ Phases \ {"CLOSED"} = ACTIVE_PHASES \cup OddPhases
BY ModesAssumption DEF ACTIVE_PHASES, Phases

LEMMA GensMember ==
    ASSUME NEW g
    PROVE  g \in Gens <=> DOMAIN g \in SUBSET Ids /\ g \in [DOMAIN g -> Generation]
BY DEF Gens

\* A quantity is a sum over the lots of a symbol.
LotsOf(lots, s) == [id \in LotIds |-> lots[<<s, id>>]]

LEMMA QtyFacts ==
    ASSUME NEW lots \in Holdings, NEW s \in Coins, NEW ids \in SUBSET LotIds
    PROVE  /\ IsFiniteSet(ids) /\ QtyIn(lots, s, ids) \in Nat
           /\ QtyIn(lots, s, ids) = SumFunctionOnSet(LotsOf(lots, s), ids)
           /\ QtyIn(lots, s, ids) = 0 <=> \A id \in ids : lots[<<s, id>>] = 0
<1> DEFINE qty == [id \in ids |-> lots[<<s, id>>]]
<1>1. IsFiniteSet(ids)
  <2>1. IsFiniteSet(Ids \cup {NoId})
    BY ModesConstants, FS_AddElement
  <2> QED BY <2>1, FS_Subset DEF LotIds
<1>2. \A id \in LotIds : lots[<<s, id>>] \in Nat /\ LotsOf(lots, s)[id] = lots[<<s, id>>]
  BY DEF Holdings, LotsOf
<1>3. DOMAIN qty = ids /\ \A id \in ids : qty[id] = lots[<<s, id>>]
  OBVIOUS
<1>4. QtyIn(lots, s, ids) = SumFunctionOnSet(qty, ids)
  <2>1. QtyIn(lots, s, ids) = SumFunction(qty)
    BY DEF QtyIn
  <2> HIDE DEF qty
  <2> QED BY <2>1, <1>3 DEF SumFunction
<1>5. \A id \in ids : qty[id] \in Nat /\ qty[id] \in Int /\ LotsOf(lots, s)[id] = qty[id]
  <2> SUFFICES ASSUME NEW id \in ids
               PROVE  qty[id] \in Nat /\ qty[id] \in Int /\ LotsOf(lots, s)[id] = qty[id]
    OBVIOUS
  <2>1. id \in LotIds /\ qty[id] = lots[<<s, id>>]
    BY <1>3
  <2> HIDE DEF qty
  <2> QED BY <1>2, <2>1
<1>6. SumFunctionOnSet(LotsOf(lots, s), ids) = SumFunctionOnSet(qty, ids)
  <2> HIDE DEF qty
  <2> QED BY <1>1, <1>5, SumSame
<1>7. /\ SumFunctionOnSet(qty, ids) \in Nat
      /\ SumFunctionOnSet(qty, ids) = 0 <=> \A id \in ids : qty[id] = 0
  <2> HIDE DEF qty
  <2> QED BY <1>1, <1>5, SumOfNats
<1> HIDE DEF qty
<1> QED BY <1>1, <1>3, <1>4, <1>6, <1>7

LEMMA QtyApart ==
    ASSUME NEW lots \in Holdings, NEW s \in Coins,
           NEW A \in SUBSET LotIds, NEW B \in SUBSET LotIds, A \cap B = {}
    PROVE  QtyIn(lots, s, A \cup B) = QtyIn(lots, s, A) + QtyIn(lots, s, B)
<1>1. A \cup B \in SUBSET LotIds
  OBVIOUS
<1>2. IsFiniteSet(A) /\ IsFiniteSet(B)
  BY QtyFacts
<1>3. \A id \in A \cup B : LotsOf(lots, s)[id] \in Int
  BY <1>1 DEF LotsOf, Holdings
<1>4. SumFunctionOnSet(LotsOf(lots, s), A \cup B)
        = SumFunctionOnSet(LotsOf(lots, s), A) + SumFunctionOnSet(LotsOf(lots, s), B)
  BY <1>2, <1>3, SumApart
<1> QED BY <1>1, <1>4, QtyFacts

LEMMA OpenQtyType ==
    ASSUME NEW lots \in Holdings, NEW s \in Coins
    PROVE  OpenQty(lots, s) \in Nat
BY QtyFacts DEF OpenQty, LotIds
-----------------------------------------------------------------------------
LEMMA InitModes == ModesInit => MInv
<1> SUFFICES ASSUME ModesInit PROVE MInv
  OBVIOUS
<1>1. generations \in Gens
  BY DEF ModesInit, Gens, Generation
<1>2. holdings \in Holdings
  <2>1. PICK some : holdings = [k \in Coins \X (Ids \cup {NoId}) |-> IF k \in some THEN 1 ELSE 0]
    BY DEF ModesInit
  <2> QED BY <2>1 DEF Holdings, LotIds
<1>3. projection \in Projection
  <2>1. \A s \in Coins : OpenQty(holdings, s) \in Nat
    BY <1>2, OpenQtyType
  <2> QED BY <2>1 DEF ModesInit, Projection
<1>4. inquiry = NoInquiry /\ inquiry.kind = "none"
  BY DEF ModesInit, NoInquiry
<1> QED BY <1>1, <1>2, <1>3, <1>4
        DEF MInv, ModesTypeOK, TablesRead, ListOfThen, ReadStill, HasGenerations, HasLots, HasRows

\* What a write does to the reply in work: it is noted there.
LEMMA NotedFacts ==
    ASSUME ModesTypeOK, NEW what \in Writes, NEW s \in Coins, Noted(what, s)
    PROVE  /\ inquiry' = NoInquiry \/ inquiry' \in Inquiry
           /\ inquiry'.kind = inquiry.kind /\ inquiry'.pos = inquiry.pos
           /\ inquiry.kind # "none" =>
                /\ inquiry'.symbols = inquiry.symbols /\ inquiry'.generations = inquiry.generations
                /\ inquiry'.lots = inquiry.lots /\ inquiry'.rows = inquiry.rows
                /\ inquiry'.then = inquiry.then /\ inquiry.noted \subseteq inquiry'.noted
                /\ inquiry.pos > 1 => <<what, s>> \in inquiry'.noted
<1>1. CASE inquiry.kind = "none" \/ inquiry.pos = 1
  <2>1. inquiry' = inquiry
    BY <1>1 DEF Noted
  <2> QED BY <1>1, <2>1 DEF ModesTypeOK
<1>2. CASE ~(inquiry.kind = "none" \/ inquiry.pos = 1)
  <2>1. inquiry \in Inquiry
    BY <1>2 DEF ModesTypeOK, NoInquiry
  <2>2. inquiry' = [inquiry EXCEPT !.noted = @ \cup {<<what, s>>}]
    BY <1>2 DEF Noted
  <2>3. inquiry'.noted = inquiry.noted \cup {<<what, s>>}
    BY <2>1, <2>2 DEF Inquiry
  <2>4. inquiry.noted \cup {<<what, s>>} \in SUBSET (Writes \X Coins)
    BY <2>1 DEF Inquiry
  <2>5. inquiry' \in Inquiry
    BY <2>1, <2>2, <2>4 DEF Inquiry
  <2>6. /\ inquiry'.kind = inquiry.kind /\ inquiry'.pos = inquiry.pos
        /\ inquiry'.symbols = inquiry.symbols /\ inquiry'.generations = inquiry.generations
        /\ inquiry'.lots = inquiry.lots /\ inquiry'.rows = inquiry.rows
        /\ inquiry'.then = inquiry.then
    BY <2>1, <2>2 DEF Inquiry
  <2> QED BY <2>3, <2>5, <2>6
<1> QED BY <1>1, <1>2

\* A write keeps the invariant if it keeps the types, what has become of generations that
\* were read, and the lots and the projection of every symbol that it does not note.
LEMMA WriteStep ==
    ASSUME MInv, NEW what \in Writes, NEW s \in Coins, Noted(what, s),
           generations' \in Gens, holdings' \in Holdings, projection' \in Projection,
           \A g \in Gens, noted \in SUBSET (Writes \X Coins) :
              Since(g, generations, holdings, noted)
                => Since(g, generations', holdings', noted \cup {<<what, s>>}),
           \A r \in Coins : what = "shifted" \/ r # s =>
              /\ \A id \in LotIds : holdings'[<<r, id>>] = holdings[<<r, id>>]
              /\ projection'[r] = projection[r]
    PROVE  MInv'
<1> DEFINE Frame ==
             /\ inquiry' = NoInquiry \/ inquiry' \in Inquiry
             /\ inquiry'.kind = inquiry.kind /\ inquiry'.pos = inquiry.pos
             /\ inquiry.kind # "none" =>
                /\ inquiry'.symbols = inquiry.symbols /\ inquiry'.generations = inquiry.generations
                /\ inquiry'.lots = inquiry.lots /\ inquiry'.rows = inquiry.rows
                /\ inquiry'.then = inquiry.then /\ inquiry.noted \subseteq inquiry'.noted
                /\ inquiry.pos > 1 => <<what, s>> \in inquiry'.noted
<1>1. Frame
  BY NotedFacts DEF MInv
<1>2. ModesTypeOK'
  BY <1>1 DEF ModesTypeOK
<1>3. /\ HasGenerations' <=> HasGenerations
      /\ HasLots' <=> HasLots
      /\ HasRows' <=> HasRows
      /\ HasGenerations \/ HasLots \/ HasRows => inquiry.kind # "none"
  BY <1>1 DEF HasGenerations, HasLots, HasRows
<1>4. TablesRead'
  BY <1>1, <1>3 DEF MInv, TablesRead
<1>5. ListOfThen'
  <2> SUFFICES ASSUME inquiry'.kind = "modes"
               PROVE  /\ inquiry'.pos = 2 =>
                           Since(inquiry'.generations, generations', holdings', inquiry'.noted)
                      /\ inquiry'.pos > 2 =>
                           Since(inquiry'.generations, inquiry'.then, inquiry'.lots, inquiry'.noted)
    BY DEF ListOfThen
  <2>1. inquiry.kind = "modes" /\ inquiry \in Inquiry /\ inquiry.noted \in SUBSET (Writes \X Coins)
    BY <1>1 DEF MInv, ModesTypeOK, NoInquiry, Inquiry
  <2>2. ASSUME inquiry.pos = 2
        PROVE  Since(inquiry'.generations, generations', holdings', inquiry'.noted)
    <3>1. Since(inquiry.generations, generations, holdings, inquiry.noted)
      BY <2>1, <2>2 DEF MInv, ListOfThen
    <3>2. inquiry.generations \in Gens
      BY <2>1, <2>2 DEF MInv, TablesRead, HasGenerations
    <3>3. Since(inquiry.generations, generations', holdings', inquiry.noted \cup {<<what, s>>})
      BY <2>1, <3>1, <3>2
    <3>4. inquiry.noted \cup {<<what, s>>} \subseteq inquiry'.noted
      BY <1>1, <2>1, <2>2
    <3>5. inquiry'.generations = inquiry.generations
      BY <1>1, <2>1
    <3> QED BY <3>3, <3>4, <3>5 DEF Since
  <2>3. ASSUME inquiry.pos > 2
        PROVE  Since(inquiry'.generations, inquiry'.then, inquiry'.lots, inquiry'.noted)
    <3>1. Since(inquiry.generations, inquiry.then, inquiry.lots, inquiry.noted)
      BY <2>1, <2>3 DEF MInv, ListOfThen
    <3>2. /\ inquiry'.generations = inquiry.generations /\ inquiry'.lots = inquiry.lots
          /\ inquiry'.then = inquiry.then /\ inquiry.noted \subseteq inquiry'.noted
      BY <1>1, <2>1
    <3> QED BY <3>1, <3>2 DEF Since
  <2> QED BY <1>1, <2>2, <2>3
<1>6. ReadStill'
  <2> SUFFICES ASSUME inquiry'.kind # "none", NEW r \in Coins, Untouched(r)'
               PROVE  /\ HasLots' => \A id \in LotIds : inquiry'.lots[<<r, id>>] = holdings'[<<r, id>>]
                      /\ HasRows' => inquiry'.rows[r] = projection'[r]
    BY DEF ReadStill
  <2>1. inquiry.kind # "none" /\ inquiry \in Inquiry
    BY <1>1 DEF MInv, ModesTypeOK, NoInquiry
  <2>2. SUFFICES ASSUME inquiry.pos > 1
                 PROVE  /\ HasLots => \A id \in LotIds : inquiry.lots[<<r, id>>] = holdings'[<<r, id>>]
                        /\ HasRows => inquiry.rows[r] = projection'[r]
    <3>1. HasLots \/ HasRows => inquiry.pos > 1
      BY <2>1 DEF HasLots, HasRows, Inquiry
    <3> QED BY <1>1, <1>3, <2>1, <3>1
  <2>3. Untouched(r)
    BY <1>1, <2>1 DEF Untouched
  <2>4. what = "shifted" \/ r # s
    BY <1>1, <2>1, <2>2 DEF Untouched, Writes
  <2>5. /\ \A id \in LotIds : holdings'[<<r, id>>] = holdings[<<r, id>>]
        /\ projection'[r] = projection[r]
    BY <2>4
  <2> QED BY <2>1, <2>3, <2>5 DEF MInv, ReadStill
<1> QED BY <1>2, <1>4, <1>5, <1>6 DEF MInv
LEMMA ProjectStep == ASSUME MInv, NEW s \in Coins, Project(s) PROVE MInv'
<1>1. PICK row \in (0..MaxQty) \cup {NoRow} : projection' = [projection EXCEPT ![s] = row]
  BY DEF Project
<1>2. /\ generations' = generations /\ holdings' = holdings /\ Noted("moved", s)
      /\ generations \in Gens /\ holdings \in Holdings /\ projection \in Projection
  BY DEF Project, MInv, ModesTypeOK
<1>3. projection' \in Projection /\ \A r \in Coins : r # s => projection'[r] = projection[r]
  BY <1>1, <1>2, ModesConstants DEF Projection
<1>4. ASSUME NEW g \in Gens, NEW noted \in SUBSET (Writes \X Coins),
             Since(g, generations, holdings, noted)
      PROVE  Since(g, generations', holdings', noted \cup {<<"moved", s>>})
  BY <1>2, <1>4 DEF Since
<1>5. "moved" \in Writes
  BY DEF Writes
<1> QED BY <1>2, <1>3, <1>4, <1>5, WriteStep

\* The lots move in one place.
LEMMA MovesFacts ==
    ASSUME ModesTypeOK, NEW s \in Coins, NEW id \in Ids, NEW n \in Int, Moves(s, id, n)
    PROVE  /\ holdings' \in Holdings /\ projection' \in Projection
           /\ \A r \in Coins, i \in LotIds :
                r # s \/ i # id => holdings'[<<r, i>>] = holdings[<<r, i>>]
           /\ \A r \in Coins : r # s => projection'[r] = projection[r]
<1>1. id \in LotIds /\ holdings \in [Coins \X LotIds -> Nat] /\ projection \in [Coins -> Nat \cup {NoRow}]
  BY DEF ModesTypeOK, LotIds, Holdings, Projection
<1>2. PICK row \in 0..MaxQty : projection' = [projection EXCEPT ![s] = row]
  BY DEF Moves
<1>3. PICK q \in 0..MaxQty : holdings' = [holdings EXCEPT ![<<s, id>>] = q]
  BY DEF Moves
<1>4. q \in Nat /\ row \in Nat
  BY ModesConstants
<1>5. holdings' \in Holdings /\ projection' \in Projection
  BY <1>1, <1>2, <1>3, <1>4 DEF Holdings, Projection
<1>6. \A r \in Coins, i \in LotIds : r # s \/ i # id => holdings'[<<r, i>>] = holdings[<<r, i>>]
  BY <1>1, <1>3
<1>7. \A r \in Coins : r # s => projection'[r] = projection[r]
  BY <1>1, <1>2
<1> QED BY <1>5, <1>6, <1>7

LEMMA OpenStep ==
    ASSUME MInv, NEW s \in Coins, NEW id \in Ids, NEW phase \in ACTIVE_PHASES,
           OpenGeneration(id, s, phase)
    PROVE  MInv'
<1>1. /\ generations \in Gens /\ ModesTypeOK /\ Noted("opened", s) /\ Moves(s, id, 1)
      /\ id \notin DOMAIN generations /\ phase \in Phases
  BY ModesConstants DEF MInv, ModesTypeOK, OpenGeneration
<1>2. generations' = [i \in DOMAIN generations \cup {id} |->
          IF i = id THEN [symbol |-> s, phase |-> phase] ELSE generations[i]]
  BY DEF OpenGeneration
<1>3. DOMAIN generations \in SUBSET Ids /\ generations \in [DOMAIN generations -> Generation]
  BY <1>1, GensMember
<1>4. /\ DOMAIN generations' = DOMAIN generations \cup {id}
      /\ \A i \in DOMAIN generations : generations'[i] = generations[i]
      /\ generations'[id].symbol = s
  BY <1>1, <1>2
<1>5. generations' \in Gens
  <2>1. [symbol |-> s, phase |-> phase] \in Generation
    BY <1>1 DEF Generation
  <2>2. generations' \in [DOMAIN generations \cup {id} -> Generation]
    BY <1>2, <1>3, <2>1
  <2>3. DOMAIN generations' \in SUBSET Ids
    BY <1>3, <1>4
  <2> QED BY <1>4, <2>2, <2>3, GensMember
<1>6. /\ holdings' \in Holdings /\ projection' \in Projection
      /\ \A r \in Coins, i \in LotIds :
           r # s \/ i # id => holdings'[<<r, i>>] = holdings[<<r, i>>]
      /\ \A r \in Coins : r # s => projection'[r] = projection[r]
  BY <1>1, MovesFacts
<1>7. ASSUME NEW g \in Gens, NEW noted \in SUBSET (Writes \X Coins),
             Since(g, generations, holdings, noted)
      PROVE  Since(g, generations', holdings', noted \cup {<<"opened", s>>})
  <2>1. DOMAIN g \subseteq DOMAIN generations' /\ \A i \in DOMAIN g : generations'[i] = generations[i] /\ i # id
    BY <1>1, <1>4, <1>7 DEF Since
  <2>2. ASSUME NEW i \in DOMAIN g
        PROVE  /\ generations'[i].symbol = g[i].symbol
               /\ g[i].phase = "CLOSED" => generations'[i].phase = "CLOSED"
               /\ generations'[i].phase = "CLOSED" =>
                    g[i].phase = "CLOSED" \/ \A r \in Coins : holdings'[<<r, i>>] = 0
    <3>1. i \in LotIds
      BY GensMember DEF LotIds
    <3>2. \A r \in Coins : holdings'[<<r, i>>] = holdings[<<r, i>>]
      BY <1>6, <2>1, <3>1
    <3> QED BY <1>7, <2>1, <3>2 DEF Since
  <2>3. \A i \in DOMAIN generations' \ DOMAIN g :
            <<"opened", generations'[i].symbol>> \in noted \cup {<<"opened", s>>}
    <3> SUFFICES ASSUME NEW i \in DOMAIN generations' \ DOMAIN g
                 PROVE  <<"opened", generations'[i].symbol>> \in noted \cup {<<"opened", s>>}
      OBVIOUS
    <3>1. CASE i = id
      BY <1>4, <3>1
    <3>2. CASE i # id
      <4>1. generations'[i] = generations[i] /\ i \in DOMAIN generations \ DOMAIN g
        BY <1>4, <3>2
      <4>2. <<"opened", generations[i].symbol>> \in noted
        BY <1>7, <4>1 DEF Since
      <4> QED BY <4>1, <4>2
    <3> QED BY <3>1, <3>2
  <2> QED BY <2>1, <2>2, <2>3 DEF Since
<1>8. "opened" \in Writes
  BY DEF Writes
<1> QED BY <1>1, <1>5, <1>6, <1>7, <1>8, WriteStep

LEMMA TradeStep ==
    ASSUME MInv, NEW s \in Coins, NEW id \in Ids, NEW n \in {-1, 1}, TradeLots(s, id, n)
    PROVE  MInv'
<1>1. /\ generations \in Gens /\ ModesTypeOK /\ Noted("moved", s) /\ Moves(s, id, n)
      /\ id \in WithPhase(generations, s, ACTIVE_PHASES) /\ generations' = generations /\ n \in Int
  BY DEF MInv, ModesTypeOK, TradeLots
<1>2. id \in DOMAIN generations /\ generations[id].phase # "CLOSED"
  BY <1>1, ModesConstants DEF WithPhase, OfSymbol
<1>3. /\ holdings' \in Holdings /\ projection' \in Projection
      /\ \A r \in Coins, i \in LotIds :
           r # s \/ i # id => holdings'[<<r, i>>] = holdings[<<r, i>>]
      /\ \A r \in Coins : r # s => projection'[r] = projection[r]
  BY <1>1, MovesFacts
<1>4. ASSUME NEW g \in Gens, NEW noted \in SUBSET (Writes \X Coins),
             Since(g, generations, holdings, noted)
      PROVE  Since(g, generations', holdings', noted \cup {<<"moved", s>>})
  <2>1. ASSUME NEW i \in DOMAIN g, generations[i].phase = "CLOSED"
        PROVE  \A r \in Coins : holdings'[<<r, i>>] = holdings[<<r, i>>]
    <3>1. i \in LotIds /\ i # id
      BY <1>2, <2>1, GensMember DEF LotIds
    <3> QED BY <1>3, <3>1
  <2> QED BY <1>1, <1>4, <2>1 DEF Since
<1>5. "moved" \in Writes
  BY DEF Writes
<1> QED BY <1>1, <1>3, <1>4, <1>5, WriteStep

LEMMA ShiftStep ==
    ASSUME MInv, NEW id \in DOMAIN generations, NEW phase \in Phases, Shift(id, phase)
    PROVE  MInv'
<1>1. PICK s : s = generations[id].symbol
  OBVIOUS
<1>2. /\ generations \in Gens /\ Noted("shifted", s) /\ holdings' = holdings /\ projection' = projection
      /\ generations[id].phase # "CLOSED" /\ holdings \in Holdings /\ projection \in Projection
      /\ phase = "CLOSED" => \A r \in Coins : holdings[<<r, id>>] = 0
      /\ generations' = [generations EXCEPT ![id].phase = phase]
  BY <1>1 DEF MInv, ModesTypeOK, Shift
<1>3. DOMAIN generations \in SUBSET Ids /\ generations \in [DOMAIN generations -> Generation]
  BY <1>2, GensMember
<1>4. s \in Coins /\ generations[id] \in Generation
  BY <1>1, <1>3 DEF Generation
<1>5. /\ DOMAIN generations' = DOMAIN generations
      /\ \A i \in DOMAIN generations : generations'[i].symbol = generations[i].symbol
      /\ \A i \in DOMAIN generations : i # id => generations'[i] = generations[i]
      /\ generations'[id].phase = phase
  BY <1>2, <1>4 DEF Generation
<1>6. generations' \in Gens
  <2>1. [generations[id] EXCEPT !.phase = phase] \in Generation
    BY <1>4 DEF Generation
  <2>2. generations' \in [DOMAIN generations -> Generation]
    BY <1>2, <1>3, <2>1
  <2> QED BY <1>3, <1>5, <2>2, GensMember
<1>7. ASSUME NEW g \in Gens, NEW noted \in SUBSET (Writes \X Coins),
             Since(g, generations, holdings, noted)
      PROVE  Since(g, generations', holdings', noted \cup {<<"shifted", s>>})
  <2>1. DOMAIN g \subseteq DOMAIN generations
    BY <1>7 DEF Since
  <2>2. ASSUME NEW i \in DOMAIN g
        PROVE  /\ generations'[i].symbol = g[i].symbol
               /\ g[i].phase = "CLOSED" => generations'[i].phase = "CLOSED"
               /\ generations'[i].phase = "CLOSED" =>
                    g[i].phase = "CLOSED" \/ \A r \in Coins : holdings'[<<r, i>>] = 0
    <3>1. CASE i = id
      BY <1>2, <1>5, <1>7, <2>1, <3>1 DEF Since
    <3>2. CASE i # id
      BY <1>2, <1>5, <1>7, <2>1, <3>2 DEF Since
    <3> QED BY <3>1, <3>2
  <2>3. \A i \in DOMAIN generations' \ DOMAIN g :
            <<"opened", generations'[i].symbol>> \in noted \cup {<<"shifted", s>>}
    BY <1>5, <1>7 DEF Since
  <2> QED BY <1>5, <2>1, <2>2, <2>3 DEF Since
<1>8. "shifted" \in Writes
  BY DEF Writes
<1> QED BY <1>2, <1>4, <1>6, <1>7, <1>8, WriteStep
LEMMA InquireStep ==
    ASSUME MInv, NEW kind \in DOMAIN Reads, NEW symbols \in SUBSET Coins, Inquire(kind, symbols)
    PROVE  MInv'
<1>1. /\ inquiry' = [kind |-> kind, symbols |-> symbols, pos |-> 1, generations |-> <<>>,
                     lots |-> <<>>, rows |-> <<>>, noted |-> {}, then |-> <<>>]
      /\ UNCHANGED <<generations, holdings, projection, acts>>
  BY DEF Inquire
<1>2. inquiry' \in Inquiry /\ inquiry'.pos = 1
  BY <1>1 DEF Inquiry
<1>3. ModesTypeOK'
  BY <1>1, <1>2 DEF MInv, ModesTypeOK
<1>4. ~HasGenerations' /\ ~HasLots' /\ ~HasRows'
  BY <1>2 DEF HasGenerations, HasLots, HasRows
<1> QED BY <1>2, <1>3, <1>4 DEF MInv, TablesRead, ListOfThen, ReadStill

LEMMA ReadStep == MInv /\ ReadTable => MInv'
<1> SUFFICES ASSUME MInv, ReadTable PROVE MInv'
  OBVIOUS
<1>1. inquiry.kind # "none" /\ ~Told /\ UNCHANGED <<generations, holdings, projection, acts>>
  BY DEF ReadTable
<1>2. inquiry \in Inquiry
  BY <1>1 DEF MInv, ModesTypeOK, NoInquiry
<1>3. inquiry.kind \in DOMAIN Reads /\ inquiry.pos \in Nat \ {0} /\ inquiry.pos <= Len(Reads[inquiry.kind])
  <2>1. inquiry.kind \in DOMAIN Reads /\ inquiry.pos \in Nat \ {0}
    BY <1>2 DEF Inquiry
  <2>2. Len(Reads[inquiry.kind]) \in Nat
    BY <2>1 DEF Reads
  <2> QED BY <1>1, <2>1, <2>2 DEF Told
<1>4. PICK table : table = Reads[inquiry.kind][inquiry.pos]
  OBVIOUS
<1>5. \/ inquiry.kind \in {"modes", "mode"} /\ inquiry.pos = 1 /\ table = "generations"
      \/ inquiry.kind \in {"modes", "mode"} /\ inquiry.pos = 2 /\ table = "lots"
      \/ inquiry.kind = "mode" /\ inquiry.pos = 3 /\ table = "portfolio"
      \/ inquiry.kind \in {"position", "inventory"} /\ inquiry.pos = 1 /\ table = "portfolio"
      \/ inquiry.kind \in {"position", "inventory"} /\ inquiry.pos = 2 /\ table = "lots"
  BY <1>3, <1>4 DEF Reads
<1>6. PICK at \in Inquiry :
         /\ at = [inquiry EXCEPT !.pos = @ + 1]
         /\ at.kind = inquiry.kind /\ at.pos = inquiry.pos + 1 /\ at.noted = inquiry.noted
         /\ at.generations = inquiry.generations /\ at.lots = inquiry.lots
         /\ at.rows = inquiry.rows /\ at.then = inquiry.then
  <2>1. /\ [inquiry EXCEPT !.pos = @ + 1] \in Inquiry
        /\ [inquiry EXCEPT !.pos = @ + 1].kind = inquiry.kind
        /\ [inquiry EXCEPT !.pos = @ + 1].pos = inquiry.pos + 1
        /\ [inquiry EXCEPT !.pos = @ + 1].noted = inquiry.noted
        /\ [inquiry EXCEPT !.pos = @ + 1].generations = inquiry.generations
        /\ [inquiry EXCEPT !.pos = @ + 1].lots = inquiry.lots
        /\ [inquiry EXCEPT !.pos = @ + 1].rows = inquiry.rows
        /\ [inquiry EXCEPT !.pos = @ + 1].then = inquiry.then
    BY <1>2 DEF Inquiry
  <2> QED BY <2>1
<1>7. inquiry' = CASE table = "generations" -> [at EXCEPT !.generations = generations]
                   [] table = "lots" -> [at EXCEPT !.lots = holdings, !.then = generations]
                   [] table = "portfolio" -> [at EXCEPT !.rows = projection]
  BY <1>4, <1>6 DEF ReadTable
<1>8. generations \in Gens /\ holdings \in Holdings /\ projection \in Projection
  BY DEF MInv, ModesTypeOK
<1>9. CASE table = "generations"
  <2>1. inquiry' = [at EXCEPT !.generations = generations]
    BY <1>7, <1>9
  <2>2. /\ inquiry' \in Inquiry /\ inquiry'.kind = inquiry.kind /\ inquiry'.pos = inquiry.pos + 1
        /\ inquiry'.generations = generations /\ inquiry'.lots = inquiry.lots
        /\ inquiry'.rows = inquiry.rows /\ inquiry'.then = inquiry.then /\ inquiry'.noted = inquiry.noted
    BY <1>6, <1>8, <2>1 DEF Inquiry
  <2>3. inquiry.kind \in {"modes", "mode"} /\ inquiry.pos = 1 /\ inquiry'.pos = 2
    BY <1>5, <1>9, <2>2
  <2>4. ~HasLots' /\ ~HasRows'
    BY <2>2, <2>3 DEF HasLots, HasRows
  <2>5. ModesTypeOK'
    BY <1>1, <2>2 DEF MInv, ModesTypeOK
  <2>6. TablesRead'
    BY <1>8, <2>2, <2>4 DEF TablesRead
  <2>7. Since(generations, generations, holdings, inquiry.noted)
    BY DEF Since
  <2>8. ListOfThen'
    BY <1>1, <2>2, <2>3, <2>7 DEF ListOfThen
  <2>9. ReadStill'
    BY <2>4 DEF ReadStill
  <2> QED BY <2>5, <2>6, <2>8, <2>9 DEF MInv
<1>10. CASE table = "lots"
  <2>1. inquiry' = [at EXCEPT !.lots = holdings, !.then = generations]
    BY <1>7, <1>10
  <2>2. /\ inquiry' \in Inquiry /\ inquiry'.kind = inquiry.kind /\ inquiry'.pos = inquiry.pos + 1
        /\ inquiry'.generations = inquiry.generations /\ inquiry'.lots = holdings
        /\ inquiry'.rows = inquiry.rows /\ inquiry'.then = generations /\ inquiry'.noted = inquiry.noted
    BY <1>6, <1>8, <2>1 DEF Inquiry
  <2>3. inquiry.kind \in {"modes", "mode", "position", "inventory"} /\ inquiry.pos = 2 /\ inquiry'.pos = 3
    BY <1>5, <1>10, <2>2
  <2>4. (HasGenerations' <=> HasGenerations) /\ (HasRows' <=> HasRows)
    BY <2>2, <2>3 DEF HasGenerations, HasRows
  <2>5. ModesTypeOK'
    BY <1>1, <2>2 DEF MInv, ModesTypeOK
  <2>6. TablesRead'
    BY <1>8, <2>2, <2>4 DEF MInv, TablesRead
  <2>7. ListOfThen'
    BY <1>1, <2>2, <2>3 DEF MInv, ListOfThen
  <2>8. ReadStill'
    BY <1>1, <2>2, <2>4 DEF MInv, ReadStill, Untouched
  <2> QED BY <2>5, <2>6, <2>7, <2>8 DEF MInv
<1>11. CASE table = "portfolio"
  <2>1. inquiry' = [at EXCEPT !.rows = projection]
    BY <1>7, <1>11
  <2>2. /\ inquiry' \in Inquiry /\ inquiry'.kind = inquiry.kind /\ inquiry'.pos = inquiry.pos + 1
        /\ inquiry'.generations = inquiry.generations /\ inquiry'.lots = inquiry.lots
        /\ inquiry'.rows = projection /\ inquiry'.then = inquiry.then /\ inquiry'.noted = inquiry.noted
    BY <1>6, <1>8, <2>1 DEF Inquiry
  <2>3. \/ inquiry.kind = "mode" /\ inquiry.pos = 3 /\ inquiry'.pos = 4
        \/ inquiry.kind \in {"position", "inventory"} /\ inquiry.pos = 1 /\ inquiry'.pos = 2
    BY <1>5, <1>11, <2>2
  <2>4. (HasGenerations' <=> HasGenerations) /\ (HasLots' <=> HasLots)
    BY <2>2, <2>3 DEF HasGenerations, HasLots
  <2>5. ModesTypeOK'
    BY <1>1, <2>2 DEF MInv, ModesTypeOK
  <2>6. TablesRead'
    BY <1>8, <2>2, <2>4 DEF MInv, TablesRead
  <2>7. ListOfThen'
    BY <2>2, <2>3 DEF ListOfThen
  <2>8. ReadStill'
    BY <1>1, <2>2, <2>4 DEF MInv, ReadStill, Untouched
  <2> QED BY <2>5, <2>6, <2>7, <2>8 DEF MInv
<1> QED BY <1>5, <1>9, <1>10, <1>11

LEMMA NextModes == MInv /\ [ModesNext]_modesVars => MInv'
<1> SUFFICES ASSUME MInv, [ModesNext]_modesVars PROVE MInv'
  OBVIOUS
<1>1. ASSUME UNCHANGED modesVars PROVE MInv'
  BY <1>1 DEF modesVars, MInv, ModesTypeOK, TablesRead, ListOfThen, ReadStill, Untouched,
              HasGenerations, HasLots, HasRows
<1> QED BY <1>1, ProjectStep, OpenStep, TradeStep, ShiftStep, InquireStep, ReadStep DEF ModesNext

\* What a reply has read is what the tables held, apart from what was written since, which is
\* noted (dashboard/bot_diagnostics_api.py:253).
THEOREM ModesInvariant == ModesSpec => []MInv
BY InitModes, NextModes, PTL DEF ModesSpec
-----------------------------------------------------------------------------
LEMMA ReadsLengths ==
    ASSUME NEW kind \in DOMAIN Reads
    PROVE  /\ kind \in {"modes", "mode", "position", "inventory"}
           /\ kind = "mode" => Len(Reads[kind]) = 3
           /\ kind # "mode" => Len(Reads[kind]) = 2
<1>1. kind \in {"modes", "mode", "position", "inventory"}
  BY DEF Reads
<1>2. CASE kind = "modes"
  BY <1>2 DEF Reads
<1>3. CASE kind = "mode"
  BY <1>3 DEF Reads
<1>4. CASE kind = "position"
  BY <1>4 DEF Reads
<1>5. CASE kind = "inventory"
  BY <1>5 DEF Reads
<1> QED BY <1>1, <1>2, <1>3, <1>4, <1>5

\* A reply that is told has read its tables.
LEMMA ToldHasRead ==
    ASSUME MInv, Told
    PROVE  /\ inquiry \in Inquiry /\ HasLots
           /\ inquiry.kind \in {"modes", "mode"} => HasGenerations
           /\ inquiry.kind # "modes" => HasRows
<1>1. inquiry.kind # "none" /\ inquiry.pos > Len(Reads[inquiry.kind])
  BY DEF Told
<1>2. inquiry \in Inquiry
  BY <1>1 DEF MInv, ModesTypeOK, NoInquiry
<1>3. inquiry.kind \in DOMAIN Reads /\ inquiry.pos \in Nat
  BY <1>2 DEF Inquiry
<1>4. /\ inquiry.pos > 2
      /\ inquiry.kind \in {"modes", "mode", "position", "inventory"}
      /\ inquiry.kind = "mode" => inquiry.pos > 3
  <2>1. PICK n : n = Len(Reads[inquiry.kind])
    OBVIOUS
  <2>2. inquiry.kind \in {"modes", "mode", "position", "inventory"}
          /\ (inquiry.kind = "mode" => n = 3) /\ (inquiry.kind # "mode" => n = 2)
    BY <1>3, <2>1, ReadsLengths
  <2>3. inquiry.pos > n /\ inquiry.pos \in Nat
    BY <1>1, <1>3, <2>1
  <2>4. inquiry.pos > 2 /\ (inquiry.kind = "mode" => inquiry.pos > 3)
    BY <2>2, <2>3
  <2> QED BY <2>2, <2>4
<1> QED BY <1>2, <1>3, <1>4 DEF HasLots, HasGenerations, HasRows

\* The lots of no open generation are warned of, and others only when their generation was
\* opened after the reply had read the generations.
LEMMA WarnsHolds == MInv /\ Told => WarnsOfUnassigned
<1> SUFFICES ASSUME MInv, Told, inquiry.kind = "modes", NEW s \in inquiry.symbols
             PROVE  /\ Flagged(inquiry.then, inquiry.lots, s)
                          => Flagged(inquiry.generations, inquiry.lots, s)
                    /\ Flagged(inquiry.generations, inquiry.lots, s)
                           /\ ~Flagged(inquiry.then, inquiry.lots, s)
                          => <<"opened", s>> \in inquiry.noted
  BY DEF WarnsOfUnassigned
<1>1. HasLots /\ HasGenerations /\ inquiry \in Inquiry
  BY ToldHasRead
<1>2. PICK g \in Gens, h \in Gens, lots \in Holdings :
         g = inquiry.generations /\ h = inquiry.then /\ lots = inquiry.lots
  BY <1>1 DEF MInv, TablesRead
<1>3. Since(g, h, lots, inquiry.noted)
  BY <1>1, <1>2 DEF MInv, ListOfThen, HasLots
<1>4. s \in Coins
  BY <1>1 DEF Inquiry
<1>5. ASSUME NEW id \in LotIds, lots[<<s, id>>] > 0,
             id \notin OfSymbol(h, s) \/ id \in WithPhase(h, s, {"CLOSED"})
      PROVE  id \notin OfSymbol(g, s) \/ id \in WithPhase(g, s, {"CLOSED"})
  <2>1. lots[<<s, id>>] # 0
    BY <1>5, <1>4 DEF Holdings
  <2>2. SUFFICES ASSUME id \in DOMAIN g, g[id].symbol = s PROVE g[id].phase = "CLOSED"
    BY DEF OfSymbol, WithPhase
  <2>3. id \in DOMAIN h /\ h[id].symbol = s
    BY <1>3, <2>2 DEF Since
  <2>4. h[id].phase = "CLOSED"
    BY <1>5, <2>3 DEF OfSymbol, WithPhase
  <2> QED BY <1>3, <1>4, <2>1, <2>2, <2>4 DEF Since
<1>6. ASSUME NEW id \in LotIds, lots[<<s, id>>] > 0,
             id \notin OfSymbol(g, s) \/ id \in WithPhase(g, s, {"CLOSED"}),
             ~(id \notin OfSymbol(h, s) \/ id \in WithPhase(h, s, {"CLOSED"}))
      PROVE  <<"opened", s>> \in inquiry.noted
  <2>1. id \in DOMAIN h /\ h[id].symbol = s /\ h[id].phase # "CLOSED"
    BY <1>6 DEF OfSymbol, WithPhase
  <2>2. CASE id \in DOMAIN g
    <3>1. g[id].symbol = s /\ g[id].phase # "CLOSED"
      BY <1>3, <2>1, <2>2 DEF Since
    <3> QED BY <1>6, <2>2, <3>1 DEF OfSymbol, WithPhase
  <2>3. CASE id \notin DOMAIN g
    BY <1>3, <2>1, <2>3 DEF Since
  <2> QED BY <2>2, <2>3
<1>7. Flagged(h, lots, s) => Flagged(g, lots, s)
  BY <1>5 DEF Flagged, LotIds
<1>8. Flagged(g, lots, s) /\ ~Flagged(h, lots, s) => <<"opened", s>> \in inquiry.noted
  BY <1>6 DEF Flagged, LotIds
<1> QED BY <1>2, <1>7, <1>8

\* The parts of one symbol add up to its open lots.
LEMMA BreakdownHolds ==
    ASSUME NEW g \in Gens, NEW lots \in Holdings, NEW s \in Coins
    PROVE  LET b == Breakdown(g, lots, s)  IN
           /\ b.current + b.generationless + b.closed + b.missing = OpenQty(lots, s)
           /\ b.active # b.current => Classify(g, s) = "INCONSISTENT"
           /\ Flagged(g, lots, s) <=> b.generationless + b.closed + b.missing > 0
<1> DEFINE current == WithPhase(g, s, Phases \ {"CLOSED"})
           active == WithPhase(g, s, ACTIVE_PHASES)
           closed == WithPhase(g, s, {"CLOSED"})
           missing == Ids \ OfSymbol(g, s)
           b == Breakdown(g, lots, s)
<1>1. DOMAIN g \in SUBSET Ids /\ g \in [DOMAIN g -> Generation]
  BY GensMember
<1>2. \A id \in DOMAIN g : g[id].phase \in Phases
  BY <1>1 DEF Generation
<1>3. current \in SUBSET LotIds /\ active \in SUBSET LotIds /\ closed \in SUBSET LotIds
        /\ missing \in SUBSET LotIds /\ {NoId} \in SUBSET LotIds
  BY <1>1 DEF WithPhase, OfSymbol, LotIds
<1>4. /\ b.current = QtyIn(lots, s, current) /\ b.active = QtyIn(lots, s, active)
      /\ b.closed = QtyIn(lots, s, closed) /\ b.missing = QtyIn(lots, s, missing)
      /\ b.generationless = lots[<<s, NoId>>]
  BY DEF Breakdown
<1>5. /\ current \cup closed = OfSymbol(g, s) /\ current \cap closed = {}
      /\ OfSymbol(g, s) \cup missing = Ids
      /\ OfSymbol(g, s) \cap missing = {} /\ Ids \cup {NoId} = LotIds /\ Ids \cap {NoId} = {}
  <2>1. OfSymbol(g, s) \subseteq Ids
    BY <1>1 DEF OfSymbol
  <2>2. \A id \in OfSymbol(g, s) : g[id].phase \in Phases
    BY <1>2 DEF OfSymbol
  <2>3. current \cup closed = OfSymbol(g, s) /\ current \cap closed = {}
    BY <2>2 DEF WithPhase
  <2> QED BY <2>1, <2>3, ModesConstants DEF LotIds
<1>6. QtyIn(lots, s, {NoId}) = lots[<<s, NoId>>]
  <2>1. NoId \in LotIds
    BY <1>3
  <2>2. \A x \in {NoId} : LotsOf(lots, s)[x] \in Int
    BY <2>1 DEF LotsOf, Holdings
  <2>3. SumFunctionOnSet(LotsOf(lots, s), {NoId})
          = LotsOf(lots, s)[NoId] + SumFunctionOnSet(LotsOf(lots, s), {NoId} \ {NoId})
    <3>1. IsFiniteSet({NoId}) /\ NoId \in {NoId}
      BY FS_Singleton
    <3> HIDE DEF current, closed, missing
    <3> QED BY <2>2, <3>1, SumWithout
  <2>4. {NoId} \ {NoId} = {}
    OBVIOUS
  <2>5. SumFunctionOnSet(LotsOf(lots, s), {}) = 0
    BY SumStep, FS_EmptySet
  <2>6. LotsOf(lots, s)[NoId] = lots[<<s, NoId>>] /\ lots[<<s, NoId>>] \in Int
    BY <2>1, <2>2 DEF LotsOf
  <2>7. SumFunctionOnSet(LotsOf(lots, s), {NoId}) = lots[<<s, NoId>>]
    BY <2>3, <2>4, <2>5, <2>6
  <2> QED BY <2>7, <1>3, QtyFacts
<1>7. /\ QtyIn(lots, s, OfSymbol(g, s)) = QtyIn(lots, s, current) + QtyIn(lots, s, closed)
      /\ QtyIn(lots, s, Ids) = QtyIn(lots, s, OfSymbol(g, s)) + QtyIn(lots, s, missing)
      /\ QtyIn(lots, s, LotIds) = QtyIn(lots, s, Ids) + QtyIn(lots, s, {NoId})
  <2>1. Ids \in SUBSET LotIds /\ OfSymbol(g, s) \in SUBSET LotIds
    BY <1>5
  <2> HIDE DEF current, active, closed, missing, b
  <2>2. QtyIn(lots, s, current \cup closed) = QtyIn(lots, s, current) + QtyIn(lots, s, closed)
    BY <1>3, <1>5, QtyApart
  <2>3. QtyIn(lots, s, OfSymbol(g, s) \cup missing)
          = QtyIn(lots, s, OfSymbol(g, s)) + QtyIn(lots, s, missing)
    BY <1>3, <1>5, <2>1, QtyApart
  <2>4. QtyIn(lots, s, Ids \cup {NoId}) = QtyIn(lots, s, Ids) + QtyIn(lots, s, {NoId})
    BY <1>3, <1>5, <2>1, QtyApart
  <2> QED BY <1>5, <2>2, <2>3, <2>4
<1>8. /\ QtyIn(lots, s, current) \in Nat /\ QtyIn(lots, s, closed) \in Nat
      /\ QtyIn(lots, s, missing) \in Nat /\ QtyIn(lots, s, {NoId}) \in Nat
      /\ QtyIn(lots, s, closed) = 0 <=> \A id \in closed : lots[<<s, id>>] = 0
      /\ QtyIn(lots, s, missing) = 0 <=> \A id \in missing : lots[<<s, id>>] = 0
  <2> HIDE DEF current, active, closed, missing, b
  <2> QED BY <1>3, QtyFacts
<1>9. b.current + b.generationless + b.closed + b.missing = OpenQty(lots, s)
  <2>1. OpenQty(lots, s) = QtyIn(lots, s, LotIds)
    BY DEF OpenQty, LotIds
  <2> HIDE DEF current, active, closed, missing, b
  <2> QED BY <1>4, <1>6, <1>7, <1>8, <2>1
<1>10. b.active # b.current => Classify(g, s) = "INCONSISTENT"
  <2> SUFFICES ASSUME Classify(g, s) # "INCONSISTENT" PROVE b.active = b.current
    OBVIOUS
  <2>1. WithPhase(g, s, OddPhases) = {}
    BY DEF Classify
  <2>2. current = active
    BY <2>1, ModesConstants DEF WithPhase
  <2> HIDE DEF current, active, b
  <2> QED BY <1>4, <2>2
<1>11. Flagged(g, lots, s) <=> b.generationless + b.closed + b.missing > 0
  <2>1. Flagged(g, lots, s) <=>
          \/ lots[<<s, NoId>>] > 0
          \/ \E id \in closed : lots[<<s, id>>] > 0
          \/ \E id \in missing : lots[<<s, id>>] > 0
    <3>1. NoId \notin OfSymbol(g, s)
      BY <1>1, ModesConstants DEF OfSymbol
    <3>2. closed \subseteq Ids
      BY <1>1 DEF WithPhase, OfSymbol
    <3> HIDE DEF closed
    <3>3. \A id : id \in WithPhase(g, s, {"CLOSED"}) <=> id \in closed
      BY DEF closed
    <3> QED BY <3>1, <3>2, <3>3 DEF Flagged
  <2>2. \A id \in LotIds : lots[<<s, id>>] \in Nat
    BY DEF Holdings
  <2>3. (QtyIn(lots, s, closed) > 0) <=> \E id \in closed : lots[<<s, id>>] > 0
    <3>1. \A id \in closed : lots[<<s, id>>] \in Nat
      BY <1>3, <2>2
    <3>2. (\E id \in closed : lots[<<s, id>>] > 0) <=> ~\A id \in closed : lots[<<s, id>>] = 0
      <4>1. \A n \in Nat : n > 0 <=> n # 0
        OBVIOUS
      <4> HIDE DEF current, active, closed, missing, b
      <4> QED BY <3>1, <4>1, Zenon
    <3>3. PICK q \in Nat : q = QtyIn(lots, s, closed)
      BY <1>8
    <3> HIDE DEF closed
    <3> QED BY <1>8, <3>2, <3>3
  <2>4. (QtyIn(lots, s, missing) > 0) <=> \E id \in missing : lots[<<s, id>>] > 0
    <3>1. \A id \in missing : lots[<<s, id>>] \in Nat
      BY <1>3, <2>2
    <3>2. (\E id \in missing : lots[<<s, id>>] > 0) <=> ~\A id \in missing : lots[<<s, id>>] = 0
      <4>1. \A n \in Nat : n > 0 <=> n # 0
        OBVIOUS
      <4> HIDE DEF current, active, closed, missing, b
      <4> QED BY <3>1, <4>1, Zenon
    <3>3. PICK q \in Nat : q = QtyIn(lots, s, missing)
      BY <1>8
    <3> HIDE DEF missing
    <3> QED BY <1>8, <3>2, <3>3
  <2>5. lots[<<s, NoId>>] \in Nat
    BY <1>3, <2>2
  <2> HIDE DEF current, active, closed, missing, b
  <2> QED BY <1>4, <1>8, <2>1, <2>3, <2>4, <2>5
<1> QED BY <1>9, <1>10, <1>11

\* A difference to the projection is of one moment, or of one that was written in between.
LEMMA DifferenceHolds == MInv /\ Told => DifferenceOfAMoment
<1> SUFFICES ASSUME MInv, Told, inquiry.kind # "modes", NEW s \in inquiry.symbols,
                    ~\E what \in {"opened", "moved"} : <<what, s>> \in inquiry.noted
             PROVE  Compared(inquiry.kind, inquiry.rows[s], inquiry.lots, s)
                      = Compared(inquiry.kind, projection[s], holdings, s)
  BY DEF DifferenceOfAMoment
<1>1. HasLots /\ HasRows /\ inquiry \in Inquiry
  BY ToldHasRead
<1>2. s \in Coins /\ Untouched(s) /\ inquiry.kind # "none"
  BY <1>1 DEF Inquiry, Untouched, Told
<1>3. /\ \A id \in LotIds : inquiry.lots[<<s, id>>] = holdings[<<s, id>>]
      /\ inquiry.rows[s] = projection[s]
  BY <1>1, <1>2 DEF MInv, ReadStill
<1>4. OpenQty(inquiry.lots, s) = OpenQty(holdings, s)
  <2>1. [id \in LotIds |-> inquiry.lots[<<s, id>>]] = [id \in LotIds |-> holdings[<<s, id>>]]
    BY <1>3
  <2> QED BY <2>1, Zenon DEF OpenQty, QtyIn, LotIds
<1> QED BY <1>3, <1>4 DEF Compared

\* Whatever the bot writes between two queries, the replies account for all the open lots
\* (core/telegram_diagnostics.py:546 and 572, dashboard/bot_diagnostics_api.py:253).
THEOREM InventoryHolds == ModesSpec => []InventoryAccounted
<1>1. MInv /\ Told => BreakdownAddsUp
  <2> SUFFICES ASSUME MInv, Told, inquiry.kind = "mode", NEW s \in inquiry.symbols
               PROVE  LET b == Breakdown(inquiry.generations, inquiry.lots, s)  IN
                      /\ b.current + b.generationless + b.closed + b.missing = OpenQty(inquiry.lots, s)
                      /\ b.active # b.current => Classify(inquiry.generations, s) = "INCONSISTENT"
                      /\ Flagged(inquiry.generations, inquiry.lots, s)
                            <=> b.generationless + b.closed + b.missing > 0
    BY DEF BreakdownAddsUp
  <2>1. HasLots /\ HasGenerations /\ inquiry \in Inquiry
    BY ToldHasRead
  <2>2. inquiry.generations \in Gens /\ inquiry.lots \in Holdings
    BY <2>1 DEF MInv, TablesRead
  <2>3. s \in Coins
    BY <2>1 DEF Inquiry
  <2> QED BY <2>2, <2>3, BreakdownHolds
<1>2. MInv => InventoryAccounted
  BY <1>1, WarnsHolds, DifferenceHolds DEF InventoryAccounted
<1> QED BY <1>2, ModesInvariant, PTL
-----------------------------------------------------------------------------
Reasons == {""} \cup Rejections
Heard == [at : Nat, free : Nat, verdict : Verdicts, material : SUBSET Assets, unknown : SUBSET Assets]
Rows == [Assets -> [price : Prices, updated : Nat]]
Lots == [Assets -> Nat]
Reading == [kind : DOMAIN Steps, pos : Nat \ {0}, now : Nat, pulse : {Absent} \cup Heard,
            lots : {Absent} \cup Lots, rows : {Absent} \cup Rows, rejection : Reasons, cash : Nat]

\* What the bot has written and what a reply has read of it.
RepliesTypeOK ==
    /\ hour \in Nat /\ cash \in Nat /\ positions \in Lots /\ quotes \in Rows
    /\ rejected \in Reasons /\ pulse \in {Absent} \cup Heard
    /\ answer = NoAnswer \/ answer \in Reading

LEMMA RepliesConstants ==
    /\ STALE \in Nat /\ MATERIAL_MIN \in Nat /\ MAX_POSITIONS \in Nat /\ BUY_AMOUNT \in Nat
    /\ Prices \subseteq Nat /\ Absent \notin Int /\ Verdicts \subseteq Verdict
    /\ IsFiniteSet(Assets)
BY RepliesAssumption

LEMMA SaidType ==
    ASSUME RepliesTypeOK, NEW verdict \in Verdicts
    PROVE  Said(verdict) \in Heard
BY DEF RepliesTypeOK, Said, Heard, Held

LEMMA InitReplies == RepliesInit => RepliesTypeOK
<1> SUFFICES ASSUME RepliesInit PROVE RepliesTypeOK
  OBVIOUS
<1>1. hour \in Nat /\ cash \in Nat /\ rejected \in Reasons /\ answer = NoAnswer
  <2>1. hour = 0 /\ cash = BUY_AMOUNT /\ answer = NoAnswer
    BY Zenon DEF RepliesInit
  <2>2. rejected \in Reasons
    BY Zenon DEF RepliesInit, Reasons
  <2> QED BY <2>1, <2>2, RepliesConstants
<1>2. positions \in Lots /\ quotes \in Rows
  <2>1. positions \in [Assets -> 0..MATERIAL_MIN] /\ quotes \in [Assets -> [price : Prices, updated : {0}]]
    BY DEF RepliesInit
  <2>2. positions \in Lots
    BY <2>1, RepliesConstants DEF Lots
  <2>3. \A a \in Assets : quotes[a] \in [price : Prices, updated : Nat]
    BY <2>1
  <2> QED BY <2>1, <2>2, <2>3 DEF Rows
<1>3. ASSUME NEW verdict \in Verdicts PROVE Said(verdict) \in Heard
  BY <1>1, <1>2 DEF Said, Heard, Held
<1>4. pulse \in {Absent} \cup Heard
  BY <1>3 DEF RepliesInit
<1> QED BY <1>1, <1>2, <1>4 DEF RepliesTypeOK

LEMMA ReadingUpdates ==
    ASSUME RepliesTypeOK, answer.kind # "none"
    PROVE  /\ answer \in Reading
           /\ [answer EXCEPT !.pos = @ + 1] \in Reading
BY DEF RepliesTypeOK, NoAnswer, Reading

LEMMA NextReplies == RepliesTypeOK /\ [RepliesNext]_repliesVars => RepliesTypeOK'
<1> SUFFICES ASSUME RepliesTypeOK, [RepliesNext]_repliesVars PROVE RepliesTypeOK'
  OBVIOUS
<1>1. ASSUME PassHour PROVE RepliesTypeOK'
  <2>1. hour' \in Nat
    BY <1>1 DEF PassHour, RepliesTypeOK
  <2>2. UNCHANGED <<cash, positions, quotes, rejected, pulse, answer>>
    BY <1>1 DEF PassHour, market
  <2> QED BY <2>1, <2>2 DEF RepliesTypeOK
<1>2. ASSUME NEW a \in Assets, BuyLot(a) PROVE RepliesTypeOK'
  <2>1. cash' \in Nat /\ positions' \in Lots
    <3>1. quotes[a].price \in Nat /\ positions[a] \in Nat
      BY RepliesConstants DEF RepliesTypeOK, Lots, Rows
    <3> QED BY <1>2, <3>1 DEF BuyLot, RepliesTypeOK, Lots
  <2> QED BY <1>2, <2>1 DEF BuyLot, Deed, RepliesTypeOK
<1>3. ASSUME NEW a \in Assets, SellLot(a) PROVE RepliesTypeOK'
  <2>1. cash' \in Nat /\ positions' \in Lots
    <3>1. quotes[a].price \in Nat /\ positions[a] \in Nat
      BY RepliesConstants DEF RepliesTypeOK, Lots, Rows
    <3> QED BY <1>3, <3>1 DEF SellLot, RepliesTypeOK, Lots
  <2> QED BY <1>3, <2>1 DEF SellLot, Deed, RepliesTypeOK
<1>4. ASSUME NEW a \in Assets, NEW price \in Prices, Quote(a, price) PROVE RepliesTypeOK'
  <2>1. quotes' \in Rows
    BY <1>4 DEF Quote, RepliesTypeOK, Rows
  <2> QED BY <1>4, <2>1 DEF Quote, Deed, RepliesTypeOK
<1>5. ASSUME NEW reason \in Rejections, Reject(reason) PROVE RepliesTypeOK'
  BY <1>5 DEF Reject, Deed, Reasons, RepliesTypeOK
<1>6. ASSUME NEW verdict \in Verdicts, Report(verdict) PROVE RepliesTypeOK'
  <2>1. pulse' \in {Absent} \cup Heard
    BY <1>6, SaidType DEF Report
  <2> QED BY <1>6, <2>1 DEF Report, Deed, RepliesTypeOK
<1>7. ASSUME NEW kind \in DOMAIN Steps, Command(kind) PROVE RepliesTypeOK'
  <2>1. answer' \in Reading
    <3>1. PICK none \in Reasons :
             answer' = [kind |-> kind, pos |-> 1, now |-> 0, pulse |-> Absent, lots |-> Absent,
                        rows |-> Absent, rejection |-> none, cash |-> 0]
      BY <1>7, Zenon DEF Command, Reasons
    <3> QED BY <3>1 DEF Reading
  <2> QED BY <1>7, <2>1 DEF Command, RepliesTypeOK, market
<1>8. ASSUME ReadNext PROVE RepliesTypeOK'
  <2>1. answer \in Reading
    BY <1>8, ReadingUpdates DEF ReadNext
  <2>2. PICK at \in Reading : at = [answer EXCEPT !.pos = @ + 1]
    BY <1>8, ReadingUpdates DEF ReadNext
  <2>3. /\ [at EXCEPT !.now = hour] \in Reading
        /\ [at EXCEPT !.pulse = pulse] \in Reading
        /\ [at EXCEPT !.lots = positions, !.cash = cash] \in Reading
        /\ [at EXCEPT !.rejection = rejected] \in Reading
        /\ [at EXCEPT !.rows = quotes] \in Reading
    BY DEF RepliesTypeOK, Reading
  <2>4. PICK step : step = Steps[answer.kind][answer.pos]
    OBVIOUS
  <2>5. step \in {"now", "pulse", "lots", "rows", "rejection"}
    <3>1. answer.kind \in DOMAIN Steps /\ answer.pos \in Nat \ {0}
             /\ ~(answer.pos > Len(Steps[answer.kind]))
      BY <1>8, <2>1 DEF ReadNext, Given, Reading
    <3>2. CASE answer.kind = "portfolio_status"
      <4>1. Steps[answer.kind] = <<"now", "pulse", "lots", "rows">>
        BY <3>2 DEF Steps
      <4>2. answer.pos \in 1..4
        BY <3>1, <4>1
      <4> QED BY <2>4, <4>1, <4>2
    <3>3. CASE answer.kind = "buy_status"
      <4>1. Steps[answer.kind] = <<"pulse", "now", "rejection", "rows">>
        BY <3>3 DEF Steps
      <4>2. answer.pos \in 1..4
        BY <3>1, <4>1
      <4> QED BY <2>4, <4>1, <4>2
    <3>4. answer.kind \in {"portfolio_status", "buy_status"}
      BY <3>1 DEF Steps
    <3> QED BY <3>2, <3>3, <3>4
  <2>6. answer' \in {[at EXCEPT !.now = hour], [at EXCEPT !.pulse = pulse],
                     [at EXCEPT !.lots = positions, !.cash = cash],
                     [at EXCEPT !.rejection = rejected], [at EXCEPT !.rows = quotes]}
    BY <1>8, <2>2, <2>4, <2>5 DEF ReadNext
  <2>7. answer' \in Reading
    BY <2>3, <2>6
  <2> QED BY <1>8, <2>7 DEF ReadNext, RepliesTypeOK, market
<1>9. ASSUME ReadError PROVE RepliesTypeOK'
  <2>1. answer' = NoAnswer \/ answer' \in Reading
    BY <1>9, ReadingUpdates DEF ReadError
  <2> QED BY <1>9, <2>1 DEF ReadError, RepliesTypeOK, market
<1>10. ASSUME UNCHANGED repliesVars PROVE RepliesTypeOK'
  BY <1>10 DEF repliesVars, market, RepliesTypeOK
<1> QED BY <1>1, <1>2, <1>3, <1>4, <1>5, <1>6, <1>7, <1>8, <1>9, <1>10 DEF RepliesNext

\* What the bot has written and what a reply has read of it keep their types
\* (core/telegram_diagnostics.py:709).
THEOREM RepliesTypes == RepliesSpec => []RepliesTypeOK
BY InitReplies, NextReplies, PTL DEF RepliesSpec
-----------------------------------------------------------------------------
\* The value of the open lots is that of all the lots.
LEMMA HeldIsAll ==
    ASSUME NEW lots \in Lots, NEW rows \in Rows
    PROVE  /\ OpenValue(lots, rows, Held(lots)) = SumFunction([a \in Assets |-> Worth(rows, lots, a)])
           /\ OpenValue(lots, rows, Held(lots)) \in Int
<1> DEFINE worth == [a \in Assets |-> Worth(rows, lots, a)]
           open == [a \in Held(lots) |-> Worth(rows, lots, a)]
           rest == Assets \ Held(lots)
<1>1. \A a \in Assets : /\ worth[a] = Worth(rows, lots, a) /\ worth[a] \in Int
                        /\ a \notin Held(lots) => worth[a] = 0
  <2> SUFFICES ASSUME NEW a \in Assets
               PROVE  /\ worth[a] = Worth(rows, lots, a) /\ worth[a] \in Int
                      /\ a \notin Held(lots) => worth[a] = 0
    OBVIOUS
  <2>1. lots[a] \in Nat /\ rows[a].price \in Nat /\ (a \notin Held(lots) => lots[a] = 0)
    <3>1. lots[a] \in Nat /\ rows[a] \in [price : Prices, updated : Nat]
      BY DEF Lots, Rows
    <3>2. rows[a].price \in Nat
      BY <3>1, RepliesConstants
    <3> QED BY <3>1, <3>2 DEF Held
  <2>2. \A m \in Nat, n \in Nat : m * n \in Int /\ (m = 0 => m * n = 0)
    OBVIOUS
  <2> QED BY <2>1, <2>2 DEF Worth
<1>2. Held(lots) \in SUBSET Assets /\ Held(lots) \cup rest = Assets /\ Held(lots) \cap rest = {}
  BY DEF Held
<1>3. IsFiniteSet(Held(lots)) /\ IsFiniteSet(rest)
  BY <1>2, RepliesConstants, FS_Subset
<1>4. SumFunctionOnSet(worth, rest) = 0
  <2> HIDE DEF worth
  <2> QED BY <1>1, <1>3, SumOfZeros
<1>5. SumFunctionOnSet(worth, Held(lots) \cup rest)
        = SumFunctionOnSet(worth, Held(lots)) + SumFunctionOnSet(worth, rest)
  <2> HIDE DEF worth, rest
  <2> QED BY <1>1, <1>2, <1>3, SumApart
<1>6. SumFunctionOnSet(worth, Held(lots)) \in Int
  <2> HIDE DEF worth, rest
  <2> QED BY <1>1, <1>2, <1>3, SumType
<1>7. SumFunctionOnSet(open, Held(lots)) = SumFunctionOnSet(worth, Held(lots))
  <2>1. \A a \in Held(lots) : worth[a] \in Int /\ open[a] = worth[a]
    BY <1>1, <1>2
  <2> HIDE DEF worth, open
  <2> QED BY <2>1, <1>3, SumSame
<1>8. DOMAIN worth = Assets /\ DOMAIN open = Held(lots)
  OBVIOUS
<1>9. SumFunction(worth) = SumFunctionOnSet(worth, Assets)
      /\ SumFunction(open) = SumFunctionOnSet(open, Held(lots))
  <2> HIDE DEF worth, open
  <2> QED BY <1>8 DEF SumFunction
<1>10. SumFunction(open) = SumFunction(worth) /\ SumFunction(open) \in Int
  <2> HIDE DEF worth, open, rest
  <2>1. SumFunctionOnSet(worth, Assets) = SumFunctionOnSet(worth, Held(lots)) + 0
    BY <1>2, <1>4, <1>5
  <2>2. SumFunctionOnSet(worth, Assets) = SumFunctionOnSet(worth, Held(lots))
    BY <2>1, <1>6
  <2> QED BY <2>2, <1>6, <1>7, <1>9
<1> QED BY <1>10 DEF OpenValue

\* An equity that is told is of the cash and of all that is held.
LEMMA EquityHolds == RepliesTypeOK /\ Given => EquityExact
<1> SUFFICES ASSUME RepliesTypeOK, Given, answer.kind = "portfolio_status",
                    Absent \notin {answer.lots, answer.rows},
                    Equity(answer.lots, answer.rows, Free, answer.now) # Absent
             PROVE  /\ Equity(answer.lots, answer.rows, Free, answer.now)
                          - (answer.cash
                              + SumFunction([a \in Assets |-> Worth(answer.rows, answer.lots, a)]))
                          = answer.pulse.free - answer.cash
                    /\ \A a \in Held(answer.lots) : answer.now - answer.rows[a].updated <= STALE
  BY DEF EquityExact
<1>1. answer \in Reading
  BY DEF RepliesTypeOK, Given, NoAnswer
<1>2. PICK lots \in Lots, rows \in Rows : lots = answer.lots /\ rows = answer.rows
  BY <1>1 DEF Reading
<1>3. PICK now \in Nat : now = answer.now
  BY <1>1 DEF Reading
<1>0. PICK free : free = Free
  OBVIOUS
<1> DEFINE priced == {a \in Held(lots) : ~Aged(rows[a].updated, now) /\ rows[a].price > 0}
<1>4. priced = Held(lots) /\ free # Absent
        /\ Equity(lots, rows, free, now) = free + OpenValue(lots, rows, priced)
  BY <1>0, <1>2, <1>3 DEF Equity
<1>5. free = answer.pulse.free /\ free \in Nat
  BY <1>0, <1>1, <1>4 DEF Free, Reading, Heard
<1>6. PICK value \in Int :
         /\ value = OpenValue(lots, rows, Held(lots))
         /\ value = SumFunction([a \in Assets |-> Worth(rows, lots, a)])
  BY HeldIsAll
<1>7. answer.cash \in Nat
  BY <1>1 DEF Reading
<1>8. \A a \in Held(lots) : now - rows[a].updated <= STALE
  <2> SUFFICES ASSUME NEW a \in Held(lots) PROVE now - rows[a].updated <= STALE
    OBVIOUS
  <2>1. ~(now - rows[a].updated > STALE)
    BY <1>4 DEF Aged
  <2>2. rows[a].updated \in Nat
    BY DEF Rows, Held
  <2> QED BY <2>1, <2>2, RepliesConstants
<1>9. Equity(lots, rows, free, now) = free + value
  BY <1>4, <1>6
<1>10. (free + value) - (answer.cash + value) = free - answer.cash
  BY <1>5, <1>7
<1> HIDE DEF priced
<1> QED BY <1>0, <1>2, <1>3, <1>5, <1>6, <1>8, <1>9, <1>10

LEMMA GreaterOfZero ==
    ASSUME NEW n \in Int
    PROVE  Max({0, n}) = IF n > 0 THEN n ELSE 0
<1>1. PICK m \in {0, n} : \A y \in {0, n} : m >= y
  OBVIOUS
<1>2. Max({0, n}) \in {0, n} /\ \A y \in {0, n} : Max({0, n}) >= y
  BY <1>1 DEF Max
<1>3. PICK x : x = Max({0, n})
  OBVIOUS
<1> QED BY <1>2, <1>3

\* The slots that a report leaves, in the numbers that it counts.
LEMMA SlotsOf ==
    ASSUME NEW p \in Heard
    PROVE  /\ Effective(p) # Absent =>
                 /\ p.verdict.counts /\ Effective(p) \in Nat
                 /\ Cardinality(p.material \cup p.unknown) <= Effective(p)
                 /\ Slots(p) \in Nat /\ (Slots(p) > 0 <=> Effective(p) < MAX_POSITIONS)
           /\ Effective(p) = Absent => Slots(p) = Absent
           /\ p # Absent /\ p.verdict.counts => Effective(p) # Absent
           /\ Slots(p) = Absent <=> Effective(p) = Absent
<1>1. IsFiniteSet(p.material) /\ IsFiniteSet(p.unknown)
  <2>1. p.material \in SUBSET Assets /\ p.unknown \in SUBSET Assets
    BY DEF Heard
  <2> QED BY <2>1, RepliesConstants, FS_Subset
<1>2. /\ Cardinality(p.material) \in Nat /\ Cardinality(p.unknown) \in Nat
      /\ Cardinality(p.material \cup p.unknown) <= Cardinality(p.material) + Cardinality(p.unknown)
  <2>1. IsFiniteSet(p.material \cap p.unknown)
    BY <1>1, FS_Subset
  <2>2. Cardinality(p.material) \in Nat /\ Cardinality(p.unknown) \in Nat
          /\ Cardinality(p.material \cap p.unknown) \in Nat
    BY <1>1, <2>1, FS_CardinalityType
  <2>3. Cardinality(p.material \cup p.unknown)
          = Cardinality(p.material) + Cardinality(p.unknown) - Cardinality(p.material \cap p.unknown)
    BY <1>1, FS_Union
  <2> QED BY <2>2, <2>3
<1>3. CASE Counts(p)
  <2>1. Effective(p) = Cardinality(p.material) + Cardinality(p.unknown) /\ p.verdict.counts
    BY <1>3 DEF Effective, Counts
  <2>2. PICK n \in Nat : n = Effective(p)
    BY <1>2, <2>1
  <2>3. n # Absent
    BY RepliesConstants
  <2>4. Slots(p) = IF MAX_POSITIONS - n > 0 THEN MAX_POSITIONS - n ELSE 0
    BY <2>2, <2>3, GreaterOfZero, RepliesConstants DEF Slots
  <2>5. Slots(p) \in Nat /\ (Slots(p) > 0 <=> n < MAX_POSITIONS)
    BY <2>4, RepliesConstants
  <2>6. Slots(p) # Absent
    BY <2>5, RepliesConstants
  <2> QED BY <1>2, <2>1, <2>2, <2>3, <2>5, <2>6
<1>4. CASE ~Counts(p)
  BY <1>4 DEF Counts, Effective, Slots
<1> QED BY <1>3, <1>4

\* The heading says that BUY is available only if nothing in the report is against it.
LEMMA AvailableOf ==
    ASSUME NEW p \in Heard, NEW reason, Interpret(p, reason) = "available"
    PROVE  /\ Effective(p) # Absent /\ p.verdict.read_only = FALSE
           /\ p.verdict.decision # "blocked_by_positions"
           /\ ~(p.verdict.decision = "blocked_by_usdt" \/ reason = "free_usdt_below_buy_amount")
           /\ ~(Effective(p) >= MAX_POSITIONS) /\ ~(p.free < BUY_AMOUNT)
<1>1. p.verdict.read_only \in BOOLEAN
  BY RepliesConstants DEF Heard, Verdict
<1>2. /\ Effective(p) # Absent /\ ~p.verdict.read_only
      /\ p.verdict.decision # "blocked_by_positions"
      /\ ~(p.verdict.decision = "blocked_by_usdt" \/ reason = "free_usdt_below_buy_amount")
      /\ ~(Effective(p) >= MAX_POSITIONS) /\ ~(p.free < BUY_AMOUNT)
  BY DEF Interpret
<1> QED BY <1>1, <1>2

\* format_buy_status, for some reason.
LEMMA BuyStatusOf ==
    ASSUME NEW p, NEW rejection, NEW rows, NEW now
    PROVE  \E reason, label : \E stale \in BOOLEAN :
             /\ stale = (p = Absent \/ Aged(p.at, now) \/ p.at > now)
             /\ label = IF stale THEN "diagnostic_unavailable" ELSE Interpret(p, reason)
             /\ BuyStatus(p, rejection, rows, now).label = label
             /\ BuyStatus(p, rejection, rows, now).stale = stale
             /\ BuyStatus(p, rejection, rows, now).exposure = Exposure(p, rows)
             /\ BuyStatus(p, rejection, rows, now).lines
                  = IF stale THEN {"unavailable"} ELSE StatusLines(p, reason, label)
<1>1. PICK stale \in BOOLEAN : stale = (p = Absent \/ Aged(p.at, now) \/ p.at > now)
  OBVIOUS
<1>2. PICK reason : reason = IF stale THEN "" ELSE IF p.verdict.reason # "" THEN p.verdict.reason ELSE rejection
  BY Zenon
<1>3. PICK label : label = IF stale THEN "diagnostic_unavailable" ELSE Interpret(p, reason)
  OBVIOUS
<1>4. BuyStatus(p, rejection, rows, now)
        = [label |-> label, stale |-> stale, exposure |-> Exposure(p, rows),
           lines |-> IF stale THEN {"unavailable"} ELSE StatusLines(p, reason, label)]
  BY <1>1, <1>2, <1>3, Zenon DEF BuyStatus
<1>5. /\ BuyStatus(p, rejection, rows, now).label = label
      /\ BuyStatus(p, rejection, rows, now).stale = stale
      /\ BuyStatus(p, rejection, rows, now).exposure = Exposure(p, rows)
      /\ BuyStatus(p, rejection, rows, now).lines
           = IF stale THEN {"unavailable"} ELSE StatusLines(p, reason, label)
  BY <1>4
<1> WITNESS reason, label
<1> WITNESS stale \in BOOLEAN
<1> QED BY <1>1, <1>3, <1>5

\* The status of the BUYs says of each limit what the report said.
LEMMA SlotsHold == RepliesTypeOK /\ Given => SlotsHonest
<1> SUFFICES ASSUME RepliesTypeOK, Given, answer.kind = "buy_status" PROVE SlotsHonest
  BY DEF SlotsHonest
<1>1. answer \in Reading
  BY DEF RepliesTypeOK, Given, NoAnswer
<1>2. PICK p \in {Absent} \cup Heard, now \in Nat, rows \in {Absent} \cup Rows :
         p = answer.pulse /\ now = answer.now /\ rows = answer.rows
  BY <1>1 DEF Reading
<1>3. PICK status : status = BuyStatus(p, answer.rejection, rows, now)
  OBVIOUS
<1>4. PICK reason, label : \E stale \in BOOLEAN :
         /\ stale = (p = Absent \/ Aged(p.at, now) \/ p.at > now)
         /\ label = IF stale THEN "diagnostic_unavailable" ELSE Interpret(p, reason)
         /\ status.label = label
         /\ status.stale = stale
         /\ status.exposure = Exposure(p, rows)
         /\ status.lines = IF stale THEN {"unavailable"} ELSE StatusLines(p, reason, label)
  BY <1>3, BuyStatusOf
<1>5. PICK stale \in BOOLEAN :
         /\ stale = (p = Absent \/ Aged(p.at, now) \/ p.at > now)
         /\ label = IF stale THEN "diagnostic_unavailable" ELSE Interpret(p, reason)
         /\ status.label = label
         /\ status.stale = stale
         /\ status.exposure = Exposure(p, rows)
         /\ status.lines = IF stale THEN {"unavailable"} ELSE StatusLines(p, reason, label)
  BY <1>4
<1>6. ASSUME ~stale
      PROVE  p # Absent /\ p \in Heard /\ p.at \in Nat /\ p.free \in Nat /\ now - p.at \in 0..STALE
  <2>1. p # Absent /\ ~Aged(p.at, now) /\ ~(p.at > now)
    BY <1>5, <1>6
  <2>2. p \in Heard
    BY <2>1
  <2>3. p.at \in Nat /\ p.free \in Nat
    BY <2>2 DEF Heard
  <2> QED BY <2>1, <2>2, <2>3, RepliesConstants DEF Aged
<1>7. ASSUME status.label = "available"
      PROVE  /\ p # Absent /\ now - p.at \in 0..STALE
             /\ Cardinality(p.material \cup p.unknown) < MAX_POSITIONS /\ p.free >= BUY_AMOUNT
             /\ ~p.verdict.read_only /\ status.lines = {"capacity"}
  <2>1. ~stale /\ Interpret(p, reason) = "available" /\ label = "available"
    BY <1>5, <1>7
  <2>2. p \in Heard
    BY <1>6, <2>1
  <2>3. /\ Effective(p) # Absent /\ p.verdict.read_only = FALSE
        /\ p.verdict.decision # "blocked_by_positions"
        /\ ~(p.verdict.decision = "blocked_by_usdt" \/ reason = "free_usdt_below_buy_amount")
        /\ ~(Effective(p) >= MAX_POSITIONS) /\ ~(p.free < BUY_AMOUNT)
    BY <2>1, <2>2, AvailableOf
  <2>4. /\ Effective(p) \in Nat /\ Cardinality(p.material \cup p.unknown) <= Effective(p)
        /\ Slots(p) \in Nat /\ Slots(p) > 0 /\ Slots(p) # Absent
    BY <2>2, <2>3, SlotsOf, RepliesConstants
  <2>5. Cardinality(p.material \cup p.unknown) \in Nat
    <3>1. p.material \cup p.unknown \in SUBSET Assets
      BY <2>2 DEF Heard
    <3>2. IsFiniteSet(p.material \cup p.unknown)
      BY <3>1, RepliesConstants, FS_Subset
    <3> QED BY <3>2, FS_CardinalityType
  <2>6. Cardinality(p.material \cup p.unknown) < MAX_POSITIONS
    BY <2>3, <2>4, <2>5, RepliesConstants
  <2>7. p.free >= BUY_AMOUNT
    BY <1>6, <2>1, <2>3, RepliesConstants
  <2>8. status.lines = {"capacity"}
    <3>1. status.lines = StatusLines(p, reason, label)
      BY <1>5, <2>1
    <3> QED BY <3>1, <2>1, <2>3, <2>4 DEF StatusLines
  <2> QED BY <1>6, <2>1, <2>3, <2>6, <2>7, <2>8
<1>8. ASSUME {"capacity", "no slots"} \subseteq status.lines
      PROVE  p.verdict.decision = "blocked_by_positions"
  <2>1. ~stale
    <3>1. "capacity" \in status.lines
      BY <1>8
    <3>2. SUFFICES ASSUME stale PROVE FALSE
      OBVIOUS
    <3>3. status.lines = {"unavailable"}
      BY <1>5, <3>2
    <3> QED BY <3>1, <3>3
  <2>2. p \in Heard /\ status.lines = StatusLines(p, reason, label) /\ label = Interpret(p, reason)
    BY <1>5, <1>6, <2>1
  <2>3. Slots(p) # Absent /\ Slots(p) > 0
    BY <1>8, <2>2 DEF StatusLines
  <2>4. /\ Effective(p) # Absent /\ Effective(p) \in Nat /\ Effective(p) < MAX_POSITIONS
    BY <2>2, <2>3, SlotsOf
  <2>5. "blocked_by_positions" \in {p.verdict.decision, label}
    BY <1>8, <2>2, <2>3 DEF StatusLines
  <2>6. ASSUME label = "blocked_by_positions"
        PROVE  p.verdict.decision = "blocked_by_positions"
    <3>1. ~(Effective(p) >= MAX_POSITIONS)
      BY <2>4, RepliesConstants
    <3> QED BY <2>2, <2>4, <2>6, <3>1 DEF Interpret
  <2> QED BY <2>5, <2>6
<1>9. status.stale => status.lines = {"unavailable"}
  BY <1>5
<1>10. Counts(p) /\ status.exposure # Absent => {e[1] : e \in status.exposure} = p.material
  <2> SUFFICES ASSUME Counts(p), status.exposure # Absent
               PROVE  {e[1] : e \in status.exposure} = p.material
    OBVIOUS
  <2>1. status.exposure = {<<a, rows[a].price>> : a \in p.material}
    BY <1>5 DEF Exposure
  <2>2. \A e \in status.exposure : e[1] \in p.material
    BY <2>1
  <2>3. \A a \in p.material : \E e \in status.exposure : e[1] = a
    <3> SUFFICES ASSUME NEW a \in p.material PROVE \E e \in status.exposure : e[1] = a
      OBVIOUS
    <3>1. <<a, rows[a].price>> \in status.exposure
      BY <2>1
    <3>2. <<a, rows[a].price>>[1] = a
      OBVIOUS
    <3> QED BY <3>1, <3>2
  <2> QED BY <2>2, <2>3
<1> QED BY <1>2, <1>3, <1>7, <1>8, <1>9, <1>10 DEF SlotsHonest

\* A reply says of the present only what the report and the rows it has read support
\* (core/telegram_diagnostics.py:709 and 869).
THEOREM RepliesSupported == RepliesSpec => []RepliesOfTheReport
<1>1. RepliesTypeOK => RepliesOfTheReport
  BY EquityHolds, SlotsHold DEF RepliesOfTheReport
<1> QED BY <1>1, RepliesTypes, PTL
-----------------------------------------------------------------------------
\* The sum over the first n + 1 numbers.
LEMMA SumExtend ==
    ASSUME NEW n \in Nat, NEW f, NEW g, DOMAIN f = 1..n, DOMAIN g = 1..(n + 1),
           \A i \in 1..n : f[i] \in Nat /\ g[i] = f[i], g[n + 1] \in Nat
    PROVE  /\ SumFunction(f) \in Nat /\ SumFunction(g) \in Nat
           /\ SumFunction(g) = SumFunction(f) + g[n + 1]
<1>1. IsFiniteSet(1..n) /\ IsFiniteSet(1..(n + 1))
  <2>1. n \in Int /\ n + 1 \in Int /\ 1 \in Int
    OBVIOUS
  <2> QED BY <2>1, FS_Interval
<1>2. \A i \in 1..(n + 1) : g[i] \in Nat
  <2> SUFFICES ASSUME NEW i \in 1..(n + 1) PROVE g[i] \in Nat
    OBVIOUS
  <2>1. i \in 1..n \/ i = n + 1
    OBVIOUS
  <2> QED BY <2>1
<1>3. SumFunctionOnSet(g, 1..n) = SumFunctionOnSet(f, 1..n)
  <2>1. \A i \in 1..n : f[i] \in Int /\ g[i] = f[i]
    OBVIOUS
  <2> QED BY <1>1, <2>1, SumSame
<1>4. SumFunctionOnSet(g, (1..n) \cup {n + 1}) = g[n + 1] + SumFunctionOnSet(g, 1..n)
  <2>1. 1..n \in SUBSET (1..(n + 1)) /\ n + 1 \in (1..(n + 1)) \ (1..n)
    OBVIOUS
  <2>2. \A i \in 1..(n + 1) : g[i] \in Int
    BY <1>2
  <2> DEFINE S == 1..(n + 1)
             T == 1..n
  <2>3. IsFiniteSet(S) /\ (\A i \in S : g[i] \in Int) /\ T \in SUBSET S /\ n + 1 \in S \ T
    BY <1>1, <2>1, <2>2
  <2> HIDE DEF S, T
  <2>4. SumFunctionOnSet(g, T \cup {n + 1}) = g[n + 1] + SumFunctionOnSet(g, T)
    BY <2>3, SumWith
  <2> QED BY <2>4 DEF T
<1>5. (1..n) \cup {n + 1} = 1..(n + 1)
  OBVIOUS
<1>6. SumFunctionOnSet(f, 1..n) \in Nat
  <2>1. \A i \in 1..n : f[i] \in Nat
    OBVIOUS
  <2> QED BY <1>1, <2>1, SumOfNats
<1>7. SumFunction(f) = SumFunctionOnSet(f, 1..n) /\ SumFunction(g) = SumFunctionOnSet(g, 1..(n + 1))
  BY DEF SumFunction
<1>8. PICK a : a = SumFunctionOnSet(f, 1..n)
  OBVIOUS
<1>9. PICK b : b = SumFunctionOnSet(g, 1..(n + 1))
  OBVIOUS
<1>10. PICK c : c = g[n + 1]
  OBVIOUS
<1>11. a \in Nat /\ c \in Nat /\ b = c + a
  BY <1>3, <1>4, <1>5, <1>6, <1>8, <1>9, <1>10
<1>12. a \in Nat /\ b \in Nat /\ b = a + c
  BY <1>11
<1> QED BY <1>7, <1>8, <1>9, <1>10, <1>12

\* The sum over the elements of a sequence.
LEMMA SumOfSeq ==
    ASSUME NEW n \in Nat, NEW f, DOMAIN f = 1..n, \A i \in 1..n : f[i] \in Nat
    PROVE  /\ SumFunction(f) \in Nat
           /\ n = 0 => SumFunction(f) = 0
<1>1. IsFiniteSet(1..n)
  <2>1. n \in Int /\ 1 \in Int
    OBVIOUS
  <2> QED BY <2>1, FS_Interval
<1>2. SumFunctionOnSet(f, 1..n) \in Nat
  BY <1>1, SumOfNats
<1>3. n = 0 => SumFunctionOnSet(f, 1..n) = 0
  <2> SUFFICES ASSUME n = 0 PROVE SumFunctionOnSet(f, 1..n) = 0
    OBVIOUS
  <2>1. \A i \in 1..n : 1 <= i /\ i <= 0 /\ i \in Int
    OBVIOUS
  <2>2. \A i \in 1..n : f[i] = 0
    BY <2>1
  <2> QED BY <1>1, <2>2, SumOfZeros
<1> QED BY <1>2, <1>3 DEF SumFunction

\* The sum of which only one term counts.
LEMMA SumOfOne ==
    ASSUME NEW n \in Nat, NEW f, DOMAIN f = 1..n, NEW k \in 1..n, f[k] \in Nat,
           \A i \in 1..n : i # k => f[i] = 0
    PROVE  SumFunction(f) = f[k]
<1>1. IsFiniteSet(1..n) /\ IsFiniteSet((1..n) \ {k})
  <2>1. n \in Int /\ 1 \in Int
    OBVIOUS
  <2> QED BY <2>1, FS_Interval, FS_Subset
<1>2. \A i \in 1..n : f[i] \in Int
  <2> SUFFICES ASSUME NEW i \in 1..n PROVE f[i] \in Int
    OBVIOUS
  <2> QED BY i = k \/ i # k
<1>3. SumFunctionOnSet(f, 1..n) = f[k] + SumFunctionOnSet(f, (1..n) \ {k})
  BY <1>1, <1>2, SumWithout
<1>4. SumFunctionOnSet(f, (1..n) \ {k}) = 0
  <2>1. \A i \in (1..n) \ {k} : f[i] = 0
    OBVIOUS
  <2> QED BY <1>1, <2>1, SumOfZeros
<1> QED BY <1>3, <1>4 DEF SumFunction

\* How long pieces, segments and tags are.
LEMMA LengthOf ==
    ASSUME NEW S, \A x \in S : x.len \in Nat, NEW P \in Seq(S)
    PROVE  Length(P) \in Nat /\ (P = <<>> => Length(P) = 0)
<1> DEFINE f == [i \in DOMAIN P |-> P[i].len]
<1>1. Len(P) \in Nat /\ DOMAIN f = 1..Len(P) /\ \A i \in 1..Len(P) : f[i] \in Nat
  OBVIOUS
<1>2. P = <<>> => Len(P) = 0
  OBVIOUS
<1>3. Length(P) = SumFunction(f)
  BY DEF Length
<1> HIDE DEF f
<1> QED BY <1>1, <1>2, <1>3, SumOfSeq

LEMMA LengthAppend ==
    ASSUME NEW S, \A x \in S : x.len \in Nat, NEW P \in Seq(S), NEW p \in S
    PROVE  Length(P) \in Nat /\ Length(Append(P, p)) = Length(P) + p.len
<1> DEFINE Q == Append(P, p)
           f == [i \in DOMAIN P |-> P[i].len]
           g == [i \in DOMAIN Q |-> Q[i].len]
           n == Len(P)
<1>1. n \in Nat /\ Q \in Seq(S) /\ Len(Q) = n + 1 /\ Q[n + 1] = p /\ \A i \in 1..n : Q[i] = P[i]
  OBVIOUS
<1>2. DOMAIN f = 1..n /\ DOMAIN g = 1..(n + 1) /\ DOMAIN P = 1..n /\ DOMAIN Q = 1..(n + 1)
  BY <1>1
<1>3. \A i \in 1..n : P[i] \in S
  OBVIOUS
<1>4. Length(P) = SumFunction(f) /\ Length(Q) = SumFunction(g)
  BY DEF Length
<1>5. \A i \in 1..n : f[i] = P[i].len
  BY <1>2
<1>6. \A i \in 1..(n + 1) : g[i] = Q[i].len
  BY <1>2
<1> HIDE DEF Q, n, f, g
<1>7. \A i \in 1..n : f[i] \in Nat /\ g[i] = f[i]
  BY <1>1, <1>3, <1>5, <1>6
<1>8. g[n + 1] = p.len /\ g[n + 1] \in Nat
  BY <1>1, <1>6
<1>9. SumFunction(f) \in Nat /\ SumFunction(g) = SumFunction(f) + g[n + 1]
  BY <1>1, <1>2, <1>7, <1>8, SumExtend
<1> QED BY <1>4, <1>8, <1>9 DEF Q

LEMMA TagLengths ==
    ASSUME NEW tags \in Seq(TagNames)
    PROVE  /\ Prefix(tags) \in Nat /\ Suffix(tags) \in Nat
           /\ tags = <<>> => Prefix(tags) = 0 /\ Suffix(tags) = 0
<1> DEFINE f == [i \in DOMAIN tags |-> OpenLen[tags[i]]]
           g == [i \in DOMAIN tags |-> CloseLen[tags[i]]]
<1>1. Len(tags) \in Nat /\ DOMAIN f = 1..Len(tags) /\ DOMAIN g = 1..Len(tags)
  OBVIOUS
<1>2. \A i \in 1..Len(tags) : f[i] \in Nat /\ g[i] \in Nat
  BY PartsAssumption
<1>3. Prefix(tags) = SumFunction(f) /\ Suffix(tags) = SumFunction(g)
  BY DEF Prefix, Suffix
<1>4. tags = <<>> => Len(tags) = 0
  OBVIOUS
<1> HIDE DEF f, g
<1> QED BY <1>1, <1>2, <1>3, <1>4, SumOfSeq
-----------------------------------------------------------------------------
LEMMA AfterType ==
    ASSUME NEW tags \in Seq(TagNames), NEW token \in Token
    PROVE  After(tags, token) \in Seq(TagNames)
<1>1. CASE token.kind = "open"
  <2>1. token.name \in TagNames
    BY <1>1 DEF Token
  <2> QED BY <1>1, <2>1 DEF After
<1>2. CASE token.kind = "close" /\ tags # <<>> /\ Last(tags) = token.name
  <2>1. Front(tags) \in Seq(TagNames)
    BY <1>2 DEF Front
  <2> QED BY <1>2, <2>1 DEF After
<1>3. CASE ~(token.kind = "open") /\ ~(token.kind = "close" /\ tags # <<>> /\ Last(tags) = token.name)
  BY <1>3 DEF After
<1> QED BY <1>1, <1>2, <1>3

\* The recursive function by which TagsAlong is defined, for the first n tokens.
IsTags(g, base, tokens, n) ==
    g = [k \in 0..n |-> IF k = 0 THEN base ELSE After(g[k - 1], tokens[k])]

LEMMA TagsByDefinition ==
    ASSUME NEW base, NEW tokens
    PROVE  TagsAlong(base, tokens) = CHOOSE g : IsTags(g, base, tokens, Len(tokens))
BY DEF TagsAlong, IsTags

LEMMA TagsAt ==
    ASSUME NEW n \in Nat, NEW base, NEW tokens, NEW g, IsTags(g, base, tokens, n)
    PROVE  /\ DOMAIN g = 0..n /\ g[0] = base
           /\ \A k \in 1..n : g[k] = After(g[k - 1], tokens[k])
<1> DEFINE R(k) == IF k = 0 THEN base ELSE After(g[k - 1], tokens[k])
<1>1. g = [k \in 0..n |-> R(k)]
  BY DEF IsTags
<1>2. DOMAIN g = 0..n /\ \A k \in 0..n : g[k] = R(k)
  <2> HIDE DEF R
  <2> QED BY <1>1
<1>3. 0 \in 0..n /\ \A k \in 1..n : k \in 0..n /\ k # 0
  OBVIOUS
<1> QED BY <1>2, <1>3

LEMMA TagsMade ==
    ASSUME NEW n \in Nat, NEW base, NEW tokens, NEW g, DOMAIN g = 0..n, g[0] = base,
           \A k \in 1..n : g[k] = After(g[k - 1], tokens[k]), NEW S, g \in [0..n -> S]
    PROVE  IsTags(g, base, tokens, n)
<1> DEFINE R(k) == IF k = 0 THEN base ELSE After(g[k - 1], tokens[k])
<1>1. \A k \in 0..n : g[k] = R(k)
  <2> SUFFICES ASSUME NEW k \in 0..n PROVE g[k] = R(k)
    OBVIOUS
  <2>1. k = 0 \/ k \in 1..n
    OBVIOUS
  <2> QED BY <2>1
<1>2. g = [k \in 0..n |-> R(k)]
  <2> HIDE DEF R
  <2> QED BY <1>1
<1> QED BY <1>2 DEF IsTags

\* The tags of the first tokens do not depend on what follows.
SameFirst(s, t, n) == \A k \in 1..n : s[k] = t[k]

LEMMA TagsSame ==
    ASSUME NEW n \in Nat, NEW m \in Nat, n <= m, NEW base, NEW s, NEW t,
           SameFirst(s, t, n), NEW g, IsTags(g, base, s, n), NEW h, IsTags(h, base, t, m)
    PROVE  \A k \in 0..n : g[k] = h[k]
<1> DEFINE Odd == {k \in 0..n : g[k] # h[k]}
<1> SUFFICES ASSUME Odd # {} PROVE FALSE
  OBVIOUS
<1>1. PICK k \in Odd : \A j \in Odd : k <= j
  <2>1. Odd \in SUBSET Nat
    OBVIOUS
  <2> HIDE DEF Odd
  <2> QED BY <2>1, LeastNat
<1>2. k \in 0..n /\ g[k] # h[k]
  BY <1>1
<1>3. g[0] = base /\ \A j \in 1..n : g[j] = After(g[j - 1], s[j])
  BY TagsAt
<1>4. h[0] = base /\ \A j \in 1..m : h[j] = After(h[j - 1], t[j])
  BY TagsAt
<1>5. k # 0
  BY <1>2, <1>3, <1>4
<1>6. k \in 1..n /\ k \in 1..m /\ k - 1 \in 0..n /\ ~(k <= k - 1)
  BY <1>2, <1>5
<1>7. g[k - 1] = h[k - 1]
  <2>1. k - 1 \notin Odd
    <3> HIDE DEF Odd
    <3> QED BY <1>1, <1>6
  <2> QED BY <2>1, <1>6
<1>8. s[k] = t[k]
  BY <1>6 DEF SameFirst
<1> HIDE DEF Odd
<1> QED BY <1>2, <1>3, <1>4, <1>6, <1>7, <1>8

LEMMA TagsExist ==
    ASSUME NEW tokens \in Seq(Token), NEW base \in Seq(TagNames), NEW n \in Nat, n <= Len(tokens)
    PROVE  \E g \in [0..n -> Seq(TagNames)] : IsTags(g, base, tokens, n)
<1> DEFINE Made(k) == \E g \in [0..k -> Seq(TagNames)] : IsTags(g, base, tokens, k)
           Missing == {k \in 0..n : ~Made(k)}
<1> SUFFICES ASSUME Missing # {} PROVE FALSE
  OBVIOUS
<1>1. PICK k \in Missing : \A j \in Missing : k <= j
  <2>1. Missing \in SUBSET Nat
    OBVIOUS
  <2> HIDE DEF Missing
  <2> QED BY <2>1, LeastNat
<1>2. k \in 0..n /\ ~Made(k)
  BY <1>1
<1>3. Made(0)
  <2> DEFINE g == [j \in 0..0 |-> base]
  <2>1. g \in [0..0 -> Seq(TagNames)] /\ DOMAIN g = 0..0 /\ g[0] = base /\ \A j \in 1..0 : FALSE
    OBVIOUS
  <2> HIDE DEF g
  <2>2. IsTags(g, base, tokens, 0)
    BY <2>1, TagsMade
  <2> QED BY <2>1, <2>2
<1>4. k - 1 \in Nat /\ k \in 1..n /\ k \in 1..Len(tokens)
  <2>1. k # 0
    <3> HIDE DEF Made
    <3> QED BY <1>2, <1>3
  <2>2. k \in 0..n
    BY <1>2
  <2>3. Len(tokens) \in Nat
    OBVIOUS
  <2> QED BY <2>1, <2>2, <2>3
<1>5. Made(k - 1)
  <2>1. k - 1 \notin Missing
    <3> HIDE DEF Missing
    <3> QED BY <1>1, <1>4
  <2>2. k - 1 \in 0..n
    BY <1>4
  <2> HIDE DEF Made
  <2> QED BY <2>1, <2>2
<1>6. PICK g \in [0..(k - 1) -> Seq(TagNames)] : IsTags(g, base, tokens, k - 1)
  BY <1>5
<1>7. g[0] = base /\ \A j \in 1..(k - 1) : g[j] = After(g[j - 1], tokens[j])
  <2>1. PICK p : p = k - 1
    OBVIOUS
  <2>2. PICK f : f = g
    OBVIOUS
  <2>3. p \in Nat /\ IsTags(f, base, tokens, p)
    BY <1>4, <1>6, <2>1, <2>2
  <2>4. f[0] = base /\ \A j \in 1..p : f[j] = After(f[j - 1], tokens[j])
    BY ONLY <2>3, TagsAt
  <2> QED BY <2>1, <2>2, <2>4
<1>8. PICK x : x = After(g[k - 1], tokens[k])
  OBVIOUS
<1>9. x \in Seq(TagNames)
  <2>1. g[k - 1] \in Seq(TagNames)
    BY <1>4
  <2>2. tokens[k] \in Token
    BY <1>4
  <2> QED BY <2>1, <2>2, <1>8, AfterType
<1> DEFINE h == [j \in 0..k |-> IF j = k THEN x ELSE g[j]]
<1>10. \A j \in 0..k : h[j] = IF j = k THEN x ELSE g[j]
  OBVIOUS
<1>11. h \in [0..k -> Seq(TagNames)]
  BY <1>4, <1>9
<1>12. h[0] = base /\ \A j \in 1..k : h[j] = After(h[j - 1], tokens[j])
  <2>1. h[0] = base
    BY <1>4, <1>7, <1>10
  <2>2. ASSUME NEW j \in 1..k PROVE h[j] = After(h[j - 1], tokens[j])
    <3>1. j - 1 \in 0..k /\ j - 1 # k /\ j \in 0..k /\ (j # k => j \in 1..(k - 1))
      BY <1>4
    <3>2. h[j - 1] = g[j - 1]
      BY <1>10, <3>1
    <3> HIDE DEF h
    <3>3. CASE j = k
      BY <1>8, <1>10, <3>1, <3>2, <3>3
    <3>4. CASE j # k
      BY <1>7, <1>10, <3>1, <3>2, <3>4
    <3> QED BY <3>3, <3>4
  <2> QED BY <2>1, <2>2
<1> HIDE DEF h
<1>13. IsTags(h, base, tokens, k)
  <2>1. k \in Nat /\ DOMAIN h = 0..k
    BY <1>4, <1>11
  <2> QED BY <2>1, <1>11, <1>12, TagsMade
<1> QED BY <1>2, <1>11, <1>13

\* TagsAlong is what it says.
LEMMA TagsAlongIs ==
    ASSUME NEW tokens \in Seq(Token), NEW base \in Seq(TagNames)
    PROVE  /\ TagsAlong(base, tokens) \in [0..Len(tokens) -> Seq(TagNames)]
           /\ IsTags(TagsAlong(base, tokens), base, tokens, Len(tokens))
           /\ TagsAlong(base, tokens)[0] = base
           /\ \A k \in 1..Len(tokens) :
                TagsAlong(base, tokens)[k] = After(TagsAlong(base, tokens)[k - 1], tokens[k])
<1>1. Len(tokens) \in Nat
  OBVIOUS
<1>2. PICK g \in [0..Len(tokens) -> Seq(TagNames)] : IsTags(g, base, tokens, Len(tokens))
  BY <1>1, TagsExist
<1>3. PICK h : h = TagsAlong(base, tokens)
  OBVIOUS
<1>4. IsTags(h, base, tokens, Len(tokens))
  BY <1>2, <1>3, TagsByDefinition
<1>5. \A k \in 0..Len(tokens) : h[k] = g[k]
  <2>1. SameFirst(tokens, tokens, Len(tokens)) /\ Len(tokens) <= Len(tokens)
    BY <1>1 DEF SameFirst
  <2>2. PICK f : f = g
    OBVIOUS
  <2>3. PICK n : n = Len(tokens)
    OBVIOUS
  <2>4. \A k \in 0..n : h[k] = f[k]
    BY <1>1, <1>2, <1>4, <2>1, <2>2, <2>3, TagsSame
  <2> QED BY <2>2, <2>3, <2>4
<1>6. DOMAIN h = 0..Len(tokens) /\ h[0] = base
        /\ \A k \in 1..Len(tokens) : h[k] = After(h[k - 1], tokens[k])
  BY <1>1, <1>4, TagsAt
<1>7. h = [k \in 0..Len(tokens) |-> h[k]]
  <2>1. h = [k \in 0..Len(tokens) |-> IF k = 0 THEN base ELSE After(h[k - 1], tokens[k])]
    BY <1>4 DEF IsTags
  <2> QED BY <1>6, <2>1
<1>8. h \in [0..Len(tokens) -> Seq(TagNames)]
  BY <1>5, <1>7
<1> QED BY <1>3, <1>4, <1>6, <1>8

\* One more token.
LEMMA TagsAppend ==
    ASSUME NEW tokens \in Seq(Token), NEW base \in Seq(TagNames), NEW token \in Token
    PROVE  LET m == Len(tokens)
               new == TagsAlong(base, Append(tokens, token))
           IN /\ \A k \in 0..m : new[k] = TagsAlong(base, tokens)[k]
              /\ new[m + 1] = After(TagsAlong(base, tokens)[m], token)
<1> DEFINE more == Append(tokens, token)
           m == Len(tokens)
<1>1. m \in Nat /\ more \in Seq(Token) /\ Len(more) = m + 1 /\ more[m + 1] = token
        /\ \A k \in 1..m : tokens[k] = more[k]
  OBVIOUS
<1>2. PICK g : g = TagsAlong(base, tokens)
  OBVIOUS
<1>3. PICK h : h = TagsAlong(base, more)
  OBVIOUS
<1>4. IsTags(g, base, tokens, m)
  BY <1>2, TagsAlongIs
<1>5. IsTags(h, base, more, m + 1) /\ \A k \in 1..(m + 1) : h[k] = After(h[k - 1], more[k])
  <2> HIDE DEF more, m
  <2>1. IsTags(h, base, more, Len(more)) /\ \A k \in 1..Len(more) : h[k] = After(h[k - 1], more[k])
    BY <1>1, <1>3, TagsAlongIs
  <2>2. PICK n : n = m + 1
    OBVIOUS
  <2>3. Len(more) = n
    BY <1>1, <2>2
  <2> QED BY <2>1, <2>2, <2>3
<1>6. \A k \in 0..m : g[k] = h[k]
  <2>1. PICK n : n = m + 1
    OBVIOUS
  <2>2. PICK s : s = more
    OBVIOUS
  <2>3. PICK r : r = tokens
    OBVIOUS
  <2>4. PICK j : j = m
    OBVIOUS
  <2>5. n \in Nat /\ j \in Nat /\ j <= n /\ IsTags(h, base, s, n) /\ IsTags(g, base, r, j)
    BY <1>1, <1>4, <1>5, <2>1, <2>2, <2>3, <2>4
  <2>6. SameFirst(r, s, j)
    BY <1>1, <2>2, <2>3, <2>4 DEF SameFirst
  <2>7. \A k \in 0..j : g[k] = h[k]
    BY ONLY <2>5, <2>6, TagsSame
  <2> QED BY <2>4, <2>7
<1>7. h[m + 1] = After(g[m], token)
  <2>1. m + 1 \in 1..(m + 1) /\ (m + 1) - 1 = m /\ m \in 0..m
    BY <1>1
  <2> HIDE DEF more, m
  <2> QED BY <1>1, <1>5, <1>6, <2>1
<1> QED BY <1>2, <1>3, <1>6, <1>7
-----------------------------------------------------------------------------
\* What a piece, and a segment, consists of.
PieceSet == [line : Nat, token : Nat, len : Nat]
SegmentSet == [pieces : Seq(PieceSet), opened : Seq(TagNames), closed : Seq(TagNames), len : Nat]

\* The tokens that some pieces of a reply are of, and whether their tags match from those
\* in base, open before, to those in top, open after.
TokensIn(reply, pieces) == [i \in DOMAIN pieces |-> reply[pieces[i].line][pieces[i].token]]
Closes(base, tokens, top) == Matched(base, tokens) /\ TagsAlong(base, tokens)[Len(tokens)] = top

\* Only a text is cut.
Uncut(reply, p) ==
    /\ p.line \in DOMAIN reply /\ p.token \in DOMAIN reply[p.line]
    /\ reply[p.line][p.token].kind # "text" => p.len = reply[p.line][p.token].len

\* Pieces in the order of the reply; those of P before those of Q; none after a token.
Sorted(P) == \A k, m \in DOMAIN P : k <= m => InOrder(P[k], P[m])
Ahead(P, Q) == \A k \in DOMAIN P : \A m \in DOMAIN Q : InOrder(P[k], Q[m])
UpTo(P, l, t) == \A k \in DOMAIN P : P[k].line < l \/ (P[k].line = l /\ P[k].token <= t)

PiecesOf(reply, P, base, top) ==
    /\ \A k \in DOMAIN P : Uncut(reply, P[k])
    /\ Sorted(P) /\ Closes(base, TokensIn(reply, P), top)

\* The segments done, and the pieces of the one in work between from and tags.
Done(reply, segs) ==
    /\ segs \in Seq(SegmentSet)
    /\ \A i \in DOMAIN segs :
         segs[i].len <= LIMIT /\ PiecesOf(reply, segs[i].pieces, segs[i].opened, segs[i].closed)
    /\ \A i, j \in DOMAIN segs : i < j => Ahead(segs[i].pieces, segs[j].pieces)
InWork(reply, segs, P, from, tags) ==
    /\ P \in Seq(PieceSet) /\ from \in Seq(TagNames) /\ tags \in Seq(TagNames)
    /\ P # <<>> => Prefix(from) + Length(P) + Suffix(tags) <= LIMIT
    /\ PiecesOf(reply, P, from, tags)
    /\ \A i \in DOMAIN segs : Ahead(segs[i].pieces, P)
Reached(segs, P, l, t) == (\A i \in DOMAIN segs : UpTo(segs[i].pieces, l, t)) /\ UpTo(P, l, t)

\* How much of a token the segments and the pieces in work hold, and how much they must
\* hold with the token tn of line ln in work and rem of it left.
InSegments(segs, l, t) == SumFunction([i \in DOMAIN segs |-> Share(segs[i].pieces, l, t)])
Covered(segs, P, l, t) == InSegments(segs, l, t) + Share(P, l, t)
Due(reply, ln, tn, rem, l, t) ==
    IF l < ln \/ (l = ln /\ t < tn) THEN reply[l][t].len
    ELSE IF l = ln /\ t = tn THEN reply[l][t].len - rem ELSE 0

\* All this with rem left of the token tn of line ln.
Holds(reply, ln, tn, rem, segs, P, from, tags) ==
    /\ Done(reply, segs) /\ InWork(reply, segs, P, from, tags)
    /\ Reached(segs, P, ln, tn)
    /\ \A l \in DOMAIN reply : \A t \in DOMAIN reply[l] :
         Covered(segs, P, l, t) = Due(reply, ln, tn, rem, l, t)

Cursor ==
    /\ text \in Texts /\ lineno \in 1..Len(text) + 1 /\ tokenno \in Nat /\ remaining \in Nat
    /\ Split => tokenno = 0
    /\ ~Split => tokenno <= Len(Line) + 1 /\ parts = <<>> /\ packed = 0
    /\ tokenno = 0 => body = <<>>
    /\ ~Split /\ tokenno > 0 => stack = TagsAlong(<<>>, Line)[tokenno - 1]
    /\ InLine => /\ remaining \in 1..Current.len
                 /\ Current.kind # "text" => remaining = Current.len
Segments == Holds(text, lineno, tokenno, remaining, segments, body, start_stack, stack)
Packs ==
    /\ parts \in Seq(Seq(SegmentSet)) /\ packed \in 0..Len(segments)
    /\ \A i \in DOMAIN parts : PartLen(parts[i]) <= LIMIT
    /\ Packed(parts, Len(parts)) = packed
    /\ \A i \in DOMAIN parts : \A k \in DOMAIN parts[i] :
         parts[i][k] = segments[Packed(parts, i - 1) + k]
PartsInv == Cursor /\ Segments /\ Packs
-----------------------------------------------------------------------------
LEMMA ClosesNone ==
    ASSUME NEW base \in Seq(TagNames)
    PROVE  Closes(base, <<>>, base)
<1>1. <<>> \in Seq(Token) /\ Len(<<>>) = 0 /\ DOMAIN <<>> = {}
  OBVIOUS
<1>2. TagsAlong(base, <<>>)[0] = base
  BY <1>1, TagsAlongIs
<1>3. Matched(base, <<>>)
  BY <1>1 DEF Matched
<1> QED BY <1>1, <1>2, <1>3 DEF Closes

\* A further token after which the tags are matched still.
LEMMA ClosesAppend ==
    ASSUME NEW tokens \in Seq(Token), NEW base \in Seq(TagNames), NEW top, Closes(base, tokens, top),
           NEW token \in Token, token.kind = "close" => top # <<>> /\ Last(top) = token.name
    PROVE  Closes(base, Append(tokens, token), After(top, token))
<1> DEFINE m == Len(tokens)
<1>1. PICK more : more = Append(tokens, token)
  OBVIOUS
<1>2. m \in Nat /\ Len(more) = m + 1 /\ more[m + 1] = token /\ DOMAIN more = 1..(m + 1)
        /\ \A k \in 1..m : tokens[k] = more[k]
  BY <1>1
<1>3. PICK g : g = TagsAlong(base, tokens)
  OBVIOUS
<1>4. PICK h : h = TagsAlong(base, more)
  OBVIOUS
<1>5. (\A k \in 0..m : h[k] = g[k]) /\ h[m + 1] = After(g[m], token)
  BY <1>1, <1>3, <1>4, TagsAppend
<1>6. g[m] = top /\ \A n \in DOMAIN tokens :
          tokens[n].kind = "close" => g[n - 1] # <<>> /\ Last(g[n - 1]) = tokens[n].name
  BY <1>3 DEF Closes, Matched
<1>7. DOMAIN tokens = 1..m
  OBVIOUS
<1> HIDE DEF m
<1>8. ASSUME NEW n \in 1..(m + 1), more[n].kind = "close"
      PROVE  h[n - 1] # <<>> /\ Last(h[n - 1]) = more[n].name
  <2>1. n \in Int /\ n - 1 \in 0..m /\ (n \in 1..m \/ n = m + 1)
    BY <1>2
  <2>2. h[n - 1] = g[n - 1]
    BY <1>5, <2>1
  <2>3. CASE n \in 1..m
    <3>1. more[n] = tokens[n] /\ n \in DOMAIN tokens
      BY <1>2, <1>7, <2>3
    <3> QED BY <1>6, <1>8, <2>2, <3>1
  <2>4. CASE n = m + 1
    <3>1. n - 1 = m /\ more[n] = token
      BY <1>2, <2>4
    <3>2. h[n - 1] = top
      BY <1>6, <2>2, <3>1
    <3> QED BY <1>8, <3>1, <3>2
  <2> QED BY <2>1, <2>3, <2>4
<1>9. Matched(base, more)
  <2>1. \A n \in DOMAIN more : more[n].kind = "close" => h[n - 1] # <<>> /\ Last(h[n - 1]) = more[n].name
    BY <1>2, <1>8
  <2> QED BY <1>4, <2>1 DEF Matched
<1>10. TagsAlong(base, more)[Len(more)] = After(top, token)
  BY <1>2, <1>4, <1>5, <1>6
<1> QED BY <1>1, <1>9, <1>10 DEF Closes

\* The tokens of pieces.
Placed(reply, P) ==
    \A k \in DOMAIN P : P[k].line \in DOMAIN reply /\ P[k].token \in DOMAIN reply[P[k].line]

LEMMA TokensType ==
    ASSUME NEW reply \in Seq(Seq(Token)), NEW P \in Seq(PieceSet),
           Placed(reply, P)
    PROVE  TokensIn(reply, P) \in Seq(Token) /\ Len(TokensIn(reply, P)) = Len(P)
<1> DEFINE R(k) == reply[P[k].line][P[k].token]
<1>1. Len(P) \in Nat /\ DOMAIN P = 1..Len(P)
  OBVIOUS
<1>2. \A k \in 1..Len(P) : R(k) \in Token
  <2> SUFFICES ASSUME NEW k \in 1..Len(P) PROVE R(k) \in Token
    OBVIOUS
  <2>1. P[k].line \in DOMAIN reply /\ P[k].token \in DOMAIN reply[P[k].line]
    BY DEF Placed
  <2>2. reply[P[k].line] \in Seq(Token)
    BY <2>1
  <2> QED BY <2>1, <2>2
<1>3. TokensIn(reply, P) = [k \in 1..Len(P) |-> R(k)]
  BY <1>1 DEF TokensIn
<1> HIDE DEF R
<1>4. [k \in 1..Len(P) |-> R(k)] \in Seq(Token) /\ Len([k \in 1..Len(P) |-> R(k)]) = Len(P)
  BY <1>1, <1>2, SeqDef
<1> QED BY <1>3, <1>4

LEMMA TokensAppend ==
    ASSUME NEW reply \in Seq(Seq(Token)), NEW P \in Seq(PieceSet),
           Placed(reply, P),
           NEW p \in PieceSet, p.line \in DOMAIN reply, p.token \in DOMAIN reply[p.line]
    PROVE  TokensIn(reply, Append(P, p)) = Append(TokensIn(reply, P), reply[p.line][p.token])
<1> DEFINE n == Len(P)
           R(k) == reply[P[k].line][P[k].token]
<1>1. PICK Q : Q = Append(P, p)
  OBVIOUS
<1>2. PICK x : x = reply[p.line][p.token]
  OBVIOUS
<1>3. n \in Nat /\ DOMAIN Q = 1..(n + 1) /\ Q[n + 1] = p /\ \A k \in 1..n : Q[k] = P[k]
  BY <1>1
<1>4. PICK s : s = TokensIn(reply, P)
  OBVIOUS
<1>5. PICK t : t = TokensIn(reply, Q)
  OBVIOUS
<1>6. s \in Seq(Token) /\ Len(s) = n /\ \A k \in 1..n : s[k] = R(k)
  <2>1. s \in Seq(Token) /\ Len(s) = n
    BY <1>4, TokensType
  <2>2. \A k \in 1..n : s[k] = R(k)
    BY <1>4 DEF TokensIn
  <2> QED BY <2>1, <2>2
<1>7. DOMAIN t = 1..(n + 1) /\ \A k \in 1..(n + 1) : t[k] = reply[Q[k].line][Q[k].token]
  BY <1>3, <1>5 DEF TokensIn
<1>8. t \in Seq(Token) /\ Len(t) = n + 1
  <2>1. Q \in Seq(PieceSet) /\ Len(Q) = n + 1
    BY <1>1
  <2>2. Placed(reply, Q)
    <3> SUFFICES ASSUME NEW k \in DOMAIN Q
                 PROVE  Q[k].line \in DOMAIN reply /\ Q[k].token \in DOMAIN reply[Q[k].line]
      BY DEF Placed
    <3>1. k \in 1..n \/ k = n + 1
      BY <1>3
    <3>2. CASE k \in 1..n
      <4>1. Q[k] = P[k] /\ k \in DOMAIN P
        BY <1>3, <3>2
      <4> QED BY <4>1 DEF Placed
    <3>3. CASE k = n + 1
      BY <1>3, <3>3
    <3> QED BY <3>1, <3>2, <3>3
  <2> QED BY <1>5, <2>1, <2>2, TokensType
<1>9. \A k \in 1..n : t[k] = s[k]
  <2> SUFFICES ASSUME NEW k \in 1..n PROVE t[k] = s[k]
    OBVIOUS
  <2>1. k \in 1..(n + 1) /\ Q[k] = P[k]
    BY <1>3
  <2>2. t[k] = reply[P[k].line][P[k].token]
    BY <1>7, <2>1
  <2>3. s[k] = R(k)
    BY <1>6
  <2>4. t[k] = R(k)
    BY <2>2
  <2> HIDE DEF R
  <2> QED BY <2>3, <2>4
<1>10. t[n + 1] = x
  <2>1. PICK k : k = n + 1
    OBVIOUS
  <2>2. k \in 1..(n + 1) /\ Q[k] = p
    BY <1>3, <2>1
  <2>3. t[k] = reply[Q[k].line][Q[k].token]
    BY <1>7, <2>2
  <2>4. t[k] = reply[p.line][p.token]
    BY <2>2, <2>3
  <2>5. t[k] = x
    BY <1>2, <2>4
  <2> HIDE DEF n, R
  <2> QED BY <2>1, <2>5
<1>11. PICK u : u = Append(s, x)
  OBVIOUS
<1>12. u \in Seq(Token) /\ Len(u) = n + 1
  <2>1. x \in Token
    BY <1>2
  <2> QED BY <1>6, <1>11, <2>1
<1>13. u[n + 1] = x /\ \A k \in 1..n : u[k] = s[k]
  BY <1>6, <1>11
<1>14. \A k \in 1..(n + 1) : t[k] = u[k]
  <2> SUFFICES ASSUME NEW k \in 1..(n + 1) PROVE t[k] = u[k]
    OBVIOUS
  <2>1. k \in 1..n \/ k = n + 1
    <3>1. n \in Nat /\ k \in 1..(n + 1)
      BY <1>3
    <3> HIDE DEF n
    <3> QED BY ONLY <3>1
  <2> QED BY <1>9, <1>10, <1>13, <2>1
<1>15. t = u
  <2>1. \A k \in 1..Len(t) : t[k] = u[k]
    BY <1>8, <1>14
  <2> QED BY <1>8, <1>12, <2>1, SeqEqual
<1> QED BY <1>1, <1>2, <1>4, <1>5, <1>11, <1>15
-----------------------------------------------------------------------------
LEMMA PiecesPlaced ==
    ASSUME NEW reply, NEW P, NEW base, NEW top, PiecesOf(reply, P, base, top)
    PROVE  Placed(reply, P)
BY DEF PiecesOf, Uncut, Placed

LEMMA PiecesNone ==
    ASSUME NEW reply, NEW base \in Seq(TagNames)
    PROVE  PiecesOf(reply, <<>>, base, base)
<1>1. TokensIn(reply, <<>>) = <<>>
  <2>1. DOMAIN <<>> = {}
    OBVIOUS
  <2>2. TokensIn(reply, <<>>) = [k \in {} |-> reply[<<>>[k].line][<<>>[k].token]]
    BY <2>1 DEF TokensIn
  <2> QED BY <2>2
<1>2. Closes(base, TokensIn(reply, <<>>), base)
  BY <1>1, ClosesNone
<1>3. Sorted(<<>>) /\ \A k \in DOMAIN <<>> : FALSE
  BY DEF Sorted
<1> QED BY <1>2, <1>3 DEF PiecesOf

\* One more piece.
LEMMA PiecesAppend ==
    ASSUME NEW reply \in Seq(Seq(Token)), NEW P \in Seq(PieceSet),
           NEW base \in Seq(TagNames), NEW top, PiecesOf(reply, P, base, top),
           NEW p \in PieceSet, Uncut(reply, p), \A k \in DOMAIN P : InOrder(P[k], p),
           NEW token, token = reply[p.line][p.token],
           token.kind = "close" => top # <<>> /\ Last(top) = token.name
    PROVE  PiecesOf(reply, Append(P, p), base, After(top, token))
<1> DEFINE n == Len(P)
<1>1. PICK Q : Q = Append(P, p)
  OBVIOUS
<1>2. n \in Nat /\ DOMAIN P = 1..n /\ DOMAIN Q = 1..(n + 1) /\ Q[n + 1] = p
        /\ \A k \in 1..n : Q[k] = P[k]
  BY <1>1
<1>3. \A k \in DOMAIN Q : k = n + 1 \/ k \in 1..n
  BY <1>2
<1>4. Placed(reply, P)
  BY PiecesPlaced
<1>5. p.line \in DOMAIN reply /\ p.token \in DOMAIN reply[p.line]
  BY DEF Uncut
<1>6. token \in Token
  <2>1. reply[p.line] \in Seq(Token)
    BY <1>5
  <2> QED BY <1>5, <2>1
<1>7. TokensIn(reply, Q) = Append(TokensIn(reply, P), token)
  BY <1>1, <1>4, <1>5, TokensAppend
<1>8. TokensIn(reply, P) \in Seq(Token)
  BY <1>4, TokensType
<1>9. Closes(base, TokensIn(reply, Q), After(top, token))
  <2>1. Closes(base, TokensIn(reply, P), top)
    BY DEF PiecesOf
  <2>2. PICK s : s = TokensIn(reply, P)
    OBVIOUS
  <2>3. s \in Seq(Token) /\ Closes(base, s, top)
    BY <1>8, <2>1, <2>2
  <2>4. Closes(base, Append(s, token), After(top, token))
    BY <1>6, <2>3, ClosesAppend
  <2> QED BY <1>7, <2>2, <2>4
<1> HIDE DEF n
<1>10. \A k \in DOMAIN Q : Uncut(reply, Q[k])
  <2> SUFFICES ASSUME NEW k \in DOMAIN Q PROVE Uncut(reply, Q[k])
    OBVIOUS
  <2>1. \A j \in 1..n : Uncut(reply, P[j])
    BY <1>2 DEF PiecesOf
  <2> QED BY <1>2, <1>3, <2>1
<1>11. Sorted(Q)
  <2> SUFFICES ASSUME NEW k \in DOMAIN Q, NEW m \in DOMAIN Q, k <= m PROVE InOrder(Q[k], Q[m])
    BY DEF Sorted
  <2>1. CASE m \in 1..n
    <3>1. k \in 1..n
      BY <1>2, <2>1
    <3>2. InOrder(P[k], P[m])
      BY <1>2, <2>1, <3>1 DEF PiecesOf, Sorted
    <3> QED BY <1>2, <2>1, <3>1, <3>2
  <2>2. CASE m = n + 1 /\ k \in 1..n
    BY <1>2, <2>2
  <2>3. CASE m = n + 1 /\ k = n + 1
    <3>1. Q[k] = p /\ Q[m] = p
      BY <1>2, <2>3
    <3>2. InOrder(p, p)
      BY DEF InOrder, PieceSet
    <3> QED BY <3>1, <3>2
  <2> QED BY <1>3, <2>1, <2>2, <2>3
<1> QED BY <1>1, <1>9, <1>10, <1>11 DEF PiecesOf

\* How much of a token some pieces hold.
LEMMA ShareOf ==
    ASSUME NEW P \in Seq(PieceSet), NEW l, NEW t
    PROVE  Share(P, l, t) \in Nat /\ (P = <<>> => Share(P, l, t) = 0)
<1> DEFINE f == [i \in DOMAIN P |-> IF P[i].line = l /\ P[i].token = t THEN P[i].len ELSE 0]
<1>1. Len(P) \in Nat /\ DOMAIN f = 1..Len(P)
  OBVIOUS
<1>2. \A i \in 1..Len(P) : f[i] \in Nat
  <2>1. \A i \in 1..Len(P) : P[i] \in PieceSet
    OBVIOUS
  <2>2. \A i \in 1..Len(P) : P[i].len \in Nat
    <3> HIDE DEF f
    <3> QED BY <2>1 DEF PieceSet
  <2> QED BY <2>2
<1>3. P = <<>> => Len(P) = 0
  OBVIOUS
<1>4. Share(P, l, t) = SumFunction(f)
  BY DEF Share
<1> HIDE DEF f
<1> QED BY <1>1, <1>2, <1>3, <1>4, SumOfSeq

LEMMA ShareAppend ==
    ASSUME NEW P \in Seq(PieceSet), NEW p \in PieceSet, NEW l, NEW t
    PROVE  Share(Append(P, p), l, t)
             = Share(P, l, t) + (IF p.line = l /\ p.token = t THEN p.len ELSE 0)
<1> DEFINE part(q) == IF q.line = l /\ q.token = t THEN q.len ELSE 0
           n == Len(P)
<1>1. PICK Q : Q = Append(P, p)
  OBVIOUS
<1>2. n \in Nat /\ DOMAIN P = 1..n /\ DOMAIN Q = 1..(n + 1) /\ Q[n + 1] = p
        /\ (\A i \in 1..n : Q[i] = P[i] /\ P[i] \in PieceSet)
  BY <1>1
<1>3. \A q \in PieceSet : part(q) \in Nat
  BY DEF PieceSet
<1>4. Share(P, l, t) = SumFunction([i \in DOMAIN P |-> part(P[i])])
        /\ Share(Q, l, t) = SumFunction([i \in DOMAIN Q |-> part(Q[i])])
  BY DEF Share
<1> HIDE DEF part, n
<1>5. PICK f : f = [i \in DOMAIN P |-> part(P[i])]
  OBVIOUS
<1>6. PICK g : g = [i \in DOMAIN Q |-> part(Q[i])]
  OBVIOUS
<1>7. DOMAIN f = 1..n /\ \A i \in 1..n : f[i] = part(P[i])
  BY <1>2, <1>5
<1>8. DOMAIN g = 1..(n + 1) /\ \A i \in 1..(n + 1) : g[i] = part(Q[i])
  BY <1>2, <1>6
<1>9. \A i \in 1..n : f[i] \in Nat /\ g[i] = f[i]
  <2> SUFFICES ASSUME NEW i \in 1..n PROVE f[i] \in Nat /\ g[i] = f[i]
    OBVIOUS
  <2>1. i \in 1..(n + 1)
    BY <1>2
  <2> QED BY <1>2, <1>3, <1>7, <1>8, <2>1
<1>10. g[n + 1] = part(p) /\ part(p) \in Nat
  <2>1. n + 1 \in 1..(n + 1)
    BY <1>2
  <2>2. g[n + 1] = part(Q[n + 1])
    BY <1>8, <2>1
  <2> QED BY <1>2, <1>3, <2>2
<1>11. SumFunction(g) = SumFunction(f) + g[n + 1]
  <2>1. g[n + 1] \in Nat
    BY <1>10
  <2> QED BY <1>2, <1>7, <1>8, <1>9, <2>1, SumExtend
<1>12. Share(Q, l, t) = Share(P, l, t) + part(p)
  BY <1>4, <1>5, <1>6, <1>10, <1>11
<1> QED BY <1>1, <1>12 DEF part

LEMMA InSegmentsOf ==
    ASSUME NEW segs \in Seq(SegmentSet), NEW l, NEW t
    PROVE  InSegments(segs, l, t) \in Nat /\ (segs = <<>> => InSegments(segs, l, t) = 0)
<1> DEFINE f == [i \in DOMAIN segs |-> Share(segs[i].pieces, l, t)]
<1>1. Len(segs) \in Nat /\ DOMAIN f = 1..Len(segs)
  OBVIOUS
<1>2. \A i \in 1..Len(segs) : f[i] \in Nat
  <2> HIDE DEF f
  <2>1. \A i \in 1..Len(segs) : segs[i] \in SegmentSet
    OBVIOUS
  <2>2. \A i \in 1..Len(segs) : segs[i].pieces \in Seq(PieceSet)
    BY <2>1 DEF SegmentSet
  <2>3. \A i \in 1..Len(segs) : Share(segs[i].pieces, l, t) \in Nat
    BY <2>2, ShareOf
  <2> QED BY <2>3 DEF f
<1>3. segs = <<>> => Len(segs) = 0
  OBVIOUS
<1>4. InSegments(segs, l, t) = SumFunction(f)
  BY DEF InSegments
<1> HIDE DEF f
<1> QED BY <1>1, <1>2, <1>3, <1>4, SumOfSeq

LEMMA InSegmentsAppend ==
    ASSUME NEW segs \in Seq(SegmentSet), NEW s \in SegmentSet, NEW l, NEW t
    PROVE  InSegments(Append(segs, s), l, t) = InSegments(segs, l, t) + Share(s.pieces, l, t)
<1> DEFINE part(q) == Share(q.pieces, l, t)
           n == Len(segs)
<1>1. PICK Q : Q = Append(segs, s)
  OBVIOUS
<1>2. n \in Nat /\ DOMAIN segs = 1..n /\ DOMAIN Q = 1..(n + 1) /\ Q[n + 1] = s
        /\ (\A i \in 1..n : Q[i] = segs[i] /\ segs[i] \in SegmentSet)
  BY <1>1
<1>3. \A q \in SegmentSet : part(q) \in Nat
  <2>1. \A q \in SegmentSet : q.pieces \in Seq(PieceSet)
    BY DEF SegmentSet
  <2> QED BY <2>1, ShareOf
<1>4. InSegments(segs, l, t) = SumFunction([i \in DOMAIN segs |-> part(segs[i])])
        /\ InSegments(Q, l, t) = SumFunction([i \in DOMAIN Q |-> part(Q[i])])
  BY DEF InSegments
<1> HIDE DEF part, n
<1>5. PICK f : f = [i \in DOMAIN segs |-> part(segs[i])]
  OBVIOUS
<1>6. PICK g : g = [i \in DOMAIN Q |-> part(Q[i])]
  OBVIOUS
<1>7. DOMAIN f = 1..n /\ \A i \in 1..n : f[i] = part(segs[i])
  BY <1>2, <1>5
<1>8. DOMAIN g = 1..(n + 1) /\ \A i \in 1..(n + 1) : g[i] = part(Q[i])
  BY <1>2, <1>6
<1>9. \A i \in 1..n : f[i] \in Nat /\ g[i] = f[i]
  <2> SUFFICES ASSUME NEW i \in 1..n PROVE f[i] \in Nat /\ g[i] = f[i]
    OBVIOUS
  <2>1. i \in 1..(n + 1)
    BY <1>2
  <2> QED BY <1>2, <1>3, <1>7, <1>8, <2>1
<1>10. g[n + 1] = part(s) /\ part(s) \in Nat
  <2>1. n + 1 \in 1..(n + 1)
    BY <1>2
  <2>2. g[n + 1] = part(Q[n + 1])
    BY <1>8, <2>1
  <2> QED BY <1>2, <1>3, <2>2
<1>11. SumFunction(g) = SumFunction(f) + g[n + 1]
  <2>1. g[n + 1] \in Nat
    BY <1>10
  <2> QED BY <1>2, <1>7, <1>8, <1>9, <2>1, SumExtend
<1>12. InSegments(Q, l, t) = InSegments(segs, l, t) + part(s)
  BY <1>4, <1>5, <1>6, <1>10, <1>11
<1> QED BY <1>1, <1>12 DEF part
-----------------------------------------------------------------------------
\* The pieces in work become a segment.
LEMMA SegmentType ==
    ASSUME NEW P \in Seq(PieceSet), NEW from \in Seq(TagNames), NEW tags \in Seq(TagNames)
    PROVE  SegmentOf(P, from, tags) \in SegmentSet
<1>1. Length(P) \in Nat
  <2>1. \A x \in PieceSet : x.len \in Nat
    BY DEF PieceSet
  <2> QED BY <2>1, LengthOf
<1>2. PICK n : n = Prefix(from) + Length(P) + Suffix(tags)
  OBVIOUS
<1>3. n \in Nat
  BY <1>1, <1>2, TagLengths
<1>4. SegmentOf(P, from, tags) = [pieces |-> P, opened |-> from, closed |-> tags, len |-> n]
  BY <1>2 DEF SegmentOf
<1> QED BY <1>3, <1>4 DEF SegmentSet

\* A segment more, after those there are.
LEMMA DoneAppend ==
    ASSUME NEW reply, NEW segs, Done(reply, segs), NEW s \in SegmentSet, s.len <= LIMIT,
           PiecesOf(reply, s.pieces, s.opened, s.closed),
           \A i \in DOMAIN segs : Ahead(segs[i].pieces, s.pieces)
    PROVE  Done(reply, Append(segs, s))
<1> DEFINE n == Len(segs)
           Good(x) == x.len <= LIMIT /\ PiecesOf(reply, x.pieces, x.opened, x.closed)
<1>1. PICK Q : Q = Append(segs, s)
  OBVIOUS
<1>2. segs \in Seq(SegmentSet)
  BY DEF Done
<1>3. n \in Nat /\ DOMAIN segs = 1..n /\ DOMAIN Q = 1..(n + 1) /\ Q[n + 1] = s
        /\ Q \in Seq(SegmentSet) /\ \A k \in 1..n : Q[k] = segs[k]
  BY <1>1, <1>2
<1> HIDE DEF n
<1>4. \A i \in DOMAIN Q : i \in 1..n \/ i = n + 1
  BY <1>3
<1>5. \A i \in 1..n : Good(segs[i])
  BY <1>3 DEF Done
<1>6. Good(s)
  OBVIOUS
<1>7. \A i \in DOMAIN Q : Good(Q[i])
  <2> HIDE DEF Good
  <2> QED BY <1>3, <1>4, <1>5, <1>6
<1>8. ASSUME NEW i \in DOMAIN Q, NEW j \in DOMAIN Q, i < j
      PROVE  Ahead(Q[i].pieces, Q[j].pieces)
  <2>1. i \in 1..n
    BY <1>3, <1>8
  <2>2. CASE j \in 1..n
    BY <1>3, <1>8, <2>1, <2>2 DEF Done
  <2>3. CASE j = n + 1
    BY <1>3, <2>1, <2>3
  <2> QED BY <1>4, <2>2, <2>3
<1>9. \A i, j \in DOMAIN Q : i < j => Ahead(Q[i].pieces, Q[j].pieces)
  BY <1>8
<1> QED BY <1>1, <1>3, <1>7, <1>9 DEF Done

\* What flush keeps, with the pieces P between from and tags before and more the segments after.
FlushKept(reply, segs, P, tags, more) ==
    /\ Done(reply, more) /\ InWork(reply, more, <<>>, tags, tags)
    /\ \A l, t : Reached(segs, P, l, t) => Reached(more, <<>>, l, t)
    /\ \A l, t : Covered(more, <<>>, l, t) = Covered(segs, P, l, t)

LEMMA FlushKeeps ==
    ASSUME NEW reply \in Seq(Seq(Token)), NEW segs, Done(reply, segs), NEW P, NEW from, NEW tags,
           InWork(reply, segs, P, from, tags), P # <<>>,
           NEW more, more = Append(segs, SegmentOf(P, from, tags))
    PROVE  FlushKept(reply, segs, P, tags, more)
<1> DEFINE n == Len(segs)
<1>1. segs \in Seq(SegmentSet) /\ P \in Seq(PieceSet) /\ from \in Seq(TagNames) /\ tags \in Seq(TagNames)
  BY DEF Done, InWork
<1>2. PICK s : s = SegmentOf(P, from, tags)
  OBVIOUS
<1>3. s \in SegmentSet /\ s.pieces = P /\ s.opened = from /\ s.closed = tags /\ s.len <= LIMIT
  <2>1. s \in SegmentSet
    BY <1>1, <1>2, SegmentType
  <2>2. s.pieces = P /\ s.opened = from /\ s.closed = tags /\ s.len = Prefix(from) + Length(P) + Suffix(tags)
    BY <1>2 DEF SegmentOf
  <2> QED BY <2>1, <2>2 DEF InWork
<1>4. Done(reply, more)
  <2>1. PiecesOf(reply, s.pieces, s.opened, s.closed) /\ \A i \in DOMAIN segs : Ahead(segs[i].pieces, s.pieces)
    BY <1>3 DEF InWork
  <2> QED BY <1>2, <1>3, <2>1, DoneAppend
<1>5. n \in Nat /\ DOMAIN segs = 1..n /\ DOMAIN more = 1..(n + 1) /\ more[n + 1] = s
        /\ more \in Seq(SegmentSet) /\ \A k \in 1..n : more[k] = segs[k]
  BY <1>1, <1>2, <1>3
<1> HIDE DEF n
<1>6. InWork(reply, more, <<>>, tags, tags)
  <2>1. PiecesOf(reply, <<>>, tags, tags)
    BY <1>1, PiecesNone
  <2>2. <<>> \in Seq(PieceSet) /\ ~(<<>> # <<>>)
    OBVIOUS
  <2>3. \A i \in DOMAIN more : Ahead(more[i].pieces, <<>>)
    BY DEF Ahead
  <2> QED BY <1>1, <2>1, <2>2, <2>3 DEF InWork
<1>7. ASSUME NEW l, NEW t, Reached(segs, P, l, t)
      PROVE  Reached(more, <<>>, l, t)
  <2>1. \A i \in DOMAIN more : UpTo(more[i].pieces, l, t)
    <3>1. UpTo(s.pieces, l, t) /\ \A i \in 1..n : UpTo(segs[i].pieces, l, t)
      BY <1>3, <1>5, <1>7 DEF Reached
    <3>2. \A i \in DOMAIN more : i \in 1..n \/ i = n + 1
      BY <1>5
    <3> QED BY <1>5, <3>1, <3>2
  <2>2. UpTo(<<>>, l, t)
    BY DEF UpTo
  <2> QED BY <2>1, <2>2 DEF Reached
<1>8. ASSUME NEW l, NEW t
      PROVE  Covered(more, <<>>, l, t) = Covered(segs, P, l, t)
  <2>1. InSegments(more, l, t) = InSegments(segs, l, t) + Share(P, l, t)
    <3>1. InSegments(Append(segs, s), l, t) = InSegments(segs, l, t) + Share(s.pieces, l, t)
      BY <1>1, <1>3, InSegmentsAppend
    <3> QED BY <1>2, <1>3, <3>1
  <2>2. <<>> \in Seq(PieceSet)
    OBVIOUS
  <2>3. Share(<<>>, l, t) = 0
    BY <2>2, ShareOf
  <2>4. InSegments(segs, l, t) \in Nat /\ Share(P, l, t) \in Nat
    BY <1>1, InSegmentsOf, ShareOf
  <2>5. PICK a : a = InSegments(segs, l, t)
    OBVIOUS
  <2>6. PICK b : b = Share(P, l, t)
    OBVIOUS
  <2>7. PICK c : c = InSegments(more, l, t)
    OBVIOUS
  <2>8. c + 0 = a + b
    BY <2>1, <2>4, <2>5, <2>6, <2>7
  <2> QED BY <2>3, <2>5, <2>6, <2>7, <2>8 DEF Covered
<1> QED BY <1>4, <1>6, <1>7, <1>8 DEF FlushKept

\* A piece of the token in work, with its tags, is taken.
\* What taking n of the token t of line l keeps, with the pieces P before and Q after.
TakeKept(reply, segs, P, Q, from, after, l, t, n) ==
    /\ InWork(reply, segs, Q, from, after) /\ Reached(segs, Q, l, t)
    /\ \A ll, tt : Covered(segs, Q, ll, tt)
         = Covered(segs, P, ll, tt) + (IF l = ll /\ t = tt THEN n ELSE 0)

LEMMA TakeKeeps ==
    ASSUME NEW reply \in Seq(Seq(Token)), NEW segs, Done(reply, segs), NEW P, NEW from, NEW tags,
           InWork(reply, segs, P, from, tags),
           NEW l \in Nat, NEW t \in Nat, Reached(segs, P, l, t),
           NEW p \in PieceSet, p.line = l, p.token = t, Uncut(reply, p),
           NEW token, token = reply[l][t],
           token.kind = "close" => tags # <<>> /\ Last(tags) = token.name,
           Prefix(from) + (Length(P) + p.len) + Suffix(After(tags, token)) <= LIMIT
    PROVE  TakeKept(reply, segs, P, Append(P, p), from, After(tags, token), l, t, p.len)
<1> DEFINE n == Len(P)
<1>1. segs \in Seq(SegmentSet) /\ P \in Seq(PieceSet) /\ from \in Seq(TagNames) /\ tags \in Seq(TagNames)
  BY DEF Done, InWork
<1>2. PICK Q : Q = Append(P, p)
  OBVIOUS
<1>3. n \in Nat /\ DOMAIN P = 1..n /\ DOMAIN Q = 1..(n + 1) /\ Q[n + 1] = p /\ Q \in Seq(PieceSet)
        /\ \A k \in 1..n : Q[k] = P[k]
  BY <1>1, <1>2
<1> HIDE DEF n
<1>4. \A k \in DOMAIN Q : k \in 1..n \/ k = n + 1
  BY <1>3
<1>5. token \in Token
  <2>1. p.line \in DOMAIN reply /\ p.token \in DOMAIN reply[p.line]
    BY DEF Uncut
  <2>2. reply[p.line] \in Seq(Token)
    BY <2>1
  <2> QED BY <2>1, <2>2
<1>6. ASSUME NEW q, q.line < l \/ (q.line = l /\ q.token <= t)
      PROVE  InOrder(q, p)
  BY <1>6 DEF InOrder
<1>7. PiecesOf(reply, Q, from, After(tags, token))
  <2>1. \A k \in DOMAIN P : InOrder(P[k], p)
    BY <1>6 DEF Reached, UpTo
  <2>2. PiecesOf(reply, P, from, tags) /\ token = reply[p.line][p.token]
    BY DEF InWork
  <2> QED BY <1>1, <1>2, <2>1, <2>2, PiecesAppend
<1>8. ASSUME NEW i \in DOMAIN segs
      PROVE  Ahead(segs[i].pieces, Q)
  <2>1. Ahead(segs[i].pieces, P) /\ UpTo(segs[i].pieces, l, t)
    BY DEF InWork, Reached
  <2>2. \A k \in DOMAIN segs[i].pieces : InOrder(segs[i].pieces[k], p)
    BY <1>6, <2>1 DEF UpTo
  <2> QED BY <1>3, <1>4, <2>1, <2>2 DEF Ahead
<1>9. Length(Q) = Length(P) + p.len
  <2>1. \A x \in PieceSet : x.len \in Nat
    BY DEF PieceSet
  <2> QED BY <1>1, <1>2, <2>1, LengthAppend
<1>10. InWork(reply, segs, Q, from, After(tags, token))
  <2>1. After(tags, token) \in Seq(TagNames)
    BY <1>1, <1>5, AfterType
  <2>2. Prefix(from) + Length(Q) + Suffix(After(tags, token)) <= LIMIT
    BY <1>9
  <2> QED BY <1>1, <1>3, <1>7, <1>8, <2>1, <2>2 DEF InWork
<1>11. Reached(segs, Q, l, t)
  <2>1. p.line = l /\ p.token <= t
    OBVIOUS
  <2>2. UpTo(Q, l, t)
    <3>1. \A k \in 1..n : P[k].line < l \/ (P[k].line = l /\ P[k].token <= t)
      BY <1>3 DEF Reached, UpTo
    <3> QED BY <1>3, <1>4, <2>1, <3>1 DEF UpTo
  <2> QED BY <2>2 DEF Reached
<1>12. ASSUME NEW ll, NEW tt
       PROVE  Covered(segs, Q, ll, tt) = Covered(segs, P, ll, tt) + (IF l = ll /\ t = tt THEN p.len ELSE 0)
  <2>1. PICK d : d = IF l = ll /\ t = tt THEN p.len ELSE 0
    OBVIOUS
  <2>2. d \in Nat
    BY <2>1 DEF PieceSet
  <2>3. Share(Q, ll, tt) = Share(P, ll, tt) + d
    BY <1>1, <1>2, <2>1, ShareAppend
  <2>4. InSegments(segs, ll, tt) \in Nat /\ Share(P, ll, tt) \in Nat
    BY <1>1, InSegmentsOf, ShareOf
  <2>5. PICK a : a = InSegments(segs, ll, tt)
    OBVIOUS
  <2>6. PICK b : b = Share(P, ll, tt)
    OBVIOUS
  <2>7. a + (b + d) = (a + b) + d
    BY <2>2, <2>4, <2>5, <2>6
  <2>8. Covered(segs, Q, ll, tt) = Covered(segs, P, ll, tt) + d
    BY <2>3, <2>5, <2>6, <2>7 DEF Covered
  <2> QED BY <2>1, <2>8
<1>13. TakeKept(reply, segs, P, Q, from, After(tags, token), l, t, p.len)
  BY <1>10, <1>11, <1>12 DEF TakeKept
<1> QED BY <1>2, <1>13
-----------------------------------------------------------------------------
\* What Texts promises of a line.
LEMMA LineOf ==
    ASSUME NEW reply \in Texts, NEW l \in DOMAIN reply
    PROVE  /\ reply \in Seq(Seq(Token)) /\ reply[l] \in Seq(Token) /\ l \in Nat /\ l >= 1
           /\ Closes(<<>>, reply[l], <<>>)
           /\ \A n \in 1..Len(reply[l]) : Atom(reply[l], n) <= LIMIT
           /\ \A n \in 1..Len(reply[l]) : reply[l][n] \in Token /\ reply[l][n].len \in Nat \ {0}
<1>1. reply \in Seq(Seq(Token))
  BY PartsAssumption
<1>2. reply[l] \in Seq(Token) /\ l \in Nat /\ l >= 1
  BY <1>1
<1>3. DOMAIN reply[l] = 1..Len(reply[l])
  BY <1>2
<1>4. Matched(<<>>, reply[l]) /\ TagsAlong(<<>>, reply[l])[Len(reply[l])] = <<>>
        /\ \A n \in DOMAIN reply[l] : Atom(reply[l], n) <= LIMIT
  BY PartsAssumption
<1>5. \A n \in 1..Len(reply[l]) : reply[l][n] \in Token
  BY <1>2
<1>6. \A x \in Token : x.len \in Nat \ {0}
  BY DEF Token
<1> QED BY <1>1, <1>2, <1>3, <1>4, <1>5, <1>6 DEF Closes

\* The pieces of a line that is kept.
AllOf(reply, l) == [i \in 1..Len(reply[l]) |-> [line |-> l, token |-> i, len |-> reply[l][i].len]]

LEMMA AllOfIs ==
    ASSUME NEW reply \in Texts, NEW l \in DOMAIN reply, NEW P, P = AllOf(reply, l)
    PROVE  /\ P \in Seq(PieceSet) /\ Len(P) = Len(reply[l]) /\ DOMAIN P = 1..Len(reply[l])
           /\ \A i \in DOMAIN P : i \in Nat /\ P[i].line = l /\ P[i].token = i /\ P[i].len = reply[l][i].len
<1> DEFINE n == Len(reply[l])
           R(i) == [line |-> l, token |-> i, len |-> reply[l][i].len]
<1>1. n \in Nat /\ l \in Nat /\ \A i \in 1..n : reply[l][i].len \in Nat
  BY LineOf
<1>2. \A i \in 1..n : R(i) \in PieceSet
  <2> SUFFICES ASSUME NEW i \in 1..n PROVE R(i) \in PieceSet
    OBVIOUS
  <2>1. i \in Nat /\ reply[l][i].len \in Nat
    BY <1>1
  <2> QED BY <1>1, <2>1 DEF PieceSet
<1>3. P = [i \in 1..n |-> R(i)]
  BY DEF AllOf
<1> HIDE DEF R, n
<1>4. P \in Seq(PieceSet) /\ Len(P) = n /\ \A i \in 1..n : P[i] = R(i)
  BY <1>1, <1>2, <1>3, SeqDef
<1>5. DOMAIN P = 1..n
  BY <1>1, <1>4
<1>6. ASSUME NEW i \in DOMAIN P
      PROVE  i \in Nat /\ P[i].line = l /\ P[i].token = i /\ P[i].len = reply[l][i].len
  <2>1. i \in Nat /\ P[i] = R(i)
    BY <1>1, <1>4, <1>5
  <2>2. R(i).line = l /\ R(i).token = i /\ R(i).len = reply[l][i].len
    BY DEF R
  <2> QED BY <2>1, <2>2
<1> QED BY <1>4, <1>5, <1>6 DEF n

LEMMA AllOfPieces ==
    ASSUME NEW reply \in Texts, NEW l \in DOMAIN reply, NEW P, P = AllOf(reply, l)
    PROVE  PiecesOf(reply, P, <<>>, <<>>) /\ UpTo(P, l + 1, 0)
<1> DEFINE n == Len(reply[l])
<1>1. n \in Nat /\ reply \in Seq(Seq(Token)) /\ reply[l] \in Seq(Token) /\ DOMAIN reply[l] = 1..n
        /\ l \in Nat
  BY LineOf
<1>2. P \in Seq(PieceSet) /\ Len(P) = n /\ DOMAIN P = 1..n
  BY AllOfIs
<1>3. \A i \in DOMAIN P : i \in 1..n /\ P[i].line = l /\ P[i].token = i /\ P[i].len = reply[l][i].len
  BY <1>2, AllOfIs
<1> HIDE DEF n
<1>4. \A i \in DOMAIN P : Uncut(reply, P[i])
  BY <1>1, <1>3 DEF Uncut
<1>5. Sorted(P)
  BY <1>3 DEF Sorted, InOrder
<1>6. TokensIn(reply, P) = reply[l]
  <2>1. Placed(reply, P)
    BY <1>4 DEF Placed, Uncut
  <2>2. PICK s : s = TokensIn(reply, P)
    OBVIOUS
  <2>3. s \in Seq(Token) /\ Len(s) = n
    BY <1>1, <1>2, <2>1, <2>2, TokensType
  <2>4. PICK r : r = reply[l]
    OBVIOUS
  <2>5. r \in Seq(Token) /\ Len(r) = n
    BY <1>1, <2>4 DEF n
  <2>6. \A i \in 1..n : s[i] = r[i]
    <3> SUFFICES ASSUME NEW i \in 1..n PROVE s[i] = r[i]
      OBVIOUS
    <3>1. i \in DOMAIN P
      BY <1>2
    <3>2. s[i] = reply[P[i].line][P[i].token]
      BY <2>2, <3>1 DEF TokensIn
    <3>3. P[i].line = l /\ P[i].token = i
      BY <1>3, <3>1
    <3> QED BY <2>4, <3>2, <3>3
  <2>7. s = r
    BY <2>3, <2>5, <2>6, SeqEqual
  <2> QED BY <2>2, <2>4, <2>7
<1>7. Closes(<<>>, TokensIn(reply, P), <<>>)
  BY <1>6, LineOf
<1>8. UpTo(P, l + 1, 0)
  BY <1>1, <1>3 DEF UpTo
<1> QED BY <1>4, <1>5, <1>7, <1>8 DEF PiecesOf

LEMMA AllOfLength ==
    ASSUME NEW reply \in Texts, NEW l \in DOMAIN reply, NEW P, P = AllOf(reply, l)
    PROVE  Length(P) = Length(reply[l]) /\ Length(P) \in Nat
<1> DEFINE n == Len(reply[l])
<1>1. PICK r : r = reply[l]
  OBVIOUS
<1>2. n \in Nat /\ DOMAIN r = 1..n
  BY <1>1, LineOf
<1>3. DOMAIN P = 1..n /\ (\A i \in 1..n : P[i].len = r[i].len) /\ P \in Seq(PieceSet)
  <2>1. DOMAIN P = 1..n /\ P \in Seq(PieceSet)
    BY AllOfIs
  <2>2. \A i \in DOMAIN P : P[i].len = r[i].len
    BY <1>1, AllOfIs
  <2> QED BY <2>1, <2>2
<1> HIDE DEF n
<1>4. [i \in DOMAIN P |-> P[i].len] = [i \in DOMAIN r |-> r[i].len]
  BY <1>2, <1>3
<1>5. Length(P) = Length(r)
  BY <1>4 DEF Length
<1>6. Length(P) \in Nat
  <2>1. \A x \in PieceSet : x.len \in Nat
    BY DEF PieceSet
  <2> QED BY <1>3, <2>1, LengthOf
<1> QED BY <1>1, <1>5, <1>6

LEMMA AllOfShare ==
    ASSUME NEW reply \in Texts, NEW l \in DOMAIN reply, NEW P, P = AllOf(reply, l), NEW ll, NEW tt
    PROVE  Share(P, ll, tt) = IF l = ll /\ tt \in 1..Len(reply[l]) THEN reply[l][tt].len ELSE 0
<1> DEFINE n == Len(reply[l])
           part(q) == IF q.line = ll /\ q.token = tt THEN q.len ELSE 0
<1>1. PICK r : r = reply[l]
  OBVIOUS
<1>2. n \in Nat /\ \A i \in 1..n : r[i].len \in Nat
  BY <1>1, LineOf
<1>3. DOMAIN P = 1..n /\ \A i \in 1..n : P[i].line = l /\ P[i].token = i /\ P[i].len = r[i].len
  <2>1. DOMAIN P = 1..n
    BY AllOfIs
  <2>2. \A i \in DOMAIN P : P[i].line = l /\ P[i].token = i /\ P[i].len = r[i].len
    BY <1>1, AllOfIs
  <2> QED BY <2>1, <2>2
<1>4. Share(P, ll, tt) = SumFunction([i \in DOMAIN P |-> part(P[i])])
  BY DEF Share
<1>5. \A i \in 1..n : part(P[i]) = IF l = ll /\ i = tt THEN r[i].len ELSE 0
  BY <1>3
<1> HIDE DEF n, part
<1>6. PICK f : f = [i \in DOMAIN P |-> part(P[i])]
  OBVIOUS
<1>7. DOMAIN f = 1..n /\ \A i \in 1..n : f[i] = part(P[i])
  BY <1>3, <1>6
<1>8. \A i \in 1..n : f[i] = IF l = ll /\ i = tt THEN r[i].len ELSE 0
  BY <1>5, <1>7
<1>9. CASE l = ll /\ tt \in 1..n
  <2>1. f[tt] = r[tt].len /\ f[tt] \in Nat /\ \A i \in 1..n : i # tt => f[i] = 0
    BY <1>2, <1>8, <1>9
  <2>2. SumFunction(f) = f[tt]
    BY <1>2, <1>7, <1>9, <2>1, SumOfOne
  <2> QED BY <1>1, <1>4, <1>6, <1>9, <2>1, <2>2 DEF n
<1>10. CASE ~(l = ll /\ tt \in 1..n)
  <2>1. \A i \in 1..n : f[i] = 0
    BY <1>8, <1>10
  <2>2. SumFunction(f) = 0
    <3>1. n \in Int /\ 1 \in Int
      BY <1>2
    <3>2. IsFiniteSet(1..n)
      BY <3>1, FS_Interval
    <3> QED BY <1>7, <2>1, <3>2, SumOfZeros DEF SumFunction
  <2> QED BY <1>4, <1>6, <1>10, <2>2 DEF n
<1> QED BY <1>9, <1>10

\* What keeping the line l keeps, with more the segments after.
LineKept(reply, segs, from, tags, l, more) ==
    /\ Done(reply, more) /\ InWork(reply, more, <<>>, from, tags)
    /\ Reached(more, <<>>, l + 1, 0)
    /\ \A ll, tt : Covered(more, <<>>, ll, tt) = Covered(segs, <<>>, ll, tt)
         + (IF l = ll /\ tt \in 1..Len(reply[l]) THEN reply[l][tt].len ELSE 0)

LEMMA LineKeeps ==
    ASSUME NEW reply \in Texts, NEW segs, Done(reply, segs), NEW from, NEW tags,
           InWork(reply, segs, <<>>, from, tags), NEW l \in DOMAIN reply, Reached(segs, <<>>, l, 0),
           Length(reply[l]) <= LIMIT,
           NEW more, more = Append(segs, SegmentOf(AllOf(reply, l), <<>>, <<>>))
    PROVE  LineKept(reply, segs, from, tags, l, more)
<1> DEFINE n == Len(segs)
<1>1. PICK P : P = AllOf(reply, l)
  OBVIOUS
<1>2. PICK s : s = SegmentOf(P, <<>>, <<>>)
  OBVIOUS
<1>3. segs \in Seq(SegmentSet) /\ P \in Seq(PieceSet) /\ l \in Nat
  BY <1>1, AllOfIs, LineOf DEF Done
<1>4. s \in SegmentSet /\ s.pieces = P /\ s.opened = <<>> /\ s.closed = <<>> /\ s.len <= LIMIT
  <2>1. <<>> \in Seq(TagNames)
    OBVIOUS
  <2>2. s \in SegmentSet
    BY <1>2, <1>3, <2>1, SegmentType
  <2>3. s.pieces = P /\ s.opened = <<>> /\ s.closed = <<>>
          /\ s.len = Prefix(<<>>) + Length(P) + Suffix(<<>>)
    BY <1>2 DEF SegmentOf
  <2>4. Prefix(<<>>) = 0 /\ Suffix(<<>>) = 0
    BY <2>1, TagLengths
  <2>5. Length(P) = Length(reply[l]) /\ Length(P) \in Nat
    BY <1>1, AllOfLength
  <2>6. s.len = Length(P)
    BY <2>3, <2>4, <2>5
  <2> QED BY <2>2, <2>3, <2>5, <2>6
<1>5. \A i \in DOMAIN segs : Ahead(segs[i].pieces, P)
  <2> SUFFICES ASSUME NEW i \in DOMAIN segs, NEW k \in DOMAIN segs[i].pieces, NEW m \in DOMAIN P
               PROVE  InOrder(segs[i].pieces[k], P[m])
    BY DEF Ahead
  <2>1. P[m].line = l /\ P[m].token = m /\ m \in Nat
    BY <1>1, <1>3, AllOfIs
  <2>2. PICK q : q = segs[i].pieces[k]
    OBVIOUS
  <2>3. q \in PieceSet
    <3>1. segs[i] \in SegmentSet
      BY <1>3
    <3>2. segs[i].pieces \in Seq(PieceSet)
      BY <3>1 DEF SegmentSet
    <3> QED BY <2>2, <3>2
  <2>4. q.line < l \/ (q.line = l /\ q.token <= 0)
    BY <2>2 DEF Reached, UpTo
  <2>5. q.token \in Nat
    BY <2>3 DEF PieceSet
  <2> QED BY <2>1, <2>2, <2>4, <2>5 DEF InOrder
<1>6. PiecesOf(reply, P, <<>>, <<>>) /\ UpTo(P, l + 1, 0)
  BY <1>1, AllOfPieces
<1>7. Done(reply, more)
  BY <1>1, <1>2, <1>4, <1>5, <1>6, DoneAppend
<1>8. n \in Nat /\ DOMAIN segs = 1..n /\ DOMAIN more = 1..(n + 1) /\ more[n + 1] = s
        /\ \A k \in 1..n : more[k] = segs[k]
  BY <1>1, <1>2, <1>3, <1>4
<1> HIDE DEF n
<1>9. InWork(reply, more, <<>>, from, tags)
  <2>1. \A i \in DOMAIN more : Ahead(more[i].pieces, <<>>)
    BY DEF Ahead
  <2> QED BY <2>1 DEF InWork
<1>10. Reached(more, <<>>, l + 1, 0)
  <2>1. \A i \in 1..n : UpTo(segs[i].pieces, l + 1, 0)
    <3> SUFFICES ASSUME NEW i \in 1..n, NEW k \in DOMAIN segs[i].pieces
                 PROVE  segs[i].pieces[k].line < l + 1
      BY DEF UpTo
    <3>1. PICK q : q = segs[i].pieces[k]
      OBVIOUS
    <3>2. q.line < l \/ q.line = l
      BY <1>8, <3>1 DEF Reached, UpTo
    <3>3. q.line \in Nat
      <4>1. segs[i] \in SegmentSet
        BY <1>3, <1>8
      <4>2. segs[i].pieces \in Seq(PieceSet)
        BY <4>1 DEF SegmentSet
      <4>3. q \in PieceSet
        BY <3>1, <4>2
      <4> QED BY <4>3 DEF PieceSet
    <3> QED BY <1>3, <3>1, <3>2, <3>3
  <2>2. \A i \in DOMAIN more : i \in 1..n \/ i = n + 1
    BY <1>8
  <2>3. \A i \in DOMAIN more : UpTo(more[i].pieces, l + 1, 0)
    BY <1>4, <1>6, <1>8, <2>1, <2>2
  <2>4. UpTo(<<>>, l + 1, 0)
    BY DEF UpTo
  <2> QED BY <2>3, <2>4 DEF Reached
<1>11. ASSUME NEW ll, NEW tt
       PROVE  Covered(more, <<>>, ll, tt) = Covered(segs, <<>>, ll, tt)
                + (IF l = ll /\ tt \in 1..Len(reply[l]) THEN reply[l][tt].len ELSE 0)
  <2>1. InSegments(more, ll, tt) = InSegments(segs, ll, tt) + Share(P, ll, tt)
    <3>1. InSegments(Append(segs, s), ll, tt) = InSegments(segs, ll, tt) + Share(s.pieces, ll, tt)
      BY <1>3, <1>4, InSegmentsAppend
    <3> QED BY <1>1, <1>2, <1>4, <3>1
  <2>2. <<>> \in Seq(PieceSet)
    OBVIOUS
  <2>3. Share(<<>>, ll, tt) = 0
    BY <2>2, ShareOf
  <2>4. InSegments(segs, ll, tt) \in Nat /\ Share(P, ll, tt) \in Nat
    BY <1>3, InSegmentsOf, ShareOf
  <2>5. PICK a : a = InSegments(segs, ll, tt)
    OBVIOUS
  <2>6. PICK b : b = Share(P, ll, tt)
    OBVIOUS
  <2>7. PICK c : c = InSegments(more, ll, tt)
    OBVIOUS
  <2>8. c + 0 = (a + 0) + b
    BY <2>1, <2>4, <2>5, <2>6, <2>7
  <2>9. Covered(more, <<>>, ll, tt) = Covered(segs, <<>>, ll, tt) + b
    BY <2>3, <2>5, <2>7, <2>8 DEF Covered
  <2> QED BY <1>1, <2>6, <2>9, AllOfShare
<1> QED BY <1>7, <1>9, <1>10, <1>11 DEF LineKept
-----------------------------------------------------------------------------
\* How much of a token is due before the token n of line ln.
Through(reply, ln, n, l, t) == IF l < ln \/ (l = ln /\ t < n) THEN reply[l][t].len ELSE 0

\* What is left of a token that is reached; all tokens of the line are passed.
Rest(reply, ln, n) == IF n \in 1..Len(reply[ln]) THEN reply[ln][n].len ELSE 0
Passed(reply, ln, n) == n = Len(reply[ln]) + 1

LEMMA DueOf ==
    ASSUME NEW reply \in Texts, NEW l \in DOMAIN reply, NEW t \in DOMAIN reply[l],
           NEW ln \in Nat, NEW n \in Nat, NEW rem \in Nat
    PROVE  /\ rem = Rest(reply, ln, n)
                => Due(reply, ln, n, rem, l, t) = Through(reply, ln, n, l, t)
           /\ Due(reply, ln, 0, rem, l, t) = Through(reply, ln, 1, l, t)
           /\ Passed(reply, ln, n) => Due(reply, ln, n, rem, l, t) = Through(reply, ln + 1, 1, l, t)
           /\ Due(reply, ln, n, rem, l, t) \in Int
           /\ ln = l /\ n = t => Due(reply, ln, n, rem, l, t) = reply[l][t].len - rem
           /\ ~(ln = l /\ n = t) => Due(reply, ln, n, rem, l, t) = Through(reply, ln, n, l, t)
           /\ ln = l /\ n = t => Through(reply, ln, n + 1, l, t) = reply[l][t].len
           /\ ~(ln = l /\ n = t) => Through(reply, ln, n + 1, l, t) = Through(reply, ln, n, l, t)
<1>1. PICK c : c = reply[l][t].len
  OBVIOUS
<1>2. l \in Nat /\ t \in Nat /\ t \in 1..Len(reply[l]) /\ c \in Nat
  <2>1. reply[l] \in Seq(Token) /\ l \in Nat
    BY LineOf
  <2>2. t \in 1..Len(reply[l]) /\ t \in Nat
    BY <2>1
  <2> QED BY <1>1, <2>1, <2>2, LineOf
<1>3. t >= 1
  BY <1>2
<1>4. \A m : Due(reply, ln, m, rem, l, t) = IF l < ln \/ (l = ln /\ t < m) THEN c
                ELSE IF l = ln /\ t = m THEN c - rem ELSE 0
  BY <1>1 DEF Due
<1>5. \A a, m : Through(reply, a, m, l, t) = IF l < a \/ (l = a /\ t < m) THEN c ELSE 0
  BY <1>1 DEF Through
<1>6. rem = Rest(reply, ln, n) => Due(reply, ln, n, rem, l, t) = Through(reply, ln, n, l, t)
  <2>1. CASE l = ln /\ t = n
    BY <1>1, <1>2, <1>4, <1>5, <2>1 DEF Rest
  <2>2. CASE ~(l = ln /\ t = n)
    BY <1>2, <1>4, <1>5, <2>2
  <2> QED BY <2>1, <2>2
<1>7. Due(reply, ln, 0, rem, l, t) = Through(reply, ln, 1, l, t)
  BY <1>2, <1>3, <1>4, <1>5
<1>8. Passed(reply, ln, n) => Due(reply, ln, n, rem, l, t) = Through(reply, ln + 1, 1, l, t)
  <2> SUFFICES ASSUME n = Len(reply[ln]) + 1
               PROVE  Due(reply, ln, n, rem, l, t) = Through(reply, ln + 1, 1, l, t)
    BY DEF Passed
  <2>1. CASE l = ln
    <3>1. Len(reply[ln]) \in Nat
      BY <2>1, LineOf
    <3>2. t < n
      BY <1>2, <2>1, <3>1
    <3>3. l < ln + 1
      BY <1>2, <2>1
    <3> QED BY <1>4, <1>5, <2>1, <3>2, <3>3
  <2>2. CASE l # ln
    <3>1. ~(l = ln + 1 /\ t < 1) /\ (l < ln + 1 <=> l < ln)
      BY <1>2, <1>3, <2>2
    <3> QED BY <1>4, <1>5, <2>2, <3>1
  <2> QED BY <2>1, <2>2
<1>9. Due(reply, ln, n, rem, l, t) \in Int
  BY <1>2, <1>4
<1>10. ln = l /\ n = t => Due(reply, ln, n, rem, l, t) = c - rem
  BY <1>2, <1>4
<1>11. ~(ln = l /\ n = t) => Due(reply, ln, n, rem, l, t) = Through(reply, ln, n, l, t)
  BY <1>2, <1>4, <1>5
<1>12. ln = l /\ n = t => Through(reply, ln, n + 1, l, t) = c
  BY <1>2, <1>5
<1>13. ~(ln = l /\ n = t) => Through(reply, ln, n + 1, l, t) = Through(reply, ln, n, l, t)
  BY <1>2, <1>5
<1> QED BY <1>1, <1>6, <1>7, <1>8, <1>9, <1>10, <1>11, <1>12, <1>13

LEMMA ReachedLater ==
    ASSUME NEW segs \in Seq(SegmentSet), NEW P \in Seq(PieceSet), NEW l \in Nat, NEW t \in Nat,
           NEW ll \in Nat, NEW tt \in Nat, Reached(segs, P, l, t), l < ll \/ (l = ll /\ t <= tt)
    PROVE  Reached(segs, P, ll, tt)
<1>1. ASSUME NEW Q \in Seq(PieceSet), UpTo(Q, l, t)
      PROVE  UpTo(Q, ll, tt)
  <2> SUFFICES ASSUME NEW k \in DOMAIN Q PROVE Q[k].line < ll \/ (Q[k].line = ll /\ Q[k].token <= tt)
    BY DEF UpTo
  <2>1. PICK q : q = Q[k]
    OBVIOUS
  <2>2. q.line \in Nat /\ q.token \in Nat
    <3>1. q \in PieceSet
      BY <2>1
    <3> QED BY <3>1 DEF PieceSet
  <2>3. q.line < l \/ (q.line = l /\ q.token <= t)
    BY <1>1, <2>1 DEF UpTo
  <2> QED BY <2>1, <2>2, <2>3
<1>2. \A i \in DOMAIN segs : segs[i].pieces \in Seq(PieceSet)
  <2>1. \A i \in DOMAIN segs : segs[i] \in SegmentSet
    OBVIOUS
  <2> QED BY <2>1 DEF SegmentSet
<1> QED BY <1>1, <1>2 DEF Reached

LEMMA NoneInWork ==
    ASSUME NEW reply, NEW segs, NEW from, NEW tags, InWork(reply, segs, <<>>, from, tags)
    PROVE  from = tags
<1>1. TokensIn(reply, <<>>) = <<>>
  <2>1. DOMAIN <<>> = {}
    OBVIOUS
  <2>2. TokensIn(reply, <<>>) = [k \in {} |-> reply[<<>>[k].line][<<>>[k].token]]
    BY <2>1 DEF TokensIn
  <2> QED BY <2>2
<1>2. Closes(from, <<>>, tags) /\ from \in Seq(TagNames)
  BY <1>1 DEF InWork, PiecesOf
<1>3. <<>> \in Seq(Token) /\ Len(<<>>) = 0
  OBVIOUS
<1>4. TagsAlong(from, <<>>)[0] = from
  BY <1>2, <1>3, TagsAlongIs
<1> QED BY <1>2, <1>3, <1>4 DEF Closes

\* The line in work, the token, and the tags.
LEMMA InWorkOf ==
    ASSUME Cursor, ~Split
    PROVE  /\ text \in Texts /\ lineno \in DOMAIN text /\ lineno \in Nat /\ text \in Seq(Seq(Token))
           /\ Line \in Seq(Token) /\ Len(Line) \in Nat /\ tokenno \in 0..(Len(Line) + 1)
<1>1. text \in Texts /\ lineno \in 1..(Len(text) + 1) /\ ~(lineno > Len(text)) /\ tokenno \in Nat
        /\ tokenno <= Len(Line) + 1
  BY DEF Cursor, Split
<1>2. text \in Seq(Seq(Token))
  BY <1>1, PartsAssumption
<1>3. lineno \in DOMAIN text /\ lineno \in Nat
  BY <1>1, <1>2
<1>4. Line \in Seq(Token)
  BY <1>2, <1>3 DEF Line
<1>5. Len(Line) \in Nat
  BY <1>4
<1> QED BY <1>1, <1>2, <1>3, <1>4, <1>5

LEMMA CurrentOf ==
    ASSUME Cursor, InLine
    PROVE  /\ ~Split /\ tokenno \in 1..Len(Line) /\ tokenno \in Nat
           /\ Current \in Token /\ Current = text[lineno][tokenno] /\ Current.len \in Nat
           /\ remaining \in 1..Current.len /\ remaining \in Nat
           /\ stack = TagsAlong(<<>>, Line)[tokenno - 1] /\ stack \in Seq(TagNames)
           /\ TagsAlong(<<>>, Line)[tokenno] = After(stack, Current)
           /\ Current.kind = "close" => stack # <<>> /\ Last(stack) = Current.name
           /\ Prefix(stack) + (IF Current.kind = "text" THEN 1 ELSE Current.len)
                + Suffix(After(stack, Current)) <= LIMIT
<1>1. ~Split /\ tokenno \in 1..Len(Line)
  BY DEF InLine
<1>2. text \in Texts /\ lineno \in DOMAIN text /\ Line \in Seq(Token) /\ Len(Line) \in Nat
  BY <1>1, InWorkOf
<1>3. tokenno \in Nat /\ tokenno > 0 /\ tokenno \in DOMAIN Line
  BY <1>1, <1>2
<1>4. Current \in Token /\ Current = text[lineno][tokenno]
  BY <1>1, <1>2 DEF Current, Line
<1>5. Current.len \in Nat
  BY <1>4 DEF Token
<1>6. remaining \in 1..Current.len /\ stack = TagsAlong(<<>>, Line)[tokenno - 1]
  BY <1>1, <1>3 DEF Cursor
<1>7. remaining \in Nat
  BY <1>5, <1>6
<1>8. <<>> \in Seq(TagNames)
  OBVIOUS
<1>9. PICK tags : tags = TagsAlong(<<>>, Line)
  OBVIOUS
<1>10. tags \in [0..Len(Line) -> Seq(TagNames)] /\ tags[tokenno] = After(tags[tokenno - 1], Line[tokenno])
  BY <1>1, <1>2, <1>8, <1>9, TagsAlongIs
<1>11. tokenno - 1 \in 0..Len(Line)
  BY <1>1, <1>2
<1>12. stack \in Seq(TagNames) /\ tags[tokenno] = After(stack, Current)
  BY <1>6, <1>9, <1>10, <1>11 DEF Current
<1>13. Closes(<<>>, text[lineno], <<>>) /\ \A n \in 1..Len(text[lineno]) : Atom(text[lineno], n) <= LIMIT
  BY <1>2, LineOf
<1>14. Matched(<<>>, Line) /\ Atom(Line, tokenno) <= LIMIT
  BY <1>1, <1>13 DEF Closes, Line
<1>15. Current.kind = "close" => stack # <<>> /\ Last(stack) = Current.name
  BY <1>3, <1>6, <1>14 DEF Matched, Current
<1>16. Prefix(stack) + (IF Current.kind = "text" THEN 1 ELSE Current.len)
         + Suffix(After(stack, Current)) <= LIMIT
  BY <1>6, <1>9, <1>12, <1>14 DEF Atom, Current
<1> QED BY <1>1, <1>3, <1>4, <1>5, <1>6, <1>7, <1>9, <1>12, <1>15, <1>16

\* The cursor moves to a token, or behind the last.
LEMMA ReachKeeps ==
    ASSUME Cursor, ~Split, NEW n \in 1..(Len(Line) + 1), Reach(n), UNCHANGED <<text, lineno, parts, packed>>,
           stack' = TagsAlong(<<>>, Line)[n - 1]
    PROVE  Cursor' /\ remaining' \in Nat
<1>1. text \in Texts /\ lineno \in DOMAIN text /\ Line \in Seq(Token) /\ Len(Line) \in Nat
  BY InWorkOf
<1>2. Line' = Line /\ Split' = Split /\ text' = text /\ lineno' = lineno /\ parts' = parts /\ packed' = packed
  BY DEF Line, Split
<1>3. n \in Nat /\ n # 0 /\ n <= Len(Line) + 1
  BY <1>1
<1>4. tokenno' = n /\ remaining' = IF n \in 1..Len(Line) THEN Line[n].len ELSE 0
  BY DEF Reach
<1>5. n \in 1..Len(Line) => Line[n].len \in Nat /\ Line[n].len >= 1
  <2> SUFFICES ASSUME n \in 1..Len(Line) PROVE Line[n].len \in Nat /\ Line[n].len >= 1
    OBVIOUS
  <2>1. Line[n].len \in Nat \ {0}
    BY <1>1, LineOf DEF Line
  <2> QED BY <2>1
<1>6. remaining' \in Nat
  BY <1>4, <1>5
<1>7. lineno \in 1..(Len(text) + 1) /\ text \in Texts /\ parts = <<>> /\ packed = 0
  BY DEF Cursor
<1>8. InLine' => remaining' \in 1..Current'.len /\ (Current'.kind # "text" => remaining' = Current'.len)
  <2> SUFFICES ASSUME InLine' PROVE remaining' = Current'.len /\ remaining' \in 1..Current'.len
    OBVIOUS
  <2>1. n \in 1..Len(Line)
    BY <1>2, <1>4 DEF InLine
  <2>2. Current' = Line[n]
    BY <1>2, <1>4 DEF Current
  <2>3. remaining' = Line[n].len
    BY <1>4, <2>1
  <2> QED BY <1>5, <2>1, <2>2, <2>3
<1>9. ~Split'
  BY <1>2
<1> QED BY <1>2, <1>3, <1>4, <1>6, <1>7, <1>8, <1>9 DEF Cursor
-----------------------------------------------------------------------------
LEMMA KeepLineKeeps ==
    ASSUME Cursor, Segments, KeepLine
    PROVE  Cursor' /\ Segments'
<1>1. ~Split /\ tokenno = 0 /\ Length(Line) <= LIMIT /\ lineno' = lineno + 1 /\ text' = text
        /\ tokenno' = tokenno /\ remaining' = remaining /\ body' = body /\ stack' = stack
        /\ start_stack' = start_stack /\ parts' = parts /\ packed' = packed
  BY DEF KeepLine, segment
<1>2. segments' = Append(segments, SegmentOf(AllOf(text, lineno), <<>>, <<>>))
  BY DEF KeepLine, AllOf, Line
<1>3. text \in Texts /\ lineno \in DOMAIN text /\ lineno \in Nat /\ text \in Seq(Seq(Token))
  BY <1>1, InWorkOf
<1>4. body = <<>> /\ parts = <<>> /\ packed = 0 /\ remaining \in Nat
  BY <1>1 DEF Cursor
<1>5. Cursor'
  <2>1. lineno' \in 1..(Len(text') + 1)
    <3>1. DOMAIN text = 1..Len(text) /\ Len(text) \in Nat
      BY <1>3
    <3> QED BY <1>1, <1>3, <3>1
  <2>2. tokenno' <= Len(Line)' + 1 \/ Split'
    <3> SUFFICES ASSUME ~Split' PROVE tokenno' <= Len(Line)' + 1
      OBVIOUS
    <3>1. lineno + 1 \in DOMAIN text
      <4>1. ~(lineno + 1 > Len(text)) /\ Len(text) \in Nat /\ DOMAIN text = 1..Len(text)
        BY <1>1, <1>3 DEF Split
      <4> QED BY <1>3, <4>1
    <3>2. text[lineno + 1] \in Seq(Token)
      BY <1>3, <3>1
    <3>3. Len(text[lineno + 1]) \in Nat
      BY <3>2
    <3>4. Line' = text[lineno + 1]
      BY <1>1 DEF Line
    <3> QED BY <1>1, <3>3, <3>4
  <2>3. ~InLine'
    BY <1>1 DEF InLine
  <2>4. tokenno' = 0 /\ body' = <<>> /\ parts' = <<>> /\ packed' = 0 /\ remaining' \in Nat /\ text' \in Texts
    BY <1>1, <1>3, <1>4
  <2> QED BY <2>1, <2>2, <2>3, <2>4 DEF Cursor
<1>6. /\ Done(text, segments') /\ InWork(text, segments', <<>>, start_stack, stack)
      /\ Reached(segments', <<>>, lineno + 1, 0)
      /\ \A l, t : Covered(segments', <<>>, l, t) = Covered(segments, <<>>, l, t)
           + (IF lineno = l /\ t \in 1..Len(text[lineno]) THEN text[lineno][t].len ELSE 0)
  <2>1. Done(text, segments) /\ InWork(text, segments, <<>>, start_stack, stack)
          /\ Reached(segments, <<>>, lineno, 0)
    BY <1>1, <1>4 DEF Segments, Holds
  <2>2. Length(text[lineno]) <= LIMIT
    BY <1>1 DEF Line
  <2>3. PICK more : more = segments'
    OBVIOUS
  <2>4. text \in Texts /\ lineno \in DOMAIN text
          /\ more = Append(segments, SegmentOf(AllOf(text, lineno), <<>>, <<>>))
    BY <1>2, <1>3, <2>3
  <2>5. LineKept(text, segments, start_stack, stack, lineno, more)
    BY <2>1, <2>2, <2>4, LineKeeps
  <2> QED BY <2>3, <2>5 DEF LineKept
<1>7. ASSUME NEW l \in DOMAIN text, NEW t \in DOMAIN text[l]
      PROVE  Covered(segments', <<>>, l, t) = Due(text, lineno + 1, 0, remaining, l, t)
  <2>1. Covered(segments, <<>>, l, t) = Due(text, lineno, 0, remaining, l, t)
    BY <1>1, <1>4 DEF Segments, Holds
  <2>2. l \in Nat /\ t \in Nat /\ t >= 1 /\ t \in 1..Len(text[l]) /\ text[l][t].len \in Nat
    <3>1. text[l] \in Seq(Token) /\ l \in Nat
      BY <1>3, LineOf
    <3>2. t \in 1..Len(text[l]) /\ t \in Nat
      BY <3>1
    <3> QED BY <1>3, <3>1, <3>2, LineOf
  <2>3. PICK c : c = text[l][t].len
    OBVIOUS
  <2>4. Due(text, lineno, 0, remaining, l, t) = IF l < lineno THEN c ELSE 0
    BY <1>3, <2>2, <2>3 DEF Due
  <2>5. Due(text, lineno + 1, 0, remaining, l, t) = IF l < lineno + 1 THEN c ELSE 0
    BY <1>3, <2>2, <2>3 DEF Due
  <2>6. CASE l = lineno
    <3>1. Covered(segments', <<>>, l, t) = Covered(segments, <<>>, l, t) + c
      BY <1>6, <2>2, <2>3, <2>6
    <3>2. Covered(segments, <<>>, l, t) = 0 /\ Due(text, lineno + 1, 0, remaining, l, t) = c
      BY <1>3, <2>1, <2>4, <2>5, <2>6
    <3> QED BY <2>2, <2>3, <3>1, <3>2
  <2>7. CASE l # lineno
    <3>1. Covered(segments', <<>>, l, t) = Covered(segments, <<>>, l, t) + 0
      BY <1>6, <2>7
    <3>2. l < lineno + 1 <=> l < lineno
      BY <1>3, <2>2, <2>7
    <3>3. PICK d : d = Due(text, lineno, 0, remaining, l, t)
      OBVIOUS
    <3>4. d \in Nat /\ Due(text, lineno + 1, 0, remaining, l, t) = d
      BY <2>2, <2>3, <2>4, <2>5, <3>2, <3>3
    <3> QED BY <2>1, <3>1, <3>3, <3>4
  <2> QED BY <2>6, <2>7
<1> QED BY <1>1, <1>4, <1>5, <1>6, <1>7 DEF Segments, Holds

LEMMA BeginLineKeeps ==
    ASSUME Cursor, Segments, BeginLine
    PROVE  Cursor' /\ Segments'
<1>1. ~Split /\ tokenno = 0 /\ Reach(1) /\ body' = <<>> /\ stack' = <<>> /\ start_stack' = <<>>
        /\ UNCHANGED <<text, lineno, segments, parts, packed>>
  BY DEF BeginLine
<1>2. text \in Texts /\ lineno \in DOMAIN text /\ lineno \in Nat /\ Line \in Seq(Token) /\ Len(Line) \in Nat
  BY <1>1, InWorkOf
<1>3. body = <<>> /\ remaining \in Nat
  BY <1>1 DEF Cursor
<1>4. <<>> \in Seq(TagNames) /\ <<>> \in Seq(PieceSet)
  OBVIOUS
<1>5. Cursor' /\ remaining' \in Nat
  <2>1. PICK one : one = 1
    OBVIOUS
  <2>2. one \in 1..(Len(Line) + 1) /\ one - 1 = 0
    BY <1>2, <2>1
  <2>3. stack' = TagsAlong(<<>>, Line)[one - 1]
    BY <1>1, <1>2, <1>4, <2>2, TagsAlongIs
  <2>4. Reach(one)
    BY <1>1, <2>1
  <2> QED BY <1>1, <2>2, <2>3, <2>4, ReachKeeps
<1>6. tokenno' = 1 /\ remaining' = Rest(text, lineno, 1)
  BY <1>1 DEF Reach, Line, Rest
<1>7. InWork(text, segments, <<>>, <<>>, <<>>)
  <2>1. PiecesOf(text, <<>>, <<>>, <<>>)
    BY <1>4, PiecesNone
  <2>2. \A i \in DOMAIN segments : Ahead(segments[i].pieces, <<>>)
    BY DEF Ahead
  <2> QED BY <1>4, <2>1, <2>2 DEF InWork
<1>8. Done(text, segments) /\ Reached(segments, <<>>, lineno, 0)
  BY <1>1, <1>3 DEF Segments, Holds
<1>9. Reached(segments, <<>>, lineno, 1)
  <2>1. segments \in Seq(SegmentSet) /\ 0 \in Nat /\ 1 \in Nat /\ 0 <= 1
    BY <1>8 DEF Done
  <2> QED BY <1>2, <1>4, <1>8, <2>1, ReachedLater
<1>10. ASSUME NEW l \in DOMAIN text, NEW t \in DOMAIN text[l]
       PROVE  Covered(segments, <<>>, l, t) = Due(text, lineno, 1, remaining', l, t)
  <2>1. Covered(segments, <<>>, l, t) = Due(text, lineno, 0, remaining, l, t)
    BY <1>1, <1>3 DEF Segments, Holds
  <2>2. Due(text, lineno, 0, remaining, l, t) = Through(text, lineno, 1, l, t)
    <3>1. 0 \in Nat
      OBVIOUS
    <3> QED BY <1>2, <1>3, <3>1, DueOf
  <2>3. Due(text, lineno, 1, remaining', l, t) = Through(text, lineno, 1, l, t)
    <3>1. PICK one : one = 1
      OBVIOUS
    <3>2. one \in Nat /\ remaining' = Rest(text, lineno, one)
      BY <1>6, <3>1
    <3>3. PICK rem : rem = remaining'
      OBVIOUS
    <3>4. Due(text, lineno, one, rem, l, t) = Through(text, lineno, one, l, t)
      <4> HIDE DEF Reach
      <4>1. text \in Texts /\ lineno \in Nat /\ one \in Nat /\ rem \in Nat
              /\ rem = Rest(text, lineno, one)
        BY <1>2, <1>5, <3>2, <3>3
      <4> QED BY <4>1, DueOf
    <3> QED BY <3>1, <3>3, <3>4
  <2> QED BY <2>1, <2>2, <2>3
<1> QED BY <1>1, <1>5, <1>6, <1>7, <1>8, <1>9, <1>10 DEF Segments, Holds

LEMMA EndLineKeeps ==
    ASSUME Cursor, Segments, EndLine
    PROVE  Cursor' /\ Segments'
<1>1. ~Split /\ tokenno > Len(Line) /\ Flushed(<<>>) /\ lineno' = lineno + 1 /\ tokenno' = 0
        /\ text' = text /\ remaining' = remaining /\ stack' = stack /\ parts' = parts /\ packed' = packed
  BY DEF EndLine
<1>2. text \in Texts /\ lineno \in DOMAIN text /\ lineno \in Nat /\ text \in Seq(Seq(Token))
        /\ Line \in Seq(Token) /\ Len(Line) \in Nat /\ tokenno \in 0..(Len(Line) + 1)
  BY <1>1, InWorkOf
<1>3. tokenno = Len(Line) + 1 /\ tokenno \in Nat
  BY <1>1, <1>2
<1>4. remaining \in Nat /\ parts = <<>> /\ packed = 0
  BY <1>1 DEF Cursor
<1>5. Cursor'
  <2>1. lineno' \in 1..(Len(text') + 1)
    <3>1. DOMAIN text = 1..Len(text) /\ Len(text) \in Nat
      BY <1>2
    <3> QED BY <1>1, <1>2, <3>1
  <2>2. tokenno' <= Len(Line)' + 1 \/ Split'
    <3> SUFFICES ASSUME ~Split' PROVE tokenno' <= Len(Line)' + 1
      OBVIOUS
    <3>1. lineno + 1 \in DOMAIN text
      <4>1. ~(lineno + 1 > Len(text)) /\ Len(text) \in Nat /\ DOMAIN text = 1..Len(text)
        BY <1>1, <1>2 DEF Split
      <4> QED BY <1>2, <4>1
    <3>2. text[lineno + 1] \in Seq(Token)
      BY <1>2, <3>1
    <3>3. Len(text[lineno + 1]) \in Nat
      BY <3>2
    <3>4. Line' = text[lineno + 1]
      BY <1>1 DEF Line
    <3> QED BY <1>1, <3>3, <3>4
  <2>3. ~InLine'
    BY <1>1 DEF InLine
  <2>4. tokenno' = 0 /\ body' = <<>> /\ parts' = <<>> /\ packed' = 0 /\ remaining' \in Nat /\ text' \in Texts
    BY <1>1, <1>2, <1>4 DEF Flushed
  <2> QED BY <2>1, <2>2, <2>3, <2>4 DEF Cursor
<1>6. /\ Done(text, segments') /\ InWork(text, segments', <<>>, stack, stack)
      /\ start_stack' = stack /\ Reached(segments', <<>>, lineno, tokenno)
      /\ \A l, t : Covered(segments', <<>>, l, t) = Covered(segments, body, l, t)
  <2>1. Done(text, segments) /\ InWork(text, segments, body, start_stack, stack)
          /\ Reached(segments, body, lineno, tokenno)
    BY DEF Segments, Holds
  <2>2. CASE body = <<>>
    <3>1. segments' = segments /\ start_stack' = start_stack
      BY <1>1, <2>2 DEF Flushed
    <3>2. start_stack = stack
      BY <2>1, <2>2, NoneInWork
    <3> QED BY <2>1, <2>2, <3>1, <3>2
  <2>3. CASE body # <<>>
    <3>1. segments' = Append(segments, SegmentOf(body, start_stack, stack)) /\ start_stack' = stack
      BY <1>1, <2>3 DEF Flushed
    <3>2. PICK more : more = segments'
      OBVIOUS
    <3>3. text \in Seq(Seq(Token)) /\ more = Append(segments, SegmentOf(body, start_stack, stack))
      BY <1>2, <3>1, <3>2
    <3>4. FlushKept(text, segments, body, stack, more)
      BY <2>1, <2>3, <3>3, FlushKeeps
    <3> QED BY <2>1, <3>1, <3>2, <3>4 DEF FlushKept
  <2> QED BY <2>2, <2>3
<1>7. Reached(segments', <<>>, lineno + 1, 0)
  <2>1. segments' \in Seq(SegmentSet) /\ <<>> \in Seq(PieceSet) /\ 0 \in Nat
          /\ lineno + 1 \in Nat /\ lineno < lineno + 1
    BY <1>2, <1>6 DEF Done
  <2>2. PICK next : next = lineno + 1
    OBVIOUS
  <2>3. PICK segs : segs = segments'
    OBVIOUS
  <2>4. Reached(segs, <<>>, next, 0)
    <3>1. segs \in Seq(SegmentSet) /\ next \in Nat /\ 0 \in Nat /\ lineno < next
            /\ lineno \in Nat /\ tokenno \in Nat /\ Reached(segs, <<>>, lineno, tokenno)
      BY <1>2, <1>3, <1>6, <2>1, <2>2, <2>3
    <3>2. <<>> \in Seq(PieceSet)
      OBVIOUS
    <3> QED BY <3>1, <3>2, ReachedLater
  <2> QED BY <2>2, <2>3, <2>4
<1>8. ASSUME NEW l \in DOMAIN text, NEW t \in DOMAIN text[l]
      PROVE  Covered(segments', <<>>, l, t) = Due(text, lineno + 1, 0, remaining, l, t)
  <2>1. Covered(segments', <<>>, l, t) = Due(text, lineno, tokenno, remaining, l, t)
    BY <1>6 DEF Segments, Holds
  <2>2. Passed(text, lineno, tokenno)
    BY <1>3 DEF Line, Passed
  <2>3. Due(text, lineno, tokenno, remaining, l, t) = Through(text, lineno + 1, 1, l, t)
    <3>1. text \in Texts /\ lineno \in Nat /\ tokenno \in Nat /\ remaining \in Nat
      BY <1>2, <1>3, <1>4
    <3> QED BY <2>2, <3>1, DueOf
  <2>4. PICK next : next = lineno + 1
    OBVIOUS
  <2>5. next \in Nat /\ 0 \in Nat
    BY <1>2, <2>4
  <2>6. Due(text, next, 0, remaining, l, t) = Through(text, next, 1, l, t)
    BY <1>2, <1>4, <2>5, DueOf
  <2> QED BY <2>1, <2>3, <2>4, <2>6
<1>9. body' = <<>>
  BY <1>1 DEF Flushed
<1> QED BY <1>1, <1>5, <1>6, <1>7, <1>8, <1>9 DEF Segments, Holds
-----------------------------------------------------------------------------
LEMMA HoldsFlush ==
    ASSUME NEW reply \in Texts, NEW ln, NEW tn, NEW rem, NEW segs, NEW P, NEW from, NEW tags,
           Holds(reply, ln, tn, rem, segs, P, from, tags), P # <<>>,
           NEW more, more = Append(segs, SegmentOf(P, from, tags))
    PROVE  Holds(reply, ln, tn, rem, more, <<>>, tags, tags)
<1>1. reply \in Seq(Seq(Token))
  BY PartsAssumption
<1>2. Done(reply, segs) /\ InWork(reply, segs, P, from, tags) /\ Reached(segs, P, ln, tn)
  BY DEF Holds
<1>3. FlushKept(reply, segs, P, tags, more)
  BY <1>1, <1>2, FlushKeeps
<1> QED BY <1>2, <1>3 DEF FlushKept, Holds

LEMMA HoldsTake ==
    ASSUME NEW reply \in Texts, NEW ln \in DOMAIN reply, NEW tn \in DOMAIN reply[ln], NEW rem \in Nat,
           NEW segs, NEW P, NEW from, NEW tags, Holds(reply, ln, tn, rem, segs, P, from, tags),
           NEW token, token = reply[ln][tn], NEW n \in 1..rem, token.kind # "text" => n = token.len,
           token.kind = "close" => tags # <<>> /\ Last(tags) = token.name,
           Prefix(from) + (Length(P) + n) + Suffix(After(tags, token)) <= LIMIT,
           NEW p, p = [line |-> ln, token |-> tn, len |-> n]
    PROVE  Holds(reply, ln, tn, rem - n, segs, Append(P, p), from, After(tags, token))
<1>1. reply \in Seq(Seq(Token)) /\ reply[ln] \in Seq(Token) /\ ln \in Nat
  BY LineOf
<1>2. tn \in Nat /\ n \in Nat
  BY <1>1
<1>3. p \in PieceSet /\ p.line = ln /\ p.token = tn /\ p.len = n
  BY <1>1, <1>2 DEF PieceSet
<1>4. Uncut(reply, p)
  BY <1>3 DEF Uncut
<1>5. Done(reply, segs) /\ InWork(reply, segs, P, from, tags) /\ Reached(segs, P, ln, tn)
  BY DEF Holds
<1>6. Prefix(from) + (Length(P) + p.len) + Suffix(After(tags, token)) <= LIMIT
  BY <1>3
<1>7. TakeKept(reply, segs, P, Append(P, p), from, After(tags, token), ln, tn, p.len)
  BY <1>1, <1>2, <1>3, <1>4, <1>5, <1>6, TakeKeeps
<1>8. PICK Q : Q = Append(P, p)
  OBVIOUS
<1>9. InWork(reply, segs, Q, from, After(tags, token)) /\ Reached(segs, Q, ln, tn)
        /\ \A l, t : Covered(segs, Q, l, t) = Covered(segs, P, l, t) + (IF ln = l /\ tn = t THEN n ELSE 0)
  BY <1>3, <1>7, <1>8 DEF TakeKept
<1>10. ASSUME NEW l \in DOMAIN reply, NEW t \in DOMAIN reply[l]
       PROVE  Covered(segs, Q, l, t) = Due(reply, ln, tn, rem - n, l, t)
  <2>1. Covered(segs, P, l, t) = Due(reply, ln, tn, rem, l, t)
    BY DEF Holds
  <2>2. PICK left : left = rem - n
    OBVIOUS
  <2>3. left \in Nat
    BY <2>2
  <2>4. CASE ln = l /\ tn = t
    <3>1. Due(reply, ln, tn, rem, l, t) = reply[l][t].len - rem
            /\ Due(reply, ln, tn, left, l, t) = reply[l][t].len - left
      <4>1. ASSUME NEW x \in Nat PROVE Due(reply, ln, tn, x, l, t) = reply[l][t].len - x
        <5>1. ln \in Nat /\ tn \in Nat /\ l \in DOMAIN reply /\ t \in DOMAIN reply[l]
          BY <1>1, <1>2
        <5> QED BY ONLY reply \in Texts, x \in Nat, <2>4, <5>1, DueOf
      <4> QED BY <2>3, <4>1
    <3>2. reply[l][t].len \in Nat
      BY <1>1, <2>4, LineOf
    <3>3. PICK c : c = reply[l][t].len
      OBVIOUS
    <3>4. Covered(segs, Q, l, t) = Covered(segs, P, l, t) + n
      BY <1>9, <2>4
    <3>5. (c - rem) + n = c - left
      BY <1>2, <2>2, <3>2, <3>3
    <3> QED BY <2>1, <2>2, <3>1, <3>3, <3>4, <3>5
  <2>5. CASE ~(ln = l /\ tn = t)
    <3>1. Due(reply, ln, tn, rem, l, t) = Through(reply, ln, tn, l, t)
            /\ Due(reply, ln, tn, left, l, t) = Through(reply, ln, tn, l, t)
            /\ Due(reply, ln, tn, rem, l, t) \in Int
      <4>1. ASSUME NEW x \in Nat
            PROVE  Due(reply, ln, tn, x, l, t) = Through(reply, ln, tn, l, t)
                     /\ Due(reply, ln, tn, x, l, t) \in Int
        <5>1. ln \in Nat /\ tn \in Nat /\ l \in DOMAIN reply /\ t \in DOMAIN reply[l]
          BY <1>1, <1>2
        <5> QED BY ONLY reply \in Texts, x \in Nat, <2>5, <5>1, DueOf
      <4> QED BY <2>3, <4>1
    <3>2. Covered(segs, Q, l, t) = Covered(segs, P, l, t) + 0
      BY <1>9, <2>5
    <3>3. PICK d : d = Due(reply, ln, tn, rem, l, t)
      OBVIOUS
    <3>4. d + 0 = d
      BY <3>1, <3>3
    <3> QED BY <2>1, <2>2, <3>1, <3>2, <3>3, <3>4
  <2> QED BY <2>4, <2>5
<1> QED BY <1>5, <1>8, <1>9, <1>10 DEF Holds

\* The whole token is taken, and the next is reached.
LEMMA HoldsNext ==
    ASSUME NEW reply \in Texts, NEW ln \in DOMAIN reply, NEW tn \in Nat,
           NEW segs, NEW P, NEW from, NEW tags, Holds(reply, ln, tn, 0, segs, P, from, tags),
           NEW next, next = tn + 1, NEW rem \in Nat, rem = Rest(reply, ln, next)
    PROVE  Holds(reply, ln, next, rem, segs, P, from, tags)
<1>1. ln \in Nat /\ next \in Nat /\ tn <= next
  BY LineOf
<1>2. Done(reply, segs) /\ InWork(reply, segs, P, from, tags) /\ Reached(segs, P, ln, tn)
  BY DEF Holds
<1>3. Reached(segs, P, ln, next)
  <2>1. segs \in Seq(SegmentSet) /\ P \in Seq(PieceSet)
    BY <1>2 DEF Done, InWork
  <2> QED BY <1>1, <1>2, <2>1, ReachedLater
<1>4. ASSUME NEW l \in DOMAIN reply, NEW t \in DOMAIN reply[l]
      PROVE  Covered(segs, P, l, t) = Due(reply, ln, next, rem, l, t)
  <2>1. Covered(segs, P, l, t) = Due(reply, ln, tn, 0, l, t)
    BY DEF Holds
  <2>2. Due(reply, ln, next, rem, l, t) = Through(reply, ln, next, l, t)
    BY <1>1, DueOf
  <2>3. PICK zero : zero = 0
    OBVIOUS
  <2>4. zero \in Nat
    BY <2>3
  <2>5. Due(reply, ln, tn, zero, l, t) = Through(reply, ln, tn + 1, l, t)
    <3>1. CASE ln = l /\ tn = t
      <4>1. Due(reply, ln, tn, zero, l, t) = reply[l][t].len - zero
              /\ Through(reply, ln, tn + 1, l, t) = reply[l][t].len
        BY <1>1, <2>4, <3>1, DueOf
      <4>2. reply[l][t].len \in Nat
        <5>1. reply[l] \in Seq(Token)
          BY LineOf
        <5>2. t \in 1..Len(reply[l])
          BY <5>1
        <5> QED BY <5>2, LineOf
      <4> QED BY <2>3, <4>1, <4>2
    <3>2. CASE ~(ln = l /\ tn = t)
      BY <1>1, <2>4, <3>2, DueOf
    <3> QED BY <3>1, <3>2
  <2> QED BY <2>1, <2>2, <2>3, <2>5
<1> QED BY <1>2, <1>3, <1>4 DEF Holds

LEMMA TakeAtomKeeps ==
    ASSUME Cursor, Segments, TakeAtom
    PROVE  Cursor' /\ Segments'
<1>1. PICK token : token = Current
  OBVIOUS
<1>2. PICK after : after = After(stack, token)
  OBVIOUS
<1>3. PICK p : p = [line |-> lineno, token |-> tokenno, len |-> token.len]
  OBVIOUS
<1>4. InLine /\ token.kind # "text" /\ stack' = after /\ Reach(tokenno + 1)
        /\ UNCHANGED <<text, lineno, parts, packed>>
  BY <1>1, <1>2 DEF TakeAtom
<1>5. IF body # <<>> /\ Projected(token.len, after) > LIMIT THEN Flushed(<<p>>)
      ELSE body' = Append(body, p) /\ UNCHANGED <<start_stack, segments>>
  BY <1>1, <1>2, <1>3 DEF TakeAtom, Piece
<1>6. /\ ~Split /\ tokenno \in 1..Len(Line) /\ tokenno \in Nat
      /\ token \in Token /\ token = text[lineno][tokenno] /\ token.len \in Nat
      /\ remaining \in 1..token.len /\ remaining \in Nat
      /\ stack \in Seq(TagNames) /\ TagsAlong(<<>>, Line)[tokenno] = after
      /\ token.kind = "close" => stack # <<>> /\ Last(stack) = token.name
      /\ Prefix(stack) + token.len + Suffix(after) <= LIMIT
  BY <1>1, <1>2, <1>4, CurrentOf
<1>7. text \in Texts /\ lineno \in DOMAIN text /\ Line = text[lineno] /\ tokenno \in DOMAIN text[lineno]
        /\ Len(Line) \in Nat
  <2>1. text \in Texts /\ lineno \in DOMAIN text /\ Line \in Seq(Token) /\ Len(Line) \in Nat
    BY <1>6, InWorkOf
  <2> QED BY <1>6, <2>1 DEF Line
<1>8. remaining = token.len
  BY <1>1, <1>4 DEF Cursor
<1>9. Cursor' /\ remaining' \in Nat
  <2>1. PICK n : n = tokenno + 1
    OBVIOUS
  <2>2. n \in 1..(Len(Line) + 1) /\ n - 1 = tokenno
    BY <1>6, <1>7, <2>1
  <2>3. stack' = TagsAlong(<<>>, Line)[n - 1] /\ Reach(n)
    BY <1>4, <1>6, <2>1, <2>2
  <2> QED BY <1>4, <1>6, <2>2, <2>3, ReachKeeps
<1>10. tokenno' = tokenno + 1 /\ remaining' = Rest(text, lineno, tokenno + 1)
  BY <1>4 DEF Reach, Line, Rest
<1>11. ASSUME NEW segs, NEW P, NEW from, Holds(text, lineno, tokenno, remaining, segs, P, from, stack),
              Prefix(from) + (Length(P) + token.len) + Suffix(after) <= LIMIT
       PROVE  Holds(text, lineno, tokenno + 1, remaining', segs, Append(P, p), from, after)
  <2>1. remaining - token.len = 0 /\ token.len \in 1..remaining
    BY <1>6, <1>8
  <2>2. PICK n : n = token.len
    OBVIOUS
  <2>3. Holds(text, lineno, tokenno, remaining - n, segs, Append(P, p), from, After(stack, token))
    <3>1. n \in 1..remaining /\ p = [line |-> lineno, token |-> tokenno, len |-> n]
            /\ Prefix(from) + (Length(P) + n) + Suffix(After(stack, token)) <= LIMIT
      BY <1>2, <1>3, <1>11, <2>1, <2>2
    <3>2. token.kind # "text" => n = token.len
      BY <2>2
    <3> QED BY <1>6, <1>7, <1>11, <3>1, <3>2, HoldsTake
  <2>4. Holds(text, lineno, tokenno, 0, segs, Append(P, p), from, after)
    BY <1>2, <2>1, <2>2, <2>3
  <2>5. PICK next : next = tokenno + 1
    OBVIOUS
  <2>6. PICK rem : rem = remaining'
    OBVIOUS
  <2>7. PICK Q : Q = Append(P, p)
    OBVIOUS
  <2>8. rem \in Nat /\ rem = Rest(text, lineno, next)
    BY <1>9, <1>10, <2>5, <2>6
  <2>9. Holds(text, lineno, next, rem, segs, Q, from, after)
    BY <1>6, <1>7, <2>4, <2>5, <2>7, <2>8, HoldsNext
  <2> QED BY <2>5, <2>6, <2>7, <2>9
<1>12. Holds(text, lineno, tokenno, remaining, segments, body, start_stack, stack)
  BY DEF Segments
<1>13. Holds(text, lineno, tokenno + 1, remaining', segments', body', start_stack', after)
  <2>1. CASE body # <<>> /\ Projected(token.len, after) > LIMIT
    <3>1. segments' = Append(segments, SegmentOf(body, start_stack, stack)) /\ body' = <<p>>
            /\ start_stack' = stack
      BY <1>5, <2>1 DEF Flushed
    <3>2. PICK more : more = segments'
      OBVIOUS
    <3>3. Holds(text, lineno, tokenno, remaining, more, <<>>, stack, stack)
      BY <1>7, <1>12, <2>1, <3>1, <3>2, HoldsFlush
    <3>4. Prefix(stack) + (Length(<<>>) + token.len) + Suffix(after) <= LIMIT
      <4>1. Length(<<>>) = 0
        <5>1. <<>> \in Seq(PieceSet) /\ \A x \in PieceSet : x.len \in Nat
          BY DEF PieceSet
        <5> QED BY <5>1, LengthOf
      <4>2. 0 + token.len = token.len
        BY <1>6
      <4> QED BY <1>6, <4>1, <4>2
    <3>5. Holds(text, lineno, tokenno + 1, remaining', more, Append(<<>>, p), stack, after)
      BY <1>11, <3>3, <3>4
    <3>6. Append(<<>>, p) = <<p>>
      OBVIOUS
    <3> QED BY <3>1, <3>2, <3>5, <3>6
  <2>2. CASE ~(body # <<>> /\ Projected(token.len, after) > LIMIT)
    <3>1. body' = Append(body, p) /\ start_stack' = start_stack /\ segments' = segments
      BY <1>5, <2>2
    <3>2. Prefix(start_stack) + (Length(body) + token.len) + Suffix(after) <= LIMIT
      <4>1. body \in Seq(PieceSet) /\ start_stack \in Seq(TagNames)
        BY <1>12 DEF Holds, InWork
      <4>2. after \in Seq(TagNames)
        BY <1>2, <1>6, AfterType
      <4>3. Length(body) \in Nat /\ (body = <<>> => Length(body) = 0)
        <5>1. \A x \in PieceSet : x.len \in Nat
          BY DEF PieceSet
        <5> QED BY <4>1, <5>1, LengthOf
      <4>4. Prefix(start_stack) \in Nat /\ Suffix(after) \in Nat
        BY <4>1, <4>2, TagLengths
      <4>5. CASE body = <<>>
        <5>1. start_stack = stack
          BY <1>12, <4>5, NoneInWork DEF Holds
        <5> QED BY <1>6, <4>3, <4>4, <4>5, <5>1
      <4>6. CASE body # <<>>
        <5>1. ~(Projected(token.len, after) > LIMIT)
          BY <2>2, <4>6
        <5>2. ~(Prefix(start_stack) + Length(body) + token.len + Suffix(after) > LIMIT)
          BY <5>1 DEF Projected
        <5>3. LIMIT \in Nat
          BY PartsAssumption
        <5>4. PICK w : w = Length(body)
          OBVIOUS
        <5>5. PICK g : g = Prefix(start_stack)
          OBVIOUS
        <5>6. PICK h : h = Suffix(after)
          OBVIOUS
        <5>7. PICK c : c = token.len
          OBVIOUS
        <5>8. w \in Nat /\ g \in Nat /\ h \in Nat /\ c \in Nat /\ ~(g + w + c + h > LIMIT)
          BY <1>6, <4>3, <4>4, <5>2, <5>4, <5>5, <5>6, <5>7
        <5>9. g + (w + c) + h <= LIMIT
          BY ONLY <5>3, <5>8
        <5> QED BY <5>4, <5>5, <5>6, <5>7, <5>9
      <4> QED BY <4>5, <4>6
    <3> QED BY <1>11, <1>12, <3>1, <3>2
  <2> QED BY <2>1, <2>2
<1> QED BY <1>4, <1>9, <1>10, <1>13 DEF Segments

LEMMA MinOfTwo ==
    ASSUME NEW a \in Int, NEW b \in Int
    PROVE  Min({a, b}) = (IF a <= b THEN a ELSE b) /\ Max({a, b}) = (IF a <= b THEN b ELSE a)
<1>1. Min({a, b}) = CHOOSE x \in {a, b} : \A y \in {a, b} : x <= y
  BY DEF Min
<1>2. Max({a, b}) = CHOOSE x \in {a, b} : \A y \in {a, b} : x >= y
  BY DEF Max
<1>3. \E x \in {a, b} : \A y \in {a, b} : x <= y
  BY a <= b \/ b <= a
<1>4. \E x \in {a, b} : \A y \in {a, b} : x >= y
  BY a <= b \/ b <= a
<1>5. PICK m : m = Min({a, b})
  OBVIOUS
<1>6. PICK n : n = Max({a, b})
  OBVIOUS
<1>7. m \in {a, b} /\ m <= a /\ m <= b
  BY <1>1, <1>3, <1>5
<1>8. n \in {a, b} /\ n >= a /\ n >= b
  BY <1>2, <1>4, <1>6
<1> QED BY <1>5, <1>6, <1>7, <1>8

LEMMA TakeTextKeeps ==
    ASSUME Cursor, Segments, TakeText
    PROVE  Cursor' /\ Segments'
<1>1. PICK token : token = Current
  OBVIOUS
<1>2. InLine /\ token.kind = "text" /\ stack' = stack /\ UNCHANGED <<text, lineno, parts, packed>>
  BY <1>1 DEF TakeText
<1>3. /\ ~Split /\ tokenno \in 1..Len(Line) /\ tokenno \in Nat
      /\ token \in Token /\ token = text[lineno][tokenno] /\ token.len \in Nat
      /\ remaining \in 1..token.len /\ remaining \in Nat
      /\ stack \in Seq(TagNames) /\ TagsAlong(<<>>, Line)[tokenno] = After(stack, token)
      /\ Prefix(stack) + 1 + Suffix(After(stack, token)) <= LIMIT
  BY <1>1, <1>2, CurrentOf
<1>4. After(stack, token) = stack
  BY <1>2 DEF After
<1>5. text \in Texts /\ lineno \in DOMAIN text /\ Line = text[lineno] /\ tokenno \in DOMAIN text[lineno]
        /\ Len(Line) \in Nat
  <2>1. text \in Texts /\ lineno \in DOMAIN text /\ Line \in Seq(Token) /\ Len(Line) \in Nat
    BY <1>3, InWorkOf
  <2> QED BY <1>3, <2>1 DEF Line
<1>6. Holds(text, lineno, tokenno, remaining, segments, body, start_stack, stack)
  BY DEF Segments
<1>7. body \in Seq(PieceSet) /\ start_stack \in Seq(TagNames)
        /\ (body # <<>> => Prefix(start_stack) + Length(body) + Suffix(stack) <= LIMIT)
  BY <1>6 DEF Holds, InWork
<1>8. Length(body) \in Nat /\ (body = <<>> => Length(body) = 0)
  <2>1. \A x \in PieceSet : x.len \in Nat
    BY DEF PieceSet
  <2> QED BY <1>7, <2>1, LengthOf
<1>9. Prefix(start_stack) \in Nat /\ Suffix(stack) \in Nat /\ Prefix(stack) \in Nat /\ LIMIT \in Nat
  BY <1>3, <1>7, TagLengths, PartsAssumption
<1>10. Room \in Int
  BY <1>8, <1>9 DEF Room
\* The segment in work has no room: it ends, and the next round begins another.
<1>11. CASE Room <= 0 /\ body # <<>>
  <2>1. Flushed(<<>>) /\ UNCHANGED <<tokenno, remaining>>
    BY <1>11 DEF TakeText
  <2>2. segments' = Append(segments, SegmentOf(body, start_stack, stack)) /\ body' = <<>>
          /\ start_stack' = stack
    BY <1>11, <2>1 DEF Flushed
  <2>3. Holds(text, lineno, tokenno, remaining, segments', <<>>, stack, stack)
    <3>1. PICK more : more = segments'
      OBVIOUS
    <3>2. Holds(text, lineno, tokenno, remaining, more, <<>>, stack, stack)
      BY <1>5, <1>6, <1>11, <2>2, <3>1, HoldsFlush
    <3> QED BY <3>1, <3>2
  <2>4. Cursor'
    <3>1. /\ Line' = Line /\ Split' = Split /\ InLine' = InLine /\ Current' = Current /\ stack' = stack
          /\ text' = text /\ lineno' = lineno /\ tokenno' = tokenno /\ remaining' = remaining
          /\ parts' = parts /\ packed' = packed
      BY <1>2, <2>1 DEF Line, Split, InLine, Current
    <3>2. tokenno' = 0 => body' = <<>>
      BY <2>2
    <3>3. Len(text') = Len(text)
      BY <3>1
    <3> QED BY <1>2, <1>3, <3>1, <3>2, <3>3 DEF Cursor
  <2> QED BY <1>2, <2>1, <2>2, <2>3, <2>4 DEF Segments
\* It has room for some of the text.
<1>12. CASE ~(Room <= 0 /\ body # <<>>)
  <2>1. Room >= 1
    <3>1. CASE body # <<>>
      BY <1>10, <1>12, <3>1
    <3>2. CASE body = <<>>
      <4>1. start_stack = stack
        BY <1>6, <3>2, NoneInWork DEF Holds
      <4> QED BY <1>3, <1>4, <1>8, <1>9, <3>2, <4>1 DEF Room
    <3> QED BY <3>1, <3>2
  <2>2. PICK take : take = Min({remaining, Max({Room, 1})})
    OBVIOUS
  <2>3. take \in 1..remaining /\ take \in Nat /\ take <= Room
    <3>1. Max({Room, 1}) = Room
      <4>1. Max({Room, 1}) = IF Room <= 1 THEN 1 ELSE Room
        BY <1>10, MinOfTwo
      <4> QED BY <1>10, <2>1, <4>1
    <3>2. take = IF remaining <= Room THEN remaining ELSE Room
      <4>1. PICK r : r = remaining
        OBVIOUS
      <4>2. PICK m : m = Room
        OBVIOUS
      <4>3. r \in Int /\ m \in Int /\ take = Min({r, m})
        <5>1. r \in Int /\ m \in Int
          BY <1>3, <1>10, <4>1, <4>2
        <5>2. Max({Room, 1}) = m
          BY <3>1, <4>2
        <5> QED BY <2>2, <4>1, <5>1, <5>2, Zenon
      <4>4. take = IF r <= m THEN r ELSE m
        BY <4>3, MinOfTwo
      <4> QED BY <4>1, <4>2, <4>4
    <3> QED BY <1>3, <1>10, <2>1, <3>2
  <2>4. PICK p : p = [line |-> lineno, token |-> tokenno, len |-> take]
    OBVIOUS
  <2>5. PICK taken : taken = Append(body, p)
    OBVIOUS
  <2>6. IF take < remaining
        THEN /\ segments' = Append(segments, SegmentOf(taken, start_stack, stack))
             /\ body' = <<>> /\ start_stack' = stack
             /\ remaining' = remaining - take /\ UNCHANGED tokenno
        ELSE body' = taken /\ UNCHANGED <<start_stack, segments>> /\ Reach(tokenno + 1)
    BY <1>12, <2>2, <2>4, <2>5 DEF TakeText, Piece
  <2>7. Holds(text, lineno, tokenno, remaining - take, segments, taken, start_stack, stack)
    <3>1. Prefix(start_stack) + (Length(body) + take) + Suffix(stack) <= LIMIT
      BY <1>8, <1>9, <2>3 DEF Room
    <3>2. token.kind # "close"
      BY <1>2
    <3>3. Holds(text, lineno, tokenno, remaining - take, segments, Append(body, p), start_stack,
                After(stack, token))
      BY <1>2, <1>3, <1>4, <1>5, <1>6, <2>3, <2>4, <3>1, <3>2, HoldsTake
    <3> QED BY <1>4, <2>5, <3>3
  <2>8. CASE take < remaining
    <3>1. segments' = Append(segments, SegmentOf(taken, start_stack, stack)) /\ body' = <<>>
            /\ start_stack' = stack /\ remaining' = remaining - take /\ tokenno' = tokenno
      BY <2>6, <2>8
    <3>2. taken # <<>>
      <4>1. p \in PieceSet
        <5>1. lineno \in Nat
          BY <1>5, LineOf
        <5> QED BY <1>3, <2>3, <2>4, <5>1 DEF PieceSet
      <4>2. Len(taken) = Len(body) + 1 /\ Len(body) \in Nat
        BY <1>7, <2>5, <4>1
      <4>3. Len(<<>>) = 0
        OBVIOUS
      <4> QED BY <4>2, <4>3
    <3>3. Holds(text, lineno, tokenno, remaining', segments', <<>>, stack, stack)
      <4>1. PICK more : more = segments'
        OBVIOUS
      <4>2. PICK rem : rem = remaining - take
        OBVIOUS
      <4>3. Holds(text, lineno, tokenno, rem, segments, taken, start_stack, stack)
        BY <2>7, <4>2
      <4>4. Holds(text, lineno, tokenno, rem, more, <<>>, stack, stack)
        BY <1>5, <3>1, <3>2, <4>1, <4>3, HoldsFlush
      <4> QED BY <3>1, <4>1, <4>2, <4>4
    <3>4. Cursor'
      <4>1. /\ Line' = Line /\ Split' = Split /\ InLine' = InLine /\ Current' = Current /\ stack' = stack
            /\ text' = text /\ lineno' = lineno /\ tokenno' = tokenno
            /\ parts' = parts /\ packed' = packed /\ Len(text') = Len(text)
        BY <1>2, <3>1 DEF Line, Split, InLine, Current
      <4>2. remaining' \in Nat /\ remaining' \in 1..Current.len
        BY <1>1, <1>3, <2>3, <2>8, <3>1
      <4>3. Current.kind = "text"
        BY <1>1, <1>2
      <4> QED BY <1>2, <1>3, <3>1, <4>1, <4>2, <4>3 DEF Cursor
    <3> QED BY <1>2, <3>1, <3>3, <3>4 DEF Segments
  <2>9. CASE ~(take < remaining)
    <3>1. body' = taken /\ start_stack' = start_stack /\ segments' = segments /\ Reach(tokenno + 1)
      BY <2>6, <2>9
    <3>2. Cursor' /\ remaining' \in Nat
      <4>1. PICK n : n = tokenno + 1
        OBVIOUS
      <4>2. n \in 1..(Len(Line) + 1) /\ n - 1 = tokenno
        BY <1>3, <1>5, <4>1
      <4>3. stack' = TagsAlong(<<>>, Line)[n - 1] /\ Reach(n)
        BY <1>2, <1>3, <1>4, <3>1, <4>1, <4>2
      <4> QED BY <1>2, <1>3, <4>2, <4>3, ReachKeeps
    <3>3. tokenno' = tokenno + 1 /\ remaining' = Rest(text, lineno, tokenno + 1)
      BY <3>1 DEF Reach, Line, Rest
    <3>4. remaining - take = 0
      BY <1>3, <2>3, <2>9
    <3>5. Holds(text, lineno, tokenno, 0, segments, taken, start_stack, stack)
      BY <2>7, <3>4
    <3>6. Holds(text, lineno, tokenno + 1, remaining', segments, taken, start_stack, stack)
      <4>1. PICK next : next = tokenno + 1
        OBVIOUS
      <4>2. PICK rem : rem = remaining'
        OBVIOUS
      <4>3. rem \in Nat /\ rem = Rest(text, lineno, next)
        BY <3>2, <3>3, <4>1, <4>2
      <4>4. Holds(text, lineno, next, rem, segments, taken, start_stack, stack)
        BY <1>3, <1>5, <3>5, <4>1, <4>3, HoldsNext
      <4> QED BY <4>1, <4>2, <4>4
    <3> QED BY <1>2, <3>1, <3>2, <3>3, <3>6 DEF Segments
  <2> QED BY <2>8, <2>9
<1> QED BY <1>11, <1>12
-----------------------------------------------------------------------------
\* How many segments are in the first parts.
LEMMA PackedOf ==
    ASSUME NEW some \in Seq(Seq(SegmentSet)), NEW n \in Nat, n <= Len(some)
    PROVE  /\ Packed(some, n) \in Nat /\ (n = 0 => Packed(some, n) = 0)
           /\ n < Len(some) => Packed(some, n + 1) = Packed(some, n) + Len(some[n + 1])
<1> DEFINE R(i) == Len(some[i])
<1>1. Len(some) \in Nat /\ \A i \in 1..Len(some) : R(i) \in Nat
  <2>1. \A i \in 1..Len(some) : some[i] \in Seq(SegmentSet)
    OBVIOUS
  <2> QED BY <2>1
<1>2. \A m : Packed(some, m) = SumFunction([i \in 1..m |-> R(i)])
  BY DEF Packed
<1> HIDE DEF R
<1>3. PICK f : f = [i \in 1..n |-> R(i)]
  OBVIOUS
<1>4. DOMAIN f = 1..n /\ (\A i \in 1..n : f[i] = R(i)) /\ \A i \in 1..n : R(i) \in Nat
  <2>1. \A i \in 1..n : i \in 1..Len(some)
    BY <1>1
  <2> QED BY <1>1, <1>3, <2>1
<1>5. Packed(some, n) \in Nat /\ (n = 0 => Packed(some, n) = 0)
  <2>1. \A i \in 1..n : f[i] \in Nat
    BY <1>4
  <2>2. SumFunction(f) \in Nat /\ (n = 0 => SumFunction(f) = 0)
    BY <1>4, <2>1, SumOfSeq
  <2> QED BY <1>2, <1>3, <2>2
<1>6. ASSUME n < Len(some) PROVE Packed(some, n + 1) = Packed(some, n) + R(n + 1)
  <2>1. PICK g : g = [i \in 1..(n + 1) |-> R(i)]
    OBVIOUS
  <2>2. \A i \in 1..n : i \in 1..(n + 1)
    OBVIOUS
  <2>3. n + 1 \in 1..(n + 1) /\ n + 1 \in 1..Len(some)
    BY <1>1, <1>6
  <2>4. DOMAIN g = 1..(n + 1) /\ \A i \in 1..(n + 1) : g[i] = R(i)
    BY <2>1
  <2>5. \A i \in 1..n : f[i] \in Nat /\ g[i] = f[i]
    BY <1>4, <2>2, <2>4
  <2>6. g[n + 1] = R(n + 1) /\ g[n + 1] \in Nat
    <3>1. PICK m : m = n + 1
      OBVIOUS
    <3>2. g[m] = R(m) /\ R(m) \in Nat
      BY <1>1, <2>3, <2>4, <3>1
    <3> QED BY <3>1, <3>2
  <2>7. SumFunction(g) = SumFunction(f) + g[n + 1]
    BY <1>4, <2>4, <2>5, <2>6, SumExtend
  <2> QED BY <1>2, <1>3, <2>1, <2>6, <2>7
<1> QED BY <1>5, <1>6 DEF R

LEMMA PackedSame ==
    ASSUME NEW some, NEW others, NEW n, \A i \in 1..n : others[i] = some[i]
    PROVE  Packed(others, n) = Packed(some, n)
<1>1. [i \in 1..n |-> Len(others[i])] = [i \in 1..n |-> Len(some[i])]
  OBVIOUS
<1> QED BY <1>1 DEF Packed

\* Nothing is packed until the lines are split.
LEMMA PacksStay ==
    ASSUME Cursor, Segments', ~Split, UNCHANGED <<parts, packed>>
    PROVE  Packs'
<1>1. parts' = <<>> /\ packed' = 0
  BY DEF Cursor
<1>2. segments' \in Seq(SegmentSet)
  BY DEF Segments, Holds, Done
<1>3. <<>> \in Seq(Seq(SegmentSet)) /\ Len(<<>>) = 0 /\ DOMAIN <<>> = {} /\ 0 \in Nat
  OBVIOUS
<1>4. Packed(<<>>, 0) = 0
  <2>1. 0 <= Len(<<>>)
    BY <1>3
  <2> QED BY <1>3, <2>1, PackedOf
<1>5. packed' \in 0..Len(segments')
  <2>1. Len(segments') \in Nat
    BY <1>2
  <2> QED BY <1>1, <2>1
<1>6. Packed(parts', Len(parts')) = packed'
  BY <1>1, <1>3, <1>4
<1>7. DOMAIN parts' = {}
  BY <1>1, <1>3
<1>8. parts' \in Seq(Seq(SegmentSet))
  BY <1>1, <1>3
<1> QED BY <1>5, <1>6, <1>7, <1>8 DEF Packs

\* The parts hold the first segments.
Holding(some, segs) ==
    \A i \in DOMAIN some : \A k \in DOMAIN some[i] : some[i][k] = segs[Packed(some, i - 1) + k]

PartsHold(some, segs, n) ==
    /\ some \in Seq(Seq(SegmentSet)) /\ Packed(some, Len(some)) = n /\ Holding(some, segs)
    /\ \A i \in DOMAIN some : PartLen(some[i]) <= LIMIT

\* A part of its own for the next segment.
LEMMA NextPart ==
    ASSUME NEW some, NEW segs \in Seq(SegmentSet), NEW n \in Nat, n < Len(segs), PartsHold(some, segs, n),
           NEW s, s = segs[n + 1], s.len <= LIMIT, NEW others, others = Append(some, <<s>>)
    PROVE  PartsHold(others, segs, n + 1)
<1>0. some \in Seq(Seq(SegmentSet)) /\ Packed(some, Len(some)) = n /\ Holding(some, segs)
        /\ \A i \in DOMAIN some : PartLen(some[i]) <= LIMIT
  BY DEF PartsHold
<1> DEFINE m == Len(some)
<1>1. s \in SegmentSet
  <2>1. n + 1 \in 1..Len(segs)
    OBVIOUS
  <2> QED BY <2>1, ElementOfSeq
<1>2. <<s>> \in Seq(SegmentSet) /\ Len(<<s>>) = 1 /\ DOMAIN <<s>> = {1} /\ <<s>>[1] = s
  BY <1>1
<1>3. PICK one : one = <<s>>
  OBVIOUS
<1>4. m \in Nat /\ others \in Seq(Seq(SegmentSet)) /\ Len(others) = m + 1 /\ others[m + 1] = one
        /\ DOMAIN some = 1..m /\ DOMAIN others = 1..(m + 1) /\ \A i \in 1..m : others[i] = some[i]
  BY <1>0, <1>2, <1>3
<1> HIDE DEF m
<1>5. \A i \in DOMAIN others : i \in Nat /\ (i \in 1..m \/ i = m + 1)
  BY <1>4
<1>6. ASSUME NEW j \in Nat, j <= m PROVE Packed(others, j) = Packed(some, j)
  <2>1. \A i \in 1..j : others[i] = some[i]
    BY <1>4, <1>6
  <2> QED BY <2>1, PackedSame
<1>7. Packed(others, m) = n
  <2>1. m <= m
    BY <1>4
  <2> QED BY <1>0, <1>4, <1>6, <2>1 DEF m
<1>8. Packed(others, m + 1) = n + 1
  <2>1. m < Len(others) /\ m <= Len(others)
    BY <1>4
  <2>2. Packed(others, m + 1) = Packed(others, m) + Len(others[m + 1])
    BY <1>4, <2>1, PackedOf
  <2> QED BY <1>2, <1>3, <1>4, <1>7, <2>2
<1>9. Holding(others, segs)
  <2> SUFFICES ASSUME NEW i \in DOMAIN others, NEW k \in DOMAIN others[i]
               PROVE  others[i][k] = segs[Packed(others, i - 1) + k]
    BY DEF Holding
  <2>1. CASE i \in 1..m
    <3>1. i - 1 \in Nat /\ i - 1 <= m /\ i \in DOMAIN some /\ others[i] = some[i]
      BY <1>4, <2>1
    <3>2. some[i][k] = segs[Packed(some, i - 1) + k]
      BY <1>0, <3>1 DEF Holding
    <3> QED BY <1>6, <3>1, <3>2
  <2>2. CASE i = m + 1
    <3>1. i - 1 = m /\ others[i] = one
      BY <1>4, <2>2
    <3>2. k = 1 /\ others[i][k] = s
      BY <1>2, <1>3, <3>1
    <3> QED BY <1>7, <3>1, <3>2
  <2> QED BY <1>5, <2>1, <2>2
<1>10. PartLen(one) <= LIMIT
  <2>1. \A x \in SegmentSet : x.len \in Nat
    BY DEF SegmentSet
  <2>2. <<>> \in Seq(SegmentSet) /\ one = Append(<<>>, s)
    BY <1>3
  <2>3. Length(<<>>) = 0 /\ Length(one) = Length(<<>>) + s.len
    BY <1>1, <2>1, <2>2, LengthOf, LengthAppend
  <2>4. s.len \in Nat /\ Length(one) = s.len
    BY <1>1, <2>1, <2>3
  <2> QED BY <1>2, <1>3, <2>4 DEF PartLen
<1>11. \A i \in DOMAIN others : PartLen(others[i]) <= LIMIT
  BY <1>0, <1>4, <1>5, <1>10
<1> QED BY <1>4, <1>8, <1>9, <1>11 DEF PartsHold

\* The next segment in the last part.
LEMMA SamePart ==
    ASSUME NEW some, NEW segs \in Seq(SegmentSet), NEW n \in Nat, n < Len(segs), PartsHold(some, segs, n),
           NEW s, s = segs[n + 1], some # <<>>, PartLen(Last(some)) + s.len + 1 <= LIMIT,
           NEW others, others = [some EXCEPT ![Len(some)] = Append(@, s)]
    PROVE  PartsHold(others, segs, n + 1)
<1>0. some \in Seq(Seq(SegmentSet)) /\ Packed(some, Len(some)) = n /\ Holding(some, segs)
        /\ \A i \in DOMAIN some : PartLen(some[i]) <= LIMIT
  BY DEF PartsHold
<1> DEFINE m == Len(some)
<1>1. s \in SegmentSet
  <2>1. n + 1 \in 1..Len(segs)
    OBVIOUS
  <2> QED BY <2>1, ElementOfSeq
<1>2. m \in Nat /\ m >= 1 /\ m \in 1..m /\ DOMAIN some = 1..m
  <2>1. m \in Nat /\ m # 0 /\ DOMAIN some = 1..m
    BY <1>0
  <2> QED BY <2>1
<1>3. PICK last : last = some[m]
  OBVIOUS
<1>4. PICK longer : longer = Append(last, s)
  OBVIOUS
<1>5. last \in Seq(SegmentSet) /\ longer \in Seq(SegmentSet) /\ Len(last) \in Nat
        /\ Len(longer) = Len(last) + 1 /\ longer[Len(last) + 1] = s
        /\ DOMAIN last = 1..Len(last) /\ DOMAIN longer = 1..(Len(last) + 1)
        /\ \A k \in 1..Len(last) : longer[k] = last[k]
  BY <1>0, <1>1, <1>2, <1>3, <1>4
<1>6. others = [some EXCEPT ![m] = longer]
  BY <1>3, <1>4
<1>7. others \in Seq(Seq(SegmentSet)) /\ Len(others) = m /\ DOMAIN others = 1..m /\ others[m] = longer
        /\ \A i \in 1..m : i # m => others[i] = some[i]
  <2>1. others \in Seq(Seq(SegmentSet)) /\ Len(others) = Len(some)
          /\ \A i \in 1..Len(some) : others[i] = IF i = m THEN longer ELSE some[i]
    <3>1. PICK S : S = Seq(SegmentSet)
      OBVIOUS
    <3>2. PICK k : k = m
      OBVIOUS
    <3>3. some \in Seq(S) /\ longer \in S /\ k \in 1..Len(some) /\ others = [some EXCEPT ![k] = longer]
      BY <1>0, <1>2, <1>5, <1>6, <3>1, <3>2
    <3>4. others \in Seq(S) /\ Len(others) = Len(some)
            /\ \A i \in 1..Len(some) : others[i] = IF i = k THEN longer ELSE some[i]
      BY ONLY <3>3, ExceptSeq
    <3> QED BY <3>1, <3>2, <3>4
  <2> QED BY <1>2, <2>1
<1> HIDE DEF m
<1>8. PICK j : j = m - 1
  OBVIOUS
<1>9. j \in Nat /\ j <= m /\ j < m /\ j + 1 = m /\ \A i \in 1..j : i \in 1..m /\ i # m
  BY <1>2, <1>8
<1>10. ASSUME NEW h \in Nat, h <= j PROVE Packed(others, h) = Packed(some, h)
  <2>1. \A i \in 1..h : others[i] = some[i]
    <3> SUFFICES ASSUME NEW i \in 1..h PROVE others[i] = some[i]
      OBVIOUS
    <3>1. i \in 1..j
      BY <1>9, <1>10
    <3>2. i \in 1..m /\ i # m
      BY <1>9, <3>1
    <3> QED BY <1>7, <3>2
  <2> QED BY ONLY <2>1, PackedSame
<1>11. Packed(some, j) \in Nat /\ Packed(some, j) + Len(last) = n
  <2>1. j <= Len(some) /\ j < Len(some)
    BY <1>9 DEF m
  <2>2. Packed(some, j) \in Nat /\ Packed(some, j + 1) = Packed(some, j) + Len(some[j + 1])
    BY <1>0, <1>9, <2>1, PackedOf
  <2> QED BY <1>0, <1>3, <1>9, <2>2 DEF m
<1>12. Packed(others, m) = n + 1
  <2>1. j <= Len(others) /\ j < Len(others)
    BY <1>7, <1>9
  <2>2. Packed(others, j + 1) = Packed(others, j) + Len(others[j + 1])
    BY <1>7, <1>9, <2>1, PackedOf
  <2>3. j <= j
    BY <1>9
  <2>4. Packed(others, j) = Packed(some, j)
    BY <1>9, <1>10, <2>3
  <2> QED BY <1>5, <1>7, <1>9, <1>11, <2>2, <2>4
<1>13. Holding(others, segs)
  <2> SUFFICES ASSUME NEW i \in DOMAIN others, NEW k \in DOMAIN others[i]
               PROVE  others[i][k] = segs[Packed(others, i - 1) + k]
    BY DEF Holding
  <2>1. i \in 1..m /\ i - 1 \in Nat /\ i - 1 <= j
    BY <1>2, <1>7, <1>9
  <2>2. Packed(others, i - 1) = Packed(some, i - 1)
    BY <1>10, <2>1
  <2>3. CASE i # m
    <3>1. others[i] = some[i] /\ i \in DOMAIN some
      BY <1>2, <1>7, <2>1, <2>3
    <3>2. some[i][k] = segs[Packed(some, i - 1) + k]
      BY <1>0, <3>1 DEF Holding
    <3> QED BY <2>2, <3>1, <3>2
  <2>4. CASE i = m
    <3>1. others[i] = longer /\ i - 1 = j /\ i \in DOMAIN some
      BY <1>2, <1>7, <1>8, <2>4
    <3>2. k \in 1..(Len(last) + 1)
      BY <1>5, <3>1
    <3>3. CASE k \in 1..Len(last)
      <4>1. longer[k] = last[k] /\ k \in DOMAIN some[i]
        BY <1>3, <1>5, <2>4, <3>3
      <4>2. some[i][k] = segs[Packed(some, i - 1) + k]
        BY <1>0, <3>1, <4>1 DEF Holding
      <4> QED BY <1>3, <2>2, <2>4, <3>1, <4>1, <4>2
    <3>4. CASE k = Len(last) + 1
      <4>1. others[i][k] = s
        BY <1>5, <3>1, <3>4
      <4>2. Packed(some, j) + k = n + 1
        BY <1>5, <1>11, <3>4
      <4>3. Packed(others, i - 1) = Packed(some, j)
        BY <2>2, <3>1
      <4>4. Packed(others, i - 1) + k = n + 1
        BY <4>2, <4>3
      <4> QED BY <4>1, <4>4
    <3>5. k \in 1..Len(last) \/ k = Len(last) + 1
      BY <1>5, <3>2
    <3> QED BY <3>3, <3>4, <3>5
  <2> QED BY <2>3, <2>4
<1>14. PartLen(longer) <= LIMIT
  <2>1. \A x \in SegmentSet : x.len \in Nat
    BY DEF SegmentSet
  <2>2. Length(longer) = Length(last) + s.len /\ Length(last) \in Nat /\ s.len \in Nat
    BY <1>1, <1>4, <1>5, <2>1, LengthAppend
  <2>3. PartLen(last) + s.len + 1 <= LIMIT
    BY <1>3 DEF Last, m
  <2>4. Length(last) + Len(last) - 1 + s.len + 1 <= LIMIT
    BY <2>3 DEF PartLen
  <2>5. LIMIT \in Nat
    BY PartsAssumption
  <2>6. Length(longer) + Len(longer) - 1 <= LIMIT
    BY <1>5, <2>2, <2>4, <2>5
  <2> QED BY <2>6 DEF PartLen
<1>15. \A i \in DOMAIN others : PartLen(others[i]) <= LIMIT
  <2> SUFFICES ASSUME NEW i \in DOMAIN others PROVE PartLen(others[i]) <= LIMIT
    OBVIOUS
  <2>1. CASE i = m
    BY <1>7, <1>14, <2>1
  <2>2. CASE i # m
    BY <1>0, <1>2, <1>7, <2>2
  <2> QED BY <2>1, <2>2
<1>16. Len(others) = m
  BY <1>7
<1> QED BY <1>7, <1>12, <1>13, <1>15, <1>16 DEF PartsHold

LEMMA PackLineKeeps ==
    ASSUME Cursor, Segments, Packs, PackLine
    PROVE  Cursor' /\ Segments' /\ Packs'
<1>1. Split /\ packed < Len(segments) /\ packed' = packed + 1
        /\ UNCHANGED <<text, lineno, tokenno, remaining, segment, segments>>
  BY DEF PackLine
<1>2. body' = body /\ stack' = stack /\ start_stack' = start_stack
  BY <1>1 DEF segment
<1>3. Split' /\ ~InLine'
  BY <1>1 DEF Split, InLine
<1>4. Cursor'
  <2>1. text' = text /\ lineno' = lineno /\ tokenno' = tokenno /\ remaining' = remaining
    BY <1>1
  <2> QED BY <1>1, <1>2, <1>3, <2>1 DEF Cursor
<1>5. Segments'
  BY <1>1, <1>2 DEF Segments
<1>6. segments \in Seq(SegmentSet) /\ \A i \in DOMAIN segments : segments[i].len <= LIMIT
  BY DEF Segments, Holds, Done
<1>7. packed \in 0..Len(segments) /\ PartsHold(parts, segments, packed)
  BY DEF Packs, Holding, PartsHold
<1>8. packed \in Nat /\ packed + 1 \in 0..Len(segments) /\ packed + 1 \in DOMAIN segments
  <2>1. Len(segments) \in Nat /\ DOMAIN segments = 1..Len(segments)
    BY <1>6
  <2> QED BY <1>1, <1>7, <2>1
<1>9. PICK s : s = segments[packed + 1]
  OBVIOUS
<1>10. s.len <= LIMIT
  BY <1>6, <1>8, <1>9
<1>11. parts' = IF parts # <<>> /\ PartLen(Last(parts)) + s.len + 1 <= LIMIT
                THEN [parts EXCEPT ![Len(parts)] = Append(@, s)] ELSE Append(parts, <<s>>)
  BY <1>9 DEF PackLine
<1>12. PICK others : others = parts'
  OBVIOUS
<1>13. PartsHold(others, segments, packed + 1)
  <2>1. CASE parts # <<>> /\ PartLen(Last(parts)) + s.len + 1 <= LIMIT
    <3>1. others = [parts EXCEPT ![Len(parts)] = Append(@, s)]
      BY <1>11, <1>12, <2>1
    <3> QED BY <1>1, <1>6, <1>7, <1>8, <1>9, <2>1, <3>1, SamePart
  <2>2. CASE ~(parts # <<>> /\ PartLen(Last(parts)) + s.len + 1 <= LIMIT)
    <3>1. others = Append(parts, <<s>>)
      BY <1>11, <1>12, <2>2
    <3> QED BY <1>1, <1>6, <1>7, <1>8, <1>9, <1>10, <3>1, NextPart
  <2> QED BY <2>1, <2>2
<1>14. Packs'
  <2>1. segments' = segments /\ packed' = packed + 1
    BY <1>1
  <2> QED BY <1>8, <1>12, <1>13, <2>1 DEF Packs, Holding, PartsHold
<1> QED BY <1>4, <1>5, <1>14

LEMMA PartsStart ==
    ASSUME PartsInit
    PROVE  PartsInv
<1>1. text \in Texts /\ lineno = 1 /\ tokenno = 0 /\ remaining = 0 /\ body = <<>> /\ stack = <<>>
        /\ start_stack = <<>> /\ segments = <<>> /\ parts = <<>> /\ packed = 0
  BY DEF PartsInit
<1>2. text \in Seq(Seq(Token))
  BY <1>1, PartsAssumption
<1>3. Cursor
  <2>1. Len(text) \in Nat /\ 1 \in 1..(Len(text) + 1)
    BY <1>2
  <2>2. ~InLine
    BY <1>1 DEF InLine
  <2>3. ~Split => tokenno <= Len(Line) + 1
    <3> SUFFICES ASSUME ~Split PROVE tokenno <= Len(Line) + 1
      OBVIOUS
    <3>1. 1 \in DOMAIN text
      BY <1>1, <1>2, <2>1 DEF Split
    <3>2. Line \in Seq(Token)
      BY <1>1, <1>2, <3>1 DEF Line
    <3>3. Len(Line) \in Nat
      BY <3>2
    <3> QED BY <1>1, <3>3
  <2> QED BY <1>1, <2>1, <2>2, <2>3 DEF Cursor
<1>4. <<>> \in Seq(SegmentSet) /\ <<>> \in Seq(PieceSet) /\ <<>> \in Seq(TagNames) /\ DOMAIN <<>> = {}
        /\ Len(<<>>) = 0 /\ <<>> \in Seq(Seq(SegmentSet))
  OBVIOUS
<1>5. Segments
  <2>1. Done(text, <<>>)
    BY <1>4 DEF Done
  <2>2. InWork(text, <<>>, <<>>, <<>>, <<>>)
    <3>1. PiecesOf(text, <<>>, <<>>, <<>>)
      BY <1>4, PiecesNone
    <3> QED BY <1>4, <3>1 DEF InWork
  <2>3. Reached(<<>>, <<>>, 1, 0)
    BY <1>4 DEF Reached, UpTo
  <2>4. ASSUME NEW l \in DOMAIN text, NEW t \in DOMAIN text[l]
        PROVE  Covered(<<>>, <<>>, l, t) = Due(text, 1, 0, 0, l, t)
    <3>1. InSegments(<<>>, l, t) = 0 /\ Share(<<>>, l, t) = 0
      BY <1>4, InSegmentsOf, ShareOf
    <3>2. Covered(<<>>, <<>>, l, t) = 0
      BY <3>1 DEF Covered
    <3>3. l >= 1 /\ l \in Nat /\ t >= 1 /\ t \in Nat
      <4>1. text[l] \in Seq(Token) /\ l \in Nat /\ l >= 1
        BY <1>1, LineOf
      <4>2. t \in 1..Len(text[l]) /\ t \in Nat
        BY <4>1
      <4> QED BY <4>1, <4>2
    <3>4. Due(text, 1, 0, 0, l, t) = 0
      BY <3>3 DEF Due
    <3> QED BY <3>2, <3>4
  <2> QED BY <1>1, <2>1, <2>2, <2>3, <2>4 DEF Segments, Holds
<1>6. Packs
  <2>1. Packed(<<>>, 0) = 0
    <3>1. 0 \in Nat /\ 0 <= Len(<<>>)
      BY <1>4
    <3> QED BY <1>4, <3>1, PackedOf
  <2>2. Len(segments) = 0 /\ packed \in 0..Len(segments)
    BY <1>1, <1>4
  <2> QED BY <1>1, <1>4, <2>1, <2>2 DEF Packs
<1> QED BY <1>3, <1>5, <1>6 DEF PartsInv

LEMMA PartsStep ==
    ASSUME PartsInv, [PartsNext]_partsVars
    PROVE  PartsInv'
<1>1. Cursor /\ Segments /\ Packs
  BY DEF PartsInv
<1>2. ASSUME Cursor', Segments', ~Split, UNCHANGED <<parts, packed>> PROVE PartsInv'
  BY <1>1, <1>2, PacksStay DEF PartsInv
<1>3. CASE KeepLine
  BY <1>1, <1>2, <1>3, KeepLineKeeps DEF KeepLine
<1>4. CASE BeginLine
  BY <1>1, <1>2, <1>4, BeginLineKeeps DEF BeginLine
<1>5. CASE TakeAtom
  BY <1>1, <1>2, <1>5, TakeAtomKeeps DEF TakeAtom, InLine
<1>6. CASE TakeText
  BY <1>1, <1>2, <1>6, TakeTextKeeps DEF TakeText, InLine
<1>7. CASE EndLine
  BY <1>1, <1>2, <1>7, EndLineKeeps DEF EndLine
<1>8. CASE PackLine
  BY <1>1, <1>8, PackLineKeeps DEF PartsInv
<1>9. CASE UNCHANGED partsVars
  BY <1>1, <1>9 DEF partsVars, segment, PartsInv, Cursor, Segments, Packs, Split, InLine, Line, Current
<1> QED BY <1>3, <1>4, <1>5, <1>6, <1>7, <1>8, <1>9 DEF PartsNext

LEMMA PartsAreFit ==
    ASSUME PartsInv
    PROVE  PartsFit
<1>1. Cursor /\ Segments /\ Packs
  BY DEF PartsInv
<1>2. Done(text, segments) /\ InWork(text, segments, body, start_stack, stack)
  BY <1>1 DEF Segments, Holds
<1>3. ASSUME NEW i \in DOMAIN segments PROVE Balanced(segments[i])
  <2>1. Closes(segments[i].opened, TokensIn(text, segments[i].pieces), segments[i].closed)
    BY <1>2 DEF Done, PiecesOf
  <2> QED BY <2>1 DEF Balanced, Closes, TokensIn, TokenOf
<1>4. ASSUME NEW i \in DOMAIN segments, NEW k \in DOMAIN segments[i].pieces
      PROVE  /\ TokenOf(segments[i].pieces[k]).kind # "text"
                  => segments[i].pieces[k].len = TokenOf(segments[i].pieces[k]).len
             /\ \A j \in DOMAIN segments : \A m \in DOMAIN segments[j].pieces :
                  i < j \/ (i = j /\ k <= m) => InOrder(segments[i].pieces[k], segments[j].pieces[m])
  <2>1. PiecesOf(text, segments[i].pieces, segments[i].opened, segments[i].closed)
    BY <1>2 DEF Done
  <2>2. Uncut(text, segments[i].pieces[k]) /\ Sorted(segments[i].pieces)
    BY <2>1 DEF PiecesOf
  <2>3. ASSUME NEW j \in DOMAIN segments, NEW m \in DOMAIN segments[j].pieces,
               i < j \/ (i = j /\ k <= m)
        PROVE  InOrder(segments[i].pieces[k], segments[j].pieces[m])
    <3>1. CASE i < j
      BY <1>2, <3>1 DEF Done, Ahead
    <3>2. CASE i = j /\ k <= m
      BY <2>2, <3>2 DEF Sorted
    <3> QED BY <2>3, <3>1, <3>2
  <2> QED BY <2>2, <2>3 DEF Uncut, TokenOf
<1>5. ASSUME Split, NEW l \in DOMAIN text, NEW t \in DOMAIN text[l]
      PROVE  SumFunction([i \in DOMAIN segments |-> Share(segments[i].pieces, l, t)]) = text[l][t].len
  <2>1. text \in Texts /\ lineno \in 1..(Len(text) + 1) /\ lineno > Len(text) /\ tokenno = 0 /\ body = <<>>
    BY <1>1, <1>5 DEF Cursor, Split
  <2>2. l < lineno
    <3>1. text \in Seq(Seq(Token))
      BY <2>1, PartsAssumption
    <3>2. l \in 1..Len(text) /\ Len(text) \in Nat
      BY <3>1
    <3> QED BY <2>1, <3>2
  <2>3. Covered(segments, body, l, t) = text[l][t].len
    <3>1. Covered(segments, body, l, t) = Due(text, lineno, tokenno, remaining, l, t)
      BY <1>1 DEF Segments, Holds
    <3> QED BY <2>2, <3>1 DEF Due
  <2>4. Share(body, l, t) = 0 /\ InSegments(segments, l, t) \in Nat
    <3>1. body \in Seq(PieceSet) /\ segments \in Seq(SegmentSet)
      BY <1>2 DEF InWork, Done
    <3> QED BY <2>1, <3>1, ShareOf, InSegmentsOf
  <2>5. PICK a : a = InSegments(segments, l, t)
    OBVIOUS
  <2>6. Covered(segments, body, l, t) = a
    BY <2>4, <2>5 DEF Covered
  <2> QED BY <2>3, <2>5, <2>6 DEF InSegments
<1>6. /\ \A i \in DOMAIN parts : PartLen(parts[i]) <= LIMIT
      /\ Packed(parts, Len(parts)) = packed
      /\ \A i \in DOMAIN parts : \A k \in DOMAIN parts[i] : parts[i][k] = segments[Packed(parts, i - 1) + k]
  BY <1>1 DEF Packs
<1> QED BY <1>3, <1>4, <1>5, <1>6 DEF PartsFit

\* The invariant of the splitting of a reply (PartsInv), for any replies and limit.
THEOREM PartsInvariant == PartsSpec => []PartsInv
<1>1. PartsInit => PartsInv
  BY PartsStart
<1>2. PartsInv /\ [PartsNext]_partsVars => PartsInv'
  BY PartsStep
<1> QED BY <1>1, <1>2, PTL DEF PartsSpec

\* Every part fits (PartsFit).
THEOREM SplitReplyFits == PartsSpec => []PartsFit
BY PartsInvariant, PartsAreFit, PTL
=============================================================================
