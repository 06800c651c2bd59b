---------------------------- MODULE TotalProofs ----------------------------
(***************************************************************************)
(* The sum of a function over a finite set, as the byte totals of the      *)
(* ledger and of the flow map use it.  SumFunctionOnSet picks the elements *)
(* one by one with CHOOSE through a recursive function, so it has to be    *)
(* shown that the function exists, that it does not depend on the set it   *)
(* was defined over, and that any element may be picked first.  Every      *)
(* induction is a smallest counterexample.                                 *)
(***************************************************************************)
EXTENDS Integers, FiniteSets, Functions, FiniteSetTheorems, WellFoundedInduction, TLAPS

Pick(s) == CHOOSE x \in s : TRUE

\* it is the recursive function of g over the sets D.
Sums(it, g, D) ==
    it = [s \in D |-> IF s = {} THEN 0 ELSE g[Pick(s)] + it[s \ {Pick(s)}]]

LEMMA SmallestNumber ==
    ASSUME NEW T, T \subseteq Nat, T # {}
    PROVE  \E n \in T : \A k \in T : n <= k
  <1> DEFINE R == {p \in Nat \X Nat : p[1] < p[2]}
  <1>1. IsWellFoundedOn(R, Nat)
    BY NatLessThanWellFounded, Zenon DEF OpToRel
  <1>2. PICK n \in T : \A k \in T : <<k, n>> \notin R
    <2> HIDE DEF R
    <2>1. QED
      BY <1>1, WFMin
  <1>3. ASSUME NEW k \in T PROVE n <= k
    <2>1. <<k, n>> \in Nat \X Nat /\ k \in Nat /\ n \in Nat
      OBVIOUS
    <2>2. ~(k < n)
      BY <1>2, <2>1
    <2>3. QED
      BY <2>1, <2>2
  <1>4. QED
    BY <1>3

\* The smallest of a collection of finite sets.
LEMMA SmallestSet ==
    ASSUME NEW Bad, Bad # {}, \A s \in Bad : IsFiniteSet(s)
    PROVE  \E s \in Bad : \A u : IsFiniteSet(u) /\ Cardinality(u) < Cardinality(s) => u \notin Bad
  <1> DEFINE T == {Cardinality(s) : s \in Bad}
  <1>1. T \subseteq Nat /\ T # {}
    BY FS_CardinalityType
  <1>2. PICK n \in T : \A k \in T : n <= k
    <2> HIDE DEF T
    <2>1. QED
      BY <1>1, SmallestNumber
  <1>3. PICK s \in Bad : n = Cardinality(s)
    OBVIOUS
  <1>4. ASSUME NEW u, IsFiniteSet(u), Cardinality(u) < Cardinality(s), u \in Bad PROVE FALSE
    <2>1. n <= Cardinality(u) /\ Cardinality(u) \in Nat
      BY <1>2, <1>4, FS_CardinalityType
    <2>2. QED
      BY <1>1, <1>3, <1>4, <2>1
  <1>5. QED
    BY <1>4

LEMMA Without ==
    ASSUME NEW S, IsFiniteSet(S), NEW x \in S
    PROVE  /\ IsFiniteSet(S \ {x})
           /\ Cardinality(S \ {x}) = Cardinality(S) - 1
           /\ Cardinality(S) \in Nat
           /\ Cardinality(S \ {x}) \in Nat
           /\ Cardinality(S \ {x}) < Cardinality(S)
  <1>1. IsFiniteSet(S \ {x}) /\ Cardinality(S \ {x}) = Cardinality(S) - 1
    BY FS_RemoveElement
  <1>2. Cardinality(S) \in Nat /\ Cardinality(S \ {x}) \in Nat
    BY <1>1, FS_CardinalityType
  <1>3. QED
    BY <1>1, <1>2

LEMMA Picked == ASSUME NEW s, s # {} PROVE Pick(s) \in s
  BY DEF Pick

\* The subsets of S with at most n elements.
Upto(S, n) == {s \in SUBSET S : Cardinality(s) <= n}

LEMMA UptoSmaller ==
    ASSUME NEW S, IsFiniteSet(S), NEW n \in Nat, NEW s \in Upto(S, n + 1), s # {}
    PROVE  s \ {Pick(s)} \in Upto(S, n)
  <1>1. IsFiniteSet(s) /\ Pick(s) \in s
    BY FS_Subset, Picked DEF Upto
  <1>2. QED
    BY <1>1, Without DEF Upto

LEMMA SumsExtend ==
    ASSUME NEW g, NEW S, IsFiniteSet(S), NEW n \in Nat, NEW it, Sums(it, g, Upto(S, n))
    PROVE  \E next : Sums(next, g, Upto(S, n + 1))
  <1> DEFINE next == [s \in Upto(S, n + 1) |->
                IF s = {} THEN 0 ELSE g[Pick(s)] + it[s \ {Pick(s)}]]
  <1>1. \A s \in Upto(S, n) : next[s] = it[s]
    <2>1. Upto(S, n) \subseteq Upto(S, n + 1)
      <3>1. ASSUME NEW s \in Upto(S, n) PROVE Cardinality(s) <= n + 1
        BY FS_Subset, FS_CardinalityType DEF Upto
      <3>2. QED
        BY <3>1 DEF Upto
    <2>2. QED
      BY <2>1 DEF Sums
  <1>2. ASSUME NEW s \in Upto(S, n + 1), s # {}
        PROVE  next[s] = g[Pick(s)] + next[s \ {Pick(s)}]
    BY <1>1, <1>2, UptoSmaller
  <1>3. ASSUME NEW s \in Upto(S, n + 1)
        PROVE  next[s] = IF s = {} THEN 0 ELSE g[Pick(s)] + next[s \ {Pick(s)}]
    BY <1>2
  <1>4. next = [s \in Upto(S, n + 1) |->
                    IF s = {} THEN 0 ELSE g[Pick(s)] + next[s \ {Pick(s)}]]
    <2>1. next = [s \in Upto(S, n + 1) |-> next[s]]
      OBVIOUS
    <2> HIDE DEF next
    <2>2. QED
      BY <1>3, <2>1
  <1>5. QED
    BY <1>4 DEF Sums

LEMMA SumsExist ==
    ASSUME NEW g, NEW S, IsFiniteSet(S)
    PROVE  \E it : Sums(it, g, SUBSET S)
  <1> DEFINE Missing == {n \in Nat : ~ \E it : Sums(it, g, Upto(S, n))}
  <1>1. ASSUME Missing # {} PROVE FALSE
    <2>1. PICK n \in Missing : \A k \in Missing : n <= k
      <3>1. Missing \subseteq Nat
        OBVIOUS
      <3> HIDE DEF Missing
      <3>2. QED
        BY <1>1, <3>1, SmallestNumber
    <2>2. CASE n = 0
      <3>1. ASSUME NEW s \in Upto(S, 0) PROVE s = {}
        <4>1. IsFiniteSet(s) /\ Cardinality(s) \in Nat /\ Cardinality(s) <= 0
          BY FS_Subset, FS_CardinalityType DEF Upto
        <4>2. QED
          BY <4>1, FS_EmptySet
      <3> DEFINE zero == [s \in Upto(S, 0) |-> 0]
      <3>2. Sums(zero, g, Upto(S, 0))
        BY <3>1 DEF Sums
      <3>3. QED
        BY <2>2, <3>2
    <2>3. CASE n # 0
      <3>1. n - 1 \in Nat /\ n - 1 \notin Missing /\ (n - 1) + 1 = n
        BY <2>1, <2>3
      <3>2. PICK it : Sums(it, g, Upto(S, n - 1))
        BY <3>1
      <3>3. \E next : Sums(next, g, Upto(S, (n - 1) + 1))
        BY <3>1, <3>2, SumsExtend
      <3>4. QED
        BY <3>1, <3>3
    <2>4. QED
      BY <2>2, <2>3
  <1>2. Cardinality(S) \in Nat
    BY FS_CardinalityType
  <1>3. Upto(S, Cardinality(S)) = SUBSET S
    BY FS_Subset DEF Upto
  <1>4. \E it : Sums(it, g, Upto(S, Cardinality(S)))
    BY <1>1, <1>2
  <1>5. QED
    BY <1>3, <1>4

LEMMA SumIs ==
    ASSUME NEW g, NEW S
    PROVE  SumFunctionOnSet(g, S) = (CHOOSE it : Sums(it, g, SUBSET S))[S]
  BY DEF SumFunctionOnSet, FoldFunctionOnSet, MapThenFoldSet, Sums, Pick

\* Two such functions agree on a finite set both are defined on.
LEMMA SumsAgree ==
    ASSUME NEW g, NEW S, NEW U, NEW it, NEW other, IsFiniteSet(S), U \subseteq S,
           Sums(it, g, SUBSET S), Sums(other, g, SUBSET U)
    PROVE  it[U] = other[U]
  <1> DEFINE Bad == {s \in SUBSET U : it[s] # other[s]}
  <1>1. ASSUME Bad # {} PROVE FALSE
    <2>1. \A s \in Bad : IsFiniteSet(s)
      BY FS_Subset
    <2>2. PICK s \in Bad :
            \A u : IsFiniteSet(u) /\ Cardinality(u) < Cardinality(s) => u \notin Bad
      <3> HIDE DEF Bad
      <3>1. QED
        BY <1>1, <2>1, SmallestSet
    <2>3. s \in SUBSET S /\ s \in SUBSET U /\ it[s] # other[s]
      OBVIOUS
    <2>4. s # {}
      BY <2>3 DEF Sums
    <2>5. it[s] = g[Pick(s)] + it[s \ {Pick(s)}] /\ other[s] = g[Pick(s)] + other[s \ {Pick(s)}]
      BY <2>3, <2>4 DEF Sums
    <2>6. s \ {Pick(s)} \notin Bad
      BY <2>1, <2>2, <2>4, Picked, Without
    <2>7. QED
      BY <2>3, <2>5, <2>6
  <1>2. QED
    BY <1>1

LEMMA SumOver ==
    ASSUME NEW g, NEW S, IsFiniteSet(S)
    PROVE  SumFunctionOnSet(g, S) =
             IF S = {} THEN 0 ELSE g[Pick(S)] + SumFunctionOnSet(g, S \ {Pick(S)})
  <1>1. PICK it : Sums(it, g, SUBSET S) /\ SumFunctionOnSet(g, S) = it[S]
    BY SumsExist, SumIs
  <1>2. PICK U : U = S \ {Pick(S)}
    OBVIOUS
  <1>3. IsFiniteSet(U) /\ U \subseteq S
    BY <1>2, FS_RemoveElement
  <1>4. PICK other : Sums(other, g, SUBSET U) /\ SumFunctionOnSet(g, U) = other[U]
    BY <1>3, SumsExist, SumIs
  <1>5. it[S] = IF S = {} THEN 0 ELSE g[Pick(S)] + it[U]
    BY <1>1, <1>2 DEF Sums
  <1>6. it[U] = other[U]
    <2>1. Sums(it, g, SUBSET S)
      BY <1>1
    <2>2. Sums(other, g, SUBSET U)
      BY <1>4
    <2>3. QED
      BY <1>3, <2>1, <2>2, SumsAgree
  <1>7. QED
    BY <1>1, <1>2, <1>4, <1>5, <1>6

-----------------------------------------------------------------------------
(* What the proofs about byte totals cite.                                  *)

LEMMA SumEmpty == ASSUME NEW g PROVE SumFunctionOnSet(g, {}) = 0
  BY SumOver, FS_EmptySet

LEMMA SumType ==
    ASSUME NEW g, NEW S, IsFiniteSet(S)
    PROVE  /\ (\A x \in S : g[x] \in Int) => SumFunctionOnSet(g, S) \in Int
           /\ (\A x \in S : g[x] \in Nat) => SumFunctionOnSet(g, S) \in Nat
  <1>1. ASSUME NEW V \in {Int, Nat}, \A x \in S : g[x] \in V PROVE SumFunctionOnSet(g, S) \in V
    <2> DEFINE Bad == {s \in SUBSET S : SumFunctionOnSet(g, s) \notin V}
    <2>1. ASSUME Bad # {} PROVE FALSE
      <3>1. \A s \in Bad : IsFiniteSet(s)
        BY FS_Subset
      <3>2. PICK s \in Bad :
              \A u : IsFiniteSet(u) /\ Cardinality(u) < Cardinality(s) => u \notin Bad
        <4> HIDE DEF Bad
        <4>1. QED
          BY <2>1, <3>1, SmallestSet
      <3>3. s \in SUBSET S /\ SumFunctionOnSet(g, s) \notin V
        OBVIOUS
      <3>4. s # {}
        BY <3>3, SumEmpty
      <3>5. Pick(s) \in s /\ s \ {Pick(s)} \notin Bad
        BY <3>1, <3>2, <3>4, Picked, Without
      <3>6. g[Pick(s)] \in V /\ SumFunctionOnSet(g, s \ {Pick(s)}) \in V
        BY <1>1, <3>3, <3>5
      <3>7. SumFunctionOnSet(g, s) = g[Pick(s)] + SumFunctionOnSet(g, s \ {Pick(s)})
        BY <3>1, <3>4, SumOver
      <3>8. QED
        BY <3>3, <3>6, <3>7
    <2>2. QED
      BY <2>1
  <1>2. QED
    BY <1>1

\* Any element may be taken out first.
LEMMA SumStep ==
    ASSUME NEW g, NEW S, IsFiniteSet(S), \A x \in S : g[x] \in Int, NEW x \in S
    PROVE  SumFunctionOnSet(g, S) = g[x] + SumFunctionOnSet(g, S \ {x})
  <1> DEFINE T(s) == SumFunctionOnSet(g, s)
             Bad == {s \in SUBSET S : \E z \in s : T(s) # g[z] + T(s \ {z})}
  <1>1. ASSUME Bad # {} PROVE FALSE
    <2>1. \A s \in Bad : IsFiniteSet(s)
      BY FS_Subset
    <2>2. PICK s \in Bad :
            \A u : IsFiniteSet(u) /\ Cardinality(u) < Cardinality(s) => u \notin Bad
      <3> HIDE DEF Bad
      <3>1. QED
        BY <1>1, <2>1, SmallestSet
    <2>3. PICK z \in s : T(s) # g[z] + T(s \ {z})
      OBVIOUS
    <2> DEFINE y == Pick(s)
    <2>4. s \in SUBSET S /\ IsFiniteSet(s) /\ y \in s
      BY <2>1, <2>3, Picked
    <2>5. T(s) = g[y] + T(s \ {y})
      BY <2>3, <2>4, SumOver
    <2> HIDE DEF y
    <2>6. z # y
      BY <2>3, <2>5
    <2>7. ASSUME NEW u \in s, NEW v \in s, u # v
          PROVE  T(s \ {u}) = g[v] + T((s \ {u}) \ {v})
      <3>1. s \ {u} \notin Bad
        <4> HIDE DEF Bad
        <4>1. QED
          BY <2>2, <2>4, Without
      <3>2. QED
        BY <2>4, <2>7, <3>1
    <2> DEFINE rest == T(s \ {y, z})
    <2>8. T(s \ {y}) = g[z] + rest /\ T(s \ {z}) = g[y] + rest
      <3>1. (s \ {y}) \ {z} = s \ {y, z} /\ (s \ {z}) \ {y} = s \ {y, z}
        OBVIOUS
      <3>2. QED
        BY <2>4, <2>6, <2>7, <3>1
    <2>9. rest \in Int /\ g[y] \in Int /\ g[z] \in Int
      <3>1. s \ {y, z} \in SUBSET S
        BY <2>4
      <3>2. QED
        BY <2>3, <2>4, <3>1, FS_Subset, SumType
    <2> HIDE DEF rest
    <2>10. g[y] + (g[z] + rest) = g[z] + (g[y] + rest)
      BY <2>9
    <2>11. QED
      BY <2>3, <2>5, <2>8, <2>10
  <1>2. QED
    BY <1>1

LEMMA SumSame ==
    ASSUME NEW g, NEW h, NEW S, IsFiniteSet(S), \A x \in S : g[x] = h[x]
    PROVE  SumFunctionOnSet(g, S) = SumFunctionOnSet(h, S)
  <1> DEFINE Bad == {s \in SUBSET S : SumFunctionOnSet(g, s) # SumFunctionOnSet(h, s)}
  <1>1. ASSUME Bad # {} PROVE FALSE
    <2>1. \A s \in Bad : IsFiniteSet(s)
      BY FS_Subset
    <2>2. PICK s \in Bad :
            \A u : IsFiniteSet(u) /\ Cardinality(u) < Cardinality(s) => u \notin Bad
      <3> HIDE DEF Bad
      <3>1. QED
        BY <1>1, <2>1, SmallestSet
    <2>3. s \in SUBSET S /\ SumFunctionOnSet(g, s) # SumFunctionOnSet(h, s)
      OBVIOUS
    <2>4. s # {}
      BY <2>3, SumEmpty
    <2>5. Pick(s) \in s /\ s \ {Pick(s)} \notin Bad
      BY <2>1, <2>2, <2>4, Picked, Without
    <2>6. g[Pick(s)] = h[Pick(s)]
          /\ SumFunctionOnSet(g, s \ {Pick(s)}) = SumFunctionOnSet(h, s \ {Pick(s)})
      BY <2>3, <2>5
    <2>7. /\ SumFunctionOnSet(g, s) = g[Pick(s)] + SumFunctionOnSet(g, s \ {Pick(s)})
          /\ SumFunctionOnSet(h, s) = h[Pick(s)] + SumFunctionOnSet(h, s \ {Pick(s)})
      BY <2>1, <2>4, SumOver
    <2>8. QED
      BY <2>3, <2>6, <2>7
  <1>2. QED
    BY <1>1

\* Changing one summand changes the sum by as much.
LEMMA SumChange ==
    ASSUME NEW g, NEW h, NEW S, IsFiniteSet(S), NEW x \in S,
           \A y \in S : g[y] \in Int /\ h[y] \in Int,
           \A y \in S \ {x} : h[y] = g[y]
    PROVE  /\ SumFunctionOnSet(g, S) \in Int /\ SumFunctionOnSet(h, S) \in Int
           /\ SumFunctionOnSet(h, S) = SumFunctionOnSet(g, S) - g[x] + h[x]
  <1>1. SumFunctionOnSet(g, S) \in Int /\ SumFunctionOnSet(h, S) \in Int
    BY SumType
  <1>2. IsFiniteSet(S \ {x})
    BY FS_RemoveElement
  <1>3. SumFunctionOnSet(g, S \ {x}) \in Int
    BY <1>2, SumType
  <1>4. SumFunctionOnSet(h, S \ {x}) = SumFunctionOnSet(g, S \ {x})
    BY <1>2, SumSame
  <1>5. /\ SumFunctionOnSet(g, S) = g[x] + SumFunctionOnSet(g, S \ {x})
        /\ SumFunctionOnSet(h, S) = h[x] + SumFunctionOnSet(h, S \ {x})
    BY SumStep
  <1>6. QED
    BY <1>1, <1>3, <1>4, <1>5

\* Smaller summands, smaller sum.
LEMMA SumAtMost ==
    ASSUME NEW g, NEW h, NEW S, IsFiniteSet(S),
           \A x \in S : g[x] \in Int /\ h[x] \in Int /\ g[x] <= h[x]
    PROVE  SumFunctionOnSet(g, S) <= SumFunctionOnSet(h, S)
  <1> DEFINE Bad == {s \in SUBSET S : ~(SumFunctionOnSet(g, s) <= SumFunctionOnSet(h, s))}
  <1>1. ASSUME Bad # {} PROVE FALSE
    <2>1. \A s \in Bad : IsFiniteSet(s)
      BY FS_Subset
    <2>2. PICK s \in Bad :
            \A u : IsFiniteSet(u) /\ Cardinality(u) < Cardinality(s) => u \notin Bad
      <3> HIDE DEF Bad
      <3>1. QED
        BY <1>1, <2>1, SmallestSet
    <2>3. s \in SUBSET S /\ ~(SumFunctionOnSet(g, s) <= SumFunctionOnSet(h, s))
      OBVIOUS
    <2>4. s # {}
      BY <2>3, SumEmpty
    <2> DEFINE x == Pick(s)
               r == s \ {x}
    <2>5. x \in s /\ r \notin Bad /\ IsFiniteSet(r)
      BY <2>1, <2>2, <2>4, Picked, Without
    <2>6. /\ g[x] <= h[x] /\ SumFunctionOnSet(g, r) <= SumFunctionOnSet(h, r)
          /\ g[x] \in Int /\ h[x] \in Int
          /\ r \in SUBSET S
      BY <2>3, <2>5
    <2>7. /\ SumFunctionOnSet(g, s) = g[x] + SumFunctionOnSet(g, r)
          /\ SumFunctionOnSet(h, s) = h[x] + SumFunctionOnSet(h, r)
      BY <2>1, <2>4, SumOver
    <2>8. SumFunctionOnSet(g, r) \in Int /\ SumFunctionOnSet(h, r) \in Int
      BY <2>5, <2>6, SumType
    <2> HIDE DEF x, r
    <2>9. QED
      BY <2>3, <2>6, <2>7, <2>8
  <1>2. QED
    BY <1>1

\* A sum of nothing.
LEMMA SumZero ==
    ASSUME NEW g, NEW S, IsFiniteSet(S), \A x \in S : g[x] = 0
    PROVE  SumFunctionOnSet(g, S) = 0
  <1>1. SumFunctionOnSet(g, S) \in Nat
    BY SumType
  <1> DEFINE Bad == {s \in SUBSET S : SumFunctionOnSet(g, s) # 0}
  <1>2. ASSUME Bad # {} PROVE FALSE
    <2>1. \A s \in Bad : IsFiniteSet(s)
      BY FS_Subset
    <2>2. PICK s \in Bad :
            \A u : IsFiniteSet(u) /\ Cardinality(u) < Cardinality(s) => u \notin Bad
      <3> HIDE DEF Bad
      <3>1. QED
        BY <1>2, <2>1, SmallestSet
    <2>3. s \in SUBSET S /\ SumFunctionOnSet(g, s) # 0
      OBVIOUS
    <2>4. s # {}
      BY <2>3, SumEmpty
    <2>5. Pick(s) \in s /\ s \ {Pick(s)} \notin Bad
      BY <2>1, <2>2, <2>4, Picked, Without
    <2>6. SumFunctionOnSet(g, s) = g[Pick(s)] + SumFunctionOnSet(g, s \ {Pick(s)})
      BY <2>1, <2>4, SumOver
    <2>7. QED
      BY <2>3, <2>5, <2>6
  <1>3. QED
    BY <1>2

\* The sum of two functions.
LEMMA SumPlus ==
    ASSUME NEW g, NEW h, NEW k, NEW S, IsFiniteSet(S),
           \A x \in S : g[x] \in Int /\ h[x] \in Int /\ k[x] = g[x] + h[x]
    PROVE  SumFunctionOnSet(k, S) = SumFunctionOnSet(g, S) + SumFunctionOnSet(h, S)
  <1> DEFINE Bad == {s \in SUBSET S : SumFunctionOnSet(k, s) #
                        SumFunctionOnSet(g, s) + SumFunctionOnSet(h, s)}
  <1>1. ASSUME Bad # {} PROVE FALSE
    <2>1. \A s \in Bad : IsFiniteSet(s)
      BY FS_Subset
    <2>2. PICK s \in Bad :
            \A u : IsFiniteSet(u) /\ Cardinality(u) < Cardinality(s) => u \notin Bad
      <3> HIDE DEF Bad
      <3>1. QED
        BY <1>1, <2>1, SmallestSet
    <2>3. s \in SUBSET S /\ SumFunctionOnSet(k, s) #
                               SumFunctionOnSet(g, s) + SumFunctionOnSet(h, s)
      OBVIOUS
    <2>4. s # {}
      <3> SUFFICES ASSUME s = {} PROVE FALSE
        OBVIOUS
      <3>1. SumFunctionOnSet(g, s) = 0 /\ SumFunctionOnSet(h, s) = 0
        BY SumEmpty
      <3>2. SumFunctionOnSet(k, s) = 0
        BY SumEmpty
      <3>3. QED
        BY <2>3, <3>1, <3>2
    <2> DEFINE x == Pick(s)
               r == s \ {x}
    <2>5. x \in s /\ r \notin Bad /\ IsFiniteSet(r)
      BY <2>1, <2>2, <2>4, Picked, Without
    <2>6. /\ SumFunctionOnSet(k, r) = SumFunctionOnSet(g, r) + SumFunctionOnSet(h, r)
          /\ g[x] \in Int /\ h[x] \in Int /\ k[x] = g[x] + h[x]
          /\ r \in SUBSET S
      BY <2>3, <2>5
    <2>7. /\ SumFunctionOnSet(g, s) = g[x] + SumFunctionOnSet(g, r)
          /\ SumFunctionOnSet(h, s) = h[x] + SumFunctionOnSet(h, r)
          /\ SumFunctionOnSet(k, s) = k[x] + SumFunctionOnSet(k, r)
      BY <2>1, <2>4, SumOver
    <2>8. SumFunctionOnSet(g, r) \in Int /\ SumFunctionOnSet(h, r) \in Int
      BY <2>5, <2>6, SumType
    <2> HIDE DEF x, r
    <2>9. QED
      BY <2>3, <2>6, <2>7, <2>8
  <1>2. QED
    BY <1>1

\* A sum of which one addend may differ from zero, or two.
LEMMA SumOne ==
    ASSUME NEW g, NEW S, IsFiniteSet(S), NEW x \in S, g[x] \in Int, \A y \in S \ {x} : g[y] = 0
    PROVE  SumFunctionOnSet(g, S) = g[x]
  <1> DEFINE z == [y \in S |-> 0]
  <1>1. \A y \in S : z[y] = 0 /\ z[y] \in Int /\ g[y] \in Int
    OBVIOUS
  <1>2. \A y \in S \ {x} : g[y] = z[y]
    BY <1>1
  <1> HIDE DEF z
  <1>3. SumFunctionOnSet(z, S) = 0
    BY <1>1, SumZero
  <1>4. SumFunctionOnSet(g, S) = SumFunctionOnSet(z, S) - z[x] + g[x]
    BY <1>1, <1>2, SumChange
  <1>5. QED
    BY <1>1, <1>3, <1>4

LEMMA SumTwo ==
    ASSUME NEW g, NEW S, IsFiniteSet(S), NEW x \in S, NEW y \in S, x # y,
           g[x] \in Int, g[y] \in Int, \A z \in S \ {x, y} : g[z] = 0
    PROVE  SumFunctionOnSet(g, S) = g[x] + g[y]
  <1> DEFINE h == [z \in S |-> IF z = x THEN 0 ELSE g[z]]
  <1>1. \A z \in S : h[z] \in Int /\ g[z] \in Int
    OBVIOUS
  <1>2. /\ \A z \in S \ {x} : g[z] = h[z]
        /\ \A z \in S \ {y} : h[z] = 0
        /\ h[y] = g[y] /\ h[x] = 0
    OBVIOUS
  <1> HIDE DEF h
  <1>3. SumFunctionOnSet(h, S) = g[y]
    BY <1>1, <1>2, SumOne
  <1>4. SumFunctionOnSet(g, S) = SumFunctionOnSet(h, S) - h[x] + g[x]
    BY <1>1, <1>2, SumChange
  <1>5. QED
    BY <1>1, <1>2, <1>3, <1>4

\* The difference of two functions.
LEMMA SumMinus ==
    ASSUME NEW g, NEW h, NEW k, NEW S, IsFiniteSet(S),
           \A x \in S : g[x] \in Int /\ h[x] \in Int /\ k[x] = g[x] - h[x]
    PROVE  SumFunctionOnSet(k, S) = SumFunctionOnSet(g, S) - SumFunctionOnSet(h, S)
  <1>1. \A x \in S : k[x] \in Int /\ h[x] \in Int /\ g[x] = k[x] + h[x]
    OBVIOUS
  <1>2. SumFunctionOnSet(g, S) = SumFunctionOnSet(k, S) + SumFunctionOnSet(h, S)
    BY <1>1, SumPlus
  <1>3. SumFunctionOnSet(k, S) \in Int /\ SumFunctionOnSet(h, S) \in Int
    BY <1>1, SumType
  <1>4. QED
    BY <1>2, <1>3
=============================================================================
