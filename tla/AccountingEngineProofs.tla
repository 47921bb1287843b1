------------------------ MODULE AccountingEngineProofs ------------------------
(***************************************************************************)
(* What AccountingEngine guarantees for any number of invoices, lines and   *)
(* products, any amounts and any journal that a model makes up.             *)
(*                                                                         *)
(* The journal, its reports and the taxes are sums over sequences, which    *)
(* the model writes with the folds of the community modules.  Nothing is    *)
(* known of those folds, so that the first three parts prove what is        *)
(* needed: induction over a sequence, in the form of a set that contains    *)
(* the empty sequence and is closed under Append, what a fold does with one *)
(* element more, and so what a sum, a flattened sequence and a weight (the  *)
(* sum of what a function gives the elements) are.  The inductive           *)
(* invariant then says where the parts of a job came from, and each         *)
(* property of the amounts is an equation between weights of the journal.   *)
(***************************************************************************)
EXTENDS AccountingEngine, FiniteSetTheorems, SequenceTheorems, TLAPS

-----------------------------------------------------------------------------
(* Induction, and the sum of a sequence.                                   *)

\* Induction, with a set in place of the operator of the library's theorem.
LEMMA NatByCases == ASSUME NEW T, 0 \in T, \A n \in T \cap Nat : n + 1 \in T PROVE Nat \subseteq T
<1> DEFINE rest == Nat \ T
<1>1. SUFFICES ASSUME rest # {} PROVE FALSE  OBVIOUS
<1>2. PICK x \in rest : \A y \in rest : ~ (<<y, x>> \in OpToRel(<, Nat))
  <2>1. rest \subseteq Nat OBVIOUS
  <2> HIDE DEF rest
  <2> QED BY <1>1, <2>1, NatLessThanWellFounded, WFMin, Zenon
<1>3. \A y \in rest : ~ (y < x)
   BY <1>2 DEF OpToRel
<1>4. x # 0 /\ x \in Nat OBVIOUS
<1>5. x - 1 \in Nat /\ x-1 \in T BY <1>3, <1>4
<1>6. (x-1)+1 \in T BY <1>5
<1> QED BY <1>6, <1>4

\* What holds of the empty set, and of a finite set when it holds of that set
\* without any one of its elements, holds of every subset of a finite set.
LEMMA SubsetInduction ==
  ASSUME NEW S, IsFiniteSet(S), NEW T, {} \in T,
         \A s \in SUBSET S : s # {} /\ (\A y \in s : s \ {y} \in T) => s \in T
  PROVE  SUBSET S \subseteq T
<1> DEFINE N == {n \in Nat : \A s \in SUBSET S : Cardinality(s) = n => s \in T}
<1>0. \A s \in SUBSET S : IsFiniteSet(s) /\ Cardinality(s) \in Nat
  BY FS_Subset, FS_CardinalityType
<1>1. 0 \in N
  BY <1>0, FS_EmptySet
<1>2. ASSUME NEW n \in N \cap Nat PROVE n + 1 \in N
  <2> SUFFICES ASSUME NEW s \in SUBSET S, Cardinality(s) = n + 1 PROVE s \in T OBVIOUS
  <2>1. s # {}
    <3>1. Cardinality({}) = 0 BY FS_EmptySet
    <3> QED BY <3>1
  <2>2. ASSUME NEW y \in s PROVE s \ {y} \in T
    <3>1. Cardinality(s \ {y}) = n BY <1>0, FS_RemoveElement
    <3> QED BY <3>1
  <2> QED BY <2>1, <2>2
<1>3. Nat \subseteq N
  <2> HIDE DEF N
  <2> QED BY <1>1, <1>2, NatByCases
<1> QED BY <1>0, <1>3

\* What holds of the empty sequence and is kept by Append holds of every sequence.
LEMMA SeqInduction ==
  ASSUME NEW S, NEW T, <<>> \in T, \A s \in Seq(S), e \in S : s \in T => Append(s, e) \in T
  PROVE  Seq(S) \subseteq T
<1> DEFINE N == {n \in Nat : \A s \in Seq(S) : Len(s) = n => s \in T}
<1>1. 0 \in N BY EmptySeq
<1>2. ASSUME NEW n \in N \cap Nat PROVE n + 1 \in N
  <2> SUFFICES ASSUME NEW s \in Seq(S), Len(s) = n + 1 PROVE s \in T OBVIOUS
  <2>1. s # <<>> BY EmptySeq
  <2>2. PICK r \in Seq(S), e \in S : s = Append(r, e) BY <2>1, SequenceEmptyOrAppend
  <2>3. Len(r) = n BY <2>2, AppendProperties
  <2> QED BY <2>2, <2>3
<1>3. Nat \subseteq N
  <2> HIDE DEF N
  <2> QED BY <1>1, <1>2, NatByCases
<1> QED BY <1>3

\* SumFunctionOnSet as a function on subsets: the folds of the library take the
\* elements of a set one by one, in the order of a CHOOSE.
Pick(s) == CHOOSE x \in s : TRUE
Adds(f, S, iter) == iter = [s \in S |-> IF s = {} THEN 0 ELSE f[Pick(s)] + iter[s \ {Pick(s)}]]
Iter(f, S) == CHOOSE iter : Adds(f, SUBSET S, iter)

\* The fold is that function at the whole domain.
LEMMA SumIsIter == ASSUME NEW f PROVE SumFunction(f) = Iter(f, DOMAIN f)[DOMAIN f]
 BY Zenon DEF SumFunction, SumFunctionOnSet, FoldFunctionOnSet, MapThenFoldSet, Iter, Adds, Pick

\* The function that the CHOOSE of the fold asks for exists.
LEMMA IterAdds == ASSUME NEW f, NEW S, IsFiniteSet(S) PROVE Adds(f, SUBSET S, Iter(f, S))
<1> DEFINE Upto(n) == {s \in SUBSET S : Cardinality(s) <= n}
           N == {n \in Nat : \E iter : Adds(f, Upto(n), iter)}
<1>0. \A s \in SUBSET S : IsFiniteSet(s) /\ Cardinality(s) \in Nat
  BY FS_Subset, FS_CardinalityType
<1>1. 0 \in N
  <2> DEFINE iter == [s \in Upto(0) |-> 0]
  <2>1. \A s \in Upto(0) : s = {} BY <1>0, FS_EmptySet
  <2>2. \A s \in Upto(0) : 0 = IF s = {} THEN 0 ELSE f[Pick(s)] + iter[s \ {Pick(s)}]
    BY <2>1
  <2>3. Adds(f, Upto(0), iter) BY <2>2, Zenon DEF Adds
  <2> QED BY <2>3
<1>2. ASSUME NEW n \in N \cap Nat PROVE n + 1 \in N
  <2>1. PICK iter : Adds(f, Upto(n), iter) OBVIOUS
  <2> DEFINE more == [s \in Upto(n + 1) |->
                        IF s = {} THEN 0 ELSE f[Pick(s)] + iter[s \ {Pick(s)}]]
  <2>2. ASSUME NEW s \in Upto(n + 1), s # {}
        PROVE  s \ {Pick(s)} \in Upto(n) /\ s \ {Pick(s)} \in Upto(n + 1)
    <3>1. Pick(s) \in s BY <2>2, Zenon DEF Pick
    <3>2. Cardinality(s \ {Pick(s)}) = Cardinality(s) - 1 BY <1>0, <3>1, FS_RemoveElement
    <3> QED BY <1>0, <3>2
  <2>3. ASSUME NEW s \in Upto(n) PROVE iter[s] = more[s]
    <3>1. s \in Upto(n + 1) BY <1>0
    <3>2. iter[s] = IF s = {} THEN 0 ELSE f[Pick(s)] + iter[s \ {Pick(s)}]
      BY <2>1, Zenon DEF Adds
    <3> QED BY <3>1, <3>2
  <2>4. ASSUME NEW s \in Upto(n + 1)
        PROVE  (IF s = {} THEN 0 ELSE f[Pick(s)] + iter[s \ {Pick(s)}]) =
               (IF s = {} THEN 0 ELSE f[Pick(s)] + more[s \ {Pick(s)}])
    <3> HIDE DEF more, Upto
    <3> QED BY <2>2, <2>3
  <2>5. Adds(f, Upto(n + 1), more)
    <3> HIDE DEF Upto
    <3> QED BY <2>4, Zenon DEF Adds
  <2>6. \E any : Adds(f, Upto(n + 1), any)
    <3> HIDE DEF more, Upto
    <3> QED BY <2>5
  <2> QED BY <2>6
<1>3. Nat \subseteq N
  <2> HIDE DEF N
  <2> QED BY <1>1, <1>2, NatByCases
<1>4. Upto(Cardinality(S)) = SUBSET S BY FS_Subset, FS_CardinalityType
<1>5. Cardinality(S) \in N BY <1>3, FS_CardinalityType
<1>6. \E iter : Adds(f, SUBSET S, iter) BY <1>4, <1>5
<1> QED BY <1>6, Zenon DEF Iter

\* One step of the fold.
LEMMA IterIs ==
  ASSUME NEW f, NEW S, IsFiniteSet(S), NEW s \in SUBSET S
  PROVE  /\ s = {} => Iter(f, S)[s] = 0
         /\ s # {} => Iter(f, S)[s] = f[Pick(s)] + Iter(f, S)[s \ {Pick(s)}]
<1> DEFINE it == Iter(f, S)  p == Pick(s)
<1>1. Adds(f, SUBSET S, it) BY IterAdds
<1> HIDE DEF it
<1>2. it[s] = IF s = {} THEN 0 ELSE f[p] + it[s \ {p}] BY <1>1, Zenon DEF Adds
<1> HIDE DEF p
<1>3. (s = {} => it[s] = 0) /\ (s # {} => it[s] = f[p] + it[s \ {p}]) BY <1>2
<1> QED BY <1>3, Zenon DEF it, p

\* The fold of nothing.
LEMMA IterEmpty == ASSUME NEW f, NEW S, IsFiniteSet(S) PROVE Iter(f, S)[{}] = 0
<1>1. ASSUME NEW e \in SUBSET S, e = {} PROVE Iter(f, S)[e] = 0 BY <1>1, IterIs, Zenon
<1>2. {} \in SUBSET S OBVIOUS
<1> QED BY <1>1, <1>2

\* A sum of integers is an integer.
LEMMA IterType ==
  ASSUME NEW S, IsFiniteSet(S), NEW f \in [S -> Int]
  PROVE  \A s \in SUBSET S : Iter(f, S)[s] \in Int
<1> DEFINE T == {s \in SUBSET S : Iter(f, S)[s] \in Int}
<1>1. {} \in T
  <2>1. Iter(f, S)[{}] = 0 BY IterEmpty
  <2> QED BY <2>1
<1>2. ASSUME NEW s \in SUBSET S, s # {}, \A y \in s : s \ {y} \in T PROVE s \in T
  <2>1. Pick(s) \in s BY <1>2, Zenon DEF Pick
  <2>2. Iter(f, S)[s] = f[Pick(s)] + Iter(f, S)[s \ {Pick(s)}] BY <1>2, IterIs, SMT
  <2>3. f[Pick(s)] \in Int /\ Iter(f, S)[s \ {Pick(s)}] \in Int BY <1>2, <2>1
  <2>4. Iter(f, S)[s] \in Int BY <2>2, <2>3
  <2> QED BY <2>4
<1>3. SUBSET S \subseteq T
  <2> HIDE DEF T
  <2> QED BY <1>1, <1>2, SubsetInduction
<1> QED BY <1>3

\* Any element can be taken out first, whatever the order of the fold.
LEMMA IterRemove ==
  ASSUME NEW S, IsFiniteSet(S), NEW f \in [S -> Int], NEW s \in SUBSET S, NEW y \in s
  PROVE  Iter(f, S)[s] = f[y] + Iter(f, S)[s \ {y}]
<1> DEFINE T == {r \in SUBSET S : \A x \in r : Iter(f, S)[r] = f[x] + Iter(f, S)[r \ {x}]}
<1>1. {} \in T OBVIOUS
<1>2. ASSUME NEW r \in SUBSET S, r # {}, \A x \in r : r \ {x} \in T PROVE r \in T
  <2>1. Pick(r) \in r BY <1>2, Zenon DEF Pick
  <2>2. Iter(f, S)[r] = f[Pick(r)] + Iter(f, S)[r \ {Pick(r)}] BY <1>2, IterIs, SMT
  <2>3. ASSUME NEW x \in r, x # Pick(r) PROVE Iter(f, S)[r] = f[x] + Iter(f, S)[r \ {x}]
    <3> DEFINE p == Pick(r)
    <3>1. r \ {x} \in T /\ r \ {p} \in T BY <1>2, <2>1
    <3>2. Iter(f, S)[r \ {p}] = f[x] + Iter(f, S)[(r \ {p}) \ {x}] BY <3>1, <2>3
    <3>3. Iter(f, S)[r \ {x}] = f[p] + Iter(f, S)[(r \ {x}) \ {p}] BY <3>1, <2>1, <2>3
    <3>4. (r \ {p}) \ {x} = (r \ {x}) \ {p} OBVIOUS
    <3>5. Iter(f, S)[(r \ {p}) \ {x}] \in Int BY IterType
    <3>6. f[p] \in Int /\ f[x] \in Int BY <2>1
    <3> DEFINE a == Iter(f, S)[r]  b == Iter(f, S)[r \ {p}]  c == Iter(f, S)[r \ {x}]
               d == Iter(f, S)[(r \ {p}) \ {x}]
    <3>7. a = f[p] + b /\ b = f[x] + d /\ c = f[p] + d /\ d \in Int
      BY <2>2, <3>2, <3>3, <3>4, <3>5, Zenon
    <3>8. a = f[x] + c
      <4> HIDE DEF a, b, c, d, p
      <4> QED BY <3>6, <3>7
    <3> QED BY <3>8
  <2> QED BY <2>2, <2>3
<1>3. SUBSET S \subseteq T
  <2> HIDE DEF T
  <2> QED BY <1>1, <1>2, SubsetInduction
<1> QED BY <1>3

\* The sum over a set looks at the values on it only.
LEMMA IterLocal ==
  ASSUME NEW S, IsFiniteSet(S), NEW f, NEW R \in SUBSET S, NEW g, \A x \in R : f[x] = g[x]
  PROVE  \A s \in SUBSET R : Iter(f, S)[s] = Iter(g, R)[s]
<1> DEFINE T == {s \in SUBSET R : Iter(f, S)[s] = Iter(g, R)[s]}
<1>0. IsFiniteSet(R) BY FS_Subset
<1>1. {} \in T
  <2>1. Iter(f, S)[{}] = 0 BY IterEmpty
  <2>2. Iter(g, R)[{}] = 0 BY <1>0, IterEmpty
  <2> QED BY <2>1, <2>2
<1>2. ASSUME NEW s \in SUBSET R, s # {}, \A y \in s : s \ {y} \in T PROVE s \in T
  <2>1. Pick(s) \in s BY <1>2, Zenon DEF Pick
  <2>2. Iter(f, S)[s] = f[Pick(s)] + Iter(f, S)[s \ {Pick(s)}]
    <3>1. s \in SUBSET S OBVIOUS
    <3> QED BY <3>1, <1>2, IterIs, SMT
  <2>3. Iter(g, R)[s] = g[Pick(s)] + Iter(g, R)[s \ {Pick(s)}] BY <1>0, <1>2, IterIs, SMT
  <2>4. f[Pick(s)] = g[Pick(s)] /\ Iter(f, S)[s \ {Pick(s)}] = Iter(g, R)[s \ {Pick(s)}]
    BY <1>2, <2>1
  <2>5. Iter(f, S)[s] = Iter(g, R)[s] BY <2>2, <2>3, <2>4, Zenon
  <2> QED BY <2>5
<1>3. SUBSET R \subseteq T
  <2> HIDE DEF T
  <2> QED BY <1>0, <1>1, <1>2, SubsetInduction
<1> QED BY <1>3

\* The sum of no elements.
LEMMA SumEmpty == SumFunction(<<>>) = 0
<1>1. DOMAIN <<>> = {} OBVIOUS
<1>2. Iter(<<>>, {})[{}] = 0 BY FS_EmptySet, IterEmpty
<1> QED BY <1>1, <1>2, SumIsIter, Zenon

\* One more element.
LEMMA SumAppend ==
  ASSUME NEW f \in Seq(Int), NEW e \in Int
  PROVE  SumFunction(Append(f, e)) = SumFunction(f) + e
<1> DEFINE g == Append(f, e)  n == Len(f)
<1>1. /\ n \in Nat /\ f \in [1..n -> Int]
      /\ g \in [1..(n + 1) -> Int] /\ g[n + 1] = e /\ \A i \in 1..n : f[i] = g[i]
  <2>1. n \in Nat /\ f \in [1..n -> Int] BY LenProperties
  <2>2. g \in Seq(Int) /\ Len(g) = n + 1 /\ (\A i \in 1..n : g[i] = f[i]) /\ g[n + 1] = e
    BY AppendProperties
  <2>3. g \in [1..Len(g) -> Int]
    <3> HIDE DEF g
    <3> QED BY <2>2, LenProperties
  <2> HIDE DEF g, n
  <2> QED BY <2>1, <2>2, <2>3
<1>2. IsFiniteSet(1..n) /\ IsFiniteSet(1..(n + 1)) BY <1>1, FS_Interval
<1>3. 1..n \in SUBSET (1..(n + 1)) /\ n + 1 \in 1..(n + 1) /\ (1..(n + 1)) \ {n + 1} = 1..n
  BY <1>1
<1> HIDE DEF g, n
<1>4. Iter(g, 1..(n + 1))[1..(n + 1)] = g[n + 1] + Iter(g, 1..(n + 1))[1..n]
  <2> DEFINE m == 1..(n + 1)  x == n + 1
  <2>1. g \in [m -> Int] /\ IsFiniteSet(m) /\ m \in SUBSET m /\ x \in m BY <1>1, <1>2, <1>3
  <2>2. Iter(g, m)[m] = g[x] + Iter(g, m)[m \ {x}]
    <3> HIDE DEF m, x
    <3> QED BY <2>1, IterRemove
  <2> QED BY <2>2, <1>3
<1>5. Iter(g, 1..(n + 1))[1..n] = Iter(f, 1..n)[1..n]
  <2> DEFINE m == 1..(n + 1)  k == 1..n
  <2>1. k \in SUBSET m /\ IsFiniteSet(m) /\ (\A i \in k : g[i] = f[i]) /\ k \in SUBSET k
    BY <1>1, <1>2, <1>3
  <2>2. Iter(g, m)[k] = Iter(f, k)[k]
    <3> HIDE DEF m, k
    <3> QED BY <2>1, IterLocal
  <2> QED BY <2>2
<1>6. Iter(f, 1..n)[1..n] \in Int BY <1>1, <1>2, IterType
<1>7. SumFunction(g) = Iter(g, 1..(n + 1))[1..(n + 1)]
  <2>1. DOMAIN g = 1..(n + 1) BY <1>1
  <2> QED BY <2>1, SumIsIter
<1>8. SumFunction(f) = Iter(f, 1..n)[1..n]
  <2>1. DOMAIN f = 1..n BY <1>1
  <2> QED BY <2>1, SumIsIter
<1>9. SumFunction(g) = e + SumFunction(f) /\ SumFunction(f) \in Int
  BY <1>1, <1>4, <1>5, <1>6, <1>7, <1>8
<1> QED BY <1>9 DEF g

-----------------------------------------------------------------------------
(* Flattening a sequence of sequences.                                     *)

\* What FlattenSeq computes on the way: the concatenation of the first i sequences.
Concats(q, m, g) == g = [i \in 1..m |-> IF i = 1 THEN q[i] ELSE g[i - 1] \o q[i]]
Flat(q) == CHOOSE g : Concats(q, Len(q), g)

\* FlattenSeq is the last of the concatenations.
LEMMA FlattenIsFlat == ASSUME NEW q, Len(q) # 0 PROVE FlattenSeq(q) = Flat(q)[Len(q)]
  BY Zenon DEF FlattenSeq, Flat, Concats

\* The concatenations that the CHOOSE asks for exist.
LEMMA FlatConcats == ASSUME NEW q, Len(q) \in Nat PROVE Concats(q, Len(q), Flat(q))
<1> DEFINE N == {m \in Nat : \E g : Concats(q, m, g)}
<1>1. 0 \in N
  <2> DEFINE g == [i \in 1..0 |-> q]
  <2>1. Concats(q, 0, g) BY DEF Concats
  <2> QED BY <2>1
<1>2. ASSUME NEW m \in N \cap Nat PROVE m + 1 \in N
  <2>1. PICK g : Concats(q, m, g) OBVIOUS
  <2> DEFINE more == [i \in 1..(m + 1) |-> IF i = 1 THEN q[i] ELSE g[i - 1] \o q[i]]
  <2>2. ASSUME NEW i \in 1..m PROVE more[i] = g[i]
    <3> DEFINE e(k) == IF k = 1 THEN q[k] ELSE g[k - 1] \o q[k]
    <3>1. g = [k \in 1..m |-> e(k)] BY <2>1 DEF Concats
    <3>2. more = [k \in 1..(m + 1) |-> e(k)] OBVIOUS
    <3>3. i \in 1..(m + 1) OBVIOUS
    <3> HIDE DEF e, more
    <3>4. g[i] = e(i) BY <3>1
    <3>5. more[i] = e(i) BY <3>2, <3>3
    <3> QED BY <3>4, <3>5
  <2>3. ASSUME NEW i \in 1..(m + 1)
        PROVE  more[i] = IF i = 1 THEN q[i] ELSE more[i - 1] \o q[i]
    <3>1. CASE i = 1 BY <3>1
    <3>2. CASE i # 1
      <4>1. i - 1 \in 1..m BY <3>2
      <4>2. more[i - 1] = g[i - 1] BY <2>2, <4>1
      <4>3. more[i] = g[i - 1] \o q[i] BY <3>2
      <4> HIDE DEF more
      <4> QED BY <3>2, <4>2, <4>3
    <3> QED BY <3>1, <3>2
  <2>4. \E any : Concats(q, m + 1, any)
    <3>1. more = [i \in 1..(m + 1) |-> more[i]] OBVIOUS
    <3> HIDE DEF more
    <3>2. Concats(q, m + 1, more) BY <2>3, <3>1 DEF Concats
    <3> QED BY <3>2
  <2> QED BY <2>4
<1>3. Nat \subseteq N
  <2> HIDE DEF N
  <2> QED BY <1>1, <1>2, NatByCases
<1>4. \E g : Concats(q, Len(q), g) BY <1>3
<1> QED BY <1>4, Zenon DEF Flat

\* One more concatenation.
LEMMA FlatIs ==
  ASSUME NEW q, Len(q) \in Nat
  PROVE  /\ Len(q) # 0 => Flat(q)[1] = q[1]
         /\ \A i \in Nat \ {0} : i < Len(q) => Flat(q)[i + 1] = Flat(q)[i] \o q[i + 1]
<1> DEFINE g == Flat(q)  m == Len(q)  e(k) == IF k = 1 THEN q[k] ELSE g[k - 1] \o q[k]
<1>1. g = [k \in 1..m |-> e(k)] BY FlatConcats DEF Concats
<1> HIDE DEF g, m, e
<1>2. \A k \in 1..m : g[k] = e(k) BY <1>1
<1>3. m # 0 => g[1] = q[1] BY <1>2 DEF e, m
<1>4. ASSUME NEW i \in Nat \ {0}, i < m PROVE g[i + 1] = g[i] \o q[i + 1]
  <2>1. i + 1 \in 1..m /\ i + 1 # 1 /\ (i + 1) - 1 = i BY <1>4 DEF m
  <2>2. g[i + 1] = e(i + 1) BY <1>2, <2>1
  <2> QED BY <2>1, <2>2, Zenon DEF e
<1> QED BY <1>3, <1>4 DEF g, m

\* They are sequences of the same elements.
LEMMA FlatType ==
  ASSUME NEW S, NEW q \in Seq(Seq(S))
  PROVE  \A i \in 1..Len(q) : Flat(q)[i] \in Seq(S)
<1> DEFINE N == {i \in Nat : i \in 1..Len(q) => Flat(q)[i] \in Seq(S)}
<1>1. 0 \in N OBVIOUS
<1>2. ASSUME NEW i \in N \cap Nat PROVE i + 1 \in N
  <2> SUFFICES ASSUME i + 1 \in 1..Len(q) PROVE Flat(q)[i + 1] \in Seq(S) OBVIOUS
  <2>1. q[i + 1] \in Seq(S) /\ Len(q) \in Nat /\ Len(q) # 0 /\ i < Len(q) OBVIOUS
  <2>2. CASE i = 0
    <3>1. Flat(q)[1] = q[1] BY <2>1, <2>2, FlatIs
    <3> QED BY <2>1, <2>2, <3>1
  <2>3. CASE i # 0
    <3>0. i \in Nat \ {0} BY <2>3
    <3>1. Flat(q)[i + 1] = Flat(q)[i] \o q[i + 1] BY <2>1, <3>0, FlatIs
    <3>2. Flat(q)[i] \in Seq(S) BY <2>3
    <3> QED BY <2>1, <3>1, <3>2
  <2> QED BY <2>2, <2>3
<1>3. Nat \subseteq N
  <2> HIDE DEF N
  <2> QED BY <1>1, <1>2, NatByCases
<1> QED BY <1>3

\* Flattening nothing.
LEMMA FlattenEmpty == FlattenSeq(<<>>) = <<>>
  BY DEF FlattenSeq

\* Flattening keeps the elements' type.
LEMMA FlattenType == ASSUME NEW S, NEW q \in Seq(Seq(S)) PROVE FlattenSeq(q) \in Seq(S)
<1>1. CASE q = <<>>
  <2>1. FlattenSeq(q) = <<>> BY <1>1, FlattenEmpty
  <2>2. <<>> \in Seq(S) OBVIOUS
  <2> QED BY <2>1, <2>2
<1>2. CASE q # <<>>
  <2>1. Len(q) \in Nat \ {0} BY <1>2, EmptySeq
  <2>2. Len(q) \in 1..Len(q) BY <2>1
  <2> QED BY <2>1, <2>2, FlattenIsFlat, FlatType
<1> QED BY <1>1, <1>2

\* Flattening one sequence more appends it.
LEMMA FlattenAppend ==
  ASSUME NEW S, NEW q \in Seq(Seq(S)), NEW s \in Seq(S)
  PROVE  FlattenSeq(Append(q, s)) = FlattenSeq(q) \o s
<1> DEFINE r == Append(q, s)  n == Len(q)
<1>1. /\ n \in Nat /\ r \in Seq(Seq(S)) /\ Len(r) = n + 1
      /\ \A i \in 1..n : r[i] = q[i]
      /\ r[n + 1] = s
  BY AppendProperties, LenProperties
<1>2. \A i \in 1..n : Flat(r)[i] = Flat(q)[i]
  <2> DEFINE N == {i \in Nat : i \in 1..n => Flat(r)[i] = Flat(q)[i]}
  <2> HIDE DEF r
  <2>1. 0 \in N OBVIOUS
  <2>2. ASSUME NEW i \in N \cap Nat PROVE i + 1 \in N
    <3> SUFFICES ASSUME i + 1 \in 1..n PROVE Flat(r)[i + 1] = Flat(q)[i + 1] OBVIOUS
    <3>1. i < Len(q) /\ i < Len(r) /\ Len(q) \in Nat /\ Len(r) \in Nat /\ r[i + 1] = q[i + 1]
      BY <1>1
    <3>2. CASE i = 0
      <4>1. Len(q) # 0 /\ Len(r) # 0 BY <3>1, <3>2
      <4>2. Flat(r)[1] = r[1] BY <3>1, <4>1, FlatIs
      <4>3. Flat(q)[1] = q[1] BY <3>1, <4>1, FlatIs
      <4>4. r[1] = q[1] BY <3>1, <3>2
      <4> QED BY <3>2, <4>2, <4>3, <4>4
    <3>3. CASE i # 0
      <4>0. i \in Nat \ {0} BY <3>3
      <4>1. Flat(r)[i + 1] = Flat(r)[i] \o r[i + 1] BY <3>1, <4>0, FlatIs
      <4>2. Flat(q)[i + 1] = Flat(q)[i] \o q[i + 1] BY <3>1, <4>0, FlatIs
      <4>3. Flat(r)[i] = Flat(q)[i] BY <3>3
      <4> QED BY <3>1, <4>1, <4>2, <4>3
    <3> QED BY <3>2, <3>3
  <2>3. Nat \subseteq N
    <3> HIDE DEF N
    <3> QED BY <2>1, <2>2, NatByCases
  <2> QED BY <2>3
<1>3. FlattenSeq(r) = Flat(r)[n + 1]
  <2> HIDE DEF r, n
  <2> QED BY <1>1, FlattenIsFlat
<1>4. CASE n = 0
  <2>1. q = <<>> BY <1>4
  <2>2. FlattenSeq(q) = <<>> BY <2>1, FlattenEmpty
  <2>3. Flat(r)[1] = r[1]
    <3>1. Len(r) \in Nat /\ Len(r) # 0 BY <1>1, <1>4
    <3> HIDE DEF r
    <3> QED BY <3>1, FlatIs
  <2>4. FlattenSeq(r) = s
    <3> HIDE DEF r, n
    <3> QED BY <1>1, <1>3, <1>4, <2>3
  <2> QED BY <2>2, <2>4
<1>5. CASE n # 0
  <2>1. FlattenSeq(q) = Flat(q)[n] BY <1>5, FlattenIsFlat
  <2> HIDE DEF r
  <2>2. n \in Nat \ {0} /\ n < Len(r) /\ Len(r) \in Nat /\ n \in 1..n BY <1>1, <1>5
  <2>3. Flat(r)[n + 1] = Flat(r)[n] \o r[n + 1]
    <3> HIDE DEF n
    <3> QED BY <2>2, FlatIs
  <2>4. Flat(r)[n] = Flat(q)[n] BY <1>2, <2>2
  <2>5. FlattenSeq(r) = FlattenSeq(q) \o s
    <3> HIDE DEF n
    <3> QED BY <1>1, <1>3, <2>1, <2>3, <2>4
  <2> QED BY <2>5 DEF r
<1> QED BY <1>4, <1>5

-----------------------------------------------------------------------------
(* Weights: sums over a sequence of what a function gives its elements.    *)

\* The sum of w over the elements of s.
Weight(s, w) == SumFunction([k \in DOMAIN s |-> w[s[k]]])

\* The weight of no elements.
LEMMA WeightEmpty == ASSUME NEW w PROVE Weight(<<>>, w) = 0
<1>1. [k \in DOMAIN <<>> |-> w[<<>>[k]]] = <<>> OBVIOUS
<1> QED BY <1>1, SumEmpty DEF Weight

\* The weight of one element more.
LEMMA WeightAppend ==
  ASSUME NEW S, NEW w, \A e \in S : w[e] \in Int, NEW s \in Seq(S), NEW e \in S
  PROVE  Weight(Append(s, e), w) = Weight(s, w) + w[e]
<1> DEFINE f == [k \in DOMAIN s |-> w[s[k]]]
           g == [k \in DOMAIN Append(s, e) |-> w[Append(s, e)[k]]]
<1>1. f \in Seq(Int) /\ Len(f) = Len(s) OBVIOUS
<1>2. g \in Seq(Int) /\ Len(g) = Len(s) + 1
  <2>1. Append(s, e) \in Seq(S) /\ Len(Append(s, e)) = Len(s) + 1 BY AppendProperties
  <2> DEFINE r == Append(s, e)
  <2> HIDE DEF r
  <2>2. [k \in DOMAIN r |-> w[r[k]]] \in Seq(Int) /\ Len([k \in DOMAIN r |-> w[r[k]]]) = Len(r)
    BY <2>1 DEF r
  <2> QED BY <2>1, <2>2 DEF r
<1>3. Append(f, w[e]) \in Seq(Int) /\ Len(Append(f, w[e])) = Len(s) + 1 BY <1>1
<1>4. ASSUME NEW k \in 1..(Len(s) + 1) PROVE g[k] = Append(f, w[e])[k]
  <2>1. DOMAIN Append(s, e) = 1..(Len(s) + 1) BY AppendProperties, LenProperties
  <2>2. g[k] = w[Append(s, e)[k]] BY <2>1
  <2>3. Append(s, e)[k] = IF k = Len(s) + 1 THEN e ELSE s[k] OBVIOUS
  <2>4. Append(f, w[e])[k] = IF k = Len(s) + 1 THEN w[e] ELSE w[s[k]]
    <3>1. k # Len(s) + 1 => f[k] = w[s[k]] OBVIOUS
    <3> HIDE DEF f
    <3> QED BY <1>1, <3>1
  <2> HIDE DEF g, f
  <2> QED BY <2>2, <2>3, <2>4
<1>5. g = Append(f, w[e])
  <2> HIDE DEF f, g
  <2> QED BY <1>2, <1>3, <1>4, SeqEqual
<1>6. SumFunction(g) = SumFunction(f) + w[e]
  <2> HIDE DEF f, g
  <2> QED BY <1>1, <1>5, SumAppend
<1> QED BY <1>6 DEF Weight

\* A weight is an integer.
LEMMA WeightType ==
  ASSUME NEW S, NEW w, \A e \in S : w[e] \in Int
  PROVE  \A s \in Seq(S) : Weight(s, w) \in Int
<1> DEFINE T == {s \in Seq(S) : Weight(s, w) \in Int}
<1>1. <<>> \in T BY WeightEmpty
<1>2. ASSUME NEW s \in Seq(S), NEW e \in S, s \in T PROVE Append(s, e) \in T
  <2>1. Weight(Append(s, e), w) = Weight(s, w) + w[e] BY WeightAppend
  <2> QED BY <1>2, <2>1
<1>3. Seq(S) \subseteq T
  <2> HIDE DEF T
  <2> QED BY <1>1, <1>2, SeqInduction
<1> QED BY <1>3

\* Weights add up: two ways to count an element, and their sum.
LEMMA WeightAdd ==
  ASSUME NEW S
  PROVE  \A u, v, w \in [S -> Int] : (\A e \in S : w[e] = u[e] + v[e]) =>
            \A s \in Seq(S) : Weight(s, w) = Weight(s, u) + Weight(s, v)
<1> SUFFICES ASSUME NEW u \in [S -> Int], NEW v \in [S -> Int], NEW w \in [S -> Int],
                    \A e \in S : w[e] = u[e] + v[e]
    PROVE \A s \in Seq(S) : Weight(s, w) = Weight(s, u) + Weight(s, v)
  OBVIOUS
<1> DEFINE T == {s \in Seq(S) : Weight(s, w) = Weight(s, u) + Weight(s, v)}
<1>1. <<>> \in T BY WeightEmpty
<1>2. ASSUME NEW s \in Seq(S), NEW e \in S, s \in T PROVE Append(s, e) \in T
  <2>1. Weight(Append(s, e), w) = Weight(s, w) + w[e] BY WeightAppend
  <2>2. Weight(Append(s, e), u) = Weight(s, u) + u[e] BY WeightAppend
  <2>3. Weight(Append(s, e), v) = Weight(s, v) + v[e] BY WeightAppend
  <2>4. {Weight(s, w), Weight(s, u), Weight(s, v)} \subseteq Int BY WeightType
  <2> QED BY <1>2, <2>1, <2>2, <2>3, <2>4
<1>3. Seq(S) \subseteq T
  <2> HIDE DEF T
  <2> QED BY <1>1, <1>2, SeqInduction
<1> QED BY <1>3

\* What counts each element for less counts the sequence for no more.
LEMMA WeightLeq ==
  ASSUME NEW S
  PROVE  \A u, v \in [S -> Int] : (\A e \in S : u[e] <= v[e]) =>
            \A s \in Seq(S) : Weight(s, u) <= Weight(s, v)
<1> SUFFICES ASSUME NEW u \in [S -> Int], NEW v \in [S -> Int], \A e \in S : u[e] <= v[e]
    PROVE \A s \in Seq(S) : Weight(s, u) <= Weight(s, v)
  OBVIOUS
<1> DEFINE T == {s \in Seq(S) : Weight(s, u) <= Weight(s, v)}
<1>1. <<>> \in T BY WeightEmpty
<1>2. ASSUME NEW s \in Seq(S), NEW e \in S, s \in T PROVE Append(s, e) \in T
  <2>2. Weight(Append(s, e), u) = Weight(s, u) + u[e] BY WeightAppend
  <2>3. Weight(Append(s, e), v) = Weight(s, v) + v[e] BY WeightAppend
  <2>4. {Weight(s, u), Weight(s, v)} \subseteq Int BY WeightType
  <2> QED BY <1>2, <2>2, <2>3, <2>4
<1>3. Seq(S) \subseteq T
  <2> HIDE DEF T
  <2> QED BY <1>1, <1>2, SeqInduction
<1> QED BY <1>3

\* The weight looks at the elements of the sequence only.
LEMMA WeightEqual ==
  ASSUME NEW S
  PROVE  \A u, v : (\A e \in S : u[e] = v[e]) => \A s \in Seq(S) : Weight(s, u) = Weight(s, v)
<1> SUFFICES ASSUME NEW u, NEW v, \A e \in S : u[e] = v[e], NEW s \in Seq(S)
             PROVE Weight(s, u) = Weight(s, v)
  OBVIOUS
<1>1. [k \in DOMAIN s |-> u[s[k]]] = [k \in DOMAIN s |-> v[s[k]]] OBVIOUS
<1> QED BY <1>1 DEF Weight

\* What counts for nothing adds up to nothing.
LEMMA WeightZero ==
  ASSUME NEW S, NEW w, \A e \in S : w[e] = 0
  PROVE  \A s \in Seq(S) : Weight(s, w) = 0
<1> DEFINE T == {s \in Seq(S) : Weight(s, w) = 0}
<1>1. <<>> \in T BY WeightEmpty
<1>2. ASSUME NEW s \in Seq(S), NEW e \in S, s \in T PROVE Append(s, e) \in T
  <2>1. Weight(Append(s, e), w) = Weight(s, w) + w[e] BY WeightAppend
  <2> QED BY <1>2, <2>1
<1>3. Seq(S) \subseteq T
  <2> HIDE DEF T
  <2> QED BY <1>1, <1>2, SeqInduction
<1> QED BY <1>3

\* What never counts for less than nothing adds up to no less.
LEMMA WeightNat ==
  ASSUME NEW S, NEW w, \A e \in S : w[e] \in Nat
  PROVE  \A s \in Seq(S) : Weight(s, w) \in Nat
<1> DEFINE T == {s \in Seq(S) : Weight(s, w) \in Nat}
<1>1. <<>> \in T BY WeightEmpty
<1>2. ASSUME NEW s \in Seq(S), NEW e \in S, s \in T PROVE Append(s, e) \in T
  <2>1. Weight(Append(s, e), w) = Weight(s, w) + w[e] BY WeightAppend
  <2> QED BY <1>2, <2>1
<1>3. Seq(S) \subseteq T
  <2> HIDE DEF T
  <2> QED BY <1>1, <1>2, SeqInduction
<1> QED BY <1>3

\* It then adds up to no less than any of its elements.
LEMMA WeightAtLeast ==
  ASSUME NEW S, NEW w, \A e \in S : w[e] \in Nat
  PROVE  \A s \in Seq(S) : \A k \in 1..Len(s) : w[s[k]] <= Weight(s, w)
<1> DEFINE T == {s \in Seq(S) : \A k \in 1..Len(s) : w[s[k]] <= Weight(s, w)}
<1>1. <<>> \in T OBVIOUS
<1>2. ASSUME NEW s \in Seq(S), NEW e \in S, s \in T PROVE Append(s, e) \in T
  <2>1. Weight(Append(s, e), w) = Weight(s, w) + w[e] BY WeightAppend
  <2>2. Weight(s, w) \in Nat BY WeightNat
  <2>3. ASSUME NEW k \in 1..Len(Append(s, e))
        PROVE  w[Append(s, e)[k]] <= Weight(Append(s, e), w)
    <3>1. CASE k \in 1..Len(s)
      <4>1. Append(s, e)[k] = s[k] BY <3>1
      <4>2. w[s[k]] <= Weight(s, w) /\ w[s[k]] \in Nat /\ w[e] \in Nat BY <1>2, <3>1
      <4> QED BY <2>1, <2>2, <4>1, <4>2
    <3>2. CASE k = Len(s) + 1
      <4>1. Append(s, e)[k] = e BY <3>2
      <4>2. w[e] \in Nat OBVIOUS
      <4> QED BY <2>1, <2>2, <4>1, <4>2
    <3> QED BY <3>1, <3>2
  <2>4. Append(s, e) \in Seq(S) OBVIOUS
  <2> QED BY <2>3, <2>4
<1>3. Seq(S) \subseteq T
  <2> HIDE DEF T
  <2> QED BY <1>1, <1>2, SeqInduction
<1> QED BY <1>3

\* The weight of one element.
LEMMA WeightOne == ASSUME NEW w, NEW e, w[e] \in Int PROVE Weight(<<e>>, w) = w[e]
<1>1. Weight(Append(<<>>, e), w) = Weight(<<>>, w) + w[e]
  <2>1. \A x \in {e} : w[x] \in Int OBVIOUS
  <2>2. <<>> \in Seq({e}) OBVIOUS
  <2> QED BY <2>1, <2>2, WeightAppend
<1>2. Append(<<>>, e) = <<e>> OBVIOUS
<1> QED BY <1>1, <1>2, WeightEmpty

\* The weight of two sequences, one after the other.
LEMMA WeightConcat ==
  ASSUME NEW S, NEW w, \A e \in S : w[e] \in Int, NEW s \in Seq(S)
  PROVE  \A t \in Seq(S) : Weight(s \o t, w) = Weight(s, w) + Weight(t, w)
<1> DEFINE T == {t \in Seq(S) : Weight(s \o t, w) = Weight(s, w) + Weight(t, w)}
<1>1. <<>> \in T
  <2>1. s \o <<>> = s OBVIOUS
  <2>2. Weight(s, w) \in Int BY WeightType
  <2>3. Weight(s \o <<>>, w) = Weight(s, w) + Weight(<<>>, w) BY <2>1, <2>2, WeightEmpty
  <2> QED BY <2>3
<1>2. ASSUME NEW t \in Seq(S), NEW e \in S, t \in T PROVE Append(t, e) \in T
  <2>1. s \o Append(t, e) = Append(s \o t, e)
    <3>1. Append(t, e) = t \o <<e>> BY AppendIsConcat
    <3>2. Append(s \o t, e) = (s \o t) \o <<e>> BY AppendIsConcat, ConcatProperties
    <3>3. <<e>> \in Seq(S) OBVIOUS
    <3> QED BY <3>1, <3>2, <3>3, ConcatAssociative
  <2>2. s \o t \in Seq(S) BY ConcatProperties
  <2>3. Weight(Append(s \o t, e), w) = Weight(s \o t, w) + w[e] BY <2>2, WeightAppend
  <2>4. Weight(Append(t, e), w) = Weight(t, w) + w[e] BY WeightAppend
  <2>5. Weight(s, w) \in Int /\ Weight(t, w) \in Int /\ w[e] \in Int BY WeightType
  <2>6. Weight(s \o t, w) = Weight(s, w) + Weight(t, w) BY <1>2
  <2>7. Weight(s \o Append(t, e), w) = Weight(s, w) + Weight(Append(t, e), w)
    BY <2>1, <2>3, <2>4, <2>5, <2>6
  <2> QED BY <2>7
<1>3. Seq(S) \subseteq T
  <2> HIDE DEF T
  <2> QED BY <1>1, <1>2, SeqInduction
<1> QED BY <1>3

\* The weight of a flattened sequence is that of its parts.
LEMMA WeightFlatten ==
  ASSUME NEW S, NEW w, \A e \in S : w[e] \in Int
  PROVE  \A q \in Seq(Seq(S)) :
            Weight(FlattenSeq(q), w) = Weight(q, [s \in Seq(S) |-> Weight(s, w)])
<1> DEFINE v == [s \in Seq(S) |-> Weight(s, w)]
           T == {q \in Seq(Seq(S)) : Weight(FlattenSeq(q), w) = Weight(q, v)}
<1>1. <<>> \in T BY FlattenEmpty, WeightEmpty
<1>2. ASSUME NEW q \in Seq(Seq(S)), NEW s \in Seq(S), q \in T PROVE Append(q, s) \in T
  <2>1. FlattenSeq(Append(q, s)) = FlattenSeq(q) \o s BY FlattenAppend
  <2>2. Weight(FlattenSeq(q) \o s, w) = Weight(FlattenSeq(q), w) + Weight(s, w)
    BY FlattenType, WeightConcat
  <2>3. \A x \in Seq(S) : v[x] \in Int BY WeightType
  <2>4. Weight(Append(q, s), v) = Weight(q, v) + v[s]
    <3> HIDE DEF v
    <3> QED BY <2>3, WeightAppend
  <2>5. v[s] = Weight(s, w) OBVIOUS
  <2>6. Weight(FlattenSeq(Append(q, s)), w) = Weight(Append(q, s), v)
    BY <1>2, <2>1, <2>2, <2>4, <2>5
  <2>7. Append(q, s) \in Seq(Seq(S)) OBVIOUS
  <2> QED BY <2>6, <2>7
<1>3. Seq(Seq(S)) \subseteq T
  <2> HIDE DEF T
  <2> QED BY <1>1, <1>2, SeqInduction
<1> QED BY <1>3

\* The elements of a flattened sequence are those of its parts.
LEMMA FlattenElements ==
  ASSUME NEW S
  PROVE  \A q \in Seq(Seq(S)) :
            ToSet(FlattenSeq(q)) = UNION {ToSet(q[i]) : i \in 1..Len(q)}
<1> DEFINE T == {q \in Seq(Seq(S)) :
                   ToSet(FlattenSeq(q)) = UNION {ToSet(q[i]) : i \in 1..Len(q)}}
<1>1. <<>> \in T BY FlattenEmpty DEF ToSet
<1>2. ASSUME NEW q \in Seq(Seq(S)), NEW s \in Seq(S), q \in T PROVE Append(q, s) \in T
  <2> DEFINE r == Append(q, s)
  <2>1. FlattenSeq(r) = FlattenSeq(q) \o s BY FlattenAppend
  <2>2. ToSet(FlattenSeq(q) \o s) = ToSet(FlattenSeq(q)) \cup ToSet(s)
    <3>1. FlattenSeq(q) \in Seq(S) BY FlattenType
    <3>2. \A x : ToSet(x) = Range(x) BY DEF ToSet, Range
    <3>3. Range(FlattenSeq(q) \o s) = Range(FlattenSeq(q)) \cup Range(s)
      BY <3>1, RangeConcatenation
    <3> QED BY <3>2, <3>3
  <2>3. /\ r \in Seq(Seq(S)) /\ Len(r) = Len(q) + 1 /\ r[Len(q) + 1] = s
        /\ \A i \in 1..Len(q) : r[i] = q[i]
    OBVIOUS
  <2>4. UNION {ToSet(r[i]) : i \in 1..Len(r)} =
          (UNION {ToSet(q[i]) : i \in 1..Len(q)}) \cup ToSet(s)
    <3> HIDE DEF r, T
    <3>1. 1..Len(r) = (1..Len(q)) \cup {Len(q) + 1} /\ Len(q) \in Nat BY <2>3
    <3>2. {ToSet(r[i]) : i \in 1..Len(r)} = {ToSet(q[i]) : i \in 1..Len(q)} \cup {ToSet(s)}
      <4> DEFINE m == Len(q) + 1  k == 1..Len(q)
      <4>1. 1..Len(r) = k \cup {m} /\ r[m] = s /\ (\A i \in k : r[i] = q[i]) BY <2>3, <3>1
      <4> HIDE DEF m, k
      <4>2. {ToSet(r[i]) : i \in k \cup {m}} = {ToSet(q[i]) : i \in k} \cup {ToSet(s)} BY <4>1
      <4> QED BY <4>1, <4>2 DEF k
    <3> QED BY <3>2
  <2>5. ToSet(FlattenSeq(r)) = UNION {ToSet(r[i]) : i \in 1..Len(r)}
    <3> HIDE DEF r
    <3> QED BY <1>2, <2>1, <2>2, <2>4
  <2> QED BY <2>3, <2>5
<1>3. Seq(Seq(S)) \subseteq T
  <2> HIDE DEF T
  <2> QED BY <1>1, <1>2, SeqInduction
<1> QED BY <1>3

\* A sum over the invoices, the lines or the entries is a weight.
LEMMA WeightsSum ==
  ASSUME NEW S, NEW w, NEW s \in Seq(S), NEW f,
         f = [i \in DOMAIN s |-> f[i]], \A i \in DOMAIN s : f[i] = w[s[i]]
  PROVE  SumFunction(f) = Weight(s, w)
<1>1. f = [i \in DOMAIN s |-> w[s[i]]] OBVIOUS
<1> QED BY <1>1 DEF Weight

\* A sequence with one element more, told by its elements.
LEMMA Grow ==
  ASSUME NEW S, NEW r \in Seq(S), NEW e \in S, NEW t \in Seq(S), Len(t) = Len(r) + 1,
         \A k \in 1..Len(r) : t[k] = r[k], t[Len(r) + 1] = e
  PROVE  Append(r, e) = t
<1>1. Append(r, e) \in Seq(S) /\ Len(Append(r, e)) = Len(t) BY AppendProperties
<1>2. ASSUME NEW k \in 1..Len(t) PROVE Append(r, e)[k] = t[k]
  <2>1. Append(r, e)[k] = IF k = Len(r) + 1 THEN e ELSE r[k] OBVIOUS
  <2> QED BY <2>1
<1> QED BY <1>1, <1>2, SeqEqual

\* A tuple of two elements is built by Append.
LEMMA Two ==
  ASSUME NEW S, NEW a \in S, NEW b \in S
  PROVE  Append(<<a>>, b) = <<a, b>>
<1> DEFINE r == <<a>>  t == <<a, b>>
<1>1. r \in Seq(S) /\ Len(r) = 1 /\ r[1] = a OBVIOUS
<1>2. t \in Seq(S) /\ Len(t) = 2 /\ t[1] = a /\ t[2] = b OBVIOUS
<1> HIDE DEF r, t
<1>3. Len(t) = Len(r) + 1 /\ t[Len(r) + 1] = b BY <1>1, <1>2
<1>4. \A k \in 1..Len(r) : t[k] = r[k] BY <1>1, <1>2
<1> QED BY <1>1, <1>2, <1>3, <1>4, Grow DEF r, t

\* Three elements.
LEMMA Three ==
  ASSUME NEW S, NEW a \in S, NEW b \in S, NEW c \in S
  PROVE  Append(<<a, b>>, c) = <<a, b, c>>
<1> DEFINE r == <<a, b>>  t == <<a, b, c>>
<1>1. r \in Seq(S) /\ Len(r) = 2 /\ r[1] = a /\ r[2] = b OBVIOUS
<1>2. t \in Seq(S) /\ Len(t) = 3 /\ t[1] = a /\ t[2] = b /\ t[3] = c OBVIOUS
<1> HIDE DEF r, t
<1>3. Len(t) = Len(r) + 1 /\ t[Len(r) + 1] = c BY <1>1, <1>2
<1>4. \A k \in 1..Len(r) : t[k] = r[k] BY <1>1, <1>2
<1> QED BY <1>1, <1>2, <1>3, <1>4, Grow DEF r, t

\* Four elements.
LEMMA Four ==
  ASSUME NEW S, NEW a \in S, NEW b \in S, NEW c \in S, NEW d \in S
  PROVE  Append(<<a, b, c>>, d) = <<a, b, c, d>>
<1> DEFINE r == <<a, b, c>>  t == <<a, b, c, d>>
<1>1. r \in Seq(S) /\ Len(r) = 3 /\ r[1] = a /\ r[2] = b /\ r[3] = c OBVIOUS
<1>2. t \in Seq(S) /\ Len(t) = 4 /\ t[1] = a /\ t[2] = b /\ t[3] = c /\ t[4] = d OBVIOUS
<1> HIDE DEF r, t
<1>3. Len(t) = Len(r) + 1 /\ t[Len(r) + 1] = d BY <1>1, <1>2
<1>4. \A k \in 1..Len(r) : t[k] = r[k] BY <1>1, <1>2
<1> QED BY <1>1, <1>2, <1>3, <1>4, Grow DEF r, t

\* Five elements.
LEMMA Five ==
  ASSUME NEW S, NEW a \in S, NEW b \in S, NEW c \in S, NEW d \in S, NEW f \in S
  PROVE  Append(<<a, b, c, d>>, f) = <<a, b, c, d, f>>
<1> DEFINE r == <<a, b, c, d>>  t == <<a, b, c, d, f>>
<1>1. r \in Seq(S) /\ Len(r) = 4 /\ r[1] = a /\ r[2] = b /\ r[3] = c /\ r[4] = d OBVIOUS
<1>2. t \in Seq(S) /\ Len(t) = 5 /\ t[1] = a /\ t[2] = b /\ t[3] = c /\ t[4] = d /\ t[5] = f OBVIOUS
<1> HIDE DEF r, t
<1>3. Len(t) = Len(r) + 1 /\ t[Len(r) + 1] = f BY <1>1, <1>2
<1>4. \A k \in 1..Len(r) : t[k] = r[k] BY <1>1, <1>2
<1> QED BY <1>1, <1>2, <1>3, <1>4, Grow DEF r, t

\* The weights of two elements.
LEMMA Weight2 ==
  ASSUME NEW S, NEW w, \A e \in S : w[e] \in Int,
         NEW a \in S, NEW b \in S
  PROVE  Weight(<<a, b>>, w) = w[a] + w[b]
<1>1. <<a>> \in Seq(S) OBVIOUS
<1>2. Weight(Append(<<a>>, b), w) = Weight(<<a>>, w) + w[b] BY <1>1, WeightAppend
<1> QED BY <1>2, Two, WeightOne

\* Three weights.
LEMMA Weight3 ==
  ASSUME NEW S, NEW w, \A e \in S : w[e] \in Int,
         NEW a \in S, NEW b \in S, NEW c \in S
  PROVE  Weight(<<a, b, c>>, w) = w[a] + w[b] + w[c]
<1>1. <<a, b>> \in Seq(S) OBVIOUS
<1>2. Weight(Append(<<a, b>>, c), w) = Weight(<<a, b>>, w) + w[c] BY <1>1, WeightAppend
<1> QED BY <1>2, Three, Weight2

\* Four weights.
LEMMA Weight4 ==
  ASSUME NEW S, NEW w, \A e \in S : w[e] \in Int,
         NEW a \in S, NEW b \in S, NEW c \in S, NEW d \in S
  PROVE  Weight(<<a, b, c, d>>, w) = w[a] + w[b] + w[c] + w[d]
<1>1. <<a, b, c>> \in Seq(S) OBVIOUS
<1>2. Weight(Append(<<a, b, c>>, d), w) = Weight(<<a, b, c>>, w) + w[d] BY <1>1, WeightAppend
<1>3. Append(<<a, b, c>>, d) = <<a, b, c, d>> BY Four
<1>4. Weight(<<a, b, c>>, w) = w[a] + w[b] + w[c] BY Weight3
<1> QED BY <1>2, <1>3, <1>4, Zenon

\* Five weights.
LEMMA Weight5 ==
  ASSUME NEW S, NEW w, \A e \in S : w[e] \in Int,
         NEW a \in S, NEW b \in S, NEW c \in S, NEW d \in S, NEW f \in S
  PROVE  Weight(<<a, b, c, d, f>>, w) = w[a] + w[b] + w[c] + w[d] + w[f]
<1>1. <<a, b, c, d>> \in Seq(S) OBVIOUS
<1>2. Weight(Append(<<a, b, c, d>>, f), w) = Weight(<<a, b, c, d>>, w) + w[f] BY <1>1, WeightAppend
<1>3. Append(<<a, b, c, d>>, f) = <<a, b, c, d, f>> BY Five
<1>4. Weight(<<a, b, c, d>>, w) = w[a] + w[b] + w[c] + w[d] BY Weight4
<1> QED BY <1>2, <1>3, <1>4, Zenon

\* Nothing adds up to nothing.
LEMMA SumZero == ASSUME NEW s \in Seq({0}) PROVE SumFunction(s) = 0
<1> DEFINE w == [e \in {0} |-> 0]
<1>1. Weight(s, w) = 0 BY WeightZero
<1>2. SumFunction(s) = Weight(s, w)
  <2>1. s = [i \in DOMAIN s |-> s[i]] OBVIOUS
  <2>2. \A i \in DOMAIN s : s[i] = w[s[i]] OBVIOUS
  <2> HIDE DEF w
  <2> QED BY <2>1, <2>2, WeightsSum
<1> QED BY <1>1, <1>2

\* A sum of integers is one.
LEMMA SumType == ASSUME NEW s \in Seq(Int) PROVE SumFunction(s) \in Int
<1> DEFINE w == [e \in Int |-> e]
<1>1. Weight(s, w) \in Int
  <2>1. \A e \in Int : w[e] \in Int OBVIOUS
  <2> HIDE DEF w
  <2> QED BY <2>1, WeightType
<1>2. SumFunction(s) = Weight(s, w)
  <2>1. s = [i \in DOMAIN s |-> s[i]] OBVIOUS
  <2>2. \A i \in DOMAIN s : s[i] = w[s[i]] OBVIOUS
  <2> HIDE DEF w
  <2> QED BY <2>1, <2>2, WeightsSum
<1> QED BY <1>1, <1>2

\* A sum of naturals is one.
LEMMA SumNat == ASSUME NEW s \in Seq(Nat) PROVE SumFunction(s) \in Nat
<1> DEFINE w == [e \in Nat |-> e]
<1>1. Weight(s, w) \in Nat
  <2>1. \A e \in Nat : w[e] \in Nat OBVIOUS
  <2> HIDE DEF w
  <2> QED BY <2>1, WeightNat
<1>2. SumFunction(s) = Weight(s, w)
  <2>1. s = [i \in DOMAIN s |-> s[i]] OBVIOUS
  <2>2. \A i \in DOMAIN s : s[i] = w[s[i]] OBVIOUS
  <2> HIDE DEF w
  <2> QED BY <2>1, <2>2, WeightsSum
<1> QED BY <1>1, <1>2

-----------------------------------------------------------------------------
(* What is read.                                                           *)

\* A catalogue maps ids to products.
IsCatalogue(products) == products \in [DOMAIN products -> Product]

\* Normalizing a document of the collection gives an invoice.
LEMMA NormalizeType == \A doc \in Document : Normalize(doc) \in Invoice
<1> SUFFICES ASSUME NEW doc \in Document PROVE Normalize(doc) \in Invoice OBVIOUS
<1>1. ASSUME NEW S, NEW default \in S, NEW a \in {Absent} \cup S, NEW b \in {Absent} \cup S,
             NEW c \in {Absent} \cup S
      PROVE  /\ FirstPresent(<<a, b>>, default) \in S
             /\ FirstPresent(<<a, b, c>>, default) \in S
  <2>1. ASSUME NEW n \in Nat, NEW values, DOMAIN values = 1..n,
               \A k \in 1..n : values[k] \in {Absent} \cup S
        PROVE  FirstPresent(values, default) \in S
    <3> DEFINE present == {k \in DOMAIN values : values[k] # Absent}
    <3>1. ASSUME present # {} PROVE Min(present) \in present
      <4>1. PICK k \in present : \A j \in present : k <= j
        <5>1. present \subseteq Nat BY <2>1
        <5>2. PICK k \in present : \A j \in present : ~ (<<j, k>> \in OpToRel(<, Nat))
          <6> HIDE DEF present
          <6> QED BY <3>1, <5>1, NatLessThanWellFounded, WFMin, Zenon
        <5>3. \A j \in present : ~ (j < k) BY <5>1, <5>2 DEF OpToRel
        <5>4. \A j \in present : k <= j BY <5>1, <5>3
        <5> QED BY <5>4
      <4> HIDE DEF present
      <4> QED BY <4>1 DEF Min
    <3>2. present # {} => values[Min(present)] \in S BY <2>1, <3>1
    <3> QED BY <3>2 DEF FirstPresent
  <2>2. FirstPresent(<<a, b>>, default) \in S
    <3> DEFINE v == <<a, b>>
    <3>1. DOMAIN v = 1..2 /\ \A k \in 1..2 : v[k] \in {Absent} \cup S OBVIOUS
    <3> HIDE DEF v
    <3>2. FirstPresent(v, default) \in S BY <2>1, <3>1
    <3> QED BY <3>2 DEF v
  <2>3. FirstPresent(<<a, b, c>>, default) \in S
    <3> DEFINE v == <<a, b, c>>
    <3>1. DOMAIN v = 1..3 /\ \A k \in 1..3 : v[k] \in {Absent} \cup S OBVIOUS
    <3> HIDE DEF v
    <3>2. FirstPresent(v, default) \in S BY <2>1, <3>1
    <3> QED BY <3>2 DEF v
  <2> QED BY <2>2, <2>3
<1>2. /\ doc.status \in Statuses /\ doc.paid \in Int /\ doc.tax \in Int
      /\ doc.totalAmount \in {Absent} \cup Int /\ doc.total \in {Absent} \cup Int
      /\ doc.total_amount \in {Absent} \cup Int
      /\ doc.lineItems \in {Absent} \cup Seq(Line) /\ doc.lines \in {Absent} \cup Seq(Line)
  BY DEF Document
<1>3. FirstPresent(<<doc.totalAmount, doc.total, doc.total_amount>>, 0) \in Int
  <2> DEFINE a == doc.totalAmount  b == doc.total  c == doc.total_amount
  <2>1. {a, b, c} \subseteq {Absent} \cup Int /\ 0 \in Int BY <1>2
  <2> HIDE DEF a, b, c
  <2>2. FirstPresent(<<a, b, c>>, 0) \in Int BY <1>1, <2>1
  <2> QED BY <2>2 DEF a, b, c
<1>4. FirstPresent(<<doc.lineItems, doc.lines>>, <<>>) \in Seq(Line)
  <2> DEFINE a == doc.lineItems  b == doc.lines  none == <<>>
  <2>1. none \in Seq(Line) /\ a \in {Absent} \cup Seq(Line) /\ b \in {Absent} \cup Seq(Line)
    BY <1>2
  <2> HIDE DEF a, b, none
  <2>2. FirstPresent(<<a, b>>, none) \in Seq(Line) BY <1>1, <2>1
  <2> QED BY <2>2 DEF a, b, none
<1> QED BY <1>2, <1>3, <1>4 DEF Normalize, Invoice

\* What FetchInvoices finds.
Part(doc) == IF Matches(doc) THEN <<doc>> ELSE <<>>
Parts(s) == [i \in DOMAIN s |-> Part(s[i])]
Found(s) == FlattenSeq(Parts(s))

\* Each document is found once, or not at all.
LEMMA PartsType ==
  ASSUME NEW s \in Seq(Document)
  PROVE  Parts(s) \in Seq(Seq(Document)) /\ Len(Parts(s)) = Len(s)
<1>1. \A doc \in Document : Part(doc) \in Seq(Document) BY DEF Part
<1>2. \A i \in 1..Len(s) : Part(s[i]) \in Seq(Document) BY <1>1
<1>3. DOMAIN s = 1..Len(s) /\ Len(s) \in Nat OBVIOUS
<1>4. Parts(s) = [i \in 1..Len(s) |-> Part(s[i])] BY <1>3 DEF Parts
<1> QED BY <1>2, <1>3, <1>4

\* One document more.
LEMMA PartsAppend ==
  ASSUME NEW s \in Seq(Document), NEW doc \in Document
  PROVE  Parts(Append(s, doc)) = Append(Parts(s), Part(doc))
<1> DEFINE r == Append(s, doc)
<1>1. /\ r \in Seq(Document) /\ Len(r) = Len(s) + 1 /\ r[Len(s) + 1] = doc
      /\ \A i \in 1..Len(s) : r[i] = s[i]
  BY AppendProperties
<1> HIDE DEF r
<1>2. Parts(r) \in Seq(Seq(Document)) /\ Len(Parts(r)) = Len(s) + 1 BY <1>1, PartsType
<1>3. Parts(s) \in Seq(Seq(Document)) /\ Len(Parts(s)) = Len(s) BY PartsType
<1>4. Part(doc) \in Seq(Document) BY DEF Part
<1>5. \A i \in 1..Len(s) : Parts(r)[i] = Parts(s)[i] BY <1>1 DEF Parts
<1>6. Parts(r)[Len(s) + 1] = Part(doc) BY <1>1 DEF Parts
<1>7. Append(Parts(s), Part(doc)) = Parts(r) BY <1>2, <1>3, <1>4, <1>5, <1>6, Grow
<1> QED BY <1>7 DEF r

\* What is found is a sequence of documents.
LEMMA FoundType == \A s \in Seq(Document) : Found(s) \in Seq(Document)
  BY PartsType, FlattenType DEF Found

\* The documents that match are found, and no others.
LEMMA FoundElements ==
  ASSUME NEW s \in Seq(Document)
  PROVE  ToSet(Found(s)) = {s[k] : k \in {k \in DOMAIN s : Matches(s[k])}}
<1>1. ToSet(Found(s)) = UNION {ToSet(Parts(s)[i]) : i \in 1..Len(s)}
  BY PartsType, FlattenElements DEF Found
<1>2. ASSUME NEW i \in 1..Len(s)
      PROVE  ToSet(Parts(s)[i]) = IF Matches(s[i]) THEN {s[i]} ELSE {}
  <2>1. Parts(s)[i] = Part(s[i]) BY DEF Parts
  <2>2. ToSet(<<s[i]>>) = {s[i]} BY DEF ToSet
  <2>3. ToSet(<<>>) = {} BY DEF ToSet
  <2> QED BY <2>1, <2>2, <2>3 DEF Part
<1>3. DOMAIN s = 1..Len(s) OBVIOUS
<1>4. UNION {ToSet(Parts(s)[i]) : i \in 1..Len(s)}
        = {s[k] : k \in {k \in 1..Len(s) : Matches(s[k])}}
  BY <1>2
<1> QED BY <1>1, <1>3, <1>4

\* As many are found as match: each is read once.
LEMMA FoundLength ==
  \A s \in Seq(Document) :
      Len(Found(s)) = Cardinality({k \in DOMAIN s : Matches(s[k])})
<1> DEFINE ids(s) == {k \in DOMAIN s : Matches(s[k])}
           T == {s \in Seq(Document) : Len(Found(s)) = Cardinality(ids(s))}
<1>1. <<>> \in T
  <2>1. Found(<<>>) = <<>>
    <3>1. Parts(<<>>) = <<>> BY DEF Parts
    <3> QED BY <3>1, FlattenEmpty DEF Found
  <2>2. ids(<<>>) = {} OBVIOUS
  <2> QED BY <2>1, <2>2, FS_EmptySet
<1>2. ASSUME NEW s \in Seq(Document), NEW doc \in Document, s \in T PROVE Append(s, doc) \in T
  <2> DEFINE r == Append(s, doc)
  <2>1. /\ r \in Seq(Document) /\ Len(r) = Len(s) + 1 /\ r[Len(s) + 1] = doc
        /\ \A i \in 1..Len(s) : r[i] = s[i] /\ Len(s) \in Nat
    BY AppendProperties
  <2>2. Found(r) = Found(s) \o Part(doc)
    <3>1. Part(doc) \in Seq(Document) BY DEF Part
    <3> QED BY <3>1, PartsAppend, PartsType, FlattenAppend DEF Found
  <2>3. Len(Found(r)) = Len(Found(s)) + (IF Matches(doc) THEN 1 ELSE 0)
    BY <2>2, FoundType DEF Part
  <2>4. ids(r) = IF Matches(doc) THEN ids(s) \cup {Len(s) + 1} ELSE ids(s)
    <3> HIDE DEF r
    <3>1. DOMAIN r = DOMAIN s \cup {Len(s) + 1} BY <2>1
    <3>2. DOMAIN s = 1..Len(s) OBVIOUS
    <3>3. ASSUME NEW k PROVE k \in ids(r) <=> k \in ids(s) \/ (k = Len(s) + 1 /\ Matches(doc))
      <4>1. CASE k \in 1..Len(s)
        <5>1. k # Len(s) + 1 BY <4>1
        <5> QED BY <2>1, <3>1, <3>2, <4>1, <5>1
      <4>2. CASE k = Len(s) + 1
        <5>1. k \notin 1..Len(s) BY <4>2
        <5> QED BY <2>1, <3>1, <3>2, <4>2, <5>1
      <4>3. CASE k \notin 1..Len(s) /\ k # Len(s) + 1 BY <3>1, <3>2, <4>3
      <4> QED BY <4>1, <4>2, <4>3
    <3> HIDE DEF ids
    <3> QED BY <3>3
  <2>5. IsFiniteSet(ids(s)) /\ Len(s) + 1 \notin ids(s)
    <3>1. ids(s) \subseteq 1..Len(s) /\ Len(s) \in Nat OBVIOUS
    <3>2. IsFiniteSet(1..Len(s)) BY <3>1, FS_Interval
    <3> HIDE DEF ids
    <3>3. IsFiniteSet(ids(s)) BY <3>1, <3>2, FS_Subset
    <3> QED BY <3>1, <3>3
  <2>6. Cardinality(ids(s) \cup {Len(s) + 1}) = Cardinality(ids(s)) + 1
    <3> HIDE DEF ids
    <3> QED BY <2>5, FS_AddElement
  <2>7. Len(Found(s)) = Cardinality(ids(s)) /\ Len(Found(s)) \in Nat BY <1>2, FoundType
  <2>8. Len(Found(r)) = Cardinality(ids(r))
    <3> HIDE DEF ids, r
    <3> QED BY <2>3, <2>4, <2>6, <2>7
  <2> QED BY <2>1, <2>8
<1>3. Seq(Document) \subseteq T
  <2> HIDE DEF T
  <2> QED BY <1>1, <1>2, SeqInduction
<1> QED BY <1>3

-----------------------------------------------------------------------------
(* What the rules write.                                                   *)

\* The liabilities.
Payables == {"VAT Payable", "Withholding Tax Payable", "Corporate Tax Payable"}
\* What the rules may write on an account.
Ruled(account, debit, credit) ==
    /\ account \in Ledger \ (Payables \ {"VAT Payable"})
    /\ account \in {"Revenue", "VAT Payable", "Inventory"} => debit = 0
    /\ account \in {"Cost of Goods Sold", "Accounts Receivable", "Cash/Bank"} => credit = 0
    /\ account = "VAT Payable" => credit > 0

\* The entries of the rules for an invoice, and those that they write for one
\* that is as it should be.
RuleEntries(i) ==
    {e \in JournalEntry : e.invoice = i /\ Ruled(e.account, e.debit, e.credit)}
SaneEntries(i) == {e \in RuleEntries(i) : e.debit >= 0 /\ e.credit >= 0}

\* What the engine writes for a tax.
TaxEntrySet ==
    {e \in JournalEntry :
        e.invoice = 0 /\ e.account \in Payables /\ e.debit = 0 /\ e.credit > 0}

RuleEntry == UNION {RuleEntries(i) : i \in Nat \ {0}}
SaneEntry == UNION {SaneEntries(i) : i \in Nat \ {0}}

\* The cost of the goods is an integer.
LEMMA CogsType ==
  ASSUME NEW inv \in Invoice, NEW products, IsCatalogue(products)
  PROVE  Cogs(inv, products) \in Int
<1> DEFINE cost(l) == IF l.product \in DOMAIN products
                      THEN products[l.product].cost * Quantity(l, 0) ELSE 0
           s == inv.lines
<1>1. s \in Seq(Line) BY DEF Invoice
<1>2. \A l \in Line : cost(l) \in Int
  <2> SUFFICES ASSUME NEW l \in Line, l.product \in DOMAIN products
               PROVE  products[l.product].cost * Quantity(l, 0) \in Int
    OBVIOUS
  <2>1. products[l.product].cost \in Int BY DEF IsCatalogue, Product
  <2>2. Quantity(l, 0) \in Int BY DEF Quantity, Line
  <2> QED BY <2>1, <2>2
<1>3. [i \in DOMAIN s |-> cost(s[i])] \in Seq(Int)
  <2> HIDE DEF s, cost
  <2> QED BY <1>1, <1>2
<1>4. SumFunction([i \in DOMAIN s |-> cost(s[i])]) \in Int
  <2> HIDE DEF s, cost
  <2> QED BY <1>3, SumType
<1> QED BY <1>4 DEF Cogs, SumOver

\* An entry that may be written is one of the rules.
LEMMA EntryIs ==
  ASSUME NEW a \in Ledger, NEW d \in Int, NEW c \in Int, NEW i \in Nat
  PROVE  /\ Entry(a, d, c, i) \in JournalEntry
         /\ Ruled(a, d, c) => Entry(a, d, c, i) \in RuleEntries(i)
         /\ Ruled(a, d, c) /\ d >= 0 /\ c >= 0 => Entry(a, d, c, i) \in SaneEntries(i)
  BY DEF Entry, JournalEntry, RuleEntries, SaneEntries

\* The rules may write what they do.
LEMMA MayWrite ==
  ASSUME NEW n \in Int
  PROVE  /\ Ruled("Cash/Bank", n, 0) /\ Ruled("Accounts Receivable", n, 0)
         /\ Ruled("Cost of Goods Sold", n, 0)
         /\ Ruled("Revenue", 0, n) /\ Ruled("Inventory", 0, n)
         /\ n > 0 => Ruled("VAT Payable", 0, n)
  BY DEF Ruled, Payables, Ledger

\* The entries that appear in the code are entries of the rules.
LEMMA EntriesAre ==
  ASSUME NEW i \in Nat, NEW n \in Int
  PROVE  /\ Entry("Cash/Bank", n, 0, i) \in RuleEntries(i)
         /\ Entry("Accounts Receivable", n, 0, i) \in RuleEntries(i)
         /\ Entry("Cost of Goods Sold", n, 0, i) \in RuleEntries(i)
         /\ Entry("Revenue", 0, n, i) \in RuleEntries(i)
         /\ Entry("Inventory", 0, n, i) \in RuleEntries(i)
         /\ n > 0 => Entry("VAT Payable", 0, n, i) \in RuleEntries(i)
         /\ n >= 0 => /\ Entry("Cash/Bank", n, 0, i) \in SaneEntries(i)
                      /\ Entry("Accounts Receivable", n, 0, i) \in SaneEntries(i)
                      /\ Entry("Cost of Goods Sold", n, 0, i) \in SaneEntries(i)
                      /\ Entry("Revenue", 0, n, i) \in SaneEntries(i)
                      /\ Entry("Inventory", 0, n, i) \in SaneEntries(i)
         /\ n > 0 => Entry("VAT Payable", 0, n, i) \in SaneEntries(i)
<1>1. \A a \in Ledger : /\ Ruled(a, n, 0) => Entry(a, n, 0, i) \in RuleEntries(i)
                        /\ Ruled(a, 0, n) => Entry(a, 0, n, i) \in RuleEntries(i)
                        /\ Ruled(a, n, 0) /\ n >= 0 => Entry(a, n, 0, i) \in SaneEntries(i)
                        /\ Ruled(a, 0, n) /\ n >= 0 => Entry(a, 0, n, i) \in SaneEntries(i)
  BY EntryIs
<1>2. {"Cash/Bank", "Accounts Receivable", "Revenue", "Cost of Goods Sold", "Inventory",
       "VAT Payable"} \subseteq Ledger
  BY DEF Ledger
<1>3. n > 0 => n >= 0 OBVIOUS
<1> QED BY <1>1, <1>2, <1>3, MayWrite

\* The entries of a paid invoice.
LEMMA PaidEntriesAre ==
  ASSUME NEW inv \in Invoice, NEW cogs \in Int, NEW i \in Nat
  PROVE  /\ PaidEntries(inv, i, cogs) \in Seq(RuleEntries(i))
         /\ SaneInvoice(inv) => PaidEntries(inv, i, cogs) \in Seq(SaneEntries(i))
         /\ PaidEntries(inv, i, cogs) # <<>>
<1>1. inv.total \in Int /\ inv.tax \in Int BY DEF Invoice
<1> DEFINE cash == Entry("Cash/Bank", inv.total, 0, i)
           sale == Entry("Revenue", 0, inv.total - inv.tax, i)
           vat == Entry("VAT Payable", 0, inv.tax, i)
           cost == Entry("Cost of Goods Sold", cogs, 0, i)
           goods == Entry("Inventory", 0, cogs, i)
           tail == (IF inv.tax > 0 THEN <<vat>> ELSE <<>>)
                   \o (IF cogs > 0 THEN <<cost, goods>> ELSE <<>>)
<1>2. /\ cash \in RuleEntries(i) /\ sale \in RuleEntries(i)
      /\ inv.tax > 0 => vat \in RuleEntries(i)
      /\ cost \in RuleEntries(i) /\ goods \in RuleEntries(i)
  <2>1. inv.total - inv.tax \in Int BY <1>1
  <2> QED BY <1>1, <2>1, EntriesAre
<1>3. /\ SaneInvoice(inv) => cash \in SaneEntries(i) /\ sale \in SaneEntries(i)
      /\ inv.tax > 0 => vat \in SaneEntries(i)
      /\ cogs > 0 => cost \in SaneEntries(i) /\ goods \in SaneEntries(i)
  <2>1. inv.total - inv.tax \in Int /\ (cogs > 0 => cogs >= 0) BY <1>1
  <2>2. SaneInvoice(inv) => inv.total >= 0 /\ inv.total - inv.tax >= 0
    BY <1>1 DEF SaneInvoice
  <2> QED BY <1>1, <2>1, <2>2, EntriesAre
<1>4. PaidEntries(inv, i, cogs) =
        (<<cash, sale>> \o (IF inv.tax > 0 THEN <<vat>> ELSE <<>>))
         \o (IF cogs > 0 THEN <<cost, goods>> ELSE <<>>)
  BY DEF PaidEntries
<1> HIDE DEF cash, sale, vat, cost, goods, tail
<1>5. ASSUME NEW S, cash \in S, sale \in S, inv.tax > 0 => vat \in S,
             cogs > 0 => cost \in S /\ goods \in S
      PROVE  PaidEntries(inv, i, cogs) \in Seq(S) /\ PaidEntries(inv, i, cogs) # <<>>
  <2>1. <<cash, sale>> \in Seq(S) /\ Len(<<cash, sale>>) = 2 BY <1>5
  <2>2. (IF inv.tax > 0 THEN <<vat>> ELSE <<>>) \in Seq(S) BY <1>5
  <2>3. (IF cogs > 0 THEN <<cost, goods>> ELSE <<>>) \in Seq(S) BY <1>5
  <2> DEFINE a == <<cash, sale>>  b == IF inv.tax > 0 THEN <<vat>> ELSE <<>>
             c == IF cogs > 0 THEN <<cost, goods>> ELSE <<>>
  <2> HIDE DEF a, b, c
  <2>4. a \in Seq(S) /\ b \in Seq(S) /\ c \in Seq(S) /\ Len(a) = 2 BY <2>1, <2>2, <2>3 DEF a, b, c
  <2>5. (a \o b) \o c \in Seq(S) /\ Len((a \o b) \o c) >= 2 BY <2>4
  <2>6. (a \o b) \o c # <<>> BY <2>5
  <2> QED BY <1>4, <2>5, <2>6 DEF a, b, c
<1> QED BY <1>2, <1>3, <1>5

\* The entries of a partly paid invoice.
LEMMA PartialEntriesAre ==
  ASSUME NEW inv \in Invoice, NEW i \in Nat
  PROVE  /\ PartialEntries(inv, i) \in Seq(RuleEntries(i))
         /\ SaneInvoice(inv) => PartialEntries(inv, i) \in Seq(SaneEntries(i))
         /\ PartialEntries(inv, i) # <<>>
<1>1. inv.total \in Int /\ inv.paid \in Int BY DEF Invoice
<1> DEFINE cash == Entry("Cash/Bank", inv.paid, 0, i)
           rest == Entry("Accounts Receivable", inv.total - inv.paid, 0, i)
           sale == Entry("Revenue", 0, inv.total, i)
<1>2. cash \in RuleEntries(i) /\ rest \in RuleEntries(i) /\ sale \in RuleEntries(i)
  <2>1. inv.total - inv.paid \in Int BY <1>1
  <2> QED BY <1>1, <2>1, EntriesAre
<1>3. SaneInvoice(inv) =>
        cash \in SaneEntries(i) /\ rest \in SaneEntries(i) /\ sale \in SaneEntries(i)
  <2>1. inv.total - inv.paid \in Int BY <1>1
  <2>2. SaneInvoice(inv) => inv.paid >= 0 /\ inv.total >= 0 /\ inv.total - inv.paid >= 0
    BY <1>1 DEF SaneInvoice
  <2> QED BY <1>1, <2>1, <2>2, EntriesAre
<1>4. PartialEntries(inv, i) = <<cash, rest, sale>> BY DEF PartialEntries
<1> HIDE DEF cash, rest, sale
<1> QED BY <1>2, <1>3, <1>4

\* The entries of an invoice that is not paid.
LEMMA AccruedEntriesAre ==
  ASSUME NEW inv \in Invoice, NEW i \in Nat
  PROVE  LET entries == <<Entry("Accounts Receivable", inv.total, 0, i),
                          Entry("Revenue", 0, inv.total, i)>>
         IN  /\ entries \in Seq(RuleEntries(i))
             /\ SaneInvoice(inv) => entries \in Seq(SaneEntries(i))
             /\ entries # <<>>
<1>1. inv.total \in Int /\ inv.paid \in Int BY DEF Invoice
<1> DEFINE rest == Entry("Accounts Receivable", inv.total, 0, i)
           sale == Entry("Revenue", 0, inv.total, i)
<1>2. rest \in RuleEntries(i) /\ sale \in RuleEntries(i)
  BY <1>1, EntriesAre
<1>3. SaneInvoice(inv) => rest \in SaneEntries(i) /\ sale \in SaneEntries(i)
  <2>1. SaneInvoice(inv) => inv.total >= 0 BY <1>1 DEF SaneInvoice
  <2> QED BY <1>1, <2>1, EntriesAre
<1> HIDE DEF rest, sale
<1>4. ASSUME NEW S, rest \in S, sale \in S PROVE <<rest, sale>> \in Seq(S) BY <1>4
<1>5. <<rest, sale>> # <<>> OBVIOUS
<1>6. /\ <<rest, sale>> \in Seq(RuleEntries(i))
      /\ SaneInvoice(inv) => <<rest, sale>> \in Seq(SaneEntries(i))
  BY <1>2, <1>3, <1>4
<1> QED BY <1>5, <1>6 DEF rest, sale

\* The statuses for which nothing is written.
Silent == {"DRAFT", "VOIDED", "ARCHIVED", "OTHER"}

\* The rules write an entry for an invoice of every other status.
LEMMA InvoiceEntriesAre ==
  ASSUME NEW inv \in Invoice, NEW products, IsCatalogue(products), NEW i \in Nat
  PROVE  /\ InvoiceEntries(inv, i, products) \in Seq(RuleEntries(i))
         /\ SaneInvoice(inv) => InvoiceEntries(inv, i, products) \in Seq(SaneEntries(i))
         /\ InvoiceEntries(inv, i, products) = <<>> <=> inv.status \in Silent
<1>1. inv.status \in Statuses BY DEF Invoice
<1>2. CASE inv.status = "PAID"
  <2>1. InvoiceEntries(inv, i, products) = PaidEntries(inv, i, Cogs(inv, products))
    BY <1>2 DEF InvoiceEntries, Accrued
  <2>2. inv.status \notin Silent BY <1>2 DEF Silent
  <2> QED BY <2>1, <2>2, CogsType, PaidEntriesAre
<1>3. CASE inv.status = "PARTIAL"
  <2>1. InvoiceEntries(inv, i, products) = PartialEntries(inv, i)
    BY <1>3 DEF InvoiceEntries, Accrued
  <2>2. inv.status \notin Silent BY <1>3 DEF Silent
  <2> QED BY <2>1, <2>2, PartialEntriesAre
<1>4. CASE inv.status \in Accrued
  <2>1. InvoiceEntries(inv, i, products) =
          <<Entry("Accounts Receivable", inv.total, 0, i), Entry("Revenue", 0, inv.total, i)>>
    BY <1>4 DEF InvoiceEntries, Accrued
  <2>2. inv.status \notin Silent BY <1>4 DEF Silent, Accrued
  <2> QED BY <2>1, <2>2, AccruedEntriesAre
<1>5. CASE inv.status \in Silent
  <2>1. InvoiceEntries(inv, i, products) = <<>> BY <1>5 DEF InvoiceEntries, Silent, Accrued
  <2> QED BY <1>5, <2>1
<1> QED BY <1>1, <1>2, <1>3, <1>4, <1>5 DEF Statuses, Billing, Silent

-----------------------------------------------------------------------------
(* The journal and the list of taxes.                                      *)

\* The entries of each invoice.
RuleParts(invs, products) == [i \in DOMAIN invs |-> InvoiceEntries(invs[i], i, products)]

\* They are entries of the rules.
LEMMA RulePartsType ==
  ASSUME NEW invs \in Seq(Invoice), NEW products, IsCatalogue(products)
  PROVE  /\ RuleParts(invs, products) \in Seq(Seq(RuleEntry))
         /\ (\A i \in DOMAIN invs : SaneInvoice(invs[i])) =>
               RuleParts(invs, products) \in Seq(Seq(SaneEntry))
         /\ Len(RuleParts(invs, products)) = Len(invs)
         /\ \A i \in 1..Len(invs) :
               RuleParts(invs, products)[i] = InvoiceEntries(invs[i], i, products)
<1> DEFINE entries(i) == InvoiceEntries(invs[i], i, products)
<1>1. DOMAIN invs = 1..Len(invs) /\ Len(invs) \in Nat OBVIOUS
<1>2. RuleParts(invs, products) = [i \in 1..Len(invs) |-> entries(i)]
  BY <1>1 DEF RuleParts
<1>3. ASSUME NEW i \in 1..Len(invs)
      PROVE  /\ entries(i) \in Seq(RuleEntry)
             /\ SaneInvoice(invs[i]) => entries(i) \in Seq(SaneEntry)
  <2>1. i \in Nat \ {0} /\ invs[i] \in Invoice BY <1>1
  <2>2. /\ entries(i) \in Seq(RuleEntries(i))
        /\ SaneInvoice(invs[i]) => entries(i) \in Seq(SaneEntries(i))
    BY <2>1, InvoiceEntriesAre
  <2>3. RuleEntries(i) \subseteq RuleEntry /\ SaneEntries(i) \subseteq SaneEntry
    BY <2>1 DEF RuleEntry, SaneEntry
  <2>4. \A S, T, s : S \subseteq T /\ s \in Seq(S) => s \in Seq(T) OBVIOUS
  <2> HIDE DEF entries
  <2> QED BY <2>2, <2>3, <2>4
<1> HIDE DEF entries
<1>4. ASSUME NEW S, \A i \in 1..Len(invs) : entries(i) \in S
      PROVE  [i \in 1..Len(invs) |-> entries(i)] \in Seq(S)
  BY <1>1, <1>4
<1>5. [i \in 1..Len(invs) |-> entries(i)] \in Seq(Seq(RuleEntry)) BY <1>3, <1>4
<1>6. (\A i \in DOMAIN invs : SaneInvoice(invs[i])) =>
        [i \in 1..Len(invs) |-> entries(i)] \in Seq(Seq(SaneEntry))
  BY <1>1, <1>3, <1>4
<1>7. Len([i \in 1..Len(invs) |-> entries(i)]) = Len(invs) BY <1>1
<1>8. \A i \in 1..Len(invs) : RuleParts(invs, products)[i] = entries(i) BY <1>2
<1> QED BY <1>2, <1>5, <1>6, <1>7, <1>8 DEF entries

\* So is the journal of the rules.
LEMMA RuleJournalType ==
  ASSUME NEW invs \in Seq(Invoice), NEW products, IsCatalogue(products)
  PROVE  /\ RuleJournal(invs, products) \in Seq(RuleEntry)
         /\ (\A i \in DOMAIN invs : SaneInvoice(invs[i])) =>
               RuleJournal(invs, products) \in Seq(SaneEntry)
<1>1. RuleJournal(invs, products) = FlattenSeq(RuleParts(invs, products))
  BY DEF RuleJournal, RuleParts
<1> QED BY <1>1, RulePartsType, FlattenType

\* What the model is shown is the beginning of the invoices.
LEMMA SampleType ==
  ASSUME NEW invs \in Seq(Invoice), NEW n \in Nat
  PROVE  LET k == IF Len(invs) < n THEN Len(invs) ELSE n
             shown == SubSeq(invs, 1, k)
         IN  /\ shown \in Seq(Invoice) /\ Len(shown) = k /\ k <= Len(invs) /\ k \in Nat
             /\ \A i \in 1..k : shown[i] = invs[i]
<1> DEFINE k == IF Len(invs) < n THEN Len(invs) ELSE n
<1>1. k \in Nat /\ k <= Len(invs) OBVIOUS
<1> HIDE DEF k
<1>2. SubSeq(invs, 1, k) = [i \in 1..k |-> invs[i]] 
  BY <1>1
<1>3. \A i \in 1..k : invs[i] \in Invoice BY <1>1
<1>4. [i \in 1..k |-> invs[i]] \in Seq(Invoice) /\ Len([i \in 1..k |-> invs[i]]) = k
  BY <1>1, <1>3
<1> QED BY <1>1, <1>2, <1>4 DEF k

\* The taxes that may be due, and the parts of a breakdown they are made from.
Kinds == {"VAT 19", "VAT 13", "VAT 7", "IS", "Withholding"}
Due == [kind : Kinds, amount : Int]
Breakdown(b) ==
    /\ b.vat["standard"] \in Int /\ b.vat["transport_tourism"] \in Int
    /\ b.vat["medical_education"] \in Int
    /\ b.corporate \in Int /\ b.withholding \in Int

DueList(b) ==
    <<[kind |-> "VAT 19", amount |-> b.vat["standard"]],
      [kind |-> "VAT 13", amount |-> b.vat["transport_tourism"]],
      [kind |-> "VAT 7", amount |-> b.vat["medical_education"]],
      [kind |-> "IS", amount |-> b.corporate],
      [kind |-> "Withholding", amount |-> b.withholding]>>
DueParts(b) ==
    [i \in 1..5 |-> IF DueList(b)[i].amount > 0 THEN <<DueList(b)[i]>> ELSE <<>>]

\* The list before what is not due is left out.
LEMMA DueListType ==
  ASSUME NEW b, Breakdown(b) PROVE DueList(b) \in Seq(Due) /\ Len(DueList(b)) = 5
<1> DEFINE c1 == [kind |-> "VAT 19", amount |-> b.vat["standard"]]
           c2 == [kind |-> "VAT 13", amount |-> b.vat["transport_tourism"]]
           c3 == [kind |-> "VAT 7", amount |-> b.vat["medical_education"]]
           c4 == [kind |-> "IS", amount |-> b.corporate]
           c5 == [kind |-> "Withholding", amount |-> b.withholding]
<1>1. c1 \in Due /\ c2 \in Due /\ c3 \in Due /\ c4 \in Due /\ c5 \in Due
  BY DEF Due, Kinds, Breakdown
<1>2. DueList(b) = <<c1, c2, c3, c4, c5>> BY DEF DueList
<1> HIDE DEF c1, c2, c3, c4, c5
<1> QED BY <1>1, <1>2

\* What is listed is due, and is more than nothing.
LEMMA DuePartsType ==
  ASSUME NEW b, Breakdown(b)
  PROVE  /\ DueParts(b) \in Seq(Seq({c \in Due : c.amount > 0})) /\ Len(DueParts(b)) = 5
         /\ TaxCalculations(b) = FlattenSeq(DueParts(b))
         /\ TaxCalculations(b) \in Seq({c \in Due : c.amount > 0})
<1> DEFINE D == {c \in Due : c.amount > 0}
<1>1. DueList(b) \in Seq(Due) /\ DOMAIN DueList(b) = 1..5 BY DueListType
<1>2. \A i \in 1..5 : (IF DueList(b)[i].amount > 0 THEN <<DueList(b)[i]>> ELSE <<>>) \in Seq(D)
  <2>1. \A i \in 1..5 : DueList(b)[i].amount > 0 => DueList(b)[i] \in D BY <1>1
  <2> HIDE DEF D
  <2> QED BY <2>1
<1>3. DueParts(b) \in Seq(Seq(D)) /\ Len(DueParts(b)) = 5
  <2> HIDE DEF D
  <2> QED BY <1>2 DEF DueParts
<1>4. TaxCalculations(b) = FlattenSeq(DueParts(b))
  BY <1>1 DEF TaxCalculations, Select, DueParts, DueList
<1> QED BY <1>3, <1>4, FlattenType

\* The entry of a tax credits its amount to its payable account.
LEMMA TaxEntriesType ==
  ASSUME NEW calcs \in Seq({c \in Due : c.amount > 0})
  PROVE  /\ TaxEntries(calcs) \in Seq(TaxEntrySet) /\ Len(TaxEntries(calcs)) = Len(calcs)
         /\ \A i \in 1..Len(calcs) :
              /\ TaxEntries(calcs)[i].account = PayableAccount(calcs[i].kind)
              /\ TaxEntries(calcs)[i].credit = calcs[i].amount
<1>1. ASSUME NEW c \in Due, c.amount > 0
      PROVE  /\ Entry(PayableAccount(c.kind), 0, c.amount, 0) \in TaxEntrySet
             /\ Entry(PayableAccount(c.kind), 0, c.amount, 0).account = PayableAccount(c.kind)
             /\ Entry(PayableAccount(c.kind), 0, c.amount, 0).credit = c.amount
  <2>1. PayableAccount(c.kind) \in Payables BY DEF PayableAccount, Payables, Due, Kinds
  <2>2. PayableAccount(c.kind) \in Ledger BY <2>1 DEF Payables, Ledger
  <2>3. c.amount \in Int BY DEF Due
  <2> QED BY <1>1, <2>1, <2>2, <2>3 DEF Entry, JournalEntry, TaxEntrySet
<1>2. \A i \in 1..Len(calcs) : calcs[i] \in Due /\ calcs[i].amount > 0 OBVIOUS
<1>3. DOMAIN calcs = 1..Len(calcs) /\ Len(calcs) \in Nat OBVIOUS
<1>4. TaxEntries(calcs) =
        [i \in 1..Len(calcs) |-> Entry(PayableAccount(calcs[i].kind), 0, calcs[i].amount, 0)]
  BY <1>3 DEF TaxEntries
<1> QED BY <1>1, <1>2, <1>3, <1>4

-----------------------------------------------------------------------------
(* The taxes.                                                              *)

\* A share of an integer is one.
LEMMA ShareType ==
  ASSUME NEW amount \in Int, NEW rate \in Int PROVE Share(amount, rate) \in Int
<1>1. amount * rate \in Int OBVIOUS
<1> DEFINE p == amount * rate
<1> HIDE DEF p
<1>2. p \in Int BY <1>1 DEF p
<1>3. p \div 1000 \in Int BY <1>2
<1> QED BY <1>3 DEF Share, p

\* A share of what is not negative is not negative.
LEMMA ShareNat ==
  ASSUME NEW amount \in Nat, NEW rate \in Nat PROVE Share(amount, rate) \in Nat
<1>1. amount * rate \in Nat OBVIOUS
<1> DEFINE p == amount * rate
<1> HIDE DEF p
<1>2. p \in Nat BY <1>1 DEF p
<1>3. p \div 1000 \in Nat BY <1>2
<1> QED BY <1>3 DEF Share, p

\* No rate is negative.
LEMMA RatesAre == \A category \in Categories : VatRate[category] \in Nat
  BY DEF Categories, VatRate

\* The VAT of an invoice is an integer, and not negative if its lines are not.
LEMMA InvoiceVatType ==
  ASSUME NEW inv \in Invoice, NEW products, NEW category \in Categories
  PROVE  /\ InvoiceVat(inv, products, category) \in Int
         /\ SaneInvoice(inv) => InvoiceVat(inv, products, category) \in Nat
<1> DEFINE s == inv.lines
           vat(l) == IF LineCategory(l, products) = category
                     THEN Share(l.amount, VatRate[category]) ELSE 0
           sum == SumFunction([i \in DOMAIN s |-> vat(s[i])])
<1>1. s \in Seq(Line) /\ inv.total \in Int BY DEF Invoice
<1>2. \A l \in Line : vat(l) \in Int /\ (l.amount >= 0 => vat(l) \in Nat)
  <2> SUFFICES ASSUME NEW l \in Line
               PROVE  /\ Share(l.amount, VatRate[category]) \in Int
                      /\ l.amount >= 0 => Share(l.amount, VatRate[category]) \in Nat
    OBVIOUS
  <2>1. l.amount \in Int /\ (l.amount >= 0 => l.amount \in Nat) BY DEF Line
  <2>2. VatRate[category] \in Nat /\ VatRate[category] \in Int BY RatesAre
  <2> QED BY <2>1, <2>2, ShareType, ShareNat
<1>3. sum \in Int
  <2>1. [i \in DOMAIN s |-> vat(s[i])] \in Seq(Int)
    <3> HIDE DEF s, vat
    <3> QED BY <1>1, <1>2
  <2> HIDE DEF s, vat
  <2> QED BY <2>1, SumType
<1>4. SaneInvoice(inv) => sum \in Nat
  <2> SUFFICES ASSUME SaneInvoice(inv) PROVE sum \in Nat OBVIOUS
  <2>1. \A i \in DOMAIN s : s[i].amount >= 0 BY DEF SaneInvoice
  <2>2. [i \in DOMAIN s |-> vat(s[i])] \in Seq(Nat)
    <3> HIDE DEF s, vat
    <3> QED BY <1>1, <1>2, <2>1
  <2> HIDE DEF s, vat
  <2> QED BY <2>2, SumNat
<1>5. Share(inv.total, VatRate[category]) \in Int
  <2>1. VatRate[category] \in Int BY RatesAre
  <2> QED BY <1>1, <2>1, ShareType
<1>6. SaneInvoice(inv) => Share(inv.total, VatRate[category]) \in Nat
  <2>1. SaneInvoice(inv) => inv.total \in Nat
    <3>1. inv.paid \in Int BY DEF Invoice
    <3> QED BY <1>1, <3>1 DEF SaneInvoice
  <2> QED BY <2>1, RatesAre, ShareNat
<1>7. InvoiceVat(inv, products, category) \in {0, sum, Share(inv.total, VatRate[category])}
  BY DEF InvoiceVat, SumOver
<1> HIDE DEF sum
<1> QED BY <1>3, <1>4, <1>5, <1>6, <1>7

\* So is the VAT of the period in each category.
LEMMA VatType ==
  ASSUME NEW invs \in Seq(Invoice), NEW products
  PROVE  \A category \in Categories :
           /\ CalculateVat(invs, products)[category] \in Int
           /\ (\A i \in DOMAIN invs : SaneInvoice(invs[i])) =>
                 CalculateVat(invs, products)[category] \in Nat
<1> SUFFICES ASSUME NEW category \in Categories
             PROVE  /\ CalculateVat(invs, products)[category] \in Int
                    /\ (\A i \in DOMAIN invs : SaneInvoice(invs[i])) =>
                          CalculateVat(invs, products)[category] \in Nat
  OBVIOUS
<1> DEFINE vat(i) == InvoiceVat(invs[i], products, category)
<1>1. CalculateVat(invs, products)[category] = SumFunction([i \in DOMAIN invs |-> vat(i)])
  BY DEF CalculateVat, SumOver
<1>2. \A i \in DOMAIN invs : vat(i) \in Int /\ (SaneInvoice(invs[i]) => vat(i) \in Nat)
  BY InvoiceVatType
<1> HIDE DEF vat
<1>3. [i \in DOMAIN invs |-> vat(i)] \in Seq(Int) BY <1>2
<1>4. (\A i \in DOMAIN invs : SaneInvoice(invs[i])) =>
        [i \in DOMAIN invs |-> vat(i)] \in Seq(Nat)
  BY <1>2
<1> QED BY <1>1, <1>3, <1>4, SumType, SumNat

\* What is withheld of the payments.
LEMMA WithholdingType ==
  ASSUME NEW invs \in Seq(Invoice)
  PROVE  /\ Share(SumOver(invs, LAMBDA inv : inv.paid), WithholdingRate) \in Int
         /\ (\A i \in DOMAIN invs : SaneInvoice(invs[i])) =>
               Share(SumOver(invs, LAMBDA inv : inv.paid), WithholdingRate) \in Nat
<1> DEFINE paid == [i \in DOMAIN invs |-> invs[i].paid]
<1>1. SumOver(invs, LAMBDA inv : inv.paid) = SumFunction(paid) BY DEF SumOver
<1>0. \A i \in DOMAIN invs : invs[i] \in Invoice /\ invs[i].paid \in Int
  <2>1. \A inv \in Invoice : inv.paid \in Int BY DEF Invoice
  <2> QED BY <2>1
<1>2. paid \in Seq(Int) BY <1>0
<1>3. (\A i \in DOMAIN invs : SaneInvoice(invs[i])) => paid \in Seq(Nat)
  BY <1>0 DEF SaneInvoice
<1> HIDE DEF paid
<1>4. SumFunction(paid) \in Int BY <1>2, SumType
<1>5. (\A i \in DOMAIN invs : SaneInvoice(invs[i])) => SumFunction(paid) \in Nat
  BY <1>3, SumNat
<1>6. WithholdingRate \in Nat /\ WithholdingRate \in Int BY DEF WithholdingRate
<1> QED BY <1>1, <1>4, <1>5, <1>6, ShareType, ShareNat

\* Revenue less costs is a number, whatever its sign.
LEMMA IncomeType ==
  ASSUME NEW invs \in Seq(Invoice), NEW products, IsCatalogue(products)
  PROVE  TaxableRevenue(invs) \in Int /\ EstimatedCogs(invs, products) \in Int
<1>1. TaxableRevenue(invs) \in Int
  <2> DEFINE bill(inv) == IF inv.status \in {"DRAFT", "VOIDED"} THEN 0 ELSE inv.total
             f == [i \in DOMAIN invs |-> bill(invs[i])]
  <2>1. \A inv \in Invoice : bill(inv) \in Int BY DEF Invoice
  <2>2. TaxableRevenue(invs) = SumFunction(f) BY DEF TaxableRevenue, SumOver
  <2> HIDE DEF bill
  <2>3. f \in Seq(Int) BY <2>1
  <2> HIDE DEF f
  <2> QED BY <2>2, <2>3, SumType
<1>2. EstimatedCogs(invs, products) \in Int
  <2> DEFINE cost(l) == IF l.product \in DOMAIN products
                        THEN products[l.product].cost * Quantity(l, 1) ELSE 0
             costs(inv) == SumFunction([i \in DOMAIN inv.lines |-> cost(inv.lines[i])])
             f == [i \in DOMAIN invs |-> costs(invs[i])]
  <2>1. \A l \in Line : cost(l) \in Int
    <3> SUFFICES ASSUME NEW l \in Line, l.product \in DOMAIN products
                 PROVE  products[l.product].cost * Quantity(l, 1) \in Int
      OBVIOUS
    <3>1. products[l.product].cost \in Int BY DEF IsCatalogue, Product
    <3>2. Quantity(l, 1) \in Int BY DEF Quantity, Line
    <3> QED BY <3>1, <3>2
  <2>2. EstimatedCogs(invs, products) = SumFunction(f) BY DEF EstimatedCogs, SumOver
  <2> HIDE DEF cost
  <2>3. ASSUME NEW inv \in Invoice PROVE costs(inv) \in Int
    <3> DEFINE s == inv.lines
    <3>1. s \in Seq(Line) BY DEF Invoice
    <3> HIDE DEF s
    <3>2. [i \in DOMAIN s |-> cost(s[i])] \in Seq(Int) BY <2>1, <3>1
    <3> QED BY <3>2, SumType DEF s
  <2> HIDE DEF costs
  <2>4. f \in Seq(Int) BY <2>3
  <2> HIDE DEF f
  <2> QED BY <2>2, <2>4, SumType
<1> QED BY <1>1, <1>2

\* A breakdown: its total is the sum of its parts, its corporate tax is worked out
\* at the rate it shows, and nothing else in it is negative.
LEMMA TaxesAre ==
  ASSUME NEW invs \in Seq(Invoice), NEW products, IsCatalogue(products)
  PROVE  LET b == CalculatePeriodTaxes(invs, products)
         IN  /\ Breakdown(b)
             /\ b.total = b.vat["standard"] + b.vat["transport_tourism"]
                          + b.vat["medical_education"] + b.corporate + b.withholding
             /\ b.corporate = Share(b.taxableIncome, b.corporateRate)
             /\ (\A i \in DOMAIN invs : SaneInvoice(invs[i])) =>
                   /\ b.vat["standard"] >= 0 /\ b.vat["transport_tourism"] >= 0
                   /\ b.vat["medical_education"] >= 0 /\ b.withholding >= 0
<1> DEFINE b == CalculatePeriodTaxes(invs, products)
           vat == CalculateVat(invs, products)
           income == TaxableRevenue(invs) - EstimatedCogs(invs, products)
           withheld == Share(SumOver(invs, LAMBDA inv : inv.paid), WithholdingRate)
<1>1. /\ b.vat = vat /\ b.withholding = withheld
      /\ b.taxableIncome = income
      /\ b.corporateRate = CorporateSmeRate
      /\ b.corporate = Share(income, CorporateSmeRate)
      /\ b.total = (vat["standard"] + vat["transport_tourism"] + vat["medical_education"])
                   + b.corporate + withheld
  BY DEF CalculatePeriodTaxes, CalculateCorporateIncomeTax, CorporateRate, IsSme
<1>2. income \in Int BY IncomeType
<1>3. Share(income, CorporateSmeRate) \in Int
  <2>1. CorporateSmeRate \in Int BY DEF CorporateSmeRate
  <2> HIDE DEF income
  <2> QED BY <1>2, <2>1, ShareType
<1>4. /\ vat["standard"] \in Int /\ vat["transport_tourism"] \in Int
      /\ vat["medical_education"] \in Int
      /\ (\A i \in DOMAIN invs : SaneInvoice(invs[i])) =>
            /\ vat["standard"] \in Nat /\ vat["transport_tourism"] \in Nat
            /\ vat["medical_education"] \in Nat
  BY VatType DEF Categories
<1>5. /\ withheld \in Int
      /\ (\A i \in DOMAIN invs : SaneInvoice(invs[i])) => withheld \in Nat
  BY WithholdingType
<1> HIDE DEF b, vat, income, withheld
<1>6. Breakdown(b) BY <1>1, <1>3, <1>4, <1>5 DEF Breakdown
<1>7. b.total = b.vat["standard"] + b.vat["transport_tourism"]
                + b.vat["medical_education"] + b.corporate + b.withholding
  BY <1>1
<1>8. b.corporate = Share(b.taxableIncome, b.corporateRate) BY <1>1
<1>9. (\A i \in DOMAIN invs : SaneInvoice(invs[i])) =>
        /\ b.vat["standard"] >= 0 /\ b.vat["transport_tourism"] >= 0
        /\ b.vat["medical_education"] >= 0 /\ b.withholding >= 0
  BY <1>1, <1>4, <1>5
<1> QED BY <1>6, <1>7, <1>8, <1>9 DEF b

-----------------------------------------------------------------------------
(* The inductive invariant.                                                *)

\* The ledger invariant, and where the collection comes from.
GivenInv == LedgerInv /\ collection \in Collections

\* Every catalogue is one, the empty one included.
LEMMA CataloguesAre == \A products \in Catalogues \cup {<<>>} : IsCatalogue(products)
<1>1. \A products \in Catalogues : IsCatalogue(products)
  BY EngineAssumption DEF IsCatalogue
<1>2. IsCatalogue(<<>>) BY DEF IsCatalogue
<1> QED BY <1>1, <1>2

\* The rules and the taxes write journal entries.
LEMMA EntriesAreEntries ==
  /\ RuleEntry \subseteq JournalEntry /\ SaneEntry \subseteq RuleEntry
  /\ TaxEntrySet \subseteq JournalEntry
  BY DEF RuleEntry, SaneEntry, RuleEntries, SaneEntries, TaxEntrySet

\* A sequence of elements of a set is one of elements of any larger set.
LEMMA Widen == \A S, T, s : S \subseteq T /\ s \in Seq(S) => s \in Seq(T)
  OBVIOUS

\* The invariant holds at first.
LEMMA InitGiven == Init => GivenInv
<1> SUFFICES ASSUME Init PROVE GivenInv OBVIOUS
<1>1. collection \in Seq(Document) BY EngineAssumption DEF Init
<1>2. <<>> \in Seq(Invoice) /\ <<>> \in Seq(JournalEntry) OBVIOUS
<1>3. TypeOK BY <1>1, <1>2 DEF Init, TypeOK
<1> QED BY <1>3 DEF Init, GivenInv, LedgerInv, InvoicesAreOfPeriod, JournalIsAccounted,
          ResultsAreCurrent, Taxed

\* Reading the invoices keeps it: each document of the period is read once.
LEMMA FetchKeeps == ASSUME GivenInv, FetchInvoices PROVE GivenInv'
<1> DEFINE found == Found(collection)
           read == [i \in DOMAIN found |-> Normalize(found[i])]
           ids == {k \in DOMAIN collection : Matches(collection[k])}
<1>1. collection \in Seq(Document) BY DEF GivenInv, LedgerInv, TypeOK
<1>2. invoices' = read /\ stage = "fetch" /\ stage' = "products"
  BY DEF FetchInvoices, Select, Found, Parts, Part
<1>3. found \in Seq(Document) /\ Len(found) = Cardinality(ids)
      /\ ToSet(found) = {collection[k] : k \in ids}
  BY <1>1, FoundType, FoundLength, FoundElements
<1>4. /\ read \in Seq(Invoice) /\ Len(read) = Len(found) /\ DOMAIN read = DOMAIN found
      /\ \A i \in DOMAIN found : read[i] = Normalize(found[i])
  <2> DEFINE n == Len(found)  e(i) == Normalize(found[i])
  <2> HIDE DEF found
  <2>0. found \in Seq(Document) BY <1>3
  <2>1. DOMAIN found = 1..n /\ n \in Nat /\ \A i \in 1..n : found[i] \in Document
    BY ONLY <2>0
  <2>2. \A i \in 1..n : e(i) \in Invoice BY <2>1, NormalizeType
  <2>3. read = [i \in 1..n |-> e(i)] BY <2>1
  <2> HIDE DEF n, e
  <2>4. [i \in 1..n |-> e(i)] \in Seq(Invoice) /\ Len([i \in 1..n |-> e(i)]) = n
    BY <2>1, <2>2
  <2>5. \A i \in 1..n : [k \in 1..n |-> e(k)][i] = e(i) OBVIOUS
  <2> QED BY <2>1, <2>3, <2>4, <2>5 DEF n, e
<1>5. ToSet(read) = {Normalize(collection[k]) : k \in ids}
  <2>1. ToSet(read) = {read[i] : i \in DOMAIN read} BY DEF ToSet
  <2>2. ToSet(found) = {found[i] : i \in DOMAIN found} BY DEF ToSet
  <2> HIDE DEF found, read, ids
  <2>3. {read[i] : i \in DOMAIN read} = {Normalize(d) : d \in {found[i] : i \in DOMAIN found}}
    BY <1>4
  <2>4. {Normalize(d) : d \in {collection[k] : k \in ids}} = {Normalize(collection[k]) : k \in ids}
    OBVIOUS
  <2> QED BY <1>3, <2>1, <2>2, <2>3, <2>4
<1>6. collection' = collection BY DEF FetchInvoices
<1>7. TypeOK'
  <2> HIDE DEF found, read
  <2> QED BY <1>2, <1>4 DEF GivenInv, LedgerInv, TypeOK, FetchInvoices
<1>8. InvoicesAreOfPeriod'
  <2>1. {k \in DOMAIN collection' : Matches(collection[k])'} = ids BY <1>6 DEF Matches
  <2>2. \A k : Normalize(collection[k])' = Normalize(collection[k])
    BY <1>6 DEF Normalize, FirstPresent, Min
  <2> HIDE DEF found, read, ids
  <2> QED BY <1>2, <1>3, <1>4, <1>5, <1>6, <2>1 DEF InvoicesAreOfPeriod
<1>9. author = "none" \/ author # "none" OBVIOUS
<1>10. JournalIsAccounted' /\ ResultsAreCurrent'
  BY <1>2 DEF GivenInv, LedgerInv, JournalIsAccounted, ResultsAreCurrent, Taxed, FetchInvoices
<1> QED BY <1>6, <1>7, <1>8, <1>10 DEF GivenInv, LedgerInv

\* Before the taxes nothing is appended.
LEMMA NothingBooked == ASSUME NEW S, NEW s \in Seq(S) PROVE s \o <<>> = s
  OBVIOUS

\* What the rules, and an exemplary model, write is a journal.
LEMMA WrittenType ==
  ASSUME NEW invs \in Seq(Invoice), NEW products, IsCatalogue(products)
  PROVE  /\ RuleJournal(invs, products) \in Seq(JournalEntry)
         /\ SampleJournal(invs, products) \in Seq(JournalEntry)
<1>1. \A some \in Seq(Invoice) : RuleJournal(some, products) \in Seq(JournalEntry)
  <2>1. \A some \in Seq(Invoice) : RuleJournal(some, products) \in Seq(RuleEntry)
    BY RuleJournalType
  <2> QED BY <2>1, EntriesAreEntries, Widen
<1>2. SubSeq(invs, 1, IF Len(invs) < LlmSample THEN Len(invs) ELSE LlmSample) \in Seq(Invoice)
  BY EngineAssumption, SampleType
<1> QED BY <1>1, <1>2 DEF SampleJournal

\* Reading the products keeps it.
LEMMA ProductsKeep == ASSUME GivenInv, FetchProducts PROVE GivenInv'
<1>1. stage = "products" /\ author = "none" /\ journal = <<>>
  BY DEF GivenInv, LedgerInv, JournalIsAccounted, FetchProducts
<1>2. TypeOK' BY DEF GivenInv, LedgerInv, TypeOK, FetchProducts
<1>3. InvoicesAreOfPeriod'
  <2>1. InvoicesAreOfPeriod /\ collection' = collection /\ invoices' = invoices
        /\ stage \notin {"fetch", "raised"} /\ stage' \notin {"fetch", "raised"}
    BY <1>1 DEF GivenInv, LedgerInv, FetchProducts
  <2> QED BY <2>1 DEF InvoicesAreOfPeriod
<1>4. JournalIsAccounted' /\ ResultsAreCurrent'
  BY <1>1 DEF GivenInv, LedgerInv, JournalIsAccounted, ResultsAreCurrent, Taxed, FetchProducts
<1> QED BY <1>2, <1>3, <1>4 DEF GivenInv, LedgerInv, FetchProducts

\* What was read stays as it was.
LEMMA PeriodKept ==
  ASSUME InvoicesAreOfPeriod, collection' = collection, invoices' = invoices,
         stage' # "fetch", stage \notin {"fetch", "raised"} \/ stage' = "raised"
  PROVE  InvoicesAreOfPeriod'
  BY DEF InvoicesAreOfPeriod

\* So does the journal of the model.
LEMMA LlmKeeps == ASSUME GivenInv, JournalByLlm PROVE GivenInv'
<1>1. stage = "journal" /\ stage' = "taxes" /\ author' \in {"model", "any model"}
      /\ UNCHANGED <<collection, invoices, catalogue, taxes, summary, reports>>
  BY DEF JournalByLlm
<1>2. \/ author' = "model" /\ journal' = SampleJournal(invoices, catalogue)
      \/ author' = "any model" /\ journal' \in Foreign
  BY DEF JournalByLlm
<1>3. journal' \in Seq(JournalEntry)
  <2>1. invoices \in Seq(Invoice) /\ IsCatalogue(catalogue)
    BY CataloguesAre DEF GivenInv, LedgerInv, TypeOK
  <2>2. Foreign \subseteq Seq(JournalEntry) BY EngineAssumption
  <2> QED BY <1>2, <2>1, <2>2, WrittenType
<1>4. TypeOK' BY <1>1, <1>3 DEF GivenInv, LedgerInv, TypeOK
<1>5. InvoicesAreOfPeriod' BY <1>1, PeriodKept DEF GivenInv, LedgerInv
<1>6. journal' \o <<>> = journal' BY <1>3, NothingBooked
<1>7. JournalIsAccounted'
  <2>1. ~ Taxed' BY <1>1 DEF Taxed
  <2> QED BY <1>1, <1>2, <1>6, <2>1 DEF JournalIsAccounted
<1>8. ResultsAreCurrent' BY <1>1 DEF GivenInv, LedgerInv, ResultsAreCurrent, Taxed
<1> QED BY <1>1, <1>4, <1>5, <1>7, <1>8 DEF GivenInv, LedgerInv

\* So does the journal of the rules.
LEMMA RulesKeep == ASSUME GivenInv, JournalByRules PROVE GivenInv'
<1>1. stage = "journal" /\ stage' = "taxes" /\ author' = "rules"
      /\ journal' = RuleJournal(invoices, catalogue)
      /\ UNCHANGED <<collection, invoices, catalogue, taxes, summary, reports>>
  BY DEF JournalByRules
<1>2. journal' \in Seq(JournalEntry)
  <2>1. invoices \in Seq(Invoice) /\ IsCatalogue(catalogue)
    BY CataloguesAre DEF GivenInv, LedgerInv, TypeOK
  <2> QED BY <1>1, <2>1, WrittenType
<1>3. TypeOK' BY <1>1, <1>2 DEF GivenInv, LedgerInv, TypeOK
<1>4. InvoicesAreOfPeriod' BY <1>1, PeriodKept DEF GivenInv, LedgerInv
<1>5. journal' \o <<>> = journal' BY <1>2, NothingBooked
<1>6. JournalIsAccounted'
  <2>1. ~ Taxed' BY <1>1 DEF Taxed
  <2> QED BY <1>1, <1>5, <2>1 DEF JournalIsAccounted
<1>7. ResultsAreCurrent' BY <1>1 DEF GivenInv, LedgerInv, ResultsAreCurrent, Taxed
<1> QED BY <1>1, <1>3, <1>4, <1>6, <1>7 DEF GivenInv, LedgerInv

\* So do the taxes and their entries.
LEMMA TaxesKeep == ASSUME GivenInv, CalculateTaxes PROVE GivenInv'
<1> DEFINE b == CalculatePeriodTaxes(invoices, catalogue)
           booked == TaxEntries(TaxCalculations(b))
<1>1. /\ stage = "taxes" /\ stage' = "summary" /\ taxes' = b /\ journal' = journal \o booked
      /\ UNCHANGED <<collection, invoices, catalogue, author, summary, reports>>
  BY DEF CalculateTaxes
<1>2. invoices \in Seq(Invoice) /\ IsCatalogue(catalogue) /\ journal \in Seq(JournalEntry)
  BY CataloguesAre DEF GivenInv, LedgerInv, TypeOK
<1>3. booked \in Seq(JournalEntry)
  <2>1. Breakdown(b) BY <1>2, TaxesAre
  <2>2. TaxCalculations(b) \in Seq({c \in Due : c.amount > 0}) BY <2>1, DuePartsType
  <2>3. booked \in Seq(TaxEntrySet) BY <2>2, TaxEntriesType
  <2> QED BY <2>3, EntriesAreEntries, Widen
<1>4. TypeOK'
  <2>1. journal \o booked \in Seq(JournalEntry) BY <1>2, <1>3
  <2> QED BY <1>1, <2>1 DEF GivenInv, LedgerInv, TypeOK
<1>5. InvoicesAreOfPeriod' BY <1>1, PeriodKept DEF GivenInv, LedgerInv
<1>6. JournalIsAccounted'
  <2>1. Taxed' /\ ~ Taxed BY <1>1 DEF Taxed
  <2>2. \A s \in Seq(JournalEntry) : s \o <<>> = s BY NothingBooked
  <2>3. /\ author # "none"
        /\ author = "rules" => journal = RuleJournal(invoices, catalogue)
        /\ author = "model" => journal = SampleJournal(invoices, catalogue)
        /\ author = "any model" => journal \in Foreign
    <3>1. /\ RuleJournal(invoices, catalogue) \o <<>> = RuleJournal(invoices, catalogue)
          /\ SampleJournal(invoices, catalogue) \o <<>> = SampleJournal(invoices, catalogue)
          /\ \A made \in Foreign : made \o <<>> = made
      BY <1>2, <2>2, WrittenType, EngineAssumption
    <3> QED BY <1>1, <2>1, <3>1 DEF GivenInv, LedgerInv, JournalIsAccounted
  <2> HIDE DEF b
  <2> QED BY <1>1, <2>1, <2>3 DEF JournalIsAccounted
<1>7. ResultsAreCurrent'
  <2>1. summary = Unset /\ reports = Unset
    BY <1>1 DEF GivenInv, LedgerInv, ResultsAreCurrent
  <2> QED BY <1>1, <2>1 DEF ResultsAreCurrent, Taxed, Unset
<1> QED BY <1>1, <1>4, <1>5, <1>6, <1>7 DEF GivenInv, LedgerInv

\* So do the summary and the reports.
LEMMA ReportKeeps == ASSUME GivenInv, Report PROVE GivenInv'
<1>1. /\ stage = "summary" /\ stage' = "completed"
      /\ summary' = FinancialSummary(invoices, journal)
      /\ reports' = [pl |-> ProfitAndLoss(journal), bs |-> BalanceSheet(journal)]
      /\ UNCHANGED <<collection, invoices, catalogue, journal, author, taxes>>
  BY DEF Report
<1>2. TypeOK' BY <1>1 DEF GivenInv, LedgerInv, TypeOK
<1>3. InvoicesAreOfPeriod' BY <1>1, PeriodKept DEF GivenInv, LedgerInv
<1>4. Taxed /\ Taxed' BY <1>1 DEF Taxed
<1>5. JournalIsAccounted' BY <1>1, <1>4 DEF GivenInv, LedgerInv, JournalIsAccounted
<1>6. ResultsAreCurrent' BY <1>1, <1>4 DEF GivenInv, LedgerInv, ResultsAreCurrent
<1> QED BY <1>1, <1>2, <1>3, <1>5, <1>6 DEF GivenInv, LedgerInv

\* So does an exception.
LEMMA RaiseKeeps == ASSUME GivenInv, Raise PROVE GivenInv'
<1>1. /\ stage \in {"fetch", "products", "journal", "taxes"} /\ stage' = "raised"
      /\ UNCHANGED <<collection, invoices, catalogue, journal, author, taxes, summary, reports>>
  BY DEF Raise
<1>2. TypeOK' BY <1>1 DEF GivenInv, LedgerInv, TypeOK
<1>3. InvoicesAreOfPeriod' BY <1>1, PeriodKept DEF GivenInv, LedgerInv
<1>4. ~ Taxed /\ ~ Taxed' BY <1>1 DEF Taxed
<1>5. JournalIsAccounted' BY <1>1, <1>4 DEF GivenInv, LedgerInv, JournalIsAccounted
<1>6. ResultsAreCurrent' BY <1>1, <1>4 DEF GivenInv, LedgerInv, ResultsAreCurrent, Unset
<1> QED BY <1>1, <1>2, <1>3, <1>5, <1>6 DEF GivenInv, LedgerInv

\* So does a stutter.
LEMMA StutterKeeps == ASSUME GivenInv, UNCHANGED vars PROVE GivenInv'
<1>1. UNCHANGED <<stage, collection, invoices, catalogue, journal, author, taxes, summary, reports>>
  BY DEF vars
<1>2. TypeOK' BY <1>1 DEF GivenInv, LedgerInv, TypeOK
<1>3. InvoicesAreOfPeriod'
  BY <1>1 DEF GivenInv, LedgerInv, InvoicesAreOfPeriod
<1>4. Taxed' = Taxed BY <1>1 DEF Taxed
<1>5. JournalIsAccounted' BY <1>1, <1>4 DEF GivenInv, LedgerInv, JournalIsAccounted
<1>6. ResultsAreCurrent' BY <1>1, <1>4 DEF GivenInv, LedgerInv, ResultsAreCurrent, Unset
<1> QED BY <1>1, <1>2, <1>3, <1>5, <1>6 DEF GivenInv, LedgerInv

\* The inductive invariant, with the collection that it was read from.
THEOREM LedgerGiven == Spec => []GivenInv
<1>1. ASSUME GivenInv, [Next]_vars PROVE GivenInv'
  <2>1. CASE FetchInvoices BY <1>1, <2>1, FetchKeeps
  <2>2. CASE FetchProducts BY <1>1, <2>2, ProductsKeep
  <2>3. CASE JournalByLlm BY <1>1, <2>3, LlmKeeps
  <2>4. CASE JournalByRules BY <1>1, <2>4, RulesKeep
  <2>5. CASE CalculateTaxes BY <1>1, <2>5, TaxesKeep
  <2>6. CASE Report BY <1>1, <2>6, ReportKeeps
  <2>7. CASE Raise BY <1>1, <2>7, RaiseKeeps
  <2>8. CASE UNCHANGED vars BY <1>1, <2>8, StutterKeeps
  <2> QED BY <1>1, <2>1, <2>2, <2>3, <2>4, <2>5, <2>6, <2>7, <2>8 DEF Next
<1> QED BY <1>1, InitGiven, PTL DEF Spec

\* Where everything a job holds came from, for every collection, catalogue and
\* foreign journal: every document of the period is read, and read once; the
\* journal is what its author wrote and one entry for each tax; taxes, summary and
\* reports are those of the invoices and the journal that the job ends with.
THEOREM LedgerInvariant == Spec => []LedgerInv
<1>1. GivenInv => LedgerInv BY DEF GivenInv
<1> QED BY <1>1, LedgerGiven, PTL

-----------------------------------------------------------------------------
(* What is summed over the journal.                                        *)

\* The weight of the rule-based journal is the sum of those of its parts.
LEMMA RuleJournalWeight ==
  ASSUME NEW w, \A e \in JournalEntry : w[e] \in Int,
         NEW invs \in Seq(Invoice), NEW products, IsCatalogue(products)
  PROVE  Weight(RuleJournal(invs, products), w) =
           SumFunction([i \in DOMAIN invs |-> Weight(InvoiceEntries(invs[i], i, products), w)])
<1> DEFINE q == RuleParts(invs, products)
           v == [s \in Seq(JournalEntry) |-> Weight(s, w)]
           e(i) == InvoiceEntries(invs[i], i, products)
<1>1. RuleJournal(invs, products) = FlattenSeq(q) BY DEF RuleJournal, RuleParts
<1>2. q \in Seq(Seq(JournalEntry)) /\ Len(q) = Len(invs)
  <2>1. Seq(RuleEntry) \subseteq Seq(JournalEntry) BY EntriesAreEntries, Widen
  <2>2. q \in Seq(Seq(RuleEntry)) /\ Len(q) = Len(invs) BY RulePartsType
  <2> QED BY <2>1, <2>2, Widen
<1>3. Weight(FlattenSeq(q), w) = Weight(q, v) BY <1>2, WeightFlatten
<1>4. DOMAIN q = DOMAIN invs /\ DOMAIN invs = 1..Len(invs) BY <1>2
<1>5. \A i \in DOMAIN invs : q[i] = e(i) /\ e(i) \in Seq(JournalEntry)
  BY <1>2, <1>4, RulePartsType
<1>6. [i \in DOMAIN q |-> v[q[i]]] = [i \in DOMAIN invs |-> Weight(e(i), w)]
  <2>1. \A i \in DOMAIN invs : v[q[i]] = Weight(e(i), w)
    <3> HIDE DEF q, e
    <3> QED BY <1>5
  <2> HIDE DEF q, e, v
  <2> QED BY <1>4, <2>1
<1> QED BY <1>1, <1>3, <1>6 DEF Weight

\* What one invoice adds to a weight.
LEMMA InvoiceEntriesWeight ==
  ASSUME NEW w, \A e \in JournalEntry : w[e] \in Int,
         NEW inv \in Invoice, NEW products, IsCatalogue(products), NEW i \in Nat
  PROVE  LET cogs == Cogs(inv, products)
             sum == Weight(InvoiceEntries(inv, i, products), w)
         IN  /\ inv.status = "PAID" =>
                  sum = w[Entry("Cash/Bank", inv.total, 0, i)]
                        + w[Entry("Revenue", 0, inv.total - inv.tax, i)]
                        + (IF inv.tax > 0 THEN w[Entry("VAT Payable", 0, inv.tax, i)] ELSE 0)
                        + (IF cogs > 0 THEN w[Entry("Cost of Goods Sold", cogs, 0, i)]
                                            + w[Entry("Inventory", 0, cogs, i)] ELSE 0)
             /\ inv.status = "PARTIAL" =>
                  sum = w[Entry("Cash/Bank", inv.paid, 0, i)]
                        + w[Entry("Accounts Receivable", inv.total - inv.paid, 0, i)]
                        + w[Entry("Revenue", 0, inv.total, i)]
             /\ inv.status \in Accrued =>
                  sum = w[Entry("Accounts Receivable", inv.total, 0, i)]
                        + w[Entry("Revenue", 0, inv.total, i)]
             /\ inv.status \in Silent => sum = 0
<1> DEFINE cogs == Cogs(inv, products)
           entries == InvoiceEntries(inv, i, products)
<1>0. /\ inv.total \in Int /\ inv.tax \in Int /\ inv.paid \in Int /\ cogs \in Int
      /\ inv.total - inv.tax \in Int /\ inv.total - inv.paid \in Int
  <2>1. inv.total \in Int /\ inv.tax \in Int /\ inv.paid \in Int BY DEF Invoice
  <2>2. cogs \in Int BY CogsType
  <2> QED BY <2>1, <2>2
<1>1. ASSUME NEW n \in Int
      PROVE  /\ Entry("Cash/Bank", n, 0, i) \in JournalEntry
             /\ Entry("Accounts Receivable", n, 0, i) \in JournalEntry
             /\ Entry("Cost of Goods Sold", n, 0, i) \in JournalEntry
             /\ Entry("Revenue", 0, n, i) \in JournalEntry
             /\ Entry("Inventory", 0, n, i) \in JournalEntry
             /\ Entry("VAT Payable", 0, n, i) \in JournalEntry
  <2>1. {"Cash/Bank", "Accounts Receivable", "Revenue", "Cost of Goods Sold", "Inventory",
         "VAT Payable"} \subseteq Ledger
    BY DEF Ledger
  <2>2. \A a \in Ledger : Entry(a, n, 0, i) \in JournalEntry /\ Entry(a, 0, n, i) \in JournalEntry
    BY EntryIs
  <2> QED BY <2>1, <2>2
<1>2. ASSUME inv.status = "PAID"
      PROVE  Weight(entries, w) =
               w[Entry("Cash/Bank", inv.total, 0, i)]
               + w[Entry("Revenue", 0, inv.total - inv.tax, i)]
               + (IF inv.tax > 0 THEN w[Entry("VAT Payable", 0, inv.tax, i)] ELSE 0)
               + (IF cogs > 0 THEN w[Entry("Cost of Goods Sold", cogs, 0, i)]
                                   + w[Entry("Inventory", 0, cogs, i)] ELSE 0)
  <2> DEFINE cash == Entry("Cash/Bank", inv.total, 0, i)
             sale == Entry("Revenue", 0, inv.total - inv.tax, i)
             vat == Entry("VAT Payable", 0, inv.tax, i)
             cost == Entry("Cost of Goods Sold", cogs, 0, i)
             goods == Entry("Inventory", 0, cogs, i)
             a == <<cash, sale>>
             b == IF inv.tax > 0 THEN <<vat>> ELSE <<>>
             c == IF cogs > 0 THEN <<cost, goods>> ELSE <<>>
  <2>1. entries = (a \o b) \o c BY <1>2 DEF InvoiceEntries, PaidEntries, Accrued
  <2>2. /\ cash \in JournalEntry /\ sale \in JournalEntry /\ vat \in JournalEntry
        /\ cost \in JournalEntry /\ goods \in JournalEntry
    BY <1>0, <1>1
  <2> HIDE DEF cash, sale, vat, cost, goods, cogs
  <2>3. a \in Seq(JournalEntry) /\ b \in Seq(JournalEntry) /\ c \in Seq(JournalEntry) BY <2>2
  <2>4. Weight(a, w) = w[cash] + w[sale] BY <2>2, Weight2
  <2>5. Weight(b, w) = IF inv.tax > 0 THEN w[vat] ELSE 0 BY <2>2, WeightOne, WeightEmpty
  <2>6. Weight(c, w) = IF cogs > 0 THEN w[cost] + w[goods] ELSE 0 BY <2>2, Weight2, WeightEmpty
  <2> HIDE DEF a, b, c, entries
  <2>7. Weight(a \o b, w) = Weight(a, w) + Weight(b, w) /\ a \o b \in Seq(JournalEntry)
    BY <2>3, WeightConcat
  <2>8. Weight((a \o b) \o c, w) = Weight(a \o b, w) + Weight(c, w) BY <2>3, <2>7, WeightConcat
  <2> QED BY <2>1, <2>4, <2>5, <2>6, <2>7, <2>8 DEF cash, sale, vat, cost, goods
<1>3. ASSUME inv.status = "PARTIAL"
      PROVE  Weight(entries, w) =
               w[Entry("Cash/Bank", inv.paid, 0, i)]
               + w[Entry("Accounts Receivable", inv.total - inv.paid, 0, i)]
               + w[Entry("Revenue", 0, inv.total, i)]
  <2> DEFINE cash == Entry("Cash/Bank", inv.paid, 0, i)
             rest == Entry("Accounts Receivable", inv.total - inv.paid, 0, i)
             sale == Entry("Revenue", 0, inv.total, i)
  <2>1. entries = <<cash, rest, sale>> BY <1>3 DEF InvoiceEntries, PartialEntries, Accrued
  <2>2. cash \in JournalEntry /\ rest \in JournalEntry /\ sale \in JournalEntry
    BY <1>0, <1>1
  <2> HIDE DEF cash, rest, sale
  <2>3. Weight(<<cash, rest, sale>>, w) = w[cash] + w[rest] + w[sale] BY <2>2, Weight3
  <2> QED BY <2>1, <2>3 DEF cash, rest, sale
<1>4. ASSUME inv.status \in Accrued
      PROVE  Weight(entries, w) = w[Entry("Accounts Receivable", inv.total, 0, i)]
                                  + w[Entry("Revenue", 0, inv.total, i)]
  <2> DEFINE rest == Entry("Accounts Receivable", inv.total, 0, i)
             sale == Entry("Revenue", 0, inv.total, i)
  <2>1. entries = <<rest, sale>> BY <1>4 DEF InvoiceEntries, Accrued
  <2>2. rest \in JournalEntry /\ sale \in JournalEntry BY <1>0, <1>1
  <2> HIDE DEF rest, sale
  <2>3. Weight(<<rest, sale>>, w) = w[rest] + w[sale] BY <2>2, Weight2
  <2> QED BY <2>1, <2>3 DEF rest, sale
<1>5. ASSUME inv.status \in Silent PROVE Weight(entries, w) = 0
  <2>1. entries = <<>> BY <1>5, InvoiceEntriesAre
  <2> QED BY <2>1, WeightEmpty
<1> QED BY <1>2, <1>3, <1>4, <1>5

-----------------------------------------------------------------------------
(* Every invoice balances.                                                 *)

\* Sane bills are read as sane invoices.
LEMMA InvoicesAreSane ==
  ASSUME BillsAreSane, GivenInv PROVE \A i \in DOMAIN invoices : SaneInvoice(invoices[i])
<1> DEFINE ids == {k \in DOMAIN collection : Matches(collection[k])}
<1>1. CASE invoices = <<>> BY <1>1
<1>2. CASE ToSet(invoices) = {Normalize(collection[k]) : k \in ids}
  <2>1. \A k \in ids : SaneInvoice(Normalize(collection[k])) BY DEF BillsAreSane, GivenInv
  <2>2. \A i \in DOMAIN invoices : invoices[i] \in ToSet(invoices) BY DEF ToSet
  <2> HIDE DEF ids
  <2> QED BY <1>2, <2>1, <2>2
<1> QED BY <1>1, <1>2 DEF GivenInv, LedgerInv, InvoicesAreOfPeriod

\* The journal of a job whose author is known, in two parts.
LEMMA JournalParts ==
  ASSUME LedgerInv, author \in {"rules", "model"}
  PROVE  \E shown \in Seq(Invoice), booked \in Seq(TaxEntrySet) :
            /\ journal = RuleJournal(shown, catalogue) \o booked
            /\ RuleJournal(shown, catalogue) \in Seq(RuleEntry)
            /\ RuleJournal(shown, catalogue) \in Seq(JournalEntry)
            /\ booked \in Seq(JournalEntry)
            /\ author = "rules" => shown = invoices
            /\ author = "model" =>
                  Len(shown) = IF Len(invoices) < LlmSample THEN Len(invoices) ELSE LlmSample
            /\ Len(shown) <= Len(invoices)
            /\ \A i \in 1..Len(shown) : shown[i] = invoices[i]
            /\ Taxed => booked = TaxEntries(TaxCalculations(taxes)) /\ Breakdown(taxes)
<1> DEFINE k == IF Len(invoices) < LlmSample THEN Len(invoices) ELSE LlmSample
           shown == IF author = "rules" THEN invoices ELSE SubSeq(invoices, 1, k)
           booked == IF Taxed THEN TaxEntries(TaxCalculations(taxes)) ELSE <<>>
<1>1. invoices \in Seq(Invoice) /\ IsCatalogue(catalogue)
  BY CataloguesAre DEF LedgerInv, TypeOK
<1>2. /\ shown \in Seq(Invoice)
      /\ author = "rules" => shown = invoices
      /\ author = "model" => Len(shown) = k
      /\ Len(shown) <= Len(invoices)
      /\ \A i \in 1..Len(shown) : shown[i] = invoices[i]
  <2>1. CASE author = "rules" BY <1>1, <2>1
  <2>2. CASE author = "model"
    <3>1. shown = SubSeq(invoices, 1, k) BY <2>2
    <3>2. LlmSample \in Nat BY EngineAssumption
    <3> HIDE DEF shown
    <3> QED BY <1>1, <2>2, <3>1, <3>2, SampleType
  <2> QED BY <2>1, <2>2
<1>3. journal = RuleJournal(shown, catalogue) \o booked
  BY DEF LedgerInv, JournalIsAccounted, SampleJournal
<1>4. Taxed => Breakdown(taxes) BY <1>1, TaxesAre DEF LedgerInv, ResultsAreCurrent
<1>5. booked \in Seq(TaxEntrySet)
  <2>1. CASE Taxed
    <3>1. TaxCalculations(taxes) \in Seq({c \in Due : c.amount > 0}) BY <1>4, <2>1, DuePartsType
    <3>2. TaxEntries(TaxCalculations(taxes)) \in Seq(TaxEntrySet) BY <3>1, TaxEntriesType
    <3> QED BY <2>1, <3>2
  <2>2. CASE ~ Taxed BY <2>2
  <2> QED BY <2>1, <2>2
<1> HIDE DEF shown
<1>6. RuleJournal(shown, catalogue) \in Seq(RuleEntry) BY <1>1, <1>2, RuleJournalType
<1>7. RuleJournal(shown, catalogue) \in Seq(JournalEntry) /\ booked \in Seq(JournalEntry)
  BY <1>5, <1>6, EntriesAreEntries, Widen
<1>8. Taxed => booked = TaxEntries(TaxCalculations(taxes)) OBVIOUS
<1> HIDE DEF booked
<1> QED BY <1>2, <1>3, <1>4, <1>5, <1>6, <1>7, <1>8 DEF k

\* The debits of an invoice less its credits.
Imbalance(i) == [e \in JournalEntry |-> IF e.invoice = i THEN e.debit - e.credit ELSE 0]

\* A debit of the invoice counts for it, and a credit against it.
LEMMA ImbalanceIs ==
  ASSUME NEW i
  PROVE  /\ \A e \in JournalEntry : Imbalance(i)[e] \in Int
         /\ \A a \in Ledger, d \in Int, c \in Int, k \in Nat :
               Imbalance(i)[Entry(a, d, c, k)] = IF k = i THEN d - c ELSE 0
<1>1. \A e \in JournalEntry : e.debit \in Int /\ e.credit \in Int BY DEF JournalEntry
<1>2. \A a \in Ledger, d \in Int, c \in Int, k \in Nat :
         /\ Entry(a, d, c, k) \in JournalEntry /\ Entry(a, d, c, k).debit = d
         /\ Entry(a, d, c, k).credit = c /\ Entry(a, d, c, k).invoice = k
  BY DEF Entry, JournalEntry
<1> QED BY <1>1, <1>2 DEF Imbalance

\* What the rules write for one invoice balances for every invoice.
LEMMA InvoiceBalances ==
  ASSUME NEW inv \in Invoice, inv.tax >= 0, NEW products, IsCatalogue(products),
         NEW i \in Nat, NEW k \in Nat
  PROVE  Weight(InvoiceEntries(inv, k, products), Imbalance(i)) = 0
<1> DEFINE w == Imbalance(i)  cogs == Cogs(inv, products)
<1>1. /\ inv.total \in Int /\ inv.tax \in Int /\ inv.paid \in Int /\ inv.status \in Statuses
      /\ inv.total - inv.tax \in Int /\ inv.total - inv.paid \in Int
  <2>1. inv.total \in Int /\ inv.tax \in Int /\ inv.paid \in Int /\ inv.status \in Statuses
    BY DEF Invoice
  <2> QED BY <2>1
<1>2. cogs \in Int BY CogsType
<1>3. \A e \in JournalEntry : w[e] \in Int BY ImbalanceIs
<1>4. \A n \in Int :
        /\ w[Entry("Cash/Bank", n, 0, k)] = IF k = i THEN n ELSE 0
        /\ w[Entry("Accounts Receivable", n, 0, k)] = IF k = i THEN n ELSE 0
        /\ w[Entry("Cost of Goods Sold", n, 0, k)] = IF k = i THEN n ELSE 0
        /\ w[Entry("Revenue", 0, n, k)] = IF k = i THEN -n ELSE 0
        /\ w[Entry("Inventory", 0, n, k)] = IF k = i THEN -n ELSE 0
        /\ w[Entry("VAT Payable", 0, n, k)] = IF k = i THEN -n ELSE 0
  <2>1. {"Cash/Bank", "Accounts Receivable", "Revenue", "Cost of Goods Sold", "Inventory",
         "VAT Payable"} \subseteq Ledger
    BY DEF Ledger
  <2>2. \A a \in Ledger, n \in Int :
          /\ w[Entry(a, n, 0, k)] = IF k = i THEN n - 0 ELSE 0
          /\ w[Entry(a, 0, n, k)] = IF k = i THEN 0 - n ELSE 0
    BY ImbalanceIs
  <2>3. \A n \in Int : n - 0 = n /\ 0 - n = -n OBVIOUS
  <2> HIDE DEF w
  <2>4. \A a \in Ledger, n \in Int :
          /\ w[Entry(a, n, 0, k)] = IF k = i THEN n ELSE 0
          /\ w[Entry(a, 0, n, k)] = IF k = i THEN -n ELSE 0
    BY <2>2, <2>3
  <2> QED BY <2>1, <2>4
<1> HIDE DEF w, cogs
<1>5. CASE inv.status = "PAID"
  <2>1. Weight(InvoiceEntries(inv, k, products), w)
          = w[Entry("Cash/Bank", inv.total, 0, k)]
            + w[Entry("Revenue", 0, inv.total - inv.tax, k)]
            + (IF inv.tax > 0 THEN w[Entry("VAT Payable", 0, inv.tax, k)] ELSE 0)
            + (IF cogs > 0 THEN w[Entry("Cost of Goods Sold", cogs, 0, k)]
                                + w[Entry("Inventory", 0, cogs, k)] ELSE 0)
    BY <1>3, <1>5, InvoiceEntriesWeight DEF cogs
  <2>2. /\ w[Entry("Cash/Bank", inv.total, 0, k)] = IF k = i THEN inv.total ELSE 0
        /\ w[Entry("Revenue", 0, inv.total - inv.tax, k)]
              = IF k = i THEN -(inv.total - inv.tax) ELSE 0
        /\ w[Entry("VAT Payable", 0, inv.tax, k)] = IF k = i THEN -inv.tax ELSE 0
        /\ w[Entry("Cost of Goods Sold", cogs, 0, k)] = IF k = i THEN cogs ELSE 0
        /\ w[Entry("Inventory", 0, cogs, k)] = IF k = i THEN -cogs ELSE 0
    BY <1>1, <1>2, <1>4
  <2> DEFINE cash == w[Entry("Cash/Bank", inv.total, 0, k)]
             sale == w[Entry("Revenue", 0, inv.total - inv.tax, k)]
             vat == w[Entry("VAT Payable", 0, inv.tax, k)]
             cost == w[Entry("Cost of Goods Sold", cogs, 0, k)]
             goods == w[Entry("Inventory", 0, cogs, k)]
             total == inv.total
             tax == inv.tax
             sum == Weight(InvoiceEntries(inv, k, products), w)
  <2>3. /\ sum = cash + sale + (IF tax > 0 THEN vat ELSE 0)
                 + (IF cogs > 0 THEN cost + goods ELSE 0)
        /\ tax >= 0 /\ total \in Int /\ tax \in Int
        /\ cash = IF k = i THEN total ELSE 0
        /\ sale = IF k = i THEN -(total - tax) ELSE 0
        /\ vat = IF k = i THEN -tax ELSE 0
        /\ cost = IF k = i THEN cogs ELSE 0
        /\ goods = IF k = i THEN -cogs ELSE 0
    BY <1>1, <2>1, <2>2
  <2> HIDE DEF cash, sale, vat, cost, goods, total, tax, sum
  <2>4. sum = 0 BY <1>2, <2>3
  <2> QED BY <2>4 DEF w, sum
<1>6. CASE inv.status = "PARTIAL"
  <2>1. Weight(InvoiceEntries(inv, k, products), w)
          = w[Entry("Cash/Bank", inv.paid, 0, k)]
            + w[Entry("Accounts Receivable", inv.total - inv.paid, 0, k)]
            + w[Entry("Revenue", 0, inv.total, k)]
    BY <1>3, <1>6, InvoiceEntriesWeight
  <2>2. /\ w[Entry("Cash/Bank", inv.paid, 0, k)] = IF k = i THEN inv.paid ELSE 0
        /\ w[Entry("Accounts Receivable", inv.total - inv.paid, 0, k)]
              = IF k = i THEN inv.total - inv.paid ELSE 0
        /\ w[Entry("Revenue", 0, inv.total, k)] = IF k = i THEN -inv.total ELSE 0
    BY <1>1, <1>4
  <2> DEFINE cash == w[Entry("Cash/Bank", inv.paid, 0, k)]
             rest == w[Entry("Accounts Receivable", inv.total - inv.paid, 0, k)]
             sale == w[Entry("Revenue", 0, inv.total, k)]
             total == inv.total
             paid == inv.paid
             sum == Weight(InvoiceEntries(inv, k, products), w)
  <2>3. /\ sum = cash + rest + sale /\ total \in Int /\ paid \in Int
        /\ cash = IF k = i THEN paid ELSE 0
        /\ rest = IF k = i THEN total - paid ELSE 0
        /\ sale = IF k = i THEN -total ELSE 0
    BY <1>1, <2>1, <2>2
  <2> HIDE DEF cash, rest, sale, total, paid, sum
  <2>4. sum = 0 BY <2>3
  <2> QED BY <2>4 DEF w, sum
<1>7. CASE inv.status \in Accrued
  <2>1. Weight(InvoiceEntries(inv, k, products), w)
          = w[Entry("Accounts Receivable", inv.total, 0, k)] + w[Entry("Revenue", 0, inv.total, k)]
    BY <1>3, <1>7, InvoiceEntriesWeight
  <2>2. /\ w[Entry("Accounts Receivable", inv.total, 0, k)] = IF k = i THEN inv.total ELSE 0
        /\ w[Entry("Revenue", 0, inv.total, k)] = IF k = i THEN -inv.total ELSE 0
    BY <1>1, <1>4
  <2> DEFINE rest == w[Entry("Accounts Receivable", inv.total, 0, k)]
             sale == w[Entry("Revenue", 0, inv.total, k)]
             total == inv.total
             sum == Weight(InvoiceEntries(inv, k, products), w)
  <2>3. /\ sum = rest + sale /\ total \in Int
        /\ rest = IF k = i THEN total ELSE 0
        /\ sale = IF k = i THEN -total ELSE 0
    BY <1>1, <2>1, <2>2
  <2> HIDE DEF rest, sale, total, sum
  <2>4. sum = 0 BY <2>3
  <2> QED BY <2>4 DEF w, sum
<1>8. CASE inv.status \in Silent BY <1>3, <1>8, InvoiceEntriesWeight DEF w
<1> QED BY <1>1, <1>5, <1>6, <1>7, <1>8 DEF Statuses, Billing, Silent

\* The entries of the taxes are of no invoice.
LEMMA TaxesCountForNone ==
  ASSUME NEW i \in Nat \ {0}, NEW booked \in Seq(TaxEntrySet)
  PROVE  Weight(booked, Imbalance(i)) = 0
<1>1. \A e \in TaxEntrySet : Imbalance(i)[e] = 0 BY DEF TaxEntrySet, Imbalance
<1> QED BY <1>1, WeightZero

\* The rule-based entries of every invoice balance, whatever is paid of it and
\* whatever goods it moves, in a job of any size, as long as the bills are sane: a
\* negative tax would be taken off the revenue and booked nowhere.
THEOREM LedgerEveryInvoiceBalances ==
  ASSUME BillsAreSane PROVE Spec => []EveryInvoiceBalances
<1>1. ASSUME GivenInv PROVE EveryInvoiceBalances
  <2> SUFFICES ASSUME author = "rules", NEW i \in DOMAIN invoices
               PROVE  DebitsOf(i) = CreditsOf(i)
    BY DEF EveryInvoiceBalances
  <2> DEFINE w == Imbalance(i)
             debit == [e \in JournalEntry |-> IF e.invoice = i THEN e.debit ELSE 0]
             credit == [e \in JournalEntry |-> IF e.invoice = i THEN e.credit ELSE 0]
  <2>1. /\ invoices \in Seq(Invoice) /\ journal \in Seq(JournalEntry) /\ i \in Nat \ {0}
        /\ IsCatalogue(catalogue)
    BY <1>1, CataloguesAre DEF GivenInv, LedgerInv, TypeOK
  <2>2. \A e \in JournalEntry : /\ debit[e] \in Int /\ credit[e] \in Int /\ w[e] \in Int
                                /\ debit[e] = credit[e] + w[e]
    BY DEF Imbalance, JournalEntry
  <2>3. DebitsOf(i) = Weight(journal, debit) /\ CreditsOf(i) = Weight(journal, credit)
    <3>1. \A k \in DOMAIN journal : journal[k] \in JournalEntry BY <2>1
    <3> QED BY <3>1 DEF DebitsOf, CreditsOf, SumOver, Weight
  <2>4. Weight(journal, w) = 0
    <3>1. PICK booked \in Seq(TaxEntrySet) :
            /\ journal = RuleJournal(invoices, catalogue) \o booked
            /\ RuleJournal(invoices, catalogue) \in Seq(JournalEntry)
            /\ booked \in Seq(JournalEntry)
      BY <1>1, JournalParts DEF GivenInv
    <3>2. Weight(journal, w) = Weight(RuleJournal(invoices, catalogue), w) + Weight(booked, w)
      <4> HIDE DEF w
      <4> QED BY <2>2, <3>1, WeightConcat
    <3>3. Weight(booked, w) = 0 BY <2>1, TaxesCountForNone
    <3>4. Weight(RuleJournal(invoices, catalogue), w) = 0
      <4> DEFINE part(k) == Weight(InvoiceEntries(invoices[k], k, catalogue), w)
      <4>1. Weight(RuleJournal(invoices, catalogue), w)
              = SumFunction([k \in DOMAIN invoices |-> part(k)])
        <5> HIDE DEF w
        <5> QED BY <2>1, <2>2, RuleJournalWeight
      <4>2. \A k \in DOMAIN invoices : part(k) = 0
        <5>1. \A k \in DOMAIN invoices :
                k \in Nat /\ invoices[k] \in Invoice /\ invoices[k].tax >= 0
          BY <1>1, <2>1, InvoicesAreSane DEF SaneInvoice
        <5> QED BY <2>1, <5>1, InvoiceBalances
      <4> HIDE DEF part
      <4>3. [k \in DOMAIN invoices |-> part(k)] \in Seq({0}) BY <2>1, <4>2
      <4> QED BY <4>1, <4>3, SumZero
    <3> QED BY <3>2, <3>3, <3>4
  <2>5. Weight(journal, debit) = Weight(journal, credit) + Weight(journal, w)
    <3>1. /\ debit \in [JournalEntry -> Int] /\ credit \in [JournalEntry -> Int]
          /\ w \in [JournalEntry -> Int]
      BY <2>2 DEF Imbalance
    <3> HIDE DEF debit, credit, w
    <3>2. \A e \in JournalEntry : debit[e] = credit[e] + w[e] BY <2>2
    <3>3. \A s \in Seq(JournalEntry) : Weight(s, debit) = Weight(s, credit) + Weight(s, w)
      BY ONLY <3>1, <3>2, WeightAdd, Zenon
    <3> QED BY <2>1, <3>3
  <2>6. Weight(journal, credit) \in Int
    <3> HIDE DEF debit, credit, w
    <3> QED BY <2>1, <2>2, WeightType
  <2> QED BY <2>3, <2>4, <2>5, <2>6
<1> QED BY <1>1, LedgerGiven, PTL

-----------------------------------------------------------------------------
(* Every invoice is booked, and the tax service agrees with itself.        *)

\* The rule-based journal has an entry for every invoice that bills something.
LEMMA RulesBook ==
  ASSUME NEW invs \in Seq(Invoice), NEW products, IsCatalogue(products),
         NEW i \in 1..Len(invs), invs[i].status \notin Silent
  PROVE  \E k \in DOMAIN RuleJournal(invs, products) : RuleJournal(invs, products)[k].invoice = i
<1> DEFINE q == RuleParts(invs, products)
           s == InvoiceEntries(invs[i], i, products)
           all == RuleJournal(invs, products)
<1>1. all = FlattenSeq(q) BY DEF RuleJournal, RuleParts
<1>2. q \in Seq(Seq(RuleEntry)) /\ Len(q) = Len(invs) /\ q[i] = s BY RulePartsType
<1>3. s \in Seq(RuleEntries(i)) /\ s # <<>>
  <2>1. invs[i] \in Invoice /\ i \in Nat OBVIOUS
  <2> QED BY <2>1, InvoiceEntriesAre
<1>4. all \in Seq(RuleEntry) BY RuleJournalType
<1> HIDE DEF q, s, all
<1>5. ToSet(all) = UNION {ToSet(q[j]) : j \in 1..Len(q)} BY <1>1, <1>2, FlattenElements
<1>6. s[1] \in RuleEntries(i) /\ s[1] \in ToSet(s) BY <1>3 DEF ToSet
<1>7. s[1] \in ToSet(all) BY <1>2, <1>5, <1>6
<1>8. PICK k \in DOMAIN all : all[k] = s[1] BY <1>7 DEF ToSet
<1>9. s[1].invoice = i BY <1>6 DEF RuleEntries
<1> QED BY <1>8, <1>9 DEF all

\* Every invoice of the period that was issued, or paid in part or in full, is in the
\* journal of the rules, and in that of a model that errs in nothing unless it lies
\* beyond the sample; the bills need not be sane for that.
THEOREM LedgerBookedUnlessBeyondSample == Spec => []BookedUnlessBeyondSample
<1>1. ASSUME GivenInv PROVE BookedUnlessBeyondSample
  <2> SUFFICES ASSUME stage = "completed", author # "any model", NEW i \in DOMAIN invoices,
                      invoices[i].status \in Billing
               PROVE  \/ \E k \in DOMAIN journal : journal[k].invoice = i
                      \/ author = "model" /\ i > LlmSample
    BY DEF BookedUnlessBeyondSample
  <2>1. /\ LedgerInv /\ author \in {"rules", "model"}
        /\ invoices \in Seq(Invoice) /\ IsCatalogue(catalogue)
    BY <1>1, CataloguesAre DEF GivenInv, LedgerInv, TypeOK, JournalIsAccounted
  <2>0. i \in 1..Len(invoices) /\ Len(invoices) \in Nat
    <3>1. i \in DOMAIN invoices /\ invoices \in Seq(Invoice) BY <2>1
    <3> QED BY ONLY <3>1
  <2>2. PICK shown \in Seq(Invoice), booked \in Seq(TaxEntrySet) :
          /\ journal = RuleJournal(shown, catalogue) \o booked
          /\ RuleJournal(shown, catalogue) \in Seq(RuleEntry)
          /\ author = "rules" => shown = invoices
          /\ author = "model" =>
                Len(shown) = IF Len(invoices) < LlmSample THEN Len(invoices) ELSE LlmSample
          /\ \A k \in 1..Len(shown) : shown[k] = invoices[k]
    BY <2>1, JournalParts
  <2>3. CASE i \in 1..Len(shown)
    <3>1. shown[i].status \notin Silent BY <2>2, <2>3 DEF Billing, Accrued, Silent
    <3>0. shown \in Seq(Invoice) BY <2>2
    <3>2. PICK k \in DOMAIN RuleJournal(shown, catalogue) :
              RuleJournal(shown, catalogue)[k].invoice = i
      BY ONLY <2>1, <2>3, <3>0, <3>1, RulesBook
    <3> DEFINE r == RuleJournal(shown, catalogue)
    <3>3. /\ r \in Seq(RuleEntry) /\ booked \in Seq(TaxEntrySet) /\ journal = r \o booked
          /\ k \in DOMAIN r /\ r[k].invoice = i
      BY <2>2, <3>2
    <3> HIDE DEF r
    <3>4. k \in DOMAIN (r \o booked) /\ (r \o booked)[k] = r[k] BY ONLY <3>3
    <3>5. k \in DOMAIN journal /\ journal[k] = r[k] BY <3>3, <3>4
    <3> QED BY <3>3, <3>5
  <2>4. CASE i \notin 1..Len(shown)
    <3>0. shown \in Seq(Invoice) BY <2>2
    <3>1. Len(shown) \in Nat BY ONLY <3>0
    <3>2. author = "model" BY <2>0, <2>1, <2>2, <2>4, <3>1
    <3>3. LlmSample \in Nat BY EngineAssumption
    <3>4. i > LlmSample BY <2>0, <2>2, <2>4, <3>1, <3>2, <3>3
    <3> QED BY <3>2, <3>4
  <2> QED BY <2>3, <2>4
<1> QED BY <1>1, LedgerGiven, PTL

\* The rate that a breakdown shows is the one that was charged, and the two pieces
\* of code that work out a filing date agree in every month, for any threshold.
THEOREM LedgerTaxServiceAgrees == Spec => []TaxServiceAgrees
<1>1. ASSUME GivenInv PROVE RateShownIsCharged
  <2>1. invoices \in Seq(Invoice) /\ IsCatalogue(catalogue)
    BY <1>1, CataloguesAre DEF GivenInv, LedgerInv, TypeOK
  <2>2. Taxed => taxes = CalculatePeriodTaxes(invoices, catalogue)
    BY <1>1 DEF GivenInv, LedgerInv, ResultsAreCurrent
  <2> QED BY <2>1, <2>2, TaxesAre DEF RateShownIsCharged
<1>2. CalendarAgrees
  <2>1. ASSUME NEW month \in 1..12
        PROVE  TaxCalendar(2024)[month] = DueDate([year |-> 2024, month |-> month])
    <3>1. CASE month = 12 BY <3>1 DEF TaxCalendar, DueDate
    <3>2. CASE month < 12 BY <3>2 DEF TaxCalendar, DueDate
    <3> QED BY <3>1, <3>2
  <2> QED BY <2>1 DEF CalendarAgrees
<1>3. GivenInv => TaxServiceAgrees BY <1>1, <1>2 DEF TaxServiceAgrees
<1> QED BY <1>3, LedgerGiven, PTL

-----------------------------------------------------------------------------
(* The liability is booked.                                                *)

\* The credits of no invoice.
CreditOfNone == [e \in JournalEntry |-> IF e.invoice = 0 THEN e.credit ELSE 0]

\* What is due of an amount.
Positive == [c \in Due |-> IF c.amount > 0 THEN c.amount ELSE 0]

\* Both are integers.
LEMMA CreditOfNoneType == \A e \in JournalEntry : CreditOfNone[e] \in Int
  BY DEF CreditOfNone, JournalEntry

\* The sum of what is due is that of the positive amounts.
LEMMA DueSum ==
  ASSUME NEW b, Breakdown(b)
  PROVE  Weight(TaxCalculations(b), [c \in Due |-> c.amount]) =
           (IF b.vat["standard"] > 0 THEN b.vat["standard"] ELSE 0)
           + (IF b.vat["transport_tourism"] > 0 THEN b.vat["transport_tourism"] ELSE 0)
           + (IF b.vat["medical_education"] > 0 THEN b.vat["medical_education"] ELSE 0)
           + (IF b.corporate > 0 THEN b.corporate ELSE 0)
           + (IF b.withholding > 0 THEN b.withholding ELSE 0)
<1> DEFINE amount == [c \in Due |-> c.amount]
           q == DueParts(b)
           v == [s \in Seq(Due) |-> Weight(s, amount)]
<1>1. \A c \in Due : amount[c] \in Int /\ Positive[c] \in Int BY DEF Due, Positive
<1>2. /\ q \in Seq(Seq(Due)) /\ Len(q) = 5
      /\ TaxCalculations(b) = FlattenSeq(q)
  <2>1. {c \in Due : c.amount > 0} \subseteq Due OBVIOUS
  <2>2. Seq({c \in Due : c.amount > 0}) \subseteq Seq(Due) BY <2>1, Widen
  <2> HIDE DEF q
  <2>3. q \in Seq(Seq({c \in Due : c.amount > 0})) /\ Len(q) = 5
        /\ TaxCalculations(b) = FlattenSeq(q)
    BY DuePartsType DEF q
  <2>4. q \in Seq(Seq(Due)) BY ONLY <2>2, <2>3, Widen
  <2> QED BY <2>3, <2>4
<1>3. Weight(FlattenSeq(q), amount) = Weight(q, v)
  <2> HIDE DEF q, amount
  <2> QED BY <1>1, <1>2, WeightFlatten
<1>4. DueList(b) \in Seq(Due) /\ Len(DueList(b)) = 5 BY DueListType
<1>5. ASSUME NEW i \in 1..5 PROVE v[q[i]] = Positive[DueList(b)[i]]
  <2> DEFINE c == DueList(b)[i]
  <2>1. c \in Due
    <3>1. \A s \in Seq(Due) : Len(s) = 5 => \A j \in 1..5 : s[j] \in Due OBVIOUS
    <3>2. i \in 1..5 OBVIOUS
    <3> QED BY ONLY <1>4, <3>1, <3>2, Zenon
  <2>2. q[i] = IF c.amount > 0 THEN <<c>> ELSE <<>> BY DEF DueParts
  <2> HIDE DEF c, q
  <2>3. Weight(<<c>>, amount) = c.amount
    <3>1. amount[c] = c.amount /\ amount[c] \in Int BY <1>1, <2>1
    <3> HIDE DEF amount
    <3>2. Weight(<<c>>, amount) = amount[c] BY <3>1, WeightOne
    <3> QED BY <3>1, <3>2
  <2>4. Weight(<<>>, amount) = 0 BY WeightEmpty
  <2>5. Positive[c] = IF c.amount > 0 THEN c.amount ELSE 0 BY <2>1 DEF Positive
  <2>6. q[i] \in Seq(Due) BY <2>1, <2>2
  <2> HIDE DEF amount
  <2>7. v[q[i]] = Weight(q[i], amount) BY <2>6
  <2> HIDE DEF v
  <2> QED BY <2>2, <2>3, <2>4, <2>5, <2>7 DEF c
<1>6. Weight(q, v) = Weight(DueList(b), Positive)
  <2>1. DOMAIN q = 1..5 /\ DOMAIN DueList(b) = 1..5
    <3> HIDE DEF q
    <3>1. DOMAIN q = 1..5 BY ONLY <1>2
    <3>2. DOMAIN DueList(b) = 1..5 BY ONLY <1>4
    <3> QED BY <3>1, <3>2
  <2> HIDE DEF v, q
  <2>2. [i \in DOMAIN q |-> v[q[i]]] = [i \in DOMAIN DueList(b) |-> Positive[DueList(b)[i]]]
    BY <1>5, <2>1
  <2> QED BY <2>2 DEF Weight
<1>7. Weight(DueList(b), Positive) =
           (IF b.vat["standard"] > 0 THEN b.vat["standard"] ELSE 0)
           + (IF b.vat["transport_tourism"] > 0 THEN b.vat["transport_tourism"] ELSE 0)
           + (IF b.vat["medical_education"] > 0 THEN b.vat["medical_education"] ELSE 0)
           + (IF b.corporate > 0 THEN b.corporate ELSE 0)
           + (IF b.withholding > 0 THEN b.withholding ELSE 0)
  <2> DEFINE c1 == [kind |-> "VAT 19", amount |-> b.vat["standard"]]
             c2 == [kind |-> "VAT 13", amount |-> b.vat["transport_tourism"]]
             c3 == [kind |-> "VAT 7", amount |-> b.vat["medical_education"]]
             c4 == [kind |-> "IS", amount |-> b.corporate]
             c5 == [kind |-> "Withholding", amount |-> b.withholding]
             p(n) == IF n > 0 THEN n ELSE 0
  <2>1. /\ c1 \in Due /\ c2 \in Due /\ c3 \in Due /\ c4 \in Due /\ c5 \in Due
    BY DEF Due, Kinds, Breakdown
  <2>2. /\ Positive[c1] = p(b.vat["standard"]) /\ Positive[c2] = p(b.vat["transport_tourism"])
        /\ Positive[c3] = p(b.vat["medical_education"]) /\ Positive[c4] = p(b.corporate)
        /\ Positive[c5] = p(b.withholding)
    BY <2>1 DEF Positive
  <2>3. DueList(b) = <<c1, c2, c3, c4, c5>> BY DEF DueList
  <2> HIDE DEF c1, c2, c3, c4, c5
  <2>4. Weight(<<c1, c2, c3, c4, c5>>, Positive) =
          Positive[c1] + Positive[c2] + Positive[c3] + Positive[c4] + Positive[c5]
    BY <1>1, <2>1, Weight5
  <2> QED BY <2>2, <2>3, <2>4
<1> QED BY <1>2, <1>3, <1>6, <1>7

\* The tax entries credit what is due.
LEMMA TaxEntriesCredit ==
  ASSUME NEW calcs \in Seq({c \in Due : c.amount > 0})
  PROVE  Weight(TaxEntries(calcs), CreditOfNone) = Weight(calcs, [c \in Due |-> c.amount])
<1> DEFINE amount == [c \in Due |-> c.amount]
           s == TaxEntries(calcs)
<1>1. /\ s \in Seq(TaxEntrySet) /\ Len(s) = Len(calcs)
      /\ \A i \in 1..Len(calcs) : s[i].credit = calcs[i].amount
  BY TaxEntriesType
<1> HIDE DEF s
<1>2. DOMAIN s = 1..Len(calcs) /\ DOMAIN calcs = 1..Len(calcs) BY <1>1
<1>3. ASSUME NEW i \in 1..Len(calcs) PROVE CreditOfNone[s[i]] = amount[calcs[i]]
  <2>1. s[i] \in TaxEntrySet /\ calcs[i] \in Due /\ s[i].credit = calcs[i].amount BY <1>1, <1>2
  <2>2. CreditOfNone[s[i]] = s[i].credit BY <2>1 DEF CreditOfNone, TaxEntrySet
  <2> QED BY <2>1, <2>2
<1> HIDE DEF amount
<1>4. [i \in DOMAIN s |-> CreditOfNone[s[i]]] = [i \in DOMAIN calcs |-> amount[calcs[i]]]
  BY <1>2, <1>3
<1> QED BY <1>4 DEF Weight, s, amount

\* What is booked as tax is the total of the tax service, but for the corporate tax
\* of a loss, for any invoices that are sane.
THEOREM LedgerLiabilityIsBooked == ASSUME BillsAreSane PROVE Spec => []LiabilityIsBooked
<1>1. ASSUME GivenInv PROVE LiabilityIsBooked
  <2> SUFFICES ASSUME Taxed, author # "any model"
               PROVE  CreditsOf(0)
                        = taxes.total - (IF taxes.corporate < 0 THEN taxes.corporate ELSE 0)
    BY DEF LiabilityIsBooked
  <2>1. /\ LedgerInv /\ author \in {"rules", "model"}
        /\ invoices \in Seq(Invoice) /\ journal \in Seq(JournalEntry) /\ IsCatalogue(catalogue)
        /\ taxes = CalculatePeriodTaxes(invoices, catalogue)
    BY <1>1, CataloguesAre DEF GivenInv, LedgerInv, TypeOK, JournalIsAccounted, ResultsAreCurrent,
       Taxed
  <2>2. PICK shown \in Seq(Invoice), booked \in Seq(TaxEntrySet) :
          /\ journal = RuleJournal(shown, catalogue) \o booked
          /\ RuleJournal(shown, catalogue) \in Seq(RuleEntry)
          /\ RuleJournal(shown, catalogue) \in Seq(JournalEntry)
          /\ booked \in Seq(JournalEntry)
          /\ booked = TaxEntries(TaxCalculations(taxes)) /\ Breakdown(taxes)
    BY <2>1, JournalParts
  <2>3. CreditsOf(0) = Weight(journal, CreditOfNone)
    <3>1. \A k \in DOMAIN journal : journal[k] \in JournalEntry BY ONLY <2>1
    <3> QED BY <3>1 DEF CreditsOf, SumOver, Weight, CreditOfNone
  <2>4. \A e \in JournalEntry : CreditOfNone[e] \in Int BY CreditOfNoneType
  <2>5. Weight(journal, CreditOfNone)
          = Weight(RuleJournal(shown, catalogue), CreditOfNone) + Weight(booked, CreditOfNone)
    BY ONLY <2>2, <2>4, WeightConcat
  <2>6. Weight(RuleJournal(shown, catalogue), CreditOfNone) = 0
    <3>1. \A e \in RuleEntry : CreditOfNone[e] = 0
      BY DEF RuleEntry, RuleEntries, CreditOfNone
    <3> QED BY ONLY <2>2, <3>1, WeightZero
  <2>7. Weight(booked, CreditOfNone) = Weight(TaxCalculations(taxes), [c \in Due |-> c.amount])
    BY ONLY <2>2, DuePartsType, TaxEntriesCredit
  <2>8. Weight(TaxCalculations(taxes), [c \in Due |-> c.amount]) =
           (IF taxes.vat["standard"] > 0 THEN taxes.vat["standard"] ELSE 0)
           + (IF taxes.vat["transport_tourism"] > 0 THEN taxes.vat["transport_tourism"] ELSE 0)
           + (IF taxes.vat["medical_education"] > 0 THEN taxes.vat["medical_education"] ELSE 0)
           + (IF taxes.corporate > 0 THEN taxes.corporate ELSE 0)
           + (IF taxes.withholding > 0 THEN taxes.withholding ELSE 0)
    BY ONLY <2>2, DueSum
  <2>9. /\ taxes.total = taxes.vat["standard"] + taxes.vat["transport_tourism"]
                         + taxes.vat["medical_education"] + taxes.corporate + taxes.withholding
        /\ taxes.vat["standard"] >= 0 /\ taxes.vat["transport_tourism"] >= 0
        /\ taxes.vat["medical_education"] >= 0 /\ taxes.withholding >= 0
    <3>1. \A i \in DOMAIN invoices : SaneInvoice(invoices[i]) BY <1>1, InvoicesAreSane
    <3> QED BY ONLY <2>1, <3>1, TaxesAre
  <2> DEFINE v1 == taxes.vat["standard"]
             v2 == taxes.vat["transport_tourism"]
             v3 == taxes.vat["medical_education"]
             v4 == taxes.corporate
             v5 == taxes.withholding
             t == taxes.total
  <2>10. v1 \in Int /\ v2 \in Int /\ v3 \in Int /\ v4 \in Int /\ v5 \in Int BY <2>2 DEF Breakdown
  <2>11. CreditsOf(0) = 0 + ((IF v1 > 0 THEN v1 ELSE 0) + (IF v2 > 0 THEN v2 ELSE 0)
             + (IF v3 > 0 THEN v3 ELSE 0) + (IF v4 > 0 THEN v4 ELSE 0) + (IF v5 > 0 THEN v5 ELSE 0))
    BY <2>3, <2>5, <2>6, <2>7, <2>8
  <2>12. t = v1 + v2 + v3 + v4 + v5 /\ v1 >= 0 /\ v2 >= 0 /\ v3 >= 0 /\ v5 >= 0 BY <2>9
  <2> HIDE DEF v1, v2, v3, v4, v5, t
  <2>13. CreditsOf(0) = t - (IF v4 < 0 THEN v4 ELSE 0) BY ONLY <2>10, <2>11, <2>12
  <2> QED BY <2>13 DEF t, v4
<1> QED BY <1>1, LedgerGiven, PTL

-----------------------------------------------------------------------------
(* What the reports read.                                                  *)

\* What an entry adds to each line of the reports.
Earned == [e \in JournalEntry |-> IF e.account = "Revenue" /\ e.credit > 0 THEN e.credit ELSE 0]
Spent ==
    [e \in JournalEntry |-> IF e.account = "Cost of Goods Sold" /\ e.debit > 0 THEN e.debit ELSE 0]
Received ==
    [e \in JournalEntry |->
        IF e.account # "Accounts Receivable" THEN 0
        ELSE IF e.debit > 0 THEN e.debit ELSE IF e.credit > 0 THEN -e.credit ELSE 0]
Sold == [e \in JournalEntry |-> IF e.account = "Revenue" THEN e.credit ELSE 0]
Cost == [e \in JournalEntry |-> IF e.account = "Cost of Goods Sold" THEN e.debit ELSE 0]
Booked(a) == [e \in JournalEntry |-> IF e.account = a THEN e.debit - e.credit ELSE 0]

\* What the balance sheet shows of an account.
Shown(a, bs) == IF a \in DOMAIN bs THEN bs[a] ELSE 0

\* All of them are integers.
LEMMA ReportWeightsType ==
  \A e \in JournalEntry :
      /\ Earned[e] \in Int /\ Spent[e] \in Int /\ Received[e] \in Int /\ Sold[e] \in Int
      /\ Cost[e] \in Int /\ \A a : Booked(a)[e] \in Int
<1> SUFFICES ASSUME NEW e \in JournalEntry
             PROVE  /\ Earned[e] \in Int /\ Spent[e] \in Int /\ Received[e] \in Int
                    /\ Sold[e] \in Int /\ Cost[e] \in Int /\ \A a : Booked(a)[e] \in Int
  OBVIOUS
<1>1. e.debit \in Int /\ e.credit \in Int /\ -e.credit \in Int /\ e.debit - e.credit \in Int
  <2>1. e.debit \in Int /\ e.credit \in Int BY DEF JournalEntry
  <2> QED BY <2>1
<1>2. Earned[e] \in Int /\ Sold[e] \in Int BY <1>1 DEF Earned, Sold
<1>3. Spent[e] \in Int /\ Cost[e] \in Int
  <2>1. Spent[e] \in {e.debit, 0} /\ Cost[e] \in {e.debit, 0} BY DEF Spent, Cost
  <2> QED BY <1>1, <2>1
<1>4. Received[e] \in Int
  <2>1. Received[e] \in {e.debit, -e.credit, 0} BY DEF Received
  <2> QED BY <1>1, <2>1
<1>5. \A a : Booked(a)[e] \in Int BY <1>1 DEF Booked
<1> QED BY <1>2, <1>3, <1>4, <1>5

\* Summary and P&L as weights of the journal.
LEMMA SummaryIs ==
  ASSUME NEW entries \in Seq(JournalEntry), NEW invs
  PROVE  LET summed == FinancialSummary(invs, entries)
             pl == ProfitAndLoss(entries)
         IN  /\ summed.revenue = Weight(entries, Earned)
             /\ summed.expenses = Weight(entries, Spent)
             /\ summed.receivable = Weight(entries, Received)
             /\ summed.gross = summed.revenue - summed.expenses
             /\ summed.payable = 0
             /\ pl.revenue = Weight(entries, Sold)
             /\ pl.gross = pl.revenue - Weight(entries, Cost)
<1>1. \A k \in DOMAIN entries : entries[k] \in JournalEntry OBVIOUS
<1>2. SumOver(entries, LAMBDA e : IF e.account = "Revenue" /\ e.credit > 0 THEN e.credit ELSE 0)
        = Weight(entries, Earned)
  BY <1>1 DEF SumOver, Weight, Earned
<1>3. SumOver(entries, LAMBDA e :
                 IF e.account = "Cost of Goods Sold" /\ e.debit > 0 THEN e.debit ELSE 0)
        = Weight(entries, Spent)
  BY <1>1 DEF SumOver, Weight, Spent
<1>4. SumOver(entries, LAMBDA e :
                 IF e.account # "Accounts Receivable" THEN 0
                 ELSE IF e.debit > 0 THEN e.debit ELSE IF e.credit > 0 THEN -e.credit ELSE 0)
        = Weight(entries, Received)
  BY <1>1 DEF SumOver, Weight, Received
<1>5. SumOver(entries, LAMBDA e : IF e.account = "Revenue" THEN e.credit ELSE 0)
        = Weight(entries, Sold)
  BY <1>1 DEF SumOver, Weight, Sold
<1>6. SumOver(entries, LAMBDA e : IF e.account = "Cost of Goods Sold" THEN e.debit ELSE 0)
        = Weight(entries, Cost)
  BY <1>1 DEF SumOver, Weight, Cost
<1>7. /\ FinancialSummary(invs, entries).revenue = Weight(entries, Earned)
      /\ FinancialSummary(invs, entries).expenses = Weight(entries, Spent)
      /\ FinancialSummary(invs, entries).receivable = Weight(entries, Received)
      /\ FinancialSummary(invs, entries).gross = Weight(entries, Earned) - Weight(entries, Spent)
      /\ FinancialSummary(invs, entries).payable = 0
  BY <1>2, <1>3, <1>4, Zenon DEF FinancialSummary
<1>8. /\ ProfitAndLoss(entries).revenue = Weight(entries, Sold)
      /\ ProfitAndLoss(entries).gross = Weight(entries, Sold) - Weight(entries, Cost)
  BY <1>5, <1>6, Zenon DEF ProfitAndLoss
<1> QED BY <1>7, <1>8

\* The balance sheet as weights of the journal.
LEMMA ShownIs ==
  ASSUME NEW entries \in Seq(JournalEntry), NEW a
  PROVE  Shown(a, BalanceSheet(entries)) = Weight(entries, Booked(a))
<1>1. \A k \in DOMAIN entries : entries[k] \in JournalEntry OBVIOUS
<1>2. CASE a \in Accounts(entries)
  <2>1. SumOver(entries, LAMBDA e : IF e.account = a THEN e.debit - e.credit ELSE 0)
          = Weight(entries, Booked(a))
    BY <1>1 DEF SumOver, Weight, Booked
  <2>2. Shown(a, BalanceSheet(entries)) = Balance(a, entries) BY <1>2 DEF Shown, BalanceSheet
  <2> QED BY <2>1, <2>2 DEF Balance
<1>3. CASE a \notin Accounts(entries)
  <2> DEFINE others == {e \in JournalEntry : e.account # a}
  <2>1. \A k \in DOMAIN entries : entries[k] \in others BY <1>1, <1>3 DEF Accounts
  <2>2. \A e \in others : Booked(a)[e] = 0 BY DEF Booked
  <2> HIDE DEF others
  <2>3. entries \in Seq(others) BY <2>1
  <2>4. Weight(entries, Booked(a)) = 0 BY <2>2, <2>3, WeightZero
  <2> QED BY <1>3, <2>4 DEF Shown, BalanceSheet
<1> QED BY <1>2, <1>3

\* On each account the rules write one column only.
LEMMA RuledOneColumn ==
  \A a, d, c : Ruled(a, d, c) =>
      /\ a = "Revenue" => d = 0
      /\ a = "Cost of Goods Sold" => c = 0
      /\ a = "Accounts Receivable" => c = 0
      /\ a = "VAT Payable" => d = 0 /\ c > 0
      /\ a \notin {"Withholding Tax Payable", "Corporate Tax Payable"}
  BY DEF Ruled, Payables

\* The reports read one column of an entry that the rules wrote, and nothing of
\* the entry of a tax.
LEMMA RulesWriteOneColumn ==
  \A e \in SaneEntry \cup TaxEntrySet :
      /\ e \in JournalEntry /\ e.debit \in Nat /\ e.credit \in Nat
      /\ Earned[e] = Sold[e] /\ Spent[e] = Cost[e]
      /\ Booked("Revenue")[e] + Sold[e] = 0
      /\ Booked("Cost of Goods Sold")[e] = Spent[e]
      /\ Booked("Accounts Receivable")[e] = Received[e]
      /\ Earned[e] \in Nat /\ Spent[e] \in Nat /\ Received[e] \in Nat
<1> SUFFICES ASSUME NEW e \in SaneEntry \cup TaxEntrySet
    PROVE /\ e \in JournalEntry /\ e.debit \in Nat /\ e.credit \in Nat
          /\ Earned[e] = Sold[e] /\ Spent[e] = Cost[e]
          /\ Booked("Revenue")[e] + Sold[e] = 0
          /\ Booked("Cost of Goods Sold")[e] = Spent[e]
          /\ Booked("Accounts Receivable")[e] = Received[e]
          /\ Earned[e] \in Nat /\ Spent[e] \in Nat /\ Received[e] \in Nat
  OBVIOUS
<1>1. /\ e \in JournalEntry /\ e.debit \in Nat /\ e.credit \in Nat
      /\ e.account = "Revenue" => e.debit = 0
      /\ e.account = "Cost of Goods Sold" => e.credit = 0
      /\ e.account = "Accounts Receivable" => e.credit = 0
  <2>1. CASE e \in SaneEntry
    <3>1. PICK i \in Nat : e \in SaneEntries(i) BY <2>1 DEF SaneEntry
    <3>2. /\ e \in JournalEntry /\ Ruled(e.account, e.debit, e.credit)
          /\ e.debit >= 0 /\ e.credit >= 0
      BY <3>1 DEF SaneEntries, RuleEntries
    <3>3. e.debit \in Int /\ e.credit \in Int BY <3>2 DEF JournalEntry
    <3>4. e.debit \in Nat /\ e.credit \in Nat BY ONLY <3>2, <3>3
    <3> QED BY ONLY <3>2, <3>4, RuledOneColumn
  <2>2. CASE e \in TaxEntrySet
    <3>1. e \in JournalEntry /\ e.account \in Payables /\ e.debit = 0 /\ e.credit > 0
      BY <2>2 DEF TaxEntrySet
    <3>2. e.credit \in Int BY <3>1 DEF JournalEntry
    <3>3. e.debit \in Nat /\ e.credit \in Nat BY ONLY <3>1, <3>2
    <3>4. e.account \notin {"Revenue", "Cost of Goods Sold", "Accounts Receivable"}
      BY <3>1 DEF Payables
    <3> QED BY <3>1, <3>3, <3>4
  <2> QED BY <2>1, <2>2
<1>2. /\ Earned[e] = IF e.account = "Revenue" /\ e.credit > 0 THEN e.credit ELSE 0
      /\ Sold[e] = IF e.account = "Revenue" THEN e.credit ELSE 0
      /\ Booked("Revenue")[e] = IF e.account = "Revenue" THEN e.debit - e.credit ELSE 0
  BY <1>1 DEF Earned, Sold, Booked
<1>3. /\ Spent[e] = IF e.account = "Cost of Goods Sold" /\ e.debit > 0 THEN e.debit ELSE 0
      /\ Cost[e] = IF e.account = "Cost of Goods Sold" THEN e.debit ELSE 0
      /\ Booked("Cost of Goods Sold")[e]
            = IF e.account = "Cost of Goods Sold" THEN e.debit - e.credit ELSE 0
  BY <1>1 DEF Spent, Cost, Booked
<1>4. /\ Received[e] = IF e.account # "Accounts Receivable" THEN 0
                       ELSE IF e.debit > 0 THEN e.debit
                       ELSE IF e.credit > 0 THEN -e.credit ELSE 0
      /\ Booked("Accounts Receivable")[e]
            = IF e.account = "Accounts Receivable" THEN e.debit - e.credit ELSE 0
  BY <1>1 DEF Received, Booked
<1> DEFINE d == e.debit  c == e.credit  a == e.account
<1>5. d \in Nat /\ c \in Nat BY <1>1
<1>6. Earned[e] = Sold[e] /\ Booked("Revenue")[e] + Sold[e] = 0 /\ Earned[e] \in Nat
  <2>1. a = "Revenue" => d = 0 BY <1>1
  <2> HIDE DEF d, c, a
  <2> QED BY <1>2, <1>5, <2>1 DEF d, c, a
<1>7. Spent[e] = Cost[e] /\ Booked("Cost of Goods Sold")[e] = Spent[e] /\ Spent[e] \in Nat
  <2> DEFINE spent == Spent[e]  cost == Cost[e]  booked == Booked("Cost of Goods Sold")[e]
  <2>1. /\ a = "Cost of Goods Sold" => c = 0
        /\ spent = IF a = "Cost of Goods Sold" /\ d > 0 THEN d ELSE 0
        /\ cost = IF a = "Cost of Goods Sold" THEN d ELSE 0
        /\ booked = IF a = "Cost of Goods Sold" THEN d - c ELSE 0
    BY <1>1, <1>3
  <2> HIDE DEF d, c, a, spent, cost, booked
  <2>2. spent = cost /\ booked = spent /\ spent \in Nat
    <3>1. CASE a = "Cost of Goods Sold"
      <4>1. c = 0 /\ cost = d /\ booked = d - c /\ spent = IF d > 0 THEN d ELSE 0
        BY <2>1, <3>1
      <4> QED BY <1>5, <4>1
    <3>2. CASE a # "Cost of Goods Sold" BY <2>1, <3>2
    <3> QED BY <3>1, <3>2
  <2> QED BY <2>2 DEF spent, cost, booked
<1>8. Booked("Accounts Receivable")[e] = Received[e] /\ Received[e] \in Nat
  <2> DEFINE received == Received[e]  booked == Booked("Accounts Receivable")[e]
  <2>1. /\ a = "Accounts Receivable" => c = 0
        /\ received = IF a # "Accounts Receivable" THEN 0
                      ELSE IF d > 0 THEN d ELSE IF c > 0 THEN -c ELSE 0
        /\ booked = IF a = "Accounts Receivable" THEN d - c ELSE 0
    BY <1>1, <1>4
  <2> HIDE DEF d, c, a, received, booked
  <2>2. booked = received /\ received \in Nat
    <3>1. CASE a = "Accounts Receivable"
      <4>1. c = 0 /\ booked = d - c
            /\ received = IF d > 0 THEN d ELSE IF c > 0 THEN -c ELSE 0
        BY <2>1, <3>1
      <4> QED BY <1>5, <4>1
    <3>2. CASE a # "Accounts Receivable" BY <2>1, <3>2
    <3> QED BY <3>1, <3>2
  <2> QED BY <2>2 DEF received, booked
<1> QED BY <1>1, <1>6, <1>7, <1>8

\* The entry of a tax is on its payable account, and nothing on it is a debit.
LEMMA PayablesAreCredits ==
  ASSUME NEW a \in Payables
  PROVE  LET owed == [e \in JournalEntry |-> IF e.account = a THEN e.credit - e.debit ELSE 0]
         IN  /\ \A e \in RuleEntry \cup TaxEntrySet : owed[e] \in Nat
             /\ \A e \in TaxEntrySet : e.account = a => owed[e] = e.credit
             /\ \A e \in JournalEntry : owed[e] \in Int /\ Booked(a)[e] + owed[e] = 0
<1> DEFINE owed == [e \in JournalEntry |-> IF e.account = a THEN e.credit - e.debit ELSE 0]
<1>1. ASSUME NEW e \in RuleEntry PROVE owed[e] \in Nat
  <2>1. e \in JournalEntry /\ (e.account = a => e.debit = 0 /\ e.credit \in Nat)
    <3>1. PICK i \in Nat : e \in RuleEntries(i) BY DEF RuleEntry
    <3>2. e \in JournalEntry /\ Ruled(e.account, e.debit, e.credit) BY <3>1 DEF RuleEntries
    <3>3. e.credit \in Int BY <3>2 DEF JournalEntry
    <3>4. a \in {"VAT Payable", "Withholding Tax Payable", "Corporate Tax Payable"} BY DEF Payables
    <3>5. e.account = a => e.debit = 0 /\ e.credit > 0 BY ONLY <3>2, <3>4, RuledOneColumn
    <3> QED BY ONLY <3>2, <3>3, <3>5
  <2> QED BY <2>1
<1>2. ASSUME NEW e \in TaxEntrySet
      PROVE  owed[e] \in Nat /\ (e.account = a => owed[e] = e.credit)
  BY DEF TaxEntrySet, JournalEntry
<1>3. \A e \in JournalEntry : owed[e] \in Int /\ Booked(a)[e] + owed[e] = 0
  BY DEF Booked, JournalEntry
<1> QED BY <1>1, <1>2, <1>3

-----------------------------------------------------------------------------
(* The reports agree and can be served.                                    *)

\* An element of a sequence is of its type.
LEMMA ElementIs == ASSUME NEW S, NEW s \in Seq(S) PROVE \A j \in 1..Len(s) : s[j] \in S
  OBVIOUS

\* The journal of the rules of a finished job.
LEMMA SaneJournal ==
  ASSUME BillsAreSane, GivenInv, stage = "completed", author = "rules"
  PROVE  journal \in Seq(SaneEntry \cup TaxEntrySet)
<1>1. LedgerInv /\ invoices \in Seq(Invoice) /\ IsCatalogue(catalogue)
  BY CataloguesAre DEF GivenInv, LedgerInv, TypeOK
<1>2. PICK booked \in Seq(TaxEntrySet) : journal = RuleJournal(invoices, catalogue) \o booked
  BY <1>1, JournalParts
<1>3. RuleJournal(invoices, catalogue) \in Seq(SaneEntry)
  <2>1. \A i \in DOMAIN invoices : SaneInvoice(invoices[i]) BY InvoicesAreSane
  <2> QED BY ONLY <1>1, <2>1, RuleJournalType
<1> DEFINE r == RuleJournal(invoices, catalogue)
<1>4. r \in Seq(SaneEntry) /\ booked \in Seq(TaxEntrySet) /\ journal = r \o booked BY <1>2, <1>3
<1> HIDE DEF r
<1>5. r \in Seq(SaneEntry \cup TaxEntrySet) /\ booked \in Seq(SaneEntry \cup TaxEntrySet)
  BY ONLY <1>4, Widen
<1> QED BY ONLY <1>4, <1>5, ConcatProperties

\* What a completed job shows, as weights of its journal.
LEMMA CompletedIs ==
  ASSUME GivenInv, stage = "completed"
  PROVE  /\ LedgerInv /\ Taxed
         /\ invoices \in Seq(Invoice) /\ journal \in Seq(JournalEntry) /\ IsCatalogue(catalogue)
         /\ summary.revenue = Weight(journal, Earned)
         /\ summary.expenses = Weight(journal, Spent)
         /\ summary.receivable = Weight(journal, Received)
         /\ summary.gross = summary.revenue - summary.expenses
         /\ summary.payable = 0
         /\ reports.pl.revenue = Weight(journal, Sold)
         /\ reports.pl.gross = reports.pl.revenue - Weight(journal, Cost)
         /\ \A a : Shown(a, reports.bs) = Weight(journal, Booked(a))
<1>1. /\ LedgerInv /\ invoices \in Seq(Invoice) /\ journal \in Seq(JournalEntry)
      /\ IsCatalogue(catalogue)
  BY CataloguesAre DEF GivenInv, LedgerInv, TypeOK
<1>2. /\ summary = FinancialSummary(invoices, journal)
      /\ reports.pl = ProfitAndLoss(journal) /\ reports.bs = BalanceSheet(journal)
  BY <1>1 DEF LedgerInv, ResultsAreCurrent
<1>3. Taxed BY DEF Taxed
<1> QED BY <1>1, <1>2, <1>3, SummaryIs, ShownIs

\* The summary leaves out negative credits, the P&L does not.
LEMMA SummaryClaimsMore ==
  ASSUME GivenInv, stage = "completed" PROVE summary.revenue >= reports.pl.revenue
<1>1. Earned \in [JournalEntry -> Int] /\ Sold \in [JournalEntry -> Int]
  BY ReportWeightsType DEF Earned, Sold
<1>2. \A e \in JournalEntry : Sold[e] <= Earned[e] BY DEF Sold, Earned, JournalEntry
<1>3. \A s \in Seq(JournalEntry) : Weight(s, Sold) <= Weight(s, Earned)
  BY ONLY <1>1, <1>2, WeightLeq, Zenon
<1>4. Weight(journal, Sold) <= Weight(journal, Earned) BY <1>3, CompletedIs
<1>5. Weight(journal, Sold) \in Int /\ Weight(journal, Earned) \in Int
  BY CompletedIs, ReportWeightsType, WeightType
<1> QED BY <1>4, <1>5, CompletedIs

\* The balance sheet shows at least what each tax is.
LEMMA LiabilitiesAreShown ==
  ASSUME GivenInv, stage = "completed", author # "any model",
         NEW i \in DOMAIN TaxCalculations(taxes)
  PROVE  -Shown(PayableAccount(TaxCalculations(taxes)[i].kind), reports.bs)
            >= TaxCalculations(taxes)[i].amount
<1> DEFINE calcs == TaxCalculations(taxes)
           a == PayableAccount(calcs[i].kind)
           owed == [e \in JournalEntry |-> IF e.account = a THEN e.credit - e.debit ELSE 0]
<1>1. LedgerInv /\ author \in {"rules", "model"} /\ Taxed
  BY CompletedIs DEF GivenInv, LedgerInv, TypeOK, JournalIsAccounted
<1>2. PICK shown \in Seq(Invoice), booked \in Seq(TaxEntrySet) :
        /\ journal = RuleJournal(shown, catalogue) \o booked
        /\ RuleJournal(shown, catalogue) \in Seq(RuleEntry)
        /\ booked = TaxEntries(calcs) /\ Breakdown(taxes)
  BY <1>1, JournalParts
<1>3. calcs \in Seq({c \in Due : c.amount > 0}) BY ONLY <1>2, DuePartsType
<1>4. /\ Len(booked) = Len(calcs)
      /\ \A k \in 1..Len(calcs) :
            booked[k].account = PayableAccount(calcs[k].kind) /\ booked[k].credit = calcs[k].amount
  BY ONLY <1>2, <1>3, TaxEntriesType
<1>5. i \in 1..Len(calcs) /\ Len(calcs) \in Nat
  <2>1. i \in DOMAIN calcs OBVIOUS
  <2> HIDE DEF calcs
  <2> QED BY ONLY <1>3, <2>1
<1>6. a \in Payables BY DEF PayableAccount, Payables
<1> HIDE DEF a
<1>7. /\ \A e \in RuleEntry \cup TaxEntrySet : owed[e] \in Nat
      /\ \A e \in TaxEntrySet : e.account = a => owed[e] = e.credit
      /\ \A e \in JournalEntry : owed[e] \in Int /\ Booked(a)[e] + owed[e] = 0
  BY ONLY <1>6, PayablesAreCredits
<1> DEFINE r == RuleJournal(shown, catalogue)
           k == Len(r) + i
<1>8. r \in Seq(RuleEntry) /\ booked \in Seq(TaxEntrySet) /\ journal = r \o booked
      /\ i \in 1..Len(booked)
  BY <1>2, <1>4, <1>5
<1> HIDE DEF r, calcs, owed
<1>9. k \in 1..Len(journal) /\ journal[k] = booked[i] /\ journal \in Seq(RuleEntry \cup TaxEntrySet)
  <2>1. r \in Seq(RuleEntry \cup TaxEntrySet) /\ booked \in Seq(RuleEntry \cup TaxEntrySet)
    BY ONLY <1>8, Widen
  <2>2. r \o booked \in Seq(RuleEntry \cup TaxEntrySet) BY ONLY <2>1, ConcatProperties
  <2>3. k \in 1..Len(r \o booked) /\ (r \o booked)[k] = booked[i] BY ONLY <1>8
  <2> QED BY ONLY <1>8, <2>2, <2>3
<1>10. owed[journal[k]] <= Weight(journal, owed) BY ONLY <1>7, <1>9, WeightAtLeast
<1>11. owed[journal[k]] = calcs[i].amount
  <2>1. booked[i] \in TaxEntrySet BY ONLY <1>8, ElementIs
  <2>2. booked[i].account = a /\ booked[i].credit = calcs[i].amount BY <1>4, <1>5 DEF a
  <2> QED BY ONLY <1>7, <1>9, <2>1, <2>2
<1>12. Weight(journal, Booked(a)) + Weight(journal, owed) = 0
  <2> DEFINE z == [e \in JournalEntry |-> 0]
  <2>1. /\ Booked(a) \in [JournalEntry -> Int] /\ owed \in [JournalEntry -> Int]
        /\ z \in [JournalEntry -> Int]
    BY ReportWeightsType, <1>7 DEF Booked, owed
  <2>2. \A e \in JournalEntry : z[e] = Booked(a)[e] + owed[e] /\ z[e] = 0 BY <1>7
  <2> HIDE DEF z
  <2>3. \A s \in Seq(JournalEntry) : Weight(s, z) = Weight(s, Booked(a)) + Weight(s, owed)
    BY ONLY <2>1, <2>2, WeightAdd, Zenon
  <2>4. \A s \in Seq(JournalEntry) : Weight(s, z) = 0 BY ONLY <2>2, WeightZero
  <2> QED BY <2>3, <2>4, CompletedIs
<1>13. Weight(journal, Booked(a)) \in Int /\ Weight(journal, owed) \in Int
  BY CompletedIs, ReportWeightsType, <1>7, WeightType
<1>14. calcs[i].amount \in Int
  <2> DEFINE D == {c \in Due : c.amount > 0}
  <2> HIDE DEF D
  <2>0. calcs \in Seq(D) BY <1>3 DEF D
  <2>1. calcs[i] \in D BY ONLY <1>5, <2>0, ElementIs
  <2>2. calcs[i] \in Due BY <2>1 DEF D
  <2> QED BY ONLY <2>2 DEF Due
<1>15. Shown(a, reports.bs) = Weight(journal, Booked(a)) BY CompletedIs
<1> DEFINE n == calcs[i].amount  x == Weight(journal, Booked(a))  y == Weight(journal, owed)
<1>16. n <= y /\ x + y = 0 /\ n \in Int /\ x \in Int /\ y \in Int
  BY <1>10, <1>11, <1>12, <1>13, <1>14
<1> HIDE DEF n, x, y
<1>17. -x >= n BY ONLY <1>16
<1> QED BY <1>15, <1>17 DEF n, x, a, calcs

\* With the rules' journal all reports agree.
LEMMA RuleReportsAgree ==
  ASSUME BillsAreSane, GivenInv, stage = "completed", author = "rules"
  PROVE  /\ summary.revenue = reports.pl.revenue
         /\ summary.gross = reports.pl.gross
         /\ -Shown("Revenue", reports.bs) = reports.pl.revenue
         /\ Shown("Cost of Goods Sold", reports.bs) = summary.expenses
         /\ Shown("Accounts Receivable", reports.bs) = summary.receivable
<1> DEFINE S == SaneEntry \cup TaxEntrySet
<1>1. journal \in Seq(S) /\ journal \in Seq(JournalEntry) BY SaneJournal, CompletedIs
<1>2. \A e \in S : /\ Earned[e] = Sold[e] /\ Spent[e] = Cost[e]
                   /\ Booked("Revenue")[e] + Sold[e] = 0
                   /\ Booked("Cost of Goods Sold")[e] = Spent[e]
                   /\ Booked("Accounts Receivable")[e] = Received[e]
                   /\ e \in JournalEntry
  BY RulesWriteOneColumn
<1> HIDE DEF S
<1>3. /\ Weight(journal, Earned) = Weight(journal, Sold)
      /\ Weight(journal, Spent) = Weight(journal, Cost)
      /\ Weight(journal, Booked("Cost of Goods Sold")) = Weight(journal, Spent)
      /\ Weight(journal, Booked("Accounts Receivable")) = Weight(journal, Received)
  <2>0. \A u, v : (\A e \in S : u[e] = v[e]) => Weight(journal, u) = Weight(journal, v)
    BY ONLY <1>1, WeightEqual
  <2>1. /\ \A e \in S : Earned[e] = Sold[e]
        /\ \A e \in S : Spent[e] = Cost[e]
        /\ \A e \in S : Booked("Cost of Goods Sold")[e] = Spent[e]
        /\ \A e \in S : Booked("Accounts Receivable")[e] = Received[e]
    BY <1>2
  <2>2. Weight(journal, Earned) = Weight(journal, Sold)
    BY ONLY <2>1, <2>0, Zenon
  <2>3. Weight(journal, Spent) = Weight(journal, Cost)
    BY ONLY <2>1, <2>0, Zenon
  <2>4. Weight(journal, Booked("Cost of Goods Sold")) = Weight(journal, Spent)
    BY ONLY <2>1, <2>0, Zenon
  <2>5. Weight(journal, Booked("Accounts Receivable")) = Weight(journal, Received)
    BY ONLY <2>1, <2>0, Zenon
  <2> QED BY <2>2, <2>3, <2>4, <2>5
<1>4. Weight(journal, Booked("Revenue")) + Weight(journal, Sold) = 0
  <2> DEFINE z == [e \in JournalEntry |-> Booked("Revenue")[e] + Sold[e]]
  <2>1. \A e \in JournalEntry : Booked("Revenue")[e] \in Int /\ Sold[e] \in Int /\ z[e] \in Int
    BY ReportWeightsType
  <2>2. /\ Booked("Revenue") \in [JournalEntry -> Int] /\ Sold \in [JournalEntry -> Int]
        /\ z \in [JournalEntry -> Int]
    BY <2>1 DEF Booked, Sold
  <2>3. \A e \in JournalEntry : z[e] = Booked("Revenue")[e] + Sold[e] OBVIOUS
  <2>4. \A e \in S : z[e] = 0 BY <1>2, <2>3
  <2> HIDE DEF z
  <2>5. \A s \in Seq(JournalEntry) : Weight(s, z) = Weight(s, Booked("Revenue")) + Weight(s, Sold)
    BY ONLY <2>2, <2>3, WeightAdd, Zenon
  <2>6. Weight(journal, z) = 0 BY ONLY <1>1, <2>4, WeightZero
  <2> QED BY <1>1, <2>5, <2>6
<1>5. Weight(journal, Booked("Revenue")) \in Int /\ Weight(journal, Sold) \in Int
  BY <1>1, ReportWeightsType, WeightType
<1>6. -Weight(journal, Booked("Revenue")) = Weight(journal, Sold) BY ONLY <1>4, <1>5
<1> QED BY <1>3, <1>6, CompletedIs

\* Summary, P&L and balance sheet of a completed job tell the same story, for any
\* sane bills, and whatever a model wrote the summary claims no less revenue than
\* the P&L.
THEOREM LedgerReportsAgree == ASSUME BillsAreSane PROVE Spec => []ReportsAgree
<1>1. ASSUME GivenInv, stage = "completed"
      PROVE  /\ summary.revenue >= reports.pl.revenue
             /\ author # "any model" =>
                  \A i \in DOMAIN TaxCalculations(taxes) :
                     -Shown(PayableAccount(TaxCalculations(taxes)[i].kind), reports.bs)
                        >= TaxCalculations(taxes)[i].amount
             /\ author = "rules" =>
                  /\ summary.revenue = reports.pl.revenue
                  /\ summary.gross = reports.pl.gross
                  /\ -Shown("Revenue", reports.bs) = reports.pl.revenue
                  /\ Shown("Cost of Goods Sold", reports.bs) = summary.expenses
                  /\ Shown("Accounts Receivable", reports.bs) = summary.receivable
  BY <1>1, SummaryClaimsMore, LiabilitiesAreShown, RuleReportsAgree
<1>2. GivenInv => ReportsAgree BY <1>1, Zenon DEF ReportsAgree, Shown
<1> QED BY <1>2, LedgerGiven, PTL

\* The results of a job that the rules completed pass the ge=0 constraints of the
\* response, as long as the bills are sane.
THEOREM LedgerResultsAreServable == ASSUME BillsAreSane PROVE Spec => []ResultsAreServable
<1>1. ASSUME GivenInv PROVE ResultsAreServable
  <2> SUFFICES ASSUME stage = "completed", author = "rules"
               PROVE  /\ {summary.revenue, summary.expenses, summary.receivable, summary.payable}
                            \subseteq Nat
                      /\ \A i \in DOMAIN journal :
                            {journal[i].debit, journal[i].credit} \subseteq Nat
    BY DEF ResultsAreServable
  <2> DEFINE S == SaneEntry \cup TaxEntrySet
  <2>1. journal \in Seq(S) BY <1>1, SaneJournal
  <2>2. \A e \in S : /\ Earned[e] \in Nat /\ Spent[e] \in Nat /\ Received[e] \in Nat
                     /\ e.debit \in Nat /\ e.credit \in Nat
    BY RulesWriteOneColumn
  <2> HIDE DEF S
  <2>3. /\ Weight(journal, Earned) \in Nat /\ Weight(journal, Spent) \in Nat
        /\ Weight(journal, Received) \in Nat
    BY ONLY <2>1, <2>2, WeightNat
  <2>4. {summary.revenue, summary.expenses, summary.receivable, summary.payable} \subseteq Nat
    BY <1>1, <2>3, CompletedIs
  <2>5. \A i \in DOMAIN journal : journal[i] \in S BY ONLY <2>1
  <2> QED BY <2>2, <2>4, <2>5
<1> QED BY <1>1, LedgerGiven, PTL

-----------------------------------------------------------------------------
(* The ledger's revenue is what was billed.                                *)

\* What an invoice adds to the revenue of the ledger, to the tax of the paid ones,
\* to the total of the invoices of some statuses, and to the tax service's revenue.
Billed ==
    [inv \in Invoice |-> IF inv.status = "PAID" THEN inv.total - inv.tax
                         ELSE IF inv.status \in Accrued \cup {"PARTIAL"} THEN inv.total ELSE 0]
TaxOfPaid == [inv \in Invoice |-> IF inv.status = "PAID" THEN inv.tax ELSE 0]
TotalIn(S) == [inv \in Invoice |-> IF inv.status \in S THEN inv.total ELSE 0]
Taxable == [inv \in Invoice |-> IF inv.status \in {"DRAFT", "VOIDED"} THEN 0 ELSE inv.total]

\* How they add up.
LEMMA InvoiceWeights ==
  LET all == Billing
  IN  /\ Billed \in [Invoice -> Int] /\ TaxOfPaid \in [Invoice -> Int]
      /\ Taxable \in [Invoice -> Int] /\ \A S : TotalIn(S) \in [Invoice -> Int]
      /\ \A inv \in Invoice : TotalIn(all)[inv] = Billed[inv] + TaxOfPaid[inv]
      /\ \A inv \in Invoice : Taxable[inv] = TotalIn(all)[inv] + TotalIn({"ARCHIVED", "OTHER"})[inv]
<1> DEFINE all == Billing
<1>1. ASSUME NEW inv \in Invoice
      PROVE  /\ inv.total \in Int /\ inv.tax \in Int /\ inv.total - inv.tax \in Int
             /\ inv.status \in Statuses
  <2>1. inv.total \in Int /\ inv.tax \in Int /\ inv.status \in Statuses BY DEF Invoice
  <2> QED BY <2>1
<1>2. Billed \in [Invoice -> Int] BY <1>1 DEF Billed
<1>3. TaxOfPaid \in [Invoice -> Int] BY <1>1 DEF TaxOfPaid
<1>4. Taxable \in [Invoice -> Int] BY <1>1 DEF Taxable
<1>5. \A S : TotalIn(S) \in [Invoice -> Int] BY <1>1 DEF TotalIn
<1>6. ASSUME NEW inv \in Invoice
      PROVE  /\ TotalIn(all)[inv] = Billed[inv] + TaxOfPaid[inv]
             /\ Taxable[inv] = TotalIn(all)[inv] + TotalIn({"ARCHIVED", "OTHER"})[inv]
  <2> DEFINE t == inv.total  x == inv.tax  b == Billed[inv]  p == TaxOfPaid[inv]
             a == TotalIn(all)[inv]  r == TotalIn({"ARCHIVED", "OTHER"})[inv]  s == Taxable[inv]
  <2>1. t \in Int /\ x \in Int BY <1>1
  <2>2. CASE inv.status = "PAID"
    <3>1. b = t - x /\ p = x /\ a = t /\ r = 0 /\ s = t
      BY <2>2 DEF Billed, TaxOfPaid, TotalIn, Taxable, Billing
    <3> HIDE DEF t, x, b, p, a, r, s
    <3>2. a = b + p /\ s = a + r BY <2>1, <3>1
    <3> QED BY <3>2 DEF b, p, a, r, s
  <2>3. CASE inv.status \in Accrued \cup {"PARTIAL"}
    <3>1. b = t /\ p = 0 /\ a = t /\ r = 0 /\ s = t
      BY <2>3 DEF Billed, TaxOfPaid, TotalIn, Taxable, Billing, Accrued
    <3> HIDE DEF t, x, b, p, a, r, s
    <3>2. a = b + p /\ s = a + r BY <2>1, <3>1
    <3> QED BY <3>2 DEF b, p, a, r, s
  <2>4. CASE inv.status \in {"ARCHIVED", "OTHER"}
    <3>1. b = 0 /\ p = 0 /\ a = 0 /\ r = t /\ s = t
      BY <2>4 DEF Billed, TaxOfPaid, TotalIn, Taxable, Billing, Accrued
    <3> HIDE DEF t, x, b, p, a, r, s
    <3>2. a = b + p /\ s = a + r BY <2>1, <3>1
    <3> QED BY <3>2 DEF b, p, a, r, s
  <2>5. CASE inv.status \in {"DRAFT", "VOIDED"}
    <3>1. b = 0 /\ p = 0 /\ a = 0 /\ r = 0 /\ s = 0
      BY <2>5 DEF Billed, TaxOfPaid, TotalIn, Taxable, Billing, Accrued
    <3> HIDE DEF t, x, b, p, a, r, s
    <3>2. a = b + p /\ s = a + r BY <2>1, <3>1
    <3> QED BY <3>2 DEF b, p, a, r, s
  <2>6. inv.status \in {"PAID", "ARCHIVED", "OTHER", "DRAFT", "VOIDED"}
                       \cup (Accrued \cup {"PARTIAL"})
    BY <1>1 DEF Statuses, Billing
  <2> QED BY <2>2, <2>3, <2>4, <2>5, <2>6
<1> QED BY <1>2, <1>3, <1>4, <1>5, <1>6

\* The revenue that the rules book for an invoice.
LEMMA InvoiceEarns ==
  ASSUME NEW inv \in Invoice, SaneInvoice(inv), NEW products, IsCatalogue(products), NEW i \in Nat
  PROVE  Weight(InvoiceEntries(inv, i, products), Earned) = Billed[inv]
<1> DEFINE w == Earned  cogs == Cogs(inv, products)
<1>1. /\ inv.total \in Int /\ inv.tax \in Int /\ inv.paid \in Int /\ cogs \in Int
      /\ inv.total - inv.tax \in Int /\ inv.total - inv.paid \in Int
      /\ inv.status \in Statuses /\ inv.total >= 0 /\ inv.total - inv.tax >= 0
  <2>1. inv.total \in Int /\ inv.tax \in Int /\ inv.paid \in Int /\ inv.status \in Statuses
    BY DEF Invoice
  <2>2. cogs \in Int BY CogsType
  <2>3. 0 <= inv.paid /\ inv.paid <= inv.total /\ 0 <= inv.tax /\ inv.tax <= inv.total
    BY DEF SaneInvoice
  <2> QED BY <2>1, <2>2, <2>3
<1>2. ASSUME NEW n \in Int
      PROVE  /\ w[Entry("Cash/Bank", n, 0, i)] = 0
             /\ w[Entry("Accounts Receivable", n, 0, i)] = 0
             /\ w[Entry("Cost of Goods Sold", n, 0, i)] = 0
             /\ w[Entry("Inventory", 0, n, i)] = 0
             /\ w[Entry("VAT Payable", 0, n, i)] = 0
             /\ n >= 0 => w[Entry("Revenue", 0, n, i)] = n
  <2>1. ASSUME NEW a \in Ledger, NEW d \in Int, NEW c \in Int
        PROVE  w[Entry(a, d, c, i)] = IF a = "Revenue" /\ c > 0 THEN c ELSE 0
    <3>1. Entry(a, d, c, i) \in JournalEntry BY EntryIs
    <3>2. Entry(a, d, c, i).account = a /\ Entry(a, d, c, i).credit = c BY DEF Entry
    <3> QED BY <3>1, <3>2 DEF Earned
  <2>2. {"Cash/Bank", "Accounts Receivable", "Revenue", "Cost of Goods Sold", "Inventory",
         "VAT Payable"} \subseteq Ledger
    BY DEF Ledger
  <2> HIDE DEF w
  <2>3. \A a \in Ledger : /\ a # "Revenue" => w[Entry(a, n, 0, i)] = 0 /\ w[Entry(a, 0, n, i)] = 0
                          /\ a = "Revenue" /\ n >= 0 => w[Entry(a, 0, n, i)] = n
    BY <2>1
  <2> QED BY <2>2, <2>3
<1>3. \A e \in JournalEntry : w[e] \in Int BY ReportWeightsType
<1> HIDE DEF w, cogs
<1>4. CASE inv.status = "PAID"
  <2>1. Weight(InvoiceEntries(inv, i, products), w)
          = w[Entry("Cash/Bank", inv.total, 0, i)]
            + w[Entry("Revenue", 0, inv.total - inv.tax, i)]
            + (IF inv.tax > 0 THEN w[Entry("VAT Payable", 0, inv.tax, i)] ELSE 0)
            + (IF cogs > 0 THEN w[Entry("Cost of Goods Sold", cogs, 0, i)]
                                + w[Entry("Inventory", 0, cogs, i)] ELSE 0)
    BY <1>3, <1>4, InvoiceEntriesWeight DEF cogs
  <2>2. Billed[inv] = inv.total - inv.tax BY <1>4 DEF Billed
  <2>3. /\ w[Entry("Cash/Bank", inv.total, 0, i)] = 0
        /\ w[Entry("Revenue", 0, inv.total - inv.tax, i)] = inv.total - inv.tax
        /\ w[Entry("VAT Payable", 0, inv.tax, i)] = 0
        /\ w[Entry("Cost of Goods Sold", cogs, 0, i)] = 0
        /\ w[Entry("Inventory", 0, cogs, i)] = 0
    BY <1>1, <1>2
  <2> DEFINE n == inv.total - inv.tax
  <2>4. Weight(InvoiceEntries(inv, i, products), w)
          = 0 + n + (IF inv.tax > 0 THEN 0 ELSE 0) + (IF cogs > 0 THEN 0 + 0 ELSE 0)
    BY <2>1, <2>3
  <2>5. n \in Int BY <1>1
  <2> HIDE DEF n
  <2>6. Weight(InvoiceEntries(inv, i, products), w) = n BY <2>4, <2>5
  <2> QED BY <2>2, <2>6 DEF w, n
<1>5. CASE inv.status = "PARTIAL"
  <2>1. Weight(InvoiceEntries(inv, i, products), w)
          = w[Entry("Cash/Bank", inv.paid, 0, i)]
            + w[Entry("Accounts Receivable", inv.total - inv.paid, 0, i)]
            + w[Entry("Revenue", 0, inv.total, i)]
    BY <1>3, <1>5, InvoiceEntriesWeight
  <2>2. Billed[inv] = inv.total BY <1>5 DEF Billed
  <2>3. /\ w[Entry("Cash/Bank", inv.paid, 0, i)] = 0
        /\ w[Entry("Accounts Receivable", inv.total - inv.paid, 0, i)] = 0
        /\ w[Entry("Revenue", 0, inv.total, i)] = inv.total
    BY <1>1, <1>2
  <2>4. Weight(InvoiceEntries(inv, i, products), w) = 0 + 0 + inv.total BY <2>1, <2>3
  <2>5. 0 + 0 + inv.total = inv.total BY <1>1
  <2> QED BY <2>2, <2>4, <2>5 DEF w
<1>6. CASE inv.status \in Accrued
  <2>1. Weight(InvoiceEntries(inv, i, products), w)
          = w[Entry("Accounts Receivable", inv.total, 0, i)] + w[Entry("Revenue", 0, inv.total, i)]
    BY <1>3, <1>6, InvoiceEntriesWeight
  <2>2. Billed[inv] = inv.total BY <1>6 DEF Billed, Accrued
  <2>3. /\ w[Entry("Accounts Receivable", inv.total, 0, i)] = 0
        /\ w[Entry("Revenue", 0, inv.total, i)] = inv.total
    BY <1>1, <1>2
  <2>4. Weight(InvoiceEntries(inv, i, products), w) = 0 + inv.total BY <2>1, <2>3
  <2>5. 0 + inv.total = inv.total BY <1>1
  <2> QED BY <2>2, <2>4, <2>5 DEF w
<1>7. CASE inv.status \in Silent
  <2>1. Weight(InvoiceEntries(inv, i, products), w) = 0
    BY <1>3, <1>7, InvoiceEntriesWeight
  <2>2. Billed[inv] = 0 BY <1>7 DEF Billed, Accrued, Silent
  <2> QED BY <2>1, <2>2 DEF w
<1> QED BY <1>1, <1>4, <1>5, <1>6, <1>7 DEF Statuses, Billing, Silent

\* The revenue of the ledger, invoice by invoice.
LEMMA RulesEarn ==
  ASSUME BillsAreSane, GivenInv, stage = "completed", author = "rules"
  PROVE  summary.revenue = Weight(invoices, Billed)
<1>1. /\ LedgerInv /\ invoices \in Seq(Invoice) /\ IsCatalogue(catalogue)
      /\ summary.revenue = Weight(journal, Earned)
  BY CompletedIs
<1>2. PICK booked \in Seq(TaxEntrySet) :
        /\ journal = RuleJournal(invoices, catalogue) \o booked
        /\ RuleJournal(invoices, catalogue) \in Seq(JournalEntry)
        /\ booked \in Seq(JournalEntry)
  BY <1>1, JournalParts
<1>3. \A e \in JournalEntry : Earned[e] \in Int BY ReportWeightsType
<1>4. Weight(journal, Earned)
        = Weight(RuleJournal(invoices, catalogue), Earned) + Weight(booked, Earned)
  BY ONLY <1>2, <1>3, WeightConcat
<1>5. Weight(booked, Earned) = 0
  <2>1. \A e \in TaxEntrySet : Earned[e] = 0 BY DEF TaxEntrySet, Payables, Earned
  <2> QED BY ONLY <1>2, <2>1, WeightZero
<1>6. Weight(RuleJournal(invoices, catalogue), Earned)
        = SumFunction([i \in DOMAIN invoices |->
                         Weight(InvoiceEntries(invoices[i], i, catalogue), Earned)])
  BY ONLY <1>1, <1>3, RuleJournalWeight
<1>7. ASSUME NEW i \in DOMAIN invoices
      PROVE  Weight(InvoiceEntries(invoices[i], i, catalogue), Earned) = Billed[invoices[i]]
  <2>1. invoices[i] \in Invoice /\ i \in Nat BY <1>1
  <2>2. SaneInvoice(invoices[i]) BY InvoicesAreSane
  <2> QED BY ONLY <1>1, <2>1, <2>2, InvoiceEarns
<1>8. SumFunction([i \in DOMAIN invoices |->
                         Weight(InvoiceEntries(invoices[i], i, catalogue), Earned)])
        = Weight(invoices, Billed)
  BY <1>7, Zenon DEF Weight
<1>9. Weight(invoices, Billed) \in Int
  <2>1. \A inv \in Invoice : Billed[inv] \in Int BY InvoiceWeights
  <2> QED BY ONLY <1>1, <2>1, WeightType
<1> QED BY <1>1, <1>4, <1>5, <1>6, <1>8, <1>9

\* The ledger's revenue is what the issued invoices bill less the tax of the paid
\* ones, and the tax service's revenue has that tax and the invoices besides that are
\* archived, or whose status is missing or unknown, for any sane bills.
THEOREM LedgerRevenueReconciles == ASSUME BillsAreSane PROVE Spec => []RevenueReconciles
<1>1. ASSUME GivenInv PROVE RevenueReconciles
  <2> SUFFICES ASSUME stage = "completed", author = "rules"
      PROVE  LET Total(S) == SumOver(invoices, LAMBDA inv :
                               IF inv.status \in S THEN inv.total ELSE 0)
                 paidTax == SumOver(invoices, LAMBDA inv :
                               IF inv.status = "PAID" THEN inv.tax ELSE 0)
             IN  /\ summary.revenue = Total(Billing) - paidTax
                 /\ TaxableRevenue(invoices)
                        = summary.revenue + paidTax + Total({"ARCHIVED", "OTHER"})
    BY DEF RevenueReconciles
  <2>1. invoices \in Seq(Invoice) /\ \A i \in DOMAIN invoices : invoices[i] \in Invoice
    BY <1>1, CompletedIs
  <2> DEFINE all == Billing
             Total(S) == SumOver(invoices, LAMBDA inv : IF inv.status \in S THEN inv.total ELSE 0)
             paidTax == SumOver(invoices, LAMBDA inv : IF inv.status = "PAID" THEN inv.tax ELSE 0)
  <2>2. \A S : Total(S) = Weight(invoices, TotalIn(S))
    BY <2>1 DEF SumOver, Weight, TotalIn
  <2>3. paidTax = Weight(invoices, TaxOfPaid) BY <2>1 DEF SumOver, Weight, TaxOfPaid
  <2>4. TaxableRevenue(invoices) = Weight(invoices, Taxable)
    BY <2>1 DEF TaxableRevenue, SumOver, Weight, Taxable
  <2>5. summary.revenue = Weight(invoices, Billed) BY <1>1, RulesEarn
  <2> HIDE DEF all, Total, paidTax
  <2>10. /\ Billed \in [Invoice -> Int] /\ TaxOfPaid \in [Invoice -> Int]
         /\ Taxable \in [Invoice -> Int] /\ TotalIn(all) \in [Invoice -> Int]
         /\ TotalIn({"ARCHIVED", "OTHER"}) \in [Invoice -> Int]
         /\ \A inv \in Invoice : TotalIn(all)[inv] = Billed[inv] + TaxOfPaid[inv]
         /\ \A inv \in Invoice :
               Taxable[inv] = TotalIn(all)[inv] + TotalIn({"ARCHIVED", "OTHER"})[inv]
    BY InvoiceWeights, Zenon DEF all
  <2>6. Weight(invoices, TotalIn(all)) = Weight(invoices, Billed) + Weight(invoices, TaxOfPaid)
    <3>1. \A s \in Seq(Invoice) : Weight(s, TotalIn(all)) = Weight(s, Billed) + Weight(s, TaxOfPaid)
      BY ONLY <2>10, WeightAdd, Zenon
    <3> QED BY <2>1, <3>1
  <2>7. Weight(invoices, Taxable)
          = Weight(invoices, TotalIn(all)) + Weight(invoices, TotalIn({"ARCHIVED", "OTHER"}))
    <3>1. \A s \in Seq(Invoice) :
            Weight(s, Taxable) = Weight(s, TotalIn(all)) + Weight(s, TotalIn({"ARCHIVED", "OTHER"}))
      BY ONLY <2>10, WeightAdd, Zenon
    <3> QED BY <2>1, <3>1
  <2>8. /\ Weight(invoices, TotalIn(all)) \in Int /\ Weight(invoices, TaxOfPaid) \in Int
        /\ Weight(invoices, Billed) \in Int
        /\ Weight(invoices, TotalIn({"ARCHIVED", "OTHER"})) \in Int
    <3>1. \A w \in [Invoice -> Int] : Weight(invoices, w) \in Int BY <2>1, WeightType
    <3> QED BY <3>1, InvoiceWeights
  <2>9. /\ summary.revenue = Total(all) - paidTax
        /\ TaxableRevenue(invoices) = summary.revenue + paidTax + Total({"ARCHIVED", "OTHER"})
    BY <2>2, <2>3, <2>4, <2>5, <2>6, <2>7, <2>8
  <2> QED BY <2>9 DEF all, Total, paidTax
<1> QED BY <1>1, LedgerGiven, PTL
=============================================================================
