-------------------------- MODULE RecursionLemmas --------------------------
(***************************************************************************)
(* Sums and folds over finite sets, without the induction theorems of the   *)
(* library, whose operator parameters the provers cannot instantiate: an    *)
(* argument by induction is an argument about a minimal counterexample,     *)
(* which the well-founded orderings of the library provide.                 *)
(*                                                                          *)
(* A fold takes one element after the other out of a set.  `ch' says which  *)
(* one comes next, `op' combines it with the fold of what is left.          *)
(***************************************************************************)
EXTENDS Integers, FiniteSets, FiniteSetTheorems, WellFoundedInduction, TLAPS

(* Every nonempty family of subsets of a finite set has a minimal member.   *)
LEMMA MinimalSet ==
    ASSUME NEW S, IsFiniteSet(S), NEW C, C \subseteq SUBSET S, C # {}
    PROVE  \E T \in C : \A U \in C : U \subseteq T => U = T
  <1>1. C \subseteq FiniteSubsetsOf(S)
    BY FS_Subset DEF FiniteSubsetsOf
  <1>2. \E T \in C : \A U \in C : ~(<<U, T>> \in StrictSubsetOrdering(S))
    BY <1>1, FS_StrictSubsetOrderingWellFounded, WFMin
  <1>3. QED
    BY <1>2 DEF StrictSubsetOrdering

(* Every nonempty set of naturals has a least member.                       *)
LEMMA LeastNumber ==
    ASSUME NEW C, C \subseteq Nat, C # {}
    PROVE  \E m \in C : \A n \in C : m <= n
  <1>1. PICK b \in C : TRUE
    OBVIOUS
  <1> DEFINE D == 1..b
             R == {1..n : n \in {m \in C : m <= b}}
  <1>2. R \subseteq SUBSET D /\ R # {}
    <2>1. \A n \in Nat : n <= b => 1..n \in SUBSET (1..b)
      BY <1>1
    <2>2. b <= b /\ b \in Nat /\ 1..b \in R
      BY <1>1
    <2>3. QED
      BY <2>1, <2>2
  <1>3. PICK T \in R : \A U \in R : U \subseteq T => U = T
    <2>1. b \in Int /\ 1 \in Int
      BY <1>1
    <2> HIDE DEF R
    <2>2. IsFiniteSet(D)
      BY <2>1, FS_Interval
    <2> HIDE DEF D
    <2>3. QED
      BY <1>2, <2>2, MinimalSet
  <1>4. PICK m \in C : m <= b /\ T = 1..m
    BY <1>3
  <1>5. ASSUME NEW n \in C, n < m PROVE FALSE
    <2>1. 1..n \in R /\ 1..n \subseteq T
      BY <1>1, <1>4, <1>5
    <2>2. 1..n = 1..m
      BY <1>3, <1>4, <2>1
    <2>3. m \in 1..m /\ m \notin 1..n
      BY <1>4, <1>5
    <2>4. QED
      BY <2>2, <2>3
  <1>6. QED
    BY <1>4, <1>5

(* Of finitely many things that an order compares, one comes last.          *)
LEMMA LastExists ==
    ASSUME NEW S, IsFiniteSet(S), S # {}, NEW R,
           \A x, y \in S : <<x, y>> \in R \/ <<y, x>> \in R,
           \A x, y, z \in S : <<x, y>> \in R /\ <<y, z>> \in R => <<x, z>> \in R
    PROVE  \E m \in S : \A x \in S : <<x, m>> \in R
  <1> DEFINE C == {T \in SUBSET S : T # {} /\ ~ \E m \in T : \A x \in T : <<x, m>> \in R}
  <1>1. ASSUME C # {} PROVE FALSE
    <2>1. PICK T \in C : \A U \in C : U \subseteq T => U = T
      <3>1. C \subseteq SUBSET S
        OBVIOUS
      <3> HIDE DEF C
      <3>2. QED
        BY <1>1, <3>1, MinimalSet
    <2>2. PICK y \in T : T \subseteq S
      <3>1. T # {} /\ T \subseteq S
        OBVIOUS
      <3> HIDE DEF C
      <3>2. QED
        BY <3>1
    <2>3. T \ {y} # {} => \E m \in T \ {y} : \A x \in T \ {y} : <<x, m>> \in R
      <3>1. T \ {y} \notin C
        <4>1. y \in T /\ T \ {y} \subseteq T /\ T \ {y} # T
          OBVIOUS
        <4> HIDE DEF C
        <4>2. QED
          BY <2>1, <4>1
      <3>2. QED
        BY <2>2, <3>1
    <2>4. ~ \E m \in T : \A x \in T : <<x, m>> \in R
      OBVIOUS
    <2> HIDE DEF C
    <2>5. CASE T \ {y} = {}
      BY <2>2, <2>4, <2>5
    <2>6. CASE T \ {y} # {}
      <3>1. PICK m \in T \ {y} : \A x \in T \ {y} : <<x, m>> \in R
        BY <2>3, <2>6
      <3>2. CASE <<y, m>> \in R
        BY <2>4, <3>1, <3>2
      <3>3. CASE <<m, y>> \in R
        <4>1. \A x \in T \ {y} : <<x, y>> \in R
          BY <2>2, <3>1, <3>3
        <4>2. <<y, y>> \in R
          BY <2>2
        <4>3. QED
          BY <2>2, <2>4, <4>1, <4>2
      <3>4. QED
        BY <2>2, <3>1, <3>2, <3>3
    <2>7. QED
      BY <2>5, <2>6
  <1>2. S \in C \/ \E m \in S : \A x \in S : <<x, m>> \in R
    OBVIOUS
  <1>3. QED
    BY <1>1, <1>2

(* And one has the least measure.                                           *)
LEMMA LeastBy ==
    ASSUME NEW S, IsFiniteSet(S), S # {}, NEW f \in [S -> Int]
    PROVE  \E m \in S : \A x \in S : f[m] <= f[x]
  <1> DEFINE R == {p \in S \X S : f[p[2]] <= f[p[1]]}
  <1>1. \A x \in S : f[x] \in Int
    OBVIOUS
  <1>2. ASSUME NEW x \in S, NEW y \in S
        PROVE  <<x, y>> \in R <=> f[y] <= f[x]
    <2>1. <<x, y>> \in S \X S /\ <<x, y>>[1] = x /\ <<x, y>>[2] = y
      OBVIOUS
    <2>2. \A p \in S \X S : p \in R <=> f[p[2]] <= f[p[1]]
      OBVIOUS
    <2> HIDE DEF R
    <2>3. <<x, y>> \in R <=> f[<<x, y>>[2]] <= f[<<x, y>>[1]]
      BY <2>1, <2>2
    <2>4. QED
      BY <2>1, <2>3
  <1> HIDE DEF R
  <1>3. ASSUME NEW x \in S, NEW y \in S
        PROVE  <<x, y>> \in R \/ <<y, x>> \in R
    <2>1. f[x] <= f[y] \/ f[y] <= f[x]
      BY <1>1
    <2>2. QED
      BY <1>2, <2>1
  <1>4. ASSUME NEW x \in S, NEW y \in S, NEW z \in S, <<x, y>> \in R, <<y, z>> \in R
        PROVE  <<x, z>> \in R
    <2>1. f[y] <= f[x] /\ f[z] <= f[y]
      BY <1>2, <1>4
    <2>2. f[z] <= f[x]
      BY <1>1, <2>1
    <2>3. QED
      BY <1>2, <2>2
  <1>5. \E m \in S : \A x \in S : <<x, m>> \in R
    BY <1>3, <1>4, LastExists
  <1>6. QED
    BY <1>2, <1>5

-----------------------------------------------------------------------------
(* F computes the fold on T and below it.                                   *)
Unrolls(F, ch, op, base, U) == F[U] = IF U = {} THEN base ELSE op[<<ch[U], F[U \ {ch[U]}]>>]
Computes(F, ch, op, base, T) == \A U \in SUBSET T : Unrolls(F, ch, op, base, U)
Chooses(ch, S) == \A T \in SUBSET S : T # {} => ch[T] \in T

LEMMA FoldsAgree ==
    ASSUME NEW S, IsFiniteSet(S), NEW ch, NEW op, NEW base, Chooses(ch, S),
           NEW F, NEW G, Computes(F, ch, op, base, S), Computes(G, ch, op, base, S)
    PROVE  F[S] = G[S]
  <1> DEFINE C == {T \in SUBSET S : F[T] # G[T]}
  <1> SUFFICES ASSUME C # {} PROVE FALSE
    OBVIOUS
  <1>1. PICK T \in C : \A U \in C : U \subseteq T => U = T
    <2>1. C \subseteq SUBSET S
      OBVIOUS
    <2> HIDE DEF C
    <2>2. QED
      BY <2>1, MinimalSet
  <1>2. Unrolls(F, ch, op, base, T) /\ Unrolls(G, ch, op, base, T)
    BY DEF Computes
  <1>3. T # {}
    BY <1>2 DEF Unrolls
  <1>4. ch[T] \in T
    BY <1>3 DEF Chooses
  <1>5. F[T \ {ch[T]}] = G[T \ {ch[T]}]
    BY <1>1, <1>4
  <1>6. QED
    BY <1>2, <1>3, <1>5 DEF Unrolls

(* The recursive definition itself.  It does define a function.             *)
FoldsOver(F, S, ch, op, base) ==
    F = [T \in SUBSET S |-> IF T = {} THEN base ELSE op[<<ch[T], F[T \ {ch[T]}]>>]]

LEMMA FoldExists ==
    ASSUME NEW S, IsFiniteSet(S), NEW ch, NEW op, NEW base, Chooses(ch, S)
    PROVE  \E F : FoldsOver(F, S, ch, op, base)
  <1> DEFINE C == {T \in SUBSET S : ~ \E F : Computes(F, ch, op, base, T)}
  <1>1. ASSUME C # {} PROVE FALSE
    <2>1. PICK T \in C : \A U \in C : U \subseteq T => U = T
      <3>1. C \subseteq SUBSET S
        OBVIOUS
      <3> HIDE DEF C
      <3>2. QED
        BY <1>1, <3>1, MinimalSet
    <2> DEFINE G(U) == CHOOSE F : Computes(F, ch, op, base, U)
               H == [U \in SUBSET T |-> IF U = {} THEN base
                                        ELSE op[<<ch[U], G(U \ {ch[U]})[U \ {ch[U]}]>>]]
    <2>2. \A U \in SUBSET T : U # T => Computes(G(U), ch, op, base, U)
      <3> SUFFICES ASSUME NEW U \in SUBSET T, U # T
                   PROVE  Computes(G(U), ch, op, base, U)
        OBVIOUS
      <3>1. \E F : Computes(F, ch, op, base, U)
        BY <2>1
      <3>2. QED
        BY <3>1
    <2>3. T \in SUBSET S
      OBVIOUS
    <2> HIDE DEF G, C
    <2>4. ASSUME NEW U \in SUBSET T, U # {}
          PROVE  Unrolls(H, ch, op, base, U)
      <3> DEFINE V == U \ {ch[U]}
                 W == V \ {ch[V]}
      <3>1. ch[U] \in U /\ V \in SUBSET T /\ V # T /\ V \in SUBSET S /\ (V # {} => ch[V] \in V)
        BY <2>3, <2>4 DEF Chooses
      <3>2. H[U] = op[<<ch[U], G(V)[V]>>]
        BY <2>4
      <3>3. Computes(G(V), ch, op, base, V)
        BY <2>2, <3>1
      <3>4. Unrolls(G(V), ch, op, base, V)
        BY <3>3 DEF Computes
      <3>5. H[V] = G(V)[V]
        <4>1. CASE V = {}
          <5>1. H[V] = base /\ G(V)[V] = base
            BY <3>1, <3>4, <4>1 DEF Unrolls
          <5>2. QED
            BY <5>1
        <4>2. CASE V # {}
          <5>1. W \in SUBSET V /\ W \in SUBSET T /\ W # T /\ W \in SUBSET S
            BY <3>1, <4>2
          <5>2. Computes(G(V), ch, op, base, W) /\ Computes(G(W), ch, op, base, W)
            BY <2>2, <3>3, <5>1 DEF Computes
          <5>3. IsFiniteSet(W) /\ Chooses(ch, W)
            BY <5>1, FS_Subset DEF Chooses
          <5> HIDE DEF H, V, W
          <5>4. G(V)[W] = G(W)[W]
            BY <5>2, <5>3, FoldsAgree
          <5>5. H[V] = op[<<ch[V], G(W)[W]>>]
            BY <3>1, <4>2 DEF H, W
          <5>6. G(V)[V] = op[<<ch[V], G(V)[W]>>]
            BY <3>4, <4>2 DEF Unrolls, W
          <5>7. QED
            BY <5>4, <5>5, <5>6
        <4>3. QED
          BY <4>1, <4>2
      <3> HIDE DEF H
      <3>6. QED
        BY <2>4, <3>2, <3>5 DEF Unrolls
    <2>5. Unrolls(H, ch, op, base, {})
      BY DEF Unrolls
    <2> HIDE DEF H
    <2>6. Computes(H, ch, op, base, T)
      BY <2>4, <2>5 DEF Computes
    <2>7. QED
      BY <2>1, <2>6 DEF C
  <1>2. PICK F : Computes(F, ch, op, base, S)
    BY <1>1
  <1> DEFINE E == [T \in SUBSET S |-> F[T]]
  <1>3. \A T \in SUBSET S : E[T] = IF T = {} THEN base ELSE op[<<ch[T], E[T \ {ch[T]}]>>]
    BY <1>2 DEF Computes, Unrolls, Chooses
  <1>4. E = [T \in SUBSET S |-> IF T = {} THEN base ELSE op[<<ch[T], E[T \ {ch[T]}]>>]]
    BY <1>3
  <1>5. QED
    BY <1>4 DEF FoldsOver

LEMMA FoldUnrolls ==
    ASSUME NEW S, NEW ch, NEW op, NEW base, NEW F, FoldsOver(F, S, ch, op, base)
    PROVE  Computes(F, ch, op, base, S)
  BY DEF FoldsOver, Computes, Unrolls

LEMMA FoldType ==
    ASSUME NEW S, IsFiniteSet(S), NEW ch, NEW D, NEW op \in [S \X D -> D], NEW base \in D,
           Chooses(ch, S), NEW F, FoldsOver(F, S, ch, op, base)
    PROVE  F \in [SUBSET S -> D]
  <1> DEFINE C == {T \in SUBSET S : F[T] \notin D}
  <1>1. \A T \in SUBSET S : Unrolls(F, ch, op, base, T)
    BY FoldUnrolls DEF Computes
  <1>2. ASSUME C # {} PROVE FALSE
    <2>1. PICK T \in C : \A U \in C : U \subseteq T => U = T
      <3>1. C \subseteq SUBSET S
        OBVIOUS
      <3> HIDE DEF C
      <3>2. QED
        BY <1>2, <3>1, MinimalSet
    <2>2. T \in SUBSET S /\ F[T] \notin D /\ \A U \in SUBSET T : U # T => F[U] \in D
      BY <2>1
    <2> HIDE DEF C
    <2>3. T # {}
      BY <1>1, <2>2 DEF Unrolls
    <2> DEFINE U == T \ {ch[T]}
    <2>4. ch[T] \in T /\ ch[T] \in S /\ U \in SUBSET T /\ U # T
      BY <2>2, <2>3 DEF Chooses
    <2>5. F[U] \in D
      BY <2>2, <2>4
    <2>6. F[T] = op[<<ch[T], F[U]>>]
      BY <1>1, <2>2, <2>3 DEF Unrolls
    <2> HIDE DEF U
    <2>7. QED
      BY <2>2, <2>4, <2>5, <2>6
  <1>3. \A T \in SUBSET S : F[T] \in D
    BY <1>2
  <1> HIDE DEF C
  <1>4. F = [T \in SUBSET S |-> F[T]]
    BY DEF FoldsOver
  <1>5. QED
    BY <1>3, <1>4

-----------------------------------------------------------------------------
(* Sums: the recursive definition, and what makes F the sum of c over every *)
(* subset of S, whatever the order in which the elements are taken.         *)
SumsBy(F, S, ch, c) ==
    F = [T \in SUBSET S |-> IF T = {} THEN 0 ELSE c[ch[T]] + F[T \ {ch[T]}]]

Sums(F, S, c) ==
    /\ F \in [SUBSET S -> Int]
    /\ F[{}] = 0
    /\ \A T \in SUBSET S : \A x \in T : F[T] = c[x] + F[T \ {x}]

LEMMA SumExists ==
    ASSUME NEW S, IsFiniteSet(S), NEW c \in [S -> Int], NEW ch, Chooses(ch, S)
    PROVE  \E F : SumsBy(F, S, ch, c) /\ F \in [SUBSET S -> Int]
  <1> DEFINE op == [p \in S \X Int |-> c[p[1]] + p[2]]
  <1>1. op \in [S \X Int -> Int]
    OBVIOUS
  <1>2. \A x \in S, v \in Int : op[<<x, v>>] = c[x] + v
    OBVIOUS
  <1> HIDE DEF op
  <1>3. PICK F : FoldsOver(F, S, ch, op, 0)
    BY FoldExists
  <1>4. F \in [SUBSET S -> Int]
    <2>1. 0 \in Int
      OBVIOUS
    <2>2. QED
      BY <1>1, <1>3, <2>1, FoldType
  <1>5. ASSUME NEW T \in SUBSET S
        PROVE  F[T] = IF T = {} THEN 0 ELSE c[ch[T]] + F[T \ {ch[T]}]
    <2>1. F[T] = IF T = {} THEN 0 ELSE op[<<ch[T], F[T \ {ch[T]}]>>]
      <3>1. Computes(F, ch, op, 0, S)
        BY <1>3, FoldUnrolls
      <3>2. QED
        BY <3>1 DEF Computes, Unrolls
    <2>2. T # {} => ch[T] \in S /\ T \ {ch[T]} \in SUBSET S
      BY DEF Chooses
    <2>3. T # {} => F[T \ {ch[T]}] \in Int
      BY <1>4, <2>2
    <2>4. QED
      BY <1>2, <2>1, <2>2, <2>3
  <1>6. SumsBy(F, S, ch, c)
    BY <1>4, <1>5 DEF SumsBy
  <1>7. QED
    BY <1>4, <1>6

LEMMA SumType ==
    ASSUME NEW S, IsFiniteSet(S), NEW c \in [S -> Int], NEW ch, Chooses(ch, S),
           NEW F, SumsBy(F, S, ch, c)
    PROVE  F \in [SUBSET S -> Int]
  <1> DEFINE C == {T \in SUBSET S : F[T] \notin Int}
  <1>1. \A T \in SUBSET S : F[T] = IF T = {} THEN 0 ELSE c[ch[T]] + F[T \ {ch[T]}]
    BY DEF SumsBy
  <1>2. ASSUME C # {} PROVE FALSE
    <2>1. PICK T \in C : \A U \in C : U \subseteq T => U = T
      <3>1. C \subseteq SUBSET S
        OBVIOUS
      <3> HIDE DEF C
      <3>2. QED
        BY <1>2, <3>1, MinimalSet
    <2>2. T \in SUBSET S /\ F[T] \notin Int /\ \A U \in SUBSET T : U # T => F[U] \in Int
      BY <2>1
    <2> HIDE DEF C
    <2> DEFINE U == T \ {ch[T]}
    <2>3. T # {}
      <3>1. T = {} => F[T] = 0
        BY <1>1, <2>2
      <3>2. F[T] # 0
        BY <2>2
      <3>3. QED
        BY <3>1, <3>2
    <2>4. F[T] = c[ch[T]] + F[U]
      BY <1>1, <2>2, <2>3
    <2>5. ch[T] \in S /\ U \in SUBSET T /\ U # T
      BY <2>2, <2>3 DEF Chooses
    <2> HIDE DEF U
    <2>6. QED
      BY <2>2, <2>4, <2>5
  <1>3. \A T \in SUBSET S : F[T] \in Int
    BY <1>2
  <1> HIDE DEF C
  <1>4. F = [T \in SUBSET S |-> F[T]]
    BY DEF SumsBy
  <1>5. QED
    BY <1>3, <1>4

LEMMA SumIsSum ==
    ASSUME NEW S, IsFiniteSet(S), NEW c \in [S -> Int], NEW ch, Chooses(ch, S),
           NEW F, SumsBy(F, S, ch, c)
    PROVE  Sums(F, S, c)
  <1> DEFINE C == {T \in SUBSET S : \E x \in T : F[T] # c[x] + F[T \ {x}]}
  <1>1. \A T \in SUBSET S : F[T] = IF T = {} THEN 0 ELSE c[ch[T]] + F[T \ {ch[T]}]
    BY DEF SumsBy
  <1>2. F \in [SUBSET S -> Int]
    BY SumType
  <1>3. ASSUME C # {} PROVE FALSE
    <2>1. PICK T \in C : \A U \in C : U \subseteq T => U = T
      <3>1. C \subseteq SUBSET S
        OBVIOUS
      <3> HIDE DEF C
      <3>2. QED
        BY <1>3, <3>1, MinimalSet
    <2>2. PICK x \in T : F[T] # c[x] + F[T \ {x}]
      OBVIOUS
    <2>3. /\ T \in SUBSET S
          /\ \A U \in SUBSET T : U # T => \A y \in U : F[U] = c[y] + F[U \ {y}]
      BY <2>1
    <2> HIDE DEF C
    <2> DEFINE k == ch[T]
               A == T \ {k}
               B == T \ {x}
               R == T \ {k, x}
    <2>4. k \in T /\ F[T] = c[k] + F[A]
      BY <1>1, <2>2, <2>3 DEF Chooses
    <2>5. x # k
      BY <2>2, <2>4
    <2>6. /\ A \in SUBSET T /\ A # T /\ x \in A /\ A \ {x} = R
          /\ B \in SUBSET T /\ B # T /\ k \in B /\ B \ {k} = R
          /\ R \in SUBSET S
      BY <2>2, <2>3, <2>4, <2>5
    <2>7. F[T] # c[x] + F[B]
      BY <2>2
    <2> HIDE DEF A, B, R, k
    <2>8. F[A] = c[x] + F[R] /\ F[B] = c[k] + F[R]
      <3>1. F[A] = c[x] + F[A \ {x}] /\ F[B] = c[k] + F[B \ {k}]
        BY <2>3, <2>6
      <3>2. QED
        BY <2>6, <3>1
    <2>9. c[x] \in Int /\ c[k] \in Int /\ F[R] \in Int
      BY <1>2, <2>2, <2>3, <2>4, <2>6
    <2>10. QED
      BY <2>4, <2>7, <2>8, <2>9
  <1>4. F[{}] = 0
    BY <1>1
  <1>5. \A T \in SUBSET S : \A x \in T : F[T] = c[x] + F[T \ {x}]
    BY <1>3
  <1> HIDE DEF C
  <1>6. QED
    BY <1>4, <1>5, <1>2 DEF Sums

LEMMA SumsAgree ==
    ASSUME NEW S, NEW R, IsFiniteSet(R), R \subseteq S, NEW c, NEW d, \A x \in R : c[x] = d[x],
           NEW F, NEW G, Sums(F, S, c), Sums(G, R, d)
    PROVE  F[R] = G[R]
  <1> DEFINE C == {T \in SUBSET R : F[T] # G[T]}
  <1> SUFFICES ASSUME C # {} PROVE FALSE
    OBVIOUS
  <1>1. PICK T \in C : \A U \in C : U \subseteq T => U = T
    <2>1. C \subseteq SUBSET R
      OBVIOUS
    <2> HIDE DEF C
    <2>2. QED
      BY <2>1, MinimalSet
  <1>2. T \in SUBSET R /\ F[T] # G[T] /\ \A U \in SUBSET T : U # T => F[U] = G[U]
    BY <1>1
  <1> HIDE DEF C
  <1>3. T # {}
    BY <1>2 DEF Sums
  <1>4. PICK x \in T : TRUE
    BY <1>3
  <1>5. F[T \ {x}] = G[T \ {x}]
    BY <1>2, <1>4
  <1>6. F[T] = c[x] + F[T \ {x}] /\ G[T] = c[x] + G[T \ {x}]
    <2>1. T \in SUBSET S /\ T \in SUBSET R /\ c[x] = d[x]
      BY <1>2, <1>4
    <2>2. QED
      BY <1>4, <2>1 DEF Sums
  <1>7. QED
    BY <1>2, <1>5, <1>6

(* More of what costs something costs no less.                              *)
LEMMA SumGrows ==
    ASSUME NEW S, NEW c \in [S -> Int], NEW F, Sums(F, S, c),
           NEW B \in SUBSET S, IsFiniteSet(B), NEW A \in SUBSET B, \A x \in B \ A : c[x] >= 0
    PROVE  F[A] <= F[B]
  <1> DEFINE C == {T \in SUBSET B : A \subseteq T /\ ~(F[A] <= F[T])}
  <1> SUFFICES ASSUME C # {} PROVE FALSE
    OBVIOUS
  <1>1. PICK T \in C : \A U \in C : U \subseteq T => U = T
    <2>1. C \subseteq SUBSET B
      OBVIOUS
    <2> HIDE DEF C
    <2>2. QED
      BY <2>1, MinimalSet
  <1>2. /\ T \in SUBSET B /\ A \subseteq T /\ ~(F[A] <= F[T])
        /\ \A U \in SUBSET T : U # T /\ A \subseteq U => F[A] <= F[U]
    BY <1>1
  <1> HIDE DEF C
  <1>3. \A U \in SUBSET S : F[U] \in Int
    BY DEF Sums
  <1>4. T # A
    BY <1>2, <1>3
  <1>5. PICK x \in T : x \notin A
    BY <1>2, <1>4
  <1> DEFINE U == T \ {x}
  <1>6. U \in SUBSET T /\ U # T /\ A \subseteq U /\ T \in SUBSET S /\ U \in SUBSET S /\ A \in SUBSET S
    BY <1>2, <1>5
  <1>7. F[T] = c[x] + F[U]
    BY <1>5, <1>6 DEF Sums
  <1> HIDE DEF U
  <1>8. F[A] <= F[U]
    BY <1>2, <1>6
  <1>9. c[x] >= 0 /\ c[x] \in Int
    BY <1>2, <1>5, <1>6
  <1>10. QED
    BY <1>2, <1>3, <1>6, <1>7, <1>8, <1>9

(* Two sums together cover the sum over the union.                          *)
LEMMA SumOfUnion ==
    ASSUME NEW S, NEW c \in [S -> Int], NEW F, Sums(F, S, c),
           NEW A \in SUBSET S, NEW B \in SUBSET S, IsFiniteSet(B), \A x \in B : c[x] >= 0
    PROVE  F[A \cup B] <= F[A] + F[B]
  <1> DEFINE C == {T \in SUBSET B : ~(F[A \cup T] <= F[A] + F[T])}
  <1> SUFFICES ASSUME C # {} PROVE FALSE
    OBVIOUS
  <1>1. PICK T \in C : \A U \in C : U \subseteq T => U = T
    <2>1. C \subseteq SUBSET B
      OBVIOUS
    <2> HIDE DEF C
    <2>2. QED
      BY <2>1, MinimalSet
  <1>2. /\ T \in SUBSET B /\ ~(F[A \cup T] <= F[A] + F[T])
        /\ \A U \in SUBSET T : U # T => F[A \cup U] <= F[A] + F[U]
    BY <1>1
  <1> HIDE DEF C
  <1>3. \A U \in SUBSET S : F[U] \in Int
    BY DEF Sums
  <1>4. T # {}
    <2>1. A \cup {} = A /\ F[{}] = 0 /\ F[A] \in Int
      BY <1>3 DEF Sums
    <2>2. F[A] <= F[A] + 0
      BY <2>1
    <2>3. QED
      BY <1>2, <2>1, <2>2
  <1>5. PICK x \in T : TRUE
    BY <1>4
  <1> DEFINE U == T \ {x}
             AT == A \cup T
             AU == A \cup U
             AX == AT \ {x}
  <1>6. /\ U \in SUBSET T /\ U # T /\ T \in SUBSET S /\ U \in SUBSET S
        /\ AT \in SUBSET S /\ AU \in SUBSET S
        /\ (x \in A => AT = AU) /\ (x \notin A => AX = AU) /\ x \in AT
    BY <1>2, <1>5
  <1>7. F[AU] <= F[A] + F[U] /\ ~(F[AT] <= F[A] + F[T])
    BY <1>2, <1>6
  <1>8. F[T] = c[x] + F[U] /\ F[AT] = c[x] + F[AX]
    BY <1>5, <1>6 DEF Sums
  <1>9. c[x] >= 0 /\ c[x] \in Int
    BY <1>2, <1>5
  <1> HIDE DEF U, AT, AU, AX
  <1>10. F[AT] <= c[x] + F[AU]
    <2>1. F[AT] \in Int /\ F[AU] \in Int
      BY <1>3, <1>6
    <2>2. CASE x \in A
      BY <1>6, <1>9, <2>1, <2>2
    <2>3. CASE x \notin A
      BY <1>6, <1>8, <1>9, <2>1, <2>3
    <2>4. QED
      BY <2>2, <2>3
  <1>11. QED
    BY <1>3, <1>6, <1>7, <1>8, <1>9, <1>10

(* A sum is the sum over a part and the sum over the rest.                   *)
LEMMA SumSplits ==
    ASSUME NEW S, NEW c \in [S -> Int], NEW F, Sums(F, S, c),
           NEW A \in SUBSET S, NEW B \in SUBSET S, IsFiniteSet(B), A \cap B = {}
    PROVE  F[A \cup B] = F[A] + F[B]
  <1> DEFINE C == {T \in SUBSET B : F[A \cup T] # F[A] + F[T]}
  <1> SUFFICES ASSUME C # {} PROVE FALSE
    OBVIOUS
  <1>1. PICK T \in C : \A U \in C : U \subseteq T => U = T
    <2>1. C \subseteq SUBSET B
      OBVIOUS
    <2> HIDE DEF C
    <2>2. QED
      BY <2>1, MinimalSet
  <1>2. /\ T \in SUBSET B /\ F[A \cup T] # F[A] + F[T]
        /\ \A U \in SUBSET T : U # T => F[A \cup U] = F[A] + F[U]
    BY <1>1
  <1> HIDE DEF C
  <1>3. \A U \in SUBSET S : F[U] \in Int
    BY DEF Sums
  <1>4. T # {}
    <2>1. A \cup {} = A /\ F[{}] = 0 /\ F[A] \in Int
      BY <1>3 DEF Sums
    <2>2. F[A] = F[A] + 0
      BY <2>1
    <2>3. QED
      BY <1>2, <2>1, <2>2
  <1>5. PICK x \in T : TRUE
    BY <1>4
  <1> DEFINE U == T \ {x}
             AT == A \cup T
             AU == A \cup U
  <1>6. /\ U \in SUBSET T /\ U # T /\ T \in SUBSET S /\ U \in SUBSET S
        /\ AT \in SUBSET S /\ AU \in SUBSET S
        /\ AT \ {x} = AU /\ x \in AT
    BY <1>2, <1>5
  <1>7. F[AU] = F[A] + F[U] /\ F[AT] # F[A] + F[T]
    BY <1>2, <1>6
  <1>8. F[T] = c[x] + F[U] /\ F[AT] = c[x] + F[AT \ {x}]
    <2> HIDE DEF AT
    <2>1. QED
      BY <1>5, <1>6 DEF Sums
  <1>9. c[x] \in Int /\ F[A] \in Int /\ F[U] \in Int
    BY <1>2, <1>3, <1>5, <1>6
  <1> HIDE DEF U, AT, AU
  <1>10. F[AT] = c[x] + (F[A] + F[U])
    BY <1>6, <1>7, <1>8
  <1>11. F[A] + F[T] = F[A] + (c[x] + F[U])
    BY <1>8
  <1>12. QED
    BY <1>7, <1>9, <1>10, <1>11

(* What adds less everywhere adds up to less.                               *)
LEMMA SumDominated ==
    ASSUME NEW S, NEW c \in [S -> Int], NEW d \in [S -> Int],
           NEW F, Sums(F, S, c), NEW G, Sums(G, S, d),
           NEW R \in SUBSET S, IsFiniteSet(R), \A x \in R : c[x] <= d[x]
    PROVE  F[R] <= G[R]
  <1> DEFINE C == {T \in SUBSET R : ~(F[T] <= G[T])}
  <1> SUFFICES ASSUME C # {} PROVE FALSE
    OBVIOUS
  <1>1. PICK T \in C : \A U \in C : U \subseteq T => U = T
    <2>1. C \subseteq SUBSET R
      OBVIOUS
    <2> HIDE DEF C
    <2>2. QED
      BY <2>1, MinimalSet
  <1>2. T \in SUBSET R /\ ~(F[T] <= G[T]) /\ \A U \in SUBSET T : U # T => F[U] <= G[U]
    BY <1>1
  <1> HIDE DEF C
  <1>3. T # {}
    <2>1. F[{}] = 0 /\ G[{}] = 0
      BY DEF Sums
    <2>2. F[{}] <= G[{}]
      BY <2>1
    <2>3. QED
      BY <1>2, <2>2
  <1>4. PICK x \in T : TRUE
    BY <1>3
  <1> DEFINE U == T \ {x}
  <1>5. U \in SUBSET T /\ U # T /\ T \in SUBSET S /\ U \in SUBSET S /\ x \in S /\ x \in R
    BY <1>2, <1>4
  <1>6. F[T] = c[x] + F[U] /\ G[T] = d[x] + G[U] /\ F[U] \in Int /\ G[U] \in Int
    BY <1>4, <1>5 DEF Sums
  <1>7. c[x] \in Int /\ d[x] \in Int /\ c[x] <= d[x]
    BY <1>5
  <1> HIDE DEF U
  <1>8. F[U] <= G[U]
    BY <1>2, <1>5
  <1>9. QED
    BY <1>2, <1>6, <1>7, <1>8

(* Two sums agree on every part on which what they add agrees.               *)
LEMMA SumsAgreeOn ==
    ASSUME NEW S, NEW R, IsFiniteSet(R), R \subseteq S, NEW c, NEW d, \A x \in R : c[x] = d[x],
           NEW F, NEW G, Sums(F, S, c), Sums(G, S, d)
    PROVE  F[R] = G[R]
  <1> DEFINE H == [T \in SUBSET R |-> G[T]]
  <1>1. Sums(H, R, d)
    <2>1. H \in [SUBSET R -> Int] /\ H[{}] = 0 /\ \A T \in SUBSET R : H[T] = G[T]
      BY DEF Sums
    <2>2. ASSUME NEW T \in SUBSET R, NEW x \in T PROVE H[T] = d[x] + H[T \ {x}]
      BY <2>1 DEF Sums
    <2>3. QED
      BY <2>1, <2>2 DEF Sums
  <1>2. H[R] = G[R]
    OBVIOUS
  <1> HIDE DEF H
  <1>3. QED
    BY <1>1, <1>2, SumsAgree

(* Sums of naturals are naturals; sums of zeros are zero.                   *)
LEMMA SumIsNatural ==
    ASSUME NEW S, IsFiniteSet(S), NEW c \in [S -> Nat], NEW F, Sums(F, S, c)
    PROVE  F[S] \in Nat
  <1>1. c \in [S -> Int] /\ \A x \in S : c[x] >= 0
    OBVIOUS
  <1>2. F[{}] = 0 /\ F[S] \in Int
    BY DEF Sums
  <1>3. F[{}] <= F[S]
    BY <1>1, SumGrows
  <1>4. QED
    BY <1>2, <1>3

LEMMA ZerosSumToZero ==
    ASSUME NEW S, IsFiniteSet(S), NEW c, \A x \in S : c[x] = 0, NEW F, Sums(F, S, c)
    PROVE  F[S] = 0
  <1> DEFINE G == [T \in SUBSET S |-> 0]
  <1>1. Sums(G, S, c)
    BY DEF Sums
  <1>2. G[S] = 0
    OBVIOUS
  <1> HIDE DEF G
  <1>3. QED
    BY <1>1, <1>2, SumsAgree

(* An interval without its last number, and the sum over it.                *)
LEMMA LastOfInterval ==
    ASSUME NEW n \in Nat, NEW k \in 0..n
    PROVE  /\ k \in 0..k /\ 0..k \in SUBSET (0..n) /\ 0..(k - 1) = (0..k) \ {k}
           /\ 0..(k - 1) \in SUBSET (0..n)
           /\ k = 0 => 0..(k - 1) = {}
  <1>1. k \in Int /\ 0 <= k /\ k <= n /\ k - 1 \in Int
    OBVIOUS
  <1>2. \A x : x \in 0..(k - 1) <=> (x \in Int /\ 0 <= x /\ x <= k - 1)
    OBVIOUS
  <1>3. \A x : x \in 0..k <=> (x \in Int /\ 0 <= x /\ x <= k)
    OBVIOUS
  <1>4. \A x : x \in 0..(k - 1) <=> (x \in 0..k /\ x # k)
    BY <1>1, <1>2, <1>3
  <1>5. \A x : x \in 0..(k - 1) => x \in (0..k) \ {k}
    BY <1>4
  <1>6. \A x : x \in (0..k) \ {k} => x \in 0..(k - 1)
    BY <1>4
  <1>7. 0..(k - 1) = (0..k) \ {k}
    BY <1>5, <1>6
  <1>8. 0..k \in SUBSET (0..n) /\ k \in 0..k
    BY <1>1
  <1>9. k = 0 => 0..(k - 1) = {}
    BY <1>2
  <1>10. QED
    BY <1>7, <1>8, <1>9

LEMMA LastIsAdded ==
    ASSUME NEW n \in Nat, NEW k \in 0..n, NEW c, NEW F, Sums(F, 0..n, c)
    PROVE  F[0..k] = c[k] + F[0..(k - 1)]
  <1> DEFINE N == 0..n
             K == 0..k
             L == 0..(k - 1)
  <1>1. k \in K /\ K \in SUBSET N /\ L = K \ {k} /\ Sums(F, N, c)
    BY LastOfInterval
  <1> HIDE DEF N, K, L
  <1>2. F[K] = c[k] + F[K \ {k}]
    BY <1>1 DEF Sums
  <1>3. QED
    BY <1>1, <1>2 DEF K, L

(* Moving everything on by one, and the last out, adds nothing.             *)
LEMMA SumOfShifted ==
    ASSUME NEW n \in Nat, NEW c \in [0..n -> Nat], NEW d, d[0] = 0, \A i \in 1..n : d[i] = c[i - 1],
           NEW F, Sums(F, 0..n, c), NEW G, Sums(G, 0..n, d)
    PROVE  G[0..n] <= F[0..n]
  <1> DEFINE Wrong == {k \in 0..n : G[0..k] # F[0..(k - 1)]}
  <1>1. Wrong = {}
    <2> SUFFICES ASSUME Wrong # {} PROVE FALSE
      OBVIOUS
    <2>0. Wrong \subseteq Nat /\ Wrong # {}
      OBVIOUS
    <2>1. PICK k \in Wrong : \A m \in Wrong : k <= m
      <3> HIDE DEF Wrong
      <3>1. QED
        BY <2>0, LeastNumber
    <2>2. k \in 0..n /\ k \in Nat /\ G[0..k] # F[0..(k - 1)]
      BY <2>1
    <2>3. G[0..k] = d[k] + G[0..(k - 1)]
      BY <2>2, LastIsAdded
    <2>4. F[{}] = 0 /\ G[{}] = 0
      BY DEF Sums
    <2>5. CASE k = 0
      BY <2>2, <2>3, <2>4, <2>5, LastOfInterval
    <2>6. CASE k # 0
      <3>1. k - 1 \in 0..n /\ k - 1 < k /\ k - 1 \in Nat
        BY <2>2, <2>6
      <3>2. \A m \in 0..n : m \in Wrong \/ G[0..m] = F[0..(m - 1)]
        OBVIOUS
      <3>3. k - 1 \notin Wrong
        BY <2>1, <2>2, <3>1
      <3> HIDE DEF Wrong
      <3>4. G[0..(k - 1)] = F[0..((k - 1) - 1)]
        BY <3>1, <3>2, <3>3
      <3>5. F[0..(k - 1)] = c[k - 1] + F[0..((k - 1) - 1)]
        BY <3>1, LastIsAdded
      <3>6. d[k] = c[k - 1]
        BY <2>2, <2>6
      <3>7. QED
        BY <2>2, <2>3, <3>4, <3>5, <3>6
    <2>7. QED
      BY <2>5, <2>6
  <1>2. G[0..n] = F[0..(n - 1)]
    <2>1. n \in 0..n
      OBVIOUS
    <2>2. QED
      BY <1>1, <2>1
  <1>3. c \in [0..n -> Int] /\ \A x \in 0..n : c[x] >= 0
    OBVIOUS
  <1>4. 0..(n - 1) \in SUBSET (0..n) /\ IsFiniteSet(0..n)
    <2>1. 0 \in Int /\ n \in Int /\ n \in 0..n
      OBVIOUS
    <2>2. QED
      BY <2>1, LastOfInterval, FS_Interval
  <1>5. F[0..(n - 1)] <= F[0..n]
    BY <1>3, <1>4, SumGrows
  <1>6. QED
    BY <1>2, <1>5
=============================================================================
