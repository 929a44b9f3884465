---------------------------- MODULE LedgerProofs ----------------------------
(***************************************************************************)
(* Lemmas about the fill ledger (FillLedger), for every table of executions *)
(* and lots: what is summed over them, what a sale takes from the lots of a *)
(* lifecycle, what a booking leaves of the balance between lots and         *)
(* executions, and which of the contracts bought the lots still hold.       *)
(***************************************************************************)
EXTENDS Normalization, RecursionLemmas

-----------------------------------------------------------------------------
(* The sum of a function *)

SumBy(F, f) ==
    F = [T \in SUBSET (DOMAIN f) |-> IF T = {} THEN 0 ELSE LET x == CHOOSE a \in T : TRUE IN f[x] + F[T \ {x}]]

LEMMA SumOfFunction ==
    ASSUME NEW S, IsFiniteSet(S), NEW f \in [S -> Int]
    PROVE  \E F : Sums(F, S, f) /\ SumFunction(f) = F[S]
  <1> DEFINE ch == [T \in SUBSET S |-> CHOOSE a \in T : TRUE]
  <1>1. Chooses(ch, S) /\ \A T \in SUBSET S : ch[T] = CHOOSE a \in T : TRUE
    BY DEF Chooses
  <1>2. DOMAIN f = S
    OBVIOUS
  <1> HIDE DEF ch
  <1>3. \A F : SumsBy(F, S, ch, f) <=> SumBy(F, f)
    BY <1>1, <1>2 DEF SumsBy, SumBy
  <1>4. PICK G : SumBy(G, f)
    BY <1>1, <1>3, SumExists
  <1>5. \E F : SumBy(F, f) /\ SumFunction(f) = F[S]
    BY <1>2, <1>4 DEF SumFunction, SumFunctionOnSet, FoldFunctionOnSet, MapThenFoldSet, SumBy
  <1>6. QED
    BY <1>1, <1>3, <1>5, SumIsSum

LEMMA SumWithout ==
    ASSUME NEW S, IsFiniteSet(S), NEW f \in [S -> Int], NEW x \in S
    PROVE  /\ SumFunction(f) = f[x] + SumFunction([y \in S \ {x} |-> f[y]])
           /\ SumFunction([y \in S \ {x} |-> f[y]]) \in Int
  <1> DEFINE R == S \ {x}
             g == [y \in R |-> f[y]]
  <1>1. IsFiniteSet(R) /\ R \subseteq S /\ g \in [R -> Int] /\ \A y \in R : f[y] = g[y]
    BY FS_Subset
  <1>2. PICK F : Sums(F, S, f) /\ SumFunction(f) = F[S]
    BY SumOfFunction
  <1>3. F[S] = f[x] + F[R]
    BY <1>2 DEF Sums
  <1> HIDE DEF R, g
  <1>4. PICK G : Sums(G, R, g) /\ SumFunction(g) = G[R]
    BY <1>1, SumOfFunction
  <1>5. F[R] = G[R]
    BY <1>1, <1>2, <1>4, SumsAgree
  <1>6. F[R] \in Int
    BY <1>1, <1>2 DEF Sums
  <1>7. QED
    BY <1>2, <1>3, <1>4, <1>5, <1>6 DEF g, R

LEMMA SumIsInteger ==
    ASSUME NEW S, IsFiniteSet(S), NEW f \in [S -> Int]
    PROVE  /\ SumFunction(f) \in Int
           /\ S = {} => SumFunction(f) = 0
           /\ (\A x \in S : f[x] >= 0) => SumFunction(f) >= 0
  <1>1. PICK F : Sums(F, S, f) /\ SumFunction(f) = F[S]
    BY SumOfFunction
  <1>2. F[S] \in Int /\ F[{}] = 0
    BY <1>1 DEF Sums
  <1>3. ASSUME \A x \in S : f[x] >= 0 PROVE F[{}] <= F[S]
    BY <1>1, <1>3, SumGrows
  <1>4. QED
    BY <1>1, <1>2, <1>3

LEMMA SumOfPart ==
    ASSUME NEW S, IsFiniteSet(S), NEW f \in [S -> Int], NEW A, A \subseteq S
    PROVE  /\ (\A x \in S \ A : f[x] = 0) => SumFunction(f) = SumFunction([y \in A |-> f[y]])
           /\ (\A x \in S \ A : f[x] >= 0) => SumFunction([y \in A |-> f[y]]) <= SumFunction(f)
  <1> DEFINE g == [y \in A |-> f[y]]
  <1>1. IsFiniteSet(A) /\ g \in [A -> Int] /\ \A y \in A : f[y] = g[y]
    BY FS_Subset
  <1>2. PICK F : Sums(F, S, f) /\ SumFunction(f) = F[S]
    BY SumOfFunction
  <1> HIDE DEF g
  <1>3. PICK G : Sums(G, A, g) /\ SumFunction(g) = G[A]
    BY <1>1, SumOfFunction
  <1>4. F[A] = G[A]
    BY <1>1, <1>2, <1>3, SumsAgree
  <1>5. ASSUME \A x \in S \ A : f[x] >= 0 PROVE F[A] <= F[S]
    BY <1>2, <1>5, SumGrows
  <1>6. ASSUME \A x \in S \ A : f[x] = 0 PROVE F[A] = F[S]
    <2> DEFINE H == [T \in SUBSET S |-> F[T \cap A]]
    <2>1. H \in [SUBSET S -> Int] /\ H[{}] = 0
      <3>1. {} \cap A = {}
        OBVIOUS
      <3>2. QED
        BY <1>2, <3>1 DEF Sums
    <2>2. ASSUME NEW T \in SUBSET S, NEW x \in T PROVE H[T] = f[x] + H[T \ {x}]
      <3> DEFINE U == T \cap A
                 V == (T \ {x}) \cap A
      <3>1. H[T] = F[U] /\ H[T \ {x}] = F[V] /\ F[V] \in Int /\ U \in SUBSET S
        BY <1>2 DEF Sums
      <3> HIDE DEF H
      <3>2. CASE x \in A
        <4>1. V = U \ {x} /\ x \in U
          BY <3>2
        <4> HIDE DEF U, V
        <4>2. F[U] = f[x] + F[U \ {x}]
          BY <1>2, <3>1, <4>1 DEF Sums
        <4>3. QED
          BY <3>1, <4>1, <4>2
      <3>3. CASE x \notin A
        <4>1. V = U /\ f[x] = 0
          BY <1>6, <3>3
        <4> HIDE DEF U, V
        <4>2. QED
          BY <3>1, <4>1
      <3>4. QED
        BY <3>2, <3>3
    <2>3. H[S] = F[A]
      <3>1. S \cap A = A
        OBVIOUS
      <3>2. QED
        BY <3>1
    <2> HIDE DEF H
    <2>4. Sums(H, S, f)
      BY <2>1, <2>2 DEF Sums
    <2>5. F[S] = H[S]
      BY <1>2, <2>4, SumsAgree
    <2>6. QED
      BY <2>3, <2>5
  <1>7. QED
    BY <1>2, <1>3, <1>4, <1>5, <1>6 DEF g

(* One term changed; one term more.                                          *)
LEMMA SumChanged ==
    ASSUME NEW S, IsFiniteSet(S), NEW f \in [S -> Int], NEW g \in [S -> Int], NEW x \in S,
           \A y \in S \ {x} : g[y] = f[y]
    PROVE  SumFunction(g) = SumFunction(f) - f[x] + g[x]
  <1>1. [y \in S \ {x} |-> f[y]] = [y \in S \ {x} |-> g[y]]
    OBVIOUS
  <1>2. /\ SumFunction(f) = f[x] + SumFunction([y \in S \ {x} |-> f[y]])
        /\ SumFunction([y \in S \ {x} |-> f[y]]) \in Int
    BY SumWithout
  <1>3. /\ SumFunction(g) = g[x] + SumFunction([y \in S \ {x} |-> g[y]])
        /\ SumFunction([y \in S \ {x} |-> g[y]]) \in Int
    BY SumWithout
  <1>4. f[x] \in Int /\ g[x] \in Int
    OBVIOUS
  <1>5. QED
    BY <1>1, <1>2, <1>3, <1>4

LEMMA SumExtended ==
    ASSUME NEW S, IsFiniteSet(S), NEW f \in [S -> Int], NEW x, x \notin S, NEW g \in [S \cup {x} -> Int],
           \A y \in S : g[y] = f[y]
    PROVE  SumFunction(g) = SumFunction(f) + g[x]
  <1> DEFINE U == S \cup {x}
  <1>1. IsFiniteSet(U) /\ x \in U /\ U \ {x} = S /\ g \in [U -> Int]
    BY FS_AddElement
  <1>2. [y \in S |-> g[y]] = f
    OBVIOUS
  <1> HIDE DEF U
  <1>3. SumFunction(g) = g[x] + SumFunction([y \in U \ {x} |-> g[y]]) /\ SumFunction([y \in U \ {x} |-> g[y]]) \in Int
    BY <1>1, SumWithout
  <1>4. g[x] \in Int
    BY <1>1
  <1>5. QED
    BY <1>1, <1>2, <1>3, <1>4

(* What holds of a fold holds of it at every step.                           *)
KeptBy(A, S, ch, op) ==
    \A T \in SUBSET S : \A a : T # {} /\ <<T \ {ch[T]}, a>> \in A => <<T, op[<<ch[T], a>>]>> \in A

LEMMA FoldKeeps ==
    ASSUME NEW S, IsFiniteSet(S), NEW ch, NEW op, NEW base, Chooses(ch, S),
           NEW F, FoldsOver(F, S, ch, op, base),
           NEW A, <<{}, base>> \in A, KeptBy(A, S, ch, op)
    PROVE  \A T \in SUBSET S : <<T, F[T]>> \in A
  <1> DEFINE C == {T \in SUBSET S : <<T, F[T]>> \notin A}
  <1> SUFFICES ASSUME C # {} PROVE FALSE
    OBVIOUS
  <1>1. PICK T \in C : \A U \in C : U \subseteq T => U = T
    <2>1. C \subseteq SUBSET S
      OBVIOUS
    <2> HIDE DEF C
    <2>2. QED
      BY <2>1, MinimalSet
  <1>2. F[{}] = base /\ \A U \in SUBSET S : U # {} => F[U] = op[<<ch[U], F[U \ {ch[U]}]>>]
    <2>1. \A U \in SUBSET S : F[U] = IF U = {} THEN base ELSE op[<<ch[U], F[U \ {ch[U]}]>>]
      BY FoldUnrolls DEF Computes, Unrolls
    <2>2. {} \in SUBSET S
      OBVIOUS
    <2>3. QED
      BY <2>1, <2>2
  <1>3. T # {} /\ T \in SUBSET S /\ <<T, F[T]>> \notin A
    BY <1>1, <1>2
  <1>4. ch[T] \in T
    BY <1>3 DEF Chooses
  <1> DEFINE U == T \ {ch[T]}
  <1>5. U \in SUBSET S /\ U \subseteq T /\ U # T
    BY <1>3, <1>4
  <1>6. <<U, F[U]>> \in A
    BY <1>1, <1>5
  <1>7. F[T] = op[<<ch[T], F[U]>>]
    BY <1>2, <1>3
  <1>8. <<T \ {ch[T]}, F[U]>> \in A
    BY <1>6
  <1> HIDE DEF U, C
  <1>9. <<T, op[<<ch[T], F[U]>>]>> \in A
    BY <1>3, <1>8 DEF KeptBy
  <1>10. QED
    BY <1>3, <1>7, <1>9

-----------------------------------------------------------------------------
(* The rows *)

Fill ==
    [id : Nat, pos : Nat, contract : DOMAIN Expiry, side : Sides, qty : Nat, premium : Int, fees : {0},
     at : Int, day : Int, pnl : Int]
Lot    == [pos : Nat, qty : Nat, basis : Nat]
FeeRow == [id : Nat, day : Int, amount : Int]
Tables == [fills : Seq(Fill), lots : Seq(Lot), fees : SUBSET FeeRow, latched : SUBSET Int]

Taken == [left : Nat, basis : Nat, lots : Seq(Lot)]

LEMMA GreatestExists ==
    ASSUME NEW T, IsFiniteSet(T), T # {}, T \subseteq Int
    PROVE  /\ Max(T) \in T /\ \A x \in T : x <= Max(T)
           /\ Min(T) \in T /\ \A x \in T : Min(T) <= x
  <1> DEFINE up == [x \in T |-> -x]
             id == [x \in T |-> x]
  <1>1. PICK m \in T : \A x \in T : up[m] <= up[x]
    <2>1. up \in [T -> Int]
      OBVIOUS
    <2> HIDE DEF up
    <2>2. QED
      BY <2>1, LeastBy
  <1>2. PICK l \in T : \A x \in T : id[l] <= id[x]
    <2>1. id \in [T -> Int]
      OBVIOUS
    <2> HIDE DEF id
    <2>2. QED
      BY <2>1, LeastBy
  <1>3. m \in T /\ \A x \in T : x <= m
    BY <1>1
  <1>4. l \in T /\ \A x \in T : l <= x
    BY <1>2
  <1>5. QED
    BY <1>3, <1>4 DEF Max, Min

(* Consume, step by step: one lot after the other, from the oldest.          *)
TakesFrom(F, S, base) ==
    F = [T \in SUBSET S |-> IF T = {} THEN base ELSE TakeFrom(Max(T), F[T \ {Max(T)}])]

LEMMA TakesExist ==
    ASSUME NEW S, IsFiniteSet(S), NEW base, NEW ch, Chooses(ch, S), \A T \in SUBSET S : ch[T] = Max(T),
           NEW A, \A p \in A : p[2] \in Taken, <<{}, base>> \in A,
           \A T \in SUBSET S : \A a :
               T # {} /\ <<T \ {Max(T)}, a>> \in A => <<T, TakeFrom(Max(T), a)>> \in A
    PROVE  \E F : TakesFrom(F, S, base)
  <1> DEFINE op == [p \in S \X Taken |-> TakeFrom(p[1], p[2])]
  <1>1. \A x \in S : \A a \in Taken : op[<<x, a>>] = TakeFrom(x, a)
    OBVIOUS
  <1>2. ASSUME NEW T \in SUBSET S, NEW a, T # {}, <<T \ {ch[T]}, a>> \in A
        PROVE  op[<<ch[T], a>>] = TakeFrom(Max(T), a) /\ <<T, op[<<ch[T], a>>]>> \in A
    <2>1. a \in Taken
      <3>1. <<T \ {ch[T]}, a>>[2] \in Taken
        BY <1>2
      <3>2. QED
        BY <3>1
    <2>2. ch[T] \in S /\ ch[T] = Max(T)
      BY <1>2 DEF Chooses
    <2>3. op[<<ch[T], a>>] = TakeFrom(Max(T), a)
      BY <1>1, <2>1, <2>2
    <2>4. <<T, TakeFrom(Max(T), a)>> \in A
      BY <1>2, <2>2
    <2>5. QED
      BY <2>3, <2>4
  <1> HIDE DEF op
  <1>3. PICK F : FoldsOver(F, S, ch, op, base)
    BY FoldExists
  <1>4. KeptBy(A, S, ch, op)
    BY <1>2 DEF KeptBy
  <1>5. \A T \in SUBSET S : <<T, F[T]>> \in A
    BY <1>3, <1>4, FoldKeeps
  <1>6. \A T \in SUBSET S : T # {} => op[<<ch[T], F[T \ {ch[T]}]>>] = TakeFrom(Max(T), F[T \ {Max(T)}])
    <2> SUFFICES ASSUME NEW T \in SUBSET S, T # {}
                 PROVE  op[<<ch[T], F[T \ {ch[T]}]>>] = TakeFrom(Max(T), F[T \ {Max(T)}])
      OBVIOUS
    <2>1. T \ {ch[T]} \in SUBSET S /\ ch[T] = Max(T)
      OBVIOUS
    <2>2. <<T \ {ch[T]}, F[T \ {ch[T]}]>> \in A
      BY <1>5, <2>1
    <2>3. QED
      BY <1>2, <2>1, <2>2
  <1>7. F = [T \in SUBSET S |-> IF T = {} THEN base ELSE op[<<ch[T], F[T \ {ch[T]}]>>]]
    BY <1>3 DEF FoldsOver
  <1>8. [T \in SUBSET S |-> IF T = {} THEN base ELSE op[<<ch[T], F[T \ {ch[T]}]>>]]
          = [T \in SUBSET S |-> IF T = {} THEN base ELSE TakeFrom(Max(T), F[T \ {Max(T)}])]
    BY <1>6
  <1>9. QED
    BY <1>7, <1>8 DEF TakesFrom

LEMMA TakesKeep ==
    ASSUME NEW S, IsFiniteSet(S), NEW base, NEW ch, Chooses(ch, S), \A T \in SUBSET S : ch[T] = Max(T),
           NEW A, <<{}, base>> \in A,
           \A T \in SUBSET S : \A a :
               T # {} /\ <<T \ {Max(T)}, a>> \in A => <<T, TakeFrom(Max(T), a)>> \in A,
           NEW G, TakesFrom(G, S, base)
    PROVE  <<S, G[S]>> \in A
  <1> DEFINE C == {T \in SUBSET S : <<T, G[T]>> \notin A}
  <1>1. C = {}
    <2> SUFFICES ASSUME C # {} PROVE FALSE
      OBVIOUS
    <2>0. C \subseteq SUBSET S
      OBVIOUS
    <2>1. PICK T \in C : \A U \in C : U \subseteq T => U = T
      <3> HIDE DEF C
      <3>1. QED
        BY <2>0, MinimalSet
    <2>2. \A U \in SUBSET S : G[U] = IF U = {} THEN base ELSE TakeFrom(Max(U), G[U \ {Max(U)}])
      BY DEF TakesFrom
    <2>3. T # {} /\ T \in SUBSET S /\ <<T, G[T]>> \notin A
      BY <2>1, <2>2
    <2> DEFINE U == T \ {Max(T)}
    <2>4. U \in SUBSET S /\ U \subseteq T /\ U # T
      BY <2>3 DEF Chooses
    <2>5. <<U, G[U]>> \in A
      BY <2>1, <2>4
    <2>6. G[T] = TakeFrom(Max(T), G[U])
      BY <2>2, <2>3
    <2> HIDE DEF C
    <2>7. <<T, TakeFrom(Max(T), G[U])>> \in A
      BY <2>3, <2>5
    <2>8. QED
      BY <2>3, <2>6, <2>7
  <1>2. S \in SUBSET S
    OBVIOUS
  <1>3. QED
    BY <1>1, <1>2

LEMMA LotsAreFinite ==
    ASSUME NEW b \in Tables, NEW L, L \subseteq DOMAIN b.lots
    PROVE  IsFiniteSet(L) /\ L \subseteq Nat /\ DOMAIN b.lots = 1..Len(b.lots) /\ Len(b.lots) \in Nat
  <1>1. b.lots \in Seq(Lot)
    BY DEF Tables
  <1>2. DOMAIN b.lots = 1..Len(b.lots) /\ Len(b.lots) \in Nat
    BY <1>1
  <1>3. IsFiniteSet(1..Len(b.lots))
    <2>1. Len(b.lots) \in Int /\ 1 \in Int
      BY <1>2
    <2>2. QED
      BY <2>1, FS_Interval
  <1>4. IsFiniteSet(L)
    BY <1>2, <1>3, FS_Subset
  <1>5. QED
    BY <1>2, <1>4

LEMMA ConsumeKeeps ==
    ASSUME NEW b \in Tables, NEW pos, NEW qty,
           NEW A, \A p \in A : p[2] \in Taken,
           <<{}, [left |-> qty, basis |-> 0, lots |-> b.lots]>> \in A,
           \A T \in SUBSET LotsOf(b, pos) : \A a :
               T # {} /\ <<T \ {Max(T)}, a>> \in A => <<T, TakeFrom(Max(T), a)>> \in A
    PROVE  <<LotsOf(b, pos), Consume(b, pos, qty)>> \in A
  <1> DEFINE S == LotsOf(b, pos)
             base == [left |-> qty, basis |-> 0, lots |-> b.lots]
             ch == [T \in SUBSET S |-> Max(T)]
  <1>1. S \subseteq DOMAIN b.lots
    BY DEF LotsOf, OpenLots
  <1>2. IsFiniteSet(S) /\ S \subseteq Int
    BY <1>1, LotsAreFinite
  <1>3. \A T \in SUBSET S : ch[T] = Max(T)
    OBVIOUS
  <1>4. Chooses(ch, S)
    <2> SUFFICES ASSUME NEW T \in SUBSET S, T # {} PROVE ch[T] \in T
      BY DEF Chooses
    <2>1. IsFiniteSet(T) /\ T \subseteq Int
      BY <1>2, FS_Subset
    <2>2. QED
      BY <1>3, <2>1, GreatestExists
  <1>5. \A T \in SUBSET S : \A a : T # {} /\ <<T \ {Max(T)}, a>> \in A => <<T, TakeFrom(Max(T), a)>> \in A
    OBVIOUS
  <1>6. <<{}, base>> \in A
    OBVIOUS
  <1> HIDE DEF S, ch, base
  <1>7. PICK F : TakesFrom(F, S, base)
    BY <1>2, <1>3, <1>4, <1>5, <1>6, TakesExist
  <1>8. PICK G : TakesFrom(G, S, base) /\ Consume(b, pos, qty) = G[S]
    BY <1>7 DEF Consume, MapThenFoldSet, TakesFrom, S, base
  <1>9. <<S, G[S]>> \in A
    BY <1>2, <1>3, <1>4, <1>5, <1>6, <1>8, TakesKeep
  <1>10. QED
    BY <1>8, <1>9 DEF S

-----------------------------------------------------------------------------
(* What a sale takes: rounding the basis of a part upward takes no more than  *)
(* there is.                                                                *)
LEMMA Quotient ==
    ASSUME NEW n \in Int, NEW q \in Nat \ {0}
    PROVE  n \div q \in Int /\ (n \div q) * q <= n /\ n < (n \div q) * q + q
  OBVIOUS

LEMMA TimesGrows ==
    ASSUME NEW a \in Int, NEW b \in Int, NEW c \in Nat, a <= b
    PROVE  a * c <= b * c /\ c * a <= c * b /\ a * c \in Int /\ b * c \in Int
  OBVIOUS

LEMMA Allocation ==
    ASSUME NEW b \in Nat, NEW q \in Nat \ {0}, NEW t \in Nat, t <= q
    PROVE  (b * t + q - 1) \div q \in Nat /\ (b * t + q - 1) \div q <= b
  <1> DEFINE n == b * t + q - 1
             d == n \div q
  <1>1. b * t \in Int /\ b * q \in Int /\ b * t <= b * q /\ 0 <= b * t
    OBVIOUS
  <1>2. n \in Int /\ 0 <= n /\ n <= b * q + q - 1
    BY <1>1
  <1> HIDE DEF n
  <1>3. d \in Int /\ d * q <= n /\ n < d * q + q
    BY <1>2, Quotient
  <1> HIDE DEF d
  <1>4. d >= 0
    <2> SUFFICES ASSUME d <= -1 PROVE FALSE
      BY <1>3
    <2>1. d * q <= (-1) * q
      BY <1>3, TimesGrows
    <2>2. (-1) * q = -q /\ d * q \in Int
      BY <1>3
    <2>3. QED
      BY <1>2, <1>3, <2>1, <2>2
  <1>5. d <= b
    <2> SUFFICES ASSUME b + 1 <= d PROVE FALSE
      BY <1>3
    <2>1. (b + 1) * q <= d * q /\ d * q \in Int
      BY <1>3, TimesGrows
    <2>2. (b + 1) * q = b * q + q
      OBVIOUS
    <2>3. QED
      BY <1>1, <1>2, <1>3, <2>1, <2>2
  <1>6. QED
    BY <1>3, <1>4, <1>5 DEF d, n

BasisIn(lots)  == SumFunction([i \in DOMAIN lots |-> lots[i].basis])
QtyIn(lots, J) == SumFunction([i \in J |-> lots[i].qty])

(* After the lots of T: what was taken is gone from them, and from none else, *)
(* and nothing is left to take unless they are empty.                        *)
TakenRight(lots, qty, T, a) ==
    /\ DOMAIN a.lots = DOMAIN lots
    /\ \A i \in DOMAIN lots : a.lots[i].pos = lots[i].pos /\ (i \notin T => a.lots[i] = lots[i])
    /\ a.left > 0 => \A i \in T : a.lots[i].qty = 0
    /\ BasisIn(a.lots) + a.basis = BasisIn(lots)
    /\ \A J \in SUBSET (DOMAIN lots) : T \subseteq J => QtyIn(a.lots, J) - a.left = QtyIn(lots, J) - qty

LEMMA LotsOfSeq ==
    ASSUME NEW lots \in Seq(Lot)
    PROVE  /\ DOMAIN lots = 1..Len(lots) /\ Len(lots) \in Nat
           /\ \A i \in DOMAIN lots : lots[i] \in Lot /\ lots[i].qty \in Nat /\ lots[i].basis \in Nat /\ lots[i].pos \in Nat
           /\ IsFiniteSet(DOMAIN lots)
           /\ \A J \in SUBSET (DOMAIN lots) : IsFiniteSet(J)
  <1>1. DOMAIN lots = 1..Len(lots) /\ Len(lots) \in Nat /\ \A i \in DOMAIN lots : lots[i] \in Lot
    OBVIOUS
  <1>2. IsFiniteSet(1..Len(lots))
    <2>1. Len(lots) \in Int /\ 1 \in Int
      BY <1>1
    <2>2. QED
      BY <2>1, FS_Interval
  <1>3. \A i \in DOMAIN lots : lots[i].qty \in Nat /\ lots[i].basis \in Nat /\ lots[i].pos \in Nat
    BY <1>1 DEF Lot
  <1>4. \A J \in SUBSET (DOMAIN lots) : IsFiniteSet(J)
    BY <1>1, <1>2, FS_Subset
  <1>5. QED
    BY <1>1, <1>2, <1>3, <1>4

LEMMA LotSums ==
    ASSUME NEW lots \in Seq(Lot)
    PROVE  /\ BasisIn(lots) \in Int
           /\ \A J \in SUBSET (DOMAIN lots) : QtyIn(lots, J) \in Nat
  <1>1. IsFiniteSet(DOMAIN lots) /\ \A i \in DOMAIN lots : lots[i].qty \in Nat /\ lots[i].basis \in Nat
    BY LotsOfSeq
  <1>2. [i \in DOMAIN lots |-> lots[i].basis] \in [DOMAIN lots -> Int]
    BY <1>1
  <1>3. BasisIn(lots) \in Int
    BY <1>1, <1>2, SumIsInteger DEF BasisIn
  <1>4. ASSUME NEW J \in SUBSET (DOMAIN lots) PROVE QtyIn(lots, J) \in Nat
    <2> DEFINE f == [i \in J |-> lots[i].qty]
    <2>1. f \in [J -> Int] /\ (\A i \in J : f[i] >= 0) /\ IsFiniteSet(J)
      BY <1>1, LotsOfSeq
    <2> HIDE DEF f
    <2>2. SumFunction(f) \in Int /\ SumFunction(f) >= 0
      BY <2>1, SumIsInteger
    <2>3. QED
      BY <2>2 DEF f, QtyIn
  <1>5. QED
    BY <1>3, <1>4

(* One lot replaced.                                                        *)
LEMMA LotReplaced ==
    ASSUME NEW lots \in Seq(Lot), NEW x \in DOMAIN lots, NEW l \in Lot
    PROVE  LET new == [lots EXCEPT ![x] = l]
           IN  /\ new \in Seq(Lot) /\ DOMAIN new = DOMAIN lots /\ new[x] = l
               /\ \A i \in DOMAIN lots : i # x => new[i] = lots[i]
               /\ BasisIn(new) = BasisIn(lots) - lots[x].basis + l.basis
               /\ \A J \in SUBSET (DOMAIN lots) :
                      x \in J => QtyIn(new, J) = QtyIn(lots, J) - lots[x].qty + l.qty
  <1> DEFINE new == [lots EXCEPT ![x] = l]
  <1>1. new \in Seq(Lot) /\ DOMAIN new = DOMAIN lots /\ new[x] = l /\ \A i \in DOMAIN lots : i # x => new[i] = lots[i]
    OBVIOUS
  <1>2. \A i \in DOMAIN lots : new[i].qty \in Int /\ new[i].basis \in Int /\ lots[i].qty \in Int /\ lots[i].basis \in Int
    <2>1. DOMAIN new = DOMAIN lots
      BY <1>1
    <2>2. \A i \in DOMAIN new : new[i].qty \in Nat /\ new[i].basis \in Nat
      <3>1. new \in Seq(Lot)
        BY <1>1
      <3> HIDE DEF new
      <3>2. QED
        BY <3>1, LotsOfSeq
    <2>3. \A i \in DOMAIN lots : lots[i].qty \in Nat /\ lots[i].basis \in Nat
      BY LotsOfSeq
    <2> HIDE DEF new
    <2>4. QED
      BY <2>1, <2>2, <2>3
  <1>3. IsFiniteSet(DOMAIN lots) /\ \A J \in SUBSET (DOMAIN lots) : IsFiniteSet(J)
    BY LotsOfSeq
  <1> HIDE DEF new
  <1>4. BasisIn(new) = BasisIn(lots) - lots[x].basis + l.basis
    <2> DEFINE f == [i \in DOMAIN lots |-> lots[i].basis]
               g == [i \in DOMAIN lots |-> new[i].basis]
    <2>1. f \in [DOMAIN lots -> Int] /\ g \in [DOMAIN lots -> Int] /\ \A i \in DOMAIN lots \ {x} : g[i] = f[i]
      BY <1>1, <1>2
    <2>2. f[x] = lots[x].basis /\ g[x] = l.basis /\ BasisIn(lots) = SumFunction(f) /\ BasisIn(new) = SumFunction(g)
      BY <1>1 DEF BasisIn
    <2> HIDE DEF f, g
    <2>3. SumFunction(g) = SumFunction(f) - f[x] + g[x]
      BY <1>3, <2>1, SumChanged
    <2>4. QED
      BY <2>2, <2>3
  <1>5. ASSUME NEW J \in SUBSET (DOMAIN lots), x \in J
        PROVE  QtyIn(new, J) = QtyIn(lots, J) - lots[x].qty + l.qty
    <2> DEFINE f == [i \in J |-> lots[i].qty]
               g == [i \in J |-> new[i].qty]
    <2>1. f \in [J -> Int] /\ g \in [J -> Int] /\ \A i \in J \ {x} : g[i] = f[i]
      BY <1>1, <1>2
    <2>2. f[x] = lots[x].qty /\ g[x] = l.qty /\ QtyIn(lots, J) = SumFunction(f) /\ QtyIn(new, J) = SumFunction(g)
      BY <1>1, <1>5 DEF QtyIn
    <2> HIDE DEF f, g
    <2>3. SumFunction(g) = SumFunction(f) - f[x] + g[x]
      BY <1>3, <1>5, <2>1, SumChanged
    <2>4. QED
      BY <2>2, <2>3
  <1>6. QED
    BY <1>1, <1>4, <1>5 DEF new

LEMMA OneTake ==
    ASSUME NEW lots \in Seq(Lot), NEW qty \in Nat, NEW U, U \subseteq DOMAIN lots,
           NEW x \in DOMAIN lots, x \notin U, lots[x].qty > 0,
           NEW a \in Taken, TakenRight(lots, qty, U, a)
    PROVE  TakeFrom(x, a) \in Taken /\ TakenRight(lots, qty, U \cup {x}, TakeFrom(x, a))
  <1> DEFINE lot == a.lots[x]
             take == IF a.left < lot.qty THEN a.left ELSE lot.qty
             allocated == (lot.basis * take + lot.qty - 1) \div lot.qty
             l == [pos |-> lot.pos, qty |-> lot.qty - take, basis |-> lot.basis - allocated]
             new == [a.lots EXCEPT ![x] = l]
  <1>1. /\ a.left \in Nat /\ a.basis \in Nat /\ a.lots \in Seq(Lot)
        /\ DOMAIN a.lots = DOMAIN lots /\ lot = lots[x]
        /\ lot.pos \in Nat /\ lot.qty \in Nat \ {0} /\ lot.basis \in Nat
    BY LotsOfSeq DEF Taken, TakenRight
  <1>2. take \in Nat /\ take <= lot.qty /\ take <= a.left /\ (a.left > take => take = lot.qty)
    BY <1>1
  <1>3. allocated \in Nat /\ allocated <= lot.basis
    <2> HIDE DEF lot, take
    <2>1. QED
      BY <1>1, <1>2, Allocation
  <1> HIDE DEF lot, take, allocated
  <1>4. l \in Lot /\ l.pos = lot.pos /\ l.qty = lot.qty - take /\ l.basis = lot.basis - allocated
    <2>1. lot.qty - take \in Nat /\ lot.basis - allocated \in Nat /\ lot.pos \in Nat
      BY <1>1, <1>2, <1>3
    <2>2. QED
      BY <2>1 DEF Lot
  <1>5. TakeFrom(x, a) = [left |-> a.left - take, basis |-> a.basis + allocated, lots |-> new]
    BY DEF TakeFrom, lot, take, allocated
  <1> HIDE DEF l
  <1>6. /\ new \in Seq(Lot) /\ DOMAIN new = DOMAIN lots /\ new[x] = l
        /\ \A i \in DOMAIN lots : i # x => new[i] = a.lots[i]
        /\ BasisIn(new) = BasisIn(a.lots) - lot.basis + l.basis
        /\ \A J \in SUBSET (DOMAIN lots) : x \in J => QtyIn(new, J) = QtyIn(a.lots, J) - lot.qty + l.qty
    <2>1. /\ new \in Seq(Lot) /\ DOMAIN new = DOMAIN a.lots /\ new[x] = l
          /\ \A i \in DOMAIN a.lots : i # x => new[i] = a.lots[i]
          /\ BasisIn(new) = BasisIn(a.lots) - a.lots[x].basis + l.basis
          /\ \A J \in SUBSET (DOMAIN a.lots) :
                x \in J => QtyIn(new, J) = QtyIn(a.lots, J) - a.lots[x].qty + l.qty
      <3>1. a.lots \in Seq(Lot) /\ x \in DOMAIN a.lots /\ l \in Lot
        BY <1>1, <1>4
      <3>2. QED
        BY <3>1, LotReplaced
    <2>2. DOMAIN a.lots = DOMAIN lots
      BY <1>1
    <2> HIDE DEF new
    <2>3. QED
      BY <2>1, <2>2 DEF lot
  <1> HIDE DEF new
  <1> DEFINE b == [left |-> a.left - take, basis |-> a.basis + allocated, lots |-> new]
  <1>7. b.left = a.left - take /\ b.basis = a.basis + allocated /\ b.lots = new
    OBVIOUS
  <1>8. b \in Taken
    BY <1>1, <1>2, <1>3, <1>6 DEF Taken
  <1> HIDE DEF b
  <1>9. TakenRight(lots, qty, U \cup {x}, b)
    <2>1. \A i \in DOMAIN lots :
             b.lots[i].pos = lots[i].pos /\ (i \notin U \cup {x} => b.lots[i] = lots[i])
      BY <1>1, <1>4, <1>6, <1>7 DEF TakenRight
    <2>2. ASSUME b.left > 0, NEW i \in U \cup {x} PROVE b.lots[i].qty = 0
      <3>1. a.left > 0 /\ take = lot.qty
        BY <1>1, <1>2, <1>7, <2>2
      <3>2. CASE i = x
        BY <1>1, <1>4, <1>6, <1>7, <3>1, <3>2
      <3>3. CASE i # x
        <4>1. i \in U /\ a.lots[i].qty = 0
          BY <2>2, <3>1, <3>3 DEF TakenRight
        <4>2. i \in DOMAIN lots /\ b.lots[i] = a.lots[i]
          BY <1>6, <1>7, <3>3, <4>1
        <4>3. QED
          BY <4>1, <4>2
      <3>4. QED
        BY <3>2, <3>3
    <2>3. BasisIn(b.lots) + b.basis = BasisIn(lots)
      <3>1. BasisIn(a.lots) + a.basis = BasisIn(lots) /\ BasisIn(a.lots) \in Int
        BY <1>1, LotSums DEF TakenRight
      <3>2. QED
        BY <1>1, <1>3, <1>4, <1>6, <1>7, <3>1
    <2>4. ASSUME NEW J \in SUBSET (DOMAIN lots), U \cup {x} \subseteq J
          PROVE  QtyIn(b.lots, J) - b.left = QtyIn(lots, J) - qty
      <3>1. x \in J /\ U \subseteq J
        BY <2>4
      <3>2. QtyIn(a.lots, J) - a.left = QtyIn(lots, J) - qty
        BY <3>1 DEF TakenRight
      <3>3. QtyIn(a.lots, J) \in Int /\ QtyIn(lots, J) \in Int
        BY <1>1, LotSums
      <3>4. QtyIn(new, J) = QtyIn(a.lots, J) - lot.qty + l.qty
        BY <1>6, <3>1
      <3>5. QED
        BY <1>1, <1>2, <1>4, <1>7, <3>2, <3>3, <3>4
    <2>5. QED
      BY <1>6, <1>7, <2>1, <2>2, <2>3, <2>4 DEF TakenRight
  <1>10. QED
    BY <1>5, <1>8, <1>9 DEF b

-----------------------------------------------------------------------------
(* What Consume takes *)

LEMMA QtyIsZero ==
    ASSUME NEW lots \in Seq(Lot), NEW J \in SUBSET (DOMAIN lots), \A i \in J : lots[i].qty = 0
    PROVE  QtyIn(lots, J) = 0
  <1> DEFINE f == [i \in J |-> lots[i].qty]
  <1>1. IsFiniteSet(J) /\ f \in [J -> Int] /\ (\A i \in J \ {} : f[i] = 0) /\ IsFiniteSet({})
    BY LotsOfSeq, FS_EmptySet
  <1>2. SumFunction([y \in {} |-> f[y]]) = 0
    <2> DEFINE g == [y \in {} |-> f[y]]
    <2>1. g \in [{} -> Int]
      OBVIOUS
    <2> HIDE DEF g
    <2>2. SumFunction(g) = 0
      BY <1>1, <2>1, SumIsInteger
    <2>3. QED
      BY <2>2 DEF g
  <1> HIDE DEF f
  <1>3. {} \subseteq J
    OBVIOUS
  <1>4. SumFunction(f) = SumFunction([y \in {} |-> f[y]])
    BY <1>1, <1>3, SumOfPart
  <1>5. QED
    BY <1>2, <1>4 DEF QtyIn, f

(* Consume takes the quantity it is asked for, from the lots of the lifecycle *)
(* and from no other, and their basis with it.                              *)
Takes(b, pos, qty, a) ==
    /\ a \in Taken /\ a.left = 0 /\ DOMAIN a.lots = DOMAIN b.lots
    /\ \A i \in DOMAIN b.lots :
          /\ a.lots[i].pos = b.lots[i].pos
          /\ i \notin LotsOf(b, pos) => a.lots[i] = b.lots[i]
    /\ BasisIn(a.lots) + a.basis = BasisIn(b.lots)
    /\ \A J \in SUBSET (DOMAIN b.lots) :
          LotsOf(b, pos) \subseteq J => QtyIn(a.lots, J) = QtyIn(b.lots, J) - qty

LEMMA Consumed ==
    ASSUME NEW b \in Tables, NEW pos, NEW qty \in Nat, Available(b, pos) >= qty
    PROVE  Takes(b, pos, qty, Consume(b, pos, qty))
  <1> DEFINE S == LotsOf(b, pos)
             A == {p \in (SUBSET S) \X Taken : TakenRight(b.lots, qty, p[1], p[2])}
             base == [left |-> qty, basis |-> 0, lots |-> b.lots]
             a == Consume(b, pos, qty)
  <1>1. b.lots \in Seq(Lot) /\ S \subseteq DOMAIN b.lots /\ \A i \in S : b.lots[i].qty > 0
    BY DEF Tables, LotsOf, OpenLots
  <1>2. \A p \in A : p[2] \in Taken
    OBVIOUS
  <1>3. base \in Taken /\ base.left = qty /\ base.basis = 0 /\ base.lots = b.lots
    BY <1>1 DEF Taken
  <1>4. TakenRight(b.lots, qty, {}, base)
    <2>1. BasisIn(b.lots) \in Int /\ \A J \in SUBSET (DOMAIN b.lots) : QtyIn(b.lots, J) \in Int
      BY <1>1, LotSums
    <2> HIDE DEF base
    <2>2. QED
      BY <1>3, <2>1 DEF TakenRight
  <1>5. <<{}, base>> \in A
    BY <1>3, <1>4
  <1>6. ASSUME NEW T \in SUBSET S, NEW c, T # {}, <<T \ {Max(T)}, c>> \in A
        PROVE  <<T, TakeFrom(Max(T), c)>> \in A
    <2> DEFINE x == Max(T)
               U == T \ {x}
    <2>1. x \in T
      <3>1. IsFiniteSet(T) /\ T \subseteq Int
        <4>1. T \subseteq DOMAIN b.lots
          BY <1>1
        <4>2. IsFiniteSet(T) /\ T \subseteq Nat
          BY <4>1, LotsAreFinite
        <4>3. QED
          BY <4>2
      <3>2. QED
        BY <1>6, <3>1, GreatestExists
    <2>2. c \in Taken /\ TakenRight(b.lots, qty, U, c)
      <3>1. <<U, c>> \in A
        BY <1>6
      <3> HIDE DEF U
      <3>2. <<U, c>>[1] = U /\ <<U, c>>[2] = c
        OBVIOUS
      <3>3. QED
        BY <3>1, <3>2
    <2>3. x \in DOMAIN b.lots /\ x \notin U /\ b.lots[x].qty > 0 /\ U \subseteq DOMAIN b.lots
      BY <1>1, <2>1
    <2>4. U \cup {x} = T
      BY <2>1
    <2> HIDE DEF x, U
    <2>5. TakeFrom(x, c) \in Taken /\ TakenRight(b.lots, qty, U \cup {x}, TakeFrom(x, c))
      BY <1>1, <2>2, <2>3, OneTake
    <2>6. <<T, TakeFrom(x, c)>> \in A
      BY <2>4, <2>5
    <2>7. QED
      BY <2>6 DEF x
  <1>7. <<S, a>> \in A
    <2> HIDE DEF A
    <2>1. QED
      BY <1>2, <1>5, <1>6, ConsumeKeeps
  <1>8. a \in Taken /\ TakenRight(b.lots, qty, S, a)
    <2> HIDE DEF S, a
    <2>1. QED
      BY <1>7
  <1> HIDE DEF a
  <1>9. /\ DOMAIN a.lots = DOMAIN b.lots
        /\ \A i \in DOMAIN b.lots :
               a.lots[i].pos = b.lots[i].pos /\ (i \notin S => a.lots[i] = b.lots[i])
        /\ a.left > 0 => \A i \in S : a.lots[i].qty = 0
        /\ BasisIn(a.lots) + a.basis = BasisIn(b.lots)
        /\ \A J \in SUBSET (DOMAIN b.lots) : S \subseteq J => QtyIn(a.lots, J) - a.left = QtyIn(b.lots, J) - qty
        /\ a.left \in Nat /\ a.lots \in Seq(Lot)
    BY <1>8 DEF TakenRight, Taken
  <1>10. QtyIn(b.lots, S) >= qty
    BY DEF Available, Quantity, QtyIn
  <1>11. \A J \in SUBSET (DOMAIN b.lots) : QtyIn(a.lots, J) \in Int /\ QtyIn(b.lots, J) \in Int
    BY <1>1, <1>9, LotSums
  <1>12. a.left = 0
    <2> SUFFICES ASSUME a.left > 0 PROVE FALSE
      BY <1>9
    <2>1. QtyIn(a.lots, S) = 0
      <3>1. S \in SUBSET (DOMAIN a.lots) /\ \A i \in S : a.lots[i].qty = 0
        BY <1>1, <1>9
      <3> HIDE DEF S
      <3>2. QED
        BY <1>9, <3>1, QtyIsZero
    <2>2. S \in SUBSET (DOMAIN b.lots) /\ S \subseteq S
      BY <1>1
    <2> HIDE DEF S
    <2>3. QtyIn(a.lots, S) - a.left = QtyIn(b.lots, S) - qty
      BY <1>9, <2>2
    <2>4. QtyIn(b.lots, S) \in Int
      BY <1>11, <2>2
    <2>5. QED
      BY <1>9, <1>10, <2>1, <2>3, <2>4
  <1>13. ASSUME NEW J \in SUBSET (DOMAIN b.lots), S \subseteq J PROVE QtyIn(a.lots, J) = QtyIn(b.lots, J) - qty
    <2>1. QtyIn(a.lots, J) - a.left = QtyIn(b.lots, J) - qty
      BY <1>9, <1>13
    <2>2. QtyIn(a.lots, J) \in Int /\ QtyIn(b.lots, J) \in Int
      BY <1>11
    <2>3. QED
      BY <1>12, <2>1, <2>2
  <1>14. QED
    BY <1>8, <1>9, <1>12, <1>13 DEF a, S, Takes

-----------------------------------------------------------------------------
(* What Book writes *)

(* What a rejected call would not have reached.                              *)
Exec ==
    [id : Nat, pos : Nat, contract : DOMAIN Expiry, side : Sides, qty : Nat, premium : Int, fees : {0},
     at : Int, day : Int]

LEMMA FillRows ==
    ASSUME NEW e \in Exec, NEW p \in Int
    PROVE  /\ WithPnl(e, p) \in Fill
           /\ WithPnl(e, p).id = e.id /\ WithPnl(e, p).pos = e.pos /\ WithPnl(e, p).contract = e.contract
           /\ WithPnl(e, p).side = e.side /\ WithPnl(e, p).qty = e.qty /\ WithPnl(e, p).premium = e.premium
           /\ WithPnl(e, p).at = e.at /\ WithPnl(e, p).day = e.day /\ WithPnl(e, p).pnl = p
  BY DEF Exec, Fill, WithPnl

LEMMA Latching ==
    ASSUME NEW b \in Tables, NEW day \in Int
    PROVE  LET c == LatchIfNeeded(b, day)
           IN  /\ c \in Tables /\ c.fills = b.fills /\ c.lots = b.lots /\ c.fees = b.fees
               /\ \A d : LossOn(c, d) = LossOn(b, d)
               /\ c.latched = IF LossOn(c, day) >= DailyLossLimit THEN b.latched \cup {day} ELSE b.latched
  <1> DEFINE c == LatchIfNeeded(b, day)
  <1>1. b.latched \cup {day} \in SUBSET Int
    BY DEF Tables
  <1>2. [b EXCEPT !.latched = b.latched \cup {day}] \in Tables
    BY <1>1 DEF Tables
  <1>3. c \in Tables /\ c.fills = b.fills /\ c.lots = b.lots /\ c.fees = b.fees
    BY <1>2 DEF LatchIfNeeded, Tables
  <1>4. \A d : LossOn(c, d) = LossOn(b, d)
    <2> HIDE DEF c
    <2>1. QED
      BY <1>3 DEF LossOn, FeesOn
  <1>5. c.latched = IF LossOn(b, day) >= DailyLossLimit THEN b.latched \cup {day} ELSE b.latched
    BY DEF LatchIfNeeded, Tables
  <1> HIDE DEF c
  <1>6. QED
    BY <1>3, <1>4, <1>5 DEF c

(* Book appends one row, and the lots of the bought, or takes what is sold.  *)
LEMMA Booking ==
    ASSUME NEW b \in Tables, NEW e \in Exec,
           e.side = "buy_to_open" => e.premium >= 0,
           e.side = "sell_to_close" => Available(b, e.pos) >= e.qty
    PROVE  LET c == Book(b, e)
               taken == Consume(b, e.pos, e.qty)
           IN  /\ c \in Tables /\ c.fees = b.fees
               /\ c.latched = IF LossOn(c, e.day) >= DailyLossLimit THEN b.latched \cup {e.day} ELSE b.latched
               /\ e.side = "buy_to_open" =>
                     /\ c.fills = Append(b.fills, WithPnl(e, 0))
                     /\ c.lots = Append(b.lots, [pos |-> e.pos, qty |-> e.qty, basis |-> e.premium])
                     /\ [pos |-> e.pos, qty |-> e.qty, basis |-> e.premium] \in Lot
               /\ e.side = "sell_to_close" =>
                     /\ c.fills = Append(b.fills, WithPnl(e, e.premium - taken.basis))
                     /\ e.premium - taken.basis \in Int
                     /\ c.lots = taken.lots /\ taken \in Taken
  <1> DEFINE c == Book(b, e)
             taken == Consume(b, e.pos, e.qty)
             lot == [pos |-> e.pos, qty |-> e.qty, basis |-> e.premium + e.fees]
  <1>1. /\ e.pos \in Nat /\ e.qty \in Nat /\ e.premium \in Int /\ e.fees = 0 /\ e.day \in Int
        /\ e.side \in {"buy_to_open", "sell_to_close"}
    BY DEF Exec, Sides
  <1>2. b.fills \in Seq(Fill) /\ b.lots \in Seq(Lot)
    BY DEF Tables
  <1>3. CASE e.side = "buy_to_open"
    <2> DEFINE x == [b EXCEPT !.lots = Append(@, lot), !.fills = Append(@, WithPnl(e, 0))]
    <2>1. lot = [pos |-> e.pos, qty |-> e.qty, basis |-> e.premium] /\ lot \in Lot
      BY <1>1, <1>3 DEF Lot
    <2>2. WithPnl(e, 0) \in Fill
      BY FillRows
    <2> HIDE DEF lot
    <2>3. Append(b.lots, lot) \in Seq(Lot) /\ Append(b.fills, WithPnl(e, 0)) \in Seq(Fill)
      BY <1>2, <2>1, <2>2
    <2>4. /\ x \in Tables /\ x.fees = b.fees /\ x.latched = b.latched
          /\ x.fills = Append(b.fills, WithPnl(e, 0)) /\ x.lots = Append(b.lots, lot)
      BY <2>3 DEF Tables
    <2>5. c = LatchIfNeeded(x, e.day)
      BY <1>3 DEF Book, BookBuy, lot
    <2> HIDE DEF x
    <2>6. /\ c \in Tables /\ c.fills = x.fills /\ c.lots = x.lots /\ c.fees = x.fees
          /\ c.latched = IF LossOn(c, e.day) >= DailyLossLimit THEN x.latched \cup {e.day} ELSE x.latched
      <3> HIDE DEF c
      <3>1. QED
        BY <1>1, <2>4, <2>5, Latching
    <2> HIDE DEF c
    <2>7. QED
      BY <1>3, <2>1, <2>4, <2>6 DEF c
  <1>4. CASE e.side = "sell_to_close"
    <2>1. taken \in Taken
      BY <1>1, <1>4, Consumed DEF Takes
    <2> HIDE DEF taken
    <2> DEFINE p == e.premium - e.fees - taken.basis
               x == [b EXCEPT !.lots = taken.lots, !.fills = Append(@, WithPnl(e, p))]
    <2>2. taken.lots \in Seq(Lot) /\ p \in Int /\ p = e.premium - taken.basis
      BY <1>1, <2>1 DEF Taken
    <2>3. WithPnl(e, p) \in Fill
      BY <2>2, FillRows
    <2> HIDE DEF p
    <2>4. Append(b.fills, WithPnl(e, p)) \in Seq(Fill)
      BY <1>2, <2>3
    <2>5. /\ x \in Tables /\ x.fees = b.fees /\ x.latched = b.latched
          /\ x.fills = Append(b.fills, WithPnl(e, p)) /\ x.lots = taken.lots
      BY <2>2, <2>4 DEF Tables
    <2>6. c = LatchIfNeeded(x, e.day)
      BY <1>4 DEF Book, BookSell, taken, p
    <2> HIDE DEF x
    <2>7. /\ c \in Tables /\ c.fills = x.fills /\ c.lots = x.lots /\ c.fees = x.fees
          /\ c.latched = IF LossOn(c, e.day) >= DailyLossLimit THEN x.latched \cup {e.day} ELSE x.latched
      <3> HIDE DEF c
      <3>1. QED
        BY <1>1, <2>5, <2>6, Latching
    <2> HIDE DEF c
    <2>8. QED
      BY <1>4, <2>1, <2>2, <2>5, <2>7 DEF c, taken
  <1>5. QED
    BY <1>1, <1>3, <1>4

-----------------------------------------------------------------------------
(* The loss of a session, when a row is added *)

RowsOn(fills, d)   == {k \in DOMAIN fills : fills[k].day = d}
LossIn(fills, d)   == SumFunction([k \in RowsOn(fills, d) |-> Loss(fills[k])])
FeesIn(fees, d)    == SumFunction([g \in {g \in fees : g.day = d} |-> g.amount])

LEMMA LossIsOfRows ==
    ASSUME NEW b, NEW d
    PROVE  LossOn(b, d) = LossIn(b.fills, d) + FeesIn(b.fees, d)
  BY DEF LossOn, FeesOn, LossIn, FeesIn, RowsOn

LEMMA RowsOfSeq ==
    ASSUME NEW fills \in Seq(Fill)
    PROVE  /\ DOMAIN fills = 1..Len(fills) /\ Len(fills) \in Nat
           /\ \A k \in DOMAIN fills :
                 /\ fills[k] \in Fill /\ fills[k].qty \in Nat /\ fills[k].premium \in Int
                 /\ fills[k].pnl \in Int /\ fills[k].id \in Nat /\ fills[k].pos \in Nat
                 /\ fills[k].side \in Sides /\ fills[k].contract \in DOMAIN Expiry
                 /\ Loss(fills[k]) \in Nat
           /\ \A S \in SUBSET (DOMAIN fills) : IsFiniteSet(S) /\ S \subseteq Nat
  <1>1. DOMAIN fills = 1..Len(fills) /\ Len(fills) \in Nat /\ \A k \in DOMAIN fills : fills[k] \in Fill
    OBVIOUS
  <1>2. IsFiniteSet(1..Len(fills))
    <2>1. Len(fills) \in Int /\ 1 \in Int
      BY <1>1
    <2>2. QED
      BY <2>1, FS_Interval
  <1>3. \A k \in DOMAIN fills :
           /\ fills[k].qty \in Nat /\ fills[k].premium \in Int
           /\ fills[k].pnl \in Int /\ fills[k].id \in Nat /\ fills[k].pos \in Nat
           /\ fills[k].side \in Sides /\ fills[k].contract \in DOMAIN Expiry
    BY <1>1 DEF Fill
  <1>4. \A k \in DOMAIN fills : Loss(fills[k]) \in Nat
    BY <1>3 DEF Loss
  <1>5. \A S \in SUBSET (DOMAIN fills) : IsFiniteSet(S) /\ S \subseteq Nat
    BY <1>1, <1>2, FS_Subset
  <1>6. QED
    BY <1>1, <1>3, <1>4, <1>5

LEMMA Appended ==
    ASSUME NEW fills \in Seq(Fill), NEW f \in Fill
    PROVE  LET n == Len(fills)
               new == Append(fills, f)
           IN  /\ new \in Seq(Fill) /\ Len(new) = n + 1 /\ new[n + 1] = f
               /\ DOMAIN new = DOMAIN fills \cup {n + 1} /\ n + 1 \notin DOMAIN fills
               /\ \A k \in DOMAIN fills : new[k] = fills[k]
  OBVIOUS

AddsRow(old, new, m) ==
    /\ IsFiniteSet(DOMAIN old) /\ m \notin DOMAIN old /\ DOMAIN new = DOMAIN old \cup {m}
    /\ \A k \in DOMAIN old : new[k] = old[k]
    /\ \A k \in DOMAIN new : Loss(new[k]) \in Nat

LEMMA RowAdded ==
    ASSUME NEW old, NEW new, NEW m, NEW d, AddsRow(old, new, m)
    PROVE  /\ LossIn(old, d) \in Int
           /\ LossIn(new, d) = LossIn(old, d) + (IF new[m].day = d THEN Loss(new[m]) ELSE 0)
  <1> DEFINE S == RowsOn(old, d)
             before == [k \in S |-> Loss(old[k])]
             after == [k \in RowsOn(new, d) |-> Loss(new[k])]
  <1>0. /\ IsFiniteSet(DOMAIN old) /\ m \notin DOMAIN old /\ DOMAIN new = DOMAIN old \cup {m}
        /\ \A k \in DOMAIN old : new[k] = old[k]
        /\ \A k \in DOMAIN new : Loss(new[k]) \in Nat
    BY DEF AddsRow
  <1>1. IsFiniteSet(S) /\ S \subseteq DOMAIN old
    <2>1. S \subseteq DOMAIN old
      BY DEF RowsOn
    <2>2. QED
      BY <1>0, <2>1, FS_Subset
  <1>2. before \in [S -> Int] /\ \A k \in RowsOn(new, d) : Loss(new[k]) \in Int
    BY <1>0, <1>1 DEF RowsOn
  <1>3. SumFunction(after) = LossIn(new, d) /\ SumFunction(before) = LossIn(old, d)
    BY DEF LossIn
  <1>4. SumFunction(before) \in Int
    <2> HIDE DEF S, before
    <2>1. QED
      BY <1>1, <1>2, SumIsInteger
  <1>5. CASE new[m].day = d
    <2>1. RowsOn(new, d) = S \cup {m} /\ m \notin S
      BY <1>0, <1>5 DEF RowsOn
    <2>2. after \in [S \cup {m} -> Int] /\ after[m] = Loss(new[m]) /\ \A k \in S : after[k] = before[k]
      BY <1>0, <1>1, <1>2, <2>1
    <2> HIDE DEF before, after, S
    <2>3. SumFunction(after) = SumFunction(before) + after[m]
      BY <1>1, <1>2, <2>1, <2>2, SumExtended
    <2>4. QED
      BY <1>3, <1>4, <1>5, <2>2, <2>3
  <1>6. CASE new[m].day # d
    <2>1. RowsOn(new, d) = S
      BY <1>0, <1>6 DEF RowsOn
    <2>2. after = before
      BY <1>0, <1>1, <2>1
    <2>3. QED
      BY <1>3, <1>4, <1>6, <2>2
  <1>7. QED
    BY <1>5, <1>6

LEMMA LossAppended ==
    ASSUME NEW fills \in Seq(Fill), NEW f \in Fill, NEW d
    PROVE  /\ LossIn(fills, d) \in Int
           /\ LossIn(Append(fills, f), d) = LossIn(fills, d) + (IF f.day = d THEN Loss(f) ELSE 0)
           /\ Loss(f) \in Nat
  <1> DEFINE m == Len(fills) + 1
             new == Append(fills, f)
  <1>1. /\ new \in Seq(Fill) /\ new[m] = f
        /\ DOMAIN new = DOMAIN fills \cup {m} /\ m \notin DOMAIN fills
        /\ \A k \in DOMAIN fills : new[k] = fills[k]
    BY Appended
  <1>2. IsFiniteSet(DOMAIN fills)
    BY RowsOfSeq
  <1> HIDE DEF new, m
  <1>3. \A k \in DOMAIN new : Loss(new[k]) \in Nat
    BY <1>1, RowsOfSeq
  <1>4. LossIn(fills, d) \in Int /\ LossIn(new, d) = LossIn(fills, d) + (IF new[m].day = d THEN Loss(new[m]) ELSE 0)
    <2>1. AddsRow(fills, new, m)
      BY <1>1, <1>2, <1>3 DEF AddsRow
    <2>2. QED
      BY <2>1, RowAdded
  <1>5. QED
    BY <1>1, <1>3, <1>4 DEF new

LEMMA FeeAdded ==
    ASSUME NEW fees \in SUBSET FeeRow, IsFiniteSet(fees), NEW g \in FeeRow, g \notin fees, NEW d
    PROVE  /\ FeesIn(fees, d) \in Int
           /\ FeesIn(fees \cup {g}, d) = FeesIn(fees, d) + (IF g.day = d THEN g.amount ELSE 0)
  <1> DEFINE S == {h \in fees : h.day = d}
             R == {h \in fees \cup {g} : h.day = d}
             x == [h \in S |-> h.amount]
             y == [h \in R |-> h.amount]
  <1>1. IsFiniteSet(S) /\ (\A h \in S \cup {g} : h.amount \in Int) /\ g \notin S
    BY FS_Subset DEF FeeRow
  <1>2. x \in [S -> Int]
    BY <1>1
  <1>3. SumFunction(y) = FeesIn(fees \cup {g}, d) /\ SumFunction(x) = FeesIn(fees, d)
    BY DEF FeesIn
  <1>4. SumFunction(x) \in Int
    <2> HIDE DEF x, S
    <2>1. QED
      BY <1>1, <1>2, SumIsInteger
  <1>5. CASE g.day = d
    <2>1. R = S \cup {g}
      BY <1>5
    <2>2. y \in [S \cup {g} -> Int] /\ y[g] = g.amount /\ \A h \in S : y[h] = x[h]
      BY <1>1, <2>1
    <2> HIDE DEF x, y, S, R
    <2>3. SumFunction(y) = SumFunction(x) + y[g]
      BY <1>1, <1>2, <2>2, SumExtended
    <2>4. QED
      BY <1>3, <1>4, <1>5, <2>2, <2>3
  <1>6. CASE g.day # d
    <2>1. R = S
      BY <1>6
    <2>2. x = y
      BY <2>1
    <2>3. QED
      BY <1>3, <1>4, <1>6, <2>2
  <1>7. QED
    BY <1>5, <1>6

-----------------------------------------------------------------------------
(* Volumes and payments, when a row is added *)

Grows(old, new, m) ==
    /\ IsFiniteSet(DOMAIN old) /\ m \notin DOMAIN old /\ DOMAIN new = DOMAIN old \cup {m}
    /\ \A k \in DOMAIN old : new[k] = old[k]

RowsTyped(fills) ==
    \A k \in DOMAIN fills : fills[k].qty \in Nat /\ fills[k].premium \in Int /\ fills[k].pnl \in Int

Extends(S, f, x, g) ==
    /\ IsFiniteSet(S) /\ f \in [S -> Int] /\ x \notin S /\ g \in [S \cup {x} -> Int]
    /\ \A y \in S : g[y] = f[y]

LEMMA SumExtendedBy ==
    ASSUME NEW S, NEW f, NEW x, NEW g, Extends(S, f, x, g)
    PROVE  SumFunction(g) = SumFunction(f) + g[x]
  BY SumExtended DEF Extends

LEMMA FillsGrow ==
    ASSUME NEW fills \in Seq(Fill), NEW f \in Fill
    PROVE  LET new == Append(fills, f)
           IN  /\ Grows(fills, new, Len(fills) + 1) /\ new[Len(fills) + 1] = f
               /\ new \in Seq(Fill) /\ RowsTyped(new) /\ RowsTyped(fills)
  <1> DEFINE m == Len(fills) + 1
             new == Append(fills, f)
  <1>1. /\ new \in Seq(Fill) /\ new[m] = f /\ DOMAIN new = DOMAIN fills \cup {m} /\ m \notin DOMAIN fills
        /\ \A k \in DOMAIN fills : new[k] = fills[k]
    BY Appended
  <1>2. IsFiniteSet(DOMAIN fills)
    BY RowsOfSeq
  <1> HIDE DEF m, new
  <1>3. RowsTyped(new) /\ RowsTyped(fills)
    BY <1>1, RowsOfSeq DEF RowsTyped
  <1>4. Grows(fills, new, m)
    BY <1>1, <1>2 DEF Grows
  <1>5. QED
    BY <1>1, <1>3, <1>4 DEF new, m

LEMMA LotsGrow ==
    ASSUME NEW lots \in Seq(Lot), NEW l \in Lot
    PROVE  LET new == Append(lots, l)
           IN  /\ Grows(lots, new, Len(lots) + 1) /\ new[Len(lots) + 1] = l /\ new \in Seq(Lot)
  <1> DEFINE m == Len(lots) + 1
             new == Append(lots, l)
  <1>1. /\ new \in Seq(Lot) /\ new[m] = l /\ DOMAIN new = DOMAIN lots \cup {m} /\ m \notin DOMAIN lots
        /\ \A k \in DOMAIN lots : new[k] = lots[k]
    OBVIOUS
  <1>2. IsFiniteSet(DOMAIN lots)
    BY LotsOfSeq
  <1> HIDE DEF m, new
  <1>3. Grows(lots, new, m)
    BY <1>1, <1>2 DEF Grows
  <1>4. QED
    BY <1>1, <1>3 DEF new, m

(* How much of a contract was bought, or sold; what was paid for it all.      *)
RowsOf(fills, c, side) == {k \in DOMAIN fills : fills[k].contract = c /\ fills[k].side = side}
QtyOf(fills, S)        == SumFunction([k \in S |-> fills[k].qty])
Volume(fills, c, side) == QtyOf(fills, RowsOf(fills, c, side))
Paying(f)              == IF f.side = "buy_to_open" THEN f.premium ELSE f.pnl - f.premium
Paid(fills)            == SumFunction([k \in DOMAIN fills |-> Paying(fills[k])])

LEMMA VolumeGrows ==
    ASSUME NEW old, NEW new, NEW m, NEW c, NEW side, Grows(old, new, m), RowsTyped(new)
    PROVE  /\ Volume(old, c, side) \in Int
           /\ Volume(new, c, side) = Volume(old, c, side)
                + (IF new[m].contract = c /\ new[m].side = side THEN new[m].qty ELSE 0)
  <1> DEFINE S == RowsOf(old, c, side)
             R == RowsOf(new, c, side)
             before == [k \in S |-> old[k].qty]
             after == [k \in R |-> new[k].qty]
  <1>1. /\ IsFiniteSet(DOMAIN old) /\ m \notin DOMAIN old /\ DOMAIN new = DOMAIN old \cup {m}
        /\ \A k \in DOMAIN old : new[k] = old[k]
        /\ \A k \in DOMAIN new : new[k].qty \in Int
    BY DEF Grows, RowsTyped
  <1>2. IsFiniteSet(S) /\ S \subseteq DOMAIN old
    <2>1. S \subseteq DOMAIN old
      BY DEF RowsOf
    <2>2. QED
      BY <1>1, <2>1, FS_Subset
  <1>3. before \in [S -> Int]
    BY <1>1, <1>2
  <1>4. SumFunction(after) = Volume(new, c, side) /\ SumFunction(before) = Volume(old, c, side)
    BY DEF Volume, QtyOf
  <1>5. SumFunction(before) \in Int
    <2> HIDE DEF S, before
    <2>1. QED
      BY <1>2, <1>3, SumIsInteger
  <1>6. CASE new[m].contract = c /\ new[m].side = side
    <2>1. R = S \cup {m} /\ m \notin S
      BY <1>1, <1>6 DEF RowsOf
    <2>2. after \in [S \cup {m} -> Int] /\ after[m] = new[m].qty /\ \A k \in S : after[k] = before[k]
      BY <1>1, <1>2, <2>1
    <2> HIDE DEF before, after, S, R
    <2>3. SumFunction(after) = SumFunction(before) + after[m]
      BY <1>2, <1>3, <2>1, <2>2, SumExtended
    <2>4. QED
      BY <1>4, <1>5, <1>6, <2>2, <2>3
  <1>7. CASE ~(new[m].contract = c /\ new[m].side = side)
    <2>1. R = S
      BY <1>1, <1>7 DEF RowsOf
    <2>2. after = before
      BY <1>1, <1>2, <2>1
    <2>3. QED
      BY <1>4, <1>5, <1>7, <2>2
  <1>8. QED
    BY <1>6, <1>7

LEMMA PaidGrows ==
    ASSUME NEW old, NEW new, NEW m, Grows(old, new, m), RowsTyped(new)
    PROVE  Paid(old) \in Int /\ Paid(new) = Paid(old) + Paying(new[m])
  <1> DEFINE before == [k \in DOMAIN old |-> Paying(old[k])]
             after == [k \in DOMAIN new |-> Paying(new[k])]
             S == DOMAIN old
  <1>1. IsFiniteSet(S) /\ m \notin S /\ DOMAIN new = S \cup {m} /\ \A k \in S : new[k] = old[k]
    BY DEF Grows
  <1>2. \A k \in DOMAIN new : Paying(new[k]) \in Int
    BY DEF RowsTyped, Paying
  <1>3. before \in [S -> Int] /\ after \in [S \cup {m} -> Int] /\ \A k \in S : after[k] = before[k]
    BY <1>1, <1>2
  <1>4. after[m] = Paying(new[m]) /\ SumFunction(before) = Paid(old) /\ SumFunction(after) = Paid(new)
    BY <1>1 DEF Paid
  <1> HIDE DEF before, after, S
  <1>5. SumFunction(after) = SumFunction(before) + after[m] /\ SumFunction(before) \in Int
    BY <1>1, <1>3, SumExtended, SumIsInteger
  <1>6. QED
    BY <1>4, <1>5

LEMMA BasisGrows ==
    ASSUME NEW old \in Seq(Lot), NEW l \in Lot
    PROVE  BasisIn(Append(old, l)) = BasisIn(old) + l.basis
  <1> DEFINE m == Len(old) + 1
             new == Append(old, l)
             S == DOMAIN old
             before == [k \in S |-> old[k].basis]
             after == [k \in DOMAIN new |-> new[k].basis]
  <1>1. Grows(old, new, m) /\ new[m] = l /\ new \in Seq(Lot)
    BY LotsGrow
  <1>2. IsFiniteSet(S) /\ m \notin S /\ DOMAIN new = S \cup {m} /\ \A k \in S : new[k] = old[k]
    BY <1>1 DEF Grows
  <1> HIDE DEF new, m
  <1>3. \A k \in DOMAIN new : new[k].basis \in Nat
    BY <1>1, LotsOfSeq
  <1>4. before \in [S -> Int] /\ after \in [S \cup {m} -> Int] /\ \A k \in S : after[k] = before[k]
    BY <1>2, <1>3
  <1>5. after[m] = l.basis /\ SumFunction(before) = BasisIn(old) /\ SumFunction(after) = BasisIn(new)
    BY <1>1, <1>2 DEF BasisIn
  <1> HIDE DEF before, after, S
  <1>6. Extends(S, before, m, after)
    BY <1>2, <1>4 DEF Extends
  <1>7. SumFunction(after) = SumFunction(before) + after[m]
    BY <1>6, SumExtendedBy
  <1>8. QED
    BY <1>5, <1>7 DEF new

LEMMA QtyGrows ==
    ASSUME NEW old \in Seq(Lot), NEW l \in Lot, NEW J \in SUBSET (DOMAIN old)
    PROVE  /\ QtyIn(Append(old, l), J) = QtyIn(old, J)
           /\ QtyIn(Append(old, l), J \cup {Len(old) + 1}) = QtyIn(old, J) + l.qty
  <1> DEFINE m == Len(old) + 1
             new == Append(old, l)
             before == [k \in J |-> old[k].qty]
             after == [k \in J \cup {m} |-> new[k].qty]
  <1>1. Grows(old, new, m) /\ new[m] = l /\ new \in Seq(Lot)
    BY LotsGrow
  <1>2. m \notin DOMAIN old /\ DOMAIN new = DOMAIN old \cup {m} /\ \A k \in DOMAIN old : new[k] = old[k]
    BY <1>1 DEF Grows
  <1>3. IsFiniteSet(J)
    BY LotsOfSeq
  <1> HIDE DEF new, m
  <1>4. \A k \in DOMAIN new : new[k].qty \in Nat
    BY <1>1, LotsOfSeq
  <1>5. before \in [J -> Int] /\ after \in [J \cup {m} -> Int] /\ \A k \in J : after[k] = before[k]
    BY <1>2, <1>4
  <1>6. /\ after[m] = l.qty /\ SumFunction(before) = QtyIn(old, J) /\ SumFunction(after) = QtyIn(new, J \cup {m})
        /\ [k \in J |-> new[k].qty] = before
    BY <1>1, <1>2 DEF QtyIn
  <1>7. QtyIn(new, J) = SumFunction(before)
    BY <1>6 DEF QtyIn
  <1>8. m \notin J
    BY <1>2
  <1> HIDE DEF before, after
  <1>9. Extends(J, before, m, after)
    BY <1>3, <1>5, <1>8 DEF Extends
  <1>10. SumFunction(after) = SumFunction(before) + after[m]
    BY <1>9, SumExtendedBy
  <1>11. QED
    BY <1>6, <1>7, <1>10 DEF new, m

-----------------------------------------------------------------------------
(* The balance of lots and rows *)

(* The rows of a lifecycle are of one contract, and no lot is without one.    *)
Coherent(b) ==
    /\ \A j, k \in DOMAIN b.fills : b.fills[j].pos = b.fills[k].pos => b.fills[j].contract = b.fills[k].contract
    /\ \A i \in DOMAIN b.lots : \E k \in DOMAIN b.fills : b.fills[k].pos = b.lots[i].pos

Balanced(b) ==
    /\ \A c : Held(b, c) = Volume(b.fills, c, "buy_to_open") - Volume(b.fills, c, "sell_to_close")
    /\ BasisIn(b.lots) = Paid(b.fills)

LEMMA TableParts ==
    ASSUME NEW b \in Tables
    PROVE  b.fills \in Seq(Fill) /\ b.lots \in Seq(Lot)
  BY DEF Tables

LEMMA ContractIsOfRows ==
    ASSUME NEW b \in Tables, Coherent(b), NEW i \in DOMAIN b.lots,
           NEW k \in DOMAIN b.fills, b.fills[k].pos = b.lots[i].pos
    PROVE  ContractOfLot(b, i) = b.fills[k].contract
  <1> DEFINE S == FillsOf(b, b.lots[i].pos)
  <1>1. k \in S /\ S \subseteq DOMAIN b.fills /\ \A j \in S : b.fills[j].pos = b.lots[i].pos
    BY DEF FillsOf
  <1>2. IsFiniteSet(S) /\ S \subseteq Int
    <2>1. IsFiniteSet(S) /\ S \subseteq Nat
      BY <1>1, TableParts, RowsOfSeq
    <2>2. QED
      BY <2>1
  <1>3. Min(S) \in S
    <2>1. S # {}
      BY <1>1
    <2> HIDE DEF S
    <2>2. QED
      BY <1>2, <2>1, GreatestExists
  <1>4. ContractOfLot(b, i) = b.fills[Min(S)].contract
    BY DEF ContractOfLot
  <1>5. QED
    BY <1>1, <1>3, <1>4 DEF Coherent

(* The lots of a contract, the closed ones too: they hold nothing.            *)
LotsIn(b, c) == {i \in DOMAIN b.lots : ContractOfLot(b, i) = c}

LEMMA HeldIsInLots ==
    ASSUME NEW b \in Tables, NEW c
    PROVE  Held(b, c) = QtyIn(b.lots, LotsIn(b, c)) /\ QtyIn(b.lots, LotsIn(b, c)) \in Nat
  <1> DEFINE S == LotsIn(b, c)
             A == Inventory(b, c)
             f == [i \in S |-> b.lots[i].qty]
  <1>1. S \in SUBSET (DOMAIN b.lots) /\ A \subseteq S
    BY DEF LotsIn, Inventory, OpenLots
  <1>2. IsFiniteSet(S) /\ (\A i \in S : b.lots[i].qty \in Nat) /\ QtyIn(b.lots, S) \in Nat
    BY <1>1, TableParts, LotsOfSeq, LotSums
  <1>3. f \in [S -> Int] /\ \A i \in S \ A : f[i] = 0
    <2>1. \A i \in S \ A : ~(b.lots[i].qty > 0)
      BY DEF LotsIn, Inventory, OpenLots
    <2>2. QED
      BY <1>2, <2>1
  <1>4. /\ [i \in A |-> f[i]] = [i \in A |-> b.lots[i].qty]
        /\ SumFunction(f) = QtyIn(b.lots, S) /\ Held(b, c) = SumFunction([i \in A |-> b.lots[i].qty])
    BY <1>1 DEF QtyIn, Held, Quantity
  <1> HIDE DEF S, A, f
  <1>5. SumFunction(f) = SumFunction([i \in A |-> f[i]])
    BY <1>1, <1>2, <1>3, SumOfPart
  <1>6. QED
    BY <1>2, <1>4, <1>5 DEF S

(* What record has checked of an execution.                                  *)
Accepted(b, e) ==
    /\ FillsOf(b, e.pos) # {} => Follows(e, b.fills[Max(FillsOf(b, e.pos))])
    /\ e.side = "sell_to_close" => Available(b, e.pos) >= e.qty
    /\ e.side = "buy_to_open" => e.premium >= 0

LEMMA SameContract ==
    ASSUME NEW b \in Tables, Coherent(b), NEW e, Accepted(b, e),
           NEW k \in DOMAIN b.fills, b.fills[k].pos = e.pos
    PROVE  b.fills[k].contract = e.contract
  <1> DEFINE S == FillsOf(b, e.pos)
  <1>1. k \in S /\ S \subseteq DOMAIN b.fills /\ \A j \in S : b.fills[j].pos = e.pos
    BY DEF FillsOf
  <1>2. IsFiniteSet(S) /\ S \subseteq Int
    <2>1. IsFiniteSet(S) /\ S \subseteq Nat
      BY <1>1, TableParts, RowsOfSeq
    <2>2. QED
      BY <2>1
  <1>3. Max(S) \in S
    <2>1. S # {}
      BY <1>1
    <2> HIDE DEF S
    <2>2. QED
      BY <1>2, <2>1, GreatestExists
  <1>4. e.contract = b.fills[Max(S)].contract
    BY <1>1 DEF Accepted, Follows
  <1>5. QED
    BY <1>1, <1>3, <1>4 DEF Coherent

(* The rows after a booking.                                                 *)
Booked1(b, e, c, m, p) ==
    /\ c \in Tables /\ Grows(b.fills, c.fills, m) /\ RowsTyped(c.fills) /\ c.fills[m] = WithPnl(e, p) /\ p \in Int
    /\ c.fees = b.fees

LEMMA BookedRow ==
    ASSUME NEW b \in Tables, NEW e \in Exec, Accepted(b, e)
    PROVE  LET c == Book(b, e)
               taken == Consume(b, e.pos, e.qty)
           IN  Booked1(b, e, c, Len(b.fills) + 1, IF e.side = "buy_to_open" THEN 0 ELSE e.premium - taken.basis)
  <1> DEFINE c == Book(b, e)
             taken == Consume(b, e.pos, e.qty)
             m == Len(b.fills) + 1
             p == IF e.side = "buy_to_open" THEN 0 ELSE e.premium - taken.basis
  <1>1. /\ c \in Tables /\ c.fees = b.fees
        /\ e.side = "buy_to_open" => c.fills = Append(b.fills, WithPnl(e, 0))
        /\ e.side = "sell_to_close" =>
              c.fills = Append(b.fills, WithPnl(e, e.premium - taken.basis)) /\ e.premium - taken.basis \in Int
    BY Booking DEF Accepted
  <1>2. e.side \in {"buy_to_open", "sell_to_close"}
    BY DEF Exec, Sides
  <1>3. c.fills = Append(b.fills, WithPnl(e, p)) /\ p \in Int
    <2>1. CASE e.side = "buy_to_open"
      BY <1>1, <2>1
    <2>2. CASE e.side = "sell_to_close"
      BY <1>1, <2>2
    <2>3. QED
      BY <1>2, <2>1, <2>2
  <1> HIDE DEF c, p
  <1>4. b.fills \in Seq(Fill) /\ WithPnl(e, p) \in Fill
    BY <1>3, TableParts, FillRows
  <1>5. Grows(b.fills, c.fills, m) /\ c.fills[m] = WithPnl(e, p) /\ RowsTyped(c.fills)
    BY <1>3, <1>4, FillsGrow
  <1>6. QED
    BY <1>1, <1>3, <1>5 DEF Booked1, c, p

LEMMA RowsCohere ==
    ASSUME NEW b \in Tables, NEW e \in Exec, Coherent(b), Accepted(b, e), NEW c, NEW m, NEW p, Booked1(b, e, c, m, p)
    PROVE  /\ \A j, k \in DOMAIN c.fills :
                 c.fills[j].pos = c.fills[k].pos => c.fills[j].contract = c.fills[k].contract
           /\ c.fills[m].pos = e.pos /\ c.fills[m].contract = e.contract /\ m \in DOMAIN c.fills
           /\ \A k \in DOMAIN b.fills : k \in DOMAIN c.fills /\ c.fills[k] = b.fills[k]
  <1>1. DOMAIN c.fills = DOMAIN b.fills \cup {m} /\ \A k \in DOMAIN b.fills : c.fills[k] = b.fills[k]
    BY DEF Booked1, Grows
  <1>2. c.fills[m].pos = e.pos /\ c.fills[m].contract = e.contract
    BY FillRows DEF Booked1
  <1>3. \A k \in DOMAIN b.fills : b.fills[k].pos = e.pos => b.fills[k].contract = e.contract
    BY SameContract
  <1>4. \A j, k \in DOMAIN b.fills : b.fills[j].pos = b.fills[k].pos => b.fills[j].contract = b.fills[k].contract
    BY DEF Coherent
  <1>5. QED
    BY <1>1, <1>2, <1>3, <1>4

(* The tables after a purchase, and after a sale: the lots of every contract. *)
NewLot(e) == [pos |-> e.pos, qty |-> e.qty, basis |-> e.premium]
AfterBuy(b, e, c) ==
    /\ Booked1(b, e, c, Len(b.fills) + 1, 0) /\ Coherent(c)
    /\ c.lots = Append(b.lots, NewLot(e)) /\ NewLot(e) \in Lot
    /\ \A d : LotsIn(c, d) = IF e.contract = d THEN LotsIn(b, d) \cup {Len(b.lots) + 1} ELSE LotsIn(b, d)

Proceeds(b, e) == e.premium - Consume(b, e.pos, e.qty).basis
AfterSell(b, e, c) ==
    /\ Booked1(b, e, c, Len(b.fills) + 1, Proceeds(b, e)) /\ Coherent(c)
    /\ c.lots = Consume(b, e.pos, e.qty).lots /\ Takes(b, e.pos, e.qty, Consume(b, e.pos, e.qty))
    /\ \A d : LotsIn(c, d) = LotsIn(b, d)
    /\ LotsOf(b, e.pos) \subseteq LotsIn(b, e.contract)

LEMMA LotsAfterBuy ==
    ASSUME NEW b \in Tables, NEW e \in Exec, Coherent(b), Accepted(b, e), e.side = "buy_to_open"
    PROVE  AfterBuy(b, e, Book(b, e))
  <1> DEFINE c == Book(b, e)
             l == NewLot(e)
             m == Len(b.fills) + 1
             x == Len(b.lots) + 1
  <1>1. Booked1(b, e, c, m, 0)
    BY BookedRow
  <1>2. c.lots = Append(b.lots, l) /\ l \in Lot
    BY Booking DEF Accepted, NewLot
  <1>3. l.pos = e.pos
    BY DEF NewLot
  <1> HIDE DEF c, l
  <1>4. Grows(b.lots, c.lots, x) /\ c.lots[x] = l
    BY <1>2, TableParts, LotsGrow
  <1>5. DOMAIN c.lots = DOMAIN b.lots \cup {x} /\ x \notin DOMAIN b.lots /\ \A i \in DOMAIN b.lots : c.lots[i] = b.lots[i]
    BY <1>4 DEF Grows
  <1>6. /\ \A j, k \in DOMAIN c.fills : c.fills[j].pos = c.fills[k].pos => c.fills[j].contract = c.fills[k].contract
        /\ c.fills[m].pos = e.pos /\ c.fills[m].contract = e.contract /\ m \in DOMAIN c.fills
        /\ \A k \in DOMAIN b.fills : k \in DOMAIN c.fills /\ c.fills[k] = b.fills[k]
    BY <1>1, RowsCohere
  <1> HIDE DEF m, x
  <1>7. Coherent(c)
    <2>1. \A i \in DOMAIN b.lots : \E k \in DOMAIN b.fills : b.fills[k].pos = b.lots[i].pos
      BY DEF Coherent
    <2>2. \A i \in DOMAIN c.lots : \E k \in DOMAIN c.fills : c.fills[k].pos = c.lots[i].pos
      BY <1>3, <1>4, <1>5, <1>6, <2>1
    <2>3. QED
      BY <1>6, <2>2 DEF Coherent
  <1>8. c \in Tables
    BY <1>1 DEF Booked1
  <1>9. ASSUME NEW i \in DOMAIN b.lots PROVE ContractOfLot(c, i) = ContractOfLot(b, i)
    <2>1. PICK k \in DOMAIN b.fills : b.fills[k].pos = b.lots[i].pos
      BY DEF Coherent
    <2>2. ContractOfLot(b, i) = b.fills[k].contract
      BY <2>1, ContractIsOfRows
    <2>3. i \in DOMAIN c.lots /\ k \in DOMAIN c.fills /\ c.fills[k].pos = c.lots[i].pos
      BY <1>5, <1>6, <2>1
    <2>4. ContractOfLot(c, i) = c.fills[k].contract
      BY <1>7, <1>8, <2>3, ContractIsOfRows
    <2>5. QED
      BY <1>6, <2>2, <2>4
  <1>10. ContractOfLot(c, x) = e.contract
    <2>1. x \in DOMAIN c.lots /\ c.fills[m].pos = c.lots[x].pos
      BY <1>3, <1>4, <1>5, <1>6
    <2>2. ContractOfLot(c, x) = c.fills[m].contract
      BY <1>6, <1>7, <1>8, <2>1, ContractIsOfRows
    <2>3. QED
      BY <1>6, <2>2
  <1>11. ASSUME NEW d PROVE LotsIn(c, d) = IF e.contract = d THEN LotsIn(b, d) \cup {x} ELSE LotsIn(b, d)
    BY <1>5, <1>9, <1>10 DEF LotsIn
  <1>12. QED
    BY <1>1, <1>2, <1>7, <1>11 DEF AfterBuy, c, l, m, x

LEMMA LotsAfterSell ==
    ASSUME NEW b \in Tables, NEW e \in Exec, Coherent(b), Accepted(b, e), e.side = "sell_to_close"
    PROVE  AfterSell(b, e, Book(b, e))
  <1> DEFINE c == Book(b, e)
             taken == Consume(b, e.pos, e.qty)
             m == Len(b.fills) + 1
             p == Proceeds(b, e)
  <1>1. Booked1(b, e, c, m, p)
    BY BookedRow DEF Proceeds
  <1>2. c.lots = taken.lots
    BY Booking DEF Accepted
  <1>3. Takes(b, e.pos, e.qty, taken)
    <2>1. e.qty \in Nat /\ Available(b, e.pos) >= e.qty
      BY DEF Exec, Accepted
    <2>2. QED
      BY <2>1, Consumed
  <1> HIDE DEF c, m, p, taken
  <1>4. DOMAIN c.lots = DOMAIN b.lots /\ \A i \in DOMAIN b.lots : c.lots[i].pos = b.lots[i].pos
    BY <1>2, <1>3 DEF Takes
  <1>5. /\ \A j, k \in DOMAIN c.fills : c.fills[j].pos = c.fills[k].pos => c.fills[j].contract = c.fills[k].contract
        /\ \A k \in DOMAIN b.fills : k \in DOMAIN c.fills /\ c.fills[k] = b.fills[k]
    BY <1>1, RowsCohere
  <1>6. Coherent(c)
    <2>1. \A i \in DOMAIN b.lots : \E k \in DOMAIN b.fills : b.fills[k].pos = b.lots[i].pos
      BY DEF Coherent
    <2>2. \A i \in DOMAIN c.lots : \E k \in DOMAIN c.fills : c.fills[k].pos = c.lots[i].pos
      BY <1>4, <1>5, <2>1
    <2>3. QED
      BY <1>5, <2>2 DEF Coherent
  <1>7. c \in Tables
    BY <1>1 DEF Booked1
  <1>8. ASSUME NEW i \in DOMAIN b.lots PROVE ContractOfLot(c, i) = ContractOfLot(b, i)
    <2>1. PICK k \in DOMAIN b.fills : b.fills[k].pos = b.lots[i].pos
      BY DEF Coherent
    <2>2. ContractOfLot(b, i) = b.fills[k].contract
      BY <2>1, ContractIsOfRows
    <2>3. i \in DOMAIN c.lots /\ k \in DOMAIN c.fills /\ c.fills[k].pos = c.lots[i].pos
      BY <1>4, <1>5, <2>1
    <2>4. ContractOfLot(c, i) = c.fills[k].contract
      BY <1>6, <1>7, <2>3, ContractIsOfRows
    <2>5. QED
      BY <1>5, <2>2, <2>4
  <1>9. ASSUME NEW i \in LotsOf(b, e.pos) PROVE i \in DOMAIN b.lots /\ ContractOfLot(b, i) = e.contract
    <2>1. i \in DOMAIN b.lots /\ b.lots[i].pos = e.pos
      BY DEF LotsOf, OpenLots
    <2>2. PICK k \in DOMAIN b.fills : b.fills[k].pos = b.lots[i].pos
      BY <2>1 DEF Coherent
    <2>3. ContractOfLot(b, i) = b.fills[k].contract
      BY <2>1, <2>2, ContractIsOfRows
    <2>4. b.fills[k].contract = e.contract
      BY <2>1, <2>2, SameContract
    <2>5. QED
      BY <2>1, <2>3, <2>4
  <1>10. LotsOf(b, e.pos) \subseteq LotsIn(b, e.contract)
    BY <1>9 DEF LotsIn
  <1>11. \A d : LotsIn(c, d) = LotsIn(b, d)
    BY <1>4, <1>8 DEF LotsIn
  <1>12. QED
    BY <1>1, <1>2, <1>3, <1>6, <1>10, <1>11 DEF AfterSell, c, m, p, taken

LEMMA BuyBalances ==
    ASSUME NEW b \in Tables, NEW e \in Exec, Balanced(b), e.side = "buy_to_open", NEW c, AfterBuy(b, e, c)
    PROVE  Balanced(c)
  <1> DEFINE l == NewLot(e)
             m == Len(b.fills) + 1
             x == Len(b.lots) + 1
  <1>1. /\ c \in Tables /\ Grows(b.fills, c.fills, m) /\ RowsTyped(c.fills) /\ c.fills[m] = WithPnl(e, 0)
        /\ c.lots = Append(b.lots, l) /\ l \in Lot
        /\ \A d : LotsIn(c, d) = IF e.contract = d THEN LotsIn(b, d) \cup {x} ELSE LotsIn(b, d)
    BY DEF AfterBuy, Booked1
  <1>2. l.qty = e.qty /\ l.basis = e.premium
    BY DEF NewLot
  <1> HIDE DEF l, m, x
  <1>3. /\ c.fills[m].side = "buy_to_open" /\ c.fills[m].qty = e.qty /\ c.fills[m].premium = e.premium
        /\ c.fills[m].contract = e.contract /\ e.qty \in Nat /\ e.premium \in Int
    BY <1>1, FillRows DEF Exec
  <1>4. ASSUME NEW d
         PROVE  Held(c, d) = Volume(c.fills, d, "buy_to_open") - Volume(c.fills, d, "sell_to_close")
    <2> DEFINE J == LotsIn(b, d)
    <2>1. J \in SUBSET (DOMAIN b.lots) /\ Held(b, d) = QtyIn(b.lots, J) /\ QtyIn(b.lots, J) \in Nat
      BY HeldIsInLots DEF LotsIn
    <2> HIDE DEF J
    <2>2. /\ QtyIn(c.lots, J) = QtyIn(b.lots, J)
          /\ QtyIn(c.lots, J \cup {x}) = QtyIn(b.lots, J) + e.qty
      <3>1. /\ QtyIn(Append(b.lots, l), J) = QtyIn(b.lots, J)
            /\ QtyIn(Append(b.lots, l), J \cup {Len(b.lots) + 1}) = QtyIn(b.lots, J) + l.qty
        <4>1. b.lots \in Seq(Lot) /\ l \in Lot /\ J \in SUBSET (DOMAIN b.lots)
          BY <1>1, <2>1, TableParts
        <4>2. QED
          BY <4>1, QtyGrows
      <3>2. QED
        BY <1>1, <1>2, <3>1 DEF x
    <2>3. Held(c, d) = QtyIn(c.lots, LotsIn(c, d))
      BY <1>1, HeldIsInLots
    <2>4. LotsIn(c, d) = IF e.contract = d THEN J \cup {x} ELSE J
      BY <1>1 DEF J
    <2>5. Held(b, d) = Volume(b.fills, d, "buy_to_open") - Volume(b.fills, d, "sell_to_close")
      BY DEF Balanced
    <2>6. /\ Volume(b.fills, d, "buy_to_open") \in Int
          /\ Volume(c.fills, d, "buy_to_open") = Volume(b.fills, d, "buy_to_open") + (IF e.contract = d THEN e.qty ELSE 0)
      BY <1>1, <1>3, VolumeGrows
    <2>7. /\ Volume(b.fills, d, "sell_to_close") \in Int
          /\ Volume(c.fills, d, "sell_to_close") = Volume(b.fills, d, "sell_to_close")
      <3>1. /\ Volume(b.fills, d, "sell_to_close") \in Int
            /\ Volume(c.fills, d, "sell_to_close") = Volume(b.fills, d, "sell_to_close")
                 + (IF c.fills[m].contract = d /\ c.fills[m].side = "sell_to_close" THEN c.fills[m].qty ELSE 0)
        BY <1>1, VolumeGrows
      <3>2. ~(c.fills[m].contract = d /\ c.fills[m].side = "sell_to_close")
        BY <1>3
      <3>3. QED
        BY <3>1, <3>2
    <2>8. QED
      BY <1>3, <2>1, <2>2, <2>3, <2>4, <2>5, <2>6, <2>7
  <1>5. BasisIn(c.lots) = Paid(c.fills)
    <2>1. BasisIn(c.lots) = BasisIn(b.lots) + e.premium
      BY <1>1, <1>2, TableParts, BasisGrows
    <2>2. Paid(b.fills) \in Int /\ Paid(c.fills) = Paid(b.fills) + Paying(c.fills[m])
      BY <1>1, PaidGrows
    <2>3. Paying(c.fills[m]) = e.premium
      BY <1>3 DEF Paying
    <2>4. BasisIn(b.lots) = Paid(b.fills)
      BY DEF Balanced
    <2>5. QED
      BY <2>1, <2>2, <2>3, <2>4
  <1>6. QED
    BY <1>4, <1>5 DEF Balanced

LEMMA SellBalances ==
    ASSUME NEW b \in Tables, NEW e \in Exec, Balanced(b), e.side = "sell_to_close", NEW c, AfterSell(b, e, c)
    PROVE  Balanced(c)
  <1> DEFINE taken == Consume(b, e.pos, e.qty)
             m == Len(b.fills) + 1
             p == Proceeds(b, e)
  <1>1. /\ c \in Tables /\ Grows(b.fills, c.fills, m) /\ RowsTyped(c.fills) /\ c.fills[m] = WithPnl(e, p) /\ p \in Int
        /\ c.lots = taken.lots /\ \A d : LotsIn(c, d) = LotsIn(b, d)
        /\ LotsOf(b, e.pos) \subseteq LotsIn(b, e.contract)
    BY DEF AfterSell, Booked1
  <1>2. Takes(b, e.pos, e.qty, taken) /\ p = e.premium - taken.basis
    BY DEF AfterSell, Proceeds
  <1> HIDE DEF taken, m, p
  <1>3. /\ \A i \in DOMAIN b.lots : i \notin LotsOf(b, e.pos) => c.lots[i] = b.lots[i]
        /\ BasisIn(c.lots) + taken.basis = BasisIn(b.lots) /\ taken.basis \in Nat
        /\ \A J \in SUBSET (DOMAIN b.lots) :
               LotsOf(b, e.pos) \subseteq J => QtyIn(c.lots, J) = QtyIn(b.lots, J) - e.qty
    BY <1>1, <1>2 DEF Takes, Taken
  <1>4. /\ c.fills[m].side = "sell_to_close" /\ c.fills[m].qty = e.qty /\ c.fills[m].premium = e.premium
        /\ c.fills[m].contract = e.contract /\ c.fills[m].pnl = p /\ e.qty \in Nat /\ e.premium \in Int
    BY <1>1, FillRows DEF Exec
  <1>5. ASSUME NEW d
        PROVE  Held(c, d) = Volume(c.fills, d, "buy_to_open") - Volume(c.fills, d, "sell_to_close")
    <2> DEFINE J == LotsIn(b, d)
    <2>1. J \in SUBSET (DOMAIN b.lots) /\ Held(b, d) = QtyIn(b.lots, J) /\ QtyIn(b.lots, J) \in Nat
      BY HeldIsInLots DEF LotsIn
    <2>2. Held(c, d) = QtyIn(c.lots, J)
      BY <1>1, HeldIsInLots
    <2>3. QtyIn(c.lots, J) = QtyIn(b.lots, J) - (IF e.contract = d THEN e.qty ELSE 0)
      <3>1. CASE e.contract = d
        <4>1. LotsOf(b, e.pos) \subseteq J
          BY <1>1, <3>1
        <4> HIDE DEF J
        <4>2. QED
          BY <1>3, <2>1, <3>1, <4>1
      <3>2. CASE e.contract # d
        <4>1. \A i \in J : i \in DOMAIN b.lots /\ i \notin LotsOf(b, e.pos)
          BY <1>1, <3>2 DEF LotsIn
        <4>2. \A i \in J : c.lots[i] = b.lots[i]
          BY <1>3, <4>1
        <4> HIDE DEF J
        <4>3. [i \in J |-> c.lots[i].qty] = [i \in J |-> b.lots[i].qty]
          BY <4>2
        <4>4. QtyIn(c.lots, J) = QtyIn(b.lots, J)
          BY <4>3 DEF QtyIn
        <4>5. QED
          BY <2>1, <3>2, <4>4
      <3>3. QED
        BY <3>1, <3>2
    <2>4. Held(b, d) = Volume(b.fills, d, "buy_to_open") - Volume(b.fills, d, "sell_to_close")
      BY DEF Balanced
    <2>5. /\ Volume(b.fills, d, "sell_to_close") \in Int
          /\ Volume(c.fills, d, "sell_to_close") = Volume(b.fills, d, "sell_to_close") + (IF e.contract = d THEN e.qty ELSE 0)
      BY <1>1, <1>4, VolumeGrows
    <2>6. /\ Volume(b.fills, d, "buy_to_open") \in Int
          /\ Volume(c.fills, d, "buy_to_open") = Volume(b.fills, d, "buy_to_open")
      <3>1. /\ Volume(b.fills, d, "buy_to_open") \in Int
            /\ Volume(c.fills, d, "buy_to_open") = Volume(b.fills, d, "buy_to_open") + 0
        BY <1>1, <1>4, VolumeGrows
      <3>2. QED
        BY <3>1
    <2> HIDE DEF J
    <2>7. QED
      BY <1>4, <2>1, <2>2, <2>3, <2>4, <2>5, <2>6
  <1>6. BasisIn(c.lots) = Paid(c.fills)
    <2>1. Paid(b.fills) \in Int /\ Paid(c.fills) = Paid(b.fills) + Paying(c.fills[m])
      BY <1>1, PaidGrows
    <2>2. Paying(c.fills[m]) = p - e.premium
      BY <1>4 DEF Paying
    <2>3. BasisIn(b.lots) = Paid(b.fills) /\ BasisIn(c.lots) \in Int
      BY <1>1, TableParts, LotSums DEF Balanced
    <2>4. QED
      BY <1>2, <1>3, <1>4, <2>1, <2>2, <2>3
  <1>7. QED
    BY <1>5, <1>6 DEF Balanced

-----------------------------------------------------------------------------
(* The units of a lot: taken from one lot *)

LEMMA ExactQuotient ==
    ASSUME NEW v \in Int, NEW q \in Nat \ {0}, NEW r \in 0..(q - 1)
    PROVE  (v * q + r) \div q = v
  <1> DEFINE n == v * q + r
             d == n \div q
  <1>1. v * q \in Int /\ n \in Int /\ r \in Int /\ 0 <= r /\ r <= q - 1 /\ n = v * q + r
    OBVIOUS
  <1> HIDE DEF n
  <1>2. d \in Int /\ d * q <= n /\ n < d * q + q
    BY <1>1, Quotient
  <1> HIDE DEF d
  <1>3. d <= v
    <2> SUFFICES ASSUME v + 1 <= d PROVE FALSE
      BY <1>2
    <2>1. (v + 1) * q <= d * q /\ d * q \in Int
      BY <1>2, TimesGrows
    <2>2. (v + 1) * q = v * q + q
      OBVIOUS
    <2>3. QED
      BY <1>1, <1>2, <2>1, <2>2
  <1>4. v <= d
    <2> SUFFICES ASSUME d + 1 <= v PROVE FALSE
      BY <1>2
    <2>1. (d + 1) * q <= v * q
      BY <1>2, TimesGrows
    <2>2. (d + 1) * q = d * q + q /\ d * q \in Int
      BY <1>2
    <2>3. QED
      BY <1>1, <1>2, <2>1, <2>2
  <1>5. QED
    BY <1>2, <1>3, <1>4 DEF d, n

(* The units a lot holds, in the order in which they will be sold: those of    *)
(* the lots ahead of it, then its own, each at the cost of its lot.           *)
Ahead(L, x) == {y \in L : y < x}
UnitsCost(lots, L, s, cost, x, u) ==
    /\ lots[x].basis = lots[x].qty * u
    /\ \A n \in 1..lots[x].qty : cost[s + QtyIn(lots, Ahead(L, x)) + n] = u
UnitsRight(lots, L, s, cost) == \A x \in L : \E u \in Int : UnitsCost(lots, L, s, cost, x, u)

SellsUnits(a, b, L, s, cost) ==
    /\ b.left \in Nat /\ b.left <= a.left
    /\ UnitsRight(b.lots, L, s + (a.left - b.left), cost)
    /\ \E u \in Int :
          /\ b.basis = a.basis + (a.left - b.left) * u
          /\ \A n \in 1..(a.left - b.left) : cost[s + n] = u

LEMMA OneUnitTake ==
    ASSUME NEW a \in Taken, NEW L, L \subseteq DOMAIN a.lots, NEW x \in L, a.lots[x].qty > 0,
           a.left > 0 => \A y \in Ahead(L, x) : a.lots[y].qty = 0,
           NEW s \in Nat, NEW cost, UnitsRight(a.lots, L, s, cost)
    PROVE  SellsUnits(a, TakeFrom(x, a), L, s, cost)
  <1> DEFINE lots == a.lots
             lot == a.lots[x]
             take == IF a.left < lot.qty THEN a.left ELSE lot.qty
             allocated == (lot.basis * take + lot.qty - 1) \div lot.qty
             l == [pos |-> lot.pos, qty |-> lot.qty - take, basis |-> lot.basis - allocated]
             new == [lots EXCEPT ![x] = l]
             Z == QtyIn(lots, Ahead(L, x))
  <1>1. /\ a.left \in Nat /\ a.basis \in Nat /\ lots \in Seq(Lot) /\ x \in DOMAIN lots
        /\ lot.pos \in Nat /\ lot.qty \in Nat \ {0} /\ lot.basis \in Nat
    BY LotsOfSeq DEF Taken
  <1>2. take \in Nat /\ take <= lot.qty /\ take <= a.left /\ (a.left = 0 => take = 0)
    BY <1>1
  <1>3. allocated \in Nat /\ allocated <= lot.basis
    <2> HIDE DEF lot, take
    <2>1. QED
      BY <1>1, <1>2, Allocation
  <1>4. TakeFrom(x, a) = [left |-> a.left - take, basis |-> a.basis + allocated, lots |-> new]
    BY DEF TakeFrom
  <1> HIDE DEF lot, take, allocated
  <1>5. l \in Lot /\ l.qty = lot.qty - take /\ l.basis = lot.basis - allocated
    <2>1. lot.qty - take \in Nat /\ lot.basis - allocated \in Nat /\ lot.pos \in Nat
      BY <1>1, <1>2, <1>3
    <2>2. QED
      BY <2>1 DEF Lot
  <1> HIDE DEF l
  <1>6. /\ new \in Seq(Lot) /\ DOMAIN new = DOMAIN lots /\ new[x] = l
        /\ \A i \in DOMAIN lots : i # x => new[i] = lots[i]
        /\ BasisIn(new) = BasisIn(lots) - lots[x].basis + l.basis
        /\ \A J \in SUBSET (DOMAIN lots) : x \in J => QtyIn(new, J) = QtyIn(lots, J) - lots[x].qty + l.qty
    <2> HIDE DEF lots
    <2>1. QED
      BY <1>1, <1>5, LotReplaced
  <1>7. lots[x] = lot
    BY DEF lot
  <1> HIDE DEF lots, new
  <1>8. \A y \in L : y \in Int /\ Ahead(L, y) \in SUBSET (DOMAIN lots) /\ QtyIn(lots, Ahead(L, y)) \in Nat
                       /\ lots[y].qty \in Nat
    <2> SUFFICES ASSUME NEW y \in L
                 PROVE  y \in Int /\ Ahead(L, y) \in SUBSET (DOMAIN lots) /\ QtyIn(lots, Ahead(L, y)) \in Nat
                          /\ lots[y].qty \in Nat
      OBVIOUS
    <2>1. Ahead(L, y) \in SUBSET (DOMAIN lots) /\ y \in DOMAIN lots
      BY DEF Ahead, lots
    <2>2. QtyIn(lots, Ahead(L, y)) \in Nat /\ lots[y].qty \in Nat
      BY <1>1, <2>1, LotSums, LotsOfSeq
    <2>3. y \in Int
      <3>1. DOMAIN lots = 1..Len(lots) /\ Len(lots) \in Nat
        BY <1>1, LotsOfSeq
      <3>2. QED
        BY <2>1, <3>1
    <2>4. QED
      BY <2>1, <2>2, <2>3
  <1>9. Z \in Nat /\ (take > 0 => Z = 0)
    <2>1. Ahead(L, x) \in SUBSET (DOMAIN lots) /\ Z \in Nat
      BY <1>8
    <2>2. ASSUME take > 0 PROVE Z = 0
      <3>1. \A y \in Ahead(L, x) : lots[y].qty = 0
        BY <1>1, <1>2, <2>2 DEF lots
      <3>2. QED
        BY <1>1, <2>1, <3>1, QtyIsZero
    <2>3. QED
      BY <2>1, <2>2
  <1>10. PICK u \in Int : lot.basis = lot.qty * u /\ \A n \in 1..lot.qty : cost[s + Z + n] = u
    <2>1. \E u \in Int : UnitsCost(lots, L, s, cost, x, u)
      BY DEF UnitsRight, lots
    <2>2. QED
      BY <1>7, <2>1 DEF UnitsCost
  <1>11. allocated = take * u
    <2> DEFINE v == take * u
               r == lot.qty - 1
    <2>1. v \in Int /\ r \in 0..(lot.qty - 1) /\ lot.qty \in Nat \ {0}
      BY <1>1, <1>2
    <2>2. lot.basis * take = v * lot.qty
      BY <1>1, <1>2, <1>10
    <2>3. v * lot.qty \in Int
      BY <2>1
    <2> HIDE DEF v
    <2>4. lot.basis * take + lot.qty - 1 = v * lot.qty + r
      BY <1>1, <2>1, <2>2, <2>3
    <2> HIDE DEF r
    <2>5. (v * lot.qty + r) \div lot.qty = v
      BY <2>1, ExactQuotient
    <2>6. QED
      BY <2>4, <2>5 DEF allocated, v
  <1>12. \A n \in 1..take : cost[s + n] = u
    <2> SUFFICES ASSUME NEW n \in 1..take PROVE cost[s + n] = u
      OBVIOUS
    <2>1. Z = 0 /\ n \in 1..lot.qty
      BY <1>1, <1>2, <1>9
    <2>2. cost[s + Z + n] = u
      BY <1>10, <2>1
    <2>3. s + Z + n = s + n
      BY <1>2, <2>1
    <2>4. QED
      BY <2>2, <2>3
  <1>13. ASSUME NEW y \in L PROVE \E w \in Int : UnitsCost(new, L, s + take, cost, y, w)
    <2> DEFINE A == Ahead(L, y)
    <2>1. PICK w \in Int : UnitsCost(lots, L, s, cost, y, w)
      BY DEF UnitsRight, lots
    <2>2. lots[y].basis = lots[y].qty * w /\ \A n \in 1..lots[y].qty : cost[s + QtyIn(lots, A) + n] = w
      BY <2>1 DEF UnitsCost
    <2>3. A \in SUBSET (DOMAIN lots) /\ QtyIn(lots, A) \in Nat /\ lots[y].qty \in Nat /\ y \in DOMAIN lots
      BY <1>8 DEF lots
    <2>4. x \notin A => QtyIn(new, A) = QtyIn(lots, A)
      <3>1. x \notin A => [i \in A |-> new[i].qty] = [i \in A |-> lots[i].qty]
        BY <1>6, <2>3
      <3>2. QED
        BY <3>1 DEF QtyIn
    <2>5. x \in A => QtyIn(new, A) = QtyIn(lots, A) - take
      BY <1>1, <1>2, <1>5, <1>6, <1>7, <2>3
    <2>6. x \in Int /\ y \in Int
      BY <1>8
    <2>7. x \in A <=> x < y
      BY DEF Ahead
    <2> HIDE DEF A
    <2>8. CASE y = x
      <3>1. new[y].qty = lot.qty - take /\ lot.qty - take \in Nat /\ new[y].basis = lot.basis - allocated
        BY <1>1, <1>2, <1>5, <1>6, <2>8
      <3>2. QtyIn(new, A) = Z /\ x \notin A
        BY <2>4, <2>6, <2>7, <2>8 DEF A
      <3>3. new[y].basis = new[y].qty * u
        BY <1>1, <1>2, <1>10, <1>11, <3>1
      <3>4. ASSUME NEW n \in 1..new[y].qty PROVE cost[s + take + QtyIn(new, A) + n] = u
        <4>1. take + n \in 1..lot.qty
          BY <1>1, <1>2, <3>1
        <4>2. cost[s + Z + (take + n)] = u
          BY <1>10, <4>1
        <4>3. s + take + QtyIn(new, A) + n = s + Z + (take + n)
          BY <1>2, <1>9, <3>1, <3>2
        <4>4. QED
          BY <4>2, <4>3
      <3>5. QED
        BY <3>3, <3>4 DEF UnitsCost, A
    <2>9. CASE y # x /\ x \in A
      <3>1. new[y] = lots[y]
        BY <1>6, <2>3, <2>9
      <3>2. ASSUME NEW n \in 1..new[y].qty PROVE cost[s + take + QtyIn(new, A) + n] = w
        <4>1. cost[s + QtyIn(lots, A) + n] = w
          BY <2>2, <3>1
        <4>2. s + take + QtyIn(new, A) + n = s + QtyIn(lots, A) + n
          BY <1>2, <2>3, <2>5, <2>9, <3>1
        <4>3. QED
          BY <4>1, <4>2
      <3>3. QED
        BY <2>2, <3>1, <3>2 DEF UnitsCost, A
    <2>10. CASE y # x /\ x \notin A
      <3>1. new[y] = lots[y] /\ y < x
        BY <1>6, <2>3, <2>6, <2>7, <2>10
      <3>2. take > 0 => lots[y].qty = 0
        <4>1. y \in Ahead(L, x)
          BY <3>1 DEF Ahead
        <4>2. QED
          BY <1>1, <1>2, <4>1 DEF lots
      <3>3. ASSUME NEW n \in 1..new[y].qty PROVE cost[s + take + QtyIn(new, A) + n] = w
        <4>1. take = 0
          BY <1>2, <3>1, <3>2, <3>3
        <4>2. cost[s + QtyIn(lots, A) + n] = w
          BY <2>2, <3>1
        <4>3. s + take + QtyIn(new, A) + n = s + QtyIn(lots, A) + n
          BY <2>3, <2>4, <2>10, <4>1
        <4>4. QED
          BY <4>2, <4>3
      <3>4. QED
        BY <2>2, <3>1, <3>3 DEF UnitsCost, A
    <2>11. QED
      BY <2>8, <2>9, <2>10
  <1> DEFINE b == TakeFrom(x, a)
  <1>14. b.left = a.left - take /\ b.basis = a.basis + allocated /\ b.lots = new
    BY <1>4
  <1> HIDE DEF b
  <1>15. a.left - b.left = take /\ b.left \in Nat /\ b.left <= a.left
    BY <1>1, <1>2, <1>14
  <1>16. UnitsRight(b.lots, L, s + (a.left - b.left), cost)
    BY <1>13, <1>14, <1>15 DEF UnitsRight
  <1>17. b.basis = a.basis + (a.left - b.left) * u /\ \A n \in 1..(a.left - b.left) : cost[s + n] = u
    BY <1>11, <1>12, <1>14, <1>15
  <1>18. QED
    BY <1>15, <1>16, <1>17 DEF b, SellsUnits

-----------------------------------------------------------------------------
(* The units of a sale *)

(* The cost of the k units after the first s.                                *)
CostOf(cost, s, k) == SumFunction([n \in (s + 1)..(s + k) |-> cost[n]])
Costed(cost, s, k) == \A n \in (s + 1)..(s + k) : cost[n] \in Int

LEMMA NoUnits ==
    ASSUME NEW s \in Nat, NEW cost
    PROVE  CostOf(cost, s, 0) = 0 /\ Costed(cost, s, 0)
  <1> DEFINE S == (s + 1)..(s + 0)
             f == [n \in S |-> cost[n]]
  <1>1. S = {}
    OBVIOUS
  <1>2. f \in [S -> Int] /\ IsFiniteSet(S)
    BY <1>1, FS_EmptySet
  <1>3. Costed(cost, s, 0)
    BY <1>1 DEF Costed
  <1> HIDE DEF f, S
  <1>4. SumFunction(f) = 0
    BY <1>1, <1>2, SumIsInteger
  <1>5. QED
    BY <1>3, <1>4 DEF CostOf, f, S

LEMMA OneUnitMore ==
    ASSUME NEW s \in Nat, NEW k \in Nat, NEW cost, Costed(cost, s, k), cost[s + k + 1] \in Int
    PROVE  /\ CostOf(cost, s, k) \in Int
           /\ CostOf(cost, s, k + 1) = CostOf(cost, s, k) + cost[s + k + 1] /\ Costed(cost, s, k + 1)
  <1> DEFINE S == (s + 1)..(s + k)
             x == s + k + 1
             f == [n \in S |-> cost[n]]
             g == [n \in S \cup {x} |-> cost[n]]
  <1>1. (s + 1)..(s + (k + 1)) = S \cup {x} /\ x \notin S
    OBVIOUS
  <1>2. IsFiniteSet(S)
    <2>1. s + 1 \in Int /\ s + k \in Int
      OBVIOUS
    <2>2. QED
      BY <2>1, FS_Interval
  <1>3. \A n \in S \cup {x} : cost[n] \in Int
    BY DEF Costed
  <1>4. f \in [S -> Int] /\ g \in [S \cup {x} -> Int] /\ g[x] = cost[x] /\ \A n \in S : g[n] = f[n]
    BY <1>3
  <1>5. CostOf(cost, s, k) = SumFunction(f) /\ CostOf(cost, s, k + 1) = SumFunction(g)
    BY <1>1 DEF CostOf
  <1>6. Costed(cost, s, k + 1)
    BY <1>1, <1>3 DEF Costed
  <1> HIDE DEF S, x, f, g
  <1>7. Extends(S, f, x, g)
    BY <1>1, <1>2, <1>4 DEF Extends
  <1>8. SumFunction(g) = SumFunction(f) + g[x] /\ SumFunction(f) \in Int
    BY <1>2, <1>4, <1>7, SumExtendedBy, SumIsInteger
  <1>9. QED
    BY <1>4, <1>5, <1>6, <1>8 DEF x

LEMMA UnitsMore ==
    ASSUME NEW s \in Nat, NEW k \in Nat, NEW cost, Costed(cost, s, k),
           NEW j \in Nat, NEW u \in Int, \A n \in 1..j : cost[s + k + n] = u
    PROVE  CostOf(cost, s, k + j) = CostOf(cost, s, k) + j * u /\ Costed(cost, s, k + j)
  <1> DEFINE Right(i) == CostOf(cost, s, k + i) = CostOf(cost, s, k) + i * u /\ Costed(cost, s, k + i)
             Wrong == {i \in 0..j : ~Right(i)}
  <1>1. CostOf(cost, s, k) \in Int
    <2> DEFINE S == (s + 1)..(s + k)
               f == [n \in S |-> cost[n]]
    <2>1. IsFiniteSet(S)
      <3>1. s + 1 \in Int /\ s + k \in Int
        OBVIOUS
      <3>2. QED
        BY <3>1, FS_Interval
    <2>2. f \in [S -> Int]
      BY DEF Costed
    <2> HIDE DEF f, S
    <2>3. SumFunction(f) \in Int
      BY <2>1, <2>2, SumIsInteger
    <2>4. QED
      BY <2>3 DEF CostOf, f, S
  <1>2. Wrong = {}
    <2> SUFFICES ASSUME Wrong # {} PROVE FALSE
      OBVIOUS
    <2>1. Wrong \subseteq Nat
      OBVIOUS
    <2>2. PICK i \in Wrong : \A n \in Wrong : i <= n
      <3> HIDE DEF Wrong
      <3>1. QED
        BY <2>1, LeastNumber
    <2>3. i \in 0..j /\ ~Right(i)
      OBVIOUS
    <2>4. Right(0)
      <3>1. k + 0 = k /\ 0 * u = 0
        OBVIOUS
      <3>2. QED
        BY <1>1, <3>1
    <2>5. i # 0
      <3> HIDE DEF Right
      <3>1. QED
        BY <2>3, <2>4
    <2> DEFINE h == i - 1
    <2>6. h \in Nat /\ h \in 0..j /\ h + 1 = i /\ h + 1 \in 1..j
      BY <2>3, <2>5
    <2>7. Right(h)
      <3>1. h \notin Wrong
        <4>1. ~(i <= h)
          BY <2>3, <2>6
        <4> HIDE DEF Wrong, h, Right
        <4>2. QED
          BY <2>2, <4>1
      <3> HIDE DEF Right, h
      <3>2. QED
        BY <2>6, <3>1
    <2> HIDE DEF h, Wrong
    <2>8. CostOf(cost, s, k + h) = CostOf(cost, s, k) + h * u /\ Costed(cost, s, k + h)
      BY <2>7
    <2>9. cost[s + (k + h) + 1] = u
      <3>1. cost[s + k + (h + 1)] = u
        BY <2>6
      <3>2. s + (k + h) + 1 = s + k + (h + 1)
        BY <2>6
      <3>3. QED
        BY <3>1, <3>2
    <2>10. /\ CostOf(cost, s, (k + h) + 1) = CostOf(cost, s, k + h) + cost[s + (k + h) + 1]
           /\ Costed(cost, s, (k + h) + 1)
      <3>1. k + h \in Nat /\ cost[s + (k + h) + 1] \in Int
        BY <2>6, <2>9
      <3>2. QED
        BY <2>8, <3>1, OneUnitMore
    <2>11. (k + h) + 1 = k + i /\ h * u + u = i * u /\ h * u \in Int
      BY <2>6
    <2>12. QED
      BY <1>1, <2>3, <2>8, <2>9, <2>10, <2>11
  <1>3. j \notin Wrong
    BY <1>2
  <1>4. QED
    BY <1>3

Oldest(S, T) == \A x \in T : \A y \in S : y < x => y \in T

(* So far, the units sold are the first ones, at their cost.                  *)
FifoRight(a, L, s, qty, cost) ==
    /\ a.left <= qty
    /\ UnitsRight(a.lots, L, s + (qty - a.left), cost)
    /\ Costed(cost, s, qty - a.left) /\ a.basis = CostOf(cost, s, qty - a.left)

LEMMA OneFifoTake ==
    ASSUME NEW a \in Taken, NEW L, L \subseteq DOMAIN a.lots, NEW x \in L, a.lots[x].qty > 0,
           a.left > 0 => \A y \in Ahead(L, x) : a.lots[y].qty = 0,
           NEW s \in Nat, NEW qty \in Nat, NEW cost, FifoRight(a, L, s, qty, cost)
    PROVE  FifoRight(TakeFrom(x, a), L, s, qty, cost)
  <1> DEFINE b == TakeFrom(x, a)
             k == qty - a.left
             j == a.left - b.left
  <1>1. a.left \in Nat /\ a.left <= qty /\ k \in Nat /\ s + k \in Nat
    BY DEF Taken, FifoRight
  <1>2. UnitsRight(a.lots, L, s + k, cost) /\ Costed(cost, s, k) /\ a.basis = CostOf(cost, s, k)
    BY DEF FifoRight
  <1> HIDE DEF k
  <1>3. /\ b.left \in Nat /\ b.left <= a.left
        /\ UnitsRight(b.lots, L, (s + k) + j, cost)
        /\ \E u \in Int : b.basis = a.basis + j * u /\ \A n \in 1..j : cost[(s + k) + n] = u
    <2> DEFINE z == s + k
    <2>1. z \in Nat /\ UnitsRight(a.lots, L, z, cost)
      BY <1>1, <1>2
    <2> HIDE DEF z
    <2>2. SellsUnits(a, TakeFrom(x, a), L, z, cost)
      BY <2>1, OneUnitTake
    <2>3. QED
      BY <2>2 DEF SellsUnits, z
  <1> HIDE DEF b
  <1>4. PICK u \in Int : b.basis = a.basis + j * u /\ \A n \in 1..j : cost[(s + k) + n] = u
    BY <1>3
  <1>5. j \in Nat /\ k + j = qty - b.left
    BY <1>1, <1>3 DEF k
  <1> HIDE DEF j
  <1>6. CostOf(cost, s, k + j) = CostOf(cost, s, k) + j * u /\ Costed(cost, s, k + j)
    BY <1>1, <1>2, <1>4, <1>5, UnitsMore
  <1>7. b.left <= qty /\ (s + k) + j = s + (qty - b.left)
    BY <1>1, <1>3, <1>5
  <1>8. UnitsRight(b.lots, L, s + (qty - b.left), cost)
    BY <1>3, <1>7
  <1>9. b.basis = CostOf(cost, s, qty - b.left) /\ Costed(cost, s, qty - b.left)
    BY <1>2, <1>4, <1>5, <1>6
  <1>10. QED
    BY <1>7, <1>8, <1>9 DEF FifoRight, b

(* A sale takes the oldest units there are, when the lots of the lifecycle are *)
(* all the open lots of the contract.                                        *)
LEMMA SellsFromOldest ==
    ASSUME NEW b \in Tables, NEW pos, NEW qty \in Nat, Available(b, pos) >= qty,
           NEW L, L \subseteq DOMAIN b.lots, LotsOf(b, pos) = {i \in L : b.lots[i].qty > 0},
           NEW s \in Nat, NEW cost, UnitsRight(b.lots, L, s, cost)
    PROVE  FifoRight(Consume(b, pos, qty), L, s, qty, cost)
  <1> DEFINE S == LotsOf(b, pos)
             Fine(T, a) == TakenRight(b.lots, qty, T, a) /\ (Oldest(S, T) => FifoRight(a, L, s, qty, cost))
             A == {p \in (SUBSET S) \X Taken : Fine(p[1], p[2])}
             base == [left |-> qty, basis |-> 0, lots |-> b.lots]
  <1>1. b.lots \in Seq(Lot) /\ S \subseteq DOMAIN b.lots /\ S \subseteq L /\ \A i \in S : b.lots[i].qty > 0
    BY TableParts
  <1>2. \A p \in A : p[2] \in Taken
    OBVIOUS
  <1>3. base \in Taken /\ base.left = qty /\ base.basis = 0 /\ base.lots = b.lots
    BY <1>1 DEF Taken
  <1>4. <<{}, base>> \in A
    <2>1. BasisIn(b.lots) \in Int /\ \A J \in SUBSET (DOMAIN b.lots) : QtyIn(b.lots, J) \in Int
      BY <1>1, LotSums
    <2> HIDE DEF base
    <2>2. TakenRight(b.lots, qty, {}, base)
      BY <1>3, <2>1 DEF TakenRight
    <2>3. qty - base.left = 0 /\ s + (qty - base.left) = s
      BY <1>3
    <2>4. FifoRight(base, L, s, qty, cost)
      BY <1>3, <2>3, NoUnits DEF FifoRight
    <2>5. QED
      BY <1>3, <2>2, <2>4
  <1>5. ASSUME NEW T \in SUBSET S, NEW c, T # {}, <<T \ {Max(T)}, c>> \in A
        PROVE  <<T, TakeFrom(Max(T), c)>> \in A
    <2> DEFINE x == Max(T)
               U == T \ {x}
    <2>1. x \in T /\ (\A y \in T : y <= x) /\ T \subseteq Int
      <3>1. IsFiniteSet(T) /\ T \subseteq Int
        <4>1. T \subseteq DOMAIN b.lots
          BY <1>1
        <4>2. IsFiniteSet(T) /\ T \subseteq Nat
          BY <4>1, LotsAreFinite
        <4>3. QED
          BY <4>2
      <3>2. QED
        BY <1>5, <3>1, GreatestExists
    <2>2. c \in Taken /\ Fine(U, c)
      <3>1. <<U, c>> \in A
        BY <1>5
      <3> HIDE DEF U, Fine
      <3>2. <<U, c>>[1] = U /\ <<U, c>>[2] = c
        OBVIOUS
      <3>3. QED
        BY <3>1, <3>2
    <2>3. x \in S /\ x \in DOMAIN b.lots /\ x \in L /\ x \notin U /\ b.lots[x].qty > 0 /\ U \subseteq DOMAIN b.lots
      BY <1>1, <2>1
    <2>4. U \cup {x} = T
      BY <2>1
    <2>5. S \subseteq Int
      <3>1. S \subseteq Nat
        BY <1>1, LotsAreFinite
      <3>2. QED
        BY <3>1
    <2>6. Oldest(S, T) => Oldest(S, U)
      BY <2>1, <2>5 DEF Oldest
    <2>7. ASSUME Oldest(S, T), NEW y \in Ahead(L, x) PROVE y \in U \/ (y \notin S /\ y \in DOMAIN b.lots)
      <3>1. y \in L /\ y < x
        BY DEF Ahead
      <3>2. y \in S => y \in T
        BY <2>1, <2>7, <3>1 DEF Oldest
      <3>3. y # x
        <4>1. x \in Int
          BY <2>1
        <4>2. QED
          BY <3>1, <4>1
      <3>4. QED
        BY <3>1, <3>2, <3>3
    <2> HIDE DEF x, U, S
    <2>8. TakeFrom(x, c) \in Taken /\ TakenRight(b.lots, qty, U \cup {x}, TakeFrom(x, c))
      BY <1>1, <2>2, <2>3, OneTake
    <2>9. ASSUME Oldest(S, T) PROVE FifoRight(TakeFrom(x, c), L, s, qty, cost)
      <3>1. FifoRight(c, L, s, qty, cost) /\ TakenRight(b.lots, qty, U, c)
        BY <2>2, <2>6, <2>9
      <3>2. /\ DOMAIN c.lots = DOMAIN b.lots
            /\ \A i \in DOMAIN b.lots : i \notin U => c.lots[i] = b.lots[i]
            /\ c.left > 0 => \A i \in U : c.lots[i].qty = 0
        BY <3>1 DEF TakenRight
      <3>3. L \subseteq DOMAIN c.lots /\ c.lots[x].qty > 0
        BY <2>3, <3>2
      <3>4. ASSUME c.left > 0, NEW y \in Ahead(L, x) PROVE c.lots[y].qty = 0
        <4>1. CASE y \in U
          BY <3>2, <3>4, <4>1
        <4>2. CASE y \notin U
          <5>1. y \notin S /\ y \in DOMAIN b.lots /\ y \in L
            BY <2>7, <2>9, <4>2 DEF Ahead
          <5>2. ~(b.lots[y].qty > 0)
            BY <5>1 DEF S
          <5>3. b.lots[y].qty \in Nat
            BY <1>1, <5>1, LotsOfSeq
          <5>4. QED
            BY <3>2, <4>2, <5>1, <5>2, <5>3
        <4>3. QED
          BY <4>1, <4>2
      <3>5. QED
        BY <2>2, <2>3, <3>1, <3>3, <3>4, OneFifoTake
    <2>10. Fine(T, TakeFrom(x, c))
      BY <2>4, <2>8, <2>9
    <2> HIDE DEF Fine
    <2>11. <<T, TakeFrom(x, c)>> \in A
      BY <2>8, <2>10 DEF S
    <2>12. QED
      BY <2>11 DEF x
  <1> DEFINE a == Consume(b, pos, qty)
  <1>6. <<S, a>> \in A
    <2> HIDE DEF A
    <2>1. QED
      BY <1>2, <1>4, <1>5, ConsumeKeeps
  <1>7. Fine(S, a)
    <2> HIDE DEF S, a, Fine
    <2>1. QED
      BY <1>6
  <1>8. Oldest(S, S)
    BY DEF Oldest
  <1>9. QED
    BY <1>7, <1>8

-----------------------------------------------------------------------------
(* What the n-th contract cost *)

(* The rows among the first k, and what the n-th contract bought has cost.    *)
RowsTo(fills, c, side, k)   == {i \in 1..k : fills[i].contract = c /\ fills[i].side = side}
VolumeTo(fills, c, side, k) == QtyOf(fills, RowsTo(fills, c, side, k))
BoughtBy(fills, c, n)       == {j \in DOMAIN fills : VolumeTo(fills, c, "buy_to_open", j) >= n}
CostIn(fills, c, n)         == fills[Min(BoughtBy(fills, c, n))].premium \div fills[Min(BoughtBy(fills, c, n))].qty
Costs(fills, c)             == [n \in Nat |-> CostIn(fills, c, n)]

Numbered(fills, n) == n \in Nat /\ DOMAIN fills = 1..n /\ RowsTyped(fills)

LEMMA VolumeRises ==
    ASSUME NEW fills, NEW n, Numbered(fills, n), NEW c, NEW side
    PROVE  /\ \A k \in 0..n : VolumeTo(fills, c, side, k) \in Nat
           /\ \A j, k \in 0..n : j <= k => VolumeTo(fills, c, side, j) <= VolumeTo(fills, c, side, k)
           /\ VolumeTo(fills, c, side, 0) = 0
           /\ VolumeTo(fills, c, side, n) = Volume(fills, c, side)
  <1> DEFINE R(k) == RowsTo(fills, c, side, k)
             f(k) == [i \in R(k) |-> fills[i].qty]
  <1>1. n \in Nat /\ DOMAIN fills = 1..n /\ \A i \in 1..n : fills[i].qty \in Nat
    BY DEF Numbered, RowsTyped
  <1>2. \A k \in 0..n : R(k) \subseteq 1..n
    BY <1>1 DEF RowsTo
  <1>3. \A k \in 0..n : IsFiniteSet(R(k))
    <2>1. 1 \in Int /\ n \in Int
      BY <1>1
    <2>2. IsFiniteSet(1..n)
      BY <2>1, FS_Interval
    <2>3. QED
      BY <1>2, <2>2, FS_Subset
  <1>4. \A k \in 0..n : f(k) \in [R(k) -> Int] /\ \A i \in R(k) : f(k)[i] >= 0
    BY <1>1, <1>2
  <1>5. \A k \in 0..n : VolumeTo(fills, c, side, k) = SumFunction(f(k))
    BY DEF VolumeTo, QtyOf
  <1>6. \A j, k \in 0..n : j <= k => R(j) \subseteq R(k) /\ f(j) = [i \in R(j) |-> f(k)[i]]
    BY <1>1 DEF RowsTo
  <1>7. R(0) = {} /\ R(n) = RowsOf(fills, c, side)
    BY <1>1 DEF RowsTo, RowsOf
  <1> HIDE DEF R, f
  <1>8. ASSUME NEW k \in 0..n PROVE VolumeTo(fills, c, side, k) \in Nat
    <2> DEFINE g == f(k)
               S == R(k)
    <2>1. IsFiniteSet(S) /\ g \in [S -> Int] /\ \A i \in S : g[i] >= 0
      BY <1>3, <1>4
    <2> HIDE DEF g, S
    <2>2. SumFunction(g) \in Int /\ SumFunction(g) >= 0
      BY <2>1, SumIsInteger
    <2>3. QED
      BY <1>5, <2>2 DEF g
  <1>9. ASSUME NEW j \in 0..n, NEW k \in 0..n, j <= k
        PROVE  VolumeTo(fills, c, side, j) <= VolumeTo(fills, c, side, k)
    <2> DEFINE g == f(k)
               S == R(k)
               A == R(j)
    <2>1. IsFiniteSet(S) /\ g \in [S -> Int] /\ (\A i \in S : g[i] >= 0) /\ A \subseteq S /\ f(j) = [i \in A |-> g[i]]
      BY <1>3, <1>4, <1>6, <1>9
    <2> HIDE DEF g, S, A
    <2>2. \A i \in S \ A : g[i] >= 0
      BY <2>1
    <2>3. SumFunction([i \in A |-> g[i]]) <= SumFunction(g)
      BY <2>1, <2>2, SumOfPart
    <2>4. QED
      BY <1>5, <2>1, <2>3 DEF g
  <1>10. VolumeTo(fills, c, side, 0) = 0
    <2> DEFINE g == f(0)
               S == R(0)
    <2>1. 0 \in 0..n
      BY <1>1
    <2>2. IsFiniteSet(S) /\ g \in [S -> Int] /\ S = {}
      BY <1>3, <1>4, <1>7, <2>1
    <2> HIDE DEF g, S
    <2>3. SumFunction(g) = 0
      BY <2>2, SumIsInteger
    <2>4. QED
      BY <1>5, <2>1, <2>3 DEF g
  <1>11. VolumeTo(fills, c, side, n) = Volume(fills, c, side)
    BY <1>7 DEF VolumeTo, Volume, R
  <1>12. QED
    BY <1>8, <1>9, <1>10, <1>11

LEMMA RowsRemain ==
    ASSUME NEW old, NEW n, Numbered(old, n), NEW new, NEW m, m = n + 1, Grows(old, new, m), RowsTyped(new),
           NEW c, NEW side
    PROVE  /\ Numbered(new, m)
           /\ \A k \in 0..n : VolumeTo(new, c, side, k) = VolumeTo(old, c, side, k)
  <1>1. n \in Nat /\ DOMAIN old = 1..n /\ DOMAIN new = DOMAIN old \cup {m} /\ \A k \in DOMAIN old : new[k] = old[k]
    BY DEF Numbered, Grows
  <1>2. m \in Nat /\ DOMAIN new = 1..m
    BY <1>1
  <1>3. ASSUME NEW k \in 0..n PROVE VolumeTo(new, c, side, k) = VolumeTo(old, c, side, k)
    <2>1. \A i \in 1..k : i \in DOMAIN old /\ new[i] = old[i]
      BY <1>1
    <2>2. RowsTo(new, c, side, k) = RowsTo(old, c, side, k)
      BY <2>1 DEF RowsTo
    <2>3. [i \in RowsTo(new, c, side, k) |-> new[i].qty] = [i \in RowsTo(old, c, side, k) |-> old[i].qty]
      BY <2>1, <2>2 DEF RowsTo
    <2>4. QED
      BY <2>3 DEF VolumeTo, QtyOf
  <1>4. QED
    BY <1>2, <1>3 DEF Numbered

LEMMA LeastIs ==
    ASSUME NEW T, T \subseteq Int, NEW x \in T, \A y \in T : x <= y
    PROVE  Min(T) = x
  <1>1. \A z \in T : (\A y \in T : z <= y) => z = x
    <2> SUFFICES ASSUME NEW z \in T, \A y \in T : z <= y PROVE z = x
      OBVIOUS
    <2>1. x <= z /\ z <= x /\ x \in Int /\ z \in Int
      OBVIOUS
    <2>2. QED
      BY <2>1
  <1>2. \E z \in T : \A y \in T : z <= y
    OBVIOUS
  <1>3. Min(T) \in T /\ \A y \in T : Min(T) <= y
    BY <1>2 DEF Min
  <1>4. QED
    BY <1>1, <1>3

(* The contracts already bought keep their cost; those of a new row cost what  *)
(* it says.                                                                 *)
LEMMA CostsStay ==
    ASSUME NEW old, NEW n, Numbered(old, n), NEW new, NEW m, m = n + 1, Grows(old, new, m), RowsTyped(new), NEW c
    PROVE  /\ \A u \in 1..Volume(old, c, "buy_to_open") : CostIn(new, c, u) = CostIn(old, c, u)
           /\ \A u \in Nat : u > Volume(old, c, "buy_to_open") /\ u <= Volume(new, c, "buy_to_open")
                              => CostIn(new, c, u) = new[m].premium \div new[m].qty
  <1> DEFINE V(k) == VolumeTo(old, c, "buy_to_open", k)
             W(k) == VolumeTo(new, c, "buy_to_open", k)
  <1>1. /\ n \in Nat /\ m \in Nat /\ DOMAIN old = 1..n /\ DOMAIN new = 1..m /\ \A k \in 1..n : new[k] = old[k]
        /\ Numbered(new, m) /\ \A k \in 0..n : W(k) = V(k)
    <2>1. Numbered(new, m) /\ \A k \in 0..n : W(k) = V(k)
      BY RowsRemain
    <2>2. n \in Nat /\ DOMAIN old = 1..n /\ DOMAIN new = 1..m /\ \A k \in 1..n : new[k] = old[k]
      BY <2>1 DEF Numbered, Grows
    <2>3. QED
      BY <2>1, <2>2
  <1>2. /\ \A k \in 0..n : V(k) \in Nat /\ V(k) <= V(n)
        /\ V(0) = 0 /\ V(n) = Volume(old, c, "buy_to_open")
    BY <1>1, VolumeRises
  <1>3. W(m) \in Nat /\ W(m) >= W(n) /\ W(m) = Volume(new, c, "buy_to_open")
    <2>1. n \in 0..m /\ m \in 0..m /\ n <= m
      BY <1>1
    <2>2. QED
      BY <1>1, <2>1, VolumeRises
  <1> DEFINE B(u) == BoughtBy(old, c, u)
             C(u) == BoughtBy(new, c, u)
  <1>4. \A u : B(u) = {k \in 1..n : V(k) >= u} /\ C(u) = {k \in 1..m : W(k) >= u}
    BY <1>1 DEF BoughtBy
  <1>5. \A u : C(u) = B(u) \cup {k \in {m} : W(k) >= u}
    BY <1>1, <1>4
  <1> HIDE DEF V, W, B, C
  <1>6. ASSUME NEW u \in 1..Volume(old, c, "buy_to_open") PROVE CostIn(new, c, u) = CostIn(old, c, u)
    <2>1. u \in Nat /\ u >= 1 /\ u <= V(n) /\ n \in 0..n /\ V(n) \in Nat
      BY <1>1, <1>2
    <2>2. n # 0
      BY <1>2, <2>1
    <2>3. n \in B(u)
      BY <1>1, <1>4, <2>1, <2>2
    <2>4. IsFiniteSet(B(u)) /\ B(u) \subseteq Int /\ B(u) \subseteq 1..n
      <3>1. B(u) \subseteq 1..n /\ 1 \in Int /\ n \in Int
        BY <1>1, <1>4
      <3>2. IsFiniteSet(1..n)
        BY <3>1, FS_Interval
      <3>3. B(u) \subseteq Int
        BY <3>1
      <3>4. QED
        BY <3>1, <3>2, <3>3, FS_Subset
    <2> DEFINE x == Min(B(u))
    <2>5. x \in B(u) /\ \A y \in B(u) : x <= y
      <3> DEFINE T == B(u)
      <3>1. IsFiniteSet(T) /\ T # {} /\ T \subseteq Int
        BY <2>3, <2>4
      <3> HIDE DEF T
      <3>2. Min(T) \in T /\ \A y \in T : Min(T) <= y
        BY <3>1, GreatestExists
      <3>3. QED
        BY <3>2 DEF T
    <2> HIDE DEF x
    <2>6. x \in 1..n /\ x <= m
      BY <1>1, <2>4, <2>5
    <2>7. x \in C(u) /\ (\A y \in C(u) : x <= y) /\ C(u) \subseteq Int
      BY <1>1, <1>5, <2>4, <2>5, <2>6
    <2>8. Min(C(u)) = x
      <3> DEFINE T == C(u)
      <3>1. T \subseteq Int /\ x \in T /\ \A y \in T : x <= y
        BY <2>7
      <3> HIDE DEF T
      <3>2. Min(T) = x
        BY <3>1, LeastIs
      <3>3. QED
        BY <3>2 DEF T
    <2>9. new[x] = old[x]
      BY <1>1, <2>6
    <2>10. QED
      BY <2>8, <2>9 DEF CostIn, B, C, x
  <1>7. ASSUME NEW u \in Nat, u > Volume(old, c, "buy_to_open"), u <= Volume(new, c, "buy_to_open")
        PROVE  CostIn(new, c, u) = new[m].premium \div new[m].qty
    <2>1. u > V(n) /\ u <= W(m)
      BY <1>2, <1>3, <1>7
    <2>2. B(u) = {}
      <3>1. \A k \in 1..n : k \in 0..n /\ V(k) \in Nat /\ V(k) <= V(n)
        BY <1>1, <1>2
      <3>2. V(n) \in Nat
        BY <1>1, <1>2
      <3>3. \A k \in 1..n : ~(V(k) >= u)
        BY <2>1, <3>1, <3>2
      <3>4. QED
        BY <1>4, <3>3
    <2>3. C(u) = {m}
      BY <1>3, <1>5, <2>1, <2>2
    <2>4. Min({m}) = m
      BY <1>1 DEF Min
    <2>5. QED
      BY <2>3, <2>4 DEF CostIn, C
  <1>8. QED
    BY <1>6, <1>7

(* The units of lots that stay, at costs that stay.                          *)
LEMMA UnitsStay ==
    ASSUME NEW lots \in Seq(Lot), NEW new, NEW L \in SUBSET (DOMAIN lots), \A x \in L : new[x] = lots[x],
           NEW s \in Nat, NEW cost, NEW price,
           \A u \in (s + 1)..(s + QtyIn(lots, L)) : price[u] = cost[u],
           UnitsRight(lots, L, s, cost)
    PROVE  UnitsRight(new, L, s, price)
  <1> SUFFICES ASSUME NEW x \in L PROVE \E u \in Int : UnitsCost(new, L, s, price, x, u)
    BY DEF UnitsRight
  <1> DEFINE A == Ahead(L, x)
  <1>1. PICK u \in Int : UnitsCost(lots, L, s, cost, x, u)
    BY DEF UnitsRight
  <1>2. lots[x].basis = lots[x].qty * u /\ \A n \in 1..lots[x].qty : cost[s + QtyIn(lots, A) + n] = u
    BY <1>1 DEF UnitsCost
  <1>3. A \subseteq L /\ x \notin A
    <2>1. x \in Int
      <3>1. x \in DOMAIN lots /\ DOMAIN lots = 1..Len(lots) /\ Len(lots) \in Nat
        BY LotsOfSeq
      <3>2. QED
        BY <3>1
    <2>2. QED
      BY <2>1 DEF Ahead
  <1>4. QtyIn(new, A) = QtyIn(lots, A)
    <2>1. [i \in A |-> new[i].qty] = [i \in A |-> lots[i].qty]
      BY <1>3
    <2>2. QED
      BY <2>1 DEF QtyIn
  <1> HIDE DEF A
  <1>5. IsFiniteSet(L) /\ IsFiniteSet(A) /\ (\A i \in L : lots[i].qty \in Nat) /\ A \in SUBSET (DOMAIN lots)
    BY <1>3, LotsOfSeq
  <1>6. QtyIn(lots, A) \in Nat /\ QtyIn(lots, L) \in Nat
    BY <1>5, LotSums
  <1>7. QtyIn(lots, A) + lots[x].qty <= QtyIn(lots, L)
    <2> DEFINE B == A \cup {x}
               f == [i \in A |-> lots[i].qty]
               g == [i \in B |-> lots[i].qty]
               h == [i \in L |-> lots[i].qty]
    <2>1. /\ f \in [A -> Int] /\ g \in [B -> Int] /\ g[x] = lots[x].qty /\ \A i \in A : g[i] = f[i]
          /\ h \in [L -> Int] /\ (\A i \in L : h[i] >= 0) /\ B \subseteq L /\ g = [i \in B |-> h[i]]
      BY <1>3, <1>5
    <2>2. QtyIn(lots, A) = SumFunction(f) /\ QtyIn(lots, L) = SumFunction(h)
      BY DEF QtyIn
    <2> HIDE DEF f, g, h
    <2>3. Extends(A, f, x, g)
      BY <1>3, <1>5, <2>1 DEF Extends
    <2>4. SumFunction(g) = SumFunction(f) + g[x]
      BY <2>3, SumExtendedBy
    <2> HIDE DEF B
    <2>5. SumFunction([i \in B |-> h[i]]) <= SumFunction(h)
      <3>1. \A i \in L \ B : h[i] >= 0
        BY <2>1
      <3>2. QED
        BY <1>5, <2>1, <3>1, SumOfPart
    <2>6. QED
      BY <2>1, <2>2, <2>4, <2>5
  <1>8. new[x].basis = new[x].qty * u
    BY <1>2
  <1>9. ASSUME NEW n \in 1..new[x].qty PROVE price[s + QtyIn(new, A) + n] = u
    <2>1. n \in 1..lots[x].qty /\ lots[x].qty \in Nat
      BY <1>5
    <2> DEFINE w == s + QtyIn(lots, A) + n
    <2>2. w \in (s + 1)..(s + QtyIn(lots, L))
      BY <1>6, <1>7, <2>1
    <2>3. cost[w] = u
      BY <1>2, <2>1
    <2> HIDE DEF w
    <2>4. price[w] = u
      BY <2>2, <2>3
    <2>5. QED
      BY <1>4, <2>4 DEF w
  <1>10. QED
    BY <1>8, <1>9 DEF UnitsCost, A

LEMMA VolumeStep ==
    ASSUME NEW fills, NEW n, Numbered(fills, n), NEW k \in 1..n, NEW c, NEW side,
           fills[k].contract = c, fills[k].side = side
    PROVE  VolumeTo(fills, c, side, k) = VolumeTo(fills, c, side, k - 1) + fills[k].qty
  <1> DEFINE h == k - 1
             S == RowsTo(fills, c, side, h)
             f == [i \in S |-> fills[i].qty]
             g == [i \in S \cup {k} |-> fills[i].qty]
  <1>1. n \in Nat /\ DOMAIN fills = 1..n /\ \A i \in 1..n : fills[i].qty \in Nat
    BY DEF Numbered, RowsTyped
  <1>2. 1..k = 1..h \cup {k} /\ k \notin 1..h /\ 1..h \subseteq 1..n /\ h \in Int
    BY <1>1
  <1>3. RowsTo(fills, c, side, k) = S \cup {k} /\ k \notin S /\ S \subseteq 1..h
    BY <1>2 DEF RowsTo
  <1>4. IsFiniteSet(S)
    <2>1. 1 \in Int
      OBVIOUS
    <2>2. IsFiniteSet(1..h)
      BY <1>2, <2>1, FS_Interval
    <2>3. QED
      BY <1>3, <2>2, FS_Subset
  <1>5. f \in [S -> Int] /\ g \in [S \cup {k} -> Int] /\ g[k] = fills[k].qty /\ \A i \in S : g[i] = f[i]
    BY <1>1, <1>2, <1>3
  <1>6. VolumeTo(fills, c, side, k) = SumFunction(g) /\ VolumeTo(fills, c, side, h) = SumFunction(f)
    BY <1>3 DEF VolumeTo, QtyOf
  <1> HIDE DEF f, g, S, h
  <1>7. Extends(S, f, k, g)
    BY <1>3, <1>4, <1>5 DEF Extends
  <1>8. SumFunction(g) = SumFunction(f) + g[k]
    BY <1>7, SumExtendedBy
  <1>9. QED
    BY <1>5, <1>6, <1>8 DEF h

LEMMA CostOfStays ==
    ASSUME NEW old, NEW n, Numbered(old, n), NEW new, NEW m, m = n + 1, Grows(old, new, m), RowsTyped(new), NEW c,
           NEW s \in Nat, NEW q \in Nat, s + q <= Volume(old, c, "buy_to_open")
    PROVE  /\ CostOf(Costs(new, c), s, q) = CostOf(Costs(old, c), s, q)
           /\ \A u \in (s + 1)..(s + q) : Costs(new, c)[u] = Costs(old, c)[u]
  <1> DEFINE V == Volume(old, c, "buy_to_open")
  <1>1. V \in Nat
    <2>1. n \in 0..n
      BY DEF Numbered
    <2>2. VolumeTo(old, c, "buy_to_open", n) \in Nat
      BY <2>1, VolumeRises
    <2>3. QED
      BY <2>2, VolumeRises
  <1>2. \A u \in 1..V : CostIn(new, c, u) = CostIn(old, c, u)
    BY CostsStay
  <1>3. \A u \in Nat : Costs(new, c)[u] = CostIn(new, c, u) /\ Costs(old, c)[u] = CostIn(old, c, u)
    BY DEF Costs
  <1> HIDE DEF V
  <1>4. ASSUME NEW u \in (s + 1)..(s + q) PROVE Costs(new, c)[u] = Costs(old, c)[u]
    <2>1. u \in Nat /\ u \in 1..V
      BY <1>1 DEF V
    <2>2. QED
      BY <1>2, <1>3, <2>1
  <1>5. [u \in (s + 1)..(s + q) |-> Costs(new, c)[u]] = [u \in (s + 1)..(s + q) |-> Costs(old, c)[u]]
    BY <1>4
  <1>6. QED
    BY <1>4, <1>5 DEF CostOf

(* The profit of a sale is what it brought less what the contracts cost.      *)
SoldBefore(fills, k) == VolumeTo(fills, fills[k].contract, "sell_to_close", k - 1)
RowRight(fills, k) ==
    fills[k].side = "sell_to_close" =>
        fills[k].pnl = fills[k].premium - CostOf(Costs(fills, fills[k].contract), SoldBefore(fills, k), fills[k].qty)

NoShort(fills) == \A c : Volume(fills, c, "sell_to_close") <= Volume(fills, c, "buy_to_open")

LEMMA OldRowsRight ==
    ASSUME NEW old, NEW n, Numbered(old, n), NEW new, NEW m, m = n + 1, Grows(old, new, m), RowsTyped(new),
           NoShort(old), NEW k \in 1..n, RowRight(old, k)
    PROVE  RowRight(new, k)
  <1> DEFINE c == old[k].contract
             s == SoldBefore(old, k)
             q == old[k].qty
             h == k - 1
  <1>1. SUFFICES ASSUME old[k].side = "sell_to_close"
                 PROVE  new[k] = old[k] /\ SoldBefore(new, k) = s
                          /\ CostOf(Costs(new, c), s, q) = CostOf(Costs(old, c), s, q)
    <2>1. new[k] = old[k]
      BY DEF Grows, Numbered
    <2>2. QED
      BY <2>1 DEF RowRight
  <1>2. n \in Nat /\ k \in DOMAIN old /\ h \in 0..n /\ k \in 0..n /\ n \in 0..n /\ k <= n
    BY DEF Numbered
  <1>3. new[k] = old[k]
    BY <1>2 DEF Grows
  <1>4. SoldBefore(new, k) = s
    <2>1. VolumeTo(new, c, "sell_to_close", h) = VolumeTo(old, c, "sell_to_close", h)
      BY <1>2, RowsRemain
    <2>2. QED
      BY <1>3, <2>1 DEF SoldBefore
  <1>5. q \in Nat
    BY <1>2 DEF Numbered, RowsTyped
  <1>6. s \in Nat
    <2>1. VolumeTo(old, c, "sell_to_close", h) \in Nat
      BY <1>2, VolumeRises
    <2>2. QED
      BY <2>1 DEF SoldBefore
  <1>7. VolumeTo(old, c, "sell_to_close", k) = s + q
    BY <1>1, VolumeStep DEF SoldBefore
  <1>8. VolumeTo(old, c, "sell_to_close", k) <= Volume(old, c, "sell_to_close")
    BY <1>2, VolumeRises
  <1>9. Volume(old, c, "sell_to_close") <= Volume(old, c, "buy_to_open")
    BY DEF NoShort
  <1>10. Volume(old, c, "sell_to_close") \in Nat /\ Volume(old, c, "buy_to_open") \in Nat
    BY <1>2, VolumeRises
  <1> HIDE DEF s, q, c, h
  <1>11. s + q <= Volume(old, c, "buy_to_open")
    BY <1>5, <1>6, <1>7, <1>8, <1>9, <1>10
  <1>12. CostOf(Costs(new, c), s, q) = CostOf(Costs(old, c), s, q)
    BY <1>5, <1>6, <1>11, CostOfStays
  <1>13. QED
    BY <1>3, <1>4, <1>12

(* A lot added behind the others.                                            *)
LEMMA UnitsAppended ==
    ASSUME NEW new, NEW L, NEW x, x \in Int, \A y \in L : y \in Int /\ y < x,
           NEW s, NEW price, UnitsRight(new, L, s, price),
           NEW u \in Int, new[x].basis = new[x].qty * u,
           \A n \in 1..new[x].qty : price[s + QtyIn(new, L) + n] = u
    PROVE  UnitsRight(new, L \cup {x}, s, price)
  <1> SUFFICES ASSUME NEW y \in L \cup {x} PROVE \E w \in Int : UnitsCost(new, L \cup {x}, s, price, y, w)
    BY DEF UnitsRight
  <1>1. CASE y \in L
    <2>1. Ahead(L \cup {x}, y) = Ahead(L, y)
      BY <1>1 DEF Ahead
    <2>2. PICK w \in Int : UnitsCost(new, L, s, price, y, w)
      BY <1>1 DEF UnitsRight
    <2>3. UnitsCost(new, L \cup {x}, s, price, y, w)
      BY <2>1, <2>2 DEF UnitsCost
    <2>4. QED
      BY <2>3
  <1>2. CASE y = x
    <2>1. Ahead(L \cup {x}, x) = L
      BY DEF Ahead
    <2>2. UnitsCost(new, L \cup {x}, s, price, x, u)
      BY <2>1 DEF UnitsCost
    <2>3. QED
      BY <1>2, <2>2
  <1>3. QED
    BY <1>1, <1>2

-----------------------------------------------------------------------------
(* Lots, rows and profits after a booking *)

(* The open lots of a contract are of one lifecycle; every lot holds the next  *)
(* contracts to be sold, at what they cost; every profit was right.          *)
OneOpen(b) ==
    \A i, j \in OpenLots(b) : ContractOfLot(b, i) = ContractOfLot(b, j) => b.lots[i].pos = b.lots[j].pos
SoldOf(b, c)   == Volume(b.fills, c, "sell_to_close")
BoughtOf(b, c) == Volume(b.fills, c, "buy_to_open")
UnitsOf(b, c)  == UnitsRight(b.lots, LotsIn(b, c), SoldOf(b, c), Costs(b.fills, c))
RowsRight(b)   == \A k \in DOMAIN b.fills : RowRight(b.fills, k)
Fifo(b)        == OneOpen(b) /\ (\A c : UnitsOf(b, c)) /\ RowsRight(b)

Opens(b, e)   == \A i \in Inventory(b, e.contract) : b.lots[i].pos = e.pos
UnitPriced(e) == \E u \in Int : e.premium = e.qty * u /\ e.qty > 0

LEMMA TablesNumbered ==
    ASSUME NEW b \in Tables
    PROVE  Numbered(b.fills, Len(b.fills)) /\ Len(b.fills) \in Nat
  <1>1. b.fills \in Seq(Fill)
    BY TableParts
  <1>2. /\ DOMAIN b.fills = 1..Len(b.fills) /\ Len(b.fills) \in Nat
        /\ \A k \in DOMAIN b.fills : b.fills[k].qty \in Nat /\ b.fills[k].premium \in Int /\ b.fills[k].pnl \in Int
    BY <1>1, RowsOfSeq
  <1>3. QED
    BY <1>2 DEF Numbered, RowsTyped

LEMMA BoughtAndSold ==
    ASSUME NEW b \in Tables, Balanced(b), NEW c
    PROVE  /\ SoldOf(b, c) \in Nat /\ BoughtOf(b, c) \in Nat /\ SoldOf(b, c) <= BoughtOf(b, c)
           /\ QtyIn(b.lots, LotsIn(b, c)) = BoughtOf(b, c) - SoldOf(b, c)
  <1> DEFINE n == Len(b.fills)
  <1>1. Numbered(b.fills, n) /\ n \in Nat
    BY TablesNumbered
  <1> HIDE DEF n
  <1>2. n \in 0..n
    BY <1>1
  <1>3. /\ VolumeTo(b.fills, c, "sell_to_close", n) \in Nat
        /\ VolumeTo(b.fills, c, "sell_to_close", n) = Volume(b.fills, c, "sell_to_close")
    BY <1>1, <1>2, VolumeRises
  <1>4. /\ VolumeTo(b.fills, c, "buy_to_open", n) \in Nat
        /\ VolumeTo(b.fills, c, "buy_to_open", n) = Volume(b.fills, c, "buy_to_open")
    BY <1>1, <1>2, VolumeRises
  <1>5. Held(b, c) = BoughtOf(b, c) - SoldOf(b, c)
    BY DEF Balanced, SoldOf, BoughtOf
  <1>6. Held(b, c) = QtyIn(b.lots, LotsIn(b, c)) /\ QtyIn(b.lots, LotsIn(b, c)) \in Nat
    BY HeldIsInLots
  <1>7. SoldOf(b, c) \in Nat /\ BoughtOf(b, c) \in Nat
    BY <1>3, <1>4 DEF SoldOf, BoughtOf
  <1>8. QED
    BY <1>5, <1>6, <1>7

LEMMA OneOpenAfterBuy ==
    ASSUME NEW b \in Tables, NEW e \in Exec, OneOpen(b), Opens(b, e), NEW c, AfterBuy(b, e, c)
    PROVE  OneOpen(c)
  <1> DEFINE l == NewLot(e)
             x == Len(b.lots) + 1
  <1>1. /\ c.lots = Append(b.lots, l) /\ l \in Lot
        /\ \A d : LotsIn(c, d) = IF e.contract = d THEN LotsIn(b, d) \cup {x} ELSE LotsIn(b, d)
    BY DEF AfterBuy
  <1>2. l.pos = e.pos
    BY DEF NewLot
  <1> HIDE DEF l
  <1>3. Grows(b.lots, c.lots, x) /\ c.lots[x] = l
    BY <1>1, TableParts, LotsGrow
  <1>4. DOMAIN c.lots = DOMAIN b.lots \cup {x} /\ x \notin DOMAIN b.lots /\ \A i \in DOMAIN b.lots : c.lots[i] = b.lots[i]
    BY <1>3 DEF Grows
  <1> HIDE DEF x
  <1>5. \A i \in DOMAIN c.lots : i \in LotsIn(c, ContractOfLot(c, i))
    BY DEF LotsIn
  <1>6. x \notin LotsIn(b, e.contract) /\ \A d : x \notin LotsIn(b, d)
    BY <1>4 DEF LotsIn
  <1>7. ContractOfLot(c, x) = e.contract
    BY <1>1, <1>4, <1>5, <1>6
  <1>8. \A i \in DOMAIN b.lots : ContractOfLot(c, i) = ContractOfLot(b, i)
    <2> SUFFICES ASSUME NEW i \in DOMAIN b.lots PROVE ContractOfLot(c, i) = ContractOfLot(b, i)
      OBVIOUS
    <2>1. i \in LotsIn(c, ContractOfLot(c, i)) /\ i # x
      BY <1>4, <1>5
    <2>2. i \in LotsIn(b, ContractOfLot(c, i))
      BY <1>1, <2>1
    <2>3. QED
      BY <2>2 DEF LotsIn
  <1>9. \A i \in OpenLots(c) : i = x \/ (i \in OpenLots(b) /\ i \in DOMAIN b.lots)
    BY <1>4 DEF OpenLots
  <1>10. \A i \in OpenLots(b) : ContractOfLot(b, i) = e.contract => b.lots[i].pos = e.pos
    BY DEF Opens, Inventory
  <1>11. ASSUME NEW i \in OpenLots(c), NEW j \in OpenLots(c), ContractOfLot(c, i) = ContractOfLot(c, j)
         PROVE  c.lots[i].pos = c.lots[j].pos
    <2>1. CASE i = x /\ j = x
      BY <2>1
    <2>2. CASE i = x /\ j # x
      <3>1. j \in OpenLots(b) /\ ContractOfLot(b, j) = e.contract /\ c.lots[j] = b.lots[j]
        BY <1>4, <1>7, <1>8, <1>9, <1>11, <2>2
      <3>2. QED
        BY <1>2, <1>3, <1>10, <2>2, <3>1
    <2>3. CASE i # x /\ j = x
      <3>1. i \in OpenLots(b) /\ ContractOfLot(b, i) = e.contract /\ c.lots[i] = b.lots[i]
        BY <1>4, <1>7, <1>8, <1>9, <1>11, <2>3
      <3>2. QED
        BY <1>2, <1>3, <1>10, <2>3, <3>1
    <2>4. CASE i # x /\ j # x
      <3>1. /\ i \in OpenLots(b) /\ j \in OpenLots(b) /\ ContractOfLot(b, i) = ContractOfLot(b, j)
            /\ c.lots[i] = b.lots[i] /\ c.lots[j] = b.lots[j]
        BY <1>4, <1>8, <1>9, <1>11, <2>4
      <3>2. QED
        BY <3>1 DEF OneOpen
    <2>5. QED
      BY <2>1, <2>2, <2>3, <2>4
  <1>12. QED
    BY <1>11 DEF OneOpen

LEMMA OneOpenAfterSell ==
    ASSUME NEW b \in Tables, NEW e \in Exec, OneOpen(b), NEW c, AfterSell(b, e, c)
    PROVE  OneOpen(c)
  <1> DEFINE taken == Consume(b, e.pos, e.qty)
  <1>1. c.lots = taken.lots /\ Takes(b, e.pos, e.qty, taken) /\ \A d : LotsIn(c, d) = LotsIn(b, d)
    BY DEF AfterSell
  <1> HIDE DEF taken
  <1>2. /\ DOMAIN c.lots = DOMAIN b.lots
        /\ \A i \in DOMAIN b.lots :
              c.lots[i].pos = b.lots[i].pos /\ (i \notin LotsOf(b, e.pos) => c.lots[i] = b.lots[i])
    BY <1>1 DEF Takes
  <1>3. \A i \in OpenLots(c) : i \in OpenLots(b) /\ i \in DOMAIN b.lots
    <2> SUFFICES ASSUME NEW i \in OpenLots(c) PROVE i \in OpenLots(b) /\ i \in DOMAIN b.lots
      OBVIOUS
    <2>1. i \in DOMAIN b.lots /\ c.lots[i].qty > 0
      BY <1>2 DEF OpenLots
    <2>2. CASE i \in LotsOf(b, e.pos)
      BY <2>1, <2>2 DEF LotsOf
    <2>3. CASE i \notin LotsOf(b, e.pos)
      BY <1>2, <2>1, <2>3 DEF OpenLots
    <2>4. QED
      BY <2>1, <2>2, <2>3
  <1>4. \A i \in DOMAIN b.lots : ContractOfLot(c, i) = ContractOfLot(b, i)
    <2> SUFFICES ASSUME NEW i \in DOMAIN b.lots PROVE ContractOfLot(c, i) = ContractOfLot(b, i)
      OBVIOUS
    <2>1. i \in LotsIn(c, ContractOfLot(c, i))
      BY <1>2 DEF LotsIn
    <2>2. i \in LotsIn(b, ContractOfLot(c, i))
      BY <1>1, <2>1
    <2>3. QED
      BY <2>2 DEF LotsIn
  <1>5. QED
    BY <1>2, <1>3, <1>4 DEF OneOpen

(* The costs a booking leaves alone: those of the contracts already bought.   *)
CostsKept(b, c, d) ==
    \A s, q \in Nat : s + q <= BoughtOf(b, d) =>
        /\ CostOf(Costs(c.fills, d), s, q) = CostOf(Costs(b.fills, d), s, q)
        /\ \A u \in (s + 1)..(s + q) : Costs(c.fills, d)[u] = Costs(b.fills, d)[u]

LEMMA CostsAfter ==
    ASSUME NEW b \in Tables, NEW e, NEW c, NEW p, Booked1(b, e, c, Len(b.fills) + 1, p), NEW d
    PROVE  /\ CostsKept(b, c, d)
           /\ \A u \in Nat : u > BoughtOf(b, d) /\ u <= BoughtOf(c, d)
                 => Costs(c.fills, d)[u] = c.fills[Len(b.fills) + 1].premium \div c.fills[Len(b.fills) + 1].qty
           /\ c.fills[Len(b.fills) + 1] = WithPnl(e, p) /\ p \in Int /\ c \in Tables
           /\ VolumeTo(c.fills, d, "sell_to_close", Len(b.fills)) = SoldOf(b, d)
           /\ BoughtOf(c, d) = BoughtOf(b, d) + (IF WithPnl(e, p).contract = d /\ WithPnl(e, p).side = "buy_to_open"
                                                   THEN WithPnl(e, p).qty ELSE 0)
           /\ SoldOf(c, d) = SoldOf(b, d) + (IF WithPnl(e, p).contract = d /\ WithPnl(e, p).side = "sell_to_close"
                                               THEN WithPnl(e, p).qty ELSE 0)
  <1> DEFINE n == Len(b.fills)
             m == n + 1
             old == b.fills
             new == c.fills
  <1>1. Numbered(old, n) /\ n \in Nat
    BY TablesNumbered
  <1>2. Grows(old, new, m) /\ RowsTyped(new) /\ new[m] = WithPnl(e, p) /\ p \in Int /\ c \in Tables
    BY DEF Booked1
  <1>3. BoughtOf(b, d) = Volume(old, d, "buy_to_open") /\ SoldOf(b, d) = Volume(old, d, "sell_to_close")
    BY DEF BoughtOf, SoldOf
  <1>4. BoughtOf(c, d) = Volume(new, d, "buy_to_open") /\ SoldOf(c, d) = Volume(new, d, "sell_to_close")
    BY DEF BoughtOf, SoldOf
  <1>5. m = n + 1
    OBVIOUS
  <1> HIDE DEF m, n, old, new
  <1>6. ASSUME NEW s \in Nat, NEW q \in Nat, s + q <= BoughtOf(b, d)
        PROVE  /\ CostOf(Costs(new, d), s, q) = CostOf(Costs(old, d), s, q)
               /\ \A u \in (s + 1)..(s + q) : Costs(new, d)[u] = Costs(old, d)[u]
    <2>1. s + q <= Volume(old, d, "buy_to_open")
      BY <1>3, <1>6
    <2>2. QED
      BY <1>1, <1>2, <1>5, <2>1, CostOfStays
  <1>7. ASSUME NEW u \in Nat, u > BoughtOf(b, d), u <= BoughtOf(c, d)
        PROVE  Costs(new, d)[u] = new[m].premium \div new[m].qty
    <2>1. u > Volume(old, d, "buy_to_open") /\ u <= Volume(new, d, "buy_to_open")
      BY <1>3, <1>4, <1>7
    <2>2. CostIn(new, d, u) = new[m].premium \div new[m].qty
      BY <1>1, <1>2, <1>5, <2>1, CostsStay
    <2>3. QED
      BY <2>2 DEF Costs
  <1>8. VolumeTo(new, d, "sell_to_close", n) = SoldOf(b, d)
    <2>1. n \in 0..n
      BY <1>1
    <2>2. VolumeTo(new, d, "sell_to_close", n) = VolumeTo(old, d, "sell_to_close", n)
      BY <1>1, <1>2, <1>5, <2>1, RowsRemain
    <2>3. QED
      BY <1>1, <1>3, <2>2, VolumeRises
  <1>9. /\ Volume(new, d, "buy_to_open") = Volume(old, d, "buy_to_open")
             + (IF new[m].contract = d /\ new[m].side = "buy_to_open" THEN new[m].qty ELSE 0)
        /\ Volume(new, d, "sell_to_close") = Volume(old, d, "sell_to_close")
             + (IF new[m].contract = d /\ new[m].side = "sell_to_close" THEN new[m].qty ELSE 0)
    BY <1>2, VolumeGrows
  <1>10. /\ BoughtOf(c, d) = BoughtOf(b, d) + (IF WithPnl(e, p).contract = d /\ WithPnl(e, p).side = "buy_to_open"
                                                THEN WithPnl(e, p).qty ELSE 0)
         /\ SoldOf(c, d) = SoldOf(b, d) + (IF WithPnl(e, p).contract = d /\ WithPnl(e, p).side = "sell_to_close"
                                            THEN WithPnl(e, p).qty ELSE 0)
    BY <1>2, <1>3, <1>4, <1>9
  <1>11. CostsKept(b, c, d)
    BY <1>6 DEF CostsKept, old, new
  <1>12. QED
    BY <1>2, <1>7, <1>8, <1>10, <1>11 DEF m, n, old, new

(* The lots that a booking leaves alone hold the contracts they held.         *)
LEMMA OtherUnits ==
    ASSUME NEW b \in Tables, Balanced(b), NEW e, NEW c, NEW p, Booked1(b, e, c, Len(b.fills) + 1, p),
           NEW d, UnitsOf(b, d), \A i \in LotsIn(b, d) : c.lots[i] = b.lots[i]
    PROVE  UnitsRight(c.lots, LotsIn(b, d), SoldOf(b, d), Costs(c.fills, d))
  <1> DEFINE L == LotsIn(b, d)
             s == SoldOf(b, d)
             q == QtyIn(b.lots, L)
             cost == Costs(b.fills, d)
             price == Costs(c.fills, d)
  <1>1. s \in Nat /\ BoughtOf(b, d) \in Nat /\ s <= BoughtOf(b, d) /\ q = BoughtOf(b, d) - s
    BY BoughtAndSold
  <1>2. q \in Nat /\ s + q <= BoughtOf(b, d)
    BY <1>1
  <1>3. \A u \in (s + 1)..(s + q) : price[u] = cost[u]
    <2>1. CostsKept(b, c, d)
      BY CostsAfter
    <2> HIDE DEF s, q, cost, price
    <2>2. QED
      BY <1>1, <1>2, <2>1 DEF cost, price, CostsKept
  <1>4. UnitsRight(b.lots, L, s, cost) /\ L \in SUBSET (DOMAIN b.lots) /\ \A i \in L : c.lots[i] = b.lots[i]
    BY DEF UnitsOf, LotsIn
  <1>5. b.lots \in Seq(Lot)
    BY TableParts
  <1> HIDE DEF L, s, cost, price
  <1>6. UnitsRight(c.lots, L, s, price)
    BY <1>1, <1>3, <1>4, <1>5, UnitsStay DEF q
  <1>7. QED
    BY <1>6 DEF L, s, price

LEMMA UnitsAfterBuy ==
    ASSUME NEW b \in Tables, NEW e \in Exec, Balanced(b), e.side = "buy_to_open", UnitPriced(e),
           NEW c, AfterBuy(b, e, c), NEW d, UnitsOf(b, d)
    PROVE  UnitsOf(c, d)
  <1> DEFINE l == NewLot(e)
             x == Len(b.lots) + 1
             L == LotsIn(b, d)
             s == SoldOf(b, d)
             V == BoughtOf(b, d)
             price == Costs(c.fills, d)
             row == WithPnl(e, 0)
  <1>1. /\ c.lots = Append(b.lots, l) /\ l \in Lot /\ Booked1(b, e, c, Len(b.fills) + 1, 0)
        /\ LotsIn(c, d) = IF e.contract = d THEN L \cup {x} ELSE L
    BY DEF AfterBuy
  <1>2. l.qty = e.qty /\ l.basis = e.premium
    BY DEF NewLot
  <1> HIDE DEF l
  <1>3. Grows(b.lots, c.lots, x) /\ c.lots[x] = l
    BY <1>1, TableParts, LotsGrow
  <1>4. \A i \in L : c.lots[i] = b.lots[i] /\ i \in DOMAIN b.lots
    BY <1>3 DEF Grows, LotsIn
  <1>5. /\ row.contract = e.contract /\ row.side = "buy_to_open" /\ row.qty = e.qty /\ row.premium = e.premium
        /\ e.qty \in Nat /\ e.premium \in Int
    BY FillRows DEF Exec
  <1> HIDE DEF row
  <1>6. UnitsRight(c.lots, L, s, price)
    BY <1>1, <1>4, OtherUnits
  <1>7. /\ BoughtOf(c, d) = V + (IF row.contract = d /\ row.side = "buy_to_open" THEN row.qty ELSE 0)
        /\ SoldOf(c, d) = s + (IF row.contract = d /\ row.side = "sell_to_close" THEN row.qty ELSE 0)
        /\ \A u \in Nat : u > V /\ u <= BoughtOf(c, d)
              => price[u] = c.fills[Len(b.fills) + 1].premium \div c.fills[Len(b.fills) + 1].qty
        /\ c.fills[Len(b.fills) + 1] = row
    BY <1>1, CostsAfter DEF row
  <1>8. s \in Nat /\ V \in Nat /\ s <= V /\ QtyIn(b.lots, L) = V - s
    BY BoughtAndSold
  <1>9. SoldOf(c, d) = s
    <2>1. ~(row.contract = d /\ row.side = "sell_to_close")
      BY <1>5
    <2>2. QED
      BY <1>7, <1>8, <2>1
  <1>10. CASE e.contract # d
    BY <1>1, <1>6, <1>9, <1>10 DEF UnitsOf
  <1>11. CASE e.contract = d
    <2>1. BoughtOf(c, d) = V + e.qty
      BY <1>5, <1>7, <1>11
    <2>2. PICK u \in Int : e.premium = e.qty * u /\ e.qty > 0
      BY DEF UnitPriced
    <2>3. e.premium \div e.qty = u
      <3>1. e.qty \in Nat \ {0} /\ 0 \in 0..(e.qty - 1)
        BY <1>5, <2>2
      <3>2. (u * e.qty + 0) \div e.qty = u
        BY <3>1, ExactQuotient
      <3>3. u * e.qty + 0 = e.premium
        BY <1>5, <2>2
      <3>4. QED
        BY <3>2, <3>3
    <2>4. QtyIn(c.lots, L) = V - s
      <3>1. [i \in L |-> c.lots[i].qty] = [i \in L |-> b.lots[i].qty]
        BY <1>4
      <3>2. QED
        BY <1>8, <3>1 DEF QtyIn
    <2>5. x \in Int /\ \A y \in L : y \in Int /\ y < x
      <3>1. DOMAIN b.lots = 1..Len(b.lots) /\ Len(b.lots) \in Nat
        BY TableParts, LotsOfSeq
      <3>2. QED
        BY <1>4, <3>1
    <2>6. c.lots[x].basis = c.lots[x].qty * u /\ c.lots[x].qty = e.qty
      BY <1>2, <1>3, <2>2
    <2>7. ASSUME NEW n \in 1..c.lots[x].qty PROVE price[s + QtyIn(c.lots, L) + n] = u
      <3>1. s + QtyIn(c.lots, L) + n = V + n /\ V + n \in Nat /\ V + n > V /\ V + n <= BoughtOf(c, d)
        BY <1>5, <1>8, <2>1, <2>4, <2>6
      <3> DEFINE w == V + n
      <3>2. w \in Nat /\ w > V /\ w <= BoughtOf(c, d)
        BY <3>1
      <3> HIDE DEF w
      <3>3. price[w] = row.premium \div row.qty
        BY <1>7, <3>2
      <3>4. QED
        BY <1>5, <2>3, <3>1, <3>3 DEF w
    <2> HIDE DEF x, L, s, price
    <2>8. UnitsRight(c.lots, L \cup {x}, s, price)
      BY <1>6, <2>5, <2>6, <2>7, UnitsAppended
    <2>9. QED
      BY <1>1, <1>9, <1>11, <2>8 DEF UnitsOf, x, L, s, price
  <1>12. QED
    BY <1>10, <1>11

(* The lots of the open lifecycle are all the open lots of the contract.      *)
LEMMA OpenLotsOfSale ==
    ASSUME NEW b \in Tables, NEW e, Opens(b, e), LotsOf(b, e.pos) \subseteq LotsIn(b, e.contract)
    PROVE  LotsOf(b, e.pos) = {i \in LotsIn(b, e.contract) : b.lots[i].qty > 0}
  <1>1. LotsIn(b, e.contract) \subseteq DOMAIN b.lots
    BY DEF LotsIn
  <1>2. \A i \in LotsOf(b, e.pos) : b.lots[i].qty > 0
    BY DEF LotsOf, OpenLots
  <1>3. ASSUME NEW i \in LotsIn(b, e.contract), b.lots[i].qty > 0 PROVE i \in LotsOf(b, e.pos)
    <2>1. i \in OpenLots(b) /\ i \in Inventory(b, e.contract)
      BY <1>1, <1>3 DEF OpenLots, Inventory, LotsIn
    <2>2. b.lots[i].pos = e.pos
      BY <2>1 DEF Opens
    <2>3. QED
      BY <2>1, <2>2 DEF LotsOf
  <1>4. QED
    BY <1>2, <1>3

(* A sale takes the contracts that come next, at their cost.                 *)
LEMMA SaleIsFifo ==
    ASSUME NEW b \in Tables, NEW e \in Exec, Opens(b, e), Available(b, e.pos) >= e.qty,
           LotsOf(b, e.pos) \subseteq LotsIn(b, e.contract), UnitsOf(b, e.contract), SoldOf(b, e.contract) \in Nat
    PROVE  LET taken == Consume(b, e.pos, e.qty)
               cost == Costs(b.fills, e.contract)
           IN  /\ UnitsRight(taken.lots, LotsIn(b, e.contract), SoldOf(b, e.contract) + e.qty, cost)
               /\ taken.basis = CostOf(cost, SoldOf(b, e.contract), e.qty)
  <1> DEFINE taken == Consume(b, e.pos, e.qty)
             cost == Costs(b.fills, e.contract)
             L == LotsIn(b, e.contract)
             s == SoldOf(b, e.contract)
  <1>1. e.qty \in Nat
    BY DEF Exec
  <1>2. Takes(b, e.pos, e.qty, taken)
    BY <1>1, Consumed
  <1>3. taken.left = 0
    BY <1>2 DEF Takes
  <1>4. LotsOf(b, e.pos) = {i \in L : b.lots[i].qty > 0}
    BY OpenLotsOfSale
  <1>5. L \subseteq DOMAIN b.lots /\ UnitsRight(b.lots, L, s, cost)
    BY DEF LotsIn, UnitsOf
  <1> HIDE DEF taken, cost, L, s
  <1>6. FifoRight(Consume(b, e.pos, e.qty), L, s, e.qty, cost)
    BY <1>1, <1>4, <1>5, SellsFromOldest DEF s
  <1>7. FifoRight(taken, L, s, e.qty, cost)
    BY <1>6 DEF taken
  <1>8. e.qty - taken.left = e.qty
    BY <1>1, <1>3
  <1>9. UnitsRight(taken.lots, L, s + e.qty, cost) /\ taken.basis = CostOf(cost, s, e.qty)
    BY <1>7, <1>8 DEF FifoRight
  <1>10. QED
    BY <1>9 DEF taken, cost, L, s

LEMMA UnitsAfterSell ==
    ASSUME NEW b \in Tables, NEW e \in Exec, Balanced(b), e.side = "sell_to_close", Opens(b, e),
           Available(b, e.pos) >= e.qty, NEW c, AfterSell(b, e, c), Balanced(c), NEW d, UnitsOf(b, d)
    PROVE  UnitsOf(c, d)
  <1> DEFINE L == LotsIn(b, d)
             s == SoldOf(b, d)
             V == BoughtOf(b, d)
             p == Proceeds(b, e)
             row == WithPnl(e, p)
             taken == Consume(b, e.pos, e.qty)
             cost == Costs(b.fills, d)
             price == Costs(c.fills, d)
  <1>1. /\ c.lots = taken.lots /\ Booked1(b, e, c, Len(b.fills) + 1, p) /\ LotsIn(c, d) = L
        /\ Takes(b, e.pos, e.qty, taken) /\ LotsOf(b, e.pos) \subseteq LotsIn(b, e.contract)
    BY DEF AfterSell
  <1>2. c \in Tables /\ p \in Int
    BY <1>1 DEF Booked1
  <1> HIDE DEF p
  <1>3. /\ row.contract = e.contract /\ row.side = "sell_to_close" /\ row.qty = e.qty /\ e.qty \in Nat
    BY <1>2, FillRows DEF Exec
  <1> HIDE DEF row
  <1>4. /\ BoughtOf(c, d) = V + (IF row.contract = d /\ row.side = "buy_to_open" THEN row.qty ELSE 0)
        /\ SoldOf(c, d) = s + (IF row.contract = d /\ row.side = "sell_to_close" THEN row.qty ELSE 0)
        /\ CostsKept(b, c, d)
    BY <1>1, CostsAfter DEF row
  <1>5. s \in Nat /\ V \in Nat /\ s <= V
    BY BoughtAndSold
  <1>6. BoughtOf(c, d) = V
    <2>1. ~(row.contract = d /\ row.side = "buy_to_open")
      BY <1>3
    <2>2. QED
      BY <1>4, <1>5, <2>1
  <1>7. CASE e.contract # d
    <2>1. SoldOf(c, d) = s
      <3>1. ~(row.contract = d /\ row.side = "sell_to_close")
        BY <1>3, <1>7
      <3>2. QED
        BY <1>4, <1>5, <3>1
    <2>2. \A i \in L : c.lots[i] = b.lots[i]
      <3>1. \A i \in L : i \in DOMAIN b.lots /\ i \notin LotsOf(b, e.pos)
        BY <1>1, <1>7 DEF LotsIn
      <3> HIDE DEF L, taken
      <3>2. QED
        BY <1>1, <3>1 DEF Takes
    <2>3. UnitsRight(c.lots, L, s, price)
      BY <1>1, <2>2, OtherUnits
    <2>4. QED
      BY <1>1, <2>1, <2>3 DEF UnitsOf
  <1>8. CASE e.contract = d
    <2>1. SoldOf(c, d) = s + e.qty
      BY <1>3, <1>4, <1>8
    <2>2. UnitsOf(b, e.contract) /\ SoldOf(b, e.contract) \in Nat
      BY <1>5, <1>8
    <2>3. UnitsRight(taken.lots, LotsIn(b, e.contract), SoldOf(b, e.contract) + e.qty, Costs(b.fills, e.contract))
      BY <1>1, <2>2, SaleIsFifo
    <2>4. UnitsRight(c.lots, L, s + e.qty, cost)
      BY <1>1, <1>8, <2>3
    <2>5. QtyIn(c.lots, L) = V - (s + e.qty) /\ s + e.qty <= V /\ s + e.qty \in Nat
      <3>1. QtyIn(c.lots, LotsIn(c, d)) = BoughtOf(c, d) - SoldOf(c, d) /\ SoldOf(c, d) <= BoughtOf(c, d)
        BY <1>2, BoughtAndSold
      <3>2. QED
        BY <1>1, <1>3, <1>5, <1>6, <2>1, <3>1
    <2> DEFINE z == s + e.qty
               q == QtyIn(c.lots, L)
    <2>6. z \in Nat /\ q \in Nat /\ z + q <= BoughtOf(b, d)
      BY <1>5, <2>5
    <2>7. \A u \in (z + 1)..(z + q) : price[u] = cost[u]
      <3> HIDE DEF z, q, price, cost
      <3>1. QED
        BY <1>4, <2>6 DEF CostsKept, price, cost
    <2>8. c.lots \in Seq(Lot) /\ L \in SUBSET (DOMAIN c.lots) /\ \A i \in L : c.lots[i] = c.lots[i]
      <3>1. L \in SUBSET (DOMAIN c.lots)
        BY <1>1 DEF LotsIn
      <3>2. c.lots \in Seq(Lot)
        BY <1>2, TableParts
      <3>3. QED
        BY <3>1, <3>2
    <2>9. UnitsRight(c.lots, L, z, cost)
      BY <2>4
    <2> HIDE DEF L, z, price, cost, s
    <2>10. UnitsRight(c.lots, L, z, price)
      BY <2>6, <2>7, <2>8, <2>9, UnitsStay DEF q
    <2>11. QED
      BY <1>1, <2>1, <2>10 DEF UnitsOf, z, price, s, L
  <1>9. QED
    BY <1>7, <1>8

(* The rows after a booking: the profits taken before stay right, and a new   *)
(* one is.                                                                  *)
LEMMA RowsRightAfter ==
    ASSUME NEW b \in Tables, NEW e, Balanced(b), RowsRight(b), NEW c, NEW p, Booked1(b, e, c, Len(b.fills) + 1, p),
           RowRight(c.fills, Len(b.fills) + 1)
    PROVE  RowsRight(c)
  <1> DEFINE n == Len(b.fills)
             m == n + 1
             old == b.fills
             new == c.fills
  <1>1. Numbered(old, n) /\ n \in Nat /\ m = n + 1
    BY TablesNumbered
  <1>2. Grows(old, new, m) /\ RowsTyped(new)
    BY DEF Booked1
  <1>3. NoShort(old)
    BY BoughtAndSold DEF NoShort, SoldOf, BoughtOf
  <1>4. DOMAIN old = 1..n /\ \A k \in DOMAIN old : RowRight(old, k)
    BY <1>1 DEF RowsRight, Numbered
  <1>5. RowRight(new, m)
    OBVIOUS
  <1> HIDE DEF n, m, old, new
  <1>6. ASSUME NEW k \in 1..n PROVE RowRight(new, k)
    BY <1>1, <1>2, <1>3, <1>4, <1>6, OldRowsRight
  <1>7. DOMAIN new = 1..n \cup {m}
    BY <1>2, <1>4 DEF Grows
  <1>8. QED
    BY <1>5, <1>6, <1>7 DEF RowsRight, new

LEMMA BuyRowRight ==
    ASSUME NEW b \in Tables, NEW e \in Exec, e.side = "buy_to_open", NEW c, AfterBuy(b, e, c)
    PROVE  RowRight(c.fills, Len(b.fills) + 1)
  <1>1. c.fills[Len(b.fills) + 1] = WithPnl(e, 0)
    BY DEF AfterBuy, Booked1
  <1>2. WithPnl(e, 0).side = "buy_to_open"
    BY FillRows
  <1>3. QED
    BY <1>1, <1>2 DEF RowRight

LEMMA SellRowRight ==
    ASSUME NEW b \in Tables, NEW e \in Exec, Balanced(b), e.side = "sell_to_close", Opens(b, e),
           Available(b, e.pos) >= e.qty, NEW c, AfterSell(b, e, c), Balanced(c), UnitsOf(b, e.contract)
    PROVE  RowRight(c.fills, Len(b.fills) + 1)
  <1> DEFINE d == e.contract
             s == SoldOf(b, d)
             V == BoughtOf(b, d)
             p == Proceeds(b, e)
             row == WithPnl(e, p)
             m == Len(b.fills) + 1
             cost == Costs(b.fills, d)
             price == Costs(c.fills, d)
  <1>1. /\ Booked1(b, e, c, m, p) /\ LotsOf(b, e.pos) \subseteq LotsIn(b, e.contract)
    BY DEF AfterSell
  <1>2. c \in Tables /\ p \in Int
    BY <1>1 DEF Booked1
  <1>3. s \in Nat /\ V \in Nat
    BY BoughtAndSold
  <1>4. p = e.premium - Consume(b, e.pos, e.qty).basis
    BY DEF Proceeds
  <1> HIDE DEF p
  <1>5. /\ row.contract = d /\ row.side = "sell_to_close" /\ row.qty = e.qty /\ e.qty \in Nat
        /\ row.premium = e.premium /\ row.pnl = p
    BY <1>2, FillRows DEF Exec
  <1> HIDE DEF row
  <1>6. /\ BoughtOf(c, d) = V + (IF row.contract = d /\ row.side = "buy_to_open" THEN row.qty ELSE 0)
        /\ SoldOf(c, d) = s + (IF row.contract = d /\ row.side = "sell_to_close" THEN row.qty ELSE 0)
        /\ CostsKept(b, c, d) /\ c.fills[m] = row
        /\ VolumeTo(c.fills, d, "sell_to_close", Len(b.fills)) = s
    <2>1. Booked1(b, e, c, Len(b.fills) + 1, p)
      BY <1>1
    <2> HIDE DEF d
    <2>2. /\ BoughtOf(c, d) = V + (IF row.contract = d /\ row.side = "buy_to_open" THEN row.qty ELSE 0)
          /\ SoldOf(c, d) = s + (IF row.contract = d /\ row.side = "sell_to_close" THEN row.qty ELSE 0)
          /\ CostsKept(b, c, d) /\ VolumeTo(c.fills, d, "sell_to_close", Len(b.fills)) = s
      <3> HIDE DEF m, cost, price
      <3>1. QED
        BY <2>1, CostsAfter DEF row
    <2>3. c.fills[m] = row
      BY <1>1 DEF Booked1, row
    <2>4. QED
      BY <2>2, <2>3
  <1>7. s + e.qty <= V
    <2>1. SoldOf(c, d) <= BoughtOf(c, d)
      BY <1>2, BoughtAndSold
    <2>2. SoldOf(c, d) = s + e.qty
      BY <1>5, <1>6
    <2>3. ~(row.contract = d /\ row.side = "buy_to_open")
      BY <1>5
    <2>4. BoughtOf(c, d) = V
      BY <1>3, <1>6, <2>3
    <2>5. QED
      BY <2>1, <2>2, <2>4
  <1>8. Consume(b, e.pos, e.qty).basis = CostOf(cost, s, e.qty)
    BY <1>1, <1>3, SaleIsFifo
  <1>9. CostOf(price, s, e.qty) = CostOf(cost, s, e.qty)
    <2> HIDE DEF price, cost, s, d
    <2>1. QED
      BY <1>3, <1>5, <1>6, <1>7 DEF CostsKept, price, cost
  <1>10. SoldBefore(c.fills, m) = s
    <2>1. m - 1 = Len(b.fills)
      BY TablesNumbered
    <2>2. QED
      BY <1>5, <1>6, <2>1 DEF SoldBefore
  <1>11. QED
    BY <1>4, <1>5, <1>6, <1>8, <1>9, <1>10 DEF RowRight

LEMMA FifoAfterBuy ==
    ASSUME NEW b \in Tables, NEW e \in Exec, Balanced(b), Fifo(b), e.side = "buy_to_open", Opens(b, e), UnitPriced(e),
           NEW c, AfterBuy(b, e, c)
    PROVE  Fifo(c)
  <1>1. OneOpen(c)
    BY OneOpenAfterBuy DEF Fifo
  <1>2. \A d : UnitsOf(c, d)
    BY UnitsAfterBuy DEF Fifo
  <1>3. RowsRight(c)
    <2>1. RowRight(c.fills, Len(b.fills) + 1)
      BY BuyRowRight
    <2>2. Booked1(b, e, c, Len(b.fills) + 1, 0)
      BY DEF AfterBuy
    <2>3. QED
      BY <2>1, <2>2, RowsRightAfter DEF Fifo
  <1>4. QED
    BY <1>1, <1>2, <1>3 DEF Fifo

LEMMA FifoAfterSell ==
    ASSUME NEW b \in Tables, NEW e \in Exec, Balanced(b), Fifo(b), e.side = "sell_to_close", Opens(b, e),
           Available(b, e.pos) >= e.qty, NEW c, AfterSell(b, e, c), Balanced(c)
    PROVE  Fifo(c)
  <1>1. OneOpen(c)
    BY OneOpenAfterSell DEF Fifo
  <1>2. \A d : UnitsOf(c, d)
    BY UnitsAfterSell DEF Fifo
  <1>3. RowsRight(c)
    <2>1. RowRight(c.fills, Len(b.fills) + 1)
      BY SellRowRight DEF Fifo
    <2>2. Booked1(b, e, c, Len(b.fills) + 1, Proceeds(b, e))
      BY DEF AfterSell
    <2>3. QED
      BY <2>1, <2>2, RowsRightAfter DEF Fifo
  <1>4. QED
    BY <1>1, <1>2, <1>3 DEF Fifo
=============================================================================
