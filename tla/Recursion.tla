----------------------------- MODULE Recursion -----------------------------
(***************************************************************************)
(* Induction and recursion for the proofs about data: schemas, values and  *)
(* paths.  A predicate is the set of what satisfies it, and the right-hand *)
(* side of a recursive definition is a function on functions, so that the  *)
(* theorems need no operator as a parameter.                               *)
(***************************************************************************)
EXTENDS Integers, FiniteSetTheorems, WellFoundedInduction, TLAPS

(***************************************************************************)
(* A set that holds 0 and every successor holds every natural number: the  *)
(* intervals 0 .. m below what it lacks have a smallest one.               *)
(***************************************************************************)
LEMMA SetInduction ==
  ASSUME NEW T, 0 \in T, \A n \in Nat : n \in T => n + 1 \in T
  PROVE  Nat \subseteq T
<1>. DEFINE R == StrictSubsetOrdering(Nat)
            U == Nat \ T
            Below == {0 .. m : m \in U}
<1>1. SUFFICES ASSUME U # {} PROVE FALSE
  OBVIOUS
<1>2. IsWellFoundedOn(R, FiniteSubsetsOf(Nat))
  BY FS_StrictSubsetOrderingWellFounded
<1>3. Below \subseteq FiniteSubsetsOf(Nat)
  <2>. SUFFICES ASSUME NEW m \in U PROVE 0 .. m \in FiniteSubsetsOf(Nat)
    OBVIOUS
  <2>1. IsFiniteSet(0 .. m)
    BY FS_Interval
  <2>. QED
    BY <2>1 DEF FiniteSubsetsOf
<1>4. PICK x \in Below : \A y \in Below : ~ (<<y, x>> \in R)
  <2>1. Below # {}
    BY <1>1
  <2>. HIDE DEF R, Below
  <2>. QED
    BY <2>1, <1>2, <1>3, WFMin
<1>5. PICK m \in U : x = 0 .. m
  OBVIOUS
<1>6. m # 0 /\ m - 1 \in U
  OBVIOUS
<1>7. <<0 .. (m - 1), x>> \in R
  BY <1>5, <1>6 DEF StrictSubsetOrdering
<1>. QED
  BY <1>4, <1>6, <1>7

(***************************************************************************)
(* Induction along a measure: what holds of x when it holds of all that    *)
(* measure less holds of everything.                                       *)
(***************************************************************************)
LEMMA MeasureInduction ==
  ASSUME NEW S, NEW m \in [S -> Nat], NEW P,
         \A x \in S : (\A y \in S : m[y] < m[x] => y \in P) => x \in P
  PROVE  S \subseteq P
<1>. DEFINE T == {n \in Nat : \A x \in S : m[x] < n => x \in P}
<1>1. 0 \in T
  OBVIOUS
<1>2. ASSUME NEW n \in Nat, n \in T
      PROVE  n + 1 \in T
  <2>. SUFFICES ASSUME NEW x \in S, m[x] < n + 1 PROVE x \in P
    OBVIOUS
  <2>1. \A y \in S : m[y] < m[x] => y \in P
    BY <1>2
  <2>. QED
    BY <2>1
<1>3. Nat \subseteq T
  <2>. HIDE DEF T
  <2>. QED
    BY <1>1, <1>2, SetInduction
<1>. QED
  <2>. SUFFICES ASSUME NEW x \in S PROVE x \in P
    OBVIOUS
  <2>1. m[x] + 1 \in T
    BY <1>3
  <2>. QED
    BY <2>1

(***************************************************************************)
(* Every non-empty set of natural numbers has a least element.             *)
(***************************************************************************)
LEMMA LeastElement ==
  ASSUME NEW S \in SUBSET Nat, S # {}
  PROVE  \E n \in S : \A k \in S : n <= k
<1>. DEFINE P == {n \in Nat : n \notin S}
<1>1. SUFFICES ASSUME \A n \in S : \E k \in S : k < n PROVE FALSE
  OBVIOUS
<1>. DEFINE id == [i \in Nat |-> i]
<1>2. \A n \in Nat : (\A k \in Nat : id[k] < id[n] => k \in P) => n \in P
  BY <1>1
<1>3. id \in [Nat -> Nat]
  OBVIOUS
<1>4. Nat \subseteq P
  <2>. HIDE DEF P, id
  <2>. QED
    BY <1>2, <1>3, MeasureInduction
<1>. QED
  BY <1>4

-----------------------------------------------------------------------------
(***************************************************************************)
(* Induction along a relation: R is Inductive if what holds of x when it   *)
(* holds of all below x holds of everything.  A measure that shrinks is    *)
(* such a relation, and so are two of them in lexicographic order.         *)
(***************************************************************************)
Inductive(R, S) ==
  \A P \in SUBSET S :
    (\A x \in S : (\A y \in S : <<y, x>> \in R => y \in P) => x \in P) => P = S

Transitive(R, S) ==
  \A x, y, z \in S : <<x, y>> \in R /\ <<y, z>> \in R => <<x, z>> \in R

Shrinks(S, m) == {p \in S \X S : m[p[1]] < m[p[2]]}

ShrinksLex(S, l, m) ==
  {p \in S \X S : \/ l[p[1]] < l[p[2]]
                  \/ l[p[1]] = l[p[2]] /\ m[p[1]] < m[p[2]]}

\* There is induction along a measure.
LEMMA MeasureInductive ==
  ASSUME NEW S, NEW m \in [S -> Nat]
  PROVE  Inductive(Shrinks(S, m), S)
<1>. SUFFICES ASSUME NEW P \in SUBSET S,
                     \A x \in S : (\A y \in S : <<y, x>> \in Shrinks(S, m) => y \in P) => x \in P
              PROVE  S \subseteq P
  BY DEF Inductive
<1>1. \A x \in S : (\A y \in S : m[y] < m[x] => y \in P) => x \in P
  BY DEF Shrinks
<1>. QED
  BY <1>1, MeasureInduction

\* And along two measures, the first before the second.
LEMMA LexInductive ==
  ASSUME NEW S, NEW l \in [S -> Nat], NEW m \in [S -> Nat]
  PROVE  Inductive(ShrinksLex(S, l, m), S)
<1>. SUFFICES ASSUME NEW P \in SUBSET S,
                     \A x \in S : (\A y \in S : <<y, x>> \in ShrinksLex(S, l, m) => y \in P) => x \in P,
                     P # S
              PROVE  FALSE
  BY DEF Inductive
<1>. DEFINE left == {x \in S : x \notin P}
            least == {l[x] : x \in left}
<1>1. PICK n \in least : \A k \in least : n <= k
  <2>1. least \in SUBSET Nat /\ least # {}
    OBVIOUS
  <2>. HIDE DEF least
  <2>. QED
    BY <2>1, LeastElement
<1>. DEFINE low == {m[x] : x \in {y \in left : l[y] = n}}
<1>2. PICK k \in low : \A j \in low : k <= j
  <2>1. low \in SUBSET Nat /\ low # {}
    BY <1>1
  <2>. HIDE DEF low
  <2>. QED
    BY <2>1, LeastElement
<1>3. PICK x \in left : l[x] = n /\ m[x] = k
  BY <1>2
<1>4. ASSUME NEW y \in S, <<y, x>> \in ShrinksLex(S, l, m)
      PROVE  y \in P
  <2>1. \/ l[y] < l[x]
        \/ l[y] = l[x] /\ m[y] < m[x]
    BY <1>4 DEF ShrinksLex
  <2>2. SUFFICES ASSUME y \in left PROVE FALSE
    OBVIOUS
  <2>3. l[y] \in least /\ l[y] \in Nat /\ m[y] \in Nat
    BY <2>2
  <2>4. n <= l[y] /\ l[x] = n
    BY <1>1, <1>3, <2>3
  <2>5. l[y] = n
    BY <2>1, <2>3, <2>4
  <2>6. m[y] \in low
    BY <2>2, <2>5
  <2>7. m[x] <= m[y]
    BY <1>2, <1>3, <2>6
  <2>. QED
    BY <1>3, <2>1, <2>3, <2>5, <2>4, <2>7
<1>. QED
  BY <1>3, <1>4

-----------------------------------------------------------------------------
(***************************************************************************)
(* F[g] at x depends only on g below x.                                    *)
(***************************************************************************)
ReadsBelow(F, R, S, T) ==
  /\ F \in [[S -> T] -> [S -> T]]
  /\ \A g, h \in [S -> T], x \in S :
       (\A y \in S : <<y, x>> \in R => g[y] = h[y]) => F[g][x] = F[h][x]

(***************************************************************************)
(* A recursive definition f[x \in S] == F[f][x] defines a function when F   *)
(* reads f at x only below x.  Good(x) are the functions that satisfy the  *)
(* definition at x and below; any two agree there.                         *)
(***************************************************************************)
LEMMA RecursiveFunction ==
  ASSUME NEW S, NEW T, T # {}, NEW R, Inductive(R, S), Transitive(R, S),
         NEW F, ReadsBelow(F, R, S, T)
  PROVE  \E f \in [S -> T] : f = F[f]
<1>. DEFINE Good(x) == {g \in [S -> T] :
              \A y \in S : (y = x \/ <<y, x>> \in R) => F[g][y] = g[y]}
            P == {x \in S : Good(x) # {}}
            pick(x) == CHOOSE g : g \in Good(x)
            f == [x \in S |-> IF x \in P THEN pick(x)[x] ELSE CHOOSE t \in T : TRUE]
<1>1. F \in [[S -> T] -> [S -> T]]
  BY DEF ReadsBelow
<1>2. \A x \in P : pick(x) \in Good(x)
  OBVIOUS
<1>3. f \in [S -> T]
  <2>. SUFFICES ASSUME NEW x \in S PROVE f[x] \in T
    OBVIOUS
  <2>1. CASE x \in P
    BY <1>2, <2>1
  <2>2. CASE x \notin P
    BY <2>2
  <2>. QED
    BY <2>1, <2>2
<1>. HIDE DEF pick
<1>4. ASSUME NEW x \in S, NEW g \in Good(x), NEW z \in S, NEW h \in Good(z)
      PROVE  \A y \in S : (y = x \/ <<y, x>> \in R) /\ (y = z \/ <<y, z>> \in R) => g[y] = h[y]
  <2>. DEFINE Q == {y \in S : (y = x \/ <<y, x>> \in R) /\ (y = z \/ <<y, z>> \in R) => g[y] = h[y]}
  <2>1. ASSUME NEW y \in S, \A w \in S : <<w, y>> \in R => w \in Q
        PROVE  y \in Q
    <3>. SUFFICES ASSUME y = x \/ <<y, x>> \in R, y = z \/ <<y, z>> \in R PROVE g[y] = h[y]
      OBVIOUS
    <3>1. \A w \in S : <<w, y>> \in R => g[w] = h[w]
      BY <2>1 DEF Transitive
    <3>2. F[g][y] = F[h][y]
      BY <3>1 DEF ReadsBelow
    <3>. QED
      BY <3>2
  <2>2. Q = S
    <3>1. Q \in SUBSET S
      OBVIOUS
    <3>. HIDE DEF Q
    <3>. QED
      BY <2>1, <3>1 DEF Inductive
  <2>. QED
    BY <2>2
<1>5. ASSUME NEW x \in P, NEW y \in S, <<y, x>> \in R
      PROVE  y \in P /\ f[y] = pick(x)[y]
  <2>1. pick(x) \in Good(x) /\ x \in S
    BY <1>2
  <2>2. pick(x) \in Good(y)
    BY <1>5, <2>1 DEF Transitive
  <2>3. y \in P /\ pick(y) \in Good(y)
    BY <1>2, <2>2
  <2>4. pick(y)[y] = pick(x)[y]
    BY <1>4, <2>2, <2>3
  <2>. QED
    BY <2>3, <2>4
<1>6. ASSUME NEW x \in P
      PROVE  F[f][x] = f[x]
  <2>1. pick(x) \in Good(x) /\ x \in S /\ f[x] = pick(x)[x]
    BY <1>2
  <2>2. \A y \in S : <<y, x>> \in R => f[y] = pick(x)[y]
    BY <1>5
  <2>3. F[f][x] = F[pick(x)][x]
    <3>1. pick(x) \in [S -> T]
      BY <2>1
    <3>. HIDE DEF f, Good
    <3>. QED
      BY <1>3, <2>1, <2>2, <3>1 DEF ReadsBelow
  <2>. QED
    BY <2>1, <2>3
<1>7. ASSUME NEW x \in S, \A y \in S : <<y, x>> \in R => y \in P
      PROVE  x \in P
  <2>. DEFINE g == F[f]
  <2>1. g \in [S -> T]
    BY <1>1, <1>3
  <2>2. \A y \in S : <<y, x>> \in R => g[y] = f[y]
    BY <1>6, <1>7
  <2>3. ASSUME NEW y \in S, y = x \/ <<y, x>> \in R
        PROVE  F[g][y] = g[y]
    <3>1. \A w \in S : <<w, y>> \in R => g[w] = f[w]
      BY <2>2, <2>3 DEF Transitive
    <3>. HIDE DEF f
    <3>. QED
      BY <1>3, <2>1, <3>1 DEF ReadsBelow
  <2>4. g \in Good(x)
    BY <2>1, <2>3
  <2>. QED
    BY <2>4
<1>8. P = S
  <2>1. P \in SUBSET S
    OBVIOUS
  <2>. HIDE DEF P
  <2>. QED
    BY <1>7, <2>1 DEF Inductive
<1>9. F[f] = f
  <2>1. \A x \in S : F[f][x] = f[x]
    BY <1>6, <1>8
  <2>2. F[f] \in [S -> T]
    BY <1>1, <1>3
  <2>. HIDE DEF f
  <2>. QED
    BY <1>3, <2>1, <2>2
<1>. QED
  BY <1>3, <1>9

(***************************************************************************)
(* The same along a measure.                                               *)
(***************************************************************************)
Contractive(F, m, S, T) ==
  /\ F \in [[S -> T] -> [S -> T]]
  /\ \A g, h \in [S -> T], x \in S :
       (\A y \in S : m[y] < m[x] => g[y] = h[y]) => F[g][x] = F[h][x]

\* A contractive definition has a function that satisfies it.
LEMMA FixedPoint ==
  ASSUME NEW S, NEW T, T # {}, NEW m \in [S -> Nat], NEW F, Contractive(F, m, S, T)
  PROVE  \E f \in [S -> T] : f = F[f]
<1>1. ReadsBelow(F, Shrinks(S, m), S, T)
  <2>1. \A x, y \in S : m[y] < m[x] => <<y, x>> \in Shrinks(S, m)
    BY DEF Shrinks
  <2>. QED
    BY <2>1, ZenonT(60) DEF Contractive, ReadsBelow
<1>2. Transitive(Shrinks(S, m), S)
  BY DEF Transitive, Shrinks
<1>. QED
  BY <1>1, <1>2, MeasureInductive, RecursiveFunction

=============================================================================
