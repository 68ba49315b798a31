--------------------------- MODULE OperationsProofs ---------------------------
(***************************************************************************)
(* The settings of a gym behind their caches, a competition being set up   *)
(* and ranked, what is told by way of the job queue, the backups, the      *)
(* migrations and the path of a request, for any number of instances,      *)
(* people and processes.  What is summed or sorted is shown by the least   *)
(* counterexample there would be: NaturalsHaveALeast takes the place of an *)
(* induction.                                                              *)
(***************************************************************************)
EXTENDS MCOperations, FiniteSetTheorems, TLAPS

-----------------------------------------------------------------------------
(* The greatest of finitely many numbers. *)

LEMMA NaturalsHaveALeast ==
    ASSUME NEW T, T \subseteq Nat, T # {}
    PROVE  \E n \in T : \A m \in T : n <= m
<1> DEFINE R == {ss \in Nat \X Nat : ss[1] < ss[2]}
<1>1. OpToRel(<, Nat) = R
  BY DEF OpToRel
<1>2. IsWellFoundedOn(R, Nat)
  BY <1>1, NatLessThanWellFounded
<1> HIDE DEF R
<1>3. PICK n \in T : \A m \in T : <<m, n>> \notin R
  BY <1>2, WFMin, Zenon
<1>4. \A m \in T : ~(m < n)
  BY <1>3 DEF R
<1>5. QED
  BY <1>4

\* The element that the fewest exceed is the greatest.
LEMMA FiniteMax ==
    ASSUME NEW S, IsFiniteSet(S), S \subseteq Int, S # {}
    PROVE  Max(S) \in S /\ \A x \in S : x <= Max(S)
<1> DEFINE Above(x) == {y \in S : y > x}
           T == {Cardinality(Above(x)) : x \in S}
<1>1. \A x \in S : IsFiniteSet(Above(x)) /\ Cardinality(Above(x)) \in Nat
  BY FS_Subset, FS_CardinalityType
<1>2. T \subseteq Nat /\ T # {}
  BY <1>1
<1>3. PICK n \in T : \A m \in T : n <= m
  <2> HIDE DEF T
  <2>1. QED
    BY <1>2, NaturalsHaveALeast
<1>4. PICK x \in S : n = Cardinality(Above(x))
  OBVIOUS
<1>5. ASSUME NEW y \in S, y > x
      PROVE  FALSE
  <2>1. Above(y) \subseteq Above(x) /\ y \in Above(x) /\ y \notin Above(y)
    <3>1. x \in Int /\ y \in Int /\ ~(y > y)
      OBVIOUS
    <3>2. \A z \in S : z \in Int /\ (z > y => z > x)
      BY <1>5, <3>1
    <3>3. QED
      BY <1>5, <3>1, <3>2, Zenon
  <2>2. Cardinality(Above(y)) <= Cardinality(Above(x)) /\ Cardinality(Above(y)) # n
    BY <1>1, <1>4, <2>1, FS_Subset
  <2>3. n <= Cardinality(Above(y))
    BY <1>3
  <2> HIDE DEF Above, T
  <2>4. QED
    BY <1>1, <1>4, <2>2, <2>3
<1>6. \A y \in S : x >= y
  BY <1>5
<1>7. Max(S) \in S /\ \A y \in S : Max(S) >= y
  BY <1>6 DEF Max
<1>8. QED
  BY <1>7

-----------------------------------------------------------------------------
(* Sums over finite sets. *)

\* Induction over the size of a finite set, of a set of its subsets.
LEMMA FiniteInduction ==
    ASSUME NEW S, IsFiniteSet(S), NEW F, {} \in F,
           \A R \in SUBSET S : \A x \in S \ R : R \in F => R \cup {x} \in F
    PROVE  S \in F
<1> DEFINE Left(R) == Cardinality(S \ R)
           T == {Left(R) : R \in F \cap SUBSET S}
<1>1. \A R \in SUBSET S : IsFiniteSet(S \ R) /\ Left(R) \in Nat
  BY FS_Difference, FS_CardinalityType
<1>2. T \subseteq Nat /\ T # {}
  BY <1>1
<1> HIDE DEF T
<1>3. PICK n \in T : \A m \in T : n <= m
  BY <1>2, NaturalsHaveALeast
<1>4. PICK R \in F \cap SUBSET S : n = Left(R)
  BY DEF T
<1>5. ASSUME NEW x \in S \ R
      PROVE  FALSE
  <2>1. R \cup {x} \in F \cap SUBSET S
    BY <1>5
  <2>2. S \ (R \cup {x}) = (S \ R) \ {x}
    OBVIOUS
  <2>3. Left(R \cup {x}) = Left(R) - 1
    <3>1. x \in S \ R /\ IsFiniteSet(S \ R)
      BY <1>1, <1>5
    <3>2. Cardinality((S \ R) \ {x}) = Cardinality(S \ R) - 1
      BY <3>1, FS_RemoveElement
    <3>3. QED
      BY <2>2, <3>2
  <2>4. Left(R \cup {x}) \in T
    BY <2>1 DEF T
  <2>5. Left(R) \in Nat /\ n <= Left(R \cup {x})
    BY <1>1, <1>3, <2>4
  <2>6. QED
    BY <1>4, <2>3, <2>5
<1>6. R = S
  BY <1>5
<1>7. QED
  BY <1>6

\* The function by which a sum over the subsets of S is computed.
Adds(it, f, S) ==
    it = [s \in SUBSET S |-> IF s = {} THEN 0
                             ELSE f[CHOOSE x \in s : TRUE] + it[s \ {CHOOSE x \in s : TRUE}]]

LEMMA SumIsComputed ==
    ASSUME NEW f, NEW S
    PROVE  SumFunctionOnSet(f, S) = (CHOOSE it : Adds(it, f, S))[S]
  BY DEF SumFunctionOnSet, FoldFunctionOnSet, MapThenFoldSet, Adds

LEMMA SumsBegin ==
    ASSUME NEW f, NEW S, NEW it, Adds(it, f, S)
    PROVE  it[{}] = 0
  BY DEF Adds

LEMMA SumsUnfold ==
    ASSUME NEW f, NEW S, NEW it, Adds(it, f, S), NEW s \in SUBSET S
    PROVE  s # {} => LET c == CHOOSE x \in s : TRUE
                     IN  c \in s /\ it[s] = f[c] + it[s \ {c}]
<1>1. it[s] = IF s = {} THEN 0
              ELSE f[CHOOSE x \in s : TRUE] + it[s \ {CHOOSE x \in s : TRUE}]
  BY DEF Adds
<1>2. s # {} => (CHOOSE x \in s : TRUE) \in s
  OBVIOUS
<1>3. QED
  BY <1>1, <1>2

\* Two such functions agree where both are defined.
LEMMA SumsAgree ==
    ASSUME NEW f, NEW g, NEW S, NEW R, R \subseteq S, IsFiniteSet(R),
           \A x \in R : f[x] = g[x],
           NEW it, Adds(it, f, S), NEW jt, Adds(jt, g, R)
    PROVE  it[R] = jt[R]
<1> DEFINE Same(n) == \A s \in SUBSET R : Cardinality(s) = n => it[s] = jt[s]
           T == {n \in Nat : ~Same(n)}
<1>1. \A s \in SUBSET R : IsFiniteSet(s) /\ Cardinality(s) \in Nat
  BY FS_Subset, FS_CardinalityType
<1>2. ASSUME T # {}
      PROVE  FALSE
  <2>1. T \subseteq Nat
    OBVIOUS
  <2> HIDE DEF T
  <2>2. PICK n \in T : \A m \in T : n <= m
    BY <1>2, <2>1, NaturalsHaveALeast
  <2>3. PICK s \in SUBSET R : Cardinality(s) = n /\ it[s] # jt[s]
    BY <2>2 DEF T
  <2>4. s \in SUBSET S
    OBVIOUS
  <2> DEFINE c == CHOOSE x \in s : TRUE
  <2>5. s # {}
    <3>1. it[{}] = 0 /\ jt[{}] = 0
      BY SumsBegin
    <3>2. QED
      BY <2>3, <3>1
  <2>6. /\ c \in s /\ it[s] = f[c] + it[s \ {c}]
        /\ jt[s] = g[c] + jt[s \ {c}]
    <3>1. c \in s /\ it[s] = f[c] + it[s \ {c}]
      BY <2>4, <2>5, SumsUnfold
    <3>2. jt[s] = g[c] + jt[s \ {c}]
      BY <2>5, SumsUnfold
    <3>3. QED
      BY <3>1, <3>2
  <2> HIDE DEF c
  <2>7. Cardinality(s \ {c}) = n - 1 /\ n - 1 \in Nat
    <3>1. Cardinality(s \ {c}) = Cardinality(s) - 1
      BY <1>1, <2>6, FS_RemoveElement
    <3>2. Cardinality(s \ {c}) \in Nat
      BY <1>1
    <3>3. QED
      BY <2>3, <3>1, <3>2
  <2>8. n - 1 \notin T
    BY <2>1, <2>2
  <2>9. it[s \ {c}] = jt[s \ {c}]
    BY <2>7, <2>8 DEF T
  <2>10. QED
    BY <2>3, <2>6, <2>9
<1>3. QED
  BY <1>1, <1>2

\* There is one, for a finite set.
LEMMA SumsExist ==
    ASSUME NEW f, NEW S, IsFiniteSet(S)
    PROVE  Adds(CHOOSE it : Adds(it, f, S), f, S)
<1> DEFINE Small(n) == {s \in SUBSET S : Cardinality(s) <= n}
           Upto(it, n) ==
             it = [s \in Small(n) |-> IF s = {} THEN 0
                     ELSE f[CHOOSE x \in s : TRUE] + it[s \ {CHOOSE x \in s : TRUE}]]
           T == {n \in Nat : ~\E it : Upto(it, n)}
<1>1. \A s \in SUBSET S : IsFiniteSet(s) /\ Cardinality(s) \in Nat
  BY FS_Subset, FS_CardinalityType
<1>2. \A n \in Nat : \A s \in Small(n + 1) : s # {} =>
         s \ {CHOOSE x \in s : TRUE} \in Small(n)
  <2> SUFFICES ASSUME NEW n \in Nat, NEW s \in Small(n + 1), s # {}
               PROVE  s \ {CHOOSE x \in s : TRUE} \in Small(n)
    OBVIOUS
  <2>1. (CHOOSE x \in s : TRUE) \in s
    OBVIOUS
  <2>2. \A x \in s : Cardinality(s \ {x}) = Cardinality(s) - 1
    BY <1>1, FS_RemoveElement
  <2>3. Cardinality(s \ {CHOOSE x \in s : TRUE}) <= n
    <3>1. Cardinality(s) \in Nat /\ Cardinality(s) <= n + 1
      BY <1>1
    <3>2. Cardinality(s \ {CHOOSE x \in s : TRUE}) = Cardinality(s) - 1
      BY <2>1, <2>2, Zenon
    <3> HIDE DEF Small
    <3>3. QED
      BY <3>1, <3>2
  <2>4. QED
    BY <2>3
<1>3. T = {}
  <2>1. SUFFICES ASSUME T # {}
                 PROVE  FALSE
    OBVIOUS
  <2>2. T \subseteq Nat
    OBVIOUS
  <2>3. PICK n \in T : \A m \in T : n <= m
    <3> HIDE DEF T
    <3>1. QED
      BY <2>1, <2>2, NaturalsHaveALeast
  <2>4. ASSUME n = 0
        PROVE  FALSE
    <3> DEFINE it == [s \in Small(0) |-> 0]
    <3>1. \A s \in Small(0) : s = {}
      BY <1>1, FS_EmptySet
    <3>2. Upto(it, 0)
      BY <3>1
    <3>3. QED
      BY <2>3, <2>4, <3>2
  <2>5. ASSUME n # 0
        PROVE  FALSE
    <3>1. n - 1 \in Nat /\ n - 1 \notin T /\ n = (n - 1) + 1
      <4> HIDE DEF T
      <4>1. QED
        BY <2>2, <2>3, <2>5
    <3>2. PICK it : Upto(it, n - 1)
      BY <3>1
    <3> DEFINE jt == [s \in Small(n) |-> IF s = {} THEN 0
                        ELSE f[CHOOSE x \in s : TRUE] + it[s \ {CHOOSE x \in s : TRUE}]]
    <3>3. Small(n - 1) \subseteq Small(n)
      BY <1>1, <3>1
    <3>4. \A s \in Small(n - 1) : jt[s] = it[s]
      BY <3>2, <3>3
    <3>5. \A s \in Small(n) : s # {} => s \ {CHOOSE x \in s : TRUE} \in Small(n - 1)
      BY <1>2, <3>1
    <3>6. \A s \in Small(n) : jt[s] = IF s = {} THEN 0
                        ELSE f[CHOOSE x \in s : TRUE] + jt[s \ {CHOOSE x \in s : TRUE}]
      <4>1. ASSUME NEW s \in Small(n), s # {}
            PROVE  jt[s] = f[CHOOSE x \in s : TRUE] + jt[s \ {CHOOSE x \in s : TRUE}]
        <5>1. jt[s] = f[CHOOSE x \in s : TRUE] + it[s \ {CHOOSE x \in s : TRUE}]
          BY <4>1
        <5> HIDE DEF jt, Small
        <5>2. QED
          BY <3>4, <3>5, <4>1, <5>1
      <4>2. \A s \in Small(n) : s = {} => jt[s] = 0
        OBVIOUS
      <4> HIDE DEF jt, Small
      <4>3. QED
        BY <4>1, <4>2
    <3>7. Upto(jt, n)
      <4>1. DOMAIN jt = Small(n) /\ jt = [s \in Small(n) |-> jt[s]]
        <5> HIDE DEF Small
        <5>1. QED
          OBVIOUS
      <4> HIDE DEF jt, Small
      <4>2. QED
        BY <3>6, <4>1
    <3>8. QED
      BY <2>3, <3>7
  <2>6. QED
    BY <2>4, <2>5
<1>4. PICK it : Upto(it, Cardinality(S))
  BY <1>1, <1>3
<1>5. Small(Cardinality(S)) = SUBSET S
  BY <1>1, FS_Subset
<1>6. Adds(it, f, S)
  BY <1>4, <1>5 DEF Adds
<1>7. QED
  BY <1>6

LEMMA SumOfNone ==
    ASSUME NEW f
    PROVE  SumFunctionOnSet(f, {}) = 0
  BY SumIsComputed, SumsExist, SumsBegin, FS_EmptySet

LEMMA SumTakesOne ==
    ASSUME NEW f, NEW S, IsFiniteSet(S), S # {}
    PROVE  \E c \in S : SumFunctionOnSet(f, S) = f[c] + SumFunctionOnSet(f, S \ {c})
<1> DEFINE it == CHOOSE x : Adds(x, f, S)
           c == CHOOSE x \in S : TRUE
           jt == CHOOSE x : Adds(x, f, S \ {c})
<1>1. Adds(it, f, S) /\ IsFiniteSet(S \ {c})
  BY SumsExist, FS_RemoveElement
<1>2. Adds(jt, f, S \ {c})
  BY <1>1, SumsExist
<1>3. SumFunctionOnSet(f, S) = it[S] /\ SumFunctionOnSet(f, S \ {c}) = jt[S \ {c}]
  BY SumIsComputed
<1> HIDE DEF it, jt
<1>4. c \in S /\ it[S] = f[c] + it[S \ {c}]
  BY <1>1, SumsUnfold
<1>5. it[S \ {c}] = jt[S \ {c}]
  BY <1>1, <1>2, SumsAgree
<1>6. QED
  BY <1>3, <1>4, <1>5

\* A sum depends on what is summed.
LEMMA SumsAreAlike ==
    ASSUME NEW f, NEW g, NEW S, IsFiniteSet(S), \A x \in S : f[x] = g[x]
    PROVE  SumFunctionOnSet(f, S) = SumFunctionOnSet(g, S)
<1>1. Adds(CHOOSE it : Adds(it, f, S), f, S) /\ Adds(CHOOSE it : Adds(it, g, S), g, S)
  BY SumsExist
<1>2. QED
  BY <1>1, SumsAgree, SumIsComputed

\* The order does not matter: any element may be taken out first.
LEMMA SumTakesAny ==
    ASSUME NEW f, NEW S, IsFiniteSet(S), \A x \in S : f[x] \in Int
    PROVE  /\ SumFunctionOnSet(f, S) \in Int
           /\ \A x \in S : SumFunctionOnSet(f, S) = f[x] + SumFunctionOnSet(f, S \ {x})
<1> DEFINE Sum(R) == SumFunctionOnSet(f, R)
           Whichever(R) == Sum(R) \in Int /\ \A x \in R : Sum(R) = f[x] + Sum(R \ {x})
           T == {n \in Nat : \E R \in SUBSET S : Cardinality(R) = n /\ ~Whichever(R)}
<1>1. \A R \in SUBSET S : /\ IsFiniteSet(R) /\ Cardinality(R) \in Nat
                          /\ \A x \in R : Cardinality(R \ {x}) = Cardinality(R) - 1
  BY FS_Subset, FS_CardinalityType, FS_RemoveElement
<1>2. T = {}
  <2>1. SUFFICES ASSUME T # {}
                 PROVE  FALSE
    OBVIOUS
  <2>2. PICK n \in T : \A m \in T : n <= m
    <3>1. T \subseteq Nat
      OBVIOUS
    <3> HIDE DEF T
    <3>2. QED
      BY <2>1, <3>1, NaturalsHaveALeast
  <2>3. PICK R \in SUBSET S : Cardinality(R) = n /\ ~Whichever(R)
    BY <2>2
  <2>4. R # {}
    <3>1. Whichever({})
      BY SumOfNone
    <3> HIDE DEF Whichever
    <3>2. QED
      BY <2>3, <3>1
  <2>5. ASSUME NEW x \in R
        PROVE  Whichever(R \ {x})
    <3>1. Cardinality(R \ {x}) = n - 1 /\ R \ {x} \in SUBSET S
      BY <1>1, <2>3
    <3>2. Cardinality(R \ {x}) \in Nat /\ Cardinality(R \ {x}) \notin T
      <4>1. Cardinality(R \ {x}) \in Nat
        BY <1>1, <3>1
      <4> HIDE DEF T
      <4>2. n \in Nat
        BY <1>1, <2>3
      <4>3. QED
        BY <2>2, <3>1, <4>1, <4>2
    <3>3. QED
      BY <3>1, <3>2
  <2> HIDE DEF T
  <2>6. PICK c \in R : Sum(R) = f[c] + Sum(R \ {c})
    BY <1>1, <2>4, SumTakesOne
  <2>7. f[c] \in Int /\ Sum(R \ {c}) \in Int
    BY <2>5
  <2>8. ASSUME NEW x \in R
        PROVE  Sum(R) = f[x] + Sum(R \ {x})
    <3>1. CASE x = c
      BY <2>6, <3>1
    <3>2. CASE x # c
      <4>1. Sum(R \ {c}) = f[x] + Sum((R \ {c}) \ {x})
        BY <2>5, <3>2
      <4>2. Sum(R \ {x}) = f[c] + Sum((R \ {x}) \ {c}) /\ Sum(R \ {x}) \in Int
        BY <2>5, <3>2
      <4>3. (R \ {x}) \ {c} = (R \ {c}) \ {x}
        OBVIOUS
      <4>4. Sum((R \ {c}) \ {x}) \in Int
        <5>1. Whichever((R \ {c}) \ {x})
          <6>1. (R \ {c}) \ {x} \in SUBSET S /\ IsFiniteSet(R \ {c})
            BY <1>1, FS_RemoveElement
          <6>2. Cardinality((R \ {c}) \ {x}) = n - 2 /\ n - 2 \in Nat
            <7>1. Cardinality(R \ {c}) = n - 1 /\ x \in R \ {c} /\ R \ {c} \in SUBSET S
              BY <1>1, <2>3, <3>2
            <7>2. Cardinality((R \ {c}) \ {x}) = (n - 1) - 1
              BY <1>1, <7>1
            <7>3. n \in Nat /\ Cardinality((R \ {c}) \ {x}) \in Nat
              BY <1>1, <2>3, <6>1
            <7>4. QED
              BY <7>2, <7>3
          <6>3. n - 2 \notin T
            BY <2>2, <6>2, <1>1, <2>3
          <6>4. QED
            BY <6>1, <6>2, <6>3 DEF T
        <5>2. QED
          BY <5>1
      <4>5. f[x] \in Int
        OBVIOUS
      <4>6. Sum((R \ {x}) \ {c}) = Sum((R \ {c}) \ {x})
        BY <4>3
      <4> HIDE DEF Sum
      <4>7. QED
        BY <2>6, <2>7, <4>1, <4>2, <4>4, <4>5, <4>6
    <3>3. QED
      BY <3>1, <3>2
  <2>9. Sum(R) \in Int
    <3> HIDE DEF Sum
    <3>1. QED
      BY <2>6, <2>7
  <2>10. QED
    BY <2>3, <2>8, <2>9
<1>3. Whichever(S)
  BY <1>1, <1>2
<1>4. QED
  BY <1>3

LEMMA SumWithOne ==
    ASSUME NEW R, IsFiniteSet(R), NEW x, x \notin R, NEW f,
           \A y \in R \cup {x} : f[y] \in Int
    PROVE  /\ SumFunctionOnSet(f, R \cup {x}) = f[x] + SumFunctionOnSet(f, R)
           /\ SumFunctionOnSet(f, R) \in Int
<1> DEFINE Q == R \cup {x}
<1>1. IsFiniteSet(Q) /\ Q \ {x} = R /\ x \in Q
  BY FS_AddElement
<1>2. \A y \in Q : f[y] \in Int
  OBVIOUS
<1> HIDE DEF Q
<1>3. SumFunctionOnSet(f, Q) = f[x] + SumFunctionOnSet(f, Q \ {x})
  BY <1>1, <1>2, SumTakesAny
<1>4. SumFunctionOnSet(f, R) \in Int
  BY SumTakesAny
<1>5. QED
  BY <1>1, <1>3, <1>4 DEF Q

\* Adding d to one term adds it to the sum.
LEMMA SumOfChanged ==
    ASSUME NEW S, IsFiniteSet(S), NEW f, NEW g, NEW c \in S,
           \A x \in S : f[x] \in Int /\ g[x] \in Int,
           \A x \in S \ {c} : g[x] = f[x]
    PROVE  SumFunctionOnSet(g, S) = SumFunctionOnSet(f, S) + (g[c] - f[c])
<1>1. IsFiniteSet(S \ {c})
  BY FS_RemoveElement
<1>2. SumFunctionOnSet(f, S \ {c}) = SumFunctionOnSet(g, S \ {c})
  BY <1>1, SumsAreAlike
<1>3. SumFunctionOnSet(f, S) = f[c] + SumFunctionOnSet(f, S \ {c})
  BY SumTakesAny
<1>4. SumFunctionOnSet(g, S) = g[c] + SumFunctionOnSet(g, S \ {c})
  BY SumTakesAny
<1>5. SumFunctionOnSet(f, S \ {c}) \in Int
  BY <1>1, SumTakesAny
<1>6. QED
  BY <1>2, <1>3, <1>4, <1>5

\* Greater terms, greater sum.
LEMMA SumsAreMonotone ==
    ASSUME NEW S, IsFiniteSet(S), NEW f, NEW g,
           \A x \in S : f[x] \in Int /\ g[x] \in Int /\ f[x] <= g[x]
    PROVE  SumFunctionOnSet(f, S) <= SumFunctionOnSet(g, S)
<1> DEFINE F == {R \in SUBSET S : SumFunctionOnSet(f, R) <= SumFunctionOnSet(g, R)}
<1>1. {} \in F
  BY SumOfNone
<1>2. ASSUME NEW R \in SUBSET S, NEW x \in S \ R, R \in F
      PROVE  R \cup {x} \in F
  <2>1. IsFiniteSet(R) /\ x \notin R /\ R \cup {x} \in SUBSET S
    BY FS_Subset
  <2>2. /\ SumFunctionOnSet(f, R \cup {x}) = f[x] + SumFunctionOnSet(f, R)
        /\ SumFunctionOnSet(f, R) \in Int
    BY <2>1, SumWithOne
  <2>3. /\ SumFunctionOnSet(g, R \cup {x}) = g[x] + SumFunctionOnSet(g, R)
        /\ SumFunctionOnSet(g, R) \in Int
    BY <2>1, SumWithOne
  <2>4. SumFunctionOnSet(f, R) <= SumFunctionOnSet(g, R)
    BY <1>2
  <2>5. SumFunctionOnSet(f, R \cup {x}) <= SumFunctionOnSet(g, R \cup {x})
    BY <2>2, <2>3, <2>4
  <2>6. QED
    BY <2>1, <2>5
<1>3. S \in F
  <2> HIDE DEF F
  <2>1. QED
    BY <1>1, <1>2, FiniteInduction
<1>4. QED
  BY <1>3

LEMMA SumOfZeros ==
    ASSUME NEW S, IsFiniteSet(S)
    PROVE  SumFunctionOnSet([x \in S |-> 0], S) = 0
<1> DEFINE f == [x \in S |-> 0]
           F == {R \in SUBSET S : SumFunctionOnSet(f, R) = 0}
<1>1. {} \in F
  BY SumOfNone
<1>2. ASSUME NEW R \in SUBSET S, NEW x \in S \ R, R \in F
      PROVE  R \cup {x} \in F
  <2>1. IsFiniteSet(R) /\ x \notin R /\ R \cup {x} \in SUBSET S
    BY FS_Subset
  <2>2. f[x] = 0 /\ \A y \in R \cup {x} : f[y] \in Int
    OBVIOUS
  <2> HIDE DEF f
  <2>3. SumFunctionOnSet(f, R \cup {x}) = f[x] + SumFunctionOnSet(f, R)
    BY <2>1, <2>2, SumWithOne
  <2>4. QED
    BY <1>2, <2>1, <2>2, <2>3
<1>3. S \in F
  <2> HIDE DEF F
  <2>1. QED
    BY <1>1, <1>2, FiniteInduction
<1>4. QED
  BY <1>3

-----------------------------------------------------------------------------
(* Settings and their caches: module SettingsCache. *)

\* A copy that no write has overtaken is the stored document.
CopiesAreCurrent ==
    \A e \in Editors : HasCopy(e) /\ e \notin overtaken => editor[e].base = document

\* What a request is about where it is.
RequestsAreInPlace ==
    \A e \in Editors :
        /\ editor[e].at \in {"load", "fill"} => editor[e].op \in {"view", "preset"}
        /\ editor[e].at = "write" => editor[e].op \in {"preset", "replace"}

SettingsInv ==
    /\ RequestsAreInPlace
    /\ SettingsTypeOK /\ OwnEditsAreRead /\ EntriesAreCurrent /\ EditsSurvive /\ CopiesAreCurrent

LEMMA DocumentsAreOne ==
    /\ Defaults \in Document /\ Configured \in Document
    /\ Out \in [op : {"none", "view", "preset", "replace"},
                at : {"none", "load", "fill", "write", "invalidate"},
                on : Instances, base : Document]
<1> USE SettingsAssumption
<1>1. \A n \in 0 .. 1 : [version |-> 0, section |-> [s \in Sections |-> n]] \in Document
  BY DEF Document
<1>2. Defaults \in Document /\ Configured \in Document
  BY <1>1 DEF Defaults, Configured, Default
<1>3. (CHOOSE i \in Instances : TRUE) \in Instances
  OBVIOUS
<1>4. QED
  BY <1>2, <1>3 DEF Out

LEMMA SettingsBegin == SettingsInit => SettingsInv
<1> SUFFICES ASSUME SettingsInit
             PROVE  SettingsInv
  OBVIOUS
<1> USE SettingsAssumption DEF SettingsInit
<1>1. SettingsTypeOK
  <2>1. accepted \in [Sections -> 0 .. MaxEdits + 1]
    BY DocumentsAreOne DEF Document
  <2>2. /\ cached \in [Instances -> Document \cup {NotCached}]
        /\ own \in [Instances -> 0 .. MaxEdits] /\ late \in [Instances -> BOOLEAN]
        /\ overtaken \subseteq Editors /\ behind \subseteq Instances
    OBVIOUS
  <2>3. QED
    BY <2>1, <2>2, DocumentsAreOne DEF SettingsTypeOK
<1>2. /\ OwnEditsAreRead /\ EntriesAreCurrent /\ EditsSurvive /\ CopiesAreCurrent
      /\ RequestsAreInPlace
  BY DEF OwnEditsAreRead, EntriesAreCurrent, EditsSurvive, CopiesAreCurrent, HasCopy, Out,
         RequestsAreInPlace
<1>3. QED
  BY <1>1, <1>2 DEF SettingsInv

\* What a request goes on with keeps the requests' types.
LEMMA GoingOn ==
    ASSUME SettingsTypeOK, NEW e \in Editors, NEW i \in Instances,
           NEW op \in {"none", "view", "preset", "replace"},
           NEW step \in {"none", "load", "fill", "write", "invalidate"},
           NEW base \in Document, Goes(e, op, step, i, base)
    PROVE  editor' \in [Editors -> [op : {"none", "view", "preset", "replace"},
                                    at : {"none", "load", "fill", "write", "invalidate"},
                                    on : Instances, base : Document]]
<1>1. [op |-> op, at |-> step, on |-> i, base |-> base]
        \in [op : {"none", "view", "preset", "replace"},
             at : {"none", "load", "fill", "write", "invalidate"},
             on : Instances, base : Document]
  OBVIOUS
<1>2. QED
  BY <1>1, DocumentsAreOne DEF Goes, SettingsTypeOK

\* Where the requests are after one of them went on.
Went(e, op, step, base) ==
    /\ \A d \in Editors : d # e => editor'[d] = editor[d] /\ (HasCopy(d)' <=> HasCopy(d))
    /\ step = "none" => editor'[e].at = "none"
    /\ step # "none" =>
          editor'[e].op = op /\ editor'[e].at = step /\ editor'[e].base = base
    /\ HasCopy(e)' <=> step = "fill" \/ (op = "preset" /\ step = "write")

LEMMA OneGoesOn ==
    ASSUME SettingsTypeOK, NEW e \in Editors, NEW i \in Instances,
           NEW op \in {"none", "view", "preset", "replace"},
           NEW step \in {"none", "load", "fill", "write", "invalidate"},
           NEW base \in Document, Goes(e, op, step, i, base)
    PROVE  Went(e, op, step, base) /\ (step # "none" => editor'[e].on = i)
<1>1. \A d \in Editors : d # e => editor'[d] = editor[d]
  BY DEF Goes, SettingsTypeOK
<1>2. /\ step = "none" => editor'[e] = Out
      /\ step # "none" => editor'[e] = [op |-> op, at |-> step, on |-> i, base |-> base]
  BY DEF Goes, SettingsTypeOK
<1>3. \A d \in Editors : d # e => (HasCopy(d)' <=> HasCopy(d))
  BY <1>1 DEF HasCopy
<1>4. CASE step = "none"
  BY <1>1, <1>2, <1>3, <1>4 DEF Went, HasCopy, Out
<1>5. CASE step # "none"
  BY <1>1, <1>2, <1>3, <1>5 DEF Went, HasCopy
<1>6. QED
  BY <1>4, <1>5

\* Who goes on without an update or an invalidation leaves none waiting.
LEMMA NobodyInvalidates ==
    ASSUME NEW e \in Editors, NEW op, NEW base,
           NEW step \in {"none", "load", "fill", "write"},
           Went(e, op, step, base), editor[e].at # "invalidate"
    PROVE  \A j \in Instances : Pending(j)' <=> Pending(j)
<1>1. /\ editor'[e].at # "invalidate"
      /\ \A d \in Editors : d # e => editor'[d] = editor[d]
  BY DEF Went
<1>2. QED
  BY <1>1 DEF Pending

\* A request that read, failed or answered changes neither the document nor a cache;
\* the copy it goes on with is the stored one, or is known to be overtaken.
LEMMA RequestsOnlyRead ==
    ASSUME SettingsInv, NEW e \in Editors, NEW i \in Instances,
           NEW op \in {"none", "view", "preset", "replace"},
           NEW step \in {"none", "load", "fill", "write"},
           NEW base \in Document, Goes(e, op, step, i, base),
           editor[e].at # "invalidate", overtaken' \subseteq Editors,
           overtaken' \ {e} = overtaken \ {e},
           HasCopy(e)' /\ e \notin overtaken' => base = document,
           step \in {"load", "fill"} => op \in {"view", "preset"},
           step = "write" => op \in {"preset", "replace"},
           UNCHANGED <<document, cached, own, late, behind, accepted, stale>>
    PROVE  SettingsInv'
<1> USE DEF SettingsInv
<1>1. SettingsTypeOK'
  BY GoingOn DEF SettingsTypeOK
<1>2. OwnEditsAreRead' /\ EditsSurvive'
  BY DEF OwnEditsAreRead, EditsSurvive
<1>3. Went(e, op, step, base)
  BY OneGoesOn
<1>4. EntriesAreCurrent'
  BY <1>3, NobodyInvalidates DEF EntriesAreCurrent
<1>5. CopiesAreCurrent'
  <2> SUFFICES ASSUME NEW d \in Editors, HasCopy(d)', d \notin overtaken'
               PROVE  editor'[d].base = document
    BY DEF CopiesAreCurrent
  <2>1. CASE d = e
    BY <1>3, <2>1 DEF Went
  <2>2. CASE d # e
    BY <1>3, <2>2 DEF Went, CopiesAreCurrent
  <2>3. QED
    BY <2>1, <2>2
<1>6. RequestsAreInPlace'
  BY <1>3 DEF Went, RequestsAreInPlace
<1>7. QED
  BY <1>1, <1>2, <1>4, <1>5, <1>6

LEMMA FillingKeepsSettings ==
    ASSUME SettingsInv, NEW e \in Editors, Fill(e)
    PROVE  SettingsInv'
<1> USE DEF SettingsInv
<1> DEFINE r == editor[e]
<1>1. /\ r.op \in {"none", "view", "preset", "replace"} /\ r.on \in Instances
      /\ r.base \in Document
  BY DEF SettingsTypeOK
<1>2. /\ cached' = [cached EXCEPT ![r.on] = r.base]
      /\ late' = [late EXCEPT ![r.on] = r.base.version < own[r.on]]
      /\ behind' = IF e \in overtaken THEN behind \cup {r.on} ELSE behind \ {r.on}
      /\ overtaken' = IF r.op = "view" THEN overtaken \ {e} ELSE overtaken
      /\ Goes(e, r.op, Onward(r.op), r.on, r.base)
      /\ UNCHANGED <<document, own, accepted, stale>>
      /\ r.at = "fill" /\ editor[e].at = "fill" /\ HasCopy(e)
  BY DEF Fill, HasCopy
<1>3. /\ Onward(r.op) \in {"none", "load", "fill", "write", "invalidate"}
      /\ Onward(r.op) = IF r.op = "view" THEN "none" ELSE "write"
  BY DEF Onward
<1>4. /\ e \notin overtaken => r.base = document
      /\ Onward(r.op) = "write" => r.op = "preset"
  BY <1>2, <1>3 DEF CopiesAreCurrent, RequestsAreInPlace
<1> HIDE DEF r
<1>5. Went(e, r.op, Onward(r.op), r.base)
  BY <1>1, <1>2, <1>3, OneGoesOn
<1>6. SettingsTypeOK'
  <2>1. cached' \in [Instances -> Document \cup {NotCached}]
    BY <1>1, <1>2 DEF SettingsTypeOK
  <2>2. late' \in [Instances -> BOOLEAN]
    BY <1>1, <1>2 DEF SettingsTypeOK
  <2>3. overtaken' \subseteq Editors /\ behind' \subseteq Instances
    BY <1>1, <1>2 DEF SettingsTypeOK
  <2>4. QED
    BY <1>1, <1>2, <1>3, <2>1, <2>2, <2>3, GoingOn DEF SettingsTypeOK
\* The history notes an entry older than what was invalidated here.
<1>7. OwnEditsAreRead'
  <2>1. r.base.version \in Nat /\ own[r.on] \in Nat
    BY <1>1, SettingsAssumption DEF SettingsTypeOK, Document
  <2>2. SUFFICES ASSUME NEW i \in Instances, cached'[i] # NotCached, ~late'[i]
                 PROVE  cached'[i].version >= own'[i]
    BY DEF OwnEditsAreRead
  <2>3. CASE i = r.on
    <3>1. cached'[i] = r.base /\ own'[i] = own[r.on]
      BY <1>1, <1>2, <2>3 DEF SettingsTypeOK
    <3>2. late'[i] = (r.base.version < own[r.on])
      BY <1>1, <1>2, <2>3, Zenon DEF SettingsTypeOK
    <3>3. ~(r.base.version < own[r.on])
      BY <2>2, <3>2, Zenon
    <3>4. QED
      BY <2>1, <3>1, <3>3
  <2>4. CASE i # r.on
    BY <1>1, <1>2, <2>2, <2>4 DEF SettingsTypeOK, OwnEditsAreRead
  <2>5. QED
    BY <2>3, <2>4
<1>8. EditsSurvive'
  BY <1>2 DEF EditsSurvive
<1>9. EntriesAreCurrent'
  <2>1. \A i \in Instances : Pending(i)' <=> Pending(i)
    BY <1>2, <1>3, <1>5, NobodyInvalidates
  <2> SUFFICES ASSUME NEW i \in Instances, cached'[i] # NotCached, i \notin behind', ~Pending(i)'
               PROVE  cached'[i] = document
    BY <1>2 DEF EntriesAreCurrent
  <2>2. CASE i = r.on
    <3>1. cached'[r.on] = r.base
      BY ONLY <1>1, <1>2, SettingsTypeOK DEF SettingsTypeOK
    <3>2. r.on \in behind' <=> e \in overtaken
      BY ONLY <1>1, <1>2
    <3>3. QED
      BY ONLY <1>4, <2>2, <3>1, <3>2, i \notin behind'
  <2>3. CASE i # r.on
    BY <1>1, <1>2, <2>1, <2>3 DEF SettingsTypeOK, EntriesAreCurrent
  <2>4. QED
    BY <2>2, <2>3
<1>10. CopiesAreCurrent'
  <2> SUFFICES ASSUME NEW d \in Editors, HasCopy(d)', d \notin overtaken'
               PROVE  editor'[d].base = document
    BY <1>2 DEF CopiesAreCurrent
  <2>1. CASE d = e
    <3>1. HasCopy(e)' => r.op # "view" /\ editor'[e].base = r.base
      BY <1>3, <1>5, Zenon DEF Went
    <3>2. e \notin overtaken /\ editor'[e].base = r.base
      BY ONLY <1>2, <2>1, <3>1, HasCopy(d)', d \notin overtaken'
    <3>3. QED
      BY ONLY <1>4, <2>1, <3>2
  <2>2. CASE d # e
    <3>1. editor'[d] = editor[d] /\ HasCopy(d)
      BY <1>5, <2>2, Zenon DEF Went
    <3>2. d \notin overtaken
      BY ONLY <1>2, <2>2, d \notin overtaken'
    <3>3. QED
      BY ONLY <3>1, <3>2, d \in Editors, CopiesAreCurrent DEF CopiesAreCurrent
  <2>3. QED
    BY <2>1, <2>2
<1>11. RequestsAreInPlace'
  <2>1. /\ \A d \in Editors : d # e => editor'[d] = editor[d]
        /\ Onward(r.op) = "none" => editor'[e].at = "none"
        /\ Onward(r.op) = "write" => editor'[e].at = "write" /\ editor'[e].op = "preset"
    BY <1>4, <1>5, Zenon DEF Went
  <2>2. editor'[e].at = "none" \/ (editor'[e].at = "write" /\ editor'[e].op = "preset")
    BY ONLY <1>3, <2>1
  <2>3. RequestsAreInPlace
    OBVIOUS
  <2>4. QED
    BY ONLY <2>1, <2>2, <2>3 DEF RequestsAreInPlace
<1>12. QED
  BY <1>6, <1>7, <1>8, <1>9, <1>10, <1>11

LEMMA WritingKeepsSettings ==
    ASSUME SettingsInv, NEW e \in Editors, Write(e)
    PROVE  SettingsInv'
<1> USE DEF SettingsInv
<1> DEFINE r == editor[e]
           number == document.version + 2
<1>1. /\ r.op \in {"none", "view", "preset", "replace"} /\ r.on \in Instances
      /\ r.base \in Document /\ document \in Document
  BY DEF SettingsTypeOK
<1>2. /\ document.version \in Nat /\ document.version < MaxEdits /\ stale \in BOOLEAN
      /\ document.version + 1 \in 0 .. MaxEdits /\ number \in 0 .. MaxEdits + 1
      /\ (document.version + 1) + 1 = number
  BY <1>1, SettingsAssumption DEF Write, Document, SettingsTypeOK
<1>3. /\ document' = [version |-> document.version + 1,
                      section |-> Edited(r.base, Touched(r.op), number)]
      /\ accepted' = [s \in Sections |-> IF s \in Touched(r.op) THEN number ELSE accepted[s]]
      /\ stale' = (stale \/ e \in overtaken)
      /\ overtaken' = {d \in Editors \ {e} : HasCopy(d)}
      /\ \/ /\ Goes(e, r.op, "invalidate", r.on, document')
            /\ behind' = {i \in Instances : i \in behind \/ (i # r.on /\ cached[i] # NotCached)}
         \/ /\ Goes(e, r.op, "none", r.on, Defaults)
            /\ behind' = {i \in Instances : i \in behind \/ cached[i] # NotCached}
      /\ UNCHANGED <<cached, own, late>>
      /\ editor[e].at = "write" /\ r.op \in {"preset", "replace"}
  BY <1>2 DEF Write, RequestsAreInPlace
<1>4. Edited(r.base, Touched(r.op), number) \in [Sections -> 0 .. MaxEdits + 1]
  <2>1. r.base.section \in [Sections -> 0 .. MaxEdits + 1]
    BY <1>1 DEF Document
  <2> HIDE DEF r, number
  <2>2. QED
    BY <1>2, <2>1 DEF Edited
<1>5. accepted' \in [Sections -> 0 .. MaxEdits + 1]
  BY <1>2, <1>3 DEF SettingsTypeOK
<1>6. document' \in Document
  BY <1>2, <1>3, <1>4 DEF Document
<1>7. /\ \A d \in Editors : d # e => editor'[d] = editor[d] /\ (HasCopy(d)' <=> HasCopy(d))
      /\ ~HasCopy(e)' /\ editor'[e].at \in {"none", "invalidate"}
      /\ Goes(e, r.op, "invalidate", r.on, document') =>
            editor'[e].at = "invalidate" /\ editor'[e].on = r.on
  <2> HIDE DEF r
  <2>1. CASE Goes(e, r.op, "invalidate", r.on, document')
    BY <1>1, <1>6, <2>1, OneGoesOn DEF Went
  <2>2. CASE Goes(e, r.op, "none", r.on, Defaults) /\ ~Goes(e, r.op, "invalidate", r.on, document')
    BY <1>1, <2>2, OneGoesOn, DocumentsAreOne DEF Went
  <2>3. QED
    BY <1>3, <2>1, <2>2
<1>8. SettingsTypeOK'
  <2>1. stale' \in BOOLEAN /\ overtaken' \subseteq Editors /\ behind' \subseteq Instances
    BY <1>2, <1>3
  <2>2. editor' \in [Editors -> [op : {"none", "view", "preset", "replace"},
                                 at : {"none", "load", "fill", "write", "invalidate"},
                                 on : Instances, base : Document]]
    <3> HIDE DEF r
    <3>1. QED
      BY <1>1, <1>3, <1>6, GoingOn, DocumentsAreOne
  <2> HIDE DEF r, number
  <2>3. QED
    BY <1>1, <1>3, <1>5, <1>6, <2>1, <2>2 DEF SettingsTypeOK
<1>9. OwnEditsAreRead'
  BY <1>3 DEF OwnEditsAreRead
\* A replacement touches every section; a preset was written over the stored document,
\* or over a copy that is known to be overtaken.
<1>10. EditsSurvive'
  <2>1. SUFFICES ASSUME ~stale'
                 PROVE  document'.section = accepted'
    BY DEF EditsSurvive
  <2>2. document'.section = Edited(r.base, Touched(r.op), number)
    BY <1>3
  <2>3. CASE r.op = "replace"
    <3>1. Touched(r.op) = Sections
      BY <2>3 DEF Touched
    <3> HIDE DEF r, number
    <3>2. QED
      BY <1>3, <2>2, <3>1 DEF Edited
  <2>4. CASE r.op = "preset"
    <3>1. r.base = document /\ ~stale
      BY <1>3, <2>1, <2>4 DEF CopiesAreCurrent, HasCopy
    <3>2. r.base.section = accepted
      BY <3>1 DEF EditsSurvive
    <3> HIDE DEF r, number
    <3>3. QED
      BY <1>3, <2>2, <3>2 DEF Edited
  <2>5. QED
    BY <1>3, <2>3, <2>4
\* An entry that no writer is about to remove has been overtaken.
<1>11. EntriesAreCurrent'
  <2> SUFFICES ASSUME NEW i \in Instances, cached[i] # NotCached, i \notin behind', ~Pending(i)'
               PROVE  FALSE
    BY <1>3 DEF EntriesAreCurrent
  <2>1. CASE Goes(e, r.op, "none", r.on, Defaults)
            /\ behind' = {j \in Instances : j \in behind \/ cached[j] # NotCached}
    BY <2>1
  <2>2. CASE Goes(e, r.op, "invalidate", r.on, document')
            /\ behind' = {j \in Instances : j \in behind \/ (j # r.on /\ cached[j] # NotCached)}
    <3>1. i = r.on
      BY <2>2
    <3>2. editor'[e].at = "invalidate" /\ editor'[e].on = r.on
      BY <2>2, <1>7, Zenon
    <3>3. QED
      BY <3>1, <3>2 DEF Pending
  <2>3. QED
    BY <1>3, <2>1, <2>2
<1>12. CopiesAreCurrent'
  <2> SUFFICES ASSUME NEW d \in Editors, HasCopy(d)', d \notin overtaken'
               PROVE  FALSE
    BY DEF CopiesAreCurrent
  <2>1. d # e /\ HasCopy(d)
    BY <1>7, Zenon
  <2>2. QED
    BY <1>3, <2>1
<1>13. RequestsAreInPlace'
  <2>1. RequestsAreInPlace
    OBVIOUS
  <2>2. \A d \in Editors : d # e => editor'[d] = editor[d]
    BY <1>7, Zenon
  <2>3. editor'[e].at \in {"none", "invalidate"}
    BY <1>7, Zenon
  <2>4. QED
    BY ONLY <2>1, <2>2, <2>3 DEF RequestsAreInPlace
<1>14. QED
  BY <1>8, <1>9, <1>10, <1>11, <1>12, <1>13

LEMMA InvalidatingKeepsSettings ==
    ASSUME SettingsInv, NEW e \in Editors, Invalidate(e)
    PROVE  SettingsInv'
<1> USE DEF SettingsInv
<1> DEFINE r == editor[e]
<1>1. r.on \in Instances /\ r.base.version \in 0 .. MaxEdits
  BY DEF SettingsTypeOK, Document
<1>2. /\ cached' = [cached EXCEPT ![r.on] = NotCached]
      /\ own' = [own EXCEPT ![r.on] = IF @ < r.base.version THEN r.base.version ELSE @]
      /\ late' = [late EXCEPT ![r.on] = FALSE]
      /\ behind' = behind \ {r.on}
      /\ Goes(e, "view", "load", r.on, Defaults)
      /\ UNCHANGED <<document, overtaken, accepted, stale>>
      /\ editor[e].at = "invalidate" /\ editor[e].on = r.on
  BY DEF Invalidate, Invalidated
<1> HIDE DEF r
<1>3. SettingsTypeOK'
  <2>1. cached' \in [Instances -> Document \cup {NotCached}]
    BY <1>1, <1>2 DEF SettingsTypeOK
  <2>2. own' \in [Instances -> 0 .. MaxEdits]
    BY <1>1, <1>2 DEF SettingsTypeOK
  <2>3. late' \in [Instances -> BOOLEAN]
    BY <1>1, <1>2 DEF SettingsTypeOK
  <2>4. behind' \subseteq Instances
    BY <1>1, <1>2 DEF SettingsTypeOK
  <2>5. QED
    BY <1>1, <1>2, <2>1, <2>2, <2>3, <2>4, GoingOn, DocumentsAreOne DEF SettingsTypeOK
<1>4. OwnEditsAreRead'
  BY <1>1, <1>2 DEF OwnEditsAreRead, SettingsTypeOK
<1>5. EditsSurvive'
  BY <1>2 DEF EditsSurvive
<1>6. /\ editor'[e].at = "load" /\ editor'[e].op = "view" /\ ~HasCopy(e)'
      /\ \A d \in Editors : d # e => editor'[d] = editor[d] /\ (HasCopy(d)' <=> HasCopy(d))
  BY <1>1, <1>2, OneGoesOn, DocumentsAreOne DEF Went
<1>7. EntriesAreCurrent'
  <2> SUFFICES ASSUME NEW i \in Instances, cached'[i] # NotCached, i \notin behind', ~Pending(i)'
               PROVE  cached'[i] = document
    BY <1>2 DEF EntriesAreCurrent
  <2>1. i # r.on /\ cached'[i] = cached[i] /\ i \notin behind
    BY <1>1, <1>2 DEF SettingsTypeOK
  <2>2. ~Pending(i)
    BY <1>2, <1>6, <2>1 DEF Pending
  <2>3. QED
    BY <2>1, <2>2 DEF EntriesAreCurrent
<1>8. CopiesAreCurrent' /\ RequestsAreInPlace'
  BY <1>2, <1>6 DEF CopiesAreCurrent, RequestsAreInPlace
<1>9. QED
  BY <1>3, <1>4, <1>5, <1>7, <1>8

LEMMA SettingsStep == SettingsInv /\ [SettingsNext]_settingsVars => SettingsInv'
<1> SUFFICES ASSUME SettingsInv, [SettingsNext]_settingsVars
             PROVE  SettingsInv'
  OBVIOUS
<1>1. ASSUME NEW i \in Instances, Expire(i)
      PROVE  SettingsInv'
  <2>1. cached' \in [Instances -> Document \cup {NotCached}]
    BY <1>1 DEF Expire, SettingsInv, SettingsTypeOK
  <2>2. OwnEditsAreRead' /\ EntriesAreCurrent'
    BY <1>1 DEF Expire, SettingsInv, SettingsTypeOK, OwnEditsAreRead, EntriesAreCurrent, Pending
  <2>3. CopiesAreCurrent' /\ RequestsAreInPlace'
    BY <1>1 DEF Expire, SettingsInv, CopiesAreCurrent, HasCopy, RequestsAreInPlace
  <2>4. QED
    BY <1>1, <2>1, <2>2, <2>3 DEF Expire, SettingsInv, SettingsTypeOK, EditsSurvive
<1>2. ASSUME NEW e \in Editors, NEW i \in Instances, StartReplace(e, i)
      PROVE  SettingsInv'
  <2>1. /\ editor[e].at # "invalidate" /\ overtaken \subseteq Editors
        /\ Goes(e, "replace", "write", i, Defaults)
        /\ UNCHANGED <<document, cached, copyVars, accepted, stale>>
    BY <1>2 DEF StartReplace, Out, SettingsInv, SettingsTypeOK
  <2>2. ~HasCopy(e)'
    BY <2>1, OneGoesOn, DocumentsAreOne DEF SettingsInv, Went
  <2>3. QED
    BY <2>1, <2>2, RequestsOnlyRead, DocumentsAreOne DEF copyVars
<1>3. ASSUME NEW e \in Editors, NEW i \in Instances, NEW op \in {"view", "preset"},
             StartReading(e, i, op)
      PROVE  SettingsInv'
  <2>1. /\ editor[e].at # "invalidate" /\ overtaken \subseteq Editors
        /\ Goes(e, op, "load", i, Defaults)
        /\ UNCHANGED <<document, cached, copyVars, accepted, stale>>
    BY <1>3 DEF StartReading, Out, SettingsInv, SettingsTypeOK
  <2>2. ~HasCopy(e)'
    BY <2>1, OneGoesOn, DocumentsAreOne DEF SettingsInv, Went
  <2>3. QED
    BY <2>1, <2>2, RequestsOnlyRead, DocumentsAreOne DEF copyVars
<1>4. ASSUME NEW e \in Editors, GetSettings(e)
      PROVE  SettingsInv'
  <2> DEFINE r == editor[e]
  <2>1. /\ r.op \in {"view", "preset"} /\ r.on \in Instances /\ editor[e].at = "load"
        /\ document \in Document /\ cached[r.on] \in Document \cup {NotCached}
        /\ overtaken \subseteq Editors
        /\ UNCHANGED <<document, cached, own, late, behind, accepted, stale>>
    BY <1>4 DEF GetSettings, SettingsInv, SettingsTypeOK, RequestsAreInPlace
  <2>2. Onward(r.op) = IF r.op = "view" THEN "none" ELSE "write"
    BY DEF Onward
  <2>3. CASE /\ cached[r.on] # NotCached
             /\ Goes(e, r.op, Onward(r.op), r.on, cached[r.on])
             /\ overtaken' = IF r.op = "preset" /\ (r.on \in behind \/ Pending(r.on))
                             THEN overtaken \cup {e} ELSE overtaken
    <3>1. HasCopy(e)' => r.op = "preset"
      <4> HIDE DEF r
      <4>1. Went(e, r.op, Onward(r.op), cached[r.on])
        BY <2>1, <2>2, <2>3, OneGoesOn DEF SettingsInv
      <4>2. QED
        BY <2>1, <2>2, <4>1 DEF Went
    <3>2. HasCopy(e)' /\ e \notin overtaken' => cached[r.on] = document
      BY <2>1, <2>3, <3>1 DEF SettingsInv, EntriesAreCurrent
    <3>3. overtaken' \subseteq Editors /\ overtaken' \ {e} = overtaken \ {e}
      BY <2>1, <2>3
    <3> HIDE DEF r
    <3>4. QED
      BY <2>1, <2>2, <2>3, <3>2, <3>3, RequestsOnlyRead
  <2>4. CASE Goes(e, r.op, "fill", r.on, document) /\ overtaken' = overtaken
    <3> HIDE DEF r
    <3>1. QED
      BY <2>1, <2>4, RequestsOnlyRead
  <2>5. CASE Goes(e, r.op, "none", r.on, Defaults) /\ overtaken' = overtaken
    <3> HIDE DEF r
    <3>1. ~HasCopy(e)'
      BY <2>1, <2>5, OneGoesOn, DocumentsAreOne DEF SettingsInv, Went
    <3>2. QED
      BY <2>1, <2>5, <3>1, RequestsOnlyRead, DocumentsAreOne
  <2>6. QED
    BY <1>4, <2>3, <2>4, <2>5 DEF GetSettings
<1>5. ASSUME NEW e \in Editors, WriteFails(e)
      PROVE  SettingsInv'
  <2> DEFINE r == editor[e]
  <2>1. /\ r.op \in {"none", "view", "preset", "replace"} /\ r.on \in Instances
        /\ editor[e].at # "invalidate" /\ overtaken \subseteq Editors
        /\ Goes(e, r.op, "none", r.on, Defaults) /\ overtaken' = overtaken \ {e}
        /\ UNCHANGED <<document, cached, own, late, behind, accepted, stale>>
    BY <1>5 DEF WriteFails, SettingsInv, SettingsTypeOK
  <2>2. ~HasCopy(e)'
    BY <2>1, OneGoesOn, DocumentsAreOne DEF SettingsInv, Went
  <2>3. overtaken' \subseteq Editors /\ overtaken' \ {e} = overtaken \ {e}
    BY <2>1
  <2> HIDE DEF r
  <2>4. QED
    BY <2>1, <2>2, <2>3, RequestsOnlyRead, DocumentsAreOne
<1>6. CASE UNCHANGED settingsVars
  BY <1>6 DEF settingsVars, copyVars, SettingsInv, SettingsTypeOK, OwnEditsAreRead, EditsSurvive,
              EntriesAreCurrent, CopiesAreCurrent, RequestsAreInPlace, HasCopy, Pending
<1>7. QED
  BY <1>1, <1>2, <1>3, <1>4, <1>5, <1>6, FillingKeepsSettings, WritingKeepsSettings,
     InvalidatingKeepsSettings DEF SettingsNext

-----------------------------------------------------------------------------
(* A competition being set up: module CompSetup. *)

\* A request that patches has loaded a row of the item it is to patch.
SetupInv ==
    /\ SetupTypeOK /\ WindowsStayOrdered
    /\ tree = [i \in Items |-> tree[i]]
    /\ entries = [e \in Competitions \X Entrants |-> entries[e]]
    /\ patching = [d \in Directors |-> patching[d]]
    /\ \A d \in Directors : patching[d] # NoPatch => patching[d].item \in Items

LEMMA SetupBegins == SetupInit => SetupInv
<1> SUFFICES ASSUME SetupInit
             PROVE  SetupInv
  OBVIOUS
<1> USE SetupAssumption DEF SetupInit
<1>1. SetupTypeOK
  BY DEF SetupTypeOK
<1>2. WindowsStayOrdered
  BY DEF WindowsStayOrdered, Items
<1>3. /\ tree = [i \in Items |-> tree[i]]
      /\ entries = [e \in Competitions \X Entrants |-> entries[e]]
      /\ patching = [d \in Directors |-> patching[d]]
  BY Zenon
<1>4. \A d \in Directors : patching[d] = NoPatch
  OBVIOUS
<1>5. QED
  BY <1>1, <1>2, <1>3, <1>4 DEF SetupInv

\* A row into which the fields of a body are merged is a row of the same kind.
LEMMA MergedIsARow ==
    ASSUME NEW i \in Items, NEW row \in RowsOf(i), NEW body \in PatchBodies(i)
    PROVE  Merged(row, body) \in RowsOf(i)
<1> USE SetupAssumption DEF Items
<1> DEFINE m == Merged(row, body)
<1>1. CASE i \in Competitions
  <2>1. /\ row \in [starts : Instants, ends : Instants, status : Statuses]
        /\ RowsOf(i) = [starts : Instants, ends : Instants, status : Statuses]
    BY <1>1 DEF RowsOf
  <2>2. \/ body \in [starts : Instants] \/ body \in [ends : Instants]
        \/ body \in [starts : Instants, ends : Instants] \/ body \in [status : Statuses]
    BY <1>1 DEF PatchBodies
  <2>3. m.starts \in Instants /\ m.ends \in Instants /\ m.status \in Statuses
    BY <2>1, <2>2 DEF Merged
  <2>4. m = [starts |-> m.starts, ends |-> m.ends, status |-> m.status]
    BY <2>1 DEF Merged
  <2>5. QED
    BY <2>1, <2>3, <2>4
<1>2. CASE i \in Events
  <2>1. /\ row \in [starts : Instants, ends : Instants, weight : {1, 2}]
        /\ RowsOf(i) = [starts : Instants, ends : Instants, weight : {1, 2}]
    BY <1>2 DEF RowsOf
  <2>2. \/ body \in [starts : Instants] \/ body \in [ends : Instants]
        \/ body \in [starts : Instants, ends : Instants] \/ body \in [weight : {1, 2}]
    BY <1>2 DEF PatchBodies
  <2>3. m.starts \in Instants /\ m.ends \in Instants /\ m.weight \in {1, 2}
    BY <2>1, <2>2 DEF Merged
  <2>4. m = [starts |-> m.starts, ends |-> m.ends, weight |-> m.weight]
    BY <2>1 DEF Merged
  <2>5. QED
    BY <2>1, <2>3, <2>4
<1>3. CASE i \in Problems
  <2>1. /\ row \in [label : Labels, points : {1, 2}]
        /\ RowsOf(i) = [label : Labels, points : {1, 2}]
    BY <1>3 DEF RowsOf
  <2>2. body \in [label : Labels] \/ body \in [points : {1, 2}]
    BY <1>3 DEF PatchBodies
  <2>3. m.label \in Labels /\ m.points \in {1, 2}
    BY <2>1, <2>2 DEF Merged
  <2>4. m = [label |-> m.label, points |-> m.points]
    BY <2>1 DEF Merged
  <2>5. QED
    BY <2>1, <2>3, <2>4
<1>4. QED
  BY <1>1, <1>2, <1>3

\* A row that is validated, whatever it is merged from, may be stored.
LEMMA StoringKeepsSetup ==
    ASSUME SetupInv, NEW i \in Items, NEW row \in RowsOf(i), Valid(i, row),
           tree' = [tree EXCEPT ![i] = row]
    PROVE  /\ tree' = [j \in Items |-> tree'[j]]
           /\ DOMAIN tree' = Items /\ \A j \in Items : tree'[j] \in RowsOf(j) \cup {Absent}
           /\ \A j \in Competitions \cup Events : tree'[j] # Absent => Ordered(tree'[j])
<1>1. \A j \in Items : tree'[j] = IF j = i THEN row ELSE tree[j]
  BY DEF SetupInv
<1>2. DOMAIN tree' = Items /\ tree' = [j \in Items |-> tree'[j]]
  BY DEF SetupInv
<1>3. \A j \in Items : tree'[j] \in RowsOf(j) \cup {Absent}
  BY <1>1 DEF SetupInv, SetupTypeOK
<1>4. \A j \in Competitions \cup Events : tree'[j] # Absent => Ordered(tree'[j])
  BY <1>1, SetupAssumption DEF SetupInv, WindowsStayOrdered, Valid, Items
<1>5. QED
  BY <1>2, <1>3, <1>4

LEMMA InsertingKeepsSetup ==
    ASSUME SetupInv, NEW i \in Items, NEW row \in RowsOf(i), Inserted(i, row)
    PROVE  SetupInv'
<1>1. /\ Valid(i, row) /\ tree' = [tree EXCEPT ![i] = row]
      /\ UNCHANGED <<categories, entries, patching, patches>>
  BY DEF Inserted
<1>2. SetupTypeOK' /\ WindowsStayOrdered'
  BY <1>1, StoringKeepsSetup DEF SetupInv, SetupTypeOK, WindowsStayOrdered
<1>3. QED
  BY <1>1, <1>2, StoringKeepsSetup DEF SetupInv

LEMMA LoadingKeepsSetup ==
    ASSUME SetupInv, NEW d \in Directors, NEW i \in Items, LoadForUpdate(d, i)
    PROVE  SetupInv'
<1>1. /\ patches < MaxPatches /\ tree[i] # Absent
      /\ patching' = [patching EXCEPT ![d] = [item |-> i, row |-> tree[i]]]
      /\ patches' = patches + 1
      /\ UNCHANGED <<tree, categories, entries>>
  BY DEF LoadForUpdate
<1>2. patches' \in 0 .. MaxPatches
  BY <1>1, SetupAssumption DEF SetupInv, SetupTypeOK
<1>3. tree[i] \in RowsOf(i)
  BY <1>1 DEF SetupInv, SetupTypeOK
<1>4. /\ patching' = [c \in Directors |-> patching'[c]]
      /\ \A c \in Directors :
            patching'[c] = IF c = d THEN [item |-> i, row |-> tree[i]] ELSE patching[c]
  BY <1>1 DEF SetupInv
<1>5. \A c \in Directors : patching'[c] = NoPatch \/ patching'[c].row \in RowsOf(patching'[c].item)
  BY <1>3, <1>4 DEF SetupInv, SetupTypeOK
<1>6. \A c \in Directors : patching'[c] # NoPatch => patching'[c].item \in Items
  BY <1>4 DEF SetupInv
<1>7. SetupTypeOK' /\ WindowsStayOrdered'
  BY <1>1, <1>2, <1>5 DEF SetupInv, SetupTypeOK, WindowsStayOrdered
<1>8. QED
  BY <1>1, <1>4, <1>6, <1>7 DEF SetupInv

\* The request has validated exactly the row it writes.
LEMMA PatchingKeepsSetup ==
    ASSUME SetupInv, NEW d \in Directors, patching[d] # NoPatch,
           NEW body \in PatchBodies(patching[d].item), Patch(d, body)
    PROVE  SetupInv'
<1> DEFINE i == patching[d].item
           merged == Merged(patching[d].row, body)
<1>1. i \in Items /\ patching[d].row \in RowsOf(i)
  BY DEF SetupInv, SetupTypeOK
<1>2. merged \in RowsOf(i)
  BY <1>1, MergedIsARow
<1>3. /\ \/ Valid(i, merged) /\ tree' = [tree EXCEPT ![i] = merged]
         \/ UNCHANGED tree
      /\ patching' = [patching EXCEPT ![d] = NoPatch]
      /\ UNCHANGED <<categories, entries, patches>>
  BY DEF Patch, Written
<1>4. /\ patching' = [c \in Directors |-> patching'[c]]
      /\ \A c \in Directors : patching'[c] = IF c = d THEN NoPatch ELSE patching[c]
  BY <1>3 DEF SetupInv
<1>5. /\ \A c \in Directors : patching'[c] = NoPatch \/ patching'[c].row \in RowsOf(patching'[c].item)
      /\ \A c \in Directors : patching'[c] # NoPatch => patching'[c].item \in Items
  BY <1>4 DEF SetupInv, SetupTypeOK
<1> HIDE DEF i, merged
<1>6. /\ tree' = [j \in Items |-> tree'[j]]
      /\ DOMAIN tree' = Items /\ \A j \in Items : tree'[j] \in RowsOf(j) \cup {Absent}
      /\ \A j \in Competitions \cup Events : tree'[j] # Absent => Ordered(tree'[j])
  <2>1. CASE UNCHANGED tree
    BY <2>1 DEF SetupInv, SetupTypeOK, WindowsStayOrdered
  <2>2. QED
    BY <1>1, <1>2, <1>3, <2>1, StoringKeepsSetup
<1>7. SetupTypeOK' /\ WindowsStayOrdered'
  BY <1>3, <1>5, <1>6 DEF SetupInv, SetupTypeOK, WindowsStayOrdered
<1>8. QED
  BY <1>3, <1>4, <1>5, <1>6, <1>7 DEF SetupInv

\* People and categories: no row and no patch is touched.
LEMMA EntriesKeepSetup ==
    ASSUME SetupInv, UNCHANGED <<tree, patching, patches>>,
           categories' \subseteq Competitions \X Labels,
           entries' = [e \in Competitions \X Entrants |-> entries'[e]],
           \A e \in Competitions \X Entrants :
              entries'[e] \in [bib : Bibs \cup {0}, category : Labels, withdrawn : BOOLEAN]
                                \cup {Absent}
    PROVE  SetupInv'
<1>1. SetupTypeOK' /\ WindowsStayOrdered'
  BY DEF SetupInv, SetupTypeOK, WindowsStayOrdered
<1>2. QED
  BY <1>1 DEF SetupInv

LEMMA SetupStep == SetupInv /\ [SetupNext]_setupVars => SetupInv'
<1> SUFFICES ASSUME SetupInv, [SetupNext]_setupVars
             PROVE  SetupInv'
  OBVIOUS
<1> DEFINE Entry == [bib : Bibs \cup {0}, category : Labels, withdrawn : BOOLEAN]
<1>0. /\ categories \subseteq Competitions \X Labels
      /\ entries = [e \in Competitions \X Entrants |-> entries[e]]
      /\ \A e \in Competitions \X Entrants : entries[e] \in Entry \cup {Absent}
  BY DEF SetupInv, SetupTypeOK
<1>1. ASSUME NEW c \in Competitions, NEW name \in Labels, CreateCategory(c, name)
      PROVE  SetupInv'
  <2>1. /\ UNCHANGED <<tree, patching, patches>> /\ entries' = entries
        /\ categories' \subseteq Competitions \X Labels
    BY <1>0, <1>1 DEF CreateCategory
  <2>2. QED
    BY <1>0, <2>1, EntriesKeepSetup
<1>2. ASSUME NEW c \in Competitions, NEW u \in Entrants,
             NEW entry \in Entry, entries' = [entries EXCEPT ![<<c, u>>] = entry],
             UNCHANGED <<tree, categories, patching, patches>>
      PROVE  SetupInv'
  <2>1. <<c, u>> \in Competitions \X Entrants
    OBVIOUS
  <2>2. /\ entries' = [e \in Competitions \X Entrants |-> entries'[e]]
        /\ \A e \in Competitions \X Entrants :
              entries'[e] = IF e = <<c, u>> THEN entry ELSE entries[e]
    BY <1>0, <1>2, <2>1
  <2>3. \A e \in Competitions \X Entrants : entries'[e] \in Entry \cup {Absent}
    BY <1>0, <2>2
  <2>4. QED
    BY <1>0, <1>2, <2>2, <2>3, EntriesKeepSetup
<1>3. ASSUME NEW c \in Competitions, NEW u \in Entrants, NEW body \in Bodies,
             CreateRegistration(c, u, body)
      PROVE  SetupInv'
  <2>1. [bib |-> body.bib, category |-> body.category, withdrawn |-> FALSE] \in Entry
    BY DEF Bodies
  <2>2. QED
    BY <1>2, <1>3, <2>1 DEF CreateRegistration
<1>4. ASSUME NEW c \in Competitions, NEW u \in Entrants, Withdraw(c, u)
      PROVE  SetupInv'
  <2>1. <<c, u>> \in Competitions \X Entrants /\ entries[<<c, u>>] # Absent
    BY <1>4 DEF Withdraw, Unwithdrawn
  <2>2. entries[<<c, u>>] \in Entry
    BY <1>0, <2>1
  <2>3. [entries[<<c, u>>] EXCEPT !.withdrawn = TRUE] \in Entry
    BY <2>2
  <2>4. entries' = [entries EXCEPT ![<<c, u>>] = [entries[<<c, u>>] EXCEPT !.withdrawn = TRUE]]
    BY <1>4 DEF Withdraw
  <2>5. QED
    BY <1>2, <1>4, <2>3, <2>4 DEF Withdraw
<1>5. CASE UNCHANGED setupVars
  <2>1. UNCHANGED <<tree, categories, entries, patching, patches>>
    BY <1>5 DEF setupVars
  <2>2. QED
    BY <1>0, <2>1, EntriesKeepSetup
<1>6. Competitions \subseteq Items /\ Events \subseteq Items /\ Problems \subseteq Items
  BY DEF Items
<1>7. QED
  BY <1>1, <1>3, <1>4, <1>5, <1>6, InsertingKeepsSetup, LoadingKeepsSetup, PatchingKeepsSetup
     DEF SetupNext, CreateCompetition, CreateEvent, CreateProblem

-----------------------------------------------------------------------------
(* What is told by way of the job queue: module Notices. *)

NoticeNumbers ==
    /\ copies \in [Jobs -> 0 .. MaxCopies] /\ unread \in [Jobs -> 0 .. MaxCopies]
    /\ again \in [Jobs -> Nat]

NoticeTypes ==
    /\ stage \in [Jobs -> {"none", "committed", "hung up", "fallback", "told"}]
    /\ givenUp \subseteq Jobs /\ unheard \subseteq Jobs /\ quiet \subseteq Notes
    /\ phase \in [Jobs -> {"absent", "open", "completed", "dead"}]
    /\ done \in [Jobs -> BOOLEAN] /\ revoked \in [Jobs -> BOOLEAN]

\* What is told has a job, an effect or its loss on record; what is unheard never had a
\* job and is never enqueued again; the queue has run no job it does not know; a run that
\* returned nil had its effect or gave the item up; and only the run that returned nil, or
\* the fallback of an item without a job, told of it without being repeated.
ItemHolds(i) ==
    /\ unread[i] <= copies[i]
    /\ stage[i] = "told" => phase[i] # "absent" \/ copies[i] > 0 \/ i \in givenUp \cup unheard
    /\ stage[i] \in {"none", "committed", "hung up"} => phase[i] = "absent"
    /\ i \in unheard => i \in Notes \cup Changes /\ phase[i] = "absent" /\ stage[i] = "told"
    /\ phase[i] = "absent" => ~done[i] /\ ~revoked[i]
    /\ phase[i] = "completed" => done[i]
    /\ done[i] => copies[i] > 0 \/ i \in givenUp
    /\ revoked[i] \/ copies[i] <= 1 + again[i]
    /\ revoked[i] \/ done[i] \/ (phase[i] = "absent" /\ stage[i] = "told")
          \/ copies[i] <= again[i]

NoticesInv == NoticeNumbers /\ NoticeTypes /\ \A i \in Jobs : ItemHolds(i)

LEMMA NoticesBegin == NoticeInit => NoticesInv
<1> SUFFICES ASSUME NoticeInit
             PROVE  NoticesInv
  OBVIOUS
<1> USE NoticesAssumption DEF NoticeInit, ContractInit, Zero
<1>1. NoticeNumbers /\ NoticeTypes
  BY DEF NoticeNumbers, NoticeTypes
<1>2. \A i \in Jobs : ItemHolds(i)
  BY DEF ItemHolds
<1>3. QED
  BY <1>1, <1>2 DEF NoticesInv

\* A step about one item leaves the others as they are.
OthersKeep(i) ==
    \A j \in Jobs \ {i} :
       /\ stage'[j] = stage[j] /\ copies'[j] = copies[j] /\ unread'[j] = unread[j]
       /\ again'[j] = again[j] /\ phase'[j] = phase[j] /\ (j \in givenUp => j \in givenUp')
       /\ (j \in unheard <=> j \in unheard')
       /\ (done'[j] <=> done[j]) /\ (revoked'[j] <=> revoked[j])

LEMMA OneItemAtATime ==
    ASSUME NoticesInv, NEW i \in Jobs, OthersKeep(i), NoticeNumbers', NoticeTypes',
           ItemHolds(i)'
    PROVE  NoticesInv'
<1>1. SUFFICES ASSUME NEW j \in Jobs \ {i}
               PROVE  ItemHolds(j)'
  BY DEF NoticesInv
<1>2. ItemHolds(j)
  BY DEF NoticesInv
<1>3. QED
  BY <1>2 DEF OthersKeep, ItemHolds

LEMMA EnqueuingKeepsNotices ==
    ASSUME NoticesInv, NEW i \in Jobs,
           Notify(i) \/ AskLink(i) \/ Commit(i) \/ Record(i)
    PROVE  NoticesInv'
<1> USE DEF Notify, AskLink, Commit, Record, Staged, Untold, Accept, contractVars
<1>1. /\ UNCHANGED <<copies, unread, again, done, revoked>>
      /\ stage[i] \in {"none", "committed", "hung up"}
      /\ \E s \in {"committed", "hung up", "fallback", "told"} :
            stage' = [stage EXCEPT ![i] = s]
      /\ phase' = phase \/ (phase[i] = "absent" /\ phase' = [phase EXCEPT ![i] = "open"])
      /\ givenUp' = givenUp \/ givenUp' = givenUp \cup {i}
      /\ \/ unheard' = unheard
         \/ /\ unheard' = unheard \cup {i} /\ i \in Notes \cup Changes
            /\ phase' = phase /\ stage[i] = "none" /\ stage' = [stage EXCEPT ![i] = "told"]
      /\ quiet' = quiet \/ (i \in Notes /\ quiet' = quiet \cup {i})
  OBVIOUS
<1>2. stage'[i] = "told" => phase'[i] # "absent" \/ i \in givenUp' \cup unheard'
  BY DEF NoticesInv, NoticeTypes
<1>3. /\ stage[i] \in {"none", "committed", "hung up"} => phase[i] = "absent"
      /\ stage'[i] \in {"none", "committed", "hung up"} => stage[i] = "none" /\ phase' = phase
  BY DEF NoticesInv, NoticeTypes, ItemHolds
<1> USE DEF NoticesInv, NoticeTypes
<1>4. NoticeNumbers' /\ NoticeTypes' /\ OthersKeep(i)
  BY <1>1 DEF OthersKeep, NoticeNumbers
<1>5. ItemHolds(i)'
  BY <1>1, <1>2, <1>3 DEF ItemHolds
<1>6. QED
  BY <1>4, <1>5, OneItemAtATime

\* A copy more, or a repetition more, in numbers.
LEMMA OneMore ==
    ASSUME NoticeNumbers, NEW i \in Jobs, copies[i] < MaxCopies
    PROVE  /\ [copies EXCEPT ![i] = copies[i] + 1] \in [Jobs -> 0 .. MaxCopies]
           /\ [again EXCEPT ![i] = again[i] + 1] \in [Jobs -> Nat]
           /\ copies[i] + 1 > 0
           /\ copies[i] <= again[i] => copies[i] + 1 <= 1 + again[i] /\ copies[i] <= 1 + again[i]
           /\ copies[i] <= 1 + again[i] =>
                 copies[i] + 1 <= 1 + (again[i] + 1) /\ copies[i] <= 1 + (again[i] + 1)
           /\ copies[i] <= again[i] =>
                 copies[i] + 1 <= again[i] + 1 /\ copies[i] <= again[i] + 1
           /\ unread[i] <= copies[i] =>
                 /\ unread[i] <= copies[i] + 1 /\ unread[i] + 1 <= copies[i] + 1
                 /\ [unread EXCEPT ![i] = unread[i] + 1] \in [Jobs -> 0 .. MaxCopies]
<1> USE NoticesAssumption DEF NoticeNumbers
<1>1. copies[i] \in Nat /\ again[i] \in Nat /\ unread[i] \in Nat
  OBVIOUS
<1>2. copies[i] + 1 \in 0 .. MaxCopies /\ again[i] + 1 \in Nat
  BY <1>1
<1>3. unread[i] <= copies[i] => unread[i] + 1 \in 0 .. MaxCopies
  BY <1>1, <1>2
<1>4. QED
  BY <1>1, <1>2, <1>3

LEMMA FallbackKeepsNotices ==
    ASSUME NoticesInv, NEW i \in Jobs, Fallback(i)
    PROVE  NoticesInv'
<1>1. /\ UNCHANGED <<phase, done, revoked, unread, unheard, quiet>>
      /\ stage[i] = "fallback" /\ copies[i] < MaxCopies
      /\ stage' = [stage EXCEPT ![i] = "told"]
      /\ \/ copies' = [copies EXCEPT ![i] = copies[i] + 1] /\ givenUp' = givenUp
         \/ copies' = copies /\ givenUp' = givenUp \cup {i}
      /\ \/ phase[i] = "absent" /\ again' = again
         \/ phase[i] # "absent" /\ again' = [again EXCEPT ![i] = again[i] + 1]
  BY DEF Fallback, FallbackContext, Staged, Room, contractVars
<1>2. NoticeNumbers /\ NoticeTypes /\ ItemHolds(i)
  BY DEF NoticesInv
<1>3. NoticeNumbers'
  BY <1>1, <1>2, OneMore DEF NoticeNumbers
<1>4. NoticeTypes' /\ OthersKeep(i)
  BY <1>1, <1>2 DEF NoticeNumbers, NoticeTypes, OthersKeep
<1>5. /\ stage'[i] = "told" /\ unread'[i] = unread[i]
      /\ phase'[i] = phase[i] /\ done'[i] = done[i] /\ revoked'[i] = revoked[i]
      /\ \/ copies'[i] = copies[i] + 1
         \/ copies'[i] = copies[i] /\ i \in givenUp'
      /\ i \in givenUp => i \in givenUp'
      /\ \/ phase[i] = "absent" /\ again'[i] = again[i]
         \/ phase[i] # "absent" /\ again'[i] = again[i] + 1
  BY <1>1, <1>2 DEF NoticeNumbers, NoticeTypes
<1>6. ItemHolds(i)'
  <2> USE DEF ItemHolds
  <2>1. unread'[i] <= copies'[i]
    BY <1>1, <1>2, <1>5, OneMore
  <2>2. /\ stage'[i] = "told" =>
               phase'[i] # "absent" \/ copies'[i] > 0 \/ i \in givenUp' \cup unheard'
        /\ done'[i] => copies'[i] > 0 \/ i \in givenUp'
    BY <1>1, <1>2, <1>5, OneMore
  <2>3. /\ phase'[i] = "absent" => ~done'[i] /\ ~revoked'[i]
        /\ phase'[i] = "completed" => done'[i]
        /\ stage'[i] \in {"none", "committed", "hung up"} => phase'[i] = "absent"
        /\ i \in unheard' =>
               i \in Notes \cup Changes /\ phase'[i] = "absent" /\ stage'[i] = "told"
    BY <1>1, <1>2, <1>5
  \* An item without a job has its first copy; any other is repeated.
  <2>4. /\ revoked'[i] \/ copies'[i] <= 1 + again'[i]
        /\ revoked'[i] \/ done'[i] \/ phase'[i] = "absent" \/ copies'[i] <= again'[i]
    <3>1. CASE phase[i] = "absent"
      <4>1. copies[i] <= again[i]
        BY <1>1, <1>2, <3>1
      <4>2. QED
        BY <1>1, <1>2, <1>5, <3>1, <4>1, OneMore
    <3>2. CASE phase[i] # "absent"
      BY <1>1, <1>2, <1>5, <3>2, OneMore
    <3>3. QED
      BY <3>1, <3>2
  <2>5. QED
    BY <1>5, <2>1, <2>2, <2>3, <2>4
<1>7. QED
  BY <1>3, <1>4, <1>6, OneItemAtATime

\* The run of a handler makes a copy and ends, or is repeated; or it gives the item
\* up and ends.
LEMMA RunningKeepsNotices ==
    ASSUME NoticesInv, NEW i \in Jobs,
           CreateNotification(i) \/ SendMail(i) \/ WriteAudit(i)
    PROVE  NoticesInv'
<1>1. /\ UNCHANGED <<stage, phase, revoked, unheard, quiet>>
      /\ revoked[i] \/ (phase[i] = "open" /\ ~done[i])
      /\ copies[i] < MaxCopies
      /\ \/ unread' = unread
         \/ /\ unread' = [unread EXCEPT ![i] = unread[i] + 1]
            /\ copies' = [copies EXCEPT ![i] = copies[i] + 1]
      /\ \/ /\ copies' = [copies EXCEPT ![i] = copies[i] + 1] /\ givenUp' = givenUp
            /\ \/ done' = [done EXCEPT ![i] = TRUE] /\ again' = again
               \/ done' = done /\ again' = [again EXCEPT ![i] = again[i] + 1]
         \/ /\ copies' = copies /\ givenUp' = givenUp \cup {i} /\ again' = again
            /\ done' = [done EXCEPT ![i] = TRUE] /\ unread' = unread
  BY DEF CreateNotification, SendMail, WriteAudit, MayRun, Room, RunEnds, Perform, Made,
         Unsent, contractVars
<1>2. NoticeNumbers /\ NoticeTypes /\ ItemHolds(i)
  BY DEF NoticesInv
<1>3. NoticeNumbers'
  <2>1. unread[i] <= copies[i]
    BY <1>2 DEF ItemHolds
  <2>2. QED
    BY <1>1, <1>2, <2>1, OneMore DEF NoticeNumbers
<1>4. NoticeTypes' /\ OthersKeep(i)
  BY <1>1, <1>2 DEF NoticeNumbers, NoticeTypes, OthersKeep
<1>5. /\ stage'[i] = stage[i] /\ phase'[i] = phase[i] /\ revoked'[i] = revoked[i]
      /\ unread'[i] = unread[i] \/ (unread'[i] = unread[i] + 1 /\ copies'[i] = copies[i] + 1)
      /\ \/ /\ copies'[i] = copies[i] + 1
            /\ \/ done'[i] = TRUE /\ again'[i] = again[i]
               \/ done'[i] = done[i] /\ again'[i] = again[i] + 1
         \/ /\ copies'[i] = copies[i] /\ i \in givenUp' /\ again'[i] = again[i]
            /\ done'[i] = TRUE /\ unread'[i] = unread[i]
      /\ i \in givenUp => i \in givenUp'
  BY <1>1, <1>2 DEF NoticeNumbers, NoticeTypes
<1>6. ItemHolds(i)'
  <2> USE DEF ItemHolds
  <2>1. unread'[i] <= copies'[i]
    BY <1>1, <1>2, <1>5, OneMore
  <2>2. /\ stage'[i] = "told" =>
               phase'[i] # "absent" \/ copies'[i] > 0 \/ i \in givenUp' \cup unheard'
        /\ done'[i] => copies'[i] > 0 \/ i \in givenUp'
    BY <1>1, <1>2, <1>5, OneMore
  <2>3. /\ phase'[i] = "absent" => ~done'[i] /\ ~revoked'[i]
        /\ phase'[i] = "completed" => done'[i]
        /\ stage'[i] \in {"none", "committed", "hung up"} => phase'[i] = "absent"
        /\ i \in unheard' =>
               i \in Notes \cup Changes /\ phase'[i] = "absent" /\ stage'[i] = "told"
    BY <1>1, <1>2, <1>5
  <2>4. /\ revoked'[i] \/ copies'[i] <= 1 + again'[i]
        /\ revoked'[i] \/ done'[i] \/ copies'[i] <= again'[i]
    <3>1. CASE revoked[i]
      BY <1>5, <3>1
    <3>2. CASE ~revoked[i]
      <4>1. copies[i] <= again[i]
        BY <1>1, <1>2, <3>2
      <4>2. QED
        BY <1>1, <1>2, <1>5, <4>1, OneMore
    <3>3. QED
      BY <3>1, <3>2
  <2>5. QED
    BY <2>1, <2>2, <2>3, <2>4
<1>7. QED
  BY <1>3, <1>4, <1>6, OneItemAtATime

LEMMA NoticesStep == NoticesInv /\ [NoticeNext]_allNoticeVars => NoticesInv'
<1> SUFFICES ASSUME NoticesInv, [NoticeNext]_allNoticeVars
             PROVE  NoticesInv'
  OBVIOUS
<1>1. ASSUME NEW i \in Jobs, MarkRead(i)
      PROVE  NoticesInv'
  <2>1. /\ UNCHANGED <<phase, done, revoked, stage, copies, again, givenUp, unheard, quiet>>
        /\ unread[i] > 0 /\ unread' = [unread EXCEPT ![i] = unread[i] - 1]
    BY <1>1 DEF MarkRead, contractVars
  <2>2. \A j \in Jobs : unread[j] <= copies[j]
    BY DEF NoticesInv, ItemHolds
  <2>3. NoticeNumbers' /\ \A j \in Jobs : unread'[j] <= copies[j]
    <3>1. NoticeNumbers
      BY DEF NoticesInv
    <3>2. QED
      BY <2>1, <2>2, <3>1, NoticesAssumption DEF NoticeNumbers
  <2>4. QED
    BY <2>1, <2>3 DEF NoticesInv, NoticeTypes, ItemHolds
<1>2. CASE MarkAllRead
  <2>1. /\ UNCHANGED <<phase, done, revoked, stage, copies, again, givenUp, unheard, quiet>>
        /\ unread' = [i \in Jobs |-> 0]
    BY <1>2 DEF MarkAllRead, contractVars, Zero
  <2>2. NoticeNumbers' /\ \A j \in Jobs : unread'[j] <= copies[j]
    <3>1. NoticeNumbers
      BY DEF NoticesInv
    <3>2. QED
      BY <2>1, <3>1, NoticesAssumption DEF NoticeNumbers
  <2>3. QED
    BY <2>1, <2>2 DEF NoticesInv, NoticeTypes, ItemHolds
<1>3. CASE SetProgressions
  BY <1>3 DEF SetProgressions, NoticesInv, NoticeNumbers, NoticeTypes, ItemHolds, contractVars
<1>4. ASSUME NEW i \in Jobs, Settle(i), UNCHANGED noticeVars
      PROVE  NoticesInv'
  <2>1. /\ UNCHANGED <<done, revoked, stage, copies, unread, again, givenUp, unheard, quiet>>
        /\ phase[i] = "open"
        /\ \/ done[i] /\ phase' = [phase EXCEPT ![i] = "completed"]
           \/ phase' = [phase EXCEPT ![i] = "dead"]
    BY <1>4 DEF Settle, noticeVars
  <2>2. QED
    BY <2>1 DEF NoticesInv, NoticeNumbers, NoticeTypes, ItemHolds
<1>5. ASSUME NEW i \in Jobs, Revoke({i}), UNCHANGED noticeVars
      PROVE  NoticesInv'
  <2>1. /\ UNCHANGED <<phase, done, stage, copies, unread, again, givenUp, unheard, quiet>>
        /\ phase[i] = "open"
        /\ revoked' = [j \in Jobs |-> revoked[j] \/ j \in {i}]
    BY <1>5 DEF Revoke, noticeVars
  <2>2. revoked' \in [Jobs -> BOOLEAN]
    BY <2>1
  <2>3. \A j \in Jobs : revoked'[j] <=> (revoked[j] \/ j = i)
    BY <2>1
  <2>4. QED
    BY <2>1, <2>2, <2>3 DEF NoticesInv, NoticeNumbers, NoticeTypes, ItemHolds
<1>6. ASSUME NEW i \in Jobs, NEW outcome \in {"open", "completed", "dead"},
             Reconsider(i, outcome), UNCHANGED noticeVars
      PROVE  NoticesInv'
  <2>1. /\ UNCHANGED <<done, revoked, stage, copies, unread, again, givenUp, unheard, quiet>>
        /\ revoked[i] /\ (outcome = "completed" => done[i])
        /\ phase' = [phase EXCEPT ![i] = outcome]
    BY <1>6 DEF Reconsider, noticeVars
  <2>2. QED
    BY <2>1 DEF NoticesInv, NoticeNumbers, NoticeTypes, ItemHolds
<1>7. CASE UNCHANGED allNoticeVars
  BY <1>7 DEF allNoticeVars, contractVars, noticeVars, NoticesInv, NoticeNumbers,
              NoticeTypes, ItemHolds
<1>8. QED
  BY <1>1, <1>2, <1>3, <1>4, <1>5, <1>6, <1>7, EnqueuingKeepsNotices, FallbackKeepsNotices,
     RunningKeepsNotices DEF NoticeNext, QueueStep

LEMMA NoticesAreTold == NoticesInv => TellingHolds
<1> SUFFICES ASSUME NoticesInv
             PROVE  TellingHolds
  OBVIOUS
<1>1. NoticeTypeOK
  BY DEF NoticesInv, NoticeNumbers, NoticeTypes, ItemHolds, NoticeTypeOK
<1>2. NothingVanishes
  BY DEF NoticesInv, NoticeTypes, ItemHolds, NothingVanishes
<1>3. OnlyTheUnqueuedAreUnheard
  BY DEF NoticesInv, NoticeTypes, ItemHolds, OnlyTheUnqueuedAreUnheard
<1>4. CopiesAreRepeats
  BY DEF NoticesInv, ItemHolds, CopiesAreRepeats
<1>5. QED
  BY <1>1, <1>2, <1>3, <1>4 DEF TellingHolds

-----------------------------------------------------------------------------
(* The nightly dumps: module Backups. *)

\* What a run has in hand: it began today or, since the calendar waits for it, the day
\* before; the key it took is of one of the two, and holds a dump once it is stored.
RunHolds(t) ==
    LET b == backup[t] IN
    /\ b.step \in {"dumping", "dumped", "uploading", "stored", "pruning"} => b.began # NoTime
    /\ b.began # NoTime => b.began <= today /\ today <= b.began + 1
    /\ b.step \in {"uploading", "stored", "pruning"} =>
          b.key # NoTime /\ b.began <= b.key /\ b.key <= today
    /\ b.step \in {"stored", "pruning"} => dumps[b.key] # NoTime

\* A dump is of its day or was stored the day after.
DumpHolds(d) == dumps[d] # NoTime => dumps[d] <= today /\ dumps[d] <= d + 1

SuccessHolds(t) ==
    /\ lastSuccess[t] <= today
    /\ lastSuccess[t] # NoTime => \E d \in Stored : lastSuccess[t] <= d + 1

BackupsInv ==
    /\ BackupsTypeOK
    /\ \A d \in Dates : DumpHolds(d)
    /\ \A t \in Takers : RunHolds(t) /\ SuccessHolds(t)

LEMMA BackupsBegin == BackupsInit => BackupsInv
<1> SUFFICES ASSUME BackupsInit
             PROVE  BackupsInv
  OBVIOUS
<1> USE BackupsAssumption DEF BackupsInit, NoTime, Stopped
<1>1. 1 \in Dates
  BY DEF Dates
<1>2. BackupsTypeOK
  BY <1>1 DEF BackupsTypeOK, Takers
<1>3. \A d \in Dates : DumpHolds(d)
  BY DEF DumpHolds
<1>4. \A t \in Takers : RunHolds(t) /\ SuccessHolds(t)
  BY DEF RunHolds, SuccessHolds
<1>5. QED
  BY <1>2, <1>3, <1>4 DEF BackupsInv

\* The dates in the model are numbers, and NoTime comes before them.
LEMMA DatesAreNumbers ==
    /\ Dates \subseteq Nat \ {0} /\ NoTime = 0 /\ \A d \in Dates : d # NoTime /\ d <= MaxDays
    /\ \A d \in Nat : d # NoTime /\ d <= MaxDays => d \in Dates
    /\ Machines \subseteq Takers /\ Shell \in Takers /\ Shell \notin Machines
  BY BackupsAssumption DEF Dates, NoTime, Takers

BackupSteps == {"stopped", "seeding", "waiting", "dumping", "dumped", "uploading", "stored",
                "pruning"}
BackupStates == [step : BackupSteps, key : Dates \cup {NoTime}, began : Dates \cup {NoTime}]

LEMMA NumbersInHand ==
    ASSUME BackupsInv
    PROVE  /\ today \in Nat /\ \A d \in Dates : dumps[d] \in Nat
           /\ \A t \in Takers : /\ lastSuccess[t] \in Nat
                               /\ backup[t].key \in Nat /\ backup[t].began \in Nat
<1>1. Dates \cup {NoTime} \subseteq Nat
  BY DatesAreNumbers
<1>2. /\ today \in Dates \cup {NoTime} /\ \A d \in Dates : dumps[d] \in Dates \cup {NoTime}
      /\ \A t \in Takers : /\ lastSuccess[t] \in Dates \cup {NoTime}
                          /\ backup[t].key \in Dates \cup {NoTime}
                          /\ backup[t].began \in Dates \cup {NoTime}
  BY DEF BackupsInv, BackupsTypeOK
<1> HIDE DEF Dates, NoTime
<1>3. QED
  BY <1>1, <1>2

\* A step of one taker: what it leaves in hand, in the bucket and for /health.
LEMMA MovingKeepsBackups ==
    ASSUME BackupsInv, NEW t \in Takers, NEW b \in BackupStates,
           backup' = [backup EXCEPT ![t] = b],
           today' = today, dueOn' \in [Machines -> 1 .. MaxDays + 1], runs' \in 0 .. MaxRuns,
           dumps' \in [Dates -> Dates \cup {NoTime}],
           lastSuccess' \in [Takers -> Dates \cup {NoTime}],
           \A d \in Dates : DumpHolds(d)',
           \A x \in Takers : SuccessHolds(x)',
           \A d \in Dates : today <= d + 1 /\ dumps[d] # NoTime => dumps'[d] # NoTime,
           b.step \in {"dumping", "dumped", "uploading", "stored", "pruning"} => b.began # NoTime,
           b.began # NoTime => b.began <= today /\ today <= b.began + 1,
           b.step \in {"uploading", "stored", "pruning"} =>
              b.key # NoTime /\ b.began <= b.key /\ b.key <= today,
           b.step \in {"stored", "pruning"} => dumps'[b.key] # NoTime
    PROVE  BackupsInv'
<1>1. backup \in [Takers -> BackupStates] /\ backup' \in [Takers -> BackupStates]
  BY DEF BackupsInv, BackupsTypeOK, BackupStates, BackupSteps
<1>2. BackupsTypeOK'
  BY <1>1 DEF BackupsInv, BackupsTypeOK, BackupStates, BackupSteps
<1>3. \A x \in Takers : backup'[x] = IF x = t THEN b ELSE backup[x]
  BY <1>1
<1>4. ASSUME NEW x \in Takers
      PROVE  RunHolds(x)'
  <2>1. CASE x = t
    BY <1>3, <2>1 DEF RunHolds
  <2>2. CASE x # t
    <3>1. RunHolds(x) /\ backup'[x] = backup[x]
      BY <1>3, <2>2 DEF BackupsInv
    <3>2. backup[x].step \in {"stored", "pruning"} => dumps'[backup[x].key] # NoTime
      <4>1. /\ backup[x].key \in Dates \cup {NoTime} /\ backup[x].began \in Dates \cup {NoTime}
            /\ today \in Dates
        BY <1>1 DEF BackupStates, BackupsInv, BackupsTypeOK
      <4>2. SUFFICES ASSUME backup[x].step \in {"stored", "pruning"}
                     PROVE  dumps'[backup[x].key] # NoTime
        OBVIOUS
      <4>3. /\ backup[x].began # NoTime /\ backup[x].key # NoTime
            /\ backup[x].began <= backup[x].key /\ today <= backup[x].began + 1
            /\ dumps[backup[x].key] # NoTime
        BY <3>1, <4>2 DEF RunHolds
      <4>4. backup[x].key \in Dates /\ today <= backup[x].key + 1
        <5>1. backup[x].key \in Dates /\ backup[x].began \in Dates
          BY <4>1, <4>3
        <5>2. backup[x].key \in Nat /\ backup[x].began \in Nat /\ today \in Nat
          BY <4>1, <5>1, DatesAreNumbers
        <5>3. QED
          BY <4>3, <5>1, <5>2
      <4>5. QED
        BY <4>3, <4>4
    <3>3. QED
      BY <3>1, <3>2 DEF RunHolds
  <2>3. QED
    BY <2>1, <2>2
<1>5. QED
  BY <1>2, <1>4 DEF BackupsInv

\* What a step finds that leaves the bucket and the successes alone.
LEMMA NothingStored ==
    ASSUME BackupsInv, UNCHANGED <<today, dumps>>
    PROVE  /\ dumps' \in [Dates -> Dates \cup {NoTime}]
           /\ \A d \in Dates : DumpHolds(d)'
           /\ \A d \in Dates : today <= d + 1 /\ dumps[d] # NoTime => dumps'[d] # NoTime
           /\ lastSuccess' = lastSuccess =>
                 /\ lastSuccess' \in [Takers -> Dates \cup {NoTime}]
                 /\ \A x \in Takers : SuccessHolds(x)'
<1>1. /\ dumps' \in [Dates -> Dates \cup {NoTime}]
      /\ \A d \in Dates : DumpHolds(d)'
      /\ \A d \in Dates : today <= d + 1 /\ dumps[d] # NoTime => dumps'[d] # NoTime
  BY DEF BackupsInv, BackupsTypeOK, DumpHolds
<1>2. ASSUME lastSuccess' = lastSuccess
      PROVE  /\ lastSuccess' \in [Takers -> Dates \cup {NoTime}]
             /\ \A x \in Takers : SuccessHolds(x)'
  BY <1>2 DEF BackupsInv, BackupsTypeOK, SuccessHolds, Stored
<1>3. QED
  BY <1>1, <1>2

\* The key of an upload is of today or of the day before.
LEMMA StoringADump ==
    ASSUME BackupsInv, NEW t \in Takers, backup[t].step = "uploading",
           dumps' = [dumps EXCEPT ![backup[t].key] = today], UNCHANGED <<today, lastSuccess>>
    PROVE  /\ dumps' \in [Dates -> Dates \cup {NoTime}]
           /\ \A d \in Dates : DumpHolds(d)'
           /\ \A d \in Dates : dumps[d] # NoTime => dumps'[d] # NoTime
           /\ lastSuccess' \in [Takers -> Dates \cup {NoTime}]
           /\ \A x \in Takers : SuccessHolds(x)'
           /\ dumps'[backup[t].key] # NoTime
<1> DEFINE k == backup[t].key
<1>1. /\ k \in Dates /\ today \in Dates /\ today <= k + 1
  <2>1. /\ k \in Dates \cup {NoTime} /\ backup[t].began \in Dates \cup {NoTime}
        /\ today \in Dates /\ RunHolds(t)
    BY DEF BackupsInv, BackupsTypeOK
  <2>2. QED
    BY <2>1, DatesAreNumbers DEF RunHolds
<1> HIDE DEF k
<1>2. dumps' = [dumps EXCEPT ![k] = today]
  BY DEF k
<1>3. dumps' \in [Dates -> Dates \cup {NoTime}]
  BY <1>1, <1>2 DEF BackupsInv, BackupsTypeOK
<1>4. \A d \in Dates : dumps'[d] = IF d = k THEN today ELSE dumps[d]
  BY <1>1, <1>2 DEF BackupsInv, BackupsTypeOK
<1>5. \A d \in Dates : DumpHolds(d)'
  BY <1>1, <1>4, DatesAreNumbers DEF BackupsInv, DumpHolds
<1>6. \A d \in Dates : dumps[d] # NoTime => dumps'[d] # NoTime
  BY <1>1, <1>4, DatesAreNumbers
<1>7. Stored \subseteq Stored'
  BY <1>6 DEF Stored
<1>8. \A x \in Takers : SuccessHolds(x)'
  BY <1>7 DEF BackupsInv, SuccessHolds
<1>9. dumps'[backup[t].key] # NoTime
  BY <1>1, <1>4, DatesAreNumbers DEF k
<1>10. QED
  BY <1>3, <1>5, <1>6, <1>8, <1>9 DEF BackupsInv, BackupsTypeOK

\* Where a run comes to when it ends, or the process does.
LEMMA AtRest ==
    ASSUME NEW step \in {"stopped", "seeding", "waiting"}
    PROVE  /\ [step |-> step, key |-> NoTime, began |-> NoTime] \in BackupStates
           /\ Stopped = [step |-> "stopped", key |-> NoTime, began |-> NoTime]
  BY DEF BackupStates, BackupSteps, Stopped

LEMMA EndingIsAtRest ==
    ASSUME NEW t \in Takers, Ends(t)
    PROVE  \E step \in {"stopped", "waiting"} :
              backup' = [backup EXCEPT ![t] = [step |-> step, key |-> NoTime, began |-> NoTime]]
  BY DEF Ends, Stopped

\* The run of a taker in hand, one step further.
LEMMA StepFurther ==
    ASSUME BackupsInv, NEW t \in Takers, NEW s \in BackupSteps
    PROVE  /\ backup[t] \in BackupStates
           /\ [backup[t] EXCEPT !.step = s] \in BackupStates
           /\ [backup EXCEPT ![t].step = s] = [backup EXCEPT ![t] = [backup[t] EXCEPT !.step = s]]
           /\ [backup[t] EXCEPT !.step = s].step = s
           /\ [backup[t] EXCEPT !.step = s].key = backup[t].key
           /\ [backup[t] EXCEPT !.step = s].began = backup[t].began
<1>1. backup \in [Takers -> BackupStates]
  BY DEF BackupsInv, BackupsTypeOK, BackupStates, BackupSteps
<1>2. backup[t] \in BackupStates
  BY <1>1
<1>3. QED
  BY <1>1, <1>2 DEF BackupStates

LEMMA StartingARun ==
    ASSUME BackupsInv, NEW t \in Takers, Runs(t),
           dueOn' \in [Machines -> 1 .. MaxDays + 1],
           UNCHANGED <<today, dumps>>,
           lastSuccess' \in [Takers -> Dates \cup {NoTime}],
           \A x \in Takers : SuccessHolds(x)'
    PROVE  BackupsInv'
<1> DEFINE b == [step |-> "dumping", key |-> NoTime, began |-> today]
<1>1. today \in Dates /\ today \in Nat /\ today # NoTime
  BY DatesAreNumbers DEF BackupsInv, BackupsTypeOK
<1>2. runs' \in 0 .. MaxRuns
  BY BackupsAssumption DEF Runs, BackupsInv, BackupsTypeOK
<1>3. /\ b \in BackupStates /\ b.step = "dumping" /\ b.began = today
      /\ backup' = [backup EXCEPT ![t] = b]
  BY <1>1 DEF BackupStates, BackupSteps, Runs
<1> HIDE DEF b
<1>4. b.began <= today /\ today <= b.began + 1 /\ b.began # NoTime
  BY <1>1, <1>3
<1>5. QED
  BY <1>2, <1>3, <1>4, MovingKeepsBackups, NothingStored

LEMMA EndingARun ==
    ASSUME BackupsInv, NEW t \in Takers, Ends(t),
           today' = today, runs' \in 0 .. MaxRuns,
           dueOn' \in [Machines -> 1 .. MaxDays + 1],
           dumps' \in [Dates -> Dates \cup {NoTime}],
           lastSuccess' \in [Takers -> Dates \cup {NoTime}],
           \A d \in Dates : DumpHolds(d)',
           \A x \in Takers : SuccessHolds(x)',
           \A d \in Dates : today <= d + 1 /\ dumps[d] # NoTime => dumps'[d] # NoTime
    PROVE  BackupsInv'
<1>1. PICK step \in {"stopped", "waiting"} :
         backup' = [backup EXCEPT ![t] = [step |-> step, key |-> NoTime, began |-> NoTime]]
  BY EndingIsAtRest
<1> DEFINE b == [step |-> step, key |-> NoTime, began |-> NoTime]
<1>2. /\ b \in BackupStates /\ b.step = step /\ b.began = NoTime
      /\ backup' = [backup EXCEPT ![t] = b]
  BY <1>1, AtRest
<1> HIDE DEF b
<1>3. QED
  BY <1>2, MovingKeepsBackups

\* The newest object of the bucket is as new as the success it is taken for.
LEMMA SeedingKeepsBackups ==
    ASSUME BackupsInv, NEW m \in Machines, Seed(m)
    PROVE  BackupsInv'
<1> DEFINE L == lastSuccess[m]
           S == {L} \cup (IF Stored = {} THEN {} ELSE {dumps[Max(Stored)]})
<1>1. m \in Takers /\ today \in Dates /\ L \in Dates \cup {NoTime} /\ SuccessHolds(m)
  BY DatesAreNumbers DEF BackupsInv, BackupsTypeOK
<1>2. UNCHANGED <<today, dumps>>
  BY DEF Seed
<1>3. dueOn' \in [Machines -> 1 .. MaxDays + 1]
  <2>1. today \in 1 .. MaxDays + 1 /\ today + 1 \in 1 .. MaxDays + 1
    BY <1>1, BackupsAssumption DEF Dates
  <2>2. dueOn \in [Machines -> 1 .. MaxDays + 1]
    BY DEF BackupsInv, BackupsTypeOK
  <2>3. \E d \in {today, today + 1} : dueOn' = [dueOn EXCEPT ![m] = d]
    BY DEF Seed
  <2>4. QED
    BY <2>1, <2>2, <2>3
<1>4. Stored # {} => Max(Stored) \in Stored
  <2>1. Stored \subseteq Dates /\ Dates \subseteq Int
    BY DatesAreNumbers DEF Stored
  <2>2. IsFiniteSet(Dates)
    BY BackupsAssumption, FS_Interval DEF Dates
  <2>3. IsFiniteSet(Stored) /\ Stored \subseteq Int
    BY <2>1, <2>2, FS_Subset
  <2>4. QED
    BY <2>3, FiniteMax
<1>5. \A n \in S : /\ n \in Dates \cup {NoTime} /\ n <= today
                   /\ n # NoTime => \E d \in Stored : n <= d + 1
  <2>1. ASSUME Stored # {}
        PROVE  LET n == dumps[Max(Stored)] IN
               n \in Dates /\ n <= today /\ n <= Max(Stored) + 1 /\ Max(Stored) \in Stored
    <3>1. Max(Stored) \in Dates /\ dumps[Max(Stored)] # NoTime
      BY <1>4, <2>1 DEF Stored
    <3>2. QED
      BY <1>4, <2>1, <3>1 DEF BackupsInv, BackupsTypeOK, DumpHolds
  <2>2. L <= today /\ (L # NoTime => \E d \in Stored : L <= d + 1)
    BY <1>1 DEF SuccessHolds
  <2>3. QED
    BY <1>1, <2>1, <2>2
<1>6. Max(S) \in S
  <2>1. IsFiniteSet(S)
    BY FS_Singleton, FS_Union, FS_EmptySet
  <2>2. S \subseteq Int /\ S # {}
    <3>1. Dates \cup {NoTime} \subseteq Int
      BY DatesAreNumbers
    <3>2. L \in S
      OBVIOUS
    <3> HIDE DEF S
    <3>3. QED
      BY <1>5, <3>1, <3>2
  <2> HIDE DEF S
  <2>3. QED
    BY <2>1, <2>2, FiniteMax
<1>7. lastSuccess' = lastSuccess \/ lastSuccess' = [lastSuccess EXCEPT ![m] = Max(S)]
  BY DEF Seed
<1> HIDE DEF S
<1>8. /\ lastSuccess' \in [Takers -> Dates \cup {NoTime}]
      /\ \A x \in Takers : SuccessHolds(x)'
  <2>1. lastSuccess \in [Takers -> Dates \cup {NoTime}] /\ \A x \in Takers : SuccessHolds(x)
    BY DEF BackupsInv, BackupsTypeOK
  <2>2. PICK n \in Dates \cup {NoTime} :
           /\ n <= today /\ (n # NoTime => \E d \in Stored : n <= d + 1)
           /\ lastSuccess' = [lastSuccess EXCEPT ![m] = n]
    <3>1. CASE lastSuccess' = lastSuccess
      <4>1. lastSuccess' = [lastSuccess EXCEPT ![m] = L]
        BY <1>1, <2>1, <3>1
      <4>2. QED
        BY <1>1, <4>1 DEF SuccessHolds
    <3>2. CASE lastSuccess' = [lastSuccess EXCEPT ![m] = Max(S)]
      BY <1>5, <1>6, <3>2
    <3>3. QED
      BY <1>7, <3>1, <3>2
  <2>3. \A x \in Takers : lastSuccess'[x] = IF x = m THEN n ELSE lastSuccess[x]
    BY <1>1, <2>1, <2>2
  <2>4. Stored' = Stored
    BY <1>2 DEF Stored
  <2>5. QED
    BY <1>1, <1>2, <2>1, <2>2, <2>3, <2>4 DEF SuccessHolds
<1>9. CASE Runs(m)
  BY <1>1, <1>2, <1>3, <1>8, <1>9, StartingARun
<1>10. CASE Ends(m) /\ UNCHANGED runs
  <2>1. runs' \in 0 .. MaxRuns
    BY <1>10 DEF BackupsInv, BackupsTypeOK
  <2>2. QED
    BY <1>1, <1>2, <1>3, <1>8, <1>10, <2>1, EndingARun, NothingStored
<1>11. QED
  BY <1>9, <1>10 DEF Seed

LEMMA UploadKeepsBackups ==
    ASSUME BackupsInv, NEW t \in Takers, UploadBegins(t)
    PROVE  BackupsInv'
<1> DEFINE b == [step |-> "uploading", key |-> today, began |-> backup[t].began]
<1>1. /\ backup[t].step = "dumped" /\ UNCHANGED <<today, dumps, dueOn, lastSuccess, runs>>
      /\ backup' = [backup EXCEPT ![t].step = "uploading", ![t].key = today]
  BY DEF UploadBegins
<1>2. backup[t] \in BackupStates /\ backup \in [Takers -> BackupStates]
  BY DEF BackupsInv, BackupsTypeOK, BackupStates, BackupSteps
<1>3. backup' = [backup EXCEPT ![t] = b]
  <2> DEFINE e == [backup[t] EXCEPT !.step = "uploading"]
             c == [e EXCEPT !.key = today]
  <2>1. c = b
    <3>1. backup[t] = [step |-> backup[t].step, key |-> backup[t].key,
                       began |-> backup[t].began]
      BY <1>2 DEF BackupStates
    <3>2. e = [step |-> "uploading", key |-> backup[t].key, began |-> backup[t].began]
      BY <3>1
    <3> HIDE DEF e
    <3>3. QED
      BY <3>2
  <2>2. backup' = [backup EXCEPT ![t] = c]
    BY <1>1, <1>2
  <2>3. QED
    BY <2>1, <2>2
<1>4. today \in Dates /\ today # NoTime /\ today \in Nat
  BY DatesAreNumbers DEF BackupsInv, BackupsTypeOK
<1>5. b \in BackupStates
  BY <1>2, <1>4 DEF BackupStates, BackupSteps
<1>6. /\ backup[t].began # NoTime /\ backup[t].began <= today
      /\ today <= backup[t].began + 1
  BY <1>1 DEF BackupsInv, RunHolds
<1>7. b.step = "uploading" /\ b.key = today /\ b.began = backup[t].began
  OBVIOUS
<1> HIDE DEF b
<1>8. b.began <= b.key /\ b.key <= today /\ b.key # NoTime
  BY <1>4, <1>6, <1>7
<1>9. dueOn' \in [Machines -> 1 .. MaxDays + 1] /\ runs' \in 0 .. MaxRuns
  BY <1>1 DEF BackupsInv, BackupsTypeOK
<1>10. QED
  BY <1>1, <1>3, <1>5, <1>6, <1>7, <1>8, <1>9, MovingKeepsBackups, NothingStored

\* The run's own key is of today or of the day before.
LEMMA SuccessKeepsBackups ==
    ASSUME BackupsInv, NEW t \in Takers, RecordSuccess(t)
    PROVE  BackupsInv'
<1> DEFINE b == [backup[t] EXCEPT !.step = "pruning"]
           k == backup[t].key
<1>1. /\ backup[t].step = "stored" /\ UNCHANGED <<today, dumps, dueOn, runs>>
      /\ lastSuccess' = [lastSuccess EXCEPT ![t] = today]
      /\ backup' = [backup EXCEPT ![t].step = "pruning"]
  BY DEF RecordSuccess, Reaches
<1>2. /\ b \in BackupStates /\ b.step = "pruning" /\ b.key = k /\ b.began = backup[t].began
      /\ backup' = [backup EXCEPT ![t] = b] /\ backup[t] \in BackupStates
  BY <1>1, StepFurther DEF BackupSteps
<1>3. /\ backup[t].began # NoTime /\ backup[t].began <= today /\ today <= backup[t].began + 1
      /\ k # NoTime /\ backup[t].began <= k /\ k <= today /\ dumps[k] # NoTime
  BY <1>1 DEF BackupsInv, RunHolds
<1>4. /\ today \in Dates /\ k \in Dates /\ backup[t].began \in Dates
  BY <1>2, <1>3 DEF BackupsInv, BackupsTypeOK, BackupStates
<1>5. today \in Nat /\ k \in Nat /\ backup[t].began \in Nat
  BY <1>4, DatesAreNumbers
<1>6. today <= k + 1 /\ k \in Stored
  BY <1>3, <1>4, <1>5 DEF Stored
<1>7. lastSuccess \in [Takers -> Dates \cup {NoTime}] /\ \A x \in Takers : SuccessHolds(x)
  BY DEF BackupsInv, BackupsTypeOK
<1>8. /\ lastSuccess' \in [Takers -> Dates \cup {NoTime}]
      /\ \A x \in Takers : lastSuccess'[x] = IF x = t THEN today ELSE lastSuccess[x]
  BY <1>1, <1>4, <1>7
<1>9. Stored' = Stored
  BY <1>1 DEF Stored
<1> HIDE DEF b, k
<1>10. \A x \in Takers : SuccessHolds(x)'
  BY <1>1, <1>5, <1>6, <1>7, <1>8, <1>9 DEF SuccessHolds
<1>11. dueOn' \in [Machines -> 1 .. MaxDays + 1] /\ runs' \in 0 .. MaxRuns
  BY <1>1 DEF BackupsInv, BackupsTypeOK
<1>12. /\ dumps' = dumps /\ today' = today
  BY <1>1
<1>13. QED
  BY <1>2, <1>3, <1>8, <1>10, <1>11, <1>12, MovingKeepsBackups, NothingStored

\* What is pruned is older than the pruner's own key, which backs whatever success an
\* instance shows.
LEMMA PruningKeepsBackups ==
    ASSUME BackupsInv, NEW t \in Takers, Prune(t)
    PROVE  BackupsInv'
<1> DEFINE k == backup[t].key
<1>1. /\ backup[t].step = "pruning" /\ Ends(t) /\ UNCHANGED <<today, dueOn, lastSuccess, runs>>
  BY DEF Prune
<1>2. PICK kept \in SUBSET {d \in Stored : Expired(d)} :
         dumps' = [d \in Dates |-> IF Expired(d) /\ d \notin kept THEN NoTime ELSE dumps[d]]
  BY DEF Prune
<1>3. /\ backup[t].began # NoTime /\ today <= backup[t].began + 1
      /\ k # NoTime /\ backup[t].began <= k /\ k <= today /\ dumps[k] # NoTime
  BY <1>1 DEF BackupsInv, RunHolds
<1>4. /\ today \in Dates /\ k \in Dates /\ backup[t].began \in Dates
  BY <1>3 DEF BackupsInv, BackupsTypeOK
<1>5. today \in Nat /\ k \in Nat /\ backup[t].began \in Nat
  BY <1>4, DatesAreNumbers
<1>6. today <= k + 1
  BY <1>3, <1>5
<1>7. /\ \A d \in Dates : dumps'[d] = NoTime \/ dumps'[d] = dumps[d]
      /\ \A d \in Dates : ~Expired(d) => dumps'[d] = dumps[d]
      /\ dumps' = [d \in Dates |-> dumps'[d]]
  BY <1>2
<1>8. \A d \in Dates : today <= d + 1 => ~Expired(d)
  BY <1>5, DatesAreNumbers, BackupsAssumption DEF Expired
<1>9. dumps' \in [Dates -> Dates \cup {NoTime}]
  BY <1>7 DEF BackupsInv, BackupsTypeOK
<1>10. \A d \in Dates : DumpHolds(d)'
  BY <1>1, <1>7 DEF BackupsInv, DumpHolds
<1>11. k \in Stored'
  BY <1>3, <1>4, <1>6, <1>7, <1>8 DEF Stored
<1> HIDE DEF k
<1>12. ASSUME NEW x \in Takers
       PROVE  SuccessHolds(x)'
  <2>1. lastSuccess[x] \in Nat /\ lastSuccess[x] <= today
    BY NumbersInHand DEF BackupsInv, SuccessHolds
  <2>2. lastSuccess[x] <= k + 1
    BY <1>5, <1>6, <2>1
  <2>3. QED
    BY <1>1, <1>11, <2>1, <2>2 DEF SuccessHolds
<1>13. QED
  BY <1>1, <1>7, <1>8, <1>9, <1>10, <1>12, EndingARun DEF BackupsInv, BackupsTypeOK

LEMMA FailingKeepsBackups ==
    ASSUME BackupsInv, NEW t \in Takers, RunFails(t)
    PROVE  BackupsInv'
<1>1. Ends(t) /\ UNCHANGED <<today, dueOn, lastSuccess, runs>>
  BY DEF RunFails
<1>2. dueOn' \in [Machines -> 1 .. MaxDays + 1] /\ runs' \in 0 .. MaxRuns
  BY <1>1 DEF BackupsInv, BackupsTypeOK
<1>3. CASE UNCHANGED dumps
  BY <1>1, <1>2, <1>3, EndingARun, NothingStored
<1>4. CASE /\ backup[t].step = "uploading"
           /\ dumps' = [dumps EXCEPT ![backup[t].key] = today]
  BY <1>1, <1>2, <1>4, EndingARun, StoringADump
<1>5. QED
  BY <1>3, <1>4 DEF RunFails

LEMMA KilledKeepsBackups ==
    ASSUME BackupsInv, NEW t \in Takers, Killed(t)
    PROVE  BackupsInv'
<1>1. /\ backup' = [backup EXCEPT ![t] = Stopped] /\ UNCHANGED <<today, dumps, dueOn, runs>>
      /\ lastSuccess' = [lastSuccess EXCEPT ![t] = NoTime]
  BY DEF Killed
<1>2. Stopped \in BackupStates /\ Stopped.began = NoTime /\ Stopped.step = "stopped"
  BY AtRest DEF Stopped
<1>3. /\ lastSuccess \in [Takers -> Dates \cup {NoTime}] /\ today \in Dates
      /\ \A x \in Takers : SuccessHolds(x)
      /\ dueOn' \in [Machines -> 1 .. MaxDays + 1] /\ runs' \in 0 .. MaxRuns
  BY <1>1 DEF BackupsInv, BackupsTypeOK
<1>4. /\ lastSuccess' \in [Takers -> Dates \cup {NoTime}]
      /\ \A x \in Takers : lastSuccess'[x] = IF x = t THEN NoTime ELSE lastSuccess[x]
  BY <1>1, <1>3
<1>5. Stored' = Stored /\ NoTime <= today
  BY <1>1, <1>3, DatesAreNumbers DEF Stored
<1>6. \A x \in Takers : SuccessHolds(x)'
  BY <1>1, <1>3, <1>4, <1>5 DEF SuccessHolds
<1>7. QED
  BY <1>1, <1>2, <1>3, <1>4, <1>6, MovingKeepsBackups, NothingStored

\* The calendar waits for a run that began the day before.
LEMMA MidnightKeepsBackups ==
    ASSUME BackupsInv, Midnight
    PROVE  BackupsInv'
<1>1. /\ today < MaxDays /\ today' = today + 1
      /\ \A t \in Takers : backup[t].began \in {NoTime, today}
      /\ UNCHANGED <<dumps, backup, dueOn, lastSuccess, runs>>
  BY DEF Midnight
<1>2. today \in Dates /\ today \in Nat /\ today' \in Dates /\ today' # NoTime
  <2>1. today \in Dates /\ today \in Nat
    BY DatesAreNumbers DEF BackupsInv, BackupsTypeOK
  <2>2. QED
    BY <1>1, <2>1, BackupsAssumption DEF Dates, NoTime
<1>3. BackupsTypeOK'
  BY <1>1, <1>2 DEF BackupsInv, BackupsTypeOK
<1>4. ASSUME NEW d \in Dates
      PROVE  DumpHolds(d)'
  <2>1. dumps[d] \in Nat /\ DumpHolds(d)
    BY NumbersInHand DEF BackupsInv
  <2>2. QED
    BY <1>1, <1>2, <2>1 DEF DumpHolds
<1>5. ASSUME NEW t \in Takers
      PROVE  SuccessHolds(t)' /\ RunHolds(t)'
  <2>1. lastSuccess[t] \in Nat /\ SuccessHolds(t) /\ RunHolds(t)
    BY NumbersInHand DEF BackupsInv
  <2>2. backup[t].key \in Nat /\ backup[t].began \in Nat
    BY NumbersInHand
  <2>3. Stored' = Stored
    BY <1>1 DEF Stored
  <2>4. SuccessHolds(t)'
    BY <1>1, <1>2, <2>1, <2>3 DEF SuccessHolds
  <2>5. backup[t].began = NoTime \/ backup[t].began = today
    BY <1>1
  <2>6. RunHolds(t)'
    BY <1>1, <1>2, <2>1, <2>2, <2>5 DEF RunHolds
  <2>7. QED
    BY <2>4, <2>6
<1>6. QED
  BY <1>3, <1>4, <1>5 DEF BackupsInv

LEMMA BackupsStep == BackupsInv /\ [BackupsNext]_backupVars => BackupsInv'
<1> SUFFICES ASSUME BackupsInv, [BackupsNext]_backupVars
             PROVE  BackupsInv'
  OBVIOUS
<1>0. /\ lastSuccess \in [Takers -> Dates \cup {NoTime}] /\ today \in Dates
      /\ \A x \in Takers : SuccessHolds(x)
      /\ dueOn \in [Machines -> 1 .. MaxDays + 1] /\ runs \in 0 .. MaxRuns
  BY DEF BackupsInv, BackupsTypeOK
<1>1. ASSUME NEW m \in Machines, StartScheduler(m)
      PROVE  BackupsInv'
  <2> DEFINE b == [step |-> "seeding", key |-> NoTime, began |-> NoTime]
  <2>1. /\ backup[m] = Stopped /\ UNCHANGED <<today, dumps, dueOn, lastSuccess, runs>>
        /\ backup' = [backup EXCEPT ![m].step = "seeding"] /\ m \in Takers
    BY <1>1, DatesAreNumbers DEF StartScheduler, Reaches
  <2>2. backup' = [backup EXCEPT ![m] = b]
    <3>1. [backup[m] EXCEPT !.step = "seeding"] = b
      BY <2>1 DEF Stopped
    <3>2. QED
      BY <2>1, <3>1, StepFurther DEF BackupSteps
  <2>3. b \in BackupStates /\ b.step = "seeding" /\ b.began = NoTime
    BY AtRest
  <2> HIDE DEF b
  <2>4. QED
    BY <1>0, <2>1, <2>2, <2>3, MovingKeepsBackups, NothingStored
<1>2. ASSUME NEW m \in Machines, NightlyRun(m)
      PROVE  BackupsInv'
  <2>1. /\ Runs(m) /\ dueOn' = [dueOn EXCEPT ![m] = today + 1]
        /\ UNCHANGED <<today, dumps, lastSuccess>> /\ m \in Takers
    BY <1>2, DatesAreNumbers DEF NightlyRun
  <2>2. today + 1 \in 1 .. MaxDays + 1
    BY <1>0, BackupsAssumption DEF Dates
  <2>3. dueOn' \in [Machines -> 1 .. MaxDays + 1]
    BY <1>0, <2>1, <2>2
  <2>4. QED
    BY <2>1, <2>3, StartingARun, NothingStored
<1>3. CASE RunBackup
  BY <1>0, <1>3, StartingARun, NothingStored, DatesAreNumbers DEF RunBackup
<1>4. ASSUME NEW t \in Takers, DumpVerified(t)
      PROVE  BackupsInv'
  <2> DEFINE b == [backup[t] EXCEPT !.step = "dumped"]
  <2>1. /\ backup[t].step = "dumping" /\ UNCHANGED <<today, dumps, dueOn, lastSuccess, runs>>
        /\ backup' = [backup EXCEPT ![t].step = "dumped"]
    BY <1>4 DEF DumpVerified, Reaches
  <2>2. /\ b \in BackupStates /\ b.step = "dumped" /\ b.began = backup[t].began
        /\ backup' = [backup EXCEPT ![t] = b]
    BY <2>1, StepFurther DEF BackupSteps
  <2>3. /\ backup[t].began # NoTime /\ backup[t].began <= today
        /\ today <= backup[t].began + 1
    BY <2>1 DEF BackupsInv, RunHolds
  <2> HIDE DEF b
  <2>4. QED
    BY <1>0, <2>1, <2>2, <2>3, MovingKeepsBackups, NothingStored
<1>5. ASSUME NEW t \in Takers, PutObject(t)
      PROVE  BackupsInv'
  <2> DEFINE b == [backup[t] EXCEPT !.step = "stored"]
  <2>1. /\ backup[t].step = "uploading" /\ UNCHANGED <<today, dueOn, lastSuccess, runs>>
        /\ backup' = [backup EXCEPT ![t].step = "stored"]
        /\ dumps' = [dumps EXCEPT ![backup[t].key] = today]
    BY <1>5 DEF PutObject, Reaches
  <2>2. /\ b \in BackupStates /\ b.step = "stored" /\ b.began = backup[t].began
        /\ b.key = backup[t].key /\ backup' = [backup EXCEPT ![t] = b]
    BY <2>1, StepFurther DEF BackupSteps
  <2>3. /\ backup[t].began # NoTime /\ backup[t].began <= today /\ today <= backup[t].began + 1
        /\ backup[t].key # NoTime /\ backup[t].began <= backup[t].key /\ backup[t].key <= today
    BY <2>1 DEF BackupsInv, RunHolds
  <2> HIDE DEF b
  <2>4. /\ dumps' \in [Dates -> Dates \cup {NoTime}]
        /\ \A d \in Dates : DumpHolds(d)'
        /\ \A d \in Dates : dumps[d] # NoTime => dumps'[d] # NoTime
        /\ lastSuccess' \in [Takers -> Dates \cup {NoTime}]
        /\ \A x \in Takers : SuccessHolds(x)'
        /\ dumps'[b.key] # NoTime
    BY <2>1, <2>2, StoringADump
  <2>5. dueOn' \in [Machines -> 1 .. MaxDays + 1] /\ runs' \in 0 .. MaxRuns /\ today' = today
    BY <1>0, <2>1
  <2>6. QED
    BY <2>2, <2>3, <2>4, <2>5, MovingKeepsBackups
<1>6. CASE UNCHANGED backupVars
  <2>1. UNCHANGED <<today, dumps, backup, dueOn, lastSuccess, runs>>
    BY <1>6 DEF backupVars
  <2>2. Stored' = Stored
    BY <2>1 DEF Stored
  <2>3. QED
    BY <2>1, <2>2 DEF BackupsInv, BackupsTypeOK, DumpHolds, RunHolds, SuccessHolds
<1>7. Machines \subseteq Takers
  BY DatesAreNumbers
<1>8. QED
  BY <1>1, <1>2, <1>3, <1>4, <1>5, <1>6, <1>7, SeedingKeepsBackups, UploadKeepsBackups,
     SuccessKeepsBackups, PruningKeepsBackups, FailingKeepsBackups, KilledKeepsBackups,
     MidnightKeepsBackups DEF BackupsNext

LEMMA FreshnessHolds == BackupsInv => BackupsTypeOK /\ FreshnessIsBacked
<1> SUFFICES ASSUME BackupsInv
             PROVE  BackupsTypeOK /\ FreshnessIsBacked
  OBVIOUS
<1>1. ASSUME NEW m \in Machines, lastSuccess[m] # NoTime
      PROVE  \E d \in Stored : d + 1 >= lastSuccess[m]
  <2>1. PICK d \in Stored : lastSuccess[m] <= d + 1
    BY <1>1, DatesAreNumbers DEF BackupsInv, SuccessHolds
  <2>2. d + 1 >= lastSuccess[m]
    BY <2>1
  <2>3. QED
    BY <2>2
<1>2. QED
  BY <1>1 DEF FreshnessIsBacked, BackupsInv

-----------------------------------------------------------------------------
(* The schema and who migrates it: module Migrations. *)

Whole(v) == 1 .. v \subseteq applied

MachineSteps == {"off", "opened", "forcing", "up", "applying", "running", "ran", "reverting",
                 "undoing", "undone", "checking", "connecting", "connected", "serving"}
Downward == {"reverting", "undoing", "undone"}
Locking == {"applying", "running", "ran"} \cup Downward
Outside == {"off", "opened", "forcing", "up", "serving"}

\* What a process that is about to force a version, or holds the advisory lock, or has
\* come through Migrate, may count on.
ProcessHolds(p) ==
    LET s == machine[p].step
        v == machine[p].at
    IN /\ s = "forcing" => Whole(v)
       /\ s \in Locking => migrating = p
       /\ s \in Downward => p = Operator /\ v \in Versions
       /\ s = "applying" => /\ ~schema.dirty /\ schema.version < Image[p]
                            /\ Known(p, schema.version)
       /\ s \in {"running", "ran"} =>
             schema.version = v /\ schema.dirty /\ v \in 1 .. Image[p]
       /\ s = "ran" => v \in applied
       /\ s = "reverting" => schema.version = v /\ ~schema.dirty
       /\ s \in {"undoing", "undone"} =>
             schema.version = Before(v) /\ schema.dirty /\ Whole(v - 1)
       /\ s \in {"checking", "connecting", "connected"} => Whole(Image[p])

\* While a migration is taken back no other process counts on it.
TakenBackAlone ==
    machine[Operator].step \in Downward =>
       /\ advice < machine[Operator].at
       /\ \A p \in Servers :
             /\ machine[p].step \in Outside
             /\ machine[p].step = "forcing" => machine[p].at < machine[Operator].at

\* Below the version of the row everything is applied, and the version too when the
\* row is clean; so is what a refusal advises to force.
RowHolds ==
    /\ Whole(schema.version - 1) /\ (~schema.dirty => Whole(schema.version))
    /\ Whole(advice)

MigrationsInv ==
    /\ MigrationsTypeOK /\ RowHolds
    /\ \A p \in Processes : ProcessHolds(p)
    /\ TakenBackAlone

LEMMA ImagesAreKnown ==
    /\ Newest \in Nat \ {0} /\ Versions = 1 .. Newest
    /\ \A p \in Processes : Image[p] \in Nat \ {0} /\ Image[p] <= Newest
    /\ Operator \in Processes /\ Servers \subseteq Processes /\ Nobody \notin Processes
    /\ Processes = Servers \cup {Operator} /\ Operator \notin Servers
<1> USE MigrationsAssumption
<1> DEFINE Images == {Image[p] : p \in Processes}
<1>1. IsFiniteSet(Processes) /\ Operator \in Processes
  BY FS_AddElement DEF Processes
<1>2. Image \in Surjection(Processes, Images)
  BY DEF Surjection
<1>3. IsFiniteSet(Images)
  BY <1>1, <1>2, FS_Surjection
<1>4. Images \subseteq Int /\ Images # {} /\ Images \subseteq Nat \ {0}
  BY <1>1
<1>5. Max(Images) \in Images /\ \A n \in Images : n <= Max(Images)
  <2> HIDE DEF Images
  <2>1. QED
    BY <1>3, <1>4, FiniteMax
<1>6. Newest \in Images /\ \A p \in Processes : Image[p] <= Newest
  BY <1>5 DEF Newest
<1>7. QED
  BY <1>1, <1>4, <1>6 DEF Versions, Processes

LEMMA MigrationsBegin == MigrationsInit => MigrationsInv
<1> SUFFICES ASSUME MigrationsInit
             PROVE  MigrationsInv
  OBVIOUS
<1> USE MigrationsAssumption, ImagesAreKnown DEF MigrationsInit, NilVersion, NoAdvice, Off
<1>1. MigrationsTypeOK
  BY DEF MigrationsTypeOK
<1>2. RowHolds
  BY DEF RowHolds, Whole
<1>3. \A p \in Processes : ProcessHolds(p)
  BY DEF ProcessHolds, Locking, Downward
<1>4. TakenBackAlone
  BY DEF TakenBackAlone, Downward
<1>5. QED
  BY <1>1, <1>2, <1>3, <1>4 DEF MigrationsInv

LEMMA MachineMoves ==
    ASSUME MigrationsInv, NEW p \in Processes, NEW s \in MachineSteps,
           NEW v \in NilVersion .. Newest,
           machine' = [machine EXCEPT ![p] = [step |-> s, at |-> v]]
    PROVE  /\ machine' \in [Processes -> [step : MachineSteps, at : NilVersion .. Newest]]
           /\ machine'[p].step = s /\ machine'[p].at = v
           /\ \A q \in Processes \ {p} : machine'[q] = machine[q]
<1>1. machine \in [Processes -> [step : MachineSteps, at : NilVersion .. Newest]]
  BY DEF MigrationsInv, MigrationsTypeOK, MachineSteps
<1>2. [step |-> s, at |-> v] \in [step : MachineSteps, at : NilVersion .. Newest]
  OBVIOUS
<1>3. QED
  BY <1>1, <1>2

LEMMA WaysToMove ==
    ASSUME MigrationsInv, NEW p \in Processes
    PROVE  /\ machine[p].step \in MachineSteps /\ machine[p].at \in NilVersion .. Newest
           /\ \A s : Steps(p, s) =>
                 machine' = [machine EXCEPT ![p] = [step |-> s, at |-> machine[p].at]]
           /\ \A s, v : MovesOn(p, s, v) =>
                 machine' = [machine EXCEPT ![p] = [step |-> s, at |-> v]]
           /\ Exits(p) =>
                 machine' = [machine EXCEPT ![p] = [step |-> "off", at |-> NilVersion]]
           /\ NilVersion \in NilVersion .. Newest
           /\ machine' = machine =>
                 machine' = [machine EXCEPT ![p] = [step |-> machine[p].step,
                                                    at |-> machine[p].at]]
<1>1. machine \in [Processes -> [step : MachineSteps, at : NilVersion .. Newest]]
  BY DEF MigrationsInv, MigrationsTypeOK, MachineSteps
<1>2. /\ machine[p].step \in MachineSteps /\ machine[p].at \in NilVersion .. Newest
      /\ machine[p] = [step |-> machine[p].step, at |-> machine[p].at]
  BY <1>1
<1>3. NilVersion \in NilVersion .. Newest
  BY ImagesAreKnown DEF NilVersion
<1>4. ASSUME NEW s, Steps(p, s)
      PROVE  machine' = [machine EXCEPT ![p] = [step |-> s, at |-> machine[p].at]]
  <2>1. [machine[p] EXCEPT !.step = s] = [step |-> s, at |-> machine[p].at]
    BY <1>2
  <2>2. machine' = [machine EXCEPT ![p] = [machine[p] EXCEPT !.step = s]]
    BY <1>4 DEF Steps
  <2>3. QED
    BY <2>1, <2>2
<1>5. machine' = machine =>
         machine' = [machine EXCEPT ![p] = [step |-> machine[p].step, at |-> machine[p].at]]
  BY <1>1, <1>2
<1>6. QED
  BY <1>2, <1>3, <1>4, <1>5 DEF MovesOn, Exits, Off

\* A step of one process that takes nothing back: the others go on counting on what
\* they did, unless they hold the lock.
LEMMA MovingKeepsMigrations ==
    ASSUME MigrationsInv, NEW p \in Processes,
           NEW s \in MachineSteps \ Downward, NEW v \in NilVersion .. Newest,
           machine' = [machine EXCEPT ![p] = [step |-> s, at |-> v]],
           schema' \in [version : NilVersion .. Newest, dirty : BOOLEAN],
           applied' \subseteq Versions, takenBack' \subseteq Versions, applied \subseteq applied',
           migrating' \in Processes \cup {Nobody},
           advice' \in NoAdvice .. Newest, boots' \in 0 .. MaxBoots,
           (schema' = schema /\ migrating' = migrating) \/ migrating \in {p, Nobody},
           RowHolds', ProcessHolds(p)',
           machine[Operator].step \in Downward /\ p # Operator =>
              /\ s \in Outside /\ (s = "forcing" => v < machine[Operator].at)
              /\ advice' < machine[Operator].at
    PROVE  MigrationsInv'
<1>1. /\ machine' \in [Processes -> [step : MachineSteps, at : NilVersion .. Newest]]
      /\ machine'[p].step = s /\ machine'[p].at = v
      /\ \A q \in Processes \ {p} : machine'[q] = machine[q]
  BY MachineMoves
<1>2. MigrationsTypeOK'
  BY <1>1 DEF MigrationsTypeOK, MachineSteps
<1>3. ASSUME NEW q \in Processes \ {p}
      PROVE  ProcessHolds(q)'
  <2>1. machine'[q] = machine[q] /\ ProcessHolds(q)
    BY <1>1 DEF MigrationsInv
  <2>2. \A n : Whole(n) => Whole(n)'
    BY DEF Whole
  <2>3. CASE machine[q].step \in Locking
    <3>1. migrating = q /\ schema' = schema /\ migrating' = migrating
      BY <2>1, <2>3, ImagesAreKnown DEF ProcessHolds
    <3>2. QED
      BY <2>1, <2>2, <3>1 DEF ProcessHolds
  <2>4. CASE machine[q].step \notin Locking
    BY <2>1, <2>2, <2>4 DEF ProcessHolds, Locking, Downward
  <2>5. QED
    BY <2>3, <2>4
<1>4. TakenBackAlone'
  <2>1. SUFFICES ASSUME machine'[Operator].step \in Downward
                 PROVE  /\ advice' < machine'[Operator].at
                        /\ \A q \in Servers :
                              /\ machine'[q].step \in Outside
                              /\ machine'[q].step = "forcing" => machine'[q].at < machine'[Operator].at
    BY DEF TakenBackAlone
  <2>2. p # Operator /\ machine'[Operator] = machine[Operator]
    BY <1>1, <2>1, ImagesAreKnown
  <2>3. /\ s \in Outside /\ (s = "forcing" => v < machine[Operator].at)
        /\ advice' < machine[Operator].at /\ TakenBackAlone
    BY <2>1, <2>2 DEF MigrationsInv
  <2>4. ASSUME NEW q \in Servers
        PROVE  /\ machine'[q].step \in Outside
               /\ machine'[q].step = "forcing" => machine'[q].at < machine'[Operator].at
    <3>1. CASE q = p
      BY <1>1, <2>2, <2>3, <3>1
    <3>2. CASE q # p
      BY <1>1, <2>1, <2>2, <2>3, <3>2, ImagesAreKnown DEF TakenBackAlone
    <3>3. QED
      BY <3>1, <3>2
  <2>5. QED
    BY <2>2, <2>3, <2>4
<1>5. QED
  BY <1>2, <1>3, <1>4 DEF MigrationsInv

\* A step that leaves the schema and the lock alone.
LEMMA LookingKeepsMigrations ==
    ASSUME MigrationsInv, NEW p \in Processes,
           NEW s \in {"off", "opened", "forcing", "up", "checking", "connecting", "connected",
                      "serving"},
           NEW v \in NilVersion .. Newest,
           machine' = [machine EXCEPT ![p] = [step |-> s, at |-> v]],
           UNCHANGED <<schema, applied, takenBack>>,
           migrating' = migrating \/ (migrating' = Nobody /\ migrating = p),
           advice' \in NoAdvice .. Newest, boots' \in 0 .. MaxBoots,
           Whole(advice'),
           s = "forcing" => Whole(v),
           s \in {"checking", "connecting", "connected"} => Whole(Image[p]),
           machine[Operator].step \in Downward /\ p # Operator =>
              /\ s \in Outside /\ (s = "forcing" => v < machine[Operator].at)
              /\ advice' < machine[Operator].at
    PROVE  MigrationsInv'
<1>1. /\ machine'[p].step = s /\ machine'[p].at = v
      /\ s \in MachineSteps \ Downward /\ s \notin Locking
  BY MachineMoves DEF MachineSteps, Downward, Locking
<1>2. /\ schema' \in [version : NilVersion .. Newest, dirty : BOOLEAN]
      /\ applied' \subseteq Versions /\ takenBack' \subseteq Versions /\ applied \subseteq applied'
      /\ migrating' \in Processes \cup {Nobody}
  BY DEF MigrationsInv, MigrationsTypeOK
<1>3. RowHolds'
  BY DEF MigrationsInv, RowHolds, Whole
<1>4. ProcessHolds(p)'
  BY <1>1 DEF ProcessHolds, Whole, Locking, Downward
<1>5. (schema' = schema /\ migrating' = migrating) \/ migrating \in {p, Nobody}
  OBVIOUS
<1>6. QED
  BY <1>1, <1>2, <1>3, <1>4, <1>5, MovingKeepsMigrations

\* The lock is free only while no one is under way with the schema.
LEMMA FreeLock ==
    ASSUME MigrationsInv, migrating = Nobody
    PROVE  \A p \in Processes : machine[p].step \notin Locking
  BY ImagesAreKnown DEF MigrationsInv, ProcessHolds

\* Whoever is not outside, or holds the lock, is the only one while it is taken back.
LEMMA AloneOutside ==
    ASSUME MigrationsInv, NEW p \in Processes, p # Operator,
           machine[Operator].step \in Downward
    PROVE  /\ machine[p].step \in Outside /\ migrating = Operator
           /\ advice < machine[Operator].at
           /\ machine[p].step = "forcing" => machine[p].at < machine[Operator].at
  BY ImagesAreKnown DEF MigrationsInv, TakenBackAlone, ProcessHolds, Locking

LEMMA BootKeepsMigrations ==
    ASSUME MigrationsInv, NEW p \in Processes, Boot(p)
    PROVE  MigrationsInv'
<1>1. /\ machine[p].step = "off" /\ boots < MaxBoots /\ boots' = boots + 1
      /\ UNCHANGED <<schema, applied, takenBack, migrating, advice>>
      /\ Steps(p, "opened") \/ machine' = machine
  BY DEF Boot, AtStep
<1>2. boots' \in 0 .. MaxBoots /\ advice \in NoAdvice .. Newest /\ Whole(advice)
  BY <1>1, MigrationsAssumption DEF MigrationsInv, MigrationsTypeOK, RowHolds
<1>3. PICK s \in {"off", "opened"} :
         machine' = [machine EXCEPT ![p] = [step |-> s, at |-> machine[p].at]]
  BY <1>1, WaysToMove
<1>4. machine[p].at \in NilVersion .. Newest
  BY WaysToMove
<1>5. /\ advice' = advice /\ migrating' = migrating
      /\ UNCHANGED <<schema, applied, takenBack>>
  BY <1>1
<1>6. machine[Operator].step \in Downward /\ p # Operator =>
         s \in Outside /\ advice' < machine[Operator].at
  BY <1>5, AloneOutside DEF Outside
<1>7. s # "forcing" /\ s \notin {"checking", "connecting", "connected"}
  BY <1>3
<1>8. QED
  BY <1>2, <1>3, <1>4, <1>5, <1>6, <1>7, LookingKeepsMigrations

\* Recovery goes back before the version whose migration may have failed.
LEMMA RetriedGoesBack ==
    ASSUME MigrationsInv, schema.version # NilVersion
    PROVE  /\ Retried(schema.version) \in NilVersion .. Newest
           /\ Whole(Retried(schema.version))
           /\ \A n \in Nat : schema.version < n => Retried(schema.version) < n
<1>1. schema.version \in NilVersion .. Newest /\ Newest \in Nat
  BY ImagesAreKnown DEF MigrationsInv, MigrationsTypeOK
<1>2. schema.version \in Nat
  BY <1>1 DEF NilVersion
<1>3. CASE schema.version = 0
  <2>1. Retried(schema.version) = NilVersion
    BY <1>3 DEF Retried
  <2>2. QED
    BY <1>1, <1>3, <2>1 DEF NilVersion, Whole
<1>4. CASE schema.version # 0
  <2>1. Retried(schema.version) = schema.version - 1
    BY <1>2, <1>4 DEF Retried
  <2>2. QED
    BY <1>1, <1>2, <1>4, <2>1 DEF NilVersion, MigrationsInv, RowHolds
<1>5. QED
  BY <1>3, <1>4

LEMMA DownwardRow ==
    ASSUME MigrationsInv, machine[Operator].step \in Downward, schema.dirty
    PROVE  machine[Operator].at \in Nat \ {0} /\ schema.version < machine[Operator].at
<1>1. /\ machine[Operator].at \in 1 .. Newest /\ Newest \in Nat
      /\ schema.version = Before(machine[Operator].at)
  BY ImagesAreKnown DEF MigrationsInv, ProcessHolds, Downward
<1>2. QED
  BY <1>1 DEF Before, NilVersion

LEMMA ReadingKeepsMigrations ==
    ASSUME MigrationsInv, NEW p \in Processes, ReadVersion(p)
    PROVE  MigrationsInv'
<1>1. /\ machine[p].step = "opened" /\ UNCHANGED <<schema, applied, takenBack, migrating, boots>>
      /\ advice \in NoAdvice .. Newest /\ boots' \in 0 .. MaxBoots /\ Whole(advice)
      /\ machine[p].at \in NilVersion .. Newest /\ NilVersion \in NilVersion .. Newest
  BY WaysToMove DEF ReadVersion, AtStep, MigrationsInv, MigrationsTypeOK, RowHolds
<1>2. migrating' = migrating /\ UNCHANGED <<schema, applied, takenBack>>
  BY <1>1
<1> DEFINE back == Retried(schema.version)
<1>3. CASE schema.version # NilVersion /\ schema.dirty
  <2>1. /\ back \in NilVersion .. Newest /\ Whole(back)
        /\ \A n \in Nat : schema.version < n => back < n
    BY <1>3, RetriedGoesBack
  <2>2. back \in NoAdvice .. Newest
    BY <2>1, ImagesAreKnown DEF NoAdvice, NilVersion
  <2>3. machine[Operator].step \in Downward /\ p # Operator =>
           back < machine[Operator].at /\ advice < machine[Operator].at
    BY <1>3, <2>1, DownwardRow, AloneOutside
  <2> HIDE DEF back
  <2>4. CASE MovesOn(p, "forcing", back) /\ advice' = advice
    <3>1. machine' = [machine EXCEPT ![p] = [step |-> "forcing", at |-> back]]
      BY <2>4, WaysToMove
    <3>2. "forcing" \in Outside
      BY DEF Outside
    <3>3. QED
      BY <1>1, <1>2, <2>1, <2>3, <2>4, <3>1, <3>2, LookingKeepsMigrations
  <2>5. CASE Exits(p) /\ advice' = back
    <3>1. machine' = [machine EXCEPT ![p] = [step |-> "off", at |-> NilVersion]]
      BY <2>5, WaysToMove
    <3>2. "off" \in Outside
      BY DEF Outside
    <3>3. QED
      BY <1>1, <1>2, <2>1, <2>2, <2>3, <2>5, <3>1, <3>2, LookingKeepsMigrations
  <2>6. QED
    BY <1>3, <2>4, <2>5 DEF ReadVersion, back
<1>4. CASE ~(schema.version # NilVersion /\ schema.dirty)
  <2>1. Steps(p, "up") /\ advice' = advice
    BY <1>4 DEF ReadVersion
  <2>2. machine' = [machine EXCEPT ![p] = [step |-> "up", at |-> machine[p].at]]
    BY <2>1, WaysToMove
  <2>3. "up" \in Outside
    BY DEF Outside
  <2>4. machine[Operator].step \in Downward /\ p # Operator => advice' < machine[Operator].at
    BY <2>1, AloneOutside
  <2>5. QED
    BY <1>1, <1>2, <2>1, <2>2, <2>3, <2>4, LookingKeepsMigrations
<1>5. QED
  BY <1>3, <1>4

\* The version that is forced has everything below it applied.
LEMMA ForcingKeepsMigrations ==
    ASSUME MigrationsInv, NEW p \in Processes, AutoRecover(p)
    PROVE  MigrationsInv'
<1>1. /\ machine[p].step = "forcing" /\ migrating = Nobody
      /\ schema' = [version |-> machine[p].at, dirty |-> FALSE] /\ Steps(p, "up")
      /\ UNCHANGED <<applied, takenBack, migrating, advice, boots>>
  BY DEF AutoRecover, Forced, AtStep
<1> DEFINE v == machine[p].at
<1>2. /\ v \in NilVersion .. Newest /\ Whole(v)
      /\ machine' = [machine EXCEPT ![p] = [step |-> "up", at |-> v]]
  BY <1>1, WaysToMove DEF MigrationsInv, ProcessHolds
<1>3. /\ schema' \in [version : NilVersion .. Newest, dirty : BOOLEAN]
      /\ applied' \subseteq Versions /\ takenBack' \subseteq Versions /\ applied \subseteq applied'
      /\ migrating' \in Processes \cup {Nobody}
      /\ advice' \in NoAdvice .. Newest /\ boots' \in 0 .. MaxBoots
  BY <1>1, <1>2 DEF MigrationsInv, MigrationsTypeOK
<1>4. RowHolds'
  <2>1. schema'.version = v /\ v \in Int
    BY <1>1, <1>2, ImagesAreKnown DEF NilVersion
  <2>2. Whole(v - 1)
    BY <1>2, <2>1 DEF Whole
  <2>3. QED
    BY <1>1, <1>2, <2>1, <2>2 DEF MigrationsInv, RowHolds, Whole
<1>5. "up" \in MachineSteps \ Downward /\ machine'[p].step = "up"
  BY <1>2, MachineMoves DEF MachineSteps, Downward
<1>6. ProcessHolds(p)'
  BY <1>5 DEF ProcessHolds, Locking, Downward
<1>7. machine[Operator].step \notin Downward
  BY <1>1, FreeLock, ImagesAreKnown DEF Locking
<1>8. QED
  BY <1>1, <1>2, <1>3, <1>4, <1>5, <1>6, <1>7, MovingKeepsMigrations

LEMMA LockedOutKeepsMigrations ==
    ASSUME MigrationsInv, NEW p \in Processes,
           Exits(p), UNCHANGED <<schema, applied, takenBack, advice, boots>>,
           migrating' = migrating \/ (migrating' = Nobody /\ migrating = p)
    PROVE  MigrationsInv'
<1>1. /\ machine' = [machine EXCEPT ![p] = [step |-> "off", at |-> NilVersion]]
      /\ NilVersion \in NilVersion .. Newest
  BY WaysToMove
<1>2. /\ advice' \in NoAdvice .. Newest /\ boots' \in 0 .. MaxBoots
      /\ advice' = advice /\ Whole(advice') /\ UNCHANGED <<schema, applied, takenBack>>
  BY DEF MigrationsInv, MigrationsTypeOK, RowHolds
<1>3. machine[Operator].step \in Downward /\ p # Operator => advice' < machine[Operator].at
  BY <1>2, AloneOutside
<1>4. "off" \in Outside
  BY DEF Outside
<1>5. QED
  BY <1>1, <1>2, <1>3, <1>4, LookingKeepsMigrations

LEMMA UpKeepsMigrations ==
    ASSUME MigrationsInv, NEW p \in Processes, Up(p)
    PROVE  MigrationsInv'
<1>1. /\ machine[p].step = "up" /\ migrating = Nobody
      /\ UNCHANGED <<schema, applied, takenBack, advice, boots>>
  BY DEF Up, AtStep
<1>2. /\ machine[p].at \in NilVersion .. Newest
      /\ advice' \in NoAdvice .. Newest /\ boots' \in 0 .. MaxBoots
      /\ Whole(advice') /\ UNCHANGED <<schema, applied, takenBack>> /\ RowHolds
  BY <1>1, WaysToMove DEF MigrationsInv, MigrationsTypeOK, RowHolds
<1>3. machine[Operator].step \notin Downward
  BY <1>1, FreeLock, ImagesAreKnown DEF Locking
<1>4. CASE Exits(p) /\ UNCHANGED migrating
  BY <1>1, <1>4, LockedOutKeepsMigrations
<1>5. CASE /\ ~schema.dirty /\ schema.version = Image[p]
           /\ Steps(p, "checking") /\ UNCHANGED migrating
  <2>1. machine' = [machine EXCEPT ![p] = [step |-> "checking", at |-> machine[p].at]]
    BY <1>5, WaysToMove
  <2>2. Whole(Image[p])
    BY <1>2, <1>5 DEF RowHolds
  <2>3. migrating' = migrating
    BY <1>5
  <2>4. QED
    BY <1>2, <1>3, <2>1, <2>2, <2>3, LookingKeepsMigrations
<1>6. CASE /\ ~schema.dirty /\ Known(p, schema.version) /\ schema.version # Image[p]
           /\ Steps(p, "applying") /\ migrating' = p
  <2>1. machine' = [machine EXCEPT ![p] = [step |-> "applying", at |-> machine[p].at]]
    BY <1>6, WaysToMove
  <2>2. /\ machine'[p].step = "applying" /\ "applying" \in MachineSteps \ Downward
    BY <1>2, <2>1, MachineMoves DEF MachineSteps, Downward
  <2>3. schema.version < Image[p]
    <3>1. Image[p] \in Nat \ {0} /\ schema.version \in Int
      BY ImagesAreKnown DEF MigrationsInv, MigrationsTypeOK, NilVersion
    <3>2. QED
      BY <1>6, <3>1 DEF Known, NilVersion
  <2>4. ProcessHolds(p)'
    BY <1>1, <1>6, <2>2, <2>3 DEF ProcessHolds, Downward, Known
  <2>5. /\ schema' \in [version : NilVersion .. Newest, dirty : BOOLEAN]
        /\ applied' \subseteq Versions /\ takenBack' \subseteq Versions /\ applied \subseteq applied'
        /\ migrating' \in Processes \cup {Nobody}
    BY <1>1, <1>6 DEF MigrationsInv, MigrationsTypeOK
  <2>6. RowHolds'
    BY <1>1, <1>2 DEF RowHolds, Whole
  <2>7. QED
    BY <1>1, <1>2, <1>3, <2>1, <2>2, <2>4, <2>5, <2>6, MovingKeepsMigrations
<1>7. QED
  BY <1>4, <1>5, <1>6 DEF Up

\* What the holder of the lock changes: the row, or what is applied.
LEMMA HolderKeepsMigrations ==
    ASSUME MigrationsInv, NEW p \in Processes, migrating = p,
           NEW s \in {"applying", "running", "ran", "checking"},
           NEW v \in NilVersion .. Newest,
           machine' = [machine EXCEPT ![p] = [step |-> s, at |-> v]],
           schema' \in [version : NilVersion .. Newest, dirty : BOOLEAN],
           applied' \subseteq Versions, takenBack' \subseteq Versions, applied \subseteq applied',
           migrating' \in {p, Nobody}, UNCHANGED <<advice, boots>>,
           RowHolds', ProcessHolds(p)', machine[p].step \notin Downward
    PROVE  MigrationsInv'
<1>1. /\ s \in MachineSteps \ Downward
      /\ migrating' \in Processes \cup {Nobody} /\ migrating \in {p, Nobody}
      /\ advice' \in NoAdvice .. Newest /\ boots' \in 0 .. MaxBoots
  BY DEF MachineSteps, Downward, MigrationsInv, MigrationsTypeOK
<1>2. machine[Operator].step \notin Downward
  BY ImagesAreKnown DEF MigrationsInv, ProcessHolds, Locking
<1>3. QED
  BY <1>1, <1>2, MovingKeepsMigrations

LEMMA MarkingDirty ==
    ASSUME MigrationsInv, NEW p \in Processes, MarkDirty(p)
    PROVE  MigrationsInv'
<1> DEFINE v == After(schema.version)
<1>1. /\ machine[p].step = "applying" /\ MovesOn(p, "running", v)
      /\ schema' = [version |-> v, dirty |-> TRUE]
      /\ UNCHANGED <<applied, takenBack, migrating, advice, boots>>
  BY DEF MarkDirty, AtStep
<1>2. /\ migrating = p /\ ~schema.dirty /\ schema.version < Image[p]
      /\ Known(p, schema.version) /\ Whole(schema.version) /\ Whole(advice)
  BY <1>1 DEF MigrationsInv, ProcessHolds, RowHolds, Locking
<1>3. /\ Image[p] \in Nat \ {0} /\ Newest \in Nat /\ Image[p] <= Newest
      /\ schema.version \in Int
  BY ImagesAreKnown DEF MigrationsInv, MigrationsTypeOK, NilVersion
<1>4. v \in 1 .. Image[p] /\ v \in NilVersion .. Newest /\ Whole(v - 1)
  <2>1. CASE schema.version = NilVersion
    BY <1>3, <2>1 DEF After, NilVersion, Whole
  <2>2. CASE schema.version # NilVersion
    <3>1. v = schema.version + 1 /\ schema.version \in 1 .. Image[p]
      BY <1>2, <2>2 DEF After, Known
    <3>2. v - 1 = schema.version
      BY <1>3, <3>1
    <3>3. Whole(v - 1)
      BY <1>2, <3>2
    <3>4. QED
      BY <1>2, <1>3, <3>1, <3>3 DEF NilVersion
  <2>3. QED
    BY <2>1, <2>2
<1> HIDE DEF v
<1>5. machine' = [machine EXCEPT ![p] = [step |-> "running", at |-> v]]
  BY <1>1, WaysToMove
<1>6. machine'[p].step = "running" /\ machine'[p].at = v
  BY <1>4, <1>5, MachineMoves DEF MachineSteps
<1>7. RowHolds'
  BY <1>1, <1>2, <1>4 DEF RowHolds, Whole
<1>8. ProcessHolds(p)'
  BY <1>1, <1>2, <1>4, <1>6 DEF ProcessHolds, Downward
<1>9. /\ schema' \in [version : NilVersion .. Newest, dirty : BOOLEAN]
      /\ applied' \subseteq Versions /\ takenBack' \subseteq Versions /\ applied \subseteq applied'
      /\ migrating' \in {p, Nobody}
  BY <1>1, <1>2, <1>4 DEF MigrationsInv, MigrationsTypeOK
<1>10. machine[p].step \notin Downward
  BY <1>1 DEF Downward
<1>11. QED
  BY <1>1, <1>2, <1>4, <1>5, <1>7, <1>8, <1>9, <1>10, HolderKeepsMigrations

LEMMA RunningAMigration ==
    ASSUME MigrationsInv, NEW p \in Processes, RunMigration(p)
    PROVE  MigrationsInv'
<1> DEFINE v == machine[p].at
<1>1. /\ machine[p].step = "running" /\ Steps(p, "ran")
      /\ applied' = applied \cup {v} /\ takenBack' = takenBack \ {v}
      /\ UNCHANGED <<schema, migrating, advice, boots>>
  BY DEF RunMigration, AtStep
<1>2. /\ migrating = p /\ schema.version = v /\ schema.dirty /\ v \in 1 .. Image[p]
      /\ v \in NilVersion .. Newest
  BY <1>1, WaysToMove DEF MigrationsInv, ProcessHolds, Locking
<1>3. v \in Versions
  BY <1>2, ImagesAreKnown
<1>4. machine' = [machine EXCEPT ![p] = [step |-> "ran", at |-> v]]
  BY <1>1, WaysToMove
<1>5. machine'[p].step = "ran" /\ machine'[p].at = v
  BY <1>2, <1>4, MachineMoves DEF MachineSteps
<1> HIDE DEF v
<1>6. RowHolds'
  BY <1>1 DEF MigrationsInv, RowHolds, Whole
<1>7. ProcessHolds(p)'
  BY <1>1, <1>2, <1>5 DEF ProcessHolds, Downward
<1>8. /\ schema' \in [version : NilVersion .. Newest, dirty : BOOLEAN]
      /\ applied' \subseteq Versions /\ takenBack' \subseteq Versions /\ applied \subseteq applied'
      /\ migrating' \in {p, Nobody}
  BY <1>1, <1>2, <1>3 DEF MigrationsInv, MigrationsTypeOK
<1>9. machine[p].step \notin Downward
  BY <1>1 DEF Downward
<1>10. QED
  BY <1>1, <1>2, <1>4, <1>6, <1>7, <1>8, <1>9, HolderKeepsMigrations

\* The row is clean again with the migration applied.
LEMMA MarkingClean ==
    ASSUME MigrationsInv, NEW p \in Processes, MarkClean(p)
    PROVE  MigrationsInv'
<1> DEFINE v == machine[p].at
<1>1. /\ machine[p].step = "ran" /\ schema' = [schema EXCEPT !.dirty = FALSE]
      /\ UNCHANGED <<applied, takenBack, advice, boots>>
      /\ \/ v = Image[p] /\ Steps(p, "checking") /\ migrating' = Nobody
         \/ v # Image[p] /\ Steps(p, "applying") /\ migrating' = migrating
  BY DEF MarkClean, AtStep
<1>2. /\ migrating = p /\ schema.version = v /\ v \in 1 .. Image[p] /\ v \in applied
      /\ v \in NilVersion .. Newest /\ Whole(schema.version - 1) /\ Whole(advice)
  BY <1>1, WaysToMove DEF MigrationsInv, ProcessHolds, Locking, RowHolds
<1>3. Image[p] \in Nat /\ v \in Nat
  BY <1>2, ImagesAreKnown
<1>4. Whole(v)
  BY <1>2, <1>3 DEF Whole
<1>5. /\ schema' \in [version : NilVersion .. Newest, dirty : BOOLEAN]
      /\ schema'.version = v /\ ~schema'.dirty
  <2>1. schema \in [version : NilVersion .. Newest, dirty : BOOLEAN]
    BY DEF MigrationsInv, MigrationsTypeOK
  <2>2. QED
    BY <1>1, <1>2, <2>1
<1>6. /\ applied' \subseteq Versions /\ takenBack' \subseteq Versions /\ applied \subseteq applied'
      /\ migrating' \in {p, Nobody}
  BY <1>1, <1>2 DEF MigrationsInv, MigrationsTypeOK
<1>7. machine[p].step \notin Downward
  BY <1>1 DEF Downward
<1> HIDE DEF v
<1>8. RowHolds'
  BY <1>1, <1>2, <1>4, <1>5 DEF RowHolds, Whole
<1>9. CASE v = Image[p] /\ Steps(p, "checking") /\ migrating' = Nobody
  <2>1. machine' = [machine EXCEPT ![p] = [step |-> "checking", at |-> v]]
    BY <1>9, WaysToMove DEF v
  <2>2. machine'[p].step = "checking"
    BY <1>2, <2>1, MachineMoves DEF MachineSteps
  <2>3. ProcessHolds(p)'
    BY <1>1, <1>4, <1>9, <2>2 DEF ProcessHolds, Downward, Locking, Whole
  <2>4. QED
    BY <1>1, <1>2, <1>5, <1>6, <1>7, <1>8, <2>1, <2>3, HolderKeepsMigrations
<1>10. CASE v # Image[p] /\ Steps(p, "applying") /\ migrating' = migrating
  <2>1. machine' = [machine EXCEPT ![p] = [step |-> "applying", at |-> v]]
    BY <1>10, WaysToMove DEF v
  <2>2. machine'[p].step = "applying"
    BY <1>2, <2>1, MachineMoves DEF MachineSteps
  <2>3. v < Image[p]
    BY <1>2, <1>3, <1>10
  <2>4. ProcessHolds(p)'
    BY <1>2, <1>5, <1>10, <2>2, <2>3 DEF ProcessHolds, Downward, Known
  <2>5. QED
    BY <1>1, <1>2, <1>5, <1>6, <1>7, <1>8, <2>1, <2>4, HolderKeepsMigrations
<1>11. QED
  BY <1>1, <1>9, <1>10

\* Past Migrate: the check, the pool, the listener.
LEMMA StartingKeepsMigrations ==
    ASSUME MigrationsInv, NEW p \in Processes,
           CheckVersion(p) \/ Connect(p) \/ Serve(p)
    PROVE  MigrationsInv'
<1>1. /\ machine[p].step \in {"checking", "connecting", "connected"}
      /\ UNCHANGED <<schema, applied, takenBack, migrating, advice, boots>>
  BY DEF CheckVersion, Connect, Serve, AtStep
<1>2. /\ machine[p].at \in NilVersion .. Newest
      /\ advice' \in NoAdvice .. Newest /\ boots' \in 0 .. MaxBoots
      /\ Whole(advice') /\ UNCHANGED <<schema, applied, takenBack>> /\ migrating' = migrating
  BY <1>1, WaysToMove DEF MigrationsInv, MigrationsTypeOK, RowHolds
<1>3. machine[Operator].step \in Downward => p = Operator
  BY <1>1, AloneOutside DEF Outside
<1>4. CASE Exits(p)
  BY <1>1, <1>4, LockedOutKeepsMigrations
<1>5. ASSUME NEW s \in {"connecting", "connected"}, Steps(p, s),
             machine[p].step \in {"checking", "connecting"}
      PROVE  MigrationsInv'
  <2>1. machine' = [machine EXCEPT ![p] = [step |-> s, at |-> machine[p].at]]
    BY <1>5, WaysToMove
  <2>2. Whole(Image[p])
    BY <1>5 DEF MigrationsInv, ProcessHolds
  <2>3. QED
    BY <1>2, <1>3, <2>1, <2>2, LookingKeepsMigrations
<1>6. CASE Steps(p, "serving")
  <2>1. machine' = [machine EXCEPT ![p] = [step |-> "serving", at |-> machine[p].at]]
    BY <1>6, WaysToMove
  <2>2. QED
    BY <1>2, <1>3, <2>1, LookingKeepsMigrations
<1>7. QED
  BY <1>4, <1>5, <1>6 DEF CheckVersion, Connect, Serve, AtStep

LEMMA AdvisedForce ==
    ASSUME MigrationsInv, MigrateForce
    PROVE  MigrationsInv'
<1>1. /\ machine[Operator].step = "off" /\ migrating = Nobody /\ advice # NoAdvice
      /\ schema' = [version |-> advice, dirty |-> FALSE] /\ advice' = NoAdvice
      /\ UNCHANGED <<applied, takenBack, migrating, machine, boots>>
  BY DEF MigrateForce, Forced, AtStep
<1>2. Operator \in Processes
  BY ImagesAreKnown
<1>3. /\ machine[Operator].at \in NilVersion .. Newest
      /\ machine' = [machine EXCEPT ![Operator] = [step |-> "off", at |-> machine[Operator].at]]
  BY <1>1, <1>2, WaysToMove
<1>4. /\ advice \in NilVersion .. Newest /\ advice' \in NoAdvice .. Newest /\ advice \in Int
      /\ advice' = -2
  BY <1>1, ImagesAreKnown DEF MigrationsInv, MigrationsTypeOK, NoAdvice, NilVersion
<1>5. /\ schema' \in [version : NilVersion .. Newest, dirty : BOOLEAN]
      /\ applied' \subseteq Versions /\ takenBack' \subseteq Versions /\ applied \subseteq applied'
      /\ migrating' \in Processes \cup {Nobody} /\ boots' \in 0 .. MaxBoots
  BY <1>1, <1>4 DEF MigrationsInv, MigrationsTypeOK
<1>6. RowHolds'
  <2>1. Whole(advice) /\ Whole(advice - 1)
    BY <1>4 DEF MigrationsInv, RowHolds, Whole
  <2>2. 1 .. (-2) = {}
    OBVIOUS
  <2>3. QED
    BY <1>1, <1>4, <2>1, <2>2 DEF RowHolds, Whole
<1>7. "off" \in MachineSteps \ Downward /\ machine'[Operator].step = "off"
  BY <1>1 DEF MachineSteps, Downward
<1>8. ProcessHolds(Operator)'
  BY <1>7 DEF ProcessHolds, Locking, Downward
<1>9. QED
  BY <1>1, <1>2, <1>3, <1>4, <1>5, <1>6, <1>7, <1>8, MovingKeepsMigrations

\* The operator's steps downward: the others are outside, and count on less than the
\* version that is taken back.
LEMMA TakingBackKeepsMigrations ==
    ASSUME MigrationsInv, NEW s \in Downward, NEW v \in 1 .. Newest,
           machine' = [machine EXCEPT ![Operator] = [step |-> s, at |-> v]],
           schema' \in [version : NilVersion .. Newest, dirty : BOOLEAN],
           applied' \subseteq Versions, takenBack' \subseteq Versions,
           migrating' = Operator, advice' \in NoAdvice .. Newest, boots' \in 0 .. MaxBoots,
           RowHolds', ProcessHolds(Operator)', advice' < v,
           \A p \in Servers : /\ machine[p].step \in Outside
                              /\ machine[p].step = "forcing" =>
                                    machine[p].at < v /\ 1 .. machine[p].at \subseteq applied'
    PROVE  MigrationsInv'
<1>1. /\ Operator \in Processes /\ v \in NilVersion .. Newest /\ s \in MachineSteps
      /\ Processes = Servers \cup {Operator} /\ Operator \notin Servers
  BY ImagesAreKnown DEF NilVersion, MachineSteps, Downward
<1>2. /\ machine' \in [Processes -> [step : MachineSteps, at : NilVersion .. Newest]]
      /\ machine'[Operator].step = s /\ machine'[Operator].at = v
      /\ \A q \in Servers : machine'[q] = machine[q]
  BY <1>1, MachineMoves
<1>3. MigrationsTypeOK'
  BY <1>1, <1>2 DEF MigrationsTypeOK, MachineSteps
<1>4. ASSUME NEW q \in Servers
      PROVE  ProcessHolds(q)'
  BY <1>2 DEF ProcessHolds, Outside, Locking, Downward, Whole
<1>5. TakenBackAlone'
  BY <1>2 DEF TakenBackAlone
<1>6. QED
  BY <1>1, <1>3, <1>4, <1>5 DEF MigrationsInv

LEMMA DownKeepsMigrations ==
    ASSUME MigrationsInv, MigrateDown
    PROVE  MigrationsInv'
<1> DEFINE v == schema.version
<1>1. /\ boots < MaxBoots /\ boots' = boots + 1
      /\ \A p \in Processes : machine[p].step \in {"off", "serving"}
      /\ ~schema.dirty /\ v \in 1 .. Image[Operator]
      /\ MovesOn(Operator, "reverting", v) /\ migrating' = Operator
      /\ advice' = NoAdvice /\ UNCHANGED <<schema, applied, takenBack>>
  BY DEF MigrateDown
<1>2. /\ Operator \in Processes /\ Servers \subseteq Processes /\ Newest \in Nat
      /\ Image[Operator] \in Nat /\ Image[Operator] <= Newest
  BY ImagesAreKnown
<1>3. v \in 1 .. Newest /\ v \in NilVersion .. Newest /\ NoAdvice < v
      /\ NoAdvice \in NoAdvice .. Newest
  BY <1>1, <1>2 DEF NoAdvice, NilVersion
<1>4. machine' = [machine EXCEPT ![Operator] = [step |-> "reverting", at |-> v]]
  BY <1>1, <1>2, WaysToMove
<1>5. machine'[Operator].step = "reverting" /\ machine'[Operator].at = v
  BY <1>2, <1>3, <1>4, MachineMoves DEF MachineSteps
<1>6. /\ schema' \in [version : NilVersion .. Newest, dirty : BOOLEAN]
      /\ applied' \subseteq Versions /\ takenBack' \subseteq Versions /\ boots' \in 0 .. MaxBoots
  BY <1>1, MigrationsAssumption DEF MigrationsInv, MigrationsTypeOK
<1>7. RowHolds'
  <2>1. 1 .. NoAdvice = {}
    BY DEF NoAdvice
  <2>2. QED
    BY <1>1, <2>1 DEF MigrationsInv, RowHolds, Whole
<1>8. schema'.version = v /\ ~schema'.dirty /\ v \in Versions
  BY <1>1, <1>3, ImagesAreKnown
<1> HIDE DEF v
<1>9. ProcessHolds(Operator)'
  BY <1>1, <1>5, <1>8 DEF ProcessHolds, Downward, Versions, Newest, Processes
<1>10. \A p \in Servers : machine[p].step \in Outside /\ machine[p].step # "forcing"
  BY <1>1, <1>2 DEF Outside
<1>11. "reverting" \in Downward
  BY DEF Downward
<1>12. QED
  BY <1>1, <1>3, <1>4, <1>6, <1>7, <1>9, <1>10, <1>11, TakingBackKeepsMigrations

\* What the operator's step downward finds.
LEMMA FoundDownward ==
    ASSUME MigrationsInv, machine[Operator].step \in Downward
    PROVE  LET v == machine[Operator].at IN
           /\ migrating = Operator /\ v \in 1 .. Newest /\ v \in Nat \ {0}
           /\ advice < v /\ advice \in NoAdvice .. Newest /\ boots \in 0 .. MaxBoots
           /\ ProcessHolds(Operator) /\ RowHolds
           /\ applied \subseteq Versions /\ takenBack \subseteq Versions
           /\ schema \in [version : NilVersion .. Newest, dirty : BOOLEAN]
           /\ Before(v) \in NilVersion .. Newest /\ Before(v) <= v - 1 /\ Before(v) \in Int
           /\ \A p \in Servers : /\ machine[p].step \in Outside /\ machine[p].at \in Int
                                 /\ machine[p].step = "forcing" =>
                                       machine[p].at < v /\ Whole(machine[p].at)
<1> DEFINE v == machine[Operator].at
<1>1. /\ Operator \in Processes /\ Servers \subseteq Processes /\ Newest \in Nat
      /\ Versions = 1 .. Newest
  BY ImagesAreKnown
<1>2. /\ migrating = Operator /\ v \in 1 .. Newest
      /\ ProcessHolds(Operator) /\ RowHolds
  BY <1>1 DEF MigrationsInv, ProcessHolds, Locking
<1>3. Before(v) \in NilVersion .. Newest /\ Before(v) <= v - 1 /\ Before(v) \in Int
      /\ v \in Nat \ {0}
  BY <1>1, <1>2 DEF Before, NilVersion
<1>4. ASSUME NEW p \in Servers
      PROVE  /\ machine[p].step \in Outside /\ machine[p].at \in Int
             /\ machine[p].step = "forcing" => machine[p].at < v /\ Whole(machine[p].at)
  <2>1. machine[p].at \in NilVersion .. Newest
    BY <1>1, WaysToMove
  <2>2. QED
    BY <1>1, <2>1 DEF MigrationsInv, TakenBackAlone, ProcessHolds, NilVersion
<1>5. QED
  BY <1>2, <1>3, <1>4 DEF MigrationsInv, MigrationsTypeOK, TakenBackAlone

LEMMA RevertingKeepsMigrations ==
    ASSUME MigrationsInv, RevertDirty
    PROVE  MigrationsInv'
<1> DEFINE v == machine[Operator].at
<1>1. /\ machine[Operator].step = "reverting" /\ Steps(Operator, "undoing")
      /\ schema' = [version |-> Before(v), dirty |-> TRUE]
      /\ UNCHANGED <<applied, takenBack, migrating, advice, boots>>
  BY DEF RevertDirty, AtStep
<1>2. machine[Operator].step \in Downward /\ "undoing" \in Downward
  BY <1>1 DEF Downward
<1>3. /\ migrating = Operator /\ v \in 1 .. Newest /\ v \in Nat \ {0}
      /\ advice < v /\ advice \in NoAdvice .. Newest /\ boots \in 0 .. MaxBoots
      /\ ProcessHolds(Operator) /\ RowHolds
      /\ applied \subseteq Versions /\ takenBack \subseteq Versions
      /\ Before(v) \in NilVersion .. Newest /\ Before(v) <= v - 1 /\ Before(v) \in Int
      /\ \A p \in Servers : /\ machine[p].step \in Outside
                            /\ machine[p].step = "forcing" =>
                                  machine[p].at < v /\ Whole(machine[p].at)
  BY <1>2, FoundDownward
<1>4. machine' = [machine EXCEPT ![Operator] = [step |-> "undoing", at |-> v]]
  BY <1>1, WaysToMove, ImagesAreKnown
<1>5. machine'[Operator].step = "undoing" /\ machine'[Operator].at = v
  <2>1. Operator \in Processes /\ v \in NilVersion .. Newest
    BY WaysToMove, ImagesAreKnown
  <2> HIDE DEF v
  <2>2. QED
    BY <1>4, <2>1, MachineMoves DEF MachineSteps
<1>6. schema.version = v /\ Whole(v) /\ Whole(advice)
  BY <1>1, <1>3 DEF ProcessHolds, RowHolds
<1> HIDE DEF v
<1>7. Whole(v - 1) /\ Whole(Before(v) - 1)
  BY <1>3, <1>6 DEF Whole
<1>8. RowHolds'
  BY <1>1, <1>6, <1>7 DEF RowHolds, Whole
<1>9. v \in Versions
  BY <1>3, ImagesAreKnown
<1>10. ProcessHolds(Operator)'
  BY <1>1, <1>3, <1>5, <1>7, <1>9 DEF ProcessHolds, Whole, Downward, Versions, Newest,
                                     Processes
<1>11. /\ schema' \in [version : NilVersion .. Newest, dirty : BOOLEAN]
       /\ applied' \subseteq Versions /\ takenBack' \subseteq Versions /\ migrating' = Operator
       /\ advice' \in NoAdvice .. Newest /\ boots' \in 0 .. MaxBoots /\ advice' < v
  BY <1>1, <1>3
<1>12. \A p \in Servers : /\ machine[p].step \in Outside
                          /\ machine[p].step = "forcing" =>
                                machine[p].at < v /\ 1 .. machine[p].at \subseteq applied'
  BY <1>1, <1>3 DEF Whole
<1>13. QED
  BY <1>2, <1>3, <1>4, <1>8, <1>10, <1>11, <1>12, TakingBackKeepsMigrations

LEMMA UndoingKeepsMigrations ==
    ASSUME MigrationsInv, RunDown
    PROVE  MigrationsInv'
<1> DEFINE v == machine[Operator].at
<1>1. /\ machine[Operator].step = "undoing" /\ Steps(Operator, "undone")
      /\ applied' = applied \ {v} /\ takenBack' = takenBack \cup {v}
      /\ UNCHANGED <<schema, migrating, advice, boots>>
  BY DEF RunDown, AtStep
<1>2. machine[Operator].step \in Downward /\ "undone" \in Downward
  BY <1>1 DEF Downward
<1>3. /\ migrating = Operator /\ v \in 1 .. Newest /\ v \in Nat \ {0}
      /\ advice < v /\ advice \in NoAdvice .. Newest /\ boots \in 0 .. MaxBoots
      /\ ProcessHolds(Operator) /\ RowHolds
      /\ applied \subseteq Versions /\ takenBack \subseteq Versions
      /\ schema \in [version : NilVersion .. Newest, dirty : BOOLEAN]
      /\ Before(v) \in NilVersion .. Newest /\ Before(v) <= v - 1 /\ Before(v) \in Int
      /\ \A p \in Servers : /\ machine[p].step \in Outside /\ machine[p].at \in Int
                            /\ machine[p].step = "forcing" =>
                                  machine[p].at < v /\ Whole(machine[p].at)
  BY <1>2, FoundDownward
<1>4. machine' = [machine EXCEPT ![Operator] = [step |-> "undone", at |-> v]]
  BY <1>1, WaysToMove, ImagesAreKnown
<1>5. machine'[Operator].step = "undone" /\ machine'[Operator].at = v
  <2>1. Operator \in Processes /\ v \in NilVersion .. Newest
    BY WaysToMove, ImagesAreKnown
  <2> HIDE DEF v
  <2>2. QED
    BY <1>4, <2>1, MachineMoves DEF MachineSteps
<1>6. schema.version = Before(v) /\ schema.dirty /\ Whole(v - 1) /\ Whole(advice)
  BY <1>1, <1>3 DEF ProcessHolds, RowHolds
<1> HIDE DEF v
\* Versions below the one taken back stay.
<1>7. \A n \in Int : n < v /\ Whole(n) => Whole(n)'
  BY <1>1, <1>3 DEF Whole
<1>8. Whole(v - 1)' /\ Whole(advice)'
  <2>1. v - 1 \in Int /\ v - 1 < v /\ advice \in Int
    BY <1>3, ImagesAreKnown DEF NoAdvice
  <2>2. advice' = advice /\ 1 .. (v - 1) \subseteq applied'
    BY <1>1, <1>6, <1>7, <2>1 DEF Whole
  <2>3. 1 .. advice \subseteq applied'
    BY <1>3, <1>6, <1>7, <2>1 DEF Whole
  <2>4. v' = v
    BY <1>5 DEF v
  <2>5. QED
    BY <2>2, <2>3, <2>4 DEF Whole
<1>9. RowHolds'
  <2>1. 1 .. (Before(v) - 1) \subseteq 1 .. (v - 1)
    BY <1>3
  <2>2. 1 .. (v - 1) \subseteq applied'
    BY <1>1, <1>3, <1>6 DEF Whole
  <2>3. schema' = schema /\ 1 .. (schema.version - 1) \subseteq applied'
    BY <1>1, <1>6, <2>1, <2>2
  <2>4. QED
    BY <1>1, <1>6, <1>8, <2>3 DEF RowHolds, Whole
<1>10. v \in Versions
  BY <1>3, ImagesAreKnown
<1>11. ProcessHolds(Operator)'
  <2>1. 1 .. (v - 1) \subseteq applied'
    BY <1>1, <1>3, <1>6 DEF Whole
  <2>2. QED
    BY <1>1, <1>3, <1>5, <1>6, <1>10, <2>1 DEF ProcessHolds, Whole, Downward, Versions, Newest,
                                              Processes
<1>12. /\ schema' \in [version : NilVersion .. Newest, dirty : BOOLEAN]
       /\ applied' \subseteq Versions /\ takenBack' \subseteq Versions /\ migrating' = Operator
       /\ advice' \in NoAdvice .. Newest /\ boots' \in 0 .. MaxBoots /\ advice' < v
  BY <1>1, <1>3, <1>10
<1>13. \A p \in Servers : /\ machine[p].step \in Outside
                          /\ machine[p].step = "forcing" =>
                                machine[p].at < v /\ 1 .. machine[p].at \subseteq applied'
  <2>1. ASSUME NEW p \in Servers, machine[p].step = "forcing"
        PROVE  1 .. machine[p].at \subseteq applied'
    BY <1>1, <1>3, <2>1 DEF Whole
  <2>2. QED
    BY <1>3, <2>1
<1>14. QED
  BY <1>2, <1>3, <1>4, <1>9, <1>11, <1>12, <1>13, TakingBackKeepsMigrations

LEMMA RevertedKeepsMigrations ==
    ASSUME MigrationsInv, RevertClean
    PROVE  MigrationsInv'
<1> DEFINE v == machine[Operator].at
<1>1. /\ machine[Operator].step = "undone" /\ Exits(Operator) /\ migrating' = Nobody
      /\ schema' = [schema EXCEPT !.dirty = FALSE]
      /\ UNCHANGED <<applied, takenBack, advice, boots>>
  BY DEF RevertClean, AtStep
<1>2. machine[Operator].step \in Downward
  BY <1>1 DEF Downward
<1>3. /\ migrating = Operator /\ v \in 1 .. Newest /\ v \in Nat \ {0}
      /\ advice \in NoAdvice .. Newest /\ boots \in 0 .. MaxBoots
      /\ ProcessHolds(Operator) /\ RowHolds
      /\ applied \subseteq Versions /\ takenBack \subseteq Versions
      /\ schema \in [version : NilVersion .. Newest, dirty : BOOLEAN]
      /\ Before(v) <= v - 1 /\ Before(v) \in Int
  BY <1>2, FoundDownward
<1>4. schema.version = Before(v) /\ Whole(v - 1) /\ Whole(advice) /\ Whole(schema.version - 1)
  BY <1>1, <1>3 DEF ProcessHolds, RowHolds
<1> HIDE DEF v
<1>5. Whole(Before(v))
  BY <1>3, <1>4 DEF Whole
<1>6. /\ schema' \in [version : NilVersion .. Newest, dirty : BOOLEAN]
      /\ schema'.version = schema.version
  BY <1>1, <1>3
<1>7. RowHolds'
  BY <1>1, <1>4, <1>5, <1>6 DEF RowHolds, Whole
<1>8. /\ Operator \in Processes
      /\ NilVersion \in NilVersion .. Newest
      /\ machine' = [machine EXCEPT ![Operator] = [step |-> "off", at |-> NilVersion]]
  BY <1>1, WaysToMove, ImagesAreKnown
<1>9. "off" \in MachineSteps \ Downward /\ machine'[Operator].step = "off"
  BY <1>8, MachineMoves DEF MachineSteps, Downward
<1>10. ProcessHolds(Operator)'
  BY <1>9 DEF ProcessHolds, Locking, Downward
<1>11. /\ applied' \subseteq Versions /\ takenBack' \subseteq Versions /\ applied \subseteq applied'
       /\ migrating' \in Processes \cup {Nobody} /\ migrating \in {Operator, Nobody}
       /\ advice' \in NoAdvice .. Newest /\ boots' \in 0 .. MaxBoots
  BY <1>1, <1>3
<1>12. QED
  BY <1>6, <1>7, <1>8, <1>9, <1>10, <1>11, MovingKeepsMigrations

LEMMA MigrationsStep == MigrationsInv /\ [MigrationsNext]_migrationVars => MigrationsInv'
<1> SUFFICES ASSUME MigrationsInv, [MigrationsNext]_migrationVars
             PROVE  MigrationsInv'
  OBVIOUS
<1>1. ASSUME NEW p \in Processes, LockTimesOut(p)
      PROVE  MigrationsInv'
  BY <1>1, LockedOutKeepsMigrations DEF LockTimesOut
<1>2. ASSUME NEW p \in Processes, Dies(p)
      PROVE  MigrationsInv'
  BY <1>2, LockedOutKeepsMigrations DEF Dies
<1>3. CASE UNCHANGED migrationVars
  <2>1. UNCHANGED <<schema, applied, takenBack, migrating, machine, advice, boots>>
    BY <1>3 DEF migrationVars
  <2>2. MigrationsTypeOK' /\ RowHolds' /\ TakenBackAlone'
    BY <2>1 DEF MigrationsInv, MigrationsTypeOK, RowHolds, TakenBackAlone, Whole
  <2>3. \A p \in Processes : ProcessHolds(p)'
    BY <2>1 DEF MigrationsInv, ProcessHolds, Whole
  <2>4. QED
    BY <2>2, <2>3 DEF MigrationsInv
<1>4. QED
  BY <1>1, <1>2, <1>3, BootKeepsMigrations, ReadingKeepsMigrations, ForcingKeepsMigrations,
     UpKeepsMigrations, MarkingDirty, RunningAMigration, MarkingClean, StartingKeepsMigrations,
     AdvisedForce, DownKeepsMigrations, RevertingKeepsMigrations, UndoingKeepsMigrations,
     RevertedKeepsMigrations DEF MigrationsNext

\* What a server came to serve with stays, or is taken back.
Serves(p) == AtStep(p, "serving") => 1 .. Image[p] \subseteq applied \cup takenBack

LEMMA ServingStep ==
    ASSUME MigrationsInv, \A p \in Servers : Serves(p), [MigrationsNext]_migrationVars
    PROVE  \A p \in Servers : Serves(p)'
<1> SUFFICES ASSUME NEW p \in Servers, machine'[p].step = "serving"
             PROVE  1 .. Image[p] \subseteq applied' \cup takenBack'
  BY DEF Serves, AtStep
<1>1. p \in Processes /\ p # Operator /\ Operator \in Processes
  BY ImagesAreKnown
<1>2. machine \in [Processes -> [step : MachineSteps, at : NilVersion .. Newest]]
  BY DEF MigrationsInv, MigrationsTypeOK, MachineSteps
<1>3. applied \cup takenBack \subseteq applied' \cup takenBack'
  BY DEF MigrationsNext, migrationVars, Boot, ReadVersion, AutoRecover, LockTimesOut, Up,
         MarkDirty, RunMigration, MarkClean, Dies, CheckVersion, Connect, Serve, MigrateForce,
         MigrateDown, RevertDirty, RunDown, RevertClean
<1>4. machine[p].step = "serving" \/ Serve(p)
  <2>1. ASSUME NEW q \in Processes,
               \/ Boot(q) \/ ReadVersion(q) \/ AutoRecover(q) \/ LockTimesOut(q) \/ Up(q)
               \/ MarkDirty(q) \/ RunMigration(q) \/ MarkClean(q) \/ Dies(q)
               \/ CheckVersion(q) \/ Connect(q)
        PROVE  machine[p].step = "serving"
    <3>1. q # p => machine'[p] = machine[p]
      BY <1>1, <1>2, <2>1 DEF Boot, ReadVersion, AutoRecover, LockTimesOut, Up, MarkDirty,
             RunMigration, MarkClean, Dies, CheckVersion, Connect, Steps, MovesOn, Exits
    <3>2. q = p => machine'[p] = machine[p] \/ machine'[p].step # "serving"
      BY <1>1, <1>2, <2>1 DEF Boot, ReadVersion, AutoRecover, LockTimesOut, Up, MarkDirty,
             RunMigration, MarkClean, Dies, CheckVersion, Connect, Steps, MovesOn, Exits, Off
    <3>3. QED
      BY <3>1, <3>2
  <2>2. ASSUME NEW q \in Processes, Serve(q)
        PROVE  machine[p].step = "serving" \/ Serve(p)
    <3>1. q # p => machine'[p] = machine[p]
      BY <1>1, <1>2, <2>2 DEF Serve, Steps
    <3>2. QED
      BY <2>2, <3>1
  <2>3. ASSUME MigrateForce \/ MigrateDown \/ RevertDirty \/ RunDown \/ RevertClean
               \/ UNCHANGED migrationVars
        PROVE  machine[p].step = "serving"
    <3>1. machine'[p] = machine[p]
      BY <1>1, <1>2, <2>3 DEF MigrateForce, MigrateDown, RevertDirty, RunDown, RevertClean,
             migrationVars, Steps, MovesOn, Exits
    <3>2. QED
      BY <3>1
  <2>4. QED
    BY <2>1, <2>2, <2>3 DEF MigrationsNext
<1>5. CASE machine[p].step = "serving"
  BY <1>3, <1>5 DEF Serves, AtStep
<1>6. CASE Serve(p)
  <2>1. machine[p].step = "connected" /\ ProcessHolds(p)
    BY <1>1, <1>6 DEF Serve, AtStep, MigrationsInv
  <2>2. QED
    BY <1>3, <2>1 DEF ProcessHolds, Whole
<1>7. QED
  BY <1>4, <1>5, <1>6

-----------------------------------------------------------------------------
(* The request path: module RequestPath. *)

Answering == {"handler", "collect"}
Unmeasured == Answering \cup {"latency"}
Unjudged == Unmeasured \cup {"errors"}
Uncounted == Unjudged \cup {"code"}

AtStages(stages) == {s \in Slots : served[s].stage \in stages}
Coded(c) == {s \in Slots : served[s].stage = "code" /\ served[s].status = c}

RouteFigures == [requests : Nat, errors : Nat, latency : [Latencies -> Nat]]

Requests == [stage : Uncounted \cup {"free", "route"}, pattern : Patterns \cup {""},
             status : Codes \cup {0}, ms : Nat, found : Nat]
Gauges == [total : Nat, active : Int, errors : Nat, rejects : Nat,
           codes : [Codes -> [count : Nat, stored : Nat]],
           latency : [Latencies -> Nat], routes : [Patterns -> RouteFigures]]

PathTypes ==
    /\ served \in [Slots -> Requests]
    /\ figures \in Gauges /\ figures.total <= MaxServed
    /\ ended \in [Codes -> Nat]
    /\ reading \in [reader : DOMAIN Loads \cup {"none"}, next : 1 .. 9, got : [Fields -> Int]]
    /\ reading.reader = "none" => reading = NotReading
    /\ \A s \in Slots :
          /\ served[s].stage # "free" => served[s].pattern \in Patterns
          /\ served[s].stage \notin {"free", "handler"} => served[s].status \in Codes

RequestsCounted ==
    /\ figures.active = Cardinality(AtStages(Answering))
    /\ figures.total = Tally(ended) + Cardinality(AtStages(Uncounted))
    /\ Tally(figures.latency) + Cardinality(AtStages(Unmeasured)) <= figures.total
    /\ figures.errors + figures.rejects + Cardinality(AtStages(Unjudged)) <= figures.total

CodesCounted ==
    /\ figures.errors = ended[500] + ended[503] + Cardinality(Coded(500)) + Cardinality(Coded(503))
    /\ figures.rejects = (IF 404 \in Codes THEN ended[404] ELSE 0) + Cardinality(Coded(404))
    /\ \A c \in Codes : /\ figures.codes[c].count <= ended[c]
                        /\ figures.codes[c].stored > 0 => figures.codes[c].count > 0
                        /\ ended[c] > 0 => figures.codes[c].stored > 0
    /\ \A s \in Slots : served[s].stage = "code" /\ served[s].found > 0
                        => figures.codes[served[s].status].stored > 0

RoutesCounted ==
    \A p \in Patterns : figures.routes[p].errors <= figures.routes[p].requests

ClosingIsRead ==
    \/ reading.reader = "json" /\ reading.next > 4
    \/ reading.reader = "prometheus" /\ reading.next > 7

\* The first lines of the text are bounded by the figures as they go on, and so are
\* the lines before its histogram ends.
ReadingBounded ==
    /\ reading.got["latency"] <= figures.total /\ reading.got["codes"] <= figures.total
    /\ reading.got["total"] <= figures.total
    /\ reading.got["errors"] <= figures.errors /\ reading.got["rejects"] <= figures.rejects
    /\ ClosingIsRead =>
          /\ reading.got["latency"] <= reading.got[Closing(reading.reader)]
          /\ reading.got["codes"] <= reading.got[Closing(reading.reader)]
          /\ reading.reader = "prometheus" =>
                /\ reading.got["errors"] + reading.got["rejects"] <= reading.got["inf"]
                /\ reading.got["total"] <= reading.got["inf"]

PathInv ==
    /\ PathTypes /\ RequestsCounted /\ CodesCounted /\ RoutesCounted /\ ReadingBounded
    /\ AnswerIsWhole

\* Two subsets that differ in s at most.
LEMMA CountChanges ==
    ASSUME NEW S, IsFiniteSet(S), NEW A, A \subseteq S, NEW B, B \subseteq S, NEW s \in S,
           \A t \in S \ {s} : t \in A <=> t \in B
    PROVE  /\ Cardinality(A) \in Nat /\ Cardinality(B) \in Nat
           /\ Cardinality(B) = Cardinality(A) + (IF s \in B THEN 1 ELSE 0)
                                              - (IF s \in A THEN 1 ELSE 0)
<1>1. IsFiniteSet(A) /\ IsFiniteSet(B) /\ A \ {s} = B \ {s}
  BY FS_Subset
<1>2. Cardinality(A) \in Nat /\ Cardinality(B) \in Nat
  BY <1>1, FS_CardinalityType
<1>3. Cardinality(A \ {s}) = IF s \in A THEN Cardinality(A) - 1 ELSE Cardinality(A)
  BY <1>1, FS_RemoveElement
<1>4. Cardinality(B \ {s}) = IF s \in B THEN Cardinality(B) - 1 ELSE Cardinality(B)
  BY <1>1, FS_RemoveElement
<1>5. QED
  BY <1>1, <1>2, <1>3, <1>4

LEMMA StagesMove ==
    ASSUME NEW s \in Slots, \A t \in Slots \ {s} : served'[t] = served[t], NEW stages
    PROVE  /\ Cardinality(AtStages(stages)) \in Nat /\ Cardinality(AtStages(stages)') \in Nat
           /\ Cardinality(AtStages(stages)') = Cardinality(AtStages(stages))
                + (IF served'[s].stage \in stages THEN 1 ELSE 0)
                - (IF served[s].stage \in stages THEN 1 ELSE 0)
<1> DEFINE A == AtStages(stages)
           B == {t \in Slots : served'[t].stage \in stages}
<1>1. A \subseteq Slots /\ B \subseteq Slots /\ (\A t \in Slots \ {s} : t \in A <=> t \in B)
  BY DEF AtStages
<1>2. (s \in A <=> served[s].stage \in stages) /\ (s \in B <=> served'[s].stage \in stages)
  BY DEF AtStages
<1>3. AtStages(stages)' = B
  BY DEF AtStages
<1> HIDE DEF A, B
<1>4. /\ Cardinality(A) \in Nat /\ Cardinality(B) \in Nat
      /\ Cardinality(B) = Cardinality(A) + (IF s \in B THEN 1 ELSE 0)
                                         - (IF s \in A THEN 1 ELSE 0)
  BY <1>1, CountChanges, RequestPathAssumption
<1>5. QED
  BY <1>2, <1>3, <1>4 DEF A

LEMMA CodedMoves ==
    ASSUME NEW s \in Slots, \A t \in Slots \ {s} : served'[t] = served[t], NEW c
    PROVE  /\ Cardinality(Coded(c)) \in Nat /\ Cardinality(Coded(c)') \in Nat
           /\ Cardinality(Coded(c)') = Cardinality(Coded(c))
                + (IF served'[s].stage = "code" /\ served'[s].status = c THEN 1 ELSE 0)
                - (IF served[s].stage = "code" /\ served[s].status = c THEN 1 ELSE 0)
<1> DEFINE A == Coded(c)
           B == {t \in Slots : served'[t].stage = "code" /\ served'[t].status = c}
<1>1. A \subseteq Slots /\ B \subseteq Slots /\ (\A t \in Slots \ {s} : t \in A <=> t \in B)
  BY DEF Coded
<1>2. /\ s \in A <=> served[s].stage = "code" /\ served[s].status = c
      /\ s \in B <=> served'[s].stage = "code" /\ served'[s].status = c
  BY DEF Coded
<1>3. Coded(c)' = B
  BY DEF Coded
<1> HIDE DEF A, B
<1>4. /\ Cardinality(A) \in Nat /\ Cardinality(B) \in Nat
      /\ Cardinality(B) = Cardinality(A) + (IF s \in B THEN 1 ELSE 0)
                                         - (IF s \in A THEN 1 ELSE 0)
  BY <1>1, CountChanges, RequestPathAssumption
<1>5. QED
  BY <1>2, <1>3, <1>4 DEF A

LEMMA CodesAreFew ==
    /\ IsFiniteSet(Codes) /\ Codes \subseteq {200, 404, 500, 503} /\ {200, 500, 503} \subseteq Codes
    /\ IsFiniteSet(Latencies) /\ Latencies \subseteq Nat
<1>1. Codes \subseteq {200, 404, 500, 503} /\ {200, 500, 503} \subseteq Codes
  BY RequestPathAssumption DEF Codes
<1>2. IsFiniteSet(Codes)
  <2> DEFINE a == 200 b == 404 c == 500 d == 503
  <2>1. Codes \subseteq {a, b, c, d}
    BY <1>1
  <2> HIDE DEF a, b, c, d
  <2>2. IsFiniteSet({a} \cup {b} \cup {c} \cup {d})
    <3>1. IsFiniteSet({a}) /\ IsFiniteSet({b}) /\ IsFiniteSet({c}) /\ IsFiniteSet({d})
      BY FS_Singleton
    <3>2. IsFiniteSet({a} \cup {b})
      BY <3>1, FS_Union
    <3>3. IsFiniteSet({a} \cup {b} \cup {c})
      BY <3>1, <3>2, FS_Union
    <3>4. QED
      BY <3>1, <3>3, FS_Union
  <2>3. Codes \subseteq {a} \cup {b} \cup {c} \cup {d}
    BY <2>1
  <2>4. QED
    BY <2>2, <2>3, FS_Subset
<1>3. IsFiniteSet(Latencies) /\ Latencies \subseteq Nat
  <2>1. Len(LatencyBounds) \in Nat
    BY RequestPathAssumption
  <2>2. QED
    BY <2>1, FS_Interval DEF Latencies
<1>4. QED
  BY <1>1, <1>2, <1>3

\* The tallies of what is counted.
LEMMA TalliesAreNumbers ==
    ASSUME PathTypes
    PROVE  /\ Tally(ended) \in Int /\ Tally(figures.latency) \in Int /\ Tally(Counts) \in Int
           /\ (\A c \in Codes : figures.codes[c].count <= ended[c]) => Tally(Counts) <= Tally(ended)
<1>1. /\ DOMAIN ended = Codes /\ DOMAIN figures.latency = Latencies /\ DOMAIN Counts = Codes
      /\ \A c \in Codes : ended[c] \in Int /\ Counts[c] \in Int /\ Counts[c] = figures.codes[c].count
      /\ \A i \in Latencies : figures.latency[i] \in Int
  <2>1. ended \in [Codes -> Nat] /\ figures.latency \in [Latencies -> Nat]
        /\ figures.codes \in [Codes -> [count : Nat, stored : Nat]]
    BY DEF PathTypes, Gauges
  <2>2. \A c \in Codes : figures.codes[c].count \in Nat /\ Counts[c] = figures.codes[c].count
    BY <2>1 DEF Counts
  <2>3. DOMAIN Counts = Codes
    BY DEF Counts
  <2>4. QED
    BY <2>1, <2>2, <2>3
<1>2. /\ SumFunctionOnSet(ended, Codes) \in Int /\ SumFunctionOnSet(Counts, Codes) \in Int
  <2>1. SumFunctionOnSet(ended, Codes) \in Int
    BY <1>1, CodesAreFew, SumTakesAny
  <2>2. SumFunctionOnSet(Counts, Codes) \in Int
    BY <1>1, CodesAreFew, SumTakesAny
  <2>3. QED
    BY <2>1, <2>2
<1>3. SumFunctionOnSet(figures.latency, Latencies) \in Int
  BY <1>1, CodesAreFew, SumTakesAny
<1>4. ASSUME \A c \in Codes : figures.codes[c].count <= ended[c]
      PROVE  SumFunctionOnSet(Counts, Codes) <= SumFunctionOnSet(ended, Codes)
  <2>1. IsFiniteSet(Codes)
    BY CodesAreFew
  <2>2. \A c \in Codes : Counts[c] \in Int /\ ended[c] \in Int /\ Counts[c] <= ended[c]
    BY <1>1, <1>4
  <2>3. QED
    BY <2>1, <2>2, SumsAreMonotone
<1>5. QED
  BY <1>1, <1>2, <1>3, <1>4 DEF Tally, SumFunction

\* What a reading has loaded stays behind figures that only grow.
LEMMA ReadingsAge ==
    ASSUME PathInv, PathTypes', UNCHANGED reading, figures.total <= figures'.total,
           figures.errors <= figures'.errors, figures.rejects <= figures'.rejects
    PROVE  ReadingBounded'
<1>1. /\ reading.got["latency"] \in Int /\ reading.got["codes"] \in Int
      /\ reading.got["errors"] \in Int /\ reading.got["rejects"] \in Int
      /\ reading.got["total"] \in Int
  BY DEF PathInv, PathTypes, Fields
<1>2. /\ figures.total \in Int /\ figures'.total \in Int /\ figures.errors \in Int
      /\ figures'.errors \in Int /\ figures.rejects \in Int /\ figures'.rejects \in Int
  <2>1. /\ figures.total \in Nat /\ figures.errors \in Nat /\ figures.rejects \in Nat
    BY DEF PathInv, PathTypes, Gauges
  <2>2. /\ figures'.total \in Nat /\ figures'.errors \in Nat /\ figures'.rejects \in Nat
    BY DEF PathTypes, Gauges
  <2>3. QED
    BY <2>1, <2>2
<1>3. QED
  BY <1>1, <1>2 DEF PathInv, ReadingBounded, ClosingIsRead

LEMMA PathBegins == PathInit => PathInv
<1> SUFFICES ASSUME PathInit
             PROVE  PathInv
  OBVIOUS
<1> USE RequestPathAssumption
<1>1. PathTypes
  <2>1. served \in [Slots -> Requests]
    BY DEF PathInit, Fresh, Requests
  <2>2. figures \in Gauges /\ figures.total <= MaxServed
    BY DEF PathInit, RouteFigures, Gauges
  <2>3. reading \in [reader : DOMAIN Loads \cup {"none"}, next : 1 .. 9, got : [Fields -> Int]]
        /\ reading = NotReading
    BY DEF PathInit, NotReading
  <2>4. ended \in [Codes -> Nat] /\ (\A s \in Slots : served[s].stage = "free")
    BY DEF PathInit, Fresh
  <2>5. QED
    BY <2>1, <2>2, <2>3, <2>4 DEF PathTypes
<1>2. /\ \A s \in Slots : served[s].stage = "free"
      /\ figures.total = 0 /\ figures.active = 0 /\ figures.errors = 0 /\ figures.rejects = 0
      /\ ended = [c \in Codes |-> 0] /\ figures.latency = [i \in Latencies |-> 0]
  BY DEF PathInit, Fresh
<1>3. Tally(ended) = 0 /\ Tally(figures.latency) = 0
  <2>1. DOMAIN [c \in Codes |-> 0] = Codes /\ DOMAIN [i \in Latencies |-> 0] = Latencies
    OBVIOUS
  <2>2. IsFiniteSet(Codes) /\ IsFiniteSet(Latencies)
    BY CodesAreFew
  <2>3. SumFunctionOnSet([c \in Codes |-> 0], Codes) = 0
    BY <2>2, SumOfZeros
  <2>4. SumFunctionOnSet([i \in Latencies |-> 0], Latencies) = 0
    BY <2>2, SumOfZeros
  <2>5. QED
    BY <1>2, <2>1, <2>3, <2>4 DEF Tally, SumFunction
<1>4. RequestsCounted
  <2>1. /\ AtStages(Answering) = {} /\ AtStages(Unmeasured) = {}
        /\ AtStages(Unjudged) = {} /\ AtStages(Uncounted) = {}
    BY <1>2 DEF AtStages, Answering, Unmeasured, Unjudged, Uncounted
  <2>2. QED
    BY <1>2, <1>3, <2>1, FS_EmptySet DEF RequestsCounted
<1>5. CodesCounted
  <2>1. Coded(500) = {} /\ Coded(503) = {} /\ Coded(404) = {}
    BY <1>2 DEF Coded
  <2>2. \A c \in Codes : figures.codes[c].count = 0 /\ figures.codes[c].stored = 0 /\ ended[c] = 0
    BY DEF PathInit
  <2>3. Cardinality(Coded(500)) = 0 /\ Cardinality(Coded(503)) = 0 /\ Cardinality(Coded(404)) = 0
    BY <2>1, FS_EmptySet
  <2>4. 500 \in Codes /\ 503 \in Codes
    BY CodesAreFew
  <2>5. QED
    BY <1>2, <2>2, <2>3, <2>4 DEF CodesCounted
<1>6. RoutesCounted
  BY DEF PathInit, RoutesCounted
<1>7. ReadingBounded
  <2>1. reading = [reader |-> "none", next |-> 1, got |-> [f \in Fields |-> 0]]
    BY DEF PathInit, NotReading
  <2>2. {"latency", "codes", "errors", "rejects", "total"} \subseteq Fields
    BY DEF Fields
  <2>3. QED
    BY <1>2, <2>1, <2>2 DEF ReadingBounded, ClosingIsRead
<1>8. AnswerIsWhole
  BY DEF PathInit, AnswerIsWhole
<1>9. QED
  BY <1>1, <1>4, <1>5, <1>6, <1>7, <1>8 DEF PathInv

\* A request s moves on alone.
Alone(s) == \A t \in Slots \ {s} : served'[t] = served[t]

\* By how much the requests at some stages change when s moves.
Gain(s, stages) == (IF served'[s].stage \in stages THEN 1 ELSE 0)
                     - (IF served[s].stage \in stages THEN 1 ELSE 0)

LEMMA StagesGain ==
    ASSUME NEW s \in Slots, Alone(s), NEW stages
    PROVE  /\ Cardinality(AtStages(stages)) \in Nat /\ Gain(s, stages) \in Int
           /\ Cardinality(AtStages(stages)') = Cardinality(AtStages(stages)) + Gain(s, stages)
<1>1. \A t \in Slots \ {s} : served'[t] = served[t]
  BY DEF Alone
<1>2. /\ Cardinality(AtStages(stages)) \in Nat
      /\ Cardinality(AtStages(stages)') = Cardinality(AtStages(stages))
                + (IF served'[s].stage \in stages THEN 1 ELSE 0)
                - (IF served[s].stage \in stages THEN 1 ELSE 0)
  BY <1>1, StagesMove
<1>3. QED
  BY <1>2 DEF Gain

LEMMA FiguresAreNumbers ==
    ASSUME PathTypes
    PROVE  /\ figures.total \in Nat /\ figures.active \in Int /\ figures.errors \in Nat
           /\ figures.rejects \in Nat /\ figures.codes \in [Codes -> [count : Nat, stored : Nat]]
           /\ figures.latency \in [Latencies -> Nat] /\ figures.routes \in [Patterns -> RouteFigures]
  BY DEF PathTypes, Gauges

\* What has to be shown of a step for RequestsCounted to go on.
LEMMA CountsGoOn ==
    ASSUME PathInv, NEW s \in Slots, Alone(s),
           NEW more \in Int, Tally(ended') = Tally(ended) + more,
           NEW slower \in Int, Tally(figures'.latency) <= Tally(figures.latency) + slower,
           Tally(figures'.latency) \in Int,
           NEW slow \in Int, figures'.total = figures.total + slow,
           figures'.active = figures.active + Gain(s, Answering),
           slow = more + Gain(s, Uncounted), slower + Gain(s, Unmeasured) <= slow,
           NEW bad \in Int, figures'.errors + figures'.rejects = figures.errors + figures.rejects + bad,
           bad + Gain(s, Unjudged) <= slow
    PROVE  RequestsCounted'
<1>1. RequestsCounted /\ PathTypes
  BY DEF PathInv
<1> DEFINE answering == Cardinality(AtStages(Answering))
           unmeasured == Cardinality(AtStages(Unmeasured))
           unjudged == Cardinality(AtStages(Unjudged))
           uncounted == Cardinality(AtStages(Uncounted))
<1>2. /\ answering \in Nat /\ Gain(s, Answering) \in Int
      /\ Cardinality(AtStages(Answering)') = answering + Gain(s, Answering)
  BY StagesGain
<1>3. /\ unmeasured \in Nat /\ Gain(s, Unmeasured) \in Int
      /\ Cardinality(AtStages(Unmeasured)') = unmeasured + Gain(s, Unmeasured)
  BY StagesGain
<1>4. /\ unjudged \in Nat /\ Gain(s, Unjudged) \in Int
      /\ Cardinality(AtStages(Unjudged)') = unjudged + Gain(s, Unjudged)
  BY StagesGain
<1>5. /\ uncounted \in Nat /\ Gain(s, Uncounted) \in Int
      /\ Cardinality(AtStages(Uncounted)') = uncounted + Gain(s, Uncounted)
  BY StagesGain
<1>6. /\ Tally(ended) \in Int /\ Tally(figures.latency) \in Int /\ figures.total \in Nat
      /\ figures.errors \in Nat /\ figures.rejects \in Nat /\ figures.active \in Int
  BY <1>1, TalliesAreNumbers, FiguresAreNumbers
<1>7. /\ figures.active = answering /\ figures.total = Tally(ended) + uncounted
      /\ Tally(figures.latency) + unmeasured <= figures.total
      /\ figures.errors + figures.rejects + unjudged <= figures.total
  BY <1>1 DEF RequestsCounted
<1> HIDE DEF answering, unmeasured, unjudged, uncounted
<1>8. figures'.active = Cardinality(AtStages(Answering)')
  BY <1>2, <1>7
<1>9. figures'.total = Tally(ended') + Cardinality(AtStages(Uncounted)')
  BY <1>5, <1>6, <1>7
<1>10. Tally(figures'.latency) + Cardinality(AtStages(Unmeasured)') <= figures'.total
  BY <1>3, <1>6, <1>7
<1>11. figures'.errors + figures'.rejects + Cardinality(AtStages(Unjudged)') <= figures'.total
  <2>1. figures'.errors + figures'.rejects + Cardinality(AtStages(Unjudged)')
          = (figures.errors + figures.rejects + bad) + (unjudged + Gain(s, Unjudged))
    BY <1>4
  <2>2. QED
    BY <2>1, <1>4, <1>6, <1>7
<1>12. QED
  BY <1>8, <1>9, <1>10, <1>11 DEF RequestsCounted, Tally

\* A request whose status is not counted yet, before or after.
LEMMA CodesStay ==
    ASSUME PathInv, NEW s \in Slots, Alone(s), served[s].stage # "code", served'[s].stage # "code",
           UNCHANGED ended, figures'.errors = figures.errors, figures'.rejects = figures.rejects,
           figures'.codes = figures.codes
    PROVE  CodesCounted'
<1>1. \A t \in Slots \ {s} : served'[t] = served[t]
  BY DEF Alone
<1>2. Coded(500)' = Coded(500) /\ Coded(503)' = Coded(503) /\ Coded(404)' = Coded(404)
  BY <1>1 DEF Coded
<1>3. \A t \in Slots : served'[t].stage = "code" => served'[t] = served[t]
  BY <1>1
<1>4. CodesCounted
  BY DEF PathInv
<1>5. QED
  BY <1>2, <1>3, <1>4 DEF CodesCounted

LEMMA RequestArrives ==
    ASSUME PathInv, NEW s \in Slots, Arrive(s)
    PROVE  PathInv'
<1>1. PathTypes /\ RequestsCounted /\ RoutesCounted
  BY DEF PathInv
<1>2. PICK p \in Patterns : served' = [served EXCEPT ![s] = Begun(p)]
  BY DEF Arrive
<1>3. /\ served[s].stage = "free" /\ figures.total < MaxServed
      /\ figures' = [figures EXCEPT !.active = @ + 1, !.total = @ + 1]
      /\ answer' = NoAnswer /\ UNCHANGED <<reading, ended>>
  BY DEF Arrive, InFlight
<1>4. /\ Begun(p) \in Requests /\ Begun(p).stage = "handler" /\ Begun(p).pattern = p
  BY DEF Begun, Requests, Uncounted, Unjudged, Unmeasured, Answering
<1>5. served'[s] = Begun(p) /\ Alone(s) /\ served' \in [Slots -> Requests]
  BY <1>1, <1>2, <1>4 DEF PathTypes, Alone
<1>6. /\ figures'.active = figures.active + 1 /\ figures'.total = figures.total + 1
      /\ figures'.errors = figures.errors /\ figures'.rejects = figures.rejects
      /\ figures'.codes = figures.codes /\ figures'.latency = figures.latency
      /\ figures'.routes = figures.routes
  BY <1>1, <1>3 DEF PathTypes, Gauges
<1>7. figures' \in Gauges /\ figures'.total <= MaxServed
  <2>1. figures.active + 1 \in Int /\ figures.total + 1 \in Nat /\ figures.total + 1 <= MaxServed
    BY <1>1, <1>3, FiguresAreNumbers, RequestPathAssumption
  <2>2. QED
    BY <1>1, <1>3, <1>6, <2>1 DEF PathTypes, Gauges
<1>8. PathTypes'
  <2>1. \A t \in Slots : /\ served'[t].stage # "free" => served'[t].pattern \in Patterns
                         /\ served'[t].stage \notin {"free", "handler"} => served'[t].status \in Codes
    BY <1>1, <1>4, <1>5 DEF PathTypes, Alone
  <2>2. QED
    BY <1>1, <1>3, <1>5, <1>7, <2>1 DEF PathTypes
<1>9. RequestsCounted'
  <2>1. served'[s].stage = "handler"
    BY <1>4, <1>5
  <2>2. /\ Gain(s, Answering) = 1 /\ Gain(s, Unmeasured) = 1
        /\ Gain(s, Unjudged) = 1 /\ Gain(s, Uncounted) = 1
    BY <1>3, <2>1 DEF Gain, Uncounted, Unjudged, Unmeasured, Answering
  <2>3. Tally(ended') = Tally(ended) + 0 /\ Tally(figures'.latency) = Tally(figures.latency) + 0
        /\ Tally(figures'.latency) \in Int
    BY <1>1, <1>3, <1>6, TalliesAreNumbers
  <2>4. figures'.errors + figures'.rejects = figures.errors + figures.rejects + 0
    BY <1>1, <1>6, FiguresAreNumbers
  <2>5. Tally(figures'.latency) <= Tally(figures.latency) + 0
    BY <1>1, <2>3, TalliesAreNumbers
  <2>6. QED
    BY <1>5, <1>6, <2>2, <2>3, <2>4, <2>5, CountsGoOn
<1>10. CodesCounted'
  BY <1>3, <1>4, <1>5, <1>6, CodesStay
<1>11. RoutesCounted'
  BY <1>1, <1>6 DEF RoutesCounted
<1>12. ReadingBounded'
  <2>1. figures.total <= figures'.total /\ figures.errors <= figures'.errors
        /\ figures.rejects <= figures'.rejects
    BY <1>1, <1>6, FiguresAreNumbers
  <2>2. QED
    BY <1>3, <1>8, <2>1, ReadingsAge
<1>13. AnswerIsWhole'
  BY <1>3 DEF AnswerIsWhole
<1>14. QED
  BY <1>8, <1>9, <1>10, <1>11, <1>12, <1>13 DEF PathInv

\* What a handler has answered so far: nothing, or one header and pieces of one coding.
Responses == [gzip : BOOLEAN, face : Faces, wrote : BOOLEAN, stream : BOOLEAN, status : Codes,
              sent : Codes \cup {0}, body : Seq({"zip", "own", "plain"}), cut : BOOLEAN]

Kept(r) ==
    /\ r \in Responses /\ ~r.cut
    /\ r.wrote => r.sent = r.status
    /\ ~r.wrote => r.sent = 0 /\ r.status = 200 /\ r.body = <<>> /\ ~r.stream
    /\ r.stream => r.face = "text"
    /\ \A i \in DOMAIN r.body : r.body[i] = Coding(r)

LEMMA ResponsesAreKept ==
    ASSUME NEW gzip \in BOOLEAN, NEW face \in Faces
    PROVE  Kept(Response(gzip, face)) /\ ~Response(gzip, face).wrote
  BY CodesAreFew DEF Kept, Response, Responses

LEMMA HeadersAreKept ==
    ASSUME NEW r, Kept(r), ~r.wrote, NEW code \in Codes
    PROVE  Kept(Headed(r, code)) /\ Headed(r, code).wrote
<1> DEFINE h == Headed(r, code)
<1>1. r \in Responses /\ r.sent = 0 /\ r.body = <<>> /\ ~r.cut
  BY DEF Kept
<1>2. Decide(r) \in BOOLEAN /\ (Decide(r) => r.face = "text")
  BY <1>1 DEF Decide, Responses
<1>3. /\ h = [r EXCEPT !.wrote = TRUE, !.stream = Decide(r), !.status = code, !.sent = code]
  BY <1>1 DEF Headed
<1>4. h \in Responses
  BY <1>1, <1>2, <1>3 DEF Responses
<1>5. /\ h.wrote /\ h.sent = code /\ h.status = code /\ h.body = <<>> /\ ~h.cut
      /\ h.stream = Decide(r) /\ h.face = r.face
  BY <1>1, <1>3 DEF Responses
<1> HIDE DEF h
<1>6. Kept(h) /\ h.wrote
  BY <1>2, <1>4, <1>5 DEF Kept
<1>7. QED
  BY <1>6 DEF h

LEMMA BodiesAreKept ==
    ASSUME NEW r, Kept(r)
    PROVE  Kept(BodyWritten(r)) /\ BodyWritten(r).wrote
<1> DEFINE h == IF r.wrote THEN r ELSE Headed(r, 200)
           b == [h EXCEPT !.body = Append(h.body, Coding(h))]
<1>1. Kept(h) /\ h.wrote
  BY HeadersAreKept, CodesAreFew
<1>2. b = BodyWritten(r)
  BY DEF BodyWritten
<1> HIDE DEF h
<1>3. h \in Responses /\ h.body \in Seq({"zip", "own", "plain"})
  BY <1>1 DEF Kept, Responses
<1>4. Coding(h) \in {"zip", "own", "plain"}
  BY DEF Coding
<1>5. Append(h.body, Coding(h)) \in Seq({"zip", "own", "plain"})
  BY <1>3, <1>4
<1>6. /\ b \in Responses
      /\ b.wrote = h.wrote /\ b.sent = h.sent /\ b.status = h.status /\ b.cut = h.cut
      /\ b.stream = h.stream /\ b.face = h.face /\ b.body = Append(h.body, Coding(h))
  BY <1>3, <1>5 DEF Responses
<1> HIDE DEF b
<1>7. Coding(b) = Coding(h)
  BY <1>6 DEF Coding
<1>8. \A i \in DOMAIN b.body : b.body[i] = Coding(b)
  <2>1. \A i \in DOMAIN h.body : h.body[i] = Coding(h)
    BY <1>1 DEF Kept
  <2>2. QED
    BY <1>3, <1>4, <1>6, <1>7, <2>1
<1>9. Kept(b) /\ b.wrote
  <2>1. h.wrote /\ ~h.cut /\ h.sent = h.status /\ (h.stream => h.face = "text")
    BY <1>1 DEF Kept
  <2>2. QED
    BY <1>6, <1>8, <2>1 DEF Kept
<1>10. QED
  BY <1>2, <1>9

\* An answer as its reader gets it.
WholeAnswer(r) ==
    ~r.cut => /\ Cardinality(Range(r.body)) <= 1
              /\ r.status = IF r.sent = 0 THEN 200 ELSE r.sent
              /\ r.stream => r.face = "text" /\ Range(r.body) \subseteq {"zip"}
              /\ "zip" \in Range(r.body) => r.stream

LEMMA OneCodingAtMost ==
    ASSUME NEW body, NEW c, \A i \in DOMAIN body : body[i] = c
    PROVE  Cardinality(Range(body)) <= 1 /\ Range(body) \subseteq {c}
<1>1. Range(body) \subseteq {c}
  BY DEF Range
<1>2. IsFiniteSet({c}) /\ Cardinality({c}) = 1
  BY FS_Singleton
<1>3. QED
  BY <1>1, <1>2, FS_Subset

LEMMA KeptIsWhole ==
    ASSUME NEW r, Kept(r)
    PROVE  WholeAnswer(r) /\ r.status \in Codes
<1>1. Cardinality(Range(r.body)) <= 1 /\ Range(r.body) \subseteq {Coding(r)}
  BY OneCodingAtMost DEF Kept
<1>2. r.status \in Codes /\ 0 \notin Codes
  BY CodesAreFew DEF Kept, Responses
<1>3. r.status = IF r.sent = 0 THEN 200 ELSE r.sent
  BY <1>2 DEF Kept
<1>4. (r.stream => Coding(r) = "zip") /\ (Coding(r) = "zip" => r.stream)
  BY DEF Coding
<1>5. QED
  BY <1>1, <1>2, <1>3, <1>4 DEF WholeAnswer, Kept

LEMMA RecoveredIsWhole ==
    ASSUME NEW r, Kept(r)
    PROVE  WholeAnswer(Recovered(r)) /\ Recovered(r).status \in Codes
<1> DEFINE q == [r EXCEPT !.gzip = FALSE]
           h == Headed(q, 500)
           a == [h EXCEPT !.body = Append(h.body, "plain"), !.cut = r.wrote]
<1>1. r \in Responses
  BY DEF Kept
<1>2. /\ q \in Responses /\ q.wrote = r.wrote /\ q.stream = r.stream /\ q.status = r.status
      /\ q.sent = r.sent /\ q.body = r.body /\ q.cut = r.cut /\ ~q.gzip
  BY <1>1 DEF Responses
<1>3. a = Recovered(r)
  BY DEF Recovered
<1> HIDE DEF q
<1>4. Decide(q) = FALSE
  BY <1>2 DEF Decide
<1>5. /\ h.status = 500 /\ h.body = r.body
      /\ ~r.wrote => h.stream = FALSE /\ h.sent = 500
      /\ DOMAIN h = {"gzip", "face", "wrote", "stream", "status", "sent", "body", "cut"}
  BY <1>2, <1>4 DEF Headed, Responses, Kept
<1> HIDE DEF h
<1>6. /\ a.status = h.status /\ a.sent = h.sent /\ a.stream = h.stream
      /\ a.body = Append(h.body, "plain") /\ a.cut = r.wrote
  BY <1>5
<1> HIDE DEF a
<1>7. ASSUME ~r.wrote
      PROVE  WholeAnswer(a)
  <2>1. a.body = <<"plain">>
    <3>1. a.body = Append(<<>>, "plain")
      BY <1>5, <1>6, <1>7 DEF Kept
    <3>2. Append(<<>>, "plain") = <<"plain">>
      OBVIOUS
    <3>3. QED
      BY <3>1, <3>2, Zenon
  <2>2. \A i \in DOMAIN a.body : a.body[i] = "plain"
    BY <2>1
  <2>3. Cardinality(Range(a.body)) <= 1 /\ Range(a.body) \subseteq {"plain"}
    BY <2>2, OneCodingAtMost
  <2>4. a.status = 500 /\ a.sent = 500 /\ a.stream = FALSE
    BY <1>5, <1>6, <1>7
  <2>5. QED
    BY <2>3, <2>4 DEF WholeAnswer
<1>8. ASSUME r.wrote
      PROVE  WholeAnswer(a)
  BY <1>6, <1>8 DEF WholeAnswer
<1>9. QED
  BY <1>3, <1>5, <1>6, <1>7, <1>8, CodesAreFew

LEMMA AnswersAreWhole ==
    ASSUME NEW s \in Slots, Handle(s)
    PROVE  AnswerIsWhole' /\ answer'.status \in Codes
<1>1. PICK face \in Faces, gzip \in BOOLEAN, code \in Headers, writes \in 0 .. 2, panics \in BOOLEAN :
          LET opened == Response(gzip, face)
              begun  == IF code = 0 THEN opened ELSE Headed(opened, code)
              body   == IF writes = 0 THEN begun ELSE
                        IF writes = 1 THEN BodyWritten(begun) ELSE BodyWritten(BodyWritten(begun))
          IN  answer' = IF panics THEN Recovered(body) ELSE body
  BY DEF Handle
<1> DEFINE opened == Response(gzip, face)
           begun  == IF code = 0 THEN opened ELSE Headed(opened, code)
           body   == IF writes = 0 THEN begun ELSE
                     IF writes = 1 THEN BodyWritten(begun) ELSE BodyWritten(BodyWritten(begun))
<1>2. code \in Codes \cup {0}
  BY DEF Headers, HealthStatus, Codes
<1>3. Kept(begun)
  BY <1>2, ResponsesAreKept, HeadersAreKept
<1> HIDE DEF begun
<1>4. Kept(BodyWritten(begun)) /\ Kept(BodyWritten(BodyWritten(begun)))
  BY <1>3, BodiesAreKept
<1>5. Kept(body)
  BY <1>3, <1>4
<1>6. answer' = IF panics THEN Recovered(body) ELSE body
  BY <1>1 DEF begun
<1> HIDE DEF body
<1>7. WholeAnswer(answer') /\ answer'.status \in Codes
  BY <1>5, <1>6, KeptIsWhole, RecoveredIsWhole
<1>8. QED
  BY <1>7 DEF WholeAnswer, AnswerIsWhole

\* What a step of a request in flight keeps of the types.
LEMMA RequestsGoOn ==
    ASSUME PathTypes, NEW s \in Slots, Alone(s), DOMAIN served' = Slots,
           served' = [t \in Slots |-> served'[t]], served'[s] \in Requests,
           served'[s].stage # "free" => served'[s].pattern \in Patterns,
           served'[s].stage \notin {"free", "handler"} => served'[s].status \in Codes,
           figures' \in Gauges, figures'.total <= MaxServed, ended' \in [Codes -> Nat],
           UNCHANGED reading
    PROVE  PathTypes'
<1>1. \A t \in Slots : t = s \/ served'[t] = served[t]
  BY DEF Alone
<1>2. served' \in [Slots -> Requests]
  <2>1. \A t \in Slots : served'[t] \in Requests
    BY <1>1 DEF PathTypes
  <2>2. QED
    BY <2>1
<1>3. \A t \in Slots : /\ served'[t].stage # "free" => served'[t].pattern \in Patterns
                       /\ served'[t].stage \notin {"free", "handler"} => served'[t].status \in Codes
  BY <1>1 DEF PathTypes
<1>4. QED
  BY <1>2, <1>3 DEF PathTypes

LEMMA HandlerAnswers ==
    ASSUME PathInv, NEW s \in Slots, Handle(s)
    PROVE  PathInv'
<1>1. PathTypes /\ RoutesCounted /\ served[s] \in Requests
  BY DEF PathInv, PathTypes
<1>2. /\ served[s].stage = "handler"
      /\ served' = [served EXCEPT ![s].stage = "collect", ![s].status = answer'.status]
      /\ UNCHANGED <<figures, reading, ended>>
  BY DEF Handle, In
<1>3. AnswerIsWhole' /\ answer'.status \in Codes
  BY AnswersAreWhole
<1>4. /\ served'[s] = [served[s] EXCEPT !.stage = "collect", !.status = answer'.status]
      /\ Alone(s) /\ DOMAIN served' = Slots /\ served' = [t \in Slots |-> served'[t]]
  BY <1>1, <1>2 DEF PathTypes, Alone
<1>5. /\ served'[s] \in Requests /\ served'[s].stage = "collect"
      /\ served'[s].status = answer'.status /\ served'[s].pattern = served[s].pattern
  BY <1>1, <1>3, <1>4 DEF Requests, Uncounted, Unjudged, Unmeasured, Answering
<1>6. PathTypes'
  <2>1. served[s].pattern \in Patterns
    BY <1>1, <1>2 DEF PathTypes
  <2>2. figures' \in Gauges /\ figures'.total <= MaxServed /\ ended' \in [Codes -> Nat]
    BY <1>1, <1>2 DEF PathTypes
  <2>3. QED
    BY <1>1, <1>2, <1>3, <1>4, <1>5, <2>1, <2>2, RequestsGoOn
<1>7. RequestsCounted'
  <2>1. /\ Gain(s, Answering) = 0 /\ Gain(s, Unmeasured) = 0
        /\ Gain(s, Unjudged) = 0 /\ Gain(s, Uncounted) = 0
    BY <1>2, <1>5 DEF Gain, Uncounted, Unjudged, Unmeasured, Answering
  <2>2. Tally(ended') = Tally(ended) + 0 /\ Tally(figures'.latency) <= Tally(figures.latency) + 0
        /\ Tally(figures'.latency) \in Int
    BY <1>1, <1>2, TalliesAreNumbers
  <2>3. /\ figures'.total = figures.total + 0 /\ figures'.active = figures.active + 0
        /\ figures'.errors + figures'.rejects = figures.errors + figures.rejects + 0
    BY <1>1, <1>2, FiguresAreNumbers
  <2>4. QED
    BY <1>4, <2>1, <2>2, <2>3, CountsGoOn
<1>8. CodesCounted'
  BY <1>2, <1>4, <1>5, CodesStay
<1>9. RoutesCounted'
  BY <1>1, <1>2 DEF RoutesCounted
<1>10. ReadingBounded'
  BY <1>2 DEF PathInv, ReadingBounded, ClosingIsRead
<1>11. QED
  BY <1>3, <1>6, <1>7, <1>8, <1>9, <1>10 DEF PathInv

LEMMA RequestFinishes ==
    ASSUME PathInv, NEW s \in Slots, Finish(s)
    PROVE  PathInv'
<1>1. PathTypes /\ RoutesCounted /\ served[s] \in Requests
  BY DEF PathInv, PathTypes
<1>2. PICK ms \in Durations : served' = [served EXCEPT ![s].stage = "latency", ![s].ms = ms]
  BY DEF Finish
<1>3. /\ served[s].stage = "collect" /\ figures' = [figures EXCEPT !.active = @ - 1]
      /\ answer' = NoAnswer /\ UNCHANGED <<reading, ended>>
  BY DEF Finish, In
<1>4. /\ served'[s] = [served[s] EXCEPT !.stage = "latency", !.ms = ms]
      /\ Alone(s) /\ DOMAIN served' = Slots /\ served' = [t \in Slots |-> served'[t]]
  BY <1>1, <1>2 DEF PathTypes, Alone
<1>5. /\ served'[s] \in Requests /\ served'[s].stage = "latency"
      /\ served'[s].status = served[s].status /\ served'[s].pattern = served[s].pattern
  <2>1. ms \in Nat
    BY RequestPathAssumption
  <2>2. QED
    BY <1>1, <1>4, <2>1 DEF Requests, Uncounted, Unjudged, Unmeasured, Answering
<1>6. /\ figures'.active = figures.active - 1 /\ figures'.total = figures.total
      /\ figures'.errors = figures.errors /\ figures'.rejects = figures.rejects
      /\ figures'.codes = figures.codes /\ figures'.latency = figures.latency
      /\ figures'.routes = figures.routes /\ figures' \in Gauges
  BY <1>1, <1>3 DEF PathTypes, Gauges
<1>7. PathTypes'
  <2>1. served[s].pattern \in Patterns /\ served[s].status \in Codes
    BY <1>1, <1>3 DEF PathTypes
  <2>2. figures'.total <= MaxServed /\ ended' \in [Codes -> Nat]
    BY <1>1, <1>3, <1>6 DEF PathTypes
  <2>3. QED
    BY <1>1, <1>3, <1>4, <1>5, <1>6, <2>1, <2>2, RequestsGoOn
<1>8. RequestsCounted'
  <2>1. /\ Gain(s, Answering) = -1 /\ Gain(s, Unmeasured) = 0
        /\ Gain(s, Unjudged) = 0 /\ Gain(s, Uncounted) = 0
    BY <1>3, <1>5 DEF Gain, Uncounted, Unjudged, Unmeasured, Answering
  <2>2. Tally(ended') = Tally(ended) + 0 /\ Tally(figures'.latency) <= Tally(figures.latency) + 0
        /\ Tally(figures'.latency) \in Int
    BY <1>1, <1>3, <1>6, TalliesAreNumbers
  <2>3. /\ figures'.total = figures.total + 0 /\ figures'.active = figures.active + (-1)
        /\ figures'.errors + figures'.rejects = figures.errors + figures.rejects + 0
    BY <1>1, <1>6, FiguresAreNumbers
  <2>4. QED
    BY <1>4, <2>1, <2>2, <2>3, CountsGoOn
<1>9. CodesCounted'
  BY <1>3, <1>4, <1>5, <1>6, CodesStay
<1>10. RoutesCounted'
  BY <1>1, <1>6 DEF RoutesCounted
<1>11. ReadingBounded'
  BY <1>3, <1>6 DEF PathInv, ReadingBounded, ClosingIsRead
<1>12. AnswerIsWhole'
  BY <1>3 DEF AnswerIsWhole
<1>13. QED
  BY <1>7, <1>8, <1>9, <1>10, <1>11, <1>12 DEF PathInv

\* A duration falls in one bucket or in none.
LEMMA BucketIsOne ==
    ASSUME NEW ms \in Nat
    PROVE  Bucket(ms) = {} \/ \E c \in Latencies : Bucket(ms) = {c}
<1> DEFINE fitting == {i \in Latencies : ms <= LatencyBounds[i]}
<1>1. fitting \subseteq Nat
  BY CodesAreFew
<1>2. CASE fitting = {}
  BY <1>2 DEF Bucket
<1>3. CASE fitting # {}
  <2>1. PICK c \in fitting : \A i \in fitting : c <= i
    BY <1>1, <1>3, NaturalsHaveALeast
  <2>2. Min(fitting) \in fitting
    BY <2>1 DEF Min
  <2>3. QED
    BY <1>3, <2>2 DEF Bucket
<1>4. QED
  BY <1>2, <1>3

LEMMA BumpsAddOne ==
    ASSUME NEW h \in [Latencies -> Nat], NEW ms \in Nat
    PROVE  /\ Bumped(h, ms) \in [Latencies -> Nat]
           /\ Tally(Bumped(h, ms)) \in Int /\ Tally(h) \in Int
           /\ Tally(Bumped(h, ms)) <= Tally(h) + 1
<1> DEFINE L == Latencies
           B == Bucket(ms)
<1>1. PICK g : g = Bumped(h, ms)
  OBVIOUS
<1>2. g \in [L -> Nat] /\ DOMAIN g = L /\ DOMAIN h = L
      /\ \A i \in L : g[i] = h[i] + IF i \in B THEN 1 ELSE 0
  BY <1>1 DEF Bumped
<1>3. B = {} \/ \E c \in L : B = {c}
  BY BucketIsOne
<1>4. IsFiniteSet(L)
  BY CodesAreFew
<1> HIDE DEF L, B
<1>5. \A i \in L : h[i] \in Int /\ g[i] \in Int
  BY <1>2
<1>6. SumFunctionOnSet(g, L) \in Int /\ SumFunctionOnSet(h, L) \in Int
  <2>1. SumFunctionOnSet(g, L) \in Int
    BY <1>4, <1>5, SumTakesAny
  <2>2. SumFunctionOnSet(h, L) \in Int
    BY <1>4, <1>5, SumTakesAny
  <2>3. QED
    BY <2>1, <2>2
<1>7. ASSUME B = {}
      PROVE  SumFunctionOnSet(g, L) = SumFunctionOnSet(h, L)
  <2>1. \A i \in L : g[i] = h[i]
    BY <1>2, <1>5, <1>7
  <2>2. QED
    BY <1>4, <2>1, SumsAreAlike
<1>8. ASSUME NEW c \in L, B = {c}
      PROVE  SumFunctionOnSet(g, L) = SumFunctionOnSet(h, L) + 1
  <2>1. (\A i \in L \ {c} : g[i] = h[i]) /\ g[c] = h[c] + 1
    BY <1>2, <1>5, <1>8
  <2>2. SumFunctionOnSet(g, L) = SumFunctionOnSet(h, L) + (g[c] - h[c])
    BY <1>4, <1>5, <2>1, SumOfChanged
  <2>3. g[c] - h[c] = 1
    BY <1>5, <2>1
  <2>4. QED
    BY <2>2, <2>3
<1>9. Tally(g) = SumFunctionOnSet(g, L) /\ Tally(h) = SumFunctionOnSet(h, L)
  BY <1>2 DEF Tally, SumFunction
<1>10. Tally(g) <= Tally(h) + 1
  BY <1>3, <1>6, <1>7, <1>8, <1>9
<1>11. QED
  BY <1>1, <1>2, <1>6, <1>9, <1>10 DEF L

LEMMA LatencyIsNoted ==
    ASSUME PathInv, NEW s \in Slots, NoteLatency(s)
    PROVE  PathInv'
<1>1. PathTypes /\ RoutesCounted /\ served[s] \in Requests
  BY DEF PathInv, PathTypes
<1>2. /\ served[s].stage = "latency"
      /\ figures' = [figures EXCEPT !.latency = Bumped(figures.latency, served[s].ms)]
      /\ served' = [served EXCEPT ![s].stage = "errors"]
      /\ answer' = NoAnswer /\ UNCHANGED <<reading, ended>>
  BY DEF NoteLatency, In
<1>3. /\ served'[s] = [served[s] EXCEPT !.stage = "errors"]
      /\ Alone(s) /\ DOMAIN served' = Slots /\ served' = [t \in Slots |-> served'[t]]
  BY <1>1, <1>2 DEF PathTypes, Alone
<1>4. /\ served'[s] \in Requests /\ served'[s].stage = "errors"
      /\ served'[s].status = served[s].status /\ served'[s].pattern = served[s].pattern
  BY <1>1, <1>3 DEF Requests, Uncounted, Unjudged, Unmeasured, Answering
<1>5. /\ Bumped(figures.latency, served[s].ms) \in [Latencies -> Nat]
      /\ Tally(Bumped(figures.latency, served[s].ms)) \in Int
      /\ Tally(Bumped(figures.latency, served[s].ms)) <= Tally(figures.latency) + 1
  <2>1. served[s].ms \in Nat
    BY <1>1 DEF Requests
  <2>2. figures.latency \in [Latencies -> Nat]
    BY <1>1, FiguresAreNumbers
  <2>3. QED
    BY <2>1, <2>2, BumpsAddOne
<1>6. /\ figures'.active = figures.active /\ figures'.total = figures.total
      /\ figures'.errors = figures.errors /\ figures'.rejects = figures.rejects
      /\ figures'.codes = figures.codes /\ figures'.routes = figures.routes
      /\ figures'.latency = Bumped(figures.latency, served[s].ms) /\ figures' \in Gauges
  BY <1>1, <1>2, <1>5 DEF PathTypes, Gauges
<1>7. PathTypes'
  <2>1. served[s].pattern \in Patterns /\ served[s].status \in Codes
    BY <1>1, <1>2 DEF PathTypes
  <2>2. figures'.total <= MaxServed /\ ended' \in [Codes -> Nat]
    BY <1>1, <1>2, <1>6 DEF PathTypes
  <2>3. QED
    BY <1>1, <1>2, <1>3, <1>4, <1>6, <2>1, <2>2, RequestsGoOn
<1>8. RequestsCounted'
  <2>1. /\ Gain(s, Answering) = 0 /\ Gain(s, Unmeasured) = -1
        /\ Gain(s, Unjudged) = 0 /\ Gain(s, Uncounted) = 0
    BY <1>2, <1>4 DEF Gain, Uncounted, Unjudged, Unmeasured, Answering
  <2>2. Tally(ended') = Tally(ended) + 0
    BY <1>1, <1>2, TalliesAreNumbers
  <2>3. Tally(figures'.latency) <= Tally(figures.latency) + 1 /\ Tally(figures'.latency) \in Int
    BY <1>5, <1>6
  <2>4. /\ figures'.total = figures.total + 0 /\ figures'.active = figures.active + 0
        /\ figures'.errors + figures'.rejects = figures.errors + figures.rejects + 0
    BY <1>1, <1>6, FiguresAreNumbers
  <2>5. QED
    BY <1>3, <2>1, <2>2, <2>3, <2>4, CountsGoOn
<1>9. CodesCounted'
  BY <1>2, <1>3, <1>4, <1>6, CodesStay
<1>10. RoutesCounted'
  BY <1>1, <1>6 DEF RoutesCounted
<1>11. ReadingBounded'
  BY <1>2, <1>6 DEF PathInv, ReadingBounded, ClosingIsRead
<1>12. AnswerIsWhole'
  BY <1>2 DEF AnswerIsWhole
<1>13. QED
  BY <1>7, <1>8, <1>9, <1>10, <1>11, <1>12 DEF PathInv

LEMMA ErrorIsNoted ==
    ASSUME PathInv, NEW s \in Slots, NoteError(s)
    PROVE  PathInv'
<1> DEFINE code == served[s].status
           grave == IF code \in {500, 503} THEN 1 ELSE 0
           lost == IF code = 404 THEN 1 ELSE 0
<1>1. PathTypes /\ RoutesCounted /\ CodesCounted /\ served[s] \in Requests
  BY DEF PathInv, PathTypes
<1>2. /\ served[s].stage = "errors"
      /\ figures' = IF Serious(code) THEN [figures EXCEPT !.errors = @ + 1]
                    ELSE IF code >= 400 THEN [figures EXCEPT !.rejects = @ + 1]
                    ELSE figures
      /\ served' = [served EXCEPT ![s].stage = "code", ![s].found = figures.codes[code].stored]
      /\ answer' = NoAnswer /\ UNCHANGED <<reading, ended>>
  BY DEF NoteError, In
<1>3. /\ served'[s] = [served[s] EXCEPT !.stage = "code", !.found = figures.codes[code].stored]
      /\ Alone(s) /\ DOMAIN served' = Slots /\ served' = [t \in Slots |-> served'[t]]
  BY <1>1, <1>2 DEF PathTypes, Alone
<1>4. served[s].pattern \in Patterns /\ code \in Codes
  BY <1>1, <1>2 DEF PathTypes
<1>5. figures.codes[code].stored \in Nat
  BY <1>1, <1>4, FiguresAreNumbers
<1>6. /\ served'[s] \in Requests /\ served'[s].stage = "code" /\ served'[s].status = code
      /\ served'[s].pattern = served[s].pattern /\ served'[s].found = figures.codes[code].stored
  BY <1>1, <1>3, <1>5 DEF Requests, Uncounted, Unjudged, Unmeasured, Answering
<1>7. /\ Serious(code) <=> grave = 1
      /\ ~Serious(code) => (code >= 400 <=> lost = 1)
      /\ grave \in {0, 1} /\ lost \in {0, 1} /\ grave + lost \in {0, 1}
  <2>1. code \in Codes
    BY <1>4
  <2> HIDE DEF code
  <2>2. code \in {200, 404, 500, 503}
    BY <2>1, CodesAreFew
  <2>3. QED
    BY <2>2 DEF Serious
<1>8. figures \in Gauges /\ figures.total <= MaxServed /\ figures.errors \in Nat /\ figures.rejects \in Nat
  BY <1>1, FiguresAreNumbers DEF PathTypes
<1>9. /\ figures'.errors = figures.errors + grave /\ figures'.rejects = figures.rejects + lost
      /\ figures'.active = figures.active /\ figures'.total = figures.total
      /\ figures'.codes = figures.codes /\ figures'.routes = figures.routes
      /\ figures'.latency = figures.latency /\ figures' \in Gauges
  <2> HIDE DEF grave, lost, code
  <2>1. CASE Serious(code)
    <3>1. figures' = [figures EXCEPT !.errors = @ + 1] /\ grave = 1 /\ lost = 0
      BY <1>2, <1>7, <2>1
    <3>2. QED
      BY <1>8, <3>1 DEF Gauges
  <2>2. CASE ~Serious(code) /\ code >= 400
    <3>1. figures' = [figures EXCEPT !.rejects = @ + 1] /\ grave = 0 /\ lost = 1
      BY <1>2, <1>7, <2>2
    <3>2. QED
      BY <1>8, <3>1 DEF Gauges
  <2>3. CASE ~Serious(code) /\ ~(code >= 400)
    <3>1. figures' = figures /\ grave = 0 /\ lost = 0
      BY <1>2, <1>7, <2>3
    <3>2. QED
      BY <1>8, <3>1
  <2>4. QED
    BY <2>1, <2>2, <2>3
<1>10. PathTypes'
  <2>1. figures'.total <= MaxServed /\ ended' \in [Codes -> Nat]
    BY <1>1, <1>2, <1>9 DEF PathTypes
  <2>2. served'[s].status \in Codes /\ served'[s].pattern \in Patterns
    BY <1>4, <1>6
  <2>3. UNCHANGED reading
    BY <1>2
  <2> HIDE DEF code, grave, lost
  <2>4. QED
    BY <1>1, <1>3, <1>6, <1>9, <2>1, <2>2, <2>3, RequestsGoOn
<1>11. RequestsCounted'
  <2>1. /\ Gain(s, Answering) = 0 /\ Gain(s, Unmeasured) = 0
        /\ Gain(s, Unjudged) = -1 /\ Gain(s, Uncounted) = 0
    BY <1>2, <1>6 DEF Gain, Uncounted, Unjudged, Unmeasured, Answering
  <2>2. Tally(ended') = Tally(ended) + 0 /\ Tally(figures'.latency) <= Tally(figures.latency) + 0
        /\ Tally(figures'.latency) \in Int
    BY <1>1, <1>2, <1>9, TalliesAreNumbers
  <2> HIDE DEF code, grave, lost
  <2>3. figures'.total = figures.total + 0 /\ figures'.active = figures.active + 0
    BY <1>1, <1>9, FiguresAreNumbers
  <2>4. figures'.errors + figures'.rejects = figures.errors + figures.rejects + (grave + lost)
    BY <1>7, <1>8, <1>9
  <2>5. grave + lost \in Int /\ (grave + lost) + Gain(s, Unjudged) <= 0
    BY <1>7, <2>1
  <2>6. QED
    BY <1>3, <2>1, <2>2, <2>3, <2>4, <2>5, CountsGoOn
<1>12. CodesCounted'
  <2>1. \A c : /\ Cardinality(Coded(c)) \in Nat
               /\ Cardinality(Coded(c)') = Cardinality(Coded(c)) + (IF code = c THEN 1 ELSE 0)
    <3> TAKE c
    <3>1. \A t \in Slots \ {s} : served'[t] = served[t]
      BY <1>3 DEF Alone
    <3>2. /\ Cardinality(Coded(c)) \in Nat
          /\ Cardinality(Coded(c)') = Cardinality(Coded(c))
                + (IF served'[s].stage = "code" /\ served'[s].status = c THEN 1 ELSE 0)
                - (IF served[s].stage = "code" /\ served[s].status = c THEN 1 ELSE 0)
      BY <3>1, CodedMoves
    <3>3. QED
      BY <1>2, <1>6, <3>2
  <2>2. /\ Cardinality(Coded(500)) \in Nat /\ Cardinality(Coded(503)) \in Nat
        /\ Cardinality(Coded(404)) \in Nat
        /\ Cardinality(Coded(500)') = Cardinality(Coded(500)) + (IF code = 500 THEN 1 ELSE 0)
        /\ Cardinality(Coded(503)') = Cardinality(Coded(503)) + (IF code = 503 THEN 1 ELSE 0)
        /\ Cardinality(Coded(404)') = Cardinality(Coded(404)) + (IF code = 404 THEN 1 ELSE 0)
    BY <2>1
  <2>3. grave = (IF code = 500 THEN 1 ELSE 0) + (IF code = 503 THEN 1 ELSE 0)
    OBVIOUS
  <2>4. ended[500] \in Nat /\ ended[503] \in Nat /\ (404 \in Codes => ended[404] \in Nat)
    BY <1>1, CodesAreFew DEF PathTypes
  <2>5. /\ figures.errors = ended[500] + ended[503] + Cardinality(Coded(500)) + Cardinality(Coded(503))
        /\ figures.rejects = (IF 404 \in Codes THEN ended[404] ELSE 0) + Cardinality(Coded(404))
    BY <1>1 DEF CodesCounted
  <2>6. figures'.errors = ended[500] + ended[503] + Cardinality(Coded(500)') + Cardinality(Coded(503)')
    BY <1>9, <2>2, <2>3, <2>4, <2>5
  <2>7. figures'.rejects = (IF 404 \in Codes THEN ended[404] ELSE 0) + Cardinality(Coded(404)')
    BY <1>9, <2>2, <2>4, <2>5
  <2>8. ASSUME NEW t \in Slots, served'[t].stage = "code", served'[t].found > 0
        PROVE  figures.codes[served'[t].status].stored > 0
    <3>1. CASE t = s
      BY <1>6, <2>8, <3>1
    <3>2. CASE t # s
      BY <1>1, <1>3, <2>8, <3>2 DEF Alone, CodesCounted
    <3>3. QED
      BY <3>1, <3>2
  <2>9. QED
    <3>1. \A c \in Codes : /\ figures'.codes[c].count <= ended'[c]
                           /\ figures'.codes[c].stored > 0 => figures'.codes[c].count > 0
                           /\ ended'[c] > 0 => figures'.codes[c].stored > 0
      BY <1>1, <1>2, <1>9 DEF CodesCounted
    <3>2. \A t \in Slots : served'[t].stage = "code" /\ served'[t].found > 0
                           => figures'.codes[served'[t].status].stored > 0
      BY <1>9, <2>8
    <3>3. ended' = ended
      BY <1>2
    <3> HIDE DEF code, grave, lost
    <3>4. QED
      BY <2>6, <2>7, <3>1, <3>2, <3>3 DEF CodesCounted
<1>13. RoutesCounted'
  BY <1>1, <1>9 DEF RoutesCounted
<1>14. ReadingBounded'
  <2>1. /\ figures.total <= figures'.total /\ figures.errors <= figures'.errors
        /\ figures.rejects <= figures'.rejects
    BY <1>1, <1>7, <1>9, FiguresAreNumbers
  <2>2. QED
    BY <1>2, <1>10, <2>1, ReadingsAge
<1>15. AnswerIsWhole'
  BY <1>2 DEF AnswerIsWhole
<1>16. QED
  BY <1>10, <1>11, <1>12, <1>13, <1>14, <1>15 DEF PathInv

\* What the counter of a code becomes.
LEMMA CountersStayTrue ==
    ASSUME NEW held \in [count : Nat, stored : Nat], NEW found \in Nat, NEW had \in Nat,
           held.count <= had, held.stored > 0 => held.count > 0, found > 0 => held.stored > 0
    PROVE  /\ Incremented(held, found) \in [count : Nat, stored : Nat]
           /\ Incremented(held, found).count <= had + 1
           /\ Incremented(held, found).stored > 0 /\ Incremented(held, found).count > 0
<1>1. CASE found = 0
  <2>1. Incremented(held, found) = [count |-> 1, stored |-> held.stored + 1]
    BY <1>1 DEF Incremented
  <2>2. QED
    BY <2>1
<1>2. CASE found # 0 /\ found = held.stored
  <2>1. Incremented(held, found) = [held EXCEPT !.count = @ + 1]
    BY <1>2 DEF Incremented
  <2>2. QED
    BY <1>2, <2>1
<1>3. CASE found # 0 /\ found # held.stored
  <2>1. Incremented(held, found) = held
    BY <1>3 DEF Incremented
  <2>2. QED
    BY <1>3, <2>1
<1>4. QED
  BY <1>1, <1>2, <1>3

\* One more of a kind.
LEMMA TallyTakesOne ==
    ASSUME NEW f \in [Codes -> Nat], NEW k \in Codes
    PROVE  Tally([f EXCEPT ![k] = @ + 1]) = Tally(f) + 1 /\ Tally(f) \in Int
<1> DEFINE C == Codes
<1>1. PICK g : g = [f EXCEPT ![k] = @ + 1]
  OBVIOUS
<1>2. IsFiniteSet(C)
  BY CodesAreFew
<1>3. (\A c \in C \ {k} : g[c] = f[c]) /\ g[k] = f[k] + 1
  BY <1>1
<1>4. k \in C /\ f \in [C -> Nat] /\ g \in [C -> Nat]
  BY <1>1
<1>5. DOMAIN f = C /\ DOMAIN g = C
  BY <1>4
<1> HIDE DEF C
<1>6. \A c \in C : f[c] \in Int /\ g[c] \in Int
  BY <1>4
<1>7. SumFunctionOnSet(g, C) = SumFunctionOnSet(f, C) + (g[k] - f[k])
  BY <1>2, <1>3, <1>4, <1>6, SumOfChanged
<1>8. SumFunctionOnSet(f, C) \in Int
  BY <1>2, <1>6, SumTakesAny
<1>9. SumFunctionOnSet(g, C) = SumFunctionOnSet(f, C) + 1
  BY <1>3, <1>4, <1>6, <1>7, <1>8
<1>10. QED
  BY <1>1, <1>5, <1>8, <1>9 DEF Tally, SumFunction

LEMMA CodeIsNoted ==
    ASSUME PathInv, NEW s \in Slots, NoteCode(s)
    PROVE  PathInv'
<1> DEFINE code == served[s].status
           counter == Incremented(figures.codes[code], served[s].found)
<1>1. PathTypes /\ RoutesCounted /\ CodesCounted /\ served[s] \in Requests /\ ended \in [Codes -> Nat]
  BY DEF PathInv, PathTypes
<1>2. /\ served[s].stage = "code"
      /\ figures' = [figures EXCEPT !.codes = [figures.codes EXCEPT ![code] = counter]]
      /\ ended' = [ended EXCEPT ![code] = @ + 1]
      /\ served' = [served EXCEPT ![s].stage = "route"]
      /\ answer' = NoAnswer /\ UNCHANGED <<reading>>
  BY DEF NoteCode, In
<1>3. /\ served'[s] = [served[s] EXCEPT !.stage = "route"]
      /\ Alone(s) /\ DOMAIN served' = Slots /\ served' = [t \in Slots |-> served'[t]]
  BY <1>1, <1>2 DEF PathTypes, Alone
<1>4. served[s].pattern \in Patterns /\ code \in Codes
  BY <1>1, <1>2 DEF PathTypes
<1>5. /\ served'[s] \in Requests /\ served'[s].stage = "route" /\ served'[s].status = code
      /\ served'[s].pattern = served[s].pattern
  BY <1>1, <1>3 DEF Requests, Uncounted, Unjudged, Unmeasured, Answering
<1>6. figures.codes \in [Codes -> [count : Nat, stored : Nat]]
  BY <1>1, FiguresAreNumbers
<1>7. /\ counter \in [count : Nat, stored : Nat] /\ counter.count <= ended[code] + 1
      /\ counter.stored > 0 /\ counter.count > 0
  <2>1. figures.codes[code] \in [count : Nat, stored : Nat] /\ served[s].found \in Nat /\ ended[code] \in Nat
    BY <1>1, <1>4, <1>6 DEF Requests
  <2>2. /\ figures.codes[code].count <= ended[code]
        /\ figures.codes[code].stored > 0 => figures.codes[code].count > 0
        /\ served[s].found > 0 => figures.codes[code].stored > 0
    BY <1>1, <1>2, <1>4 DEF CodesCounted
  <2> HIDE DEF code
  <2>3. QED
    BY <2>1, <2>2, CountersStayTrue
<1> HIDE DEF counter
<1>8. /\ figures'.active = figures.active /\ figures'.total = figures.total
      /\ figures'.errors = figures.errors /\ figures'.rejects = figures.rejects
      /\ figures'.latency = figures.latency /\ figures'.routes = figures.routes
      /\ figures'.codes = [figures.codes EXCEPT ![code] = counter] /\ figures' \in Gauges
  <2>1. [figures.codes EXCEPT ![code] = counter] \in [Codes -> [count : Nat, stored : Nat]]
    BY <1>6, <1>7
  <2> HIDE DEF code
  <2>2. QED
    BY <1>1, <1>2, <2>1 DEF PathTypes, Gauges
<1>9. ended' \in [Codes -> Nat]
  BY <1>1, <1>2, <1>4
<1>10. PathTypes'
  <2>1. figures'.total <= MaxServed /\ UNCHANGED reading
    BY <1>1, <1>2, <1>8 DEF PathTypes
  <2>2. served'[s].status \in Codes /\ served'[s].pattern \in Patterns
    BY <1>4, <1>5
  <2> HIDE DEF code
  <2>3. QED
    BY <1>1, <1>3, <1>5, <1>8, <1>9, <2>1, <2>2, RequestsGoOn
<1>11. Tally(ended') = Tally(ended) + 1 /\ Tally(ended) \in Int
  <2> HIDE DEF code
  <2>1. QED
    BY <1>1, <1>2, <1>4, TallyTakesOne
<1>12. RequestsCounted'
  <2>1. /\ Gain(s, Answering) = 0 /\ Gain(s, Unmeasured) = 0
        /\ Gain(s, Unjudged) = 0 /\ Gain(s, Uncounted) = -1
    BY <1>2, <1>5 DEF Gain, Uncounted, Unjudged, Unmeasured, Answering
  <2>2. Tally(figures'.latency) <= Tally(figures.latency) + 0 /\ Tally(figures'.latency) \in Int
    BY <1>1, <1>8, TalliesAreNumbers
  <2>3. /\ figures'.total = figures.total + 0 /\ figures'.active = figures.active + 0
        /\ figures'.errors + figures'.rejects = figures.errors + figures.rejects + 0
    BY <1>1, <1>8, FiguresAreNumbers
  <2> HIDE DEF code
  <2>4. QED
    BY <1>3, <1>11, <2>1, <2>2, <2>3, CountsGoOn
<1>13. CodesCounted'
  <2>1. \A c : /\ Cardinality(Coded(c)) \in Nat
               /\ Cardinality(Coded(c)') = Cardinality(Coded(c)) - (IF code = c THEN 1 ELSE 0)
    <3> TAKE c
    <3>1. \A t \in Slots \ {s} : served'[t] = served[t]
      BY <1>3 DEF Alone
    <3>2. /\ Cardinality(Coded(c)) \in Nat
          /\ Cardinality(Coded(c)') = Cardinality(Coded(c))
                + (IF served'[s].stage = "code" /\ served'[s].status = c THEN 1 ELSE 0)
                - (IF served[s].stage = "code" /\ served[s].status = c THEN 1 ELSE 0)
      BY <3>1, CodedMoves
    <3>3. QED
      BY <1>2, <1>5, <3>2
  <2>2. /\ Cardinality(Coded(500)) \in Nat /\ Cardinality(Coded(503)) \in Nat
        /\ Cardinality(Coded(404)) \in Nat
        /\ Cardinality(Coded(500)') = Cardinality(Coded(500)) - (IF code = 500 THEN 1 ELSE 0)
        /\ Cardinality(Coded(503)') = Cardinality(Coded(503)) - (IF code = 503 THEN 1 ELSE 0)
        /\ Cardinality(Coded(404)') = Cardinality(Coded(404)) - (IF code = 404 THEN 1 ELSE 0)
    BY <2>1
  <2>3. \A c \in Codes : ended'[c] = ended[c] + (IF code = c THEN 1 ELSE 0) /\ ended[c] \in Nat
    BY <1>1, <1>2, <1>4
  <2>4. /\ ended[500] \in Nat /\ ended'[500] = ended[500] + (IF code = 500 THEN 1 ELSE 0)
        /\ ended[503] \in Nat /\ ended'[503] = ended[503] + (IF code = 503 THEN 1 ELSE 0)
        /\ 404 \in Codes =>
              ended[404] \in Nat /\ ended'[404] = ended[404] + (IF code = 404 THEN 1 ELSE 0)
    BY <2>3, CodesAreFew
  <2>5. /\ figures.errors = ended[500] + ended[503] + Cardinality(Coded(500)) + Cardinality(Coded(503))
        /\ figures.rejects = (IF 404 \in Codes THEN ended[404] ELSE 0) + Cardinality(Coded(404))
    BY <1>1 DEF CodesCounted
  <2>6. figures'.errors = ended'[500] + ended'[503] + Cardinality(Coded(500)') + Cardinality(Coded(503)')
    <3> HIDE DEF code
    <3>1. QED
      BY <1>8, <2>2, <2>4, <2>5
  <2>7. figures'.rejects = (IF 404 \in Codes THEN ended'[404] ELSE 0) + Cardinality(Coded(404)')
    <3>1. 404 \notin Codes => code # 404
      BY <1>4
    <3> HIDE DEF code
    <3>2. QED
      BY <1>8, <2>2, <2>4, <2>5, <3>1
  <2>8. \A c \in Codes : /\ figures'.codes[c].count <= ended'[c]
                         /\ figures'.codes[c].stored > 0 => figures'.codes[c].count > 0
                         /\ ended'[c] > 0 => figures'.codes[c].stored > 0
    <3> TAKE c \in Codes
    <3>1. CASE c = code
      BY <1>4, <1>6, <1>7, <1>8, <2>3, <3>1
    <3>2. CASE c # code
      <4>1. figures'.codes[c] = figures.codes[c] /\ ended'[c] = ended[c]
        BY <1>6, <1>8, <2>3, <3>2
      <4>2. QED
        BY <1>1, <4>1 DEF CodesCounted
    <3>3. QED
      BY <3>1, <3>2
  <2>9. \A t \in Slots : served'[t].stage = "code" /\ served'[t].found > 0
                         => figures'.codes[served'[t].status].stored > 0
    <3> SUFFICES ASSUME NEW t \in Slots, served'[t].stage = "code", served'[t].found > 0
                 PROVE  figures'.codes[served'[t].status].stored > 0
      OBVIOUS
    <3>1. t # s /\ served'[t] = served[t]
      BY <1>3, <1>5 DEF Alone
    <3>2. figures.codes[served[t].status].stored > 0 /\ served[t].status \in Codes
      BY <1>1, <3>1 DEF CodesCounted, PathTypes
    <3>3. CASE served[t].status = code
      BY <1>4, <1>6, <1>7, <1>8, <3>1, <3>3
    <3>4. CASE served[t].status # code
      BY <1>6, <1>8, <3>1, <3>2, <3>4
    <3>5. QED
      BY <3>3, <3>4
  <2> HIDE DEF code
  <2>10. QED
    BY <2>6, <2>7, <2>8, <2>9 DEF CodesCounted
<1>14. RoutesCounted'
  BY <1>1, <1>8 DEF RoutesCounted
<1>15. ReadingBounded'
  BY <1>2, <1>8 DEF PathInv, ReadingBounded, ClosingIsRead
<1>16. AnswerIsWhole'
  BY <1>2 DEF AnswerIsWhole
<1>17. QED
  BY <1>10, <1>12, <1>13, <1>14, <1>15, <1>16 DEF PathInv

LEMMA RouteIsNoted ==
    ASSUME PathInv, NEW s \in Slots, NoteRoute(s)
    PROVE  PathInv'
<1> DEFINE p == served[s].pattern
           routed == Routed(figures.routes[p], served[s].status, served[s].ms)
<1>1. PathTypes /\ RoutesCounted /\ CodesCounted /\ served[s] \in Requests
  BY DEF PathInv, PathTypes
<1>2. /\ served[s].stage = "route"
      /\ figures' = IF p = "" THEN figures
                    ELSE [figures EXCEPT !.routes = [figures.routes EXCEPT ![p] = routed]]
      /\ served' = [served EXCEPT ![s] = Fresh]
      /\ answer' = NoAnswer /\ UNCHANGED <<reading, ended>>
  BY DEF NoteRoute, In
<1>3. /\ served'[s] = Fresh /\ Fresh.stage = "free" /\ Fresh \in Requests
      /\ Alone(s) /\ DOMAIN served' = Slots /\ served' = [t \in Slots |-> served'[t]]
  <2>1. Fresh.stage = "free" /\ Fresh \in Requests
    BY DEF Fresh, Requests
  <2>2. QED
    BY <1>1, <1>2, <2>1 DEF PathTypes, Alone
<1>4. p \in Patterns /\ served[s].ms \in Nat
  BY <1>1, <1>2 DEF PathTypes, Requests
<1>5. /\ figures.routes \in [Patterns -> RouteFigures] /\ figures.routes[p] \in RouteFigures
      /\ figures.routes[p].errors <= figures.routes[p].requests
  <2>1. figures.routes \in [Patterns -> RouteFigures]
    BY <1>1, FiguresAreNumbers
  <2>2. figures.routes[p].errors <= figures.routes[p].requests
    BY <1>1, <1>4 DEF RoutesCounted
  <2>3. QED
    BY <1>4, <2>1, <2>2
<1>6. routed \in RouteFigures /\ routed.errors <= routed.requests
  <2> DEFINE had == figures.routes[p]
  <2>1. had.requests \in Nat /\ had.errors \in Nat /\ had.latency \in [Latencies -> Nat]
        /\ had.errors <= had.requests
    BY <1>5 DEF RouteFigures
  <2> HIDE DEF had
  <2>2. Bumped(had.latency, served[s].ms) \in [Latencies -> Nat]
    BY <1>4, <2>1, BumpsAddOne
  <2>3. routed = Routed(had, served[s].status, served[s].ms)
    BY DEF had
  <2> HIDE DEF routed
  <2>4. /\ routed.requests = had.requests + 1
        /\ routed.errors = had.errors + (IF Serious(served[s].status) THEN 1 ELSE 0)
        /\ routed = [requests |-> routed.requests, errors |-> routed.errors,
                     latency |-> Bumped(had.latency, served[s].ms)]
    BY <2>3 DEF Routed
  <2>5. routed.requests \in Nat /\ routed.errors \in Nat /\ routed.errors <= routed.requests
    BY <2>1, <2>4
  <2>6. QED
    BY <2>2, <2>4, <2>5 DEF RouteFigures
<1> HIDE DEF routed
<1>7. /\ figures'.active = figures.active /\ figures'.total = figures.total
      /\ figures'.errors = figures.errors /\ figures'.rejects = figures.rejects
      /\ figures'.codes = figures.codes /\ figures'.latency = figures.latency
      /\ figures' \in Gauges /\ RoutesCounted'
  <2>1. CASE p = ""
    BY <1>1, <1>2, <2>1 DEF PathTypes, RoutesCounted
  <2>2. CASE p # ""
    <3>1. figures' = [figures EXCEPT !.routes = [figures.routes EXCEPT ![p] = routed]]
      BY <1>2, <2>2
    <3>2. [figures.routes EXCEPT ![p] = routed] \in [Patterns -> RouteFigures]
      BY <1>5, <1>6
    <3>3. figures \in Gauges
      BY <1>1 DEF PathTypes
    <3>4. /\ figures'.active = figures.active /\ figures'.total = figures.total
          /\ figures'.errors = figures.errors /\ figures'.rejects = figures.rejects
          /\ figures'.codes = figures.codes /\ figures'.latency = figures.latency
          /\ figures'.routes = [figures.routes EXCEPT ![p] = routed]
          /\ figures' \in Gauges
      <4> HIDE DEF p
      <4>1. QED
        BY <3>1, <3>2, <3>3 DEF Gauges
    <3>5. \A q \in Patterns : figures'.routes[q] = IF q = p THEN routed ELSE figures.routes[q]
      BY <1>5, <3>4
    <3>6. RoutesCounted'
      BY <1>1, <1>6, <3>5 DEF RoutesCounted
    <3>7. QED
      BY <3>4, <3>6
  <2>3. QED
    BY <2>1, <2>2
<1>8. PathTypes'
  <2>1. figures'.total <= MaxServed /\ ended' \in [Codes -> Nat] /\ UNCHANGED reading
    BY <1>1, <1>2, <1>7 DEF PathTypes
  <2>2. QED
    BY <1>1, <1>3, <1>7, <2>1, RequestsGoOn
<1>9. RequestsCounted'
  <2>1. /\ Gain(s, Answering) = 0 /\ Gain(s, Unmeasured) = 0
        /\ Gain(s, Unjudged) = 0 /\ Gain(s, Uncounted) = 0
    <3>1. served[s].stage = "route" /\ served'[s].stage = "free"
      BY <1>2, <1>3
    <3> HIDE DEF p
    <3>2. QED
      BY <3>1 DEF Gain, Uncounted, Unjudged, Unmeasured, Answering
  <2>2. Tally(ended') = Tally(ended) + 0 /\ Tally(figures'.latency) <= Tally(figures.latency) + 0
        /\ Tally(figures'.latency) \in Int
    <3>1. ended' = ended /\ figures'.latency = figures.latency
      BY <1>2, <1>7
    <3>2. Tally(ended) \in Int /\ Tally(figures.latency) \in Int
      BY <1>1, TalliesAreNumbers
    <3> HIDE DEF p
    <3>3. QED
      BY <3>1, <3>2
  <2>3. /\ figures'.total = figures.total + 0 /\ figures'.active = figures.active + 0
        /\ figures'.errors + figures'.rejects = figures.errors + figures.rejects + 0
    BY <1>1, <1>7, FiguresAreNumbers
  <2>4. QED
    BY <1>3, <2>1, <2>2, <2>3, CountsGoOn
<1>10. CodesCounted'
  BY <1>2, <1>3, <1>7, CodesStay
<1>11. ReadingBounded'
  BY <1>2, <1>7 DEF PathInv, ReadingBounded, ClosingIsRead
<1>12. AnswerIsWhole'
  BY <1>2 DEF AnswerIsWhole
<1>13. QED
  BY <1>7, <1>8, <1>9, <1>10, <1>11, <1>12 DEF PathInv

\* What the three readers load, in their order.
LEMMA LoadsInOrder ==
    ASSUME NEW r \in DOMAIN Loads
    PROVE  /\ Len(Loads[r]) = IF r = "prometheus" THEN 8 ELSE 7
           /\ \A n \in 1 .. Len(Loads[r]) :
                 /\ Loads[r][n] \in Fields
                 /\ r = "json" => /\ n = 4 => Loads[r][n] = "total"
                                  /\ n > 4 => Loads[r][n] \in {"active", "errors", "rejects"}
                 /\ r = "prometheus" => /\ n = 7 => Loads[r][n] = "inf"
                                        /\ n > 7 => Loads[r][n] = "routes"
<1>1. r \in {"json", "prometheus", "snapshot"}
  BY DEF Loads
<1>2. CASE r = "json"
  <2>1. Loads[r] = <<"codes", "latency", "routes", "total", "active", "errors", "rejects">>
    BY <1>2 DEF Loads
  <2>2. QED
    BY <1>2, <2>1 DEF Fields
<1>3. CASE r = "prometheus"
  <2>1. Loads[r] = <<"total", "active", "errors", "rejects", "codes", "latency", "inf",
                     "routes">>
    BY <1>3 DEF Loads
  <2>2. QED
    BY <1>3, <2>1 DEF Fields
<1>4. CASE r = "snapshot"
  <2>1. Loads[r] = <<"total", "errors", "active", "rejects", "codes", "latency", "routes">>
    BY <1>4 DEF Loads
  <2>2. QED
    BY <1>4, <2>1 DEF Fields
<1>5. QED
  BY <1>1, <1>2, <1>3, <1>4

\* No load finds more of a kind than there are requests.
LEMMA LoadsAreBounded ==
    ASSUME PathInv
    PROVE  /\ Loaded["codes"] <= figures.total /\ Loaded["latency"] <= figures.total
           /\ Loaded["total"] = figures.total /\ Loaded["inf"] = figures.total
           /\ Loaded["errors"] = figures.errors
           /\ Loaded["rejects"] = figures.rejects
           /\ figures.errors + figures.rejects <= figures.total
           /\ \A f \in Fields : Loaded[f] \in Int
<1>1. PathTypes /\ RequestsCounted /\ CodesCounted
  BY DEF PathInv
<1>2. /\ figures.total \in Nat /\ figures.errors \in Nat /\ figures.rejects \in Nat
      /\ Tally(ended) \in Int /\ Tally(figures.latency) \in Int /\ Tally(Counts) \in Int
  BY <1>1, FiguresAreNumbers, TalliesAreNumbers
<1>3. Tally(Counts) <= Tally(ended)
  BY <1>1, TalliesAreNumbers DEF CodesCounted
<1>4. /\ Cardinality(AtStages(Uncounted)) \in Nat /\ Cardinality(AtStages(Unmeasured)) \in Nat
      /\ Cardinality(AtStages(Unjudged)) \in Nat
  <2>1. \A stages : IsFiniteSet(AtStages(stages))
    <3> TAKE stages
    <3>1. AtStages(stages) \subseteq Slots
      BY DEF AtStages
    <3>2. QED
      BY <3>1, FS_Subset, RequestPathAssumption
  <2>2. QED
    BY <2>1, FS_CardinalityType
<1>5. /\ figures.total = Tally(ended) + Cardinality(AtStages(Uncounted))
      /\ Tally(figures.latency) + Cardinality(AtStages(Unmeasured)) <= figures.total
      /\ figures.errors + figures.rejects + Cardinality(AtStages(Unjudged)) <= figures.total
  BY <1>1 DEF RequestsCounted
<1>6. /\ Tally(Counts) <= figures.total /\ Tally(figures.latency) <= figures.total
      /\ figures.errors + figures.rejects <= figures.total
  BY <1>2, <1>3, <1>4, <1>5
<1>7. QED
  BY <1>2, <1>6 DEF Loaded, Fields

LEMMA ReaderLoads ==
    ASSUME PathInv, Load
    PROVE  PathInv'
<1> DEFINE r == reading.reader
           n == reading.next
           got == reading.got
           field == Loads[r][n]
<1>1. PathTypes /\ ReadingBounded
  BY DEF PathInv
<1>2. /\ reading # NotReading /\ ~(n > Len(Loads[r]))
      /\ reading' = [reading EXCEPT !.next = @ + 1, !.got = [got EXCEPT ![field] = Loaded[field]]]
      /\ answer' = NoAnswer /\ UNCHANGED <<served, figures, ended>>
  BY DEF Load, Done
<1>3. r \in DOMAIN Loads /\ n \in 1 .. 9 /\ got \in [Fields -> Int]
      /\ reading \in [reader : DOMAIN Loads \cup {"none"}, next : 1 .. 9, got : [Fields -> Int]]
  BY <1>1, <1>2 DEF PathTypes
<1>4. n \in 1 .. 8 /\ n \in 1 .. Len(Loads[r])
  <2>1. Len(Loads[r]) \in {7, 8}
    <3> HIDE DEF r
    <3>1. QED
      BY <1>3, LoadsInOrder
  <2>2. PICK k \in {7, 8} : k = Len(Loads[r])
    BY <2>1
  <2> HIDE DEF n, r
  <2>3. ~(n > k) /\ n \in 1 .. 9
    BY <1>2, <1>3, <2>2
  <2>4. n \in 1 .. 8 /\ n \in 1 .. k
    BY <2>3
  <2>5. QED
    BY <2>2, <2>4
<1>5. /\ field \in Fields
      /\ r = "json" => (n = 4 => field = "total") /\ (n > 4 => field \in {"active", "errors", "rejects"})
      /\ r = "prometheus" => (n = 7 => field = "inf") /\ (n > 7 => field = "routes")
  <2> HIDE DEF r, n
  <2>1. QED
    BY <1>3, <1>4, LoadsInOrder
<1>6. Loaded[field] \in Int
  BY <1>5, LoadsAreBounded
<1> HIDE DEF field
<1>7. /\ reading'.reader = r /\ reading'.next = n + 1
      /\ reading'.got = [got EXCEPT ![field] = Loaded[field]]
      /\ reading' \in [reader : DOMAIN Loads \cup {"none"}, next : 1 .. 9, got : [Fields -> Int]]
  <2>1. n + 1 \in 1 .. 9 /\ [got EXCEPT ![field] = Loaded[field]] \in [Fields -> Int]
    <3>1. PICK v \in Int : v = Loaded[field]
      BY <1>6
    <3> HIDE DEF n, got
    <3>2. n + 1 \in 1 .. 9
      BY <1>4
    <3>3. [got EXCEPT ![field] = v] \in [Fields -> Int]
      BY <1>3, <3>1
    <3>4. QED
      BY <3>1, <3>2, <3>3
  <2>2. QED
    BY <1>2, <1>3, <2>1
<1>8. PathTypes'
  <2>1. r # "none"
    BY <1>3 DEF Loads
  <2>2. QED
    BY <1>1, <1>2, <1>7, <2>1 DEF PathTypes
<1>9. \A f \in Fields : reading'.got[f] = IF f = field THEN Loaded[f] ELSE got[f]
  BY <1>3, <1>7
<1>10. {"latency", "codes", "errors", "rejects", "total", "inf"} \subseteq Fields
  BY DEF Fields
<1>11. /\ Loaded["codes"] <= figures.total /\ Loaded["latency"] <= figures.total
       /\ Loaded["total"] = figures.total /\ Loaded["inf"] = figures.total
       /\ Loaded["errors"] = figures.errors
       /\ Loaded["rejects"] = figures.rejects
       /\ figures.errors + figures.rejects <= figures.total
  BY LoadsAreBounded
<1>12. figures.total \in Nat /\ figures.errors \in Nat /\ figures.rejects \in Nat
  BY <1>1, FiguresAreNumbers
<1>13. /\ got["latency"] \in Int /\ got["codes"] \in Int /\ got["errors"] \in Int
       /\ got["rejects"] \in Int /\ got["total"] \in Int /\ got["inf"] \in Int
  BY <1>3, <1>10
<1>14. /\ got["latency"] <= figures.total /\ got["codes"] <= figures.total
       /\ got["total"] <= figures.total
       /\ got["errors"] <= figures.errors /\ got["rejects"] <= figures.rejects
  BY <1>1 DEF ReadingBounded
<1>15. /\ reading'.got["latency"] <= figures.total /\ reading'.got["codes"] <= figures.total
       /\ reading'.got["total"] <= figures.total
       /\ reading'.got["errors"] <= figures.errors /\ reading'.got["rejects"] <= figures.rejects
  BY <1>9, <1>10, <1>11, <1>12, <1>14
<1>16. ASSUME ClosingIsRead'
       PROVE  /\ reading'.got["latency"] <= reading'.got[Closing(reading'.reader)]
              /\ reading'.got["codes"] <= reading'.got[Closing(reading'.reader)]
              /\ reading'.reader = "prometheus" =>
                   /\ reading'.got["errors"] + reading'.got["rejects"] <= reading'.got["inf"]
                   /\ reading'.got["total"] <= reading'.got["inf"]
  <2>1. (r = "json" /\ n + 1 > 4) \/ (r = "prometheus" /\ n + 1 > 7)
    BY <1>7, <1>16 DEF ClosingIsRead
  <2>2. Closing(r) = IF r = "prometheus" THEN "inf" ELSE "total"
    BY DEF Closing
  <2>3. Closing(r) \in Fields /\ reading'.reader = r
    BY <1>7, <1>10, <2>2
  \* What closes the reading is loaded last: nothing before it is above it.
  <2>4. CASE field = Closing(r)
    <3>1. /\ reading'.got["latency"] = got["latency"] /\ reading'.got["codes"] = got["codes"]
          /\ reading'.got["errors"] = got["errors"] /\ reading'.got["rejects"] = got["rejects"]
          /\ reading'.got[Closing(r)] = figures.total
          /\ r = "prometheus" => reading'.got["total"] = got["total"]
      BY <1>9, <1>10, <1>11, <2>2, <2>3, <2>4
    <3>2. got["errors"] + got["rejects"] <= figures.total
      BY <1>11, <1>12, <1>13, <1>14
    <3>3. QED
      BY <1>14, <2>2, <2>3, <3>1, <3>2
  <2>5. CASE field # Closing(r)
    <3>1. /\ (r = "json" /\ n > 4) \/ (r = "prometheus" /\ n > 7)
          /\ field \in {"active", "errors", "rejects", "routes"}
          /\ r = "prometheus" => field = "routes"
      BY <1>4, <1>5, <2>1, <2>2, <2>5
    <3>2. ClosingIsRead
      BY <3>1 DEF ClosingIsRead
    <3>3. /\ reading'.got["latency"] = got["latency"] /\ reading'.got["codes"] = got["codes"]
          /\ reading'.got[Closing(r)] = got[Closing(r)]
          /\ r = "prometheus" => /\ reading'.got["errors"] = got["errors"]
                                 /\ reading'.got["rejects"] = got["rejects"]
                                 /\ reading'.got["total"] = got["total"]
                                 /\ reading'.got["inf"] = got["inf"]
      BY <1>9, <1>10, <2>2, <2>3, <2>5, <3>1
    <3>4. QED
      BY <1>1, <2>3, <3>2, <3>3 DEF ReadingBounded
  <2>6. QED
    BY <2>4, <2>5
<1>17. ReadingBounded'
  BY <1>2, <1>15, <1>16 DEF ReadingBounded
<1>18. RequestsCounted' /\ CodesCounted' /\ RoutesCounted' /\ AnswerIsWhole'
  BY <1>2 DEF PathInv, RequestsCounted, CodesCounted, RoutesCounted, AnswerIsWhole,
              AtStages, Coded, Tally
<1>19. QED
  BY <1>8, <1>17, <1>18 DEF PathInv

\* A reader that begins has loaded nothing, one that is done keeps nothing.
LEMMA ReaderBegins ==
    ASSUME PathInv, reading'.reader \in DOMAIN Loads \cup {"none"},
           reading' = [NotReading EXCEPT !.reader = reading'.reader],
           answer' = NoAnswer, UNCHANGED <<served, figures, ended>>
    PROVE  PathInv'
<1>1. /\ reading' \in [reader : DOMAIN Loads \cup {"none"}, next : 1 .. 9, got : [Fields -> Int]]
      /\ reading'.next = 1 /\ (\A f \in Fields : reading'.got[f] = 0)
      /\ reading'.reader = "none" => reading' = NotReading
  BY DEF NotReading
<1>2. PathTypes'
  BY <1>1 DEF PathInv, PathTypes
<1>3. {"latency", "codes", "errors", "rejects", "total"} \subseteq Fields
  BY DEF Fields
<1>4. figures.total \in Nat /\ figures.errors \in Nat /\ figures.rejects \in Nat
  BY FiguresAreNumbers DEF PathInv
<1>5. ReadingBounded'
  BY <1>1, <1>3, <1>4 DEF ReadingBounded, ClosingIsRead
<1>6. RequestsCounted' /\ CodesCounted' /\ RoutesCounted' /\ AnswerIsWhole'
  BY DEF PathInv, RequestsCounted, CodesCounted, RoutesCounted, AnswerIsWhole, AtStages, Coded, Tally
<1>7. QED
  BY <1>2, <1>5, <1>6 DEF PathInv

LEMMA PathStep == PathInv /\ [PathNext]_pathVars => PathInv'
<1> SUFFICES ASSUME PathInv, [PathNext]_pathVars
             PROVE  PathInv'
  OBVIOUS
<1>1. ASSUME NEW s \in Slots, Arrive(s)
      PROVE  PathInv'
  BY <1>1, RequestArrives
<1>2. ASSUME NEW s \in Slots, Handle(s)
      PROVE  PathInv'
  BY <1>2, HandlerAnswers
<1>3. ASSUME NEW s \in Slots, Finish(s)
      PROVE  PathInv'
  BY <1>3, RequestFinishes
<1>4. ASSUME NEW s \in Slots, NoteLatency(s)
      PROVE  PathInv'
  BY <1>4, LatencyIsNoted
<1>5. ASSUME NEW s \in Slots, NoteError(s)
      PROVE  PathInv'
  BY <1>5, ErrorIsNoted
<1>6. ASSUME NEW s \in Slots, NoteCode(s)
      PROVE  PathInv'
  BY <1>6, CodeIsNoted
<1>7. ASSUME NEW s \in Slots, NoteRoute(s)
      PROVE  PathInv'
  BY <1>7, RouteIsNoted
<1>8. ASSUME NEW reader \in DOMAIN Loads, Read(reader)
      PROVE  PathInv'
  <2>1. reading' = [NotReading EXCEPT !.reader = reader] /\ reading'.reader = reader
    BY <1>8 DEF Read, NotReading
  <2>2. answer' = NoAnswer /\ UNCHANGED <<served, figures, ended>>
    BY <1>8 DEF Read
  <2>3. QED
    BY <1>8, <2>1, <2>2, ReaderBegins
<1>9. CASE Load
  BY <1>9, ReaderLoads
<1>10. CASE AnswerRequest
  <2>1. reading' = NotReading /\ answer' = NoAnswer /\ UNCHANGED <<served, figures, ended>>
    BY <1>10 DEF AnswerRequest
  <2>2. reading'.reader = "none" /\ reading' = [NotReading EXCEPT !.reader = "none"]
    BY <2>1 DEF NotReading
  <2>3. QED
    BY <2>1, <2>2, ReaderBegins
<1>11. CASE UNCHANGED pathVars
  BY <1>11 DEF pathVars, PathInv, PathTypes, RequestsCounted, CodesCounted, RoutesCounted,
               ReadingBounded, ClosingIsRead, AnswerIsWhole, AtStages, Coded, Tally
<1>12. QED
  BY <1>1, <1>2, <1>3, <1>4, <1>5, <1>6, <1>7, <1>8, <1>9, <1>10, <1>11 DEF PathNext

\* What the invariant says to whoever looks: the figures are accounted for at
\* rest, and each reading is one of the requests it counts.
LEMMA PathHolds == PathInv => PathTypeOK /\ FiguresAddUp /\ AnswerIsWhole
<1> SUFFICES ASSUME PathInv
             PROVE  PathTypeOK /\ FiguresAddUp /\ AnswerIsWhole
  OBVIOUS
<1>1. PathTypes /\ RequestsCounted /\ CodesCounted /\ RoutesCounted /\ ReadingBounded
  BY DEF PathInv
<1>2. /\ figures.total \in Nat /\ figures.active \in Int /\ figures.errors \in Nat
      /\ figures.rejects \in Nat /\ figures.codes \in [Codes -> [count : Nat, stored : Nat]]
      /\ figures.routes \in [Patterns -> RouteFigures] /\ figures.total <= MaxServed
  BY <1>1, FiguresAreNumbers DEF PathTypes
<1>3. PathTypeOK
  <2>1. AtStages(Answering) \subseteq Slots
    BY DEF AtStages
  <2>2. figures.active \in 0 .. Cardinality(Slots)
    BY <1>1, <2>1, FS_Subset, FS_CardinalityType, RequestPathAssumption DEF RequestsCounted
  <2>3. figures.total \in 0 .. MaxServed
    BY <1>2, RequestPathAssumption
  <2>4. \A s \in InFlight : ~In(s, "handler") => served[s].status \in Codes
    BY <1>1 DEF PathTypes, InFlight, In
  <2>5. QED
    BY <1>2, <2>2, <2>3, <2>4 DEF PathTypeOK
<1>4. AllAccounted
  <2> SUFFICES ASSUME InFlight = {}
               PROVE  /\ figures.active = 0 /\ figures.total = Tally(ended)
                      /\ figures.errors = ended[500] + ended[503]
                      /\ figures.rejects = IF 404 \in Codes THEN ended[404] ELSE 0
                      /\ \A c \in Codes : ended[c] > 0 => Counts[c] \in 1 .. ended[c]
                      /\ RoutesCounted
    BY DEF AllAccounted, RoutesCounted
  <2>1. \A s \in Slots : served[s].stage = "free"
    BY DEF InFlight
  <2>2. AtStages(Answering) = {} /\ AtStages(Uncounted) = {}
    BY <2>1 DEF AtStages, Answering, Uncounted, Unjudged, Unmeasured
  <2>3. Coded(500) = {} /\ Coded(503) = {} /\ Coded(404) = {}
    BY <2>1 DEF Coded
  <2>4. Cardinality({}) = 0
    BY FS_EmptySet
  <2>5. Tally(ended) \in Int /\ ended \in [Codes -> Nat]
    BY <1>1, TalliesAreNumbers DEF PathTypes
  <2>6. figures.active = 0 /\ figures.total = Tally(ended)
    BY <1>1, <2>2, <2>4, <2>5 DEF RequestsCounted
  <2>7. ended[500] \in Nat /\ ended[503] \in Nat /\ (404 \in Codes => ended[404] \in Nat)
    BY <2>5, CodesAreFew
  <2>8. /\ figures.errors = ended[500] + ended[503]
        /\ figures.rejects = IF 404 \in Codes THEN ended[404] ELSE 0
    BY <1>1, <2>3, <2>4, <2>7 DEF CodesCounted
  <2>9. \A c \in Codes : ended[c] > 0 => Counts[c] \in 1 .. ended[c]
    <3> TAKE c \in Codes
    <3>1. Counts[c] = figures.codes[c].count /\ Counts[c] \in Nat /\ ended[c] \in Nat
      BY <1>2, <2>5 DEF Counts
    <3>2. QED
      BY <1>1, <3>1 DEF CodesCounted
  <2>10. QED
    BY <1>1, <2>6, <2>8, <2>9
<1>5. ReadingHolds
  <2> DEFINE r == reading.reader
  <2> SUFFICES ASSUME reading # NotReading, Done, r # "snapshot"
               PROVE  /\ reading.got["latency"] <= reading.got[Closing(r)]
                      /\ reading.got["codes"] <= reading.got[Closing(r)]
                      /\ r = "prometheus" =>
                           /\ reading.got["errors"] + reading.got["rejects"]
                                 <= reading.got[Closing(r)]
                           /\ reading.got["total"] <= reading.got[Closing(r)]
    BY DEF ReadingHolds
  <2>1. r \in DOMAIN Loads /\ reading.next > Len(Loads[r]) /\ reading.next \in 1 .. 9
    BY <1>1 DEF PathTypes, Done
  <2>2. Len(Loads[r]) = IF r = "prometheus" THEN 8 ELSE 7
    <3> HIDE DEF r
    <3>1. QED
      BY <2>1, LoadsInOrder
  <2>3. r \in {"json", "prometheus", "snapshot"}
    BY <2>1 DEF Loads
  <2>4. ClosingIsRead
    BY <2>1, <2>2, <2>3 DEF ClosingIsRead
  <2>5. QED
    BY <1>1, <2>4 DEF ReadingBounded, Closing
<1>6. QED
  BY <1>3, <1>4, <1>5 DEF PathInv, FiguresAddUp

-----------------------------------------------------------------------------
(* The ranking of a competition: module CompBoard. *)

\* An order on the climbers of S that ranks can be given by: who is ahead of whom, and
\* ties that hang together.
Ahead(c, d) == Better(rule, card[c], card[d])
RanksCanTell(S) ==
    \A c, d, e \in S :
        /\ ~Ahead(c, c) /\ ~(Ahead(c, d) /\ Ahead(d, c))
        /\ Ahead(c, e) => Ahead(c, d) \/ Ahead(d, e)

\* The first difference of two keys of one length decides.
Sooner(s, t, n) == \E i \in 1 .. n : s[i] < t[i] /\ \A j \in 1 .. i - 1 : s[j] = t[j]

LEMMA KeysAreOrdered ==
    ASSUME NEW n \in Nat, NEW s, NEW t, NEW u,
           \A i \in 1 .. n : s[i] \in Int /\ t[i] \in Int /\ u[i] \in Int
    PROVE  /\ ~Sooner(s, s, n) /\ ~(Sooner(s, t, n) /\ Sooner(t, s, n))
           /\ Sooner(s, u, n) => Sooner(s, t, n) \/ Sooner(t, u, n)
<1>1. ~Sooner(s, s, n)
  BY DEF Sooner
<1>2. ASSUME Sooner(s, t, n), Sooner(t, s, n)
      PROVE  FALSE
  <2>1. PICK i \in 1 .. n : s[i] < t[i] /\ \A j \in 1 .. i - 1 : s[j] = t[j]
    BY <1>2 DEF Sooner
  <2>2. PICK k \in 1 .. n : t[k] < s[k] /\ \A j \in 1 .. k - 1 : t[j] = s[j]
    BY <1>2 DEF Sooner
  <2>3. i < k \/ i = k \/ k < i
    OBVIOUS
  <2>4. CASE i < k
    BY <2>1, <2>2, <2>4
  <2>5. CASE i = k
    BY <2>1, <2>2, <2>5
  <2>6. CASE k < i
    BY <2>1, <2>2, <2>6
  <2>7. QED
    BY <2>3, <2>4, <2>5, <2>6
<1>3. ASSUME Sooner(s, u, n)
      PROVE  Sooner(s, t, n) \/ Sooner(t, u, n)
  <2>1. PICK i \in 1 .. n : s[i] < u[i] /\ \A j \in 1 .. i - 1 : s[j] = u[j]
    BY <1>3 DEF Sooner
  <2> DEFINE D == {m \in 1 .. n : s[m] # t[m] \/ t[m] # u[m]}
  <2>2. i \in D /\ D \subseteq Nat
    BY <2>1
  <2>3. PICK m \in D : \A k \in D : m <= k
    BY <2>2, NaturalsHaveALeast
  <2>4. m \in 1 .. n /\ m <= i /\ \A j \in 1 .. m - 1 : s[j] = t[j] /\ t[j] = u[j]
    BY <2>2, <2>3
  <2>5. s[m] < t[m] \/ t[m] < u[m]
    <3>1. CASE m = i
      BY <2>1, <2>4, <3>1
    <3>2. CASE m < i
      <4>1. s[m] = u[m]
        BY <2>1, <2>4, <3>2
      <4>2. s[m] # t[m] \/ t[m] # u[m]
        BY <2>3
      <4>3. s[m] \in Int /\ t[m] \in Int /\ u[m] \in Int
        BY <2>4
      <4>4. QED
        BY <4>1, <4>2, <4>3
    <3>3. QED
      BY <2>4, <3>1, <3>2
  <2>6. QED
    BY <2>4, <2>5 DEF Sooner
<1>4. QED
  BY <1>1, <1>2, <1>3

-----------------------------------------------------------------------------
(* A sorted row of climbers. *)

InOrder(s) == \A i, j \in DOMAIN s : i < j => ~Ahead(s[j], s[i])

\* In t the element c comes after k others, and the rest is s.
PlacedAt(t, s, c, k) ==
    /\ Len(t) = Len(s) + 1
    /\ \A i \in 1 .. Len(s) + 1 :
          t[i] = IF i <= k THEN s[i] ELSE IF i = k + 1 THEN c ELSE s[i - 1]

LEMMA InsertedAt ==
    ASSUME NEW S, NEW s \in Seq(S), NEW c \in S, NEW k \in 0 .. Len(s)
    PROVE  InsertAt(s, k + 1, c) \in Seq(S) /\ PlacedAt(InsertAt(s, k + 1, c), s, c, k)
<1> DEFINE a == SubSeq(s, 1, k)
           b == SubSeq(s, k + 1, Len(s))
<1>0. Len(s) \in Nat
  OBVIOUS
<1>1. InsertAt(s, k + 1, c) = (a \o <<c>>) \o b
  <2>1. (k + 1) - 1 = k
    OBVIOUS
  <2>2. InsertAt(s, k + 1, c) = SubSeq(s, 1, (k + 1) - 1) \o <<c>> \o SubSeq(s, k + 1, Len(s))
    BY Zenon DEF InsertAt
  <2>3. QED
    BY <2>1, <2>2, Zenon
<1>2. a \in Seq(S) /\ Len(a) = k /\ \A i \in 1 .. k : a[i] = s[i]
  OBVIOUS
<1>3. b \in Seq(S) /\ Len(b) = Len(s) - k /\ \A i \in 1 .. Len(s) - k : b[i] = s[k + i]
  OBVIOUS
<1> HIDE DEF a, b
<1> DEFINE d == a \o <<c>>
<1>4. d \in Seq(S) /\ Len(d) = k + 1 /\ (\A i \in 1 .. k : d[i] = s[i]) /\ d[k + 1] = c
  BY <1>2
<1> HIDE DEF d
<1> DEFINE t == d \o b
<1>5. t \in Seq(S) /\ Len(t) = Len(s) + 1
  BY <1>3, <1>4
<1>6. \A i \in 1 .. Len(s) + 1 : t[i] = IF i <= k + 1 THEN d[i] ELSE b[i - (k + 1)]
  BY <1>3, <1>4
<1> HIDE DEF t
<1>7. \A i \in 1 .. Len(s) + 1 : t[i] = IF i <= k THEN s[i] ELSE IF i = k + 1 THEN c ELSE s[i - 1]
  <2> TAKE i \in 1 .. Len(s) + 1
  <2>1. CASE i <= k
    BY <1>4, <1>6, <2>1
  <2>2. CASE i = k + 1
    BY <1>4, <1>6, <2>2
  <2>3. CASE i > k + 1
    <3>1. ~(i <= k + 1) /\ i - (k + 1) \in 1 .. Len(s) - k
      BY <1>0, <2>3
    <3>4. t[i] = b[i - (k + 1)]
      BY <1>6, <3>1
    <3>2. k + (i - (k + 1)) = i - 1
      OBVIOUS
    <3>3. QED
      BY <1>3, <2>3, <3>1, <3>2, <3>4
  <2>4. QED
    BY <1>0, <2>1, <2>2, <2>3
<1>8. InsertAt(s, k + 1, c) = t
  BY <1>1, Zenon DEF d, t
<1>9. QED
  BY <1>5, <1>7, <1>8 DEF PlacedAt

LEMMA PutInOrder ==
    ASSUME NEW S, NEW s \in Seq(S), NEW c \in S, RanksCanTell(S),
           IsInjective(s), c \notin ToSet(s), InOrder(s)
    PROVE  LET t == PutIn(rule, s, c) IN
           t \in Seq(S) /\ IsInjective(t) /\ ToSet(t) = ToSet(s) \cup {c} /\ InOrder(t)
<1> DEFINE W == {0} \cup NotWorse(rule, s, c)
           k == Max(W)
           t == InsertAt(s, k + 1, c)
           n == Len(s)
<1>1. n \in Nat /\ DOMAIN s = 1 .. n /\ \A i \in 1 .. n : s[i] \in S
  OBVIOUS
<1>2. NotWorse(rule, s, c) = {i \in 1 .. n : ~Ahead(c, s[i])}
  BY <1>1 DEF NotWorse, Ahead
<1>3. k \in W /\ \A x \in W : x <= k
  <2>1. W \subseteq 0 .. n
    BY <1>1, <1>2
  <2>2. IsFiniteSet(0 .. n)
    BY <1>1, FS_Interval
  <2>3. IsFiniteSet(W)
    BY <2>1, <2>2, FS_Subset
  <2>4. W \subseteq Int /\ W # {}
    BY <2>1
  <2> HIDE DEF W
  <2>5. QED
    BY <2>3, <2>4, FiniteMax
<1>4. /\ k \in 0 .. n /\ (k > 0 => ~Ahead(c, s[k]))
      /\ \A i \in 1 .. n : i > k => Ahead(c, s[i])
  <2>1. k \in {0} \cup {i \in 1 .. n : ~Ahead(c, s[i])}
    BY <1>2, <1>3
  <2>2. k \in 0 .. n /\ (k > 0 => ~Ahead(c, s[k]))
    BY <2>1, <1>1
  <2>3. ASSUME NEW i \in 1 .. n, i > k
        PROVE  Ahead(c, s[i])
    <3>1. i \notin W
      <4> HIDE DEF W
      <4>1. ~(i <= k)
        BY <1>1, <2>2, <2>3
      <4>2. QED
        BY <1>3, <4>1
    <3>2. QED
      BY <1>2, <3>1
  <2>4. QED
    BY <2>2, <2>3
<1> HIDE DEF k
<1>5. /\ t \in Seq(S) /\ Len(t) = n + 1 /\ DOMAIN t = 1 .. n + 1
      /\ \A i \in 1 .. n + 1 : t[i] = IF i <= k THEN s[i] ELSE IF i = k + 1 THEN c ELSE s[i - 1]
  <2>1. k \in 0 .. Len(s)
    BY <1>4
  <2>2. /\ t \in Seq(S) /\ Len(t) = n + 1
        /\ \A i \in 1 .. n + 1 : t[i] = IF i <= k THEN s[i] ELSE IF i = k + 1 THEN c ELSE s[i - 1]
    <3>1. t \in Seq(S) /\ PlacedAt(t, s, c, k)
      BY <2>1, InsertedAt
    <3> HIDE DEF t
    <3>2. QED
      BY <3>1, Zenon DEF PlacedAt
  <2> HIDE DEF t, n
  <2>3. DOMAIN t = 1 .. n + 1
    BY <2>2
  <2>4. QED
    BY <2>2, <2>3
<1> HIDE DEF t
<1>6. \A i \in 1 .. n + 1 : \/ i <= k /\ i \in 1 .. n /\ t[i] = s[i]
                            \/ i = k + 1 /\ t[i] = c
                            \/ i > k + 1 /\ i - 1 \in 1 .. n /\ t[i] = s[i - 1]
  BY <1>1, <1>4, <1>5
<1>7. \A i, j \in 1 .. n : s[i] = s[j] => i = j
  BY <1>1 DEF IsInjective
<1>8. \A i \in 1 .. n : s[i] # c
  BY <1>1 DEF ToSet
<1>9. IsInjective(t)
  <2> SUFFICES ASSUME NEW i \in 1 .. n + 1, NEW j \in 1 .. n + 1, t[i] = t[j]
               PROVE  i = j
    BY <1>5 DEF IsInjective
  <2>1. CASE i = k + 1
    BY <1>4, <1>6, <1>8, <2>1
  <2>2. CASE j = k + 1
    BY <1>4, <1>6, <1>8, <2>2
  <2>3. CASE i # k + 1 /\ j # k + 1
    <3>1. (i <= k /\ i \in 1 .. n /\ t[i] = s[i]) \/ (i > k + 1 /\ i - 1 \in 1 .. n /\ t[i] = s[i - 1])
      BY <1>6, <2>3
    <3>2. (j <= k /\ j \in 1 .. n /\ t[j] = s[j]) \/ (j > k + 1 /\ j - 1 \in 1 .. n /\ t[j] = s[j - 1])
      BY <1>6, <2>3
    <3>3. QED
      BY <1>4, <1>7, <3>1, <3>2
  <2>4. QED
    BY <2>1, <2>2, <2>3
<1>10. ToSet(t) = ToSet(s) \cup {c}
  <2>1. ASSUME NEW x \in ToSet(t)
        PROVE  x \in ToSet(s) \cup {c}
    BY <1>1, <1>5, <1>6, <2>1 DEF ToSet
  <2>2. c \in ToSet(t)
    <3>1. k + 1 \in 1 .. n + 1 /\ t[k + 1] = c
      BY <1>4, <1>5
    <3>2. QED
      BY <1>5, <3>1 DEF ToSet
  <2>3. ASSUME NEW x \in ToSet(s)
        PROVE  x \in ToSet(t)
    <3>1. PICK i \in 1 .. n : x = s[i]
      BY <1>1 DEF ToSet
    <3>2. CASE i <= k
      <4>1. i \in 1 .. n + 1 /\ t[i] = x
        BY <1>1, <1>5, <3>1, <3>2
      <4>2. QED
        BY <1>5, <4>1 DEF ToSet
    <3>3. CASE i > k
      <4>1. i + 1 \in 1 .. n + 1 /\ ~(i + 1 <= k) /\ i + 1 # k + 1 /\ (i + 1) - 1 = i
        BY <1>1, <1>4, <3>3
      <4>2. t[i + 1] = x
        BY <1>5, <3>1, <4>1
      <4>3. QED
        BY <1>5, <4>1, <4>2 DEF ToSet
    <3>4. QED
      BY <1>4, <3>2, <3>3
  <2>4. QED
    BY <2>1, <2>2, <2>3
<1>11. InOrder(t)
  <2> SUFFICES ASSUME NEW i \in 1 .. n + 1, NEW j \in 1 .. n + 1, i < j
               PROVE  ~Ahead(t[j], t[i])
    BY <1>5 DEF InOrder
  <2>1. \A x, y, z \in S : ~Ahead(x, x) /\ ~(Ahead(x, y) /\ Ahead(y, x))
                           /\ (Ahead(x, z) => Ahead(x, y) \/ Ahead(y, z))
    BY DEF RanksCanTell
  <2>2. \A x, y \in 1 .. n : x < y => ~Ahead(s[y], s[x])
    BY <1>1 DEF InOrder
  <2>3. CASE j <= k
    <3>1. i <= k /\ t[j] = s[j] /\ t[i] = s[i] /\ i \in 1 .. n /\ j \in 1 .. n
      BY <1>1, <1>4, <1>6, <2>3
    <3>2. QED
      BY <2>2, <3>1
  <2>4. CASE j = k + 1
    <3>1. t[j] = c /\ i <= k /\ i \in 1 .. n /\ t[i] = s[i] /\ k \in 1 .. n
      BY <1>4, <1>6, <2>4
    <3>2. ~Ahead(c, s[k]) /\ ~Ahead(s[k], s[i])
      <4>1. CASE i = k
        BY <1>1, <1>4, <2>1, <3>1, <4>1
      <4>2. CASE i < k
        BY <1>1, <1>4, <2>2, <3>1, <4>2
      <4>3. QED
        BY <1>4, <3>1, <4>1, <4>2
    <3>3. s[k] \in S /\ s[i] \in S
      BY <1>1, <3>1
    <3>4. ~Ahead(c, s[i])
      BY <2>1, <3>2, <3>3
    <3>5. QED
      BY <3>1, <3>4
  <2>5. CASE j > k + 1
    <3>1. j - 1 \in 1 .. n /\ t[j] = s[j - 1] /\ s[j - 1] \in S
      BY <1>1, <1>4, <1>6, <2>5
    <3>2. CASE i <= k
      <4>1. i \in 1 .. n /\ t[i] = s[i] /\ i < j - 1
        BY <1>4, <1>6, <2>5, <3>2
      <4>2. QED
        BY <2>2, <3>1, <4>1
    <3>3. CASE i = k + 1
      <4>1. t[i] = c /\ Ahead(c, s[j - 1])
        BY <1>4, <1>6, <2>5, <3>1, <3>3
      <4>2. QED
        BY <2>1, <3>1, <4>1
    <3>4. CASE i > k + 1
      <4>1. i - 1 \in 1 .. n /\ t[i] = s[i - 1] /\ i - 1 < j - 1
        BY <1>1, <1>4, <1>6, <3>4
      <4>2. QED
        BY <2>2, <3>1, <4>1
    <3>5. QED
      BY <1>4, <3>2, <3>3, <3>4
  <2>6. QED
    BY <1>4, <2>3, <2>4, <2>5
<1>12. PutIn(rule, s, c) = t
  BY DEF PutIn, t, k
<1>13. QED
  BY <1>5, <1>9, <1>10, <1>11, <1>12

\* The climbers among the first n who registered.
Entered(n) == {registered[i] : i \in 1 .. n} \ withdrawn

\* What holds of the row that the first n make.
RowOf(s, n) ==
    s \in Seq(Climbers) /\ IsInjective(s) /\ ToSet(s) = Entered(n) /\ InOrder(s)

\* The climbers put in one after the other, up to the n-th.
RowsUpTo(it, n) ==
    it = [m \in 0 .. n |->
            IF m = 0 THEN <<>>
            ELSE IF registered[m] \in withdrawn THEN it[m - 1]
            ELSE PutIn(rule, it[m - 1], registered[m])]

LEMMA RowsAreBuilt ==
    ASSUME NEW N \in Nat
    PROVE  \E it : RowsUpTo(it, N)
<1> DEFINE T == {n \in Nat : ~\E it : RowsUpTo(it, n)}
<1>1. SUFFICES ASSUME T # {}
               PROVE  FALSE
  BY <1>1
<1>2. PICK n \in T : \A m \in T : n <= m
  <2>1. T \subseteq Nat
    OBVIOUS
  <2> HIDE DEF T
  <2>2. QED
    BY <1>1, <2>1, NaturalsHaveALeast
<1>3. n # 0
  <2>1. RowsUpTo([m \in 0 .. 0 |-> <<>>], 0)
    <3> DEFINE it == [m \in 0 .. 0 |-> <<>>]
    <3>1. \A m \in 0 .. 0 : m = 0
      OBVIOUS
    <3>2. it = [m \in 0 .. 0 |->
            IF m = 0 THEN <<>>
            ELSE IF registered[m] \in withdrawn THEN it[m - 1]
            ELSE PutIn(rule, it[m - 1], registered[m])]
      BY <3>1
    <3>3. QED
      BY <3>2 DEF RowsUpTo
  <2>2. QED
    BY <2>1
<1>4. PICK it : RowsUpTo(it, n - 1)
  <2>1. n - 1 \in Nat /\ ~(n <= n - 1)
    BY <1>3
  <2>2. n - 1 \notin T
    BY <1>2, <2>1
  <2>3. QED
    BY <2>1, <2>2
<1> DEFINE Next(jt, m) == IF registered[m] \in withdrawn THEN jt[m - 1]
                          ELSE PutIn(rule, jt[m - 1], registered[m])
           jt == [m \in 0 .. n |-> IF m = n THEN Next(it, n) ELSE it[m]]
<1>5. it = [m \in 0 .. n - 1 |-> IF m = 0 THEN <<>> ELSE Next(it, m)]
  BY <1>4 DEF RowsUpTo
<1>6. jt = [m \in 0 .. n |-> IF m = 0 THEN <<>> ELSE Next(jt, m)]
  <2> SUFFICES ASSUME NEW m \in 0 .. n
               PROVE  jt[m] = IF m = 0 THEN <<>> ELSE Next(jt, m)
    BY Zenon
  <2>1. n \in Nat /\ n # 0
    BY <1>3
  <2>2. CASE m = n
    <3>1. m # 0 /\ n - 1 \in 0 .. n /\ n - 1 # n
      BY <2>1, <2>2
    <3>2. jt[m] = Next(it, n) /\ jt[n - 1] = it[n - 1]
      BY <2>2, <3>1
    <3>3. QED
      BY <2>2, <3>1, <3>2
  <2>3. CASE m # n /\ m # 0
    <3>1. m \in 0 .. n - 1 /\ m - 1 \in 0 .. n /\ m - 1 # n
      BY <2>1, <2>3
    <3>2. jt[m] = it[m] /\ jt[m - 1] = it[m - 1]
      BY <2>3, <3>1
    <3>3. it[m] = Next(it, m)
      BY <1>5, <2>3, <3>1
    <3>4. QED
      BY <2>3, <3>2, <3>3
  <2>4. CASE m = 0
    <3>1. m \in 0 .. n - 1 /\ m # n
      BY <2>1, <2>4
    <3>2. QED
      BY <1>5, <2>4, <3>1
  <2>5. QED
    BY <2>2, <2>3, <2>4
<1>7. RowsUpTo(jt, n)
  BY <1>6, Zenon DEF RowsUpTo
<1>8. QED
  BY <1>7

LEMMA SortedIsBuilt ==
    ASSUME registered \in Seq(Climbers)
    PROVE  \E it : RowsUpTo(it, Len(registered)) /\ Sorted(rule) = it[Len(registered)]
<1>1. Len(registered) \in Nat
  OBVIOUS
<1> DEFINE it == CHOOSE it : RowsUpTo(it, Len(registered))
<1>2. RowsUpTo(it, Len(registered))
  BY <1>1, RowsAreBuilt
<1>3. Sorted(rule) = it[Len(registered)]
  BY DEF Sorted, RowsUpTo
<1>4. QED
  BY <1>2, <1>3

LEMMA RowsAreInOrder ==
    ASSUME registered \in Seq(Climbers), IsInjective(registered), RanksCanTell(Active)
    PROVE  RowOf(Sorted(rule), Len(registered))
<1>1. PICK it : RowsUpTo(it, Len(registered)) /\ Sorted(rule) = it[Len(registered)]
  BY SortedIsBuilt
<1> DEFINE N == Len(registered)
           Good(n) == RowOf(it[n], n)
           T == {n \in 0 .. N : ~Good(n)}
<1>2. N \in Nat /\ DOMAIN registered = 1 .. N /\ \A i \in 1 .. N : registered[i] \in Climbers
  OBVIOUS
<1>3. \A n \in 0 .. N : it[n] = IF n = 0 THEN <<>>
                                ELSE IF registered[n] \in withdrawn THEN it[n - 1]
                                ELSE PutIn(rule, it[n - 1], registered[n])
  BY <1>1, Zenon DEF RowsUpTo
<1> HIDE DEF N
<1>4. SUFFICES ASSUME T # {}
               PROVE  FALSE
  <2>1. N \in 0 .. N
    BY <1>2
  <2>2. Good(N)
    BY <1>4, <2>1
  <2>3. QED
    BY <1>1, <2>2 DEF N
<1>5. PICK n \in T : \A m \in T : n <= m
  <2>1. T \subseteq Nat
    BY <1>2
  <2> HIDE DEF T
  <2>2. QED
    BY <1>4, <2>1, NaturalsHaveALeast
<1>6. n \in 0 .. N /\ ~RowOf(it[n], n)
  OBVIOUS
<1>7. n # 0
  <2>1. CASE n = 0
    <3>1. it[n] = <<>>
      BY <1>3, <1>6, <2>1
    <3>2. <<>> \in Seq(Climbers) /\ DOMAIN <<>> = {}
      OBVIOUS
    <3>3. Entered(n) = {}
      BY <2>1 DEF Entered
    <3>4. RowOf(<<>>, n)
      BY <3>2, <3>3 DEF RowOf, IsInjective, ToSet, InOrder
    <3>5. QED
      BY <1>6, <3>1, <3>4
  <2>2. QED
    BY <2>1
<1>8. RowOf(it[n - 1], n - 1)
  <2>1. n - 1 \in 0 .. N /\ ~(n <= n - 1)
    BY <1>2, <1>6, <1>7
  <2>2. n - 1 \notin T
    BY <1>5, <2>1
  <2>3. QED
    BY <2>1, <2>2
<1> DEFINE s == it[n - 1]
           c == registered[n]
<1>9. n \in 1 .. N /\ c \in Climbers /\ Entered(n) = Entered(n - 1) \cup ({c} \ withdrawn)
  <2>1. n \in 1 .. N
    BY <1>2, <1>6, <1>7
  <2>2. 1 .. n = (1 .. n - 1) \cup {n}
    BY <1>2, <2>1
  <2>3. QED
    BY <1>2, <2>1, <2>2 DEF Entered
<1>10. CASE c \in withdrawn
  <2>1. it[n] = s /\ Entered(n) = Entered(n - 1)
    BY <1>3, <1>6, <1>7, <1>9, <1>10
  <2>2. QED
    BY <1>6, <1>8, <2>1 DEF RowOf
<1>11. CASE c \notin withdrawn
  <2>1. it[n] = PutIn(rule, s, c)
    BY <1>3, <1>6, <1>7, <1>11
  <2>2. s \in Seq(Climbers) /\ IsInjective(s) /\ ToSet(s) = Entered(n - 1) /\ InOrder(s)
    BY <1>8 DEF RowOf
  <2>3. Entered(n - 1) \subseteq Active /\ c \in Active
    <3>1. \A i \in 1 .. n - 1 : i \in 1 .. N
      BY <1>2, <1>9
    <3>2. QED
      BY <1>2, <1>9, <1>11, <3>1 DEF Entered, Active, ToSet
  <2>4. c \notin Entered(n - 1)
    <3>1. \A i \in 1 .. n - 1 : i \in 1 .. N /\ i # n
      BY <1>2, <1>9
    <3>2. QED
      BY <1>2, <1>9, <3>1 DEF Entered, IsInjective
  <2> HIDE DEF s, c
  <2>5. s \in Seq(Active)
    <3>1. \A i \in 1 .. Len(s) : s[i] \in Active
      BY <2>2, <2>3 DEF ToSet
    <3>2. QED
      BY <2>2, <3>1
  <2>6. /\ PutIn(rule, s, c) \in Seq(Active) /\ IsInjective(PutIn(rule, s, c))
        /\ ToSet(PutIn(rule, s, c)) = ToSet(s) \cup {c} /\ InOrder(PutIn(rule, s, c))
    <3>1. c \in Active /\ c \notin ToSet(s)
      BY <2>2, <2>3, <2>4
    <3>2. QED
      BY <2>2, <2>5, <3>1, PutInOrder
  <2>7. PutIn(rule, s, c) \in Seq(Climbers)
    <3>1. Active \subseteq Climbers
      BY <1>2 DEF Active, ToSet
    <3>2. QED
      BY <2>6, <3>1
  <2>8. ToSet(PutIn(rule, s, c)) = Entered(n)
    BY <1>9, <1>11, <2>2, <2>6 DEF c
  <2>9. QED
    BY <1>6, <2>1, <2>6, <2>7, <2>8 DEF RowOf
<1>12. QED
  BY <1>10, <1>11

\* The first of those tied with the i-th comes after all who are ahead of it.
LEMMA RankIsCounted ==
    ASSUME NEW S, IsFiniteSet(S), NEW s \in Seq(S), IsInjective(s), ToSet(s) = S, InOrder(s),
           RanksCanTell(S), NEW i \in 1 .. Len(s)
    PROVE  RankAt(rule, s, i) = 1 + Cardinality({d \in S : Ahead(d, s[i])})
<1> DEFINE n == Len(s)
           K == {j \in 1 .. i : j = 1 \/ ~Tied(rule, s[j - 1], s[j])}
           k == Max(K)
<1>1. n \in Nat /\ DOMAIN s = 1 .. n /\ \A j \in 1 .. n : s[j] \in S
  OBVIOUS
<1>2. \A x, y, z \in S : ~Ahead(x, x) /\ ~(Ahead(x, y) /\ Ahead(y, x))
                         /\ (Ahead(x, z) => Ahead(x, y) \/ Ahead(y, z))
  BY DEF RanksCanTell
<1>3. \A x, y \in 1 .. n : x < y => ~Ahead(s[y], s[x])
  BY <1>1 DEF InOrder
<1>4. k \in K /\ \A x \in K : x <= k
  <2>1. K \subseteq 1 .. i /\ 1 \in K
    OBVIOUS
  <2>2. IsFiniteSet(1 .. i)
    <3>1. 1 \in Int /\ i \in Int
      BY <1>1
    <3>2. QED
      BY <3>1, FS_Interval
  <2>3. IsFiniteSet(K) /\ K \subseteq Int /\ K # {}
    BY <2>1, <2>2, FS_Subset
  <2> HIDE DEF K
  <2>4. QED
    BY <2>3, FiniteMax
<1> HIDE DEF k
<1>5. k \in 1 .. n /\ k <= i /\ (k > 1 => ~Tied(rule, s[k - 1], s[k]))
  BY <1>1, <1>4
<1>6. \A j \in 1 .. n : k < j /\ j <= i => Tied(rule, s[j - 1], s[j])
  <2> TAKE j \in 1 .. n
  <2> HAVE k < j /\ j <= i
  <2>1. j \notin K
    <3> HIDE DEF K
    <3>1. ~(j <= k)
      BY <1>1, <1>5
    <3>2. QED
      BY <1>4, <3>1
  <2>2. QED
    BY <1>1, <1>5, <2>1
<1> HIDE DEF n, K
<1>7. \A j \in 1 .. n : k <= j /\ j <= i => ~Ahead(s[k], s[j])
  <2> DEFINE T == {j \in 1 .. n : k <= j /\ j <= i /\ Ahead(s[k], s[j])}
  <2>1. SUFFICES ASSUME T # {}
                 PROVE  FALSE
    BY <2>1
  <2>2. PICK j \in T : \A m \in T : j <= m
    <3>1. T \subseteq Nat
      BY <1>1
    <3> HIDE DEF T
    <3>2. QED
      BY <2>1, <3>1, NaturalsHaveALeast
  <2>3. j \in 1 .. n /\ k <= j /\ j <= i /\ Ahead(s[k], s[j])
    OBVIOUS
  <2>4. k < j
    <3>1. k # j
      BY <1>1, <1>2, <2>3
    <3>2. QED
      BY <1>1, <1>5, <2>3, <3>1
  <2>5. j - 1 \in 1 .. n /\ k <= j - 1 /\ j - 1 <= i /\ ~(j <= j - 1)
    BY <1>1, <1>5, <2>3, <2>4
  <2>6. ~Ahead(s[k], s[j - 1])
    BY <2>2, <2>5
  <2>7. ~Ahead(s[j - 1], s[j])
    BY <1>6, <2>3, <2>4 DEF Tied, Ahead
  <2>8. s[k] \in S /\ s[j - 1] \in S /\ s[j] \in S
    BY <1>1, <1>5, <2>3, <2>5
  <2>9. QED
    BY <1>2, <2>3, <2>6, <2>7, <2>8
<1>8. \A j \in 1 .. n : Ahead(s[j], s[i]) <=> j < k
  <2> TAKE j \in 1 .. n
  <2>1. i \in 1 .. n /\ s[i] \in S /\ s[j] \in S /\ s[k] \in S
    BY <1>1, <1>5 DEF n
  <2>2. ~Ahead(s[k], s[i])
    BY <1>5, <1>7, <2>1
  <2>3. CASE j > i
    <3>1. ~Ahead(s[j], s[i]) /\ ~(j < k)
      BY <1>1, <1>3, <1>5, <2>1, <2>3
    <3>2. QED
      BY <3>1
  <2>4. CASE k <= j /\ j <= i
    <3>1. ~Ahead(s[j], s[k])
      <4>1. CASE j = k
        BY <1>2, <2>1, <4>1
      <4>2. CASE k < j
        BY <1>3, <1>5, <4>2
      <4>3. QED
        BY <1>1, <1>5, <2>4, <4>1, <4>2
    <3>2. ~Ahead(s[j], s[i])
      BY <1>2, <2>1, <2>2, <3>1
    <3>3. ~(j < k)
      BY <1>1, <1>5, <2>4
    <3>4. QED
      BY <3>2, <3>3
  <2>5. CASE j < k
    <3>1. k - 1 \in 1 .. n /\ k > 1 /\ k - 1 < k /\ j <= k - 1
      BY <1>1, <1>5, <2>5
    <3>2. s[k - 1] \in S
      BY <1>1, <3>1
    <3>3. Ahead(s[k - 1], s[k])
      <4>1. ~Ahead(s[k], s[k - 1])
        BY <1>3, <1>5, <3>1
      <4>2. QED
        BY <1>5, <3>1, <4>1 DEF Tied, Ahead
    <3>4. ~Ahead(s[k - 1], s[j])
      <4>1. CASE j = k - 1
        BY <1>2, <2>1, <4>1
      <4>2. CASE j < k - 1
        BY <1>3, <3>1, <4>2
      <4>3. QED
        BY <1>1, <1>5, <3>1, <4>1, <4>2
    <3>5. Ahead(s[j], s[k])
      BY <1>2, <2>1, <3>2, <3>3, <3>4
    <3>6. ~Ahead(s[i], s[k])
      <4>1. CASE i = k
        BY <1>2, <2>1, <4>1
      <4>2. CASE k < i
        BY <1>3, <1>5, <2>1, <4>2
      <4>3. QED
        BY <1>5, <4>1, <4>2
    <3>7. Ahead(s[j], s[i])
      BY <1>2, <2>1, <3>5, <3>6
    <3>8. QED
      BY <2>5, <3>7
  <2>6. QED
    BY <1>1, <1>5, <2>3, <2>4, <2>5
<1>9. Cardinality({d \in S : Ahead(d, s[i])}) = k - 1
  <2> DEFINE D == {d \in S : Ahead(d, s[i])}
             f == [j \in 1 .. k - 1 |-> s[j]]
  <2>1. \A j \in 1 .. k - 1 : j \in 1 .. n /\ j < k
    BY <1>1, <1>5
  <2>2. f \in [1 .. k - 1 -> D]
    BY <1>1, <1>8, <2>1
  <2>3. \A x, y \in 1 .. k - 1 : f[x] = f[y] => x = y
    BY <1>1, <2>1 DEF IsInjective
  <2>4. \A d \in D : \E j \in 1 .. k - 1 : f[j] = d
    <3> TAKE d \in D
    <3>1. PICK j \in 1 .. n : d = s[j]
      BY <1>1 DEF ToSet
    <3>2. j < k
      BY <1>8, <3>1
    <3>3. j \in 1 .. k - 1
      BY <1>1, <1>5, <3>2
    <3>4. QED
      BY <3>1, <3>3
  <2> HIDE DEF D, f
  <2>5. ExistsBijection(1 .. k - 1, D)
    BY <2>2, <2>3, <2>4 DEF ExistsBijection, Bijection, Injection, Surjection, IsInjective
  <2>6. IsFiniteSet(1 .. k - 1) /\ Cardinality(1 .. k - 1) = k - 1
    <3> DEFINE a == k - 1
    <3>1. a \in Nat /\ 1 \in Int
      BY <1>1, <1>5
    <3> HIDE DEF a
    <3>2. a \in Int
      BY <3>1
    <3>3. IsFiniteSet(1 .. a) /\ Cardinality(1 .. a) = IF 1 > a THEN 0 ELSE a - 1 + 1
      BY <3>1, <3>2, FS_Interval
    <3>4. Cardinality(1 .. a) = a
      BY <3>1, <3>3
    <3>5. QED
      BY <3>3, <3>4 DEF a
  <2>7. Cardinality(D) = k - 1
    BY <2>5, <2>6, FS_Bijection
  <2>8. QED
    BY <2>7 DEF D
<1>10. RankAt(rule, s, i) = k
  BY DEF RankAt, K, k
<1>11. QED
  BY <1>5, <1>9, <1>10

-----------------------------------------------------------------------------
(* What is compared: the keys of two rows of results. *)

ResultRows == [BoardProblems -> Results \cup {NoResult}]
AsClimbed(row) == \A p \in BoardProblems : row[p].top => row[p].zone

LEMMA ResultsAreRecords ==
    ASSUME NEW result \in Results \cup {NoResult}
    PROVE  /\ result.top \in BOOLEAN /\ result.zone \in BOOLEAN
           /\ result.attempts \in Int /\ result.zoneAttempts \in Int
           /\ result \in Results => result.attempts \in 0 .. Tier - 1
                                    /\ result.zoneAttempts \in 0 .. Tier - 1
<1>1. CASE result \in Results
  <2>1. result \in [attempts : 0 .. Tier - 1, zoneAttempts : 0 .. Tier - 1,
                    zone : BOOLEAN, top : BOOLEAN]
    BY <1>1, CompBoardAssumption
  <2>2. Tier \in Nat
    BY CompBoardAssumption
  <2>3. QED
    BY <2>1, <2>2
<1>2. CASE result = NoResult /\ result \notin Results
  BY <1>2 DEF NoResult
<1>3. QED
  BY <1>1, <1>2

LEMMA ResultRowsAreFinite ==
    ASSUME NEW row \in ResultRows
    PROVE  /\ IsFiniteSet(Rows(row)) /\ IsFiniteSet(Topped(row)) /\ IsFiniteSet(Zoned(row))
           /\ Cardinality(Rows(row)) \in Nat /\ Cardinality(Topped(row)) \in Nat
           /\ Cardinality(Zoned(row)) \in Nat /\ Cardinality(BoardProblems) \in Nat
           /\ Cardinality(Zoned(row)) <= Cardinality(Rows(row))
           /\ Cardinality(Rows(row)) <= Cardinality(BoardProblems)
           /\ \A p \in Rows(row) : p \in BoardProblems /\ row[p] \in Results
<1>1. IsFiniteSet(BoardProblems) /\ Rows(row) \subseteq BoardProblems
  BY CompBoardAssumption DEF Rows
<1>2. Topped(row) \subseteq Rows(row) /\ Zoned(row) \subseteq Rows(row)
  BY DEF Topped, Zoned
<1>3. IsFiniteSet(Rows(row)) /\ Cardinality(Rows(row)) <= Cardinality(BoardProblems)
  BY <1>1, FS_Subset
<1>4. IsFiniteSet(Topped(row))
  BY <1>2, <1>3, FS_Subset
<1>5. IsFiniteSet(Zoned(row)) /\ Cardinality(Zoned(row)) <= Cardinality(Rows(row))
  BY <1>2, <1>3, FS_Subset
<1>6. \A p \in Rows(row) : p \in BoardProblems /\ row[p] \in Results
  BY DEF Rows, ResultRows
<1>7. QED
  BY <1>1, <1>3, <1>4, <1>5, <1>6, FS_CardinalityType

LEMMA WorthIsANumber ==
    ASSUME NEW r, NEW p \in BoardProblems, NEW result \in Results
    PROVE  Worth(r, p, result.attempts) \in Int
<1> DEFINE a == result.attempts
<1>1. a \in Int
  BY ResultsAreRecords
<1>2. Divisor(a) > 0
  BY DecayAssumption
<1>3. Divisor(a) \in Int
  <2>1. RateUnit \in Int /\ DecayRate \in Int
    BY CompBoardAssumption
  <2> HIDE DEF a
  <2>2. QED
    BY <1>1, <2>1 DEF Divisor
<1> HIDE DEF a
<1>4. DecayPoints(a) \in Int
  <2>1. RateUnit \in Int /\ DecayBase \in Int
    BY CompBoardAssumption
  <2> DEFINE b == DecayBase * RateUnit
             q == Divisor(a)
  <2>2. b \in Int
    BY <2>1
  <2>3. q \in Int /\ q > 0
    BY <1>2, <1>3
  <2> HIDE DEF b, q
  <2>4. b \div q \in Int
    BY <2>2, <2>3
  <2>5. QED
    BY <2>4 DEF DecayPoints, b, q
<1>5. Points[p] \in Int /\ FlashBonus \in Int
  BY CompBoardAssumption
<1>6. Worth(r, p, a) \in Int
  <2> DEFINE x == IF r = "fixed" THEN Points[p] ELSE DecayPoints(a)
             y == IF a = 1 THEN FlashBonus ELSE 0
  <2>1. x \in Int /\ y \in Int
    BY <1>4, <1>5
  <2> HIDE DEF x, y
  <2>2. x + y \in Int
    BY <2>1
  <2>3. QED
    BY <2>2 DEF Worth, x, y
<1>7. QED
  BY <1>6 DEF a

LEMMA TotalsAreNumbers ==
    ASSUME NEW row \in ResultRows, NEW r
    PROVE  AttemptsToTop(row) \in Int /\ AttemptsToZone(row) \in Int /\ TotalPoints(r, row) \in Int
<1>1. /\ IsFiniteSet(Topped(row)) /\ IsFiniteSet(Zoned(row))
      /\ Topped(row) \subseteq BoardProblems /\ Zoned(row) \subseteq BoardProblems
      /\ \A p \in Topped(row) : row[p] \in Results
  BY ResultRowsAreFinite DEF Topped, Zoned
<1>2. \A p \in BoardProblems : row[p] \in Results \cup {NoResult}
  BY DEF ResultRows
<1>3. AttemptsToTop(row) \in Int
  <2> DEFINE f == [p \in BoardProblems |-> row[p].attempts]
  <2>1. \A p \in Topped(row) : f[p] \in Int
    BY <1>1, <1>2, ResultsAreRecords
  <2> HIDE DEF f
  <2>2. SumFunctionOnSet(f, Topped(row)) \in Int
    BY <1>1, <2>1, SumTakesAny
  <2>3. QED
    BY <2>2 DEF AttemptsToTop, f
<1>4. AttemptsToZone(row) \in Int
  <2> DEFINE f == [p \in BoardProblems |-> row[p].zoneAttempts]
  <2>1. \A p \in Zoned(row) : f[p] \in Int
    BY <1>1, <1>2, ResultsAreRecords
  <2> HIDE DEF f
  <2>2. SumFunctionOnSet(f, Zoned(row)) \in Int
    BY <1>1, <2>1, SumTakesAny
  <2>3. QED
    BY <2>2 DEF AttemptsToZone, f
<1>5. TotalPoints(r, row) \in Int
  <2> DEFINE f == [p \in BoardProblems |-> Worth(r, p, row[p].attempts)]
  <2>1. \A p \in Topped(row) : f[p] \in Int
    BY <1>1, WorthIsANumber
  <2> HIDE DEF f
  <2>2. SumFunctionOnSet(f, Topped(row)) \in Int
    BY <1>1, <2>1, SumTakesAny
  <2>3. QED
    BY <2>2 DEF TotalPoints, f
<1>6. QED
  BY <1>3, <1>4, <1>5

\* How good a result is: below 2 * Tier is a top or a zone.
LEMMA GoodnessIsBounded ==
    ASSUME NEW result \in Results
    PROVE  /\ Goodness(result) \in 0 .. 2 * Tier
           /\ Goodness(result) < 2 * Tier => result.top \/ result.zone
<1>1. Tier \in Nat
  BY CompBoardAssumption
<1>2. /\ result.attempts \in 0 .. Tier - 1 /\ result.zoneAttempts \in 0 .. Tier - 1
  BY ResultsAreRecords
<1>3. QED
  BY <1>1, <1>2 DEF Goodness

\* The places of the count-back: a number each, and past the zones nothing.
LEMMA CountBackIsNumbers ==
    ASSUME NEW row \in ResultRows, NEW i \in 1 .. Cardinality(Rows(row))
    PROVE  /\ Nth(row, i) \in Int
           /\ AsClimbed(row) /\ i > Cardinality(Zoned(row)) => Nth(row, i) = 2 * Tier
<1> DEFINE G == {Goodness(row[p]) : p \in Rows(row)}
           Upto(v) == {p \in Rows(row) : Goodness(row[p]) <= v}
           V == {v \in G : Cardinality(Upto(v)) >= i}
           t == 2 * Tier
<1>1. Tier \in Nat /\ t \in Nat
  BY CompBoardAssumption
<1>2. /\ IsFiniteSet(Rows(row)) /\ IsFiniteSet(Zoned(row))
      /\ Cardinality(Rows(row)) \in Nat /\ Cardinality(Zoned(row)) \in Nat
      /\ \A p \in Rows(row) : p \in BoardProblems /\ row[p] \in Results
  BY ResultRowsAreFinite
<1>3. \A p \in Rows(row) : /\ Goodness(row[p]) \in 0 .. t
                           /\ Goodness(row[p]) < t => row[p].top \/ row[p].zone
  BY <1>2, GoodnessIsBounded
<1> HIDE DEF t
<1>4. G \subseteq 0 .. t /\ G \subseteq Int /\ G \subseteq Nat
  BY <1>1, <1>3
<1>5. G # {}
  <2>1. Rows(row) # {}
    <3>1. CASE Rows(row) = {}
      <4>1. Cardinality(Rows(row)) = 0
        BY <3>1, FS_EmptySet
      <4>2. QED
        BY <4>1
    <3>2. QED
      BY <3>1
  <2>2. QED
    BY <2>1
<1>6. IsFiniteSet(G)
  <2>1. 0 \in Int /\ t \in Int
    BY <1>1
  <2>2. IsFiniteSet(0 .. t)
    BY <2>1, FS_Interval
  <2> HIDE DEF G
  <2>3. QED
    BY <1>4, <2>2, FS_Subset
<1>7. PICK m \in G : \A x \in G : x <= m
  <2> HIDE DEF G
  <2>1. QED
    BY <1>4, <1>5, <1>6, FiniteMax
<1>8. m \in V
  <2>1. Upto(m) = Rows(row)
    BY <1>7
  <2>2. Cardinality(Rows(row)) >= i
    BY <1>2
  <2>3. QED
    BY <2>1, <2>2
<1>9. PICK v \in V : \A x \in V : v <= x
  <2>1. V \subseteq Nat /\ V # {}
    BY <1>4, <1>8
  <2> HIDE DEF V
  <2>2. QED
    BY <2>1, NaturalsHaveALeast
<1>10. Nth(row, i) = Min(V)
  BY Zenon DEF Nth
<1>11. Min(V) \in V
  <2> HIDE DEF V
  <2>1. QED
    BY <1>9 DEF Min
<1>12. ASSUME AsClimbed(row), i > Cardinality(Zoned(row)), NEW x \in V
       PROVE  x = t
  <2>1. x \in 0 .. t /\ Cardinality(Upto(x)) >= i
    BY <1>4
  <2>2. CASE x < t
    <3>1. Upto(x) \subseteq Zoned(row)
      <4> SUFFICES ASSUME NEW p \in Rows(row), Goodness(row[p]) <= x
                   PROVE  p \in Zoned(row)
        OBVIOUS
      <4>1. Goodness(row[p]) < t
        BY <1>1, <1>3, <2>1, <2>2
      <4>2. row[p].zone
        BY <1>2, <1>3, <1>12, <4>1 DEF AsClimbed
      <4>3. QED
        BY <4>2 DEF Zoned
    <3>2. Cardinality(Upto(x)) <= Cardinality(Zoned(row)) /\ Cardinality(Upto(x)) \in Nat
      BY <1>2, <3>1, FS_Subset, FS_CardinalityType
    <3>3. QED
      BY <1>2, <1>12, <2>1, <3>2
  <2>3. QED
    BY <1>1, <2>1, <2>2
<1>13. V \subseteq Int
  BY <1>4
<1>14. QED
  <2> HIDE DEF V
  <2>1. Nth(row, i) \in V
    BY <1>10, <1>11
  <2>2. QED
    BY <1>12, <1>13, <2>1 DEF t

\* The key of a row, made as long as the longest there is: a place of the count-back
\* that a row does not have counts like a result with neither top nor zone.
KeyLength(r) == IF r = "top_zone" THEN Cardinality(BoardProblems) + 4 ELSE 2
Padded(r, row) ==
    [i \in 1 .. KeyLength(r) |-> IF i \in DOMAIN Key(r, row) THEN Key(r, row)[i] ELSE 2 * Tier]

Joined(k, a, b) ==
    /\ DOMAIN k = 1 .. Len(a) + Len(b)
    /\ \A i \in 1 .. Len(a) + Len(b) :
          /\ i <= Len(a) => k[i] = a[i]
          /\ i > Len(a) => k[i] = b[i - Len(a)] /\ i - Len(a) \in 1 .. Len(b)

LEMMA NumbersAreJoined ==
    ASSUME NEW S, NEW a \in Seq(S), NEW b \in Seq(S)
    PROVE  Joined(a \o b, a, b)
  BY DEF Joined

LEMMA TopZoneKeys ==
    ASSUME NEW row \in ResultRows
    PROVE  LET k == Key("top_zone", row) n == Cardinality(Rows(row)) IN
           /\ DOMAIN k = 1 .. n + 4 /\ n \in Nat
           /\ k[1] = 0 - Cardinality(Topped(row)) /\ k[2] = 0 - Cardinality(Zoned(row))
           /\ \A i \in 1 .. n + 4 :
                 /\ k[i] \in Int
                 /\ AsClimbed(row) /\ i > Cardinality(Zoned(row)) + 4 => k[i] = 2 * Tier
<1> DEFINE k == Key("top_zone", row)
           n == Cardinality(Rows(row))
           a == <<0 - Cardinality(Topped(row)), 0 - Cardinality(Zoned(row)),
                  AttemptsToTop(row), AttemptsToZone(row)>>
           b == CountBack(row)
<1>1. n \in Nat /\ Cardinality(Topped(row)) \in Nat /\ Cardinality(Zoned(row)) \in Nat
  BY ResultRowsAreFinite
<1>2. AttemptsToTop(row) \in Int /\ AttemptsToZone(row) \in Int
  BY TotalsAreNumbers
<1>3. b = [i \in 1 .. n |-> Nth(row, i)]
  BY DEF CountBack
<1>4. \A i \in 1 .. n : b[i] \in Int /\ (AsClimbed(row) /\ i > Cardinality(Zoned(row)) => b[i] = 2 * Tier)
  BY <1>3, CountBackIsNumbers
<1>5. a \in Seq(Int) /\ Len(a) = 4
  BY <1>1, <1>2
<1>6. b \in Seq(Int) /\ Len(b) = n
  BY <1>1, <1>3, <1>4
<1>7. /\ a[1] = 0 - Cardinality(Topped(row)) /\ a[2] = 0 - Cardinality(Zoned(row))
      /\ \A i \in 1 .. 4 + n : i <= 4 => a[i] \in Int
  BY <1>1, <1>2
<1>8. k = a \o b
  BY Zenon DEF Key
<1> HIDE DEF a, b, n, k
<1>9. /\ DOMAIN k = 1 .. 4 + n
      /\ \A i \in 1 .. 4 + n : /\ i <= 4 => k[i] = a[i]
                               /\ i > 4 => k[i] = b[i - 4] /\ i - 4 \in 1 .. n
  <2>1. a \in Seq(Int)
    BY <1>5
  <2>2. Len(a) = 4
    BY <1>5
  <2>3. b \in Seq(Int)
    BY <1>6
  <2>4. Len(b) = n
    BY <1>6
  <2>5. Joined(a \o b, a, b)
    BY <2>1, <2>3, NumbersAreJoined
  <2>6. QED
    BY <1>8, <2>2, <2>4, <2>5, Zenon DEF Joined
<1>10. 4 + n = n + 4 /\ 1 \in 1 .. 4 + n /\ 2 \in 1 .. 4 + n
  BY <1>1
<1>11. ASSUME NEW i \in 1 .. 4 + n
       PROVE  k[i] \in Int /\ (AsClimbed(row) /\ i > Cardinality(Zoned(row)) + 4 => k[i] = 2 * Tier)
  <2>1. CASE i <= 4
    <3>1. ~(i > Cardinality(Zoned(row)) + 4)
      BY <1>1, <2>1
    <3>2. a[i] \in Int
      BY <1>7, <2>1
    <3>3. QED
      BY <1>9, <2>1, <3>1, <3>2
  <2>2. CASE i > 4
    <3>1. i > Cardinality(Zoned(row)) + 4 => i - 4 > Cardinality(Zoned(row))
      BY <1>1
    <3>2. QED
      BY <1>4, <1>9, <2>2, <3>1
  <2>3. QED
    BY <1>1, <2>1, <2>2
<1>12. QED
  BY <1>1, <1>7, <1>9, <1>10, <1>11 DEF k, n

LEMMA PointsKeys ==
    ASSUME NEW row \in ResultRows, NEW r, r # "top_zone"
    PROVE  LET k == Key(r, row) IN
           /\ DOMAIN k = 1 .. 2
           /\ k[1] = 0 - TotalPoints(r, row) /\ k[2] = AttemptsToTop(row)
           /\ k[1] \in Int /\ k[2] \in Int
<1>1. AttemptsToTop(row) \in Int /\ TotalPoints(r, row) \in Int
  BY TotalsAreNumbers
<1>2. Key(r, row) = <<0 - TotalPoints(r, row), AttemptsToTop(row)>>
  BY DEF Key
<1>3. QED
  BY <1>1, <1>2

LEMMA PaddedKeys ==
    ASSUME NEW row \in ResultRows, NEW r
    PROVE  /\ KeyLength(r) \in Nat /\ DOMAIN Key(r, row) \subseteq 1 .. KeyLength(r)
           /\ \A i \in 1 .. KeyLength(r) : Padded(r, row)[i] \in Int
           /\ \A i \in DOMAIN Key(r, row) : Padded(r, row)[i] = Key(r, row)[i]
<1> DEFINE k == Key(r, row)
<1>1. /\ KeyLength(r) \in Nat /\ DOMAIN k \subseteq 1 .. KeyLength(r)
      /\ \A i \in DOMAIN k : k[i] \in Int
  <2>1. CASE r = "top_zone"
    <3> DEFINE n == Cardinality(Rows(row))
               N == Cardinality(BoardProblems)
    <3>1. n \in Nat /\ N \in Nat /\ n <= N
      BY ResultRowsAreFinite
    <3>2. DOMAIN k = 1 .. n + 4 /\ \A i \in 1 .. n + 4 : k[i] \in Int
      BY <2>1, TopZoneKeys
    <3>3. KeyLength(r) = N + 4
      BY <2>1 DEF KeyLength
    <3> HIDE DEF n, N, k
    <3>4. QED
      BY <3>1, <3>2, <3>3
  <2>2. CASE r # "top_zone"
    <3>1. DOMAIN k = 1 .. 2 /\ k[1] \in Int /\ k[2] \in Int
      BY <2>2, PointsKeys
    <3>2. KeyLength(r) = 2
      BY <2>2 DEF KeyLength
    <3> HIDE DEF k
    <3>3. QED
      BY <3>1, <3>2
  <2>3. QED
    BY <2>1, <2>2
<1>2. 2 * Tier \in Int
  BY CompBoardAssumption
<1>3. QED
  BY <1>1, <1>2 DEF Padded

\* Who is better is told by the padded keys, of results as they are climbed.
LEMMA BetterIsSooner ==
    ASSUME NEW row \in ResultRows, NEW other \in ResultRows, NEW r,
           r = "top_zone" => AsClimbed(row) /\ AsClimbed(other)
    PROVE  Better(r, row, other) <=> Sooner(Padded(r, row), Padded(r, other), KeyLength(r))
<1> DEFINE s == Key(r, row)
           t == Key(r, other)
           ps == Padded(r, row)
           pt == Padded(r, other)
           N == KeyLength(r)
<1>1. /\ N \in Nat /\ DOMAIN s \subseteq 1 .. N /\ DOMAIN t \subseteq 1 .. N
      /\ \A i \in DOMAIN s : ps[i] = s[i]
      /\ \A i \in DOMAIN t : pt[i] = t[i]
  BY PaddedKeys
<1>2. \E m, n \in Nat : DOMAIN s = 1 .. m /\ DOMAIN t = 1 .. n
  <2>1. CASE r = "top_zone"
    BY <2>1, TopZoneKeys
  <2>2. CASE r # "top_zone"
    <3>1. DOMAIN s = 1 .. 2 /\ DOMAIN t = 1 .. 2
      BY <2>2, PointsKeys
    <3>2. QED
      BY <3>1
  <2>3. QED
    BY <2>1, <2>2
<1>3. PICK m \in Nat, n \in Nat : DOMAIN s = 1 .. m /\ DOMAIN t = 1 .. n
  BY <1>2
<1>4. Better(r, row, other) <=> \E i \in DOMAIN s \cap DOMAIN t :
                                   s[i] < t[i] /\ \A j \in 1 .. i - 1 : s[j] = t[j]
  BY Zenon DEF Better
<1>5. ASSUME NEW i \in 1 .. N, ps[i] < pt[i], \A j \in 1 .. i - 1 : ps[j] = pt[j]
      PROVE  i \in DOMAIN s \cap DOMAIN t
  <2>1. CASE r # "top_zone"
    <3>1. DOMAIN s = 1 .. 2 /\ DOMAIN t = 1 .. 2 /\ N = 2
      BY <2>1, PointsKeys DEF KeyLength
    <3> HIDE DEF N, s, t
    <3>2. QED
      BY <3>1
  <2>2. CASE r = "top_zone"
    <3> DEFINE a == Cardinality(Rows(row))
               b == Cardinality(Rows(other))
               y == Cardinality(Zoned(row))
               z == Cardinality(Zoned(other))
    <3>1. a \in Nat /\ b \in Nat /\ y \in Nat /\ z \in Nat /\ y <= a /\ z <= b
      BY ResultRowsAreFinite
    <3>2. /\ DOMAIN s = 1 .. a + 4 /\ s[2] = 0 - y
          /\ \A h \in 1 .. a + 4 : h > y + 4 => s[h] = 2 * Tier
      BY <2>2, TopZoneKeys
    <3>3. /\ DOMAIN t = 1 .. b + 4 /\ t[2] = 0 - z
          /\ \A h \in 1 .. b + 4 : h > z + 4 => t[h] = 2 * Tier
      BY <2>2, TopZoneKeys
    <3>4. /\ ps = [h \in 1 .. N |-> IF h \in DOMAIN s THEN s[h] ELSE 2 * Tier]
          /\ pt = [h \in 1 .. N |-> IF h \in DOMAIN t THEN t[h] ELSE 2 * Tier]
      BY Zenon DEF Padded
    <3> HIDE DEF N, s, t, ps, pt, a, b, y, z
    <3>5. 2 \in 1 .. a + 4 /\ 2 \in 1 .. b + 4
      BY <3>1
    <3>6. CASE i <= 4
      BY <3>1, <3>2, <3>3, <3>6
    <3>7. CASE i > 4
      <4>1. 2 \in 1 .. i - 1
        BY <1>1, <3>7
      <4>2. ps[2] = pt[2]
        BY <1>5, <4>1
      <4>3. ps[2] = s[2] /\ pt[2] = t[2]
        BY <1>1, <3>2, <3>3, <3>5
      <4>4. y = z
        <5>1. 0 - y = 0 - z
          BY <3>2, <3>3, <4>2, <4>3
        <5>2. QED
          BY <3>1, <5>1
      <4>5. CASE i > y + 4
        <5>1. ps[i] = 2 * Tier
          BY <3>2, <3>4, <4>5
        <5>2. pt[i] = 2 * Tier
          BY <3>3, <3>4, <4>4, <4>5
        <5>3. 2 * Tier \in Int
          BY CompBoardAssumption
        <5>4. QED
          BY <1>5, <5>1, <5>2, <5>3
      <4>6. CASE i <= y + 4
        BY <1>1, <3>1, <3>2, <3>3, <4>4, <4>6
      <4>7. QED
        BY <1>1, <3>1, <4>5, <4>6
    <3>8. QED
      BY <1>1, <3>6, <3>7
  <2>3. QED
    BY <2>1, <2>2
<1>6. ASSUME NEW i \in DOMAIN s \cap DOMAIN t
      PROVE  /\ i \in 1 .. N /\ ps[i] = s[i] /\ pt[i] = t[i]
             /\ \A j \in 1 .. i - 1 : ps[j] = s[j] /\ pt[j] = t[j]
  <2> HIDE DEF N, s, t, ps, pt
  <2>1. \A j \in 1 .. i - 1 : j \in DOMAIN s /\ j \in DOMAIN t
    BY <1>3, <1>6
  <2>2. QED
    BY <1>1, <1>6, <2>1
<1> HIDE DEF N, s, t, ps, pt
<1>7. ASSUME Better(r, row, other)
      PROVE  Sooner(ps, pt, N)
  <2>1. PICK i \in DOMAIN s \cap DOMAIN t : s[i] < t[i] /\ \A j \in 1 .. i - 1 : s[j] = t[j]
    BY <1>4, <1>7
  <2>2. QED
    BY <1>6, <2>1 DEF Sooner
<1>8. ASSUME Sooner(ps, pt, N)
      PROVE  Better(r, row, other)
  <2>1. PICK i \in 1 .. N : ps[i] < pt[i] /\ \A j \in 1 .. i - 1 : ps[j] = pt[j]
    BY <1>8 DEF Sooner
  <2>2. i \in DOMAIN s \cap DOMAIN t
    BY <1>5, <2>1
  <2>3. s[i] < t[i] /\ \A j \in 1 .. i - 1 : s[j] = t[j]
    BY <1>6, <2>1, <2>2
  <2>4. QED
    BY <1>4, <2>2, <2>3
<1>9. QED
  BY <1>7, <1>8 DEF ps, pt, N

LEMMA ActiveCanTell ==
    ASSUME BoardTypeOK, rule = "top_zone" => Climbed
    PROVE  RanksCanTell(Active)
<1> SUFFICES ASSUME NEW c \in Active, NEW d \in Active, NEW e \in Active
             PROVE  /\ ~Ahead(c, c) /\ ~(Ahead(c, d) /\ Ahead(d, c))
                    /\ Ahead(c, e) => Ahead(c, d) \/ Ahead(d, e)
  BY DEF RanksCanTell
<1> DEFINE N == KeyLength(rule)
           P(x) == Padded(rule, card[x])
<1>1. \A x \in Active : card[x] \in ResultRows /\ (rule = "top_zone" => AsClimbed(card[x]))
  BY DEF BoardTypeOK, Active, ToSet, Climbed, AsClimbed, ResultRows
<1>2. \A x, y \in Active : Ahead(x, y) <=> Sooner(P(x), P(y), N)
  BY <1>1, BetterIsSooner DEF Ahead
<1>3. N \in Nat /\ \A x \in Active : \A i \in 1 .. N : P(x)[i] \in Int
  BY <1>1, PaddedKeys
<1> DEFINE s == P(c)
           t == P(d)
           u == P(e)
<1>4. \A i \in 1 .. N : s[i] \in Int /\ t[i] \in Int /\ u[i] \in Int
  BY <1>3
<1>5. /\ Ahead(c, c) <=> Sooner(s, s, N)
      /\ Ahead(c, d) <=> Sooner(s, t, N)
      /\ Ahead(d, c) <=> Sooner(t, s, N)
      /\ Ahead(c, e) <=> Sooner(s, u, N)
      /\ Ahead(d, e) <=> Sooner(t, u, N)
  BY <1>2
<1> HIDE DEF s, t, u, N
<1>6. /\ ~Sooner(s, s, N) /\ ~(Sooner(s, t, N) /\ Sooner(t, s, N))
      /\ Sooner(s, u, N) => Sooner(s, t, N) \/ Sooner(t, u, N)
  BY <1>3, <1>4, KeysAreOrdered
<1>7. QED
  BY <1>5, <1>6

\* The rank of a climber is counted by those who are better.
LEMMA RanksCount ==
    ASSUME BoardTypeOK
    PROVE  RankCountsBetter
<1> SUFFICES ASSUME rule = "top_zone" => Climbed, NEW c \in Active
             PROVE  Board[c] = 1 + Cardinality({d \in Active : Better(rule, card[d], card[c])})
  BY DEF RankCountsBetter
<1> DEFINE s == Sorted(rule)
           k == CHOOSE i \in DOMAIN s : s[i] = c
<1>1. registered \in Seq(Climbers) /\ IsInjective(registered)
  BY DEF BoardTypeOK
<1>2. RanksCanTell(Active)
  BY ActiveCanTell
<1>3. RowOf(s, Len(registered))
  BY <1>1, <1>2, RowsAreInOrder
<1>4. Entered(Len(registered)) = Active
  BY <1>1 DEF Entered, Active, ToSet
<1>5. s \in Seq(Climbers) /\ IsInjective(s) /\ ToSet(s) = Active /\ InOrder(s)
  BY <1>3, <1>4 DEF RowOf
<1>6. IsFiniteSet(Active)
  <2>1. Active \subseteq Climbers /\ IsFiniteSet(Climbers)
    BY <1>1, CompBoardAssumption DEF Active, ToSet
  <2>2. QED
    BY <2>1, FS_Subset
<1>7. Board[c] = RankAt(rule, s, k)
  <2>1. Board = [x \in ToSet(s) |-> RankAt(rule, s, CHOOSE i \in DOMAIN s : s[i] = x)]
    BY Zenon DEF Board, Ranks
  <2> HIDE DEF s
  <2>2. QED
    BY <1>5, <2>1
<1> HIDE DEF s
<1>8. s \in Seq(Active)
  <2>1. \A i \in 1 .. Len(s) : s[i] \in Active
    BY <1>5 DEF ToSet
  <2>2. QED
    BY <1>5, <2>1
<1>9. k \in DOMAIN s /\ s[k] = c
  <2>1. \E i \in DOMAIN s : s[i] = c
    BY <1>5 DEF ToSet
  <2>2. QED
    BY <2>1
<1>10. k \in 1 .. Len(s)
  BY <1>5, <1>9
<1> HIDE DEF k
<1>11. RankAt(rule, s, k) = 1 + Cardinality({d \in Active : Ahead(d, s[k])})
  BY <1>2, <1>5, <1>6, <1>8, <1>10, RankIsCounted
<1>12. QED
  BY <1>7, <1>9, <1>11 DEF Ahead

-----------------------------------------------------------------------------
(* A top more. *)

\* A problem that is not listed counts for nothing.
LEMMA UnlistedAreNotCounted ==
    ASSUME NEW row \in ResultRows, NEW p \in BoardProblems, eventOf[p] = NoEvent,
           NEW result \in Results, NEW r
    PROVE  Key(r, [row EXCEPT ![p] = result]) = Key(r, row)
<1> DEFINE new == [row EXCEPT ![p] = result]
<1>1. row = [q \in BoardProblems |-> row[q]]
  BY DEF ResultRows
<1>2. \A q \in BoardProblems \ {p} : new[q] = row[q]
  BY <1>1
<1> HIDE DEF new
<1>3. Rows(new) = Rows(row) /\ \A q \in Rows(row) : new[q] = row[q]
  BY <1>2 DEF Rows
<1>4. Topped(new) = Topped(row) /\ Zoned(new) = Zoned(row)
  BY <1>3 DEF Topped, Zoned
<1>5. IsFiniteSet(Topped(row)) /\ IsFiniteSet(Zoned(row))
  BY ResultRowsAreFinite
<1>6. \A q \in Topped(row) \cup Zoned(row) : q \in BoardProblems /\ new[q] = row[q]
  BY <1>3 DEF Topped, Zoned, Rows
<1>7. AttemptsToTop(new) = AttemptsToTop(row)
  <2> DEFINE f == [q \in BoardProblems |-> new[q].attempts]
             g == [q \in BoardProblems |-> row[q].attempts]
  <2>1. \A q \in Topped(row) : f[q] = g[q]
    BY <1>6
  <2> HIDE DEF f, g
  <2>2. SumFunctionOnSet(f, Topped(row)) = SumFunctionOnSet(g, Topped(row))
    BY <1>5, <2>1, SumsAreAlike
  <2>3. QED
    BY <1>4, <2>2, Zenon DEF AttemptsToTop, f, g
<1>8. AttemptsToZone(new) = AttemptsToZone(row)
  <2> DEFINE f == [q \in BoardProblems |-> new[q].zoneAttempts]
             g == [q \in BoardProblems |-> row[q].zoneAttempts]
  <2>1. \A q \in Zoned(row) : f[q] = g[q]
    BY <1>6
  <2> HIDE DEF f, g
  <2>2. SumFunctionOnSet(f, Zoned(row)) = SumFunctionOnSet(g, Zoned(row))
    BY <1>5, <2>1, SumsAreAlike
  <2>3. QED
    BY <1>4, <2>2, Zenon DEF AttemptsToZone, f, g
<1>9. TotalPoints(r, new) = TotalPoints(r, row)
  <2> DEFINE f == [q \in BoardProblems |-> Worth(r, q, new[q].attempts)]
             g == [q \in BoardProblems |-> Worth(r, q, row[q].attempts)]
  <2>1. \A q \in Topped(row) : f[q] = g[q]
    BY <1>6
  <2> HIDE DEF f, g
  <2>2. SumFunctionOnSet(f, Topped(row)) = SumFunctionOnSet(g, Topped(row))
    BY <1>5, <2>1, SumsAreAlike
  <2>3. QED
    BY <1>4, <2>2, Zenon DEF TotalPoints, f, g
<1>10. CountBack(new) = CountBack(row)
  <2>1. \A i : Nth(new, i) = Nth(row, i)
    <3> TAKE i
    <3>1. {Goodness(new[q]) : q \in Rows(new)} = {Goodness(row[q]) : q \in Rows(row)}
      BY <1>3
    <3>2. \A v : {q \in Rows(new) : Goodness(new[q]) <= v} = {q \in Rows(row) : Goodness(row[q]) <= v}
      BY <1>3
    <3>3. QED
      BY <3>1, <3>2 DEF Nth
  <2>2. QED
    BY <1>3, <2>1 DEF CountBack
<1>11. Key(r, new) = Key(r, row)
  BY <1>4, <1>7, <1>8, <1>9, <1>10, Zenon DEF Key
<1>12. QED
  BY <1>11 DEF new

\* A top more on a listed problem comes first in the key.
LEMMA TopsComeFirst ==
    ASSUME NEW row \in ResultRows, NEW p \in BoardProblems, eventOf[p] # NoEvent,
           NEW result \in Results, result.top, ~row[p].top, NEW r,
           r = "top_zone" \/ Worth(r, p, result.attempts) > 0
    PROVE  Key(r, [row EXCEPT ![p] = result])[1] < Key(r, row)[1]
<1> DEFINE new == [row EXCEPT ![p] = result]
<1>1. row = [q \in BoardProblems |-> row[q]] /\ new \in ResultRows
  BY DEF ResultRows
<1>2. new[p] = result /\ \A q \in BoardProblems \ {p} : new[q] = row[q]
  BY <1>1
<1> HIDE DEF new
<1>3. result # NoResult
  BY DEF NoResult
<1>4. Topped(new) = Topped(row) \cup {p} /\ p \notin Topped(row)
  BY <1>2, <1>3 DEF Topped, Rows
<1>5. /\ IsFiniteSet(Topped(row)) /\ Cardinality(Topped(row)) \in Nat
      /\ Topped(row) \subseteq BoardProblems /\ \A q \in Topped(row) : row[q] \in Results
  BY ResultRowsAreFinite DEF Topped
<1>6. CASE r = "top_zone"
  <2>1. Cardinality(Topped(new)) = Cardinality(Topped(row)) + 1
    BY <1>4, <1>5, FS_AddElement
  <2>2. /\ Key(r, new)[1] = 0 - Cardinality(Topped(new))
        /\ Key(r, row)[1] = 0 - Cardinality(Topped(row))
    BY <1>1, <1>6, TopZoneKeys
  <2>3. QED
    BY <1>5, <2>1, <2>2 DEF new
<1>7. CASE r # "top_zone"
  <2> DEFINE f == [q \in BoardProblems |-> Worth(r, q, new[q].attempts)]
             g == [q \in BoardProblems |-> Worth(r, q, row[q].attempts)]
             w == Worth(r, p, result.attempts)
             R == Topped(row)
  <2>1. \A q \in R \cup {p} : f[q] \in Int
    <3>1. \A q \in R \cup {p} : q \in BoardProblems /\ new[q] \in Results
      BY <1>2, <1>4, <1>5
    <3>2. QED
      BY <3>1, WorthIsANumber
  <2>2. \A q \in R : f[q] = g[q]
    BY <1>2, <1>4, <1>5
  <2>3. f[p] = w
    BY <1>2
  <2>4. w \in Int
    BY WorthIsANumber
  <2>5. w > 0
    BY <1>7
  <2>6. TotalPoints(r, new) = SumFunctionOnSet(f, R \cup {p}) /\ TotalPoints(r, row) = SumFunctionOnSet(g, R)
    BY <1>4, Zenon DEF TotalPoints
  <2> HIDE DEF f, g, R
  <2>7. SumFunctionOnSet(f, R \cup {p}) = f[p] + SumFunctionOnSet(f, R) /\ SumFunctionOnSet(f, R) \in Int
    <3>1. IsFiniteSet(R) /\ p \notin R
      BY <1>4, <1>5 DEF R
    <3>2. QED
      BY <2>1, <3>1, SumWithOne
  <2>8. SumFunctionOnSet(f, R) = SumFunctionOnSet(g, R)
    <3>1. IsFiniteSet(R)
      BY <1>5 DEF R
    <3>2. QED
      BY <2>2, <3>1, SumsAreAlike
  <2> DEFINE x == TotalPoints(r, new)
             y == TotalPoints(r, row)
  <2>9. x = w + y /\ y \in Int
    BY <2>3, <2>6, <2>7, <2>8
  <2>10. Key(r, new)[1] = 0 - x /\ Key(r, row)[1] = 0 - y
    BY <1>1, <1>7, PointsKeys
  <2> HIDE DEF x, y, w
  <2>11. 0 - x < 0 - y
    BY <2>4, <2>5, <2>9
  <2>12. QED
    BY <2>10, <2>11 DEF new
<1>8. QED
  BY <1>6, <1>7

LEMMA FirstOfAKey ==
    ASSUME NEW row \in ResultRows, NEW r
    PROVE  1 \in DOMAIN Key(r, row) /\ Key(r, row)[1] \in Int
<1>1. CASE r = "top_zone"
  <2> DEFINE k == Key(r, row)
             n == Cardinality(Rows(row))
  <2>1. n \in Nat /\ DOMAIN k = 1 .. n + 4 /\ \A i \in 1 .. n + 4 : k[i] \in Int
    BY <1>1, TopZoneKeys
  <2> HIDE DEF k, n
  <2>2. 1 \in DOMAIN k /\ k[1] \in Int
    BY <2>1
  <2>3. QED
    BY <2>2 DEF k
<1>2. CASE r # "top_zone"
  BY <1>2, PointsKeys
<1>3. QED
  BY <1>1, <1>2

LEMMA TopsDoNotHurt ==
    ASSUME BoardTypeOK
    PROVE  TopsNeverHurt
<1> SUFFICES ASSUME NEW c \in Active, NEW d \in Active, NEW p \in BoardProblems,
                    NEW result \in Results, result.top, ~card[c][p].top,
                    rule = "top_zone" \/ Worth(rule, p, result.attempts) > 0,
                    Better(rule, card[d], [card[c] EXCEPT ![p] = result])
             PROVE  Better(rule, card[d], card[c])
  BY Zenon DEF TopsNeverHurt
<1> DEFINE row == card[c]
           new == [card[c] EXCEPT ![p] = result]
           s == Key(rule, card[d])
           t == Key(rule, row)
           u == Key(rule, new)
<1>1. row \in ResultRows /\ card[d] \in ResultRows
  BY DEF BoardTypeOK, Active, ToSet, ResultRows
<1>2. new \in ResultRows
  BY <1>1 DEF ResultRows
<1>3. \E i \in DOMAIN s \cap DOMAIN u : s[i] < u[i] /\ \A j \in 1 .. i - 1 : s[j] = u[j]
  BY Zenon DEF Better
<1>4. (\E i \in DOMAIN s \cap DOMAIN t : s[i] < t[i] /\ \A j \in 1 .. i - 1 : s[j] = t[j])
      => Better(rule, card[d], card[c])
  BY Zenon DEF Better
<1>5. CASE eventOf[p] = NoEvent
  <2>1. u = t
    BY <1>1, <1>5, UnlistedAreNotCounted
  <2> HIDE DEF s, t, u
  <2>2. QED
    BY <1>3, <1>4, <2>1
<1>6. CASE eventOf[p] # NoEvent
  <2>1. u[1] < t[1]
    <3>1. ~row[p].top
      OBVIOUS
    <3> HIDE DEF row
    <3>2. Key(rule, [row EXCEPT ![p] = result])[1] < Key(rule, row)[1]
      BY <1>1, <1>6, <3>1, TopsComeFirst
    <3>3. QED
      BY <3>2 DEF row
  <2>2. /\ 1 \in DOMAIN s \cap DOMAIN t
        /\ s[1] \in Int /\ t[1] \in Int /\ u[1] \in Int
    BY <1>1, <1>2, FirstOfAKey
  <2>3. PICK i \in DOMAIN s \cap DOMAIN u : s[i] < u[i] /\ \A j \in 1 .. i - 1 : s[j] = u[j]
    BY <1>3
  <2>4. i \in 1 .. KeyLength(rule) /\ KeyLength(rule) \in Nat
    BY <1>1, PaddedKeys
  <2> HIDE DEF s, t, u
  <2>5. s[1] <= u[1]
    <3>1. CASE i = 1
      BY <2>2, <2>3, <3>1
    <3>2. CASE i # 1
      <4>1. 1 \in 1 .. i - 1
        BY <2>4, <3>2
      <4>2. s[1] = u[1]
        BY <2>3, <4>1
      <4>3. QED
        BY <2>2, <4>2
    <3>3. QED
      BY <3>1, <3>2
  <2>6. s[1] < t[1]
    BY <2>1, <2>2, <2>5
  <2>7. \A j \in 1 .. 1 - 1 : s[j] = t[j]
    OBVIOUS
  <2>8. QED
    BY <1>4, <2>2, <2>6, <2>7
<1>7. QED
  BY <1>5, <1>6

-----------------------------------------------------------------------------
(* The types of the board. *)

LEMMA BoardBegins == BoardInit => BoardTypeOK
<1> SUFFICES ASSUME BoardInit
             PROVE  BoardTypeOK
  OBVIOUS
<1>1. registered \in Seq(Climbers) /\ IsInjective(registered) /\ withdrawn \subseteq ToSet(registered)
  BY DEF BoardInit, IsInjective
<1>2. QED
  BY <1>1 DEF BoardInit, BoardTypeOK

LEMMA BoardStep == BoardTypeOK /\ [BoardNext]_boardVars => BoardTypeOK'
<1> SUFFICES ASSUME BoardTypeOK, [BoardNext]_boardVars
             PROVE  BoardTypeOK'
  OBVIOUS
<1> USE DEF BoardTypeOK
<1>1. ASSUME NEW e \in BoardEvents, NEW r \in Overrides, AddEvent(e, r)
      PROVE  BoardTypeOK'
  BY <1>1 DEF AddEvent
<1>2. ASSUME NEW e \in BoardEvents, NEW p \in BoardProblems, AddProblem(p, e)
      PROVE  BoardTypeOK'
  BY <1>2 DEF AddProblem
<1>3. ASSUME NEW r \in Rules, ChangeRule(r)
      PROVE  BoardTypeOK'
  BY <1>3 DEF ChangeRule
<1>4. ASSUME NEW c \in Climbers, Register(c)
      PROVE  BoardTypeOK'
  <2>1. registered' \in Seq(Climbers) /\ Len(registered') = Len(registered) + 1
    BY <1>4 DEF Register
  <2>2. /\ \A i \in 1 .. Len(registered) : registered'[i] = registered[i]
        /\ registered'[Len(registered) + 1] = c
    BY <1>4 DEF Register
  <2>3. \A i \in 1 .. Len(registered) : registered[i] # c
    BY <1>4 DEF Register, ToSet
  <2>4. IsInjective(registered')
    <3> SUFFICES ASSUME NEW i \in 1 .. Len(registered) + 1, NEW j \in 1 .. Len(registered) + 1,
                        registered'[i] = registered'[j]
                 PROVE  i = j
      BY <2>1 DEF IsInjective
    <3>1. \A x, y \in 1 .. Len(registered) : registered[x] = registered[y] => x = y
      BY DEF IsInjective
    <3>2. QED
      BY <2>2, <2>3, <3>1
  <2>5. ToSet(registered) \subseteq ToSet(registered')
    BY <2>1, <2>2 DEF ToSet
  <2>6. QED
    BY <1>4, <2>1, <2>4, <2>5 DEF Register
<1>5. ASSUME NEW c \in Climbers, WithdrawRegistration(c)
      PROVE  BoardTypeOK'
  BY <1>5 DEF WithdrawRegistration
<1>6. ASSUME NEW c \in Climbers, NEW p \in BoardProblems, NEW r \in Results, Score(c, p, r)
      PROVE  BoardTypeOK'
  BY <1>6 DEF Score
<1>7. CASE UNCHANGED boardVars
  BY <1>7 DEF boardVars
<1>8. QED
  BY <1>1, <1>2, <1>3, <1>4, <1>5, <1>6, <1>7 DEF BoardNext

LEMMA BoardHolds == BoardTypeOK => RankCountsBetter /\ TopsNeverHurt
  BY RanksCount, TopsDoNotHurt

-----------------------------------------------------------------------------
(* The components side by side: module MCOperations. *)

\* A step of the composition is one of a component, or leaves it alone.
LEMMA OperationsSteps ==
    ASSUME [OperationsNext]_<<focus, pathVars, settingsVars, backupVars, migrationVars,
                              allNoticeVars, boardVars, setupVars>>
    PROVE  /\ [PathNext]_pathVars
           /\ [SettingsNext]_settingsVars
           /\ [BoardNext]_boardVars
           /\ [SetupNext]_setupVars
           /\ [NoticeNext]_allNoticeVars
           /\ [BackupsNext]_backupVars
           /\ [MigrationsNext]_migrationVars
<1>1. CASE OperationsNext
  BY <1>1 DEF OperationsNext
<1>2. CASE UNCHANGED <<focus, pathVars, settingsVars, backupVars, migrationVars,
                       allNoticeVars, boardVars, setupVars>>
  BY <1>2
<1>3. QED
  BY <1>1, <1>2

\* For any number of instances, requests and sections: an instance does not serve
\* settings older than its own last update unless a reader that had missed the cache
\* filled it after; any other entry is the stored document, until its writer has
\* invalidated it, or unless a write overtook it that was another instance's, whose answer
\* was lost, or that came between the read and the fill; and an edit is in the document
\* until a PUT replaces every section, or a preset is written over a copy that a write had
\* overtaken (settings_cached.go).  Whatever patches interleave, a competition and its
\* events end after they start (handler/comp.go).
THEOREM EditsAreHeld == OperationsSpec => []EditsHold
<1> DEFINE EditsInv == SettingsInv /\ SetupInv
<1>1. OperationsInit => EditsInv
  BY SettingsBegin, SetupBegins DEF OperationsInit
<1>2. EditsInv
         /\ [OperationsNext]_<<focus, pathVars, settingsVars, backupVars, migrationVars,
                               allNoticeVars, boardVars, setupVars>>
      => EditsInv'
  BY SettingsStep, SetupStep, OperationsSteps
<1>3. EditsInv => EditsHold
  BY DEF SettingsInv, SetupInv, EditsHold
<1>4. QED
  BY <1>1, <1>2, <1>3, PTL DEF OperationsSpec

\* For any number of notifications, mails and audited changes, what is told has had its
\* effect, has a job that is open or dead, or was lost to a failure that is answered or
\* logged; without a word go only a notification whose Enqueue failed and a change whose
\* process stopped before its audit, which the queue never had; and a copy is made only
\* for a run or a fallback that was repeated (NotifyAsync, send, Record).
THEOREM TellingIsHeld == OperationsSpec => []TellingHolds
<1>1. OperationsInit => NoticesInv
  BY NoticesBegin DEF OperationsInit
<1>2. NoticesInv
         /\ [OperationsNext]_<<focus, pathVars, settingsVars, backupVars, migrationVars,
                               allNoticeVars, boardVars, setupVars>>
      => NoticesInv'
  BY NoticesStep, OperationsSteps
<1>3. QED
  BY <1>1, <1>2, NoticesAreTold, PTL DEF OperationsSpec

\* For any number of requests, routes, codes and latency buckets, whatever panics or is
\* read in between: with nothing in flight the counters account for every request; the
\* histogram and the codes of the JSON stay within its total, those of the Prometheus
\* text, its errors and its requests_total within the +Inf of its histogram; and an answer
\* has one coding and the status that was noted for it, unless its handler panicked after
\* the first byte (middleware/metrics.go, logging.go, recovery.go, security.go).
THEOREM RequestsAreHeld == OperationsSpec => []RequestsHold
<1>1. OperationsInit => PathInv
  BY PathBegins DEF OperationsInit
<1>2. PathInv
         /\ [OperationsNext]_<<focus, pathVars, settingsVars, backupVars, migrationVars,
                               allNoticeVars, boardVars, setupVars>>
      => PathInv'
  BY PathStep, OperationsSteps
<1>3. PathInv => RequestsHold
  BY PathHolds DEF RequestsHold
<1>4. QED
  BY <1>1, <1>2, <1>3, PTL DEF OperationsSpec

\* For any number of climbers and problems, any points, and results of any kind: the
\* rank of a climber is one more than the number of those who are better, and a top
\* that is worth anything costs its climber no place (service/competition).
THEOREM CompetitionIsHeld == OperationsSpec => []CompetitionHolds
<1>1. OperationsInit => BoardTypeOK
  BY BoardBegins DEF OperationsInit
<1>2. BoardTypeOK
         /\ [OperationsNext]_<<focus, pathVars, settingsVars, backupVars, migrationVars,
                               allNoticeVars, boardVars, setupVars>>
      => BoardTypeOK'
  BY BoardStep, OperationsSteps
<1>3. BoardTypeOK => CompetitionHolds
  BY BoardHolds DEF CompetitionHolds
<1>4. QED
  BY <1>1, <1>2, <1>3, PTL DEF OperationsSpec

\* For any number of servers, images and migrations, whoever dies, forces a version or
\* takes a migration back: an instance that has come through Migrate has every
\* migration of its image in the schema, and while it serves it loses those only that
\* migrate-down takes back beside it (database/migrate.go); and for any number of
\* instances and any retention of a day at least, the last success that /health shows
\* is backed by a dump of that day, the day before, or a later one (service/backup.go).
THEOREM OperationsAreHeld == OperationsSpec => []OperationsHold
<1> DEFINE ServiceInv == BackupsInv /\ MigrationsInv /\ \A p \in Servers : Serves(p)
<1>1. OperationsInit => ServiceInv
  <2>1. MigrationsInit => \A p \in Servers : Serves(p)
    BY ImagesAreKnown DEF MigrationsInit, Serves, AtStep, Off
  <2>2. QED
    BY <2>1, BackupsBegin, MigrationsBegin DEF OperationsInit
<1>2. ServiceInv
         /\ [OperationsNext]_<<focus, pathVars, settingsVars, backupVars, migrationVars,
                               allNoticeVars, boardVars, setupVars>>
      => ServiceInv'
  BY BackupsStep, MigrationsStep, ServingStep, OperationsSteps
<1>3. ServiceInv => OperationsHold
  <2>1. MigrationsInv /\ (\A p \in Servers : Serves(p)) => MigrationsTypeOK /\ ServesWhole
    BY ImagesAreKnown DEF MigrationsInv, ProcessHolds, ServesWhole, Serves, Whole, AtStep
  <2>2. QED
    BY <2>1, FreshnessHolds DEF OperationsHold
<1>4. QED
  BY <1>1, <1>2, <1>3, PTL DEF OperationsSpec
=============================================================================
