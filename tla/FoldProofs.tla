----------------------------- MODULE FoldProofs -----------------------------
(***************************************************************************)
(* Lemmas about folds and sums over finite sets.  A property of sets is    *)
(* the set Q of those that have it, so that the provers can instantiate    *)
(* the induction.                                                          *)
(***************************************************************************)
EXTENDS Integers, FiniteSets, Functions, FiniteSetTheorems, TLAPS

\* What every subset of a finite set has when its proper subsets do, every subset has.
LEMMA SubsetInduction ==
  ASSUME NEW S, IsFiniteSet(S), NEW Q,
         \A T \in SUBSET S : (\A U \in SUBSET T : U # T => U \in Q) => T \in Q
  PROVE  \A T \in SUBSET S : T \in Q
  <1> DEFINE B == {T \in SUBSET S : T \notin Q}
             R == StrictSubsetOrdering(S)
  <1>1. IsWellFoundedOn(R, SUBSET S)
    BY FS_StrictSubsetOrderingWellFounded, FS_FiniteSubsetsOfFinite
  <1>2. ASSUME B # {} PROVE FALSE
    <2>1. B \subseteq SUBSET S
      OBVIOUS
    <2>2. \E T \in B : \A U \in B : <<U, T>> \notin R
      <3> HIDE DEF B, R
      <3> QED
        BY <1>1, <1>2, <2>1, WFMin
    <2>3. PICK T \in B : \A U \in B : <<U, T>> \notin R
      BY <2>2
    <2>4. ASSUME NEW U \in SUBSET T, U # T PROVE U \in Q
      BY <2>3, <2>4 DEF StrictSubsetOrdering
    <2> QED
      BY <2>3, <2>4
  <1> QED
    BY <1>2

\* g folds step over the subsets of S, taking last[s] off s
Folds(g, S, base, last, step) ==
    g = [s \in SUBSET S |-> IF s = {} THEN base ELSE step[<<last[s], g[s \ {last[s]}]>>]]

\* A fold depends on nothing outside of the set.
LEMMA FoldUnique ==
  ASSUME NEW S, IsFiniteSet(S), NEW base, NEW last, NEW step,
         \A s \in SUBSET S : s # {} => last[s] \in s,
         NEW T \in SUBSET S, NEW U \in SUBSET S, NEW g, NEW h,
         Folds(g, T, base, last, step), Folds(h, U, base, last, step),
         NEW s \in SUBSET T, s \in SUBSET U
  PROVE  g[s] = h[s]
  <1> DEFINE Q == {W \in SUBSET S : W \subseteq T /\ W \subseteq U => g[W] = h[W]}
  <1>1. ASSUME NEW W \in SUBSET S, \A V \in SUBSET W : V # W => V \in Q PROVE W \in Q
    <2> SUFFICES ASSUME W \subseteq T, W \subseteq U PROVE g[W] = h[W]
      OBVIOUS
    <2>1. /\ g[W] = IF W = {} THEN base ELSE step[<<last[W], g[W \ {last[W]}]>>]
          /\ h[W] = IF W = {} THEN base ELSE step[<<last[W], h[W \ {last[W]}]>>]
      BY DEF Folds
    <2>2. ASSUME W # {} PROVE g[W \ {last[W]}] = h[W \ {last[W]}]
      <3>1. last[W] \in W
        BY <2>2
      <3>2. W \ {last[W]} \in Q
        BY <1>1, <3>1
      <3> QED
        BY <3>2
    <2> QED
      BY <2>1, <2>2
  <1>2. \A W \in SUBSET S : W \in Q
    <2> HIDE DEF Q
    <2> QED
      BY <1>1, SubsetInduction
  <1> QED
    BY <1>2

\* A fold over a finite set exists.
LEMMA FoldExists ==
  ASSUME NEW S, IsFiniteSet(S), NEW base, NEW last, NEW step,
         \A s \in SUBSET S : s # {} => last[s] \in s
  PROVE  \E g : Folds(g, S, base, last, step)
  <1> DEFINE Q == {T \in SUBSET S : \E g : Folds(g, T, base, last, step)}
             G(s) == CHOOSE g : Folds(g, s, base, last, step)
  <1>1. ASSUME NEW T \in SUBSET S, \A U \in SUBSET T : U # T => U \in Q PROVE T \in Q
    <2> DEFINE f == [s \in SUBSET T |->
                       IF s = {} THEN base
                       ELSE step[<<last[s], G(s \ {last[s]})[s \ {last[s]}]>>]]
    <2>1. ASSUME NEW s \in SUBSET T, s # T PROVE Folds(G(s), s, base, last, step)
      BY <1>1, <2>1
    <2> HIDE DEF G
    <2>2. ASSUME NEW s \in SUBSET T, s # T PROVE f[s] = G(s)[s]
      <3>1. G(s)[s] = IF s = {} THEN base ELSE step[<<last[s], G(s)[s \ {last[s]}]>>]
        <4> DEFINE g == G(s)
        <4>1. Folds(g, s, base, last, step)
          BY <2>1, <2>2
        <4> HIDE DEF g
        <4>2. s \in SUBSET s
          OBVIOUS
        <4>3. g[s] = IF s = {} THEN base ELSE step[<<last[s], g[s \ {last[s]}]>>]
          BY <4>1, <4>2 DEF Folds
        <4> QED
          BY <4>3 DEF g
      <3>2. ASSUME s # {}
            PROVE  G(s)[s \ {last[s]}] = G(s \ {last[s]})[s \ {last[s]}]
        <4> DEFINE u == s \ {last[s]}
        <4>1. last[s] \in s /\ u \in SUBSET T /\ u # T /\ u \in SUBSET s /\ u \in SUBSET u
              /\ u \in SUBSET S /\ s \in SUBSET S
          BY <3>2
        <4>2. Folds(G(s), s, base, last, step) /\ Folds(G(u), u, base, last, step)
          BY <2>1, <2>2, <4>1
        <4> HIDE DEF u
        <4>3. G(s)[u] = G(u)[u]
          BY <4>1, <4>2, FoldUnique
        <4> QED
          BY <4>3 DEF u
      <3> QED
        BY <3>1, <3>2
    <2>3. \A s \in SUBSET T : s # {} => f[s \ {last[s]}] = G(s \ {last[s]})[s \ {last[s]}]
      <3> TAKE s \in SUBSET T
      <3> HAVE s # {}
      <3> last[s] \in s
        OBVIOUS
      <3> s \ {last[s]} \in SUBSET T /\ s \ {last[s]} # T
        OBVIOUS
      <3> HIDE DEF f
      <3> QED
        BY <2>2
    <2>4. f = [s \in SUBSET T |-> IF s = {} THEN base ELSE step[<<last[s], f[s \ {last[s]}]>>]]
      <3> DEFINE h == [s \in SUBSET T |->
                         IF s = {} THEN base ELSE step[<<last[s], f[s \ {last[s]}]>>]]
      <3>1. ASSUME NEW s \in SUBSET T PROVE f[s] = h[s]
        BY <2>3
      <3> QED
        BY <3>1
    <2>5. Folds(f, T, base, last, step)
      BY <2>4 DEF Folds
    <2> QED
      BY <2>5
  <1>2. \A T \in SUBSET S : T \in Q
    <2> HIDE DEF Q
    <2> QED
      BY <1>1, SubsetInduction
  <1> QED
    BY <1>2

\* A fold of steps within V is in V.
LEMMA FoldTyped ==
  ASSUME NEW S, IsFiniteSet(S), NEW V, NEW base \in V, NEW last, NEW step \in [S \X V -> V],
         \A s \in SUBSET S : s # {} => last[s] \in s,
         NEW g, Folds(g, S, base, last, step)
  PROVE  g \in [SUBSET S -> V]
  <1> DEFINE Q == {T \in SUBSET S : g[T] \in V}
  <1>1. ASSUME NEW T \in SUBSET S, \A U \in SUBSET T : U # T => U \in Q PROVE T \in Q
    <2>1. g[T] = IF T = {} THEN base ELSE step[<<last[T], g[T \ {last[T]}]>>]
      BY DEF Folds
    <2>2. ASSUME T # {} PROVE <<last[T], g[T \ {last[T]}]>> \in S \X V
      <3>1. last[T] \in T
        BY <2>2
      <3>2. T \ {last[T]} \in Q
        BY <1>1, <3>1
      <3> QED
        BY <3>1, <3>2
    <2> QED
      BY <2>1, <2>2
  <1>2. \A T \in SUBSET S : T \in Q
    <2> HIDE DEF Q
    <2> QED
      BY <1>1, SubsetInduction
  <1> QED
    BY <1>2 DEF Folds

-----------------------------------------------------------------------------
(* Sums *)

Some(s) == CHOOSE x \in s : TRUE

Sums(g, f, S) == g = [s \in SUBSET S |-> IF s = {} THEN 0 ELSE f[Some(s)] + g[s \ {Some(s)}]]

\* g has the sums over all subsets of S
SumTable(g, f, S) ==
    /\ g \in [SUBSET S -> Int] /\ Sums(g, f, S)
    /\ \A T \in SUBSET S : SumFunctionOnSet(f, T) = g[T]

\* The sum of the community modules, with its recursion named.
LEMMA SumUnfolded ==
  ASSUME NEW f, NEW S
  PROVE  SumFunctionOnSet(f, S) = (CHOOSE g : Sums(g, f, S))[S]
  BY DEF SumFunctionOnSet, FoldFunctionOnSet, MapThenFoldSet, Sums, Some

\* One function gives the sums over all subsets of a finite set.
LEMMA SumTables ==
  ASSUME NEW S, IsFiniteSet(S), NEW f, \A x \in S : f[x] \in Int
  PROVE  \E g : SumTable(g, f, S)
  <1> DEFINE last == [s \in SUBSET S |-> Some(s)]
             step == [p \in S \X Int |-> f[p[1]] + p[2]]
  <1>1. \A s \in SUBSET S : s # {} => Some(s) \in s /\ last[s] = Some(s)
    BY DEF Some
  <1>2. step \in [S \X Int -> Int]
    OBVIOUS
  <1>3. \A x \in S, n \in Int : step[<<x, n>>] = f[x] + n
    OBVIOUS
  <1> HIDE DEF last, step
  <1>4. PICK g : Folds(g, S, 0, last, step)
    BY <1>1, FoldExists
  <1>5. g \in [SUBSET S -> Int]
    <2>1. \A s \in SUBSET S : s # {} => last[s] \in s
      BY <1>1
    <2>2. 0 \in Int
      OBVIOUS
    <2> QED
      BY <1>2, <1>4, <2>1, <2>2, FoldTyped, Zenon
  <1>6. \A s \in SUBSET S : g[s] = IF s = {} THEN 0 ELSE f[Some(s)] + g[s \ {Some(s)}]
    <2> TAKE s \in SUBSET S
    <2>1. g[s] = IF s = {} THEN 0 ELSE step[<<last[s], g[s \ {last[s]}]>>]
      BY <1>4 DEF Folds
    <2> QED
      BY <1>1, <1>3, <1>5, <2>1
  <1>7. Sums(g, f, S)
    BY <1>5, <1>6 DEF Sums
  <1>8. ASSUME NEW T \in SUBSET S PROVE SumFunctionOnSet(f, T) = g[T]
    <2> DEFINE h == [s \in SUBSET T |-> g[s]]
               k == CHOOSE e : Sums(e, f, T)
    <2>1. Sums(h, f, T)
      <3>1. ASSUME NEW s \in SUBSET T
            PROVE  h[s] = IF s = {} THEN 0 ELSE f[Some(s)] + h[s \ {Some(s)}]
        BY <1>6, <3>1
      <3> HIDE DEF h
      <3>2. h = [s \in SUBSET T |-> h[s]]
        BY DEF h
      <3> QED
        BY <3>1, <3>2 DEF Sums
    <2>2. Sums(k, f, T)
      BY <2>1
    <2>3. \A s \in SUBSET T : k[s] = IF s = {} THEN 0 ELSE f[Some(s)] + k[s \ {Some(s)}]
      <3> HIDE DEF k
      <3> QED
        BY <2>2 DEF Sums
    <2> DEFINE Q == {s \in SUBSET T : k[s] = g[s]}
    <2> HIDE DEF k, h
    <2>4. IsFiniteSet(T)
      BY FS_Subset
    <2>5. ASSUME NEW s \in SUBSET T, \A u \in SUBSET s : u # s => u \in Q PROVE s \in Q
      <3>1. ASSUME s # {} PROVE s \ {Some(s)} \in Q
        BY <1>1, <2>5, <3>1
      <3> QED
        BY <1>6, <2>3, <3>1
    <2>6. \A s \in SUBSET T : s \in Q
      <3> HIDE DEF Q
      <3> QED
        BY <2>4, <2>5, SubsetInduction
    <2>7. SumFunctionOnSet(f, T) = k[T]
      BY SumUnfolded DEF k
    <2> QED
      BY <2>6, <2>7
  <1> QED
    BY <1>5, <1>7, <1>8 DEF SumTable

\* A sum of integers is one, and is put together from any of its terms and the rest.
LEMMA SumOf ==
  ASSUME NEW S, IsFiniteSet(S), NEW f, \A x \in S : f[x] \in Int
  PROVE  /\ SumFunctionOnSet(f, S) \in Int
         /\ SumFunctionOnSet(f, {}) = 0
         /\ \A x \in S : SumFunctionOnSet(f, S) = f[x] + SumFunctionOnSet(f, S \ {x})
  <1>0. PICK g : SumTable(g, f, S)
    BY SumTables
  <1>1. /\ g \in [SUBSET S -> Int] /\ Sums(g, f, S)
        /\ \A T \in SUBSET S : SumFunctionOnSet(f, T) = g[T]
    BY <1>0 DEF SumTable
  <1>2. \A s \in SUBSET S : g[s] = IF s = {} THEN 0 ELSE f[Some(s)] + g[s \ {Some(s)}]
    BY <1>1 DEF Sums
  <1>3. \A s \in SUBSET S : s # {} => Some(s) \in s
    BY DEF Some
  <1> DEFINE Q == {s \in SUBSET S : \A x \in s : g[s] = f[x] + g[s \ {x}]}
  <1>4. ASSUME NEW s \in SUBSET S, \A u \in SUBSET s : u # s => u \in Q PROVE s \in Q
    <2> SUFFICES ASSUME NEW x \in s PROVE g[s] = f[x] + g[s \ {x}]
      OBVIOUS
    <2> DEFINE y == Some(s)
    <2>1. y \in s /\ g[s] = f[y] + g[s \ {y}]
      BY <1>2, <1>3
    <2> HIDE DEF y
    <2>2. CASE x = y
      BY <2>1, <2>2
    <2>3. CASE x # y
      <3>1. s \ {y} \in Q /\ s \ {x} \in Q
        BY <1>4, <2>1
      <3>2. x \in s \ {y} /\ y \in s \ {x}
        BY <2>1, <2>3
      <3>3. (s \ {y}) \ {x} = (s \ {x}) \ {y}
        OBVIOUS
      <3> DEFINE rest == g[(s \ {x}) \ {y}]
      <3>4. /\ g[s \ {y}] = f[x] + rest
            /\ g[s \ {x}] = f[y] + rest
        BY <3>1, <3>2, <3>3
      <3>5. f[x] \in Int /\ f[y] \in Int /\ rest \in Int
        BY <1>1, <2>1
      <3> HIDE DEF Q, rest
      <3> QED
        BY <2>1, <3>4, <3>5
    <2> QED
      BY <2>2, <2>3
  <1>5. S \in Q
    <2> HIDE DEF Q
    <2> QED
      BY <1>4, SubsetInduction
  <1>6. g[S] \in Int /\ g[{}] = 0
    BY <1>1, <1>2
  <1>7. \A x \in S : S \ {x} \in SUBSET S
    OBVIOUS
  <1> QED
    BY <1>1, <1>5, <1>6, <1>7

\* Equal terms have equal sums.
LEMMA SumSame ==
  ASSUME NEW S, IsFiniteSet(S), NEW f, NEW g, \A x \in S : f[x] \in Int /\ g[x] = f[x]
  PROVE  SumFunctionOnSet(g, S) = SumFunctionOnSet(f, S)
  <1> DEFINE Q == {T \in SUBSET S : SumFunctionOnSet(g, T) = SumFunctionOnSet(f, T)}
  <1>1. ASSUME NEW T \in SUBSET S, \A U \in SUBSET T : U # T => U \in Q PROVE T \in Q
    <2>1. IsFiniteSet(T) /\ (\A x \in T : f[x] \in Int) /\ \A x \in T : g[x] \in Int
      BY FS_Subset
    <2>2. SumFunctionOnSet(f, {}) = 0 /\ SumFunctionOnSet(g, {}) = 0
      BY <2>1, SumOf
    <2>3. ASSUME NEW x \in T PROVE SumFunctionOnSet(g, T) = SumFunctionOnSet(f, T)
      <3>1. SumFunctionOnSet(f, T) = f[x] + SumFunctionOnSet(f, T \ {x})
        BY <2>1, SumOf
      <3>2. SumFunctionOnSet(g, T) = g[x] + SumFunctionOnSet(g, T \ {x})
        BY <2>1, SumOf
      <3>3. T \ {x} \in Q
        BY <1>1
      <3> QED
        BY <3>1, <3>2, <3>3
    <2> QED
      BY <2>2, <2>3
  <1>2. S \in Q
    <2> HIDE DEF Q
    <2> QED
      BY <1>1, SubsetInduction
  <1> QED
    BY <1>2

\* Terms that are not negative can only add to a sum, and zeros change nothing.
LEMMA SumGrows ==
  ASSUME NEW S, IsFiniteSet(S), NEW f, \A x \in S : f[x] \in Nat, NEW A \in SUBSET S
  PROVE  /\ SumFunctionOnSet(f, S) \in Nat
         /\ SumFunctionOnSet(f, A) <= SumFunctionOnSet(f, S)
         /\ (\A x \in S \ A : f[x] = 0) => SumFunctionOnSet(f, A) = SumFunctionOnSet(f, S)
  <1> DEFINE Fits(T) == /\ SumFunctionOnSet(f, T) \in Nat
                        /\ \A B \in SUBSET T :
                              /\ SumFunctionOnSet(f, B) <= SumFunctionOnSet(f, T)
                              /\ (\A x \in T \ B : f[x] = 0) =>
                                    SumFunctionOnSet(f, B) = SumFunctionOnSet(f, T)
             Q == {T \in SUBSET S : Fits(T)}
  <1>1. ASSUME NEW T \in SUBSET S, \A U \in SUBSET T : U # T => U \in Q PROVE T \in Q
    <2>1. IsFiniteSet(T) /\ \A x \in T : f[x] \in Int
      BY FS_Subset
    <2>2. /\ SumFunctionOnSet(f, {}) = 0
          /\ \A x \in T : SumFunctionOnSet(f, T) = f[x] + SumFunctionOnSet(f, T \ {x})
      BY <2>1, SumOf
    <2>3. \A x \in T : f[x] \in Nat /\ Fits(T \ {x})
      BY <1>1
    <2>4. SumFunctionOnSet(f, T) \in Nat
      <3>1. CASE T = {}
        BY <2>2, <3>1
      <3>2. ASSUME NEW x \in T PROVE SumFunctionOnSet(f, T) \in Nat
        <4> DEFINE less == SumFunctionOnSet(f, T \ {x})
        <4>1. less \in Nat /\ f[x] \in Nat
          BY <2>3
        <4>2. SumFunctionOnSet(f, T) = f[x] + less
          BY <2>2
        <4> HIDE DEF less, Fits, Q
        <4> QED
          BY <4>1, <4>2
      <3> QED
        BY <3>1, <3>2
    <2>5. ASSUME NEW B \in SUBSET T
          PROVE  /\ SumFunctionOnSet(f, B) <= SumFunctionOnSet(f, T)
                 /\ (\A x \in T \ B : f[x] = 0) =>
                       SumFunctionOnSet(f, B) = SumFunctionOnSet(f, T)
      <3>1. CASE B = T
        BY <2>4, <3>1
      <3>2. ASSUME NEW x \in T \ B
            PROVE  /\ SumFunctionOnSet(f, B) <= SumFunctionOnSet(f, T)
                   /\ (\A y \in T \ B : f[y] = 0) =>
                         SumFunctionOnSet(f, B) = SumFunctionOnSet(f, T)
        <4> DEFINE whole == SumFunctionOnSet(f, T)
                   part  == SumFunctionOnSet(f, B)
                   less  == SumFunctionOnSet(f, T \ {x})
        <4>1. B \in SUBSET (T \ {x})
          BY <3>2
        <4>2. /\ less \in Nat /\ part <= less
              /\ (\A y \in (T \ {x}) \ B : f[y] = 0) => part = less
          BY <2>3, <4>1
        <4>3. whole = f[x] + less /\ f[x] \in Nat
          BY <2>2, <2>3
        <4>4. IsFiniteSet(B) /\ \A y \in B : f[y] \in Int
          BY <2>1, FS_Subset
        <4>5. part \in Int
          BY <4>4, SumOf
        <4> HIDE DEF whole, part, less, Fits, Q
        <4>6. part <= whole /\ ((\A y \in T \ B : f[y] = 0) => part = whole)
          BY <4>2, <4>3, <4>5
        <4> QED
          BY <4>6 DEF whole, part
      <3> QED
        BY <3>1, <3>2
    <2> QED
      BY <2>4, <2>5
  <1>2. S \in Q
    <2> HIDE DEF Q
    <2> QED
      BY <1>1, SubsetInduction
  <1> QED
    BY <1>2
\* A new term adds itself to a sum.
LEMMA SumAdds ==
  ASSUME NEW S, IsFiniteSet(S), NEW x, x \notin S, NEW f, \A y \in S \cup {x} : f[y] \in Int
  PROVE  SumFunctionOnSet(f, S \cup {x}) = f[x] + SumFunctionOnSet(f, S)
  <1>1. IsFiniteSet(S \cup {x})
    BY FS_AddElement
  <1>2. (S \cup {x}) \ {x} = S
    OBVIOUS
  <1>3. SumFunctionOnSet(f, S \cup {x}) = f[x] + SumFunctionOnSet(f, (S \cup {x}) \ {x})
    BY <1>1, SumOf
  <1> QED
    BY <1>2, <1>3
=============================================================================
