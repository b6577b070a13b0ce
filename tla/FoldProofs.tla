------------------------------- MODULE FoldProofs ------------------------------
(***************************************************************************)
(* Lemmas about the least and the greatest of a set of numbers, and about  *)
(* folds over sequences.  A fold is a CHOOSE of the function that has its  *)
(* values on all sets of indices; where the folded operator keeps a set B, *)
(* that function exists, and its values on the beginnings of the sequence  *)
(* are a trace that goes on element after element.                         *)
(***************************************************************************)
EXTENDS Integers, Sequences, SequencesExt, FiniteSetTheorems, TLAPS

--------------------------------------------------------------------------------
(* Least and greatest.                                                     *)

\* A non-empty set of naturals has a least element: among the intervals below its
\* members there is one that no other is a proper part of.
LEMMA MinOfNaturals ==
    ASSUME NEW T \in SUBSET Nat, T # {}
    PROVE  Min(T) \in T /\ \A y \in T : Min(T) <= y
  <1> DEFINE Below(x) == {y \in Nat : y < x}
             B == {Below(x) : x \in T}
             R == StrictSubsetOrdering(Nat)
  <1>1. \A x \in T : Below(x) = 0..(x - 1) /\ IsFiniteSet(Below(x))
    <2> SUFFICES ASSUME NEW x \in T PROVE Below(x) = 0..(x - 1) /\ IsFiniteSet(Below(x))
      OBVIOUS
    <2>1. Below(x) = 0..(x - 1)  OBVIOUS
    <2>2. IsFiniteSet(0..(x - 1))  BY FS_Interval
    <2>. QED  BY <2>1, <2>2
  <1>2. B \subseteq FiniteSubsetsOf(Nat) /\ B # {}
    BY <1>1 DEF FiniteSubsetsOf
  <1>3. PICK b \in B : \A e \in B : <<e, b>> \notin R
    BY <1>2, FS_StrictSubsetOrderingWellFounded, WFMin
  <1>4. PICK x \in T : b = Below(x)
    OBVIOUS
  <1>5. \A y \in T : x <= y
    <2> SUFFICES ASSUME NEW y \in T, y < x PROVE FALSE
      OBVIOUS
    <2>1. Below(y) \subseteq Below(x) /\ y \in Below(x) /\ y \notin Below(y)
      OBVIOUS
    <2>2. <<Below(y), Below(x)>> \in R
      BY <2>1 DEF StrictSubsetOrdering
    <2>. QED  BY <2>2, <1>3, <1>4
  <1>. QED  BY <1>5 DEF Min

\* A non-empty set of positions has a last one.
LEMMA MaxOfPositions ==
    ASSUME NEW n \in Nat, NEW T \in SUBSET (1..n), T # {}
    PROVE  Max(T) \in T /\ \A y \in T : y <= Max(T)
  <1> DEFINE U == {k \in Nat : k <= n /\ n - k \in T}
  <1>1. \A x \in T : n - x \in U /\ n - (n - x) = x
    <2> SUFFICES ASSUME NEW x \in T PROVE n - x \in U /\ n - (n - x) = x
      OBVIOUS
    <2>1. x \in 1..n  OBVIOUS
    <2>2. n - (n - x) = x  BY <2>1
    <2>3. n - x \in Nat /\ n - x <= n  BY <2>1
    <2>. QED  BY <2>2, <2>3
  <1>2. U \in SUBSET Nat /\ U # {}
    BY <1>1
  <1>3. Min(U) \in U /\ \A k \in U : Min(U) <= k
    <2>. HIDE DEF U
    <2>. QED  BY <1>2, MinOfNaturals
  <1> DEFINE x == n - Min(U)
  <1>4. x \in T /\ Min(U) \in Nat
    BY <1>3
  <1>5. \A y \in T : y <= x
    <2> SUFFICES ASSUME NEW y \in T PROVE y <= x
      OBVIOUS
    <2>1. Min(U) <= n - y
      BY <1>1, <1>3
    <2>2. y \in 1..n  OBVIOUS
    <2>. QED  BY <2>1, <2>2, <1>4
  <1>. QED  BY <1>4, <1>5 DEF Max

--------------------------------------------------------------------------------
(* Folds over sequences.                                                   *)

\* What holds of 0, and of n + 1 whenever of n, holds of every number.
LEMMA Induction ==
    ASSUME NEW S \in SUBSET Nat, 0 \in S, \A n \in Nat : n \in S => n + 1 \in S
    PROVE  S = Nat
  <1> SUFFICES ASSUME Nat \ S # {}
               PROVE  FALSE
    OBVIOUS
  <1> DEFINE T == Nat \ S
             m == Min(T)
  <1>1. m \in T /\ \A k \in T : m <= k
    <2>1. T \in SUBSET Nat /\ T # {}
      OBVIOUS
    <2>. HIDE DEF T
    <2>. QED  BY <2>1, MinOfNaturals
  <1>. HIDE DEF m
  <1>2. m \in Nat /\ m # 0
    BY <1>1
  <1>3. m - 1 \in Nat /\ m = (m - 1) + 1 /\ ~(m <= m - 1)
    BY <1>2
  <1>4. m - 1 \in S
    BY <1>1, <1>3
  <1>. QED  BY <1>1, <1>3, <1>4

\* The greatest of 1..n, and what is left without it.
LEMMA MaxOfPrefix ==
    ASSUME NEW n \in Nat, NEW s \in SUBSET (1..(n + 1)), n + 1 \in s
    PROVE  Max(s) = n + 1 /\ s \ {n + 1} \in SUBSET (1..n)
  <1>1. \A y \in s : n + 1 >= y
    OBVIOUS
  <1>2. \A x \in s : (\A y \in s : x >= y) => x = n + 1
    OBVIOUS
  <1>3. Max(s) = n + 1
    BY <1>1, <1>2 DEF Max
  <1>. QED  BY <1>3

\* A fold over a sequence takes the greatest index first; it is defined whatever is
\* folded.
FoldsTo(f, n, base, G) ==
    \A s \in SUBSET (1..n) : f[s] = IF s = {} THEN base ELSE G[<<Max(s), f[s \ {Max(s)}]>>]

IsFold(m, B, base, G) == \E f \in [SUBSET (1..m) -> B] : FoldsTo(f, m, base, G)

LEMMA FoldIsDefined ==
    ASSUME NEW n \in Nat, NEW B, NEW base \in B, NEW G \in [(1..n) \X B -> B]
    PROVE  IsFold(n, B, base, G)
  <1> DEFINE S == {m \in Nat : m <= n => IsFold(m, B, base, G)}
  <1>1. 0 \in S
    <2> DEFINE f == [s \in SUBSET (1..0) |-> base]
    <2>1. f \in [SUBSET (1..0) -> B]
      OBVIOUS
    <2>2. FoldsTo(f, 0, base, G)
      BY DEF FoldsTo
    <2>. QED  BY <2>1, <2>2 DEF IsFold
  <1>2. ASSUME NEW m \in Nat, m \in S
        PROVE  m + 1 \in S
    <2> SUFFICES ASSUME m + 1 <= n
                 PROVE  IsFold(m + 1, B, base, G)
      OBVIOUS
    <2>0. IsFold(m, B, base, G)
      BY <1>2
    <2>1. PICK g \in [SUBSET (1..m) -> B] : FoldsTo(g, m, base, G)
      BY <2>0 DEF IsFold
    <2> DEFINE f == [s \in SUBSET (1..(m + 1)) |->
                        IF m + 1 \in s THEN G[<<m + 1, g[s \ {m + 1}]>>] ELSE g[s]]
    <2>2. ASSUME NEW s \in SUBSET (1..(m + 1))
          PROVE  /\ f[s] \in B
                 /\ f[s] = IF s = {} THEN base ELSE G[<<Max(s), f[s \ {Max(s)}]>>]
      <3>1. CASE m + 1 \in s
        <4>1. Max(s) = m + 1 /\ s \ {m + 1} \in SUBSET (1..m)
          BY <3>1, MaxOfPrefix
        <4>2. f[s \ {m + 1}] = g[s \ {m + 1}] /\ g[s \ {m + 1}] \in B
          BY <4>1
        <4>3. <<m + 1, g[s \ {m + 1}]>> \in (1..n) \X B
          BY <4>2
        <4>4. f[s] = G[<<m + 1, g[s \ {m + 1}]>>]
          BY <3>1
        <4>. HIDE DEF f
        <4>. QED  BY <3>1, <4>1, <4>2, <4>3, <4>4
      <3>2. CASE m + 1 \notin s
        <4>1. s \in SUBSET (1..m)
          BY <3>2
        <4>2. f[s] = g[s] /\ g[s] \in B
          BY <3>2, <4>1
        <4>3. s # {} => f[s \ {Max(s)}] = g[s \ {Max(s)}]
          BY <3>2, <4>1
        <4>. HIDE DEF f
        <4>. QED  BY <2>1, <4>1, <4>2, <4>3 DEF FoldsTo
      <3>. QED  BY <3>1, <3>2
    <2>3. f \in [SUBSET (1..(m + 1)) -> B]
      BY <2>2
    <2>4. FoldsTo(f, m + 1, base, G)
      <3>. HIDE DEF f
      <3>. QED  BY <2>2 DEF FoldsTo
    <2>. QED  BY <2>3, <2>4 DEF IsFold
  <1>3. S = Nat
    <2>. HIDE DEF S
    <2>1. S \in SUBSET Nat
      BY DEF S
    <2>. QED  BY <1>1, <1>2, <2>1, Induction
  <1>4. n \in S
    BY <1>3
  <1>. QED  BY <1>4

\* The beginnings of 1..n, each one element longer than the one before.
LEMMA PrefixSteps ==
    ASSUME NEW n \in Nat, NEW k \in 1..n
    PROVE  /\ 1..k \in SUBSET (1..n) /\ 1..k # {} /\ Max(1..k) = k
           /\ (1..k) \ {k} = 1..(k - 1) /\ 1..(k - 1) \in SUBSET (1..n)
  <1>1. k - 1 \in Nat /\ (k - 1) + 1 = k
    OBVIOUS
  <1>2. k \in 1..k /\ 1..k \in SUBSET (1..n) /\ 1..(k - 1) \in SUBSET (1..n)
    OBVIOUS
  <1>3. Max(1..k) = k
    BY <1>1, <1>2, MaxOfPrefix
  <1>4. (1..k) \ {k} = 1..(k - 1)
    OBVIOUS
  <1>. QED  BY <1>2, <1>3, <1>4

\* The result of a fold, one element after the other.
FoldsBy(f, n, B, base, G) ==
    /\ f[{}] = base
    /\ \A s \in SUBSET (1..n) : s # {} /\ f[s \ {Max(s)}] \in B
          => f[s] = G[<<Max(s), f[s \ {Max(s)}]>>]

\* Its values on the beginnings of the sequence, the last of which is v.
FoldTrace(g, n, B, base, G, v) ==
    /\ g \in [0..n -> B] /\ g[0] = base /\ g[n] = v
    /\ \A k \in 1..n : k - 1 \in 0..n /\ g[k - 1] \in B /\ g[k] = G[<<k, g[k - 1]>>]

LEMMA FoldPrefixes ==
    ASSUME NEW n \in Nat, NEW B, NEW base \in B, NEW G \in [(1..n) \X B -> B], NEW f,
           FoldsBy(f, n, B, base, G)
    PROVE  \E g : FoldTrace(g, n, B, base, G, f[1..n])
  <1>1. ASSUME NEW k \in 1..n, f[1..(k - 1)] \in B
        PROVE  f[1..k] = G[<<k, f[1..(k - 1)]>>] /\ f[1..k] \in B
    <2>1. PICK s, t : s = 1..k /\ t = 1..(k - 1)
      OBVIOUS
    <2>2. s \in SUBSET (1..n) /\ s # {} /\ Max(s) = k /\ s \ {k} = t
      BY <2>1, PrefixSteps
    <2>3. f[s] = G[<<k, f[t]>>]
      BY <1>1, <2>1, <2>2 DEF FoldsBy
    <2>. QED  BY <1>1, <2>1, <2>3
  <1>2. \A k \in 0..n : f[1..k] \in B
    <2> DEFINE S == {k \in Nat : k <= n => f[1..k] \in B}
    <2>1. 0 \in S
      <3>1. 1..0 = {}
        OBVIOUS
      <3>. QED  BY <3>1 DEF FoldsBy
    <2>2. ASSUME NEW k \in Nat, k \in S
          PROVE  k + 1 \in S
      <3> SUFFICES ASSUME k + 1 <= n
                   PROVE  f[1..(k + 1)] \in B
        OBVIOUS
      <3>1. k + 1 \in 1..n /\ (k + 1) - 1 = k /\ f[1..k] \in B
        BY <2>2
      <3>. QED  BY <1>1, <3>1
    <2>3. S = Nat
      <3>. HIDE DEF S
      <3>1. S \in SUBSET Nat
        BY DEF S
      <3>. QED  BY <2>1, <2>2, <3>1, Induction
    <2>. QED  BY <2>3
  <1> DEFINE g == [k \in 0..n |-> f[1..k]]
  <1>3. g \in [0..n -> B] /\ g[n] = f[1..n]
    BY <1>2
  <1>4. g[0] = base
    <2>1. 1..0 = {}
      OBVIOUS
    <2>. QED  BY <2>1 DEF FoldsBy
  <1>5. ASSUME NEW k \in 1..n PROVE  k - 1 \in 0..n /\ g[k] = G[<<k, g[k - 1]>>]
    <2>1. k - 1 \in 0..n /\ k \in 0..n
      OBVIOUS
    <2>2. g[k] = f[1..k] /\ g[k - 1] = f[1..(k - 1)] /\ f[1..(k - 1)] \in B
      BY <1>2, <2>1
    <2>. HIDE DEF g
    <2>. QED  BY <1>1, <2>1, <2>2
  <1>. HIDE DEF g
  <1>. QED  BY <1>3, <1>4, <1>5 DEF FoldTrace

================================================================================
