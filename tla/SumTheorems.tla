---------------------------- MODULE SumTheorems ----------------------------
(***************************************************************************)
(* What the proofs need to know of sums over finite sets: the books of the *)
(* contracts and of the platform are sums of what was paid, refunded or    *)
(* consumed (MapThenSumSet of FiniteSetsExt).  A theorem about all         *)
(* operators cannot be cited, so these are about functions.                *)
(***************************************************************************)
EXTENDS Integers, FiniteSetsExt, FiniteSetTheorems, WellFoundedInduction, TLAPS

One(s) == CHOOSE x \in s : TRUE

\* The recursion that defines it: g is the sum of w over every subset of S.
SumsAre(w, g, S) ==
  g = [s \in SUBSET S |-> IF s = {} THEN 0 ELSE w[One(s)] + g[s \ {One(s)}]]

-----------------------------------------------------------------------------
(* Induction over the subsets of a finite set, for a set F of subsets.     *)

LEMMA SubsetInduction ==
  ASSUME NEW S, IsFiniteSet(S), NEW F,
         \A T \in SUBSET S : (\A U \in SUBSET T : U # T => U \in F) => T \in F
  PROVE  \A T \in SUBSET S : T \in F
<1>. DEFINE R == StrictSubsetOrdering(S)
            Bad == {T \in SUBSET S : T \notin F}
<1>1. IsWellFoundedOn(R, FiniteSubsetsOf(S)) /\ FiniteSubsetsOf(S) = SUBSET S
  BY FS_StrictSubsetOrderingWellFounded, FS_FiniteSubsetsOfFinite
<1>2. SUFFICES ASSUME Bad # {} PROVE FALSE
  OBVIOUS
<1>3. PICK T \in Bad : \A U \in Bad : ~ (<<U, T>> \in R)
  <2>1. Bad \subseteq SUBSET S
    OBVIOUS
  <2>. HIDE DEF Bad, R
  <2>. QED  BY <1>1, <1>2, <2>1, WFMin
<1>4. ASSUME NEW U \in SUBSET T, U # T
      PROVE  U \in F
  <2>1. <<U, T>> \in R
    BY <1>4 DEF StrictSubsetOrdering
  <2>. QED  BY <1>3, <2>1
<1>. QED  BY <1>3, <1>4

\* One element after another.
LEMMA ElementInduction ==
  ASSUME NEW S, IsFiniteSet(S), NEW F, {} \in F,
         \A T \in SUBSET S : \A x \in S \ T : T \in F => T \cup {x} \in F
  PROVE  S \in F
<1>1. ASSUME NEW T \in SUBSET S, \A U \in SUBSET T : U # T => U \in F
      PROVE  T \in F
  <2>1. CASE T = {}
    BY <2>1
  <2>2. CASE T # {}
    <3>1. PICK x \in T : TRUE
      BY <2>2
    <3>2. T \ {x} \in F /\ T \ {x} \in SUBSET S /\ x \in S \ (T \ {x}) /\ (T \ {x}) \cup {x} = T
      BY <1>1, <3>1
    <3>. QED  BY <3>2
  <2>. QED  BY <2>1, <2>2
<1>. QED  BY <1>1, SubsetInduction

-----------------------------------------------------------------------------
(* The recursion has one solution, and it is the sum.                      *)

LEMMA OneIsMember ==
  ASSUME NEW s, s # {}
  PROVE  One(s) \in s
BY DEF One

LEMMA SumsAreOne ==
  ASSUME NEW S, NEW T, NEW w, NEW v, NEW g, NEW h, SumsAre(w, g, S), SumsAre(v, h, T),
         NEW C, IsFiniteSet(C), C \subseteq S, C \subseteq T, \A x \in C : w[x] = v[x]
  PROVE  g[C] = h[C]
<1>. DEFINE F == {t \in SUBSET C : g[t] = h[t]}
<1>1. ASSUME NEW t \in SUBSET C, \A u \in SUBSET t : u # t => u \in F
      PROVE  g[t] = h[t]
  <2>1. CASE t = {}
    BY <2>1 DEF SumsAre
  <2>2. CASE t # {}
    <3>1. One(t) \in t
      BY <2>2, OneIsMember
    <3>2. g[t \ {One(t)}] = h[t \ {One(t)}]
      BY <1>1, <3>1
    <3>3. g[t] = w[One(t)] + g[t \ {One(t)}]
      BY <2>2 DEF SumsAre
    <3>4. h[t] = v[One(t)] + h[t \ {One(t)}]
      BY <2>2 DEF SumsAre
    <3>. QED  BY <3>1, <3>2, <3>3, <3>4
  <2>. QED  BY <2>1, <2>2
<1>2. \A t \in SUBSET C : t \in F
  <2>1. \A t \in SUBSET C : (\A u \in SUBSET t : u # t => u \in F) => t \in F
    BY <1>1
  <2>. HIDE DEF F
  <2>. QED  BY <2>1, SubsetInduction
<1>. QED  BY <1>2

LEMMA SumsExist ==
  ASSUME NEW S, IsFiniteSet(S), NEW w
  PROVE  \E g : SumsAre(w, g, S)
<1>. DEFINE F == {s \in SUBSET S : \E g : SumsAre(w, g, s)}
<1>1. ASSUME NEW s \in SUBSET S, \A u \in SUBSET s : u # s => u \in F
      PROVE  \E g : SumsAre(w, g, s)
  <2>. DEFINE G(u) == CHOOSE g : SumsAre(w, g, u)
              val(u) == G(u)[u]
              top == IF s = {} THEN 0 ELSE w[One(s)] + val(s \ {One(s)})
              g == [u \in SUBSET s |-> IF u = s THEN top ELSE val(u)]
  <2>1. ASSUME NEW u \in SUBSET s, u # s
        PROVE  SumsAre(w, G(u), u)
    BY <1>1, <2>1
  <2>2. ASSUME NEW u \in SUBSET s
        PROVE  g[u] = IF u = {} THEN 0 ELSE w[One(u)] + g[u \ {One(u)}]
    <3>1. CASE u = {}
      <4>1. CASE u = s
        BY <3>1, <4>1
      <4>2. CASE u # s
        <5>1. SumsAre(w, G(u), u)
          BY <2>1, <4>2
        <5>2. val(u) = 0
          BY <3>1, <5>1 DEF SumsAre
        <5>. QED  BY <3>1, <4>2, <5>2
      <4>. QED  BY <4>1, <4>2
    <3>2. CASE u # {}
      <4>. DEFINE t == u \ {One(u)}
      <4>1. One(u) \in u /\ t \in SUBSET s /\ t # s /\ t \in SUBSET u /\ t # u
        BY <3>2, OneIsMember
      <4>2. g[t] = val(t)
        BY <4>1
      <4>3. CASE u = s
        BY <3>2, <4>2, <4>3
      <4>4. CASE u # s
        <5>1. SumsAre(w, G(u), u) /\ SumsAre(w, G(t), t)
          BY <2>1, <4>1, <4>4
        <5>2. G(u)[u] = w[One(u)] + G(u)[t]
          BY <3>2, <5>1 DEF SumsAre
        <5>3. G(u)[t] = G(t)[t]
          <6>1. IsFiniteSet(t) /\ t \subseteq u /\ t \subseteq t
            BY <4>1, FS_Subset
          <6>. HIDE DEF G, t
          <6>. QED  BY <5>1, <6>1, SumsAreOne
        <5>. QED  BY <3>2, <4>2, <4>4, <5>2, <5>3
      <4>. QED  BY <4>3, <4>4
    <3>. QED  BY <3>1, <3>2
  <2>3. g = [u \in SUBSET s |-> g[u]]
    OBVIOUS
  <2>. HIDE DEF g
  <2>4. SumsAre(w, g, s)
    BY <2>2, <2>3 DEF SumsAre
  <2>. QED  BY <2>4
<1>2. \A s \in SUBSET S : s \in F
  <2>1. \A s \in SUBSET S : (\A u \in SUBSET s : u # s => u \in F) => s \in F
    BY <1>1
  <2>. HIDE DEF F
  <2>. QED  BY <2>1, SubsetInduction
<1>. QED  BY <1>2

\* Some solution of the recursion gives the sum.
LEMMA SumMeans ==
  ASSUME NEW S, IsFiniteSet(S), NEW w
  PROVE  \E g : SumsAre(w, g, S) /\ SumFunctionOnSet(w, S) = g[S]
<1>. DEFINE Rec(g) == g = [s \in SUBSET S |-> IF s = {} THEN 0
                            ELSE LET x == CHOOSE x \in s : TRUE IN w[x] + g[s \ {x}]]
            it == CHOOSE g : Rec(g)
<1>1. PICK g : SumsAre(w, g, S)
  BY SumsExist
<1>2. Rec(it)
  <2>1. Rec(g)
    BY <1>1 DEF SumsAre, One
  <2>. HIDE DEF Rec
  <2>. QED  BY <2>1, Zenon
<1>3. SumFunctionOnSet(w, S) = it[S]
  BY Zenon DEF SumFunctionOnSet, FoldFunctionOnSet, MapThenFoldSet
<1>4. SumsAre(w, it, S)
  <2>. HIDE DEF it
  <2>. QED  BY <1>2 DEF SumsAre, One
<1>. QED  BY <1>3, <1>4

-----------------------------------------------------------------------------
(* What is used of sums.                                                   *)

LEMMA SumOfNone == \A w : SumFunctionOnSet(w, {}) = 0
<1>1. ASSUME NEW w PROVE SumFunctionOnSet(w, {}) = 0
  <2>1. PICK g : SumsAre(w, g, {}) /\ SumFunctionOnSet(w, {}) = g[{}]
    BY SumMeans, FS_EmptySet
  <2>. QED  BY <2>1 DEF SumsAre
<1>. QED  BY <1>1

LEMMA SumAgrees ==
  ASSUME NEW S, IsFiniteSet(S), NEW w, NEW v, \A x \in S : w[x] = v[x]
  PROVE  SumFunctionOnSet(w, S) = SumFunctionOnSet(v, S)
<1>1. PICK g : SumsAre(w, g, S) /\ SumFunctionOnSet(w, S) = g[S]
  BY SumMeans
<1>2. PICK h : SumsAre(v, h, S) /\ SumFunctionOnSet(v, S) = h[S]
  BY SumMeans
<1>3. g[S] = h[S]
  BY <1>1, <1>2, SumsAreOne
<1>. QED  BY <1>1, <1>2, <1>3

LEMMA SumUnfolds ==
  ASSUME NEW S, IsFiniteSet(S), S # {}, NEW w
  PROVE  SumFunctionOnSet(w, S) = w[One(S)] + SumFunctionOnSet(w, S \ {One(S)})
<1>. DEFINE T == S \ {One(S)}
<1>1. PICK g : SumsAre(w, g, S) /\ SumFunctionOnSet(w, S) = g[S]
  BY SumMeans
<1>2. IsFiniteSet(T) /\ T \subseteq S /\ T \subseteq T
  BY FS_Subset
<1>3. PICK h : SumsAre(w, h, T) /\ SumFunctionOnSet(w, T) = h[T]
  BY <1>2, SumMeans
<1>4. g[S] = w[One(S)] + g[T]
  BY <1>1 DEF SumsAre
<1>5. g[T] = h[T]
  <2>. HIDE DEF T
  <2>. QED  BY <1>1, <1>2, <1>3, SumsAreOne
<1>. QED  BY <1>1, <1>3, <1>4, <1>5

\* A sum of naturals is one, and an element adds its own to it, whichever was last.
LEMMA SumIsNat ==
  ASSUME NEW S, IsFiniteSet(S), NEW w, \A x \in S : w[x] \in Nat
  PROVE  SumFunctionOnSet(w, S) \in Nat
<1>. DEFINE F == {s \in SUBSET S : SumFunctionOnSet(w, s) \in Nat}
<1>1. ASSUME NEW s \in SUBSET S, \A u \in SUBSET s : u # s => u \in F
      PROVE  SumFunctionOnSet(w, s) \in Nat
  <2>1. CASE s = {}
    BY <2>1, SumOfNone
  <2>2. CASE s # {}
    <3>1. One(s) \in s /\ IsFiniteSet(s)
      BY <2>2, OneIsMember, FS_Subset
    <3>2. s \ {One(s)} \in F
      BY <1>1, <3>1
    <3>3. w[One(s)] \in Nat /\ SumFunctionOnSet(w, s \ {One(s)}) \in Nat
      BY <3>1, <3>2
    <3>4. SumFunctionOnSet(w, s) = w[One(s)] + SumFunctionOnSet(w, s \ {One(s)})
      BY <2>2, <3>1, SumUnfolds
    <3>. QED  BY <3>3, <3>4
  <2>. QED  BY <2>1, <2>2
<1>2. \A s \in SUBSET S : s \in F
  <2>1. \A s \in SUBSET S : (\A u \in SUBSET s : u # s => u \in F) => s \in F
    BY <1>1
  <2>. HIDE DEF F
  <2>. QED  BY <2>1, SubsetInduction
<1>. QED  BY <1>2

LEMMA SumOfZeros ==
  ASSUME NEW S, IsFiniteSet(S), NEW w, \A x \in S : w[x] = 0
  PROVE  SumFunctionOnSet(w, S) = 0
<1>. DEFINE F == {s \in SUBSET S : SumFunctionOnSet(w, s) = 0}
<1>1. ASSUME NEW s \in SUBSET S, \A u \in SUBSET s : u # s => u \in F
      PROVE  SumFunctionOnSet(w, s) = 0
  <2>1. CASE s = {}
    BY <2>1, SumOfNone
  <2>2. CASE s # {}
    <3>1. One(s) \in s /\ IsFiniteSet(s)
      BY <2>2, OneIsMember, FS_Subset
    <3>2. s \ {One(s)} \in F
      BY <1>1, <3>1
    <3>3. w[One(s)] = 0 /\ SumFunctionOnSet(w, s \ {One(s)}) = 0
      BY <3>1, <3>2
    <3>4. SumFunctionOnSet(w, s) = w[One(s)] + SumFunctionOnSet(w, s \ {One(s)})
      BY <2>2, <3>1, SumUnfolds
    <3>. QED  BY <3>3, <3>4
  <2>. QED  BY <2>1, <2>2
<1>2. \A s \in SUBSET S : s \in F
  <2>1. \A s \in SUBSET S : (\A u \in SUBSET s : u # s => u \in F) => s \in F
    BY <1>1
  <2>. HIDE DEF F
  <2>. QED  BY <2>1, SubsetInduction
<1>. QED  BY <1>2

LEMMA SumWithAny ==
  ASSUME NEW S, IsFiniteSet(S), NEW w, \A y \in S : w[y] \in Nat
  PROVE  \A s \in SUBSET S : \A x \in S \ s :
           SumFunctionOnSet(w, s \cup {x}) = SumFunctionOnSet(w, s) + w[x]
<1>. DEFINE F == {s \in SUBSET S :
                    \A x \in S \ s :
                      SumFunctionOnSet(w, s \cup {x}) = SumFunctionOnSet(w, s) + w[x]}
<1>1. ASSUME NEW s \in SUBSET S, \A u \in SUBSET s : u # s => u \in F, NEW x \in S \ s
      PROVE  SumFunctionOnSet(w, s \cup {x}) = SumFunctionOnSet(w, s) + w[x]
  <2>1. PICK t, y : t = s \cup {x} /\ y = One(t)
    OBVIOUS
  <2>2. IsFiniteSet(s) /\ IsFiniteSet(t) /\ t # {} /\ y \in t
    BY <2>1, FS_Subset, FS_AddElement, OneIsMember
  <2>3. SumFunctionOnSet(w, t) = w[y] + SumFunctionOnSet(w, t \ {y})
    BY <2>1, <2>2, SumUnfolds
  <2>4. SumFunctionOnSet(w, s) \in Nat /\ w[x] \in Nat
    BY <2>2, SumIsNat
  <2>5. CASE y = x
    <3>1. t \ {y} = s
      BY <2>1, <2>5
    <3>2. SumFunctionOnSet(w, t) = w[x] + SumFunctionOnSet(w, s)
      BY <2>3, <2>5, <3>1, Zenon
    <3>3. SumFunctionOnSet(w, t) = SumFunctionOnSet(w, s) + w[x]
      BY <2>4, <3>2
    <3>. QED  BY <2>1, <3>3, Zenon
  <2>6. CASE y # x
    <3>1. PICK u : u = s \ {y}
      OBVIOUS
    <3>2. /\ y \in s /\ u \in SUBSET s /\ u # s /\ y \in S \ u /\ x \in S \ u
          /\ t \ {y} = u \cup {x} /\ u \cup {y} = s
      BY <2>1, <2>2, <2>6, <3>1
    <3>3. SumFunctionOnSet(w, u \cup {x}) = SumFunctionOnSet(w, u) + w[x]
      BY <1>1, <3>2
    <3>4. SumFunctionOnSet(w, s) = SumFunctionOnSet(w, u) + w[y]
      <4>1. SumFunctionOnSet(w, u \cup {y}) = SumFunctionOnSet(w, u) + w[y]
        BY <1>1, <3>2
      <4>. QED  BY <3>2, <4>1, Zenon
    <3>5. SumFunctionOnSet(w, u) \in Nat /\ w[y] \in Nat
      BY <2>2, <3>2, FS_Subset, SumIsNat
    <3>6. SumFunctionOnSet(w, t) = w[y] + SumFunctionOnSet(w, u \cup {x})
      BY <2>3, <3>2, Zenon
    <3>7. SumFunctionOnSet(w, t) = SumFunctionOnSet(w, s) + w[x]
      BY <2>4, <3>3, <3>4, <3>5, <3>6
    <3>. QED  BY <2>1, <3>7, Zenon
  <2>. QED  BY <2>5, <2>6
<1>2. \A s \in SUBSET S : s \in F
  <2>1. \A s \in SUBSET S : (\A u \in SUBSET s : u # s => u \in F) => s \in F
    BY <1>1
  <2>. HIDE DEF F
  <2>. QED  BY <2>1, SubsetInduction
<1>. QED  BY <1>2

LEMMA SumWithOne ==
  ASSUME NEW S, IsFiniteSet(S), NEW w, NEW x, x \notin S, \A y \in S \cup {x} : w[y] \in Nat
  PROVE  SumFunctionOnSet(w, S \cup {x}) = SumFunctionOnSet(w, S) + w[x]
<1>1. PICK T : T = S \cup {x}
  OBVIOUS
<1>2. IsFiniteSet(T) /\ S \in SUBSET T /\ x \in T \ S /\ \A y \in T : w[y] \in Nat
  BY <1>1, FS_AddElement
<1>. QED  BY <1>2, SumWithAny

\* The sum over a part is no larger.
LEMMA SumOfPart ==
  ASSUME NEW S, IsFiniteSet(S), NEW w, \A y \in S : w[y] \in Nat, NEW T \in SUBSET S
  PROVE  SumFunctionOnSet(w, T) <= SumFunctionOnSet(w, S)
<1>. DEFINE F == {s \in SUBSET (S \ T) : SumFunctionOnSet(w, T) <= SumFunctionOnSet(w, T \cup s)}
<1>1. {} \in F
  <2>1. T \cup {} = T /\ SumFunctionOnSet(w, T) \in Nat
    BY FS_Subset, SumIsNat
  <2>. QED  BY <2>1
<1>2. ASSUME NEW s \in SUBSET (S \ T), NEW x \in (S \ T) \ s, s \in F
      PROVE  s \cup {x} \in F
  <2>1. PICK u : u = T \cup s
    OBVIOUS
  <2>2. u \in SUBSET S /\ x \in S \ u /\ T \cup (s \cup {x}) = u \cup {x}
    BY <2>1
  <2>3. SumFunctionOnSet(w, u \cup {x}) = SumFunctionOnSet(w, u) + w[x]
    BY <2>2, SumWithAny
  <2>4. SumFunctionOnSet(w, T) \in Nat /\ SumFunctionOnSet(w, u) \in Nat /\ w[x] \in Nat
    BY <2>2, FS_Subset, SumIsNat
  <2>5. SumFunctionOnSet(w, T) <= SumFunctionOnSet(w, u)
    BY <1>2, <2>1
  <2>6. SumFunctionOnSet(w, T) <= SumFunctionOnSet(w, T \cup (s \cup {x}))
    <3>1. SumFunctionOnSet(w, T) <= SumFunctionOnSet(w, u \cup {x})
      BY <2>3, <2>4, <2>5
    <3>. QED  BY <2>2, <3>1, Zenon
  <2>. QED  BY <2>6
<1>3. S \ T \in F
  <2>1. IsFiniteSet(S \ T)
    BY FS_Subset
  <2>2. PICK D : D = S \ T
    OBVIOUS
  <2>. HIDE DEF F
  <2>. QED  BY <1>1, <1>2, <2>1, <2>2, ElementInduction
<1>4. T \cup (S \ T) = S
  OBVIOUS
<1>. QED  BY <1>3, <1>4

\* Changing w in one place changes the sum by as much.
LEMMA SumWithChange ==
  ASSUME NEW S, IsFiniteSet(S), NEW w, NEW v, NEW x \in S,
         \A y \in S : w[y] \in Nat /\ v[y] \in Nat, \A y \in S \ {x} : w[y] = v[y]
  PROVE  SumFunctionOnSet(v, S) + w[x] = SumFunctionOnSet(w, S) + v[x]
<1>1. PICK T : T = S \ {x}
  OBVIOUS
<1>2. IsFiniteSet(T) /\ T \in SUBSET S /\ x \in S \ T /\ T \cup {x} = S
  BY <1>1, FS_Subset
<1>3. /\ SumFunctionOnSet(w, S) = SumFunctionOnSet(w, T) + w[x]
      /\ SumFunctionOnSet(v, S) = SumFunctionOnSet(v, T) + v[x]
  BY <1>2, SumWithAny
<1>4. SumFunctionOnSet(w, T) = SumFunctionOnSet(v, T)
  BY <1>1, <1>2, SumAgrees
<1>5. /\ SumFunctionOnSet(w, T) \in Nat /\ SumFunctionOnSet(v, T) \in Nat
      /\ w[x] \in Nat /\ v[x] \in Nat
  BY <1>2, SumIsNat
<1>. QED  BY <1>3, <1>4, <1>5

\* The sum over two sets together is at most the sum of both.
LEMMA SumOfBoth ==
  ASSUME NEW S, IsFiniteSet(S), NEW w, \A y \in S : w[y] \in Nat,
         NEW A \in SUBSET S, NEW B \in SUBSET S
  PROVE  SumFunctionOnSet(w, A \cup B) <= SumFunctionOnSet(w, A) + SumFunctionOnSet(w, B)
<1>. DEFINE F == {s \in SUBSET B :
                    SumFunctionOnSet(w, A \cup s)
                      <= SumFunctionOnSet(w, A) + SumFunctionOnSet(w, s)}
<1>0. IsFiniteSet(A) /\ IsFiniteSet(B) /\ SumFunctionOnSet(w, A) \in Nat
  BY FS_Subset, SumIsNat
<1>1. {} \in F
  <2>1. A \cup {} = A /\ SumFunctionOnSet(w, {}) = 0
    BY SumOfNone
  <2>. QED  BY <1>0, <2>1
<1>2. ASSUME NEW s \in SUBSET B, NEW x \in B \ s, s \in F
      PROVE  s \cup {x} \in F
  <2>1. PICK u : u = A \cup s
    OBVIOUS
  <2>2. u \in SUBSET S /\ s \in SUBSET S /\ A \cup (s \cup {x}) = u \cup {x}
        /\ x \in S \ s /\ w[x] \in Nat
    BY <2>1
  <2>3. SumFunctionOnSet(w, s \cup {x}) = SumFunctionOnSet(w, s) + w[x]
    BY <2>2, SumWithAny
  <2>4. SumFunctionOnSet(w, s) \in Nat /\ SumFunctionOnSet(w, u) \in Nat
    BY <2>2, FS_Subset, SumIsNat
  <2>5. SumFunctionOnSet(w, u) <= SumFunctionOnSet(w, A) + SumFunctionOnSet(w, s)
    BY <1>2, <2>1
  <2>6. SumFunctionOnSet(w, u \cup {x}) <= SumFunctionOnSet(w, u) + w[x]
    <3>1. CASE x \in u
      <4>1. u \cup {x} = u
        BY <3>1
      <4>. QED  BY <2>2, <2>4, <4>1
    <3>2. CASE x \notin u
      <4>1. SumFunctionOnSet(w, u \cup {x}) = SumFunctionOnSet(w, u) + w[x]
        BY <2>2, <3>2, SumWithAny
      <4>. QED  BY <2>2, <2>4, <4>1
    <3>. QED  BY <3>1, <3>2
  <2>7. SumFunctionOnSet(w, u \cup {x}) \in Nat
    <3>1. u \cup {x} \in SUBSET S
      BY <2>2
    <3>. QED  BY <3>1, FS_Subset, SumIsNat
  <2>8. SumFunctionOnSet(w, A \cup (s \cup {x}))
          <= SumFunctionOnSet(w, A) + SumFunctionOnSet(w, s \cup {x})
    <3>1. SumFunctionOnSet(w, u \cup {x})
            <= SumFunctionOnSet(w, A) + SumFunctionOnSet(w, s \cup {x})
      BY <1>0, <2>2, <2>3, <2>4, <2>5, <2>6, <2>7
    <3>. QED  BY <2>2, <3>1, Zenon
  <2>. QED  BY <2>8
<1>3. B \in F
  <2>. HIDE DEF F
  <2>. QED  BY <1>0, <1>1, <1>2, ElementInduction
<1>. QED  BY <1>3
============================================================================
