---------------------------- MODULE CommonProofs ----------------------------
(***************************************************************************)
(* What the proofs of several components rest on: induction over numbers   *)
(* and finite sets, by way of a least counterexample; sums of functions;   *)
(* and what the operations of a history map do to the values it could be   *)
(* rolled back to.                                                         *)
(***************************************************************************)
EXTENDS HistoryMap, Functions, FiniteSets, WellFoundedInduction, TLAPS

-----------------------------------------------------------------------------
(* Induction. *)

\* A non-empty set of naturals has a least element.
LEMMA LeastElement ==
    ASSUME NEW S \in SUBSET Nat, S # {}
    PROVE  \E i \in S : \A j \in S : i <= j
<1>1. IsWellFoundedOn(OpToRel(<, Nat), Nat)
  BY NatLessThanWellFounded
<1>2. PICK i \in S : \A j \in S : ~ (<<j, i>> \in OpToRel(<, Nat))
  BY <1>1, WFMin
<1>3. \A j \in S : ~ (j < i)
  BY <1>2 DEF OpToRel
<1> QED
  BY <1>3

\* A function on 0 .. N defined by recursion: its value at 0, and how the value at
\* n follows from the one at n - 1.
Steps(N, V) == [1 .. N -> [V -> V]]
Repeats(N, V, step, v, g) ==
    /\ g \in [0 .. N -> V]
    /\ g[0] = v
    /\ \A n \in 1 .. N : g[n] = step[n][g[n - 1]]

LEMMA RecursionUnique ==
    ASSUME NEW N \in Nat, NEW V, NEW step \in Steps(N, V), NEW v, NEW g,
           Repeats(N, V, step, v, g), NEW h, h[0] = v,
           \A n \in 1 .. N : h[n - 1] \in V => h[n] = step[n][h[n - 1]]
    PROVE  \A n \in 0 .. N : h[n] = g[n]
<1> USE DEF Repeats, Steps
<1> DEFINE B == {n \in 0 .. N : g[n] # h[n]}
<1> SUFFICES ASSUME B # {} PROVE FALSE
  OBVIOUS
<1>1. B \in SUBSET Nat
  OBVIOUS
<1>2. PICK b \in B : \A c \in B : b <= c
  <2> HIDE DEF B
  <2> QED  BY <1>1, LeastElement
<1>3. b \in 1 .. N /\ b - 1 \in 0 .. N
  BY <1>2
<1>4. g[b - 1] = h[b - 1]
  BY <1>2, <1>3
<1>5. g[b - 1] \in V
  BY <1>3
<1> QED  BY <1>2, <1>3, <1>4, <1>5

LEMMA RecursionExists ==
    ASSUME NEW N \in Nat, NEW V, NEW step \in Steps(N, V), NEW v \in V
    PROVE  \E g : Repeats(N, V, step, v, g)
<1> USE DEF Steps
<1> DEFINE Upto(k, g) == Repeats(k, V, step, v, g)
           B == {k \in 0 .. N : ~ \E g : Upto(k, g)}
<1> SUFFICES ASSUME B # {} PROVE FALSE
  <2> SUFFICES ASSUME B = {}
               PROVE  \E g : Repeats(N, V, step, v, g)
    OBVIOUS
  <2>1. N \in 0 .. N
    OBVIOUS
  <2> QED  BY <2>1
<1>1. B \in SUBSET Nat
  OBVIOUS
<1>2. PICK b \in B : \A c \in B : b <= c
  <2> HIDE DEF B
  <2> QED  BY <1>1, LeastElement
<1>3. CASE b = 0
  <2> DEFINE g == [n \in {0} |-> v]
  <2>0. 0 .. 0 = {0} /\ 1 .. 0 = {}
    OBVIOUS
  <2>1. g \in [{0} -> V] /\ g[0] = v
    OBVIOUS
  <2> HIDE DEF g
  <2>2. Upto(0, g)
    BY <2>0, <2>1 DEF Repeats
  <2> HIDE DEF Upto
  <2> QED  BY <1>2, <1>3, <2>2
<1>4. CASE b # 0
  <2>0. B \in SUBSET (0 .. N)
    OBVIOUS
  <2>1. b \in 1 .. N /\ b - 1 \in 0 .. N /\ b - 1 \notin B
    <3> HIDE DEF B
    <3> QED  BY <1>2, <1>4, <2>0
  <2>2. PICK g : Upto(b - 1, g)
    BY <2>1
  <2> DEFINE h == [n \in 0 .. b |-> IF n = b THEN step[b][g[b - 1]] ELSE g[n]]
  <2>3. g[b - 1] \in V /\ step[b][g[b - 1]] \in V
    BY <2>1, <2>2 DEF Repeats
  <2>4. h \in [0 .. b -> V] /\ h[0] = v
    BY <2>1, <2>2, <2>3 DEF Repeats
  <2>5. ASSUME NEW n \in 1 .. b
        PROVE  h[n] = step[n][h[n - 1]]
    BY <2>1, <2>2 DEF Repeats
  <2>6. Upto(b, h)
    BY <2>4, <2>5 DEF Repeats
  <2> HIDE DEF Upto, h
  <2> QED  BY <1>2, <2>6
<1> QED  BY <1>3, <1>4

\* Among the subsets of a finite set, every non-empty family has a minimal member:
\* by induction on the length of a sequence that lists the set.
LEMMA MinimalSubset ==
    ASSUME NEW S, IsFiniteSet(S), NEW B \in SUBSET SUBSET S, B # {}
    PROVE  \E b \in B : \A c \in B : c \subseteq b => c = b
<1>1. PICK seq \in Seq(S) : \A s \in S : \E n \in 1 .. Len(seq) : seq[n] = s
  BY DEF IsFiniteSet
<1> DEFINE Upto(n) == {seq[i] : i \in 1 .. n}
           Minimal(F, b) == \A c \in F : c \subseteq b => c = b
           Bad == {n \in 0 .. Len(seq) : \E F \in SUBSET SUBSET Upto(n) :
                                           F # {} /\ \A b \in F : ~ Minimal(F, b)}
<1>2. Bad = {}
  <2> SUFFICES ASSUME Bad # {} PROVE FALSE
    OBVIOUS
  <2>1. PICK n \in Bad : \A m \in Bad : n <= m
    <3>1. Bad \in SUBSET Nat
      OBVIOUS
    <3> HIDE DEF Bad
    <3> QED  BY <3>1, LeastElement
  <2>2. PICK F \in SUBSET SUBSET Upto(n) : F # {} /\ \A b \in F : ~ Minimal(F, b)
    BY <2>1
  <2>3. n \in 0 .. Len(seq)
    OBVIOUS
  <2>4. ASSUME NEW m \in 0 .. Len(seq), m < n, NEW G \in SUBSET SUBSET Upto(m), G # {}
        PROVE  \E b \in G : Minimal(G, b)
    <3>1. m \notin Bad
      <4> HIDE DEF Bad
      <4> QED  BY <2>1, <2>3, <2>4
    <3> QED  BY <2>4, <3>1
  <2> HIDE DEF Bad
  <2>5. CASE n = 0
    <3>1. Upto(n) = {}
      BY <2>5
    <3>2. \A b \in F : b = {}
      BY <3>1, Zenon
    <3>3. \A b \in F : Minimal(F, b)
      BY <3>2, Zenon
    <3> QED  BY <2>2, <3>3, Zenon
  <2>6. CASE n # 0
    <3> DEFINE x == seq[n]
    <3>1. n - 1 \in 0 .. Len(seq) /\ n - 1 < n
      BY <2>3, <2>6
    <3>2. \A i \in 1 .. n : i = n \/ i \in 1 .. n - 1
      BY <2>3
    <3>3. Upto(n) \subseteq Upto(n - 1) \cup {x}
      BY <3>2
    <3> HIDE DEF Upto, x
    <3>4. CASE \A b \in F : x \in b
      <4> DEFINE G == {b \ {x} : b \in F}
      <4>1. \A b \in F : b \ {x} \subseteq Upto(n - 1)
        BY <3>3
      <4>2. G \in SUBSET SUBSET Upto(n - 1) /\ G # {}
        <5>1. \A g \in G : g \subseteq Upto(n - 1)
          BY <4>1
        <5>2. \A b \in F : b \ {x} \in G
          OBVIOUS
        <5> HIDE DEF G
        <5> QED  BY <2>2, <5>1, <5>2, Zenon
      <4>3. PICK c \in G : Minimal(G, c)
        <5> HIDE DEF G, Minimal
        <5> QED  BY <2>4, <3>1, <4>2
      <4>4. PICK b \in F : c = b \ {x}
        BY <4>3
      <4>5. ASSUME NEW d \in F, d \subseteq b
            PROVE  d = b
        <5>1. d \ {x} \in G /\ d \ {x} \subseteq c
          BY <4>4, <4>5
        <5>2. d \ {x} = c
          <6> HIDE DEF G
          <6> QED  BY <4>3, <5>1
        <5>3. d = (d \ {x}) \cup {x} /\ b = (b \ {x}) \cup {x}
          BY <3>4
        <5> QED  BY <4>4, <5>2, <5>3, Zenon
      <4> QED  BY <2>2, <4>5, Zenon
    <3>5. CASE ~ \A b \in F : x \in b
      <4> DEFINE G == {b \in F : x \notin b}
      <4>1. G \in SUBSET SUBSET Upto(n - 1) /\ G # {}
        BY <3>3, <3>5
      <4>2. PICK c \in G : Minimal(G, c)
        <5> HIDE DEF G, Minimal
        <5> QED  BY <2>4, <3>1, <4>1
      <4> QED  BY <2>2, <4>2, Zenon
    <3> QED  BY <3>4, <3>5
  <2> QED  BY <2>5, <2>6
<1>3. S \subseteq Upto(Len(seq)) /\ Len(seq) \in 0 .. Len(seq)
  BY <1>1
<1> QED  BY <1>2, <1>3, Zenon

Pick(s) == CHOOSE x \in s : TRUE

Adds(f, T, g) ==
    /\ g = [s \in SUBSET T |-> g[s]]
    /\ \A s \in SUBSET T :
         /\ g[s] \in Int
         /\ g[s] = IF s = {} THEN 0 ELSE f[Pick(s)] + g[s \ {Pick(s)}]

LEMMA AddsUnique ==
    ASSUME NEW S, IsFiniteSet(S), NEW f \in [S -> Int],
           NEW T \in SUBSET S, NEW U \in SUBSET S, NEW g, NEW h,
           Adds(f, T, g), Adds(f, U, h)
    PROVE  \A s \in SUBSET (T \cap U) : g[s] = h[s]
<1> DEFINE B == {s \in SUBSET (T \cap U) : g[s] # h[s]}
<1> SUFFICES ASSUME B # {} PROVE FALSE
  OBVIOUS
<1>1. PICK b \in B : \A c \in B : c \subseteq b => c = b
  <2>1. B \in SUBSET SUBSET S
    OBVIOUS
  <2> HIDE DEF B
  <2> QED  BY <2>1, MinimalSubset
<1>2. b # {}
  BY <1>1 DEF Adds
<1>3. Pick(b) \in b
  BY <1>2 DEF Pick
<1>4. g[b \ {Pick(b)}] = h[b \ {Pick(b)}]
  <2>1. b \ {Pick(b)} \in SUBSET (T \cap U) /\ b \ {Pick(b)} # b /\ b \ {Pick(b)} \subseteq b
    BY <1>1, <1>3
  <2> QED  BY <2>1, <1>1
<1>5. g[b] = f[Pick(b)] + g[b \ {Pick(b)}] /\ h[b] = f[Pick(b)] + h[b \ {Pick(b)}]
  BY <1>1, <1>2 DEF Adds
<1> QED  BY <1>1, <1>4, <1>5

LEMMA AddsExists ==
    ASSUME NEW S, IsFiniteSet(S), NEW f \in [S -> Int]
    PROVE  \A T \in SUBSET S : \E g : Adds(f, T, g)
<1> DEFINE B == {T \in SUBSET S : ~ \E g : Adds(f, T, g)}
<1> SUFFICES ASSUME B # {} PROVE FALSE
  OBVIOUS
<1>1. PICK b \in B : \A c \in B : c \subseteq b => c = b
  <2>1. B \in SUBSET SUBSET S
    OBVIOUS
  <2> HIDE DEF B
  <2> QED  BY <2>1, MinimalSubset
<1> DEFINE G(T) == CHOOSE g : Adds(f, T, g)
<1>2. ASSUME NEW T \in SUBSET b, T # b
      PROVE  Adds(f, T, G(T))
  BY <1>1, <1>2
<1> DEFINE p == Pick(b)
           h == [s \in SUBSET b |->
                   IF s # b THEN G(s)[s]
                   ELSE IF b = {} THEN 0 ELSE f[p] + G(b \ {p})[b \ {p}]]
<1>3. b \in SUBSET S
  BY <1>1
<1> HIDE DEF G, B
<1>4. ASSUME NEW s \in SUBSET b, s # b
      PROVE  /\ h[s] \in Int
             /\ h[s] = IF s = {} THEN 0 ELSE f[Pick(s)] + h[s \ {Pick(s)}]
  <2>1. Adds(f, s, G(s)) /\ h[s] = G(s)[s]
    BY <1>2, <1>4
  <2>2. h[s] \in Int
    BY <2>1 DEF Adds
  <2>3. CASE s = {}
    BY <2>1, <2>2, <2>3 DEF Adds
  <2>4. CASE s # {}
    <3> DEFINE t == s \ {Pick(s)}
    <3>1. Pick(s) \in s
      BY <2>4 DEF Pick
    <3>2. t \in SUBSET b /\ t # b /\ t \in SUBSET s
      BY <3>1, <1>4
    <3>3. Adds(f, t, G(t)) /\ h[t] = G(t)[t]
      BY <3>2, <1>2
    <3>4. G(s)[t] = G(t)[t]
      <4>1. s \in SUBSET S /\ t \in SUBSET S /\ t \in SUBSET (s \cap t)
        BY <1>3, <3>2
      <4> HIDE DEF t, h
      <4> QED  BY <4>1, <3>3, <2>1, AddsUnique
    <3>5. G(s)[s] = f[Pick(s)] + G(s)[t]
      BY <2>1, <2>4 DEF Adds
    <3> HIDE DEF h
    <3> QED  BY <2>1, <2>2, <2>4, <3>3, <3>4, <3>5
  <2> QED  BY <2>3, <2>4
<1>5. /\ h[b] \in Int
      /\ h[b] = IF b = {} THEN 0 ELSE f[p] + h[b \ {p}]
  <2>1. CASE b = {}
    BY <2>1
  <2>2. CASE b # {}
    <3>1. p \in b
      BY <2>2 DEF Pick
    <3>2. b \ {p} \in SUBSET b /\ b \ {p} # b
      BY <3>1
    <3>3. h[b \ {p}] \in Int /\ h[b \ {p}] = G(b \ {p})[b \ {p}]
      BY <3>2, <1>4
    <3>4. h[b] = f[p] + G(b \ {p})[b \ {p}]
      BY <2>2
    <3>5. f[p] \in Int
      BY <3>1, <1>3
    <3> HIDE DEF h
    <3> QED  BY <2>2, <3>3, <3>4, <3>5
  <2> QED  BY <2>1, <2>2
<1>6. Adds(f, b, h)
  <2>1. h = [s \in SUBSET b |-> h[s]]
    OBVIOUS
  <2>2. ASSUME NEW s \in SUBSET b
        PROVE  /\ h[s] \in Int
               /\ h[s] = IF s = {} THEN 0 ELSE f[Pick(s)] + h[s \ {Pick(s)}]
    <3> HIDE DEF h
    <3> QED  BY <1>4, <1>5
  <2> HIDE DEF h
  <2> QED  BY <2>1, <2>2 DEF Adds
<1> QED  BY <1>1, <1>6 DEF B

Iter(f, S) ==
    CHOOSE g : g = [s \in SUBSET S |->
                      IF s = {} THEN 0
                      ELSE f[CHOOSE x \in s : TRUE] + g[s \ {CHOOSE x \in s : TRUE}]]

LEMMA SumUnfolds ==
    ASSUME NEW f, NEW S
    PROVE  SumFunctionOnSet(f, S) = Iter(f, S)[S]
BY DEF SumFunctionOnSet, FoldFunctionOnSet, MapThenFoldSet, Iter

LEMMA IterAdds ==
    ASSUME NEW S, IsFiniteSet(S), NEW f \in [S -> Int]
    PROVE  Adds(f, S, Iter(f, S))
<1>1. PICK g : Adds(f, S, g)
  BY AddsExists
<1>2. g = [s \in SUBSET S |->
             IF s = {} THEN 0
             ELSE f[CHOOSE x \in s : TRUE] + g[s \ {CHOOSE x \in s : TRUE}]]
  BY <1>1 DEF Adds, Pick
<1> DEFINE it == Iter(f, S)
<1>3. it = [s \in SUBSET S |->
             IF s = {} THEN 0
             ELSE f[CHOOSE x \in s : TRUE] + it[s \ {CHOOSE x \in s : TRUE}]]
  BY <1>2 DEF Iter
<1> HIDE DEF it
<1> DEFINE B == {s \in SUBSET S : it[s] \notin Int}
<1>4. B = {}
  <2> SUFFICES ASSUME B # {} PROVE FALSE
    OBVIOUS
  <2>1. PICK b \in B : \A c \in B : c \subseteq b => c = b
    <3>1. B \in SUBSET SUBSET S
      OBVIOUS
    <3> HIDE DEF B
    <3> QED  BY <3>1, MinimalSubset
  <2>2. b # {}
    BY <2>1, <1>3
  <2>3. Pick(b) \in b
    BY <2>2 DEF Pick
  <2>4. it[b] = f[Pick(b)] + it[b \ {Pick(b)}]
    BY <2>1, <2>2, <1>3 DEF Pick
  <2>5. b \ {Pick(b)} \in SUBSET S /\ b \ {Pick(b)} # b /\ b \ {Pick(b)} \subseteq b
    BY <2>1, <2>3
  <2>6. it[b \ {Pick(b)}] \in Int
    BY <2>5, <2>1
  <2>7. f[Pick(b)] \in Int
    BY <2>1, <2>3
  <2> QED  BY <2>1, <2>4, <2>6, <2>7
<1>5. \A s \in SUBSET S : it[s] = IF s = {} THEN 0 ELSE f[Pick(s)] + it[s \ {Pick(s)}]
  BY <1>3 DEF Pick
<1>6. it = [s \in SUBSET S |-> it[s]]
  BY <1>3
<1>7. Adds(f, S, it)
  BY <1>4, <1>5, <1>6 DEF Adds
<1> QED  BY <1>7 DEF it

LEMMA AnyOrder ==
    ASSUME NEW S, IsFiniteSet(S), NEW f \in [S -> Int], NEW g, Adds(f, S, g)
    PROVE  \A s \in SUBSET S : \A x \in s : g[s] = f[x] + g[s \ {x}]
<1> DEFINE B == {s \in SUBSET S : \E x \in s : g[s] # f[x] + g[s \ {x}]}
<1> SUFFICES ASSUME B # {} PROVE FALSE
  OBVIOUS
<1>1. PICK b \in B : \A c \in B : c \subseteq b => c = b
  <2>1. B \in SUBSET SUBSET S
    OBVIOUS
  <2> HIDE DEF B
  <2> QED  BY <2>1, MinimalSubset
<1>2. PICK x \in b : g[b] # f[x] + g[b \ {x}]
  BY <1>1
<1> DEFINE p == Pick(b)
<1>3. p \in b /\ g[b] = f[p] + g[b \ {p}]
  BY <1>1, <1>2 DEF Adds, Pick
<1>4. p # x
  BY <1>2, <1>3
<1>5. g[b \ {p}] = f[x] + g[(b \ {p}) \ {x}]
  <2>1. b \ {p} \in SUBSET S /\ b \ {p} # b /\ b \ {p} \subseteq b /\ x \in b \ {p}
    BY <1>1, <1>2, <1>3, <1>4
  <2> QED  BY <2>1, <1>1
<1>6. g[b \ {x}] = f[p] + g[(b \ {x}) \ {p}]
  <2>1. b \ {x} \in SUBSET S /\ b \ {x} # b /\ b \ {x} \subseteq b /\ p \in b \ {x}
    BY <1>1, <1>2, <1>3, <1>4
  <2> QED  BY <2>1, <1>1
<1>7. (b \ {p}) \ {x} = (b \ {x}) \ {p} /\ (b \ {p}) \ {x} \in SUBSET S
  BY <1>1
<1>8. g[(b \ {p}) \ {x}] \in Int /\ f[p] \in Int /\ f[x] \in Int
  BY <1>7, <1>1, <1>2, <1>3 DEF Adds
<1>9. g[b] = f[p] + (f[x] + g[(b \ {p}) \ {x}])
  BY <1>3, <1>5
<1>10. f[x] + g[b \ {x}] = f[x] + (f[p] + g[(b \ {p}) \ {x}])
  BY <1>6, <1>7
<1> HIDE DEF p
<1> QED  BY <1>2, <1>8, <1>9, <1>10

LEMMA AddsAgree ==
    ASSUME NEW S, IsFiniteSet(S), NEW f \in [S -> Int], NEW e \in [S -> Int],
           NEW g, NEW h, Adds(f, S, g), Adds(e, S, h),
           NEW T \in SUBSET S, \A x \in T : f[x] = e[x]
    PROVE  g[T] = h[T]
<1> DEFINE B == {s \in SUBSET T : g[s] # h[s]}
<1> SUFFICES ASSUME B # {} PROVE FALSE
  OBVIOUS
<1>1. PICK b \in B : \A c \in B : c \subseteq b => c = b
  <2>1. B \in SUBSET SUBSET S
    OBVIOUS
  <2> HIDE DEF B
  <2> QED  BY <2>1, MinimalSubset
<1>2. b # {} /\ b \in SUBSET S
  BY <1>1 DEF Adds
<1>3. Pick(b) \in b
  BY <1>2 DEF Pick
<1>4. g[b \ {Pick(b)}] = h[b \ {Pick(b)}]
  <2>1. b \ {Pick(b)} \in SUBSET T /\ b \ {Pick(b)} # b /\ b \ {Pick(b)} \subseteq b
    BY <1>1, <1>3
  <2> QED  BY <2>1, <1>1
<1>5. g[b] = f[Pick(b)] + g[b \ {Pick(b)}] /\ h[b] = e[Pick(b)] + h[b \ {Pick(b)}]
  BY <1>2 DEF Adds
<1>6. f[Pick(b)] = e[Pick(b)]
  BY <1>1, <1>3
<1> QED  BY <1>1, <1>4, <1>5, <1>6

LEMMA SumUpdate ==
    ASSUME NEW S, IsFiniteSet(S), NEW f \in [S -> Int], NEW x \in S, NEW v \in Int
    PROVE  /\ SumFunction(f) \in Int
           /\ SumFunction([f EXCEPT ![x] = v]) = SumFunction(f) - f[x] + v
<1> DEFINE e == [f EXCEPT ![x] = v]
           g == Iter(f, S)
           h == Iter(e, S)
           R == S \ {x}
<1>1. e \in [S -> Int] /\ e[x] = v /\ \A y \in R : f[y] = e[y]
  OBVIOUS
<1>2. SumFunction(f) = g[S] /\ SumFunction(e) = h[S]
  <2>1. DOMAIN f = S /\ DOMAIN e = S
    OBVIOUS
  <2>2. SumFunction(f) = SumFunctionOnSet(f, S) /\ SumFunction(e) = SumFunctionOnSet(e, S)
    <3> HIDE DEF e
    <3> QED  BY <2>1 DEF SumFunction, SumFunctionOnSet, FoldFunction
  <2> QED  BY <2>2, SumUnfolds
<1> HIDE DEF e
<1>3. Adds(f, S, g) /\ Adds(e, S, h)
  BY <1>1, IterAdds
<1> HIDE DEF g, h
<1>4. g[S] = f[x] + g[R] /\ h[S] = e[x] + h[R]
  BY <1>1, <1>3, AnyOrder
<1>5. g[R] = h[R]
  BY <1>1, <1>3, AddsAgree
<1>6. g[S] \in Int /\ g[R] \in Int /\ f[x] \in Int
  BY <1>3 DEF Adds
<1>7. SumFunction(e) = SumFunction(f) - f[x] + v
  BY <1>1, <1>2, <1>4, <1>5, <1>6
<1> QED  BY <1>2, <1>6, <1>7 DEF e

LEMMA SumNat ==
    ASSUME NEW S, IsFiniteSet(S), NEW f \in [S -> Nat]
    PROVE  SumFunction(f) \in Nat
<1> DEFINE g == Iter(f, S)
           B == {s \in SUBSET S : g[s] \notin Nat}
<1>1. f \in [S -> Int] /\ DOMAIN f = S
  OBVIOUS
<1>2. Adds(f, S, g)
  BY <1>1, IterAdds
<1>3. SumFunction(f) = g[S]
  BY <1>1, SumUnfolds DEF SumFunction, SumFunctionOnSet, FoldFunction
<1> HIDE DEF g
<1>4. B = {}
  <2> SUFFICES ASSUME B # {} PROVE FALSE
    OBVIOUS
  <2>1. PICK b \in B : \A c \in B : c \subseteq b => c = b
    <3>1. B \in SUBSET SUBSET S
      OBVIOUS
    <3> HIDE DEF B
    <3> QED  BY <3>1, MinimalSubset
  <2>2. b # {} /\ b \in SUBSET S
    <3>1. b \in SUBSET S /\ g[b] \notin Nat
      BY <2>1
    <3>2. g[{}] = 0
      BY <1>2 DEF Adds
    <3> QED  BY <3>1, <3>2
  <2>3. Pick(b) \in b
    BY <2>2 DEF Pick
  <2>4. g[b] = f[Pick(b)] + g[b \ {Pick(b)}]
    BY <2>2, <1>2 DEF Adds
  <2>5. b \ {Pick(b)} \in SUBSET S /\ b \ {Pick(b)} # b /\ b \ {Pick(b)} \subseteq b
    BY <2>2, <2>3
  <2>6. g[b \ {Pick(b)}] \in Nat
    BY <2>5, <2>1
  <2>7. f[Pick(b)] \in Nat
    BY <2>2, <2>3
  <2> QED  BY <2>1, <2>4, <2>6, <2>7
<1> QED  BY <1>3, <1>4

-----------------------------------------------------------------------------
(* Sequences. *)

\* What Append adds, and what it leaves.
LEMMA Appended ==
    ASSUME NEW S, NEW seq \in Seq(S), NEW elt \in S
    PROVE  /\ Append(seq, elt) \in Seq(S)
           /\ Append(seq, elt) # << >>
           /\ Len(Append(seq, elt)) = Len(seq) + 1
           /\ \A i \in 1 .. Len(seq) : Append(seq, elt)[i] = seq[i]
           /\ Append(seq, elt)[Len(seq) + 1] = elt
OBVIOUS

\* Sequences of one length with the same elements are equal.
LEMMA SameElements ==
    ASSUME NEW S, NEW s \in Seq(S), NEW t \in Seq(S),
           Len(s) = Len(t), \A i \in 1 .. Len(s) : s[i] = t[i]
    PROVE  s = t
OBVIOUS

-----------------------------------------------------------------------------
(* History maps. *)

\* The value a map is rolled back to at a key that changed is the old value of
\* the first change.
LEMMA ValueAtFirst ==
    ASSUME NEW h, NEW height, NEW k, NEW i \in ChangesSince(h, height, k),
           ChangesSince(h, height, k) \subseteq Nat,
           \A j \in ChangesSince(h, height, k) : i <= j
    PROVE  ValueAt(h, height, k) = h.history[i].old
<1> DEFINE changes == ChangesSince(h, height, k)
           first == CHOOSE n \in changes : \A j \in changes : n <= j
<1>1. first \in changes /\ \A j \in changes : first <= j
  OBVIOUS
<1>2. first = i
  BY <1>1
<1> QED
  BY <1>2 DEF ValueAt

\* A history map is a function of its two fields.
LEMMA HistoryMapFields ==
    ASSUME NEW Keys, NEW Values, NEW h \in HistoryMaps(Keys, Values)
    PROVE  /\ h.map \in [Keys -> Values \cup {Vacant}]
           /\ DOMAIN h.map = Keys
           /\ h.history \in Seq(Changes(Keys, Values))
           /\ Len(h.history) \in Nat
BY DEF HistoryMaps

\* Rolling back to the present changes nothing.
LEMMA ValueNow ==
    ASSUME NEW Keys, NEW Values, NEW h \in HistoryMaps(Keys, Values), NEW k \in Keys
    PROVE  ValueAt(h, Len(h.history), k) = h.map[k]
<1>0. /\ h.map \in [Keys -> Values \cup {Vacant}]
      /\ DOMAIN h.map = Keys
      /\ h.history \in Seq(Changes(Keys, Values))
      /\ Len(h.history) \in Nat
  BY HistoryMapFields
<1> USE <1>0
<1>1. ChangesSince(h, Len(h.history), k) = {}
  BY DEF ChangesSince
<1> QED
  BY <1>1 DEF ValueAt

\* A value that can be rolled back to is a value of the map.
LEMMA ValueAtType ==
    ASSUME NEW Keys, NEW Values, NEW h \in HistoryMaps(Keys, Values), NEW k \in Keys,
           NEW height \in Nat
    PROVE  ValueAt(h, height, k) \in Values \cup {Vacant}
<1>0. /\ h.map \in [Keys -> Values \cup {Vacant}]
      /\ DOMAIN h.map = Keys
      /\ h.history \in Seq(Changes(Keys, Values))
      /\ Len(h.history) \in Nat
  BY HistoryMapFields
<1> USE <1>0
<1> DEFINE changes == ChangesSince(h, height, k)
<1>1. changes \in SUBSET (1 .. Len(h.history))
  BY DEF ChangesSince
<1>2. CASE changes = {}
  BY <1>2 DEF ValueAt
<1>3. CASE changes # {}
  <2>1. PICK i \in changes : \A j \in changes : i <= j
    BY <1>1, <1>3, LeastElement
  <2>2. ValueAt(h, height, k) = h.history[i].old
    BY <1>1, <2>1, ValueAtFirst
  <2>3. h.history[i] \in Changes(Keys, Values)
    BY <1>1
  <2> QED
    BY <2>2, <2>3 DEF Changes
<1> QED
  BY <1>2, <1>3

\* insert puts the value at its key, and whatever the map could be rolled back to
\* before, it is still rolled back to (HistoryMap::insert).
LEMMA InsertKeepsPast ==
    ASSUME NEW Keys, NEW Values, NEW h \in HistoryMaps(Keys, Values),
           NEW k \in Keys, NEW v \in Values
    PROVE  LET g == Insert(h, k, v)
           IN  /\ g \in HistoryMaps(Keys, Values)
               /\ g.map = [h.map EXCEPT ![k] = v]
               /\ Len(g.history) >= Len(h.history)
               /\ \A height \in 0 .. Len(h.history), x \in Keys :
                     ValueAt(g, height, x) = ValueAt(h, height, x)
<1> DEFINE g == Insert(h, k, v)
           n == Len(h.history)
           change == [key |-> k, old |-> h.map[k]]
<1>0. /\ h.map \in [Keys -> Values \cup {Vacant}]
      /\ DOMAIN h.map = Keys
      /\ h.history \in Seq(Changes(Keys, Values))
      /\ Len(h.history) \in Nat
  BY HistoryMapFields
<1> USE <1>0
<1>1. CASE h.map[k] = v
  <2>1. g = h
    BY <1>1 DEF Insert
  <2>2. h.map = [h.map EXCEPT ![k] = v]
    BY <1>1
  <2> QED
    BY <2>1, <2>2
<1>2. CASE h.map[k] # v
  <2>1. g = [map |-> [h.map EXCEPT ![k] = v], history |-> Append(h.history, change)]
    BY <1>2 DEF Insert
  <2>2. change \in Changes(Keys, Values)
    BY DEF Changes
  <2>3. /\ g.history \in Seq(Changes(Keys, Values))
        /\ Len(g.history) = n + 1
        /\ \A i \in 1 .. n : g.history[i] = h.history[i]
        /\ g.history[n + 1] = change
    BY <2>1, <2>2, Appended
  <2>4. g \in HistoryMaps(Keys, Values) /\ g.map = [h.map EXCEPT ![k] = v]
    BY <2>1, <2>3 DEF HistoryMaps
  <2> HIDE DEF g, change
  <2>5. ASSUME NEW height \in 0 .. n, NEW x \in Keys
        PROVE  ValueAt(g, height, x) = ValueAt(h, height, x)
    <3> DEFINE before == ChangesSince(h, height, x)
               after == ChangesSince(g, height, x)
    <3>1. after = IF x = k THEN before \cup {n + 1} ELSE before
      BY <2>3 DEF ChangesSince, change
    <3>2. before \in SUBSET (1 .. n)
      BY DEF ChangesSince
    <3>3. CASE before = {}
      <4>1. ValueAt(h, height, x) = h.map[x]
        BY <3>3 DEF ValueAt
      <4>2. CASE x = k
        <5>1. after = {n + 1}
          BY <3>1, <3>3, <4>2
        <5>2. ValueAt(g, height, x) = g.history[n + 1].old
          <6>1. n + 1 \in after /\ after \subseteq Nat /\ \A j \in after : n + 1 <= j
            BY <5>1
          <6> QED
            BY <6>1, ValueAtFirst
        <5> QED
          BY <2>3, <4>1, <4>2, <5>2 DEF change
      <4>3. CASE x # k
        <5>1. ValueAt(g, height, x) = g.map[x]
          BY <3>1, <3>3, <4>3 DEF ValueAt
        <5> QED
          BY <2>4, <4>1, <4>3, <5>1
      <4> QED
        BY <4>2, <4>3
    <3>4. CASE before # {}
      <4>1. PICK i \in before : \A j \in before : i <= j
        BY <3>2, <3>4, LeastElement
      <4>2. ValueAt(h, height, x) = h.history[i].old
        BY <3>2, <4>1, ValueAtFirst
      <4>3. i \in after /\ (\A j \in after : i <= j) /\ after \subseteq Nat
        BY <3>1, <3>2, <4>1
      <4>4. ValueAt(g, height, x) = g.history[i].old
        BY <4>3, ValueAtFirst
      <4> QED
        BY <2>3, <3>2, <4>2, <4>4
    <3> QED
      BY <3>3, <3>4
  <2> QED
    BY <2>3, <2>4, <2>5 DEF g
<1> QED
  BY <1>1, <1>2

\* rollback brings back the values of its height, and keeps what the map could be
\* rolled back to at any lower height (HistoryMap::rollback).
LEMMA RollbackKeepsPast ==
    ASSUME NEW Keys, NEW Values, NEW h \in HistoryMaps(Keys, Values),
           NEW top \in 0 .. Len(h.history)
    PROVE  LET g == Rollback(h, top)
           IN  /\ g \in HistoryMaps(Keys, Values)
               /\ g.map = [k \in Keys |-> ValueAt(h, top, k)]
               /\ Len(g.history) = top
               /\ \A height \in 0 .. top, k \in Keys :
                     ValueAt(g, height, k) = ValueAt(h, height, k)
<1> DEFINE g == Rollback(h, top)
           n == Len(h.history)
<1>0. /\ h.map \in [Keys -> Values \cup {Vacant}]
      /\ DOMAIN h.map = Keys
      /\ h.history \in Seq(Changes(Keys, Values))
      /\ Len(h.history) \in Nat
  BY HistoryMapFields
<1> USE <1>0
<1>1. CASE n <= top
  <2>1. g = h /\ top = n
    BY <1>1 DEF Rollback
  <2>2. h.map = [k \in Keys |-> ValueAt(h, top, k)]
    BY <2>1, ValueNow
  <2> QED
    BY <2>1, <2>2
<1>2. CASE top < n
  <2>1. g = [map     |-> [k \in Keys |-> ValueAt(h, top, k)],
             history |-> SubSeq(h.history, 1, top)]
    BY <1>2 DEF Rollback
  <2>2. \A i \in 1 .. top : h.history[i] \in Changes(Keys, Values)
    BY <1>2
  <2>3. /\ g.history \in Seq(Changes(Keys, Values))
        /\ Len(g.history) = top
        /\ \A i \in 1 .. top : g.history[i] = h.history[i]
    BY <2>1, <2>2
  <2>4. g.map \in [Keys -> Values \cup {Vacant}]
    BY <2>1, ValueAtType
  <2>5. g \in HistoryMaps(Keys, Values)
    BY <2>1, <2>3, <2>4 DEF HistoryMaps
  <2> HIDE DEF g
  <2>6. ASSUME NEW height \in 0 .. top, NEW k \in Keys
        PROVE  ValueAt(g, height, k) = ValueAt(h, height, k)
    <3> DEFINE all == ChangesSince(h, height, k)
               kept == ChangesSince(g, height, k)
               undone == ChangesSince(h, top, k)
    <3>1. kept = {i \in all : i <= top} /\ undone = {i \in all : i > top}
      BY <1>2, <2>3 DEF ChangesSince
    <3>2. all \in SUBSET (1 .. n)
      BY DEF ChangesSince
    <3>3. CASE kept = {}
      <4>1. all = undone
        BY <3>1, <3>2, <3>3
      <4>2. ValueAt(g, height, k) = ValueAt(h, top, k)
        BY <2>1, <3>3 DEF ValueAt
      <4>3. ValueAt(h, top, k) = ValueAt(h, height, k)
        BY <4>1 DEF ValueAt
      <4> QED
        BY <4>2, <4>3
    <3>4. CASE kept # {}
      <4>1. PICK i \in kept : \A j \in kept : i <= j
        BY <3>1, <3>2, <3>4, LeastElement
      <4>2. ValueAt(g, height, k) = g.history[i].old
        BY <3>1, <3>2, <4>1, ValueAtFirst
      <4>3. i \in all /\ \A j \in all : i <= j
        BY <3>1, <3>2, <4>1
      <4>4. ValueAt(h, height, k) = h.history[i].old
        BY <3>2, <4>3, ValueAtFirst
      <4> QED
        BY <2>3, <3>1, <3>2, <4>2, <4>4
    <3> QED
      BY <3>3, <3>4
  <2> QED
    <3>1. g.map = [k \in Keys |-> ValueAt(h, top, k)]
      BY <2>1
    <3> QED
      BY <2>3, <2>5, <2>6, <3>1 DEF g
<1> QED
  BY <1>1, <1>2

\* The value at a key one change earlier.
LEMMA ValueAtStep ==
    ASSUME NEW Keys, NEW Values, NEW h \in HistoryMaps(Keys, Values), NEW k \in Keys,
           NEW n \in Nat, n < Len(h.history)
    PROVE  ValueAt(h, n, k) = IF h.history[n + 1].key = k THEN h.history[n + 1].old
                              ELSE ValueAt(h, n + 1, k)
<1> DEFINE changes == ChangesSince(h, n, k)
<1>1. Len(h.history) \in Nat
  BY HistoryMapFields
<1>2. CASE h.history[n + 1].key = k
  <2>1. n + 1 \in changes /\ changes \subseteq Nat /\ \A j \in changes : n + 1 <= j
    BY <1>1, <1>2 DEF ChangesSince
  <2> QED
    BY <1>2, <2>1, ValueAtFirst
<1>3. CASE h.history[n + 1].key # k
  <2>1. ChangesSince(h, n, k) = ChangesSince(h, n + 1, k)
    BY <1>1, <1>3 DEF ChangesSince
  <2> QED
    BY <1>3, <2>1 DEF ValueAt
<1> QED
  BY <1>2, <1>3

\* Undoing the changes one by one, from the newest to the oldest, restores at each
\* key what its oldest undone change replaced (the loop of HistoryMap::rollback).
LEMMA RollbackLoops ==
    ASSUME NEW Keys, NEW Values, NEW h \in HistoryMaps(Keys, Values), NEW height \in Nat
    PROVE  Rollback(h, height) = RollbackLoop(h, height)
<1> DEFINE L == Len(h.history)
           undone(f, n) == IF n = L THEN h.map
                           ELSE [f[n + 1] EXCEPT ![h.history[n + 1].key] = h.history[n + 1].old]
           loop(f) == f = [n \in 0 .. L |-> undone(f, n)]
           undo == CHOOSE f : loop(f)
           past == [n \in 0 .. L |-> [k \in Keys |-> ValueAt(h, n, k)]]
<1>1. /\ h.map \in [Keys -> Values \cup {Vacant}] /\ DOMAIN h.map = Keys /\ L \in Nat
      /\ h.history \in Seq(Changes(Keys, Values))
  BY HistoryMapFields
<1>2. \A n \in 0 .. L : past[n] = [k \in Keys |-> ValueAt(h, n, k)]
  OBVIOUS
<1>3. past[L] = h.map
  <2>1. past[L] = [k \in Keys |-> ValueAt(h, L, k)]
    BY <1>1
  <2>2. \A k \in Keys : ValueAt(h, L, k) = h.map[k]
    BY ValueNow
  <2> QED
    BY <1>1, <2>1, <2>2
<1>4. ASSUME NEW n \in 0 .. L, n # L
      PROVE  past[n] = [past[n + 1] EXCEPT ![h.history[n + 1].key] = h.history[n + 1].old]
  <2>1. n \in Nat /\ n < L /\ n + 1 \in 0 .. L
    BY <1>1, <1>4
  <2>2. \A k \in Keys : ValueAt(h, n, k) = IF h.history[n + 1].key = k THEN h.history[n + 1].old
                                           ELSE ValueAt(h, n + 1, k)
    BY <2>1, ValueAtStep
  <2>3. /\ past[n] = [k \in Keys |-> ValueAt(h, n, k)]
        /\ past[n + 1] = [k \in Keys |-> ValueAt(h, n + 1, k)]
    BY <1>2, <2>1
  <2> HIDE DEF past, L
  <2> QED
    BY <2>2, <2>3
<1>5. past = [n \in 0 .. L |-> past[n]]
  OBVIOUS
<1> HIDE DEF past
<1>6. loop(past)
  <2>1. \A n \in 0 .. L : past[n] = undone(past, n)
    BY <1>3, <1>4
  <2> HIDE DEF undone
  <2> QED
    BY <1>5, <2>1
<1>7. loop(undo)
  <2> HIDE DEF loop
  <2> QED
    BY <1>6
<1>8. \A n \in 0 .. L : undo[n] = undone(undo, n)
  <2> HIDE DEF undone, undo
  <2> QED
    BY <1>7
<1> HIDE DEF undo
<1>9. \A n \in 0 .. L : undo[n] = past[n]
  <2> DEFINE B == {d \in 0 .. L : undo[L - d] # past[L - d]}
  <2>1. B \in SUBSET Nat
    BY <1>1
  <2>2. B = {}
    <3> SUFFICES ASSUME B # {} PROVE FALSE
      OBVIOUS
    <3>1. PICK b \in B : \A c \in B : b <= c
      <4> HIDE DEF B
      <4> QED  BY <2>1, LeastElement
    <3>2. b \in 0 .. L /\ undo[L - b] # past[L - b]
      BY <3>1
    <3>3. CASE b = 0
      <4>1. L - b = L /\ L \in 0 .. L
        BY <1>1, <3>3
      <4>2. undo[L] = h.map
        BY <1>8, <4>1
      <4> QED  BY <1>3, <3>2, <4>1, <4>2
    <3>4. CASE b # 0
      <4> DEFINE n == L - b
      <4>1. n \in 0 .. L /\ n # L /\ b - 1 \in 0 .. L /\ ~ (b <= b - 1) /\ L - (b - 1) = n + 1
        BY <1>1, <3>2, <3>4
      <4>2. undo[n + 1] = past[n + 1]
        BY <3>1, <4>1
      <4>3. undo[n] = [undo[n + 1] EXCEPT ![h.history[n + 1].key] = h.history[n + 1].old]
        BY <1>8, <4>1
      <4>4. past[n] = [past[n + 1] EXCEPT ![h.history[n + 1].key] = h.history[n + 1].old]
        BY <1>4, <4>1
      <4> QED  BY <3>2, <4>2, <4>3, <4>4
    <3> QED  BY <3>3, <3>4
  <2>3. ASSUME NEW n \in 0 .. L PROVE undo[n] = past[n]
    <3>1. L - n \in 0 .. L /\ L - (L - n) = n
      BY <1>1
    <3> QED  BY <2>2, <3>1
  <2> QED  BY <2>3
<1>10. RollbackLoop(h, height)
         = IF L <= height THEN h ELSE [map |-> undo[height], history |-> SubSeq(h.history, 1, height)]
  BY DEF RollbackLoop, undo
<1>11. CASE L <= height
  BY <1>10, <1>11 DEF Rollback
<1>12. CASE ~ (L <= height)
  <2>1. height \in 0 .. L
    BY <1>1, <1>12
  <2>2. undo[height] = [k \in Keys |-> ValueAt(h, height, k)]
    BY <1>2, <1>9, <2>1 DEF past
  <2>3. Rollback(h, height) = [map |-> [k \in Keys |-> ValueAt(h, height, k)],
                              history |-> SubSeq(h.history, 1, height)]
    BY <1>1, <1>12 DEF Rollback
  <2>4. RollbackLoop(h, height) = [map |-> undo[height], history |-> SubSeq(h.history, 1, height)]
    BY <1>10, <1>12
  <2> QED
    BY <2>2, <2>3, <2>4
<1> QED
  BY <1>11, <1>12
=============================================================================
