----------------------------- MODULE ListProofs -----------------------------
(***************************************************************************)
(* What two operators on sequences give, for the models built from them.   *)
(*                                                                         *)
(* FoldLeft, for any step: the first element is taken first, and what each *)
(* step keeps holds of the result.  A module that folds with an operator   *)
(* of its own instantiates Step by it.                                     *)
(*                                                                         *)
(* Count, when an element is added or removed: the accounts of DoorSystem  *)
(* and the reports of FgLink are kept with it, and with no Step.           *)
(***************************************************************************)
EXTENDS Counting, Naturals, Sequences, SequencesExt, SequenceTheorems, FiniteSetTheorems,
        WellFoundedInduction, TLAPS

CONSTANT Step(_, _)              \* the operator folded

(* What holds of 0, and of each number up to limit after the one before.   *)
LEMMA CountUp ==
    ASSUME NEW limit \in Nat, NEW S, 0 \in S,
           \A n \in 1 .. limit : n - 1 \in S => n \in S
    PROVE  \A n \in 0 .. limit : n \in S
<1> DEFINE Bad == {n \in 0 .. limit : n \notin S}
<1>1. SUFFICES ASSUME Bad # {} PROVE FALSE
  OBVIOUS
<1>2. Bad \subseteq Nat
  OBVIOUS
<1>3. PICK low \in Bad : \A m \in Bad : ~ (<<m, low>> \in OpToRel(<, Nat))
  <2> HIDE DEF Bad
  <2> QED BY <1>1, <1>2, WFMin, NatLessThanWellFounded
<1>4. low \in 1 .. limit /\ low - 1 \in Nat /\ low - 1 < low /\ low - 1 \notin S
  OBVIOUS
<1>5. low - 1 \in Bad
  BY <1>4
<1>6. <<low - 1, low>> \in OpToRel(<, Nat)
  BY <1>4 DEF OpToRel
<1> QED BY <1>3, <1>5, <1>6

(* The fold of the first elements, by the set of their indices. *)
Taken(g, base, seq, S) ==
    g = [s \in SUBSET S |-> IF s = {} THEN base ELSE Step(g[s \ {Max(s)}], seq[Max(s)])]
Runs(f, base, seq) ==
    f[0] = base /\ \A n \in 1 .. Len(seq) : f[n] = Step(f[n - 1], seq[n])

LEMMA LastIsMax ==
    ASSUME NEW n \in Nat, NEW s, s \subseteq 1 .. n + 1, n + 1 \in s
    PROVE  Max(s) = n + 1
<1>1. \A y \in s : n + 1 >= y
  OBVIOUS
<1>2. \A x \in s : (\A y \in s : x >= y) => x = n + 1
  OBVIOUS
<1> QED BY <1>1, <1>2 DEF Max

LEMMA TakenExists ==
    ASSUME NEW seq, NEW base, NEW limit \in Nat
    PROVE  \E g : Taken(g, base, seq, 1 .. limit)
<1> DEFINE P == {n \in 0 .. limit : \E g : Taken(g, base, seq, 1 .. n)}
<1>1. 0 \in P
  <2>1. 1 .. 0 = {}
    OBVIOUS
  <2>2. Taken([s \in SUBSET {} |-> base], base, seq, {})
    BY DEF Taken
  <2> QED BY <2>1, <2>2
<1>2. ASSUME NEW m \in 1 .. limit, m - 1 \in P PROVE m \in P
  <2> DEFINE n == m - 1
  <2>1. n \in Nat /\ m = n + 1 /\ 1 .. m = (1 .. n) \cup {m} /\ m \notin 1 .. n
    OBVIOUS
  <2>2. PICK g : Taken(g, base, seq, 1 .. n)
    BY <1>2
  <2> DEFINE h == [s \in SUBSET (1 .. m) |-> IF m \in s THEN Step(g[s \ {m}], seq[m]) ELSE g[s]]
  <2> HIDE DEF n
  <2>3. \A s \in SUBSET (1 .. n) : g[s] = IF s = {} THEN base ELSE Step(g[s \ {Max(s)}], seq[Max(s)])
    BY <2>2 DEF Taken
  <2>4. ASSUME NEW s \in SUBSET (1 .. m)
        PROVE  h[s] = IF s = {} THEN base ELSE Step(h[s \ {Max(s)}], seq[Max(s)])
    <3>1. CASE m \in s
      <4>1. Max(s) = m
        BY <2>1, <3>1, LastIsMax
      <4>2. s \ {m} \in SUBSET (1 .. m) /\ m \notin s \ {m}
        OBVIOUS
      <4>3. h[s] = Step(g[s \ {m}], seq[m]) /\ h[s \ {m}] = g[s \ {m}]
        BY <3>1, <4>2
      <4> QED BY <3>1, <4>1, <4>3
    <3>2. CASE m \notin s
      <4>1. s \in SUBSET (1 .. n) /\ s \ {Max(s)} \in SUBSET (1 .. n)
        BY <2>1, <3>2
      <4>2. h[s] = g[s] /\ h[s \ {Max(s)}] = g[s \ {Max(s)}]
        BY <2>1, <3>2, <4>1
      <4> QED BY <2>3, <4>1, <4>2
    <3> QED BY <3>1, <3>2
  <2>5. Taken(h, base, seq, 1 .. m)
    BY <2>4 DEF Taken
  <2> QED BY <2>5
<1>3. \A n \in 1 .. limit : n - 1 \in P => n \in P
  BY <1>2
<1>4. \A n \in P : \E g : Taken(g, base, seq, 1 .. n)
  OBVIOUS
<1> HIDE DEF P
<1>5. limit \in P
  BY <1>1, <1>3, CountUp
<1> QED BY <1>4, <1>5

(* The fold goes through the states of a run. *)
THEOREM Folded ==
    ASSUME NEW X, NEW seq \in Seq(X), NEW base
    PROVE  \E f : Runs(f, base, seq) /\ FoldLeft(Step, base, seq) = f[Len(seq)]
<1> DEFINE N == Len(seq)
           Iter(g) == g = [s \in SUBSET DOMAIN seq |->
                             IF s = {} THEN base ELSE Step(g[s \ {Max(s)}], seq[Max(s)])]
           iter == CHOOSE g : Iter(g)
           f == [n \in 0 .. N |-> iter[1 .. n]]
<1>1. N \in Nat /\ DOMAIN seq = 1 .. N
  OBVIOUS
<1>2. \E g : Iter(g)
  <2>1. PICK g : Taken(g, base, seq, 1 .. N)
    BY <1>1, TakenExists
  <2> QED BY <1>1, <2>1 DEF Taken
<1>3. Iter(iter)
  <2> HIDE DEF Iter
  <2> QED BY <1>2
<1>4. FoldLeft(Step, base, seq) = iter[DOMAIN seq]
  BY DEF FoldLeft, MapThenFoldSet
<1> HIDE DEF N, iter
<1>5. iter = [s \in SUBSET (1 .. N) |-> IF s = {} THEN base ELSE Step(iter[s \ {Max(s)}], seq[Max(s)])]
  BY <1>1, <1>3
<1> HIDE DEF Iter
<1>6. f[0] = base
  <2>1. 1 .. 0 = {} /\ {} \in SUBSET (1 .. N) /\ 0 \in 0 .. N
    BY <1>1
  <2>2. iter[{}] = base
    BY <1>5, <2>1
  <2> QED BY <2>1, <2>2
<1>7. ASSUME NEW n \in 1 .. N PROVE f[n] = Step(f[n - 1], seq[n])
  <2> DEFINE m == n - 1
  <2>1. m \in Nat /\ m + 1 = n /\ n \in 0 .. N /\ m \in 0 .. N
    BY <1>1
  <2> HIDE DEF f
  <2>2. 1 .. n \in SUBSET (1 .. N) /\ n \in 1 .. n /\ 1 .. n # {}
    BY <1>1
  <2>3. (1 .. n) \ {n} = 1 .. m
    BY <1>1
  <2> HIDE DEF m
  <2>4. Max(1 .. n) = n
    BY <2>1, <2>2, LastIsMax
  <2>5. iter[1 .. n] = Step(iter[1 .. m], seq[n])
    BY <1>5, <2>2, <2>3, <2>4
  <2>6. f[n] = iter[1 .. n] /\ f[m] = iter[1 .. m]
    BY <2>1 DEF f
  <2> QED BY <2>5, <2>6 DEF m
<1> HIDE DEF f
<1>8. Runs(f, base, seq)
  BY <1>6, <1>7 DEF Runs, N
<1>9. f[N] = iter[1 .. N]
  BY <1>1 DEF f
<1>10. FoldLeft(Step, base, seq) = f[N]
  BY <1>1, <1>4, <1>9 DEF FoldLeft, MapThenFoldSet
<1> QED BY <1>8, <1>10 DEF N, FoldLeft, MapThenFoldSet

(* What each step keeps, step by step, holds of the result. *)
THEOREM Kept ==
    ASSUME NEW X, NEW seq \in Seq(X), NEW base, NEW A, base \in A[0],
           \A n \in 1 .. Len(seq) : \A a \in A[n - 1] : Step(a, seq[n]) \in A[n]
    PROVE  FoldLeft(Step, base, seq) \in A[Len(seq)]
<1> DEFINE N == Len(seq)
<1>1. N \in Nat
  OBVIOUS
<1>2. PICK f : Runs(f, base, seq) /\ FoldLeft(Step, base, seq) = f[N]
  BY Folded
<1> DEFINE S == {n \in 0 .. N : f[n] \in A[n]}
<1> HIDE DEF N
<1>3. 0 \in S
  BY <1>1, <1>2 DEF Runs
<1>4. ASSUME NEW n \in 1 .. N, n - 1 \in S PROVE n \in S
  <2>1. f[n] = Step(f[n - 1], seq[n])
    BY <1>2 DEF Runs, N
  <2>2. f[n - 1] \in A[n - 1]
    BY <1>4
  <2> QED BY <2>1, <2>2 DEF N
<1>5. \A n \in 0 .. N : n \in S
  <2> HIDE DEF S
  <2> QED BY <1>1, <1>3, <1>4, CountUp
<1>6. f[N] \in A[N]
  BY <1>1, <1>5
<1> QED BY <1>2, <1>6 DEF N, FoldLeft, MapThenFoldSet

(* What every step keeps holds of the result. *)
THEOREM KeptIn ==
    ASSUME NEW X, NEW seq \in Seq(X), NEW base, NEW A, base \in A,
           \A a \in A : \A x \in X : Step(a, x) \in A
    PROVE  FoldLeft(Step, base, seq) \in A
<1> DEFINE N == Len(seq)
           B == [n \in 0 .. N |-> A]
<1>1. N \in Nat /\ \A n \in 1 .. N : seq[n] \in X
  OBVIOUS
<1> HIDE DEF N
<1>2. base \in B[0] /\ B[N] = A /\ \A n \in 1 .. N : B[n - 1] = A /\ B[n] = A
  BY <1>1
<1> HIDE DEF B
<1>3. \A n \in 1 .. N : \A a \in B[n - 1] : Step(a, seq[n]) \in B[n]
  BY <1>1, <1>2
<1>4. FoldLeft(Step, base, seq) \in B[N]
  BY <1>2, <1>3, Kept DEF N
<1> QED BY <1>2, <1>4 DEF FoldLeft, MapThenFoldSet

(* A fold of no elements gives the base ... *)
THEOREM FoldedNone ==
    ASSUME NEW base
    PROVE  FoldLeft(Step, base, <<>>) = base
<1>1. <<>> \in Seq({}) /\ Len(<<>>) = 0
  OBVIOUS
<1>2. PICK f : Runs(f, base, <<>>) /\ FoldLeft(Step, base, <<>>) = f[0]
  BY <1>1, Folded
<1> QED BY <1>2 DEF Runs, FoldLeft, MapThenFoldSet

(* ... and of one more element takes one more step. *)
THEOREM FoldedAppend ==
    ASSUME NEW X, NEW seq \in Seq(X), NEW base, NEW x \in X, NEW more, more = Append(seq, x)
    PROVE  FoldLeft(Step, base, more) = Step(FoldLeft(Step, base, seq), x)
<1> DEFINE N == Len(seq)
<1>1. /\ N \in Nat /\ more \in Seq(X) /\ Len(more) = N + 1 /\ more[N + 1] = x
      /\ \A n \in 1 .. N : more[n] = seq[n]
  OBVIOUS
<1>2. PICK f : Runs(f, base, seq) /\ FoldLeft(Step, base, seq) = f[N]
  BY Folded
<1>3. PICK g : Runs(g, base, more) /\ FoldLeft(Step, base, more) = g[Len(more)]
  BY <1>1, Folded
<1> DEFINE S == {n \in 0 .. N : f[n] = g[n]}
<1>4. \A n \in 1 .. N : f[n] = Step(f[n - 1], seq[n])
  BY <1>2 DEF Runs
<1>5. \A n \in 1 .. N + 1 : g[n] = Step(g[n - 1], more[n])
  BY <1>1, <1>3 DEF Runs
<1>6. f[0] = base /\ g[0] = base
  BY <1>2, <1>3 DEF Runs
<1> HIDE DEF N
<1>7. 0 \in S
  BY <1>1, <1>6
<1>8. ASSUME NEW n \in 1 .. N, n - 1 \in S PROVE n \in S
  <2>1. n \in 1 .. N + 1 /\ more[n] = seq[n]
    BY <1>1
  <2>2. f[n - 1] = g[n - 1]
    BY <1>8
  <2>3. g[n] = Step(g[n - 1], seq[n])
    BY <1>5, <2>1
  <2>4. f[n] = g[n]
    BY <1>4, <2>2, <2>3
  <2> QED BY <1>1, <2>4
<1>9. \A n \in 0 .. N : n \in S
  <2> HIDE DEF S
  <2> QED BY <1>1, <1>7, <1>8, CountUp
<1>10. f[N] = g[N]
  BY <1>1, <1>9
<1>11. N + 1 \in 1 .. N + 1 /\ (N + 1) - 1 = N
  BY <1>1
<1>12. g[N + 1] = Step(g[N], x)
  BY <1>1, <1>5, <1>11
<1> QED BY <1>1, <1>2, <1>3, <1>10, <1>12 DEF N, FoldLeft, MapThenFoldSet

(* The same for a step made a number of times with the same element ... *)
THEOREM KeptTimes ==
    ASSUME NEW N \in Nat, NEW x, NEW base, NEW A, base \in A[0],
           \A n \in 1 .. N : \A a \in A[n - 1] : Step(a, x) \in A[n]
    PROVE  FoldLeft(Step, base, [n \in 1 .. N |-> x]) \in A[N]
<1> DEFINE seq == [n \in 1 .. N |-> x]
<1>1. seq \in Seq({x}) /\ Len(seq) = N /\ \A n \in 1 .. N : seq[n] = x
  OBVIOUS
<1> HIDE DEF seq
<1>2. FoldLeft(Step, base, seq) \in A[Len(seq)]
  BY <1>1, Kept
<1> QED BY <1>1, <1>2 DEF seq, FoldLeft, MapThenFoldSet

(* ... or with the number of the step. *)
THEOREM KeptCounting ==
    ASSUME NEW N \in Nat, NEW base, NEW A, base \in A[0],
           \A n \in 1 .. N : \A a \in A[n - 1] : Step(a, n) \in A[n]
    PROVE  FoldLeft(Step, base, [n \in 1 .. N |-> n]) \in A[N]
<1> DEFINE seq == [n \in 1 .. N |-> n]
<1>1. seq \in Seq(Nat) /\ Len(seq) = N /\ \A n \in 1 .. N : seq[n] = n
  OBVIOUS
<1> HIDE DEF seq
<1>2. FoldLeft(Step, base, seq) \in A[Len(seq)]
  BY <1>1, Kept
<1> QED BY <1>1, <1>2 DEF seq, FoldLeft, MapThenFoldSet

(* What every step keeps, for steps with the same element ... *)
THEOREM AlwaysTimes ==
    ASSUME NEW N \in Nat, NEW x, NEW base, NEW A, base \in A, \A a \in A : Step(a, x) \in A
    PROVE  FoldLeft(Step, base, [n \in 1 .. N |-> x]) \in A
<1> DEFINE B == [n \in 0 .. N |-> A]
<1>1. base \in B[0] /\ B[N] = A /\ \A n \in 1 .. N : B[n - 1] = A /\ B[n] = A
  OBVIOUS
<1> HIDE DEF B
<1>2. \A n \in 1 .. N : \A a \in B[n - 1] : Step(a, x) \in B[n]
  BY <1>1
<1>3. FoldLeft(Step, base, [n \in 1 .. N |-> x]) \in B[N]
  BY <1>1, <1>2, KeptTimes
<1> QED BY <1>1, <1>3 DEF FoldLeft, MapThenFoldSet

(* ... or with their numbers. *)
THEOREM AlwaysCounting ==
    ASSUME NEW N \in Nat, NEW base, NEW A, base \in A, \A n \in 1 .. N : \A a \in A : Step(a, n) \in A
    PROVE  FoldLeft(Step, base, [n \in 1 .. N |-> n]) \in A
<1> DEFINE B == [n \in 0 .. N |-> A]
<1>1. base \in B[0] /\ B[N] = A /\ \A n \in 1 .. N : B[n - 1] = A /\ B[n] = A
  OBVIOUS
<1> HIDE DEF B
<1>2. \A n \in 1 .. N : \A a \in B[n - 1] : Step(a, n) \in B[n]
  BY <1>1
<1>3. FoldLeft(Step, base, [n \in 1 .. N |-> n]) \in B[N]
  BY <1>1, <1>2, KeptCounting
<1> QED BY <1>1, <1>3 DEF FoldLeft, MapThenFoldSet

-----------------------------------------------------------------------------
(* The elements of a sequence that are in S can be counted. *)
LEMMA CountFinite ==
    ASSUME NEW X, NEW s \in Seq(X), NEW S
    PROVE  /\ IsFiniteSet({i \in DOMAIN s : s[i] \in S})
           /\ Count(s, S) \in Nat
<1>1. DOMAIN s = 1 .. Len(s) /\ Len(s) \in Nat
  BY LenProperties
<1>2. IsFiniteSet(1 .. Len(s))
  BY <1>1, FS_Interval
<1>3. IsFiniteSet({i \in DOMAIN s : s[i] \in S})
  BY <1>1, <1>2, FS_Subset
<1> QED BY <1>3, FS_CardinalityType DEF Count

(* An empty queue counts nothing. *)
LEMMA CountEmpty ==
    ASSUME NEW S
    PROVE  Count(<<>>, S) = 0
<1>1. {i \in DOMAIN <<>> : <<>>[i] \in S} = {}
  OBVIOUS
<1> QED BY <1>1, FS_EmptySet DEF Count

(* One more at the end. *)
LEMMA CountAppend ==
    ASSUME NEW X, NEW s \in Seq(X), NEW e \in X, NEW S
    PROVE  Count(Append(s, e), S) = Count(s, S) + IF e \in S THEN 1 ELSE 0
<1> DEFINE t == Append(s, e)
           A == {i \in DOMAIN s : s[i] \in S}
           B == {i \in DOMAIN t : t[i] \in S}
           n == Len(s) + 1
<1>1. /\ DOMAIN s = 1 .. Len(s) /\ Len(s) \in Nat
      /\ DOMAIN t = 1 .. n
      /\ \A i \in 1 .. Len(s) : t[i] = s[i]
      /\ t[n] = e
  OBVIOUS
<1>2. IsFiniteSet(A) /\ Cardinality(A) \in Nat
  BY CountFinite DEF Count
<1>3. n \notin A
  BY <1>1
<1>4. CASE e \in S
  <2>1. B = A \cup {n}
    <3> HIDE DEF t
    <3> QED BY <1>1, <1>4
  <2>2. Cardinality(B) = Cardinality(A) + 1
    BY <1>2, <1>3, <2>1, FS_AddElement
  <2> QED BY <1>4, <2>2 DEF Count
<1>5. CASE e \notin S
  <2>1. B = A
    <3> HIDE DEF t
    <3> QED BY <1>1, <1>5
  <2>2. Count(t, S) = Count(s, S)
    BY <2>1 DEF Count
  <2>3. Count(s, S) \in Nat
    BY CountFinite
  <2> QED BY <1>5, <2>2, <2>3
<1> QED BY <1>4, <1>5

(* One less at the front. *)
LEMMA CountTail ==
    ASSUME NEW X, NEW s \in Seq(X), s # <<>>, NEW S
    PROVE  Count(s, S) = Count(Tail(s), S) + IF Head(s) \in S THEN 1 ELSE 0
<1> DEFINE t == Tail(s)
           A == {i \in DOMAIN t : t[i] \in S}
           B == {i \in DOMAIN s : s[i] \in S}
           C == B \ {1}
           f == [i \in A |-> i + 1]
<1>1. /\ Len(s) \in Nat \ {0} /\ DOMAIN s = 1 .. Len(s)
      /\ t \in Seq(X) /\ DOMAIN t = 1 .. Len(s) - 1
      /\ \A i \in 1 .. Len(s) - 1 : t[i] = s[i + 1]
      /\ Head(s) = s[1]
  <2>1. Len(s) \in Nat \ {0} /\ DOMAIN s = 1 .. Len(s)
    BY LenProperties, EmptySeq
  <2>2. t \in Seq(X) /\ Len(t) = Len(s) - 1 /\ \A i \in 1 .. Len(t) : t[i] = s[i + 1]
    BY HeadTailProperties
  <2>3. DOMAIN t = 1 .. Len(t)
    BY <2>2, LenProperties
  <2> QED BY <2>1, <2>2, <2>3
<1>2. IsFiniteSet(A) /\ Cardinality(A) \in Nat
  BY <1>1, CountFinite DEF Count
<1>3. f \in Bijection(A, C)
  <2> HIDE DEF t
  <2>1. \A i \in A : i + 1 \in C
    BY <1>1
  <2>2. \A j \in C : j - 1 \in A /\ j = (j - 1) + 1
    BY <1>1
  <2>3. \A i, j \in A : i + 1 = j + 1 => i = j
    BY <1>1
  <2>4. f \in [A -> C] /\ \A i \in A : f[i] = i + 1
    BY <2>1
  <2> HIDE DEF f
  <2> QED BY <2>2, <2>3, <2>4 DEF Bijection, Injection, Surjection, IsInjective
<1>4. IsFiniteSet(C) /\ Cardinality(C) = Cardinality(A)
  BY <1>2, <1>3, FS_Bijection DEF ExistsBijection
<1>5. CASE Head(s) \in S
  <2>1. B = C \cup {1} /\ 1 \notin C
    BY <1>1, <1>5
  <2>2. Cardinality(B) = Cardinality(C) + 1
    BY <1>4, <2>1, FS_AddElement
  <2> QED BY <1>4, <1>5, <2>2 DEF Count
<1>6. CASE Head(s) \notin S
  <2>1. B = C
    BY <1>1, <1>6
  <2>2. Count(t, S) = Count(s, S)
    BY <1>4, <2>1 DEF Count
  <2>3. Count(t, S) \in Nat
    BY <1>1, CountFinite
  <2> QED BY <1>6, <2>2, <2>3
<1> QED BY <1>5, <1>6

(* One more at the front. *)
LEMMA CountBefore ==
    ASSUME NEW X, NEW s \in Seq(X), NEW e \in X, NEW S
    PROVE  /\ <<e>> \o s \in Seq(X)
           /\ Count(<<e>> \o s, S) = Count(s, S) + IF e \in S THEN 1 ELSE 0
<1> DEFINE t == <<e>> \o s
<1>1. t \in Seq(X) /\ t # <<>> /\ Head(t) = e
  OBVIOUS
<1>2. Tail(t) = s
  <2>1. t \in Seq(X) /\ Len(t) = Len(s) + 1 /\ \A i \in 1 .. Len(s) : t[i + 1] = s[i]
    OBVIOUS
  <2>2. Tail(t) \in Seq(X) /\ Len(Tail(t)) = Len(s) /\ \A i \in 1 .. Len(s) : Tail(t)[i] = s[i]
    <3>1. Len(s) \in Nat
      OBVIOUS
    <3> HIDE DEF t
    <3> QED BY <1>1, <2>1, <3>1, HeadTailProperties
  <2> HIDE DEF t
  <2> QED BY <2>2, SeqEqual
<1>3. Count(t, S) = Count(Tail(t), S) + IF Head(t) \in S THEN 1 ELSE 0
  <2> HIDE DEF t
  <2> QED BY <1>1, CountTail
<1> QED BY <1>1, <1>2, <1>3

(* Without its first two elements. *)
LEMMA TailTwice ==
    ASSUME NEW X, NEW s \in Seq(X), Len(s) > 1
    PROVE  Tail(s) # <<>> /\ SubSeq(s, 3, Len(s)) = Tail(Tail(s))
<1>1. s # <<>> /\ Len(s) \in Nat /\ 2 \in 1 .. Len(s) /\ Len(s) \in 2 .. Len(s)
  BY LenProperties, EmptySeq
<1>2. Tail(s) = SubSeq(s, 2, Len(s))
  BY <1>1, TailIsSubSeq
<1>3. Tail(SubSeq(s, 2, Len(s))) = SubSeq(s, 2 + 1, Len(s))
  BY <1>1, HeadTailOfSubSeq
<1>4. Tail(s) # <<>>
  <2>1. Tail(s) \in Seq(X) /\ Len(Tail(s)) = Len(s) - 1
    BY <1>1, HeadTailProperties
  <2>2. Len(Tail(s)) # 0
    BY <1>1, <2>1
  <2> QED BY <2>1, <2>2, EmptySeq
<1> QED BY <1>2, <1>3, <1>4

(* Short sequences, element by element. *)
LEMMA FewAppended ==
    ASSUME NEW X, NEW e \in X, NEW f \in X
    PROVE  <<e>> = Append(<<>>, e) /\ <<e, f>> = Append(<<e>>, f)
  OBVIOUS

(* At most two messages of a handler. *)
LEMMA CountFew ==
    ASSUME NEW X, NEW e \in X, NEW f \in X, NEW S
    PROVE  /\ Count(<<e>>, S) = IF e \in S THEN 1 ELSE 0
           /\ Count(<<e, f>>, S) = (IF e \in S THEN 1 ELSE 0) + IF f \in S THEN 1 ELSE 0
<1>1. <<>> \in Seq(X) /\ <<e>> \in Seq(X)
  OBVIOUS
<1>2. <<e>> = Append(<<>>, e) /\ <<e, f>> = Append(<<e>>, f)
  BY FewAppended
<1>3. Count(<<e>>, S) = Count(<<>>, S) + IF e \in S THEN 1 ELSE 0
  BY <1>1, <1>2, CountAppend
<1>4. Count(<<e, f>>, S) = Count(<<e>>, S) + IF f \in S THEN 1 ELSE 0
  BY <1>1, <1>2, CountAppend
<1> QED BY <1>3, <1>4, CountEmpty

(* One less at the end, as activity_back takes it. *)
LEMMA CountPopped ==
    ASSUME NEW X, NEW s \in Seq(X), s # <<>>, NEW S
    PROVE  Count(s, S) = Count(SubSeq(s, 1, Len(s) - 1), S) + IF s[Len(s)] \in S THEN 1 ELSE 0
<1>1. PICK r \in Seq(X), e \in X : s = Append(r, e)
  BY SequenceEmptyOrAppend
<1>2. Len(s) = Len(r) + 1 /\ s[Len(s)] = e /\ SubSeq(s, 1, Len(s) - 1) = r
  <2>1. Len(r) \in Nat /\ Len(s) = Len(r) + 1 /\ s[Len(s)] = e
    BY <1>1
  <2>2. \A i \in 1 .. Len(r) : s[i] = r[i]
    BY <1>1
  <2>3. SubSeq(s, 1, Len(s) - 1) = [i \in 1 .. Len(r) |-> s[i]]
    BY <2>1
  <2>4. r = [i \in 1 .. Len(r) |-> r[i]]
    BY LenProperties
  <2> QED BY <2>1, <2>2, <2>3, <2>4
<1>3. Count(Append(r, e), S) = Count(r, S) + IF e \in S THEN 1 ELSE 0
  BY CountAppend
<1> QED BY <1>1, <1>2, <1>3, Zenon
=============================================================================
