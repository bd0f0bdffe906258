-------------------------- MODULE SpecializerProofs --------------------------
(* The specializer's driver, for every program and every limit.                *)
(*                                                                             *)
(* The argument.  Needed is the least set of instances that has the entry      *)
(* points and is closed under the calls of what is not too large: its levels   *)
(* grow strictly until they stop, and there are no more small instances than   *)
(* levels.  The invariant says that every instance with a name is in every     *)
(* closed set (ReachInv), and that while nothing is reported every instance    *)
(* with a name is made, queued or under way, and everything made or under way  *)
(* has names, or calls left, for what it calls (CleanInv).  When nothing is    *)
(* queued or under way, the functions made are closed, so they are Needed.     *)
(* That a body taken back leaves nothing behind is no part of it: taking back  *)
(* always leaves a diagnostic.                                                 *)
EXTENDS Specializer, FiniteSetTheorems, SequenceTheorems, WellFoundedInduction, TLAPS

-------------------------------------------------------------------------------
(* Induction and recursion on the naturals, stated with sets and functions so  *)
(* that the provers can instantiate them.                                      *)

(* A set of naturals that is not empty has a least member.                     *)
LEMMA LeastMember ==
  ASSUME NEW T \in SUBSET Nat, T # {}
  PROVE  \E n \in T : \A m \in T : n <= m
<1>1. IsWellFoundedOn(OpToRel(<, Nat), Nat)
  BY NatLessThanWellFounded
<1>2. PICK n \in T : \A m \in T : ~(<<m, n>> \in OpToRel(<, Nat))
  BY <1>1, WFMin
<1>3. \A m \in T : ~(m < n)
  BY <1>2 DEF OpToRel
<1> QED
  BY <1>3

(* A set that has zero and with every number the next one has all of them.     *)
LEMMA Counting ==
  ASSUME NEW T \in SUBSET Nat, 0 \in T, \A n \in T : n + 1 \in T
  PROVE  T = Nat
<1>1. SUFFICES ASSUME T # Nat PROVE FALSE
  OBVIOUS
<1> DEFINE U == Nat \ T
<1>2. U \in SUBSET Nat /\ U # {}
  BY <1>1
<1> HIDE DEF U
<1>3. PICK n \in U : \A m \in U : n <= m
  BY <1>2, LeastMember
<1>4. n \in Nat /\ n \notin T /\ n # 0
  BY <1>3 DEF U
<1> DEFINE k == n - 1
<1>5. k \in Nat /\ k + 1 = n /\ k < n
  BY <1>4
<1> HIDE DEF k
<1>6. k \notin U
  BY <1>3, <1>4, <1>5
<1>7. k \in T
  BY <1>5, <1>6 DEF U
<1>8. k + 1 \in T
  BY <1>7
<1> QED
  BY <1>4, <1>5, <1>8

(* A start and a step define a function on the naturals.                       *)
IsStep(F, X) == F \in [Nat \X X -> X]
Follows(g, F, x0, X) ==
  g \in [Nat -> X] /\ g[0] = x0 /\ \A n \in Nat : g[n + 1] = F[<<n, g[n]>>]

(* A step function and a first value have a sequence of values that follows    *)
(* them.                                                                       *)
LEMMA Recursion ==
  ASSUME NEW X, NEW x0 \in X, NEW F, IsStep(F, X)
  PROVE  \E g : Follows(g, F, x0, X)
<1>0. F \in [Nat \X X -> X]
  BY DEF IsStep
<1> DEFINE Up(n, g) == /\ g \in [0..n -> X] /\ g[0] = x0
                       /\ \A m \in 0..n-1 : g[m + 1] = F[<<m, g[m]>>]
           T == {n \in Nat : \E g : Up(n, g)}
<1>1. T = Nat
  <2>1. 0 \in T
    <3> DEFINE g == [m \in 0..0 |-> x0]
    <3>1. g \in [0..0 -> X] /\ g[0] = x0 /\ 0..0-1 = {}
      OBVIOUS
    <3>2. Up(0, g)
      BY <3>1
    <3> QED
      BY <3>2
  <2>2. ASSUME NEW n \in T PROVE n + 1 \in T
    <3>1. n \in Nat
      OBVIOUS
    <3>2. PICK g : Up(n, g)
      OBVIOUS
    <3> DEFINE h == [m \in 0..n+1 |-> IF m = n + 1 THEN F[<<n, g[n]>>] ELSE g[m]]
    <3>3. g[n] \in X /\ F[<<n, g[n]>>] \in X
      BY <1>0, <3>1, <3>2
    <3>4. h \in [0..n+1 -> X]
      <4>1. ASSUME NEW m \in 0..n+1 PROVE h[m] \in X
        <5>1. CASE m = n + 1
          BY <5>1, <3>3
        <5>2. CASE m # n + 1
          BY <5>2, <3>1, <3>2
        <5> QED
          BY <5>1, <5>2
      <4> QED
        BY <4>1
    <3>5. h[0] = x0
      BY <3>1, <3>2
    <3>6. ASSUME NEW m \in 0..(n+1)-1 PROVE h[m + 1] = F[<<m, h[m]>>]
      <4>1. h[m] = g[m] /\ m \in 0..n
        BY <3>1
      <4>2. CASE m = n
        <5>1. h[n + 1] = F[<<n, g[n]>>]
          BY <3>1
        <5> QED
          BY <4>1, <4>2, <5>1
      <4>3. CASE m # n
        <5>1. m \in 0..n-1
          BY <4>1, <4>3, <3>1
        <5>2. h[m + 1] = g[m + 1]
          BY <5>1, <3>1
        <5>3. g[m + 1] = F[<<m, g[m]>>]
          BY <5>1, <3>2
        <5> QED
          BY <4>1, <5>2, <5>3
      <4> QED
        BY <4>2, <4>3
    <3>7. Up(n + 1, h)
      <4> HIDE DEF h
      <4> QED
        BY <3>4, <3>5, <3>6
    <3>8. n + 1 \in Nat /\ \E u : Up(n + 1, u)
      <4> HIDE DEF Up, h
      <4> QED
        BY <3>1, <3>7
    <3> HIDE DEF Up
    <3> QED
      BY <3>8
  <2> HIDE DEF T
  <2>3. T \in SUBSET Nat
    BY DEF T
  <2> QED
    BY <2>1, <2>2, <2>3, Counting
<1>2. ASSUME NEW n \in Nat, NEW g, NEW h, Up(n, g), Up(n + 1, h)
      PROVE  g[n] = h[n]
  <2> DEFINE Same == {k \in Nat : k <= n => g[k] = h[k]}
  <2>1. 0 \in Same
    BY <1>2
  <2>2. ASSUME NEW k \in Same PROVE k + 1 \in Same
    <3>1. CASE k + 1 <= n
      <4>1. k \in 0..n-1 /\ k \in 0..(n+1)-1
        BY <3>1
      <4>2. g[k + 1] = F[<<k, g[k]>>] /\ h[k + 1] = F[<<k, h[k]>>]
        BY <4>1, <1>2
      <4>3. g[k] = h[k]
        BY <4>1
      <4> QED
        BY <4>2, <4>3
    <3>2. CASE ~(k + 1 <= n)
      BY <3>2
    <3> QED
      BY <3>1, <3>2
  <2>3. Same \in SUBSET Nat
    OBVIOUS
  <2>4. Same = Nat
    <3> HIDE DEF Same
    <3> QED
      BY <2>1, <2>2, <2>3, Counting
  <2>5. n \in Same
    BY <2>4
  <2> QED
    BY <2>5
<1> DEFINE G(n) == CHOOSE g : Up(n, g)
           f == [n \in Nat |-> G(n)[n]]
<1>3. \A n \in Nat : Up(n, G(n))
  <2>1. TAKE n \in Nat
  <2>2. \E g : Up(n, g)
    BY <1>1
  <2> QED
    BY <2>2
<1>4. ASSUME NEW n \in Nat PROVE f[n + 1] = F[<<n, f[n]>>]
  <2>1. Up(n, G(n)) /\ Up(n + 1, G(n + 1))
    <3> HIDE DEF Up, G
    <3>1. n + 1 \in Nat
      OBVIOUS
    <3> QED
      BY <1>3, <3>1
  <2> HIDE DEF G
  <2>2. G(n)[n] = G(n + 1)[n]
    <3> DEFINE a == G(n)
               b == G(n + 1)
    <3>1. Up(n, a) /\ Up(n + 1, b)
      BY <2>1
    <3> HIDE DEF a, b, Up
    <3>2. a[n] = b[n]
      BY <3>1, <1>2
    <3> QED
      BY <3>2 DEF a, b
  <2>3. G(n + 1)[n + 1] = F[<<n, G(n + 1)[n]>>]
    <3>1. n \in 0..(n+1)-1
      OBVIOUS
    <3> QED
      BY <2>1, <3>1
  <2>4. f[n] = G(n)[n] /\ f[n + 1] = G(n + 1)[n + 1]
    OBVIOUS
  <2> QED
    BY <2>2, <2>3, <2>4
<1>5. ASSUME NEW n \in Nat PROVE f[n] \in X
  <2>1. Up(n, G(n))
    BY <1>3
  <2> HIDE DEF G
  <2>2. G(n)[n] \in X
    BY <2>1
  <2> QED
    BY <2>2
<1>6. f[0] = x0
  <2>1. Up(0, G(0))
    BY <1>3
  <2> HIDE DEF G
  <2> QED
    BY <2>1
<1>7. f \in [Nat -> X]
  BY <1>5
<1> HIDE DEF f
<1>8. Follows(f, F, x0, X)
  BY <1>4, <1>6, <1>7 DEF Follows
<1> QED
  BY <1>8

-------------------------------------------------------------------------------
(* Lists.                                                                      *)

(* The places of a set are numbered: each has a number, each number a place.   *)
LEMMA PlaceFacts ==
  ASSUME NEW N \in Nat, NEW I \in SUBSET (1..N)
  PROVE  /\ Cardinality(I) \in Nat
         /\ \A n \in 1..Cardinality(I) : Place(I, n) \in I
         /\ \A m, n \in 1..Cardinality(I) : Place(I, m) = Place(I, n) => m = n
         /\ \A i \in I : \E n \in 1..Cardinality(I) : Place(I, n) = i
<1> DEFINE Upto(i) == {j \in I : j <= i}
           C == Cardinality(I)
           rank == [i \in I |-> Cardinality(Upto(i))]
<1>1. IsFiniteSet(I) /\ C \in Nat
  <2>1. IsFiniteSet(1..N)
    BY FS_Interval
  <2>2. IsFiniteSet(I)
    BY <2>1, FS_Subset
  <2> QED
    BY <2>2, FS_CardinalityType
<1>2. \A i \in I : IsFiniteSet(Upto(i)) /\ Cardinality(Upto(i)) \in 1..C
  <2>1. TAKE i \in I
  <2>2. Upto(i) \in SUBSET I /\ Upto(i) # {}
    OBVIOUS
  <2>3. IsFiniteSet(Upto(i)) /\ Cardinality(Upto(i)) <= C
    BY <1>1, <2>2, FS_Subset
  <2>4. Cardinality(Upto(i)) \in Nat /\ Cardinality(Upto(i)) # 0
    BY <2>2, <2>3, FS_CardinalityType, FS_EmptySet
  <2> HIDE DEF Upto
  <2> QED
    BY <1>1, <2>3, <2>4
<1>3. \A i, j \in I : i < j => Cardinality(Upto(i)) < Cardinality(Upto(j))
  <2>1. SUFFICES ASSUME NEW i \in I, NEW j \in I, i < j
                 PROVE  Cardinality(Upto(i)) < Cardinality(Upto(j))
    OBVIOUS
  <2>2. Upto(i) \in SUBSET Upto(j) /\ Upto(i) # Upto(j)
    <3>1. i \in 1..N /\ j \in 1..N
      OBVIOUS
    <3>2. j \in Upto(j) /\ j \notin Upto(i)
      BY <2>1, <3>1
    <3>3. \A k \in Upto(i) : k \in Upto(j)
      <4>1. TAKE k \in Upto(i)
      <4>2. k \in 1..N /\ k <= i
        OBVIOUS
      <4> QED
        BY <2>1, <3>1, <4>1, <4>2
    <3> QED
      BY <3>2, <3>3
  <2> HIDE DEF Upto
  <2>3. Cardinality(Upto(i)) <= Cardinality(Upto(j)) /\ Cardinality(Upto(j)) # Cardinality(Upto(i))
    BY <1>2, <2>2, FS_Subset
  <2> QED
    BY <1>2, <2>3
<1>4. rank \in [I -> 1..C]
  <2> HIDE DEF Upto
  <2> QED
    BY <1>2
<1>5. \A i, j \in I : rank[i] = rank[j] => i = j
  <2>1. SUFFICES ASSUME NEW i \in I, NEW j \in I, i # j PROVE rank[i] # rank[j]
    OBVIOUS
  <2>2. i \in 1..N /\ j \in 1..N
    OBVIOUS
  <2>3. i < j \/ j < i
    BY <2>1, <2>2
  <2>4. rank[i] = Cardinality(Upto(i)) /\ rank[j] = Cardinality(Upto(j))
    OBVIOUS
  <2> HIDE DEF Upto, rank
  <2>5. Cardinality(Upto(i)) \in 1..C /\ Cardinality(Upto(j)) \in 1..C
    BY <1>2
  <2>6. CASE i < j
    BY <1>3, <2>4, <2>5, <2>6, <1>1
  <2>7. CASE j < i
    BY <1>3, <2>4, <2>5, <2>7, <1>1
  <2> QED
    BY <2>3, <2>6, <2>7
<1> DEFINE D == 1..C
<1>6. IsFiniteSet(D) /\ Cardinality(D) = C
  <2>1. 1 \in Int /\ C \in Int
    BY <1>1
  <2>2. IsFiniteSet(1..C) /\ Cardinality(1..C) = IF 1 > C THEN 0 ELSE C - 1 + 1
    BY <2>1, FS_Interval
  <2> QED
    BY <2>2, <1>1
<1>7. rank \in Injection(I, D)
  <2> HIDE DEF rank
  <2> QED
    BY <1>4, <1>5 DEF Injection, IsInjective
<1>8. rank \in Surjection(I, D)
  <2> HIDE DEF rank, D
  <2> QED
    BY <1>6, <1>7, FS_Injection
<1>9. \A n \in D : \E i \in I : rank[i] = n
  <2> HIDE DEF rank, D
  <2> QED
    BY <1>8 DEF Surjection
<1>10. \A n \in D : Place(I, n) \in I /\ rank[Place(I, n)] = n
  <2>1. TAKE n \in D
  <2>2. \E i \in I : Cardinality({j \in I : j <= i}) = n
    <3>1. PICK i \in I : rank[i] = n
      BY <1>9
    <3> QED
      BY <3>1
  <2>3. Place(I, n) \in I /\ Cardinality({j \in I : j <= Place(I, n)}) = n
    BY <2>2 DEF Place
  <2> QED
    BY <2>3
<1>11. \A i \in I : Place(I, rank[i]) = i
  <2>1. TAKE i \in I
  <2> HIDE DEF rank
  <2>2. rank[i] \in D
    BY <1>4
  <2> QED
    BY <2>2, <1>10, <1>5
<1> HIDE DEF rank
<1>12. \A m, n \in D : Place(I, m) = Place(I, n) => m = n
  BY <1>10
<1>13. \A i \in I : \E n \in D : Place(I, n) = i
  <2>1. TAKE i \in I
  <2>2. rank[i] \in D /\ Place(I, rank[i]) = i
    BY <1>4, <1>11
  <2> QED
    BY <2>2
<1> QED
  BY <1>1, <1>10, <1>12, <1>13

(* A retain keeps exactly the members at the places, and each of them once.    *)
LEMMA PickFacts ==
  ASSUME NEW S, NEW seq \in Seq(S), NEW I \in SUBSET (DOMAIN seq)
  PROVE  /\ Pick(seq, I) \in Seq(S)
         /\ \A n \in DOMAIN Pick(seq, I) : \E i \in I : Pick(seq, I)[n] = seq[i]
         /\ \A i \in I : \E n \in DOMAIN Pick(seq, I) : Pick(seq, I)[n] = seq[i]
         /\ (\A i, j \in DOMAIN seq : seq[i] = seq[j] => i = j) =>
              \A m, n \in DOMAIN Pick(seq, I) : Pick(seq, I)[m] = Pick(seq, I)[n] => m = n
<1> DEFINE C == Cardinality(I)
           N == Len(seq)
<1>1. N \in Nat /\ I \in SUBSET (1..N) /\ DOMAIN seq = 1..N
  OBVIOUS
<1>2. /\ C \in Nat
      /\ \A n \in 1..C : Place(I, n) \in I
      /\ \A m, n \in 1..C : Place(I, m) = Place(I, n) => m = n
      /\ \A i \in I : \E n \in 1..C : Place(I, n) = i
  <2> HIDE DEF N
  <2> QED
    BY <1>1, PlaceFacts
<1>3. /\ Pick(seq, I) = [n \in 1..C |-> seq[Place(I, n)]]
      /\ DOMAIN Pick(seq, I) = 1..C
      /\ \A n \in 1..C : Pick(seq, I)[n] = seq[Place(I, n)]
  BY DEF Pick
<1>4. \A n \in 1..C : seq[Place(I, n)] \in S
  BY <1>1, <1>2
<1> HIDE DEF C, N
<1>5. Pick(seq, I) \in [1..C -> S]
  BY <1>3, <1>4
<1>6. Pick(seq, I) \in Seq(S)
  BY <1>2, <1>5
<1>7. \A n \in DOMAIN Pick(seq, I) : \E i \in I : Pick(seq, I)[n] = seq[i]
  BY <1>2, <1>3
<1>8. \A i \in I : \E n \in DOMAIN Pick(seq, I) : Pick(seq, I)[n] = seq[i]
  BY <1>2, <1>3
<1>9. ASSUME \A i, j \in DOMAIN seq : seq[i] = seq[j] => i = j
      PROVE  \A m, n \in DOMAIN Pick(seq, I) : Pick(seq, I)[m] = Pick(seq, I)[n] => m = n
  BY <1>1, <1>2, <1>3, <1>9
<1> QED
  BY <1>6, <1>7, <1>8, <1>9

-------------------------------------------------------------------------------
(* The program and its entry points.                                           *)

Key == [def : Defs, size : Nat]
Elems(seq) == {seq[i] : i \in DOMAIN seq}

(* What the assumption says of the program of a state.                         *)
LEMMA ProgramType ==
  ASSUME program \in Programs
  PROVE  /\ program.defs \in [Defs -> Function]
         /\ program.contracts \in Seq(Contract)
         /\ program.mains \in Seq(Defs)
         /\ \A d \in Defs : program.defs[d].kind = "generic" => program.defs[d].calls = <<>>
<1>1. program \in [defs : [Defs -> Function], contracts : Seq(Contract), mains : Seq(Defs)]
  BY ProgramsAssumption
<1>2. \A d \in Defs : program.defs[d].kind = "generic" => program.defs[d].calls = <<>>
  BY ProgramsAssumption
<1> QED
  BY <1>1, <1>2

(* Concatenation is associative.                                               *)
LEMMA Associative ==
  ASSUME NEW S
  PROVE  \A s, t, u \in Seq(S) : (s \o t) \o u = s \o (t \o u)
BY ConcatAssociative

(* The entry points of the contracts are definitions.                          *)
LEMMA CandidatesType ==
  ASSUME program \in Programs
  PROVE  Candidates \in Seq(Defs)
<1> DEFINE N == Len(program.contracts)
           Own(i) == program.contracts[i].entries
                       \o (IF program.contracts[i].comptimeParam THEN <<>> ELSE program.contracts[i].main)
           F == [p \in Nat \X Seq(Defs) |-> IF p[1] < N THEN p[2] \o Own(p[1] + 1) ELSE p[2]]
           Rule(r) == [i \in 0..N |->
                         IF i = 0 THEN <<>>
                         ELSE LET c == program.contracts[i]
                              IN  r[i - 1] \o c.entries \o (IF c.comptimeParam THEN <<>> ELSE c.main)]
<1>1. N \in Nat /\ \A i \in 1..N : program.contracts[i] \in Contract
  BY ProgramType
<1>0. N \in Nat
  BY <1>1
<1>14. \A s, t, u \in Seq(Defs) : (s \o t) \o u = s \o (t \o u)
  BY Associative
<1>2. \A i \in 1..N : Own(i) \in Seq(Defs)
  <2>1. TAKE i \in 1..N
  <2> DEFINE c == program.contracts[i]
  <2>2. c \in Contract
    BY <1>1
  <2> HIDE DEF c
  <2>3. c.entries \in Seq(Defs) /\ c.main \in Seq(Defs)
    BY <2>2 DEF Contract
  <2>4. <<>> \in Seq(Defs)
    OBVIOUS
  <2> DEFINE m == IF c.comptimeParam THEN <<>> ELSE c.main
  <2>5. m \in Seq(Defs)
    BY <2>3, <2>4
  <2> HIDE DEF m
  <2>6. c.entries \o m \in Seq(Defs)
    BY <2>3, <2>5
  <2> QED
    BY <2>6 DEF m, c
<1> HIDE DEF Own
<1>3. F \in [Nat \X Seq(Defs) -> Seq(Defs)]
  <2>1. ASSUME NEW n \in Nat, NEW s \in Seq(Defs)
        PROVE  (IF n < N THEN s \o Own(n + 1) ELSE s) \in Seq(Defs)
    <3>1. CASE n < N
      <4>1. n + 1 \in 1..N
        BY <1>1, <3>1
      <4>2. Own(n + 1) \in Seq(Defs)
        BY <1>2, <4>1
      <4> HIDE DEF N
      <4> QED
        BY <3>1, <4>2
    <3>2. CASE ~(n < N)
      BY <3>2
    <3> QED
      BY <3>1, <3>2
  <2> HIDE DEF N
  <2> QED
    BY <2>1
<1>4. <<>> \in Seq(Defs)
  OBVIOUS
<1>5. PICK g \in [Nat -> Seq(Defs)] : g[0] = <<>> /\ \A n \in Nat : g[n + 1] = F[<<n, g[n]>>]
  <2> DEFINE X == Seq(Defs)
             e == <<>>
  <2>1. IsStep(F, X) /\ e \in X
    BY <1>3, <1>4 DEF IsStep
  <2> HIDE DEF F, X, e
  <2>2. PICK g : Follows(g, F, e, X)
    BY <2>1, Recursion
  <2> QED
    BY <2>2 DEF Follows, X, e
<1> DEFINE h == [i \in 0..N |-> g[i]]
<1>6. ASSUME NEW i \in 1..N PROVE g[i] = g[i - 1] \o Own(i)
  <2>1. i - 1 \in Nat /\ (i - 1) + 1 = i /\ i - 1 < N
    <3> HIDE DEF N, F, Rule, h
    <3> QED
      BY <1>0
  <2>2. g[(i - 1) + 1] = F[<<i - 1, g[i - 1]>>]
    <3> DEFINE n == i - 1
    <3>1. n \in Nat
      BY <2>1
    <3> HIDE DEF n, F
    <3>2. g[n + 1] = F[<<n, g[n]>>]
      BY <3>1, <1>5
    <3> QED
      BY <3>2 DEF n
  <2>3. g[i - 1] \in Seq(Defs)
    BY <2>1, <1>5
  <2> HIDE DEF N
  <2>4. F[<<i - 1, g[i - 1]>>] = g[i - 1] \o Own((i - 1) + 1)
    BY <2>1, <2>3
  <2> QED
    BY <2>1, <2>2, <2>4
<1>7. ASSUME NEW i \in 0..N
      PROVE  h[i] = IF i = 0 THEN <<>>
                    ELSE LET c == program.contracts[i]
                         IN  h[i - 1] \o c.entries \o (IF c.comptimeParam THEN <<>> ELSE c.main)
  <2>1. CASE i = 0
    BY <2>1, <1>5
  <2>2. CASE i # 0
    <3>1. i \in 1..N /\ i - 1 \in 0..N
      BY <2>2, <1>1
    <3>2. h[i] = g[i] /\ h[i - 1] = g[i - 1]
      BY <3>1
    <3>3. g[i] = g[i - 1] \o Own(i)
      BY <3>1, <1>6
    <3> DEFINE c == program.contracts[i]
               m == IF c.comptimeParam THEN <<>> ELSE c.main
    <3>4. Own(i) = c.entries \o m
      BY DEF Own
    <3>5. c \in Contract
      BY <1>1, <3>1
    <3> HIDE DEF c
    <3>6. c.entries \in Seq(Defs) /\ m \in Seq(Defs)
      BY <3>5, <1>4 DEF Contract
    <3>7. g[i - 1] \in Seq(Defs)
      BY <3>1, <1>1, <1>5
    <3> HIDE DEF m
    <3> DEFINE x == g[i - 1]
               y == c.entries
    <3>8. x \o (y \o m) = (x \o y) \o m
      <4>1. x \in Seq(Defs) /\ y \in Seq(Defs) /\ m \in Seq(Defs)
        BY <3>6, <3>7
      <4> HIDE DEF x, y
      <4> QED
        BY <4>1, <1>14
    <3>9. h[i] = (h[i - 1] \o c.entries) \o m
      BY <3>2, <3>3, <3>4, <3>8
    <3> HIDE DEF h
    <3> QED
      BY <3>9, <2>2 DEF m, c
  <2> QED
    BY <2>1, <2>2
<1>8. h = Rule(h)
  <2> HIDE DEF N
  <2>1. h = [i \in 0..N |-> h[i]]
    OBVIOUS
  <2> HIDE DEF h
  <2> QED
    BY <2>1, <1>7
<1>9. ContractRoots = CHOOSE r : r = Rule(r)
  BY DEF ContractRoots
<1>10. ContractRoots = Rule(ContractRoots)
  <2> HIDE DEF Rule
  <2> QED
    BY <1>8, <1>9
<1> DEFINE r == ContractRoots
<1>11. r = Rule(r)
  BY <1>10
<1> HIDE DEF r
<1> DEFINE T == {n \in Nat : n <= N => r[n] = g[n]}
<1>12. T = Nat
  <2>1. 0 \in T
    <3>1. 0 \in 0..N
      BY <1>1
    <3>2. Rule(r)[0] = <<>>
      BY <3>1
    <3> QED
      BY <1>11, <3>2, <1>5
  <2>2. ASSUME NEW n \in T PROVE n + 1 \in T
    <3>1. SUFFICES ASSUME n + 1 <= N PROVE r[n + 1] = g[n + 1]
      OBVIOUS
    <3> DEFINE i == n + 1
    <3>2. i \in 0..N /\ i \in 1..N /\ i # 0 /\ i - 1 = n /\ n <= N
      BY <1>1, <3>1
    <3>3. r[n] = g[n]
      BY <3>2
    <3> HIDE DEF i
    <3> DEFINE c == program.contracts[i]
               m == IF c.comptimeParam THEN <<>> ELSE c.main
    <3>4. Rule(r)[i] = (r[i - 1] \o c.entries) \o m
      BY <3>2
    <3>5. Own(i) = c.entries \o m
      BY DEF Own
    <3>6. c \in Contract
      BY <1>1, <3>2
    <3> HIDE DEF c
    <3>7. c.entries \in Seq(Defs) /\ m \in Seq(Defs)
      BY <3>6, <1>4 DEF Contract
    <3>8. g[n] \in Seq(Defs)
      BY <1>5
    <3> HIDE DEF m, Rule
    <3> DEFINE x == g[n]
               y == c.entries
    <3>9. (x \o y) \o m = x \o Own(i)
      <4>1. x \in Seq(Defs) /\ y \in Seq(Defs) /\ m \in Seq(Defs)
        BY <3>7, <3>8
      <4>2. Own(i) = y \o m
        BY <3>5
      <4> HIDE DEF x, y
      <4>3. (x \o y) \o m = x \o (y \o m)
        BY <4>1, <1>14
      <4> QED
        BY <4>2, <4>3
    <3>10. r[i] = (r[n] \o c.entries) \o m
      BY <1>11, <3>2, <3>4
    <3>11. g[i] = g[n] \o Own(i)
      BY <1>6, <3>2
    <3>12. r[i] = g[i]
      BY <3>3, <3>9, <3>10, <3>11
    <3> QED
      BY <3>12 DEF i
  <2>3. T \in SUBSET Nat
    OBVIOUS
  <2> HIDE DEF T
  <2> QED
    BY <2>1, <2>2, <2>3, Counting
<1>13. r[N] \in Seq(Defs)
  <2> HIDE DEF N
  <2>1. N \in Nat /\ N <= N /\ N \in {n \in Nat : n <= N => r[n] = g[n]}
    BY <1>1, <1>12
  <2>2. r[N] = g[N]
    BY <2>1
  <2> QED
    BY <1>1, <1>5, <2>2
<1> QED
  BY <1>13, ProgramType DEF Candidates, r

-------------------------------------------------------------------------------
(* The reference: Needed is the least set that has the entry points and, with  *)
(* every instance that is not too large, the instances it calls.               *)

Calls(k) == Elems(Targets(k))
Small(known) == {k \in known : ~IsLarge(k)}
Grown(known) == known \cup UNION {Calls(k) : k \in Small(known)}
Closed(K) == Elems(entries) \subseteq K /\ \A k \in K : ~IsLarge(k) => Calls(k) \subseteq K

(* What an instance calls are instances, and finitely many.                    *)
LEMMA TargetsType ==
  ASSUME program \in Programs, NEW k \in Key
  PROVE  /\ Targets(k) \in Seq(Key)
         /\ Calls(k) \in SUBSET Key
         /\ IsFiniteSet(Calls(k))
         /\ Kind(k) = "generic" => Targets(k) = <<>> /\ Calls(k) = {}
<1> DEFINE f == Def(k)
           cs == f.calls
<1>1. k.def \in Defs /\ k.size \in Nat
  BY DEF Key
<1>2. f \in Function
  BY <1>1, ProgramType DEF Def
<1> HIDE DEF f
<1>3. cs \in Seq([to : Defs, grow : Nat])
  BY <1>2 DEF Function
<1> DEFINE n == Len(cs)
<1>4. n \in Nat /\ DOMAIN cs = 1..n /\ \A i \in 1..n : cs[i] \in [to : Defs, grow : Nat]
  <2> DEFINE R == [to : Defs, grow : Nat]
  <2>1. cs \in Seq(R)
    BY <1>3
  <2> HIDE DEF cs, R
  <2>2. n \in Nat /\ DOMAIN cs = 1..n /\ \A i \in 1..n : cs[i] \in R
    BY <2>1
  <2> QED
    BY <2>2 DEF R
<1>5. Targets(k) = [i \in DOMAIN cs |-> [def |-> cs[i].to, size |-> k.size + cs[i].grow]]
  BY DEF Targets, f
<1> HIDE DEF cs, n
<1>6. \A i \in 1..n : cs[i].to \in Defs /\ cs[i].grow \in Nat
  BY <1>4
<1>7. \A i \in 1..n : [def |-> cs[i].to, size |-> k.size + cs[i].grow] \in Key
  BY <1>1, <1>6 DEF Key
<1>8. Targets(k) \in [1..n -> Key]
  BY <1>4, <1>5, <1>7
<1>9. Targets(k) \in Seq(Key)
  BY <1>4, <1>8
<1>10. Calls(k) \in SUBSET Key
  BY <1>8 DEF Calls, Elems
<1>11. IsFiniteSet(Calls(k))
  <2> DEFINE t == Targets(k)
  <2>1. t \in [1..n -> Key] /\ Calls(k) = {t[i] : i \in 1..n}
    BY <1>8 DEF Calls, Elems
  <2> HIDE DEF t
  <2> DEFINE D == 1..n
             C == Calls(k)
  <2>2. t \in [D -> C]
    BY <2>1
  <2>3. t \in Surjection(D, C)
    BY <2>1, <2>2 DEF Surjection
  <2>4. IsFiniteSet(D)
    BY <1>4, FS_Interval
  <2> HIDE DEF D, C
  <2>5. IsFiniteSet(C)
    BY <2>3, <2>4, FS_Surjection
  <2> QED
    BY <2>5 DEF C
<1>12. ASSUME Kind(k) = "generic" PROVE Targets(k) = <<>> /\ Calls(k) = {}
  <2>1. program.defs[k.def].kind = "generic" => program.defs[k.def].calls = <<>>
    BY <1>1, ProgramType
  <2>2. cs = <<>>
    BY <2>1, <1>12 DEF Kind, Def, cs, f
  <2>3. DOMAIN cs = {}
    BY <2>2
  <2>4. DOMAIN Targets(k) = {}
    BY <1>5, <2>3
  <2>5. Targets(k) = <<>>
    <3> DEFINE s == Targets(k)
    <3>1. s \in Seq(Key) /\ DOMAIN s = {}
      BY <1>9, <2>4
    <3> HIDE DEF s
    <3>2. Len(s) = 0
      BY <3>1
    <3>3. s = <<>>
      BY <3>1, <3>2
    <3> QED
      BY <3>3 DEF s
  <2> QED
    BY <2>4, <2>5 DEF Calls, Elems
<1> QED
  BY <1>9, <1>10, <1>11, <1>12

(* The levels of the search: the entry points, then one call further each.     *)
LEMMA ReachFacts ==
  ASSUME program \in Programs, entries \in Seq(Key)
  PROVE  /\ \A n \in Nat : Reach[n] \in SUBSET Key
         /\ Reach[0] = Elems(entries)
         /\ \A n \in Nat : Reach[n + 1] = Grown(Reach[n])
<1> DEFINE X == SUBSET Key
           F == [p \in Nat \X X |-> Grown(p[2])]
           e == Elems(entries)
           Rule(r) == [n \in Nat |->
             IF n = 0 THEN {entries[i] : i \in DOMAIN entries}
             ELSE LET known == r[n - 1]
                  IN  known \cup UNION {{Targets(k)[i] : i \in DOMAIN Targets(k)} :
                                          k \in {q \in known : ~IsLarge(q)}}]
<1>1. \A known \in X : Grown(known) \in X
  <2>1. TAKE known \in X
  <2>2. \A k \in known : Calls(k) \in SUBSET Key
    BY TargetsType
  <2> QED
    BY <2>2 DEF Grown, Small
<1>2. e \in X
  BY DEF Elems
<1>3. IsStep(F, X)
  <2> HIDE DEF X
  <2>1. F \in [Nat \X X -> X]
    BY <1>1
  <2> QED
    BY <2>1 DEF IsStep
<1>4. PICK g : Follows(g, F, e, X)
  <2> HIDE DEF F, e, X
  <2> QED
    BY <1>2, <1>3, Recursion
<1>5. g \in [Nat -> X] /\ g[0] = e /\ \A n \in Nat : g[n + 1] = Grown(g[n])
  <2>1. g \in [Nat -> X] /\ g[0] = e /\ \A n \in Nat : g[n + 1] = F[<<n, g[n]>>]
    <3> HIDE DEF F, e, X
    <3> QED
      BY <1>4 DEF Follows
  <2>2. ASSUME NEW n \in Nat PROVE F[<<n, g[n]>>] = Grown(g[n])
    <3> HIDE DEF X
    <3>1. g[n] \in X
      BY <2>1
    <3> QED
      BY <3>1
  <2> HIDE DEF F, e, X
  <2> QED
    BY <2>1, <2>2
<1> DEFINE Plus(r, n) == IF n = 0 THEN e ELSE Grown(r[n - 1])
<1>6. \A r : Rule(r) = [n \in Nat |-> Plus(r, n)]
  BY DEF Grown, Small, Calls, Elems
<1> HIDE DEF Rule, F, X
<1>7. g = Rule(g)
  <2>1. ASSUME NEW n \in Nat PROVE g[n] = Plus(g, n)
    <3>1. CASE n = 0
      BY <3>1, <1>5
    <3>2. CASE n # 0
      <4> DEFINE m == n - 1
      <4>1. m \in Nat /\ m + 1 = n
        BY <3>2
      <4> HIDE DEF m, e
      <4>2. g[m + 1] = Grown(g[m])
        BY <4>1, <1>5
      <4> QED
        BY <4>1, <4>2, <3>2 DEF m
    <3> QED
      BY <3>1, <3>2
  <2> HIDE DEF Plus
  <2>2. g = [n \in Nat |-> g[n]]
    BY <1>5
  <2> QED
    BY <1>6, <2>1, <2>2
<1>8. Reach = CHOOSE r : r = Rule(r)
  BY DEF Reach, Rule
<1> DEFINE r == Reach
<1>9. r = Rule(r)
  <2>1. Reach = Rule(Reach)
    BY <1>7, <1>8
  <2> QED
    BY <2>1
<1> HIDE DEF r
<1>10. \A n \in Nat : r[n] = Plus(r, n)
  <2> HIDE DEF Plus
  <2> QED
    BY <1>6, <1>9
<1>11. r[0] = e
  BY <1>10
<1>12. ASSUME NEW n \in Nat PROVE r[n + 1] = Grown(r[n])
  <2> DEFINE m == n + 1
  <2>1. m \in Nat /\ m # 0 /\ m - 1 = n
    OBVIOUS
  <2> HIDE DEF m
  <2>2. r[m] = Plus(r, m)
    BY <2>1, <1>10
  <2>3. r[m] = Grown(r[n])
    BY <2>1, <2>2
  <2> QED
    BY <2>3 DEF m
<1> DEFINE T == {n \in Nat : r[n] \in X}
<1>13. T = Nat
  <2>1. 0 \in T
    BY <1>2, <1>11
  <2>2. ASSUME NEW n \in T PROVE n + 1 \in T
    <3>1. n \in Nat /\ r[n] \in X
      OBVIOUS
    <3>2. r[n + 1] = Grown(r[n]) /\ Grown(r[n]) \in X
      BY <3>1, <1>1, <1>12
    <3> QED
      BY <3>1, <3>2
  <2>3. T \in SUBSET Nat
    OBVIOUS
  <2> HIDE DEF T
  <2> QED
    BY <2>1, <2>2, <2>3, Counting
<1>14. \A n \in Nat : r[n] \in SUBSET Key
  BY <1>13 DEF X
<1> QED
  BY <1>11, <1>12, <1>14 DEF r

(* Every level is finite, and an instance of a level is in every closed set.   *)
LEMMA LevelFacts ==
  ASSUME program \in Programs, entries \in Seq(Key)
  PROVE  /\ \A n \in Nat : IsFiniteSet(Reach[n])
         /\ \A n \in Nat : Reach[n] \subseteq Reach[n + 1] /\ Reach[0] \subseteq Reach[n]
         /\ \A K : Closed(K) => \A n \in Nat : Reach[n] \subseteq K
<1> DEFINE r == Reach
           e == Elems(entries)
<1>1. /\ \A n \in Nat : r[n] \in SUBSET Key
      /\ r[0] = e
      /\ \A n \in Nat : r[n + 1] = Grown(r[n])
  BY ReachFacts
<1> HIDE DEF r
<1>2. IsFiniteSet(e)
  <2> DEFINE n == Len(entries)
             D == 1..n
  <2>1. n \in Nat /\ DOMAIN entries = D
    OBVIOUS
  <2> HIDE DEF n
  <2>2. entries \in [D -> e]
    BY <2>1 DEF Elems
  <2>3. entries \in Surjection(D, e)
    BY <2>1, <2>2 DEF Surjection, Elems
  <2>4. IsFiniteSet(D)
    BY <2>1, FS_Interval
  <2> HIDE DEF D, e
  <2> QED
    BY <2>3, <2>4, FS_Surjection
<1>3. ASSUME NEW known \in SUBSET Key, IsFiniteSet(known) PROVE IsFiniteSet(Grown(known))
  <2> DEFINE S == Small(known)
             C == {Calls(k) : k \in S}
             f == [k \in S |-> Calls(k)]
  <2>1. IsFiniteSet(S)
    <3>1. S \in SUBSET known
      BY DEF Small
    <3> HIDE DEF S
    <3> QED
      BY <1>3, <3>1, FS_Subset
  <2>2. \A k \in S : k \in Key
    BY DEF Small
  <2> HIDE DEF S
  <2>3. f \in Surjection(S, C)
    BY DEF Surjection
  <2>4. \A T \in C : IsFiniteSet(T)
    BY <2>2, TargetsType
  <2>5. Grown(known) = known \cup UNION C
    BY DEF Grown, S
  <2> HIDE DEF C, f
  <2>6. IsFiniteSet(C)
    BY <2>1, <2>3, FS_Surjection
  <2>7. IsFiniteSet(UNION C)
    BY <2>4, <2>6, FS_UNION
  <2> DEFINE U == UNION C
  <2>8. IsFiniteSet(U)
    BY <2>7
  <2> HIDE DEF U
  <2>9. IsFiniteSet(known \cup U)
    BY <1>3, <2>8, FS_Union
  <2> QED
    BY <2>5, <2>9 DEF U
<1>4. \A n \in Nat : IsFiniteSet(r[n])
  <2> DEFINE T == {n \in Nat : IsFiniteSet(r[n])}
  <2>1. 0 \in T
    BY <1>1, <1>2
  <2>2. ASSUME NEW n \in T PROVE n + 1 \in T
    <3>1. n \in Nat /\ IsFiniteSet(r[n]) /\ n + 1 \in Nat
      OBVIOUS
    <3>2. r[n + 1] = Grown(r[n]) /\ r[n] \in SUBSET Key
      BY <3>1, <1>1
    <3>3. IsFiniteSet(Grown(r[n]))
      BY <3>1, <3>2, <1>3
    <3> QED
      BY <3>1, <3>2, <3>3
  <2>3. T \in SUBSET Nat
    OBVIOUS
  <2>4. T = Nat
    <3> HIDE DEF T
    <3> QED
      BY <2>1, <2>2, <2>3, Counting
  <2> QED
    BY <2>4
<1>5. \A n \in Nat : r[n] \subseteq r[n + 1]
  BY <1>1 DEF Grown
<1>6. \A n \in Nat : r[0] \subseteq r[n]
  <2> DEFINE T == {n \in Nat : r[0] \subseteq r[n]}
  <2>1. 0 \in T
    OBVIOUS
  <2>2. ASSUME NEW n \in T PROVE n + 1 \in T
    <3>1. n \in Nat /\ r[0] \subseteq r[n] /\ n + 1 \in Nat
      OBVIOUS
    <3> QED
      BY <3>1, <1>5
  <2>3. T \in SUBSET Nat
    OBVIOUS
  <2>4. T = Nat
    <3> HIDE DEF T
    <3> QED
      BY <2>1, <2>2, <2>3, Counting
  <2> QED
    BY <2>4
<1>7. ASSUME NEW K, Closed(K) PROVE \A n \in Nat : r[n] \subseteq K
  <2> DEFINE T == {n \in Nat : r[n] \subseteq K}
  <2>1. 0 \in T
    BY <1>1, <1>7 DEF Closed
  <2>2. ASSUME NEW n \in T PROVE n + 1 \in T
    <3>1. n \in Nat /\ r[n] \subseteq K /\ n + 1 \in Nat
      OBVIOUS
    <3>2. r[n + 1] = Grown(r[n])
      BY <3>1, <1>1
    <3>3. Grown(r[n]) \subseteq K
      BY <3>1, <1>7 DEF Grown, Small, Closed
    <3> QED
      BY <3>1, <3>2, <3>3
  <2>3. T \in SUBSET Nat
    OBVIOUS
  <2>4. T = Nat
    <3> HIDE DEF T
    <3> QED
      BY <2>1, <2>2, <2>3, Counting
  <2> QED
    BY <2>4
<1> QED
  BY <1>4, <1>5, <1>6, <1>7 DEF r

(* There are at most as many small instances as Needed has levels.             *)
Levels == Cardinality(Defs) * (MaxTypeNodes + 1)

(* Of any set of instances finitely many are small: as many as there are       *)
(* definitions times sizes.                                                    *)
LEMMA SmallFacts ==
  ASSUME NEW K \in SUBSET Key
  PROVE  /\ IsFiniteSet(Small(K))
         /\ Cardinality(Small(K)) \in Nat
         /\ Levels \in Nat
         /\ Cardinality(Small(K)) <= Levels
<1> DEFINE Sizes == 0..MaxTypeNodes
           Box == Defs \X Sizes
           S == Small(K)
           f == [k \in S |-> <<k.def, k.size>>]
<1>1. IsFiniteSet(Sizes) /\ Cardinality(Sizes) = MaxTypeNodes + 1
  <2>1. 0 \in Int /\ MaxTypeNodes \in Nat /\ MaxTypeNodes \in Int
    BY LimitsAssumption
  <2> DEFINE b == MaxTypeNodes
  <2> HIDE DEF b
  <2>2. IsFiniteSet(0..b) /\ Cardinality(0..b) = IF 0 > b THEN 0 ELSE b - 0 + 1
    BY <2>1, FS_Interval DEF b
  <2> QED
    BY <2>1, <2>2 DEF b
<1>2. IsFiniteSet(Box) /\ Cardinality(Box) = Levels
  <2> HIDE DEF Sizes
  <2> QED
    BY <1>1, DefsAssumption, FS_Product DEF Levels
<1>3. Levels \in Nat
  <2> HIDE DEF Box
  <2> QED
    BY <1>2, FS_CardinalityType
<1>4. ASSUME NEW k \in S PROVE k \in Key /\ k.def \in Defs /\ k.size \in Sizes
  <2>1. k \in Key /\ ~IsLarge(k)
    BY DEF Small
  <2>2. k.def \in Defs /\ k.size \in Nat
    BY <2>1 DEF Key
  <2>3. ~(k.size > MaxTypeNodes)
    BY <2>1 DEF IsLarge
  <2> QED
    BY <2>1, <2>2, <2>3, LimitsAssumption
<1> HIDE DEF S, Sizes
<1>5. f \in [S -> Box]
  BY <1>4
<1>6. \A j, k \in S : f[j] = f[k] => j = k
  <2>1. SUFFICES ASSUME NEW j \in S, NEW k \in S, f[j] = f[k] PROVE j = k
    OBVIOUS
  <2>2. j.def = k.def /\ j.size = k.size
    BY <2>1
  <2>3. j \in Key /\ k \in Key
    BY <1>4
  <2> QED
    BY <2>2, <2>3 DEF Key
<1> HIDE DEF f, Box
<1>7. f \in Injection(S, Box)
  BY <1>5, <1>6 DEF Injection, IsInjective
<1>8. IsFiniteSet(S) /\ Cardinality(S) <= Cardinality(Box)
  BY <1>2, <1>7, FS_Injection
<1>9. Cardinality(S) \in Nat
  BY <1>8, FS_CardinalityType
<1> QED
  BY <1>2, <1>3, <1>8, <1>9 DEF S

(* With that many levels the search has come to its end: Needed is finite and  *)
(* closed, and no set that leaves out one of its instances is closed.          *)
LEMMA NeededIsLeast ==
  ASSUME program \in Programs, entries \in Seq(Key)
  PROVE  /\ Needed \in SUBSET Key /\ IsFiniteSet(Needed)
         /\ Closed(Needed)
         /\ \A K : Closed(K) => Needed \subseteq K
<1> DEFINE r == Reach
           N == Levels
<1>1. /\ \A n \in Nat : r[n] \in SUBSET Key
      /\ r[0] = Elems(entries)
      /\ \A n \in Nat : r[n + 1] = Grown(r[n])
  BY ReachFacts
<1>2. /\ \A n \in Nat : IsFiniteSet(r[n])
      /\ \A n \in Nat : r[n] \subseteq r[n + 1] /\ r[0] \subseteq r[n]
      /\ \A K : Closed(K) => \A n \in Nat : r[n] \subseteq K
  BY LevelFacts
<1>3. Needed = r[N]
  BY DEF Needed, Levels
<1> HIDE DEF r
<1> DEFINE s == [n \in Nat |-> Small(r[n])]
<1>4. N \in Nat /\ \A n \in Nat : /\ IsFiniteSet(s[n]) /\ Cardinality(s[n]) \in Nat
                                  /\ Cardinality(s[n]) <= N
  BY <1>1, SmallFacts
<1>5. \A n \in Nat : s[n] \subseteq s[n + 1]
  BY <1>2 DEF Small
<1>6. ASSUME NEW n \in Nat, s[n] = s[n + 1] PROVE r[n + 2] = r[n + 1]
  <2>1. n + 1 \in Nat /\ (n + 1) + 1 = n + 2
    OBVIOUS
  <2>2. r[(n + 1) + 1] = Grown(r[n + 1]) /\ r[n + 1] = Grown(r[n])
    <3> DEFINE m == n + 1
    <3>1. m \in Nat
      OBVIOUS
    <3> HIDE DEF m
    <3>2. r[m + 1] = Grown(r[m])
      BY <3>1, <1>1
    <3> QED
      BY <3>2, <1>1 DEF m
  <2>3. Small(r[n + 1]) = Small(r[n])
    BY <2>1, <1>6
  <2>4. Grown(r[n + 1]) = r[n + 1]
    BY <2>2, <2>3 DEF Grown
  <2> QED
    BY <2>1, <2>2, <2>4
<1>7. \E n \in Nat : n <= N /\ r[n + 1] = r[n]
  <2>1. SUFFICES ASSUME \A n \in Nat : n <= N => r[n + 1] # r[n]
                 PROVE  FALSE
    OBVIOUS
  <2>2. s[0] # {}
    <3>1. SUFFICES ASSUME s[0] = {} PROVE FALSE
      OBVIOUS
    <3>2. r[0 + 1] = Grown(r[0])
      BY <1>1
    <3>3. Grown(r[0]) = r[0]
      BY <3>1 DEF Grown
    <3> QED
      BY <3>2, <3>3, <2>1, <1>4
  <2> DEFINE T == {n \in Nat : n <= N => Cardinality(s[n]) >= n + 1}
  <2>3. 0 \in T
    <3>1. IsFiniteSet(s[0]) /\ Cardinality(s[0]) \in Nat
      BY <1>4
    <3>2. Cardinality(s[0]) # 0
      BY <3>1, <2>2, FS_EmptySet
    <3> HIDE DEF s
    <3> QED
      BY <3>1, <3>2
  <2>4. ASSUME NEW n \in T PROVE n + 1 \in T
    <3>1. n \in Nat /\ n + 1 \in Nat
      OBVIOUS
    <3>2. SUFFICES ASSUME n + 1 <= N PROVE Cardinality(s[n + 1]) >= (n + 1) + 1
      BY <3>1
    <3>3. Cardinality(s[n]) >= n + 1
      BY <3>1, <3>2, <1>4
    <3>4. s[n] # s[n + 1]
      <4>1. r[(n + 1) + 1] # r[n + 1]
        BY <3>1, <3>2, <2>1
      <4>2. (n + 1) + 1 = n + 2
        BY <3>1
      <4> HIDE DEF s, N
      <4>3. s[n] = s[n + 1] => r[n + 2] = r[n + 1]
        BY <3>1, <1>6
      <4>4. r[n + 2] = r[(n + 1) + 1]
        BY <4>2
      <4> QED
        BY <4>1, <4>3, <4>4
    <3> HIDE DEF s
    <3> DEFINE a == s[n]
               b == s[n + 1]
    <3>5. a \in SUBSET b /\ a # b /\ IsFiniteSet(b)
      BY <3>1, <3>4, <1>4, <1>5
    <3> HIDE DEF a, b
    <3>6. Cardinality(a) <= Cardinality(b) /\ Cardinality(a) # Cardinality(b)
      BY <3>5, FS_Subset
    <3>7. Cardinality(a) \in Nat /\ Cardinality(b) \in Nat
      BY <3>1, <1>4 DEF a, b
    <3>8. Cardinality(a) >= n + 1
      BY <3>3 DEF a
    <3>9. Cardinality(b) >= (n + 1) + 1
      BY <3>1, <3>6, <3>7, <3>8
    <3> QED
      BY <3>9 DEF b
  <2>5. T \in SUBSET Nat
    OBVIOUS
  <2>6. T = Nat
    <3> HIDE DEF T
    <3> QED
      BY <2>3, <2>4, <2>5, Counting
  <2> HIDE DEF s, N
  <2>7. N <= N /\ N \in T
    <3>1. N \in Nat
      BY <1>4
    <3> HIDE DEF T
    <3> QED
      BY <3>1, <2>6
  <2>8. Cardinality(s[N]) >= N + 1
    BY <2>7
  <2> QED
    BY <2>8, <1>4
<1>8. PICK n \in Nat : n <= N /\ r[n + 1] = r[n]
  BY <1>7
<1> DEFINE T == {m \in Nat : r[n + m] = r[n]}
<1>9. T = Nat
  <2>1. 0 \in T
    OBVIOUS
  <2>2. ASSUME NEW m \in T PROVE m + 1 \in T
    <3>1. m \in Nat /\ r[n + m] = r[n]
      OBVIOUS
    <3> DEFINE k == n + m
    <3>2. k \in Nat /\ k + 1 = n + (m + 1)
      BY <3>1
    <3>3. r[k] = r[n]
      BY <3>1
    <3> HIDE DEF k
    <3>4. r[k + 1] = Grown(r[k]) /\ r[n + 1] = Grown(r[n])
      BY <3>2, <1>1
    <3>5. r[n + (m + 1)] = r[n]
      BY <3>2, <3>3, <3>4, <1>8
    <3> QED
      BY <3>1, <3>5
  <2>3. T \in SUBSET Nat
    OBVIOUS
  <2> HIDE DEF T
  <2> QED
    BY <2>1, <2>2, <2>3, Counting
<1>10. r[N + 1] = r[N]
  <2> DEFINE a == N - n
             b == (N + 1) - n
  <2>1. a \in Nat /\ b \in Nat /\ n + a = N /\ n + b = N + 1
    BY <1>4, <1>8
  <2> HIDE DEF a, b
  <2>2. a \in T /\ b \in T
    BY <2>1, <1>9
  <2>3. r[n + a] = r[n] /\ r[n + b] = r[n]
    BY <2>2
  <2> QED
    BY <2>1, <2>3
<1>11. Grown(r[N]) = r[N]
  <2>1. r[N + 1] = Grown(r[N])
    BY <1>1, <1>4
  <2> QED
    BY <2>1, <1>10
<1>12. Closed(r[N])
  <2>1. Elems(entries) \subseteq r[N]
    BY <1>1, <1>2, <1>4
  <2>2. \A k \in r[N] : ~IsLarge(k) => Calls(k) \subseteq r[N]
    BY <1>11 DEF Grown, Small
  <2> QED
    BY <2>1, <2>2 DEF Closed
<1>13. r[N] \in SUBSET Key /\ IsFiniteSet(r[N]) /\ \A K : Closed(K) => r[N] \subseteq K
  BY <1>1, <1>2, <1>4
<1> QED
  BY <1>3, <1>12, <1>13

-------------------------------------------------------------------------------
(* The inductive invariant.                                                    *)

Pending == [key : Key, depth : 0..MaxDepth]
FrameType == [key : Key, todo : Seq(Key), named : SUBSET Key, depth : Nat]

Once(seq) == \A i, j \in DOMAIN seq : seq[i] = seq[j] => i = j
Keys(seq) == {seq[i].key : i \in DOMAIN seq}
KeysOnce(seq) == \A i, j \in DOMAIN seq : seq[i].key = seq[j].key => i = j

(* The queued body of a stack, and the derived ones above it.                  *)
Base(s) == {s[i].key : i \in {j \in DOMAIN s : j = 1}}
Above(s) == {s[i].key : i \in {j \in DOMAIN s : j # 1}}

Admitted(k) == Kind(k) \in {"source", "method"} /\ ~IsLarge(k)
Built(k) == Kind(k) \in {"derived", "generic"} /\ ~IsLarge(k)

TypeInv ==
  /\ program \in Programs
  /\ phase \in {"start", "roots", "running", "done"}
  /\ entries \in Seq(Key) /\ roots \in Seq(Key)
  /\ order \in Seq(Key) /\ derived \in Seq(Key)
  /\ queue \in Seq(Pending)
  /\ DOMAIN funs \subseteq Key

(* The lists have no repetitions and stay within the limits.                   *)
Names(o, d, q, made) ==
  /\ Len(o) <= MaxInstantiations
  /\ Once(o) /\ Once(d) /\ KeysOnce(q)
  /\ \A k \in Elems(o) : Admitted(k)
  /\ \A k \in Elems(d) : Built(k)
  /\ Keys(q) \subseteq Elems(o)
  /\ made \subseteq Elems(o) \cup Elems(d)

NamesInv == Names(order, derived, queue, DOMAIN funs)

PhaseInv ==
  /\ \A k \in Elems(entries) : Kind(k) = "source"
  /\ Elems(roots) \subseteq Elems(entries)
  /\ phase = "start" => order = <<>> /\ derived = <<>> /\ diagnostics = {} /\ stack = <<>>
  /\ phase \in {"running", "done"} => roots = <<>>
  /\ phase = "done" => stack = <<>> /\ queue = <<>>

(* A queued body is at the bottom; above it are derived bodies, each once,     *)
(* registered and not yet made, and each is the next call of the one below.    *)
Shape(s, named, registered, made) ==
  /\ s \in Seq(FrameType)
  /\ Base(s) \subseteq named
  /\ \A i \in DOMAIN s : i # 1 => /\ Kind(s[i].key) = "derived"
                                  /\ s[i].key \in registered /\ s[i].key \notin made
  /\ KeysOnce(s)
  /\ \A i \in DOMAIN s : i # Len(s) => s[i].todo # <<>> /\ Head(s[i].todo) = s[i + 1].key
  /\ \A i \in DOMAIN s : Elems(s[i].todo) \subseteq Calls(s[i].key)

StackInv == Shape(stack, Elems(order), Elems(derived), DOMAIN funs)

(* The driver names only what the program needs.                               *)
Needs(items) == \A K : Closed(K) => items \subseteq K
ReachInv == Needs(Elems(order) \cup Elems(derived))

(* The limit on instances is blamed when the program has more.                 *)
Exceeds == \A K \in SUBSET Key :
             IsFiniteSet(K) /\ Closed(K) => Cardinality(Queued(K)) > MaxInstantiations
FuelInv == "InstantiationFuelExhausted" \in diagnostics => Exceeds

(* While nothing is reported, what has a name is made, queued or under way;    *)
(* what a function names or its instance calls has a name; and the calls of a  *)
(* body under way are named or still to do.                                    *)
Covered(o, d, q, s, made) ==
  /\ Elems(o) \subseteq made \cup Keys(q) \cup Base(s)
  /\ Elems(d) \subseteq made \cup Above(s)
Served(fs, items) == \A k \in DOMAIN fs : fs[k] \subseteq items /\ Calls(k) \subseteq items
Complete(s, items) ==
  \A i \in DOMAIN s : /\ s[i].named \subseteq items
                      /\ Calls(s[i].key) \subseteq s[i].named \cup Elems(s[i].todo)

CleanInv ==
  diagnostics = {} =>
    /\ Elems(entries) \subseteq Elems(order) \cup Elems(roots)
    /\ Covered(order, derived, queue, stack, DOMAIN funs)
    /\ Served(funs, Elems(order) \cup Elems(derived))
    /\ Complete(stack, Elems(order) \cup Elems(derived))

Inv == TypeInv /\ NamesInv /\ PhaseInv /\ StackInv /\ ReachInv /\ FuelInv /\ CleanInv

-------------------------------------------------------------------------------
(* What the steps do to lists.                                                 *)

(* A member is somewhere in the list.                                          *)
LEMMA InIsMember == ASSUME NEW x, NEW seq PROVE In(x, seq) <=> x \in Elems(seq)
BY DEF In, Elems

(* Appending adds one member, a new one keeps the list without repetitions.    *)
LEMMA AppendFacts ==
  ASSUME NEW S, NEW seq \in Seq(S), NEW x \in S
  PROVE  /\ Append(seq, x) \in Seq(S)
         /\ Len(Append(seq, x)) = Len(seq) + 1
         /\ Elems(Append(seq, x)) = Elems(seq) \cup {x}
         /\ Once(seq) /\ x \notin Elems(seq) => Once(Append(seq, x))
<1> DEFINE t == Append(seq, x)
           n == Len(seq)
<1>1. n \in Nat /\ DOMAIN seq = 1..n
  OBVIOUS
<1>2. t \in Seq(S) /\ Len(t) = n + 1 /\ DOMAIN t = 1..n+1
  OBVIOUS
<1>3. t[n + 1] = x /\ \A i \in 1..n : t[i] = seq[i]
  OBVIOUS
<1> HIDE DEF t, n
<1>4. Elems(t) = Elems(seq) \cup {x}
  <2>1. 1..n+1 = (1..n) \cup {n + 1}
    BY <1>1
  <2> QED
    BY <1>1, <1>2, <1>3, <2>1 DEF Elems
<1>5. ASSUME Once(seq), x \notin Elems(seq) PROVE Once(t)
  <2>1. SUFFICES ASSUME NEW i \in 1..n+1, NEW j \in 1..n+1, t[i] = t[j], i # j PROVE FALSE
    BY <1>2 DEF Once
  <2>2. CASE i \in 1..n /\ j \in 1..n
    BY <1>1, <1>3, <1>5, <2>1, <2>2 DEF Once
  <2>3. CASE i = n + 1
    <3>1. j \in 1..n
      BY <1>1, <2>1, <2>3
    <3>2. seq[j] = x
      BY <1>3, <2>1, <2>3, <3>1
    <3> QED
      BY <1>1, <1>5, <3>1, <3>2 DEF Elems
  <2>4. CASE j = n + 1
    <3>1. i \in 1..n
      BY <1>1, <2>1, <2>4
    <3>2. seq[i] = x
      BY <1>3, <2>1, <2>4, <3>1
    <3> QED
      BY <1>1, <1>5, <3>1, <3>2 DEF Elems
  <2> QED
    BY <1>1, <2>1, <2>2, <2>3, <2>4
<1> QED
  BY <1>2, <1>4, <1>5 DEF t, n

(* A list that is not empty is its head and its tail.                          *)
LEMMA HeadTailFacts ==
  ASSUME NEW S, NEW seq \in Seq(S), seq # <<>>
  PROVE  /\ Head(seq) \in S /\ Tail(seq) \in Seq(S)
         /\ Elems(seq) = Elems(Tail(seq)) \cup {Head(seq)}
<1> DEFINE t == Tail(seq)
           n == Len(seq)
<1>1. n \in Nat /\ n # 0 /\ DOMAIN seq = 1..n
  OBVIOUS
<1>2. t \in Seq(S) /\ Len(t) = n - 1 /\ DOMAIN t = 1..n-1
  OBVIOUS
<1>3. Head(seq) = seq[1] /\ Head(seq) \in S /\ \A i \in 1..n-1 : t[i] = seq[i + 1]
  OBVIOUS
<1> HIDE DEF t, n
<1>4. ASSUME NEW y \in Elems(seq) PROVE y \in Elems(t) \cup {Head(seq)}
  <2>1. PICK i \in 1..n : y = seq[i]
    BY <1>1 DEF Elems
  <2>2. CASE i = 1
    BY <1>3, <2>1, <2>2
  <2>3. CASE i # 1
    <3> DEFINE j == i - 1
    <3>1. j \in 1..n-1 /\ j + 1 = i
      BY <1>1, <2>1, <2>3
    <3> HIDE DEF j
    <3>2. t[j] = y
      BY <1>3, <2>1, <3>1
    <3> QED
      BY <1>2, <3>1, <3>2 DEF Elems
  <2> QED
    BY <2>2, <2>3
<1>5. Elems(t) \subseteq Elems(seq)
  <2>1. \A i \in 1..n-1 : i + 1 \in 1..n
    BY <1>1
  <2> QED
    BY <1>1, <1>2, <1>3, <2>1 DEF Elems
<1>6. Head(seq) \in Elems(seq)
  <2>1. 1 \in 1..n
    BY <1>1
  <2> QED
    BY <1>1, <1>3, <2>1 DEF Elems
<1> QED
  BY <1>2, <1>3, <1>4, <1>5, <1>6 DEF t

(* The same for the keys of a queue.                                           *)
LEMMA QueueAppend ==
  ASSUME NEW q \in Seq(Pending), NEW p \in Pending
  PROVE  /\ Append(q, p) \in Seq(Pending)
         /\ Keys(Append(q, p)) = Keys(q) \cup {p.key}
         /\ KeysOnce(q) /\ p.key \notin Keys(q) => KeysOnce(Append(q, p))
<1> DEFINE t == Append(q, p)
           n == Len(q)
<1>1. n \in Nat /\ DOMAIN q = 1..n
  OBVIOUS
<1>2. t \in Seq(Pending) /\ DOMAIN t = 1..n+1
  OBVIOUS
<1>3. t[n + 1] = p /\ \A i \in 1..n : t[i] = q[i]
  OBVIOUS
<1> HIDE DEF t, n
<1>4. t[n + 1].key = p.key /\ \A i \in 1..n : t[i].key = q[i].key
  BY <1>3
<1>5. Keys(t) = Keys(q) \cup {p.key}
  <2>1. 1..n+1 = (1..n) \cup {n + 1}
    BY <1>1
  <2> QED
    BY <1>1, <1>2, <1>4, <2>1 DEF Keys
<1>6. ASSUME KeysOnce(q), p.key \notin Keys(q) PROVE KeysOnce(t)
  <2>1. SUFFICES ASSUME NEW i \in 1..n+1, NEW j \in 1..n+1, t[i].key = t[j].key, i # j PROVE FALSE
    BY <1>2 DEF KeysOnce
  <2>2. CASE i \in 1..n /\ j \in 1..n
    BY <1>1, <1>4, <1>6, <2>1, <2>2 DEF KeysOnce
  <2>3. CASE i = n + 1
    <3>1. j \in 1..n
      BY <1>1, <2>1, <2>3
    <3>2. q[j].key = p.key
      BY <1>4, <2>1, <2>3, <3>1
    <3> QED
      BY <1>1, <1>6, <3>1, <3>2 DEF Keys
  <2>4. CASE j = n + 1
    <3>1. i \in 1..n
      BY <1>1, <2>1, <2>4
    <3>2. q[i].key = p.key
      BY <1>4, <2>1, <2>4, <3>1
    <3> QED
      BY <1>1, <1>6, <3>1, <3>2 DEF Keys
  <2> QED
    BY <1>1, <2>1, <2>2, <2>3, <2>4
<1> QED
  BY <1>2, <1>5, <1>6 DEF t

(* A queue that is not empty is its first instance and the rest.               *)
LEMMA QueueTail ==
  ASSUME NEW q \in Seq(Pending), q # <<>>
  PROVE  /\ Head(q) \in Pending /\ Tail(q) \in Seq(Pending)
         /\ Head(q).key \in Keys(q)
         /\ Keys(q) = Keys(Tail(q)) \cup {Head(q).key}
         /\ KeysOnce(q) => KeysOnce(Tail(q)) /\ Head(q).key \notin Keys(Tail(q))
<1> DEFINE t == Tail(q)
           n == Len(q)
<1>1. n \in Nat /\ n # 0 /\ DOMAIN q = 1..n /\ 1 \in 1..n
  OBVIOUS
<1>2. t \in Seq(Pending) /\ DOMAIN t = 1..n-1
  OBVIOUS
<1>3. Head(q) = q[1] /\ Head(q) \in Pending /\ \A i \in 1..n-1 : t[i] = q[i + 1]
  OBVIOUS
<1> HIDE DEF t, n
<1>4. Head(q).key = q[1].key /\ \A i \in 1..n-1 : t[i].key = q[i + 1].key
  BY <1>3
<1>5. Head(q).key \in Keys(q)
  BY <1>1, <1>4 DEF Keys
<1>6. Keys(t) \subseteq Keys(q)
  <2>1. \A i \in 1..n-1 : i + 1 \in 1..n
    BY <1>1
  <2> QED
    BY <1>1, <1>2, <1>4, <2>1 DEF Keys
<1>7. ASSUME NEW y \in Keys(q) PROVE y \in Keys(t) \cup {Head(q).key}
  <2>1. PICK i \in 1..n : y = q[i].key
    BY <1>1 DEF Keys
  <2>2. CASE i = 1
    BY <1>4, <2>1, <2>2
  <2>3. CASE i # 1
    <3> DEFINE j == i - 1
    <3>1. j \in 1..n-1 /\ j + 1 = i
      BY <1>1, <2>1, <2>3
    <3> HIDE DEF j
    <3>2. t[j].key = y
      BY <1>4, <2>1, <3>1
    <3> QED
      BY <1>2, <3>1, <3>2 DEF Keys
  <2> QED
    BY <2>2, <2>3
<1>8. ASSUME KeysOnce(q) PROVE KeysOnce(t) /\ Head(q).key \notin Keys(t)
  <2>1. ASSUME NEW i \in 1..n-1, NEW j \in 1..n-1, t[i].key = t[j].key PROVE i = j
    <3> DEFINE a == i + 1
               b == j + 1
    <3>1. a \in 1..n /\ b \in 1..n
      BY <1>1
    <3>2. q[a].key = q[b].key
      BY <1>4, <2>1
    <3> HIDE DEF a, b
    <3>3. a = b
      BY <1>1, <1>8, <3>1, <3>2 DEF KeysOnce
    <3> QED
      BY <3>3, <1>1 DEF a, b
  <2>2. ASSUME NEW i \in 1..n-1, t[i].key = Head(q).key PROVE FALSE
    <3> DEFINE a == i + 1
    <3>1. a \in 1..n /\ a # 1
      BY <1>1
    <3>2. q[a].key = q[1].key
      BY <1>4, <2>2
    <3> HIDE DEF a
    <3> QED
      BY <1>1, <1>8, <3>1, <3>2 DEF KeysOnce
  <2> QED
    BY <1>2, <2>1, <2>2 DEF KeysOnce, Keys
<1> QED
  BY <1>2, <1>3, <1>5, <1>6, <1>7, <1>8 DEF t

(* The empty lists.                                                            *)
LEMMA EmptyFacts ==
  /\ Elems(<<>>) = {} /\ Keys(<<>>) = {} /\ Base(<<>>) = {} /\ Above(<<>>) = {}
  /\ Once(<<>>) /\ KeysOnce(<<>>)
  /\ \A S : <<>> \in Seq(S)
  /\ Len(<<>>) = 0
<1>1. DOMAIN <<>> = {} /\ Len(<<>>) = 0
  OBVIOUS
<1>2. \A S : <<>> \in Seq(S)
  OBVIOUS
<1> QED
  BY <1>1, <1>2 DEF Elems, Keys, Base, Above, Once, KeysOnce

-------------------------------------------------------------------------------
(* What the steps do to the stack.                                             *)

(* The fields of a frame whose next call is answered.                          *)
LEMMA FrameFacts ==
  ASSUME NEW f \in FrameType, f.todo # <<>>
  PROVE  /\ Head(f.todo) \in Key
         /\ Elems(f.todo) = Elems(Tail(f.todo)) \cup {Head(f.todo)}
         /\ Named(f) \in FrameType /\ Named(f).key = f.key /\ Named(f).todo = Tail(f.todo)
         /\ Named(f).named = f.named \cup {Head(f.todo)}
         /\ Skipped(f) \in FrameType /\ Skipped(f).key = f.key /\ Skipped(f).todo = Tail(f.todo)
<1>1. f.key \in Key /\ f.todo \in Seq(Key) /\ f.named \in SUBSET Key /\ f.depth \in Nat
  BY DEF FrameType
<1> DEFINE t == f.todo
<1>2. t \in Seq(Key) /\ t # <<>>
  BY <1>1
<1> HIDE DEF t
<1>3. Head(t) \in Key /\ Tail(t) \in Seq(Key) /\ Elems(t) = Elems(Tail(t)) \cup {Head(t)}
  BY <1>2, HeadTailFacts
<1> DEFINE h == Head(t)
           r == Tail(t)
<1>4. h \in Key /\ r \in Seq(Key)
  BY <1>3
<1>5. Named(f) = [f EXCEPT !.todo = r, !.named = @ \cup {h}] /\ Skipped(f) = [f EXCEPT !.todo = r]
  BY DEF Named, Skipped, t
<1> HIDE DEF h, r
<1>6. Named(f) \in FrameType /\ Skipped(f) \in FrameType
  BY <1>1, <1>4, <1>5 DEF FrameType
<1>7. /\ Named(f).key = f.key /\ Named(f).todo = r /\ Named(f).named = f.named \cup {h}
      /\ Skipped(f).key = f.key /\ Skipped(f).todo = r
  BY <1>5 DEF FrameType
<1> QED
  BY <1>3, <1>6, <1>7 DEF h, r, t

(* A new frame has all the calls of its instance to do and has named nothing.  *)
LEMMA NewFrame ==
  ASSUME program \in Programs, NEW k \in Key, NEW d \in Nat
  PROVE  /\ Frame(k, d) \in FrameType /\ Frame(k, d).key = k
         /\ Frame(k, d).todo = Targets(k) /\ Frame(k, d).named = {}
         /\ Elems(Frame(k, d).todo) = Calls(k)
<1> DEFINE t == Targets(k)
<1>1. t \in Seq(Key)
  BY TargetsType
<1>2. Frame(k, d) = [key |-> k, todo |-> t, named |-> {}, depth |-> d]
  BY DEF Frame
<1>3. Calls(k) = Elems(t)
  BY DEF Calls
<1> HIDE DEF t
<1>4. Frame(k, d) \in FrameType
  BY <1>1, <1>2 DEF FrameType
<1>5. Frame(k, d).key = k /\ Frame(k, d).todo = t /\ Frame(k, d).named = {}
  BY <1>2
<1> QED
  BY <1>3, <1>4, <1>5 DEF t

(* A shape outlives steps that add names and make other functions.             *)
LEMMA ShapeWider ==
  ASSUME NEW s, NEW N, NEW R, NEW M, Shape(s, N, R, M),
         NEW N2, NEW R2, NEW M2, N \subseteq N2, Above(s) \subseteq R2 \ M2
  PROVE  Shape(s, N2, R2, M2)
BY DEF Shape, Above

(* The last body goes on: the same keys, and fewer calls for the last one.     *)
LEMMA ShapeKept ==
  ASSUME NEW s, NEW t \in Seq(FrameType), NEW N, NEW R, NEW M, Shape(s, N, R, M),
         Len(t) = Len(s),
         \A i \in DOMAIN s : t[i].key = s[i].key /\ Elems(t[i].todo) \subseteq Elems(s[i].todo),
         \A i \in DOMAIN s : i # Len(s) => t[i].todo = s[i].todo
  PROVE  Shape(t, N, R, M) /\ Base(t) = Base(s) /\ Above(t) = Above(s)
<1>1. s \in Seq(FrameType)
  BY DEF Shape
<1>2. DOMAIN t = DOMAIN s /\ DOMAIN s = 1..Len(s) /\ Len(s) \in Nat
  BY <1>1
<1>3. Base(t) = Base(s) /\ Above(t) = Above(s)
  BY <1>2 DEF Base, Above
<1>4. Base(t) \subseteq N
  BY <1>3 DEF Shape
<1>5. \A i \in DOMAIN t : i # 1 => /\ Kind(t[i].key) = "derived"
                                   /\ t[i].key \in R /\ t[i].key \notin M
  BY <1>2 DEF Shape
<1>6. KeysOnce(t)
  BY <1>2 DEF Shape, KeysOnce
<1>7. ASSUME NEW i \in DOMAIN t, i # Len(t)
      PROVE  t[i].todo # <<>> /\ Head(t[i].todo) = t[i + 1].key
  <2>1. i \in DOMAIN s /\ i # Len(s) /\ i + 1 \in DOMAIN s
    BY <1>2, <1>7
  <2>2. s[i].todo # <<>> /\ Head(s[i].todo) = s[i + 1].key
    BY <2>1 DEF Shape
  <2>3. t[i].todo = s[i].todo
    BY <2>1
  <2> DEFINE j == i + 1
  <2>4. j \in DOMAIN s
    BY <2>1
  <2> HIDE DEF j
  <2>5. t[j].key = s[j].key
    BY <2>4
  <2> QED
    BY <2>2, <2>3, <2>5 DEF j
<1>8. ASSUME NEW i \in DOMAIN t PROVE Elems(t[i].todo) \subseteq Calls(t[i].key)
  <2>1. i \in DOMAIN s
    BY <1>2
  <2>2. Elems(s[i].todo) \subseteq Calls(s[i].key)
    BY <2>1 DEF Shape
  <2>3. t[i].key = s[i].key /\ Elems(t[i].todo) \subseteq Elems(s[i].todo)
    BY <2>1
  <2> QED
    BY <2>2, <2>3
<1>9. Shape(t, N, R, M)
  BY <1>4, <1>5, <1>6, <1>7, <1>8 DEF Shape
<1> QED
  BY <1>3, <1>9

(* A derived body is put on top.                                               *)
LEMMA ShapePush ==
  ASSUME NEW s, NEW f \in FrameType, NEW N, NEW R, NEW M, Shape(s, N, R, M), s # <<>>,
         Kind(f.key) = "derived", f.key \in R, f.key \notin M, f.key \notin Keys(s),
         Elems(f.todo) \subseteq Calls(f.key),
         s[Len(s)].todo # <<>>, Head(s[Len(s)].todo) = f.key
  PROVE  /\ Shape(Append(s, f), N, R, M)
         /\ Base(Append(s, f)) = Base(s) /\ Above(Append(s, f)) = Above(s) \cup {f.key}
<1> DEFINE t == Append(s, f)
           n == Len(s)
<1>1. s \in Seq(FrameType)
  BY DEF Shape
<1>2. n \in Nat /\ n # 0 /\ DOMAIN s = 1..n
  BY <1>1
<1>3. t \in Seq(FrameType) /\ Len(t) = n + 1 /\ DOMAIN t = 1..n+1
  BY <1>1
<1>4. t[n + 1] = f /\ \A i \in 1..n : t[i] = s[i]
  BY <1>1
<1>5. s[n].todo # <<>> /\ Head(s[n].todo) = f.key
  OBVIOUS
<1> HIDE DEF t, n
<1>6. 1..n+1 = (1..n) \cup {n + 1} /\ n + 1 # 1 /\ 1 \in 1..n
  BY <1>2
<1>7. Base(t) = Base(s)
  BY <1>2, <1>3, <1>4, <1>6 DEF Base
<1>8. Above(t) = Above(s) \cup {f.key}
  BY <1>2, <1>3, <1>4, <1>6 DEF Above
<1>9. \A i \in DOMAIN t : i # 1 => /\ Kind(t[i].key) = "derived"
                                   /\ t[i].key \in R /\ t[i].key \notin M
  BY <1>2, <1>3, <1>4, <1>6 DEF Shape
<1>10. KeysOnce(t)
  <2>1. SUFFICES ASSUME NEW i \in 1..n+1, NEW j \in 1..n+1, t[i].key = t[j].key, i # j PROVE FALSE
    BY <1>3 DEF KeysOnce
  <2>2. CASE i \in 1..n /\ j \in 1..n
    BY <1>2, <1>4, <2>1, <2>2 DEF Shape, KeysOnce
  <2>3. CASE i = n + 1
    <3>1. j \in 1..n
      BY <1>6, <2>1, <2>3
    <3>2. s[j].key = f.key
      BY <1>4, <2>1, <2>3, <3>1
    <3> QED
      BY <1>2, <3>1, <3>2 DEF Keys
  <2>4. CASE j = n + 1
    <3>1. i \in 1..n
      BY <1>6, <2>1, <2>4
    <3>2. s[i].key = f.key
      BY <1>4, <2>1, <2>4, <3>1
    <3> QED
      BY <1>2, <3>1, <3>2 DEF Keys
  <2> QED
    BY <1>6, <2>1, <2>2, <2>3, <2>4
<1>11. ASSUME NEW i \in DOMAIN t, i # Len(t)
       PROVE  t[i].todo # <<>> /\ Head(t[i].todo) = t[i + 1].key
  <2>1. i \in 1..n
    BY <1>2, <1>3, <1>11
  <2>2. t[i] = s[i]
    BY <1>4, <2>1
  <2>3. CASE i = n
    BY <1>4, <1>5, <2>2, <2>3
  <2>4. CASE i # n
    <3>1. i + 1 \in 1..n
      BY <1>2, <2>1, <2>4
    <3>2. s[i].todo # <<>> /\ Head(s[i].todo) = s[i + 1].key
      BY <1>2, <2>1, <2>4 DEF Shape, n
    <3> DEFINE j == i + 1
    <3>3. j \in 1..n
      BY <3>1
    <3> HIDE DEF j
    <3>4. t[j] = s[j]
      BY <1>4, <3>3
    <3> QED
      BY <2>2, <3>2, <3>4 DEF j
  <2> QED
    BY <2>3, <2>4
<1>12. \A i \in DOMAIN t : Elems(t[i].todo) \subseteq Calls(t[i].key)
  BY <1>2, <1>3, <1>4, <1>6 DEF Shape
<1>13. Base(t) \subseteq N
  BY <1>7 DEF Shape
<1>14. Shape(t, N, R, M)
  BY <1>3, <1>9, <1>10, <1>11, <1>12, <1>13 DEF Shape
<1> QED
  BY <1>7, <1>8, <1>14 DEF t

(* A body alone on the stack.                                                  *)
LEMMA ShapeOne ==
  ASSUME NEW f \in FrameType, NEW N, NEW R, NEW M,
         f.key \in N, Elems(f.todo) \subseteq Calls(f.key)
  PROVE  Shape(<<f>>, N, R, M) /\ Base(<<f>>) = {f.key} /\ Above(<<f>>) = {}
<1> DEFINE s == <<f>>
<1>1. s \in Seq(FrameType) /\ Len(s) = 1 /\ DOMAIN s = 1..1 /\ s[1] = f
  OBVIOUS
<1>2. 1..1 = {1}
  OBVIOUS
<1> HIDE DEF s
<1>3. Base(s) = {f.key} /\ Above(s) = {}
  BY <1>1, <1>2 DEF Base, Above
<1>4. KeysOnce(s)
  BY <1>1, <1>2 DEF KeysOnce
<1>5. Shape(s, N, R, M)
  BY <1>1, <1>2, <1>3, <1>4 DEF Shape
<1> QED
  BY <1>3, <1>5 DEF s

(* No body under way.                                                          *)
LEMMA ShapeEmpty ==
  ASSUME NEW N, NEW R, NEW M
  PROVE  Shape(<<>>, N, R, M) /\ \A items : Complete(<<>>, items)
<1>1. <<>> \in Seq(FrameType) /\ DOMAIN <<>> = {}
  OBVIOUS
<1> QED
  BY <1>1, EmptyFacts DEF Shape, Complete

(* The body on top and the ones below it.                                      *)
LEMMA TopFacts ==
  ASSUME stack \in Seq(FrameType), stack # <<>>
  PROVE  /\ Len(stack) \in Nat /\ Len(stack) # 0 /\ DOMAIN stack = 1..Len(stack)
         /\ Len(stack) \in DOMAIN stack /\ 1 \in DOMAIN stack
         /\ Top \in FrameType /\ stack[1] \in FrameType
         /\ Below \in Seq(FrameType) /\ Len(Below) = Len(stack) - 1
         /\ \A i \in 1..Len(stack) - 1 : Below[i] = stack[i]
<1>1. Len(stack) \in Nat /\ Len(stack) # 0 /\ DOMAIN stack = 1..Len(stack)
  OBVIOUS
<1>2. Len(stack) \in 1..Len(stack) /\ 1 \in 1..Len(stack)
  BY <1>1
<1>3. Top \in FrameType /\ stack[1] \in FrameType
  BY <1>1, <1>2 DEF Top
<1>4. /\ Below \in Seq(FrameType) /\ Len(Below) = Len(stack) - 1
      /\ \A i \in 1..Len(stack) - 1 : Below[i] = stack[i]
  BY <1>1 DEF Below
<1> QED
  BY <1>1, <1>2, <1>3, <1>4

(* The next call of the body on top is answered with a name.                   *)
LEMMA Answered ==
  ASSUME NEW N, NEW R, NEW M, Shape(stack, N, R, M), stack # <<>>, Top.todo # <<>>
  PROVE  LET t == Append(Below, Named(Top))
         IN  /\ Shape(t, N, R, M) /\ Base(t) = Base(stack) /\ Above(t) = Above(stack)
             /\ \A items, more : Complete(stack, items) /\ items \subseteq more /\ Callee \in more
                                   => Complete(t, more)
<1> DEFINE f == Named(Top)
           t == Append(Below, f)
           n == Len(stack)
<1>1. stack \in Seq(FrameType)
  BY DEF Shape
<1>2. /\ n \in Nat /\ n # 0 /\ DOMAIN stack = 1..n
      /\ Top \in FrameType /\ Below \in Seq(FrameType) /\ Len(Below) = n - 1
      /\ \A i \in 1..n - 1 : Below[i] = stack[i]
  BY <1>1, TopFacts
<1>3. /\ f \in FrameType /\ f.key = Top.key /\ f.todo = Tail(Top.todo)
      /\ f.named = Top.named \cup {Callee}
      /\ Elems(Top.todo) = Elems(f.todo) \cup {Callee}
  <2>1. /\ Elems(Top.todo) = Elems(Tail(Top.todo)) \cup {Head(Top.todo)}
        /\ Named(Top) \in FrameType /\ Named(Top).key = Top.key /\ Named(Top).todo = Tail(Top.todo)
        /\ Named(Top).named = Top.named \cup {Head(Top.todo)}
    BY <1>2, FrameFacts
  <2> QED
    BY <2>1 DEF Callee
<1>4. Top = stack[n]
  BY DEF Top
<1> HIDE DEF f, n
<1>5. t \in Seq(FrameType) /\ Len(t) = n /\ t[n] = f /\ \A i \in 1..n-1 : t[i] = stack[i]
  <2>1. t \in Seq(FrameType) /\ Len(t) = (n - 1) + 1
    BY <1>2, <1>3
  <2>2. t[(n - 1) + 1] = f /\ \A i \in 1..n-1 : t[i] = Below[i]
    BY <1>2, <1>3
  <2>3. (n - 1) + 1 = n
    BY <1>2
  <2> QED
    BY <1>2, <2>1, <2>2, <2>3
<1> HIDE DEF t
<1>6. ASSUME NEW i \in 1..n PROVE i = n \/ i \in 1..n-1
  BY <1>2
<1>7. \A i \in 1..n : t[i].key = stack[i].key /\ Elems(t[i].todo) \subseteq Elems(stack[i].todo)
  <2>1. TAKE i \in 1..n
  <2>2. CASE i = n
    BY <1>3, <1>4, <1>5, <2>2
  <2>3. CASE i \in 1..n-1
    BY <1>5, <2>3
  <2> QED
    BY <1>6, <2>2, <2>3
<1>8. \A i \in 1..n : i # n => t[i].todo = stack[i].todo
  BY <1>5, <1>6
<1>9. Shape(t, N, R, M) /\ Base(t) = Base(stack) /\ Above(t) = Above(stack)
  <2>1. Len(t) = Len(stack)
    BY <1>5 DEF n
  <2>2. /\ \A i \in DOMAIN stack : t[i].key = stack[i].key /\ Elems(t[i].todo) \subseteq Elems(stack[i].todo)
        /\ \A i \in DOMAIN stack : i # Len(stack) => t[i].todo = stack[i].todo
    BY <1>2, <1>7, <1>8 DEF n
  <2> QED
    BY <1>5, <2>1, <2>2, ShapeKept
<1>10. ASSUME NEW items, NEW more, Complete(stack, items), items \subseteq more, Callee \in more
       PROVE  Complete(t, more)
  <2>1. DOMAIN t = 1..n
    BY <1>5
  <2>2. ASSUME NEW i \in 1..n
        PROVE  t[i].named \subseteq more /\ Calls(t[i].key) \subseteq t[i].named \cup Elems(t[i].todo)
    <3>1. stack[i].named \subseteq items
          /\ Calls(stack[i].key) \subseteq stack[i].named \cup Elems(stack[i].todo)
      BY <1>2, <1>10 DEF Complete
    <3>2. CASE i = n
      <4>1. Top.named \subseteq items /\ Calls(Top.key) \subseteq Top.named \cup Elems(Top.todo)
        BY <1>4, <3>1, <3>2
      <4>2. t[i] = f
        BY <1>5, <3>2
      <4>3. f.named \subseteq more
        BY <1>3, <1>10, <4>1
      <4>4. Calls(f.key) \subseteq f.named \cup Elems(f.todo)
        BY <1>3, <4>1
      <4> QED
        BY <4>2, <4>3, <4>4
    <3>3. CASE i \in 1..n-1
      BY <1>5, <1>10, <3>1, <3>3
    <3> QED
      BY <1>6, <3>2, <3>3
  <2> QED
    BY <2>1, <2>2 DEF Complete
<1> QED
  BY <1>9, <1>10 DEF t, f

(* A derived body is done: the one below has its name.                         *)
LEMMA Popped ==
  ASSUME NEW N, NEW R, NEW M, Shape(stack, N, R, M), stack # <<>>, Below # <<>>
  PROVE  LET t == [Below EXCEPT ![Len(Below)] = Named(@)]
         IN  /\ Shape(t, N, R, M \cup {Top.key}) /\ Base(t) = Base(stack)
             /\ Above(stack) \subseteq Above(t) \cup {Top.key}
             /\ Top.key \in Above(stack)
             /\ \A items : Complete(stack, items) /\ Top.key \in items => Complete(t, items)
<1> DEFINE n == Len(stack)
           m == n - 1
           g == stack[m]
           f == Named(g)
           t == [Below EXCEPT ![m] = f]
<1>1. stack \in Seq(FrameType)
  BY DEF Shape
<1>2. /\ n \in Nat /\ n # 0 /\ DOMAIN stack = 1..n
      /\ Top \in FrameType /\ Below \in Seq(FrameType) /\ Len(Below) = m
      /\ \A i \in 1..m : Below[i] = stack[i]
  BY <1>1, TopFacts
<1>3. m \in Nat /\ m # 0 /\ n = m + 1 /\ m \in 1..m /\ m \in 1..n /\ m # n /\ n # 1
  <2>1. Len(Below) # 0
    BY <1>2
  <2>2. n \in Nat /\ n # 0 /\ n - 1 # 0
    BY <1>2, <2>1
  <2> HIDE DEF n
  <2> QED
    BY <2>2
<1>4. Top = stack[n]
  BY DEF Top
<1>5. g \in FrameType /\ g.todo # <<>> /\ Head(g.todo) = Top.key
  <2>1. g \in FrameType
    <3>1. m \in DOMAIN stack
      BY <1>2, <1>3
    <3> HIDE DEF m
    <3> QED
      BY <1>1, <3>1
  <2>2. stack[m].todo # <<>> /\ Head(stack[m].todo) = stack[m + 1].key
    <3> HIDE DEF m
    <3> QED
      BY <1>2, <1>3 DEF Shape, n
  <2> QED
    BY <1>3, <1>4, <2>1, <2>2
<1>6. t = [Below EXCEPT ![Len(Below)] = Named(@)]
  <2>1. Below[m] = g
    BY <1>2, <1>3
  <2>2. [Below EXCEPT ![Len(Below)] = Named(@)] = [Below EXCEPT ![Len(Below)] = Named(Below[Len(Below)])]
    OBVIOUS
  <2> HIDE DEF m, g
  <2> QED
    BY <1>2, <2>1, <2>2
<1> HIDE DEF g
<1>7. /\ f \in FrameType /\ f.key = g.key /\ f.todo = Tail(g.todo)
      /\ f.named = g.named \cup {Top.key}
      /\ Elems(g.todo) = Elems(f.todo) \cup {Top.key}
  <2>1. /\ Elems(g.todo) = Elems(Tail(g.todo)) \cup {Head(g.todo)}
        /\ Named(g) \in FrameType /\ Named(g).key = g.key /\ Named(g).todo = Tail(g.todo)
        /\ Named(g).named = g.named \cup {Head(g.todo)}
    BY <1>5, FrameFacts
  <2> QED
    BY <1>5, <2>1
<1> HIDE DEF f, m, n
<1>8. t \in Seq(FrameType) /\ Len(t) = m /\ DOMAIN t = 1..m /\ t[m] = f
      /\ \A i \in 1..m : i # m => t[i] = stack[i]
  <2>1. DOMAIN Below = 1..m
    BY <1>2
  <2>2. t \in Seq(FrameType) /\ Len(t) = m /\ DOMAIN t = 1..m
    BY <1>2, <1>3, <1>7
  <2>3. t[m] = f /\ \A i \in 1..m : i # m => t[i] = Below[i]
    BY <1>3, <2>1
  <2> QED
    BY <1>2, <2>2, <2>3
<1> HIDE DEF t
<1>9. \A i \in 1..m : t[i].key = stack[i].key /\ Elems(t[i].todo) \subseteq Elems(stack[i].todo)
  <2>1. TAKE i \in 1..m
  <2>2. CASE i = m
    BY <1>7, <1>8, <2>2 DEF g
  <2>3. CASE i # m
    BY <1>8, <2>3
  <2> QED
    BY <2>2, <2>3
<1>10. 1..n = (1..m) \cup {n} /\ n \notin 1..m /\ 1 \in 1..m /\ n \in 1..n
  BY <1>3
<1>11. Base(t) = Base(stack)
  BY <1>2, <1>8, <1>9, <1>10, <1>3 DEF Base
<1>12. Above(stack) \subseteq Above(t) \cup {Top.key} /\ Top.key \in Above(stack)
  <2>1. ASSUME NEW i \in 1..n, i # 1 PROVE stack[i].key \in Above(t) \cup {Top.key}
    <3>1. CASE i = n
      BY <1>4, <3>1
    <3>2. CASE i \in 1..m
      BY <1>8, <1>9, <2>1, <3>2 DEF Above
    <3> QED
      BY <1>10, <3>1, <3>2
  <2> QED
    BY <1>2, <1>3, <1>4, <1>10, <2>1 DEF Above
<1>13. \A i \in DOMAIN t : i # 1 => /\ Kind(t[i].key) = "derived"
                                    /\ t[i].key \in R /\ t[i].key \notin M \cup {Top.key}
  <2>1. SUFFICES ASSUME NEW i \in 1..m, i # 1
                 PROVE  Kind(t[i].key) = "derived" /\ t[i].key \in R /\ t[i].key \notin M \cup {Top.key}
    BY <1>8
  <2>2. i \in 1..n /\ i # n
    BY <1>10
  <2>3. Kind(stack[i].key) = "derived" /\ stack[i].key \in R /\ stack[i].key \notin M
    BY <1>2, <2>1, <2>2 DEF Shape
  <2>4. stack[i].key # stack[n].key
    BY <1>2, <1>10, <2>2 DEF Shape, KeysOnce
  <2>5. t[i].key = stack[i].key
    BY <1>9
  <2> QED
    BY <1>4, <2>3, <2>4, <2>5
<1>14. KeysOnce(t)
  BY <1>2, <1>8, <1>9, <1>10 DEF Shape, KeysOnce
<1>15. ASSUME NEW i \in DOMAIN t, i # Len(t)
       PROVE  t[i].todo # <<>> /\ Head(t[i].todo) = t[i + 1].key
  <2> DEFINE j == i + 1
  <2>1. i \in 1..m /\ i # m /\ j \in 1..m /\ i \in 1..n /\ i # n
    BY <1>3, <1>8, <1>15
  <2>2. stack[i].todo # <<>> /\ Head(stack[i].todo) = stack[j].key
    BY <1>2, <2>1 DEF Shape, n
  <2> HIDE DEF j
  <2>3. t[i].todo = stack[i].todo /\ t[j].key = stack[j].key
    BY <1>8, <1>9, <2>1
  <2> QED
    BY <2>2, <2>3 DEF j
<1>16. \A i \in DOMAIN t : Elems(t[i].todo) \subseteq Calls(t[i].key)
  <2>1. SUFFICES ASSUME NEW i \in 1..m PROVE Elems(t[i].todo) \subseteq Calls(t[i].key)
    BY <1>8
  <2>2. Elems(stack[i].todo) \subseteq Calls(stack[i].key)
    BY <1>2, <1>10 DEF Shape
  <2> QED
    BY <1>9, <2>2
<1>17. Shape(t, N, R, M \cup {Top.key})
  <2>1. Base(t) \subseteq N
    BY <1>11 DEF Shape
  <2> QED
    BY <1>8, <1>13, <1>14, <1>15, <1>16, <2>1 DEF Shape
<1>18. ASSUME NEW items, Complete(stack, items), Top.key \in items PROVE Complete(t, items)
  <2>1. ASSUME NEW i \in 1..m
        PROVE  t[i].named \subseteq items /\ Calls(t[i].key) \subseteq t[i].named \cup Elems(t[i].todo)
    <3>1. stack[i].named \subseteq items
          /\ Calls(stack[i].key) \subseteq stack[i].named \cup Elems(stack[i].todo)
      BY <1>2, <1>10, <1>18 DEF Complete
    <3>2. CASE i = m
      <4>1. g.named \subseteq items /\ Calls(g.key) \subseteq g.named \cup Elems(g.todo)
        BY <3>1, <3>2 DEF g
      <4>2. t[i] = f
        BY <1>8, <3>2
      <4> QED
        BY <1>7, <1>18, <4>1, <4>2
    <3>3. CASE i # m
      BY <1>8, <3>1, <3>3
    <3> QED
      BY <3>2, <3>3
  <2> QED
    BY <1>8, <2>1 DEF Complete
<1> QED
  BY <1>6, <1>11, <1>12, <1>17, <1>18

(* A call comes to nothing: only the queued body stays.                        *)
LEMMA Unwound ==
  ASSUME NEW N, NEW R, NEW M, NEW R2, NEW M2, Shape(stack, N, R, M), stack # <<>>,
         Len(stack) = 1 => Top.todo # <<>>
  PROVE  /\ Shape(<<Skipped(stack[1])>>, N, R2, M2)
         /\ Base(<<Skipped(stack[1])>>) = Base(stack)
<1> DEFINE g == stack[1]
           f == Skipped(g)
<1>1. stack \in Seq(FrameType)
  BY DEF Shape
<1>2. /\ Len(stack) \in Nat /\ Len(stack) # 0 /\ DOMAIN stack = 1..Len(stack)
      /\ 1 \in DOMAIN stack /\ g \in FrameType
  BY <1>1, TopFacts
<1>3. g.todo # <<>>
  <2>1. CASE Len(stack) = 1
    BY <2>1 DEF Top
  <2>2. CASE Len(stack) # 1
    BY <1>2, <2>2 DEF Shape
  <2> QED
    BY <2>1, <2>2
<1>4. Base(stack) = {g.key} /\ g.key \in N
  <2>1. Base(stack) = {g.key}
    BY <1>2 DEF Base
  <2>2. Base(stack) \subseteq N
    BY DEF Shape
  <2> QED
    BY <2>1, <2>2
<1>5. Elems(g.todo) \subseteq Calls(g.key)
  BY <1>2 DEF Shape
<1> HIDE DEF g
<1>6. /\ f \in FrameType /\ f.key = g.key /\ f.todo = Tail(g.todo)
      /\ Elems(g.todo) = Elems(Tail(g.todo)) \cup {Head(g.todo)}
  BY <1>2, <1>3, FrameFacts
<1> HIDE DEF f
<1>7. f.key \in N /\ Elems(f.todo) \subseteq Calls(f.key)
  BY <1>4, <1>5, <1>6
<1>8. Shape(<<f>>, N, R2, M2) /\ Base(<<f>>) = {f.key}
  BY <1>6, <1>7, ShapeOne
<1> QED
  BY <1>4, <1>6, <1>8 DEF f, g

-------------------------------------------------------------------------------
(* Names and limits.                                                           *)

(* The program does not change, nor does what is said in its terms.            *)
LEMMA SameProgram ==
  ASSUME program' = program
  PROVE  /\ \A k : /\ Kind(k)' = Kind(k) /\ Calls(k)' = Calls(k) /\ Targets(k)' = Targets(k)
                   /\ Admitted(k)' = Admitted(k) /\ Built(k)' = Built(k) /\ IsLarge(k)' = IsLarge(k)
         /\ entries' = entries => \A K : Closed(K)' = Closed(K) /\ Queued(K)' = Queued(K)
<1>1. ASSUME NEW k PROVE Kind(k)' = Kind(k) /\ Targets(k)' = Targets(k) /\ IsLarge(k)' = IsLarge(k)
  BY DEF Kind, Def, Targets, IsLarge
<1>2. ASSUME NEW k PROVE Calls(k)' = Calls(k)
  BY DEF Calls, Elems, Targets, Def
<1>3. ASSUME NEW k PROVE Admitted(k)' = Admitted(k) /\ Built(k)' = Built(k)
  BY DEF Admitted, Built, Kind, Def, IsLarge
<1>4. ASSUME entries' = entries, NEW K PROVE Closed(K)' = Closed(K) /\ Queued(K)' = Queued(K)
  <2>1. Queued(K)' = Queued(K)
    BY DEF Queued, Def
  <2>2. Closed(K)' = Closed(K)
    BY <1>4 DEF Closed, Calls, Elems, Targets, Def, IsLarge
  <2> QED
    BY <2>1, <2>2
<1> QED
  BY <1>1, <1>2, <1>3, <1>4

(* Parts of the invariant said with the values after a step hold after it.     *)
LEMMA Transfer ==
  ASSUME program' = program
  PROVE  /\ Names(order', derived', queue', DOMAIN funs') => NamesInv'
         /\ Shape(stack', Elems(order'), Elems(derived'), DOMAIN funs') => StackInv'
         /\ entries' = entries => /\ Needs(Elems(order') \cup Elems(derived')) => ReachInv'
                                  /\ Exceeds => Exceeds'
<1>1. Names(order', derived', queue', DOMAIN funs') => NamesInv'
  BY SameProgram DEF Names, NamesInv, Elems, Once, Keys, KeysOnce
<1>2. Shape(stack', Elems(order'), Elems(derived'), DOMAIN funs') => StackInv'
  BY SameProgram DEF Shape, StackInv, Elems, KeysOnce, Base
<1>3. entries' = entries /\ Needs(Elems(order') \cup Elems(derived')) => ReachInv'
  BY SameProgram DEF Needs, ReachInv, Elems
<1>4. entries' = entries /\ Exceeds => Exceeds'
  BY SameProgram DEF Exceeds, Key
<1> QED
  BY <1>1, <1>2, <1>3, <1>4

(* A list without repetitions has as many members as places.                   *)
LEMMA OnceCounts ==
  ASSUME NEW S, NEW seq \in Seq(S), Once(seq)
  PROVE  IsFiniteSet(Elems(seq)) /\ Cardinality(Elems(seq)) = Len(seq)
<1> DEFINE n == Len(seq)
           D == 1..n
           E == Elems(seq)
<1>1. n \in Nat /\ DOMAIN seq = D /\ seq \in [D -> E]
  BY DEF Elems
<1>2. IsFiniteSet(D) /\ Cardinality(D) = n
  <2>1. 1 \in Int /\ n \in Int /\ n \in Nat
    BY <1>1
  <2> HIDE DEF n
  <2>2. IsFiniteSet(1..n) /\ Cardinality(1..n) = IF 1 > n THEN 0 ELSE n - 1 + 1
    BY <2>1, FS_Interval
  <2> QED
    BY <2>1, <2>2
<1> HIDE DEF D
<1>3. seq \in Surjection(D, E)
  BY <1>1 DEF Surjection, Elems
<1>4. seq \in Injection(D, E)
  BY <1>1 DEF Injection, IsInjective, Once
<1> HIDE DEF E, n
<1>5. IsFiniteSet(E) /\ Cardinality(E) = Cardinality(D)
  BY <1>2, <1>3, <1>4, FS_Surjection
<1> QED
  BY <1>2, <1>5 DEF E, n

(* One more instance is needed than the limit admits.                          *)
LEMMA Blamed ==
  ASSUME order \in Seq(Key), Once(order), \A k \in Elems(order) : Admitted(k),
         Len(order) >= MaxInstantiations,
         NEW key \in Key, key \notin Elems(order), Kind(key) \in {"source", "method"},
         Needs(Elems(order) \cup {key})
  PROVE  Exceeds
<1> SUFFICES ASSUME NEW K \in SUBSET Key, IsFiniteSet(K), Closed(K)
             PROVE  Cardinality(Queued(K)) > MaxInstantiations
  BY DEF Exceeds
<1> DEFINE E == Elems(order)
           Q == Queued(K)
<1>1. IsFiniteSet(E) /\ Cardinality(E) = Len(order)
  BY OnceCounts
<1>2. IsFiniteSet(E \cup {key}) /\ Cardinality(E \cup {key}) = Len(order) + 1
  <2> HIDE DEF E
  <2> QED
    BY <1>1, FS_AddElement DEF E
<1>3. E \cup {key} \in SUBSET Q
  BY DEF Needs, Queued, Admitted, Kind
<1>4. IsFiniteSet(Q)
  <2>1. Q \in SUBSET K
    BY DEF Queued
  <2> HIDE DEF Q
  <2> QED
    BY <2>1, FS_Subset
<1> DEFINE F == E \cup {key}
<1>5. F \in SUBSET Q /\ IsFiniteSet(Q)
  BY <1>3, <1>4
<1>6. Cardinality(F) = Len(order) + 1
  BY <1>2
<1> HIDE DEF F, Q, E
<1>7. Cardinality(F) <= Cardinality(Q) /\ Cardinality(Q) \in Nat
  BY <1>5, FS_Subset, FS_CardinalityType
<1>8. Len(order) \in Nat
  OBVIOUS
<1>9. Cardinality(Q) > MaxInstantiations
  BY <1>6, <1>7, <1>8, LimitsAssumption
<1> QED
  BY <1>9 DEF Q

(* An instance asked for is known, admitted once, or refused with a reason.    *)
LEMMA Enqueued ==
  ASSUME TypeInv, NamesInv, FuelInv, NEW key \in Key, NEW depth \in Nat,
         Kind(key) \in {"source", "method"},
         Needs(Elems(order) \cup {key}),
         Enqueue(key, depth)
  PROVE  /\ order' \in Seq(Key) /\ queue' \in Seq(Pending)
         /\ Names(order', derived, queue', DOMAIN funs)
         /\ Elems(order) \subseteq Elems(order') /\ Elems(order') \subseteq Elems(order) \cup {key}
         /\ Keys(queue) \subseteq Keys(queue') /\ Elems(order') \subseteq Elems(order) \cup Keys(queue')
         /\ diagnostics' = {} => diagnostics = {} /\ key \in Elems(order')
         /\ "InstantiationFuelExhausted" \in diagnostics' => Exceeds
<1>1. /\ order \in Seq(Key) /\ queue \in Seq(Pending)
      /\ Names(order, derived, queue, DOMAIN funs)
      /\ Len(order) \in Nat /\ MaxInstantiations \in Nat /\ MaxDepth \in Nat
  BY LimitsAssumption DEF TypeInv, NamesInv
<1>2. /\ Len(order) <= MaxInstantiations /\ Once(order) /\ Once(derived) /\ KeysOnce(queue)
      /\ \A k \in Elems(order) : Admitted(k)
      /\ \A k \in Elems(derived) : Built(k)
      /\ Keys(queue) \subseteq Elems(order)
      /\ DOMAIN funs \subseteq Elems(order) \cup Elems(derived)
  BY <1>1 DEF Names
<1> DEFINE limit == IF In(key, order) THEN {} ELSE Limit(key, depth)
           pending == [key |-> key, depth |-> depth]
<1>3. Queueing(key, depth, In(key, order), limit)
  BY DEF Enqueue
<1>4. diagnostics' = diagnostics \cup limit
  BY <1>3 DEF Queueing
<1>5. CASE ~In(key, order) /\ limit = {}
  <2>1. order' = Append(order, key) /\ queue' = Append(queue, pending) /\ diagnostics' = diagnostics
    BY <1>3, <1>4, <1>5 DEF Queueing
  <2>2. ~IsLarge(key) /\ ~(Len(order) >= MaxInstantiations) /\ ~(depth > MaxDepth)
    BY <1>5 DEF Limit
  <2>3. pending \in Pending /\ pending.key = key
    BY <2>2, <1>1 DEF Pending
  <2>4. key \notin Elems(order)
    BY <1>5, InIsMember
  <2> HIDE DEF pending
  <2>5. /\ order' \in Seq(Key) /\ Len(order') = Len(order) + 1
        /\ Elems(order') = Elems(order) \cup {key} /\ Once(order')
    BY <1>1, <1>2, <2>1, <2>4, AppendFacts
  <2>6. queue' \in Seq(Pending) /\ Keys(queue') = Keys(queue) \cup {key} /\ KeysOnce(queue')
    <3>1. key \notin Keys(queue)
      BY <1>2, <2>4
    <3>2. /\ Append(queue, pending) \in Seq(Pending)
          /\ Keys(Append(queue, pending)) = Keys(queue) \cup {pending.key}
          /\ KeysOnce(Append(queue, pending))
      BY <1>1, <1>2, <2>3, <3>1, QueueAppend
    <3> QED
      BY <2>1, <2>3, <3>2
  <2>7. Len(order') <= MaxInstantiations
    BY <1>1, <2>2, <2>5
  <2>8. \A k \in Elems(order') : Admitted(k)
    BY <1>2, <2>2, <2>5 DEF Admitted
  <2>9. Names(order', derived, queue', DOMAIN funs)
    BY <1>2, <2>5, <2>6, <2>7, <2>8 DEF Names
  <2> QED
    BY <2>1, <2>5, <2>6, <2>9 DEF FuelInv
<1>6. CASE In(key, order) \/ limit # {}
  <2>1. order' = order /\ queue' = queue
    BY <1>3, <1>6 DEF Queueing
  <2>2. diagnostics' = {} => diagnostics = {} /\ key \in Elems(order)
    BY <1>4, <1>6, InIsMember
  <2>3. ASSUME "InstantiationFuelExhausted" \in diagnostics' PROVE Exceeds
    <3>1. CASE "InstantiationFuelExhausted" \in diagnostics
      BY <3>1 DEF FuelInv
    <3>2. CASE "InstantiationFuelExhausted" \in limit
      <4>1. ~In(key, order) /\ "InstantiationFuelExhausted" \in Limit(key, depth)
        BY <3>2
      <4>2. Len(order) >= MaxInstantiations
        BY <4>1 DEF Limit
      <4>3. key \notin Elems(order)
        BY <4>1, InIsMember
      <4> QED
        BY <1>1, <1>2, <4>2, <4>3, Blamed
    <3> QED
      BY <1>4, <2>3, <3>1, <3>2
  <2> QED
    BY <1>1, <2>1, <2>2, <2>3
<1> QED
  BY <1>5, <1>6

-------------------------------------------------------------------------------
(* The steps keep the invariant.                                               *)

(* While it works, the driver keeps the invariant if it keeps these parts.     *)
LEMMA Running ==
  ASSUME Inv, phase = "running", UNCHANGED <<program, phase, entries, roots>>,
         order' \in Seq(Key), queue' \in Seq(Pending), derived' \in Seq(Key),
         Names(order', derived', queue', DOMAIN funs'),
         Shape(stack', Elems(order'), Elems(derived'), DOMAIN funs'),
         Needs(Elems(order') \cup Elems(derived')),
         "InstantiationFuelExhausted" \in diagnostics' => Exceeds,
         diagnostics' = {} =>
           /\ diagnostics = {} /\ Elems(order) \subseteq Elems(order')
           /\ Covered(order', derived', queue', stack', DOMAIN funs')
           /\ Served(funs', Elems(order') \cup Elems(derived'))
           /\ Complete(stack', Elems(order') \cup Elems(derived'))
  PROVE  Inv'
<1>1. program' = program /\ entries' = entries /\ roots' = roots /\ phase' = "running"
  OBVIOUS
<1>2. NamesInv' /\ StackInv' /\ ReachInv' /\ FuelInv'
  BY <1>1, Transfer DEF FuelInv
<1>3. PhaseInv'
  <2>1. PhaseInv
    BY DEF Inv
  <2> QED
    BY <1>1, <2>1, SameProgram DEF PhaseInv, Elems
<1>4. TypeInv'
  <2>1. \A seq \in Seq(Key) : Elems(seq) \subseteq Key
    BY DEF Elems
  <2>2. DOMAIN funs' \subseteq Key
    BY <2>1 DEF Names
  <2>3. TypeInv
    BY DEF Inv
  <2>4. Pending' = Pending /\ Key' = Key
    BY DEF Pending, Key
  <2> QED
    BY <1>1, <2>2, <2>3, <2>4 DEF TypeInv
<1>5. CleanInv'
  <2> SUFFICES ASSUME diagnostics' = {} PROVE CleanInv'
    BY DEF CleanInv
  <2> DEFINE items == Elems(order') \cup Elems(derived')
  <2>1. /\ diagnostics = {} /\ Elems(order) \subseteq Elems(order')
        /\ Covered(order', derived', queue', stack', DOMAIN funs')
        /\ Served(funs', items) /\ Complete(stack', items)
    OBVIOUS
  <2>2. Elems(entries') \subseteq Elems(order') \cup Elems(roots')
    <3>1. Elems(entries) \subseteq Elems(order) \cup Elems(roots)
      BY <2>1 DEF Inv, CleanInv
    <3> QED
      BY <1>1, <2>1, <3>1
  <2>3. Covered(order, derived, queue, stack, DOMAIN funs)'
    BY <2>1 DEF Covered, Elems, Keys, Base, Above
  <2>4. Served(funs, Elems(order) \cup Elems(derived))'
    BY <1>1, <2>1, SameProgram DEF Served, Elems
  <2>5. Complete(stack, Elems(order) \cup Elems(derived))'
    BY <1>1, <2>1, SameProgram DEF Complete, Elems
  <2>6. (Elems(entries) \subseteq Elems(order) \cup Elems(roots))'
    BY <2>2 DEF Elems
  <2> QED
    BY <2>3, <2>4, <2>5, <2>6 DEF CleanInv
<1> QED
  BY <1>2, <1>3, <1>4, <1>5 DEF Inv

(* The call under way is needed, and the body that makes it is not too large.  *)
LEMMA CalleeFacts ==
  ASSUME Inv, stack # <<>>
  PROVE  /\ Top \in FrameType /\ Top.key \in Key /\ Top.depth \in Nat /\ CallDepth \in Nat
         /\ Top.todo \in Seq(Key)
         /\ Top.key \in Elems(order) \cup Elems(derived) /\ ~IsLarge(Top.key)
         /\ IsDerived(Top) => Len(stack) # 1
         /\ Top.todo # <<>> => /\ Callee \in Key /\ Callee \in Elems(Top.todo)
                               /\ Needs(Elems(order) \cup Elems(derived) \cup {Callee})
<1>1. /\ Shape(stack, Elems(order), Elems(derived), DOMAIN funs)
      /\ Names(order, derived, queue, DOMAIN funs)
      /\ Needs(Elems(order) \cup Elems(derived))
  BY DEF Inv, StackInv, NamesInv, ReachInv
<1>2. stack \in Seq(FrameType)
  BY <1>1 DEF Shape
<1> DEFINE n == Len(stack)
<1>3. n \in Nat /\ n # 0 /\ DOMAIN stack = 1..n /\ n \in DOMAIN stack /\ Top \in FrameType
  BY <1>2, TopFacts
<1>4. Top.key \in Key /\ Top.depth \in Nat /\ Top.todo \in Seq(Key)
  BY <1>3 DEF FrameType
<1>5. CallDepth \in Nat
  BY <1>4 DEF CallDepth
<1>6. Top = stack[n]
  BY DEF Top
<1> HIDE DEF n
<1>7. n = 1 => Top.key \in Elems(order)
  <2>1. Base(stack) \subseteq Elems(order)
    BY <1>1 DEF Shape
  <2> QED
    BY <1>3, <1>6, <2>1 DEF Base
<1>8. n # 1 => Top.key \in Elems(derived)
  BY <1>1, <1>3, <1>6 DEF Shape
<1>9. (\A k \in Elems(order) : Admitted(k)) /\ (\A k \in Elems(derived) : Built(k))
  BY <1>1 DEF Names
<1>10. Top.key \in Elems(order) \cup Elems(derived) /\ ~IsLarge(Top.key)
  BY <1>7, <1>8, <1>9 DEF Admitted, Built
<1>11. IsDerived(Top) => n # 1
  BY <1>7, <1>9 DEF IsDerived, Admitted
<1>12. ASSUME Top.todo # <<>>
       PROVE  /\ Callee \in Key /\ Callee \in Elems(Top.todo)
              /\ Needs(Elems(order) \cup Elems(derived) \cup {Callee})
  <2>1. Head(Top.todo) \in Key /\ Elems(Top.todo) = Elems(Tail(Top.todo)) \cup {Head(Top.todo)}
    BY <1>3, <1>12, FrameFacts
  <2>2. Callee \in Key /\ Callee \in Elems(Top.todo)
    BY <2>1 DEF Callee
  <2>3. Elems(Top.todo) \subseteq Calls(Top.key)
    BY <1>1, <1>3, <1>6 DEF Shape
  <2>4. ASSUME NEW K, Closed(K) PROVE Callee \in K
    <3>1. Top.key \in K
      BY <1>1, <1>10, <2>4 DEF Needs
    <3>2. Calls(Top.key) \subseteq K
      BY <1>10, <2>4, <3>1 DEF Closed
    <3> QED
      BY <2>2, <2>3, <3>2
  <2>5. Needs(Elems(order) \cup Elems(derived) \cup {Callee})
    BY <1>1, <2>4 DEF Needs
  <2> QED
    BY <2>2, <2>5
<1> QED
  BY <1>3, <1>4, <1>5, <1>10, <1>11, <1>12 DEF n

(* A failed call is reported, and the derived bodies that made it are taken    *)
(* back; none of them has a function.                                          *)
LEMMA Failed ==
  ASSUME Inv, stack # <<>>, Len(stack) = 1 => Top.todo # <<>>,
         phase = "running", UNCHANGED <<program, phase, entries, roots, order, queue, funs>>,
         NEW why, "InstantiationFuelExhausted" \notin why, Fail(why)
  PROVE  Inv'
<1>1. /\ Shape(stack, Elems(order), Elems(derived), DOMAIN funs)
      /\ Names(order, derived, queue, DOMAIN funs)
      /\ Needs(Elems(order) \cup Elems(derived))
      /\ derived \in Seq(Key) /\ order \in Seq(Key) /\ queue \in Seq(Pending)
      /\ FuelInv
  BY DEF Inv, StackInv, NamesInv, ReachInv, TypeInv
<1> DEFINE reasons == why \cup {"MissingEvidence"} \cup (IF IsDerived(Top) THEN {"UnsupportedEvidence"} ELSE {})
           GivenUp(key) == \E j \in 2..Len(stack) : stack[j].key = key
           I == {i \in DOMAIN derived : ~GivenUp(derived[i])}
<1>2. /\ stack' = <<Skipped(stack[1])>>
      /\ derived' = Pick(derived, I)
      /\ diagnostics' = diagnostics \cup reasons
  BY DEF Fail, Unwind
<1>3. stack \in Seq(FrameType)
  BY <1>1 DEF Shape
<1>4. Len(stack) \in Nat /\ DOMAIN stack = 1..Len(stack)
  BY <1>3
<1>5. \A k \in DOMAIN funs : ~GivenUp(k)
  <2>1. SUFFICES ASSUME NEW k \in DOMAIN funs, NEW j \in 2..Len(stack), stack[j].key = k PROVE FALSE
    OBVIOUS
  <2>2. j \in DOMAIN stack /\ j # 1
    BY <1>4
  <2> QED
    BY <1>1, <2>1, <2>2 DEF Shape
<1> HIDE DEF GivenUp
<1>6. I \in SUBSET (DOMAIN derived)
  OBVIOUS
<1> DEFINE d == Pick(derived, I)
<1>7. /\ d \in Seq(Key)
      /\ \A n \in DOMAIN d : \E i \in I : d[n] = derived[i]
      /\ \A i \in I : \E n \in DOMAIN d : d[n] = derived[i]
      /\ (\A i, j \in DOMAIN derived : derived[i] = derived[j] => i = j) =>
           \A m, n \in DOMAIN d : d[m] = d[n] => m = n
  <2> HIDE DEF I
  <2> QED
    BY <1>1, <1>6, PickFacts
<1> HIDE DEF d
<1>8. Elems(d) \subseteq Elems(derived) /\ \A k \in Elems(derived) : ~GivenUp(k) => k \in Elems(d)
  BY <1>7 DEF Elems
<1>9. Once(derived) => Once(d)
  BY <1>7 DEF Once
<1>10. Names(order, d, queue, DOMAIN funs)
  BY <1>1, <1>5, <1>8, <1>9 DEF Names
<1>11. Shape(stack', Elems(order), Elems(d), DOMAIN funs)
  BY <1>1, <1>2, Unwound
<1>12. Needs(Elems(order) \cup Elems(d))
  BY <1>1, <1>8 DEF Needs
<1>13. diagnostics' # {} /\ ("InstantiationFuelExhausted" \in diagnostics' => Exceeds)
  BY <1>1, <1>2 DEF FuelInv
<1>14. derived' = d /\ order' = order /\ queue' = queue /\ funs' = funs
  BY <1>2 DEF d
<1> QED
  BY <1>1, <1>7, <1>10, <1>11, <1>12, <1>13, <1>14, Running

(* What the invariant says while a call is under way.                          *)
LEMMA CallFacts ==
  ASSUME Inv, phase = "running", stack # <<>>, Top.todo # <<>>
  PROVE  /\ Shape(stack, Elems(order), Elems(derived), DOMAIN funs)
         /\ Names(order, derived, queue, DOMAIN funs)
         /\ Needs(Elems(order) \cup Elems(derived))
         /\ Needs(Elems(order) \cup Elems(derived) \cup {Callee})
         /\ order \in Seq(Key) /\ queue \in Seq(Pending) /\ derived \in Seq(Key)
         /\ Callee \in Key /\ Top.depth \in Nat /\ CallDepth \in Nat
         /\ "InstantiationFuelExhausted" \in diagnostics => Exceeds
         /\ diagnostics = {} =>
              /\ Covered(order, derived, queue, stack, DOMAIN funs)
              /\ Served(funs, Elems(order) \cup Elems(derived))
              /\ Complete(stack, Elems(order) \cup Elems(derived))
BY CalleeFacts DEF Inv, StackInv, NamesInv, ReachInv, TypeInv, FuelInv, CleanInv

(* The call is answered with a name that is asked for in the work list.        *)
LEMMA EnqueueAnswered ==
  ASSUME Inv, phase = "running", stack # <<>>, Top.todo # <<>>,
         UNCHANGED <<program, phase, entries, roots, derived, funs>>,
         Kind(Callee) \in {"source", "method"},
         NEW depth \in Nat, Enqueue(Callee, depth), Resolved
  PROVE  Inv'
<1> DEFINE t == Append(Below, Named(Top))
<1>1. /\ Shape(stack, Elems(order), Elems(derived), DOMAIN funs)
      /\ Needs(Elems(order) \cup Elems(derived) \cup {Callee})
      /\ derived \in Seq(Key) /\ Callee \in Key
      /\ diagnostics = {} =>
           /\ Covered(order, derived, queue, stack, DOMAIN funs)
           /\ Served(funs, Elems(order) \cup Elems(derived))
           /\ Complete(stack, Elems(order) \cup Elems(derived))
  BY CallFacts
<1>2. /\ order' \in Seq(Key) /\ queue' \in Seq(Pending)
      /\ Names(order', derived, queue', DOMAIN funs)
      /\ Elems(order) \subseteq Elems(order') /\ Elems(order') \subseteq Elems(order) \cup {Callee}
      /\ Keys(queue) \subseteq Keys(queue') /\ Elems(order') \subseteq Elems(order) \cup Keys(queue')
      /\ diagnostics' = {} => diagnostics = {} /\ Callee \in Elems(order')
      /\ "InstantiationFuelExhausted" \in diagnostics' => Exceeds
  <2>1. Needs(Elems(order) \cup {Callee})
    BY <1>1 DEF Needs
  <2> QED
    BY <1>1, <2>1, Enqueued DEF Inv
<1>3. /\ Shape(t, Elems(order), Elems(derived), DOMAIN funs)
      /\ Base(t) = Base(stack) /\ Above(t) = Above(stack)
      /\ \A items, more : Complete(stack, items) /\ items \subseteq more /\ Callee \in more
                            => Complete(t, more)
  BY <1>1, Answered
<1>4. stack' = t
  BY DEF Resolved
<1> HIDE DEF t
<1>5. Shape(stack', Elems(order'), Elems(derived'), DOMAIN funs')
  <2>1. Above(t) \subseteq Elems(derived) \ DOMAIN funs
    BY <1>3 DEF Shape, Above
  <2>2. Shape(t, Elems(order'), Elems(derived), DOMAIN funs)
    BY <1>2, <1>3, <2>1, ShapeWider
  <2>3. derived' = derived /\ funs' = funs
    OBVIOUS
  <2> QED
    BY <1>4, <2>2, <2>3
<1>6. Needs(Elems(order') \cup Elems(derived'))
  BY <1>1, <1>2 DEF Needs
<1>7. ASSUME diagnostics' = {}
      PROVE  /\ diagnostics = {} /\ Elems(order) \subseteq Elems(order')
             /\ Covered(order', derived', queue', stack', DOMAIN funs')
             /\ Served(funs', Elems(order') \cup Elems(derived'))
             /\ Complete(stack', Elems(order') \cup Elems(derived'))
  <2> DEFINE items == Elems(order) \cup Elems(derived)
             more == Elems(order') \cup Elems(derived)
  <2>1. diagnostics = {} /\ Callee \in Elems(order')
    BY <1>2, <1>7
  <2>2. Covered(order, derived, queue, stack, DOMAIN funs) /\ Served(funs, items) /\ Complete(stack, items)
    BY <1>1, <2>1
  <2>3. items \subseteq more /\ Callee \in more
    BY <1>2, <2>1
  <2>4. Covered(order', derived', queue', stack', DOMAIN funs')
    BY <1>2, <1>3, <1>4, <2>2 DEF Covered
  <2>5. derived' = derived /\ funs' = funs
    OBVIOUS
  <2> HIDE DEF items, more
  <2>6. Served(funs, more)
    BY <2>2, <2>3 DEF Served
  <2>7. Complete(t, more)
    BY <1>3, <2>2, <2>3
  <2> QED
    BY <1>2, <1>4, <2>1, <2>4, <2>5, <2>6, <2>7 DEF more
<1>8. Names(order', derived', queue', DOMAIN funs') /\ derived' \in Seq(Key)
  BY <1>1, <1>2
<1> QED
  BY <1>2, <1>5, <1>6, <1>7, <1>8, Running

(* The call is answered with a name that needs no place in the work list: one  *)
(* that is registered, or one that is reported.                                *)
LEMMA NameAnswered ==
  ASSUME Inv, phase = "running", stack # <<>>, Top.todo # <<>>,
         UNCHANGED <<program, phase, entries, roots, order, queue, derived, funs>>,
         Resolved,
         "InstantiationFuelExhausted" \in diagnostics' => "InstantiationFuelExhausted" \in diagnostics,
         diagnostics' = {} => diagnostics = {} /\ Callee \in Elems(derived)
  PROVE  Inv'
<1> DEFINE t == Append(Below, Named(Top))
           items == Elems(order) \cup Elems(derived)
<1>1. /\ Shape(stack, Elems(order), Elems(derived), DOMAIN funs)
      /\ Names(order, derived, queue, DOMAIN funs)
      /\ Needs(Elems(order) \cup Elems(derived))
      /\ order \in Seq(Key) /\ queue \in Seq(Pending) /\ derived \in Seq(Key)
      /\ "InstantiationFuelExhausted" \in diagnostics => Exceeds
      /\ diagnostics = {} =>
           /\ Covered(order, derived, queue, stack, DOMAIN funs)
           /\ Served(funs, items) /\ Complete(stack, items)
  BY CallFacts
<1>2. /\ Shape(t, Elems(order), Elems(derived), DOMAIN funs)
      /\ Base(t) = Base(stack) /\ Above(t) = Above(stack)
      /\ \A its, more : Complete(stack, its) /\ its \subseteq more /\ Callee \in more
                          => Complete(t, more)
  BY <1>1, Answered
<1>3. stack' = t /\ order' = order /\ queue' = queue /\ derived' = derived /\ funs' = funs
  BY DEF Resolved
<1> HIDE DEF t
<1>4. ASSUME diagnostics' = {}
      PROVE  /\ diagnostics = {}
             /\ Covered(order, derived, queue, t, DOMAIN funs)
             /\ Served(funs, items) /\ Complete(t, items)
  <2>1. diagnostics = {} /\ Callee \in items
    BY <1>4
  <2>2. Covered(order, derived, queue, stack, DOMAIN funs) /\ Served(funs, items) /\ Complete(stack, items)
    BY <1>1, <2>1
  <2>3. Covered(order, derived, queue, t, DOMAIN funs)
    BY <1>2, <2>2 DEF Covered
  <2> HIDE DEF items
  <2> QED
    BY <1>2, <2>1, <2>2, <2>3
<1> QED
  BY <1>1, <1>2, <1>3, <1>4, Running

(* A call of an ordinary function is answered with its name, queued or not.    *)
LEMMA FunctionStep == ASSUME Inv, SpecializeFunction PROVE Inv'
<1>1. /\ phase = "running" /\ stack # <<>> /\ Top.todo # <<>> /\ Kind(Callee) \in {"source", "absent"}
      /\ Resolved /\ UNCHANGED <<program, phase, entries, roots, derived, funs>>
  BY DEF SpecializeFunction, Calling
<1>2. CASE Kind(Callee) = "absent"
  <2>1. Report("UnresolvedExternal") /\ UNCHANGED <<order, queue>>
    BY <1>2 DEF SpecializeFunction
  <2>2. /\ diagnostics' # {}
        /\ "InstantiationFuelExhausted" \in diagnostics' => "InstantiationFuelExhausted" \in diagnostics
    BY <2>1 DEF Report
  <2> QED
    BY <1>1, <2>1, <2>2, NameAnswered
<1>3. CASE Kind(Callee) # "absent" /\ IsLarge(Callee)
  <2>1. Report("TypeSizeExceeded") /\ UNCHANGED <<order, queue>>
    BY <1>3 DEF SpecializeFunction
  <2>2. /\ diagnostics' # {}
        /\ "InstantiationFuelExhausted" \in diagnostics' => "InstantiationFuelExhausted" \in diagnostics
    BY <2>1 DEF Report
  <2> QED
    BY <1>1, <2>1, <2>2, NameAnswered
<1>4. CASE Kind(Callee) # "absent" /\ ~IsLarge(Callee)
  <2> DEFINE d == Top.depth + 1
  <2>1. Enqueue(Callee, d)
    BY <1>4 DEF SpecializeFunction
  <2>2. d \in Nat
    BY <1>1, CallFacts
  <2>3. Kind(Callee) \in {"source", "method"}
    BY <1>1, <1>4
  <2> HIDE DEF d
  <2> QED
    BY <1>1, <2>1, <2>2, <2>3, EnqueueAnswered
<1> QED
  BY <1>2, <1>3, <1>4

(* A call through a dictionary is answered, or its caller gives it up.         *)
LEMMA MethodStep == ASSUME Inv, CallInstanceMethod PROVE Inv'
<1>1. /\ phase = "running" /\ stack # <<>> /\ Top.todo # <<>> /\ Kind(Callee) \in {"source", "method"}
      /\ UNCHANGED <<program, phase, entries, roots, funs>>
  BY DEF CallInstanceMethod, Calling
<1>2. CASE IsLarge(Callee)
  <2>1. Fail({"TypeSizeExceeded"}) /\ UNCHANGED <<order, queue>>
    BY <1>2 DEF CallInstanceMethod
  <2> DEFINE why == {"TypeSizeExceeded"}
  <2>2. Fail(why) /\ "InstantiationFuelExhausted" \notin why
    BY <2>1
  <2> HIDE DEF why
  <2> QED
    BY <1>1, <2>1, <2>2, Failed
<1>3. CASE ~IsLarge(Callee)
  <2> DEFINE d == IF Kind(Callee) = "method" THEN CallDepth + 1 ELSE CallDepth
  <2>1. Enqueue(Callee, d) /\ Resolved /\ UNCHANGED derived
    BY <1>3 DEF CallInstanceMethod
  <2>2. d \in Nat
    BY <1>1, CallFacts
  <2> HIDE DEF d
  <2> QED
    BY <1>1, <2>1, <2>2, EnqueueAnswered
<1> QED
  BY <1>2, <1>3

(* A call without a dictionary is given up, with a diagnostic.                 *)
LEMMA UnsolvedStep == ASSUME Inv, CallUnsolved PROVE Inv'
<1>1. /\ phase = "running" /\ stack # <<>> /\ Top.todo # <<>>
      /\ UNCHANGED <<program, phase, entries, roots, order, queue, funs>>
      /\ Fail({})
  BY DEF CallUnsolved, Calling
<1> DEFINE why == {}
<1>2. Fail(why) /\ "InstantiationFuelExhausted" \notin why
  BY <1>1
<1> HIDE DEF why
<1> QED
  BY <1>1, <1>2, Failed

(* A new body on the stack has all its calls to do.                            *)
LEMMA CompletePush ==
  ASSUME NEW s \in Seq(FrameType), NEW f \in FrameType, NEW items, NEW more,
         Complete(s, items), items \subseteq more,
         f.named \subseteq more, Calls(f.key) \subseteq f.named \cup Elems(f.todo)
  PROVE  Complete(Append(s, f), more)
<1> DEFINE t == Append(s, f)
           n == Len(s)
<1>1. n \in Nat /\ DOMAIN s = 1..n /\ DOMAIN t = 1..n+1
  OBVIOUS
<1>2. t[n + 1] = f /\ \A i \in 1..n : t[i] = s[i]
  OBVIOUS
<1> HIDE DEF t, n
<1>3. ASSUME NEW i \in 1..n+1
      PROVE  t[i].named \subseteq more /\ Calls(t[i].key) \subseteq t[i].named \cup Elems(t[i].todo)
  <2>1. CASE i = n + 1
    BY <1>2, <2>1
  <2>2. CASE i # n + 1
    <3>1. i \in 1..n
      BY <1>1, <2>2
    <3>2. s[i].named \subseteq items /\ Calls(s[i].key) \subseteq s[i].named \cup Elems(s[i].todo)
      BY <1>1, <3>1 DEF Complete
    <3>3. t[i] = s[i]
      BY <1>2, <3>1
    <3> QED
      BY <3>2, <3>3
  <2> QED
    BY <2>1, <2>2
<1> QED
  BY <1>1, <1>3 DEF Complete, t

(* A function is made.                                                         *)
LEMMA Made ==
  ASSUME NEW key, NEW named, Make(key, named)
  PROVE  /\ DOMAIN funs' = DOMAIN funs \cup {key}
         /\ \A items : Served(funs, items) /\ named \subseteq items /\ Calls(key) \subseteq items
                         => Served(funs', items)
<1>1. funs' = [k \in DOMAIN funs \cup {key} |-> IF k = key THEN named ELSE funs[k]]
  BY DEF Make
<1>2. DOMAIN funs' = DOMAIN funs \cup {key}
  BY <1>1
<1>3. \A k \in DOMAIN funs' : funs'[k] = IF k = key THEN named ELSE funs[k]
  BY <1>1
<1> QED
  BY <1>2, <1>3 DEF Served

(* A derived instance is registered: the list has it once.                     *)
LEMMA Registered ==
  ASSUME Inv, phase = "running", stack # <<>>, Top.todo # <<>>,
         Kind(Callee) \in {"derived", "generic"}, ~In(Callee, derived), ~IsLarge(Callee),
         derived' = Append(derived, Callee)
  PROVE  /\ derived' \in Seq(Key) /\ Elems(derived') = Elems(derived) \cup {Callee}
         /\ Names(order, derived', queue, DOMAIN funs)
         /\ Callee \notin DOMAIN funs /\ Callee \notin Elems(derived) /\ Callee \notin Elems(order)
<1>1. Names(order, derived, queue, DOMAIN funs) /\ derived \in Seq(Key) /\ Callee \in Key
  BY CallFacts
<1>2. Callee \notin Elems(derived)
  BY InIsMember
<1>3. derived' \in Seq(Key) /\ Elems(derived') = Elems(derived) \cup {Callee}
      /\ (Once(derived) => Once(derived'))
  BY <1>1, <1>2, AppendFacts
<1>4. Callee \notin Elems(order)
  BY <1>1 DEF Names, Admitted
<1>5. Callee \notin DOMAIN funs
  BY <1>1, <1>2, <1>4 DEF Names
<1>6. Names(order, derived', queue, DOMAIN funs)
  BY <1>1, <1>3 DEF Names, Built
<1> QED
  BY <1>2, <1>3, <1>4, <1>5, <1>6

(* A call of a derived function is answered by the list, pushed or given up.   *)
LEMMA DerivedStep == ASSUME Inv, SpecializeDerived PROVE Inv'
<1>1. /\ phase = "running" /\ stack # <<>> /\ Top.todo # <<>> /\ Kind(Callee) = "derived"
      /\ UNCHANGED <<program, phase, entries, roots, order, queue, funs>>
  BY DEF SpecializeDerived, Calling
<1>2. CASE In(Callee, derived)
  <2>1. Resolved /\ UNCHANGED <<derived, diagnostics>>
    BY <1>2 DEF SpecializeDerived
  <2>2. Callee \in Elems(derived)
    BY <1>2, InIsMember
  <2> QED
    BY <1>1, <2>1, <2>2, NameAnswered
<1>3. CASE ~In(Callee, derived) /\ IsLarge(Callee)
  <2> DEFINE why == {"TypeSizeExceeded"}
  <2>1. Fail(why) /\ "InstantiationFuelExhausted" \notin why
    BY <1>3 DEF SpecializeDerived
  <2> HIDE DEF why
  <2> QED
    BY <1>1, <2>1, Failed
<1>4. CASE ~In(Callee, derived) /\ ~IsLarge(Callee)
  <2> DEFINE f == Frame(Callee, CallDepth)
             items == Elems(order) \cup Elems(derived)
             more == Elems(order) \cup Elems(derived')
             t == Append(stack, f)
  <2>1. /\ derived' = Append(derived, Callee) /\ stack' = t /\ diagnostics' = diagnostics
        /\ order' = order /\ queue' = queue /\ funs' = funs
    BY <1>1, <1>4 DEF SpecializeDerived
  <2>2. /\ Shape(stack, Elems(order), Elems(derived), DOMAIN funs)
        /\ Names(order, derived, queue, DOMAIN funs)
        /\ Needs(items \cup {Callee})
        /\ order \in Seq(Key) /\ queue \in Seq(Pending)
        /\ Callee \in Key /\ CallDepth \in Nat
        /\ "InstantiationFuelExhausted" \in diagnostics => Exceeds
        /\ diagnostics = {} =>
             /\ Covered(order, derived, queue, stack, DOMAIN funs)
             /\ Served(funs, items) /\ Complete(stack, items)
    BY <1>1, CallFacts
  <2>3. /\ derived' \in Seq(Key) /\ Elems(derived') = Elems(derived) \cup {Callee}
        /\ Names(order, derived', queue, DOMAIN funs)
        /\ Callee \notin DOMAIN funs /\ Callee \notin Elems(derived) /\ Callee \notin Elems(order)
    <3>1. Kind(Callee) \in {"derived", "generic"}
      BY <1>1
    <3> QED
      BY <1>1, <1>4, <2>1, <3>1, Registered
  <2>4. /\ f \in FrameType /\ f.key = Callee /\ f.named = {} /\ Elems(f.todo) = Calls(Callee)
    <3>1. program \in Programs
      BY DEF Inv, TypeInv
    <3> QED
      BY <2>2, <3>1, NewFrame
  <2> HIDE DEF f
  <2>5. Shape(stack, Elems(order), Elems(derived'), DOMAIN funs)
    <3>1. Above(stack) \subseteq Elems(derived') \ DOMAIN funs
      BY <2>2, <2>3 DEF Shape, Above
    <3> QED
      BY <2>2, <3>1, ShapeWider
  <2>6. stack \in Seq(FrameType)
    BY <2>2 DEF Shape
  <2>7. f.key \notin Keys(stack)
    <3>1. Keys(stack) \subseteq Base(stack) \cup Above(stack)
      BY DEF Keys, Base, Above
    <3>2. Base(stack) \subseteq Elems(order) /\ Above(stack) \subseteq Elems(derived)
      BY <2>2 DEF Shape, Above
    <3> QED
      BY <2>3, <2>4, <3>1, <3>2
  <2>8. Shape(t, Elems(order), Elems(derived'), DOMAIN funs) /\ Base(t) = Base(stack)
        /\ Above(t) = Above(stack) \cup {f.key}
    <3>1. stack[Len(stack)].todo # <<>> /\ Head(stack[Len(stack)].todo) = f.key
      BY <1>1, <2>4 DEF Top, Callee
    <3>2. /\ Kind(f.key) = "derived" /\ f.key \in Elems(derived') /\ f.key \notin DOMAIN funs
          /\ Elems(f.todo) \subseteq Calls(f.key) /\ stack # <<>>
      BY <1>1, <2>3, <2>4
    <3> QED
      BY <2>4, <2>5, <2>7, <3>1, <3>2, ShapePush
  <2>9. Needs(more)
    BY <2>2, <2>3 DEF Needs
  <2>10. ASSUME diagnostics = {}
         PROVE  /\ Covered(order, derived', queue, t, DOMAIN funs)
                /\ Served(funs, more) /\ Complete(t, more)
    <3>1. Covered(order, derived, queue, stack, DOMAIN funs) /\ Served(funs, items) /\ Complete(stack, items)
      BY <2>2, <2>10
    <3>2. Covered(order, derived', queue, t, DOMAIN funs)
      BY <2>3, <2>4, <2>8, <3>1 DEF Covered
    <3>3. items \subseteq more
      BY <2>3
    <3> HIDE DEF items, more
    <3>4. Served(funs, more)
      BY <3>1, <3>3 DEF Served
    <3>5. Complete(t, more)
      BY <2>4, <2>6, <3>1, <3>3, CompletePush
    <3> QED
      BY <3>2, <3>4, <3>5
  <2> HIDE DEF t
  <2> QED
    BY <1>1, <2>1, <2>2, <2>3, <2>8, <2>9, <2>10, Running
<1> QED
  BY <1>2, <1>3, <1>4

(* A conversion is answered by the list, made at once or given up.             *)
LEMMA GenericStep == ASSUME Inv, SpecializeDerivedGeneric PROVE Inv'
<1>1. /\ phase = "running" /\ stack # <<>> /\ Top.todo # <<>> /\ Kind(Callee) = "generic"
      /\ UNCHANGED <<program, phase, entries, roots, order, queue>>
  BY DEF SpecializeDerivedGeneric, Calling
<1>2. CASE In(Callee, derived)
  <2>1. Resolved /\ UNCHANGED <<derived, funs, diagnostics>>
    BY <1>2 DEF SpecializeDerivedGeneric
  <2>2. Callee \in Elems(derived)
    BY <1>2, InIsMember
  <2> QED
    BY <1>1, <2>1, <2>2, NameAnswered
<1>3. CASE ~In(Callee, derived) /\ IsLarge(Callee)
  <2> DEFINE why == {"TypeSizeExceeded"}
  <2>1. Fail(why) /\ "InstantiationFuelExhausted" \notin why /\ UNCHANGED funs
    BY <1>3 DEF SpecializeDerivedGeneric
  <2> HIDE DEF why
  <2> QED
    BY <1>1, <2>1, Failed
<1>4. CASE ~In(Callee, derived) /\ ~IsLarge(Callee)
  <2> DEFINE items == Elems(order) \cup Elems(derived)
             more == Elems(order) \cup Elems(derived')
             t == Append(Below, Named(Top))
             made == DOMAIN funs'
  <2>1. /\ derived' = Append(derived, Callee) /\ stack' = t
        /\ order' = order /\ queue' = queue
    BY <1>1, <1>4 DEF SpecializeDerivedGeneric, Resolved
  <2>2. \/ Make(Callee, {}) /\ diagnostics' = diagnostics
        \/ diagnostics' = diagnostics \cup {"UnsupportedEvidence"} /\ funs' = funs
    BY <1>4 DEF SpecializeDerivedGeneric, Report
  <2>3. /\ Shape(stack, Elems(order), Elems(derived), DOMAIN funs)
        /\ Needs(items \cup {Callee})
        /\ order \in Seq(Key) /\ queue \in Seq(Pending)
        /\ Callee \in Key
        /\ "InstantiationFuelExhausted" \in diagnostics => Exceeds
        /\ diagnostics = {} =>
             /\ Covered(order, derived, queue, stack, DOMAIN funs)
             /\ Served(funs, items) /\ Complete(stack, items)
    BY <1>1, CallFacts
  <2>4. /\ derived' \in Seq(Key) /\ Elems(derived') = Elems(derived) \cup {Callee}
        /\ Names(order, derived', queue, DOMAIN funs)
        /\ Callee \notin DOMAIN funs /\ Callee \notin Elems(derived) /\ Callee \notin Elems(order)
    <3>1. Kind(Callee) \in {"derived", "generic"}
      BY <1>1
    <3> QED
      BY <1>1, <1>4, <2>1, <3>1, Registered
  <2>5. made = DOMAIN funs \cup {Callee} \/ made = DOMAIN funs
    BY <2>2, Made
  <2>6. Names(order, derived', queue, made)
    <3> HIDE DEF made
    <3> QED
      BY <2>4, <2>5 DEF Names
  <2>7. /\ Shape(t, Elems(order), Elems(derived), DOMAIN funs)
        /\ Base(t) = Base(stack) /\ Above(t) = Above(stack)
        /\ \A its, mor : Complete(stack, its) /\ its \subseteq mor /\ Callee \in mor
                           => Complete(t, mor)
    BY <1>1, <2>3, Answered
  <2> HIDE DEF t, made
  <2>8. Shape(t, Elems(order), Elems(derived'), made)
    <3>1. Above(t) \subseteq Elems(derived) \ DOMAIN funs
      BY <2>7 DEF Shape, Above
    <3>2. Above(t) \subseteq Elems(derived') \ made
      BY <2>4, <2>5, <3>1
    <3> QED
      BY <2>7, <3>2, ShapeWider
  <2>9. Needs(more)
    BY <2>3, <2>4 DEF Needs
  <2>10. "InstantiationFuelExhausted" \in diagnostics' => Exceeds
    BY <2>2, <2>3
  <2>11. ASSUME diagnostics' = {}
         PROVE  /\ diagnostics = {}
                /\ Covered(order, derived', queue, t, made)
                /\ Served(funs', more) /\ Complete(t, more)
    <3>1. diagnostics = {} /\ Make(Callee, {})
      BY <2>2, <2>11
    <3>2. Covered(order, derived, queue, stack, DOMAIN funs) /\ Served(funs, items) /\ Complete(stack, items)
      BY <2>3, <3>1
    <3>3. made = DOMAIN funs \cup {Callee}
          /\ \A its : Served(funs, its) /\ {} \subseteq its /\ Calls(Callee) \subseteq its
                        => Served(funs', its)
      BY <3>1, Made DEF made
    <3>4. Covered(order, derived', queue, t, made)
      BY <2>4, <2>7, <3>2, <3>3 DEF Covered
    <3>5. items \subseteq more /\ Callee \in more
      BY <2>4
    <3> HIDE DEF items, more
    <3>6. Served(funs, more)
      BY <3>2, <3>5 DEF Served
    <3>7. Calls(Callee) = {}
      <4>1. program \in Programs
        BY DEF Inv, TypeInv
      <4> QED
        BY <1>1, <2>3, <4>1, TargetsType
    <3>8. Served(funs', more)
      BY <3>3, <3>6, <3>7
    <3>9. Complete(t, more)
      BY <2>7, <3>2, <3>5
    <3> QED
      BY <3>1, <3>4, <3>8, <3>9
  <2> QED
    BY <1>1, <2>1, <2>3, <2>4, <2>6, <2>8, <2>9, <2>10, <2>11, Running DEF made
<1> QED
  BY <1>2, <1>3, <1>4

(* A body whose calls are all resolved becomes a function, or is given up.     *)
LEMMA BuildStep == ASSUME Inv, BuildDone PROVE Inv'
<1> DEFINE items == Elems(order) \cup Elems(derived)
<1>1. /\ phase = "running" /\ stack # <<>> /\ Top.todo = <<>>
      /\ UNCHANGED <<program, phase, entries, roots, order, queue>>
  BY DEF BuildDone
<1>2. /\ Shape(stack, Elems(order), Elems(derived), DOMAIN funs)
      /\ Names(order, derived, queue, DOMAIN funs)
      /\ Needs(items)
      /\ order \in Seq(Key) /\ queue \in Seq(Pending) /\ derived \in Seq(Key)
      /\ "InstantiationFuelExhausted" \in diagnostics => Exceeds
      /\ diagnostics = {} =>
           /\ Covered(order, derived, queue, stack, DOMAIN funs)
           /\ Served(funs, items) /\ Complete(stack, items)
  BY DEF Inv, StackInv, NamesInv, ReachInv, TypeInv, FuelInv, CleanInv
<1>3. /\ Top.key \in items
      /\ IsDerived(Top) => Len(stack) # 1
  BY <1>1, CalleeFacts
<1>4. stack \in Seq(FrameType)
  BY <1>2 DEF Shape
<1>5. /\ Len(stack) \in Nat /\ Len(stack) # 0 /\ DOMAIN stack = 1..Len(stack)
      /\ Len(stack) \in DOMAIN stack /\ Below \in Seq(FrameType) /\ Len(Below) = Len(stack) - 1
  BY <1>1, <1>4, TopFacts
<1>6. CASE Def(Top.key).body = "ok"
  <2> DEFINE made == DOMAIN funs'
  <2>1. /\ Make(Top.key, Top.named) /\ derived' = derived /\ diagnostics' = diagnostics
        /\ order' = order /\ queue' = queue
        /\ stack' = IF Below = <<>> THEN <<>> ELSE [Below EXCEPT ![Len(Below)] = Named(@)]
    BY <1>1, <1>6 DEF BuildDone
  <2>2. /\ made = DOMAIN funs \cup {Top.key}
        /\ \A its : Served(funs, its) /\ Top.named \subseteq its /\ Calls(Top.key) \subseteq its
                      => Served(funs', its)
    BY <2>1, Made
  <2> HIDE DEF made
  <2>3. Names(order, derived, queue, made)
    BY <1>2, <1>3, <2>2 DEF Names
  <2>4. diagnostics = {} => Served(funs', items)
    <3> SUFFICES ASSUME diagnostics = {} PROVE Served(funs', items)
      OBVIOUS
    <3>1. Served(funs, items) /\ Complete(stack, items)
      BY <1>2
    <3>2. Top.named \subseteq items /\ Calls(Top.key) \subseteq Top.named \cup Elems(Top.todo)
      BY <1>5, <3>1 DEF Complete, Top
    <3>3. Elems(Top.todo) = {}
      BY <1>1, EmptyFacts
    <3> HIDE DEF items
    <3>4. Calls(Top.key) \subseteq items
      BY <3>2, <3>3
    <3> QED
      BY <2>2, <3>1, <3>2, <3>4
  <2>5. CASE Below = <<>>
    <3>1. stack' = <<>>
      BY <2>1, <2>5
    <3>2. Len(stack) = 1
      <4>1. Len(Below) = 0
        BY <2>5, EmptyFacts
      <4> QED
        BY <1>5, <4>1
    <3>3. Base(stack) \subseteq {Top.key} /\ Above(stack) = {}
      <4>1. DOMAIN stack = {1}
        BY <1>5, <3>2
      <4> QED
        BY <3>2, <4>1 DEF Base, Above, Top
    <3>4. Shape(<<>>, Elems(order), Elems(derived), made) /\ Complete(<<>>, items)
      BY ShapeEmpty
    <3>5. diagnostics = {} => Covered(order, derived, queue, <<>>, made)
      <4> SUFFICES ASSUME diagnostics = {} PROVE Covered(order, derived, queue, <<>>, made)
        OBVIOUS
      <4>1. Covered(order, derived, queue, stack, DOMAIN funs)
        BY <1>2
      <4> QED
        BY <2>2, <3>3, <4>1, EmptyFacts DEF Covered
    <3> QED
      BY <1>1, <1>2, <2>1, <2>3, <2>4, <3>1, <3>4, <3>5, Running DEF made
  <2>6. CASE Below # <<>>
    <3> DEFINE t == [Below EXCEPT ![Len(Below)] = Named(@)]
    <3>1. stack' = t
      BY <2>1, <2>6
    <3>2. /\ Shape(t, Elems(order), Elems(derived), DOMAIN funs \cup {Top.key}) /\ Base(t) = Base(stack)
          /\ Above(stack) \subseteq Above(t) \cup {Top.key}
          /\ \A its : Complete(stack, its) /\ Top.key \in its => Complete(t, its)
      BY <1>1, <1>2, <2>6, Popped
    <3> HIDE DEF t
    <3>3. Shape(t, Elems(order), Elems(derived), made)
      BY <2>2, <3>2
    <3>4. diagnostics = {} => Covered(order, derived, queue, t, made) /\ Complete(t, items)
      <4> SUFFICES ASSUME diagnostics = {}
                   PROVE  Covered(order, derived, queue, t, made) /\ Complete(t, items)
        OBVIOUS
      <4>1. Covered(order, derived, queue, stack, DOMAIN funs) /\ Complete(stack, items)
        BY <1>2
      <4>2. Covered(order, derived, queue, t, made)
        BY <2>2, <3>2, <4>1 DEF Covered
      <4> HIDE DEF items
      <4> QED
        BY <1>3, <3>2, <4>1, <4>2
    <3> QED
      BY <1>1, <1>2, <2>1, <2>3, <2>4, <3>1, <3>3, <3>4, Running DEF made
  <2> QED
    BY <2>5, <2>6
<1>7. CASE Def(Top.key).body # "ok" /\ IsDerived(Top)
  <2> DEFINE why == {}
  <2>1. Fail(why) /\ "InstantiationFuelExhausted" \notin why /\ UNCHANGED funs
    BY <1>7 DEF BuildDone
  <2> HIDE DEF why
  <2>2. Len(stack) # 1
    BY <1>3, <1>7
  <2> QED
    BY <1>1, <2>1, <2>2, Failed
<1>8. CASE Def(Top.key).body # "ok" /\ ~IsDerived(Top)
  <2>1. /\ stack' = <<>> /\ diagnostics' = diagnostics \cup {"MissingResolution"}
        /\ derived' = derived /\ funs' = funs /\ order' = order /\ queue' = queue
    BY <1>1, <1>8 DEF BuildDone, Report
  <2>2. Shape(<<>>, Elems(order), Elems(derived), DOMAIN funs)
    BY ShapeEmpty
  <2>3. diagnostics' # {} /\ ("InstantiationFuelExhausted" \in diagnostics' => Exceeds)
    BY <1>2, <2>1
  <2> QED
    BY <1>1, <1>2, <2>1, <2>2, <2>3, Running
<1> QED
  BY <1>6, <1>7, <1>8

(* The first instance of the queue becomes the body under way, or is dropped.  *)
LEMMA PendingStep == ASSUME Inv, SpecializePending PROVE Inv'
<1> DEFINE items == Elems(order) \cup Elems(derived)
           p == Head(queue)
           q == Tail(queue)
<1>1. /\ phase = "running" /\ stack = <<>> /\ queue # <<>> /\ queue' = q
      /\ UNCHANGED <<program, phase, entries, roots, order, derived, funs>>
  BY DEF SpecializePending
<1>2. /\ Names(order, derived, queue, DOMAIN funs)
      /\ Needs(items)
      /\ order \in Seq(Key) /\ queue \in Seq(Pending) /\ derived \in Seq(Key)
      /\ program \in Programs
      /\ "InstantiationFuelExhausted" \in diagnostics => Exceeds
      /\ diagnostics = {} =>
           /\ Covered(order, derived, queue, stack, DOMAIN funs)
           /\ Served(funs, items)
  BY DEF Inv, StackInv, NamesInv, ReachInv, TypeInv, FuelInv, CleanInv
<1>3. /\ p \in Pending /\ q \in Seq(Pending) /\ p.key \in Keys(queue)
      /\ Keys(queue) = Keys(q) \cup {p.key}
      /\ KeysOnce(queue) => KeysOnce(q) /\ p.key \notin Keys(q)
  BY <1>1, <1>2, QueueTail
<1>4. p.key \in Key /\ p.depth \in Nat
  BY <1>3, LimitsAssumption DEF Pending
<1>5. /\ p.key \in DOMAIN funs => stack' = stack /\ diagnostics' = diagnostics
      /\ p.key \notin DOMAIN funs /\ Def(p.key).body = "open" =>
           diagnostics' = diagnostics \cup {"FreeTypeVariable"} /\ stack' = stack
      /\ p.key \notin DOMAIN funs /\ Def(p.key).body # "open" =>
           stack' = <<Frame(p.key, p.depth)>> /\ diagnostics' = diagnostics
  BY DEF SpecializePending, Report
<1> HIDE DEF p, q
<1>6. Names(order, derived, q, DOMAIN funs)
  BY <1>2, <1>3 DEF Names
<1>7. p.key \in Elems(order)
  BY <1>2, <1>3 DEF Names
<1>8. Shape(<<>>, Elems(order), Elems(derived), DOMAIN funs) /\ Complete(<<>>, items)
  BY ShapeEmpty
<1>9. order' = order /\ derived' = derived /\ funs' = funs
  BY <1>1
<1>10. CASE p.key \in DOMAIN funs
  <2>1. stack' = <<>> /\ diagnostics' = diagnostics
    BY <1>1, <1>5, <1>10
  <2>2. diagnostics = {} => Covered(order, derived, q, <<>>, DOMAIN funs)
    BY <1>1, <1>2, <1>3, <1>10 DEF Covered
  <2> QED
    BY <1>1, <1>2, <1>3, <1>6, <1>8, <1>9, <2>1, <2>2, Running
<1>11. CASE p.key \notin DOMAIN funs /\ Def(p.key).body = "open"
  <2>1. stack' = <<>> /\ diagnostics' = diagnostics \cup {"FreeTypeVariable"}
    BY <1>1, <1>5, <1>11
  <2>2. diagnostics' # {} /\ ("InstantiationFuelExhausted" \in diagnostics' => Exceeds)
    BY <1>2, <2>1
  <2> QED
    BY <1>1, <1>2, <1>3, <1>6, <1>8, <1>9, <2>1, <2>2, Running
<1>12. CASE p.key \notin DOMAIN funs /\ Def(p.key).body # "open"
  <2> DEFINE f == Frame(p.key, p.depth)
             t == <<f>>
  <2>1. stack' = t /\ diagnostics' = diagnostics
    BY <1>5, <1>12
  <2>2. f \in FrameType /\ f.key = p.key /\ f.named = {} /\ Elems(f.todo) = Calls(p.key)
    BY <1>2, <1>4, NewFrame
  <2> HIDE DEF f
  <2>3. Shape(t, Elems(order), Elems(derived), DOMAIN funs) /\ Base(t) = {p.key} /\ Above(t) = {}
    <3>1. f.key \in Elems(order) /\ Elems(f.todo) \subseteq Calls(f.key)
      BY <1>7, <2>2
    <3> QED
      BY <2>2, <3>1, ShapeOne
  <2>4. Complete(t, items)
    <3>1. DOMAIN t = {1} /\ t[1] = f
      OBVIOUS
    <3>2. f.named \subseteq items /\ Calls(f.key) \subseteq f.named \cup Elems(f.todo)
      BY <2>2
    <3> HIDE DEF t, items
    <3> QED
      BY <3>1, <3>2 DEF Complete
  <2> HIDE DEF t
  <2>5. diagnostics = {} => Covered(order, derived, q, t, DOMAIN funs)
    BY <1>1, <1>2, <1>3, <2>3, EmptyFacts DEF Covered
  <2> QED
    BY <1>1, <1>2, <1>3, <1>6, <1>9, <2>1, <2>3, <2>4, <2>5, Running
<1> QED
  BY <1>10, <1>11, <1>12

(* The entry points found are source functions of the program.                 *)
LEMMA CollectStep == ASSUME Inv, CollectRoots PROVE Inv'
<1> DEFINE places == {i \in DOMAIN Candidates : IsRoot(Candidates[i])}
           found == Pick(Candidates, places)
           items == Elems(order) \cup Elems(derived)
<1>1. /\ phase = "start" /\ phase' = "roots" /\ roots' = entries'
      /\ entries' = [i \in DOMAIN found |-> [def |-> found[i], size |-> 1]]
      /\ UNCHANGED <<program, order, queue, stack, derived, funs>>
      /\ diagnostics' \subseteq {"FreeTypeVariable", "PublicComptimeParam"}
  BY DEF CollectRoots
<1>2. /\ program \in Programs /\ order = <<>> /\ derived = <<>> /\ diagnostics = {} /\ stack = <<>>
      /\ TypeInv /\ NamesInv /\ StackInv
      /\ Covered(order, derived, queue, stack, DOMAIN funs)
      /\ Served(funs, items) /\ Complete(stack, items)
  BY <1>1 DEF Inv, TypeInv, PhaseInv, CleanInv
<1>3. /\ found \in Seq(Defs)
      /\ \A n \in DOMAIN found : IsRoot(found[n])
  <2> DEFINE seq == Candidates
  <2>1. seq \in Seq(Defs)
    BY <1>2, CandidatesType
  <2> HIDE DEF seq
  <2> DEFINE I == {i \in DOMAIN seq : IsRoot(seq[i])}
  <2>2. I \in SUBSET (DOMAIN seq) /\ \A i \in I : IsRoot(seq[i])
    OBVIOUS
  <2> HIDE DEF I
  <2>3. Pick(seq, I) \in Seq(Defs) /\ \A n \in DOMAIN Pick(seq, I) : \E i \in I : Pick(seq, I)[n] = seq[i]
    BY <2>1, <2>2, PickFacts
  <2>4. \A n \in DOMAIN Pick(seq, I) : IsRoot(Pick(seq, I)[n])
    BY <2>2, <2>3
  <2> QED
    BY <2>3, <2>4 DEF I, seq
<1> HIDE DEF found
<1>4. entries' \in Seq(Key) /\ \A k \in Elems(entries') : Kind(k) = "source"
  <2>1. DOMAIN found = 1..Len(found) /\ Len(found) \in Nat /\ \A n \in DOMAIN found : found[n] \in Defs
    BY <1>3
  <2>2. DOMAIN entries' = DOMAIN found
    BY <1>1
  <2>3. ASSUME NEW n \in DOMAIN found
        PROVE  entries'[n] \in Key /\ entries'[n].def = found[n]
    <3>1. entries'[n] = [def |-> found[n], size |-> 1]
      BY <1>1
    <3> QED
      BY <2>1, <3>1 DEF Key
  <2>4. entries' \in Seq(Key)
    <3>1. entries' \in [1..Len(found) -> Key]
      BY <1>1, <2>1, <2>3
    <3> QED
      BY <2>1, <3>1
  <2>5. \A n \in DOMAIN found : Kind(entries'[n]) = "source"
    BY <1>3, <2>3 DEF Kind, Def, IsRoot
  <2> QED
    BY <2>2, <2>4, <2>5 DEF Elems
<1>5. TypeInv'
  <2>1. Pending' = Pending /\ Key' = Key
    BY DEF Pending, Key
  <2> QED
    BY <1>1, <1>2, <1>4, <2>1 DEF TypeInv
<1>6. NamesInv'
  BY <1>1, <1>2, Transfer DEF NamesInv
<1>7. StackInv'
  BY <1>1, <1>2, Transfer DEF StackInv
<1>8. PhaseInv'
  <2>1. \A k \in Elems(entries)' : Kind(k)' = "source"
    BY <1>1, <1>4, SameProgram DEF Elems
  <2>2. (Elems(roots) \subseteq Elems(entries))'
    BY <1>1 DEF Elems
  <2> QED
    BY <1>1, <2>1, <2>2 DEF PhaseInv
<1>9. ReachInv'
  <2>1. Elems(order)' = {} /\ Elems(derived)' = {}
    BY <1>1, <1>2, EmptyFacts DEF Elems
  <2> QED
    BY <2>1 DEF ReachInv, Needs
<1>10. FuelInv'
  BY <1>1 DEF FuelInv
<1>11. CleanInv'
  <2>1. (Elems(entries) \subseteq Elems(order) \cup Elems(roots))'
    BY <1>1 DEF Elems
  <2>2. Covered(order, derived, queue, stack, DOMAIN funs)'
    BY <1>1, <1>2 DEF Covered, Elems, Keys, Base, Above
  <2>3. Served(funs, Elems(order) \cup Elems(derived))'
    BY <1>1, <1>2, SameProgram DEF Served, Elems
  <2>4. Complete(stack, Elems(order) \cup Elems(derived))'
    BY <1>1, <1>2, SameProgram DEF Complete, Elems
  <2> QED
    BY <2>1, <2>2, <2>3, <2>4 DEF CleanInv
<1> QED
  BY <1>5, <1>6, <1>7, <1>8, <1>9, <1>10, <1>11 DEF Inv

(* An entry point is queued, or left out with a reason; after the last one the *)
(* work begins.                                                                *)
LEMMA RootStep == ASSUME Inv, EnqueueRoot PROVE Inv'
<1> DEFINE items == Elems(order) \cup Elems(derived)
           more == Elems(order') \cup Elems(derived')
           h == Head(roots)
<1>1. /\ phase = "roots" /\ program' = program /\ entries' = entries
      /\ stack' = stack /\ derived' = derived /\ funs' = funs
  BY DEF EnqueueRoot
<1>2. /\ TypeInv /\ NamesInv /\ PhaseInv /\ StackInv /\ ReachInv /\ FuelInv /\ CleanInv
      /\ program \in Programs /\ order \in Seq(Key) /\ roots \in Seq(Key)
  BY DEF Inv, TypeInv
<1>3. CASE roots = <<>>
  <2>1. /\ phase' = "running" /\ roots' = roots /\ order' = order /\ queue' = queue
        /\ diagnostics' = diagnostics
    BY <1>3 DEF EnqueueRoot
  <2>2. TypeInv'
    <3>1. Pending' = Pending /\ Key' = Key
      BY DEF Pending, Key
    <3> QED
      BY <1>1, <1>2, <2>1, <3>1 DEF TypeInv
  <2>3. NamesInv' /\ StackInv' /\ ReachInv' /\ FuelInv'
    BY <1>1, <1>2, <2>1, Transfer DEF NamesInv, StackInv, ReachInv, FuelInv
  <2>4. PhaseInv'
    BY <1>1, <1>2, <1>3, <2>1, SameProgram DEF PhaseInv, Elems
  <2>5. CleanInv'
    <3> SUFFICES ASSUME diagnostics' = {} PROVE CleanInv'
      BY DEF CleanInv
    <3>1. /\ Elems(entries) \subseteq Elems(order) \cup Elems(roots)
          /\ Covered(order, derived, queue, stack, DOMAIN funs)
          /\ Served(funs, items) /\ Complete(stack, items)
      BY <1>2, <2>1 DEF CleanInv
    <3>2. (Elems(entries) \subseteq Elems(order) \cup Elems(roots))'
      BY <1>1, <2>1, <3>1 DEF Elems
    <3>3. Covered(order, derived, queue, stack, DOMAIN funs)'
      BY <1>1, <2>1, <3>1 DEF Covered, Elems, Keys, Base, Above
    <3>4. Served(funs, Elems(order) \cup Elems(derived))'
      BY <1>1, <2>1, <3>1, SameProgram DEF Served, Elems
    <3>5. Complete(stack, Elems(order) \cup Elems(derived))'
      BY <1>1, <2>1, <3>1, SameProgram DEF Complete, Elems
    <3> QED
      BY <3>2, <3>3, <3>4, <3>5 DEF CleanInv
  <2> QED
    BY <2>2, <2>3, <2>4, <2>5 DEF Inv
<1>4. CASE roots # <<>>
  <2>1. Enqueue(h, 0) /\ roots' = Tail(roots) /\ phase' = phase
    BY <1>4 DEF EnqueueRoot
  <2>2. /\ h \in Key /\ roots' \in Seq(Key)
        /\ Elems(roots) = Elems(roots') \cup {h}
    BY <1>2, <1>4, <2>1, HeadTailFacts
  <2> HIDE DEF h
  <2>3. h \in Elems(entries) /\ Kind(h) = "source"
    BY <1>2, <2>2 DEF PhaseInv
  <2>4. Needs(items) /\ Needs(Elems(order) \cup {h})
    BY <1>2, <2>3 DEF ReachInv, Needs, Closed
  <2>5. /\ order' \in Seq(Key) /\ queue' \in Seq(Pending)
        /\ Names(order', derived, queue', DOMAIN funs)
        /\ Elems(order) \subseteq Elems(order') /\ Elems(order') \subseteq Elems(order) \cup {h}
        /\ Keys(queue) \subseteq Keys(queue') /\ Elems(order') \subseteq Elems(order) \cup Keys(queue')
        /\ diagnostics' = {} => diagnostics = {} /\ h \in Elems(order')
        /\ "InstantiationFuelExhausted" \in diagnostics' => Exceeds
    <3>1. 0 \in Nat
      OBVIOUS
    <3> DEFINE d == 0
    <3>2. d \in Nat /\ Enqueue(h, d)
      BY <2>1, <3>1
    <3> HIDE DEF d
    <3> QED
      BY <1>2, <2>2, <2>3, <2>4, <3>2, Enqueued
  <2>6. TypeInv'
    <3>1. Pending' = Pending /\ Key' = Key
      BY DEF Pending, Key
    <3> QED
      BY <1>1, <1>2, <2>1, <2>2, <2>5, <3>1 DEF TypeInv
  <2>7. NamesInv'
    BY <1>1, <2>5, Transfer
  <2>8. StackInv'
    <3>1. Shape(stack, Elems(order), Elems(derived), DOMAIN funs)
      BY <1>2 DEF StackInv
    <3>2. Above(stack) \subseteq Elems(derived) \ DOMAIN funs
      BY <3>1 DEF Shape, Above
    <3>3. Shape(stack, Elems(order'), Elems(derived), DOMAIN funs)
      BY <2>5, <3>1, <3>2, ShapeWider
    <3>4. Shape(stack', Elems(order'), Elems(derived'), DOMAIN funs')
      BY <1>1, <3>3
    <3> QED
      BY <1>1, <3>4, Transfer
  <2>9. ReachInv'
    <3>1. Needs(Elems(order') \cup Elems(derived'))
      BY <1>1, <2>3, <2>4, <2>5 DEF Needs, Closed
    <3> QED
      BY <1>1, <3>1, Transfer
  <2>10. FuelInv'
    BY <1>1, <2>5, Transfer DEF FuelInv
  <2>11. PhaseInv'
    <3>1. (\A k \in Elems(entries) : Kind(k) = "source")'
      BY <1>1, <1>2, SameProgram DEF PhaseInv, Elems
    <3>2. (Elems(roots) \subseteq Elems(entries))'
      <4>1. Elems(roots') \subseteq Elems(entries')
        BY <1>1, <1>2, <2>2 DEF PhaseInv
      <4> QED
        BY <4>1 DEF Elems
    <3> QED
      BY <1>1, <2>1, <3>1, <3>2 DEF PhaseInv
  <2>12. CleanInv'
    <3> SUFFICES ASSUME diagnostics' = {} PROVE CleanInv'
      BY DEF CleanInv
    <3>1. diagnostics = {} /\ h \in Elems(order')
      BY <2>5
    <3>2. /\ Elems(entries) \subseteq Elems(order) \cup Elems(roots)
          /\ Covered(order, derived, queue, stack, DOMAIN funs)
          /\ Served(funs, items) /\ Complete(stack, items)
      BY <1>2, <3>1 DEF CleanInv
    <3>3. items \subseteq more
      BY <1>1, <2>5
    <3>4. (Elems(entries) \subseteq Elems(order) \cup Elems(roots))'
      <4>1. Elems(entries') \subseteq Elems(order') \cup Elems(roots')
        BY <1>1, <2>2, <2>5, <3>1, <3>2
      <4> QED
        BY <4>1 DEF Elems
    <3>5. Covered(order, derived, queue, stack, DOMAIN funs)'
      <4>1. Covered(order', derived', queue', stack', DOMAIN funs')
        BY <1>1, <2>5, <3>2 DEF Covered
      <4> QED
        BY <4>1 DEF Covered, Elems, Keys, Base, Above
    <3>6. Served(funs', more) /\ Complete(stack', more)
      <4> HIDE DEF items, more
      <4> QED
        BY <1>1, <3>2, <3>3 DEF Served, Complete
    <3>7. Served(funs, Elems(order) \cup Elems(derived))'
      BY <1>1, <3>6, SameProgram DEF Served, Elems
    <3>8. Complete(stack, Elems(order) \cup Elems(derived))'
      BY <1>1, <3>6, SameProgram DEF Complete, Elems
    <3> QED
      BY <3>4, <3>5, <3>7, <3>8 DEF CleanInv
  <2> QED
    BY <2>6, <2>7, <2>8, <2>9, <2>10, <2>11, <2>12 DEF Inv
<1> QED
  BY <1>3, <1>4

(* A step that leaves everything but the phase alone.                          *)
LEMMA PhaseStep ==
  ASSUME Inv, UNCHANGED <<program, entries, roots, order, queue, stack, derived, funs, diagnostics>>,
         PhaseInv', phase' \in {"start", "roots", "running", "done"}
  PROVE  Inv'
<1> DEFINE items == Elems(order) \cup Elems(derived)
<1>1. /\ program' = program /\ entries' = entries /\ roots' = roots /\ order' = order
      /\ queue' = queue /\ stack' = stack /\ derived' = derived /\ funs' = funs
      /\ diagnostics' = diagnostics
      /\ TypeInv /\ NamesInv /\ StackInv /\ ReachInv /\ FuelInv /\ CleanInv
  BY DEF Inv
<1>2. TypeInv'
  <2>1. Pending' = Pending /\ Key' = Key
    BY DEF Pending, Key
  <2> QED
    BY <1>1, <2>1 DEF TypeInv
<1>3. NamesInv' /\ StackInv' /\ ReachInv' /\ FuelInv'
  BY <1>1, Transfer DEF NamesInv, StackInv, ReachInv, FuelInv
<1>4. CleanInv'
  <2> SUFFICES ASSUME diagnostics' = {} PROVE CleanInv'
    BY DEF CleanInv
  <2>1. /\ Elems(entries) \subseteq Elems(order) \cup Elems(roots)
        /\ Covered(order, derived, queue, stack, DOMAIN funs)
        /\ Served(funs, items) /\ Complete(stack, items)
    BY <1>1 DEF CleanInv
  <2>2. (Elems(entries) \subseteq Elems(order) \cup Elems(roots))'
    BY <1>1, <2>1 DEF Elems
  <2>3. Covered(order, derived, queue, stack, DOMAIN funs)'
    BY <1>1, <2>1 DEF Covered, Elems, Keys, Base, Above
  <2>4. Served(funs, Elems(order) \cup Elems(derived))'
    BY <1>1, <2>1, SameProgram DEF Served, Elems
  <2>5. Complete(stack, Elems(order) \cup Elems(derived))'
    BY <1>1, <2>1, SameProgram DEF Complete, Elems
  <2> QED
    BY <2>2, <2>3, <2>4, <2>5 DEF CleanInv
<1> QED
  BY <1>2, <1>3, <1>4 DEF Inv

(* The driver stops only when nothing is queued and no body is under way.      *)
LEMMA FinishStep == ASSUME Inv, Finish PROVE Inv'
<1>1. /\ phase = "running" /\ stack = <<>> /\ queue = <<>> /\ phase' = "done"
      /\ UNCHANGED <<program, entries, roots, order, queue, stack, derived, funs, diagnostics>>
  BY DEF Finish
<1>2. PhaseInv
  BY DEF Inv
<1>3. PhaseInv'
  BY <1>1, <1>2, SameProgram DEF PhaseInv, Elems
<1> QED
  BY <1>1, <1>3, PhaseStep

-------------------------------------------------------------------------------
(* The theorems.                                                               *)

(* The invariant holds at first.                                               *)
LEMMA InvInit == ASSUME Init PROVE Inv
<1>1. /\ program \in Programs /\ phase = "start" /\ entries = <<>> /\ roots = <<>> /\ order = <<>>
      /\ queue = <<>> /\ stack = <<>> /\ derived = <<>> /\ diagnostics = {} /\ DOMAIN funs = {}
  BY DEF Init
<1>2. TypeInv
  BY <1>1, EmptyFacts DEF TypeInv
<1>3. NamesInv
  BY <1>1, EmptyFacts, LimitsAssumption DEF NamesInv, Names
<1>4. PhaseInv
  BY <1>1, EmptyFacts DEF PhaseInv
<1>5. StackInv /\ Complete(stack, Elems(order) \cup Elems(derived))
  BY <1>1, ShapeEmpty DEF StackInv
<1>6. ReachInv
  BY <1>1, EmptyFacts DEF ReachInv, Needs
<1>7. FuelInv
  BY <1>1 DEF FuelInv
<1>8. CleanInv
  BY <1>1, <1>5, EmptyFacts DEF CleanInv, Covered, Served
<1> QED
  BY <1>2, <1>3, <1>4, <1>5, <1>6, <1>7, <1>8 DEF Inv

(* Every step keeps it.                                                        *)
LEMMA InvNext == ASSUME Inv, [Next]_vars PROVE Inv'
<1>1. CASE Next
  BY <1>1, CollectStep, RootStep, PendingStep, FunctionStep, MethodStep, UnsolvedStep,
     DerivedStep, GenericStep, BuildStep, FinishStep DEF Next
<1>2. CASE UNCHANGED vars
  <2>1. /\ UNCHANGED <<program, entries, roots, order, queue, stack, derived, funs, diagnostics>>
        /\ phase' = phase
    BY <1>2 DEF vars
  <2>2. PhaseInv /\ TypeInv
    BY DEF Inv
  <2>3. PhaseInv'
    BY <2>1, <2>2, SameProgram DEF PhaseInv, Elems
  <2>4. phase' \in {"start", "roots", "running", "done"}
    BY <2>1, <2>2 DEF TypeInv
  <2> QED
    BY <2>1, <2>3, <2>4, PhaseStep
<1> QED
  BY <1>1, <1>2

(* So it always holds.                                                         *)
LEMMA InvAlways == Spec => []Inv
<1>1. Init => Inv
  BY InvInit
<1>2. Inv /\ [Next]_vars => Inv'
  BY InvNext
<1> QED
  BY <1>1, <1>2, PTL DEF Spec

(* No instance is queued, registered or made twice, the limits on instances    *)
(* and depth are kept, and every function made has a name of the driver's,     *)
(* whatever the program and the limits are (enqueue_instance, driver.rs).      *)
THEOREM DriverStaysConsistent == Spec => []DriverIsConsistent
<1>1. Inv => DriverIsConsistent
  <2> SUFFICES ASSUME Inv PROVE DriverIsConsistent
    OBVIOUS
  <2>1. /\ phase \in {"start", "roots", "running", "done"}
        /\ queue \in Seq(Pending)
        /\ Names(order, derived, queue, DOMAIN funs)
    BY DEF Inv, TypeInv, NamesInv
  <2>2. Items = Elems(order) \cup Elems(derived)
    BY DEF Items, Elems
  <2>3. ASSUME NEW i \in DOMAIN queue
        PROVE  In(queue[i].key, order) /\ queue[i].depth \in 0..MaxDepth
    <3>1. queue[i] \in Pending
      BY <2>1
    <3>2. queue[i].depth \in 0..MaxDepth
      BY <3>1 DEF Pending
    <3>3. queue[i].key \in Elems(order)
      BY <2>1 DEF Names, Keys
    <3> QED
      BY <3>2, <3>3, InIsMember
  <2>4. TypeOK
    BY <2>1, <2>2, <2>3 DEF TypeOK, Names
  <2>5. EachOnce
    BY <2>1 DEF EachOnce, Names, Once, KeysOnce
  <2> QED
    BY <2>4, <2>5 DEF DriverIsConsistent
<1> QED
  BY <1>1, InvAlways, PTL

(* Without a diagnostic the functions made are exactly the instances the       *)
(* program needs and every function a body names is made; and the limit on     *)
(* instances is blamed only when the program needs more of them, whatever the  *)
(* program and the limits are (specialize_pending, driver.rs).                 *)
THEOREM OutputStaysExact == Spec => []OutputIsExact
<1>1. Inv => OutputIsExact
  <2> SUFFICES ASSUME Inv PROVE OutputIsExact
    OBVIOUS
  <2> DEFINE items == Elems(order) \cup Elems(derived)
  <2>1. /\ program \in Programs /\ entries \in Seq(Key) /\ PhaseInv /\ CleanInv
        /\ Names(order, derived, queue, DOMAIN funs)
        /\ Needs(items) /\ FuelInv
    BY DEF Inv, TypeInv, NamesInv, ReachInv
  <2>2. /\ Needed \in SUBSET Key /\ IsFiniteSet(Needed) /\ Closed(Needed)
        /\ \A K : Closed(K) => Needed \subseteq K
    BY <2>1, NeededIsLeast
  <2>3. OutputIsClosed
    <3> SUFFICES ASSUME phase = "done", diagnostics = {}
                 PROVE  DOMAIN funs = Needed /\ \A k \in DOMAIN funs : funs[k] \subseteq DOMAIN funs
      BY DEF OutputIsClosed
    <3>1. stack = <<>> /\ queue = <<>> /\ roots = <<>>
      BY <2>1 DEF PhaseInv
    <3>2. /\ Elems(entries) \subseteq Elems(order) \cup Elems(roots)
          /\ Covered(order, derived, queue, stack, DOMAIN funs)
          /\ Served(funs, items)
      BY <2>1 DEF CleanInv
    <3>3. DOMAIN funs = items
      BY <2>1, <3>1, <3>2, EmptyFacts DEF Covered, Names
    <3>4. Elems(entries) \subseteq items
      BY <3>1, <3>2, EmptyFacts
    <3> HIDE DEF items
    <3>5. \A k \in items : funs[k] \subseteq items /\ Calls(k) \subseteq items
      BY <3>2, <3>3 DEF Served
    <3>6. Closed(items)
      BY <3>4, <3>5 DEF Closed
    <3>7. Needed \subseteq items /\ items \subseteq Needed
      BY <2>1, <2>2, <3>6 DEF Needs
    <3> QED
      BY <3>3, <3>5, <3>7
  <2>4. FuelBlameIsHonest
    BY <2>1, <2>2 DEF FuelBlameIsHonest, FuelInv, Exceeds
  <2> QED
    BY <2>3, <2>4 DEF OutputIsExact
<1> QED
  BY <1>1, InvAlways, PTL
=============================================================================
