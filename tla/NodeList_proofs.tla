---------------------------- MODULE NodeList_proofs ----------------------------
(***************************************************************************)
(* What the loop of listEligibleNodes returns, for lists of any length.    *)
(* The provers have no induction principle that they could apply: the      *)
(* proofs take the smallest number for which a claim fails (Smallest), and *)
(* find that there is none.                                                *)
(***************************************************************************)
EXTENDS NodeList, WellFoundedInduction, TLAPS

\* A set of numbers has a smallest one.
LEMMA Smallest ==
    ASSUME NEW T, T \subseteq Nat, T # {}
    PROVE  \E s \in T : \A t \in T : s <= t
<1> DEFINE R == {ss \in Nat \X Nat : ss[1] < ss[2]}
<1>1. IsWellFoundedOn(R, Nat)
  BY NatLessThanWellFounded DEF OpToRel
<1> HIDE DEF R
<1>2. PICK s \in T : \A t \in T : ~ (<<t, s>> \in R)
  BY <1>1, WFMin
<1>3. \A t \in T : s <= t
  <2> SUFFICES ASSUME NEW t \in T, t < s PROVE FALSE
    OBVIOUS
  <2>1. <<t, s>> \in Nat \X Nat /\ <<t, s>>[1] < <<t, s>>[2]
    OBVIOUS
  <2>2. <<t, s>> \in R
    BY <2>1 DEF R
  <2> QED
    BY <1>2, <2>2
<1> QED
  BY <1>3

\* One round of the loop.
Round(list, S, f, i) ==
    IF i = 0 THEN <<>>
    ELSE IF list[i] \in S THEN Append(f[i - 1], list[i])
         ELSE f[i - 1]

\* f is what the loop picks in its first n rounds.
Run(list, S, f, n) == f = [i \in 0..n |-> Round(list, S, f, i)]

\* The loop can be run for any number of rounds.
LEMMA RunsExist ==
    ASSUME NEW list, NEW S, NEW k \in Nat
    PROVE  \E f : Run(list, S, f, k)
<1> DEFINE T == {n \in Nat : ~ \E f : Run(list, S, f, n)}
<1> SUFFICES T = {}
  OBVIOUS
<1> SUFFICES ASSUME T # {} PROVE FALSE
  OBVIOUS
<1>1. PICK n \in T : \A t \in T : n <= t
  BY Smallest
<1>2. n \in Nat /\ ~ \E f : Run(list, S, f, n)
  OBVIOUS
<1>3. CASE n = 0
  <2> DEFINE f == [i \in 0..0 |-> <<>>]
  <2>1. Run(list, S, f, 0)
    BY DEF Run, Round
  <2> QED
    BY <1>2, <1>3, <2>1
<1>4. CASE n # 0
  <2>1. n - 1 \in Nat /\ n - 1 \notin T
    BY <1>1, <1>2, <1>4
  <2>2. PICK g : Run(list, S, g, n - 1)
    BY <2>1
  <2> DEFINE f == [i \in 0..n |-> IF i = n THEN Round(list, S, g, n) ELSE g[i]]
  <2>3. \A i \in 0..n : f[i] = Round(list, S, f, i)
    <3> SUFFICES ASSUME NEW i \in 0..n PROVE f[i] = Round(list, S, f, i)
      OBVIOUS
    <3>1. i # 0 => f[i - 1] = g[i - 1]
      BY <1>2
    <3>2. i # n => g[i] = Round(list, S, g, i)
      BY <1>2, <1>4, <2>2 DEF Run
    <3>3. f[i] = Round(list, S, g, i)
      BY <3>2
    <3> HIDE DEF f
    <3> QED
      BY <3>1, <3>3 DEF Round
  <2>4. Run(list, S, f, n)
    BY <2>3 DEF Run
  <2> QED
    BY <1>2, <2>4
<1> QED
  BY <1>3, <1>4

\* The recursive function is therefore what its definition says.
LEMMA PickedIsRun ==
    ASSUME NEW list, NEW S, Len(list) \in Nat
    PROVE  Run(list, S, Picked(list, S), Len(list))
<1>1. PICK f : Run(list, S, f, Len(list))
  BY RunsExist
<1> DEFINE P == CHOOSE g : g = [i \in 0..Len(list) |->
            IF i = 0 THEN <<>>
            ELSE IF list[i] \in S THEN Append(g[i - 1], list[i])
                 ELSE g[i - 1]]
<1>2. P = [i \in 0..Len(list) |->
            IF i = 0 THEN <<>>
            ELSE IF list[i] \in S THEN Append(P[i - 1], list[i])
                 ELSE P[i - 1]]
  BY <1>1 DEF Run, Round
<1>3. Picked(list, S) = P
  BY DEF Picked
<1> HIDE DEF P
<1> QED
  BY <1>2, <1>3 DEF Run, Round

\* The loop picks exactly the nodes of S that are in the list.
LEMMA PickNodesPicks ==
    ASSUME NEW A, NEW list \in Seq(A), NEW S
    PROVE  /\ PickNodes(list, S) \in Seq(A \cap S)
           /\ \A i \in DOMAIN list : list[i] \in S =>
                 \E j \in DOMAIN PickNodes(list, S) : PickNodes(list, S)[j] = list[i]
<1> DEFINE N == Len(list)
           f == Picked(list, S)
           Good(n) == /\ f[n] \in Seq(A \cap S)
                      /\ \A i \in 1..n : list[i] \in S =>
                            \E j \in DOMAIN f[n] : f[n][j] = list[i]
           T == {n \in 0..N : ~Good(n)}
<1>1. N \in Nat /\ DOMAIN list = 1..N /\ \A i \in 1..N : list[i] \in A
  OBVIOUS
<1>2. \A i \in 0..N : f[i] = Round(list, S, f, i)
  BY <1>1, PickedIsRun DEF Run
<1> HIDE DEF f, N
<1>3. T = {}
  <2> SUFFICES ASSUME T # {} PROVE FALSE
    OBVIOUS
  <2>1. T \subseteq Nat
    BY <1>1
  <2>2. PICK n \in T : \A t \in T : n <= t
    BY <2>1, Smallest
  <2>3. n \in 0..N /\ ~Good(n)
    OBVIOUS
  <2>4. CASE n = 0
    <3>1. f[0] = <<>>
      BY <1>1, <1>2 DEF Round
    <3>2. Good(0)
      BY <3>1
    <3> QED
      BY <2>3, <2>4, <3>2
  <2>5. CASE n # 0
    <3>1. n \in 1..N /\ n - 1 \in 0..N
      BY <1>1, <2>3, <2>5
    <3>2. Good(n - 1)
      BY <2>2, <3>1
    <3>3. f[n - 1] \in Seq(A \cap S) /\ list[n] \in A
      BY <1>1, <3>1, <3>2
    <3>4. CASE list[n] \in S
      <4>1. f[n] = Append(f[n - 1], list[n])
        <5>1. n \in 0..N /\ n # 0
          BY <2>3, <2>5
        <5>2. f[n] = Round(list, S, f, n)
          BY <1>2, <5>1
        <5> QED
          BY <3>4, <5>1, <5>2 DEF Round
      <4>2. f[n] \in Seq(A \cap S)
        BY <3>3, <3>4, <4>1
      <4>3. \A j \in DOMAIN f[n - 1] : j \in DOMAIN f[n] /\ f[n][j] = f[n - 1][j]
        BY <3>3, <4>1
      <4>4. \E j \in DOMAIN f[n] : f[n][j] = list[n]
        <5> DEFINE k == Len(f[n - 1]) + 1
        <5>1. k \in DOMAIN f[n] /\ f[n][k] = list[n]
          BY <3>3, <4>1
        <5> QED
          BY <5>1
      <4>5. \A i \in 1..n : i = n \/ i \in 1..(n - 1)
        BY <3>1
      <4> QED
        BY <2>3, <3>2, <4>2, <4>3, <4>4, <4>5
    <3>5. CASE list[n] \notin S
      <4>1. f[n] = f[n - 1]
        BY <1>2, <3>1, <3>5 DEF Round
      <4>2. \A i \in 1..n : i = n \/ i \in 1..(n - 1)
        BY <3>1
      <4> QED
        BY <2>3, <3>2, <3>5, <4>1, <4>2
    <3> QED
      BY <3>4, <3>5
  <2> QED
    BY <2>4, <2>5
<1>4. Good(N)
  BY <1>1, <1>3
<1> QED
  BY <1>1, <1>4 DEF PickNodes, f, N

=============================================================================
