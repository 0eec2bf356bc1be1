--------------------------- MODULE HttpConn_proofs ---------------------------
(***************************************************************************)
(* Proofs about HttpConn for any requests of the clients, any sizes of the *)
(* buffers and any way in which the network cuts the requests.             *)
(***************************************************************************)
EXTENDS HttpConn, SequenceTheorems, NaturalsInduction, WellFoundedInduction, TLAPS

(***************************************************************************)
(* Joining sequences.                                                      *)
(***************************************************************************)

(* A set of numbers that is not empty has a lowest one. *)
LEMMA Lowest ==
  ASSUME NEW S \in SUBSET Nat, S # {}
  PROVE  \E x \in S : \A y \in S : x <= y
<1>1. PICK x \in S : \A y \in S : ~(<<y, x>> \in OpToRel(<, Nat))
  BY WFMin, NatLessThanWellFounded
<1>2. ASSUME NEW y \in S PROVE x <= y
  <2>1. x \in Nat /\ y \in Nat /\ <<y, x>> \notin OpToRel(<, Nat)
    BY <1>1
  <2>2. x \in Nat /\ y \in Nat /\ ~(y < x)
    BY <2>1 DEF OpToRel
  <2> QED
    BY <2>2
<1> QED
  BY <1>2

(* What the recursive function in FlattenSeq(s) is. *)
Flattens(f, s) == f = [i \in 1..Len(s) |-> IF i = 1 THEN s[i] ELSE f[i-1] \o s[i]]

(* What such a function gives at each place. *)
LEMMA FlattensAt ==
  ASSUME NEW S, NEW s \in Seq(Seq(S)), NEW f, Flattens(f, s)
  PROVE  /\ s # <<>> => f[1] = s[1]
         /\ \A i \in 2..Len(s) : f[i] = f[i - 1] \o s[i]
         /\ DOMAIN f = 1..Len(s)
<1>1. Len(s) \in Nat /\ (s # <<>> => 1 \in 1..Len(s)) /\ 2..Len(s) \subseteq 1..Len(s)
  BY EmptySeq, LenProperties
<1> DEFINE g == [i \in 1..Len(s) |-> IF i = 1 THEN s[i] ELSE f[i-1] \o s[i]]
<1>2. f = g
  BY DEF Flattens
<1>3. DOMAIN g = 1..Len(s) /\ \A i \in 1..Len(s) : g[i] = IF i = 1 THEN s[i] ELSE f[i-1] \o s[i]
  OBVIOUS
<1>4. \A i \in 2..Len(s) : i # 1
  BY <1>1
<1> QED
  BY <1>1, <1>2, <1>3, <1>4

(* There is one. *)
LEMMA FlattensExists ==
  ASSUME NEW S, NEW s \in Seq(Seq(S))
  PROVE  \E f \in [1..Len(s) -> Seq(S)] : Flattens(f, s)
<1> DEFINE Pre(n) == [i \in 1..n |-> s[i]]
           Ok(n) == \E f \in [1..n -> Seq(S)] :
                        f = [i \in 1..n |-> IF i = 1 THEN s[i] ELSE f[i-1] \o s[i]]
           Bad == {n \in 0..Len(s) : ~Ok(n)}
<1>1. SUFFICES ASSUME Bad # {} PROVE FALSE
  <2>1. Len(s) \in 0..Len(s)
    OBVIOUS
  <2> QED
    BY <2>1 DEF Flattens
<1>2. PICK n \in Bad : \A m \in Bad : n <= m
  <2>1. Bad \in SUBSET Nat
    <3> HIDE DEF Ok
    <3> QED
      OBVIOUS
  <2> HIDE DEF Bad
  <2> QED
    BY <1>1, <2>1, Lowest
<1>3. n # 0
  <2>1. [i \in 1..0 |-> <<>>] \in [1..0 -> Seq(S)]
    OBVIOUS
  <2>2. ASSUME NEW f \in [1..0 -> Seq(S)]
        PROVE  f = [i \in 1..0 |-> IF i = 1 THEN s[i] ELSE f[i-1] \o s[i]]
    OBVIOUS
  <2>3. Ok(0)
    BY <2>1, <2>2
  <2> QED
    BY <2>3
<1>4. n \in 1..Len(s) /\ n - 1 \in 0..Len(s) /\ n - 1 < n
  BY <1>3
<1>5. Ok(n - 1)
  <2> HIDE DEF Ok
  <2>1. n - 1 \notin Bad
    <3> HIDE DEF Bad
    <3>1. ~(n <= n - 1)
      BY <1>4
    <3> QED
      BY <1>2, <1>4, <3>1
  <2> QED
    BY <1>4, <2>1
<1>6. PICK f \in [1..n - 1 -> Seq(S)] :
           f = [i \in 1..n - 1 |-> IF i = 1 THEN s[i] ELSE f[i-1] \o s[i]]
  BY <1>5
<1> DEFINE g == [i \in 1..n |-> IF i < n THEN f[i] ELSE IF i = 1 THEN s[i] ELSE f[i-1] \o s[i]]
<1>7. \A i \in 1..n : s[i] \in Seq(S) /\ (i # 1 => i - 1 \in 1..n - 1) /\ (i < n => i \in 1..n - 1)
  BY <1>4
<1>8. ASSUME NEW i \in 1..n
      PROVE  g[i] \in Seq(S) /\ (i < n => g[i] = f[i])
  <2>1. g[i] = IF i < n THEN f[i] ELSE IF i = 1 THEN s[i] ELSE f[i-1] \o s[i]
    OBVIOUS
  <2>2. i < n => f[i] \in Seq(S)
    BY <1>7
  <2>3. i # 1 => f[i - 1] \in Seq(S) /\ s[i] \in Seq(S) /\ f[i - 1] \o s[i] \in Seq(S)
    BY <1>7
  <2> QED
    BY <1>7, <2>1, <2>2, <2>3
<1>9. ASSUME NEW i \in 1..n
      PROVE  g[i] = IF i = 1 THEN s[i] ELSE g[i-1] \o s[i]
  <2>1. i # 1 => i - 1 \in 1..n /\ i - 1 < n /\ g[i - 1] = f[i - 1]
    BY <1>4, <1>8
  <2>2. CASE i < n
    <3>1. f[i] = IF i = 1 THEN s[i] ELSE f[i-1] \o s[i]
      BY <1>6, <1>7, <2>2
    <3> QED
      BY <2>1, <2>2, <3>1, <1>8
  <2>3. CASE ~(i < n)
    <3>1. g[i] = IF i = 1 THEN s[i] ELSE f[i-1] \o s[i]
      BY <2>3
    <3> QED
      BY <2>1, <3>1
  <2> QED
    BY <2>2, <2>3
<1>10. g \in [1..n -> Seq(S)] /\ g = [i \in 1..n |-> IF i = 1 THEN s[i] ELSE g[i-1] \o s[i]]
  <2>1. g \in [1..n -> Seq(S)]
    BY <1>8
  <2> DEFINE h == [i \in 1..n |-> IF i = 1 THEN s[i] ELSE g[i-1] \o s[i]]
  <2>2. DOMAIN g = 1..n /\ DOMAIN h = 1..n /\ \A i \in 1..n : h[i] = IF i = 1 THEN s[i] ELSE g[i-1] \o s[i]
    OBVIOUS
  <2>3. \A i \in 1..n : h[i] = g[i]
    BY <1>9, <2>2
  <2>4. g = h
    <3> HIDE DEF h
    <3>1. g = [i \in 1..n |-> g[i]]
      OBVIOUS
    <3>2. h = [i \in 1..n |-> h[i]]
      BY DEF h
    <3> QED
      BY <2>3, <3>1, <3>2
  <2> QED
    BY <2>1, <2>4
<1>11. Ok(n)
  <2> HIDE DEF g
  <2> QED
    BY <1>10
<1> QED
  BY <1>2, <1>11

(* And only one: as far as s and t agree, so do their functions. *)
SameStart(s, t, n) == n <= Len(s) /\ n <= Len(t) /\ \A i \in 1..n : s[i] = t[i]

(* Two of them agree as far as their sequences do: a least place where     *)
(* they differ would follow one where they agree.                          *)
LEMMA FlattensAgree ==
  ASSUME NEW S, NEW s \in Seq(Seq(S)), NEW t \in Seq(Seq(S)), NEW n \in Nat, SameStart(s, t, n),
         NEW f, Flattens(f, s), NEW g, Flattens(g, t)
  PROVE  \A i \in 1..n : f[i] = g[i]
<1> USE DEF SameStart
<1> DEFINE Bad == {i \in 1..n : f[i] # g[i]}
<1>1. SUFFICES ASSUME Bad # {} PROVE FALSE
  OBVIOUS
<1>2. PICK i \in Bad : \A j \in Bad : i <= j
  <2>1. Bad \in SUBSET Nat
    OBVIOUS
  <2> HIDE DEF Bad
  <2> QED
    BY <1>1, <2>1, Lowest
<1>3. Len(s) \in Nat /\ Len(t) \in Nat
  BY LenProperties
<1>4. i \in 1..n /\ f[i] # g[i] /\ i \in 1..Len(s) /\ i \in 1..Len(t)
  BY <1>2, <1>3
<1>5. s # <<>> /\ t # <<>>
  BY <1>4, EmptySeq
<1>6. i # 1
  <2>1. f[1] = s[1]
    BY <1>5, FlattensAt
  <2>2. g[1] = t[1]
    BY <1>5, FlattensAt
  <2> QED
    BY <1>4, <2>1, <2>2
<1>7. i \in 2..Len(s) /\ i \in 2..Len(t) /\ i - 1 \in 1..n /\ ~(i <= i - 1)
  BY <1>3, <1>4, <1>6
<1>8. f[i - 1] = g[i - 1]
  BY <1>2, <1>7
<1>9. f[i] = f[i - 1] \o s[i] /\ g[i] = g[i - 1] \o t[i]
  BY <1>7, FlattensAt
<1> QED
  BY <1>4, <1>8, <1>9

(* FlattenSeq is the last value of the function. *)
LEMMA FlattenIs ==
  ASSUME NEW S, NEW s \in Seq(Seq(S)), s # <<>>
  PROVE  \E f \in [1..Len(s) -> Seq(S)] : Flattens(f, s) /\ FlattenSeq(s) = f[Len(s)]
<1> DEFINE f == CHOOSE f : Flattens(f, s)
<1>1. PICK g \in [1..Len(s) -> Seq(S)] : Flattens(g, s)
  BY FlattensExists
<1>2. Flattens(f, s)
  BY <1>1
<1>3. Len(s) \in Nat \ {0}
  BY EmptySeq, LenProperties
<1>4. FlattenSeq(s) = f[Len(s)]
  BY <1>3 DEF FlattenSeq, Flattens
<1> HIDE DEF f
<1>5. \A i \in 1..Len(s) : f[i] = g[i]
  <2>1. SameStart(s, s, Len(s))
    BY <1>3 DEF SameStart
  <2> QED
    BY <1>1, <1>2, <1>3, <2>1, FlattensAgree
<1>6. Len(s) \in 1..Len(s)
  BY <1>3
<1> QED
  BY <1>1, <1>4, <1>5, <1>6

(* Joined, sequences over S are a sequence over S. *)
LEMMA FlattenType ==
  ASSUME NEW S, NEW s \in Seq(Seq(S))
  PROVE  FlattenSeq(s) \in Seq(S)
<1>1. CASE s = <<>>
  <2>1. Len(s) = 0
    BY <1>1
  <2> QED
    BY <1>1, <2>1 DEF FlattenSeq
<1>2. CASE s # <<>>
  <2>1. PICK f \in [1..Len(s) -> Seq(S)] : Flattens(f, s) /\ FlattenSeq(s) = f[Len(s)]
    BY <1>2, FlattenIs
  <2>2. Len(s) \in 1..Len(s)
    BY <1>2, EmptySeq, LenProperties
  <2> QED
    BY <2>1, <2>2
<1> QED
  BY <1>1, <1>2

(* FlattenSeq joins its sequences one after the other. *)
LEMMA FlattenAppend ==
  ASSUME NEW S, NEW s \in Seq(Seq(S)), NEW x \in Seq(S)
  PROVE  FlattenSeq(Append(s, x)) = FlattenSeq(s) \o x
<1> DEFINE t == Append(s, x)
<1>1. t \in Seq(Seq(S)) /\ Len(t) = Len(s) + 1 /\ t # <<>> /\ Len(s) \in Nat
      /\ t[Len(t)] = x /\ \A i \in 1..Len(s) : s[i] = t[i]
  <2>1. t \in Seq(Seq(S)) /\ Len(t) = Len(s) + 1 /\ Len(s) \in Nat
    OBVIOUS
  <2>2. t[Len(s) + 1] = x /\ \A i \in 1..Len(s) : s[i] = t[i]
    OBVIOUS
  <2> QED
    BY <2>1, <2>2, EmptySeq
<1> HIDE DEF t
<1>2. PICK g \in [1..Len(t) -> Seq(S)] : Flattens(g, t) /\ FlattenSeq(t) = g[Len(t)]
  BY <1>1, FlattenIs
<1>3. CASE s = <<>>
  <2>1. Len(s) = 0 /\ FlattenSeq(s) = <<>> /\ Len(t) = 1
    BY <1>1, <1>3 DEF FlattenSeq
  <2>2. g[1] = t[1]
    BY <1>1, <1>2, FlattensAt
  <2>3. <<>> \o x = x
    OBVIOUS
  <2> QED
    BY <1>1, <1>2, <2>1, <2>2, <2>3 DEF t
<1>4. CASE s # <<>>
  <2>1. PICK f \in [1..Len(s) -> Seq(S)] : Flattens(f, s) /\ FlattenSeq(s) = f[Len(s)]
    BY <1>4, FlattenIs
  <2>2. Len(s) \in 1..Len(s) /\ Len(t) \in 2..Len(t) /\ Len(t) - 1 = Len(s)
    BY <1>1, <1>4, EmptySeq
  <2>3. f[Len(s)] = g[Len(s)]
    <3>1. PICK u \in Seq(Seq(S)) : u = t
      BY <1>1
    <3>2. PICK n \in Nat : n = Len(s)
      BY <1>1
    <3>3. SameStart(s, u, n) /\ Flattens(g, u) /\ Flattens(f, s)
      BY <1>1, <1>2, <2>1, <3>1, <3>2 DEF SameStart
    <3>4. \A i \in 1..n : f[i] = g[i]
      BY <3>3, FlattensAgree
    <3> QED
      BY <2>2, <3>2, <3>4
  <2>4. g[Len(t)] = g[Len(t) - 1] \o t[Len(t)]
    BY <1>1, <1>2, <2>2, FlattensAt
  <2> QED
    BY <1>1, <1>2, <2>1, <2>2, <2>3, <2>4 DEF t
<1> QED
  BY <1>3, <1>4

(* The first k sequences of s, joined. *)
Joined(s, k) == FlattenSeq([i \in 1..k |-> s[i]])

(* One more sequence is joined at the end. *)
LEMMA JoinedStep ==
  ASSUME NEW S, NEW s \in Seq(Seq(S)), NEW k \in 0..Len(s) - 1
  PROVE  /\ Joined(s, k) \in Seq(S)
         /\ Joined(s, k + 1) = Joined(s, k) \o s[k + 1]
<1> DEFINE t == [i \in 1..k |-> s[i]]
           u == [i \in 1..k + 1 |-> s[i]]
<1>1. k \in Nat /\ k + 1 \in 1..Len(s) /\ k < Len(s) /\ \A i \in 1..k : i \in 1..Len(s)
  OBVIOUS
<1>2. t \in Seq(Seq(S)) /\ s[k + 1] \in Seq(S)
  BY <1>1
<1>3. u = Append(t, s[k + 1])
  BY <1>1
<1> HIDE DEF t, u
<1>4. FlattenSeq(t) \in Seq(S)
  BY <1>2, FlattenType
<1>5. FlattenSeq(u) = FlattenSeq(t) \o s[k + 1]
  BY <1>2, <1>3, FlattenAppend
<1> QED
  BY <1>4, <1>5 DEF Joined, t, u

(* None of them and all of them. *)
LEMMA JoinedEnds ==
  ASSUME NEW S, NEW s \in Seq(Seq(S))
  PROVE  /\ Joined(s, 0) = <<>> /\ Joined(s, Len(s)) = FlattenSeq(s)
         /\ \A k \in 0..Len(s) : Joined(s, k) \in Seq(S)
<1>1. Joined(s, 0) = <<>>
  <2>1. [i \in 1..0 |-> s[i]] = <<>> /\ Len(<<>>) = 0
    OBVIOUS
  <2>2. FlattenSeq(<<>>) = <<>>
    BY <2>1 DEF FlattenSeq
  <2> QED
    BY <2>1, <2>2 DEF Joined
<1>2. Joined(s, Len(s)) = FlattenSeq(s)
  <2>1. [i \in 1..Len(s) |-> s[i]] = s
    OBVIOUS
  <2> QED
    BY <2>1 DEF Joined
<1>3. Joined(s, Len(s)) \in Seq(S)
  BY <1>2, FlattenType
<1>4. \A k \in 0..Len(s) : k = Len(s) \/ k \in 0..Len(s) - 1
  OBVIOUS
<1> QED
  BY <1>1, <1>2, <1>3, <1>4, JoinedStep

(* Each sequence has its place in the whole. *)
LEMMA JoinedAt ==
  ASSUME NEW S, NEW s \in Seq(Seq(S)), NEW k \in 0..Len(s) - 1
  PROVE  /\ Len(Joined(s, k + 1)) = Len(Joined(s, k)) + Len(s[k + 1])
         /\ Len(Joined(s, k + 1)) <= Len(FlattenSeq(s))
         /\ \A p \in 1..Len(s[k + 1]) : FlattenSeq(s)[Len(Joined(s, k)) + p] = s[k + 1][p]
<1> DEFINE from == Len(Joined(s, k))
           size == Len(s[k + 1])
           Ok(n) == /\ from + size <= Len(Joined(s, n))
                    /\ \A p \in 1..size : Joined(s, n)[from + p] = s[k + 1][p]
           Bad == {n \in k + 1..Len(s) : ~Ok(n)}
<1>1. /\ k \in Nat /\ Len(s) \in Nat /\ k < Len(s) /\ k + 1 \in 1..Len(s) /\ Len(s) \in k + 1..Len(s)
      /\ k \in 0..Len(s) /\ s[k + 1] \in Seq(S)
  OBVIOUS
<1>2. Joined(s, k) \in Seq(S) /\ Joined(s, k + 1) = Joined(s, k) \o s[k + 1]
  BY JoinedStep
<1>3. from \in Nat /\ size \in Nat
  BY <1>1, <1>2, LenProperties
<1>4. /\ Len(Joined(s, k + 1)) = from + size
      /\ \A p \in 1..size : Joined(s, k + 1)[from + p] = s[k + 1][p]
  BY <1>1, <1>2
<1>5. Ok(k + 1)
  BY <1>3, <1>4
<1> HIDE DEF Ok
<1>6. SUFFICES Bad = {}
  <2>1. Ok(Len(s))
    BY <1>1, <1>6
  <2> QED
    BY <1>4, <2>1, JoinedEnds DEF Ok
<1>7. SUFFICES ASSUME Bad # {} PROVE FALSE
  OBVIOUS
<1>8. PICK n \in Bad : \A m \in Bad : n <= m
  <2>1. Bad \in SUBSET Nat
    BY <1>1
  <2> HIDE DEF Bad
  <2> QED
    BY <1>7, <2>1, Lowest
<1>9. n \in k + 1..Len(s) /\ ~Ok(n) /\ n # k + 1
  BY <1>5, <1>8
<1>10. /\ n - 1 \in k + 1..Len(s) /\ n - 1 \in 0..Len(s) - 1 /\ (n - 1) + 1 = n /\ ~(n <= n - 1)
       /\ n \in 1..Len(s) /\ n - 1 \in 0..Len(s) /\ s[n] \in Seq(S)
  BY <1>1, <1>9
<1>11. Ok(n - 1)
  <2>1. n - 1 \notin Bad
    BY <1>8, <1>10
  <2> QED
    BY <1>10, <2>1
<1>12. Joined(s, n - 1) \in Seq(S) /\ Joined(s, n) = Joined(s, n - 1) \o s[n]
  BY <1>10, JoinedStep
<1>13. /\ Len(Joined(s, n)) = Len(Joined(s, n - 1)) + Len(s[n]) /\ Len(s[n]) \in Nat
       /\ Len(Joined(s, n - 1)) \in Nat
       /\ \A p \in 1..Len(Joined(s, n - 1)) : Joined(s, n)[p] = Joined(s, n - 1)[p]
  BY <1>10, <1>12
<1>14. \A p \in 1..size : from + p \in 1..Len(Joined(s, n - 1))
  BY <1>3, <1>11, <1>13 DEF Ok
<1>15. Ok(n)
  <2>1. from + size <= Len(Joined(s, n))
    <3>1. from + size <= Len(Joined(s, n - 1))
      BY <1>11 DEF Ok
    <3>2. from + size \in Nat
      BY <1>3
    <3> HIDE DEF from, size
    <3>3. \A a, b, c, d \in Nat : a <= b /\ c = b + d => a <= c
      OBVIOUS
    <3>4. Len(Joined(s, n)) \in Nat
      <4>1. Joined(s, n) \in Seq(S)
        BY <1>9, <1>10, JoinedEnds
      <4> QED
        BY <4>1, LenProperties
    <3> QED
      BY <1>13, <3>1, <3>2, <3>3, <3>4
  <2>2. \A p \in 1..size : Joined(s, n)[from + p] = s[k + 1][p]
    BY <1>11, <1>13, <1>14 DEF Ok
  <2> QED
    BY <2>1, <2>2 DEF Ok
<1> QED
  BY <1>9, <1>15

(* ... at an easily known place if all have the same length. *)
LEMMA JoinedUniform ==
  ASSUME NEW S, NEW s \in Seq(Seq(S)), NEW k \in 0..Len(s),
         \A i \in 1..Len(s) : Len(s[i]) = 3
  PROVE  Len(Joined(s, k)) = 3 * k
<1> DEFINE Bad == {n \in 0..Len(s) : Len(Joined(s, n)) # 3 * n}
<1>1. SUFFICES ASSUME Bad # {} PROVE FALSE
  OBVIOUS
<1>2. PICK n \in Bad : \A m \in Bad : n <= m
  <2>1. Bad \in SUBSET Nat
    OBVIOUS
  <2> HIDE DEF Bad
  <2> QED
    BY <1>1, <2>1, Lowest
<1>3. n # 0
  <2>1. Len(Joined(s, 0)) = 0
    BY JoinedEnds
  <2> QED
    BY <1>2, <2>1
<1>4. n - 1 \in 0..Len(s) /\ n - 1 \in 0..Len(s) - 1 /\ (n - 1) + 1 = n /\ n \in 1..Len(s) /\ ~(n <= n - 1)
  BY <1>2, <1>3
<1>5. Len(Joined(s, n - 1)) = 3 * (n - 1)
  BY <1>2, <1>4
<1>6. Len(Joined(s, n)) = Len(Joined(s, n - 1)) + Len(s[n])
  BY <1>4, JoinedAt
<1>7. Len(Joined(s, n)) = 3 * n
  <2>1. Len(s[n]) = 3
    BY <1>4
  <2>2. 3 * (n - 1) + 3 = 3 * n
    BY <1>4
  <2> QED
    BY <1>5, <1>6, <2>1, <2>2
<1> QED
  BY <1>2, <1>7

(***************************************************************************)
(* The inductive invariant.                                                *)
(***************************************************************************)

(* An object that is in use: its socket is open or a handler runs.         *)
Live == Open \/ pc # "idle"

(* The parts of the stream, and where the first token after k of them is.  *)
Parts == [i \in DOMAIN asked |-> Encode(asked[i])]
Start(k) == Len(Joined(Parts, k))

(* The header lines of the request under way, and the tokens up to its body*)
Lines == Len(Current.headers)
HeadLen == 3 * (Lines + 1) + 2

(* Who has the object, and how far its answer is.                          *)
ModeInv ==
    /\ pc = "idle" => interest # "off"
    /\ pc # "idle" => interest \in {"off", "none"}
    /\ pc \notin {"idle", "crashed"} /\ actor_mode = 1 => interest = "off"
    /\ interest = "in" \/ pc \in {"process", "parse"} => ret = "none"
    /\ interest = "out" \/ pc = "write" => ret \notin {"none", "BAD_REQUEST"} /\ bytes_to_send > 0
    /\ pc = "write" => interest = "off"
    /\ pc = "respond" => ret # "none"

(* A response with a file has its mapping, of the size that unmap() will   *)
(* use, and NoMappingLost.                                                 *)
MappingInv ==
    /\ Live /\ HasFile => m_file_address = "file" /\ m_file_stat = "mapped"
    /\ m_file_address = "file" => mappings > 0
    /\ NoMappingLost

(* Before a part of a response has gone out the iovecs designate all of it.*)
OutputInv == interest = "out" \/ pc = "write" =>
    /\ bytes_to_send <= Len(Response)
    /\ bytes_to_send = Len(Response) =>
          /\ m_iv[0] = [base |-> 0, len |-> HeaderLen]
          /\ m_iv_count = 2 => m_iv[1] = [base |-> 0, len |-> FileLen]

(* The buffer begins where the request under way does.                     *)
PlaceInv == Live =>
    /\ served <= Len(asked) /\ base = Start(served) /\ base + m_read_idx <= sent
    /\ pc # "idle" \/ ret # "none" => served < Len(asked)

(* The line that the parser has come to: the request line, the header line *)
(* j or, for j = Lines + 1, the empty one, or the body.                    *)
Stated(j) == IF \E i \in 1..j : Current.headers[i] \in DOMAIN Length
             THEN Len(Current.body) ELSE 0
Accepted == served < Len(asked) /\ m_url = Current.line /\ m_url \in DOMAIN Target

AtRequestLine == /\ m_check_state = "REQUESTLINE"
                 /\ m_start_line = 0 /\ m_checked_idx \in 0..1 /\ m_content_length = 0
AtHeader(j) == /\ m_check_state = "HEADER" /\ Accepted
               /\ m_start_line = 3 * j /\ m_checked_idx \in 3 * j..3 * j + 1
               /\ j = Lines + 1 => m_checked_idx = 3 * j
               /\ m_content_length = Stated(j - 1)
AtBody == /\ m_check_state = "CONTENT" /\ Accepted
          /\ Current.body # <<>> /\ m_content_length = Len(Current.body)
          /\ m_checked_idx >= HeadLen
          /\ ~body_cut => m_checked_idx = HeadLen

LineInv == Live /\ ret = "none" =>
    AtRequestLine \/ (\E j \in 1..Lines + 1 : AtHeader(j)) \/ AtBody

(* While no piece has ended in the body, the body is there or it is not.   *)
BodyInv == pc = "parse" /\ ~body_cut =>
    /\ ~EndsInBody(m_read_idx)
    /\ m_check_state = "CONTENT" /\ line_status # "OK" => ~Complete

(* The answer is the right one, and the parser stopped where it should.    *)
AnswerInv == Live /\ ret # "none" =>
    /\ ret = Deserved(Current)
    /\ ret # "BAD_REQUEST" =>
          /\ Complete
          /\ IF Current.body = <<>> THEN m_checked_idx = Len(Encode(Current))
             ELSE m_checked_idx < m_read_idx

IInv == /\ TypeOK /\ ModeInv /\ MappingInv /\ PlaceInv /\ LineInv /\ BodyInv /\ AnswerInv
        /\ WaitsOnlyForBytes /\ OutputInv

(***************************************************************************)
(* What the client sends and what the buffer holds of it.                  *)
(***************************************************************************)

TokensOf(r) == {"CR", "LF", r.line} \cup ToSet(r.headers) \cup ToSet(r.body)
Tokens == UNION {TokensOf(r) : r \in Requests}

(* The text of the line j of a request. *)
Word(r, j) == IF j = 0 THEN r.line ELSE r.headers[j]
HeadOf(r) == 3 * (Len(r.headers) + 1) + 2

(* u is s and then t. *)
Joins(u, s, t) == /\ Len(u) = Len(s) + Len(t)
                  /\ \A p \in 1..Len(s) : u[p] = s[p]
                  /\ \A p \in 1..Len(t) : u[Len(s) + p] = t[p]

(* What concatenation gives, in the form the next lemmas use. *)
LEMMA Concat ==
  ASSUME NEW S, NEW s \in Seq(S), NEW t \in Seq(S)
  PROVE  s \o t \in Seq(S) /\ Joins(s \o t, s, t)
<1>1. s \o t \in Seq(S) /\ Len(s \o t) = Len(s) + Len(t)
  OBVIOUS
<1>2. \A p \in 1..Len(s) : (s \o t)[p] = s[p]
  OBVIOUS
<1>3. \A p \in 1..Len(t) : (s \o t)[Len(s) + p] = t[p]
  OBVIOUS
<1> QED
  BY <1>1, <1>2, <1>3 DEF Joins

(* A request line, headers of three tokens each, the empty line and a body.*)
IsRequest(w, m, a, f, e, b) ==
    /\ Len(w) = 5 + 3 * m + Len(b)
    /\ \A p \in 1..3 : w[p] = a[p]
    /\ \A p \in 1..3 * m : w[3 + p] = f[p]
    /\ \A p \in 1..2 : w[3 + 3 * m + p] = e[p]

(* The four parts of an encoded request, one after the other. *)
LEMMA FourParts ==
  ASSUME NEW S, NEW a \in Seq(S), NEW f \in Seq(S), NEW e \in Seq(S), NEW b \in Seq(S), NEW m \in Nat,
         Len(a) = 3, Len(f) = 3 * m, Len(e) = 2, NEW w, w = a \o f \o e \o b
  PROVE  w \in Seq(S) /\ IsRequest(w, m, a, f, e, b)
<1>1. PICK u \in Seq(S) : u = a \o f /\ Joins(u, a, f)
  BY Concat
<1>2. PICK v \in Seq(S) : v = u \o e /\ Joins(v, u, e)
  BY Concat
<1>3. w \in Seq(S) /\ Joins(w, v, b)
  <2>1. w = v \o b
    BY <1>1, <1>2
  <2> QED
    BY <2>1, Concat
<1>4. /\ Len(u) = 3 + 3 * m /\ \A p \in 1..3 : u[p] = a[p]
      /\ \A p \in 1..3 * m : u[3 + p] = f[p]
  BY <1>1 DEF Joins
<1>5. /\ Len(v) = 3 + 3 * m + 2 /\ \A p \in 1..3 + 3 * m : v[p] = u[p]
      /\ \A p \in 1..2 : v[3 + 3 * m + p] = e[p]
  BY <1>2, <1>4 DEF Joins
<1>6. Len(w) = 3 + 3 * m + 2 + Len(b) /\ \A p \in 1..3 + 3 * m + 2 : w[p] = v[p]
  BY <1>3, <1>5 DEF Joins
<1>7. /\ \A p \in 1..3 : p \in 1..3 + 3 * m
      /\ \A p \in 1..3 * m : 3 + p \in 1..3 + 3 * m
      /\ \A p \in 1..3 + 3 * m : p \in 1..3 + 3 * m + 2
      /\ \A p \in 1..2 : 3 + 3 * m + p \in 1..3 + 3 * m + 2
  OBVIOUS
<1>8. \A p \in 1..3 + 3 * m : w[p] = u[p]
  BY <1>5, <1>6, <1>7
<1>9. \A p \in 1..3 : w[p] = a[p]
  BY <1>4, <1>7, <1>8
<1>10. \A p \in 1..3 * m : w[3 + p] = f[p]
  BY <1>4, <1>7, <1>8
<1>11. \A p \in 1..2 : w[3 + 3 * m + p] = e[p]
  BY <1>5, <1>6, <1>7
<1>13. 3 + 3 * m + 2 + Len(b) = 5 + 3 * m + Len(b)
  BY LenProperties
<1> QED
  BY <1>6, <1>9, <1>10, <1>11, <1>13, <1>3 DEF IsRequest

(* The lists of a request are sequences of its tokens, and no word is a    *)
(* line end.                                                               *)
LEMMA RequestShape ==
  ASSUME NEW r \in Requests
  PROVE  /\ r.headers \in Seq(TokensOf(r)) /\ r.body \in Seq(TokensOf(r))
         /\ \A j \in 0..Len(r.headers) : Word(r, j) \in TokensOf(r) \ {"CR", "LF"}
         /\ TokensOf(r) \subseteq Tokens
<1>1. /\ r.headers \in Seq(ToSet(r.headers)) /\ r.body \in Seq(ToSet(r.body))
      /\ {"CR", "LF"} \cap ({r.line} \cup ToSet(r.headers)) = {}
  BY ScriptAssumption
<1>2. ToSet(r.headers) \subseteq TokensOf(r) /\ ToSet(r.body) \subseteq TokensOf(r)
  BY DEF TokensOf
<1>3. r.headers \in Seq(TokensOf(r)) /\ r.body \in Seq(TokensOf(r))
  BY <1>1, <1>2
<1>4. \A j \in 0..Len(r.headers) : j = 0 \/ (j \in 1..Len(r.headers) /\ r.headers[j] \in ToSet(r.headers))
  BY <1>1
<1>5. \A j \in 0..Len(r.headers) : Word(r, j) \in {r.line} \cup ToSet(r.headers)
  BY <1>4 DEF Word
<1> QED
  BY <1>1, <1>3, <1>5 DEF TokensOf, Tokens

(* Every line is a word and its end, and the empty line ends the headers.  *)
LEMMA EncodeShape ==
  ASSUME NEW r \in Requests
  PROVE  /\ Encode(r) \in Seq(Tokens) /\ Len(Encode(r)) = HeadOf(r) + Len(r.body)
         /\ \A j \in 0..Len(r.headers) : /\ Encode(r)[3 * j + 1] = Word(r, j)
                                         /\ Encode(r)[3 * j + 2] = "CR"
                                         /\ Encode(r)[3 * j + 3] = "LF"
         /\ Encode(r)[HeadOf(r) - 1] = "CR" /\ Encode(r)[HeadOf(r)] = "LF"
<1> DEFINE S == TokensOf(r)
           n == Len(r.headers)
           a == <<r.line, "CR", "LF">>
           h == [i \in DOMAIN r.headers |-> <<r.headers[i], "CR", "LF">>]
           f == FlattenSeq(h)
           e == <<"CR", "LF">>
<1>1. r.headers \in Seq(S) /\ r.body \in Seq(S) /\ n \in Nat /\ r.line \in S /\ "CR" \in S /\ "LF" \in S
  BY RequestShape DEF TokensOf
<1>2. /\ h \in Seq(Seq(S)) /\ Len(h) = n
      /\ \A i \in 1..n : h[i] = <<r.headers[i], "CR", "LF">> /\ Len(h[i]) = 3
  <2>1. DOMAIN r.headers = 1..n
    BY <1>1
  <2>2. \A i \in 1..n : <<r.headers[i], "CR", "LF">> \in Seq(S) /\ Len(<<r.headers[i], "CR", "LF">>) = 3
    BY <1>1
  <2> QED
    BY <1>1, <2>1, <2>2
<1>3. a \in Seq(S) /\ Len(a) = 3 /\ a[1] = r.line /\ a[2] = "CR" /\ a[3] = "LF"
  BY <1>1
<1>4. e \in Seq(S) /\ Len(e) = 2 /\ e[1] = "CR" /\ e[2] = "LF"
  BY <1>1
<1>5. f \in Seq(S) /\ Len(f) = 3 * n
  <2>1. n \in 0..Len(h) /\ \A i \in 1..Len(h) : Len(h[i]) = 3
    BY <1>1, <1>2
  <2> HIDE DEF h, n
  <2>2. Len(Joined(h, n)) = 3 * n
    BY <1>2, <2>1, JoinedUniform
  <2>3. Joined(h, Len(h)) = f
    BY <1>2, JoinedEnds
  <2>4. f \in Seq(S)
    BY <1>2, FlattenType
  <2> QED
    BY <1>2, <2>2, <2>3, <2>4
<1>6. \A j \in 1..n : f[3 * (j - 1) + 1] = r.headers[j] /\ f[3 * (j - 1) + 2] = "CR" /\ f[3 * (j - 1) + 3] = "LF"
  <2> SUFFICES ASSUME NEW j \in 1..n
               PROVE  f[3 * (j - 1) + 1] = r.headers[j] /\ f[3 * (j - 1) + 2] = "CR" /\ f[3 * (j - 1) + 3] = "LF"
    OBVIOUS
  <2>1. PICK k \in 0..n - 1 : k = j - 1 /\ k + 1 = j
    BY <1>1
  <2>2. k \in 0..Len(h) - 1 /\ k \in 0..Len(h) /\ \A i \in 1..Len(h) : Len(h[i]) = 3
    BY <1>1, <1>2
  <2>3. Len(h[k + 1]) = 3 /\ h[k + 1] = <<r.headers[j], "CR", "LF">>
    BY <1>2, <2>1
  <2> HIDE DEF h, n
  <2>4. Len(Joined(h, k)) = 3 * k
    BY <1>2, <2>2, JoinedUniform
  <2>5. \A p \in 1..Len(h[k + 1]) : f[Len(Joined(h, k)) + p] = h[k + 1][p]
    <3>1. PICK g \in Seq(Seq(S)) : g = h
      BY <1>2
    <3>2. k \in 0..Len(g) - 1
      BY <2>2, <3>1
    <3>3. \A p \in 1..Len(g[k + 1]) : FlattenSeq(g)[Len(Joined(g, k)) + p] = g[k + 1][p]
      BY <3>2, JoinedAt
    <3> QED
      BY <3>1, <3>3
  <2>6. h[k + 1][1] = r.headers[j] /\ h[k + 1][2] = "CR" /\ h[k + 1][3] = "LF"
    BY <2>3
  <2>7. 1 \in 1..3 /\ 2 \in 1..3 /\ 3 \in 1..3
    OBVIOUS
  <2> QED
    BY <2>1, <2>3, <2>4, <2>5, <2>6, <2>7
<1>7. Encode(r) = a \o f \o e \o r.body
  BY DEF Encode
<1> HIDE DEF a, h, f, e, S, n
<1>8. PICK m \in Nat : m = n
  BY <1>1
<1>9. /\ Encode(r) \in Seq(S) /\ Len(Encode(r)) = 5 + 3 * m + Len(r.body)
      /\ \A p \in 1..3 : Encode(r)[p] = a[p]
      /\ \A p \in 1..3 * m : Encode(r)[3 + p] = f[p]
      /\ \A p \in 1..2 : Encode(r)[3 + 3 * m + p] = e[p]
  <2>1. PICK A \in Seq(S) : A = a
    BY <1>3
  <2>2. PICK F \in Seq(S) : F = f
    BY <1>5
  <2>3. PICK E \in Seq(S) : E = e
    BY <1>4
  <2>4. PICK B \in Seq(S) : B = r.body
    BY <1>1
  <2>5. Len(A) = 3 /\ Len(F) = 3 * m /\ Len(E) = 2
    BY <1>3, <1>4, <1>5, <1>8, <2>1, <2>2, <2>3
  <2>6. Encode(r) = A \o F \o E \o B
    BY <1>7, <2>1, <2>2, <2>3, <2>4
  <2>7. Encode(r) \in Seq(S) /\ IsRequest(Encode(r), m, A, F, E, B)
    BY <2>5, <2>6, FourParts
  <2> QED
    BY <2>1, <2>2, <2>3, <2>4, <2>7 DEF IsRequest
<1>12. HeadOf(r) = 5 + 3 * m
  BY <1>8 DEF HeadOf, n
<1>19. Encode(r)[HeadOf(r) - 1] = "CR" /\ Encode(r)[HeadOf(r)] = "LF"
  <2>1. HeadOf(r) - 1 = 3 + 3 * m + 1 /\ HeadOf(r) = 3 + 3 * m + 2
    BY <1>12
  <2>2. 1 \in 1..2 /\ 2 \in 1..2
    OBVIOUS
  <2> QED
    BY <1>4, <1>9, <2>1, <2>2
<1>20. ASSUME NEW j \in 0..m
       PROVE  Encode(r)[3 * j + 1] = Word(r, j) /\ Encode(r)[3 * j + 2] = "CR" /\ Encode(r)[3 * j + 3] = "LF"
  <2>1. CASE j = 0
    <3>1. 3 * j + 1 = 1 /\ 3 * j + 2 = 2 /\ 3 * j + 3 = 3 /\ 1 \in 1..3 /\ 2 \in 1..3 /\ 3 \in 1..3
      BY <2>1
    <3>2. Encode(r)[1] = a[1] /\ Encode(r)[2] = a[2] /\ Encode(r)[3] = a[3]
      BY <1>9, <3>1
    <3> QED
      BY <1>3, <2>1, <3>1, <3>2 DEF Word
  <2>2. CASE j # 0
    <3>1. j \in 1..m /\ j \in 1..n
      BY <1>8, <2>2
    <3>2. PICK q \in Nat : q = 3 * (j - 1) /\ q + 3 <= 3 * m /\ 3 * j = 3 + q
      BY <3>1
    <3>3. q + 1 \in 1..3 * m /\ q + 2 \in 1..3 * m /\ q + 3 \in 1..3 * m
      BY <3>2
    <3>4. /\ Encode(r)[3 + (q + 1)] = f[q + 1] /\ Encode(r)[3 + (q + 2)] = f[q + 2]
          /\ Encode(r)[3 + (q + 3)] = f[q + 3]
      BY <1>9, <3>3
    <3>5. f[q + 1] = r.headers[j] /\ f[q + 2] = "CR" /\ f[q + 3] = "LF"
      BY <1>6, <3>1, <3>2
    <3>6. 3 * j + 1 = 3 + (q + 1) /\ 3 * j + 2 = 3 + (q + 2) /\ 3 * j + 3 = 3 + (q + 3)
      BY <3>2
    <3> QED
      BY <2>2, <3>4, <3>5, <3>6 DEF Word
  <2> QED
    BY <2>1, <2>2
<1>21. Encode(r) \in Seq(Tokens)
  <2>1. S \subseteq Tokens
    BY RequestShape DEF S
  <2> QED
    BY <1>9, <2>1
<1>22. 0..m = 0..Len(r.headers)
  BY <1>8 DEF n
<1> QED
  BY <1>9, <1>12, <1>19, <1>20, <1>21, <1>22

(* The requests follow each other in the stream. *)
LEMMA StreamParts ==
  ASSUME asked \in Seq(Requests)
  PROVE  /\ Stream \in Seq(Tokens) /\ Start(0) = 0 /\ Start(Len(asked)) = Len(Stream)
         /\ \A k \in 0..Len(asked) : Start(k) \in Nat
         /\ \A k \in 0..Len(asked) - 1 :
               /\ Start(k + 1) = Start(k) + Len(Encode(asked[k + 1])) /\ Start(k + 1) <= Len(Stream)
               /\ \A p \in 1..Len(Encode(asked[k + 1])) :
                     Stream[Start(k) + p] = Encode(asked[k + 1])[p]
<1>1. PICK a \in Seq(Requests) : a = asked
  OBVIOUS
<1> DEFINE P == [i \in DOMAIN a |-> Encode(a[i])]
<1>2. DOMAIN a = 1..Len(a) /\ Len(a) \in Nat /\ \A i \in 1..Len(a) : a[i] \in Requests
  OBVIOUS
<1>3. \A i \in 1..Len(a) : Encode(a[i]) \in Seq(Tokens)
  BY <1>2, EncodeShape
<1>4. P \in Seq(Seq(Tokens)) /\ Len(P) = Len(a) /\ \A i \in 1..Len(a) : P[i] = Encode(a[i])
  BY <1>2, <1>3
<1>5. Parts = P /\ Stream = FlattenSeq(P)
  BY <1>1 DEF Parts, Stream
<1> HIDE DEF P
<1>6. PICK s \in Seq(Seq(Tokens)) : s = P
  BY <1>4
<1>7. \A k : Start(k) = Len(Joined(s, k))
  BY <1>5, <1>6 DEF Start
<1>8. /\ Stream = FlattenSeq(s) /\ Len(s) = Len(asked)
      /\ \A k \in 0..Len(asked) - 1 : k + 1 \in 1..Len(a) /\ s[k + 1] = Encode(asked[k + 1])
  BY <1>1, <1>2, <1>4, <1>5, <1>6
<1>9. Stream \in Seq(Tokens)
  BY <1>8, FlattenType
<1>10. /\ Joined(s, 0) = <<>> /\ Joined(s, Len(s)) = FlattenSeq(s)
       /\ \A k \in 0..Len(s) : Joined(s, k) \in Seq(Tokens)
  BY JoinedEnds
<1>11. \A k \in 0..Len(s) - 1 :
          /\ Len(Joined(s, k + 1)) = Len(Joined(s, k)) + Len(s[k + 1])
          /\ Len(Joined(s, k + 1)) <= Len(FlattenSeq(s))
          /\ \A p \in 1..Len(s[k + 1]) : FlattenSeq(s)[Len(Joined(s, k)) + p] = s[k + 1][p]
  BY JoinedAt
<1>12. Start(0) = 0 /\ Start(Len(asked)) = Len(Stream)
  BY <1>7, <1>8, <1>10, EmptySeq
<1>13. \A k \in 0..Len(asked) : Start(k) \in Nat
  BY <1>7, <1>8, <1>10, LenProperties
<1>14. ASSUME NEW k \in 0..Len(asked) - 1
       PROVE  /\ Start(k + 1) = Start(k) + Len(Encode(asked[k + 1])) /\ Start(k + 1) <= Len(Stream)
              /\ \A p \in 1..Len(Encode(asked[k + 1])) :
                    Stream[Start(k) + p] = Encode(asked[k + 1])[p]
  BY <1>7, <1>8, <1>11
<1> QED
  BY <1>9, <1>12, <1>13, <1>14

(* The shape of the request under way. *)
LEMMA CurrentShape ==
  ASSUME TypeOK, served < Len(asked)
  PROVE  /\ Current \in Requests /\ Lines \in Nat /\ HeadLen \in Nat /\ HeadLen = HeadOf(Current)
         /\ Len(Current.body) \in Nat /\ (Current.body = <<>> <=> Len(Current.body) = 0)
         /\ Len(Encode(Current)) = HeadLen + Len(Current.body)
<1>1. /\ asked \in Seq(Requests) /\ served \in Nat /\ Len(asked) \in Nat
      /\ served + 1 \in 1..Len(asked)
  BY DEF TypeOK
<1>2. Current \in Requests
  BY <1>1 DEF Current
<1>3. Current.headers \in Seq(TokensOf(Current)) /\ Current.body \in Seq(TokensOf(Current))
  BY <1>2, RequestShape
<1>4. Lines \in Nat /\ Len(Current.body) \in Nat /\ (Current.body = <<>> <=> Len(Current.body) = 0)
  BY <1>3, EmptySeq, LenProperties DEF Lines
<1>5. HeadLen = HeadOf(Current) /\ HeadLen \in Nat
  BY <1>4 DEF HeadLen, HeadOf, Lines
<1>6. Len(Encode(Current)) = HeadLen + Len(Current.body)
  BY <1>2, <1>5, EncodeShape
<1> QED
  BY <1>2, <1>4, <1>5, <1>6

(* The buffer holds the beginning of the request under way. *)
LEMMA BufAt ==
  ASSUME TypeOK, PlaceInv, Live, served < Len(asked)
  PROVE  \A p \in 1..m_read_idx : p <= Len(Encode(Current)) => Buf[p] = Encode(Current)[p]
<1>1. /\ asked \in Seq(Requests) /\ served \in Nat /\ Len(asked) \in Nat /\ served \in 0..Len(asked) - 1
      /\ base \in Nat /\ m_read_idx \in Nat /\ sent \in 0..Len(Stream)
  BY DEF TypeOK
<1>2. base = Start(served) /\ base + m_read_idx <= sent
  BY DEF PlaceInv
<1>3. /\ Stream \in Seq(Tokens) /\ Len(Stream) \in Nat
      /\ \A p \in 1..Len(Encode(Current)) : Stream[base + p] = Encode(Current)[p]
  BY <1>1, <1>2, StreamParts, LenProperties DEF Current
<1>4. PICK s \in Seq(Tokens) : s = Stream
  BY <1>3
<1>5. base + 1 \in 1..Len(s) + 1 /\ base + m_read_idx \in base..Len(s)
  BY <1>1, <1>2, <1>3, <1>4
<1>6. \A p \in 1..m_read_idx : Buf[p] = s[base + p]
  <2>1. Buf = SubSeq(s, base + 1, base + m_read_idx)
    BY <1>4 DEF Buf
  <2>2. PICK m, n \in Int : m = base + 1 /\ n = base + m_read_idx
    BY <1>1
  <2>3. m \in 1..Len(s) + 1 /\ n \in m - 1..Len(s)
    BY <1>1, <1>5, <2>2
  <2>4. \A i \in 1..n - m + 1 : SubSeq(s, m, n)[i] = s[m + i - 1]
    BY <2>3, SubSeqProperties
  <2>5. n - m + 1 = m_read_idx /\ \A p \in 1..m_read_idx : m + p - 1 = base + p
    BY <1>1, <2>2
  <2> QED
    BY <2>1, <2>2, <2>4, <2>5
<1>7. ASSUME NEW p \in 1..m_read_idx, p <= Len(Encode(Current)) PROVE Buf[p] = Encode(Current)[p]
  <2>1. Len(Encode(Current)) \in Nat
    BY <1>1, CurrentShape
  <2>2. p \in 1..Len(Encode(Current))
    BY <1>1, <1>7, <2>1
  <2> QED
    BY <1>3, <1>4, <1>6, <2>2
<1> QED
  BY <1>7

(***************************************************************************)
(* parse_line.                                                             *)
(***************************************************************************)

Ends == {"CR", "LF"}
Found(status, n) == [status |-> status, checked |-> n]

(* parse_line stops at the first token of a line end.                      *)
StopsAt(i) ==
    /\ i \in m_checked_idx + 1..m_read_idx /\ Buf[i] \in Ends
    /\ \A p \in m_checked_idx + 1..m_read_idx : Buf[p] \in Ends => i <= p
    /\ \/ Buf[i] = "CR" /\ i = m_read_idx /\ ParseLine = Found("OPEN", i - 1)
       \/ Buf[i] = "CR" /\ i < m_read_idx /\ Buf[i + 1] = "LF" /\ ParseLine = Found("OK", i + 1)
       \/ /\ ~(Buf[i] = "CR" /\ (i = m_read_idx \/ Buf[i + 1] = "LF"))
          /\ ParseLine = Found("BAD", i - 1)

(* parse_line finds no line end, or stops at the first one. *)
LEMMA ParseLineIs ==
  ASSUME TypeOK
  PROVE  \/ /\ \A p \in m_checked_idx + 1..m_read_idx : Buf[p] \notin Ends
            /\ ParseLine = Found("OPEN", m_read_idx)
         \/ \E i \in Nat : StopsAt(i)
<1> DEFINE stops == {i \in m_checked_idx + 1..m_read_idx : Buf[i] \in {"CR", "LF"}}
           first == CHOOSE s \in stops : \A t \in stops : s <= t
<1>1. m_checked_idx \in Nat /\ m_read_idx \in Nat
  BY DEF TypeOK
<1>2. ParseLine = CASE stops = {} -> [status |-> "OPEN", checked |-> m_read_idx]
         [] stops # {} /\ Buf[first] = "CR" /\ first = m_read_idx -> [status |-> "OPEN", checked |-> first - 1]
         [] stops # {} /\ Buf[first] = "CR" /\ first < m_read_idx /\ Buf[first + 1] = "LF"
            -> [status |-> "OK", checked |-> first + 1]
         [] OTHER -> [status |-> "BAD", checked |-> first - 1]
  BY DEF ParseLine
<1> HIDE DEF first
<1>3. CASE stops = {}
  <2>1. ParseLine = Found("OPEN", m_read_idx)
    <3> HIDE DEF stops
    <3> QED
      BY <1>2, <1>3 DEF Found
  <2> QED
    BY <1>3, <2>1 DEF Ends
<1>4. CASE stops # {}
  <2>1. first \in stops /\ \A t \in stops : first <= t
    <3>1. stops \in SUBSET Nat
      BY <1>1
    <3> HIDE DEF stops
    <3> QED
      BY <1>4, <3>1, Lowest DEF first
  <2>2. /\ first \in Nat /\ first \in m_checked_idx + 1..m_read_idx /\ Buf[first] \in Ends
        /\ \A p \in m_checked_idx + 1..m_read_idx : Buf[p] \in Ends => first <= p
    BY <1>1, <2>1 DEF Ends
  <2>3. \/ Buf[first] = "CR" /\ first = m_read_idx /\ ParseLine = Found("OPEN", first - 1)
        \/ Buf[first] = "CR" /\ first < m_read_idx /\ Buf[first + 1] = "LF" /\ ParseLine = Found("OK", first + 1)
        \/ /\ ~(Buf[first] = "CR" /\ (first = m_read_idx \/ Buf[first + 1] = "LF"))
           /\ ParseLine = Found("BAD", first - 1)
    <3>1. first = m_read_idx \/ first < m_read_idx
      BY <1>1, <2>2
    <3> HIDE DEF stops
    <3> QED
      BY <1>2, <1>4, <2>2, <3>1 DEF Found, Ends
  <2> QED
    BY <2>2, <2>3 DEF StopsAt
<1> QED
  BY <1>3, <1>4

(* What a call returns, whatever is in the buffer. *)
LEMMA LineType ==
  ASSUME TypeOK
  PROVE  Line.status \in {"OK", "OPEN", "BAD"} /\ Line.checked \in m_checked_idx..m_read_idx
<1>1. m_checked_idx \in Nat /\ m_read_idx \in Nat /\ m_checked_idx \in m_checked_idx..m_read_idx
      /\ m_read_idx \in m_checked_idx..m_read_idx
  BY DEF TypeOK
<1>2. CASE InBody
  BY <1>1, <1>2 DEF Line
<1>3. CASE ~InBody
  <2>1. Line = ParseLine
    BY <1>3 DEF Line
  <2>2. ASSUME NEW i \in Nat, StopsAt(i)
        PROVE  ParseLine.status \in {"OK", "OPEN", "BAD"} /\ ParseLine.checked \in m_checked_idx..m_read_idx
    BY <1>1, <2>2 DEF StopsAt, Found
  <2> QED
    BY <1>1, <2>1, <2>2, ParseLineIs DEF Found
<1> QED
  BY <1>2, <1>3

(* A line of a word, begun after k tokens, is found when all of it is there*)
LEMMA WordLine ==
  ASSUME TypeOK, NEW k \in Nat, m_checked_idx \in {k, k + 1},
         k + 1 <= m_read_idx => Buf[k + 1] \notin Ends,
         k + 2 <= m_read_idx => Buf[k + 2] = "CR",
         k + 3 <= m_read_idx => Buf[k + 3] = "LF"
  PROVE  \/ m_read_idx >= k + 3 /\ ParseLine = Found("OK", k + 3)
         \/ /\ m_read_idx < k + 3
            /\ \E n \in {k, k + 1} : ParseLine = Found("OPEN", n)
<1>1. m_checked_idx \in Nat /\ m_read_idx \in Nat /\ m_checked_idx <= m_read_idx
  BY DEF TypeOK
<1>2. CASE /\ \A p \in m_checked_idx + 1..m_read_idx : Buf[p] \notin Ends
           /\ ParseLine = Found("OPEN", m_read_idx)
  <2>1. ~(k + 2 <= m_read_idx)
    <3> SUFFICES ASSUME k + 2 <= m_read_idx PROVE FALSE
      OBVIOUS
    <3>1. k + 2 \in m_checked_idx + 1..m_read_idx
      BY <1>1
    <3>2. Buf[k + 2] \in Ends
      BY DEF Ends
    <3> QED
      BY <1>2, <3>1, <3>2
  <2>2. m_read_idx \in {k, k + 1} /\ m_read_idx < k + 3
    BY <1>1, <2>1
  <2> QED
    BY <1>2, <2>2
<1>3. ASSUME NEW i \in Nat, StopsAt(i)
      PROVE  \/ m_read_idx >= k + 3 /\ ParseLine = Found("OK", k + 3)
             \/ /\ m_read_idx < k + 3
                /\ \E n \in {k, k + 1} : ParseLine = Found("OPEN", n)
  <2>1. i \in m_checked_idx + 1..m_read_idx /\ Buf[i] \in Ends
    BY <1>3 DEF StopsAt
  <2>2. i # k + 1
    BY <1>1, <2>1
  <2>3. k + 2 <= m_read_idx /\ i >= k + 2
    BY <1>1, <2>1, <2>2
  <2>4. i = k + 2
    <3>1. k + 2 \in m_checked_idx + 1..m_read_idx /\ Buf[k + 2] \in Ends
      BY <1>1, <2>3 DEF Ends
    <3>2. i <= k + 2
      BY <1>3, <3>1 DEF StopsAt
    <3> QED
      BY <2>3, <3>2
  <2>5. Buf[i] = "CR"
    BY <2>3, <2>4
  <2>6. CASE i = m_read_idx
    <3>1. ParseLine = Found("OPEN", i - 1)
      BY <1>3, <2>5, <2>6 DEF StopsAt
    <3>2. i - 1 = k + 1 /\ m_read_idx < k + 3
      BY <2>4, <2>6
    <3> QED
      BY <3>1, <3>2
  <2>7. CASE i # m_read_idx
    <3>1. i < m_read_idx /\ i + 1 = k + 3 /\ k + 3 <= m_read_idx /\ m_read_idx >= k + 3
      BY <1>1, <2>1, <2>4, <2>7
    <3>2. Buf[i + 1] = "LF"
      BY <3>1
    <3>3. ParseLine = Found("OK", i + 1)
      BY <1>3, <2>5, <2>7, <3>2 DEF StopsAt
    <3> QED
      BY <3>1, <3>3
  <2> QED
    BY <2>6, <2>7
<1> QED
  BY <1>2, <1>3, ParseLineIs

(* The same for an empty line. *)
LEMMA EmptyLine ==
  ASSUME TypeOK, NEW k \in Nat, m_checked_idx = k,
         k + 1 <= m_read_idx => Buf[k + 1] = "CR",
         k + 2 <= m_read_idx => Buf[k + 2] = "LF"
  PROVE  \/ m_read_idx >= k + 2 /\ ParseLine = Found("OK", k + 2)
         \/ m_read_idx < k + 2 /\ ParseLine = Found("OPEN", k)
<1>1. m_checked_idx \in Nat /\ m_read_idx \in Nat /\ m_checked_idx <= m_read_idx
  BY DEF TypeOK
<1>2. CASE /\ \A p \in m_checked_idx + 1..m_read_idx : Buf[p] \notin Ends
           /\ ParseLine = Found("OPEN", m_read_idx)
  <2>1. ~(k + 1 <= m_read_idx)
    <3> SUFFICES ASSUME k + 1 <= m_read_idx PROVE FALSE
      OBVIOUS
    <3>1. k + 1 \in m_checked_idx + 1..m_read_idx
      BY <1>1
    <3>2. Buf[k + 1] \in Ends
      BY DEF Ends
    <3> QED
      BY <1>2, <3>1, <3>2
  <2>2. m_read_idx = k /\ m_read_idx < k + 2
    BY <1>1, <2>1
  <2> QED
    BY <1>2, <2>2
<1>3. ASSUME NEW i \in Nat, StopsAt(i)
      PROVE  \/ m_read_idx >= k + 2 /\ ParseLine = Found("OK", k + 2)
             \/ m_read_idx < k + 2 /\ ParseLine = Found("OPEN", k)
  <2>1. i \in m_checked_idx + 1..m_read_idx
    BY <1>3 DEF StopsAt
  <2>2. k + 1 <= m_read_idx /\ i >= k + 1
    BY <1>1, <2>1
  <2>3. i = k + 1
    <3>1. k + 1 \in m_checked_idx + 1..m_read_idx /\ Buf[k + 1] \in Ends
      BY <1>1, <2>2 DEF Ends
    <3>2. i <= k + 1
      BY <1>3, <3>1 DEF StopsAt
    <3> QED
      BY <2>2, <3>2
  <2>4. Buf[i] = "CR"
    BY <2>2, <2>3
  <2>5. CASE i = m_read_idx
    <3>1. ParseLine = Found("OPEN", i - 1)
      BY <1>3, <2>4, <2>5 DEF StopsAt
    <3>2. i - 1 = k /\ m_read_idx < k + 2
      BY <2>3, <2>5
    <3> QED
      BY <3>1, <3>2
  <2>6. CASE i # m_read_idx
    <3>1. i < m_read_idx /\ i + 1 = k + 2 /\ k + 2 <= m_read_idx /\ m_read_idx >= k + 2
      BY <1>1, <2>1, <2>3, <2>6
    <3>2. Buf[i + 1] = "LF"
      BY <3>1
    <3>3. ParseLine = Found("OK", i + 1)
      BY <1>3, <2>4, <2>6, <3>2 DEF StopsAt
    <3> QED
      BY <3>1, <3>3
  <2> QED
    BY <2>5, <2>6
<1> QED
  BY <1>2, <1>3, ParseLineIs

(* A sequence of length one is its element. *)
LEMMA OneElement ==
  ASSUME NEW S, NEW s \in Seq(S), Len(s) = 1
  PROVE  s = <<s[1]>>
  OBVIOUS

(* At a line of a word the parser takes that word once it has all of it.   *)
TakesWord(j) == /\ m_read_idx >= 3 * j + 3 /\ Line = Found("OK", 3 * j + 3)
                /\ Text = <<Word(Current, j)>>
WaitsForWord(j) == /\ m_read_idx < 3 * j + 3
                   /\ \E n \in 3 * j..3 * j + 1 : Line = Found("OPEN", n)

(* At a line of a word the parser takes the word or waits for the rest of  *)
(* the line.                                                               *)
LEMMA WordTaken ==
  ASSUME TypeOK, PlaceInv, Live, served < Len(asked), NEW j \in 0..Lines,
         m_start_line = 3 * j, m_checked_idx \in 3 * j..3 * j + 1, m_check_state # "CONTENT"
  PROVE  TakesWord(j) \/ WaitsForWord(j)
<1>1. PICK k \in Nat : k = 3 * j
  <2>1. Lines \in Nat
    BY CurrentShape
  <2> QED
    BY <2>1
<1>2. /\ Current \in Requests /\ j \in 0..Len(Current.headers) /\ Lines \in Nat
      /\ Len(Encode(Current)) \in Nat /\ k + 3 <= Len(Encode(Current))
  <2>1. /\ Lines \in Nat /\ HeadLen = 3 * (Lines + 1) + 2 /\ Len(Current.body) \in Nat
        /\ Len(Encode(Current)) = HeadLen + Len(Current.body)
    BY CurrentShape DEF HeadLen
  <2>2. k + 3 <= HeadLen
    BY <1>1, <2>1
  <2>3. Len(Encode(Current)) \in Nat /\ k + 3 <= Len(Encode(Current))
    <3>1. /\ HeadLen \in Nat /\ Len(Current.body) \in Nat
          /\ Len(Encode(Current)) = HeadLen + Len(Current.body)
      BY CurrentShape
    <3> QED
      BY <2>2, <3>1
  <2>4. Current \in Requests /\ j \in 0..Len(Current.headers)
    BY CurrentShape DEF Lines
  <2> QED
    BY <2>1, <2>3, <2>4
<1>3. /\ Encode(Current)[k + 1] = Word(Current, j) /\ Word(Current, j) \notin Ends
      /\ Encode(Current)[k + 2] = "CR" /\ Encode(Current)[k + 3] = "LF"
  BY <1>1, <1>2, EncodeShape, RequestShape DEF Ends
<1>4. m_read_idx \in Nat /\ m_checked_idx \in Nat /\ m_checked_idx <= m_read_idx
  BY DEF TypeOK
<1>5. \A p \in 1..3 : k + p <= m_read_idx => Buf[k + p] = Encode(Current)[k + p]
  <2> SUFFICES ASSUME NEW p \in 1..3, k + p <= m_read_idx PROVE Buf[k + p] = Encode(Current)[k + p]
    OBVIOUS
  <2>1. k + p \in 1..m_read_idx /\ k + p <= Len(Encode(Current))
    BY <1>2, <1>4
  <2> QED
    BY <2>1, BufAt
<1>6. /\ k + 1 <= m_read_idx => Buf[k + 1] = Word(Current, j)
      /\ k + 2 <= m_read_idx => Buf[k + 2] = "CR"
      /\ k + 3 <= m_read_idx => Buf[k + 3] = "LF"
  BY <1>3, <1>5
<1>7. Line = ParseLine
  BY DEF Line, InBody
<1>8. m_checked_idx \in {k, k + 1}
  BY <1>1, <1>4
<1>9. k + 1 <= m_read_idx => Buf[k + 1] \notin Ends
  BY <1>3, <1>6
<1>10. \/ m_read_idx >= k + 3 /\ ParseLine = Found("OK", k + 3)
       \/ /\ m_read_idx < k + 3
          /\ \E n \in {k, k + 1} : ParseLine = Found("OPEN", n)
  BY <1>6, <1>8, <1>9, WordLine
<1>11. CASE m_read_idx >= k + 3 /\ ParseLine = Found("OK", k + 3)
  <2>1. Line.checked - 2 = k + 1
    BY <1>7, <1>11 DEF Found
  <2>2. Text = SubSeq(Buf, k + 1, k + 1)
    BY <1>1, <2>1 DEF Text
  <2>3. PICK n \in Int : n = k + 1
    OBVIOUS
  <2>4. /\ SubSeq(Buf, n, n) \in Seq({Buf[n]}) /\ Len(SubSeq(Buf, n, n)) = 1
        /\ SubSeq(Buf, n, n)[1] = Buf[n]
    <3>1. \A i \in n..n : Buf[i] \in {Buf[n]}
      OBVIOUS
    <3>2. /\ SubSeq(Buf, n, n) \in Seq({Buf[n]})
          /\ Len(SubSeq(Buf, n, n)) = IF n <= n THEN n - n + 1 ELSE 0
          /\ \A i \in 1..n - n + 1 : SubSeq(Buf, n, n)[i] = Buf[n + i - 1]
      BY <3>1, SubSeqProperties
    <3>3. n <= n /\ n - n + 1 = 1 /\ n + 1 - 1 = n /\ 1 \in 1..1
      OBVIOUS
    <3> QED
      BY <3>2, <3>3
  <2>5. SubSeq(Buf, n, n) = <<Buf[n]>>
    <3>1. PICK s \in Seq({Buf[n]}) : s = SubSeq(Buf, n, n)
      BY <2>4
    <3>2. Len(s) = 1 /\ s[1] = Buf[n]
      BY <2>4, <3>1
    <3>3. s = <<s[1]>>
      BY <3>2, OneElement
    <3> QED
      BY <3>1, <3>2, <3>3
  <2>6. Buf[n] = Word(Current, j)
    BY <1>4, <1>6, <1>11, <2>3
  <2> QED
    BY <1>1, <1>7, <1>11, <2>2, <2>3, <2>5, <2>6 DEF TakesWord
<1>12. CASE m_read_idx < k + 3 /\ \E n \in {k, k + 1} : ParseLine = Found("OPEN", n)
  <2>1. \A n \in {k, k + 1} : n \in 3 * j..3 * j + 1
    BY <1>1
  <2> QED
    BY <1>1, <1>7, <1>12, <2>1 DEF WaitsForWord
<1> QED
  BY <1>10, <1>11, <1>12

(* The same at the empty line. *)
TakesEmptyLine == m_read_idx >= HeadLen /\ Line = Found("OK", HeadLen) /\ Text = <<>>
WaitsForEmptyLine == m_read_idx < HeadLen /\ Line = Found("OPEN", m_checked_idx)

(* At the empty line it takes no text, or waits where it is. *)
LEMMA EmptyLineTaken ==
  ASSUME TypeOK, PlaceInv, Live, served < Len(asked), NEW j, j = Lines + 1,
         m_start_line = 3 * j, m_checked_idx = 3 * j, m_check_state # "CONTENT"
  PROVE  TakesEmptyLine \/ WaitsForEmptyLine
<1>1. PICK k \in Nat : k = 3 * j /\ HeadLen = k + 2
  <2>1. Lines \in Nat
    BY CurrentShape
  <2> QED
    BY <2>1 DEF HeadLen
<1>2. Current \in Requests /\ Len(Encode(Current)) \in Nat /\ k + 2 <= Len(Encode(Current)) /\ k + 2 = HeadOf(Current)
  <2>1. /\ Len(Encode(Current)) = HeadLen + Len(Current.body) /\ Len(Current.body) \in Nat
        /\ HeadLen = HeadOf(Current) /\ Current \in Requests
    BY CurrentShape
  <2> QED
    BY <1>1, <2>1
<1>3. Encode(Current)[k + 1] = "CR" /\ Encode(Current)[k + 2] = "LF"
  <2>1. HeadOf(Current) - 1 = k + 1
    BY <1>2
  <2> QED
    BY <1>2, <2>1, EncodeShape
<1>4. m_read_idx \in Nat
  BY DEF TypeOK
<1>5. \A p \in 1..2 : k + p <= m_read_idx => Buf[k + p] = Encode(Current)[k + p]
  <2> SUFFICES ASSUME NEW p \in 1..2, k + p <= m_read_idx PROVE Buf[k + p] = Encode(Current)[k + p]
    OBVIOUS
  <2>1. k + p \in 1..m_read_idx /\ k + p <= Len(Encode(Current))
    BY <1>2, <1>4
  <2> QED
    BY <2>1, BufAt
<1>6. /\ k + 1 <= m_read_idx => Buf[k + 1] = "CR"
      /\ k + 2 <= m_read_idx => Buf[k + 2] = "LF"
  BY <1>3, <1>5
<1>7. Line = ParseLine
  BY DEF Line, InBody
<1>8. m_checked_idx = k
  BY <1>1
<1>9. \/ m_read_idx >= k + 2 /\ ParseLine = Found("OK", k + 2)
      \/ m_read_idx < k + 2 /\ ParseLine = Found("OPEN", k)
  BY <1>6, <1>8, EmptyLine
<1>10. CASE m_read_idx >= k + 2 /\ ParseLine = Found("OK", k + 2)
  <2>1. Line.checked - 2 = k
    BY <1>7, <1>10 DEF Found
  <2>2. Text = SubSeq(Buf, k + 1, k)
    BY <1>1, <2>1 DEF Text
  <2>3. PICK n \in Int : n = k + 1 /\ k < n /\ k \in Int
    OBVIOUS
  <2>4. SubSeq(Buf, n, k) = <<>>
    BY <2>3, SubSeqEmpty
  <2> QED
    BY <1>1, <1>7, <1>10, <2>2, <2>3, <2>4 DEF TakesEmptyLine
<1>11. CASE m_read_idx < k + 2 /\ ParseLine = Found("OPEN", k)
  BY <1>1, <1>7, <1>8, <1>11 DEF WaitsForEmptyLine
<1> QED
  BY <1>9, <1>10, <1>11

(* At the end of what was read there is no line. *)
LEMMA NoLineAtEnd ==
  ASSUME TypeOK, ~InBody, m_checked_idx = m_read_idx
  PROVE  Line = Found("OPEN", m_read_idx)
<1>1. m_read_idx \in Nat
  BY DEF TypeOK
<1>2. ASSUME NEW i \in Nat, StopsAt(i) PROVE FALSE
  BY <1>1, <1>2 DEF StopsAt
<1> QED
  BY <1>2, ParseLineIs DEF Line

(***************************************************************************)
(* Types.                                                                  *)
(***************************************************************************)

(* A response is never empty, nor longer than headers and a file. *)
LEMMA ResponseLength ==
  Len(Response) \in 0..HeaderLen + FileLen /\ Len(Response) > 0
<1>1. HeaderLen \in Nat \ {0} /\ FileLen \in Nat \ {0}
  BY SizeAssumption
<1> DEFINE h == HeaderBytes(0, HeaderLen)
           f == FileBytes(0, FileLen)
<1>2. h \in Seq({<<"h", i>> : i \in Nat}) /\ Len(h) = HeaderLen
  BY <1>1 DEF HeaderBytes
<1>3. f \in Seq({<<"f", i>> : i \in Nat}) /\ Len(f) = FileLen
  BY <1>1 DEF FileBytes
<1> DEFINE S == {<<"f", i>> : i \in Nat} \cup {<<"h", i>> : i \in Nat}
<1>4. h \in Seq(S) /\ f \in Seq(S) /\ <<>> \in Seq(S) /\ Len(<<>>) = 0
  BY <1>2, <1>3
<1> HIDE DEF h, f, S
<1>5. PICK a \in Seq(S) : a = h
  BY <1>4
<1>6. PICK b \in Seq(S) : b = IF HasFile THEN f ELSE <<>>
  BY <1>4
<1>7. Response = a \o b
  BY <1>5, <1>6 DEF Response, h, f
<1>8. Len(a \o b) = Len(a) + Len(b)
  BY Concat DEF Joins
<1>9. Len(a) = HeaderLen /\ Len(b) \in 0..FileLen
  BY <1>1, <1>2, <1>3, <1>4, <1>5, <1>6
<1> QED
  BY <1>1, <1>7, <1>8, <1>9

(* The sizes that the code defines are positive. *)
LEMMA Sizes ==
  /\ READ_BUFFER_SIZE \in Nat \ {0} /\ HeaderLen \in Nat \ {0} /\ FileLen \in Nat \ {0}
  /\ MaxClients \in Nat \ {0}
  BY SizeAssumption

(* The parts of TypeOK. *)
ClientType ==
    /\ asked \in Seq(Requests) /\ sent \in 0..Len(Stream) /\ left \in BOOLEAN
    /\ interest \in {"none", "off", "in", "out"}
IndexType ==
    /\ base \in Nat /\ m_read_idx \in 0..READ_BUFFER_SIZE
    /\ m_checked_idx \in 0..m_read_idx /\ m_start_line \in 0..m_checked_idx
ParserType ==
    /\ m_check_state \in {"REQUESTLINE", "HEADER", "CONTENT"} /\ m_linger \in BOOLEAN
    /\ m_content_length \in Nat /\ m_url \in DOMAIN Target \cup {"none"}
    /\ line_status \in {"OK", "BAD", "OPEN"}
    /\ ret \in {"none", "NO_RESOURCE", "FORBIDDEN_REQUEST", "BAD_REQUEST", "FILE_REQUEST"}
OutputType ==
    /\ bytes_to_send \in 0..HeaderLen + FileLen /\ m_iv_count \in 0..2
    /\ m_iv \in [0..1 -> [base : Int, len : Int]]
FileType ==
    /\ m_file_address \in {"null", "file", "failed"} /\ m_file_stat \in {"mapped", "other"}
    /\ mappings \in Nat
RunType ==
    /\ actor_mode \in {0, 1}
    /\ pc \in {"idle", "process", "parse", "respond", "write", "crashed"}
    /\ clients \in Nat /\ served \in Nat /\ abandoned \in Nat /\ body_cut \in BOOLEAN

(* The parts make up TypeOK. *)
LEMMA TypeParts ==
  TypeOK <=> ClientType /\ IndexType /\ ParserType /\ OutputType /\ FileType /\ RunType
BY DEF TypeOK, ClientType, IndexType, ParserType, OutputType, FileType, RunType

(* The same in the next state. *)
LEMMA TypePartsNext ==
  ClientType' /\ IndexType' /\ ParserType' /\ OutputType' /\ FileType' /\ RunType' => TypeOK'
BY DEF TypeOK, ClientType, IndexType, ParserType, OutputType, FileType, RunType

(* The initial state is well typed. *)
LEMMA InitType == Init => TypeOK
<1> SUFFICES ASSUME Init PROVE TypeOK
  OBVIOUS
<1>1. ClientType
  <2>1. asked \in Seq(Requests)
    BY DEF Init
  <2>2. Stream \in Seq(Tokens)
    BY <2>1, StreamParts
  <2>3. sent \in 0..Len(Stream)
    BY <2>2, LenProperties DEF Init
  <2> QED
    BY <2>1, <2>3 DEF Init, ClientType
<1>2. IndexType
  BY Sizes DEF Init, IndexType
<1>3. ParserType
  BY DEF Init, ParserType
<1>4. OutputType
  BY Sizes DEF Init, OutputType
<1>5. FileType /\ RunType
  BY DEF Init, FileType, RunType
<1> QED
  BY <1>1, <1>2, <1>3, <1>4, <1>5, TypeParts

(* No step takes the client's variables out of their sets. *)
LEMMA ClientTypeStep ==
  ASSUME TypeOK, [Next]_vars
  PROVE  ClientType'
<1>0. ClientType
  BY TypeParts
<1>1. asked' = asked => Stream' = Stream
  BY DEF Stream
<1>2. CASE asked' = asked /\ sent' = sent /\ left' \in BOOLEAN /\ interest' \in {interest, "none", "off", "in", "out"}
  BY <1>0, <1>1, <1>2 DEF ClientType
<1>3. ASSUME Connect PROVE ClientType'
  <2>1. asked' \in Seq(Requests)
    BY <1>3, ScriptAssumption DEF Connect
  <2>2. Len(Stream') \in Nat
    <3>1. PICK a \in Seq(Requests) : a = asked'
      BY <2>1
    <3> DEFINE P == [i \in DOMAIN a |-> Encode(a[i])]
    <3>2. P \in Seq(Seq(Tokens))
      <4>1. DOMAIN a = 1..Len(a) /\ Len(a) \in Nat /\ \A i \in 1..Len(a) : a[i] \in Requests
        OBVIOUS
      <4>2. \A i \in 1..Len(a) : Encode(a[i]) \in Seq(Tokens)
        BY <4>1, EncodeShape
      <4> QED
        BY <4>1, <4>2
    <3> HIDE DEF P
    <3>3. FlattenSeq(P) \in Seq(Tokens)
      BY <3>2, FlattenType
    <3>4. Stream' = FlattenSeq(P)
      BY <3>1 DEF Stream, P
    <3> QED
      BY <3>3, <3>4, LenProperties
  <2>3. sent' \in 0..Len(Stream')
    BY <1>3, <2>2 DEF Connect
  <2> QED
    BY <1>3, <2>1, <2>3 DEF Connect, ClientType
<1>4. ASSUME Send PROVE ClientType'
  <2>1. Stream' = Stream /\ sent' \in 0..Len(Stream)
    BY <1>0, <1>1, <1>4 DEF Send, ClientType
  <2> QED
    BY <1>0, <1>4, <2>1 DEF Send, ClientType
<1>5. ASSUME Leave PROVE ClientType'
  BY <1>0, <1>2, <1>5 DEF Leave, ClientType
<1>6. ASSUME DealClose PROVE ClientType'
  BY <1>0, <1>2, <1>6 DEF DealClose, CloseConn, ClientType
<1>7. ASSUME TimerFunc PROVE ClientType'
  BY <1>0, <1>2, <1>7 DEF TimerFunc, CloseConn, ClientType
<1>8. ASSUME DealRead PROVE ClientType'
  BY <1>0, <1>2, <1>8 DEF DealRead, Read, CloseConn, ClientType
<1>9. ASSUME DealWrite PROVE ClientType'
  BY <1>0, <1>2, <1>9 DEF DealWrite, ClientType
<1>10. ASSUME ParseRequestLine_Crashes PROVE ClientType'
  BY <1>0, <1>2, <1>10 DEF ParseRequestLine_Crashes, ClientType
<1>11. ASSUME Process PROVE ClientType'
  BY <1>0, <1>2, <1>11 DEF Process, Read, CloseConn, ClientType
<1>12. ASSUME ParseRequestLine PROVE ClientType'
  BY <1>0, <1>2, <1>12 DEF ParseRequestLine, TakeLine, socket, ClientType
<1>13. ASSUME ParseHeaders PROVE ClientType'
  BY <1>0, <1>2, <1>13 DEF ParseHeaders, TakeLine, socket, ClientType
<1>14. ASSUME ParseContent PROVE ClientType'
  BY <1>0, <1>2, <1>14 DEF ParseContent, TakeLine, socket, ClientType
<1>15. ASSUME NoRequest PROVE ClientType'
  BY <1>0, <1>2, <1>15 DEF NoRequest, ModFd, ClientType
<1>16. ASSUME ProcessWrite PROVE ClientType'
  BY <1>0, <1>2, <1>16 DEF ProcessWrite, CloseConn, ModFd, ClientType
<1>17. ASSUME Write_Blocks PROVE ClientType'
  BY <1>0, <1>2, <1>17 DEF Write_Blocks, ModFd, ClientType
<1>18. ASSUME Write_Fails PROVE ClientType'
  BY <1>0, <1>2, <1>18 DEF Write_Fails, ClientType
<1>19. ASSUME Write_Part PROVE ClientType'
  BY <1>0, <1>2, <1>19 DEF Write_Part, Transfer, ClientType
<1>20. ASSUME Write_Ends PROVE ClientType'
  BY <1>0, <1>2, <1>20 DEF Write_Ends, Transfer, ModFd, ClientType
<1>21. CASE UNCHANGED vars
  BY <1>0, <1>2, <1>21 DEF vars, socket, ClientType
<1> QED
  BY <1>3, <1>4, <1>5, <1>6, <1>7, <1>8, <1>9, <1>10, <1>11, <1>12, <1>13, <1>14, <1>15, <1>16, <1>17, <1>18, <1>19, <1>20, <1>21 DEF Next, ClientStep, EventStep, ParseStep, WriteStep

(***************************************************************************)
(* What the steps of the parser find.                                      *)
(***************************************************************************)

(* The headers that state a length state that of the body. *)
LEMMA StatedStep ==
  ASSUME TypeOK, served < Len(asked)
  PROVE  /\ \A j \in 1..Lines :
               Stated(j) = IF Current.headers[j] \in DOMAIN Length THEN Length[Current.headers[j]]
                           ELSE Stated(j - 1)
         /\ Stated(0) = 0 /\ Stated(Lines) = Len(Current.body)
         /\ \A j \in 0..Lines : Stated(j) \in Nat
<1>1. /\ Current \in Requests /\ Lines \in Nat /\ Lines = Len(Current.headers) /\ Len(Current.body) \in Nat
      /\ (Current.body = <<>> <=> Len(Current.body) = 0)
  BY CurrentShape DEF Lines
<1>2. {Length[w] : w \in ToSet(Current.headers) \cap DOMAIN Length}
      = (IF Current.body = <<>> THEN {} ELSE {Len(Current.body)})
  BY <1>1, RequestAssumption
<1>3. ToSet(Current.headers) = {Current.headers[i] : i \in 1..Lines}
  <2>1. Current.headers \in Seq(TokensOf(Current))
    BY <1>1, RequestShape
  <2> QED
    BY <1>1, <2>1, LenProperties DEF ToSet
<1>4. ASSUME NEW i \in 1..Lines, Current.headers[i] \in DOMAIN Length
      PROVE  Length[Current.headers[i]] = Len(Current.body)
  <2>1. Current.headers[i] \in ToSet(Current.headers) \cap DOMAIN Length
    BY <1>3, <1>4
  <2>2. Length[Current.headers[i]] \in {Length[w] : w \in ToSet(Current.headers) \cap DOMAIN Length}
    BY <2>1
  <2> QED
    BY <1>2, <2>2
<1>5. ASSUME NEW j \in 1..Lines
      PROVE  Stated(j) = IF Current.headers[j] \in DOMAIN Length THEN Length[Current.headers[j]]
                         ELSE Stated(j - 1)
  <2>1. j \in 1..j /\ 1..j = (1..j - 1) \cup {j}
    BY <1>1
  <2> QED
    BY <1>4, <2>1 DEF Stated
<1>6. Stated(0) = 0
  BY DEF Stated
<1>7. Stated(Lines) = Len(Current.body)
  <2>1. CASE Current.body = <<>>
    <3>1. \A i \in 1..Lines : Current.headers[i] \notin DOMAIN Length
      BY <1>2, <1>3, <2>1
    <3> QED
      BY <1>1, <2>1, <3>1 DEF Stated
  <2>2. CASE Current.body # <<>>
    <3>1. PICK w \in ToSet(Current.headers) \cap DOMAIN Length : Length[w] = Len(Current.body)
      BY <1>2, <2>2
    <3>2. \E i \in 1..Lines : Current.headers[i] \in DOMAIN Length
      BY <1>3, <3>1
    <3> QED
      BY <3>2 DEF Stated
  <2> QED
    BY <2>1, <2>2
<1>8. \A j \in 0..Lines : Stated(j) \in Nat
  BY <1>1 DEF Stated
<1> QED
  BY <1>5, <1>6, <1>7, <1>8

(* While the parser runs, the object is in use and its place in the        *)
(* request is known.                                                       *)
LEMMA ParserRuns ==
  ASSUME TypeOK, ModeInv, PlaceInv, LineInv, pc = "parse"
  PROVE  /\ Live /\ ret = "none" /\ served < Len(asked) /\ base = Start(served) /\ base + m_read_idx <= sent
         /\ AtRequestLine \/ (\E j \in 1..Lines + 1 : AtHeader(j)) \/ AtBody
<1>1. Live /\ ret = "none"
  BY DEF Live, ModeInv
<1> QED
  BY <1>1 DEF PlaceInv, LineInv

(* At the request line parse_line finds it, or asks for more. *)
LEMMA RequestLineStep ==
  ASSUME TypeOK, ModeInv, PlaceInv, LineInv, pc = "parse", m_check_state = "REQUESTLINE"
  PROVE  AtRequestLine /\ (TakesWord(0) \/ WaitsForWord(0)) /\ Word(Current, 0) = Current.line
<1>1. Live /\ served < Len(asked) /\ AtRequestLine
  BY ParserRuns DEF AtHeader, AtBody
<1>2. Lines \in Nat
  BY <1>1, CurrentShape
<1>3. 0 \in 0..Lines /\ m_start_line = 3 * 0 /\ m_checked_idx \in 3 * 0..3 * 0 + 1
  BY <1>1, <1>2 DEF AtRequestLine
<1> QED
  BY <1>1, <1>3, WordTaken DEF Word

(* At a header line or the empty one, the same. *)
LEMMA HeaderStep ==
  ASSUME TypeOK, ModeInv, PlaceInv, LineInv, pc = "parse", m_check_state = "HEADER"
  PROVE  \E j \in 1..Lines + 1 :
            /\ AtHeader(j)
            /\ \/ j \in 1..Lines /\ Word(Current, j) = Current.headers[j] /\ (TakesWord(j) \/ WaitsForWord(j))
               \/ j = Lines + 1 /\ (TakesEmptyLine \/ WaitsForEmptyLine)
<1>1. Live /\ served < Len(asked) /\ \E j \in 1..Lines + 1 : AtHeader(j)
  BY ParserRuns DEF AtRequestLine, AtBody
<1>2. Lines \in Nat
  BY <1>1, CurrentShape
<1>3. PICK j \in 1..Lines + 1 : AtHeader(j)
  BY <1>1
<1>4. CASE j = Lines + 1
  <2>1. m_start_line = 3 * j /\ m_checked_idx = 3 * j
    BY <1>3, <1>4 DEF AtHeader
  <2>2. TakesEmptyLine \/ WaitsForEmptyLine
    BY <1>1, <1>4, <2>1, EmptyLineTaken
  <2> QED
    BY <1>3, <1>4, <2>2
<1>5. CASE j # Lines + 1
  <2>1. j \in 1..Lines /\ j \in 0..Lines /\ j # 0
    BY <1>2, <1>5
  <2>2. m_start_line = 3 * j /\ m_checked_idx \in 3 * j..3 * j + 1
    BY <1>3 DEF AtHeader
  <2>3. TakesWord(j) \/ WaitsForWord(j)
    BY <1>1, <2>1, <2>2, WordTaken
  <2> QED
    BY <1>3, <2>1, <2>3 DEF Word
<1> QED
  BY <1>4, <1>5

(* In the state CONTENT the parser is in a body. *)
LEMMA BodyStep ==
  ASSUME TypeOK, ModeInv, PlaceInv, LineInv, pc = "parse", m_check_state = "CONTENT"
  PROVE  AtBody
BY ParserRuns DEF AtRequestLine, AtHeader

(* What a read adds to the buffer has arrived, and goes into the buffer. *)
LEMMA ReadKeeps ==
  ASSUME TypeOK, PlaceInv, Live, Read
  PROVE  /\ m_read_idx' \in 0..READ_BUFFER_SIZE /\ m_read_idx <= m_read_idx'
         /\ base + m_read_idx' <= sent
<1>1. /\ m_read_idx \in 0..READ_BUFFER_SIZE /\ base \in Nat /\ sent \in Nat
      /\ base + m_read_idx <= sent /\ READ_BUFFER_SIZE \in Nat
  BY Sizes DEF TypeOK, PlaceInv
<1>2. /\ Taken \in Nat /\ Taken <= READ_BUFFER_SIZE /\ base + Taken <= sent /\ m_read_idx <= Taken
  BY <1>1 DEF Taken
<1>3. m_read_idx' \in m_read_idx..Taken
  BY <1>1, <1>2 DEF Read
<1>4. PICK n, t \in Nat : n = m_read_idx' /\ t = Taken
  BY <1>1, <1>2, <1>3
<1>5. m_read_idx <= n /\ n <= t
  BY <1>3, <1>4
<1>6. t <= READ_BUFFER_SIZE /\ base + t <= sent
  BY <1>2, <1>4
<1>7. n \in 0..READ_BUFFER_SIZE /\ base + n <= sent
  BY <1>1, <1>5, <1>6
<1> QED
  BY <1>4, <1>5, <1>7

(* The indices stay in the buffer and in order. *)
LEMMA IndexTypeStep ==
  ASSUME TypeOK, PlaceInv, [Next]_vars
  PROVE  IndexType'
<1>0. IndexType /\ ClientType
  BY TypeParts
<1>1. CASE UNCHANGED <<base, m_read_idx, m_checked_idx, m_start_line>>
  BY <1>0, <1>1 DEF IndexType
<1>2. ASSUME Connect PROVE IndexType'
  BY Sizes, <1>2 DEF Connect, Reset, IndexType
<1>3. ASSUME Send PROVE IndexType'
  BY <1>1, <1>3 DEF Send, parser, output, file, history
<1>4. ASSUME Leave PROVE IndexType'
  BY <1>1, <1>4 DEF Leave, parser, output, file, history
<1>5. ASSUME DealClose PROVE IndexType'
  BY <1>1, <1>5 DEF DealClose, CloseConn, parser, output, file
<1>6. ASSUME TimerFunc PROVE IndexType'
  BY <1>1, <1>6 DEF TimerFunc, CloseConn, parser, output, file
<1>7. ASSUME DealRead PROVE IndexType'
  <2>1. base' = base /\ m_checked_idx' = m_checked_idx /\ m_start_line' = m_start_line
    BY <1>7 DEF DealRead
  <2>2. Read
    BY <1>7 DEF DealRead
  <2>3. Live
    BY <1>7 DEF DealRead, Live, Open
  <2>4. m_read_idx' \in 0..READ_BUFFER_SIZE /\ m_read_idx <= m_read_idx'
    BY <1>0, <2>2, <2>3, ReadKeeps, Sizes DEF IndexType
  <2> QED
    BY <1>0, <2>1, <2>4, Sizes DEF IndexType
<1>8. ASSUME DealWrite PROVE IndexType'
  BY <1>1, <1>8 DEF DealWrite, parser, output, file, history
<1>9. ASSUME ParseRequestLine_Crashes PROVE IndexType'
  BY <1>1, <1>9 DEF ParseRequestLine_Crashes, parser, output, file, history
<1>10. ASSUME Process PROVE IndexType'
  <2>1. base' = base /\ m_checked_idx' = m_checked_idx /\ m_start_line' = m_start_line
    BY <1>10 DEF Process
  <2>2. Read \/ m_read_idx' = m_read_idx
    BY <1>10 DEF Process
  <2>3. Live
    BY <1>10 DEF Process, Live, Open
  <2>4. m_read_idx' \in 0..READ_BUFFER_SIZE /\ m_read_idx <= m_read_idx'
    BY <1>0, <2>2, <2>3, ReadKeeps, Sizes DEF IndexType
  <2> QED
    BY <1>0, <2>1, <2>4, Sizes DEF IndexType
<1>11. ASSUME ParseRequestLine PROVE IndexType'
  <2>1. /\ m_checked_idx' = Line.checked /\ m_start_line' = Line.checked
        /\ base' = base /\ m_read_idx' = m_read_idx
    BY <1>11 DEF ParseRequestLine, TakeLine
  <2>2. Line.checked \in m_checked_idx..m_read_idx
    BY LineType
  <2> QED
    BY <1>0, <2>1, <2>2, Sizes DEF IndexType
<1>12. ASSUME ParseHeaders PROVE IndexType'
  <2>1. /\ m_checked_idx' = Line.checked /\ m_start_line' = Line.checked
        /\ base' = base /\ m_read_idx' = m_read_idx
    BY <1>12 DEF ParseHeaders, TakeLine
  <2>2. Line.checked \in m_checked_idx..m_read_idx
    BY LineType
  <2> QED
    BY <1>0, <2>1, <2>2, Sizes DEF IndexType
<1>13. ASSUME ParseContent PROVE IndexType'
  <2>1. /\ m_checked_idx' = Line.checked /\ m_start_line' = Line.checked
        /\ base' = base /\ m_read_idx' = m_read_idx
    BY <1>13 DEF ParseContent, TakeLine
  <2>2. Line.checked \in m_checked_idx..m_read_idx
    BY LineType
  <2> QED
    BY <1>0, <2>1, <2>2, Sizes DEF IndexType
<1>14. ASSUME NoRequest PROVE IndexType'
  <2>1. /\ m_checked_idx' = Line.checked /\ m_start_line' = m_start_line
        /\ base' = base /\ m_read_idx' = m_read_idx
    BY <1>14 DEF NoRequest
  <2>2. Line.checked \in m_checked_idx..m_read_idx
    BY LineType
  <2> QED
    BY <1>0, <2>1, <2>2, Sizes DEF IndexType
<1>15. ASSUME ProcessWrite PROVE IndexType'
  BY <1>1, <1>15 DEF ProcessWrite, CloseConn, ModFd, parser, file, output
<1>16. ASSUME Write_Blocks PROVE IndexType'
  BY <1>1, <1>16 DEF Write_Blocks, ModFd, parser, output, file, history
<1>17. ASSUME Write_Fails PROVE IndexType'
  BY <1>1, <1>17 DEF Write_Fails, Unmap, parser, output, history
<1>18. ASSUME Write_Part PROVE IndexType'
  BY <1>1, <1>18 DEF Write_Part, Transfer, parser, file
<1>19. ASSUME Write_Ends PROVE IndexType'
  <2>1. CASE KeepsConnection
    BY <1>0, <1>19, <2>1, Sizes DEF Write_Ends, Reset, IndexType
  <2>2. CASE ~KeepsConnection
    BY <1>1, <1>19, <2>2 DEF Write_Ends, parser
  <2> QED
    BY <2>1, <2>2
<1>20. CASE UNCHANGED vars
  BY <1>1, <1>20 DEF vars, socket, parser, output, file, history
<1> QED
  BY <1>2, <1>3, <1>4, <1>5, <1>6, <1>7, <1>8, <1>9, <1>10, <1>11, <1>12, <1>13, <1>14,
     <1>15, <1>16, <1>17, <1>18, <1>19, <1>20 DEF Next, ClientStep, EventStep, ParseStep, WriteStep

(* What do_request returns, by what stat() found. *)
LEMMA DoRequestRet ==
  ASSUME DoRequest
  PROVE  /\ ret' \in {"NO_RESOURCE", "FORBIDDEN_REQUEST", "BAD_REQUEST", "FILE_REQUEST"}
         /\ pc' = "respond"
         /\ ret' = CASE Target[m_url] = "missing" -> "NO_RESOURCE"
                     [] Target[m_url] = "private" -> "FORBIDDEN_REQUEST"
                     [] Target[m_url] = "directory" -> "BAD_REQUEST"
                     [] OTHER -> "FILE_REQUEST"
BY DEF DoRequest, Returns

(* The parser's variables stay in their sets; a stated length is a number. *)
LEMMA ParserTypeStep ==
  ASSUME TypeOK, ModeInv, PlaceInv, LineInv, [Next]_vars
  PROVE  ParserType'
<1>0. ParserType
  BY TypeParts
<1>1. CASE UNCHANGED <<m_check_state, m_linger, m_content_length, m_url, line_status, ret>>
  BY <1>0, <1>1 DEF ParserType
<1>2. ASSUME Connect PROVE ParserType'
  BY <1>0, <1>2 DEF Connect, Reset, ParserType
<1>3. ASSUME Send PROVE ParserType'
  BY <1>1, <1>3 DEF Send, parser, output, file, history
<1>4. ASSUME Leave PROVE ParserType'
  BY <1>1, <1>4 DEF Leave, parser, output, file, history
<1>5. ASSUME DealClose PROVE ParserType'
  BY <1>1, <1>5 DEF DealClose, CloseConn, parser, output, file
<1>6. ASSUME TimerFunc PROVE ParserType'
  BY <1>1, <1>6 DEF TimerFunc, CloseConn, parser, output, file
<1>7. ASSUME DealRead PROVE ParserType'
  BY <1>1, <1>7 DEF DealRead, Read, CloseConn, output, file
<1>8. ASSUME DealWrite PROVE ParserType'
  BY <1>1, <1>8 DEF DealWrite, parser, output, file, history
<1>9. ASSUME ParseRequestLine_Crashes PROVE ParserType'
  BY <1>1, <1>9 DEF ParseRequestLine_Crashes, parser, output, file, history
<1>10. ASSUME Process PROVE ParserType'
  BY <1>0, <1>10 DEF Process, output, file, ParserType
<1>11. ASSUME ParseRequestLine PROVE ParserType'
  <2>1. /\ m_url' \in {m_url} \cup DOMAIN Target /\ m_check_state' \in {m_check_state, "HEADER"}
        /\ line_status' = "OK" /\ ret' \in {ret, "BAD_REQUEST"}
        /\ UNCHANGED <<m_linger, m_content_length>>
    BY <1>11 DEF ParseRequestLine, Returns, GoesOn
  <2> QED
    BY <1>0, <2>1 DEF ParserType
<1>12. ASSUME ParseHeaders PROVE ParserType'
  <2>1. /\ m_url' = m_url /\ m_check_state' \in {m_check_state, "CONTENT"} /\ line_status' = "OK"
        /\ ret' \in {ret, "NO_RESOURCE", "FORBIDDEN_REQUEST", "BAD_REQUEST", "FILE_REQUEST"}
        /\ m_linger' \in {m_linger, (m_linger \/ Text[1] = KeepAlive)}
    BY <1>12, DoRequestRet DEF ParseHeaders, GoesOn
  <2>2. m_content_length' \in Nat
    <3>1. pc = "parse" /\ m_check_state = "HEADER" /\ Line.status = "OK"
      BY <1>12 DEF ParseHeaders, TakeLine
    <3>2. PICK j \in 1..Lines + 1 :
            /\ AtHeader(j)
            /\ \/ j \in 1..Lines /\ Word(Current, j) = Current.headers[j] /\ (TakesWord(j) \/ WaitsForWord(j))
               \/ j = Lines + 1 /\ (TakesEmptyLine \/ WaitsForEmptyLine)
      BY <3>1, HeaderStep
    <3>3. served < Len(asked) /\ m_content_length \in Nat
      BY <1>0, <3>2 DEF AtHeader, Accepted, ParserType
    <3>4. CASE Text = <<>>
      BY <1>12, <3>3, <3>4 DEF ParseHeaders
    <3>5. CASE j \in 1..Lines /\ Text = <<Current.headers[j]>>
      <4>1. Text # <<>> /\ Text[1] = Current.headers[j]
        BY <3>5
      <4>2. m_content_length' = IF Current.headers[j] \in DOMAIN Length THEN Length[Current.headers[j]]
                                ELSE m_content_length
        BY <1>12, <4>1 DEF ParseHeaders
      <4>3. /\ Stated(j) = IF Current.headers[j] \in DOMAIN Length THEN Length[Current.headers[j]]
                            ELSE Stated(j - 1)
            /\ Stated(j) \in Nat
        <5>1. j \in 0..Lines
          BY <3>5
        <5> QED
          BY <3>3, <3>5, <5>1, StatedStep
      <4> QED
        BY <3>3, <4>2, <4>3
    <3> QED
      BY <3>1, <3>2, <3>4, <3>5 DEF TakesWord, WaitsForWord, TakesEmptyLine, WaitsForEmptyLine, Found
  <2> QED
    BY <1>0, <2>1, <2>2 DEF ParserType
<1>13. ASSUME ParseContent PROVE ParserType'
  <2>1. /\ UNCHANGED <<m_check_state, m_url, m_linger, m_content_length>>
        /\ line_status' \in {line_status, "OPEN"}
        /\ ret' \in {ret, "NO_RESOURCE", "FORBIDDEN_REQUEST", "BAD_REQUEST", "FILE_REQUEST"}
    BY <1>13, DoRequestRet DEF ParseContent, GoesOn
  <2> QED
    BY <1>0, <2>1 DEF ParserType
<1>14. ASSUME NoRequest PROVE ParserType'
  <2>1. line_status' \in {"OK", "OPEN", "BAD"}
    BY <1>14, LineType DEF NoRequest
  <2> QED
    BY <1>0, <1>14, <2>1 DEF NoRequest, ParserType
<1>15. ASSUME ProcessWrite PROVE ParserType'
  BY <1>1, <1>15 DEF ProcessWrite, CloseConn, ModFd, parser, file, output
<1>16. ASSUME Write_Blocks PROVE ParserType'
  BY <1>1, <1>16 DEF Write_Blocks, ModFd, parser, output, file, history
<1>17. ASSUME Write_Fails PROVE ParserType'
  BY <1>1, <1>17 DEF Write_Fails, Unmap, parser, output, history
<1>18. ASSUME Write_Part PROVE ParserType'
  BY <1>1, <1>18 DEF Write_Part, Transfer, parser, file
<1>19. ASSUME Write_Ends PROVE ParserType'
  <2>1. CASE KeepsConnection
    <3>1. Reset(base + m_read_idx)
      BY <1>19, <2>1 DEF Write_Ends
    <3> QED
      BY <1>0, <3>1 DEF Reset, ParserType
  <2>2. CASE ~KeepsConnection
    BY <1>1, <1>19, <2>2 DEF Write_Ends, parser
  <2> QED
    BY <2>1, <2>2
<1>20. CASE UNCHANGED vars
  BY <1>1, <1>20 DEF vars, socket, parser, output, file, history
<1> QED
  BY <1>2, <1>3, <1>4, <1>5, <1>6, <1>7, <1>8, <1>9, <1>10, <1>11, <1>12, <1>13, <1>14,
     <1>15, <1>16, <1>17, <1>18, <1>19, <1>20 DEF Next, ClientStep, EventStep, ParseStep, WriteStep

(* After a partial write the iovecs are still pairs of integers. *)
LEMMA AdvanceType ==
  ASSUME m_iv \in [0..1 -> [base : Int, len : Int]], NEW rest \in Int, AdvanceIovecs(rest)
  PROVE  m_iv' \in [0..1 -> [base : Int, len : Int]]
<1>1. /\ m_iv[0] \in [base : Int, len : Int] /\ m_iv[1] \in [base : Int, len : Int]
      /\ m_iv[0].base \in Int /\ m_iv[0].len \in Int /\ m_iv[1].base \in Int /\ m_iv[1].len \in Int
  OBVIOUS
<1>2. CASE rest >= m_iv[1].len
  <2>1. m_iv' = [i \in 0..1 |-> IF i = 0 THEN [m_iv[0] EXCEPT !.len = 0]
                                ELSE [base |-> m_iv[1].base + (m_iv[1].len - rest),
                                      len |-> m_iv[1].len - (m_iv[1].len - rest)]]
    BY <1>2 DEF AdvanceIovecs
  <2> QED
    BY <1>1, <2>1
<1>3. CASE ~(rest >= m_iv[1].len)
  <2>1. PICK d \in Int : d = m_iv[0].len + m_iv[1].len - rest
    BY <1>1
  <2>2. m_iv' = [m_iv EXCEPT ![0] = [base |-> @.base + d, len |-> @.len - d]]
    BY <1>3, <2>1 DEF AdvanceIovecs
  <2>3. [base |-> m_iv[0].base + d, len |-> m_iv[0].len - d] \in [base : Int, len : Int]
    BY <1>1
  <2> QED
    BY <2>2, <2>3
<1> QED
  BY <1>2, <1>3

(* The output's variables stay in their sets. *)
LEMMA OutputTypeStep ==
  ASSUME TypeOK, [Next]_vars
  PROVE  OutputType'
<1>0. OutputType
  BY TypeParts
<1>1. CASE UNCHANGED <<bytes_to_send, m_iv, m_iv_count>>
  BY <1>0, <1>1 DEF OutputType
<1>2. ASSUME Connect PROVE OutputType'
  BY <1>0, <1>2, Sizes DEF Connect, Reset, OutputType
<1>3. ASSUME Send PROVE OutputType'
  BY <1>1, <1>3 DEF Send, parser, output, file, history
<1>4. ASSUME Leave PROVE OutputType'
  BY <1>1, <1>4 DEF Leave, parser, output, file, history
<1>5. ASSUME DealClose PROVE OutputType'
  BY <1>1, <1>5 DEF DealClose, CloseConn, parser, output, file
<1>6. ASSUME TimerFunc PROVE OutputType'
  BY <1>1, <1>6 DEF TimerFunc, CloseConn, parser, output, file
<1>7. ASSUME DealRead PROVE OutputType'
  BY <1>1, <1>7 DEF DealRead, Read, CloseConn, output, file
<1>8. ASSUME DealWrite PROVE OutputType'
  BY <1>1, <1>8 DEF DealWrite, parser, output, file, history
<1>9. ASSUME ParseRequestLine_Crashes PROVE OutputType'
  BY <1>1, <1>9 DEF ParseRequestLine_Crashes, parser, output, file, history
<1>10. ASSUME Process PROVE OutputType'
  BY <1>1, <1>10 DEF Process, Read, CloseConn, output, file
<1>11. ASSUME ParseRequestLine PROVE OutputType'
  BY <1>1, <1>11 DEF ParseRequestLine, TakeLine, Returns, GoesOn, socket, output, file, history
<1>12. ASSUME ParseHeaders PROVE OutputType'
  BY <1>1, <1>12 DEF ParseHeaders, TakeLine, Returns, GoesOn, socket, output, file, history
<1>13. ASSUME ParseContent PROVE OutputType'
  BY <1>1, <1>13 DEF ParseContent, TakeLine, Returns, GoesOn, socket, output, file, history
<1>14. ASSUME NoRequest PROVE OutputType'
  BY <1>1, <1>14 DEF NoRequest, ModFd, output, file, history
<1>15. ASSUME ProcessWrite PROVE OutputType'
  <2>1. CASE ret = "BAD_REQUEST"
    BY <1>1, <1>15, <2>1 DEF ProcessWrite, output
  <2>2. CASE ret # "BAD_REQUEST"
    <3>1. bytes_to_send' \in 0..HeaderLen + FileLen /\ m_iv_count' \in 0..2
      BY <1>15, <2>2, ResponseLength DEF ProcessWrite
    <3>2. m_iv' = [i \in 0..1 |-> IF i = 0 THEN [base |-> 0, len |-> HeaderLen]
                                  ELSE IF HasFile THEN [base |-> 0, len |-> FileLen] ELSE m_iv[1]]
      BY <1>15, <2>2 DEF ProcessWrite
    <3>3. m_iv[1] \in [base : Int, len : Int]
      BY <1>0 DEF OutputType
    <3>4. m_iv' \in [0..1 -> [base : Int, len : Int]]
      BY <3>2, <3>3, Sizes
    <3> QED
      BY <3>1, <3>4 DEF OutputType
  <2> QED
    BY <2>1, <2>2
<1>16. ASSUME Write_Blocks PROVE OutputType'
  BY <1>1, <1>16 DEF Write_Blocks, ModFd, parser, output, file, history
<1>17. ASSUME Write_Fails PROVE OutputType'
  BY <1>1, <1>17 DEF Write_Fails, Unmap, parser, output, history
<1>18. ASSUME Write_Part PROVE OutputType'
  <2>1. PICK n \in 0..Len(Designated) : n < bytes_to_send /\ bytes_to_send' = bytes_to_send - n /\ Transfer(n)
    BY <1>18 DEF Write_Part
  <2>2. n \in Nat /\ bytes_to_send - n \in 0..bytes_to_send
    BY <1>0, <2>1, Sizes DEF OutputType
  <2>3. m_iv' \in [0..1 -> [base : Int, len : Int]] /\ m_iv_count' = m_iv_count
    BY <1>0, <2>1, <2>2, AdvanceType DEF Transfer, OutputType
  <2> QED
    BY <1>0, <2>1, <2>2, <2>3, Sizes DEF OutputType
<1>19. ASSUME Write_Ends PROVE OutputType'
  <2>1. Transfer(bytes_to_send) /\ bytes_to_send' = 0
    BY <1>19 DEF Write_Ends, Reset
  <2>2. m_iv' \in [0..1 -> [base : Int, len : Int]] /\ m_iv_count' = m_iv_count
    <3>1. bytes_to_send - bytes_to_send \in Int
      BY <1>0 DEF OutputType
    <3> QED
      BY <1>0, <2>1, <3>1, AdvanceType DEF Transfer, OutputType
  <2> QED
    BY <1>0, <2>1, <2>2, Sizes DEF OutputType
<1>20. CASE UNCHANGED vars
  BY <1>1, <1>20 DEF vars, socket, parser, output, file, history
<1> QED
  BY <1>2, <1>3, <1>4, <1>5, <1>6, <1>7, <1>8, <1>9, <1>10, <1>11, <1>12, <1>13, <1>14,
     <1>15, <1>16, <1>17, <1>18, <1>19, <1>20 DEF Next, ClientStep, EventStep, ParseStep, WriteStep

(* What unmap() leaves: at most the mappings there were, and without the   *)
(* one of the response under way, whose size it knows.                     *)
LEMMA UnmapType ==
  ASSUME TypeOK, MappingInv, Unmap
  PROVE  /\ m_file_address' = "null" /\ m_file_stat' = m_file_stat
         /\ mappings' \in 0..mappings
         /\ m_file_address = "file" /\ m_file_stat = "mapped" => mappings' = mappings - 1
<1>1. mappings \in Nat /\ (m_file_address = "file" => mappings > 0)
  BY DEF TypeOK, MappingInv
<1> QED
  BY <1>1 DEF Unmap

(* A mapping is undone only where there is one, so their number is never   *)
(* negative.                                                               *)
LEMMA FileTypeStep ==
  ASSUME TypeOK, MappingInv, [Next]_vars
  PROVE  FileType'
<1>0. FileType /\ (m_file_address = "file" => mappings > 0)
  BY TypeParts DEF MappingInv
<1>1. CASE UNCHANGED <<m_file_address, m_file_stat, mappings>>
  BY <1>0, <1>1 DEF FileType
<1>2. ASSUME Connect PROVE FileType'
  BY <1>1, <1>2 DEF Connect, Reset, file
<1>3. ASSUME Send PROVE FileType'
  BY <1>1, <1>3 DEF Send, parser, output, file, history
<1>4. ASSUME Leave PROVE FileType'
  BY <1>1, <1>4 DEF Leave, parser, output, file, history
<1>5. ASSUME DealClose PROVE FileType'
  BY <1>1, <1>5 DEF DealClose, CloseConn, parser, output, file
<1>6. ASSUME TimerFunc PROVE FileType'
  BY <1>1, <1>6 DEF TimerFunc, CloseConn, parser, output, file
<1>7. ASSUME DealRead PROVE FileType'
  BY <1>1, <1>7 DEF DealRead, Read, CloseConn, output, file
<1>8. ASSUME DealWrite PROVE FileType'
  BY <1>1, <1>8 DEF DealWrite, parser, output, file, history
<1>9. ASSUME ParseRequestLine_Crashes PROVE FileType'
  BY <1>1, <1>9 DEF ParseRequestLine_Crashes, parser, output, file, history
<1>10. ASSUME Process PROVE FileType'
  BY <1>1, <1>10 DEF Process, Read, CloseConn, output, file
<1>11. ASSUME ParseRequestLine PROVE FileType'
  BY <1>1, <1>11 DEF ParseRequestLine, TakeLine, Returns, GoesOn, socket, output, file, history
<1>12. ASSUME ParseHeaders PROVE FileType'
  <2>1. CASE UNCHANGED file
    BY <1>1, <2>1 DEF file
  <2>2. CASE DoRequest
    BY <1>0, <2>2 DEF DoRequest, FileType
  <2> QED
    BY <1>12, <2>1, <2>2 DEF ParseHeaders
<1>13. ASSUME ParseContent PROVE FileType'
  <2>1. CASE UNCHANGED file
    BY <1>1, <2>1 DEF file
  <2>2. CASE DoRequest
    BY <1>0, <2>2 DEF DoRequest, FileType
  <2> QED
    BY <1>13, <2>1, <2>2 DEF ParseContent
<1>14. ASSUME NoRequest PROVE FileType'
  BY <1>1, <1>14 DEF NoRequest, ModFd, output, file, history
<1>15. ASSUME ProcessWrite PROVE FileType'
  BY <1>1, <1>15 DEF ProcessWrite, CloseConn, ModFd, parser, file, output
<1>16. ASSUME Write_Blocks PROVE FileType'
  BY <1>1, <1>16 DEF Write_Blocks, ModFd, parser, output, file, history
<1>17. ASSUME Write_Fails PROVE FileType'
  BY <1>0, UnmapType, <1>17 DEF Write_Fails, FileType
<1>18. ASSUME Write_Part PROVE FileType'
  BY <1>1, <1>18 DEF Write_Part, Transfer, parser, file
<1>19. ASSUME Write_Ends PROVE FileType'
  BY <1>0, UnmapType, <1>19 DEF Write_Ends, FileType
<1>20. CASE UNCHANGED vars
  BY <1>1, <1>20 DEF vars, socket, parser, output, file, history
<1> QED
  BY <1>2, <1>3, <1>4, <1>5, <1>6, <1>7, <1>8, <1>9, <1>10, <1>11, <1>12, <1>13, <1>14,
     <1>15, <1>16, <1>17, <1>18, <1>19, <1>20 DEF Next, ClientStep, EventStep, ParseStep, WriteStep

(* The variables of the object's run stay in their sets. *)
LEMMA RunTypeStep ==
  ASSUME TypeOK, [Next]_vars
  PROVE  RunType'
<1>0. RunType
  BY TypeParts
<1>1. ASSUME Connect PROVE RunType'
  <2>1. /\ clients' = clients + 1 /\ served' = 0 /\ UNCHANGED <<actor_mode, pc, abandoned>>
        /\ body_cut' = FALSE
    BY <1>1 DEF Connect, Reset
  <2>2. clients' \in Nat /\ served' \in Nat
    BY <1>0, <2>1 DEF RunType
  <2>3. body_cut' \in BOOLEAN
    BY <2>1
  <2> QED
    BY <1>0, <2>1, <2>2, <2>3 DEF RunType
<1>2. ASSUME Send PROVE RunType'
  BY <1>0, <1>2 DEF Send, parser, output, file, history, RunType
<1>3. ASSUME Leave PROVE RunType'
  BY <1>0, <1>3 DEF Leave, parser, output, file, history, RunType
<1>4. ASSUME DealClose PROVE RunType'
  BY <1>0, <1>4 DEF DealClose, CloseConn, parser, output, file, RunType
<1>5. ASSUME TimerFunc PROVE RunType'
  BY <1>0, <1>5 DEF TimerFunc, CloseConn, parser, output, file, RunType
<1>6. ASSUME DealRead PROVE RunType'
  BY <1>0, <1>6 DEF DealRead, Read, CloseConn, output, file, RunType
<1>7. ASSUME DealWrite PROVE RunType'
  BY <1>0, <1>7 DEF DealWrite, parser, output, file, history, RunType
<1>8. ASSUME ParseRequestLine_Crashes PROVE RunType'
  BY <1>0, <1>8 DEF ParseRequestLine_Crashes, parser, output, file, history, RunType
<1>9. ASSUME Process PROVE RunType'
  BY <1>0, <1>9 DEF Process, Read, CloseConn, output, file, RunType
<1>10. ASSUME ParseRequestLine PROVE RunType'
  BY <1>0, <1>10 DEF ParseRequestLine, TakeLine, Returns, GoesOn, socket, output, file, history, RunType
<1>11. ASSUME ParseHeaders PROVE RunType'
  BY DoRequestRet, <1>0, <1>11 DEF ParseHeaders, TakeLine, Returns, GoesOn, socket, output, file, history, RunType
<1>12. ASSUME ParseContent PROVE RunType'
  BY DoRequestRet, <1>0, <1>12 DEF ParseContent, TakeLine, Returns, GoesOn, socket, output, file, history, RunType
<1>13. ASSUME NoRequest PROVE RunType'
  BY <1>0, <1>13 DEF NoRequest, ModFd, output, file, history, RunType
<1>14. ASSUME ProcessWrite PROVE RunType'
  BY <1>0, <1>14 DEF ProcessWrite, CloseConn, ModFd, parser, file, output, RunType
<1>15. ASSUME Write_Blocks PROVE RunType'
  BY <1>0, <1>15 DEF Write_Blocks, ModFd, parser, output, file, history, RunType
<1>16. ASSUME Write_Fails PROVE RunType'
  BY <1>0, <1>16 DEF Write_Fails, Unmap, parser, output, history, RunType
<1>17. ASSUME Write_Part PROVE RunType'
  BY <1>0, <1>17 DEF Write_Part, Transfer, parser, file, RunType
<1>18. ASSUME Write_Ends PROVE RunType'
  <2>1. /\ pc' = "idle" /\ served' = served + 1 /\ UNCHANGED <<actor_mode, clients, abandoned>>
    BY <1>18 DEF Write_Ends, Transfer
  <2>2. body_cut' = FALSE \/ body_cut' = body_cut
    BY <1>18 DEF Write_Ends, Reset
  <2>3. served' \in Nat
    BY <1>0, <2>1 DEF RunType
  <2>4. body_cut' \in BOOLEAN
    BY <1>0, <2>2 DEF RunType
  <2> QED
    BY <1>0, <2>1, <2>3, <2>4 DEF RunType
<1>19. CASE UNCHANGED vars
  BY <1>0, <1>19 DEF vars, history, RunType
<1> QED
  BY <1>1, <1>2, <1>3, <1>4, <1>5, <1>6, <1>7, <1>8, <1>9, <1>10,
     <1>11, <1>12, <1>13, <1>14, <1>15, <1>16, <1>17, <1>18, <1>19 DEF Next, ClientStep, EventStep, ParseStep, WriteStep

(* No step leaves the types. *)
LEMMA TypeStep ==
  ASSUME TypeOK, ModeInv, PlaceInv, LineInv, MappingInv, [Next]_vars
  PROVE  TypeOK'
BY ClientTypeStep, IndexTypeStep, ParserTypeStep, OutputTypeStep, FileTypeStep, RunTypeStep,
   TypePartsNext

(***************************************************************************)
(* The other parts of the invariant.                                       *)
(***************************************************************************)

(* No step leaves the parser waiting with an answer, or the writer without *)
(* one.                                                                    *)
LEMMA ModeStep ==
  ASSUME TypeOK, ModeInv, [Next]_vars
  PROVE  ModeInv'
<1>0. ModeInv
  OBVIOUS
<1>1. CASE UNCHANGED <<pc, interest, actor_mode, ret, bytes_to_send>>
  BY <1>0, <1>1 DEF ModeInv
<1>2. ASSUME Connect PROVE ModeInv'
  BY <1>0, <1>2 DEF Connect, Reset, Open, ModeInv
<1>3. ASSUME Send PROVE ModeInv'
  BY <1>1, <1>3 DEF Send, parser, output, file, history
<1>4. ASSUME Leave PROVE ModeInv'
  BY <1>1, <1>4 DEF Leave, parser, output, file, history
<1>5. ASSUME DealClose PROVE ModeInv'
  BY <1>0, <1>5 DEF DealClose, CloseConn, parser, output, file, Open, ModeInv
<1>6. ASSUME TimerFunc PROVE ModeInv'
  BY <1>0, <1>6 DEF TimerFunc, CloseConn, parser, output, file, Open, ModeInv
<1>7. ASSUME DealRead PROVE ModeInv'
  BY <1>0, <1>7 DEF DealRead, Read, CloseConn, output, file, Open, ModeInv
<1>8. ASSUME DealWrite PROVE ModeInv'
  BY <1>0, <1>8 DEF DealWrite, parser, output, file, history, Open, ModeInv
<1>9. ASSUME ParseRequestLine_Crashes PROVE ModeInv'
  BY <1>0, <1>9 DEF ParseRequestLine_Crashes, parser, output, file, history, ModeInv
<1>10. ASSUME Process PROVE ModeInv'
  BY <1>0, <1>10 DEF Process, Read, CloseConn, output, file, Open, ModeInv
<1>11. ASSUME ParseRequestLine PROVE ModeInv'
  <2>1. /\ pc = "parse" /\ UNCHANGED <<interest, actor_mode, bytes_to_send>>
        /\ UNCHANGED <<ret, pc>> \/ (ret' # "none" /\ pc' = "respond")
    BY <1>11 DEF ParseRequestLine, TakeLine, Returns, GoesOn, socket, output
  <2> QED
    BY <1>0, <2>1 DEF ModeInv
<1>12. ASSUME ParseHeaders PROVE ModeInv'
  <2>1. /\ pc = "parse" /\ UNCHANGED <<interest, actor_mode, bytes_to_send>>
        /\ UNCHANGED <<ret, pc>> \/ (ret' # "none" /\ pc' = "respond")
    BY <1>12, DoRequestRet DEF ParseHeaders, TakeLine, GoesOn, socket, output
  <2> QED
    BY <1>0, <2>1 DEF ModeInv
<1>13. ASSUME ParseContent PROVE ModeInv'
  <2>1. /\ pc = "parse" /\ UNCHANGED <<interest, actor_mode, bytes_to_send>>
        /\ UNCHANGED <<ret, pc>> \/ (ret' # "none" /\ pc' = "respond")
    BY <1>13, DoRequestRet DEF ParseContent, TakeLine, GoesOn, socket, output
  <2> QED
    BY <1>0, <2>1 DEF ModeInv
<1>14. ASSUME NoRequest PROVE ModeInv'
  BY <1>0, <1>14 DEF NoRequest, ModFd, output, file, history, Open, ModeInv
<1>15. ASSUME ProcessWrite PROVE ModeInv'
  <2>1. CASE ret = "BAD_REQUEST"
    BY <1>0, <1>15, <2>1 DEF ProcessWrite, CloseConn, parser, output, ModeInv
  <2>2. CASE ret # "BAD_REQUEST"
    BY <1>0, <1>15, <2>2, ResponseLength DEF ProcessWrite, ModFd, Open, parser, ModeInv
  <2> QED
    BY <2>1, <2>2
<1>16. ASSUME Write_Blocks PROVE ModeInv'
  BY <1>0, <1>16 DEF Write_Blocks, ModFd, parser, output, file, history, Open, ModeInv
<1>17. ASSUME Write_Fails PROVE ModeInv'
  BY <1>0, <1>17 DEF Write_Fails, Unmap, parser, output, history, Open, ModeInv
<1>18. ASSUME Write_Part PROVE ModeInv'
  <2>1. PICK n \in 0..Len(Designated) : n < bytes_to_send /\ bytes_to_send' = bytes_to_send - n
    BY <1>18 DEF Write_Part
  <2>2. n \in Nat /\ bytes_to_send \in Nat
    BY <2>1 DEF TypeOK
  <2>3. bytes_to_send' > 0
    BY <2>1, <2>2
  <2>4. UNCHANGED <<interest, pc, ret, actor_mode>>
    BY <1>18 DEF Write_Part, Transfer, parser
  <2> QED
    BY <1>0, <2>3, <2>4 DEF ModeInv
<1>19. ASSUME Write_Ends PROVE ModeInv'
  <2>1. CASE KeepsConnection
    <3>1. ret' = "none" /\ interest' \in {"in", "none"} /\ pc' = "idle"
      BY <1>0, <1>19, <2>1 DEF Write_Ends, ModFd, Open, Reset, ModeInv
    <3> QED
      BY <1>0, <3>1 DEF ModeInv
  <2>2. CASE ~KeepsConnection
    BY <1>0, <1>19, <2>2 DEF Write_Ends, ModeInv
  <2> QED
    BY <2>1, <2>2
<1>20. CASE UNCHANGED vars
  BY <1>1, <1>20 DEF vars, socket, parser, output, file, history
<1> QED
  BY <1>2, <1>3, <1>4, <1>5, <1>6, <1>7, <1>8, <1>9, <1>10, <1>11, <1>12, <1>13, <1>14,
     <1>15, <1>16, <1>17, <1>18, <1>19, <1>20 DEF Next, ClientStep, EventStep, ParseStep, WriteStep

(* Of no sequences nothing is joined. *)
LEMMA NothingJoined ==
  ASSUME NEW s
  PROVE  Len(Joined(s, 0)) = 0
<1>1. [i \in 1..0 |-> s[i]] = <<>> /\ Len(<<>>) = 0
  OBVIOUS
<1> QED
  BY <1>1 DEF Joined, FlattenSeq

(* The buffer begins where a request does, also after init() on a          *)
(* connection that is kept.                                                *)
LEMMA PlaceStep ==
  ASSUME TypeOK, ModeInv, PlaceInv, AnswerInv, [Next]_vars
  PROVE  PlaceInv'
<1>0. /\ asked \in Seq(Requests) /\ served \in Nat /\ Len(asked) \in Nat /\ base \in Nat
      /\ m_read_idx \in Nat /\ sent \in 0..Len(Stream) /\ sent \in Nat
  BY Sizes DEF TypeOK
<1>1. asked' = asked /\ served' = served => Start(served)' = Start(served)
  BY DEF Start, Parts
<1>2. interest = "out" => ret # "none"
  BY DEF ModeInv
<1>3. CASE /\ UNCHANGED <<asked, served, base, m_read_idx>> /\ sent' \in Nat /\ sent <= sent'
           /\ Live' => Live
           /\ Live' /\ (pc' # "idle" \/ ret' # "none") => pc # "idle" \/ ret # "none"
  BY <1>0, <1>1, <1>3 DEF PlaceInv
<1>4. ASSUME Connect PROVE PlaceInv'
  <2>1. asked' \in Seq(Requests)
    BY <1>4, ScriptAssumption DEF Connect
  <2>2. served' = 0 /\ base' = 0 /\ m_read_idx' = 0 /\ sent' = 0 /\ pc' = "idle" /\ ret' = "none"
    BY <1>4 DEF Connect, Reset
  <2>3. Start(served)' = 0
    <3>1. PICK a \in Seq(Requests) : a = asked'
      BY <2>1
    <3>2. Start(served)' = Len(Joined([i \in DOMAIN a |-> Encode(a[i])], 0))
      BY <2>2, <3>1 DEF Start, Parts
    <3> QED
      BY <3>2, NothingJoined
  <2>4. Len(asked') \in Nat
    BY <2>1, LenProperties
  <2> QED
    BY <2>2, <2>3, <2>4 DEF PlaceInv
<1>5. ASSUME Send PROVE PlaceInv'
  <2>1. sent' \in Nat /\ sent <= sent'
    BY <1>0, <1>5 DEF Send
  <2> QED
    BY <1>3, <1>5, <2>1 DEF Send, parser, history, Live, Open
<1>6. ASSUME Leave PROVE PlaceInv'
  BY <1>0, <1>3, <1>6 DEF Leave, parser, output, file, history, Live, Open
<1>7. ASSUME DealClose PROVE PlaceInv'
  BY <1>0, <1>3, <1>7 DEF DealClose, CloseConn, parser, output, file, Live, Open
<1>8. ASSUME TimerFunc PROVE PlaceInv'
  BY <1>0, <1>3, <1>8 DEF TimerFunc, CloseConn, parser, output, file, Live, Open
<1>9. ASSUME DealRead PROVE PlaceInv'
  <2>1. Live /\ served <= Len(asked) /\ base = Start(served) /\ base + m_read_idx <= sent
    BY <1>9 DEF DealRead, Live, Open, PlaceInv
  <2>2. UNCHANGED <<asked, served, base, sent>> /\ Read
    BY <1>9 DEF DealRead
  <2>3. base + m_read_idx' <= sent
    BY <2>1, <2>2, ReadKeeps
  <2>4. served < Len(asked)
    <3>1. served # Len(asked)
      BY <1>0, <1>9, <2>1, StreamParts DEF DealRead
    <3> QED
      BY <1>0, <2>1, <3>1
  <2> QED
    BY <1>1, <2>1, <2>2, <2>3, <2>4 DEF PlaceInv
<1>10. ASSUME DealWrite PROVE PlaceInv'
  BY <1>0, <1>3, <1>10, <1>2 DEF DealWrite, parser, output, file, history, Live, Open
<1>11. ASSUME ParseRequestLine_Crashes PROVE PlaceInv'
  BY <1>0, <1>3, <1>11 DEF ParseRequestLine_Crashes, parser, output, file, history, Live, Open
<1>12. ASSUME Process PROVE PlaceInv'
  <2>1. Live /\ served <= Len(asked) /\ base = Start(served) /\ base + m_read_idx <= sent
    BY <1>12 DEF Process, Live, Open, PlaceInv
  <2>2. UNCHANGED <<asked, served, base, sent>> /\ (Read \/ m_read_idx' = m_read_idx)
    BY <1>12 DEF Process
  <2>3. base + m_read_idx' <= sent
    BY <2>1, <2>2, ReadKeeps
  <2>4. served < Len(asked)
    BY <1>12, <2>1 DEF Process, PlaceInv
  <2> QED
    BY <1>1, <2>1, <2>2, <2>3, <2>4 DEF PlaceInv
<1>13. ASSUME ParseRequestLine PROVE PlaceInv'
  BY <1>0, <1>3, <1>13 DEF ParseRequestLine, TakeLine, Returns, GoesOn, socket, output, file, history, Live, Open
<1>14. ASSUME ParseHeaders PROVE PlaceInv'
  BY <1>0, <1>3, <1>14 DEF ParseHeaders, TakeLine, Returns, GoesOn, socket, output, file, history, Live, Open
<1>15. ASSUME ParseContent PROVE PlaceInv'
  BY <1>0, <1>3, <1>15 DEF ParseContent, TakeLine, Returns, GoesOn, socket, output, file, history, Live, Open
<1>16. ASSUME NoRequest PROVE PlaceInv'
  BY <1>0, <1>3, <1>16 DEF NoRequest, ModFd, output, file, history, Live, Open
<1>17. ASSUME ProcessWrite PROVE PlaceInv'
  BY <1>0, <1>3, <1>17 DEF ProcessWrite, CloseConn, ModFd, parser, file, output, Live, Open
<1>18. ASSUME Write_Blocks PROVE PlaceInv'
  BY <1>0, <1>3, <1>18 DEF Write_Blocks, ModFd, parser, output, file, history, Live, Open
<1>19. ASSUME Write_Fails PROVE PlaceInv'
  BY <1>0, <1>3, <1>19 DEF Write_Fails, Unmap, parser, output, history, Live, Open
<1>20. ASSUME Write_Part PROVE PlaceInv'
  BY <1>0, <1>3, <1>20 DEF Write_Part, Transfer, parser, file, Live, Open
<1>21. ASSUME Write_Ends PROVE PlaceInv'
  <2>1. CASE KeepsConnection
    <3>1. /\ asked' = asked /\ served' = served + 1 /\ base' = base + m_read_idx /\ m_read_idx' = 0
          /\ sent' = sent /\ pc' = "idle" /\ ret' = "none"
      BY <1>21, <2>1 DEF Write_Ends, Transfer, Reset
    <3>2. Live /\ ret \notin {"none", "BAD_REQUEST"} /\ served < Len(asked) /\ base = Start(served)
          /\ base + m_read_idx <= sent
      BY <1>21 DEF Write_Ends, Live, ModeInv, PlaceInv
    <3>3. m_read_idx = Len(Encode(Current))
      <4>1. m_checked_idx = m_read_idx
        BY <2>1 DEF KeepsConnection, TypeOK
      <4>2. Current.body = <<>> /\ m_checked_idx = Len(Encode(Current))
        BY <1>0, <3>2, <4>1 DEF AnswerInv
      <4> QED
        BY <4>1, <4>2
    <3>4. served \in 0..Len(asked) - 1 /\ served + 1 <= Len(asked)
      BY <1>0, <3>2
    <3>5. Start(served + 1) = Start(served) + Len(Encode(Current))
      BY <1>0, <3>4, StreamParts DEF Current
    <3>6. Start(served)' = Start(served + 1)
      BY <3>1 DEF Start, Parts
    <3> QED
      BY <1>0, <3>1, <3>2, <3>3, <3>4, <3>5, <3>6 DEF PlaceInv
  <2>2. CASE ~KeepsConnection
    BY <1>21, <2>2 DEF Write_Ends, PlaceInv, Live, Open
  <2> QED
    BY <2>1, <2>2
<1>22. CASE UNCHANGED vars
  BY <1>0, <1>3, <1>22 DEF vars, socket, parser, output, file, history, Live, Open
<1> QED
  BY <1>4, <1>5, <1>6, <1>7, <1>8, <1>9, <1>10, <1>11, <1>12, <1>13, <1>14, <1>15, <1>16,
     <1>17, <1>18, <1>19, <1>20, <1>21, <1>22 DEF Next, ClientStep, EventStep, ParseStep, WriteStep

(* A mapping is made, used, and undone or abandoned with its response. *)
LEMMA MappingStep ==
  ASSUME TypeOK, ModeInv, MappingInv, [Next]_vars
  PROVE  MappingInv'
<1>0. MappingInv /\ mappings \in Nat /\ abandoned \in Nat
  BY DEF TypeOK
<1>1. CASE /\ UNCHANGED <<ret, m_url, m_file_address, m_file_stat, mappings, abandoned, actor_mode>>
           /\ (Live' => Live) /\ (Open' <=> Open)
  BY <1>0, <1>1 DEF MappingInv, NoMappingLost, HasFile
<1>2. Open /\ pc = "idle" /\ HasFile => bytes_to_send > 0
  BY DEF TypeOK, ModeInv, HasFile, Open
<1>3. ASSUME Connect PROVE MappingInv'
  BY <1>0, <1>3 DEF Connect, Reset, file, MappingInv, NoMappingLost, HasFile
<1>4. ASSUME Send PROVE MappingInv'
  BY <1>0, <1>1, <1>4 DEF Send, parser, output, file, history, Live, Open
<1>5. ASSUME Leave PROVE MappingInv'
  BY <1>0, <1>1, <1>5 DEF Leave, parser, output, file, history, Live, Open
<1>6. ASSUME DealClose PROVE MappingInv'
  <2>1. /\ UNCHANGED <<ret, m_url, m_file_address, m_file_stat, mappings, actor_mode, pc>> /\ interest' = "none" /\ pc = "idle"
        /\ abandoned' = abandoned + (IF Open /\ HasFile /\ bytes_to_send > 0 THEN 1 ELSE 0)
    BY <1>6 DEF DealClose, CloseConn, parser, file
  <2>2. ~Live' /\ ~Open'
    BY <2>1 DEF Live, Open
  <2>3. NoMappingLost'
    BY <1>0, <1>2, <2>1, <2>2 DEF MappingInv, NoMappingLost
  <2> QED
    BY <1>0, <2>1, <2>2, <2>3 DEF MappingInv
<1>7. ASSUME TimerFunc PROVE MappingInv'
  <2>1. /\ UNCHANGED <<ret, m_url, m_file_address, m_file_stat, mappings, actor_mode, pc>> /\ interest' = "none" /\ pc = "idle"
        /\ abandoned' = abandoned + (IF Open /\ HasFile /\ bytes_to_send > 0 THEN 1 ELSE 0)
    BY <1>7 DEF TimerFunc, CloseConn, parser, file
  <2>2. ~Live' /\ ~Open'
    BY <2>1 DEF Live, Open
  <2>3. NoMappingLost'
    BY <1>0, <1>2, <2>1, <2>2 DEF MappingInv, NoMappingLost
  <2> QED
    BY <1>0, <2>1, <2>2, <2>3 DEF MappingInv
<1>8. ASSUME DealRead PROVE MappingInv'
  <2>1. ret = "none" /\ UNCHANGED <<ret, m_url, m_file_address, m_file_stat, mappings, actor_mode>>
    BY <1>8 DEF DealRead, ModeInv, output, file
  <2>2. ~HasFile /\ ~HasFile'
    BY <2>1 DEF HasFile
  <2>3. abandoned' = abandoned
    BY <1>0, <1>8, <2>2 DEF DealRead, Read, CloseConn
  <2> QED
    BY <1>0, <2>1, <2>2, <2>3 DEF MappingInv, NoMappingLost
<1>9. ASSUME DealWrite PROVE MappingInv'
  BY <1>0, <1>1, <1>9 DEF DealWrite, parser, output, file, history, Live, Open
<1>10. ASSUME ParseRequestLine_Crashes PROVE MappingInv'
  <2>1. ret = "none" /\ UNCHANGED <<ret, file, abandoned, actor_mode>>
    BY <1>10 DEF ParseRequestLine_Crashes, ModeInv, history
  <2>2. ~HasFile /\ ~HasFile'
    BY <2>1 DEF HasFile
  <2> QED
    BY <1>0, <2>1, <2>2 DEF MappingInv, NoMappingLost, file
<1>11. ASSUME Process PROVE MappingInv'
  <2>1. ret = "none" /\ UNCHANGED <<ret, m_url, m_file_address, m_file_stat, mappings, actor_mode>>
    BY <1>11 DEF Process, ModeInv, output, file
  <2>2. ~HasFile /\ ~HasFile'
    BY <2>1 DEF HasFile
  <2>3. abandoned' = abandoned
    BY <1>0, <1>11, <2>2 DEF Process, Read, CloseConn
  <2> QED
    BY <1>0, <2>1, <2>2, <2>3 DEF MappingInv, NoMappingLost
<1>12. ASSUME ParseRequestLine PROVE MappingInv'
  <2>1. ret = "none" /\ ret' \in {"none", "BAD_REQUEST"} /\ UNCHANGED <<m_file_address, m_file_stat, mappings, abandoned, actor_mode>>
    BY <1>12 DEF ParseRequestLine, TakeLine, Returns, GoesOn, ModeInv, file, history
  <2>2. ~HasFile /\ ~HasFile'
    BY <2>1 DEF HasFile
  <2> QED
    BY <1>0, <2>1, <2>2 DEF MappingInv, NoMappingLost
<1>13. ASSUME ParseHeaders PROVE MappingInv'
  <2>1. ret = "none" /\ pc = "parse" /\ UNCHANGED <<m_url, abandoned, actor_mode, interest>>
    BY <1>13 DEF ParseHeaders, TakeLine, ModeInv, history, socket
  <2>2. ~HasFile
    BY <2>1 DEF HasFile
  <2>3. CASE DoRequest
    <3>1. CASE Target[m_url] = "regular"
      <4>1. m_file_address' = "file" /\ m_file_stat' = "mapped" /\ mappings' = mappings + 1 /\ HasFile' /\ (actor_mode = 1 => Open')
        BY <2>1, <2>3, <3>1, DoRequestRet DEF DoRequest, HasFile, ModeInv, Open
      <4> QED
        BY <1>0, <2>1, <2>2, <4>1 DEF MappingInv, NoMappingLost
    <3>2. CASE Target[m_url] # "regular"
      <4>1. m_file_address' \in {"failed", m_file_address} /\ mappings' = mappings /\ ~HasFile'
        BY <2>1, <2>3, <3>2 DEF DoRequest, HasFile
      <4> QED
        BY <1>0, <2>1, <2>2, <4>1 DEF MappingInv, NoMappingLost
    <3> QED
      BY <3>1, <3>2
  <2>4. CASE UNCHANGED <<ret, file>>
    <3>1. ~HasFile'
      BY <2>1, <2>4 DEF HasFile
    <3> QED
      BY <1>0, <2>1, <2>2, <2>4, <3>1 DEF MappingInv, NoMappingLost, file
  <2> QED
    BY <1>13, <2>3, <2>4 DEF ParseHeaders, GoesOn
<1>14. ASSUME ParseContent PROVE MappingInv'
  <2>1. ret = "none" /\ pc = "parse" /\ UNCHANGED <<m_url, abandoned, actor_mode, interest>>
    BY <1>14 DEF ParseContent, TakeLine, ModeInv, history, socket
  <2>2. ~HasFile
    BY <2>1 DEF HasFile
  <2>3. CASE DoRequest
    <3>1. CASE Target[m_url] = "regular"
      <4>1. m_file_address' = "file" /\ m_file_stat' = "mapped" /\ mappings' = mappings + 1 /\ HasFile' /\ (actor_mode = 1 => Open')
        BY <2>1, <2>3, <3>1, DoRequestRet DEF DoRequest, HasFile, ModeInv, Open
      <4> QED
        BY <1>0, <2>1, <2>2, <4>1 DEF MappingInv, NoMappingLost
    <3>2. CASE Target[m_url] # "regular"
      <4>1. m_file_address' \in {"failed", m_file_address} /\ mappings' = mappings /\ ~HasFile'
        BY <2>1, <2>3, <3>2 DEF DoRequest, HasFile
      <4> QED
        BY <1>0, <2>1, <2>2, <4>1 DEF MappingInv, NoMappingLost
    <3> QED
      BY <3>1, <3>2
  <2>4. CASE UNCHANGED <<ret, file>>
    <3>1. ~HasFile'
      BY <2>1, <2>4 DEF HasFile
    <3> QED
      BY <1>0, <2>1, <2>2, <2>4, <3>1 DEF MappingInv, NoMappingLost, file
  <2> QED
    BY <1>14, <2>3, <2>4 DEF ParseContent, GoesOn
<1>15. ASSUME NoRequest PROVE MappingInv'
  <2>1. ret = "none" /\ UNCHANGED <<ret, m_file_address, m_file_stat, mappings, abandoned, actor_mode>>
    BY <1>15 DEF NoRequest, ModeInv, file, history
  <2>2. ~HasFile /\ ~HasFile'
    BY <2>1 DEF HasFile
  <2> QED
    BY <1>0, <2>1, <2>2 DEF MappingInv, NoMappingLost
<1>16. ASSUME ProcessWrite PROVE MappingInv'
  <2>1. /\ UNCHANGED <<ret, m_url, m_file_address, m_file_stat, mappings, actor_mode>> /\ pc = "respond"
    BY <1>16 DEF ProcessWrite, parser, file
  <2>2. CASE ret = "BAD_REQUEST"
    <3>1. ~HasFile /\ ~HasFile'
      BY <2>1, <2>2 DEF HasFile
    <3>2. abandoned' = abandoned
      BY <1>0, <1>16, <2>2, <3>1 DEF ProcessWrite, CloseConn
    <3> QED
      BY <1>0, <2>1, <3>1, <3>2 DEF MappingInv, NoMappingLost
  <2>3. CASE ret # "BAD_REQUEST"
    <3>1. abandoned' = abandoned /\ (Live' => Live) /\ (Open' <=> Open)
      BY <2>1, <1>16, <2>3 DEF ProcessWrite, ModFd, Live, Open
    <3> QED
      BY <1>1, <2>1, <3>1
  <2> QED
    BY <2>2, <2>3
<1>17. ASSUME Write_Blocks PROVE MappingInv'
  BY <1>0, <1>1, <1>17 DEF Write_Blocks, ModFd, parser, output, file, history, Live, Open
<1>18. ASSUME Write_Fails PROVE MappingInv'
  <2>1. UNCHANGED <<ret, m_url, abandoned, actor_mode>> /\ interest' = "none" /\ pc' = "idle" /\ pc = "write" /\ Unmap
    BY <1>18 DEF Write_Fails, parser, history
  <2>2. ~Live' /\ ~Open' /\ Live
    BY <2>1 DEF Live, Open
  <2>3. /\ m_file_address' = "null" /\ mappings' \in 0..mappings
        /\ m_file_address = "file" /\ m_file_stat = "mapped" => mappings' = mappings - 1
    BY <2>1, UnmapType
  <2>4. NoMappingLost'
    BY <1>0, <2>1, <2>2, <2>3 DEF MappingInv, NoMappingLost
  <2> QED
    BY <1>0, <2>1, <2>2, <2>3, <2>4 DEF MappingInv
<1>19. ASSUME Write_Part PROVE MappingInv'
  BY <1>0, <1>1, <1>19 DEF Write_Part, Transfer, parser, file, Live, Open
<1>20. ASSUME Write_Ends PROVE MappingInv'
  <2>1. pc = "write" /\ UNCHANGED <<abandoned, actor_mode>> /\ Unmap
    BY <1>20 DEF Write_Ends, Transfer
  <2>2. Live /\ ~(Live' /\ HasFile') /\ ~(Open' /\ HasFile')
    BY <1>20 DEF Write_Ends, Reset, Live, Open, HasFile
  <2>3. /\ m_file_address' = "null" /\ mappings' \in 0..mappings
        /\ m_file_address = "file" /\ m_file_stat = "mapped" => mappings' = mappings - 1
    BY <2>1, UnmapType
  <2>4. NoMappingLost'
    BY <1>0, <2>1, <2>2, <2>3 DEF MappingInv, NoMappingLost
  <2> QED
    BY <1>0, <2>1, <2>2, <2>3, <2>4 DEF MappingInv
<1>21. CASE UNCHANGED vars
  BY <1>0, <1>1, <1>21 DEF vars, socket, parser, output, file, history, Live, Open
<1> QED
  BY <1>3, <1>4, <1>5, <1>6, <1>7, <1>8, <1>9, <1>10, <1>11, <1>12, <1>13, <1>14, <1>15,
     <1>16, <1>17, <1>18, <1>19, <1>20, <1>21 DEF Next, ClientStep, EventStep, ParseStep, WriteStep

(* The place in the request depends on these variables only. *)
LEMMA PlaceKept ==
  ASSUME UNCHANGED <<asked, served, m_check_state, m_start_line, m_checked_idx, m_content_length, m_url>>,
         body_cut => body_cut'
  PROVE  /\ AtRequestLine => AtRequestLine'
         /\ Lines' = Lines /\ \A j : AtHeader(j) => AtHeader(j)'
         /\ AtBody => AtBody'
<1>1. Current' = Current /\ Lines' = Lines /\ HeadLen' = HeadLen
  BY DEF Current, Lines, HeadLen
<1>2. \A j : Stated(j)' = Stated(j)
  BY <1>1 DEF Stated
<1>3. Accepted' <=> Accepted
  BY <1>1 DEF Accepted
<1>4. AtRequestLine => AtRequestLine'
  BY DEF AtRequestLine
<1>5. \A j : AtHeader(j) => AtHeader(j)'
  BY <1>1, <1>2, <1>3 DEF AtHeader
<1>6. AtBody => AtBody'
  BY <1>1, <1>3 DEF AtBody
<1> QED
  BY <1>1, <1>4, <1>5, <1>6

(* What the request under way is, while the client and its turn are kept. *)
LEMMA CurrentKept ==
  ASSUME UNCHANGED <<asked, served>>
  PROVE  /\ Current' = Current /\ Lines' = Lines /\ HeadLen' = HeadLen
         /\ Encode(Current') = Encode(Current)
         /\ \A j : Stated(j)' = Stated(j)
<1>1. Current' = Current /\ Lines' = Lines /\ HeadLen' = HeadLen
  BY DEF Current, Lines, HeadLen
<1> QED
  BY <1>1 DEF Stated

(* When all that was read ends before the body, a line that is asked for   *)
(* in the body is not there.                                               *)
LEMMA NothingInBody ==
  ASSUME TypeOK, ModeInv, PlaceInv, LineInv, BodyInv, pc = "parse", m_check_state = "CONTENT",
         ~body_cut, ~InBody
  PROVE  m_checked_idx = HeadLen /\ Line = Found("OPEN", HeadLen) /\ ~Complete
<1>1. AtBody
  BY BodyStep
<1>2. served < Len(asked) /\ m_checked_idx = HeadLen
  BY <1>1 DEF AtBody, Accepted
<1>3. ~EndsInBody(m_read_idx) /\ ~Complete
  BY DEF BodyInv, InBody
<1>4. /\ HeadLen \in Nat /\ Len(Current.body) \in Nat
      /\ Len(Encode(Current)) = HeadLen + Len(Current.body)
  BY <1>2, CurrentShape
<1>5. m_read_idx \in Nat /\ m_checked_idx <= m_read_idx
  BY DEF TypeOK
<1>6. m_read_idx < Len(Encode(Current)) /\ ~(m_read_idx > Len(Encode(Current)) - Len(Current.body))
  BY <1>3, <1>4, <1>5 DEF EndsInBody, Complete
<1>7. m_read_idx = HeadLen
  BY <1>2, <1>4, <1>5, <1>6
<1> QED
  BY <1>2, <1>3, <1>7, NoLineAtEnd

(* Each line taken leads to the next one, and waiting leads nowhere else. *)
LEMMA LineStep ==
  ASSUME TypeOK, ModeInv, PlaceInv, LineInv, BodyInv, [Next]_vars
  PROVE  LineInv'
<1>0. LineInv
  OBVIOUS
<1>1. CASE /\ UNCHANGED <<asked, served, m_check_state, m_start_line, m_checked_idx, m_content_length, m_url>>
           /\ (body_cut => body_cut') /\ (Live' /\ ret' = "none" => Live /\ ret = "none")
  BY <1>0, <1>1, PlaceKept DEF LineInv
<1>2. ASSUME Connect PROVE LineInv'
  <2>1. AtRequestLine'
    BY <1>2 DEF Connect, Reset, AtRequestLine
  <2> QED
    BY <2>1 DEF LineInv
<1>3. ASSUME Send PROVE LineInv'
  BY <1>0, <1>1, <1>3 DEF Send, parser, output, file, history, Live, Open
<1>4. ASSUME Leave PROVE LineInv'
  BY <1>0, <1>1, <1>4 DEF Leave, parser, output, file, history, Live, Open
<1>5. ASSUME DealClose PROVE LineInv'
  BY <1>0, <1>1, <1>5 DEF DealClose, CloseConn, parser, output, file, Live, Open
<1>6. ASSUME TimerFunc PROVE LineInv'
  BY <1>0, <1>1, <1>6 DEF TimerFunc, CloseConn, parser, output, file, Live, Open
<1>7. ASSUME DealRead PROVE LineInv'
  <2>1. UNCHANGED <<asked, served, m_check_state, m_start_line, m_checked_idx, m_content_length, m_url, ret>>
        /\ (body_cut => body_cut') /\ Live
    BY <1>7 DEF DealRead, output, file, Live, Open
  <2> QED
    BY <1>1, <2>1
<1>8. ASSUME DealWrite PROVE LineInv'
  BY <1>0, <1>1, <1>8 DEF DealWrite, parser, output, file, history, Live, Open
<1>9. ASSUME ParseRequestLine_Crashes PROVE LineInv'
  BY <1>0, <1>1, <1>9 DEF ParseRequestLine_Crashes, parser, output, file, history, Live, Open
<1>10. ASSUME Process PROVE LineInv'
  <2>1. UNCHANGED <<asked, served, m_check_state, m_start_line, m_checked_idx, m_content_length, m_url, ret>>
        /\ (body_cut => body_cut') /\ Live
    BY <1>10 DEF Process, output, file, Live, Open
  <2> QED
    BY <1>1, <2>1
<1>11. ASSUME ParseRequestLine PROVE LineInv'
  <2>1. pc = "parse" /\ m_check_state = "REQUESTLINE" /\ Line.status = "OK" /\ UNCHANGED <<asked, served>>
    BY <1>11 DEF ParseRequestLine, TakeLine, socket, history
  <2>2. AtRequestLine /\ TakesWord(0) /\ Word(Current, 0) = Current.line /\ served < Len(asked)
    BY <2>1, RequestLineStep, ParserRuns DEF WaitsForWord, Found
  <2>3. /\ m_checked_idx' = 3 /\ m_start_line' = 3 /\ Text # <<>> /\ Text[1] = Current.line
        /\ m_content_length' = 0
    BY <1>11, <2>2 DEF ParseRequestLine, TakeLine, TakesWord, Found, AtRequestLine
  <2>4. CASE Current.line \in DOMAIN Target
    <3>1. m_url' = Current.line /\ m_check_state' = "HEADER"
      BY <1>11, <2>3, <2>4 DEF ParseRequestLine
    <3>2. /\ Current' = Current /\ Lines' = Lines /\ Stated(0)' = 0 /\ Lines \in Nat
      BY <2>1, <2>2, CurrentKept, CurrentShape, StatedStep
    <3>3. AtHeader(1)'
      <4>1. Accepted'
        BY <2>1, <2>2, <2>4, <3>1, <3>2 DEF Accepted
      <4>2. 3 * 1 = 3 /\ 3 \in 3..3 + 1 /\ 1 - 1 = 0
        OBVIOUS
      <4> QED
        BY <2>3, <3>1, <3>2, <4>1, <4>2 DEF AtHeader
    <3>4. 1 \in 1..Lines' + 1
      BY <3>2
    <3> QED
      BY <3>3, <3>4 DEF LineInv
  <2>5. CASE Current.line \notin DOMAIN Target
    <3>1. ret' = "BAD_REQUEST"
      BY <1>11, <2>3, <2>5 DEF ParseRequestLine, Returns
    <3> QED
      BY <3>1 DEF LineInv
  <2> QED
    BY <2>4, <2>5
<1>12. ASSUME ParseHeaders PROVE LineInv'
  <2>1. pc = "parse" /\ m_check_state = "HEADER" /\ Line.status = "OK" /\ UNCHANGED <<asked, served, m_url>>
    BY <1>12 DEF ParseHeaders, TakeLine, socket, history
  <2>2. PICK j \in 1..Lines + 1 :
            /\ AtHeader(j)
            /\ \/ j \in 1..Lines /\ Word(Current, j) = Current.headers[j] /\ TakesWord(j)
               \/ j = Lines + 1 /\ TakesEmptyLine
    BY <2>1, HeaderStep DEF WaitsForWord, WaitsForEmptyLine, Found
  <2>3. /\ served < Len(asked) /\ Current' = Current /\ Lines' = Lines /\ HeadLen' = HeadLen
        /\ Lines \in Nat /\ \A i : Stated(i)' = Stated(i)
    BY <2>1, <2>2, CurrentKept, CurrentShape DEF AtHeader, Accepted
  <2>4. Accepted'
    BY <2>1, <2>2, <2>3 DEF AtHeader, Accepted
  <2>5. CASE j \in 1..Lines /\ Word(Current, j) = Current.headers[j] /\ TakesWord(j)
    <3>1. /\ m_checked_idx' = 3 * j + 3 /\ m_start_line' = 3 * j + 3 /\ Text # <<>>
          /\ Text[1] = Current.headers[j]
      BY <1>12, <2>5 DEF ParseHeaders, TakeLine, TakesWord, Found
    <3>2. /\ m_check_state' = "HEADER"
          /\ m_content_length' = IF Current.headers[j] \in DOMAIN Length THEN Length[Current.headers[j]]
                                 ELSE Stated(j - 1)
      BY <1>12, <2>1, <2>2, <3>1 DEF ParseHeaders, AtHeader
    <3>3. m_content_length' = Stated(j)
      BY <2>3, <2>5, <3>2, StatedStep
    <3>4. PICK i \in 1..Lines + 1 : i = j + 1 /\ i - 1 = j /\ 3 * i = 3 * j + 3
      BY <2>3, <2>5
    <3>5. 3 * i \in 3 * i..3 * i + 1
      BY <2>3
    <3>6. AtHeader(i)'
      BY <2>3, <2>4, <3>1, <3>2, <3>3, <3>4, <3>5 DEF AtHeader
    <3> QED
      BY <2>3, <3>6 DEF LineInv
  <2>6. CASE j = Lines + 1 /\ TakesEmptyLine
    <3>1. m_checked_idx' = HeadLen /\ Text = <<>>
      BY <1>12, <2>6 DEF ParseHeaders, TakeLine, TakesEmptyLine, Found
    <3>2. m_content_length = Len(Current.body) /\ (Current.body = <<>> <=> Len(Current.body) = 0) /\ HeadLen \in Nat
      <4>1. j - 1 = Lines
        BY <2>3, <2>6
      <4> QED
        BY <2>2, <2>3, <4>1, StatedStep, CurrentShape DEF AtHeader
    <3>3. CASE m_content_length # 0
      <4>1. m_check_state' = "CONTENT" /\ m_content_length' = m_content_length
        BY <1>12, <3>1, <3>3 DEF ParseHeaders
      <4>2. AtBody'
        BY <2>3, <2>4, <3>1, <3>2, <3>3, <4>1 DEF AtBody
      <4> QED
        BY <4>2 DEF LineInv
    <3>4. CASE m_content_length = 0
      <4>1. ret' # "none"
        BY <1>12, <3>1, <3>4, DoRequestRet DEF ParseHeaders
      <4> QED
        BY <4>1 DEF LineInv
    <3> QED
      BY <3>3, <3>4
  <2> QED
    BY <2>2, <2>5, <2>6
<1>13. ASSUME ParseContent PROVE LineInv'
  <2>1. /\ pc = "parse" /\ m_check_state = "CONTENT" /\ Line.status = "OK"
        /\ m_checked_idx' = Line.checked /\ m_read_idx' = m_read_idx
        /\ UNCHANGED <<asked, served, body_cut, m_check_state, m_url, m_content_length>>
    BY <1>13 DEF ParseContent, TakeLine, socket, history
  <2>2. AtBody /\ served < Len(asked) /\ ret = "none"
    BY <2>1, BodyStep, ParserRuns
  <2>3. Current' = Current /\ HeadLen' = HeadLen /\ HeadLen \in Nat
    BY <2>1, <2>2, CurrentKept, CurrentShape
  <2>4. m_checked_idx' >= HeadLen /\ m_checked_idx' \in Nat
    <3>1. m_checked_idx' \in m_checked_idx..m_read_idx /\ m_checked_idx \in Nat /\ m_read_idx \in Nat
      BY <2>1, LineType DEF TypeOK
    <3> QED
      BY <2>2, <2>3, <3>1 DEF AtBody
  <2>5. ~body_cut => m_checked_idx' = HeadLen
    <3>1. CASE InBody
      BY <2>1, <2>2, <3>1 DEF AtBody, Line
    <3>2. CASE ~InBody
      BY <2>1, <3>2, NothingInBody DEF Found
    <3> QED
      BY <3>1, <3>2
  <2>6. AtBody'
    BY <2>1, <2>2, <2>3, <2>4, <2>5 DEF AtBody, Accepted
  <2> QED
    BY <2>6 DEF LineInv
<1>14. ASSUME NoRequest PROVE LineInv'
  <2>1. /\ pc = "parse" /\ Line.status # "OK" /\ m_checked_idx' = Line.checked
        /\ UNCHANGED <<asked, served, m_read_idx, m_check_state, m_start_line, m_content_length, m_url, ret, body_cut>>
    BY <1>14 DEF NoRequest, history
  <2>2. /\ served < Len(asked)
        /\ AtRequestLine \/ (\E j \in 1..Lines + 1 : AtHeader(j)) \/ AtBody
    BY <2>1, ParserRuns
  <2>3. /\ Current' = Current /\ Lines' = Lines /\ HeadLen' = HeadLen /\ (\A i : Stated(i)' = Stated(i))
        /\ HeadLen \in Nat /\ Lines \in Nat
    <3>1. /\ Current' = Current /\ Lines' = Lines /\ HeadLen' = HeadLen
          /\ (\A i : Stated(i)' = Stated(i))
      BY <2>1, CurrentKept
    <3>2. HeadLen \in Nat /\ Lines \in Nat
      BY <2>2, CurrentShape
    <3> QED
      BY <3>1, <3>2
  <2>4. CASE AtRequestLine
    <3>1. WaitsForWord(0)
      BY <2>1, <2>4, RequestLineStep DEF AtRequestLine, TakesWord, Found
    <3>2. m_checked_idx' \in 0..1
      BY <2>1, <3>1 DEF WaitsForWord, Found
    <3>3. AtRequestLine'
      BY <2>1, <2>4, <3>2 DEF AtRequestLine
    <3> QED
      BY <3>3 DEF LineInv
  <2>5. CASE \E j \in 1..Lines + 1 : AtHeader(j)
    <3>1. m_check_state = "HEADER"
      BY <2>5 DEF AtHeader
    <3>2. PICK j \in 1..Lines + 1 :
            /\ AtHeader(j)
            /\ (j \in 1..Lines /\ WaitsForWord(j)) \/ (j = Lines + 1 /\ WaitsForEmptyLine)
      BY <2>1, <3>1, HeaderStep DEF TakesWord, TakesEmptyLine, Found
    <3>3. m_checked_idx' \in 3 * j..3 * j + 1 /\ (j = Lines + 1 => m_checked_idx' = 3 * j)
      <4>1. CASE j \in 1..Lines /\ WaitsForWord(j)
        BY <2>1, <2>3, <4>1 DEF WaitsForWord, Found
      <4>2. CASE j = Lines + 1 /\ WaitsForEmptyLine
        BY <2>1, <3>2, <4>2 DEF WaitsForEmptyLine, Found, AtHeader
      <4> QED
        BY <3>2, <4>1, <4>2
    <3>4. AtHeader(j)'
      BY <2>1, <2>3, <3>2, <3>3 DEF AtHeader, Accepted
    <3> QED
      BY <2>3, <3>4 DEF LineInv
  <2>6. CASE AtBody
    <3>1. m_check_state = "CONTENT" /\ ~InBody
      BY <2>1, <2>6 DEF AtBody, InBody, Line
    <3>2. m_checked_idx' >= HeadLen
      <4>1. m_checked_idx' \in m_checked_idx..m_read_idx /\ m_checked_idx \in Nat /\ m_read_idx \in Nat
        BY <2>1, LineType DEF TypeOK
      <4> QED
        BY <2>3, <2>6, <4>1 DEF AtBody
    <3>3. ~body_cut => m_checked_idx' = HeadLen
      BY <2>1, <3>1, NothingInBody DEF Found
    <3>4. AtBody'
      BY <2>1, <2>3, <2>6, <3>2, <3>3 DEF AtBody, Accepted
    <3> QED
      BY <3>4 DEF LineInv
  <2> QED
    BY <2>2, <2>4, <2>5, <2>6
<1>15. ASSUME ProcessWrite PROVE LineInv'
  BY <1>0, <1>1, <1>15 DEF ProcessWrite, CloseConn, ModFd, parser, file, output, Live, Open, ModeInv
<1>16. ASSUME Write_Blocks PROVE LineInv'
  BY <1>0, <1>1, <1>16 DEF Write_Blocks, ModFd, parser, output, file, history, Live, Open
<1>17. ASSUME Write_Fails PROVE LineInv'
  BY <1>0, <1>1, <1>17 DEF Write_Fails, Unmap, parser, output, history, Live, Open
<1>18. ASSUME Write_Part PROVE LineInv'
  BY <1>0, <1>1, <1>18 DEF Write_Part, Transfer, parser, file, Live, Open, ModeInv
<1>19. ASSUME Write_Ends PROVE LineInv'
  <2>1. CASE KeepsConnection
    <3>1. AtRequestLine'
      BY <1>19, <2>1 DEF Write_Ends, Reset, AtRequestLine
    <3> QED
      BY <3>1 DEF LineInv
  <2>2. CASE ~KeepsConnection
    BY <1>19, <2>2 DEF Write_Ends, LineInv, Live, Open
  <2> QED
    BY <2>1, <2>2
<1>20. CASE UNCHANGED vars
  BY <1>0, <1>1, <1>20 DEF vars, socket, parser, output, file, history, Live, Open
<1> QED
  BY <1>2, <1>3, <1>4, <1>5, <1>6, <1>7, <1>8, <1>9, <1>10, <1>11, <1>12, <1>13, <1>14,
     <1>15, <1>16, <1>17, <1>18, <1>19, <1>20 DEF Next, ClientStep, EventStep, ParseStep, WriteStep

(* What is complete depends on the client and on what was read only. *)
LEMMA ReadKept ==
  ASSUME UNCHANGED <<asked, served, m_read_idx>>
  PROVE  /\ Current' = Current /\ (Complete' <=> Complete)
         /\ (EndsInBody(m_read_idx)' <=> EndsInBody(m_read_idx))
BY DEF Complete, EndsInBody, Current

(* The parser's return value is the answer that an accepted request deserves*)
LEMMA DoRequestDeserved ==
  ASSUME DoRequest, Accepted
  PROVE  ret' = Deserved(Current)
BY DoRequestRet DEF Accepted, Deserved

(* A line that ends nowhere in the body is asked for only when the body is *)
(* not complete.                                                           *)
LEMMA BodyInvStep ==
  ASSUME TypeOK, ModeInv, PlaceInv, LineInv, BodyInv, [Next]_vars
  PROVE  BodyInv'
<1>0. BodyInv
  OBVIOUS
<1>1. CASE \/ pc' # "parse"
           \/ UNCHANGED <<pc, body_cut, asked, served, m_read_idx, m_check_state, line_status>>
  BY <1>0, <1>1, ReadKept DEF BodyInv
<1>2. ASSUME Connect PROVE BodyInv'
  BY <1>0, <1>1, <1>2 DEF Connect, Reset, file
<1>3. ASSUME Send PROVE BodyInv'
  BY <1>0, <1>1, <1>3 DEF Send, parser, output, file, history
<1>4. ASSUME Leave PROVE BodyInv'
  BY <1>0, <1>1, <1>4 DEF Leave, parser, output, file, history
<1>5. ASSUME DealClose PROVE BodyInv'
  BY <1>0, <1>1, <1>5 DEF DealClose, CloseConn, parser, output, file
<1>6. ASSUME TimerFunc PROVE BodyInv'
  BY <1>0, <1>1, <1>6 DEF TimerFunc, CloseConn, parser, output, file
<1>7. ASSUME DealRead PROVE BodyInv'
  BY <1>0, <1>1, <1>7 DEF DealRead, Read, CloseConn, output, file
<1>8. ASSUME DealWrite PROVE BodyInv'
  BY <1>0, <1>1, <1>8 DEF DealWrite, parser, output, file, history
<1>9. ASSUME ParseRequestLine_Crashes PROVE BodyInv'
  BY <1>1, <1>9 DEF ParseRequestLine_Crashes
<1>10. ASSUME Process PROVE BodyInv'
  <2>1. UNCHANGED <<asked, served>> /\ line_status' = "OK" /\ body_cut' = (body_cut \/ EndsInBody(m_read_idx'))
    BY <1>10 DEF Process
  <2>2. Current' = Current
    BY <2>1 DEF Current
  <2>3. ~body_cut' => ~EndsInBody(m_read_idx)'
    BY <2>1, <2>2 DEF EndsInBody
  <2> QED
    BY <2>1, <2>3 DEF BodyInv
<1>11. ASSUME ParseRequestLine PROVE BodyInv'
  <2>1. pc = "parse" /\ UNCHANGED <<asked, served, m_read_idx, body_cut>> /\ m_check_state' # "CONTENT"
    BY <1>11 DEF ParseRequestLine, TakeLine, socket, history
  <2> QED
    BY <1>0, <2>1, ReadKept DEF BodyInv
<1>12. ASSUME ParseHeaders PROVE BodyInv'
  <2>1. pc = "parse" /\ UNCHANGED <<asked, served, m_read_idx, body_cut>> /\ line_status' = "OK"
    BY <1>12 DEF ParseHeaders, TakeLine, socket, history
  <2> QED
    BY <1>0, <2>1, ReadKept DEF BodyInv
<1>13. ASSUME ParseContent PROVE BodyInv'
  <2>1. /\ pc = "parse" /\ m_check_state = "CONTENT" /\ Line.status = "OK"
        /\ m_checked_idx' = Line.checked /\ m_read_idx' = m_read_idx
        /\ UNCHANGED <<asked, served, body_cut, m_check_state, m_url, m_content_length>>
    BY <1>13 DEF ParseContent, TakeLine, socket, history
  <2>2. AtBody /\ served < Len(asked) /\ ret = "none"
    BY <2>1, BodyStep, ParserRuns
  <2>3. Current' = Current /\ HeadLen' = HeadLen /\ HeadLen \in Nat
    BY <2>1, <2>2, CurrentKept, CurrentShape
  <2>4. m_checked_idx' >= HeadLen /\ m_checked_idx' \in Nat
    <3>1. m_checked_idx' \in m_checked_idx..m_read_idx /\ m_checked_idx \in Nat /\ m_read_idx \in Nat
      BY <2>1, LineType DEF TypeOK
    <3> QED
      BY <2>2, <2>3, <3>1 DEF AtBody
  <2>5. CASE DoRequest
    BY <1>1, <2>5, DoRequestRet
  <2>6. CASE ~BodyRead /\ pc' = pc /\ ret' = ret
    <3>1. /\ ~EndsInBody(m_read_idx)' \/ body_cut'
          /\ (Complete' <=> Complete) /\ (body_cut' <=> body_cut)
      BY <1>0, <2>1, ReadKept DEF BodyInv
    <3>2. ASSUME ~body_cut PROVE ~Complete
      <4>1. LineInv'
        BY LineStep
      <4>2. Live' /\ ret' = "none" /\ m_check_state' = "CONTENT"
        BY <2>1, <2>2, <2>6 DEF Live
      <4>3. AtBody'
        BY <4>1, <4>2 DEF LineInv, AtRequestLine, AtHeader
      <4>4. m_checked_idx' = HeadLen
        BY <2>1, <2>3, <3>2, <4>3 DEF AtBody
      <4>5. m_read_idx \in Nat /\ m_content_length \in Nat /\ m_content_length = Len(Current.body)
        BY <2>2 DEF AtBody, TypeOK
      <4>6. ~(m_read_idx >= Len(Current.body) + HeadLen)
        BY <2>6, <4>4, <4>5 DEF BodyRead
      <4>7. Len(Encode(Current)) = HeadLen + Len(Current.body) /\ Len(Current.body) \in Nat
        BY <2>2, CurrentShape
      <4>8. Len(Encode(Current)) = Len(Current.body) + HeadLen
        BY <2>3, <4>7
      <4> QED
        BY <4>6, <4>8 DEF Complete
    <3> QED
      BY <3>1, <3>2 DEF BodyInv
  <2> QED
    BY <1>13, <2>5, <2>6 DEF ParseContent, GoesOn
<1>14. ASSUME NoRequest PROVE BodyInv'
  BY <1>0, <1>1, <1>14 DEF NoRequest, ModFd, output, file, history
<1>15. ASSUME ProcessWrite PROVE BodyInv'
  BY <1>0, <1>1, <1>15 DEF ProcessWrite, CloseConn, ModFd, parser, file, output
<1>16. ASSUME Write_Blocks PROVE BodyInv'
  BY <1>0, <1>1, <1>16 DEF Write_Blocks, ModFd, parser, output, file, history
<1>17. ASSUME Write_Fails PROVE BodyInv'
  BY <1>0, <1>1, <1>17 DEF Write_Fails, Unmap, parser, output, history
<1>18. ASSUME Write_Part PROVE BodyInv'
  BY <1>0, <1>1, <1>18 DEF Write_Part, Transfer, parser, file
<1>19. ASSUME Write_Ends PROVE BodyInv'
  BY <1>0, <1>1, <1>19 DEF Write_Ends, Transfer, Unmap, ModFd, Reset, parser
<1>20. CASE UNCHANGED vars
  BY <1>0, <1>1, <1>20 DEF vars, socket, parser, output, file, history
<1> QED
  BY <1>2, <1>3, <1>4, <1>5, <1>6, <1>7, <1>8, <1>9, <1>10, <1>11, <1>12, <1>13, <1>14,
     <1>15, <1>16, <1>17, <1>18, <1>19, <1>20 DEF Next, ClientStep, EventStep, ParseStep, WriteStep

(* What process_read returns is the answer that the request deserves. *)
LEMMA AnswerStep ==
  ASSUME TypeOK, ModeInv, PlaceInv, LineInv, BodyInv, AnswerInv, [Next]_vars
  PROVE  AnswerInv'
<1>0. AnswerInv
  OBVIOUS
<1>1. CASE \/ ret' = "none"
           \/ UNCHANGED <<asked, served, m_read_idx, m_checked_idx, ret>> /\ (Live' => Live)
  BY <1>0, <1>1, ReadKept DEF AnswerInv
<1>2. ASSUME Connect PROVE AnswerInv'
  BY <1>1, <1>2 DEF Connect, Reset
<1>3. ASSUME Send PROVE AnswerInv'
  BY <1>0, <1>1, <1>3 DEF Send, parser, output, file, history, Live, Open
<1>4. ASSUME Leave PROVE AnswerInv'
  BY <1>0, <1>1, <1>4 DEF Leave, parser, output, file, history, Live, Open
<1>5. ASSUME DealClose PROVE AnswerInv'
  BY <1>0, <1>1, <1>5 DEF DealClose, CloseConn, parser, output, file, Live, Open
<1>6. ASSUME TimerFunc PROVE AnswerInv'
  BY <1>0, <1>1, <1>6 DEF TimerFunc, CloseConn, parser, output, file, Live, Open
<1>7. ASSUME DealRead PROVE AnswerInv'
  BY <1>1, <1>7 DEF DealRead, Read, CloseConn, output, file, ModeInv
<1>8. ASSUME DealWrite PROVE AnswerInv'
  BY <1>0, <1>1, <1>8 DEF DealWrite, parser, output, file, history, Live, Open
<1>9. ASSUME ParseRequestLine_Crashes PROVE AnswerInv'
  BY <1>1, <1>9 DEF ParseRequestLine_Crashes, ModeInv
<1>10. ASSUME Process PROVE AnswerInv'
  BY <1>1, <1>10 DEF Process, Read, CloseConn, output, file, ModeInv
<1>11. ASSUME ParseRequestLine PROVE AnswerInv'
  <2>1. pc = "parse" /\ m_check_state = "REQUESTLINE" /\ Line.status = "OK" /\ UNCHANGED <<asked, served>>
    BY <1>11 DEF ParseRequestLine, TakeLine, socket, history
  <2>2. TakesWord(0) /\ Word(Current, 0) = Current.line /\ ret = "none"
    BY <2>1, RequestLineStep, ParserRuns DEF WaitsForWord, Found
  <2>3. Text # <<>> /\ Text[1] = Current.line
    BY <2>2 DEF TakesWord
  <2>4. CASE Current.line \in DOMAIN Target
    BY <1>1, <1>11, <2>2, <2>3, <2>4 DEF ParseRequestLine, GoesOn
  <2>5. CASE Current.line \notin DOMAIN Target
    <3>1. ret' = "BAD_REQUEST"
      BY <1>11, <2>3, <2>5 DEF ParseRequestLine, Returns
    <3>2. Current' = Current
      BY <2>1, CurrentKept
    <3>3. Deserved(Current)' = "BAD_REQUEST"
      BY <2>5, <3>2 DEF Deserved
    <3> QED
      BY <3>1, <3>3 DEF AnswerInv
  <2> QED
    BY <2>4, <2>5
<1>12. ASSUME ParseHeaders PROVE AnswerInv'
  <2>1. pc = "parse" /\ m_check_state = "HEADER" /\ Line.status = "OK" /\ UNCHANGED <<asked, served, m_url>>
    BY <1>12 DEF ParseHeaders, TakeLine, socket, history
  <2>2. PICK j \in 1..Lines + 1 :
            /\ AtHeader(j)
            /\ \/ j \in 1..Lines /\ Word(Current, j) = Current.headers[j] /\ TakesWord(j)
               \/ j = Lines + 1 /\ TakesEmptyLine
    BY <2>1, HeaderStep DEF WaitsForWord, WaitsForEmptyLine, Found
  <2>3. /\ served < Len(asked) /\ Current' = Current /\ Lines' = Lines /\ HeadLen' = HeadLen
        /\ Lines \in Nat /\ \A i : Stated(i)' = Stated(i)
    BY <2>1, <2>2, CurrentKept, CurrentShape DEF AtHeader, Accepted
  <2>4. Accepted'
    BY <2>1, <2>2, <2>3 DEF AtHeader, Accepted
  <2>5. ret = "none" /\ m_read_idx' = m_read_idx
    BY <1>12, <2>1, ParserRuns DEF ParseHeaders, TakeLine
  <2>6. CASE j \in 1..Lines /\ Word(Current, j) = Current.headers[j] /\ TakesWord(j)
    <3>1. Text # <<>>
      BY <2>6 DEF TakesWord
    <3> QED
      BY <1>1, <1>12, <2>5, <3>1 DEF ParseHeaders, GoesOn
  <2>7. CASE j = Lines + 1 /\ TakesEmptyLine
    <3>1. m_checked_idx' = HeadLen /\ Text = <<>> /\ m_read_idx >= HeadLen
      BY <1>12, <2>7 DEF ParseHeaders, TakeLine, TakesEmptyLine, Found
    <3>2. m_content_length = Len(Current.body) /\ (Current.body = <<>> <=> Len(Current.body) = 0)
      <4>1. j - 1 = Lines
        BY <2>3, <2>7
      <4> QED
        BY <2>2, <2>3, <4>1, StatedStep, CurrentShape DEF AtHeader
    <3>3. CASE m_content_length # 0
      BY <1>1, <1>12, <2>5, <3>1, <3>3 DEF ParseHeaders, GoesOn
    <3>4. CASE m_content_length = 0
      <4>1. DoRequest /\ Accepted
        BY <1>12, <2>2, <3>1, <3>4 DEF ParseHeaders, AtHeader
      <4>2. ret' = Deserved(Current)'
        BY <2>3, <4>1, DoRequestDeserved DEF Deserved
      <4>3. Current.body = <<>> /\ Len(Encode(Current)) = HeadLen
        <5>1. HeadLen \in Nat /\ Len(Encode(Current)) = HeadLen + Len(Current.body)
          BY <2>3, CurrentShape
        <5> QED
          BY <3>2, <3>4, <5>1
      <4>4. Complete' /\ Current.body' = <<>> /\ m_checked_idx' = Len(Encode(Current))'
        BY <2>3, <2>5, <3>1, <4>3 DEF Complete
      <4> QED
        BY <4>2, <4>4 DEF AnswerInv
    <3> QED
      BY <3>3, <3>4
  <2> QED
    BY <2>2, <2>6, <2>7
<1>13. ASSUME ParseContent PROVE AnswerInv'
  <2>1. /\ pc = "parse" /\ m_check_state = "CONTENT" /\ Line.status = "OK"
        /\ m_checked_idx' = Line.checked /\ m_read_idx' = m_read_idx
        /\ UNCHANGED <<asked, served, body_cut, m_check_state, m_url, m_content_length>>
    BY <1>13 DEF ParseContent, TakeLine, socket, history
  <2>2. AtBody /\ served < Len(asked) /\ ret = "none"
    BY <2>1, BodyStep, ParserRuns
  <2>3. Current' = Current /\ HeadLen' = HeadLen /\ HeadLen \in Nat
    BY <2>1, <2>2, CurrentKept, CurrentShape
  <2>4. m_checked_idx' >= HeadLen /\ m_checked_idx' \in Nat
    <3>1. m_checked_idx' \in m_checked_idx..m_read_idx /\ m_checked_idx \in Nat /\ m_read_idx \in Nat
      BY <2>1, LineType DEF TypeOK
    <3> QED
      BY <2>2, <2>3, <3>1 DEF AtBody
  <2>5. CASE ret' = ret
    BY <1>1, <2>2, <2>5
  <2>6. CASE DoRequest /\ BodyRead
    <3>1. Accepted /\ Current.body # <<>> /\ m_content_length = Len(Current.body)
      BY <2>2 DEF AtBody
    <3>2. ret' = Deserved(Current)'
      BY <2>3, <2>6, <3>1, DoRequestDeserved DEF Deserved
    <3>3. m_read_idx \in Nat /\ m_content_length \in Nat /\ m_content_length > 0
      <4>1. Len(Current.body) \in Nat /\ Len(Current.body) # 0
        BY <2>2, <3>1, CurrentShape
      <4> QED
        BY <3>1, <4>1 DEF TypeOK
    <3>4. m_read_idx >= m_content_length + m_checked_idx'
      BY <2>6 DEF BodyRead
    <3>5. m_checked_idx' < m_read_idx /\ m_read_idx >= HeadLen + m_content_length
      <4>1. PICK c \in Nat : c = m_checked_idx' /\ c >= HeadLen
        BY <2>4
      <4>2. HeadLen \in Nat
        BY <2>3
      <4>3. PICK h, n, l \in Nat : h = HeadLen /\ n = m_read_idx /\ l = m_content_length /\ l > 0
        BY <3>3, <4>2
      <4>4. n >= l + c
        BY <3>4, <4>1, <4>3
      <4>5. c >= h
        BY <4>1, <4>3
      <4>6. h \in Int /\ n \in Int /\ l \in Int /\ c \in Int /\ l > 0
        BY <4>3
      <4>7. c < n
        BY <4>4, <4>6
      <4>8. n >= h + l
        BY <4>4, <4>5, <4>6
      <4> QED
        BY <4>1, <4>3, <4>7, <4>8
    <3>6. Len(Encode(Current)) = HeadLen + m_content_length
      BY <2>2, <3>1, CurrentShape
    <3>7. Complete' /\ Current.body' # <<>>
      BY <2>1, <2>3, <3>1, <3>5, <3>6 DEF Complete
    <3>8. (m_checked_idx < m_read_idx)'
      BY <2>1, <3>5
    <3> QED
      BY <3>2, <3>7, <3>8 DEF AnswerInv
  <2> QED
    BY <1>13, <2>5, <2>6 DEF ParseContent, GoesOn
<1>14. ASSUME NoRequest PROVE AnswerInv'
  BY <1>1, <1>14 DEF NoRequest, ModFd, output, file, history, ModeInv
<1>15. ASSUME ProcessWrite PROVE AnswerInv'
  BY <1>0, <1>1, <1>15 DEF ProcessWrite, CloseConn, ModFd, parser, file, output, Live, Open
<1>16. ASSUME Write_Blocks PROVE AnswerInv'
  BY <1>0, <1>1, <1>16 DEF Write_Blocks, ModFd, parser, output, file, history, Live, Open
<1>17. ASSUME Write_Fails PROVE AnswerInv'
  BY <1>0, <1>1, <1>17 DEF Write_Fails, Unmap, parser, output, history, Live, Open
<1>18. ASSUME Write_Part PROVE AnswerInv'
  BY <1>0, <1>1, <1>18 DEF Write_Part, Transfer, parser, file, Live, Open
<1>19. ASSUME Write_Ends PROVE AnswerInv'
  <2>1. CASE KeepsConnection
    BY <1>1, <1>19, <2>1 DEF Write_Ends, Reset
  <2>2. CASE ~KeepsConnection
    BY <1>19, <2>2 DEF Write_Ends, AnswerInv, Live, Open
  <2> QED
    BY <2>1, <2>2
<1>20. CASE UNCHANGED vars
  BY <1>0, <1>1, <1>20 DEF vars, socket, parser, output, file, history, Live, Open
<1> QED
  BY <1>2, <1>3, <1>4, <1>5, <1>6, <1>7, <1>8, <1>9, <1>10, <1>11, <1>12, <1>13, <1>14,
     <1>15, <1>16, <1>17, <1>18, <1>19, <1>20 DEF Next, ClientStep, EventStep, ParseStep, WriteStep

(* The parser waits for bytes only when some are missing, or a piece ended *)
(* in the body.                                                            *)
LEMMA WaitStep ==
  ASSUME TypeOK, ModeInv, PlaceInv, LineInv, BodyInv, WaitsOnlyForBytes, [Next]_vars
  PROVE  WaitsOnlyForBytes'
<1>0. WaitsOnlyForBytes
  OBVIOUS
<1>1. CASE \/ pc' # "idle" \/ ret' # "none" \/ m_read_idx' = 0 \/ ~Open'
           \/ UNCHANGED <<asked, served, m_read_idx, pc, ret, body_cut>> /\ (Open' => Open)
  BY <1>0, <1>1, ReadKept, Sizes DEF WaitsOnlyForBytes
<1>2. ASSUME Connect PROVE WaitsOnlyForBytes'
  BY <1>1, <1>2 DEF Connect, Reset
<1>3. ASSUME Send PROVE WaitsOnlyForBytes'
  BY <1>0, <1>1, <1>3 DEF Send, parser, output, file, history, Open
<1>4. ASSUME Leave PROVE WaitsOnlyForBytes'
  BY <1>0, <1>1, <1>4 DEF Leave, parser, output, file, history, Open
<1>5. ASSUME DealClose PROVE WaitsOnlyForBytes'
  BY <1>1, <1>5 DEF DealClose, CloseConn, parser, output, file, Open, ModeInv
<1>6. ASSUME TimerFunc PROVE WaitsOnlyForBytes'
  BY <1>1, <1>6 DEF TimerFunc, CloseConn, parser, output, file, Open, ModeInv
<1>7. ASSUME DealRead PROVE WaitsOnlyForBytes'
  BY <1>1, <1>7 DEF DealRead, Read, CloseConn, output, file, Open, ModeInv
<1>8. ASSUME DealWrite PROVE WaitsOnlyForBytes'
  BY <1>0, <1>1, <1>8 DEF DealWrite, parser, output, file, history, Open
<1>9. ASSUME ParseRequestLine_Crashes PROVE WaitsOnlyForBytes'
  BY <1>1, <1>9 DEF ParseRequestLine_Crashes, Open
<1>10. ASSUME Process PROVE WaitsOnlyForBytes'
  BY <1>0, <1>1, <1>10 DEF Process, Read, CloseConn, output, file, Open
<1>11. ASSUME ParseRequestLine PROVE WaitsOnlyForBytes'
  BY <1>0, <1>1, <1>11 DEF ParseRequestLine, TakeLine, Returns, GoesOn, socket, output, file, history, Open
<1>12. ASSUME ParseHeaders PROVE WaitsOnlyForBytes'
  <2>1. pc' \in {"parse", "respond"}
    BY <1>12, DoRequestRet DEF ParseHeaders, TakeLine, GoesOn
  <2> QED
    BY <1>1, <2>1
<1>13. ASSUME ParseContent PROVE WaitsOnlyForBytes'
  <2>1. pc' \in {"parse", "respond"}
    BY <1>13, DoRequestRet DEF ParseContent, TakeLine, GoesOn
  <2> QED
    BY <1>1, <2>1
<1>14. ASSUME NoRequest PROVE WaitsOnlyForBytes'
  <2>1. /\ pc = "parse" /\ Line.status # "OK" /\ m_checked_idx' = Line.checked
        /\ UNCHANGED <<asked, served, m_read_idx, m_check_state, m_start_line, m_content_length, m_url, ret, body_cut>>
    BY <1>14 DEF NoRequest, history
  <2>2. /\ served < Len(asked)
        /\ AtRequestLine \/ (\E j \in 1..Lines + 1 : AtHeader(j)) \/ AtBody
    BY <2>1, ParserRuns
  <2>3. /\ Current' = Current /\ Lines' = Lines /\ HeadLen' = HeadLen /\ (\A i : Stated(i)' = Stated(i))
        /\ HeadLen \in Nat /\ Lines \in Nat
    <3>1. /\ Current' = Current /\ Lines' = Lines /\ HeadLen' = HeadLen
          /\ (\A i : Stated(i)' = Stated(i))
      BY <2>1, CurrentKept
    <3>2. HeadLen \in Nat /\ Lines \in Nat
      BY <2>2, CurrentShape
    <3> QED
      BY <3>1, <3>2
  <2>4. Complete' <=> Complete
    BY <2>1, ReadKept
  <2>5. /\ Len(Encode(Current)) = HeadLen + Len(Current.body) /\ Len(Current.body) \in Nat
    BY <2>2, CurrentShape
  <2>6. m_read_idx \in Nat
    BY DEF TypeOK
  <2>7. m_read_idx < HeadLen => ~Complete
    BY <2>3, <2>5, <2>6 DEF Complete
  <2>8. \A j \in 0..Lines : m_read_idx < 3 * j + 3 => m_read_idx < HeadLen
    <3>1. HeadLen = 3 * (Lines + 1) + 2
      BY DEF HeadLen
    <3> QED
      BY <2>3, <2>6, <3>1
  <2>9. CASE AtRequestLine
    <3>1. WaitsForWord(0) /\ 0 \in 0..Lines
      BY <2>1, <2>3, <2>9, RequestLineStep DEF AtRequestLine, TakesWord, Found
    <3>2. ~Complete
      BY <2>7, <2>8, <3>1 DEF WaitsForWord
    <3> QED
      BY <2>4, <3>2 DEF WaitsOnlyForBytes
  <2>10. CASE \E j \in 1..Lines + 1 : AtHeader(j)
    <3>1. m_check_state = "HEADER"
      BY <2>10 DEF AtHeader
    <3>2. PICK j \in 1..Lines + 1 :
            (j \in 1..Lines /\ WaitsForWord(j)) \/ (j = Lines + 1 /\ WaitsForEmptyLine)
      BY <2>1, <3>1, HeaderStep DEF TakesWord, TakesEmptyLine, Found
    <3>3. CASE j \in 1..Lines /\ WaitsForWord(j)
      <4>1. j \in 0..Lines /\ m_read_idx < 3 * j + 3
        BY <2>3, <3>3 DEF WaitsForWord
      <4>2. ~Complete
        BY <2>7, <2>8, <4>1
      <4> QED
        BY <2>4, <4>2 DEF WaitsOnlyForBytes
    <3>4. CASE WaitsForEmptyLine
      BY <2>4, <2>7, <3>4 DEF WaitsForEmptyLine, WaitsOnlyForBytes
    <3> QED
      BY <3>2, <3>3, <3>4
  <2>11. CASE AtBody
    <3>1. m_check_state = "CONTENT" /\ ~InBody
      BY <2>1, <2>11 DEF AtBody, InBody, Line
    <3>2. ~body_cut => ~Complete
      BY <2>1, <3>1, NothingInBody
    <3> QED
      BY <2>1, <2>4, <3>2 DEF WaitsOnlyForBytes
  <2> QED
    BY <2>2, <2>9, <2>10, <2>11
<1>15. ASSUME ProcessWrite PROVE WaitsOnlyForBytes'
  BY <1>1, <1>15 DEF ProcessWrite, CloseConn, ModFd, parser, file, output, Open, ModeInv
<1>16. ASSUME Write_Blocks PROVE WaitsOnlyForBytes'
  BY <1>1, <1>16 DEF Write_Blocks, ModFd, parser, output, file, history, Open, ModeInv
<1>17. ASSUME Write_Fails PROVE WaitsOnlyForBytes'
  BY <1>0, <1>1, <1>17 DEF Write_Fails, Unmap, parser, output, history, Open
<1>18. ASSUME Write_Part PROVE WaitsOnlyForBytes'
  BY <1>0, <1>1, <1>18 DEF Write_Part, Transfer, parser, file, Open
<1>19. ASSUME Write_Ends PROVE WaitsOnlyForBytes'
  <2>1. m_read_idx' = 0 \/ ~Open'
    BY <1>19 DEF Write_Ends, Reset, Open
  <2> QED
    BY <1>1, <2>1
<1>20. CASE UNCHANGED vars
  BY <1>0, <1>1, <1>20 DEF vars, socket, parser, output, file, history, Open
<1> QED
  BY <1>2, <1>3, <1>4, <1>5, <1>6, <1>7, <1>8, <1>9, <1>10, <1>11, <1>12, <1>13, <1>14,
     <1>15, <1>16, <1>17, <1>18, <1>19, <1>20 DEF Next, ClientStep, EventStep, ParseStep, WriteStep

(* Something is designated by iovecs whose first is not empty. *)
LEMMA SomethingDesignated ==
  ASSUME m_iv[0] = [base |-> 0, len |-> HeaderLen],
         m_iv_count = 2 => m_iv[1] = [base |-> 0, len |-> FileLen]
  PROVE  Designated # <<>>
<1>1. HeaderLen \in Nat \ {0} /\ FileLen \in Nat
  BY Sizes
<1> DEFINE h == HeaderBytes(0, HeaderLen)
           f == FileBytes(0, FileLen)
           S == {<<"f", i>> : i \in Nat} \cup {<<"h", i>> : i \in Nat}
<1>2. h \in Seq(S) /\ Len(h) = HeaderLen
  BY <1>1 DEF HeaderBytes
<1>3. f \in Seq(S) /\ <<>> \in Seq(S)
  BY <1>1 DEF FileBytes
<1>4. m_iv[0].base = 0 /\ m_iv[0].len = HeaderLen
      /\ (m_iv_count = 2 => m_iv[1].base = 0 /\ m_iv[1].len = FileLen)
  OBVIOUS
<1>5. Designated = h \o (IF m_iv_count = 2 THEN f ELSE <<>>)
  BY <1>4 DEF Designated
<1> HIDE DEF h, f, S
<1>6. PICK t \in Seq(S) : t = IF m_iv_count = 2 THEN f ELSE <<>>
  BY <1>3
<1>7. Len(h \o t) = Len(h) + Len(t) /\ Len(t) \in Nat
  BY <1>2
<1>8. Len(<<>>) = 0
  OBVIOUS
<1> QED
  BY <1>1, <1>2, <1>5, <1>6, <1>7, <1>8

(* A step that sends something makes the rest of the response shorter. *)
LEMMA OutputStep ==
  ASSUME TypeOK, ModeInv, OutputInv, [Next]_vars
  PROVE  OutputInv'
<1>0. OutputInv
  OBVIOUS
<1>1. UNCHANGED <<ret, m_url>> => Response' = Response
  BY DEF Response, HasFile
<1>2. CASE interest' # "out" /\ pc' # "write"
  BY <1>2 DEF OutputInv
<1>3. CASE /\ UNCHANGED <<bytes_to_send, m_iv, m_iv_count, ret, m_url>>
           /\ interest' = "out" \/ pc' = "write" => interest = "out" \/ pc = "write"
  BY <1>0, <1>1, <1>3 DEF OutputInv
<1>4. pc \in {"process", "parse", "respond"} => interest # "out"
  BY DEF ModeInv
<1>5. ASSUME Connect PROVE OutputInv'
  BY <1>2, <1>5 DEF Connect
<1>6. ASSUME Send \/ Leave PROVE OutputInv'
  BY <1>3, <1>6 DEF Send, Leave, parser, output
<1>7. ASSUME DealClose \/ TimerFunc PROVE OutputInv'
  BY <1>2, <1>7 DEF DealClose, TimerFunc, CloseConn
<1>8. ASSUME DealRead PROVE OutputInv'
  BY <1>2, <1>8 DEF DealRead, CloseConn
<1>9. ASSUME DealWrite PROVE OutputInv'
  BY <1>3, <1>9 DEF DealWrite, parser, output
<1>10. ASSUME Process PROVE OutputInv'
  BY <1>2, <1>4, <1>10 DEF Process, CloseConn
<1>11. ASSUME ParseRequestLine_Crashes PROVE OutputInv'
  BY <1>2, <1>11 DEF ParseRequestLine_Crashes
<1>12. ASSUME ParseRequestLine PROVE OutputInv'
  BY <1>2, <1>4, <1>12 DEF ParseRequestLine, TakeLine, Returns, GoesOn, socket
<1>13. ASSUME ParseHeaders PROVE OutputInv'
  BY <1>2, <1>4, <1>13, DoRequestRet DEF ParseHeaders, TakeLine, GoesOn, socket
<1>14. ASSUME ParseContent PROVE OutputInv'
  BY <1>2, <1>4, <1>14, DoRequestRet DEF ParseContent, TakeLine, GoesOn, socket
<1>15. ASSUME NoRequest PROVE OutputInv'
  BY <1>2, <1>4, <1>15 DEF NoRequest, ModFd
<1>16. ASSUME ProcessWrite PROVE OutputInv'
  <2>1. CASE ret = "BAD_REQUEST"
    BY <1>2, <1>16, <2>1 DEF ProcessWrite, CloseConn
  <2>2. CASE ret # "BAD_REQUEST"
    <3>1. /\ UNCHANGED <<ret, m_url>> /\ bytes_to_send' = Len(Response)
          /\ m_iv' = [i \in 0..1 |-> IF i = 0 THEN [base |-> 0, len |-> HeaderLen]
                                     ELSE IF HasFile THEN [base |-> 0, len |-> FileLen]
                                     ELSE m_iv[1]]
          /\ m_iv_count' = IF HasFile THEN 2 ELSE 1
      BY <1>16, <2>2 DEF ProcessWrite, parser
    <3>2. m_iv'[0] = [base |-> 0, len |-> HeaderLen]
          /\ (m_iv_count' = 2 => m_iv'[1] = [base |-> 0, len |-> FileLen])
      BY <3>1
    <3>3. bytes_to_send' <= Len(Response)
      BY <3>1, ResponseLength
    <3> QED
      BY <1>1, <3>1, <3>2, <3>3 DEF OutputInv
  <2> QED
    BY <2>1, <2>2
<1>17. ASSUME Write_Blocks PROVE OutputInv'
  BY <1>3, <1>17 DEF Write_Blocks, parser, output
<1>18. ASSUME Write_Fails PROVE OutputInv'
  BY <1>2, <1>18 DEF Write_Fails
<1>19. ASSUME Write_Part PROVE OutputInv'
  <2>1. PICK n \in 0..Len(Designated) :
            (n = 0 => Designated = <<>>) /\ n < bytes_to_send /\ bytes_to_send' = bytes_to_send - n
    BY <1>19 DEF Write_Part
  <2>2. UNCHANGED <<ret, m_url>> /\ pc = "write"
    BY <1>19 DEF Write_Part, parser
  <2>3. /\ bytes_to_send \in Nat /\ n \in Nat /\ Len(Response) \in Nat
        /\ bytes_to_send <= Len(Response)
    BY <2>1, <2>2, ResponseLength DEF TypeOK, OutputInv
  <2>4. CASE n = 0
    <3>1. bytes_to_send # Len(Response)
      BY <2>1, <2>2, <2>4, SomethingDesignated DEF OutputInv
    <3>2. bytes_to_send' = bytes_to_send
      BY <2>1, <2>3, <2>4
    <3> QED
      BY <1>1, <2>2, <2>3, <3>1, <3>2 DEF OutputInv
  <2>5. CASE n # 0
    <3>1. bytes_to_send' < Len(Response)
      BY <2>1, <2>3, <2>5
    <3>2. bytes_to_send' \in Int
      BY <2>1, <2>3
    <3> QED
      BY <1>1, <2>2, <2>3, <3>1, <3>2 DEF OutputInv
  <2> QED
    BY <2>4, <2>5
<1>20. ASSUME Write_Ends PROVE OutputInv'
  <2>1. interest' # "out" /\ pc' = "idle"
    BY <1>20 DEF Write_Ends, ModFd, Open
  <2> QED
    BY <1>2, <2>1
<1>21. CASE UNCHANGED vars
  BY <1>3, <1>21 DEF vars, socket, parser, output
<1> QED
  BY <1>5, <1>6, <1>7, <1>8, <1>9, <1>10, <1>11, <1>12, <1>13, <1>14, <1>15, <1>16, <1>17,
     <1>18, <1>19, <1>20, <1>21 DEF Next, ClientStep, EventStep, ParseStep, WriteStep

(***************************************************************************)
(* The invariant and what follows from it.                                 *)
(***************************************************************************)

(* The initial state satisfies the invariant. *)
LEMMA InitIInv == Init => IInv
<1> SUFFICES ASSUME Init PROVE IInv
  OBVIOUS
<1>1. TypeOK
  BY InitType
<1>2. ~Live /\ ~Open /\ ret = "none" /\ pc = "idle" /\ interest = "none" /\ mappings = 0 /\ abandoned = 0 /\ m_file_address = "null"
  BY DEF Init, Live, Open
<1>3. ModeInv
  BY DEF Init, ModeInv
<1>4. MappingInv
  BY <1>2 DEF MappingInv, NoMappingLost
<1> QED
  BY <1>1, <1>2, <1>3, <1>4 DEF IInv, PlaceInv, LineInv, BodyInv, AnswerInv, WaitsOnlyForBytes, OutputInv

(* Every step preserves it. *)
LEMMA StepIInv == IInv /\ [Next]_vars => IInv'
<1> SUFFICES ASSUME IInv, [Next]_vars PROVE IInv'
  OBVIOUS
<1>1. /\ TypeOK /\ ModeInv /\ MappingInv /\ PlaceInv /\ LineInv /\ BodyInv /\ AnswerInv
      /\ WaitsOnlyForBytes /\ OutputInv
  BY DEF IInv
<1>2. TypeOK'
  BY <1>1, TypeStep
<1>3. ModeInv'
  BY <1>1, ModeStep
<1>4. MappingInv'
  BY <1>1, MappingStep
<1>5. PlaceInv'
  BY <1>1, PlaceStep
<1>6. LineInv'
  BY <1>1, LineStep
<1>7. BodyInv'
  BY <1>1, BodyInvStep
<1>8. AnswerInv'
  BY <1>1, AnswerStep
<1>9. WaitsOnlyForBytes'
  BY <1>1, WaitStep
<1>10. OutputInv'
  BY <1>1, OutputStep
<1> QED
  BY <1>2, <1>3, <1>4, <1>5, <1>6, <1>7, <1>8, <1>9, <1>10 DEF IInv

(* So every state of every behaviour satisfies it. *)
LEMMA Invariance == Spec => []IInv
BY InitIInv, StepIInv, PTL DEF Spec

(* Every variable of the connection stays in its range: the indices stay   *)
(* in the buffer and in order (httpConnection.h), however the requests are *)
(* cut into pieces.                                                        *)
THEOREM TypeCorrect == Spec => []TypeOK
<1>1. IInv => TypeOK
  BY DEF IInv
<1> QED
  BY <1>1, Invariance, PTL

(* process_read() gives each request of the connection, in turn, the answer*)
(* that the request deserves, and only when it has all of the request or   *)
(* refuses its line.                                                       *)
THEOREM AnswersInTurnCorrect == Spec => []AnswersInTurn
<1>1. IInv => AnswersInTurn
  BY DEF IInv, AnswerInv, AnswersInTurn, Live
<1> QED
  BY <1>1, Invariance, PTL

(* process() asks epoll for more bytes only when the request is incomplete,*)
(* or when a call of it saw a part of a body, which parse_content then     *)
(* counts wrongly.                                                         *)
THEOREM WaitsOnlyForBytesCorrect == Spec => []WaitsOnlyForBytes
<1>1. IInv => WaitsOnlyForBytes
  BY DEF IInv
<1> QED
  BY <1>1, Invariance, PTL

(* From do_request()'s mmap to the end of write() a response with a file   *)
(* has its mapping.                                                        *)
THEOREM MappedWhileSendingCorrect == Spec => []MappedWhileSending
<1>1. IInv => MappedWhileSending
  BY DEF IInv, MappingInv, MappedWhileSending, Live
<1> QED
  BY <1>1, Invariance, PTL

(* In the proactor a mapping is lost only with a connection that is closed *)
(* in the middle of a file: unmap() is called once per mapping otherwise.  *)
THEOREM NoMappingLostCorrect == Spec => []NoMappingLost
<1>1. IInv => NoMappingLost
  BY DEF IInv, MappingInv
<1> QED
  BY <1>1, Invariance, PTL

(* write() ends a connection that is to be kept after the response only    *)
(* when the buffer holds more than the request answered, or the request had*)
(* a body; and before the end of the response only when the client has     *)
(* left or a part of the response has gone out.                            *)
THEOREM KeepAliveKeptCorrect == Spec => KeepAliveKept
<1>1. ASSUME IInv, m_linger, Write_Ends, interest' = "none"
      PROVE  served' # served /\ (m_read_idx > Len(Encode(Current)) \/ Current.body # <<>>)
  <2>1. pc = "write" /\ interest = "off" /\ Live /\ ret \notin {"none", "BAD_REQUEST"}
    BY <1>1 DEF Write_Ends, IInv, ModeInv, Live
  <2>2. ~KeepsConnection
    BY <1>1, <2>1 DEF Write_Ends, ModFd, Open
  <2>3. m_checked_idx < m_read_idx
    BY <1>1, <2>2 DEF KeepsConnection, IInv, TypeOK
  <2>4. Current.body = <<>> => m_checked_idx = Len(Encode(Current))
    BY <1>1, <2>1 DEF IInv, AnswerInv
  <2>5. m_checked_idx \in Nat /\ m_read_idx \in Nat
    BY <1>1 DEF IInv, TypeOK
  <2>6. served' # served
    BY <1>1 DEF Write_Ends, IInv, TypeOK
  <2> QED
    BY <2>3, <2>4, <2>5, <2>6
<1>2. ASSUME IInv, Write_Fails
      PROVE  served' = served /\ (left \/ bytes_to_send < Len(Response))
  <2>1. served' = served /\ (left \/ BadLength \/ Outside) /\ pc = "write"
    BY <1>2 DEF Write_Fails, history
  <2>2. bytes_to_send <= Len(Response) /\ bytes_to_send \in Nat
    BY <1>2, <2>1 DEF IInv, OutputInv, TypeOK
  <2>3. ASSUME bytes_to_send = Len(Response) PROVE ~BadLength /\ ~Outside
    <3>1. /\ m_iv[0] = [base |-> 0, len |-> HeaderLen]
          /\ m_iv_count = 2 => m_iv[1] = [base |-> 0, len |-> FileLen]
      BY <1>2, <2>1, <2>3 DEF IInv, OutputInv
    <3>2. m_iv[0].len = HeaderLen /\ (m_iv_count = 2 => m_iv[1].base = 0)
      BY <3>1
    <3> QED
      BY <3>2, Sizes DEF BadLength, Outside
  <2>4. Len(Response) \in Nat
    BY ResponseLength
  <2> QED
    BY <2>1, <2>2, <2>3, <2>4
<1>3. ASSUME IInv, Write_Blocks \/ Write_Part PROVE interest' # "none"
  <2>1. interest = "off"
    BY <1>3 DEF IInv, ModeInv, Write_Blocks, Write_Part
  <2> QED
    BY <1>3, <2>1 DEF Write_Blocks, Write_Part, ModFd, Open
<1>4. ASSUME IInv, m_linger, WriteStep, interest' = "none"
      PROVE  \/ served' # served /\ (m_read_idx > Len(Encode(Current)) \/ Current.body # <<>>)
             \/ served' = served /\ (left \/ bytes_to_send < Len(Response))
  BY <1>1, <1>2, <1>3, <1>4 DEF WriteStep
<1>5. IInv /\ [Next]_vars =>
        [m_linger /\ WriteStep /\ interest' = "none" =>
            \/ served' # served /\ (m_read_idx > Len(Encode(Current)) \/ Current.body # <<>>)
            \/ served' = served /\ (left \/ bytes_to_send < Len(Response))]_vars
  BY <1>4
<1> QED
  BY <1>5, Invariance, PTL DEF KeepAliveKept, Spec

=============================================================================
