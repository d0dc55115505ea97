----------------------------- MODULE HashProofs -----------------------------
(***************************************************************************)
(* The bytes that computeCurrentStateHash hashes tell any two states apart *)
(* for data of any size, and so the hash changes when the state does.      *)
(***************************************************************************)
EXTENDS SecretDataProofs

-----------------------------------------------------------------------------
(* Sequences *)

\* Where the parts of a concatenation are.
LEMMA ConcatParts ==
  ASSUME NEW S, NEW s \in Seq(S), NEW t \in Seq(S)
  PROVE  /\ s \o t \in Seq(S)
         /\ Len(s \o t) = Len(s) + Len(t)
         /\ \A i \in 1 .. Len(s) : (s \o t)[i] = s[i]
         /\ \A i \in 1 .. Len(t) : (s \o t)[Len(s) + i] = t[i]
OBVIOUS

\* Two more members at the end of a sequence.
LEMMA ConcatPair ==
  ASSUME NEW S, NEW s \in Seq(S), NEW x \in S, NEW y \in S
  PROVE  /\ Len(s \o <<x, y>>) = Len(s) + 2
         /\ \A i \in 1 .. Len(s) : (s \o <<x, y>>)[i] = s[i]
         /\ (s \o <<x, y>>)[Len(s) + 1] = x /\ (s \o <<x, y>>)[Len(s) + 2] = y
<1> DEFINE t == <<x, y>>
<1>1. t \in Seq(S) /\ Len(t) = 2 /\ t[1] = x /\ t[2] = y
  OBVIOUS
<1> HIDE DEF t
<1>2. /\ Len(s \o t) = Len(s) + Len(t)
      /\ \A i \in 1 .. Len(s) : (s \o t)[i] = s[i]
      /\ \A i \in 1 .. Len(t) : (s \o t)[Len(s) + i] = t[i]
  BY <1>1, ConcatParts
<1> QED
  BY <1>1, <1>2 DEF t

\* Parts of equal length can be told apart.
LEMMA SameLength ==
  ASSUME NEW S, NEW s1 \in Seq(S), NEW s2 \in Seq(S), NEW t1 \in Seq(S), NEW t2 \in Seq(S)
  PROVE  Len(s1) = Len(s2) /\ s1 \o t1 = s2 \o t2 => s1 = s2 /\ t1 = t2
<1>1. /\ Len(s1 \o t1) = Len(s1) + Len(t1)
      /\ \A i \in 1 .. Len(s1) : (s1 \o t1)[i] = s1[i]
      /\ \A i \in 1 .. Len(t1) : (s1 \o t1)[Len(s1) + i] = t1[i]
  BY ConcatParts
<1>2. /\ Len(s2 \o t2) = Len(s2) + Len(t2)
      /\ \A i \in 1 .. Len(s2) : (s2 \o t2)[i] = s2[i]
      /\ \A i \in 1 .. Len(t2) : (s2 \o t2)[Len(s2) + i] = t2[i]
  BY ConcatParts
<1> DEFINE u1 == s1 \o t1
           u2 == s2 \o t2
<1> HIDE DEF u1, u2
<1> SUFFICES ASSUME Len(s1) = Len(s2), u1 = u2 PROVE s1 = s2 /\ t1 = t2
  BY DEF u1, u2
<1>3. u1 = u2
  OBVIOUS
<1>4. s1 = s2
  <2>1. \A i \in 1 .. Len(s1) : s1[i] = s2[i]
    BY <1>1, <1>2, <1>3 DEF u1, u2
  <2> QED
    BY <2>1, SeqEqual
<1>5. t1 = t2
  <2>1. Len(t1) = Len(t2)
    <3>1. Len(u1) = Len(s1) + Len(t1) /\ Len(u2) = Len(s2) + Len(t2)
      BY <1>1, <1>2, Zenon DEF u1, u2
    <3> QED
      BY <3>1, <1>3
  <2>2. \A i \in 1 .. Len(t1) : t1[i] = t2[i]
    BY <1>1, <1>2, <1>3, <2>1, Zenon DEF u1, u2
  <2> QED
    BY <2>1, <2>2, SeqEqual
<1> QED
  BY <1>4, <1>5

\* A part ends at the first separator.
LEMMA FirstSeparator ==
  ASSUME NEW S, NEW c \in S, NEW s1 \in Seq(S \ {c}), NEW s2 \in Seq(S \ {c}),
         NEW t1 \in Seq(S), NEW t2 \in Seq(S)
  PROVE  s1 \o <<c>> \o t1 = s2 \o <<c>> \o t2 => s1 = s2 /\ t1 = t2
<1>0. /\ s1 \in Seq(S) /\ \A i \in 1 .. Len(s1) : s1[i] # c
      /\ s2 \in Seq(S) /\ \A i \in 1 .. Len(s2) : s2[i] # c
  <2>1. ASSUME NEW s \in Seq(S \ {c}) PROVE s \in Seq(S) /\ \A i \in 1 .. Len(s) : s[i] # c
    <3>1. s \in Seq(S)
      BY SeqMonotonic
    <3>2. \A i \in 1 .. Len(s) : s[i] \in S \ {c}
      BY ElementOfSeq
    <3> QED
      BY <3>1, <3>2
  <2> QED
    BY <2>1
<1>1. ASSUME NEW s \in Seq(S), NEW t \in Seq(S)
      PROVE  /\ s \o <<c>> \in Seq(S)
             /\ Len(s \o <<c>>) = Len(s) + 1
             /\ \A i \in 1 .. Len(s) : (s \o <<c>> \o t)[i] = s[i]
             /\ (s \o <<c>> \o t)[Len(s) + 1] = c
  OBVIOUS
<1> HAVE s1 \o <<c>> \o t1 = s2 \o <<c>> \o t2
<1>2. Len(s1) = Len(s2)
  <2>1. ASSUME Len(s1) < Len(s2) PROVE FALSE
    <3>1. (s1 \o <<c>> \o t1)[Len(s1) + 1] = c
      BY <1>0, <1>1
    <3>2. Len(s1) + 1 \in 1 .. Len(s2)
      BY <2>1, <1>0
    <3>3. (s2 \o <<c>> \o t2)[Len(s1) + 1] = s2[Len(s1) + 1]
      BY <3>2, <1>0, <1>1
    <3> QED
      BY <3>1, <3>2, <3>3, <1>0
  <2>2. ASSUME Len(s2) < Len(s1) PROVE FALSE
    <3>1. (s2 \o <<c>> \o t2)[Len(s2) + 1] = c
      BY <1>0, <1>1
    <3>2. Len(s2) + 1 \in 1 .. Len(s1)
      BY <2>2, <1>0
    <3>3. (s1 \o <<c>> \o t1)[Len(s2) + 1] = s1[Len(s2) + 1]
      BY <3>2, <1>0, <1>1
    <3> QED
      BY <3>1, <3>2, <3>3, <1>0
  <2>3. Len(s1) \in Nat /\ Len(s2) \in Nat
    BY <1>0
  <2> QED
    BY <2>1, <2>2, <2>3
<1>3. s1 \o <<c>> = s2 \o <<c>> /\ t1 = t2
  <2>1. s1 \o <<c>> \in Seq(S) /\ s2 \o <<c>> \in Seq(S) /\ Len(s1 \o <<c>>) = Len(s2 \o <<c>>)
    BY <1>0, <1>1, <1>2
  <2> DEFINE r1 == s1 \o <<c>>
             r2 == s2 \o <<c>>
  <2>2. r1 \in Seq(S) /\ r2 \in Seq(S) /\ Len(r1) = Len(r2) /\ r1 \o t1 = r2 \o t2
    BY <2>1
  <2> HIDE DEF r1, r2
  <2>3. r1 = r2 /\ t1 = t2
    BY <2>2, SameLength
  <2> QED
    BY <2>3 DEF r1, r2
<1>4. <<c>> \in Seq(S)
  OBVIOUS
<1> QED
  BY <1>0, <1>2, <1>3, <1>4, SameLength

\* The concatenation of the first i of some sequences, for every i.
IsFlattening(f, seqs) ==
  /\ f[0] = <<>>
  /\ \A i \in 1 .. Len(seqs) : f[i] = f[i - 1] \o seqs[i]

\* FlattenSeq is the last of these concatenations.
LEMMA Flattening ==
  ASSUME NEW S, NEW seqs \in Seq(Seq(S))
  PROVE  \E f \in [0 .. Len(seqs) -> Seq(S)] :
           IsFlattening(f, seqs) /\ FlattenSeq(seqs) = f[Len(seqs)]
<1> DEFINE N == Len(seqs)
           A == Seq(S)
           step == [p \in A \X Nat |-> IF p[2] \in 1 .. N THEN p[1] \o seqs[p[2]] ELSE p[1]]
           Unfolds(g) == g = [i \in 1 .. N |-> IF i = 1 THEN seqs[i] ELSE g[i - 1] \o seqs[i]]
<1>1. N \in Nat /\ DOMAIN seqs = 1 .. N /\ \A i \in 1 .. N : seqs[i] \in A
  OBVIOUS
<1>2. <<>> \in A /\ \A q, r \in A : q \o r \in A
  OBVIOUS
<1> HIDE DEF A, N
<1>3. step \in [A \X Nat -> A]
  BY <1>1, <1>2
<1>4. PICK f \in [0 .. N -> A] : IsLoop(f, N, <<>>, step)
  <2> DEFINE empty == <<>>
  <2>1. empty \in A
    BY <1>2
  <2> HIDE DEF step, empty
  <2>2. \A n \in Nat : \E f \in [0 .. n -> A] : IsLoop(f, n, empty, step)
    BY <1>3, <2>1, LoopExists, Zenon
  <2> QED
    BY <1>1, <2>2 DEF empty
<1>5. f[0] = <<>>
  BY <1>4 DEF IsLoop
<1>6. ASSUME NEW i \in 1 .. N PROVE f[i] = f[i - 1] \o seqs[i]
  <2>1. <<f[i - 1], i>> \in A \X Nat
    BY <1>1
  <2>2. f[i] = step[<<f[i - 1], i>>]
    BY <1>4 DEF IsLoop
  <2> QED
    BY <2>1, <2>2
<1> HIDE DEF step
<1>7. CASE N = 0
  <2>1. seqs = <<>>
    BY <1>7 DEF N
  <2>2. FlattenSeq(seqs) = <<>>
    BY <2>1 DEF FlattenSeq
  <2> QED
    BY <2>2, <1>5, <1>6, <1>7 DEF N, A, IsFlattening
<1>8. CASE N # 0
  <2> DEFINE h == [i \in 1 .. N |-> f[i]]
  <2>1. Unfolds(h)
    <3>1. ASSUME NEW i \in 1 .. N
          PROVE  h[i] = IF i = 1 THEN seqs[i] ELSE h[i - 1] \o seqs[i]
      <4>1. CASE i = 1
        <5>1. f[i] = <<>> \o seqs[i] /\ seqs[i] \in Seq(S)
          <6>1. f[i] = f[i - 1] \o seqs[i]
            BY <1>6
          <6>2. i - 1 = 0
            BY <4>1
          <6>3. seqs[i] \in Seq(S)
            BY <1>1 DEF A
          <6> QED
            BY <6>1, <6>2, <6>3, <1>5, Zenon
        <5>2. <<>> \o seqs[i] = seqs[i]
          BY <5>1, ConcatEmptySeq
        <5> QED
          BY <4>1, <5>1, <5>2
      <4>2. CASE i # 1
        <5>1. i - 1 \in 1 .. N
          BY <4>2, <1>1
        <5> QED
          BY <5>1, <4>2, <1>6
      <4> QED
        BY <4>1, <4>2
    <3>2. h = [i \in 1 .. N |-> h[i]]
      OBVIOUS
    <3> HIDE DEF h
    <3> QED
      BY <3>1, <3>2, Zenon
  <2>2. ASSUME NEW g, Unfolds(g) PROVE g[N] = h[N]
    <3> DEFINE T == {n \in Nat : n + 1 \in 1 .. N => g[n + 1] = h[n + 1]}
    <3>0. ASSUME NEW x, Unfolds(x), NEW i \in 1 .. N
          PROVE  x[i] = IF i = 1 THEN seqs[i] ELSE x[i - 1] \o seqs[i]
      BY <3>0, Zenon
    <3> HIDE DEF h, Unfolds
    <3>1. 0 \in T
      BY <3>0, <2>1, <2>2
    <3>2. ASSUME NEW n \in Nat, n \in T PROVE n + 1 \in T
      <4> SUFFICES ASSUME (n + 1) + 1 \in 1 .. N PROVE g[(n + 1) + 1] = h[(n + 1) + 1]
        OBVIOUS
      <4>1. ((n + 1) + 1) - 1 = n + 1 /\ (n + 1) + 1 # 1 /\ n + 1 \in 1 .. N
        BY <1>1
      <4>2. g[n + 1] = h[n + 1]
        BY <4>1, <3>2
      <4> QED
        BY <4>1, <4>2, <3>0, <2>1, <2>2
    <3>3. Nat \subseteq T
      <4> HIDE DEF T
      <4> QED
        BY <3>1, <3>2, SetInduction
    <3>4. N - 1 \in Nat /\ (N - 1) + 1 = N /\ N \in 1 .. N
      BY <1>1, <1>8
    <3> QED
      BY <3>3, <3>4
  <2>3. FlattenSeq(seqs) = (CHOOSE g : Unfolds(g))[N]
    <3>1. Len(seqs) # 0
      BY <1>8 DEF N
    <3> QED
      BY <3>1, Zenon DEF FlattenSeq, N
  <2>4. Unfolds(CHOOSE g : Unfolds(g))
    BY <2>1
  <2>5. FlattenSeq(seqs) = h[N]
    <3> HIDE DEF Unfolds, h
    <3> QED
      BY <2>2, <2>3, <2>4
  <2>6. h[N] = f[N]
    BY <1>1, <1>8
  <2> QED
    BY <2>5, <2>6, <1>5, <1>6 DEF N, A, IsFlattening
<1> QED
  BY <1>7, <1>8

-----------------------------------------------------------------------------
(* Numbers in decimal *)

Digits == {"0", "1", "2", "3", "4", "5", "6", "7", "8", "9"}

\* Quotient and last digit of a number.
LEMMA Division ==
  ASSUME NEW m \in Nat
  PROVE  /\ m \div 10 \in Nat /\ m % 10 \in 0 .. 9
         /\ m = 10 * (m \div 10) + (m % 10)
         /\ m >= 10 => m \div 10 < m
OBVIOUS

\* Digits are what they are, and no two are the same.
LEMMA DigitType ==
  /\ \A d \in 0 .. 9 : Digit[d + 1] \in Digits
  /\ \A d, e \in 0 .. 9 : Digit[d + 1] = Digit[e + 1] => d = e
BY DEF Digit, Digits

\* g[m] is m in decimal, for the numbers up to n.
IsItoa(g, n) ==
  g = [m \in 0 .. n |-> IF m < 10 THEN <<Digit[m + 1]>>
                        ELSE Append(g[m \div 10], Digit[(m % 10) + 1])]

\* The decimal of a number, by cases.
LEMMA ItoaUnfolded ==
  ASSUME NEW n \in Nat, NEW g, IsItoa(g, n), NEW m \in 0 .. n
  PROVE  /\ m < 10 => g[m] = <<Digit[m + 1]>>
         /\ m >= 10 => g[m] = Append(g[m \div 10], Digit[(m % 10) + 1])
<1>1. g[m] = IF m < 10 THEN <<Digit[m + 1]>> ELSE Append(g[m \div 10], Digit[(m % 10) + 1])
  BY Zenon DEF IsItoa
<1> QED
  BY <1>1

\* A function with these cases is the recursive one.
LEMMA ItoaFolded ==
  ASSUME NEW n \in Nat, NEW g, g = [m \in 0 .. n |-> g[m]],
         \A m \in 0 .. n : /\ m < 10 => g[m] = <<Digit[m + 1]>>
                           /\ m >= 10 => g[m] = Append(g[m \div 10], Digit[(m % 10) + 1])
  PROVE  IsItoa(g, n)
<1>1. \A m \in 0 .. n : g[m] = IF m < 10 THEN <<Digit[m + 1]>>
                               ELSE Append(g[m \div 10], Digit[(m % 10) + 1])
  <2> SUFFICES ASSUME NEW m \in 0 .. n
               PROVE  g[m] = IF m < 10 THEN <<Digit[m + 1]>>
                             ELSE Append(g[m \div 10], Digit[(m % 10) + 1])
    OBVIOUS
  <2>1. m < 10 \/ m >= 10
    OBVIOUS
  <2>2. CASE m < 10
    BY <2>2, Zenon
  <2>3. CASE m >= 10
    <3>1. ~(m < 10)
      BY <2>3
    <3> QED
      BY <2>3, <3>1, Zenon
  <2> QED
    BY <2>1, <2>2, <2>3
<1> QED
  BY <1>1, Zenon DEF IsItoa

\* The recursion of Itoa is well founded: its function exists, for every bound.
LEMMA ItoaExists ==
  \A n \in Nat : \E g \in [0 .. n -> Seq(Digits) \ {<<>>}] : IsItoa(g, n)
<1> DEFINE A == Seq(Digits) \ {<<>>}
           T == {n \in Nat : \E g \in [0 .. n -> A] : IsItoa(g, n)}
<1>1. ASSUME NEW d \in Digits
      PROVE  <<d>> \in A /\ \A q \in A : Append(q, d) \in A
  <2> HIDE DEF Digits
  <2> QED
    OBVIOUS
<1> HIDE DEF A
<1>2. 0 \in T
  <2> DEFINE z == 0
             g == [m \in 0 .. z |-> <<Digit[m + 1]>>]
  <2>1. z \in Nat /\ \A m \in 0 .. z : m \in 0 .. 9 /\ m < 10 /\ ~(m >= 10)
    OBVIOUS
  <2> HIDE DEF z
  <2>2. g \in [0 .. z -> A]
    <3>1. ASSUME NEW m \in 0 .. z PROVE <<Digit[m + 1]>> \in A
      <4>1. Digit[m + 1] \in Digits
        BY <2>1, DigitType
      <4> QED
        BY <4>1, <1>1
    <3> QED
      BY <3>1
  <2>3. \A m \in 0 .. z : /\ m < 10 => g[m] = <<Digit[m + 1]>>
                          /\ m >= 10 => g[m] = Append(g[m \div 10], Digit[(m % 10) + 1])
    BY <2>1
  <2>4. g = [m \in 0 .. z |-> g[m]]
    OBVIOUS
  <2> HIDE DEF g
  <2>5. IsItoa(g, z)
    BY <2>1, <2>2, <2>3, <2>4, ItoaFolded
  <2>6. z \in T
    BY <2>1, <2>2, <2>5
  <2> QED
    BY <2>6 DEF z
<1>3. ASSUME NEW n \in Nat, n \in T PROVE n + 1 \in T
  <2>1. PICK f \in [0 .. n -> A] : IsItoa(f, n)
    BY <1>3
  <2> DEFINE k == n + 1
             last == IF k < 10 THEN <<Digit[k + 1]>> ELSE Append(f[k \div 10], Digit[(k % 10) + 1])
             g == [m \in 0 .. k |-> IF m = k THEN last ELSE f[m]]
  <2>2. k \in Nat /\ k \div 10 \in Nat /\ k % 10 \in 0 .. 9
        /\ (k >= 10 => k \div 10 \in 0 .. n) /\ (k < 10 => k \in 0 .. 9)
    BY Division
  <2>3. last \in A
    <3>1. CASE k < 10
      BY <3>1, <2>2, <1>1, DigitType
    <3>2. CASE k >= 10
      <4>1. f[k \div 10] \in A /\ Digit[(k % 10) + 1] \in Digits
        BY <3>2, <2>2, DigitType
      <4>2. last = Append(f[k \div 10], Digit[(k % 10) + 1])
        BY <3>2, <2>2
      <4> QED
        BY <4>1, <4>2, <1>1
    <3> QED
      BY <3>1, <3>2, <2>2
  <2> HIDE DEF last
  <2>4. g \in [0 .. k -> A] /\ g = [m \in 0 .. k |-> g[m]]
    BY <2>2, <2>3
  <2>5. ASSUME NEW m \in 0 .. k
        PROVE  /\ m < 10 => g[m] = <<Digit[m + 1]>>
               /\ m >= 10 => g[m] = Append(g[m \div 10], Digit[(m % 10) + 1])
    <3>1. m >= 10 => m \div 10 \in 0 .. n /\ g[m \div 10] = f[m \div 10]
      BY <2>2, Division
    <3>2. CASE m = k
      <4>1. g[m] = last
        BY <3>2, <2>2
      <4> QED
        BY <4>1, <3>1, <3>2, <2>2 DEF last
    <3>3. CASE m # k
      <4>1. m \in 0 .. n /\ g[m] = f[m]
        BY <3>3, <2>2
      <4>2. /\ m < 10 => f[m] = <<Digit[m + 1]>>
            /\ m >= 10 => f[m] = Append(f[m \div 10], Digit[(m % 10) + 1])
        BY <4>1, <2>1, ItoaUnfolded
      <4> QED
        BY <4>1, <4>2, <3>1
    <3> QED
      BY <3>2, <3>3
  <2> HIDE DEF g, k
  <2>6. IsItoa(g, k)
    BY <2>2, <2>4, <2>5, ItoaFolded
  <2>7. k \in T
    BY <2>2, <2>4, <2>6
  <2> QED
    BY <2>7 DEF k
<1>4. Nat \subseteq T
  <2> HIDE DEF T
  <2> QED
    BY <1>2, <1>3, SetInduction
<1> QED
  BY <1>4 DEF A

\* Two such functions agree where both are defined.
LEMMA ItoaUnique ==
  ASSUME NEW n1 \in Nat, NEW n2 \in Nat, NEW g1, NEW g2,
         IsItoa(g1, n1), IsItoa(g2, n2), NEW m \in Nat, m <= n1, m <= n2
  PROVE  g1[m] = g2[m]
<1> DEFINE T == {k \in Nat : \A i \in 0 .. k : i <= n1 /\ i <= n2 => g1[i] = g2[i]}
<1>1. ASSUME NEW i \in Nat, i <= n1, i <= n2, \A j \in Nat : j < i => g1[j] = g2[j]
      PROVE  g1[i] = g2[i]
  <2>1. i \in 0 .. n1 /\ i \in 0 .. n2
    BY <1>1
  <2>2. /\ i < 10 => g1[i] = <<Digit[i + 1]>>
        /\ i >= 10 => g1[i] = Append(g1[i \div 10], Digit[(i % 10) + 1])
    BY <2>1, ItoaUnfolded
  <2>3. /\ i < 10 => g2[i] = <<Digit[i + 1]>>
        /\ i >= 10 => g2[i] = Append(g2[i \div 10], Digit[(i % 10) + 1])
    BY <2>1, ItoaUnfolded
  <2>4. i >= 10 => g1[i \div 10] = g2[i \div 10]
    BY <1>1, Division
  <2>5. i < 10 \/ i >= 10
    OBVIOUS
  <2> QED
    BY <2>2, <2>3, <2>4, <2>5
<1>2. 0 \in T
  BY <1>1
<1>3. ASSUME NEW k \in Nat, k \in T PROVE k + 1 \in T
  <2> SUFFICES ASSUME NEW i \in 0 .. k + 1, i <= n1, i <= n2 PROVE g1[i] = g2[i]
    OBVIOUS
  <2>1. \A j \in Nat : j < i => g1[j] = g2[j]
    BY <1>3
  <2> QED
    BY <2>1, <1>1
<1>4. Nat \subseteq T
  <2> HIDE DEF T
  <2> QED
    BY <1>2, <1>3, SetInduction
<1> QED
  BY <1>4

\* Itoa is what the decimal notation is: of numbers below ten the digit, and the
\* last digit after those of the rest.
LEMMA ItoaRecursion ==
  ASSUME NEW n \in Nat
  PROVE  /\ Itoa(n) \in Seq(Digits) \ {<<>>}
         /\ n < 10 => Itoa(n) = <<Digit[n + 1]>>
         /\ n >= 10 => Itoa(n) = Append(Itoa(n \div 10), Digit[(n % 10) + 1])
<1>1. ASSUME NEW m \in Nat
      PROVE  IsItoa(CHOOSE g : IsItoa(g, m), m) /\ Itoa(m) = (CHOOSE g : IsItoa(g, m))[m]
  <2>1. \E g : IsItoa(g, m)
    BY ItoaExists
  <2>2. IsItoa(CHOOSE g : IsItoa(g, m), m)
    BY <2>1
  <2>3. Itoa(m) = (CHOOSE g : IsItoa(g, m))[m]
    BY Zenon DEF Itoa, IsItoa
  <2> QED
    BY <2>2, <2>3
<1> DEFINE f == CHOOSE g : IsItoa(g, n)
<1>2. IsItoa(f, n) /\ Itoa(n) = f[n]
  BY <1>1
<1>3. Itoa(n) \in Seq(Digits) \ {<<>>}
  <2>1. PICK h \in [0 .. n -> Seq(Digits) \ {<<>>}] : IsItoa(h, n)
    BY ItoaExists
  <2>2. h[n] = f[n]
    <3> HIDE DEF f
    <3> QED
      BY <1>2, <2>1, ItoaUnique
  <2>3. h[n] \in Seq(Digits) \ {<<>>}
    <3>1. n \in 0 .. n
      OBVIOUS
    <3> QED
      BY <3>1, <2>1, Zenon
  <2> QED
    BY <2>2, <2>3, <1>2
<1>4. /\ n < 10 => Itoa(n) = <<Digit[n + 1]>>
      /\ n >= 10 => Itoa(n) = Append(f[n \div 10], Digit[(n % 10) + 1])
  <2> HIDE DEF f
  <2>1. n \in 0 .. n
    OBVIOUS
  <2> QED
    BY <2>1, <1>2, ItoaUnfolded
<1>5. n >= 10 => f[n \div 10] = Itoa(n \div 10)
  <2> SUFFICES ASSUME n >= 10 PROVE f[n \div 10] = Itoa(n \div 10)
    OBVIOUS
  <2> DEFINE m == n \div 10
             h == CHOOSE g : IsItoa(g, m)
  <2>1. m \in Nat /\ m <= n /\ m <= m
    BY Division
  <2> HIDE DEF m
  <2>2. IsItoa(h, m) /\ Itoa(m) = h[m]
    BY <2>1, <1>1
  <2> HIDE DEF f, h
  <2>3. f[m] = h[m]
    BY <2>1, <2>2, <1>2, ItoaUnique
  <2> QED
    BY <2>2, <2>3 DEF m
<1> QED
  BY <1>3, <1>4, <1>5

\* Different numbers are written differently.
LEMMA ItoaInjective ==
  \A n, m \in Nat : Itoa(n) = Itoa(m) => n = m
<1> DEFINE T == {k \in Nat : \A n \in 0 .. k : \A m \in Nat : Itoa(n) = Itoa(m) => n = m}
<1>1. ASSUME NEW n \in Nat, NEW m \in Nat, Itoa(n) = Itoa(m), n < 10
      PROVE  n = m
  <2>1. Itoa(n) = <<Digit[n + 1]>>
    BY <1>1, ItoaRecursion
  <2>2. CASE m < 10
    <3>1. Itoa(m) = <<Digit[m + 1]>>
      BY <2>2, ItoaRecursion
    <3>2. <<Digit[n + 1]>>[1] = <<Digit[m + 1]>>[1]
      BY <2>1, <3>1, <1>1, Zenon
    <3> QED
      BY <3>2, <2>2, <1>1, DigitType
  <2>3. CASE m >= 10
    <3> DEFINE d == Digit[(m % 10) + 1]
               q == Itoa(m \div 10)
    <3>1. q \in Seq(Digits) \ {<<>>} /\ d \in Digits
      BY Division, ItoaRecursion, DigitType
    <3>2. Itoa(m) = Append(q, d)
      BY <2>3, ItoaRecursion
    <3> HIDE DEF d, q
    <3>3. Len(Append(q, d)) = Len(q) + 1 /\ Len(q) \in Nat \ {0}
      BY <3>1, EmptySeq, AppendProperties
    <3>4. Len(<<Digit[n + 1]>>) = 1
      OBVIOUS
    <3> QED
      BY <3>2, <3>3, <3>4, <2>1, <1>1
  <2> QED
    BY <2>2, <2>3
<1>2. ASSUME NEW n \in Nat, NEW m \in Nat, Itoa(n) = Itoa(m), n >= 10, m >= 10,
             \A i \in Nat : Itoa(n \div 10) = Itoa(i) => n \div 10 = i
      PROVE  n = m
  <2> DEFINE d == Digit[(n % 10) + 1]
             e == Digit[(m % 10) + 1]
             q == Itoa(n \div 10)
             r == Itoa(m \div 10)
  <2>1. q \in Seq(Digits) /\ r \in Seq(Digits) /\ d \in Digits /\ e \in Digits
    BY Division, ItoaRecursion, DigitType
  <2>2. Itoa(n) = Append(q, d) /\ Itoa(m) = Append(r, e)
    BY <1>2, ItoaRecursion
  <2> HIDE DEF d, e, q, r
  <2>3. q = r /\ d = e
    <3>1. Append(q, d) = Append(r, e)
      BY <2>2, <1>2
    <3> QED
      BY <2>1, <3>1, AppendInjective
  <2>4. n \div 10 = m \div 10
    BY <2>3, <1>2, Division DEF q, r
  <2>5. n % 10 = m % 10
    BY <2>3, DigitType, Division DEF d, e
  <2> QED
    BY <2>4, <2>5, Division
<1>3. 0 \in T
  BY <1>1
<1>4. ASSUME NEW k \in Nat, k \in T PROVE k + 1 \in T
  <2> SUFFICES ASSUME NEW n \in 0 .. k + 1, NEW m \in Nat, Itoa(n) = Itoa(m) PROVE n = m
    OBVIOUS
  <2>1. CASE n < 10
    BY <2>1, <1>1
  <2>2. CASE m < 10
    BY <2>2, <1>1
  <2>3. CASE n >= 10 /\ m >= 10
    <3>1. n \div 10 \in 0 .. k
      BY <2>3, Division
    <3>2. \A i \in Nat : Itoa(n \div 10) = Itoa(i) => n \div 10 = i
      BY <3>1, <1>4
    <3> QED
      BY <2>3, <3>2, <1>2
  <2> QED
    BY <2>1, <2>2, <2>3
<1>5. Nat \subseteq T
  <2> HIDE DEF T
  <2> QED
    BY <1>3, <1>4, SetInduction
<1> QED
  BY <1>5

-----------------------------------------------------------------------------
(* Contents *)

\* The symbols of the blocks of a content, two of each.
Pairs(blocks) == [n \in DOMAIN blocks |-> <<blocks[n].type, blocks[n].der>>]

\* Where type and DER bytes of the blocks stand in their concatenation.
LEMMA PairsFlattened ==
  ASSUME NEW blocks \in Seq(Blocks)
  PROVE  LET flat == FlattenSeq(Pairs(blocks))
         IN  /\ flat \in Seq(Words)
             /\ Len(flat) = 2 * Len(blocks)
             /\ \A j \in 1 .. Len(blocks) : /\ flat[2 * j - 1] = blocks[j].type
                                            /\ flat[2 * j] = blocks[j].der
<1> DEFINE N == Len(blocks)
           seqs == Pairs(blocks)
<1>1. N \in Nat /\ DOMAIN blocks = 1 .. N
      /\ \A n \in 1 .. N : blocks[n].type \in Words /\ blocks[n].der \in Words
  <2>1. N \in Nat /\ DOMAIN blocks = 1 .. N /\ \A n \in 1 .. N : blocks[n] \in Blocks
    OBVIOUS
  <2>2. \A b \in Blocks : b.type \in Words /\ b.der \in Words
    BY DEF Blocks
  <2> QED
    BY <2>1, <2>2
<1>2. ASSUME NEW x \in Words, NEW y \in Words
      PROVE  /\ <<x, y>> \in Seq(Words)
             /\ Len(<<x, y>>) = 2 /\ <<x, y>>[1] = x /\ <<x, y>>[2] = y
  OBVIOUS
<1>3. \A n \in 1 .. N : seqs[n] = <<blocks[n].type, blocks[n].der>>
  BY <1>1 DEF Pairs
<1>4. seqs \in Seq(Seq(Words)) /\ Len(seqs) = N
  <2>1. seqs = [n \in 1 .. N |-> <<blocks[n].type, blocks[n].der>>]
    BY <1>1, Zenon DEF Pairs
  <2>2. \A n \in 1 .. N : <<blocks[n].type, blocks[n].der>> \in Seq(Words)
    BY <1>1, <1>2
  <2>3. seqs \in [1 .. N -> Seq(Words)]
    BY <2>1, <2>2, Zenon
  <2> HIDE DEF seqs, N
  <2> QED
    BY <1>1, <2>3
<1>5. PICK f \in [0 .. N -> Seq(Words)] : IsFlattening(f, seqs) /\ FlattenSeq(seqs) = f[N]
  <2> HIDE DEF seqs, N
  <2>1. \E f \in [0 .. Len(seqs) -> Seq(Words)] :
          IsFlattening(f, seqs) /\ FlattenSeq(seqs) = f[Len(seqs)]
    BY <1>4, Flattening
  <2> QED
    BY <2>1, <1>4
<1> DEFINE Good(n) == /\ Len(f[n]) = 2 * n
                      /\ \A j \in 1 .. n : /\ f[n][2 * j - 1] = blocks[j].type
                                           /\ f[n][2 * j] = blocks[j].der
           T == {n \in Nat : n <= N => Good(n)}
<1>6. 0 \in T
  BY <1>5 DEF IsFlattening
<1>7. ASSUME NEW n \in Nat, n \in T PROVE n + 1 \in T
  <2> SUFFICES ASSUME n + 1 <= N PROVE Good(n + 1)
    OBVIOUS
  <2> DEFINE k == n + 1
             x == blocks[k].type
             y == blocks[k].der
  <2>0. Good(n)
    BY <1>1, <1>7
  <2>1. Good(n) /\ k \in 1 .. N /\ n \in 0 .. N /\ k - 1 = n /\ f[n] \in Seq(Words)
    <3> HIDE DEF N, Good
    <3> QED
      BY <1>1, <2>0
  <2>2. x \in Words /\ y \in Words
    BY <2>1, <1>1
  <2>3. f[k] = f[n] \o <<x, y>>
    <3>1. f[k] = f[k - 1] \o seqs[k]
      BY <2>1, <1>4, <1>5 DEF IsFlattening
    <3> QED
      BY <3>1, <2>1, <1>3
  <2>4. /\ Len(f[k]) = Len(f[n]) + 2
        /\ \A i \in 1 .. Len(f[n]) : f[k][i] = f[n][i]
        /\ f[k][Len(f[n]) + 1] = x /\ f[k][Len(f[n]) + 2] = y
    <3> HIDE DEF x, y, k
    <3> DEFINE q == f[n]
    <3>1. q \in Seq(Words) /\ f[k] = q \o <<x, y>>
      BY <2>1, <2>3
    <3> HIDE DEF q
    <3>2. /\ Len(q \o <<x, y>>) = Len(q) + 2
          /\ \A i \in 1 .. Len(q) : (q \o <<x, y>>)[i] = q[i]
          /\ (q \o <<x, y>>)[Len(q) + 1] = x /\ (q \o <<x, y>>)[Len(q) + 2] = y
      BY <2>2, <3>1, ConcatPair
    <3> QED
      BY <3>1, <3>2, Zenon DEF q
  <2>5. Len(f[k]) = 2 * k
    BY <2>1, <2>4
  <2>6. ASSUME NEW j \in 1 .. k
        PROVE  f[k][2 * j - 1] = blocks[j].type /\ f[k][2 * j] = blocks[j].der
    <3>1. CASE j = k
      <4>1. 2 * j - 1 = Len(f[n]) + 1 /\ 2 * j = Len(f[n]) + 2
        BY <3>1, <2>1
      <4> QED
        BY <4>1, <3>1, <2>4
    <3>2. CASE j # k
      <4>1. j \in 1 .. n /\ 2 * j - 1 \in 1 .. Len(f[n]) /\ 2 * j \in 1 .. Len(f[n])
        BY <3>2, <2>1
      <4> QED
        BY <4>1, <2>1, <2>4
    <3> QED
      BY <3>1, <3>2
  <2> QED
    BY <2>5, <2>6
<1>8. Nat \subseteq T
  <2> HIDE DEF T
  <2> QED
    BY <1>6, <1>7, SetInduction
<1>9. Good(N) /\ f[N] \in Seq(Words)
  <2>1. N \in Nat /\ N <= N /\ N \in 0 .. N
    <3> HIDE DEF N
    <3> QED
      BY <1>1
  <2>2. N \in T
    BY <2>1, <1>8, Zenon
  <2>3. Good(N)
    <3> HIDE DEF N, Good
    <3> QED
      BY <2>1, <2>2
  <2>4. f[N] \in Seq(Words)
    <3> HIDE DEF N
    <3> QED
      BY <2>1
  <2> QED
    BY <2>3, <2>4, Zenon
<1> QED
  BY <1>5, <1>9

\* Different contents are encoded differently, and without commas.
LEMMA EncodeType ==
  ASSUME NEW content \in Contents
  PROVE  /\ content.format \in Words /\ content.blocks \in Seq(Blocks)
         /\ FlattenSeq(Pairs(content.blocks)) \in Seq(Words)
         /\ Encode(content) = <<content.format>> \o FlattenSeq(Pairs(content.blocks))
         /\ Encode(content) \in Seq(Words)
<1>1. content.format \in Words /\ content.blocks \in Seq(Blocks)
  BY SymbolsAssumption DEF Contents, Words
<1>2. FlattenSeq(Pairs(content.blocks)) \in Seq(Words)
  BY <1>1, PairsFlattened
<1>3. Encode(content) = <<content.format>> \o FlattenSeq(Pairs(content.blocks))
  BY Zenon DEF Encode, Pairs
<1>4. <<content.format>> \in Seq(Words)
  BY <1>1
<1> QED
  BY <1>1, <1>2, <1>3, <1>4, ConcatProperties

\* Two sequences of blocks that are written alike are the same.
LEMMA PairsInjective ==
  ASSUME NEW b1 \in Seq(Blocks), NEW b2 \in Seq(Blocks),
         FlattenSeq(Pairs(b1)) = FlattenSeq(Pairs(b2))
  PROVE  b1 = b2
<1> DEFINE f1 == FlattenSeq(Pairs(b1))
           f2 == FlattenSeq(Pairs(b2))
<1>1. /\ Len(f1) = 2 * Len(b1)
      /\ \A j \in 1 .. Len(b1) : f1[2 * j - 1] = b1[j].type /\ f1[2 * j] = b1[j].der
  BY PairsFlattened
<1>2. /\ Len(f2) = 2 * Len(b2)
      /\ \A j \in 1 .. Len(b2) : f2[2 * j - 1] = b2[j].type /\ f2[2 * j] = b2[j].der
  BY PairsFlattened
<1>3. f1 = f2
  OBVIOUS
<1> HIDE DEF f1, f2
<1>4. Len(b1) \in Nat /\ Len(b2) \in Nat
  OBVIOUS
<1>5. Len(b1) = Len(b2)
  BY <1>1, <1>2, <1>3, <1>4
<1>6. ASSUME NEW j \in 1 .. Len(b1) PROVE b1[j] = b2[j]
  <2>1. b1[j] \in Blocks /\ b2[j] \in Blocks
    BY <1>5
  <2>2. b1[j].type = b2[j].type /\ b1[j].der = b2[j].der
    BY <1>1, <1>2, <1>3, <1>5
  <2> QED
    BY <2>1, <2>2 DEF Blocks
<1> QED
  BY <1>5, <1>6, SeqEqual

\* Two contents that are written alike are the same.
LEMMA EncodeInjective ==
  ASSUME NEW c1 \in Contents, NEW c2 \in Contents, Encode(c1) = Encode(c2)
  PROVE  c1 = c2
<1> DEFINE h1 == <<c1.format>>
           h2 == <<c2.format>>
           f1 == FlattenSeq(Pairs(c1.blocks))
           f2 == FlattenSeq(Pairs(c2.blocks))
<1>1. /\ h1 \in Seq(Words) /\ h2 \in Seq(Words) /\ f1 \in Seq(Words) /\ f2 \in Seq(Words)
      /\ Len(h1) = 1 /\ Len(h2) = 1
  <2>1. c1.format \in Words /\ c2.format \in Words /\ f1 \in Seq(Words) /\ f2 \in Seq(Words)
    BY EncodeType
  <2>2. ASSUME NEW x \in Words PROVE <<x>> \in Seq(Words) /\ Len(<<x>>) = 1
    OBVIOUS
  <2> QED
    BY <2>1, <2>2
<1>2. Encode(c1) = h1 \o f1 /\ Encode(c2) = h2 \o f2
  BY EncodeType
<1> HIDE DEF h1, h2, f1, f2
<1>3. h1 \o f1 = h2 \o f2
  BY <1>2
<1>4. h1 = h2 /\ f1 = f2
  BY <1>1, <1>3, SameLength
<1>5. c1.format = c2.format
  BY <1>4 DEF h1, h2
<1>6. c1.blocks = c2.blocks
  BY <1>4, EncodeType, PairsInjective DEF f1, f2
<1> QED
  BY <1>5, <1>6 DEF Contents

-----------------------------------------------------------------------------
(* Maps *)

\* Words that end with a separator can be told apart from the end: before the
\* last one there is nothing, or the separator of another word.
EndsWith(s, c) == s = <<>> \/ s[Len(s)] = c

\* What ends with a separator has no shorter beginning in its place, if what follows
\* that one has no separator before its last member.
LEMMA LongerRest ==
  ASSUME NEW S, NEW c \in S,
         NEW r \in Seq(S), NEW t \in Seq(S), EndsWith(r, c), Len(t) < Len(r),
         NEW v \in Seq(S), NEW w \in Seq(S), \A i \in 1 .. Len(v) - 1 : v[i] # c, Len(w) > 0
  PROVE  t \o v # r \o w
<1> DEFINE u == t \o v
           x == r \o w
<1>1. Len(u) = Len(t) + Len(v) /\ \A i \in 1 .. Len(v) : u[Len(t) + i] = v[i]
  BY ConcatParts
<1>2. Len(x) = Len(r) + Len(w) /\ \A i \in 1 .. Len(r) : x[i] = r[i]
  BY ConcatParts
<1> HIDE DEF u, x
<1> SUFFICES ASSUME u = x PROVE FALSE
  BY DEF u, x
<1>3. Len(r) \in Nat /\ Len(t) \in Nat /\ Len(v) \in Nat /\ Len(w) \in Nat
  OBVIOUS
<1>4. r[Len(r)] = c
  BY <1>3 DEF EndsWith
<1>5. Len(t) + Len(v) = Len(r) + Len(w)
  BY <1>1, <1>2
<1>6. Len(r) \in 1 .. Len(r) /\ Len(r) - Len(t) \in 1 .. Len(v) - 1
      /\ Len(t) + (Len(r) - Len(t)) = Len(r)
  BY <1>3, <1>5
<1>7. u[Len(r)] = v[Len(r) - Len(t)]
  BY <1>1, <1>3, <1>6
<1>8. x[Len(r)] = c
  BY <1>2, <1>4, <1>6
<1> QED
  BY <1>3, <1>6, <1>7, <1>8

\* The last word before a separator at the end is determined, and so is the rest.
LEMMA LastWord ==
  ASSUME NEW S, NEW c \in S,
         NEW s1 \in Seq(S), NEW s2 \in Seq(S), EndsWith(s1, c), EndsWith(s2, c),
         NEW w1 \in Seq(S \ {c}), NEW w2 \in Seq(S \ {c})
  PROVE  s1 \o (w1 \o <<c>>) = s2 \o (w2 \o <<c>>) => s1 = s2 /\ w1 = w2
<1> DEFINE v1 == w1 \o <<c>>
           v2 == w2 \o <<c>>
<1>1. ASSUME NEW w \in Seq(S \ {c})
      PROVE  /\ w \in Seq(S) /\ Len(w) \in Nat /\ w \o <<c>> \in Seq(S)
             /\ Len(w \o <<c>>) = Len(w) + 1
             /\ \A i \in 1 .. Len(w) : (w \o <<c>>)[i] # c
  <2>1. w \in Seq(S) /\ \A i \in 1 .. Len(w) : w[i] # c
    <3>1. w \in Seq(S)
      BY SeqMonotonic
    <3>2. \A i \in 1 .. Len(w) : w[i] \in S \ {c}
      BY ElementOfSeq
    <3> QED
      BY <3>1, <3>2
  <2>2. <<c>> \in Seq(S) /\ Len(<<c>>) = 1
    OBVIOUS
  <2> QED
    BY <2>1, <2>2, ConcatParts
<1>2. /\ w1 \in Seq(S) /\ Len(w1) \in Nat
      /\ v1 \in Seq(S) /\ Len(v1) = Len(w1) + 1 /\ \A i \in 1 .. Len(w1) : v1[i] # c
  BY <1>1
<1>3. /\ w2 \in Seq(S) /\ Len(w2) \in Nat
      /\ v2 \in Seq(S) /\ Len(v2) = Len(w2) + 1 /\ \A i \in 1 .. Len(w2) : v2[i] # c
  BY <1>1
<1> HIDE DEF v1, v2
<1>4. /\ Len(v1) > 0 /\ \A i \in 1 .. Len(v1) - 1 : v1[i] # c
      /\ Len(v2) > 0 /\ \A i \in 1 .. Len(v2) - 1 : v2[i] # c
  BY <1>2, <1>3
<1>5. Len(s1) < Len(s2) => s1 \o v1 # s2 \o v2
  BY <1>2, <1>3, <1>4, LongerRest
<1>6. Len(s2) < Len(s1) => s2 \o v2 # s1 \o v1
  BY <1>2, <1>3, <1>4, LongerRest
<1> SUFFICES ASSUME s1 \o v1 = s2 \o v2 PROVE s1 = s2 /\ w1 = w2
  BY DEF v1, v2
<1>7. Len(s1) = Len(s2)
  <2>1. Len(s1) \in Nat /\ Len(s2) \in Nat
    OBVIOUS
  <2> QED
    BY <1>5, <1>6, <2>1
<1>8. s1 = s2 /\ v1 = v2
  BY <1>2, <1>3, <1>7, SameLength
<1>9. Len(w1) = Len(w2) /\ <<c>> \in Seq(S)
  BY <1>2, <1>3, <1>8
<1>10. w1 = w2
  BY <1>2, <1>3, <1>8, <1>9, SameLength DEF v1, v2
<1> QED
  BY <1>8, <1>10

\* The maps that are marshalled: from target keys to contents.
Datas == UNION {[D -> Contents] : D \in SUBSET ToSet(KeyOrder)}

\* Such a map, by its parts.
LEMMA DatasType ==
  ASSUME NEW data \in Datas
  PROVE  /\ DOMAIN data \subseteq ToSet(KeyOrder)
         /\ data = [key \in DOMAIN data |-> data[key]]
         /\ \A key \in DOMAIN data : data[key] \in Contents
BY DEF Datas

\* The target keys are words.
LEMMA KeysType ==
  /\ Len(KeyOrder) \in Nat /\ DOMAIN KeyOrder = 1 .. Len(KeyOrder)
  /\ \A n \in 1 .. Len(KeyOrder) : KeyOrder[n] \in Words
BY KeyOrderAssumption

\* The field of a key that is there is a word and a comma.
Word(data, key) == <<key>> \o Encode(data[key])

\* A field, by cases.
LEMMA FieldType ==
  ASSUME NEW data \in Datas, NEW key \in Words
  PROVE  /\ key \notin DOMAIN data => Field(data, key) = <<>>
         /\ key \in DOMAIN data => /\ Word(data, key) \in Seq(Words)
                                   /\ Field(data, key) = Word(data, key) \o <<",">>
         /\ Field(data, key) \in Seq(Symbols)
<1>1. CASE key \notin DOMAIN data
  <2>1. Field(data, key) = <<>>
    BY <1>1 DEF Field
  <2> QED
    BY <2>1, <1>1, EmptySeq
<1>2. CASE key \in DOMAIN data
  <2>1. Field(data, key) = Word(data, key) \o <<",">>
    BY <1>2 DEF Field, Word
  <2>2. <<key>> \in Seq(Words) /\ Encode(data[key]) \in Seq(Words)
    <3>1. data[key] \in Contents
      BY <1>2, DatasType
    <3>2. Encode(data[key]) \in Seq(Words)
      BY <3>1, EncodeType
    <3>3. <<key>> \in Seq(Words)
      OBVIOUS
    <3> QED
      BY <3>2, <3>3
  <2>3. Word(data, key) \in Seq(Words)
    BY <2>2, ConcatProperties DEF Word
  <2>4. Word(data, key) \in Seq(Symbols) /\ <<",">> \in Seq(Symbols)
    <3>1. Words \subseteq Symbols /\ "," \in Symbols
      BY SymbolsAssumption DEF Words
    <3>2. Word(data, key) \in Seq(Symbols)
      BY <3>1, <2>3, SeqMonotonic
    <3>3. ASSUME NEW x \in Symbols PROVE <<x>> \in Seq(Symbols)
      OBVIOUS
    <3> QED
      BY <3>1, <3>2, <3>3
  <2>5. Field(data, key) \in Seq(Symbols)
    BY <2>1, <2>4, ConcatProperties
  <2> QED
    BY <2>1, <2>3, <2>5, <1>2
<1> QED
  BY <1>1, <1>2

\* A word determines its key and the content.
LEMMA WordInjective ==
  ASSUME NEW d \in Datas, NEW e \in Datas, NEW k \in Words, NEW l \in Words,
         k \in DOMAIN d, l \in DOMAIN e, Word(d, k) = Word(e, l)
  PROVE  k = l /\ d[k] = e[l]
<1> DEFINE h1 == <<k>>
           h2 == <<l>>
<1>1. h1 \in Seq(Words) /\ h2 \in Seq(Words) /\ Len(h1) = 1 /\ Len(h2) = 1
  OBVIOUS
<1>2. d[k] \in Contents /\ e[l] \in Contents
  BY DatasType
<1>3. Encode(d[k]) \in Seq(Words) /\ Encode(e[l]) \in Seq(Words)
  BY <1>2, EncodeType
<1>4. h1 \o Encode(d[k]) = h2 \o Encode(e[l])
  BY DEF Word
<1> HIDE DEF h1, h2
<1>5. h1 = h2 /\ Encode(d[k]) = Encode(e[l])
  BY <1>1, <1>3, <1>4, SameLength
<1> QED
  BY <1>2, <1>5, EncodeInjective DEF h1, h2

\* The fields of a map, of all keys and concatenated for the first n.
Fields(data) == [n \in DOMAIN KeyOrder |-> Field(data, KeyOrder[n])]

\* There is a field for every key of the order.
LEMMA FieldsType ==
  ASSUME NEW data \in Datas
  PROVE  /\ Fields(data) \in Seq(Seq(Symbols))
         /\ Len(Fields(data)) = Len(KeyOrder)
         /\ \A n \in 1 .. Len(KeyOrder) : Fields(data)[n] = Field(data, KeyOrder[n])
<1> DEFINE N == Len(KeyOrder)
<1>1. N \in Nat /\ DOMAIN KeyOrder = 1 .. N /\ \A n \in 1 .. N : Field(data, KeyOrder[n]) \in Seq(Symbols)
  BY KeysType, FieldType
<1>2. Fields(data) = [n \in 1 .. N |-> Field(data, KeyOrder[n])]
  BY <1>1, Zenon DEF Fields
<1>3. Fields(data) \in [1 .. N -> Seq(Symbols)]
  BY <1>1, <1>2, Zenon
<1>4. \A n \in 1 .. N : Fields(data)[n] = Field(data, KeyOrder[n])
  BY <1>2, Zenon
<1> HIDE DEF N
<1>5. Fields(data) \in Seq(Seq(Symbols)) /\ Len(Fields(data)) = N
  BY <1>1, <1>3
<1> QED
  BY <1>4, <1>5 DEF N

\* What the fields of the first n keys leave: nothing, or the field of the last
\* of them that is there, after those before it.
LastFieldAt(d, f, n) ==
  \/ /\ f[n] = <<>>
     /\ \A i \in 1 .. n : KeyOrder[i] \notin DOMAIN d
  \/ \E j \in 1 .. n :
       /\ KeyOrder[j] \in DOMAIN d
       /\ f[n] = f[j - 1] \o Field(d, KeyOrder[j])
       /\ \A i \in j + 1 .. n : KeyOrder[i] \notin DOMAIN d

\* Every concatenation of fields is empty or has a last field with its key.
LEMMA LastField ==
  ASSUME NEW d \in Datas,
         NEW f \in [0 .. Len(KeyOrder) -> Seq(Symbols)], IsFlattening(f, Fields(d))
  PROVE  \A n \in 0 .. Len(KeyOrder) : LastFieldAt(d, f, n)
<1> DEFINE N == Len(KeyOrder)
           T == {n \in Nat : n <= N => LastFieldAt(d, f, n)}
<1>1. N \in Nat
  BY KeysType
<1>2. 0 \in T
  BY DEF IsFlattening, LastFieldAt
<1>3. ASSUME NEW n \in Nat, n \in T PROVE n + 1 \in T
  <2> SUFFICES ASSUME n + 1 <= N PROVE LastFieldAt(d, f, n + 1)
    OBVIOUS
  <2> DEFINE m == n + 1
  <2>1. LastFieldAt(d, f, n) /\ m \in 1 .. N /\ m - 1 = n /\ n \in 0 .. N
    BY <1>1, <1>3
  <2>2. f[m] = f[m - 1] \o Field(d, KeyOrder[m])
    BY <2>1, FieldsType DEF IsFlattening
  <2>3. CASE KeyOrder[m] \in DOMAIN d
    <3>1. m \in 1 .. m /\ \A i \in m + 1 .. m : KeyOrder[i] \notin DOMAIN d
      BY <2>1
    <3> HIDE DEF m
    <3>2. LastFieldAt(d, f, m)
      BY <3>1, <2>2, <2>3, Zenon DEF LastFieldAt
    <3> QED
      BY <3>2 DEF m
  <2>4. CASE KeyOrder[m] \notin DOMAIN d
    <3>1. Field(d, KeyOrder[m]) = <<>>
      BY <2>1, <2>4, KeysType, FieldType
    <3>2. f[n] \in Seq(Symbols)
      BY <2>1
    <3>3. f[m] = f[n]
      BY <3>1, <3>2, <2>1, <2>2, ConcatEmptySeq
    <3>4. \A i \in 1 .. m : i = m \/ i \in 1 .. n
      BY <2>1
    <3>5. CASE f[n] = <<>> /\ \A i \in 1 .. n : KeyOrder[i] \notin DOMAIN d
      BY <3>3, <3>4, <3>5, <2>4 DEF LastFieldAt
    <3>6. ASSUME NEW j \in 1 .. n, KeyOrder[j] \in DOMAIN d,
                 f[n] = f[j - 1] \o Field(d, KeyOrder[j]),
                 \A i \in j + 1 .. n : KeyOrder[i] \notin DOMAIN d
          PROVE  LastFieldAt(d, f, m)
      <4>1. j \in 1 .. m /\ \A i \in j + 1 .. m : i = m \/ i \in j + 1 .. n
        BY <2>1
      <4>2. \A i \in j + 1 .. m : KeyOrder[i] \notin DOMAIN d
        BY <4>1, <3>6, <2>4
      <4>3. f[m] = f[j - 1] \o Field(d, KeyOrder[j])
        BY <3>3, <3>6
      <4> HIDE DEF m
      <4> QED
        BY <4>1, <4>2, <4>3, <3>6, Zenon DEF LastFieldAt
    <3> QED
      BY <2>1, <3>5, <3>6 DEF LastFieldAt
  <2> QED
    BY <2>3, <2>4
<1>4. Nat \subseteq T
  <2> HIDE DEF T
  <2> QED
    BY <1>2, <1>3, SetInduction
<1> QED
  BY <1>1, <1>4

\* What ends with a word and a separator is not empty and ends with it.
LEMMA SeparatorLast ==
  ASSUME NEW S, NEW c \in S, NEW r \in Seq(S), NEW w \in Seq(S)
  PROVE  r \o (w \o <<c>>) # <<>> /\ EndsWith(r \o (w \o <<c>>), c)
<1> DEFINE t == <<c>>
           v == w \o t
           u == r \o v
<1>1. t \in Seq(S) /\ Len(t) = 1 /\ t[1] = c
  OBVIOUS
<1> HIDE DEF t
<1>0. ASSUME NEW p \in Seq(S), NEW q \in Seq(S)
      PROVE  /\ p \o q \in Seq(S) /\ Len(p \o q) = Len(p) + Len(q)
             /\ \A i \in 1 .. Len(q) : (p \o q)[Len(p) + i] = q[i]
  BY ConcatParts
<1>2. v \in Seq(S) /\ Len(v) = Len(w) + 1 /\ v[Len(w) + 1] = c
  <2>1. v \in Seq(S) /\ Len(v) = Len(w) + Len(t) /\ \A i \in 1 .. Len(t) : v[Len(w) + i] = t[i]
    <3>1. t \in Seq(S)
      BY <1>1
    <3> QED
      BY <3>1, <1>0, Zenon
  <2> HIDE DEF v
  <2> QED
    BY <1>1, <2>1
<1> HIDE DEF v
<1>3. Len(w) \in Nat /\ Len(r) \in Nat
  OBVIOUS
<1>4. /\ u \in Seq(S) /\ Len(u) = Len(r) + Len(v)
      /\ \A i \in 1 .. Len(v) : u[Len(r) + i] = v[i]
  <2>1. v \in Seq(S)
    BY <1>2
  <2> QED
    BY <2>1, <1>0, Zenon
<1> HIDE DEF u
<1>5. Len(v) \in 1 .. Len(v)
  BY <1>2, <1>3
<1>6. u[Len(u)] = c
  BY <1>2, <1>4, <1>5
<1>7. u # <<>>
  <2>1. Len(u) # 0
    BY <1>2, <1>3, <1>4
  <2> QED
    BY <2>1
<1> QED
  BY <1>6, <1>7 DEF EndsWith, u, v, t

\* Fields end with a comma.
LEMMA FieldsEnd ==
  ASSUME NEW d \in Datas,
         NEW f \in [0 .. Len(KeyOrder) -> Seq(Symbols)], IsFlattening(f, Fields(d)),
         NEW n \in 0 .. Len(KeyOrder)
  PROVE  EndsWith(f[n], ",")
<1>1. LastFieldAt(d, f, n)
  BY LastField
<1>2. CASE f[n] = <<>>
  BY <1>2 DEF EndsWith
<1>3. ASSUME NEW j \in 1 .. n, KeyOrder[j] \in DOMAIN d,
             f[n] = f[j - 1] \o Field(d, KeyOrder[j])
      PROVE  EndsWith(f[n], ",")
  <2> DEFINE r == f[j - 1]
             w == Word(d, KeyOrder[j])
  <2>1. j - 1 \in 0 .. Len(KeyOrder) /\ j \in 1 .. Len(KeyOrder)
    BY KeysType
  <2>2. r \in Seq(Symbols)
    BY <2>1
  <2>3. w \in Seq(Words) /\ Field(d, KeyOrder[j]) = w \o <<",">>
    BY <2>1, <1>3, KeysType, FieldType
  <2>4. w \in Seq(Symbols) /\ "," \in Symbols
    <3>1. Words \subseteq Symbols /\ "," \in Symbols
      BY SymbolsAssumption DEF Words
    <3> QED
      BY <3>1, <2>3, SeqMonotonic
  <2>5. f[n] = r \o (w \o <<",">>)
    BY <2>3, <1>3
  <2> HIDE DEF r, w
  <2> QED
    BY <2>2, <2>4, <2>5, SeparatorLast
<1> QED
  BY <1>1, <1>2, <1>3 DEF LastFieldAt

\* Equal fields of two maps come from equal entries.
SameEntries(d, e, n) ==
  \A i \in 1 .. n : KeyOrder[i] \in DOMAIN d =>
                      KeyOrder[i] \in DOMAIN e /\ d[KeyOrder[i]] = e[KeyOrder[i]]

\* Equal concatenations come from equal entries, by induction from the last one.
LEMMA FieldsApart ==
  ASSUME NEW d \in Datas, NEW e \in Datas,
         NEW f \in [0 .. Len(KeyOrder) -> Seq(Symbols)], IsFlattening(f, Fields(d)),
         NEW g \in [0 .. Len(KeyOrder) -> Seq(Symbols)], IsFlattening(g, Fields(e))
  PROVE  \A n, m \in 0 .. Len(KeyOrder) : f[n] = g[m] => SameEntries(d, e, n)
<1> DEFINE N == Len(KeyOrder)
           P(n) == \A m \in 0 .. N : f[n] = g[m] => SameEntries(d, e, n)
           T == {n \in Nat : \A k \in 0 .. n : k <= N => P(k)}
<1>1. N \in Nat
  BY KeysType
<1>2. ASSUME NEW n \in 0 .. N, \A k \in 0 .. n - 1 : P(k) PROVE P(n)
  <2> SUFFICES ASSUME NEW m \in 0 .. N, f[n] = g[m] PROVE SameEntries(d, e, n)
    OBVIOUS
  <2>1. LastFieldAt(d, f, n) /\ LastFieldAt(e, g, m)
    BY LastField
  <2>2. CASE \A i \in 1 .. n : KeyOrder[i] \notin DOMAIN d
    BY <2>2 DEF SameEntries
  <2>3. ASSUME NEW j \in 1 .. n, KeyOrder[j] \in DOMAIN d,
               f[n] = f[j - 1] \o Field(d, KeyOrder[j]),
               \A i \in j + 1 .. n : KeyOrder[i] \notin DOMAIN d
        PROVE  SameEntries(d, e, n)
    <3> DEFINE r == f[j - 1]
               w == Word(d, KeyOrder[j])
    <3>1. j \in 1 .. N /\ j - 1 \in 0 .. N /\ j - 1 \in 0 .. n - 1
      BY <1>1
    <3>2. /\ r \in Seq(Symbols) /\ EndsWith(r, ",") /\ w \in Seq(Words)
          /\ f[n] = r \o (w \o <<",">>)
      BY <2>3, <3>1, FieldsEnd, KeysType, FieldType
    <3>3. ASSUME NEW l \in 1 .. m, KeyOrder[l] \in DOMAIN e,
                 g[m] = g[l - 1] \o Field(e, KeyOrder[l])
          PROVE  SameEntries(d, e, n)
      <4> DEFINE s == g[l - 1]
                 v == Word(e, KeyOrder[l])
      <4>1. l \in 1 .. N /\ l - 1 \in 0 .. N
        BY <1>1
      <4>2. /\ s \in Seq(Symbols) /\ EndsWith(s, ",") /\ v \in Seq(Words)
            /\ g[m] = s \o (v \o <<",">>)
        BY <3>3, <4>1, FieldsEnd, KeysType, FieldType
      <4>3. r = s /\ w = v
        <5>1. r \o (w \o <<",">>) = s \o (v \o <<",">>)
          BY <3>2, <4>2
        <5> HIDE DEF r, w, s, v
        <5>2. "," \in Symbols /\ Words = Symbols \ {","}
          BY SymbolsAssumption DEF Words
        <5>3. w \in Seq(Symbols \ {","}) /\ v \in Seq(Symbols \ {","})
          BY <3>2, <4>2, <5>2
        <5>4. r \in Seq(Symbols) /\ s \in Seq(Symbols) /\ EndsWith(r, ",") /\ EndsWith(s, ",")
          BY <3>2, <4>2
        <5>5. r \o (w \o <<",">>) = s \o (v \o <<",">>) => r = s /\ w = v
          BY <5>2, <5>3, <5>4, LastWord, Zenon
        <5> QED
          BY <5>1, <5>5
      <4>4. KeyOrder[j] = KeyOrder[l] /\ d[KeyOrder[j]] = e[KeyOrder[l]]
        BY <4>3, <2>3, <3>3, <3>1, <4>1, KeysType, WordInjective
      <4>5. SameEntries(d, e, j - 1)
        BY <3>1, <4>1, <4>3, <1>2
      <4>6. \A i \in 1 .. n : i \in 1 .. j - 1 \/ i = j \/ i \in j + 1 .. n
        BY <1>1
      <4> QED
        BY <4>4, <4>5, <4>6, <2>3, <3>3 DEF SameEntries
    <3>4. g[m] # <<>>
      <4> HIDE DEF r, w
      <4>1. w \in Seq(Symbols) /\ "," \in Symbols
        <5>1. Words \subseteq Symbols /\ "," \in Symbols
          BY SymbolsAssumption DEF Words
        <5> QED
          BY <5>1, <3>2, SeqMonotonic
      <4> QED
        BY <4>1, <3>2, SeparatorLast
    <3> QED
      BY <2>1, <3>3, <3>4 DEF LastFieldAt
  <2> QED
    BY <2>1, <2>2, <2>3 DEF LastFieldAt
<1> HIDE DEF P
<1>3. 0 \in T
  <2>1. 0 \in 0 .. N /\ \A k \in 0 .. 0 - 1 : P(k)
    BY <1>1
  <2>2. P(0)
    BY <2>1, <1>2
  <2> QED
    BY <2>2
<1>4. ASSUME NEW n \in Nat, n \in T PROVE n + 1 \in T
  <2>1. \A k \in 0 .. n : k <= N => P(k)
    BY <1>4
  <2>2. n + 1 <= N => P(n + 1)
    <3> SUFFICES ASSUME n + 1 <= N PROVE P(n + 1)
      OBVIOUS
    <3>1. n + 1 \in 0 .. N /\ \A k \in 0 .. (n + 1) - 1 : k \in 0 .. n /\ k <= N
      BY <1>1
    <3>2. \A k \in 0 .. (n + 1) - 1 : P(k)
      BY <2>1, <3>1
    <3> QED
      BY <3>1, <3>2, <1>2
  <2>3. \A k \in 0 .. n + 1 : k \in 0 .. n \/ k = n + 1
    OBVIOUS
  <2> QED
    BY <2>1, <2>2, <2>3
<1>5. Nat \subseteq T
  <2> HIDE DEF T
  <2> QED
    BY <1>3, <1>4, SetInduction
<1>6. ASSUME NEW n \in 0 .. N PROVE P(n)
  <2>1. n \in Nat /\ n \in 0 .. n /\ n <= N
    BY <1>1
  <2>2. n \in T
    BY <2>1, <1>5
  <2> QED
    BY <2>1, <2>2
<1> QED
  BY <1>6 DEF P

\* json.Marshal tells two maps apart.
LEMMA MarshalType ==
  ASSUME NEW data \in Datas
  PROVE  /\ FlattenSeq(Fields(data)) \in Seq(Symbols)
         /\ Marshal(data) = <<"{">> \o FlattenSeq(Fields(data)) \o <<"}">>
         /\ Marshal(data) \in Seq(Symbols)
<1>1. FlattenSeq(Fields(data)) \in Seq(Symbols)
  <2>1. PICK f \in [0 .. Len(Fields(data)) -> Seq(Symbols)] :
          IsFlattening(f, Fields(data)) /\ FlattenSeq(Fields(data)) = f[Len(Fields(data))]
    BY FieldsType, Flattening
  <2>2. Len(Fields(data)) \in 0 .. Len(Fields(data))
    BY FieldsType, KeysType
  <2> QED
    BY <2>1, <2>2
<1>2. Marshal(data) = <<"{">> \o FlattenSeq(Fields(data)) \o <<"}">>
  BY DEF Marshal, Fields
<1>3. "{" \in Symbols /\ "}" \in Symbols
  BY SymbolsAssumption
<1>4. ASSUME NEW x \in Symbols, NEW y \in Symbols, NEW s \in Seq(Symbols)
      PROVE  <<x>> \o s \o <<y>> \in Seq(Symbols)
  OBVIOUS
<1>5. <<"{">> \o FlattenSeq(Fields(data)) \o <<"}">> \in Seq(Symbols)
  BY <1>1, <1>3, <1>4
<1> QED
  BY <1>1, <1>2, <1>5

\* What stands between two brackets is determined.
LEMMA Bracketed ==
  ASSUME NEW S, NEW x \in S, NEW y \in S, NEW s1 \in Seq(S), NEW s2 \in Seq(S)
  PROVE  <<x>> \o s1 \o <<y>> = <<x>> \o s2 \o <<y>> => s1 = s2
<1> DEFINE h == <<x>>
           t == <<y>>
           r1 == h \o s1
           r2 == h \o s2
<1>1. h \in Seq(S) /\ t \in Seq(S)
  OBVIOUS
<1>2. r1 \in Seq(S) /\ r2 \in Seq(S)
  BY ConcatParts
<1> HIDE DEF h, t
<1>3. r1 = r2 => s1 = s2
  BY <1>1, SameLength
<1> HIDE DEF r1, r2
<1>4. r1 \o t = r2 \o t => r1 = r2
  <2>1. Len(r1 \o t) = Len(r1) + Len(t) /\ Len(r2 \o t) = Len(r2) + Len(t)
    BY <1>1, <1>2, ConcatParts
  <2>2. Len(r1) \in Nat /\ Len(r2) \in Nat /\ Len(t) \in Nat
    BY <1>1, <1>2
  <2>3. Len(r1 \o t) = Len(r2 \o t) => Len(r1) = Len(r2)
    BY <2>1, <2>2
  <2>4. Len(r1) = Len(r2) /\ r1 \o t = r2 \o t => r1 = r2
    BY <1>1, <1>2, SameLength
  <2> QED
    BY <2>3, <2>4
<1> QED
  BY <1>3, <1>4 DEF r1, r2, h, t

\* Two maps with the same JSON are the same.
LEMMA MarshalInjective ==
  ASSUME NEW d \in Datas, NEW e \in Datas, Marshal(d) = Marshal(e)
  PROVE  d = e
<1> DEFINE N == Len(KeyOrder)
<1>1. PICK f \in [0 .. N -> Seq(Symbols)] :
        IsFlattening(f, Fields(d)) /\ FlattenSeq(Fields(d)) = f[N]
  <2>1. \E f \in [0 .. Len(Fields(d)) -> Seq(Symbols)] :
          IsFlattening(f, Fields(d)) /\ FlattenSeq(Fields(d)) = f[Len(Fields(d))]
    BY FieldsType, Flattening
  <2> QED
    BY <2>1, FieldsType
<1>2. PICK g \in [0 .. N -> Seq(Symbols)] :
        IsFlattening(g, Fields(e)) /\ FlattenSeq(Fields(e)) = g[N]
  <2>1. \E g \in [0 .. Len(Fields(e)) -> Seq(Symbols)] :
          IsFlattening(g, Fields(e)) /\ FlattenSeq(Fields(e)) = g[Len(Fields(e))]
    BY FieldsType, Flattening
  <2> QED
    BY <2>1, FieldsType
<1>3. f[N] = g[N]
  <2>1. "{" \in Symbols /\ "}" \in Symbols
    BY SymbolsAssumption
  <2>2. <<"{">> \o FlattenSeq(Fields(d)) \o <<"}">> = <<"{">> \o FlattenSeq(Fields(e)) \o <<"}">>
    BY MarshalType
  <2>3. FlattenSeq(Fields(d)) \in Seq(Symbols) /\ FlattenSeq(Fields(e)) \in Seq(Symbols)
    BY MarshalType
  <2>4. FlattenSeq(Fields(d)) = FlattenSeq(Fields(e))
    BY <2>1, <2>2, <2>3, Bracketed
  <2> QED
    BY <2>4, <1>1, <1>2
<1>4. N \in 0 .. N
  BY KeysType
<1>5. SameEntries(d, e, N) /\ SameEntries(e, d, N)
  BY <1>1, <1>2, <1>3, <1>4, FieldsApart
<1>6. \A key \in DOMAIN d : key \in DOMAIN e /\ d[key] = e[key]
  BY <1>5, DatasType, KeysType DEF SameEntries, ToSet
<1>7. \A key \in DOMAIN e : key \in DOMAIN d
  BY <1>5, DatasType, KeysType DEF SameEntries, ToSet
<1>8. DOMAIN d = DOMAIN e
  BY <1>6, <1>7
<1> QED
  BY <1>6, <1>8, DatasType

-----------------------------------------------------------------------------
(* The bytes that are hashed *)

\* UID and generation of the two objects.
Ids == [spcUID : UIDs, spcGeneration : Nat, ssUID : UIDs, ssGeneration : Nat]

\* A decimal number has neither colons nor bars.
LEMMA ItoaType ==
  ASSUME NEW n \in Nat
  PROVE  /\ Itoa(n) \in Seq(Symbols)
         /\ Itoa(n) \in Seq(Symbols \ {":"})
         /\ Itoa(n) \in Seq(Symbols \ {"|"})
<1>1. Itoa(n) \in Seq(Digits)
  BY ItoaRecursion
<1>2. Digits \subseteq Symbols
  <2>1. ToSet(Digit) \subseteq Symbols
    BY SymbolsAssumption
  <2>2. DOMAIN Digit = 1 .. 10
    BY DEF Digit
  <2>3. \A k \in 1 .. 10 : Digit[k] \in Symbols
    BY <2>1, <2>2 DEF ToSet
  <2>4. \A d \in Digits : \E k \in 1 .. 10 : d = Digit[k]
    BY DEF Digits, Digit
  <2> QED
    BY <2>3, <2>4
<1>3. \A d \in Digits : d # ":" /\ d # "|"
  BY DEF Digits
<1> HIDE DEF Digits
<1>4. Digits \subseteq Symbols \ {":"} /\ Digits \subseteq Symbols \ {"|"}
  BY <1>2, <1>3
<1> QED
  BY <1>1, <1>2, <1>4, SeqMonotonic

\* A first part without the separator is determined, and so is the rest.
LEMMA NumberFirst ==
  ASSUME NEW c \in Symbols, NEW p \in Seq(Symbols \ {c}), NEW q \in Seq(Symbols \ {c}),
         NEW s \in Seq(Symbols), NEW t \in Seq(Symbols)
  PROVE  p \o <<c>> \o s = q \o <<c>> \o t => p = q /\ s = t
BY FirstSeparator, Zenon

\* Joined parts are a text.
LEMMA JoinType ==
  ASSUME NEW first \in Seq(Symbols), NEW others \in Seq(Symbols)
  PROVE  Join(first, others) \in Seq(Symbols)
<1>1. "|" \in Symbols
  BY SymbolsAssumption
<1>2. ASSUME NEW x \in Symbols PROVE first \o <<x>> \o others \in Seq(Symbols)
  OBVIOUS
<1> QED
  BY <1>1, <1>2 DEF Join

\* A first part is told from the others by its length, as a UID, or by its
\* characters, as a number.
LEMMA JoinUID ==
  ASSUME NEW u \in UIDs, NEW v \in UIDs, NEW s \in Seq(Symbols), NEW t \in Seq(Symbols)
  PROVE  Join(u, s) = Join(v, t) => u = v /\ s = t
<1> DEFINE bar == <<"|">>
           p == u \o bar
           q == v \o bar
<1>1. bar \in Seq(Symbols)
  <2>1. "|" \in Symbols
    BY SymbolsAssumption
  <2>2. ASSUME NEW x \in Symbols PROVE <<x>> \in Seq(Symbols)
    OBVIOUS
  <2> QED
    BY <2>1, <2>2
<1>2. u \in Seq(Symbols) /\ v \in Seq(Symbols) /\ Len(u) = Len(v)
  BY IdsAssumption
<1> HIDE DEF bar
<1>3. p = q => u = v
  BY <1>1, <1>2, SameLength
<1>4. p \in Seq(Symbols) /\ q \in Seq(Symbols)
      /\ Len(p) = Len(u) + Len(bar) /\ Len(q) = Len(v) + Len(bar)
  BY <1>1, <1>2, ConcatParts
<1> HIDE DEF p, q
<1>5. Len(p) = Len(q)
  BY <1>2, <1>4
<1>6. p \o s = q \o t => p = q /\ s = t
  BY <1>4, <1>5, SameLength
<1> QED
  BY <1>3, <1>6 DEF Join, p, q, bar

\* A number that is joined with the rest is determined.
LEMMA JoinItoa ==
  ASSUME NEW n \in Nat, NEW m \in Nat, NEW s \in Seq(Symbols), NEW t \in Seq(Symbols)
  PROVE  Join(Itoa(n), s) = Join(Itoa(m), t) => n = m /\ s = t
<1> DEFINE p == Itoa(n)
           q == Itoa(m)
           bar == "|"
<1>1. p \in Seq(Symbols \ {bar}) /\ q \in Seq(Symbols \ {bar})
  BY ItoaType
<1>2. bar \in Symbols
  BY SymbolsAssumption
<1>3. p = q => n = m
  BY ItoaInjective
<1>4. Join(p, s) = p \o <<bar>> \o s /\ Join(q, t) = q \o <<bar>> \o t
  BY DEF Join
<1> HIDE DEF p, q, bar
<1>5. p \o <<bar>> \o s = q \o <<bar>> \o t => p = q /\ s = t
  BY <1>1, <1>2, NumberFirst, ZenonT(40)
<1>6. Join(p, s) = Join(q, t) => p = q /\ s = t
  BY <1>4, <1>5, Zenon
<1> QED
  BY <1>3, <1>6 DEF p, q

\* The parts behind the JSON: the objects and spec.force.
ToHash(force, id) ==
  Join(id.spcUID, Join(Itoa(id.spcGeneration), Join(id.ssUID, Join(Itoa(id.ssGeneration), force))))

\* The parts behind the JSON, and what they are joined from, are texts.
LEMMA ToHashType ==
  ASSUME NEW force \in Seq(Symbols), NEW id \in Ids
  PROVE  /\ id.spcUID \in UIDs /\ id.ssUID \in UIDs
         /\ id.spcGeneration \in Nat /\ id.ssGeneration \in Nat
         /\ Join(Itoa(id.ssGeneration), force) \in Seq(Symbols)
         /\ Join(id.ssUID, Join(Itoa(id.ssGeneration), force)) \in Seq(Symbols)
         /\ Join(Itoa(id.spcGeneration), Join(id.ssUID, Join(Itoa(id.ssGeneration), force)))
              \in Seq(Symbols)
         /\ ToHash(force, id) \in Seq(Symbols)
<1>1. /\ id.spcUID \in UIDs /\ id.ssUID \in UIDs
      /\ id.spcGeneration \in Nat /\ id.ssGeneration \in Nat
  BY DEF Ids
<1>2. id.spcUID \in Seq(Symbols) /\ id.ssUID \in Seq(Symbols)
  BY <1>1, IdsAssumption
<1>3. Itoa(id.spcGeneration) \in Seq(Symbols) /\ Itoa(id.ssGeneration) \in Seq(Symbols)
  BY <1>1, ItoaType
<1>4. Join(Itoa(id.ssGeneration), force) \in Seq(Symbols)
  BY <1>3, JoinType
<1>5. Join(id.ssUID, Join(Itoa(id.ssGeneration), force)) \in Seq(Symbols)
  BY <1>2, <1>4, JoinType
<1>6. Join(Itoa(id.spcGeneration), Join(id.ssUID, Join(Itoa(id.ssGeneration), force)))
        \in Seq(Symbols)
  BY <1>3, <1>5, JoinType
<1>7. ToHash(force, id) \in Seq(Symbols)
  BY <1>2, <1>6, JoinType DEF ToHash
<1> QED
  BY <1>1, <1>4, <1>5, <1>6, <1>7

\* They determine the objects and spec.force.
LEMMA ToHashInjective ==
  ASSUME NEW f \in Seq(Symbols), NEW g \in Seq(Symbols), NEW i \in Ids, NEW j \in Ids,
         ToHash(f, i) = ToHash(g, j)
  PROVE  f = g /\ i = j
<1> DEFINE a1 == Join(Itoa(i.ssGeneration), f)
           a2 == Join(Itoa(j.ssGeneration), g)
           b1 == Join(i.ssUID, a1)
           b2 == Join(j.ssUID, a2)
           c1 == Join(Itoa(i.spcGeneration), b1)
           c2 == Join(Itoa(j.spcGeneration), b2)
<1>1. /\ a1 \in Seq(Symbols) /\ b1 \in Seq(Symbols) /\ c1 \in Seq(Symbols)
      /\ a2 \in Seq(Symbols) /\ b2 \in Seq(Symbols) /\ c2 \in Seq(Symbols)
  BY ToHashType
<1>2. /\ i.spcUID \in UIDs /\ i.ssUID \in UIDs /\ i.spcGeneration \in Nat /\ i.ssGeneration \in Nat
      /\ j.spcUID \in UIDs /\ j.ssUID \in UIDs /\ j.spcGeneration \in Nat /\ j.ssGeneration \in Nat
  BY ToHashType
<1>3. a1 = a2 => i.ssGeneration = j.ssGeneration /\ f = g
  BY <1>2, JoinItoa
<1>4. Join(i.spcUID, c1) = Join(j.spcUID, c2)
  BY DEF ToHash
<1> HIDE DEF a1, a2
<1>5. b1 = b2 => i.ssUID = j.ssUID /\ a1 = a2
  BY <1>1, <1>2, JoinUID
<1> HIDE DEF b1, b2
<1>6. c1 = c2 => i.spcGeneration = j.spcGeneration /\ b1 = b2
  BY <1>1, <1>2, JoinItoa
<1> HIDE DEF c1, c2
<1>7. i.spcUID = j.spcUID /\ c1 = c2
  BY <1>1, <1>2, <1>4, JoinUID
<1>8. /\ i.spcUID = j.spcUID /\ i.spcGeneration = j.spcGeneration
      /\ i.ssUID = j.ssUID /\ i.ssGeneration = j.ssGeneration /\ f = g
  BY <1>3, <1>5, <1>6, <1>7
<1> QED
  BY <1>8 DEF Ids

\* Two inputs of the hash are equal only if the data, spec.force, and UID and
\* generation of both objects are: the length before the JSON says where it ends.
LEMMA HashInputInjective ==
  ASSUME NEW d \in Datas, NEW e \in Datas, NEW f \in Seq(Symbols), NEW g \in Seq(Symbols),
         NEW i \in Ids, NEW j \in Ids, HashInput(d, f, i) = HashInput(e, g, j)
  PROVE  d = e /\ f = g /\ i = j
<1> DEFINE m1 == Marshal(d)
           m2 == Marshal(e)
           h1 == ToHash(f, i)
           h2 == ToHash(g, j)
           colon == ":"
<1>1. m1 \in Seq(Symbols) /\ m2 \in Seq(Symbols) /\ h1 \in Seq(Symbols) /\ h2 \in Seq(Symbols)
  BY MarshalType, ToHashType
<1>2. Itoa(Len(m1)) \o <<colon>> \o (m1 \o h1) = Itoa(Len(m2)) \o <<colon>> \o (m2 \o h2)
  BY DEF HashInput, ToHash
<1>3. colon \in Symbols
  BY SymbolsAssumption
<1>4. m1 = m2 => d = e
  BY MarshalInjective
<1>5. h1 = h2 => f = g /\ i = j
  BY ToHashInjective
<1> HIDE DEF m1, m2, h1, h2
<1> DEFINE n1 == Itoa(Len(m1))
           n2 == Itoa(Len(m2))
           t1 == m1 \o h1
           t2 == m2 \o h2
<1>6. Len(m1) \in Nat /\ Len(m2) \in Nat
  BY <1>1
<1>7. n1 \in Seq(Symbols \ {colon}) /\ n2 \in Seq(Symbols \ {colon})
  BY <1>6, ItoaType
<1>8. t1 \in Seq(Symbols) /\ t2 \in Seq(Symbols)
  BY <1>1, ConcatParts
<1>9. Len(m1) = Len(m2) /\ t1 = t2 => m1 = m2 /\ h1 = h2
  BY <1>1, SameLength
<1>10. n1 = n2 => Len(m1) = Len(m2)
  BY <1>6, ItoaInjective
<1> HIDE DEF n1, n2, t1, t2, colon
<1>11. n1 \o <<colon>> \o t1 = n2 \o <<colon>> \o t2 => n1 = n2 /\ t1 = t2
  BY <1>3, <1>7, <1>8, NumberFirst
<1>12. n1 \o <<colon>> \o t1 = n2 \o <<colon>> \o t2
  BY <1>2, Zenon DEF n1, n2, t1, t2
<1> QED
  BY <1>4, <1>5, <1>9, <1>10, <1>11, <1>12

\* What is hashed is never empty.
LEMMA HashInputNotEmpty ==
  ASSUME NEW d \in Datas, NEW f \in Seq(Symbols), NEW i \in Ids
  PROVE  HashInput(d, f, i) # <<>>
<1> DEFINE n == Itoa(Len(Marshal(d)))
           t == Marshal(d) \o ToHash(f, i)
<1>1. Marshal(d) \in Seq(Symbols) /\ ToHash(f, i) \in Seq(Symbols)
  BY MarshalType, ToHashType
<1>2. t \in Seq(Symbols)
  BY <1>1, ConcatParts
<1>3. n \in Seq(Symbols)
  <2>1. Len(Marshal(d)) \in Nat
    BY <1>1
  <2> QED
    BY <2>1, ItoaType
<1>4. HashInput(d, f, i) = n \o <<":">> \o t
  BY DEF HashInput, ToHash
<1> HIDE DEF n, t
<1>5. ":" \in Symbols
  BY SymbolsAssumption
<1>6. ASSUME NEW x \in Symbols PROVE n \o <<x>> \o t # <<>>
  <2>1. Len(n \o <<x>> \o t) = Len(n) + 1 + Len(t) /\ Len(n) \in Nat /\ Len(t) \in Nat
    BY <1>2, <1>3
  <2>2. Len(n \o <<x>> \o t) # 0
    BY <2>1
  <2> QED
    BY <2>2
<1> QED
  BY <1>4, <1>5, <1>6

-----------------------------------------------------------------------------
(* The fetch *)

\* A part of a file is a content.
LEMMA PartType ==
  ASSUME NEW content, Labelled(content), NEW key, Part(content, key) # Error
  PROVE  Part(content, key) \in Contents
<1>0. content \in Contents
  BY DEF Labelled
<1>1. ASSUME NEW block \in Blocks PROVE PEM(<<block>>) \in Contents
  <2>1. <<block>> \in Seq(Blocks)
    OBVIOUS
  <2> QED
    BY <2>1 DEF PEM, Contents
<1>2. ASSUME getCert(content) # Error PROVE getCert(content) \in Contents
  <2> DEFINE C == {b \in Blocks : IsCert(b) /\ \E n \in DOMAIN content.blocks : b = content.blocks[n]}
  <2>1. content.format = "pfx" \/ ToPEM(content) = Error
    BY DEF ToPEM
  <2>2. getCert(content) = PEM(Certs(content.blocks))
    BY <1>2, <2>1 DEF getCert, ToPEM
  <2>3. content.blocks \in Seq(Blocks)
    BY <1>0 DEF Contents
  <2>4. Certs(content.blocks) \in Seq(C)
    BY <2>3, CertsAreCerts
  <2>5. C \subseteq Blocks
    OBVIOUS
  <2> HIDE DEF C
  <2>6. Certs(content.blocks) \in Seq(Blocks)
    BY <2>4, <2>5, SeqMonotonic
  <2> QED
    BY <2>2, <2>6 DEF PEM, Contents
<1>3. ASSUME getPrivateKey(content) # Error PROVE getPrivateKey(content) \in Contents
  <2>1. \/ getPrivateKey(content) = PEM(<<[type |-> privateKeyTypeRSA, der |-> "PKCS1 RSA"]>>)
        \/ getPrivateKey(content) = PEM(<<[type |-> privateKeyTypeEC, der |-> "SEC1 EC"]>>)
        \/ getPrivateKey(content) = PEM(<<[type |-> privateKeyType, der |-> ""]>>)
    BY <1>3 DEF getPrivateKey
  <2>2. /\ privateKeyTypeRSA \in Words /\ "PKCS1 RSA" \in Words
        /\ privateKeyTypeEC \in Words /\ "SEC1 EC" \in Words
        /\ privateKeyType \in Words /\ "" \in Words
    BY SymbolsAssumption DEF Words, privateKeyTypeRSA, privateKeyTypeEC, privateKeyType
  <2>3. \A type, der \in Words : [type |-> type, der |-> der] \in Blocks
    BY DEF Blocks
  <2>4. /\ [type |-> privateKeyTypeRSA, der |-> "PKCS1 RSA"] \in Blocks
        /\ [type |-> privateKeyTypeEC, der |-> "SEC1 EC"] \in Blocks
        /\ [type |-> privateKeyType, der |-> ""] \in Blocks
    BY <2>2, <2>3, Zenon
  <2> QED
    BY <2>1, <2>4, <1>1, Zenon
<1> QED
  BY <1>0, <1>2, <1>3 DEF Part, GetCertPart, TLSPrivateKeyKey, TLSCertKey

\* What was hashed is the bytes of the data, spec.force and the objects that the
\* last sync found.
HashInv ==
  /\ ids \in Ids
  /\ datamap \in Datas
  /\ \/ synced = <<>> /\ syncHash = <<>>
     \/ \E d \in Datas, f \in Seq(Symbols), i \in Ids :
          synced = <<d, f, i>> /\ syncHash = HashInput(d, f, i)

\* The empty map is one of the maps.
LEMMA NoDataType == NoData \in Datas
<1>1. {} \in SUBSET ToSet(KeyOrder) /\ NoData \in [{} -> Contents]
  BY DEF NoData
<1> QED
  BY <1>1 DEF Datas

\* HashInv holds before the first fetch.
LEMMA HashInit == Init => HashInv
<1> SUFFICES ASSUME Init PROVE HashInv
  OBVIOUS
<1>1. ids \in Ids
  BY DEF Init, Ids
<1> QED
  BY <1>1, NoDataType DEF Init, HashInv

\* Every step preserves HashInv.
LEMMA HashStep == DataInv /\ HashInv /\ [Next]_vars => HashInv'
<1> SUFFICES ASSUME DataInv, HashInv, [Next]_vars PROVE HashInv'
  OBVIOUS
<1>1. NoData \in Datas /\ ids \in Ids /\ datamap \in Datas
  BY NoDataType DEF HashInv
<1>2. CASE MountFails
  BY <1>1, <1>2 DEF HashInv, MountFails, Fail, inputs
<1>3. CASE MountContent
  BY <1>1, <1>3 DEF HashInv, MountContent, inputs
<1>4. CASE FileMissing
  BY <1>1, <1>4 DEF HashInv, FileMissing, Fail, inputs
<1>5. CASE PartFails
  BY <1>1, <1>5 DEF HashInv, PartFails, Fail, inputs
<1>6. CASE BuildEntry
  <2> DEFINE part == Part(files[Entry.sourcePath], Entry.targetKey)
             key == Entry.targetKey
  <2>1. /\ part # Error /\ Entry.sourcePath \in DOMAIN files
        /\ datamap' = [k \in DOMAIN datamap \cup {key} |-> IF k = key THEN part ELSE datamap[k]]
        /\ UNCHANGED <<ids, synced, syncHash>>
    BY <1>6 DEF BuildEntry, inputs
  <2>2. part \in Contents
    BY <1>6, <2>1, PartType DEF DataInv, FilesOK, BuildEntry, Building
  <2>3. key \in ToSet(KeyOrder)
    <3>1. spec \in Specs /\ next \in DOMAIN spec.data
      <4>1. spec \in Specs /\ next \in 1 .. Len(spec.data) + 1 /\ next <= Len(spec.data)
        BY <1>6 DEF DataInv, BuiltOK, BuildEntry, Building
      <4> QED
        BY <4>1, SpecTypes
    <3> QED
      BY <3>1, KeyOrderAssumption DEF Entry
  <2> HIDE DEF part, key
  <2>4. DOMAIN datamap \subseteq ToSet(KeyOrder) /\ \A k \in DOMAIN datamap : datamap[k] \in Contents
    BY <1>1, DatasType
  <2>5. datamap' \in [DOMAIN datamap \cup {key} -> Contents]
    BY <2>1, <2>2, <2>4
  <2>6. datamap' \in Datas
    BY <2>3, <2>4, <2>5 DEF Datas
  <2> QED
    BY <1>1, <2>1, <2>6 DEF HashInv
<1>7. CASE Sync
  <2>1. spec.force \in Seq(Symbols)
    BY SpecsAssumption DEF DataInv
  <2>2. /\ synced' = <<datamap, spec.force, ids>> /\ syncHash' = HashInput(datamap, spec.force, ids)
        /\ ids' = ids /\ datamap' = datamap
    BY <1>7 DEF Sync, inputs
  <2>3. \E d \in Datas, f \in Seq(Symbols), i \in Ids :
          synced' = <<d, f, i>> /\ syncHash' = HashInput(d, f, i)
    BY <1>1, <2>1, <2>2, Zenon
  <2>4. syncHash' = HashInput(datamap, spec.force, ids)
    BY <2>2
  <2> QED
    BY <1>1, <2>2, <2>3 DEF HashInv
<1>8. CASE RotateFiles
  BY <1>1, <1>8 DEF HashInv, RotateFiles, Change
<1>9. CASE EditSecretSync
  <2>1. ids' \in Ids
    BY <1>1, <1>9, IdsAssumption DEF EditSecretSync, Ids
  <2> QED
    BY <1>1, <2>1, <1>9 DEF HashInv, EditSecretSync, Change
<1>10. CASE EditSecretProviderClass
  <2>1. ids' \in Ids
    BY <1>1, <1>10, IdsAssumption DEF EditSecretProviderClass, Ids
  <2> QED
    BY <1>1, <2>1, <1>10 DEF HashInv, EditSecretProviderClass, Change
<1>11. CASE RecreateSecretProviderClass
  <2>1. PICK u \in UIDs : ids' = [ids EXCEPT !.spcUID = u, !.spcGeneration = 1]
    BY <1>11 DEF RecreateSecretProviderClass
  <2>2. ids' = [spcUID |-> u, spcGeneration |-> 1, ssUID |-> ids.ssUID,
                ssGeneration |-> ids.ssGeneration]
    BY <1>1, <2>1 DEF Ids
  <2>3. ids' \in Ids
    BY <1>1, <2>2 DEF Ids
  <2> QED
    BY <1>1, <2>3, <1>11 DEF HashInv, RecreateSecretProviderClass, Change
<1>12. CASE UNCHANGED vars
  BY <1>12 DEF HashInv, vars
<1> QED
  BY <1>2, <1>3, <1>4, <1>5, <1>6, <1>7, <1>8, <1>9, <1>10, <1>11, <1>12 DEF Next

\* A fetch finds another hash exactly if it finds another state.
LEMMA ChangeTold ==
  ASSUME DataInv, HashInv, [Next]_vars, pc # "done", pc' = "done"
  PROVE  changed' <=> synced # <<datamap, spec.force, ids>>
<1>1. Sync
  BY DEF Next, vars, MountFails, Fail, MountContent, FileMissing, PartFails, BuildEntry, Building,
         RotateFiles, EditSecretSync, EditSecretProviderClass, RecreateSecretProviderClass, Change
<1>2. changed' = (HashInput(datamap, spec.force, ids) # syncHash)
  BY <1>1, Zenon DEF Sync
<1>3. datamap \in Datas /\ spec.force \in Seq(Symbols) /\ ids \in Ids
  BY SpecsAssumption DEF DataInv, HashInv
<1>4. CASE synced = <<>> /\ syncHash = <<>>
  <2>1. HashInput(datamap, spec.force, ids) # syncHash
    BY <1>3, <1>4, HashInputNotEmpty
  <2>2. synced # <<datamap, spec.force, ids>>
    BY <1>4
  <2> QED
    BY <1>2, <2>1, <2>2, Zenon
<1>5. ASSUME NEW d \in Datas, NEW f \in Seq(Symbols), NEW i \in Ids,
             synced = <<d, f, i>>, syncHash = HashInput(d, f, i)
      PROVE  changed' <=> synced # <<datamap, spec.force, ids>>
  <2>1. HashInput(datamap, spec.force, ids) = HashInput(d, f, i)
          => datamap = d /\ spec.force = f /\ ids = i
    BY <1>3, HashInputInjective
  <2>2. synced = <<datamap, spec.force, ids>> <=> datamap = d /\ spec.force = f /\ ids = i
    BY <1>5
  <2> QED
    BY <1>2, <1>5, <2>1, <2>2, Zenon
<1> QED
  BY <1>4, <1>5 DEF HashInv

\* The hash changes exactly when the data, the SecretProviderClass or the
\* SecretSync is another one than at the last sync: for data, names and numbers
\* of any length, computeCurrentStateHash mixes no two states up.
THEOREM HashTellsChangeHolds == Spec => HashTellsChange
<1>1. DataInv /\ HashInv /\ [Next]_vars =>
        [pc # "done" /\ pc' = "done" => (changed' <=> synced # <<datamap, spec.force, ids>>)]_vars
  BY ChangeTold
<1> QED
  BY <1>1, DataInit, DataStep, HashInit, HashStep, PTL DEF Spec, HashTellsChange
=============================================================================
