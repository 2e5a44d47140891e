------------------------------ MODULE Induction ------------------------------
(***************************************************************************)
(* Induction over numbers, stated of sets of numbers: a property is proved  *)
(* of every number by showing that the set of those that have it is Nat.    *)
(* The induction theorems of the library take the property as an operator   *)
(* parameter instead.  And what it shows: of the operators on sequences     *)
(* that the community modules define by recursion, and of the orders in     *)
(* which the members of a set can be listed.                                *)
(***************************************************************************)
EXTENDS Integers, SequencesExt, SequenceTheorems, FiniteSetTheorems, WellFoundedInduction,
        TLAPS

\* Every set of numbers has a smallest member.
LEMMA SmallestMember ==
    ASSUME NEW S \in SUBSET Nat, S # {}
    PROVE  \E n \in S : \A m \in S : n <= m
<1>1. PICK n \in S : \A m \in S : <<m, n>> \notin OpToRel(<, Nat)
  BY NatLessThanWellFounded, WFMin
<1>2. \A m \in S : ~(m < n)
  BY <1>1 DEF OpToRel
<1>3. QED BY <1>2

\* A set of numbers with 0 and the successor of each of its members has them all.
LEMMA InductiveSet ==
    ASSUME NEW S \in SUBSET Nat, 0 \in S, \A n \in S : n + 1 \in S
    PROVE  S = Nat
<1> SUFFICES ASSUME Nat \ S # {} PROVE FALSE
  OBVIOUS
<1>1. PICK n \in Nat \ S : \A m \in Nat \ S : n <= m
  BY SmallestMember
<1>2. n # 0 /\ n - 1 \in Nat
  BY <1>1
<1>3. n - 1 \in S
  BY <1>1, <1>2
<1>4. QED BY <1>1, <1>3

\* Induction up to a bound.
LEMMA InductiveUpTo ==
    ASSUME NEW n \in Nat, NEW S, 0 \in S, \A k \in Nat : k < n /\ k \in S => k + 1 \in S
    PROVE  n \in S
<1> DEFINE T == {k \in Nat : k <= n => k \in S}
<1>1. 0 \in T /\ T \in SUBSET Nat
  OBVIOUS
<1>2. ASSUME NEW k \in T PROVE k + 1 \in T
  OBVIOUS
<1>3. T = Nat
  <2> HIDE DEF T
  <2>1. QED BY <1>1, <1>2, InductiveSet
<1>4. n \in T /\ n <= n
  <2> HIDE DEF T
  <2>1. QED BY <1>3
<1>5. QED BY <1>4

-----------------------------------------------------------------------------
(* The recursively defined operators on sequences.                          *)

\* The equation that FlattenSeq solves, on the first `n` of the sequences.
Flattens(f, seqs, n) ==
    f = [i \in 1..n |-> IF i = 1 THEN seqs[i] ELSE f[i - 1] \o seqs[i]]

\* It has a solution, however many sequences there are.
LEMMA FlattensExists ==
    ASSUME NEW seqs, NEW n \in Nat
    PROVE  \E f : Flattens(f, seqs, n)
<1> DEFINE S == {k \in Nat : \E f : Flattens(f, seqs, k)}
<1>1. 0 \in S
  <2> DEFINE f == [i \in 1..0 |-> seqs[i]]
  <2>1. Flattens(f, seqs, 0)
    BY DEF Flattens
  <2>2. QED BY <2>1
<1>2. ASSUME NEW k \in S PROVE k + 1 \in S
  <2>1. PICK f : Flattens(f, seqs, k)
    OBVIOUS
  <2> DEFINE g == [i \in 1..(k + 1) |->
                      IF i = 1 THEN seqs[i] ELSE f[i - 1] \o seqs[i]]
  <2>2. ASSUME NEW i \in 1..k PROVE g[i] = f[i]
    <3>1. f[i] = IF i = 1 THEN seqs[i] ELSE f[i - 1] \o seqs[i]
      BY <2>1, Zenon DEF Flattens
    <3>2. i \in 1..(k + 1)
      OBVIOUS
    <3>3. QED BY <3>1, <3>2
  <2>3. g = [i \in 1..(k + 1) |-> IF i = 1 THEN seqs[i] ELSE g[i - 1] \o seqs[i]]
    <3>1. ASSUME NEW i \in 1..(k + 1), i # 1 PROVE g[i - 1] = f[i - 1]
      <4>1. i - 1 \in 1..k
        BY <3>1
      <4>2. QED BY <4>1, <2>2
    <3>2. QED BY <3>1
  <2>4. Flattens(g, seqs, k + 1)
    BY <2>3, Zenon DEF Flattens
  <2> HIDE DEF g
  <2>5. QED BY <2>4
<1>3. S = Nat
  BY <1>1, <1>2, InductiveSet
<1>4. QED BY <1>3

\* A flattened sequence of sequences has the members of all of them.
LEMMA FlattenSeqMembers ==
    ASSUME NEW T, NEW seqs \in Seq(Seq(T))
    PROVE  /\ FlattenSeq(seqs) \in Seq(T)
           /\ Range(FlattenSeq(seqs)) = UNION {Range(seqs[q]) : q \in DOMAIN seqs}
<1>0. Len(seqs) \in Nat /\ DOMAIN seqs = 1..Len(seqs) /\ \A q \in 1..Len(seqs) : seqs[q] \in Seq(T)
  BY LenProperties, ElementOfSeq
<1>1. CASE Len(seqs) = 0
  <2>1. FlattenSeq(seqs) = seqs /\ seqs = <<>>
    BY <1>1 DEF FlattenSeq
  <2>2. QED BY <2>1 DEF Range
<1>2. CASE Len(seqs) # 0
  <2> DEFINE f == CHOOSE g : Flattens(g, seqs, Len(seqs))
             Upto(k) == UNION {Range(seqs[q]) : q \in 1..k}
             S == {k \in Nat : k + 1 \in 1..Len(seqs) =>
                      f[k + 1] \in Seq(T) /\ Range(f[k + 1]) = Upto(k + 1)}
  <2>1. FlattenSeq(seqs) = f[Len(seqs)]
    BY <1>2 DEF FlattenSeq, Flattens
  <2>2. Flattens(f, seqs, Len(seqs))
    BY <1>0, FlattensExists
  <2>3. ASSUME NEW i \in 1..Len(seqs)
        PROVE  f[i] = IF i = 1 THEN seqs[i] ELSE f[i - 1] \o seqs[i]
    BY <2>2 DEF Flattens
  <2> HIDE DEF f
  <2>4. 0 \in S
    <3>1. ASSUME 1 \in 1..Len(seqs) PROVE f[1] = seqs[1] /\ Upto(1) = Range(seqs[1])
      BY <2>3, <3>1
    <3>2. QED BY <1>0, <3>1
  <2>5. ASSUME NEW k \in S PROVE k + 1 \in S
    <3>0. k \in Nat /\ k + 1 \in Nat /\ (k + 1) + 1 = k + 2
      OBVIOUS
    <3> SUFFICES ASSUME k + 2 \in 1..Len(seqs)
                 PROVE  f[k + 2] \in Seq(T) /\ Range(f[k + 2]) = Upto(k + 2)
      <4> HIDE DEF Upto
      <4>1. QED BY <3>0
    <3>1. k \in Nat /\ k + 1 \in 1..Len(seqs)
      BY <1>0
    <3>2. f[k + 1] \in Seq(T) /\ Range(f[k + 1]) = Upto(k + 1)
      BY <3>1
    <3>3. f[k + 2] = f[k + 1] \o seqs[k + 2]
      <4>1. k + 2 # 1 /\ (k + 2) - 1 = k + 1
        BY <3>1
      <4>2. QED BY <2>3, <4>1
    <3>4. f[k + 2] \in Seq(T) /\ Range(f[k + 2]) = Upto(k + 1) \cup Range(seqs[k + 2])
      BY <1>0, <3>2, <3>3, ConcatProperties, RangeConcatenation
    <3>5. 1..(k + 2) = 1..(k + 1) \cup {k + 2}
      BY <3>1
    <3>6. Upto(k + 2) = Upto(k + 1) \cup Range(seqs[k + 2])
      BY <3>5
    <3>7. QED BY <3>4, <3>6
  <2>6. S = Nat
    <3>1. S \in SUBSET Nat
      OBVIOUS
    <3> HIDE DEF S
    <3>2. QED BY <2>4, <2>5, <3>1, InductiveSet
  <2>7. Len(seqs) - 1 \in Nat /\ (Len(seqs) - 1) + 1 = Len(seqs)
    BY <1>0, <1>2
  <2>8. f[Len(seqs)] \in Seq(T) /\ Range(f[Len(seqs)]) = Upto(Len(seqs))
    <3> DEFINE k == Len(seqs) - 1
    <3>1. k \in Nat /\ k + 1 = Len(seqs) /\ k + 1 \in 1..Len(seqs)
      BY <1>0, <2>7
    <3> HIDE DEF k, Upto
    <3>2. k \in S
      <4> HIDE DEF S
      <4>1. QED BY <2>6, <3>1
    <3>3. f[k + 1] \in Seq(T) /\ Range(f[k + 1]) = Upto(k + 1)
      BY <3>1, <3>2
    <3>4. QED BY <3>1, <3>3
  <2>9. QED BY <1>0, <2>1, <2>8
<1>3. QED BY <1>1, <1>2

\* Where one sequence ends and the next begins makes no difference.
LEMMA AppendToJoined ==
    ASSUME NEW T, NEW p \in Seq(T), NEW q \in Seq(T), NEW i \in T
    PROVE  p \o Append(q, i) = Append(p \o q, i)
<1>1. p \o q \in Seq(T) /\ <<i>> \in Seq(T)
  BY ConcatProperties
<1>2. Append(p \o q, i) = (p \o q) \o <<i>> /\ Append(q, i) = q \o <<i>>
  BY <1>1, AppendIsConcat
<1>3. (p \o q) \o <<i>> = p \o (q \o <<i>>)
  BY <1>1, ConcatAssociative
<1>4. QED BY <1>2, <1>3

\* Behind the flattened sequences comes the one that was appended to them.
LEMMA FlattenSeqAppend ==
    ASSUME NEW T, NEW seqs \in Seq(Seq(T)), NEW last \in Seq(T)
    PROVE  /\ FlattenSeq(Append(seqs, last)) = FlattenSeq(seqs) \o last
           /\ FlattenSeq(<<>>) = <<>>
<1> DEFINE n == Len(seqs)
           more == Append(seqs, last)
           f == CHOOSE g : Flattens(g, seqs, n)
           h == CHOOSE g : Flattens(g, more, n + 1)
           S == {k \in Nat : k + 1 \in 1..n => h[k + 1] = f[k + 1]}
<1>0. n \in Nat /\ more \in Seq(Seq(T)) /\ Len(more) = n + 1 /\ more[n + 1] = last
      /\ \A i \in 1..n : more[i] = seqs[i]
  BY LenProperties, AppendProperties
<1>1. FlattenSeq(<<>>) = <<>>
  BY DEF FlattenSeq
<1> HIDE DEF n, more
<1>2. Len(more) # 0
  BY <1>0
<1>3. FlattenSeq(more) = h[n + 1]
  <2>1. FlattenSeq(more) = (CHOOSE g : Flattens(g, more, Len(more)))[Len(more)]
    BY <1>2, Zenon DEF FlattenSeq, Flattens
  <2>2. QED BY <1>0, <2>1, Zenon
<1>4. Flattens(h, more, n + 1) /\ Flattens(f, seqs, n)
  <2>0. n + 1 \in Nat
    BY <1>0
  <2>1. \E g : Flattens(g, more, n + 1)
    BY <2>0, FlattensExists
  <2>2. \E g : Flattens(g, seqs, n)
    BY <1>0, FlattensExists
  <2>3. QED BY <2>1, <2>2, Zenon
<1>5. /\ \A i \in 1..(n + 1) : h[i] = IF i = 1 THEN more[i] ELSE h[i - 1] \o more[i]
      /\ \A i \in 1..n : f[i] = IF i = 1 THEN seqs[i] ELSE f[i - 1] \o seqs[i]
  BY <1>4, Zenon DEF Flattens
<1> HIDE DEF f, h
<1>6. CASE n = 0
  <2>1. seqs = <<>>
    BY <1>6, EmptySeq DEF n
  <2>2. h[1] = last
    BY <1>0, <1>5, <1>6
  <2>3. <<>> \o last = last
    BY ConcatEmptySeq
  <2>4. QED BY <1>1, <1>3, <1>6, <2>1, <2>2, <2>3 DEF more
<1>7. CASE n # 0
  <2>1. 0 \in S
    <3>1. ASSUME 1 \in 1..n PROVE h[1] = f[1]
      BY <1>0, <1>5, <3>1
    <3>2. QED BY <3>1
  <2>2. ASSUME NEW k \in S PROVE k + 1 \in S
    <3>1. k \in Nat
      OBVIOUS
    <3>2. ASSUME k + 2 \in 1..n PROVE h[k + 2] = f[k + 2]
      <4>1. k + 1 \in 1..n /\ k + 2 \in 1..(n + 1) /\ k + 2 # 1 /\ (k + 2) - 1 = k + 1
        BY <1>0, <3>1, <3>2
      <4>2. h[k + 1] = f[k + 1]
        BY <4>1
      <4> HIDE DEF S
      <4>3. h[k + 2] = h[k + 1] \o more[k + 2] /\ f[k + 2] = f[k + 1] \o seqs[k + 2]
        BY <1>5, <3>2, <4>1
      <4>4. QED BY <1>0, <3>2, <4>2, <4>3
    <3>3. k + 1 \in Nat /\ (k + 1) + 1 = k + 2
      BY <3>1
    <3>4. QED BY <3>2, <3>3
  <2>3. S = Nat
    <3>1. S \in SUBSET Nat
      OBVIOUS
    <3> HIDE DEF S
    <3>2. QED BY <2>1, <2>2, <3>1, InductiveSet
  <2>4. n - 1 \in Nat /\ (n - 1) + 1 = n /\ n \in 1..n /\ n + 1 \in 1..(n + 1)
        /\ n + 1 # 1 /\ (n + 1) - 1 = n
    BY <1>0, <1>7
  <2>5. h[n] = f[n]
    <3> DEFINE k == n - 1
    <3>1. k \in S
      <4> HIDE DEF S
      <4>1. QED BY <2>3, <2>4
    <3> HIDE DEF k
    <3>2. k + 1 = n
      BY <2>4 DEF k
    <3>3. QED BY <2>4, <3>1, <3>2
  <2> HIDE DEF S
  <2>6. h[n + 1] = h[n] \o last
    BY <1>0, <1>5, <2>4
  <2>7. FlattenSeq(seqs) = f[n]
    BY <1>7, Zenon DEF FlattenSeq, Flattens, f, n
  <2>8. QED BY <1>1, <1>3, <2>5, <2>6, <2>7 DEF more
<1>8. QED BY <1>6, <1>7

\* Sequences of one member each flatten to the sequence of those members.
LEMMA FlattenSingles ==
    ASSUME NEW T, NEW s \in Seq(T)
    PROVE  FlattenSeq([c \in DOMAIN s |-> <<s[c]>>]) = s
<1> DEFINE n == Len(s)
           Ones(k) == [c \in 1..k |-> <<s[c]>>]
           First(k) == [c \in 1..k |-> s[c]]
           S == {k \in Nat : k <= n => FlattenSeq(Ones(k)) = First(k)}
<1>0. n \in Nat /\ DOMAIN s = 1..n /\ s = First(n) /\ \A c \in 1..n : s[c] \in T
  BY LenProperties, ElementOfSeq
<1>1. ASSUME NEW k \in Nat, k <= n
      PROVE  Ones(k) \in Seq(Seq(T)) /\ Len(Ones(k)) = k /\ First(k) \in Seq(T) /\ Len(First(k)) = k
  <2>1. \A c \in 1..k : s[c] \in T /\ <<s[c]>> \in Seq(T)
    BY <1>0, <1>1
  <2>2. Ones(k) \in [1..k -> Seq(T)] /\ First(k) \in [1..k -> T]
    BY <2>1
  <2> HIDE DEF Ones, First
  <2>3. Ones(k) \in Seq(Seq(T)) /\ First(k) \in Seq(T)
    BY <2>2, SeqDef
  <2>4. QED BY <2>2, <2>3, LenProperties
<1>2. 0 \in S
  <2>1. Ones(0) = <<>> /\ First(0) = <<>>
    OBVIOUS
  <2>2. FlattenSeq(<<>>) = <<>>
    BY DEF FlattenSeq
  <2>3. FlattenSeq(Ones(0)) = First(0)
    BY <2>1, <2>2, Zenon
  <2>4. QED BY <2>3
<1>3. ASSUME NEW k \in Nat, k < n, k \in S PROVE k + 1 \in S
  <2>0. k <= n /\ k + 1 \in Nat /\ k + 1 <= n /\ k + 1 \in 1..n /\ 1..(k + 1) = 1..k \cup {k + 1}
    BY <1>0, <1>3
  <2>1. FlattenSeq(Ones(k)) = First(k)
    BY <1>3, <2>0
  <2>2. s[k + 1] \in T /\ <<s[k + 1]>> \in Seq(T)
    BY <1>0, <2>0
  <2>3. Ones(k + 1) = Append(Ones(k), <<s[k + 1]>>)
    <3>1. /\ Ones(k) \in Seq(Seq(T)) /\ Len(Ones(k)) = k
          /\ Ones(k + 1) \in Seq(Seq(T)) /\ Len(Ones(k + 1)) = k + 1
      BY <1>1, <2>0
    <3>2. (\A c \in 1..k : Ones(k + 1)[c] = Ones(k)[c]) /\ Ones(k + 1)[k + 1] = <<s[k + 1]>>
      BY <2>0
    <3> DEFINE ones == Ones(k)
               more == Ones(k + 1)
               one == <<s[k + 1]>>
    <3> HIDE DEF ones, more, one
    <3>3. /\ ones \in Seq(Seq(T)) /\ Len(ones) = k /\ more \in Seq(Seq(T)) /\ Len(more) = k + 1
          /\ (\A c \in 1..k : more[c] = ones[c]) /\ more[k + 1] = one /\ one \in Seq(T)
      BY <2>2, <3>1, <3>2 DEF ones, more, one
    <3>4. more = Append(ones, one)
      <4>1. /\ Append(ones, one) \in Seq(Seq(T)) /\ Len(Append(ones, one)) = k + 1
            /\ Append(ones, one)[k + 1] = one
            /\ \A c \in 1..k : Append(ones, one)[c] = ones[c]
        BY <3>3, AppendProperties
      <4>2. \A c \in 1..(k + 1) : more[c] = Append(ones, one)[c]
        BY <2>0, <3>3, <4>1
      <4>3. QED BY <3>3, <4>1, <4>2, SeqEqual
    <3>5. QED BY <3>4 DEF ones, more, one
  <2>4. First(k + 1) = First(k) \o <<s[k + 1]>>
    <3>1. /\ First(k) \in Seq(T) /\ Len(First(k)) = k
          /\ First(k + 1) \in Seq(T) /\ Len(First(k + 1)) = k + 1
      BY <1>1, <2>0
    <3>2. (\A c \in 1..k : First(k + 1)[c] = First(k)[c]) /\ First(k + 1)[k + 1] = s[k + 1]
      BY <2>0
    <3> DEFINE firsts == First(k)
               more == First(k + 1)
               one == s[k + 1]
    <3> HIDE DEF firsts, more, one
    <3>3. /\ firsts \in Seq(T) /\ Len(firsts) = k /\ more \in Seq(T) /\ Len(more) = k + 1
          /\ (\A c \in 1..k : more[c] = firsts[c]) /\ more[k + 1] = one /\ one \in T
      BY <2>2, <3>1, <3>2 DEF firsts, more, one
    <3>4. more = Append(firsts, one)
      <4>1. /\ Append(firsts, one) \in Seq(T) /\ Len(Append(firsts, one)) = k + 1
            /\ Append(firsts, one)[k + 1] = one
            /\ \A c \in 1..k : Append(firsts, one)[c] = firsts[c]
        BY <3>3, AppendProperties
      <4>2. \A c \in 1..(k + 1) : more[c] = Append(firsts, one)[c]
        BY <2>0, <3>3, <4>1
      <4>3. QED BY <3>3, <4>1, <4>2, SeqEqual
    <3>5. Append(firsts, one) = firsts \o <<one>>
      BY <3>3, AppendIsConcat
    <3>6. QED BY <3>4, <3>5 DEF firsts, more, one
  <2>5. FlattenSeq(Append(Ones(k), <<s[k + 1]>>)) = FlattenSeq(Ones(k)) \o <<s[k + 1]>>
    <3>1. Ones(k) \in Seq(Seq(T))
      BY <1>1, <2>0
    <3> HIDE DEF Ones
    <3>2. QED BY <2>2, <3>1, FlattenSeqAppend
  <2>6. FlattenSeq(Ones(k + 1)) = First(k + 1)
    <3> HIDE DEF Ones, First
    <3>1. QED BY <2>1, <2>3, <2>4, <2>5
  <2> HIDE DEF Ones, First
  <2>7. QED BY <2>0, <2>6
<1>4. n \in S
  <2> HIDE DEF S
  <2>1. QED BY <1>0, <1>2, <1>3, InductiveUpTo
<1>5. FlattenSeq(Ones(n)) = First(n)
  <2> HIDE DEF Ones, First
  <2>1. n <= n
    BY <1>0
  <2>2. QED BY <1>4, <2>1
<1>6. Ones(n) = [c \in DOMAIN s |-> <<s[c]>>]
  BY <1>0
<1>7. QED BY <1>0, <1>5, <1>6, Zenon

-----------------------------------------------------------------------------
(* Folds over sequences: FoldLeft is a function on the sets of places, which *)
(* takes the last place of a set off first.                                 *)

\* What is left of the first numbers without the last of them.
LEMMA LastOfFirst ==
    ASSUME NEW k \in Nat
    PROVE  Max(1..(k + 1)) = k + 1 /\ 1..(k + 1) \ {k + 1} = 1..k /\ 1..(k + 1) # {}
<1>1. k + 1 \in 1..(k + 1) /\ \A y \in 1..(k + 1) : k + 1 >= y
  OBVIOUS
<1>2. Max(1..(k + 1)) \in 1..(k + 1) /\ Max(1..(k + 1)) >= k + 1
  BY <1>1 DEF Max
<1>3. Max(1..(k + 1)) = k + 1
  BY <1>2
<1>4. 1..(k + 1) \ {k + 1} = 1..k
  OBVIOUS
<1>5. QED BY <1>1, <1>3, <1>4

\* The last of some of the first numbers is one of them.
LEMMA LastOfSome ==
    ASSUME NEW k \in Nat, NEW s \in SUBSET (1..k), s # {}
    PROVE  Max(s) \in s
<1> DEFINE below == {k - i : i \in s}
<1>0. \A i \in s : i \in 1..k /\ k - i \in Nat
  OBVIOUS
<1>1. below \in SUBSET Nat /\ below # {}
  BY <1>0
<1>2. PICK m \in below : \A i \in below : m <= i
  BY <1>1, SmallestMember
<1>3. PICK x \in s : m = k - x
  OBVIOUS
<1>4. ASSUME NEW y \in s PROVE x >= y
  <2>1. k - y \in below /\ x \in 1..k /\ y \in 1..k
    BY <1>0, <1>3
  <2>2. m <= k - y
    BY <1>2, <2>1
  <2> HIDE DEF below
  <2>3. QED BY <1>3, <2>1, <2>2
<1>5. QED BY <1>4 DEF Max

\* What a fold over the first `n` numbers is at each set of them, the last one first.
FoldsBy(f, base, n, step) ==
    \A s \in SUBSET (1..n) :
        f[s] = IF s = {} THEN base ELSE step[<<f[s \ {Max(s)}], Max(s)>>]

\* There is such a fold, if each step leads from one accumulator to another.  The steps
\* are a function here, since no operator can be an argument.
LEMMA FoldExists ==
    ASSUME NEW Acc, NEW base \in Acc, NEW n \in Nat, NEW step \in [Acc \X (1..n) -> Acc]
    PROVE  \E f \in [SUBSET (1..n) -> Acc] : FoldsBy(f, base, n, step)
<1> DEFINE Solves(f, k) == \A s \in SUBSET (1..k) :
              f[s] = IF s = {} THEN base ELSE step[<<f[s \ {Max(s)}], Max(s)>>]
           S == {k \in Nat : k <= n => \E f \in [SUBSET (1..k) -> Acc] : Solves(f, k)}
<1>1. 0 \in S
  <2> DEFINE f == [s \in SUBSET (1..0) |-> base]
  <2>1. \A s \in SUBSET (1..0) : s = {}
    OBVIOUS
  <2>2. f \in [SUBSET (1..0) -> Acc] /\ Solves(f, 0)
    BY <2>1
  <2> HIDE DEF f, Solves
  <2>3. QED BY <2>2
<1>2. ASSUME NEW k \in S PROVE k + 1 \in S
  <2> HIDE DEF Solves
  <2>k. k \in Nat /\ k + 1 \in Nat
    OBVIOUS
  <2> SUFFICES ASSUME k + 1 <= n
               PROVE  \E g \in [SUBSET (1..(k + 1)) -> Acc] : Solves(g, k + 1)
    BY <2>k
  <2>0. k \in Nat /\ k <= n /\ k + 1 <= n
    BY <2>k
  <2>1. PICK f \in [SUBSET (1..k) -> Acc] : Solves(f, k)
    BY <2>0
  <2> USE DEF Solves
  <2> HIDE DEF S
  <2> DEFINE g == [s \in SUBSET (1..(k + 1)) |->
                     IF s = {} THEN base ELSE step[<<f[s \ {Max(s)}], Max(s)>>]]
  <2>2. ASSUME NEW s \in SUBSET (1..(k + 1)), s # {}
        PROVE  s \ {Max(s)} \in SUBSET (1..k) /\ Max(s) \in 1..n
    <3>1. k + 1 \in Nat /\ \A i \in 1..(k + 1) : i \in 1..n /\ (i # k + 1 => i \in 1..k)
      BY <2>0
    <3>2. Max(s) \in s
      BY <2>2, <3>1, LastOfSome
    <3>3. CASE k + 1 \in s
      <4>1. \A y \in s : k + 1 >= y
        BY <2>0
      <4>2. Max(s) >= k + 1
        BY <3>3, <4>1 DEF Max
      <4>3. Max(s) \in 1..(k + 1)
        BY <3>2
      <4> HIDE DEF g, Solves
      <4>5. Max(s) = k + 1
        BY <2>0, <4>2, <4>3
      <4>4. QED BY <3>1, <3>2, <4>5
    <3>4. CASE k + 1 \notin s
      BY <3>1, <3>2, <3>4
    <3>5. QED BY <3>3, <3>4
  <2>3. g \in [SUBSET (1..(k + 1)) -> Acc]
    <3>1. ASSUME NEW s \in SUBSET (1..(k + 1)), s # {}
          PROVE  step[<<f[s \ {Max(s)}], Max(s)>>] \in Acc
      BY <2>2, <3>1
    <3>2. QED BY <3>1
  <2>4. ASSUME NEW s \in SUBSET (1..k) PROVE g[s] = f[s]
    <3>1. s \in SUBSET (1..(k + 1))
      BY <2>0
    <3>2. f[s] = IF s = {} THEN base ELSE step[<<f[s \ {Max(s)}], Max(s)>>]
      BY <2>1
    <3>3. QED BY <3>1, <3>2, Zenon
  <2>5. ASSUME NEW s \in SUBSET (1..(k + 1))
        PROVE  g[s] = IF s = {} THEN base ELSE step[<<g[s \ {Max(s)}], Max(s)>>]
    <3>1. CASE s = {}
      BY <3>1
    <3>2. CASE s # {}
      <4>1. g[s \ {Max(s)}] = f[s \ {Max(s)}]
        BY <2>2, <2>4, <3>2, Zenon
      <4>2. QED BY <4>1, Zenon
    <3>3. QED BY <3>1, <3>2
  <2> HIDE DEF g
  <2>6. QED BY <2>3, <2>5
<1>3. S = Nat
  <2>1. S \in SUBSET Nat
    OBVIOUS
  <2> HIDE DEF S
  <2>2. QED BY <1>1, <1>2, <2>1, InductiveSet
<1>4. n \in S /\ n <= n
  <2> HIDE DEF S
  <2>1. QED BY <1>3
<1>5. QED BY <1>4 DEF FoldsBy

-----------------------------------------------------------------------------
(* A set has one order.                                                     *)

\* `s` lists something so that each member precedes in `R` all that follow it.
Ascends(s, R) == \A i, j \in DOMAIN s : i < j => <<s[i], s[j]>> \in R

\* No two things precede one another, and nothing precedes itself.
Asymmetric(R) == \A x, y : <<x, y>> \in R => <<y, x>> \notin R

\* What is listed in an ascending order is listed once.
LEMMA AscendingIsInjective ==
    ASSUME NEW n \in Nat, NEW s, DOMAIN s = 1..n, NEW R, Ascends(s, R), Asymmetric(R)
    PROVE  \A i, j \in 1..n : i # j => s[i] # s[j]
<1> SUFFICES ASSUME NEW i \in 1..n, NEW j \in 1..n, i < j PROVE s[i] # s[j]
  OBVIOUS
<1>1. <<s[i], s[j]>> \in R
  BY DEF Ascends
<1>2. QED BY <1>1 DEF Asymmetric

\* There is one ascending order at most.
LEMMA SortedOnce ==
    ASSUME NEW n \in Nat, NEW s, NEW t, NEW R, DOMAIN s = 1..n, DOMAIN t = 1..n,
           s = [i \in 1..n |-> s[i]], t = [i \in 1..n |-> t[i]],
           Range(s) = Range(t), Ascends(s, R), Ascends(t, R), Asymmetric(R)
    PROVE  s = t
<1> DEFINE D == {i \in 1..n : s[i] # t[i]}
<1> SUFFICES D = {}
  OBVIOUS
<1> SUFFICES ASSUME D # {} PROVE FALSE
  OBVIOUS
<1>1. PICK k \in D : \A i \in D : k <= i
  <2>1. D \in SUBSET Nat
    OBVIOUS
  <2> HIDE DEF D
  <2>2. QED BY <2>1, SmallestMember
<1>2. \A i \in 1..n : i < k => s[i] = t[i]
  BY <1>1
<1>3. s[k] \in Range(t) /\ t[k] \in Range(s)
  BY DEF Range
<1>4. PICK j \in 1..n : t[j] = s[k]
  BY <1>3 DEF Range
<1>5. PICK m \in 1..n : s[m] = t[k]
  BY <1>3 DEF Range
<1>6. j # k /\ m # k
  BY <1>1, <1>4, <1>5
<1>7. ~(j < k)
  BY <1>2, <1>4, AscendingIsInjective
<1>8. ~(m < k)
  BY <1>2, <1>5, AscendingIsInjective
<1>9. <<t[k], t[j]>> \in R /\ <<s[k], s[m]>> \in R
  <2>1. k \in 1..n /\ k < j /\ k < m
    BY <1>1, <1>6, <1>7, <1>8
  <2>2. QED BY <2>1 DEF Ascends
<1>10. QED BY <1>4, <1>5, <1>9 DEF Asymmetric

\* There are `n` numbers from 1 to `n`.
LEMMA FromOne == \A n \in Nat : IsFiniteSet(1..n) /\ Cardinality(1..n) = n
<1> TAKE n \in Nat
<1>1. 1 \in Int /\ n \in Int
  OBVIOUS
<1>2. IsFiniteSet(1..n) /\ Cardinality(1..n) = IF 1 > n THEN 0 ELSE n - 1 + 1
  BY <1>1, FS_Interval
<1>3. QED BY <1>2

\* What is listed once, in whichever order, is one of the ways to list it.
LEMMA ListedOnce ==
    ASSUME NEW n \in Nat, NEW s, s = [i \in 1..n |-> s[i]],
           \A i, j \in 1..n : i # j => s[i] # s[j]
    PROVE  /\ s \in SetToSeqs(Range(s))
           /\ IsFiniteSet(Range(s)) /\ Cardinality(Range(s)) = n
<1>1. s \in [1..n -> Range(s)]
  BY DEF Range
<1>2. s \in Injection(1..n, Range(s)) /\ s \in Surjection(1..n, Range(s))
  BY <1>1 DEF Injection, IsInjective, Surjection, Range
<1>3. IsFiniteSet(1..n) /\ Cardinality(1..n) = n
  BY FromOne
<1>4. IsFiniteSet(Range(s)) /\ Cardinality(Range(s)) = n
  BY <1>2, <1>3, FS_Surjection
<1>5. QED BY <1>1, <1>4 DEF SetToSeqs

\* The ways to list a finite set have its members, each at one place.
LEMMA ListsOf ==
    ASSUME NEW n \in Nat, NEW S, IsFiniteSet(S), Cardinality(S) = n, NEW q \in SetToSeqs(S)
    PROVE  q \in [1..n -> S] /\ Range(q) = S
<1>1. q \in [1..n -> S] /\ \A i, j \in 1..n : i # j => q[i] # q[j]
  BY DEF SetToSeqs
<1>2. q \in Injection(1..n, S)
  BY <1>1 DEF Injection, IsInjective
<1>3. IsFiniteSet(1..n) /\ Cardinality(1..n) = n
  BY FromOne
<1>4. q \in Surjection(1..n, S)
  BY <1>2, <1>3, FS_Injection
<1>5. QED BY <1>1, <1>4 DEF Surjection, Range

\* A finite set in which any two members precede one another one way can be listed so:
\* each member has the place that the number of those before it tells.
LEMMA OrderExists ==
    ASSUME NEW S, IsFiniteSet(S), NEW R,
           \A x \in S : <<x, x>> \notin R,
           \A x, y \in S : x # y => <<x, y>> \in R \/ <<y, x>> \in R,
           \A x, y, z \in S : <<x, y>> \in R /\ <<y, z>> \in R => <<x, z>> \in R
    PROVE  \E s \in SetToSeqs(S) : Ascends(s, R)
<1> DEFINE n == Cardinality(S)
           below(x) == {y \in S : <<y, x>> \in R}
           rank == [x \in S |-> Cardinality(below(x)) + 1]
           s == [k \in 1..n |-> CHOOSE x \in S : rank[x] = k]
<1>0. n \in Nat
  BY FS_CardinalityType
<1>1. ASSUME NEW x \in S
      PROVE  /\ IsFiniteSet(below(x))
             /\ Cardinality(below(x)) \in Nat /\ Cardinality(below(x)) < n
  <2>1. below(x) \in SUBSET S /\ below(x) # S
    OBVIOUS
  <2> HIDE DEF below
  <2>2. IsFiniteSet(below(x)) /\ Cardinality(below(x)) <= n /\ Cardinality(below(x)) # n
    BY <2>1, FS_Subset
  <2>3. Cardinality(below(x)) \in Nat
    BY <2>2, FS_CardinalityType
  <2>4. QED BY <1>0, <2>2, <2>3
<1>2. ASSUME NEW x \in S, NEW y \in S, <<x, y>> \in R
      PROVE  rank[x] < rank[y]
  <2>1. below(x) \in SUBSET below(y) /\ below(x) # below(y)
    BY <1>2
  <2>2. IsFiniteSet(below(y)) /\ Cardinality(below(y)) \in Nat /\ Cardinality(below(x)) \in Nat
    BY <1>1
  <2>3. rank[x] = Cardinality(below(x)) + 1 /\ rank[y] = Cardinality(below(y)) + 1
    OBVIOUS
  <2> HIDE DEF below, rank
  <2>4. Cardinality(below(x)) <= Cardinality(below(y))
        /\ Cardinality(below(x)) # Cardinality(below(y))
    BY <2>1, <2>2, FS_Subset
  <2>5. QED BY <2>2, <2>3, <2>4
<1>3. rank \in [S -> 1..n]
  <2>1. ASSUME NEW x \in S PROVE Cardinality(below(x)) + 1 \in 1..n
    <3>1. Cardinality(below(x)) \in Nat /\ Cardinality(below(x)) < n
      BY <1>1
    <3> HIDE DEF below, n
    <3>2. QED BY <1>0, <3>1
  <2> HIDE DEF below, n
  <2>2. QED BY <2>1
<1> HIDE DEF below, rank
<1>4. rank \in Surjection(S, 1..n)
  <2>1. ASSUME NEW x \in S, NEW y \in S, x # y PROVE rank[x] # rank[y]
    <3>1. rank[x] \in Int /\ rank[y] \in Int
      BY <1>0, <1>3
    <3>2. rank[x] < rank[y] \/ rank[y] < rank[x]
      BY <1>2, <2>1
    <3>3. QED BY <3>1, <3>2
  <2>2. rank \in Injection(S, 1..n)
    BY <1>3, <2>1 DEF Injection, IsInjective
  <2>3. IsFiniteSet(1..n) /\ Cardinality(1..n) = n
    BY <1>0, FromOne
  <2>4. QED BY <2>2, <2>3, FS_Injection
<1>5. ASSUME NEW k \in 1..n PROVE s[k] \in S /\ rank[s[k]] = k
  <2>1. \E x \in S : rank[x] = k
    BY <1>4 DEF Surjection
  <2>2. QED BY <2>1
<1> HIDE DEF s
<1>6. s \in SetToSeqs(S)
  <2>1. s \in [1..n -> S]
    BY <1>5 DEF s
  <2>2. \A i, j \in 1..n : i # j => s[i] # s[j]
    BY <1>5
  <2>3. QED BY <2>1, <2>2 DEF SetToSeqs
<1>7. ASSUME NEW i \in 1..n, NEW j \in 1..n, i < j PROVE <<s[i], s[j]>> \in R
  <2>1. s[i] \in S /\ s[j] \in S /\ rank[s[i]] = i /\ rank[s[j]] = j
    BY <1>5
  <2>2. i \in Int /\ j \in Int
    BY <1>0
  <2>3. s[i] # s[j] /\ ~(rank[s[j]] < rank[s[i]])
    BY <1>7, <2>1, <2>2
  <2>4. QED BY <1>2, <2>1, <2>3
<1>8. DOMAIN s = 1..n
  BY DEF s
<1>9. QED BY <1>6, <1>7, <1>8 DEF Ascends
-----------------------------------------------------------------------------
(* Sums over a set.                                                         *)

\* The equation that a sum of the frequencies of some things solves.
Sums(f, T) ==
    f = [s \in SUBSET T |->
            IF s = {} THEN 0
            ELSE (CHOOSE x \in s : TRUE).frequency + f[s \ {CHOOSE x \in s : TRUE}]]

\* Where each thing counts the members of its part, and no two parts meet, the sum counts
\* the members of all of them.
LEMMA SumOfParts ==
    ASSUME NEW T, IsFiniteSet(T), NEW D, IsFiniteSet(D), NEW part \in [T -> SUBSET D],
           \A t \in T : t.frequency = Cardinality(part[t]),
           \A t, u \in T : t # u => part[t] \cap part[u] = {}
    PROVE  \E f : Sums(f, T) /\ \A g : Sums(g, T) =>
                     g[T] = Cardinality(UNION {part[t] : t \in T})
<1> DEFINE all(s) == UNION {part[t] : t \in s}
           h == [s \in SUBSET T |-> Cardinality(all(s))]
           one(s) == CHOOSE x \in s : TRUE
<1>1. ASSUME NEW s \in SUBSET T, s # {}
      PROVE  /\ one(s) \in s /\ s \ {one(s)} \in SUBSET T
             /\ h[s] = one(s).frequency + h[s \ {one(s)}]
  <2> DEFINE x == one(s)
             r == s \ {x}
  <2>1. x \in s
    BY <1>1
  <2> HIDE DEF x
  <2>2. /\ all(s) = part[x] \cup all(r) /\ part[x] \cap all(r) = {}
        /\ part[x] \in SUBSET D /\ all(r) \in SUBSET D
    BY <2>1
  <2>3. x.frequency = Cardinality(part[x]) /\ h[s] = Cardinality(all(s)) /\ h[r] = Cardinality(all(r))
    BY <2>1
  <2>4. r \in SUBSET T
    OBVIOUS
  <2> HIDE DEF all, h, r
  <2>5. IsFiniteSet(part[x]) /\ IsFiniteSet(all(r))
    BY <2>2, FS_Subset
  <2>6. /\ Cardinality(part[x] \cup all(r))
              = Cardinality(part[x]) + Cardinality(all(r)) - Cardinality(part[x] \cap all(r))
        /\ Cardinality(part[x]) \in Nat /\ Cardinality(all(r)) \in Nat
    BY <2>5, FS_Union, FS_CardinalityType
  <2>7. Cardinality({}) = 0
    BY FS_EmptySet
  <2>8. Cardinality(part[x] \cup all(r)) = Cardinality(part[x]) + Cardinality(all(r))
    <3>1. Cardinality(part[x] \cap all(r)) = 0
      BY <2>2, <2>7
    <3>2. QED BY <2>6, <3>1
  <2>9. h[s] = x.frequency + h[r]
    BY <2>2, <2>3, <2>8
  <2>10. QED BY <2>1, <2>4, <2>9 DEF r, x
<1>2. h[{}] = 0
  <2>1. all({}) = {} /\ {} \in SUBSET T
    OBVIOUS
  <2>2. Cardinality({}) = 0
    BY FS_EmptySet
  <2>3. QED BY <2>1, <2>2
<1>3. h = [s \in SUBSET T |-> h[s]] /\ h[T] = Cardinality(all(T))
  OBVIOUS
<1>4. ASSUME NEW s \in SUBSET T
      PROVE  /\ IsFiniteSet(s) /\ Cardinality(s) \in Nat
             /\ \A x \in s : Cardinality(s \ {x}) < Cardinality(s)
  <2>1. IsFiniteSet(s) /\ Cardinality(s) \in Nat
    BY FS_Subset, FS_CardinalityType
  <2>2. ASSUME NEW x \in s PROVE Cardinality(s \ {x}) < Cardinality(s)
    <3>1. Cardinality(s \ {x}) = Cardinality(s) - 1
      BY <2>1, FS_RemoveElement
    <3>2. QED BY <2>1, <3>1
  <2>3. QED BY <2>1, <2>2
<1> HIDE DEF all, h
<1>5. Sums(h, T)
  <2>1. ASSUME NEW s \in SUBSET T
        PROVE  h[s] = IF s = {} THEN 0 ELSE one(s).frequency + h[s \ {one(s)}]
    BY <1>1, <1>2
  <2>2. QED BY <1>3, <2>1, Zenon DEF Sums
<1>6. ASSUME NEW g, Sums(g, T) PROVE g[T] = h[T]
  <2> DEFINE bad == {s \in SUBSET T : g[s] # h[s]}
             sizes == {Cardinality(s) : s \in bad}
  <2>1. \A s \in SUBSET T : g[s] = IF s = {} THEN 0 ELSE one(s).frequency + g[s \ {one(s)}]
    BY <1>6, Zenon DEF Sums
  <2> SUFFICES ASSUME bad # {} PROVE FALSE
    OBVIOUS
  <2>2. sizes \in SUBSET Nat /\ sizes # {}
    BY <1>4
  <2>3. PICK n \in sizes : \A m \in sizes : n <= m
    <3> HIDE DEF sizes
    <3>1. QED BY <2>2, SmallestMember
  <2>4. PICK s \in bad : Cardinality(s) = n
    OBVIOUS
  <2>5. s \in SUBSET T /\ s # {}
    BY <1>2, <2>1
  <2> DEFINE r == s \ {one(s)}
  <2>6. r \in SUBSET T /\ one(s) \in s
    BY <1>1, <2>5
  <2>7. Cardinality(r) < n /\ Cardinality(r) \in Nat /\ n \in Nat
    BY <1>4, <2>4, <2>5, <2>6
  <2>8. r \notin bad
    <3>1. r \in bad => n <= Cardinality(r)
      BY <2>3
    <3> HIDE DEF r, bad
    <3>2. QED BY <2>7, <3>1
  <2>9. g[r] = h[r]
    BY <2>6, <2>8
  <2>10. g[s] = one(s).frequency + g[r] /\ h[s] = one(s).frequency + h[r]
    BY <1>1, <2>1, <2>5
  <2>11. g[s] = h[s]
    BY <2>9, <2>10
  <2>12. QED BY <2>4, <2>11
<1>7. QED BY <1>3, <1>5, <1>6 DEF all

=============================================================================
