------------------------ MODULE ContextAssemblyProofs ------------------------
(***************************************************************************)
(* Proofs about ContextAssembly, for any number of requests, any texts and *)
(* any budgets.                                                            *)
(***************************************************************************)
EXTENDS ContextAssembly, SequenceTheorems, WellFoundedInduction, TLAPS

(* Induction, stated of a set. *)
LEMMA SetInduction ==
  ASSUME NEW S, 0 \in S, \A n \in Nat : n \in S => n + 1 \in S
  PROVE  Nat \subseteq S
<1> SUFFICES ASSUME ~(Nat \subseteq S) PROVE FALSE
  OBVIOUS
<1> DEFINE T == Nat \ S
<1>1. T \subseteq Nat /\ T # {}
  OBVIOUS
<1>2. \E x \in T : \A y \in T : ~(<<y, x>> \in OpToRel(<, Nat))
  BY <1>1, WFMin, NatLessThanWellFounded
<1>3. PICK x \in T : \A y \in T : ~(<<y, x>> \in OpToRel(<, Nat))
  BY <1>2
<1>4. \A y \in T : ~(y < x)
  BY <1>3 DEF OpToRel
<1>5. x \in Nat /\ x # 0 /\ x \notin S
  OBVIOUS
<1>6. x - 1 \in Nat /\ x - 1 < x /\ (x - 1) + 1 = x
  BY <1>5
<1>7. x - 1 \in S
  BY <1>4, <1>6
<1> QED
  BY <1>5, <1>6, <1>7

(* f has the partial sums of the sequence s. *)
Sums(s, f) ==
  f = [n \in 0..Len(s) |-> IF n = 0 THEN 0 ELSE f[n - 1] + Tokens(s[n])]

LEMMA TokensNat == \A size \in Nat : Tokens(size) \in Nat
  BY DEF Tokens

LEMMA TokensOfSums ==
  ASSUME NEW s, \E f : Sums(s, f)
  PROVE  \E f : Sums(s, f) /\ TokensOf(s) = f[Len(s)]
<1> DEFINE g == CHOOSE f : f = [n \in 0..Len(s) |-> IF n = 0 THEN 0 ELSE f[n - 1] + Tokens(s[n])]
<1>1. Sums(s, g)
  BY DEF Sums
<1>2. TokensOf(s) = g[Len(s)]
  BY DEF TokensOf
<1> QED
  BY <1>1, <1>2

(* f has the first n of them. *)
FirstSums(s, n, f) ==
  /\ f \in [0..n -> Nat]
  /\ \A i \in 0..n : f[i] = IF i = 0 THEN 0 ELSE f[i - 1] + Tokens(s[i])

HasSums(s, n) == \E f : FirstSums(s, n, f)

(* Every sequence has its partial sums, which are natural numbers. *)
LEMMA SumsExist ==
  ASSUME NEW s \in Seq(Nat)
  PROVE  \E f \in [0..Len(s) -> Nat] : Sums(s, f)
<1> DEFINE S == {n \in Nat : n <= Len(s) => HasSums(s, n)}
<1>1. Len(s) \in Nat /\ \A i \in 1..Len(s) : Tokens(s[i]) \in Nat
  BY LenProperties, ElementOfSeq, TokensNat
<1>2. HasSums(s, 0)
  <2>1. FirstSums(s, 0, [i \in 0..0 |-> 0])
    BY DEF FirstSums
  <2> QED
    BY <2>1 DEF HasSums
<1>3. ASSUME NEW n \in Nat, HasSums(s, n), n + 1 <= Len(s)
      PROVE  HasSums(s, n + 1)
  <2>1. PICK f : FirstSums(s, n, f)
    BY <1>3 DEF HasSums
  <2> DEFINE g == [i \in 0..(n + 1) |-> IF i <= n THEN f[i] ELSE f[n] + Tokens(s[n + 1])]
  <2>2. Tokens(s[n + 1]) \in Nat /\ \A i \in 0..n : f[i] \in Nat
    BY <1>1, <1>3, <2>1 DEF FirstSums
  <2>3. g \in [0..(n + 1) -> Nat]
    BY <2>2
  <2>4. ASSUME NEW i \in 0..(n + 1)
        PROVE  g[i] = IF i = 0 THEN 0 ELSE g[i - 1] + Tokens(s[i])
    <3>1. CASE i <= n
      <4>1. i \in 0..n /\ g[i] = f[i] /\ (i # 0 => i - 1 \in 0..(n + 1) /\ g[i - 1] = f[i - 1])
        BY <3>1
      <4> QED
        BY <2>1, <4>1 DEF FirstSums
    <3>2. CASE i = n + 1
      <4>1. /\ g[i] = f[n] + Tokens(s[n + 1]) /\ i # 0
            /\ i - 1 = n /\ g[n] = f[n]
        BY <3>2
      <4> QED
        BY <3>2, <4>1
    <3> QED
      BY <3>1, <3>2
  <2>5. FirstSums(s, n + 1, g)
    <3> HIDE DEF g
    <3> QED
      BY <2>3, <2>4 DEF FirstSums
  <2> QED
    BY <2>5 DEF HasSums
<1>4. HasSums(s, Len(s))
  <2>1. 0 \in S
    BY <1>2
  <2>2. ASSUME NEW n \in Nat, n \in S PROVE n + 1 \in S
    BY <1>1, <1>3, <2>2
  <2>3. Len(s) \in S
    <3> HIDE DEF S
    <3> QED
      BY <1>1, <2>1, <2>2, SetInduction
  <2> QED
    BY <1>1, <2>3
<1>5. PICK f : FirstSums(s, Len(s), f)
  BY <1>4 DEF HasSums
<1>6. f = [n \in 0..Len(s) |-> f[n]]
  BY <1>5 DEF FirstSums
<1> QED
  BY <1>5, <1>6 DEF Sums, FirstSums

(* Sequences that agree have sums that agree. *)
LEMMA SumsAgree ==
  ASSUME NEW s \in Seq(Nat), NEW t \in Seq(Nat), NEW f, NEW g,
         Sums(s, f), Sums(t, g), NEW m \in Nat, m <= Len(s), m <= Len(t),
         \A i \in 1..m : s[i] = t[i]
  PROVE  f[m] = g[m]
<1> DEFINE S == {n \in Nat : n <= m => f[n] = g[n]}
<1>1. Len(s) \in Nat /\ Len(t) \in Nat
  BY LenProperties
<1>2. /\ \A n \in 0..Len(s) : f[n] = IF n = 0 THEN 0 ELSE f[n - 1] + Tokens(s[n])
      /\ \A n \in 0..Len(t) : g[n] = IF n = 0 THEN 0 ELSE g[n - 1] + Tokens(t[n])
  BY DEF Sums
<1>3. 0 \in S
  BY <1>1, <1>2
<1>4. ASSUME NEW n \in Nat, n \in S PROVE n + 1 \in S
  <2>1. CASE n + 1 <= m
    <3>1. /\ n + 1 \in 0..Len(s) /\ n + 1 \in 0..Len(t) /\ n + 1 \in 1..m
          /\ n + 1 # 0 /\ (n + 1) - 1 = n /\ f[n] = g[n]
      BY <1>1, <1>4, <2>1
    <3>2. f[n + 1] = f[n] + Tokens(s[n + 1]) /\ g[n + 1] = g[n] + Tokens(t[n + 1])
      BY <1>2, <3>1
    <3> QED
      BY <3>1, <3>2
  <2> QED
    BY <2>1
<1>5. m \in S
  <2> HIDE DEF S
  <2> QED
    BY <1>3, <1>4, SetInduction
<1> QED
  BY <1>5

(* What TokensOf is: zero of nothing, and one item after another. *)
LEMMA TokensOfItems ==
  /\ \A s \in Seq(Nat) : TokensOf(s) \in Nat
  /\ TokensOf(<<>>) = 0
  /\ \A s \in Seq(Nat), x \in Nat : TokensOf(Append(s, x)) = TokensOf(s) + Tokens(x)
<1>1. ASSUME NEW s \in Seq(Nat)
      PROVE  \E f : /\ Sums(s, f) /\ TokensOf(s) = f[Len(s)] /\ TokensOf(s) \in Nat
  <2>1. Len(s) \in Nat
    BY LenProperties
  <2>2. PICK g \in [0..Len(s) -> Nat] : Sums(s, g)
    BY SumsExist
  <2>3. PICK f : Sums(s, f) /\ TokensOf(s) = f[Len(s)]
    BY <2>2, TokensOfSums
  <2>4. f[Len(s)] = g[Len(s)]
    <3>1. Len(s) <= Len(s) /\ \A i \in 1..Len(s) : s[i] = s[i]
      BY <2>1
    <3> QED
      BY <2>1, <2>2, <2>3, <3>1, SumsAgree
  <2>5. g[Len(s)] \in Nat
    BY <2>1, <2>2
  <2> QED
    BY <2>3, <2>4, <2>5
<1>2. TokensOf(<<>>) = 0
  <2>1. <<>> \in Seq(Nat) /\ Len(<<>>) = 0
    BY EmptySeq
  <2>2. PICK f : Sums(<<>>, f) /\ TokensOf(<<>>) = f[0]
    BY <1>1, <2>1
  <2> QED
    BY <2>1, <2>2 DEF Sums
<1>3. ASSUME NEW s \in Seq(Nat), NEW x \in Nat
      PROVE  TokensOf(Append(s, x)) = TokensOf(s) + Tokens(x)
  <2> DEFINE t == Append(s, x)
  <2>1. /\ t \in Seq(Nat) /\ Len(t) = Len(s) + 1 /\ t[Len(s) + 1] = x
        /\ \A i \in 1..Len(s) : t[i] = s[i]
        /\ Len(s) \in Nat
    BY AppendProperties, LenProperties
  <2> HIDE DEF t
  <2>2. PICK f : Sums(s, f) /\ TokensOf(s) = f[Len(s)]
    BY <1>1
  <2>3. PICK g : Sums(t, g) /\ TokensOf(t) = g[Len(t)]
    BY <1>1, <2>1
  <2>4. f[Len(s)] = g[Len(s)]
    <3>1. Len(s) <= Len(s) /\ Len(s) <= Len(t)
      BY <2>1
    <3>2. \A i \in 1..Len(s) : s[i] = t[i]
      BY <2>1
    <3>3. Sums(s, f) /\ Sums(t, g)
      BY <2>2, <2>3
    <3>4. t \in Seq(Nat) /\ Len(s) \in Nat
      BY <2>1
    <3> QED
      BY <3>1, <3>2, <3>3, <3>4, SumsAgree
  <2>5. /\ Len(s) + 1 \in 0..Len(t) /\ Len(s) + 1 # 0 /\ (Len(s) + 1) - 1 = Len(s)
    BY <2>1
  <2>6. g[Len(s) + 1] = g[Len(s)] + Tokens(t[Len(s) + 1])
    BY <2>3, <2>5 DEF Sums
  <2>7. TokensOf(t) = g[Len(s) + 1]
    BY <2>1, <2>3
  <2>8. TokensOf(t) = TokensOf(s) + Tokens(x)
    BY <2>1, <2>2, <2>4, <2>6, <2>7
  <2> QED
    BY <2>8 DEF t
<1> QED
  BY <1>1, <1>2, <1>3


-----------------------------------------------------------------------------
(* Parts of sequences.                                                     *)

(* A part of a sequence, by its items. *)
LEMMA Part ==
  ASSUME NEW s \in Seq(Nat), NEW m \in Nat \ {0}, NEW n \in 0..Len(s), m <= n + 1
  PROVE  /\ SubSeq(s, m, n) \in Seq(Nat)
         /\ Len(SubSeq(s, m, n)) = n - m + 1
         /\ \A i \in 1..(n - m + 1) : SubSeq(s, m, n)[i] = s[m + i - 1]
<1>1. Len(s) \in Nat /\ \A i \in 1..Len(s) : s[i] \in Nat
  BY LenProperties, ElementOfSeq
<1>2. \A i \in m..n : s[i] \in Nat
  BY <1>1
<1> QED
  BY <1>1, <1>2, SubSeqProperties

(* Sequences with the same items are the same. *)
LEMMA SameItems ==
  ASSUME NEW s \in Seq(Nat), NEW t \in Seq(Nat), Len(s) = Len(t),
         \A i \in 1..Len(s) : s[i] = t[i]
  PROVE  s = t
  BY SeqEqual

(* One more item of the sequence is one more Append. *)
LEMMA PartGrows ==
  ASSUME NEW s \in Seq(Nat), NEW n \in 0..Len(s), n + 1 <= Len(s)
  PROVE  /\ SubSeq(s, 1, n + 1) = Append(SubSeq(s, 1, n), s[n + 1])
         /\ TokensOf(SubSeq(s, 1, n + 1)) = TokensOf(SubSeq(s, 1, n)) + Tokens(s[n + 1])
<1>1. Len(s) \in Nat /\ n \in Nat /\ s[n + 1] \in Nat
  BY LenProperties, ElementOfSeq
<1> DEFINE a == SubSeq(s, 1, n)
           b == SubSeq(s, 1, n + 1)
<1>2. /\ a \in Seq(Nat) /\ Len(a) = n /\ \A i \in 1..n : a[i] = s[i]
  BY <1>1, Part
<1>3. /\ b \in Seq(Nat) /\ Len(b) = n + 1 /\ \A i \in 1..(n + 1) : b[i] = s[i]
  BY <1>1, Part
<1> HIDE DEF a, b
<1>4. /\ Append(a, s[n + 1]) \in Seq(Nat) /\ Len(Append(a, s[n + 1])) = n + 1
      /\ \A i \in 1..n : Append(a, s[n + 1])[i] = a[i]
      /\ Append(a, s[n + 1])[n + 1] = s[n + 1]
  BY <1>1, <1>2, AppendProperties
<1>5. b = Append(a, s[n + 1])
  <2>1. \A i \in 1..(n + 1) : i \in 1..n \/ i = n + 1
    BY <1>1
  <2>2. \A i \in 1..(n + 1) : b[i] = Append(a, s[n + 1])[i]
    BY <1>1, <1>2, <1>3, <1>4, <2>1
  <2> QED
    BY <1>3, <1>4, <2>2, SameItems
<1>6. TokensOf(Append(a, s[n + 1])) = TokensOf(a) + Tokens(s[n + 1])
  BY <1>1, <1>2, TokensOfItems
<1> QED
  BY <1>5, <1>6 DEF a, b

LEMMA WholePart ==
  ASSUME NEW s \in Seq(Nat)
  PROVE  SubSeq(s, 1, Len(s)) = s /\ SubSeq(s, 1, 0) = <<>>
<1>1. Len(s) \in Nat
  BY LenProperties
<1>2. /\ SubSeq(s, 1, Len(s)) \in Seq(Nat) /\ Len(SubSeq(s, 1, Len(s))) = Len(s)
      /\ \A i \in 1..Len(s) : SubSeq(s, 1, Len(s))[i] = s[i]
  BY <1>1, Part
<1>3. SubSeq(s, 1, Len(s)) = s
  BY <1>2, SameItems
<1> QED
  BY <1>1, <1>3, SubSeqEmpty

(* An item in front and one at the end may be added in either order. *)
LEMMA AppendAfter ==
  ASSUME NEW a \in Seq(Nat), NEW x \in Nat, NEW y \in Nat
  PROVE  <<x>> \o Append(a, y) = Append(<<x>> \o a, y)
<1>1. <<x>> \in Seq(Nat) /\ <<y>> \in Seq(Nat)
  OBVIOUS
<1>2. ASSUME NEW f \in Seq(Nat), NEW l \in Seq(Nat)
      PROVE  (f \o a) \o l = f \o (a \o l)
  BY ConcatAssociative, SMTT(30)
<1>3. (<<x>> \o a) \o <<y>> = <<x>> \o (a \o <<y>>)
  BY <1>1, <1>2, Zenon
<1>4. (<<x>> \o a) \in Seq(Nat)
  BY <1>1, ConcatProperties
<1>5. /\ Append(a, y) = a \o <<y>>
      /\ Append(<<x>> \o a, y) = (<<x>> \o a) \o <<y>>
  BY <1>4, AppendIsConcat
<1>6. <<x>> \o Append(a, y) = <<x>> \o (a \o <<y>>)
  BY <1>5, Zenon
<1> QED
  BY <1>3, <1>5, <1>6, Zenon

FrontCounts(s, x, n) ==
  TokensOf(<<x>> \o SubSeq(s, 1, n)) = Tokens(x) + TokensOf(SubSeq(s, 1, n))

(* An item in front counts as one at the end. *)
LEMMA TokensOfFront ==
  ASSUME NEW s \in Seq(Nat), NEW x \in Nat
  PROVE  TokensOf(<<x>> \o s) = Tokens(x) + TokensOf(s)
<1> DEFINE S == {n \in Nat : n <= Len(s) => FrontCounts(s, x, n)}
<1>1. /\ Len(s) \in Nat /\ <<x>> \in Seq(Nat) /\ Len(<<x>>) = 1 /\ <<x>>[1] = x
      /\ \A i \in 1..Len(s) : s[i] \in Nat
  BY LenProperties, ElementOfSeq
<1>2. FrontCounts(s, x, 0)
  <2>1. SubSeq(s, 1, 0) = <<>> /\ <<x>> \o <<>> = <<x>> /\ <<x>> = Append(<<>>, x)
    BY <1>1, WholePart, ConcatEmptySeq
  <2>2. TokensOf(<<x>>) = Tokens(x) /\ TokensOf(<<>>) = 0 /\ Tokens(x) \in Nat
    <3>1. <<>> \in Seq(Nat)
      OBVIOUS
    <3>2. Tokens(x) \in Nat
      BY TokensNat
    <3>3. TokensOf(<<>>) = 0
      BY TokensOfItems, Zenon
    <3>4. TokensOf(Append(<<>>, x)) = TokensOf(<<>>) + Tokens(x)
      BY <3>1, TokensOfItems, Zenon
    <3>5. TokensOf(<<x>>) = TokensOf(<<>>) + Tokens(x)
      BY <2>1, <3>4, Zenon
    <3>6. TokensOf(<<x>>) = 0 + Tokens(x)
      BY <3>3, <3>5, Zenon
    <3> QED
      BY <3>2, <3>3, <3>6
  <2>3. /\ TokensOf(<<x>> \o SubSeq(s, 1, 0)) = TokensOf(<<x>>)
        /\ TokensOf(SubSeq(s, 1, 0)) = TokensOf(<<>>)
    BY <2>1, Zenon
  <2>4. Tokens(x) = Tokens(x) + 0
    BY <2>2
  <2>5. Tokens(x) + TokensOf(SubSeq(s, 1, 0)) = Tokens(x) + 0
    BY <2>2, <2>3, Zenon
  <2> QED
    BY <2>2, <2>3, <2>4, <2>5, Zenon DEF FrontCounts
<1>3. ASSUME NEW n \in Nat, FrontCounts(s, x, n), n + 1 <= Len(s)
      PROVE  FrontCounts(s, x, n + 1)
  <2> DEFINE a == SubSeq(s, 1, n)
  <2>1. n \in 0..Len(s) /\ s[n + 1] \in Nat /\ n <= Len(s)
    BY <1>1, <1>3
  <2>2. a \in Seq(Nat)
    BY <2>1, Part
  <2>3. /\ SubSeq(s, 1, n + 1) = Append(a, s[n + 1])
        /\ TokensOf(SubSeq(s, 1, n + 1)) = TokensOf(a) + Tokens(s[n + 1])
    BY <1>3, <2>1, PartGrows
  <2>4. TokensOf(<<x>> \o a) = Tokens(x) + TokensOf(a)
    BY <1>3 DEF FrontCounts
  <2> HIDE DEF a
  <2>5. <<x>> \o Append(a, s[n + 1]) = Append(<<x>> \o a, s[n + 1])
    BY <1>1, <2>1, <2>2, AppendAfter, Zenon
  <2>6. (<<x>> \o a) \in Seq(Nat)
    BY <1>1, <2>2, ConcatProperties
  <2>7. TokensOf(Append(<<x>> \o a, s[n + 1])) = TokensOf(<<x>> \o a) + Tokens(s[n + 1])
    BY <2>1, <2>6, TokensOfItems
  <2>8. TokensOf(a) \in Nat /\ Tokens(x) \in Nat /\ Tokens(s[n + 1]) \in Nat
    BY <2>1, <2>2, TokensOfItems, TokensNat
  <2> QED
    <3> DEFINE u == TokensOf(SubSeq(s, 1, n + 1))
               v == TokensOf(<<x>> \o SubSeq(s, 1, n + 1))
               w == TokensOf(<<x>> \o a)
    <3>1. v = w + Tokens(s[n + 1])
      BY <2>3, <2>5, <2>7, Zenon
    <3>2. u = TokensOf(a) + Tokens(s[n + 1]) /\ w = Tokens(x) + TokensOf(a)
      BY <2>3, <2>4
    <3> HIDE DEF u, v, w
    <3>3. v = Tokens(x) + u
      BY <2>8, <3>1, <3>2
    <3> QED
      BY <3>3 DEF FrontCounts, u, v
<1>4. FrontCounts(s, x, Len(s))
  <2>1. 0 \in S
    BY <1>2
  <2>2. ASSUME NEW n \in Nat, n \in S PROVE n + 1 \in S
    BY <1>1, <1>3, <2>2
  <2>3. Len(s) \in S
    <3> HIDE DEF S
    <3> QED
      BY <1>1, <2>1, <2>2, SetInduction
  <2> QED
    BY <1>1, <2>3
<1>5. SubSeq(s, 1, Len(s)) = s
  BY WholePart
<1> QED
  BY <1>4, <1>5 DEF FrontCounts


-----------------------------------------------------------------------------
(* Truncation.                                                             *)

(* What FitNewest counts from the end of s is what that end counts. *)
EndCounts(s, n) ==
  TokensOf(SubSeq(Reverse(s), 1, n)) = TokensOf(SubSeq(s, Len(s) - n + 1, Len(s)))

LEMMA Reversed ==
  ASSUME NEW s \in Seq(Nat)
  PROVE  /\ Reverse(s) \in Seq(Nat) /\ Len(Reverse(s)) = Len(s)
         /\ \A i \in 1..Len(s) : Reverse(s)[i] = s[Len(s) - i + 1]
<1>1. Len(s) \in Nat /\ \A i \in 1..Len(s) : s[i] \in Nat
  BY LenProperties, ElementOfSeq
<1>2. \A i \in 1..Len(s) : Len(s) - i + 1 \in 1..Len(s)
  BY <1>1
<1>3. Reverse(s) = [i \in 1..Len(s) |-> s[Len(s) - i + 1]]
  BY DEF Reverse
<1>4. \A i \in 1..Len(s) : s[Len(s) - i + 1] \in Nat
  BY <1>1, <1>2
<1>5. Reverse(s) \in Seq(Nat)
  BY <1>1, <1>3, <1>4, IsASeq
<1>6. Reverse(s) \in [1..Len(s) -> Nat]
  BY <1>3, <1>4
<1>7. Len(Reverse(s)) = Len(s)
  <2>1. DOMAIN Reverse(s) = 1..Len(Reverse(s)) /\ Len(Reverse(s)) \in Nat
    BY <1>5, LenProperties
  <2>2. DOMAIN Reverse(s) = 1..Len(s)
    BY <1>6
  <2> QED
    BY <1>1, <2>1, <2>2
<1> QED
  BY <1>3, <1>5, <1>7

LEMMA EndsCount ==
  ASSUME NEW s \in Seq(Nat), NEW m \in 0..Len(s)
  PROVE  EndCounts(s, m)
<1> DEFINE S == {n \in Nat : n <= Len(s) => EndCounts(s, n)}
           r == Reverse(s)
<1>1. /\ Len(s) \in Nat /\ \A i \in 1..Len(s) : s[i] \in Nat
      /\ r \in Seq(Nat) /\ Len(r) = Len(s)
      /\ \A i \in 1..Len(s) : r[i] = s[Len(s) - i + 1]
  BY LenProperties, ElementOfSeq, Reversed
<1>2. EndCounts(s, 0)
  <2>1. SubSeq(r, 1, 0) = <<>>
    BY <1>1, WholePart
  <2>2. SubSeq(s, Len(s) - 0 + 1, Len(s)) = <<>>
    BY <1>1, SubSeqEmpty
  <2> QED
    BY <2>1, <2>2, Zenon DEF EndCounts
<1>3. ASSUME NEW n \in Nat, EndCounts(s, n), n + 1 <= Len(s)
      PROVE  EndCounts(s, n + 1)
  <2> DEFINE L == Len(s)
             x == s[L - n]
             tail == SubSeq(s, L - n + 1, L)
             more == SubSeq(s, L - n, L)
  <2>1. /\ L \in Nat /\ L - n \in 1..L /\ L - n + 1 \in Nat \ {0} /\ x \in Nat
        /\ L - (n + 1) + 1 = L - n /\ n \in 0..L /\ n + 1 \in 1..L
    <3>1. L \in Nat /\ n \in Nat /\ n + 1 <= L
      BY <1>1, <1>3
    <3>2. /\ L - n \in 1..L /\ L - n + 1 \in Nat \ {0}
          /\ L - (n + 1) + 1 = L - n /\ n \in 0..L /\ n + 1 \in 1..L
      <4> HIDE DEF L
      <4> QED
        BY <3>1
    <3>3. x \in Nat
      BY <1>1, <3>2
    <3> QED
      BY <3>1, <3>2, <3>3
  <2>2. /\ tail \in Seq(Nat) /\ Len(tail) = n
        /\ \A i \in 1..n : tail[i] = s[L - n + i]
    <3>0. L \in 0..Len(s) /\ L - n + 1 \in Nat \ {0} /\ L - n + 1 <= L + 1
      <4>1. L \in 0..Len(s)
        BY <2>1
      <4> HIDE DEF L
      <4>2. L - n + 1 \in Nat \ {0} /\ L - n + 1 <= L + 1
        BY <2>1
      <4> QED
        BY <4>1, <4>2
    <3>1. /\ tail \in Seq(Nat) /\ Len(tail) = L - (L - n + 1) + 1
          /\ \A i \in 1..(L - (L - n + 1) + 1) : tail[i] = s[(L - n + 1) + i - 1]
      BY <3>0, Part
    <3>2. L - (L - n + 1) + 1 = n /\ \A i \in 1..n : (L - n + 1) + i - 1 = L - n + i
      BY <2>1
    <3> QED
      BY <3>1, <3>2
  <2>3. /\ more \in Seq(Nat) /\ Len(more) = n + 1
        /\ \A i \in 1..(n + 1) : more[i] = s[L - n + i - 1]
    <3>0. L \in 0..Len(s) /\ L - n \in Nat \ {0} /\ L - n <= L + 1
      <4>1. L \in 0..Len(s)
        BY <2>1
      <4> HIDE DEF L
      <4>2. L - n \in Nat \ {0} /\ L - n <= L + 1
        BY <2>1
      <4> QED
        BY <4>1, <4>2
    <3>1. /\ more \in Seq(Nat) /\ Len(more) = L - (L - n) + 1
          /\ \A i \in 1..(L - (L - n) + 1) : more[i] = s[(L - n) + i - 1]
      BY <3>0, Part
    <3>2. L - (L - n) + 1 = n + 1
      BY <2>1
    <3> QED
      BY <3>1, <3>2
  <2>4. TokensOf(SubSeq(r, 1, n + 1)) = TokensOf(SubSeq(r, 1, n)) + Tokens(r[n + 1])
    BY <1>1, <1>3, <2>1, PartGrows
  <2>5. r[n + 1] = x
    <3>1. L - (n + 1) + 1 = L - n
      BY <2>1
    <3> QED
      BY <1>1, <2>1, <3>1
  <2>6. TokensOf(SubSeq(r, 1, n)) = TokensOf(tail)
    BY <1>3 DEF EndCounts
  <2> HIDE DEF x, tail, more
  <2>7. more = <<x>> \o tail
    <3> DEFINE first == <<x>>
    <3>1. first \in Seq(Nat) /\ Len(first) = 1 /\ first[1] = x
      BY <2>1
    <3> HIDE DEF first
    <3>2. /\ (first \o tail) \in Seq(Nat) /\ Len(first \o tail) = n + 1
          /\ \A i \in 1..(n + 1) :
               (first \o tail)[i] = IF i <= 1 THEN first[i] ELSE tail[i - 1]
      <4>1. /\ (first \o tail) \in Seq(Nat) /\ Len(first \o tail) = 1 + n
            /\ \A i \in 1..(1 + n) :
                 (first \o tail)[i] = IF i <= 1 THEN first[i] ELSE tail[i - 1]
        <5>1. /\ (first \o tail) \in Seq(Nat)
              /\ Len(first \o tail) = Len(first) + Len(tail)
              /\ \A i \in 1..(Len(first) + Len(tail)) :
                   (first \o tail)[i] = IF i <= Len(first) THEN first[i] ELSE tail[i - Len(first)]
          BY <2>2, <3>1, ConcatProperties
        <5> QED
          BY <2>2, <3>1, <5>1
      <4>2. 1 + n = n + 1
        BY <2>1
      <4> QED
        BY <4>1, <4>2
    <3>3. ASSUME NEW i \in 1..(n + 1) PROVE more[i] = (first \o tail)[i]
      <4>1. CASE i = 1
        <5>1. L - n + 1 - 1 = L - n /\ 1 \in 1..(n + 1)
          BY <2>1
        <5>2. more[1] = x
          BY <2>3, <5>1 DEF x
        <5>3. (first \o tail)[1] = x
          BY <3>1, <3>2, <5>1
        <5> QED
          BY <4>1, <5>2, <5>3
      <4>2. CASE i # 1
        <5>1. i - 1 \in 1..n /\ ~(i <= 1) /\ L - n + (i - 1) = L - n + i - 1
          BY <2>1, <4>2
        <5> QED
          BY <2>2, <2>3, <3>2, <5>1
      <4> QED
        BY <4>1, <4>2
    <3>4. more = first \o tail
      BY <2>3, <3>2, <3>3, SameItems
    <3> QED
      BY <3>4 DEF first
  <2>8. TokensOf(<<x>> \o tail) = Tokens(x) + TokensOf(tail)
    BY <2>1, <2>2, TokensOfFront
  <2>9. Tokens(x) \in Nat /\ TokensOf(tail) \in Nat
    BY <2>1, <2>2, TokensNat, TokensOfItems
  <2>10. TokensOf(more) = TokensOf(tail) + Tokens(x)
    <3>1. TokensOf(more) = Tokens(x) + TokensOf(tail)
      BY <2>7, <2>8, Zenon
    <3> QED
      BY <2>9, <3>1
  <2>11. TokensOf(SubSeq(r, 1, n + 1)) = TokensOf(more)
    BY <2>4, <2>5, <2>6, <2>10
  <2> QED
    BY <2>1, <2>11 DEF EndCounts, more
<1>4. 0 \in S
  BY <1>2
<1>5. ASSUME NEW n \in Nat, n \in S PROVE n + 1 \in S
  BY <1>1, <1>3, <1>5
<1>6. m \in S
  <2>1. m \in Nat
    BY <1>1
  <2> HIDE DEF S, r
  <2>2. Nat \subseteq S
    BY <1>4, <1>5, SetInduction
  <2> QED
    BY <2>1, <2>2
<1> QED
  BY <1>1, <1>6


HasGreatest(T) == \E x \in T : \A y \in T : x >= y

(* A bounded set of numbers has a greatest. *)
LEMMA Greatest ==
  ASSUME NEW n \in Nat, NEW T, T \subseteq 0..n, T # {}
  PROVE  Max(T) \in T /\ \A y \in T : Max(T) >= y
<1> DEFINE S == {m \in Nat : \A U \in SUBSET (0..m) : U # {} => HasGreatest(U)}
<1>1. 0 \in S
  <2> SUFFICES ASSUME NEW U \in SUBSET (0..0), U # {} PROVE HasGreatest(U)
    OBVIOUS
  <2>1. \A y \in U : y = 0
    OBVIOUS
  <2>2. PICK x \in U : TRUE
    OBVIOUS
  <2>3. x = 0 /\ \A y \in U : x >= y
    BY <2>1
  <2> QED
    BY <2>3 DEF HasGreatest
<1>2. ASSUME NEW m \in Nat, m \in S PROVE m + 1 \in S
  <2> SUFFICES ASSUME NEW U \in SUBSET (0..(m + 1)), U # {} PROVE HasGreatest(U)
    OBVIOUS
  <2>1. CASE m + 1 \in U
    BY <2>1 DEF HasGreatest
  <2>2. CASE m + 1 \notin U
    <3>1. U \in SUBSET (0..m)
      BY <2>2
    <3> QED
      BY <1>2, <3>1
  <2> QED
    BY <2>1, <2>2
<1>3. HasGreatest(T)
  <2>1. n \in S
    <3> HIDE DEF S
    <3> QED
      BY <1>1, <1>2, SetInduction
  <2> QED
    BY <2>1
<1> QED
  BY <1>3 DEF HasGreatest, Max

(* _truncate_items keeps the longest beginning that fits. *)
LEMMA FitKeeps ==
  ASSUME NEW s \in Seq(Nat), NEW max \in Nat
  PROVE  \E n \in 0..Len(s) :
           /\ Fit(s, max) = SubSeq(s, 1, n)
           /\ TokensOf(SubSeq(s, 1, n)) <= max
           /\ n < Len(s) => max = 0 \/ TokensOf(SubSeq(s, 1, n + 1)) > max
<1>1. Len(s) \in Nat /\ SubSeq(s, 1, 0) = <<>>
  BY LenProperties, WholePart
<1>2. TokensOf(SubSeq(s, 1, 0)) = 0
  BY <1>1, TokensOfItems, Zenon
<1>3. CASE max = 0
  <2>1. Fit(s, max) = <<>>
    BY <1>3 DEF Fit
  <2>2. Fit(s, max) = SubSeq(s, 1, 0) /\ 0 \in 0..Len(s)
    BY <1>1, <2>1
  <2> QED
    BY <1>2, <1>3, <2>2
<1>4. CASE max > 0
  <2> DEFINE T == {n \in 0..Len(s) : TokensOf(SubSeq(s, 1, n)) <= max}
             m == Max(T)
  <2>1. 0 \in T /\ T \subseteq 0..Len(s)
    BY <1>1, <1>2, <1>4
  <2>2. m \in T /\ \A y \in T : m >= y
    <3> HIDE DEF T
    <3> QED
      BY <1>1, <2>1, Greatest
  <2>3. Fit(s, max) = SubSeq(s, 1, m)
    <3>1. ~(max <= 0)
      BY <1>4
    <3> QED
      BY <3>1, Zenon DEF Fit
  <2>4. m \in 0..Len(s) /\ TokensOf(SubSeq(s, 1, m)) <= max
    BY <2>2
  <2>5. ASSUME m < Len(s) PROVE TokensOf(SubSeq(s, 1, m + 1)) > max
    <3>1. m + 1 \in 0..Len(s) /\ m + 1 \notin T
      BY <1>1, <2>2, <2>4, <2>5
    <3>2. ~(TokensOf(SubSeq(s, 1, m + 1)) <= max)
      BY <3>1
    <3>3. SubSeq(s, 1, m + 1) \in Seq(Nat)
      <4>1. 1 <= m + 1 + 1
        BY <2>4
      <4> HIDE DEF m
      <4> QED
        BY <1>1, <3>1, <4>1, Part
    <3>4. TokensOf(SubSeq(s, 1, m + 1)) \in Nat
      BY <3>3, TokensOfItems
    <3> HIDE DEF m
    <3> QED
      BY <3>2, <3>4
  <2> HIDE DEF m, T
  <2> QED
    BY <2>3, <2>4, <2>5
<1> QED
  BY <1>3, <1>4

(* What is kept of a list is a list, and fits; a list kept whole is as it was. *)
LEMMA FitFits ==
  ASSUME NEW s \in Seq(Nat), NEW max \in Nat
  PROVE  /\ Fit(s, max) \in Seq(Nat)
         /\ TokensOf(Fit(s, max)) \in Nat /\ TokensOf(Fit(s, max)) <= max
         /\ Len(Fit(s, max)) \in 0..Len(s)
         /\ Len(Fit(s, max)) = Len(s) => Fit(s, max) = s
<1>1. PICK n \in 0..Len(s) :
        Fit(s, max) = SubSeq(s, 1, n) /\ TokensOf(SubSeq(s, 1, n)) <= max
  BY FitKeeps
<1>2. Len(s) \in Nat
  BY LenProperties
<1>3. SubSeq(s, 1, n) \in Seq(Nat) /\ Len(SubSeq(s, 1, n)) = n
  BY <1>2, Part
<1>4. TokensOf(Fit(s, max)) \in Nat /\ TokensOf(Fit(s, max)) <= max
  BY <1>1, <1>3, TokensOfItems
<1>5. n = Len(s) => Fit(s, max) = s
  BY <1>1, WholePart
<1> QED
  BY <1>1, <1>3, <1>4, <1>5

(* _truncate_messages keeps the longest end that fits. *)
LEMMA FitNewestKeeps ==
  ASSUME NEW s \in Seq(Nat), NEW max \in Nat
  PROVE  \E n \in 0..Len(s) :
           /\ FitNewest(s, max) = SubSeq(s, Len(s) - n + 1, Len(s))
           /\ FitNewest(s, max) \in Seq(Nat) /\ Len(FitNewest(s, max)) = n
           /\ TokensOf(FitNewest(s, max)) \in Nat /\ TokensOf(FitNewest(s, max)) <= max
           /\ n = Len(s) => FitNewest(s, max) = s
           /\ n < Len(s) => \/ max = 0
                            \/ TokensOf(SubSeq(s, Len(s) - n, Len(s))) > max
<1> DEFINE r == Reverse(s)
           L == Len(s)
<1>1. /\ L \in Nat /\ r \in Seq(Nat) /\ Len(r) = L
      /\ \A i \in 1..L : r[i] = s[L - i + 1]
  BY LenProperties, Reversed
<1>2. PICK n \in 0..L :
        /\ Fit(r, max) = SubSeq(r, 1, n)
        /\ TokensOf(SubSeq(r, 1, n)) <= max
        /\ n < L => max = 0 \/ TokensOf(SubSeq(r, 1, n + 1)) > max
  BY <1>1, FitKeeps
<1> DEFINE a == SubSeq(r, 1, n)
           e == SubSeq(s, L - n + 1, L)
<1>3. /\ a \in Seq(Nat) /\ Len(a) = n /\ \A i \in 1..n : a[i] = r[i]
  BY <1>1, Part
<1>4. /\ e \in Seq(Nat) /\ Len(e) = n /\ \A i \in 1..n : e[i] = s[L - n + i]
  <2>1. L - n + 1 \in Nat \ {0} /\ L - n + 1 <= L + 1 /\ L \in 0..L
    BY <1>1
  <2>2. /\ e \in Seq(Nat) /\ Len(e) = L - (L - n + 1) + 1
        /\ \A i \in 1..(L - (L - n + 1) + 1) : e[i] = s[(L - n + 1) + i - 1]
    BY <2>1, Part
  <2>3. L - (L - n + 1) + 1 = n /\ \A i \in 1..n : (L - n + 1) + i - 1 = L - n + i
    BY <1>1
  <2> QED
    BY <2>2, <2>3
<1>5. FitNewest(s, max) = Reverse(a)
  BY <1>2 DEF FitNewest
<1>6. TokensOf(a) = TokensOf(e)
  BY EndsCount DEF EndCounts
<1>7. n < L => TokensOf(SubSeq(r, 1, n + 1)) = TokensOf(SubSeq(s, L - n, L))
  <2>1. SUFFICES ASSUME n < L
        PROVE  TokensOf(SubSeq(r, 1, n + 1)) = TokensOf(SubSeq(s, L - n, L))
    OBVIOUS
  <2>2. n + 1 \in 0..L /\ L - (n + 1) + 1 = L - n
    BY <1>1, <2>1
  <2>3. EndCounts(s, n + 1)
    BY <2>2, EndsCount
  <2> QED
    BY <2>2, <2>3 DEF EndCounts
<1>8. n = L => e = s
  <2>1. SUFFICES ASSUME n = L PROVE e = s
    OBVIOUS
  <2>2. L - n + 1 = 1
    BY <1>1, <2>1
  <2> QED
    BY <2>2, WholePart
<1> HIDE DEF a, e
<1>9. /\ Reverse(a) \in Seq(Nat) /\ Len(Reverse(a)) = n
      /\ \A i \in 1..n : Reverse(a)[i] = a[n - i + 1]
  BY <1>3, Reversed
<1>10. ASSUME NEW i \in 1..n PROVE Reverse(a)[i] = e[i]
  <2>1. /\ n - i + 1 \in 1..n /\ n - i + 1 \in 1..L
        /\ L - (n - i + 1) + 1 = L - n + i
    BY <1>1
  <2>2. a[n - i + 1] = r[n - i + 1] /\ r[n - i + 1] = s[L - (n - i + 1) + 1]
    BY <1>1, <1>3, <2>1
  <2> QED
    BY <1>4, <1>9, <2>1, <2>2
<1>11. Reverse(a) = e
  BY <1>4, <1>9, <1>10, SameItems
<1>12. FitNewest(s, max) = e /\ TokensOf(e) \in Nat /\ TokensOf(e) <= max
  BY <1>2, <1>4, <1>5, <1>6, <1>11, TokensOfItems DEF a
<1> QED
  BY <1>2, <1>4, <1>7, <1>8, <1>12 DEF e


-----------------------------------------------------------------------------
(* The budget.                                                             *)

LEMMA LessLeast ==
  ASSUME NEW m \in Nat, NEW n \in Nat
  PROVE  /\ Less(m, n) \in Nat /\ Less(m, n) <= m
         /\ n <= m => Less(m, n) = m - n
         /\ m < n => Less(m, n) = 0
         /\ Least(m, n) \in Nat /\ Least(m, n) <= m /\ Least(m, n) <= n
  BY DEF Less, Least

LEMMA CutFits ==
  ASSUME NEW size \in Nat, NEW max \in Nat
  PROVE  /\ Cut(size, max) \in Nat /\ Tokens(Cut(size, max)) \in Nat
         /\ Tokens(Cut(size, max)) <= max
         /\ Cut(size, max) <= size
<1>1. CASE max = 0
  BY <1>1 DEF Cut, Tokens
<1>2. CASE max # 0 /\ Tokens(size) <= max
  BY <1>2, TokensNat DEF Cut
<1>3. CASE max # 0 /\ ~(Tokens(size) <= max)
  <2>1. Cut(size, max) = 4 * max
    BY <1>3 DEF Cut
  <2>2. 4 * max \in Nat /\ 4 * max # 0 /\ ~(4 * max < 4) /\ (4 * max) \div 4 = max
    BY <1>3
  <2>3. Tokens(size) = size \div 4
    BY <1>3 DEF Tokens
  <2>4. max < size \div 4
    BY <1>3, <2>3
  <2>5. 4 * max <= size
    BY <2>4
  <2> QED
    BY <2>1, <2>2, <2>5 DEF Tokens
<1> QED
  BY <1>1, <1>2, <1>3

(* What the completion leaves of the context, if it is a number. *)
LEMMA AvailableLeft ==
  ASSUME NEW in \in Input, in.max # Odd
  PROVE  /\ Completion(in) \in Int /\ Available(in) \in Nat
         /\ Available(in) # 0 => Available(in) = MaxContext - Completion(in)
<1>1. Completion(in) \in Int /\ MaxContext \in Nat
  BY ContextAssemblyAssumption DEF Input, Completion
<1> QED
  BY <1>1 DEF Available, Less

(* What holds of a bundle b made of the input in and what the searches     *)
(* found.                                                                  *)
Counted(c) ==
  Tokens(c.system) + TokensOf(c.recent) + Tokens(c.profile)
    + TokensOf(c.knowledge) + TokensOf(c.memories)

Fits(c, in) ==
  \/ Counted(c) + Completion(in) <= MaxContext
  \/ Counted(c) = Tokens(c.system)

Newest(c, h) ==
  LET n == Len(h) - Len(c.recent)
  IN  /\ c.recent = SubSeq(h, n + 1, Len(h))
      /\ n > 0 => \/ Tokens(c.system) + TokensOf(SubSeq(h, n, Len(h))) > c.available
                  \/ Tokens(c.system) >= c.available

Whole(b, in, items, memories) ==
  ~b.truncated => /\ b.content.recent = in.history
                  /\ b.content.knowledge = items
                  /\ b.content.memories = memories
                  /\ b.content.profile = b.given

Bundles == [content: Content, truncated: BOOLEAN, given: Nat]

Proper(b, in, items, memories) ==
  /\ Fits(b.content, in) /\ Newest(b.content, in.history)
  /\ Whole(b, in, items, memories)

LEMMA SystemOnlyProper ==
  ASSUME NEW in \in Input, Tokens(in.system) > Available(in), Available(in) \in Nat
  PROVE  LET c == SystemOnly(in)
         IN  /\ c \in Content /\ Fits(c, in) /\ Newest(c, in.history)
             /\ c.used > c.available
<1> DEFINE c == SystemOnly(in)
           h == in.history
<1>1. /\ in.system \in Nat /\ h \in Seq(Nat) /\ Len(h) \in Nat
      /\ Tokens(in.system) \in Nat
  BY TokensNat, LenProperties DEF Input
<1>2. /\ c.system = in.system /\ c.recent = <<>> /\ c.available = Available(in)
      /\ c.used = Tokens(in.system)
      /\ c.profile = 0 /\ c.knowledge = <<>> /\ c.memories = <<>>
  BY DEF SystemOnly
<1>3. c \in Content
  BY <1>1 DEF SystemOnly, Content
<1>4. Newest(c, h)
  <2>1. Len(<<>>) = 0 /\ Len(h) - 0 = Len(h)
    BY <1>1
  <2>2. SubSeq(h, Len(h) + 1, Len(h)) = <<>>
    BY <1>1, SubSeqEmpty
  <2> HIDE DEF c, h
  <2>3. Tokens(c.system) >= c.available
    BY <1>1, <1>2
  <2> QED
    BY <1>2, <2>1, <2>2, <2>3 DEF Newest
<1>5. Fits(c, in)
  <2>1. TokensOf(<<>>) = 0 /\ Tokens(0) = 0
    BY TokensOfItems, Zenon DEF Tokens
  <2>2. /\ Tokens(c.system) = Tokens(in.system) /\ TokensOf(c.recent) = 0
        /\ Tokens(c.profile) = 0 /\ TokensOf(c.knowledge) = 0 /\ TokensOf(c.memories) = 0
    BY <1>2, <2>1
  <2> HIDE DEF c
  <2> QED
    BY <1>1, <2>2 DEF Fits, Counted
<1> QED
  BY <1>1, <1>2, <1>3, <1>4, <1>5

LEMMA BudgetedProper ==
  ASSUME NEW in \in Input, in.max # Odd, Tokens(in.system) <= Available(in),
         Available(in) \in Nat,
         NEW p \in Nat, NEW items \in Seq(Nat), NEW memories \in Seq(Nat)
  PROVE  LET c == Budgeted(in, p, items, memories)
         IN  /\ c \in Content /\ Fits(c, in) /\ Newest(c, in.history)
             /\ c.profile \in Nat /\ c.profile <= p
             /\ Len(c.recent) \in 0..Len(in.history)
             /\ Len(c.recent) = Len(in.history) => c.recent = in.history
             /\ Len(c.knowledge) \in 0..Len(items)
             /\ Len(c.knowledge) = Len(items) => c.knowledge = items
             /\ Len(c.memories) \in 0..Len(memories)
             /\ Len(c.memories) = Len(memories) => c.memories = memories
<1> DEFINE h         == in.history
           av        == Available(in)
           sys       == Tokens(in.system)
           room      == Less(av, sys)
           recent    == FitNewest(h, room)
           unused    == Less(room, TokensOf(recent))
           personal  == Least(Personalization, unused)
           cut       == Cut(p, personal)
           left      == Less(personal, Tokens(cut))
           knowledge == Fit(items, left)
           rest      == Less(left, TokensOf(knowledge))
           kept      == Fit(memories, rest)
           c         == Budgeted(in, p, items, memories)
<1>1. /\ in.system \in Nat /\ h \in Seq(Nat) /\ Len(h) \in Nat
      /\ sys \in Nat /\ av \in Nat /\ sys <= av
  BY TokensNat, LenProperties DEF Input
<1>2. /\ c.system = in.system /\ c.recent = recent /\ c.profile = cut
      /\ c.knowledge = knowledge /\ c.memories = kept /\ c.available = av
      /\ c.used = sys + TokensOf(recent) + Tokens(cut) + TokensOf(knowledge) + TokensOf(kept)
      /\ c = [system |-> in.system, recent |-> recent, profile |-> cut,
              knowledge |-> knowledge, memories |-> kept, available |-> av,
              used |-> sys + TokensOf(recent) + Tokens(cut)
                         + TokensOf(knowledge) + TokensOf(kept)]
  BY DEF Budgeted
<1> HIDE DEF av, sys
<1>3. room \in Nat /\ room = av - sys
  BY <1>1, LessLeast
<1> HIDE DEF room
<1>4. PICK n \in 0..Len(h) :
        /\ recent = SubSeq(h, Len(h) - n + 1, Len(h))
        /\ recent \in Seq(Nat) /\ Len(recent) = n
        /\ TokensOf(recent) \in Nat /\ TokensOf(recent) <= room
        /\ n = Len(h) => recent = h
        /\ n < Len(h) => room = 0 \/ TokensOf(SubSeq(h, Len(h) - n, Len(h))) > room
  BY <1>1, <1>3, FitNewestKeeps
<1> HIDE DEF recent
<1>5. unused \in Nat /\ unused = room - TokensOf(recent)
  BY <1>3, <1>4, LessLeast
<1> HIDE DEF unused
<1>6. personal \in Nat /\ personal <= unused
  BY <1>5, LessLeast, ContextAssemblyAssumption
<1> HIDE DEF personal
<1>7. cut \in Nat /\ Tokens(cut) \in Nat /\ Tokens(cut) <= personal /\ cut <= p
  BY <1>6, CutFits
<1> HIDE DEF cut
<1>8. left \in Nat /\ left = personal - Tokens(cut)
  BY <1>6, <1>7, LessLeast
<1> HIDE DEF left
<1>9. /\ knowledge \in Seq(Nat)
      /\ TokensOf(knowledge) \in Nat /\ TokensOf(knowledge) <= left
      /\ Len(knowledge) \in 0..Len(items)
      /\ Len(knowledge) = Len(items) => knowledge = items
  BY <1>8, FitFits
<1> HIDE DEF knowledge
<1>10. rest \in Nat /\ rest = left - TokensOf(knowledge)
  BY <1>8, <1>9, LessLeast
<1> HIDE DEF rest
<1>11. /\ kept \in Seq(Nat)
       /\ TokensOf(kept) \in Nat /\ TokensOf(kept) <= rest
       /\ Len(kept) \in 0..Len(memories)
       /\ Len(kept) = Len(memories) => kept = memories
  BY <1>10, FitFits
<1> HIDE DEF kept
<1> HIDE DEF c, h
<1>12. /\ c.used \in Nat /\ c.used <= c.available
       /\ c.used = 0 => sys = 0
  <2> DEFINE a1 == TokensOf(recent)
             a2 == Tokens(cut)
             a3 == TokensOf(knowledge)
             a4 == TokensOf(kept)
             u  == c.used
             v  == c.available
  <2>1. /\ u = sys + a1 + a2 + a3 + a4 /\ v = av
    BY <1>2
  <2>2. /\ sys \in Nat /\ av \in Nat /\ sys <= av /\ room = av - sys
        /\ a1 \in Nat /\ a1 <= room /\ a2 \in Nat /\ a2 <= personal
        /\ a3 \in Nat /\ a3 <= left /\ a4 \in Nat /\ a4 <= rest
        /\ personal <= room - a1 /\ left = personal - a2 /\ rest = left - a3
        /\ personal \in Nat /\ left \in Nat /\ rest \in Nat /\ room \in Nat
    BY <1>1, <1>3, <1>4, <1>5, <1>6, <1>7, <1>8, <1>9, <1>10, <1>11
  <2> HIDE DEF a1, a2, a3, a4, u, v
  <2>3. u \in Nat /\ u <= v /\ (u = 0 => sys = 0)
    BY <2>1, <2>2
  <2> QED
    BY <2>3 DEF u, v
<1>13. c \in Content
  <2>1. sys + TokensOf(recent) + Tokens(cut) + TokensOf(knowledge) + TokensOf(kept) \in Nat
    BY <1>2, <1>12
  <2>2. /\ in.system \in Nat /\ recent \in Seq(Nat) /\ cut \in Nat /\ knowledge \in Seq(Nat)
        /\ kept \in Seq(Nat) /\ av \in Nat
    BY <1>1, <1>4, <1>7, <1>9, <1>11
  <2>3. c = [system |-> in.system, recent |-> recent, profile |-> cut,
             knowledge |-> knowledge, memories |-> kept, available |-> av,
             used |-> sys + TokensOf(recent) + Tokens(cut)
                        + TokensOf(knowledge) + TokensOf(kept)]
    BY <1>2
  <2> QED
    BY <2>1, <2>2, <2>3 DEF Content
<1>14. Newest(c, h)
  <2> DEFINE m == Len(h) - Len(c.recent)
  <2>0. c.recent = recent
    BY <1>2
  <2>1. m = Len(h) - n /\ m \in Nat
    <3>1. Len(c.recent) = n /\ Len(h) \in Nat
      BY <1>1, <1>4, <2>0
    <3> QED
      BY <3>1
  <2>2. c.recent = SubSeq(h, m + 1, Len(h))
    BY <1>2, <1>4, <2>1
  <2>3. ASSUME m > 0
        PROVE  \/ Tokens(c.system) + TokensOf(SubSeq(h, m, Len(h))) > c.available
               \/ Tokens(c.system) >= c.available
    <3>1. n < Len(h) /\ Len(h) - n = m
      BY <1>1, <2>1, <2>3
    <3>2. SubSeq(h, m, Len(h)) \in Seq(Nat)
      <4>1. m \in Nat \ {0} /\ Len(h) \in 0..Len(h) /\ m <= Len(h) + 1
        <5>1. Len(h) \in Nat /\ n \in 0..Len(h) /\ n < Len(h)
          BY <1>1, <3>1
        <5> HIDE DEF m
        <5> QED
          BY <3>1, <5>1
      <4> HIDE DEF m
      <4> QED
        BY <1>1, <4>1, Part
    <3>3. TokensOf(SubSeq(h, m, Len(h))) \in Nat
      BY <3>2, TokensOfItems
    <3>4. Tokens(c.system) = sys
      BY <1>2 DEF sys
    <3>5. room = 0 \/ TokensOf(SubSeq(h, m, Len(h))) > room
      <4>1. room = 0 \/ TokensOf(SubSeq(h, Len(h) - n, Len(h))) > room
        BY <1>4, <3>1
      <4> HIDE DEF m
      <4> QED
        BY <3>1, <4>1
    <3> HIDE DEF m
    <3> DEFINE more == TokensOf(SubSeq(h, m, Len(h)))
    <3>6. /\ more \in Nat /\ sys \in Nat /\ av \in Nat /\ room = av - sys
          /\ room = 0 \/ more > room
      BY <1>1, <1>3, <3>3, <3>5
    <3> HIDE DEF more
    <3>7. sys + more > av \/ sys >= av
      BY <3>6
    <3> QED
      BY <1>2, <3>4, <3>7 DEF more
  <2> QED
    BY <2>2, <2>3 DEF Newest
<1>15. Fits(c, in)
  <2> DEFINE m == Counted(c)
  <2>1. m = c.used /\ Tokens(c.system) = sys /\ c.available = Available(in)
    <3>1. /\ c.system = in.system /\ c.recent = recent /\ c.profile = cut
          /\ c.knowledge = knowledge /\ c.memories = kept /\ c.available = av
          /\ c.used = sys + TokensOf(recent) + Tokens(cut) + TokensOf(knowledge) + TokensOf(kept)
      BY <1>2
    <3>2. Tokens(c.system) = sys
      BY <3>1 DEF sys
    <3> QED
      BY <3>1, <3>2 DEF Counted, av
  <2>2. m \in Nat /\ m <= Available(in) /\ (m = 0 => sys = 0)
    BY <1>12, <2>1
  <2>3. /\ Completion(in) \in Int /\ MaxContext \in Nat
        /\ Available(in) # 0 => Available(in) = MaxContext - Completion(in)
    BY AvailableLeft, ContextAssemblyAssumption
  <2> HIDE DEF m
  <2>4. m + Completion(in) <= MaxContext \/ m = sys
    BY <2>2, <2>3
  <2> QED
    BY <2>1, <2>4 DEF Fits, m
<1> QED
  <2>0. c.profile \in Nat /\ c.profile <= p
    BY <1>2, <1>7
  <2>1. /\ Len(c.recent) \in 0..Len(h)
        /\ Len(c.recent) = Len(h) => c.recent = h
        /\ Len(c.knowledge) \in 0..Len(items)
        /\ Len(c.knowledge) = Len(items) => c.knowledge = items
        /\ Len(c.memories) \in 0..Len(memories)
        /\ Len(c.memories) = Len(memories) => c.memories = memories
    <3>1. c.recent = recent /\ c.knowledge = knowledge /\ c.memories = kept
      BY <1>2
    <3> QED
      BY <1>4, <1>9, <1>11, <3>1
  <2> QED
    BY <1>13, <1>14, <1>15, <2>0, <2>1 DEF c, h

(* A bundle keeps its budget and its newest messages, and says when        *)
(* something was cut.                                                      *)
LEMMA ApplyProper ==
  ASSUME NEW in \in Input, in.max # Odd, NEW p \in Nat,
         NEW items \in Seq(Nat), NEW memories \in Seq(Nat)
  PROVE  /\ Apply(in, p, items, memories) \in Bundles
         /\ Proper(Apply(in, p, items, memories), in, items, memories)
<1> DEFINE b == Apply(in, p, items, memories)
           c == IF Tokens(in.system) > Available(in) THEN SystemOnly(in)
                ELSE Budgeted(in, p, items, memories)
<1>1. in.system \in Nat /\ in.history \in Seq(Nat)
  BY DEF Input
<1>2. Available(in) \in Nat
  BY AvailableLeft
<1>3. Tokens(in.system) \in Nat
  BY <1>1, TokensNat
<1>4. b = [content |-> c, truncated |-> Truncated(c, in, p, items, memories), given |-> p]
  BY DEF Apply
<1>5. CASE Tokens(in.system) > Available(in)
  <2>1. c = SystemOnly(in)
    BY <1>5
  <2>2. c \in Content /\ Fits(c, in) /\ Newest(c, in.history) /\ c.used > c.available
    BY <1>2, <1>5, <2>1, SystemOnlyProper
  <2> HIDE DEF b, c
  <2>3. Truncated(c, in, p, items, memories)
    BY <2>2 DEF Truncated
  <2> QED
    BY <1>4, <2>2, <2>3 DEF Proper, Whole, Bundles, b
<1>6. CASE ~(Tokens(in.system) > Available(in))
  <2>1. c = Budgeted(in, p, items, memories) /\ Tokens(in.system) <= Available(in)
    BY <1>2, <1>3, <1>6
  <2>2. /\ c \in Content /\ Fits(c, in) /\ Newest(c, in.history)
        /\ c.profile \in Nat /\ c.profile <= p
        /\ Len(c.recent) \in 0..Len(in.history)
        /\ Len(c.recent) = Len(in.history) => c.recent = in.history
        /\ Len(c.knowledge) \in 0..Len(items)
        /\ Len(c.knowledge) = Len(items) => c.knowledge = items
        /\ Len(c.memories) \in 0..Len(memories)
        /\ Len(c.memories) = Len(memories) => c.memories = memories
    BY <1>2, <2>1, BudgetedProper
  <2>3. Len(in.history) \in Nat /\ Len(items) \in Nat /\ Len(memories) \in Nat
    BY <1>1, LenProperties
  <2> HIDE DEF b, c
  <2>4. Truncated(c, in, p, items, memories) \in BOOLEAN
    BY DEF Truncated
  <2>5. ~Truncated(c, in, p, items, memories) =>
          /\ c.recent = in.history /\ c.knowledge = items /\ c.memories = memories
          /\ c.profile = p
    BY <2>2, <2>3 DEF Truncated
  <2> QED
    BY <1>4, <2>2, <2>4, <2>5 DEF Proper, Whole, Bundles, b
<1> QED
  BY <1>5, <1>6

-----------------------------------------------------------------------------
(* The states.                                                             *)

Statuses == Ended \cup {"waiting", "calling", "storing"}

(* The bundles built are proper ones of what their requests asked, and of  *)
(* what their searches found.                                              *)
BuiltProperly ==
  \A r \in Requests : Built(r) =>
    Proper(bundle[r], ask[r], found[r]["knowledge"], found[r]["chat_memory"])

LEMMA WhatIsGathered ==
  ASSUME TypeOK, NEW r \in Requests, Countable(r)
  PROVE  /\ ask[r] \in Input /\ ask[r].max # Odd
         /\ found[r]["knowledge"] \in Seq(Nat) /\ found[r]["chat_memory"] \in Seq(Nat)
         /\ Length(profile[r]) \in Nat
<1>1. Nothing \in Input
  BY DEF Nothing, Input
<1>2. ask[r] \in Input
  BY <1>1, ContextAssemblyAssumption DEF TypeOK
<1>3. <<>> \in Seq(Nat)
  OBVIOUS
<1>4. found[r] \in [Searches -> Findings \cup {<<>>}]
  BY DEF TypeOK
<1>5. \A e \in Searches : found[r][e] \in Seq(Nat)
  BY <1>3, <1>4, ContextAssemblyAssumption DEF Countable
<1>6. "knowledge" \in Searches /\ "chat_memory" \in Searches
  BY DEF Searches
<1>7. TextOf(profile[r]) \in Nat \cup {Null, Odd}
  BY DEF TextOf, TypeOK
<1>8. Length(profile[r]) \in Nat /\ ask[r].max # Odd
  BY <1>7 DEF Length, Countable
<1> QED
  BY <1>2, <1>5, <1>6, <1>8

LEMMA StateInit == Init => TypeOK /\ BuiltProperly
<1> SUFFICES ASSUME Init PROVE TypeOK /\ BuiltProperly
  OBVIOUS
<1>1. \A r \in Requests : pc[r] = "idle" /\ bundle[r] = NoBundle
  BY DEF Init
<1>2. /\ ask \in [Requests -> Inputs \cup {Nothing}]
      /\ task \in [Requests -> [Engines -> Statuses]]
      /\ found \in [Requests -> [Searches -> Findings \cup {<<>>}]]
  BY DEF Init, Statuses, Ended
<1> QED
  BY <1>1, <1>2 DEF Init, TypeOK, BuiltProperly, Built, Statuses

(* A step that leaves the bundles, what was asked and found of the requests *)
(* that are done, and finishes none.                                       *)
LEMMA BundlesStay ==
  ASSUME TypeOK, BuiltProperly, UNCHANGED bundle,
         \A r \in Requests :
           /\ pc'[r] = "done" <=> pc[r] = "done"
           /\ pc[r] = "done" => ask'[r] = ask[r] /\ found'[r] = found[r]
  PROVE  /\ \A r \in Requests :
              IF pc'[r] = "done" THEN bundle'[r] \in Bundles ELSE bundle'[r] = NoBundle
         /\ BuiltProperly'
<1>1. \A r \in Requests :
        IF pc[r] = "done" THEN bundle[r] \in Bundles ELSE bundle[r] = NoBundle
  BY DEF TypeOK, Bundles
<1>2. \A r \in Requests : bundle'[r] = bundle[r]
  OBVIOUS
<1>3. BuiltProperly'
  <2> SUFFICES ASSUME NEW r \in Requests, Built(r)'
               PROVE  Proper(bundle[r], ask[r], found[r]["knowledge"],
                             found[r]["chat_memory"])'
    BY DEF BuiltProperly
  <2>1. /\ Built(r) /\ ask'[r] = ask[r] /\ found'[r] = found[r]
        /\ bundle'[r] = bundle[r]
    BY <1>2 DEF Built
  <2>2. Proper(bundle[r], ask[r], found[r]["knowledge"], found[r]["chat_memory"])
    BY <2>1 DEF BuiltProperly
  <2>3. /\ found'[r]["knowledge"] = found[r]["knowledge"]
        /\ found'[r]["chat_memory"] = found[r]["chat_memory"]
    BY <2>1
  <2> QED
    BY <2>1, <2>2, <2>3 DEF Proper, Whole
<1> QED
  BY <1>1, <1>2, <1>3

(* A call's new status is a status. *)
LEMMA TaskTyped ==
  ASSUME TypeOK, NEW r \in Requests, NEW e \in Engines, NEW s \in Statuses,
         Becomes(r, e, s)
  PROVE  task' \in [Requests -> [Engines -> Statuses]]
  BY DEF TypeOK, Becomes, Statuses

LEMMA KnownStatuses ==
  /\ {"off", "ok", "degraded", "waiting", "calling", "storing"} \subseteq Statuses
  /\ "user_profile" \in Engines
  /\ Searches \subseteq Engines
  BY DEF Statuses, Ended, Engines

(* A step of a call: it changes the statuses of calls, and of the rest at  *)
(* most the profile objects and what a search found.                       *)
LEMMA CallStep ==
  ASSUME TypeOK, BuiltProperly, NEW r \in Requests, pc[r] = "gathering",
         NEW e \in Engines, NEW s \in Statuses, Becomes(r, e, s),
         UNCHANGED <<parallel, pc, ask, bundle>>,
         found' \in [Requests -> [Searches -> Findings \cup {<<>>}]],
         \A q \in Requests : q # r => found'[q] = found[q],
         profile' \in [Requests -> Requests \cup {Fresh}],
         text' \in [Requests -> Nat \cup {Null, Odd}],
         cache' \in Requests \cup {NoProfile, Copies}, dict' \in Nat \cup {Null, Odd}
  PROVE  TypeOK' /\ BuiltProperly'
<1>1. task' \in [Requests -> [Engines -> Statuses]]
  BY TaskTyped
<1>2. \A q \in Requests :
        /\ pc'[q] = "done" <=> pc[q] = "done"
        /\ pc[q] = "done" => ask'[q] = ask[q] /\ found'[q] = found[q]
  OBVIOUS
<1>3. /\ \A q \in Requests :
           IF pc'[q] = "done" THEN bundle'[q] \in Bundles ELSE bundle'[q] = NoBundle
      /\ BuiltProperly'
  BY <1>2, BundlesStay
<1> QED
  BY <1>1, <1>3 DEF TypeOK, Statuses, Bundles

(* A build ends with a proper bundle. *)
LEMMA BuildStep ==
  ASSUME TypeOK, BuiltProperly, NEW r \in Requests, Build(r)
  PROVE  TypeOK' /\ BuiltProperly'
<1> DEFINE b == Apply(ask[r], Length(profile[r]), found[r]["knowledge"],
                      found[r]["chat_memory"])
<1>1. /\ pc' = [pc EXCEPT ![r] = "done"] /\ bundle' = [bundle EXCEPT ![r] = b]
      /\ text' = [o \in Requests |->
                    IF o = profile[r] THEN b.content.profile ELSE text[o]]
      /\ UNCHANGED <<parallel, ask, task, found, profile, cache, dict>>
  BY DEF Build, Finish
<1>2. /\ ask[r] \in Input /\ ask[r].max # Odd /\ Length(profile[r]) \in Nat
      /\ found[r]["knowledge"] \in Seq(Nat) /\ found[r]["chat_memory"] \in Seq(Nat)
  <2>1. Countable(r)
    BY DEF Build, Applies
  <2> QED
    BY <2>1, WhatIsGathered
<1>3. /\ b \in Bundles
      /\ Proper(b, ask[r], found[r]["knowledge"], found[r]["chat_memory"])
  BY <1>2, ApplyProper
<1> HIDE DEF b
<1>4. b.content.profile \in Nat
  BY <1>3 DEF Bundles, Content
<1>5. text' \in [Requests -> Nat \cup {Null, Odd}]
  BY <1>1, <1>4 DEF TypeOK
<1>6. pc' \in [Requests -> {"idle", "gathering", "done", "failed"}]
  BY <1>1 DEF TypeOK
<1>7. pc'[r] = "done" /\ \A q \in Requests : q # r => pc'[q] = pc[q]
  BY <1>1 DEF TypeOK
<1>8. /\ bundle'[r] = b /\ DOMAIN bundle' = Requests
      /\ \A q \in Requests : q # r => bundle'[q] = bundle[q]
  BY <1>1 DEF TypeOK
<1>9. ASSUME NEW q \in Requests
      PROVE  IF pc'[q] = "done" THEN bundle'[q] \in Bundles ELSE bundle'[q] = NoBundle
  <2>1. CASE q = r
    BY <1>3, <1>7, <1>8, <2>1
  <2>2. CASE q # r
    BY <1>7, <1>8, <2>2 DEF TypeOK, Bundles
  <2> QED
    BY <2>1, <2>2
<1>10. TypeOK'
  BY <1>1, <1>5, <1>6, <1>8, <1>9 DEF TypeOK, Bundles
<1>11. ASSUME NEW q \in Requests, Built(q)'
       PROVE  Proper(bundle[q], ask[q], found[q]["knowledge"],
                     found[q]["chat_memory"])'
  <2>1. ask' = ask /\ found' = found
    BY <1>1
  <2>2. CASE q = r
    <3>1. bundle'[q] = b
      BY <1>8, <2>2
    <3> QED
      BY <1>3, <2>1, <2>2, <3>1
  <2>3. CASE q # r
    <3>1. Built(q) /\ bundle'[q] = bundle[q]
      BY <1>7, <1>8, <1>11, <2>3 DEF Built
    <3>2. Proper(bundle[q], ask[q], found[q]["knowledge"], found[q]["chat_memory"])
      BY <3>1 DEF BuiltProperly
    <3> QED
      BY <2>1, <3>1, <3>2
  <2> QED
    BY <2>2, <2>3
<1> QED
  BY <1>10, <1>11 DEF BuiltProperly

(* A build fails at its end. *)
LEMMA FailStep ==
  ASSUME TypeOK, BuiltProperly, NEW r \in Requests, BuildFails(r)
  PROVE  TypeOK' /\ BuiltProperly'
<1>1. /\ pc[r] = "gathering" /\ pc' = [pc EXCEPT ![r] = "failed"]
      /\ UNCHANGED <<parallel, ask, task, found, profile, text, cache, dict, bundle>>
  BY DEF BuildFails, Finish
<1>2. /\ pc' \in [Requests -> {"idle", "gathering", "done", "failed"}]
      /\ \A q \in Requests : pc'[q] = "done" <=> pc[q] = "done"
  BY <1>1 DEF TypeOK
<1>3. /\ \A q \in Requests :
           IF pc'[q] = "done" THEN bundle'[q] \in Bundles ELSE bundle'[q] = NoBundle
      /\ BuiltProperly'
  BY <1>1, <1>2, BundlesStay
<1> QED
  BY <1>1, <1>2, <1>3 DEF TypeOK, Bundles

(* A request begins, or cannot. *)
LEMMA IdleStep ==
  ASSUME TypeOK, BuiltProperly, NEW r \in Requests, Begin(r) \/ FailToRead(r)
  PROVE  TypeOK' /\ BuiltProperly'
<1>1. pc[r] = "idle" /\ pc'[r] \in {"gathering", "failed"} /\ pc'[r] # "done"
  BY DEF Begin, FailToRead, TypeOK
<1>2. /\ pc' \in [Requests -> {"idle", "gathering", "done", "failed"}]
      /\ ask' \in [Requests -> Inputs \cup {Nothing}]
      /\ UNCHANGED <<parallel, found, profile, text, cache, dict, bundle>>
  <2>1. CASE FailToRead(r)
    BY <2>1 DEF FailToRead, TypeOK
  <2>2. CASE Begin(r)
    <3>1. PICK in \in Inputs : ask' = [ask EXCEPT ![r] = in]
      BY <2>2 DEF Begin
    <3>2. ask' \in [Requests -> Inputs \cup {Nothing}]
      BY <3>1 DEF TypeOK
    <3>3. pc' = [pc EXCEPT ![r] = "gathering"]
      BY <2>2 DEF Begin
    <3>4. pc' \in [Requests -> {"idle", "gathering", "done", "failed"}]
      BY <3>3 DEF TypeOK
    <3> QED
      BY <2>2, <3>2, <3>4 DEF Begin
  <2> QED
    BY <2>1, <2>2
<1>3. task' \in [Requests -> [Engines -> Statuses]]
  <2>1. CASE FailToRead(r)
    BY <2>1 DEF FailToRead, TypeOK, Statuses
  <2>2. CASE Begin(r)
    <3>1. PICK in \in Inputs :
            task' = [task EXCEPT ![r] =
              [e \in Engines |-> IF e \in in.engines THEN "waiting" ELSE "off"]]
      BY <2>2 DEF Begin
    <3>2. [e \in Engines |-> IF e \in in.engines THEN "waiting" ELSE "off"]
            \in [Engines -> Statuses]
      BY KnownStatuses
    <3> QED
      BY <3>1, <3>2 DEF TypeOK, Statuses
  <2> QED
    BY <2>1, <2>2
<1>4. \A q \in Requests :
        /\ pc'[q] = "done" <=> pc[q] = "done"
        /\ pc[q] = "done" => ask'[q] = ask[q] /\ found'[q] = found[q]
  BY <1>1 DEF Begin, FailToRead, TypeOK
<1>5. /\ \A q \in Requests :
           IF pc'[q] = "done" THEN bundle'[q] \in Bundles ELSE bundle'[q] = NoBundle
      /\ BuiltProperly'
  BY <1>2, <1>4, BundlesStay
<1> QED
  BY <1>2, <1>3, <1>5 DEF TypeOK, Statuses, Bundles

LEMMA StateNext == TypeOK /\ BuiltProperly /\ [Next]_vars => TypeOK' /\ BuiltProperly'
<1> SUFFICES ASSUME TypeOK, BuiltProperly, [Next]_vars
             PROVE  TypeOK' /\ BuiltProperly'
  OBVIOUS
<1> USE KnownStatuses
<1>1. ASSUME NEW r \in Requests, Begin(r) \/ FailToRead(r)
      PROVE  TypeOK' /\ BuiltProperly'
  BY <1>1, IdleStep
<1>2. ASSUME NEW r \in Requests, Build(r)
      PROVE  TypeOK' /\ BuiltProperly'
  BY <1>2, BuildStep
<1>3. ASSUME NEW r \in Requests, BuildFails(r)
       PROVE  TypeOK' /\ BuiltProperly'
  BY <1>3, FailStep
<1>4. ASSUME NEW r \in Requests, NEW size \in Nat \cup {Null, Odd}, GiveCopy(r, size)
      PROVE  /\ text' \in [Requests -> Nat \cup {Null, Odd}]
             /\ profile' \in [Requests -> Requests \cup {Fresh}]
  BY <1>4 DEF GiveCopy, TypeOK
<1>5. Profiles \subseteq Nat \cup {Null, Odd} /\ dict \in Nat \cup {Null, Odd}
  BY ContextAssemblyAssumption DEF TypeOK
<1>6. ASSUME NEW r \in Requests, ProfileHit(r)
      PROVE  TypeOK' /\ BuiltProperly'
  <2>1. /\ pc[r] = "gathering" /\ cache # NoProfile
        /\ Becomes(r, "user_profile", "ok")
        /\ UNCHANGED <<parallel, pc, ask, found, cache, dict, bundle>>
    BY <1>6 DEF ProfileHit, Runs
  <2>2. /\ text' \in [Requests -> Nat \cup {Null, Odd}]
        /\ profile' \in [Requests -> Requests \cup {Fresh}]
    <3>1. CASE cache = Copies
      BY <1>4, <1>6, <1>5, <3>1 DEF ProfileHit
    <3>2. CASE cache # Copies
      <4>1. cache \in Requests
        BY <2>1, <3>2 DEF TypeOK
      <4>2. profile' = [profile EXCEPT ![r] = cache] /\ text' = text
        BY <1>6, <3>2 DEF ProfileHit
      <4> QED
        BY <4>1, <4>2 DEF TypeOK
    <3> QED
      BY <3>1, <3>2
  <2>3. /\ found' \in [Requests -> [Searches -> Findings \cup {<<>>}]]
        /\ cache' \in Requests \cup {NoProfile, Copies}
        /\ dict' \in Nat \cup {Null, Odd}
        /\ \A q \in Requests : q # r => found'[q] = found[q]
    BY <2>1 DEF TypeOK
  <2> QED
    BY <2>1, <2>2, <2>3, CallStep
<1>7. ASSUME NEW r \in Requests, ProfileMiss(r) \/ ProfileUnavailable(r)
      PROVE  TypeOK' /\ BuiltProperly'
  <2>1. /\ pc[r] = "gathering"
        /\ Becomes(r, "user_profile", "calling") \/ Becomes(r, "user_profile", "ok")
        /\ UNCHANGED <<parallel, pc, ask, found, profile, text, cache, dict, bundle>>
    BY <1>7 DEF ProfileMiss, ProfileUnavailable, Runs
  <2>2. /\ found' \in [Requests -> [Searches -> Findings \cup {<<>>}]]
        /\ profile' \in [Requests -> Requests \cup {Fresh}]
        /\ text' \in [Requests -> Nat \cup {Null, Odd}]
        /\ cache' \in Requests \cup {NoProfile, Copies}
        /\ dict' \in Nat \cup {Null, Odd}
        /\ \A q \in Requests : q # r => found'[q] = found[q]
    BY <2>1 DEF TypeOK
  <2> QED
    BY <2>1, <2>2, CallStep
<1>8. ASSUME NEW r \in Requests, NEW size \in Profiles, ProfileFromRedis(r, size)
      PROVE  TypeOK' /\ BuiltProperly'
  <2>1. /\ pc[r] = "gathering" /\ Becomes(r, "user_profile", "ok")
        /\ GiveCopy(r, size) /\ size \in Nat \cup {Null, Odd}
        /\ cache' = Copies /\ dict' = size /\ UNCHANGED <<parallel, pc, ask, found, bundle>>
    BY <1>8, <1>5 DEF ProfileFromRedis
  <2>2. /\ found' \in [Requests -> [Searches -> Findings \cup {<<>>}]]
        /\ \A q \in Requests : q # r => found'[q] = found[q]
    BY <2>1 DEF TypeOK
  <2> QED
    BY <1>4, <2>1, <2>2, CallStep
<1>9. ASSUME NEW r \in Requests, NEW size \in Profiles, ProfileFetched(r, size)
      PROVE  TypeOK' /\ BuiltProperly'
  <2>1. /\ pc[r] = "gathering"
        /\ Becomes(r, "user_profile", "ok") \/ Becomes(r, "user_profile", "storing")
        /\ UNCHANGED <<parallel, pc, ask, found, dict, bundle>>
        /\ text' = [text EXCEPT ![r] = size] /\ cache' = r
        /\ profile' = [profile EXCEPT ![r] = r] \/ profile' = profile
    BY <1>9, Zenon DEF ProfileFetched
  <2>2. profile' \in [Requests -> Requests \cup {Fresh}]
    <3>1. profile \in [Requests -> Requests \cup {Fresh}] /\ r \in Requests
      BY DEF TypeOK
    <3> QED
      BY <2>1, <3>1
  <2>3. text' \in [Requests -> Nat \cup {Null, Odd}]
    <3>1. text \in [Requests -> Nat \cup {Null, Odd}] /\ size \in Nat \cup {Null, Odd}
      BY <1>5 DEF TypeOK
    <3> QED
      BY <2>1, <3>1
  <2>4. /\ cache' \in Requests \cup {NoProfile, Copies}
        /\ dict' \in Nat \cup {Null, Odd}
        /\ found' \in [Requests -> [Searches -> Findings \cup {<<>>}]]
        /\ \A q \in Requests : q # r => found'[q] = found[q]
    BY <1>5, <2>1 DEF TypeOK
  <2> QED
    BY <2>1, <2>2, <2>3, <2>4, CallStep
<1>10. ASSUME NEW r \in Requests, ProfileStored(r)
       PROVE  TypeOK' /\ BuiltProperly'
  <2>1. /\ pc[r] = "gathering" /\ Becomes(r, "user_profile", "ok")
        /\ profile' = [profile EXCEPT ![r] = r]
        /\ UNCHANGED <<parallel, pc, ask, found, text, cache, dict, bundle>>
    BY <1>10 DEF ProfileStored
  <2>2. /\ profile' \in [Requests -> Requests \cup {Fresh}]
        /\ text' \in [Requests -> Nat \cup {Null, Odd}]
        /\ cache' \in Requests \cup {NoProfile, Copies}
        /\ dict' \in Nat \cup {Null, Odd}
        /\ found' \in [Requests -> [Searches -> Findings \cup {<<>>}]]
        /\ \A q \in Requests : q # r => found'[q] = found[q]
    BY <2>1 DEF TypeOK
  <2> QED
    BY <2>1, <2>2, CallStep
<1>11. ASSUME NEW r \in Requests, NEW e \in Searches, NEW items \in Findings,
             SearchReturns(r, e, items)
      PROVE  TypeOK' /\ BuiltProperly'
  <2>1. /\ pc[r] = "gathering" /\ Becomes(r, e, "ok") /\ e \in Engines
        /\ found' = [found EXCEPT ![r][e] = items]
        /\ UNCHANGED <<parallel, pc, ask, profile, text, cache, dict, bundle>>
    BY <1>11 DEF SearchReturns, Runs
  <2>2. /\ found' \in [Requests -> [Searches -> Findings \cup {<<>>}]]
        /\ \A q \in Requests : q # r => found'[q] = found[q]
    BY <2>1 DEF TypeOK
  <2>3. /\ profile' \in [Requests -> Requests \cup {Fresh}]
        /\ text' \in [Requests -> Nat \cup {Null, Odd}]
        /\ cache' \in Requests \cup {NoProfile, Copies}
        /\ dict' \in Nat \cup {Null, Odd}
    BY <2>1 DEF TypeOK
  <2> QED
    BY <2>1, <2>2, <2>3, CallStep
<1>12. ASSUME NEW r \in Requests, NEW e \in Engines, TimeOut(r, e) \/ EngineFails(r, e)
      PROVE  TypeOK' /\ BuiltProperly'
  <2>1. /\ pc[r] = "gathering" /\ Becomes(r, e, "degraded")
        /\ UNCHANGED <<parallel, pc, ask, found, profile, text, cache, dict, bundle>>
    BY <1>12 DEF TimeOut, EngineFails, InCall, Runs
  <2>2. /\ found' \in [Requests -> [Searches -> Findings \cup {<<>>}]]
        /\ profile' \in [Requests -> Requests \cup {Fresh}]
        /\ text' \in [Requests -> Nat \cup {Null, Odd}]
        /\ cache' \in Requests \cup {NoProfile, Copies}
        /\ dict' \in Nat \cup {Null, Odd}
        /\ \A q \in Requests : q # r => found'[q] = found[q]
    BY <2>1 DEF TypeOK
  <2> QED
    BY <2>1, <2>2, CallStep
<1>13. ASSUME Expire \/ UNCHANGED vars
       PROVE  TypeOK' /\ BuiltProperly'
  <2>1. /\ UNCHANGED <<parallel, pc, ask, task, found, profile, text, bundle>>
        /\ cache' \in Requests \cup {NoProfile, Copies}
        /\ dict' \in Nat \cup {Null, Odd}
    BY <1>13, <1>5 DEF Expire, vars, TypeOK
  <2>2. /\ \A q \in Requests :
             IF pc'[q] = "done" THEN bundle'[q] \in Bundles ELSE bundle'[q] = NoBundle
        /\ BuiltProperly'
    BY <2>1, BundlesStay
  <2> QED
    BY <2>1, <2>2 DEF TypeOK, Bundles
<1> QED
  BY <1>1, <1>2, <1>3, <1>6, <1>7, <1>8, <1>9, <1>10, <1>11, <1>12, <1>13 DEF Next, StartProfile

-----------------------------------------------------------------------------
(* Every variable keeps its type through every build, and no count of      *)
(* tokens is ever negative.                                                *)
THEOREM ContextTyped == Spec => []TypeOK
<1>1. Spec => [](TypeOK /\ BuiltProperly)
  BY StateInit, StateNext, PTL DEF Spec
<1> QED
  BY <1>1, PTL

LEMMA AlwaysProper == Spec => []BuiltProperly
<1>1. Spec => [](TypeOK /\ BuiltProperly)
  BY StateInit, StateNext, PTL DEF Spec
<1> QED
  BY <1>1, PTL

(* Every bundle leaves the model's context room for the completion its     *)
(* request asks for, or is the system prompt alone.  (The current message  *)
(* and the headings are sent beside it, and nobody counts them.)           *)
THEOREM BundlesFit == Spec => []WithinBudget
<1>1. BuiltProperly => WithinBudget
  BY DEF BuiltProperly, WithinBudget, Proper, Fits, Counted
<1> QED
  BY <1>1, AlwaysProper, PTL

(* A bundle has the newest messages of the history, as many as fit. *)
THEOREM BundlesKeepNewest == Spec => []NewestKept
<1>1. BuiltProperly => NewestKept
  BY DEF BuiltProperly, NewestKept, Proper, Newest
<1> QED
  BY <1>1, AlwaysProper, PTL

(* A bundle that is not marked as truncated has all its searches found,    *)
(* all the history that was read, and the profile it was made from.        *)
THEOREM TruncationAlwaysTold == Spec => []TruncationTold
<1>1. BuiltProperly => TruncationTold
  BY DEF BuiltProperly, TruncationTold, Proper, Whole
<1> QED
  BY <1>1, AlwaysProper, PTL

-----------------------------------------------------------------------------
(* What ends a build.                                                      *)

(* A build has what a call of its own returned: nothing before it begins,  *)
(* and of a search or the profile nothing if the call did not succeed.     *)
Answered(r) ==
  /\ pc[r] = "idle" => found[r] = [e \in Searches |-> <<>>] /\ profile[r] = Fresh
  /\ \A e \in Searches : found[r][e] # <<>> => task[r][e] = "ok"
  /\ profile[r] # Fresh => task[r]["user_profile"] = "ok"

AllAnswered == \A r \in Requests : Answered(r)

(* A step of a call that has not succeeded: it may bring what it returns.  *)
LEMMA CallAnswers ==
  ASSUME TypeOK, AllAnswered, NEW r \in Requests, pc[r] = "gathering", pc' = pc,
         NEW e \in Engines, NEW s \in Statuses, Becomes(r, e, s), task[r][e] # "ok",
         \/ found' = found
         \/ /\ s = "ok" /\ e \in Searches
            /\ \E items : found' = [found EXCEPT ![r][e] = items],
         \/ profile' = profile
         \/ /\ s = "ok" /\ e = "user_profile"
            /\ \E o : profile' = [profile EXCEPT ![r] = o]
  PROVE  AllAnswered'
<1>1. /\ task \in [Requests -> [Engines -> Statuses]]
      /\ found \in [Requests -> [Searches -> Findings \cup {<<>>}]]
      /\ profile \in [Requests -> Requests \cup {Fresh}]
  BY DEF TypeOK, Statuses
<1>2. /\ \A d \in Engines : task'[r][d] = IF d = e THEN s ELSE task[r][d]
      /\ \A q \in Requests : q # r => task'[q] = task[q]
  BY <1>1 DEF Becomes
<1>3. /\ \A q \in Requests : q # r => found'[q] = found[q] /\ profile'[q] = profile[q]
      /\ \A d \in Searches : found'[r][d] = found[r][d] \/ (d = e /\ s = "ok")
      /\ profile'[r] = profile[r] \/ (e = "user_profile" /\ s = "ok")
  BY <1>1
<1>4. Answered(r)'
  <2>1. \A d \in Searches : found'[r][d] # <<>> => task'[r][d] = "ok"
    BY <1>2, <1>3, KnownStatuses DEF AllAnswered, Answered
  <2>2. profile'[r] # Fresh => task'[r]["user_profile"] = "ok"
    BY <1>2, <1>3, KnownStatuses DEF AllAnswered, Answered
  <2> QED
    BY <2>1, <2>2 DEF Answered
<1>5. ASSUME NEW q \in Requests, q # r PROVE Answered(q)'
  BY <1>2, <1>3, <1>5 DEF AllAnswered, Answered
<1> QED
  BY <1>4, <1>5 DEF AllAnswered

LEMMA AnsweredInit == Init => AllAnswered
  BY DEF Init, AllAnswered, Answered

LEMMA AnsweredNext == TypeOK /\ AllAnswered /\ [Next]_vars => AllAnswered'
<1> SUFFICES ASSUME TypeOK, AllAnswered, [Next]_vars PROVE AllAnswered'
  OBVIOUS
<1> USE KnownStatuses
<1>1. ASSUME NEW r \in Requests, Begin(r) PROVE AllAnswered'
  <2>1. /\ pc[r] = "idle" /\ found' = found /\ profile' = profile
        /\ pc' = [pc EXCEPT ![r] = "gathering"]
        /\ \A q \in Requests : q # r => task'[q] = task[q]
    BY <1>1 DEF Begin, TypeOK
  <2>2. Answered(r)'
    BY <2>1 DEF AllAnswered, Answered, TypeOK
  <2>3. ASSUME NEW q \in Requests, q # r PROVE Answered(q)'
    BY <2>1, <2>3 DEF AllAnswered, Answered, TypeOK
  <2> QED
    BY <2>2, <2>3 DEF AllAnswered
<1>2. ASSUME NEW r \in Requests, FailToRead(r) \/ Build(r) \/ BuildFails(r)
      PROVE  AllAnswered'
  <2>1. /\ \A q \in Requests : pc'[q] = "idle" => pc[q] = "idle"
        /\ task' = task /\ found' = found /\ profile' = profile
    BY <1>2 DEF FailToRead, Build, BuildFails, Finish, TypeOK
  <2> QED
    BY <2>1 DEF AllAnswered, Answered
<1>3. ASSUME NEW r \in Requests, ProfileHit(r) PROVE AllAnswered'
  <2>1. /\ pc[r] = "gathering" /\ pc' = pc /\ found' = found
        /\ task[r]["user_profile"] # "ok" /\ Becomes(r, "user_profile", "ok")
        /\ \E o : profile' = [profile EXCEPT ![r] = o]
    BY <1>3 DEF ProfileHit, Runs, GiveCopy
  <2> QED
    BY <2>1, CallAnswers
<1>4. ASSUME NEW r \in Requests, ProfileMiss(r) \/ ProfileUnavailable(r)
      PROVE  AllAnswered'
  <2>1. /\ pc[r] = "gathering" /\ pc' = pc /\ found' = found /\ profile' = profile
        /\ task[r]["user_profile"] # "ok"
        /\ Becomes(r, "user_profile", "calling") \/ Becomes(r, "user_profile", "ok")
    BY <1>4 DEF ProfileMiss, ProfileUnavailable, Runs
  <2> QED
    BY <2>1, CallAnswers
<1>5. ASSUME NEW r \in Requests, NEW size \in Profiles,
             ProfileFromRedis(r, size) \/ ProfileFetched(r, size)
      PROVE  AllAnswered'
  <2>1. /\ pc[r] = "gathering" /\ pc' = pc /\ found' = found
        /\ task[r]["user_profile"] # "ok"
    BY <1>5 DEF ProfileFromRedis, ProfileFetched
  <2>2. \/ /\ Becomes(r, "user_profile", "ok")
           /\ \E o : profile' = [profile EXCEPT ![r] = o]
        \/ Becomes(r, "user_profile", "storing") /\ profile' = profile
    BY <1>5, Zenon DEF ProfileFromRedis, ProfileFetched, GiveCopy
  <2> QED
    BY <2>1, <2>2, CallAnswers
<1>6. ASSUME NEW r \in Requests, ProfileStored(r) PROVE AllAnswered'
  <2>1. /\ pc[r] = "gathering" /\ pc' = pc /\ found' = found
        /\ task[r]["user_profile"] # "ok" /\ Becomes(r, "user_profile", "ok")
        /\ \E o : profile' = [profile EXCEPT ![r] = o]
    BY <1>6 DEF ProfileStored
  <2> QED
    BY <2>1, CallAnswers
<1>7. ASSUME NEW r \in Requests, NEW e \in Searches, NEW items \in Findings,
             SearchReturns(r, e, items)
      PROVE  AllAnswered'
  <2>1. /\ pc[r] = "gathering" /\ pc' = pc /\ profile' = profile
        /\ task[r][e] # "ok" /\ Becomes(r, e, "ok")
        /\ \E i : found' = [found EXCEPT ![r][e] = i]
    BY <1>7 DEF SearchReturns, Runs
  <2> QED
    BY <2>1, CallAnswers
<1>8. ASSUME NEW r \in Requests, NEW e \in Engines, TimeOut(r, e) \/ EngineFails(r, e)
      PROVE  AllAnswered'
  <2>1. /\ pc[r] = "gathering" /\ pc' = pc /\ found' = found /\ profile' = profile
        /\ task[r][e] # "ok" /\ Becomes(r, e, "degraded")
    BY <1>8 DEF TimeOut, EngineFails, InCall, Runs
  <2> QED
    BY <2>1, CallAnswers
<1>9. CASE Expire \/ UNCHANGED vars
  <2>1. UNCHANGED <<pc, task, found, profile>>
    BY <1>9 DEF Expire, vars
  <2> QED
    BY <2>1 DEF AllAnswered, Answered
<1> QED
  BY <1>1, <1>2, <1>3, <1>4, <1>5, <1>6, <1>7, <1>8, <1>9 DEF Next, StartProfile

LEMMA AlwaysAnswered == Spec => [](TypeOK /\ AllAnswered)
<1>1. TypeOK /\ AllAnswered /\ [Next]_vars => AllAnswered'
  BY AnsweredNext
<1> QED
  BY <1>1, ContextTyped, AnsweredInit, PTL DEF Spec

(* What may end a build after its calls. *)
Caused(r) ==
  \/ ask[r].max = Odd
  \/ \E e \in Searches : task[r][e] = "ok" /\ found[r][e] = Odd
  \/ /\ task[r]["user_profile"] = "ok"
     /\ TextOf(profile[r]) \in {Null, Odd}

LEMMA OddOnes == Fresh \notin Requests /\ 0 \notin {Null, Odd} /\ <<>> # Odd
<1>1. Fresh \notin Requests /\ {Null, Odd} \cap Int = {} /\ Odd \notin Seq(Nat)
  BY ContextAssemblyAssumption, Zenon
<1>2. 0 \in Int /\ <<>> \in Seq(Nat)
  OBVIOUS
<1> QED
  BY <1>1, <1>2, Zenon

(* No engine's failure and no timeout ends a build.  One that fails after  *)
(* its calls has a max_tokens that is no number, or a call of its own      *)
(* succeeded with what is no text.                                         *)
THEOREM FailuresAlwaysContained == Spec => FailuresContained
<1>1. ASSUME AllAnswered, NEW r \in Requests, BuildFails(r)
      PROVE  Caused(r)
  <2>1. Answered(r) /\ ~Applies(r)
    BY <1>1 DEF AllAnswered, BuildFails
  <2>2. CASE ask[r].max = Odd
    BY <2>2 DEF Caused
  <2>3. CASE \E e \in Searches : found[r][e] = Odd
    <3>1. PICK e \in Searches : found[r][e] = Odd
      BY <2>3
    <3>2. <<>> # Odd
      BY OddOnes
    <3>3. task[r][e] = "ok"
      BY <2>1, <3>1, <3>2 DEF Answered
    <3> QED
      BY <3>1, <3>3 DEF Caused
  <2>4. CASE TextOf(profile[r]) \in {Null, Odd}
    <3>1. Fresh \notin Requests /\ 0 \notin {Null, Odd}
      BY OddOnes
    <3>2. profile[r] # Fresh
      BY <2>4, <3>1 DEF TextOf
    <3> QED
      BY <2>1, <2>4, <3>2 DEF Answered, Caused
  <2> QED
    BY <2>1, <2>2, <2>3, <2>4 DEF Applies, Countable
<1>2. TypeOK /\ AllAnswered /\ [Next]_vars =>
        [\A r \in Requests : pc[r] = "gathering" /\ pc'[r] = "failed" =>
           \/ ask[r].max = Odd
           \/ \E e \in Searches : task[r][e] = "ok" /\ found[r][e] = Odd
           \/ /\ task[r]["user_profile"] = "ok"
              /\ TextOf(profile[r]) \in {Null, Odd}]_vars
  <2> SUFFICES ASSUME TypeOK, AllAnswered, Next, NEW r \in Requests,
                      pc[r] = "gathering", pc'[r] = "failed"
               PROVE  Caused(r)
    BY DEF Caused
  <2>1. ASSUME NEW q \in Requests, Begin(q) \/ FailToRead(q) \/ Build(q)
        PROVE  FALSE
    BY <2>1 DEF Begin, FailToRead, Build, Finish, TypeOK
  <2>2. ASSUME NEW q \in Requests, BuildFails(q)
        PROVE  Caused(r)
    <3>1. q = r
      BY <2>2 DEF BuildFails, Finish, TypeOK
    <3> QED
      BY <1>1, <2>2, <3>1
  <2>3. CASE pc' = pc
    BY <2>3
  <2> QED
    BY <2>1, <2>2, <2>3 DEF Next, StartProfile, ProfileHit, ProfileMiss, ProfileFromRedis,
      ProfileFetched, ProfileStored, ProfileUnavailable, SearchReturns, TimeOut,
      EngineFails, Expire
<1> QED
  BY <1>2, AlwaysAnswered, PTL DEF Spec, FailuresContained

-----------------------------------------------------------------------------
(* How far a build is from its end.                                        *)

(* The steps that a call with this status has left at most: a profile is   *)
(* looked up, fetched and stored, a search returns.                        *)
Rank(status) ==
  CASE status = "waiting" -> 3
    [] status = "calling" -> 2
    [] status = "storing" -> 1
    [] OTHER              -> 0

Rest(r) == Rank(task[r]["knowledge"]) + Rank(task[r]["user_profile"])
             + Rank(task[r]["chat_memory"])

LEMMA RankFacts ==
  /\ \A s \in Statuses : Rank(s) \in Nat /\ (s \in Ended <=> Rank(s) = 0)
  /\ Rank("waiting") = 3 /\ Rank("calling") = 2 /\ Rank("storing") = 1
  /\ Rank("ok") = 0 /\ Rank("degraded") = 0
  BY DEF Rank, Statuses, Ended

LEMMA EnginesAre == Engines = {"knowledge", "user_profile", "chat_memory"}
  BY DEF Engines, Searches

LEMMA BeforeFirst == Before("knowledge") = {}
  BY DEF Before, CreationOrder

LEMMA BeforeProfile == Before("user_profile") \subseteq {"knowledge"}
  BY DEF Before, CreationOrder

LEMMA BeforeMemory == Before("chat_memory") \subseteq {"knowledge", "user_profile"}
  BY DEF Before, CreationOrder

(* A status of a lower rank for one call lowers what the build has left.   *)
LEMMA BecomesLowers ==
  ASSUME TypeOK, NEW r \in Requests, NEW e \in Engines, NEW s \in Statuses,
         Becomes(r, e, s), Rank(s) < Rank(task[r][e])
  PROVE  /\ Rest(r)' < Rest(r)
         /\ \A q \in Requests : q # r => task'[q] = task[q]
<1>1. task \in [Requests -> [Engines -> Statuses]]
  BY DEF TypeOK, Statuses
<1>2. /\ task'[r] = [task[r] EXCEPT ![e] = s]
      /\ \A q \in Requests : q # r => task'[q] = task[q]
  BY <1>1 DEF Becomes
<1>3. \A d \in Engines :
        /\ task[r][d] \in Statuses
        /\ task'[r][d] = IF d = e THEN s ELSE task[r][d]
  BY <1>1, <1>2
<1>4. \A d \in Engines : Rank(task[r][d]) \in Nat
  BY <1>3, RankFacts
<1>5. Rank(s) \in Nat
  BY RankFacts
<1>6. Rest(r)' = Rank(task'[r]["knowledge"]) + Rank(task'[r]["user_profile"])
                   + Rank(task'[r]["chat_memory"])
  BY DEF Rest, Rank
<1>7. CASE e = "knowledge"
  BY <1>2, <1>3, <1>4, <1>5, <1>6, <1>7, EnginesAre DEF Rest
<1>8. CASE e = "user_profile"
  BY <1>2, <1>3, <1>4, <1>5, <1>6, <1>8, EnginesAre DEF Rest
<1>9. CASE e = "chat_memory"
  BY <1>2, <1>3, <1>4, <1>5, <1>6, <1>9, EnginesAre DEF Rest
<1> QED
  BY <1>7, <1>8, <1>9, EnginesAre

(* A step of a call: a lower rank for one of its request's calls.          *)
LEMMA CallLowers ==
  ASSUME TypeOK, NEW r \in Requests,
         \/ StartProfile(r) \/ ProfileStored(r) \/ ProfileUnavailable(r)
         \/ \E size \in Profiles : ProfileFromRedis(r, size) \/ ProfileFetched(r, size)
         \/ \E e \in Searches, items \in Findings : SearchReturns(r, e, items)
         \/ \E e \in Engines : TimeOut(r, e) \/ EngineFails(r, e)
  PROVE  /\ Rest(r)' < Rest(r)
         /\ \A q \in Requests : q # r => task'[q] = task[q]
<1>1. \E e \in Engines, s \in Statuses :
        Becomes(r, e, s) /\ Rank(s) < Rank(task[r][e])
  <2>1. CASE \E e \in Searches, items \in Findings : SearchReturns(r, e, items)
    BY <2>1, RankFacts, KnownStatuses DEF SearchReturns
  <2>2. CASE StartProfile(r)
    BY <2>2, RankFacts, KnownStatuses DEF StartProfile, ProfileHit, ProfileMiss
  <2>3. CASE \E size \in Profiles : ProfileFromRedis(r, size)
    BY <2>3, RankFacts, KnownStatuses DEF ProfileFromRedis
  <2>4. CASE \E size \in Profiles : ProfileFetched(r, size)
    BY <2>4, RankFacts, KnownStatuses DEF ProfileFetched
  <2>5. CASE ProfileStored(r)
    BY <2>5, RankFacts, KnownStatuses DEF ProfileStored
  <2>6. CASE ProfileUnavailable(r)
    BY <2>6, RankFacts, KnownStatuses DEF ProfileUnavailable
  <2>7. ASSUME NEW e \in Engines, TimeOut(r, e) \/ EngineFails(r, e)
        PROVE  Becomes(r, e, "degraded") /\ Rank("degraded") < Rank(task[r][e])
    <3>1. Becomes(r, e, "degraded") /\ task[r][e] \in {"waiting", "calling", "storing"}
      BY <2>7 DEF TimeOut, EngineFails, InCall
    <3> QED
      BY <3>1, RankFacts
  <2> QED
    BY <2>1, <2>2, <2>3, <2>4, <2>5, <2>6, <2>7, KnownStatuses
<1> QED
  BY <1>1, BecomesLowers

(* What is left of a build that gathers: nothing, and its calls are over,  *)
(* or a call that is not over and need not wait for those before it.       *)
Advancing(r) ==
  /\ Rest(r) \in Nat
  /\ IF Rest(r) = 0 THEN \A e \in Engines : task[r][e] \in Ended
     ELSE \E e \in Engines : Runs(r, e) /\ task[r][e] \notin Ended

(* No build waits for itself, serial or parallel. *)
LEMMA SomeCallRuns ==
  ASSUME TypeOK, NEW r \in Requests, pc[r] = "gathering"
  PROVE  Advancing(r)
<1>1. \A e \in Engines : task[r][e] \in Statuses
  BY DEF TypeOK, Statuses
<1>2. /\ Rest(r) \in Nat
      /\ Rest(r) = 0 <=> \A e \in Engines : task[r][e] \in Ended
  <2>1. \A e \in Engines : /\ Rank(task[r][e]) \in Nat
                           /\ task[r][e] \in Ended <=> Rank(task[r][e]) = 0
    BY <1>1, RankFacts
  <2>2. Rest(r) \in Nat
    BY <2>1, EnginesAre DEF Rest
  <2>3. Rest(r) = 0 <=> \A e \in Engines : Rank(task[r][e]) = 0
    BY <2>1, EnginesAre DEF Rest
  <2> QED
    BY <2>1, <2>2, <2>3
<1>3. CASE task[r]["knowledge"] \notin Ended
  BY <1>3, <1>2, BeforeFirst, EnginesAre DEF Runs, Advancing
<1>4. CASE task[r]["knowledge"] \in Ended /\ task[r]["user_profile"] \notin Ended
  BY <1>4, <1>2, BeforeProfile, EnginesAre DEF Runs, Advancing
<1>5. CASE /\ task[r]["knowledge"] \in Ended /\ task[r]["user_profile"] \in Ended
           /\ task[r]["chat_memory"] \notin Ended
  BY <1>5, <1>2, BeforeMemory, EnginesAre DEF Runs, Advancing
<1>6. CASE \A e \in Engines : task[r][e] \in Ended
  BY <1>2, <1>6 DEF Advancing
<1> QED
  BY <1>3, <1>4, <1>5, <1>6, EnginesAre

(* A build advances whatever its engines do: it never waits for a call     *)
(* that waits for another one of its own, and every change of its calls    *)
(* leaves fewer steps, so it has no endless run before its end.            *)
THEOREM BuildsAdvance ==
  Spec => /\ [](\A r \in Requests : pc[r] = "gathering" => Advancing(r))
          /\ [][\A r \in Requests : pc[r] = "gathering" =>
                  task'[r] = task[r] \/ Rest(r)' < Rest(r)]_vars
<1>1. TypeOK => \A r \in Requests : pc[r] = "gathering" => Advancing(r)
  BY SomeCallRuns
<1>2. TypeOK /\ [Next]_vars =>
        [\A r \in Requests : pc[r] = "gathering" =>
           task'[r] = task[r] \/ Rest(r)' < Rest(r)]_vars
  <2> SUFFICES ASSUME TypeOK, Next, NEW r \in Requests, pc[r] = "gathering"
               PROVE  task'[r] = task[r] \/ Rest(r)' < Rest(r)
    OBVIOUS
  <2>1. ASSUME NEW q \in Requests, Begin(q) PROVE task'[r] = task[r]
    BY <2>1 DEF Begin, TypeOK
  <2>2. CASE Expire \/ \E q \in Requests : FailToRead(q) \/ Build(q) \/ BuildFails(q)
    BY <2>2 DEF Expire, FailToRead, Build, BuildFails
  <2>3. ASSUME NEW q \in Requests,
               \/ StartProfile(q) \/ ProfileStored(q) \/ ProfileUnavailable(q)
               \/ \E size \in Profiles :
                    ProfileFromRedis(q, size) \/ ProfileFetched(q, size)
               \/ \E e \in Searches, items \in Findings : SearchReturns(q, e, items)
               \/ \E e \in Engines : TimeOut(q, e) \/ EngineFails(q, e)
        PROVE  task'[r] = task[r] \/ Rest(r)' < Rest(r)
    BY <2>3, CallLowers
  <2> QED
    BY <2>1, <2>2, <2>3 DEF Next
<1> QED
  BY <1>1, <1>2, ContextTyped, PTL DEF Spec

=============================================================================
