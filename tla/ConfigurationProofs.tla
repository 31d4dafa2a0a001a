------------------------- MODULE ConfigurationProofs -------------------------
(***************************************************************************)
(* Proofs about Configuration, for any documents, variables and edits: the *)
(* merge of two documents is a document that says what the overlay says,   *)
(* or else the base, and a configuration that is loaded is complete, in    *)
(* range and has for every option the value of the first layer that        *)
(* decides.                                                                *)
(***************************************************************************)
EXTENDS Configuration, SequenceTheorems, TLAPS

-----------------------------------------------------------------------------
(* Paths.                                                                  *)

Paths == Seq(STRING)

LEMMA Tuples ==
  ASSUME NEW S, NEW a \in S, NEW b \in S, NEW c \in S
  PROVE  /\ <<a>> \in Seq(S) /\ <<a>> # <<>>
         /\ <<a, b>> \in Seq(S) /\ <<a, b>> # <<>>
         /\ <<a, b, c>> \in Seq(S) /\ <<a, b, c>> # <<>>
<1>1. /\ <<a>> \in [1 .. 1 -> S] /\ <<a, b>> \in [1 .. 2 -> S]
      /\ <<a, b, c>> \in [1 .. 3 -> S]
  OBVIOUS
<1>2. 1 \in Nat /\ 2 \in Nat /\ 3 \in Nat
  OBVIOUS
<1>3. <<a>> # <<>> /\ <<a, b>> # <<>> /\ <<a, b, c>> # <<>>
  OBVIOUS
<1>4. <<a>> \in Seq(S) /\ <<a, b>> \in Seq(S) /\ <<a, b, c>> \in Seq(S)
  BY <1>1, <1>2, SeqDef
<1> QED
  BY <1>3, <1>4

LEMMA PrefixFacts ==
  ASSUME NEW S, NEW p \in Seq(S), NEW n \in 0 .. Len(p)
  PROVE  /\ SubSeq(p, 1, n) \in Seq(S) /\ Len(SubSeq(p, 1, n)) = n
         /\ \A i \in 1 .. n : SubSeq(p, 1, n)[i] = p[i]
<1>1. Len(p) \in Nat /\ \A i \in 1 .. Len(p) : p[i] \in S
  BY LenProperties, ElementOfSeq
<1>2. n \in Nat /\ \A i \in 1 .. n : p[i] \in S
  BY <1>1
<1>3. /\ SubSeq(p, 1, n) \in Seq(S)
      /\ Len(SubSeq(p, 1, n)) = IF 1 <= n THEN n - 1 + 1 ELSE 0
      /\ \A i \in 1 .. n - 1 + 1 : SubSeq(p, 1, n)[i] = p[1 + i - 1]
  BY <1>2, SubSeqProperties
<1> QED
  BY <1>2, <1>3

LEMMA PrefixOfPrefix ==
  ASSUME NEW S, NEW p \in Seq(S), NEW n \in 0 .. Len(p), NEW m \in 0 .. n
  PROVE  SubSeq(SubSeq(p, 1, n), 1, m) = SubSeq(p, 1, m)
<1> DEFINE q == SubSeq(p, 1, n)
<1>1. Len(p) \in Nat /\ m \in 0 .. Len(p)
  BY LenProperties
<1>2. q \in Seq(S) /\ Len(q) = n /\ \A i \in 1 .. n : q[i] = p[i]
  BY PrefixFacts
<1> HIDE DEF q
<1>3. /\ SubSeq(q, 1, m) \in Seq(S) /\ Len(SubSeq(q, 1, m)) = m
      /\ \A i \in 1 .. m : SubSeq(q, 1, m)[i] = q[i]
  BY <1>1, <1>2, PrefixFacts
<1>4. /\ SubSeq(p, 1, m) \in Seq(S) /\ Len(SubSeq(p, 1, m)) = m
      /\ \A i \in 1 .. m : SubSeq(p, 1, m)[i] = p[i]
  BY <1>1, PrefixFacts
<1>5. \A i \in 1 .. m : SubSeq(q, 1, m)[i] = SubSeq(p, 1, m)[i]
  BY <1>1, <1>2, <1>3, <1>4
<1>6. SubSeq(q, 1, m) = SubSeq(p, 1, m)
  BY <1>3, <1>4, <1>5, SeqEqual
<1> QED
  BY <1>6 DEF q

(* The sections of a section on the way are on the way. *)
LEMMA SectionsNest ==
  ASSUME NEW S, NEW p \in Seq(S), NEW s \in Sections(p)
  PROVE  s \in Seq(S) /\ Sections(s) \subseteq Sections(p)
<1>1. PICK n \in 0 .. Len(p) - 1 : s = SubSeq(p, 1, n)
  BY DEF Sections
<1>2. Len(p) \in Nat /\ n \in 0 .. Len(p)
  BY <1>1, LenProperties
<1>3. s \in Seq(S) /\ Len(s) = n
  BY <1>1, <1>2, PrefixFacts
<1>4. ASSUME NEW m \in 0 .. n - 1 PROVE SubSeq(s, 1, m) \in Sections(p)
  <2>1. m \in 0 .. n /\ m \in 0 .. Len(p) - 1
    BY <1>1, <1>2
  <2>2. SubSeq(s, 1, m) = SubSeq(p, 1, m)
    BY <1>1, <1>2, <2>1, PrefixOfPrefix
  <2> QED
    BY <2>1, <2>2 DEF Sections
<1> QED
  BY <1>3, <1>4 DEF Sections

(* The last section on the way is the one the path is in. *)
LEMMA SectionsEnd ==
  ASSUME NEW S, NEW p \in Seq(S), p # <<>>
  PROVE  /\ SectionOf(p) \in Seq(S)
         /\ Sections(p) = Sections(SectionOf(p)) \cup {SectionOf(p)}
<1> DEFINE s == SectionOf(p)
<1>1. Len(p) \in Nat \ {0}
  BY LenProperties, EmptySeq
<1>2. s = SubSeq(p, 1, Len(p) - 1) /\ Len(p) - 1 \in 0 .. Len(p)
  BY <1>1 DEF SectionOf
<1> HIDE DEF s
<1>3. s \in Seq(S) /\ Len(s) = Len(p) - 1 /\ s \in Sections(p)
  <2>1. Len(p) - 1 \in 0 .. Len(p) - 1
    BY <1>1
  <2>2. s \in Sections(p)
    BY <1>2, <2>1 DEF Sections
  <2>3. s \in Seq(S) /\ Len(s) = Len(p) - 1
    BY <1>2, PrefixFacts
  <2> QED
    BY <2>2, <2>3
<1>4. Sections(s) \subseteq Sections(p)
  BY <1>3, SectionsNest
<1>5. ASSUME NEW n \in 0 .. Len(p) - 1
      PROVE  SubSeq(p, 1, n) \in Sections(s) \cup {s}
  <2>1. CASE n = Len(p) - 1
    BY <1>2, <2>1
  <2>2. CASE n # Len(p) - 1
    <3>1. n \in 0 .. Len(s) - 1 /\ n \in 0 .. Len(p) - 1
      BY <1>1, <1>3, <2>2
    <3>2. SubSeq(s, 1, n) = SubSeq(p, 1, n)
      BY <1>2, <3>1, PrefixOfPrefix
    <3> QED
      BY <3>1, <3>2 DEF Sections
  <2> QED
    BY <2>1, <2>2
<1>6. ASSUME NEW t \in Sections(p) PROVE t \in Sections(s) \cup {s}
  <2>1. PICK n \in 0 .. Len(p) - 1 : t = SubSeq(p, 1, n)
    BY DEF Sections
  <2> QED
    BY <1>5, <2>1
<1> QED
  BY <1>3, <1>4, <1>6 DEF s

LEMMA NoSections == Sections(<<>>) = {} /\ <<>> \in Paths
<1>1. Len(<<>>) = 0 /\ <<>> \in Paths
  BY EmptySeq DEF Paths
<1>2. 0 .. Len(<<>>) - 1 = {}
  BY <1>1
<1> QED
  BY <1>1, <1>2 DEF Sections

-----------------------------------------------------------------------------
(* The merge of two documents.                                             *)

LEMMA EmptyIsDocument == IsDocument(Empty)
<1>1. DOMAIN Empty = {<<>>} /\ IsMapping(Empty[<<>>])
  BY DEF Empty, Mapping, IsMapping
<1> QED
  BY <1>1, NoSections DEF IsDocument, Paths

LEMMA DocumentFacts ==
  ASSUME NEW d, IsDocument(d), NEW p \in DOMAIN d
  PROVE  /\ p \in Paths
         /\ \A s \in Sections(p) : s \in DOMAIN d /\ IsMapping(d[s])
BY DEF IsDocument, Paths

LEMMA MergeFacts ==
  ASSUME NEW a, NEW b
  PROVE  /\ DOMAIN Merge(a, b) = Kept(a, b) \cup DOMAIN b
         /\ \A p \in DOMAIN Merge(a, b) :
              Merge(a, b)[p] = IF p \in Kept(a, b) THEN a[p] ELSE b[p]
BY DEF Merge

(* The merge of two documents is one: the values of one never end up       *)
(* inside a value of the other.                                            *)
THEOREM MergeKeepsDocuments ==
  ASSUME NEW a, NEW b, IsDocument(a), IsDocument(b)
  PROVE  IsDocument(Merge(a, b))
<1> DEFINE d == Merge(a, b)
<1>1. /\ DOMAIN d = Kept(a, b) \cup DOMAIN b
      /\ \A p \in DOMAIN d : d[p] = IF p \in Kept(a, b) THEN a[p] ELSE b[p]
  BY MergeFacts
<1> HIDE DEF d
<1>2. ASSUME NEW p \in Kept(a, b), NEW s \in Sections(p)
      PROVE  s \in Kept(a, b) /\ IsMapping(a[s])
  <2>1. p \in DOMAIN a /\ p \in Paths /\ s \in DOMAIN a /\ IsMapping(a[s])
    BY <1>2, DocumentFacts DEF Kept
  <2>2. Sections(s) \subseteq Sections(p)
    BY <1>2, <2>1, SectionsNest DEF Paths
  <2> QED
    BY <1>2, <2>1, <2>2 DEF Kept
<1>3. ASSUME NEW s \in DOMAIN b, IsMapping(b[s]) PROVE IsMapping(d[s])
  <2>1. s \in Kept(a, b) => IsMapping(a[s])
    BY <1>3 DEF Kept
  <2> QED
    BY <1>1, <1>3, <2>1
<1>4. ASSUME NEW p \in DOMAIN d
      PROVE  /\ p \in Paths
             /\ \A s \in Sections(p) : s \in DOMAIN d /\ IsMapping(d[s])
  <2>1. CASE p \in Kept(a, b)
    <3>1. p \in DOMAIN a
      BY <2>1 DEF Kept
    <3> QED
      BY <1>1, <1>2, <2>1, <3>1, DocumentFacts
  <2>2. CASE p \in DOMAIN b
    BY <1>1, <1>3, <2>2, DocumentFacts
  <2> QED
    BY <1>1, <1>4, <2>1, <2>2
<1>5. <<>> \in DOMAIN d /\ IsMapping(d[<<>>])
  BY <1>1, <1>3 DEF IsDocument
<1> QED
  BY <1>4, <1>5 DEF IsDocument, Paths, d

(* Where no value of the merge is in the way, nothing the base has on the  *)
(* way to a path of its own was replaced.                                  *)
LEMMA NothingReplaced ==
  ASSUME NEW a, NEW b, IsDocument(a), NEW p \in DOMAIN a,
         \A s \in Sections(p) :
           s \in DOMAIN Merge(a, b) => IsMapping(Merge(a, b)[s])
  PROVE  /\ \A s \in Sections(p) : s \in DOMAIN b => IsMapping(a[s]) /\ IsMapping(b[s])
         /\ p \notin DOMAIN b => p \in Kept(a, b)
<1> DEFINE d == Merge(a, b)
<1>0. /\ DOMAIN d = Kept(a, b) \cup DOMAIN b
      /\ \A q \in DOMAIN d : d[q] = IF q \in Kept(a, b) THEN a[q] ELSE b[q]
  BY MergeFacts
<1> HIDE DEF d
<1>1. ASSUME NEW s \in Sections(p), s \in DOMAIN b
      PROVE  IsMapping(a[s]) /\ IsMapping(b[s])
  <2>1. IsMapping(a[s])
    BY DocumentFacts
  <2>2. s \in DOMAIN d /\ IsMapping(d[s])
    BY <1>0, <1>1 DEF d
  <2>3. CASE s \in Kept(a, b)
    BY <1>1, <2>1, <2>3 DEF Kept
  <2>4. CASE s \notin Kept(a, b)
    BY <1>0, <2>1, <2>2, <2>4
  <2> QED
    BY <2>3, <2>4
<1> QED
  BY <1>1 DEF Kept

(* What a merge says of a path that no value blocks, when it says a value: *)
(* what the overlay says, or else the base.                                *)
THEOREM MergeSays ==
  ASSUME NEW a, NEW b, IsDocument(a), NEW p, ~Blocked(Merge(a, b), p)
  PROVE  /\ p \in DOMAIN Merge(a, b) <=> p \in DOMAIN a \cup DOMAIN b
         /\ p \in DOMAIN Merge(a, b) /\ ~IsMapping(Merge(a, b)[p])
              => Merge(a, b)[p] = IF p \in DOMAIN b THEN b[p] ELSE a[p]
<1> DEFINE d == Merge(a, b)
<1>1. /\ DOMAIN d = Kept(a, b) \cup DOMAIN b
      /\ \A q \in DOMAIN d : d[q] = IF q \in Kept(a, b) THEN a[q] ELSE b[q]
  BY MergeFacts
<1>2. p \in DOMAIN a /\ p \notin DOMAIN b => p \in Kept(a, b)
  BY NothingReplaced DEF Blocked
<1> HIDE DEF d
<1>3. p \in DOMAIN d <=> p \in DOMAIN a \cup DOMAIN b
  BY <1>1, <1>2 DEF Kept
<1>4. ASSUME p \in DOMAIN d, ~IsMapping(d[p])
      PROVE  d[p] = IF p \in DOMAIN b THEN b[p] ELSE a[p]
  BY <1>1, <1>4 DEF Kept
<1> QED
  BY <1>3, <1>4 DEF d

(* A section of a merge that no value blocks has something in it exactly   *)
(* if it has in one of the layers.                                         *)
THEOREM MergeFills ==
  ASSUME NEW a, NEW b, IsDocument(a), IsDocument(b), NEW S, NEW p \in Seq(S), p # <<>>,
         ~Blocked(Merge(a, b), p)
  PROVE  Filled(Merge(a, b), SectionOf(p))
           <=> Filled(b, SectionOf(p)) \/ Filled(a, SectionOf(p))
<1> DEFINE d == Merge(a, b)
           s == SectionOf(p)
<1>1. /\ DOMAIN d = Kept(a, b) \cup DOMAIN b
      /\ \A q \in DOMAIN d : d[q] = IF q \in Kept(a, b) THEN a[q] ELSE b[q]
  BY MergeFacts
<1>2. s \in Seq(S) /\ Sections(p) = Sections(s) \cup {s}
  BY SectionsEnd
<1>3. \A t \in Sections(s) \cup {s} : t \in DOMAIN d => IsMapping(d[t])
  BY <1>2 DEF Blocked
<1>4. ASSUME NEW q \in Paths, q # <<>>, SectionOf(q) = s
      PROVE  Sections(q) = Sections(s) \cup {s}
  BY <1>4, SectionsEnd DEF Paths
<1>5. Kept(a, b) \subseteq DOMAIN a
  BY DEF Kept
<1> HIDE DEF s
<1>6. ASSUME Filled(d, s) PROVE Filled(b, s) \/ Filled(a, s)
  <2>1. PICK q \in DOMAIN d : q # <<>> /\ SectionOf(q) = s
    BY <1>6 DEF Filled
  <2>2. ASSUME NEW e, IsDocument(e), q \in DOMAIN e PROVE Filled(e, s)
    <3>1. q \in Paths /\ \A t \in Sections(q) : t \in DOMAIN e /\ IsMapping(e[t])
      BY <2>2, DocumentFacts
    <3>2. s \in Sections(q)
      BY <1>4, <2>1, <3>1
    <3> QED
      BY <2>1, <2>2, <3>1, <3>2 DEF Filled
  <2>3. q \in DOMAIN a \/ q \in DOMAIN b
    BY <1>1, <1>5
  <2> QED
    BY <2>2, <2>3
<1>7. ASSUME NEW q \in DOMAIN d, q # <<>>, SectionOf(q) = s, s \in DOMAIN d
      PROVE  Filled(d, s)
  BY <1>3, <1>7 DEF Filled
<1>8. ASSUME Filled(b, s) PROVE Filled(d, s)
  BY <1>1, <1>7, <1>8 DEF Filled
<1>9. ASSUME Filled(a, s) PROVE Filled(d, s)
  <2>1. PICK q \in DOMAIN a : q # <<>> /\ SectionOf(q) = s
    BY <1>9 DEF Filled
  <2>2. q \in Paths /\ s \in DOMAIN a /\ \A t \in Sections(q) : t \in DOMAIN a
    BY <1>9, <2>1, DocumentFacts DEF Filled
  <2>3. Sections(q) = Sections(s) \cup {s}
    BY <1>4, <2>1, <2>2
  <2>4. /\ \A t \in Sections(q) : t \in DOMAIN b => IsMapping(a[t]) /\ IsMapping(b[t])
        /\ q \notin DOMAIN b => q \in Kept(a, b)
    BY <1>3, <2>3, NothingReplaced DEF d
  <2>5. s \in DOMAIN d
    <3>1. CASE s \in DOMAIN b
      BY <1>1, <3>1
    <3>2. CASE s \notin DOMAIN b
      <4>1. s \in Kept(a, b)
        BY <2>2, <2>3, <2>4, <3>2 DEF Kept
      <4> QED
        BY <1>1, <4>1
    <3> QED
      BY <3>1, <3>2
  <2> QED
    BY <1>1, <1>7, <2>1, <2>4, <2>5
<1> QED
  BY <1>6, <1>8, <1>9 DEF d, s

-----------------------------------------------------------------------------
(* The recursion of deep_merge.                                            *)

(* The keys of a mapping, and the document that is inside one of them. *)
Keys(doc) == {k \in STRING : <<k>> \in DOMAIN doc}
Inside(doc, k) ==
  [q \in {q \in Paths : <<k>> \o q \in DOMAIN doc} |-> doc[<<k>> \o q]]

LEMMA InsidePath ==
  ASSUME NEW k \in STRING, NEW q \in Paths
  PROVE  /\ <<k>> \o q \in Paths /\ Len(<<k>> \o q) = Len(q) + 1
         /\ (<<k>> \o q)[1] = k
         /\ \A i \in 1 .. Len(q) : (<<k>> \o q)[i + 1] = q[i]
<1> DEFINE key == <<k>>
<1>1. key \in Paths /\ Len(key) = 1 /\ key[1] = k
  <2>1. key \in Seq(STRING)
    BY Tuples
  <2> QED
    BY <2>1 DEF Paths
<1>2. Len(q) \in Nat
  BY LenProperties DEF Paths
<1> HIDE DEF key
<1>3. /\ key \o q \in Seq(STRING) /\ Len(key \o q) = Len(key) + Len(q)
      /\ \A i \in 1 .. Len(key) + Len(q) :
           (key \o q)[i] = IF i <= Len(key) THEN key[i] ELSE q[i - Len(key)]
  BY <1>1, ConcatProperties DEF Paths
<1>4. ASSUME NEW i \in 1 .. Len(q) PROVE (key \o q)[i + 1] = q[i]
  <2>1. /\ i + 1 \in 1 .. Len(key) + Len(q) /\ ~(i + 1 <= Len(key))
        /\ (i + 1) - Len(key) = i
    BY <1>1, <1>2
  <2> QED
    BY <1>3, <2>1
<1>5. (key \o q)[1] = k
  <2>1. 1 \in 1 .. Len(key) + Len(q) /\ 1 <= Len(key)
    BY <1>1, <1>2
  <2> QED
    BY <1>1, <1>3, <2>1
<1>6. /\ key \o q \in Paths /\ Len(key \o q) = Len(q) + 1
      /\ (key \o q)[1] = k
      /\ \A i \in 1 .. Len(q) : (key \o q)[i + 1] = q[i]
  BY <1>1, <1>2, <1>3, <1>4, <1>5 DEF Paths
<1> QED
  BY <1>6 DEF key

LEMMA InsidePrefix ==
  ASSUME NEW k \in STRING, NEW q \in Paths, NEW n \in 0 .. Len(q)
  PROVE  SubSeq(<<k>> \o q, 1, n + 1) = <<k>> \o SubSeq(q, 1, n)
<1> DEFINE p == <<k>> \o q
           t == SubSeq(q, 1, n)
           u == <<k>> \o t
<1>1. Len(q) \in Nat /\ n \in Nat
  BY LenProperties DEF Paths
<1>2. /\ p \in Paths /\ Len(p) = Len(q) + 1 /\ p[1] = k
      /\ \A i \in 1 .. Len(q) : p[i + 1] = q[i]
  BY InsidePath
<1>3. t \in Paths /\ Len(t) = n /\ \A i \in 1 .. n : t[i] = q[i]
  BY PrefixFacts DEF Paths
<1> HIDE DEF t
<1>4. u \in Paths /\ Len(u) = n + 1 /\ u[1] = k /\ \A i \in 1 .. n : u[i + 1] = t[i]
  BY <1>3, InsidePath
<1> HIDE DEF p, u
<1>5. n + 1 \in 0 .. Len(p)
  BY <1>1, <1>2
<1>6. /\ SubSeq(p, 1, n + 1) \in Paths /\ Len(SubSeq(p, 1, n + 1)) = n + 1
      /\ \A i \in 1 .. n + 1 : SubSeq(p, 1, n + 1)[i] = p[i]
  BY <1>2, <1>5, PrefixFacts DEF Paths
<1>7. ASSUME NEW i \in 1 .. n + 1 PROVE SubSeq(p, 1, n + 1)[i] = u[i]
  <2>1. CASE i = 1
    BY <1>2, <1>4, <1>6, <1>7, <2>1
  <2>2. CASE i # 1
    <3>1. i - 1 \in 1 .. n /\ i - 1 \in 1 .. Len(q) /\ (i - 1) + 1 = i
      BY <1>1, <1>7, <2>2
    <3>2. p[i] = q[i - 1] /\ u[i] = t[i - 1] /\ t[i - 1] = q[i - 1]
      BY <1>2, <1>3, <1>4, <3>1
    <3> QED
      BY <1>6, <1>7, <3>2
  <2> QED
    BY <2>1, <2>2
<1>8. SubSeq(p, 1, n + 1) = u
  BY <1>4, <1>6, <1>7, SeqEqual DEF Paths
<1> QED
  BY <1>8 DEF p, t, u

(* The sections on the way to a path inside a key: the root, and inside    *)
(* the key those on the way to it.                                         *)
LEMMA InsideSections ==
  ASSUME NEW k \in STRING, NEW q \in Paths
  PROVE  Sections(<<k>> \o q) = {<<>>} \cup {<<k>> \o s : s \in Sections(q)}
<1> DEFINE p == <<k>> \o q
<1>1. Len(q) \in Nat /\ p \in Paths /\ Len(p) = Len(q) + 1
  BY InsidePath, LenProperties DEF Paths
<1>2. SubSeq(p, 1, 0) = <<>>
  <2>1. SubSeq(p, 1, 0) \in Seq(STRING) /\ Len(SubSeq(p, 1, 0)) = 0
    BY <1>1, PrefixFacts DEF Paths
  <2> QED
    BY <2>1, EmptySeq
<1>3. \A n \in 0 .. Len(q) : SubSeq(p, 1, n + 1) = <<k>> \o SubSeq(q, 1, n)
  BY InsidePrefix
<1> HIDE DEF p
<1>4. ASSUME NEW s \in Sections(p)
      PROVE  s \in {<<>>} \cup {<<k>> \o t : t \in Sections(q)}
  <2>1. PICK n \in 0 .. Len(p) - 1 : s = SubSeq(p, 1, n)
    BY <1>4 DEF Sections
  <2>2. CASE n = 0
    BY <1>2, <2>1, <2>2
  <2>3. CASE n # 0
    <3>1. n - 1 \in 0 .. Len(q) - 1 /\ n - 1 \in 0 .. Len(q) /\ (n - 1) + 1 = n
      BY <1>1, <2>1, <2>3
    <3>2. s = <<k>> \o SubSeq(q, 1, n - 1)
      BY <1>3, <2>1, <3>1
    <3>3. SubSeq(q, 1, n - 1) \in Sections(q)
      BY <3>1 DEF Sections
    <3> QED
      BY <3>2, <3>3
  <2> QED
    BY <2>2, <2>3
<1>5. <<>> \in Sections(p)
  BY <1>1, <1>2, 0 \in 0 .. Len(p) - 1 DEF Sections
<1>6. ASSUME NEW t \in Sections(q) PROVE <<k>> \o t \in Sections(p)
  <2>1. PICK n \in 0 .. Len(q) - 1 : t = SubSeq(q, 1, n)
    BY DEF Sections
  <2>2. n \in 0 .. Len(q) /\ n + 1 \in 0 .. Len(p) - 1
    BY <1>1, <2>1
  <2>3. <<k>> \o t = SubSeq(p, 1, n + 1)
    BY <1>3, <2>1, <2>2
  <2> QED
    BY <2>2, <2>3 DEF Sections
<1>7. Sections(p) = {<<>>} \cup {<<k>> \o s : s \in Sections(q)}
  BY <1>4, <1>5, <1>6
<1> QED
  BY <1>7 DEF p

LEMMA InsideFacts ==
  ASSUME NEW doc, NEW k
  PROVE  /\ DOMAIN Inside(doc, k) = {q \in Paths : <<k>> \o q \in DOMAIN doc}
         /\ \A q \in DOMAIN Inside(doc, k) : Inside(doc, k)[q] = doc[<<k>> \o q]
BY DEF Inside

(* The root is on the way to every other path. *)
LEMMA RootSection ==
  ASSUME NEW q \in Paths, q # <<>>
  PROVE  <<>> \in Sections(q)
<1>1. Len(q) \in Nat \ {0} /\ 0 \in 0 .. Len(q) - 1 /\ 0 \in 0 .. Len(q)
  BY EmptySeq, LenProperties DEF Paths
<1>2. SubSeq(q, 1, 0) \in Seq(STRING) /\ Len(SubSeq(q, 1, 0)) = 0
  BY <1>1, PrefixFacts DEF Paths
<1>3. SubSeq(q, 1, 0) = <<>>
  BY <1>2, EmptySeq
<1> QED
  BY <1>1, <1>3 DEF Sections

LEMMA KeyPath ==
  ASSUME NEW k \in STRING
  PROVE  <<k>> \o <<>> = <<k>>
BY Tuples, ConcatEmptySeq

(* What a document has inside a key is there only if the key is. *)
LEMMA InsideNeedsKey ==
  ASSUME NEW doc, IsDocument(doc), NEW k \in STRING, NEW q \in Paths,
         <<k>> \o q \in DOMAIN doc
  PROVE  k \in Keys(doc) /\ (q # <<>> => IsMapping(doc[<<k>>]))
<1> DEFINE p == <<k>> \o q
<1>1. CASE q = <<>>
  BY <1>1, KeyPath DEF Keys
<1>2. CASE q # <<>>
  <2>1. <<k>> \o <<>> \in Sections(<<k>> \o q)
    BY <1>2, RootSection, InsideSections
  <2>2. <<k>> \in DOMAIN doc /\ IsMapping(doc[<<k>>])
    BY <2>1, KeyPath, DocumentFacts
  <2> QED
    BY <2>2 DEF Keys
<1> QED
  BY <1>1, <1>2

LEMMA InsideIsFunction ==
  ASSUME NEW doc, NEW k
  PROVE  Inside(doc, k) = [q \in DOMAIN Inside(doc, k) |-> Inside(doc, k)[q]]
<1> DEFINE there == {q \in Paths : <<k>> \o q \in DOMAIN doc}
           f == [q \in there |-> doc[<<k>> \o q]]
<1>1. Inside(doc, k) = f
  BY DEF Inside
<1> HIDE DEF there
<1>2. f = [q \in DOMAIN f |-> f[q]]
  OBVIOUS
<1> QED
  BY <1>1, <1>2

LEMMA MergeIsFunction ==
  ASSUME NEW a, NEW b
  PROVE  Merge(a, b) = [q \in DOMAIN Merge(a, b) |-> Merge(a, b)[q]]
<1> DEFINE there == Kept(a, b) \cup DOMAIN b
           f == [q \in there |-> IF q \in Kept(a, b) THEN a[q] ELSE b[q]]
<1>1. Merge(a, b) = f
  BY DEF Merge
<1> HIDE DEF there
<1>2. f = [q \in DOMAIN f |-> f[q]]
  OBVIOUS
<1> QED
  BY <1>1, <1>2

LEMMA SameFunction ==
  ASSUME NEW f, NEW g, f = [q \in DOMAIN f |-> f[q]], g = [q \in DOMAIN g |-> g[q]],
         DOMAIN f = DOMAIN g, \A q \in DOMAIN f : f[q] = g[q]
  PROVE  f = g
<1>1. [q \in DOMAIN f |-> f[q]] = [q \in DOMAIN g |-> g[q]]
  OBVIOUS
<1> QED
  BY <1>1

(* So the merge inside a key is one of documents again. *)
LEMMA InsideIsDocument ==
  ASSUME NEW doc, IsDocument(doc), NEW k \in Keys(doc), IsMapping(doc[<<k>>])
  PROVE  IsDocument(Inside(doc, k))
<1> DEFINE in == Inside(doc, k)
<1>1. /\ DOMAIN in = {q \in Paths : <<k>> \o q \in DOMAIN doc}
      /\ \A q \in DOMAIN in : in[q] = doc[<<k>> \o q]
  BY InsideFacts
<1>2. k \in STRING /\ <<k>> \o <<>> = <<k>> /\ <<k>> \in DOMAIN doc
  BY KeyPath DEF Keys
<1> HIDE DEF in
<1>3. <<>> \in DOMAIN in /\ IsMapping(in[<<>>])
  BY <1>1, <1>2, NoSections
<1>4. ASSUME NEW q \in DOMAIN in, NEW s \in Sections(q)
      PROVE  s \in DOMAIN in /\ IsMapping(in[s])
  <2>1. q \in Paths /\ <<k>> \o q \in DOMAIN doc
    BY <1>1
  <2>2. s \in Paths
    BY <2>1, SectionsNest DEF Paths
  <2>3. <<k>> \o s \in Sections(<<k>> \o q)
    <3>1. Sections(<<k>> \o q) = {<<>>} \cup {<<k>> \o t : t \in Sections(q)}
      BY <1>2, <2>1, InsideSections
    <3> QED
      BY <3>1
  <2>4. <<k>> \o s \in DOMAIN doc /\ IsMapping(doc[<<k>> \o s])
    BY <2>1, <2>3, DocumentFacts
  <2> QED
    BY <1>1, <2>2, <2>4
<1>5. IsDocument(in)
  BY <1>1, <1>3, <1>4 DEF IsDocument, Paths
<1> QED
  BY <1>5 DEF in

(* What the base keeps of what is inside a key is what it keeps there. *)
LEMMA InsideKept ==
  ASSUME NEW a, NEW b, IsDocument(a), IsDocument(b), NEW k \in STRING, NEW q \in Paths
  PROVE  <<k>> \o q \in Kept(a, b) <=> q \in Kept(Inside(a, k), Inside(b, k))
<1> DEFINE p == <<k>> \o q
<1>1. p \in Paths /\ Sections(p) \cup {p} = {<<>>} \cup {<<k>> \o s : s \in Sections(q) \cup {q}}
  <2>1. p \in Paths /\ Sections(p) = {<<>>} \cup {<<k>> \o s : s \in Sections(q)}
    BY InsidePath, InsideSections
  <2>2. p = <<k>> \o q
    OBVIOUS
  <2> HIDE DEF p
  <2> QED
    BY <2>1, <2>2
<1>2. Sections(q) \cup {q} \subseteq Paths
  <2>1. ASSUME NEW s \in Sections(q) PROVE s \in Seq(STRING)
    BY SectionsNest DEF Paths
  <2> QED
    BY <2>1 DEF Paths
<1>3. <<>> \in DOMAIN a /\ IsMapping(a[<<>>]) /\ <<>> \in DOMAIN b /\ IsMapping(b[<<>>])
  BY DEF IsDocument
<1>4. ASSUME NEW doc
      PROVE  \A s \in Sections(q) \cup {q} :
               /\ s \in DOMAIN Inside(doc, k) <=> <<k>> \o s \in DOMAIN doc
               /\ s \in DOMAIN Inside(doc, k) => Inside(doc, k)[s] = doc[<<k>> \o s]
  <2> DEFINE inside == Inside(doc, k)
  <2>1. /\ DOMAIN inside = {t \in Paths : <<k>> \o t \in DOMAIN doc}
        /\ \A t \in DOMAIN inside : inside[t] = doc[<<k>> \o t]
    BY InsideFacts
  <2> HIDE DEF inside
  <2>2. \A s \in Sections(q) \cup {q} :
          /\ s \in DOMAIN inside <=> <<k>> \o s \in DOMAIN doc
          /\ s \in DOMAIN inside => inside[s] = doc[<<k>> \o s]
    BY <1>2, <2>1
  <2> QED
    BY <2>2 DEF inside
<1> HIDE DEF p
<1>5. p \in Kept(a, b)
        <=> p \in DOMAIN a /\ \A s \in Sections(q) \cup {q} :
              <<k>> \o s \in DOMAIN b => IsMapping(a[<<k>> \o s]) /\ IsMapping(b[<<k>> \o s])
  BY <1>1, <1>3 DEF Kept
<1>6. ASSUME p \in DOMAIN a, NEW s \in Sections(q) \cup {q} PROVE <<k>> \o s \in DOMAIN a
  <2>1. <<k>> \o s \in Sections(p) \cup {p}
    BY <1>1
  <2> QED
    BY <1>6, <2>1, DocumentFacts
<1>7. /\ q \in DOMAIN Inside(a, k) <=> p \in DOMAIN a
      /\ p \in DOMAIN a =>
           \A s \in Sections(q) \cup {q} :
             /\ Inside(a, k)[s] = a[<<k>> \o s]
             /\ s \in DOMAIN Inside(b, k) <=> <<k>> \o s \in DOMAIN b
             /\ s \in DOMAIN Inside(b, k) => Inside(b, k)[s] = b[<<k>> \o s]
  BY <1>4, <1>6 DEF p
<1>8. p \in Kept(a, b) <=> q \in Kept(Inside(a, k), Inside(b, k))
  BY <1>5, <1>7 DEF Kept
<1> QED
  BY <1>8 DEF p

(* The merge obeys the recursion of deep_merge: it has the keys of both,   *)
(* and inside a key it has what the base has there if the overlay has not  *)
(* the key, the merge of the two if both have a mapping there, and what    *)
(* the overlay has there otherwise.                                        *)
THEOREM MergeRecurs ==
  ASSUME NEW a, NEW b, IsDocument(a), IsDocument(b), NEW k \in STRING
  PROVE  /\ k \in Keys(Merge(a, b)) <=> k \in Keys(a) \cup Keys(b)
         /\ Inside(Merge(a, b), k) =
              IF k \notin Keys(b) THEN Inside(a, k)
              ELSE IF k \in Keys(a) /\ IsMapping(a[<<k>>]) /\ IsMapping(b[<<k>>])
              THEN Merge(Inside(a, k), Inside(b, k))
              ELSE Inside(b, k)
<1> DEFINE d == Merge(a, b)
           ka == Inside(a, k)
           kb == Inside(b, k)
           kd == Inside(d, k)
<1>1. /\ DOMAIN d = Kept(a, b) \cup DOMAIN b
      /\ \A p \in DOMAIN d : d[p] = IF p \in Kept(a, b) THEN a[p] ELSE b[p]
  BY MergeFacts
<1>2. /\ DOMAIN Merge(ka, kb) = Kept(ka, kb) \cup DOMAIN kb
      /\ \A q \in DOMAIN Merge(ka, kb) :
           Merge(ka, kb)[q] = IF q \in Kept(ka, kb) THEN ka[q] ELSE kb[q]
  BY MergeFacts
<1>3. /\ DOMAIN ka = {q \in Paths : <<k>> \o q \in DOMAIN a}
      /\ DOMAIN kb = {q \in Paths : <<k>> \o q \in DOMAIN b}
      /\ DOMAIN kd = {q \in Paths : <<k>> \o q \in DOMAIN d}
      /\ \A q \in DOMAIN ka : ka[q] = a[<<k>> \o q]
      /\ \A q \in DOMAIN kb : kb[q] = b[<<k>> \o q]
      /\ \A q \in DOMAIN kd : kd[q] = d[<<k>> \o q]
  <2>1. /\ DOMAIN ka = {q \in Paths : <<k>> \o q \in DOMAIN a}
        /\ \A q \in DOMAIN ka : ka[q] = a[<<k>> \o q]
    BY InsideFacts
  <2>2. /\ DOMAIN kb = {q \in Paths : <<k>> \o q \in DOMAIN b}
        /\ \A q \in DOMAIN kb : kb[q] = b[<<k>> \o q]
    BY InsideFacts
  <2> HIDE DEF d
  <2>3. /\ DOMAIN kd = {q \in Paths : <<k>> \o q \in DOMAIN d}
        /\ \A q \in DOMAIN kd : kd[q] = d[<<k>> \o q]
    BY InsideFacts
  <2> QED
    BY <2>1, <2>2, <2>3
<1>4. \A q \in Paths : <<k>> \o q \in Kept(a, b) <=> q \in Kept(ka, kb)
  BY InsideKept
<1>5. Kept(ka, kb) \subseteq DOMAIN ka
  BY DEF Kept
<1> DEFINE kc == Merge(ka, kb)
<1>6. /\ ka = [q \in DOMAIN ka |-> ka[q]] /\ kb = [q \in DOMAIN kb |-> kb[q]]
      /\ kd = [q \in DOMAIN kd |-> kd[q]] /\ kc = [q \in DOMAIN kc |-> kc[q]]
  <2>1. kc = [q \in DOMAIN kc |-> kc[q]]
    BY MergeIsFunction
  <2> HIDE DEF d
  <2>2. /\ ka = [q \in DOMAIN ka |-> ka[q]] /\ kb = [q \in DOMAIN kb |-> kb[q]]
        /\ kd = [q \in DOMAIN kd |-> kd[q]]
    BY InsideIsFunction
  <2> QED
    BY <2>1, <2>2
<1> HIDE DEF d, ka, kb, kd, kc
(* Inside the key the merge is always the merge of what is inside. *)
<1>7. kd = kc
  <2>1. DOMAIN kd = DOMAIN kc
    BY <1>1, <1>2, <1>3, <1>4, <1>5 DEF kc
  <2>2. ASSUME NEW q \in DOMAIN kd PROVE kd[q] = kc[q]
    <3>1. q \in Paths /\ <<k>> \o q \in DOMAIN d /\ q \in DOMAIN kc
      BY <1>3, <2>1, <2>2
    <3>2. /\ kd[q] = d[<<k>> \o q]
          /\ d[<<k>> \o q] = IF <<k>> \o q \in Kept(a, b) THEN a[<<k>> \o q] ELSE b[<<k>> \o q]
      BY <1>1, <1>3, <2>2, <3>1
    <3>3. kc[q] = IF q \in Kept(ka, kb) THEN ka[q] ELSE kb[q]
      BY <1>2, <3>1 DEF kc
    <3>4. CASE q \in Kept(ka, kb)
      BY <1>3, <1>4, <1>5, <3>1, <3>2, <3>3, <3>4
    <3>5. CASE q \notin Kept(ka, kb)
      <4>1. q \in DOMAIN kb
        BY <1>2, <3>1, <3>5 DEF kc
      <4> QED
        BY <1>3, <1>4, <3>1, <3>2, <3>3, <3>5, <4>1
    <3> QED
      BY <3>4, <3>5
  <2> QED
    BY <1>6, <2>1, <2>2, SameFunction
<1>8. k \in Keys(d) <=> k \in Keys(a) \cup Keys(b)
  <2>1. /\ k \in Keys(a) <=> <<>> \in DOMAIN ka
        /\ k \in Keys(b) <=> <<>> \in DOMAIN kb
        /\ k \in Keys(d) <=> <<>> \in DOMAIN kd
    BY <1>3, KeyPath, NoSections DEF Keys
  <2>2. <<>> \in DOMAIN ka /\ <<>> \notin DOMAIN kb => <<>> \in Kept(ka, kb)
    BY NoSections DEF Kept
  <2> QED
    BY <1>2, <1>5, <1>7, <2>1, <2>2 DEF kc
<1>9. ASSUME k \notin Keys(b) PROVE kd = ka
  <2>1. DOMAIN kb = {}
    BY <1>3, <1>9, InsideNeedsKey
  <2>2. DOMAIN kc = DOMAIN ka /\ \A q \in DOMAIN ka : kc[q] = ka[q]
    BY <1>2, <2>1 DEF Kept, kc
  <2>3. kc = ka
    BY <1>6, <2>2, SameFunction
  <2> QED
    BY <1>7, <2>3
<1>10. ASSUME k \in Keys(b), ~(k \in Keys(a) /\ IsMapping(a[<<k>>]) /\ IsMapping(b[<<k>>]))
       PROVE  kd = kb
  <2>1. ASSUME NEW q \in Kept(ka, kb) PROVE FALSE
    <3>1. q \in Paths /\ <<k>> \o q \in DOMAIN a /\ q \in Kept(ka, kb)
      BY <1>3, <1>5
    <3>2. k \in Keys(a)
      BY <3>1, InsideNeedsKey
    <3>3. <<>> \in Sections(q) \cup {q} /\ <<>> \in Paths
      BY <3>1, RootSection, NoSections
    <3>4. <<>> \in DOMAIN ka /\ <<>> \in DOMAIN kb
      BY <1>3, <1>10, <3>2, <3>3, KeyPath DEF Keys
    <3>5. IsMapping(ka[<<>>]) /\ IsMapping(kb[<<>>])
      BY <3>1, <3>3, <3>4 DEF Kept
    <3>6. ka[<<>>] = a[<<k>>] /\ kb[<<>>] = b[<<k>>]
      BY <1>3, <3>4, KeyPath
    <3> QED
      BY <1>10, <3>2, <3>5, <3>6
  <2>2. DOMAIN kc = DOMAIN kb /\ \A q \in DOMAIN kb : kc[q] = kb[q]
    BY <1>2, <2>1 DEF kc
  <2>3. kc = kb
    BY <1>6, <2>2, SameFunction
  <2> QED
    BY <1>7, <2>3
<1>11. kd = IF k \notin Keys(b) THEN ka
            ELSE IF k \in Keys(a) /\ IsMapping(a[<<k>>]) /\ IsMapping(b[<<k>>])
            THEN kc ELSE kb
  BY <1>7, <1>9, <1>10
<1> QED
  BY <1>8, <1>11 DEF d, ka, kb, kd, kc

-----------------------------------------------------------------------------
(* The tables.                                                             *)

(* A row with a path and a code default in its range. *)
Fits(row) == /\ \E S : row.path \in Seq(S)
             /\ row.path # <<>> /\ row.default \in row.range

LEMMA OptionFits ==
  ASSUME NEW S, NEW p \in Seq(S), p # <<>>, NEW r, NEW d \in r
  PROVE  Fits(Option(p, r, d))
BY DEF Fits, Option

(* One lemma per length of the path and kind of range: what the provers    *)
(* match against the rows of the tables.                                   *)
LEMMA RootFits == \A a, r : \A d \in r : Fits(Option(<<a>>, r, d))
<1> TAKE a, r
<1> TAKE d \in r
<1> QED
  BY a \in {a}, Tuples, OptionFits

LEMMA PairFits == \A a, b, r : \A d \in r : Fits(Option(<<a, b>>, r, d))
<1> TAKE a, b, r
<1> TAKE d \in r
<1> QED
  BY a \in {a, b}, b \in {a, b}, Tuples, OptionFits

LEMMA NumberFits ==
  \A a, b : \A least, most, d \in Int :
    least <= d /\ d <= most => Fits(Option(<<a, b>>, Between(least, most), d))
BY PairFits DEF Between

LEMMA DeepNumberFits ==
  \A a, b, c : \A least, most, d \in Int :
    least <= d /\ d <= most => Fits(Option(<<a, b, c>>, Between(least, most), d))
<1> TAKE a, b, c
<1> TAKE least, most, d \in Int
<1> HAVE least <= d /\ d <= most
<1>1. d \in Between(least, most)
  BY DEF Between
<1> QED
  BY <1>1, a \in {a, b, c}, b \in {a, b, c}, c \in {a, b, c}, Tuples, OptionFits

LEMMA TablesFit == \A ns \in DOMAIN Schema : \A i \in DOMAIN Schema[ns] : Fits(Schema[ns][i])
<1>1. /\ "development" \in Environments /\ Off \in BOOLEAN
      /\ "none" \in Texts /\ "0.0.0.0" \in Texts /\ "development" \in Texts
      /\ "openai" \in Providers /\ {} \in SUBSET Providers /\ "INFO" \in Levels
  BY ConfigurationAssumption DEF Environments, Levels, Off
<1>2. \A i \in DOMAIN AppOptions : Fits(AppOptions[i])
  BY <1>1, RootFits, PairFits, NumberFits, SMT DEF AppOptions
<1>3. \A i \in DOMAIN ApiOptions : Fits(ApiOptions[i])
  BY NumberFits, SMT DEF ApiOptions
<1>4. \A i \in DOMAIN EngineOptions : Fits(EngineOptions[i])
  BY <1>1, PairFits, NumberFits, SMT DEF EngineOptions
<1>5. \A i \in DOMAIN ContextOptions : Fits(ContextOptions[i])
  BY NumberFits, SMT DEF ContextOptions
<1>6. \A i \in DOMAIN ToolOptions : Fits(ToolOptions[i])
  BY PairFits, NumberFits, SMT DEF ToolOptions
<1>7. \A i \in DOMAIN StorageOptions : Fits(StorageOptions[i])
  BY NumberFits, DeepNumberFits, SMT DEF StorageOptions
<1>8. \A i \in DOMAIN ObservabilityOptions : Fits(ObservabilityOptions[i])
  BY <1>1, PairFits, NumberFits, SMT DEF ObservabilityOptions
<1>9. \A i \in DOMAIN SecurityOptions : Fits(SecurityOptions[i])
  BY PairFits, NumberFits, DeepNumberFits, SMT DEF SecurityOptions
<1> QED
  BY <1>2, <1>3, <1>4, <1>5, <1>6, <1>7, <1>8, <1>9 DEF Schema

LEMMA OptionsFit ==
  ASSUME NEW o \in Options
  PROVE  /\ \E S : o[2] \in Seq(S)
         /\ o[2] # <<>> /\ DefaultOf(o) \in RangeOf(o)
<1>1. PICK ns \in DOMAIN Schema : o \in {<<ns, Schema[ns][i].path>> : i \in DOMAIN Schema[ns]}
  BY DEF Options
<1> DEFINE rows == Schema[ns]
<1>2. \A i \in DOMAIN rows : Fits(rows[i])
  BY TablesFit
<1> HIDE DEF rows
<1>3. PICK i \in DOMAIN rows : o = <<ns, rows[i].path>>
  BY <1>1 DEF rows
<1>4. \E j \in DOMAIN rows : rows[j].path = o[2]
  BY <1>3
<1>5. PICK j \in DOMAIN rows : rows[j].path = o[2] /\ Declared(o) = rows[j]
  <2>1. Declared(o) = rows[CHOOSE j \in DOMAIN rows : rows[j].path = o[2]]
    BY <1>3 DEF Declared, rows
  <2> QED
    BY <1>4, <2>1
<1>6. Fits(Declared(o)) /\ Declared(o).path = o[2]
  BY <1>2, <1>5
<1> QED
  BY <1>6 DEF Fits, DefaultOf, RangeOf

LEMMA InTables ==
  ASSUME NEW ns \in DOMAIN Schema, NEW i \in DOMAIN Schema[ns]
  PROVE  <<ns, Schema[ns][i].path>> \in Options
BY DEF Options

LEMMA RowIs ==
  \A p, r, d : Option(p, r, d).path = p /\ Option(p, r, d).default = d
BY DEF Option

(* The variable of the environment always overrides. *)
Steady(v) == v.option = EnvironmentOption => v.when = "always"

LEMMA AlwaysIsSteady == \A ns, p, d : Steady(Variable(ns, p, d, "always"))
BY DEF Steady, Variable

LEMMA PairIsSteady == \A ns, a, b, d, w : Steady(Variable(ns, <<a, b>>, d, w))
<1> TAKE ns, a, b, d, w
<1>1. <<"environment">> # <<a, b>>
  OBVIOUS
<1> QED
  BY <1>1 DEF Steady, Variable, EnvironmentOption

LEMMA EnvironmentFacts ==
  /\ EnvironmentOption \in Options /\ EnvironmentOption \in Overridable
  /\ VariableOf(EnvironmentOption).when = "always"
<1>1. "app" \in DOMAIN Schema /\ Schema["app"] = AppOptions
  BY SMT DEF Schema
<1>2. 1 \in DOMAIN AppOptions /\ AppOptions[1].path = <<"environment">>
  BY RowIs, SMT DEF AppOptions
<1>3. EnvironmentOption \in Options
  BY <1>1, <1>2, InTables DEF EnvironmentOption
<1>4. 1 \in DOMAIN Variables /\ Variables[1].option = EnvironmentOption
  <2>1. /\ 1 \in DOMAIN Variables
        /\ Variables[1] = Variable("app", <<"environment">>, "development", "always")
    BY SMT DEF Variables
  <2> QED
    BY <2>1 DEF Variable, EnvironmentOption
<1>5. \A i \in DOMAIN Variables : Steady(Variables[i])
  BY AlwaysIsSteady, PairIsSteady, SMT DEF Variables
<1>6. PICK i \in DOMAIN Variables :
        Variables[i].option = EnvironmentOption /\ VariableOf(EnvironmentOption) = Variables[i]
  BY <1>4 DEF VariableOf
<1> QED
  BY <1>3, <1>4, <1>5, <1>6 DEF Overridable, Steady

LEMMA ProvidersFacts ==
  /\ ProvidersOption \in Options /\ DefaultProvider \in Options
  /\ DefaultOf(ProvidersOption) = {}
<1>1. "engines" \in DOMAIN Schema /\ Schema["engines"] = EngineOptions
  BY SMT DEF Schema
<1>2. /\ DOMAIN EngineOptions = 1 .. 5
      /\ EngineOptions[1].path = <<"ai", "default_provider">>
      /\ EngineOptions[2].path = <<"ai", "providers">> /\ EngineOptions[2].default = {}
  BY RowIs, SMT DEF EngineOptions
<1>3. \A i \in {1, 3, 4, 5} : EngineOptions[i].path[2] # "providers"
  BY RowIs, SMT DEF EngineOptions
<1>4. ProvidersOption \in Options /\ DefaultProvider \in Options
  BY <1>1, <1>2, InTables DEF ProvidersOption, DefaultProvider
<1>5. \A i \in 1 .. 5 : EngineOptions[i].path = <<"ai", "providers">> => i = 2
  BY <1>3
<1> QED
  BY <1>1, <1>2, <1>4, <1>5 DEF DefaultOf, Declared, ProvidersOption

-----------------------------------------------------------------------------
(* What Config makes of the layers.                                        *)

LEMMA LayersAreDocuments ==
  ASSUME TypeOK, base # Null, NEW ns
  PROVE  IsDocument(BaseOf(ns)) /\ IsDocument(OverlayOf(ns))
<1>1. \A doc \in Documents[subject] : IsDocument(doc)
  BY ConfigurationAssumption DEF TypeOK
<1>2. base = Unreadable \/ base \in Documents[subject]
  BY DEF TypeOK, Files
<1>3. overlay \notin Files => overlay \in Documents[subject]
  BY DEF TypeOK
<1>4. IsDocument(BaseOf(ns))
  BY <1>1, <1>2, EmptyIsDocument DEF BaseOf
<1>5. IsDocument(OverlayOf(ns))
  BY <1>1, <1>3, EmptyIsDocument DEF OverlayOf
<1> QED
  BY <1>4, <1>5

(* A variable goes over the merged document as it would over the layers. *)
LEMMA OverriddenByLayers ==
  ASSUME TypeOK, base # Null, NEW o \in Options, ~Blocked(DocumentOf(o[1]), o[2])
  PROVE  Overridden(o)
           <=> Overrides(o, Filled(OverlayOf(o[1]), SectionOf(o[2]))
                              \/ Filled(BaseOf(o[1]), SectionOf(o[2])))
<1> DEFINE over == OverlayOf(o[1])
           under == BaseOf(o[1])
           path == o[2]
<1>1. IsDocument(under) /\ IsDocument(over) /\ ~Blocked(Merge(under, over), path)
  BY LayersAreDocuments DEF DocumentOf
<1>2. PICK S : path \in Seq(S)
  BY OptionsFit
<1>3. path # <<>>
  BY OptionsFit
<1> HIDE DEF over, under, path
<1>4. Filled(Merge(under, over), SectionOf(path))
        <=> Filled(over, SectionOf(path)) \/ Filled(under, SectionOf(path))
  BY <1>1, <1>2, <1>3, MergeFills
<1>5. Filled(DocumentOf(o[1]), SectionOf(o[2]))
        <=> Filled(OverlayOf(o[1]), SectionOf(o[2])) \/ Filled(BaseOf(o[1]), SectionOf(o[2]))
  BY <1>4 DEF over, under, path, DocumentOf
<1> QED
  BY <1>5 DEF Overridden, Overrides

LEMMA ValueIsWanted ==
  ASSUME TypeOK, Loads, NEW o \in Options
  PROVE  ValueOf(o) = Wanted(o) /\ ValueOf(o) \in RangeOf(o)
<1> DEFINE over == OverlayOf(o[1])
           under == BaseOf(o[1])
           path == o[2]
           doc == DocumentOf(o[1])
           called == Overrides(o, Filled(over, SectionOf(path)) \/ Filled(under, SectionOf(path)))
<1>1. /\ base # Null /\ ~Blocked(doc, path)
      /\ IsGiven(o) => ~IsMapping(Given(o)) /\ Given(o).value \in RangeOf(o)
  BY DEF Loads, Validates
<1>2. Overridden(o) <=> called
  BY <1>1, OverriddenByLayers
<1>3. IsDocument(under) /\ doc = Merge(under, over)
  BY <1>1, LayersAreDocuments DEF DocumentOf
<1>4. /\ IsGiven(o) <=> Overridden(o) \/ path \in DOMAIN doc
      /\ Given(o) = IF Overridden(o) THEN Leaf(Setting(o)) ELSE doc[path]
      /\ ValueOf(o) = IF IsGiven(o) THEN Given(o).value ELSE DefaultOf(o)
  BY DEF IsGiven, Given, ValueOf
<1>5. Wanted(o) = IF called THEN Setting(o)
                  ELSE IF path \in DOMAIN over THEN over[path].value
                  ELSE IF path \in DOMAIN under THEN under[path].value
                  ELSE DefaultOf(o)
  BY DEF Wanted
<1>6. ValueOf(o) \in RangeOf(o)
  BY <1>1, <1>4, OptionsFit
<1> HIDE DEF over, under, path, doc, called
<1>7. CASE Overridden(o)
  BY <1>2, <1>4, <1>5, <1>6, <1>7 DEF Leaf
<1>8. CASE ~Overridden(o)
  <2>1. /\ path \in DOMAIN doc <=> path \in DOMAIN under \cup DOMAIN over
        /\ path \in DOMAIN doc /\ ~IsMapping(doc[path])
             => doc[path] = IF path \in DOMAIN over THEN over[path] ELSE under[path]
    BY <1>1, <1>3, MergeSays
  <2>2. CASE path \in DOMAIN doc
    <3>1. doc[path] = IF path \in DOMAIN over THEN over[path] ELSE under[path]
      BY <1>1, <1>4, <1>8, <2>1, <2>2
    <3>2. ValueOf(o) = doc[path].value
      BY <1>4, <1>8, <2>2
    <3> QED
      BY <1>2, <1>5, <1>6, <1>8, <2>1, <2>2, <3>1, <3>2
  <2>3. CASE path \notin DOMAIN doc
    BY <1>2, <1>4, <1>5, <1>6, <1>8, <2>1, <2>3
  <2> QED
    BY <2>2, <2>3
<1> QED
  BY <1>7, <1>8

(* What get_config may do to the configuration. *)
LEMMA GetConfigLoads ==
  ASSUME GetConfig, config' # config
  PROVE  Loads /\ config' = [o \in Options |-> ValueOf(o)]
BY DEF GetConfig

LEMMA NotUnloaded ==
  ASSUME NEW f, DOMAIN f = Options
  PROVE  f # Unloaded
BY EnvironmentFacts DEF Unloaded

-----------------------------------------------------------------------------
(* The configuration in use is complete and every option is in its range,  *)
(* whatever the files and the variables say.                               *)
THEOREM ConfigurationTyped == Spec => []TypeOK
<1>1. Init => TypeOK
  <2> SUFFICES ASSUME Init PROVE TypeOK
    OBVIOUS
  <2>1. edits \in 0 .. MaxEdits
    BY ConfigurationAssumption DEF Init
  <2>2. overlaid \in Environments /\ secrets \subseteq Secrets /\ config = Unloaded
    BY DEF Init, Environments
  <2>3. DOMAIN env = Overridable
    BY DEF Init
  <2> QED
    BY <2>1, <2>2, <2>3 DEF Init, TypeOK
<1>2. TypeOK /\ [Next]_vars => TypeOK'
  <2> SUFFICES ASSUME TypeOK, [Next]_vars PROVE TypeOK'
    OBVIOUS
  <2>1. CASE GetConfig
    <3>1. config' # config => Loads /\ config' = [o \in Options |-> ValueOf(o)]
      BY <2>1, GetConfigLoads
    <3>2. config' # Unloaded =>
            DOMAIN config' = Options /\ \A o \in Options : config'[o] \in RangeOf(o)
      BY <3>1, ValueIsWanted DEF TypeOK
    <3>3. UNCHANGED <<subject, base, overlay, overlaid, env, secrets, edits>>
      BY <2>1 DEF GetConfig
    <3> QED
      BY <3>2, <3>3 DEF TypeOK
  <2>2. CASE EditFiles
    <3>1. edits' \in 0 .. MaxEdits
      BY <2>2, ConfigurationAssumption DEF EditFiles, TypeOK
    <3> QED
      BY <2>2, <3>1 DEF EditFiles, TypeOK
  <2>3. CASE EditEnvironment
    <3>1. edits' \in 0 .. MaxEdits
      BY <2>3, ConfigurationAssumption DEF EditEnvironment, TypeOK
    <3>2. DOMAIN env' = Overridable /\ secrets' \subseteq Secrets
      BY <2>3 DEF EditEnvironment, TypeOK
    <3> QED
      BY <2>3, <3>1, <3>2 DEF EditEnvironment, TypeOK
  <2>4. CASE UNCHANGED vars
    BY <2>4 DEF vars, TypeOK
  <2> QED
    BY <2>1, <2>2, <2>3, <2>4 DEF Next
<1> QED
  BY <1>1, <1>2, PTL DEF Spec

(* The configuration only ever changes to a sound one: complete, with the  *)
(* value of the first layer that decides for every option, its default     *)
(* provider among the providers, and the secrets of its environment set.   *)
THEOREM LoadedSound == Spec => LoadedIsSound
<1> DEFINE Sound ==
      /\ config' # Unloaded
      /\ \A o \in Options : config'[o] = Wanted(o)
      /\ config'[ProvidersOption] # {}
           => config'[DefaultProvider] \in config'[ProvidersOption]
      /\ Required(config'[EnvironmentOption]) \subseteq secrets
<1>1. TypeOK /\ [Next]_vars => [config' # config => Sound]_vars
  <2> SUFFICES ASSUME TypeOK, Next, config' # config PROVE Sound
    BY DEF vars
  <2>1. GetConfig
    BY DEF Next, EditFiles, EditEnvironment
  <2>2. Loads /\ config' = [o \in Options |-> ValueOf(o)]
    BY <2>1, GetConfigLoads
  <2>3. config' # Unloaded
    BY <2>2, NotUnloaded
  <2>4. \A o \in Options : config'[o] = Wanted(o)
    BY <2>2, ValueIsWanted
  <2>5. config'[ProvidersOption] # {}
          => config'[DefaultProvider] \in config'[ProvidersOption]
    <3>1. /\ config'[ProvidersOption] = ValueOf(ProvidersOption)
          /\ config'[DefaultProvider] = ValueOf(DefaultProvider)
      BY <2>2, ProvidersFacts
    <3>2. IsGiven(ProvidersOption) => ValueOf(DefaultProvider) \in ValueOf(ProvidersOption)
      BY <2>2 DEF Loads, Validates
    <3>3. ~IsGiven(ProvidersOption) => ValueOf(ProvidersOption) = {}
      BY ProvidersFacts DEF ValueOf
    <3> QED
      BY <3>1, <3>2, <3>3
  <2>6. Required(config'[EnvironmentOption]) \subseteq secrets
    <3>1. Overridden(EnvironmentOption)
      BY EnvironmentFacts DEF Overridden, Overrides
    <3>2. ValueOf(EnvironmentOption) = Setting(EnvironmentOption)
      BY <3>1 DEF ValueOf, IsGiven, Given, Leaf
    <3>3. config'[EnvironmentOption] = Setting(EnvironmentOption)
      BY <2>2, <3>2, EnvironmentFacts
    <3> QED
      BY <2>2, <3>3 DEF Loads
  <2> QED
    BY <2>3, <2>4, <2>5, <2>6
<1> QED
  BY <1>1, ConfigurationTyped, PTL DEF Spec, LoadedIsSound
=============================================================================
