--------------------------- MODULE Keeping_proofs ---------------------------
(***************************************************************************)
(* What Keep makes of the empty sequence, of an element more and of a      *)
(* concatenation, proved from its recursion; and induction over the        *)
(* naturals and over sequences for a set, on which those proofs rest.      *)
(***************************************************************************)
EXTENDS Keeping, WellFoundedInduction, SequenceTheorems, TLAPS

\* Induction over the naturals, for sets.
LEMMA SetInduction ==
  ASSUME NEW A, 0 \in A, \A n \in Nat : n \in A => n + 1 \in A
  PROVE  Nat \subseteq A
<1> DEFINE Bad == Nat \ A
<1> SUFFICES ASSUME Bad # {} PROVE FALSE
  OBVIOUS
<1>1. PICK b \in Bad : \A n \in Bad : <<n, b>> \notin OpToRel(<, Nat)
  <2>1. Bad \subseteq Nat
    OBVIOUS
  <2> HIDE DEF Bad
  <2> QED
    BY <2>1, NatLessThanWellFounded, WFMin
<1>2. b # 0 /\ b - 1 \in Nat /\ b - 1 < b /\ (b - 1) + 1 = b
  OBVIOUS
<1>3. b - 1 \notin Bad
  BY <1>1, <1>2 DEF OpToRel
<1> QED
  BY <1>2, <1>3

\* The same for sequences, by their length.
LEMMA SequenceSetInduction ==
  ASSUME NEW S, NEW A, << >> \in A,
         \A s \in Seq(S), e \in S : s \in A => Append(s, e) \in A
  PROVE  Seq(S) \subseteq A
<1> DEFINE L == {n \in Nat : \A t \in Seq(S) : Len(t) = n => t \in A}
<1>1. 0 \in L
  BY EmptySeq
<1>2. ASSUME NEW n \in Nat, n \in L PROVE n + 1 \in L
  <2> SUFFICES ASSUME NEW t \in Seq(S), Len(t) = n + 1 PROVE t \in A
    OBVIOUS
  <2>1. PICK u \in Seq(S), x \in S : t = Append(u, x)
    BY SequenceEmptyOrAppend, EmptySeq
  <2>2. Len(u) = n
    BY <2>1, AppendProperties, LenProperties
  <2> QED
    BY <1>2, <2>1, <2>2
<1>3. Nat \subseteq L
  <2> HIDE DEF L
  <2> QED
    BY <1>1, <1>2, SetInduction
<1> QED
  BY <1>3, LenProperties

\* f is the recursion by which Keep goes through s.
Goes(f, s, T) ==
  f = [i \in 0 .. Len(s) |->
         IF i = 0 THEN << >>
         ELSE IF s[i] \in T THEN Append(f[i - 1], s[i]) ELSE f[i - 1]]

\* There is one such recursion, and it gives what Keep returns.
LEMMA GoesIsUnique ==
  ASSUME NEW S, NEW s \in Seq(S), NEW T, NEW f, Goes(f, s, T), NEW g, Goes(g, s, T)
  PROVE  f = g
<1>0. Len(s) \in Nat
  BY LenProperties
<1> DEFINE A == {n \in Nat : n <= Len(s) => f[n] = g[n]}
<1>1. 0 \in A
  BY <1>0 DEF Goes
<1>2. ASSUME NEW n \in Nat, n \in A PROVE n + 1 \in A
  <2> SUFFICES ASSUME n + 1 <= Len(s) PROVE f[n + 1] = g[n + 1]
    OBVIOUS
  <2>1. n + 1 \in 0 .. Len(s) /\ n + 1 # 0 /\ (n + 1) - 1 = n /\ f[n] = g[n]
    BY <1>0, <1>2
  <2>2. f[n + 1] = IF s[n + 1] \in T THEN Append(f[n], s[n + 1]) ELSE f[n]
    BY <2>1 DEF Goes
  <2>3. g[n + 1] = IF s[n + 1] \in T THEN Append(g[n], s[n + 1]) ELSE g[n]
    BY <2>1 DEF Goes
  <2> QED
    BY <2>1, <2>2, <2>3
<1>3. Nat \subseteq A
  <2> HIDE DEF A
  <2> QED
    BY <1>1, <1>2, SetInduction
<1>4. \A n \in 0 .. Len(s) : f[n] = g[n]
  BY <1>0, <1>3
<1> QED
  BY <1>4 DEF Goes

\* There is such a recursion, by the length of s.
LEMMA GoesExists ==
  ASSUME NEW S, NEW s \in Seq(S), NEW T
  PROVE  \E f : Goes(f, s, T)
<1> DEFINE A == {n \in Nat : \A t \in Seq(S) : Len(t) = n => \E f : Goes(f, t, T)}
<1>1. 0 \in A
  <2> SUFFICES ASSUME NEW t \in Seq(S), Len(t) = 0 PROVE \E f : Goes(f, t, T)
    OBVIOUS
  <2> DEFINE f == [i \in 0 .. Len(t) |-> << >>]
  <2>1. Goes(f, t, T)
    BY DEF Goes
  <2> QED
    BY <2>1
<1>2. ASSUME NEW n \in Nat, n \in A PROVE n + 1 \in A
  <2> SUFFICES ASSUME NEW t \in Seq(S), Len(t) = n + 1 PROVE \E f : Goes(f, t, T)
    OBVIOUS
  <2> DEFINE u == SubSeq(t, 1, n)
  <2>1. u \in Seq(S) /\ Len(u) = n /\ \A i \in 1 .. n : u[i] = t[i]
    BY LenProperties, SubSeqProperties
  <2>2. PICK g : Goes(g, u, T)
    BY <1>2, <2>1
  <2> HIDE DEF u
  <2> DEFINE f == [i \in 0 .. n + 1 |->
                     IF i <= n THEN g[i]
                     ELSE IF t[n + 1] \in T THEN Append(g[n], t[n + 1]) ELSE g[n]]
  <2>3. \A i \in 0 .. n : g[i] = IF i = 0 THEN << >>
                                 ELSE IF t[i] \in T THEN Append(g[i - 1], t[i]) ELSE g[i - 1]
    <3> SUFFICES ASSUME NEW i \in 0 .. n
                 PROVE g[i] = IF i = 0 THEN << >>
                              ELSE IF t[i] \in T THEN Append(g[i - 1], t[i]) ELSE g[i - 1]
      OBVIOUS
    <3>1. g[i] = IF i = 0 THEN << >>
                 ELSE IF u[i] \in T THEN Append(g[i - 1], u[i]) ELSE g[i - 1]
      BY <2>1, <2>2 DEF Goes
    <3>2. i # 0 => u[i] = t[i]
      BY <2>1
    <3> QED
      BY <3>1, <3>2
  <2>4. \A i \in 0 .. n + 1 :
          f[i] = IF i = 0 THEN << >>
                 ELSE IF t[i] \in T THEN Append(f[i - 1], t[i]) ELSE f[i - 1]
    <3> SUFFICES ASSUME NEW i \in 0 .. n + 1
                 PROVE f[i] = IF i = 0 THEN << >>
                              ELSE IF t[i] \in T THEN Append(f[i - 1], t[i]) ELSE f[i - 1]
      OBVIOUS
    <3>1. CASE i <= n
      <4>1. i \in 0 .. n /\ f[i] = g[i] /\ (i # 0 => f[i - 1] = g[i - 1])
        BY <3>1
      <4> HIDE DEF f
      <4> QED
        BY <2>3, <4>1
    <3>2. CASE i = n + 1
      <4>1. i # 0 /\ i - 1 = n /\ f[i - 1] = g[n]
        BY <3>2
      <4>2. f[i] = IF t[n + 1] \in T THEN Append(g[n], t[n + 1]) ELSE g[n]
        BY <3>2
      <4> QED
        BY <3>2, <4>1, <4>2
    <3> QED
      BY <3>1, <3>2
  <2>5. Goes(f, t, T)
    <3>1. f = [i \in 0 .. n + 1 |-> f[i]]
      OBVIOUS
    <3> HIDE DEF f
    <3> QED
      BY <2>4, <3>1 DEF Goes
  <2> QED
    BY <2>5
<1>3. Nat \subseteq A
  <2> HIDE DEF A
  <2> QED
    BY <1>1, <1>2, SetInduction
<1> QED
  BY <1>3, LenProperties

\* Keep returns the last value of it.
LEMMA KeepGoes ==
  ASSUME NEW S, NEW s \in Seq(S), NEW T, NEW f, Goes(f, s, T)
  PROVE  Keep(s, T) = f[Len(s)]
<1> DEFINE F == CHOOSE h : h = [i \in 0 .. Len(s) |->
                                   IF i = 0 THEN << >>
                                   ELSE IF s[i] \in T THEN Append(h[i - 1], s[i]) ELSE h[i - 1]]
<1>1. Goes(F, s, T)
  BY GoesExists DEF Goes
<1>2. Keep(s, T) = F[Len(s)]
  BY DEF Keep
<1> HIDE DEF F
<1> QED
  BY <1>1, <1>2, GoesIsUnique

---------------------------------------------------------------------------
\* Of nothing, nothing is kept.
LEMMA KeepEmpty ==
  ASSUME NEW T
  PROVE  Keep(<< >>, T) = << >>
<1> DEFINE f == [i \in 0 .. 0 |-> << >>]
<1>1. << >> \in Seq({}) /\ Len(<< >>) = 0
  BY EmptySeq
<1>2. Goes(f, << >>, T)
  BY <1>1 DEF Goes
<1> QED
  BY <1>1, <1>2, KeepGoes

\* What is kept of an element more.
LEMMA KeepAppend ==
  ASSUME NEW S, NEW s \in Seq(S), NEW x \in S, NEW T
  PROVE  Keep(Append(s, x), T) = IF x \in T THEN Append(Keep(s, T), x) ELSE Keep(s, T)
<1> DEFINE t == Append(s, x)
           n == Len(s)
<1>1. /\ n \in Nat /\ t \in Seq(S) /\ Len(t) = n + 1
      /\ \A i \in 1 .. n : t[i] = s[i]
      /\ t[n + 1] = x
  BY LenProperties, AppendProperties
<1>2. PICK g : Goes(g, t, T)
  BY <1>1, GoesExists
<1> HIDE DEF t, n
<1> DEFINE f == [i \in 0 .. n |-> g[i]]
<1>3. Goes(f, s, T)
  <2>1. \A i \in 0 .. n : f[i] = IF i = 0 THEN << >>
                                ELSE IF s[i] \in T THEN Append(f[i - 1], s[i]) ELSE f[i - 1]
    <3> SUFFICES ASSUME NEW i \in 0 .. n
                 PROVE f[i] = IF i = 0 THEN << >>
                              ELSE IF s[i] \in T THEN Append(f[i - 1], s[i]) ELSE f[i - 1]
      OBVIOUS
    <3>1. g[i] = IF i = 0 THEN << >>
                 ELSE IF t[i] \in T THEN Append(g[i - 1], t[i]) ELSE g[i - 1]
      <4>1. i \in 0 .. Len(t)
        BY <1>1
      <4> QED
        BY <1>2, <4>1 DEF Goes
    <3>2. f[i] = g[i] /\ (i # 0 => t[i] = s[i] /\ f[i - 1] = g[i - 1])
      BY <1>1
    <3> HIDE DEF f
    <3> QED
      BY <3>1, <3>2
  <2>2. f = [i \in 0 .. n |-> f[i]]
    OBVIOUS
  <2> HIDE DEF f
  <2> QED
    BY <2>1, <2>2 DEF Goes, n
<1>4. Keep(s, T) = g[n]
  BY <1>1, <1>3, KeepGoes DEF n
<1>5. Keep(t, T) = g[n + 1]
  BY <1>1, <1>2, KeepGoes
<1>6. g[n + 1] = IF t[n + 1] \in T THEN Append(g[n], t[n + 1]) ELSE g[n]
  <2>1. n + 1 \in 0 .. Len(t) /\ n + 1 # 0 /\ (n + 1) - 1 = n
    BY <1>1
  <2> QED
    BY <1>2, <2>1 DEF Goes
<1> QED
  BY <1>1, <1>4, <1>5, <1>6 DEF t

\* What is kept is a part of the sequence, and in the set.
LEMMA KeepType ==
  ASSUME NEW S, NEW s \in Seq(S), NEW T
  PROVE  Keep(s, T) \in Seq(S \cap T)
<1> DEFINE A == {t \in Seq(S) : Keep(t, T) \in Seq(S \cap T)}
<1>1. << >> \in A
  BY KeepEmpty, EmptySeq
<1>2. ASSUME NEW t \in Seq(S), NEW x \in S, t \in A PROVE Append(t, x) \in A
  <2>1. Keep(t, T) \in Seq(S \cap T) /\ Append(t, x) \in Seq(S)
    BY <1>2, AppendProperties
  <2>2. CASE x \in T
    <3>1. Keep(Append(t, x), T) = Append(Keep(t, T), x)
      BY <2>2, KeepAppend
    <3>2. x \in S \cap T
      BY <2>2
    <3>3. Append(Keep(t, T), x) \in Seq(S \cap T)
      BY <2>1, <3>2, AppendProperties
    <3> QED
      BY <2>1, <3>1, <3>3
  <2>3. CASE x \notin T
    BY <2>1, <2>3, KeepAppend
  <2> QED
    BY <2>2, <2>3
<1>3. Seq(S) \subseteq A
  <2> HIDE DEF A
  <2> QED
    BY <1>1, <1>2, SequenceSetInduction
<1> QED
  BY <1>3

\* What is kept is a sequence over the same set.
LEMMA KeepPart ==
  ASSUME NEW S, NEW s \in Seq(S), NEW T
  PROVE  Keep(s, T) \in Seq(S)
<1>1. Keep(s, T) \in Seq(S \cap T) /\ S \cap T \subseteq S
  BY KeepType
<1> QED
  BY <1>1, SeqMonotonic

\* What is kept of two sequences, one behind the other.
LEMMA KeepConcat ==
  ASSUME NEW S, NEW s \in Seq(S), NEW t \in Seq(S), NEW T
  PROVE  Keep(s \o t, T) = Keep(s, T) \o Keep(t, T)
<1> DEFINE A == {u \in Seq(S) : Keep(s \o u, T) = Keep(s, T) \o Keep(u, T)}
<1>0. Keep(s, T) \in Seq(S)
  BY KeepPart
<1>1. << >> \in A
  BY <1>0, KeepEmpty, EmptySeq, ConcatEmptySeq
<1>2. ASSUME NEW u \in Seq(S), NEW x \in S, u \in A PROVE Append(u, x) \in A
  <2>1. Append(u, x) \in Seq(S)
    BY AppendProperties
  <2>2. s \o u \in Seq(S) /\ s \o Append(u, x) = Append(s \o u, x)
    BY <2>1, AppendIsConcat, ConcatProperties, ConcatAssociative
  <2>3. Keep(u, T) \in Seq(S)
    BY KeepPart
  <2>4. CASE x \in T
    <3>1. Keep(Append(u, x), T) = Append(Keep(u, T), x)
      BY <2>4, KeepAppend
    <3>2. Keep(s \o Append(u, x), T) = Append(Keep(s \o u, T), x)
      BY <2>2, <2>4, KeepAppend
    <3>3. Append(Keep(s, T) \o Keep(u, T), x) = Keep(s, T) \o Append(Keep(u, T), x)
      <4> DEFINE k == Keep(s, T)
                 l == Keep(u, T)
      <4>1. k \in Seq(S) /\ l \in Seq(S)
        BY <1>0, <2>3
      <4> HIDE DEF k, l
      <4>2. <<x>> \in Seq(S) /\ k \o l \in Seq(S)
        BY <4>1, ConcatProperties
      <4>3. Append(k \o l, x) = (k \o l) \o <<x>> /\ Append(l, x) = l \o <<x>>
        BY <4>1, <4>2, AppendIsConcat
      <4>4. Append(k \o l, x) = k \o Append(l, x)
        BY <4>1, <4>2, <4>3, ConcatAssociative
      <4> QED
        BY <4>4 DEF k, l
    <3> QED
      BY <1>2, <2>1, <3>1, <3>2, <3>3
  <2>5. CASE x \notin T
    <3>1. Keep(Append(u, x), T) = Keep(u, T)
      BY <2>5, KeepAppend
    <3>2. Keep(s \o Append(u, x), T) = Keep(s \o u, T)
      BY <2>2, <2>5, KeepAppend
    <3> QED
      BY <1>2, <2>1, <3>1, <3>2
  <2> QED
    BY <2>4, <2>5
<1>3. Seq(S) \subseteq A
  <2> HIDE DEF A
  <2> QED
    BY <1>1, <1>2, SequenceSetInduction
<1> QED
  BY <1>3
\* Nothing that belongs to the set is lost.
LEMMA KeepAll ==
  ASSUME NEW S, NEW s \in Seq(S), NEW T, NEW n \in DOMAIN s, s[n] \in T
  PROVE  \E k \in DOMAIN Keep(s, T) : Keep(s, T)[k] = s[n]
<1> DEFINE A == {u \in Seq(S) : \A m \in DOMAIN u : u[m] \in T =>
                                 \E k \in DOMAIN Keep(u, T) : Keep(u, T)[k] = u[m]}
<1>1. << >> \in A
  BY EmptySeq
<1>2. ASSUME NEW u \in Seq(S), NEW x \in S, u \in A PROVE Append(u, x) \in A
  <2> DEFINE v == Append(u, x)
  <2>1. /\ v \in Seq(S) /\ Len(u) \in Nat /\ DOMAIN u = 1 .. Len(u)
        /\ DOMAIN v = 1 .. Len(u) + 1 /\ v[Len(u) + 1] = x
        /\ \A m \in 1 .. Len(u) : v[m] = u[m]
    BY AppendProperties, LenProperties
  <2>2. Keep(u, T) \in Seq(S)
    BY KeepPart
  <2>3. Keep(v, T) = IF x \in T THEN Append(Keep(u, T), x) ELSE Keep(u, T)
    BY KeepAppend
  <2> HIDE DEF v
  <2> DEFINE l == Keep(u, T)
             w == Keep(v, T)
  <2>4. /\ \A k \in DOMAIN l : k \in DOMAIN w /\ w[k] = l[k]
        /\ x \in T => \E k \in DOMAIN w : w[k] = x
    <3>1. CASE x \in T
      <4>1. w = Append(l, x) /\ l \in Seq(S)
        BY <2>2, <2>3, <3>1
      <4> HIDE DEF l, w
      <4>2. /\ DOMAIN l = 1 .. Len(l) /\ Len(l) \in Nat /\ DOMAIN w = 1 .. Len(l) + 1
            /\ \A k \in 1 .. Len(l) : w[k] = l[k]
            /\ w[Len(l) + 1] = x
        BY <4>1, AppendProperties, LenProperties
      <4>3. Len(l) + 1 \in DOMAIN w
        BY <4>2
      <4> QED
        BY <4>2, <4>3
    <3>2. CASE x \notin T
      BY <2>3, <3>2
    <3> QED
      BY <3>1, <3>2
  <2>5. ASSUME NEW m \in DOMAIN v, v[m] \in T PROVE \E k \in DOMAIN w : w[k] = v[m]
    <3>1. CASE m = Len(u) + 1
      BY <2>1, <2>4, <2>5, <3>1
    <3>2. CASE m # Len(u) + 1
      <4>1. m \in DOMAIN u /\ v[m] = u[m]
        BY <2>1, <3>2
      <4>2. PICK k \in DOMAIN l : l[k] = u[m]
        BY <1>2, <2>5, <4>1
      <4> HIDE DEF l, w
      <4> QED
        BY <2>4, <4>1, <4>2
    <3> QED
      BY <3>1, <3>2
  <2> QED
    BY <2>1, <2>5 DEF v
<1>3. Seq(S) \subseteq A
  <2> HIDE DEF A
  <2> QED
    BY <1>1, <1>2, SequenceSetInduction
<1> QED
  BY <1>3
---------------------------------------------------------------------------
(* The last entry of a sequence that belongs to a set.                     *)

LastOf(s, T, none) == LET kept == Keep(s, T) IN IF kept = << >> THEN none ELSE kept[Len(kept)]

\* What the last one is, of nothing and of an element more.
LEMMA LastOfEmpty ==
  ASSUME NEW T, NEW none
  PROVE  LastOf(<< >>, T, none) = none
BY KeepEmpty DEF LastOf

\* The last one after one element more is that element, if it belongs to the set.
LEMMA LastOfAppend ==
  ASSUME NEW S, NEW s \in Seq(S), NEW x \in S, NEW T, NEW none
  PROVE  LastOf(Append(s, x), T, none) = IF x \in T THEN x ELSE LastOf(s, T, none)
<1>1. CASE x \in T
  <2>1. Keep(Append(s, x), T) = Append(Keep(s, T), x)
    BY <1>1, KeepAppend
  <2>2. Keep(s, T) \in Seq(S)
    BY KeepPart
  <2> QED
    BY <1>1, <2>1, <2>2, AppendProperties DEF LastOf
<1>2. CASE x \notin T
  BY <1>2, KeepAppend DEF LastOf
<1> QED
  BY <1>1, <1>2

\* The last one is one of them, if there are any.
LEMMA LastOfIsOne ==
  ASSUME NEW S, NEW s \in Seq(S), NEW T, NEW none, LastOf(s, T, none) # none
  PROVE  LastOf(s, T, none) \in T /\ \E n \in DOMAIN s : s[n] = LastOf(s, T, none)
<1> DEFINE V == {s[n] : n \in DOMAIN s}
           k == Keep(s, T)
<1>1. s \in Seq(V)
  <2>1. s \in [1 .. Len(s) -> V] /\ Len(s) \in Nat
    BY LenProperties
  <2> QED
    BY <2>1, SeqDef
<1>2. k \in Seq(V \cap T)
  <2> HIDE DEF V
  <2> QED
    BY <1>1, KeepType
<1>3. k # << >> /\ LastOf(s, T, none) = k[Len(k)]
  BY DEF LastOf
<1>4. k[Len(k)] \in V \cap T
  <2> HIDE DEF V, k
  <2> QED
    BY <1>2, <1>3, EmptySeq, LenProperties, ElementOfSeq
<1> QED
  BY <1>3, <1>4

\* There is none where nothing belongs to the set.
LEMMA LastOfNone ==
  ASSUME NEW S, NEW s \in Seq(S), NEW T, NEW none, S \cap T = {}
  PROVE  LastOf(s, T, none) = none
<1>1. Keep(s, T) \in Seq(S \cap T)
  BY KeepType
<1>2. Keep(s, T) = << >>
  <2> DEFINE k == Keep(s, T)
             V == S \cap T
  <2>1. k \in Seq(V) /\ V = {}
    BY <1>1
  <2> HIDE DEF k, V
  <2>2. Len(k) = 0
    BY <2>1, LenProperties, ElementOfSeq
  <2> QED
    BY <2>1, <2>2, EmptySeq DEF k
<1> QED
  BY <1>2 DEF LastOf

\* A sequence is its head and its tail.
LEMMA HeadThenTail ==
  ASSUME NEW S, NEW s \in Seq(S), s # << >>
  PROVE  s = <<Head(s)>> \o Tail(s)
<1>1. 1 \in 1 .. Len(s) /\ Len(s) \in 1 .. Len(s)
  BY EmptySeq
<1>2. /\ SubSeq(s, 1, Len(s)) = <<s[1]>> \o SubSeq(s, 1 + 1, Len(s))
      /\ Head(SubSeq(s, 1, Len(s))) = s[1]
  BY <1>1, SubSeqRecursiveFirst, HeadTailOfSubSeq
<1> QED
  BY <1>2, SubSeqFull, TailIsSubSeq

\* Cancelling removes the messages with these ids and no others.
LEMMA WithoutIs ==
  ASSUME NEW S, NEW q \in Seq(S), NEW ids
  PROVE  LET rest == Without(q, ids)
         IN  /\ rest \in Seq(S)
             /\ \A n \in DOMAIN rest : rest[n].id \notin ids /\ \E k \in DOMAIN q : rest[n] = q[k]
             /\ \A n \in DOMAIN q : q[n].id \notin ids => \E k \in DOMAIN rest : rest[k] = q[n]
<1> DEFINE T    == {m \in {q[n] : n \in DOMAIN q} : m.id \notin ids}
           rest == Keep(q, T)
<1>1. rest \in Seq(S) /\ rest \in Seq(S \cap T)
  <2> HIDE DEF T
  <2> QED
    BY KeepType, KeepPart
<1>2. \A n \in DOMAIN rest : rest[n] \in T
  <2> HIDE DEF T
  <2> QED
    BY <1>1, LenProperties, ElementOfSeq
<1>3. \A n \in DOMAIN q : q[n] \in T => \E k \in DOMAIN rest : rest[k] = q[n]
  <2> HIDE DEF T
  <2> QED
    BY KeepAll
<1>4. rest = Without(q, ids)
  BY DEF Without
<1> HIDE DEF rest
<1> QED
  BY <1>1, <1>2, <1>3, <1>4

\* One element is taken out of a sequence.
LEMMA TakenOut ==
  ASSUME NEW S, NEW s \in Seq(S), NEW i \in 1 .. Len(s)
  PROVE  LET rest == SubSeq(s, 1, i - 1) \o SubSeq(s, i + 1, Len(s))
         IN  /\ rest \in Seq(S) /\ Len(rest) = Len(s) - 1
             /\ \A n \in 1 .. Len(s) - 1 : rest[n] = IF n < i THEN s[n] ELSE s[n + 1]
<1> DEFINE a == SubSeq(s, 1, i - 1)
           b == SubSeq(s, i + 1, Len(s))
<1>0. Len(s) \in Nat
  BY LenProperties
<1>1. a \in Seq(S) /\ Len(a) = i - 1 /\ \A n \in 1 .. i - 1 : a[n] = s[n]
  <2>1. /\ SubSeq(s, 1, i - 1) \in Seq(S)
        /\ Len(SubSeq(s, 1, i - 1)) = IF 1 <= i - 1 THEN (i - 1) - 1 + 1 ELSE 0
        /\ \A n \in 1 .. (i - 1) - 1 + 1 : SubSeq(s, 1, i - 1)[n] = s[1 + n - 1]
    BY <1>0, SubSeqProperties
  <2> QED
    BY <2>1
<1>2. b \in Seq(S) /\ Len(b) = Len(s) - i /\ \A n \in 1 .. Len(s) - i : b[n] = s[i + n]
  <2>1. /\ SubSeq(s, i + 1, Len(s)) \in Seq(S)
        /\ Len(SubSeq(s, i + 1, Len(s))) = IF i + 1 <= Len(s) THEN Len(s) - (i + 1) + 1 ELSE 0
        /\ \A n \in 1 .. Len(s) - (i + 1) + 1 : SubSeq(s, i + 1, Len(s))[n] = s[i + 1 + n - 1]
    BY <1>0, SubSeqProperties
  <2> QED
    BY <1>0, <2>1
<1> HIDE DEF a, b
<1>3. /\ a \o b \in Seq(S) /\ Len(a \o b) = Len(a) + Len(b)
      /\ \A n \in 1 .. Len(a) + Len(b) : (a \o b)[n] = IF n <= Len(a) THEN a[n] ELSE b[n - Len(a)]
  BY <1>1, <1>2, ConcatProperties
<1>4. Len(a) + Len(b) = Len(s) - 1
  BY <1>0, <1>1, <1>2
<1>5. ASSUME NEW n \in 1 .. Len(s) - 1
      PROVE  (a \o b)[n] = IF n < i THEN s[n] ELSE s[n + 1]
  <2>1. CASE n < i
    BY <1>0, <1>1, <1>3, <1>4, <2>1
  <2>2. CASE ~(n < i)
    <3>1. n - (i - 1) \in 1 .. Len(s) - i /\ i + (n - (i - 1)) = n + 1 /\ ~(n <= i - 1)
      BY <1>0, <2>2
    <3>2. (a \o b)[n] = b[n - (i - 1)]
      BY <1>1, <1>3, <1>4, <3>1
    <3> QED
      BY <1>2, <2>2, <3>1, <3>2
  <2> QED
    BY <2>1, <2>2
<1> QED
  BY <1>3, <1>4, <1>5 DEF a, b

\* The least of a set of numbers
LEMMA LeastIs ==
  ASSUME NEW A, A \subseteq Nat, A # {}
  PROVE  LET least == CHOOSE n \in A : \A k \in A : n <= k
         IN  least \in A /\ \A k \in A : least <= k
<1>1. PICK b \in A : \A n \in A : <<n, b>> \notin OpToRel(<, Nat)
  BY NatLessThanWellFounded, WFMin
<1>2. ASSUME NEW n \in A PROVE b <= n
  <2>1. n \in Nat /\ b \in Nat
    OBVIOUS
  <2>2. ~(n < b)
    BY <1>1, <2>1 DEF OpToRel
  <2> QED
    BY <2>1, <2>2
<1> QED
  BY <1>2

\* Only what is in the sequence decides what is kept.
LEMMA KeepAgree ==
  ASSUME NEW S, NEW s \in Seq(S), NEW T, NEW U, T \cap S = U \cap S
  PROVE  Keep(s, T) = Keep(s, U)
<1> DEFINE A == {t \in Seq(S) : Keep(t, T) = Keep(t, U)}
<1>1. << >> \in A
  BY KeepEmpty, EmptySeq
<1>2. ASSUME NEW t \in Seq(S), NEW x \in S, t \in A PROVE Append(t, x) \in A
  <2>1. Append(t, x) \in Seq(S) /\ (x \in T <=> x \in U)
    BY AppendProperties
  <2>2. /\ Keep(Append(t, x), T) = IF x \in T THEN Append(Keep(t, T), x) ELSE Keep(t, T)
        /\ Keep(Append(t, x), U) = IF x \in U THEN Append(Keep(t, U), x) ELSE Keep(t, U)
    BY KeepAppend
  <2> QED
    BY <1>2, <2>1, <2>2
<1>3. Seq(S) \subseteq A
  <2> HIDE DEF A
  <2> QED
    BY <1>1, <1>2, SequenceSetInduction
<1> QED
  BY <1>3

\* What is kept of what was kept.
LEMMA KeepTwice ==
  ASSUME NEW S, NEW s \in Seq(S), NEW T, NEW U
  PROVE  Keep(Keep(s, T), U) = Keep(s, T \cap U)
<1> DEFINE A == {t \in Seq(S) : Keep(Keep(t, T), U) = Keep(t, T \cap U)}
<1>1. << >> \in A
  BY KeepEmpty, EmptySeq
<1>2. ASSUME NEW t \in Seq(S), NEW x \in S, t \in A PROVE Append(t, x) \in A
  <2>1. Append(t, x) \in Seq(S) /\ Keep(t, T) \in Seq(S)
    BY AppendProperties, KeepPart
  <2>2. /\ Keep(Append(t, x), T) = IF x \in T THEN Append(Keep(t, T), x) ELSE Keep(t, T)
        /\ Keep(Append(t, x), T \cap U) =
             IF x \in T \cap U THEN Append(Keep(t, T \cap U), x) ELSE Keep(t, T \cap U)
    BY KeepAppend
  <2>3. Keep(Append(Keep(t, T), x), U) =
          IF x \in U THEN Append(Keep(Keep(t, T), U), x) ELSE Keep(Keep(t, T), U)
    BY <2>1, KeepAppend
  <2>4. Keep(Keep(Append(t, x), T), U) = Keep(Append(t, x), T \cap U)
    <3>0. Keep(Keep(t, T), U) = Keep(t, T \cap U)
      BY <1>2
    <3>1. CASE x \in T /\ x \in U
      BY <2>2, <2>3, <3>0, <3>1
    <3>2. CASE x \in T /\ x \notin U
      BY <2>2, <2>3, <3>0, <3>2
    <3>3. CASE x \notin T
      BY <2>2, <3>0, <3>3
    <3> QED
      BY <3>1, <3>2, <3>3
  <2> QED
    BY <2>1, <2>4
<1>3. Seq(S) \subseteq A
  <2> HIDE DEF A
  <2> QED
    BY <1>1, <1>2, SequenceSetInduction
<1> QED
  BY <1>3

\* Two sets that have nothing in common share what is kept for both.
LEMMA KeepSplit ==
  ASSUME NEW S, NEW s \in Seq(S), NEW T, NEW U, T \cap U = {}
  PROVE  Len(Keep(s, T \cup U)) = Len(Keep(s, T)) + Len(Keep(s, U))
<1> DEFINE A == {t \in Seq(S) : Len(Keep(t, T \cup U)) = Len(Keep(t, T)) + Len(Keep(t, U))}
<1>1. << >> \in A
  <2>1. Keep(<< >>, T) = << >> /\ Keep(<< >>, U) = << >> /\ Keep(<< >>, T \cup U) = << >>
    BY KeepEmpty
  <2>2. << >> \in Seq(S) /\ Len(<< >>) = 0
    BY EmptySeq
  <2> QED
    BY <2>1, <2>2
<1>2. ASSUME NEW t \in Seq(S), NEW x \in S, t \in A PROVE Append(t, x) \in A
  <2> DEFINE k == Keep(t, T)
             l == Keep(t, U)
             b == Keep(t, T \cup U)
  <2>1. Append(t, x) \in Seq(S) /\ k \in Seq(S) /\ l \in Seq(S) /\ b \in Seq(S)
    BY AppendProperties, KeepPart
  <2>2. /\ Keep(Append(t, x), T) = IF x \in T THEN Append(k, x) ELSE k
        /\ Keep(Append(t, x), U) = IF x \in U THEN Append(l, x) ELSE l
        /\ Keep(Append(t, x), T \cup U) = IF x \in T \cup U THEN Append(b, x) ELSE b
    BY KeepAppend
  <2>3. Len(b) = Len(k) + Len(l)
    BY <1>2
  <2> HIDE DEF k, l, b
  <2>4. /\ Len(Append(k, x)) = Len(k) + 1 /\ Len(Append(l, x)) = Len(l) + 1
        /\ Len(Append(b, x)) = Len(b) + 1 /\ Len(k) \in Nat /\ Len(l) \in Nat /\ Len(b) \in Nat
    BY <2>1, AppendProperties, LenProperties
  <2>5. Len(Keep(Append(t, x), T \cup U)) = Len(Keep(Append(t, x), T)) + Len(Keep(Append(t, x), U))
    <3>1. CASE x \in T
      <4>1. /\ Keep(Append(t, x), T) = Append(k, x) /\ Keep(Append(t, x), U) = l
            /\ Keep(Append(t, x), T \cup U) = Append(b, x)
        BY <2>2, <3>1
      <4> QED
        BY <2>3, <2>4, <4>1
    <3>2. CASE x \in U
      <4>1. /\ Keep(Append(t, x), T) = k /\ Keep(Append(t, x), U) = Append(l, x)
            /\ Keep(Append(t, x), T \cup U) = Append(b, x)
        BY <2>2, <3>2
      <4> QED
        BY <2>3, <2>4, <4>1
    <3>3. CASE x \notin T \cup U
      BY <2>2, <2>3, <3>3
    <3> QED
      BY <3>1, <3>2, <3>3
  <2> QED
    BY <2>1, <2>5
<1>3. Seq(S) \subseteq A
  <2> HIDE DEF A
  <2> QED
    BY <1>1, <1>2, SequenceSetInduction
<1> QED
  BY <1>3

\* Everything is kept.
LEMMA KeepEvery ==
  ASSUME NEW S, NEW s \in Seq(S)
  PROVE  Keep(s, S) = s
<1> DEFINE A == {t \in Seq(S) : Keep(t, S) = t}
<1>1. << >> \in A
  BY KeepEmpty, EmptySeq
<1>2. ASSUME NEW t \in Seq(S), NEW x \in S, t \in A PROVE Append(t, x) \in A
  BY <1>2, KeepAppend, AppendProperties
<1>3. Seq(S) \subseteq A
  <2> HIDE DEF A
  <2> QED
    BY <1>1, <1>2, SequenceSetInduction
<1> QED
  BY <1>3

\* What is kept comes from the sequence.
LEMMA KeepFrom ==
  ASSUME NEW S, NEW s \in Seq(S), NEW T, NEW k \in DOMAIN Keep(s, T)
  PROVE  Keep(s, T)[k] \in T /\ \E n \in DOMAIN s : s[n] = Keep(s, T)[k]
<1> DEFINE V == {s[n] : n \in DOMAIN s}
<1>1. s \in Seq(V)
  <2>1. s \in [1 .. Len(s) -> V] /\ Len(s) \in Nat
    BY LenProperties
  <2> QED
    BY <2>1, SeqDef
<1>2. Keep(s, T) \in Seq(V \cap T)
  <2> HIDE DEF V
  <2> QED
    BY <1>1, KeepType
<1> DEFINE u == Keep(s, T)
<1>3. u[k] \in V \cap T
  <2>1. u \in Seq(V \cap T) /\ k \in DOMAIN u
    BY <1>2
  <2> HIDE DEF u, V
  <2>2. k \in 1 .. Len(u)
    BY <2>1, LenProperties
  <2> QED
    BY <2>1, <2>2, ElementOfSeq
<1> QED
  BY <1>3

\* What is left when some are taken out, and how many they were.
LEMMA DroppingIs ==
  ASSUME NEW S, NEW s \in Seq(S), NEW T
  PROVE  Dropping(s, T) = Keep(s, S \ T)
<1> DEFINE V == {s[n] : n \in DOMAIN s}
<1>1. s \in Seq(V)
  <2>1. s \in [1 .. Len(s) -> V] /\ Len(s) \in Nat
    BY LenProperties
  <2> QED
    BY <2>1, SeqDef
<1>2. V \subseteq S
  <2>1. \A n \in 1 .. Len(s) : s[n] \in S
    BY ElementOfSeq
  <2> QED
    BY <2>1, LenProperties
<1>3. Dropping(s, T) = Keep(s, V \ T)
  BY DEF Dropping
<1> HIDE DEF V
<1>4. (V \ T) \cap V = (S \ T) \cap V
  BY <1>2
<1> QED
  BY <1>1, <1>3, <1>4, KeepAgree

\* The lengths of what is dropped and of what is left make up the whole.
LEMMA DroppingLen ==
  ASSUME NEW S, NEW s \in Seq(S), NEW T
  PROVE  Len(Dropping(s, T)) + Len(Keep(s, T)) = Len(s)
<1>1. Dropping(s, T) = Keep(s, S \ T)
  BY DroppingIs
<1>2. Len(Keep(s, (S \ T) \cup T)) = Len(Keep(s, S \ T)) + Len(Keep(s, T))
  <2>1. (S \ T) \cap T = {}
    OBVIOUS
  <2> QED
    BY <2>1, KeepSplit
<1>3. Keep(s, (S \ T) \cup T) = s
  <2>1. ((S \ T) \cup T) \cap S = S \cap S
    OBVIOUS
  <2> QED
    BY <2>1, KeepAgree, KeepEvery
<1> QED
  BY <1>1, <1>2, <1>3

\* What is kept around one element of the sequence.
LEMMA KeepAround ==
  ASSUME NEW S, NEW s \in Seq(S), NEW i \in 1 .. Len(s), NEW T
  PROVE  \E k \in Seq(S), l \in Seq(S) :
           /\ s[i] \in T => Keep(s, T) = Append(k, s[i]) \o l
           /\ s[i] \notin T => Keep(s, T) = k \o l
           /\ Keep(SubSeq(s, 1, i - 1) \o SubSeq(s, i + 1, Len(s)), T) = k \o l
           /\ (\A n \in 1 .. i - 1 : s[n] \notin T) => k = << >>
<1> DEFINE a == SubSeq(s, 1, i - 1)
           b == SubSeq(s, i + 1, Len(s))
           x == s[i]
<1>0. Len(s) \in Nat /\ i \in Nat /\ x \in S
  BY LenProperties, ElementOfSeq
<1>1. /\ a \in Seq(S) /\ Len(a) = i - 1 /\ \A n \in 1 .. i - 1 : a[n] = s[n]
  <2>1. /\ SubSeq(s, 1, i - 1) \in Seq(S)
        /\ Len(SubSeq(s, 1, i - 1)) = IF 1 <= i - 1 THEN (i - 1) - 1 + 1 ELSE 0
        /\ \A n \in 1 .. (i - 1) - 1 + 1 : SubSeq(s, 1, i - 1)[n] = s[1 + n - 1]
    BY <1>0, SubSeqProperties
  <2> QED
    BY <2>1
<1>2. b \in Seq(S) /\ Len(b) = Len(s) - i /\ \A n \in 1 .. Len(s) - i : b[n] = s[i + n]
  <2>1. /\ SubSeq(s, i + 1, Len(s)) \in Seq(S)
        /\ Len(SubSeq(s, i + 1, Len(s))) = IF i + 1 <= Len(s) THEN Len(s) - (i + 1) + 1 ELSE 0
        /\ \A n \in 1 .. Len(s) - (i + 1) + 1 : SubSeq(s, i + 1, Len(s))[n] = s[i + 1 + n - 1]
    BY <1>0, SubSeqProperties
  <2> QED
    BY <1>0, <2>1
<1>3. s = Append(a, x) \o b
  <2> DEFINE c == Append(a, x)
  <2>1. /\ c \in Seq(S) /\ Len(c) = i /\ c[i] = s[i]
        /\ \A n \in 1 .. i - 1 : c[n] = s[n]
    <3> HIDE DEF a, x
    <3>1. /\ Append(a, x) \in Seq(S) /\ Len(Append(a, x)) = Len(a) + 1
          /\ \A n \in 1 .. Len(a) : Append(a, x)[n] = a[n]
          /\ Append(a, x)[Len(a) + 1] = x
      BY <1>0, <1>1, AppendProperties
    <3>2. Len(a) + 1 = i
      BY <1>0, <1>1
    <3> QED
      BY <1>1, <3>1, <3>2 DEF x
  <2> HIDE DEF a, b, c, x
  <2>2. /\ c \o b \in Seq(S) /\ Len(c \o b) = Len(c) + Len(b)
        /\ \A n \in 1 .. Len(c) + Len(b) : (c \o b)[n] = IF n <= Len(c) THEN c[n] ELSE b[n - Len(c)]
    BY <1>2, <2>1, ConcatProperties
  <2>3. Len(c) + Len(b) = Len(s)
    BY <1>0, <1>2, <2>1
  <2>4. ASSUME NEW n \in 1 .. Len(s) PROVE (c \o b)[n] = s[n]
    <3>1. CASE n <= i
      <4>1. n = i \/ n \in 1 .. i - 1
        BY <1>0, <3>1
      <4> QED
        BY <2>1, <2>2, <2>3, <3>1, <4>1
    <3>2. CASE ~(n <= i)
      <4>1. n - i \in 1 .. Len(s) - i /\ i + (n - i) = n
        BY <1>0, <3>2
      <4> QED
        BY <1>2, <2>1, <2>2, <2>3, <3>2, <4>1
    <3> QED
      BY <3>1, <3>2
  <2>5. c \o b = s
    BY <2>2, <2>3, <2>4, SeqEqual
  <2> QED
    BY <2>5 DEF c
<1> DEFINE k == Keep(a, T)
           l == Keep(b, T)
<1> HIDE DEF a, b, x
<1>4. k \in Seq(S) /\ l \in Seq(S) /\ Append(a, x) \in Seq(S)
  BY <1>0, <1>1, <1>2, KeepPart, AppendProperties
<1>5. Keep(s, T) = Keep(Append(a, x), T) \o l /\ Keep(a \o b, T) = k \o l
  <2>1. Keep(Append(a, x) \o b, T) = Keep(Append(a, x), T) \o Keep(b, T)
    <3> DEFINE c == Append(a, x)
    <3>1. c \in Seq(S) /\ b \in Seq(S)
      BY <1>2, <1>4
    <3> HIDE DEF c, k, l
    <3>2. Keep(c \o b, T) = Keep(c, T) \o Keep(b, T)
      BY <3>1, KeepConcat
    <3> QED
      BY <3>2 DEF c
  <2>2. Keep(a \o b, T) = Keep(a, T) \o Keep(b, T)
    BY <1>1, <1>2, KeepConcat
  <2> QED
    BY <1>3, <2>1, <2>2 DEF k, l
<1>6. Keep(Append(a, x), T) = IF x \in T THEN Append(k, x) ELSE k
  BY <1>0, <1>1, KeepAppend
<1>7. ASSUME \A n \in 1 .. i - 1 : s[n] \notin T PROVE k = << >>
  <2>1. DOMAIN a = 1 .. i - 1 /\ DOMAIN k = 1 .. Len(k) /\ Len(k) \in Nat
    BY <1>1, <1>4, LenProperties
  <2>2. ASSUME NEW n \in DOMAIN k PROVE FALSE
    <3>1. k[n] \in T /\ \E m \in DOMAIN a : a[m] = k[n]
      BY <1>1, KeepFrom DEF k
    <3> QED
      BY <1>1, <1>7, <2>1, <3>1
  <2> DEFINE m == Len(k)
  <2>3. 1 \notin 1 .. m /\ m \in Nat
    BY <2>1, <2>2
  <2> HIDE DEF m
  <2>4. m = 0
    BY <2>3
  <2> QED
    BY <1>4, <2>4, EmptySeq DEF m
<1>8. /\ x \in T => Keep(s, T) = Append(k, x) \o l
      /\ x \notin T => Keep(s, T) = k \o l
      /\ Keep(a \o b, T) = k \o l
  BY <1>5, <1>6
<1>9. \E k2 \in Seq(S), l2 \in Seq(S) :
        /\ x \in T => Keep(s, T) = Append(k2, x) \o l2
        /\ x \notin T => Keep(s, T) = k2 \o l2
        /\ Keep(a \o b, T) = k2 \o l2
        /\ (\A n \in 1 .. i - 1 : s[n] \notin T) => k2 = << >>
  BY <1>4, <1>7, <1>8
<1> QED
  BY <1>9 DEF a, b, x

\* What is kept when one element is taken out of the sequence.
LEMMA KeepTakenOut ==
  ASSUME NEW S, NEW s \in Seq(S), NEW i \in 1 .. Len(s), NEW T
  PROVE  LET rest == SubSeq(s, 1, i - 1) \o SubSeq(s, i + 1, Len(s))
         IN  /\ Len(Keep(rest, T)) = Len(Keep(s, T)) - (IF s[i] \in T THEN 1 ELSE 0)
             /\ s[i] \notin T => Keep(rest, T) = Keep(s, T)
<1>1. \E k \in Seq(S), l \in Seq(S) :
        /\ s[i] \in T => Keep(s, T) = Append(k, s[i]) \o l
        /\ s[i] \notin T => Keep(s, T) = k \o l
        /\ Keep(SubSeq(s, 1, i - 1) \o SubSeq(s, i + 1, Len(s)), T) = k \o l
        /\ (\A n \in 1 .. i - 1 : s[n] \notin T) => k = << >>
  BY KeepAround
<1>2. PICK k \in Seq(S), l \in Seq(S) :
        /\ s[i] \in T => Keep(s, T) = Append(k, s[i]) \o l
        /\ s[i] \notin T => Keep(s, T) = k \o l
        /\ Keep(SubSeq(s, 1, i - 1) \o SubSeq(s, i + 1, Len(s)), T) = k \o l
  BY <1>1
<1> DEFINE x == s[i]
           rest == SubSeq(s, 1, i - 1) \o SubSeq(s, i + 1, Len(s))
<1>3. /\ x \in T => Keep(s, T) = Append(k, x) \o l
      /\ x \notin T => Keep(s, T) = k \o l
      /\ Keep(rest, T) = k \o l /\ x \in S
  BY <1>2, ElementOfSeq
<1> HIDE DEF x, rest
<1>4. Len(k) \in Nat /\ Len(l) \in Nat /\ Len(k \o l) = Len(k) + Len(l)
  BY LenProperties, ConcatProperties
<1>5. CASE x \in T
  <2>1. Append(k, x) \in Seq(S) /\ Len(Append(k, x)) = Len(k) + 1
    BY <1>3, AppendProperties
  <2>2. Len(Append(k, x) \o l) = Len(k) + 1 + Len(l)
    BY <2>1, ConcatProperties
  <2>3. Len(Keep(rest, T)) = Len(Keep(s, T)) - 1
    BY <1>3, <1>4, <1>5, <2>2
  <2> QED
    BY <1>5, <2>3 DEF x, rest
<1>6. CASE x \notin T
  <2>1. Keep(rest, T) = Keep(s, T)
    BY <1>3, <1>6
  <2>2. Len(Keep(rest, T)) = Len(Keep(s, T)) - 0
    BY <1>3, <1>4, <2>1
  <2> QED
    BY <1>6, <2>1, <2>2 DEF x, rest
<1> QED
  BY <1>5, <1>6

\* The first one that is kept is taken out: the others keep their order.
LEMMA KeepFirstTaken ==
  ASSUME NEW S, NEW s \in Seq(S), NEW i \in 1 .. Len(s), NEW T, s[i] \in T,
         \A n \in 1 .. i - 1 : s[n] \notin T
  PROVE  LET rest == SubSeq(s, 1, i - 1) \o SubSeq(s, i + 1, Len(s))
         IN  /\ Len(Keep(s, T)) = Len(Keep(rest, T)) + 1 /\ Keep(s, T)[1] = s[i]
             /\ Len(Keep(rest, T)) \in Nat
             /\ \A n \in 1 .. Len(Keep(rest, T)) : Keep(rest, T)[n] = Keep(s, T)[n + 1]
<1>1. \E k \in Seq(S), l \in Seq(S) :
        /\ s[i] \in T => Keep(s, T) = Append(k, s[i]) \o l
        /\ s[i] \notin T => Keep(s, T) = k \o l
        /\ Keep(SubSeq(s, 1, i - 1) \o SubSeq(s, i + 1, Len(s)), T) = k \o l
        /\ (\A n \in 1 .. i - 1 : s[n] \notin T) => k = << >>
  BY KeepAround
<1>2. PICK k \in Seq(S), l \in Seq(S) :
        /\ Keep(s, T) = Append(k, s[i]) \o l
        /\ Keep(SubSeq(s, 1, i - 1) \o SubSeq(s, i + 1, Len(s)), T) = k \o l
        /\ k = << >>
  BY <1>1
<1> DEFINE x == s[i]
           rest == SubSeq(s, 1, i - 1) \o SubSeq(s, i + 1, Len(s))
           c == Append(k, x)
<1>3. c \in Seq(S) /\ Len(c) = 1 /\ c[1] = x /\ Len(k) = 0
  <2>1. x \in S /\ Len(k) = 0
    BY <1>2, ElementOfSeq
  <2> HIDE DEF x
  <2> QED
    BY <2>1, AppendProperties
<1>4. Keep(s, T) = c \o l /\ Keep(rest, T) = k \o l
  BY <1>2
<1> HIDE DEF x, rest, c
<1>5. Len(l) \in Nat
  BY LenProperties
<1>6. /\ Len(c \o l) = 1 + Len(l) /\ Len(k \o l) = Len(l)
      /\ \A n \in 1 .. 1 + Len(l) : (c \o l)[n] = IF n <= 1 THEN c[n] ELSE l[n - 1]
      /\ \A n \in 1 .. Len(l) : (k \o l)[n] = l[n]
  <2>1. /\ Len(c \o l) = Len(c) + Len(l)
        /\ \A n \in 1 .. Len(c) + Len(l) : (c \o l)[n] = IF n <= Len(c) THEN c[n] ELSE l[n - Len(c)]
    <3> DEFINE e == c
    <3>1. e \in Seq(S)
      BY <1>3
    <3> HIDE DEF e
    <3>2. /\ Len(e \o l) = Len(e) + Len(l)
          /\ \A n \in 1 .. Len(e) + Len(l) : (e \o l)[n] = IF n <= Len(e) THEN e[n] ELSE l[n - Len(e)]
      BY <3>1, ConcatProperties
    <3> QED
      BY <3>2 DEF e
  <2>2. /\ Len(k \o l) = Len(k) + Len(l)
        /\ \A n \in 1 .. Len(k) + Len(l) : (k \o l)[n] = IF n <= Len(k) THEN k[n] ELSE l[n - Len(k)]
    BY <1>3, ConcatProperties
  <2> QED
    BY <1>3, <1>5, <2>1, <2>2
<1>7. (c \o l)[1] = x
  <2>1. 1 \in 1 .. 1 + Len(l)
    BY <1>5
  <2> QED
    BY <1>3, <1>6, <2>1
<1>8. ASSUME NEW n \in 1 .. Len(l) PROVE (k \o l)[n] = (c \o l)[n + 1]
  <2>1. n + 1 \in 1 .. 1 + Len(l) /\ ~(n + 1 <= 1) /\ (n + 1) - 1 = n
    BY <1>5
  <2> QED
    BY <1>6, <2>1
<1>9. Len(Keep(s, T)) = Len(Keep(rest, T)) + 1 /\ Len(Keep(rest, T)) \in Nat
  BY <1>4, <1>5, <1>6
<1> QED
  BY <1>4, <1>6, <1>7, <1>8, <1>9 DEF x, rest

=============================================================================
