--------------------------- MODULE SequenceLemmas ---------------------------
(***************************************************************************)
(* Lemmas about sequences as the sets of their elements: the queues,       *)
(* batches and buffers of AsyncPipeline, LokiSink and Sinks.               *)
(***************************************************************************)
EXTENDS Integers, Sequences, SequencesExt, SequenceTheorems, TLAPS

\* The empty sequence has no elements.
LEMMA Empty == ToSet(<<>>) = {} /\ IsInjective(<<>>)
  BY DEF ToSet, IsInjective

\* The elements of a sequence over S are in S.
LEMMA Members == ASSUME NEW S, NEW s \in Seq(S) PROVE ToSet(s) \subseteq S
  BY DEF ToSet

\* What fits of a sequence and what is cut off are the sequence, and share nothing if no
\* element is in it twice.
LEMMA Cut ==
  ASSUME NEW S, NEW s \in Seq(S), NEW k \in 0..Len(s)
  PROVE  LET a == SubSeq(s, 1, k)
             b == SubSeq(s, k + 1, Len(s))
         IN  /\ b \in Seq(S) /\ Len(b) = Len(s) - k
             /\ ToSet(s) = ToSet(b) \cup ToSet(a)
             /\ IsInjective(s) => IsInjective(b) /\ ToSet(a) \cap ToSet(b) = {}
<1>. DEFINE a == SubSeq(s, 1, k)
            b == SubSeq(s, k + 1, Len(s))
<1>1. b \in Seq(S) /\ Len(b) = Len(s) - k /\ \A i \in 1..Len(b) : b[i] = s[i + k]
  OBVIOUS
<1>2. a \in Seq(S) /\ Len(a) = k /\ \A i \in 1..Len(a) : a[i] = s[i]
  OBVIOUS
<1>. HIDE DEF a, b
<1>3. ToSet(s) = ToSet(b) \cup ToSet(a)
  <2>1. ASSUME NEW i \in 1..Len(s) PROVE s[i] \in ToSet(b) \cup ToSet(a)
    <3>1. CASE i <= k
      BY <1>2, <3>1 DEF ToSet
    <3>2. CASE i > k
      <4>. DEFINE j == i - k
      <4>. j \in 1..Len(b) /\ j + k = i
        BY <1>1, <3>2
      <4>. HIDE DEF j
      <4>1. b[j] = s[i]
        BY <1>1
      <4>. QED
        BY <1>1, <4>1 DEF ToSet
    <3>. QED
      BY <3>1, <3>2
  <2>2. ToSet(b) \subseteq ToSet(s)
    BY <1>1 DEF ToSet
  <2>3. ToSet(a) \subseteq ToSet(s)
    BY <1>2 DEF ToSet
  <2>4. ToSet(s) \subseteq ToSet(b) \cup ToSet(a)
    BY <2>1 DEF ToSet
  <2>. QED
    BY <2>2, <2>3, <2>4
<1>4. IsInjective(s) => IsInjective(b)
  BY <1>1 DEF IsInjective, b
<1>5. IsInjective(s) => ToSet(a) \cap ToSet(b) = {}
  <2>. SUFFICES ASSUME IsInjective(s), NEW i \in 1..Len(a), NEW j \in 1..Len(b), a[i] = b[j]
                PROVE  FALSE
    BY <1>1, <1>2 DEF ToSet
  <2>1. s[i] = s[j + k] /\ i \in 1..Len(s) /\ j + k \in 1..Len(s) /\ i # j + k
    BY <1>1, <1>2
  <2>. QED
    BY <2>1 DEF IsInjective
<1>. QED
  BY <1>1, <1>3, <1>4, <1>5 DEF a, b

\* Appending an element adds it.
LEMMA Appended ==
  ASSUME NEW S, NEW s \in Seq(S), NEW e \in S
  PROVE  /\ Append(s, e) \in Seq(S) /\ ToSet(Append(s, e)) = ToSet(s) \cup {e}
         /\ IsInjective(s) /\ e \notin ToSet(s) => IsInjective(Append(s, e))
<1>1. /\ Append(s, e) \in Seq(S) /\ Len(Append(s, e)) = Len(s) + 1
      /\ \A i \in 1..Len(s) : Append(s, e)[i] = s[i]
      /\ Append(s, e)[Len(s) + 1] = e
  OBVIOUS
<1>2. ToSet(Append(s, e)) = ToSet(s) \cup {e}
  BY <1>1 DEF ToSet
<1>. QED
  BY <1>1, <1>2 DEF ToSet, IsInjective

\* Concatenation joins the elements.
LEMMA Concatenated ==
  ASSUME NEW S, NEW s \in Seq(S), NEW r \in Seq(S)
  PROVE  /\ s \o r \in Seq(S) /\ ToSet(s \o r) = ToSet(s) \cup ToSet(r)
         /\ IsInjective(s) /\ IsInjective(r) /\ ToSet(s) \cap ToSet(r) = {} => IsInjective(s \o r)
<1>1. /\ s \o r \in Seq(S) /\ Len(s \o r) = Len(s) + Len(r)
      /\ \A i \in 1..Len(s) : (s \o r)[i] = s[i]
      /\ \A i \in (Len(s) + 1)..(Len(s) + Len(r)) : (s \o r)[i] = r[i - Len(s)]
  OBVIOUS
<1>2. ToSet(s \o r) = ToSet(s) \cup ToSet(r)
  <2>1. ASSUME NEW i \in 1..Len(r) PROVE r[i] \in ToSet(s \o r)
    <3>1. (s \o r)[i + Len(s)] = r[i] /\ i + Len(s) \in 1..Len(s \o r)
      BY <1>1
    <3>. QED
      BY SMTT(30), <1>1, <3>1 DEF ToSet
  <2>2. ToSet(s) \subseteq ToSet(s \o r)
    BY <1>1 DEF ToSet
  <2>3. ASSUME NEW i \in 1..Len(s \o r) PROVE (s \o r)[i] \in ToSet(s) \cup ToSet(r)
    <3>1. CASE i <= Len(s)
      BY <1>1, <3>1 DEF ToSet
    <3>2. CASE i > Len(s)
      BY <1>1, <3>2 DEF ToSet
    <3>. QED
      BY <3>1, <3>2
  <2>4. ToSet(s \o r) \subseteq ToSet(s) \cup ToSet(r)
    BY <2>3, <1>1 DEF ToSet
  <2>5. ToSet(r) \subseteq ToSet(s \o r)
    BY SMTT(30), <2>1 DEF ToSet
  <2>. QED
    BY <2>2, <2>4, <2>5
<1>3. ASSUME IsInjective(s), IsInjective(r), ToSet(s) \cap ToSet(r) = {} PROVE IsInjective(s \o r)
  <2>. SUFFICES ASSUME NEW i \in 1..Len(s \o r), NEW j \in 1..Len(s \o r), (s \o r)[i] = (s \o r)[j]
                PROVE  i = j
    BY SMTT(30), <1>1 DEF IsInjective
  <2>. DEFINE n == Len(s)
  <2>1. CASE i <= n /\ j <= n
    BY <1>1, <1>3, <2>1 DEF IsInjective
  <2>2. CASE i > n /\ j > n
    <3>1. i - n \in 1..Len(r) /\ j - n \in 1..Len(r) /\ r[i - n] = r[j - n]
      BY <1>1, <2>2
    <3>2. i - n = j - n
      BY <1>3, <3>1 DEF IsInjective
    <3>. QED
      BY <1>1, <3>2
  <2>3. \A k \in 1..Len(s \o r) : k <= n => (s \o r)[k] \in ToSet(s)
    BY <1>1 DEF ToSet
  <2>4. \A k \in 1..Len(s \o r) : k > n => (s \o r)[k] \in ToSet(r)
    <3>1. \A k \in 1..Len(s \o r) : k > n => k - n \in 1..Len(r) /\ (s \o r)[k] = r[k - n]
      BY <1>1
    <3>. QED
      BY <3>1 DEF ToSet
  <2>5. CASE i <= n <=> ~(j <= n)
    BY <1>1, <1>3, <2>3, <2>4, <2>5
  <2>. QED
    BY <1>1, <2>1, <2>2, <2>5
<1>. QED
  BY <1>1, <1>2, <1>3

\* Taking the head away takes it out.
LEMMA TailOf ==
  ASSUME NEW S, NEW s \in Seq(S), s # <<>>
  PROVE  /\ Head(s) \in ToSet(s)
         /\ ToSet(s) = {Head(s)} \cup ToSet(Tail(s))
         /\ IsInjective(s) => Head(s) \notin ToSet(Tail(s)) /\ IsInjective(Tail(s))
<1>. DEFINE h == Head(s)  t == Tail(s)
<1>1. /\ Len(s) \in Nat /\ Len(s) # 0 /\ DOMAIN s = 1..Len(s) /\ DOMAIN t = 1..(Len(s) - 1)
      /\ \A i \in 1..(Len(s) - 1) : t[i] = s[i + 1]
      /\ h = s[1]
  BY HeadTailProperties, LenProperties, EmptySeq
<1>. HIDE DEF h, t
<1>2. h \in ToSet(s)
  BY <1>1 DEF ToSet
<1>3. ToSet(s) = {h} \cup ToSet(t)
  <2>1. ASSUME NEW i \in 1..Len(s) PROVE s[i] \in {h} \cup ToSet(t)
    <3>1. CASE i = 1
      BY <1>1, <3>1
    <3>2. CASE i # 1
      <4>1. i - 1 \in 1..(Len(s) - 1) /\ s[(i - 1) + 1] = s[i]
        BY <1>1, <3>2
      <4>. QED
        BY <1>1, <4>1 DEF ToSet
    <3>. QED
      BY <3>1, <3>2
  <2>2. ASSUME NEW i \in 1..(Len(s) - 1) PROVE t[i] \in ToSet(s)
    <3>1. i + 1 \in 1..Len(s)
      BY <1>1
    <3>. QED
      BY <1>1, <3>1 DEF ToSet
  <2>. QED
    BY <1>1, <1>2, <2>1, <2>2 DEF ToSet
<1>4. ASSUME IsInjective(s) PROVE h \notin ToSet(t) /\ IsInjective(t)
  <2>1. \A i \in 1..(Len(s) - 1) : i + 1 \in 1..Len(s) /\ 1 \in 1..Len(s) /\ i + 1 # 1
    BY <1>1
  <2>2. h \notin ToSet(t)
    BY <1>1, <1>4, <2>1 DEF ToSet, IsInjective
  <2>3. ASSUME NEW i \in 1..(Len(s) - 1), NEW j \in 1..(Len(s) - 1), t[i] = t[j]
        PROVE  i = j
    <3>1. i + 1 = j + 1
      BY <1>1, <1>4, <2>1, <2>3 DEF IsInjective
    <3>. QED
      BY <1>1, <3>1
  <2>. QED
    BY <1>1, <2>2, <2>3 DEF IsInjective
<1>. QED
  BY <1>2, <1>3, <1>4 DEF h, t

----------------------------------------------------------------------------
(* Sequences of sequences.                                                 *)

\* The elements of a sequence of sequences, and that it holds none of them twice.
Flat(ss) == UNION {ToSet(ss[i]) : i \in DOMAIN ss}

Apart(ss) ==
  \A i, j \in DOMAIN ss :
    IsInjective(ss[i]) /\ (i # j => ToSet(ss[i]) \cap ToSet(ss[j]) = {})

\* Appending a sequence adds its elements.
LEMMA FlatAppended ==
  ASSUME NEW S, NEW ss \in Seq(Seq(S)), NEW s \in Seq(S)
  PROVE  /\ Flat(Append(ss, s)) = Flat(ss) \cup ToSet(s)
         /\ Apart(ss) /\ IsInjective(s) /\ Flat(ss) \cap ToSet(s) = {} => Apart(Append(ss, s))
<1>. DEFINE tt == Append(ss, s)
<1>1. /\ Len(ss) \in Nat /\ DOMAIN ss = 1..Len(ss) /\ DOMAIN tt = 1..(Len(ss) + 1)
      /\ \A i \in 1..Len(ss) : tt[i] = ss[i]
      /\ tt[Len(ss) + 1] = s
  BY AppendProperties, LenProperties
<1>. HIDE DEF tt
<1>2. \A i \in 1..(Len(ss) + 1) : i \in 1..Len(ss) \/ i = Len(ss) + 1
  BY <1>1
<1>3. Flat(tt) = Flat(ss) \cup ToSet(s)
  <2>1. Flat(tt) \subseteq Flat(ss) \cup ToSet(s)
    BY <1>1, <1>2 DEF Flat
  <2>2. ToSet(s) \subseteq Flat(tt)
    <3>1. Len(ss) + 1 \in DOMAIN tt
      BY <1>1
    <3>. QED
      BY <1>1, <3>1 DEF Flat
  <2>3. Flat(ss) \subseteq Flat(tt)
    <3>1. DOMAIN ss \subseteq DOMAIN tt
      BY <1>1
    <3>. QED
      BY <1>1, <3>1 DEF Flat
  <2>. QED
    BY <2>1, <2>2, <2>3
<1>4. ASSUME Apart(ss), IsInjective(s), Flat(ss) \cap ToSet(s) = {} PROVE Apart(tt)
  <2>1. \A i \in 1..Len(ss) : ToSet(tt[i]) \cap ToSet(s) = {}
    BY <1>1, <1>4 DEF Flat
  <2>2. SUFFICES ASSUME NEW i \in 1..(Len(ss) + 1), NEW j \in 1..(Len(ss) + 1)
                 PROVE  IsInjective(tt[i]) /\ (i # j => ToSet(tt[i]) \cap ToSet(tt[j]) = {})
    BY <1>1 DEF Apart
  <2>3. CASE i \in 1..Len(ss) /\ j \in 1..Len(ss)
    BY <1>1, <1>4, <2>3 DEF Apart
  <2>4. CASE i \in 1..Len(ss) /\ j = Len(ss) + 1
    BY <1>1, <1>4, <2>1, <2>4 DEF Apart
  <2>5. CASE i = Len(ss) + 1
    BY <1>1, <1>2, <1>4, <2>1, <2>5
  <2>. QED
    BY <1>2, <2>3, <2>4, <2>5
<1>. QED
  BY <1>3, <1>4 DEF tt

\* Taking the first sequence away takes its elements out.
LEMMA FlatTailOf ==
  ASSUME NEW S, NEW ss \in Seq(Seq(S)), ss # <<>>
  PROVE  /\ Flat(ss) = ToSet(Head(ss)) \cup Flat(Tail(ss))
         /\ Apart(ss) => /\ IsInjective(Head(ss)) /\ Apart(Tail(ss))
                         /\ ToSet(Head(ss)) \cap Flat(Tail(ss)) = {}
<1>. DEFINE h == Head(ss)  tt == Tail(ss)
<1>1. /\ Len(ss) \in Nat /\ Len(ss) # 0 /\ DOMAIN ss = 1..Len(ss)
      /\ DOMAIN tt = 1..(Len(ss) - 1)
      /\ \A i \in 1..(Len(ss) - 1) : tt[i] = ss[i + 1]
      /\ h = ss[1]
  BY HeadTailProperties, LenProperties, EmptySeq
<1>. HIDE DEF h, tt
<1>2. \A i \in 1..(Len(ss) - 1) : i + 1 \in 1..Len(ss) /\ i + 1 # 1
  BY <1>1
<1>3. 1 \in 1..Len(ss)
  BY <1>1
<1>4. Flat(ss) = ToSet(h) \cup Flat(tt)
  <2>1. ASSUME NEW i \in 1..Len(ss) PROVE ToSet(ss[i]) \subseteq ToSet(h) \cup Flat(tt)
    <3>1. CASE i = 1
      BY <1>1, <3>1
    <3>2. CASE i # 1
      <4>1. i - 1 \in 1..(Len(ss) - 1) /\ (i - 1) + 1 = i
        BY <1>1, <3>2
      <4>2. tt[i - 1] = ss[i]
        BY <1>1, <4>1
      <4>. QED
        BY <1>1, <4>1, <4>2 DEF Flat
    <3>. QED
      BY <3>1, <3>2
  <2>2. ASSUME NEW i \in 1..(Len(ss) - 1) PROVE ToSet(tt[i]) \subseteq Flat(ss)
    BY <1>1, <1>2 DEF Flat
  <2>3. ToSet(h) \subseteq Flat(ss)
    BY <1>1, <1>3 DEF Flat
  <2>4. Flat(ss) \subseteq ToSet(h) \cup Flat(tt)
    BY <1>1, <2>1 DEF Flat
  <2>5. Flat(tt) \subseteq Flat(ss)
    BY <1>1, <2>2 DEF Flat
  <2>. QED
    BY <2>3, <2>4, <2>5
<1>5. ASSUME Apart(ss)
      PROVE  IsInjective(h) /\ Apart(tt) /\ ToSet(h) \cap Flat(tt) = {}
  <2>1. IsInjective(h)
    BY <1>1, <1>3, <1>5 DEF Apart
  <2>2. \A i \in 1..(Len(ss) - 1) : ToSet(h) \cap ToSet(tt[i]) = {}
    BY <1>1, <1>2, <1>3, <1>5 DEF Apart
  <2>3. ToSet(h) \cap Flat(tt) = {}
    BY <1>1, <2>2 DEF Flat
  <2>4. ASSUME NEW i \in 1..(Len(ss) - 1), NEW j \in 1..(Len(ss) - 1)
        PROVE  IsInjective(tt[i]) /\ (i # j => ToSet(tt[i]) \cap ToSet(tt[j]) = {})
    <3>1. i # j => i + 1 # j + 1
      BY <1>1
    <3>2. tt[i] = ss[i + 1] /\ tt[j] = ss[j + 1]
      BY <1>1
    <3>. QED
      BY <1>1, <1>2, <1>5, <3>1, <3>2 DEF Apart
  <2>5. Apart(tt)
    BY <1>1, <2>4 DEF Apart
  <2>. QED
    BY <2>1, <2>3, <2>5
<1>. QED
  BY <1>4, <1>5 DEF h, tt
=============================================================================
