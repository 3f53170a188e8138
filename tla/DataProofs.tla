----------------------------- MODULE DataProofs -----------------------------
(***************************************************************************)
(* Proofs that need induction over data: about CoreLogs and LinkConfigs.   *)
(*                                                                         *)
(* The log history, for any sizes and any number of lines, faults and      *)
(* stops: every batch of both segments is found again, lines are read in   *)
(* the order they were recorded, a clear is for good, and a flush loses no *)
(* line of the active segment. Links and lists of hashes of any length and *)
(* with any characters: what csqtt-link writes it reads again, and a core  *)
(* gets the hashes that the link, the form or the calls have.              *)
(*                                                                         *)
(* Sums of bytes, contents of files and the parts of a text are recursive  *)
(* functions. What they are is proved by induction, which follows from the *)
(* order of the natural numbers being well-founded: a set of numbers that  *)
(* holds 0, and n + 1 with n, holds them all.                              *)
(***************************************************************************)
EXTENDS CoreLogs, LinkConfigs, Integers, WellFoundedInduction, SequenceTheorems,
        FiniteSetTheorems, TLAPS

(* Every nonempty set of naturals has a least element. *)
LEMMA Least == ASSUME NEW T \in SUBSET Nat, T # {} PROVE \E n \in T : \A m \in T : n <= m
<1>1. PICK n \in T : \A m \in T : ~(<<m, n>> \in OpToRel(<, Nat))
  BY NatLessThanWellFounded, WFMin, Zenon
<1>2. \A m \in T : ~(m < n)
  BY <1>1 DEF OpToRel
<1> QED
  BY <1>2

\* A set that holds 0, and n + 1 with each n, holds every natural number.
LEMMA Induction ==
  ASSUME NEW S, 0 \in S, \A n \in Nat : n \in S => n + 1 \in S
  PROVE  \A n \in Nat : n \in S
<1> SUFFICES ASSUME Nat \ S # {} PROVE FALSE
  OBVIOUS
<1>1. PICK n \in Nat \ S : \A m \in Nat \ S : n <= m
  BY Least
<1>2. n - 1 \in Nat /\ n - 1 \in S
  BY <1>1
<1> QED
  BY <1>1, <1>2

\* Functions on 0..N by recursion: the value at n comes from the one before it.
Steps(N, V) == [1..N -> [V -> V]]
Recurs(g, N, V, base, step) ==
  g \in [0..N -> V] /\ g[0] = base /\ \A n \in 1..N : g[n] = step[n][g[n - 1]]

\* Such a function exists, and its values are of the type the step stays in.
LEMMA Recursion ==
  ASSUME NEW N \in Nat, NEW V, NEW base \in V, NEW step \in Steps(N, V)
  PROVE  \E g : Recurs(g, N, V, base, step)
<1> USE DEF Steps
<1> DEFINE Upto(g, n) == g[0] = base /\ \A k \in 1..n : g[k] = step[k][g[k - 1]]
           T == {n \in Nat : n <= N => \E g \in [0..n -> V] : Upto(g, n)}
<1>1. 0 \in T
  <2>1. PICK g : g = [k \in 0..0 |-> base]
    OBVIOUS
  <2>2. g \in [0..0 -> V] /\ Upto(g, 0)
    BY <2>1
  <2> QED
    BY <2>2
<1>2. ASSUME NEW n \in Nat, n \in T PROVE n + 1 \in T
  <2> HIDE DEF Upto
  <2> SUFFICES ASSUME n + 1 <= N
               PROVE  \E h \in [0..(n + 1) -> V] : Upto(h, n + 1)
    OBVIOUS
  <2>1. PICK g \in [0..n -> V] : Upto(g, n)
    BY <1>2
  <2>2. PICK h : h = [k \in 0..(n + 1) |-> IF k = n + 1 THEN step[n + 1][g[n]] ELSE g[k]]
    OBVIOUS
  <2>4. g[n] \in V /\ step[n + 1][g[n]] \in V
    BY <2>1
  <2>5. h \in [0..(n + 1) -> V]
    BY <2>2, <2>4
  <2>6. ASSUME NEW k \in 1..(n + 1) PROVE h[k] = step[k][h[k - 1]]
    <3>1. CASE k = n + 1
      <4>1. h[k] = step[n + 1][g[n]] /\ h[n] = g[n]
        BY <2>2, <3>1
      <4> QED
        BY <3>1, <4>1
    <3>2. CASE k # n + 1
      <4>1. k \in 1..n /\ h[k] = g[k] /\ h[k - 1] = g[k - 1]
        BY <2>2, <3>2
      <4> QED
        BY <2>1, <4>1 DEF Upto
    <3> QED
      BY <3>1, <3>2
  <2>7. h[0] = base
    BY <2>1, <2>2 DEF Upto
  <2> QED
    BY <2>5, <2>6, <2>7 DEF Upto
<1>3. N \in T
  <2> HIDE DEF T
  <2> QED
    BY <1>1, <1>2, Induction
<1>4. PICK g \in [0..N -> V] : Upto(g, N)
  BY <1>3
<1> QED
  BY <1>4 DEF Recurs

-----------------------------------------------------------------------------

\* The running sum of a sequence.
IsSum(g, s) == g = [n \in 0..Len(s) |-> IF n = 0 THEN 0 ELSE g[n - 1] + s[n]]

(* Total computes the running sum of its sequence.                         *)
LEMMA SumExists ==
  ASSUME NEW s \in Seq(Nat)
  PROVE  \E g \in [0..Len(s) -> Nat] : IsSum(g, s) /\ Total(s) = g[Len(s)]
<1>1. Len(s) \in Nat
  OBVIOUS
<1>2. PICK g \in [0..Len(s) -> Nat] : IsSum(g, s)
  <2>1. PICK step : step = [n \in 1..Len(s) |-> [v \in Nat |-> v + s[n]]]
    OBVIOUS
  <2>2. step \in Steps(Len(s), Nat)
    <3>1. ASSUME NEW n \in 1..Len(s) PROVE [v \in Nat |-> v + s[n]] \in [Nat -> Nat]
      <4>1. s[n] \in Nat
        BY ElementOfSeq
      <4> QED
        BY <4>1
    <3> QED
      BY <2>1, <3>1 DEF Steps
  <2>3. PICK g : Recurs(g, Len(s), Nat, 0, step)
    <3>1. 0 \in Nat
      OBVIOUS
    <3> QED
      BY <1>1, <2>2, <3>1, Recursion, Zenon
  <2>4. ASSUME NEW n \in 1..Len(s) PROVE g[n] = g[n - 1] + s[n]
    <3>1. n - 1 \in 0..Len(s)
      BY <1>1
    <3>2. g[n - 1] \in Nat
      BY <2>3, <3>1 DEF Recurs
    <3> QED
      BY <2>1, <2>3, <3>2 DEF Recurs
  <2> QED
    BY <1>1, <2>3, <2>4 DEF IsSum, Recurs
<1> DEFINE sum[n \in 0..Len(s)] == IF n = 0 THEN 0 ELSE sum[n - 1] + s[n]
<1>3. IsSum(sum, s)
  BY <1>2 DEF IsSum
<1>4. Total(s) = sum[Len(s)]
  BY DEF Total
<1> HIDE DEF sum
<1>5. sum[Len(s)] = g[Len(s)]
  <2> DEFINE T == {n \in Nat : n <= Len(s) => sum[n] = g[n]}
  <2>1. 0 \in T
    BY <1>1, <1>2, <1>3 DEF IsSum
  <2>2. ASSUME NEW n \in Nat, n \in T PROVE n + 1 \in T
    BY <1>1, <1>2, <1>3, <2>2 DEF IsSum
  <2>3. Len(s) \in T
    <3> HIDE DEF T
    <3> QED
      BY <1>1, <2>1, <2>2, Induction
  <2> QED
    BY <1>1, <2>3
<1> QED
  BY <1>2, <1>4, <1>5

(* The running sum of a sequence gives the total of each of its prefixes. *)
LEMMA PrefixSums ==
  ASSUME NEW s \in Seq(Nat)
  PROVE  \E g \in [0..Len(s) -> Nat] :
           IsSum(g, s) /\ \A n \in 0..Len(s) : Total(SubSeq(s, 1, n)) = g[n]
<1>0. Len(s) \in Nat
  OBVIOUS
<1>1. PICK g \in [0..Len(s) -> Nat] : IsSum(g, s)
  BY SumExists
<1>2. ASSUME NEW n \in 0..Len(s) PROVE Total(SubSeq(s, 1, n)) = g[n]
  <2>1. /\ SubSeq(s, 1, n) \in Seq(Nat) /\ Len(SubSeq(s, 1, n)) = n
        /\ \A k \in 1..n : SubSeq(s, 1, n)[k] = s[k]
    BY <1>0
  <2>2. PICK p : p = SubSeq(s, 1, n)
    OBVIOUS
  <2>3. PICK h \in [0..n -> Nat] : IsSum(h, p) /\ Total(p) = h[n]
    BY <2>1, <2>2, SumExists
  <2> DEFINE S == {k \in Nat : k <= n => h[k] = g[k]}
  <2>0. n \in Nat
    BY <1>0
  <2>4. 0 \in S
    BY <1>0, <1>1, <2>1, <2>2, <2>3 DEF IsSum
  <2>5. ASSUME NEW k \in Nat, k \in S PROVE k + 1 \in S
    BY <1>0, <1>1, <2>1, <2>2, <2>3, <2>5 DEF IsSum
  <2> HIDE DEF S
  <2>6. n \in S
    BY <2>0, <2>4, <2>5, Induction
  <2> QED
    BY <2>0, <2>2, <2>3, <2>6 DEF S
<1> QED
  BY <1>1, <1>2

\* Nothing adds up to nothing.
LEMMA TotalEmpty == Total(<<>>) = 0
<1>1. <<>> \in Seq(Nat) /\ Len(<<>>) = 0
  OBVIOUS
<1>2. PICK g : IsSum(g, <<>>) /\ Total(<<>>) = g[0]
  BY <1>1, SumExists
<1> QED
  BY <1>2 DEF IsSum

\* A total grows by what is appended.
LEMMA TotalAppend ==
  ASSUME NEW s \in Seq(Nat), NEW e \in Nat
  PROVE  /\ Total(s) \in Nat /\ Total(<<>>) = 0
         /\ Total(Append(s, e)) = Total(s) + e
<1>1. Total(s) \in Nat
  <2>1. PICK g \in [0..Len(s) -> Nat] : Total(s) = g[Len(s)]
    BY SumExists
  <2> QED
    BY <2>1
<1>2. Total(<<>>) = 0
  BY TotalEmpty
<1>3. Total(Append(s, e)) = Total(s) + e
  <2>1. PICK t : t = Append(s, e)
    OBVIOUS
  <2>2. /\ t \in Seq(Nat) /\ Len(t) = Len(s) + 1 /\ t[Len(t)] = e /\ Len(s) \in Nat
        /\ SubSeq(t, 1, Len(s)) = s /\ SubSeq(t, 1, Len(t)) = t
    BY <2>1
  <2>3. PICK g \in [0..Len(t) -> Nat] :
          IsSum(g, t) /\ \A n \in 0..Len(t) : Total(SubSeq(t, 1, n)) = g[n]
    BY <2>2, PrefixSums
  <2>4. Total(t) = g[Len(t)] /\ Total(s) = g[Len(s)]
    BY <2>2, <2>3
  <2>5. g[Len(t)] = g[Len(s)] + e
    BY <2>2, <2>3 DEF IsSum
  <2> QED
    BY <2>1, <2>4, <2>5
<1> QED
  BY <1>1, <1>2, <1>3

(* Induction on the length of a sequence. *)
LEMMA SeqInduction ==
  ASSUME NEW S, NEW T, <<>> \in T,
         \A s \in Seq(S), e \in S : s \in T => Append(s, e) \in T
  PROVE  \A s \in Seq(S) : s \in T
<1> DEFINE N == {n \in Nat : \A s \in Seq(S) : Len(s) = n => s \in T}
<1>1. 0 \in N
  <2>1. \A s \in Seq(S) : Len(s) = 0 => s = <<>>
    BY EmptySeq
  <2> QED
    BY <2>1
<1>2. ASSUME NEW n \in Nat, n \in N PROVE n + 1 \in N
  <2> SUFFICES ASSUME NEW s \in Seq(S), Len(s) = n + 1 PROVE s \in T
    OBVIOUS
  <2>1. s # <<>>
    BY EmptySeq
  <2>2. PICK r \in Seq(S), e \in S : s = Append(r, e)
    BY <2>1, SequenceEmptyOrAppend
  <2>3. Len(r) = n /\ Len(r) \in Nat
    BY <2>2, AppendProperties, LenProperties
  <2> QED
    BY <1>2, <2>2, <2>3
<1>3. \A n \in Nat : n \in N
  <2> HIDE DEF N
  <2> QED
    BY <1>1, <1>2, Induction
<1> QED
  BY <1>3, LenProperties

\* The total of two sequences is the sum of their totals.
LEMMA TotalConcat ==
  ASSUME NEW s \in Seq(Nat), NEW t \in Seq(Nat)
  PROVE  Total(s \o t) = Total(s) + Total(t)
<1> DEFINE T == {u \in Seq(Nat) : Total(s \o u) = Total(s) + Total(u)}
<1>0. Total(s) \in Nat /\ Total(<<>>) = 0
  BY TotalAppend
<1>1. <<>> \in T
  BY <1>0, ConcatEmptySeq, EmptySeq
<1>2. ASSUME NEW u \in Seq(Nat), NEW e \in Nat, u \in T
      PROVE  Append(u, e) \in T
  <2>1. s \o Append(u, e) = Append(s \o u, e)
    <3>1. Append(u, e) = u \o <<e>> /\ Append(s \o u, e) = (s \o u) \o <<e>> /\ <<e>> \in Seq(Nat)
      BY AppendIsConcat, ConcatProperties, SMTT(40)
    <3> QED
      BY <3>1, ConcatAssociative
  <2>2. /\ Total(Append(u, e)) = Total(u) + e /\ Total(u) \in Nat
        /\ Total(Append(s \o u, e)) = Total(s \o u) + e
    BY TotalAppend, ConcatProperties
  <2>3. Append(u, e) \in Seq(Nat)
    BY AppendProperties
  <2>4. Total(s \o u) = Total(s) + Total(u)
    BY <1>2
  <2>5. Total(s \o Append(u, e)) = Total(s) + Total(u) + e
    BY <2>1, <2>2, <2>4
  <2>6. Total(s \o Append(u, e)) = Total(s) + Total(Append(u, e))
    BY <1>0, <2>2, <2>5
  <2> QED
    BY <2>3, <2>6
<1>3. t \in T
  <2> HIDE DEF T
  <2> QED
    BY <1>1, <1>2, SeqInduction
<1> QED
  BY <1>3

(* The weights of what a sequence holds, and their sum.                    *)
Weights(w, s) == [i \in DOMAIN s |-> w[s[i]]]

\* The weights of the members of a sequence are a sequence of numbers.
LEMMA WeightsTyped ==
  ASSUME NEW S, NEW w \in [S -> Nat], NEW s \in Seq(S)
  PROVE  Weights(w, s) \in Seq(Nat) /\ Len(Weights(w, s)) = Len(s)
<1>1. DOMAIN s = 1..Len(s) /\ Len(s) \in Nat
  BY LenProperties
<1>2. \A i \in 1..Len(s) : w[s[i]] \in Nat
  BY ElementOfSeq
<1>3. Weights(w, s) = [i \in 1..Len(s) |-> w[s[i]]]
  BY <1>1 DEF Weights
<1>4. /\ [i \in 1..Len(s) |-> w[s[i]]] \in Seq(Nat)
      /\ Len([i \in 1..Len(s) |-> w[s[i]]]) = Len(s)
  BY <1>1, <1>2
<1> QED
  BY <1>3, <1>4

\* Weights of two sequences, one behind the other, add up.
LEMMA WeightsConcat ==
  ASSUME NEW S, NEW w \in [S -> Nat], NEW s \in Seq(S), NEW t \in Seq(S)
  PROVE  /\ Total(Weights(w, s \o t)) = Total(Weights(w, s)) + Total(Weights(w, t))
         /\ Total(Weights(w, s)) \in Nat
<1>1. s \o t \in Seq(S) /\ Len(s) \in Nat /\ Len(t) \in Nat /\ Len(s \o t) = Len(s) + Len(t)
  BY ConcatProperties, LenProperties
<1>2. /\ Weights(w, s) \in Seq(Nat) /\ Weights(w, t) \in Seq(Nat)
      /\ Weights(w, s \o t) \in Seq(Nat)
      /\ Len(Weights(w, s)) = Len(s) /\ Len(Weights(w, t)) = Len(t)
      /\ Len(Weights(w, s \o t)) = Len(s) + Len(t)
  BY <1>1, WeightsTyped
<1>3. Weights(w, s \o t) = Weights(w, s) \o Weights(w, t)
  <2>1. /\ Weights(w, s) \o Weights(w, t) \in Seq(Nat)
        /\ Len(Weights(w, s) \o Weights(w, t)) = Len(s) + Len(t)
        /\ \A i \in 1..(Len(s) + Len(t)) :
             (Weights(w, s) \o Weights(w, t))[i]
               = IF i <= Len(s) THEN Weights(w, s)[i] ELSE Weights(w, t)[i - Len(s)]
    <3>1. PICK a, b : a = Weights(w, s) /\ b = Weights(w, t)
      OBVIOUS
    <3>2. a \in Seq(Nat) /\ b \in Seq(Nat) /\ Len(a) = Len(s) /\ Len(b) = Len(t)
      BY <1>2, <3>1
    <3>3. /\ a \o b \in Seq(Nat) /\ Len(a \o b) = Len(a) + Len(b)
          /\ \A i \in 1..(Len(a) + Len(b)) :
               (a \o b)[i] = IF i <= Len(a) THEN a[i] ELSE b[i - Len(a)]
      BY <3>2, ConcatProperties
    <3> QED
      BY <3>1, <3>2, <3>3
  <2>2. ASSUME NEW i \in 1..(Len(s) + Len(t))
        PROVE  Weights(w, s \o t)[i] = (Weights(w, s) \o Weights(w, t))[i]
    <3>1. (s \o t)[i] = IF i <= Len(s) THEN s[i] ELSE t[i - Len(s)]
      BY ConcatProperties
    <3>2. Weights(w, s \o t)[i] = w[(s \o t)[i]]
      <4>1. PICK u \in Seq(S) : u = s \o t
        BY <1>1
      <4>2. i \in 1..Len(u)
        BY <1>1, <4>1
      <4>3. Weights(w, u)[i] = w[u[i]]
        BY <4>2, LenProperties DEF Weights
      <4> QED
        BY <4>1, <4>3
    <3>3. CASE i <= Len(s)
      <4>1. i \in 1..Len(s)
        BY <1>1, <3>3
      <4>2. Weights(w, s)[i] = w[s[i]]
        BY <4>1, LenProperties DEF Weights
      <4> QED
        BY <2>1, <3>1, <3>2, <3>3, <4>2
    <3>4. CASE ~(i <= Len(s))
      <4>1. i - Len(s) \in 1..Len(t)
        BY <1>1, <3>4
      <4>2. Weights(w, t)[i - Len(s)] = w[t[i - Len(s)]]
        <5>1. PICK j \in 1..Len(t) : j = i - Len(s)
          BY <4>1
        <5>2. Weights(w, t)[j] = w[t[j]]
          BY LenProperties DEF Weights
        <5> QED
          BY <5>1, <5>2
      <4> QED
        BY <2>1, <3>1, <3>2, <3>4, <4>2
    <3> QED
      BY <3>3, <3>4
  <2> QED
    BY <1>1, <1>2, <2>1, <2>2, SeqEqual
<1>4. Total(Weights(w, s)) \in Nat
  <2>1. 0 \in Nat
    OBVIOUS
  <2> QED
    BY <1>2, <2>1, TotalAppend
<1> QED
  BY <1>2, <1>3, <1>4, TotalConcat

(* The bytes of lines, of the log or of an old release.                    *)
Entry == [no : Nat, bytes : Nat \ {0}]

\* Bytes of lines, one batch behind the other, add up.
LEMMA BytesConcat ==
  ASSUME NEW s \in Seq(Entry), NEW t \in Seq(Entry)
  PROVE  Bytes(s \o t) = Bytes(s) + Bytes(t) /\ Bytes(s) \in Nat
<1>1. PICK w : w = [e \in Entry |-> e.bytes]
  OBVIOUS
<1>2. w \in [Entry -> Nat]
  BY <1>1 DEF Entry
<1>3. ASSUME NEW u \in Seq(Entry) PROVE Bytes(u) = Total(Weights(w, u))
  <2>1. DOMAIN u = 1..Len(u) /\ \A i \in 1..Len(u) : u[i] \in Entry
    BY LenProperties, ElementOfSeq
  <2>2. \A i \in DOMAIN u : w[u[i]] = u[i].bytes
    BY <1>1, <2>1
  <2> QED
    BY <2>2 DEF Bytes, Weights
<1>4. s \o t \in Seq(Entry)
  BY ConcatProperties
<1>5. /\ Total(Weights(w, s \o t)) = Total(Weights(w, s)) + Total(Weights(w, t))
      /\ Total(Weights(w, s)) \in Nat
  BY <1>2, WeightsConcat, Zenon
<1> QED
  BY <1>3, <1>4, <1>5

\* So do the compressed sizes of members.
LEMMA PackedConcat ==
  ASSUME NEW s \in Seq(Member), NEW t \in Seq(Member)
  PROVE  Packed(s \o t) = Packed(s) + Packed(t) /\ Packed(s) \in Nat
<1>1. PICK w : w = [m \in Member |-> m.packed]
  OBVIOUS
<1>2. w \in [Member -> Nat]
  BY <1>1, SizesAssumption DEF Member
<1>3. ASSUME NEW u \in Seq(Member) PROVE Packed(u) = Total(Weights(w, u))
  <2>1. DOMAIN u = 1..Len(u) /\ \A i \in 1..Len(u) : u[i] \in Member
    BY LenProperties, ElementOfSeq
  <2>2. \A i \in DOMAIN u : w[u[i]] = u[i].packed
    BY <1>1, <2>1
  <2> QED
    BY <2>2 DEF Packed, Weights
<1>4. s \o t \in Seq(Member)
  BY ConcatProperties
<1>5. /\ Total(Weights(w, s \o t)) = Total(Weights(w, s)) + Total(Weights(w, t))
      /\ Total(Weights(w, s)) \in Nat
  BY <1>2, WeightsConcat, Zenon
<1> QED
  BY <1>3, <1>4, <1>5

\* A line of the log is an entry.
LEMMA LinesAreEntries == Line \subseteq Entry /\ Seq(Line) \subseteq Seq(Entry)
<1>1. Line \subseteq Entry
  BY SizesAssumption, BoundsAssumption DEF Line, Entry
<1> QED
  BY <1>1, SeqMonotonic

\* A line adds its own bytes, so only an empty batch has none.
LEMMA BytesAppend ==
  ASSUME NEW s \in Seq(Entry), NEW e \in Entry
  PROVE  /\ Bytes(s) \in Nat /\ Bytes(<<>>) = 0
         /\ Bytes(<<e>>) = e.bytes /\ Bytes(Append(s, e)) = Bytes(s) + e.bytes
         /\ s # <<>> => Bytes(s) > 0
<1>1. <<>> \in Seq(Entry) /\ <<e>> \in Seq(Entry) /\ Append(s, e) = s \o <<e>>
  BY AppendIsConcat
<1>2. Bytes(<<>>) = 0
  <2>1. [i \in DOMAIN <<>> |-> <<>>[i].bytes] = <<>>
    OBVIOUS
  <2>2. Total(<<>>) = 0
    BY TotalEmpty
  <2> QED
    BY <2>1, <2>2 DEF Bytes
<1>3. ASSUME NEW x \in Entry PROVE Bytes(<<x>>) = x.bytes /\ x.bytes \in Nat \ {0}
  <2>1. x.bytes \in Nat \ {0}
    BY DEF Entry
  <2>2. [i \in DOMAIN <<x>> |-> <<x>>[i].bytes] = <<x.bytes>>
    OBVIOUS
  <2>3. <<x.bytes>> = Append(<<>>, x.bytes) /\ <<>> \in Seq(Nat)
    OBVIOUS
  <2>4. Total(<<x.bytes>>) = 0 + x.bytes
    BY <2>1, <2>3, TotalAppend
  <2> QED
    BY <2>1, <2>2, <2>4 DEF Bytes
<1>4. Bytes(Append(s, e)) = Bytes(s) + e.bytes /\ Bytes(s) \in Nat
  BY <1>1, <1>3, BytesConcat
<1>5. ASSUME s # <<>> PROVE Bytes(s) > 0
  <2>1. PICK r \in Seq(Entry), x \in Entry : s = Append(r, x)
    BY <1>5, SequenceEmptyOrAppend
  <2>2. s = r \o <<x>> /\ <<x>> \in Seq(Entry)
    BY <2>1, AppendIsConcat
  <2>3. Bytes(s) = Bytes(r) + Bytes(<<x>>) /\ Bytes(r) \in Nat
    BY <2>2, BytesConcat
  <2>4. Bytes(<<x>>) = x.bytes /\ x.bytes \in Nat \ {0}
    BY <1>3
  <2> QED
    BY <2>3, <2>4
<1> QED
  BY <1>2, <1>3, <1>4, <1>5

\* A member adds its own compressed size.
LEMMA PackedAppend ==
  ASSUME NEW f \in Seq(Member), NEW m \in Member
  PROVE  /\ Packed(f) \in Nat /\ Packed(<<>>) = 0
         /\ Packed(Append(f, m)) = Packed(f) + m.packed
<1>1. <<m>> \in Seq(Member) /\ Append(f, m) = f \o <<m>>
  BY AppendIsConcat
<1>2. Packed(<<>>) = 0
  <2>1. [i \in DOMAIN <<>> |-> <<>>[i].packed] = <<>>
    OBVIOUS
  <2>2. Total(<<>>) = 0
    BY TotalEmpty
  <2> QED
    BY <2>1, <2>2 DEF Packed
<1>3. Packed(<<m>>) = m.packed
  <2>1. m.packed \in Nat
    BY SizesAssumption DEF Member
  <2>2. [i \in DOMAIN <<m>> |-> <<m>>[i].packed] = <<m.packed>>
    OBVIOUS
  <2>3. <<m.packed>> = Append(<<>>, m.packed) /\ <<>> \in Seq(Nat)
    OBVIOUS
  <2>4. Total(<<m.packed>>) = 0 + m.packed
    BY <2>1, <2>3, TotalAppend
  <2> QED
    BY <2>1, <2>2, <2>4 DEF Packed
<1> QED
  BY <1>1, <1>2, <1>3, PackedConcat

-----------------------------------------------------------------------------

\* The running concatenation of the lines of a file.
IsContent(g, f) == g[0] = <<>> /\ \A n \in 1..Len(f) : g[n] = g[n - 1] \o f[n].lines

(* Content computes the running concatenation of its members' lines.       *)
LEMMA ContentExists ==
  ASSUME NEW f \in Seq(Member)
  PROVE  \E g \in [0..Len(f) -> Seq(Line)] : IsContent(g, f) /\ Content(f) = g[Len(f)]
<1>1. Len(f) \in Nat
  OBVIOUS
<1>2. PICK g \in [0..Len(f) -> Seq(Line)] : IsContent(g, f)
  <2>1. PICK step : step = [n \in 1..Len(f) |-> [v \in Seq(Line) |-> v \o f[n].lines]]
    OBVIOUS
  <2>2. step \in Steps(Len(f), Seq(Line))
    <3>1. ASSUME NEW n \in 1..Len(f)
          PROVE  [v \in Seq(Line) |-> v \o f[n].lines] \in [Seq(Line) -> Seq(Line)]
      <4>1. f[n] \in Member
        BY ElementOfSeq
      <4>2. f[n].lines \in Seq(Line)
        BY <4>1 DEF Member
      <4> QED
        BY <4>2, ConcatProperties
    <3> QED
      BY <2>1, <3>1 DEF Steps
  <2>3. PICK g : Recurs(g, Len(f), Seq(Line), <<>>, step)
    <3>1. <<>> \in Seq(Line)
      OBVIOUS
    <3> QED
      BY <1>1, <2>2, <3>1, Recursion, Zenon
  <2>4. ASSUME NEW n \in 1..Len(f) PROVE g[n] = g[n - 1] \o f[n].lines
    <3>1. n - 1 \in 0..Len(f)
      BY <1>1
    <3>2. g[n - 1] \in Seq(Line)
      BY <2>3, <3>1 DEF Recurs
    <3> QED
      BY <2>1, <2>3, <3>2 DEF Recurs
  <2> QED
    BY <2>3, <2>4 DEF IsContent, Recurs
<1> DEFINE lines[n \in 0..Len(f)] == IF n = 0 THEN <<>> ELSE lines[n - 1] \o f[n].lines
<1>3. IsContent(lines, f)
  <2>1. g = [n \in 0..Len(f) |-> IF n = 0 THEN <<>> ELSE g[n - 1] \o f[n].lines]
    <3>1. ASSUME NEW n \in 0..Len(f)
          PROVE  g[n] = IF n = 0 THEN <<>> ELSE g[n - 1] \o f[n].lines
      <4>1. n = 0 \/ n \in 1..Len(f)
        BY <1>1
      <4> QED
        BY <1>2, <4>1 DEF IsContent
    <3> QED
      BY <3>1
  <2>2. lines = [n \in 0..Len(f) |-> IF n = 0 THEN <<>> ELSE lines[n - 1] \o f[n].lines]
    BY <2>1
  <2> HIDE DEF lines
  <2>3. lines[0] = <<>>
    BY <1>1, <2>2
  <2>4. ASSUME NEW n \in 1..Len(f) PROVE lines[n] = lines[n - 1] \o f[n].lines
    <3>1. n \in 0..Len(f) /\ n # 0
      BY <1>1
    <3> QED
      BY <2>2, <3>1
  <2> QED
    BY <2>3, <2>4 DEF IsContent
<1>4. Content(f) = lines[Len(f)]
  BY DEF Content
<1> HIDE DEF lines
<1>5. lines[Len(f)] = g[Len(f)]
  <2> DEFINE T == {n \in Nat : n <= Len(f) => lines[n] = g[n]}
  <2>1. 0 \in T
    BY <1>1, <1>2, <1>3 DEF IsContent
  <2>2. ASSUME NEW n \in Nat, n \in T PROVE n + 1 \in T
    <3> SUFFICES ASSUME n + 1 <= Len(f) PROVE lines[n + 1] = g[n + 1]
      OBVIOUS
    <3>1. n + 1 \in 1..Len(f) /\ (n + 1) - 1 = n
      BY <1>1
    <3>2. /\ lines[n + 1] = lines[n] \o f[n + 1].lines
          /\ g[n + 1] = g[n] \o f[n + 1].lines
      BY <1>2, <1>3, <3>1 DEF IsContent
    <3>3. lines[n] = g[n]
      BY <1>1, <2>2
    <3> QED
      BY <3>2, <3>3
  <2>3. Len(f) \in T
    <3> HIDE DEF T
    <3> QED
      BY <1>1, <2>1, <2>2, Induction
  <2> QED
    BY <1>1, <2>3
<1> QED
  BY <1>2, <1>4, <1>5

\* The lines of a file that grows by a member are its lines and those of the member.
LEMMA ContentAppend ==
  ASSUME NEW f \in Seq(Member), NEW m \in Member
  PROVE  /\ Content(f) \in Seq(Line) /\ Content(<<>>) = <<>>
         /\ Content(Append(f, m)) = Content(f) \o m.lines
<1>1. Content(f) \in Seq(Line)
  <2>1. PICK g \in [0..Len(f) -> Seq(Line)] : Content(f) = g[Len(f)]
    BY ContentExists
  <2> QED
    BY <2>1
<1>2. Content(<<>>) = <<>>
  <2>1. <<>> \in Seq(Member) /\ Len(<<>>) = 0
    OBVIOUS
  <2>2. PICK g : IsContent(g, <<>>) /\ Content(<<>>) = g[0]
    BY <2>1, ContentExists
  <2> QED
    BY <2>2 DEF IsContent
<1>3. Content(Append(f, m)) = Content(f) \o m.lines
  <2>1. PICK h : h = Append(f, m)
    OBVIOUS
  <2>2. /\ h \in Seq(Member) /\ Len(h) = Len(f) + 1 /\ h[Len(h)] = m /\ Len(f) \in Nat
        /\ \A k \in 1..Len(f) : h[k] = f[k]
    BY <2>1
  <2>3. PICK g \in [0..Len(f) -> Seq(Line)] : IsContent(g, f) /\ Content(f) = g[Len(f)]
    BY ContentExists
  <2>4. PICK e \in [0..Len(h) -> Seq(Line)] : IsContent(e, h) /\ Content(h) = e[Len(h)]
    BY <2>2, ContentExists
  <2> DEFINE S == {k \in Nat : k <= Len(f) => e[k] = g[k]}
  <2>5. 0 \in S
    BY <2>2, <2>3, <2>4 DEF IsContent
  <2>6. ASSUME NEW k \in Nat, k \in S PROVE k + 1 \in S
    <3> SUFFICES ASSUME k + 1 <= Len(f) PROVE e[k + 1] = g[k + 1]
      OBVIOUS
    <3>1. k + 1 \in 1..Len(f) /\ k + 1 \in 1..Len(h) /\ (k + 1) - 1 = k
      BY <2>2
    <3>2. /\ e[k + 1] = e[k] \o h[k + 1].lines
          /\ g[k + 1] = g[k] \o f[k + 1].lines
      BY <2>3, <2>4, <3>1 DEF IsContent
    <3>3. e[k] = g[k] /\ h[k + 1] = f[k + 1]
      BY <2>2, <2>6
    <3> QED
      BY <3>2, <3>3
  <2>7. Len(f) \in S
    <3> HIDE DEF S
    <3> QED
      BY <2>2, <2>5, <2>6, Induction
  <2>8. e[Len(h)] = e[Len(f)] \o m.lines
    <3>1. Len(h) \in 1..Len(h) /\ Len(h) - 1 = Len(f)
      BY <2>2
    <3>2. e[Len(h)] = e[Len(h) - 1] \o h[Len(h)].lines
      BY <2>4, <3>1 DEF IsContent
    <3> QED
      BY <2>2, <3>1, <3>2
  <2>9. e[Len(f)] = g[Len(f)]
    BY <2>2, <2>7
  <2> QED
    BY <2>1, <2>3, <2>4, <2>8, <2>9
<1> QED
  BY <1>1, <1>2, <1>3

\* The lines of a file are those of its first members and then those of the rest.
LEMMA ContentConcat ==
  ASSUME NEW f \in Seq(Member), NEW h \in Seq(Member)
  PROVE  Content(f \o h) = Content(f) \o Content(h)
<1> DEFINE T == {u \in Seq(Member) : Content(f \o u) = Content(f) \o Content(u)}
<1>1. <<>> \in T
  <2>1. Content(<<>>) = <<>> /\ Content(f) \in Seq(Line) /\ f \o <<>> = f
    <3>1. PICK m \in Member : TRUE
      <4>1. [lines |-> <<>>, packed |-> 1, whole |-> TRUE] \in Member
        BY SizesAssumption DEF Member
      <4> QED
        BY <4>1
    <3> QED
      BY <3>1, ContentAppend, ConcatEmptySeq
  <2> QED
    BY <2>1, ConcatEmptySeq, EmptySeq
<1>2. ASSUME NEW u \in Seq(Member), NEW m \in Member, u \in T
      PROVE  Append(u, m) \in T
  <2>1. f \o Append(u, m) = Append(f \o u, m) /\ f \o u \in Seq(Member)
    <3>1. /\ Append(u, m) = u \o <<m>> /\ f \o u \in Seq(Member)
          /\ Append(f \o u, m) = (f \o u) \o <<m>> /\ <<m>> \in Seq(Member)
      BY AppendIsConcat, ConcatProperties
    <3> QED
      BY <3>1, ConcatAssociative
  <2>2. /\ Content(Append(u, m)) = Content(u) \o m.lines /\ Content(u) \in Seq(Line)
        /\ Content(Append(f \o u, m)) = Content(f \o u) \o m.lines
        /\ Content(f) \in Seq(Line)
    BY <2>1, ContentAppend
  <2>3. Append(u, m) \in Seq(Member) /\ m.lines \in Seq(Line)
    BY AppendProperties DEF Member
  <2>4. Content(f \o u) = Content(f) \o Content(u)
    BY <1>2
  <2>5. (Content(f) \o Content(u)) \o m.lines = Content(f) \o (Content(u) \o m.lines)
    <3>1. PICK a, b, c : a = Content(f) /\ b = Content(u) /\ c = m.lines
      OBVIOUS
    <3>2. a \in Seq(Line) /\ b \in Seq(Line) /\ c \in Seq(Line)
      BY <2>2, <2>3, <3>1
    <3>3. (a \o b) \o c = a \o (b \o c)
      BY <3>2, ConcatAssociative, SMTT(40)
    <3> QED
      BY <3>1, <3>3
  <2>6. Content(f \o Append(u, m)) = Content(f) \o Content(Append(u, m))
    BY <2>1, <2>2, <2>4, <2>5
  <2> QED
    BY <2>3, <2>6
<1>3. h \in T
  <2> HIDE DEF T
  <2> QED
    BY <1>1, <1>2, SeqInduction
<1> QED
  BY <1>3

-----------------------------------------------------------------------------
(* What a sequence begins with, and the numbers of its lines.              *)

\* A sequence is what it begins with and the rest.
LEMMA Splits ==
  ASSUME NEW S, NEW s \in Seq(S), NEW k \in 0..Len(s)
  PROVE  /\ SubSeq(s, 1, k) \in Seq(S) /\ Len(SubSeq(s, 1, k)) = k
         /\ SubSeq(s, k + 1, Len(s)) \in Seq(S)
         /\ s = SubSeq(s, 1, k) \o SubSeq(s, k + 1, Len(s))
<1>1. Len(s) \in Nat /\ k \in Nat
  OBVIOUS
<1>2. /\ SubSeq(s, 1, k) \in Seq(S) /\ Len(SubSeq(s, 1, k)) = k
      /\ SubSeq(s, k + 1, Len(s)) \in Seq(S)
  BY <1>1
<1>3. SubSeq(s, 1, k) \o SubSeq(s, k + 1, Len(s)) = SubSeq(s, 1, Len(s))
  <2>1. 1 \in 1..(Len(s) + 1) /\ k \in (1 - 1)..Len(s) /\ Len(s) \in k..Len(s)
    BY <1>1
  <2> QED
    BY <2>1, ConcatAdjacentSubSeq
<1>4. SubSeq(s, 1, Len(s)) = s
  BY SubSeqFull
<1> QED
  BY <1>2, <1>3, <1>4

\* One sequence of lines begins another.
Begins(a, b) == a \in Seq(Line) /\ b \in Seq(Line) /\ \E r \in Seq(Line) : b = a \o r

\* What begins a sequence that begins another begins that one too.
LEMMA BeginsTrans ==
  ASSUME NEW a, NEW b, NEW c, Begins(a, b), Begins(b, c)
  PROVE  Begins(a, c)
<1>1. PICK r \in Seq(Line) : b = a \o r
  BY DEF Begins
<1>2. PICK q \in Seq(Line) : c = b \o q
  BY DEF Begins
<1>3. a \in Seq(Line) /\ c \in Seq(Line)
  BY DEF Begins
<1>4. c = a \o (r \o q) /\ r \o q \in Seq(Line)
  <2>1. (a \o r) \o q = a \o (r \o q)
    BY <1>3, ConcatAssociative
  <2>2. r \o q \in Seq(Line)
    BY ConcatProperties
  <2> QED
    BY <1>1, <1>2, <2>1, <2>2
<1> QED
  BY <1>3, <1>4 DEF Begins

\* The first lines begin a sequence of lines.
LEMMA PrefixBegins ==
  ASSUME NEW a \in Seq(Line), NEW k \in 0..Len(a)
  PROVE  Begins(SubSeq(a, 1, k), a)
<1>1. PICK p, q : p = SubSeq(a, 1, k) /\ q = SubSeq(a, k + 1, Len(a))
  OBVIOUS
<1>2. p \in Seq(Line) /\ q \in Seq(Line) /\ a = p \o q
  BY <1>1, Splits
<1>3. Begins(p, a)
  BY <1>2 DEF Begins
<1> QED
  BY <1>1, <1>3

\* What a sequence begins with has no more bytes.
LEMMA BeginsBytes ==
  ASSUME NEW a, NEW b, Begins(a, b)
  PROVE  Bytes(a) <= Bytes(b) /\ Bytes(a) \in Nat /\ Bytes(b) \in Nat
<1>1. PICK r \in Seq(Line) : b = a \o r
  BY DEF Begins
<1>2. a \in Seq(Entry) /\ b \in Seq(Entry) /\ r \in Seq(Entry)
  BY <1>1, LinesAreEntries DEF Begins
<1>3. Bytes(b) = Bytes(a) + Bytes(r) /\ Bytes(a) \in Nat /\ Bytes(r) \in Nat
  BY <1>1, <1>2, BytesConcat
<1> QED
  BY <1>3

\* The numbers of two sequences of lines.
LEMMA NumbersConcat ==
  ASSUME NEW s \in Seq(Entry), NEW t \in Seq(Entry)
  PROVE  /\ Numbers(s \o t) = Numbers(s) \cup Numbers(t)
         /\ Numbers(s) \subseteq Nat
<1>1. /\ DOMAIN s = 1..Len(s) /\ DOMAIN t = 1..Len(t) /\ Len(s) \in Nat /\ Len(t) \in Nat
      /\ DOMAIN (s \o t) = 1..(Len(s) + Len(t))
      /\ \A i \in 1..(Len(s) + Len(t)) :
           (s \o t)[i] = IF i <= Len(s) THEN s[i] ELSE t[i - Len(s)]
  <2>1. s \o t \in Seq(Entry) /\ Len(s \o t) = Len(s) + Len(t)
    BY ConcatProperties
  <2> QED
    BY <2>1, ConcatProperties, LenProperties
<1>2. ASSUME NEW i \in 1..(Len(s) + Len(t)) PROVE (s \o t)[i].no \in Numbers(s) \cup Numbers(t)
  <2>1. CASE i <= Len(s)
    <3>1. i \in DOMAIN s /\ (s \o t)[i] = s[i]
      BY <1>1, <2>1
    <3> QED
      BY <3>1 DEF Numbers
  <2>2. CASE ~(i <= Len(s))
    <3>1. i - Len(s) \in DOMAIN t /\ (s \o t)[i] = t[i - Len(s)]
      BY <1>1, <2>2
    <3> QED
      BY <3>1 DEF Numbers
  <2> QED
    BY <2>1, <2>2
<1>3. ASSUME NEW i \in DOMAIN s PROVE s[i].no \in Numbers(s \o t)
  <2>1. i \in DOMAIN (s \o t) /\ (s \o t)[i] = s[i]
    BY <1>1
  <2> QED
    BY <2>1 DEF Numbers
<1>4. ASSUME NEW i \in DOMAIN t PROVE t[i].no \in Numbers(s \o t)
  <2>1. /\ Len(s) + i \in DOMAIN (s \o t) /\ ~(Len(s) + i <= Len(s))
        /\ (Len(s) + i) - Len(s) = i /\ Len(s) + i \in 1..(Len(s) + Len(t))
    BY <1>1
  <2>2. (s \o t)[Len(s) + i] = t[i]
    BY <1>1, <2>1
  <2> QED
    BY <2>1, <2>2 DEF Numbers
<1>5. Numbers(s) \subseteq Nat
  <2> SUFFICES ASSUME NEW i \in DOMAIN s PROVE s[i].no \in Nat
    BY DEF Numbers
  <2>1. s[i] \in Entry
    BY <1>1, ElementOfSeq
  <2> QED
    BY <2>1 DEF Entry
<1>6. Numbers(s \o t) \subseteq Numbers(s) \cup Numbers(t)
  BY <1>1, <1>2 DEF Numbers
<1>7. Numbers(s) \subseteq Numbers(s \o t)
  BY <1>3 DEF Numbers
<1>8. Numbers(t) \subseteq Numbers(s \o t)
  BY <1>4 DEF Numbers
<1> QED
  BY <1>5, <1>6, <1>7, <1>8

\* What a sequence begins with has no other numbers.
LEMMA BeginsNumbers ==
  ASSUME NEW a, NEW b, Begins(a, b)
  PROVE  Numbers(a) \subseteq Numbers(b)
<1>1. PICK r \in Seq(Line) : b = a \o r
  BY DEF Begins
<1>2. a \in Seq(Entry) /\ r \in Seq(Entry)
  BY <1>1, LinesAreEntries DEF Begins
<1> QED
  BY <1>1, <1>2, NumbersConcat

-----------------------------------------------------------------------------
(* Files.                                                                  *)

\* Only the last member may be broken, and both limits of read_segment are kept.
FileOK(f) ==
  /\ f \in Seq(Member)
  /\ \A i \in 1..(Len(f) - 1) : f[i].whole
  /\ Packed(f) <= Segment + Overhead
  /\ Bytes(Content(f)) <= Segment

AllWhole(f) == \A i \in 1..Len(f) : f[i].whole

\* There are members to speak of.
LEMMA SomeMember == \E m \in Member : TRUE
<1>1. [lines |-> <<>>, packed |-> 1, whole |-> TRUE] \in Member
  BY SizesAssumption DEF Member
<1> QED
  BY <1>1

(* A file that begins a file begins its content, and packs no more.        *)
LEMMA FilePrefix ==
  ASSUME NEW f \in Seq(Member), NEW k \in 0..Len(f)
  PROVE  /\ SubSeq(f, 1, k) \in Seq(Member) /\ Len(SubSeq(f, 1, k)) = k
         /\ Packed(SubSeq(f, 1, k)) <= Packed(f)
         /\ Packed(SubSeq(f, 1, k)) \in Nat /\ Packed(f) \in Nat
         /\ Begins(Content(SubSeq(f, 1, k)), Content(f))
<1>1. PICK p, q : p = SubSeq(f, 1, k) /\ q = SubSeq(f, k + 1, Len(f))
  OBVIOUS
<1>2. p \in Seq(Member) /\ q \in Seq(Member) /\ f = p \o q /\ Len(p) = k
  BY <1>1, Splits
<1>3. Packed(f) = Packed(p) + Packed(q) /\ Packed(p) \in Nat /\ Packed(q) \in Nat
  BY <1>2, PackedConcat
<1>4. Content(f) = Content(p) \o Content(q)
  BY <1>2, ContentConcat
<1>5. Content(p) \in Seq(Line) /\ Content(q) \in Seq(Line) /\ Content(f) \in Seq(Line)
  BY <1>2, SomeMember, ContentAppend
<1>6. Begins(Content(p), Content(f))
  BY <1>4, <1>5 DEF Begins
<1>7. Packed(p) <= Packed(f) /\ Packed(f) \in Nat
  BY <1>3
<1> QED
  BY <1>1, <1>2, <1>3, <1>6, <1>7

\* Lines within the limit are not cut.
LEMMA CutWhole ==
  ASSUME NEW s \in Seq(Line), Bytes(s) <= Segment
  PROVE  Cut(s) = s
<1> DEFINE P(n) == /\ Bytes(SubSeq(s, 1, n)) <= Segment
                   /\ n < Len(s) => Bytes(SubSeq(s, 1, n + 1)) > Segment
<1>1. Len(s) \in Nat /\ SubSeq(s, 1, Len(s)) = s /\ Segment \in Nat
  BY SubSeqFull, SizesAssumption
<1>2. P(Len(s))
  <2>1. Bytes(SubSeq(s, 1, Len(s))) <= Segment
    BY <1>1
  <2>2. ~(Len(s) < Len(s))
    BY <1>1
  <2> QED
    BY <2>1, <2>2
<1>3. ASSUME NEW n \in 0..Len(s), P(n) PROVE n = Len(s)
  <2>0. Len(s) \in Nat
    BY <1>1
  <2> SUFFICES ASSUME n < Len(s) PROVE FALSE
    BY <2>0
  <2>1. n + 1 \in 0..Len(s)
    BY <1>1
  <2>2. /\ Bytes(SubSeq(s, 1, n + 1)) <= Bytes(s)
        /\ Bytes(s) \in Nat /\ Bytes(SubSeq(s, 1, n + 1)) \in Nat
    BY <2>1, PrefixBegins, BeginsBytes
  <2>3. Bytes(SubSeq(s, 1, n + 1)) > Segment
    BY <1>3
  <2> QED
    BY <1>1, <2>2, <2>3
<1>4. (CHOOSE n \in 0..Len(s) : P(n)) = Len(s)
  <2> HIDE DEF P
  <2>1. Len(s) \in 0..Len(s)
    BY <1>1
  <2> QED
    BY <1>2, <1>3, <2>1
<1> QED
  BY <1>1, <1>4 DEF Cut

\* Of a file that is in order everything is decoded.
LEMMA DecodedWhole ==
  ASSUME NEW f, FileOK(f)
  PROVE  Decoded(f) = Content(f)
<1> DEFINE Fits(n) == /\ \A i \in 1..(n - 1) : f[i].whole
                      /\ Packed(SubSeq(f, 1, n)) <= Segment + Overhead
           P(n) == Fits(n) /\ (n < Len(f) => ~Fits(n + 1))
<1>1. f \in Seq(Member) /\ Len(f) \in Nat /\ SubSeq(f, 1, Len(f)) = f
      /\ Segment \in Nat /\ Overhead \in Nat
  BY SubSeqFull, SizesAssumption DEF FileOK
<1>2. ASSUME NEW n \in 0..Len(f) PROVE Fits(n)
  <2>1. /\ Packed(SubSeq(f, 1, n)) <= Packed(f)
        /\ Packed(SubSeq(f, 1, n)) \in Nat /\ Packed(f) \in Nat
    BY <1>1, FilePrefix
  <2>2. \A i \in 1..(n - 1) : f[i].whole
    BY <1>1 DEF FileOK
  <2> QED
    BY <1>1, <2>1, <2>2 DEF FileOK
<1>3. P(Len(f)) /\ Len(f) \in 0..Len(f)
  BY <1>1, <1>2
<1>4. ASSUME NEW n \in 0..Len(f), P(n) PROVE n = Len(f)
  <2> HIDE DEF Fits
  <2>0. Len(f) \in Nat
    BY <1>1
  <2> SUFFICES ASSUME n < Len(f) PROVE FALSE
    BY <2>0
  <2>1. n + 1 \in 0..Len(f)
    BY <1>1
  <2>2. Fits(n + 1)
    BY <1>2, <2>1
  <2> QED
    BY <1>4, <2>2
<1>5. (CHOOSE n \in 0..Len(f) : P(n)) = Len(f)
  <2> HIDE DEF P
  <2> QED
    BY <1>3, <1>4
<1> QED
  BY <1>1, <1>5 DEF Decoded

(* A file with no broken member but its last, and within the limits, is     *)
(* read to its end, whether read_segment takes it for valid or cuts it.     *)
LEMMA FileRead ==
  ASSUME NEW f, FileOK(f)
  PROVE  ReadSegment(f) = Content(f) /\ Content(f) \in Seq(Line)
<1>1. Content(f) \in Seq(Line)
  BY SomeMember, ContentAppend DEF FileOK
<1>2. Cut(Content(f)) = Content(f)
  BY <1>1, CutWhole DEF FileOK
<1> QED
  BY <1>1, <1>2, DecodedWhole DEF ReadSegment

(* A batch that fits goes behind a file that is whole.                     *)
LEMMA AppendOK ==
  ASSUME NEW f, FileOK(f), AllWhole(f), NEW m \in Member,
         Packed(f) + m.packed <= Segment + Overhead,
         Bytes(Content(f)) + Bytes(m.lines) <= Segment
  PROVE  /\ FileOK(Append(f, m)) /\ Content(Append(f, m)) = Content(f) \o m.lines
         /\ Len(Append(f, m)) = Len(f) + 1
         /\ m.whole => AllWhole(Append(f, m))
         /\ Content(f) \in Seq(Line) /\ m.lines \in Seq(Line)
         /\ Bytes(Content(f) \o m.lines) = Bytes(Content(f)) + Bytes(m.lines)
<1>1. PICK g : g = Append(f, m)
  OBVIOUS
<1>2. f \in Seq(Member) /\ m.lines \in Seq(Line)
  BY DEF FileOK, Member
<1>3. /\ g \in Seq(Member) /\ Len(g) = Len(f) + 1 /\ g[Len(f) + 1] = m /\ Len(f) \in Nat
      /\ \A i \in 1..Len(f) : g[i] = f[i]
  BY <1>1, <1>2, AppendProperties, LenProperties
<1>4. /\ Packed(g) = Packed(f) + m.packed
      /\ Content(g) = Content(f) \o m.lines /\ Content(f) \in Seq(Line)
  BY <1>1, <1>2, PackedAppend, ContentAppend
<1>5. Bytes(Content(f) \o m.lines) = Bytes(Content(f)) + Bytes(m.lines)
  <2>1. Content(f) \in Seq(Entry) /\ m.lines \in Seq(Entry)
    BY <1>2, <1>4, LinesAreEntries
  <2> QED
    BY <2>1, BytesConcat
<1>6. \A i \in 1..(Len(g) - 1) : g[i].whole
  BY <1>3 DEF AllWhole
<1>7. m.whole => AllWhole(g)
  <2> SUFFICES ASSUME m.whole, NEW i \in 1..Len(g) PROVE g[i].whole
    BY DEF AllWhole
  <2>1. i = Len(f) + 1 \/ i \in 1..Len(f)
    BY <1>3
  <2> QED
    BY <1>3, <2>1 DEF AllWhole
<1>8. FileOK(g)
  BY <1>3, <1>4, <1>5, <1>6 DEF FileOK
<1> QED
  BY <1>1, <1>2, <1>3, <1>4, <1>5, <1>7, <1>8

\* A piece is a broken member with the first lines of the batch.
LEMMA PiecesTyped ==
  ASSUME NEW s \in Seq(Line), NEW m \in Pieces(s)
  PROVE  /\ m \in Member /\ m.packed = 1 /\ ~m.whole /\ Begins(m.lines, s)
<1>1. PICK n \in 0..Len(s) : m = [lines |-> SubSeq(s, 1, n), packed |-> 1, whole |-> FALSE]
  BY DEF Pieces
<1>2. SubSeq(s, 1, n) \in Seq(Line) /\ Begins(SubSeq(s, 1, n), s)
  BY PrefixBegins DEF Begins
<1>3. 1 \in 1..(Segment + Overhead)
  BY SizesAssumption
<1> QED
  BY <1>1, <1>2, <1>3 DEF Member

(* What a power loss leaves of a file begins it.                           *)
LEMMA SurvivesOK ==
  ASSUME NEW f, FileOK(f), NEW g \in Survives(f)
  PROVE  FileOK(g) /\ Begins(Content(g), Content(f))
<1>1. f \in Seq(Member) /\ Len(f) \in Nat /\ DOMAIN f = 1..Len(f)
      /\ Packed(f) \in Nat /\ Segment + Overhead \in Nat /\ Segment \in Nat
      /\ Packed(f) <= Segment + Overhead /\ Bytes(Content(f)) <= Segment
  BY SomeMember, PackedAppend, SizesAssumption, LenProperties DEF FileOK
<1>2. ASSUME NEW n \in 0..Len(f), g = SubSeq(f, 1, n)
      PROVE  FileOK(g) /\ Begins(Content(g), Content(f))
  <2>1. /\ g \in Seq(Member) /\ Len(g) = n /\ Packed(g) <= Packed(f) /\ Packed(g) \in Nat
        /\ Begins(Content(g), Content(f))
    BY <1>1, <1>2, FilePrefix
  <2>2. Bytes(Content(g)) <= Bytes(Content(f)) /\ Bytes(Content(g)) \in Nat
        /\ Bytes(Content(f)) \in Nat
    BY <2>1, BeginsBytes
  <2>3. \A i \in 1..(Len(g) - 1) : g[i] = f[i]
    BY <1>1, <1>2, <2>1
  <2> QED
    BY <1>1, <2>1, <2>2, <2>3 DEF FileOK
<1>3. ASSUME NEW n \in DOMAIN f, NEW piece \in Pieces(f[n].lines),
             g = Append(SubSeq(f, 1, n - 1), piece)
      PROVE  FileOK(g) /\ Begins(Content(g), Content(f))
  <2>1. PICK p, q : p = SubSeq(f, 1, n - 1) /\ q = SubSeq(f, 1, n)
    OBVIOUS
  <2>2. n \in 1..Len(f) /\ n - 1 \in 0..Len(f) /\ n \in 0..Len(f) /\ f[n] \in Member
    BY <1>1, ElementOfSeq
  <2>3. f[n].lines \in Seq(Line) /\ f[n].packed \in Nat /\ f[n].packed >= 1
    BY <1>1, <2>2, SizesAssumption DEF Member
  <2>4. piece \in Member /\ piece.packed = 1 /\ Begins(piece.lines, f[n].lines)
    BY <2>3, PiecesTyped
  <2>5. /\ p \in Seq(Member) /\ Len(p) = n - 1 /\ Packed(p) \in Nat
        /\ q \in Seq(Member) /\ Packed(q) <= Packed(f) /\ Packed(q) \in Nat
        /\ Begins(Content(q), Content(f))
    BY <1>1, <2>1, <2>2, FilePrefix
  <2>6. q = Append(p, f[n])
    BY <1>1, <2>1, <2>2
  <2>7. Packed(q) = Packed(p) + f[n].packed /\ Content(q) = Content(p) \o f[n].lines
        /\ Content(p) \in Seq(Line)
    BY <2>2, <2>5, <2>6, PackedAppend, ContentAppend
  <2>8. /\ g = Append(p, piece)
        /\ Packed(g) = Packed(p) + 1 /\ Content(g) = Content(p) \o piece.lines
    BY <1>3, <2>1, <2>4, <2>5, PackedAppend, ContentAppend
  <2>9. Begins(Content(g), Content(q))
    <3>1. PICK r \in Seq(Line) : f[n].lines = piece.lines \o r
      BY <2>4 DEF Begins
    <3>2. PICK a, b : a = Content(p) /\ b = piece.lines
      OBVIOUS
    <3>3. a \in Seq(Line) /\ b \in Seq(Line)
      BY <2>4, <2>7, <3>2 DEF Begins
    <3>4. a \o (b \o r) = (a \o b) \o r /\ a \o b \in Seq(Line) /\ (a \o b) \o r \in Seq(Line)
      BY <3>3, ConcatAssociative, ConcatProperties
    <3>5. Content(q) = Content(g) \o r /\ Content(g) \in Seq(Line) /\ Content(q) \in Seq(Line)
      BY <2>7, <2>8, <3>1, <3>2, <3>4
    <3> QED
      BY <3>5 DEF Begins
  <2>10. Begins(Content(g), Content(f))
    BY <2>5, <2>9, BeginsTrans
  <2>11. Bytes(Content(g)) <= Bytes(Content(f)) /\ Bytes(Content(g)) \in Nat
         /\ Bytes(Content(f)) \in Nat
    BY <2>10, BeginsBytes
  <2>12. Packed(g) <= Segment + Overhead
    BY <1>1, <2>3, <2>5, <2>7, <2>8, SMTT(40)
  <2>13. g \in Seq(Member) /\ \A i \in 1..(Len(g) - 1) : g[i].whole
    <3>1. g \in Seq(Member) /\ Len(g) = n /\ \A i \in 1..(n - 1) : g[i] = p[i]
      BY <2>2, <2>4, <2>5, <2>8, AppendProperties
    <3>2. \A i \in 1..(n - 1) : p[i] = f[i] /\ i \in 1..(Len(f) - 1)
      BY <1>1, <2>1, <2>2
    <3> QED
      BY <3>1, <3>2 DEF FileOK
  <2> QED
    BY <1>1, <2>10, <2>11, <2>12, <2>13 DEF FileOK
<1> QED
  BY <1>2, <1>3 DEF Survives

-----------------------------------------------------------------------------
(* Lines in memory.                                                        *)

(* record makes room for a line by dropping the oldest ones.               *)
LEMMA RecordedKeeps ==
  ASSUME NEW b, b.lines \in Seq(Line), b.bytes = Bytes(b.lines), b.bytes <= Segment,
         NEW line, line \in [no : 1..(MaxLegacy + MaxRecorded), bytes : Nat \ {0}]
  PROVE  \E d \in 0..Len(b.lines), short \in Line :
           /\ short.no = line.no
           /\ Recorded(b, line).lines = Append(SubSeq(b.lines, d + 1, Len(b.lines)), short)
           /\ Recorded(b, line).lines \in Seq(Line)
           /\ Recorded(b, line).bytes = Bytes(Recorded(b, line).lines)
           /\ Recorded(b, line).bytes <= Segment
<1> DEFINE short == [line EXCEPT !.bytes = Lesser(@, MaxLine)]
           all == b.bytes + short.bytes
           Room(n) == all - Bytes(SubSeq(b.lines, 1, n)) <= Segment
           P(n) == Room(n) /\ (n > 0 => ~Room(n - 1))
           drop == CHOOSE n \in 0..Len(b.lines) : P(n)
           kept == SubSeq(b.lines, drop + 1, Len(b.lines))
<1>1. short \in Line /\ short.no = line.no /\ short.bytes \in Nat /\ short.bytes <= Segment
  <2>1. MaxLine \in Nat \ {0} /\ Segment \in Nat \ {0} /\ MaxLine <= Segment
    BY SizesAssumption
  <2>2. short = [no |-> line.no, bytes |-> Lesser(line.bytes, MaxLine)]
    OBVIOUS
  <2>3. Lesser(line.bytes, MaxLine) \in 1..MaxLine
    BY <2>1 DEF Lesser
  <2> QED
    BY <2>1, <2>2, <2>3 DEF Line
<1> HIDE DEF short
<1>2. Len(b.lines) \in Nat /\ b.lines \in Seq(Entry) /\ Bytes(b.lines) \in Nat
      /\ SubSeq(b.lines, 1, Len(b.lines)) = b.lines /\ Segment \in Nat
  <2>1. b.lines \in Seq(Entry)
    BY LinesAreEntries
  <2> QED
    BY <2>1, BytesConcat, SubSeqFull, SizesAssumption
<1>3. \E n \in 0..Len(b.lines) : P(n)
  <2> HIDE DEF Room
  <2> DEFINE T == {n \in 0..Len(b.lines) : Room(n)}
  <2>1. Len(b.lines) \in T
    <3>1. all - Bytes(b.lines) <= Segment
      BY <1>1, <1>2
    <3>2. Room(Len(b.lines))
      BY <1>2, <3>1 DEF Room
    <3>3. Len(b.lines) \in 0..Len(b.lines)
      BY <1>2
    <3> QED
      BY <3>2, <3>3
  <2>2. PICK n \in T : \A m \in T : n <= m
    <3>1. T \in SUBSET Nat /\ T # {}
      BY <2>1
    <3> HIDE DEF T
    <3> QED
      BY <3>1, Least
  <2>3. n > 0 => ~Room(n - 1)
    <3> SUFFICES ASSUME n > 0, Room(n - 1) PROVE FALSE
      OBVIOUS
    <3>1. n - 1 \in 0..Len(b.lines)
      BY <1>2
    <3>2. n - 1 \in T
      BY <3>1
    <3>3. n <= n - 1 /\ n \in Nat
      BY <2>2, <3>2
    <3> QED
      BY <3>3
  <2> QED
    BY <2>2, <2>3
<1>4. drop \in 0..Len(b.lines) /\ P(drop)
  <2> HIDE DEF P
  <2> QED
    BY <1>3
<1>5. PICK d \in 0..Len(b.lines) : d = drop
  BY <1>4
<1>6. all - Bytes(SubSeq(b.lines, 1, d)) <= Segment
  BY <1>4, <1>5
<1> HIDE DEF P, Room, drop
<1>7. PICK p : p = SubSeq(b.lines, 1, d)
  OBVIOUS
<1>8. PICK k : k = SubSeq(b.lines, d + 1, Len(b.lines))
  OBVIOUS
<1>9. p \in Seq(Line) /\ k \in Seq(Line) /\ b.lines = p \o k
  <2>1. PICK s \in Seq(Line) : s = b.lines
    OBVIOUS
  <2>2. d \in 0..Len(s) /\ p = SubSeq(s, 1, d) /\ k = SubSeq(s, d + 1, Len(s))
    BY <1>7, <1>8, <2>1
  <2>3. p \in Seq(Line) /\ k \in Seq(Line) /\ s = p \o k
    BY <2>2, Splits
  <2> QED
    BY <2>1, <2>3
<1>10. Bytes(b.lines) = Bytes(p) + Bytes(k) /\ Bytes(p) \in Nat /\ Bytes(k) \in Nat
  <2>1. p \in Seq(Entry) /\ k \in Seq(Entry)
    BY <1>9, LinesAreEntries
  <2> QED
    BY <1>9, <2>1, BytesConcat
<1>11. Bytes(Append(k, short)) = Bytes(k) + short.bytes /\ Append(k, short) \in Seq(Line)
  <2>1. k \in Seq(Entry) /\ short \in Entry
    BY <1>1, <1>9, LinesAreEntries
  <2> QED
    BY <1>1, <1>9, <2>1, BytesAppend, AppendProperties
<1>12. Recorded(b, line) = [lines |-> Append(k, short), bytes |-> all - Bytes(p)]
  BY <1>5, <1>7, <1>8 DEF Recorded, short, drop, P, Room
<1>13. all - Bytes(p) = Bytes(Append(k, short)) /\ all - Bytes(p) <= Segment
  BY <1>1, <1>6, <1>7, <1>10, <1>11
<1>14. /\ Recorded(b, line).lines = Append(SubSeq(b.lines, d + 1, Len(b.lines)), short)
       /\ Recorded(b, line).lines \in Seq(Line)
       /\ Recorded(b, line).bytes = Bytes(Recorded(b, line).lines)
       /\ Recorded(b, line).bytes <= Segment
  <2> HIDE DEF all
  <2>1. /\ Recorded(b, line).lines = Append(k, short)
        /\ Recorded(b, line).bytes = all - Bytes(p)
    BY <1>12
  <2> QED
    BY <1>8, <1>11, <1>13, <2>1
<1> QED
  BY <1>1, <1>14

(* What migrate_legacy reads of the old log is its end.                    *)
LEMMA TailTyped ==
  ASSUME legacy \in Seq(Entry)
  PROVE  LegacyTail \in Seq(Entry) /\ Numbers(LegacyTail) \subseteq Numbers(legacy)
<1> DEFINE total == Bytes(legacy)
           skip == IF total > Segment THEN total - Segment ELSE 0
           P(i) == /\ Bytes(SubSeq(legacy, 1, i - 1)) > skip
                   /\ Bytes(SubSeq(legacy, 1, i - 2)) <= skip
           first == IF skip = 0 THEN 1 ELSE CHOOSE i \in 2..(Len(legacy) + 1) : P(i)
<1>1. /\ Len(legacy) \in Nat /\ total \in Nat /\ Segment \in Nat \ {0}
      /\ SubSeq(legacy, 1, Len(legacy)) = legacy
  BY BytesConcat, SubSeqFull, SizesAssumption
<1>2. first \in 1..(Len(legacy) + 1)
  <2>1. CASE skip = 0
    BY <1>1, <2>1
  <2>2. CASE skip # 0
    <3>1. skip \in Nat /\ skip < total
      BY <1>1, <2>2
    <3> DEFINE T == {i \in 2..(Len(legacy) + 1) : Bytes(SubSeq(legacy, 1, i - 1)) > skip}
    <3> HIDE DEF skip, total
    <3>2. legacy # <<>> /\ Bytes(<<>>) = 0
      <4>1. PICK e \in Entry : TRUE
        <5>1. [no |-> 0, bytes |-> 1] \in Entry
          BY DEF Entry
        <5> QED
          BY <5>1
      <4>2. Bytes(<<>>) = 0
        BY <4>1, BytesAppend
      <4> QED
        BY <3>1, <4>2 DEF total
    <3>3. Len(legacy) + 1 \in T
      <4>1. Len(legacy) \in Nat \ {0}
        BY <3>2, EmptySeq
      <4>2. (Len(legacy) + 1) - 1 = Len(legacy) /\ Len(legacy) + 1 \in 2..(Len(legacy) + 1)
        BY <4>1
      <4>3. Bytes(SubSeq(legacy, 1, (Len(legacy) + 1) - 1)) > skip
        BY <1>1, <3>1, <4>2 DEF total
      <4> QED
        BY <4>2, <4>3
    <3>4. PICK i \in T : \A j \in T : i <= j
      <4>1. T \in SUBSET Nat /\ T # {}
        BY <3>3
      <4> HIDE DEF T
      <4> QED
        BY <4>1, Least
    <3>5. Bytes(SubSeq(legacy, 1, i - 2)) <= skip
      <4>1. CASE i = 2
        <5>1. SubSeq(legacy, 1, i - 2) = <<>>
          BY <4>1
        <5>2. Bytes(SubSeq(legacy, 1, i - 2)) = 0
          BY <3>2, <5>1
        <5> QED
          BY <3>1, <5>2
      <4>2. CASE i # 2
        <5>1. i - 1 \in 2..(Len(legacy) + 1) /\ (i - 1) - 1 = i - 2 /\ i - 2 \in 0..Len(legacy)
              /\ ~(i <= i - 1)
          BY <1>1, <4>2
        <5>2. i - 1 \notin T
          BY <3>4, <5>1
        <5>3. ~(Bytes(SubSeq(legacy, 1, i - 2)) > skip)
          BY <5>1, <5>2
        <5>4. Bytes(SubSeq(legacy, 1, i - 2)) \in Nat
          <6>1. SubSeq(legacy, 1, i - 2) \in Seq(Entry)
            BY <5>1, Splits
          <6> QED
            BY <6>1, BytesConcat
        <5> QED
          BY <3>1, <5>3, <5>4
      <4> QED
        BY <4>1, <4>2
    <3>6. \E n \in 2..(Len(legacy) + 1) : P(n)
      BY <3>4, <3>5
    <3>7. (CHOOSE n \in 2..(Len(legacy) + 1) : P(n)) \in 2..(Len(legacy) + 1)
      <4> HIDE DEF P
      <4> QED
        BY <3>6
    <3>8. first \in 2..(Len(legacy) + 1)
      BY <2>2, <3>7
    <3> QED
      BY <1>1, <3>8
  <2> QED
    BY <2>1, <2>2
<1>3. LegacyTail = SubSeq(legacy, first, Len(legacy))
  BY DEF LegacyTail
<1>4. PICK d \in 0..Len(legacy) : first = d + 1
  <2> HIDE DEF first
  <2>1. first - 1 \in 0..Len(legacy) /\ first = (first - 1) + 1
    BY <1>1, <1>2
  <2> QED
    BY <2>1
<1> HIDE DEF first
<1>5. PICK p, q : p = SubSeq(legacy, 1, d) /\ q = SubSeq(legacy, d + 1, Len(legacy))
  OBVIOUS
<1>6. p \in Seq(Entry) /\ q \in Seq(Entry) /\ legacy = p \o q
  BY <1>5, Splits
<1>7. Numbers(q) \subseteq Numbers(legacy)
  BY <1>6, NumbersConcat
<1> QED
  BY <1>3, <1>4, <1>5, <1>6, <1>7

\* A line adds its own number.
LEMMA NumbersAppend ==
  ASSUME NEW s \in Seq(Entry), NEW e \in Entry
  PROVE  /\ Numbers(Append(s, e)) = Numbers(s) \cup {e.no}
         /\ Numbers(<<e>>) = {e.no} /\ Numbers(<<>>) = {}
<1>1. <<e>> \in Seq(Entry) /\ Append(s, e) = s \o <<e>>
  BY AppendIsConcat
<1>2. Numbers(<<e>>) = {e.no} /\ Numbers(<<>>) = {}
  BY DEF Numbers
<1> QED
  BY <1>1, <1>2, NumbersConcat

\* Buffers that record fills: their bytes are counted, and bounded.
Buffers(nos) ==
  {b \in [lines : Seq(Line), bytes : Nat] :
     b.bytes = Bytes(b.lines) /\ b.bytes <= Segment /\ Numbers(b.lines) \subseteq nos}

\* record keeps the count, the bound and the numbers.
LEMMA RecordedBuffer ==
  ASSUME NEW nos, NEW b \in Buffers(nos),
         NEW line \in [no : nos \cap 1..(MaxLegacy + MaxRecorded), bytes : Nat \ {0}]
  PROVE  Recorded(b, line) \in Buffers(nos)
<1>1. b.lines \in Seq(Line) /\ b.bytes = Bytes(b.lines) /\ b.bytes <= Segment
      /\ Numbers(b.lines) \subseteq nos
  BY DEF Buffers
<1>2. line \in [no : 1..(MaxLegacy + MaxRecorded), bytes : Nat \ {0}] /\ line.no \in nos
  OBVIOUS
<1>3. PICK d \in 0..Len(b.lines), short \in Line :
        /\ short.no = line.no
        /\ Recorded(b, line).lines = Append(SubSeq(b.lines, d + 1, Len(b.lines)), short)
        /\ Recorded(b, line).lines \in Seq(Line)
        /\ Recorded(b, line).bytes = Bytes(Recorded(b, line).lines)
        /\ Recorded(b, line).bytes <= Segment
  BY <1>1, <1>2, RecordedKeeps
<1>4. PICK p, k : p = SubSeq(b.lines, 1, d) /\ k = SubSeq(b.lines, d + 1, Len(b.lines))
  OBVIOUS
<1>5. p \in Seq(Entry) /\ k \in Seq(Entry) /\ b.lines = p \o k /\ short \in Entry
  <2>1. PICK s \in Seq(Entry) : s = b.lines
    BY <1>1, LinesAreEntries
  <2>2. p \in Seq(Entry) /\ k \in Seq(Entry) /\ s = p \o k
    BY <1>4, <2>1, Splits
  <2> QED
    BY <2>1, <2>2, LinesAreEntries
<1>6. Numbers(k) \subseteq Numbers(b.lines)
  BY <1>5, NumbersConcat
<1>7. Numbers(Recorded(b, line).lines) \subseteq nos
  <2>1. Numbers(Append(k, short)) = Numbers(k) \cup {short.no}
    BY <1>5, NumbersAppend
  <2>2. Recorded(b, line).lines = Append(k, short)
    BY <1>3, <1>4
  <2>3. short.no \in nos
    BY <1>2, <1>3
  <2>4. Numbers(k) \subseteq nos
    BY <1>1, <1>6
  <2> QED
    BY <2>1, <2>2, <2>3, <2>4
<1>8. Recorded(b, line) = [lines |-> Recorded(b, line).lines, bytes |-> Recorded(b, line).bytes]
  BY DEF Recorded
<1>9. Bytes(Recorded(b, line).lines) \in Nat
  <2>1. Recorded(b, line).lines \in Seq(Entry)
    BY <1>3, LinesAreEntries
  <2> QED
    BY <2>1, BytesConcat
<1>10. Recorded(b, line) \in [lines : Seq(Line), bytes : Nat]
  BY <1>3, <1>8, <1>9
<1> QED
  BY <1>3, <1>7, <1>10 DEF Buffers

(* migrate_legacy records lines of the old log only.                       *)
LEMMA RefilledKeeps ==
  ASSUME legacy \in Seq(Entry), Numbers(legacy) \subseteq 1..MaxLegacy,
         pending = <<>>, pendingBytes = 0
  PROVE  Refilled \in Buffers(Numbers(legacy))
<1> DEFINE V == Buffers(Numbers(legacy))
           tail == LegacyTail
           prefixed(n) == [tail[n] EXCEPT !.bytes = @ + Prefix]
           base == [lines |-> pending, bytes |-> pendingBytes]
           buffer[n \in 0..Len(tail)] ==
             IF n = 0 THEN base ELSE Recorded(buffer[n - 1], prefixed(n))
<1>1. tail \in Seq(Entry) /\ Len(tail) \in Nat /\ DOMAIN tail = 1..Len(tail)
      /\ Numbers(tail) \subseteq Numbers(legacy)
  BY TailTyped, LenProperties
<1>2. base \in V
  <2>1. PICK e \in Entry : TRUE
    <3>1. [no |-> 0, bytes |-> 1] \in Entry
      BY DEF Entry
    <3> QED
      BY <3>1
  <2>2. Bytes(<<>>) = 0 /\ Numbers(<<>>) = {}
    BY <2>1, BytesAppend, NumbersAppend
  <2>3. base \in [lines : Seq(Line), bytes : Nat]
    OBVIOUS
  <2> QED
    BY <2>2, <2>3, SizesAssumption DEF Buffers
<1>3. ASSUME NEW n \in 1..Len(tail)
      PROVE  prefixed(n) \in [no : Numbers(legacy) \cap 1..(MaxLegacy + MaxRecorded),
                              bytes : Nat \ {0}]
  <2>1. tail[n] \in Entry /\ tail[n].no \in Numbers(legacy)
    BY <1>1, ElementOfSeq DEF Numbers
  <2>2. tail[n].no \in 1..(MaxLegacy + MaxRecorded)
    BY <2>1, BoundsAssumption
  <2>3. tail[n].bytes + Prefix \in Nat \ {0}
    BY <2>1, SizesAssumption DEF Entry
  <2>4. prefixed(n) = [no |-> tail[n].no, bytes |-> tail[n].bytes + Prefix]
    <3>1. PICK e \in Entry : e = tail[n]
      BY <2>1
    <3>2. [e EXCEPT !.bytes = @ + Prefix] = [no |-> e.no, bytes |-> e.bytes + Prefix]
      BY DEF Entry
    <3> QED
      BY <3>1, <3>2
  <2> QED
    BY <2>1, <2>2, <2>3, <2>4
<1>4. ASSUME NEW n \in 1..Len(tail), NEW b \in V PROVE Recorded(b, prefixed(n)) \in V
  <2> HIDE DEF prefixed, tail
  <2> QED
    BY <1>3, RecordedBuffer
<1> HIDE DEF V, base, prefixed, tail
<1>5. PICK g \in [0..Len(tail) -> V] :
        g[0] = base /\ \A n \in 1..Len(tail) : g[n] = Recorded(g[n - 1], prefixed(n))
  <2>1. PICK step : step = [n \in 1..Len(tail) |-> [b \in V |-> Recorded(b, prefixed(n))]]
    OBVIOUS
  <2>2. step \in Steps(Len(tail), V)
    <3>1. ASSUME NEW n \in 1..Len(tail)
          PROVE  [b \in V |-> Recorded(b, prefixed(n))] \in [V -> V]
      BY <1>4
    <3> QED
      BY <2>1, <3>1 DEF Steps
  <2>3. PICK g : Recurs(g, Len(tail), V, base, step)
    BY <1>1, <1>2, <2>2, Recursion, Zenon
  <2>4. ASSUME NEW n \in 1..Len(tail) PROVE g[n] = Recorded(g[n - 1], prefixed(n))
    <3>1. n - 1 \in 0..Len(tail)
      BY <1>1
    <3>2. g[n - 1] \in V
      BY <2>3, <3>1 DEF Recurs
    <3> QED
      BY <2>1, <2>3, <3>2 DEF Recurs
  <2> QED
    BY <2>3, <2>4 DEF Recurs
<1>6. buffer = [n \in 0..Len(tail) |->
                  IF n = 0 THEN base ELSE Recorded(buffer[n - 1], prefixed(n))]
  <2>1. g = [n \in 0..Len(tail) |-> IF n = 0 THEN base ELSE Recorded(g[n - 1], prefixed(n))]
    <3>1. ASSUME NEW n \in 0..Len(tail)
          PROVE  g[n] = IF n = 0 THEN base ELSE Recorded(g[n - 1], prefixed(n))
      <4>1. n = 0 \/ n \in 1..Len(tail)
        BY <1>1
      <4> QED
        BY <1>5, <4>1
    <3> QED
      BY <3>1
  <2> QED
    BY <2>1
<1>7. Refilled = buffer[Len(tail)]
  BY DEF Refilled, tail, base, prefixed
<1> HIDE DEF buffer
<1>8. buffer[Len(tail)] \in V
  <2> DEFINE T == {n \in Nat : n <= Len(tail) => buffer[n] \in V}
  <2>1. 0 \in T
    BY <1>1, <1>2, <1>6
  <2>2. ASSUME NEW n \in Nat, n \in T PROVE n + 1 \in T
    <3> SUFFICES ASSUME n + 1 <= Len(tail) PROVE buffer[n + 1] \in V
      OBVIOUS
    <3>1. n + 1 \in 1..Len(tail) /\ (n + 1) - 1 = n /\ n + 1 \in 0..Len(tail) /\ n + 1 # 0
      BY <1>1
    <3>2. buffer[n + 1] = Recorded(buffer[n], prefixed(n + 1))
      BY <1>6, <3>1
    <3>3. buffer[n] \in V
      BY <1>1, <2>2
    <3> QED
      BY <1>4, <3>1, <3>2, <3>3
  <2>3. Len(tail) \in T
    <3> HIDE DEF T
    <3> QED
      BY <1>1, <2>1, <2>2, Induction
  <2> QED
    BY <1>1, <2>3
<1> QED
  BY <1>7, <1>8 DEF V

-----------------------------------------------------------------------------
(* The order of what is read.  Lines of an old release and of torn appends *)
(* are exempt.                                                             *)

Late(no, T) == no > MaxLegacy /\ no \notin T

Ordered(s, T) ==
  \A j \in 1..Len(s) : Late(s[j].no, T) => \A i \in 1..(j - 1) : s[i].no < s[j].no

Before(s, t, T) == \A m \in Numbers(s), n \in Numbers(t) : Late(n, T) => m < n

\* A sequence is in order when its two parts are, and the first comes before the second.
LEMMA OrderedConcat ==
  ASSUME NEW s \in Seq(Entry), NEW t \in Seq(Entry), NEW T
  PROVE  Ordered(s \o t, T) <=> (Ordered(s, T) /\ Ordered(t, T) /\ Before(s, t, T))
<1>1. PICK st : st = s \o t
  OBVIOUS
<1>2. /\ Len(s) \in Nat /\ Len(t) \in Nat /\ Len(st) = Len(s) + Len(t)
      /\ DOMAIN s = 1..Len(s) /\ DOMAIN t = 1..Len(t)
      /\ \A i \in 1..Len(s) : i \in 1..Len(st) /\ st[i] = s[i]
      /\ \A i \in 1..Len(t) : Len(s) + i \in 1..Len(st) /\ st[Len(s) + i] = t[i]
  <2>1. /\ Len(s \o t) = Len(s) + Len(t) /\ Len(s) \in Nat /\ Len(t) \in Nat
        /\ DOMAIN s = 1..Len(s) /\ DOMAIN t = 1..Len(t)
    BY ConcatProperties, LenProperties
  <2>2. \A i \in 1..(Len(s) + Len(t)) :
          (s \o t)[i] = IF i <= Len(s) THEN s[i] ELSE t[i - Len(s)]
    BY ConcatProperties
  <2>3. ASSUME NEW i \in 1..Len(s) PROVE i \in 1..Len(st) /\ st[i] = s[i]
    <3>1. i \in 1..(Len(s) + Len(t)) /\ i <= Len(s)
      BY <2>1
    <3> QED
      BY <1>1, <2>1, <2>2, <3>1
  <2>4. ASSUME NEW i \in 1..Len(t) PROVE Len(s) + i \in 1..Len(st) /\ st[Len(s) + i] = t[i]
    <3>1. /\ Len(s) + i \in 1..(Len(s) + Len(t)) /\ ~(Len(s) + i <= Len(s))
          /\ (Len(s) + i) - Len(s) = i
      BY <2>1
    <3> QED
      BY <1>1, <2>1, <2>2, <3>1
  <2> QED
    BY <1>1, <2>1, <2>3, <2>4
<1>3. ASSUME NEW j \in 1..Len(st)
      PROVE  j \in 1..Len(s) \/ \E i \in 1..Len(t) : j = Len(s) + i
  <2>1. CASE j <= Len(s)
    BY <1>2, <2>1
  <2>2. CASE ~(j <= Len(s))
    <3>1. j - Len(s) \in 1..Len(t) /\ j = Len(s) + (j - Len(s))
      BY <1>2, <2>2
    <3> QED
      BY <3>1
  <2> QED
    BY <2>1, <2>2
<1>4. ASSUME NEW i \in 1..Len(s) PROVE s[i].no \in Nat /\ s[i].no \in Numbers(s)
  <2>1. s[i] \in Entry
    BY ElementOfSeq
  <2>2. s[i].no \in Nat
    BY <2>1 DEF Entry
  <2>3. s[i].no \in Numbers(s)
    BY <1>2 DEF Numbers
  <2> QED
    BY <2>2, <2>3
<1>5. ASSUME NEW i \in 1..Len(t) PROVE t[i].no \in Nat /\ t[i].no \in Numbers(t)
  <2>1. t[i] \in Entry
    BY ElementOfSeq
  <2>2. t[i].no \in Nat
    BY <2>1 DEF Entry
  <2>3. t[i].no \in Numbers(t)
    BY <1>2 DEF Numbers
  <2> QED
    BY <2>2, <2>3
<1>6. ASSUME Ordered(st, T) PROVE Ordered(s, T)
  <2> SUFFICES ASSUME NEW j \in 1..Len(s), Late(s[j].no, T), NEW i \in 1..(j - 1)
               PROVE  s[i].no < s[j].no
    BY DEF Ordered
  <2>1. i \in 1..Len(s) /\ j \in 1..Len(st) /\ st[i] = s[i] /\ st[j] = s[j]
    BY <1>2
  <2> QED
    BY <1>6, <2>1 DEF Ordered
<1>7. ASSUME Ordered(st, T) PROVE Ordered(t, T)
  <2> SUFFICES ASSUME NEW j \in 1..Len(t), Late(t[j].no, T), NEW i \in 1..(j - 1)
               PROVE  t[i].no < t[j].no
    BY DEF Ordered
  <2>1. i \in 1..Len(t)
    BY <1>2
  <2>2. /\ Len(s) + j \in 1..Len(st) /\ st[Len(s) + i] = t[i] /\ st[Len(s) + j] = t[j]
    BY <1>2, <2>1
  <2>3. Len(s) + i \in 1..((Len(s) + j) - 1)
    BY <1>2, <2>1
  <2> QED
    BY <1>7, <2>2, <2>3 DEF Ordered
<1>8. ASSUME Ordered(st, T) PROVE Before(s, t, T)
  <2> SUFFICES ASSUME NEW i \in 1..Len(s), NEW j \in 1..Len(t), Late(t[j].no, T)
               PROVE  s[i].no < t[j].no
    BY <1>2 DEF Before, Numbers
  <2>1. /\ Len(s) + j \in 1..Len(st) /\ st[i] = s[i] /\ st[Len(s) + j] = t[j]
    BY <1>2
  <2>2. i \in 1..((Len(s) + j) - 1)
    BY <1>2
  <2> QED
    BY <1>8, <2>1, <2>2 DEF Ordered
<1>9. ASSUME Ordered(s, T), Ordered(t, T), Before(s, t, T) PROVE Ordered(st, T)
  <2> SUFFICES ASSUME NEW j \in 1..Len(st), Late(st[j].no, T), NEW i \in 1..(j - 1)
               PROVE  st[i].no < st[j].no
    BY DEF Ordered
  <2>0. i \in 1..Len(st)
    BY <1>2
  <2>1. CASE j \in 1..Len(s)
    <3>1. i \in 1..Len(s) /\ st[i] = s[i] /\ st[j] = s[j]
      BY <1>2, <2>1
    <3> QED
      BY <1>9, <2>1, <3>1 DEF Ordered
  <2>2. ASSUME NEW k \in 1..Len(t), j = Len(s) + k PROVE st[i].no < st[j].no
    <3>1. st[j] = t[k]
      BY <1>2, <2>2
    <3>2. CASE i \in 1..Len(s)
      <4>1. st[i] = s[i]
        BY <1>2, <3>2
      <4> QED
        BY <1>4, <1>5, <1>9, <3>1, <3>2, <4>1 DEF Before
    <3>3. ASSUME NEW h \in 1..Len(t), i = Len(s) + h PROVE st[i].no < st[j].no
      <4>1. st[i] = t[h] /\ h \in 1..(k - 1)
        BY <1>2, <2>2, <3>3
      <4> QED
        BY <1>9, <3>1, <4>1 DEF Ordered
    <3> QED
      BY <1>3, <2>0, <3>2, <3>3
  <2> QED
    BY <1>3, <2>1, <2>2
<1> QED
  BY <1>1, <1>6, <1>7, <1>8, <1>9

\* Nothing is in order.
LEMMA OrderedEmpty ==
  ASSUME NEW T
  PROVE  /\ Ordered(<<>>, T)
         /\ \A s : Before(<<>>, s, T) /\ Before(s, <<>>, T)
<1>1. Len(<<>>) = 0 /\ Numbers(<<>>) = {}
  BY DEF Numbers
<1> QED
  BY <1>1 DEF Ordered, Before

\* What a sequence begins with keeps its order.
LEMMA OrderedBegins ==
  ASSUME NEW a, NEW b, Begins(a, b), NEW T, Ordered(b, T)
  PROVE  Ordered(a, T)
<1>1. PICK r \in Seq(Line) : b = a \o r
  BY DEF Begins
<1>2. a \in Seq(Entry) /\ r \in Seq(Entry)
  BY <1>1, LinesAreEntries DEF Begins
<1>3. Ordered(a \o r, T)
  BY <1>1
<1> QED
  BY <1>2, <1>3, OrderedConcat

\* The more lines are exempt, the less is asked of the order.
LEMMA OrderedMore ==
  ASSUME NEW T, NEW U, T \subseteq U
  PROVE  /\ \A s : Ordered(s, T) => Ordered(s, U)
         /\ \A s, t : Before(s, t, T) => Before(s, t, U)
BY DEF Ordered, Before, Late

\* Lines of an old release, and torn ones, may be anywhere.
LEMMA OrderedExempt ==
  ASSUME NEW s \in Seq(Entry), NEW T, \A n \in Numbers(s) : ~Late(n, T)
  PROVE  Ordered(s, T) /\ \A t : Before(t, s, T)
<1>1. DOMAIN s = 1..Len(s)
  BY LenProperties
<1>2. ASSUME NEW i \in 1..Len(s) PROVE s[i].no \in Numbers(s)
  BY <1>1 DEF Numbers
<1> QED
  BY <1>2 DEF Ordered, Before

\* A line with a number beyond the others goes behind them.
LEMMA OrderedAppend ==
  ASSUME NEW s \in Seq(Entry), NEW e \in Entry, NEW T, Ordered(s, T),
         \A n \in Numbers(s) : n < e.no
  PROVE  Ordered(Append(s, e), T)
<1>1. PICK u : u = <<e>>
  OBVIOUS
<1>2. u \in Seq(Entry) /\ Append(s, e) = s \o u
  BY <1>1, AppendIsConcat
<1>3. Ordered(u, T)
  <2>1. Len(u) = 1
    BY <1>1
  <2> QED
    BY <2>1 DEF Ordered
<1>4. Before(s, u, T)
  <2>1. Numbers(u) = {e.no}
    BY <1>1, NumbersAppend
  <2> QED
    BY <2>1 DEF Before
<1>5. Ordered(s \o u, T)
  BY <1>2, <1>3, <1>4, OrderedConcat
<1> QED
  BY <1>2, <1>5

\* The two segments and the lines in memory, in the order they are read.
InOrder(a, b, c, T) ==
  /\ Ordered(a, T) /\ Ordered(b, T) /\ Ordered(c, T)
  /\ Before(a, b, T) /\ Before(a, c, T) /\ Before(b, c, T)

\* What is in order is read in order.
LEMMA InOrderRead ==
  ASSUME NEW a \in Seq(Line), NEW b \in Seq(Line), NEW c \in Seq(Line), NEW T,
         InOrder(a, b, c, T)
  PROVE  Ordered(a \o b \o c, T)
<1>1. a \in Seq(Entry) /\ b \in Seq(Entry) /\ c \in Seq(Entry)
  BY LinesAreEntries
<1>2. PICK ab : ab = a \o b
  OBVIOUS
<1>3. ab \in Seq(Entry) /\ Ordered(ab, T) /\ Numbers(ab) = Numbers(a) \cup Numbers(b)
  BY <1>1, <1>2, ConcatProperties, OrderedConcat, NumbersConcat DEF InOrder
<1>4. Before(ab, c, T)
  BY <1>3 DEF Before, InOrder
<1>5. Ordered(ab \o c, T)
  BY <1>1, <1>3, <1>4, OrderedConcat DEF InOrder
<1> QED
  BY <1>2, <1>5

\* Files may lose what they end with.
LEMMA InOrderShorter ==
  ASSUME NEW a, NEW b, NEW c, NEW T, InOrder(a, b, c, T),
         NEW x, NEW y, Begins(x, a), Begins(y, b)
  PROVE  InOrder(x, y, <<>>, T)
<1>1. Ordered(x, T) /\ Ordered(y, T)
  BY OrderedBegins DEF InOrder
<1>2. Numbers(x) \subseteq Numbers(a) /\ Numbers(y) \subseteq Numbers(b)
  BY BeginsNumbers
<1>3. Before(x, y, T)
  BY <1>2 DEF Before, InOrder
<1> QED
  BY <1>1, <1>3, OrderedEmpty DEF InOrder

\* A batch, or a piece of it, goes behind the active segment.
LEMMA InOrderFlushed ==
  ASSUME NEW a, NEW b \in Seq(Line), NEW c, NEW T, InOrder(a, b, c, T), NEW p, Begins(p, c)
  PROVE  /\ InOrder(a, b \o p, <<>>, T)
         /\ InOrder(a, b \o p, c, T \cup Numbers(p))
<1>1. Numbers(p) \subseteq Numbers(c)
  BY BeginsNumbers
<1>2. PICK r \in Seq(Line) : c = p \o r
  BY DEF Begins
<1>3. b \in Seq(Entry) /\ p \in Seq(Entry) /\ r \in Seq(Entry)
  BY LinesAreEntries DEF Begins
<1>4. Numbers(b \o p) = Numbers(b) \cup Numbers(p)
  BY <1>3, NumbersConcat
<1>5. Ordered(p, T) /\ Before(b, p, T) /\ Before(a, p, T)
  BY <1>1, OrderedBegins DEF InOrder, Before
<1>6. Ordered(b \o p, T)
  BY <1>3, <1>5, OrderedConcat DEF InOrder
<1>7. Before(a, b \o p, T)
  BY <1>4, <1>5 DEF Before, InOrder
<1>8. InOrder(a, b \o p, <<>>, T)
  BY <1>6, <1>7, OrderedEmpty DEF InOrder
<1>9. PICK U : U = T \cup Numbers(p)
  OBVIOUS
<1>10. T \subseteq U
  BY <1>9
<1>11. Before(p, c, U)
  <2>1. Before(p, r, T)
    <3>1. Ordered(p \o r, T)
      BY <1>2 DEF InOrder
    <3> QED
      BY <1>3, <3>1, OrderedConcat
  <2>2. Numbers(c) = Numbers(p) \cup Numbers(r)
    BY <1>2, <1>3, NumbersConcat
  <2> QED
    BY <1>9, <2>1, <2>2 DEF Before, Late
<1>12. Before(b, c, U) /\ Before(a, c, U) /\ Ordered(c, U) /\ Ordered(a, U)
  BY <1>10, OrderedMore DEF InOrder
<1>13. Before(b \o p, c, U)
  BY <1>4, <1>11, <1>12 DEF Before
<1>14. Ordered(b \o p, U) /\ Before(a, b \o p, U)
  BY <1>6, <1>7, <1>10, OrderedMore
<1>15. InOrder(a, b \o p, c, U)
  BY <1>12, <1>13, <1>14 DEF InOrder
<1> QED
  BY <1>8, <1>9, <1>15

-----------------------------------------------------------------------------
(* The inductive invariant.                                                *)

FilesInv ==
  /\ FileOK(active)
  /\ FileOK(previous)
  /\ legacy \in Seq(Entry)
  /\ Numbers(legacy) \subseteq 1..MaxLegacy

BufferInv ==
  /\ pending \in Seq(Line)
  /\ pendingBytes = Bytes(pending)
  /\ pendingBytes <= Segment
  /\ pc \in {"new", "migrate"} => pending = <<>>

\* active_bytes bounds what the active segment holds; one that ends in a broken batch
\* counts as full.
CountInv ==
  /\ activeBytes \in 0..Segment
  /\ pc # "new" => /\ Bytes(Content(active)) <= activeBytes
                   /\ AllWhole(active) \/ activeBytes = Segment

\* What append finds after the file has been measured, and perhaps rotated.
AppendInv ==
  pc = "append" =>
    /\ activeSize = Len(active)
    /\ AllWhole(active)
    /\ packed \in 1..(Segment + Overhead)
    /\ Packed(active) + packed <= Segment + Overhead
    /\ activeBytes + pendingBytes <= Segment

Held ==
  UNION {Numbers(Content(previous)), Numbers(Content(active)), Numbers(pending), Numbers(legacy)}

NumbersInv ==
  /\ recorded \in MaxLegacy..(MaxLegacy + MaxRecorded)
  /\ cleared \in 0..recorded
  /\ Held \subseteq (cleared + 1)..recorded

OrderInv == InOrder(Content(previous), Content(active), pending, torn)

LogInv == FilesInv /\ BufferInv /\ CountInv /\ AppendInv /\ NumbersInv /\ OrderInv

\* The empty file is in order and holds nothing.
LEMMA EmptyFile ==
  /\ FileOK(<<>>) /\ AllWhole(<<>>) /\ Content(<<>>) = <<>> /\ Packed(<<>>) = 0
  /\ Bytes(<<>>) = 0 /\ Numbers(<<>>) = {}
<1>1. PICK m \in Member : TRUE
  BY SomeMember
<1>2. <<>> \in Seq(Member) /\ Len(<<>>) = 0 /\ Numbers(<<>>) = {}
  BY DEF Numbers
<1>3. Content(<<>>) = <<>> /\ Packed(<<>>) = 0
  BY <1>1, <1>2, ContentAppend, PackedAppend
<1>4. Bytes(<<>>) = 0
  <2>1. PICK e \in Entry : TRUE
    <3>1. [no |-> 0, bytes |-> 1] \in Entry
      BY DEF Entry
    <3> QED
      BY <3>1
  <2>2. <<>> \in Seq(Entry)
    OBVIOUS
  <2> QED
    BY <2>1, <2>2, BytesAppend
<1>5. Segment \in Nat /\ Overhead \in Nat
  BY SizesAssumption
<1> QED
  BY <1>2, <1>3, <1>4, <1>5 DEF FileOK, AllWhole

\* What a file in order holds is a sequence of lines.
LEMMA FileTyped ==
  ASSUME NEW f, FileOK(f)
  PROVE  /\ Content(f) \in Seq(Line) /\ Packed(f) \in Nat /\ Bytes(Content(f)) \in Nat
         /\ f \in Seq(Member) /\ Len(f) \in Nat
<1>1. f \in Seq(Member)
  BY DEF FileOK
<1>2. Content(f) \in Seq(Line) /\ Packed(f) \in Nat
  BY <1>1, SomeMember, ContentAppend, PackedAppend
<1>3. Content(f) \in Seq(Entry)
  BY <1>2, LinesAreEntries
<1> QED
  BY <1>1, <1>2, <1>3, BytesConcat

\* A whole segment is valid, and one that is not was broken in its last batch.
LEMMA ValidWhole ==
  ASSUME NEW f, FileOK(f)
  PROVE  Valid(f) <=> AllWhole(f)
<1>1. DOMAIN f = 1..Len(f)
  BY LenProperties DEF FileOK
<1> QED
  BY <1>1 DEF FileOK, Valid, AllWhole

\* A sequence begins with nothing and with itself.
LEMMA BeginsSelf ==
  ASSUME NEW s \in Seq(Line)
  PROVE  Begins(s, s) /\ Begins(<<>>, s)
<1>1. <<>> \in Seq(Line) /\ s = s \o <<>> /\ s = <<>> \o s
  BY ConcatEmptySeq
<1> QED
  BY <1>1 DEF Begins

\* The types the invariant gives.
LEMMA LogFacts ==
  ASSUME LogInv
  PROVE  /\ Content(active) \in Seq(Line) /\ Content(previous) \in Seq(Line)
         /\ Packed(active) \in Nat /\ Bytes(Content(active)) \in Nat
         /\ active \in Seq(Member) /\ Len(active) \in Nat
         /\ pendingBytes \in Nat /\ pending \in Seq(Entry)
         /\ pending # <<>> => pendingBytes > 0
         /\ activeBytes \in Nat /\ recorded \in Nat /\ cleared \in Nat
         /\ Segment \in Nat \ {0} /\ Overhead \in Nat \ {0}
         /\ MaxLegacy \in Nat /\ MaxRecorded \in Nat
<1>1. pending \in Seq(Entry)
  BY LinesAreEntries DEF LogInv, BufferInv
<1>2. PICK e \in Entry : TRUE
  <2>1. [no |-> 0, bytes |-> 1] \in Entry
    BY DEF Entry
  <2> QED
    BY <2>1
<1>3. pendingBytes \in Nat /\ (pending # <<>> => pendingBytes > 0)
  <2>1. Bytes(pending) \in Nat /\ (pending # <<>> => Bytes(pending) > 0)
    BY <1>1, <1>2, BytesAppend
  <2> QED
    BY <2>1 DEF LogInv, BufferInv
<1>4. Segment \in Nat \ {0} /\ Overhead \in Nat \ {0} /\ MaxLegacy \in Nat /\ MaxRecorded \in Nat
  BY SizesAssumption, BoundsAssumption
<1>5. recorded \in Nat /\ cleared \in Nat
  BY <1>4 DEF LogInv, NumbersInv
<1>6. activeBytes \in Nat
  BY <1>4 DEF LogInv, CountInv
<1> QED
  BY <1>1, <1>3, <1>4, <1>5, <1>6, FileTyped DEF LogInv, FilesInv

\* What is written of the log, and what waits to be, stays as it is.
LEMMA Frame ==
  ASSUME LogInv, UNCHANGED <<disk, pending, pendingBytes, ghosts>>
  PROVE  /\ FilesInv' /\ NumbersInv' /\ OrderInv'
         /\ (pc' \in {"new", "migrate"} => pending = <<>>) => BufferInv'
<1>1. /\ active' = active /\ previous' = previous /\ legacy' = legacy /\ pending' = pending
      /\ pendingBytes' = pendingBytes /\ recorded' = recorded /\ cleared' = cleared
      /\ torn' = torn
  BY DEF disk, ghosts
<1>2. FilesInv'
  BY <1>1 DEF LogInv, FilesInv
<1>3. NumbersInv'
  BY <1>1 DEF LogInv, NumbersInv, Held
<1>4. OrderInv'
  BY <1>1 DEF LogInv, OrderInv
<1>5. (pc' \in {"new", "migrate"} => pending = <<>>) => BufferInv'
  BY <1>1 DEF LogInv, BufferInv
<1> QED
  BY <1>2, <1>3, <1>4, <1>5

\* The counter bounds what the active segment holds, when nothing of it changes.
LEMMA MeasuredCounts ==
  ASSUME LogInv, pc # "new"
  PROVE  /\ Measured \in 0..Segment /\ Bytes(Content(active)) <= Measured
         /\ AllWhole(active) \/ Measured = Segment
<1>1. CASE active = <<>>
  BY <1>1, LogFacts, EmptyFile DEF Measured
<1>2. CASE active # <<>>
  BY <1>2 DEF Measured, LogInv, CountInv
<1> QED
  BY <1>1, <1>2

\* A first start finds no segments and only lines of an old release.
LEMMA InitKeeps == Init => LogInv
<1> SUFFICES ASSUME Init PROVE LogInv
  OBVIOUS
<1>1. MaxLegacy \in Nat /\ MaxRecorded \in Nat /\ Segment \in Nat /\ Overhead \in Nat
  BY SizesAssumption, BoundsAssumption
<1>2. PICK n \in 0..MaxLegacy :
        \E sizes \in [1..n -> {1, Segment + 1}] :
          legacy = [i \in 1..n |-> [no |-> i, bytes |-> sizes[i]]]
  BY DEF Init
<1>20. PICK sizes \in [1..n -> {1, Segment + 1}] :
        legacy = [i \in 1..n |-> [no |-> i, bytes |-> sizes[i]]]
  BY <1>2
<1>3. legacy \in Seq(Entry) /\ DOMAIN legacy = 1..n
  <2>1. n \in Nat /\ \A i \in 1..n : [no |-> i, bytes |-> sizes[i]] \in Entry
    BY <1>1 DEF Entry
  <2>2. legacy \in [1..n -> Entry]
    BY <1>20, <2>1
  <2> QED
    BY <1>20, <2>1, <2>2, SeqDef
<1>4. Numbers(legacy) \subseteq 1..MaxLegacy
  <2> SUFFICES ASSUME NEW i \in 1..n PROVE legacy[i].no \in 1..MaxLegacy
    BY <1>3 DEF Numbers
  <2> QED
    BY <1>1, <1>20
<1>5. FilesInv
  BY <1>3, <1>4, EmptyFile DEF FilesInv, Init
<1>6. BufferInv
  BY <1>1, EmptyFile DEF BufferInv, Init
<1>7. CountInv
  BY <1>1 DEF CountInv, Init
<1>8. AppendInv
  BY DEF AppendInv, Init
<1>9. NumbersInv
  <2>1. recorded = MaxLegacy /\ cleared = 0 /\ Held = Numbers(legacy)
    BY EmptyFile DEF Held, Init
  <2> QED
    BY <1>1, <1>4, <2>1 DEF NumbersInv
<1>10. OrderInv
  BY EmptyFile, OrderedEmpty DEF OrderInv, InOrder, Init
<1> QED
  BY <1>5, <1>6, <1>7, <1>8, <1>9, <1>10 DEF LogInv

\* A new backend counts the bytes of a whole segment and takes a broken one for full.
LEMMA NewKeeps ==
  ASSUME LogInv, New
  PROVE  LogInv'
<1>1. FilesInv' /\ NumbersInv' /\ OrderInv' /\ BufferInv'
  BY Frame DEF New, LogInv, BufferInv
<1>2. active' = active /\ pc' = "migrate"
  BY DEF New, disk
<1>3. CountInv'
  <2>1. Bytes(Content(active)) \in 0..Segment
    BY LogFacts DEF LogInv, FilesInv, FileOK
  <2>2. activeBytes' = IF AllWhole(active) THEN Bytes(Content(active)) ELSE Segment
    BY ValidWhole, FileRead DEF New, LogInv, FilesInv
  <2>3. Bytes(Content(active)) <= activeBytes' /\ activeBytes' \in 0..Segment
        /\ (AllWhole(active) \/ activeBytes' = Segment)
    BY <2>1, <2>2, LogFacts
  <2> QED
    BY <1>2, <2>3 DEF CountInv
<1>4. AppendInv'
  BY <1>2 DEF AppendInv
<1> QED
  BY <1>1, <1>3, <1>4 DEF LogInv

\* An operation that fails, or has nothing to do, before it writes anything.
LEMMA ReturnKeeps ==
  ASSUME LogInv, pc # "new", pc' \in {"idle", "remove"},
         UNCHANGED <<disk, pending, pendingBytes, ghosts>>,
         activeBytes' = activeBytes \/ activeBytes' = Measured
  PROVE  LogInv'
<1>1. FilesInv' /\ NumbersInv' /\ OrderInv' /\ BufferInv'
  BY Frame
<1>2. active' = active
  BY DEF disk
<1>3. CountInv'
  <2>1. /\ Bytes(Content(active)) <= activeBytes' /\ activeBytes' \in 0..Segment
        /\ (AllWhole(active) \/ activeBytes' = Segment)
    BY MeasuredCounts DEF LogInv, CountInv
  <2> QED
    BY <1>2, <2>1 DEF CountInv
<1>4. AppendInv'
  BY DEF AppendInv
<1> QED
  BY <1>1, <1>3, <1>4 DEF LogInv

\* The four ways an operation ends without writing.
LEMMA FailuresKeep ==
  ASSUME LogInv, NothingToMigrate \/ MigrationFails \/ MeasureFails \/ RotateFails
  PROVE  LogInv'
<1>1. CASE NothingToMigrate
  BY <1>1, ReturnKeeps DEF NothingToMigrate, memory
<1>2. CASE MigrationFails
  BY <1>2, ReturnKeeps DEF MigrationFails, memory
<1>3. CASE MeasureFails
  BY <1>3, ReturnKeeps DEF MeasureFails, Flushing, Return, memory
<1>4. CASE RotateFails
  BY <1>4, ReturnKeeps DEF RotateFails, Flushing, Return
<1> QED
  BY <1>1, <1>2, <1>3, <1>4

\* A batch, compressed, is never empty and never more than a segment takes.
LEMMA SizesBounded ==
  ASSUME LogInv, NEW size \in PackedSizes(pending)
  PROVE  size \in 1..(Segment + Overhead)
<1>1. size = 1 \/ size = pendingBytes + Overhead
  BY DEF PackedSizes, LogInv, BufferInv
<1>2. pendingBytes <= Segment
  BY DEF LogInv, BufferInv
<1> QED
  BY <1>1, <1>2, LogFacts, SMTT(40)

\* A batch that fits is measured against a segment that must be whole: a broken one
\* counts as full.
LEMMA FlushInPlaceKeeps ==
  ASSUME LogInv, FlushInPlace
  PROVE  LogInv'
<1>1. /\ active' = active /\ pc' = "append" /\ activeBytes' = Measured
      /\ activeSize' = Len(active) /\ pendingBytes' = pendingBytes
      /\ pc # "new" /\ pending # <<>>
  BY DEF FlushInPlace, Flushing, disk
<1>2. PICK size \in PackedSizes(pending) : ~Full(size) /\ packed' = size
  BY DEF FlushInPlace
<1>3. FilesInv' /\ NumbersInv' /\ OrderInv' /\ BufferInv'
  BY <1>1, Frame DEF FlushInPlace
<1>4. Measured \in 0..Segment /\ Bytes(Content(active)) <= Measured
      /\ (AllWhole(active) \/ Measured = Segment)
  BY <1>1, MeasuredCounts
<1>5. CountInv'
  BY <1>1, <1>4 DEF CountInv
<1>6. size \in 1..(Segment + Overhead)
  BY <1>2, SizesBounded
<1>7. Packed(active) + size <= Segment + Overhead /\ Measured + pendingBytes <= Segment
  BY <1>2, <1>4, <1>6, LogFacts, SMTT(40) DEF Full
<1>8. AllWhole(active)
  BY <1>1, <1>4, <1>7, LogFacts, SMTT(40)
<1>9. AppendInv'
  BY <1>1, <1>2, <1>6, <1>7, <1>8 DEF AppendInv
<1> QED
  BY <1>3, <1>5, <1>9 DEF LogInv

\* A full segment becomes the previous one, and the batch fits the empty one.
LEMMA RotateKeeps ==
  ASSUME LogInv, Rotate
  PROVE  LogInv'
<1>1. /\ active' = <<>> /\ previous' = active /\ legacy' = legacy /\ pc' = "append"
      /\ activeBytes' = 0 /\ activeSize' = 0 /\ pendingBytes' = pendingBytes
      /\ pending' = pending /\ recorded' = recorded /\ cleared' = cleared /\ torn' = torn
  BY DEF Rotate, ghosts
<1>2. PICK size \in PackedSizes(pending) : packed' = size
  BY DEF Rotate
<1>3. FilesInv'
  BY <1>1, EmptyFile DEF LogInv, FilesInv
<1>4. BufferInv'
  BY <1>1 DEF LogInv, BufferInv
<1>5. CountInv'
  BY <1>1, EmptyFile, LogFacts DEF CountInv
<1>6. AppendInv'
  <2>1. size \in 1..(Segment + Overhead)
    BY <1>2, SizesBounded
  <2>2. pendingBytes <= Segment
    BY DEF LogInv, BufferInv
  <2>3. 0 + size <= Segment + Overhead /\ 0 + pendingBytes <= Segment
    BY <2>1, <2>2, LogFacts
  <2>4. Len(<<>>) = 0
    OBVIOUS
  <2> QED
    BY <1>1, <1>2, <2>1, <2>3, <2>4, EmptyFile DEF AppendInv
<1>7. NumbersInv'
  <2>1. Held' \subseteq Held
    BY <1>1, EmptyFile DEF Held
  <2> QED
    BY <1>1, <2>1 DEF LogInv, NumbersInv
<1>8. OrderInv'
  BY <1>1, EmptyFile, OrderedEmpty DEF LogInv, OrderInv, InOrder
<1> QED
  BY <1>3, <1>4, <1>5, <1>6, <1>7, <1>8 DEF LogInv

\* What an append, a broken one or a kill inside it puts behind the active segment.
LEMMA AppendedFile ==
  ASSUME LogInv, pc = "append", NEW m, m = Batch \/ m \in Pieces(pending)
  PROVE  LET file == Append(active, m)
         IN /\ FileOK(file) /\ Content(file) = Content(active) \o m.lines
            /\ Begins(m.lines, pending) /\ Numbers(m.lines) \subseteq Numbers(pending)
            /\ Numbers(Content(file)) = Numbers(Content(active)) \cup Numbers(m.lines)
            /\ m = Batch => /\ AllWhole(file)
                            /\ Bytes(Content(file)) = Bytes(Content(active)) + pendingBytes
<1>1. /\ AllWhole(active) /\ packed \in 1..(Segment + Overhead)
      /\ Packed(active) + packed <= Segment + Overhead
      /\ Bytes(Content(active)) + pendingBytes <= Segment
      /\ FileOK(active) /\ pending \in Seq(Line) /\ pendingBytes = Bytes(pending)
  <2>1. Bytes(Content(active)) <= activeBytes /\ activeBytes + pendingBytes <= Segment
    BY DEF LogInv, CountInv, AppendInv
  <2>2. Bytes(Content(active)) + pendingBytes <= Segment
    BY <2>1, LogFacts
  <2> QED
    BY <2>2 DEF LogInv, AppendInv, FilesInv, BufferInv
<1>2. m \in Member /\ m.packed <= packed /\ m.packed \in Nat /\ Begins(m.lines, pending)
      /\ (m = Batch => m.whole /\ m.lines = pending)
  <2>1. CASE m = Batch
    BY <1>1, <2>1, BeginsSelf, LogFacts, SMTT(40) DEF Batch, Member
  <2>2. CASE m \in Pieces(pending)
    <3>1. m \in Member /\ m.packed = 1 /\ ~m.whole /\ Begins(m.lines, pending)
      BY <1>1, <2>2, PiecesTyped
    <3>2. m # Batch
      BY <3>1 DEF Batch
    <3> QED
      BY <1>1, <3>1, <3>2, LogFacts
  <2> QED
    BY <2>1, <2>2
<1>3. Bytes(m.lines) <= pendingBytes /\ Bytes(m.lines) \in Nat
  BY <1>1, <1>2, BeginsBytes
<1>4. Packed(active) + m.packed <= Segment + Overhead
      /\ Bytes(Content(active)) + Bytes(m.lines) <= Segment
  <2>1. PICK size, bytes, file, held :
          /\ size = m.packed /\ bytes = Bytes(m.lines)
          /\ file = Packed(active) /\ held = Bytes(Content(active))
    OBVIOUS
  <2>2. /\ size \in Nat /\ size <= packed /\ bytes \in Nat /\ bytes <= pendingBytes
        /\ packed \in 1..(Segment + Overhead)
    BY <1>1, <1>2, <1>3, <2>1
  <2>3. /\ file \in Nat /\ held \in Nat /\ pendingBytes \in Nat
        /\ Segment \in Nat /\ Overhead \in Nat
    BY <2>1, LogFacts
  <2>4. file + packed <= Segment + Overhead /\ held + pendingBytes <= Segment
    BY <1>1, <2>1
  <2>5. file + size <= Segment + Overhead
    BY <2>2, <2>3, <2>4
  <2>6. held + bytes <= Segment
    BY <2>2, <2>3, <2>4
  <2> QED
    BY <2>1, <2>5, <2>6
<1>5. PICK file : file = Append(active, m)
  OBVIOUS
<1>6. /\ FileOK(file) /\ Content(file) = Content(active) \o m.lines
      /\ (m.whole => AllWhole(file))
      /\ Content(active) \in Seq(Line) /\ m.lines \in Seq(Line)
      /\ Bytes(Content(file)) = Bytes(Content(active)) + Bytes(m.lines)
  BY <1>1, <1>2, <1>4, <1>5, AppendOK
<1>7. Numbers(m.lines) \subseteq Numbers(pending)
  BY <1>2, BeginsNumbers
<1>8. Numbers(Content(file)) = Numbers(Content(active)) \cup Numbers(m.lines)
  BY <1>6, LinesAreEntries, NumbersConcat
<1>9. m = Batch => /\ AllWhole(file)
                   /\ Bytes(Content(file)) = Bytes(Content(active)) + pendingBytes
  BY <1>1, <1>2, <1>6
<1> QED
  BY <1>2, <1>5, <1>6, <1>7, <1>8, <1>9

\* An append moves what waits behind the active segment.
LEMMA AppendedKeeps ==
  ASSUME LogInv, Appended
  PROVE  LogInv'
<1>1. PICK file : file = Append(active, Batch)
  OBVIOUS
<1>2. /\ pc = "append" /\ active' = file /\ previous' = previous /\ legacy' = legacy
      /\ activeBytes' = activeBytes + pendingBytes /\ pending' = <<>> /\ pendingBytes' = 0
      /\ pc' \in {"idle", "remove"} /\ recorded' = recorded /\ cleared' = cleared /\ torn' = torn
  BY <1>1 DEF Appended, Return, ghosts
<1>3. /\ FileOK(file) /\ Content(file) = Content(active) \o pending
      /\ Begins(pending, pending)
      /\ Numbers(Content(file)) = Numbers(Content(active)) \cup Numbers(pending)
      /\ AllWhole(file) /\ Bytes(Content(file)) = Bytes(Content(active)) + pendingBytes
  <2>1. PICK m : m = Batch
    OBVIOUS
  <2>2. m.lines = pending
    BY <2>1 DEF Batch
  <2> QED
    BY <1>1, <1>2, <2>1, <2>2, AppendedFile
<1>4. FilesInv'
  BY <1>2, <1>3 DEF LogInv, FilesInv
<1>5. BufferInv'
  BY <1>2, EmptyFile, LogFacts DEF BufferInv
<1>6. CountInv'
  <2>1. Bytes(Content(active)) <= activeBytes /\ activeBytes + pendingBytes <= Segment
    BY <1>2 DEF LogInv, CountInv, AppendInv
  <2>2. /\ activeBytes + pendingBytes \in 0..Segment
        /\ Bytes(Content(file)) <= activeBytes + pendingBytes
    BY <1>3, <2>1, LogFacts, SMTT(40)
  <2> QED
    BY <1>2, <1>3, <2>2 DEF CountInv
<1>7. AppendInv'
  BY <1>2 DEF AppendInv
<1>8. NumbersInv'
  <2>1. Held' \subseteq Held
    BY <1>2, <1>3, EmptyFile DEF Held
  <2> QED
    BY <1>2, <2>1 DEF LogInv, NumbersInv
<1>9. OrderInv'
  <2>1. InOrder(Content(previous), Content(active), pending, torn)
    BY DEF LogInv, OrderInv
  <2>2. InOrder(Content(previous), Content(active) \o pending, <<>>, torn)
    BY <1>3, <2>1, LogFacts, InOrderFlushed, Zenon
  <2> QED
    BY <1>2, <1>3, <2>2 DEF OrderInv
<1> QED
  BY <1>4, <1>5, <1>6, <1>7, <1>8, <1>9 DEF LogInv

\* What is cut off again leaves the segment as it was.
LEMMA AppendFailsKeeps ==
  ASSUME LogInv, AppendFails
  PROVE  LogInv'
<1>1. active' = active
  BY LogFacts, SubSeqFull DEF AppendFails, LogInv, AppendInv
<1>2. /\ UNCHANGED <<disk, pending, pendingBytes, ghosts>>
      /\ activeBytes' = activeBytes /\ pc' = "idle" /\ pc # "new"
  BY <1>1 DEF AppendFails, Return, disk, memory
<1> QED
  BY <1>2, ReturnKeeps

\* A piece that stays makes the segment full and its lines exempt.
LEMMA AppendTearsKeeps ==
  ASSUME LogInv, AppendTears
  PROVE  LogInv'
<1>1. PICK m \in Pieces(pending) :
        active' = Append(active, m) /\ torn' = torn \cup Numbers(m.lines)
  BY DEF AppendTears
<1>2. PICK file : file = Append(active, m)
  OBVIOUS
<1>3. /\ pc = "append" /\ active' = file /\ previous' = previous /\ legacy' = legacy
      /\ activeBytes' = Segment /\ pending' = pending /\ pendingBytes' = pendingBytes
      /\ pc' = "idle" /\ recorded' = recorded /\ cleared' = cleared
  BY <1>1, <1>2 DEF AppendTears, Return
<1>4. /\ FileOK(file) /\ Content(file) = Content(active) \o m.lines
      /\ Begins(m.lines, pending) /\ Numbers(m.lines) \subseteq Numbers(pending)
      /\ Numbers(Content(file)) = Numbers(Content(active)) \cup Numbers(m.lines)
  BY <1>2, <1>3, AppendedFile
<1>5. FilesInv'
  BY <1>3, <1>4 DEF LogInv, FilesInv
<1>6. BufferInv'
  BY <1>3 DEF LogInv, BufferInv
<1>7. CountInv'
  <2>1. Bytes(Content(file)) <= Segment /\ Segment \in 0..Segment
    BY <1>4, LogFacts DEF FileOK
  <2> QED
    BY <1>3, <2>1 DEF CountInv
<1>8. AppendInv'
  BY <1>3 DEF AppendInv
<1>9. NumbersInv'
  <2>1. Held' \subseteq Held
    BY <1>3, <1>4 DEF Held
  <2> QED
    BY <1>3, <2>1 DEF LogInv, NumbersInv
<1>10. OrderInv'
  <2>1. InOrder(Content(previous), Content(active), pending, torn)
    BY DEF LogInv, OrderInv
  <2>2. InOrder(Content(previous), Content(active) \o m.lines, pending,
                torn \cup Numbers(m.lines))
    BY <1>4, <2>1, LogFacts, InOrderFlushed, Zenon
  <2> QED
    BY <1>1, <1>3, <1>4, <2>2 DEF OrderInv
<1> QED
  BY <1>5, <1>6, <1>7, <1>8, <1>9, <1>10 DEF LogInv

\* The new line has the highest number, and the oldest make room for it.
LEMMA RecordKeeps ==
  ASSUME LogInv, Record
  PROVE  LogInv'
<1>1. PICK bytes \in 1..(MaxLine + 1) :
        LET buffer == Recorded([lines |-> pending, bytes |-> pendingBytes],
                               [no |-> recorded', bytes |-> bytes])
        IN pending' = buffer.lines /\ pendingBytes' = buffer.bytes
  BY DEF Record
<1>2. PICK b, line : b = [lines |-> pending, bytes |-> pendingBytes]
                     /\ line = [no |-> recorded + 1, bytes |-> bytes]
  OBVIOUS
<1>3. /\ pc = "idle" /\ pc' = "idle" /\ UNCHANGED <<active, previous, legacy>>
      /\ activeBytes' = activeBytes /\ recorded' = recorded + 1
      /\ recorded < MaxLegacy + MaxRecorded /\ cleared' = cleared /\ torn' = torn
      /\ pending' = Recorded(b, line).lines /\ pendingBytes' = Recorded(b, line).bytes
  BY <1>1, <1>2 DEF Record, disk, task
<1>4. PICK d \in 0..Len(b.lines), short \in Line :
        /\ short.no = line.no
        /\ Recorded(b, line).lines = Append(SubSeq(b.lines, d + 1, Len(b.lines)), short)
        /\ Recorded(b, line).lines \in Seq(Line)
        /\ Recorded(b, line).bytes = Bytes(Recorded(b, line).lines)
        /\ Recorded(b, line).bytes <= Segment
  <2>1. b.lines \in Seq(Line) /\ b.bytes = Bytes(b.lines) /\ b.bytes <= Segment
    BY <1>2 DEF LogInv, BufferInv
  <2>2. line \in [no : 1..(MaxLegacy + MaxRecorded), bytes : Nat \ {0}]
    <3>1. recorded + 1 \in 1..(MaxLegacy + MaxRecorded)
      BY <1>3, LogFacts, SMTT(40)
    <3>2. bytes \in Nat \ {0}
      BY SizesAssumption
    <3> QED
      BY <1>2, <3>1, <3>2
  <2> QED
    BY <2>1, <2>2, RecordedKeeps
<1>5. PICK p, k : p = SubSeq(pending, 1, d) /\ k = SubSeq(pending, d + 1, Len(pending))
  OBVIOUS
<1>6. p \in Seq(Line) /\ k \in Seq(Line) /\ pending = p \o k
  <2>1. pending \in Seq(Line) /\ d \in 0..Len(pending)
    BY <1>2 DEF LogInv, BufferInv
  <2> QED
    BY <1>5, <2>1, Splits
<1>7. p \in Seq(Entry) /\ k \in Seq(Entry) /\ short \in Entry /\ short.no = recorded + 1
  BY <1>2, <1>4, <1>6, LinesAreEntries
<1>8. pending' = Append(k, short)
  BY <1>2, <1>3, <1>4, <1>5
<1>9. Numbers(k) \subseteq Numbers(pending)
  BY <1>6, <1>7, NumbersConcat
<1>10. Numbers(pending') \subseteq Numbers(pending) \cup {recorded + 1}
  <2>1. Numbers(Append(k, short)) = Numbers(k) \cup {short.no}
    BY <1>7, NumbersAppend
  <2> QED
    BY <1>7, <1>8, <1>9, <2>1
<1>11. Held \subseteq (cleared + 1)..recorded
  BY DEF LogInv, NumbersInv
<1>12. FilesInv'
  BY <1>3 DEF LogInv, FilesInv
<1>13. BufferInv'
  BY <1>3, <1>4 DEF BufferInv
<1>14. CountInv'
  BY <1>3 DEF LogInv, CountInv
<1>15. AppendInv'
  BY <1>3 DEF AppendInv
<1>16. NumbersInv'
  <2>1. Held' \subseteq Held \cup {recorded + 1}
    BY <1>3, <1>10 DEF Held
  <2>2. Held' \subseteq (cleared + 1)..(recorded + 1)
    <3>1. cleared \in 0..recorded /\ recorded \in Nat
      BY LogFacts DEF LogInv, NumbersInv
    <3>2. (cleared + 1)..recorded \subseteq (cleared + 1)..(recorded + 1)
          /\ recorded + 1 \in (cleared + 1)..(recorded + 1)
      BY <3>1
    <3> QED
      BY <1>11, <2>1, <3>2
  <2>3. recorded + 1 \in MaxLegacy..(MaxLegacy + MaxRecorded) /\ cleared \in 0..(recorded + 1)
    BY <1>3, LogFacts, SMTT(40) DEF LogInv, NumbersInv
  <2> QED
    BY <1>3, <2>2, <2>3 DEF NumbersInv
<1>17. OrderInv'
  <2>1. InOrder(Content(previous), Content(active), pending, torn)
    BY DEF LogInv, OrderInv
  <2>2. \A n \in Held : n < recorded + 1
    BY <1>11, LogFacts, SMTT(40)
  <2>3. Ordered(pending', torn)
    <3>1. Ordered(k, torn)
      <4>1. Ordered(p \o k, torn)
        BY <1>6, <2>1 DEF InOrder
      <4> QED
        BY <1>7, <4>1, OrderedConcat
    <3>2. \A n \in Numbers(k) : n < short.no
      BY <1>7, <1>9, <2>2 DEF Held
    <3> QED
      BY <1>7, <1>8, <3>1, <3>2, OrderedAppend
  <2>4. Before(Content(previous), pending', torn)
    <3>1. \A n \in Numbers(Content(previous)) : n < recorded + 1
      BY <2>2 DEF Held
    <3>2. Before(Content(previous), pending, torn)
      BY <2>1 DEF InOrder
    <3> QED
      BY <1>10, <3>1, <3>2 DEF Before
  <2>5. Before(Content(active), pending', torn)
    <3>1. \A n \in Numbers(Content(active)) : n < recorded + 1
      BY <2>2 DEF Held
    <3>2. Before(Content(active), pending, torn)
      BY <2>1 DEF InOrder
    <3> QED
      BY <1>10, <3>1, <3>2 DEF Before
  <2> QED
    BY <1>3, <2>1, <2>3, <2>4, <2>5 DEF OrderInv, InOrder
<1> QED
  BY <1>12, <1>13, <1>14, <1>15, <1>16, <1>17 DEF LogInv

\* What is migrated are lines of the old release.
LEMMA MigrateKeeps ==
  ASSUME LogInv, Migrate
  PROVE  LogInv'
<1>1. PICK b : b = Refilled
  OBVIOUS
<1>2. /\ pc = "migrate" /\ UNCHANGED <<active, previous, legacy>> /\ activeBytes' = activeBytes
      /\ pc' \in {"remove", "flush"} /\ pending' = b.lines /\ pendingBytes' = b.bytes
      /\ recorded' = recorded /\ cleared' = cleared /\ torn' = torn
  BY <1>1 DEF Migrate, disk, ghosts
<1>3. b \in Buffers(Numbers(legacy))
  <2>1. pending = <<>> /\ pendingBytes = 0
    BY <1>2, EmptyFile DEF LogInv, BufferInv
  <2> QED
    BY <1>1, <2>1, RefilledKeeps DEF LogInv, FilesInv
<1>4. /\ b.lines \in Seq(Line) /\ b.bytes = Bytes(b.lines) /\ b.bytes <= Segment
      /\ Numbers(b.lines) \subseteq Numbers(legacy)
  BY <1>3 DEF Buffers
<1>5. FilesInv'
  BY <1>2 DEF LogInv, FilesInv
<1>6. BufferInv'
  BY <1>2, <1>4 DEF BufferInv
<1>7. CountInv'
  BY <1>2 DEF LogInv, CountInv
<1>8. AppendInv'
  BY <1>2 DEF AppendInv
<1>9. NumbersInv'
  <2>1. Held' \subseteq Held
    BY <1>2, <1>4 DEF Held
  <2> QED
    BY <1>2, <2>1 DEF LogInv, NumbersInv
<1>10. OrderInv'
  <2>1. b.lines \in Seq(Entry)
    BY <1>4, LinesAreEntries
  <2>2. \A n \in Numbers(b.lines) : ~Late(n, torn)
    <3>1. Numbers(b.lines) \subseteq 1..MaxLegacy
      BY <1>4 DEF LogInv, FilesInv
    <3> QED
      BY <3>1, LogFacts DEF Late
  <2>3. PICK lines : lines = b.lines
    OBVIOUS
  <2>4. Ordered(lines, torn) /\ \A t : Before(t, lines, torn)
    BY <2>1, <2>2, <2>3, OrderedExempt
  <2> QED
    BY <1>2, <2>3, <2>4 DEF LogInv, OrderInv, InOrder
<1> QED
  BY <1>5, <1>6, <1>7, <1>8, <1>9, <1>10 DEF LogInv

\* The old log goes, or stays until the next start.
LEMMA RemoveLegacyKeeps ==
  ASSUME LogInv, RemoveLegacy
  PROVE  LogInv'
<1>1. /\ pc = "remove" /\ pc' = "idle" /\ UNCHANGED <<active, previous>>
      /\ legacy' = legacy \/ legacy' = <<>>
      /\ activeBytes' = activeBytes /\ pending' = pending /\ pendingBytes' = pendingBytes
      /\ recorded' = recorded /\ cleared' = cleared /\ torn' = torn
  BY DEF RemoveLegacy, memory, ghosts
<1>2. legacy' \in Seq(Entry) /\ Numbers(legacy') \subseteq Numbers(legacy)
  <2>1. <<>> \in Seq(Entry) /\ Numbers(<<>>) = {}
    BY EmptyFile
  <2> QED
    BY <1>1, <2>1 DEF LogInv, FilesInv
<1>3. FilesInv'
  BY <1>1, <1>2 DEF LogInv, FilesInv
<1>4. BufferInv'
  BY <1>1 DEF LogInv, BufferInv
<1>5. CountInv'
  BY <1>1 DEF LogInv, CountInv
<1>6. AppendInv'
  BY <1>1 DEF AppendInv
<1>7. NumbersInv'
  <2>1. Held' \subseteq Held
    BY <1>1, <1>2 DEF Held
  <2> QED
    BY <1>1, <2>1 DEF LogInv, NumbersInv
<1>8. OrderInv'
  BY <1>1 DEF LogInv, OrderInv
<1> QED
  BY <1>3, <1>4, <1>5, <1>6, <1>7, <1>8 DEF LogInv

\* Each file a clear tries is gone afterwards or as it was, and all are gone when it succeeds.
LEMMA ClearKeeps ==
  ASSUME LogInv, Clear
  PROVE  LogInv'
<1>1. PICK failed \in SUBSET {"previous", "active", "legacy"} :
        /\ previous' = Removed(previous, failed, "previous")
        /\ active' = Removed(active, failed, "active")
        /\ legacy' = Removed(legacy, failed, "legacy")
        /\ activeBytes' = IF "active" \in failed THEN activeBytes ELSE 0
        /\ cleared' = IF failed = {} THEN recorded ELSE cleared
  BY DEF Clear
<1>2. /\ pc = "idle" /\ pc' = "idle" /\ pending' = <<>> /\ pendingBytes' = 0
      /\ recorded' = recorded /\ torn' = torn
  BY DEF Clear, task
<1>3. /\ previous' = previous \/ previous' = <<>>
      /\ legacy' = legacy \/ legacy' = <<>>
      /\ \/ active' = active /\ activeBytes' = activeBytes
         \/ active' = <<>> /\ activeBytes' = 0
  BY <1>1 DEF Removed
<1>4. FilesInv'
  <2>1. <<>> \in Seq(Entry) /\ Numbers(<<>>) = {} /\ FileOK(<<>>)
    BY EmptyFile
  <2> QED
    BY <1>3, <2>1 DEF LogInv, FilesInv
<1>5. BufferInv'
  BY <1>2, EmptyFile, LogFacts DEF BufferInv
<1>6. CountInv'
  BY <1>2, <1>3, EmptyFile, LogFacts, SMTT(40) DEF LogInv, CountInv
<1>7. AppendInv'
  BY <1>2 DEF AppendInv
<1>8. NumbersInv'
  <2>1. Held' \subseteq Held
    BY <1>2, <1>3, EmptyFile DEF Held
  <2>2. CASE failed = {}
    <3>1. previous' = <<>> /\ active' = <<>> /\ legacy' = <<>> /\ cleared' = recorded
      BY <1>1, <2>2 DEF Removed
    <3>2. Held' = {}
      BY <1>2, <3>1, EmptyFile DEF Held
    <3>3. recorded \in 0..recorded
      BY LogFacts
    <3> QED
      BY <1>2, <3>1, <3>2, <3>3 DEF LogInv, NumbersInv
  <2>3. CASE failed # {}
    <3>1. cleared' = cleared
      BY <1>1, <2>3
    <3> QED
      BY <1>2, <2>1, <3>1 DEF LogInv, NumbersInv
  <2> QED
    BY <2>2, <2>3
<1>9. OrderInv'
  <2>1. Begins(Content(previous'), Content(previous)) /\ Begins(Content(active'), Content(active))
    BY <1>3, BeginsSelf, EmptyFile, LogFacts
  <2>2. InOrder(Content(previous), Content(active), pending, torn)
    BY DEF LogInv, OrderInv
  <2>3. InOrder(Content(previous'), Content(active'), <<>>, torn)
    BY <2>1, <2>2, InOrderShorter, Zenon
  <2> QED
    BY <1>2, <2>3 DEF OrderInv
<1> QED
  BY <1>4, <1>5, <1>6, <1>7, <1>8, <1>9 DEF LogInv

\* A new backend starts with nothing in memory; of the files it finds what is given here.
LEMMA RestartedKeeps ==
  ASSUME LogInv, Restarted, FileOK(active'), FileOK(previous'),
         InOrder(Content(previous'), Content(active'), <<>>, torn),
         Numbers(Content(previous')) \cup Numbers(Content(active')) \subseteq Held
  PROVE  LogInv'
<1>1. /\ activeBytes' = 0 /\ pending' = <<>> /\ pendingBytes' = 0 /\ pc' = "new"
      /\ legacy' = legacy /\ recorded' = recorded /\ cleared' = cleared /\ torn' = torn
  BY DEF Restarted, ghosts
<1>2. FilesInv'
  BY <1>1 DEF LogInv, FilesInv
<1>3. BufferInv'
  BY <1>1, EmptyFile, LogFacts DEF BufferInv
<1>4. CountInv'
  BY <1>1, LogFacts DEF CountInv
<1>5. AppendInv'
  BY <1>1 DEF AppendInv
<1>6. NumbersInv'
  <2>1. Held' \subseteq Held
    BY <1>1, EmptyFile DEF Held
  <2> QED
    BY <1>1, <2>1 DEF LogInv, NumbersInv
<1>7. OrderInv'
  BY <1>1 DEF OrderInv
<1> QED
  BY <1>2, <1>3, <1>4, <1>5, <1>6, <1>7 DEF LogInv

\* A kill leaves of an append the batch, a piece or nothing.
LEMMA KilledKeeps ==
  ASSUME LogInv, Killed
  PROVE  LogInv'
<1>1. previous' = previous /\ Restarted
  BY DEF Killed
<1>2. InOrder(Content(previous), Content(active), pending, torn)
  BY DEF LogInv, OrderInv
<1>3. CASE active' = active
  <2>1. Begins(Content(previous), Content(previous)) /\ Begins(Content(active), Content(active))
    BY BeginsSelf, LogFacts
  <2>2. InOrder(Content(previous), Content(active), <<>>, torn)
    BY <1>2, <2>1, InOrderShorter, Zenon
  <2>3. Numbers(Content(previous')) \cup Numbers(Content(active')) \subseteq Held
    BY <1>1, <1>3 DEF Held
  <2>4. InOrder(Content(previous'), Content(active'), <<>>, torn)
    BY <1>1, <1>3, <2>2
  <2>5. FileOK(active') /\ FileOK(previous')
    BY <1>1, <1>3 DEF LogInv, FilesInv
  <2> QED
    BY <1>1, <2>3, <2>4, <2>5, RestartedKeeps
<1>4. ASSUME pc = "append", NEW m \in Pieces(pending) \cup {Batch}, active' = Append(active, m)
      PROVE  LogInv'
  <2>1. PICK file : file = Append(active, m)
    OBVIOUS
  <2>2. /\ FileOK(file) /\ Content(file) = Content(active) \o m.lines
        /\ Begins(m.lines, pending) /\ Numbers(m.lines) \subseteq Numbers(pending)
        /\ Numbers(Content(file)) = Numbers(Content(active)) \cup Numbers(m.lines)
    BY <1>4, <2>1, AppendedFile
  <2>3. InOrder(Content(previous), Content(active) \o m.lines, <<>>, torn)
    BY <1>2, <2>2, LogFacts, InOrderFlushed, Zenon
  <2>4. InOrder(Content(previous'), Content(active'), <<>>, torn)
    BY <1>1, <1>4, <2>1, <2>2, <2>3
  <2>5. Numbers(Content(previous')) \cup Numbers(Content(active')) \subseteq Held
    BY <1>1, <1>4, <2>1, <2>2 DEF Held
  <2>6. FileOK(active') /\ FileOK(previous')
    BY <1>1, <1>4, <2>1, <2>2 DEF LogInv, FilesInv
  <2> QED
    BY <1>1, <2>4, <2>5, <2>6, RestartedKeeps
<1> QED
  BY <1>3, <1>4 DEF Killed

\* A power loss leaves what either segment begins with.
LEMMA PowerLostKeeps ==
  ASSUME LogInv, PowerLost
  PROVE  LogInv'
<1>1. /\ FileOK(active') /\ Begins(Content(active'), Content(active))
      /\ FileOK(previous') /\ Begins(Content(previous'), Content(previous))
  BY SurvivesOK DEF PowerLost, LogInv, FilesInv
<1>2. InOrder(Content(previous), Content(active), pending, torn)
  BY DEF LogInv, OrderInv
<1>3. InOrder(Content(previous'), Content(active'), <<>>, torn)
  BY <1>1, <1>2, InOrderShorter, Zenon
<1>4. Numbers(Content(previous')) \cup Numbers(Content(active')) \subseteq Held
  BY <1>1, BeginsNumbers DEF Held
<1> QED
  BY <1>1, <1>3, <1>4, RestartedKeeps DEF PowerLost

\* Every step keeps the invariant.
LEMMA StepKeeps ==
  ASSUME LogInv, [Next]_vars
  PROVE  LogInv'
<1>1. CASE New \/ Record \/ Clear
  BY <1>1, NewKeeps, RecordKeeps, ClearKeeps
<1>2. CASE MeasureFails \/ FlushInPlace \/ Rotate \/ RotateFails
  BY <1>2, FailuresKeep, FlushInPlaceKeeps, RotateKeeps
<1>3. CASE Appended \/ AppendFails \/ AppendTears
  BY <1>3, AppendedKeeps, AppendFailsKeeps, AppendTearsKeeps
<1>4. CASE NothingToMigrate \/ MigrationFails \/ Migrate \/ RemoveLegacy
  BY <1>4, FailuresKeep, MigrateKeeps, RemoveLegacyKeeps
<1>5. CASE Killed \/ PowerLost
  BY <1>5, KilledKeeps, PowerLostKeeps
<1>6. CASE UNCHANGED vars
  <2>1. /\ UNCHANGED <<disk, pending, pendingBytes, ghosts>>
        /\ pc' = pc /\ activeBytes' = activeBytes /\ active' = active
        /\ packed' = packed /\ activeSize' = activeSize
        /\ pendingBytes' = pendingBytes
    BY <1>6 DEF vars, disk, memory, task, ghosts
  <2>2. FilesInv' /\ NumbersInv' /\ OrderInv' /\ BufferInv'
    BY <2>1, Frame DEF LogInv, BufferInv
  <2>3. CountInv' /\ AppendInv'
    BY <2>1 DEF LogInv, CountInv, AppendInv
  <2> QED
    BY <2>2, <2>3 DEF LogInv
<1> QED
  BY <1>1, <1>2, <1>3, <1>4, <1>5, <1>6 DEF Next

-----------------------------------------------------------------------------
(* The properties.                                                         *)

\* The invariant: no batch is ever put behind a broken one or beyond the limits, and the
\* bytes of the lines in memory and of the active segment are never counted short.
THEOREM LogInvCorrect == Spec => []LogInv
<1>1. LogInv /\ [Next]_vars => LogInv'
  BY StepKeeps
<1> QED
  BY InitKeeps, <1>1, PTL DEF Spec

\* read_segment finds every batch of both segments whatever failed before, and snapshot
\* reads the lines in the order they were recorded, none twice: but for those a torn
\* append left behind and those of an old release.
THEOREM InOrderCorrect == Spec => []ReadInOrder
<1>1. LogInv => ReadInOrder
  <2> SUFFICES ASSUME LogInv PROVE ReadInOrder
    OBVIOUS
  <2>1. /\ ReadSegment(previous) = Content(previous)
        /\ ReadSegment(active) = Content(active)
    BY FileRead DEF LogInv, FilesInv
  <2>2. PICK seen : seen = Snapshot
    OBVIOUS
  <2>3. seen = Content(previous) \o Content(active) \o pending
    BY <2>1, <2>2 DEF Snapshot
  <2>4. Ordered(seen, torn) /\ DOMAIN seen = 1..Len(seen)
    <3>1. pending \in Seq(Line)
      BY DEF LogInv, BufferInv
    <3>2. Ordered(seen, torn)
      BY <2>3, <3>1, LogFacts, InOrderRead DEF LogInv, OrderInv
    <3>3. seen \in Seq(Line)
      BY <2>3, <3>1, LogFacts, ConcatProperties
    <3> QED
      BY <3>2, <3>3, LenProperties
  <2>5. \A j \in DOMAIN seen :
          seen[j].no > MaxLegacy /\ seen[j].no \notin torn
            => \A i \in 1..(j - 1) : seen[i].no < seen[j].no
    BY <2>4 DEF Ordered, Late
  <2> QED
    BY <2>1, <2>2, <2>5 DEF ReadInOrder
<1> QED
  BY LogInvCorrect, <1>1, PTL

\* Nothing a clear has removed comes back: not from the old log that migrate_legacy reads
\* at the next start, not from a batch under way.
THEOREM ClearedCorrect == Spec => []ClearedForGood
<1>1. LogInv => ClearedForGood
  <2> SUFFICES ASSUME LogInv PROVE ClearedForGood
    OBVIOUS
  <2>1. /\ ReadSegment(previous) = Content(previous)
        /\ ReadSegment(active) = Content(active)
    BY FileRead DEF LogInv, FilesInv
  <2>2. Numbers(Snapshot) \subseteq Held
    <3>1. PICK a, b, c : a = Content(previous) /\ b = Content(active) /\ c = pending
      OBVIOUS
    <3>2. a \in Seq(Entry) /\ b \in Seq(Entry) /\ c \in Seq(Entry)
      BY <3>1, LogFacts, LinesAreEntries
    <3>3. a \o b \in Seq(Entry) /\ Numbers(a \o b) = Numbers(a) \cup Numbers(b)
      BY <3>2, ConcatProperties, NumbersConcat
    <3>4. Numbers((a \o b) \o c) = Numbers(a \o b) \cup Numbers(c)
      BY <3>2, <3>3, NumbersConcat
    <3> QED
      BY <2>1, <3>1, <3>3, <3>4 DEF Snapshot, Held
  <2>3. Held \subseteq (cleared + 1)..recorded
    BY DEF LogInv, NumbersInv
  <2>4. \A no \in (cleared + 1)..recorded : no > cleared
    BY LogFacts
  <2> QED
    BY <2>2, <2>3, <2>4 DEF ClearedForGood
<1> QED
  BY LogInvCorrect, <1>1, PTL

\* A rotation keeps the lines of the active segment as the previous one, and no flush,
\* whatever of it fails or is killed, loses a line that is already in the active segment.
THEOREM KeptCorrect == Spec => GenerationKept
<1>1. LogInv /\ LogInv' /\ [Next]_vars
        => [active' # active
              => \/ Numbers(ReadSegment(active)) \subseteq History(previous', active')
                 \/ Clear
                 \/ PowerLost]_vars
  <2> SUFFICES ASSUME LogInv, LogInv', [Next]_vars, active' # active, ~Clear, ~PowerLost
               PROVE  Numbers(ReadSegment(active)) \subseteq History(previous', active')
    OBVIOUS
  <2>1. /\ ReadSegment(active) = Content(active)
        /\ ReadSegment(active') = Content(active') /\ ReadSegment(previous') = Content(previous')
    BY FileRead DEF LogInv, FilesInv
  <2>2. ASSUME pc = "append", NEW m, m = Batch \/ m \in Pieces(pending),
               active' = Append(active, m)
        PROVE  Numbers(Content(active)) \subseteq Numbers(Content(active'))
    <3>1. PICK file : file = Append(active, m)
      OBVIOUS
    <3>2. Numbers(Content(file)) = Numbers(Content(active)) \cup Numbers(m.lines)
      BY <2>2, <3>1, AppendedFile
    <3> QED
      BY <2>2, <3>1, <3>2
  <2>3. CASE Rotate
    <3>1. previous' = active
      BY <2>3 DEF Rotate
    <3> QED
      BY <2>1, <3>1 DEF History
  <2>4. CASE Appended
    <3>1. Numbers(Content(active)) \subseteq Numbers(Content(active'))
      BY <2>2, <2>4 DEF Appended
    <3> QED
      BY <2>1, <3>1 DEF History
  <2>5. CASE AppendTears
    <3>1. Numbers(Content(active)) \subseteq Numbers(Content(active'))
      BY <2>2, <2>5 DEF AppendTears
    <3> QED
      BY <2>1, <3>1 DEF History
  <2>6. CASE Killed
    <3>1. Numbers(Content(active)) \subseteq Numbers(Content(active'))
      BY <2>2, <2>6 DEF Killed
    <3> QED
      BY <2>1, <3>1 DEF History
  <2>7. ~AppendFails
    <3> SUFFICES ASSUME AppendFails PROVE active' = active
      OBVIOUS
    <3> QED
      BY LogFacts, SubSeqFull DEF AppendFails, LogInv, AppendInv
  <2> QED
    BY <2>3, <2>4, <2>5, <2>6, <2>7
    DEF Next, New, Record, MeasureFails, FlushInPlace, RotateFails, NothingToMigrate,
        MigrationFails, Migrate, RemoveLegacy, vars, disk
<1> QED
  BY LogInvCorrect, <1>1, PTL DEF Spec, GenerationKept

-----------------------------------------------------------------------------
(* Texts that are cut at a separator, and put together with it.            *)

\* Two recursions agree as far as their steps do.
LEMMA RecursAgree ==
  ASSUME NEW V, NEW base, NEW M \in Nat, NEW N \in Nat, M <= N,
         NEW r, NEW g, Recurs(g, M, V, base, r),
         NEW t, NEW h, Recurs(h, N, V, base, t),
         \A n \in 1..M : r[n] = t[n]
  PROVE  g[M] = h[M]
<1> DEFINE T == {n \in Nat : n <= M => g[n] = h[n]}
<1>1. 0 \in T
  BY DEF Recurs
<1>2. ASSUME NEW n \in Nat, n \in T PROVE n + 1 \in T
  <2> SUFFICES ASSUME n + 1 <= M PROVE g[n + 1] = h[n + 1]
    OBVIOUS
  <2>1. n + 1 \in 1..M /\ n + 1 \in 1..N /\ (n + 1) - 1 = n /\ g[n] = h[n]
    BY <1>2
  <2>2. g[n + 1] = r[n + 1][g[n]] /\ h[n + 1] = t[n + 1][h[n]]
    BY <2>1 DEF Recurs
  <2> QED
    BY <2>1, <2>2
<1>3. M \in T
  <2> HIDE DEF T
  <2> QED
    BY <1>1, <1>2, Induction
<1> QED
  BY <1>3

\* A recursion that goes one step further.
LEMMA RecursAppend ==
  ASSUME NEW V, NEW base, NEW N \in Nat,
         NEW r, NEW g, Recurs(g, N, V, base, r),
         NEW t, NEW h, Recurs(h, N + 1, V, base, t),
         \A n \in 1..N : r[n] = t[n]
  PROVE  g[N] \in V /\ h[N + 1] = t[N + 1][g[N]]
<1>1. g[N] = h[N]
  BY RecursAgree
<1>2. N + 1 \in 1..(N + 1) /\ (N + 1) - 1 = N
  OBVIOUS
<1> QED
  BY <1>1, <1>2 DEF Recurs

\* The elements of a sequence that grows.
LEMMA AppendFacts ==
  ASSUME NEW U, NEW s \in Seq(U), NEW u \in U
  PROVE  /\ Append(s, u) \in Seq(U) /\ Len(s) \in Nat /\ Len(Append(s, u)) = Len(s) + 1
         /\ \A n \in 1..Len(s) : Append(s, u)[n] = s[n]
         /\ Append(s, u)[Len(s) + 1] = u
  OBVIOUS

\* What Split has of a text, unit by unit; there is always a part to go on with.
Parts(U) == Seq(Seq(U)) \ {<<>>}
SplitStep(U, text, separator) ==
  [n \in 1..Len(text) |->
     [parts \in Parts(U) |->
        IF text[n] = separator THEN Append(parts, <<>>) ELSE Longer(parts, text[n])]]

\* The last part goes on, the others stay.
LEMMA LongerLast ==
  ASSUME NEW U, NEW most \in Seq(Seq(U)), NEW last \in Seq(U), NEW u \in U
  PROVE  Longer(Append(most, last), u) = Append(most, Append(last, u))
<1>1. PICK parts : parts = Append(most, last)
  OBVIOUS
<1>2. PICK longer : longer = Append(last, u)
  OBVIOUS
<1>3. longer \in Seq(U)
  BY <1>2
<1>4. /\ parts \in Seq(Seq(U)) /\ Len(parts) = Len(most) + 1 /\ Len(most) \in Nat
      /\ parts[Len(parts)] = last
      /\ \A i \in 1..Len(most) : parts[i] = most[i]
  BY <1>1, AppendFacts
<1>5. PICK grown : grown = [parts EXCEPT ![Len(parts)] = longer]
  OBVIOUS
<1>6. /\ grown \in Seq(Seq(U)) /\ Len(grown) = Len(most) + 1
      /\ \A i \in 1..Len(most) : grown[i] = most[i]
      /\ grown[Len(most) + 1] = longer
  BY <1>3, <1>4, <1>5
<1>7. PICK other : other = Append(most, longer)
  OBVIOUS
<1>8. /\ other \in Seq(Seq(U)) /\ Len(other) = Len(most) + 1
      /\ \A i \in 1..Len(most) : other[i] = most[i]
      /\ other[Len(most) + 1] = longer
  BY <1>3, <1>7, AppendFacts
<1>9. \A i \in 1..Len(grown) : grown[i] = other[i]
  <2>1. \A i \in 1..Len(grown) : i \in 1..Len(most) \/ i = Len(most) + 1
    BY <1>4, <1>6
  <2> QED
    BY <1>6, <1>8, <2>1
<1>10. grown = other
  BY <1>6, <1>8, <1>9, SeqEqual
<1> QED
  BY <1>1, <1>2, <1>4, <1>5, <1>7, <1>10 DEF Longer

\* A part that goes on, and a new one, keep the type of the parts.
LEMMA LongerFacts ==
  ASSUME NEW U, NEW parts \in Parts(U), NEW u \in U
  PROVE  Longer(parts, u) \in Parts(U) /\ Append(parts, <<>>) \in Parts(U)
<1> USE DEF Parts, Longer
<1>1. parts \in Seq(Seq(U)) /\ Len(parts) \in Nat /\ Len(parts) # 0
  BY EmptySeq
<1>2. parts[Len(parts)] \in Seq(U) /\ Append(parts[Len(parts)], u) \in Seq(U)
  BY <1>1
<1>3. Longer(parts, u) \in Seq(Seq(U)) /\ Len(Longer(parts, u)) = Len(parts)
  BY <1>1, <1>2
<1>4. Append(parts, <<>>) \in Parts(U)
  <2>1. <<>> \in Seq(U)
    OBVIOUS
  <2> QED
    BY <1>1, <2>1, AppendProperties
<1> QED
  BY <1>1, <1>3, <1>4, EmptySeq

(* Split follows these steps.                                              *)
LEMMA SplitRecurs ==
  ASSUME NEW U, NEW text \in Seq(U), NEW separator
  PROVE  \E g : /\ Recurs(g, Len(text), Parts(U), << <<>> >>, SplitStep(U, text, separator))
                /\ Split(text, separator) = g[Len(text)]
<1>1. Len(text) \in Nat /\ << <<>> >> \in Parts(U)
  BY DEF Parts
<1>2. SplitStep(U, text, separator) \in Steps(Len(text), Parts(U))
  <2>1. ASSUME NEW n \in 1..Len(text), NEW parts \in Parts(U)
        PROVE  Append(parts, <<>>) \in Parts(U) /\ Longer(parts, text[n]) \in Parts(U)
    <3>1. text[n] \in U
      BY ElementOfSeq
    <3> QED
      BY <3>1, LongerFacts
  <2> QED
    BY <2>1 DEF SplitStep, Steps
<1>3. PICK g : Recurs(g, Len(text), Parts(U), << <<>> >>, SplitStep(U, text, separator))
  BY <1>1, <1>2, Recursion, Zenon
<1> DEFINE parts[n \in 0..Len(text)] ==
             IF n = 0 THEN << <<>> >>
             ELSE IF text[n] = separator THEN Append(parts[n - 1], <<>>)
             ELSE Longer(parts[n - 1], text[n])
<1>4. Split(text, separator) = parts[Len(text)]
  BY DEF Split
<1>5. g = [n \in 0..Len(text) |->
             IF n = 0 THEN << <<>> >>
             ELSE IF text[n] = separator THEN Append(g[n - 1], <<>>)
             ELSE Longer(g[n - 1], text[n])]
  <2>1. ASSUME NEW n \in 1..Len(text)
        PROVE  g[n] = IF text[n] = separator THEN Append(g[n - 1], <<>>)
                      ELSE Longer(g[n - 1], text[n])
    <3>1. g[n - 1] \in Parts(U) /\ g[n] = SplitStep(U, text, separator)[n][g[n - 1]]
      BY <1>1, <1>3 DEF Recurs
    <3> QED
      BY <3>1 DEF SplitStep
  <2>2. ASSUME NEW n \in 0..Len(text)
        PROVE  g[n] = IF n = 0 THEN << <<>> >>
                      ELSE IF text[n] = separator THEN Append(g[n - 1], <<>>)
                      ELSE Longer(g[n - 1], text[n])
    <3>1. n = 0 \/ n \in 1..Len(text)
      BY <1>1
    <3> QED
      BY <1>3, <2>1, <3>1 DEF Recurs
  <2>3. g \in [0..Len(text) -> Parts(U)]
    BY <1>3 DEF Recurs
  <2> QED
    BY <2>2, <2>3
<1>6. parts = [n \in 0..Len(text) |->
                 IF n = 0 THEN << <<>> >>
                 ELSE IF text[n] = separator THEN Append(parts[n - 1], <<>>)
                 ELSE Longer(parts[n - 1], text[n])]
  BY <1>5
<1> HIDE DEF parts
<1>7. parts[Len(text)] = g[Len(text)]
  <2> DEFINE T == {n \in Nat : n <= Len(text) => parts[n] = g[n]}
  <2>1. 0 \in T
    BY <1>1, <1>5, <1>6
  <2>2. ASSUME NEW n \in Nat, n \in T PROVE n + 1 \in T
    <3> SUFFICES ASSUME n + 1 <= Len(text) PROVE parts[n + 1] = g[n + 1]
      OBVIOUS
    <3>1. n + 1 \in 0..Len(text) /\ n + 1 # 0 /\ (n + 1) - 1 = n /\ parts[n] = g[n]
      BY <1>1, <2>2
    <3>2. g[n + 1] = IF text[n + 1] = separator THEN Append(g[n], <<>>)
                     ELSE Longer(g[n], text[n + 1])
      BY <1>5, <3>1
    <3>3. parts[n + 1] = IF text[n + 1] = separator THEN Append(parts[n], <<>>)
                         ELSE Longer(parts[n], text[n + 1])
      BY <1>6, <3>1
    <3> QED
      BY <3>1, <3>2, <3>3
  <2>3. Len(text) \in T
    <3> HIDE DEF T
    <3> QED
      BY <1>1, <2>1, <2>2, Induction
  <2> QED
    BY <1>1, <2>3
<1> QED
  BY <1>3, <1>4, <1>7

(* A separator begins a part, any other unit goes to the last one.         *)
LEMMA SplitAppend ==
  ASSUME NEW U, NEW text \in Seq(U), NEW u \in U, NEW separator
  PROVE  /\ Split(text, separator) \in Parts(U)
         /\ Split(Append(text, u), separator) =
              IF u = separator THEN Append(Split(text, separator), <<>>)
              ELSE Longer(Split(text, separator), u)
<1>1. PICK more : more = Append(text, u)
  OBVIOUS
<1>2. /\ more \in Seq(U) /\ Len(text) \in Nat /\ Len(more) = Len(text) + 1
      /\ \A n \in 1..Len(text) : more[n] = text[n]
      /\ more[Len(text) + 1] = u
  BY <1>1, AppendFacts
<1>3. PICK r : r = SplitStep(U, text, separator)
  OBVIOUS
<1>4. PICK t : t = SplitStep(U, more, separator)
  OBVIOUS
<1>5. PICK g : /\ Recurs(g, Len(text), Parts(U), << <<>> >>, r)
               /\ Split(text, separator) = g[Len(text)]
  BY <1>3, SplitRecurs
<1>6. PICK h : /\ Recurs(h, Len(text) + 1, Parts(U), << <<>> >>, t)
               /\ Split(more, separator) = h[Len(text) + 1]
  BY <1>2, <1>4, SplitRecurs
<1>7. \A n \in 1..Len(text) : r[n] = t[n]
  <2> SUFFICES ASSUME NEW n \in 1..Len(text) PROVE r[n] = t[n]
    OBVIOUS
  <2>1. n \in 1..Len(more) /\ more[n] = text[n]
    BY <1>2
  <2> QED
    BY <1>3, <1>4, <2>1 DEF SplitStep
<1>8. g[Len(text)] \in Parts(U) /\ h[Len(text) + 1] = t[Len(text) + 1][g[Len(text)]]
  BY <1>2, <1>5, <1>6, <1>7, RecursAppend
<1>9. Len(text) + 1 \in 1..Len(more)
  BY <1>2
<1> QED
  BY <1>1, <1>2, <1>4, <1>5, <1>6, <1>8, <1>9 DEF SplitStep

\* An empty text has one empty part.
LEMMA SplitEmpty == ASSUME NEW separator PROVE Split(<<>>, separator) = << <<>> >>
<1>1. <<>> \in Seq({}) /\ Len(<<>>) = 0
  OBVIOUS
<1>2. PICK g : /\ Recurs(g, Len(<<>>), Parts({}), << <<>> >>, SplitStep({}, <<>>, separator))
               /\ Split(<<>>, separator) = g[Len(<<>>)]
  BY <1>1, SplitRecurs
<1> QED
  BY <1>1, <1>2 DEF Recurs

\* A text without separators is one part.
LEMMA SplitPlain ==
  ASSUME NEW U, NEW separator, NEW text \in Seq(U \ {separator})
  PROVE  Split(text, separator) = <<text>>
<1> DEFINE T == {p \in Seq(U \ {separator}) : Split(p, separator) = <<p>>}
<1>1. <<>> \in T
  BY SplitEmpty
<1>2. ASSUME NEW p \in Seq(U \ {separator}), NEW u \in U \ {separator}, p \in T
      PROVE  Append(p, u) \in T
  <2>1. Append(p, u) \in Seq(U \ {separator}) /\ p \in Seq(U) /\ u \in U /\ u # separator
    OBVIOUS
  <2>2. /\ Split(p, separator) \in Parts(U)
        /\ Split(Append(p, u), separator) = Longer(Split(p, separator), u)
    BY <2>1, SplitAppend
  <2>3. PICK none : none = <<>>
    OBVIOUS
  <2>4. none \in Seq(Seq(U)) /\ Split(p, separator) = Append(none, p)
    BY <1>2, <2>3
  <2>5. Longer(Append(none, p), u) = Append(none, Append(p, u))
    BY <2>1, <2>4, LongerLast
  <2>6. Append(none, Append(p, u)) = <<Append(p, u)>>
    BY <2>3
  <2> QED
    BY <2>1, <2>2, <2>4, <2>5, <2>6
<1> HIDE DEF T
<1>3. text \in T
  BY <1>1, <1>2, SeqInduction
<1> QED
  BY <1>3 DEF T

\* A separator and a text without any add a part.
LEMMA SplitMore ==
  ASSUME NEW U, NEW separator \in U, NEW text \in Seq(U), NEW part \in Seq(U \ {separator})
  PROVE  Split(Append(text, separator) \o part, separator)
           = Append(Split(text, separator), part)
<1>1. PICK begun : begun = Append(text, separator)
  OBVIOUS
<1>2. PICK parts : parts = Split(text, separator)
  OBVIOUS
<1>3. begun \in Seq(U) /\ parts \in Parts(U) /\ parts \in Seq(Seq(U))
      /\ Split(begun, separator) = Append(parts, <<>>)
  BY <1>1, <1>2, SplitAppend DEF Parts
<1> DEFINE T == {p \in Seq(U \ {separator}) :
                   Split(begun \o p, separator) = Append(parts, p)}
<1>4. <<>> \in T
  BY <1>3, ConcatEmptySeq
<1>5. ASSUME NEW p \in Seq(U \ {separator}), NEW u \in U \ {separator}, p \in T
      PROVE  Append(p, u) \in T
  <2>1. Append(p, u) \in Seq(U \ {separator}) /\ p \in Seq(U) /\ u \in U /\ u # separator
    OBVIOUS
  <2>2. PICK whole : whole = begun \o p
    OBVIOUS
  <2>3. whole \in Seq(U) /\ begun \o Append(p, u) = Append(whole, u)
    BY <1>3, <2>1, <2>2, SMTT(40)
  <2>4. /\ Split(whole, separator) \in Parts(U)
        /\ Split(Append(whole, u), separator) = Longer(Split(whole, separator), u)
    BY <2>1, <2>3, SplitAppend
  <2>5. Split(whole, separator) = Append(parts, p)
    BY <1>5, <2>2
  <2>6. Longer(Split(whole, separator), u) = Append(parts, Append(p, u))
    BY <1>3, <2>1, <2>5, LongerLast
  <2> QED
    BY <2>1, <2>3, <2>4, <2>6
<1> HIDE DEF T
<1>6. part \in T
  BY <1>4, <1>5, SeqInduction
<1> QED
  BY <1>1, <1>2, <1>6 DEF T

\* What Join has of the parts it has come to.
JoinStep(U, parts, separator) ==
  [n \in 1..Len(parts) |->
     [text \in Seq(U) |-> IF n = 1 THEN parts[1] ELSE Append(text, separator) \o parts[n]]]

(* Join follows these steps.                                               *)
LEMMA JoinRecurs ==
  ASSUME NEW U, NEW separator \in U, NEW parts \in Seq(Seq(U))
  PROVE  \E g : /\ Recurs(g, Len(parts), Seq(U), <<>>, JoinStep(U, parts, separator))
                /\ Join(parts, separator) = g[Len(parts)]
<1>1. Len(parts) \in Nat /\ <<>> \in Seq(U)
  OBVIOUS
<1>2. JoinStep(U, parts, separator) \in Steps(Len(parts), Seq(U))
  <2>1. ASSUME NEW n \in 1..Len(parts), NEW text \in Seq(U)
        PROVE  parts[n] \in Seq(U) /\ Append(text, separator) \o parts[n] \in Seq(U)
    <3>1. parts[n] \in Seq(U)
      BY ElementOfSeq
    <3> QED
      BY <3>1
  <2>2. ASSUME NEW n \in 1..Len(parts) PROVE parts[1] \in Seq(U)
    <3>1. 1 \in 1..Len(parts)
      BY <1>1
    <3> QED
      BY <3>1, ElementOfSeq
  <2> QED
    BY <2>1, <2>2 DEF JoinStep, Steps
<1>3. PICK g : Recurs(g, Len(parts), Seq(U), <<>>, JoinStep(U, parts, separator))
  BY <1>1, <1>2, Recursion, Zenon
<1> DEFINE text[n \in 0..Len(parts)] ==
             IF n = 0 THEN <<>>
             ELSE IF n = 1 THEN parts[1]
             ELSE Append(text[n - 1], separator) \o parts[n]
<1>4. Join(parts, separator) = text[Len(parts)]
  BY DEF Join
<1>5. g = [n \in 0..Len(parts) |->
             IF n = 0 THEN <<>>
             ELSE IF n = 1 THEN parts[1]
             ELSE Append(g[n - 1], separator) \o parts[n]]
  <2>1. ASSUME NEW n \in 1..Len(parts)
        PROVE  g[n] = IF n = 1 THEN parts[1] ELSE Append(g[n - 1], separator) \o parts[n]
    <3>1. n - 1 \in 0..Len(parts)
      BY <1>1
    <3>2. g[n - 1] \in Seq(U) /\ g[n] = JoinStep(U, parts, separator)[n][g[n - 1]]
      BY <1>3, <3>1 DEF Recurs
    <3> QED
      BY <3>2 DEF JoinStep
  <2>2. ASSUME NEW n \in 0..Len(parts)
        PROVE  g[n] = IF n = 0 THEN <<>>
                      ELSE IF n = 1 THEN parts[1]
                      ELSE Append(g[n - 1], separator) \o parts[n]
    <3>1. n = 0 \/ n \in 1..Len(parts)
      BY <1>1
    <3> QED
      BY <1>3, <2>1, <3>1 DEF Recurs
  <2>3. g \in [0..Len(parts) -> Seq(U)]
    BY <1>3 DEF Recurs
  <2> QED
    BY <2>2, <2>3
<1>6. text = [n \in 0..Len(parts) |->
                IF n = 0 THEN <<>>
                ELSE IF n = 1 THEN parts[1]
                ELSE Append(text[n - 1], separator) \o parts[n]]
  BY <1>5
<1> HIDE DEF text
<1>7. text[Len(parts)] = g[Len(parts)]
  <2> DEFINE T == {n \in Nat : n <= Len(parts) => text[n] = g[n]}
  <2>1. 0 \in T
    BY <1>1, <1>5, <1>6
  <2>2. ASSUME NEW n \in Nat, n \in T PROVE n + 1 \in T
    <3> SUFFICES ASSUME n + 1 <= Len(parts) PROVE text[n + 1] = g[n + 1]
      OBVIOUS
    <3>1. n + 1 \in 0..Len(parts) /\ n + 1 # 0 /\ (n + 1) - 1 = n /\ text[n] = g[n]
      BY <1>1, <2>2
    <3>2. g[n + 1] = IF n + 1 = 1 THEN parts[1]
                     ELSE Append(g[n], separator) \o parts[n + 1]
      BY <1>5, <3>1
    <3>3. text[n + 1] = IF n + 1 = 1 THEN parts[1]
                        ELSE Append(text[n], separator) \o parts[n + 1]
      BY <1>6, <3>1
    <3> QED
      BY <3>1, <3>2, <3>3
  <2>3. Len(parts) \in T
    <3> HIDE DEF T
    <3> QED
      BY <1>1, <2>1, <2>2, Induction
  <2> QED
    BY <1>1, <2>3
<1> QED
  BY <1>3, <1>4, <1>7

(* The first part stands alone, each other one behind a separator.         *)
LEMMA JoinAppend ==
  ASSUME NEW U, NEW separator \in U, NEW parts \in Seq(Seq(U)), NEW part \in Seq(U)
  PROVE  /\ Join(parts, separator) \in Seq(U)
         /\ Join(Append(parts, part), separator) =
              IF parts = <<>> THEN part ELSE Append(Join(parts, separator), separator) \o part
<1>1. PICK more : more = Append(parts, part)
  OBVIOUS
<1>2. /\ more \in Seq(Seq(U)) /\ Len(parts) \in Nat /\ Len(more) = Len(parts) + 1
      /\ \A n \in 1..Len(parts) : more[n] = parts[n]
      /\ more[Len(parts) + 1] = part
  BY <1>1, AppendFacts
<1>3. PICK r : r = JoinStep(U, parts, separator)
  OBVIOUS
<1>4. PICK t : t = JoinStep(U, more, separator)
  OBVIOUS
<1>5. PICK g : /\ Recurs(g, Len(parts), Seq(U), <<>>, r)
               /\ Join(parts, separator) = g[Len(parts)]
  BY <1>3, JoinRecurs
<1>6. PICK h : /\ Recurs(h, Len(parts) + 1, Seq(U), <<>>, t)
               /\ Join(more, separator) = h[Len(parts) + 1]
  BY <1>2, <1>4, JoinRecurs
<1>7. \A n \in 1..Len(parts) : r[n] = t[n]
  <2> SUFFICES ASSUME NEW n \in 1..Len(parts) PROVE r[n] = t[n]
    OBVIOUS
  <2>1. n \in 1..Len(more) /\ more[n] = parts[n] /\ more[1] = parts[1]
    BY <1>2
  <2> QED
    BY <1>3, <1>4, <2>1 DEF JoinStep
<1>8. g[Len(parts)] \in Seq(U) /\ h[Len(parts) + 1] = t[Len(parts) + 1][g[Len(parts)]]
  BY <1>2, <1>5, <1>6, <1>7, RecursAppend
<1>9. Len(parts) + 1 \in 1..Len(more) /\ (Len(parts) + 1 = 1 <=> parts = <<>>)
  BY <1>2, EmptySeq
<1>10. h[Len(parts) + 1] = IF parts = <<>> THEN more[1]
                           ELSE Append(g[Len(parts)], separator) \o more[Len(parts) + 1]
  BY <1>4, <1>8, <1>9 DEF JoinStep
<1>11. parts = <<>> => more[1] = part
  BY <1>2, <1>9
<1> QED
  BY <1>1, <1>2, <1>5, <1>6, <1>8, <1>10, <1>11

\* Nothing is put together to nothing.
LEMMA JoinEmpty == ASSUME NEW separator PROVE Join(<<>>, separator) = <<>>
<1>1. <<>> \in Seq(Seq({separator})) /\ Len(<<>>) = 0 /\ separator \in {separator}
  OBVIOUS
<1>2. PICK g : /\ Recurs(g, Len(<<>>), Seq({separator}), <<>>,
                         JoinStep({separator}, <<>>, separator))
               /\ Join(<<>>, separator) = g[Len(<<>>)]
  BY <1>1, JoinRecurs
<1> QED
  BY <1>1, <1>2 DEF Recurs

(* What is put together with a separator that no part has is taken apart   *)
(* to the same parts: the wire format of a list of hashes.                 *)
LEMMA SplitJoin ==
  ASSUME NEW U, NEW separator \in U, NEW parts \in Seq(Seq(U \ {separator})), parts # <<>>
  PROVE  Split(Join(parts, separator), separator) = parts
<1> DEFINE P == Seq(U \ {separator})
           T == {ps \in Seq(P) : ps # <<>> => Split(Join(ps, separator), separator) = ps}
<1>1. <<>> \in T
  OBVIOUS
<1>2. ASSUME NEW ps \in Seq(P), NEW p \in P, ps \in T PROVE Append(ps, p) \in T
  <2>1. Append(ps, p) \in Seq(P)
    OBVIOUS
  <2>2. ps \in Seq(Seq(U)) /\ p \in Seq(U)
    <3>1. P \subseteq Seq(U)
      BY SeqMonotonic
    <3> QED
      BY <3>1, SeqMonotonic
  <2>3. PICK text : text = Join(ps, separator)
    OBVIOUS
  <2>7. /\ Join(ps, separator) \in Seq(U)
        /\ Join(Append(ps, p), separator) =
             IF ps = <<>> THEN p ELSE Append(Join(ps, separator), separator) \o p
    BY <2>2, JoinAppend, ZenonT(40)
  <2>4. /\ text \in Seq(U)
        /\ Join(Append(ps, p), separator) =
             IF ps = <<>> THEN p ELSE Append(text, separator) \o p
    BY <2>3, <2>7
  <2>5. CASE ps = <<>>
    <3>1. Split(p, separator) = <<p>>
      BY SplitPlain
    <3> QED
      BY <2>1, <2>4, <2>5, <3>1
  <2>6. CASE ps # <<>>
    <3>1. Split(Append(text, separator) \o p, separator) = Append(Split(text, separator), p)
      BY <2>4, SplitMore
    <3> QED
      BY <1>2, <2>1, <2>3, <2>4, <2>6, <3>1
  <2> QED
    BY <2>5, <2>6
<1> HIDE DEF T, P
<1>3. \A ps \in Seq(P) : ps \in T
  BY <1>1, <1>2, SeqInduction
<1> QED
  BY <1>3 DEF T, P

-----------------------------------------------------------------------------
(* The units of a link.                                                    *)

\* Every text of a link is a sequence of characters, every parameter one of units.
LEMMA UnitsTyped ==
  ASSUME NEW raw \in Seq(Unit)
  PROVE  Decode(raw) \in Seq(Char) /\ Len(Decode(raw)) = Len(raw)
<1>1. ASSUME NEW i \in DOMAIN raw PROVE Latin(raw[i].char) \in Char
  <2>1. raw[i] \in Unit
    BY LenProperties
  <2>2. raw[i].char \in Char
    BY <2>1 DEF Unit
  <2> QED
    BY <2>2 DEF Latin, Char
<1>2. Decode(raw) = [i \in 1..Len(raw) |-> Latin(raw[i].char)] /\ Len(raw) \in Nat
  BY LenProperties DEF Decode
<1> QED
  BY <1>1, <1>2, LenProperties

\* What url_encode writes has no "+" that is not coded, and nothing only for nothing.
LEMMA EncodeTyped ==
  ASSUME NEW text \in Seq(Char)
  PROVE  /\ UrlEncode(text) \in Seq(Unit \ {Raw("+")}) /\ UrlEncode(text) \in Seq(Unit)
         /\ (UrlEncode(text) = <<>> <=> text = <<>>)
<1>1. ASSUME NEW i \in DOMAIN text
      PROVE  [char |-> text[i], coded |-> text[i] \notin Unreserved] \in Unit \ {Raw("+")}
  <2>1. text[i] \in Char
    BY LenProperties
  <2>2. PICK u : u = [char |-> text[i], coded |-> text[i] \notin Unreserved]
    OBVIOUS
  <2>3. u \in Unit /\ u.char = text[i] /\ (u.coded <=> text[i] \notin Unreserved)
    BY <2>1, <2>2 DEF Unit
  <2>4. "+" \notin Unreserved /\ Raw("+").char = "+" /\ Raw("+").coded = FALSE
    BY DEF Unreserved, Word, Raw
  <2> QED
    BY <2>2, <2>3, <2>4
<1>2. /\ UrlEncode(text) = [i \in 1..Len(text) |->
                              [char |-> text[i], coded |-> text[i] \notin Unreserved]]
      /\ Len(text) \in Nat
  BY DEF UrlEncode
<1>3. UrlEncode(text) \in Seq(Unit \ {Raw("+")}) /\ Len(UrlEncode(text)) = Len(text)
  BY <1>1, <1>2
<1>4. UrlEncode(text) \in Seq(Unit)
  BY <1>3
<1> QED
  BY <1>2, <1>3, <1>4, EmptySeq

(* What url_encode has coded is decoded again, if it is ASCII.             *)
LEMMA DecodeEncode ==
  ASSUME NEW text \in Seq(Char), Ascii(text)
  PROVE  Decode(UrlEncode(text)) = text
<1>1. ASSUME NEW i \in DOMAIN text PROVE Latin(text[i]) = text[i]
  <2>1. text[i] \in ToSet(text)
    BY DEF ToSet
  <2> QED
    BY <2>1 DEF Ascii, Latin
<1>2. DOMAIN UrlEncode(text) = DOMAIN text
      /\ \A i \in DOMAIN text : UrlEncode(text)[i].char = text[i]
  BY DEF UrlEncode
<1>3. Decode(UrlEncode(text)) = [i \in DOMAIN text |-> text[i]]
  BY <1>1, <1>2 DEF Decode
<1> QED
  BY <1>3

\* The ends of a set of places.
LEMMA Ends ==
  ASSUME NEW n \in Nat, NEW S \in SUBSET (1..n), S # {}
  PROVE  /\ Min(S) \in S /\ Max(S) \in S
         /\ \A i \in S : Min(S) <= i /\ i <= Max(S)
<1>1. \E i \in S : \A j \in S : i <= j
  BY Least
<1>2. \E i \in S : \A j \in S : i >= j
  <2> DEFINE T == {n - i : i \in S}
  <2>1. T \in SUBSET Nat /\ T # {}
    <3>1. \A i \in S : n - i \in Nat
      OBVIOUS
    <3> QED
      BY <3>1
  <2>2. PICK m \in T : \A k \in T : m <= k
    BY <2>1, Least
  <2>3. PICK i \in S : m = n - i
    BY <2>2
  <2>4. ASSUME NEW j \in S PROVE i >= j
    <3>1. n - i <= n - j
      BY <2>2, <2>3
    <3> QED
      BY <3>1
  <2> QED
    BY <2>4
<1>3. Min(S) \in S /\ \A j \in S : Min(S) <= j
  BY <1>1 DEF Min
<1>4. Max(S) \in S /\ \A j \in S : Max(S) >= j
  BY <1>2 DEF Max
<1> QED
  BY <1>3, <1>4

\* Trim keeps characters, and a text that has no space.
LEMMA TrimFacts ==
  ASSUME NEW U, NEW text \in Seq(U)
  PROVE  /\ Trim(text) \in Seq(U)
         /\ " " \notin ToSet(text) => Trim(text) = text
         /\ Trim(text) = <<>> <=> \A i \in DOMAIN text : text[i] = " "
<1> DEFINE kept == {i \in DOMAIN text : text[i] # " "}
<1>1. kept \in SUBSET (1..Len(text)) /\ Len(text) \in Nat /\ DOMAIN text = 1..Len(text)
  BY LenProperties
<1>2. CASE kept = {}
  <2>1. Trim(text) = <<>> /\ \A i \in DOMAIN text : text[i] = " "
    BY <1>2 DEF Trim
  <2>2. ASSUME " " \notin ToSet(text) PROVE text = <<>>
    <3>1. DOMAIN text = {}
      BY <2>1, <2>2 DEF ToSet
    <3> QED
      BY <3>1, <1>1, EmptySeq
  <2>3. <<>> \in Seq(U)
    OBVIOUS
  <2> QED
    BY <2>1, <2>2, <2>3
<1>3. CASE kept # {}
  <2>1. /\ Min(kept) \in kept /\ Max(kept) \in kept
        /\ \A i \in kept : Min(kept) <= i /\ i <= Max(kept)
    BY <1>1, <1>3, Ends
  <2>2. Trim(text) = SubSeq(text, Min(kept), Max(kept))
    BY <1>3 DEF Trim
  <2>3. Min(kept) \in 1..Len(text) /\ Max(kept) \in 1..Len(text) /\ Min(kept) <= Max(kept)
    BY <1>1, <2>1
  <2> HIDE DEF kept
  <2>4. Trim(text) \in Seq(U) /\ Trim(text) # <<>>
    <3>1. /\ SubSeq(text, Min(kept), Max(kept)) \in Seq(U)
          /\ Len(SubSeq(text, Min(kept), Max(kept))) = Max(kept) - Min(kept) + 1
      BY <2>3
    <3> QED
      BY <2>2, <2>3, <3>1, EmptySeq
  <2>5. ASSUME " " \notin ToSet(text) PROVE Trim(text) = text
    <3>1. kept = 1..Len(text)
      BY <1>1, <2>5 DEF ToSet, kept
    <3>2. Min(kept) = 1 /\ Max(kept) = Len(text)
      BY <1>1, <2>1, <2>3, <3>1
    <3> QED
      BY <2>2, <3>2
  <2>6. ~ \A i \in DOMAIN text : text[i] = " "
    BY <1>3 DEF kept
  <2> QED
    BY <2>4, <2>5, <2>6
<1> QED
  BY <1>2, <1>3

\* What is left of a URL has no "?"; a hash that came without the URL stays as it is.
LEMMA StripFacts ==
  ASSUME NEW text \in Seq(Char)
  PROVE  /\ StripVkUrl(text) \in Seq(Char) /\ "?" \notin ToSet(StripVkUrl(text))
         /\ text # <<>> /\ Head(text) # "join" /\ ToSet(text) \cap {" ", "?"} = {} =>
              StripVkUrl(text) = text
<1> DEFINE t     == Trim(text)
           rest  == IF t # <<>> /\ Head(t) = "join" THEN Tail(t) ELSE t
           marks == {i \in DOMAIN rest : rest[i] = "?"}
<1>1. t \in Seq(Char) /\ rest \in Seq(Char)
  <2>1. t \in Seq(Char)
    BY TrimFacts
  <2>2. t # <<>> => Tail(t) \in Seq(Char)
    BY <2>1, HeadTailProperties
  <2> QED
    BY <2>1, <2>2
<1>2. Len(rest) \in Nat /\ DOMAIN rest = 1..Len(rest) /\ marks \in SUBSET (1..Len(rest))
  BY <1>1
<1>3. StripVkUrl(text) = IF marks = {} THEN rest ELSE SubSeq(rest, 1, Min(marks) - 1)
  BY DEF StripVkUrl
<1>4. StripVkUrl(text) \in Seq(Char) /\ "?" \notin ToSet(StripVkUrl(text))
  <2>1. CASE marks = {}
    BY <1>1, <1>3, <2>1 DEF ToSet
  <2>2. CASE marks # {}
    <3>1. Min(marks) \in marks /\ \A i \in marks : Min(marks) <= i
      BY <1>2, <2>2, Ends
    <3>2. Min(marks) \in 1..Len(rest)
      BY <1>2, <3>1
    <3> HIDE DEF rest, marks
    <3>3. PICK m : m = Min(marks) - 1
      OBVIOUS
    <3>4. /\ SubSeq(rest, 1, m) \in Seq(Char) /\ Len(SubSeq(rest, 1, m)) = m
          /\ \A i \in 1..m : SubSeq(rest, 1, m)[i] = rest[i]
          /\ m < Min(marks) /\ m \in Nat /\ Min(marks) \in Nat /\ m <= Len(rest)
      BY <1>1, <1>2, <3>2, <3>3
    <3>5. ASSUME NEW i \in 1..m PROVE rest[i] # "?"
      <4>1. i \notin marks /\ i \in DOMAIN rest
        BY <1>2, <3>1, <3>4
      <4> QED
        BY <4>1 DEF marks
    <3>6. "?" \notin ToSet(SubSeq(rest, 1, m))
      BY <3>4, <3>5 DEF ToSet
    <3> QED
      BY <1>3, <2>2, <3>3, <3>4, <3>6
  <2> QED
    BY <2>1, <2>2
<1>5. ASSUME text # <<>>, Head(text) # "join", ToSet(text) \cap {" ", "?"} = {}
      PROVE  StripVkUrl(text) = text
  <2>1. t = text
    BY <1>5, TrimFacts
  <2>2. rest = text
    BY <1>5, <2>1
  <2>3. marks = {}
    BY <1>5, <2>2 DEF ToSet
  <2> QED
    BY <1>3, <2>2, <2>3
<1> QED
  BY <1>4, <1>5

\* What Params has found among those that are given.
ParamStep(given) ==
  [n \in 1..Len(given) |->
     [found \in Seq(Parameter) |->
        IF Found(given, n) THEN Append(found, given[n]) ELSE Prolonged(found, given[n])]]

\* A value that goes on keeps the type of the parameters.
LEMMA ProlongedTyped ==
  ASSUME NEW ps \in Seq(Parameter), NEW p \in Parameter
  PROVE  Prolonged(ps, p) \in Seq(Parameter)
<1>1. CASE ps = <<>>
  BY <1>1 DEF Prolonged
<1>2. CASE ps # <<>>
  <2>1. Len(ps) \in 1..Len(ps)
    BY <1>2, EmptySeq
  <2>2. PICK old \in Parameter : old = ps[Len(ps)]
    BY <2>1, ElementOfSeq
  <2>3. <<Raw("short")>> \in Seq(Unit) /\ old.raw \in Seq(Unit) /\ p.raw \in Seq(Unit)
    <3>1. "short" \in Char
      BY DEF Char
    <3>2. Raw("short") \in Unit
      BY <3>1 DEF Unit, Raw
    <3>3. old.raw \in Seq(Unit) /\ p.raw \in Seq(Unit)
      BY <2>2 DEF Parameter
    <3> QED
      BY <3>2, <3>3
  <2>4. PICK raw : raw = old.raw \o <<Raw("short")>> \o p.raw
    OBVIOUS
  <2>5. raw \in Seq(Unit)
    BY <2>3, <2>4, ConcatProperties
  <2>6. PICK new : new = [old EXCEPT !.raw = raw]
    OBVIOUS
  <2>7. new \in Parameter
    BY <2>2, <2>5, <2>6 DEF Parameter
  <2>8. Prolonged(ps, p) = [ps EXCEPT ![Len(ps)] = new]
    BY <1>2, <2>2, <2>4, <2>6 DEF Prolonged
  <2>9. [ps EXCEPT ![Len(ps)] = new] \in Seq(Parameter)
    BY <2>1, <2>7, ExceptSeq
  <2> QED
    BY <2>8, <2>9
<1> QED
  BY <1>1, <1>2

(* Whatever is found in a query, it is parameters.                         *)
LEMMA ParamsTyped ==
  ASSUME NEW q, q.params \in Seq(Parameter)
  PROVE  Params(q) \in Seq(Parameter)
<1>0. PICK given \in Seq(Parameter) : given = q.params
  OBVIOUS
<1>1. Len(given) \in Nat /\ <<>> \in Seq(Parameter)
  BY LenProperties
<1>2. ParamStep(given) \in Steps(Len(given), Seq(Parameter))
  <2>1. ASSUME NEW n \in 1..Len(given), NEW found \in Seq(Parameter)
        PROVE  /\ Append(found, given[n]) \in Seq(Parameter)
               /\ Prolonged(found, given[n]) \in Seq(Parameter)
    <3>1. given[n] \in Parameter
      BY ElementOfSeq
    <3> QED
      BY <3>1, ProlongedTyped, AppendProperties
  <2> QED
    BY <2>1 DEF ParamStep, Steps
<1>3. PICK g : Recurs(g, Len(given), Seq(Parameter), <<>>, ParamStep(given))
  BY <1>1, <1>2, Recursion, Zenon
<1> DEFINE found[n \in 0..Len(given)] ==
             IF n = 0 THEN <<>>
             ELSE IF Found(given, n) THEN Append(found[n - 1], given[n])
             ELSE Prolonged(found[n - 1], given[n])
<1>4. Params(q) = IF q.separated THEN given ELSE found[Len(given)]
  BY <1>0 DEF Params
<1>5. g = [n \in 0..Len(given) |->
             IF n = 0 THEN <<>>
             ELSE IF Found(given, n) THEN Append(g[n - 1], given[n])
             ELSE Prolonged(g[n - 1], given[n])]
  <2>1. ASSUME NEW n \in 1..Len(given)
        PROVE  g[n] = IF Found(given, n) THEN Append(g[n - 1], given[n])
                      ELSE Prolonged(g[n - 1], given[n])
    <3>1. n - 1 \in 0..Len(given)
      BY <1>1
    <3>2. g[n - 1] \in Seq(Parameter) /\ g[n] = ParamStep(given)[n][g[n - 1]]
      BY <1>3, <3>1 DEF Recurs
    <3> QED
      BY <3>2 DEF ParamStep
  <2>2. ASSUME NEW n \in 0..Len(given)
        PROVE  g[n] = IF n = 0 THEN <<>>
                      ELSE IF Found(given, n) THEN Append(g[n - 1], given[n])
                      ELSE Prolonged(g[n - 1], given[n])
    <3>1. n = 0 \/ n \in 1..Len(given)
      BY <1>1
    <3> QED
      BY <1>3, <2>1, <3>1 DEF Recurs
  <2>3. g \in [0..Len(given) -> Seq(Parameter)]
    BY <1>3 DEF Recurs
  <2> QED
    BY <2>2, <2>3
<1>6. found = [n \in 0..Len(given) |->
                 IF n = 0 THEN <<>>
                 ELSE IF Found(given, n) THEN Append(found[n - 1], given[n])
                 ELSE Prolonged(found[n - 1], given[n])]
  BY <1>5
<1> HIDE DEF found
<1>7. found[Len(given)] = g[Len(given)]
  <2> DEFINE T == {n \in Nat : n <= Len(given) => found[n] = g[n]}
  <2>1. 0 \in T
    BY <1>1, <1>5, <1>6
  <2>2. ASSUME NEW n \in Nat, n \in T PROVE n + 1 \in T
    <3> SUFFICES ASSUME n + 1 <= Len(given) PROVE found[n + 1] = g[n + 1]
      OBVIOUS
    <3>1. n + 1 \in 0..Len(given) /\ n + 1 # 0 /\ (n + 1) - 1 = n /\ found[n] = g[n]
      BY <1>1, <2>2
    <3>2. g[n + 1] = IF Found(given, n + 1) THEN Append(g[n], given[n + 1])
                     ELSE Prolonged(g[n], given[n + 1])
      BY <1>5, <3>1
    <3>3. found[n + 1] = IF Found(given, n + 1) THEN Append(found[n], given[n + 1])
                         ELSE Prolonged(found[n], given[n + 1])
      BY <1>6, <3>1
    <3> QED
      BY <3>1, <3>2, <3>3
  <2>3. Len(given) \in T
    <3> HIDE DEF T
    <3> QED
      BY <1>1, <2>1, <2>2, Induction
  <2> QED
    BY <1>1, <2>3
<1>8. g[Len(given)] \in Seq(Parameter)
  BY <1>1, <1>3 DEF Recurs
<1> QED
  BY <1>0, <1>4, <1>7, <1>8

\* A parameter that is there has a value.
LEMMA ParamTyped ==
  ASSUME NEW ps \in Seq(Parameter), NEW key \in Keys(ps)
  PROVE  ParamOf(ps, key) \in Seq(Unit)
<1>1. \E p \in ToSet(ps) : p.key = key
  BY DEF Keys, ToSet
<1>2. PICK p \in ToSet(ps) : p = CHOOSE r \in ToSet(ps) : r.key = key
  BY <1>1
<1>3. p \in Parameter
  BY LenProperties DEF ToSet
<1> QED
  BY <1>2, <1>3 DEF ParamOf, Parameter

-----------------------------------------------------------------------------
(* The link that to_link writes.                                           *)

\* No key comes twice.
Unique(ps) == \A i, j \in DOMAIN ps : ps[i].key = ps[j].key => i = j

\* Then none is repeated, and each key leads to its own value.
LEMMA UniqueFacts ==
  ASSUME NEW ps \in Seq(Parameter), Unique(ps)
  PROVE  /\ ~Repeated(ps)
         /\ \A i \in DOMAIN ps : ps[i].key \in Keys(ps) /\ ParamOf(ps, ps[i].key) = ps[i].raw
<1>1. Len(ps) \in Nat /\ DOMAIN ps = 1..Len(ps)
  BY LenProperties
<1>2. ~Repeated(ps)
  <2>1. PICK f : f = [i \in 1..Len(ps) |-> ps[i].key]
    OBVIOUS
  <2>2. f \in Bijection(1..Len(ps), Keys(ps))
    BY <1>1, <2>1 DEF Unique, Keys, Bijection, Injection, Surjection, IsInjective
  <2>3. Cardinality(Keys(ps)) = Len(ps)
    BY <1>1, <2>2, FS_CountingElements DEF ExistsBijection
  <2> QED
    BY <1>1, <2>3 DEF Repeated
<1>3. ASSUME NEW i \in DOMAIN ps
      PROVE  ps[i].key \in Keys(ps) /\ ParamOf(ps, ps[i].key) = ps[i].raw
  <2>1. ps[i] \in ToSet(ps) /\ ps[i].key \in Keys(ps)
    BY DEF ToSet, Keys
  <2>2. ASSUME NEW p \in ToSet(ps), p.key = ps[i].key PROVE p = ps[i]
    BY <2>2 DEF ToSet, Unique
  <2>3. (CHOOSE p \in ToSet(ps) : p.key = ps[i].key) = ps[i]
    BY <2>1, <2>2
  <2> QED
    BY <2>1, <2>3 DEF ParamOf
<1> QED
  BY <1>2, <1>3

\* A parameter that is written only if there is something in it.
Optional(key, raw) == IF raw = <<>> THEN <<>> ELSE <<Param(key, raw)>>

\* One more key.
LEMMA OptionalFacts ==
  ASSUME NEW ps \in Seq(Parameter), Unique(ps),
         NEW key \in Key, key \notin Keys(ps), NEW raw \in Seq(Unit)
  PROVE  /\ ps \o Optional(key, raw) \in Seq(Parameter)
         /\ Unique(ps \o Optional(key, raw))
         /\ Keys(ps \o Optional(key, raw)) = Keys(ps) \cup IF raw = <<>> THEN {} ELSE {key}
         /\ \A i \in DOMAIN ps : /\ i \in DOMAIN (ps \o Optional(key, raw))
                                 /\ (ps \o Optional(key, raw))[i] = ps[i]
         /\ raw # <<>> => /\ Len(ps) + 1 \in DOMAIN (ps \o Optional(key, raw))
                          /\ (ps \o Optional(key, raw))[Len(ps) + 1] = Param(key, raw)
<1>1. CASE raw = <<>>
  <2>1. ps \o Optional(key, raw) = ps
    BY <1>1, ConcatEmptySeq DEF Optional
  <2> QED
    BY <1>1, <2>1
<1>2. CASE raw # <<>>
  <2>0. PICK p : p = Param(key, raw)
    OBVIOUS
  <2>1. p \in Parameter /\ p = Param(key, raw) /\ p.key = key
    BY <2>0 DEF Param, Parameter
  <2>2. PICK more : more = Append(ps, p)
    OBVIOUS
  <2>3. ps \o Optional(key, raw) = more
    BY <1>2, <2>1, <2>2 DEF Optional
  <2>4. /\ more \in Seq(Parameter) /\ Len(ps) \in Nat /\ Len(more) = Len(ps) + 1
        /\ \A i \in 1..Len(ps) : more[i] = ps[i]
        /\ more[Len(ps) + 1] = p
    BY <2>1, <2>2, AppendFacts
  <2>5. DOMAIN ps = 1..Len(ps) /\ DOMAIN more = 1..(Len(ps) + 1)
    BY <2>4, LenProperties
  <2>6. \A i \in DOMAIN more : i \in DOMAIN ps \/ i = Len(ps) + 1
    BY <2>4, <2>5
  <2>7. \A i \in DOMAIN ps : ps[i].key # key
    BY DEF Keys
  <2>8. Unique(more)
    BY <2>1, <2>4, <2>5, <2>6, <2>7 DEF Unique
  <2>9. Keys(more) = Keys(ps) \cup {key}
    <3>1. \A k : k \in Keys(more) => k \in Keys(ps) \cup {key}
      BY <2>1, <2>4, <2>5, <2>6 DEF Keys
    <3>2. \A i \in DOMAIN ps : i \in DOMAIN more /\ ps[i].key = more[i].key
      BY <2>4, <2>5
    <3>3. key \in Keys(more)
      BY <2>1, <2>4, <2>5 DEF Keys
    <3> QED
      BY <3>1, <3>2, <3>3 DEF Keys
  <2> QED
    BY <1>2, <2>1, <2>3, <2>4, <2>5, <2>8, <2>9
<1> QED
  BY <1>1, <1>2

\* What parse_plaintext makes of the list of hashes in a query.
LEMMA HashesTyped ==
  ASSUME NEW raw \in Seq(Unit)
  PROVE  /\ ParseHashes(raw) \in Seq(Seq(Char)) \ {<<>>}
         /\ Len(ParseHashes(raw)) = Len(Split(raw, Raw("+")))
         /\ \A i \in DOMAIN ParseHashes(raw) : "?" \notin ToSet(ParseHashes(raw)[i])
<1>1. PICK parts : parts = Split(raw, Raw("+"))
  OBVIOUS
<1>2. parts \in Parts(Unit)
  <2>1. Raw("short") \in Unit
    BY DEF Raw, Unit, Char
  <2> QED
    BY <1>1, <2>1, SplitAppend
<1>3. parts \in Seq(Seq(Unit)) /\ Len(parts) \in Nat \ {0} /\ DOMAIN parts = 1..Len(parts)
  BY <1>2, EmptySeq, LenProperties DEF Parts
<1>4. ASSUME NEW i \in 1..Len(parts)
      PROVE  /\ StripVkUrl(Decode(parts[i])) \in Seq(Char)
             /\ "?" \notin ToSet(StripVkUrl(Decode(parts[i])))
  <2>1. parts[i] \in Seq(Unit)
    BY <1>3, ElementOfSeq
  <2> QED
    BY <2>1, UnitsTyped, StripFacts
<1>5. PICK hashes : hashes = ParseHashes(raw)
  OBVIOUS
<1>6. hashes = [i \in 1..Len(parts) |-> StripVkUrl(Decode(parts[i]))]
  BY <1>1, <1>3, <1>5 DEF ParseHashes
<1>7. /\ hashes \in Seq(Seq(Char)) /\ Len(hashes) = Len(parts) /\ DOMAIN hashes = 1..Len(parts)
      /\ \A i \in DOMAIN hashes : "?" \notin ToSet(hashes[i])
  BY <1>3, <1>4, <1>6
<1>8. hashes # <<>>
  BY <1>3, <1>7, EmptySeq
<1> QED
  BY <1>1, <1>5, <1>7, <1>8

\* What a link that parse_plaintext accepts is taken apart to.
Parsed(r) ==
  /\ r = [host |-> r.host, port |-> r.port, password |-> r.password,
          hashes |-> r.hashes, token |-> r.token]
  /\ {r.host, r.port, r.password, r.token} \subseteq Seq(Char)
  /\ Secret(r.password) /\ Secret(r.token)
  /\ r.hashes \in Seq(Seq(Char)) /\ Len(r.hashes) <= MaxHashes /\ IsInjective(r.hashes)
  /\ \A i \in DOMAIN r.hashes : Hash(r.hashes[i]) /\ "?" \notin ToSet(r.hashes[i])
  /\ r.hashes = <<>> \/ r.token = <<>>

\* The crate accepts nothing else.
LEMMA ParsedFacts ==
  ASSUME NEW q, q.params \in Seq(Parameter), ParsePlaintext(q) # Refused
  PROVE  Parsed(ParsePlaintext(q))
<1>1. PICK ps \in Seq(Parameter) : ps = Params(q)
  BY ParamsTyped
<1> DEFINE has(k)   == k \in Keys(ps)
           password == IF has("password") THEN Trim(Decode(ParamOf(ps, "password"))) ELSE <<>>
           hashes   == IF has("hashes") THEN ParseHashes(ParamOf(ps, "hashes")) ELSE <<>>
           token    == IF has("token") THEN Trim(Decode(ParamOf(ps, "token"))) ELSE <<>>
           host     == Decode(ParamOf(ps, "host"))
           port     == Decode(ParamOf(ps, "peer"))
           r        == [host |-> host, port |-> port, password |-> password,
                        hashes |-> hashes, token |-> token]
           Accepted == /\ ~Repeated(ps)
                       /\ {"v", "host", "peer"} \subseteq Keys(ps)
                       /\ q.version2 /\ q.usable
                       /\ Secret(password)
                       /\ has("hashes") => HashesOk(ParamOf(ps, "hashes"))
                       /\ has("token") => token # <<>> /\ Secret(token)
                       /\ ~(has("hashes") /\ has("token"))
<1>2. ParsePlaintext(q) = IF Accepted THEN r ELSE Refused
  BY <1>1 DEF ParsePlaintext
<1>3. Accepted /\ ParsePlaintext(q) = r
  BY <1>2
<1> HIDE DEF Accepted
<1>4. {"v", "host", "peer"} \subseteq Keys(ps)
  BY <1>3 DEF Accepted
<1>5. host \in Seq(Char) /\ port \in Seq(Char)
  BY <1>4, ParamTyped, UnitsTyped
<1>6. ASSUME NEW k \in {"password", "token"}, has(k)
      PROVE  Trim(Decode(ParamOf(ps, k))) \in Seq(Char)
  <2>1. Decode(ParamOf(ps, k)) \in Seq(Char)
    BY <1>6, ParamTyped, UnitsTyped
  <2> QED
    BY <2>1, TrimFacts
<1>7. password \in Seq(Char) /\ token \in Seq(Char) /\ Secret(password) /\ Secret(token)
  <2>1. <<>> \in Seq(Char) /\ ToSet(<<>>) = {}
    BY DEF ToSet
  <2>2. password \in Seq(Char) /\ token \in Seq(Char)
    BY <1>6, <2>1
  <2>3. Secret(<<>>)
    BY <2>1 DEF Secret
  <2>4. Secret(password) /\ (has("token") => Secret(token)) /\ (~has("token") => token = <<>>)
    BY <1>3 DEF Accepted
  <2> QED
    BY <2>2, <2>3, <2>4
<1>8. /\ hashes \in Seq(Seq(Char)) /\ Len(hashes) <= MaxHashes /\ IsInjective(hashes)
      /\ \A i \in DOMAIN hashes : Hash(hashes[i]) /\ "?" \notin ToSet(hashes[i])
  <2>1. CASE has("hashes")
    <3>1. PICK raw \in Seq(Unit) : raw = ParamOf(ps, "hashes")
      BY <2>1, ParamTyped
    <3>2. hashes = ParseHashes(raw) /\ HashesOk(raw)
      BY <1>3, <2>1, <3>1 DEF Accepted
    <3>3. /\ ParseHashes(raw) \in Seq(Seq(Char))
          /\ Len(ParseHashes(raw)) = Len(Split(raw, Raw("+")))
          /\ \A i \in DOMAIN ParseHashes(raw) : "?" \notin ToSet(ParseHashes(raw)[i])
      BY HashesTyped
    <3>4. /\ Len(Split(raw, Raw("+"))) <= MaxHashes
          /\ \A i \in DOMAIN ParseHashes(raw) : Hash(ParseHashes(raw)[i])
          /\ IsInjective(ParseHashes(raw))
      BY <3>2 DEF HashesOk
    <3> HIDE DEF hashes
    <3> QED
      BY <3>2, <3>3, <3>4
  <2>2. CASE ~has("hashes")
    <3>1. hashes = <<>>
      BY <2>2
    <3>2. <<>> \in Seq(Seq(Char)) /\ Len(<<>>) = 0 /\ DOMAIN <<>> = {}
      OBVIOUS
    <3>3. IsInjective(<<>>) /\ Len(<<>>) <= MaxHashes
      BY <3>2 DEF IsInjective, MaxHashes
    <3> HIDE DEF hashes
    <3> QED
      BY <3>1, <3>2, <3>3
  <2> QED
    BY <2>1, <2>2
<1>9. hashes = <<>> \/ token = <<>>
  BY <1>3 DEF Accepted
<1> HIDE DEF hashes, token, password, host, port
<1>10. /\ r.host = host /\ r.port = port /\ r.password = password
       /\ r.hashes = hashes /\ r.token = token
  OBVIOUS
<1> HIDE DEF r
<1>11. Parsed(r)
  <2>1. r = [host |-> r.host, port |-> r.port, password |-> r.password,
             hashes |-> r.hashes, token |-> r.token]
    BY <1>10 DEF r
  <2> QED
    BY <1>5, <1>7, <1>8, <1>9, <1>10, <2>1 DEF Parsed
<1> QED
  BY <1>3, <1>11

\* What to_link writes, parameter by parameter.
Base(r) == <<Param("v", <<Raw("short")>>), Param("host", UrlEncode(r.host)),
             Param("peer", UrlEncode(r.port))>>
HashList(r) == Join([i \in DOMAIN r.hashes |-> UrlEncode(r.hashes[i])], Raw("+"))

\* The list is cut where the hashes end: what is coded in them cuts nothing.
LEMMA HashListFacts ==
  ASSUME NEW r, Parsed(r)
  PROVE  /\ HashList(r) \in Seq(Unit) /\ (HashList(r) = <<>> <=> r.hashes = <<>>)
         /\ ([i \in DOMAIN r.hashes |-> UrlEncode(r.hashes[i])] = <<>> <=> r.hashes = <<>>)
         /\ r.hashes # <<>> =>
              Split(HashList(r), Raw("+")) = [i \in DOMAIN r.hashes |-> UrlEncode(r.hashes[i])]
<1>1. PICK hashes \in Seq(Seq(Char)) : hashes = r.hashes
  BY DEF Parsed
<1>2. Len(hashes) \in Nat /\ DOMAIN hashes = 1..Len(hashes)
  BY LenProperties
<1>3. PICK coded : coded = [i \in DOMAIN hashes |-> UrlEncode(hashes[i])]
  OBVIOUS
<1>4. ASSUME NEW i \in 1..Len(hashes)
      PROVE  UrlEncode(hashes[i]) \in Seq(Unit \ {Raw("+")})
  <2>1. hashes[i] \in Seq(Char)
    BY ElementOfSeq
  <2> QED
    BY <2>1, EncodeTyped
<1>5. /\ coded \in Seq(Seq(Unit \ {Raw("+")})) /\ Len(coded) = Len(hashes)
      /\ \A i \in 1..Len(hashes) : coded[i] = UrlEncode(hashes[i])
  BY <1>2, <1>3, <1>4
<1>6. coded = <<>> <=> hashes = <<>>
  BY <1>2, <1>5, EmptySeq
<1>7. Raw("+") \in Unit
  BY DEF Raw, Unit, Char
<1>8. HashList(r) = Join(coded, Raw("+"))
  BY <1>1, <1>3 DEF HashList
<1>9. HashList(r) \in Seq(Unit)
  <2>1. coded \in Seq(Seq(Unit)) /\ <<>> \in Seq(Unit)
    <3>1. Seq(Unit \ {Raw("+")}) \subseteq Seq(Unit)
      BY SeqMonotonic
    <3> QED
      BY <1>5, <3>1, SeqMonotonic
  <2> QED
    BY <1>7, <1>8, <2>1, JoinAppend
<1>10. hashes # <<>> => Split(HashList(r), Raw("+")) = coded
  BY <1>5, <1>6, <1>7, <1>8, SplitJoin
<1>11. hashes = <<>> => HashList(r) = <<>>
  BY <1>6, <1>8, JoinEmpty
<1>12. ASSUME hashes # <<>> PROVE HashList(r) # <<>>
  <2>1. 1 \in 1..Len(hashes)
    BY <1>2, <1>12, EmptySeq
  <2>2. hashes[1] \in Seq(Char) /\ hashes[1] # <<>>
    <3>1. Hash(hashes[1]) /\ hashes[1] \in Seq(Char)
      BY <1>1, <1>2, <2>1, ElementOfSeq DEF Parsed
    <3>2. DOMAIN hashes[1] # {}
      BY <3>1 DEF Hash
    <3> QED
      BY <3>1, <3>2
  <2>3. coded[1] # <<>>
    BY <1>5, <2>1, <2>2, EncodeTyped
  <2>4. << <<>> >>[1] = <<>>
    OBVIOUS
  <2> QED
    BY <1>10, <1>12, <2>3, <2>4, SplitEmpty
<1> QED
  BY <1>1, <1>3, <1>6, <1>9, <1>10, <1>11, <1>12

(* The parameters of the link that to_link writes: each key once, with the *)
(* coded value, and no key for what is empty.                              *)
LEMMA LinkParams ==
  ASSUME NEW r, Parsed(r)
  PROVE  \E ps \in Seq(Parameter) :
           /\ ps = ToLink(r).params /\ ~Repeated(ps)
           /\ {"v", "host", "peer"} \subseteq Keys(ps)
           /\ ("password" \in Keys(ps) <=> r.password # <<>>)
           /\ ("hashes" \in Keys(ps) <=> r.hashes # <<>>)
           /\ ("token" \in Keys(ps) <=> r.token # <<>>)
           /\ ParamOf(ps, "host") = UrlEncode(r.host)
           /\ ParamOf(ps, "peer") = UrlEncode(r.port)
           /\ (r.password # <<>> => ParamOf(ps, "password") = UrlEncode(r.password))
           /\ (r.hashes # <<>> => ParamOf(ps, "hashes") = HashList(r))
           /\ (r.token # <<>> => ParamOf(ps, "token") = UrlEncode(r.token))
<1>1. /\ UrlEncode(r.host) \in Seq(Unit) /\ UrlEncode(r.port) \in Seq(Unit)
      /\ UrlEncode(r.password) \in Seq(Unit) /\ (UrlEncode(r.password) = <<>> <=> r.password = <<>>)
      /\ UrlEncode(r.token) \in Seq(Unit) /\ (UrlEncode(r.token) = <<>> <=> r.token = <<>>)
  BY EncodeTyped DEF Parsed
<1>2. PICK password \in Seq(Unit) : password = UrlEncode(r.password)
  BY <1>1
<1>3. PICK token \in Seq(Unit) : token = UrlEncode(r.token)
  BY <1>1
<1>4. PICK hashes \in Seq(Unit) : hashes = HashList(r)
  BY HashListFacts
<1>5. (hashes = <<>> <=> r.hashes = <<>>) /\ (password = <<>> <=> r.password = <<>>)
      /\ (token = <<>> <=> r.token = <<>>)
  BY <1>1, <1>2, <1>3, <1>4, HashListFacts
<1>6. PICK base : base = Base(r)
  OBVIOUS
<1>7. /\ base \in Seq(Parameter) /\ Unique(base) /\ Keys(base) = {"v", "host", "peer"}
      /\ DOMAIN base = 1..3 /\ Len(base) = 3
      /\ base[2].key = "host" /\ base[2].raw = UrlEncode(r.host)
      /\ base[3].key = "peer" /\ base[3].raw = UrlEncode(r.port)
  <2>1. <<Raw("short")>> \in Seq(Unit)
    <3>1. Raw("short") \in Unit
      BY DEF Raw, Unit, Char
    <3> QED
      BY <3>1
  <2>2. PICK v : v = Param("v", <<Raw("short")>>)
    OBVIOUS
  <2>3. PICK h : h = Param("host", UrlEncode(r.host))
    OBVIOUS
  <2>4. PICK p : p = Param("peer", UrlEncode(r.port))
    OBVIOUS
  <2>a. /\ {v, h, p} \subseteq Parameter /\ v.key = "v"
        /\ h.key = "host" /\ h.raw = UrlEncode(r.host)
        /\ p.key = "peer" /\ p.raw = UrlEncode(r.port)
    BY <1>1, <2>1, <2>2, <2>3, <2>4 DEF Param, Parameter, Key, Known
  <2>5. base = <<v, h, p>>
    BY <1>6, <2>2, <2>3, <2>4 DEF Base
  <2>6. /\ base \in Seq(Parameter) /\ DOMAIN base = 1..3 /\ Len(base) = 3
        /\ base[1] = v /\ base[2] = h /\ base[3] = p
    BY <2>5, <2>a
  <2>7. \A i \in 1..3 : i = 1 \/ i = 2 \/ i = 3
    OBVIOUS
  <2>8. Unique(base) /\ Keys(base) = {"v", "host", "peer"}
    BY <2>6, <2>7, <2>a DEF Unique, Keys
  <2> QED
    BY <2>6, <2>8, <2>a
<1>8. PICK two : two = base \o Optional("password", password)
  OBVIOUS
<1>9. /\ two \in Seq(Parameter) /\ Unique(two)
      /\ Keys(two) = Keys(base) \cup IF password = <<>> THEN {} ELSE {"password"}
      /\ \A i \in DOMAIN base : i \in DOMAIN two /\ two[i] = base[i]
      /\ password # <<>> => /\ Len(base) + 1 \in DOMAIN two
                            /\ two[Len(base) + 1] = Param("password", password)
  <2>1. "password" \in Key /\ "password" \notin Keys(base)
    BY <1>7 DEF Key, Known
  <2>2. base \in Seq(Parameter) /\ Unique(base)
    BY <1>7
  <2> QED
    BY <1>8, <2>1, <2>2, OptionalFacts
<1>10. PICK three : three = two \o Optional("hashes", hashes)
  OBVIOUS
<1>11. /\ three \in Seq(Parameter) /\ Unique(three)
       /\ Keys(three) = Keys(two) \cup IF hashes = <<>> THEN {} ELSE {"hashes"}
       /\ \A i \in DOMAIN two : i \in DOMAIN three /\ three[i] = two[i]
       /\ hashes # <<>> => /\ Len(two) + 1 \in DOMAIN three
                           /\ three[Len(two) + 1] = Param("hashes", hashes)
  <2>1. "hashes" \in Key /\ "hashes" \notin Keys(two)
    BY <1>7, <1>9 DEF Key, Known
  <2> QED
    BY <1>9, <1>10, <2>1, OptionalFacts, SMTT(40)
<1>12. PICK ps : ps = three \o Optional("token", token)
  OBVIOUS
<1>13. /\ ps \in Seq(Parameter) /\ Unique(ps)
       /\ Keys(ps) = Keys(three) \cup IF token = <<>> THEN {} ELSE {"token"}
       /\ \A i \in DOMAIN three : i \in DOMAIN ps /\ ps[i] = three[i]
       /\ token # <<>> => /\ Len(three) + 1 \in DOMAIN ps
                          /\ ps[Len(three) + 1] = Param("token", token)
  <2>1. "token" \in Key /\ "token" \notin Keys(three)
    BY <1>7, <1>9, <1>11 DEF Key, Known
  <2> QED
    BY <1>11, <1>12, <2>1, OptionalFacts, SMTT(40)
<1>14. ps = ToLink(r).params
  <2>1. /\ (IF r.password = <<>> THEN <<>> ELSE <<Param("password", UrlEncode(r.password))>>)
             = Optional("password", password)
        /\ (IF [i \in DOMAIN r.hashes |-> UrlEncode(r.hashes[i])] = <<>> THEN <<>>
            ELSE <<Param("hashes", HashList(r))>>) = Optional("hashes", hashes)
        /\ (IF r.token = <<>> THEN <<>> ELSE <<Param("token", UrlEncode(r.token))>>)
             = Optional("token", token)
    BY <1>2, <1>3, <1>4, <1>5, HashListFacts DEF Optional
  <2>2. ToLink(r).params = Base(r)
          \o (IF r.password = <<>> THEN <<>> ELSE <<Param("password", UrlEncode(r.password))>>)
          \o (IF [i \in DOMAIN r.hashes |-> UrlEncode(r.hashes[i])] = <<>> THEN <<>>
              ELSE <<Param("hashes", HashList(r))>>)
          \o (IF r.token = <<>> THEN <<>> ELSE <<Param("token", UrlEncode(r.token))>>)
    BY DEF ToLink, Base, HashList
  <2> QED
    BY <1>6, <1>8, <1>10, <1>12, <2>1, <2>2
<1>15. /\ ~Repeated(ps)
       /\ \A i \in DOMAIN ps : ParamOf(ps, ps[i].key) = ps[i].raw
  BY <1>13, UniqueFacts
<1>16. ParamOf(ps, "host") = UrlEncode(r.host) /\ ParamOf(ps, "peer") = UrlEncode(r.port)
  <2>1. 2 \in DOMAIN ps /\ 3 \in DOMAIN ps /\ ps[2] = base[2] /\ ps[3] = base[3]
    <3>1. 2 \in DOMAIN base /\ 3 \in DOMAIN base
      BY <1>7
    <3> QED
      BY <1>9, <1>11, <1>13, <3>1
  <2> QED
    BY <1>7, <1>15, <2>1
<1>17. \A k, raw : Param(k, raw).key = k /\ Param(k, raw).raw = raw
  BY DEF Param
<1>18. password # <<>> => ParamOf(ps, "password") = password
  <2>1. password # <<>> => \E i \in DOMAIN ps : ps[i] = Param("password", password)
    BY <1>9, <1>11, <1>13
  <2> QED
    BY <1>15, <1>17, <2>1
<1>19. hashes # <<>> => ParamOf(ps, "hashes") = hashes
  <2>1. hashes # <<>> => \E i \in DOMAIN ps : ps[i] = Param("hashes", hashes)
    BY <1>11, <1>13
  <2> QED
    BY <1>15, <1>17, <2>1
<1>20. token # <<>> => ParamOf(ps, "token") = token
  BY <1>13, <1>15, <1>17
<1>21. /\ {"v", "host", "peer"} \subseteq Keys(ps)
       /\ ("password" \in Keys(ps) <=> password # <<>>)
       /\ ("hashes" \in Keys(ps) <=> hashes # <<>>)
       /\ ("token" \in Keys(ps) <=> token # <<>>)
  BY <1>7, <1>9, <1>11, <1>13
<1> QED
  BY <1>2, <1>3, <1>4, <1>5, <1>13, <1>14, <1>15, <1>16, <1>18, <1>19, <1>20, <1>21

(* A link that was accepted comes back from what to_link writes of it: each *)
(* text decoded to what it was, each hash where it was.                     *)
LEMMA ComesBack ==
  ASSUME NEW r, Parsed(r), Ascii(r.host \o r.port \o r.password \o r.token),
         \A i \in DOMAIN r.hashes : Ascii(r.hashes[i]) /\ Head(r.hashes[i]) # "join"
  PROVE  ParsePlaintext(ToLink(r)) = r
<1>1. PICK q : q = ToLink(r)
  OBVIOUS
<1>2. q.separated /\ q.version2 /\ q.usable
  BY <1>1 DEF ToLink
<1>3. PICK ps \in Seq(Parameter) :
        /\ ps = q.params /\ ~Repeated(ps)
        /\ {"v", "host", "peer"} \subseteq Keys(ps)
        /\ ("password" \in Keys(ps) <=> r.password # <<>>)
        /\ ("hashes" \in Keys(ps) <=> r.hashes # <<>>)
        /\ ("token" \in Keys(ps) <=> r.token # <<>>)
        /\ ParamOf(ps, "host") = UrlEncode(r.host)
        /\ ParamOf(ps, "peer") = UrlEncode(r.port)
        /\ (r.password # <<>> => ParamOf(ps, "password") = UrlEncode(r.password))
        /\ (r.hashes # <<>> => ParamOf(ps, "hashes") = HashList(r))
        /\ (r.token # <<>> => ParamOf(ps, "token") = UrlEncode(r.token))
  BY <1>1, LinkParams
<1>4. Params(q) = ps
  BY <1>2, <1>3 DEF Params
<1>5. {r.host, r.port, r.password, r.token} \subseteq Seq(Char)
  BY DEF Parsed
<1>6. Ascii(r.host) /\ Ascii(r.port) /\ Ascii(r.password) /\ Ascii(r.token)
  <2>1. ASSUME NEW s \in Seq(Char), NEW t \in Seq(Char)
        PROVE  s \o t \in Seq(Char) /\ (Ascii(s \o t) => Ascii(s) /\ Ascii(t))
    <3>1. PICK u : u = s \o t
      OBVIOUS
    <3>2. /\ u \in Seq(Char) /\ Len(u) = Len(s) + Len(t) /\ Len(s) \in Nat /\ Len(t) \in Nat
          /\ \A i \in 1..Len(u) : u[i] = IF i <= Len(s) THEN s[i] ELSE t[i - Len(s)]
      BY <3>1
    <3>3. DOMAIN s = 1..Len(s) /\ DOMAIN t = 1..Len(t) /\ DOMAIN u = 1..Len(u)
      BY <3>2, LenProperties
    <3>4. \A i \in DOMAIN s : i \in DOMAIN u /\ u[i] = s[i]
      BY <3>2, <3>3
    <3>5. ASSUME NEW i \in DOMAIN t PROVE i + Len(s) \in DOMAIN u /\ u[i + Len(s)] = t[i]
      BY <3>2, <3>3
    <3>6. ToSet(s) \subseteq ToSet(u) /\ ToSet(t) \subseteq ToSet(u)
      BY <3>4, <3>5 DEF ToSet
    <3> QED
      BY <3>1, <3>2, <3>6 DEF Ascii
  <2>2. PICK a : a = r.host \o r.port
    OBVIOUS
  <2>3. a \in Seq(Char) /\ (Ascii(a) => Ascii(r.host) /\ Ascii(r.port))
    BY <1>5, <2>1, <2>2
  <2>4. PICK b : b = a \o r.password
    OBVIOUS
  <2>5. b \in Seq(Char) /\ (Ascii(b) => Ascii(a) /\ Ascii(r.password))
    BY <1>5, <2>1, <2>3, <2>4
  <2>6. Ascii(b \o r.token) => Ascii(b) /\ Ascii(r.token)
    BY <1>5, <2>1, <2>5
  <2> QED
    BY <2>2, <2>3, <2>4, <2>5, <2>6
<1>7. Decode(UrlEncode(r.host)) = r.host /\ Decode(UrlEncode(r.port)) = r.port
  BY <1>5, <1>6, DecodeEncode
<1>8. Trim(Decode(UrlEncode(r.password))) = r.password
      /\ Trim(Decode(UrlEncode(r.token))) = r.token
  <2>1. Trim(r.password) = r.password /\ Trim(r.token) = r.token
    BY <1>5, TrimFacts DEF Parsed, Secret
  <2>2. Decode(UrlEncode(r.password)) = r.password /\ Decode(UrlEncode(r.token)) = r.token
    BY <1>5, <1>6, DecodeEncode
  <2> QED
    BY <2>1, <2>2
<1>9. ASSUME r.hashes # <<>>
      PROVE  /\ ParseHashes(HashList(r)) = r.hashes
             /\ HashesOk(HashList(r))
  <2>1. PICK hashes \in Seq(Seq(Char)) : hashes = r.hashes
    BY DEF Parsed
  <2>2. PICK coded : coded = [i \in DOMAIN hashes |-> UrlEncode(hashes[i])]
    OBVIOUS
  <2>3. Split(HashList(r), Raw("+")) = coded
    BY <1>9, <2>1, <2>2, HashListFacts
  <2>4. DOMAIN hashes = 1..Len(hashes) /\ Len(hashes) \in Nat
    BY LenProperties
  <2>5. DOMAIN coded = DOMAIN hashes /\ Len(coded) = Len(hashes)
        /\ \A i \in DOMAIN hashes : coded[i] = UrlEncode(hashes[i])
    BY <2>2, <2>4
  <2>6. ASSUME NEW i \in DOMAIN hashes PROVE StripVkUrl(Decode(coded[i])) = hashes[i]
    <3>1. hashes[i] \in Seq(Char)
      BY <2>4, ElementOfSeq
    <3>2. Hash(hashes[i]) /\ "?" \notin ToSet(hashes[i])
      BY <2>1 DEF Parsed
    <3>3. hashes[i] # <<>> /\ " " \notin ToSet(hashes[i])
      <4>1. DOMAIN hashes[i] # {} /\ " " \notin ToSet(hashes[i])
        BY <3>2 DEF Hash
      <4>2. DOMAIN <<>> = {}
        OBVIOUS
      <4> QED
        BY <4>1, <4>2
    <3>4. Decode(coded[i]) = hashes[i]
      BY <2>1, <2>5, <3>1, DecodeEncode
    <3>5. Head(hashes[i]) # "join"
      BY <2>1
    <3>6. ToSet(hashes[i]) \cap {" ", "?"} = {}
      BY <3>2, <3>3
    <3> QED
      BY <3>1, <3>3, <3>4, <3>5, <3>6, StripFacts
  <2>7. ParseHashes(HashList(r)) = [i \in DOMAIN coded |-> StripVkUrl(Decode(coded[i]))]
    BY <2>3 DEF ParseHashes
  <2>8. ParseHashes(HashList(r)) = hashes
    BY <2>4, <2>5, <2>6, <2>7
  <2>9. HashesOk(HashList(r))
    <3>1. /\ Len(hashes) <= MaxHashes /\ IsInjective(hashes)
          /\ \A i \in DOMAIN hashes : Hash(hashes[i])
      BY <2>1 DEF Parsed
    <3> QED
      BY <2>3, <2>5, <2>8, <3>1 DEF HashesOk
  <2> QED
    BY <2>1, <2>8, <2>9
<1> DEFINE has(k)   == k \in Keys(ps)
           password == IF has("password") THEN Trim(Decode(ParamOf(ps, "password"))) ELSE <<>>
           hashes   == IF has("hashes") THEN ParseHashes(ParamOf(ps, "hashes")) ELSE <<>>
           token    == IF has("token") THEN Trim(Decode(ParamOf(ps, "token"))) ELSE <<>>
           Accepted == /\ ~Repeated(ps)
                       /\ {"v", "host", "peer"} \subseteq Keys(ps)
                       /\ q.version2 /\ q.usable
                       /\ Secret(password)
                       /\ has("hashes") => HashesOk(ParamOf(ps, "hashes"))
                       /\ has("token") => token # <<>> /\ Secret(token)
                       /\ ~(has("hashes") /\ has("token"))
<1>10. password = r.password
  BY <1>3, <1>8
<1>11. hashes = r.hashes
  BY <1>3, <1>9
<1>12. token = r.token
  BY <1>3, <1>8
<1>13. has("hashes") => HashesOk(ParamOf(ps, "hashes"))
  BY <1>3, <1>9
<1>14. ParsePlaintext(q) =
         IF Accepted THEN [host |-> Decode(ParamOf(ps, "host")),
                           port |-> Decode(ParamOf(ps, "peer")),
                           password |-> password, hashes |-> hashes, token |-> token]
         ELSE Refused
  BY <1>4 DEF ParsePlaintext
<1> HIDE DEF password, hashes, token
<1>15. Accepted
  BY <1>2, <1>3, <1>10, <1>12, <1>13 DEF Parsed
<1>16. r = [host |-> r.host, port |-> r.port, password |-> r.password,
            hashes |-> r.hashes, token |-> r.token]
  BY DEF Parsed
<1> QED
  BY <1>1, <1>3, <1>7, <1>10, <1>11, <1>12, <1>14, <1>15, <1>16

\* The link is one of those a user may paste.
LEMMA LinkPasted == LinkSpec => [](link \in Link \cup {NoLink})
<1>1. LinkInit => link \in Link \cup {NoLink}
  BY DEF LinkInit
<1>2. link \in Link \cup {NoLink} /\ [LinkNext]_linkVars => (link \in Link \cup {NoLink})'
  BY DEF LinkNext, Parse, FillForm, Launch, Forget, linkVars
<1> QED
  BY <1>1, <1>2, PTL DEF LinkSpec

(* A sealed link of any length and with any characters that the crate      *)
(* accepts survives to_link and parse_plaintext.                           *)
THEOREM LinksComeBack == LinkSpec => []RoundTrip
<1>1. link \in Link \cup {NoLink} => RoundTrip
  <2> SUFFICES ASSUME link \in Link \cup {NoLink},
                      link.scheme = "csqtt", link.form = "sealed",
                      NEW r, r = ParsePlaintext(link), r # Refused,
                      Ascii(r.host \o r.port \o r.password \o r.token),
                      \A i \in DOMAIN r.hashes : Ascii(r.hashes[i]) /\ Head(r.hashes[i]) # "join"
               PROVE  ParsePlaintext(ToLink(r)) = r
    BY DEF RoundTrip
  <2>1. link \in Link
    BY DEF NoLink
  <2>2. link.params \in Seq(Parameter)
    BY <2>1, LinkAssumption
  <2>3. Parsed(r)
    BY <2>2, ParsedFacts
  <2> QED
    BY <2>3, ComesBack
<1> QED
  BY <1>1, LinkPasted, PTL

-----------------------------------------------------------------------------
(* Lists of hashes, from the link or form to a core.                       *)

\* What NonEmpty keeps, part by part.
KeepStep(U, parts) ==
  [n \in 1..Len(parts) |->
     [kept \in Seq(U) |-> IF parts[n] = <<>> THEN kept ELSE Append(kept, parts[n])]]

(* NonEmpty follows these steps.                                           *)
LEMMA NonEmptyRecurs ==
  ASSUME NEW U, NEW parts \in Seq(U)
  PROVE  \E g : /\ Recurs(g, Len(parts), Seq(U), <<>>, KeepStep(U, parts))
                /\ NonEmpty(parts) = g[Len(parts)]
<1>1. Len(parts) \in Nat /\ <<>> \in Seq(U)
  OBVIOUS
<1>2. KeepStep(U, parts) \in Steps(Len(parts), Seq(U))
  <2>1. ASSUME NEW n \in 1..Len(parts), NEW kept \in Seq(U)
        PROVE  Append(kept, parts[n]) \in Seq(U)
    <3>1. parts[n] \in U
      BY ElementOfSeq
    <3> QED
      BY <3>1
  <2> QED
    BY <2>1 DEF KeepStep, Steps
<1>3. PICK g : Recurs(g, Len(parts), Seq(U), <<>>, KeepStep(U, parts))
  BY <1>1, <1>2, Recursion, Zenon
<1> DEFINE kept[n \in 0..Len(parts)] ==
             IF n = 0 THEN <<>>
             ELSE IF parts[n] = <<>> THEN kept[n - 1] ELSE Append(kept[n - 1], parts[n])
<1>4. NonEmpty(parts) = kept[Len(parts)]
  BY DEF NonEmpty
<1>5. g = [n \in 0..Len(parts) |->
             IF n = 0 THEN <<>>
             ELSE IF parts[n] = <<>> THEN g[n - 1] ELSE Append(g[n - 1], parts[n])]
  <2>1. ASSUME NEW n \in 1..Len(parts)
        PROVE  g[n] = IF parts[n] = <<>> THEN g[n - 1] ELSE Append(g[n - 1], parts[n])
    <3>1. g[n - 1] \in Seq(U) /\ g[n] = KeepStep(U, parts)[n][g[n - 1]]
      BY <1>1, <1>3 DEF Recurs
    <3> QED
      BY <3>1 DEF KeepStep
  <2>2. ASSUME NEW n \in 0..Len(parts)
        PROVE  g[n] = IF n = 0 THEN <<>>
                      ELSE IF parts[n] = <<>> THEN g[n - 1] ELSE Append(g[n - 1], parts[n])
    <3>1. n = 0 \/ n \in 1..Len(parts)
      BY <1>1
    <3> QED
      BY <1>3, <2>1, <3>1 DEF Recurs
  <2>3. g \in [0..Len(parts) -> Seq(U)]
    BY <1>3 DEF Recurs
  <2> QED
    BY <2>2, <2>3
<1>6. kept = [n \in 0..Len(parts) |->
                IF n = 0 THEN <<>>
                ELSE IF parts[n] = <<>> THEN kept[n - 1] ELSE Append(kept[n - 1], parts[n])]
  BY <1>5
<1> HIDE DEF kept
<1>7. kept[Len(parts)] = g[Len(parts)]
  <2> DEFINE T == {n \in Nat : n <= Len(parts) => kept[n] = g[n]}
  <2>1. 0 \in T
    BY <1>1, <1>5, <1>6
  <2>2. ASSUME NEW n \in Nat, n \in T PROVE n + 1 \in T
    <3> SUFFICES ASSUME n + 1 <= Len(parts) PROVE kept[n + 1] = g[n + 1]
      OBVIOUS
    <3>1. n + 1 \in 0..Len(parts) /\ n + 1 # 0 /\ (n + 1) - 1 = n /\ kept[n] = g[n]
      BY <1>1, <2>2
    <3>2. g[n + 1] = IF parts[n + 1] = <<>> THEN g[n] ELSE Append(g[n], parts[n + 1])
      BY <1>5, <3>1
    <3>3. kept[n + 1] = IF parts[n + 1] = <<>> THEN kept[n] ELSE Append(kept[n], parts[n + 1])
      BY <1>6, <3>1
    <3> QED
      BY <3>1, <3>2, <3>3
  <2>3. Len(parts) \in T
    <3> HIDE DEF T
    <3> QED
      BY <1>1, <2>1, <2>2, Induction
  <2> QED
    BY <1>1, <2>3
<1> QED
  BY <1>3, <1>4, <1>7

\* A part that is not empty is kept, behind those that were.
LEMMA NonEmptyAppend ==
  ASSUME NEW U, NEW parts \in Seq(U), NEW part \in U
  PROVE  /\ NonEmpty(parts) \in Seq(U)
         /\ NonEmpty(Append(parts, part)) =
              IF part = <<>> THEN NonEmpty(parts) ELSE Append(NonEmpty(parts), part)
<1>1. PICK more : more = Append(parts, part)
  OBVIOUS
<1>2. /\ more \in Seq(U) /\ Len(parts) \in Nat /\ Len(more) = Len(parts) + 1
      /\ \A n \in 1..Len(parts) : more[n] = parts[n]
      /\ more[Len(parts) + 1] = part
  BY <1>1, AppendFacts
<1>3. PICK r : r = KeepStep(U, parts)
  OBVIOUS
<1>4. PICK t : t = KeepStep(U, more)
  OBVIOUS
<1>5. PICK g : /\ Recurs(g, Len(parts), Seq(U), <<>>, r)
               /\ NonEmpty(parts) = g[Len(parts)]
  BY <1>3, NonEmptyRecurs
<1>6. PICK h : /\ Recurs(h, Len(parts) + 1, Seq(U), <<>>, t)
               /\ NonEmpty(more) = h[Len(parts) + 1]
  BY <1>2, <1>4, NonEmptyRecurs
<1>7. \A n \in 1..Len(parts) : r[n] = t[n]
  <2> SUFFICES ASSUME NEW n \in 1..Len(parts) PROVE r[n] = t[n]
    OBVIOUS
  <2>1. n \in 1..Len(more) /\ more[n] = parts[n]
    BY <1>2
  <2> QED
    BY <1>3, <1>4, <2>1 DEF KeepStep
<1>8. g[Len(parts)] \in Seq(U) /\ h[Len(parts) + 1] = t[Len(parts) + 1][g[Len(parts)]]
  BY <1>2, <1>5, <1>6, <1>7, RecursAppend
<1>9. Len(parts) + 1 \in 1..Len(more)
  BY <1>2
<1> QED
  BY <1>1, <1>2, <1>4, <1>5, <1>6, <1>8, <1>9 DEF KeepStep

\* Nothing is kept of nothing.
LEMMA NonEmptyNone == NonEmpty(<<>>) = <<>>
<1>1. <<>> \in Seq({}) /\ Len(<<>>) = 0
  OBVIOUS
<1>2. PICK g : /\ Recurs(g, Len(<<>>), Seq({}), <<>>, KeepStep({}, <<>>))
               /\ NonEmpty(<<>>) = g[Len(<<>>)]
  BY <1>1, NonEmptyRecurs
<1> QED
  BY <1>1, <1>2 DEF Recurs

\* Of two lists in a row, what is kept of each.
LEMMA NonEmptyConcat ==
  ASSUME NEW U, NEW first \in Seq(U), NEW second \in Seq(U)
  PROVE  NonEmpty(first \o second) = NonEmpty(first) \o NonEmpty(second)
<1> DEFINE T == {s \in Seq(U) : NonEmpty(first \o s) = NonEmpty(first) \o NonEmpty(s)}
<1>1. NonEmpty(first) \in Seq(U)
  <2>1. CASE first = <<>>
    BY <2>1, NonEmptyNone
  <2>2. CASE first # <<>>
    <3>1. first[1] \in U
      BY <2>2, EmptySeq, ElementOfSeq, LenProperties
    <3> QED
      BY <3>1, NonEmptyAppend
  <2> QED
    BY <2>1, <2>2
<1>2. <<>> \in T
  BY <1>1, NonEmptyNone, ConcatEmptySeq
<1>3. ASSUME NEW s \in Seq(U), NEW u \in U, s \in T PROVE Append(s, u) \in T
  <2>1. PICK whole : whole = first \o s
    OBVIOUS
  <2>2. /\ whole \in Seq(U) /\ first \o Append(s, u) = Append(whole, u)
        /\ Append(s, u) \in Seq(U)
    BY <2>1
  <2>3. /\ NonEmpty(s) \in Seq(U)
        /\ NonEmpty(Append(s, u)) = IF u = <<>> THEN NonEmpty(s) ELSE Append(NonEmpty(s), u)
    BY NonEmptyAppend
  <2>4. NonEmpty(Append(whole, u)) =
          IF u = <<>> THEN NonEmpty(whole) ELSE Append(NonEmpty(whole), u)
    BY <2>2, NonEmptyAppend
  <2>5. NonEmpty(whole) = NonEmpty(first) \o NonEmpty(s)
    BY <1>3, <2>1
  <2>6. NonEmpty(first) \o Append(NonEmpty(s), u) = Append(NonEmpty(first) \o NonEmpty(s), u)
    BY <1>1, <2>3
  <2> QED
    BY <2>2, <2>3, <2>4, <2>5, <2>6
<1> HIDE DEF T
<1>4. second \in T
  BY <1>2, <1>3, SeqInduction
<1> QED
  BY <1>4 DEF T

\* Where no part is empty all are kept; where only empty ones are outside W, all are in W.
LEMMA NonEmptyAll ==
  ASSUME NEW U, NEW parts \in Seq(U), <<>> \notin U
  PROVE  NonEmpty(parts) = parts
<1> DEFINE T == {s \in Seq(U) : NonEmpty(s) = s}
<1>1. <<>> \in T
  BY NonEmptyNone
<1>2. ASSUME NEW s \in Seq(U), NEW u \in U, s \in T PROVE Append(s, u) \in T
  <2>1. NonEmpty(Append(s, u)) = IF u = <<>> THEN NonEmpty(s) ELSE Append(NonEmpty(s), u)
    BY NonEmptyAppend
  <2> QED
    BY <1>2, <2>1
<1> HIDE DEF T
<1>3. parts \in T
  BY <1>1, <1>2, SeqInduction
<1> QED
  BY <1>3 DEF T

\* If W has all that is kept, and the empty part, it has all parts.
LEMMA NonEmptyWithin ==
  ASSUME NEW U, NEW W, NEW parts \in Seq(U), <<>> \in W, NonEmpty(parts) \in Seq(W)
  PROVE  parts \in Seq(W)
<1> DEFINE T == {s \in Seq(U) : NonEmpty(s) \in Seq(W) => s \in Seq(W)}
<1>1. <<>> \in T
  OBVIOUS
<1>2. ASSUME NEW s \in Seq(U), NEW u \in U, s \in T PROVE Append(s, u) \in T
  <2>1. PICK kept : kept = NonEmpty(s)
    OBVIOUS
  <2>2. kept \in Seq(U) /\ NonEmpty(Append(s, u)) = IF u = <<>> THEN kept ELSE Append(kept, u)
    BY <2>1, NonEmptyAppend
  <2> SUFFICES ASSUME NonEmpty(Append(s, u)) \in Seq(W) PROVE Append(s, u) \in Seq(W)
    OBVIOUS
  <2>3. kept \in Seq(W) /\ u \in W
    <3>1. CASE u = <<>>
      BY <2>2, <3>1
    <3>2. CASE u # <<>>
      <4>1. PICK more : more = Append(kept, u)
        OBVIOUS
      <4>2. /\ more \in Seq(U) /\ more \in Seq(W)
            /\ Len(kept) \in Nat /\ Len(more) = Len(kept) + 1 /\ more[Len(kept) + 1] = u
            /\ \A n \in 1..Len(kept) : more[n] = kept[n]
        BY <2>2, <3>2, <4>1
      <4>3. \A n \in 1..Len(kept) : kept[n] \in W
        BY <4>2
      <4> QED
        BY <2>2, <4>2, <4>3
    <3> QED
      BY <3>1, <3>2
  <2> QED
    BY <1>2, <2>1, <2>3
<1> HIDE DEF T
<1>3. parts \in T
  BY <1>1, <1>2, SeqInduction
<1> QED
  BY <1>3 DEF T

\* A sequence that has something has a last element.
LEMMA Lasts ==
  ASSUME NEW U, NEW parts \in Seq(U), parts # <<>>
  PROVE  \E most \in Seq(U), last \in U : parts = Append(most, last)
<1>1. PICK n \in Nat : Len(parts) = n + 1
  <2>1. Len(parts) \in Nat /\ Len(parts) # 0
    BY EmptySeq
  <2>2. Len(parts) - 1 \in Nat /\ Len(parts) = (Len(parts) - 1) + 1
    BY <2>1
  <2> QED
    BY <2>2
<1>2. PICK most : most = SubSeq(parts, 1, n)
  OBVIOUS
<1>3. /\ most \in Seq(U) /\ Len(most) = n
      /\ \A i \in 1..n : most[i] = parts[i]
      /\ parts[n + 1] \in U
  BY <1>1, <1>2
<1>4. PICK other : other = Append(most, parts[n + 1])
  OBVIOUS
<1>5. /\ other \in Seq(U) /\ Len(other) = Len(parts)
      /\ \A i \in 1..n : other[i] = parts[i]
      /\ other[n + 1] = parts[n + 1]
  BY <1>1, <1>3, <1>4, AppendFacts
<1>6. \A i \in 1..Len(parts) : other[i] = parts[i]
  BY <1>1, <1>5
<1>7. other = parts
  BY <1>5, <1>6, SeqEqual
<1> QED
  BY <1>3, <1>4, <1>7

\* A part that goes on, behind others.
LEMMA LongerConcat ==
  ASSUME NEW U, NEW first \in Seq(Seq(U)), NEW parts \in Parts(U), NEW u \in U
  PROVE  Longer(first \o parts, u) = first \o Longer(parts, u)
<1>1. parts \in Seq(Seq(U)) /\ parts # <<>>
  BY DEF Parts
<1>2. PICK most \in Seq(Seq(U)), last \in Seq(U) : parts = Append(most, last)
  BY <1>1, Lasts
<1>3. PICK front : front = first \o most
  OBVIOUS
<1>4. front \in Seq(Seq(U)) /\ first \o parts = Append(front, last)
  BY <1>2, <1>3
<1>5. Longer(Append(front, last), u) = Append(front, Append(last, u))
  BY <1>4, LongerLast
<1>6. Longer(parts, u) = Append(most, Append(last, u))
  BY <1>2, LongerLast
<1>7. PICK longer : longer = Append(last, u)
  OBVIOUS
<1>9. longer \in Seq(U)
  BY <1>2, <1>7
<1>8. first \o Append(most, longer) = Append(front, longer)
  BY <1>3, <1>9
<1> QED
  BY <1>4, <1>5, <1>6, <1>7, <1>8

\* The parts of two texts with a separator between them.
LEMMA SplitConcat ==
  ASSUME NEW U, NEW separator \in U, NEW text \in Seq(U), NEW more \in Seq(U)
  PROVE  Split(Append(text, separator) \o more, separator)
           = Split(text, separator) \o Split(more, separator)
<1>1. PICK begun : begun = Append(text, separator)
  OBVIOUS
<1>2. PICK parts : parts = Split(text, separator)
  OBVIOUS
<1>3. begun \in Seq(U) /\ parts \in Parts(U) /\ parts \in Seq(Seq(U))
      /\ Split(begun, separator) = Append(parts, <<>>)
  BY <1>1, <1>2, SplitAppend DEF Parts
<1> DEFINE T == {p \in Seq(U) : Split(begun \o p, separator) = parts \o Split(p, separator)}
<1>4. <<>> \in T
  <2>1. begun \o <<>> = begun
    BY <1>3, ConcatEmptySeq
  <2>2. PICK none : none = <<>>
    OBVIOUS
  <2>3. none \in Seq(U)
    BY <2>2
  <2>4. parts \o <<none>> = Append(parts, none)
    BY <1>3, <2>3
  <2>5. Split(begun \o none, separator) = parts \o Split(none, separator)
    <3>1. Split(begun, separator) = Append(parts, none) /\ begun \o none = begun
      BY <1>3, <2>1, <2>2
    <3>2. Split(none, separator) = <<none>>
      BY <2>2, SplitEmpty
    <3> QED
      BY <2>4, <3>1, <3>2
  <2> QED
    BY <2>2, <2>3, <2>5
<1>5. ASSUME NEW p \in Seq(U), NEW u \in U, p \in T PROVE Append(p, u) \in T
  <2>1. PICK whole : whole = begun \o p
    OBVIOUS
  <2>2. PICK behind : behind = Split(p, separator)
    OBVIOUS
  <2>3. /\ whole \in Seq(U) /\ begun \o Append(p, u) = Append(whole, u)
        /\ Append(p, u) \in Seq(U)
    BY <1>3, <2>1
  <2>4. Split(Append(whole, u), separator) =
          IF u = separator THEN Append(Split(whole, separator), <<>>)
          ELSE Longer(Split(whole, separator), u)
    BY <2>3, SplitAppend
  <2>5. /\ behind \in Parts(U)
        /\ Split(Append(p, u), separator) =
             IF u = separator THEN Append(behind, <<>>) ELSE Longer(behind, u)
    BY <2>2, SplitAppend
  <2>6. Split(whole, separator) = parts \o behind
    BY <1>5, <2>1, <2>2
  <2>7. Longer(parts \o behind, u) = parts \o Longer(behind, u)
    BY <1>3, <2>5, LongerConcat
  <2>8. Append(parts \o behind, <<>>) = parts \o Append(behind, <<>>)
    <3>1. PICK none : none = <<>>
      OBVIOUS
    <3>2. none \in Seq(U) /\ behind \in Seq(Seq(U))
      BY <2>5, <3>1 DEF Parts
    <3>4. PICK V : V = Seq(U)
      OBVIOUS
    <3>5. parts \in Seq(V) /\ behind \in Seq(V) /\ none \in V
      BY <1>3, <3>2, <3>4
    <3>6. PICK both : both = parts \o behind
      OBVIOUS
    <3>3. parts \o Append(behind, none) = Append(both, none)
      BY <3>5, <3>6
    <3> QED
      BY <3>1, <3>3, <3>6
  <2> QED
    BY <2>3, <2>4, <2>5, <2>6, <2>7, <2>8
<1> HIDE DEF T
<1>6. more \in T
  BY <1>4, <1>5, SeqInduction
<1> QED
  BY <1>1, <1>2, <1>6 DEF T

\* Another separator instead of the one.
Replaced(text, old, new) == [i \in DOMAIN text |-> IF text[i] = old THEN new ELSE text[i]]

\* It keeps the type of the text.
LEMMA ReplacedTyped ==
  ASSUME NEW U, NEW text \in Seq(U), NEW old, NEW new \in U
  PROVE  Replaced(text, old, new) \in Seq(U)
<1>1. DOMAIN text = 1..Len(text) /\ Len(text) \in Nat /\ \A n \in 1..Len(text) : text[n] \in U
  BY ElementOfSeq, LenProperties
<1> QED
  BY <1>1 DEF Replaced

\* It goes unit by unit.
LEMMA ReplacedAppend ==
  ASSUME NEW U, NEW text \in Seq(U), NEW u \in U, NEW old, NEW new \in U
  PROVE  /\ Replaced(text, old, new) \in Seq(U)
         /\ Replaced(Append(text, u), old, new) =
              Append(Replaced(text, old, new), IF u = old THEN new ELSE u)
<1>1. PICK more : more = Append(text, u)
  OBVIOUS
<1>2. /\ more \in Seq(U) /\ Len(text) \in Nat /\ Len(more) = Len(text) + 1
      /\ \A n \in 1..Len(text) : more[n] = text[n] /\ text[n] \in U
      /\ more[Len(text) + 1] = u
      /\ DOMAIN text = 1..Len(text) /\ DOMAIN more = 1..Len(more)
  BY <1>1, AppendFacts, ElementOfSeq, LenProperties
<1>3. PICK left : left = Replaced(text, old, new)
  OBVIOUS
<1>4. /\ left \in Seq(U) /\ Len(left) = Len(text)
      /\ \A n \in 1..Len(text) : left[n] = IF text[n] = old THEN new ELSE text[n]
  BY <1>2, <1>3 DEF Replaced
<1>5. PICK right : right = Replaced(more, old, new)
  OBVIOUS
<1>6. \A n \in 1..Len(more) : more[n] \in U
  BY <1>2, ElementOfSeq
<1>7. /\ right \in Seq(U) /\ Len(right) = Len(text) + 1
      /\ \A n \in 1..Len(right) : right[n] = IF more[n] = old THEN new ELSE more[n]
  BY <1>2, <1>5, <1>6 DEF Replaced
<1>8. PICK e \in U : e = IF u = old THEN new ELSE u
  OBVIOUS
<1>9. PICK other : other = Append(left, e)
  OBVIOUS
<1>10. /\ other \in Seq(U) /\ Len(other) = Len(text) + 1
       /\ \A n \in 1..Len(text) : other[n] = left[n]
       /\ other[Len(text) + 1] = e
  BY <1>4, <1>9, AppendFacts
<1>11. \A n \in 1..Len(right) : right[n] = other[n]
  <2> SUFFICES ASSUME NEW n \in 1..Len(right) PROVE right[n] = other[n]
    OBVIOUS
  <2>1. n \in 1..Len(text) \/ n = Len(text) + 1
    BY <1>2, <1>7
  <2> QED
    BY <1>2, <1>4, <1>7, <1>8, <1>10, <2>1
<1>12. right = other
  BY <1>7, <1>10, <1>11, SeqEqual
<1> QED
  BY <1>1, <1>3, <1>4, <1>5, <1>8, <1>9, <1>12

\* A text taken apart at one separator and put together with another.
LEMMA JoinSplit ==
  ASSUME NEW U, NEW text \in Seq(U), NEW old, NEW new \in U
  PROVE  Join(Split(text, old), new) = Replaced(text, old, new)
<1> DEFINE T == {t \in Seq(U) : Join(Split(t, old), new) = Replaced(t, old, new)}
<1>1. <<>> \in T
  <2>1. Join(<< <<>> >>, new) = <<>>
    <3>1. PICK none : none = <<>>
      OBVIOUS
    <3>2. none \in Seq(Seq(U)) /\ none \in Seq(U) /\ <<none>> = Append(none, none)
      BY <3>1
    <3>3. Join(Append(none, none), new) = none
      BY <3>1, <3>2, JoinAppend
    <3> QED
      BY <3>1, <3>2, <3>3
  <2>2. Replaced(<<>>, old, new) = <<>>
    BY DEF Replaced
  <2> QED
    BY <2>1, <2>2, SplitEmpty
<1>2. ASSUME NEW t \in Seq(U), NEW u \in U, t \in T PROVE Append(t, u) \in T
  <2>1. PICK parts : parts = Split(t, old)
    OBVIOUS
  <2>2. /\ parts \in Parts(U) /\ parts \in Seq(Seq(U)) /\ parts # <<>>
        /\ Split(Append(t, u), old) =
             IF u = old THEN Append(parts, <<>>) ELSE Longer(parts, u)
    BY <2>1, SplitAppend DEF Parts
  <2>3. PICK joined : joined = Join(parts, new)
    OBVIOUS
  <2>4. joined \in Seq(U) /\ joined = Replaced(t, old, new)
    <3>1. <<>> \in Seq(U)
      OBVIOUS
    <3>2. joined \in Seq(U)
      BY <2>2, <2>3, <3>1, JoinAppend
    <3> QED
      BY <1>2, <2>1, <2>3, <3>2
  <2>5. Replaced(Append(t, u), old, new) = Append(joined, IF u = old THEN new ELSE u)
    BY <2>4, ReplacedAppend
  <2>6. CASE u = old
    <3>1. <<>> \in Seq(U)
      OBVIOUS
    <3>2. Join(Append(parts, <<>>), new) = Append(joined, new) \o <<>>
      BY <2>2, <2>3, <3>1, JoinAppend
    <3>3. Append(joined, new) \in Seq(U)
      BY <2>4
    <3>4. Append(joined, new) \o <<>> = Append(joined, new)
      BY <3>3, ConcatEmptySeq
    <3>5. Split(Append(t, u), old) = Append(parts, <<>>)
      BY <2>2, <2>6
    <3>6. Replaced(Append(t, u), old, new) = Append(joined, new)
      BY <2>5, <2>6
    <3>7. Append(t, u) \in Seq(U)
      OBVIOUS
    <3> QED
      BY <3>2, <3>4, <3>5, <3>6, <3>7
  <2>7. CASE u # old
    <3>1. PICK most \in Seq(Seq(U)), last \in Seq(U) : parts = Append(most, last)
      BY <2>2, Lasts
    <3>9. PICK longer : longer = Append(last, u)
      OBVIOUS
    <3>2. longer \in Seq(U) /\ longer = Append(last, u)
      BY <3>9
    <3>3. Longer(parts, u) = Append(most, longer)
      BY <3>1, <3>2, LongerLast
    <3>4. joined = IF most = <<>> THEN last ELSE Append(Join(most, new), new) \o last
      BY <2>3, <3>1, JoinAppend
    <3>5. /\ Join(most, new) \in Seq(U)
          /\ Join(Append(most, longer), new) =
               IF most = <<>> THEN longer ELSE Append(Join(most, new), new) \o longer
      BY <3>1, <3>2, JoinAppend, ZenonT(40)
    <3>10. PICK front : front = Append(Join(most, new), new)
      OBVIOUS
    <3>6. front \in Seq(U) /\ front = Append(Join(most, new), new)
      BY <3>5, <3>10
    <3>7. front \o Append(last, u) = Append(front \o last, u)
      BY <3>6
    <3>8. Join(Append(most, longer), new) = Append(joined, u)
      BY <3>2, <3>4, <3>5, <3>6, <3>7
    <3>11. Join(Split(Append(t, u), old), new) = Append(joined, u)
      BY <2>2, <2>7, <3>3, <3>8
    <3>12. Replaced(Append(t, u), old, new) = Append(joined, u)
      BY <2>5, <2>7
    <3>13. Append(t, u) \in Seq(U)
      OBVIOUS
    <3> QED
      BY <3>11, <3>12, <3>13
  <2> QED
    BY <2>6, <2>7
<1> HIDE DEF T
<1>3. text \in T
  BY <1>1, <1>2, SeqInduction
<1> QED
  BY <1>3 DEF T

\* The hashes of a list with separators.
Listed(text, separator) == NonEmpty(Split(text, separator))

\* Parts and hashes are texts.
LEMMA ListedFacts ==
  ASSUME NEW U, NEW text \in Seq(U), NEW separator
  PROVE  Split(text, separator) \in Seq(Seq(U)) /\ Listed(text, separator) \in Seq(Seq(U))
<1>1. PICK parts : parts = Split(text, separator)
  OBVIOUS
<1>2. parts \in Seq(Seq(U)) /\ parts # <<>>
  <2>1. CASE text = <<>>
    <3>1. parts = << <<>> >>
      BY <1>1, <2>1, SplitEmpty
    <3>2. PICK none : none = <<>>
      OBVIOUS
    <3>3. none \in Seq(U) /\ parts = <<none>>
      BY <3>1, <3>2
    <3> QED
      BY <3>3
  <2>2. CASE text # <<>>
    <3>1. text[1] \in U
      BY <2>2, EmptySeq, ElementOfSeq, LenProperties
    <3>2. parts \in Parts(U)
      BY <1>1, <3>1, SplitAppend
    <3> QED
      BY <3>2 DEF Parts
  <2> QED
    BY <2>1, <2>2
<1>3. \E p : p \in Seq(U)
  OBVIOUS
<1>4. NonEmpty(parts) \in Seq(Seq(U))
  BY <1>2, <1>3, NonEmptyAppend
<1> QED
  BY <1>1, <1>2, <1>4 DEF Listed

\* An empty text lists nothing.
LEMMA ListedNone == ASSUME NEW separator PROVE Listed(<<>>, separator) = <<>>
<1>1. PICK none : none = <<>>
  OBVIOUS
<1>2. none \in Seq({none}) /\ none \in {none} /\ <<none>> = Append(none, none)
  BY <1>1
<1>3. NonEmpty(Append(none, none)) = NonEmpty(none)
  BY <1>1, <1>2, NonEmptyAppend
<1>4. Split(none, separator) = <<none>>
  BY <1>1, SplitEmpty
<1> QED
  BY <1>1, <1>2, <1>3, <1>4, NonEmptyNone DEF Listed

\* Of two lists with a separator between them, the hashes of each.
LEMMA ListedAppend ==
  ASSUME NEW U, NEW separator \in U, NEW parts \in Seq(Seq(U)), NEW part \in Seq(U)
  PROVE  Listed(Join(Append(parts, part), separator), separator)
           = Listed(Join(parts, separator), separator) \o Listed(part, separator)
<1>1. PICK text : text = Join(parts, separator)
  OBVIOUS
<1>2. /\ text \in Seq(U)
      /\ Join(Append(parts, part), separator) =
           IF parts = <<>> THEN part ELSE Append(text, separator) \o part
  BY <1>1, JoinAppend, ZenonT(40)
<1>3. CASE parts = <<>>
  <2>1. Listed(text, separator) = <<>>
    BY <1>1, <1>3, JoinEmpty, ListedNone
  <2>2. PICK last : last = Listed(part, separator)
    OBVIOUS
  <2>3. last \in Seq(Seq(U))
    BY <2>2, ListedFacts
  <2>4. <<>> \o last = last
    BY <2>3, ConcatEmptySeq
  <2> QED
    BY <1>1, <1>2, <1>3, <2>1, <2>2, <2>4
<1>4. CASE parts # <<>>
  <2>1. Split(Append(text, separator) \o part, separator)
          = Split(text, separator) \o Split(part, separator)
    BY <1>2, SplitConcat
  <2>2. PICK first : first = Split(text, separator)
    OBVIOUS
  <2>3. PICK second : second = Split(part, separator)
    OBVIOUS
  <2>4. first \in Seq(Seq(U)) /\ second \in Seq(Seq(U))
    BY <1>2, <2>2, <2>3, ListedFacts
  <2>5. NonEmpty(first \o second) = NonEmpty(first) \o NonEmpty(second)
    BY <2>4, NonEmptyConcat
  <2> QED
    BY <1>1, <1>2, <1>4, <2>1, <2>2, <2>3, <2>5 DEF Listed
<1> QED
  BY <1>3, <1>4

\* Empty parts add no hash, wherever they are left out.
LEMMA Relisted ==
  ASSUME NEW U, NEW separator \in U, NEW parts \in Seq(Seq(U))
  PROVE  Listed(Join(NonEmpty(parts), separator), separator)
           = Listed(Join(parts, separator), separator)
<1>9. PICK V : V = Seq(U)
  OBVIOUS
<1> DEFINE T == {ps \in Seq(V) : Listed(Join(NonEmpty(ps), separator), separator)
                                   = Listed(Join(ps, separator), separator)}
<1>1. <<>> \in T
  BY NonEmptyNone
<1>2. ASSUME NEW ps \in Seq(V), NEW p \in V, ps \in T PROVE Append(ps, p) \in T
  <2>7. ps \in Seq(Seq(U)) /\ p \in Seq(U)
    BY <1>9
  <2>1. PICK kept : kept = NonEmpty(ps)
    OBVIOUS
  <2>2. /\ kept \in Seq(Seq(U))
        /\ NonEmpty(Append(ps, p)) = IF p = <<>> THEN kept ELSE Append(kept, p)
    BY <2>1, <2>7, NonEmptyAppend
  <2>3. Listed(Join(kept, separator), separator) = Listed(Join(ps, separator), separator)
    BY <1>2, <2>1
  <2>4. Listed(Join(Append(ps, p), separator), separator)
          = Listed(Join(ps, separator), separator) \o Listed(p, separator)
    BY <2>7, ListedAppend
  <2>5. CASE p = <<>>
    <3>1. PICK before : before = Listed(Join(ps, separator), separator)
      OBVIOUS
    <3>2. Join(ps, separator) \in Seq(U)
      BY <2>7, JoinAppend
    <3>3. before \in Seq(Seq(U))
      BY <3>1, <3>2, ListedFacts
    <3>4. before \o <<>> = before
      BY <3>3, ConcatEmptySeq
    <3>5. Listed(Join(Append(ps, p), separator), separator) = before
      BY <2>4, <2>5, <3>1, <3>4, ListedNone
    <3>6. Listed(Join(NonEmpty(Append(ps, p)), separator), separator) = before
      BY <2>2, <2>3, <2>5, <3>1
    <3>7. Append(ps, p) \in Seq(V)
      OBVIOUS
    <3> QED
      BY <3>5, <3>6, <3>7
  <2>6. CASE p # <<>>
    <3>1. Listed(Join(Append(kept, p), separator), separator)
            = Listed(Join(kept, separator), separator) \o Listed(p, separator)
      BY <2>2, <2>7, ListedAppend
    <3>2. NonEmpty(Append(ps, p)) = Append(kept, p)
      BY <2>2, <2>6
    <3>3. Append(ps, p) \in Seq(V)
      OBVIOUS
    <3> QED
      BY <2>3, <2>4, <3>1, <3>2, <3>3
  <2> QED
    BY <2>5, <2>6
<1> HIDE DEF T
<1>3. parts \in T
  BY <1>1, <1>2, <1>9, SeqInduction
<1> QED
  BY <1>3 DEF T

\* A list none of whose hashes has a space has none.
LEMMA ListedPlain ==
  ASSUME NEW U, NEW separator \in U, NEW text \in Seq(U), NEW space, space # separator,
         \A i \in DOMAIN Listed(text, separator) : space \notin ToSet(Listed(text, separator)[i])
  PROVE  text \in Seq(U \ {space})
<1>1. PICK W : W = Seq(U \ {space})
  OBVIOUS
<1>2. PICK parts : parts = Split(text, separator)
  OBVIOUS
<1>3. PICK kept : kept = NonEmpty(parts)
  OBVIOUS
<1>4. parts \in Seq(Seq(U)) /\ kept \in Seq(Seq(U)) /\ kept = Listed(text, separator)
  BY <1>2, <1>3, ListedFacts DEF Listed
<1>5. ASSUME NEW i \in 1..Len(kept) PROVE kept[i] \in W
  <2>1. PICK hash : hash = kept[i]
    OBVIOUS
  <2>2. hash \in Seq(U)
    BY <1>4, <2>1, ElementOfSeq
  <2>3. i \in DOMAIN kept
    BY <1>4, LenProperties
  <2>4. space \notin ToSet(hash)
    BY <1>4, <2>1, <2>3
  <2>5. \A j \in 1..Len(hash) : hash[j] \in U \ {space}
    <3>1. DOMAIN hash = 1..Len(hash)
      BY <2>2, LenProperties
    <3>2. \A j \in 1..Len(hash) : hash[j] \in U /\ hash[j] # space
      BY <2>2, <2>4, <3>1, ElementOfSeq DEF ToSet
    <3> QED
      BY <3>2
  <2>6. hash \in Seq(U \ {space})
    BY <2>2, <2>5
  <2> QED
    BY <1>1, <2>1, <2>6
<1>6. kept \in Seq(W)
  <2>1. PICK V : V = Seq(U)
    OBVIOUS
  <2>2. kept \in Seq(V)
    BY <1>4, <2>1
  <2> QED
    BY <1>5, <2>2
<1>7. <<>> \in W
  <2>1. <<>> \in Seq(U \ {space})
    OBVIOUS
  <2> QED
    BY <1>1, <2>1
<1>8. parts \in Seq(W)
  BY <1>3, <1>4, <1>6, <1>7, NonEmptyWithin
<1>9. Join(parts, separator) \in Seq(U \ {space})
  <2>1. separator \in U \ {space}
    OBVIOUS
  <2> QED
    BY <1>1, <1>7, <1>8, <2>1, JoinAppend
<1>10. Join(parts, separator) = Replaced(text, separator, separator)
  BY <1>2, JoinSplit
<1>11. Replaced(text, separator, separator) = text
  BY LenProperties DEF Replaced
<1> QED
  BY <1>9, <1>10, <1>11

\* Separators alone are no list.
LEMMA SeparatorsOnly ==
  ASSUME NEW separator, NEW text \in Seq({separator})
  PROVE  Listed(text, separator) = <<>>
<1> DEFINE T == {t \in Seq({separator}) : Listed(t, separator) = <<>>}
<1>1. <<>> \in T
  BY ListedNone
<1>2. ASSUME NEW t \in Seq({separator}), NEW u \in {separator}, t \in T PROVE Append(t, u) \in T
  <2>1. PICK parts : parts = Split(t, separator)
    OBVIOUS
  <2>2. parts \in Seq(Seq({separator}))
    BY <2>1, ListedFacts
  <2>3. Split(Append(t, u), separator) = Append(parts, <<>>)
    BY <2>1, SplitAppend
  <2>4. <<>> \in Seq({separator})
    OBVIOUS
  <2>5. NonEmpty(Append(parts, <<>>)) = NonEmpty(parts)
    BY <2>2, <2>4, NonEmptyAppend
  <2>6. Listed(Append(t, u), separator) = Listed(t, separator)
    BY <2>1, <2>3, <2>5 DEF Listed
  <2> QED
    BY <1>2, <2>6
<1> HIDE DEF T
<1>3. text \in T
  BY <1>1, <1>2, SeqInduction
<1> QED
  BY <1>3 DEF T

\* Hashes without separators, put together with one, are listed again.
LEMMA ListedJoin ==
  ASSUME NEW U, NEW separator \in U, NEW hashes \in Seq(Seq(U \ {separator}) \ {<<>>})
  PROVE  Join(hashes, separator) \in Seq(U) /\ Listed(Join(hashes, separator), separator) = hashes
<1>1. PICK P : P = Seq(U \ {separator})
  OBVIOUS
<1>2. P \subseteq Seq(U)
  BY <1>1, SeqMonotonic
<1>3. hashes \in Seq(P) /\ P \ {<<>>} \subseteq P
  <2>1. P \ {<<>>} \subseteq P
    OBVIOUS
  <2>2. hashes \in Seq(P \ {<<>>})
    BY <1>1
  <2> QED
    BY <2>1, <2>2, SeqMonotonic
<1>4. hashes \in Seq(Seq(U)) /\ <<>> \in Seq(U)
  BY <1>2, <1>3, SeqMonotonic
<1>5. Join(hashes, separator) \in Seq(U)
  BY <1>4, JoinAppend
<1>6. CASE hashes = <<>>
  BY <1>5, <1>6, JoinEmpty, ListedNone
<1>7. CASE hashes # <<>>
  <2>1. Split(Join(hashes, separator), separator) = hashes
    BY <1>1, <1>3, <1>7, SplitJoin
  <2>2. NonEmpty(hashes) = hashes
    <3>1. PICK V : V = P \ {<<>>}
      OBVIOUS
    <3>2. hashes \in Seq(V) /\ <<>> \notin V
      BY <1>1, <3>1
    <3> QED
      BY <3>2, NonEmptyAll
  <2> QED
    BY <1>5, <2>1, <2>2 DEF Listed
<1> QED
  BY <1>6, <1>7

Spaceless(hashes, space) == \A i \in DOMAIN hashes : space \notin ToSet(hashes[i])

\* What the native parser makes of the hashes in a query, a list with another
\* separator, if none of them has a space.
LEMMA ListedQuery ==
  ASSUME NEW U, NEW comma \in U, NEW plus, NEW space, space # comma, space # plus,
         NEW text \in Seq(U), NEW list, list = Replaced(text, plus, comma),
         Spaceless(Listed(list, comma), space)
  PROVE  /\ list \in Seq(U \ {space})
         /\ Split(text, plus) \in Seq(Seq(U \ {space}))
         /\ Join(NonEmpty(Split(text, plus)), comma) \in Seq(U \ {space})
         /\ Listed(Join(NonEmpty(Split(text, plus)), comma), comma) = Listed(list, comma)
<1>1. list \in Seq(U)
  BY ReplacedTyped
<1>2. list \in Seq(U \ {space})
  BY <1>1, ListedPlain DEF Spaceless
<1>3. text \in Seq(U \ {space})
  <2>1. DOMAIN text = 1..Len(text) /\ Len(text) \in Nat
    BY LenProperties
  <2>2. \A i \in 1..Len(text) : text[i] \in U /\ list[i] = IF text[i] = plus THEN comma ELSE text[i]
    BY <2>1, ElementOfSeq DEF Replaced
  <2>3. Len(list) = Len(text)
    BY <2>1, <1>1, LenProperties DEF Replaced
  <2>4. \A i \in 1..Len(text) : list[i] # space
    <3>1. \A i \in 1..Len(list) : list[i] \in U \ {space}
      BY <1>2, ElementOfSeq
    <3> QED
      BY <2>3, <3>1
  <2>5. \A i \in 1..Len(text) : text[i] \in U \ {space}
    BY <2>2, <2>4
  <2> QED
    BY <2>1, <2>5
<1>4. PICK W : W = U \ {space}
  OBVIOUS
<1>5. PICK parts : parts = Split(text, plus)
  OBVIOUS
<1>6. comma \in W /\ text \in Seq(W)
  BY <1>3, <1>4
<1>7. parts \in Seq(Seq(W))
  BY <1>5, <1>6, ListedFacts
<1>8. <<>> \in Seq(W)
  OBVIOUS
<1>9. NonEmpty(parts) \in Seq(Seq(W))
  BY <1>7, <1>8, NonEmptyAppend
<1>10. Join(NonEmpty(parts), comma) \in Seq(W)
  BY <1>6, <1>8, <1>9, JoinAppend
<1>11. Listed(Join(NonEmpty(parts), comma), comma) = Listed(Join(parts, comma), comma)
  BY <1>6, <1>7, Relisted
<1>12. Join(parts, comma) = list
  BY <1>5, <1>6, JoinSplit
<1> QED
  BY <1>2, <1>4, <1>5, <1>7, <1>10, <1>11, <1>12

-----------------------------------------------------------------------------
(* What a list means, and what a core is told.                             *)

Letter == Char \cup {"%"}  \* what a link has that is taken as it is written

\* One separator is not another; the ones here are letters.
LEMMA Marks == /\ "," # " " /\ "+" # " " /\ {",", " ", "+"} \subseteq Letter
               /\ "," \in Letter \ {" "} /\ "," \in Char \ {" "}
  BY DEF Letter, Char

\* clean_hashes takes what the list means, of a long one the first six.
LEMMA CleanMeant == ASSUME NEW text PROVE Clean(text) = First(Meant(text, Separators))
<1>1. [i \in DOMAIN text |-> IF text[i] = " " THEN "," ELSE text[i]]
        = [i \in DOMAIN text |-> IF text[i] \in Separators THEN "," ELSE text[i]]
  BY DEF Separators
<1> QED
  BY <1>1 DEF Clean, First, Meant

\* Without spaces a list means what stands between its commas.
LEMMA MeantPlain ==
  ASSUME NEW text, \A i \in DOMAIN text : text[i] # " ",
         text = [i \in DOMAIN text |-> text[i]]
  PROVE  Meant(text, Separators) = Listed(text, ",")
<1>1. [i \in DOMAIN text |-> IF text[i] \in Separators THEN "," ELSE text[i]]
        = [i \in DOMAIN text |-> text[i]]
  BY DEF Separators
<1> QED
  BY <1>1 DEF Meant, Listed

\* A list with a "+" between the hashes.
LEMMA MeantPlus == ASSUME NEW text PROVE Meant(text, {"+"}) = Listed(Replaced(text, "+", ","), ",")
<1>1. [i \in DOMAIN text |-> IF text[i] \in {"+"} THEN "," ELSE text[i]]
        = [i \in DOMAIN text |-> IF text[i] = "+" THEN "," ELSE text[i]]
  OBVIOUS
<1> QED
  BY <1>1 DEF Meant, Listed, Replaced

\* A list of nothing but spaces means no hash, so that Trim is no more strict than the list.
LEMMA BlankMeant ==
  ASSUME NEW U, NEW text \in Seq(U), Trim(text) = <<>>
  PROVE  Meant(text, Separators) = <<>>
<1>1. \A i \in DOMAIN text : text[i] = " "
  BY TrimFacts
<1>2. PICK comma : comma = ","
  OBVIOUS
<1>3. [i \in DOMAIN text |-> IF text[i] \in Separators THEN "," ELSE text[i]]
        = [i \in DOMAIN text |-> comma]
  BY <1>1, <1>2 DEF Separators
<1>4. Listed([i \in DOMAIN text |-> comma], comma) = <<>>
  <2>1. DOMAIN text = 1..Len(text) /\ Len(text) \in Nat
    BY LenProperties
  <2>2. [i \in DOMAIN text |-> comma] \in Seq({comma})
    BY <2>1
  <2> QED
    BY <2>2, SeparatorsOnly
<1> QED
  BY <1>2, <1>3, <1>4 DEF Meant, Listed

\* What has been put together with commas means the hashes that went in.
LEMMA MeantJoin ==
  ASSUME NEW hashes \in Seq(Seq(Char \ Separators) \ {<<>>})
  PROVE  Meant(Join(hashes, ","), Separators) = hashes
<1>1. PICK comma : comma = ","
  OBVIOUS
<1>2. PICK U : U = Char \ {" "}
  OBVIOUS
<1>3. comma \in U /\ U \ {comma} = Char \ Separators
  BY <1>1, <1>2, Marks DEF Separators
<1>4. Join(hashes, comma) \in Seq(U) /\ Listed(Join(hashes, comma), comma) = hashes
  BY <1>3, ListedJoin
<1>5. PICK text : text = Join(hashes, comma)
  OBVIOUS
<1>6. text = [i \in DOMAIN text |-> text[i]] /\ \A i \in DOMAIN text : text[i] \in U
  BY <1>4, <1>5, ElementOfSeq, LenProperties
<1>7. \A i \in DOMAIN text : text[i] # " "
  BY <1>2, <1>6
<1> QED
  BY <1>1, <1>4, <1>5, <1>6, <1>7, MeantPlain

\* What the native parser and the generic one make of the hashes in a query
\* means what the query does.
LEMMA MeantQuery ==
  ASSUME NEW text \in Seq(Letter),
         \A i \in DOMAIN Meant(text, {"+"}) : ToSet(Meant(text, {"+"})[i]) \cap Separators = {}
  PROVE  /\ Replaced(text, "+", ",") \in Seq(Letter \ {" "})
         /\ Join(NonEmpty(Trimmed(Split(text, "+"))), ",") \in Seq(Letter \ {" "})
         /\ Meant(Replaced(text, "+", ","), Separators) = Meant(text, {"+"})
         /\ Meant(Join(NonEmpty(Trimmed(Split(text, "+"))), ","), Separators) = Meant(text, {"+"})
<1>1. PICK comma : comma = ","
  OBVIOUS
<1>2. PICK plus : plus = "+"
  OBVIOUS
<1>3. PICK space : space = " "
  OBVIOUS
<1>4. comma \in Letter /\ space # comma /\ space # plus
  BY <1>1, <1>2, <1>3, Marks
<1>5. PICK list : list = Replaced(text, plus, comma)
  OBVIOUS
<1>6. Meant(text, {"+"}) = Listed(list, comma)
  BY <1>1, <1>2, <1>5, MeantPlus
<1>7. Spaceless(Listed(list, comma), space)
  BY <1>3, <1>6 DEF Separators, Spaceless
<1>8. PICK parts : parts = Split(text, plus)
  OBVIOUS
<1>9. PICK U : U = Letter \ {space}
  OBVIOUS
<1>10. /\ list \in Seq(Letter \ {space}) /\ Split(text, plus) \in Seq(Seq(Letter \ {space}))
       /\ Join(NonEmpty(Split(text, plus)), comma) \in Seq(Letter \ {space})
       /\ Listed(Join(NonEmpty(Split(text, plus)), comma), comma) = Listed(list, comma)
  BY <1>4, <1>5, <1>7, ListedQuery
<1>11. /\ list \in Seq(U) /\ parts \in Seq(Seq(U))
       /\ Join(NonEmpty(parts), comma) \in Seq(U)
       /\ Listed(Join(NonEmpty(parts), comma), comma) = Listed(list, comma)
  BY <1>8, <1>9, <1>10
<1>12. Trimmed(parts) = parts
  <2>1. ASSUME NEW i \in DOMAIN parts PROVE Trim(parts[i]) = parts[i]
    <3>1. PICK part : part = parts[i]
      OBVIOUS
    <3>2. part \in Seq(U)
      BY <1>11, <3>1, ElementOfSeq, LenProperties
    <3>3. \A j \in DOMAIN part : part[j] \in U
      BY <3>2, ElementOfSeq, LenProperties
    <3>4. " " \notin ToSet(part)
      BY <1>3, <1>9, <3>3 DEF ToSet
    <3> QED
      BY <3>1, <3>2, <3>4, TrimFacts
  <2>2. parts = [i \in DOMAIN parts |-> parts[i]]
    BY <1>11, LenProperties
  <2> QED
    BY <2>1, <2>2 DEF Trimmed
<1>13. ASSUME NEW t \in Seq(U) PROVE Meant(t, Separators) = Listed(t, comma)
  <2>1. t = [i \in DOMAIN t |-> t[i]] /\ \A i \in DOMAIN t : t[i] \in U
    BY ElementOfSeq, LenProperties
  <2>2. \A i \in DOMAIN t : t[i] # " "
    BY <1>3, <1>9, <2>1
  <2> QED
    BY <1>1, <2>1, <2>2, MeantPlain
<1>14. Meant(list, Separators) = Listed(list, comma)
  BY <1>11, <1>13
<1>15. Meant(Join(NonEmpty(parts), comma), Separators) = Listed(list, comma)
  BY <1>11, <1>13
<1> QED
  BY <1>1, <1>2, <1>3, <1>5, <1>6, <1>8, <1>9, <1>11, <1>12, <1>14, <1>15

\* What a link has for a key is letters, nothing if the key is not there.
LEMMA ValueFacts ==
  ASSUME NEW ps \in Seq(Parameter), NEW key
  PROVE  /\ LastOf(ps, key) \in Seq(Unit) /\ Written(LastOf(ps, key)) \in Seq(Letter)
         /\ key \notin Keys(ps) => Written(LastOf(ps, key)) = <<>>
<1> DEFINE at == {i \in DOMAIN ps : ps[i].key = key}
<1>1. DOMAIN ps = 1..Len(ps) /\ Len(ps) \in Nat /\ \A i \in 1..Len(ps) : ps[i] \in Parameter
  BY ElementOfSeq, LenProperties
<1>2. PICK raw : raw = LastOf(ps, key)
  OBVIOUS
<1>3. raw \in Seq(Unit) /\ (at = {} => raw = <<>>)
  <2>1. CASE at = {}
    <3>1. raw = <<>>
      BY <1>2, <2>1 DEF LastOf
    <3> QED
      BY <3>1
  <2>2. CASE at # {}
    <3>1. Max(at) \in at
      BY <1>1, <2>2, Ends
    <3>2. ps[Max(at)].raw \in Seq(Unit)
      BY <1>1, <3>1 DEF Parameter
    <3> QED
      BY <1>2, <2>2, <3>2 DEF LastOf
  <2> QED
    BY <2>1, <2>2
<1>4. Written(raw) \in Seq(Letter) /\ (raw = <<>> => Written(raw) = <<>>)
  <2>1. DOMAIN raw = 1..Len(raw) /\ Len(raw) \in Nat
    BY <1>3, LenProperties
  <2>2. ASSUME NEW i \in 1..Len(raw)
        PROVE  (IF raw[i].coded THEN "%" ELSE raw[i].char) \in Letter
    <3>1. raw[i] \in Unit
      BY <1>3, <2>2, ElementOfSeq
    <3> QED
      BY <3>1 DEF Unit, Letter
  <2>3. PICK L : L = Letter
    OBVIOUS
  <2>4. PICK text : text = Written(raw)
    OBVIOUS
  <2>5. /\ DOMAIN text = 1..Len(raw) /\ \A i \in 1..Len(raw) : text[i] \in L
        /\ text = [i \in 1..Len(raw) |-> text[i]]
    BY <2>1, <2>2, <2>3, <2>4 DEF Written
  <2>6. text \in Seq(L)
    BY <2>1, <2>5
  <2>7. raw = <<>> => text = <<>>
    BY <2>1, <2>5, <2>6, EmptySeq, LenProperties
  <2> QED
    BY <2>3, <2>4, <2>6, <2>7
<1>5. key \notin Keys(ps) => at = {}
  BY DEF Keys
<1> QED
  BY <1>2, <1>3, <1>4, <1>5

\* No list, no hash.
LEMMA MeantNothing == Meant(<<>>, {"+"}) = <<>> /\ Meant(<<>>, Separators) = <<>>
<1>1. ASSUME NEW separators PROVE Meant(<<>>, separators) = <<>>
  <2>1. [i \in DOMAIN <<>> |-> IF <<>>[i] \in separators THEN "," ELSE <<>>[i]] = <<>>
    OBVIOUS
  <2> QED
    BY <2>1, ListedNone DEF Meant, Listed
<1> QED
  BY <1>1

\* The list of hashes a link has.
Value(l) == Written(LastOf(l.params, "hashes"))

\* What the native parser makes of it.
LEMMA NativeHashes ==
  ASSUME NEW l, NEW c, c = ParseNative(l), c # Refused
  PROVE  /\ {"protocol", "hashes"} \subseteq DOMAIN c
         /\ \/ l.form = "userinfo" /\ c.hashes = <<>>
            \/ l.form = "query" /\ c.hashes = Join(NonEmpty(Trimmed(Split(Value(l), "+"))), ",")
<1>1. CASE l.form = "userinfo"
  BY <1>1 DEF ParseNative, Blank
<1>2. CASE l.form = "query" /\ c # Refused
  BY <1>2 DEF ParseNative, Blank, Value
<1>3. l.form \in {"userinfo", "query"}
  BY DEF ParseNative
<1> QED
  BY <1>1, <1>2, <1>3

\* What the item has for it: a sealed link's hashes with commas, nothing, or the query's.
Taken(l, c) ==
  \/ /\ l.scheme = "csqtt" /\ l.form = "sealed" /\ ParsePlaintext(l) # Refused
     /\ c.hashes = Join(ParsePlaintext(l).hashes, ",")
  \/ l.scheme = "csqtt" /\ l.form = "userinfo" /\ c.hashes = <<>>
  \/ /\ l.scheme = "csqtt" /\ l.form = "query"
     /\ c.hashes = Join(NonEmpty(Trimmed(Split(Value(l), "+"))), ",")
  \/ l.scheme # "csqtt" /\ c.hashes = Replaced(Value(l), "+", ",")

\* The parser that took the link leaves one of these.
LEMMA ItemHashes ==
  ASSUME NEW l, NEW p, NEW c, c = ParseLinkForProtocol(l, p), c # Refused, c.protocol # "PaperFlux"
  PROVE  {"protocol", "hashes"} \subseteq DOMAIN c /\ Taken(l, c)
<1> USE DEF Taken
<1>1. CASE l.scheme = "csqtt"
  <2>1. PICK parsed : parsed = IF p = "CSQTT 2.1.9" THEN ParseNative(l) ELSE ParseCsqtt(l)
    OBVIOUS
  <2>2. c = Renamed(parsed, p)
    BY <1>1, <2>1 DEF ParseLinkForProtocol
  <2>3. parsed # Refused
    BY <2>2 DEF Renamed
  <2>4. CASE parsed = ParseNative(l)
    <3>1. /\ {"protocol", "hashes"} \subseteq DOMAIN parsed
          /\ \/ l.form = "userinfo" /\ parsed.hashes = <<>>
             \/ /\ l.form = "query"
                /\ parsed.hashes = Join(NonEmpty(Trimmed(Split(Value(l), "+"))), ",")
      BY <2>3, <2>4, NativeHashes
    <3>2. {"protocol", "hashes"} \subseteq DOMAIN c /\ c.hashes = parsed.hashes
      BY <2>2, <3>1 DEF Renamed
    <3> QED
      BY <1>1, <3>1, <3>2
  <2>5. CASE parsed # ParseNative(l)
    <3>1. PICK plain : plain = IF l.form = "sealed" THEN ParsePlaintext(l) ELSE Refused
      OBVIOUS
    <3>2. parsed = IF plain = Refused THEN ParseNative(l)
                   ELSE [Blank EXCEPT !.peer = plain.host \o plain.port,
                                      !.password = plain.password,
                                      !.hashes = Join(plain.hashes, ",")]
      BY <2>1, <2>5, <3>1 DEF ParseCsqtt
    <3>3. plain # Refused /\ l.form = "sealed" /\ plain = ParsePlaintext(l)
      BY <2>5, <3>1, <3>2
    <3>4. {"protocol", "hashes"} \subseteq DOMAIN parsed /\ parsed.hashes = Join(plain.hashes, ",")
      BY <3>2, <3>3 DEF Blank
    <3>5. {"protocol", "hashes"} \subseteq DOMAIN c /\ c.hashes = parsed.hashes
      BY <2>2, <3>4 DEF Renamed
    <3> QED
      BY <1>1, <3>3, <3>4, <3>5
  <2> QED
    BY <2>4, <2>5
<1>2. CASE l.scheme \in {"paperflux", "openflux"}
  <2>1. c = ParsePaperflux(l)
    BY <1>2 DEF ParseLinkForProtocol
  <2> QED
    BY <2>1 DEF ParsePaperflux, Blank
<1>3. CASE l.scheme \in {"OLCRTC", "ToTS"}
  <2>1. c = ParseGeneric(l)
    BY <1>3 DEF ParseLinkForProtocol
  <2>2. /\ {"protocol", "hashes"} \subseteq DOMAIN c
        /\ c.hashes = [i \in DOMAIN Value(l) |-> IF Value(l)[i] = "+" THEN "," ELSE Value(l)[i]]
    BY <2>1 DEF ParseGeneric, Blank, Value
  <2> QED
    BY <1>3, <2>2 DEF Replaced
<1>4. l.scheme \in {"csqtt", "paperflux", "openflux", "OLCRTC", "ToTS"}
  BY DEF ParseLinkForProtocol
<1> QED
  BY <1>1, <1>2, <1>3, <1>4

\* What the link means by its hashes.
HashesOf(l) ==
  IF l.scheme = "csqtt" /\ l.form = "sealed" THEN ParsePlaintext(l).hashes
  ELSE Meant(Value(l), {"+"})
Whole(hashes) == \A i \in DOMAIN hashes : ToSet(hashes[i]) \cap Separators = {}

\* The item means the same, if no hash has a separator in it.
LEMMA ItemMeant ==
  ASSUME NEW l \in Link, NEW p, NEW c, c = ParseLinkForProtocol(l, p),
         c # Refused, c.protocol # "PaperFlux", Whole(HashesOf(l))
  PROVE  c.hashes \in Seq(Letter) /\ Meant(c.hashes, Separators) = HashesOf(l)
<1>1. l.params \in Seq(Parameter) /\ (l.form = "userinfo" => "hashes" \notin Keys(l.params))
  BY LinkAssumption
<1>2. CASE /\ l.scheme = "csqtt" /\ l.form = "sealed" /\ ParsePlaintext(l) # Refused
           /\ c.hashes = Join(ParsePlaintext(l).hashes, ",")
  <2>1. PICK hashes : hashes = ParsePlaintext(l).hashes
    OBVIOUS
  <2>2. hashes = HashesOf(l) /\ Whole(hashes)
    BY <1>2, <2>1 DEF HashesOf
  <2>3. hashes \in Seq(Seq(Char)) /\ \A i \in DOMAIN hashes : Hash(hashes[i])
    BY <1>1, <1>2, <2>1, ParsedFacts DEF Parsed
  <2>4. PICK P : P = Seq(Char \ Separators) \ {<<>>}
    OBVIOUS
  <2>5. ASSUME NEW i \in 1..Len(hashes) PROVE hashes[i] \in P
    <3>1. PICK hash : hash = hashes[i]
      OBVIOUS
    <3>2. i \in DOMAIN hashes /\ hash \in Seq(Char)
      BY <2>3, <3>1, ElementOfSeq, LenProperties
    <3>3. Hash(hash) /\ ToSet(hash) \cap Separators = {}
      BY <2>2, <2>3, <3>1, <3>2 DEF Whole
    <3>5. DOMAIN hash = 1..Len(hash) /\ Len(hash) \in Nat
      BY <3>2, LenProperties
    <3>4. hash # <<>>
      <4>1. PICK j : j \in DOMAIN hash
        BY <3>3 DEF Hash
      <4>2. Len(hash) # 0
        BY <3>5, <4>1
      <4> QED
        BY <3>2, <4>2, EmptySeq
    <3>6. \A j \in 1..Len(hash) : hash[j] \in Char \ Separators
      BY <3>2, <3>3, <3>5, ElementOfSeq DEF ToSet
    <3>7. PICK W : W = Char \ Separators
      OBVIOUS
    <3>8. hash \in Seq(W)
      BY <3>2, <3>5, <3>6, <3>7
    <3> QED
      BY <2>4, <3>1, <3>4, <3>7, <3>8
  <2>6. hashes \in Seq(P)
    <3>1. PICK V : V = Seq(Char)
      OBVIOUS
    <3>2. hashes \in Seq(V)
      BY <2>3, <3>1
    <3> QED
      BY <2>5, <3>2
  <2>7. Meant(Join(hashes, ","), Separators) = hashes
    BY <2>4, <2>6, MeantJoin
  <2>8. Join(hashes, ",") \in Seq(Letter)
    <3>1. PICK comma : comma = ","
      OBVIOUS
    <3>2. comma \in Char
      BY <3>1, Marks
    <3>6. PICK none : none = <<>>
      OBVIOUS
    <3>7. none \in Seq(Char)
      BY <3>6
    <3>3. Join(hashes, comma) \in Seq(Char)
      BY <2>3, <3>2, <3>7, JoinAppend
    <3>4. Char \subseteq Letter
      BY DEF Letter
    <3>5. Seq(Char) \subseteq Seq(Letter)
      BY <3>4, SeqMonotonic
    <3> QED
      BY <3>1, <3>3, <3>5
  <2> QED
    BY <1>2, <2>1, <2>2, <2>7, <2>8
<1>3. CASE l.scheme = "csqtt" /\ l.form = "userinfo" /\ c.hashes = <<>>
  <2>1. Value(l) = <<>>
    BY <1>1, <1>3, ValueFacts DEF Value
  <2>2. HashesOf(l) = Meant(<<>>, {"+"})
    BY <1>3, <2>1 DEF HashesOf
  <2>3. Meant(<<>>, {"+"}) = <<>> /\ Meant(<<>>, Separators) = <<>>
    BY MeantNothing
  <2>4. <<>> \in Seq(Letter)
    OBVIOUS
  <2> QED
    BY <1>3, <2>2, <2>3, <2>4
<1>4. PICK text : text = Value(l)
  OBVIOUS
<1>5. text \in Seq(Letter)
  BY <1>1, <1>4, ValueFacts DEF Value
<1>6. Seq(Letter \ {" "}) \subseteq Seq(Letter)
  BY SeqMonotonic
<1>7. ASSUME HashesOf(l) = Meant(text, {"+"})
      PROVE  /\ Replaced(text, "+", ",") \in Seq(Letter)
             /\ Join(NonEmpty(Trimmed(Split(text, "+"))), ",") \in Seq(Letter)
             /\ Meant(Replaced(text, "+", ","), Separators) = HashesOf(l)
             /\ Meant(Join(NonEmpty(Trimmed(Split(text, "+"))), ","), Separators) = HashesOf(l)
  <2>1. \A i \in DOMAIN Meant(text, {"+"}) : ToSet(Meant(text, {"+"})[i]) \cap Separators = {}
    BY <1>7 DEF Whole
  <2> QED
    BY <1>5, <1>6, <1>7, <2>1, MeantQuery
<1>8. CASE /\ l.scheme = "csqtt" /\ l.form = "query"
           /\ c.hashes = Join(NonEmpty(Trimmed(Split(Value(l), "+"))), ",")
  <2>1. HashesOf(l) = Meant(text, {"+"})
    BY <1>4, <1>8 DEF HashesOf
  <2> QED
    BY <1>4, <1>7, <1>8, <2>1
<1>9. CASE l.scheme # "csqtt" /\ c.hashes = Replaced(Value(l), "+", ",")
  <2>1. HashesOf(l) = Meant(text, {"+"})
    BY <1>4, <1>9 DEF HashesOf
  <2> QED
    BY <1>4, <1>7, <1>9, <2>1
<1>10. Taken(l, c)
  BY ItemHashes
<1> QED
  BY <1>2, <1>3, <1>8, <1>9, <1>10 DEF Taken

\* Six hashes at most stay as they are.
LEMMA FirstAll ==
  ASSUME NEW U, NEW hashes \in Seq(U), Len(hashes) <= MaxHashes
  PROVE  First(hashes) = hashes
<1>1. Len(hashes) \in Nat /\ MaxHashes \in Nat
  BY DEF MaxHashes
<1>2. PICK S : S = {MaxHashes, Len(hashes)}
  OBVIOUS
<1>3. S \in SUBSET Nat /\ S # {}
  BY <1>1, <1>2
<1>4. Min(S) \in S /\ \A n \in S : Min(S) <= n
  <2>1. \E m \in S : \A n \in S : m <= n
    BY <1>3, Least
  <2> QED
    BY <2>1 DEF Min
<1>5. Min(S) = Len(hashes)
  BY <1>1, <1>2, <1>4
<1>6. SubSeq(hashes, 1, Len(hashes)) = hashes
  OBVIOUS
<1> QED
  BY <1>2, <1>5, <1>6 DEF First

\* Auto API: the hashes of the calls, put together and taken apart again.
LEMMA CallsClean == Clean(Join(CallHashes, ",")) = CallHashes
<1>1. CallHashes \in Seq(Seq(Char \ Separators) \ {<<>>}) /\ Len(CallHashes) <= MaxHashes
  BY LinkAssumption DEF Separators
<1>2. Meant(Join(CallHashes, ","), Separators) = CallHashes
  BY <1>1, MeantJoin
<1> QED
  BY <1>1, <1>2, CleanMeant, FirstAll

\* What is launched is what was parsed or typed, with the settings of the connect.
ItemInv ==
  /\ link \in Link \cup {NoLink}
  /\ link # NoLink => item = ParseLinkForProtocol(link, protocol)
  /\ link = NoLink /\ item # Refused =>
       {"protocol", "hashes"} \subseteq DOMAIN item /\ item.hashes \in Typed
  /\ args # NoArgs => item # Refused /\ settings \in Chosen /\ args = LaunchArgs(settings)

\* No step changes the item or the settings of what is launched.
LEMMA ItemCorrect == LinkSpec => []ItemInv
<1>1. LinkInit => ItemInv
  BY DEF LinkInit, ItemInv
<1>2. ASSUME ItemInv, [LinkNext]_linkVars PROVE ItemInv'
  <2>1. ASSUME NEW l \in Link, NEW p \in Requested, link = NoLink, item = Refused, Parse(l, p)
        PROVE  ItemInv'
    BY <1>2, <2>1, LinkAssumption DEF ItemInv, Parse
  <2>2. ASSUME NEW t \in Typed, NEW p \in Requested, link = NoLink, item = Refused, FillForm(p, t)
        PROVE  ItemInv'
    BY <1>2, <2>2 DEF ItemInv, FillForm, Blank
  <2>3. ASSUME NEW s \in Chosen, Launch(s) PROVE ItemInv'
    <3>1. args' = LaunchArgs(s)' /\ settings' = s /\ UNCHANGED <<link, protocol, item>>
      BY <2>3 DEF Launch, LaunchArgs
    <3> QED
      BY <1>2, <2>3, <3>1 DEF ItemInv, Launch, LaunchArgs
  <2>4. CASE Forget
    BY <2>4 DEF ItemInv, Forget
  <2>5. CASE UNCHANGED linkVars
    BY <1>2, <2>5 DEF ItemInv, linkVars, LaunchArgs
  <2> QED
    BY <1>2, <2>1, <2>2, <2>3, <2>4, <2>5 DEF LinkNext
<1> QED
  BY <1>1, <1>2, PTL DEF LinkSpec

\* The item of a core that is told hashes: what its list means, for each list it may have.
LEMMA ItemListed ==
  ASSUME ItemInv, item # Refused, item.protocol # "PaperFlux"
  PROVE  /\ {"protocol", "hashes"} \subseteq DOMAIN item
         /\ Whole(LinkHashes) =>
              /\ Meant(item.hashes, Separators) = LinkHashes
              /\ Trim(item.hashes) = <<>> => LinkHashes = <<>>
<1>1. CASE link = NoLink
  <2>1. {"protocol", "hashes"} \subseteq DOMAIN item /\ item.hashes \in Seq(Char)
    BY <1>1, LinkAssumption DEF ItemInv
  <2>2. LinkHashes = Meant(item.hashes, Separators)
    BY <1>1 DEF LinkHashes
  <2> QED
    BY <2>1, <2>2, BlankMeant
<1>2. CASE link # NoLink
  <2>1. link \in Link /\ item = ParseLinkForProtocol(link, protocol)
    BY <1>2 DEF ItemInv
  <2>2. LinkHashes = HashesOf(link)
    BY <1>2 DEF LinkHashes, HashesOf, Value
  <2>3. {"protocol", "hashes"} \subseteq DOMAIN item
    BY <2>1, ItemHashes
  <2>4. ASSUME Whole(HashesOf(link))
        PROVE  item.hashes \in Seq(Letter) /\ Meant(item.hashes, Separators) = HashesOf(link)
    BY <2>1, <2>4, ItemMeant
  <2> QED
    BY <2>2, <2>3, <2>4, BlankMeant
<1> QED
  BY <1>1, <1>2

(* A csqtt core gets the hashes its mode calls for, whole, in order and at  *)
(* most six of them, from lists of any length.                             *)
THEOREM HashesArrive == LinkSpec => []HashesReachCore
<1>1. ItemInv => HashesReachCore
  <2> SUFFICES ASSUME ItemInv, args.core = "csqtt" PROVE HashesReachCore
    BY DEF HashesReachCore
  <2>1. item # Refused /\ settings \in Chosen /\ args = LaunchArgs(settings)
    BY DEF ItemInv, NoArgs
  <2>2. item.protocol # "PaperFlux"
    BY <2>1 DEF LaunchArgs, BuildArgs, PaperfluxArgs
  <2>3. {"protocol", "hashes"} \subseteq DOMAIN item
    BY <2>1, <2>2, ItemListed
  <2>4. ASSUME settings.mode = "autoVk" PROVE args.vk = <<>>
    BY <2>1, <2>2, <2>4 DEF LaunchArgs, BuildArgs, CsqttArgs
  <2>5. ASSUME settings.mode = "autoApi" PROVE args.vk = CallHashes
    <3>1. PICK c : c = [item EXCEPT !.hashes = <<>>]
      OBVIOUS
    <3>2. c.protocol # "PaperFlux" /\ c.hashes = <<>>
      BY <2>2, <2>3, <3>1
    <3>3. PICK joined : joined = Join(CallHashes, ",")
      OBVIOUS
    <3>4. PICK s : s = [settings EXCEPT !.vkHashes = joined]
      OBVIOUS
    <3>5. s.mode = "autoApi" /\ s.vkHashes = joined
      BY <2>1, <2>5, <3>4 DEF Chosen
    <3>6. args = BuildArgs(c, s)
      BY <2>1, <2>2, <2>5, <3>1, <3>3, <3>4 DEF LaunchArgs
    <3>7. args = CsqttArgs(c, s)
      BY <3>2, <3>6 DEF BuildArgs
    <3>8. Trim(<<>>) = <<>>
      BY DEF Trim
    <3>9. args.vk = Clean(joined)
      BY <3>2, <3>5, <3>7, <3>8 DEF CsqttArgs
    <3> QED
      BY <3>3, <3>9, CallsClean
  <2>6. ASSUME settings.mode = "manual"
        PROVE  args.vk = First(Meant(IF Trim(item.hashes) = <<>> THEN settings.vkHashes
                                     ELSE item.hashes, Separators))
    <3>1. args = CsqttArgs(item, settings)
      BY <2>1, <2>2, <2>6 DEF LaunchArgs, BuildArgs
    <3>2. args.vk = Clean(IF Trim(item.hashes) = <<>> THEN settings.vkHashes ELSE item.hashes)
      BY <2>6, <3>1 DEF CsqttArgs
    <3> QED
      BY <3>2, CleanMeant
  <2>7. First(<<>>) = <<>>
    <3>1. <<>> \in Seq({}) /\ Len(<<>>) <= MaxHashes
      BY DEF MaxHashes
    <3> QED
      BY <3>1, FirstAll
  <2>8. ASSUME LinkHashes # <<>>, Whole(LinkHashes), settings.mode = "manual"
        PROVE  args.vk = First(LinkHashes)
    BY <2>1, <2>2, <2>6, <2>8, ItemListed
  <2>9. ASSUME LinkHashes = <<>>, settings.mode = "manual"
        PROVE  args.vk = IF Trim(item.hashes) = <<>>
                         THEN First(Meant(settings.vkHashes, Separators)) ELSE <<>>
    <3>1. Whole(LinkHashes)
      BY <2>9 DEF Whole
    <3>2. Meant(item.hashes, Separators) = <<>>
      BY <2>1, <2>2, <2>9, <3>1, ItemListed
    <3> QED
      BY <2>6, <2>7, <2>9, <3>2
  <2> QED
    BY <2>4, <2>5, <2>8, <2>9 DEF HashesReachCore, Whole
<1> QED
  BY <1>1, ItemCorrect, PTL
=============================================================================
