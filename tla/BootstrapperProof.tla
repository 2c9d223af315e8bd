------------------------- MODULE BootstrapperProof -------------------------
(* Proofs about Bootstrapper, for every valid catalog, every machine and any  *)
(* number of launches and faults.  What the run checks is not inductive:      *)
(* SetupInv adds to it                                                        *)
(*   - what is still to do: which steps each mode can have, which follows     *)
(*     which, and that a worker to be placed comes after every library that   *)
(*     is not placed yet;                                                     *)
(*   - what a placement has done when it reaches a step;                      *)
(*   - what a page says of the transfer and of the shortcut, and that no      *)
(*     mode but the wizard has a page or a transfer.                          *)
EXTENDS Bootstrapper, SequenceTheorems, FiniteSetTheorems, WellFoundedInduction, TLAPS

(* Lists *)

(* A set of numbers that is not empty has a least one.                        *)
LEMMA LeastNumber ==
  ASSUME NEW S \in SUBSET Nat, S # {}
  PROVE  \E n \in S : \A y \in S : n <= y
<1>1. \E x \in S : \A y \in S : ~(<<y, x>> \in OpToRel(<, Nat))
  BY NatLessThanWellFounded, WFMin
<1>2. ASSUME NEW x \in S, NEW y \in S, ~(<<y, x>> \in OpToRel(<, Nat)) PROVE x <= y
  <2>1. ~(<<y, x>>[1] < <<y, x>>[2])
    BY <1>2 DEF OpToRel
  <2> QED
    BY <2>1
<1> QED
  BY <1>1, <1>2

(* Induction over a set of numbers. *)
LEMMA AllNumbers ==
  ASSUME NEW S \in SUBSET Nat, 0 \in S, \A n \in S : n + 1 \in S
  PROVE  \A n \in Nat : n \in S
<1> SUFFICES ASSUME Nat \ S # {} PROVE FALSE
  OBVIOUS
<1>1. PICK n \in Nat \ S : \A y \in Nat \ S : n <= y
  BY LeastNumber
<1>2. n - 1 \in Nat /\ n - 1 \notin Nat \ S
  BY <1>1
<1> QED
  BY <1>1, <1>2

(* What Listed gives are entries of the list that are in the set.             *)
LEMMA ListedIsList ==
  ASSUME NEW S, NEW list \in Seq(S), NEW set
  PROVE  Listed(list, set) \in Seq(S \cap set)
<1> DEFINE T == Seq(S \cap set)
           Longer(t, n) == IF list[n] \in set THEN Append(t, list[n]) ELSE t
           Fits(g, m) == g[0] = <<>> /\ \A n \in 1 .. m : g[n] = Longer(g[n - 1], n)
           N == {m \in Nat : m <= Len(list) => \E g \in [0 .. m -> T] : Fits(g, m)}
<1>l. Len(list) \in Nat /\ list \in [1 .. Len(list) -> S]
  BY LenProperties
<1>t. ASSUME NEW t \in T, NEW n \in 1 .. Len(list) PROVE Longer(t, n) \in T
  BY <1>l
<1> HIDE DEF T, Longer
<1>1. 0 \in N
  <2> DEFINE g == [n \in 0 .. 0 |-> <<>>]
  <2>1. g \in [0 .. 0 -> T] /\ Fits(g, 0)
    BY EmptySeq DEF T
  <2> QED
    BY <2>1
<1>2. ASSUME NEW m \in N PROVE m + 1 \in N
  <2> SUFFICES ASSUME m + 1 <= Len(list)
               PROVE  \E h \in [0 .. m + 1 -> T] : Fits(h, m + 1)
    BY <1>2
  <2>1. PICK g \in [0 .. m -> T] : Fits(g, m)
    BY <1>l
  <2> DEFINE h == [n \in 0 .. m + 1 |-> IF n <= m THEN g[n] ELSE Longer(g[m], m + 1)]
  <2>2. Longer(g[m], m + 1) \in T
    BY <1>t, <1>l
  <2>3. h \in [0 .. m + 1 -> T]
    BY <2>2
  <2>4. \A n \in 0 .. m : h[n] = g[n]
    OBVIOUS
  <2>5. h[m + 1] = Longer(g[m], m + 1)
    OBVIOUS
  <2>6. ASSUME NEW n \in 1 .. m + 1 PROVE h[n] = Longer(h[n - 1], n)
    <3> HIDE DEF h
    <3>1. CASE n <= m
      <4>1. n \in 1 .. m /\ n \in 0 .. m /\ n - 1 \in 0 .. m
        BY <1>2, <3>1 DEF N
      <4>2. h[n] = g[n] /\ h[n - 1] = g[n - 1]
        BY <2>4, <4>1
      <4> QED
        BY <2>1, <4>1, <4>2
    <3>2. CASE n = m + 1
      BY <2>4, <2>5, <3>2
    <3> QED
      BY <3>1, <3>2
  <2>7. Fits(h, m + 1)
    <3> HIDE DEF h
    <3>1. h[0] = <<>>
      BY <2>1, <2>4
    <3> QED
      BY <3>1, <2>6
  <2> QED
    <3> HIDE DEF h, Fits
    <3> QED
      BY <2>3, <2>7
<1>3. PICK g \in [0 .. Len(list) -> T] : Fits(g, Len(list))
  <2> HIDE DEF N
  <2>1. N \in SUBSET Nat
    BY DEF N
  <2>2. Len(list) \in N
    BY <1>l, <1>1, <1>2, <2>1, AllNumbers
  <2> QED
    BY <1>l, <2>2 DEF N
<1> DEFINE Made(h) == [n \in 0 .. Len(list) |->
                         IF n = 0 THEN <<>>
                         ELSE IF list[n] \in set THEN Append(h[n - 1], list[n]) ELSE h[n - 1]]
<1>4. \E h : h = Made(h)
  <2>1. ASSUME NEW n \in 0 .. Len(list) PROVE g[n] = Made(g)[n]
    <3>1. CASE n = 0
      BY <1>3, <3>1
    <3>2. CASE n \in 1 .. Len(list)
      <4>1. g[n] = Longer(g[n - 1], n)
        BY <1>3, <3>2
      <4> QED
        BY <4>1, <3>2 DEF Longer
    <3> QED
      BY <3>1, <3>2, <1>l
  <2>2. g = [n \in 0 .. Len(list) |-> g[n]]
    OBVIOUS
  <2>3. g = Made(g)
    BY <2>1, <2>2
  <2> QED
    BY <2>3
<1>5. ASSUME NEW h, h = Made(h) PROVE h[Len(list)] \in T
  <2> DEFINE M == {m \in Nat : m <= Len(list) => h[m] = g[m]}
  <2>1. \A n \in 0 .. Len(list) : h[n] = Made(h)[n]
    BY <1>5
  <2>2. h[0] = <<>> /\ \A n \in 1 .. Len(list) : h[n] = Longer(h[n - 1], n)
    BY <2>1, <1>l DEF Longer
  <2>3. 0 \in M
    BY <2>2, <1>3
  <2>4. ASSUME NEW m \in M PROVE m + 1 \in M
    BY <2>2, <1>3, <1>l
  <2>5. Len(list) \in M
    <3> HIDE DEF M
    <3>1. M \in SUBSET Nat
      BY DEF M
    <3> QED
      BY <1>l, <2>3, <2>4, <3>1, AllNumbers
  <2> QED
    BY <2>5, <1>3, <1>l
<1> DEFINE f == CHOOSE h : h = Made(h)
<1>6. Listed(list, set) = f[Len(list)]
  BY DEF Listed
<1>7. f = Made(f)
  BY <1>4
<1> QED
  <2> HIDE DEF f, Made
  <2> QED
    BY <1>5, <1>6, <1>7 DEF T

(* Putting lists together keeps their order: what stands at a place of the    *)
(* whole is an entry of one of the lists, and every entry of the lists before *)
(* that one stands before it.                                                 *)
LEMMA FlattenKeepsOrder ==
  ASSUME NEW S, NEW seqs \in Seq(Seq(S)), seqs # <<>>
  PROVE  /\ FlattenSeq(seqs) \in Seq(S)
         /\ \A i \in 1 .. Len(FlattenSeq(seqs)) : \E k \in 1 .. Len(seqs) :
              /\ \E j \in 1 .. Len(seqs[k]) : FlattenSeq(seqs)[i] = seqs[k][j]
              /\ \A b \in 1 .. k - 1 : \A j \in 1 .. Len(seqs[b]) :
                   \E a \in 1 .. i - 1 : FlattenSeq(seqs)[a] = seqs[b][j]
<1> DEFINE L == Len(seqs)
           Joined(t, n) == t \o seqs[n]
           Fits(g, m) == g[0] = <<>> /\ \A n \in 1 .. m : g[n] = Joined(g[n - 1], n)
           N == {m \in Nat : m <= L => \E g \in [0 .. m -> Seq(S)] : Fits(g, m)}
<1>l. L \in Nat \ {0} /\ \A k \in 1 .. L : seqs[k] \in Seq(S) /\ Len(seqs[k]) \in Nat
  BY LenProperties, EmptySeq
<1>j. ASSUME NEW t \in Seq(S), NEW n \in 1 .. L PROVE Joined(t, n) \in Seq(S)
  BY <1>l, ConcatProperties
<1> HIDE DEF L, Joined
<1>1. 0 \in N
  <2> DEFINE g == [n \in 0 .. 0 |-> <<>>]
  <2>1. g \in [0 .. 0 -> Seq(S)] /\ Fits(g, 0)
    BY EmptySeq
  <2> QED
    BY <2>1
<1>2. ASSUME NEW m \in N PROVE m + 1 \in N
  <2> SUFFICES ASSUME m + 1 <= L
               PROVE  \E h \in [0 .. m + 1 -> Seq(S)] : Fits(h, m + 1)
    <3> HIDE DEF Fits
    <3> QED
      BY <1>2 DEF N
  <2>1. PICK g \in [0 .. m -> Seq(S)] : Fits(g, m)
    <3> HIDE DEF Fits
    <3> QED
      BY <1>l DEF N
  <2> DEFINE h == [n \in 0 .. m + 1 |-> IF n <= m THEN g[n] ELSE Joined(g[m], m + 1)]
  <2>2. Joined(g[m], m + 1) \in Seq(S)
    BY <1>l, <1>j
  <2>3. h \in [0 .. m + 1 -> Seq(S)]
    BY <2>2
  <2>4. \A n \in 0 .. m : h[n] = g[n]
    OBVIOUS
  <2>5. h[m + 1] = Joined(g[m], m + 1)
    OBVIOUS
  <2>6. ASSUME NEW n \in 1 .. m + 1 PROVE h[n] = Joined(h[n - 1], n)
    <3> HIDE DEF h
    <3>1. CASE n <= m
      <4>1. n \in 1 .. m /\ n \in 0 .. m /\ n - 1 \in 0 .. m
        BY <1>2, <3>1 DEF N
      <4>2. h[n] = g[n] /\ h[n - 1] = g[n - 1]
        BY <2>4, <4>1
      <4> QED
        BY <2>1, <4>1, <4>2
    <3>2. CASE n = m + 1
      BY <2>4, <2>5, <3>2
    <3> QED
      BY <3>1, <3>2
  <2>7. Fits(h, m + 1)
    <3> HIDE DEF h
    <3>1. h[0] = <<>>
      BY <2>1, <2>4
    <3> QED
      BY <3>1, <2>6
  <2> QED
    <3> HIDE DEF h, Fits
    <3> QED
      BY <2>3, <2>7
<1>3. PICK g \in [0 .. L -> Seq(S)] : Fits(g, L)
  <2> HIDE DEF N
  <2>1. N \in SUBSET Nat
    BY DEF N
  <2>2. L \in N
    BY <1>l, <1>1, <1>2, <2>1, AllNumbers
  <2> QED
    <3> HIDE DEF Fits
    <3> QED
      BY <1>l, <2>2 DEF N
<1> DEFINE Made(h) == [n \in 1 .. L |-> IF n = 1 THEN seqs[n] ELSE Joined(h[n - 1], n)]
<1>f. g[1] = seqs[1]
  <2>1. g[1] = Joined(g[0], 1) /\ g[0] = <<>>
    BY <1>3, <1>l
  <2> QED
    BY <2>1, <1>l, ConcatEmptySeq DEF Joined
<1>4. \E h : h = Made(h)
  <2> DEFINE h == [n \in 1 .. L |-> g[n]]
  <2>1. ASSUME NEW n \in 1 .. L PROVE g[n] = Made(h)[n]
    <3>1. CASE n = 1
      BY <1>f, <3>1
    <3>2. CASE n \in 2 .. L
      <4>1. g[n] = Joined(g[n - 1], n) /\ h[n - 1] = g[n - 1]
        BY <1>3, <1>l, <3>2
      <4> HIDE DEF h
      <4> QED
        BY <4>1, <3>2
    <3> QED
      BY <3>1, <3>2, <1>l
  <2>2. h = Made(h)
    BY <2>1
  <2> QED
    BY <2>2
<1>5. ASSUME NEW h, h = Made(h) PROVE h[L] = g[L]
  <2> DEFINE M == {m \in Nat : m \in 1 .. L => h[m] = g[m]}
  <2>1. \A n \in 1 .. L : h[n] = Made(h)[n]
    BY <1>5
  <2>2. h[1] = seqs[1] /\ \A n \in 2 .. L : h[n] = Joined(h[n - 1], n)
    BY <2>1, <1>l
  <2>3. 0 \in M
    OBVIOUS
  <2>4. ASSUME NEW m \in M PROVE m + 1 \in M
    <3>1. CASE m = 0
      BY <2>2, <1>f, <3>1
    <3>2. CASE m \in 1 .. L - 1
      <4>1. h[m + 1] = Joined(h[m], m + 1) /\ g[m + 1] = Joined(g[m], m + 1)
        <5>1. m + 1 \in 2 .. L /\ m + 1 \in 1 .. L /\ (m + 1) - 1 = m
          BY <3>2, <1>l
        <5> QED
          BY <2>2, <1>3, <5>1
      <4> QED
        BY <4>1, <2>4, <3>2, <1>l
    <3>3. CASE m >= L
      BY <3>3, <1>l
    <3> QED
      BY <3>1, <3>2, <3>3, <1>l
  <2>5. L \in M
    <3> HIDE DEF M
    <3>1. M \in SUBSET Nat
      BY DEF M
    <3> QED
      BY <1>l, <2>3, <2>4, <3>1, AllNumbers
  <2> QED
    BY <2>5, <1>l
<1> DEFINE f == CHOOSE h : h = Made(h)
<1>6. FlattenSeq(seqs) = g[L]
  <2>1. FlattenSeq(seqs) = f[L]
    BY <1>l DEF FlattenSeq, L, Joined
  <2>2. f = Made(f)
    BY <1>4
  <2> HIDE DEF f, Made
  <2> QED
    BY <1>5, <2>1, <2>2
<1> DEFINE Has(t, n, i) == \E k \in 1 .. n :
                             /\ \E j \in 1 .. Len(seqs[k]) : t[i] = seqs[k][j]
                             /\ \A b \in 1 .. k - 1 : \A j \in 1 .. Len(seqs[b]) :
                                  \E a \in 1 .. i - 1 : t[a] = seqs[b][j]
           Holds(t, n) == \A b \in 1 .. n : \A j \in 1 .. Len(seqs[b]) :
                            \E a \in 1 .. Len(t) : t[a] = seqs[b][j]
           InOrder(t, n) == (\A i \in 1 .. Len(t) : Has(t, n, i)) /\ Holds(t, n)
           P == {m \in Nat : m <= L => InOrder(g[m], m)}
<1>7. 0 \in P
  <2>1. g[0] = <<>> /\ Len(<<>>) = 0
    BY <1>3
  <2> QED
    BY <2>1
<1>8. ASSUME NEW m \in P PROVE m + 1 \in P
  <2> SUFFICES ASSUME m + 1 <= L PROVE InOrder(g[m + 1], m + 1)
    BY <1>8
  <2> DEFINE t == g[m]
             s == seqs[m + 1]
             u == g[m + 1]
  <2>1. m \in Nat /\ m <= L /\ m + 1 \in 1 .. L /\ (m + 1) - 1 = m
    BY <1>8, <1>l
  <2>2. t \in Seq(S) /\ s \in Seq(S) /\ u = t \o s
    <3>1. u = Joined(g[m], m + 1) /\ g[m] \in Seq(S)
      BY <1>3, <1>l, <2>1
    <3> QED
      BY <1>l, <2>1, <3>1 DEF Joined
  <2>4. InOrder(t, m)
    <3> HIDE DEF InOrder
    <3> QED
      BY <1>8, <2>1
  <2> HIDE DEF t, s, u
  <2>3. /\ Len(t) \in Nat /\ Len(s) \in Nat /\ Len(u) = Len(t) + Len(s)
        /\ \A i \in 1 .. Len(t) : u[i] = t[i]
        /\ \A j \in 1 .. Len(s) : u[Len(t) + j] = s[j]
    BY <2>2, ConcatProperties, LenProperties
  <2>5. Holds(u, m + 1)
    <3> SUFFICES ASSUME NEW b \in 1 .. m + 1, NEW j \in 1 .. Len(seqs[b])
                 PROVE  \E a \in 1 .. Len(u) : u[a] = seqs[b][j]
      OBVIOUS
    <3>1. CASE b \in 1 .. m
      <4>1. PICK a \in 1 .. Len(t) : t[a] = seqs[b][j]
        BY <2>4, <3>1
      <4> QED
        BY <2>3, <4>1
    <3>2. CASE b = m + 1
      <4>1. Len(t) + j \in 1 .. Len(u) /\ u[Len(t) + j] = seqs[b][j]
        BY <2>3, <3>2 DEF s
      <4> QED
        BY <4>1
    <3> QED
      BY <3>1, <3>2, <2>1
  <2>6. ASSUME NEW i \in 1 .. Len(u) PROVE Has(u, m + 1, i)
    <3>1. CASE i \in 1 .. Len(t)
      <4>1. PICK k \in 1 .. m :
               /\ \E j \in 1 .. Len(seqs[k]) : t[i] = seqs[k][j]
               /\ \A b \in 1 .. k - 1 : \A j \in 1 .. Len(seqs[b]) :
                    \E a \in 1 .. i - 1 : t[a] = seqs[b][j]
        BY <2>4, <3>1
      <4>2. \A a \in 1 .. i : u[a] = t[a]
        BY <2>3, <3>1
      <4>3. k \in 1 .. m + 1 /\ u[i] = t[i]
        BY <2>1, <4>2, <3>1
      <4>4. ASSUME NEW b \in 1 .. k - 1, NEW j \in 1 .. Len(seqs[b])
            PROVE  \E a \in 1 .. i - 1 : u[a] = seqs[b][j]
        <5>1. PICK a \in 1 .. i - 1 : t[a] = seqs[b][j]
          BY <4>1
        <5>2. u[a] = t[a]
          BY <4>2, <3>1, <5>1, <2>3
        <5> QED
          BY <5>1, <5>2
      <4>5. \E j \in 1 .. Len(seqs[k]) : u[i] = seqs[k][j]
        BY <4>1, <4>3
      <4> QED
        BY <4>3, <4>4, <4>5
    <3>2. CASE i \in Len(t) + 1 .. Len(u)
      <4>1. \E j \in 1 .. Len(seqs[m + 1]) : u[i] = seqs[m + 1][j]
        <5>1. i - Len(t) \in 1 .. Len(s) /\ u[Len(t) + (i - Len(t))] = s[i - Len(t)]
          BY <2>3, <3>2
        <5> QED
          BY <5>1, <2>3 DEF s
      <4>2. ASSUME NEW b \in 1 .. m, NEW j \in 1 .. Len(seqs[b])
            PROVE  \E a \in 1 .. i - 1 : u[a] = seqs[b][j]
        <5>1. PICK a \in 1 .. Len(t) : t[a] = seqs[b][j]
          BY <2>4
        <5> QED
          BY <5>1, <2>3, <3>2
      <4>3. (m + 1) - 1 = m /\ m + 1 \in 1 .. m + 1
        BY <2>1
      <4>4. \A b \in 1 .. (m + 1) - 1 : \A j \in 1 .. Len(seqs[b]) :
               \E a \in 1 .. i - 1 : u[a] = seqs[b][j]
        BY <4>2, <4>3
      <4> QED
        BY <4>1, <4>3, <4>4
    <3> QED
      BY <3>1, <3>2, <2>3
  <2> QED
    BY <2>5, <2>6 DEF u
<1>9. L \in P
  <2> HIDE DEF P
  <2>1. P \in SUBSET Nat
    BY DEF P
  <2> QED
    BY <1>l, <1>7, <1>8, <2>1, AllNumbers
<1>10. InOrder(g[L], L) /\ g[L] \in Seq(S)
  <2> HIDE DEF InOrder
  <2> QED
    BY <1>9, <1>l
<1> QED
  <2>1. \A i \in 1 .. Len(g[L]) : Has(g[L], L, i)
    BY <1>10
  <2> QED
    BY <1>6, <1>10, <2>1 DEF L

-----------------------------------------------------------------------------
(* The catalog *)

Catalogued == Range(Manifest.artifacts)
Workers    == CudaWorkers(Manifest)
Runtimes   == CudaRuntimes(Manifest)

(* What a graphics card needs are artifacts of the catalog: the worker, then  *)
(* its runtimes, or nothing.                                                  *)
LEMMA SourcesAreArtifacts ==
  /\ Workers \in Seq(Catalogued) /\ Runtimes \in Seq(Catalogued)
  /\ Sources \in Seq(Catalogued)
  /\ Sources # <<>> => Sources = Workers \o Runtimes
<1>1. ASSUME NEW set, set \subseteq Catalogued
      PROVE  Listed(Manifest.artifacts, set) \in Seq(Catalogued)
  <2>1. Listed(Manifest.artifacts, set) \in Seq(Catalogued \cap set)
    BY ManifestIsValid, ListedIsList DEF Catalogued
  <2> QED
    BY <2>1, SeqMonotonic
<1>2. Workers \in Seq(Catalogued) /\ Runtimes \in Seq(Catalogued)
  BY <1>1 DEF Workers, Runtimes, CudaWorkers, CudaRuntimes, native_runtimes, Catalogued
<1> QED
  BY <1>2, ConcatProperties, EmptySeq
     DEF Sources, graphics_card_payload_sources, Workers, Runtimes

(* An artifact has a list of files.                                           *)
LEMMA FilesAreList ==
  ASSUME NEW a \in Catalogued
  PROVE  a.files \in Seq(Range(a.files)) /\ Len(a.files) \in Nat
         /\ DOMAIN a.files = 1 .. Len(a.files)
BY ManifestIsValid, LenProperties DEF Catalogued

(* The image of a list under an operation is finite. *)
LEMMA NamesAreFinite ==
  ASSUME NEW S, NEW s \in Seq(S)
  PROVE  IsFiniteSet(Range(s))
<1>1. DOMAIN s = 1 .. Len(s) /\ Len(s) \in Nat
  BY LenProperties
<1>2. IsFiniteSet(1 .. Len(s))
  BY <1>1, FS_Interval
<1>3. s \in [1 .. Len(s) -> Range(s)] /\ \A y \in Range(s) : \E x \in 1 .. Len(s) : s[x] = y
  BY <1>1, LenProperties DEF Range
<1>4. ExistsSurjection(1 .. Len(s), Range(s))
  BY <1>3 DEF ExistsSurjection, Surjection
<1> QED
  BY <1>2, <1>4, FS_Surjection DEF ExistsSurjection

(* What a graphics card needs has finitely many files.                        *)
LEMMA FinitelyManyFiles ==
  IsFiniteSet(Libraries) /\ IsFiniteSet(ProofFiles)
<1> DEFINE Files(a) == {a.files[j].name : j \in DOMAIN a.files}
           named == [i \in DOMAIN Runtimes |-> Files(Runtimes[i])]
<1>1. ASSUME NEW a \in Catalogued PROVE IsFiniteSet(Files(a))
  <2> DEFINE names == [j \in 1 .. Len(a.files) |-> a.files[j].name]
  <2>1. names \in Seq(Range(names))
    BY FilesAreList DEF Range
  <2>2. Files(a) = Range(names)
    BY FilesAreList DEF Range
  <2> QED
    BY <2>1, <2>2, NamesAreFinite
<1>2. Runtimes \in Seq(Catalogued) /\ DOMAIN Runtimes = 1 .. Len(Runtimes)
      /\ Len(Runtimes) \in Nat /\ \A i \in DOMAIN Runtimes : Runtimes[i] \in Catalogued
  BY SourcesAreArtifacts, LenProperties
<1> HIDE DEF Files
<1>3. IsFiniteSet(Range(named))
  <2>1. named \in Seq(Range(named))
    BY <1>2 DEF Range
  <2> QED
    BY <2>1, NamesAreFinite
<1>4. \A T \in Range(named) : IsFiniteSet(T)
  BY <1>1, <1>2 DEF Range
<1>5. Libraries = UNION Range(named)
  BY DEF Libraries, required_cuda_runtime_files, Names, Runtimes, Files, Range
<1>6. IsFiniteSet(Libraries)
  BY <1>3, <1>4, <1>5, FS_UNION
<1>7. IsFiniteSet({Worker, CpuWorker})
  <2>1. IsFiniteSet({Worker})
    BY FS_Singleton
  <2>2. IsFiniteSet({Worker} \cup {CpuWorker})
    BY <2>1, FS_AddElement
  <2>3. {Worker} \cup {CpuWorker} = {Worker, CpuWorker}
    OBVIOUS
  <2> QED
    BY <2>2, <2>3
<1> QED
  BY <1>6, <1>7, FS_Union DEF ProofFiles

-----------------------------------------------------------------------------
(* Staging a graphics card *)

(* The worker among the steps of a list comes after every library that is not *)
(* in a set.                                                                  *)
Places(step, name) == step.op = "place" /\ step.of[2] = name

WorkerIsLast(steps, there) ==
    \A i \in DOMAIN steps : Places(steps[i], Worker) =>
        \A library \in Libraries \ there :
            \E j \in 1 .. i - 1 : Places(steps[j], library)

Placings == UNION {Range(PlaceFiles(a)) : a \in Catalogued}

(* A list with one step before it.                                            *)
LEMMA OneBefore ==
  ASSUME NEW S, NEW one \in Seq(S), Len(one) = 1, NEW s \in Seq(S)
  PROVE  /\ one \o s \in Seq(S) /\ Len(one \o s) = 1 + Len(s) /\ (one \o s)[1] = one[1]
         /\ \A i \in 2 .. Len(one \o s) : (one \o s)[i] = s[i - 1]
         /\ DOMAIN (one \o s) = 1 .. Len(one \o s)
<1>1. Len(s) \in Nat
  BY LenProperties
<1>2. one \o s \in Seq(S) /\ Len(one \o s) = 1 + Len(s)
  <2>1. one \o s \in Seq(S)
    BY ConcatProperties
  <2>2. Len(one \o s) = Len(one) + Len(s)
    BY ConcatProperties
  <2> QED
    BY <2>1, <2>2
<1>3. \A i \in 1 .. 1 + Len(s) : (one \o s)[i] = IF i <= 1 THEN one[i] ELSE s[i - 1]
  <2>1. \A i \in 1 .. Len(one) + Len(s) :
           (one \o s)[i] = IF i <= Len(one) THEN one[i] ELSE s[i - Len(one)]
    BY ConcatProperties
  <2> QED
    BY <2>1
<1>4. DOMAIN (one \o s) = 1 .. Len(one \o s)
  BY <1>2, LenProperties
<1> QED
  BY <1>1, <1>2, <1>3, <1>4

(* Staging is a rename and then placements, the worker after the libraries.   *)
LEMMA StagingOrder ==
  ASSUME NEW provider
  PROVE  LET steps == stage_graphics_card_payload(provider)
         IN  /\ steps \in Seq(Range(Ops(<<"preserve">>)) \cup Placings)
             /\ \A i \in 2 .. Len(steps) : steps[i] \in Placings
             /\ steps # <<>> => steps[1] = Ops(<<"preserve">>)[1]
             /\ WorkerIsLast(steps, {})
<1> DEFINE guard == provider = "cuda" /\ \E s \in SourceIds : retained[s] # "absent"
           steps == stage_graphics_card_payload(provider)
           lists == [i \in DOMAIN Sources |-> PlaceFiles(Reverse(Sources)[i])]
           places == FlattenSeq(lists)
           first == Ops(<<"preserve">>)
           T == Range(first) \cup Placings
<1>1. CASE ~guard
  <2>1. steps = <<>>
    BY <1>1 DEF stage_graphics_card_payload
  <2> QED
    BY <2>1, EmptySeq DEF WorkerIsLast
<1>2. CASE guard
  <2>1. Sources # <<>> /\ Sources \in Seq(Catalogued)
    BY <1>2, SourcesAreArtifacts DEF SourceIds
  <2>2. /\ Sources = Workers \o Runtimes
        /\ Workers \in Seq(Catalogued) /\ Runtimes \in Seq(Catalogued)
    BY <2>1, SourcesAreArtifacts
  <2>3. /\ Len(Sources) \in Nat \ {0} /\ DOMAIN Sources = 1 .. Len(Sources)
        /\ Len(Workers) \in Nat /\ Len(Runtimes) \in Nat
        /\ Len(Sources) = Len(Workers) + Len(Runtimes)
        /\ \A i \in 1 .. Len(Sources) : Sources[i] \in Catalogued
        /\ \A i \in 1 .. Len(Runtimes) : Sources[Len(Workers) + i] = Runtimes[i]
    BY <2>1, <2>2, LenProperties, EmptySeq, ConcatProperties
  <2>4. /\ \A i \in 1 .. Len(Sources) : Reverse(Sources)[i] = Sources[Len(Sources) - i + 1]
        /\ \A i \in 1 .. Len(Sources) : Reverse(Sources)[i] \in Catalogued
    BY <2>3 DEF Reverse
  <2>5. ASSUME NEW a \in Catalogued
        PROVE  /\ PlaceFiles(a) \in Seq(Placings)
               /\ Len(PlaceFiles(a)) = Len(a.files)
               /\ \A j \in 1 .. Len(a.files) :
                    PlaceFiles(a)[j] = [op |-> "place", of |-> <<a.id, a.files[j].name>>]
    <3>1. Range(PlaceFiles(a)) \subseteq Placings
      BY DEF Placings
    <3>2. /\ Len(a.files) \in Nat /\ DOMAIN a.files = 1 .. Len(a.files)
      BY FilesAreList
    <3>3. /\ PlaceFiles(a) \in Seq(Range(PlaceFiles(a)))
          /\ Len(PlaceFiles(a)) = Len(a.files)
      <4>1. DOMAIN PlaceFiles(a) = 1 .. Len(a.files)
        BY <3>2 DEF PlaceFiles
      <4>2. PlaceFiles(a) = [j \in 1 .. Len(a.files) |-> PlaceFiles(a)[j]]
        BY <3>2 DEF PlaceFiles
      <4>3. PlaceFiles(a) \in [1 .. Len(a.files) -> Range(PlaceFiles(a))]
        BY <4>1, <4>2 DEF Range
      <4> QED
        BY <3>2, <4>3
    <3> QED
      BY <3>1, <3>2, <3>3, SeqMonotonic DEF PlaceFiles
  <2>6. lists \in Seq(Seq(Placings)) /\ Len(lists) = Len(Sources) /\ lists # <<>>
    <3>1. lists \in [1 .. Len(Sources) -> Seq(Placings)]
      BY <2>3, <2>4, <2>5
    <3> QED
      BY <3>1, <2>3, EmptySeq
  <2>7. /\ places \in Seq(Placings) /\ Len(places) \in Nat
        /\ \A i \in 1 .. Len(places) : \E k \in 1 .. Len(Sources) :
             /\ \E j \in 1 .. Len(lists[k]) : places[i] = lists[k][j]
             /\ \A b \in 1 .. k - 1 : \A j \in 1 .. Len(lists[b]) :
                  \E a \in 1 .. i - 1 : places[a] = lists[b][j]
    <3> HIDE DEF lists
    <3>1. /\ places \in Seq(Placings)
          /\ \A i \in 1 .. Len(places) : \E k \in 1 .. Len(lists) :
               /\ \E j \in 1 .. Len(lists[k]) : places[i] = lists[k][j]
               /\ \A b \in 1 .. k - 1 : \A j \in 1 .. Len(lists[b]) :
                    \E a \in 1 .. i - 1 : places[a] = lists[b][j]
      BY <2>6, FlattenKeepsOrder
    <3> HIDE DEF places
    <3>2. Len(places) \in Nat
      BY <3>1, LenProperties
    <3> QED
      BY <2>6, <3>1, <3>2
  <2>8. \A k \in 1 .. Len(Sources) : lists[k] = PlaceFiles(Sources[Len(Sources) - k + 1])
    BY <2>3, <2>4
  <2> HIDE DEF lists, places
  <2>9. ASSUME NEW i \in 1 .. Len(places), Places(places[i], Worker),
               NEW library \in Libraries
        PROVE  \E j \in 1 .. i - 1 : Places(places[j], library)
    <3>1. PICK k \in 1 .. Len(Sources) :
             /\ \E j \in 1 .. Len(lists[k]) : places[i] = lists[k][j]
             /\ \A b \in 1 .. k - 1 : \A j \in 1 .. Len(lists[b]) :
                  \E a \in 1 .. i - 1 : places[a] = lists[b][j]
      BY <2>7
    <3>2. PICK j \in 1 .. Len(lists[k]) : places[i] = lists[k][j]
      BY <3>1
    <3> DEFINE s == Sources[Len(Sources) - k + 1]
    <3>3. s \in Catalogued /\ lists[k] = PlaceFiles(s)
      BY <2>3, <2>8
    <3>s. s = Sources[Len(Sources) - k + 1]
      OBVIOUS
    <3> HIDE DEF s
    <3>4. j \in 1 .. Len(s.files) /\ s.files[j].name = Worker
      <4>1. j \in 1 .. Len(s.files)
        BY <2>5, <3>3
      <4>2. places[i].of = <<s.id, s.files[j].name>>
        <5>1. PlaceFiles(s)[j] = [op |-> "place", of |-> <<s.id, s.files[j].name>>]
          BY <2>5, <3>3, <4>1
        <5> QED
          BY <3>2, <3>3, <5>1
      <4> QED
        BY <4>1, <4>2, <2>9 DEF Places
    <3>5. k > Len(Runtimes)
      <4> SUFFICES ASSUME k <= Len(Runtimes) PROVE FALSE
        BY <2>3
      <4>1. s = Runtimes[Len(Runtimes) - k + 1]
        <5>1. Len(Runtimes) - k + 1 \in 1 .. Len(Runtimes)
          BY <2>3
        <5>2. Len(Sources) - k + 1 = Len(Workers) + (Len(Runtimes) - k + 1)
          BY <2>3
        <5>3. Sources[Len(Workers) + (Len(Runtimes) - k + 1)] = Runtimes[Len(Runtimes) - k + 1]
          BY <2>3, <5>1
        <5> QED
          BY <3>s, <5>2, <5>3
      <4>2. Len(Runtimes) - k + 1 \in DOMAIN Runtimes
        BY <2>2, <2>3, LenProperties
      <4>3. j \in DOMAIN s.files
        BY <3>3, <3>4, FilesAreList
      <4>4. Worker \in Libraries
        BY <3>4, <4>1, <4>2, <4>3
           DEF Libraries, required_cuda_runtime_files, Names, Runtimes
      <4> QED
        BY <4>4, WorkerIsNoLibrary
    <3>6. PICK r \in DOMAIN Runtimes : \E f \in DOMAIN Runtimes[r].files :
             library = Runtimes[r].files[f].name
      BY <2>9 DEF Libraries, required_cuda_runtime_files, Names, Runtimes
    <3>7. PICK f \in DOMAIN Runtimes[r].files : library = Runtimes[r].files[f].name
      BY <3>6
    <3>8. r \in 1 .. Len(Runtimes) /\ Runtimes[r] \in Catalogued
      BY <2>2, <2>3, LenProperties
    <3> DEFINE b == Len(Runtimes) - r + 1
    <3>9. /\ b \in 1 .. Len(Sources) /\ b \in 1 .. k - 1
          /\ Len(Sources) - b + 1 = Len(Workers) + r
      BY <2>3, <3>5, <3>8
    <3>10. lists[b] = PlaceFiles(Runtimes[r])
      BY <2>3, <2>8, <3>8, <3>9
    <3>11. f \in 1 .. Len(lists[b]) /\ lists[b][f].op = "place"
           /\ lists[b][f].of = <<Runtimes[r].id, library>>
      <4>1. f \in 1 .. Len(Runtimes[r].files)
        BY <3>8, FilesAreList
      <4>2. /\ Len(PlaceFiles(Runtimes[r])) = Len(Runtimes[r].files)
            /\ PlaceFiles(Runtimes[r])[f]
                 = [op |-> "place", of |-> <<Runtimes[r].id, Runtimes[r].files[f].name>>]
        BY <2>5, <3>8, <4>1
      <4> HIDE DEF b
      <4> QED
        BY <3>7, <3>10, <4>1, <4>2
    <3>12. PICK a \in 1 .. i - 1 : places[a] = lists[b][f]
      BY <3>1, <3>9, <3>11
    <3> QED
      BY <3>11, <3>12 DEF Places
  <2>10. first \in Seq(T) /\ Len(first) = 1 /\ first[1].op = "preserve"
    <3>1. first = << [op |-> "preserve", of |-> "none"] >>
      BY DEF Ops
    <3> QED
      BY <3>1 DEF Range
  <2>11. places \in Seq(T)
    BY <2>7, SeqMonotonic
  <2>12. steps = first \o places
    BY <1>2 DEF stage_graphics_card_payload, places, lists
  <2> HIDE DEF steps, first, T
  <2>13. /\ steps \in Seq(T) /\ Len(steps) = 1 + Len(places) /\ steps[1] = first[1]
         /\ \A i \in 2 .. Len(steps) : steps[i] = places[i - 1]
         /\ DOMAIN steps = 1 .. Len(steps)
    <3>1. first \in Seq(T) /\ Len(first) = 1
      BY <2>10
    <3> QED
      BY <2>11, <2>12, <3>1, OneBefore
  <2>14. \A i \in 2 .. Len(steps) : steps[i] \in Placings
    <3> SUFFICES ASSUME NEW i \in 2 .. Len(steps) PROVE steps[i] \in Placings
      OBVIOUS
    <3>1. i - 1 \in 1 .. Len(places) /\ steps[i] = places[i - 1]
      BY <2>7, <2>13
    <3>2. places[i - 1] \in Placings
      BY <2>7, <3>1, ElementOfSeq
    <3> QED
      BY <3>1, <3>2
  <2>15. WorkerIsLast(steps, {})
    <3> SUFFICES ASSUME NEW i \in DOMAIN steps, Places(steps[i], Worker),
                        NEW library \in Libraries
                 PROVE  \E j \in 1 .. i - 1 : Places(steps[j], library)
      BY DEF WorkerIsLast
    <3>1. i \in 2 .. Len(steps)
      BY <2>10, <2>13, <2>7 DEF Places
    <3>2. i - 1 \in 1 .. Len(places) /\ Places(places[i - 1], Worker)
      BY <2>13, <2>7, <3>1
    <3>3. PICK j \in 1 .. (i - 1) - 1 : Places(places[j], library)
      BY <2>9, <3>2
    <3>4. j + 1 \in 2 .. Len(steps) /\ j + 1 \in 1 .. i - 1 /\ (j + 1) - 1 = j
      BY <2>13, <2>7, <3>1, <3>3
    <3>5. steps[j + 1] = places[j]
      BY <2>13, <3>4
    <3> QED
      BY <3>3, <3>4, <3>5
  <2> QED
    BY <2>13, <2>14, <2>15 DEF steps, first, T
<1> QED
  BY <1>1, <1>2

-----------------------------------------------------------------------------
(* Types *)

Items == SourceIds \cup {Model}

Runs == [plan  : {"none", "cpu", "cuda"},
         left  : Seq(Items),
         state : {"none", "flying", "ok", "failed"}]

Inspections == {"none", "ok", "gpu_worker_not_published", "gpu_worker_not_installed",
                "gpu_runtime_files_missing"}

Checks == [state   : {"none", "inspect", "running", "done"},
           payload : Inspections,
           verdict : {"none", "cpu", "cuda", "unverified"}]

Probes == [key : Shortcuts, free : BOOLEAN]

WindowTyped ==
    /\ page \in COMPATIBILITY .. VERIFY /\ choice \in {"cpu", "cuda"}
    /\ run \in Runs /\ ready \in BOOLEAN /\ settled \in BOOLEAN
    /\ key \in Shortcuts /\ probe \in Probes
    /\ check \in Checks /\ checked \in BOOLEAN

DiskTyped ==
    /\ proof \in [ProofFiles -> {"none", "torn", "cpu", "cuda", "library"}]
    /\ app \in {"none", "old", "new"} /\ stamp \in {"none", "old", "new"}
    /\ entry \in BOOLEAN /\ link \in BOOLEAN /\ seeds \in BOOLEAN
    /\ record \in {"none", "cpu", "cuda"}
    /\ retained \in [Items -> {"absent", "good", "damaged"}]
    /\ user \subseteq UserFiles
    /\ outcome = [removed |-> outcome.removed, failed |-> outcome.failed]

SetupTyped ==
    /\ proc \in {"none", "wizard", "install", "verify", "uninstall"}
    /\ may \in BOOLEAN /\ running \in BOOLEAN /\ apart \in BOOLEAN
    /\ WindowTyped /\ DiskTyped

(* What a transfer fetches are items, in a list.                              *)
LEMMA PlansAreItems ==
  ASSUME NEW provider
  PROVE  Plan(provider) \in Seq(Items)
<1> DEFINE ids == [i \in DOMAIN Sources |-> Sources[i].id]
           rest == IF provider = "cuda" THEN ids ELSE <<>>
<1>1. DOMAIN Sources = 1 .. Len(Sources) /\ Len(Sources) \in Nat
  BY SourcesAreArtifacts, LenProperties
<1>2. ids \in Seq(Items)
  <2>1. ids \in [1 .. Len(Sources) -> Items]
    BY <1>1 DEF Items, SourceIds
  <2> QED
    BY <1>1, <2>1
<1>3. rest \in Seq(Items) /\ <<Model>> \in Seq(Items)
  BY <1>2, EmptySeq DEF Items
<1> HIDE DEF rest
<1>4. Plan(provider) = <<Model>> \o rest
  BY DEF Plan, rest
<1> QED
  BY <1>3, <1>4, ConcatProperties

(* No wizard is open: its variables are what a new one starts from.           *)
LEMMA ClosedIsTyped ==
  ASSUME Closed
  PROVE  WindowTyped'
<1>1. NoRun \in Runs
  BY EmptySeq DEF NoRun, Runs
<1>2. NoCheck \in Checks
  BY DEF NoCheck, Checks, Inspections
<1>3. page' \in COMPATIBILITY .. VERIFY
  BY DEF Closed, COMPATIBILITY, VERIFY
<1> QED
  BY <1>1, <1>2, <1>3, ShortcutIsOffered DEF Closed, WindowTyped, Probes

(* Going to a page. *)
LEMMA PageIsTyped ==
  ASSUME SetupTyped, NEW index \in COMPATIBILITY .. VERIFY, show_step(index)
  PROVE  /\ page' \in COMPATIBILITY .. VERIFY
         /\ run' \in Runs /\ ready' \in BOOLEAN /\ settled' \in BOOLEAN
         /\ probe' \in Probes /\ check' \in Checks /\ checked' \in BOOLEAN
<1>0. WindowTyped
  BY DEF SetupTyped
<1>1. page' \in COMPATIBILITY .. VERIFY
  BY DEF show_step
<1>2. run' \in Runs /\ ready' \in BOOLEAN /\ settled' \in BOOLEAN
  <2>1. CASE begin_transfer
    <3>1. Plan(choice) \in Seq(Items) /\ choice \in {"cpu", "cuda"}
      BY <1>0, PlansAreItems DEF WindowTyped
    <3>2. [plan |-> choice, left |-> Plan(choice), state |-> "flying"] \in Runs
      BY <3>1 DEF Runs
    <3> QED
      BY <1>0, <2>1, <3>2 DEF begin_transfer, WindowTyped
  <2>2. CASE UNCHANGED <<run, ready, settled>>
    BY <1>0, <2>2 DEF WindowTyped
  <2> QED
    BY <2>1, <2>2 DEF show_step
<1>3. probe' \in Probes
  BY <1>0 DEF show_step, verify_selected_shortcut, WindowTyped, Probes
<1>4. check' \in Checks /\ checked' \in BOOLEAN
  <2>1. CASE begin_verify
    BY <2>1 DEF begin_verify, NoCheck, Checks, Inspections
  <2>2. CASE UNCHANGED <<check, checked>>
    BY <1>0, <2>2 DEF WindowTyped
  <2> QED
    BY <2>1, <2>2 DEF show_step
<1> QED
  BY <1>1, <1>2, <1>3, <1>4

(* What an inspection of the worker's files answers. *)
LEMMA InspectionIsTyped ==
  gpu_payload_rejection \in Inspections
BY DEF gpu_payload_rejection, inspect_gpu_payload, Inspections

LEMMA SetupStartsTyped ==
  ASSUME Init
  PROVE  SetupTyped
<1>1. NoRun \in Runs /\ NoCheck \in Checks
  BY EmptySeq DEF NoRun, Runs, NoCheck, Checks, Inspections
<1>2. WindowTyped
  <2>1. key = FirstShortcut /\ probe = [key |-> key, free |-> FALSE]
    BY DEF Init
  <2>2. key \in Shortcuts /\ probe \in Probes
    BY <2>1, ShortcutIsOffered DEF Probes
  <2>3. page \in COMPATIBILITY .. VERIFY /\ run \in Runs /\ check \in Checks
    BY <1>1 DEF Init, COMPATIBILITY, VERIFY
  <2>4. choice = "cpu" /\ ~ready /\ ~settled /\ ~checked
        /\ ready \in BOOLEAN /\ settled \in BOOLEAN /\ checked \in BOOLEAN
    BY DEF Init
  <2> QED
    BY <2>2, <2>3, <2>4 DEF WindowTyped
<1>3. DiskTyped /\ apart \in BOOLEAN
  <2>1. PICK kind \in {"none", "old", "torn", "staging", "remnant"} : Disk(kind)
    BY DEF Init
  <2>2. outcome = [removed |-> outcome.removed, failed |-> outcome.failed]
    BY DEF Init
  <2> QED
    BY <2>1, <2>2 DEF Disk, DiskTyped, Items
<1> QED
  BY <1>2, <1>3 DEF Init, SetupTyped

(* The steps of a procedure keep the types. *)
LEMMA ProcedureIsTyped ==
  ASSUME SetupTyped, Procedure, Doing("advance") => page = INSTALL
  PROVE  SetupTyped'
<1>w. ASSUME UNCHANGED wizardVars PROVE WindowTyped'
  BY <1>w DEF wizardVars, SetupTyped, WindowTyped
<1> USE DEF SetupTyped, wizardVars, diskVars, boundVars
<1>1. CASE CopyApp
  BY <1>1 DEF CopyApp, WindowTyped, DiskTyped
<1>2. CASE CopyWorker
  <2>1. proof' \in [ProofFiles -> {"none", "torn", "cpu", "cuda", "library"}]
    BY <1>2 DEF CopyWorker, DiskTyped
  <2>2. DiskTyped'
    BY <1>2, <2>1 DEF CopyWorker, DiskTyped
  <2> QED
    BY <1>2, <1>w, <2>2 DEF CopyWorker
<1>3. CASE register_uninstall \/ create_shortcut \/ write_stamp
  <2>1. /\ app' = app /\ proof' = proof /\ seeds' = seeds /\ record' = record
        /\ retained' = retained /\ user' = user /\ outcome' = outcome
        /\ entry' \in BOOLEAN /\ link' \in BOOLEAN /\ stamp' \in {"none", "old", "new"}
    BY <1>3 DEF register_uninstall, create_shortcut, write_stamp, DiskTyped
  <2>2. DiskTyped'
    BY <2>1 DEF DiskTyped
  <2> QED
    BY <1>3, <1>w, <2>2 DEF register_uninstall, create_shortcut, write_stamp
<1>4. CASE BeginStaging \/ StagingFails
  BY <1>4 DEF BeginStaging, StagingFails, WindowTyped, DiskTyped
<1>5. CASE preserve_cpu_worker
  <2>1. Worker \in ProofFiles
    BY DEF ProofFiles
  <2> QED
    BY <1>5, <2>1 DEF preserve_cpu_worker, WindowTyped, DiskTyped
<1>6. CASE place_beside_the_worker
  <2> DEFINE name == Head(todo).of[2]
  <2>1. /\ proof' = [proof EXCEPT ![name] = IF name = Worker THEN "cuda" ELSE "library"]
        /\ app' = app /\ entry' = entry /\ link' = link /\ stamp' = stamp /\ record' = record
        /\ seeds' = seeds /\ retained' = retained /\ user' = user /\ outcome' = outcome
        /\ UNCHANGED wizardVars
        /\ proc' = proc /\ may' = may /\ running' = running /\ apart' = apart
    BY <1>6 DEF place_beside_the_worker
  <2> HIDE DEF name
  <2>2. proof' \in [ProofFiles -> {"none", "torn", "cpu", "cuda", "library"}]
    BY <2>1 DEF DiskTyped
  <2>3. DiskTyped'
    BY <2>1, <2>2 DEF DiskTyped
  <2> QED
    BY <2>1, <2>3, <1>w
<1>7. CASE PlacingFails
  BY <1>7 DEF PlacingFails, WindowTyped, DiskTyped
<1>8. CASE Advance
  <2>1. page + 1 \in COMPATIBILITY .. VERIFY /\ show_step(page + 1)
    BY <1>8 DEF Advance, INSTALL, COMPATIBILITY, VERIFY
  <2>2. WindowTyped'
    <3> HIDE DEF SetupTyped
    <3>1. choice' = choice /\ key' = key
      BY <1>8 DEF Advance
    <3> QED
      BY <2>1, <3>1, PageIsTyped DEF SetupTyped, WindowTyped
  <2>3. DiskTyped'
    BY <1>8 DEF Advance, DiskTyped
  <2> QED
    BY <1>8, <2>2, <2>3 DEF Advance
<1>9. CASE write_default_vocabulary
  <2>1. "config" \in UserFiles
    BY DEF UserFiles, targets, Removable
  <2> QED
    BY <1>9, <2>1 DEF write_default_vocabulary, WindowTyped, DiskTyped
<1>10. CASE clear_installed_provider
  BY <1>10 DEF clear_installed_provider, WindowTyped, DiskTyped
<1>11. CASE clear_registration \/ remove_program_files
  <2>1. /\ seeds' = seeds /\ record' = record /\ retained' = retained /\ user' = user
        /\ outcome' = outcome /\ UNCHANGED wizardVars
        /\ proc' = proc /\ may' = may /\ running' = running /\ apart' = apart
    BY <1>11 DEF clear_registration, remove_program_files
  <2>2. entry' \in BOOLEAN /\ link' \in BOOLEAN
        /\ stamp' \in {"none", "old", "new"} /\ app' \in {"none", "old", "new"}
    BY <1>11 DEF clear_registration, remove_program_files, DiskTyped
  <2>3. proof' \in [ProofFiles -> {"none", "torn", "cpu", "cuda", "library"}]
    BY <1>11 DEF clear_registration, remove_program_files, DiskTyped
  <2>4. DiskTyped'
    BY <2>1, <2>2, <2>3 DEF DiskTyped
  <2> QED
    BY <2>1, <2>4, <1>w
<1>12. CASE RemovalFails
  <2>1. outcome' = [removed |-> outcome'.removed, failed |-> outcome'.failed]
    BY <1>12 DEF RemovalFails, DiskTyped
  <2>2. DiskTyped'
    BY <1>12, <2>1 DEF RemovalFails, DiskTyped
  <2> QED
    BY <1>12, <1>w, <2>2 DEF RemovalFails
<1>13. CASE remove_user_data_under
  <2>1. WindowTyped'
    BY <1>13 DEF remove_user_data_under, WindowTyped
  <2>2. DiskTyped'
    BY <1>13 DEF remove_user_data_under, DiskTyped, Report
  <2> QED
    BY <1>13, <2>1, <2>2 DEF remove_user_data_under
<1>14. CASE UninstallEnds
  BY <1>14 DEF UninstallEnds, WindowTyped, DiskTyped
<1> QED
  BY <1>1, <1>2, <1>3, <1>4, <1>5, <1>6, <1>7, <1>8, <1>9, <1>10, <1>11, <1>12, <1>13, <1>14
     DEF Procedure

(* So do the two threads and the window's timer. *)
LEMMA ThreadsAreTyped ==
  ASSUME SetupTyped, Threads \/ Timer
  PROVE  SetupTyped'
<1>d. ASSUME UNCHANGED <<proof, app, entry, link, stamp, record, seeds, retained, user, outcome>>
      PROVE  DiskTyped'
  BY <1>d DEF SetupTyped, DiskTyped
<1> USE DEF SetupTyped, diskVars, boundVars
<1>1. CASE execute
  <2>1. CASE run.left = <<>>
    <3>1. run' = [run EXCEPT !.state = "ok"] /\ retained' = retained
      BY <1>1, <2>1 DEF execute
    <3>2. run' \in Runs
      BY <3>1 DEF WindowTyped, Runs
    <3>3. WindowTyped'
      BY <1>1, <3>2 DEF execute, WindowTyped
    <3> QED
      BY <1>1, <1>d, <3>1, <3>3 DEF execute
  <2>2. CASE run.left # <<>>
    <3>1. /\ run' = [run EXCEPT !.left = Tail(run.left)]
          /\ retained' = [retained EXCEPT ![Head(run.left)] = "good"]
      BY <1>1, <2>2 DEF execute
    <3>2. run' \in Runs
      BY <2>2, <3>1, HeadTailProperties DEF WindowTyped, Runs
    <3>3. WindowTyped'
      BY <1>1, <3>2 DEF execute, WindowTyped
    <3>4. retained' \in [Items -> {"absent", "good", "damaged"}]
      BY <3>1 DEF DiskTyped
    <3>5. DiskTyped'
      BY <1>1, <3>4 DEF execute, DiskTyped
    <3> QED
      BY <1>1, <3>3, <3>5 DEF execute
  <2> QED
    BY <2>1, <2>2
<1>2. CASE TransferFails
  <2>1. run' \in Runs
    BY <1>2 DEF TransferFails, WindowTyped, Runs
  <2>2. WindowTyped'
    BY <1>2, <2>1 DEF TransferFails, WindowTyped
  <2> QED
    BY <1>2, <1>d, <2>2 DEF TransferFails
<1>3. CASE InspectPayload
  <2>1. check' \in Checks
    BY <1>3, InspectionIsTyped DEF InspectPayload, WindowTyped, Checks
  <2>2. WindowTyped'
    BY <1>3, <2>1 DEF InspectPayload, WindowTyped
  <2> QED
    BY <1>3, <1>d, <2>2 DEF InspectPayload
<1>4. CASE verify_engine
  <2>1. Verdicts \subseteq {"none", "cpu", "cuda", "unverified"}
    BY DEF Verdicts, proven
  <2>2. check' \in Checks
    BY <1>4, <2>1 DEF verify_engine, Checks, Inspections
  <2>3. WindowTyped'
    BY <1>4, <2>2 DEF verify_engine, WindowTyped
  <2> QED
    BY <1>4, <1>d, <2>3 DEF verify_engine
<1>5. CASE poll_transfer
  <2>1. WindowTyped'
    BY <1>5 DEF poll_transfer, WindowTyped
  <2> QED
    BY <1>5, <1>d, <2>1 DEF poll_transfer
<1>6. CASE poll_verify
  <2>1. check' \in Checks /\ record' \in {"none", "cpu", "cuda"}
    BY <1>6 DEF poll_verify, Record, WindowTyped, DiskTyped, Checks
  <2>2. WindowTyped'
    BY <1>6, <2>1 DEF poll_verify, WindowTyped
  <2>3. DiskTyped'
    BY <1>6, <2>1 DEF poll_verify, DiskTyped
  <2> QED
    BY <1>6, <2>2, <2>3 DEF poll_verify
<1>7. CASE verify_provider
  <2>1. check' \in Checks /\ record' \in {"none", "cpu", "cuda"}
    BY <1>7 DEF verify_provider, Record, WindowTyped, DiskTyped, Checks, NoCheck, Inspections
  <2>2. WindowTyped'
    BY <1>7, <2>1 DEF verify_provider, WindowTyped
  <2>3. DiskTyped'
    BY <1>7, <2>1 DEF verify_provider, DiskTyped
  <2> QED
    BY <1>7, <2>2, <2>3 DEF verify_provider
<1> QED
  BY <1>1, <1>2, <1>3, <1>4, <1>5, <1>6, <1>7 DEF Threads, Timer

(* So do the buttons. *)
LEMMA ButtonsAreTyped ==
  ASSUME SetupTyped, Buttons
  PROVE  SetupTyped'
<1>d. ASSUME UNCHANGED diskVars PROVE DiskTyped'
  BY <1>d DEF SetupTyped, DiskTyped, diskVars
<1>p. ASSUME NEW index \in COMPATIBILITY .. VERIFY, show_step(index),
             UNCHANGED <<choice, key>>
      PROVE  WindowTyped'
  BY <1>p, PageIsTyped DEF SetupTyped, WindowTyped
<1>n. page \in COMPATIBILITY .. VERIFY
  BY DEF SetupTyped, WindowTyped
<1>1. CASE OnBack
  <2>1. page - 1 \in COMPATIBILITY .. VERIFY
    BY <1>1, <1>n DEF OnBack, COMPATIBILITY, VERIFY
  <2> QED
    BY <1>1, <1>d, <1>p, <2>1 DEF OnBack, SetupTyped, boundVars
<1>2. CASE OnNext
  <2>1. page + 1 \in COMPATIBILITY .. VERIFY
    BY <1>2, <1>n DEF OnNext, COMPATIBILITY, VERIFY
  <2> QED
    BY <1>2, <1>d, <1>p, <2>1 DEF OnNext, SetupTyped, boundVars
<1>3. CASE perform_install
  <2>1. WindowTyped'
    BY <1>3 DEF perform_install, SetupTyped, WindowTyped, wizardVars
  <2> QED
    BY <1>3, <1>d, <2>1 DEF perform_install, SetupTyped, boundVars
<1>4. CASE WriteSeeds
  <2>1. VERIFY \in COMPATIBILITY .. VERIFY /\ "config" \in UserFiles
    BY DEF COMPATIBILITY, VERIFY, UserFiles, targets, Removable
  <2>2. DiskTyped'
    BY <1>4, <2>1 DEF WriteSeeds, SetupTyped, DiskTyped
  <2> QED
    BY <1>4, <1>p, <2>1, <2>2 DEF WriteSeeds, SetupTyped
<1>5. CASE Finish
  <2>1. DiskTyped'
    BY <1>5 DEF Finish, SetupTyped, DiskTyped
  <2> QED
    BY <1>5, <2>1, ClosedIsTyped DEF Finish, SetupTyped, boundVars
<1>6. CASE ChooseProvider
  <2>1. WindowTyped'
    BY <1>6 DEF ChooseProvider, SetupTyped, WindowTyped
  <2> QED
    BY <1>6, <1>d, <2>1 DEF ChooseProvider, SetupTyped, boundVars
<1>7. CASE ChooseShortcut
  <2>1. WindowTyped'
    BY <1>7 DEF ChooseShortcut, verify_selected_shortcut, SetupTyped, WindowTyped, Probes
  <2> QED
    BY <1>7, <1>d, <2>1 DEF ChooseShortcut, SetupTyped, boundVars
<1>8. CASE OnRetry
  <2>1. WindowTyped'
    BY <1>8 DEF OnRetry, begin_verify, NoCheck, SetupTyped, WindowTyped, Checks, Inspections
  <2> QED
    BY <1>8, <1>d, <2>1 DEF OnRetry, SetupTyped, boundVars
<1>9. CASE OnCancel
  BY <1>9, <1>d, ClosedIsTyped DEF OnCancel, SetupTyped, boundVars
<1> QED
  BY <1>1, <1>2, <1>3, <1>4, <1>5, <1>6, <1>7, <1>8, <1>9 DEF Buttons

(* So do a launch and what happens around setup. *)
LEMMA SurroundingsAreTyped ==
  ASSUME SetupTyped,
         \/ \E arguments \in Commands : Launch(arguments)
         \/ Killed \/ ArtifactDamaged \/ AppStarts \/ AppStops
  PROVE  SetupTyped'
<1>d. ASSUME UNCHANGED diskVars PROVE DiskTyped'
  BY <1>d DEF SetupTyped, DiskTyped, diskVars
<1>w. ASSUME UNCHANGED wizardVars PROVE WindowTyped'
  BY <1>w DEF SetupTyped, WindowTyped, wizardVars
<1>1. ASSUME NEW arguments \in Commands, Launch(arguments) PROVE SetupTyped'
  <2>1. /\ outcome' = [removed |-> {}, failed |-> {}]
        /\ UNCHANGED <<running, page, run, ready, settled, probe, key, proof, app, entry, link,
                       stamp, record, seeds, retained, user, faults>>
        /\ apart' \in BOOLEAN
    BY <1>1 DEF Launch, SetupTyped
  <2>2. DiskTyped'
    BY <2>1 DEF SetupTyped, DiskTyped
  <2>3. /\ proc' \in {"none", "wizard", "install", "verify", "uninstall"} /\ may' \in BOOLEAN
        /\ choice' \in {"cpu", "cuda"}
        /\ begin_verify \/ UNCHANGED <<check, checked>>
    BY <1>1 DEF Launch, SetupTyped, WindowTyped, preferred_provider, decide
  <2>4. check' \in Checks /\ checked' \in BOOLEAN
    BY <2>3 DEF begin_verify, NoCheck, Checks, Inspections, SetupTyped, WindowTyped
  <2>5. WindowTyped'
    BY <2>1, <2>3, <2>4 DEF SetupTyped, WindowTyped
  <2> QED
    BY <2>1, <2>2, <2>3, <2>5 DEF SetupTyped
<1>2. CASE Killed
  BY <1>2, <1>d, ClosedIsTyped DEF Killed, SetupTyped
<1>3. CASE ArtifactDamaged
  <2>1. DiskTyped'
    BY <1>3 DEF ArtifactDamaged, SetupTyped, DiskTyped
  <2> QED
    BY <1>3, <1>w, <2>1 DEF ArtifactDamaged, SetupTyped
<1>4. CASE AppStarts
  <2>1. DiskTyped'
    BY <1>4 DEF AppStarts, SetupTyped, DiskTyped
  <2> QED
    BY <1>4, <1>w, <2>1 DEF AppStarts, SetupTyped
<1>5. CASE AppStops
  BY <1>5, <1>d, <1>w DEF AppStops, SetupTyped, boundVars
<1> QED
  BY <1>1, <1>2, <1>3, <1>4, <1>5

-----------------------------------------------------------------------------
(* What is still to do *)

UninstallSteps == {"unstamp", "unregister", "unlink", "delete_app", "delete_proof",
                   "delete_user"}
CopySteps == {"app", "tear", "worker", "entry", "link", "stamp"}

(* The steps each mode can have.                                              *)
IsStepOf(op, mode) ==
    \/ mode = "wizard" /\ op \in CopySteps \cup {"stage", "preserve", "place", "advance"}
    \/ mode = "install" /\ op \in CopySteps \cup {"default_words", "forget"}
    \/ mode = "uninstall" /\ op \in UninstallSteps

(* Which step can follow which.                                               *)
Follows(op, next) ==
    \/ <<op, next>> \in {<<"app", "tear">>, <<"tear", "worker">>, <<"worker", "entry">>,
                         <<"entry", "link">>, <<"link", "stamp">>, <<"stamp", "stage">>,
                         <<"stamp", "default_words">>, <<"stage", "advance">>,
                         <<"preserve", "place">>, <<"preserve", "advance">>,
                         <<"place", "place">>, <<"place", "advance">>,
                         <<"default_words", "forget">>}
    \/ op \in UninstallSteps /\ next \in UninstallSteps

(* A list of steps a mode can have to do, with some files there already.      *)
IsWork(steps, mode, there) ==
    /\ \E S : steps \in Seq(S)
    /\ \A i \in 1 .. Len(steps) :
         DOMAIN steps[i] = {"op", "of"} /\ IsStepOf(steps[i].op, mode)
    /\ \A i \in 2 .. Len(steps) : Follows(steps[i - 1].op, steps[i].op)
    /\ WorkerIsLast(steps, there)

(* Nothing is work. *)
LEMMA NoWork ==
  ASSUME NEW mode, NEW there
  PROVE  IsWork(<<>>, mode, there)
BY EmptySeq DEF IsWork, WorkerIsLast

(* The head of what there is to do is a step of the mode.                     *)
LEMMA HeadOfWork ==
  ASSUME NEW steps, NEW mode, NEW there, IsWork(steps, mode, there), steps # <<>>
  PROVE  /\ Len(steps) \in Nat \ {0} /\ Head(steps) = steps[1]
         /\ IsStepOf(Head(steps).op, mode)
<1>1. PICK S : steps \in Seq(S)
  BY DEF IsWork
<1>2. Len(steps) \in Nat \ {0} /\ Head(steps) = steps[1]
  BY <1>1, EmptySeq
<1> QED
  BY <1>2 DEF IsWork

(* What is left after a step is work, with what the step placed there; the    *)
(* next step follows it.                                                      *)
LEMMA TailOfWork ==
  ASSUME NEW steps, NEW mode, NEW there, IsWork(steps, mode, there), steps # <<>>,
         NEW after, there \cap Libraries \subseteq after,
         \A library \in Libraries : Places(Head(steps), library) => library \in after
  PROVE  /\ IsWork(Tail(steps), mode, after)
         /\ Tail(steps) # <<>> => Follows(Head(steps).op, Head(Tail(steps)).op)
<1>1. PICK S : steps \in Seq(S)
  BY DEF IsWork
<1>2. /\ Len(steps) \in Nat \ {0} /\ Head(steps) = steps[1]
      /\ Tail(steps) \in Seq(S) /\ Len(Tail(steps)) = Len(steps) - 1
      /\ \A i \in 1 .. Len(Tail(steps)) : Tail(steps)[i] = steps[i + 1]
      /\ DOMAIN steps = 1 .. Len(steps) /\ DOMAIN Tail(steps) = 1 .. Len(Tail(steps))
  BY <1>1, HeadTailProperties, EmptySeq, LenProperties
<1> DEFINE rest == Tail(steps)
<1> HIDE DEF rest
<1>3. \A i \in 1 .. Len(rest) : DOMAIN rest[i] = {"op", "of"} /\ IsStepOf(rest[i].op, mode)
  BY <1>2 DEF IsWork, rest
<1>4. ASSUME NEW i \in 2 .. Len(rest) PROVE Follows(rest[i - 1].op, rest[i].op)
  <2>1. /\ i + 1 \in 2 .. Len(steps) /\ (i + 1) - 1 = i
        /\ rest[i] = steps[i + 1] /\ rest[i - 1] = steps[(i - 1) + 1] /\ (i - 1) + 1 = i
    BY <1>2 DEF rest
  <2> QED
    BY <2>1 DEF IsWork
<1>5. WorkerIsLast(rest, after)
  <2> SUFFICES ASSUME NEW i \in DOMAIN rest, Places(rest[i], Worker),
                      NEW library \in Libraries \ after
               PROVE  \E j \in 1 .. i - 1 : Places(rest[j], library)
    BY DEF WorkerIsLast
  <2>1. /\ i \in 1 .. Len(rest) /\ rest[i] = steps[i + 1] /\ i + 1 \in DOMAIN steps
        /\ library \in Libraries \ there
    BY <1>2 DEF rest
  <2>2. PICK j \in 1 .. (i + 1) - 1 : Places(steps[j], library)
    BY <2>1 DEF IsWork, WorkerIsLast
  <2>3. j # 1
    BY <1>2, <2>2
  <2>4. j - 1 \in 1 .. i - 1 /\ rest[j - 1] = steps[(j - 1) + 1] /\ (j - 1) + 1 = j
    BY <1>2, <2>1, <2>2, <2>3 DEF rest
  <2> QED
    BY <2>2, <2>4
<1>6. rest # <<>> => Follows(Head(steps).op, Head(rest).op)
  <2> SUFFICES ASSUME rest # <<>> PROVE Follows(Head(steps).op, Head(rest).op)
    OBVIOUS
  <2>1. Len(rest) \in Nat \ {0} /\ Head(rest) = rest[1]
    BY <1>2, EmptySeq DEF rest
  <2>2. rest[1] = steps[1 + 1] /\ 1 + 1 \in 2 .. Len(steps) /\ (1 + 1) - 1 = 1
    BY <1>2, <2>1 DEF rest
  <2> QED
    BY <1>2, <2>1, <2>2 DEF IsWork
<1> QED
  BY <1>2, <1>3, <1>4, <1>5, <1>6 DEF IsWork, rest

(* Steps that place nothing are work wherever they follow each other.         *)
LEMMA OpsAreWork ==
  ASSUME NEW T, NEW names \in Seq(T), NEW mode, NEW there,
         \A i \in 1 .. Len(names) : names[i] # "place" /\ IsStepOf(names[i], mode),
         \A i \in 2 .. Len(names) : Follows(names[i - 1], names[i])
  PROVE  IsWork(Ops(names), mode, there)
<1> DEFINE steps == Ops(names)
<1>1. /\ Len(names) \in Nat /\ DOMAIN names = 1 .. Len(names)
  BY LenProperties
<1>2. steps = [i \in 1 .. Len(names) |-> [op |-> names[i], of |-> "none"]]
  BY <1>1 DEF Ops
<1>3. steps \in Seq(Range(steps))
  BY <1>1, <1>2 DEF Range
<1>4. Len(steps) = Len(names) /\ DOMAIN steps = 1 .. Len(names)
      /\ \A i \in 1 .. Len(names) : steps[i].op = names[i] /\ DOMAIN steps[i] = {"op", "of"}
  BY <1>1, <1>2
<1> HIDE DEF steps
<1> QED
  <2>1. WorkerIsLast(steps, there)
    BY <1>4 DEF WorkerIsLast, Places
  <2>2. \A i \in 2 .. Len(steps) : Follows(steps[i - 1].op, steps[i].op)
    BY <1>1, <1>4
  <2> QED
    BY <1>3, <1>4, <2>1, <2>2 DEF IsWork, steps

(* A placement begins with the program files and goes on in either mode.      *)
LEMMA PlacementIsWork ==
  ASSUME NEW there
  PROVE  /\ IsWork(perform \o Ops(<<"stage", "advance">>), "wizard", there)
         /\ IsWork(perform \o Ops(<<"default_words", "forget">>), "install", there)
         /\ Head(perform \o Ops(<<"stage", "advance">>)).op = "app"
         /\ Head(perform \o Ops(<<"default_words", "forget">>)).op = "app"
<1> DEFINE copies == <<"app", "tear", "worker", "entry", "link", "stamp">>
<1>1. ASSUME NEW a, NEW b, NEW mode,
             a # "place", b # "place", IsStepOf(a, mode), IsStepOf(b, mode),
             \A op \in CopySteps : IsStepOf(op, mode), Follows("stamp", a), Follows(a, b)
      PROVE  /\ IsWork(perform \o Ops(<<a, b>>), mode, there)
             /\ Head(perform \o Ops(<<a, b>>)).op = "app"
  <2> DEFINE more == <<a, b>>
             names == copies \o more
             T == CopySteps \cup {a, b}
  <2>1. copies \in Seq(T) /\ Len(copies) = 6 /\ more \in Seq(T) /\ Len(more) = 2
    <3>1. copies \in Seq(CopySteps) /\ Len(copies) = 6
      BY DEF CopySteps
    <3>2. more \in Seq({a, b}) /\ Len(more) = 2
      OBVIOUS
    <3> QED
      BY <3>1, <3>2, SeqMonotonic
  <2>2. /\ copies[1] = "app" /\ copies[2] = "tear" /\ copies[3] = "worker"
        /\ copies[4] = "entry" /\ copies[5] = "link" /\ copies[6] = "stamp"
        /\ more[1] = a /\ more[2] = b
    OBVIOUS
  <2>m. perform = Ops(copies)
    BY DEF perform
  <2> HIDE DEF copies, more, names, T
  <2>3. /\ names \in Seq(T) /\ Len(names) = 8
        /\ \A i \in 1 .. 8 : names[i] = IF i <= 6 THEN copies[i] ELSE more[i - 6]
    <3>1. /\ names \in Seq(T) /\ Len(names) = Len(copies) + Len(more)
          /\ \A i \in 1 .. Len(copies) + Len(more) :
               names[i] = IF i <= Len(copies) THEN copies[i] ELSE more[i - Len(copies)]
      BY <2>1, ConcatProperties DEF names
    <3> QED
      BY <2>1, <3>1
  <2>4. /\ names[1] = "app" /\ names[2] = "tear" /\ names[3] = "worker" /\ names[4] = "entry"
        /\ names[5] = "link" /\ names[6] = "stamp" /\ names[7] = a /\ names[8] = b
    BY <2>2, <2>3
  <2>5. \A i \in 1 .. 8 : names[i] # "place" /\ IsStepOf(names[i], mode)
    BY <1>1, <2>4 DEF CopySteps
  <2>6. \A i \in 2 .. 8 : Follows(names[i - 1], names[i])
    <3>1. /\ Follows("app", "tear") /\ Follows("tear", "worker") /\ Follows("worker", "entry")
          /\ Follows("entry", "link") /\ Follows("link", "stamp")
      BY DEF Follows
    <3> QED
      BY <1>1, <2>4, <3>1
  <2>7. IsWork(Ops(names), mode, there)
    BY <2>3, <2>5, <2>6, OpsAreWork
  <2> DEFINE step(name) == [op |-> name, of |-> "none"]
             S == [op : T, of : {"none"}]
  <2>8. ASSUME NEW list \in Seq(T)
        PROVE  /\ Ops(list) \in Seq(S) /\ Len(Ops(list)) = Len(list)
               /\ \A i \in 1 .. Len(list) : Ops(list)[i] = step(list[i])
    <3>1. /\ Len(list) \in Nat /\ DOMAIN list = 1 .. Len(list)
          /\ \A i \in 1 .. Len(list) : list[i] \in T
      BY LenProperties
    <3>2. Ops(list) = [i \in 1 .. Len(list) |-> step(list[i])]
      BY <3>1 DEF Ops
    <3>3. \A i \in 1 .. Len(list) : step(list[i]) \in S
      BY <3>1
    <3> HIDE DEF step, S
    <3>4. Ops(list) \in [1 .. Len(list) -> S]
      BY <3>2, <3>3
    <3> QED
      BY <3>1, <3>2, <3>4
  <2> HIDE DEF step, S
  <2>9. /\ Ops(copies) \in Seq(S) /\ Len(Ops(copies)) = 6
        /\ \A i \in 1 .. 6 : Ops(copies)[i] = step(copies[i])
    BY <2>1, <2>8
  <2>10. /\ Ops(more) \in Seq(S) /\ Len(Ops(more)) = 2
         /\ \A i \in 1 .. 2 : Ops(more)[i] = step(more[i])
    BY <2>1, <2>8
  <2>11. /\ Ops(names) \in Seq(S) /\ Len(Ops(names)) = 8
         /\ \A i \in 1 .. 8 : Ops(names)[i] = step(names[i])
    BY <2>3, <2>8
  <2> DEFINE whole == Ops(copies) \o Ops(more)
  <2>12. /\ whole \in Seq(S) /\ Len(whole) = 8
         /\ \A i \in 1 .. 8 : whole[i] = IF i <= 6 THEN Ops(copies)[i] ELSE Ops(more)[i - 6]
    <3>1. /\ whole \in Seq(S) /\ Len(whole) = Len(Ops(copies)) + Len(Ops(more))
          /\ \A i \in 1 .. Len(Ops(copies)) + Len(Ops(more)) :
               whole[i] = IF i <= Len(Ops(copies)) THEN Ops(copies)[i]
                          ELSE Ops(more)[i - Len(Ops(copies))]
      BY <2>9, <2>10, ConcatProperties
    <3> HIDE DEF whole
    <3> QED
      BY <2>9, <2>10, <3>1
  <2> HIDE DEF whole
  <2>13. \A i \in 1 .. 8 : whole[i] = Ops(names)[i]
    BY <2>3, <2>9, <2>10, <2>11, <2>12
  <2>14. whole = Ops(names)
    BY <2>11, <2>12, <2>13, SeqEqual
  <2>15. Head(Ops(names)).op = "app"
    <3>1. Head(Ops(names)) = step(names[1])
      BY <2>11
    <3> QED
      BY <2>4, <3>1 DEF step
  <2> QED
    BY <2>7, <2>14, <2>15, <2>m DEF whole, more
<1>2. /\ \A op \in CopySteps : IsStepOf(op, "wizard") /\ IsStepOf(op, "install")
      /\ IsStepOf("stage", "wizard") /\ IsStepOf("advance", "wizard")
      /\ IsStepOf("default_words", "install") /\ IsStepOf("forget", "install")
      /\ Follows("stamp", "stage") /\ Follows("stage", "advance")
      /\ Follows("stamp", "default_words") /\ Follows("default_words", "forget")
  BY DEF IsStepOf, Follows
<1>3. /\ IsWork(perform \o Ops(<<"stage", "advance">>), "wizard", there)
      /\ Head(perform \o Ops(<<"stage", "advance">>)).op = "app"
  BY <1>1, <1>2
<1>4. /\ IsWork(perform \o Ops(<<"default_words", "forget">>), "install", there)
      /\ Head(perform \o Ops(<<"default_words", "forget">>)).op = "app"
  BY <1>1, <1>2
<1> QED
  BY <1>3, <1>4

(* So is staging a graphics card in front of what was left to do after it.    *)
LEMMA StagingIsWork ==
  ASSUME NEW provider, NEW steps, NEW there, IsWork(steps, "wizard", there),
         steps # <<>>, Head(steps).op = "stage"
  PROVE  LET joined == stage_graphics_card_payload(provider) \o Tail(steps)
         IN  /\ IsWork(joined, "wizard", there)
             /\ joined # <<>> => Head(joined).op \in {"preserve", "advance"}
<1> DEFINE staging == stage_graphics_card_payload(provider)
           rest == Tail(steps)
           joined == staging \o rest
<1>1. PICK S : steps \in Seq(S)
  BY DEF IsWork
<1>2. /\ rest \in Seq(S) /\ Len(rest) = Len(steps) - 1 /\ Len(steps) \in Nat \ {0}
      /\ \A i \in 1 .. Len(rest) : rest[i] = steps[i + 1]
      /\ Head(steps) = steps[1]
  BY <1>1, HeadTailProperties, EmptySeq, LenProperties
<1>3. \A i \in 1 .. Len(rest) :
         DOMAIN rest[i] = {"op", "of"} /\ rest[i].op = "advance" /\ i = 1
  <2>1. \A i \in 2 .. Len(steps) : Follows(steps[i - 1].op, steps[i].op)
    BY DEF IsWork
  <2>2. Len(steps) >= 2 => steps[2].op = "advance"
    <3> SUFFICES ASSUME Len(steps) >= 2 PROVE steps[2].op = "advance"
      OBVIOUS
    <3>1. Follows(steps[1].op, steps[2].op)
      <4>1. 2 \in 2 .. Len(steps) /\ 2 - 1 = 1
        BY <1>2
      <4> QED
        BY <2>1, <4>1
    <3> QED
      BY <1>2, <3>1 DEF Follows, UninstallSteps
  <2>3. Len(steps) <= 2
    <3> SUFFICES ASSUME Len(steps) >= 3 PROVE FALSE
      BY <1>2
    <3>1. Follows(steps[2].op, steps[3].op)
      <4>1. 3 \in 2 .. Len(steps) /\ 3 - 1 = 2
        BY <1>2
      <4> QED
        BY <2>1, <4>1
    <3> QED
      BY <1>2, <2>2, <3>1 DEF Follows, UninstallSteps
  <2>4. \A i \in 1 .. Len(rest) : i = 1 /\ i + 1 = 2 /\ 2 \in 1 .. Len(steps)
    BY <1>2, <2>3
  <2>5. \A i \in 1 .. Len(steps) : DOMAIN steps[i] = {"op", "of"}
    BY DEF IsWork
  <2> QED
    BY <1>2, <2>2, <2>4, <2>5
<1> DEFINE P == Range(Ops(<<"preserve">>)) \cup Placings
<1>4. /\ staging \in Seq(P)
      /\ \A i \in 2 .. Len(staging) : staging[i] \in Placings
      /\ staging # <<>> => staging[1] = Ops(<<"preserve">>)[1]
      /\ WorkerIsLast(staging, {})
  BY StagingOrder
<1>5. ASSUME NEW x \in Placings PROVE DOMAIN x = {"op", "of"} /\ x.op = "place"
  <2>1. PICK a \in Catalogued : x \in Range(PlaceFiles(a))
    BY DEF Placings
  <2>2. PICK j \in DOMAIN a.files : x = [op |-> "place", of |-> <<a.id, a.files[j].name>>]
    BY <2>1 DEF PlaceFiles, Range
  <2> QED
    BY <2>2
<1>6. DOMAIN Ops(<<"preserve">>)[1] = {"op", "of"} /\ Ops(<<"preserve">>)[1].op = "preserve"
  BY DEF Ops
<1>7. /\ Len(staging) \in Nat /\ DOMAIN staging = 1 .. Len(staging)
      /\ Len(staging) # 0 => staging # <<>>
      /\ Len(staging) = 0 => staging = <<>>
  BY <1>4, LenProperties, EmptySeq
<1> HIDE DEF P, staging, rest
<1>8. \A i \in 1 .. Len(staging) :
         /\ DOMAIN staging[i] = {"op", "of"}
         /\ staging[i].op = IF i = 1 THEN "preserve" ELSE "place"
  BY <1>4, <1>5, <1>6, <1>7
<1>9. /\ joined \in Seq(P \cup S) /\ Len(joined) = Len(staging) + Len(rest)
      /\ \A i \in 1 .. Len(joined) :
           joined[i] = IF i <= Len(staging) THEN staging[i] ELSE rest[i - Len(staging)]
      /\ DOMAIN joined = 1 .. Len(joined) /\ Len(joined) \in Nat /\ Len(rest) \in Nat
  <2>1. staging \in Seq(P \cup S) /\ rest \in Seq(P \cup S)
    BY <1>2, <1>4, SeqMonotonic
  <2> QED
    BY <2>1, ConcatProperties, LenProperties
<1> HIDE DEF joined
<1>10. \A i \in 1 .. Len(joined) :
          /\ DOMAIN joined[i] = {"op", "of"}
          /\ IsStepOf(joined[i].op, "wizard")
          /\ i > Len(staging) => joined[i].op = "advance" /\ i = Len(staging) + 1
          /\ i <= Len(staging) => joined[i] = staging[i]
  <2> SUFFICES ASSUME NEW i \in 1 .. Len(joined)
               PROVE  /\ DOMAIN joined[i] = {"op", "of"}
                      /\ IsStepOf(joined[i].op, "wizard")
                      /\ i > Len(staging) => joined[i].op = "advance" /\ i = Len(staging) + 1
                      /\ i <= Len(staging) => joined[i] = staging[i]
    OBVIOUS
  <2>1. CASE i <= Len(staging)
    <3>1. i \in 1 .. Len(staging) /\ joined[i] = staging[i]
      BY <1>7, <1>9, <2>1
    <3> QED
      BY <1>8, <3>1, <2>1 DEF IsStepOf
  <2>2. CASE i > Len(staging)
    <3>1. i - Len(staging) \in 1 .. Len(rest) /\ joined[i] = rest[i - Len(staging)]
      BY <1>7, <1>9, <2>2
    <3> QED
      BY <1>3, <1>7, <3>1, <2>2 DEF IsStepOf
  <2> QED
    BY <1>7, <2>1, <2>2
<1>11. ASSUME NEW i \in 2 .. Len(joined) PROVE Follows(joined[i - 1].op, joined[i].op)
  <2>0. i \in 1 .. Len(joined) /\ i - 1 \in 1 .. Len(joined)
    BY <1>9
  <2>1. CASE i <= Len(staging)
    <3>1. /\ joined[i] = staging[i] /\ joined[i - 1] = staging[i - 1]
          /\ i \in 1 .. Len(staging) /\ i - 1 \in 1 .. Len(staging) /\ i # 1
      BY <1>7, <1>10, <2>0, <2>1
    <3> QED
      BY <1>8, <3>1 DEF Follows
  <2>2. CASE i > Len(staging)
    <3>1. joined[i].op = "advance" /\ i = Len(staging) + 1
      BY <1>10, <2>0, <2>2
    <3>2. i - 1 \in 1 .. Len(staging) /\ joined[i - 1] = staging[i - 1]
      BY <1>7, <1>10, <2>0, <3>1
    <3> QED
      BY <1>8, <3>1, <3>2 DEF Follows
  <2> QED
    BY <1>7, <2>1, <2>2
<1>12. WorkerIsLast(joined, there)
  <2> SUFFICES ASSUME NEW i \in DOMAIN joined, Places(joined[i], Worker),
                      NEW library \in Libraries \ there
               PROVE  \E j \in 1 .. i - 1 : Places(joined[j], library)
    BY DEF WorkerIsLast
  <2>1. i \in DOMAIN staging /\ joined[i] = staging[i]
    BY <1>7, <1>9, <1>10 DEF Places
  <2>2. PICK j \in 1 .. i - 1 : Places(staging[j], library)
    BY <1>4, <2>1 DEF WorkerIsLast
  <2>3. j \in 1 .. Len(joined) /\ j <= Len(staging)
    BY <1>7, <1>9, <2>1
  <2> QED
    BY <1>10, <2>2, <2>3
<1>13. joined # <<>> => Head(joined).op \in {"preserve", "advance"}
  <2> SUFFICES ASSUME joined # <<>> PROVE Head(joined).op \in {"preserve", "advance"}
    OBVIOUS
  <2>1. Len(joined) \in Nat \ {0} /\ Head(joined) = joined[1]
    BY <1>9, EmptySeq
  <2>2. 1 \in 1 .. Len(joined)
    BY <2>1
  <2> QED
    BY <1>7, <1>8, <1>10, <2>1, <2>2
<1> QED
  BY <1>9, <1>10, <1>11, <1>12, <1>13 DEF IsWork, joined, staging, rest

(* And so is an uninstall of whatever it was asked to remove.                 *)
LEMMA RemovalsAreList ==
  ASSUME NEW S, IsFiniteSet(S), NEW name
  PROVE  LET steps == [i \in 1 .. Cardinality(S) |-> [op |-> name, of |-> SetToSeq(S)[i]]]
         IN  /\ steps \in Seq(Range(steps))
             /\ \A x \in Range(steps) : DOMAIN x = {"op", "of"} /\ x.op = name
<1>1. Cardinality(S) \in Nat
  BY FS_CardinalityType
<1> DEFINE steps == [i \in 1 .. Cardinality(S) |-> [op |-> name, of |-> SetToSeq(S)[i]]]
<1>2. \A x \in Range(steps) : DOMAIN x = {"op", "of"} /\ x.op = name
  BY DEF Range
<1>3. steps \in [1 .. Cardinality(S) -> Range(steps)]
  BY DEF Range
<1>4. steps \in Seq(Range(steps))
  <2> HIDE DEF steps
  <2> QED
    BY <1>1, <1>3
<1> QED
  BY <1>2, <1>4

LEMMA UninstallIsWork ==
  ASSUME NEW removals \in SUBSET Removable, NEW there
  PROVE  IsWork(UninstallOps(removals), "uninstall", there)
<1>1. IsFiniteSet(removals)
  <2>1. IsFiniteSet({"configuration"})
    BY FS_Singleton
  <2>2. IsFiniteSet({"configuration"} \cup {"history"})
    BY <2>1, FS_AddElement
  <2>3. IsFiniteSet(({"configuration"} \cup {"history"}) \cup {"models"})
    BY <2>2, FS_AddElement
  <2>4. ({"configuration"} \cup {"history"}) \cup {"models"} = Removable
    BY DEF Removable
  <2>5. IsFiniteSet(Removable)
    BY <2>3, <2>4
  <2> QED
    BY <2>5, FS_Subset
<1> DEFINE first == Ops(<<"unstamp", "unregister", "unlink", "delete_app">>)
           files == [i \in 1 .. Cardinality(ProofFiles) |->
                       [op |-> "delete_proof", of |-> SetToSeq(ProofFiles)[i]]]
           items == [i \in 1 .. Cardinality(removals) |->
                       [op |-> "delete_user", of |-> SetToSeq(removals)[i]]]
           steps == (first \o files) \o items
           IsRemoval(x) == DOMAIN x = {"op", "of"} /\ x.op \in UninstallSteps
           S == Range(first) \cup Range(files) \cup Range(items)
<1>2. first \in Seq(Range(first)) /\ \A x \in Range(first) : IsRemoval(x)
  <2>1. first = << [op |-> "unstamp", of |-> "none"], [op |-> "unregister", of |-> "none"],
                   [op |-> "unlink", of |-> "none"], [op |-> "delete_app", of |-> "none"] >>
    BY DEF Ops
  <2>2. first \in Seq(Range(first))
    BY <2>1 DEF Range
  <2>3. ASSUME NEW x \in Range(first) PROVE IsRemoval(x)
    <3>1. PICK i \in 1 .. 4 : x = first[i]
      BY <2>1, <2>3 DEF Range
    <3>2. i = 1 \/ i = 2 \/ i = 3 \/ i = 4
      BY <3>1
    <3> QED
      BY <2>1, <3>1, <3>2 DEF UninstallSteps
  <2> QED
    BY <2>2, <2>3
<1>3. files \in Seq(Range(files)) /\ \A x \in Range(files) : IsRemoval(x)
  <2>1. IsFiniteSet(ProofFiles)
    BY FinitelyManyFiles
  <2>2. "delete_proof" \in UninstallSteps
    BY DEF UninstallSteps
  <2>3. /\ files \in Seq(Range(files))
        /\ \A x \in Range(files) : DOMAIN x = {"op", "of"} /\ x.op = "delete_proof"
    BY <2>1, RemovalsAreList
  <2> HIDE DEF files
  <2> QED
    BY <2>2, <2>3
<1>4. items \in Seq(Range(items)) /\ \A x \in Range(items) : IsRemoval(x)
  <2>1. "delete_user" \in UninstallSteps
    BY DEF UninstallSteps
  <2>2. /\ items \in Seq(Range(items))
        /\ \A x \in Range(items) : DOMAIN x = {"op", "of"} /\ x.op = "delete_user"
    BY <1>1, RemovalsAreList
  <2> HIDE DEF items
  <2> QED
    BY <2>1, <2>2
<1>5. UninstallOps(removals) = steps
  BY DEF UninstallOps
<1> HIDE DEF first, files, items
<1>6. steps \in Seq(S)
  <2>1. first \in Seq(S) /\ files \in Seq(S) /\ items \in Seq(S)
    BY <1>2, <1>3, <1>4, SeqMonotonic
  <2> HIDE DEF S
  <2>2. first \o files \in Seq(S)
    BY <2>1, ConcatProperties
  <2> QED
    BY <2>1, <2>2, ConcatProperties
<1> HIDE DEF steps
<1>7. /\ Len(steps) \in Nat /\ DOMAIN steps = 1 .. Len(steps)
      /\ \A i \in 1 .. Len(steps) : IsRemoval(steps[i])
  <2>1. \A x \in S : IsRemoval(x)
    BY <1>2, <1>3, <1>4
  <2> HIDE DEF S, IsRemoval
  <2> QED
    BY <1>6, <2>1, LenProperties
<1>8. \A i \in 1 .. Len(steps) : IsStepOf(steps[i].op, "uninstall")
  BY <1>7 DEF IsStepOf
<1>9. \A i \in 2 .. Len(steps) : Follows(steps[i - 1].op, steps[i].op)
  BY <1>7 DEF Follows
<1>10. WorkerIsLast(steps, there)
  BY <1>7 DEF WorkerIsLast, Places, UninstallSteps
<1> QED
  BY <1>5, <1>6, <1>7, <1>8, <1>9, <1>10 DEF IsWork

(* What an uninstall removes does not matter to what it has still to do.      *)
LEMMA UninstallPlacesNothing ==
  ASSUME NEW steps, NEW there, IsWork(steps, "uninstall", there), NEW after
  PROVE  IsWork(steps, "uninstall", after)
<1>1. PICK S : steps \in Seq(S)
  BY DEF IsWork
<1>2. DOMAIN steps = 1 .. Len(steps)
  BY <1>1, LenProperties
<1>3. \A i \in DOMAIN steps : steps[i].op \in UninstallSteps
  BY <1>2 DEF IsWork, IsStepOf
<1>4. WorkerIsLast(steps, after)
  BY <1>3 DEF WorkerIsLast, Places, UninstallSteps
<1> QED
  BY <1>4 DEF IsWork

TodoIsWork == IsWork(todo, proc, Placed)

(* What a placement has done when it reaches a step.                          *)
WhatIsDone ==
    todo # <<>> =>
        /\ Head(todo).op \in {"tear", "worker", "entry", "link", "stamp"} => app = "new"
        /\ Head(todo).op \in {"entry", "link", "stamp"} => proof[Worker] = "cpu"
        /\ Head(todo).op \in {"link", "stamp"} => entry
        /\ Head(todo).op = "stamp" => link

LEMMA WorkStarts ==
  ASSUME Init
  PROVE  TodoIsWork /\ WhatIsDone
BY NoWork DEF Init, TodoIsWork, WhatIsDone

(* Nothing is changed of what the steps are about.                            *)
LEMMA WorkIsKept ==
  ASSUME TodoIsWork, WhatIsDone, UNCHANGED <<proc, todo, proof, app, entry, link>>
  PROVE  TodoIsWork' /\ WhatIsDone'
<1>1. Placed' = Placed
  BY DEF Placed, ProofFiles
<1> QED
  BY <1>1 DEF TodoIsWork, WhatIsDone

(* There is nothing to do. *)
LEMMA WorkIsOver ==
  ASSUME todo' = <<>>
  PROVE  TodoIsWork' /\ WhatIsDone'
BY NoWork DEF TodoIsWork, WhatIsDone

(* Placements keep the files that are there, but for the worker.              *)
LEMMA LibrariesStay ==
  ASSUME SetupTyped, NEW name \in ProofFiles, NEW kind, kind # "none",
         proof' = [proof EXCEPT ![name] = kind]
  PROVE  Placed' = Placed \cup {name}
BY DEF SetupTyped, DiskTyped, Placed

(* A placement takes its steps. *)
LEMMA PlacingWorks ==
  ASSUME SetupTyped, TodoIsWork, WhatIsDone,
         CopyApp \/ CopyWorker \/ register_uninstall \/ create_shortcut \/ write_stamp
  PROVE  TodoIsWork' /\ WhatIsDone'
<1>0. /\ todo # <<>> /\ todo' = Tail(todo) /\ proc' = proc
      /\ Head(todo).op \in CopySteps
  BY DEF CopyApp, CopyWorker, register_uninstall, create_shortcut, write_stamp, Doing, Done,
         CopySteps
<1>1. Placed \cap Libraries \subseteq Placed'
  <2>1. CASE CopyWorker
    <3>1. PICK kind \in {"torn", "cpu"} : proof' = [proof EXCEPT ![Worker] = kind]
      BY <2>1 DEF CopyWorker
    <3>2. Worker \in ProofFiles
      BY DEF ProofFiles
    <3> QED
      BY <3>1, <3>2, LibrariesStay
  <2>2. CASE UNCHANGED proof
    BY <2>2 DEF Placed
  <2> QED
    BY <2>1, <2>2 DEF CopyApp, register_uninstall, create_shortcut, write_stamp
<1>2. \A library \in Libraries : Places(Head(todo), library) => library \in Placed'
  BY <1>0 DEF Places, CopySteps
<1>3. /\ IsWork(Tail(todo), proc, Placed')
      /\ Tail(todo) # <<>> => Follows(Head(todo).op, Head(Tail(todo)).op)
  BY <1>0, <1>1, <1>2, TailOfWork DEF TodoIsWork
<1>4. TodoIsWork'
  BY <1>0, <1>3 DEF TodoIsWork
<1>5. WhatIsDone'
  <2> SUFFICES ASSUME Tail(todo) # <<>>
               PROVE  LET op == Head(Tail(todo)).op
                      IN  /\ op \in {"tear", "worker", "entry", "link", "stamp"} => app' = "new"
                          /\ op \in {"entry", "link", "stamp"} => proof'[Worker] = "cpu"
                          /\ op \in {"link", "stamp"} => entry'
                          /\ op = "stamp" => link'
    BY <1>0 DEF WhatIsDone
  <2>0. Follows(Head(todo).op, Head(Tail(todo)).op)
    BY <1>3
  <2>1. CASE CopyApp
    BY <2>0, <2>1, <1>0 DEF CopyApp, Doing, Follows, UninstallSteps
  <2>2. CASE CopyWorker
    <3>1. Worker \in DOMAIN proof
      BY DEF SetupTyped, DiskTyped, ProofFiles
    <3>2. CASE Head(todo).op = "tear"
      BY <2>0, <2>2, <3>2, <1>0 DEF CopyWorker, Doing, Follows, UninstallSteps, WhatIsDone
    <3>3. CASE Head(todo).op = "worker"
      <4>1. proof'[Worker] = "cpu" /\ app' = app /\ app = "new"
        BY <2>2, <3>1, <3>3, <1>0 DEF CopyWorker, Doing, WhatIsDone
      <4> QED
        BY <2>0, <3>3, <4>1 DEF Follows, UninstallSteps
    <3> QED
      BY <2>2, <3>2, <3>3 DEF CopyWorker, Doing
  <2>3. CASE register_uninstall
    BY <2>0, <2>3, <1>0 DEF register_uninstall, Doing, Follows, UninstallSteps, WhatIsDone
  <2>4. CASE create_shortcut
    BY <2>0, <2>4, <1>0 DEF create_shortcut, Doing, Follows, UninstallSteps, WhatIsDone
  <2>5. CASE write_stamp
    BY <2>0, <2>5, <1>0 DEF write_stamp, Doing, Follows, UninstallSteps, WhatIsDone
  <2> QED
    BY <2>1, <2>2, <2>3, <2>4, <2>5
<1> QED
  BY <1>4, <1>5

(* So does staging, *)
LEMMA StagingWorks ==
  ASSUME SetupTyped, TodoIsWork, WhatIsDone,
         BeginStaging \/ preserve_cpu_worker \/ place_beside_the_worker \/ StagingFails
  PROVE  TodoIsWork' /\ WhatIsDone'
<1>1. CASE BeginStaging
  <2>1. /\ todo # <<>> /\ Head(todo).op = "stage" /\ proc' = proc /\ Placed' = Placed
        /\ todo' = stage_graphics_card_payload(choice) \o Tail(todo)
    BY <1>1 DEF BeginStaging, Doing, diskVars, Placed
  <2>2. proc = "wizard"
    BY <2>1, HeadOfWork DEF TodoIsWork, IsStepOf, CopySteps, UninstallSteps
  <2>3. /\ IsWork(todo', "wizard", Placed)
        /\ todo' # <<>> => Head(todo').op \in {"preserve", "advance"}
    BY <2>1, <2>2, StagingIsWork DEF TodoIsWork
  <2> QED
    BY <2>1, <2>2, <2>3 DEF TodoIsWork, WhatIsDone
<1>2. CASE preserve_cpu_worker
  <2>1. /\ todo # <<>> /\ Head(todo).op = "preserve" /\ proc' = proc /\ todo' = Tail(todo)
    BY <1>2 DEF preserve_cpu_worker, Doing, Done
  <2>2. Placed \cap Libraries \subseteq Placed'
    <3>1. CASE proof' = proof
      BY <3>1 DEF Placed
    <3>2. CASE proof' = [proof EXCEPT ![CpuWorker] = proof[Worker], ![Worker] = "none"]
               /\ proof[Worker] # "none"
      <4>1. Worker # CpuWorker /\ CpuWorker \in ProofFiles
        BY DEF Worker, CpuWorker, ProofFiles
      <4>2. \A f \in ProofFiles : f # Worker /\ proof[f] # "none" => proof'[f] # "none"
        BY <3>2, <4>1 DEF SetupTyped, DiskTyped
      <4> QED
        BY <4>2, WorkerIsNoLibrary DEF Placed
    <3> QED
      BY <1>2, <3>1, <3>2 DEF preserve_cpu_worker
  <2>3. \A library \in Libraries : Places(Head(todo), library) => library \in Placed'
    BY <2>1 DEF Places
  <2>4. /\ IsWork(Tail(todo), proc, Placed')
        /\ Tail(todo) # <<>> => Follows("preserve", Head(Tail(todo)).op)
    BY <2>1, <2>2, <2>3, TailOfWork DEF TodoIsWork
  <2> QED
    BY <2>1, <2>4 DEF TodoIsWork, WhatIsDone, Follows, UninstallSteps
<1>3. CASE place_beside_the_worker
  <2> DEFINE name == Head(todo).of[2]
             kind == IF name = Worker THEN "cuda" ELSE "library"
  <2>1. /\ todo # <<>> /\ Head(todo).op = "place" /\ proc' = proc /\ todo' = Tail(todo)
        /\ proof' = [proof EXCEPT ![name] = kind]
    BY <1>3 DEF place_beside_the_worker, Doing, Done
  <2>2. /\ Placed \subseteq Placed'
        /\ name \in ProofFiles => name \in Placed'
    BY <2>1 DEF SetupTyped, DiskTyped, Placed
  <2>3. \A library \in Libraries : Places(Head(todo), library) => library \in Placed'
    BY <2>2 DEF Places, ProofFiles
  <2>4. /\ IsWork(Tail(todo), proc, Placed')
        /\ Tail(todo) # <<>> => Follows("place", Head(Tail(todo)).op)
    <3>1. Placed \cap Libraries \subseteq Placed'
      BY <2>2
    <3> QED
      BY <2>1, <2>3, <3>1, TailOfWork DEF TodoIsWork
  <2> QED
    BY <2>1, <2>4 DEF TodoIsWork, WhatIsDone, Follows, UninstallSteps
<1>4. CASE StagingFails
  <2>1. /\ todo # <<>> /\ Head(todo).op = "place" /\ proc' = proc
        /\ todo' = Ops(<<"advance">>)
    BY <1>4 DEF StagingFails, Doing
  <2>2. proc = "wizard"
    BY <2>1, HeadOfWork DEF TodoIsWork, IsStepOf, CopySteps, UninstallSteps
  <2>3. <<"advance">> \in Seq({"advance"}) /\ Len(<<"advance">>) = 1
    OBVIOUS
  <2>4. /\ \A i \in 1 .. 1 : /\ <<"advance">>[i] # "place"
                             /\ IsStepOf(<<"advance">>[i], "wizard")
        /\ \A i \in 2 .. 1 : Follows(<<"advance">>[i - 1], <<"advance">>[i])
    BY DEF IsStepOf
  <2>5. IsWork(todo', "wizard", Placed')
    BY <2>1, <2>3, <2>4, OpsAreWork
  <2>6. Head(todo').op = "advance"
    BY <2>1 DEF Ops
  <2> QED
    BY <2>1, <2>2, <2>5, <2>6 DEF TodoIsWork, WhatIsDone
<1> QED
  BY <1>1, <1>2, <1>3, <1>4

(* and so do the steps after them and the uninstaller.                        *)
LEMMA RestWorks ==
  ASSUME SetupTyped, TodoIsWork, WhatIsDone,
         \/ Advance \/ write_default_vocabulary \/ clear_registration \/ remove_program_files
         \/ RemovalFails \/ remove_user_data_under
  PROVE  TodoIsWork' /\ WhatIsDone'
<1>0. todo # <<>> /\ todo' = Tail(todo) /\ proc' = proc
  BY DEF Advance, write_default_vocabulary, clear_registration, remove_program_files,
         RemovalFails, remove_user_data_under, Doing, Done
<1>1. CASE Advance \/ write_default_vocabulary
  <2>1. Head(todo).op \in {"advance", "default_words"} /\ Placed' = Placed
    BY <1>1 DEF Advance, write_default_vocabulary, Doing, diskVars, Placed
  <2>2. \A library \in Libraries : Places(Head(todo), library) => library \in Placed'
    BY <2>1 DEF Places
  <2>3. /\ IsWork(Tail(todo), proc, Placed')
        /\ Tail(todo) # <<>> => Follows(Head(todo).op, Head(Tail(todo)).op)
    BY <1>0, <2>1, <2>2, TailOfWork DEF TodoIsWork
  <2> QED
    BY <1>0, <2>1, <2>3 DEF TodoIsWork, WhatIsDone, Follows, UninstallSteps
<1>2. CASE clear_registration \/ remove_program_files \/ RemovalFails \/ remove_user_data_under
  <2>1. proc = "uninstall"
    <3>1. proc = "uninstall" \/ Head(todo).op \in UninstallSteps
      BY <1>2 DEF clear_registration, remove_program_files, RemovalFails,
                  remove_user_data_under, Doing, UninstallSteps
    <3> QED
      BY <1>0, <3>1, HeadOfWork DEF TodoIsWork, IsStepOf, CopySteps, UninstallSteps
  <2>2. IsWork(todo, "uninstall", Libraries)
    BY <2>1, UninstallPlacesNothing DEF TodoIsWork
  <2>3. /\ IsWork(Tail(todo), "uninstall", Libraries)
        /\ Tail(todo) # <<>> => Follows(Head(todo).op, Head(Tail(todo)).op)
    BY <1>0, <2>2, TailOfWork
  <2>4. IsWork(Tail(todo), "uninstall", Placed')
    BY <2>3, UninstallPlacesNothing
  <2>5. Head(todo).op \in UninstallSteps
    BY <1>0, <2>2, HeadOfWork DEF IsStepOf
  <2>6. Tail(todo) # <<>> => Head(Tail(todo)).op \in UninstallSteps
    BY <2>3, <2>5 DEF Follows, UninstallSteps
  <2> QED
    BY <1>0, <2>1, <2>4, <2>6 DEF TodoIsWork, WhatIsDone, UninstallSteps
<1> QED
  BY <1>1, <1>2

(* Every step leaves work to do, and a placement knows what it has done.      *)
LEMMA WorkStep ==
  ASSUME SetupTyped, TodoIsWork, WhatIsDone, [Next]_vars
  PROVE  TodoIsWork' /\ WhatIsDone'
<1>1. CASE Procedure
  <2>1. CASE PlacingFails \/ clear_installed_provider
    BY <2>1, WorkIsOver DEF PlacingFails, clear_installed_provider
  <2>2. CASE UninstallEnds
    BY <2>2, WorkIsOver DEF UninstallEnds
  <2> QED
    BY <1>1, <2>1, <2>2, PlacingWorks, StagingWorks, RestWorks DEF Procedure
<1>2. CASE Threads \/ poll_transfer \/ poll_verify
  BY <1>2, WorkIsKept DEF Threads, execute, TransferFails, InspectPayload, verify_engine,
                          poll_transfer, poll_verify, diskVars
<1>3. CASE verify_provider
  <2>1. todo = <<>>
    BY <1>3, HeadOfWork DEF verify_provider, TodoIsWork, IsStepOf
  <2> QED
    BY <1>3, <2>1, WorkIsOver DEF verify_provider
<1>4. CASE Buttons
  <2>1. CASE perform_install
    <3>1. /\ todo' = perform \o Ops(<<"stage", "advance">>)
          /\ proc' = "wizard"
      BY <2>1 DEF perform_install, InWizard
    <3> QED
      BY <3>1, PlacementIsWork DEF TodoIsWork, WhatIsDone
  <2>2. CASE ~perform_install
    <3>1. todo' = <<>>
      BY <1>4, <2>2 DEF Buttons, OnBack, OnNext, WriteSeeds, Finish, ChooseProvider,
                        ChooseShortcut, OnRetry, OnCancel, InWizard
    <3> QED
      BY <3>1, WorkIsOver
  <2> QED
    BY <2>1, <2>2
<1>5. ASSUME NEW arguments \in Commands, Launch(arguments) PROVE TodoIsWork' /\ WhatIsDone'
  <2>1. todo = <<>>
    BY <1>5, HeadOfWork DEF Launch, TodoIsWork, IsStepOf
  <2>2. CASE todo' = todo
    BY <2>1, <2>2, WorkIsOver
  <2>3. CASE proc' = "install" /\ todo' = perform \o Ops(<<"default_words", "forget">>)
    BY <2>3, PlacementIsWork DEF TodoIsWork, WhatIsDone
  <2>4. CASE /\ proc' = "uninstall"
             /\ \E removals \in SUBSET Removable : todo' = UninstallOps(removals)
    <3>1. IsWork(todo', "uninstall", Placed')
      BY <2>4, UninstallIsWork
    <3>2. todo' # <<>> => Head(todo').op \in UninstallSteps
      BY <3>1, HeadOfWork DEF IsStepOf
    <3> QED
      BY <2>4, <3>1, <3>2 DEF TodoIsWork, WhatIsDone, UninstallSteps
  <2> QED
    <3>1. removals_for(arguments, Removable) \in SUBSET Removable
      BY DEF removals_for
    <3> QED
      BY <1>5, <2>2, <2>3, <2>4, <3>1 DEF Launch
<1>6. CASE Killed
  BY <1>6, WorkIsOver DEF Killed
<1>7. CASE ArtifactDamaged \/ AppStarts \/ AppStops
  BY <1>7, WorkIsKept DEF ArtifactDamaged, AppStarts, AppStops, diskVars
<1>8. CASE UNCHANGED vars
  BY <1>8, WorkIsKept DEF vars, diskVars
<1> QED
  BY <1>1, <1>2, <1>3, <1>4, <1>5, <1>6, <1>7, <1>8 DEF Next, Timer

-----------------------------------------------------------------------------
(* What a page says of the transfer and of the shortcut *)

WindowFollows ==
    /\ proc = "wizard" /\ todo # <<>> => page = INSTALL
    /\ proc # "wizard" => page = COMPATIBILITY /\ run = NoRun /\ ~ready
    /\ ready => run.state = "ok"
    /\ page > DOWNLOAD => run.state = "ok"
    /\ probe.key = key
    /\ page > SHORTCUT => probe.free

(* What a transfer passed is retained, the rest it has still to fetch.        *)
TransferFollows ==
    /\ run.state \in {"flying", "ok"} =>
         \A i \in DOMAIN Plan(run.plan) :
            \/ retained[Plan(run.plan)[i]] # "absent"
            \/ \E j \in DOMAIN run.left : run.left[j] = Plan(run.plan)[i]
    /\ run.state = "ok" => run.left = <<>>

LEMMA WindowStarts ==
  ASSUME Init
  PROVE  WindowFollows /\ TransferFollows
<1>1. probe.key = key
  BY DEF Init
<1> QED
  BY <1>1 DEF Init, WindowFollows, TransferFollows, NoRun, COMPATIBILITY, DOWNLOAD, SHORTCUT

(* Going to a page: only the download page has a transfer begin, only the     *)
(* shortcut's page asks for the shortcut.                                     *)
LEMMA PageShows ==
  ASSUME NEW index, show_step(index)
  PROVE  /\ page' = index
         /\ \/ run' = run /\ ready' = ready
            \/ index = DOWNLOAD /\ ~ready'
               /\ run' = [plan |-> choice, left |-> Plan(choice), state |-> "flying"]
         /\ probe' = probe \/ (index = SHORTCUT /\ probe'.key = key)
<1>1. index = DOWNLOAD \/ (run' = run /\ ready' = ready)
  BY DEF show_step
<1>2. index = DOWNLOAD => begin_transfer
  BY DEF show_step
<1>3. index = SHORTCUT \/ probe' = probe
  BY DEF show_step
<1>4. index = SHORTCUT => probe'.key = key
  BY DEF show_step, verify_selected_shortcut
<1> QED
  BY <1>1, <1>2, <1>3, <1>4 DEF show_step, begin_transfer

(* The wizard goes to a page: the one before, or the one after one that is    *)
(* done with.                                                                 *)
LEMMA PageFollows ==
  ASSUME SetupTyped, WindowFollows, proc = "wizard", proc' = proc, todo' = <<>>, key' = key,
         NEW index \in COMPATIBILITY .. VERIFY, show_step(index),
         \/ index = page - 1
         \/ /\ index = page + 1
            /\ page = DOWNLOAD => ready
            /\ page = SHORTCUT => probe.free
         \/ page = PRIVACY /\ index = VERIFY
  PROVE  WindowFollows'
<1> USE DEF COMPATIBILITY, PROVIDER, DOWNLOAD, INSTALL, SHORTCUT, WORDS, PRIVACY, VERIFY
<1>1. page \in 0 .. 7 /\ index \in 0 .. 7 /\ page' = index
  BY PageShows DEF SetupTyped, WindowTyped
<1>2. /\ probe'.key = key'
      /\ page' > SHORTCUT => probe'.free
  BY <1>1, PageShows DEF WindowFollows
<1>3. CASE run' = run /\ ready' = ready
  BY <1>1, <1>2, <1>3 DEF WindowFollows
<1>4. CASE index = DOWNLOAD /\ ~ready'
  BY <1>1, <1>2, <1>4 DEF WindowFollows
<1> QED
  BY <1>3, <1>4, PageShows

(* A wizard is closed. *)
LEMMA ClosedFollows ==
  ASSUME Closed, proc' = "none"
  PROVE  WindowFollows'
BY DEF Closed, WindowFollows, NoRun, COMPATIBILITY, DOWNLOAD, SHORTCUT

LEMMA WindowStep ==
  ASSUME SetupTyped, TodoIsWork, WindowFollows, [Next]_vars
  PROVE  WindowFollows'
<1>u. ASSUME UNCHANGED <<page, run, ready, probe, key>>,
             proc' = proc \/ (proc # "wizard" /\ proc' # "wizard"),
             proc = "wizard" /\ todo' # <<>> => todo # <<>>
      PROVE  WindowFollows'
  BY <1>u DEF WindowFollows
<1>1. CASE Procedure
  <2>1. CASE Advance
    <3>1. proc = "wizard" /\ todo # <<>>
      <4>1. todo # <<>> /\ Head(todo).op = "advance"
        BY <2>1 DEF Advance, Doing
      <4> QED
        BY <4>1, HeadOfWork DEF TodoIsWork, IsStepOf, CopySteps, UninstallSteps
    <3>2. page = INSTALL
      BY <3>1 DEF WindowFollows
    <3>3. todo' = <<>>
      <4>1. Head(todo).op = "advance" /\ todo' = Tail(todo)
        BY <2>1 DEF Advance, Doing, Done
      <4>2. Tail(todo) # <<>> => Follows(Head(todo).op, Head(Tail(todo)).op)
        <5>1. \A library \in Libraries : Places(Head(todo), library) => library \in Placed
          BY <4>1 DEF Places
        <5> QED
          BY <3>1, <5>1, TailOfWork DEF TodoIsWork
      <4> QED
        BY <4>1, <4>2 DEF Follows, UninstallSteps
    <3>4. page + 1 \in COMPATIBILITY .. VERIFY /\ page # DOWNLOAD /\ page # SHORTCUT
      BY <3>2 DEF COMPATIBILITY, VERIFY, INSTALL, DOWNLOAD, SHORTCUT
    <3> QED
      BY <2>1, <3>1, <3>3, <3>4, PageFollows DEF Advance
  <2>2. CASE UninstallEnds
    BY <2>2, <1>u DEF UninstallEnds, wizardVars
  <2>3. CASE clear_installed_provider
    <3>1. proc = "install"
      <4>1. todo # <<>> /\ Head(todo).op = "forget"
        BY <2>3 DEF clear_installed_provider, Doing
      <4> QED
        BY <4>1, HeadOfWork DEF TodoIsWork, IsStepOf, CopySteps, UninstallSteps
    <3> QED
      BY <2>3, <3>1, <1>u DEF clear_installed_provider, wizardVars
  <2>4. CASE PlacingFails
    BY <2>4, <1>u DEF PlacingFails, wizardVars
  <2>5. CASE CopyApp \/ CopyWorker \/ register_uninstall \/ create_shortcut \/ write_stamp
    BY <2>5, <1>u DEF CopyApp, CopyWorker, register_uninstall, create_shortcut, write_stamp,
                      wizardVars, Doing
  <2>6. CASE BeginStaging \/ preserve_cpu_worker \/ place_beside_the_worker \/ StagingFails
    BY <2>6, <1>u DEF BeginStaging, preserve_cpu_worker, place_beside_the_worker, StagingFails,
                      wizardVars, Doing
  <2>7. CASE write_default_vocabulary \/ clear_registration \/ remove_program_files
             \/ RemovalFails \/ remove_user_data_under
    BY <2>7, <1>u DEF write_default_vocabulary, clear_registration, remove_program_files,
                      RemovalFails, remove_user_data_under, wizardVars, Doing
  <2> QED
    BY <1>1, <2>1, <2>2, <2>3, <2>4, <2>5, <2>6, <2>7 DEF Procedure
<1>2. CASE execute \/ TransferFails
  <2>1. /\ proc = "wizard" /\ run.state = "flying" /\ ready' = ready /\ proc' = proc
        /\ todo' = todo /\ page' = page /\ probe' = probe /\ key' = key
    BY <1>2 DEF execute, TransferFails
  <2>2. ~ready /\ ~(page > DOWNLOAD)
    BY <2>1 DEF WindowFollows
  <2> QED
    BY <2>1, <2>2 DEF WindowFollows
<1>3. CASE InspectPayload \/ verify_engine \/ poll_verify
  BY <1>3, <1>u DEF InspectPayload, verify_engine, poll_verify
<1>4. CASE poll_transfer
  BY <1>4 DEF poll_transfer, WindowFollows, InWizard
<1>5. CASE verify_provider
  BY <1>5, <1>u DEF verify_provider
<1>6. CASE Buttons
  <2>n. page \in COMPATIBILITY .. VERIFY
    BY DEF SetupTyped, WindowTyped
  <2>1. CASE OnBack
    <3>1. page - 1 \in COMPATIBILITY .. VERIFY
      BY <2>1, <2>n DEF OnBack, COMPATIBILITY, VERIFY
    <3> QED
      BY <2>1, <3>1, PageFollows DEF OnBack, InWizard
  <2>2. CASE OnNext
    <3>1. page + 1 \in COMPATIBILITY .. VERIFY
      BY <2>2, <2>n DEF OnNext, COMPATIBILITY, VERIFY
    <3>2. (page = DOWNLOAD => ready) /\ (page = SHORTCUT => probe.free)
      BY <2>2 DEF OnNext, NextEnabled, DOWNLOAD, INSTALL, SHORTCUT
    <3> QED
      BY <2>2, <3>1, <3>2, PageFollows DEF OnNext, InWizard
  <2>3. CASE perform_install
    BY <2>3 DEF perform_install, InWizard, WindowFollows, wizardVars
  <2>4. CASE WriteSeeds
    <3>1. VERIFY \in COMPATIBILITY .. VERIFY
      BY DEF COMPATIBILITY, VERIFY
    <3> QED
      BY <2>4, <3>1, PageFollows DEF WriteSeeds, InWizard
  <2>5. CASE Finish \/ OnCancel
    BY <2>5, ClosedFollows DEF Finish, OnCancel
  <2>6. CASE ChooseProvider \/ OnRetry
    BY <2>6, <1>u DEF ChooseProvider, OnRetry
  <2>7. CASE ChooseShortcut
    <3>1. probe'.key = key' /\ ~(page > SHORTCUT)
      BY <2>7 DEF ChooseShortcut, verify_selected_shortcut, SHORTCUT
    <3> QED
      BY <2>7, <3>1 DEF ChooseShortcut, WindowFollows
  <2> QED
    BY <1>6, <2>1, <2>2, <2>3, <2>4, <2>5, <2>6, <2>7 DEF Buttons
<1>7. ASSUME NEW arguments \in Commands, Launch(arguments) PROVE WindowFollows'
  <2>1. /\ proc = "none"
        /\ UNCHANGED <<page, run, ready, probe, key>>
        /\ proc' = "wizard" => todo' = todo
    BY <1>7 DEF Launch
  <2>2. todo = <<>>
    BY <2>1, HeadOfWork DEF TodoIsWork, IsStepOf
  <2> QED
    BY <2>1, <2>2 DEF WindowFollows
<1>8. CASE Killed
  BY <1>8, ClosedFollows DEF Killed
<1>9. CASE ArtifactDamaged \/ AppStarts \/ AppStops
  BY <1>9, <1>u DEF ArtifactDamaged, AppStarts, AppStops, wizardVars
<1>10. CASE UNCHANGED vars
  BY <1>10, <1>u DEF vars, wizardVars
<1> QED
  BY <1>1, <1>2, <1>3, <1>4, <1>5, <1>6, <1>7, <1>8, <1>9, <1>10 DEF Next, Threads, Timer

(* What is retained stays retained, and the transfer is the one it was.       *)
LEMMA TransferKept ==
  ASSUME TransferFollows, run' = run,
         \A i \in DOMAIN Plan(run.plan) :
            retained[Plan(run.plan)[i]] # "absent" => retained'[Plan(run.plan)[i]] # "absent"
  PROVE  TransferFollows'
<1>1. Plan(run.plan)' = Plan(run.plan)
  BY DEF Plan
<1> QED
  BY <1>1 DEF TransferFollows

(* A page is shown: the transfer it begins has everything still to fetch.     *)
LEMMA TransferShows ==
  ASSUME TransferFollows, NEW index, show_step(index), retained' = retained
  PROVE  TransferFollows'
<1>1. CASE run' = run
  BY <1>1, TransferKept
<1>2. CASE run' = [plan |-> choice, left |-> Plan(choice), state |-> "flying"]
  <2>1. run'.left = Plan(run'.plan) /\ run'.state = "flying"
    BY <1>2
  <2>2. Plan(run.plan)' = Plan(run'.plan)
    BY DEF Plan
  <2> QED
    BY <2>1, <2>2 DEF TransferFollows
<1> QED
  BY <1>1, <1>2, PageShows

(* There is no transfer. *)
LEMMA TransferIsOver ==
  ASSUME run'.state \in {"none", "failed"}
  PROVE  TransferFollows'
BY DEF TransferFollows

LEMMA TransferStep ==
  ASSUME SetupTyped, TodoIsWork, WindowFollows, TransferFollows, [Next]_vars
  PROVE  TransferFollows'
<1> DEFINE plan == Plan(run.plan)
<1>p. plan \in Seq(Items) /\ \A i \in DOMAIN plan : plan[i] \in Items
  <2>1. plan \in Seq(Items)
    BY PlansAreItems
  <2> QED
    BY <2>1, LenProperties
<1> HIDE DEF plan
<1>1. CASE execute
  <2>1. CASE run.left = <<>>
    <3>1. run' = [run EXCEPT !.state = "ok"] /\ retained' = retained /\ run.state = "flying"
      BY <1>1, <2>1 DEF execute
    <3>2. run'.plan = run.plan /\ run'.left = <<>> /\ Plan(run.plan)' = plan
      BY <2>1, <3>1 DEF SetupTyped, WindowTyped, Runs, Plan, plan
    <3>3. \A i \in DOMAIN plan : retained'[plan[i]] # "absent"
      BY <2>1, <3>1 DEF TransferFollows, plan
    <3> QED
      BY <3>2, <3>3 DEF TransferFollows
  <2>2. CASE run.left # <<>>
    <3>1. /\ run' = [run EXCEPT !.left = Tail(run.left)] /\ run.state = "flying"
          /\ retained' = [retained EXCEPT ![Head(run.left)] = "good"]
      BY <1>1, <2>2 DEF execute
    <3>2. /\ run.left \in Seq(Items) /\ run \in Runs
          /\ retained \in [Items -> {"absent", "good", "damaged"}]
      BY DEF SetupTyped, WindowTyped, DiskTyped, Runs
    <3>3. run'.plan = run.plan /\ run'.left = Tail(run.left) /\ run'.state = "flying"
          /\ Plan(run.plan)' = plan
      BY <3>1, <3>2 DEF Runs, Plan, plan
    <3>4. /\ Len(run.left) \in Nat \ {0} /\ Head(run.left) = run.left[1]
          /\ DOMAIN run.left = 1 .. Len(run.left)
          /\ DOMAIN Tail(run.left) = 1 .. Len(run.left) - 1
          /\ \A i \in 1 .. Len(run.left) - 1 : Tail(run.left)[i] = run.left[i + 1]
      BY <2>2, <3>2, HeadTailProperties, EmptySeq, LenProperties
    <3>5. ASSUME NEW i \in DOMAIN plan
          PROVE  \/ retained'[plan[i]] # "absent"
                 \/ \E j \in DOMAIN run'.left : run'.left[j] = plan[i]
      <4>1. plan[i] \in Items
        BY <1>p
      <4>2. CASE retained[plan[i]] # "absent" \/ plan[i] = Head(run.left)
        BY <3>1, <3>2, <4>1, <4>2
      <4>3. CASE retained[plan[i]] = "absent" /\ plan[i] # Head(run.left)
        <5>1. PICK j \in DOMAIN run.left : run.left[j] = plan[i]
          BY <3>1, <4>3 DEF TransferFollows, plan
        <5>2. j # 1
          BY <3>4, <4>3, <5>1
        <5>3. j - 1 \in 1 .. Len(run.left) - 1 /\ (j - 1) + 1 = j
          BY <3>4, <5>1, <5>2
        <5> QED
          BY <3>3, <3>4, <5>1, <5>3
      <4> QED
        BY <4>2, <4>3
    <3> QED
      BY <3>3, <3>5 DEF TransferFollows
  <2> QED
    BY <2>1, <2>2
<1>2. CASE TransferFails
  <2>1. run' = [run EXCEPT !.state = "failed"] /\ run \in Runs
    BY <1>2 DEF TransferFails, SetupTyped, WindowTyped
  <2> QED
    BY <2>1, TransferIsOver DEF Runs
<1>3. CASE OnBack \/ OnNext \/ WriteSeeds \/ Advance
  <2>1. retained' = retained /\ \E index : show_step(index)
    BY <1>3 DEF OnBack, OnNext, WriteSeeds, Advance, diskVars
  <2> QED
    BY <2>1, TransferShows
<1>4. CASE Killed \/ Finish \/ OnCancel
  <2>1. run' = NoRun
    BY <1>4 DEF Killed, Finish, OnCancel, Closed
  <2> QED
    BY <2>1, TransferIsOver DEF NoRun
<1>5. CASE remove_user_data_under
  <2>1. proc = "uninstall"
    <3>1. todo # <<>> /\ Head(todo).op = "delete_user"
      BY <1>5 DEF remove_user_data_under, Doing
    <3> QED
      BY <3>1, HeadOfWork DEF TodoIsWork, IsStepOf, CopySteps, UninstallSteps
  <2>2. run' = run /\ run = NoRun
    BY <1>5, <2>1 DEF remove_user_data_under, wizardVars, WindowFollows
  <2> QED
    BY <2>2, TransferIsOver DEF NoRun
<1>6. CASE ArtifactDamaged
  <2>1. PICK s \in DOMAIN retained :
           retained[s] = "good" /\ retained' = [retained EXCEPT ![s] = "damaged"]
    BY <1>6 DEF ArtifactDamaged
  <2>2. retained \in [Items -> {"absent", "good", "damaged"}]
    BY DEF SetupTyped, DiskTyped
  <2>3. \A x \in Items : retained[x] # "absent" => retained'[x] # "absent"
    BY <2>1, <2>2
  <2>4. run' = run
    BY <1>6 DEF ArtifactDamaged, wizardVars
  <2> QED
    BY <1>p, <2>3, <2>4, TransferKept DEF plan
<1>7. ASSUME UNCHANGED <<run, retained>> PROVE TransferFollows'
  BY <1>7, TransferKept
<1>8. CASE Procedure /\ ~Advance /\ ~remove_user_data_under
  <2>1. CASE \/ CopyApp \/ CopyWorker \/ register_uninstall \/ create_shortcut \/ write_stamp
             \/ BeginStaging \/ preserve_cpu_worker \/ place_beside_the_worker \/ StagingFails
    BY <2>1, <1>7 DEF CopyApp, CopyWorker, register_uninstall, create_shortcut, write_stamp,
                      BeginStaging, preserve_cpu_worker, place_beside_the_worker, StagingFails,
                      wizardVars, diskVars
  <2>2. CASE \/ PlacingFails \/ write_default_vocabulary \/ clear_installed_provider
             \/ clear_registration \/ remove_program_files \/ RemovalFails \/ UninstallEnds
    BY <2>2, <1>7 DEF PlacingFails, write_default_vocabulary, clear_installed_provider,
                      clear_registration, remove_program_files, RemovalFails, UninstallEnds,
                      wizardVars, diskVars
  <2> QED
    BY <1>8, <2>1, <2>2 DEF Procedure
<1>9. CASE InspectPayload \/ verify_engine \/ Timer
  BY <1>9, <1>7 DEF InspectPayload, verify_engine, Timer, poll_transfer, poll_verify,
                    verify_provider, diskVars
<1>10. CASE perform_install \/ ChooseProvider \/ ChooseShortcut \/ OnRetry
  BY <1>10, <1>7 DEF perform_install, ChooseProvider, ChooseShortcut, OnRetry, wizardVars,
                     diskVars
<1>11. ASSUME NEW arguments \in Commands, Launch(arguments) PROVE TransferFollows'
  BY <1>11, <1>7 DEF Launch
<1>12. CASE AppStarts \/ AppStops \/ UNCHANGED vars
  BY <1>12, <1>7 DEF AppStarts, AppStops, vars, wizardVars, diskVars
<1> QED
  BY <1>1, <1>2, <1>3, <1>4, <1>5, <1>6, <1>8, <1>9, <1>10, <1>11, <1>12
     DEF Next, Threads, Buttons

-----------------------------------------------------------------------------
(* What is on the disk *)

(* An uninstall takes the worker apart.                                       *)
DiskFollows ==
    /\ CudaWorkerHasItsLibraries
    /\ proc = "uninstall" => apart
    /\ ReportedRemovedIsGone

LEMMA DiskStarts ==
  ASSUME Init
  PROVE  DiskFollows
<1>1. PICK kind \in {"none", "old", "torn", "staging", "remnant"} : Disk(kind)
  BY DEF Init
<1>2. CASE kind = "remnant"
  BY <1>1, <1>2 DEF Init, Disk, DiskFollows, CudaWorkerHasItsLibraries, ReportedRemovedIsGone
<1>3. CASE kind = "old"
  <2>1. \A f \in Libraries : f # Worker /\ f \in ProofFiles
    BY WorkerIsNoLibrary DEF ProofFiles
  <2>2. ASSUME NEW f \in Libraries PROVE proof[f] # "none"
    BY <1>1, <1>3, <2>1, <2>2 DEF Disk, Worker, CpuWorker
  <2>3. Libraries \subseteq Placed
    BY <2>1, <2>2 DEF Placed
  <2> QED
    BY <2>3 DEF Init, DiskFollows, CudaWorkerHasItsLibraries, ReportedRemovedIsGone
<1>4. CASE kind \in {"none", "torn", "staging"}
  <2>1. Worker \in ProofFiles
    BY DEF ProofFiles
  <2>2. proof[Worker] # "cuda"
    BY <1>1, <1>4, <2>1 DEF Disk
  <2> QED
    BY <2>2 DEF Init, DiskFollows, CudaWorkerHasItsLibraries, ReportedRemovedIsGone
<1> QED
  BY <1>2, <1>3, <1>4

(* The placed worker's libraries stay with it, whatever is done to the proof  *)
(* directory: it is the last file staged, and put aside or copied over before *)
(* the first.                                                                 *)
LEMMA FilesStep ==
  ASSUME SetupTyped, TodoIsWork, DiskFollows, [Next]_vars
  PROVE  CudaWorkerHasItsLibraries' /\ (proc = "uninstall" => apart)'
<1>t. proof \in [ProofFiles -> {"none", "torn", "cpu", "cuda", "library"}]
      /\ Worker \in ProofFiles
  BY DEF SetupTyped, DiskTyped, ProofFiles
<1>k. ASSUME proof' = proof, apart' = apart, proc' # "uninstall" \/ proc = "uninstall"
      PROVE  CudaWorkerHasItsLibraries' /\ (proc = "uninstall" => apart)'
  BY <1>k DEF DiskFollows, CudaWorkerHasItsLibraries, Placed
<1>1. CASE CopyWorker
  <2>1. PICK op \in {"tear", "worker"} :
          /\ todo # <<>> /\ Head(todo).op = op
          /\ proof' = [proof EXCEPT ![Worker] = IF op = "tear" THEN "torn" ELSE "cpu"]
    BY <1>1 DEF CopyWorker, Doing
  <2>2. proof'[Worker] # "cuda"
    BY <1>t, <2>1
  <2>3. proc # "uninstall" /\ proc' = proc
    BY <1>1, <2>1, HeadOfWork
       DEF CopyWorker, TodoIsWork, IsStepOf, CopySteps, UninstallSteps
  <2> QED
    BY <2>2, <2>3 DEF CudaWorkerHasItsLibraries
<1>2. CASE preserve_cpu_worker
  <2>1. proc' = proc /\ apart' = apart
    BY <1>2 DEF preserve_cpu_worker
  <2>2. proof' = proof \/ proof' = [proof EXCEPT ![CpuWorker] = proof[Worker], ![Worker] = "none"]
    BY <1>2 DEF preserve_cpu_worker
  <2>3. CASE proof' = proof
    BY <1>k, <2>1, <2>3
  <2>4. CASE proof' = [proof EXCEPT ![CpuWorker] = proof[Worker], ![Worker] = "none"]
    <3>1. proof'[Worker] = "none"
      BY <1>t, <2>4
    <3> QED
      BY <2>1, <3>1 DEF DiskFollows, CudaWorkerHasItsLibraries
  <2> QED
    BY <2>2, <2>3, <2>4
<1>3. CASE place_beside_the_worker
  <2> DEFINE name == Head(todo).of[2]
  <2>1. /\ todo # <<>> /\ Head(todo).op = "place"
        /\ proof' = [proof EXCEPT ![name] = IF name = Worker THEN "cuda" ELSE "library"]
        /\ proc' = proc /\ apart' = apart
    BY <1>3 DEF place_beside_the_worker, Doing, boundVars
  <2>2. \A f \in ProofFiles : proof[f] # "none" => proof'[f] # "none"
    BY <1>t, <2>1
  <2>3. Placed \subseteq Placed'
    BY <2>2 DEF Placed
  <2>4. CASE name = Worker
    <3>1. WorkerIsLast(todo, Placed) /\ Len(todo) \in Nat \ {0} /\ Head(todo) = todo[1]
      BY <2>1, HeadOfWork DEF TodoIsWork, IsWork
    <3>2. Places(todo[1], Worker) /\ 1 \in DOMAIN todo
      <4>1. PICK S : todo \in Seq(S)
        BY DEF TodoIsWork, IsWork
      <4> QED
        BY <2>1, <2>4, <3>1, <4>1, LenProperties DEF Places
    <3>3. \A library \in Libraries \ Placed : \E j \in 1 .. 1 - 1 : Places(todo[j], library)
      BY <3>1, <3>2 DEF WorkerIsLast
    <3>4. Libraries \subseteq Placed
      BY <3>3
    <3> QED
      BY <2>1, <2>3, <3>4 DEF DiskFollows, CudaWorkerHasItsLibraries
  <2>5. CASE name # Worker
    <3>1. proof'[Worker] = proof[Worker]
      BY <1>t, <2>1, <2>5
    <3> QED
      BY <2>1, <2>3, <3>1 DEF DiskFollows, CudaWorkerHasItsLibraries
  <2> QED
    BY <2>4, <2>5
<1>4. CASE remove_program_files
  <2>1. /\ todo # <<>> /\ Head(todo).op \in {"delete_app", "delete_proof"}
        /\ apart' = apart /\ proc' = proc
    BY <1>4 DEF remove_program_files, Doing, boundVars
  <2>2. proc = "uninstall"
    BY <2>1, HeadOfWork DEF TodoIsWork, IsStepOf, CopySteps, UninstallSteps
  <2> QED
    BY <2>1, <2>2 DEF DiskFollows, CudaWorkerHasItsLibraries
<1>5. CASE Procedure /\ ~CopyWorker /\ ~preserve_cpu_worker /\ ~place_beside_the_worker
           /\ ~remove_program_files
  <2>1. CASE \/ CopyApp \/ register_uninstall \/ create_shortcut \/ write_stamp
             \/ BeginStaging \/ StagingFails \/ Advance
    BY <2>1, <1>k DEF CopyApp, register_uninstall, create_shortcut, write_stamp,
                      BeginStaging, StagingFails, Advance, diskVars, boundVars
  <2>2. CASE \/ PlacingFails \/ write_default_vocabulary \/ clear_installed_provider
             \/ clear_registration \/ RemovalFails \/ remove_user_data_under \/ UninstallEnds
    BY <2>2, <1>k DEF PlacingFails, write_default_vocabulary, clear_installed_provider,
                      clear_registration, RemovalFails, remove_user_data_under, UninstallEnds,
                      diskVars, boundVars
  <2> QED
    BY <1>5, <2>1, <2>2 DEF Procedure
<1>6. CASE Threads \/ Timer
  BY <1>6, <1>k DEF Threads, execute, TransferFails, InspectPayload, verify_engine, Timer,
                    poll_transfer, poll_verify, verify_provider, diskVars, boundVars
<1>7. CASE Buttons
  BY <1>7, <1>k DEF Buttons, OnBack, OnNext, perform_install, WriteSeeds, Finish,
                    ChooseProvider, ChooseShortcut, OnRetry, OnCancel, diskVars, boundVars
<1>8. ASSUME NEW arguments \in Commands, Launch(arguments)
      PROVE  CudaWorkerHasItsLibraries' /\ (proc = "uninstall" => apart)'
  <2>1. /\ proof' = proof /\ (apart => apart')
        /\ proc' = "uninstall" => apart'
    BY <1>8 DEF Launch
  <2> QED
    BY <2>1 DEF DiskFollows, CudaWorkerHasItsLibraries, Placed
<1>9. CASE Killed \/ ArtifactDamaged \/ AppStarts \/ AppStops \/ UNCHANGED vars
  BY <1>9, <1>k DEF Killed, ArtifactDamaged, AppStarts, AppStops, vars, diskVars, boundVars
<1> QED
  BY <1>1, <1>2, <1>3, <1>4, <1>5, <1>6, <1>7, <1>8, <1>9 DEF Next

(* What was reported removed stays so while the uninstaller is about, and it  *)
(* reports what it removed whole.                                             *)
LEMMA ReportStep ==
  ASSUME SetupTyped, TodoIsWork, DiskFollows, [Next]_vars
  PROVE  ReportedRemovedIsGone'
<1>k. ASSUME user' \subseteq user \/ proc' # "uninstall",
             outcome' = outcome, proc' # "uninstall" \/ proc = "uninstall"
      PROVE  ReportedRemovedIsGone'
  BY <1>k DEF DiskFollows, ReportedRemovedIsGone
<1>o. outcome = [removed |-> outcome.removed, failed |-> outcome.failed]
  BY DEF SetupTyped, DiskTyped
<1>1. CASE remove_user_data_under
  <2> DEFINE item == Head(todo).of
  <2>1. /\ todo # <<>> /\ Head(todo).op = "delete_user" /\ proc' = proc
    BY <1>1 DEF remove_user_data_under, Doing
  <2>2. proc = "uninstall"
    BY <2>1, HeadOfWork DEF TodoIsWork, IsStepOf, CopySteps, UninstallSteps
  <2>3. PICK stuck \in SUBSET (targets[item] \cap user) :
          user' = user \ (targets[item] \ stuck) /\ outcome' = Report(item, stuck)
    BY <1>1 DEF remove_user_data_under
  <2>4. CASE stuck = {}
    <3>1. outcome'.removed = outcome.removed \cup {item}
      BY <1>o, <2>3, <2>4 DEF Report
    <3> QED
      BY <2>2, <2>3, <2>4, <3>1 DEF DiskFollows, ReportedRemovedIsGone
  <2>5. CASE stuck # {}
    <3>1. outcome'.removed = outcome.removed
      BY <1>o, <2>3, <2>5 DEF Report
    <3> QED
      BY <2>2, <2>3, <3>1 DEF DiskFollows, ReportedRemovedIsGone
  <2> QED
    BY <2>4, <2>5
<1>2. CASE RemovalFails
  <2>1. /\ outcome' = [outcome EXCEPT !.failed = @ \cup {Head(todo).op}]
        /\ user' = user /\ proc' = proc
    BY <1>2 DEF RemovalFails
  <2>2. outcome'.removed = outcome.removed
    BY <1>o, <2>1
  <2> QED
    BY <2>1, <2>2 DEF DiskFollows, ReportedRemovedIsGone
<1>3. CASE write_default_vocabulary
  <2>1. todo # <<>> /\ Head(todo).op = "default_words" /\ proc' = proc
    BY <1>3 DEF write_default_vocabulary, Doing
  <2>2. proc # "uninstall"
    BY <2>1, HeadOfWork DEF TodoIsWork, IsStepOf, CopySteps, UninstallSteps
  <2> QED
    BY <1>k, <1>3, <2>1, <2>2 DEF write_default_vocabulary
<1>4. CASE Procedure /\ ~remove_user_data_under /\ ~RemovalFails /\ ~write_default_vocabulary
  <2>1. CASE \/ CopyApp \/ CopyWorker \/ register_uninstall \/ create_shortcut \/ write_stamp
             \/ BeginStaging \/ preserve_cpu_worker \/ place_beside_the_worker \/ StagingFails
    BY <2>1, <1>k DEF CopyApp, CopyWorker, register_uninstall, create_shortcut, write_stamp,
                      BeginStaging, preserve_cpu_worker, place_beside_the_worker, StagingFails,
                      diskVars
  <2>2. CASE \/ PlacingFails \/ Advance \/ clear_installed_provider \/ clear_registration
             \/ remove_program_files \/ UninstallEnds
    BY <2>2, <1>k DEF PlacingFails, Advance, clear_installed_provider, clear_registration,
                      remove_program_files, UninstallEnds, diskVars
  <2> QED
    BY <1>4, <2>1, <2>2 DEF Procedure
<1>5. CASE Threads \/ Timer
  BY <1>5, <1>k DEF Threads, execute, TransferFails, InspectPayload, verify_engine, Timer,
                    poll_transfer, poll_verify, verify_provider, diskVars
<1>6. CASE Buttons
  BY <1>6, <1>k DEF Buttons, OnBack, OnNext, perform_install, WriteSeeds, Finish, InWizard,
                    ChooseProvider, ChooseShortcut, OnRetry, OnCancel, diskVars
<1>7. ASSUME NEW arguments \in Commands, Launch(arguments) PROVE ReportedRemovedIsGone'
  <2>1. outcome' = [removed |-> {}, failed |-> {}]
    BY <1>7 DEF Launch
  <2> QED
    BY <2>1 DEF ReportedRemovedIsGone
<1>8. CASE Killed \/ ArtifactDamaged \/ AppStarts \/ AppStops \/ UNCHANGED vars
  BY <1>8, <1>k DEF Killed, ArtifactDamaged, AppStarts, AppStops, vars, diskVars
<1> QED
  BY <1>1, <1>2, <1>3, <1>4, <1>5, <1>6, <1>7, <1>8 DEF Next

-----------------------------------------------------------------------------
(* The invariant and the theorems *)

SetupInv ==
    /\ SetupTyped
    /\ TodoIsWork /\ WhatIsDone
    /\ WindowFollows /\ TransferFollows
    /\ DiskFollows

LEMMA InvStarts ==
  ASSUME Init
  PROVE  SetupInv
BY SetupStartsTyped, WorkStarts, WindowStarts, DiskStarts DEF SetupInv

LEMMA InvStep ==
  ASSUME SetupInv, [Next]_vars
  PROVE  SetupInv'
<1>1. SetupTyped'
  <2>1. CASE Procedure
    <3>1. Doing("advance") => page = INSTALL
      <4>1. ASSUME Doing("advance") PROVE proc = "wizard" /\ todo # <<>>
        BY <4>1, HeadOfWork
           DEF SetupInv, TodoIsWork, Doing, IsStepOf, CopySteps, UninstallSteps
      <4> QED
        BY <4>1 DEF SetupInv, WindowFollows
    <3> QED
      BY <2>1, <3>1, ProcedureIsTyped DEF SetupInv
  <2>2. CASE UNCHANGED vars
    BY <2>2 DEF SetupInv, SetupTyped, WindowTyped, DiskTyped, vars, wizardVars, diskVars,
                boundVars
  <2> QED
    BY <2>1, <2>2, ThreadsAreTyped, ButtonsAreTyped, SurroundingsAreTyped DEF SetupInv, Next
<1>2. TodoIsWork' /\ WhatIsDone'
  BY WorkStep DEF SetupInv
<1>3. WindowFollows' /\ TransferFollows'
  BY WindowStep, TransferStep DEF SetupInv
<1>4. DiskFollows'
  BY FilesStep, ReportStep DEF SetupInv, DiskFollows
<1> QED
  BY <1>1, <1>2, <1>3, <1>4 DEF SetupInv

LEMMA InvHolds == Spec => []SetupInv
<1>1. Init => SetupInv
  BY InvStarts
<1>2. SetupInv /\ [Next]_vars => SetupInv'
  BY InvStep
<1> QED
  BY <1>1, <1>2, PTL DEF Spec

(* Every variable of setup keeps its type (Bootstrapper's TypeOK), for any    *)
(* catalog that validates: no procedure is left with a step that is not one,  *)
(* no page outside the wizard's eight is reached, and the record of proven    *)
(* providers and every file of <root>/proof are of the kinds the code writes. *)
THEOREM SetupIsTyped == Spec => []TypeOK
<1>1. SetupInv => TypeOK
  <2> SUFFICES ASSUME SetupInv PROVE TypeOK
    OBVIOUS
  <2>1. \A i \in DOMAIN todo : DOMAIN todo[i] = {"op", "of"}
    <3>1. PICK S : todo \in Seq(S)
      BY DEF SetupInv, TodoIsWork, IsWork
    <3>2. DOMAIN todo = 1 .. Len(todo)
      BY <3>1, LenProperties
    <3> QED
      BY <3>2 DEF SetupInv, TodoIsWork, IsWork
  <2>2. /\ proc \in {"none", "wizard", "install", "verify", "uninstall"}
        /\ page \in COMPATIBILITY .. VERIFY /\ choice \in {"cpu", "cuda"}
        /\ {may, ready, settled, checked, entry, link, seeds, running, apart} \subseteq BOOLEAN
    <3>1. /\ may \in BOOLEAN /\ running \in BOOLEAN /\ apart \in BOOLEAN
          /\ ready \in BOOLEAN /\ settled \in BOOLEAN /\ checked \in BOOLEAN
          /\ entry \in BOOLEAN /\ link \in BOOLEAN /\ seeds \in BOOLEAN
      BY DEF SetupInv, SetupTyped, WindowTyped, DiskTyped
    <3>2. {may, ready, settled, checked, entry, link, seeds, running, apart} \subseteq BOOLEAN
      BY <3>1
    <3> QED
      BY <3>2 DEF SetupInv, SetupTyped, WindowTyped
  <2>3. /\ run.state \in {"none", "flying", "ok", "failed"}
        /\ check.state \in {"none", "inspect", "running", "done"}
        /\ check.verdict \in {"none", "cpu", "cuda", "unverified"}
        /\ key \in Shortcuts /\ probe.key \in Shortcuts
    BY DEF SetupInv, SetupTyped, WindowTyped, Runs, Checks, Probes
  <2>4. /\ proof \in [ProofFiles -> {"none", "torn", "cpu", "cuda", "library"}]
        /\ {app, stamp} \subseteq {"none", "old", "new"} /\ record \in {"none", "cpu", "cuda"}
        /\ retained \in [SourceIds \cup {Model} -> {"absent", "good", "damaged"}]
        /\ user \subseteq UserFiles
    BY DEF SetupInv, SetupTyped, DiskTyped, Items
  <2> QED
    BY <2>1, <2>2, <2>3, <2>4 DEF TypeOK
<1> QED
  BY <1>1, InvHolds, PTL

(* What setup shows and leaves on the disk is sound (Bootstrapper's           *)
(* SetupIsSound): the graphics-card worker is only found beside every library *)
(* it loads, the wizard is past the download only with every artifact of the  *)
(* plan that was run retained (which need not be the provider's that is shown *)
(* by then) and past the shortcut only with the one shown probed free, and    *)
(* nothing is reported removed that is still there, whatever step failed and  *)
(* wherever setup was killed.                                                 *)
THEOREM SetupStaysSound == Spec => []SetupIsSound
<1>1. SetupInv => SetupIsSound
  <2> SUFFICES ASSUME SetupInv PROVE SetupIsSound
    OBVIOUS
  <2>1. PlanRunIsFetched
    <3> SUFFICES ASSUME proc = "wizard", page > DOWNLOAD,
                        NEW i \in DOMAIN Plan(run.plan)
                 PROVE  retained[Plan(run.plan)[i]] # "absent"
      BY DEF PlanRunIsFetched
    <3>1. run.state = "ok" /\ run.left = <<>>
      BY DEF SetupInv, WindowFollows, TransferFollows
    <3> QED
      BY <3>1 DEF SetupInv, TransferFollows
  <2>2. ShortcutWasProbed
    <3> SUFFICES ASSUME page > SHORTCUT PROVE probe = [key |-> key, free |-> TRUE]
      BY DEF ShortcutWasProbed
    <3>1. probe.key = key /\ probe.free /\ probe \in [key : Shortcuts, free : BOOLEAN]
      BY DEF SetupInv, WindowFollows, SetupTyped, WindowTyped, Probes
    <3>2. probe.free = TRUE
      BY <3>1
    <3> QED
      BY <3>1, <3>2
  <2> QED
    BY <2>1, <2>2 DEF SetupInv, DiskFollows, SetupIsSound
<1> QED
  BY <1>1, InvHolds, PTL

(* The version record, which refuses a second installation of its version, is *)
(* only ever written over an installation that is complete (Bootstrapper's    *)
(* StampIsWrittenLast): the program files, the worker, the registration and   *)
(* the shortcut are there.                                                    *)
THEOREM StampComesLast == Spec => StampIsWrittenLast
<1> DEFINE Complete == stamp # "new" /\ stamp' = "new" =>
                         app' = "new" /\ entry' /\ link' /\ proof'[Worker] \in {"cpu", "cuda"}
<1>1. SetupInv /\ [Next]_vars => Complete
  <2> SUFFICES ASSUME SetupInv, [Next]_vars, stamp # "new", stamp' = "new"
               PROVE  app' = "new" /\ entry' /\ link' /\ proof'[Worker] \in {"cpu", "cuda"}
    OBVIOUS
  <2>1. write_stamp
    <3>1. CASE Procedure
      BY <3>1 DEF Procedure, CopyApp, CopyWorker, register_uninstall, create_shortcut,
                  BeginStaging, preserve_cpu_worker, place_beside_the_worker, StagingFails,
                  PlacingFails, Advance, write_default_vocabulary, clear_installed_provider,
                  clear_registration, remove_program_files, RemovalFails,
                  remove_user_data_under, UninstallEnds, diskVars
    <3>2. CASE Threads \/ Timer
      BY <3>2 DEF Threads, execute, TransferFails, InspectPayload, verify_engine, Timer,
                  poll_transfer, poll_verify, verify_provider, diskVars
    <3>3. CASE Buttons
      BY <3>3 DEF Buttons, OnBack, OnNext, perform_install, WriteSeeds, Finish,
                  ChooseProvider, ChooseShortcut, OnRetry, OnCancel, diskVars
    <3>4. CASE \/ \E arguments \in Commands : Launch(arguments)
               \/ Killed \/ ArtifactDamaged \/ AppStarts \/ AppStops \/ UNCHANGED vars
      BY <3>4 DEF Launch, Killed, ArtifactDamaged, AppStarts, AppStops, vars, diskVars
    <3> QED
      BY <3>1, <3>2, <3>3, <3>4 DEF Next
  <2>2. app = "new" /\ entry /\ link /\ proof[Worker] = "cpu"
    BY <2>1 DEF write_stamp, Doing, SetupInv, WhatIsDone
  <2> QED
    BY <2>1, <2>2 DEF write_stamp
<1> QED
  BY <1>1, InvHolds, PTL DEF Spec, StampIsWrittenLast
============================================================================
