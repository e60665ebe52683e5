---------------------------- MODULE PrivacyProofs ----------------------------
(***************************************************************************)
(* Theorems about the privacy gateway, for any number of requests, texts,  *)
(* pools and failures of the store.                                        *)
(*                                                                         *)
(* What the recursive definitions behind SelectLastInSeq, FlattenSeq,      *)
(* FoldLeft and Substitute compute is proved by induction over sets of     *)
(* natural numbers.  A text is covered by the values that lie in it, and   *)
(* a replacement longest first leaves it covered by those still to come,   *)
(* as long as none of them lies across another.                            *)
(*                                                                         *)
(* What leaves and what the user wrote are put together from the same      *)
(* pieces: words of the user, and pseudonyms beside the values they stand  *)
(* for.  Replacing a value adds its pseudonym to the pieces, and undoing a *)
(* mapping takes it away, so that when all of them are undone only words   *)
(* of the user are left.  A stream is such a text in parts.                *)
(***************************************************************************)
EXTENDS PrivacyProperties, FiniteSetTheorems, SequenceTheorems, TLAPS

-----------------------------------------------------------------------------
(* Induction over the natural numbers, for sets of them.                   *)

LEMMA LeastNumber ==
  ASSUME NEW T \in SUBSET Nat, T # {}
  PROVE  \E m \in T : \A k \in T : m <= k
<1> DEFINE R == StrictSubsetOrdering(Nat)
           F == {0..m : m \in T}
<1>1. IsWellFoundedOn(R, FiniteSubsetsOf(Nat))
  BY FS_StrictSubsetOrderingWellFounded
<1>2. F \subseteq FiniteSubsetsOf(Nat) /\ F # {}
  <2>1. \A m \in T : IsFiniteSet(0..m) /\ 0..m \in SUBSET Nat
    BY FS_Interval
  <2> QED
    BY <2>1 DEF FiniteSubsetsOf
<1>3. PICK s \in F : \A t \in F : <<t, s>> \notin R
  BY <1>1, <1>2, WFMin
<1>4. PICK m \in T : s = 0..m
  BY <1>3
<1>5. ASSUME NEW k \in T, k < m PROVE FALSE
  <2>1. 0..k \subseteq 0..m /\ m \notin 0..k /\ m \in 0..m
    BY <1>5
  <2>2. <<0..k, 0..m>> \in R
    BY <2>1 DEF StrictSubsetOrdering
  <2> QED
    BY <1>3, <1>4, <2>2
<1> QED
  BY <1>5

LEMMA Induction ==
  ASSUME NEW T \in SUBSET Nat, 0 \in T, \A n \in T : n + 1 \in T
  PROVE  T = Nat
<1>1. ASSUME Nat \ T # {} PROVE FALSE
  <2>1. PICK m \in Nat \ T : \A k \in Nat \ T : m <= k
    BY <1>1, LeastNumber
  <2>2. m # 0 /\ m - 1 \in Nat /\ m - 1 \notin Nat \ T
    BY <2>1
  <2> QED
    BY <2>1, <2>2
<1> QED
  BY <1>1

LEMMA MaxIs ==
  ASSUME NEW T \in SUBSET Nat, T # {}, NEW n \in Nat, \A k \in T : k <= n
  PROVE  Max(T) \in T /\ \A k \in T : k <= Max(T)
<1> DEFINE U == {n - k : k \in T}
<1>1. U \in SUBSET Nat /\ U # {}
  <2>1. \A k \in T : n - k \in Nat
    OBVIOUS
  <2>2. \E k \in T : n - k \in U
    OBVIOUS
  <2> QED
    BY <2>1, <2>2
<1>2. PICK u \in U : \A v \in U : u <= v
  BY <1>1, LeastNumber
<1>3. PICK m \in T : u = n - m
  BY <1>2
<1>4. \A k \in T : m >= k
  BY <1>2, <1>3
<1> QED
  BY <1>4 DEF Max

-----------------------------------------------------------------------------
(* The store *)

\* A key leads to what some batch has stored for it.
LEMMA StoreMeaning ==
  ASSUME log \in Seq(Mapping)
  PROVE  /\ \A o \in Originals : \E i \in 1..Len(log) : log[i].original = o /\ log[i].fake = FakeOf(o)
         /\ \A f \in Fakes : \E i \in 1..Len(log) : log[i].fake = f /\ log[i].original = OriginalOf(f)
<1>1. ASSUME NEW o \in Originals
      PROVE  \E i \in 1..Len(log) : log[i].original = o /\ log[i].fake = FakeOf(o)
  <2> DEFINE I == {i \in 1..Len(log) : log[i].original = o}
  <2>1. I # {} /\ I \in SUBSET Nat /\ Len(log) \in Nat /\ \A i \in I : i <= Len(log)
    BY DEF Originals
  <2>2. Max(I) \in I
    BY <2>1, MaxIs
  <2>3. FakeOf(o) = log[Max(I)].fake
    BY <2>1 DEF FakeOf, SelectLastInSeq
  <2> QED
    BY <2>2, <2>3
<1>2. ASSUME NEW f \in Fakes
      PROVE  \E i \in 1..Len(log) : log[i].fake = f /\ log[i].original = OriginalOf(f)
  <2> DEFINE I == {i \in 1..Len(log) : log[i].fake = f}
  <2>1. I # {} /\ I \in SUBSET Nat /\ Len(log) \in Nat /\ \A i \in I : i <= Len(log)
    BY DEF Fakes
  <2>2. Max(I) \in I
    BY <2>1, MaxIs
  <2>3. OriginalOf(f) = log[Max(I)].original
    BY <2>1 DEF OriginalOf, SelectLastInSeq
  <2> QED
    BY <2>2, <2>3
<1> QED
  BY <1>1, <1>2

-----------------------------------------------------------------------------
(* Texts                                                                   *)

Flattens(g, q, n) == g = [i \in 1..n |-> IF i = 1 THEN q[i] ELSE g[i - 1] \o q[i]]

LEMMA FlattenExists ==
  ASSUME NEW q, NEW n \in Nat
  PROVE  \E g : Flattens(g, q, n)
<1> DEFINE T == {m \in Nat : \E g : Flattens(g, q, m)}
<1>1. 0 \in T
  <2>1. Flattens(<<>>, q, 0)
    BY DEF Flattens
  <2> QED
    BY <2>1
<1>2. ASSUME NEW m \in T PROVE m + 1 \in T
  <2>1. m \in Nat
    OBVIOUS
  <2>2. PICK g : Flattens(g, q, m)
    OBVIOUS
  <2> DEFINE last == IF m + 1 = 1 THEN q[m + 1] ELSE g[m] \o q[m + 1]
             h == [i \in 1..(m + 1) |-> IF i = m + 1 THEN last ELSE g[i]]
  <2>3. ASSUME NEW i \in 1..(m + 1)
        PROVE  h[i] = IF i = 1 THEN q[i] ELSE h[i - 1] \o q[i]
    <3>1. CASE i = m + 1
      BY <2>1, <3>1
    <3>2. CASE i # m + 1
      <4>1. i \in 1..m /\ (i # 1 => i - 1 \in 1..m)
        BY <2>1, <3>2
      <4>2. h[i] = g[i]
        BY <3>2
      <4>3. i # 1 => h[i - 1] = g[i - 1]
        BY <2>1, <4>1
      <4> QED
        BY <2>2, <4>1, <4>2, <4>3 DEF Flattens
    <3> QED
      BY <3>1, <3>2
  <2>4. Flattens(h, q, m + 1)
    BY <2>3 DEF Flattens
  <2> QED
    BY <2>1, <2>4
<1> HIDE DEF T
<1>3. T = Nat
  BY <1>1, <1>2, Induction DEF T
<1> QED
  BY <1>3 DEF T

\* What FlattenSeq computes.
LEMMA FlattenIs ==
  ASSUME NEW S, NEW q \in Seq(S), q # <<>>
  PROVE  \E g : /\ \A i \in 1..Len(q) : g[i] = IF i = 1 THEN q[i] ELSE g[i - 1] \o q[i]
                /\ FlattenSeq(q) = g[Len(q)]
<1> DEFINE flatten == CHOOSE g : g = [i \in 1..Len(q) |-> IF i = 1 THEN q[i] ELSE g[i - 1] \o q[i]]
<1>1. FlattenSeq(q) = flatten[Len(q)]
  BY DEF FlattenSeq
<1>2. Len(q) \in Nat
  OBVIOUS
<1>3. \E g : g = [i \in 1..Len(q) |-> IF i = 1 THEN q[i] ELSE g[i - 1] \o q[i]]
  BY Zenon, <1>2, FlattenExists DEF Flattens
<1>4. flatten = [i \in 1..Len(q) |-> IF i = 1 THEN q[i] ELSE flatten[i - 1] \o q[i]]
  BY Zenon, <1>3
<1> HIDE DEF flatten
<1>5. \A i \in 1..Len(q) : flatten[i] = IF i = 1 THEN q[i] ELSE flatten[i - 1] \o q[i]
  BY <1>4
<1> QED
  BY <1>1, <1>5

Substitutes(g, t, old, new, n) ==
  g = [s \in SUBSET (1..n) |->
         IF s = {} THEN t ELSE Substitute(g[s \ {Max(s)}], old[Max(s)], new[Max(s)])]

LEMMA MaxUpTo ==
  ASSUME NEW n \in Nat, NEW s \in SUBSET (1..n), s # {}
  PROVE  Max(s) \in s /\ \A k \in s : k <= Max(s)
<1>1. s \in SUBSET Nat /\ \A k \in s : k <= n
  OBVIOUS
<1> QED
  BY <1>1, MaxIs

LEMMA SubstituteExists ==
  ASSUME NEW t, NEW old, NEW new, NEW n \in Nat
  PROVE  \E g : Substitutes(g, t, old, new, n)
<1> DEFINE T == {m \in Nat : \E g : Substitutes(g, t, old, new, m)}
<1>1. 0 \in T
  <2> DEFINE g == [s \in SUBSET (1..0) |-> t]
  <2>1. SUBSET (1..0) = {{}}
    OBVIOUS
  <2>2. Substitutes(g, t, old, new, 0)
    BY <2>1 DEF Substitutes
  <2> QED
    BY <2>2
<1>2. ASSUME NEW m \in T PROVE m + 1 \in T
  <2>1. m \in Nat
    OBVIOUS
  <2>2. PICK g : Substitutes(g, t, old, new, m)
    OBVIOUS
  <2> DEFINE h == [s \in SUBSET (1..(m + 1)) |->
                     IF m + 1 \in s THEN Substitute(g[s \ {m + 1}], old[m + 1], new[m + 1]) ELSE g[s]]
  <2>3. ASSUME NEW s \in SUBSET (1..(m + 1))
        PROVE  h[s] = IF s = {} THEN t ELSE Substitute(h[s \ {Max(s)}], old[Max(s)], new[Max(s)])
    <3>1. CASE m + 1 \in s
      <4>1. Max(s) = m + 1
        <5>1. m + 1 \in Nat /\ s # {}
          BY <2>1, <3>1
        <5>2. Max(s) \in s /\ \A k \in s : k <= Max(s)
          BY <5>1, MaxUpTo
        <5>3. Max(s) \in 1..(m + 1) /\ m + 1 <= Max(s)
          BY <3>1, <5>2
        <5> QED
          BY <2>1, <5>3
      <4>2. s \ {m + 1} \in SUBSET (1..(m + 1)) /\ m + 1 \notin s \ {m + 1}
        OBVIOUS
      <4>3. h[s \ {m + 1}] = g[s \ {m + 1}]
        BY <4>2
      <4> QED
        BY <3>1, <4>1, <4>3
    <3>2. CASE m + 1 \notin s
      <4>1. s \in SUBSET (1..m)
        BY <2>1, <3>2
      <4>2. s # {} => /\ s \ {Max(s)} \in SUBSET (1..(m + 1)) /\ m + 1 \notin s \ {Max(s)}
        BY <3>2
      <4>3. h[s] = g[s] /\ (s # {} => h[s \ {Max(s)}] = g[s \ {Max(s)}])
        BY <3>2, <4>2
      <4>4. g[s] = IF s = {} THEN t ELSE Substitute(g[s \ {Max(s)}], old[Max(s)], new[Max(s)])
        BY <2>2, <4>1 DEF Substitutes
      <4> QED
        BY <4>3, <4>4
    <3> QED
      BY <3>1, <3>2
  <2>4. Substitutes(h, t, old, new, m + 1)
    BY <2>3 DEF Substitutes
  <2> QED
    BY <2>1, <2>4
<1> HIDE DEF T
<1>3. T = Nat
  BY <1>1, <1>2, Induction DEF T
<1> QED
  BY <1>3 DEF T

\* What a fold of Substitute computes.
Folded(f, t, old, new, n) ==
  f[0] = t /\ \A i \in 1..n : f[i] = Substitute(f[i - 1], old[i], new[i])

LEMMA FoldIs ==
  ASSUME NEW t, NEW old, NEW new, NEW n \in Nat, NEW g, Substitutes(g, t, old, new, n)
  PROVE  Folded([i \in 0..n |-> g[1..i]], t, old, new, n)
<1>1. g[1..0] = t
  BY DEF Substitutes
<1>2. ASSUME NEW i \in 1..n
      PROVE  g[1..i] = Substitute(g[1..(i - 1)], old[i], new[i])
  <2>1. i \in Nat /\ 1..i \in SUBSET (1..n) /\ i \in 1..i
    OBVIOUS
  <2>2. Max(1..i) = i
    <3>1. Max(1..i) \in 1..i /\ i <= Max(1..i)
      BY <2>1, MaxUpTo
    <3> QED
      BY <2>1, <3>1
  <2>3. (1..i) \ {i} = 1..(i - 1)
    OBVIOUS
  <2> QED
    BY <2>1, <2>2, <2>3 DEF Substitutes
<1>3. 0 \in 0..n /\ \A i \in 1..n : i \in 0..n /\ i - 1 \in 0..n
  OBVIOUS
<1> QED
  BY <1>1, <1>2, <1>3 DEF Folded

LEMMA PseudonymizeIs ==
  ASSUME NEW S, NEW q \in Seq(S), NEW t
  PROVE  \E f : /\ Folded(f, t, [i \in 1..Len(q) |-> q[i].original], [i \in 1..Len(q) |-> q[i].fake], Len(q))
                /\ Pseudonymize(t, q) = f[Len(q)]
<1> DEFINE iter == CHOOSE g : g = [s \in SUBSET (DOMAIN q) |->
                     IF s = {} THEN t
                     ELSE Substitute(g[s \ {Max(s)}], q[Max(s)].original, q[Max(s)].fake)]
           old == [i \in 1..Len(q) |-> q[i].original]
           new == [i \in 1..Len(q) |-> q[i].fake]
<1>1. Pseudonymize(t, q) = iter[DOMAIN q]
  BY DEF Pseudonymize, FoldLeft, MapThenFoldSet
<1>2. Len(q) \in Nat /\ DOMAIN q = 1..Len(q)
  OBVIOUS
<1>3. ASSUME NEW g
      PROVE  [s \in SUBSET (DOMAIN q) |->
                IF s = {} THEN t
                ELSE Substitute(g[s \ {Max(s)}], q[Max(s)].original, q[Max(s)].fake)]
             = [s \in SUBSET (1..Len(q)) |->
                 IF s = {} THEN t ELSE Substitute(g[s \ {Max(s)}], old[Max(s)], new[Max(s)])]
  <2>1. \A s \in SUBSET (1..Len(q)) : s # {} => Max(s) \in 1..Len(q)
    BY <1>2, MaxUpTo
  <2> QED
    BY <1>2, <2>1
<1>4. PICK g : Substitutes(g, t, old, new, Len(q))
  BY <1>2, SubstituteExists
<1>5. \E h : h = [s \in SUBSET (DOMAIN q) |->
                   IF s = {} THEN t
                   ELSE Substitute(h[s \ {Max(s)}], q[Max(s)].original, q[Max(s)].fake)]
  BY ZenonT(40), <1>3, <1>4 DEF Substitutes
<1>6. iter = [s \in SUBSET (DOMAIN q) |->
                IF s = {} THEN t
                ELSE Substitute(iter[s \ {Max(s)}], q[Max(s)].original, q[Max(s)].fake)]
  BY <1>5
<1> HIDE DEF iter
<1>7. Substitutes(iter, t, old, new, Len(q))
  BY <1>3, <1>6 DEF Substitutes
<1>8. Folded([i \in 0..Len(q) |-> iter[1..i]], t, old, new, Len(q))
  BY <1>2, <1>7, FoldIs
<1>9. [i \in 0..Len(q) |-> iter[1..i]][Len(q)] = iter[DOMAIN q]
  BY <1>2
<1> QED
  BY <1>1, <1>8, <1>9

Found(t, old, i) ==
  i + Len(old) - 1 <= Len(t) /\ SubSeq(t, i, i + Len(old) - 1) = old

Scans(g, t, old, new, from) ==
  g = [i \in from..(Len(t) + 1) |->
         IF i > Len(t) THEN <<>>
         ELSE IF Found(t, old, i) THEN new \o g[i + Len(old)]
         ELSE <<t[i]>> \o g[i + 1]]

LEMMA ScanExists ==
  ASSUME NEW t, NEW old, NEW new, Len(t) \in Nat, Len(old) \in Nat \ {0}
  PROVE  \E g : Scans(g, t, old, new, 1)
<1> DEFINE L == Len(t)
           T == {m \in Nat : m <= L => \E g : Scans(g, t, old, new, L + 1 - m)}
<1>1. 0 \in T
  <2> DEFINE g == [i \in (L + 1)..(L + 1) |-> <<>>]
  <2>1. Scans(g, t, old, new, L + 1)
    BY DEF Scans
  <2>2. L + 1 - 0 = L + 1
    OBVIOUS
  <2> QED
    BY <2>1, <2>2
<1>2. ASSUME NEW m \in T, m + 1 <= L
      PROVE  \E g : Scans(g, t, old, new, L + 1 - (m + 1))
  <2> DEFINE a == L + 1 - (m + 1)
             b == L + 1 - m
             K == Len(old)
  <2>1. /\ m \in Nat /\ m <= L /\ a \in 1..L /\ b \in 1..(L + 1) /\ b = a + 1
        /\ a + K >= b /\ K \in Nat \ {0} /\ L \in Nat
    BY <1>2
  <2>2. PICK g : Scans(g, t, old, new, b)
    BY <2>1
  <2> HIDE DEF L, a, b, K
  <2> DEFINE first == IF Found(t, old, a) THEN new \o g[a + K] ELSE <<t[a]>> \o g[b]
             h == [i \in a..(L + 1) |-> IF i = a THEN first ELSE g[i]]
  <2>3. ASSUME NEW i \in a..(L + 1)
        PROVE  h[i] = IF i > L THEN <<>>
                      ELSE IF Found(t, old, i) THEN new \o h[i + K]
                      ELSE <<t[i]>> \o h[i + 1]
    <3>1. Found(t, old, i) /\ i <= L => i + K \in b..(L + 1) /\ i + K # a
      BY <2>1 DEF Found, K, L
    <3>2. i <= L => i + 1 \in b..(L + 1) /\ i + 1 # a
      BY <2>1
    <3>3. \A j \in b..(L + 1) : j \in a..(L + 1) /\ j # a
      BY <2>1
    <3>4. \A j \in b..(L + 1) : h[j] = g[j]
      BY <3>3
    <3>5. CASE i = a
      <4>1. ~(i > L) /\ i + 1 = b
        BY <2>1, <3>5
      <4>2. h[i] = first
        BY <3>5
      <4>3. Found(t, old, i) => h[i + K] = g[a + K]
        BY <3>1, <3>4, <3>5, <4>1, <2>1
      <4>4. h[i + 1] = g[b]
        BY <3>2, <3>4, <4>1, <2>1
      <4> QED
        BY <3>5, <4>1, <4>2, <4>3, <4>4
    <3>6. CASE i # a
      <4>1. i \in b..(L + 1)
        BY <2>1, <3>6
      <4>2. g[i] = IF i > L THEN <<>>
                   ELSE IF Found(t, old, i) THEN new \o g[i + K]
                   ELSE <<t[i]>> \o g[i + 1]
        BY <2>2, <4>1 DEF Scans, L, K
      <4>3. i <= L <=> ~(i > L)
        BY <2>1
      <4>4. h[i] = g[i]
        BY <4>1, <3>4
      <4> HIDE DEF h
      <4> QED
        BY <4>2, <4>3, <4>4, <3>1, <3>2, <3>4
    <3> QED
      BY <3>5, <3>6
  <2>4. Scans(h, t, old, new, a)
    BY <2>3 DEF Scans, L, K
  <2> QED
    BY <2>4 DEF a, L
<1>3. ASSUME NEW m \in T PROVE m + 1 \in T
  <2>1. m \in Nat /\ m + 1 \in Nat
    OBVIOUS
  <2>2. m + 1 <= L => \E g : Scans(g, t, old, new, L + 1 - (m + 1))
    BY <1>2
  <2> QED
    BY <2>1, <2>2
<1> HIDE DEF T
<1>4. T = Nat
  BY <1>1, <1>3, Induction DEF T
<1>5. L \in T /\ L + 1 - L = 1
  BY <1>4
<1> QED
  BY <1>5 DEF T

\* What Substitute computes, from each place on.
Scanned(f, t, old, new) ==
  /\ f[Len(t) + 1] = <<>>
  /\ \A i \in 1..Len(t) :
       f[i] = IF Found(t, old, i) THEN new \o f[i + Len(old)] ELSE <<t[i]>> \o f[i + 1]

LEMMA SubstituteIs ==
  ASSUME NEW t, NEW old, NEW new, Len(t) \in Nat, Len(old) \in Nat \ {0}
  PROVE  \E f : Scanned(f, t, old, new) /\ Substitute(t, old, new) = f[1]
<1> DEFINE f == CHOOSE g : g = [i \in 1..(Len(t) + 1) |->
                  IF i > Len(t) THEN <<>>
                  ELSE IF i + Len(old) - 1 <= Len(t) /\ SubSeq(t, i, i + Len(old) - 1) = old
                       THEN new \o g[i + Len(old)]
                  ELSE <<t[i]>> \o g[i + 1]]
<1>1. Substitute(t, old, new) = f[1]
  BY DEF Substitute
<1>2. \E g : g = [i \in 1..(Len(t) + 1) |->
                  IF i > Len(t) THEN <<>>
                  ELSE IF i + Len(old) - 1 <= Len(t) /\ SubSeq(t, i, i + Len(old) - 1) = old
                       THEN new \o g[i + Len(old)]
                  ELSE <<t[i]>> \o g[i + 1]]
  <2>1. \E g : Scans(g, t, old, new, 1)
    BY Zenon, ScanExists
  <2> QED
    BY <2>1 DEF Scans, Found
<1>3. f = [i \in 1..(Len(t) + 1) |->
                  IF i > Len(t) THEN <<>>
                  ELSE IF i + Len(old) - 1 <= Len(t) /\ SubSeq(t, i, i + Len(old) - 1) = old
                       THEN new \o f[i + Len(old)]
                  ELSE <<t[i]>> \o f[i + 1]]
  BY Zenon, <1>2
<1> HIDE DEF f
<1>4. Scans(f, t, old, new, 1)
  BY <1>3 DEF Scans, Found
<1>5. Scanned(f, t, old, new)
  <2>1. /\ Len(t) + 1 \in 1..(Len(t) + 1) /\ Len(t) + 1 > Len(t)
        /\ \A i \in 1..Len(t) : i \in 1..(Len(t) + 1) /\ ~(i > Len(t))
    OBVIOUS
  <2> QED
    BY <1>4, <2>1 DEF Scans, Scanned
<1> QED
  BY <1>1, <1>5

-----------------------------------------------------------------------------
(* What a replacement leaves of a text.                                    *)

At(t, v, a) == a + Len(v) - 1 <= Len(t) /\ \A k \in 1..Len(v) : t[a + k - 1] = v[k]
Inside(v, a, p) == a <= p /\ p < a + Len(v)

LEMMA FoundMeaning ==
  ASSUME NEW W, NEW t \in Seq(W), NEW v \in Seq(W), NEW a \in 1..Len(t), v # <<>>
  PROVE  Found(t, v, a) <=> At(t, v, a)
<1> DEFINE n == Len(t)
           m == Len(v)
<1>1. n \in Nat /\ m \in Nat \ {0} /\ a \in 1..n
  OBVIOUS
<1>2. ASSUME a + m - 1 <= n
      PROVE  SubSeq(t, a, a + m - 1) = v <=> \A k \in 1..m : t[a + k - 1] = v[k]
  <2> DEFINE s == SubSeq(t, a, a + m - 1)
  <2>1. s \in Seq(W) /\ Len(s) = m /\ \A k \in 1..m : s[k] = t[a + k - 1]
    BY <1>1, <1>2
  <2>2. s = v <=> \A k \in 1..m : s[k] = v[k]
    BY <2>1
  <2> QED
    BY <2>1, <2>2
<1> QED
  BY <1>1, <1>2 DEF Found, At

\* Two values that lie across each other in a text interlock.
LEMMA Across ==
  ASSUME NEW W, NEW t \in Seq(W), NEW v \in Seq(W), NEW w \in Seq(W),
         NEW a \in 1..Len(t), NEW b \in 1..Len(t), At(t, v, a), At(t, w, b),
         a < b, b < a + Len(v), a + Len(v) < b + Len(w)
  PROVE  Interlock(v, w)
<1> DEFINE n == a + Len(v) - b
<1>1. n \in 1..(Len(v) - 1) /\ n < Len(w) /\ Len(v) \in Nat /\ Len(w) \in Nat
  OBVIOUS
<1>2. ASSUME NEW k \in 1..n
      PROVE  v[Len(v) - n + k] = w[k]
  <2>1. Len(v) - n + k \in 1..Len(v) /\ k \in 1..Len(w)
    BY <1>1
  <2>2. a + (Len(v) - n + k) - 1 = b + k - 1
    BY <1>1
  <2> QED
    BY <2>1, <2>2 DEF At
<1> HIDE DEF n
<1>3. SubSeq(v, Len(v) - n + 1, Len(v)) = SubSeq(w, 1, n)
  <2> DEFINE x == SubSeq(v, Len(v) - n + 1, Len(v))
             y == SubSeq(w, 1, n)
  <2>1. x \in Seq(W) /\ Len(x) = n /\ \A k \in 1..n : x[k] = v[Len(v) - n + k]
    BY <1>1
  <2>2. y \in Seq(W) /\ Len(y) = n /\ \A k \in 1..n : y[k] = w[k]
    BY <1>1
  <2> QED
    BY SMTT(30), <1>2, <2>1, <2>2
<1> QED
  BY <1>1, <1>3 DEF Interlock

\* Of the values V that lie in t: they reach behind i, and are kept there.
Reaches(t, V, i, p) == \E v \in V, a \in 1..(i - 1) : At(t, v, a) /\ Inside(v, a, p)

Keeps(t, V, i, x) ==
  \A p \in i..Len(t) : Reaches(t, V, i, p) => p - i + 1 \in 1..Len(x) /\ x[p - i + 1] = t[p]

\* A word is one of G, in one of the values V, or in one that reaches behind i.
Held(x, V, p) == \E v \in V, a \in 1..p : At(x, v, a) /\ Inside(v, a, p)

Fine(t, V, G, i, x) ==
  \A p \in 1..Len(x) : x[p] \in G \/ Held(x, V, p) \/ Reaches(t, V, i, i + p - 1)

\* No occurrence of old reaches behind i.
Free(t, old, i) == \A a \in 1..(i - 1) : At(t, old, a) => a + Len(old) <= i

\* What is left of the words of t from i on.
Scan(W, t, V, G, old, i, x) ==
  x \in Seq(W) /\ Keeps(t, V, i, x) /\ (Free(t, old, i) => Fine(t, V, G, i, x))

Covers(t, G, V) == \A p \in 1..Len(t) : t[p] \in G \/ Held(t, V, p)

\* The values that are still to be replaced, and the one in hand.
Aligned(W, V, old) ==
  /\ old \in Seq(W) \ {<<>>}
  /\ V \subseteq Seq(W) \ {<<>>}
  /\ \A v \in V : Len(v) <= Len(old)
  /\ \A v, w \in V \cup {old} : ~Interlock(v, w)

\* Values stay where they are when a text grows at either end.
LEMMA AtShifts ==
  ASSUME NEW W, NEW x \in Seq(W), NEW y \in Seq(W), NEW v \in Seq(W)
  PROVE  /\ \A a \in Nat \ {0} : At(x, v, a) => At(x \o y, v, a)
         /\ \A a \in Nat \ {0} : At(y, v, a) => At(x \o y, v, a + Len(x))
<1> DEFINE z == x \o y
<1>1. /\ Len(x) \in Nat /\ Len(y) \in Nat /\ Len(v) \in Nat /\ Len(z) = Len(x) + Len(y)
      /\ \A k \in 1..Len(x) : z[k] = x[k]
      /\ \A k \in 1..Len(y) : z[Len(x) + k] = y[k]
  OBVIOUS
<1> HIDE DEF z
<1>2. ASSUME NEW a \in Nat \ {0}, At(x, v, a) PROVE At(z, v, a)
  <2>1. \A k \in 1..Len(v) : a + k - 1 \in 1..Len(x)
    BY <1>1, <1>2 DEF At
  <2> QED
    BY <1>1, <1>2, <2>1 DEF At
<1>3. ASSUME NEW a \in Nat \ {0}, At(y, v, a) PROVE At(z, v, a + Len(x))
  <2>1. \A k \in 1..Len(v) : a + k - 1 \in 1..Len(y) /\ a + Len(x) + k - 1 = Len(x) + (a + k - 1)
    BY <1>1, <1>3 DEF At
  <2>2. a + Len(x) + Len(v) - 1 <= Len(z)
    BY <1>1, <1>3 DEF At
  <2>3. ASSUME NEW k \in 1..Len(v) PROVE z[a + Len(x) + k - 1] = v[k]
    <3>1. z[a + Len(x) + k - 1] = y[a + k - 1]
      BY <1>1, <2>1
    <3> QED
      BY <1>3, <3>1 DEF At
  <2> QED
    BY <2>2, <2>3 DEF At
<1> QED
  BY <1>2, <1>3 DEF z

LEMMA HeldShifts ==
  ASSUME NEW W, NEW x \in Seq(W), NEW y \in Seq(W), NEW V, V \subseteq Seq(W)
  PROVE  /\ \A p \in 1..Len(x) : Held(x, V, p) => Held(x \o y, V, p)
         /\ \A p \in 1..Len(y) : Held(y, V, p) => Held(x \o y, V, Len(x) + p)
<1>1. ASSUME NEW p \in 1..Len(x), Held(x, V, p) PROVE Held(x \o y, V, p)
  <2>1. PICK v \in V, a \in 1..p : At(x, v, a) /\ Inside(v, a, p)
    BY <1>1 DEF Held
  <2>2. At(x \o y, v, a)
    BY <2>1, AtShifts
  <2> QED
    BY <2>1, <2>2 DEF Held
<1>2. ASSUME NEW p \in 1..Len(y), Held(y, V, p) PROVE Held(x \o y, V, Len(x) + p)
  <2>1. PICK v \in V, a \in 1..p : At(y, v, a) /\ Inside(v, a, p)
    BY <1>2 DEF Held
  <2>2. At(x \o y, v, a + Len(x))
    BY <2>1, AtShifts
  <2>3. Len(x) \in Nat /\ Len(v) \in Nat /\ a \in Nat
    OBVIOUS
  <2>4. Inside(v, a + Len(x), Len(x) + p) /\ a + Len(x) \in 1..(Len(x) + p)
    BY <2>1, <2>3 DEF Inside
  <2> QED
    BY <2>2, <2>4 DEF Held
<1> QED
  BY <1>1, <1>2

\* No value reaches into or behind what is found, but for old itself.
LEMMA Matched ==
  ASSUME NEW W, NEW t \in Seq(W), NEW V, NEW old, Aligned(W, V, old),
         NEW i \in 1..Len(t), At(t, old, i)
  PROVE  /\ \A p \in i..Len(t) : ~Reaches(t, V, i, p)
         /\ \A p \in (i + Len(old))..Len(t) : ~Reaches(t, V, i + Len(old), p)
         /\ Free(t, old, i + Len(old))
<1> DEFINE j == i + Len(old)
<1>1. /\ old \in Seq(W) /\ Len(old) \in Nat \ {0} /\ Len(t) \in Nat
      /\ \A v \in V : v \in Seq(W) /\ Len(v) \in Nat \ {0} /\ Len(v) <= Len(old)
      /\ \A v, w \in V \cup {old} : ~Interlock(v, w)
  BY DEF Aligned
<1>2. ASSUME NEW v \in V, NEW a \in 1..(i - 1), At(t, v, a) PROVE a + Len(v) <= i
  <2>1. a \in 1..Len(t) /\ a < i /\ v \in Seq(W) /\ Len(v) \in Nat \ {0} /\ Len(v) <= Len(old)
    BY <1>1
  <2>2. ~(i < a + Len(v) /\ a + Len(v) < i + Len(old))
    BY <1>1, <1>2, <2>1, Across
  <2> QED
    BY <1>1, <2>1, <2>2
<1>3. ASSUME NEW v \in V \cup {old}, NEW a \in 1..(j - 1), At(t, v, a) PROVE a + Len(v) <= j
  <2>1. v \in Seq(W) /\ Len(v) \in Nat \ {0} /\ Len(v) <= Len(old) /\ a \in Nat
    BY <1>1
  <2>2. CASE a > i
    <3>1. a \in 1..Len(t) /\ a < i + Len(old)
      BY <1>1, <1>3, <2>1 DEF At
    <3>2. ~(i + Len(old) < a + Len(v))
      BY <1>1, <1>3, <2>1, <2>2, <3>1, Across
    <3> QED
      BY <1>1, <2>1, <3>2
  <2>3. CASE a <= i
    BY <1>1, <2>1, <2>3
  <2> QED
    BY <2>2, <2>3, <2>1
<1>4. Free(t, old, j)
  BY <1>3 DEF Free
<1>5. \A p \in i..Len(t) : ~Reaches(t, V, i, p)
  <2> SUFFICES ASSUME NEW p \in i..Len(t), NEW v \in V, NEW a \in 1..(i - 1), At(t, v, a), Inside(v, a, p)
               PROVE  FALSE
    BY DEF Reaches
  <2> QED
    BY <1>1, <1>2 DEF Inside
<1>6. \A p \in j..Len(t) : ~Reaches(t, V, j, p)
  <2> SUFFICES ASSUME NEW p \in j..Len(t), NEW v \in V, NEW a \in 1..(j - 1), At(t, v, a), Inside(v, a, p)
               PROVE  FALSE
    BY DEF Reaches
  <2> QED
    BY <1>1, <1>3 DEF Inside
<1> QED
  BY <1>4, <1>5, <1>6

\* A replacement made at i.
LEMMA ScanMatch ==
  ASSUME NEW W, NEW t \in Seq(W), NEW V, NEW G, NEW old, Aligned(W, V, old),
         NEW new \in Seq(W), \A k \in 1..Len(new) : new[k] \in G,
         NEW i \in 1..Len(t), At(t, old, i),
         NEW x, Scan(W, t, V, G, old, i + Len(old), x)
  PROVE  Scan(W, t, V, G, old, i, new \o x)
<1> DEFINE j == i + Len(old)
           z == new \o x
<1>1. /\ \A p \in i..Len(t) : ~Reaches(t, V, i, p)
      /\ \A p \in j..Len(t) : ~Reaches(t, V, j, p)
      /\ Free(t, old, j)
  BY Matched
<1>2. x \in Seq(W) /\ z \in Seq(W) /\ Len(z) = Len(new) + Len(x) /\ V \subseteq Seq(W)
  BY DEF Scan, Aligned
<1>3. Keeps(t, V, i, z)
  BY <1>1 DEF Keeps
<1>4. ASSUME NEW p \in 1..Len(z) PROVE z[p] \in G \/ Held(z, V, p)
  <2>1. CASE p \in 1..Len(new)
    <3>1. z[p] = new[p]
      BY <1>2, <2>1
    <3> QED
      BY <2>1, <3>1
  <2>2. CASE p \notin 1..Len(new)
    <3> DEFINE q == p - Len(new)
    <3>1. q \in 1..Len(x) /\ p = Len(new) + q
      BY <1>2, <2>2
    <3>2. z[p] = x[q]
      BY <1>2, <3>1
    <3>3. x[q] \in G \/ Held(x, V, q) \/ Reaches(t, V, j, j + q - 1)
      BY <1>1, <3>1 DEF Scan, Fine
    <3>4. ~Reaches(t, V, j, j + q - 1)
      <4> SUFFICES ASSUME NEW v \in V, NEW a \in 1..(j - 1), At(t, v, a), Inside(v, a, j + q - 1)
                   PROVE  FALSE
        BY DEF Reaches
      <4>1. Len(v) \in Nat /\ Len(t) \in Nat /\ Len(old) \in Nat \ {0}
        BY <1>2 DEF Aligned
      <4>2. j + q - 1 \in j..Len(t)
        BY <3>1, <4>1 DEF At, Inside
      <4>3. Reaches(t, V, j, j + q - 1)
        BY DEF Reaches
      <4> QED
        BY <1>1, <4>2, <4>3
    <3>5. Held(x, V, q) => Held(z, V, p)
      BY <1>2, <3>1, HeldShifts
    <3> QED
      BY <3>2, <3>3, <3>4, <3>5
  <2> QED
    BY <2>1, <2>2
<1>5. Fine(t, V, G, i, z)
  BY <1>4 DEF Fine
<1> QED
  BY <1>2, <1>3, <1>5 DEF Scan

\* A word of t is taken over at i.
LEMMA ScanMiss ==
  ASSUME NEW W, NEW t \in Seq(W), NEW V, NEW G, NEW old, Aligned(W, V, old),
         Covers(t, G, V \cup {old}),
         NEW i \in 1..Len(t), ~At(t, old, i),
         NEW x, Scan(W, t, V, G, old, i + 1, x)
  PROVE  Scan(W, t, V, G, old, i, <<t[i]>> \o x)
<1> DEFINE z == <<t[i]>> \o x
<1>1. x \in Seq(W) /\ V \subseteq Seq(W) /\ old \in Seq(W) /\ Len(t) \in Nat /\ t[i] \in W
  BY DEF Scan, Aligned
<1>2. /\ z \in Seq(W) /\ Len(z) = Len(x) + 1 /\ Len(x) \in Nat /\ z[1] = t[i]
      /\ \A q \in 1..Len(x) : z[1 + q] = x[q]
  BY <1>1
<1>3. <<t[i]>> \in Seq(W) /\ Len(<<t[i]>>) = 1
  BY <1>1
<1>4. \A q \in 1..Len(x) : Held(x, V, q) => Held(z, V, 1 + q)
  BY <1>1, <1>3, HeldShifts
<1> HIDE DEF z
<1>5. \A p \in (i + 1)..Len(t) : Reaches(t, V, i + 1, p) => p - i \in 1..Len(x) /\ z[p - i + 1] = t[p]
  <2> SUFFICES ASSUME NEW p \in (i + 1)..Len(t), Reaches(t, V, i + 1, p)
               PROVE  p - i \in 1..Len(x) /\ z[p - i + 1] = t[p]
    OBVIOUS
  <2>1. p - (i + 1) + 1 = p - i /\ 1 + (p - i) = p - i + 1
    OBVIOUS
  <2>2. p - (i + 1) + 1 \in 1..Len(x) /\ x[p - (i + 1) + 1] = t[p]
    BY DEF Scan, Keeps
  <2>3. p - i \in 1..Len(x) /\ x[p - i] = t[p]
    BY <2>1, <2>2
  <2> QED
    BY <1>2, <2>1, <2>3
<1>6. Keeps(t, V, i, z)
  <2> SUFFICES ASSUME NEW p \in i..Len(t), Reaches(t, V, i, p)
               PROVE  p - i + 1 \in 1..Len(z) /\ z[p - i + 1] = t[p]
    BY DEF Keeps
  <2>1. CASE p = i
    BY <1>2, <2>1
  <2>2. CASE p # i
    <3>1. p \in (i + 1)..Len(t) /\ Reaches(t, V, i + 1, p)
      BY <1>1, <2>2 DEF Reaches
    <3>2. p - i \in 1..Len(x) /\ z[p - i + 1] = t[p]
      BY <1>5, <3>1
    <3> QED
      BY <1>2, <3>2
  <2> QED
    BY <2>1, <2>2
<1>7. ASSUME NEW v \in V, At(t, v, i) PROVE At(z, v, 1)
  <2>1. Len(v) \in Nat \ {0} /\ i + Len(v) - 1 <= Len(t)
    BY <1>1, <1>7 DEF At, Aligned
  <2>2. ASSUME NEW k \in 1..Len(v) PROVE 1 + k - 1 \in 1..Len(z) /\ z[1 + k - 1] = v[k]
    <3>1. v[k] = t[i + k - 1] /\ 1 + k - 1 = k
      BY <1>7, <2>1 DEF At
    <3>2. CASE k = 1
      BY <1>2, <3>1, <3>2
    <3>3. CASE k # 1
      <4> DEFINE p == i + k - 1
      <4>1. p \in (i + 1)..Len(t) /\ p - i + 1 = k /\ i \in 1..(i + 1 - 1)
        BY <1>1, <2>1, <3>3
      <4>2. Inside(v, i, p)
        BY <2>1, <3>3 DEF Inside
      <4>3. Reaches(t, V, i + 1, p)
        BY <1>7, <4>1, <4>2 DEF Reaches
      <4>4. p - i \in 1..Len(x) /\ z[p - i + 1] = t[p]
        BY <1>5, <4>1, <4>3
      <4> QED
        BY <1>2, <3>1, <4>1, <4>4
    <3> QED
      BY <3>2, <3>3
  <2>3. 1 + Len(v) - 1 \in 1..Len(z)
    <3>1. Len(v) \in 1..Len(v)
      BY <2>1
    <3> QED
      BY <2>2, <3>1
  <2> QED
    BY <1>2, <2>2, <2>3 DEF At
<1>8. ASSUME Free(t, old, i), NEW p \in 1..Len(z)
      PROVE  z[p] \in G \/ Held(z, V, p) \/ Reaches(t, V, i, i + p - 1)
  <2>1. Free(t, old, i + 1)
    <3> SUFFICES ASSUME NEW a \in 1..(i + 1 - 1), At(t, old, a) PROVE a + Len(old) <= i + 1
      BY DEF Free
    <3>1. a # i /\ a \in 1..(i - 1) /\ Len(old) \in Nat
      BY <1>1
    <3>2. a + Len(old) <= i
      BY <1>8, <3>1 DEF Free
    <3> QED
      BY <3>1, <3>2
  <2>2. ASSUME NEW v \in V, NEW a \in 1..i, At(t, v, a), Inside(v, a, i + p - 1)
        PROVE  Held(z, V, p) \/ Reaches(t, V, i, i + p - 1)
    <3>1. CASE a = i
      <4>1. At(z, v, 1)
        BY <1>7, <2>2, <3>1
      <4>2. Len(v) \in Nat /\ 1 \in 1..p
        BY <1>1
      <4>3. Inside(v, 1, p)
        BY <2>2, <3>1, <4>2 DEF Inside
      <4> QED
        BY <4>1, <4>2, <4>3 DEF Held
    <3>2. CASE a # i
      <4>1. a \in 1..(i - 1)
        BY <3>2
      <4> QED
        BY <2>2, <4>1 DEF Reaches
    <3> QED
      BY <3>1, <3>2
  <2>3. CASE p = 1
    <3>1. i + p - 1 = i /\ z[p] = t[i]
      BY <1>2, <2>3
    <3>2. t[i] \in G \/ Held(t, V \cup {old}, i)
      BY DEF Covers
    <3>3. ASSUME Held(t, V \cup {old}, i)
          PROVE  \E v \in V, a \in 1..i : At(t, v, a) /\ Inside(v, a, i)
      <4>1. PICK v \in V \cup {old}, a \in 1..i : At(t, v, a) /\ Inside(v, a, i)
        BY <3>3 DEF Held
      <4>2. v # old
        <5>1. ASSUME v = old PROVE FALSE
          <6>1. a # i /\ a \in 1..(i - 1) /\ Len(old) \in Nat
            BY <1>1, <4>1, <5>1
          <6>2. a + Len(old) <= i
            BY <1>8, <4>1, <5>1, <6>1 DEF Free
          <6> QED
            BY <4>1, <5>1, <6>1, <6>2 DEF Inside
        <5> QED
          BY <5>1
      <4> QED
        BY <4>1, <4>2
    <3> QED
      BY <2>2, <3>1, <3>2, <3>3
  <2>4. CASE p # 1
    <3> DEFINE q == p - 1
    <3>1. q \in 1..Len(x) /\ p = 1 + q /\ i + 1 + q - 1 = i + p - 1 /\ i + 1 - 1 = i
      BY <1>2, <2>4
    <3>2. z[p] = x[q]
      BY <1>2, <3>1
    <3>3. x[q] \in G \/ Held(x, V, q) \/ Reaches(t, V, i + 1, i + 1 + q - 1)
      BY <2>1, <3>1 DEF Scan, Fine
    <3>4. Reaches(t, V, i + 1, i + 1 + q - 1) => Held(z, V, p) \/ Reaches(t, V, i, i + p - 1)
      <4>1. Reaches(t, V, i + 1, i + 1 + q - 1) =>
              \E v \in V, a \in 1..i : At(t, v, a) /\ Inside(v, a, i + p - 1)
        BY <3>1 DEF Reaches
      <4> QED
        BY <2>2, <4>1
    <3>5. Held(x, V, q) => Held(z, V, p)
      BY <1>4, <3>1
    <3> QED
      BY <3>2, <3>3, <3>4, <3>5
  <2> QED
    BY <2>3, <2>4
<1>9. Free(t, old, i) => Fine(t, V, G, i, z)
  BY <1>8 DEF Fine
<1> QED
  BY <1>2, <1>6, <1>9 DEF Scan, z

Within(t, G) == \A p \in 1..Len(t) : t[p] \in G

\* When old has given way to new, the values that are left still cover all
\* words of the text that are not in G.
LEMMA SubstituteCovers ==
  ASSUME NEW W, NEW t \in Seq(W), NEW V, NEW G, NEW old, Aligned(W, V, old),
         NEW new \in Seq(W), Within(new, G), Covers(t, G, V \cup {old})
  PROVE  Substitute(t, old, new) \in Seq(W) /\ Covers(Substitute(t, old, new), G, V)
<1> DEFINE L == Len(t)
<1>1. old \in Seq(W) \ {<<>>} /\ Len(old) \in Nat \ {0} /\ L \in Nat
  BY DEF Aligned
<1>2. PICK f : Scanned(f, t, old, new) /\ Substitute(t, old, new) = f[1]
  BY <1>1, SubstituteIs
<1> DEFINE P(i) == Scan(W, t, V, G, old, i, f[i])
           T == {m \in Nat : m <= L => \A i \in (L + 1 - m)..(L + 1) : P(i)}
<1>3. P(L + 1)
  <2>1. f[L + 1] = <<>> /\ <<>> \in Seq(W) /\ Len(<<>>) = 0
    BY <1>2 DEF Scanned
  <2>2. Keeps(t, V, L + 1, <<>>) /\ Fine(t, V, G, L + 1, <<>>)
    BY <1>1, <2>1 DEF Keeps, Fine
  <2> QED
    BY <2>1, <2>2 DEF Scan
<1>4. 0 \in T
  BY <1>1, <1>3
<1>5. ASSUME NEW m \in T PROVE m + 1 \in T
  <2>1. m \in Nat
    OBVIOUS
  <2>2. SUFFICES ASSUME m + 1 <= L PROVE \A i \in (L + 1 - (m + 1))..(L + 1) : P(i)
    BY <2>1
  <2>3. \A i \in (L + 1 - m)..(L + 1) : P(i)
    BY <1>1, <2>1, <2>2
  <2> DEFINE i == L - m
  <2>4. i \in 1..L /\ i + 1 \in (L + 1 - m)..(L + 1) /\ L + 1 - (m + 1) = i /\ L + 1 - m = i + 1
    BY <1>1, <2>1, <2>2
  <2> HIDE DEF i, P
  <2>5. P(i)
    <3>1. f[i] = IF Found(t, old, i) THEN new \o f[i + Len(old)] ELSE <<t[i]>> \o f[i + 1]
      BY <1>2, <2>4 DEF Scanned
    <3>2. Found(t, old, i) <=> At(t, old, i)
      BY <1>1, <2>4, FoundMeaning
    <3>3. CASE At(t, old, i)
      <4>1. i + Len(old) \in (L + 1 - m)..(L + 1)
        BY <1>1, <2>1, <2>4, <3>3 DEF At
      <4>2. P(i + Len(old))
        BY <2>3, <4>1
      <4> QED
        BY <2>4, <3>1, <3>2, <3>3, <4>2, ScanMatch DEF P, Within
    <3>4. CASE ~At(t, old, i)
      <4>1. P(i + 1)
        BY <2>3, <2>4
      <4> QED
        BY <2>4, <3>1, <3>2, <3>4, <4>1, ScanMiss DEF P
    <3> QED
      BY <3>3, <3>4
  <2>6. \A k \in i..(L + 1) : k = i \/ k \in (i + 1)..(L + 1)
    BY <1>1, <2>4
  <2> QED
    BY <2>3, <2>4, <2>5, <2>6
<1> HIDE DEF T, P
<1>6. T = Nat
  BY <1>4, <1>5, Induction DEF T
<1>7. P(1)
  <2>1. L \in T /\ 1 \in (L + 1 - L)..(L + 1)
    BY <1>1, <1>6
  <2> QED
    BY <1>1, <2>1 DEF T
<1>8. f[1] \in Seq(W) /\ Fine(t, V, G, 1, f[1])
  BY <1>7 DEF P, Scan, Free
<1>9. Covers(f[1], G, V)
  BY <1>8 DEF Fine, Covers, Reaches
<1> QED
  BY <1>2, <1>8, <1>9

\* The values of a text cover it.
LEMMA FlattenCovers ==
  ASSUME NEW W, NEW V, V \subseteq Seq(W), NEW q \in Seq(V)
  PROVE  /\ FlattenSeq(q) \in Seq(W)
         /\ Covers(FlattenSeq(q), {}, {q[i] : i \in 1..Len(q)})
<1> DEFINE R == {q[i] : i \in 1..Len(q)}
<1>1. Len(q) \in Nat /\ R \subseteq Seq(W) /\ \A i \in 1..Len(q) : q[i] \in Seq(W) /\ q[i] \in R
  <2>1. Len(q) \in Nat /\ \A i \in 1..Len(q) : q[i] \in V
    OBVIOUS
  <2> QED
    BY <2>1
<1>2. CASE q = <<>>
  <2>1. FlattenSeq(q) = <<>>
    BY <1>2 DEF FlattenSeq
  <2> QED
    BY <2>1 DEF Covers
<1>3. CASE q # <<>>
  <2>1. PICK g : /\ \A i \in 1..Len(q) : g[i] = IF i = 1 THEN q[i] ELSE g[i - 1] \o q[i]
                 /\ FlattenSeq(q) = g[Len(q)]
    BY <1>3, FlattenIs
  <2> HIDE DEF R
  <2> DEFINE P(i) == g[i] \in Seq(W) /\ \A p \in 1..Len(g[i]) : Held(g[i], R, p)
             T == {i \in Nat : i \in 1..Len(q) => P(i)}
  <2>2. ASSUME NEW i \in 1..Len(q) PROVE \A p \in 1..Len(q[i]) : Held(q[i], R, p)
    <3> SUFFICES ASSUME NEW p \in 1..Len(q[i]) PROVE Held(q[i], R, p)
      OBVIOUS
    <3> DEFINE v == q[i]
    <3>1. v \in Seq(W) /\ v \in R /\ Len(v) \in Nat
      BY <1>1
    <3>2. At(v, v, 1) /\ Inside(v, 1, p) /\ 1 \in 1..p
      BY <3>1 DEF At, Inside
    <3> QED
      BY <3>1, <3>2 DEF Held
  <2>3. 0 \in T
    OBVIOUS
  <2>4. ASSUME NEW i \in T PROVE i + 1 \in T
    <3>1. SUFFICES ASSUME i + 1 \in 1..Len(q) PROVE P(i + 1)
      OBVIOUS
    <3> HIDE DEF P
    <3>2. CASE i = 0
      BY <1>1, <2>1, <2>2, <3>1, <3>2 DEF P
    <3>3. CASE i # 0
      <4>1. i \in 1..Len(q) /\ i + 1 # 1 /\ i + 1 - 1 = i
        BY <1>1, <3>1, <3>3
      <4>2. P(i)
        BY <4>1
      <4>3. g[i + 1] = g[i] \o q[i + 1]
        <5> DEFINE j == i + 1
        <5>1. \A k \in 1..Len(q) : k # 1 => g[k] = g[k - 1] \o q[k]
          BY <2>1
        <5>2. j \in 1..Len(q) /\ j # 1 /\ j - 1 = i
          BY <3>1, <4>1
        <5> HIDE DEF j
        <5>3. g[j] = g[j - 1] \o q[j]
          BY <5>1, <5>2, Zenon
        <5>4. g[j] = g[i] \o q[j]
          BY <5>2, <5>3, Zenon
        <5> QED
          BY <5>4 DEF j
      <4> DEFINE x == g[i]
                 y == q[i + 1]
      <4>4. x \in Seq(W) /\ y \in Seq(W) /\ \A p \in 1..Len(x) : Held(x, R, p)
        BY <1>1, <3>1, <4>2 DEF P
      <4>5. \A p \in 1..Len(y) : Held(y, R, p)
        BY <2>2, <3>1
      <4> HIDE DEF x, y
      <4>6. /\ \A p \in 1..Len(x) : Held(x \o y, R, p)
            /\ \A p \in 1..Len(y) : Held(x \o y, R, Len(x) + p)
        BY <1>1, <4>4, <4>5, HeldShifts
      <4>7. \A p \in 1..Len(x \o y) : p \in 1..Len(x) \/ (p - Len(x) \in 1..Len(y) /\ Len(x) + (p - Len(x)) = p)
        BY <4>4
      <4>8. \A p \in 1..Len(x \o y) : Held(x \o y, R, p)
        BY <4>6, <4>7
      <4>9. x \o y \in Seq(W)
        BY <4>4
      <4> QED
        BY <4>3, <4>8, <4>9 DEF P, x, y
    <3> QED
      BY <3>2, <3>3
  <2> HIDE DEF T, P
  <2>5. T = Nat
    BY <2>3, <2>4, Induction DEF T
  <2>6. P(Len(q))
    <3>1. Len(q) \in 1..Len(q)
      BY <1>1, <1>3
    <3> QED
      BY <1>1, <2>5, <3>1 DEF T
  <2> QED
    BY <2>1, <2>6 DEF P, Covers, R
<1> QED
  BY <1>2, <1>3

LEMMA SubstituteWords ==
  ASSUME NEW W, NEW t \in Seq(W), NEW old, Len(old) \in Nat \ {0}, NEW new \in Seq(W)
  PROVE  Substitute(t, old, new) \in Seq(W)
<1> DEFINE L == Len(t)
<1>1. Len(old) \in Nat \ {0} /\ L \in Nat
  OBVIOUS
<1>2. PICK f : Scanned(f, t, old, new) /\ Substitute(t, old, new) = f[1]
  BY <1>1, SubstituteIs
<1> DEFINE T == {m \in Nat : m <= L => \A i \in (L + 1 - m)..(L + 1) : f[i] \in Seq(W)}
<1>3. 0 \in T
  <2>1. f[L + 1] = <<>>
    BY <1>2 DEF Scanned
  <2>2. \A i \in (L + 1 - 0)..(L + 1) : i = L + 1
    BY <1>1
  <2>3. <<>> \in Seq(W)
    OBVIOUS
  <2> QED
    BY <2>1, <2>2, <2>3
<1>4. ASSUME NEW m \in T PROVE m + 1 \in T
  <2>1. m \in Nat
    OBVIOUS
  <2>2. SUFFICES ASSUME m + 1 <= L PROVE \A i \in (L + 1 - (m + 1))..(L + 1) : f[i] \in Seq(W)
    BY <2>1
  <2>3. \A i \in (L + 1 - m)..(L + 1) : f[i] \in Seq(W)
    BY <1>1, <2>1, <2>2
  <2> DEFINE i == L - m
  <2>4. /\ i \in 1..L /\ i + 1 \in (L + 1 - m)..(L + 1)
        /\ L + 1 - (m + 1) = i /\ L + 1 - m = i + 1 /\ t[i] \in W
    BY <1>1, <2>1, <2>2
  <2> HIDE DEF i
  <2>5. f[i] = IF Found(t, old, i) THEN new \o f[i + Len(old)] ELSE <<t[i]>> \o f[i + 1]
    BY <1>2, <2>4 DEF Scanned
  <2>6. Found(t, old, i) => i + Len(old) \in (L + 1 - m)..(L + 1)
    BY <1>1, <2>1, <2>4 DEF Found
  <2>7. f[i] \in Seq(W)
    <3>1. <<t[i]>> \in Seq(W) /\ f[i + 1] \in Seq(W) /\ (Found(t, old, i) => f[i + Len(old)] \in Seq(W))
      BY <2>3, <2>4, <2>6
    <3> QED
      BY <2>5, <3>1
  <2>8. \A k \in i..(L + 1) : k = i \/ k \in (i + 1)..(L + 1)
    BY <1>1, <2>4
  <2> QED
    BY <2>3, <2>4, <2>7, <2>8
<1> HIDE DEF T
<1>5. T = Nat
  BY <1>3, <1>4, Induction DEF T
<1>6. L \in T /\ 1 \in (L + 1 - L)..(L + 1)
  BY <1>1, <1>5
<1> QED
  BY <1>1, <1>2, <1>6 DEF T

LEMMA SubstituteType ==
  ASSUME NEW W, NEW t \in Seq(W), NEW old \in Seq(W) \ {<<>>}, NEW new \in Seq(W)
  PROVE  Substitute(t, old, new) \in Seq(W)
<1>1. Len(old) \in Nat \ {0}
  OBVIOUS
<1> QED
  BY <1>1, SubstituteWords

Pairs(s, r) == [i \in 1..Len(r) |-> [original |-> s[i], fake |-> r[i]]]

Steps(f, t, s, r) ==
  /\ f[0] = t
  /\ \A i \in 1..Len(r) : f[i] = Substitute(f[i - 1], s[i], r[i])
  /\ Pseudonymize(t, Pairs(s, r)) = f[Len(r)]

\* The texts between the first and the last replacement.
LEMMA PseudonymizeSteps ==
  ASSUME NEW W, NEW s, NEW r \in Seq(Seq(W)), NEW t
  PROVE  \E f : Steps(f, t, s, r)
<1> DEFINE m == Pairs(s, r)
           S == {m[i] : i \in 1..Len(r)}
<1>1. Len(r) \in Nat
  OBVIOUS
<1>2. m \in Seq(S) /\ Len(m) = Len(r)
  <2>1. m \in [1..Len(r) -> S]
    BY DEF Pairs
  <2> HIDE DEF m, S
  <2> QED
    BY <1>1, <2>1
<1>3. PICK f : /\ Folded(f, t, [i \in 1..Len(m) |-> m[i].original], [i \in 1..Len(m) |-> m[i].fake], Len(m))
               /\ Pseudonymize(t, m) = f[Len(m)]
  BY <1>2, PseudonymizeIs
<1>4. \A i \in 1..Len(r) : m[i].original = s[i] /\ m[i].fake = r[i]
  BY DEF Pairs
<1> HIDE DEF m
<1>5. f[0] = t /\ \A i \in 1..Len(r) : f[i] = Substitute(f[i - 1], s[i], r[i])
  BY <1>2, <1>3, <1>4 DEF Folded
<1> QED
  BY <1>2, <1>3, <1>5 DEF m, Steps

LEMMA PseudonymizeType ==
  ASSUME NEW W, NEW t \in Seq(W), NEW s \in Seq(Seq(W) \ {<<>>}), NEW r \in Seq(Seq(W)),
         Len(r) <= Len(s)
  PROVE  Pseudonymize(t, Pairs(s, r)) \in Seq(W)
<1>1. Len(r) \in Nat /\ Len(s) \in Nat /\ \A i \in 1..Len(r) : s[i] \in Seq(W) \ {<<>>} /\ r[i] \in Seq(W)
  <2>1. Len(r) \in Nat /\ Len(s) \in Nat
    OBVIOUS
  <2>2. \A i \in 1..Len(r) : i \in 1..Len(s)
    BY <2>1
  <2> QED
    BY <2>1, <2>2
<1>2. PICK f : Steps(f, t, s, r)
  BY PseudonymizeSteps, Zenon
<1> DEFINE T == {k \in Nat : k <= Len(r) => f[k] \in Seq(W)}
<1>3. 0 \in T
  BY <1>2 DEF Steps
<1>4. ASSUME NEW k \in T PROVE k + 1 \in T
  <2>1. SUFFICES ASSUME k + 1 <= Len(r) PROVE f[k + 1] \in Seq(W)
    OBVIOUS
  <2>2. k + 1 \in 1..Len(r) /\ k + 1 - 1 = k /\ k <= Len(r)
    BY <1>1, <2>1
  <2>3. f[k] \in Seq(W)
    BY <2>2
  <2>4. f[k + 1] = Substitute(f[k], s[k + 1], r[k + 1])
    BY <1>2, <2>2 DEF Steps
  <2>5. s[k + 1] \in Seq(W) \ {<<>>} /\ r[k + 1] \in Seq(W)
    BY <1>1, <2>2
  <2> QED
    BY <2>3, <2>4, <2>5, SubstituteType
<1> HIDE DEF T
<1>5. T = Nat
  BY <1>3, <1>4, Induction DEF T
<1> QED
  BY <1>1, <1>2, <1>5 DEF T, Steps

\* What Pseudonymize needs of the spans s of a text q and of the pseudonyms r,
\* and what it achieves.
Hideable(W, V, q, s, r) ==
  /\ V \subseteq Seq(W) \ {<<>>}
  /\ q \in Seq(V) /\ s \in Seq(V) /\ r \in Seq(Seq(W)) /\ Len(r) = Len(s)
  /\ \A i, j \in 1..Len(s) : i < j => Len(s[i]) >= Len(s[j])
  /\ \A i, j \in 1..Len(s) : ~Interlock(s[i], s[j])

Hidden(t, q, s, r) ==
  \A p \in 1..Len(t) :
    t[p] \in WordsOf({q[i] : i \in 1..Len(q)} \ {s[i] : i \in 1..Len(s)})
              \cup WordsOf({r[i] : i \in 1..Len(r)})

\* Every word of what leaves is a word of a pseudonym or of a value that was
\* not replaced.
LEMMA PseudonymizeHides ==
  ASSUME NEW W, NEW V, NEW q, NEW s, NEW r, Hideable(W, V, q, s, r)
  PROVE  Hidden(Pseudonymize(FlattenSeq(q), Pairs(s, r)), q, s, r)
<1> SUFFICES ASSUME V \subseteq Seq(W) \ {<<>>},
                    q \in Seq(V), s \in Seq(V), r \in Seq(Seq(W)), Len(r) = Len(s),
                    \A i, j \in 1..Len(s) : i < j => Len(s[i]) >= Len(s[j]),
                    \A i, j \in 1..Len(s) : ~Interlock(s[i], s[j])
             PROVE  \A p \in 1..Len(Pseudonymize(FlattenSeq(q), Pairs(s, r))) :
                      Pseudonymize(FlattenSeq(q), Pairs(s, r))[p]
                        \in WordsOf({q[i] : i \in 1..Len(q)} \ {s[i] : i \in 1..Len(s)})
                              \cup WordsOf({r[i] : i \in 1..Len(r)})
  BY DEF Hideable, Hidden
<1> DEFINE t == FlattenSeq(q)
           R == {q[i] : i \in 1..Len(q)}
           S(k) == {s[i] : i \in (k + 1)..Len(s)}
           G == WordsOf(R \ S(0)) \cup WordsOf({r[i] : i \in 1..Len(r)})
           n == Len(s)
<1>1. n \in Nat /\ \A i \in 1..n : s[i] \in V /\ s[i] \in Seq(W) \ {<<>>} /\ r[i] \in Seq(W) /\ Len(s[i]) \in Nat
  OBVIOUS
<1>2. PICK f : Steps(f, t, s, r)
  BY PseudonymizeSteps, Zenon
<1>3. t \in Seq(W) /\ Covers(t, {}, R)
  <2>1. V \subseteq Seq(W)
    OBVIOUS
  <2> QED
    BY <2>1, FlattenCovers
<1>4. Covers(t, G, S(0))
  <2> SUFFICES ASSUME NEW p \in 1..Len(t), ~Held(t, S(0), p) PROVE t[p] \in G
    BY DEF Covers
  <2>1. PICK v \in R, a \in 1..p : At(t, v, a) /\ Inside(v, a, p)
    BY <1>3 DEF Covers, Held
  <2>2. v \in R \ S(0)
    BY <2>1 DEF Held
  <2>3. v \in Seq(W) /\ Len(v) \in Nat
    OBVIOUS
  <2>4. p - a + 1 \in 1..Len(v) /\ a + (p - a + 1) - 1 = p
    BY <2>1, <2>3 DEF Inside
  <2>5. t[p] = v[p - a + 1]
    BY <2>1, <2>4 DEF At
  <2>6. t[p] \in Range(v)
    BY <2>3, <2>4, <2>5 DEF Range
  <2> QED
    BY <2>2, <2>6 DEF WordsOf
<1>5. \A k \in 1..n : \A i \in 1..Len(r[k]) : r[k][i] \in G
  <2> SUFFICES ASSUME NEW k \in 1..n, NEW i \in 1..Len(r[k]) PROVE r[k][i] \in G
    OBVIOUS
  <2>1. r[k][i] \in Range(r[k])
    BY <1>1 DEF Range
  <2> QED
    BY <2>1 DEF WordsOf
<1> HIDE DEF t, G
<1> DEFINE P(k) == f[k] \in Seq(W) /\ Covers(f[k], G, S(k))
           T == {k \in Nat : k <= n => P(k)}
<1>6. 0 \in T
  BY <1>2, <1>3, <1>4 DEF Steps
<1>7. ASSUME NEW k \in T PROVE k + 1 \in T
  <2>1. SUFFICES ASSUME k + 1 <= n PROVE P(k + 1)
    OBVIOUS
  <2>2. k + 1 \in 1..n /\ k + 1 - 1 = k /\ k <= n
    BY <1>1, <2>1
  <2>3. P(k)
    BY <2>2
  <2> HIDE DEF P
  <2> DEFINE old == s[k + 1]
             new == r[k + 1]
             rest == S(k + 1)
  <2>4. S(k) = rest \cup {old}
    <3>1. (k + 1)..Len(s) = ((k + 1 + 1)..Len(s)) \cup {k + 1}
      BY <2>2
    <3> QED
      BY <3>1
  <2>5. \A v \in rest : \E i \in (k + 2)..n : v = s[i] /\ i \in 1..n /\ k + 1 < i
    BY <2>2
  <2>6. Aligned(W, rest, old)
    <3>1. old \in Seq(W) \ {<<>>} /\ rest \subseteq Seq(W) \ {<<>>}
      BY <1>1, <2>2, <2>5
    <3>2. \A v \in rest : Len(v) <= Len(old)
      BY <1>1, <2>2, <2>5
    <3>3. \A v \in rest \cup {old} : \E i \in 1..n : v = s[i]
      BY <2>2, <2>5
    <3>4. \A v, w \in rest \cup {old} : ~Interlock(v, w)
      <4> SUFFICES ASSUME NEW v \in rest \cup {old}, NEW w \in rest \cup {old}
                   PROVE  ~Interlock(v, w)
        OBVIOUS
      <4>1. PICK i \in 1..n, j \in 1..n : v = s[i] /\ w = s[j]
        BY <3>3
      <4> QED
        BY <4>1
    <3> QED
      BY <3>1, <3>2, <3>4 DEF Aligned
  <2>7. f[k + 1] = Substitute(f[k], old, new)
    BY <1>2, <2>2 DEF Steps
  <2>8. new \in Seq(W) /\ Within(new, G)
    BY <1>1, <1>5, <2>2 DEF Within
  <2>9. f[k] \in Seq(W) /\ Covers(f[k], G, rest \cup {old})
    BY <2>3, <2>4 DEF P
  <2> DEFINE u == f[k]
  <2> HIDE DEF old, new, rest, u
  <2>10. u \in Seq(W) /\ Covers(u, G, rest \cup {old})
    BY <2>9 DEF u
  <2>11. Substitute(u, old, new) \in Seq(W) /\ Covers(Substitute(u, old, new), G, rest)
    BY <2>6, <2>8, <2>10, SubstituteCovers, Zenon
  <2> QED
    BY <2>7, <2>11 DEF P, rest, u
<1> HIDE DEF T, P
<1>8. T = Nat
  BY <1>6, <1>7, Induction DEF T
<1>9. P(n)
  BY <1>1, <1>8 DEF T
<1>10. S(n) = {}
  BY <1>1
<1>11. \A p \in 1..Len(f[n]) : f[n][p] \in G
  BY <1>9, <1>10 DEF P, Covers, Held
<1>12. S(0) = {s[i] : i \in 1..Len(s)}
  OBVIOUS
<1> QED
  BY <1>2, <1>11, <1>12 DEF G, t, Steps

-----------------------------------------------------------------------------
(* Types                                                                   *)

LEMMA ValueType == \A v \in Values : v \in Seq(Words) /\ v # <<>> /\ Len(v) \in Nat \ {0}
BY PseudonymsAssumption

LEMMA FiniteImage ==
  ASSUME NEW S, IsFiniteSet(S), NEW f
  PROVE  IsFiniteSet({f[x] : x \in S})
<1> DEFINE T == {f[x] : x \in S}
           g == [x \in S |-> f[x]]
<1>1. g \in Surjection(S, T)
  BY DEF Surjection
<1> QED
  BY <1>1, FS_Surjection

LEMMA LengthsUpTo ==
  ASSUME NEW S, NEW q \in Seq(S)
  PROVE  IsFiniteSet(1..Len(q)) /\ IsFiniteSet(Range(q))
<1>1. Len(q) \in Nat /\ DOMAIN q = 1..Len(q)
  OBVIOUS
<1>2. IsFiniteSet(1..Len(q))
  BY <1>1, FS_Interval
<1> QED
  BY <1>1, <1>2, FiniteImage DEF Range

LEMMA OrderType ==
  ASSUME NEW S, IsFiniteSet(S), NEW length, NEW q \in LongestFirst(S, length)
  PROVE  /\ q \in Seq(S)
         /\ \A i, j \in 1..Len(q) : i < j => length[q[i]] >= length[q[j]]
<1>1. q \in [1..Cardinality(S) -> S]
  BY DEF LongestFirst, SetToSeqs
<1>2. Cardinality(S) \in Nat
  BY FS_CardinalityType
<1> QED
  BY <1>1, <1>2 DEF LongestFirst

\* The texts between the first and the last mapping.
Undoes(f, t, q) ==
  /\ f[0] = t
  /\ \A i \in 1..Len(q) : f[i] = Substitute(f[i - 1], q[i].fake, q[i].original)
  /\ Restore(t, q) = f[Len(q)]

LEMMA RestoreSteps ==
  ASSUME NEW S, NEW q \in Seq(S), NEW t
  PROVE  \E f : Undoes(f, t, q)
<1> DEFINE iter == CHOOSE g : g = [s \in SUBSET (DOMAIN q) |->
                     IF s = {} THEN t
                     ELSE Substitute(g[s \ {Max(s)}], q[Max(s)].fake, q[Max(s)].original)]
           old == [i \in 1..Len(q) |-> q[i].fake]
           new == [i \in 1..Len(q) |-> q[i].original]
           f == [i \in 0..Len(q) |-> iter[1..i]]
<1>1. Restore(t, q) = iter[DOMAIN q]
  BY DEF Restore, FoldLeft, MapThenFoldSet
<1>2. Len(q) \in Nat /\ DOMAIN q = 1..Len(q)
  OBVIOUS
<1>3. ASSUME NEW g
      PROVE  [s \in SUBSET (DOMAIN q) |->
                IF s = {} THEN t
                ELSE Substitute(g[s \ {Max(s)}], q[Max(s)].fake, q[Max(s)].original)]
             = [s \in SUBSET (1..Len(q)) |->
                 IF s = {} THEN t ELSE Substitute(g[s \ {Max(s)}], old[Max(s)], new[Max(s)])]
  <2>1. \A s \in SUBSET (1..Len(q)) : s # {} => Max(s) \in 1..Len(q)
    BY <1>2, MaxUpTo
  <2> QED
    BY <1>2, <2>1
<1>4. PICK g : Substitutes(g, t, old, new, Len(q))
  BY <1>2, SubstituteExists
<1>5. \E h : h = [s \in SUBSET (DOMAIN q) |->
                   IF s = {} THEN t
                   ELSE Substitute(h[s \ {Max(s)}], q[Max(s)].fake, q[Max(s)].original)]
  BY ZenonT(40), <1>3, <1>4 DEF Substitutes
<1>6. iter = [s \in SUBSET (DOMAIN q) |->
                IF s = {} THEN t
                ELSE Substitute(iter[s \ {Max(s)}], q[Max(s)].fake, q[Max(s)].original)]
  BY <1>5
<1> HIDE DEF iter
<1>7. Substitutes(iter, t, old, new, Len(q))
  BY <1>3, <1>6 DEF Substitutes
<1>8. Folded(f, t, old, new, Len(q))
  BY <1>2, <1>7, FoldIs
<1>9. f[Len(q)] = iter[DOMAIN q]
  BY <1>2
<1>10. Undoes(f, t, q)
  <2> HIDE DEF f
  <2> QED
    BY <1>1, <1>8, <1>9 DEF Undoes, Folded
<1> QED
  BY <1>10

Entries == {m \in Mapping : m.fake # <<>>}

LEMMA RestoreType ==
  ASSUME NEW t \in Seq(Words), NEW S \in SUBSET Entries, IsFiniteSet(S), NEW u \in Restorations(t, S)
  PROVE  u \in Seq(Words)
<1>1. PICK q \in LongestFirst(S, [m \in S |-> Len(m.fake)]) : u = Restore(t, q)
  BY DEF Restorations
<1>2. q \in Seq(S)
  BY OrderType
<1>3. Len(q) \in Nat /\ \A i \in 1..Len(q) : q[i].fake \in Seq(Words) \ {<<>>} /\ q[i].original \in Seq(Words)
  <2>1. Len(q) \in Nat /\ \A i \in 1..Len(q) : q[i] \in S
    BY <1>2
  <2>2. \A m \in S : m.fake \in Seq(Words) \ {<<>>} /\ m.original \in Seq(Words)
    BY DEF Entries, Mapping
  <2> QED
    BY <2>1, <2>2
<1>4. PICK f : Undoes(f, t, q)
  BY <1>2, RestoreSteps, Zenon
<1> DEFINE T == {k \in Nat : k <= Len(q) => f[k] \in Seq(Words)}
<1>5. 0 \in T
  BY <1>4 DEF Undoes
<1>6. ASSUME NEW k \in T PROVE k + 1 \in T
  <2>1. SUFFICES ASSUME k + 1 <= Len(q) PROVE f[k + 1] \in Seq(Words)
    OBVIOUS
  <2>2. k + 1 \in 1..Len(q) /\ k + 1 - 1 = k /\ k <= Len(q)
    BY <1>3, <2>1
  <2>3. f[k] \in Seq(Words)
    BY <2>2
  <2>4. f[k + 1] = Substitute(f[k], q[k + 1].fake, q[k + 1].original)
    BY <1>4, <2>2 DEF Undoes
  <2>5. q[k + 1].fake \in Seq(Words) \ {<<>>} /\ q[k + 1].original \in Seq(Words)
    BY <1>3, <2>2
  <2> QED
    BY <2>3, <2>4, <2>5, SubstituteType
<1> HIDE DEF T
<1>7. T = Nat
  BY <1>5, <1>6, Induction DEF T
<1> QED
  BY <1>1, <1>3, <1>4, <1>7 DEF T, Undoes

LEMMA GenerateType ==
  ASSUME NEW v \in Values, NEW f \in Generate(v)
  PROVE  f \in Seq(Words) \ {<<>>}
<1>1. v \in Seq(Words) /\ Len(v) \in Nat \ {0}
  BY ValueType
<1>2. CASE Kind[v] \in Drawn
  <2>1. \A w \in Pool[Kind[v]] : w \in Words
    BY <1>2, PseudonymsAssumption
  <2> QED
    <3>1. PICK w \in Pool[Kind[v]] : f = <<w>>
      <4>1. Generate(v) = {<<x>> : x \in Pool[Kind[v]]}
        BY <1>2 DEF Generate, Drawn
      <4> QED
        BY <4>1
    <3>2. w \in Words
      BY <2>1
    <3> QED
      BY <3>1, <3>2
<1>3. CASE Kind[v] = "email"
  <2>1. \A w \in Pool["email"] : w \in Words
    BY <1>3, PseudonymsAssumption
  <2>2. Kind[v] \notin Drawn
    BY <1>3 DEF Drawn
  <2>3. PICK w \in Pool["email"] : f = <<w>> \o Tail(v)
    BY <1>3, <2>2 DEF Generate, FakeEmail
  <2>4. Tail(v) \in Seq(Words) /\ <<w>> \in Seq(Words)
    BY <1>1, <2>1
  <2> QED
    BY <2>3, <2>4
<1>4. CASE Kind[v] \in {"phone", "secret"}
  <2>1. f \in [1..Len(v) -> Words]
    BY <1>4 DEF Generate, FakeShaped, Drawn
  <2>2. f \in Seq(Words) /\ Len(f) = Len(v)
    BY <1>1, <2>1
  <2> QED
    BY <1>1, <2>2
<1>5. CASE Kind[v] \notin Drawn \cup {"email", "phone", "secret"}
  <2>1. f = [i \in 1..Len(v) |-> "*"]
    BY <1>5 DEF Generate, GenericMask
  <2>2. f \in [1..Len(v) -> Words]
    BY <2>1, PseudonymsAssumption
  <2>3. f \in Seq(Words) /\ Len(f) = Len(v)
    BY <1>1, <2>2
  <2> QED
    BY <1>1, <2>3
<1> QED
  BY <1>2, <1>3, <1>4, <1>5

-----------------------------------------------------------------------------
(* The invariant                                                           *)

\* What the store holds has a pseudonym, and so does a request about to store.
Filled ==
  /\ \A i \in 1..Len(log) : log[i] \in Entries
  /\ \A r \in Requests : pc[r] = "set" => hand[r] \in Seq(Words) \ {<<>>}

\* The mappings of a request are in the store.
Stored == \A r \in Requests : mine[r] \subseteq Range(log)

Sorted ==
  \A r \in Requests : \A i, j \in 1..Len(spans[r]) :
    i < j => Len(spans[r][i]) >= Len(spans[r][j])

\* A request that looks for a pseudonym, or stores one, has a value in hand.
InHand == \A r \in Requests : pc[r] \in {"generate", "set"} => Pending(r)

Fresh == \A r \in Requests : pc[r] = "new" => repl[r] = <<>>

TypeInv == TypeOK /\ Filled /\ Stored /\ Sorted /\ InHand /\ Fresh

\* The other requests do not notice.
Frame(r) ==
  \A q \in Requests \ {r} :
    /\ pc'[q] = pc[q] /\ text'[q] = text[q] /\ spans'[q] = spans[q] /\ repl'[q] = repl[q]
    /\ hand'[q] = hand[q] /\ mine'[q] = mine[q] /\ out'[q] = out[q]
    /\ taken'[q] = taken[q] /\ result'[q] = result[q]

LEMMA FrameStep ==
  ASSUME TypeOK, NEW r \in Requests, Begin(r) \/ Step(r)
  PROVE  Frame(r)
BY ZenonT(40) DEF Frame, TypeOK, Step, Before, After, Begin, Known, Unknown, Choose, Set, SetFails, Send,
       RestoreOwn, RestoreSession, SessionFails, ProviderFails, RestoreChunk,
       Goto, Replace, Leaves, Deliver, working, store

LEMMA InitTypes == Init => TypeInv
<1> SUFFICES ASSUME Init PROVE TypeInv
  OBVIOUS
<1>1. /\ pc = [r \in Requests |-> "new"] /\ spans = [r \in Requests |-> <<>>]
      /\ log = <<>> /\ mine = [r \in Requests |-> {}] /\ Len(<<>>) = 0
  BY DEF Init
<1>2. TypeOK
  BY PrivacyAssumption DEF Init, TypeOK, Labels
<1>3. Filled /\ Stored /\ Sorted /\ InHand /\ Fresh
  BY <1>1 DEF Init, Filled, Stored, Sorted, InHand, Fresh
<1> QED
  BY <1>2, <1>3 DEF TypeInv

LEMMA CurrentType ==
  ASSUME TypeOK, NEW r \in Requests, Pending(r)
  PROVE  /\ Current(r) \in Values /\ Current(r) \in Seq(Words)
         /\ Len(repl[r]) + 1 \in 1..Len(spans[r]) /\ Len(repl[r]) \in Nat
<1>1. Len(repl[r]) \in Nat /\ Len(spans[r]) \in Nat /\ Len(repl[r]) < Len(spans[r]) /\ spans[r] \in Seq(Values)
  BY DEF TypeOK, Pending
<1>2. Len(repl[r]) + 1 \in 1..Len(spans[r])
  BY <1>1
<1> QED
  BY <1>1, <1>2, ValueType DEF Current

\* What the store says of a key that is there.
LEMMA StoreType ==
  ASSUME TypeOK, Filled
  PROVE  /\ \A o \in Originals : FakeOf(o) \in Seq(Words) \ {<<>>}
         /\ Session \subseteq Entries /\ IsFiniteSet(Session)
<1>1. log \in Seq(Mapping) /\ \A i \in 1..Len(log) : log[i] \in Mapping /\ log[i].fake # <<>>
  BY DEF TypeOK, Filled, Entries
<1>2. ASSUME NEW i \in 1..Len(log)
      PROVE  log[i].original \in Seq(Words) /\ log[i].fake \in Seq(Words) \ {<<>>}
  <2>1. log[i] \in Mapping
    BY <1>1
  <2> QED
    BY <1>1, <2>1 DEF Mapping
<1>3. \A o \in Originals : FakeOf(o) \in Seq(Words) \ {<<>>}
  <2> SUFFICES ASSUME NEW o \in Originals PROVE FakeOf(o) \in Seq(Words) \ {<<>>}
    OBVIOUS
  <2>1. PICK i \in 1..Len(log) : log[i].fake = FakeOf(o)
    BY <1>1, StoreMeaning
  <2> QED
    BY <1>2, <2>1
<1>4. \A f \in Fakes : f \in Seq(Words) \ {<<>>} /\ OriginalOf(f) \in Seq(Words)
  <2> SUFFICES ASSUME NEW f \in Fakes
               PROVE  f \in Seq(Words) \ {<<>>} /\ OriginalOf(f) \in Seq(Words)
    OBVIOUS
  <2>1. PICK i \in 1..Len(log) : log[i].fake = f /\ log[i].original = OriginalOf(f)
    BY <1>1, StoreMeaning
  <2> QED
    BY <1>2, <2>1
<1>5. Session \subseteq Entries
  BY <1>4 DEF Session, Entries, Mapping
<1>6. IsFiniteSet(Session)
  <2> DEFINE g == [i \in 1..Len(log) |-> log[i].fake]
             h == [f \in Fakes |-> [original |-> OriginalOf(f), fake |-> f]]
  <2>1. IsFiniteSet(1..Len(log))
    BY <1>1, LengthsUpTo
  <2>2. Fakes = {g[i] : i \in 1..Len(log)}
    BY DEF Fakes
  <2>3. IsFiniteSet(Fakes)
    BY <2>1, <2>2, FiniteImage
  <2>4. Session = {h[f] : f \in Fakes}
    BY DEF Session
  <2> QED
    BY ZenonT(40), <2>3, <2>4, FiniteImage
<1> QED
  BY <1>3, <1>5, <1>6

LEMMA MineType ==
  ASSUME TypeOK, Filled, Stored, NEW r \in Requests
  PROVE  mine[r] \subseteq Entries /\ IsFiniteSet(mine[r])
<1>1. mine[r] \subseteq Range(log) /\ log \in Seq(Mapping)
  BY DEF Stored, TypeOK
<1>2. IsFiniteSet(Range(log))
  BY <1>1, LengthsUpTo
<1>3. Range(log) \subseteq Entries
  BY <1>1 DEF Filled, Range
<1> QED
  BY <1>1, <1>2, <1>3, FS_Subset

LEMMA SentType ==
  ASSUME TypeOK, NEW r \in Requests
  PROVE  /\ FlattenSeq(text[r]) \in Seq(Words)
         /\ Replacements(r) = Pairs(spans[r], repl[r])
         /\ Pseudonymize(FlattenSeq(text[r]), Replacements(r)) \in Seq(Words)
<1>1. /\ text[r] \in Seq(Values) /\ spans[r] \in Seq(Values) /\ repl[r] \in Seq(Seq(Words))
      /\ Len(repl[r]) <= Len(spans[r])
  BY DEF TypeOK
<1>2. Values \subseteq Seq(Words) \ {<<>>} /\ Values \subseteq Seq(Words)
  BY PseudonymsAssumption
<1>3. FlattenSeq(text[r]) \in Seq(Words)
  BY <1>1, <1>2, FlattenCovers
<1>4. spans[r] \in Seq(Seq(Words) \ {<<>>})
  BY <1>1, <1>2
<1>5. Replacements(r) = Pairs(spans[r], repl[r])
  BY DEF Replacements, Pairs
<1> QED
  BY <1>1, <1>3, <1>4, <1>5, PseudonymizeType

LEMMA TypeStep ==
  ASSUME TypeInv, NEW r \in Requests, Begin(r) \/ Step(r)
  PROVE  TypeOK'
<1>1. TypeOK /\ Filled /\ Stored
  BY DEF TypeInv
<1>2. Pending(r) => /\ Current(r) \in Values /\ Current(r) \in Seq(Words)
                    /\ Len(repl[r]) \in Nat /\ Len(repl[r]) + 1 <= Len(spans[r])
  <2>1. ASSUME Pending(r) PROVE Len(repl[r]) + 1 <= Len(spans[r])
    <3>1. Len(repl[r]) + 1 \in 1..Len(spans[r]) /\ spans[r] \in Seq(Values)
      BY <1>1, <2>1, CurrentType DEF TypeOK
    <3> QED
      BY <3>1
  <2> QED
    BY <1>1, <2>1, CurrentType
<1>3. ASSUME Pending(r), NEW f \in Seq(Words)
      PROVE  Append(repl[r], f) \in Seq(Seq(Words)) /\ Len(Append(repl[r], f)) <= Len(spans[r])
  <2>1. repl[r] \in Seq(Seq(Words))
    BY <1>1 DEF TypeOK
  <2> QED
    BY <1>2, <1>3, <2>1
<1>4. Fails => faults' \in 0..MaxFaults
  BY <1>1, PrivacyAssumption DEF TypeOK, Fails
<1>5. ASSUME NEW u \in Seq(Words) PROVE result[r] \o u \in Seq(Words)
  BY <1>1, <1>5 DEF TypeOK
<1>6. CASE Begin(r)
  <2>1. PICK t \in Texts[r] : \E found \in SUBSET Range(t) :
          \E q \in LongestFirst(found, [v \in found |-> Len(v)]) :
            /\ text' = [text EXCEPT ![r] = t]
            /\ spans' = [spans EXCEPT ![r] = q]
    BY <1>6 DEF Begin
  <2>2. PICK found \in SUBSET Range(t) :
          \E q \in LongestFirst(found, [v \in found |-> Len(v)]) :
            /\ text' = [text EXCEPT ![r] = t]
            /\ spans' = [spans EXCEPT ![r] = q]
    BY <2>1
  <2>3. PICK q \in LongestFirst(found, [v \in found |-> Len(v)]) :
            /\ text' = [text EXCEPT ![r] = t]
            /\ spans' = [spans EXCEPT ![r] = q]
    BY <2>2
  <2>4. t \in Seq(Values)
    BY PrivacyAssumption DEF Requests
  <2>5. found \subseteq Values /\ IsFiniteSet(found)
    <3>1. IsFiniteSet(Range(t))
      BY <2>4, LengthsUpTo
    <3>2. IsFiniteSet(found)
      BY <3>1, FS_Subset
    <3>3. Range(t) \subseteq Values
      BY <2>4 DEF Range
    <3> QED
      BY <3>2, <3>3
  <2>6. q \in Seq(found)
    BY <2>5, OrderType
  <2>7. q \in Seq(Values)
    BY <2>5, <2>6
  <2>8. repl[r] = <<>> /\ Len(<<>>) = 0 /\ Len(q) \in Nat
    BY <1>6, <2>7 DEF Begin, Goto, TypeInv, Fresh
  <2> QED
    BY <1>1, <1>6, <2>3, <2>4, <2>7, <2>8 DEF Begin, TypeOK, Goto, Labels, store
<1>7. CASE Known(r)
  <2>1. Pending(r) /\ FakeOf(Current(r)) \in Seq(Words)
    BY <1>1, <1>7, StoreType DEF Known
  <2>2. /\ Append(repl[r], FakeOf(Current(r))) \in Seq(Seq(Words))
        /\ Len(Append(repl[r], FakeOf(Current(r)))) <= Len(spans[r])
    BY <1>3, <2>1
  <2>3. repl' = [repl EXCEPT ![r] = Append(repl[r], FakeOf(Current(r)))]
    BY <1>7 DEF Known, Replace
  <2> QED
    BY <1>1, <1>7, <2>2, <2>3 DEF Known, TypeOK, store
<1>8. CASE Unknown(r)
  BY <1>1, <1>4, <1>8 DEF Unknown, TypeOK, Goto, Labels, Answers, working
<1>9. CASE Choose(r)
  <2>1. Pending(r)
    BY <1>9 DEF TypeInv, InHand, Choose, Goto
  <2>2. PICK f \in Generate(Current(r)) :
          hand' = [hand EXCEPT ![r] = f] /\ ((f \notin Fakes /\ Answers) \/ Fails)
    BY <1>9 DEF Choose
  <2>3. f \in Seq(Words)
    BY <1>2, <2>1, GenerateType
  <2> QED
    BY <1>1, <1>4, <1>9, <2>2, <2>3 DEF Choose, TypeOK, Goto, Labels, Answers
<1>10. CASE Set(r)
  <2>1. Pending(r) /\ hand[r] \in Seq(Words)
    BY <1>1, <1>10 DEF TypeInv, InHand, Set, Goto, TypeOK
  <2> DEFINE m == [original |-> Current(r), fake |-> hand[r]]
  <2>2. m \in Mapping
    BY <1>2, <2>1 DEF Mapping
  <2>3. /\ Append(repl[r], hand[r]) \in Seq(Seq(Words))
        /\ Len(Append(repl[r], hand[r])) <= Len(spans[r])
    BY <1>3, <2>1
  <2>4. /\ repl' = [repl EXCEPT ![r] = Append(repl[r], hand[r])]
        /\ log' = Append(log, m) /\ mine' = [mine EXCEPT ![r] = mine[r] \cup {m}]
        /\ hand' = [hand EXCEPT ![r] = <<>>] /\ pc' = [pc EXCEPT ![r] = "lookup"]
        /\ UNCHANGED <<failOpen, faults, text, spans, out, taken, result>>
    BY <1>10 DEF Set, Replace, Goto
  <2> HIDE DEF m
  <2>5. log' \in Seq(Mapping) /\ <<>> \in Seq(Words)
    BY <1>1, <2>2, <2>4 DEF TypeOK
  <2> QED
    BY <1>1, <2>2, <2>3, <2>4, <2>5 DEF TypeOK, Labels
<1>11. CASE SetFails(r)
  <2>1. FlattenSeq(text[r]) \in Seq(Words)
    BY <1>1, SentType
  <2> QED
    <3>1. /\ \E label \in Labels : pc' = [pc EXCEPT ![r] = label]
          /\ out' = out \/ out' = [out EXCEPT ![r] = FlattenSeq(text[r])]
          /\ mine' = [mine EXCEPT ![r] = {}]
          /\ UNCHANGED <<failOpen, log, text, spans, repl, hand, taken, result>>
      BY <1>11 DEF SetFails, Goto, Labels, Leaves
    <3>2. faults' \in 0..MaxFaults
      BY <1>4, <1>11 DEF SetFails
    <3>3. /\ pc' \in [Requests -> Labels] /\ out' \in [Requests -> Seq(Words)]
          /\ mine' \in [Requests -> SUBSET Mapping]
      BY <1>1, <2>1, <3>1 DEF TypeOK
    <3> QED
      BY <1>1, <3>1, <3>2, <3>3 DEF TypeOK
<1>12. CASE Send(r)
  <2>1. Pseudonymize(FlattenSeq(text[r]), Replacements(r)) \in Seq(Words)
    BY <1>1, SentType
  <2> QED
    BY <1>1, <1>12, <2>1 DEF Send, TypeOK, Goto, Labels, Leaves, store, working
<1>13. CASE RestoreOwn(r) \/ RestoreSession(r)
  <2>1. out[r] \in Seq(Words)
    BY <1>1 DEF TypeOK
  <2>2. PICK u : u \in Seq(Words) /\ result' = [result EXCEPT ![r] = result[r] \o u]
    <3>1. CASE RestoreOwn(r)
      BY <1>1, <2>1, <3>1, MineType, RestoreType DEF RestoreOwn, RestoreResponseWithMappings, Deliver
    <3>2. CASE RestoreSession(r)
      BY <1>1, <2>1, <3>2, StoreType, RestoreType DEF RestoreSession, RestoreResponse, Deliver
    <3> QED
      BY <1>13, <3>1, <3>2
  <2>3. result[r] \o u \in Seq(Words)
    BY <1>5, <2>2
  <2> QED
    BY <1>1, <1>13, <2>2, <2>3 DEF RestoreOwn, RestoreSession, TypeOK, Goto, Labels, store, working
<1>14. CASE SessionFails(r)
  <2>1. result[r] \o out[r] \in Seq(Words)
    BY <1>1, <1>5 DEF TypeOK
  <2> QED
    BY <1>1, <1>4, <1>14, <2>1 DEF SessionFails, TypeOK, Goto, Labels, Deliver, working
<1>15. CASE ProviderFails(r)
  BY <1>1, <1>15 DEF ProviderFails, TypeOK, Goto, Labels, store, working
<1>16. CASE RestoreChunk(r)
  <2>1. PICK n \in (taken[r] + 1)..Len(out[r]) :
          /\ IF n = Len(out[r])
               THEN pc' = [pc EXCEPT ![r] = "done"] /\ taken' = [taken EXCEPT ![r] = 0]
               ELSE pc' = [pc EXCEPT ![r] = "streaming"] /\ taken' = [taken EXCEPT ![r] = n]
          /\ \/ Answers /\ \E t \in Restorations(SubSeq(out[r], taken[r] + 1, n), Session) : Deliver(r, t)
             \/ Fails /\ Deliver(r, SubSeq(out[r], taken[r] + 1, n))
    BY <1>16 DEF RestoreChunk
  <2>2. n \in Nat /\ SubSeq(out[r], taken[r] + 1, n) \in Seq(Words)
    <3>1. taken[r] \in Nat /\ out[r] \in Seq(Words)
      BY <1>1 DEF TypeOK
    <3> QED
      BY <3>1
  <2>3. PICK u : u \in Seq(Words) /\ result' = [result EXCEPT ![r] = result[r] \o u]
    BY <1>1, <2>1, <2>2, StoreType, RestoreType DEF Deliver
  <2>4. result[r] \o u \in Seq(Words)
    BY <1>5, <2>3
  <2>5. /\ pc' \in [Requests -> Labels] /\ taken' \in [Requests -> Nat] /\ faults' \in 0..MaxFaults
    <3>1. pc' \in [Requests -> Labels]
      <4>1. \E l \in Labels : pc' = [pc EXCEPT ![r] = l]
        BY <2>1 DEF Labels
      <4> QED
        BY <1>1, <4>1 DEF TypeOK
    <3>2. taken' \in [Requests -> Nat]
      <4>1. \E k \in Nat : taken' = [taken EXCEPT ![r] = k]
        BY <2>1, <2>2
      <4> QED
        BY <1>1, <4>1 DEF TypeOK
    <3>3. faults' \in 0..MaxFaults
      BY <1>1, <1>4, <2>1 DEF TypeOK, Answers
    <3> QED
      BY <3>1, <3>2, <3>3
  <2> QED
    BY <1>1, <1>16, <2>3, <2>4, <2>5 DEF RestoreChunk, TypeOK, working
<1> QED
  BY <1>6, <1>7, <1>8, <1>9, <1>10, <1>11, <1>12, <1>13, <1>14, <1>15, <1>16 DEF Step, Before, After

LEMMA LogStep ==
  ASSUME TypeOK, NEW r \in Requests, Begin(r) \/ Step(r)
  PROVE  /\ ~Set(r) => log' = log /\ mine'[r] \in {mine[r], {}}
         /\ Set(r) => LET m == [original |-> Current(r), fake |-> hand[r]]
                      IN  log' = Append(log, m) /\ mine'[r] = mine[r] \cup {m}
         /\ pc'[r] # "new"
<1>1. mine \in [Requests -> SUBSET Mapping] /\ pc \in [Requests -> Labels]
  BY DEF TypeOK
<1>2. Set(r) => LET m == [original |-> Current(r), fake |-> hand[r]]
                IN  log' = Append(log, m) /\ mine'[r] = mine[r] \cup {m}
  BY <1>1 DEF Set
<1>3. ~Set(r) => log' = log /\ mine'[r] \in {mine[r], {}}
  BY <1>1 DEF Step, Before, After, Begin, Known, Unknown, Choose, SetFails, Send,
       RestoreOwn, RestoreSession, SessionFails, ProviderFails, RestoreChunk, working, store
<1>4. pc'[r] # "new"
  BY <1>1 DEF Step, Before, After, Begin, Known, Unknown, Choose, Set, SetFails, Send,
       RestoreOwn, RestoreSession, SessionFails, ProviderFails, RestoreChunk, Goto
<1> QED
  BY <1>2, <1>3, <1>4

LEMMA FilledStep ==
  ASSUME TypeInv, NEW r \in Requests, Begin(r) \/ Step(r)
  PROVE  Filled' /\ Stored'
<1>1. TypeOK /\ Filled /\ Stored /\ InHand /\ Frame(r) /\ log \in Seq(Mapping)
  BY FrameStep DEF TypeInv, TypeOK
<1> DEFINE m == [original |-> Current(r), fake |-> hand[r]]
<1>2. /\ ~Set(r) => log' = log /\ mine'[r] \in {mine[r], {}}
      /\ Set(r) => log' = Append(log, m) /\ mine'[r] = mine[r] \cup {m}
  BY <1>1, LogStep
<1>3. Set(r) => m \in Entries
  <2>1. Set(r) => Pending(r) /\ hand[r] \in Seq(Words) \ {<<>>}
    BY <1>1 DEF Set, Goto, InHand, Filled
  <2> QED
    BY <1>1, <2>1, CurrentType DEF Entries, Mapping
<1> HIDE DEF m
<1>4. \A i \in 1..Len(log') : log'[i] \in Entries
  <2>1. CASE Set(r)
    <3>1. \A i \in 1..Len(log') : (i \in 1..Len(log) /\ log'[i] = log[i]) \/ log'[i] = m
      BY <1>1, <1>2, <2>1
    <3> QED
      BY <1>1, <1>3, <2>1, <3>1 DEF Filled
  <2>2. CASE ~Set(r)
    BY <1>1, <1>2, <2>2 DEF Filled
  <2> QED
    BY <2>1, <2>2
<1>5. Range(log) \subseteq Range(log') /\ (Set(r) => m \in Range(log'))
  <2>1. CASE Set(r)
    <3>1. /\ log' = Append(log, m) /\ Len(log) \in Nat
          /\ DOMAIN log = 1..Len(log) /\ DOMAIN log' = 1..(Len(log) + 1)
          /\ \A i \in 1..Len(log) : log'[i] = log[i]
          /\ log'[Len(log) + 1] = m
      BY <1>1, <1>2, <2>1
    <3>2. Len(log) + 1 \in 1..(Len(log) + 1) /\ \A i \in 1..Len(log) : i \in 1..(Len(log) + 1)
      BY <3>1
    <3> QED
      BY <3>1, <3>2 DEF Range
  <2> QED
    BY <1>2, <2>1
<1>6. Stored'
  <2> SUFFICES ASSUME NEW q \in Requests PROVE mine'[q] \subseteq Range(log')
    BY DEF Stored
  <2>1. CASE q # r
    BY <1>1, <1>5, <2>1 DEF Frame, Stored
  <2>2. CASE q = r
    BY <1>1, <1>2, <1>5, <2>2 DEF Stored
  <2> QED
    BY <2>1, <2>2
<1>7. ASSUME NEW q \in Requests, pc'[q] = "set" PROVE hand'[q] \in Seq(Words) \ {<<>>}
  <2>1. CASE q # r
    BY <1>1, <1>7, <2>1 DEF Frame, Filled
  <2>2. CASE q = r
    <3>1. pc \in [Requests -> Labels] /\ hand \in [Requests -> Seq(Words)]
      BY <1>1 DEF TypeOK
    <3>2. Choose(r)
      BY <1>7, <2>2, <3>1
         DEF Step, Before, After, Begin, Known, Unknown, Set, SetFails, Send, RestoreOwn,
             RestoreSession, SessionFails, ProviderFails, RestoreChunk, Goto
    <3>3. hand'[r] \in Generate(Current(r)) /\ Pending(r)
      BY <1>1, <3>1, <3>2 DEF Choose, Goto, InHand
    <3> QED
      BY <1>1, <2>2, <3>3, CurrentType, GenerateType
  <2> QED
    BY <2>1, <2>2
<1> QED
  BY <1>4, <1>6, <1>7 DEF Filled

LEMMA SortedStep ==
  ASSUME TypeInv, NEW r \in Requests, Begin(r) \/ Step(r)
  PROVE  Sorted' /\ InHand' /\ Fresh'
<1>1. /\ TypeOK /\ Sorted /\ InHand /\ Fresh /\ Frame(r)
      /\ pc \in [Requests -> Labels] /\ spans \in [Requests -> Seq(Values)]
      /\ repl \in [Requests -> Seq(Seq(Words))]
  BY FrameStep DEF TypeInv, TypeOK
<1>2. \A i, j \in 1..Len(spans'[r]) : i < j => Len(spans'[r][i]) >= Len(spans'[r][j])
  <2>1. CASE Begin(r)
    <3>0. PICK t \in Texts[r] : \E found \in SUBSET Range(t) :
            \E q \in LongestFirst(found, [v \in found |-> Len(v)]) : spans' = [spans EXCEPT ![r] = q]
      BY <2>1 DEF Begin
    <3>1. PICK found \in SUBSET Range(t) :
            \E q \in LongestFirst(found, [v \in found |-> Len(v)]) : spans' = [spans EXCEPT ![r] = q]
      BY <3>0
    <3>2. PICK q \in LongestFirst(found, [v \in found |-> Len(v)]) : spans'[r] = q
      BY <1>1, <3>1
    <3>3. IsFiniteSet(found)
      <4>1. t \in Seq(Values)
        BY PrivacyAssumption DEF Requests
      <4>2. IsFiniteSet(Range(t))
        BY <4>1, LengthsUpTo
      <4> QED
        BY <4>2, FS_Subset
    <3> DEFINE length == [v \in found |-> Len(v)]
    <3>4. q \in Seq(found) /\ \A i, j \in 1..Len(q) : i < j => length[q[i]] >= length[q[j]]
      BY <3>3, OrderType
    <3>5. \A i \in 1..Len(q) : q[i] \in found /\ length[q[i]] = Len(q[i])
      BY <3>4
    <3> QED
      BY <3>2, <3>4, <3>5
  <2>2. CASE ~Begin(r)
    <3>1. spans'[r] = spans[r]
      BY <1>1, <2>2 DEF Step, Before, After, Known, Unknown, Choose, Set, SetFails, Send, RestoreOwn,
             RestoreSession, SessionFails, ProviderFails, RestoreChunk, working
    <3> QED
      BY <1>1, <3>1 DEF Sorted
  <2> QED
    BY <2>1, <2>2
<1>3. Sorted'
  BY <1>1, <1>2 DEF Sorted, Frame
<1>4. pc'[r] \in {"generate", "set"} => Len(repl'[r]) < Len(spans'[r])
  <2> SUFFICES ASSUME pc'[r] \in {"generate", "set"} PROVE Len(repl'[r]) < Len(spans'[r])
    OBVIOUS
  <2>1. Unknown(r) \/ Choose(r)
    BY <1>1 DEF Step, Before, After, Begin, Known, Set, SetFails, Send, RestoreOwn,
             RestoreSession, SessionFails, ProviderFails, RestoreChunk, Goto
  <2>2. Pending(r) /\ UNCHANGED <<repl, spans>>
    BY <1>1, <2>1 DEF Unknown, Choose, Goto, InHand, working
  <2> QED
    BY <2>2 DEF Pending
<1>5. InHand'
  BY <1>1, <1>4 DEF InHand, Frame, Pending
<1>6. Fresh'
  BY <1>1, LogStep DEF Fresh, Frame
<1> QED
  BY <1>3, <1>5, <1>6

\* What has left is what the user wrote, or that with all its spans replaced.
Gone ==
  \A r \in Requests : Left(r) =>
    IF Pending(r) THEN failOpen /\ faults > 0
    ELSE out[r] = Pseudonymize(FlattenSeq(text[r]), Replacements(r))

\* Without a failure the batches of the store are the mappings of the requests,
\* and no request gives a pseudonym twice.
Unraced ==
  faults = 0 =>
    /\ Range(log) \subseteq UNION {mine[r] : r \in Requests}
    /\ \A r \in Requests : \A m1, m2 \in mine[r] : m1.fake = m2.fake => m1 = m2
    /\ \A r \in Requests : pc[r] = "set" => \A m \in mine[r] : m.fake # hand[r]

PrivacyInv == TypeInv /\ Gone /\ Unraced

LEMMA FaultsGrow ==
  ASSUME TypeOK, NEW r \in Requests, Begin(r) \/ Step(r)
  PROVE  faults' \in {faults, faults + 1} /\ failOpen' = failOpen /\ faults \in Nat
<1>1. faults \in Nat
  BY PrivacyAssumption DEF TypeOK
<1>2. failOpen' = failOpen
  BY DEF Step, Before, After, Begin, Known, Unknown, Choose, Set, SetFails, Send,
       RestoreOwn, RestoreSession, SessionFails, ProviderFails, RestoreChunk
<1>3. faults' \in {faults, faults + 1}
  BY DEF Step, Before, After, Begin, Known, Unknown, Choose, Set, SetFails, Send,
       RestoreOwn, RestoreSession, SessionFails, ProviderFails, RestoreChunk, Answers, Fails, store
<1> QED
  BY <1>1, <1>2, <1>3

LEMMA GoneStep ==
  ASSUME PrivacyInv, NEW r \in Requests, Begin(r) \/ Step(r)
  PROVE  Gone'
<1>1. /\ TypeOK /\ InHand /\ Gone /\ Frame(r)
      /\ pc \in [Requests -> Labels] /\ out \in [Requests -> Seq(Words)]
      /\ faults' \in {faults, faults + 1} /\ failOpen' = failOpen /\ faults \in Nat
  BY FrameStep, FaultsGrow DEF PrivacyInv, TypeInv, TypeOK
<1> SUFFICES ASSUME NEW q \in Requests, Left(q)'
             PROVE  IF Pending(q)' THEN failOpen' /\ faults' > 0
                    ELSE out'[q] = Pseudonymize(FlattenSeq(text'[q]), Replacements(q)')
  BY DEF Gone
<1>2. ASSUME text'[q] = text[q], repl'[q] = repl[q], spans'[q] = spans[q]
      PROVE  Replacements(q)' = Replacements(q) /\ (Pending(q)' <=> Pending(q))
  BY <1>2 DEF Replacements, Pending
<1>3. ASSUME text'[q] = text[q], repl'[q] = repl[q], spans'[q] = spans[q], out'[q] = out[q], Left(q)
      PROVE  IF Pending(q)' THEN failOpen' /\ faults' > 0
             ELSE out'[q] = Pseudonymize(FlattenSeq(text'[q]), Replacements(q)')
  BY <1>1, <1>2, <1>3 DEF Gone
<1>4. CASE q # r
  BY <1>1, <1>3, <1>4 DEF Frame, Left
<1>5. CASE q = r
  <2>1. CASE Send(r)
    <3>1. /\ ~Pending(r) /\ UNCHANGED working
          /\ out'[r] = Pseudonymize(FlattenSeq(text[r]), Replacements(r))
      BY <1>1, <2>1 DEF Send, Leaves
    <3> QED
      BY <1>2, <1>5, <3>1 DEF working
  <2>2. CASE SetFails(r)
    <3>1. failOpen /\ pc[r] = "set" /\ faults' > 0 /\ UNCHANGED <<text, spans, repl>>
      BY <1>1, <1>5, <2>2 DEF SetFails, Goto, Left, Fails
    <3>2. Pending(r)
      BY <1>1, <3>1 DEF InHand
    <3> QED
      BY <1>1, <1>2, <1>5, <3>1, <3>2
  <2>3. CASE After(r)
    <3>1. UNCHANGED <<text, spans, repl, out>> /\ Left(r)
      BY <2>3 DEF After, RestoreOwn, RestoreSession, SessionFails, ProviderFails, RestoreChunk,
           Goto, working, Left
    <3> QED
      BY <1>3, <1>5, <3>1
  <2>4. CASE Begin(r) \/ Known(r) \/ Unknown(r) \/ Choose(r) \/ Set(r)
    <3>1. pc'[r] \in {"lookup", "generate", "set"}
      BY <1>1, <2>4 DEF Begin, Known, Unknown, Choose, Set, Goto
    <3> QED
      BY <1>5, <3>1 DEF Left
  <2> QED
    BY <2>1, <2>2, <2>3, <2>4 DEF Step, Before
<1> QED
  BY <1>4, <1>5

LEMMA UnracedStep ==
  ASSUME PrivacyInv, NEW r \in Requests, Begin(r) \/ Step(r)
  PROVE  Unraced'
<1> SUFFICES ASSUME faults' = 0 PROVE Unraced'
  BY DEF Unraced
<1>1. /\ TypeOK /\ Stored /\ InHand /\ Unraced /\ Frame(r) /\ log \in Seq(Mapping)
      /\ pc \in [Requests -> Labels] /\ mine \in [Requests -> SUBSET Mapping]
      /\ hand \in [Requests -> Seq(Words)]
  BY FrameStep DEF PrivacyInv, TypeInv, TypeOK
<1>2. faults = 0 /\ ~Fails
  BY <1>1, FaultsGrow DEF Fails
<1>3. /\ Range(log) \subseteq UNION {mine[q] : q \in Requests}
      /\ \A q \in Requests : \A m1, m2 \in mine[q] : m1.fake = m2.fake => m1 = m2
      /\ \A q \in Requests : pc[q] = "set" => \A m \in mine[q] : m.fake # hand[q]
  BY <1>1, <1>2 DEF Unraced
<1> DEFINE new == [original |-> Current(r), fake |-> hand[r]]
<1>4. CASE Set(r)
  <2>1. log' = Append(log, new) /\ mine'[r] = mine[r] \cup {new} /\ pc[r] = "set" /\ pc'[r] = "lookup"
    BY <1>1, <1>4, LogStep DEF Set, Goto
  <2>2. \A m \in mine[r] : m.fake # new.fake
    BY <1>3, <2>1
  <2> HIDE DEF new
  <2>3. Range(log') \subseteq Range(log) \cup {new}
    <3>1. /\ DOMAIN log' = 1..Len(log')
          /\ \A i \in 1..Len(log') : (i \in 1..Len(log) /\ log'[i] = log[i]) \/ log'[i] = new
      BY <1>1, <2>1
    <3>2. DOMAIN log = 1..Len(log)
      BY <1>1
    <3> QED
      BY <3>1, <3>2 DEF Range
  <2>4. \A q \in Requests : mine[q] \subseteq mine'[q]
    BY <1>1, <2>1 DEF Frame
  <2>5. Range(log') \subseteq UNION {mine'[q] : q \in Requests}
    <3>1. new \in mine'[r]
      BY <2>1
    <3> QED
      BY <1>3, <2>3, <2>4, <3>1
  <2>6. ASSUME NEW q \in Requests
        PROVE  /\ \A m1, m2 \in mine'[q] : m1.fake = m2.fake => m1 = m2
               /\ pc'[q] = "set" => \A m \in mine'[q] : m.fake # hand'[q]
    <3>1. CASE q = r
      <4>1. \A m1, m2 \in mine'[r] : m1.fake = m2.fake => m1 = m2
        BY <1>3, <2>1, <2>2
      <4> QED
        BY <2>1, <3>1, <4>1
    <3>2. CASE q # r
      <4>1. mine'[q] = mine[q] /\ pc'[q] = pc[q] /\ hand'[q] = hand[q]
        BY <1>1, <3>2 DEF Frame
      <4> QED
        BY <1>3, <4>1
    <3> QED
      BY <3>1, <3>2
  <2> QED
    BY <2>5, <2>6 DEF Unraced
<1>5. CASE ~Set(r)
  <2>1. log' = log
    BY <1>1, <1>5, LogStep
  <2>2. mine'[r] = mine[r]
    BY <1>1, <1>2, <1>5 DEF Step, Before, After, Begin, Known, Unknown, Choose, SetFails, Send,
       RestoreOwn, RestoreSession, SessionFails, ProviderFails, RestoreChunk, working
  <2>3. \A q \in Requests : mine'[q] = mine[q]
    BY <1>1, <2>2 DEF Frame
  <2>4. ASSUME pc'[r] = "set" PROVE \A m \in mine[r] : m.fake # hand'[r]
    <3>1. Choose(r)
      BY <1>1, <1>5, <2>4
         DEF Step, Before, After, Begin, Known, Unknown, SetFails, Send, RestoreOwn,
             RestoreSession, SessionFails, ProviderFails, RestoreChunk, Goto
    <3>2. hand'[r] \notin Fakes
      BY <1>1, <1>2, <3>1 DEF Choose
    <3>3. \A m \in Range(log) : m.fake \in Fakes
      BY <1>1 DEF Range, Fakes
    <3> QED
      BY <1>1, <3>2, <3>3 DEF Stored
  <2>5. \A q \in Requests : pc'[q] = "set" => \A m \in mine'[q] : m.fake # hand'[q]
    BY <1>1, <1>3, <2>3, <2>4 DEF Frame
  <2>6. /\ Range(log') \subseteq UNION {mine'[q] : q \in Requests}
        /\ \A q \in Requests : \A m1, m2 \in mine'[q] : m1.fake = m2.fake => m1 = m2
    BY <1>3, <2>1, <2>3
  <2> QED
    BY <2>5, <2>6 DEF Unraced
<1> QED
  BY <1>4, <1>5

(* The inductive invariant: what a request has in hand, what it stored,    *)
(* what it sent, and where the mappings in the log come from.              *)
THEOREM PrivacyInvariant == Spec => []PrivacyInv
<1>1. Init => PrivacyInv
  <2> SUFFICES ASSUME Init PROVE PrivacyInv
    OBVIOUS
  <2>1. /\ pc = [r \in Requests |-> "new"] /\ log = <<>> /\ mine = [r \in Requests |-> {}]
    BY DEF Init
  <2>2. Gone
    BY <2>1 DEF Gone, Left
  <2>3. Range(log) = {}
    BY <2>1 DEF Range
  <2>4. Unraced
    BY <2>1, <2>3 DEF Unraced
  <2> QED
    BY <2>2, <2>4, InitTypes DEF PrivacyInv
<1>2. PrivacyInv /\ [Next]_vars => PrivacyInv'
  <2> SUFFICES ASSUME PrivacyInv, [Next]_vars PROVE PrivacyInv'
    OBVIOUS
  <2>1. CASE Next
    <3>1. PICK r \in Requests : Begin(r) \/ Step(r)
      BY <2>1 DEF Next
    <3>2. TypeInv
      BY DEF PrivacyInv
    <3>3. TypeOK'
      BY <3>1, <3>2, TypeStep
    <3>4. Filled' /\ Stored'
      BY <3>1, <3>2, FilledStep
    <3>5. Sorted' /\ InHand' /\ Fresh'
      BY <3>1, <3>2, SortedStep
    <3>6. Gone' /\ Unraced'
      BY <3>1, GoneStep, UnracedStep
    <3> QED
      BY <3>3, <3>4, <3>5, <3>6 DEF PrivacyInv, TypeInv
  <2>2. CASE UNCHANGED vars
    <3>1. UNCHANGED <<failOpen, log, faults, pc, text, spans, repl, hand, mine, out, taken, result>>
      BY <2>2 DEF vars, store, working
    <3>2. TypeOK => TypeOK'
      BY <3>1 DEF TypeOK
    <3>3. (Filled => Filled') /\ (Stored => Stored')
      BY <3>1 DEF Filled, Stored
    <3>4. (Sorted => Sorted') /\ (Fresh => Fresh') /\ (InHand => InHand')
      BY <3>1 DEF Sorted, Fresh, InHand, Pending
    <3>5. Gone => Gone'
      BY <3>1 DEF Gone, Left, Pending, Replacements
    <3>6. Unraced => Unraced'
      BY <3>1 DEF Unraced
    <3> QED
      BY <3>2, <3>3, <3>4, <3>5, <3>6 DEF PrivacyInv, TypeInv
  <2> QED
    BY <2>1, <2>2
<1> QED
  BY <1>1, <1>2, PTL DEF Spec

\* Every variable of the privacy gateway keeps its type.
THEOREM TypesHold == Spec => []TypeOK
<1>1. PrivacyInv => TypeOK
  BY DEF PrivacyInv, TypeInv
<1> QED
  BY <1>1, PrivacyInvariant, PTL

(* Whatever the texts, the generator and the number of requests: what a    *)
(* request sends has no word of a detected value left.                     *)
THEOREM NothingLeaves == Spec => []NothingDetectedLeaves
<1>1. ASSUME PrivacyInv, NEW r \in Requests, Left(r), ~Pending(r), Separable(r)
      PROVE  Range(out[r]) \subseteq WordsOf(Undetected(r)) \cup WordsOf(Range(repl[r]))
  <2>1. TypeOK /\ Gone /\ Sorted
    BY <1>1 DEF PrivacyInv, TypeInv
  <2>2. /\ text[r] \in Seq(Values) /\ spans[r] \in Seq(Values) /\ repl[r] \in Seq(Seq(Words))
        /\ Len(repl[r]) <= Len(spans[r]) /\ out[r] \in Seq(Words)
    BY <2>1 DEF TypeOK
  <2>3. Len(repl[r]) = Len(spans[r])
    <3>1. Len(repl[r]) \in Nat /\ Len(spans[r]) \in Nat
      BY <2>2
    <3> QED
      BY <1>1, <2>2, <3>1 DEF Pending
  <2>4. \A i \in 1..Len(spans[r]) : spans[r][i] \in Range(spans[r])
    BY <2>2 DEF Range
  <2>5. Hideable(Words, Values, text[r], spans[r], repl[r])
    <3>1. Values \subseteq Seq(Words) \ {<<>>}
      BY PseudonymsAssumption
    <3>2. \A i, j \in 1..Len(spans[r]) : i < j => Len(spans[r][i]) >= Len(spans[r][j])
      BY <2>1 DEF Sorted
    <3>3. \A i, j \in 1..Len(spans[r]) : ~Interlock(spans[r][i], spans[r][j])
      BY <1>1, <2>4 DEF Separable
    <3> QED
      BY <2>2, <2>3, <3>1, <3>2, <3>3 DEF Hideable
  <2>6. out[r] = Pseudonymize(FlattenSeq(text[r]), Pairs(spans[r], repl[r]))
    BY <1>1, <2>1, SentType DEF Gone
  <2>7. Hidden(out[r], text[r], spans[r], repl[r])
    BY <2>5, <2>6, PseudonymizeHides
  <2>8. Range(out[r]) \subseteq WordsOf(Range(text[r]) \ Range(spans[r])) \cup WordsOf(Range(repl[r]))
    <3>1. /\ Range(text[r]) = {text[r][i] : i \in 1..Len(text[r])}
          /\ Range(spans[r]) = {spans[r][i] : i \in 1..Len(spans[r])}
          /\ Range(repl[r]) = {repl[r][i] : i \in 1..Len(repl[r])}
      BY <2>2 DEF Range
    <3>2. ASSUME NEW w \in Range(out[r]) PROVE \E p \in 1..Len(out[r]) : w = out[r][p]
      BY <2>2 DEF Range
    <3> QED
      BY <2>7, <3>1, <3>2 DEF Hidden
  <2> QED
    BY <2>8 DEF Undetected
<1>2. PrivacyInv => NothingDetectedLeaves
  BY <1>1 DEF NothingDetectedLeaves, PrivacyInv, Gone
<1> QED
  BY <1>2, PrivacyInvariant, PTL

(* However many requests look up, draw and store at the same time: without *)
(* a failure, only a race for a pseudonym makes the two directions of the  *)
(* store disagree.                                                         *)
THEOREM DirectionsHold == Spec => []DirectionsAgree
<1>1. ASSUME PrivacyInv, faults = 0, NEW o \in Originals
      PROVE  OriginalOf(FakeOf(o)) = o \/ Raced(FakeOf(o))
  <2>1. log \in Seq(Mapping) /\ Unraced
    BY <1>1 DEF PrivacyInv, TypeInv, TypeOK
  <2> DEFINE f == FakeOf(o)
  <2>2. PICK i \in 1..Len(log) : log[i].original = o /\ log[i].fake = f
    BY <2>1, StoreMeaning
  <2>3. f \in Fakes
    BY <2>2 DEF Fakes
  <2>4. PICK j \in 1..Len(log) : log[j].fake = f /\ log[j].original = OriginalOf(f)
    BY <2>1, <2>3, StoreMeaning
  <2>5. /\ Range(log) \subseteq UNION {mine[r] : r \in Requests}
        /\ \A r \in Requests : \A m1, m2 \in mine[r] : m1.fake = m2.fake => m1 = m2
    BY <1>1, <2>1 DEF Unraced
  <2>6. log[i] \in Range(log) /\ log[j] \in Range(log)
    BY <2>1 DEF Range
  <2>7. PICK r1 \in Requests, r2 \in Requests : log[i] \in mine[r1] /\ log[j] \in mine[r2]
    BY <2>5, <2>6
  <2>8. CASE r1 = r2
    BY <2>2, <2>4, <2>5, <2>7, <2>8
  <2>9. CASE r1 # r2
    BY <2>2, <2>4, <2>7, <2>9 DEF Raced
  <2> QED
    BY <2>8, <2>9
<1>2. PrivacyInv => DirectionsAgree
  BY <1>1 DEF DirectionsAgree
<1> QED
  BY <1>2, PrivacyInvariant, PTL

-----------------------------------------------------------------------------
(* Replacing from the left, word by word.                                  *)

Starts(y, v) == Len(v) <= Len(y) /\ \A k \in 1..Len(v) : y[k] = v[k]

\* What a scan computes from a place on depends on the words from there on.
LEMMA ScansAgree ==
  ASSUME NEW W, NEW u \in Seq(W), NEW y \in Seq(W),
         NEW old \in Seq(W) \ {<<>>}, NEW new \in Seq(W),
         NEW f, NEW g, Scanned(f, u \o y, old, new), Scanned(g, y, old, new)
  PROVE  \A i \in 1..(Len(y) + 1) : f[Len(u) + i] = g[i]
<1> DEFINE t == u \o y
           a == Len(u)
           L == Len(y)
           K == Len(old)
           T == {m \in Nat : m <= L => \A i \in (L + 1 - m)..(L + 1) : f[a + i] = g[i]}
<1>1. /\ a \in Nat /\ L \in Nat /\ K \in Nat \ {0} /\ t \in Seq(W) /\ Len(t) = a + L
      /\ \A i \in 1..L : t[a + i] = y[i]
  OBVIOUS
<1>2. /\ f[a + L + 1] = <<>> /\ g[L + 1] = <<>>
      /\ \A i \in 1..(a + L) : f[i] = IF Found(t, old, i) THEN new \o f[i + K] ELSE <<t[i]>> \o f[i + 1]
      /\ \A i \in 1..L : g[i] = IF Found(y, old, i) THEN new \o g[i + K] ELSE <<y[i]>> \o g[i + 1]
  BY <1>1 DEF Scanned
<1>3. ASSUME NEW i \in 1..L PROVE Found(t, old, a + i) <=> Found(y, old, i)
  <2>1. a + i \in 1..Len(t)
    BY <1>1
  <2>2. Found(t, old, a + i) <=> At(t, old, a + i)
    BY <1>1, <2>1, FoundMeaning
  <2>3. Found(y, old, i) <=> At(y, old, i)
    BY FoundMeaning
  <2>4. ASSUME i + K - 1 <= L, NEW k \in 1..K PROVE t[a + i + k - 1] = y[i + k - 1]
    <3>1. i + k - 1 \in 1..L /\ a + (i + k - 1) = a + i + k - 1
      BY <1>1, <2>4
    <3> QED
      BY <1>1, <3>1
  <2>5. a + i + K - 1 <= Len(t) <=> i + K - 1 <= L
    BY <1>1
  <2>6. At(t, old, a + i) <=> At(y, old, i)
    BY <2>4, <2>5 DEF At
  <2> QED
    BY <2>2, <2>3, <2>6
<1>4. \A i \in 1..L : Found(y, old, i) => i + K <= L + 1
  BY <1>1 DEF Found
<1> HIDE DEF t, a, L, K
<1>5. 0 \in T
  <2>1. \A i \in (L + 1 - 0)..(L + 1) : i = L + 1
    BY <1>1
  <2>2. f[a + (L + 1)] = g[L + 1]
    BY <1>1, <1>2
  <2> QED
    BY <2>1, <2>2
<1>6. ASSUME NEW m \in T PROVE m + 1 \in T
  <2>1. SUFFICES ASSUME m + 1 <= L
                 PROVE  \A i \in (L + 1 - (m + 1))..(L + 1) : f[a + i] = g[i]
    OBVIOUS
  <2> DEFINE i == L - m
  <2>2. /\ i \in 1..L /\ a + i \in 1..(a + L) /\ L + 1 - (m + 1) = i
        /\ \A j \in i..(L + 1) : j = i \/ j \in (L + 1 - m)..(L + 1)
        /\ i + 1 \in (L + 1 - m)..(L + 1) /\ a + i + 1 = a + (i + 1) /\ a + i + K = a + (i + K)
        /\ i + K <= L + 1 => i + K \in (L + 1 - m)..(L + 1)
    BY <1>1, <2>1
  <2>3. \A j \in (L + 1 - m)..(L + 1) : f[a + j] = g[j]
    <3>1. m \in Nat /\ m <= L
      BY <1>1, <2>1
    <3> QED
      BY <3>1
  <2> HIDE DEF i
  <2>4. f[a + i + 1] = g[i + 1] /\ t[a + i] = y[i]
    BY <1>1, <2>2, <2>3
  <2>5. Found(y, old, i) => f[a + i + K] = g[i + K]
    BY <1>4, <2>2, <2>3
  <2>6. f[a + i] = g[i]
    <3>1. f[a + i] = IF Found(t, old, a + i) THEN new \o f[a + i + K] ELSE <<t[a + i]>> \o f[a + i + 1]
      BY <1>2, <2>2
    <3>2. g[i] = IF Found(y, old, i) THEN new \o g[i + K] ELSE <<y[i]>> \o g[i + 1]
      BY <1>2, <2>2
    <3>3. Found(t, old, a + i) <=> Found(y, old, i)
      BY <1>3, <2>2
    <3> QED
      BY <2>4, <2>5, <3>1, <3>2, <3>3
  <2> QED
    BY <2>2, <2>3, <2>6
<1> HIDE DEF T
<1>7. T = Nat
  BY <1>5, <1>6, Induction DEF T
<1>8. L \in T /\ L + 1 - L = 1
  BY <1>1, <1>7
<1> QED
  BY <1>8 DEF T, a, L

\* How Substitute proceeds.
LEMMA SubstituteNothing ==
  ASSUME NEW old, NEW new, Len(old) \in Nat \ {0}
  PROVE  Substitute(<<>>, old, new) = <<>>
<1>1. Len(<<>>) = 0
  OBVIOUS
<1>2. PICK f : Scanned(f, <<>>, old, new) /\ Substitute(<<>>, old, new) = f[1]
  BY <1>1, SubstituteIs
<1> QED
  BY <1>1, <1>2 DEF Scanned

\* The old value at the front gives way to the new one, and any other word
\* there stays.
Hits(W, old, new) ==
  \A y \in Seq(W) : Substitute(old \o y, old, new) = new \o Substitute(y, old, new)

Misses(W, old, new) ==
  \A s \in Seq(W) : s # <<>> /\ ~Starts(s, old) =>
    Substitute(s, old, new) = <<s[1]>> \o Substitute(Tail(s), old, new)

LEMMA SubstituteHit ==
  ASSUME NEW W, NEW old \in Seq(W) \ {<<>>}, NEW new \in Seq(W)
  PROVE  Hits(W, old, new)
<1> SUFFICES ASSUME NEW y \in Seq(W)
             PROVE  Substitute(old \o y, old, new) = new \o Substitute(y, old, new)
  BY DEF Hits
<1> DEFINE t == old \o y
           K == Len(old)
<1>1. /\ t \in Seq(W) /\ Len(t) = K + Len(y) /\ K \in Nat \ {0} /\ Len(y) \in Nat
      /\ \A k \in 1..K : t[k] = old[k]
  OBVIOUS
<1>2. PICK f : Scanned(f, t, old, new) /\ Substitute(t, old, new) = f[1]
  BY <1>1, SubstituteIs
<1>3. PICK g : Scanned(g, y, old, new) /\ Substitute(y, old, new) = g[1]
  BY <1>1, SubstituteIs
<1>4. \A i \in 1..(Len(y) + 1) : f[K + i] = g[i]
  BY <1>2, <1>3, ScansAgree
<1>5. f[K + 1] = g[1]
  BY <1>1, <1>4
<1> HIDE DEF t, K
<1>6. Found(t, old, 1)
  <2>1. 1 \in 1..Len(t)
    BY <1>1
  <2>2. At(t, old, 1)
    BY <1>1 DEF At, K
  <2> QED
    BY <1>1, <2>1, <2>2, FoundMeaning
<1>7. f[1] = new \o f[K + 1]
  <2>1. 1 \in 1..Len(t) /\ 1 + Len(old) = K + 1
    BY <1>1 DEF K
  <2> QED
    BY <1>2, <1>6, <2>1 DEF Scanned
<1>8. Substitute(t, old, new) = new \o Substitute(y, old, new)
  BY <1>2, <1>3, <1>5, <1>7
<1> QED
  BY <1>8 DEF t

LEMMA SubstituteMiss ==
  ASSUME NEW W, NEW old \in Seq(W) \ {<<>>}, NEW new \in Seq(W)
  PROVE  Misses(W, old, new)
<1> SUFFICES ASSUME NEW s \in Seq(W), s # <<>>, ~Starts(s, old)
             PROVE  Substitute(s, old, new) = <<s[1]>> \o Substitute(Tail(s), old, new)
  BY DEF Misses
<1> DEFINE u == <<s[1]>>
           y == Tail(s)
           t == u \o y
<1>0. t = s
  OBVIOUS
<1>1. /\ t \in Seq(W) /\ Len(t) = 1 + Len(y) /\ Len(old) \in Nat \ {0} /\ Len(y) \in Nat
      /\ y \in Seq(W) /\ u \in Seq(W) /\ Len(u) = 1
  OBVIOUS
<1>2. PICK f : Scanned(f, t, old, new) /\ Substitute(t, old, new) = f[1]
  BY <1>1, SubstituteIs
<1>3. PICK g : Scanned(g, y, old, new) /\ Substitute(y, old, new) = g[1]
  BY <1>1, SubstituteIs
<1> HIDE DEF u, y
<1>4. \A i \in 1..(Len(y) + 1) : f[Len(u) + i] = g[i]
  BY <1>1, <1>2, <1>3, ScansAgree
<1>5. f[1 + 1] = g[1]
  BY <1>1, <1>4
<1>6. ~Found(t, old, 1)
  <2>1. 1 \in 1..Len(t)
    BY <1>1
  <2>2. At(t, old, 1) => Starts(t, old)
    BY <1>1 DEF At, Starts
  <2>3. ~Starts(t, old)
    BY <1>0
  <2> HIDE DEF t
  <2> QED
    BY <1>1, <2>1, <2>2, <2>3, FoundMeaning
<1> HIDE DEF t
<1>7. f[1] = <<t[1]>> \o f[1 + 1]
  <2>1. 1 \in 1..Len(t)
    BY <1>1
  <2> QED
    BY <1>2, <1>6, <2>1 DEF Scanned
<1>8. Substitute(t, old, new) = <<t[1]>> \o Substitute(y, old, new)
  BY <1>2, <1>3, <1>5, <1>7
<1> QED
  BY <1>0, <1>8 DEF y

-----------------------------------------------------------------------------
(* Texts put together from pieces                                          *)

LEMMA FirstWord ==
  ASSUME NEW W, NEW v \in Seq(W), v # <<>>, NEW y \in Seq(W)
  PROVE  v \o y = <<v[1]>> \o (Tail(v) \o y)
<1> DEFINE a == <<v[1]>>
           t == Tail(v)
<1>1. a \in Seq(W) /\ t \in Seq(W) /\ v = a \o t
  OBVIOUS
<1> HIDE DEF a, t
<1>2. a \o (t \o y) = (a \o t) \o y
  BY SMTT(30), <1>1, ConcatAssociative
<1>3. a \o (t \o y) = v \o y
  BY <1>1, <1>2
<1> QED
  BY <1>3 DEF a, t

\* What the user wrote, and beside it what became of it, piece by piece.
Beside(p, z) == <<p[1] \o z[1], p[2] \o z[2]>>

Closed(Z, P) == <<<<>>, <<>>>> \in Z /\ \A p \in P, z \in Z : Beside(p, z) \in Z

\* The least relation of texts that can be put together from the pieces P.
Tiled(W, P) == {z \in Seq(W) \X Seq(W) : \A Z : Closed(Z, P) => z \in Z}

LEMMA TiledClosed ==
  ASSUME NEW W, NEW P \in SUBSET (Seq(W) \X Seq(W))
  PROVE  Closed(Tiled(W, P), P)
<1>1. <<<<>>, <<>>>> \in Tiled(W, P)
  <2>1. <<<<>>, <<>>>> \in Seq(W) \X Seq(W)
    BY EmptySeq
  <2> QED
    BY <2>1 DEF Tiled, Closed
<1>2. ASSUME NEW p \in P, NEW z \in Tiled(W, P) PROVE Beside(p, z) \in Tiled(W, P)
  <2>1. p \in Seq(W) \X Seq(W) /\ z \in Seq(W) \X Seq(W)
    BY DEF Tiled
  <2>2. Beside(p, z) \in Seq(W) \X Seq(W)
    <3>1. p[1] \o z[1] \in Seq(W) /\ p[2] \o z[2] \in Seq(W)
      BY <2>1
    <3> QED
      BY <3>1 DEF Beside
  <2>3. \A Z : Closed(Z, P) => Beside(p, z) \in Z
    BY DEF Tiled, Closed
  <2> QED
    BY <2>2, <2>3 DEF Tiled
<1> QED
  BY <1>1, <1>2 DEF Closed

\* Induction along the pieces.
LEMMA TiledLeast ==
  ASSUME NEW W, NEW P, NEW Z, Closed(Z, P)
  PROVE  Tiled(W, P) \subseteq Z
BY DEF Tiled

LEMMA TiledMonotone ==
  ASSUME NEW W, NEW P, NEW Q, P \subseteq Q
  PROVE  Tiled(W, P) \subseteq Tiled(W, Q)
<1>1. \A Z : Closed(Z, Q) => Closed(Z, P)
  BY DEF Closed
<1> QED
  BY <1>1 DEF Tiled

LEMMA TiledCases ==
  ASSUME NEW W, NEW P \in SUBSET (Seq(W) \X Seq(W)), NEW z \in Tiled(W, P)
  PROVE  z = <<<<>>, <<>>>> \/ \E p \in P, t \in Tiled(W, P) : z = Beside(p, t)
<1> DEFINE Z == {t \in Tiled(W, P) : t = <<<<>>, <<>>>> \/ \E p \in P, u \in Tiled(W, P) : t = Beside(p, u)}
<1>1. Closed(Tiled(W, P), P)
  BY TiledClosed
<1>2. Closed(Z, P)
  BY <1>1 DEF Closed
<1> HIDE DEF Z
<1>3. z \in Z
  BY <1>2, TiledLeast
<1> QED
  BY <1>3 DEF Z

Plain(R) == {<<<<w>>, <<w>>>> : w \in R}

\* Words that have stayed as they were.
LEMMA PlainTiled ==
  ASSUME NEW W, NEW R \in SUBSET W, NEW P \in SUBSET (Seq(W) \X Seq(W)), Plain(R) \subseteq P,
         NEW z \in Tiled(W, P), NEW u \in Seq(R)
  PROVE  <<u \o z[1], u \o z[2]>> \in Tiled(W, P)
<1>1. z[1] \in Seq(W) /\ z[2] \in Seq(W) /\ z = <<z[1], z[2]>>
  BY DEF Tiled
<1> DEFINE T == {n \in Nat : \A v \in Seq(R) : Len(v) = n => <<v \o z[1], v \o z[2]>> \in Tiled(W, P)}
<1>2. 0 \in T
  <2> SUFFICES ASSUME NEW v \in Seq(R), Len(v) = 0 PROVE <<v \o z[1], v \o z[2]>> \in Tiled(W, P)
    OBVIOUS
  <2>1. v = <<>>
    OBVIOUS
  <2>2. v \o z[1] = z[1] /\ v \o z[2] = z[2]
    BY <1>1, <2>1
  <2> QED
    BY <1>1, <2>2
<1>3. ASSUME NEW n \in T PROVE n + 1 \in T
  <2>0. n \in Nat /\ n + 1 \in Nat
    OBVIOUS
  <2> SUFFICES ASSUME NEW v \in Seq(R), Len(v) = n + 1 PROVE <<v \o z[1], v \o z[2]>> \in Tiled(W, P)
    BY <2>0
  <2> DEFINE w == v[1]
             t == Tail(v)
  <2>1. n \in Nat /\ w \in R /\ w \in W /\ t \in Seq(R) /\ t \in Seq(W) /\ Len(t) = n /\ v = <<w>> \o t
    OBVIOUS
  <2> HIDE DEF w, t
  <2>2. <<t \o z[1], t \o z[2]>> \in Tiled(W, P)
    BY <2>1
  <2>3. <<<<w>>, <<w>>>> \in P
    BY <2>1 DEF Plain
  <2>4. <<<<w>> \o (t \o z[1]), <<w>> \o (t \o z[2])>> \in Tiled(W, P)
    BY <2>2, <2>3, TiledClosed DEF Closed, Beside
  <2>5. v \in Seq(W) /\ v # <<>>
    BY <2>0
  <2>6. v \o z[1] = <<w>> \o (t \o z[1]) /\ v \o z[2] = <<w>> \o (t \o z[2])
    BY <1>1, <2>5, FirstWord DEF w, t
  <2> QED
    BY <2>4, <2>6
<1> HIDE DEF T
<1>4. T = Nat
  BY <1>2, <1>3, Induction DEF T
<1>5. Len(u) \in T
  BY <1>4
<1> QED
  BY <1>5 DEF T

LEMMA PlainAlone ==
  ASSUME NEW W, NEW R \in SUBSET W, NEW z \in Tiled(W, Plain(R))
  PROVE  z[1] = z[2]
<1> DEFINE Z == {t \in Seq(W) \X Seq(W) : t[1] = t[2]}
<1>1. <<<<>>, <<>>>> \in Z
  BY EmptySeq
<1>2. ASSUME NEW p \in Plain(R), NEW t \in Z PROVE Beside(p, t) \in Z
  <2>1. PICK w \in R : p = <<<<w>>, <<w>>>>
    BY DEF Plain
  <2>2. <<w>> \o t[1] \in Seq(W) /\ t[1] = t[2]
    OBVIOUS
  <2> QED
    BY <2>1, <2>2 DEF Beside
<1> HIDE DEF Z
<1>3. Closed(Z, Plain(R))
  BY <1>1, <1>2 DEF Closed
<1>4. z \in Z
  BY <1>3, TiledLeast
<1> QED
  BY <1>4 DEF Z

Disjoint(u, v) == \A a \in 1..Len(u), b \in 1..Len(v) : u[a] # v[b]

\* A replacement passes over words that the old value does not have.
Skips(W, old, new) ==
  \A u, y \in Seq(W) : Disjoint(u, old) =>
    Substitute(u \o y, old, new) = u \o Substitute(y, old, new)

LEMMA SubstituteSkip ==
  ASSUME NEW W, NEW old \in Seq(W) \ {<<>>}, NEW new \in Seq(W)
  PROVE  Skips(W, old, new)
<1> SUFFICES ASSUME NEW y \in Seq(W)
             PROVE  \A u \in Seq(W) : Disjoint(u, old) =>
                      Substitute(u \o y, old, new) = u \o Substitute(y, old, new)
  BY DEF Skips
<1> DEFINE x == Substitute(y, old, new)
           T == {n \in Nat : \A v \in Seq(W) : Len(v) = n /\ Disjoint(v, old) =>
                   Substitute(v \o y, old, new) = v \o x}
<1>0. \A s \in Seq(W) : s # <<>> /\ ~Starts(s, old) =>
        Substitute(s, old, new) = <<s[1]>> \o Substitute(Tail(s), old, new)
  BY SubstituteMiss DEF Misses
<1>1. x \in Seq(W)
  BY SubstituteType
<1> HIDE DEF x
<1>2. 0 \in T
  <2> SUFFICES ASSUME NEW v \in Seq(W), Len(v) = 0 PROVE Substitute(v \o y, old, new) = v \o x
    OBVIOUS
  <2>1. v = <<>>
    OBVIOUS
  <2>2. v \o y = y /\ v \o x = x
    BY <1>1, <2>1
  <2> QED
    BY <2>2 DEF x
<1>3. ASSUME NEW n \in T PROVE n + 1 \in T
  <2> SUFFICES ASSUME NEW v \in Seq(W), Len(v) = n + 1, Disjoint(v, old)
               PROVE  Substitute(v \o y, old, new) = v \o x
    OBVIOUS
  <2> DEFINE w == v[1]
             t == Tail(v)
  <2>1. /\ n \in Nat /\ w \in W /\ t \in Seq(W) /\ Len(t) = n /\ v = <<w>> \o t
        /\ \A a \in 1..Len(t) : t[a] = v[a + 1] /\ a + 1 \in 1..Len(v)
        /\ 1 \in 1..Len(v) /\ 1 \in 1..Len(old)
    OBVIOUS
  <2>2. w # old[1] /\ Disjoint(t, old)
    BY <2>1 DEF Disjoint
  <2> HIDE DEF w, t
  <2>3. Substitute(t \o y, old, new) = t \o x
    BY <2>1, <2>2
  <2>4. v \o y \in Seq(W) /\ v \o y # <<>> /\ (v \o y)[1] = w /\ Tail(v \o y) = t \o y
    BY <2>1 DEF t, w
  <2>5. ~Starts(v \o y, old)
    BY <2>1, <2>2, <2>4 DEF Starts
  <2>6. Substitute(v \o y, old, new) = <<w>> \o Substitute(t \o y, old, new)
    BY <1>0, <2>4, <2>5
  <2>7. v \o x = <<w>> \o (t \o x)
    <3>1. v # <<>>
      BY <2>1
    <3> QED
      BY <1>1, <3>1, FirstWord DEF w, t
  <2> QED
    BY <2>3, <2>6, <2>7
<1> HIDE DEF T
<1>4. T = Nat
  BY <1>2, <1>3, Induction DEF T
<1>5. \A u \in Seq(W) : Len(u) \in T
  BY <1>4
<1> QED
  BY <1>5 DEF T, x

\* Values and the pseudonyms that stand for them; a pseudonym is not empty.
Masks(W, R) == Seq(R) \X (Seq(W) \ {<<>>})

LEMMA PiecesType ==
  ASSUME NEW W, NEW R \in SUBSET W, NEW M \in SUBSET Masks(W, R)
  PROVE  /\ Plain(R) \cup M \in SUBSET (Seq(W) \X Seq(W))
         /\ \A p \in Plain(R) \cup M : p[2] # <<>>
<1>1. ASSUME NEW p \in Plain(R) PROVE p \in Seq(W) \X Seq(W) /\ p[2] # <<>>
  <2>1. PICK w \in R : p = <<<<w>>, <<w>>>>
    BY DEF Plain
  <2>2. <<w>> \in Seq(W) /\ <<w>> # <<>>
    OBVIOUS
  <2> QED
    BY <2>1, <2>2
<1>2. ASSUME NEW p \in M PROVE p \in Seq(W) \X Seq(W) /\ p[2] # <<>>
  <2>1. Seq(R) \subseteq Seq(W)
    BY SeqMonotonic
  <2> QED
    BY <2>1 DEF Masks
<1> QED
  BY <1>1, <1>2

\* A value that lies in what has become of a text, word by word, lies in the
\* text.
Avoids(M, u) == \A m \in M : Disjoint(m[2], u)

LEMMA Strip ==
  ASSUME NEW W, NEW R \in SUBSET W, NEW M \in SUBSET Masks(W, R), NEW u \in Seq(R), Avoids(M, u)
  PROVE  \A x, y \in Seq(W) : <<x, u \o y>> \in Tiled(W, Plain(R) \cup M) =>
           \E s \in Seq(W) : x = u \o s /\ <<s, y>> \in Tiled(W, Plain(R) \cup M)
<1> SUFFICES ASSUME NEW x \in Seq(W), NEW y \in Seq(W), <<x, u \o y>> \in Tiled(W, Plain(R) \cup M)
             PROVE  \E s \in Seq(W) : x = u \o s /\ <<s, y>> \in Tiled(W, Plain(R) \cup M)
  OBVIOUS
<1> DEFINE P == Plain(R) \cup M
           T == {n \in Nat : \A v \in Seq(R), t \in Seq(W) :
                   /\ Len(v) = n /\ Avoids(M, v)
                   /\ <<t, v \o y>> \in Tiled(W, P)
                   => \E s \in Seq(W) : t = v \o s /\ <<s, y>> \in Tiled(W, P)}
<1>1. P \in SUBSET (Seq(W) \X Seq(W)) /\ \A p \in P : p[2] # <<>>
  BY PiecesType
<1> HIDE DEF P
<1>6. ASSUME NEW z \in Tiled(W, P)
      PROVE  z = <<<<>>, <<>>>> \/ \E p \in P, q \in Tiled(W, P) : z = Beside(p, q)
  <2>1. P \in SUBSET (Seq(W) \X Seq(W))
    BY <1>1
  <2> QED
    BY <2>1, TiledCases
<1>2. 0 \in T
  <2> SUFFICES ASSUME NEW v \in Seq(R), NEW t \in Seq(W), Len(v) = 0, <<t, v \o y>> \in Tiled(W, P)
               PROVE  t = v \o t /\ <<t, y>> \in Tiled(W, P)
    OBVIOUS
  <2>1. v = <<>>
    OBVIOUS
  <2>2. v \o y = y /\ v \o t = t
    BY <2>1
  <2> QED
    BY <2>2
<1>3. ASSUME NEW n \in T PROVE n + 1 \in T
  <2>0. n \in Nat /\ n + 1 \in Nat
    OBVIOUS
  <2>1. \A v \in Seq(R), t \in Seq(W) :
          /\ Len(v) = n /\ Avoids(M, v)
          /\ <<t, v \o y>> \in Tiled(W, P)
          => \E s \in Seq(W) : t = v \o s /\ <<s, y>> \in Tiled(W, P)
    OBVIOUS
  <2> SUFFICES ASSUME NEW v \in Seq(R), NEW t \in Seq(W), Len(v) = n + 1,
                      Avoids(M, v), <<t, v \o y>> \in Tiled(W, P)
               PROVE  \E s \in Seq(W) : t = v \o s /\ <<s, y>> \in Tiled(W, P)
    BY <2>0
  <2> HIDE DEF T
  <2> DEFINE w == v[1]
             b == Tail(v)
  <2>2. /\ w \in R /\ w \in W /\ b \in Seq(R) /\ b \in Seq(W) /\ v \in Seq(W) /\ Len(b) = n
        /\ \A a \in 1..Len(b) : b[a] = v[a + 1] /\ a + 1 \in 1..Len(v)
        /\ 1 \in 1..Len(v) /\ v # <<>>
    BY <2>0
  <2>3. v \o y \in Seq(W) /\ v \o y # <<>> /\ (v \o y)[1] = w /\ Tail(v \o y) = b \o y
    BY <2>2
  <2>4. PICK p \in P, q \in Tiled(W, P) : <<t, v \o y>> = Beside(p, q)
    BY <1>6, <2>3
  <2>5. /\ t = p[1] \o q[1] /\ v \o y = p[2] \o q[2] /\ q = <<q[1], q[2]>>
        /\ q[1] \in Seq(W) /\ q[2] \in Seq(W) /\ p[1] \in Seq(W) /\ p[2] \in Seq(W)
    BY <1>1, <2>4 DEF Beside, Tiled
  <2>6. p[2][1] = w /\ 1 \in 1..Len(p[2])
    BY <1>1, <2>3, <2>5
  <2>7. p \in Plain(R)
    BY <2>2, <2>6 DEF P, Avoids, Disjoint
  <2>8. p[1] = <<w>> /\ p[2] = <<w>>
    BY <2>6, <2>7 DEF Plain
  <2>9. q[2] = b \o y
    <3> DEFINE c == q[2]
    <3>1. c \in Seq(W) /\ v \o y = <<w>> \o c
      BY <2>5, <2>8
    <3> HIDE DEF c, w
    <3>2. Tail(<<w>> \o c) = c
      BY SMTT(30), <2>2, <3>1
    <3> QED
      BY <2>3, <3>1, <3>2 DEF c
  <2>10. Avoids(M, b)
    BY <2>2 DEF Avoids, Disjoint
  <2> HIDE DEF b, w
  <2>11. PICK s \in Seq(W) : q[1] = b \o s /\ <<s, y>> \in Tiled(W, P)
    <3>1. <<q[1], b \o y>> \in Tiled(W, P)
      BY <2>4, <2>5, <2>9
    <3> QED
      BY <2>1, <2>2, <2>5, <2>10, <3>1
  <2>12. v \o s = <<w>> \o (b \o s)
    BY <2>2, FirstWord DEF b, w
  <2> QED
    BY <2>5, <2>8, <2>11, <2>12
<1> HIDE DEF T
<1>4. T = Nat
  BY <1>2, <1>3, Induction DEF T
<1>5. Len(u) \in T
  BY <1>4
<1> QED
  BY <1>5 DEF T, P

\* Where a word of a pseudonym that is in no other piece comes at the earliest.
LEMMA NotBefore ==
  ASSUME NEW W, NEW R \in SUBSET W, NEW M \in SUBSET Masks(W, R), NEW k \in Nat, NEW g,
         g \notin R, \A m \in M : \A j \in 1..Len(m[2]) : m[2][j] = g => j >= k,
         NEW z \in Tiled(W, Plain(R) \cup M)
  PROVE  \A j \in 1..Len(z[2]) : z[2][j] = g => j >= k
<1> DEFINE P == Plain(R) \cup M
           Z == {t \in Seq(W) \X Seq(W) : \A j \in 1..Len(t[2]) : t[2][j] = g => j >= k}
<1>1. P \in SUBSET (Seq(W) \X Seq(W)) /\ \A p \in P : p[2] # <<>>
  BY PiecesType
<1>2. <<<<>>, <<>>>> \in Z
  <2>1. <<<<>>, <<>>>> \in Seq(W) \X Seq(W)
    BY EmptySeq
  <2>2. \A j \in 1..Len(<<<<>>, <<>>>>[2]) : FALSE
    OBVIOUS
  <2> QED
    BY <2>1, <2>2
<1>3. ASSUME NEW p \in P, NEW t \in Z PROVE Beside(p, t) \in Z
  <2>1. /\ p[1] \in Seq(W) /\ p[2] \in Seq(W) /\ t[1] \in Seq(W) /\ t[2] \in Seq(W)
        /\ \A j \in 1..Len(t[2]) : t[2][j] = g => j >= k
    BY <1>1
  <2> DEFINE a == p[2]
             b == t[2]
             c == a \o b
  <2>2. \A j \in 1..Len(a) : a[j] = g => j >= k
    <3>1. CASE p \in Plain(R)
      <4>1. PICK w \in R : p = <<<<w>>, <<w>>>>
        BY <3>1 DEF Plain
      <4> QED
        BY <4>1
    <3>2. CASE p \in M
      BY <3>2
    <3> QED
      BY <3>1, <3>2
  <2>3. Beside(p, t) = <<p[1] \o t[1], c>> /\ p[1] \o t[1] \in Seq(W)
    BY <2>1 DEF Beside
  <2> HIDE DEF a, b
  <2>4. c \in Seq(W) /\ \A j \in 1..Len(c) : c[j] = g => j >= k
    <3>1. a \in Seq(W) /\ b \in Seq(W) /\ Len(a) \in Nat /\ Len(b) \in Nat
      BY <2>1 DEF a, b
    <3>2. \A j \in 1..Len(b) : b[j] = g => j >= k
      BY <2>1 DEF b
    <3>3. /\ c \in Seq(W) /\ Len(c) = Len(a) + Len(b)
          /\ \A j \in 1..Len(c) : c[j] = IF j <= Len(a) THEN a[j] ELSE b[j - Len(a)]
      BY <3>1, ConcatProperties
    <3> HIDE DEF c
    <3>4. ASSUME NEW j \in 1..Len(c), c[j] = g PROVE j >= k
      <4>1. CASE j <= Len(a)
        <5>1. j \in 1..Len(a)
          BY <3>1, <3>3, <4>1
        <5> QED
          BY <2>2, <3>3, <3>4, <4>1, <5>1
      <4>2. CASE ~(j <= Len(a))
        <5>1. j - Len(a) \in 1..Len(b)
          BY <3>1, <3>3, <4>2
        <5>2. j - Len(a) >= k
          BY <3>2, <3>3, <3>4, <4>2, <5>1
        <5> QED
          BY <3>1, <5>2
      <4> QED
        BY <4>1, <4>2
    <3> QED
      BY <3>3, <3>4
  <2> DEFINE e == p[1] \o t[1]
  <2>5. Beside(p, t) = <<e, c>> /\ e \in Seq(W)
    BY <2>3
  <2> HIDE DEF c, e
  <2>6. <<e, c>> \in Z
    BY <2>4, <2>5
  <2> QED
    BY <2>5, <2>6
<1> HIDE DEF Z, P
<1>4. Closed(Z, P)
  BY <1>2, <1>3 DEF Closed
<1>5. z \in Z
  BY <1>4, TiledLeast DEF P
<1> QED
  BY <1>5 DEF Z

\* A value gives way to its pseudonym.
LEMMA SubstituteMasks ==
  ASSUME NEW W, NEW R \in SUBSET W, NEW M \in SUBSET Masks(W, R),
         NEW v \in Seq(R) \ {<<>>}, NEW f \in Seq(W) \ {<<>>}, Avoids(M, v),
         NEW x, NEW y, <<x, y>> \in Tiled(W, Plain(R) \cup M)
  PROVE  <<x, Substitute(y, v, f)>> \in Tiled(W, Plain(R) \cup (M \cup {<<v, f>>}))
<1> DEFINE P == Plain(R) \cup M
           Q == Plain(R) \cup (M \cup {<<v, f>>})
           T == {n \in Nat : \A s, t \in Seq(W) : <<s, t>> \in Tiled(W, P) /\ Len(t) <= n =>
                   <<s, Substitute(t, v, f)>> \in Tiled(W, Q)}
<1>1. P \in SUBSET (Seq(W) \X Seq(W)) /\ \A p \in P : p[2] # <<>>
  BY PiecesType
<1>2. v \in Seq(W) \ {<<>>} /\ Seq(R) \subseteq Seq(W)
  BY SeqMonotonic
<1>3. Closed(Tiled(W, Q), Q)
  <2>1. <<v, f>> \in Masks(W, R)
    BY DEF Masks
  <2>2. M \cup {<<v, f>>} \in SUBSET Masks(W, R)
    BY <2>1
  <2>3. Q \in SUBSET (Seq(W) \X Seq(W))
    BY <2>2, PiecesType
  <2> HIDE DEF Q
  <2> QED
    BY <2>3, TiledClosed
<1>4. P \subseteq Q /\ <<v, f>> \in Q
  OBVIOUS
<1>5. \A m \in M : Disjoint(m[2], v)
  BY DEF Avoids
<1>6. ASSUME NEW s \in Seq(W), NEW b \in Seq(W), <<s, v \o b>> \in Tiled(W, P)
      PROVE  \E c \in Seq(W) : s = v \o c /\ <<c, b>> \in Tiled(W, P)
  <2>1. v \in Seq(R)
    OBVIOUS
  <2>2. \A a, e \in Seq(W) : <<a, v \o e>> \in Tiled(W, Plain(R) \cup M) =>
          \E c \in Seq(W) : a = v \o c /\ <<c, e>> \in Tiled(W, Plain(R) \cup M)
    BY <2>1, Strip
  <2> QED
    BY <1>6, <2>2
<1>17. Hits(W, v, f) /\ Misses(W, v, f)
  <2>1. v \in Seq(W) \ {<<>>} /\ f \in Seq(W)
    BY <1>2
  <2> QED
    BY <2>1, SubstituteHit, SubstituteMiss
<1>18. Skips(W, v, f)
  <2>1. v \in Seq(W) \ {<<>>} /\ f \in Seq(W)
    BY <1>2
  <2> QED
    BY <2>1, SubstituteSkip
<1> HIDE DEF P, Q
<1>7. ASSUME NEW z \in Tiled(W, P)
      PROVE  z = <<<<>>, <<>>>> \/ \E p \in P, q \in Tiled(W, P) : z = Beside(p, q)
  <2>1. P \in SUBSET (Seq(W) \X Seq(W))
    BY <1>1
  <2> QED
    BY <2>1, TiledCases
<1>8. Substitute(<<>>, v, f) = <<>>
  <2>1. Len(v) \in Nat \ {0}
    BY <1>2
  <2> QED
    BY <2>1, SubstituteNothing
<1>9. \A n \in Nat : n + 1 \in Nat /\ \A l \in Nat : l <= n + 1 /\ ~(l <= n) => l = n + 1
  OBVIOUS
<1>10. ASSUME NEW s \in Seq(W), NEW t \in Seq(W), <<s, t>> \in Tiled(W, P), t # <<>>,
              \A a, b \in Seq(W) : <<a, b>> \in Tiled(W, P) /\ Len(b) < Len(t) =>
                   <<a, Substitute(b, v, f)>> \in Tiled(W, Q)
       PROVE  <<s, Substitute(t, v, f)>> \in Tiled(W, Q)
  <2>1. CASE Starts(t, v)
    <3> DEFINE b == SubSeq(t, Len(v) + 1, Len(t))
    <3>1. b \in Seq(W) /\ t = v \o b /\ Len(b) < Len(t)
      BY <1>2, <2>1 DEF Starts
    <3> HIDE DEF b
    <3>2. PICK a \in Seq(W) : s = v \o a /\ <<a, b>> \in Tiled(W, P)
      BY <1>6, <1>10, <3>1
    <3>3. <<a, Substitute(b, v, f)>> \in Tiled(W, Q)
      BY <1>10, <3>1, <3>2
    <3>4. Substitute(t, v, f) = f \o Substitute(b, v, f)
      <4>1. Substitute(v \o b, v, f) = f \o Substitute(b, v, f)
        BY <1>17, <3>1 DEF Hits
      <4> QED
        BY <3>1, <4>1
    <3>5. Beside(<<v, f>>, <<a, Substitute(b, v, f)>>) \in Tiled(W, Q)
      BY <1>3, <1>4, <3>3 DEF Closed
    <3> QED
      BY <3>2, <3>4, <3>5 DEF Beside
  <2>2. CASE ~Starts(t, v)
    <3>1. PICK p \in P, q \in Tiled(W, P) : <<s, t>> = Beside(p, q)
      BY <1>7, <1>10
    <3>2. /\ s = p[1] \o q[1] /\ t = p[2] \o q[2] /\ q = <<q[1], q[2]>> /\ p = <<p[1], p[2]>>
          /\ q[1] \in Seq(W) /\ q[2] \in Seq(W) /\ p[1] \in Seq(W) /\ p[2] \in Seq(W) /\ p[2] # <<>>
      BY <1>1, <3>1 DEF Beside, Tiled
    <3> DEFINE b == q[2]
               e == p[2]
    <3>3. Len(b) < Len(t) /\ t = e \o b /\ e \in Seq(W) /\ b \in Seq(W)
      BY <3>2
    <3>4. <<q[1], Substitute(b, v, f)>> \in Tiled(W, Q)
      <4>1. <<q[1], b>> \in Tiled(W, P)
        BY <3>1, <3>2
      <4> HIDE DEF b
      <4> QED
        BY <1>10, <3>2, <3>3, <4>1
    <3> HIDE DEF b, e
    <3>5. Substitute(t, v, f) = e \o Substitute(b, v, f)
      <4>1. CASE p \in Plain(R)
        <5>1. PICK w \in R : e = <<w>>
          BY <4>1 DEF Plain, e
        <5>2. t[1] = w /\ Tail(t) = b
          BY <3>3, <5>1
        <5>3. Substitute(t, v, f) = <<t[1]>> \o Substitute(Tail(t), v, f)
          BY <1>10, <1>17, <2>2 DEF Misses
        <5> QED
          BY <5>1, <5>2, <5>3
      <4>2. CASE p \in M
        <5>1. Disjoint(e, v)
          BY <1>5, <4>2 DEF e
        <5>2. Substitute(e \o b, v, f) = e \o Substitute(b, v, f)
          BY <1>18, <3>3, <5>1 DEF Skips
        <5> QED
          BY <3>3, <5>2
      <4> QED
        BY <4>1, <4>2 DEF P
    <3>6. Beside(p, <<q[1], Substitute(b, v, f)>>) \in Tiled(W, Q)
      BY <1>3, <1>4, <3>4 DEF Closed
    <3> QED
      BY <3>2, <3>5, <3>6 DEF Beside, e
  <2> QED
    BY <2>1, <2>2
<1>11. ASSUME NEW s \in Seq(W), <<s, <<>>>> \in Tiled(W, P)
       PROVE  <<s, Substitute(<<>>, v, f)>> \in Tiled(W, Q)
  <2>1. s = <<>>
    <3>1. CASE <<s, <<>>>> = <<<<>>, <<>>>>
      BY <3>1
    <3>2. ASSUME NEW p \in P, NEW q \in Tiled(W, P), <<s, <<>>>> = Beside(p, q) PROVE FALSE
      <4>1. p[2] \o q[2] = <<>> /\ p[2] \in Seq(W) /\ q[2] \in Seq(W) /\ p[2] # <<>>
        BY <1>1, <3>2 DEF Beside, Tiled
      <4> QED
        BY <4>1
    <3> QED
      BY <1>7, <1>11, <3>1, <3>2
  <2> QED
    BY <1>3, <1>8, <2>1 DEF Closed
<1>12. 0 \in T
  <2> SUFFICES ASSUME NEW s \in Seq(W), NEW t \in Seq(W), <<s, t>> \in Tiled(W, P), Len(t) <= 0
               PROVE  <<s, Substitute(t, v, f)>> \in Tiled(W, Q)
    OBVIOUS
  <2>1. t = <<>>
    OBVIOUS
  <2> QED
    BY <1>11, <2>1
<1>13. ASSUME NEW n \in T PROVE n + 1 \in T
  <2>1. n \in Nat /\ n + 1 \in Nat
    OBVIOUS
  <2>2. \A s, t \in Seq(W) : <<s, t>> \in Tiled(W, P) /\ Len(t) <= n => <<s, Substitute(t, v, f)>> \in Tiled(W, Q)
    OBVIOUS
  <2> SUFFICES ASSUME NEW s \in Seq(W), NEW t \in Seq(W), <<s, t>> \in Tiled(W, P), Len(t) <= n + 1
               PROVE  <<s, Substitute(t, v, f)>> \in Tiled(W, Q)
    BY <2>1
  <2> HIDE DEF T
  <2>3. CASE t = <<>>
    BY <1>11, <2>3
  <2>4. CASE t # <<>>
    <3>1. \A b \in Seq(W) : Len(b) < Len(t) => Len(b) <= n
      BY <2>1
    <3> QED
      BY <1>10, <2>2, <2>4, <3>1
  <2> QED
    BY <2>3, <2>4
<1> HIDE DEF T
<1>14. T = Nat
  BY <1>12, <1>13, Induction DEF T
<1>15. x \in Seq(W) /\ y \in Seq(W)
  BY DEF Tiled
<1>16. Len(y) \in T /\ Len(y) <= Len(y) /\ <<x, y>> \in Tiled(W, P)
  BY <1>14, <1>15 DEF P
<1> QED
  BY <1>15, <1>16 DEF T, Q

\* A pseudonym with a word of its own gives way to its value, and nothing else
\* is touched.
Tells(R, M, v, f) ==
  /\ \E k \in 1..Len(f) : f[k] \notin R
  /\ \A m \in M : m = <<v, f>> \/ Disjoint(m[2], f)

LEMMA SubstituteUnmasks ==
  ASSUME NEW W, NEW R \in SUBSET W, NEW M \in SUBSET Masks(W, R),
         NEW v \in Seq(R), NEW f \in Seq(W) \ {<<>>}, Tells(R, M, v, f),
         NEW x, NEW y, <<x, y>> \in Tiled(W, Plain(R) \cup M)
  PROVE  <<x, Substitute(y, f, v)>> \in Tiled(W, Plain(R) \cup (M \ {<<v, f>>}))
<1> DEFINE P == Plain(R) \cup M
           Q == Plain(R) \cup (M \ {<<v, f>>})
           Z == {z \in Tiled(W, P) : <<z[1], Substitute(z[2], f, v)>> \in Tiled(W, Q)}
           U == {j \in Nat : j \in 1..Len(f) /\ f[j] \notin R}
<1>1. P \in SUBSET (Seq(W) \X Seq(W)) /\ Closed(Tiled(W, P), P)
  <2>1. P \in SUBSET (Seq(W) \X Seq(W))
    BY PiecesType
  <2> HIDE DEF P
  <2> QED
    BY <2>1, TiledClosed
<1>2. Q \in SUBSET (Seq(W) \X Seq(W)) /\ Closed(Tiled(W, Q), Q)
  <2>1. M \ {<<v, f>>} \in SUBSET Masks(W, R)
    OBVIOUS
  <2>2. Q \in SUBSET (Seq(W) \X Seq(W))
    BY <2>1, PiecesType
  <2> HIDE DEF Q
  <2> QED
    BY <2>2, TiledClosed
<1>3. v \in Seq(W) /\ Plain(R) \subseteq Q
  <2>1. Seq(R) \subseteq Seq(W)
    BY SeqMonotonic
  <2> QED
    BY <2>1
<1>4. Len(f) \in Nat \ {0} /\ \A m \in M : m # <<v, f>> => Disjoint(m[2], f)
  BY DEF Tells
<1>5. PICK k \in U : \A j \in U : k <= j
  <2>1. U # {} /\ U \in SUBSET Nat
    BY <1>4 DEF Tells
  <2> HIDE DEF U
  <2> QED
    BY <2>1, LeastNumber
<1>6. /\ k \in Nat \ {0} /\ k <= Len(f) /\ f[k] \notin R
      /\ \A j \in 1..Len(f) : f[j] \notin R => j >= k
  <2>1. \A j \in 1..Len(f) : f[j] \notin R => j \in U
    BY <1>4
  <2> QED
    BY <1>4, <1>5, <2>1
<1> HIDE DEF U
<1>7. \A m \in M : \A j \in 1..Len(m[2]) : m[2][j] = f[k] => j >= k
  <2> SUFFICES ASSUME NEW m \in M, NEW j \in 1..Len(m[2]), m[2][j] = f[k] PROVE j >= k
    OBVIOUS
  <2>1. CASE m = <<v, f>>
    BY <1>6, <2>1
  <2>2. CASE m # <<v, f>>
    BY <1>4, <1>6, <2>2 DEF Disjoint
  <2> QED
    BY <2>1, <2>2
<1>8. ASSUME NEW z \in Tiled(W, P) PROVE \A j \in 1..Len(z[2]) : z[2][j] = f[k] => j >= k
  <2>1. z \in Tiled(W, Plain(R) \cup M) /\ k \in Nat
    BY <1>6
  <2> QED
    BY <1>6, <1>7, <2>1, NotBefore
<1>9. Hits(W, f, v) /\ Misses(W, f, v)
  BY <1>3, SubstituteHit, SubstituteMiss
<1>10. Skips(W, f, v)
  BY <1>3, SubstituteSkip
<1>12. ASSUME NEW a \in Seq(W), NEW b \in Seq(W), <<a, b>> \in Tiled(W, Q)
       PROVE  <<v \o a, v \o b>> \in Tiled(W, Q)
  <2> DEFINE z == <<a, b>>
  <2>1. z \in Tiled(W, Q) /\ z[1] = a /\ z[2] = b
    BY <1>12
  <2> HIDE DEF z, Q
  <2>2. <<v \o z[1], v \o z[2]>> \in Tiled(W, Q)
    BY <1>2, <1>3, <2>1, PlainTiled
  <2> QED
    BY <2>1, <2>2
<1> HIDE DEF Q
<1>13. <<<<>>, <<>>>> \in Z
  <2>1. Substitute(<<>>, f, v) = <<>>
    BY <1>4, SubstituteNothing
  <2> QED
    BY <1>1, <1>2, <2>1 DEF Closed
<1>14. ASSUME NEW p \in P, NEW z \in Z PROVE Beside(p, z) \in Z
  <2> DEFINE a == z[1]
             b == z[2]
             e == p[2]
             d == Substitute(b, f, v)
  <2>1. /\ z \in Tiled(W, P) /\ Beside(p, z) = <<p[1] \o a, e \o b>> /\ Beside(p, z) \in Tiled(W, P)
        /\ <<a, d>> \in Tiled(W, Q)
    BY <1>1 DEF Beside, Closed
  <2>2. a \in Seq(W) /\ b \in Seq(W) /\ e \in Seq(W) /\ p[1] \in Seq(W) /\ p = <<p[1], e>>
        /\ d \in Seq(W)
    BY <1>1, <2>1 DEF Tiled
  <2> SUFFICES <<p[1] \o a, Substitute(e \o b, f, v)>> \in Tiled(W, Q)
    <3> DEFINE g == <<p[1] \o a, e \o b>>
    <3>1. Beside(p, z) = g /\ g \in Tiled(W, P) /\ g[1] = p[1] \o a /\ g[2] = e \o b
      BY <2>1
    <3> HIDE DEF g
    <3> QED
      BY <3>1
  <2>3. \A j \in 1..Len(b) : b[j] = f[k] => j >= k
    BY <1>8, <2>1
  <2> HIDE DEF a, b, e, d
  <2>4. CASE p = <<v, f>>
    <3>1. p[1] = v /\ e = f
      BY <2>4 DEF e
    <3>2. Substitute(e \o b, f, v) = v \o d
      BY <1>9, <2>2, <3>1 DEF d, Hits
    <3> QED
      BY <1>12, <2>1, <2>2, <3>1, <3>2
  <2>5. CASE p \in M /\ p # <<v, f>>
    <3>1. Disjoint(e, f) /\ p \in Q
      BY <1>4, <2>5 DEF e, Q
    <3>2. Substitute(e \o b, f, v) = e \o d
      BY <1>10, <2>2, <3>1 DEF Skips, d
    <3>3. Beside(p, <<a, d>>) \in Tiled(W, Q)
      BY <1>2, <2>1, <3>1 DEF Closed
    <3> QED
      BY <3>2, <3>3 DEF Beside, e
  <2>6. CASE p \in Plain(R)
    <3>1. PICK w \in R : p = <<<<w>>, <<w>>>>
      BY <2>6 DEF Plain
    <3>2. p[1] = <<w>> /\ e = <<w>> /\ p \in Q
      BY <1>3, <2>6, <3>1 DEF e
    <3> DEFINE s == e \o b
    <3>3. s \in Seq(W) /\ s # <<>> /\ s[1] = w /\ Tail(s) = b /\ Len(s) = Len(b) + 1
          /\ \A j \in 1..Len(b) : s[j + 1] = b[j]
      BY <2>2, <3>2
    <3> HIDE DEF s
    <3>4. ~Starts(s, f)
      <4> SUFFICES ASSUME Starts(s, f) PROVE FALSE
        OBVIOUS
      <4>1. f[1] = w /\ f[k] = s[k] /\ Len(f) <= Len(s)
        BY <1>4, <1>6, <3>3 DEF Starts
      <4>5. k # 1
        BY <1>6, <3>3, <4>1
      <4>2. k - 1 \in 1..Len(b) /\ (k - 1) + 1 = k
        <5>1. k \in Nat \ {0} /\ k <= Len(f) /\ Len(f) <= Len(b) + 1 /\ Len(f) \in Nat /\ Len(b) \in Nat
          BY <1>4, <1>6, <2>2, <3>3, <4>1
        <5> QED
          BY <4>5, <5>1
      <4>3. b[k - 1] = f[k]
        BY <3>3, <4>1, <4>2
      <4>4. k - 1 >= k
        BY <2>3, <4>2, <4>3
      <4> QED
        BY <1>6, <4>4
    <3>5. Substitute(s, f, v) = <<w>> \o d
      BY <1>9, <3>3, <3>4 DEF d, Misses
    <3>6. Beside(p, <<a, d>>) \in Tiled(W, Q)
      BY <1>2, <2>1, <3>2 DEF Closed
    <3> QED
      BY <3>2, <3>5, <3>6 DEF Beside, e, s
  <2> QED
    BY <2>4, <2>5, <2>6
<1> HIDE DEF Z
<1>15. Closed(Z, P)
  BY <1>13, <1>14 DEF Closed
<1>16. <<x, y>> \in Z
  BY <1>15, TiledLeast
<1> QED
  BY <1>16 DEF Z, Q

-----------------------------------------------------------------------------
(* Pseudonymize puts pieces together, and Restore takes them apart         *)

Masking(s, r, n) == {<<s[i], r[i]>> : i \in 1..n}

\* The pseudonyms r of the values s tell them apart in a text with the words R.
Legible(W, R, s, r) ==
  /\ R \subseteq W /\ r \in Seq(Seq(W))
  /\ \A i \in 1..Len(r) :
       /\ s[i] \in Seq(R) \ {<<>>} /\ r[i] \in Seq(W) \ {<<>>}
       /\ \E k \in 1..Len(r[i]) : r[i][k] \notin R
  /\ \A i, j \in 1..Len(r) : i # j => Disjoint(r[i], s[j]) /\ Disjoint(r[i], r[j])

LEMMA MaskingType ==
  ASSUME NEW W, NEW R, NEW s, NEW r, Legible(W, R, s, r), NEW n \in 0..Len(r)
  PROVE  Masking(s, r, n) \in SUBSET Masks(W, R)
<1>1. \A i \in 1..n : i \in 1..Len(r)
  BY DEF Legible
<1> QED
  BY <1>1 DEF Legible, Masking, Masks

\* What leaves is the text of the user with pseudonyms for some of its pieces.
LEMMA PseudonymizeTiles ==
  ASSUME NEW W, NEW R, NEW s, NEW r, Legible(W, R, s, r), NEW x \in Seq(R)
  PROVE  <<x, Pseudonymize(x, Pairs(s, r))>> \in Tiled(W, Plain(R) \cup Masking(s, r, Len(r)))
<1>1. R \in SUBSET W /\ Len(r) \in Nat /\ r \in Seq(Seq(W)) /\ x \in Seq(W)
  <2>1. Seq(R) \subseteq Seq(W)
    BY SeqMonotonic DEF Legible
  <2> QED
    BY <2>1 DEF Legible
<1>2. PICK f : Steps(f, x, s, r)
  BY <1>1, PseudonymizeSteps, Zenon
<1> DEFINE T == {k \in Nat : k <= Len(r) => <<x, f[k]>> \in Tiled(W, Plain(R) \cup Masking(s, r, k))}
<1>3. 0 \in T
  <2> DEFINE P == Plain(R) \cup {}
             z == <<<<>>, <<>>>>
  <2>1. P \in SUBSET (Seq(W) \X Seq(W)) /\ Plain(R) \subseteq P
    <3>1. {} \in SUBSET Masks(W, R)
      OBVIOUS
    <3> QED
      BY <1>1, <3>1, PiecesType
  <2>2. Masking(s, r, 0) = {}
    BY DEF Masking
  <2>3. z[1] = <<>> /\ z[2] = <<>>
    OBVIOUS
  <2> HIDE DEF P, z
  <2>4. z \in Tiled(W, P)
    BY <2>1, TiledClosed DEF Closed, z
  <2>5. <<x \o z[1], x \o z[2]>> \in Tiled(W, P)
    BY <1>1, <2>1, <2>4, PlainTiled
  <2>6. <<x, x>> \in Tiled(W, P)
    <3>1. x \o <<>> = x
      BY <1>1
    <3> QED
      BY <2>3, <2>5, <3>1
  <2> QED
    BY <1>2, <2>2, <2>6 DEF Steps, P
<1>4. ASSUME NEW k \in T PROVE k + 1 \in T
  <2>0. k \in Nat /\ k + 1 \in Nat
    OBVIOUS
  <2>1. k <= Len(r) => <<x, f[k]>> \in Tiled(W, Plain(R) \cup Masking(s, r, k))
    OBVIOUS
  <2> SUFFICES ASSUME k + 1 <= Len(r)
               PROVE  <<x, f[k + 1]>> \in Tiled(W, Plain(R) \cup Masking(s, r, k + 1))
    BY <2>0
  <2> HIDE DEF T
  <2> DEFINE v == s[k + 1]
             g == r[k + 1]
             y == f[k]
             M == Masking(s, r, k)
  <2>2. k + 1 \in 1..Len(r) /\ k + 1 - 1 = k /\ k \in 0..Len(r) /\ \A i \in 1..k : i \in 1..Len(r) /\ i # k + 1
    BY <1>1, <2>0
  <2>3. v \in Seq(R) \ {<<>>} /\ g \in Seq(W) \ {<<>>} /\ Avoids(M, v)
    BY <2>2 DEF Legible, Avoids, Masking
  <2>4. f[k + 1] = Substitute(y, v, g)
    BY <1>2, <2>2 DEF Steps
  <2>5. M \cup {<<v, g>>} = Masking(s, r, k + 1)
    <3>1. 1..(k + 1) = (1..k) \cup {k + 1}
      BY <2>0
    <3> QED
      BY <3>1 DEF Masking
  <2>6. <<x, y>> \in Tiled(W, Plain(R) \cup M) /\ M \in SUBSET Masks(W, R)
    BY <2>1, <2>2, MaskingType
  <2> HIDE DEF v, g, y, M
  <2>7. <<x, Substitute(y, v, g)>> \in Tiled(W, Plain(R) \cup (M \cup {<<v, g>>}))
    BY <1>1, <2>3, <2>6, SubstituteMasks
  <2> QED
    BY <2>4, <2>5, <2>7
<1> HIDE DEF T
<1>5. T = Nat
  BY <1>3, <1>4, Induction DEF T
<1>6. Len(r) \in T /\ Len(r) <= Len(r)
  BY <1>1, <1>5
<1> QED
  BY <1>2, <1>6 DEF T, Steps

\* The mappings q lead every one of the pseudonyms back, and have no other
\* word of O.
Recovers(W, O, s, r, q) ==
  /\ \A l \in 1..Len(q) :
       /\ q[l].fake \in Seq(W) \ {<<>>} /\ q[l].original \in Seq(W)
       /\ \/ \E i \in 1..Len(r) : q[l].original = s[i] /\ q[l].fake = r[i]
          \/ \A a \in 1..Len(q[l].fake) : q[l].fake[a] \notin O
  /\ \A i \in 1..Len(r) : \E l \in 1..Len(q) : q[l].original = s[i] /\ q[l].fake = r[i]

LEMMA SubstituteAbsent ==
  ASSUME NEW W, NEW f \in Seq(W) \ {<<>>}, NEW v \in Seq(W), NEW y \in Seq(W), Disjoint(y, f)
  PROVE  Substitute(y, f, v) = y
<1>1. Substitute(<<>>, f, v) = <<>>
  <2>1. Len(f) \in Nat \ {0}
    OBVIOUS
  <2> QED
    BY <2>1, SubstituteNothing
<1>2. Skips(W, f, v)
  BY SubstituteSkip
<1>3. <<>> \in Seq(W) /\ y \o <<>> = y
  BY EmptySeq
<1>4. Substitute(y \o <<>>, f, v) = y \o Substitute(<<>>, f, v)
  BY <1>2, <1>3 DEF Skips
<1> QED
  BY <1>1, <1>3, <1>4

\* Whatever the order of the mappings, a text that is the user's with
\* pseudonyms for some of its pieces becomes the user's.
LEMMA RestoreTiles ==
  ASSUME NEW W, NEW R, NEW s, NEW r, Legible(W, R, s, r),
         NEW O, R \subseteq O, NEW S, NEW q \in Seq(S), Recovers(W, O, s, r, q),
         NEW x, NEW y \in Seq(O), <<x, y>> \in Tiled(W, Plain(R) \cup Masking(s, r, Len(r)))
  PROVE  Restore(y, q) = x
<1> DEFINE Rest(k) == {m \in Masking(s, r, Len(r)) : \A l \in 1..k : m # <<q[l].original, q[l].fake>>}
<1>1. R \in SUBSET W /\ Len(r) \in Nat /\ Len(q) \in Nat
  BY DEF Legible
<1>2. PICK f : Undoes(f, y, q)
  BY RestoreSteps, Zenon
<1>3. Masking(s, r, Len(r)) \in SUBSET Masks(W, R)
  BY <1>1, MaskingType
<1> DEFINE P(k) == f[k] \in Seq(O) /\ <<x, f[k]>> \in Tiled(W, Plain(R) \cup Rest(k))
           T == {k \in Nat : k <= Len(q) => P(k)}
<1>4. 0 \in T
  <2>1. Rest(0) = Masking(s, r, Len(r))
    OBVIOUS
  <2> HIDE DEF Rest
  <2> QED
    BY <1>2, <2>1 DEF Undoes
<1>5. ASSUME NEW k \in T PROVE k + 1 \in T
  <2>0. k \in Nat /\ k + 1 \in Nat
    OBVIOUS
  <2>1. k <= Len(q) => P(k)
    OBVIOUS
  <2> SUFFICES ASSUME k + 1 <= Len(q) PROVE P(k + 1)
    BY <2>0
  <2> HIDE DEF T
  <2> DEFINE v == q[k + 1].original
             g == q[k + 1].fake
             z == f[k]
             M == Rest(k)
  <2>2. k + 1 \in 1..Len(q) /\ k + 1 - 1 = k /\ k <= Len(q)
    BY <1>1, <2>0
  <2>3. z \in Seq(O) /\ <<x, z>> \in Tiled(W, Plain(R) \cup M) /\ M \in SUBSET Masks(W, R)
    BY <1>3, <2>1, <2>2
  <2>4. z \in Seq(W)
    BY <2>3 DEF Tiled
  <2>5. f[k + 1] = Substitute(z, g, v)
    <3> DEFINE j == k + 1
    <3>0. j = k + 1
      OBVIOUS
    <3> HIDE DEF j, z, g, v
    <3>1. j \in 1..Len(q) /\ j - 1 = k
      BY <2>0, <2>2, <3>0
    <3>2. f[j] = Substitute(f[j - 1], q[j].fake, q[j].original)
      BY <1>2, <3>1 DEF Undoes
    <3>3. f[j - 1] = z /\ q[j].fake = g /\ q[j].original = v
      BY <3>1 DEF j, z, g, v
    <3>4. f[j] = Substitute(z, g, v)
      BY <3>2, <3>3
    <3> QED
      BY <3>4 DEF j
  <2>6. Rest(k + 1) = M \ {<<v, g>>}
    <3>1. 1..(k + 1) = (1..k) \cup {k + 1}
      BY <2>0
    <3> QED
      BY <3>1
  <2>7. g \in Seq(W) \ {<<>>} /\ v \in Seq(W)
    BY <2>2 DEF Recovers
  <2>8. CASE \E i \in 1..Len(r) : v = s[i] /\ g = r[i]
    <3>1. PICK i \in 1..Len(r) : v = s[i] /\ g = r[i]
      BY <2>8
    <3>2. v \in Seq(R) /\ v \in Seq(O)
      <4>1. v \in Seq(R)
        BY <3>1 DEF Legible
      <4>2. Seq(R) \subseteq Seq(O)
        BY SeqMonotonic
      <4> QED
        BY <4>1, <4>2
    <3>3. Tells(R, M, v, g)
      <4>1. \E a \in 1..Len(g) : g[a] \notin R
        BY <3>1 DEF Legible
      <4>2. ASSUME NEW m \in M, m # <<v, g>> PROVE Disjoint(m[2], g)
        <5>1. PICK j \in 1..Len(r) : m = <<s[j], r[j]>>
          BY DEF Masking
        <5>2. j # i
          BY <3>1, <4>2, <5>1
        <5> QED
          BY <3>1, <5>1, <5>2 DEF Legible
      <4> QED
        BY <4>1, <4>2 DEF Tells
    <3> HIDE DEF v, g, z, M, Rest
    <3>4. <<x, Substitute(z, g, v)>> \in Tiled(W, Plain(R) \cup (M \ {<<v, g>>}))
      BY <1>1, <2>3, <2>7, <3>2, <3>3, SubstituteUnmasks
    <3>5. Substitute(z, g, v) \in Seq(O)
      <4>1. Len(g) \in Nat \ {0}
        BY <2>7
      <4> QED
        BY <2>3, <3>2, <4>1, SubstituteWords
    <3> QED
      BY <2>5, <2>6, <3>4, <3>5
  <2>9. CASE ~\E i \in 1..Len(r) : v = s[i] /\ g = r[i]
    <3>1. Disjoint(z, g)
      <4>1. \A a \in 1..Len(g) : g[a] \notin O
        BY <2>2, <2>9 DEF Recovers
      <4> QED
        BY <2>3, <4>1 DEF Disjoint
    <3>2. M \ {<<v, g>>} = M
      BY <2>9 DEF Masking
    <3> HIDE DEF v, g, z, M, Rest
    <3>3. Substitute(z, g, v) = z
      BY <2>4, <2>7, <3>1, SubstituteAbsent
    <3> QED
      BY <2>3, <2>5, <2>6, <3>2, <3>3
  <2> QED
    BY <2>8, <2>9
<1> HIDE DEF T
<1>6. T = Nat
  BY <1>4, <1>5, Induction DEF T
<1>7. P(Len(q))
  <2>1. Len(q) \in T /\ Len(q) <= Len(q)
    BY <1>1, <1>6
  <2> HIDE DEF P
  <2> QED
    BY <2>1 DEF T
<1>8. Rest(Len(q)) = {}
  <2>1. ASSUME NEW m \in Masking(s, r, Len(r))
        PROVE  \E l \in 1..Len(q) : m = <<q[l].original, q[l].fake>>
    <3>1. PICK i \in 1..Len(r) : m = <<s[i], r[i]>>
      BY DEF Masking
    <3>2. PICK l \in 1..Len(q) : q[l].original = s[i] /\ q[l].fake = r[i]
      BY DEF Recovers
    <3> QED
      BY <3>1, <3>2
  <2> QED
    BY <2>1
<1> HIDE DEF Rest
<1> DEFINE z == <<x, f[Len(q)]>>
<1>9. z \in Tiled(W, Plain(R))
  BY <1>7, <1>8
<1> HIDE DEF z
<1>10. z[1] = z[2]
  BY <1>1, <1>9, PlainAlone
<1> QED
  BY <1>2, <1>10 DEF z, Undoes

\* An order of a set holds all of it.
LEMMA OrderAll ==
  ASSUME NEW S, IsFiniteSet(S), NEW length, NEW q \in LongestFirst(S, length)
  PROVE  \A m \in S : \E l \in 1..Len(q) : q[l] = m
<1> DEFINE n == Cardinality(S)
<1>1. q \in [1..n -> S] /\ \A i, j \in 1..n : q[i] = q[j] => i = j
  BY DEF LongestFirst, SetToSeqs, IsInjective
<1>2. n \in Nat /\ IsFiniteSet(1..n) /\ Cardinality(1..n) = n
  BY FS_CardinalityType, FS_Interval
<1>3. Len(q) = n
  BY <1>1, <1>2
<1> HIDE DEF n
<1>4. q \in Injection(1..n, S)
  BY <1>1 DEF Injection, IsInjective
<1>5. q \in Surjection(1..n, S)
  BY <1>2, <1>4, FS_Injection DEF n
<1> QED
  BY <1>3, <1>5 DEF Surjection

-----------------------------------------------------------------------------
(* Restoration of a whole answer                                           *)

\* A text holds the words of its values.
LEMMA FlattenHolds ==
  ASSUME NEW W, NEW V, V \subseteq Seq(W), NEW q \in Seq(V), NEW l \in 1..Len(q)
  PROVE  \A p \in 1..Len(q[l]) : q[l][p] \in Range(FlattenSeq(q))
<1>1. Len(q) \in Nat /\ l \in Nat /\ q # <<>> /\ \A i \in 1..Len(q) : q[i] \in Seq(W)
  <2>1. Len(q) \in Nat /\ q # <<>> /\ \A i \in 1..Len(q) : q[i] \in V
    OBVIOUS
  <2> QED
    BY <2>1
<1>2. PICK g : /\ \A i \in 1..Len(q) : g[i] = IF i = 1 THEN q[i] ELSE g[i - 1] \o q[i]
               /\ FlattenSeq(q) = g[Len(q)]
  BY <1>1, FlattenIs
<1> DEFINE T == {i \in Nat : i \in 1..Len(q) =>
                   g[i] \in Seq(W) /\ (i >= l => \A p \in 1..Len(q[l]) : q[l][p] \in Range(g[i]))}
<1>3. 0 \in T
  OBVIOUS
<1>4. ASSUME NEW i \in T PROVE i + 1 \in T
  <2>0. i \in Nat /\ i + 1 \in Nat
    OBVIOUS
  <2>1. i \in 1..Len(q) =>
          g[i] \in Seq(W) /\ (i >= l => \A p \in 1..Len(q[l]) : q[l][p] \in Range(g[i]))
    OBVIOUS
  <2> DEFINE j == i + 1
  <2> SUFFICES ASSUME j \in 1..Len(q)
               PROVE  g[j] \in Seq(W) /\ (j >= l => \A p \in 1..Len(q[l]) : q[l][p] \in Range(g[j]))
    BY <2>0
  <2> HIDE DEF T
  <2>2. j = i + 1
    OBVIOUS
  <2> HIDE DEF j
  <2>3. g[j] = IF j = 1 THEN q[j] ELSE g[j - 1] \o q[j]
    BY <1>2
  <2>4. q[j] \in Seq(W) /\ \A p \in 1..Len(q[j]) : q[j][p] \in Range(q[j])
    BY <1>1 DEF Range
  <2>5. CASE j = 1
    <3>1. g[j] = q[j]
      BY <2>3, <2>5
    <3>2. j >= l => j = l
      BY <1>1, <2>5
    <3> QED
      BY <2>4, <3>1, <3>2
  <2>6. CASE j # 1
    <3>1. i \in 1..Len(q) /\ j - 1 = i /\ (j >= l => j = l \/ i >= l)
      BY <1>1, <2>0, <2>2, <2>6
    <3> DEFINE a == g[i]
               b == q[j]
    <3>2. g[j] = a \o b
      BY <2>3, <2>6, <3>1
    <3>3. a \in Seq(W) /\ (i >= l => \A p \in 1..Len(q[l]) : q[l][p] \in Range(a))
      BY <2>1, <3>1
    <3>4. b \in Seq(W) /\ \A p \in 1..Len(q[j]) : q[j][p] \in Range(b)
      BY <2>4
    <3> HIDE DEF a, b
    <3>5. a \o b \in Seq(W) /\ Range(a) \subseteq Range(a \o b) /\ Range(b) \subseteq Range(a \o b)
      <4>1. /\ a \o b \in Seq(W) /\ DOMAIN (a \o b) = 1..(Len(a) + Len(b))
            /\ DOMAIN a = 1..Len(a) /\ DOMAIN b = 1..Len(b) /\ Len(a) \in Nat /\ Len(b) \in Nat
            /\ \A p \in 1..Len(a) : (a \o b)[p] = a[p]
            /\ \A p \in 1..Len(b) : (a \o b)[Len(a) + p] = b[p]
        BY <3>3, <3>4
      <4>2. /\ \A p \in 1..Len(a) : p \in 1..(Len(a) + Len(b))
            /\ \A p \in 1..Len(b) : Len(a) + p \in 1..(Len(a) + Len(b))
        BY <4>1
      <4> QED
        BY <4>1, <4>2 DEF Range
    <3>6. CASE j = l
      BY <3>2, <3>4, <3>5, <3>6
    <3>7. CASE i >= l
      BY <3>2, <3>3, <3>5, <3>7
    <3>8. CASE ~(j >= l)
      BY <3>2, <3>5, <3>8
    <3> QED
      BY <3>1, <3>6, <3>7, <3>8
  <2> QED
    BY <2>5, <2>6
<1> HIDE DEF T
<1>5. T = Nat
  BY <1>3, <1>4, Induction DEF T
<1>6. Len(q) \in T /\ Len(q) \in 1..Len(q) /\ Len(q) >= l
  BY <1>1, <1>5
<1> QED
  BY <1>2, <1>6 DEF T

\* What an answer is restored from: the mappings that r has created are of its
\* replacements, its values lie in its text, and nothing has come back before
\* the answer.
Restorable ==
  \A r \in Requests :
    /\ mine[r] \subseteq Range(Replacements(r))
    /\ Range(spans[r]) \subseteq Range(text[r])
    /\ \A i \in 1..Len(repl[r]) : repl[r][i] # <<>>
    /\ pc[r] \notin {"streaming", "done", "failed"} => result[r] = <<>> /\ taken[r] = 0
    /\ Left(r) /\ Pending(r) => out[r] = FlattenSeq(text[r])
    /\ taken[r] <= Len(out[r])

LEMMA RestorableStep ==
  ASSUME PrivacyInv, Restorable, NEW r \in Requests, Begin(r) \/ Step(r)
  PROVE  Restorable'
<1>1. /\ TypeOK /\ Filled /\ Fresh /\ InHand /\ Frame(r) /\ TypeOK'
      /\ pc \in [Requests -> Labels] /\ text \in [Requests -> Seq(Values)]
      /\ spans \in [Requests -> Seq(Values)] /\ repl \in [Requests -> Seq(Seq(Words))]
      /\ mine \in [Requests -> SUBSET Mapping] /\ out \in [Requests -> Seq(Words)]
      /\ taken \in [Requests -> Nat] /\ result \in [Requests -> Seq(Words)]
      /\ Len(repl[r]) \in Nat
  <2>1. TypeInv /\ TypeOK /\ Filled /\ Fresh /\ InHand
    BY DEF PrivacyInv, TypeInv
  <2>2. Frame(r) /\ TypeOK'
    BY <2>1, FrameStep, TypeStep
  <2>3. repl[r] \in Seq(Seq(Words))
    BY <2>1 DEF TypeOK
  <2>4. Len(repl[r]) \in Nat
    BY <2>3
  <2> QED
    BY <2>1, <2>2, <2>4 DEF TypeOK
<1> DEFINE Good(q) ==
      /\ mine[q] \subseteq Range(Replacements(q))
      /\ Range(spans[q]) \subseteq Range(text[q])
      /\ \A i \in 1..Len(repl[q]) : repl[q][i] # <<>>
      /\ pc[q] \notin {"streaming", "done", "failed"} => result[q] = <<>> /\ taken[q] = 0
      /\ Left(q) /\ Pending(q) => out[q] = FlattenSeq(text[q])
      /\ taken[q] <= Len(out[q])
<1>2. Good(r)
  BY DEF Restorable
<1>3. SUFFICES Good(r)'
  <2> SUFFICES ASSUME NEW q \in Requests PROVE Good(q)'
    BY DEF Restorable
  <2>1. CASE q = r
    BY <1>3, <2>1
  <2>2. CASE q # r
    <3>1. Good(q)
      BY DEF Restorable
    <3>2. /\ pc'[q] = pc[q] /\ text'[q] = text[q] /\ spans'[q] = spans[q] /\ repl'[q] = repl[q]
          /\ mine'[q] = mine[q] /\ out'[q] = out[q] /\ taken'[q] = taken[q] /\ result'[q] = result[q]
      BY <1>1, <2>2 DEF Frame
    <3>3. Replacements(q)' = Replacements(q) /\ (Left(q)' <=> Left(q)) /\ (Pending(q)' <=> Pending(q))
      BY <3>2 DEF Replacements, Left, Pending
    <3> QED
      BY <3>1, <3>2, <3>3
  <2> QED
    BY <2>1, <2>2
<1>4. ASSUME text'[r] = text[r], spans'[r] = spans[r], repl'[r] = repl[r], mine'[r] \in {mine[r], {}},
             out'[r] = out[r], Left(r)' => Left(r),
             taken'[r] <= Len(out[r]),
             pc'[r] \notin {"streaming", "done", "failed"} => result'[r] = <<>> /\ taken'[r] = 0
      PROVE  Good(r)'
  <2>1. Replacements(r)' = Replacements(r) /\ (Pending(r)' <=> Pending(r))
    BY <1>4 DEF Replacements, Pending
  <2> QED
    BY <1>2, <1>4, <2>1
<1>5. CASE Begin(r)
  <2>1. PICK t \in Texts[r] : \E found \in SUBSET Range(t) :
          \E q \in LongestFirst(found, [v \in found |-> Len(v)]) :
            text' = [text EXCEPT ![r] = t] /\ spans' = [spans EXCEPT ![r] = q]
    BY <1>5 DEF Begin
  <2>2. PICK found \in SUBSET Range(t) :
          \E q \in LongestFirst(found, [v \in found |-> Len(v)]) :
            text' = [text EXCEPT ![r] = t] /\ spans' = [spans EXCEPT ![r] = q]
    BY <2>1
  <2>3. PICK q \in LongestFirst(found, [v \in found |-> Len(v)]) : text'[r] = t /\ spans'[r] = q
    BY <1>1, <2>2
  <2>4. IsFiniteSet(found)
    <3>1. t \in Seq(Values)
      BY PrivacyAssumption DEF Requests
    <3>2. IsFiniteSet(Range(t))
      BY <3>1, LengthsUpTo
    <3> QED
      BY <3>2, FS_Subset
  <2>5. q \in Seq(found)
    BY <2>4, OrderType
  <2>6. Range(q) \subseteq Range(t)
    <3>1. Range(q) \subseteq found
      BY <2>5 DEF Range
    <3> QED
      BY <3>1
  <2>7. /\ pc[r] = "new" /\ pc'[r] = "lookup" /\ repl[r] = <<>>
        /\ repl'[r] = <<>> /\ mine'[r] = mine[r] /\ out'[r] = out[r] /\ taken'[r] = taken[r] /\ result'[r] = result[r]
    BY <1>1, <1>5 DEF Begin, Goto, Fresh
  <2>8. mine[r] = {}
    <3>1. Len(repl[r]) = 0
      BY <2>7
    <3>2. Range(Replacements(r)) = {}
      BY <3>1 DEF Replacements, Range
    <3> QED
      BY <1>2, <3>2
  <2>9. ~Left(r)'
    BY <2>7 DEF Left
  <2> QED
    BY <1>1, <1>2, <2>3, <2>6, <2>7, <2>8, <2>9
<1>6. CASE Known(r) \/ Set(r)
  <2>1. PICK f : /\ repl'[r] = Append(repl[r], f) /\ f # <<>>
                 /\ mine'[r] \subseteq mine[r] \cup {[original |-> Current(r), fake |-> f]}
    <3>1. CASE Known(r)
      <4>1. Current(r) \in Originals /\ repl'[r] = Append(repl[r], FakeOf(Current(r))) /\ mine' = mine
        BY <1>1, <3>1 DEF Known, Replace
      <4>2. FakeOf(Current(r)) # <<>>
        BY <1>1, <4>1, StoreType
      <4> QED
        BY <4>1, <4>2
    <3>2. CASE Set(r)
      <4>1. /\ repl'[r] = Append(repl[r], hand[r]) /\ pc[r] = "set"
            /\ mine'[r] = mine[r] \cup {[original |-> Current(r), fake |-> hand[r]]}
        BY <1>1, <3>2 DEF Set, Replace, Goto
      <4>2. hand[r] # <<>>
        BY <1>1, <4>1 DEF Filled
      <4> QED
        BY <4>1, <4>2
    <3> QED
      BY <1>6, <3>1, <3>2
  <2>2. /\ pc[r] \in {"lookup", "set"} /\ pc'[r] = "lookup" /\ text'[r] = text[r] /\ spans'[r] = spans[r]
        /\ out'[r] = out[r] /\ taken'[r] = taken[r] /\ result'[r] = result[r]
    BY <1>1, <1>6 DEF Known, Set, Goto
  <2> DEFINE n == Len(repl[r])
             m == [original |-> Current(r), fake |-> f]
  <2>3. /\ Len(repl'[r]) = n + 1 /\ repl'[r][n + 1] = f
        /\ \A i \in 1..n : repl'[r][i] = repl[r][i]
        /\ \A i \in 1..(n + 1) : i \in 1..n \/ i = n + 1
        /\ n + 1 \in 1..(n + 1) /\ \A i \in 1..n : i \in 1..(n + 1)
    BY <1>1, <2>1
  <2>4. Range(Replacements(r)) \cup {m} \subseteq Range(Replacements(r)')
    <3>1. Replacements(r)' = [i \in 1..(n + 1) |-> [original |-> spans[r][i], fake |-> repl'[r][i]]]
      BY <2>2, <2>3 DEF Replacements
    <3>2. Replacements(r)'[n + 1] = m
      BY <2>3, <3>1 DEF Current
    <3>3. \A i \in 1..n : Replacements(r)'[i] = Replacements(r)[i]
      BY <2>3, <3>1 DEF Replacements
    <3>4. DOMAIN Replacements(r) = 1..n /\ DOMAIN (Replacements(r)') = 1..(n + 1)
      BY <3>1 DEF Replacements
    <3> HIDE DEF n, m
    <3> QED
      BY <2>3, <3>2, <3>3, <3>4 DEF Range
  <2>5. \A i \in 1..Len(repl'[r]) : repl'[r][i] # <<>>
    BY <1>2, <2>1, <2>3
  <2>6. ~Left(r)'
    BY <2>2 DEF Left
  <2> HIDE DEF m, n
  <2>7. mine'[r] \subseteq mine[r] \cup {m}
    BY <2>1 DEF m
  <2> QED
    BY <1>2, <2>2, <2>4, <2>5, <2>6, <2>7
<1>7. CASE Unknown(r) \/ Choose(r)
  <2>1. /\ pc[r] \in {"lookup", "generate"} /\ pc'[r] \in {"generate", "set"}
        /\ UNCHANGED <<text, spans, repl, mine, out, taken, result>>
    BY <1>1, <1>7 DEF Unknown, Choose, Goto, working
  <2> QED
    BY <1>2, <1>4, <2>1 DEF Left
<1>8. CASE SetFails(r)
  <2>1. /\ pc[r] = "set" /\ pc'[r] \in {"sent", "blocked"} /\ mine'[r] = {}
        /\ UNCHANGED <<text, spans, repl, taken, result>>
        /\ pc'[r] = "sent" => out'[r] = FlattenSeq(text[r])
        /\ pc'[r] # "sent" => ~Left(r)'
    BY <1>1, <1>8 DEF SetFails, Goto, Leaves, Left
  <2>2. Replacements(r)' = Replacements(r)
    BY <2>1 DEF Replacements
  <2>3. taken'[r] = 0 /\ Len(out'[r]) >= 0
    BY <1>1, <1>2, <2>1 DEF TypeOK
  <2> QED
    BY <1>2, <2>1, <2>2, <2>3
<1>9. CASE Send(r)
  <2>1. /\ pc[r] = "lookup" /\ pc'[r] = "sent" /\ ~Pending(r)
        /\ UNCHANGED <<text, spans, repl, mine, taken, result>>
    BY <1>1, <1>9 DEF Send, Goto, working
  <2>2. Replacements(r)' = Replacements(r) /\ ~Pending(r)'
    BY <2>1 DEF Replacements, Pending
  <2>3. taken'[r] = 0 /\ Len(out'[r]) >= 0
    BY <1>1, <1>2, <2>1 DEF TypeOK
  <2> QED
    BY <1>2, <2>1, <2>2, <2>3
<1>10. CASE RestoreOwn(r) \/ RestoreSession(r) \/ SessionFails(r) \/ ProviderFails(r)
  <2>1. /\ pc'[r] \in {"done", "failed"} /\ Left(r) /\ UNCHANGED <<text, spans, repl, mine, out, taken>>
    BY <1>1, <1>10 DEF RestoreOwn, RestoreSession, SessionFails, ProviderFails, Goto, Left, working
  <2> QED
    BY <1>2, <1>4, <2>1
<1>11. CASE RestoreChunk(r)
  <2>1. /\ Left(r) /\ UNCHANGED <<text, spans, repl, mine, out>>
    BY <1>11 DEF RestoreChunk, working, Left
  <2>2. PICK n \in (taken[r] + 1)..Len(out[r]) :
          IF n = Len(out[r])
            THEN pc' = [pc EXCEPT ![r] = "done"] /\ taken' = [taken EXCEPT ![r] = 0]
            ELSE pc' = [pc EXCEPT ![r] = "streaming"] /\ taken' = [taken EXCEPT ![r] = n]
    BY <1>11 DEF RestoreChunk
  <2>3. pc'[r] \in {"done", "streaming"} /\ taken'[r] <= Len(out[r])
    <3>1. taken[r] \in Nat /\ Len(out[r]) \in Nat
      BY <1>1
    <3> QED
      BY <1>1, <2>2, <3>1
  <2> QED
    BY <1>2, <1>4, <2>1, <2>3
<1> QED
  BY <1>5, <1>6, <1>7, <1>8, <1>9, <1>10, <1>11 DEF Step, Before, After

(* What has been stored and sent is what an answer has to be restored      *)
(* from.                                                                   *)
THEOREM RestorableInvariant == Spec => []Restorable
<1>1. Init => Restorable
  <2> SUFFICES ASSUME Init, NEW r \in Requests
               PROVE  /\ mine[r] = {} /\ spans[r] = <<>> /\ repl[r] = <<>> /\ pc[r] = "new"
                      /\ result[r] = <<>> /\ taken[r] = 0 /\ out[r] = <<>>
    <3>1. Range(<<>>) = {} /\ Len(<<>>) = 0
      BY DEF Range
    <3> QED
      BY <3>1 DEF Restorable, Left
  <2> QED
    BY DEF Init
<1>2. PrivacyInv /\ Restorable /\ [Next]_vars => Restorable'
  <2> SUFFICES ASSUME PrivacyInv, Restorable, [Next]_vars PROVE Restorable'
    OBVIOUS
  <2>1. CASE Next
    BY <2>1, RestorableStep DEF Next
  <2>2. CASE UNCHANGED vars
    <3>1. UNCHANGED <<pc, text, spans, repl, mine, out, taken, result>>
      BY <2>2 DEF vars, working
    <3> QED
      BY <3>1 DEF Restorable, Left, Pending, Replacements
  <2> QED
    BY <2>1, <2>2
<1> QED
  BY <1>1, <1>2, PrivacyInvariant, PTL DEF Spec

LEMMA PlainItself ==
  ASSUME NEW W, NEW R \in SUBSET W, NEW P \in SUBSET (Seq(W) \X Seq(W)), Plain(R) \subseteq P,
         NEW x \in Seq(R)
  PROVE  <<x, x>> \in Tiled(W, P)
<1> DEFINE z == <<<<>>, <<>>>>
<1>1. z[1] = <<>> /\ z[2] = <<>>
  OBVIOUS
<1> HIDE DEF z
<1>2. z \in Tiled(W, P)
  BY TiledClosed DEF Closed, z
<1>3. <<x \o z[1], x \o z[2]>> \in Tiled(W, P)
  BY <1>2, PlainTiled
<1>4. x \o <<>> = x
  OBVIOUS
<1> QED
  BY <1>1, <1>3, <1>4

Wrote(r) == Range(FlattenSeq(text[r]))

\* The pieces of what r sends.
Pieces(r) == Plain(Wrote(r)) \cup Masking(spans[r], repl[r], Len(repl[r]))

LEMMA WroteType ==
  ASSUME PrivacyInv, NEW r \in Requests
  PROVE  /\ text[r] \in Seq(Values) /\ spans[r] \in Seq(Values)
         /\ repl[r] \in Seq(Seq(Words)) /\ Len(repl[r]) \in Nat /\ Len(spans[r]) \in Nat
         /\ Len(repl[r]) <= Len(spans[r]) /\ out[r] \in Seq(Words)
         /\ FlattenSeq(text[r]) \in Seq(Words) /\ FlattenSeq(text[r]) \in Seq(Wrote(r))
         /\ Wrote(r) \in SUBSET Words
<1>1. TypeOK
  BY DEF PrivacyInv, TypeInv
<1>2. /\ text[r] \in Seq(Values) /\ spans[r] \in Seq(Values) /\ repl[r] \in Seq(Seq(Words))
      /\ Len(repl[r]) <= Len(spans[r]) /\ out[r] \in Seq(Words)
  BY <1>1 DEF TypeOK
<1> DEFINE x == FlattenSeq(text[r])
<1>3. x \in Seq(Words)
  BY <1>1, SentType
<1> HIDE DEF x
<1>4. x \in Seq(Range(x)) /\ Range(x) \subseteq Words
  BY <1>3 DEF Range
<1> QED
  BY <1>2, <1>3, <1>4 DEF Wrote, x

LEMMA LegibleRequest ==
  ASSUME PrivacyInv, Restorable, NEW r \in Requests, Apart(r)
  PROVE  Legible(Words, Wrote(r), spans[r], repl[r])
<1> DEFINE s == spans[r]
           f == repl[r]
<1>1. /\ text[r] \in Seq(Values) /\ s \in Seq(Values) /\ f \in Seq(Seq(Words))
      /\ Len(f) \in Nat /\ Len(s) \in Nat /\ Len(f) <= Len(s) /\ Wrote(r) \subseteq Words
  BY WroteType
<1>2. \A i \in 1..Len(f) : i \in 1..Len(s) /\ f[i] \in Seq(Words) /\ s[i] \in Values
  BY <1>1
<1>3. ASSUME NEW i \in 1..Len(f) PROVE s[i] \in Seq(Wrote(r)) \ {<<>>}
  <2>1. s[i] \in Range(text[r])
    <3>1. Range(s) \subseteq Range(text[r])
      BY DEF Restorable
    <3>2. DOMAIN s = 1..Len(s)
      BY <1>1
    <3>3. s[i] \in Range(s)
      BY <1>2, <3>2 DEF Range
    <3> QED
      BY <3>1, <3>3
  <2>2. PICK l \in 1..Len(text[r]) : s[i] = text[r][l]
    <3>1. DOMAIN text[r] = 1..Len(text[r])
      BY <1>1
    <3> QED
      BY <2>1, <3>1 DEF Range
  <2>3. Values \subseteq Seq(Words) /\ s[i] \in Seq(Words) /\ s[i] # <<>>
    BY <1>2, PseudonymsAssumption
  <2>4. \A p \in 1..Len(text[r][l]) : text[r][l][p] \in Wrote(r)
    BY <1>1, <2>3, FlattenHolds DEF Wrote
  <2>5. \A p \in 1..Len(s[i]) : s[i][p] \in Wrote(r)
    BY <2>2, <2>4
  <2> QED
    BY <2>3, <2>5
<1>4. ASSUME NEW i \in 1..Len(f) PROVE f[i] \in Seq(Words) \ {<<>>} /\ \E k \in 1..Len(f[i]) : f[i][k] \notin Wrote(r)
  <2>1. f[i] \in Seq(Words) /\ f[i] # <<>>
    BY <1>2 DEF Restorable
  <2>2. ~(Range(f[i]) \subseteq Wrote(r))
    BY DEF Apart, Wrote
  <2> QED
    BY <2>1, <2>2 DEF Range
<1>5. ASSUME NEW i \in 1..Len(f), NEW j \in 1..Len(f), i # j
      PROVE  Disjoint(f[i], s[j]) /\ Disjoint(f[i], f[j])
  <2> DEFINE others == (1..Len(f)) \ {i}
             V == {s[k] : k \in others} \cup {f[k] : k \in others}
  <2>1. Range(f[i]) \cap WordsOf(V) = {}
    BY DEF Apart
  <2>2. s[j] \in V /\ f[j] \in V
    BY <1>5
  <2>3. Range(s[j]) \subseteq WordsOf(V) /\ Range(f[j]) \subseteq WordsOf(V)
    BY <2>2 DEF WordsOf
  <2>4. f[i] \in Seq(Words) /\ f[j] \in Seq(Words) /\ s[j] \in Seq(Words)
    BY <1>2, ValueType
  <2>5. /\ \A a \in 1..Len(f[i]) : f[i][a] \in Range(f[i])
        /\ \A a \in 1..Len(f[j]) : f[j][a] \in Range(f[j])
        /\ \A a \in 1..Len(s[j]) : s[j][a] \in Range(s[j])
    BY <2>4 DEF Range
  <2> HIDE DEF V
  <2> QED
    BY <2>1, <2>3, <2>5 DEF Disjoint
<1> QED
  BY <1>1, <1>3, <1>4, <1>5 DEF Legible

LEMMA SentTiles ==
  ASSUME PrivacyInv, Restorable, NEW r \in Requests, Left(r), Apart(r)
  PROVE  <<FlattenSeq(text[r]), out[r]>> \in Tiled(Words, Pieces(r))
<1> DEFINE x == FlattenSeq(text[r])
<1>1. Legible(Words, Wrote(r), spans[r], repl[r])
  BY LegibleRequest
<1>2. x \in Seq(Wrote(r)) /\ Wrote(r) \in SUBSET Words /\ Len(repl[r]) \in 0..Len(repl[r])
  BY WroteType
<1>3. Masking(spans[r], repl[r], Len(repl[r])) \in SUBSET Masks(Words, Wrote(r))
  BY <1>1, <1>2, MaskingType
<1>4. Pieces(r) \in SUBSET (Seq(Words) \X Seq(Words)) /\ Plain(Wrote(r)) \subseteq Pieces(r)
  BY ZenonT(40), <1>2, <1>3, PiecesType DEF Pieces
<1>5. CASE Pending(r)
  <2>1. out[r] = x
    BY <1>5 DEF Restorable
  <2>2. <<x, x>> \in Tiled(Words, Pieces(r))
    BY <1>2, <1>4, PlainItself
  <2> QED
    BY <2>1, <2>2
<1>6. CASE ~Pending(r)
  <2>1. out[r] = Pseudonymize(x, Pairs(spans[r], repl[r]))
    BY <1>6, SentType DEF PrivacyInv, TypeInv, Gone
  <2> HIDE DEF x
  <2>2. <<x, Pseudonymize(x, Pairs(spans[r], repl[r]))>> \in Tiled(Words, Pieces(r))
    BY <1>1, <1>2, PseudonymizeTiles DEF Pieces
  <2> QED
    BY <2>1, <2>2 DEF x
<1> QED
  BY <1>5, <1>6

\* Mappings that lead every pseudonym of r back restore all that is put
\* together from its pieces.
LEMMA RestoresPieces ==
  ASSUME PrivacyInv, Restorable, NEW r \in Requests, Apart(r),
         NEW S \in SUBSET Entries, IsFiniteSet(S), Undone(r, S),
         NEW x, NEW y \in Seq(Range(out[r]) \cup Wrote(r)), <<x, y>> \in Tiled(Words, Pieces(r)),
         NEW t \in Restorations(y, S)
  PROVE  t = x
<1> DEFINE O == Range(out[r]) \cup Wrote(r)
           s == spans[r]
           f == repl[r]
<1>1. PICK q \in LongestFirst(S, [m \in S |-> Len(m.fake)]) : t = Restore(y, q)
  BY DEF Restorations
<1>2. q \in Seq(S) /\ \A m \in S : \E l \in 1..Len(q) : q[l] = m
  BY OrderType, OrderAll
<1>3. Legible(Words, Wrote(r), s, f) /\ Wrote(r) \subseteq O
  BY LegibleRequest
<1>4. /\ DOMAIN Replacements(r) = 1..Len(f)
      /\ \A i \in 1..Len(f) : Replacements(r)[i].original = s[i] /\ Replacements(r)[i].fake = f[i]
  BY DEF Replacements
<1>5. Recovers(Words, O, s, f, q)
  <2>1. ASSUME NEW l \in 1..Len(q)
        PROVE  /\ q[l].fake \in Seq(Words) \ {<<>>} /\ q[l].original \in Seq(Words)
               /\ \/ \E i \in 1..Len(f) : q[l].original = s[i] /\ q[l].fake = f[i]
                  \/ \A a \in 1..Len(q[l].fake) : q[l].fake[a] \notin O
    <3> DEFINE m == q[l]
    <3>1. m \in S
      BY <1>2
    <3> HIDE DEF m
    <3>2. m.fake \in Seq(Words) \ {<<>>} /\ m.original \in Seq(Words)
      BY <3>1 DEF Entries, Mapping
    <3>3. m \in Range(Replacements(r)) \/ Range(m.fake) \cap O = {}
      BY <3>1 DEF Undone, Wrote
    <3>4. CASE m \in Range(Replacements(r))
      <4>1. PICK i \in 1..Len(f) : m = Replacements(r)[i]
        BY <1>4, <3>4 DEF Range
      <4>2. m.original = s[i] /\ m.fake = f[i]
        BY <1>4, <4>1
      <4> QED
        BY <3>2, <4>2 DEF m
    <3>5. CASE Range(m.fake) \cap O = {}
      <4>1. \A a \in 1..Len(m.fake) : m.fake[a] \in Range(m.fake)
        BY <3>2 DEF Range
      <4> QED
        BY <3>2, <3>5, <4>1 DEF m
    <3> QED
      BY <3>3, <3>4, <3>5
  <2>2. ASSUME NEW i \in 1..Len(f)
        PROVE  \E l \in 1..Len(q) : q[l].original = s[i] /\ q[l].fake = f[i]
    <3>1. Replacements(r)[i] \in S
      BY <1>4 DEF Undone, Range
    <3>2. PICK l \in 1..Len(q) : q[l] = Replacements(r)[i]
      BY <1>2, <3>1
    <3> QED
      BY <1>4, <3>2
  <2> QED
    BY <2>1, <2>2 DEF Recovers
<1>6. y \in Seq(O) /\ <<x, y>> \in Tiled(Words, Plain(Wrote(r)) \cup Masking(s, f, Len(f)))
  BY DEF Pieces
<1> HIDE DEF O, s, f
<1>7. Restore(y, q) = x
  BY <1>2, <1>3, <1>5, <1>6, RestoreTiles
<1> QED
  BY <1>1, <1>7

\* The mappings of a request all of whose values were new.
LEMMA AllMine ==
  ASSUME PrivacyInv, Restorable, NEW r \in Requests, Cardinality(mine[r]) = Len(spans[r])
  PROVE  Undone(r, mine[r])
<1> DEFINE R == Range(Replacements(r))
           n == Len(repl[r])
<1>1. n \in Nat /\ Len(spans[r]) \in Nat /\ n <= Len(spans[r])
  BY WroteType
<1>2. DOMAIN Replacements(r) = 1..n
  BY DEF Replacements
<1>3. Replacements(r) \in Surjection(1..n, R)
  <2>1. Replacements(r) \in [1..n -> R]
    BY <1>2 DEF Replacements, Range
  <2> QED
    BY <1>2, <2>1 DEF Surjection, Range
<1>4. IsFiniteSet(R) /\ Cardinality(R) <= n
  <2> HIDE DEF n, R
  <2>1. IsFiniteSet(1..n) /\ Cardinality(1..n) = n
    BY <1>1, FS_Interval
  <2> QED
    BY <1>3, <2>1, FS_Surjection
<1>5. mine[r] \in SUBSET R
  BY DEF Restorable
<1> HIDE DEF R, n
<1>6. mine[r] = R
  <2>1. Cardinality(mine[r]) <= Cardinality(R) /\ (Cardinality(R) = Cardinality(mine[r]) => R = mine[r])
    BY <1>4, <1>5, FS_Subset
  <2>2. Cardinality(R) \in Nat
    BY <1>4, FS_CardinalityType
  <2> QED
    BY <1>1, <1>4, <2>1, <2>2
<1> QED
  BY <1>6 DEF R, Undone

(* Whatever the texts and the pseudonyms, and in whatever order the        *)
(* mappings are applied: an answer that repeats the request is restored.   *)
THEOREM RestorationHolds == Spec => RestoredExactly
<1>1. ASSUME PrivacyInv, Restorable, [Next]_vars
      PROVE  [\A r \in Requests :
                /\ pc[r] = "sent" /\ pc'[r] = "done"
                /\ \/ RestoreOwn(r) /\ Cardinality(mine[r]) = Len(spans[r])
                   \/ RestoreSession(r) /\ Undone(r, Session)
                /\ Apart(r)
                => result'[r] = FlattenSeq(text[r])]_vars
  <2> SUFFICES ASSUME NEW r \in Requests, pc[r] = "sent",
                      \/ RestoreOwn(r) /\ Cardinality(mine[r]) = Len(spans[r])
                      \/ RestoreSession(r) /\ Undone(r, Session),
                      Apart(r)
               PROVE  result'[r] = FlattenSeq(text[r])
    OBVIOUS
  <2> DEFINE x == FlattenSeq(text[r])
             y == out[r]
  <2>1. TypeOK /\ Filled /\ Stored /\ result[r] = <<>> /\ Left(r) /\ result \in [Requests -> Seq(Words)]
    BY <1>1 DEF PrivacyInv, TypeInv, TypeOK, Restorable, Left
  <2>2. PICK S \in SUBSET Entries :
          /\ IsFiniteSet(S) /\ Undone(r, S)
          /\ \E t \in Restorations(y, S) : Deliver(r, t)
    <3>1. CASE RestoreOwn(r) /\ Cardinality(mine[r]) = Len(spans[r])
      <4>1. mine[r] \in SUBSET Entries /\ IsFiniteSet(mine[r]) /\ Undone(r, mine[r])
        BY <1>1, <2>1, <3>1, MineType, AllMine
      <4>2. \E t \in Restorations(y, mine[r]) : Deliver(r, t)
        BY <3>1 DEF RestoreOwn, RestoreResponseWithMappings
      <4> QED
        BY <4>1, <4>2
    <3>2. CASE RestoreSession(r) /\ Undone(r, Session)
      <4>1. Session \in SUBSET Entries /\ IsFiniteSet(Session)
        BY <2>1, StoreType
      <4>2. \E t \in Restorations(y, Session) : Deliver(r, t)
        BY <3>2 DEF RestoreSession, RestoreResponse
      <4> QED
        BY <3>2, <4>1, <4>2
    <3> QED
      BY <3>1, <3>2
  <2>3. PICK t \in Restorations(y, S) : Deliver(r, t)
    BY <2>2
  <2>4. y \in Seq(Words) /\ x \in Seq(Words)
    BY <1>1, WroteType
  <2>5. y \in Seq(Range(y) \cup Wrote(r))
    BY <2>4 DEF Range
  <2>6. <<x, y>> \in Tiled(Words, Pieces(r))
    BY <1>1, <2>1, SentTiles
  <2>7. t = x
    BY <1>1, <2>2, <2>5, <2>6, RestoresPieces
  <2>8. result'[r] = <<>> \o t
    BY <2>1, <2>3 DEF Deliver
  <2> HIDE DEF x
  <2>9. <<>> \o x = x
    BY <2>4
  <2> QED
    BY <2>7, <2>8, <2>9 DEF x
<1> QED
  BY <1>1, PrivacyInvariant, RestorableInvariant, PTL DEF Spec, RestoredExactly

-----------------------------------------------------------------------------
(* Restoration of a stream                                                 *)

LEMMA PrefixIs ==
  ASSUME NEW W, NEW s \in Seq(W), NEW t \in Seq(W), Len(s) <= Len(t),
         \A j \in 1..Len(s) : s[j] = t[j]
  PROVE  IsPrefix(s, t)
<1> DEFINE u == SubSeq(t, 1, Len(s))
<1>1. Len(s) \in Nat /\ Len(t) \in Nat
  OBVIOUS
<1>2. u \in Seq(W) /\ Len(u) = Len(s) /\ \A j \in 1..Len(s) : u[j] = t[j]
  BY <1>1
<1> HIDE DEF u
<1>3. u = s
  BY <1>2, SeqEqual
<1>4. SubSeq(s, 1, Len(s)) = s
  BY SubSeqFull
<1> QED
  BY <1>3, <1>4 DEF IsPrefix, u

LEMMA ReverseType ==
  ASSUME NEW W, NEW s \in Seq(W)
  PROVE  /\ Reverse(s) \in Seq(W) /\ Len(Reverse(s)) = Len(s)
         /\ \A j \in 1..Len(s) : Reverse(s)[j] = s[Len(s) - j + 1]
<1>1. Len(s) \in Nat
  OBVIOUS
<1>2. \A j \in 1..Len(s) : Len(s) - j + 1 \in 1..Len(s)
  BY <1>1
<1>3. Reverse(s) \in [1..Len(s) -> W] /\ \A j \in 1..Len(s) : Reverse(s)[j] = s[Len(s) - j + 1]
  BY <1>2 DEF Reverse
<1> QED
  BY <1>1, <1>3

LEMMA SuffixIs ==
  ASSUME NEW W, NEW s \in Seq(W), NEW t \in Seq(W), Len(s) <= Len(t),
         \A j \in 1..Len(s) : t[Len(t) - Len(s) + j] = s[j]
  PROVE  IsSuffix(s, t)
<1> DEFINE a == Reverse(s)
           b == Reverse(t)
<1>1. /\ a \in Seq(W) /\ Len(a) = Len(s) /\ \A j \in 1..Len(s) : a[j] = s[Len(s) - j + 1]
      /\ b \in Seq(W) /\ Len(b) = Len(t) /\ \A j \in 1..Len(t) : b[j] = t[Len(t) - j + 1]
      /\ Len(s) \in Nat /\ Len(t) \in Nat
  BY ReverseType
<1> HIDE DEF a, b
<1>2. ASSUME NEW j \in 1..Len(a) PROVE a[j] = b[j]
  <2> DEFINE i == Len(s) - j + 1
  <2>1. i \in 1..Len(s) /\ j \in 1..Len(t) /\ Len(t) - Len(s) + i = Len(t) - j + 1
    BY <1>1
  <2>2. t[Len(t) - Len(s) + i] = s[i]
    BY <2>1
  <2>3. a[j] = s[i] /\ b[j] = t[Len(t) - j + 1]
    BY <1>1, <2>1
  <2> QED
    BY <2>1, <2>2, <2>3
<1>3. IsPrefix(a, b)
  BY <1>1, <1>2, PrefixIs
<1> QED
  BY <1>3 DEF IsSuffix, a, b

Associate(x, y, z) == (x \o y) \o z = x \o (y \o z)
Cancel(x, y, z) == x \o y = x \o z => y = z

LEMMA Concats ==
  ASSUME NEW W, NEW x \in Seq(W), NEW y \in Seq(W)
  PROVE  /\ x \o y \in Seq(W) /\ Len(x \o y) = Len(x) + Len(y)
         /\ \A j \in 1..Len(x) : (x \o y)[j] = x[j]
         /\ \A j \in 1..Len(y) : (x \o y)[Len(x) + j] = y[j]
         /\ x \o y = <<>> => x = <<>> /\ y = <<>>
         /\ <<>> \o y = y
         /\ \A z \in Seq(W) : Associate(x, y, z) /\ Cancel(x, y, z)
<1>1. /\ x \o y \in Seq(W) /\ Len(x \o y) = Len(x) + Len(y)
      /\ \A j \in 1..Len(x) : (x \o y)[j] = x[j]
      /\ \A j \in 1..Len(y) : (x \o y)[Len(x) + j] = y[j]
      /\ <<>> \o y = y
  OBVIOUS
<1>2. x \o y = <<>> => x = <<>> /\ y = <<>>
  OBVIOUS
<1>3. \A z \in Seq(W) : (x \o y) \o z = x \o (y \o z)
  BY ConcatAssociative
<1>4. \A z \in Seq(W) : x \o y = x \o z => y = z
  <2> SUFFICES ASSUME NEW z \in Seq(W), x \o y = x \o z PROVE y = z
    OBVIOUS
  <2>1. /\ Len(x \o z) = Len(x) + Len(z)
        /\ \A j \in 1..Len(z) : (x \o z)[Len(x) + j] = z[j]
    OBVIOUS
  <2>2. Len(y) = Len(z) /\ Len(y) \in Nat
    <3>1. Len(x) \in Nat /\ Len(y) \in Nat /\ Len(z) \in Nat /\ Len(x) + Len(y) = Len(x) + Len(z)
      BY <1>1, <2>1
    <3> QED
      BY <3>1
  <2>3. \A j \in 1..Len(y) : y[j] = z[j]
    BY <1>1, <2>1, <2>2
  <2> QED
    BY <2>2, <2>3, SeqEqual
<1> QED
  BY <1>1, <1>2, <1>3, <1>4 DEF Associate, Cancel

\* The words f lie across the end of a and the beginning of b.
Torn(f, a, b) ==
  \E k \in 1..(Len(f) - 1) :
    /\ k <= Len(a) /\ Len(f) - k <= Len(b)
    /\ \A j \in 1..k : a[Len(a) - k + j] = f[j]
    /\ \A j \in 1..(Len(f) - k) : b[j] = f[k + j]

\* x and y, which are put together from P, can be cut wherever y has none of
\* the pseudonyms across the cut.
Cuttable(W, P, M, x, y) ==
  \A a, b \in Seq(W) : y = a \o b /\ (\A m \in M : ~Torn(m[2], a, b)) =>
    \E u, v \in Seq(W) : x = u \o v /\ <<u, a>> \in Tiled(W, P) /\ <<v, b>> \in Tiled(W, P)

LEMMA Cut ==
  ASSUME NEW W, NEW R \in SUBSET W, NEW M \in SUBSET Masks(W, R),
         NEW x, NEW y, <<x, y>> \in Tiled(W, Plain(R) \cup M)
  PROVE  Cuttable(W, Plain(R) \cup M, M, x, y)
<1> DEFINE P == Plain(R) \cup M
           Two(s, t) ==
             \A a, b \in Seq(W) : t = a \o b /\ (\A m \in M : ~Torn(m[2], a, b)) =>
               \E u, v \in Seq(W) :
                 s = u \o v /\ <<u, a>> \in Tiled(W, P) /\ <<v, b>> \in Tiled(W, P)
           Z == {z \in Tiled(W, P) : Two(z[1], z[2])}
<1>1. P \in SUBSET (Seq(W) \X Seq(W)) /\ \A p \in P : p[2] # <<>>
  BY PiecesType
<1>2. Closed(Tiled(W, P), P)
  <2>1. P \in SUBSET (Seq(W) \X Seq(W))
    BY <1>1
  <2> HIDE DEF P
  <2> QED
    BY <2>1, TiledClosed
<1>13. \A s, t, w \in Seq(W) : Associate(s, t, w) /\ Cancel(s, t, w)
  BY Concats
<1>14. \A s, t \in Seq(W) :
         /\ s \o t \in Seq(W) /\ Len(s \o t) = Len(s) + Len(t)
         /\ \A j \in 1..Len(s) : (s \o t)[j] = s[j]
         /\ \A j \in 1..Len(t) : (s \o t)[Len(s) + j] = t[j]
  BY Concats
<1>3. \A w \in R : Len(<<w>>) = 1
  OBVIOUS
<1>4. \A p \in P : p \in M \/ Len(p[2]) = 1
  BY <1>3 DEF Plain
<1> HIDE DEF P
<1>5. <<<<>>, <<>>>> \in Tiled(W, P) /\ <<>> \in Seq(W)
  BY <1>2, EmptySeq DEF Closed
<1>6. <<<<>>, <<>>>> \in Z
  <2>1. \A a, b \in Seq(W) : <<>> = a \o b => a = <<>> /\ b = <<>>
    <3>1. \A a, b \in Seq(W) : a \o b = <<>> => a = <<>> /\ b = <<>>
      BY Concats
    <3> QED
      BY <3>1
  <2>2. <<>> = <<>> \o <<>>
    OBVIOUS
  <2>3. Two(<<>>, <<>>)
    BY <1>5, <2>1, <2>2
  <2> HIDE DEF Two
  <2> QED
    BY <1>5, <2>3
<1>7. ASSUME NEW p \in P, NEW z \in Z PROVE Beside(p, z) \in Z
  <2> DEFINE c == p[1]
             e == p[2]
             s == z[1]
             d == z[2]
  <2>1. /\ z \in Tiled(W, P) /\ Two(s, d)
        /\ Beside(p, z) = <<c \o s, e \o d>> /\ <<c \o s, e \o d>> \in Tiled(W, P)
    BY <1>2 DEF Beside, Closed
  <2>2. /\ c \in Seq(W) /\ e \in Seq(W) /\ e # <<>> /\ s \in Seq(W) /\ d \in Seq(W)
        /\ (p \in M \/ Len(e) = 1) /\ p = <<c, e>>
    BY <1>1, <1>4, <2>1 DEF Tiled
  <2> SUFFICES Two(c \o s, e \o d)
    <3> DEFINE g == <<c \o s, e \o d>>
    <3>1. Beside(p, z) = g /\ g \in Tiled(W, P) /\ g[1] = c \o s /\ g[2] = e \o d
      BY <2>1
    <3> HIDE DEF g, Two
    <3> QED
      BY <3>1
  <2>3. ASSUME NEW u, NEW t, <<u, t>> \in Tiled(W, P) PROVE <<c \o u, e \o t>> \in Tiled(W, P)
    <3>1. Beside(p, <<u, t>>) \in Tiled(W, P)
      BY <1>2, <2>3 DEF Closed
    <3> QED
      BY <3>1 DEF Beside
  <2>4. p \in M => p[2] = e
    OBVIOUS
  <2> HIDE DEF c, e, s, d
  <2> SUFFICES ASSUME NEW a \in Seq(W), NEW b \in Seq(W), e \o d = a \o b,
                      \A m \in M : ~Torn(m[2], a, b)
               PROVE  \E u, v \in Seq(W) :
                        c \o s = u \o v /\ <<u, a>> \in Tiled(W, P) /\ <<v, b>> \in Tiled(W, P)
    OBVIOUS
  <2>5. Len(e) \in Nat \ {0} /\ Len(d) \in Nat /\ Len(a) \in Nat /\ Len(b) \in Nat
        /\ Len(e) + Len(d) = Len(a) + Len(b)
    <3>1. Len(e \o d) = Len(e) + Len(d) /\ Len(a \o b) = Len(a) + Len(b)
      BY <2>2
    <3> QED
      BY <2>2, <3>1
  <2>6. /\ \A j \in 1..Len(e) : (e \o d)[j] = e[j]
        /\ \A j \in 1..Len(d) : (e \o d)[Len(e) + j] = d[j]
        /\ \A j \in 1..Len(a) : (e \o d)[j] = a[j]
        /\ \A j \in 1..Len(b) : (e \o d)[Len(a) + j] = b[j]
    <3>1. /\ \A j \in 1..Len(e) : (e \o d)[j] = e[j]
          /\ \A j \in 1..Len(d) : (e \o d)[Len(e) + j] = d[j]
      BY <1>14, <2>2
    <3>2. /\ \A j \in 1..Len(a) : (a \o b)[j] = a[j]
          /\ \A j \in 1..Len(b) : (a \o b)[Len(a) + j] = b[j]
      OBVIOUS
    <3> QED
      BY <3>1, <3>2
  <2>7. CASE a = <<>>
    <3>1. a \o b = b /\ c \o s \in Seq(W) /\ c \o s = <<>> \o (c \o s)
      BY <2>2, <2>7
    <3>2. <<c \o s, b>> \in Tiled(W, P) /\ <<<<>>, a>> \in Tiled(W, P) /\ <<>> \in Seq(W)
      BY <1>5, <2>1, <2>7, <3>1
    <3> QED
      BY <3>1, <3>2
  <2>8. CASE a # <<>> /\ Len(e) <= Len(a)
    <3> DEFINE g == SubSeq(a, Len(e) + 1, Len(a))
    <3>1. /\ g \in Seq(W) /\ Len(g) = Len(a) - Len(e)
          /\ \A j \in 1..Len(g) : g[j] = a[Len(e) + j] /\ Len(e) + j \in 1..Len(a)
      BY <2>5, <2>8
    <3> HIDE DEF g
    <3>2. a = e \o g
      <4>1. e \o g \in Seq(W) /\ Len(e \o g) = Len(a)
        BY <2>2, <2>5, <3>1
      <4>2. ASSUME NEW j \in 1..Len(a) PROVE a[j] = (e \o g)[j]
        <5>1. CASE j \in 1..Len(e)
          BY <2>2, <2>5, <2>6, <3>1, <5>1
        <5>2. CASE j \notin 1..Len(e)
          <6>1. j - Len(e) \in 1..Len(g) /\ Len(e) + (j - Len(e)) = j
            BY <2>5, <3>1, <5>2
          <6>2. (e \o g)[Len(e) + (j - Len(e))] = g[j - Len(e)]
            BY <2>2, <3>1, <6>1
          <6> QED
            BY <3>1, <6>1, <6>2
        <5> QED
          BY <5>1, <5>2
      <4> QED
        BY <4>1, <4>2, SeqEqual
    <3>3. d = g \o b
      <4>1. e \o d = (e \o g) \o b
        BY <3>2
      <4>2. (e \o g) \o b = e \o (g \o b)
        <5>1. Associate(e, g, b)
          BY <1>13, <2>2, <3>1
        <5> QED
          BY <5>1 DEF Associate
      <4>3. g \o b \in Seq(W)
        BY <3>1
      <4>4. e \o d = e \o (g \o b)
        BY <4>1, <4>2
      <4> QED
        <5>1. Cancel(e, d, g \o b)
          BY <1>13, <2>2, <4>3
        <5> QED
          BY <4>4, <5>1 DEF Cancel
    <3>4. ASSUME NEW m \in M PROVE ~Torn(m[2], g, b)
      <4> DEFINE f == m[2]
      <4> HIDE DEF f
      <4>1. SUFFICES ASSUME Torn(f, g, b) PROVE Torn(f, a, b)
        BY DEF f
      <4>2. PICK k \in 1..(Len(f) - 1) :
              /\ k <= Len(g) /\ Len(f) - k <= Len(b)
              /\ \A j \in 1..k : g[Len(g) - k + j] = f[j]
              /\ \A j \in 1..(Len(f) - k) : b[j] = f[k + j]
        BY <4>1 DEF Torn
      <4>3. k \in Nat /\ k <= Len(a)
        BY <2>5, <3>1, <4>2
      <4>4. ASSUME NEW j \in 1..k PROVE a[Len(a) - k + j] = f[j]
        <5>1. Len(g) - k + j \in 1..Len(g) /\ Len(e) + (Len(g) - k + j) = Len(a) - k + j
          BY <2>5, <3>1, <4>2, <4>3
        <5>2. g[Len(g) - k + j] = f[j]
          BY <4>2
        <5> QED
          BY <3>1, <5>1, <5>2
      <4> QED
        BY <4>2, <4>3, <4>4 DEF Torn
    <3>5. PICK u \in Seq(W), v \in Seq(W) :
            s = u \o v /\ <<u, g>> \in Tiled(W, P) /\ <<v, b>> \in Tiled(W, P)
      BY <2>1, <3>1, <3>3, <3>4
    <3>6. <<c \o u, a>> \in Tiled(W, P)
      BY <2>3, <3>2, <3>5
    <3>7. c \o s = (c \o u) \o v /\ c \o u \in Seq(W)
      <4>1. (c \o u) \o v = c \o (u \o v)
        <5>1. Associate(c, u, v)
          BY <1>13, <2>2
        <5> QED
          BY <5>1 DEF Associate
      <4>2. c \o s = c \o (u \o v)
        BY <3>5
      <4>3. c \o u \in Seq(W)
        BY <2>2
      <4> QED
        BY <4>1, <4>2, <4>3
    <3> QED
      BY <3>5, <3>6, <3>7
  <2>9. CASE a # <<>> /\ ~(Len(e) <= Len(a))
    <3>1. Len(a) \in 1..(Len(e) - 1) /\ Len(e) # 1 /\ Len(e) - Len(a) <= Len(b)
      BY SMTT(30), <2>5, <2>9
    <3>2. \A j \in 1..Len(a) : a[Len(a) - Len(a) + j] = e[j]
      <4>1. \A j \in 1..Len(a) : j \in 1..Len(e) /\ Len(a) - Len(a) + j = j
        BY <2>5, <3>1
      <4> QED
        BY <2>6, <4>1
    <3>3. \A j \in 1..(Len(e) - Len(a)) : b[j] = e[Len(a) + j]
      <4>1. \A j \in 1..(Len(e) - Len(a)) : j \in 1..Len(b) /\ Len(a) + j \in 1..Len(e)
        BY <2>5, <3>1
      <4> QED
        BY <2>6, <4>1
    <3>4. Torn(e, a, b)
      <4> DEFINE k == Len(a)
      <4>1. /\ k \in 1..(Len(e) - 1) /\ k <= Len(a) /\ Len(e) - k <= Len(b)
            /\ \A j \in 1..k : a[Len(a) - k + j] = e[j]
            /\ \A j \in 1..(Len(e) - k) : b[j] = e[k + j]
        BY <2>5, <3>1, <3>2, <3>3
      <4> HIDE DEF k
      <4> QED
        BY <4>1 DEF Torn
    <3>5. p \in M
      BY <2>2, <3>1
    <3> QED
      BY ZenonT(40), <2>4, <3>4, <3>5
  <2> QED
    BY <2>7, <2>8, <2>9
<1> HIDE DEF Z
<1>8. Closed(Z, P)
  BY <1>6, <1>7 DEF Closed
<1>9. <<x, y>> \in Z
  BY <1>8, TiledLeast DEF P
<1> QED
  BY <1>9 DEF Z, P, Cuttable

LEMMA Cuts ==
  ASSUME NEW W, NEW o \in Seq(W), NEW c \in Nat, NEW n \in Nat, c <= n, n <= Len(o)
  PROVE  /\ SubSeq(o, c + 1, n) \in Seq(W) /\ Len(SubSeq(o, c + 1, n)) = n - c
         /\ \A j \in 1..(n - c) : SubSeq(o, c + 1, n)[j] = o[c + j]
<1> DEFINE a == SubSeq(o, c + 1, n)
<1>1. /\ a \in Seq(W) /\ Len(a) = n - c
  OBVIOUS
<1>2. ASSUME NEW j \in 1..(n - c) PROVE a[j] = o[c + j]
  OBVIOUS
<1> QED
  BY <1>1, <1>2

LEMMA TornEnds ==
  ASSUME NEW W, NEW o \in Seq(W), NEW f \in Seq(W), NEW c \in Nat, NEW n \in Nat,
         c <= n, n <= Len(o),
         Torn(f, SubSeq(o, c + 1, n), SubSeq(o, n + 1, Len(o)))
  PROVE  \E k \in 1..(Len(f) - 1) :
           /\ IsSuffix(SubSeq(f, 1, k), SubSeq(o, 1, n))
           /\ IsPrefix(SubSeq(f, k + 1, Len(f)), SubSeq(o, n + 1, Len(o)))
<1> DEFINE a == SubSeq(o, c + 1, n)
           b == SubSeq(o, n + 1, Len(o))
           h == SubSeq(o, 0 + 1, n)
<1>0. 0 \in Nat /\ 0 <= n /\ Len(o) \in Nat /\ Len(o) <= Len(o) /\ Len(f) \in Nat /\ Len(f) <= Len(f)
  OBVIOUS
<1>1. /\ a \in Seq(W) /\ Len(a) = n - c /\ \A j \in 1..(n - c) : a[j] = o[c + j]
  BY Cuts
<1>2. /\ b \in Seq(W) /\ Len(b) = Len(o) - n /\ \A j \in 1..(Len(o) - n) : b[j] = o[n + j]
  BY <1>0, Cuts
<1>3. /\ h \in Seq(W) /\ Len(h) = n - 0 /\ \A j \in 1..(n - 0) : h[j] = o[0 + j]
  BY <1>0, Cuts
<1>4. h = SubSeq(o, 1, n)
  OBVIOUS
<1> HIDE DEF a, b, h
<1>5. PICK k \in 1..(Len(f) - 1) :
        /\ k <= Len(a) /\ Len(f) - k <= Len(b)
        /\ \A j \in 1..k : a[Len(a) - k + j] = f[j]
        /\ \A j \in 1..(Len(f) - k) : b[j] = f[k + j]
  BY DEF Torn, a, b
<1> DEFINE d == SubSeq(f, 0 + 1, k)
           e == SubSeq(f, k + 1, Len(f))
<1>6. k \in Nat /\ 0 <= k /\ k <= Len(f)
  BY <1>0, <1>5
<1>7. /\ d \in Seq(W) /\ Len(d) = k - 0 /\ \A j \in 1..(k - 0) : d[j] = f[0 + j]
  BY <1>0, <1>6, Cuts
<1>8. /\ e \in Seq(W) /\ Len(e) = Len(f) - k /\ \A j \in 1..(Len(f) - k) : e[j] = f[k + j]
  BY <1>0, <1>6, Cuts
<1>9. d = SubSeq(f, 1, k)
  OBVIOUS
<1> HIDE DEF d, e
<1>10. IsSuffix(d, h)
  <2>1. Len(d) = k /\ Len(h) = n /\ Len(d) <= Len(h)
    BY <1>1, <1>3, <1>5, <1>6, <1>7
  <2>2. ASSUME NEW j \in 1..Len(d) PROVE h[Len(h) - Len(d) + j] = d[j]
    <3> DEFINE i == n - k + j
               l == n - c - k + j
    <3>1. i \in 1..n /\ l \in 1..(n - c) /\ c + l = i /\ 0 + i = i /\ 0 + j = j /\ j \in 1..k
      <4>1. j \in 1..k /\ k \in Nat /\ k <= n - c
        BY <1>1, <1>5, <1>6, <2>1
      <4> QED
        BY <4>1
    <3>2. Len(a) - k + j = l /\ Len(h) - Len(d) + j = i
      BY <1>1, <1>6, <2>1
    <3>3. d[j] = f[j]
      BY <1>7, <3>1
    <3>4. a[l] = f[j]
      BY <1>5, <3>1, <3>2
    <3> HIDE DEF i, l
    <3>5. a[l] = o[i]
      BY <1>1, <3>1
    <3>6. h[i] = o[i]
      BY <1>3, <3>1
    <3> QED
      BY <3>2, <3>3, <3>4, <3>5, <3>6
  <2> QED
    BY <1>3, <1>7, <2>1, <2>2, SuffixIs
<1>11. IsPrefix(e, b)
  <2>1. Len(e) <= Len(b) /\ \A j \in 1..Len(e) : e[j] = b[j]
    BY <1>5, <1>8
  <2> QED
    BY <1>2, <1>8, <2>1, PrefixIs
<1> QED
  BY <1>4, <1>5, <1>9, <1>10, <1>11 DEF b, e

\* x, which is what r sent after its first c words, falls into what is
\* behind its words up to n and behind the words after them.
Parted(r, c, n, x) ==
  \E u, v \in Seq(Words) :
    /\ x = u \o v
    /\ <<u, SubSeq(out[r], c + 1, n)>> \in Tiled(Words, Pieces(r))
    /\ <<v, SubSeq(out[r], n + 1, Len(out[r]))>> \in Tiled(Words, Pieces(r))

\* What r sent can be cut where no pseudonym is split.
LEMMA CutSent ==
  ASSUME PrivacyInv, Restorable, NEW r \in Requests, Apart(r),
         NEW c \in Nat, NEW n \in Nat, c <= n, n <= Len(out[r]),
         n = Len(out[r]) \/ ~Splits(r, n),
         NEW x, <<x, SubSeq(out[r], c + 1, Len(out[r]))>> \in Tiled(Words, Pieces(r))
  PROVE  Parted(r, c, n, x)
<1> DEFINE o == out[r]
           a == SubSeq(o, c + 1, n)
           b == SubSeq(o, n + 1, Len(o))
           y == SubSeq(o, c + 1, Len(o))
           M == Masking(spans[r], repl[r], Len(repl[r]))
<1>1. o \in Seq(Words) /\ Wrote(r) \in SUBSET Words /\ repl[r] \in Seq(Seq(Words)) /\ Len(repl[r]) \in 0..Len(repl[r])
  BY WroteType
<1>2. M \in SUBSET Masks(Words, Wrote(r))
  BY <1>1, LegibleRequest, MaskingType
<1>3. a \in Seq(Words) /\ b \in Seq(Words) /\ Len(b) = Len(o) - n
  <2>1. Len(o) \in Nat /\ Len(o) <= Len(o)
    BY <1>1
  <2> QED
    BY <1>1, <2>1, Cuts
<1>4. y = a \o b
  <2>1. c + 1 \in 1..(Len(o) + 1) /\ n \in ((c + 1) - 1)..Len(o) /\ Len(o) \in n..Len(o)
    BY <1>1
  <2> HIDE DEF o
  <2> QED
    BY <1>1, <2>1, ConcatAdjacentSubSeq
<1>5. ASSUME NEW m \in M PROVE ~Torn(m[2], a, b)
  <2>1. PICK i \in 1..Len(repl[r]) : m = <<spans[r][i], repl[r][i]>>
    BY DEF Masking
  <2> DEFINE f == m[2]
  <2>2. f \in Seq(Words) /\ f \in Range(repl[r])
    BY <1>1, <2>1 DEF Range
  <2> HIDE DEF f
  <2>3. SUFFICES ASSUME Torn(f, a, b) PROVE FALSE
    BY DEF f
  <2>4. n # Len(o)
    <3>1. \E k \in 1..(Len(f) - 1) : Len(f) - k <= Len(b)
      BY <2>3 DEF Torn
    <3>2. Len(f) \in Nat
      BY <2>2
    <3> QED
      BY <1>1, <1>3, <3>1, <3>2
  <2>5. \E k \in 1..(Len(f) - 1) :
           /\ IsSuffix(SubSeq(f, 1, k), SubSeq(o, 1, n))
           /\ IsPrefix(SubSeq(f, k + 1, Len(f)), SubSeq(o, n + 1, Len(o)))
    <3> HIDE DEF o
    <3>1. n <= Len(o)
      BY DEF o
    <3> QED
      BY <1>1, <2>2, <2>3, <3>1, TornEnds
  <2> QED
    BY <2>2, <2>4, <2>5 DEF Splits
<1>6. <<x, y>> \in Tiled(Words, Plain(Wrote(r)) \cup M)
  BY DEF Pieces
<1> HIDE DEF a, b, y, M, o
<1>7. \E u, v \in Seq(Words) :
        x = u \o v /\ <<u, a>> \in Tiled(Words, Plain(Wrote(r)) \cup M)
                   /\ <<v, b>> \in Tiled(Words, Plain(Wrote(r)) \cup M)
  <2>1. \A s, t \in Seq(Words) : y = s \o t /\ (\A m \in M : ~Torn(m[2], s, t)) =>
          \E u, v \in Seq(Words) :
            x = u \o v /\ <<u, s>> \in Tiled(Words, Plain(Wrote(r)) \cup M)
                       /\ <<v, t>> \in Tiled(Words, Plain(Wrote(r)) \cup M)
    <3>1. Cuttable(Words, Plain(Wrote(r)) \cup M, M, x, y)
      BY <1>1, <1>2, <1>6, Cut
    <3> QED
      BY <3>1 DEF Cuttable
  <2> QED
    BY <1>3, <1>4, <1>5, <2>1
<1> QED
  BY <1>7 DEF Pieces, M, a, b, o, Parted

\* Any cut of what r sent has words that r sent.
LEMMA CutWords ==
  ASSUME PrivacyInv, NEW r \in Requests, NEW c \in Nat, NEW n \in Nat, c <= n, n <= Len(out[r])
  PROVE  SubSeq(out[r], c + 1, n) \in Seq(Range(out[r]) \cup Wrote(r))
<1> DEFINE o == out[r]
           O == Range(out[r]) \cup Wrote(r)
<1>1. o \in Seq(Words)
  BY WroteType
<1>2. o \in Seq(O)
  BY <1>1 DEF Range
<1>3. n <= Len(o)
  OBVIOUS
<1> HIDE DEF o, O
<1>4. SubSeq(o, c + 1, n) \in Seq(O)
  BY <1>2, <1>3, Cuts
<1> QED
  BY <1>4 DEF o, O

\* The mappings of the session, when they lead every pseudonym of r back.
LEMMA SessionRestores ==
  ASSUME PrivacyInv, Restorable, NEW r \in Requests, Apart(r), Undone(r, Session),
         NEW x, NEW y \in Seq(Range(out[r]) \cup Wrote(r)), <<x, y>> \in Tiled(Words, Pieces(r))
  PROVE  \A t \in Restorations(y, Session) : t = x
<1>1. Session \in SUBSET Entries /\ IsFiniteSet(Session)
  BY StoreType DEF PrivacyInv, TypeInv
<1> QED
  BY <1>1, RestoresPieces

LEMMA ToComeTiles ==
  ASSUME PrivacyInv, Restorable, NEW r \in Requests, Apart(r), Undone(r, Session),
         pc[r] \in {"sent", "streaming"}, ~Splits(r, taken[r]), pc[r] = "sent" \/ OnTrack(r)
  PROVE  \E x \in Seq(Words) :
           /\ <<x, SubSeq(out[r], taken[r] + 1, Len(out[r]))>> \in Tiled(Words, Pieces(r))
           /\ result[r] \o x = FlattenSeq(text[r])
<1> DEFINE o == out[r]
           y == SubSeq(o, taken[r] + 1, Len(o))
           w == FlattenSeq(text[r])
           k == taken[r]
<1>1. /\ o \in Seq(Words) /\ w \in Seq(Words) /\ Len(o) \in Nat /\ Len(o) <= Len(o)
      /\ k \in Nat /\ 0 \in Nat /\ 0 <= k /\ k <= Len(o)
  <2>1. o \in Seq(Words) /\ w \in Seq(Words)
    BY WroteType
  <2>2. k \in Nat /\ k <= Len(o)
    BY DEF PrivacyInv, TypeInv, TypeOK, Restorable
  <2> QED
    BY <2>1, <2>2
<1>2. <<w, o>> \in Tiled(Words, Pieces(r))
  BY SentTiles DEF Left
<1>3. SubSeq(o, 0 + 1, Len(o)) = o
  BY <1>1, SubSeqFull
<1>4. CASE pc[r] = "sent"
  <2>1. result[r] = <<>> /\ k = 0
    BY <1>4 DEF Restorable
  <2>2. <<>> \o w = w
    BY <1>1
  <2>3. y = o
    BY <1>3, <2>1
  <2> HIDE DEF o, y, w
  <2>4. <<w, y>> \in Tiled(Words, Pieces(r)) /\ result[r] \o w = w
    BY <1>2, <2>1, <2>2, <2>3
  <2> QED
    BY <1>1, <2>4 DEF w, y, o
<1>5. CASE pc[r] = "streaming"
  <2>1. OnTrack(r) /\ ToCome(r) = y
    BY <1>5 DEF ToCome
  <2>2. PICK t \in Restorations(y, Session) : result[r] \o t = w
    BY <2>1 DEF OnTrack
  <2>3. <<w, SubSeq(out[r], 0 + 1, Len(out[r]))>> \in Tiled(Words, Pieces(r))
    BY <1>2, <1>3
  <2>4. PICK u \in Seq(Words), v \in Seq(Words) :
          <<v, SubSeq(out[r], k + 1, Len(out[r]))>> \in Tiled(Words, Pieces(r))
    <3>1. k <= Len(out[r])
      BY <1>1
    <3> HIDE DEF w, k, o, y
    <3>2. k = Len(out[r]) \/ ~Splits(r, k)
      BY DEF k
    <3> QED
      BY <1>1, <2>3, <3>1, <3>2, CutSent DEF Parted
  <2>5. y \in Seq(Range(out[r]) \cup Wrote(r))
    <3>1. k \in Nat /\ Len(out[r]) \in Nat /\ k <= Len(out[r]) /\ Len(out[r]) <= Len(out[r])
      BY <1>1
    <3> QED
      BY <3>1, CutWords
  <2>6. <<v, y>> \in Tiled(Words, Pieces(r))
    BY <2>4
  <2> HIDE DEF w, y, k, o
  <2>7. t = v
    BY <2>2, <2>5, <2>6, SessionRestores
  <2> QED
    BY <2>2, <2>6, <2>7 DEF w, y, k, o
<1> QED
  BY <1>4, <1>5

LEMMA StreamStep ==
  ASSUME PrivacyInv, Restorable, NEW r \in Requests, RestoreChunk(r), faults' = faults,
         Apart(r), Undone(r, Session), ~Splits(r, taken[r]), ~Splits(r, taken'[r]),
         pc[r] = "sent" \/ OnTrack(r)
  PROVE  OnTrack(r)'
<1> DEFINE o == out[r]
           k == taken[r]
           y == SubSeq(o, k + 1, Len(o))
           w == FlattenSeq(text[r])
<1>1. /\ o \in Seq(Words) /\ w \in Seq(Words) /\ Len(o) \in Nat /\ k \in Nat
      /\ result \in [Requests -> Seq(Words)] /\ result[r] \in Seq(Words)
      /\ pc \in [Requests -> Labels] /\ taken \in [Requests -> Nat]
  <2>1. o \in Seq(Words) /\ w \in Seq(Words)
    BY WroteType
  <2> QED
    BY <2>1 DEF PrivacyInv, TypeInv, TypeOK
<1>2. pc[r] \in {"sent", "streaming"} /\ UNCHANGED <<log, text, out>>
  BY DEF RestoreChunk, working
<1>3. PICK n \in (k + 1)..Len(o) :
        /\ IF n = Len(o)
             THEN pc' = [pc EXCEPT ![r] = "done"] /\ taken' = [taken EXCEPT ![r] = 0]
             ELSE pc' = [pc EXCEPT ![r] = "streaming"] /\ taken' = [taken EXCEPT ![r] = n]
        /\ \/ Answers /\ \E t \in Restorations(SubSeq(o, k + 1, n), Session) : Deliver(r, t)
           \/ Fails /\ Deliver(r, SubSeq(o, k + 1, n))
  BY DEF RestoreChunk
<1>4. ~Fails
  <2>1. faults \in Nat
    BY PrivacyAssumption DEF PrivacyInv, TypeInv, TypeOK
  <2> QED
    BY <2>1 DEF Fails
<1> DEFINE a == SubSeq(o, k + 1, n)
           b == SubSeq(o, n + 1, Len(o))
<1>5. PICK t \in Restorations(a, Session) : Deliver(r, t)
  BY <1>3, <1>4
<1>6. PICK x \in Seq(Words) : <<x, y>> \in Tiled(Words, Pieces(r)) /\ result[r] \o x = w
  BY <1>2, ToComeTiles
<1>7. n \in Nat /\ k <= n /\ n <= Len(o) /\ Len(o) <= Len(o)
  BY <1>1, <1>3
<1>8. n = Len(o) \/ ~Splits(r, n)
  <2>1. n # Len(o) => taken'[r] = n
    BY <1>1, <1>3
  <2> QED
    BY <2>1
<1>9. PICK u \in Seq(Words), v \in Seq(Words) :
        x = u \o v /\ <<u, a>> \in Tiled(Words, Pieces(r)) /\ <<v, b>> \in Tiled(Words, Pieces(r))
  <2>1. <<x, SubSeq(out[r], k + 1, Len(out[r]))>> \in Tiled(Words, Pieces(r))
    BY <1>6
  <2>2. n <= Len(out[r]) /\ (n = Len(out[r]) \/ ~Splits(r, n))
    BY <1>7, <1>8
  <2>4. k \in Nat /\ n \in Nat /\ k <= n
    BY <1>1, <1>7
  <2> HIDE DEF o, y, w, a, b, k
  <2>3. Parted(r, k, n, x)
    BY <2>1, <2>2, <2>4, CutSent
  <2> QED
    BY <2>3 DEF Parted, a, b, o
<1>10. a \in Seq(Range(out[r]) \cup Wrote(r)) /\ b \in Seq(Range(out[r]) \cup Wrote(r))
  <2>1. n <= Len(out[r]) /\ Len(out[r]) <= Len(out[r]) /\ Len(out[r]) \in Nat
    BY <1>1, <1>7
  <2> HIDE DEF k
  <2> QED
    BY <1>1, <1>7, <2>1, CutWords DEF a, b, o
<1>11. ToCome(r)' = b
  <2>1. CASE n = Len(o)
    <3>1. pc'[r] = "done"
      BY <1>1, <1>3, <2>1
    <3>2. b = <<>>
      BY <1>1, <2>1
    <3> QED
      BY <3>1, <3>2 DEF ToCome
  <2>2. CASE n # Len(o)
    <3>1. pc'[r] = "streaming" /\ taken'[r] = n
      BY <1>1, <1>3, <2>2
    <3> QED
      BY <1>2, <3>1 DEF ToCome
  <2> QED
    BY <2>1, <2>2
<1> DEFINE s == Session
<1>12. Session' = s
  <2>1. Fakes' = Fakes /\ \A f : OriginalOf(f)' = OriginalOf(f)
    BY <1>2 DEF Fakes, OriginalOf, SelectLastInSeq
  <2> QED
    BY <2>1 DEF Session
<1> HIDE DEF s
<1>13. t = u
  <2> HIDE DEF a, b, y, w, o, k
  <2> QED
    BY <1>5, <1>9, <1>10, SessionRestores
<1>14. v \in Restorations(b, s)
  <2> DEFINE L == LongestFirst(s, [m \in s |-> Len(m.fake)])
  <2>1. PICK q \in L : t = Restore(a, q)
    BY <1>5 DEF Restorations, s
  <2>2. Restore(b, q) \in Restorations(b, s)
    BY DEF Restorations
  <2>3. \A z \in Restorations(b, Session) : z = v
    <3> HIDE DEF a, b, y, w, o, k
    <3> QED
      BY <1>9, <1>10, SessionRestores
  <2> QED
    BY <2>2, <2>3 DEF s
<1>15. result'[r] = result[r] \o u
  BY <1>1, <1>5, <1>13 DEF Deliver
<1> HIDE DEF a, b, y, w, o, k
<1>16. result'[r] \o v = w
  <2>1. Associate(result[r], u, v)
    BY <1>1, Concats
  <2> QED
    BY <1>6, <1>9, <1>15, <2>1 DEF Associate
<1>17. FlattenSeq(text[r])' = w
  BY <1>2 DEF w
<1>18. Restorations(ToCome(r), Session)' = Restorations(b, s)
  BY <1>11, <1>12 DEF Restorations, LongestFirst
<1> QED
  BY <1>14, <1>16, <1>17, <1>18 DEF OnTrack

(* A stream is restored chunk by chunk, whatever the chunks, as long as    *)
(* none of them ends within a pseudonym.                                   *)
THEOREM StreamHolds == Spec => StreamRestored
<1>1. ASSUME PrivacyInv, Restorable, [Next]_vars
      PROVE  [\A r \in Requests :
                /\ RestoreChunk(r) /\ faults' = faults
                /\ Apart(r) /\ Undone(r, Session)
                /\ ~Splits(r, taken[r]) /\ ~Splits(r, taken'[r])
                /\ pc[r] = "sent" \/ OnTrack(r)
                => OnTrack(r)']_vars
  BY <1>1, StreamStep
<1> QED
  BY <1>1, PrivacyInvariant, RestorableInvariant, PTL DEF Spec, StreamRestored

=============================================================================
