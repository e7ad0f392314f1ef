--------------------------- MODULE SequenceFacts ----------------------------
(***************************************************************************)
(* What the proofs keep needing of sequences: how often one meets a set    *)
(* (the queues of OrderGate and Session, where a line or a request is to be*)
(* somewhere once), and what is in the concatenation of many (the pieces of*)
(* a text, the lines of a stream, the events of a log), by induction.      *)
(***************************************************************************)
EXTENDS Naturals, Sequences, FiniteSets, SequencesExt, SequenceTheorems,
        FunctionTheorems, FiniteSetTheorems, WellFoundedInduction, TLAPS

Meets(s, S) == {i \in DOMAIN s : s[i] \in S}
Count(s, S)  == Cardinality(Meets(s, S))

\* A count is a number, and zero just when no element is met.
LEMMA CountType ==
    ASSUME NEW T, NEW s \in Seq(T), NEW S
    PROVE  /\ IsFiniteSet(Meets(s, S)) /\ Count(s, S) \in Nat
           /\ Count(s, S) = 0 <=> \A i \in DOMAIN s : s[i] \notin S
<1>1. IsFiniteSet(1 .. Len(s)) /\ Meets(s, S) \in SUBSET (1 .. Len(s))
  BY FS_Interval DEF Meets
<1>2. IsFiniteSet(Meets(s, S))
  BY <1>1, FS_Subset
<1>3. Meets(s, S) = {} <=> \A i \in DOMAIN s : s[i] \notin S
  BY DEF Meets
<1>4. QED
  BY <1>2, <1>3, FS_EmptySet, FS_CardinalityType DEF Count

\* Nothing is met in the empty sequence.
LEMMA CountEmpty ==
    ASSUME NEW S
    PROVE  Count(<< >>, S) = 0
<1>1. Meets(<< >>, S) = {}
  BY DEF Meets
<1>2. QED
  BY <1>1, FS_EmptySet DEF Count

\* One more element, met or not.
LEMMA CountAppend ==
    ASSUME NEW T, NEW s \in Seq(T), NEW x \in T, NEW S
    PROVE  Count(Append(s, x), S) = Count(s, S) + IF x \in S THEN 1 ELSE 0
<1>1. /\ Len(s) \in Nat /\ DOMAIN s = 1 .. Len(s)
      /\ DOMAIN Append(s, x) = 1 .. Len(s) + 1
      /\ \A i \in 1 .. Len(s) : Append(s, x)[i] = s[i]
      /\ Append(s, x)[Len(s) + 1] = x
  BY AppendProperties
<1>2. IsFiniteSet(Meets(s, S)) /\ Count(s, S) \in Nat
  BY CountType
<1>3. CASE x \in S
  <2>1. Meets(Append(s, x), S) = Meets(s, S) \cup {Len(s) + 1}
    BY <1>1, <1>3 DEF Meets
  <2>2. Len(s) + 1 \notin Meets(s, S)
    BY <1>1 DEF Meets
  <2>3. QED
    BY <1>2, <1>3, <2>1, <2>2, FS_AddElement DEF Count
<1>4. CASE x \notin S
  <2>1. Meets(Append(s, x), S) = Meets(s, S)
    BY <1>1, <1>4 DEF Meets
  <2>2. QED
    BY <1>2, <1>4, <2>1 DEF Count
<1>5. QED
  BY <1>3, <1>4

\* A sequence of one element.
LEMMA CountSingle ==
    ASSUME NEW T, NEW x \in T, NEW S
    PROVE  Count(<<x>>, S) = IF x \in S THEN 1 ELSE 0
<1>1. Count(Append(<< >>, x), S) = Count(<< >>, S) + IF x \in S THEN 1 ELSE 0
  <2>1. << >> \in Seq(T)
    OBVIOUS
  <2>2. QED
    BY <2>1, CountAppend
<1>2. Append(<< >>, x) = <<x>>
  OBVIOUS
<1>3. QED
  BY <1>1, <1>2, CountEmpty

\* One element less, met or not.
LEMMA CountTail ==
    ASSUME NEW T, NEW s \in Seq(T), s # << >>, NEW S
    PROVE  Count(s, S) = Count(Tail(s), S) + IF Head(s) \in S THEN 1 ELSE 0
<1> DEFINE P == Meets(Tail(s), S)
           Q == Meets(s, S) \ {1}
           f == [i \in P |-> i + 1]
<1>1. /\ Len(s) \in Nat /\ Len(s) # 0 /\ DOMAIN s = 1 .. Len(s) /\ Head(s) = s[1]
      /\ Tail(s) \in Seq(T) /\ DOMAIN Tail(s) = 1 .. Len(s) - 1
      /\ \A i \in 1 .. Len(s) - 1 : Tail(s)[i] = s[i + 1]
  BY HeadTailProperties
<1>2. \A i \in P : i + 1 \in Q
  BY <1>1 DEF Meets
<1>3. \A j \in Q : j - 1 \in P /\ (j - 1) + 1 = j
  BY <1>1 DEF Meets
<1>4. \A i, k \in P : i + 1 = k + 1 => i = k
  BY <1>1 DEF Meets
<1>5. IsFiniteSet(P) /\ IsFiniteSet(Meets(s, S)) /\ Count(s, S) \in Nat
  BY <1>1, CountType
<1> HIDE DEF P, Q
<1>6. f \in [P -> Q] /\ (\A i, k \in P : f[i] = f[k] => i = k) /\ \A j \in Q : \E i \in P : f[i] = j
  <2>1. f \in [P -> Q]
    BY <1>2
  <2>2. \A i, k \in P : f[i] = f[k] => i = k
    BY <1>4
  <2>3. ASSUME NEW j \in Q PROVE \E i \in P : f[i] = j
    <3>1. j - 1 \in P /\ f[j - 1] = j
      BY <1>3
    <3>2. QED
      BY <3>1
  <2>4. QED
    BY <2>1, <2>2, <2>3
<1>7. f \in Bijection(P, Q)
  BY <1>6, Fun_IsBij
<1>8. Cardinality(P) = Cardinality(Q)
  BY <1>5, <1>7, FS_Bijection DEF ExistsBijection
<1>9. Cardinality(Q) = IF 1 \in Meets(s, S) THEN Count(s, S) - 1 ELSE Count(s, S)
  BY <1>5, FS_RemoveElement DEF Q, Count
<1>10. 1 \in Meets(s, S) <=> Head(s) \in S
  BY <1>1 DEF Meets
<1>11. QED
  BY <1>5, <1>8, <1>9, <1>10 DEF P, Count

-----------------------------------------------------------------------------
(* Induction.  The provers cannot instantiate a theorem with an operator    *)
(* parameter, but a set of the values for which a fact holds will do: what *)
(* is not in it has a least.                                               *)

\* Induction, on a set of naturals.
LEMMA SetInduction ==
    ASSUME NEW S, 0 \in S, \A n \in Nat : n \in S => n + 1 \in S
    PROVE  Nat \subseteq S
<1> DEFINE LT == {ss \in Nat \X Nat : ss[1] < ss[2]}
           Missing == Nat \ S
<1>1. IsWellFoundedOn(LT, Nat)
  BY NatLessThanWellFounded, Zenon DEF OpToRel
<1> SUFFICES ASSUME Missing # {} PROVE FALSE
  OBVIOUS
<1>2. Missing \subseteq Nat
  OBVIOUS
<1> HIDE DEF LT, Missing
<1>3. PICK m \in Missing : \A y \in Missing : <<y, m>> \notin LT
  BY <1>1, <1>2, WFMin, Zenon
<1>4. m \in Nat /\ m # 0
  BY <1>2, <1>3 DEF Missing
<1>5. m - 1 \in Nat /\ m - 1 < m
  BY <1>4
<1>6. <<m - 1, m>> \in LT
  BY <1>4, <1>5 DEF LT
<1>7. m - 1 \notin Missing
  BY <1>3, <1>6
<1>8. m - 1 \in S
  BY <1>5, <1>7 DEF Missing
<1>9. (m - 1) + 1 = m
  BY <1>4
<1>10. m \in S
  BY <1>5, <1>8, <1>9
<1>11. QED
  BY <1>3, <1>10 DEF Missing

\* A set of naturals has a least, and a bounded one a greatest.
LEMMA Least ==
    ASSUME NEW S \in SUBSET Nat, S # {}
    PROVE  \E m \in S : \A n \in S : m <= n
<1> DEFINE LT == {ss \in Nat \X Nat : ss[1] < ss[2]}
<1>1. IsWellFoundedOn(LT, Nat)
  BY NatLessThanWellFounded, Zenon DEF OpToRel
<1> HIDE DEF LT
<1>2. PICK m \in S : \A y \in S : <<y, m>> \notin LT
  BY <1>1, WFMin, Zenon
<1>3. \A y \in S : ~(y < m)
  BY <1>2 DEF LT
<1>4. QED
  BY <1>3

LEMMA Greatest ==
    ASSUME NEW S \in SUBSET Nat, S # {}, NEW n \in Nat, \A x \in S : x <= n
    PROVE  Max(S) \in S /\ \A x \in S : x <= Max(S)
<1> DEFINE Above == {k \in Nat : \A x \in S : x <= k}
<1>1. Above \in SUBSET Nat /\ n \in Above
  OBVIOUS
<1>2. PICK m \in Above : \A k \in Above : m <= k
  BY <1>1, Least
<1>3. m \in S
  <2> SUFFICES ASSUME m \notin S PROVE FALSE
    OBVIOUS
  <2>1. \A x \in S : x \in Nat /\ x <= m /\ x # m
    BY <1>2
  <2>2. m \in Nat /\ m # 0
    <3>1. PICK x \in S : x \in Nat /\ x <= m /\ x # m
      BY <2>1
    <3>2. m \in Nat
      OBVIOUS
    <3>3. QED
      BY <3>1, <3>2
  <2>3. m - 1 \in Above
    BY <2>1, <2>2
  <2>4. QED
    BY <1>2, <2>2, <2>3
<1>4. m \in S /\ \A x \in S : m >= x
  BY <1>2, <1>3
<1>5. Max(S) \in S /\ \A x \in S : Max(S) >= x
  BY <1>4, Zenon DEF Max
<1>6. QED
  BY <1>5

\* Induction, on a set of sequences.
LEMMA SeqSetInduction ==
    ASSUME NEW T, NEW S, << >> \in S,
           \A s \in Seq(T) : \A x \in T : s \in S => Append(s, x) \in S
    PROVE  Seq(T) \subseteq S
<1> DEFINE N == {n \in Nat : \A s \in Seq(T) : Len(s) = n => s \in S}
<1>1. 0 \in N
  BY EmptySeq
<1>2. ASSUME NEW n \in Nat, n \in N PROVE n + 1 \in N
  <2> SUFFICES ASSUME NEW s \in Seq(T), Len(s) = n + 1 PROVE s \in S
    OBVIOUS
  <2>1. s # << >>
    BY EmptySeq
  <2>2. PICK u \in Seq(T), x \in T : s = Append(u, x)
    BY <2>1, SequenceEmptyOrAppend
  <2>3. Len(s) = Len(u) + 1 /\ Len(u) \in Nat
    BY <2>2, AppendProperties
  <2>4. Len(u) = n
    BY <2>3
  <2>5. QED
    BY <1>2, <2>2, <2>4
<1>3. Nat \subseteq N
  <2> HIDE DEF N
  <2>1. QED
    BY <1>1, <1>2, SetInduction
<1>4. QED
  BY <1>3, LenProperties

-----------------------------------------------------------------------------
(* Pieces of a sequence, and their concatenation.                          *)

\* Three pieces, put together either way.
LEMMA Together ==
    ASSUME NEW T
    PROVE  \A s, t, u \in Seq(T) : (s \o t) \o u = s \o (t \o u)
BY ConcatAssociative

\* A piece of a sequence, element by element.
LEMMA Piece ==
    ASSUME NEW T, NEW s \in Seq(T), NEW m \in Nat, NEW n \in Nat, 1 <= m, m <= n + 1, n <= Len(s)
    PROVE  /\ SubSeq(s, m, n) \in Seq(T) /\ Len(SubSeq(s, m, n)) = n + 1 - m
           /\ \A i \in 1 .. n + 1 - m : SubSeq(s, m, n)[i] = s[m + i - 1]
<1>1. Len(s) \in Nat /\ m \in Int /\ n \in Int /\ \A i \in m .. n : s[i] \in T
  BY ElementOfSeq
<1> DEFINE p == SubSeq(s, m, n)
<1>2. p \in Seq(T) /\ Len(p) = (IF m <= n THEN n - m + 1 ELSE 0) /\ \A i \in 1 .. n - m + 1 : p[i] = s[m + i - 1]
  BY <1>1, SubSeqProperties
<1> HIDE DEF p
<1>3. p \in Seq(T) /\ Len(p) = n + 1 - m /\ \A i \in 1 .. n + 1 - m : p[i] = s[m + i - 1]
  BY <1>2
<1>4. QED
  BY <1>3 DEF p

\* The rest of a sequence.
LEMMA Rest ==
    ASSUME NEW T, NEW s \in Seq(T), NEW n \in 0 .. Len(s)
    PROVE  /\ SubSeq(s, n + 1, Len(s)) \in Seq(T) /\ Len(SubSeq(s, n + 1, Len(s))) = Len(s) - n
           /\ \A i \in 1 .. Len(s) - n : SubSeq(s, n + 1, Len(s))[i] = s[n + i]
<1> DEFINE L == Len(s)
           p == SubSeq(s, n + 1, Len(s))
<1>1. L \in Nat /\ n \in Nat /\ n <= L /\ L = Len(s)
  BY LenProperties
<1>2. n + 1 \in Nat /\ 1 <= n + 1 /\ n + 1 <= L + 1 /\ L <= Len(s)
  BY <1>1
<1>3. p \in Seq(T) /\ Len(p) = L + 1 - (n + 1) /\ \A i \in 1 .. L + 1 - (n + 1) : p[i] = s[n + 1 + i - 1]
  BY <1>1, <1>2, Piece
<1> HIDE DEF L, p
<1>4. L + 1 - (n + 1) = L - n /\ \A i \in 1 .. L - n : n + 1 + i - 1 = n + i
  BY <1>1
<1>5. p \in Seq(T) /\ Len(p) = L - n /\ \A i \in 1 .. L - n : p[i] = s[n + i]
  BY <1>3, <1>4
<1>6. QED
  BY <1>5 DEF L, p

\* What FlattenSeq counts with: the concatenation of the first sequences.
Flattens(f, s, n) == f = [i \in 1 .. n |-> IF i = 1 THEN s[i] ELSE f[i - 1] \o s[i]]

\* There is one such function, and it begins as the one of fewer sequences.
LEMMA FlattensExists ==
    ASSUME NEW T, NEW s \in Seq(Seq(T))
    PROVE  \A n \in 0 .. Len(s) : \E f \in [1 .. n -> Seq(T)] : Flattens(f, s, n)
<1> DEFINE S == {n \in Nat : n <= Len(s) => \E f \in [1 .. n -> Seq(T)] : Flattens(f, s, n)}
<1>1. 0 \in S
  <2>1. Flattens(<< >>, s, 0) /\ << >> \in [1 .. 0 -> Seq(T)]
    BY DEF Flattens
  <2>2. QED
    BY <2>1
<1>2. ASSUME NEW n \in Nat, n \in S PROVE n + 1 \in S
  <2> SUFFICES ASSUME n + 1 <= Len(s)
               PROVE  \E f \in [1 .. n + 1 -> Seq(T)] : Flattens(f, s, n + 1)
    OBVIOUS
  <2>1. PICK f \in [1 .. n -> Seq(T)] : Flattens(f, s, n)
    BY <1>2
  <2>2. \A i \in 1 .. n : f[i] = IF i = 1 THEN s[i] ELSE f[i - 1] \o s[i]
    BY <2>1, Zenon DEF Flattens
  <2>3. s[n + 1] \in Seq(T)
    BY ElementOfSeq
  <2> DEFINE last == IF n = 0 THEN s[n + 1] ELSE f[n] \o s[n + 1]
             g == [i \in 1 .. n + 1 |-> IF i = n + 1 THEN last ELSE f[i]]
  <2>4. last \in Seq(T)
    BY <2>3, ConcatProperties
  <2>5. g \in [1 .. n + 1 -> Seq(T)]
    BY <2>4
  <2>6. ASSUME NEW i \in 1 .. n + 1
        PROVE  g[i] = IF i = 1 THEN s[i] ELSE g[i - 1] \o s[i]
    <3>1. CASE i = n + 1
      BY <3>1
    <3>2. CASE i # n + 1
      <4>1. i \in 1 .. n /\ g[i] = f[i]
        BY <3>2
      <4>2. i # 1 => i - 1 \in 1 .. n + 1 /\ i - 1 # n + 1
        BY <4>1
      <4>3. i # 1 => g[i - 1] = f[i - 1]
        BY <4>2
      <4>4. QED
        BY <2>2, <4>1, <4>3
    <3>3. QED
      BY <3>1, <3>2
  <2>7. g = [i \in 1 .. n + 1 |-> g[i]]
    OBVIOUS
  <2> HIDE DEF g
  <2>8. Flattens(g, s, n + 1)
    BY <2>6, <2>7, Zenon DEF Flattens
  <2>9. QED
    BY <2>5, <2>8
<1>3. Nat \subseteq S
  <2> HIDE DEF S
  <2>1. QED
    BY <1>1, <1>2, SetInduction
<1>4. QED
  BY <1>3

LEMMA FlattensUnique ==
    ASSUME NEW s, NEW n \in Nat, NEW f, NEW g, Flattens(f, s, n), Flattens(g, s, n)
    PROVE  \A i \in 1 .. n : f[i] = g[i]
<1> DEFINE S == {k \in Nat : k \in 1 .. n => f[k] = g[k]}
<1>1. 0 \in S
  OBVIOUS
<1>2. \A i \in 1 .. n : f[i] = IF i = 1 THEN s[i] ELSE f[i - 1] \o s[i]
  BY Zenon DEF Flattens
<1>3. \A i \in 1 .. n : g[i] = IF i = 1 THEN s[i] ELSE g[i - 1] \o s[i]
  BY Zenon DEF Flattens
<1>4. ASSUME NEW k \in Nat, k \in S PROVE k + 1 \in S
  <2> SUFFICES ASSUME k + 1 \in 1 .. n PROVE f[k + 1] = g[k + 1]
    OBVIOUS
  <2>1. f[k + 1] = (IF k = 0 THEN s[k + 1] ELSE f[k] \o s[k + 1])
    BY <1>2
  <2>2. g[k + 1] = (IF k = 0 THEN s[k + 1] ELSE g[k] \o s[k + 1])
    BY <1>3
  <2>3. k # 0 => f[k] = g[k]
    BY <1>4
  <2>4. QED
    BY <2>1, <2>2, <2>3
<1>5. Nat \subseteq S
  <2> HIDE DEF S
  <2>1. QED
    BY <1>1, <1>4, SetInduction
<1>6. QED
  BY <1>5

\* So it is what FlattenSeq takes.
LEMMA FlattenSeqIs ==
    ASSUME NEW T, NEW s \in Seq(Seq(T)), s # << >>
    PROVE  \E f \in [1 .. Len(s) -> Seq(T)] : Flattens(f, s, Len(s)) /\ FlattenSeq(s) = f[Len(s)]
<1> DEFINE F == CHOOSE f : f = [i \in 1 .. Len(s) |-> IF i = 1 THEN s[i] ELSE f[i - 1] \o s[i]]
<1>1. Len(s) \in Nat /\ Len(s) # 0 /\ Len(s) \in 0 .. Len(s)
  BY EmptySeq
<1>2. FlattenSeq(s) = F[Len(s)]
  BY <1>1, ZenonT(30) DEF FlattenSeq
<1>3. PICK g \in [1 .. Len(s) -> Seq(T)] : Flattens(g, s, Len(s))
  BY <1>1, FlattensExists, ZenonT(30)
<1>4. F = [i \in 1 .. Len(s) |-> IF i = 1 THEN s[i] ELSE F[i - 1] \o s[i]]
  BY <1>3, Zenon DEF Flattens
<1> HIDE DEF F
<1>5. Flattens(F, s, Len(s))
  BY <1>4, Zenon DEF Flattens
<1>6. \A i \in 1 .. Len(s) : F[i] = g[i]
  BY <1>1, <1>3, <1>5, FlattensUnique
<1>7. FlattenSeq(s) = g[Len(s)]
  BY <1>1, <1>2, <1>6
<1>8. QED
  BY <1>3, <1>7

LEMMA FlattenEmpty == FlattenSeq(<< >>) = << >>
BY DEF FlattenSeq

\* One sequence more is one more at the end.
LEMMA FlattenAppend ==
    ASSUME NEW T, NEW s \in Seq(Seq(T)), NEW x \in Seq(T)
    PROVE  FlattenSeq(s) \in Seq(T) /\ FlattenSeq(Append(s, x)) = FlattenSeq(s) \o x
<1>1. /\ Append(s, x) \in Seq(Seq(T)) /\ Append(s, x) # << >>
      /\ Len(Append(s, x)) = Len(s) + 1 /\ Len(s) \in Nat
      /\ \A i \in 1 .. Len(s) : Append(s, x)[i] = s[i]
      /\ Append(s, x)[Len(s) + 1] = x
  BY AppendProperties
<1>2. PICK f \in [1 .. Len(s) + 1 -> Seq(T)] :
        Flattens(f, Append(s, x), Len(s) + 1) /\ FlattenSeq(Append(s, x)) = f[Len(s) + 1]
  BY <1>1, FlattenSeqIs
<1>3. f[Len(s) + 1] = IF Len(s) = 0 THEN x ELSE f[Len(s)] \o x
  <2>1. \A i \in 1 .. Len(s) + 1 :
          f[i] = IF i = 1 THEN Append(s, x)[i] ELSE f[i - 1] \o Append(s, x)[i]
    BY <1>2, Zenon DEF Flattens
  <2>2. Len(s) + 1 \in 1 .. Len(s) + 1 /\ (Len(s) + 1) - 1 = Len(s) /\ (Len(s) + 1 = 1 <=> Len(s) = 0)
    BY <1>1
  <2>3. QED
    BY <1>1, <2>1, <2>2
<1>4. CASE s = << >>
  <2>1. FlattenSeq(s) = << >> /\ << >> \in Seq(T) /\ Len(s) = 0
    BY <1>4, FlattenEmpty
  <2>2. << >> \o x = x
    BY ConcatEmptySeq
  <2>3. QED
    BY <1>1, <1>2, <1>3, <2>1, <2>2
<1>5. CASE s # << >>
  <2>1. PICK g \in [1 .. Len(s) -> Seq(T)] : Flattens(g, s, Len(s)) /\ FlattenSeq(s) = g[Len(s)]
    BY <1>5, FlattenSeqIs
  <2>2. Len(s) # 0
    BY <1>5, EmptySeq
  <2> DEFINE h == [i \in 1 .. Len(s) |-> f[i]]
  <2>3. Flattens(h, s, Len(s))
    <3>1. \A i \in 1 .. Len(s) + 1 :
            f[i] = IF i = 1 THEN Append(s, x)[i] ELSE f[i - 1] \o Append(s, x)[i]
      BY <1>2, Zenon DEF Flattens
    <3>2. ASSUME NEW i \in 1 .. Len(s) PROVE f[i] = IF i = 1 THEN s[i] ELSE h[i - 1] \o s[i]
      <4>1. i \in 1 .. Len(s) + 1 /\ (i # 1 => i - 1 \in 1 .. Len(s))
        BY <1>1
      <4>2. i # 1 => h[i - 1] = f[i - 1]
        BY <4>1
      <4>3. QED
        BY <1>1, <3>1, <4>1, <4>2
    <3>3. QED
      BY <3>2, Zenon DEF Flattens
  <2>4. \A i \in 1 .. Len(s) : g[i] = f[i]
    <3>1. \A i \in 1 .. Len(s) : h[i] = f[i]
      OBVIOUS
    <3> HIDE DEF h
    <3>2. \A i \in 1 .. Len(s) : g[i] = h[i]
      BY <1>1, <2>1, <2>3, FlattensUnique
    <3>3. QED
      BY <3>1, <3>2
  <2>5. Len(s) \in 1 .. Len(s)
    BY <1>1, <2>2
  <2>6. FlattenSeq(s) = f[Len(s)] /\ FlattenSeq(s) \in Seq(T)
    BY <2>1, <2>4, <2>5
  <2>7. QED
    BY <1>1, <1>2, <1>3, <2>2, <2>6
<1>6. QED
  BY <1>4, <1>5

LEMMA FlattenType ==
    ASSUME NEW T, NEW s \in Seq(Seq(T))
    PROVE  FlattenSeq(s) \in Seq(T)
BY EmptySeq, FlattenAppend

\* The pieces of two sequences of them, one after the other.
LEMMA FlattenConcat ==
    ASSUME NEW T, NEW s \in Seq(Seq(T)), NEW t \in Seq(Seq(T))
    PROVE  FlattenSeq(s \o t) = FlattenSeq(s) \o FlattenSeq(t)
<1> DEFINE S == {u \in Seq(Seq(T)) : FlattenSeq(s \o u) = FlattenSeq(s) \o FlattenSeq(u)}
<1>1. << >> \in S
  <2>1. s \o << >> = s /\ FlattenSeq(s) \o << >> = FlattenSeq(s)
    BY FlattenType, ConcatEmptySeq
  <2>2. QED
    BY <2>1, FlattenEmpty, EmptySeq
<1>2. ASSUME NEW u \in Seq(Seq(T)), NEW x \in Seq(T), u \in S PROVE Append(u, x) \in S
  <2>1. /\ Append(u, x) = u \o <<x>> /\ Append(u, x) \in Seq(Seq(T)) /\ <<x>> \in Seq(Seq(T))
        /\ Append(s \o u, x) = (s \o u) \o <<x>> /\ s \o u \in Seq(Seq(T))
    BY AppendIsConcat, AppendProperties, ConcatProperties
  <2>2. s \o Append(u, x) = Append(s \o u, x)
    BY <2>1, ConcatAssociative
  <2>3. FlattenSeq(s \o Append(u, x)) = FlattenSeq(s \o u) \o x
    BY <2>1, <2>2, FlattenAppend
  <2>4. FlattenSeq(Append(u, x)) = FlattenSeq(u) \o x
    BY FlattenAppend
  <2>5. (FlattenSeq(s) \o FlattenSeq(u)) \o x = FlattenSeq(s) \o (FlattenSeq(u) \o x)
    <3> DEFINE y == FlattenSeq(s)
               z == FlattenSeq(u)
    <3>1. y \in Seq(T) /\ z \in Seq(T)
      BY FlattenType
    <3> HIDE DEF y, z
    <3>2. (y \o z) \o x = y \o (z \o x)
      BY <3>1, Together, SMTT(60)
    <3>3. QED
      BY <3>2 DEF y, z
  <2>6. QED
    BY <1>2, <2>1, <2>3, <2>4, <2>5
<1> HIDE DEF S
<1>3. Seq(Seq(T)) \subseteq S
  BY <1>1, <1>2, SeqSetInduction
<1>4. QED
  BY <1>3 DEF S

\* Pieces of which there is nothing.
LEMMA FlattenNothing ==
    ASSUME NEW T, NEW s \in Seq(Seq(T)), \A i \in 1 .. Len(s) : s[i] = << >>
    PROVE  FlattenSeq(s) = << >>
<1> DEFINE S == {u \in Seq(Seq(T)) : (\A i \in 1 .. Len(u) : u[i] = << >>) => FlattenSeq(u) = << >>}
<1>1. << >> \in S
  BY FlattenEmpty, EmptySeq
<1>2. ASSUME NEW u \in Seq(Seq(T)), NEW x \in Seq(T), u \in S PROVE Append(u, x) \in S
  <2>1. /\ Append(u, x) \in Seq(Seq(T)) /\ Len(u) \in Nat /\ Len(Append(u, x)) = Len(u) + 1
        /\ Append(u, x)[Len(u) + 1] = x
        /\ \A i \in 1 .. Len(u) : Append(u, x)[i] = u[i]
    BY AppendProperties
  <2> SUFFICES ASSUME \A i \in 1 .. Len(Append(u, x)) : Append(u, x)[i] = << >>
               PROVE  FlattenSeq(Append(u, x)) = << >>
    BY <2>1
  <2>2. x = << >> /\ \A i \in 1 .. Len(u) : u[i] = << >>
    BY <2>1
  <2>3. FlattenSeq(u) = << >>
    BY <1>2, <2>2
  <2>4. FlattenSeq(Append(u, x)) = << >> \o << >>
    BY <2>2, <2>3, FlattenAppend
  <2>5. QED
    BY <2>4, ConcatEmptySeq, EmptySeq
<1> HIDE DEF S
<1>3. Seq(Seq(T)) \subseteq S
  BY <1>1, <1>2, SeqSetInduction
<1>4. QED
  BY <1>3 DEF S

\* One piece.
LEMMA FlattenOne ==
    ASSUME NEW T, NEW x \in Seq(T)
    PROVE  <<x>> \in Seq(Seq(T)) /\ FlattenSeq(<<x>>) = x
<1>1. << >> \in Seq(Seq(T)) /\ Append(<< >>, x) = <<x>>
  BY EmptySeq, AppendIsConcat, ConcatEmptySeq
<1>2. FlattenSeq(<<x>>) = << >> \o x
  BY <1>1, FlattenAppend, FlattenEmpty
<1>3. QED
  BY <1>1, <1>2, ConcatEmptySeq

\* Each element in a piece of its own.
LEMMA FlattenSingletons ==
    ASSUME NEW T, NEW b \in Seq(T)
    PROVE  FlattenSeq([i \in 1 .. Len(b) |-> <<b[i]>>]) = b
<1> DEFINE Of(u) == [i \in 1 .. Len(u) |-> <<u[i]>>]
           S == {u \in Seq(T) : FlattenSeq(Of(u)) = u}
<1>1. << >> \in S
  <2>1. Of(<< >>) = << >>
    BY EmptySeq
  <2>2. QED
    BY <2>1, FlattenEmpty, EmptySeq
<1>2. ASSUME NEW u \in Seq(T), NEW x \in T, u \in S PROVE Append(u, x) \in S
  <2>1. /\ Append(u, x) \in Seq(T) /\ Len(u) \in Nat /\ Len(Append(u, x)) = Len(u) + 1
        /\ Append(u, x)[Len(u) + 1] = x
        /\ \A i \in 1 .. Len(u) : Append(u, x)[i] = u[i]
    BY AppendProperties
  <2>2. Of(u) \in Seq(Seq(T)) /\ <<x>> \in Seq(T) /\ Len(Of(u)) = Len(u)
    BY <2>1
  <2>3. /\ Append(Of(u), <<x>>) \in Seq(Seq(T)) /\ Len(Append(Of(u), <<x>>)) = Len(u) + 1
        /\ Append(Of(u), <<x>>)[Len(u) + 1] = <<x>>
        /\ \A i \in 1 .. Len(u) : Append(Of(u), <<x>>)[i] = Of(u)[i]
    BY <2>2, AppendProperties
  <2>4. Of(Append(u, x)) \in Seq(Seq(T)) /\ Len(Of(Append(u, x))) = Len(u) + 1
    BY <2>1
  <2>5. ASSUME NEW i \in 1 .. Len(u) + 1 PROVE Of(Append(u, x))[i] = Append(Of(u), <<x>>)[i]
    <3>1. CASE i = Len(u) + 1
      BY <2>1, <2>3, <3>1
    <3>2. CASE i # Len(u) + 1
      BY <2>1, <2>3, <3>2
    <3>3. QED
      BY <3>1, <3>2
  <2>6. Of(Append(u, x)) = Append(Of(u), <<x>>)
    <3> HIDE DEF Of
    <3>1. QED
      BY <2>3, <2>4, <2>5, SeqEqual
  <2>7. FlattenSeq(Of(Append(u, x))) = u \o <<x>>
    <3> HIDE DEF Of
    <3>1. QED
      BY <1>2, <2>2, <2>6, FlattenAppend DEF S
  <2>8. Append(u, x) = u \o <<x>>
    BY AppendIsConcat
  <2>9. QED
    BY <2>1, <2>7, <2>8
<1> HIDE DEF S, Of
<1>3. Seq(T) \subseteq S
  BY <1>1, <1>2, SeqSetInduction
<1>4. QED
  BY <1>3 DEF S, Of

\* Nothing, then a piece, then others.
LEMMA FlattenAround ==
    ASSUME NEW T, NEW s \in Seq(Seq(T)), NEW n \in 1 .. Len(s), \A i \in 1 .. n - 1 : s[i] = << >>,
           NEW t \in Seq(Seq(T)), Len(t) = Len(s) - n, \A i \in 1 .. Len(t) : t[i] = s[n + i]
    PROVE  FlattenSeq(s) = s[n] \o FlattenSeq(t)
<1> DEFINE before == SubSeq(s, 1, n - 1)
           behind == SubSeq(s, n + 1, Len(s))
<1>1. Len(s) \in Nat /\ n \in Nat /\ 1 <= n /\ n <= Len(s) /\ n \in 0 .. Len(s)
  BY LenProperties
<1>2. behind \in Seq(Seq(T)) /\ Len(behind) = Len(s) - n /\ \A i \in 1 .. Len(s) - n : behind[i] = s[n + i]
  BY <1>1, Rest
<1>3. behind = t
  <2> HIDE DEF behind
  <2>1. Len(behind) = Len(t) /\ \A i \in 1 .. Len(behind) : behind[i] = t[i]
    BY <1>2
  <2>2. QED
    BY <1>2, <2>1, SeqEqual
<1>4. before \in Seq(Seq(T)) /\ \A i \in 1 .. Len(before) : before[i] = << >>
  <2>1. 1 \in Nat /\ n - 1 \in Nat /\ 1 <= (n - 1) + 1 /\ n - 1 <= Len(s)
    BY <1>1
  <2>2. /\ before \in Seq(Seq(T)) /\ Len(before) = (n - 1) + 1 - 1
        /\ \A i \in 1 .. (n - 1) + 1 - 1 : before[i] = s[1 + i - 1]
    BY <2>1, Piece
  <2> HIDE DEF before
  <2>3. Len(before) = n - 1 /\ \A i \in 1 .. n - 1 : before[i] = s[i]
    BY <1>1, <2>2
  <2>4. QED
    BY <2>2, <2>3
<1>5. SubSeq(s, 1, n) = before \o <<s[n]>>
  <2>1. 1 \in 1 .. Len(s) /\ n \in 1 .. Len(s)
    BY <1>1
  <2>2. QED
    BY <2>1, SubSeqRecursiveSecond
<1>6. s = SubSeq(s, 1, n) \o behind
  <2>1. 1 \in 1 .. Len(s) + 1 /\ n \in 1 - 1 .. Len(s) /\ Len(s) \in n .. Len(s)
    BY <1>1
  <2>2. SubSeq(s, 1, n) \o SubSeq(s, n + 1, Len(s)) = SubSeq(s, 1, Len(s))
    BY <2>1, ConcatAdjacentSubSeq
  <2>3. QED
    BY <2>2, SubSeqFull
<1>7. s[n] \in Seq(T) /\ <<s[n]>> \in Seq(Seq(T)) /\ FlattenSeq(<<s[n]>>) = s[n]
  BY ElementOfSeq, FlattenOne
<1> HIDE DEF before, behind
<1>8. FlattenSeq(before) = << >>
  BY <1>4, FlattenNothing
<1>9. FlattenSeq(before \o <<s[n]>>) = s[n]
  <2>1. FlattenSeq(before \o <<s[n]>>) = FlattenSeq(before) \o FlattenSeq(<<s[n]>>)
    BY <1>4, <1>7, FlattenConcat
  <2>2. QED
    BY <1>7, <1>8, <2>1, ConcatEmptySeq
<1>10. before \o <<s[n]>> \in Seq(Seq(T))
  BY <1>4, <1>7, ConcatProperties
<1>11. FlattenSeq((before \o <<s[n]>>) \o behind) = FlattenSeq(before \o <<s[n]>>) \o FlattenSeq(behind)
  BY <1>2, <1>10, FlattenConcat
<1>12. QED
  BY <1>3, <1>5, <1>6, <1>9, <1>11

\* What there is of lines that have an event or none.
LEMMA FlattenOnes ==
    ASSUME NEW T, NEW s \in Seq(Seq(T)),
           \A i \in 1 .. Len(s) : s[i] = << >> \/ \E e \in T : s[i] = <<e>> /\ e.line = i
    PROVE  /\ FlattenSeq(s) \in Seq(T)
           /\ \A a \in 1 .. Len(FlattenSeq(s)) :
                FlattenSeq(s)[a].line \in 1 .. Len(s) /\ s[FlattenSeq(s)[a].line] = <<FlattenSeq(s)[a]>>
           /\ \A a, b \in 1 .. Len(FlattenSeq(s)) :
                FlattenSeq(s)[a].line = FlattenSeq(s)[b].line => a = b
<1> DEFINE Ones(u) == \A i \in 1 .. Len(u) : u[i] = << >> \/ \E e \in T : u[i] = <<e>> /\ e.line = i
           Fine(u, f) == /\ \A a \in 1 .. Len(f) : f[a].line \in 1 .. Len(u) /\ u[f[a].line] = <<f[a]>>
                         /\ \A a, b \in 1 .. Len(f) : f[a].line = f[b].line => a = b
           S == {u \in Seq(Seq(T)) : Ones(u) => Fine(u, FlattenSeq(u))}
<1>1. << >> \in S
  BY FlattenEmpty, EmptySeq
<1>2. ASSUME NEW u \in Seq(Seq(T)), NEW x \in Seq(T), u \in S PROVE Append(u, x) \in S
  <2> DEFINE v == Append(u, x)
             f == FlattenSeq(u)
             g == FlattenSeq(v)
             L == Len(u)
             M == Len(f)
  <2>1. /\ v \in Seq(Seq(T)) /\ Len(v) = L + 1 /\ v[L + 1] = x
        /\ \A i \in 1 .. L : v[i] = u[i]
    BY AppendProperties
  <2>2. f \in Seq(T) /\ g = f \o x
    BY FlattenAppend
  <2>3. L \in Nat /\ M \in Nat /\ Len(u) = L /\ Len(f) = M
    BY <2>2, LenProperties
  <2>4. Ones(u) => Fine(u, f)
    BY <1>2
  <2> HIDE DEF v, f, g, L, M
  <2> SUFFICES ASSUME Ones(v) PROVE Fine(v, g)
    BY <2>1 DEF g, v
  <2>5. Ones(u)
    BY <2>1, <2>3
  <2>6. x = << >> \/ \E e \in T : x = <<e>> /\ e.line = L + 1
    <3>1. L + 1 \in 1 .. Len(v)
      BY <2>1, <2>3
    <3>2. v[L + 1] = << >> \/ \E e \in T : v[L + 1] = <<e>> /\ e.line = L + 1
      BY <3>1, Zenon
    <3>3. QED
      BY <2>1, <3>2
  <2>7. /\ \A a \in 1 .. M : f[a].line \in 1 .. L /\ u[f[a].line] = <<f[a]>>
        /\ \A a, b \in 1 .. M : f[a].line = f[b].line => a = b
    BY <2>3, <2>4, <2>5
  <2>8. CASE x = << >>
    <3>1. g = f
      BY <2>2, <2>8, ConcatEmptySeq
    <3>2. QED
      BY <2>1, <2>3, <2>7, <3>1
  <2>9. CASE x # << >>
    <3>1. PICK e \in T : x = <<e>> /\ e.line = L + 1
      BY <2>6, <2>9
    <3>2. g = Append(f, e)
      BY <2>2, <3>1, AppendIsConcat
    <3>3. Len(g) = M + 1 /\ g[M + 1] = e /\ \A a \in 1 .. M : g[a] = f[a]
      BY <2>2, <2>3, <3>2, AppendProperties
    <3>4. ASSUME NEW a \in 1 .. M + 1
          PROVE  g[a].line \in 1 .. L + 1 /\ v[g[a].line] = <<g[a]>>
      <4>1. CASE a = M + 1
        BY <2>1, <2>3, <3>1, <3>3, <4>1
      <4>2. CASE a # M + 1
        BY <2>1, <2>3, <2>7, <3>3, <4>2
      <4>3. QED
        BY <4>1, <4>2
    <3>5. ASSUME NEW a \in 1 .. M + 1, NEW b \in 1 .. M + 1, g[a].line = g[b].line
          PROVE  a = b
      <4>1. \A c \in 1 .. M : g[c].line \in 1 .. L
        BY <2>7, <3>3
      <4>2. g[M + 1].line = L + 1
        BY <3>1, <3>3
      <4>3. a = M + 1 <=> b = M + 1
        BY <2>3, <3>5, <4>1, <4>2
      <4>4. CASE a = M + 1
        BY <4>3, <4>4
      <4>5. CASE a # M + 1
        BY <2>3, <2>7, <3>3, <3>5, <4>3, <4>5
      <4>6. QED
        BY <4>4, <4>5
    <3>6. QED
      BY <2>1, <3>3, <3>4, <3>5
  <2>10. QED
    BY <2>8, <2>9
<1>3. Seq(Seq(T)) \subseteq S
  <2> HIDE DEF S
  <2> DEFINE U == Seq(T)
  <2>1. \A u \in Seq(U) : \A x \in U : u \in S => Append(u, x) \in S
    BY <1>2
  <2>2. << >> \in S
    BY <1>1
  <2> HIDE DEF U
  <2>3. Seq(U) \subseteq S
    BY <2>1, <2>2, SeqSetInduction
  <2>4. QED
    BY <2>3 DEF U
<1>4. Fine(s, FlattenSeq(s))
  BY <1>3
<1>5. QED
  BY <1>4, FlattenType
=============================================================================
