-------------------------- MODULE TrustGateProofs ---------------------------
(***************************************************************************)
(* Proofs about DmReject, for any capacity of its table and any eviction,  *)
(* and about TrustGate, for any nicks, rules, bounds and DM_HOLD_MAX.      *)
(***************************************************************************)
EXTENDS TrustGate, SequenceTheorems, FiniteSetTheorems, TLAPS

-----------------------------------------------------------------------------
(* DmReject.  The reply table keeps its types and its bound, whatever its  *)
(* size, and what a cooldown is worth when it overflows.  The lemmas about *)
(* one reply serve the proofs about TrustGate too.                         *)

\* Forgetting a nick that is in the table moves those behind it up by one.
LEMMA ForgetTakesOut ==
    ASSUME RejectTypeOK, NEW n \in Nick, Contains(dm_rejected, n)
    PROVE  \E i \in 1 .. Len(dm_rejected) :
              /\ dm_rejected[i] = n
              /\ Forget(n) \in Seq(Nick)
              /\ Len(Forget(n)) = Len(dm_rejected) - 1
              /\ \A k \in 1 .. i - 1 : Forget(n)[k] = dm_rejected[k]
              /\ \A k \in i .. Len(dm_rejected) - 1 : Forget(n)[k] = dm_rejected[k + 1]
<1> DEFINE i == CHOOSE j \in DOMAIN dm_rejected : dm_rejected[j] = n
           front == SubSeq(dm_rejected, 1, i - 1)
           back == SubSeq(dm_rejected, i + 1, Len(dm_rejected))
<1>1. i \in 1 .. Len(dm_rejected) /\ dm_rejected[i] = n
  BY DEF RejectTypeOK, Contains
<1>2. Forget(n) = front \o back
  BY DEF Forget, RemoveAt
<1> HIDE DEF i
<1>3. /\ front \in Seq(Nick) /\ Len(front) = i - 1
      /\ \A k \in 1 .. i - 1 : front[k] = dm_rejected[k]
  BY <1>1, SubSeqProperties DEF RejectTypeOK
<1>4. /\ back \in Seq(Nick) /\ Len(back) = Len(dm_rejected) - i
      /\ \A k \in 1 .. Len(dm_rejected) - i : back[k] = dm_rejected[i + k]
  BY <1>1, SubSeqProperties DEF RejectTypeOK
<1> HIDE DEF front, back
<1>5. /\ front \o back \in Seq(Nick)
      /\ Len(front \o back) = Len(front) + Len(back)
      /\ \A k \in 1 .. Len(front) + Len(back) :
            (front \o back)[k] = IF k <= Len(front) THEN front[k] ELSE back[k - Len(front)]
  BY <1>3, <1>4, ConcatProperties
<1>6. Len(dm_rejected) \in Nat /\ i \in 1 .. Len(dm_rejected)
  BY <1>1 DEF RejectTypeOK
<1>7. \A k \in 1 .. i - 1 : (front \o back)[k] = dm_rejected[k]
  BY <1>3, <1>4, <1>5, <1>6
<1>8. ASSUME NEW k \in i .. Len(dm_rejected) - 1
      PROVE  (front \o back)[k] = dm_rejected[k + 1]
  <2>1. (front \o back)[k] = back[k - (i - 1)]
    BY <1>3, <1>4, <1>5, <1>6
  <2>2. k - (i - 1) \in 1 .. Len(dm_rejected) - i /\ i + (k - (i - 1)) = k + 1
    BY <1>6
  <2>3. back[k - (i - 1)] = dm_rejected[i + (k - (i - 1))]
    BY <1>4, <2>2
  <2>4. QED
    BY <2>1, <2>2, <2>3
<1>9. /\ Forget(n) \in Seq(Nick)
      /\ Len(Forget(n)) = Len(dm_rejected) - 1
  BY <1>2, <1>3, <1>4, <1>5, <1>6
<1>10. /\ \A k \in 1 .. i - 1 : Forget(n)[k] = dm_rejected[k]
       /\ \A k \in i .. Len(dm_rejected) - 1 : Forget(n)[k] = dm_rejected[k + 1]
  BY <1>2, <1>7, <1>8
<1>11. QED
  BY <1>1, <1>9, <1>10

\* What is left when a nick is forgotten: the others, each once, in order.
LEMMA ForgetProperties ==
    ASSUME RejectTypeOK, TableBounded, NEW n \in Nick
    PROVE  /\ Forget(n) \in Seq(Nick)
           /\ Len(Forget(n)) <= Len(dm_rejected)
           /\ IsInjective(Append(Forget(n), n))
           /\ \A p, q \in 1 .. Len(Forget(n)) : p < q =>
                 \E a, b \in 1 .. Len(dm_rejected) :
                    a < b /\ Forget(n)[p] = dm_rejected[a] /\ Forget(n)[q] = dm_rejected[b]
           /\ \A p \in 1 .. Len(Forget(n)) :
                 Forget(n)[p] # n /\ \E a \in 1 .. Len(dm_rejected) : Forget(n)[p] = dm_rejected[a]
           /\ \A a \in 1 .. Len(dm_rejected) : dm_rejected[a] # n =>
                 \E p \in 1 .. Len(Forget(n)) : Forget(n)[p] = dm_rejected[a]
<1> USE DEF IsInjective
<1>0. Len(dm_rejected) \in Nat
  BY DEF RejectTypeOK
<1>1. CASE Contains(dm_rejected, n)
  <2> DEFINE f == Forget(n)
  <2>1. PICK i \in 1 .. Len(dm_rejected) :
              /\ dm_rejected[i] = n
              /\ Forget(n) \in Seq(Nick)
              /\ Len(Forget(n)) = Len(dm_rejected) - 1
              /\ \A k \in 1 .. i - 1 : Forget(n)[k] = dm_rejected[k]
              /\ \A k \in i .. Len(dm_rejected) - 1 : Forget(n)[k] = dm_rejected[k + 1]
    BY <1>1, ForgetTakesOut
  <2>2. \A j, k \in 1 .. Len(dm_rejected) : dm_rejected[j] = dm_rejected[k] => j = k
    BY DEF TableBounded, RejectTypeOK
  <2> DEFINE was(j) == IF j < i THEN j ELSE j + 1
  <2>3. \A j \in 1 .. Len(f) :
           /\ was(j) \in 1 .. Len(dm_rejected) /\ was(j) # i
           /\ f[j] = dm_rejected[was(j)]
    <3>1. \A j \in 1 .. Len(f) : j < i => f[j] = dm_rejected[j]
      BY <2>1, <1>0
    <3>2. \A j \in 1 .. Len(f) : ~(j < i) => f[j] = dm_rejected[j + 1]
      BY <2>1, <1>0
    <3>3. \A j \in 1 .. Len(f) : was(j) \in 1 .. Len(dm_rejected) /\ was(j) # i
      BY <2>1, <1>0
    <3>4. QED
      BY <3>1, <3>2, <3>3
  <2>4. Len(f) \in Nat /\ i \in Nat
    BY <1>0, <2>1
  <2>5. \A j, k \in 1 .. Len(f) : j < k => was(j) < was(k)
    BY <2>4
  <2>6. ASSUME NEW a \in 1 .. Len(dm_rejected), dm_rejected[a] # n
        PROVE  \E p \in 1 .. Len(f) : f[p] = dm_rejected[a]
    <3> DEFINE p == IF a < i THEN a ELSE a - 1
    <3>1. a # i
      BY <2>1, <2>6
    <3>2. p \in 1 .. Len(f) /\ was(p) = a
      BY <3>1, <2>1, <1>0
    <3> HIDE DEF p, was
    <3>3. QED
      BY <3>2, <2>3
  <2> HIDE DEF was
  <2>7. \A j, k \in 1 .. Len(f) : f[j] = f[k] => was(j) = was(k)
    BY <2>2, <2>3
  <2>8. \A j, k \in 1 .. Len(f) : f[j] = f[k] => j = k
    <3> SUFFICES ASSUME NEW j \in 1 .. Len(f), NEW k \in 1 .. Len(f), f[j] = f[k], j < k PROVE FALSE
      BY <2>4
    <3>1. was(j) < was(k) /\ was(j) = was(k) /\ was(j) \in 1 .. Len(dm_rejected)
      BY <2>3, <2>5, <2>7
    <3>2. QED
      BY <3>1, <1>0
  <2>9. \A j \in 1 .. Len(f) : f[j] # n
    BY <2>1, <2>2, <2>3
  <2>10. IsInjective(Append(f, n))
    <3> HIDE DEF f
    <3>1. f \in Seq(Nick)
      BY <2>1 DEF f
    <3>2. QED
      BY <2>8, <2>9, <3>1, AppendProperties
  <2>11. \A p, q \in 1 .. Len(f) : p < q =>
                 \E a, b \in 1 .. Len(dm_rejected) : a < b /\ f[p] = dm_rejected[a] /\ f[q] = dm_rejected[b]
    BY <2>3, <2>5
  <2>12. QED
    BY <1>0, <2>1, <2>3, <2>6, <2>9, <2>10, <2>11
<1>2. CASE ~Contains(dm_rejected, n)
  <2>1. Forget(n) = dm_rejected
    BY <1>2 DEF Forget
  <2>2. \A p \in 1 .. Len(dm_rejected) : dm_rejected[p] # n
    BY <1>2 DEF Contains, RejectTypeOK
  <2>3. IsInjective(Append(dm_rejected, n))
    BY <2>2, AppendProperties DEF RejectTypeOK, TableBounded
  <2>4. QED
    BY <1>0, <2>1, <2>2, <2>3 DEF RejectTypeOK
<1>3. QED
  BY <1>1, <1>2

\* A reply leaves the table within its bound, one entry per nick.
LEMMA RememberProperties ==
    ASSUME RejectTypeOK, TableBounded, NEW n \in Nick
    PROVE  /\ Remember(n) \in Seq(Nick)
           /\ Len(Remember(n)) <= RejectMax
           /\ IsInjective(Remember(n))
<1> DEFINE told == Append(Forget(n), n)
<1>1. /\ told \in Seq(Nick) /\ Len(told) <= RejectMax + 1
      /\ IsInjective(told)
  BY ForgetProperties, AppendProperties, RejectAssumption DEF TableBounded, RejectTypeOK
<1>2. Remember(n) = EvictOldest(told)
  BY DEF Remember
<1> HIDE DEF told
<1>3. CASE Len(told) > RejectMax
  <2>1. /\ SubSeq(told, RejectEvict + 1, Len(told)) \in Seq(Nick)
        /\ Len(SubSeq(told, RejectEvict + 1, Len(told))) = Len(told) - RejectEvict
        /\ \A k \in 1 .. Len(told) - RejectEvict :
              SubSeq(told, RejectEvict + 1, Len(told))[k] = told[RejectEvict + k]
    BY <1>1, <1>3, SubSeqProperties, RejectAssumption
  <2>2. QED
    BY <1>1, <1>2, <1>3, <2>1, RejectAssumption, SMTT(30) DEF EvictOldest, IsInjective
<1>4. CASE ~(Len(told) > RejectMax)
  BY <1>1, <1>2, <1>4, RejectAssumption DEF EvictOldest
<1>5. QED
  BY <1>3, <1>4

\* One reply, sent or withheld.
LEMMA DmRejectOnceSafe ==
    ASSUME RejectTypeOK, TableBounded, NEW n \in Nick, DmRejectOnce(n)
    PROVE  RejectTypeOK' /\ TableBounded'
<1>1. CASE DmRejectMsg /\ ~ToldRecently(n)
  <2>1. dm_rejected' = Remember(n) /\ cooling' = Append(cooling, n)
    BY <1>1 DEF DmRejectOnce
  <2>2. /\ Remember(n) \in Seq(Nick)
        /\ Len(Remember(n)) <= RejectMax
        /\ IsInjective(Remember(n))
    BY RememberProperties
  <2>3. QED
    BY <2>1, <2>2 DEF RejectTypeOK, TableBounded
<1>2. CASE ~(DmRejectMsg /\ ~ToldRecently(n))
  BY <1>2 DEF DmRejectOnce, RejectTypeOK, TableBounded, rejectVars
<1>3. QED
  BY <1>1, <1>2

\* The passing of a cooldown.
LEMMA CooldownOverSafe ==
    ASSUME RejectTypeOK, TableBounded, CooldownOver
    PROVE  RejectTypeOK' /\ TableBounded'
  BY DEF RejectTypeOK, TableBounded, CooldownOver

\* The initial table.
LEMMA RejectInitSafe ==
    ASSUME RejectInit
    PROVE  RejectTypeOK /\ TableBounded
  BY RejectAssumption DEF RejectInit, RejectTypeOK, TableBounded, IsInjective

(* Whatever its capacity, the table of dm_reject_once stays within it and   *)
(* remembers a nick once: the eviction of bot.py is enough.                 *)
THEOREM TableAlwaysBounded == RejectSpec => [](RejectTypeOK /\ TableBounded)
<1>1. RejectInit => RejectTypeOK /\ TableBounded
  BY RejectInitSafe
<1>2. RejectTypeOK /\ TableBounded /\ [RejectNext]_rejectVars
        => (RejectTypeOK /\ TableBounded)'
  <2> SUFFICES ASSUME RejectTypeOK, TableBounded, [RejectNext]_rejectVars
               PROVE  (RejectTypeOK /\ TableBounded)'
    OBVIOUS
  <2>1. CASE \E n \in Nick : Len(cooling) < MaxCooling /\ DmRejectOnce(n)
    BY <2>1, DmRejectOnceSafe
  <2>2. CASE CooldownOver
    BY <2>2, CooldownOverSafe
  <2>3. CASE UNCHANGED rejectVars
    BY <2>3 DEF rejectVars, RejectTypeOK, TableBounded
  <2>4. QED
    BY <2>1, <2>2, <2>3 DEF RejectNext
<1>3. QED
  BY <1>1, <1>2, PTL DEF RejectSpec

-----------------------------------------------------------------------------
(* What the cooldown is worth when the table overflows.                    *)

\* The nicks answered after the i-th of the replies of c.
After(c, i) == {c[k] : k \in i + 1 .. Len(c)}

\* Whoever stands behind a nick in the table t was answered after it.
BehindIsLater(t, c) ==
    \A p, q \in 1 .. Len(t) : p < q =>
        \A i \in 1 .. Len(c) : c[i] = t[p] => t[q] \in After(c, i)

\* A nick thrown out of the table within its cooldown has seen a flood.
ThrownOutByFlood(t, c) ==
    \A i \in 1 .. Len(c) :
        (\A p \in 1 .. Len(t) : t[p] # c[i])
            => Cardinality(After(c, i)) >= RejectMax + 1 - RejectEvict

CooldownInv ==
    /\ BehindIsLater(dm_rejected, cooling)
    /\ ThrownOutByFlood(dm_rejected, cooling)
    /\ SecondReplyOnlyAfterFlood

\* The nicks of a part of a sequence are finitely many.
LEMMA PartFinite ==
    ASSUME NEW s, NEW a \in Nat, NEW b \in Nat
    PROVE  IsFiniteSet({s[k] : k \in a .. b})
<1> DEFINE f == [k \in a .. b |-> s[k]]
           T == {s[k] : k \in a .. b}
<1>1. IsFiniteSet(a .. b)
  BY FS_Interval
<1>2. f \in Surjection(a .. b, T)
  BY DEF Surjection
<1>3. QED
  BY <1>1, <1>2, FS_Surjection

\* The entries behind one of a table without repetitions are that many.
LEMMA BehindCount ==
    ASSUME NEW t \in Seq(Nick), IsInjective(t), NEW p \in 1 .. Len(t)
    PROVE  /\ IsFiniteSet({t[q] : q \in p + 1 .. Len(t)})
           /\ Cardinality({t[q] : q \in p + 1 .. Len(t)}) = Len(t) - p
<1> DEFINE D == p + 1 .. Len(t)
           T == {t[q] : q \in D}
           f == [q \in D |-> t[q]]
<1>1. Len(t) \in Nat /\ p \in Nat /\ p <= Len(t)
  OBVIOUS
<1>2. IsFiniteSet(D) /\ Cardinality(D) = Len(t) - p
  BY <1>1, FS_Interval
<1>3. f \in Surjection(D, T)
  BY DEF Surjection
<1>4. \A a, b \in D : t[a] = t[b] => a = b
  BY <1>1 DEF IsInjective
<1>5. f \in Injection(D, T)
  BY <1>4 DEF Injection, IsInjective
<1>6. IsFiniteSet(T) /\ Cardinality(T) = Cardinality(D)
  BY <1>2, <1>3, <1>5, FS_Surjection
<1>7. QED
  BY <1>2, <1>6

LEMMA AfterFinite ==
    ASSUME NEW c \in Seq(Nick), NEW i \in 1 .. Len(c)
    PROVE  IsFiniteSet(After(c, i))
<1>1. i + 1 \in Nat /\ Len(c) \in Nat
  OBVIOUS
<1>2. IsFiniteSet({c[k] : k \in i + 1 .. Len(c)})
  BY <1>1, PartFinite
<1>3. QED
  BY <1>2 DEF After

\* Another reply is after those before it.
LEMMA AfterAppend ==
    ASSUME NEW c \in Seq(Nick), NEW n \in Nick, NEW i \in 1 .. Len(c)
    PROVE  After(Append(c, n), i) = After(c, i) \cup {n}
<1> DEFINE d == Append(c, n)
<1>1. Len(c) \in Nat /\ Len(d) = Len(c) + 1 /\ d[Len(c) + 1] = n
      /\ \A k \in 1 .. Len(c) : d[k] = c[k]
  BY AppendProperties
<1> HIDE DEF d
<1>2. \A k \in i + 1 .. Len(c) : d[k] = c[k] /\ k \in i + 1 .. Len(d)
  BY <1>1
<1>3. \A k \in i + 1 .. Len(d) : k \in i + 1 .. Len(c) \/ k = Len(c) + 1
  BY <1>1
<1>4. Len(c) + 1 \in i + 1 .. Len(d)
  BY <1>1
<1>5. After(d, i) = After(c, i) \cup {n}
  BY <1>1, <1>2, <1>3, <1>4 DEF After
<1>6. QED
  BY <1>5 DEF d

\* The table before it is cut, and the replies, agree after one more reply.
LEMMA ToldFollows ==
    ASSUME RejectTypeOK, TableBounded, NEW n \in Nick,
           BehindIsLater(dm_rejected, cooling)
    PROVE  BehindIsLater(Append(Forget(n), n), Append(cooling, n))
<1> DEFINE f == Forget(n)
           t == Append(f, n)
           c == Append(cooling, n)
<1>1. /\ f \in Seq(Nick)
      /\ \A p, q \in 1 .. Len(f) : p < q =>
            \E a, b \in 1 .. Len(dm_rejected) :
               a < b /\ f[p] = dm_rejected[a] /\ f[q] = dm_rejected[b]
      /\ \A p \in 1 .. Len(f) : f[p] # n
  BY ForgetProperties
<1> HIDE DEF f
<1>2. /\ Len(f) \in Nat /\ Len(t) = Len(f) + 1 /\ t[Len(f) + 1] = n
      /\ \A k \in 1 .. Len(f) : t[k] = f[k]
  BY <1>1, AppendProperties
<1>3. /\ cooling \in Seq(Nick) /\ Len(cooling) \in Nat /\ Len(c) = Len(cooling) + 1
      /\ c[Len(cooling) + 1] = n
      /\ \A k \in 1 .. Len(cooling) : c[k] = cooling[k]
  BY AppendProperties DEF RejectTypeOK
<1> HIDE DEF t
<1>4. ASSUME NEW p \in 1 .. Len(t), NEW q \in 1 .. Len(t), p < q,
             NEW i \in 1 .. Len(c), c[i] = t[p]
      PROVE  t[q] \in After(c, i)
  <2>1. p \in 1 .. Len(f) /\ t[p] = f[p] /\ f[p] # n
    BY <1>1, <1>2, <1>4
  <2>2. i \in 1 .. Len(cooling) /\ cooling[i] = f[p]
    BY <1>3, <1>4, <2>1
  <2>3. After(c, i) = After(cooling, i) \cup {n}
    BY <1>3, <2>2, AfterAppend
  <2>4. CASE q = Len(f) + 1
    BY <1>2, <2>3, <2>4
  <2>5. CASE q \in 1 .. Len(f)
    <3>1. PICK a \in 1 .. Len(dm_rejected), b \in 1 .. Len(dm_rejected) :
             a < b /\ f[p] = dm_rejected[a] /\ f[q] = dm_rejected[b]
      BY <1>1, <1>4, <2>1, <2>5
    <3>2. dm_rejected[b] \in After(cooling, i)
      BY <2>2, <3>1 DEF BehindIsLater
    <3>3. QED
      BY <1>2, <2>3, <2>5, <3>1, <3>2
  <2>6. QED
    BY <1>2, <2>4, <2>5
<1>5. BehindIsLater(t, c)
  BY <1>4 DEF BehindIsLater
<1>6. QED
  BY <1>5 DEF t, f


\* The table after one more reply: it still stands in the order of the
\* replies, and whom it threw out has at least those behind it answered since.
LEMMA RememberFollows ==
    ASSUME RejectTypeOK, TableBounded, NEW n \in Nick,
           BehindIsLater(dm_rejected, cooling), ThrownOutByFlood(dm_rejected, cooling)
    PROVE  /\ BehindIsLater(Remember(n), Append(cooling, n))
           /\ ThrownOutByFlood(Remember(n), Append(cooling, n))
<1> DEFINE f == Forget(n)
           t == Append(f, n)
           c == Append(cooling, n)
           r == EvictOldest(t)
<1>1. /\ f \in Seq(Nick) /\ Len(f) <= Len(dm_rejected)
      /\ IsInjective(t)
      /\ \A a \in 1 .. Len(dm_rejected) : dm_rejected[a] # n =>
            \E p \in 1 .. Len(f) : f[p] = dm_rejected[a]
  BY ForgetProperties
<1>2. BehindIsLater(t, c)
  BY ToldFollows
<1>3. Remember(n) = r
  BY DEF Remember
<1> HIDE DEF f
<1>4. /\ t \in Seq(Nick) /\ Len(f) \in Nat /\ Len(t) = Len(f) + 1 /\ t[Len(f) + 1] = n
      /\ \A k \in 1 .. Len(f) : t[k] = f[k]
  BY <1>1, AppendProperties
<1>5. /\ cooling \in Seq(Nick) /\ Len(cooling) \in Nat /\ Len(c) = Len(cooling) + 1
      /\ c \in Seq(Nick) /\ c[Len(cooling) + 1] = n
      /\ \A k \in 1 .. Len(cooling) : c[k] = cooling[k]
  BY AppendProperties DEF RejectTypeOK
<1>6. Len(dm_rejected) \in Nat /\ Len(t) <= RejectMax + 1 /\ RejectMax \in Nat
      /\ RejectEvict \in 1 .. RejectMax
  BY <1>1, <1>4, RejectAssumption DEF TableBounded, RejectTypeOK
<1> HIDE DEF t, c
<1>7. ASSUME NEW i \in 1 .. Len(c), \A p \in 1 .. Len(t) : t[p] # c[i]
      PROVE  Cardinality(After(c, i)) >= RejectMax + 1 - RejectEvict
  <2>1. \A p \in 1 .. Len(f) : t[p] = f[p] /\ p \in 1 .. Len(t)
    BY <1>4
  <2>2. c[i] # n
    BY <1>4, <1>7
  <2>3. i \in 1 .. Len(cooling) /\ cooling[i] = c[i]
    BY <1>5, <2>2
  <2>4. \A a \in 1 .. Len(dm_rejected) : dm_rejected[a] # cooling[i]
    BY <1>1, <1>7, <2>1, <2>2, <2>3
  <2>5. Cardinality(After(cooling, i)) >= RejectMax + 1 - RejectEvict
    BY <2>3, <2>4 DEF ThrownOutByFlood
  <2>6. After(c, i) = After(cooling, i) \cup {n}
    BY <1>5, <2>3, AfterAppend DEF c
  <2>7. IsFiniteSet(After(c, i))
    BY <1>5, AfterFinite
  <2>8. /\ Cardinality(After(cooling, i)) <= Cardinality(After(c, i))
        /\ Cardinality(After(c, i)) \in Nat /\ Cardinality(After(cooling, i)) \in Nat
    BY <2>6, <2>7, FS_Subset, FS_CardinalityType
  <2>9. QED
    BY <1>6, <2>5, <2>8
<1>8. CASE Len(t) > RejectMax
  <2>0. Len(t) = RejectMax + 1
    BY <1>4, <1>6, <1>8
  <2>1. r = SubSeq(t, RejectEvict + 1, Len(t))
    BY <1>8 DEF EvictOldest
  <2> HIDE DEF r
  <2>2. /\ Len(r) = Len(t) - RejectEvict
        /\ \A k \in 1 .. Len(t) - RejectEvict : r[k] = t[RejectEvict + k]
    <3>1. /\ Len(SubSeq(t, RejectEvict + 1, Len(t))) = Len(t) - RejectEvict
          /\ \A k \in 1 .. Len(t) - RejectEvict :
                SubSeq(t, RejectEvict + 1, Len(t))[k] = t[RejectEvict + k]
      BY <1>4, <1>6, <2>0, SubSeqProperties
    <3>2. QED
      BY <2>1, <3>1
  <2>3. ASSUME NEW p \in 1 .. Len(r), NEW q \in 1 .. Len(r), p < q,
               NEW i \in 1 .. Len(c), c[i] = r[p]
        PROVE  r[q] \in After(c, i)
    <3>1. /\ RejectEvict + p \in 1 .. Len(t) /\ RejectEvict + q \in 1 .. Len(t)
          /\ RejectEvict + p < RejectEvict + q
      <4>1. Len(r) = Len(t) - RejectEvict /\ RejectEvict \in Nat /\ Len(t) \in Nat
        BY <1>4, <1>6, <2>2
      <4>2. p \in Nat /\ q \in Nat /\ 1 <= p /\ p < q /\ q <= Len(t) - RejectEvict
        BY <2>3, <4>1
      <4>3. QED
        BY <4>1, <4>2
    <3>2. r[p] = t[RejectEvict + p] /\ r[q] = t[RejectEvict + q]
      BY <1>4, <1>6, <2>0, <2>2
    <3>3. QED
      BY <1>2, <2>3, <3>1, <3>2 DEF BehindIsLater
  <2>4. ASSUME NEW i \in 1 .. Len(c), \A p \in 1 .. Len(r) : r[p] # c[i]
        PROVE  Cardinality(After(c, i)) >= RejectMax + 1 - RejectEvict
    <3>1. ASSUME NEW p \in 1 .. Len(t), t[p] = c[i]
          PROVE  Cardinality(After(c, i)) >= RejectMax + 1 - RejectEvict
      <4> DEFINE B == {t[q] : q \in p + 1 .. Len(t)}
      <4>1. p <= RejectEvict
        <5> SUFFICES ASSUME p > RejectEvict PROVE FALSE
          BY <1>4, <1>6
        <5>1. p - RejectEvict \in 1 .. Len(r) /\ RejectEvict + (p - RejectEvict) = p
          BY <1>4, <1>6, <2>0, <2>2
        <5>2. r[p - RejectEvict] = t[p]
          BY <5>1, <2>2
        <5>3. QED
          BY <2>4, <3>1, <5>1, <5>2
      <4>2. \A q \in p + 1 .. Len(t) : q \in 1 .. Len(t) /\ p < q
        BY <1>4
      <4>3. \A q \in p + 1 .. Len(t) : t[q] \in After(c, i)
        BY <1>2, <3>1, <4>2 DEF BehindIsLater
      <4>4. B \in SUBSET After(c, i)
        BY <4>3
      <4>5. IsFiniteSet(B) /\ Cardinality(B) = Len(t) - p
        BY <1>1, <1>4, BehindCount
      <4>6. IsFiniteSet(After(c, i))
        BY <1>5, AfterFinite
      <4>7. Cardinality(B) <= Cardinality(After(c, i)) /\ Cardinality(After(c, i)) \in Nat
        BY <4>4, <4>6, FS_Subset, FS_CardinalityType
      <4> HIDE DEF B
      <4>8. Len(t) - p >= RejectMax + 1 - RejectEvict /\ Len(t) - p \in Nat
        BY <1>4, <1>6, <2>0, <4>1
      <4>9. QED
        BY <1>6, <4>5, <4>7, <4>8
    <3>2. CASE \A p \in 1 .. Len(t) : t[p] # c[i]
      BY <1>7, <3>2
    <3>3. QED
      BY <3>1, <3>2
  <2>5. BehindIsLater(r, c)
    BY <2>3 DEF BehindIsLater
  <2>6. ThrownOutByFlood(r, c)
    BY <2>4 DEF ThrownOutByFlood
  <2>7. QED
    BY <1>3, <2>5, <2>6 DEF c
<1>9. CASE ~(Len(t) > RejectMax)
  <2>1. r = t
    BY <1>9 DEF EvictOldest
  <2> HIDE DEF r
  <2>2. ThrownOutByFlood(t, c)
    BY <1>7 DEF ThrownOutByFlood
  <2>3. QED
    BY <1>2, <1>3, <2>1, <2>2 DEF c
<1>10. QED
  BY <1>8, <1>9

\* One reply, sent or withheld: a nick is told again only when it is not in
\* the table, and then the flood has come between.
LEMMA DmRejectOnceCools ==
    ASSUME RejectTypeOK, TableBounded, CooldownInv, NEW n \in Nick, DmRejectOnce(n)
    PROVE  CooldownInv'
<1>1. CASE DmRejectMsg /\ ~ToldRecently(n)
  <2>1. dm_rejected' = Remember(n) /\ cooling' = Append(cooling, n)
    BY <1>1 DEF DmRejectOnce
  <2>2. /\ BehindIsLater(Remember(n), Append(cooling, n))
        /\ ThrownOutByFlood(Remember(n), Append(cooling, n))
    BY RememberFollows DEF CooldownInv
  <2>3. /\ Len(cooling) \in Nat /\ Len(cooling') = Len(cooling) + 1
        /\ cooling'[Len(cooling) + 1] = n
        /\ \A k \in 1 .. Len(cooling) : cooling'[k] = cooling[k]
    BY <2>1, AppendProperties DEF RejectTypeOK
  <2>4. ASSUME NEW i \in 1 .. Len(cooling'), NEW j \in 1 .. Len(cooling'),
               i < j, cooling'[i] = cooling'[j]
        PROVE  Cardinality({cooling'[k] : k \in i + 1 .. j - 1}) >= RejectMax + 1 - RejectEvict
    <3>1. i \in 1 .. Len(cooling) /\ \A k \in i + 1 .. j - 1 : k \in 1 .. Len(cooling)
      BY <2>3, <2>4
    <3>2. {cooling'[k] : k \in i + 1 .. j - 1} = {cooling[k] : k \in i + 1 .. j - 1}
      BY <2>3, <3>1
    <3>3. CASE j \in 1 .. Len(cooling)
      BY <2>3, <2>4, <3>1, <3>2, <3>3 DEF CooldownInv, SecondReplyOnlyAfterFlood
    <3>4. CASE j = Len(cooling) + 1
      <4>1. cooling[i] = n
        BY <2>3, <2>4, <3>1, <3>4
      <4>2. Contains(cooling, n)
        BY <3>1, <4>1 DEF Contains
      <4>3. ~Contains(dm_rejected, n)
        BY <1>1, <4>2 DEF ToldRecently
      <4>4. \A p \in 1 .. Len(dm_rejected) : dm_rejected[p] # cooling[i]
        BY <4>1, <4>3 DEF Contains, RejectTypeOK
      <4>5. Cardinality(After(cooling, i)) >= RejectMax + 1 - RejectEvict
        BY <3>1, <4>4 DEF CooldownInv, ThrownOutByFlood
      <4>6. j - 1 = Len(cooling)
        BY <2>3, <3>4
      <4>7. QED
        BY <3>2, <4>5, <4>6 DEF After
    <3>5. QED
      BY <2>3, <3>3, <3>4
  <2>5. SecondReplyOnlyAfterFlood'
    BY <2>4 DEF SecondReplyOnlyAfterFlood
  <2>6. (BehindIsLater(dm_rejected, cooling) /\ ThrownOutByFlood(dm_rejected, cooling))'
    BY <2>1, <2>2
  <2>7. QED
    BY <2>5, <2>6 DEF CooldownInv
<1>2. CASE ~(DmRejectMsg /\ ~ToldRecently(n))
  BY <1>2 DEF DmRejectOnce, CooldownInv, BehindIsLater, ThrownOutByFlood, After,
     SecondReplyOnlyAfterFlood, rejectVars
<1>3. QED
  BY <1>1, <1>2

\* The passing of a cooldown forgets the first reply and renumbers the others.
LEMMA CooldownOverCools ==
    ASSUME RejectTypeOK, CooldownInv, CooldownOver
    PROVE  CooldownInv'
<1>1. /\ cooling # << >> /\ cooling' = Tail(cooling) /\ dm_rejected' = dm_rejected
      /\ cooling \in Seq(Nick)
  BY DEF CooldownOver, RejectTypeOK
<1>2. /\ Len(cooling) \in Nat \ {0} /\ Len(cooling') = Len(cooling) - 1
      /\ \A k \in 1 .. Len(cooling') : cooling'[k] = cooling[k + 1]
  BY <1>1, EmptySeq, HeadTailProperties
<1>3. ASSUME NEW i \in 1 .. Len(cooling'), NEW j \in Nat, j <= Len(cooling')
      PROVE  {cooling'[k] : k \in i + 1 .. j} = {cooling[k] : k \in i + 2 .. j + 1}
  <2>1. \A k \in i + 1 .. j : k + 1 \in i + 2 .. j + 1 /\ cooling'[k] = cooling[k + 1]
    BY <1>2, <1>3
  <2>2. \A k \in i + 2 .. j + 1 : k - 1 \in i + 1 .. j /\ cooling'[k - 1] = cooling[k]
    <3>1. \A k \in i + 2 .. j + 1 : k - 1 \in 1 .. Len(cooling') /\ k - 1 \in i + 1 .. j /\ (k - 1) + 1 = k
      BY <1>2, <1>3
    <3>2. QED
      BY <1>2, <3>1
  <2>3. QED
    BY <2>1, <2>2
<1>4. ASSUME NEW i \in 1 .. Len(cooling')
      PROVE  /\ i + 1 \in 1 .. Len(cooling) /\ cooling'[i] = cooling[i + 1]
             /\ After(cooling', i) = After(cooling, i + 1)
  <2>1. {cooling'[k] : k \in i + 1 .. Len(cooling')} = {cooling[k] : k \in i + 2 .. Len(cooling') + 1}
    <3>1. Len(cooling') \in Nat /\ Len(cooling') <= Len(cooling')
      BY <1>2
    <3>2. QED
      BY <1>3, <3>1
  <2>2. Len(cooling') + 1 = Len(cooling) /\ i + 2 = (i + 1) + 1
    BY <1>2
  <2>3. After(cooling', i) = After(cooling, i + 1)
    BY <2>1, <2>2 DEF After
  <2>4. i + 1 \in 1 .. Len(cooling) /\ cooling'[i] = cooling[i + 1]
    BY <1>2
  <2>5. QED
    BY <2>3, <2>4
<1>5. BehindIsLater(dm_rejected, cooling')
  BY <1>4 DEF CooldownInv, BehindIsLater
<1>6. ThrownOutByFlood(dm_rejected, cooling')
  BY <1>4 DEF CooldownInv, ThrownOutByFlood
<1>7. ASSUME NEW i \in 1 .. Len(cooling'), NEW j \in 1 .. Len(cooling'),
             i < j, cooling'[i] = cooling'[j]
      PROVE  Cardinality({cooling'[k] : k \in i + 1 .. j - 1}) >= RejectMax + 1 - RejectEvict
  <2>1. i + 1 \in 1 .. Len(cooling) /\ j + 1 \in 1 .. Len(cooling) /\ i + 1 < j + 1
    BY <1>2, <1>7
  <2>2. cooling[i + 1] = cooling[j + 1]
    BY <1>2, <1>7
  <2>3. Cardinality({cooling[k] : k \in (i + 1) + 1 .. (j + 1) - 1}) >= RejectMax + 1 - RejectEvict
    BY <2>1, <2>2 DEF CooldownInv, SecondReplyOnlyAfterFlood
  <2>4. {cooling'[k] : k \in i + 1 .. j - 1} = {cooling[k] : k \in i + 2 .. (j - 1) + 1}
    <3>1. j - 1 \in Nat /\ j - 1 <= Len(cooling')
      BY <1>2
    <3>2. QED
      BY <1>3, <3>1
  <2>5. (i + 1) + 1 = i + 2 /\ (j + 1) - 1 = (j - 1) + 1
    BY <1>2
  <2>6. QED
    BY <2>3, <2>4, <2>5
<1>8. SecondReplyOnlyAfterFlood'
  BY <1>7 DEF SecondReplyOnlyAfterFlood
<1>9. (BehindIsLater(dm_rejected, cooling) /\ ThrownOutByFlood(dm_rejected, cooling))'
  BY <1>1, <1>5, <1>6
<1>10. QED
  BY <1>8, <1>9 DEF CooldownInv

(* A nick gets a second reply within its cooldown only after RejectMax + 1  *)
(* - RejectEvict others were answered in between, for any capacity and      *)
(* eviction: 401 for the numbers of dm_reject_once.                         *)
THEOREM SecondReplyNeedsAFlood == RejectSpec => []SecondReplyOnlyAfterFlood
<1>1. RejectInit => CooldownInv
  BY DEF RejectInit, CooldownInv, BehindIsLater, ThrownOutByFlood, SecondReplyOnlyAfterFlood
<1>2. RejectTypeOK /\ TableBounded /\ CooldownInv /\ [RejectNext]_rejectVars => CooldownInv'
  <2> SUFFICES ASSUME RejectTypeOK, TableBounded, CooldownInv, [RejectNext]_rejectVars
               PROVE  CooldownInv'
    OBVIOUS
  <2>1. CASE \E n \in Nick : Len(cooling) < MaxCooling /\ DmRejectOnce(n)
    BY <2>1, DmRejectOnceCools
  <2>2. CASE CooldownOver
    BY <2>2, CooldownOverCools
  <2>3. CASE UNCHANGED rejectVars
    BY <2>3 DEF rejectVars, CooldownInv, BehindIsLater, ThrownOutByFlood, After,
       SecondReplyOnlyAfterFlood
  <2>4. QED
    BY <2>1, <2>2, <2>3 DEF RejectNext
<1>3. CooldownInv => SecondReplyOnlyAfterFlood
  BY DEF CooldownInv
<1>4. QED
  BY <1>1, <1>2, <1>3, TableAlwaysBounded, PTL DEF RejectSpec

-----------------------------------------------------------------------------
(* TrustGate: the helpers.                                                 *)

\* How a line ends is an event.
LEMMA EndedType ==
    ASSUME NEW l \in Spoken, NEW fate \in Fate
    PROVE  Ended(l, fate) \in Event
  BY DEF Ended, Event

\* The eviction splits a queue in two, the newer part within DM_HOLD_MAX.
LEMMA NewestProperties ==
    ASSUME NEW q \in Seq(Spoken)
    PROVE  /\ Newest(q) \in Seq(Spoken)
           /\ Evicted(q) \in Seq(Spoken)
           /\ Len(Newest(q)) <= DM_HOLD_MAX
<1>1. Len(q) \in Nat /\ DM_HOLD_MAX \in Nat /\ DM_HOLD_MAX > 0
  BY TrustAssumption
<1>2. /\ Newest(q) \in Seq(Spoken)
      /\ Len(Newest(q)) <= DM_HOLD_MAX
      /\ Len(Newest(q)) \in 0 .. Len(q)
  <2>1. CASE Len(q) > DM_HOLD_MAX
    <3>1. /\ SubSeq(q, Len(q) - DM_HOLD_MAX + 1, Len(q)) \in Seq(Spoken)
          /\ Len(SubSeq(q, Len(q) - DM_HOLD_MAX + 1, Len(q))) = DM_HOLD_MAX
      BY <1>1, <2>1, SubSeqProperties
    <3>2. QED
      BY <1>1, <2>1, <3>1 DEF Newest
  <2>2. CASE ~(Len(q) > DM_HOLD_MAX)
    BY <1>1, <2>2 DEF Newest
  <2>3. QED
    BY <2>1, <2>2
<1>3. SubSeq(q, 1, Len(q) - Len(Newest(q))) \in Seq(Spoken)
  BY <1>1, <1>2, SubSeqProperties
<1>4. QED
  BY <1>2, <1>3 DEF Evicted

\* dm_hold adds to one queue, and what it evicts ends.
LEMMA HoldProperties ==
    ASSUME TypeOK, NEW l \in Spoken, dm_hold(l)
    PROVE  /\ dm_held' \in [Nick -> Seq(Spoken)]
           /\ Len(dm_held'[l.nick]) <= DM_HOLD_MAX
           /\ \A m \in Nick : m # l.nick => dm_held'[m] = dm_held[m]
           /\ events' \in Seq(Event)
<1> DEFINE q == Append(dm_held[l.nick], l)
           out == Evicted(q)
<1>1. l.nick \in Nick /\ dm_held[l.nick] \in Seq(Spoken)
  BY DEF TypeOK, Spoken
<1>2. q \in Seq(Spoken)
  BY <1>1
<1>3. /\ dm_held' = [dm_held EXCEPT ![l.nick] = Newest(q)]
      /\ events' = events \o [i \in 1 .. Len(out) |-> Ended(out[i], "evicted")]
  BY DEF dm_hold
<1> HIDE DEF q
<1>4. [i \in 1 .. Len(out) |-> Ended(out[i], "evicted")] \in Seq(Event)
  <2>1. out \in Seq(Spoken)
    BY <1>2, NewestProperties
  <2> HIDE DEF out
  <2>2. \A i \in 1 .. Len(out) : Ended(out[i], "evicted") \in Event
    BY <2>1, EndedType DEF Fate
  <2>3. QED
    BY <2>1, <2>2, IsASeq
<1>5. QED
  BY <1>1, <1>2, <1>3, <1>4, NewestProperties, ConcatProperties DEF TypeOK

\* dm_flush empties one queue, and every message of it ends.
LEMMA FlushProperties ==
    ASSUME TypeOK, NEW n \in Nick, NEW confirmed, NEW reason \in Fate,
           dm_flush(n, confirmed, reason)
    PROVE  /\ dm_held' \in [Nick -> Seq(Spoken)]
           /\ dm_held'[n] = << >>
           /\ \A m \in Nick : m # n => dm_held'[m] = dm_held[m]
           /\ events' \in Seq(Event)
<1> DEFINE q == dm_held[n]
           fate(l) == IF n \in confirmed /\ host_matches(n, l.host) THEN "TRUSTED" ELSE reason
           ends == [i \in 1 .. Len(q) |-> Ended(q[i], fate(q[i]))]
<1>1. /\ dm_held' = [dm_held EXCEPT ![n] = << >>]
      /\ events' = events \o ends
  BY DEF dm_flush
<1>2. ends \in Seq(Event)
  <2>1. q \in Seq(Spoken)
    BY DEF TypeOK
  <2>2. \A l \in Spoken : fate(l) \in Fate
    BY DEF Fate
  <2> HIDE DEF q, fate
  <2>3. \A i \in 1 .. Len(q) : Ended(q[i], fate(q[i])) \in Event
    BY <2>1, <2>2, EndedType
  <2>4. QED
    BY <2>1, <2>3, IsASeq
<1> HIDE DEF ends
<1>3. QED
  BY <1>1, <1>2, ConcatProperties, EmptySeq DEF TypeOK

\* FireWhois sends what it awaits, and forgets nothing.
LEMMA FireWhoisProperties ==
    ASSUME TypeOK, NEW n \in Nick, NEW h, FireWhois(n, h)
    PROVE  /\ whois_pending' \subseteq Nick
           /\ whois_pending \subseteq whois_pending'
           /\ toServer' \in Seq(Nick)
           /\ Verdict(n, h) = "pending-whois" => n \in whois_pending'
<1>1. CASE Verdict(n, h) = "pending-whois" /\ n \notin whois_pending
  <2>1. whois_pending' = whois_pending \cup {n} /\ toServer' = Append(toServer, n)
    BY <1>1 DEF FireWhois
  <2>2. toServer' \in Seq(Nick)
    BY <2>1, AppendProperties DEF TypeOK
  <2>3. QED
    BY <2>1, <2>2 DEF TypeOK
<1>2. CASE ~(Verdict(n, h) = "pending-whois" /\ n \notin whois_pending)
  BY <1>2 DEF FireWhois, TypeOK
<1>3. QED
  BY <1>1, <1>2

\* What the reader finds at the head of the wire.
LEMMA ReadsProperties ==
    ASSUME TypeOK, NEW cmds, Reads(cmds)
    PROVE  /\ Head(toBot) \in Line
           /\ Head(toBot).cmd \in cmds
           /\ toBot' \in Seq(Line)
           /\ UNCHANGED serverVars
<1>1. Head(toBot) \in Line /\ Tail(toBot) \in Seq(Line)
  BY HeadTailProperties DEF Reads, TypeOK
<1>2. QED
  BY <1>1 DEF Reads

\* A line is told apart by its command.
LEMMA LineKinds ==
    ASSUME NEW l \in Line
    PROVE  /\ l.cmd \in {"dm", "channel", "invite"} => l \in Spoken
           /\ l.cmd \in {"307", "330", "318"} => l \in Reply
           /\ l.cmd \in {"PART", "QUIT", "NICK"} => l \in Moved
  BY DEF Line, Spoken, Reply, Moved

-----------------------------------------------------------------------------
(* A step of the reader keeps the types and leaves nothing parked in vain. *)

GateInv == TypeOK /\ TableBounded /\ HeldAwaitsWhois

\* 001.
LEMMA ReadWelcomeSafe ==
    ASSUME GateInv, ReadWelcome
    PROVE  GateInv'
<1> USE DEF GateInv
<1>1. toBot' \in Seq(Line) /\ UNCHANGED serverVars
  BY ReadsProperties DEF ReadWelcome
<1>2. \A i \in DOMAIN Rules : Rules[i].nick \in Nick
  <2> DEFINE Rule == [nick : Nick, glob : SUBSET Host]
  <2>1. Rules \in Seq(Rule)
    BY TrustAssumption
  <2>2. \A r \in Rule : r.nick \in Nick
    OBVIOUS
  <2> HIDE DEF Rule
  <2>3. \A i \in DOMAIN Rules : Rules[i] \in Rule
    BY <2>1
  <2>4. QED
    BY <2>2, <2>3
<1>3. toServer' \in Seq(Nick)
  <2>1. [i \in 1 .. Len(Rules) |-> Rules[i].nick] \in Seq(Nick)
    BY TrustAssumption, <1>2, IsASeq
  <2>2. QED
    BY <2>1, ConcatProperties DEF ReadWelcome, TypeOK
<1>4. whois_pending' \subseteq Nick /\ whois_pending \subseteq whois_pending'
  BY <1>2 DEF ReadWelcome, TypeOK
<1>5. UNCHANGED <<verified, dm_held, events, rejectVars>>
  BY DEF ReadWelcome
<1>6. QED
  BY <1>1, <1>3, <1>4, <1>5 DEF TypeOK, TableBounded, HeldAwaitsWhois, serverVars,
     RejectTypeOK, rejectVars

\* 307 and 330.
LEMMA ReadIdentifiedSafe ==
    ASSUME GateInv, ReadIdentified
    PROVE  GateInv'
<1> USE DEF GateInv
<1> DEFINE n == Head(toBot).nick
           cmd == Head(toBot).cmd
<1>1. /\ n \in Nick /\ cmd \in {"307", "330"}
      /\ toBot' \in Seq(Line) /\ UNCHANGED serverVars
  BY ReadsProperties, LineKinds DEF ReadIdentified, Reply
<1>2. /\ verified' = verified \cup {n}
      /\ whois_pending' = whois_pending \ {n}
      /\ dm_flush(n, verified', cmd)
      /\ UNCHANGED <<toServer, rejectVars>>
  BY DEF ReadIdentified
<1> HIDE DEF n, cmd
<1>3. cmd \in Fate
  BY <1>1 DEF Fate
<1>4. QED
  BY <1>1, <1>2, <1>3, FlushProperties DEF TypeOK, TableBounded, HeldAwaitsWhois, serverVars,
     RejectTypeOK, rejectVars

\* 318.
LEMMA ReadEndOfWhoisSafe ==
    ASSUME GateInv, ReadEndOfWhois
    PROVE  GateInv'
<1> USE DEF GateInv
<1> DEFINE n == Head(toBot).nick
<1>1. n \in Nick /\ toBot' \in Seq(Line) /\ UNCHANGED serverVars
  BY ReadsProperties, LineKinds DEF ReadEndOfWhois, Reply
<1>2. /\ whois_pending' = whois_pending \ {n}
      /\ dm_flush(n, verified, "318")
      /\ UNCHANGED <<verified, toServer, rejectVars>>
  BY DEF ReadEndOfWhois
<1> HIDE DEF n
<1>3. QED
  BY <1>1, <1>2, FlushProperties DEF TypeOK, TableBounded, HeldAwaitsWhois, serverVars,
     RejectTypeOK, rejectVars, Fate

\* PART, QUIT and NICK.
LEMMA ReadMovedSafe ==
    ASSUME GateInv, ReadMoved
    PROVE  GateInv'
<1> USE DEF GateInv
<1> DEFINE n == Head(toBot).nick
<1>1. n \in Nick /\ toBot' \in Seq(Line) /\ UNCHANGED serverVars
  BY ReadsProperties, LineKinds DEF ReadMoved, Moved
<1>2. /\ verified' = verified \ {n}
      /\ whois_pending' = whois_pending \ {n}
      /\ dm_flush(n, verified, "reset")
      /\ UNCHANGED <<toServer, rejectVars>>
  BY DEF ReadMoved, trust_reset
<1> HIDE DEF n
<1>3. QED
  BY <1>1, <1>2, FlushProperties DEF TypeOK, TableBounded, HeldAwaitsWhois, serverVars,
     RejectTypeOK, rejectVars, Fate

\* INVITE and a channel's PRIVMSG: the verdict may fire a WHOIS.
LEMMA ReadJudgedSafe ==
    ASSUME GateInv, ReadInvite \/ ReadChannelLine
    PROVE  GateInv'
<1> USE DEF GateInv
<1> DEFINE l == Head(toBot)
<1>1. l \in Spoken /\ toBot' \in Seq(Line) /\ UNCHANGED serverVars
  BY ReadsProperties, LineKinds DEF ReadInvite, ReadChannelLine
<1>2. PICK fate \in Fate : events' = Append(events, Ended(l, fate))
  BY DEF ReadInvite, ReadChannelLine, Fate
<1>3. FireWhois(l.nick, l.host) /\ UNCHANGED <<verified, dm_held, rejectVars>>
  BY DEF ReadInvite, ReadChannelLine
<1> HIDE DEF l
<1>4. l.nick \in Nick /\ Ended(l, fate) \in Event
  BY <1>1, EndedType DEF Spoken
<1>5. events' \in Seq(Event)
  BY <1>2, <1>4, AppendProperties DEF TypeOK
<1>6. QED
  BY <1>1, <1>3, <1>4, <1>5, FireWhoisProperties DEF TypeOK, TableBounded, HeldAwaitsWhois,
     serverVars, RejectTypeOK, rejectVars

\* A private message from a stranger, shown or blocked.
LEMMA ReadStrangerDmSafe ==
    ASSUME GateInv, ReadAllowedDm \/ ReadBlockedDm
    PROVE  GateInv'
<1> USE DEF GateInv
<1> DEFINE l == Head(toBot)
<1>1. l \in Spoken /\ toBot' \in Seq(Line) /\ UNCHANGED serverVars
  BY ReadsProperties, LineKinds DEF ReadAllowedDm, ReadBlockedDm
<1>2. PICK fate \in Fate : events' = Append(events, Ended(l, fate))
  BY DEF ReadAllowedDm, ReadBlockedDm, Fate
<1>3. UNCHANGED <<gateVars, toServer>> /\ (DmRejectOnce(l.nick) \/ UNCHANGED rejectVars)
  BY DEF ReadAllowedDm, ReadBlockedDm
<1> HIDE DEF l
<1>4. l.nick \in Nick /\ Ended(l, fate) \in Event
  BY <1>1, EndedType DEF Spoken
<1>5. events' \in Seq(Event)
  BY <1>2, <1>4, AppendProperties DEF TypeOK
<1>6. RejectTypeOK' /\ TableBounded'
  BY <1>3, <1>4, DmRejectOnceSafe DEF TypeOK, RejectTypeOK, TableBounded, rejectVars
<1>7. QED
  BY <1>1, <1>3, <1>5, <1>6 DEF TypeOK, HeldAwaitsWhois, serverVars, gateVars

\* A private message parked: its WHOIS is awaited, and the nick unverified.
LEMMA ReadUnverifiedDmSafe ==
    ASSUME GateInv, ReadUnverifiedDm
    PROVE  GateInv'
<1> USE DEF GateInv
<1> DEFINE l == Head(toBot)
<1>1. l \in Spoken /\ toBot' \in Seq(Line) /\ UNCHANGED serverVars
  BY ReadsProperties, LineKinds DEF ReadUnverifiedDm
<1>2. /\ Verdict(l.nick, l.host) = "pending-whois"
      /\ FireWhois(l.nick, l.host)
      /\ dm_hold(l)
      /\ UNCHANGED <<verified, rejectVars>>
  BY DEF ReadUnverifiedDm
<1> HIDE DEF l
<1>3. l.nick \in Nick
  BY <1>1 DEF Spoken
<1>4. l.nick \notin verified
  BY <1>2 DEF Verdict
<1>5. /\ whois_pending' \subseteq Nick /\ whois_pending \subseteq whois_pending'
      /\ l.nick \in whois_pending' /\ toServer' \in Seq(Nick)
  BY <1>2, <1>3, FireWhoisProperties
<1>6. /\ dm_held' \in [Nick -> Seq(Spoken)] /\ Len(dm_held'[l.nick]) <= DM_HOLD_MAX
      /\ \A m \in Nick : m # l.nick => dm_held'[m] = dm_held[m]
      /\ events' \in Seq(Event)
  BY <1>1, <1>2, HoldProperties
<1>7. HeldAwaitsWhois'
  BY <1>2, <1>3, <1>4, <1>5, <1>6 DEF HeldAwaitsWhois
<1>8. QED
  BY <1>1, <1>2, <1>5, <1>6, <1>7 DEF TypeOK, TableBounded, serverVars, RejectTypeOK, rejectVars

\* A private message of a verified nick.
LEMMA ReadTrustedDmSafe ==
    ASSUME GateInv, ReadTrustedDm
    PROVE  GateInv'
<1> USE DEF GateInv
<1> DEFINE l == Head(toBot)
<1>1. l \in Spoken /\ toBot' \in Seq(Line) /\ UNCHANGED serverVars
  BY ReadsProperties, LineKinds DEF ReadTrustedDm
<1>2. /\ events' = Append(events, Ended(l, "TRUSTED"))
      /\ UNCHANGED <<gateVars, toServer, rejectVars>>
  BY DEF ReadTrustedDm
<1> HIDE DEF l
<1>3. events' \in Seq(Event)
  BY <1>1, <1>2, EndedType, AppendProperties DEF TypeOK, Fate
<1>4. QED
  BY <1>1, <1>2, <1>3 DEF TypeOK, TableBounded, HeldAwaitsWhois, serverVars, gateVars,
     RejectTypeOK, rejectVars

-----------------------------------------------------------------------------
(* The steps of the users, the server, the operator and the clock.         *)

\* The lines the other end sends are lines.
LEMMA SentLines ==
    ASSUME NEW n \in Nick
    PROVE  /\ \A cmd \in {"PART", "QUIT", "NICK"} : [cmd |-> cmd, nick |-> n] \in Line
           /\ \A cmd \in {"307", "330", "318"} : [cmd |-> cmd, nick |-> n] \in Line
           /\ \A cmd \in {"dm", "channel", "invite"}, h \in Host, i, t \in Nat, b \in BOOLEAN :
                 [cmd |-> cmd, nick |-> n, host |-> h, id |-> i, tenure |-> t,
                  identified |-> b] \in Line
  BY DEF Line, Spoken, Reply, Moved

LEMMA NoHostType == NoHost \in Host
  BY TrustAssumption DEF NoHost

\* A user's step changes the server's state and adds to the wire.
LEMMA UsersType ==
    ASSUME TypeOK, Users
    PROVE  /\ holder' \in [Nick -> Nat] /\ hostOf' \in [Nick -> Host] /\ proved' \subseteq Nat
           /\ tenures' \in Nat /\ said' \in Nat /\ extras' \in Nat
           /\ toBot' \in Seq(Line)
           /\ toBot' = toBot \/ \E l \in Line : toBot' = Append(toBot, l)
           /\ botIdle /\ UNCHANGED toServer
<1> USE DEF TypeOK
<1>1. ASSUME NEW n \in Nick, NEW h \in Host, Connect(n, h)
      PROVE  /\ holder' \in [Nick -> Nat] /\ hostOf' \in [Nick -> Host]
             /\ UNCHANGED <<proved, said, extras, toBot>> /\ tenures' \in Nat
             /\ botIdle /\ UNCHANGED toServer
  BY <1>1 DEF Connect
<1>2. ASSUME NEW n \in Nick, Identify(n)
      PROVE  /\ UNCHANGED <<holder, hostOf, tenures, said, extras, toBot>>
             /\ proved' \subseteq Nat
             /\ botIdle /\ UNCHANGED toServer
  BY <1>2 DEF Identify
<1>3. ASSUME NEW n \in Nick, Quit(n)
      PROVE  /\ holder' \in [Nick -> Nat] /\ hostOf' \in [Nick -> Host]
             /\ UNCHANGED <<proved, tenures, said, extras>>
             /\ toBot' = toBot \/ toBot' = Append(toBot, [cmd |-> "QUIT", nick |-> n])
             /\ botIdle /\ UNCHANGED toServer
  BY <1>3, NoHostType DEF Quit, Hears
<1>4. ASSUME NEW n \in Nick, Part(n)
      PROVE  /\ UNCHANGED <<holder, hostOf, proved, tenures, said>> /\ extras' \in Nat
             /\ toBot' = Append(toBot, [cmd |-> "PART", nick |-> n])
             /\ botIdle /\ UNCHANGED toServer
  BY <1>4 DEF Part
<1>5. ASSUME NEW a \in Nick, NEW b \in Nick, Rename(a, b)
      PROVE  /\ holder' \in [Nick -> Nat] /\ hostOf' \in [Nick -> Host]
             /\ UNCHANGED <<proved, said, extras>> /\ tenures' \in Nat
             /\ toBot' = toBot \/ toBot' = Append(toBot, [cmd |-> "NICK", nick |-> a])
             /\ botIdle /\ UNCHANGED toServer
  <2>1. /\ holder' = [holder EXCEPT ![a] = 0, ![b] = tenures + 1]
        /\ hostOf' = [hostOf EXCEPT ![a] = NoHost, ![b] = hostOf[a]]
        /\ UNCHANGED <<proved, said, extras>> /\ tenures' = tenures + 1
        /\ botIdle /\ UNCHANGED toServer
    BY <1>5 DEF Rename
  <2>2. toBot' = toBot \/ toBot' = Append(toBot, [cmd |-> "NICK", nick |-> a])
    BY <1>5 DEF Rename, Hears
  <2>3. holder' \in [Nick -> Nat] /\ tenures' \in Nat
    <3> DEFINE left == [holder EXCEPT ![a] = 0]
    <3>1. tenures + 1 \in Nat /\ left \in [Nick -> Nat]
      OBVIOUS
    <3>2. holder' = [left EXCEPT ![b] = tenures + 1]
      BY <2>1
    <3> HIDE DEF left
    <3>3. QED
      BY <2>1, <3>1, <3>2
  <2>4. hostOf' \in [Nick -> Host]
    BY <2>1, NoHostType
  <2>5. QED
    BY <2>1, <2>2, <2>3, <2>4
<1>6. ASSUME NEW n \in Nick, NEW cmd \in {"dm", "channel", "invite"}, Say(n, cmd)
      PROVE  /\ UNCHANGED <<holder, hostOf, proved, tenures, extras>> /\ said' \in Nat
             /\ \E l \in Line : toBot' = Append(toBot, l)
             /\ botIdle /\ UNCHANGED toServer
  <2>1. /\ hostOf[n] \in Host /\ holder[n] \in Nat /\ said + 1 \in Nat
        /\ (holder[n] \in proved) \in BOOLEAN
    OBVIOUS
  <2>2. [cmd |-> cmd, nick |-> n, host |-> hostOf[n], id |-> said + 1,
         tenure |-> holder[n], identified |-> holder[n] \in proved] \in Line
    BY <2>1, SentLines
  <2>3. QED
    BY <1>6, <2>2 DEF Say
<1>7. \A n \in Nick : /\ [cmd |-> "QUIT", nick |-> n] \in Line
                      /\ [cmd |-> "PART", nick |-> n] \in Line
                      /\ [cmd |-> "NICK", nick |-> n] \in Line
  BY SentLines
<1>8. \A l \in Line : Append(toBot, l) \in Seq(Line)
  BY AppendProperties
<1>9. QED
  BY <1>1, <1>2, <1>3, <1>4, <1>5, <1>6, <1>7, <1>8, TrustAssumption, ZenonT(30) DEF Users

\* The server's answer to a WHOIS: the last line says it is over.
LEMMA AnswerWhoisType ==
    ASSUME TypeOK, AnswerWhois
    PROVE  /\ toServer # << >> /\ Head(toServer) \in Nick
           /\ toServer' = Tail(toServer) /\ toServer' \in Seq(Nick)
           /\ \E burst \in Seq(Line) :
                 /\ toBot' = toBot \o burst
                 /\ Contains(burst, [cmd |-> "318", nick |-> Head(toServer)])
           /\ toBot' \in Seq(Line)
           /\ botIdle /\ UNCHANGED serverVars
<1> DEFINE n == Head(toServer)
           end == [cmd |-> "318", nick |-> n]
           ident == [cmd |-> IdentReply, nick |-> n]
<1>1. /\ toServer # << >> /\ n \in Nick
      /\ toServer' = Tail(toServer) /\ toServer' \in Seq(Nick)
  BY HeadTailProperties DEF AnswerWhois, TypeOK
<1>2. end \in Line /\ ident \in Line
  BY <1>1, SentLines, TrustAssumption
<1>3. \/ toBot' = toBot \o <<ident, end>>
      \/ toBot' = Append(toBot, end)
  BY DEF AnswerWhois
<1>4. botIdle /\ UNCHANGED serverVars
  BY DEF AnswerWhois
<1> HIDE DEF n, end, ident
<1>5. Append(toBot, end) = toBot \o <<end>>
  BY <1>2, AppendIsConcat DEF TypeOK
<1>6. /\ <<end>> \in Seq(Line) /\ Contains(<<end>>, end)
      /\ <<ident, end>> \in Seq(Line) /\ Contains(<<ident, end>>, end)
  <2>1. Len(<<end>>) = 1 /\ <<end>>[1] = end
    OBVIOUS
  <2>2. Len(<<ident, end>>) = 2 /\ <<ident, end>>[2] = end
    OBVIOUS
  <2>3. QED
    BY <1>2, <2>1, <2>2 DEF Contains
<1>7. PICK burst \in Seq(Line) : toBot' = toBot \o burst /\ Contains(burst, end)
  BY <1>3, <1>5, <1>6
<1>8. toBot' \in Seq(Line)
  BY <1>7, ConcatProperties DEF TypeOK
<1>9. end = [cmd |-> "318", nick |-> Head(toServer)]
  BY DEF end, n
<1>10. QED
  BY <1>1, <1>4, <1>7, <1>8, <1>9 DEF n

-----------------------------------------------------------------------------
(* The invariant, for every step.                                          *)

LEMMA GateInvInit ==
    ASSUME Init
    PROVE  GateInv
<1>1. RejectTypeOK /\ TableBounded
  BY RejectInitSafe DEF Init
<1>2. toBot \in Seq(Line)
  BY DEF Init, Line
<1>3. QED
  BY <1>1, <1>2, NoHostType DEF Init, GateInv, TypeOK, HeldAwaitsWhois

LEMMA GateInvStep ==
    ASSUME GateInv, [Next]_vars
    PROVE  GateInv'
<1> USE DEF GateInv
<1>1. CASE handle_server_line
  BY <1>1, ReadWelcomeSafe, ReadIdentifiedSafe, ReadEndOfWhoisSafe, ReadMovedSafe,
     ReadJudgedSafe, ReadStrangerDmSafe, ReadUnverifiedDmSafe, ReadTrustedDmSafe
     DEF handle_server_line
<1>2. CASE AnswerWhois
  BY <1>2, AnswerWhoisType DEF TypeOK, TableBounded, HeldAwaitsWhois, botIdle, gateVars,
     serverVars, RejectTypeOK, rejectVars
<1>3. CASE Users
  BY <1>3, UsersType DEF TypeOK, TableBounded, HeldAwaitsWhois, botIdle, gateVars,
     RejectTypeOK, rejectVars
<1>4. ASSUME NEW n \in Nick, OperatorWhois(n)
      PROVE  GateInv'
  <2>1. toServer' \in Seq(Nick) /\ extras' \in Nat
    BY <1>4, AppendProperties DEF OperatorWhois, TypeOK
  <2>2. QED
    BY <1>4, <2>1 DEF OperatorWhois, TypeOK, TableBounded, HeldAwaitsWhois, gateVars,
       RejectTypeOK, rejectVars
<1>5. CASE Clock
  <2>1. RejectTypeOK' /\ TableBounded'
    BY <1>5, CooldownOverSafe DEF Clock, TypeOK
  <2>2. QED
    BY <1>5, <2>1 DEF Clock, TypeOK, HeldAwaitsWhois, gateVars, serverVars
<1>6. CASE UNCHANGED vars
  BY <1>6 DEF vars, TypeOK, TableBounded, HeldAwaitsWhois, gateVars, serverVars,
     RejectTypeOK, rejectVars
<1>7. QED
  BY <1>1, <1>2, <1>3, <1>4, <1>5, <1>6 DEF Next

(* The types of the gate's state, for every instance.                      *)
THEOREM TypeCorrect == Spec => []TypeOK
<1>1. Init => GateInv
  BY GateInvInit
<1>2. GateInv /\ [Next]_vars => GateInv'
  BY GateInvStep
<1>3. GateInv => TypeOK
  BY DEF GateInv
<1>4. QED
  BY <1>1, <1>2, <1>3, PTL DEF Spec

(* Nothing stays parked past its WHOIS: a private message is held only     *)
(* while its nick is awaited and unverified, DM_HOLD_MAX at the most.      *)
THEOREM HeldAlwaysAwaitsWhois == Spec => []HeldAwaitsWhois
<1>1. Init => GateInv
  BY GateInvInit
<1>2. GateInv /\ [Next]_vars => GateInv'
  BY GateInvStep
<1>3. GateInv => HeldAwaitsWhois
  BY DEF GateInv
<1>4. QED
  BY <1>1, <1>2, <1>3, PTL DEF Spec

-----------------------------------------------------------------------------
(* Nobody is awaited in vain.                                              *)

\* What a sequence contains stays when another is put after it.
LEMMA ContainsConcat ==
    ASSUME NEW S, NEW s \in Seq(S), NEW t \in Seq(S), NEW e,
           Contains(s, e) \/ Contains(t, e)
    PROVE  Contains(s \o t, e)
<1>1. /\ s \o t \in Seq(S) /\ Len(s \o t) = Len(s) + Len(t)
      /\ Len(s) \in Nat /\ Len(t) \in Nat
      /\ \A i \in 1 .. Len(s) + Len(t) :
            (s \o t)[i] = IF i <= Len(s) THEN s[i] ELSE t[i - Len(s)]
  BY ConcatProperties
<1>2. CASE Contains(s, e)
  <2>1. PICK i \in 1 .. Len(s) : s[i] = e
    BY <1>2 DEF Contains
  <2>2. i \in 1 .. Len(s) + Len(t) /\ (s \o t)[i] = e
    BY <1>1, <2>1
  <2>3. QED
    BY <1>1, <2>2 DEF Contains
<1>3. CASE Contains(t, e)
  <2>1. PICK i \in 1 .. Len(t) : t[i] = e
    BY <1>3 DEF Contains
  <2>2. Len(s) + i \in 1 .. Len(s) + Len(t) /\ (s \o t)[Len(s) + i] = t[Len(s) + i - Len(s)]
    BY <1>1, <2>1
  <2>3. Len(s) + i - Len(s) = i
    BY <1>1, <2>1
  <2>4. QED
    BY <1>1, <2>1, <2>2, <2>3 DEF Contains
<1>4. QED
  BY <1>2, <1>3

\* The same, one element at a time; and the element added is there.
LEMMA ContainsAppend ==
    ASSUME NEW S, NEW s \in Seq(S), NEW e \in S
    PROVE  /\ Contains(Append(s, e), e)
           /\ \A x : Contains(s, x) => Contains(Append(s, e), x)
  BY AppendProperties DEF Contains

\* What a sequence contains, except for its head, its tail contains.
LEMMA ContainsTail ==
    ASSUME NEW S, NEW s \in Seq(S), NEW e, Contains(s, e), Head(s) # e
    PROVE  Contains(Tail(s), e)
<1>1. PICK i \in 1 .. Len(s) : s[i] = e
  BY DEF Contains
<1>2. s # << >> /\ i # 1
  BY <1>1
<1>3. Len(Tail(s)) = Len(s) - 1 /\ \A k \in 1 .. Len(Tail(s)) : Tail(s)[k] = s[k + 1]
  BY <1>2, HeadTailProperties
<1>4. i - 1 \in 1 .. Len(Tail(s)) /\ (i - 1) + 1 = i
  BY <1>1, <1>2, <1>3
<1>5. Tail(s)[i - 1] = e
  BY <1>1, <1>3, <1>4
<1>6. QED
  BY <1>4, <1>5 DEF Contains

EndOf(n) == [cmd |-> "318", nick |-> n]

\* A line read takes no 318 off the wire, but the one it is.
LEMMA ReadsKeepsEnds ==
    ASSUME TypeOK, NEW cmds, Reads(cmds), NEW n \in Nick,
           Contains(toBot, EndOf(n)),
           Head(toBot).cmd # "318" \/ Head(toBot).nick # n
    PROVE  Contains(toBot', EndOf(n))
<1>1. toBot \in Seq(Line) /\ toBot' = Tail(toBot)
  BY DEF TypeOK, Reads
<1>2. Head(toBot) # EndOf(n)
  BY DEF EndOf
<1>3. QED
  BY <1>1, <1>2, ContainsTail

\* Whatever the line read, each nick still awaited has its answer on the way.
LEMMA ReaderKeepsAnswers ==
    ASSUME GateInv, AnswerUnderWay, handle_server_line
    PROVE  AnswerUnderWay'
<1> USE DEF GateInv, EndOf
<1>1. AnswerUnderWay <=> \A n \in whois_pending : Contains(toServer, n) \/ Contains(toBot, EndOf(n))
  BY DEF AnswerUnderWay
<1> HIDE DEF EndOf
<1>2. whois_pending \subseteq Nick /\ toServer \in Seq(Nick)
  BY DEF TypeOK
<1>3. CASE ReadWelcome
  <2>1. [i \in 1 .. Len(Rules) |-> Rules[i].nick] \in Seq(Nick)
    <3> DEFINE Rule == [nick : Nick, glob : SUBSET Host]
    <3>1. Rules \in Seq(Rule)
      BY TrustAssumption
    <3>2. \A r \in Rule : r.nick \in Nick
      OBVIOUS
    <3> HIDE DEF Rule
    <3>3. \A i \in 1 .. Len(Rules) : Rules[i].nick \in Nick
      BY <3>1, <3>2
    <3>4. QED
      BY <3>1, <3>3, IsASeq
  <2> DEFINE asked == [i \in 1 .. Len(Rules) |-> Rules[i].nick]
  <2>2. /\ whois_pending' = whois_pending \cup {Rules[i].nick : i \in DOMAIN Rules}
        /\ toServer' = toServer \o asked
        /\ Reads({"001"}) /\ Head(toBot).cmd = "001"
    BY <1>3 DEF ReadWelcome, Reads
  <2>3. \A i \in DOMAIN Rules : Contains(asked, Rules[i].nick)
    <3>1. DOMAIN Rules = 1 .. Len(Rules) /\ Len(Rules) \in Nat
      BY TrustAssumption
    <3>2. Len(asked) = Len(Rules) /\ \A i \in 1 .. Len(Rules) : asked[i] = Rules[i].nick
      BY <3>1
    <3>3. QED
      BY <3>1, <3>2 DEF Contains
  <2> HIDE DEF asked
  <2>4. ASSUME NEW n \in whois_pending' PROVE Contains(toServer', n) \/ Contains(toBot', EndOf(n))
    <3>1. CASE n \in whois_pending /\ Contains(toBot, EndOf(n))
      BY <1>2, <2>2, <3>1, ReadsKeepsEnds
    <3>2. CASE Contains(toServer, n) \/ Contains(asked, n)
      BY <1>2, <2>1, <2>2, <3>2, ContainsConcat DEF asked
    <3>3. QED
      BY <1>1, <2>2, <2>3, <2>4, <3>1, <3>2
  <2>5. QED
    BY <2>4 DEF AnswerUnderWay, EndOf
<1>4. CASE ReadIdentified \/ ReadEndOfWhois \/ ReadMoved
  <2>1. PICK cmds : Reads(cmds)
    BY <1>4 DEF ReadIdentified, ReadEndOfWhois, ReadMoved
  <2>2. /\ toServer' = toServer /\ whois_pending' = whois_pending \ {Head(toBot).nick}
    BY <1>4 DEF ReadIdentified, ReadEndOfWhois, ReadMoved, trust_reset
  <2>3. ASSUME NEW n \in whois_pending' PROVE Contains(toServer', n) \/ Contains(toBot', EndOf(n))
    BY <1>1, <1>2, <2>1, <2>2, <2>3, ReadsKeepsEnds
  <2>4. QED
    BY <2>3 DEF AnswerUnderWay, EndOf
<1>5. CASE ReadInvite \/ ReadChannelLine \/ ReadUnverifiedDm
  <2> DEFINE l == Head(toBot)
  <2>1. PICK cmds \in SUBSET {"dm", "channel", "invite"} : Reads(cmds)
    BY <1>5 DEF ReadInvite, ReadChannelLine, ReadUnverifiedDm
  <2>2. l \in Spoken /\ l.cmd # "318"
    BY <2>1, ReadsProperties, LineKinds
  <2>3. FireWhois(l.nick, l.host)
    BY <1>5 DEF ReadInvite, ReadChannelLine, ReadUnverifiedDm
  <2>4. l.nick \in Nick
    BY <2>2 DEF Spoken
  <2>5. \/ whois_pending' = whois_pending \cup {l.nick} /\ toServer' = Append(toServer, l.nick)
        \/ whois_pending' = whois_pending /\ toServer' = toServer
    BY <2>3 DEF FireWhois
  <2>6. ASSUME NEW n \in whois_pending' PROVE Contains(toServer', n) \/ Contains(toBot', EndOf(n))
    <3>1. CASE n \in whois_pending /\ Contains(toBot, EndOf(n))
      BY <1>2, <2>1, <2>2, <3>1, ReadsKeepsEnds
    <3>2. CASE n \in whois_pending /\ Contains(toServer, n)
      BY <1>2, <2>4, <2>5, <3>2, ContainsAppend
    <3>3. CASE n \notin whois_pending
      <4>1. n = l.nick /\ toServer' = Append(toServer, l.nick)
        BY <2>5, <2>6, <3>3
      <4>2. QED
        BY <1>2, <2>4, <4>1, ContainsAppend
    <3>4. QED
      BY <1>1, <3>1, <3>2, <3>3
  <2>7. QED
    BY <2>6 DEF AnswerUnderWay, EndOf
<1>6. CASE ReadAllowedDm \/ ReadBlockedDm \/ ReadTrustedDm
  <2>1. Reads({"dm"}) /\ UNCHANGED <<whois_pending, toServer>>
    BY <1>6 DEF ReadAllowedDm, ReadBlockedDm, ReadTrustedDm, gateVars
  <2>2. Head(toBot).cmd # "318"
    BY <2>1 DEF Reads
  <2>3. ASSUME NEW n \in whois_pending' PROVE Contains(toServer', n) \/ Contains(toBot', EndOf(n))
    BY <1>1, <1>2, <2>1, <2>2, <2>3, ReadsKeepsEnds
  <2>4. QED
    BY <2>3 DEF AnswerUnderWay, EndOf
<1>7. QED
  BY <1>3, <1>4, <1>5, <1>6 DEF handle_server_line

\* Neither does any other step leave a nick without its answer.
LEMMA AnswerUnderWayStep ==
    ASSUME GateInv, AnswerUnderWay, [Next]_vars
    PROVE  AnswerUnderWay'
<1> USE DEF GateInv
<1>1. whois_pending \subseteq Nick /\ toServer \in Seq(Nick) /\ toBot \in Seq(Line)
  BY DEF TypeOK
<1>2. CASE handle_server_line
  BY <1>2, ReaderKeepsAnswers
<1>3. CASE AnswerWhois
  <2>1. PICK burst \in Seq(Line) :
            toBot' = toBot \o burst /\ Contains(burst, EndOf(Head(toServer)))
    BY <1>3, AnswerWhoisType DEF EndOf
  <2>2. toServer # << >> /\ toServer' = Tail(toServer) /\ UNCHANGED whois_pending
    BY <1>3, AnswerWhoisType DEF botIdle, gateVars
  <2>3. ASSUME NEW n \in whois_pending'
        PROVE  Contains(toServer', n) \/ Contains(toBot', EndOf(n))
    <3>1. CASE Contains(toBot, EndOf(n)) \/ n = Head(toServer)
      BY <1>1, <2>1, <3>1, ContainsConcat
    <3>2. CASE Contains(toServer, n) /\ n # Head(toServer)
      BY <1>1, <2>2, <3>2, ContainsTail
    <3>3. QED
      BY <2>2, <2>3, <3>1, <3>2 DEF AnswerUnderWay, EndOf
  <2>4. QED
    BY <2>3 DEF AnswerUnderWay, EndOf
<1>4. CASE Users
  <2>1. /\ UNCHANGED <<toServer, whois_pending>>
        /\ toBot' = toBot \/ \E l \in Line : toBot' = Append(toBot, l)
    BY <1>4, UsersType DEF botIdle, gateVars
  <2>2. ASSUME NEW x, Contains(toBot, x) PROVE Contains(toBot', x)
    <3>1. CASE toBot' = toBot
      BY <2>2, <3>1
    <3>2. ASSUME NEW l \in Line, toBot' = Append(toBot, l) PROVE Contains(toBot', x)
      <4>1. Contains(Append(toBot, l), x)
        BY <1>1, <2>2, ContainsAppend
      <4>2. QED
        BY <3>2, <4>1
    <3>3. QED
      BY <2>1, <3>1, <3>2
  <2>3. QED
    BY <2>1, <2>2 DEF AnswerUnderWay
<1>5. ASSUME NEW n \in Nick, OperatorWhois(n)
      PROVE  AnswerUnderWay'
  <2>1. /\ toServer' = Append(toServer, n)
        /\ UNCHANGED <<toBot, whois_pending>>
    BY <1>5 DEF OperatorWhois, gateVars
  <2>2. \A x : Contains(toServer, x) => Contains(toServer', x)
    BY <1>1, <2>1, ContainsAppend
  <2>3. QED
    BY <2>1, <2>2 DEF AnswerUnderWay
<1>6. CASE Clock \/ UNCHANGED vars
  BY <1>6 DEF Clock, vars, gateVars, AnswerUnderWay
<1>7. QED
  BY <1>2, <1>3, <1>4, <1>5, <1>6 DEF Next

(* A nick is never awaited in vain: as long as it is in whois_pending, its *)
(* WHOIS or the 318 that ends it is on its way.                            *)
THEOREM AnswerAlwaysUnderWay == Spec => []AnswerUnderWay
<1>1. Init => GateInv /\ AnswerUnderWay
  BY GateInvInit DEF Init, AnswerUnderWay
<1>2. (GateInv /\ AnswerUnderWay) /\ [Next]_vars => (GateInv /\ AnswerUnderWay)'
  BY GateInvStep, AnswerUnderWayStep
<1>3. QED
  BY <1>1, <1>2, PTL DEF Spec
=============================================================================
