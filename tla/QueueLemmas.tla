---------------------------- MODULE QueueLemmas ----------------------------
(***************************************************************************)
(* Lemmas about queues: induction over them, Count, For and the sequence   *)
(* that SetToSeq makes of a set.  What holds of every sequence is proved    *)
(* by the least length at which it would fail.                             *)
(***************************************************************************)
EXTENDS Queues, SequencesExt, SequenceTheorems, FunctionTheorems,
        FiniteSetTheorems, WellFoundedInduction, TLAPS

-----------------------------------------------------------------------------
(* Induction.                                                               *)

(* Every non-empty set of naturals has a least element.                     *)
LEMMA Least ==
    ASSUME NEW T \in SUBSET Nat, T # {}
    PROVE  \E x \in T : \A y \in T : x <= y
  <1> DEFINE R == OpToRel(<, Nat)
  <1>1. \A x, y \in Nat : <<y, x>> \in R <=> y < x
    BY DEF OpToRel
  <1>2. IsWellFoundedOn(R, Nat)
    BY NatLessThanWellFounded
  <1> HIDE DEF R
  <1>3. PICK x \in T : \A y \in T : ~ (<<y, x>> \in R)
    BY <1>2, WFMin
  <1>4. ASSUME NEW y \in T PROVE x <= y
    <2>1. x \in Nat /\ y \in Nat /\ ~ (<<y, x>> \in R)
      BY <1>3
    <2>2. ~ (y < x)
      BY <1>1, <2>1
    <2> QED
      BY <2>1, <2>2
  <1> QED
    BY <1>4

(* A set of naturals that holds 0 and is closed under successor is Nat.     *)
LEMMA Induct ==
    ASSUME NEW T \in SUBSET Nat, 0 \in T, \A n \in T : n + 1 \in T
    PROVE  T = Nat
  <1> DEFINE U == Nat \ T
  <1> SUFFICES ASSUME U # {} PROVE FALSE
    OBVIOUS
  <1>1. U \in SUBSET Nat
    OBVIOUS
  <1>2. PICK x \in U : \A y \in U : x <= y
    <2> HIDE DEF U
    <2> QED
      BY <1>1, Least
  <1>3. x # 0 /\ x - 1 \in Nat /\ (x - 1) + 1 = x
    BY <1>2
  <1>4. x - 1 \in T
    BY <1>2, <1>3
  <1> QED
    BY <1>2, <1>3, <1>4

(* A set of sequences that holds the empty one and is closed under Append   *)
(* holds every sequence.                                                    *)
LEMMA SeqInduct ==
    ASSUME NEW S, NEW T \in SUBSET Seq(S),
           <<>> \in T, \A s \in T, x \in S : Append(s, x) \in T
    PROVE  T = Seq(S)
  <1> DEFINE N == {n \in Nat : \A s \in Seq(S) : Len(s) = n => s \in T}
  <1>1. 0 \in N
    BY EmptySeq
  <1>2. ASSUME NEW n \in N PROVE n + 1 \in N
    <2> SUFFICES ASSUME NEW s \in Seq(S), Len(s) = n + 1 PROVE s \in T
      OBVIOUS
    <2>1. s # <<>>
      BY EmptySeq
    <2>2. PICK r \in Seq(S), x \in S : s = Append(r, x)
      BY <2>1, SequenceEmptyOrAppend
    <2>3. Len(r) = n
      BY <2>2, AppendProperties, LenProperties
    <2> QED
      BY <2>2, <2>3
  <1>3. N = Nat
    <2>1. N \in SUBSET Nat
      OBVIOUS
    <2> HIDE DEF N
    <2> QED
      BY <1>1, <1>2, <2>1, Induct
  <1>4. \A s \in Seq(S) : Len(s) \in N
    BY <1>3, LenProperties
  <1> QED
    BY <1>4

(* The laws of concatenation that carry a message from one part of a pipe   *)
(* to the next.                                                             *)
LEMMA Assoc ==
    ASSUME NEW S
    PROVE  /\ \A a, b, c \in Seq(S) : (a \o b) \o c = a \o (b \o c)
           /\ \A a, b \in Seq(S) : a \o b \in Seq(S)
           /\ \A a \in Seq(S) : a \o <<>> = a /\ <<>> \o a = a
           /\ \A a \in Seq(S), x \in S : Append(a, x) = a \o <<x>> /\ <<x>> \in Seq(S)
  <1>1. \A a, b, c \in Seq(S) : (a \o b) \o c = a \o (b \o c)
    BY ConcatAssociative
  <1>2. \A a, b \in Seq(S) : a \o b \in Seq(S)
    BY ConcatProperties
  <1>3. \A a \in Seq(S) : a \o <<>> = a /\ <<>> \o a = a
    BY ConcatEmptySeq
  <1>4. \A a \in Seq(S), x \in S : Append(a, x) = a \o <<x>> /\ <<x>> \in Seq(S)
    BY AppendIsConcat
  <1> QED
    BY <1>1, <1>2, <1>3, <1>4

-----------------------------------------------------------------------------
(* Lemmas about counting in sequences.                                      *)

(* The places of an element in a sequence are finitely many.                *)
LEMMA CountType ==
    ASSUME NEW S, NEW s \in Seq(S), NEW e
    PROVE  /\ IsFiniteSet({i \in DOMAIN s : s[i] = e})
           /\ Count(e, s) \in Nat
  <1>1. DOMAIN s = 1..Len(s) /\ Len(s) \in Nat
    BY LenProperties
  <1>2. IsFiniteSet(1..Len(s))
    BY <1>1, FS_Interval
  <1>3. IsFiniteSet({i \in DOMAIN s : s[i] = e})
    BY <1>1, <1>2, FS_Subset
  <1> QED
    BY <1>3, FS_CardinalityType DEF Count

(* What is in a sequence is counted there.                                  *)
LEMMA CountSome ==
    ASSUME NEW S, NEW s \in Seq(S), NEW i \in 1..Len(s)
    PROVE  Count(s[i], s) # 0
  <1> DEFINE A == {j \in DOMAIN s : s[j] = s[i]}
  <1>1. IsFiniteSet(A)
    BY CountType
  <1>2. i \in A
    BY LenProperties
  <1> HIDE DEF A
  <1>3. Cardinality(A) # 0
    BY <1>1, <1>2, FS_EmptySet
  <1> QED
    BY <1>3 DEF A, Count

LEMMA CountEmpty == ASSUME NEW e PROVE Count(e, <<>>) = 0
  <1>1. {i \in DOMAIN <<>> : <<>>[i] = e} = {}
    OBVIOUS
  <1> QED
    BY <1>1, FS_EmptySet DEF Count

(* Sets that a translation takes to each other have as many elements.       *)
LEMMA ShiftCardinality ==
    ASSUME NEW I \in SUBSET Nat, IsFiniteSet(I), NEW n \in Nat
    PROVE  /\ IsFiniteSet({i + n : i \in I})
           /\ Cardinality({i + n : i \in I}) = Cardinality(I)
  <1> DEFINE J == {i + n : i \in I}
             f == [i \in I |-> i + n]
  <1>1. f \in Bijection(I, J)
    <2>1. f \in [I -> J]
      OBVIOUS
    <2>2. \A a, b \in I : f[a] = f[b] => a = b
      OBVIOUS
    <2>3. \A j \in J : \E i \in I : f[i] = j
      OBVIOUS
    <2> QED
      BY <2>1, <2>2, <2>3 DEF Bijection, Injection, Surjection, IsInjective
  <1>2. ExistsBijection(I, J)
    BY <1>1 DEF ExistsBijection
  <1> QED
    BY <1>2, FS_Bijection

LEMMA CountConcat ==
    ASSUME NEW S, NEW s \in Seq(S), NEW t \in Seq(S), NEW e
    PROVE  Count(e, s \o t) = Count(e, s) + Count(e, t)
  <1> DEFINE A == {i \in DOMAIN s : s[i] = e}
             B == {i \in DOMAIN t : t[i] = e}
             C == {i \in DOMAIN (s \o t) : (s \o t)[i] = e}
             J == {i + Len(s) : i \in B}
  <1>1. /\ Len(s) \in Nat /\ DOMAIN s = 1..Len(s)
        /\ Len(t) \in Nat /\ DOMAIN t = 1..Len(t)
    BY LenProperties
  <1>2. /\ s \o t \in Seq(S)
        /\ Len(s \o t) = Len(s) + Len(t)
        /\ \A i \in 1..Len(s) + Len(t) :
              (s \o t)[i] = IF i <= Len(s) THEN s[i] ELSE t[i - Len(s)]
    BY ConcatProperties
  <1>3. DOMAIN (s \o t) = 1..Len(s) + Len(t)
    BY <1>2, LenProperties
  <1>4. C = A \cup J
    <2>1. ASSUME NEW i \in C PROVE i \in A \cup J
      <3>1. CASE i <= Len(s)
        BY <1>1, <1>2, <1>3, <3>1
      <3>2. CASE i > Len(s)
        <4>1. i - Len(s) \in B /\ i = (i - Len(s)) + Len(s)
          BY <1>1, <1>2, <1>3, <3>2
        <4> QED
          BY <4>1
      <3> QED
        BY <1>1, <1>3, <3>1, <3>2
    <2>2. ASSUME NEW i \in A PROVE i \in C
      BY <1>1, <1>2, <1>3
    <2>3. ASSUME NEW k \in B PROVE k + Len(s) \in C
      <3>1. k \in 1..Len(t) /\ t[k] = e
        BY <1>1
      <3>2. k + Len(s) \in 1..Len(s) + Len(t) /\ ~(k + Len(s) <= Len(s))
            /\ (k + Len(s)) - Len(s) = k
        BY <1>1, <3>1
      <3> QED
        BY <1>2, <1>3, <3>1, <3>2
    <2> QED
      BY <2>1, <2>2, <2>3
  <1>5. A \cap J = {}
    BY <1>1
  <1>6. /\ IsFiniteSet(A) /\ Cardinality(A) \in Nat
        /\ IsFiniteSet(B) /\ Cardinality(B) \in Nat
    BY CountType, FS_CardinalityType
  <1>7. IsFiniteSet(J) /\ Cardinality(J) = Cardinality(B)
    <2>1. B \in SUBSET Nat
      BY <1>1
    <2> QED
      BY <1>1, <1>6, <2>1, ShiftCardinality
  <1>8. Count(e, s) = Cardinality(A) /\ Count(e, t) = Cardinality(B)
        /\ Count(e, s \o t) = Cardinality(C)
    BY DEF Count
  <1>9. Cardinality(A \cap J) = 0
    BY <1>5, FS_EmptySet
  <1> HIDE DEF A, B, C, J
  <1>10. Cardinality(A \cup J) = Cardinality(A) + Cardinality(J) - Cardinality(A \cap J)
    BY <1>6, <1>7, FS_Union
  <1> QED
    BY <1>4, <1>6, <1>7, <1>8, <1>9, <1>10

LEMMA CountOne ==
    ASSUME NEW e, NEW f
    PROVE  Count(e, <<f>>) = IF e = f THEN 1 ELSE 0
  <1>1. CASE e = f
    <2>1. {i \in DOMAIN <<f>> : <<f>>[i] = e} = {1}
      BY <1>1
    <2> QED
      BY <1>1, <2>1, FS_Singleton DEF Count
  <1>2. CASE e # f
    <2>1. {i \in DOMAIN <<f>> : <<f>>[i] = e} = {}
      BY <1>2
    <2> QED
      BY <1>2, <2>1, FS_EmptySet DEF Count
  <1> QED
    BY <1>1, <1>2

LEMMA CountAppend ==
    ASSUME NEW S, NEW s \in Seq(S), NEW f \in S, NEW e
    PROVE  Count(e, Append(s, f)) = Count(e, s) + (IF e = f THEN 1 ELSE 0)
  <1>1. Append(s, f) = s \o <<f>> /\ <<f>> \in Seq(S)
    BY AppendIsConcat
  <1>2. Count(e, s \o <<f>>) = Count(e, s) + Count(e, <<f>>)
    BY <1>1, CountConcat
  <1> QED
    BY <1>1, <1>2, CountOne

LEMMA CountHeadTail ==
    ASSUME NEW S, NEW s \in Seq(S), s # <<>>, NEW e
    PROVE  Count(e, s) = (IF e = Head(s) THEN 1 ELSE 0) + Count(e, Tail(s))
  <1>1. /\ Head(s) \in S /\ Tail(s) \in Seq(S)
        /\ <<Head(s)>> \in Seq(S)
        /\ s = <<Head(s)>> \o Tail(s)
    BY HeadTailProperties
  <1>2. Count(e, <<Head(s)>> \o Tail(s)) = Count(e, <<Head(s)>>) + Count(e, Tail(s))
    BY <1>1, CountConcat
  <1> QED
    BY <1>1, <1>2, CountOne

(* A prefix holds an element no more often than the whole.                  *)
LEMMA CountPrefix ==
    ASSUME NEW S, NEW s \in Seq(S), NEW k \in 0..Len(s), NEW e
    PROVE  Count(e, SubSeq(s, 1, k)) <= Count(e, s)
  <1> DEFINE A == {i \in DOMAIN s : s[i] = e}
             B == {i \in DOMAIN SubSeq(s, 1, k) : SubSeq(s, 1, k)[i] = e}
  <1>1. B \subseteq A
    <2>1. Len(s) \in Nat /\ DOMAIN s = 1..Len(s)
      BY LenProperties
    <2>2. DOMAIN SubSeq(s, 1, k) = 1..k
      BY <2>1
    <2>3. \A i \in 1..k : SubSeq(s, 1, k)[i] = s[i]
      BY <2>1
    <2> QED
      BY <2>1, <2>2, <2>3
  <1>2. IsFiniteSet(A)
    BY CountType
  <1> HIDE DEF A, B
  <1>3. Cardinality(B) <= Cardinality(A)
    BY <1>1, <1>2, FS_Subset
  <1> QED
    BY <1>3 DEF Count, A, B

(* What is counted in a sequence is somewhere in it.                        *)
LEMMA CountFind ==
    ASSUME NEW s, NEW e, Count(e, s) # 0
    PROVE  \E i \in DOMAIN s : s[i] = e
  <1>1. CASE {i \in DOMAIN s : s[i] = e} = {}
    BY <1>1, FS_EmptySet DEF Count
  <1> QED
    BY <1>1

(* What is in a concatenation is in one of its parts.                       *)
LEMMA InConcat ==
    ASSUME NEW S, NEW a \in Seq(S), NEW b \in Seq(S), NEW k \in DOMAIN (a \o b)
    PROVE  \/ \E j \in DOMAIN a : a[j] = (a \o b)[k]
           \/ \E j \in DOMAIN b : b[j] = (a \o b)[k]
  <1>1. /\ Len(a) \in Nat /\ DOMAIN a = 1..Len(a)
        /\ Len(b) \in Nat /\ DOMAIN b = 1..Len(b)
        /\ a \o b \in Seq(S) /\ Len(a \o b) = Len(a) + Len(b)
        /\ \A i \in 1..Len(a) + Len(b) :
              (a \o b)[i] = IF i <= Len(a) THEN a[i] ELSE b[i - Len(a)]
    BY LenProperties, ConcatProperties
  <1>2. k \in 1..Len(a) + Len(b)
    BY <1>1, LenProperties
  <1>3. CASE k <= Len(a)
    BY <1>1, <1>2, <1>3
  <1>4. CASE k > Len(a)
    <2>1. k - Len(a) \in DOMAIN b
      BY <1>1, <1>2, <1>4
    <2> QED
      BY <1>1, <1>2, <1>4, <2>1
  <1> QED
    BY <1>1, <1>2, <1>3, <1>4

(* A longer prefix, of a sequence that may have grown at its end.           *)
LEMMA PrefixGrows ==
    ASSUME NEW S, NEW s \in Seq(S), NEW k \in 0..Len(s)
    PROVE  /\ SubSeq(s, 1, k) \in Seq(S) /\ Len(SubSeq(s, 1, k)) = k
           /\ \A i \in 1..k : SubSeq(s, 1, k)[i] = s[i]
           /\ SubSeq(s, 1, Len(s)) = s
           /\ k < Len(s) => SubSeq(s, 1, k + 1) = Append(SubSeq(s, 1, k), s[k + 1])
           /\ \A x \in S : SubSeq(Append(s, x), 1, k) = SubSeq(s, 1, k)
  <1>1. /\ Len(s) \in Nat /\ DOMAIN s = 1..Len(s) /\ k \in Nat
        /\ \A i \in 1..Len(s) : s[i] \in S
    BY LenProperties, ElementOfSeq
  <1>2. /\ SubSeq(s, 1, k) \in Seq(S) /\ Len(SubSeq(s, 1, k)) = k
        /\ \A i \in 1..k : SubSeq(s, 1, k)[i] = s[i]
    BY <1>1
  <1>3. SubSeq(s, 1, Len(s)) = s
    BY SubSeqFull
  <1>4. ASSUME k < Len(s)
        PROVE  SubSeq(s, 1, k + 1) = Append(SubSeq(s, 1, k), s[k + 1])
    BY <1>1, <1>4
  <1>5. ASSUME NEW x \in S PROVE SubSeq(Append(s, x), 1, k) = SubSeq(s, 1, k)
    <2>1. /\ Append(s, x) \in Seq(S) /\ Len(Append(s, x)) = Len(s) + 1
          /\ \A i \in 1..Len(s) : Append(s, x)[i] = s[i]
      BY AppendProperties
    <2> QED
      BY <1>1, <2>1
  <1> QED
    BY <1>2, <1>3, <1>4, <1>5

LEMMA CountLonger ==
    ASSUME NEW S, NEW s \in Seq(S), NEW l \in 0..Len(s), NEW k \in 0..l, NEW e
    PROVE  Count(e, SubSeq(s, 1, k)) <= Count(e, SubSeq(s, 1, l))
  <1> DEFINE t == SubSeq(s, 1, l)
  <1>1. Len(s) \in Nat /\ l \in Nat /\ k \in Nat
    BY LenProperties
  <1>2. t \in Seq(S) /\ Len(t) = l /\ \A i \in 1..l : t[i] = s[i]
    BY PrefixGrows
  <1>3. SubSeq(t, 1, k) = SubSeq(s, 1, k)
    BY <1>1, <1>2
  <1> HIDE DEF t
  <1>4. Count(e, SubSeq(t, 1, k)) <= Count(e, t)
    BY <1>2, CountPrefix
  <1> QED
    BY <1>3, <1>4 DEF t

(* SetToSeq lists each element of a finite set once.                        *)
LEMMA SetToSeqOnce ==
    ASSUME NEW S, IsFiniteSet(S)
    PROVE  /\ SetToSeq(S) \in Seq(S)
           /\ \A e : Count(e, SetToSeq(S)) = IF e \in S THEN 1 ELSE 0
  <1> DEFINE n == Cardinality(S)
             g == SetToSeq(S)
  <1>1. n \in Nat /\ ExistsBijection(1..n, S)
    BY FS_CardinalityType
  <1>2. \E f \in [1..n -> S] : IsInjective(f)
    BY <1>1 DEF ExistsBijection, Bijection, Injection
  <1>3. g \in [1..n -> S] /\ IsInjective(g)
    BY <1>2 DEF SetToSeq
  <1>4. g \in Surjection(1..n, S)
    <2>1. IsFiniteSet(1..n) /\ Cardinality(1..n) = n
      BY <1>1, FS_Interval
    <2>2. g \in Injection(1..n, S)
      BY <1>3 DEF Injection
    <2> QED
      BY <2>1, <2>2, FS_Injection
  <1>5. g \in Seq(S)
    BY <1>1, <1>3, SeqDef
  <1>6. DOMAIN g = 1..n
    BY <1>3
  <1>7. ASSUME NEW e \in S PROVE Count(e, g) = 1
    <2>1. PICK i \in 1..n : g[i] = e
      BY <1>4 DEF Surjection
    <2>2. {j \in DOMAIN g : g[j] = e} = {i}
      BY <1>3, <1>6, <2>1 DEF IsInjective
    <2> QED
      BY <2>2, FS_Singleton DEF Count
  <1>8. ASSUME NEW e, e \notin S PROVE Count(e, g) = 0
    <2>1. {j \in DOMAIN g : g[j] = e} = {}
      BY <1>3, <1>6, <1>8
    <2> QED
      BY <2>1, FS_EmptySet DEF Count
  <1> QED
    BY <1>5, <1>7, <1>8

-----------------------------------------------------------------------------
(* The messages for one perform.                                            *)

(* What the recursion of For computes on the way, for a sequence of length n. *)
Selects(p, s, n, f) ==
    /\ f[0] = <<>>
    /\ \A k \in 1..n :
          f[k] = IF s[k].id = p THEN Append(f[k - 1], s[k]) ELSE f[k - 1]

LEMMA SelectsExists ==
    ASSUME NEW S, NEW s \in Seq(S), NEW p
    PROVE  \E f \in [0..Len(s) -> Seq(S)] : Selects(p, s, Len(s), f)
  <1> DEFINE N == {n \in Nat : n <= Len(s) =>
                     \E f \in [0..n -> Seq(S)] : Selects(p, s, n, f)}
  <1>0. Len(s) \in Nat /\ \A k \in 1..Len(s) : s[k] \in S
    BY LenProperties, ElementOfSeq
  <1>1. 0 \in N
    <2>1. [k \in 0..0 |-> <<>>] \in [0..0 -> Seq(S)]
      BY EmptySeq
    <2>2. Selects(p, s, 0, [k \in 0..0 |-> <<>>])
      BY DEF Selects
    <2> QED
      BY <2>1, <2>2
  <1>2. ASSUME NEW n \in N PROVE n + 1 \in N
    <2> SUFFICES ASSUME n + 1 <= Len(s)
                 PROVE  \E f \in [0..(n + 1) -> Seq(S)] : Selects(p, s, n + 1, f)
      OBVIOUS
    <2>1. PICK f \in [0..n -> Seq(S)] : Selects(p, s, n, f)
      BY <1>0
    <2> DEFINE x == IF s[n + 1].id = p THEN Append(f[n], s[n + 1]) ELSE f[n]
               g == [k \in 0..(n + 1) |-> IF k <= n THEN f[k] ELSE x]
    <2>2. n \in Nat /\ n + 1 \in 1..Len(s)
      BY <1>0
    <2>3. x \in Seq(S)
      BY <1>0, <2>2, AppendProperties
    <2>4. g \in [0..(n + 1) -> Seq(S)]
      BY <2>2, <2>3
    <2>5. \A k \in 0..n : g[k] = f[k]
      BY <2>2
    <2>6. g[n + 1] = x
      BY <2>2
    <2> HIDE DEF g
    <2>7. \A k \in 1..n : k \in 0..n /\ k - 1 \in 0..n
      BY <2>2
    <2>8. \A k \in 1..(n + 1) : k \in 1..n \/ k = n + 1
      BY <2>2
    <2>9. 0 \in 0..n /\ n \in 0..n /\ (n + 1) - 1 = n
      BY <2>2
    <2>10. Selects(p, s, n + 1, g)
      BY <2>1, <2>5, <2>6, <2>7, <2>8, <2>9, ZenonT(40) DEF Selects
    <2> QED
      BY <2>4, <2>10
  <1>3. N = Nat
    <2>1. N \in SUBSET Nat
      OBVIOUS
    <2> HIDE DEF N
    <2> QED
      BY <1>1, <1>2, <2>1, Induct
  <1>4. Len(s) \in N
    BY <1>0, <1>3
  <1> QED
    BY <1>0, <1>4

LEMMA SelectsUnique ==
    ASSUME NEW s, NEW p, NEW n \in Nat, NEW f, NEW g,
           Selects(p, s, n, f), Selects(p, s, n, g)
    PROVE  \A k \in 0..n : f[k] = g[k]
  <1> DEFINE N == {k \in Nat : k <= n => f[k] = g[k]}
  <1>1. 0 \in N
    BY DEF Selects
  <1>2. ASSUME NEW k \in N PROVE k + 1 \in N
    <2>1. k + 1 <= n => k + 1 \in 1..n /\ (k + 1) - 1 = k /\ k <= n
      OBVIOUS
    <2> QED
      BY <2>1 DEF Selects
  <1>3. N = Nat
    <2>1. N \in SUBSET Nat
      OBVIOUS
    <2> HIDE DEF N
    <2> QED
      BY <1>1, <1>2, <2>1, Induct
  <1> QED
    BY <1>3

(* For is what the recursion ends with.                                     *)
LEMMA ForSelects ==
    ASSUME NEW S, NEW s \in Seq(S), NEW p
    PROVE  \E f \in [0..Len(s) -> Seq(S)] :
              Selects(p, s, Len(s), f) /\ For(p, s) = f[Len(s)]
  <1> DEFINE Step(f) == [n \in 0..Len(s) |->
                           IF n = 0 THEN <<>>
                           ELSE IF s[n].id = p THEN Append(f[n - 1], s[n])
                                               ELSE f[n - 1]]
             g == CHOOSE f : f = Step(f)
  <1>1. PICK f \in [0..Len(s) -> Seq(S)] : Selects(p, s, Len(s), f)
    BY SelectsExists
  <1>2. Len(s) \in Nat
    BY LenProperties
  <1>3. f = Step(f)
    <2>1. \A n \in 0..Len(s) : n = 0 \/ n \in 1..Len(s)
      BY <1>2
    <2>2. \A n \in 0..Len(s) : f[n] = Step(f)[n]
      BY <1>1, <2>1 DEF Selects
    <2> QED
      BY <1>1, <2>2
  <1>4. g = Step(g)
    BY <1>3
  <1>5. Selects(p, s, Len(s), g)
    <2> HIDE DEF g
    <2>1. \A n \in 0..Len(s) : g[n] = IF n = 0 THEN <<>>
                                      ELSE IF s[n].id = p THEN Append(g[n - 1], s[n])
                                                          ELSE g[n - 1]
      BY <1>4
    <2>2. \A n \in 1..Len(s) : n \in 0..Len(s) /\ n # 0
      BY <1>2
    <2>3. 0 \in 0..Len(s)
      BY <1>2
    <2> QED
      BY <2>1, <2>2, <2>3 DEF Selects
  <1>6. g[Len(s)] = f[Len(s)]
    <2>1. Len(s) \in 0..Len(s)
      BY <1>2
    <2> HIDE DEF g
    <2> QED
      BY <1>1, <1>2, <1>5, <2>1, SelectsUnique
  <1>7. For(p, s) = g[Len(s)]
    BY DEF For
  <1> QED
    BY <1>1, <1>6, <1>7

LEMMA ForEmpty == ASSUME NEW p PROVE For(p, <<>>) = <<>>
  <1>1. <<>> \in Seq({}) /\ Len(<<>>) = 0
    BY EmptySeq
  <1>2. PICK f : Selects(p, <<>>, 0, f) /\ For(p, <<>>) = f[0]
    BY <1>1, ForSelects
  <1> QED
    BY <1>2 DEF Selects

LEMMA ForType ==
    ASSUME NEW S, NEW s \in Seq(S), NEW p
    PROVE  For(p, s) \in Seq(S)
  <1>1. PICK f \in [0..Len(s) -> Seq(S)] : For(p, s) = f[Len(s)]
    BY ForSelects
  <1>2. Len(s) \in 0..Len(s)
    BY LenProperties
  <1> QED
    BY <1>1, <1>2

LEMMA ForAppend ==
    ASSUME NEW S, NEW s \in Seq(S), NEW x \in S, NEW p
    PROVE  For(p, Append(s, x)) = IF x.id = p THEN Append(For(p, s), x) ELSE For(p, s)
  <1> DEFINE t == Append(s, x)
             n == Len(s)
  <1>1. /\ t \in Seq(S) /\ Len(t) = n + 1 /\ n \in Nat
        /\ t[n + 1] = x /\ \A k \in 1..n : t[k] = s[k]
    BY AppendProperties, LenProperties
  <1>2. PICK f : Selects(p, s, n, f) /\ For(p, s) = f[n]
    BY ForSelects
  <1>3. PICK g : Selects(p, t, n + 1, g) /\ For(p, t) = g[n + 1]
    <2> HIDE DEF t
    <2>1. \E g : Selects(p, t, Len(t), g) /\ For(p, t) = g[Len(t)]
      BY <1>1, ForSelects
    <2> QED
      BY <1>1, <2>1
  <1> HIDE DEF t, n
  <1>4. Selects(p, s, n, g)
    <2>1. \A k \in 1..n : k \in 1..(n + 1)
      BY <1>1
    <2> QED
      BY <1>1, <1>3, <2>1 DEF Selects
  <1>5. f[n] = g[n]
    <2>1. n \in 0..n
      BY <1>1
    <2> QED
      BY <1>1, <1>2, <1>4, <2>1, SelectsUnique
  <1>6. g[n + 1] = IF x.id = p THEN Append(g[n], x) ELSE g[n]
    <2>1. n + 1 \in 1..(n + 1) /\ (n + 1) - 1 = n
      BY <1>1
    <2> QED
      BY <1>1, <1>3, <2>1 DEF Selects
  <1> QED
    BY <1>2, <1>3, <1>5, <1>6 DEF t

(* What is selected is in the sequence, and for p.                          *)
LEMMA ForElements ==
    ASSUME NEW S, NEW s \in Seq(S), NEW p
    PROVE  \A j \in DOMAIN For(p, s) :
              For(p, s)[j].id = p /\ \E i \in DOMAIN s : For(p, s)[j] = s[i]
  <1> DEFINE Good(u) == \A j \in DOMAIN For(p, u) :
                 For(p, u)[j].id = p /\ \E i \in DOMAIN u : For(p, u)[j] = u[i]
             T == {u \in Seq(S) : Good(u)}
  <1>1. <<>> \in T
    BY EmptySeq, ForEmpty
  <1>2. ASSUME NEW u \in T, NEW x \in S PROVE Append(u, x) \in T
    <2>1. /\ Append(u, x) \in Seq(S) /\ Len(Append(u, x)) = Len(u) + 1
          /\ DOMAIN Append(u, x) = 1..(Len(u) + 1)
          /\ Append(u, x)[Len(u) + 1] = x
          /\ \A i \in 1..Len(u) : Append(u, x)[i] = u[i]
          /\ Len(u) \in Nat /\ DOMAIN u = 1..Len(u)
      BY AppendProperties, LenProperties
    <2>2. For(p, Append(u, x)) = IF x.id = p THEN Append(For(p, u), x) ELSE For(p, u)
      BY ForAppend
    <2>3. For(p, u) \in Seq(S) /\ Good(u)
      BY ForType
    <2>4. ASSUME NEW j \in DOMAIN For(p, Append(u, x))
          PROVE  /\ For(p, Append(u, x))[j].id = p
                 /\ \E i \in DOMAIN Append(u, x) : For(p, Append(u, x))[j] = Append(u, x)[i]
      <3>1. CASE x.id # p \/ j \in DOMAIN For(p, u)
        <4>1. j \in DOMAIN For(p, u) /\ For(p, Append(u, x))[j] = For(p, u)[j]
          <5>1. CASE x.id # p
            BY <2>2, <2>4, <5>1
          <5>2. CASE x.id = p /\ j \in DOMAIN For(p, u)
            BY <2>2, <2>3, <5>2, AppendProperties, LenProperties
          <5> QED
            BY <3>1, <5>1, <5>2
        <4>2. PICK i \in DOMAIN u : For(p, u)[j] = u[i]
          BY <2>3, <4>1
        <4>3. i \in DOMAIN Append(u, x) /\ Append(u, x)[i] = u[i]
          BY <2>1
        <4> QED
          BY <2>3, <4>1, <4>2, <4>3
      <3>2. CASE x.id = p /\ j \notin DOMAIN For(p, u)
        <4> DEFINE m == Len(For(p, u))
        <4>1. m \in Nat /\ DOMAIN For(p, u) = 1..m
          BY <2>3, LenProperties
        <4>2. /\ DOMAIN Append(For(p, u), x) = 1..(m + 1)
              /\ Append(For(p, u), x)[m + 1] = x
          BY <2>3, <4>1, AppendProperties, LenProperties
        <4>3. j = m + 1
          BY <2>2, <2>4, <3>2, <4>1, <4>2
        <4> QED
          BY <2>1, <2>2, <3>2, <4>2, <4>3
      <3> QED
        BY <3>1, <3>2
    <2> QED
      BY <2>1, <2>4
  <1>3. T = Seq(S)
    <2>1. T \in SUBSET Seq(S)
      OBVIOUS
    <2> HIDE DEF T
    <2> QED
      BY <1>1, <1>2, <2>1, SeqInduct
  <1>4. s \in T
    BY <1>3
  <1> QED
    BY <1>4

LEMMA ForConcat ==
    ASSUME NEW S, NEW s \in Seq(S), NEW t \in Seq(S), NEW p
    PROVE  For(p, s \o t) = For(p, s) \o For(p, t)
  <1> DEFINE T == {u \in Seq(S) : For(p, s \o u) = For(p, s) \o For(p, u)}
  <1>1. <<>> \in T
    BY EmptySeq, ConcatEmptySeq, ForEmpty, ForType
  <1>2. ASSUME NEW u \in T, NEW x \in S PROVE Append(u, x) \in T
    <2>1. Append(u, x) \in Seq(S) /\ Append(u, x) = u \o <<x>> /\ <<x>> \in Seq(S)
      BY AppendProperties, AppendIsConcat
    <2>2. s \o Append(u, x) = Append(s \o u, x) /\ s \o u \in Seq(S)
      <3>1. s \o u \in Seq(S)
        BY ConcatProperties
      <3>2. s \o (u \o <<x>>) = (s \o u) \o <<x>>
        BY <2>1, ConcatAssociative
      <3>3. Append(s \o u, x) = (s \o u) \o <<x>>
        BY <3>1, AppendIsConcat
      <3> QED
        BY <2>1, <3>1, <3>2, <3>3
    <2>3. For(p, Append(s \o u, x))
             = IF x.id = p THEN Append(For(p, s \o u), x) ELSE For(p, s \o u)
      BY <2>2, ForAppend
    <2>4. For(p, Append(u, x)) = IF x.id = p THEN Append(For(p, u), x) ELSE For(p, u)
      BY ForAppend
    <2>5. For(p, s) \in Seq(S) /\ For(p, u) \in Seq(S)
      BY ForType
    <2>6. Append(For(p, s) \o For(p, u), x) = For(p, s) \o Append(For(p, u), x)
      <3> HIDE DEF T
      <3>1. Append(For(p, u), x) = For(p, u) \o <<x>>
        BY <2>5, AppendIsConcat
      <3>2. For(p, s) \o For(p, u) \in Seq(S)
        BY <2>5, ConcatProperties
      <3>3. Append(For(p, s) \o For(p, u), x) = (For(p, s) \o For(p, u)) \o <<x>>
        BY <3>2, AppendIsConcat
      <3>4. (For(p, s) \o For(p, u)) \o <<x>> = For(p, s) \o (For(p, u) \o <<x>>)
        <4>1. \A a, b, c \in Seq(S) : (a \o b) \o c = a \o (b \o c)
          BY ConcatAssociative, SMTT(30)
        <4> QED
          BY <2>1, <2>5, <4>1, ZenonT(40)
      <3> QED
        BY <3>1, <3>3, <3>4
    <2>7. For(p, s \o u) = For(p, s) \o For(p, u)
      OBVIOUS
    <2>8. For(p, s \o Append(u, x)) = For(p, s) \o For(p, Append(u, x))
      <3> HIDE DEF T
      <3> QED
        BY <2>2, <2>3, <2>4, <2>6, <2>7
    <2> QED
      BY <2>1, <2>8
  <1>3. T = Seq(S)
    <2>1. T \in SUBSET Seq(S)
      OBVIOUS
    <2> HIDE DEF T
    <2> QED
      BY <1>1, <1>2, <2>1, SeqInduct
  <1>4. t \in T
    BY <1>3
  <1> QED
    BY <1>4

LEMMA ForOne ==
    ASSUME NEW x, NEW p
    PROVE  For(p, <<x>>) = IF x.id = p THEN <<x>> ELSE <<>>
  <1>1. <<>> \in Seq({x}) /\ <<x>> = Append(<<>>, x)
    BY EmptySeq
  <1>2. For(p, Append(<<>>, x)) = IF x.id = p THEN Append(For(p, <<>>), x) ELSE For(p, <<>>)
    BY <1>1, ForAppend
  <1> QED
    BY <1>1, <1>2, ForEmpty

LEMMA ForHeadTail ==
    ASSUME NEW S, NEW s \in Seq(S), s # <<>>, NEW p
    PROVE  For(p, s) = IF Head(s).id = p THEN <<Head(s)>> \o For(p, Tail(s))
                                         ELSE For(p, Tail(s))
  <1>1. /\ Head(s) \in S /\ Tail(s) \in Seq(S)
        /\ <<Head(s)>> \in Seq(S)
        /\ s = <<Head(s)>> \o Tail(s)
    BY HeadTailProperties
  <1>2. For(p, <<Head(s)>> \o Tail(s)) = For(p, <<Head(s)>>) \o For(p, Tail(s))
    BY <1>1, ForConcat
  <1>3. For(p, Tail(s)) \in Seq(S)
    BY <1>1, ForType
  <1>4. <<>> \o For(p, Tail(s)) = For(p, Tail(s))
    BY <1>3, ConcatEmptySeq
  <1> QED
    BY <1>1, <1>2, <1>4, ForOne
=============================================================================
