--------------------------- MODULE AutoSyncProofs ---------------------------
(***************************************************************************)
(* Theorems about AutoSync: for any folders, servers, messages and         *)
(* strategies, the sync objects stay well typed and nobody waits for a     *)
(* download that is not there, whatever happens; and as long as the        *)
(* program stays online and nothing but auto-sync itself opens a url of a  *)
(* folder while one runs, one folder per server downloads, one group at a  *)
(* time.                                                                   *)
(***************************************************************************)
EXTENDS AutoSync, SequenceTheorems, FiniteSetTheorems, TLAPS

-----------------------------------------------------------------------------
(* Sets of numbers in order *)

Below(S, n) == {m \in S : m < n}

\* The members of a finite set of numbers are counted by those below them.
LEMMA Ranked ==
    ASSUME NEW S, IsFiniteSet(S), S \subseteq Int
    PROVE  /\ Cardinality(S) \in Nat
           /\ \A i \in 1 .. Cardinality(S) : \E n \in S : Cardinality(Below(S, n)) = i - 1
           /\ \A n \in S : Cardinality(Below(S, n)) + 1 \in 1 .. Cardinality(S)
           /\ \A m, n \in S : m < n => Cardinality(Below(S, m)) < Cardinality(Below(S, n))
<1>1. Cardinality(S) \in Nat
  BY FS_CardinalityType
<1>2. ASSUME NEW n \in S
      PROVE  /\ IsFiniteSet(Below(S, n)) /\ Cardinality(Below(S, n)) \in Nat
             /\ Cardinality(Below(S, n)) <= Cardinality(S) - 1
  <2>1. IsFiniteSet(S \ {n}) /\ Cardinality(S \ {n}) = Cardinality(S) - 1
    BY FS_RemoveElement
  <2>2. Below(S, n) \in SUBSET (S \ {n})
    BY DEF Below
  <2>3. IsFiniteSet(Below(S, n)) /\ Cardinality(Below(S, n)) <= Cardinality(S \ {n})
    BY <2>1, <2>2, FS_Subset
  <2> QED
    BY <2>1, <2>3, FS_CardinalityType
<1>3. ASSUME NEW m \in S, NEW n \in S, m < n
      PROVE  Cardinality(Below(S, m)) < Cardinality(Below(S, n))
  <2>1. /\ IsFiniteSet(Below(S, m) \cup {m})
        /\ Cardinality(Below(S, m) \cup {m}) = Cardinality(Below(S, m)) + 1
    <3>1. m \notin Below(S, m)
      BY DEF Below
    <3> QED
      BY <1>2, <3>1, FS_AddElement
  <2>2. Below(S, m) \cup {m} \in SUBSET Below(S, n)
    <3>1. \A k \in S : k \in Int
      OBVIOUS
    <3>2. \A k \in S : k < m => k < n
      BY <1>3, <3>1
    <3> QED
      BY <1>3, <3>2 DEF Below
  <2>3. Cardinality(Below(S, m) \cup {m}) <= Cardinality(Below(S, n))
    BY <1>2, <2>2, FS_Subset
  <2> QED
    BY <1>2, <2>1, <2>3
<1> DEFINE N == Cardinality(S)
           r == [n \in S |-> Cardinality(Below(S, n)) + 1]
<1>4. \A n \in S : Cardinality(Below(S, n)) + 1 \in 1 .. N
  BY <1>1, <1>2
<1>5. r \in Injection(S, 1 .. N)
  <2>1. r \in [S -> 1 .. N]
    BY <1>4
  <2>2. \A m, n \in S : r[m] = r[n] => m = n
    <3> SUFFICES ASSUME NEW m \in S, NEW n \in S, m # n
                 PROVE  r[m] # r[n]
      OBVIOUS
    <3>1. m < n \/ n < m
      OBVIOUS
    <3> QED
      BY <1>2, <1>3, <3>1
  <2> QED
    BY <2>1, <2>2 DEF Injection, IsInjective
<1>6. IsFiniteSet(1 .. N) /\ Cardinality(1 .. N) = N
  BY <1>1, FS_Interval
<1>7. r \in Surjection(S, 1 .. N)
  <2> HIDE DEF r
  <2> QED
    BY <1>5, <1>6, FS_Injection
<1>8. ASSUME NEW i \in 1 .. N
      PROVE  \E n \in S : Cardinality(Below(S, n)) = i - 1
  <2>1. PICK n \in S : r[n] = i
    BY <1>7 DEF Surjection
  <2>2. Cardinality(Below(S, n)) + 1 = i
    BY <2>1
  <2> QED
    BY <1>2, <2>2
<1> QED
  BY <1>1, <1>3, <1>4, <1>8

\* A finite set of numbers has a least and a greatest member.
LEMMA Extremes ==
    ASSUME NEW S, IsFiniteSet(S), S \subseteq Int, S # {}
    PROVE  /\ Min(S) \in S /\ \A n \in S : Min(S) <= n
           /\ Max(S) \in S /\ \A n \in S : n <= Max(S)
<1>1. Cardinality(S) \in Nat \ {0}
  BY FS_CardinalityType, FS_EmptySet
<1> DEFINE N == Cardinality(S)
<1> HIDE DEF N
<1>2. /\ \A i \in 1 .. N : \E n \in S : Cardinality(Below(S, n)) = i - 1
      /\ \A n \in S : Cardinality(Below(S, n)) + 1 \in 1 .. N
      /\ \A m, n \in S : m < n => Cardinality(Below(S, m)) < Cardinality(Below(S, n))
      /\ N \in Nat \ {0}
  BY <1>1, Ranked DEF N
<1>3. 1 \in 1 .. N /\ N \in 1 .. N
  BY <1>2
<1> PICK low \in S : Cardinality(Below(S, low)) = 1 - 1
  BY <1>2, <1>3
<1> PICK high \in S : Cardinality(Below(S, high)) = N - 1
  BY <1>2, <1>3
<1>4. \A n \in S : low <= n
  <2> SUFFICES ASSUME NEW n \in S, n < low
               PROVE  FALSE
    OBVIOUS
  <2>1. Cardinality(Below(S, n)) < 0
    BY <1>2
  <2>2. IsFiniteSet(Below(S, n))
    <3>1. Below(S, n) \in SUBSET S
      BY DEF Below
    <3> QED
      BY <3>1, FS_Subset
  <2> QED
    BY <2>1, <2>2, FS_CardinalityType
<1>5. \A n \in S : n <= high
  <2> SUFFICES ASSUME NEW n \in S, high < n
               PROVE  FALSE
    OBVIOUS
  <2>1. IsFiniteSet(Below(S, n))
    <3>1. Below(S, n) \in SUBSET S
      BY DEF Below
    <3> QED
      BY <3>1, FS_Subset
  <2>2. Cardinality(Below(S, n)) \in Nat
    BY <2>1, FS_CardinalityType
  <2>3. N - 1 < Cardinality(Below(S, n)) /\ Cardinality(Below(S, n)) + 1 \in 1 .. N
    BY <1>2
  <2> QED
    BY <1>2, <2>2, <2>3
<1> QED
  BY <1>4, <1>5 DEF Min, Max

\* What Ascending returns.
LEMMA AscendingMembers ==
    ASSUME NEW S, IsFiniteSet(S), S \subseteq Int
    PROVE  /\ Ascending(S) \in Seq(S)
           /\ Cardinality(S) \in Nat /\ Len(Ascending(S)) = Cardinality(S)
           /\ DOMAIN Ascending(S) = 1 .. Cardinality(S)
           /\ \A i, j \in 1 .. Cardinality(S) : Ascending(S)[i] = Ascending(S)[j] => i = j
           /\ \A n \in S : \E i \in 1 .. Cardinality(S) : Ascending(S)[i] = n
<1> DEFINE N == Cardinality(S)
<1>1. N \in Nat /\ \A i \in 1 .. N : \E n \in S : Cardinality(Below(S, n)) = i - 1
  BY Ranked
<1>2. Ascending(S) = [i \in 1 .. N |-> CHOOSE n \in S : Cardinality(Below(S, n)) = i - 1]
  BY DEF Ascending, Below
<1>3. \A i \in 1 .. N : Ascending(S)[i] \in S /\ Cardinality(Below(S, Ascending(S)[i])) = i - 1
  BY <1>1, <1>2
<1>4. Ascending(S) \in [1 .. N -> S]
  BY <1>2, <1>3
<1>5. Ascending(S) \in Seq(S) /\ Len(Ascending(S)) = N
  BY <1>1, <1>4, IsASeq, LenProperties
<1>6. \A i, j \in 1 .. N : Ascending(S)[i] = Ascending(S)[j] => i = j
  <2> SUFFICES ASSUME NEW i \in 1 .. N, NEW j \in 1 .. N, Ascending(S)[i] = Ascending(S)[j]
               PROVE  i = j
    OBVIOUS
  <2>1. i - 1 = j - 1
    BY <1>3
  <2> QED
    BY <1>1, <2>1
<1>7. ASSUME NEW n \in S
      PROVE  \E i \in 1 .. N : Ascending(S)[i] = n
  <2>1. PICK i \in 1 .. N : i = Cardinality(Below(S, n)) + 1
    BY Ranked
  <2>2. PICK m \in S : m = Ascending(S)[i]
    BY <1>3
  <2>3. Cardinality(Below(S, m)) = Cardinality(Below(S, n))
    <3>1. Below(S, n) \in SUBSET S
      BY DEF Below
    <3>2. Cardinality(Below(S, n)) \in Nat
      BY <3>1, FS_Subset, FS_CardinalityType
    <3> QED
      BY <1>3, <2>1, <2>2, <3>2
  <2>4. ~(m < n) /\ ~(n < m)
    <3>1. Below(S, n) \in SUBSET S
      BY DEF Below
    <3>2. Cardinality(Below(S, n)) \in Nat
      BY <3>1, FS_Subset, FS_CardinalityType
    <3>3. \A k, l \in S : k < l => Cardinality(Below(S, k)) < Cardinality(Below(S, l))
      BY Ranked
    <3> QED
      BY <2>3, <3>2, <3>3
  <2> QED
    BY <2>2, <2>4
<1> QED
  BY <1>1, <1>4, <1>5, <1>6, <1>7

-----------------------------------------------------------------------------
(* Sequences without duplicates *)

LEMMA SeqPlain ==
    ASSUME NEW T, NEW s \in Seq(T)
    PROVE  /\ Len(s) \in Nat /\ DOMAIN s = 1 .. Len(s)
           /\ \A i \in 1 .. Len(s) : s[i] \in T /\ s[i] \in ToSet(s)
           /\ ToSet(s) \subseteq T
           /\ \A x \in ToSet(s) : \E i \in 1 .. Len(s) : s[i] = x
           /\ IsFiniteSet(ToSet(s))
<1>1. /\ Len(s) \in Nat /\ DOMAIN s = 1 .. Len(s)
      /\ \A i \in 1 .. Len(s) : s[i] \in T
  BY LenProperties, ElementOfSeq
<1>2. IsFiniteSet(ToSet(s))
  <2>1. s \in Surjection(1 .. Len(s), ToSet(s))
    BY <1>1, LenProperties DEF Surjection, ToSet
  <2>2. IsFiniteSet(1 .. Len(s))
    BY <1>1, FS_Interval
  <2> QED
    BY <2>1, <2>2, FS_Surjection
<1> QED
  BY <1>1, <1>2 DEF ToSet

LEMMA PieceIs ==
    ASSUME NEW T, NEW s \in Seq(T), NEW m \in Nat \ {0}, NEW n \in Int, n <= Len(s)
    PROVE  SubSeq(s, m, n) \in Seq(T)
<1>1. \A i \in m .. n : s[i] \in T
  BY SeqPlain
<1>2. m \in Int
  OBVIOUS
<1> QED
  BY <1>1, <1>2, SubSeqProperties

LEMMA Pieces ==
    ASSUME NEW T, NEW s \in Seq(T), IsInjective(s), NEW n \in 0 .. Len(s)
    PROVE  /\ SubSeq(s, 1, n) \in Seq(T) /\ SubSeq(s, n + 1, Len(s)) \in Seq(T)
           /\ IsInjective(SubSeq(s, 1, n)) /\ IsInjective(SubSeq(s, n + 1, Len(s)))
           /\ Len(SubSeq(s, 1, n)) = n /\ Len(SubSeq(s, n + 1, Len(s))) = Len(s) - n
           /\ ToSet(SubSeq(s, 1, n)) \cap ToSet(SubSeq(s, n + 1, Len(s))) = {}
           /\ ToSet(SubSeq(s, 1, n)) \subseteq ToSet(s)
           /\ ToSet(SubSeq(s, n + 1, Len(s))) \subseteq ToSet(s)
<1>1. Len(s) \in Nat /\ DOMAIN s = 1 .. Len(s) /\ \A i \in 1 .. Len(s) : s[i] \in T
  BY SeqPlain
<1> DEFINE a == SubSeq(s, 1, n)
           b == SubSeq(s, n + 1, Len(s))
<1>2. /\ a \in Seq(T) /\ Len(a) = n
      /\ \A i \in 1 .. n : a[i] = s[i]
  <2>1. \A i \in 1 .. n : s[i] \in T
    BY <1>1
  <2>2. 1 \in Int /\ n \in Int /\ (1 <= n \/ n = 0)
    BY <1>1
  <2> QED
    BY <2>1, <2>2, SubSeqProperties
<1>3. /\ b \in Seq(T) /\ Len(b) = Len(s) - n
      /\ \A i \in 1 .. Len(s) - n : b[i] = s[n + i]
  <2>1. \A i \in n + 1 .. Len(s) : s[i] \in T
    BY <1>1
  <2>2. n + 1 \in Int /\ Len(s) \in Int /\ n <= Len(s)
    BY <1>1
  <2>3. /\ b \in Seq(T) /\ Len(b) = IF n + 1 <= Len(s) THEN Len(s) - (n + 1) + 1 ELSE 0
        /\ \A i \in 1 .. Len(s) - (n + 1) + 1 : b[i] = s[n + 1 + i - 1]
    BY <2>1, <2>2, SubSeqProperties
  <2> QED
    BY <2>2, <2>3
<1> HIDE DEF a, b
<1>4. DOMAIN a = 1 .. n /\ DOMAIN b = 1 .. Len(s) - n
  BY <1>2, <1>3, LenProperties
<1>5. IsInjective(a)
  BY <1>1, <1>2, <1>4 DEF IsInjective
<1>6. IsInjective(b)
  <2> SUFFICES ASSUME NEW i \in DOMAIN b, NEW j \in DOMAIN b, b[i] = b[j]
               PROVE  i = j
    BY DEF IsInjective
  <2>1. n + i \in DOMAIN s /\ n + j \in DOMAIN s /\ s[n + i] = s[n + j]
    BY <1>1, <1>3, <1>4
  <2>2. n + i = n + j
    BY <2>1 DEF IsInjective
  <2> QED
    BY <1>1, <1>4, <2>2
<1>7. ToSet(a) \subseteq ToSet(s)
  BY <1>1, <1>2, <1>4 DEF ToSet
<1>8. ToSet(b) \subseteq ToSet(s)
  <2>1. \A i \in DOMAIN b : n + i \in DOMAIN s
    BY <1>1, <1>4
  <2> QED
    BY <1>3, <1>4, <2>1 DEF ToSet
<1>9. ToSet(a) \cap ToSet(b) = {}
  <2> SUFFICES ASSUME NEW i \in DOMAIN a, NEW j \in DOMAIN b, a[i] = b[j]
               PROVE  FALSE
    BY DEF ToSet
  <2>1. i \in DOMAIN s /\ n + j \in DOMAIN s /\ s[i] = s[n + j] /\ i # n + j
    BY <1>1, <1>2, <1>3, <1>4
  <2> QED
    BY <2>1 DEF IsInjective
<1> QED
  BY <1>2, <1>3, <1>5, <1>6, <1>7, <1>8, <1>9 DEF a, b

LEMMA Joined ==
    ASSUME NEW T, NEW a \in Seq(T), NEW b \in Seq(T), IsInjective(a), IsInjective(b),
           ToSet(a) \cap ToSet(b) = {}
    PROVE  /\ a \o b \in Seq(T) /\ IsInjective(a \o b)
           /\ ToSet(a \o b) = ToSet(a) \cup ToSet(b)
           /\ Len(a \o b) = Len(a) + Len(b)
<1>1. /\ Len(a) \in Nat /\ DOMAIN a = 1 .. Len(a)
      /\ Len(b) \in Nat /\ DOMAIN b = 1 .. Len(b)
  BY SeqPlain
<1> DEFINE c == a \o b
<1>2. /\ c \in Seq(T) /\ Len(c) = Len(a) + Len(b)
      /\ \A i \in 1 .. Len(a) + Len(b) : c[i] = IF i <= Len(a) THEN a[i] ELSE b[i - Len(a)]
  BY ConcatProperties
<1> HIDE DEF c
<1>3. DOMAIN c = 1 .. Len(a) + Len(b)
  BY <1>2, LenProperties
<1>4. ASSUME NEW i \in DOMAIN c
      PROVE  \/ i \in DOMAIN a /\ c[i] = a[i] /\ c[i] \in ToSet(a)
             \/ i - Len(a) \in DOMAIN b /\ c[i] = b[i - Len(a)] /\ c[i] \in ToSet(b)
  <2>1. CASE i <= Len(a)
    BY <1>1, <1>2, <1>3, <2>1 DEF ToSet
  <2>2. CASE ~(i <= Len(a))
    <3>1. i - Len(a) \in DOMAIN b /\ c[i] = b[i - Len(a)]
      BY <1>1, <1>2, <1>3, <2>2
    <3> QED
      BY <3>1 DEF ToSet
  <2> QED
    BY <2>1, <2>2
<1>5. IsInjective(c)
  <2> SUFFICES ASSUME NEW i \in DOMAIN c, NEW j \in DOMAIN c, c[i] = c[j]
               PROVE  i = j
    BY DEF IsInjective
  <2>1. CASE i \in DOMAIN a /\ c[i] = a[i] /\ c[i] \in ToSet(a)
    <3>1. j \in DOMAIN a /\ c[j] = a[j]
      BY <1>4, <2>1
    <3> QED
      BY <2>1, <3>1 DEF IsInjective
  <2>2. CASE i - Len(a) \in DOMAIN b /\ c[i] = b[i - Len(a)] /\ c[i] \in ToSet(b)
    <3>1. j - Len(a) \in DOMAIN b /\ c[j] = b[j - Len(a)]
      BY <1>4, <2>2
    <3>2. i - Len(a) = j - Len(a)
      BY <2>2, <3>1 DEF IsInjective
    <3> QED
      BY <1>1, <1>3, <3>2
  <2> QED
    BY <1>4, <2>1, <2>2
<1>6. ToSet(c) \subseteq ToSet(a) \cup ToSet(b)
  BY <1>4 DEF ToSet
<1>7. ASSUME NEW x \in ToSet(a) \cup ToSet(b)
      PROVE  x \in ToSet(c)
  <2>1. CASE x \in ToSet(a)
    <3>1. PICK i \in 1 .. Len(a) : a[i] = x
      BY <1>1, <2>1 DEF ToSet
    <3>2. i \in DOMAIN c /\ c[i] = x
      BY <1>1, <1>2, <1>3, <3>1
    <3> QED
      BY <3>2 DEF ToSet
  <2>2. CASE x \in ToSet(b)
    <3>1. PICK i \in 1 .. Len(b) : b[i] = x
      BY <1>1, <2>2 DEF ToSet
    <3>2. Len(a) + i \in DOMAIN c /\ ~(Len(a) + i <= Len(a)) /\ Len(a) + i - Len(a) = i
      BY <1>1, <1>3, <3>1
    <3>3. c[Len(a) + i] = x
      BY <1>2, <1>3, <3>1, <3>2
    <3> QED
      BY <3>2, <3>3 DEF ToSet
  <2> QED
    BY <2>1, <2>2
<1> QED
  BY <1>2, <1>5, <1>6, <1>7 DEF c

\* What Only returns.
LEMMA OnlyMembers ==
    ASSUME NEW T, NEW s \in Seq(T), NEW S
    PROVE  /\ Only(s, S) \in Seq(T)
           /\ ToSet(Only(s, S)) = ToSet(s) \cap S
           /\ IsInjective(s) => IsInjective(Only(s, S))
<1> DEFINE K == {k \in DOMAIN s : s[k] \in S}
           N == Cardinality(K)
           A == Ascending(K)
<1>1. Len(s) \in Nat /\ DOMAIN s = 1 .. Len(s) /\ \A i \in 1 .. Len(s) : s[i] \in T
  BY SeqPlain
<1>2. IsFiniteSet(K) /\ K \subseteq Int
  <2>1. IsFiniteSet(1 .. Len(s)) /\ K \in SUBSET (1 .. Len(s))
    BY <1>1, FS_Interval
  <2> QED
    BY <1>1, <2>1, FS_Subset
<1>3. /\ A \in Seq(K) /\ N \in Nat /\ DOMAIN A = 1 .. N
      /\ \A i, j \in 1 .. N : A[i] = A[j] => i = j
      /\ \A k \in K : \E i \in 1 .. N : A[i] = k
  <2> HIDE DEF K
  <2> QED
    BY <1>2, AscendingMembers
<1>4. Only(s, S) = [i \in 1 .. N |-> s[A[i]]]
  BY <1>3 DEF Only
<1> HIDE DEF N, A
<1>5. \A i \in 1 .. N : A[i] \in K
  BY <1>3, ElementOfSeq, LenProperties
<1>6. \A i \in 1 .. N : A[i] \in DOMAIN s /\ Only(s, S)[i] = s[A[i]] /\ s[A[i]] \in S
  BY <1>4, <1>5
<1>7. Only(s, S) \in Seq(T) /\ DOMAIN Only(s, S) = 1 .. N
  <2>1. Only(s, S) \in [1 .. N -> T]
    BY <1>1, <1>4, <1>6
  <2> QED
    BY <1>3, <2>1, IsASeq
<1>8. ToSet(Only(s, S)) = ToSet(s) \cap S
  <2>1. ToSet(Only(s, S)) \subseteq ToSet(s) \cap S
    BY <1>6, <1>7 DEF ToSet
  <2>2. ASSUME NEW x \in ToSet(s) \cap S
        PROVE  x \in ToSet(Only(s, S))
    <3>1. PICK k \in DOMAIN s : s[k] = x
      BY DEF ToSet
    <3>2. PICK i \in 1 .. N : A[i] = k
      BY <1>3, <3>1
    <3> QED
      BY <1>6, <1>7, <3>1, <3>2 DEF ToSet
  <2> QED
    BY <2>1, <2>2
<1>9. ASSUME IsInjective(s)
      PROVE  IsInjective(Only(s, S))
  <2> SUFFICES ASSUME NEW i \in 1 .. N, NEW j \in 1 .. N, Only(s, S)[i] = Only(s, S)[j]
               PROVE  i = j
    BY <1>7 DEF IsInjective
  <2>1. A[i] = A[j]
    BY <1>6, <1>9 DEF IsInjective
  <2> QED
    BY <1>3, <2>1
<1> QED
  BY <1>7, <1>8, <1>9

LEMMA NothingWeighsNothing == TotalSize({}) = 0
BY DEF TotalSize, MapThenSumSet, MapThenFoldSet

-----------------------------------------------------------------------------
(* The record the handlers work on *)

Stages == {"onServer", "known", "stored", "deleted"}
Syncs == [state : States, q : Seq(Messages), offset : Nat, last : Nat, retry : Nat,
          changed : BOOLEAN, held : BOOLEAN, existing : Seq(Messages)]
Works == [sync : [Folders -> Syncs], pq : Seq(Folders),
          running : [Folders -> Seq(SUBSET Messages)], message : [Messages -> Stages]]

\* The sync object s of the folder f is about the folder's own messages.
Fits(s, f) ==
    /\ s.q \in Seq(MsgsOf[f]) /\ IsInjective(s.q)
    /\ s.offset <= Len(s.q) /\ s.last <= s.offset
    /\ s.retry <= GroupRetryCount
    /\ s.existing \in Seq(MsgsOf[f])

Typed(w) ==
    /\ w \in Works /\ IsInjective(w.pq)
    /\ \A f \in Folders : Fits(w.sync[f], f) /\ w.running[f] \in Seq(SUBSET MsgsOf[f])

\* Only what is kept for the folder f changes.
Changes(w, v, f) ==
    /\ v.pq = w.pq /\ v.message = w.message
    /\ \A g \in Folders : g # f => v.sync[g] = w.sync[g] /\ v.running[g] = w.running[g]

LEMMA MessagesOfFolder ==
    ASSUME NEW f \in Folders
    PROVE  /\ MsgsOf[f] \subseteq Messages /\ MsgsOf[f] \subseteq Nat /\ IsFiniteSet(MsgsOf[f])
           /\ \A s \in Seq(MsgsOf[f]) : s \in Seq(Messages)
<1>1. MsgsOf[f] \subseteq Messages
  BY DEF Messages
<1>2. ASSUME NEW s \in Seq(MsgsOf[f])
      PROVE  s \in Seq(Messages)
  <2>1. Len(s) \in Nat /\ s \in [1 .. Len(s) -> MsgsOf[f]]
    BY LenProperties
  <2>2. s \in [1 .. Len(s) -> Messages]
    BY <1>1, <2>1
  <2> QED
    BY <2>1, <2>2, IsASeq
<1> QED
  BY <1>1, <1>2, AutoSyncConstants

\* A sync object put in the place of that of the folder f.
WithSync(w, f, s) == [w EXCEPT !.sync[f] = s]

LEMMA Put ==
    ASSUME NEW w, Typed(w), NEW f \in Folders, NEW s \in Syncs, Fits(s, f),
           NEW v, v = WithSync(w, f, s)
    PROVE  Typed(v) /\ Changes(w, v, f) /\ v.sync[f] = s /\ v.running = w.running
<1>1. w \in Works
  BY DEF Typed
<1>2. /\ v \in Works /\ v.pq = w.pq /\ v.message = w.message /\ v.running = w.running
      /\ v.sync[f] = s
      /\ \A g \in Folders : g # f => v.sync[g] = w.sync[g]
  BY <1>1 DEF Works, WithSync
<1> QED
  BY <1>2 DEF Typed, Changes

LEMMA SyncTyped ==
    ASSUME NEW w, Typed(w), NEW f \in Folders
    PROVE  /\ w.sync[f] \in Syncs /\ Fits(w.sync[f], f)
           /\ w.running[f] \in Seq(SUBSET MsgsOf[f])
           /\ w.pq \in Seq(Folders) /\ IsInjective(w.pq)
           /\ w.message \in [Messages -> Stages]
BY DEF Typed, Works

LEMMA SetStateDoes ==
    ASSUME NEW w, Typed(w), NEW f \in Folders, NEW state \in States,
           NEW v, v = SetState(w, f, state)
    PROVE  /\ Typed(v) /\ Changes(w, v, f) /\ v.running = w.running
           /\ v.sync[f].state = state /\ v.sync[f].held = w.sync[f].held
<1>1. w.sync[f] \in Syncs /\ Fits(w.sync[f], f)
  BY SyncTyped
<1>2. PICK s : s = IF state = "completedIdle"
                   THEN [w.sync[f] EXCEPT !.state = state, !.q = <<>>, !.offset = 0, !.last = 0]
                   ELSE [w.sync[f] EXCEPT !.state = state]
  OBVIOUS
<1>3. v = WithSync(w, f, s)
  BY <1>2 DEF SetState, WithSync
<1>4. <<>> \in Seq(Messages) /\ <<>> \in Seq(MsgsOf[f]) /\ Len(<<>>) = 0 /\ IsInjective(<<>>)
  BY DEF IsInjective
<1>5. s \in Syncs /\ s.state = state /\ s.held = w.sync[f].held
  BY <1>1, <1>2, <1>4 DEF Syncs
<1>6. \/ s.q = <<>> /\ s.offset = 0 /\ s.last = 0
      \/ s.q = w.sync[f].q /\ s.offset = w.sync[f].offset /\ s.last = w.sync[f].last
  BY <1>1, <1>2 DEF Syncs
<1>7. s.retry = w.sync[f].retry /\ s.existing = w.sync[f].existing
  BY <1>1, <1>2 DEF Syncs
<1>8. Fits(s, f)
  <2>1. CASE s.q = <<>> /\ s.offset = 0 /\ s.last = 0
    BY <1>1, <1>4, <1>7, <2>1 DEF Fits
  <2>2. CASE s.q = w.sync[f].q /\ s.offset = w.sync[f].offset /\ s.last = w.sync[f].last
    BY <1>1, <1>7, <2>2 DEF Fits
  <2> QED
    BY <1>6, <2>1, <2>2
<1> QED
  BY <1>3, <1>5, <1>8, Put

LEMMA TryAgainDoes ==
    ASSUME NEW w, Typed(w), NEW f \in Folders, NEW v, v = TryCurrentGroupAgain(w, f)
    PROVE  /\ Typed(v) /\ Changes(w, v, f) /\ v.running = w.running
           /\ v.sync[f].state = "readyToDownload" /\ v.sync[f].held = w.sync[f].held
<1>1. PICK r : r = w.sync[f] /\ r \in Syncs /\ Fits(r, f)
  BY SyncTyped
<1>2. PICK s : s = IF r.retry < GroupRetryCount
                   THEN [r EXCEPT !.state = "readyToDownload", !.retry = r.retry + 1,
                                  !.offset = r.last]
                   ELSE [r EXCEPT !.state = "readyToDownload", !.retry = 0]
  OBVIOUS
<1>3. v = WithSync(w, f, s)
  BY <1>1, <1>2 DEF TryCurrentGroupAgain, WithSync
<1>4. /\ r.last \in Nat /\ r.retry \in Nat /\ r.offset \in Nat
      /\ GroupRetryCount \in Nat /\ "readyToDownload" \in States
  BY <1>1, AutoSyncConstants DEF Syncs, States
<1>5. /\ s \in Syncs /\ s.state = "readyToDownload" /\ s.held = r.held
      /\ s.q = r.q /\ s.existing = r.existing /\ s.last = r.last
      /\ s.retry <= GroupRetryCount /\ s.offset \in {r.last, r.offset}
  <2>1. CASE r.retry < GroupRetryCount
    <3>1. r.retry + 1 \in Nat /\ r.retry + 1 <= GroupRetryCount
      BY <1>4, <2>1
    <3> QED
      BY <1>1, <1>2, <1>4, <2>1, <3>1 DEF Syncs
  <2>2. CASE ~(r.retry < GroupRetryCount)
    <3>1. s = [r EXCEPT !.state = "readyToDownload", !.retry = 0]
      BY <1>2, <2>2
    <3>2. /\ s.state = "readyToDownload" /\ s.retry = 0 /\ s.held = r.held
          /\ s.q = r.q /\ s.existing = r.existing /\ s.last = r.last /\ s.offset = r.offset
      BY <1>1, <3>1 DEF Syncs
    <3>3. s \in Syncs
      BY <1>1, <1>4, <3>1 DEF Syncs
    <3>4. 0 <= GroupRetryCount
      BY <1>4
    <3> QED
      BY <3>2, <3>3, <3>4
  <2> QED
    BY <2>1, <2>2
<1>6. Len(s.q) \in Nat
  BY <1>1, <1>5, LenProperties DEF Fits
<1>7. Fits(s, f)
  BY <1>1, <1>4, <1>5, <1>6 DEF Fits
<1> QED
  BY <1>1, <1>3, <1>5, <1>7, Put

\* The messages that are still to come, in their order, and as many as one group takes.
LEMMA SortedDoes ==
    ASSUME NEW s \in Syncs, NEW f \in Folders, Fits(s, f)
    PROVE  /\ Sorted(s) \in Seq(MsgsOf[f]) /\ IsInjective(Sorted(s))
           /\ ToSet(Sorted(s)) \cap ToSet(SubSeq(s.q, 1, s.offset)) = {}
<1>1. /\ s.q \in Seq(MsgsOf[f]) /\ IsInjective(s.q) /\ s.offset \in 0 .. Len(s.q)
  BY LenProperties DEF Fits, Syncs
<1>2. PICK rest : rest = SubSeq(s.q, s.offset + 1, Len(s.q))
  OBVIOUS
<1>3. /\ rest \in Seq(MsgsOf[f]) /\ IsInjective(rest)
      /\ ToSet(rest) \cap ToSet(SubSeq(s.q, 1, s.offset)) = {}
  BY <1>1, <1>2, Pieces
<1>4. CASE s.changed
  <2>1. Sorted(s) = Ascending(ToSet(rest))
    BY <1>2, <1>4 DEF Sorted
  <2>2. IsFiniteSet(ToSet(rest)) /\ ToSet(rest) \subseteq MsgsOf[f] /\ ToSet(rest) \subseteq Int
    BY <1>3, SeqPlain, MessagesOfFolder
  <2>3. /\ Sorted(s) \in Seq(ToSet(rest)) /\ Len(Sorted(s)) \in Nat
        /\ DOMAIN Sorted(s) = 1 .. Len(Sorted(s))
        /\ \A i, j \in 1 .. Len(Sorted(s)) : Sorted(s)[i] = Sorted(s)[j] => i = j
        /\ Sorted(s) \in [1 .. Len(Sorted(s)) -> ToSet(rest)]
    BY <2>1, <2>2, AscendingMembers, LenProperties
  <2>4. Sorted(s) \in [1 .. Len(Sorted(s)) -> MsgsOf[f]]
    BY <2>2, <2>3
  <2>5. Sorted(s) \in Seq(MsgsOf[f]) /\ ToSet(Sorted(s)) \subseteq ToSet(rest)
    BY <2>3, <2>4, IsASeq, SeqPlain
  <2>6. IsInjective(Sorted(s))
    BY <2>3 DEF IsInjective
  <2> QED
    BY <1>3, <2>5, <2>6
<1>5. CASE ~s.changed
  <2>1. Sorted(s) = rest
    BY <1>2, <1>5 DEF Sorted
  <2> QED
    BY <1>3, <2>1
<1> QED
  BY <1>4, <1>5

LEMMA GroupLengthDoes ==
    ASSUME NEW w, NEW rest \in Seq(Messages)
    PROVE  GroupLength(w, rest) \in 0 .. Len(rest)
<1> DEFINE large == {k \in DOMAIN rest : /\ Size[rest[k]] >= GroupSize
                                         /\ Bodies(w, rest, k) = {rest[k]}}
           fit == {k \in 0 .. Len(rest) : TotalSize(Bodies(w, rest, k)) <= GroupSize}
<1>1. Len(rest) \in Nat /\ DOMAIN rest = 1 .. Len(rest) /\ GroupSize \in Nat
  BY SeqPlain, AutoSyncConstants
<1>2. GroupLength(w, rest) = IF large # {} THEN Min(large) ELSE Max(fit)
  BY DEF GroupLength
<1>3. large \in SUBSET (1 .. Len(rest)) /\ fit \in SUBSET (0 .. Len(rest))
  BY <1>1
<1>4. 0 \in fit
  <2>1. SubSeq(rest, 1, 0) = <<>>
    BY SubSeqProperties
  <2>2. Bodies(w, rest, 0) = {}
    BY <2>1 DEF Bodies, ToSet
  <2> QED
    BY <1>1, <2>2, NothingWeighsNothing
<1> HIDE DEF large, fit
<1>5. /\ IsFiniteSet(large) /\ IsFiniteSet(fit) /\ large \subseteq Int /\ fit \subseteq Int
  <2>1. IsFiniteSet(1 .. Len(rest)) /\ IsFiniteSet(0 .. Len(rest))
    BY <1>1, FS_Interval
  <2>2. IsFiniteSet(large) /\ IsFiniteSet(fit)
    BY <1>3, <2>1, FS_Subset
  <2> QED
    BY <1>1, <1>3, <2>2
<1>6. CASE large # {}
  <2>1. Min(large) \in large
    BY <1>5, <1>6, Extremes
  <2>2. Min(large) \in 1 .. Len(rest)
    BY <1>3, <2>1
  <2>3. Min(large) \in 0 .. Len(rest)
    BY <1>1, <2>2
  <2> QED
    BY <1>2, <1>6, <2>3
<1>7. CASE large = {}
  <2>1. Max(fit) \in fit
    BY <1>4, <1>5, Extremes
  <2> QED
    BY <1>1, <1>2, <1>3, <1>7, <2>1
<1> QED
  BY <1>6, <1>7

\* A group leaves the sync object well formed, whatever its length.
LEMMA TakeDoes ==
    ASSUME NEW w, Typed(w), NEW f \in Folders, NEW rest \in Seq(MsgsOf[f]), IsInjective(rest),
           ToSet(rest) \cap ToSet(SubSeq(w.sync[f].q, 1, w.sync[f].offset)) = {},
           NEW n \in 0 .. Len(rest), NEW d, d = Take(w, f, rest, n)
    PROVE  /\ Typed(d.w) /\ Changes(w, d.w, f) /\ d.w.running = w.running
           /\ d.w.sync[f].state = w.sync[f].state /\ d.w.sync[f].held = w.sync[f].held
           /\ d.group \subseteq MsgsOf[f]
<1>1. PICK r : r = w.sync[f] /\ r \in Syncs /\ Fits(r, f)
  BY SyncTyped
<1>2. PICK a : a = SubSeq(r.q, 1, r.offset)
  OBVIOUS
<1>3. PICK kept : kept = Only(SubSeq(rest, 1, n), {m \in Messages : w.message[m] # "deleted"})
  OBVIOUS
<1>4. PICK b : b = SubSeq(rest, n + 1, Len(rest))
  OBVIOUS
<1>5. PICK s : s = [r EXCEPT !.q = a \o kept \o b, !.last = r.offset,
                             !.offset = r.offset + Len(kept), !.changed = FALSE]
  OBVIOUS
<1>6. d = [group |-> Bodies(w, rest, n), w |-> WithSync(w, f, s)]
  BY <1>1, <1>2, <1>3, <1>4, <1>5 DEF Take, WithSync
<1>7. /\ a \in Seq(MsgsOf[f]) /\ IsInjective(a) /\ Len(a) = r.offset /\ r.offset \in Nat
      /\ ToSet(rest) \cap ToSet(a) = {}
  <2>1. r.q \in Seq(MsgsOf[f]) /\ IsInjective(r.q) /\ r.offset \in 0 .. Len(r.q)
    BY <1>1, LenProperties DEF Fits, Syncs
  <2>2. a \in Seq(MsgsOf[f]) /\ IsInjective(a) /\ Len(a) = r.offset
    <3>1. PICK p \in Seq(MsgsOf[f]) : p = r.q /\ IsInjective(p)
      BY <2>1
    <3>2. PICK k \in 0 .. Len(p) : k = r.offset
      BY <2>1, <3>1
    <3>3. /\ SubSeq(p, 1, k) \in Seq(MsgsOf[f]) /\ IsInjective(SubSeq(p, 1, k))
          /\ Len(SubSeq(p, 1, k)) = k
      <4>1. IsInjective(p) /\ p \in Seq(MsgsOf[f]) /\ k \in 0 .. Len(p)
        BY <3>1, <3>2
      <4>2. SubSeq(p, 1, k) \in Seq(MsgsOf[f]) /\ IsInjective(SubSeq(p, 1, k))
        BY <4>1, Pieces
      <4>3. Len(SubSeq(p, 1, k)) = k
        <5>1. \A i \in 1 .. k : p[i] \in MsgsOf[f]
          BY <4>1, SeqPlain
        <5>2. 1 \in Int /\ k \in Int /\ (1 <= k \/ k = 0)
          BY <4>1, LenProperties
        <5> QED
          BY <5>1, <5>2, SubSeqProperties
      <4> QED
        BY <4>2, <4>3
    <3>4. a = SubSeq(p, 1, k)
      BY <1>2, <3>1, <3>2, Zenon
    <3> QED
      BY <3>1, <3>2, <3>3, <3>4, Zenon
  <2>3. ToSet(rest) \cap ToSet(a) = {}
    BY <1>1, <1>2
  <2>4. r.offset \in Nat
    BY <1>1 DEF Syncs
  <2> QED
    BY <2>2, <2>3, <2>4
<1>8. PICK head : head = SubSeq(rest, 1, n)
  OBVIOUS
<1>9. /\ head \in Seq(MsgsOf[f]) /\ IsInjective(head)
      /\ b \in Seq(MsgsOf[f]) /\ IsInjective(b)
      /\ ToSet(head) \cap ToSet(b) = {}
      /\ ToSet(head) \subseteq ToSet(rest) /\ ToSet(b) \subseteq ToSet(rest)
  BY <1>4, <1>8, Pieces
<1>10. /\ kept \in Seq(MsgsOf[f]) /\ IsInjective(kept) /\ ToSet(kept) \subseteq ToSet(head)
  BY <1>3, <1>8, <1>9, OnlyMembers
<1>11. PICK c : c = a \o kept
  OBVIOUS
<1>12. /\ c \in Seq(MsgsOf[f]) /\ IsInjective(c) /\ ToSet(c) = ToSet(a) \cup ToSet(kept)
       /\ Len(c) = r.offset + Len(kept)
  <2>1. ToSet(a) \cap ToSet(kept) = {}
    BY <1>7, <1>9, <1>10
  <2> QED
    BY <1>7, <1>10, <1>11, <2>1, Joined
<1>13. PICK q : q = c \o b
  OBVIOUS
<1>14. /\ q \in Seq(MsgsOf[f]) /\ IsInjective(q) /\ Len(q) = Len(c) + Len(b)
  <2>1. ToSet(c) \cap ToSet(b) = {}
    BY <1>7, <1>9, <1>10, <1>12
  <2> QED
    BY <1>9, <1>12, <1>13, <2>1, Joined
<1>15. Len(kept) \in Nat /\ Len(b) \in Nat /\ q \in Seq(Messages)
  BY <1>9, <1>10, <1>14, LenProperties, MessagesOfFolder
<1>16. s = [r EXCEPT !.q = q, !.last = r.offset, !.offset = r.offset + Len(kept),
                     !.changed = FALSE]
  BY <1>5, <1>11, <1>13
<1>17. /\ s.q = q /\ s.last = r.offset /\ s.offset = r.offset + Len(kept)
       /\ s.state = r.state /\ s.held = r.held /\ s.retry = r.retry /\ s.existing = r.existing
  BY <1>1, <1>16 DEF Syncs
<1>18. s \in Syncs
  <2>1. r.offset + Len(kept) \in Nat
    BY <1>7, <1>15
  <2> QED
    BY <1>1, <1>7, <1>15, <1>16, <2>1 DEF Syncs
<1>19. Fits(s, f)
  <2>1. Len(q) = r.offset + Len(kept) + Len(b)
    BY <1>12, <1>14
  <2>2. s.offset <= Len(s.q) /\ s.last <= s.offset
    BY <1>7, <1>15, <1>17, <2>1
  <2>3. s.retry <= GroupRetryCount /\ s.existing \in Seq(MsgsOf[f])
    BY <1>1, <1>17 DEF Fits
  <2> QED
    BY <1>14, <1>17, <2>2, <2>3 DEF Fits
<1>20. d.w = WithSync(w, f, s) /\ d.group = Bodies(w, rest, n)
  BY <1>6
<1>21. Bodies(w, rest, n) \subseteq MsgsOf[f]
  BY <1>8, <1>9, SeqPlain DEF Bodies
<1> QED
  BY <1>1, <1>17, <1>18, <1>19, <1>20, <1>21, Put

\* What a download does to its folder, if it begins, and if not.
Begun(w, v, f) ==
    /\ ~w.sync[f].held /\ v.sync[f].held
    /\ v.sync[f].state = "downloadInProgress"
    /\ Len(v.running[f]) = Len(w.running[f]) + 1
Still(w, v, f) ==
    /\ v.running[f] = w.running[f] /\ (~paused => v.sync[f].held = w.sync[f].held)
    /\ v.sync[f].state \in {w.sync[f].state, "readyToDownload"}

LEMMA DownloadDoes ==
    ASSUME NEW w, Typed(w), NEW f \in Folders, NEW limit, NEW d, d = Download(w, f, limit)
    PROVE  /\ Typed(d.w) /\ Changes(w, d.w, f)
           /\ d.rv \in {"ok", "failed", "notAvailable"}
           /\ d.rv = "ok" => Begun(w, d.w, f)
           /\ d.rv # "ok" => Still(w, d.w, f) /\ d.w.sync[f].state = w.sync[f].state
<1>1. CASE Pending(w.sync[f]) = 0
  <2>1. d = [w |-> w, rv |-> "notAvailable"]
    BY <1>1 DEF Download
  <2>2. d.w = w /\ d.rv = "notAvailable"
    BY <2>1
  <2> QED
    BY <2>2 DEF Changes, Still
<1>2. CASE Pending(w.sync[f]) # 0
  <2>1. PICK rest : rest = Sorted(w.sync[f])
    OBVIOUS
  <2>2. /\ rest \in Seq(MsgsOf[f]) /\ IsInjective(rest) /\ rest \in Seq(Messages)
        /\ ToSet(rest) \cap ToSet(SubSeq(w.sync[f].q, 1, w.sync[f].offset)) = {}
    BY <2>1, SyncTyped, SortedDoes, MessagesOfFolder
  <2>3. PICK n \in 0 .. Len(rest) : n = GroupLength(w, rest)
    BY <2>2, GroupLengthDoes
  <2>4. PICK next : next = Take(w, f, rest, n)
    OBVIOUS
  <2>5. /\ Typed(next.w) /\ Changes(w, next.w, f) /\ next.w.running = w.running
        /\ next.w.sync[f].state = w.sync[f].state /\ next.w.sync[f].held = w.sync[f].held
        /\ next.group \subseteq MsgsOf[f]
    BY <2>2, <2>4, TakeDoes
  <2>6. d = DownloadGroup(f, limit, next)
    BY <1>2, <2>1, <2>3, <2>4 DEF Download, NextGroup
  <2>7. CASE d = [w |-> next.w, rv |-> "notAvailable"] \/ d = [w |-> next.w, rv |-> "failed"]
    <3>1. d.w = next.w /\ d.rv \in {"failed", "notAvailable"}
      BY <2>7
    <3> QED
      BY <2>5, <3>1 DEF Still
  <2>8. ASSUME ~next.w.sync[f].held, NEW u,
               u = [next.w EXCEPT !.sync[f] = [@ EXCEPT !.held = TRUE,
                                                        !.state = "downloadInProgress"],
                                  !.running[f] = Append(@, next.group)],
               d = [w |-> u, rv |-> "ok"]
        PROVE  Typed(d.w) /\ Changes(w, d.w, f) /\ d.rv = "ok" /\ Begun(w, d.w, f)
    <3>1. PICK r : r = next.w.sync[f] /\ r \in Syncs /\ Fits(r, f)
      BY <2>5, SyncTyped
    <3>2. PICK s : s = [r EXCEPT !.held = TRUE, !.state = "downloadInProgress"]
      OBVIOUS
    <3>3. s \in Syncs /\ s.held = TRUE /\ s.state = "downloadInProgress"
      BY <3>1, <3>2 DEF Syncs, States
    <3>4. Fits(s, f)
      BY <3>1, <3>2 DEF Fits, Syncs
    <3>5. PICK groups : groups = Append(next.w.running[f], next.group)
      OBVIOUS
    <3>6. /\ groups \in Seq(SUBSET MsgsOf[f]) /\ groups \in Seq(SUBSET Messages)
          /\ Len(groups) = Len(w.running[f]) + 1
      <4>1. next.w.running[f] \in Seq(SUBSET MsgsOf[f]) /\ next.w.running[f] = w.running[f]
        BY <2>5, SyncTyped
      <4>2. next.group \in SUBSET MsgsOf[f] /\ MsgsOf[f] \subseteq Messages
        BY <2>5, MessagesOfFolder
      <4>3. groups \in Seq(SUBSET MsgsOf[f]) /\ Len(groups) = Len(w.running[f]) + 1
        <5>1. PICK old : old = next.w.running[f] /\ old \in Seq(SUBSET MsgsOf[f])
          BY <4>1
        <5>2. PICK G : G = SUBSET MsgsOf[f]
          OBVIOUS
        <5>3. PICK group \in G : group = next.group
          BY <4>2, <5>2
        <5>4. Append(old, group) \in Seq(G) /\ Len(Append(old, group)) = Len(old) + 1
          <6>1. old \in Seq(G)
            BY <5>1, <5>2
          <6> QED
            BY <6>1, AppendProperties
        <5> QED
          BY <3>5, <4>1, <5>1, <5>2, <5>3, <5>4
      <4>4. groups \in [1 .. Len(groups) -> SUBSET Messages]
        BY <4>2, <4>3, LenProperties
      <4> QED
        BY <4>3, <4>4, IsASeq, LenProperties
    <3>7. u = [next.w EXCEPT !.sync[f] = s, !.running[f] = groups]
      BY <2>8, <3>1, <3>2, <3>5
    <3>8. /\ u \in Works /\ u.pq = next.w.pq /\ u.message = next.w.message
          /\ u.sync[f] = s /\ u.running[f] = groups
          /\ \A g \in Folders : g # f => /\ u.sync[g] = next.w.sync[g]
                                         /\ u.running[g] = next.w.running[g]
      BY <2>5, <3>3, <3>6, <3>7 DEF Typed, Works
    <3>9. Typed(u)
      BY <2>5, <3>4, <3>6, <3>8 DEF Typed
    <3>10. Changes(w, u, f)
      BY <2>5, <3>8 DEF Changes
    <3>11. Begun(w, u, f)
      BY <2>5, <2>8, <3>3, <3>6, <3>8 DEF Begun
    <3>12. d.w = u /\ d.rv = "ok"
      BY <2>8
    <3> QED
      BY <3>9, <3>10, <3>11, <3>12
  <2>9. ASSUME paused, NEW u, u = [next.w EXCEPT !.sync[f].held = TRUE],
               d = [w |-> u, rv |-> "failed"]
        PROVE  /\ Typed(d.w) /\ Changes(w, d.w, f) /\ d.rv = "failed"
               /\ Still(w, d.w, f) /\ d.w.sync[f].state = w.sync[f].state
    <3>1. PICK r : r = next.w.sync[f] /\ r \in Syncs /\ Fits(r, f)
      BY <2>5, SyncTyped
    <3>2. PICK s : s = [r EXCEPT !.held = TRUE]
      OBVIOUS
    <3>3. s \in Syncs /\ s.state = r.state
      BY <3>1, <3>2 DEF Syncs
    <3>4. Fits(s, f)
      BY <3>1, <3>2 DEF Fits, Syncs
    <3>5. u = [next.w EXCEPT !.sync[f] = s]
      BY <2>9, <3>1, <3>2
    <3>6. /\ u \in Works /\ u.pq = next.w.pq /\ u.message = next.w.message
          /\ u.sync[f] = s /\ u.running = next.w.running
          /\ \A g \in Folders : g # f => u.sync[g] = next.w.sync[g]
      BY <2>5, <3>3, <3>5 DEF Typed, Works
    <3>7. Typed(u)
      BY <2>5, <3>4, <3>6 DEF Typed
    <3>8. Changes(w, u, f)
      BY <2>5, <3>6 DEF Changes
    <3>9. Still(w, u, f) /\ u.sync[f].state = w.sync[f].state
      BY <2>5, <2>9, <3>1, <3>3, <3>6 DEF Still
    <3>10. d.w = u /\ d.rv = "failed"
      BY <2>9
    <3> QED
      BY <3>7, <3>8, <3>9, <3>10
  <2> QED
    BY <2>6, <2>7, <2>8, <2>9 DEF DownloadGroup
<1> QED
  BY <1>1, <1>2

\* Folders that are each handled by themselves.
LEMMA HandledDoes ==
    ASSUME NEW w, Typed(w), NEW u, \A g \in Folders : Typed(u[g]),
           NEW v, v = Handled(w, u)
    PROVE  /\ Typed(v) /\ v.pq = w.pq /\ v.message = w.message
           /\ \A g \in Folders : v.sync[g] = u[g].sync[g] /\ v.running[g] = u[g].running[g]
<1>1. PICK objects : objects = [g \in Folders |-> u[g].sync[g]]
  OBVIOUS
<1>2. PICK groups : groups = [g \in Folders |-> u[g].running[g]]
  OBVIOUS
<1>3. v = [w EXCEPT !.sync = objects, !.running = groups]
  BY <1>1, <1>2 DEF Handled
<1>4. w \in Works
  BY DEF Typed
<1>5. ASSUME NEW g \in Folders
      PROVE  /\ u[g].sync[g] \in Syncs /\ Fits(u[g].sync[g], g)
             /\ u[g].running[g] \in Seq(SUBSET MsgsOf[g])
             /\ u[g].running[g] \in Seq(SUBSET Messages)
  <2>1. u[g] \in Works /\ Fits(u[g].sync[g], g) /\ u[g].running[g] \in Seq(SUBSET MsgsOf[g])
    BY DEF Typed
  <2>2. u[g].sync \in [Folders -> Syncs] /\ u[g].running \in [Folders -> Seq(SUBSET Messages)]
    BY <2>1 DEF Works
  <2> QED
    BY <2>1, <2>2
<1>6. objects \in [Folders -> Syncs] /\ groups \in [Folders -> Seq(SUBSET Messages)]
  BY <1>1, <1>2, <1>5
<1>7. /\ v \in Works /\ v.pq = w.pq /\ v.message = w.message
      /\ v.sync = objects /\ v.running = groups
  BY <1>3, <1>4, <1>6 DEF Works
<1>8. \A g \in Folders : v.sync[g] = u[g].sync[g] /\ v.running[g] = u[g].running[g]
  BY <1>1, <1>2, <1>7
<1>9. Typed(v)
  <2>1. IsInjective(v.pq)
    BY <1>7 DEF Typed
  <2>2. \A g \in Folders : Fits(v.sync[g], g) /\ v.running[g] \in Seq(SUBSET MsgsOf[g])
    BY <1>5, <1>8
  <2> QED
    BY <1>7, <2>1, <2>2 DEF Typed
<1> QED
  BY <1>7, <1>8, <1>9

\* A download that is tried again later when it fails.
LEMMA AttemptDoes ==
    ASSUME NEW w, Typed(w), NEW f \in Folders, NEW limit,
           NEW d, d = Download(w, f, limit), NEW v, v = Retried(d, f)
    PROVE  /\ Typed(v) /\ Changes(w, v, f)
           /\ d.rv = "ok" => Begun(w, v, f)
           /\ d.rv # "ok" => Still(w, v, f)
           /\ d.rv = "notAvailable" => v.sync[f].state = w.sync[f].state
<1>1. /\ Typed(d.w) /\ Changes(w, d.w, f)
      /\ d.rv = "ok" => Begun(w, d.w, f)
      /\ d.rv # "ok" => Still(w, d.w, f) /\ d.w.sync[f].state = w.sync[f].state
  BY DownloadDoes
<1>2. CASE d.rv # "failed"
  <2>1. v = d.w
    BY <1>2 DEF Retried
  <2> QED
    BY <1>1, <2>1
<1>3. CASE d.rv = "failed"
  <2>1. v = TryCurrentGroupAgain(d.w, f)
    BY <1>3 DEF Retried
  <2>2. /\ Typed(v) /\ Changes(d.w, v, f) /\ v.running = d.w.running
        /\ v.sync[f].state = "readyToDownload" /\ v.sync[f].held = d.w.sync[f].held
    BY <1>1, <2>1, TryAgainDoes
  <2>3. Changes(w, v, f)
    BY <1>1, <2>2 DEF Changes
  <2>4. Still(w, v, f)
    BY <1>1, <1>3, <2>2 DEF Still
  <2> QED
    BY <1>3, <2>2, <2>3, <2>4
<1> QED
  BY <1>2, <1>3

\* What trying the folders X and the ones behind them does: one of a server begins,
\* at most.
Kept(w, v, g) == v.sync[g] = w.sync[g] /\ v.running[g] = w.running[g]
Passes(w, v, X) ==
    /\ v.pq = w.pq /\ v.message = w.message
    /\ \A g \in Folders :
        \/ Kept(w, v, g)
        \/ \E f \in X : /\ Server[g] = Server[f] /\ (g = f \/ g \in ToSet(w.pq))
                        /\ Still(w, v, g) \/ Begun(w, v, g)
    /\ \A g, h \in Folders :
        Begun(w, v, g) /\ Begun(w, v, h) /\ Server[g] = Server[h] => g = h

\* A folder that kept what it had, or only became ready, has not begun.
LEMMA NotBegun ==
    ASSUME NEW w, Typed(w), NEW v, NEW g \in Folders, Kept(w, v, g) \/ Still(w, v, g)
    PROVE  ~Begun(w, v, g)
<1>1. Len(w.running[g]) \in Nat /\ v.running[g] = w.running[g]
  BY SyncTyped, LenProperties DEF Kept, Still
<1> QED
  BY <1>1 DEF Begun

LEMMA NextOnesDo ==
    ASSUME NEW w, Typed(w), NEW f \in Folders,
           NEW d, d = Download(w, f, 0), d.rv # "ok",
           NEW v, v = HandleDownloadError(d, f)
    PROVE  Typed(v) /\ Passes(w, v, {f}) /\ Still(w, v, f)
           /\ (d.rv = "notAvailable" => v.sync[f].state = w.sync[f].state)
<1>1. PICK x : x = Retried(d, f)
  OBVIOUS
<1>2. /\ Typed(x) /\ Changes(w, x, f) /\ Still(w, x, f)
      /\ d.rv = "notAvailable" => x.sync[f].state = w.sync[f].state
  BY <1>1, AttemptDoes
<1> DEFINE next == NextSiblings(x.pq, f)
           tried == {x.pq[k] : k \in {k \in next : \A j \in next :
                         j < k => Download(x, x.pq[j], 0).rv # "ok"}}
           u == [g \in Folders |-> IF g \in tried THEN Retried(Download(x, g, 0), g) ELSE x]
<1>3. v = Handled(x, u)
  BY <1>1 DEF HandleDownloadError
<1>4. /\ DOMAIN x.pq = 1 .. Len(x.pq) /\ Len(x.pq) \in Nat
      /\ \A k \in DOMAIN x.pq : x.pq[k] \in Folders /\ x.pq[k] \in ToSet(x.pq)
  BY <1>2, SyncTyped, SeqPlain
<1>5. \A k \in next : k \in DOMAIN x.pq /\ Siblings(f, x.pq[k])
  BY DEF NextSiblings
<1>6. ASSUME NEW g \in tried
      PROVE  /\ g \in Folders /\ g \in ToSet(x.pq) /\ Siblings(f, g)
             /\ \E k \in next : g = x.pq[k] /\ \A j \in next :
                                    j < k => Download(x, x.pq[j], 0).rv # "ok"
  BY <1>4, <1>5
<1>7. \A g \in Folders : u[g] = IF g \in tried THEN Retried(Download(x, g, 0), g) ELSE x
  OBVIOUS
<1> HIDE DEF tried, u
<1>8. ASSUME NEW g \in Folders
      PROVE  /\ Typed(u[g])
             /\ g \notin tried => u[g] = x
             /\ g \in tried /\ Download(x, g, 0).rv = "ok" => Begun(x, u[g], g)
             /\ g \in tried /\ Download(x, g, 0).rv # "ok" => Still(x, u[g], g)
  <2>1. CASE g \in tried
    <3>1. PICK e : e = Download(x, g, 0)
      OBVIOUS
    <3>2. PICK y : y = Retried(e, g)
      OBVIOUS
    <3>3. u[g] = y
      BY <1>7, <2>1, <3>1, <3>2
    <3>4. Typed(y) /\ (e.rv = "ok" => Begun(x, y, g)) /\ (e.rv # "ok" => Still(x, y, g))
      BY <1>2, <3>1, <3>2, AttemptDoes
    <3> QED
      BY <2>1, <3>1, <3>3, <3>4
  <2>2. CASE g \notin tried
    BY <1>2, <1>7, <2>2
  <2> QED
    BY <2>1, <2>2
<1>9. /\ Typed(v) /\ v.pq = x.pq /\ v.message = x.message
      /\ \A g \in Folders : v.sync[g] = u[g].sync[g] /\ v.running[g] = u[g].running[g]
  BY <1>2, <1>3, <1>8, HandledDoes
<1>10. \A g \in Folders : g \notin tried => Kept(x, v, g)
  BY <1>8, <1>9 DEF Kept
<1>11. \A g \in Folders : g \in tried =>
           /\ Download(x, g, 0).rv = "ok" => Begun(x, v, g)
           /\ Download(x, g, 0).rv # "ok" => Still(x, v, g)
  <2> TAKE g \in Folders
  <2>1. v.sync[g] = u[g].sync[g] /\ v.running[g] = u[g].running[g]
    BY <1>9
  <2>2. Begun(x, u[g], g) => Begun(x, v, g)
    BY <2>1 DEF Begun
  <2>3. Still(x, u[g], g) => Still(x, v, g)
    BY <2>1 DEF Still
  <2> QED
    BY <1>8, <2>2, <2>3
<1>12. \A g \in Folders : g # f => Kept(w, x, g)
  BY <1>2 DEF Changes, Kept
<1>13. f \notin tried /\ Kept(x, v, f)
  <2>1. f \notin tried
    BY <1>6 DEF Siblings
  <2> QED
    BY <1>10, <2>1
<1>14. Still(w, v, f) /\ v.sync[f].state = x.sync[f].state
  BY <1>2, <1>13 DEF Still, Kept
<1>15. v.pq = w.pq /\ v.message = w.message /\ x.pq = w.pq
  BY <1>2, <1>9 DEF Changes
<1>16. ASSUME NEW g \in Folders, g # f
       PROVE  /\ g \notin tried => Kept(w, v, g)
              /\ Begun(x, v, g) => Begun(w, v, g)
              /\ Still(x, v, g) => Still(w, v, g)
              /\ Begun(w, v, g) => g \in tried /\ Download(x, g, 0).rv = "ok"
  <2>1. Kept(w, x, g)
    BY <1>12, <1>16
  <2>2. g \notin tried => Kept(w, v, g)
    BY <1>10, <2>1 DEF Kept
  <2>3. (Begun(x, v, g) => Begun(w, v, g)) /\ (Still(x, v, g) => Still(w, v, g))
    BY <2>1 DEF Begun, Still, Kept
  <2>4. Begun(w, v, g) => g \in tried /\ Download(x, g, 0).rv = "ok"
    <3>1. Kept(w, v, g) \/ Still(w, v, g) => ~Begun(w, v, g)
      BY NotBegun
    <3> QED
      BY <1>11, <2>2, <2>3, <3>1
  <2> QED
    BY <2>2, <2>3, <2>4
<1>17. ~Begun(w, v, f)
  BY <1>14, NotBegun
<1>18. \A g \in Folders :
           \/ Kept(w, v, g)
           \/ /\ Server[g] = Server[f] /\ (g = f \/ g \in ToSet(w.pq))
              /\ Still(w, v, g) \/ Begun(w, v, g)
  <2> TAKE g \in Folders
  <2>1. CASE g = f
    BY <1>14, <2>1
  <2>2. CASE g # f /\ g \notin tried
    BY <1>16, <2>2
  <2>3. CASE g # f /\ g \in tried
    <3>1. Server[g] = Server[f] /\ g \in ToSet(w.pq)
      BY <1>6, <1>15, <2>3 DEF Siblings
    <3> QED
      BY <1>11, <1>16, <2>3, <3>1
  <2> QED
    BY <2>1, <2>2, <2>3
<1>19. \A g, h \in Folders : Begun(w, v, g) /\ Begun(w, v, h) => g = h
  <2> SUFFICES ASSUME NEW g \in Folders, NEW h \in Folders, Begun(w, v, g), Begun(w, v, h)
               PROVE  g = h
    OBVIOUS
  <2>1. /\ g \in tried /\ Download(x, g, 0).rv = "ok"
        /\ h \in tried /\ Download(x, h, 0).rv = "ok"
    BY <1>16, <1>17
  <2>2. PICK k \in next : g = x.pq[k] /\ \A j \in next :
                              j < k => Download(x, x.pq[j], 0).rv # "ok"
    BY <1>6, <2>1
  <2>3. PICK l \in next : h = x.pq[l] /\ \A j \in next :
                              j < l => Download(x, x.pq[j], 0).rv # "ok"
    BY <1>6, <2>1
  <2>4. ~(k < l) /\ ~(l < k)
    BY <2>1, <2>2, <2>3
  <2>5. k \in Int /\ l \in Int
    BY <1>4, <1>5
  <2> QED
    BY <2>2, <2>3, <2>4, <2>5
<1> QED
  BY <1>2, <1>9, <1>14, <1>15, <1>18, <1>19 DEF Passes

LEMMA DownloadOrNextDoes ==
    ASSUME NEW w, Typed(w), NEW f \in Folders, NEW v, v = DownloadOrNext(w, f)
    PROVE  /\ Typed(v) /\ Passes(w, v, {f})
           /\ Download(w, f, 0).rv # "ok" => Still(w, v, f)
           /\ Download(w, f, 0).rv = "notAvailable" => v.sync[f].state = w.sync[f].state
<1>1. PICK d : d = Download(w, f, 0)
  OBVIOUS
<1>2. v = IF d.rv = "ok" THEN d.w ELSE HandleDownloadError(d, f)
  BY <1>1 DEF DownloadOrNext, OrNext
<1>3. CASE d.rv = "ok"
  <2>1. v = d.w /\ Typed(v) /\ Changes(w, v, f) /\ Begun(w, v, f)
    BY <1>1, <1>2, <1>3, DownloadDoes
  <2>2. \A g \in Folders : g # f => Kept(w, v, g) /\ ~Begun(w, v, g)
    BY <2>1, NotBegun DEF Changes, Kept
  <2>3. Passes(w, v, {f})
    BY <2>1, <2>2 DEF Passes, Changes
  <2> QED
    BY <1>1, <1>3, <2>1, <2>3
<1>4. CASE d.rv # "ok"
  <2>1. v = HandleDownloadError(d, f)
    BY <1>2, <1>4
  <2> QED
    BY <1>1, <1>4, <2>1, NextOnesDo
<1> QED
  BY <1>3, <1>4

-----------------------------------------------------------------------------
(* What the handlers keep *)

\* A folder that is downloading has a group under way.
Waits(w) ==
    \A f \in Folders : w.sync[f].state = "downloadInProgress" => Len(w.running[f]) > 0

\* A folder downloads, holds its semaphore and has one group under way, or none of
\* these; it is in the queue while it downloads, the folders of the queue are
\* downloading or ready, and one folder of a server downloads.
Fair(w, f) ==
    /\ w.sync[f].held <=> w.sync[f].state = "downloadInProgress"
    /\ Len(w.running[f]) = IF w.sync[f].held THEN 1 ELSE 0
    /\ w.sync[f].held => f \in ToSet(w.pq)
    /\ f \in ToSet(w.pq) => w.sync[f].state \in {"readyToDownload", "downloadInProgress"}
Orderly(w) ==
    /\ \A f \in Folders : Fair(w, f)
    /\ \A f, g \in Folders : Siblings(f, g) => ~(w.sync[f].held /\ w.sync[g].held)

\* No folder of the server of f downloads.
Free(w, f) == \A g \in Folders : Server[g] = Server[f] => ~w.sync[g].held

LEMMA PassesWait ==
    ASSUME NEW w, Typed(w), Waits(w), NEW X, NEW v, Passes(w, v, X)
    PROVE  Waits(v)
<1> SUFFICES ASSUME NEW g \in Folders, v.sync[g].state = "downloadInProgress"
             PROVE  Len(v.running[g]) > 0
  BY DEF Waits
<1>1. Len(w.running[g]) \in Nat
  BY SyncTyped, LenProperties
<1>2. Kept(w, v, g) \/ Still(w, v, g) \/ Begun(w, v, g)
  BY DEF Passes
<1>3. CASE Kept(w, v, g)
  BY <1>3 DEF Kept, Waits
<1>4. CASE Still(w, v, g)
  BY <1>4 DEF Still, Waits
<1>5. CASE Begun(w, v, g)
  BY <1>1, <1>5 DEF Begun
<1> QED
  BY <1>2, <1>3, <1>4, <1>5

LEMMA PassesOrderly ==
    ASSUME ~paused, NEW w, Typed(w), Orderly(w), NEW X \in SUBSET Folders,
           \A f \in X : f \in ToSet(w.pq) /\ Free(w, f),
           NEW v, Passes(w, v, X)
    PROVE  Orderly(v)
<1>1. v.pq = w.pq
  BY DEF Passes
<1>2. ASSUME NEW g \in Folders
      PROVE  /\ v.sync[g].held => w.sync[g].held \/ Begun(w, v, g)
             /\ Begun(w, v, g) => Free(w, g)
             /\ Fair(v, g)
  <2>1. Fair(w, g)
    BY DEF Orderly
  <2>2. w.sync[g].held \in BOOLEAN
    BY SyncTyped DEF Syncs
  <2>3. CASE Kept(w, v, g)
    <3>1. ~Begun(w, v, g)
      BY <2>3, NotBegun
    <3> QED
      BY <1>1, <2>1, <2>3, <3>1 DEF Kept, Fair
  <2>4. ASSUME NEW f \in X, Server[g] = Server[f], g = f \/ g \in ToSet(w.pq)
        PROVE  g \in ToSet(w.pq) /\ Free(w, g) /\ ~w.sync[g].held
    <3>1. f \in Folders /\ Free(w, f) /\ f \in ToSet(w.pq)
      OBVIOUS
    <3> QED
      BY <2>4, <3>1 DEF Free
  <2>5. CASE g \in ToSet(w.pq) /\ Free(w, g) /\ ~w.sync[g].held /\ Still(w, v, g)
    <3>1. ~Begun(w, v, g)
      BY <2>5, NotBegun
    <3> QED
      BY <1>1, <2>1, <2>5, <3>1 DEF Still, Fair
  <2>6. CASE g \in ToSet(w.pq) /\ Free(w, g) /\ ~w.sync[g].held /\ Begun(w, v, g)
    BY <1>1, <2>1, <2>6 DEF Begun, Fair
  <2>7. \/ Kept(w, v, g)
        \/ \E f \in X : /\ Server[g] = Server[f] /\ (g = f \/ g \in ToSet(w.pq))
                        /\ Still(w, v, g) \/ Begun(w, v, g)
    BY DEF Passes
  <2>8. CASE ~Kept(w, v, g)
    <3>1. PICK f \in X : /\ Server[g] = Server[f] /\ (g = f \/ g \in ToSet(w.pq))
                         /\ Still(w, v, g) \/ Begun(w, v, g)
      BY <2>7, <2>8
    <3>2. g \in ToSet(w.pq) /\ Free(w, g) /\ ~w.sync[g].held
      BY <2>4, <3>1
    <3> QED
      BY <2>5, <2>6, <3>1, <3>2
  <2> QED
    BY <2>3, <2>8
<1>3. \A g, h \in Folders :
          Begun(w, v, g) /\ Begun(w, v, h) /\ Server[g] = Server[h] => g = h
  BY DEF Passes
<1>4. ASSUME NEW g \in Folders, NEW h \in Folders, Siblings(g, h),
             v.sync[g].held, v.sync[h].held
      PROVE  FALSE
  <2>1. g # h /\ Server[g] = Server[h]
    BY <1>4 DEF Siblings
  <2>2. CASE w.sync[g].held /\ w.sync[h].held
    BY <1>4, <2>2 DEF Orderly
  <2>3. CASE Begun(w, v, g)
    <3>1. ~w.sync[h].held
      BY <1>2, <2>1, <2>3 DEF Free
    <3> QED
      BY <1>2, <1>3, <1>4, <2>1, <2>3, <3>1
  <2>4. CASE Begun(w, v, h)
    <3>1. ~w.sync[g].held
      BY <1>2, <2>1, <2>4 DEF Free
    <3> QED
      BY <1>2, <1>3, <1>4, <2>1, <2>4, <3>1
  <2> QED
    BY <1>2, <1>4, <2>2, <2>3, <2>4
<1> QED
  BY <1>2, <1>4 DEF Orderly

\* The folder enters the queue, once.
LEMMA ScheduleDoes ==
    ASSUME NEW pq \in Seq(Folders), IsInjective(pq), NEW f \in Folders,
           NEW q, q = Schedule(pq, f)
    PROVE  /\ q \in Seq(Folders) /\ IsInjective(q) /\ ToSet(q) = ToSet(pq) \cup {f}
<1> DEFINE others == {k \in DOMAIN pq : Rank[pq[k]] <= Rank[f]}
<1>1. /\ DOMAIN pq = 1 .. Len(pq) /\ Len(pq) \in Nat
      /\ \A i \in 1 .. Len(pq) : pq[i] \in Folders
  BY SeqPlain
<1>2. PICK one : /\ one = <<f>> /\ one \in Seq(Folders) /\ IsInjective(one)
                 /\ ToSet(one) = {f} /\ Len(one) = 1
  <2>1. DOMAIN <<f>> = {1} /\ <<f>>[1] = f /\ <<f>> \in Seq(Folders) /\ Len(<<f>>) = 1
    OBVIOUS
  <2>2. PICK c : c = <<f>>
    OBVIOUS
  <2>3. DOMAIN c = {1} /\ c[1] = f /\ c \in Seq(Folders) /\ Len(c) = 1
    BY <2>1, <2>2
  <2>4. IsInjective(c) /\ ToSet(c) = {f}
    BY <2>3 DEF IsInjective, ToSet
  <2> QED
    BY <2>2, <2>3, <2>4
<1>3. /\ one \in Seq(Folders) /\ IsInjective(one) /\ ToSet(one) = {f} /\ Len(one) = 1
  BY <1>2, Zenon
<1>4. CASE f \in ToSet(pq)
  <2>1. q = pq
    BY <1>4 DEF Schedule
  <2> QED
    BY <1>4, <2>1
<1>5. CASE f \notin ToSet(pq) /\ others = {}
  <2>1. q = one \o pq
    BY <1>2, <1>5 DEF Schedule
  <2>2. ToSet(one) \cap ToSet(pq) = {}
    BY <1>2, <1>5
  <2>3. q \in Seq(Folders) /\ IsInjective(q) /\ ToSet(q) = ToSet(one) \cup ToSet(pq)
    BY <1>3, <2>1, <2>2, Joined
  <2> QED
    BY <1>3, <2>3
<1>6. CASE f \notin ToSet(pq) /\ others # {}
  <2>1. Max(others) \in others
    <3>1. others \in SUBSET (1 .. Len(pq)) /\ IsFiniteSet(1 .. Len(pq))
      BY <1>1, FS_Interval
    <3>2. IsFiniteSet(others) /\ others \subseteq Int
      BY <3>1, FS_Subset
    <3> HIDE DEF others
    <3> QED
      BY <1>6, <3>2, Extremes
  <2>2. PICK k : k = Max(others) /\ k \in 1 .. Len(pq)
    BY <1>1, <2>1
  <2>3. PICK p : p = IF Rank[pq[k]] < Rank[f] THEN k + 1 ELSE k
    OBVIOUS
  <2>4. PICK n : n = p - 1 /\ n \in 0 .. Len(pq) /\ p = n + 1
    <3>1. p - 1 \in 0 .. Len(pq) /\ p = p - 1 + 1
      BY <1>1, <2>2, <2>3
    <3> QED
      BY <3>1
  <2>5. q = InsertAt(pq, p, f)
    BY <1>6, <2>2, <2>3 DEF Schedule
  <2>6. PICK a : a = SubSeq(pq, 1, n)
    OBVIOUS
  <2>7. PICK b : b = SubSeq(pq, n + 1, Len(pq))
    OBVIOUS
  <2>8. q = (a \o one) \o b
    <3>1. q = SubSeq(pq, 1, p - 1) \o <<f>> \o SubSeq(pq, p, Len(pq))
      BY <2>5 DEF InsertAt
    <3>2. a = SubSeq(pq, 1, p - 1) /\ b = SubSeq(pq, p, Len(pq))
      BY <2>4, <2>6, <2>7, Zenon
    <3> QED
      BY <1>2, <3>1, <3>2, Zenon
  <2>9. /\ a \in Seq(Folders) /\ IsInjective(a) /\ b \in Seq(Folders) /\ IsInjective(b)
        /\ ToSet(a) \cap ToSet(b) = {}
        /\ ToSet(a) \subseteq ToSet(pq) /\ ToSet(b) \subseteq ToSet(pq)
    BY <2>4, <2>6, <2>7, Pieces
  <2>10. ToSet(pq) \subseteq ToSet(a) \cup ToSet(b)
    <3> SUFFICES ASSUME NEW x \in ToSet(pq)
                 PROVE  x \in ToSet(a) \cup ToSet(b)
      OBVIOUS
    <3>1. PICK i \in 1 .. Len(pq) : pq[i] = x
      BY SeqPlain
    <3>2. CASE i <= n
      <4>1. \A j \in 1 .. n : pq[j] \in Folders
        BY <1>1, <2>4
      <4>2. Len(a) = n /\ \A j \in 1 .. n : a[j] = pq[j]
        BY <2>4, <2>6, <4>1, SubSeqProperties
      <4>3. i \in 1 .. Len(a) /\ a[i] = x
        BY <1>1, <2>4, <3>1, <3>2, <4>2
      <4> QED
        BY <2>9, <4>3, SeqPlain
    <3>3. CASE ~(i <= n)
      <4>1. \A j \in n + 1 .. Len(pq) : pq[j] \in Folders
        BY <1>1, <2>4
      <4>2. /\ Len(b) = IF n + 1 <= Len(pq) THEN Len(pq) - (n + 1) + 1 ELSE 0
            /\ \A j \in 1 .. Len(pq) - (n + 1) + 1 : b[j] = pq[n + 1 + j - 1]
        BY <1>1, <2>4, <2>7, <4>1, SubSeqProperties
      <4>3. i - n \in 1 .. Len(pq) - (n + 1) + 1 /\ n + 1 + (i - n) - 1 = i /\ n + 1 <= Len(pq)
        BY <1>1, <2>4, <3>1, <3>3
      <4>4. i - n \in 1 .. Len(b) /\ b[i - n] = x
        BY <3>1, <4>2, <4>3
      <4> QED
        BY <2>9, <4>4, SeqPlain
    <3> QED
      BY <3>2, <3>3, <1>1, <2>4
  <2>11. PICK c : c = a \o one
    OBVIOUS
  <2>12. c \in Seq(Folders) /\ IsInjective(c) /\ ToSet(c) = ToSet(a) \cup {f}
    <3>1. ToSet(a) \cap ToSet(one) = {}
      BY <1>2, <1>6, <2>9
    <3>2. /\ c \in Seq(Folders) /\ IsInjective(c) /\ ToSet(c) = ToSet(a) \cup ToSet(one)
      BY <1>3, <2>9, <2>11, <3>1, Joined
    <3> QED
      BY <1>3, <3>2
  <2>13. /\ c \o b \in Seq(Folders) /\ IsInjective(c \o b)
         /\ ToSet(c \o b) = ToSet(c) \cup ToSet(b)
    <3>1. ToSet(c) \cap ToSet(b) = {}
      BY <1>6, <2>9, <2>12
    <3> QED
      BY <2>9, <2>12, <3>1, Joined
  <2> QED
    BY <2>8, <2>9, <2>10, <2>11, <2>12, <2>13
<1> QED
  BY <1>4, <1>5, <1>6

LEMMA DownloadPair ==
    ASSUME NEW w, NEW f, NEW limit
    PROVE  \E x, rv : Download(w, f, limit) = [w |-> x, rv |-> rv]
<1>1. ASSUME NEW next
      PROVE  \E x, rv : DownloadGroup(f, limit, next) = [w |-> x, rv |-> rv]
  BY DEF DownloadGroup
<1> QED
  BY <1>1 DEF Download

LEMMA ChangesPass ==
    ASSUME NEW w, Typed(w), NEW f \in Folders, NEW v, Changes(w, v, f),
           Still(w, v, f) \/ Begun(w, v, f)
    PROVE  Passes(w, v, {f})
<1>1. \A g \in Folders : g # f => Kept(w, v, g) /\ ~Begun(w, v, g)
  BY NotBegun DEF Changes, Kept
<1> QED
  BY <1>1 DEF Passes, Changes

LEMMA DownloadFirstDoes ==
    ASSUME NEW w, Typed(w), NEW f \in Folders, NEW e, e = DownloadFirst(w, f)
    PROVE  /\ Typed(e.w) /\ Changes(w, e.w, f) /\ Passes(w, e.w, {f})
           /\ ~paused /\ Orderly(w) /\ ~w.sync[f].held /\ f \in ToSet(w.pq) => Orderly(e.w)
<1> DEFINE Busy == \E g \in ToSet(w.pq) :
                       Siblings(f, g) /\ w.sync[g].state = "downloadInProgress"
<1>1. CASE Busy
  <2>1. e.w = w
    BY <1>1 DEF DownloadFirst
  <2>2. Still(w, w, f) /\ Changes(w, w, f)
    BY DEF Still, Changes
  <2>3. Passes(w, w, {f})
    BY <2>2, ChangesPass
  <2> QED
    BY <2>1, <2>2, <2>3
<1>2. CASE ~Busy
  <2>1. PICK limit : limit = IF idle = "notIdle" THEN FirstGroupSize ELSE 0
    OBVIOUS
  <2>2. PICK d : d = Download(w, f, limit)
    OBVIOUS
  <2>3. /\ Typed(d.w) /\ Changes(w, d.w, f)
        /\ d.rv = "ok" => Begun(w, d.w, f)
        /\ d.rv # "ok" => Still(w, d.w, f)
    BY <2>2, DownloadDoes
  <2>4. PICK x, rv : d = [w |-> x, rv |-> rv]
    BY <2>2, DownloadPair
  <2>5. e = OrAgain(d, f)
    BY <1>2, <2>1, <2>2 DEF DownloadFirst
  <2>6. Typed(e.w) /\ Changes(w, e.w, f) /\ (Still(w, e.w, f) \/ Begun(w, e.w, f))
    <3>1. CASE d.rv = "ok"
      <4>1. e = d
        BY <2>5, <3>1 DEF OrAgain
      <4> QED
        BY <2>3, <3>1, <4>1
    <3>2. CASE d.rv # "ok"
      <4>1. e.w = TryCurrentGroupAgain(d.w, f)
        BY <2>4, <2>5, <3>2 DEF OrAgain
      <4>2. /\ Typed(e.w) /\ Changes(d.w, e.w, f) /\ e.w.running = d.w.running
            /\ e.w.sync[f].state = "readyToDownload" /\ e.w.sync[f].held = d.w.sync[f].held
        BY <2>3, <4>1, TryAgainDoes
      <4>3. Changes(w, e.w, f)
        BY <2>3, <4>2 DEF Changes
      <4>4. Still(w, e.w, f)
        BY <2>3, <3>2, <4>2 DEF Still
      <4> QED
        BY <4>2, <4>3, <4>4
    <3> QED
      BY <3>1, <3>2
  <2>7. Passes(w, e.w, {f})
    BY <2>6, ChangesPass
  <2>8. ASSUME ~paused, Orderly(w), ~w.sync[f].held, f \in ToSet(w.pq)
        PROVE  Orderly(e.w)
    <3>1. Free(w, f)
      <4> SUFFICES ASSUME NEW g \in Folders, Server[g] = Server[f], w.sync[g].held
                   PROVE  FALSE
        BY DEF Free
      <4>1. g # f /\ Fair(w, g)
        BY <2>8 DEF Orderly
      <4>2. g \in ToSet(w.pq) /\ Siblings(f, g) /\ w.sync[g].state = "downloadInProgress"
        BY <4>1 DEF Fair, Siblings
      <4> QED
        BY <1>2, <4>2
    <3> QED
      BY <2>7, <2>8, <3>1, PassesOrderly
  <2> QED
    BY <2>6, <2>7, <2>8
<1> QED
  BY <1>1, <1>2

\* The folder becomes ready and enters the queue.
Queued(w, f) == [SetState(w, f, "readyToDownload") EXCEPT !.pq = Schedule(@, f)]

LEMMA ReadyDoes ==
    ASSUME NEW w, Typed(w), NEW f \in Folders, NEW v, v = Queued(w, f)
    PROVE  /\ Typed(v) /\ v.message = w.message /\ v.pq \in Seq(Folders)
           /\ ToSet(v.pq) = ToSet(w.pq) \cup {f} /\ v.running = w.running
           /\ v.sync[f].held = w.sync[f].held
           /\ \A g \in Folders : g # f => Kept(w, v, g)
           /\ Waits(w) => Waits(v)
           /\ Orderly(w) /\ ~w.sync[f].held => Orderly(v)
<1>1. PICK a : a = SetState(w, f, "readyToDownload")
  OBVIOUS
<1>2. /\ Typed(a) /\ Changes(w, a, f) /\ a.running = w.running
      /\ a.sync[f].state = "readyToDownload" /\ a.sync[f].held = w.sync[f].held
  <2>1. "readyToDownload" \in States
    BY DEF States
  <2> QED
    BY <1>1, <2>1, SetStateDoes
<1>3. PICK q : q = Schedule(a.pq, f)
  OBVIOUS
<1>4. q \in Seq(Folders) /\ IsInjective(q) /\ ToSet(q) = ToSet(a.pq) \cup {f}
  <2>1. a.pq \in Seq(Folders) /\ IsInjective(a.pq)
    BY <1>2, SyncTyped
  <2> QED
    BY <1>3, <2>1, ScheduleDoes
<1>5. v = [a EXCEPT !.pq = q]
  BY <1>1, <1>3 DEF Queued
<1>6. a \in Works
  BY <1>2 DEF Typed
<1>7. /\ v \in Works /\ v.pq = q /\ v.sync = a.sync /\ v.running = a.running
      /\ v.message = a.message
  BY <1>4, <1>5, <1>6 DEF Works
<1>8. Typed(v)
  BY <1>2, <1>4, <1>7 DEF Typed
<1>9. a.pq = w.pq /\ a.message = w.message /\ \A g \in Folders : g # f => Kept(w, v, g)
  BY <1>2, <1>7 DEF Changes, Kept
<1>10. v.sync[f].held = w.sync[f].held /\ v.sync[f].state = "readyToDownload"
  BY <1>2, <1>7
<1>11. ASSUME Waits(w) PROVE Waits(v)
  BY <1>2, <1>7, <1>9, <1>10, <1>11 DEF Waits, Kept
<1>12. ASSUME Orderly(w), ~w.sync[f].held PROVE Orderly(v)
  <2>1. ToSet(v.pq) = ToSet(w.pq) \cup {f}
    BY <1>4, <1>7, <1>9
  <2>2. Fair(v, f)
    BY <1>2, <1>7, <1>10, <1>12, <2>1 DEF Orderly, Fair
  <2>3. \A g \in Folders : g # f => Fair(v, g)
    BY <1>9, <1>12, <2>1 DEF Orderly, Fair, Kept
  <2>4. \A g \in Folders : v.sync[g].held = w.sync[g].held
    BY <1>9, <1>10 DEF Kept
  <2> QED
    BY <1>12, <2>2, <2>3, <2>4 DEF Orderly
<1> QED
  BY <1>2, <1>4, <1>7, <1>8, <1>9, <1>10, <1>11, <1>12

LEMMA QChangedDoes ==
    ASSUME NEW w, Typed(w), NEW f \in Folders, NEW v, v = OnDownloadQChanged(w, f).w
    PROVE  /\ Typed(v) /\ v.message = w.message
           /\ ToSet(v.pq) \subseteq ToSet(w.pq) \cup {f}
           /\ \A g \in Folders : g # f => Kept(w, v, g)
           /\ Waits(w) => Waits(v)
           /\ ~paused /\ Orderly(w) /\ ~w.sync[f].held => Orderly(v)
<1>1. CASE paused
  <2>1. v = w
    BY <1>1 DEF OnDownloadQChanged
  <2> QED
    BY <2>1 DEF Kept
<1>2. CASE ~paused
  <2>1. PICK a : a = Queued(w, f)
    OBVIOUS
  <2>2. /\ Typed(a) /\ a.message = w.message
        /\ ToSet(a.pq) = ToSet(w.pq) \cup {f} /\ a.running = w.running
        /\ a.sync[f].held = w.sync[f].held
        /\ \A g \in Folders : g # f => Kept(w, a, g)
        /\ Waits(w) => Waits(a)
        /\ Orderly(w) /\ ~w.sync[f].held => Orderly(a)
    BY <2>1, ReadyDoes
  <2>3. PICK e : e = DownloadFirst(a, f)
    OBVIOUS
  <2>4. v = e.w
    BY <1>2, <2>1, <2>3 DEF OnDownloadQChanged, Queued
  <2>5. /\ Typed(v) /\ Changes(a, v, f) /\ Passes(a, v, {f})
        /\ Orderly(a) /\ ~a.sync[f].held /\ f \in ToSet(a.pq) => Orderly(v)
    BY <1>2, <2>2, <2>3, <2>4, DownloadFirstDoes
  <2>6. Waits(a) => Waits(v)
    BY <2>2, <2>5, PassesWait
  <2>7. /\ v.message = w.message /\ ToSet(v.pq) = ToSet(w.pq) \cup {f}
        /\ \A g \in Folders : g # f => Kept(w, v, g)
    BY <2>2, <2>5 DEF Changes, Kept
  <2>8. f \in ToSet(a.pq)
    BY <2>2
  <2> QED
    BY <2>2, <2>5, <2>6, <2>7, <2>8
<1> QED
  BY <1>1, <1>2

\* A change of one folder's sync object that leaves its state and its semaphore alone.
LEMMA AlikeKeeps ==
    ASSUME NEW w, Typed(w), NEW f \in Folders, NEW v, Changes(w, v, f),
           v.running = w.running, v.sync[f].state = w.sync[f].state,
           v.sync[f].held = w.sync[f].held
    PROVE  /\ Waits(w) => Waits(v)
           /\ Orderly(w) => Orderly(v)
           /\ \A g \in Folders : g # f => Kept(w, v, g)
<1>1. \A g \in Folders : /\ v.sync[g].state = w.sync[g].state
                         /\ v.sync[g].held = w.sync[g].held
  BY DEF Changes
<1>2. v.pq = w.pq /\ \A g \in Folders : g # f => Kept(w, v, g)
  BY DEF Changes, Kept
<1>3. ASSUME Waits(w) PROVE Waits(v)
  BY <1>1, <1>3 DEF Waits
<1>4. ASSUME Orderly(w) PROVE Orderly(v)
  <2>1. \A g \in Folders : Fair(v, g)
    BY <1>1, <1>2, <1>4 DEF Orderly, Fair
  <2> QED
    BY <1>1, <1>4, <2>1 DEF Orderly
<1> QED
  BY <1>2, <1>3, <1>4

LEMMA PlaceDoes ==
    ASSUME NEW w, Typed(w), NEW f \in Folders, NEW keys \in SUBSET MsgsOf[f],
           NEW v, v = PlaceIntoDownloadQ(w, f, keys).w
    PROVE  /\ Typed(v) /\ v.message = w.message
           /\ ToSet(v.pq) \subseteq ToSet(w.pq) \cup {f}
           /\ \A g \in Folders : g # f => Kept(w, v, g)
           /\ Waits(w) => Waits(v)
           /\ ~paused /\ Orderly(w) /\ ~w.sync[f].held => Orderly(v)
<1>1. PICK r : r = w.sync[f] /\ r \in Syncs /\ Fits(r, f)
  BY SyncTyped
<1>2. PICK new : new = keys \ ToSet(r.q)
  OBVIOUS
<1>3. PICK more : more = Ascending(new)
  OBVIOUS
<1>4. PICK q : q = r.q \o more
  OBVIOUS
<1>5. PICK s : s = [r EXCEPT !.q = q, !.changed = r.changed \/ new # {}]
  OBVIOUS
<1>6. PICK a : a = WithSync(w, f, s)
  OBVIOUS
<1>7. PlaceIntoDownloadQ(w, f, keys) =
        IF keys # {} /\ a.sync[f].changed THEN OnDownloadQChanged(a, f) ELSE [w |-> a, rv |-> "ok"]
  BY <1>1, <1>2, <1>3, <1>4, <1>5, <1>6 DEF PlaceIntoDownloadQ, WithSync
<1>8. /\ more \in Seq(MsgsOf[f]) /\ IsInjective(more) /\ ToSet(more) \subseteq new
      /\ Len(more) \in Nat
  <2>1. IsFiniteSet(new) /\ new \subseteq Int /\ new \subseteq MsgsOf[f]
    <3>1. new \in SUBSET MsgsOf[f]
      BY <1>2
    <3> QED
      BY <3>1, MessagesOfFolder, FS_Subset
  <2>2. /\ more \in Seq(new) /\ Len(more) \in Nat /\ DOMAIN more = 1 .. Len(more)
        /\ \A i, j \in 1 .. Len(more) : more[i] = more[j] => i = j
    <3>1. /\ Cardinality(new) \in Nat /\ Len(more) = Cardinality(new)
          /\ more \in Seq(new) /\ DOMAIN more = 1 .. Cardinality(new)
          /\ \A i, j \in 1 .. Cardinality(new) : more[i] = more[j] => i = j
      BY <1>3, <2>1, AscendingMembers
    <3> QED
      BY <3>1
  <2>3. more \in [1 .. Len(more) -> new] /\ ToSet(more) \subseteq new
    BY <2>2, LenProperties, SeqPlain
  <2>4. more \in [1 .. Len(more) -> MsgsOf[f]]
    BY <2>1, <2>3
  <2> QED
    BY <2>2, <2>3, <2>4, IsASeq DEF IsInjective
<1>9. /\ q \in Seq(MsgsOf[f]) /\ IsInjective(q) /\ Len(q) = Len(r.q) + Len(more)
      /\ Len(r.q) \in Nat
  <2>1. PICK old : old = r.q /\ old \in Seq(MsgsOf[f]) /\ IsInjective(old)
    BY <1>1 DEF Fits
  <2>2. ToSet(old) \cap ToSet(more) = {} /\ q = old \o more
    BY <1>2, <1>4, <1>8, <2>1
  <2>3. q \in Seq(MsgsOf[f]) /\ IsInjective(q) /\ Len(q) = Len(old) + Len(more)
    BY <1>8, <2>1, <2>2, Joined
  <2> QED
    BY <2>1, <2>3, LenProperties
<1>10. /\ s \in Syncs /\ s.q = q /\ s.state = r.state /\ s.held = r.held
       /\ s.offset = r.offset /\ s.last = r.last /\ s.retry = r.retry /\ s.existing = r.existing
  <2>1. q \in Seq(Messages) /\ (r.changed \/ new # {}) \in BOOLEAN
    BY <1>9, MessagesOfFolder
  <2> QED
    BY <1>1, <1>5, <2>1 DEF Syncs
<1>11. Fits(s, f)
  <2>1. r.offset \in Nat /\ r.last \in Nat
    BY <1>1 DEF Syncs
  <2>2. s.offset <= Len(s.q) /\ s.last <= s.offset
    BY <1>1, <1>8, <1>9, <1>10, <2>1 DEF Fits
  <2>3. s.retry <= GroupRetryCount /\ s.existing \in Seq(MsgsOf[f])
    BY <1>1, <1>10 DEF Fits
  <2> QED
    BY <1>9, <1>10, <2>2, <2>3 DEF Fits
<1>12. /\ Typed(a) /\ Changes(w, a, f) /\ a.running = w.running
       /\ a.sync[f].state = w.sync[f].state /\ a.sync[f].held = w.sync[f].held
  BY <1>1, <1>6, <1>10, <1>11, Put
<1>13. /\ a.pq = w.pq /\ a.message = w.message
       /\ \A g \in Folders : g # f => Kept(w, a, g)
       /\ Waits(w) => Waits(a)
       /\ Orderly(w) => Orderly(a)
  BY <1>12, AlikeKeeps DEF Changes
<1>14. CASE keys # {} /\ a.sync[f].changed
  <2>1. v = OnDownloadQChanged(a, f).w
    BY <1>7, <1>14
  <2>2. /\ Typed(v) /\ v.message = a.message
        /\ ToSet(v.pq) \subseteq ToSet(a.pq) \cup {f}
        /\ \A g \in Folders : g # f => Kept(a, v, g)
        /\ Waits(a) => Waits(v)
        /\ ~paused /\ Orderly(a) /\ ~a.sync[f].held => Orderly(v)
    BY <1>12, <2>1, QChangedDoes
  <2>3. \A g \in Folders : g # f => Kept(w, v, g)
    BY <1>13, <2>2 DEF Kept
  <2> QED
    BY <1>12, <1>13, <2>2, <2>3
<1>15. CASE ~(keys # {} /\ a.sync[f].changed)
  <2>1. v = a
    BY <1>7, <1>15
  <2> QED
    BY <1>12, <1>13, <2>1
<1> QED
  BY <1>14, <1>15

\* The end of a download.  Ended: the record the handler is called with, the group
\* gone and the semaphore released.
Ended(w, f) ==
    /\ f \in ToSet(w.pq) /\ Len(w.running[f]) = 0 /\ Free(w, f)
    /\ \A g \in Folders : g # f => Fair(w, g)
    /\ \A g, h \in Folders : Siblings(g, h) => ~(w.sync[g].held /\ w.sync[h].held)
OthersWait(w, f) ==
    \A g \in Folders \ {f} :
        w.sync[g].state = "downloadInProgress" => Len(w.running[g]) > 0

\* The folder of the ended download settles.
Settles(w, v, f) ==
    /\ v.message = w.message /\ v.running = w.running
    /\ \A g \in Folders : g # f => v.sync[g] = w.sync[g]
    /\ v.sync[f].state \in {"readyToDownload", "completedIdle"}
    /\ v.sync[f].held = w.sync[f].held
    /\ ToSet(v.pq) \subseteq ToSet(w.pq)
    /\ \A g \in ToSet(w.pq) : g # f => g \in ToSet(v.pq)
    /\ f \in ToSet(v.pq) => v.sync[f].state = "readyToDownload"

LEMMA SettlesKeeps ==
    ASSUME NEW w, Typed(w), NEW f \in Folders, NEW v, Typed(v), Settles(w, v, f)
    PROVE  /\ OthersWait(w, f) => Waits(v)
           /\ Ended(w, f) => Orderly(v) /\ Free(v, f)
<1>1. ASSUME OthersWait(w, f) PROVE Waits(v)
  BY <1>1 DEF OthersWait, Waits, Settles
<1>2. ASSUME Ended(w, f) PROVE Orderly(v) /\ Free(v, f)
  <2>1. \A g \in Folders : v.sync[g].held = w.sync[g].held
    BY DEF Settles
  <2>2. ~w.sync[f].held
    BY <1>2 DEF Ended, Free
  <2>3. Fair(v, f)
    BY <1>2, <2>1, <2>2 DEF Settles, Ended, Fair
  <2>4. ASSUME NEW g \in Folders, g # f PROVE Fair(v, g)
    <3>1. g \in ToSet(v.pq) <=> g \in ToSet(w.pq)
      BY <2>4 DEF Settles
    <3>2. Fair(w, g) /\ v.sync[g] = w.sync[g] /\ v.running = w.running
      BY <1>2, <2>4 DEF Settles, Ended
    <3> QED
      BY <3>1, <3>2 DEF Fair
  <2>5. Orderly(v)
    BY <1>2, <2>1, <2>3, <2>4 DEF Orderly, Ended
  <2> QED
    BY <1>2, <2>1, <2>5 DEF Free, Ended
<1> QED
  BY <1>1, <1>2

\* The folders of a set leave the queue.
Without(w, gone) == [w EXCEPT !.pq = Only(@, Folders \ gone)]

LEMMA LeaveDoes ==
    ASSUME NEW w, Typed(w), NEW gone, NEW v, v = Without(w, gone)
    PROVE  /\ Typed(v) /\ v.sync = w.sync /\ v.running = w.running /\ v.message = w.message
           /\ ToSet(v.pq) = ToSet(w.pq) \ gone
<1>1. PICK q : q = Only(w.pq, Folders \ gone)
  OBVIOUS
<1>2. w.pq \in Seq(Folders) /\ IsInjective(w.pq) /\ ToSet(w.pq) \subseteq Folders
  BY SyncTyped, SeqPlain DEF Typed, Works
<1>3. /\ q \in Seq(Folders) /\ IsInjective(q)
      /\ ToSet(q) = ToSet(w.pq) \cap (Folders \ gone)
  BY <1>1, <1>2, OnlyMembers
<1>4. v = [w EXCEPT !.pq = q]
  BY <1>1 DEF Without
<1>5. w \in Works
  BY DEF Typed
<1>6. /\ v \in Works /\ v.pq = q /\ v.sync = w.sync /\ v.running = w.running
      /\ v.message = w.message
  BY <1>3, <1>4, <1>5 DEF Works
<1>7. Typed(v)
  BY <1>3, <1>6 DEF Typed
<1> QED
  BY <1>2, <1>3, <1>6, <1>7

\* The folder that comes next.
LEMMA NextFolderIs ==
    ASSUME NEW w, Typed(w), NEW f \in Folders, NEW more, NEW g \in NextFolder(w, f, more)
    PROVE  /\ g \in Folders /\ Server[g] = Server[f]
           /\ g \in ToSet(w.pq) \/ (g = f /\ more)
<1> DEFINE siblings == {k \in DOMAIN w.pq : Siblings(f, w.pq[k])}
<1>1. /\ w.pq \in Seq(Folders) /\ Len(w.pq) \in Nat /\ DOMAIN w.pq = 1 .. Len(w.pq)
      /\ \A k \in 1 .. Len(w.pq) : w.pq[k] \in Folders /\ w.pq[k] \in ToSet(w.pq)
  BY SyncTyped, SeqPlain
<1>2. siblings # {} => Min(siblings) \in siblings
  <2>1. siblings \in SUBSET (1 .. Len(w.pq)) /\ IsFiniteSet(1 .. Len(w.pq))
    BY <1>1, FS_Interval
  <2>2. IsFiniteSet(siblings) /\ siblings \subseteq Int
    BY <2>1, FS_Subset
  <2> HIDE DEF siblings
  <2> QED
    BY <2>2, Extremes
<1>3. \/ siblings # {} /\ g = w.pq[Min(siblings)]
      \/ g = f /\ more
  BY DEF NextFolder
<1>4. ASSUME siblings # {}, g = w.pq[Min(siblings)]
      PROVE  /\ g \in Folders /\ Server[g] = Server[f]
             /\ g \in ToSet(w.pq)
  <2>1. PICK k : k = Min(siblings) /\ k \in 1 .. Len(w.pq) /\ Siblings(f, w.pq[k])
    BY <1>1, <1>2, <1>4
  <2> QED
    BY <1>1, <1>4, <2>1 DEF Siblings
<1> QED
  BY <1>3, <1>4

LEMMA CompletedDoes ==
    ASSUME NEW w, Typed(w), NEW f \in Folders, NEW ok,
           NEW v, v = OnDownloadCompleted(w, f, ok)
    PROVE  /\ Typed(v) /\ v.message = w.message /\ ToSet(v.pq) \subseteq ToSet(w.pq)
           /\ \A g \in Folders : g # f => Kept(w, v, g) \/ g \in ToSet(w.pq)
           /\ OthersWait(w, f) => Waits(v)
           /\ ~paused /\ Ended(w, f) => Orderly(v)
<1>1. \E x : /\ Typed(x) /\ Settles(w, x, f)
             /\ \/ v = x
                \/ \E g \in Folders : /\ v = DownloadOrNext(x, g) /\ Server[g] = Server[f]
                                      /\ g = f \/ g \in ToSet(x.pq)
                                      /\ Ended(w, f) => g \in ToSet(x.pq)
  <2>1. CASE ~ok
    <3>1. PICK x : x = TryCurrentGroupAgain(w, f)
      OBVIOUS
    <3>2. /\ Typed(x) /\ Changes(w, x, f) /\ x.running = w.running
          /\ x.sync[f].state = "readyToDownload" /\ x.sync[f].held = w.sync[f].held
      BY <3>1, TryAgainDoes
    <3>3. Settles(w, x, f)
      BY <3>2 DEF Changes, Settles
    <3>4. v = x \/ v = DownloadOrNext(x, f)
      BY <2>1, <3>1 DEF OnDownloadCompleted
    <3>5. Ended(w, f) => f \in ToSet(x.pq)
      BY <3>2 DEF Ended, Changes
    <3> QED
      BY <3>2, <3>3, <3>4, <3>5
  <2>2. CASE ok
    <3>1. PICK r : r = w.sync[f] /\ r \in Syncs /\ Fits(r, f)
      BY SyncTyped
    <3>2. PICK s : s = [r EXCEPT !.retry = 0]
      OBVIOUS
    <3>3. PICK reset : reset = WithSync(w, f, s)
      OBVIOUS
    <3>4. reset = [w EXCEPT !.sync[f].retry = 0]
      BY <3>1, <3>2, <3>3 DEF WithSync
    <3>5. s \in Syncs /\ Fits(s, f) /\ s.held = r.held
      <4>1. s \in Syncs /\ s.held = r.held
        BY <3>1, <3>2 DEF Syncs
      <4>2. /\ s.q = r.q /\ s.offset = r.offset /\ s.last = r.last
            /\ s.existing = r.existing /\ s.retry = 0
        BY <3>1, <3>2 DEF Syncs
      <4>3. 0 <= GroupRetryCount
        BY AutoSyncConstants
      <4>4. Fits(s, f)
        BY <3>1, <4>2, <4>3 DEF Fits
      <4> QED
        BY <4>1, <4>4
    <3>6. /\ Typed(reset) /\ Changes(w, reset, f) /\ reset.running = w.running
          /\ reset.sync[f].held = w.sync[f].held
      BY <3>1, <3>3, <3>5, Put
    <3>7. PICK more : more = (Pending(w.sync[f]) > 0)
      OBVIOUS
    <3>8. \E x : /\ v = ContinueWith(x, NextFolder(x, f, more))
                 /\ Typed(x) /\ Settles(w, x, f)
                 /\ more => ToSet(x.pq) = ToSet(w.pq)
      <4>1. CASE more
        <5>1. PICK x : x = SetState(reset, f, "readyToDownload")
          OBVIOUS
        <5>2. v = ContinueWith(x, NextFolder(x, f, more))
          BY <2>2, <3>4, <3>7, <4>1, <5>1 DEF OnDownloadCompleted
        <5>3. /\ Typed(x) /\ Changes(reset, x, f) /\ x.running = reset.running
              /\ x.sync[f].state = "readyToDownload" /\ x.sync[f].held = reset.sync[f].held
          <6>1. "readyToDownload" \in States
            BY DEF States
          <6> QED
            BY <3>6, <5>1, <6>1, SetStateDoes
        <5>4. Settles(w, x, f) /\ ToSet(x.pq) = ToSet(w.pq)
          BY <3>6, <5>3 DEF Changes, Settles
        <5> QED
          BY <5>2, <5>3, <5>4
      <4>2. CASE ~more
        <5>1. PICK y : y = SetState(reset, f, "completedIdle")
          OBVIOUS
        <5>2. PICK x : x = Without(y, {f})
          OBVIOUS
        <5>3. v = ContinueWith(x, NextFolder(x, f, more))
          BY <2>2, <3>4, <3>7, <4>2, <5>1, <5>2 DEF OnDownloadCompleted, Without
        <5>4. /\ Typed(y) /\ Changes(reset, y, f) /\ y.running = reset.running
              /\ y.sync[f].state = "completedIdle" /\ y.sync[f].held = reset.sync[f].held
          <6>1. "completedIdle" \in States
            BY DEF States
          <6> QED
            BY <3>6, <5>1, <6>1, SetStateDoes
        <5>5. /\ Typed(x) /\ x.sync = y.sync /\ x.running = y.running /\ x.message = y.message
              /\ ToSet(x.pq) = ToSet(y.pq) \ {f}
          BY <5>2, <5>4, LeaveDoes
        <5>6. y.pq = w.pq /\ y.message = w.message
          BY <3>6, <5>4 DEF Changes
        <5>7. Settles(w, x, f)
          BY <3>6, <5>4, <5>5, <5>6 DEF Changes, Settles
        <5> QED
          BY <4>2, <5>3, <5>5, <5>7
      <4> QED
        BY <4>1, <4>2
    <3>9. PICK x : /\ v = ContinueWith(x, NextFolder(x, f, more))
                   /\ Typed(x) /\ Settles(w, x, f)
                   /\ more => ToSet(x.pq) = ToSet(w.pq)
      BY <3>8
    <3>10. CASE v = x
      BY <3>9, <3>10
    <3>11. CASE v # x
      <4>1. /\ NextFolder(x, f, more) # {}
            /\ v = DownloadOrNext(x, CHOOSE g \in NextFolder(x, f, more) : TRUE)
        BY <3>9, <3>11 DEF ContinueWith
      <4>2. PICK g : g = CHOOSE h \in NextFolder(x, f, more) : TRUE
        OBVIOUS
      <4>3. g \in NextFolder(x, f, more)
        BY <4>1, <4>2
      <4>4. /\ g \in Folders /\ Server[g] = Server[f]
            /\ g \in ToSet(x.pq) \/ (g = f /\ more)
        BY <3>9, <4>3, NextFolderIs
      <4>5. Ended(w, f) => g \in ToSet(x.pq)
        BY <3>9, <4>4 DEF Ended
      <4> QED
        BY <3>9, <4>1, <4>2, <4>4, <4>5
    <3> QED
      BY <3>10, <3>11
  <2> QED
    BY <2>1, <2>2
<1>2. PICK x : /\ Typed(x) /\ Settles(w, x, f)
               /\ \/ v = x
                  \/ \E g \in Folders : /\ v = DownloadOrNext(x, g) /\ Server[g] = Server[f]
                                        /\ g = f \/ g \in ToSet(x.pq)
                                        /\ Ended(w, f) => g \in ToSet(x.pq)
  BY <1>1
<1>3. /\ OthersWait(w, f) => Waits(x)
      /\ Ended(w, f) => Orderly(x) /\ Free(x, f)
  BY <1>2, SettlesKeeps
<1>4. /\ x.message = w.message /\ ToSet(x.pq) \subseteq ToSet(w.pq)
      /\ \A g \in Folders : g # f => Kept(w, x, g)
  BY <1>2 DEF Settles, Kept
<1>5. CASE v = x
  BY <1>2, <1>3, <1>4, <1>5
<1>6. ASSUME NEW g \in Folders, v = DownloadOrNext(x, g), Server[g] = Server[f],
             g = f \/ g \in ToSet(x.pq), Ended(w, f) => g \in ToSet(x.pq)
      PROVE  /\ Typed(v) /\ v.message = w.message /\ ToSet(v.pq) \subseteq ToSet(w.pq)
             /\ \A h \in Folders : h # f => Kept(w, v, h) \/ h \in ToSet(w.pq)
             /\ OthersWait(w, f) => Waits(v)
             /\ ~paused /\ Ended(w, f) => Orderly(v)
  <2>1. Typed(v) /\ Passes(x, v, {g})
    BY <1>2, <1>6, DownloadOrNextDoes
  <2>2. OthersWait(w, f) => Waits(v)
    BY <1>2, <1>3, <2>1, PassesWait
  <2>3. ASSUME ~paused, Ended(w, f) PROVE Orderly(v)
    <3>1. Orderly(x) /\ Free(x, g) /\ g \in ToSet(x.pq)
      BY <1>3, <1>6, <2>3 DEF Free
    <3>2. {g} \in SUBSET Folders /\ \A h \in {g} : h \in ToSet(x.pq) /\ Free(x, h)
      BY <3>1
    <3> QED
      BY <1>2, <2>1, <2>3, <3>1, <3>2, PassesOrderly
  <2>4. v.message = x.message /\ v.pq = x.pq
    BY <2>1 DEF Passes
  <2>5. \A h \in Folders : h # f => Kept(w, v, h) \/ h \in ToSet(w.pq)
    <3> SUFFICES ASSUME NEW h \in Folders, h # f, h \notin ToSet(w.pq)
                 PROVE  Kept(w, v, h)
      OBVIOUS
    <3>1. Kept(x, v, h) \/ h = g \/ h \in ToSet(x.pq)
      BY <2>1 DEF Passes
    <3>2. h # g /\ h \notin ToSet(x.pq)
      BY <1>4, <1>6
    <3> QED
      BY <1>4, <3>1, <3>2 DEF Kept
  <2> QED
    BY <1>4, <2>1, <2>2, <2>3, <2>4, <2>5
<1> QED
  BY <1>2, <1>5, <1>6

\* The start of an idle time.  The folder of the places S in the queue whose turn it is.
Turn(w, S) ==
    LET busy == {k \in S : k > Min(S) /\ w.sync[w.pq[k]].state = "downloadInProgress"}
    IN  w.pq[IF busy = {} THEN Min(S) ELSE Max(busy)]

LEMMA TurnIs ==
    ASSUME NEW w, Typed(w), NEW f \in ToSet(w.pq), NEW g, g = Turn(w, Same(w.pq, f))
    PROVE  /\ g \in ToSet(w.pq) /\ g \in Folders /\ Server[g] = Server[f]
           /\ \A h \in ToSet(w.pq) :
                 Server[h] = Server[f] /\ w.sync[h].state = "downloadInProgress"
                     => w.sync[g].state = "downloadInProgress"
<1> DEFINE S == Same(w.pq, f)
           busy == {k \in S : k > Min(S) /\ w.sync[w.pq[k]].state = "downloadInProgress"}
<1>1. /\ w.pq \in Seq(Folders) /\ Len(w.pq) \in Nat /\ DOMAIN w.pq = 1 .. Len(w.pq)
      /\ \A k \in 1 .. Len(w.pq) : w.pq[k] \in Folders /\ w.pq[k] \in ToSet(w.pq)
      /\ \A x \in ToSet(w.pq) : \E k \in 1 .. Len(w.pq) : w.pq[k] = x
  <2>1. PICK s : s = w.pq /\ s \in Seq(Folders)
    BY DEF Typed, Works
  <2> QED
    BY <2>1, SeqPlain
<1>2. /\ S \in SUBSET (1 .. Len(w.pq))
      /\ \A k \in 1 .. Len(w.pq) : k \in S <=> Server[w.pq[k]] = Server[f]
  BY <1>1 DEF Same
<1>3. g = w.pq[IF busy = {} THEN Min(S) ELSE Max(busy)]
  BY DEF Turn
<1>4. busy \in SUBSET S /\ \A k \in busy : w.sync[w.pq[k]].state = "downloadInProgress"
  OBVIOUS
<1>5. \A k \in S : k > Min(S) /\ w.sync[w.pq[k]].state = "downloadInProgress" => k \in busy
  OBVIOUS
<1> HIDE DEF S, busy
<1>6. IsFiniteSet(S) /\ IsFiniteSet(busy) /\ S \subseteq Int /\ busy \subseteq Int
  <2>1. IsFiniteSet(1 .. Len(w.pq))
    BY <1>1, FS_Interval
  <2>2. IsFiniteSet(S) /\ S \subseteq Int
    BY <1>2, <2>1, FS_Subset
  <2>3. IsFiniteSet(busy) /\ busy \subseteq Int
    BY <1>4, <2>2, FS_Subset
  <2> QED
    BY <2>2, <2>3
<1>7. Min(S) \in S /\ \A k \in S : Min(S) <= k
  <2>1. PICK k \in 1 .. Len(w.pq) : w.pq[k] = f
    BY <1>1
  <2>2. k \in S
    BY <1>2, <2>1
  <2> QED
    BY <1>6, <2>2, Extremes
<1>8. busy # {} => Max(busy) \in busy
  BY <1>6, Extremes
<1>9. PICK p : p = IF busy = {} THEN Min(S) ELSE Max(busy)
  OBVIOUS
<1>10. p \in S /\ g = w.pq[p]
  BY <1>3, <1>4, <1>7, <1>8, <1>9
<1>11. g \in ToSet(w.pq) /\ g \in Folders /\ Server[g] = Server[f]
  BY <1>1, <1>2, <1>10
<1>12. ASSUME NEW h \in ToSet(w.pq), Server[h] = Server[f],
              w.sync[h].state = "downloadInProgress"
       PROVE  w.sync[g].state = "downloadInProgress"
  <2>1. PICK j \in 1 .. Len(w.pq) : w.pq[j] = h
    BY <1>1
  <2>2. j \in S /\ w.sync[w.pq[j]].state = "downloadInProgress"
    BY <1>2, <1>12, <2>1
  <2>3. CASE busy # {}
    <3>1. p \in busy
      BY <1>8, <1>9, <2>3
    <3> QED
      BY <1>4, <1>10, <3>1
  <2>4. CASE busy = {}
    <3>1. ~(j > Min(S))
      BY <1>5, <2>2, <2>4
    <3>2. j = Min(S)
      BY <1>6, <1>7, <2>2, <3>1
    <3> QED
      BY <1>9, <1>10, <2>2, <2>4, <3>2
  <2> QED
    BY <2>3, <2>4
<1> QED
  BY <1>11, <1>12

LEMMA ReadyAre ==
    ASSUME NEW w, Typed(w)
    PROVE  /\ \A g \in Ready(w) :
                 /\ g \in Folders /\ g \in ToSet(w.pq) /\ w.sync[g].state = "readyToDownload"
                 /\ Orderly(w) => Free(w, g)
           /\ \A g, h \in Ready(w) : Server[g] = Server[h] => g = h
<1>1. Chained(w) = {Turn(w, Same(w.pq, f)) : f \in ToSet(w.pq)}
  BY DEF Chained, Turn
<1>2. ASSUME NEW g \in Ready(w)
      PROVE  /\ w.sync[g].state = "readyToDownload"
             /\ \E f \in ToSet(w.pq) : g = Turn(w, Same(w.pq, f))
  BY <1>1 DEF Ready
<1>3. ASSUME NEW g \in Ready(w)
      PROVE  /\ g \in Folders /\ g \in ToSet(w.pq) /\ w.sync[g].state = "readyToDownload"
             /\ Orderly(w) => Free(w, g)
  <2>1. PICK f \in ToSet(w.pq) : g = Turn(w, Same(w.pq, f))
    BY <1>2
  <2>2. /\ g \in ToSet(w.pq) /\ g \in Folders /\ Server[g] = Server[f]
        /\ \A h \in ToSet(w.pq) :
              Server[h] = Server[f] /\ w.sync[h].state = "downloadInProgress"
                  => w.sync[g].state = "downloadInProgress"
    BY <2>1, TurnIs
  <2>3. ASSUME Orderly(w), NEW h \in Folders, Server[h] = Server[g], w.sync[h].held
        PROVE  FALSE
    <3>1. h \in ToSet(w.pq) /\ w.sync[h].state = "downloadInProgress"
      BY <2>3 DEF Orderly, Fair
    <3> QED
      BY <1>2, <2>2, <2>3, <3>1
  <2>4. Orderly(w) => Free(w, g)
    BY <2>3 DEF Free
  <2> QED
    BY <1>2, <2>2, <2>4
<1>4. ASSUME NEW g \in Ready(w), NEW h \in Ready(w), Server[g] = Server[h]
      PROVE  g = h
  <2>1. PICK e \in ToSet(w.pq) : g = Turn(w, Same(w.pq, e))
    BY <1>2
  <2>2. PICK f \in ToSet(w.pq) : h = Turn(w, Same(w.pq, f))
    BY <1>2
  <2>3. Server[e] = Server[f]
    <3>1. Server[g] = Server[e] /\ Server[h] = Server[f]
      BY <2>1, <2>2, TurnIs
    <3> QED
      BY <1>4, <3>1
  <2>4. Same(w.pq, e) = Same(w.pq, f)
    BY <2>3 DEF Same
  <2> QED
    BY <2>1, <2>2, <2>4
<1> QED
  BY <1>3, <1>4

LEMMA StartAllDoes ==
    ASSUME NEW w, Typed(w), NEW v, v = StartAll(w)
    PROVE  /\ Typed(v) /\ Passes(w, v, Ready(w))
           /\ \A f \in Ready(w) : Download(w, f, 0).rv = "notAvailable"
                  => Still(w, v, f) /\ v.sync[f].state = w.sync[f].state
<1> DEFINE u == [f \in Folders |-> StartServer(w, f)]
<1>1. ASSUME NEW f \in Folders
      PROVE  /\ Typed(StartServer(w, f)) /\ StartServer(w, f).pq = w.pq
             /\ \/ StartServer(w, f) = w
                \/ \E x \in Ready(w) :
                      /\ Server[x] = Server[f] /\ Passes(w, StartServer(w, f), {x})
                      /\ StartServer(w, f) = DownloadOrNext(w, x)
             /\ f \in Ready(w) => StartServer(w, f) = DownloadOrNext(w, f)
  <2>1. CASE \E g \in Ready(w) : Server[g] = Server[f]
    <3>1. PICK x : x = CHOOSE g \in Ready(w) : Server[g] = Server[f]
      OBVIOUS
    <3>2. x \in Ready(w) /\ Server[x] = Server[f]
      BY <2>1, <3>1
    <3>3. PICK y : y = DownloadOrNext(w, x)
      OBVIOUS
    <3>4. StartServer(w, f) = y
      BY <2>1, <3>1, <3>3 DEF StartServer
    <3>5. Typed(y) /\ Passes(w, y, {x})
      BY <3>2, <3>3, ReadyAre, DownloadOrNextDoes
    <3>6. y.pq = w.pq
      BY <3>5 DEF Passes
    <3>7. f \in Ready(w) => f = x
      BY <3>2, ReadyAre
    <3> QED
      BY <3>2, <3>3, <3>4, <3>5, <3>6, <3>7
  <2>2. CASE ~\E g \in Ready(w) : Server[g] = Server[f]
    <3>1. StartServer(w, f) = w
      BY <2>2 DEF StartServer
    <3>2. f \notin Ready(w)
      BY <2>2
    <3> QED
      BY <3>1, <3>2
  <2> QED
    BY <2>1, <2>2
<1>2. v = Handled(w, u)
  BY DEF StartAll
<1>3. \A f \in Folders : u[f] = StartServer(w, f)
  OBVIOUS
<1> HIDE DEF u
<1>4. \A f \in Folders : Typed(u[f])
  BY <1>1, <1>3
<1>5. /\ Typed(v) /\ v.pq = w.pq /\ v.message = w.message
      /\ \A g \in Folders : v.sync[g] = u[g].sync[g] /\ v.running[g] = u[g].running[g]
  BY <1>2, <1>4, HandledDoes
<1>6. ASSUME NEW g \in Folders
      PROVE  /\ Kept(w, u[g], g) => Kept(w, v, g)
             /\ Still(w, u[g], g) => Still(w, v, g)
             /\ Begun(w, u[g], g) <=> Begun(w, v, g)
  <2>1. v.sync[g] = u[g].sync[g] /\ v.running[g] = u[g].running[g]
    BY <1>5
  <2> QED
    BY <2>1 DEF Kept, Still, Begun
<1>7. ASSUME NEW g \in Folders
      PROVE  \/ Kept(w, v, g)
             \/ \E x \in Ready(w) : /\ Server[g] = Server[x] /\ (g = x \/ g \in ToSet(w.pq))
                                    /\ Still(w, v, g) \/ Begun(w, v, g)
  <2>1. CASE u[g] = w
    <3>1. Kept(w, u[g], g)
      BY <2>1 DEF Kept
    <3> QED
      BY <1>6, <3>1
  <2>2. ASSUME NEW x \in Ready(w), Server[x] = Server[g], Passes(w, u[g], {x})
        PROVE  \/ Kept(w, v, g)
               \/ /\ Server[g] = Server[x] /\ (g = x \/ g \in ToSet(w.pq))
                  /\ Still(w, v, g) \/ Begun(w, v, g)
    <3>1. \/ Kept(w, u[g], g)
          \/ /\ Server[g] = Server[x] /\ (g = x \/ g \in ToSet(w.pq))
             /\ Still(w, u[g], g) \/ Begun(w, u[g], g)
      BY <2>2 DEF Passes
    <3> QED
      BY <1>6, <3>1
  <2>3. u[g] = w \/ \E x \in Ready(w) : Server[x] = Server[g] /\ Passes(w, u[g], {x})
    BY <1>1, <1>3
  <2> QED
    BY <2>1, <2>2, <2>3
<1>8. ASSUME NEW g \in Folders, NEW h \in Folders, Begun(w, v, g), Begun(w, v, h),
             Server[g] = Server[h]
      PROVE  g = h
  <2>1. u[g] = u[h]
    BY <1>3, <1>8 DEF StartServer
  <2>2. Begun(w, u[g], g) /\ Begun(w, u[g], h)
    BY <1>6, <1>8, <2>1
  <2>3. u[g] # w
    <3>1. Kept(w, w, g)
      BY DEF Kept
    <3> QED
      BY <2>2, <3>1, NotBegun
  <2>4. PICK x \in Ready(w) : Passes(w, u[g], {x})
    BY <1>1, <1>3, <2>3
  <2> QED
    BY <1>8, <2>2, <2>4 DEF Passes
<1>9. ASSUME NEW f \in Ready(w), Download(w, f, 0).rv = "notAvailable"
      PROVE  Still(w, v, f) /\ v.sync[f].state = w.sync[f].state
  <2>1. f \in Folders
    BY ReadyAre
  <2>2. PICK y : y = DownloadOrNext(w, f)
    OBVIOUS
  <2>3. Still(w, y, f) /\ y.sync[f].state = w.sync[f].state
    BY <1>9, <2>1, <2>2, DownloadOrNextDoes
  <2>4. u[f] = y
    BY <1>1, <1>3, <2>1, <2>2
  <2> QED
    BY <1>5, <1>6, <2>1, <2>3, <2>4
<1>10. Passes(w, v, Ready(w))
  BY <1>5, <1>7, <1>8 DEF Passes
<1> QED
  BY <1>5, <1>9, <1>10

\* The folders of a set are done: they forget their downloads and leave the queue.
LEMMA DropDoes ==
    ASSUME NEW w, Typed(w), NEW gone \in SUBSET Folders, NEW v, v = Drop(w, gone)
    PROVE  /\ Typed(v) /\ v.message = w.message
           /\ ToSet(v.pq) = ToSet(w.pq) \ gone
           /\ \A g \in Folders \ gone : Kept(w, v, g)
           /\ \A g \in gone : /\ v.sync[g].state = "completedIdle"
                              /\ v.sync[g].held = w.sync[g].held
                              /\ v.running[g] = w.running[g]
<1> DEFINE u == [f \in Folders |-> IF f \in gone THEN SetState(w, f, "completedIdle") ELSE w]
<1>1. PICK y : y = Handled(w, u)
  OBVIOUS
<1>2. v = Without(y, gone)
  BY <1>1 DEF Drop, Without
<1>3. \A f \in Folders : u[f] = IF f \in gone THEN SetState(w, f, "completedIdle") ELSE w
  OBVIOUS
<1> HIDE DEF u
<1>4. ASSUME NEW f \in gone
      PROVE  /\ f \in Folders /\ Typed(u[f]) /\ u[f].running = w.running
             /\ u[f].sync[f].state = "completedIdle" /\ u[f].sync[f].held = w.sync[f].held
  <2>1. f \in Folders
    OBVIOUS
  <2>2. PICK x : x = SetState(w, f, "completedIdle")
    OBVIOUS
  <2>3. u[f] = x
    BY <1>3, <2>1, <2>2
  <2>4. "completedIdle" \in States
    BY DEF States
  <2>5. /\ Typed(x) /\ x.running = w.running
        /\ x.sync[f].state = "completedIdle" /\ x.sync[f].held = w.sync[f].held
    BY <2>1, <2>2, <2>4, SetStateDoes
  <2> QED
    BY <2>1, <2>3, <2>5
<1>5. \A f \in Folders : Typed(u[f])
  BY <1>3, <1>4
<1>6. /\ Typed(y) /\ y.pq = w.pq /\ y.message = w.message
      /\ \A g \in Folders : y.sync[g] = u[g].sync[g] /\ y.running[g] = u[g].running[g]
  BY <1>1, <1>5, HandledDoes
<1>7. /\ Typed(v) /\ v.sync = y.sync /\ v.running = y.running /\ v.message = y.message
      /\ ToSet(v.pq) = ToSet(y.pq) \ gone
  BY <1>2, <1>6, LeaveDoes
<1>8. \A g \in Folders \ gone : Kept(w, v, g)
  BY <1>3, <1>6, <1>7 DEF Kept
<1>9. \A g \in gone : /\ v.sync[g].state = "completedIdle"
                      /\ v.sync[g].held = w.sync[g].held
                      /\ v.running[g] = w.running[g]
  BY <1>4, <1>6, <1>7
<1> QED
  BY <1>6, <1>7, <1>8, <1>9

LEMMA StartedDoes ==
    ASSUME NEW w, Typed(w), NEW v, v = StartedAll(w)
    PROVE  /\ Typed(v) /\ v.message = w.message /\ ToSet(v.pq) \subseteq ToSet(w.pq)
           /\ \A g \in Folders : Kept(w, v, g) \/ g \in ToSet(w.pq)
           /\ Waits(w) => Waits(v)
           /\ ~paused /\ Orderly(w) => Orderly(v)
<1>1. PICK gone : gone = {f \in Ready(w) : Download(w, f, 0).rv = "notAvailable"}
  OBVIOUS
<1>2. PICK x : x = StartAll(w)
  OBVIOUS
<1>3. /\ Typed(x) /\ Passes(w, x, Ready(w))
      /\ \A f \in gone : Still(w, x, f) /\ x.sync[f].state = w.sync[f].state
  BY <1>1, <1>2, StartAllDoes
<1>4. /\ gone \in SUBSET Folders /\ Ready(w) \in SUBSET Folders
      /\ \A f \in gone : f \in ToSet(w.pq) /\ w.sync[f].state = "readyToDownload"
      /\ \A f \in Ready(w) : f \in ToSet(w.pq) /\ (Orderly(w) => Free(w, f))
  BY <1>1, ReadyAre
<1>5. v = Drop(x, gone)
  BY <1>1, <1>2 DEF StartedAll
<1>6. /\ Typed(v) /\ v.message = x.message
      /\ ToSet(v.pq) = ToSet(x.pq) \ gone
      /\ \A g \in Folders \ gone : Kept(x, v, g)
      /\ \A g \in gone : /\ v.sync[g].state = "completedIdle"
                         /\ v.sync[g].held = x.sync[g].held
                         /\ v.running[g] = x.running[g]
  BY <1>3, <1>4, <1>5, DropDoes
<1>7. x.pq = w.pq /\ x.message = w.message
  BY <1>3 DEF Passes
<1>8. \A g \in Folders : Kept(w, v, g) \/ g \in ToSet(w.pq)
  <2> SUFFICES ASSUME NEW g \in Folders, g \notin ToSet(w.pq)
               PROVE  Kept(w, v, g)
    OBVIOUS
  <2>1. g \notin Ready(w) /\ g \notin gone
    BY <1>4
  <2>2. Kept(w, x, g)
    BY <1>3, <2>1 DEF Passes
  <2> QED
    BY <1>6, <2>1, <2>2 DEF Kept
<1>9. ASSUME Waits(w) PROVE Waits(v)
  <2>1. Waits(x)
    BY <1>3, <1>9, PassesWait
  <2> QED
    BY <1>6, <2>1 DEF Waits, Kept
<1>10. ASSUME ~paused, Orderly(w) PROVE Orderly(v)
  <2>1. Orderly(x)
    BY <1>3, <1>4, <1>10, PassesOrderly
  <2>2. ASSUME NEW g \in Folders \ gone PROVE Fair(v, g)
    BY <1>6, <2>1 DEF Orderly, Fair, Kept
  <2>3. ASSUME NEW g \in gone PROVE Fair(v, g)
    <3>1. Fair(x, g) /\ x.sync[g].state = "readyToDownload"
      BY <1>3, <1>4, <2>1 DEF Orderly
    <3>2. ~x.sync[g].held /\ Len(x.running[g]) = 0
      BY <3>1 DEF Fair
    <3> QED
      BY <1>6, <3>2 DEF Fair
  <2>4. \A g \in Folders : v.sync[g].held = x.sync[g].held
    BY <1>6 DEF Kept
  <2> QED
    BY <2>1, <2>2, <2>3, <2>4 DEF Orderly
<1> QED
  BY <1>6, <1>7, <1>8, <1>9, <1>10

-----------------------------------------------------------------------------
(* The inductive invariants *)

UrlsTyped ==
    /\ updateQ \in Seq(Folders) /\ IsInjective(updateQ)
    /\ initiated \in BOOLEAN
    /\ status \in [Folders -> 0 .. MaxUrls] /\ update \in [Folders -> 0 .. MaxUrls]
RestTyped ==
    /\ discoveryQ \in Seq(Folders) /\ IsInjective(discoveryQ)
    /\ paused \in BOOLEAN /\ timer \in BOOLEAN
    /\ idle \in {"notIdle", "systemIdle", "appIdle"}

\* What holds whatever happens beside auto-sync's own work.
WInv == Typed(Work) /\ Waits(Work) /\ UrlsTyped /\ RestTyped

\* What holds as long as no header arrives while a url of the folder runs, no old
\* headers are looked through, no folder is put into a state of its own by the
\* messages that wait on the server, and the program does not go offline, where a group
\* that cannot be downloaded keeps the semaphore (nsAutoSyncState.cpp:674-689): one url of one folder is under way at a time
\* for the updates, while the state of its folder says so.
Undisturbed == Disturbances \subseteq {"push", "failures", "closed", "reading"}

OneUrl ==
    /\ \A f \in Folders : status[f] + update[f] <= 1
    /\ \A f \in Folders : status[f] + update[f] > 0 => initiated
    /\ \A f, g \in Folders : f # g => status[f] + update[f] = 0 \/ status[g] + update[g] = 0
Asked == \A f \in Folders : status[f] > 0 => sync[f].state = "statusIssued"

CInv == WInv /\ ~paused /\ Orderly(Work) /\ OneUrl /\ Asked /\ discoveryQ = <<>>

LEMMA Applied ==
    ASSUME NEW v, Typed(v), Apply(v)
    PROVE  Work' = v
<1>1. v \in [sync : [Folders -> Syncs], pq : Seq(Folders),
             running : [Folders -> Seq(SUBSET Messages)], message : [Messages -> Stages]]
  BY DEF Typed, Works
<1>2. v = [sync |-> v.sync, pq |-> v.pq, running |-> v.running, message |-> v.message]
  BY <1>1
<1>3. /\ sync' = v.sync /\ priorityQ' = v.pq /\ running' = v.running /\ message' = v.message
  BY DEF Apply
<1>4. Work' = [sync |-> v.sync, pq |-> v.pq, running |-> v.running, message |-> v.message]
  BY <1>3 DEF Work
<1> QED
  BY <1>2, <1>4

LEMMA WorkIs ==
    /\ Work.sync = sync /\ Work.pq = priorityQ
    /\ Work.running = running /\ Work.message = message
BY DEF Work

LEMMA SetStateKeeps ==
    ASSUME NEW w, Typed(w), NEW f \in Folders,
           NEW state \in {"completedIdle", "statusIssued", "updateNeeded", "updateIssued"},
           NEW v, v = SetState(w, f, state)
    PROVE  /\ Typed(v) /\ v.message = w.message /\ v.pq = w.pq /\ v.sync[f].state = state
           /\ \A g \in Folders : g # f => Kept(w, v, g)
           /\ OthersWait(w, f) => Waits(v)
           /\ Orderly(w) /\ f \notin ToSet(w.pq) => Orderly(v)
<1>1. state \in States /\ state # "downloadInProgress"
  BY DEF States
<1>2. /\ Typed(v) /\ Changes(w, v, f) /\ v.running = w.running
      /\ v.sync[f].state = state /\ v.sync[f].held = w.sync[f].held
  BY <1>1, SetStateDoes
<1>3. v.message = w.message /\ v.pq = w.pq /\ \A g \in Folders : g # f => Kept(w, v, g)
  BY <1>2 DEF Changes, Kept
<1>4. ASSUME OthersWait(w, f) PROVE Waits(v)
  BY <1>1, <1>2, <1>3, <1>4 DEF OthersWait, Waits, Kept
<1>5. ASSUME Orderly(w), f \notin ToSet(w.pq) PROVE Orderly(v)
  <2>1. \A g \in Folders : g # f => Fair(v, g)
    BY <1>3, <1>5 DEF Orderly, Fair, Kept
  <2>2. Fair(v, f)
    <3>1. Fair(w, f)
      BY <1>5 DEF Orderly
    <3>2. ~w.sync[f].held /\ Len(w.running[f]) = 0
      BY <1>5, <3>1 DEF Fair
    <3> QED
      BY <1>1, <1>2, <1>3, <1>5, <3>2 DEF Fair
  <2>3. \A g \in Folders : v.sync[g].held = w.sync[g].held
    BY <1>2, <1>3 DEF Kept
  <2> QED
    BY <1>5, <2>1, <2>2, <2>3 DEF Orderly
<1> QED
  BY <1>2, <1>3, <1>4, <1>5

\* The semaphore of the folder is released.
Released(w, f) == [w EXCEPT !.sync[f].held = FALSE]

LEMMA ReleasedDoes ==
    ASSUME NEW w, Typed(w), NEW f \in Folders, NEW v, v = Released(w, f)
    PROVE  /\ Typed(v) /\ Changes(w, v, f) /\ v.running = w.running /\ ~v.sync[f].held
<1>1. PICK r : r = w.sync[f] /\ r \in Syncs /\ Fits(r, f)
  BY SyncTyped
<1>2. PICK s : s = [r EXCEPT !.held = FALSE]
  OBVIOUS
<1>3. v = WithSync(w, f, s)
  BY <1>1, <1>2 DEF Released, WithSync
<1>4. /\ s \in Syncs /\ s.held = FALSE /\ s.q = r.q /\ s.offset = r.offset /\ s.last = r.last
      /\ s.retry = r.retry /\ s.existing = r.existing
  BY <1>1, <1>2 DEF Syncs
<1>5. Fits(s, f)
  BY <1>1, <1>4 DEF Fits
<1> QED
  BY <1>3, <1>4, <1>5, Put

LEMMA TailIs ==
    ASSUME NEW T, NEW s \in Seq(T), s # <<>>
    PROVE  /\ Tail(s) \in Seq(T) /\ Len(Tail(s)) = Len(s) - 1 /\ Len(s) > 0
           /\ Head(s) \in T
           /\ IsInjective(s) => IsInjective(Tail(s))
<1>1. /\ Len(s) \in Nat /\ Len(s) > 0 /\ DOMAIN s = 1 .. Len(s)
      /\ \A i \in 1 .. Len(s) : s[i] \in T
  BY SeqPlain, EmptySeq
<1>2. Tail(s) \in Seq(T) /\ Len(Tail(s)) = Len(s) - 1 /\ Head(s) \in T
      /\ \A i \in 1 .. Len(s) - 1 : Tail(s)[i] = s[i + 1]
  BY <1>1, HeadTailProperties
<1>3. ASSUME IsInjective(s) PROVE IsInjective(Tail(s))
  <2>1. DOMAIN Tail(s) = 1 .. Len(s) - 1
    BY <1>2, LenProperties
  <2>2. ASSUME NEW i \in 1 .. Len(s) - 1, NEW j \in 1 .. Len(s) - 1, Tail(s)[i] = Tail(s)[j]
        PROVE  i = j
    <3>1. i + 1 \in DOMAIN s /\ j + 1 \in DOMAIN s /\ s[i + 1] = s[j + 1]
      BY <1>1, <1>2, <2>2
    <3>2. i + 1 = j + 1
      BY <1>3, <3>1 DEF IsInjective
    <3> QED
      BY <1>1, <3>2
  <2> QED
    BY <2>1, <2>2 DEF IsInjective
<1> QED
  BY <1>1, <1>2, <1>3

LEMMA UpdateOverDoes ==
    ASSUME UrlsTyped, UpdateOver
    PROVE  updateQ' \in Seq(Folders) /\ IsInjective(updateQ') /\ initiated' = FALSE
<1>1. CASE updateQ = <<>>
  BY <1>1 DEF UpdateOver, UrlsTyped
<1>2. CASE updateQ # <<>>
  <2>1. updateQ \in Seq(Folders) /\ IsInjective(updateQ)
    BY DEF UrlsTyped
  <2>2. Tail(updateQ) \in Seq(Folders) /\ IsInjective(Tail(updateQ))
    BY <1>2, <2>1, TailIs
  <2> QED
    BY <1>2, <2>2 DEF UpdateOver
<1> QED
  BY <1>1, <1>2

\* The end of a url that the sync object of the folder hears of.
LEMMA StopDoes ==
    ASSUME UrlsTyped, NEW w, Typed(w), NEW f \in Folders, OthersWait(w, f),
           NEW ok, NEW changed, OnStopRunningUrl(w, f, ok, changed)
    PROVE  /\ Typed(Work') /\ Waits(Work')
           /\ updateQ' \in Seq(Folders) /\ IsInjective(updateQ') /\ initiated' \in BOOLEAN
           /\ update' \in [Folders -> 0 .. MaxUrls]
<1>1. /\ updateQ \in Seq(Folders) /\ IsInjective(updateQ) /\ initiated \in BOOLEAN
      /\ update \in [Folders -> 0 .. MaxUrls] /\ MaxUrls \in Nat
  BY AutoSyncConstants DEF UrlsTyped
<1>2. CASE w.sync[f].state = "statusIssued" /\ changed
  <2>1. PICK v : v = SetState(w, f, "updateIssued")
    OBVIOUS
  <2>2. Typed(v) /\ Waits(v)
    BY <2>1, SetStateKeeps
  <2>3. /\ Apply(v) /\ update[f] < MaxUrls /\ update' = [update EXCEPT ![f] = @ + 1]
        /\ initiated' = initiated /\ updateQ' = updateQ
    BY <1>2, <2>1 DEF OnStopRunningUrl
  <2>4. Work' = v
    BY <2>2, <2>3, Applied
  <2>5. update' \in [Folders -> 0 .. MaxUrls]
    BY <1>1, <2>3
  <2> QED
    BY <1>1, <2>2, <2>3, <2>4, <2>5
<1>3. CASE w.sync[f].state = "statusIssued" /\ ~changed
  <2>1. PICK v : v = SetState(w, f, "completedIdle")
    OBVIOUS
  <2>2. Typed(v) /\ Waits(v)
    BY <2>1, SetStateKeeps
  <2>3. Apply(v) /\ update' = update /\ UpdateOver
    BY <1>3, <2>1 DEF OnStopRunningUrl
  <2>4. Work' = v
    BY <2>2, <2>3, Applied
  <2>5. updateQ' \in Seq(Folders) /\ IsInjective(updateQ') /\ initiated' \in BOOLEAN
    BY <2>3, UpdateOverDoes
  <2> QED
    BY <1>1, <2>2, <2>3, <2>4, <2>5
<1>4. CASE w.sync[f].state # "statusIssued"
  <2>1. PICK h : h = Released(w, f)
    OBVIOUS
  <2>2. Typed(h) /\ Changes(w, h, f) /\ h.running = w.running
    BY <2>1, ReleasedDoes
  <2>3. OthersWait(h, f)
    BY <2>2 DEF OthersWait, Changes
  <2>4. PICK v : v = OnDownloadCompleted(h, f, ok)
    OBVIOUS
  <2>5. Typed(v) /\ Waits(v)
    BY <2>2, <2>3, <2>4, CompletedDoes
  <2>6. /\ Apply(v)
        /\ initiated' = initiated /\ updateQ' = updateQ /\ update' = update
    BY <1>4, <2>1, <2>4 DEF OnStopRunningUrl, Released
  <2>7. Work' = v
    BY <2>5, <2>6, Applied
  <2> QED
    BY <1>1, <2>5, <2>6, <2>7
<1> QED
  BY <1>2, <1>3, <1>4

\* Messages that get to another stage.
Marked(w, S, stage) ==
    [w EXCEPT !.message = [m \in Messages |-> IF m \in S THEN stage ELSE @[m]]]

LEMMA MarkedDoes ==
    ASSUME NEW w, Typed(w), NEW S, NEW stage \in Stages, NEW v, v = Marked(w, S, stage)
    PROVE  Typed(v) /\ v.pq = w.pq /\ v.sync = w.sync /\ v.running = w.running
<1>1. w \in Works /\ w.message \in [Messages -> Stages]
  BY DEF Typed, Works
<1>2. PICK message1 : message1 = [m \in Messages |-> IF m \in S THEN stage ELSE w.message[m]]
  OBVIOUS
<1>3. message1 \in [Messages -> Stages]
  BY <1>1, <1>2
<1>4. v = [w EXCEPT !.message = message1]
  BY <1>2 DEF Marked
<1>5. v \in Works /\ v.pq = w.pq /\ v.sync = w.sync /\ v.running = w.running
  BY <1>1, <1>3, <1>4 DEF Works
<1> QED
  BY <1>5 DEF Typed

\* The oldest group of the folder has ended.
Fetched(w, f, got) ==
    [w EXCEPT !.running[f] = Tail(@),
              !.message = [m \in Messages |-> IF m \in got THEN "stored" ELSE @[m]]]

LEMMA FetchedDoes ==
    ASSUME NEW w, Typed(w), NEW f \in Folders, w.running[f] # <<>>, NEW got,
           NEW v, v = Fetched(w, f, got)
    PROVE  /\ Typed(v) /\ v.pq = w.pq /\ v.sync = w.sync
           /\ Len(v.running[f]) = Len(w.running[f]) - 1 /\ Len(w.running[f]) > 0
           /\ \A g \in Folders : g # f => v.running[g] = w.running[g]
<1>1. w.running[f] \in Seq(SUBSET MsgsOf[f])
  BY SyncTyped
<1>2. PICK rest : rest = Tail(w.running[f])
  OBVIOUS
<1>3. /\ rest \in Seq(SUBSET MsgsOf[f]) /\ Len(rest) = Len(w.running[f]) - 1
      /\ Len(w.running[f]) > 0 /\ rest \in Seq(SUBSET Messages)
  <2>1. PICK T : T = SUBSET MsgsOf[f]
    OBVIOUS
  <2>2. PICK s : s = w.running[f] /\ s \in Seq(T) /\ s # <<>>
    BY <1>1, <2>1
  <2>3. Tail(s) \in Seq(T) /\ Len(Tail(s)) = Len(s) - 1 /\ Len(s) > 0
    BY <2>2, TailIs
  <2>4. rest \in Seq(T) /\ Len(rest) = Len(w.running[f]) - 1 /\ Len(w.running[f]) > 0
    BY <1>2, <2>2, <2>3, Zenon
  <2>5. rest \in [1 .. Len(rest) -> T] /\ Len(rest) \in Nat
    BY <2>4, LenProperties
  <2>6. T \subseteq SUBSET Messages
    BY <2>1, MessagesOfFolder
  <2>7. rest \in [1 .. Len(rest) -> SUBSET Messages]
    BY <2>5, <2>6
  <2> QED
    BY <2>1, <2>4, <2>5, <2>7, IsASeq
<1>4. PICK x : x = [w EXCEPT !.running[f] = rest]
  OBVIOUS
<1>5. v = Marked(x, got, "stored")
  <2>1. w \in Works
    BY DEF Typed
  <2>2. x.message = w.message
    BY <1>4, <2>1 DEF Works
  <2>3. v = [w EXCEPT !.running[f] = rest,
                      !.message = [m \in Messages |-> IF m \in got THEN "stored" ELSE @[m]]]
    BY <1>2 DEF Fetched
  <2>4. v = [x EXCEPT !.message = [m \in Messages |-> IF m \in got THEN "stored"
                                                      ELSE w.message[m]]]
    BY <1>4, <2>3
  <2> QED
    BY <2>2, <2>4 DEF Marked
<1>6. /\ x \in Works /\ x.pq = w.pq /\ x.sync = w.sync /\ x.running[f] = rest
      /\ \A g \in Folders : g # f => x.running[g] = w.running[g]
  <2>1. w \in Works
    BY DEF Typed
  <2> QED
    BY <1>3, <1>4, <2>1 DEF Works
<1>7. Typed(x)
  BY <1>3, <1>6 DEF Typed
<1>8. Typed(v) /\ v.pq = x.pq /\ v.sync = x.sync /\ v.running = x.running
  <2>1. "stored" \in Stages
    BY DEF Stages
  <2> QED
    BY <1>5, <1>7, <2>1, MarkedDoes
<1> QED
  BY <1>3, <1>6, <1>8

\* The steps keep what holds whatever happens.
LEMMA StatusStopsKeeps ==
    ASSUME WInv, NEW f \in Folders, NEW ok, NEW changed, StatusStops(f, ok, changed)
    PROVE  WInv'
<1>1. Typed(Work) /\ OthersWait(Work, f) /\ UrlsTyped /\ RestTyped
  BY DEF WInv, Waits, OthersWait
<1>2. /\ Typed(Work') /\ Waits(Work')
      /\ updateQ' \in Seq(Folders) /\ IsInjective(updateQ') /\ initiated' \in BOOLEAN
      /\ update' \in [Folders -> 0 .. MaxUrls]
  <2>1. OnStopRunningUrl(Work, f, ok, changed)
    BY DEF StatusStops
  <2> QED
    BY <1>1, <2>1, StopDoes
<1>3. status' \in [Folders -> 0 .. MaxUrls]
  <2>1. /\ status \in [Folders -> 0 .. MaxUrls] /\ MaxUrls \in Nat
        /\ status[f] > 0 /\ status' = [status EXCEPT ![f] = @ - 1]
    BY <1>1, AutoSyncConstants DEF UrlsTyped, StatusStops
  <2> QED
    BY <2>1
<1>4. RestTyped'
  BY <1>1 DEF RestTyped, StatusStops, idleVars
<1> QED
  BY <1>2, <1>3, <1>4 DEF WInv, UrlsTyped

LEMMA DownloadStopsKeeps ==
    ASSUME WInv, NEW f \in Folders, NEW ok, NEW got, NEW changed,
           DownloadStops(f, ok, got, changed)
    PROVE  WInv'
<1>1. Typed(Work) /\ Waits(Work) /\ UrlsTyped /\ RestTyped
  BY DEF WInv
<1>2. PICK w : w = Fetched(Work, f, got)
  OBVIOUS
<1>3. OnStopRunningUrl(w, f, ok, changed) /\ Work.running[f] # <<>>
  BY <1>2, WorkIs DEF DownloadStops, Fetched
<1>4. /\ Typed(w) /\ w.sync = Work.sync
      /\ \A g \in Folders : g # f => w.running[g] = Work.running[g]
  BY <1>1, <1>2, <1>3, FetchedDoes
<1>5. OthersWait(w, f)
  BY <1>1, <1>4 DEF OthersWait, Waits
<1>6. /\ Typed(Work') /\ Waits(Work')
      /\ updateQ' \in Seq(Folders) /\ IsInjective(updateQ') /\ initiated' \in BOOLEAN
      /\ update' \in [Folders -> 0 .. MaxUrls]
  BY <1>1, <1>3, <1>4, <1>5, StopDoes
<1>7. status' \in [Folders -> 0 .. MaxUrls] /\ RestTyped'
  BY <1>1 DEF UrlsTyped, RestTyped, DownloadStops, idleVars
<1> QED
  BY <1>6, <1>7 DEF WInv, UrlsTyped

\* A step that leaves the downloads alone, but for the stages of the messages.
LEMMA AloneKeeps ==
    ASSUME Typed(Work), UNCHANGED <<sync, priorityQ, running>>,
           message' \in [Messages -> Stages]
    PROVE  /\ Typed(Work')
           /\ Waits(Work) => Waits(Work')
           /\ Orderly(Work) => Orderly(Work')
<1>1. /\ Work'.sync = Work.sync /\ Work'.pq = Work.pq /\ Work'.running = Work.running
      /\ Work'.message = message'
  BY DEF Work
<1>2. Work' \in Works
  <2>1. sync \in [Folders -> Syncs] /\ priorityQ \in Seq(Folders)
        /\ running \in [Folders -> Seq(SUBSET Messages)]
    BY WorkIs DEF Typed, Works
  <2> QED
    BY <2>1 DEF Work, Works
<1>3. Typed(Work')
  BY <1>1, <1>2 DEF Typed
<1>4. Waits(Work) => Waits(Work')
  BY <1>1 DEF Waits
<1>5. Orderly(Work) => Orderly(Work')
  BY <1>1 DEF Orderly, Fair
<1> QED
  BY <1>3, <1>4, <1>5

LEMMA DownloadsKept ==
    ASSUME Typed(Work), UNCHANGED downloadVars
    PROVE  /\ Typed(Work')
           /\ Waits(Work) => Waits(Work')
           /\ Orderly(Work) => Orderly(Work')
<1>1. message' \in [Messages -> Stages] /\ UNCHANGED <<sync, priorityQ, running>>
  BY SyncTyped, WorkIs DEF Typed, Works, downloadVars
<1> QED
  BY <1>1, AloneKeeps

LEMMA UpdateStopsKeeps ==
    ASSUME WInv, NEW f \in Folders, UpdateStops(f)
    PROVE  WInv'
<1>1. Typed(Work) /\ Waits(Work) /\ UrlsTyped /\ RestTyped
  BY DEF WInv
<1>2. UNCHANGED downloadVars
  BY DEF UpdateStops
<1>3. Typed(Work') /\ Waits(Work')
  BY <1>1, <1>2, DownloadsKept
<1>4. updateQ' \in Seq(Folders) /\ IsInjective(updateQ') /\ initiated' = FALSE
  BY <1>1, UpdateOverDoes DEF UpdateStops
<1>5. update' \in [Folders -> 0 .. MaxUrls]
  <2>1. /\ update \in [Folders -> 0 .. MaxUrls] /\ MaxUrls \in Nat
        /\ update[f] > 0 /\ update' = [update EXCEPT ![f] = @ - 1]
    BY <1>1, AutoSyncConstants DEF UrlsTyped, UpdateStops
  <2> QED
    BY <2>1
<1>6. status' \in [Folders -> 0 .. MaxUrls] /\ RestTyped'
  BY <1>1 DEF UrlsTyped, RestTyped, UpdateStops, idleVars
<1> QED
  BY <1>3, <1>4, <1>5, <1>6 DEF WInv, UrlsTyped

LEMMA HeaderFetchCompletedKeeps ==
    ASSUME WInv, NEW f \in Folders, NEW new, HeaderFetchCompleted(f, new)
    PROVE  /\ WInv'
           /\ \A g \in Folders : g # f => sync'[g] = sync[g]
           /\ ~paused /\ Orderly(Work) /\ ~sync[f].held => Orderly(Work')
<1>1. Typed(Work) /\ Waits(Work) /\ UrlsTyped /\ RestTyped
  BY DEF WInv
<1>2. PICK w : w = Marked(Work, new, "known")
  OBVIOUS
<1>3. Typed(w) /\ w.pq = Work.pq /\ w.sync = Work.sync /\ w.running = Work.running
  <2>1. "known" \in Stages
    BY DEF Stages
  <2> QED
    BY <1>1, <1>2, <2>1, MarkedDoes
<1>4. PICK keys \in SUBSET MsgsOf[f] : keys = {m \in MsgsOf[f] : w.message[m] = "known"}
  OBVIOUS
<1>5. PICK v : v = PlaceIntoDownloadQ(w, f, keys).w
  OBVIOUS
<1>6. /\ Typed(v)
      /\ \A g \in Folders : g # f => Kept(w, v, g)
      /\ Waits(w) => Waits(v)
      /\ ~paused /\ Orderly(w) /\ ~w.sync[f].held => Orderly(v)
  BY <1>3, <1>5, PlaceDoes
<1>7. Waits(w) /\ (Orderly(Work) => Orderly(w))
  BY <1>1, <1>3 DEF Waits, Orderly, Fair
<1>8. Apply(v)
  BY <1>2, <1>4, <1>5 DEF HeaderFetchCompleted, Marked
<1>9. Work' = v
  BY <1>6, <1>8, Applied
<1>10. \A g \in Folders : g # f => sync'[g] = sync[g]
  BY <1>3, <1>6, <1>8, WorkIs DEF Kept, Apply
<1>11. UrlsTyped' /\ RestTyped'
  BY <1>1 DEF HeaderFetchCompleted, updateVars, idleVars, UrlsTyped, RestTyped
<1> QED
  BY <1>3, <1>6, <1>7, <1>9, <1>10, <1>11, WorkIs DEF WInv

LEMMA PendingKeeps ==
    ASSUME WInv, NEW f \in Folders, NEW front, OnFolderHasPendingMsgs(f, front)
    PROVE  WInv'
<1>1. Typed(Work) /\ Waits(Work) /\ UrlsTyped /\ RestTyped
  BY DEF WInv
<1>2. PICK v : v = SetState(Work, f, "updateNeeded")
  OBVIOUS
<1>3. Typed(v) /\ Waits(v)
  BY <1>1, <1>2, SetStateKeeps DEF Waits, OthersWait
<1>4. Work' = v
  BY <1>2, <1>3, Applied DEF OnFolderHasPendingMsgs
<1>5. updateQ' \in Seq(Folders) /\ IsInjective(updateQ')
  <2>1. PICK q : q = updateQ /\ q \in Seq(Folders) /\ IsInjective(q)
    BY <1>1 DEF UrlsTyped
  <2>2. PICK one : one = <<f>>
    OBVIOUS
  <2>3. one \in Seq(Folders) /\ IsInjective(one) /\ ToSet(one) = {f}
    <3>1. DOMAIN <<f>> = {1} /\ <<f>>[1] = f /\ <<f>> \in Seq(Folders)
      OBVIOUS
    <3>2. DOMAIN one = {1} /\ one[1] = f /\ one \in Seq(Folders)
      BY <2>2, <3>1
    <3> QED
      BY <3>2 DEF IsInjective, ToSet
  <2>4. ToSet(one) \cap ToSet(q) = {} /\ ToSet(q) \cap ToSet(one) = {}
    BY <2>1, <2>3 DEF OnFolderHasPendingMsgs
  <2>5. PICK a : a = one \o q
    OBVIOUS
  <2>6. PICK b : b = q \o one
    OBVIOUS
  <2>7. a \in Seq(Folders) /\ IsInjective(a)
    <3>1. q \in Seq(Folders) /\ IsInjective(q)
      BY <2>1
    <3> QED
      BY <2>3, <2>4, <2>5, <3>1, Joined
  <2>8. b \in Seq(Folders) /\ IsInjective(b)
    <3>1. q \in Seq(Folders) /\ IsInjective(q)
      BY <2>1
    <3> QED
      BY <2>3, <2>4, <2>6, <3>1, Joined
  <2>9. Append(q, f) = b
    <3>1. q \in Seq(Folders)
      BY <2>1
    <3> QED
      BY <2>2, <2>6, <3>1, AppendIsConcat
  <2>10. updateQ' = a \/ updateQ' = b
    BY <2>1, <2>2, <2>5, <2>9 DEF OnFolderHasPendingMsgs
  <2> QED
    BY <2>7, <2>8, <2>10
<1>6. initiated' = initiated /\ status' = status /\ update' = update /\ RestTyped'
  BY <1>1 DEF OnFolderHasPendingMsgs, idleVars, RestTyped
<1> QED
  BY <1>1, <1>3, <1>4, <1>5, <1>6 DEF WInv, UrlsTyped

LEMMA UserTakesKeeps ==
    ASSUME WInv, NEW m \in Messages, NEW to \in {"stored", "deleted"}, UserTakes(m, to)
    PROVE  WInv' /\ (Orderly(Work) => Orderly(Work'))
<1>1. Typed(Work) /\ Waits(Work) /\ UrlsTyped /\ RestTyped
  BY DEF WInv
<1>2. message' \in [Messages -> Stages]
  <2>1. message \in [Messages -> Stages]
    BY <1>1, WorkIs DEF Typed, Works
  <2> QED
    BY <2>1 DEF UserTakes, Stages
<1>3. UNCHANGED <<sync, priorityQ, running>>
  BY DEF UserTakes
<1>4. UrlsTyped' /\ RestTyped'
  BY <1>1 DEF UserTakes, updateVars, idleVars, UrlsTyped, RestTyped
<1> QED
  BY <1>1, <1>2, <1>3, <1>4, AloneKeeps DEF WInv

\* The turn of the first folder whose old headers are looked through.
LEMMA PassDoes ==
    ASSUME WInv, NEW f \in Folders, NEW d, d = ProcessExistingHeaders(f)
    PROVE  Typed(d.w) /\ Waits(d.w)
<1>1. Typed(Work) /\ Waits(Work)
  BY DEF WInv
<1>2. PICK all : all = Ascending({m \in MsgsOf[f] : message[m] \in {"known", "stored"}})
  OBVIOUS
<1>3. all \in Seq(MsgsOf[f])
  <2>1. PICK S : S = {m \in MsgsOf[f] : message[m] \in {"known", "stored"}}
    OBVIOUS
  <2>2. S \in SUBSET MsgsOf[f] /\ IsFiniteSet(S) /\ S \subseteq Int
    <3>1. S \in SUBSET MsgsOf[f]
      BY <2>1
    <3> QED
      BY <3>1, MessagesOfFolder, FS_Subset
  <2>3. all \in Seq(S) /\ Len(all) \in Nat
    BY <1>2, <2>1, <2>2, AscendingMembers
  <2>4. all \in [1 .. Len(all) -> S]
    BY <2>3, LenProperties
  <2>5. all \in [1 .. Len(all) -> MsgsOf[f]]
    BY <2>2, <2>4
  <2> QED
    BY <2>3, <2>5, IsASeq
<1>4. PICK list : list = IF sync[f].existing = <<>> THEN all ELSE sync[f].existing
  OBVIOUS
<1>5. list \in Seq(MsgsOf[f])
  <2>1. sync[f].existing \in Seq(MsgsOf[f])
    BY <1>1, SyncTyped, WorkIs DEF Fits
  <2> QED
    BY <1>3, <1>4, <2>1
<1>6. PICK pass : pass = SubSeq(list, 1, Min({HeadersPerPass, Len(list)}))
  OBVIOUS
<1>7. /\ Len(list) \in Nat /\ HeadersPerPass \in Nat \ {0}
      /\ Min({HeadersPerPass, Len(list)}) \in Int /\ Min({HeadersPerPass, Len(list)}) <= Len(list)
      /\ \A i \in 1 .. Len(list) : list[i] \in MsgsOf[f]
  <2>1. Len(list) \in Nat /\ \A i \in 1 .. Len(list) : list[i] \in MsgsOf[f]
    BY <1>5, SeqPlain
  <2>2. HeadersPerPass \in Nat \ {0}
    BY AutoSyncConstants
  <2>3. PICK S : S = {HeadersPerPass, Len(list)}
    OBVIOUS
  <2>4. IsFiniteSet(S) /\ S \subseteq Int /\ S # {} /\ Len(list) \in S
    <3>1. S \in SUBSET (0 .. HeadersPerPass + Len(list))
      BY <2>1, <2>2, <2>3
    <3>2. IsFiniteSet(0 .. HeadersPerPass + Len(list))
      BY <2>1, <2>2, FS_Interval
    <3>3. IsFiniteSet(S)
      BY <3>1, <3>2, FS_Subset
    <3> QED
      BY <2>1, <2>2, <2>3, <3>3
  <2>5. Min(S) \in S /\ \A n \in S : Min(S) <= n
    BY <2>4, Extremes
  <2>6. Min(S) \in Int /\ Min(S) <= Len(list)
    BY <2>4, <2>5
  <2> QED
    BY <2>1, <2>2, <2>3, <2>6
<1>8. pass \in Seq(MsgsOf[f])
  <2>1. PICK k : k = Min({HeadersPerPass, Len(list)}) /\ k \in Int /\ k <= Len(list)
    BY <1>7
  <2>2. k \in Int /\ k <= Len(list) /\ 1 \in Nat \ {0}
    BY <2>1
  <2>3. SubSeq(list, 1, k) \in Seq(MsgsOf[f])
    BY <1>5, <2>2, PieceIs
  <2> QED
    BY <1>6, <2>1, <2>3
<1>9. PICK keys : keys = {m \in ToSet(pass) : message[m] = "known"}
  OBVIOUS
<1>10. keys \in SUBSET MsgsOf[f]
  BY <1>8, <1>9, SeqPlain
<1>11. PICK placed : placed = PlaceIntoDownloadQ(Work, f, keys)
  OBVIOUS
<1>12. Typed(placed.w) /\ Waits(placed.w)
  BY <1>1, <1>10, <1>11, PlaceDoes
<1>13. d = PassOver(placed, f, list)
  BY <1>2, <1>4, <1>6, <1>9, <1>11 DEF ProcessExistingHeaders
<1>14. PICK left : left = IF placed.rv = "ok" THEN SubSeq(list, HeadersPerPass + 1, Len(list))
                          ELSE list
  OBVIOUS
<1>15. left \in Seq(MsgsOf[f])
  <2>1. HeadersPerPass + 1 \in Nat \ {0} /\ Len(list) \in Int /\ Len(list) <= Len(list)
    BY <1>7
  <2>2. SubSeq(list, HeadersPerPass + 1, Len(list)) \in Seq(MsgsOf[f])
    BY <1>5, <2>1, PieceIs
  <2> QED
    BY <1>5, <1>14, <2>2
<1>16. PICK r : r = placed.w.sync[f] /\ r \in Syncs /\ Fits(r, f)
  BY <1>12, SyncTyped
<1>17. PICK s : s = [r EXCEPT !.existing = left]
  OBVIOUS
<1>18. /\ s \in Syncs /\ s.q = r.q /\ s.offset = r.offset /\ s.last = r.last
       /\ s.retry = r.retry /\ s.existing = left /\ s.state = r.state /\ s.held = r.held
  <2>1. left \in Seq(Messages)
    BY <1>15, MessagesOfFolder
  <2> QED
    BY <1>16, <1>17, <2>1 DEF Syncs
<1>19. Fits(s, f)
  BY <1>15, <1>16, <1>18 DEF Fits
<1>20. PICK v : v = WithSync(placed.w, f, s)
  OBVIOUS
<1>21. d.w = v
  BY <1>13, <1>14, <1>16, <1>17, <1>20 DEF PassOver, WithSync
<1>22. /\ Typed(v) /\ Changes(placed.w, v, f) /\ v.sync[f] = s /\ v.running = placed.w.running
  BY <1>12, <1>18, <1>19, <1>20, Put
<1>23. Waits(v)
  BY <1>12, <1>16, <1>18, <1>22, AlikeKeeps
<1> QED
  BY <1>21, <1>22, <1>23

\* What is started for the first folder of the update queue.
LEMMA InitiateDoes ==
    ASSUME UrlsTyped, NEW w, Typed(w), Waits(w), NEW opens, updateQ # <<>>,
           InitiateAutoSync(w, opens)
    PROVE  /\ Typed(Work') /\ Waits(Work') /\ UrlsTyped'
           /\ Head(updateQ) \in Folders
           /\ \/ Work' = w /\ UNCHANGED <<initiated, status, update>>
              \/ /\ w.sync[Head(updateQ)].state \in {"completedIdle", "updateNeeded"}
                 /\ initiated' = TRUE
                 /\ \/ /\ update' = [update EXCEPT ![Head(updateQ)] = @ + 1]
                       /\ UNCHANGED status
                       /\ Work' = SetState(w, Head(updateQ), "updateIssued")
                    \/ /\ status' = [status EXCEPT ![Head(updateQ)] = @ + 1]
                       /\ UNCHANGED update
                       /\ Work' = SetState(w, Head(updateQ), "statusIssued")
<1>1. /\ updateQ \in Seq(Folders) /\ IsInjective(updateQ) /\ initiated \in BOOLEAN
      /\ status \in [Folders -> 0 .. MaxUrls] /\ update \in [Folders -> 0 .. MaxUrls]
      /\ MaxUrls \in Nat
  BY AutoSyncConstants DEF UrlsTyped
<1>2. PICK f : f = Head(updateQ)
  OBVIOUS
<1>3. f \in Folders /\ Tail(updateQ) \in Seq(Folders) /\ IsInjective(Tail(updateQ))
  <2>1. Head(updateQ) \in Folders /\ Tail(updateQ) \in Seq(Folders) /\ IsInjective(Tail(updateQ))
    BY <1>1, TailIs
  <2> QED
    BY <1>2, <2>1
<1>4. OthersWait(w, f)
  BY DEF Waits, OthersWait
<1> DEFINE starts == w.sync[f].state \in {"completedIdle", "updateNeeded"} /\ opens
<1>5. CASE ~starts
  <2>1. /\ updateQ' = Tail(updateQ) /\ Apply(w) /\ UNCHANGED <<initiated, status, update>>
    BY <1>2, <1>5 DEF InitiateAutoSync
  <2>2. Work' = w
    BY <2>1, Applied
  <2>3. UrlsTyped'
    BY <1>1, <1>3, <2>1 DEF UrlsTyped
  <2> QED
    BY <1>2, <1>3, <2>1, <2>2, <2>3
<1>6. CASE starts /\ w.sync[f].state = "updateNeeded"
  <2>1. PICK v : v = SetState(w, f, "updateIssued")
    OBVIOUS
  <2>2. /\ initiated' = TRUE /\ updateQ' = updateQ /\ update[f] < MaxUrls
        /\ update' = [update EXCEPT ![f] = @ + 1] /\ Apply(v) /\ status' = status
    BY <1>2, <1>6, <2>1 DEF InitiateAutoSync
  <2>3. Typed(v) /\ Waits(v)
    BY <1>3, <1>4, <2>1, SetStateKeeps
  <2>4. Work' = v
    BY <2>2, <2>3, Applied
  <2>5. update' \in [Folders -> 0 .. MaxUrls]
    BY <1>1, <1>3, <2>2
  <2>6. UrlsTyped'
    BY <1>1, <2>2, <2>5 DEF UrlsTyped
  <2> QED
    BY <1>2, <1>3, <1>6, <2>1, <2>2, <2>3, <2>4, <2>6
<1>7. CASE starts /\ w.sync[f].state # "updateNeeded"
  <2>1. PICK v : v = SetState(w, f, "statusIssued")
    OBVIOUS
  <2>2. /\ initiated' = TRUE /\ updateQ' = updateQ /\ status[f] < MaxUrls
        /\ status' = [status EXCEPT ![f] = @ + 1] /\ Apply(v) /\ update' = update
    BY <1>2, <1>7, <2>1 DEF InitiateAutoSync
  <2>3. Typed(v) /\ Waits(v)
    BY <1>3, <1>4, <2>1, SetStateKeeps
  <2>4. Work' = v
    BY <2>2, <2>3, Applied
  <2>5. status' \in [Folders -> 0 .. MaxUrls]
    BY <1>1, <1>3, <2>2
  <2>6. UrlsTyped'
    BY <1>1, <2>2, <2>5 DEF UrlsTyped
  <2> QED
    BY <1>2, <1>3, <1>7, <2>1, <2>2, <2>3, <2>4, <2>6
<1> QED
  BY <1>5, <1>6, <1>7

LEMMA TimerKeeps ==
    ASSUME WInv, NEW opens, TimerCallback(opens)
    PROVE  WInv'
<1>1. Typed(Work) /\ Waits(Work) /\ UrlsTyped /\ RestTyped
  BY DEF WInv
<1>2. PICK d : d = IF discoveryQ = <<>> THEN [w |-> Work, over |-> FALSE]
                   ELSE ProcessExistingHeaders(Head(discoveryQ))
  OBVIOUS
<1>3. ProcessQueues(d, opens)
  BY <1>2 DEF TimerCallback
<1>4. discoveryQ \in Seq(Folders) /\ IsInjective(discoveryQ)
  BY <1>1 DEF RestTyped
<1>5. Typed(d.w) /\ Waits(d.w) /\ discoveryQ' \in Seq(Folders) /\ IsInjective(discoveryQ')
  <2>1. CASE discoveryQ = <<>>
    <3>1. d = [w |-> Work, over |-> FALSE]
      BY <1>2, <2>1
    <3>2. d.w = Work /\ d.over = FALSE
      BY <3>1
    <3>3. discoveryQ' = discoveryQ
      BY <1>3, <3>2 DEF ProcessQueues
    <3> QED
      BY <1>1, <1>4, <3>2, <3>3
  <2>2. CASE discoveryQ # <<>>
    <3>1. /\ Head(discoveryQ) \in Folders /\ Tail(discoveryQ) \in Seq(Folders)
          /\ IsInjective(Tail(discoveryQ))
      BY <1>4, <2>2, TailIs
    <3>2. d = ProcessExistingHeaders(Head(discoveryQ))
      BY <1>2, <2>2
    <3>3. Typed(d.w) /\ Waits(d.w)
      BY <3>1, <3>2, PassDoes
    <3>4. discoveryQ' = Tail(discoveryQ) \/ discoveryQ' = discoveryQ
      BY <1>3 DEF ProcessQueues
    <3> QED
      BY <1>4, <3>1, <3>3, <3>4
  <2> QED
    BY <2>1, <2>2
<1>6. Typed(Work') /\ Waits(Work') /\ UrlsTyped'
  <2>1. CASE updateQ # <<>> /\ ~initiated
    <3>1. InitiateAutoSync(d.w, opens)
      BY <1>3, <2>1 DEF ProcessQueues
    <3>2. PICK w : w = d.w
      OBVIOUS
    <3> QED
      BY <1>1, <1>5, <2>1, <3>1, <3>2, InitiateDoes
  <2>2. CASE ~(updateQ # <<>> /\ ~initiated)
    <3>1. Apply(d.w) /\ UNCHANGED <<updateQ, initiated, status, update>>
      BY <1>3, <2>2 DEF ProcessQueues
    <3>2. PICK w : w = d.w
      OBVIOUS
    <3>3. Work' = w
      BY <1>5, <3>1, <3>2, Applied
    <3>4. UrlsTyped'
      BY <1>1, <3>1 DEF UrlsTyped
    <3> QED
      BY <1>5, <3>2, <3>3, <3>4
  <2> QED
    BY <2>1, <2>2
<1>7. RestTyped'
  <2>1. timer' \in BOOLEAN /\ idle' = idle /\ paused' = paused
    BY DEF TimerCallback
  <2> QED
    BY <1>1, <1>5, <2>1 DEF RestTyped
<1> QED
  BY <1>6, <1>7 DEF WInv

\* What is put behind a queue: folders it does not hold, each once.
LEMMA QueueGrows ==
    ASSUME NEW q \in Seq(Folders), IsInjective(q), NEW S, NEW r,
           r = q \o Only(FolderList, S \ ToSet(q))
    PROVE  r \in Seq(Folders) /\ IsInjective(r) /\ (S = {} /\ q = <<>> => r = <<>>)
<1>1. PICK more : more = Only(FolderList, S \ ToSet(q))
  OBVIOUS
<1>2. FolderList \in Seq(Folders) /\ IsInjective(FolderList)
  BY AutoSyncConstants
<1>3. /\ more \in Seq(Folders) /\ IsInjective(more)
      /\ ToSet(more) = ToSet(FolderList) \cap (S \ ToSet(q))
  BY <1>1, <1>2, OnlyMembers
<1>4. PICK p : p = q \o more
  OBVIOUS
<1>5. r \in Seq(Folders) /\ IsInjective(r) /\ Len(r) = Len(q) + Len(more)
  <2>1. more \in Seq(Folders) /\ IsInjective(more) /\ ToSet(q) \cap ToSet(more) = {}
    BY <1>3
  <2>2. p \in Seq(Folders) /\ IsInjective(p) /\ Len(p) = Len(q) + Len(more)
    BY <1>4, <2>1, Joined
  <2>3. r = p
    BY <1>1, <1>4, Zenon
  <2> QED
    BY <2>2, <2>3
<1>6. ASSUME S = {}, q = <<>> PROVE r = <<>>
  <2>1. ToSet(more) = {}
    BY <1>3, <1>6
  <2>2. Len(more) = 0
    <3>1. Len(more) \in Nat /\ \A i \in 1 .. Len(more) : more[i] \in ToSet(more)
      BY <1>3, SeqPlain
    <3>2. 1 \notin 1 .. Len(more)
      BY <2>1, <3>1
    <3> QED
      BY <3>1, <3>2
  <2>3. Len(q) = 0
    BY <1>6
  <2> QED
    BY <1>5, <2>2, <2>3, EmptySeq
<1> QED
  BY <1>5, <1>6

LEMMA GoIdleDoes ==
    ASSUME WInv, NEW kind \in {"systemIdle", "appIdle"}, NEW stale, NEW old,
           GoIdle(kind, stale, old)
    PROVE  /\ WInv'
           /\ \A g \in Folders : sync'[g] = sync[g] \/ g \in ToSet(priorityQ)
           /\ ~paused /\ Orderly(Work) => Orderly(Work')
           /\ UNCHANGED <<initiated, status, update>>
           /\ old = {} /\ discoveryQ = <<>> => discoveryQ' = <<>>
<1>1. Typed(Work) /\ Waits(Work) /\ UrlsTyped /\ RestTyped
  BY DEF WInv
<1>2. paused' = paused /\ idle' \in {"notIdle", "systemIdle", "appIdle"}
  BY <1>1 DEF GoIdle, RestTyped
<1>3. CASE UNCHANGED <<downloadVars, updateVars, timer>>
  <2>1. UNCHANGED downloadVars /\ UNCHANGED <<discoveryQ, updateQ, initiated, status, update>>
        /\ timer' = timer
    BY <1>3 DEF updateVars
  <2>2. Typed(Work') /\ Waits(Work') /\ (Orderly(Work) => Orderly(Work'))
    BY <1>1, <2>1, DownloadsKept
  <2>3. UrlsTyped' /\ RestTyped'
    BY <1>1, <1>2, <2>1 DEF UrlsTyped, RestTyped
  <2>4. sync' = sync
    BY <2>1 DEF downloadVars
  <2> QED
    BY <2>1, <2>2, <2>3, <2>4 DEF WInv
<1>4. CASE AutoUpdateFolders(StartedAll(Work), stale, old)
  <2>1. PICK v : v = StartedAll(Work)
    OBVIOUS
  <2>2. /\ Typed(v)
        /\ \A g \in Folders : Kept(Work, v, g) \/ g \in ToSet(Work.pq)
        /\ Waits(v) /\ (~paused /\ Orderly(Work) => Orderly(v))
    BY <1>1, <2>1, StartedDoes
  <2>3. AutoUpdateFolders(v, stale, old)
    BY <1>4, <2>1
  <2>4. Apply(v) /\ UNCHANGED <<initiated, status, update>>
    BY <2>3 DEF AutoUpdateFolders
  <2>5. Work' = v
    BY <2>2, <2>4, Applied
  <2>6. \A g \in Folders : sync'[g] = sync[g] \/ g \in ToSet(priorityQ)
    BY <2>2, <2>4, WorkIs DEF Kept, Apply
  <2>7. updateQ' \in Seq(Folders) /\ IsInjective(updateQ')
    <3>1. PICK S : S = {f \in stale \ ToSet(updateQ) : v.sync[f].state = "completedIdle"}
      OBVIOUS
    <3>2. S = S \ ToSet(updateQ)
      BY <3>1
    <3>3. updateQ' = updateQ \o Only(FolderList, S)
      BY <2>3, <3>1 DEF AutoUpdateFolders
    <3>4. PICK q : q = updateQ /\ q \in Seq(Folders) /\ IsInjective(q)
      BY <1>1 DEF UrlsTyped
    <3>5. PICK r : r = q \o Only(FolderList, S \ ToSet(q))
      OBVIOUS
    <3>6. r \in Seq(Folders) /\ IsInjective(r)
      BY <3>4, <3>5, QueueGrows
    <3> QED
      BY <3>2, <3>3, <3>4, <3>5, <3>6
  <2>8. /\ discoveryQ' \in Seq(Folders) /\ IsInjective(discoveryQ')
        /\ old = {} /\ discoveryQ = <<>> => discoveryQ' = <<>>
    <3>1. PICK q : q = discoveryQ /\ q \in Seq(Folders) /\ IsInjective(q)
      BY <1>1 DEF RestTyped
    <3>2. PICK r : r = q \o Only(FolderList, old \ ToSet(q))
      OBVIOUS
    <3>3. r \in Seq(Folders) /\ IsInjective(r) /\ (old = {} /\ q = <<>> => r = <<>>)
      BY <3>1, <3>2, QueueGrows
    <3>4. discoveryQ' = r
      BY <2>3, <3>1, <3>2 DEF AutoUpdateFolders
    <3> QED
      BY <3>1, <3>3, <3>4
  <2>9. timer' \in BOOLEAN
    BY <2>3 DEF AutoUpdateFolders
  <2>10. UrlsTyped' /\ RestTyped'
    BY <1>1, <1>2, <2>4, <2>7, <2>8, <2>9 DEF UrlsTyped, RestTyped
  <2> QED
    BY <2>2, <2>4, <2>5, <2>6, <2>8, <2>10 DEF WInv
<1> QED
  BY <1>3, <1>4 DEF GoIdle, StartIdleProcessing

\* A step that is only about idle times and the network.
LEMMA IdleKeeps ==
    ASSUME WInv, UNCHANGED <<downloadVars, updateVars>>, paused' \in BOOLEAN, timer' \in BOOLEAN,
           idle' \in {"notIdle", "systemIdle", "appIdle"}
    PROVE  WInv' /\ (CInv /\ ~paused' => CInv')
<1>1. Typed(Work) /\ Waits(Work) /\ UrlsTyped /\ RestTyped
  BY DEF WInv
<1>2. UNCHANGED downloadVars /\ UNCHANGED <<discoveryQ, updateQ, initiated, status, update>>
      /\ sync' = sync
  BY DEF updateVars, downloadVars
<1>3. Typed(Work') /\ Waits(Work') /\ (Orderly(Work) => Orderly(Work'))
  BY <1>1, <1>2, DownloadsKept
<1>4. UrlsTyped' /\ RestTyped'
  BY <1>1, <1>2 DEF UrlsTyped, RestTyped
<1>5. WInv'
  BY <1>3, <1>4 DEF WInv
<1>6. CInv /\ ~paused' => CInv'
  BY <1>2, <1>3, <1>5 DEF CInv, OneUrl, Asked
<1> QED
  BY <1>5, <1>6

LEMMA ComeBackKeeps ==
    ASSUME WInv, NEW kind, ComeBack(kind)
    PROVE  WInv' /\ (CInv /\ ~paused' => CInv')
<1>1. /\ UNCHANGED <<downloadVars, updateVars>> /\ paused' = paused /\ timer' = timer
      /\ idle' = "notIdle"
  BY DEF ComeBack
<1>2. paused' \in BOOLEAN /\ timer' \in BOOLEAN
  BY <1>1 DEF WInv, RestTyped
<1> QED
  BY <1>1, <1>2, IdleKeeps

LEMMA PauseKeeps ==
    ASSUME WInv, Pause
    PROVE  WInv' /\ (CInv /\ ~paused' => CInv')
<1>1. UNCHANGED <<downloadVars, updateVars>> /\ paused' \in BOOLEAN /\ timer' \in BOOLEAN
      /\ idle' \in {"notIdle", "systemIdle", "appIdle"}
  BY DEF Pause, WInv, RestTyped
<1> QED
  BY <1>1, IdleKeeps

LEMMA ResumeKeeps ==
    ASSUME WInv, Resume
    PROVE  WInv' /\ (CInv /\ ~paused' => CInv')
<1>1. UNCHANGED <<downloadVars, updateVars>> /\ paused' \in BOOLEAN /\ timer' \in BOOLEAN
      /\ idle' \in {"notIdle", "systemIdle", "appIdle"}
  BY DEF Resume, WInv, RestTyped
<1> QED
  BY <1>1, IdleKeeps

LEMMA StutterKeeps ==
    ASSUME WInv, UNCHANGED vars
    PROVE  WInv' /\ (CInv /\ ~paused' => CInv')
<1>1. UNCHANGED <<downloadVars, updateVars>> /\ paused' \in BOOLEAN /\ timer' \in BOOLEAN
      /\ idle' \in {"notIdle", "systemIdle", "appIdle"}
  BY DEF vars, idleVars, WInv, RestTyped
<1> QED
  BY <1>1, IdleKeeps

-----------------------------------------------------------------------------
(* The theorems *)

LEMMA InitInv == Init => CInv
<1> SUFFICES ASSUME Init PROVE CInv
  OBVIOUS
<1>1. /\ <<>> \in Seq(Messages) /\ <<>> \in Seq(Folders) /\ <<>> \in Seq(SUBSET Messages)
      /\ \A f \in Folders : <<>> \in Seq(MsgsOf[f]) /\ <<>> \in Seq(SUBSET MsgsOf[f])
      /\ Len(<<>>) = 0 /\ IsInjective(<<>>) /\ ToSet(<<>>) = {}
  BY DEF IsInjective, ToSet
<1>2. PICK s : s = [state |-> "completedIdle", q |-> <<>>, offset |-> 0, last |-> 0,
                    retry |-> 0, changed |-> FALSE, held |-> FALSE, existing |-> <<>>]
  OBVIOUS
<1>3. /\ s \in Syncs /\ s.state = "completedIdle" /\ s.q = <<>> /\ s.offset = 0 /\ s.last = 0
      /\ s.retry = 0 /\ s.held = FALSE /\ s.existing = <<>>
  BY <1>1, <1>2 DEF Syncs, States
<1>4. /\ sync = [f \in Folders |-> s] /\ running = [f \in Folders |-> <<>>]
      /\ priorityQ = <<>> /\ discoveryQ = <<>> /\ updateQ = <<>> /\ initiated = FALSE
      /\ idle = "notIdle" /\ paused = FALSE /\ timer = FALSE
      /\ message \in [Messages -> Stages]
  BY <1>2 DEF Init, Stages
<1>5. status = [f \in Folders |-> 0] /\ update = [f \in Folders |-> 0] /\ MaxUrls \in Nat
      /\ GroupRetryCount \in Nat
  BY AutoSyncConstants DEF Init
<1>6. ASSUME NEW f \in Folders
      PROVE  /\ Work.sync[f] = s /\ Work.running[f] = <<>> /\ Fits(s, f)
             /\ Len(Work.running[f]) = 0 /\ status[f] = 0 /\ update[f] = 0
  <2>1. Fits(s, f)
    BY <1>1, <1>3, <1>5 DEF Fits
  <2>2. status[f] = 0 /\ update[f] = 0
    BY <1>5
  <2> QED
    BY <1>1, <1>4, <2>1, <2>2, WorkIs
<1>7. Work \in Works
  <2>1. sync \in [Folders -> Syncs] /\ running \in [Folders -> Seq(SUBSET Messages)]
    BY <1>1, <1>3, <1>4
  <2> QED
    BY <1>1, <1>4, <2>1 DEF Work, Works
<1>8. Typed(Work)
  <2>1. IsInjective(Work.pq)
    BY <1>1, <1>4, WorkIs
  <2> QED
    BY <1>1, <1>6, <1>7, <2>1 DEF Typed
<1>9. Waits(Work) /\ Orderly(Work)
  <2>1. ToSet(Work.pq) = {}
    BY <1>1, <1>4, WorkIs
  <2> QED
    BY <1>3, <1>6, <2>1 DEF Waits, Orderly, Fair
<1>10. status \in [Folders -> 0 .. MaxUrls] /\ update \in [Folders -> 0 .. MaxUrls]
  BY <1>5
<1>11. UrlsTyped /\ RestTyped
  BY <1>1, <1>4, <1>10 DEF UrlsTyped, RestTyped
<1>12. OneUrl /\ Asked
  BY <1>6 DEF OneUrl, Asked
<1> QED
  BY <1>4, <1>8, <1>9, <1>11, <1>12 DEF CInv, WInv

LEMMA WStep == WInv /\ [Next]_vars => WInv'
<1> SUFFICES ASSUME WInv, [Next]_vars PROVE WInv'
  OBVIOUS
<1>1. ASSUME NEW f \in Folders, NEW changed \in BOOLEAN, NEW ok \in BOOLEAN,
             StatusStops(f, ok, changed)
      PROVE  WInv'
  BY <1>1, StatusStopsKeeps
<1>2. ASSUME NEW f \in Folders, NEW changed \in BOOLEAN, NEW ok \in BOOLEAN,
             NEW got \in SUBSET MsgsOf[f], DownloadStops(f, ok, got, changed)
      PROVE  WInv'
  BY <1>2, DownloadStopsKeeps
<1>3. ASSUME NEW f \in Folders, UpdateStops(f)
      PROVE  WInv'
  BY <1>3, UpdateStopsKeeps
<1>4. ASSUME NEW f \in Folders, NEW new \in SUBSET MsgsOf[f], HeaderFetchCompleted(f, new)
      PROVE  WInv'
  BY <1>4, HeaderFetchCompletedKeeps
<1>5. ASSUME NEW f \in Folders, NEW front \in BOOLEAN, OnFolderHasPendingMsgs(f, front)
      PROVE  WInv'
  BY <1>5, PendingKeeps
<1>6. ASSUME NEW m \in Messages, NEW to \in {"stored", "deleted"}, UserTakes(m, to)
      PROVE  WInv'
  BY <1>6, UserTakesKeeps
<1>7. ASSUME NEW opens \in BOOLEAN, TimerCallback(opens)
      PROVE  WInv'
  BY <1>7, TimerKeeps
<1>8. ASSUME NEW kind \in {"systemIdle", "appIdle"}, NEW stale, NEW old,
             GoIdle(kind, stale, old)
      PROVE  WInv'
  BY <1>8, GoIdleDoes
<1>9. ASSUME NEW kind, ComeBack(kind)
      PROVE  WInv'
  BY <1>9, ComeBackKeeps
<1>10. CASE Pause
  BY <1>10, PauseKeeps
<1>11. CASE Resume
  BY <1>11, ResumeKeeps
<1>12. CASE UNCHANGED vars
  BY <1>12, StutterKeeps
<1> QED
  BY <1>1, <1>2, <1>3, <1>4, <1>5, <1>6, <1>7, <1>8, <1>9, <1>10, <1>11, <1>12 DEF Next

\* TypeOK: the download queue of a folder holds each of its own messages once, what has
\* been taken from it and what the last group began with are places in it, a folder stands
\* in each of the manager's queues once, and a group is retried as often as agreed.
THEOREM AutoSyncTyped == Spec => []TypeOK
<1>1. WInv => TypeOK
  <2> SUFFICES ASSUME WInv PROVE TypeOK
    OBVIOUS
  <2>1. Typed(Work) /\ UrlsTyped /\ RestTyped
    BY DEF WInv
  <2>2. ASSUME NEW f \in Folders
        PROVE  /\ sync[f].state \in States
               /\ sync[f].q \in Seq(MsgsOf[f]) /\ IsInjective(sync[f].q)
               /\ sync[f].offset \in 0 .. Len(sync[f].q)
               /\ sync[f].last \in 0 .. sync[f].offset
               /\ sync[f].retry \in 0 .. GroupRetryCount
               /\ sync[f].changed \in BOOLEAN /\ sync[f].held \in BOOLEAN
               /\ sync[f].existing \in Seq(MsgsOf[f])
               /\ running[f] \in Seq(SUBSET MsgsOf[f])
               /\ status[f] \in 0 .. MaxUrls /\ update[f] \in 0 .. MaxUrls
    <3>1. PICK s : s = sync[f] /\ s \in Syncs /\ Fits(s, f)
      BY <2>1, SyncTyped, WorkIs
    <3>2. s.q \in Seq(MsgsOf[f]) /\ Len(s.q) \in Nat /\ s.offset \in Nat /\ s.last \in Nat
          /\ s.retry \in Nat /\ GroupRetryCount \in Nat
      BY <3>1, LenProperties, AutoSyncConstants DEF Fits, Syncs
    <3>3. /\ s.offset \in 0 .. Len(s.q) /\ s.last \in 0 .. s.offset
          /\ s.retry \in 0 .. GroupRetryCount
      BY <3>1, <3>2 DEF Fits
    <3>4. /\ s.state \in States /\ IsInjective(s.q) /\ s.changed \in BOOLEAN
          /\ s.held \in BOOLEAN /\ s.existing \in Seq(MsgsOf[f])
      BY <3>1 DEF Fits, Syncs
    <3>5. running[f] \in Seq(SUBSET MsgsOf[f])
      BY <2>1, SyncTyped, WorkIs
    <3>6. status[f] \in 0 .. MaxUrls /\ update[f] \in 0 .. MaxUrls
      BY <2>1 DEF UrlsTyped
    <3> QED
      BY <3>1, <3>2, <3>3, <3>4, <3>5, <3>6
  <2>3. priorityQ \in Seq(Folders) /\ IsInjective(priorityQ) /\ message \in [Messages -> Stages]
    BY <2>1, WorkIs DEF Typed, Works
  <2> QED
    BY <2>1, <2>2, <2>3 DEF TypeOK, UrlsTyped, RestTyped, Stages
<1> QED
  BY <1>1, InitInv, WStep, PTL DEF Spec, CInv

\* WaitedFor: whatever happens beside auto-sync's own work, a folder that counts as
\* downloading has a group under way, whose end wakes the folders that wait for it.
THEOREM AutoSyncWaitedFor == Spec => []WaitedFor
<1>1. WInv => WaitedFor
  <2> SUFFICES ASSUME WInv, NEW f \in Folders, sync[f].state = "downloadInProgress"
               PROVE  running[f] # <<>>
    BY DEF WaitedFor
  <2>1. Len(running[f]) > 0
    BY WorkIs DEF WInv, Waits
  <2>2. Len(<<>>) = 0
    OBVIOUS
  <2> QED
    BY <2>1, <2>2
<1> QED
  BY <1>1, InitInv, WStep, PTL DEF Spec, CInv

\* The end of a STATUS: the folder is waited for by nobody, so its url is the only one.
LEMMA UrlsAre ==
    ASSUME CInv, NEW f \in Folders
    PROVE  /\ status[f] \in Nat /\ update[f] \in Nat /\ status[f] + update[f] <= 1
           /\ status[f] + update[f] > 0 =>
                 /\ initiated
                 /\ \A g \in Folders : g # f => status[g] = 0 /\ update[g] = 0
           /\ status[f] > 0 => sync[f].state = "statusIssued" /\ f \notin ToSet(priorityQ)
           /\ Len(running[f]) \in Nat
           /\ sync[f].held \in BOOLEAN
<1>1. /\ status \in [Folders -> 0 .. MaxUrls] /\ update \in [Folders -> 0 .. MaxUrls]
      /\ MaxUrls \in Nat
  BY AutoSyncConstants DEF CInv, WInv, UrlsTyped
<1>2. \A g \in Folders : status[g] \in Nat /\ update[g] \in Nat
  BY <1>1
<1>3. status[f] + update[f] <= 1
  BY DEF CInv, OneUrl
<1>4. ASSUME status[f] + update[f] > 0
      PROVE  /\ initiated
             /\ \A g \in Folders : g # f => status[g] = 0 /\ update[g] = 0
  <2>1. initiated /\ \A g \in Folders : g # f => status[g] + update[g] = 0
    BY <1>2, <1>4 DEF CInv, OneUrl
  <2> QED
    BY <1>2, <2>1
<1>5. status[f] > 0 => sync[f].state = "statusIssued" /\ f \notin ToSet(priorityQ)
  <2>1. status[f] > 0 => sync[f].state = "statusIssued"
    BY DEF CInv, Asked
  <2>2. f \in ToSet(priorityQ) => sync[f].state \in {"readyToDownload", "downloadInProgress"}
    BY WorkIs DEF CInv, Orderly, Fair
  <2> QED
    BY <2>1, <2>2
<1>6. Len(running[f]) \in Nat /\ sync[f].held \in BOOLEAN
  <2>1. Typed(Work)
    BY DEF CInv, WInv
  <2>2. running[f] \in Seq(SUBSET MsgsOf[f]) /\ sync[f] \in Syncs
    BY <2>1, SyncTyped, WorkIs
  <2> QED
    BY <2>2, LenProperties DEF Syncs
<1> QED
  BY <1>2, <1>3, <1>4, <1>5, <1>6

LEMMA StatusStopsCalm ==
    ASSUME CInv, NEW f \in Folders, NEW ok, NEW changed, StatusStops(f, ok, changed)
    PROVE  CInv'
<1>1. WInv'
  BY StatusStopsKeeps DEF CInv
<1>2. /\ status[f] = 1 /\ update[f] = 0 /\ initiated
      /\ \A g \in Folders : g # f => status[g] = 0 /\ update[g] = 0
      /\ sync[f].state = "statusIssued" /\ f \notin ToSet(Work.pq)
  <2>1. status[f] > 0
    BY DEF StatusStops
  <2> QED
    BY <2>1, UrlsAre, WorkIs
<1>3. /\ status \in [Folders -> 0 .. MaxUrls] /\ update \in [Folders -> 0 .. MaxUrls]
  BY DEF CInv, WInv, UrlsTyped
<1>4. status' = [status EXCEPT ![f] = @ - 1] /\ discoveryQ' = <<>> /\ ~paused'
  BY DEF StatusStops, CInv, idleVars
<1>5. \A g \in Folders : status'[g] = 0
  BY <1>2, <1>3, <1>4
<1>6. OnStopRunningUrl(Work, f, ok, changed) /\ Work.sync[f].state = "statusIssued"
  BY <1>2, WorkIs DEF StatusStops
<1>7. Typed(Work) /\ Orderly(Work)
  BY DEF CInv, WInv
<1>8. CASE changed
  <2>1. PICK v : v = SetState(Work, f, "updateIssued")
    OBVIOUS
  <2>2. Typed(v) /\ Orderly(v)
    BY <1>2, <1>7, <2>1, SetStateKeeps
  <2>3. /\ Apply(v) /\ update' = [update EXCEPT ![f] = @ + 1] /\ initiated' = initiated
    BY <1>6, <1>8, <2>1 DEF OnStopRunningUrl
  <2>4. Work' = v
    BY <2>2, <2>3, Applied
  <2>5. update'[f] = 1 /\ \A g \in Folders : g # f => update'[g] = 0
    BY <1>2, <1>3, <2>3
  <2>6. OneUrl' /\ Asked'
    BY <1>2, <1>5, <2>3, <2>5 DEF OneUrl, Asked
  <2> QED
    BY <1>1, <1>4, <2>2, <2>4, <2>6 DEF CInv
<1>9. CASE ~changed
  <2>1. PICK v : v = SetState(Work, f, "completedIdle")
    OBVIOUS
  <2>2. Typed(v) /\ Orderly(v)
    BY <1>2, <1>7, <2>1, SetStateKeeps
  <2>3. Apply(v) /\ update' = update
    BY <1>6, <1>9, <2>1 DEF OnStopRunningUrl
  <2>4. Work' = v
    BY <2>2, <2>3, Applied
  <2>5. \A g \in Folders : update'[g] = 0
    BY <1>2, <2>3
  <2>6. OneUrl' /\ Asked'
    BY <1>5, <2>5 DEF OneUrl, Asked
  <2> QED
    BY <1>1, <1>4, <2>2, <2>4, <2>6 DEF CInv
<1> QED
  BY <1>8, <1>9

LEMMA DownloadStopsCalm ==
    ASSUME CInv, NEW f \in Folders, NEW ok, NEW got, NEW changed,
           DownloadStops(f, ok, got, changed)
    PROVE  CInv'
<1>1. WInv'
  BY DownloadStopsKeeps DEF CInv
<1>2. Typed(Work) /\ Orderly(Work) /\ ~paused
  BY DEF CInv, WInv
<1>3. PICK w : w = Fetched(Work, f, got)
  OBVIOUS
<1>4. OnStopRunningUrl(w, f, ok, changed) /\ Work.running[f] # <<>>
  BY <1>3, WorkIs DEF DownloadStops, Fetched
<1>5. /\ Typed(w) /\ w.pq = Work.pq /\ w.sync = Work.sync
      /\ Len(w.running[f]) = Len(Work.running[f]) - 1 /\ Len(Work.running[f]) > 0
      /\ \A g \in Folders : g # f => w.running[g] = Work.running[g]
  BY <1>2, <1>3, <1>4, FetchedDoes
<1>6. /\ Work.sync[f].held /\ Len(Work.running[f]) = 1 /\ f \in ToSet(Work.pq)
      /\ Work.sync[f].state = "downloadInProgress"
  <2>1. Fair(Work, f)
    BY <1>2 DEF Orderly
  <2>2. Len(Work.running[f]) > 0
    BY <1>5
  <2>3. Work.sync[f].held
    BY <2>1, <2>2 DEF Fair
  <2>4. Len(Work.running[f]) = 1 /\ Work.sync[f].state = "downloadInProgress"
    BY <2>1, <2>3 DEF Fair
  <2> QED
    BY <2>1, <2>3, <2>4 DEF Fair
<1>7. PICK h : h = Released(w, f)
  OBVIOUS
<1>8. Typed(h) /\ Changes(w, h, f) /\ h.running = w.running /\ ~h.sync[f].held
  BY <1>5, <1>7, ReleasedDoes
<1>9. \A g \in Folders : g # f => /\ h.sync[g] = Work.sync[g]
                                  /\ h.running[g] = Work.running[g]
  BY <1>5, <1>8 DEF Changes
<1>10. h.pq = Work.pq /\ Len(h.running[f]) = 0
  BY <1>5, <1>6, <1>8 DEF Changes
<1>11. Ended(h, f)
  <2>1. \A g \in Folders : g # f => Fair(h, g)
    BY <1>2, <1>9, <1>10 DEF Orderly, Fair
  <2>2. \A g, e \in Folders : Siblings(g, e) => ~(h.sync[g].held /\ h.sync[e].held)
    <3>1. \A g \in Folders : h.sync[g].held => Work.sync[g].held
      BY <1>8, <1>9
    <3> QED
      BY <1>2, <3>1 DEF Orderly
  <2>3. Free(h, f)
    <3>1. \A g \in Folders : Siblings(f, g) => ~Work.sync[g].held
      BY <1>2, <1>6 DEF Orderly
    <3>2. \A g \in Folders : g # f /\ Server[g] = Server[f] => ~h.sync[g].held
      BY <1>9, <3>1 DEF Siblings
    <3> QED
      BY <1>8, <3>2 DEF Free
  <2> QED
    BY <1>6, <1>10, <2>1, <2>2, <2>3 DEF Ended
<1>12. PICK v : v = OnDownloadCompleted(h, f, ok)
  OBVIOUS
<1>13. /\ Typed(v) /\ Orderly(v)
       /\ \A g \in Folders : g # f => Kept(h, v, g) \/ g \in ToSet(h.pq)
  BY <1>2, <1>8, <1>11, <1>12, CompletedDoes
<1>14. Apply(v) /\ UNCHANGED <<initiated, updateQ, update>>
  <2>1. w.sync[f].state # "statusIssued"
    BY <1>5, <1>6
  <2> QED
    BY <1>4, <1>7, <1>12, <2>1 DEF OnStopRunningUrl, Released
<1>15. Work' = v
  BY <1>13, <1>14, Applied
<1>16. status' = status /\ discoveryQ' = <<>> /\ ~paused /\ ~paused'
  BY DEF DownloadStops, CInv, idleVars
<1>17. OneUrl'
  BY <1>14, <1>16 DEF CInv, OneUrl
<1>18. Asked'
  <2> SUFFICES ASSUME NEW g \in Folders, status[g] > 0
               PROVE  sync'[g].state = "statusIssued"
    BY <1>16 DEF Asked
  <2>1. sync[g].state = "statusIssued" /\ g \notin ToSet(priorityQ)
    BY UrlsAre
  <2>2. g # f /\ g \notin ToSet(h.pq)
    BY <1>6, <1>10, <2>1, WorkIs
  <2>3. Kept(h, v, g)
    BY <1>13, <2>2
  <2>4. v.sync[g] = sync[g] /\ sync' = v.sync
    BY <1>9, <1>14, <2>2, <2>3, WorkIs DEF Kept, Apply
  <2> QED
    BY <2>1, <2>4
<1> QED
  BY <1>1, <1>13, <1>15, <1>16, <1>17, <1>18 DEF CInv

LEMMA UpdateStopsCalm ==
    ASSUME CInv, NEW f \in Folders, UpdateStops(f)
    PROVE  CInv'
<1>1. WInv'
  BY UpdateStopsKeeps DEF CInv
<1>2. Typed(Work) /\ Orderly(Work)
  BY DEF CInv, WInv
<1>3. /\ UNCHANGED downloadVars /\ sync' = sync /\ status' = status /\ discoveryQ' = <<>>
      /\ ~paused'
  BY DEF UpdateStops, downloadVars, idleVars, CInv
<1>4. Orderly(Work')
  BY <1>2, <1>3, DownloadsKept
<1>5. /\ update[f] = 1 /\ status[f] = 0
      /\ \A g \in Folders : g # f => status[g] = 0 /\ update[g] = 0
  <2>1. update[f] > 0
    BY DEF UpdateStops
  <2> QED
    BY <2>1, UrlsAre
<1>6. update \in [Folders -> 0 .. MaxUrls] /\ update' = [update EXCEPT ![f] = @ - 1]
  BY DEF UpdateStops, CInv, WInv, UrlsTyped
<1>7. \A g \in Folders : update'[g] = 0 /\ status'[g] = 0
  BY <1>3, <1>5, <1>6
<1>8. OneUrl' /\ Asked'
  BY <1>7 DEF OneUrl, Asked
<1> QED
  BY <1>1, <1>3, <1>4, <1>8 DEF CInv

LEMMA HeaderFetchCompletedCalm ==
    ASSUME CInv, Undisturbed, NEW f \in Folders, NEW new, HeaderFetchCompleted(f, new)
    PROVE  CInv'
<1>1. /\ WInv'
      /\ \A g \in Folders : g # f => sync'[g] = sync[g]
      /\ Orderly(Work) /\ ~paused /\ (~sync[f].held => Orderly(Work'))
  BY HeaderFetchCompletedKeeps DEF CInv
<1>2. "overlap" \notin Disturbances
  BY DEF Undisturbed
<1>3. running[f] = <<>> /\ status[f] = 0
  <2>1. running[f] = <<>> /\ (update[f] > 0 \/ status[f] = 0)
    BY <1>2 DEF HeaderFetchCompleted, NoUrl
  <2> QED
    BY <2>1, UrlsAre
<1>4. ~sync[f].held
  <2>1. Len(<<>>) = 0
    OBVIOUS
  <2> QED
    BY <1>3, <2>1, WorkIs DEF CInv, Orderly, Fair
<1>5. UNCHANGED <<discoveryQ, initiated, status, update, paused>>
  BY DEF HeaderFetchCompleted, updateVars, idleVars
<1>6. OneUrl' /\ discoveryQ' = <<>>
  BY <1>5 DEF CInv, OneUrl
<1>7. Asked'
  <2> SUFFICES ASSUME NEW g \in Folders, status[g] > 0
               PROVE  sync'[g].state = "statusIssued"
    BY <1>5 DEF Asked
  <2>1. g # f
    BY <1>3
  <2> QED
    BY <1>1, <2>1 DEF CInv, Asked
<1> QED
  BY <1>1, <1>4, <1>5, <1>6, <1>7 DEF CInv

LEMMA UserTakesCalm ==
    ASSUME CInv, NEW m \in Messages, NEW to \in {"stored", "deleted"}, UserTakes(m, to)
    PROVE  CInv'
<1>1. WInv' /\ Orderly(Work')
  BY UserTakesKeeps DEF CInv
<1>2. /\ sync' = sync /\ discoveryQ' = discoveryQ /\ initiated' = initiated
      /\ status' = status /\ update' = update /\ ~paused'
  BY DEF UserTakes, updateVars, idleVars, CInv
<1>3. OneUrl' /\ Asked' /\ discoveryQ' = <<>>
  BY <1>2 DEF CInv, OneUrl, Asked
<1> QED
  BY <1>1, <1>2, <1>3 DEF CInv

LEMMA TimerCalm ==
    ASSUME CInv, NEW opens, TimerCallback(opens)
    PROVE  CInv'
<1>1. WInv'
  BY TimerKeeps DEF CInv
<1>2. Typed(Work) /\ Waits(Work) /\ Orderly(Work) /\ UrlsTyped /\ discoveryQ = <<>>
  BY DEF CInv, WInv
<1>3. PICK d : d = [w |-> Work, over |-> FALSE]
  OBVIOUS
<1>4. d.w = Work /\ d.over = FALSE /\ ProcessQueues(d, opens)
  BY <1>2, <1>3 DEF TimerCallback
<1>5. discoveryQ' = <<>> /\ ~paused'
  BY <1>2, <1>4 DEF ProcessQueues, TimerCallback, CInv
<1>6. CASE Work' = Work /\ UNCHANGED <<initiated, status, update>>
  <2>1. sync' = sync
    BY <1>6, WorkIs DEF Work
  <2>2. OneUrl' /\ Asked'
    BY <1>6, <2>1 DEF CInv, OneUrl, Asked
  <2> QED
    BY <1>1, <1>2, <1>5, <1>6, <2>2 DEF CInv
<1>7. CASE updateQ # <<>> /\ ~initiated
  <2>1. InitiateAutoSync(Work, opens)
    BY <1>4, <1>7 DEF ProcessQueues
  <2>2. PICK f : f = Head(updateQ)
    OBVIOUS
  <2>3. PICK w : w = Work
    OBVIOUS
  <2>4. /\ f \in Folders
        /\ \/ Work' = w /\ UNCHANGED <<initiated, status, update>>
           \/ /\ w.sync[f].state \in {"completedIdle", "updateNeeded"}
              /\ initiated' = TRUE
              /\ \/ /\ update' = [update EXCEPT ![f] = @ + 1]
                    /\ UNCHANGED status
                    /\ Work' = SetState(w, f, "updateIssued")
                 \/ /\ status' = [status EXCEPT ![f] = @ + 1]
                    /\ UNCHANGED update
                    /\ Work' = SetState(w, f, "statusIssued")
    BY <1>2, <1>7, <2>1, <2>2, <2>3, InitiateDoes
  <2>5. \A g \in Folders : status[g] = 0 /\ update[g] = 0
    <3> SUFFICES ASSUME NEW g \in Folders PROVE status[g] = 0 /\ update[g] = 0
      OBVIOUS
    <3>1. status[g] \in Nat /\ update[g] \in Nat /\ ~(status[g] + update[g] > 0)
      BY <1>7, UrlsAre
    <3> QED
      BY <3>1
  <2>6. /\ status \in [Folders -> 0 .. MaxUrls] /\ update \in [Folders -> 0 .. MaxUrls]
    BY <1>2 DEF UrlsTyped
  <2>7. ASSUME w.sync[f].state \in {"completedIdle", "updateNeeded"}
        PROVE  f \notin ToSet(w.pq)
    <3>1. Fair(Work, f)
      BY <1>2, <2>4 DEF Orderly
    <3> QED
      BY <2>3, <2>7, <3>1 DEF Fair
  <2>8. Typed(w) /\ Orderly(w)
    BY <1>2, <2>3
  <2>9. CASE /\ update' = [update EXCEPT ![f] = @ + 1] /\ UNCHANGED status /\ initiated' = TRUE
             /\ Work' = SetState(w, f, "updateIssued")
             /\ w.sync[f].state \in {"completedIdle", "updateNeeded"}
    <3>1. PICK v : v = SetState(w, f, "updateIssued")
      OBVIOUS
    <3>2. Orderly(Work')
      <4>1. f \in Folders /\ f \notin ToSet(w.pq)
        BY <2>4, <2>7, <2>9
      <4>2. Orderly(v)
        BY <2>8, <3>1, <4>1, SetStateKeeps
      <4> QED
        BY <2>9, <3>1, <4>2
    <3>3. update'[f] = 1 /\ \A g \in Folders : g # f => update'[g] = 0
      BY <2>4, <2>5, <2>6, <2>9
    <3>4. \A g \in Folders : status'[g] = 0
      BY <2>5, <2>9
    <3>5. OneUrl' /\ Asked'
      BY <2>9, <3>3, <3>4 DEF OneUrl, Asked
    <3> QED
      BY <1>1, <1>5, <3>2, <3>5 DEF CInv
  <2>10. CASE /\ status' = [status EXCEPT ![f] = @ + 1] /\ UNCHANGED update /\ initiated' = TRUE
              /\ Work' = SetState(w, f, "statusIssued")
              /\ w.sync[f].state \in {"completedIdle", "updateNeeded"}
    <3>1. PICK v : v = SetState(w, f, "statusIssued")
      OBVIOUS
    <3>2. Orderly(Work') /\ sync'[f].state = "statusIssued"
      <4>1. f \in Folders /\ f \notin ToSet(w.pq)
        BY <2>4, <2>7, <2>10
      <4>2. Orderly(v)
        BY <2>8, <3>1, <4>1, SetStateKeeps
      <4>3. v.sync[f].state = "statusIssued"
        <5>1. "statusIssued" \in States
          BY DEF States
        <5> QED
          BY <2>8, <3>1, <4>1, <5>1, SetStateDoes
      <4>4. Work' = v
        BY <2>10, <3>1
      <4>5. sync' = v.sync
        BY <4>4 DEF Work
      <4> QED
        BY <4>2, <4>3, <4>4, <4>5
    <3>3. status'[f] = 1 /\ \A g \in Folders : g # f => status'[g] = 0
      BY <2>4, <2>5, <2>6, <2>10
    <3>4. \A g \in Folders : update'[g] = 0
      BY <2>5, <2>10
    <3>5. OneUrl' /\ Asked'
      BY <2>10, <3>2, <3>3, <3>4 DEF OneUrl, Asked
    <3> QED
      BY <1>1, <1>5, <3>2, <3>5 DEF CInv
  <2> QED
    BY <1>6, <2>3, <2>4, <2>9, <2>10
<1>8. CASE ~(updateQ # <<>> /\ ~initiated)
  <2>1. Apply(Work) /\ UNCHANGED <<updateQ, initiated, status, update>>
    BY <1>4, <1>8 DEF ProcessQueues
  <2>2. PICK w : w = Work
    OBVIOUS
  <2>3. Work' = w
    BY <1>2, <2>1, <2>2, Applied
  <2> QED
    BY <1>6, <2>1, <2>2, <2>3
<1> QED
  BY <1>7, <1>8

LEMMA GoIdleCalm ==
    ASSUME CInv, Undisturbed, NEW kind \in {"systemIdle", "appIdle"}, NEW stale,
           NEW old \in SUBSET MayBeOld, GoIdle(kind, stale, old)
    PROVE  CInv'
<1>1. "discovery" \notin Disturbances
  BY DEF Undisturbed
<1>2. old = {}
  BY <1>1 DEF MayBeOld
<1>3. /\ WInv'
      /\ \A g \in Folders : sync'[g] = sync[g] \/ g \in ToSet(priorityQ)
      /\ Orderly(Work')
      /\ initiated' = initiated /\ status' = status /\ update' = update
      /\ discoveryQ' = <<>> /\ ~paused'
  BY <1>2, GoIdleDoes DEF CInv, GoIdle
<1>4. OneUrl'
  BY <1>3 DEF CInv, OneUrl
<1>5. Asked'
  <2> SUFFICES ASSUME NEW g \in Folders, status[g] > 0
               PROVE  sync'[g].state = "statusIssued"
    BY <1>3 DEF Asked
  <2>1. sync[g].state = "statusIssued" /\ g \notin ToSet(priorityQ)
    BY UrlsAre
  <2> QED
    BY <1>3, <2>1
<1> QED
  BY <1>3, <1>4, <1>5 DEF CInv

LEMMA CStep == Undisturbed => (CInv /\ [Next]_vars => CInv')
<1> SUFFICES ASSUME Undisturbed, CInv, [Next]_vars PROVE CInv'
  OBVIOUS
<1>1. ASSUME NEW f \in Folders, NEW changed \in BOOLEAN, NEW ok \in BOOLEAN,
             StatusStops(f, ok, changed)
      PROVE  CInv'
  BY <1>1, StatusStopsCalm
<1>2. ASSUME NEW f \in Folders, NEW changed \in BOOLEAN, NEW ok \in BOOLEAN,
             NEW got \in SUBSET MsgsOf[f], DownloadStops(f, ok, got, changed)
      PROVE  CInv'
  BY <1>2, DownloadStopsCalm
<1>3. ASSUME NEW f \in Folders, UpdateStops(f)
      PROVE  CInv'
  BY <1>3, UpdateStopsCalm
<1>4. ASSUME NEW f \in Folders, NEW new \in SUBSET MsgsOf[f], HeaderFetchCompleted(f, new)
      PROVE  CInv'
  BY <1>4, HeaderFetchCompletedCalm
<1>5. ASSUME NEW f \in Folders, NEW front \in BOOLEAN, OnFolderHasPendingMsgs(f, front)
      PROVE  FALSE
  <2>1. "pending" \notin Disturbances /\ "sent" \notin Disturbances
    BY DEF Undisturbed
  <2> QED
    BY <1>5, <2>1 DEF OnFolderHasPendingMsgs
<1>6. ASSUME NEW m \in Messages, NEW to \in {"stored", "deleted"}, UserTakes(m, to)
      PROVE  CInv'
  BY <1>6, UserTakesCalm
<1>7. ASSUME NEW opens \in BOOLEAN, TimerCallback(opens)
      PROVE  CInv'
  BY <1>7, TimerCalm
<1>8. ASSUME NEW kind \in {"systemIdle", "appIdle"}, NEW stale, NEW old \in SUBSET MayBeOld,
             GoIdle(kind, stale, old)
      PROVE  CInv'
  BY <1>8, GoIdleCalm
<1>9. ASSUME NEW kind, ComeBack(kind)
      PROVE  CInv'
  BY <1>9, ComeBackKeeps DEF CInv, ComeBack
<1>10. CASE Pause
  <2>1. "network" \notin Disturbances
    BY DEF Undisturbed
  <2> QED
    BY <1>10, <2>1 DEF Pause
<1>11. CASE Resume
  BY <1>11, ResumeKeeps DEF CInv, Resume
<1>12. CASE UNCHANGED vars
  BY <1>12, StutterKeeps DEF CInv, vars, idleVars
<1> QED
  BY <1>1, <1>2, <1>3, <1>4, <1>5, <1>6, <1>7, <1>8, <1>9, <1>10, <1>11, <1>12 DEF Next

\* The semaphores and the groups of a folder, and of its siblings.
LEMMA CalmDownloads ==
    ASSUME CInv
    PROVE  OneDownload /\ OneFolderPerServer
<1>1. Orderly(Work)
  BY DEF CInv
<1>2. ASSUME NEW f \in Folders
      PROVE  /\ Len(running[f]) = IF sync[f].held THEN 1 ELSE 0
             /\ ~sync[f].held => running[f] = <<>>
  <2>1. Fair(Work, f)
    BY <1>1 DEF Orderly
  <2>2. Len(running[f]) = IF sync[f].held THEN 1 ELSE 0
    BY <2>1, WorkIs DEF Fair
  <2>3. running[f] \in Seq(SUBSET Messages)
    <3>1. Work \in Works
      BY DEF CInv, WInv, Typed
    <3>2. running \in [Folders -> Seq(SUBSET Messages)]
      BY <3>1, WorkIs DEF Works
    <3> QED
      BY <3>2
  <2> QED
    BY <2>2, <2>3, EmptySeq
<1>3. \A f, g \in Folders : Siblings(f, g) => ~(sync[f].held /\ sync[g].held)
  BY <1>1, WorkIs DEF Orderly
<1>4. OneDownload
  BY <1>2 DEF OneDownload
<1>5. OneFolderPerServer
  BY <1>2, <1>3 DEF OneFolderPerServer
<1> QED
  BY <1>4, <1>5

\* OneDownload: while nothing opens urls of its own for a folder auto-sync works on and
\* the program stays online, the semaphore of a folder is held exactly while one group of it is downloaded.
THEOREM AutoSyncOneDownload == Undisturbed => (Spec => []OneDownload)
<1>1. CInv => OneDownload
  BY CalmDownloads
<1>2. ASSUME Undisturbed PROVE Spec => []OneDownload
  <2>1. CInv /\ [Next]_vars => CInv'
    BY <1>2, CStep
  <2> QED
    BY <1>1, <2>1, InitInv, PTL DEF Spec
<1> QED
  BY <1>2

\* OneFolderPerServer: under the same condition at most one folder of a server downloads,
\* whoever starts the download: the idle time, new headers, or the end of another one.
THEOREM AutoSyncOneFolderPerServer == Undisturbed => (Spec => []OneFolderPerServer)
<1>1. CInv => OneFolderPerServer
  BY CalmDownloads
<1>2. ASSUME Undisturbed PROVE Spec => []OneFolderPerServer
  <2>1. CInv /\ [Next]_vars => CInv'
    BY <1>2, CStep
  <2> QED
    BY <1>1, <2>1, InitInv, PTL DEF Spec
<1> QED
  BY <1>2
=============================================================================
