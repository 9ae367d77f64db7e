---------------------------- MODULE SequenceLemmas ----------------------------
(***************************************************************************)
(* What the queues and buffers of the models do to the set of their        *)
(* entries, to the number of entries of one kind and to their order.       *)
(***************************************************************************)
EXTENDS SequenceTheorems, FiniteSetTheorems, TLAPS

-------------------------------------------------------------------------------
(* The set of entries *)

(* Appending an entry adds exactly that entry.                             *)
LEMMA RangeAppend ==
  ASSUME NEW S, NEW s \in Seq(S), NEW e \in S
  PROVE  Range(Append(s, e)) = Range(s) \cup {e}
<1>1. Append(s, e) \in Seq(S) /\ Len(Append(s, e)) = Len(s) + 1
  OBVIOUS
<1>2. \A i \in 1..Len(s) : Append(s, e)[i] = s[i]
  OBVIOUS
<1>3. Append(s, e)[Len(s) + 1] = e
  OBVIOUS
<1>4. DOMAIN Append(s, e) = 1..(Len(s) + 1) /\ DOMAIN s = 1..Len(s)
  BY <1>1
<1>5. 1..(Len(s) + 1) = (1..Len(s)) \cup {Len(s) + 1}
  BY LenProperties
<1>6. QED
  BY <1>2, <1>3, <1>4, <1>5 DEF Range

(* Removing the head of a sequence loses at most that entry.               *)
LEMMA RangeTail ==
  ASSUME NEW S, NEW s \in Seq(S), s # <<>>
  PROVE  Range(s) = {Head(s)} \cup Range(Tail(s))
<1>1. Tail(s) \in Seq(S) /\ Len(Tail(s)) = Len(s) - 1 /\ Len(s) \in Nat \ {0}
  BY HeadTailProperties, EmptySeq, LenProperties
<1>2. \A i \in 1..Len(Tail(s)) : Tail(s)[i] = s[i + 1]
  BY HeadTailProperties
<1>3. Head(s) = s[1]
  OBVIOUS
<1>4. DOMAIN Tail(s) = 1..(Len(s) - 1) /\ DOMAIN s = 1..Len(s)
  BY <1>1
<1>5. ASSUME NEW e \in Range(s)
      PROVE  e \in {Head(s)} \cup Range(Tail(s))
  <2>1. PICK i \in 1..Len(s) : e = s[i]
    BY <1>4 DEF Range
  <2>2. CASE i = 1
    BY <2>1, <2>2, <1>3
  <2>3. CASE i # 1
    <3>1. i - 1 \in 1..(Len(s) - 1) /\ (i - 1) + 1 = i
      BY <2>3, <1>1
    <3>2. e = Tail(s)[i - 1]
      BY <3>1, <2>1, <1>1, <1>2
    <3>3. QED
      BY <3>1, <3>2, <1>4 DEF Range
  <2>4. QED
    BY <2>2, <2>3
<1>6. ASSUME NEW e \in Range(Tail(s))
      PROVE  e \in Range(s)
  <2>1. PICK i \in 1..(Len(s) - 1) : e = Tail(s)[i]
    BY <1>4 DEF Range
  <2>2. e = s[i + 1] /\ i + 1 \in 1..Len(s)
    BY <2>1, <1>1, <1>2
  <2>3. QED
    BY <2>2, <1>4 DEF Range
<1>7. Head(s) \in Range(s)
  BY <1>1, <1>3, <1>4 DEF Range
<1>8. QED
  BY <1>5, <1>6, <1>7

-------------------------------------------------------------------------------
(* The number of entries of a kind.  Where(s, P) are the places that hold  *)
(* a member of P.                                                          *)

Where(s, P) == {i \in DOMAIN s : s[i] \in P}
Count(s, P) == Cardinality(Where(s, P))

LEMMA CountType ==
  ASSUME NEW S, NEW s \in Seq(S), NEW P
  PROVE  IsFiniteSet(Where(s, P)) /\ Count(s, P) \in Nat
<1>1. IsFiniteSet(1..Len(s))
  BY FS_Interval, LenProperties
<1>2. Where(s, P) \in SUBSET (1..Len(s))
  BY LenProperties DEF Where
<1> QED
  BY <1>1, <1>2, FS_Subset, FS_CardinalityType DEF Count

LEMMA CountEmpty == \A P : Count(<<>>, P) = 0
<1>1. \A P : Where(<<>>, P) = {}
  BY DEF Where
<1> QED
  BY <1>1, FS_EmptySet DEF Count

(* Appending counts the new entry.                                         *)
LEMMA CountAppend ==
  ASSUME NEW S, NEW s \in Seq(S), NEW e \in S, NEW P
  PROVE  Count(Append(s, e), P) = Count(s, P) + (IF e \in P THEN 1 ELSE 0)
<1>1. Len(s) \in Nat /\ DOMAIN s = 1..Len(s)
  BY LenProperties
<1>2. /\ DOMAIN Append(s, e) = 1..(Len(s) + 1)
      /\ \A i \in 1..Len(s) : Append(s, e)[i] = s[i]
      /\ Append(s, e)[Len(s) + 1] = e
  BY AppendProperties, LenProperties
<1>3. Len(s) + 1 \notin Where(s, P)
  BY <1>1 DEF Where
<1>4. CASE e \in P
  <2>1. Where(Append(s, e), P) = Where(s, P) \cup {Len(s) + 1}
    BY <1>1, <1>2, <1>4 DEF Where
  <2> QED
    BY <2>1, <1>3, <1>4, CountType, FS_AddElement DEF Count
<1>5. CASE e \notin P
  <2>1. Where(Append(s, e), P) = Where(s, P)
    BY <1>1, <1>2, <1>5 DEF Where
  <2> QED
    BY <2>1, <1>5, CountType DEF Count
<1> QED
  BY <1>4, <1>5

(* Removing the head uncounts it: the other places move down by one.       *)
LEMMA CountTail ==
  ASSUME NEW S, NEW s \in Seq(S), s # <<>>, NEW P
  PROVE  Count(s, P) = Count(Tail(s), P) + (IF Head(s) \in P THEN 1 ELSE 0)
<1>1. /\ Len(s) \in Nat \ {0} /\ DOMAIN s = 1..Len(s) /\ Head(s) = s[1]
      /\ Tail(s) \in Seq(S) /\ DOMAIN Tail(s) = 1..(Len(s) - 1)
      /\ \A i \in 1..(Len(s) - 1) : Tail(s)[i] = s[i + 1]
  BY HeadTailProperties, EmptySeq, LenProperties
<1> DEFINE Later == Where(s, P) \ {1}
           down == [i \in Later |-> i - 1]
<1>2. IsFiniteSet(Later) /\ IsFiniteSet(Where(s, P))
  BY CountType, FS_RemoveElement
<1>3. down \in Bijection(Later, Where(Tail(s), P))
  <2>1. down \in [Later -> Where(Tail(s), P)]
    BY <1>1 DEF Where
  <2>2. \A i, j \in Later : down[i] = down[j] => i = j
    BY <1>1 DEF Where
  <2>3. \A j \in Where(Tail(s), P) : \E i \in Later : down[i] = j
    <3> SUFFICES ASSUME NEW j \in Where(Tail(s), P)
                 PROVE  \E i \in Later : down[i] = j
      OBVIOUS
    <3>1. j + 1 \in Later
      BY <1>1 DEF Where
    <3>2. down[j + 1] = j
      BY <3>1, <1>1 DEF Where
    <3> QED
      BY <3>1, <3>2
  <2> HIDE DEF Later, down
  <2> QED
    BY <2>1, <2>2, <2>3 DEF Bijection, Injection, Surjection, IsInjective
<1>4. Cardinality(Where(Tail(s), P)) = Cardinality(Later)
  <2>1. ExistsBijection(Later, Where(Tail(s), P))
    BY <1>3 DEF ExistsBijection
  <2> QED
    BY <2>1, <1>2, FS_Bijection
<1>5. 1 \in Where(s, P) <=> Head(s) \in P
  BY <1>1 DEF Where
<1>6. Cardinality(Later)
        = IF 1 \in Where(s, P) THEN Cardinality(Where(s, P)) - 1 ELSE Cardinality(Where(s, P))
  BY <1>2, FS_RemoveElement
<1>7. Count(s, P) \in Nat
  BY CountType
<1> QED
  BY <1>4, <1>5, <1>6, <1>7 DEF Count
-------------------------------------------------------------------------------
(* The order of entries that are numbers *)

Increasing(s) == \A i, j \in DOMAIN s : i < j => s[i] < s[j]
Below(s, t) == \A x \in Range(s), y \in Range(t) : x < y

LEMMA IncreasingConcat ==
  ASSUME NEW s \in Seq(Nat), NEW t \in Seq(Nat), Increasing(s), Increasing(t), Below(s, t)
  PROVE  Increasing(s \o t)
<1>1. /\ Len(s) \in Nat /\ DOMAIN s = 1..Len(s) /\ Len(t) \in Nat /\ DOMAIN t = 1..Len(t)
      /\ DOMAIN (s \o t) = 1..(Len(s) + Len(t))
  BY ConcatProperties, LenProperties
<1>2. \A i \in 1..Len(s) : (s \o t)[i] = s[i]
  BY <1>1, ConcatProperties
<1>3. \A i \in 1..Len(t) : (s \o t)[Len(s) + i] = t[i]
  BY <1>1, ConcatProperties
<1> SUFFICES ASSUME NEW i \in 1..(Len(s) + Len(t)), NEW j \in 1..(Len(s) + Len(t)), i < j
             PROVE  (s \o t)[i] < (s \o t)[j]
  BY <1>1 DEF Increasing
<1>4. CASE j <= Len(s)
  <2>1. i \in 1..Len(s) /\ j \in 1..Len(s)
    BY <1>1, <1>4
  <2>2. (s \o t)[i] = s[i] /\ (s \o t)[j] = s[j]
    BY <1>2, <2>1
  <2>3. s[i] < s[j]
    BY <1>1, <2>1 DEF Increasing
  <2> QED
    BY ONLY <2>2, <2>3
<1>5. CASE j > Len(s)
  <2> DEFINE l == j - Len(s)
  <2>1. l \in 1..Len(t) /\ (s \o t)[j] = t[l]
    <3>1. l \in 1..Len(t) /\ j = Len(s) + l
      BY <1>1, <1>5
    <3> QED
      BY <3>1, <1>3
  <2>2. CASE i <= Len(s)
    <3>1. (s \o t)[i] = s[i] /\ s[i] \in Range(s)
      BY <1>1, <1>2, <2>2 DEF Range
    <3>2. t[l] \in Range(t)
      BY <1>1, <2>1 DEF Range
    <3> QED
      BY <3>1, <3>2, <2>1 DEF Below
  <2>3. CASE i > Len(s)
    <3>1. i - Len(s) \in 1..Len(t) /\ i = Len(s) + (i - Len(s)) /\ i - Len(s) < l
      BY <1>1, <2>3, <1>5
    <3>2. (s \o t)[i] = t[i - Len(s)]
      BY <3>1, <1>3
    <3> QED
      BY <3>1, <3>2, <2>1, <1>1 DEF Increasing
  <2> QED
    BY <2>2, <2>3, <1>1
<1> QED
  BY <1>4, <1>5, <1>1

(* A sequence cut in two keeps its entries and their order.                *)
LEMMA CutInTwo ==
  ASSUME NEW S, NEW s \in Seq(S), NEW n \in 0..Len(s)
  PROVE  LET first == SubSeq(s, 1, n)
             rest  == SubSeq(s, n + 1, Len(s))
         IN  /\ first \in Seq(S) /\ Len(first) = n
             /\ rest \in Seq(S) /\ Len(rest) = Len(s) - n
             /\ \A i \in 1..n : first[i] = s[i]
             /\ \A i \in 1..(Len(s) - n) : rest[i] = s[n + i]
             /\ Range(s) = Range(first) \cup Range(rest)
<1> DEFINE first == SubSeq(s, 1, n)
           rest  == SubSeq(s, n + 1, Len(s))
<1>1. Len(s) \in Nat /\ n \in Nat /\ n <= Len(s) /\ DOMAIN s = 1..Len(s)
  BY LenProperties
<1>2. \A i \in 1..Len(s) : s[i] \in S
  BY LenProperties
<1>3. first \in Seq(S) /\ Len(first) = n /\ \A i \in 1..n : first[i] = s[i]
  <2>1. \A i \in 1..n : s[i] \in S
    BY <1>1, <1>2
  <2>2. /\ first \in Seq(S) /\ Len(first) = IF 1 <= n THEN n - 1 + 1 ELSE 0
        /\ \A i \in 1..(n - 1 + 1) : first[i] = s[1 + i - 1]
    BY <2>1, <1>1, SubSeqProperties
  <2> QED
    BY <2>2, <1>1
<1>4. /\ rest \in Seq(S) /\ Len(rest) = Len(s) - n
      /\ \A i \in 1..(Len(s) - n) : rest[i] = s[n + i]
  <2>1. \A i \in (n + 1)..Len(s) : s[i] \in S
    BY <1>1, <1>2
  <2>2. n + 1 \in Int /\ Len(s) \in Int
    BY <1>1
  <2>3. /\ rest \in Seq(S)
        /\ Len(rest) = IF n + 1 <= Len(s) THEN Len(s) - (n + 1) + 1 ELSE 0
        /\ \A i \in 1..(Len(s) - (n + 1) + 1) : rest[i] = s[(n + 1) + i - 1]
    BY <2>1, <2>2, SubSeqProperties
  <2> QED
    BY <2>3, <1>1
<1> HIDE DEF first, rest
<1>5. DOMAIN first = 1..n /\ DOMAIN rest = 1..(Len(s) - n)
  BY <1>3, <1>4, LenProperties
<1>6. ASSUME NEW x \in Range(s) PROVE x \in Range(first) \cup Range(rest)
  <2>1. PICK i \in 1..Len(s) : x = s[i]
    BY <1>1 DEF Range
  <2>2. CASE i <= n
    BY <2>1, <2>2, <1>1, <1>3, <1>5 DEF Range
  <2>3. CASE i > n
    <3>1. i - n \in 1..(Len(s) - n) /\ n + (i - n) = i
      BY <1>1, <2>1, <2>3
    <3> QED
      BY <2>1, <3>1, <1>4, <1>5 DEF Range
  <2> QED
    BY <2>2, <2>3, <1>1
<1>7. ASSUME NEW x \in Range(first) PROVE x \in Range(s)
  BY <1>1, <1>3, <1>5 DEF Range
<1>8. ASSUME NEW x \in Range(rest) PROVE x \in Range(s)
  <2>1. PICK i \in 1..(Len(s) - n) : x = s[n + i]
    BY <1>4, <1>5 DEF Range
  <2>2. n + i \in 1..Len(s)
    BY <1>1
  <2> QED
    BY <2>1, <2>2, <1>1 DEF Range
<1>9. Range(s) = Range(first) \cup Range(rest)
  BY <1>6, <1>7, <1>8
<1> QED
  BY <1>3, <1>4, <1>9 DEF first, rest

LEMMA CutIncreasing ==
  ASSUME NEW s \in Seq(Nat), NEW n \in 0..Len(s), Increasing(s)
  PROVE  LET first == SubSeq(s, 1, n)
             rest  == SubSeq(s, n + 1, Len(s))
         IN  Increasing(first) /\ Increasing(rest) /\ Below(first, rest)
<1> DEFINE first == SubSeq(s, 1, n)
           rest  == SubSeq(s, n + 1, Len(s))
<1>1. Len(s) \in Nat /\ n \in Nat /\ n <= Len(s) /\ DOMAIN s = 1..Len(s)
  BY LenProperties
<1>2. /\ first \in Seq(Nat) /\ Len(first) = n /\ rest \in Seq(Nat) /\ Len(rest) = Len(s) - n
      /\ \A i \in 1..n : first[i] = s[i]
      /\ \A i \in 1..(Len(s) - n) : rest[i] = s[n + i]
  BY CutInTwo
<1> HIDE DEF first, rest
<1>3. DOMAIN first = 1..n /\ DOMAIN rest = 1..(Len(s) - n)
  BY <1>2, LenProperties
<1>4. Increasing(first)
  BY <1>1, <1>2, <1>3 DEF Increasing
<1>5. Increasing(rest)
  <2> SUFFICES ASSUME NEW i \in 1..(Len(s) - n), NEW j \in 1..(Len(s) - n), i < j
               PROVE  rest[i] < rest[j]
    BY <1>3 DEF Increasing
  <2>1. n + i \in 1..Len(s) /\ n + j \in 1..Len(s) /\ n + i < n + j
    BY <1>1
  <2> QED
    BY <2>1, <1>1, <1>2 DEF Increasing
<1>6. Below(first, rest)
  <2> SUFFICES ASSUME NEW i \in 1..n, NEW j \in 1..(Len(s) - n)
               PROVE  first[i] < rest[j]
    BY <1>3 DEF Below, Range
  <2>1. i \in 1..Len(s) /\ n + j \in 1..Len(s) /\ i < n + j
    BY <1>1
  <2> QED
    BY <2>1, <1>1, <1>2 DEF Increasing
<1> QED
  BY <1>4, <1>5, <1>6 DEF first, rest

(* n numbers in a row, from a + 1 on.                                      *)
LEMMA InARow ==
  ASSUME NEW a \in Nat, NEW n \in Nat
  PROVE  LET s == [i \in 1..n |-> a + i]
         IN  /\ s \in Seq((a + 1)..(a + n)) /\ Len(s) = n
             /\ Increasing(s) /\ Range(s) = (a + 1)..(a + n)
<1> DEFINE s == [i \in 1..n |-> a + i]
<1>1. s \in Seq((a + 1)..(a + n))
  <2>1. \A i \in 1..n : a + i \in (a + 1)..(a + n)
    OBVIOUS
  <2> QED
    BY <2>1, IsASeq
<1>2. Len(s) = n /\ DOMAIN s = 1..n /\ \A i \in 1..n : s[i] = a + i
  BY <1>1, LenProperties
<1> HIDE DEF s
<1>3. Increasing(s)
  BY <1>2 DEF Increasing
<1>4. \A x \in (a + 1)..(a + n) : x \in Range(s)
  <2> SUFFICES ASSUME NEW x \in (a + 1)..(a + n) PROVE x \in Range(s)
    OBVIOUS
  <2>1. x - a \in 1..n /\ a + (x - a) = x
    OBVIOUS
  <2> QED
    BY <2>1, <1>2 DEF Range
<1>5. \A x \in Range(s) : x \in (a + 1)..(a + n)
  BY <1>2 DEF Range
<1> QED
  BY <1>1, <1>2, <1>3, <1>4, <1>5 DEF s

(* A sequence cut at its ends.                                             *)
LEMMA Whole ==
  ASSUME NEW S, NEW s \in Seq(S)
  PROVE  /\ SubSeq(s, 1, Len(s)) = s /\ SubSeq(s, 1, 0) = <<>>
         /\ SubSeq(s, Len(s) + 1, Len(s)) = <<>>
<1> DEFINE t == SubSeq(s, 1, Len(s))
<1>1. Len(s) \in Nat /\ \A i \in 1 .. Len(s) : s[i] \in S
  OBVIOUS
<1>2. t \in Seq(S) /\ Len(t) = Len(s) /\ \A i \in 1 .. Len(s) : t[i] = s[i]
  BY <1>1, SubSeqProperties
<1> HIDE DEF t
<1>3. t = s
  BY <1>2, SeqEqual
<1> QED
  BY <1>1, <1>3, SubSeqEmpty DEF t

(* Cutting a concatenation where it was joined.                            *)
LEMMA CutConcat ==
  ASSUME NEW S, NEW s \in Seq(S), NEW t \in Seq(S)
  PROVE  /\ s \o t \in Seq(S) /\ Len(s \o t) = Len(s) + Len(t)
         /\ SubSeq(s \o t, 1, Len(s)) = s
         /\ SubSeq(s \o t, Len(s) + 1, Len(s \o t)) = t
<1> DEFINE u == s \o t
           a == SubSeq(u, 1, Len(s))
           b == SubSeq(u, Len(s) + 1, Len(u))
<1>1. /\ u \in Seq(S) /\ Len(u) = Len(s) + Len(t) /\ Len(s) \in Nat /\ Len(t) \in Nat
      /\ \A i \in 1 .. Len(s) : u[i] = s[i]
      /\ \A i \in 1 .. Len(t) : u[Len(s) + i] = t[i]
  <2>1. /\ u \in Seq(S) /\ Len(u) = Len(s) + Len(t)
        /\ \A i \in 1 .. Len(s) + Len(t) : u[i] = IF i <= Len(s) THEN s[i] ELSE t[i - Len(s)]
    BY ConcatProperties
  <2>2. Len(s) \in Nat /\ Len(t) \in Nat
    OBVIOUS
  <2> HIDE DEF u
  <2>3. ASSUME NEW i \in 1 .. Len(t)
        PROVE  u[Len(s) + i] = t[i]
    <3>1. Len(s) + i \in 1 .. Len(s) + Len(t) /\ ~ (Len(s) + i <= Len(s))
          /\ (Len(s) + i) - Len(s) = i
      BY <2>2
    <3> QED
      BY <2>1, <3>1
  <2> QED
    BY <2>1, <2>2, <2>3
<1> HIDE DEF u
<1>2. \A i \in 1 .. Len(u) : u[i] \in S
  BY <1>1
<1>3. a \in Seq(S) /\ Len(a) = Len(s) /\ \A i \in 1 .. Len(s) : a[i] = u[i]
  BY <1>1, <1>2, SubSeqProperties
<1>4. b \in Seq(S) /\ Len(b) = Len(t) /\ \A i \in 1 .. Len(t) : b[i] = u[Len(s) + i]
  BY <1>1, <1>2, SubSeqProperties
<1> HIDE DEF a, b
<1>5. a = s
  BY <1>1, <1>3, SeqEqual
<1>6. b = t
  BY <1>1, <1>4, SeqEqual
<1> QED
  BY <1>1, <1>5, <1>6 DEF u, a, b
===============================================================================
