--------------------------- MODULE RemoveAt_proofs ---------------------------
(***************************************************************************)
(* RemoveAt, which stands for the Vec::retain and VecDeque::retain of the   *)
(* code wherever the element occurs once: what it returns.                 *)
(***************************************************************************)
EXTENDS Integers, SequencesExt, SequenceTheorems, TLAPS

LEMMA RemovedAt ==
    ASSUME NEW T, NEW s \in Seq(T), NEW r \in 1..Len(s)
    PROVE  /\ RemoveAt(s, r) \in Seq(T)
           /\ DOMAIN RemoveAt(s, r) = 1..(Len(s) - 1)
           /\ \A i \in 1..(Len(s) - 1) :
                 RemoveAt(s, r)[i] = IF i < r THEN s[i] ELSE s[i + 1]
<1> DEFINE n == Len(s)
           t == RemoveAt(s, r)
           a == SubSeq(s, 1, r - 1)
           b == SubSeq(s, r + 1, n)
<1>1. n \in Nat /\ r \in 1..n /\ \A i \in 1..n : s[i] \in T
  BY LenProperties, ElementOfSeq
<1> HIDE DEF n
<1>2. /\ a \in Seq(T) /\ Len(a) = r - 1
      /\ \A i \in 1..(r - 1) : a[i] = s[i]
  <2>1. \A i \in 1..(r - 1) : s[i] \in T
    BY <1>1
  <2>2. /\ a \in Seq(T)
        /\ Len(a) = IF 1 <= r - 1 THEN r - 1 - 1 + 1 ELSE 0
        /\ \A i \in 1..(r - 1 - 1 + 1) : a[i] = s[1 + i - 1]
    BY <1>1, <2>1, SubSeqProperties
  <2> QED BY <1>1, <2>2
<1>3. /\ b \in Seq(T) /\ Len(b) = n - r
      /\ \A i \in 1..(n - r) : b[i] = s[r + i]
  <2>1. \A i \in (r + 1)..n : s[i] \in T
    BY <1>1
  <2>2. /\ b \in Seq(T)
        /\ Len(b) = IF r + 1 <= n THEN n - (r + 1) + 1 ELSE 0
        /\ \A i \in 1..(n - (r + 1) + 1) : b[i] = s[(r + 1) + i - 1]
    BY <1>1, <2>1, SubSeqProperties
  <2>3. \A i \in 1..(n - r) : (r + 1) + i - 1 = r + i
    BY <1>1
  <2> QED BY <1>1, <2>2, <2>3
<1>4. t = a \o b
  BY DEF RemoveAt, n
<1> HIDE DEF a, b
<1>5. /\ a \o b \in Seq(T) /\ Len(a \o b) = Len(a) + Len(b)
      /\ \A i \in 1..(Len(a) + Len(b)) :
            (a \o b)[i] = IF i <= Len(a) THEN a[i] ELSE b[i - Len(a)]
  BY <1>2, <1>3, ConcatProperties
<1> HIDE DEF t
<1>6. t \in Seq(T) /\ DOMAIN t = 1..(n - 1)
  <2>1. t \in Seq(T) /\ Len(t) = Len(a) + Len(b)
    BY <1>4, <1>5
  <2>2. Len(a) + Len(b) = n - 1
    BY <1>1, <1>2, <1>3
  <2> QED BY <2>1, <2>2, LenProperties
<1>7. ASSUME NEW i \in 1..(n - 1) PROVE t[i] = IF i < r THEN s[i] ELSE s[i + 1]
  <2>1. CASE i < r
    BY <1>1, <1>2, <1>3, <1>4, <1>5, <2>1
  <2>2. CASE i >= r
    <3>1. t[i] = b[i - (r - 1)]
      BY <1>1, <1>2, <1>3, <1>4, <1>5, <2>2
    <3>2. i - (r - 1) \in 1..(n - r) /\ r + (i - (r - 1)) = i + 1
      BY <1>1, <2>2
    <3> QED BY <1>1, <1>3, <2>2, <3>1, <3>2
  <2> QED BY <1>1, <2>1, <2>2
<1> QED BY <1>6, <1>7 DEF t, n

\* An element taken out and appended again: where the elements come from.
MovedFrom(r, n, i) == IF i < r THEN i ELSE IF i < n THEN i + 1 ELSE r

LEMMA MovedToEnd ==
    ASSUME NEW T, NEW s \in Seq(T), NEW r \in 1..Len(s)
    PROVE  /\ Append(RemoveAt(s, r), s[r]) \in Seq(T)
           /\ Append(RemoveAt(s, r), s[r])
                = [i \in 1..Len(s) |-> s[MovedFrom(r, Len(s), i)]]
<1> DEFINE n == Len(s)
           t == RemoveAt(s, r)
           u == Append(t, s[r])
<1>1. n \in Nat /\ r \in 1..n /\ s[r] \in T
  BY LenProperties, ElementOfSeq
<1>2. /\ t \in Seq(T) /\ DOMAIN t = 1..(n - 1)
      /\ \A i \in 1..(n - 1) : t[i] = IF i < r THEN s[i] ELSE s[i + 1]
  BY RemovedAt
<1> HIDE DEF n, t
<1>3. Len(t) = n - 1
  BY <1>1, <1>2, LenProperties
<1>4. /\ u \in Seq(T) /\ Len(u) = Len(t) + 1
      /\ \A i \in 1..Len(t) : u[i] = t[i]
      /\ u[Len(t) + 1] = s[r]
  BY <1>1, <1>2, AppendProperties
<1> HIDE DEF u
<1>5. DOMAIN u = 1..n /\ u = [i \in DOMAIN u |-> u[i]]
  BY <1>1, <1>3, <1>4, LenProperties
<1>6. ASSUME NEW i \in 1..n PROVE u[i] = s[MovedFrom(r, n, i)]
  <2>1. CASE i = n
    BY <1>1, <1>3, <1>4, <2>1 DEF MovedFrom
  <2>2. CASE i < n
    BY <1>1, <1>2, <1>3, <1>4, <2>2 DEF MovedFrom
  <2> QED BY <1>1, <2>1, <2>2
<1>7. u = [i \in 1..n |-> s[MovedFrom(r, n, i)]]
  BY <1>5, <1>6
<1> QED BY <1>4, <1>7 DEF n, t, u
=============================================================================
