---------------------------- MODULE Multi_proofs ----------------------------
(***************************************************************************)
(* Theorems about Multi for every value of its constants.                   *)
(*                                                                         *)
(* The stack of steps is what makes the invariants inductive: the proofs    *)
(* rest on the shape of todo, which is kept by everything that puts steps   *)
(* in front of it, takes its head or drops a prefix of it.                  *)
(***************************************************************************)
EXTENDS Multi, RemoveAt_proofs, SequenceTheorems, FiniteSetTheorems, WellFoundedInduction, TLAPS

-----------------------------------------------------------------------------
(* Least elements.                                                           *)

\* A set of numbers that is not empty has a least element (the lowest free file
\* descriptor, the first "return").
LEMMA LeastExists ==
    ASSUME NEW T, T \subseteq Nat, T # {}
    PROVE  \E x \in T : \A y \in T : x <= y
<1>1. PICK x \in T : \A y \in T : ~(<<y, x>> \in OpToRel(<, Nat))
  BY NatLessThanWellFounded, WFMin
<1>2. ASSUME NEW y \in T PROVE x <= y
  <2>1. ~(y < x)
    BY <1>1, <1>2 DEF OpToRel
  <2> QED BY <2>1, <1>2
<1> QED BY <1>2

LEMMA LeastInSet ==
    ASSUME NEW T, T \subseteq Nat, T # {}
    PROVE  Least(T) \in T
BY LeastExists DEF Least

-----------------------------------------------------------------------------
(* The stack.                                                                *)

LEMMA FirstOfTwo ==
    ASSUME NEW T, NEW a \in T, NEW b \in T, NEW s \in Seq(T)
    PROVE  <<a, b>> \o s = <<a>> \o (<<b>> \o s)
<1>1. <<a>> \in Seq(T) /\ <<b>> \in Seq(T) /\ <<a, b>> \in Seq(T)
  OBVIOUS
<1>2. /\ Len(<<a>> \o <<b>>) = 2 /\ <<a>> \o <<b>> \in Seq(T)
      /\ (<<a>> \o <<b>>)[1] = a /\ (<<a>> \o <<b>>)[2] = b
  BY <1>1, ConcatProperties
<1>3. <<a>> \o <<b>> = <<a, b>>
  <2>1. Len(<<a, b>>) = 2 /\ \A i \in 1..2 : (<<a>> \o <<b>>)[i] = <<a, b>>[i]
    BY <1>2
  <2> QED BY <1>1, <1>2, <2>1, SeqEqual
<1>4. (<<a>> \o <<b>>) \o s = <<a>> \o (<<b>> \o s)
  BY <1>1, ConcatAssociative
<1> QED BY <1>3, <1>4

\* The steps of a push.
PushStep == {"push", "push_cb", "accept", "push_spawn", "push_launch"}

\* Steps with the handle, worker or socket that their kind needs, and those of
\* a push only where pushes are used.
GoodStep ==
    {s \in Step : /\ s.do \in PushStep => "push" \in Callbacks
                  /\ s.do \in {"link", "accept", "push_cb", "spawn", "launch",
                                  "push_spawn", "push_launch"} =>
                        s.e \in Handle
                  /\ s.do = "completed" => s.n \in Slot
                  /\ s.do \in {"launch", "push_launch"} => s.n \in Socket \cup {0}}

LEMMA FirstOfThree ==
    ASSUME NEW a \in GoodStep, NEW b \in GoodStep, NEW c \in GoodStep,
           NEW s \in Seq(GoodStep)
    PROVE  <<a, b, c>> \o s = <<a>> \o (<<b, c>> \o s)
<1>1. <<a>> \in Seq(GoodStep) /\ <<b, c>> \in Seq(GoodStep) /\ <<a, b, c>> \in Seq(GoodStep)
  OBVIOUS
<1>2. /\ Len(<<a>> \o <<b, c>>) = 3 /\ <<a>> \o <<b, c>> \in Seq(GoodStep)
      /\ (<<a>> \o <<b, c>>)[1] = a /\ (<<a>> \o <<b, c>>)[2] = b
      /\ (<<a>> \o <<b, c>>)[3] = c
  BY <1>1, ConcatProperties
<1>3. <<a>> \o <<b, c>> = <<a, b, c>>
  <2>1. Len(<<a, b, c>>) = 3 /\ \A i \in 1..3 : (<<a>> \o <<b, c>>)[i] = <<a, b, c>>[i]
    BY <1>2
  <2> QED BY <1>1, <1>2, <2>1, SeqEqual
<1>4. (<<a>> \o <<b, c>>) \o s = <<a>> \o (<<b, c>> \o s)
  BY <1>1, ConcatAssociative, SMTT(30)
<1> QED BY <1>3, <1>4

\* The steps whose call may return early.
NeedsReturn == {"link", "unlink", "start", "spawn", "launch"}

\* What an early return does not drop: the callback the call was made from, and
\* the removal of a handle.
Lasting == InCallback \cup {"unlink"}

\* The call on top of the stack has its "return" below it, and nothing that lasts is
\* between the two.
HasReturn(s) ==
    \E j \in DOMAIN s : /\ s[j].do = "return"
                        /\ \A k \in 1..j : s[k].do \notin Lasting

\* So has every step whose call may return early.
Frames(s) ==
    \A i \in DOMAIN s : s[i].do \in NeedsReturn =>
        \E j \in DOMAIN s : /\ j > i
                            /\ s[j].do = "return"
                            /\ \A k \in (i + 1)..j : s[k].do \notin Lasting

NoCallback(s) == \A i \in DOMAIN s : s[i].do \notin InCallback
OneCallback(s) ==
    \E i \in DOMAIN s : /\ s[i].do \in InCallback
                        /\ \A j \in DOMAIN s : s[j].do \in InCallback => j = i

LEMMA FramesTail ==
    ASSUME NEW s \in Seq(GoodStep), s # <<>>, Frames(s)
    PROVE  /\ Frames(Tail(s))
           /\ Head(s).do \in NeedsReturn => HasReturn(Tail(s))
<1>1. /\ Len(s) \in Nat /\ Len(s) > 0 /\ DOMAIN s = 1..Len(s)
      /\ Len(Tail(s)) = Len(s) - 1 /\ DOMAIN Tail(s) = 1..(Len(s) - 1)
      /\ \A i \in 1..(Len(s) - 1) : Tail(s)[i] = s[i + 1]
      /\ Head(s) = s[1]
  BY HeadTailProperties, LenProperties, EmptySeq
<1>2. Frames(Tail(s))
  <2> SUFFICES ASSUME NEW i \in 1..(Len(s) - 1), Tail(s)[i].do \in NeedsReturn
               PROVE  \E j \in 1..(Len(s) - 1) :
                         /\ j > i
                         /\ Tail(s)[j].do = "return"
                         /\ \A k \in (i + 1)..j : Tail(s)[k].do \notin Lasting
    BY <1>1 DEF Frames
  <2>1. PICK j \in 1..Len(s) : /\ j > i + 1
                               /\ s[j].do = "return"
                               /\ \A k \in (i + 2)..j : s[k].do \notin Lasting
    BY <1>1 DEF Frames
  <2>2. /\ j - 1 \in 1..(Len(s) - 1) /\ j - 1 > i
        /\ Tail(s)[j - 1].do = "return"
    BY <1>1, <2>1
  <2>3. \A k \in (i + 1)..(j - 1) : Tail(s)[k].do \notin Lasting
    BY <1>1, <2>1
  <2> QED BY <2>2, <2>3
<1>3. ASSUME Head(s).do \in NeedsReturn PROVE HasReturn(Tail(s))
  <2>1. PICK j \in 1..Len(s) : /\ j > 1
                               /\ s[j].do = "return"
                               /\ \A k \in 2..j : s[k].do \notin Lasting
    BY <1>1, <1>3 DEF Frames
  <2>2. /\ j - 1 \in 1..(Len(s) - 1) /\ Tail(s)[j - 1].do = "return"
        /\ \A k \in 1..(j - 1) : Tail(s)[k].do \notin Lasting
    BY <1>1, <2>1
  <2> QED BY <1>1, <2>2 DEF HasReturn
<1> QED BY <1>2, <1>3

LEMMA FramesConcat ==
    ASSUME NEW p \in Seq(GoodStep), NEW s \in Seq(GoodStep), Frames(s),
           \/ \A i \in DOMAIN p : p[i].do \notin NeedsReturn
           \/ Frames(p)
           \/ /\ HasReturn(s)
              /\ \A i \in DOMAIN p : p[i].do \in NeedsReturn =>
                    \A k \in (i + 1)..Len(p) : p[k].do \notin Lasting
    PROVE  p \o s \in Seq(GoodStep) /\ Frames(p \o s)
<1> DEFINE m == Len(p)
           c == p \o s
<1>1. /\ m \in Nat /\ Len(s) \in Nat
      /\ DOMAIN p = 1..m /\ DOMAIN s = 1..Len(s)
      /\ c \in Seq(GoodStep) /\ DOMAIN c = 1..(m + Len(s))
      /\ \A i \in 1..m : c[i] = p[i]
      /\ \A i \in 1..Len(s) : c[m + i] = s[i]
  <2>1. /\ c \in Seq(GoodStep) /\ Len(c) = m + Len(s)
        /\ \A i \in 1..(m + Len(s)) : c[i] = IF i <= m THEN p[i] ELSE s[i - m]
    BY ConcatProperties
  <2>2. m \in Nat /\ Len(s) \in Nat /\ DOMAIN p = 1..m /\ DOMAIN s = 1..Len(s)
        /\ DOMAIN c = 1..Len(c)
    BY <2>1, LenProperties
  <2> HIDE DEF c, m
  <2>3. \A i \in 1..m : c[i] = p[i]
    BY <2>1, <2>2
  <2>4. \A i \in 1..Len(s) : c[m + i] = s[i]
    BY <2>1, <2>2
  <2> QED BY <2>1, <2>2, <2>3, <2>4
<1> HIDE DEF c, m
<1> DEFINE Closed(i) == \E j \in 1..(m + Len(s)) :
                            /\ j > i
                            /\ c[j].do = "return"
                            /\ \A k \in (i + 1)..j : c[k].do \notin Lasting
<1>2. ASSUME NEW i \in 1..Len(s), s[i].do \in NeedsReturn
      PROVE  Closed(m + i)
  <2>1. PICK j \in 1..Len(s) : /\ j > i
                               /\ s[j].do = "return"
                               /\ \A k \in (i + 1)..j : s[k].do \notin Lasting
    BY <1>1, <1>2 DEF Frames
  <2>2. m + j \in 1..(m + Len(s)) /\ m + j > m + i /\ c[m + j].do = "return"
    BY <1>1, <2>1
  <2>3. ASSUME NEW k \in (m + i + 1)..(m + j) PROVE c[k].do \notin Lasting
    <3>1. k - m \in (i + 1)..j /\ k - m \in 1..Len(s) /\ k = m + (k - m)
      BY <1>1
    <3>2. c[k] = s[k - m]
      BY <1>1, <3>1
    <3> QED BY <2>1, <3>1, <3>2
  <2> QED BY <2>2, <2>3
<1>3. ASSUME NEW i \in 1..m, p[i].do \in NeedsReturn
      PROVE  Closed(i)
  <2>1. CASE \A x \in DOMAIN p : p[x].do \notin NeedsReturn
    BY <1>1, <1>3, <2>1
  <2>2. CASE Frames(p)
    <3>1. PICK j \in 1..m : /\ j > i
                            /\ p[j].do = "return"
                            /\ \A k \in (i + 1)..j : p[k].do \notin Lasting
      BY <1>1, <1>3, <2>2 DEF Frames
    <3>2. j \in 1..(m + Len(s)) /\ c[j].do = "return"
      BY <1>1, <3>1
    <3>3. \A k \in (i + 1)..j : c[k].do \notin Lasting
      BY <1>1, <3>1
    <3> QED BY <3>1, <3>2, <3>3
  <2>3. CASE /\ HasReturn(s)
             /\ \A x \in DOMAIN p : p[x].do \in NeedsReturn =>
                   \A k \in (x + 1)..m : p[k].do \notin Lasting
    <3>1. PICK j \in 1..Len(s) : /\ s[j].do = "return"
                                 /\ \A k \in 1..j : s[k].do \notin Lasting
      BY <1>1, <2>3 DEF HasReturn
    <3>2. m + j \in 1..(m + Len(s)) /\ m + j > i /\ c[m + j].do = "return"
      BY <1>1, <3>1
    <3>3. ASSUME NEW k \in (i + 1)..(m + j) PROVE c[k].do \notin Lasting
      <4>1. CASE k <= m
        <5>1. k \in (i + 1)..m /\ i \in DOMAIN p
          BY <1>1, <4>1
        <5>2. p[k].do \notin Lasting
          BY <1>3, <2>3, <5>1
        <5>3. k \in 1..m
          BY <1>1, <4>1
        <5> QED BY <1>1, <5>2, <5>3
      <4>2. CASE k > m
        <5>1. k - m \in 1..j /\ k - m \in 1..Len(s) /\ k = m + (k - m)
          BY <1>1, <4>2
        <5>2. c[k] = s[k - m]
          BY <1>1, <5>1
        <5> QED BY <3>1, <5>1, <5>2
      <4> QED BY <1>1, <4>1, <4>2
    <3> QED BY <3>2, <3>3
  <2> QED BY <2>1, <2>2, <2>3 DEF m
<1>4. ASSUME NEW i \in 1..(m + Len(s)), c[i].do \in NeedsReturn
      PROVE  Closed(i)
  <2>1. CASE i <= m
    <3>1. i \in 1..m /\ c[i] = p[i]
      BY <1>1, <2>1
    <3> QED BY <1>3, <1>4, <3>1
  <2>2. CASE i > m
    <3>1. i - m \in 1..Len(s) /\ i = m + (i - m)
      BY <1>1, <2>2
    <3>2. c[i] = s[i - m]
      BY <1>1, <3>1
    <3>3. Closed(m + (i - m))
      BY <1>2, <1>4, <3>1, <3>2
    <3> QED BY <3>1, <3>3
  <2> QED BY <1>1, <2>1, <2>2
<1> QED BY <1>1, <1>4 DEF Frames, c

LEMMA CallbackTail ==
    ASSUME NEW s \in Seq(GoodStep), s # <<>>
    PROVE  /\ NoCallback(s) => NoCallback(Tail(s)) /\ Head(s).do \notin InCallback
           /\ OneCallback(s) /\ Head(s).do \notin InCallback => OneCallback(Tail(s))
           /\ OneCallback(s) /\ Head(s).do \in InCallback => NoCallback(Tail(s))
<1>1. /\ Len(s) \in Nat /\ Len(s) > 0 /\ DOMAIN s = 1..Len(s)
      /\ DOMAIN Tail(s) = 1..(Len(s) - 1)
      /\ \A i \in 1..(Len(s) - 1) : Tail(s)[i] = s[i + 1]
      /\ Head(s) = s[1]
  BY HeadTailProperties, LenProperties, EmptySeq
<1>2. NoCallback(s) => NoCallback(Tail(s)) /\ Head(s).do \notin InCallback
  BY <1>1 DEF NoCallback
<1>3. ASSUME OneCallback(s)
      PROVE  IF Head(s).do \in InCallback THEN NoCallback(Tail(s)) ELSE OneCallback(Tail(s))
  <2>1. PICK i \in 1..Len(s) : /\ s[i].do \in InCallback
                               /\ \A j \in 1..Len(s) : s[j].do \in InCallback => j = i
    BY <1>1, <1>3 DEF OneCallback
  <2>2. CASE i = 1
    BY <1>1, <2>1, <2>2 DEF NoCallback
  <2>3. CASE i # 1
    <3>1. i - 1 \in 1..(Len(s) - 1) /\ Head(s).do \notin InCallback
      BY <1>1, <2>1, <2>3
    <3>2. Tail(s)[i - 1].do \in InCallback
      BY <1>1, <2>1, <3>1
    <3>3. ASSUME NEW j \in 1..(Len(s) - 1), Tail(s)[j].do \in InCallback
          PROVE  j = i - 1
      <4>1. j + 1 \in 1..Len(s) /\ s[j + 1].do \in InCallback
        BY <1>1, <3>3
      <4> QED BY <1>1, <2>1, <4>1
    <3> QED BY <1>1, <3>1, <3>2, <3>3 DEF OneCallback
  <2> QED BY <2>2, <2>3
<1> QED BY <1>2, <1>3

LEMMA CallbackConcat ==
    ASSUME NEW p \in Seq(GoodStep), NEW s \in Seq(GoodStep)
    PROVE  /\ NoCallback(p) /\ NoCallback(s) => NoCallback(p \o s)
           /\ NoCallback(p) /\ OneCallback(s) => OneCallback(p \o s)
           /\ OneCallback(p) /\ NoCallback(s) => OneCallback(p \o s)
<1> DEFINE m == Len(p)
           c == p \o s
<1>1. /\ m \in Nat /\ Len(s) \in Nat
      /\ DOMAIN p = 1..m /\ DOMAIN s = 1..Len(s)
      /\ DOMAIN c = 1..(m + Len(s))
      /\ \A i \in 1..(m + Len(s)) : c[i] = IF i <= m THEN p[i] ELSE s[i - m]
  BY ConcatProperties, LenProperties
<1> HIDE DEF m, c
<1>2. ASSUME NoCallback(p), NoCallback(s) PROVE NoCallback(c)
  <2>1. ASSUME NEW j \in 1..(m + Len(s)) PROVE c[j].do \notin InCallback
    <3>1. CASE j <= m
      BY <1>1, <1>2, <3>1 DEF NoCallback
    <3>2. CASE j > m
      <4>1. j - m \in 1..Len(s) /\ c[j] = s[j - m]
        BY <1>1, <3>2
      <4> QED BY <1>1, <1>2, <4>1 DEF NoCallback
    <3> QED BY <1>1, <3>1, <3>2
  <2> QED BY <1>1, <2>1 DEF NoCallback
<1>3. ASSUME NoCallback(p), OneCallback(s) PROVE OneCallback(c)
  <2>1. PICK i \in 1..Len(s) : /\ s[i].do \in InCallback
                               /\ \A j \in 1..Len(s) : s[j].do \in InCallback => j = i
    BY <1>1, <1>3 DEF OneCallback
  <2>2. ASSUME NEW j \in 1..(m + Len(s)) PROVE c[j].do \in InCallback <=> j = m + i
    <3>1. CASE j <= m
      BY <1>1, <1>3, <3>1, SMTT(30) DEF NoCallback
    <3>2. CASE j > m
      <4>1. j - m \in 1..Len(s) /\ c[j] = s[j - m]
        BY <1>1, <3>2
      <4>2. j - m = i <=> j = m + i
        BY <1>1
      <4> QED BY <2>1, <4>1, <4>2
    <3> QED BY <1>1, <3>1, <3>2
  <2>3. m + i \in 1..(m + Len(s))
    BY <1>1
  <2>4. DOMAIN c = 1..(m + Len(s))
    BY <1>1
  <2> QED BY <2>2, <2>3, <2>4 DEF OneCallback
<1>4. ASSUME OneCallback(p), NoCallback(s) PROVE OneCallback(c)
  <2>1. PICK i \in 1..m : /\ p[i].do \in InCallback
                               /\ \A j \in 1..m : p[j].do \in InCallback => j = i
    BY <1>1, <1>4 DEF OneCallback
  <2>2. ASSUME NEW j \in 1..(m + Len(s)) PROVE c[j].do \in InCallback <=> j = i
    <3>1. CASE j <= m
      <4>1. j \in 1..m /\ c[j] = p[j]
        BY <1>1, <3>1
      <4> QED BY <2>1, <4>1
    <3>2. CASE j > m
      <4>1. j - m \in 1..Len(s) /\ c[j] = s[j - m] /\ j # i
        BY <1>1, <3>2
      <4> QED BY <1>1, <1>4, <4>1 DEF NoCallback
    <3> QED BY <1>1, <3>1, <3>2
  <2>3. i \in 1..(m + Len(s))
    BY <1>1
  <2>4. DOMAIN c = 1..(m + Len(s))
    BY <1>1
  <2> QED BY <2>2, <2>3, <2>4 DEF OneCallback
<1> QED BY <1>2, <1>3, <1>4 DEF c

\* An early return takes the call on top of the stack down to its "return",
\* and leaves the callback the call may have been made from.
LEMMA EarlyReturn ==
    ASSUME NEW s \in Seq(GoodStep), HasReturn(s), Frames(s)
    PROVE  /\ AfterReturn(s) \in Seq(GoodStep)
           /\ Frames(AfterReturn(s))
           /\ NoCallback(s) => NoCallback(AfterReturn(s))
           /\ OneCallback(s) => OneCallback(AfterReturn(s))
<1> DEFINE First(i) == s[i].do = "return" /\ \A j \in 1..(i - 1) : s[j].do # "return"
           r == CHOOSE i \in DOMAIN s : First(i)
           t == SubSeq(s, r, Len(s))
<1>1. Len(s) \in Nat /\ DOMAIN s = 1..Len(s) /\ \A i \in 1..Len(s) : s[i] \in GoodStep
  BY LenProperties, ElementOfSeq
<1>2. PICK h \in 1..Len(s) : /\ s[h].do = "return"
                             /\ \A k \in 1..h : s[k].do \notin Lasting
  BY <1>1 DEF HasReturn
<1>3. /\ r \in 1..Len(s) /\ First(r)
  <2> DEFINE T == {i \in 1..Len(s) : s[i].do = "return"}
  <2>1. PICK x \in T : \A y \in T : x <= y
    <3>1. T \subseteq Nat /\ T # {}
      BY <1>1, <1>2
    <3> QED BY <3>1, LeastExists
  <2>2. x \in 1..Len(s) /\ First(x)
    BY <1>1, <2>1
  <2> QED BY <1>1, <2>2
<1>4. AfterReturn(s) = t
  BY DEF AfterReturn
<1>5. r <= h
  BY <1>1, <1>2, <1>3
<1> HIDE DEF r, First
<1>6. /\ t \in Seq(GoodStep)
      /\ Len(t) = Len(s) - r + 1
      /\ DOMAIN t = 1..(Len(s) - r + 1)
      /\ \A i \in 1..(Len(s) - r + 1) : t[i] = s[i + r - 1]
  <2>1. \A i \in r..Len(s) : s[i] \in GoodStep
    BY <1>1, <1>3
  <2> QED BY <1>1, <1>3, <2>1, SubSeqProperties, LenProperties
<1> HIDE DEF t
<1>7. Frames(t)
  <2> SUFFICES ASSUME NEW i \in 1..(Len(s) - r + 1), t[i].do \in NeedsReturn
               PROVE  \E j \in 1..(Len(s) - r + 1) :
                         /\ j > i
                         /\ t[j].do = "return"
                         /\ \A k \in (i + 1)..j : t[k].do \notin Lasting
    BY <1>6 DEF Frames
  <2>1. i + r - 1 \in 1..Len(s) /\ s[i + r - 1].do \in NeedsReturn
    <3>1. i + r - 1 \in 1..Len(s)
      BY <1>1, <1>3
    <3>2. t[i] = s[i + r - 1]
      BY <1>6
    <3> QED BY <3>1, <3>2
  <2>2. PICK j \in 1..Len(s) : /\ j > i + r - 1
                               /\ s[j].do = "return"
                               /\ \A k \in ((i + r - 1) + 1)..j : s[k].do \notin Lasting
    BY <1>1, <2>1 DEF Frames
  <2>3. /\ j - r + 1 \in 1..(Len(s) - r + 1) /\ j - r + 1 > i
        /\ t[j - r + 1] = s[j]
    BY <1>1, <1>3, <1>6, <2>2
  <2>4. ASSUME NEW k \in (i + 1)..(j - r + 1) PROVE t[k].do \notin Lasting
    <3>1. k + r - 1 \in ((i + r - 1) + 1)..j /\ k \in 1..(Len(s) - r + 1)
      BY <1>1, <1>3, <2>2
    <3> QED BY <1>6, <2>2, <3>1
  <2> QED BY <2>2, <2>3, <2>4
<1>8. ASSUME NoCallback(s) PROVE NoCallback(t)
  <2>1. ASSUME NEW j \in 1..(Len(s) - r + 1) PROVE t[j].do \notin InCallback
    <3>1. j + r - 1 \in 1..Len(s)
      BY <1>1, <1>3
    <3>2. t[j] = s[j + r - 1]
      BY <1>6
    <3> QED BY <1>1, <1>8, <3>1, <3>2 DEF NoCallback
  <2> QED BY <1>6, <2>1 DEF NoCallback
<1>9. ASSUME OneCallback(s) PROVE OneCallback(t)
  <2>1. PICK i \in 1..Len(s) : /\ s[i].do \in InCallback
                               /\ \A j \in 1..Len(s) : s[j].do \in InCallback => j = i
    <3>1. DOMAIN s = 1..Len(s)
      BY <1>1
    <3> QED BY <1>9, <3>1 DEF OneCallback
  <2>2. i > h
    BY <1>1, <1>2, <2>1 DEF Lasting
  <2>3. i - r + 1 \in 1..(Len(s) - r + 1)
    BY <1>1, <1>3, <1>5, <2>2
  <2>4. ASSUME NEW j \in 1..(Len(s) - r + 1) PROVE t[j].do \in InCallback <=> j = i - r + 1
    <3>1. j + r - 1 \in 1..Len(s)
      BY <1>1, <1>3
    <3>2. t[j] = s[j + r - 1]
      BY <1>6
    <3>3. j + r - 1 = i <=> j = i - r + 1
      BY <1>1, <1>3
    <3> QED BY <2>1, <3>1, <3>2, <3>3
  <2> QED BY <1>6, <2>3, <2>4 DEF OneCallback
<1> QED BY <1>4, <1>6, <1>7, <1>8, <1>9

\* The stack while a callback is in progress (b) and while none is.
StackOK(s, b) ==
    /\ s \in Seq(GoodStep)
    /\ Frames(s)
    /\ IF b THEN OneCallback(s) ELSE NoCallback(s)

GoodEvent == {s \in GoodStep : s.do \in Event}

\* What a handler may put on the stack as it is.
Body(p) == p \in Seq(GoodStep) /\ Frames(p) /\ NoCallback(p)

LEMMA StackTop ==
    ASSUME NEW s, NEW b \in BOOLEAN, StackOK(s, b), s # <<>>
    PROVE  /\ Head(s) \in GoodStep
           /\ Head(s).do \notin InCallback => StackOK(Tail(s), b)
           /\ Head(s).do \in InCallback => b /\ StackOK(Tail(s), FALSE)
           /\ Head(s).do \in NeedsReturn => HasReturn(Tail(s))
<1>1. s \in Seq(GoodStep) /\ Frames(s)
  BY DEF StackOK
<1>2. Head(s) \in GoodStep /\ Tail(s) \in Seq(GoodStep)
  BY <1>1, HeadTailProperties
<1>3. Frames(Tail(s)) /\ (Head(s).do \in NeedsReturn => HasReturn(Tail(s)))
  BY <1>1, FramesTail
<1>4. CASE b
  BY <1>1, <1>2, <1>3, <1>4, CallbackTail DEF StackOK
<1>5. CASE ~b
  BY <1>1, <1>2, <1>3, <1>5, CallbackTail DEF StackOK
<1> QED BY <1>2, <1>3, <1>4, <1>5

LEMMA EmptyStack ==
    /\ StackOK(<<>>, FALSE)
    /\ ~StackOK(<<>>, TRUE)
BY EmptySeq DEF StackOK, Frames, NoCallback, OneCallback

LEMMA OnTop ==
    ASSUME NEW s, NEW b \in BOOLEAN, StackOK(s, b), NEW p, Body(p)
    PROVE  StackOK(p \o s, b)
BY FramesConcat, CallbackConcat DEF StackOK, Body

LEMMA OnTopInCall ==
    ASSUME NEW s, NEW b \in BOOLEAN, StackOK(s, b), HasReturn(s),
           NEW p \in Seq(GoodStep), \A i \in DOMAIN p : p[i].do \notin Lasting
    PROVE  StackOK(p \o s, b)
<1>0. NoCallback(p)
  BY DEF NoCallback, Lasting
<1>1. \A i \in DOMAIN p : \A k \in (i + 1)..Len(p) : p[k].do \notin Lasting
  BY LenProperties
<1>2. p \o s \in Seq(GoodStep) /\ Frames(p \o s)
  BY <1>1, FramesConcat DEF StackOK
<1> QED BY <1>0, <1>2, CallbackConcat DEF StackOK

LEMMA OneStep ==
    ASSUME NEW c \in GoodStep
    PROVE  /\ <<c>> \in Seq(GoodStep)
           /\ c.do \notin InCallback => NoCallback(<<c>>)
           /\ c.do \in InCallback => OneCallback(<<c>>)
           /\ c.do \notin NeedsReturn => Frames(<<c>>)
BY DEF NoCallback, OneCallback, Frames

\* A callback is entered: the steps p that follow it are on the stack below.
LEMMA OnTopCallback ==
    ASSUME NEW s, StackOK(s, FALSE),
           NEW c \in GoodStep, c.do \in InCallback
    PROVE  StackOK(<<c>> \o s, TRUE)
<1>1. c.do \notin NeedsReturn
  BY DEF NeedsReturn, InCallback
<1>2. <<c>> \in Seq(GoodStep) /\ OneCallback(<<c>>) /\ Frames(<<c>>)
  BY <1>1, OneStep
<1> QED BY <1>2, FramesConcat, CallbackConcat DEF StackOK

LEMMA AfterReturnStack ==
    ASSUME NEW s, NEW b \in BOOLEAN, StackOK(s, b), HasReturn(s)
    PROVE  StackOK(AfterReturn(s), b)
BY EarlyReturn DEF StackOK

LEMMA EventsOnTop ==
    ASSUME NEW q \in Seq(GoodEvent)
    PROVE  Body(q)
<1>1. q \in Seq(GoodStep)
  BY SeqMonotonic DEF GoodEvent
<1>2. \A i \in DOMAIN q : q[i].do \in Event
  BY ElementOfSeq, LenProperties DEF GoodEvent
<1>3. \A x \in Event : x \notin InCallback /\ x \notin NeedsReturn
  BY DEF Event, InCallback, NeedsReturn
<1> QED BY <1>1, <1>2, <1>3 DEF Body, Frames, NoCallback

LEMMA StepsGood ==
    /\ GoodStep \subseteq Step
    /\ \A s : s \in Seq(GoodStep) => s \in Seq(Step)
    /\ \A s : s \in Seq(GoodEvent) => s \in Seq(Step) /\ \A i \in DOMAIN s : s[i].do \in Event
<1>1. GoodStep \subseteq Step /\ GoodEvent \subseteq Step
  BY DEF GoodStep, GoodEvent
<1>2. ASSUME NEW s, s \in Seq(GoodEvent) PROVE \A i \in DOMAIN s : s[i].do \in Event
  BY <1>2, ElementOfSeq, LenProperties DEF GoodEvent
<1>3. \A s : s \in Seq(GoodStep) => s \in Seq(Step)
  BY <1>1, SeqMonotonic
<1>4. \A s : s \in Seq(GoodEvent) => s \in Seq(Step)
  BY <1>1, SeqMonotonic
<1> QED BY <1>1, <1>2, <1>3, <1>4

\* The bodies of the API functions.
LEMMA CallBodies ==
    ASSUME NEW e \in Handle
    PROVE  Body(AddCall(e)) /\ Body(RemoveCall(e)) /\ Body(EasyCleanupCall(e))
<1> USE DEF S, Do, GoodStep, PushStep, Step, StepName, Event, InCallback, NeedsReturn, Lasting
<1>1. Body(AddCall(e))
  BY DEF Body, AddCall, Frames, NoCallback
<1>2. Body(RemoveCall(e))
  BY DEF Body, RemoveCall, Frames, NoCallback
<1>3. Body(<<S("free", e, 0)>>)
  BY DEF Body, Frames, NoCallback
<1>4. Body(EasyCleanupCall(e))
  BY <1>2, <1>3, FramesConcat, CallbackConcat DEF EasyCleanupCall, Body
<1> QED BY <1>1, <1>2, <1>4

LEMMA CallBodies2 ==
    /\ Body(PerformCall) /\ Body(PollCall) /\ Body(InfoReadCall)
    /\ Body(FdsetCall) /\ Body(MultiCleanupCall)
<1> USE DEF S, Do, GoodStep, PushStep, Step, StepName, Event, InCallback, NeedsReturn, Lasting
<1>1. Body(PerformCall) /\ Body(PollCall) /\ Body(InfoReadCall) /\ Body(FdsetCall)
  BY SMTT(30)
     DEF Body, PerformCall, PollCall, InfoReadCall, FdsetCall, Frames, NoCallback
<1>2. Body(MultiCleanupCall)
  BY DEF Body, MultiCleanupCall, Frames, NoCallback
<1> QED BY <1>1, <1>2

-----------------------------------------------------------------------------
(* The list of easy handles.                                                 *)

\* s lists the members of D, each once.
Lists(s, D) ==
    /\ {s[i] : i \in DOMAIN s} = D
    /\ \A i, j \in DOMAIN s : s[i] = s[j] => i = j

LEMMA ListAppend ==
    ASSUME NEW s \in Seq(Handle), NEW D, Lists(s, D), NEW e \in Handle, e \notin D
    PROVE  Append(s, e) \in Seq(Handle) /\ Lists(Append(s, e), D \cup {e})
<1> DEFINE t == Append(s, e)
           n == Len(s)
<1>1. /\ n \in Nat /\ DOMAIN s = 1..n /\ DOMAIN t = 1..(n + 1) /\ t \in Seq(Handle)
      /\ \A i \in 1..n : t[i] = s[i]
      /\ t[n + 1] = e
  BY AppendProperties, LenProperties
<1> HIDE DEF t, n
<1>2. \A i \in 1..n : s[i] \in D /\ s[i] # e
  BY <1>1 DEF Lists
<1>3. {t[i] : i \in 1..(n + 1)} = D \cup {e}
  <2>1. ASSUME NEW x \in D PROVE \E i \in 1..(n + 1) : t[i] = x
    <3>1. PICK i \in 1..n : s[i] = x
      BY <1>1 DEF Lists
    <3> QED BY <1>1, <3>1
  <2>2. ASSUME NEW i \in 1..(n + 1) PROVE t[i] \in D \cup {e}
    BY <1>1, <1>2
  <2>3. n + 1 \in 1..(n + 1)
    BY <1>1
  <2> QED BY <1>1, <2>1, <2>2, <2>3
<1>4. ASSUME NEW i \in 1..(n + 1), NEW j \in 1..(n + 1), t[i] = t[j] PROVE i = j
  <2>1. CASE i \in 1..n /\ j \in 1..n
    BY <1>1, <1>4, <2>1 DEF Lists
  <2>2. CASE ~(i \in 1..n /\ j \in 1..n)
    BY <1>1, <1>2, <1>4, <2>2
  <2> QED BY <2>1, <2>2
<1> QED BY <1>1, <1>3, <1>4 DEF Lists, t

LEMMA ListRemove ==
    ASSUME NEW s \in Seq(Handle), NEW D, Lists(s, D), NEW e
    PROVE  WithoutEasy(s, e) \in Seq(Handle) /\ Lists(WithoutEasy(s, e), D \ {e})
<1> DEFINE n == Len(s)
<1>1. /\ n \in Nat /\ DOMAIN s = 1..n /\ \A i \in 1..n : s[i] \in Handle
  BY LenProperties, ElementOfSeq
<1>2. CASE ~\E i \in DOMAIN s : s[i] = e
  BY <1>2 DEF WithoutEasy, Lists
<1>3. CASE \E i \in DOMAIN s : s[i] = e
  <2> DEFINE r == CHOOSE i \in DOMAIN s : s[i] = e
             t == RemoveAt(s, r)
  <2>1. r \in 1..n /\ s[r] = e /\ WithoutEasy(s, e) = t
    BY <1>1, <1>3 DEF WithoutEasy
  <2> HIDE DEF r
  <2>2. /\ t \in Seq(Handle) /\ DOMAIN t = 1..(n - 1)
        /\ \A i \in 1..(n - 1) : t[i] = IF i < r THEN s[i] ELSE s[i + 1]
    BY <2>1, RemovedAt
  <2> HIDE DEF t
  <2>3. ASSUME NEW i \in 1..(n - 1) PROVE t[i] \in D \ {e}
    <3>1. CASE i < r
      <4>1. i \in 1..n /\ i # r /\ t[i] = s[i]
        BY <1>1, <2>1, <2>2, <3>1
      <4> QED BY <1>1, <2>1, <4>1 DEF Lists
    <3>2. CASE i >= r
      <4>1. i + 1 \in 1..n /\ i + 1 # r /\ t[i] = s[i + 1]
        BY <1>1, <2>1, <2>2, <3>2
      <4> QED BY <1>1, <2>1, <4>1 DEF Lists
    <3> QED BY <1>1, <2>1, <3>1, <3>2
  <2>4. ASSUME NEW x \in D \ {e} PROVE \E i \in 1..(n - 1) : t[i] = x
    <3>1. PICK k \in 1..n : s[k] = x
      BY <1>1 DEF Lists
    <3>2. CASE k < r
      BY <1>1, <2>1, <2>2, <3>1, <3>2
    <3>3. CASE k > r
      <4>1. k - 1 \in 1..(n - 1) /\ ~(k - 1 < r) /\ (k - 1) + 1 = k
        BY <1>1, <2>1, <3>3
      <4>2. t[k - 1] = x
        BY <2>2, <3>1, <4>1
      <4> QED BY <4>1, <4>2
    <3> QED BY <1>1, <2>1, <3>1, <3>2, <3>3
  <2>5. ASSUME NEW i \in 1..(n - 1), NEW j \in 1..(n - 1), t[i] = t[j] PROVE i = j
    <3> DEFINE up(k) == IF k < r THEN k ELSE k + 1
    <3>1. \A k \in 1..(n - 1) : up(k) \in 1..n /\ t[k] = s[up(k)]
      BY <1>1, <2>1, <2>2
    <3>2. up(i) = up(j)
      <4> HIDE DEF up
      <4> QED BY <1>1, <2>5, <3>1 DEF Lists
    <3>3. i \in Nat /\ j \in Nat /\ r \in Nat
      BY <1>1, <2>1
    <3> HIDE DEF t
    <3>4. CASE i < r
      BY <3>2, <3>3, <3>4
    <3>5. CASE i >= r
      BY <3>2, <3>3, <3>5
    <3> QED BY <3>3, <3>4, <3>5
  <2>6. DOMAIN t = 1..(n - 1) /\ t \in Seq(Handle)
    BY <2>2
  <2>7. {t[i] : i \in DOMAIN t} = D \ {e}
    BY <2>3, <2>4, <2>6
  <2>8. Lists(t, D \ {e})
    BY <2>5, <2>6, <2>7 DEF Lists
  <2>9. WithoutEasy(s, e) = t
    BY <2>1
  <2> QED BY <2>6, <2>8, <2>9
<1> QED BY <1>2, <1>3

-----------------------------------------------------------------------------
(* The inductive invariant.                                                  *)

IInv ==
    /\ TypeOK
    /\ StackOK(todo, inCallback)
    /\ queue \in Seq(GoodEvent)
    /\ EasiesUnique
    /\ \A w \in Slot : worker[w].phase # "none" => worker[w].e \in Handle
    /\ cbs \subseteq Callbacks

LEMMA InitInv == Init => IInv
<1> SUFFICES ASSUME Init PROVE IInv
  OBVIOUS
<1>1. StackOK(todo, inCallback)
  BY EmptyStack DEF Init
<1>2. queue \in Seq(GoodEvent) /\ queue \in Seq(Step) /\ todo \in Seq(Step)
  BY EmptySeq DEF Init
<1>3. EasiesUnique
  BY DEF Init, EasiesUnique, NoRecords
<1>4. easies \in Seq(Handle) /\ messages \in Seq(Message)
  BY EmptySeq DEF Init
<1>5. DOMAIN records \subseteq Handle /\ records \in [DOMAIN records -> Record]
  BY DEF Init, NoRecords
<1>6. TypeOK
  <2>1. \A i \in DOMAIN queue : queue[i].do \in Event
    BY <1>2, StepsGood
  <2>2. worker \in [Slot -> [e : Handle \cup {NoHandle}, phase : Phase]]
    BY DEF Init, Phase
  <2>3. /\ alive \subseteq Handle /\ owned \subseteq Handle /\ paused \subseteq Handle
        /\ attached \in [Handle -> BOOLEAN] /\ multi \in BOOLEAN /\ dead \in BOOLEAN
        /\ cbs \subseteq CallbackName /\ inCallback \in BOOLEAN
        /\ told \in {"now", "later", "never"} /\ rc \in Code
        /\ assignments \subseteq Socket /\ watched \subseteq Socket
    BY DEF Init, Code
  <2> QED BY <1>2, <1>4, <1>5, <2>1, <2>2, <2>3 DEF TypeOK
<1>7. \A w \in Slot : worker[w].phase = "none"
  BY DEF Init
<1>8. cbs \subseteq Callbacks
  BY DEF Init
<1> QED BY <1>1, <1>2, <1>3, <1>6, <1>7, <1>8 DEF IInv

\* What the invariant says of the step on top of the stack.
LEMMA TopStep ==
    ASSUME IInv, todo # <<>>
    PROVE  /\ cur \in GoodStep
           /\ cur.do \notin InCallback => StackOK(rest, inCallback)
           /\ cur.do \in InCallback => inCallback /\ StackOK(rest, FALSE)
           /\ cur.do \in NeedsReturn => HasReturn(rest)
BY StackTop DEF IInv, TypeOK, cur, rest

\* A step that only changes the event queue, the stack and what has a simple
\* type.
LEMMA EventSent ==
    ASSUME IInv, NEW ev \in GoodEvent
    PROVE  Append(queue, ev) \in Seq(GoodEvent)
BY AppendProperties DEF IInv

LEMMA CallInv ==
    ASSUME IInv, NEW c, NEW steps, Body(steps), Call(c, steps), UNCHANGED handleVars
    PROVE  IInv'
<1>1. StackOK(todo', inCallback')
  BY OnTop DEF IInv, Call, TypeOK, callbackVars
<1>2. EasiesUnique'
  BY DEF IInv, Call, EasiesUnique, recordVars
<1>3. TypeOK'
  BY <1>1, StepsGood DEF IInv, TypeOK, StackOK, Call, handleVars, recordVars, callbackVars,
     socketVars
<1> QED BY <1>1, <1>2, <1>3 DEF IInv, Call, callbackVars

LEMMA AppCallInv ==
    ASSUME IInv, AppCall
    PROVE  IInv'
<1> USE DEF handleVars, recordVars, callbackVars, socketVars
<1>1. CASE MultiInit
  <2>1. StackOK(todo', inCallback')
    BY <1>1, EmptyStack DEF MultiInit
  <2>2. queue' \in Seq(GoodEvent) /\ queue' \in Seq(Step) /\ easies' \in Seq(Handle)
        /\ messages' \in Seq(Message)
    BY <1>1, EmptySeq DEF MultiInit
  <2>3. EasiesUnique' /\ DOMAIN records' \subseteq Handle /\ records' \in [DOMAIN records' -> Record]
    BY <1>1 DEF MultiInit, EasiesUnique, NoRecords
  <2>4. TypeOK'
    <3>1. \A i \in DOMAIN queue' : queue'[i].do \in Event
      BY <2>2, StepsGood
    <3>2. /\ multi' \in BOOLEAN /\ dead' \in BOOLEAN
          /\ cbs' \subseteq CallbackName /\ inCallback' \in BOOLEAN
          /\ told' \in {"now", "later", "never"}
          /\ assignments' \subseteq Socket /\ watched' \subseteq Socket
      BY <1>1 DEF MultiInit
    <3>3. UNCHANGED <<handleVars, worker, todo, rc>>
      BY <1>1 DEF MultiInit
    <3> QED BY <2>2, <2>3, <3>1, <3>2, <3>3 DEF IInv, TypeOK
  <2> QED BY <1>1, <2>1, <2>2, <2>3, <2>4 DEF IInv, MultiInit
<1>2. CASE Perform \/ Poll \/ InfoRead \/ Fdset \/ MultiCleanup
  <2>1. Body(PerformCall) /\ Body(PollCall) /\ Body(InfoReadCall) /\ Body(FdsetCall)
        /\ Body(MultiCleanupCall)
    BY CallBodies2
  <2> QED BY <1>2, <2>1, CallInv DEF Perform, Poll, InfoRead, Fdset, MultiCleanup
<1>3. CASE Wakeup
  <2>1. Do("wakeup") \in GoodEvent
    BY DEF Do, S, GoodEvent, GoodStep, PushStep, Step, StepName, Event
  <2>2. queue' \in Seq(GoodEvent)
    BY <1>3, <2>1, EventSent DEF Wakeup
  <2>3. EasiesUnique' /\ TypeOK'
    BY <1>3, <2>2, StepsGood DEF Wakeup, IInv, TypeOK, EasiesUnique
  <2> QED BY <1>3, <2>2, <2>3 DEF Wakeup, IInv
<1>4. ASSUME NEW c \in Callbacks, SetFunction(c)
      PROVE  IInv'
  BY <1>4, CallAssumption DEF SetFunction, IInv, TypeOK, EasiesUnique
<1>5. ASSUME NEW e \in Handle, EasyInit(e) \/ EasyPause(e)
      PROVE  IInv'
  <2>1. Do("wakeup") \in GoodEvent
    BY DEF Do, S, GoodEvent, GoodStep, PushStep, Step, StepName, Event
  <2>2. queue' \in Seq(GoodEvent)
    BY <1>5, <2>1, EventSent DEF EasyInit, EasyPause, IInv
  <2>3. CASE EasyInit(e)
    BY <2>2, <2>3, StepsGood DEF EasyInit, IInv, TypeOK, EasiesUnique
  <2>4. CASE EasyPause(e)
    <3>1. paused' \subseteq Handle
      BY <2>4 DEF EasyPause, IInv, TypeOK
    <3>2. UNCHANGED <<alive, owned, attached, multi, recordVars, callbackVars,
                      socketVars, worker, todo, rc>>
      BY <2>4 DEF EasyPause
    <3> QED BY <2>2, <3>1, <3>2, StepsGood DEF IInv, TypeOK, EasiesUnique
  <2> QED BY <1>5, <2>3, <2>4
<1>6. ASSUME NEW e \in Handle, EasyCleanup(e)
      PROVE  IInv'
  <2>1. StackOK(todo', inCallback')
    <3>1. ~inCallback
      BY <1>6, EmptyStack DEF EasyCleanup, IInv, TypeOK
    <3>2. Body(EasyCleanupCall(e))
      BY CallBodies
    <3> QED BY <1>6, <3>1, <3>2 DEF EasyCleanup, StackOK, Body
  <2>2. EasiesUnique' /\ TypeOK'
    BY <1>6, <2>1, StepsGood DEF EasyCleanup, IInv, TypeOK, StackOK, EasiesUnique
  <2> QED BY <1>6, <2>1, <2>2 DEF EasyCleanup, IInv
<1>7. ASSUME NEW e \in Handle, AddHandle(e) \/ RemoveHandle(e)
      PROVE  IInv'
  BY <1>7, CallBodies, CallInv DEF AddHandle, RemoveHandle
<1>8. ASSUME NEW fd \in Socket, Assign(fd)
      PROVE  IInv'
  BY <1>8 DEF Assign, IInv, TypeOK, EasiesUnique
<1> QED BY <1>1, <1>2, <1>3, <1>4, <1>5, <1>6, <1>7, <1>8 DEF AppCall

\* The stack after the step on its top, when that is no callback, has been
\* replaced by others.
LEMMA Popped ==
    ASSUME IInv, NEW d, At(d), d \notin InCallback, todo' = rest, UNCHANGED inCallback
    PROVE  StackOK(todo', inCallback')
BY TopStep DEF At

LEMMA Replaced ==
    ASSUME IInv, NEW d, At(d), d \notin InCallback, NEW p, Body(p),
           todo' = p \o rest, UNCHANGED inCallback
    PROVE  StackOK(todo', inCallback')
BY TopStep, OnTop DEF At, IInv, TypeOK

\* Nothing but the stack has changed, and variables of simple types.
LEMMA OnlyStack ==
    ASSUME IInv, StackOK(todo', inCallback'), queue' \in Seq(GoodEvent),
           UNCHANGED <<handleVars, multi, recordVars, callbackVars, socketVars, worker, rc>>
    PROVE  IInv'
<1> USE DEF handleVars, recordVars, callbackVars, socketVars
<1>1. EasiesUnique'
  BY DEF IInv, EasiesUnique
<1>2. TypeOK'
  BY StepsGood DEF IInv, TypeOK, StackOK
<1> QED BY <1>1, <1>2 DEF IInv

LEMMA EventSteps ==
    ASSUME IInv, Drain \/ Wait \/ Woken \/ Join \/ Return \/ Pushes
    PROVE  IInv'
<1> USE DEF handleVars, recordVars, callbackVars, socketVars, InCallback
<1>1. CASE Drain
  <2>1. StackOK(todo', inCallback')
    BY <1>1, EventsOnTop, Replaced DEF Drain, IInv
  <2>2. queue' \in Seq(GoodEvent)
    BY <1>1, EmptySeq DEF Drain
  <2> QED BY <1>1, <2>1, <2>2, OnlyStack DEF Drain
<1>2. CASE Wait
  <2>1. CASE todo' = rest /\ UNCHANGED queue
    BY <1>2, <2>1, Popped, OnlyStack DEF Wait, IInv
  <2>2. CASE /\ queue # <<>>
             /\ todo' = <<Head(queue), Do("drain")>> \o rest
             /\ queue' = Tail(queue)
    <3>1. Head(queue) \in GoodEvent /\ queue' \in Seq(GoodEvent)
      BY <2>2, HeadTailProperties DEF IInv
    <3>2. Body(<<Head(queue), Do("drain")>>)
      BY <3>1 DEF Body, GoodEvent, GoodStep, PushStep, Step, StepName, Event, NeedsReturn, Do, S,
         Frames, NoCallback
    <3>3. StackOK(todo', inCallback')
      BY <1>2, <2>2, <3>2, Replaced DEF Wait
    <3> QED BY <1>2, <3>1, <3>3, OnlyStack DEF Wait
  <2> QED BY <1>2, <2>1, <2>2 DEF Wait
<1>3. CASE Woken
  BY <1>3, Popped, OnlyStack DEF Woken, IInv
<1>4. CASE Join
  BY <1>4, Popped, OnlyStack DEF Join, IInv
<1>5. CASE Return
  <2>1. StackOK(todo', inCallback')
    BY <1>5, Popped DEF Return
  <2>2. EasiesUnique'
    BY <1>5 DEF Return, IInv, EasiesUnique
  <2>3. TypeOK'
    BY <1>5, <2>1, StepsGood DEF Return, IInv, TypeOK, StackOK, Code
  <2> QED BY <1>5, <2>1, <2>2, <2>3 DEF Return, IInv
<1>6. CASE Pushes
  <2>1. ASSUME "push" \in cbs PROVE Body(<<S("push", cur.e, cur.n)>>)
    <3>1. cur \in GoodStep /\ "push" \in Callbacks
      BY <1>6, <2>1, TopStep DEF Pushes, At, IInv
    <3>2. S("push", cur.e, cur.n) \in GoodStep
      BY <3>1 DEF GoodStep, PushStep, Step, StepName, S
    <3> QED BY <3>2, OneStep DEF Body, S, NeedsReturn
  <2>2. StackOK(todo', inCallback')
    BY <1>6, <2>1, Popped, Replaced DEF Pushes
  <2> QED BY <1>6, <2>2, OnlyStack DEF Pushes, IInv
<1> QED BY <1>1, <1>2, <1>3, <1>4, <1>5, <1>6

LEMMA CompletedInv ==
    ASSUME IInv, Completed
    PROVE  IInv'
<1> USE DEF handleVars, recordVars, callbackVars, socketVars
<1>1. At("completed") /\ cur \in GoodStep
  BY TopStep DEF Completed, At
<1>2. CASE cur.e \notin Running
  <2>1. UNCHANGED <<handleVars, multi, recordVars, queue, callbackVars, socketVars, worker, rc>>
        /\ todo' = rest
    BY <1>2 DEF Completed
  <2> QED BY <1>1, <2>1, Popped, OnlyStack DEF IInv, InCallback
<1>3. CASE cur.e \in Running
  <2> DEFINE p == <<JoinOf(cur.e), S("poll_remove", cur.e, records[cur.e].socket), Do("timer")>>
  <2>1. /\ records' = [records EXCEPT ![cur.e].completed = TRUE,
                                      ![cur.e].worker = 0,
                                      ![cur.e].socket = 0]
        /\ messages' = Append(messages, [e |-> cur.e, n |-> cur.n])
        /\ todo' = p \o rest
        /\ UNCHANGED <<handleVars, multi, easies, queue, callbackVars, socketVars, worker, rc>>
    BY <1>3 DEF Completed
  <2>2. cur.e \in DOMAIN records /\ cur.e \in Handle /\ cur.n \in Slot
    BY <1>1, <1>3 DEF Running, IInv, TypeOK, GoodStep, At
  <2>3. Body(p)
    <3>1. records[cur.e].worker \in Nat /\ records[cur.e].socket \in Nat
      BY <2>2, BoundAssumption DEF IInv, TypeOK, Record, Slot, Socket
    <3> QED BY <2>2, <3>1 DEF Body, JoinOf, S, Do, GoodStep, PushStep, Step, StepName, Event,
               InCallback, NeedsReturn, Frames, NoCallback
  <2>4. StackOK(todo', inCallback')
    BY <1>1, <2>1, <2>3, Replaced DEF InCallback
  <2>5. messages' \in Seq(Message)
    <3>1. [e |-> cur.e, n |-> cur.n] \in Message
      BY <2>2 DEF Message
    <3> QED BY <2>1, <3>1, AppendProperties DEF IInv, TypeOK
  <2>6. DOMAIN records' = DOMAIN records /\ records' \in [DOMAIN records' -> Record]
    <3>1. records \in [DOMAIN records -> Record]
      BY DEF IInv, TypeOK
    <3>2. DOMAIN records' = DOMAIN records
      BY <2>1, <3>1
    <3>3. ASSUME NEW x \in DOMAIN records PROVE records'[x] \in Record
      <4>1. CASE x = cur.e
        <5>1. records[cur.e] \in Record
          BY <2>2, <3>1
        <5>2. records'[x] = [records[cur.e] EXCEPT !.completed = TRUE,
                                !.worker = 0, !.socket = 0]
          BY <2>1, <2>2, <3>1, <4>1
        <5> QED BY <5>1, <5>2, BoundAssumption DEF Record, Slot, Socket
      <4>2. CASE x # cur.e
        BY <2>1, <3>1, <4>2
      <4> QED BY <4>1, <4>2
    <3> QED BY <2>1, <3>1, <3>2, <3>3
  <2>7. EasiesUnique'
    BY <2>1, <2>6 DEF IInv, EasiesUnique
  <2>8. TypeOK'
    BY <2>1, <2>4, <2>5, <2>6, StepsGood DEF IInv, TypeOK, StackOK
  <2> QED BY <2>1, <2>4, <2>7, <2>8 DEF IInv
<1> QED BY <1>2, <1>3

\* update_timer with k left to do.
LEMMA TimerStack ==
    ASSUME IInv, NEW k, StackOK(k, inCallback), UpdateTimer(k)
    PROVE  /\ StackOK(todo', inCallback')
           /\ inCallback' \in BOOLEAN /\ rc' \in Code
           /\ told' \in {"now", "later", "never"}
<1>1. CASE MayCallBack("timer")
  <2>1. Do("timer_cb") \in GoodStep /\ Do("timer_cb").do \in InCallback
    BY DEF Do, S, GoodStep, PushStep, Step, StepName, InCallback
  <2>2. StackOK(<<Do("timer_cb")>> \o k, TRUE)
    BY <1>1, <2>1, OnTopCallback DEF MayCallBack, IInv, TypeOK
  <2>3. inCallback' = TRUE /\ todo' = <<Do("timer_cb")>> \o k /\ rc' = rc /\ told' = NativeTimeout
    BY <1>1 DEF UpdateTimer, MayCallBack
  <2> QED BY <2>2, <2>3 DEF NativeTimeout, IInv, TypeOK
<1>2. CASE ~MayCallBack("timer")
  <2>1. todo' = k /\ inCallback' = inCallback /\ told' = told /\ rc' \in {"ok", "recursive"}
    BY <1>2 DEF UpdateTimer, MayCallBack
  <2> QED BY <2>1 DEF IInv, TypeOK, Code
<1> QED BY <1>1, <1>2

LEMMA CallbackStepsInv ==
    ASSUME IInv, \/ Timer \/ TimerAgain \/ PollRemove
                 \/ \E ok \in BOOLEAN : CallbackReturn(ok)
    PROVE  IInv'
<1> USE DEF handleVars, recordVars, callbackVars, socketVars
<1>1. CASE Timer
  <2>1. StackOK(rest, inCallback)
    BY <1>1, TopStep DEF Timer, At, InCallback
  <2>2. /\ StackOK(todo', inCallback')
        /\ inCallback' \in BOOLEAN /\ rc' \in Code
        /\ told' \in {"now", "later", "never"}
    BY <1>1, <2>1, TimerStack DEF Timer
  <2>3. UNCHANGED <<handleVars, multi, recordVars, queue, dead, cbs, socketVars, worker>>
    BY <1>1 DEF Timer
  <2>4. EasiesUnique' /\ TypeOK'
    BY <2>2, <2>3, StepsGood DEF IInv, TypeOK, StackOK, EasiesUnique
  <2> QED BY <2>2, <2>3, <2>4 DEF IInv
<1>2. CASE TimerAgain
  <2>1. StackOK(rest, inCallback)
    BY <1>2, TopStep DEF TimerAgain, At, InCallback
  <2>2. /\ StackOK(todo', inCallback')
        /\ inCallback' \in BOOLEAN /\ rc' \in Code
        /\ told' \in {"now", "later", "never"}
    BY <1>2, <2>1, TimerStack DEF TimerAgain, IInv, TypeOK
  <2>3. UNCHANGED <<handleVars, multi, recordVars, queue, dead, cbs, socketVars, worker>>
    BY <1>2 DEF TimerAgain
  <2>4. EasiesUnique' /\ TypeOK'
    BY <2>2, <2>3, StepsGood DEF IInv, TypeOK, StackOK, EasiesUnique
  <2> QED BY <2>2, <2>3, <2>4 DEF IInv
<1>3. CASE PollRemove
  <2>1. StackOK(rest, inCallback) /\ cur \in GoodStep
    BY <1>3, TopStep DEF PollRemove, At, InCallback
  <2>2. StackOK(todo', inCallback') /\ inCallback' \in BOOLEAN
    <3>1. CASE MayCallBack("socket")
      <4>1. S("poll_remove_cb", cur.e, cur.n) \in GoodStep
            /\ S("poll_remove_cb", cur.e, cur.n).do \in InCallback
        BY <2>1 DEF S, GoodStep, PushStep, Step, StepName, InCallback
      <4> QED BY <1>3, <2>1, <3>1, <4>1, OnTopCallback DEF PollRemove, MayCallBack, IInv, TypeOK
    <3>2. CASE ~MayCallBack("socket")
      BY <1>3, <2>1, <3>2 DEF PollRemove, IInv, TypeOK
    <3> QED BY <3>1, <3>2
  <2>3. watched' \subseteq watched
        /\ UNCHANGED <<handleVars, multi, recordVars, queue, dead, cbs, told,
                       assignments, worker, rc>>
    BY <1>3 DEF PollRemove
  <2>4. EasiesUnique' /\ TypeOK'
    BY <2>2, <2>3, StepsGood DEF IInv, TypeOK, StackOK, EasiesUnique
  <2> QED BY <2>2, <2>3, <2>4 DEF IInv
<1>4. ASSUME NEW ok \in BOOLEAN, CallbackReturn(ok)
      PROVE  IInv'
  <2>1. StackOK(rest, FALSE) /\ cur \in GoodStep
    BY <1>4, TopStep DEF CallbackReturn, AtCallback
  <2>2. StackOK(todo', inCallback') /\ inCallback' = FALSE
    BY <1>4, <2>1 DEF CallbackReturn
  <2>3. rc' \in Code /\ dead' \in BOOLEAN
    BY <1>4 DEF CallbackReturn, Code, IInv, TypeOK
  <2>4. assignments' \subseteq Socket /\ owned' \subseteq Handle
    BY <1>4, <2>1 DEF CallbackReturn, IInv, TypeOK, GoodStep
  <2>5. UNCHANGED <<alive, attached, paused, multi, recordVars, queue, cbs, told,
                    watched, worker>>
    BY <1>4 DEF CallbackReturn
  <2>6. todo' \in Seq(Step)
    BY <2>2, StepsGood DEF StackOK
  <2>7. EasiesUnique'
    BY <2>5 DEF IInv, EasiesUnique
  <2>8. TypeOK'
    <3>1. TypeOK
      BY DEF IInv
    <3>2. inCallback' \in BOOLEAN
      BY <2>2
    <3>3. /\ UNCHANGED <<alive, attached, paused, multi, queue, cbs, told, watched, worker>>
          /\ UNCHANGED <<easies, records, messages>>
      BY <2>5
    <3> QED BY <2>3, <2>4, <2>6, <3>1, <3>2, <3>3, ZenonT(60) DEF TypeOK
  <2> QED BY <2>2, <2>5, <2>7, <2>8 DEF IInv
<1> QED BY <1>1, <1>2, <1>3, <1>4

-----------------------------------------------------------------------------
(* Steps that add or remove records.                                         *)

LEMMA InsertInv ==
    ASSUME IInv, NEW e \in Handle, NEW started \in BOOLEAN, Insert(e, started)
    PROVE  /\ EasiesUnique' /\ easies' \in Seq(Handle)
           /\ DOMAIN records' \subseteq Handle /\ records' \in [DOMAIN records' -> Record]
           /\ attached' \in [Handle -> BOOLEAN]
<1>1. Lists(easies, DOMAIN records) /\ easies \in Seq(Handle)
      /\ DOMAIN records \subseteq Handle /\ records \in [DOMAIN records -> Record]
  BY DEF IInv, TypeOK, EasiesUnique, Lists
<1>2. DOMAIN records' = DOMAIN records \cup {e}
  BY DEF Insert
<1>3. NewRecord(started) \in Record
  BY DEF NewRecord, Record
<1>4. records' \in [DOMAIN records' -> Record]
  BY <1>1, <1>2, <1>3 DEF Insert
<1>5. Lists(easies', DOMAIN records') /\ easies' \in Seq(Handle)
  <2>1. CASE e \in DOMAIN records
    <3>1. \E i \in DOMAIN easies : easies[i] = e
      BY <1>1, <2>1 DEF Lists
    <3>2. easies' = easies /\ DOMAIN records' = DOMAIN records
      BY <1>2, <2>1, <3>1 DEF Insert
    <3> QED BY <1>1, <3>2
  <2>2. CASE e \notin DOMAIN records
    <3>1. ~\E i \in DOMAIN easies : easies[i] = e
      BY <1>1, <2>2 DEF Lists
    <3>2. easies' = Append(easies, e)
      BY <3>1 DEF Insert
    <3> QED BY <1>1, <1>2, <2>2, <3>2, ListAppend
  <2> QED BY <2>1, <2>2
<1>6. attached' \in [Handle -> BOOLEAN]
  BY DEF Insert, IInv, TypeOK
<1> QED BY <1>1, <1>2, <1>4, <1>5, <1>6 DEF EasiesUnique, Lists

LEMMA EraseInv ==
    ASSUME IInv, NEW e, Erase(e)
    PROVE  /\ EasiesUnique' /\ easies' \in Seq(Handle)
           /\ DOMAIN records' \subseteq Handle /\ records' \in [DOMAIN records' -> Record]
<1>1. Lists(easies, DOMAIN records) /\ easies \in Seq(Handle)
      /\ DOMAIN records \subseteq Handle /\ records \in [DOMAIN records -> Record]
  BY DEF IInv, TypeOK, EasiesUnique, Lists
<1>2. Lists(easies', DOMAIN records \ {e}) /\ easies' \in Seq(Handle)
  BY <1>1, ListRemove DEF Erase
<1>3. DOMAIN records' = DOMAIN records \ {e} /\ records' \in [DOMAIN records' -> Record]
  BY <1>1 DEF Erase
<1> QED BY <1>1, <1>2, <1>3 DEF EasiesUnique, Lists

\* Queued messages: one at most for each handle, and of handles in D only.
OneEach(s, D) ==
    /\ \A i \in DOMAIN s : s[i].e \in D
    /\ \A i, j \in DOMAIN s : s[i].e = s[j].e => i = j

\* Some message of s is about the handle e.
Names(s, e) == \E i \in DOMAIN s : s[i].e = e

LEMMA MessageRemove ==
    ASSUME NEW s \in Seq(Message), NEW e
    PROVE  /\ WithoutMessage(s, e) \in Seq(Message)
           /\ \A D : OneEach(s, D) => OneEach(WithoutMessage(s, e), D \ {e})
           /\ \A x : x # e => (Names(WithoutMessage(s, e), x) <=> Names(s, x))
<1> DEFINE n == Len(s)
<1>1. n \in Nat /\ DOMAIN s = 1..n
  BY LenProperties
<1>2. CASE \E i \in DOMAIN s : s[i].e = e
  <2> DEFINE r == CHOOSE i \in DOMAIN s : s[i].e = e
             t == RemoveAt(s, r)
             up(i) == IF i < r THEN i ELSE i + 1
  <2>1. r \in 1..n /\ s[r].e = e /\ WithoutMessage(s, e) = t
    BY <1>1, <1>2 DEF WithoutMessage
  <2> HIDE DEF r
  <2>2. /\ t \in Seq(Message) /\ DOMAIN t = 1..(n - 1)
        /\ \A i \in 1..(n - 1) : t[i] = IF i < r THEN s[i] ELSE s[i + 1]
    BY <2>1, RemovedAt
  <2> HIDE DEF t, n
  <2>3. \A i \in 1..(n - 1) : up(i) \in 1..n /\ up(i) # r /\ t[i] = s[up(i)]
    BY <1>1, <2>1, <2>2
  <2>4. ASSUME NEW k \in 1..n, k # r PROVE \E i \in 1..(n - 1) : up(i) = k
    <3>1. CASE k < r
      BY <1>1, <2>1, <3>1
    <3>2. CASE k > r
      <4>1. k - 1 \in 1..(n - 1) /\ up(k - 1) = k
        BY <1>1, <2>1, <3>2
      <4> QED BY <4>1
    <3> QED BY <1>1, <2>1, <2>4, <3>1, <3>2
  <2>5. \A i, j \in 1..(n - 1) : up(i) = up(j) => i = j
    BY <1>1, <2>1
  <2> HIDE DEF up
  <2>6. ASSUME NEW D, OneEach(s, D) PROVE OneEach(t, D \ {e})
    <3>1. ASSUME NEW i \in 1..(n - 1) PROVE t[i].e \in D \ {e}
      BY <1>1, <2>1, <2>3, <2>6 DEF OneEach
    <3>2. ASSUME NEW i \in 1..(n - 1), NEW j \in 1..(n - 1), t[i].e = t[j].e
          PROVE  i = j
      <4>1. up(i) = up(j)
        BY <1>1, <2>3, <2>6, <3>2 DEF OneEach
      <4> QED BY <2>5, <4>1
    <3>3. DOMAIN t = 1..(n - 1)
      BY <2>2
    <3> QED BY <3>1, <3>2, <3>3 DEF OneEach
  <2>7. ASSUME NEW x, x # e
        PROVE  Names(t, x) <=> Names(s, x)
    <3>1. ASSUME NEW i \in 1..(n - 1), t[i].e = x PROVE \E k \in 1..n : s[k].e = x
      BY <2>3, <3>1
    <3>2. ASSUME NEW k \in 1..n, s[k].e = x PROVE \E i \in 1..(n - 1) : t[i].e = x
      <4>1. PICK i \in 1..(n - 1) : up(i) = k
        BY <2>1, <2>4, <2>7, <3>2
      <4> QED BY <2>3, <3>2, <4>1
    <3>3. DOMAIN t = 1..(n - 1) /\ DOMAIN s = 1..n
      BY <1>1, <2>2
    <3> QED BY <3>1, <3>2, <3>3 DEF Names
  <2> QED BY <2>1, <2>2, <2>6, <2>7
<1>3. CASE ~\E i \in DOMAIN s : s[i].e = e
  BY <1>3 DEF WithoutMessage, OneEach
<1> QED BY <1>2, <1>3

LEMMA HandleStepsInv ==
    ASSUME IInv, Link \/ Unlink \/ Detach \/ Free \/ FreeMulti \/ Read
    PROVE  IInv'
<1> USE DEF handleVars, recordVars, callbackVars, socketVars
<1>1. CASE Link
  <2>1. cur \in GoodStep /\ cur.e \in Handle /\ At("link") /\ HasReturn(rest)
        /\ StackOK(rest, inCallback)
    BY <1>1, TopStep DEF Link, At, GoodStep, NeedsReturn, InCallback
  <2>2. UNCHANGED <<alive, owned, paused, multi, messages, queue, callbackVars,
                    socketVars, worker, rc>>
    BY <1>1 DEF Link
  <2>3. CASE cur.e \in DOMAIN records
    <3>1. todo' = AfterReturn(rest) /\ UNCHANGED <<easies, records, attached>>
      BY <1>1, <2>3 DEF Link
    <3>2. StackOK(todo', inCallback')
      BY <2>1, <2>2, <3>1, AfterReturnStack DEF IInv, TypeOK
    <3> QED BY <2>2, <3>1, <3>2, OnlyStack DEF IInv
  <2>4. CASE cur.e \notin DOMAIN records
    <3>1. Insert(cur.e, FALSE) /\ todo' = rest
      BY <1>1, <2>4 DEF Link
    <3>2. /\ EasiesUnique' /\ easies' \in Seq(Handle)
          /\ DOMAIN records' \subseteq Handle /\ records' \in [DOMAIN records' -> Record]
          /\ attached' \in [Handle -> BOOLEAN]
      BY <2>1, <3>1, InsertInv
    <3>3. StackOK(todo', inCallback')
      BY <2>1, <2>2, <3>1
    <3>4. TypeOK'
      BY <2>2, <3>2, <3>3, StepsGood DEF IInv, TypeOK, StackOK
    <3> QED BY <2>2, <3>2, <3>3, <3>4 DEF IInv
  <2> QED BY <2>3, <2>4
<1>2. CASE Unlink
  <2>1. cur \in GoodStep /\ At("unlink") /\ HasReturn(rest) /\ StackOK(rest, inCallback)
    BY <1>2, TopStep DEF Unlink, At, NeedsReturn, InCallback
  <2>2. UNCHANGED <<handleVars, multi, queue, callbackVars, socketVars, worker, rc>>
    BY <1>2 DEF Unlink
  <2>3. CASE cur.e \notin DOMAIN records
    <3>1. todo' = AfterReturn(rest) /\ UNCHANGED recordVars
      BY <1>2, <2>3 DEF Unlink
    <3>2. StackOK(todo', inCallback')
      BY <2>1, <2>2, <3>1, AfterReturnStack DEF IInv, TypeOK
    <3> QED BY <2>2, <3>1, <3>2, OnlyStack DEF IInv
  <2>4. CASE cur.e \in DOMAIN records
    <3>1. Erase(cur.e) /\ messages' = WithoutMessage(messages, cur.e)
          /\ todo' = <<JoinOf(cur.e)>> \o rest
      BY <1>2, <2>4 DEF Unlink
    <3>2. /\ EasiesUnique' /\ easies' \in Seq(Handle)
          /\ DOMAIN records' \subseteq Handle /\ records' \in [DOMAIN records' -> Record]
      BY <3>1, EraseInv
    <3>3. messages' \in Seq(Message)
      BY <3>1, MessageRemove DEF IInv, TypeOK
    <3>4. JoinOf(cur.e) \in GoodStep
      <4>1. cur.e \in Handle /\ records[cur.e].worker \in Nat
        BY <2>4, BoundAssumption DEF IInv, TypeOK, Record, Slot
      <4> QED BY <4>1 DEF JoinOf, S, GoodStep, PushStep, Step, StepName
    <3>5. Body(<<JoinOf(cur.e)>>)
      BY <3>4, OneStep DEF Body, JoinOf, S, InCallback, NeedsReturn
    <3>6. StackOK(todo', inCallback')
      BY <2>1, <2>2, <3>1, <3>5, Replaced DEF InCallback
    <3>7. TypeOK'
      BY <2>2, <3>2, <3>3, <3>6, StepsGood DEF IInv, TypeOK, StackOK
    <3> QED BY <2>2, <3>2, <3>6, <3>7 DEF IInv
  <2> QED BY <2>3, <2>4
<1>3. CASE Detach \/ Free
  <2>1. StackOK(todo', inCallback')
    BY <1>3, Popped DEF Detach, Free, InCallback
  <2>2. alive' \subseteq Handle /\ paused' \subseteq Handle /\ attached' \in [Handle -> BOOLEAN]
    BY <1>3 DEF Detach, Free, IInv, TypeOK
  <2>3. UNCHANGED <<owned, multi, recordVars, queue, callbackVars, socketVars, worker, rc>>
    BY <1>3 DEF Detach, Free
  <2>4. EasiesUnique' /\ TypeOK'
    BY <2>1, <2>2, <2>3, StepsGood DEF IInv, TypeOK, StackOK, EasiesUnique
  <2> QED BY <2>1, <2>3, <2>4 DEF IInv
<1>4. CASE FreeMulti
  <2>1. StackOK(todo', inCallback')
    BY <1>4, Popped DEF FreeMulti, InCallback
  <2>2. queue' \in Seq(GoodEvent) /\ multi' \in BOOLEAN
    BY <1>4, EmptySeq DEF FreeMulti
  <2>3. UNCHANGED <<handleVars, recordVars, callbackVars, socketVars, worker, rc>>
    BY <1>4 DEF FreeMulti
  <2>4. EasiesUnique' /\ TypeOK'
    BY <2>1, <2>2, <2>3, StepsGood DEF IInv, TypeOK, StackOK, EasiesUnique
  <2> QED BY <2>1, <2>2, <2>3, <2>4 DEF IInv
<1>5. CASE Read
  <2>1. StackOK(todo', inCallback')
    BY <1>5, Popped DEF Read, InCallback
  <2>2. messages' \in Seq(Message)
    BY <1>5, HeadTailProperties DEF Read, IInv, TypeOK
  <2>3. UNCHANGED <<handleVars, multi, easies, records, queue, callbackVars, socketVars, worker, rc>>
    BY <1>5 DEF Read
  <2>4. EasiesUnique' /\ TypeOK'
    BY <2>1, <2>2, <2>3, StepsGood DEF IInv, TypeOK, StackOK, EasiesUnique
  <2> QED BY <2>1, <2>3, <2>4 DEF IInv
<1> QED BY <1>1, <1>2, <1>3, <1>4, <1>5

\* cleanup_handle joins and detaches every handle it lists.
LEMMA ClearInv ==
    ASSUME IInv, Clear
    PROVE  IInv'
<1> USE DEF handleVars, recordVars, callbackVars, socketVars
<1> DEFINE joins == [i \in 1..Len(easies) |-> JoinOf(easies[i])]
           detaches == [i \in 1..Len(easies) |-> S("detach", easies[i], 0)]
<1>1. /\ todo' = joins \o detaches \o rest
      /\ easies' = <<>> /\ records' = NoRecords /\ messages' = <<>>
      /\ assignments' = {}
      /\ UNCHANGED <<handleVars, multi, queue, callbackVars, watched, worker, rc>>
  BY DEF Clear
<1>2. Len(easies) \in Nat /\ DOMAIN easies = 1..Len(easies)
  BY LenProperties DEF IInv, TypeOK
<1>3. ASSUME NEW i \in 1..Len(easies)
      PROVE  JoinOf(easies[i]) \in GoodStep /\ S("detach", easies[i], 0) \in GoodStep
  <2>1. easies[i] \in DOMAIN records /\ easies[i] \in Handle
    BY <1>2, <1>3 DEF IInv, EasiesUnique, TypeOK
  <2>2. records[easies[i]].worker \in Nat
    BY <2>1, BoundAssumption DEF IInv, TypeOK, Record, Slot
  <2> QED BY <2>1, <2>2 DEF JoinOf, S, GoodStep, PushStep, Step, StepName
<1>4. Body(joins)
  <2>1. joins \in Seq(GoodStep)
    BY <1>2, <1>3
  <2>2. DOMAIN joins = 1..Len(easies) /\ \A i \in 1..Len(easies) : joins[i].do = "join"
    BY DEF JoinOf, S
  <2> QED BY <2>1, <2>2 DEF Body, Frames, NoCallback, InCallback, NeedsReturn
<1>5. Body(detaches)
  <2>1. detaches \in Seq(GoodStep)
    BY <1>2, <1>3
  <2>2. DOMAIN detaches = 1..Len(easies) /\ \A i \in 1..Len(easies) : detaches[i].do = "detach"
    BY DEF S
  <2> QED BY <2>1, <2>2 DEF Body, Frames, NoCallback, InCallback, NeedsReturn
<1> HIDE DEF joins, detaches
<1>6. Body(joins \o detaches)
  BY <1>4, <1>5, FramesConcat, CallbackConcat DEF Body
<1>7. StackOK(todo', inCallback')
  BY <1>1, <1>6, Replaced DEF Clear, InCallback
<1>8. EasiesUnique' /\ DOMAIN records' \subseteq Handle /\ records' \in [DOMAIN records' -> Record]
  BY <1>1 DEF EasiesUnique, NoRecords
<1>9. easies' \in Seq(Handle) /\ messages' \in Seq(Message) /\ assignments' \subseteq Socket
  BY <1>1, EmptySeq
<1>10. TypeOK'
  BY <1>1, <1>7, <1>8, <1>9, StepsGood DEF IInv, TypeOK, StackOK
<1> QED BY <1>1, <1>7, <1>8, <1>10 DEF IInv

-----------------------------------------------------------------------------
(* Steps that start transfers.                                               *)

LEMMA StartInv ==
    ASSUME IInv, Start
    PROVE  IInv'
<1> USE DEF handleVars, recordVars, callbackVars, socketVars
<1>1. /\ records' = [e \in DOMAIN records |->
                      IF e \in Unstarted THEN [records[e] EXCEPT !.started = TRUE]
                      ELSE records[e]]
      /\ UNCHANGED <<handleVars, multi, easies, messages, queue, callbackVars,
                     socketVars, worker, rc>>
  BY DEF Start
<1>2. PICK order \in Orders(Unstarted) :
          todo' = [i \in DOMAIN order |-> S("spawn", order[i], 0)]
                  \o <<Do("timer"), Do("timer_again")>> \o rest
  BY DEF Start
<1> DEFINE spawns == [i \in DOMAIN order |-> S("spawn", order[i], 0)]
           timers == <<Do("timer"), Do("timer_again")>>
<1>3. DOMAIN records' = DOMAIN records /\ records' \in [DOMAIN records' -> Record]
  <2>1. records \in [DOMAIN records -> Record]
    BY DEF IInv, TypeOK
  <2>2. DOMAIN records' = DOMAIN records
    BY <1>1
  <2>3. ASSUME NEW e \in DOMAIN records
        PROVE  [records[e] EXCEPT !.started = TRUE] \in Record
    BY <2>1 DEF Record
  <2>4. \A e \in DOMAIN records : records'[e] \in Record
    BY <1>1, <2>1, <2>3
  <2>5. records' = [e \in DOMAIN records' |-> records'[e]]
    BY <1>1
  <2> QED BY <2>2, <2>4, <2>5
<1>4. Cardinality(Unstarted) \in Nat
  <2>1. Unstarted \subseteq Handle
    BY DEF Unstarted, IInv, TypeOK
  <2> QED BY <2>1, HandleAssumption, FS_Subset, FS_CardinalityType
<1>5. DOMAIN order = 1..Cardinality(Unstarted)
      /\ \A i \in 1..Cardinality(Unstarted) : order[i] \in Handle
  BY <1>2 DEF Orders, Unstarted, IInv, TypeOK
<1>6. spawns \in Seq(GoodStep) /\ \A i \in DOMAIN spawns : spawns[i].do \notin Lasting
  <2>1. \A i \in 1..Cardinality(Unstarted) : S("spawn", order[i], 0) \in GoodStep
    BY <1>5 DEF S, GoodStep, PushStep, Step, StepName
  <2>2. spawns \in Seq(GoodStep)
    BY <1>4, <1>5, <2>1
  <2> QED BY <2>2 DEF S, Lasting, InCallback
<1>7. timers \in Seq(GoodStep) /\ \A i \in DOMAIN timers : timers[i].do \notin Lasting
  BY DEF S, Do, GoodStep, PushStep, Step, StepName, Lasting, InCallback
<1> HIDE DEF spawns, timers
<1>8. /\ spawns \o timers \in Seq(GoodStep)
      /\ \A i \in DOMAIN (spawns \o timers) : (spawns \o timers)[i].do \notin Lasting
  <2>1. Range(spawns \o timers) = Range(spawns) \cup Range(timers)
    BY <1>6, <1>7, RangeConcatenation
  <2> QED BY <1>6, <1>7, <2>1, ConcatProperties DEF Range
<1>9. StackOK(rest, inCallback) /\ HasReturn(rest)
  BY TopStep DEF Start, At, InCallback, NeedsReturn
<1>10. StackOK(todo', inCallback')
  BY <1>1, <1>2, <1>8, <1>9, OnTopInCall DEF IInv, TypeOK, spawns, timers
<1>11. EasiesUnique'
  BY <1>1, <1>3 DEF IInv, EasiesUnique
<1>12. TypeOK'
  BY <1>1, <1>3, <1>10, StepsGood DEF IInv, TypeOK, StackOK
<1> QED BY <1>1, <1>10, <1>11, <1>12 DEF IInv

LEMMA SpawnInv ==
    ASSUME IInv, Spawn
    PROVE  IInv'
<1> USE DEF handleVars, recordVars, callbackVars, socketVars
<1> DEFINE next == IF cur.do = "spawn" THEN "launch" ELSE "push_launch"
           free == Socket \ OpenSockets
           fd == Least(free)
<1>1. /\ cur \in GoodStep /\ cur.do \in {"spawn", "push_spawn"}
      /\ StackOK(rest, inCallback)
      /\ next = "launch" => HasReturn(rest)
  BY TopStep DEF Spawn, At, InCallback, NeedsReturn
<1>2. free # {} => fd \in Socket
  <2>1. free \subseteq Nat
    BY BoundAssumption DEF Socket
  <2> QED BY <2>1, LeastInSet
<1>3. UNCHANGED <<handleVars, multi, recordVars, queue, dead, cbs, told, assignments, worker>>
  BY DEF Spawn
<1>4. \/ \E n \in Socket \cup {0} :
            /\ todo' = <<S(next, cur.e, n)>> \o rest /\ rc' \in Code
            /\ UNCHANGED <<inCallback, watched>>
      \/ /\ ~inCallback /\ inCallback' = TRUE /\ rc' = rc
         /\ watched' \subseteq Socket
         /\ todo' = <<S("poll_in_cb", cur.e, fd), S(next, cur.e, fd)>> \o rest
         /\ fd \in Socket
  BY <1>2 DEF Spawn, Code, MayCallBack, IInv, TypeOK
<1> HIDE DEF free, fd
<1>5. ASSUME NEW n \in Socket \cup {0}
      PROVE  S(next, cur.e, n) \in GoodStep /\ S(next, cur.e, n).do \notin InCallback
  <2>1. n \in Nat
    BY BoundAssumption DEF Socket
  <2> QED BY <1>1, <2>1 DEF S, GoodStep, PushStep, Step, StepName, InCallback
<1>6. ASSUME NEW n \in Socket \cup {0}
      PROVE  StackOK(<<S(next, cur.e, n)>> \o rest, inCallback)
  <2> DEFINE c == S(next, cur.e, n)
  <2>1. <<c>> \in Seq(GoodStep) /\ NoCallback(<<c>>)
    BY <1>5, OneStep
  <2>2. CASE next = "launch"
    <3>1. c.do \notin Lasting
      BY <2>2 DEF S, Lasting, InCallback
    <3>2. \A i \in DOMAIN <<c>> : <<c>>[i].do \notin Lasting
      BY <3>1
    <3> QED BY <1>1, <2>1, <2>2, <3>2, OnTopInCall DEF IInv, TypeOK
  <2>3. CASE next # "launch"
    <3>1. c.do \notin NeedsReturn
      BY <2>3 DEF S, NeedsReturn
    <3>2. Body(<<c>>)
      BY <1>5, <2>1, <3>1, OneStep DEF Body
    <3> QED BY <1>1, <3>2, OnTop DEF IInv, TypeOK
  <2> QED BY <2>2, <2>3
<1>7. StackOK(todo', inCallback') /\ rc' \in Code /\ watched' \subseteq Socket
      /\ inCallback' \in BOOLEAN
  <2>1. CASE \E n \in Socket \cup {0} :
               /\ todo' = <<S(next, cur.e, n)>> \o rest /\ rc' \in Code
               /\ UNCHANGED <<inCallback, watched>>
    BY <1>6, <2>1 DEF IInv, TypeOK
  <2>2. CASE /\ ~inCallback /\ inCallback' = TRUE /\ rc' = rc
             /\ watched' \subseteq Socket
             /\ todo' = <<S("poll_in_cb", cur.e, fd), S(next, cur.e, fd)>> \o rest
             /\ fd \in Socket
    <3> DEFINE c == S("poll_in_cb", cur.e, fd)
               l == S(next, cur.e, fd)
    <3>1. inCallback = FALSE
      BY <2>2 DEF IInv, TypeOK
    <3>2. c \in GoodStep /\ c.do \in InCallback
      <4>1. fd \in Nat
        BY <2>2, BoundAssumption DEF Socket
      <4> QED BY <1>1, <4>1 DEF S, GoodStep, PushStep, Step, StepName, InCallback
    <3>3. l \in GoodStep
      BY <1>5, <2>2
    <3>4. StackOK(<<l>> \o rest, FALSE)
      BY <1>6, <2>2, <3>1
    <3>5. StackOK(<<c>> \o (<<l>> \o rest), TRUE)
      BY <3>2, <3>4, OnTopCallback
    <3>6. <<c, l>> \o rest = <<c>> \o (<<l>> \o rest)
      <4> HIDE DEF c, l
      <4> QED BY <1>1, <3>2, <3>3, FirstOfTwo DEF StackOK
    <3>7. rc' \in Code
      BY <2>2 DEF IInv, TypeOK
    <3> QED BY <2>2, <3>5, <3>6, <3>7
  <2> QED BY <1>4, <2>1, <2>2
<1>8. EasiesUnique' /\ TypeOK'
  BY <1>3, <1>7, StepsGood DEF IInv, TypeOK, StackOK, EasiesUnique
<1> QED BY <1>3, <1>7, <1>8 DEF IInv

LEMMA StartWorkerInv ==
    ASSUME IInv, NEW e \in Handle, NEW fd \in Socket \cup {0}, StartWorker(e, fd)
    PROVE  /\ worker' \in [Slot -> [e : Handle \cup {NoHandle}, phase : Phase]]
           /\ \A w \in Slot : worker'[w].phase # "none" => worker'[w].e \in Handle
           /\ DOMAIN records' = DOMAIN records
           /\ records' \in [DOMAIN records' -> Record]
<1> DEFINE w == Least(FreeSlots)
<1>1. w \in Slot
  <2>1. FreeSlots \subseteq Slot /\ Slot \subseteq Nat /\ FreeSlots # {}
    BY BoundAssumption DEF FreeSlots, Slot, StartWorker
  <2>2. FreeSlots \subseteq Nat
    BY <2>1
  <2> QED BY <2>1, <2>2, LeastInSet
<1>2. /\ worker' = [worker EXCEPT ![w] = [e |-> e, phase |-> "spawned"]]
      /\ records' = IF e \in DOMAIN records
                    THEN [records EXCEPT ![e].worker = w, ![e].socket = fd]
                    ELSE records
  BY DEF StartWorker
<1> HIDE DEF w
<1>3. /\ worker' \in [Slot -> [e : Handle \cup {NoHandle}, phase : Phase]]
      /\ \A x \in Slot : worker'[x].phase # "none" => worker'[x].e \in Handle
  BY <1>1, <1>2 DEF IInv, TypeOK, Phase
<1>4. records \in [DOMAIN records -> Record]
  BY DEF IInv, TypeOK
<1>5. DOMAIN records' = DOMAIN records
  BY <1>2, <1>4
<1>6. ASSUME NEW x \in DOMAIN records PROVE records'[x] \in Record
  <2>1. CASE x = e
    BY <1>1, <1>2, <1>4, <2>1 DEF Record
  <2>2. CASE x # e
    BY <1>2, <1>4, <2>2
  <2> QED BY <2>1, <2>2
<1>7. records' \in [DOMAIN records' -> Record]
  BY <1>2, <1>4, <1>5, <1>6
<1> QED BY <1>3, <1>5, <1>7

LEMMA LaunchInv ==
    ASSUME IInv, Launch
    PROVE  IInv'
<1> USE DEF handleVars, recordVars, callbackVars, socketVars
<1>1. /\ cur.e \in Handle /\ cur.n \in Socket \cup {0}
      /\ StackOK(rest, inCallback) /\ HasReturn(rest)
  BY TopStep DEF Launch, At, InCallback, NeedsReturn, GoodStep, Step
<1>2. UNCHANGED <<handleVars, multi, easies, messages, queue, callbackVars, socketVars, rc>>
  BY DEF Launch
<1>3. CASE rc = "ok"
  <2>1. StartWorker(cur.e, cur.n) /\ todo' = rest
    BY <1>3 DEF Launch
  <2>2. /\ worker' \in [Slot -> [e : Handle \cup {NoHandle}, phase : Phase]]
        /\ \A w \in Slot : worker'[w].phase # "none" => worker'[w].e \in Handle
        /\ DOMAIN records' = DOMAIN records
        /\ records' \in [DOMAIN records' -> Record]
    BY <1>1, <2>1, StartWorkerInv
  <2>3. StackOK(todo', inCallback')
    BY <1>1, <1>2, <2>1
  <2>4. EasiesUnique' /\ TypeOK'
    BY <1>2, <2>2, <2>3, StepsGood DEF IInv, TypeOK, StackOK, EasiesUnique
  <2> QED BY <1>2, <2>2, <2>3, <2>4 DEF IInv
<1>4. CASE rc # "ok"
  <2>1. todo' = AfterReturn(rest) /\ UNCHANGED <<records, worker>>
    BY <1>4 DEF Launch
  <2>2. StackOK(todo', inCallback')
    BY <1>1, <1>2, <2>1, AfterReturnStack DEF IInv, TypeOK
  <2> QED BY <1>2, <2>1, <2>2, OnlyStack DEF IInv
<1> QED BY <1>3, <1>4

LEMMA PushInv ==
    ASSUME IInv, Push
    PROVE  IInv'
<1> USE DEF handleVars, recordVars, callbackVars, socketVars
<1>1. cur \in GoodStep /\ StackOK(rest, inCallback) /\ At("push")
  BY TopStep DEF Push, At, InCallback
<1>2. UNCHANGED <<owned, attached, paused, multi, recordVars, queue, dead, cbs,
                  told, socketVars, worker, rc>>
  BY DEF Push
<1>3. CASE todo' = rest /\ UNCHANGED <<alive, inCallback>>
  BY <1>1, <1>2, <1>3, OnlyStack DEF IInv
<1>4. ASSUME ~inCallback, cur.n > 0, NEW h \in Handle \ alive,
             alive' = alive \cup {h}, inCallback' = TRUE,
             todo' = <<S("push_cb", h, 0), S("accept", h, 0),
                       S("push", cur.e, cur.n - 1)>> \o rest
      PROVE  IInv'
  <2> DEFINE ask == S("push_cb", h, 0)
             answer == S("accept", h, 0)
             more == S("push", cur.e, cur.n - 1)
  <2>1. /\ ask \in GoodStep /\ ask.do \in InCallback
        /\ answer \in GoodStep /\ more \in GoodStep
    <3>1. "push" \in Callbacks
      BY <1>1 DEF At, GoodStep, PushStep
    <3> QED BY <1>1, <1>4, <3>1 DEF S, GoodStep, PushStep, Step, StepName, InCallback
  <2>2. Body(<<answer, more>>)
    <3>1. <<answer, more>> \in Seq(GoodStep)
      BY <2>1
    <3> QED BY <3>1 DEF Body, S, InCallback, NeedsReturn, Frames, NoCallback
  <2>3. StackOK(<<answer, more>> \o rest, FALSE)
    BY <1>1, <1>4, <2>2, OnTop DEF IInv, TypeOK
  <2>4. StackOK(<<ask>> \o (<<answer, more>> \o rest), TRUE)
    BY <2>1, <2>3, OnTopCallback
  <2>5. <<ask, answer, more>> \o rest = <<ask>> \o (<<answer, more>> \o rest)
    <3>1. rest \in Seq(GoodStep)
      BY <1>1 DEF StackOK
    <3> HIDE DEF ask, answer, more
    <3>2. ask \in GoodStep /\ answer \in GoodStep /\ more \in GoodStep
      BY <2>1
    <3> QED BY <3>1, <3>2, FirstOfThree, SMTT(30)
  <2>6. StackOK(todo', inCallback')
    BY <1>4, <2>4, <2>5
  <2>7. EasiesUnique' /\ TypeOK'
    BY <1>2, <1>4, <2>6, StepsGood DEF IInv, TypeOK, StackOK, EasiesUnique
  <2> QED BY <1>2, <2>6, <2>7 DEF IInv
<1> QED BY <1>3, <1>4 DEF Push

LEMMA AcceptInv ==
    ASSUME IInv, Accept
    PROVE  IInv'
<1> USE DEF handleVars, recordVars, callbackVars, socketVars
<1>1. /\ cur \in GoodStep /\ cur.e \in Handle /\ At("accept")
  BY TopStep DEF Accept, At, GoodStep
<1>2. UNCHANGED <<alive, owned, paused, multi, messages, queue, callbackVars,
                  socketVars, worker, rc>>
  BY DEF Accept
<1>3. CASE rc = "ok"
  <2>1. Insert(cur.e, TRUE) /\ todo' = <<S("push_spawn", cur.e, 0)>> \o rest
    BY <1>3 DEF Accept
  <2>2. /\ EasiesUnique' /\ easies' \in Seq(Handle)
        /\ DOMAIN records' \subseteq Handle /\ records' \in [DOMAIN records' -> Record]
        /\ attached' \in [Handle -> BOOLEAN]
    BY <1>1, <2>1, InsertInv
  <2>3. Body(<<S("push_spawn", cur.e, 0)>>)
    <3>1. S("push_spawn", cur.e, 0) \in GoodStep
      BY <1>1 DEF S, At, GoodStep, PushStep, Step, StepName
    <3> QED BY <3>1, OneStep DEF Body, S, InCallback, NeedsReturn
  <2>4. StackOK(todo', inCallback')
    BY <1>1, <1>2, <2>1, <2>3, Replaced DEF InCallback
  <2>5. TypeOK'
    BY <1>2, <2>2, <2>4, StepsGood DEF IInv, TypeOK, StackOK
  <2> QED BY <1>2, <2>2, <2>4, <2>5 DEF IInv
<1>4. CASE rc # "ok"
  <2>1. todo' = EasyCleanupCall(cur.e) \o rest /\ UNCHANGED <<easies, records, attached>>
    BY <1>4 DEF Accept
  <2>2. StackOK(todo', inCallback')
    BY <1>1, <1>2, <2>1, CallBodies, Replaced DEF InCallback
  <2> QED BY <1>2, <2>1, <2>2, OnlyStack DEF IInv
<1> QED BY <1>3, <1>4

LEMMA PushLaunchInv ==
    ASSUME IInv, PushLaunch
    PROVE  IInv'
<1> USE DEF handleVars, recordVars, callbackVars, socketVars
<1>1. /\ cur.e \in Handle /\ cur.n \in Socket \cup {0} /\ At("push_launch")
  BY TopStep DEF PushLaunch, At, GoodStep
<1>2. UNCHANGED <<alive, attached, paused, multi, messages, queue, callbackVars, socketVars, rc>>
      /\ owned' \subseteq Handle
  BY DEF PushLaunch, IInv, TypeOK
<1>3. CASE rc = "ok"
  <2>1. StartWorker(cur.e, cur.n) /\ todo' = <<Do("timer")>> \o rest /\ UNCHANGED easies
    BY <1>3 DEF PushLaunch
  <2>2. /\ worker' \in [Slot -> [e : Handle \cup {NoHandle}, phase : Phase]]
        /\ \A w \in Slot : worker'[w].phase # "none" => worker'[w].e \in Handle
        /\ DOMAIN records' = DOMAIN records
        /\ records' \in [DOMAIN records' -> Record]
    BY <1>1, <2>1, StartWorkerInv
  <2>3. Body(<<Do("timer")>>)
    BY DEF Body, Do, S, GoodStep, PushStep, Step, StepName, InCallback, NeedsReturn,
       Frames, NoCallback
  <2>4. StackOK(todo', inCallback')
    BY <1>1, <1>2, <2>1, <2>3, Replaced DEF InCallback
  <2>5. EasiesUnique' /\ TypeOK'
    BY <1>2, <2>1, <2>2, <2>4, StepsGood DEF IInv, TypeOK, StackOK, EasiesUnique
  <2> QED BY <1>2, <2>2, <2>4, <2>5 DEF IInv
<1>4. CASE rc # "ok"
  <2>1. Erase(cur.e) /\ todo' = EasyCleanupCall(cur.e) \o rest /\ UNCHANGED worker
    BY <1>4 DEF PushLaunch
  <2>2. /\ EasiesUnique' /\ easies' \in Seq(Handle)
        /\ DOMAIN records' \subseteq Handle /\ records' \in [DOMAIN records' -> Record]
    BY <2>1, EraseInv
  <2>3. StackOK(todo', inCallback')
    BY <1>1, <1>2, <2>1, CallBodies, Replaced DEF InCallback
  <2>4. TypeOK'
    BY <1>2, <2>1, <2>2, <2>3, StepsGood DEF IInv, TypeOK, StackOK
  <2> QED BY <1>2, <2>1, <2>2, <2>3, <2>4 DEF IInv
<1> QED BY <1>3, <1>4

-----------------------------------------------------------------------------
(* Steps of the workers.                                                     *)

LEMMA WorkerInv ==
    ASSUME IInv, NEW w \in Slot, WorkerStep(w)
    PROVE  IInv'
<1> USE DEF handleVars, recordVars, callbackVars, socketVars
<1>1. worker \in [Slot -> [e : Handle \cup {NoHandle}, phase : Phase]] /\ w \in Nat
  BY BoundAssumption DEF IInv, TypeOK, Slot
<1>2. ASSUME NEW from \in Active, NEW to \in Phase, WorkerGoes(w, from, to)
      PROVE  /\ worker' \in [Slot -> [e : Handle \cup {NoHandle}, phase : Phase]]
             /\ \A x \in Slot : worker'[x].phase # "none" => worker'[x].e \in Handle
             /\ worker[w].e \in Handle
  BY <1>1, <1>2 DEF WorkerGoes, Active, IInv
<1>3. ASSUME worker' \in [Slot -> [e : Handle \cup {NoHandle}, phase : Phase]],
             \A x \in Slot : worker'[x].phase # "none" => worker'[x].e \in Handle,
             paused' \subseteq Handle, queue' \in Seq(GoodEvent),
             UNCHANGED <<alive, owned, attached, multi, recordVars, callbackVars,
                         socketVars, todo, rc>>
      PROVE  IInv'
  BY <1>3, StepsGood DEF IInv, TypeOK, EasiesUnique
<1>4. CASE WorkerStart(w)
  <2>1. "running" \in Phase /\ {"spawned", "waiting", "running"} \subseteq Active /\ paused' \subseteq Handle
    BY <1>4 DEF Phase, Active, WorkerStart, IInv, TypeOK
  <2> QED BY <1>2, <1>3, <1>4, <2>1 DEF WorkerStart, IInv
<1>5. CASE WorkerWait(w)
  <2>2. "waiting" \in Phase /\ "running" \in Active
    BY DEF Phase, Active
  <2>1. worker[w].e \in Handle
    BY <1>2, <1>5, <2>2 DEF WorkerWait
  <2>3. paused' \subseteq Handle
    BY <1>5, <2>1 DEF WorkerWait, IInv, TypeOK
  <2> QED BY <1>2, <1>3, <1>5, <2>2, <2>3 DEF WorkerWait, IInv
<1>6. CASE WorkerResume(w)
  <2>1. "running" \in Phase /\ {"spawned", "waiting", "running"} \subseteq Active
    BY DEF Phase, Active
  <2> QED BY <1>2, <1>3, <1>6, <2>1 DEF WorkerResume, IInv, TypeOK
<1>7. CASE WorkerOffer(w)
  <2>1. PICK n \in 1..MaxPushes : queue' = Append(queue, S("pushes", worker[w].e, n))
    BY <1>7 DEF WorkerOffer
  <2>2. S("pushes", worker[w].e, n) \in GoodEvent
    <3>1. n \in Nat /\ worker[w].e \in Handle \cup {NoHandle}
      BY <1>1, BoundAssumption
    <3> QED BY <3>1 DEF S, GoodEvent, GoodStep, PushStep, Step, StepName, Event
  <2>3. queue' \in Seq(GoodEvent)
    BY <2>1, <2>2, EventSent
  <2> QED BY <1>3, <1>7, <2>3 DEF WorkerOffer, IInv, TypeOK
<1>8. ASSUME NEW result \in {"ok", "failed"}, WorkerEnd(w, result)
      PROVE  IInv'
  <2>1. S("completed", worker[w].e, w) \in GoodEvent
    BY <1>1 DEF S, GoodEvent, GoodStep, PushStep, Step, StepName, Event
  <2>2. queue' \in Seq(GoodEvent)
    BY <1>8, <2>1, EventSent DEF WorkerEnd, IInv
  <2>3. result \in Phase /\ "running" \in Active
    BY DEF Phase, Active
  <2> QED BY <1>2, <1>3, <1>8, <2>2, <2>3 DEF WorkerEnd, IInv, TypeOK
<1> QED BY <1>4, <1>5, <1>6, <1>7, <1>8 DEF WorkerStep

-----------------------------------------------------------------------------
(* The theorems.                                                             *)

LEMMA StepInv ==
    ASSUME IInv, [Next]_vars
    PROVE  IInv'
<1>1. CASE UNCHANGED vars
  BY <1>1 DEF vars, handleVars, recordVars, callbackVars, socketVars, IInv, TypeOK, EasiesUnique
<1>2. CASE AppCall
  BY <1>2, AppCallInv
<1>3. CASE LibraryStep
  BY <1>3, EventSteps, CompletedInv, CallbackStepsInv, HandleStepsInv, ClearInv, StartInv,
     SpawnInv, LaunchInv, PushInv, AcceptInv, PushLaunchInv DEF LibraryStep
<1>4. CASE AppReturn
  BY <1>4, CallbackStepsInv DEF AppReturn
<1>5. ASSUME NEW w \in Slot, WorkerStep(w) PROVE IInv'
  BY <1>5, WorkerInv
<1> QED BY <1>1, <1>2, <1>3, <1>4, <1>5 DEF Next

LEMMA Invariant == Spec => []IInv
BY InitInv, StepInv, PTL DEF Spec

\* Every variable keeps its type.  (Notably: the early returns find the return
\* they jump to, poll sockets and worker ids are real ones.)
THEOREM TypeCorrect == Spec => []TypeOK
<1>1. IInv => TypeOK
  BY DEF IInv
<1> QED BY <1>1, Invariant, PTL

\* The handles curl_multi_get_handles lists are those with a record, each once,
\* whatever the callbacks do and however calls nest.
THEOREM EasiesAreRecords == Spec => []EasiesUnique
<1>1. IInv => EasiesUnique
  BY DEF IInv
<1> QED BY <1>1, Invariant, PTL

\* in_callback is set exactly while a callback is in progress, and no callback
\* is entered from inside another one.
THEOREM CallbacksExclusive == Spec => []CallbackExclusive
<1>1. IInv => CallbackExclusive
  BY DEF IInv, TypeOK, StackOK, OneCallback, NoCallback, CallbackExclusive
<1> QED BY <1>1, Invariant, PTL

-----------------------------------------------------------------------------
(* The contract of the multi interface, MultiContract, and the queue of       *)
(* finished transfers, whenever the application accepts no HTTP/2 pushes.     *)
(* Without pushes every handle enters the multi handle through add_handle,    *)
(* which refuses one that has a record; with them schedule_http2_pushes        *)
(* inserts a record of its own, erases it again when the worker does not      *)
(* start, and leaves the queued messages alone.                               *)

\* Without pushes their steps are never on top of the stack.
LEMMA NoPushStep ==
    ASSUME "push" \notin Callbacks, IInv
    PROVE  /\ ~Push /\ ~Accept /\ ~PushLaunch
           /\ \A d \in PushStep : ~At(d)
<1>1. \A d \in PushStep : ~At(d)
  BY TopStep DEF At, GoodStep
<1> QED BY <1>1 DEF PushStep, Push, Accept, PushLaunch

-----------------------------------------------------------------------------
(* Queued messages.                                                          *)

Finished == {e \in DOMAIN records : records[e].completed}

LEMMA MessagesDef == MessagesUnique <=> OneEach(messages, Finished)
BY DEF MessagesUnique, OneEach, Finished

\* Records keep what the messages depend on.
SameResults ==
    /\ DOMAIN records' = DOMAIN records
    /\ \A e \in DOMAIN records : records'[e].completed = records[e].completed
    /\ UNCHANGED messages

LEMMA StartSame ==
    ASSUME IInv, Start
    PROVE  SameResults
<1>1. records' = [e \in DOMAIN records |->
                     IF e \in Unstarted THEN [records[e] EXCEPT !.started = TRUE]
                     ELSE records[e]]
      /\ UNCHANGED messages
  BY DEF Start
<1>2. records \in [DOMAIN records -> Record]
  BY DEF IInv, TypeOK
<1> QED BY <1>1, <1>2 DEF SameResults, Record

LEMMA LaunchSame ==
    ASSUME IInv, Launch
    PROVE  SameResults
<1>1. UNCHANGED messages
  BY DEF Launch
<1>2. records \in [DOMAIN records -> Record]
  BY DEF IInv, TypeOK
<1>3. CASE UNCHANGED records
  BY <1>1, <1>3 DEF SameResults
<1>4. CASE StartWorker(cur.e, cur.n)
  <2>1. PICK w : records' = IF cur.e \in DOMAIN records
                            THEN [records EXCEPT ![cur.e].worker = w, ![cur.e].socket = cur.n]
                            ELSE records
    BY <1>4 DEF StartWorker
  <2>2. DOMAIN records' = DOMAIN records
    BY <1>2, <2>1
  <2>3. ASSUME NEW e \in DOMAIN records PROVE records'[e].completed = records[e].completed
    <3>1. CASE e = cur.e
      BY <1>2, <2>1, <3>1 DEF Record
    <3>2. CASE e # cur.e
      BY <1>2, <2>1, <3>2
    <3> QED BY <3>1, <3>2
  <2> QED BY <1>1, <2>2, <2>3 DEF SameResults
<1> QED BY <1>3, <1>4 DEF Launch

\* The steps that leave records and messages alone.
LEMMA OtherSame ==
    ASSUME IInv, [Next]_vars, "push" \notin Callbacks
    PROVE  \/ SameResults
           \/ MultiInit \/ Completed \/ Link \/ Unlink \/ Clear \/ Read
<1> USE DEF recordVars, SameResults
<1>1. CASE UNCHANGED vars
  BY <1>1 DEF vars
<1>2. CASE AppCall
  BY <1>2 DEF AppCall, Perform, Poll, InfoRead, Fdset, MultiCleanup, Wakeup, SetFunction,
     EasyInit, EasyCleanup, EasyPause, AddHandle, RemoveHandle, Assign, Call
<1>3. CASE Drain \/ Wait \/ Woken \/ Join \/ Timer \/ TimerAgain \/ PollRemove
  BY <1>3 DEF Drain, Wait, Woken, Join, Timer, TimerAgain, PollRemove
<1>4. CASE Detach \/ Free \/ FreeMulti \/ Return \/ Spawn \/ Pushes
  BY <1>4 DEF Detach, Free, FreeMulti, Return, Spawn, Pushes
<1>5. CASE Start \/ Launch
  BY <1>5, StartSame, LaunchSame
<1>6. CASE AppReturn
  BY <1>6 DEF AppReturn, CallbackReturn
<1>7. ASSUME NEW w \in Slot, WorkerStep(w) PROVE SameResults
  BY <1>7 DEF WorkerStep, WorkerStart, WorkerWait, WorkerResume, WorkerOffer, WorkerEnd
<1> QED BY <1>1, <1>2, <1>3, <1>4, <1>5, <1>6, <1>7, NoPushStep DEF Next, LibraryStep

\* A message for a handle that has none yet.
LEMMA MessageAppend ==
    ASSUME NEW s \in Seq(Message), NEW D, OneEach(s, D), NEW m \in Message, m.e \notin D
    PROVE  /\ OneEach(Append(s, m), D \cup {m.e})
           /\ \A x : (\E i \in DOMAIN Append(s, m) : Append(s, m)[i].e = x)
                      <=> x = m.e \/ \E i \in DOMAIN s : s[i].e = x
<1> DEFINE t == Append(s, m)
           n == Len(s)
<1>1. /\ n \in Nat /\ DOMAIN s = 1..n /\ DOMAIN t = 1..(n + 1)
      /\ \A i \in 1..n : t[i] = s[i]
      /\ t[n + 1] = m
  BY AppendProperties, LenProperties
<1> HIDE DEF t, n
<1>2. \A i \in 1..n : s[i].e \in D /\ s[i].e # m.e
  BY <1>1 DEF OneEach
<1>3. ASSUME NEW i \in 1..(n + 1) PROVE t[i].e \in D \cup {m.e}
  BY <1>1, <1>2
<1>4. ASSUME NEW i \in 1..(n + 1), NEW j \in 1..(n + 1), t[i].e = t[j].e PROVE i = j
  <2>1. CASE i \in 1..n /\ j \in 1..n
    BY <1>1, <1>4, <2>1 DEF OneEach
  <2>2. CASE ~(i \in 1..n /\ j \in 1..n)
    BY <1>1, <1>2, <1>4, <2>2
  <2> QED BY <2>1, <2>2
<1>5. ASSUME NEW x
      PROVE  (\E i \in 1..(n + 1) : t[i].e = x) <=> x = m.e \/ \E i \in 1..n : s[i].e = x
  <2>1. n + 1 \in 1..(n + 1) /\ \A i \in 1..n : i \in 1..(n + 1)
    BY <1>1
  <2>2. \A i \in 1..(n + 1) : i \in 1..n \/ i = n + 1
    BY <1>1
  <2> QED BY <1>1, <2>1, <2>2
<1>6. OneEach(t, D \cup {m.e})
  BY <1>1, <1>3, <1>4 DEF OneEach
<1> QED BY <1>1, <1>5, <1>6 DEF t

\* Reading takes the message of one handle away.
LEMMA MessageTail ==
    ASSUME NEW s \in Seq(Message), NEW D, OneEach(s, D), s # <<>>
    PROVE  /\ OneEach(Tail(s), D)
           /\ Head(s).e \in D
           /\ \A x : (\E i \in DOMAIN Tail(s) : Tail(s)[i].e = x)
                      <=> x # Head(s).e /\ \E i \in DOMAIN s : s[i].e = x
<1> DEFINE t == Tail(s)
           n == Len(s)
<1>1. /\ n \in Nat /\ n > 0 /\ DOMAIN s = 1..n /\ DOMAIN t = 1..(n - 1)
      /\ \A i \in 1..(n - 1) : t[i] = s[i + 1]
      /\ Head(s) = s[1]
  BY HeadTailProperties, LenProperties, EmptySeq
<1> HIDE DEF t, n
<1>2. \A i \in 1..n : s[i].e \in D /\ (s[i].e = Head(s).e => i = 1)
  BY <1>1, SMTT(30) DEF OneEach
<1>3. ASSUME NEW i \in 1..(n - 1) PROVE i + 1 \in 1..n /\ t[i].e \in D /\ t[i].e # Head(s).e
  <2>1. i + 1 \in 1..n /\ t[i] = s[i + 1] /\ i + 1 # 1
    BY <1>1
  <2> QED BY <1>2, <2>1
<1>4. ASSUME NEW i \in 1..(n - 1), NEW j \in 1..(n - 1), t[i].e = t[j].e PROVE i = j
  <2>1. s[i + 1].e = s[j + 1].e /\ i + 1 \in 1..n /\ j + 1 \in 1..n
    BY <1>1, <1>3, <1>4
  <2>2. i + 1 = j + 1
    BY <1>1, <2>1 DEF OneEach
  <2> QED BY <2>2
<1>5. ASSUME NEW x
      PROVE  (\E i \in 1..(n - 1) : t[i].e = x)
             <=> x # Head(s).e /\ \E i \in 1..n : s[i].e = x
  <2>1. ASSUME NEW i \in 1..(n - 1), t[i].e = x
        PROVE  x # Head(s).e /\ \E k \in 1..n : s[k].e = x
    BY <1>1, <1>3, <2>1
  <2>2. ASSUME NEW k \in 1..n, s[k].e = x, x # Head(s).e
        PROVE  \E i \in 1..(n - 1) : t[i].e = x
    <3>1. k # 1
      BY <1>1, <2>2
    <3>2. k - 1 \in 1..(n - 1) /\ (k - 1) + 1 = k
      BY <1>1, <3>1
    <3>3. t[k - 1] = s[k]
      BY <1>1, <3>2
    <3> QED BY <2>2, <3>2, <3>3
  <2> QED BY <2>1, <2>2
<1>6. OneEach(t, D)
  BY <1>1, <1>3, <1>4 DEF OneEach
<1>7. Head(s).e \in D
  BY <1>1, <1>2
<1> QED BY <1>1, <1>5, <1>6, <1>7 DEF t

-----------------------------------------------------------------------------
(* What a step does to the status of the handles.                            *)

Told(e) == \E i \in DOMAIN messages : messages[i].e = e

\* Records and messages change together, and in one of these ways only.
Change ==
    \/ SameResults
    \/ /\ messages' = <<>> /\ records' = NoRecords
    \/ /\ messages # <<>> /\ messages' = Tail(messages) /\ UNCHANGED records
    \/ \E e \in Handle :
          \/ /\ e \notin DOMAIN records
             /\ DOMAIN records' = DOMAIN records \cup {e}
             /\ ~records'[e].completed
             /\ \A x \in DOMAIN records : records'[x] = records[x]
             /\ UNCHANGED messages
          \/ /\ e \in DOMAIN records
             /\ DOMAIN records' = DOMAIN records \ {e}
             /\ \A x \in DOMAIN records' : records'[x] = records[x]
             /\ messages' = WithoutMessage(messages, e)
          \/ /\ e \in Running
             /\ DOMAIN records' = DOMAIN records
             /\ records'[e].completed
             /\ \A x \in DOMAIN records \ {e} : records'[x] = records[x]
             /\ \E n \in Slot : messages' = Append(messages, [e |-> e, n |-> n])

LEMMA ChangeStep ==
    ASSUME "push" \notin Callbacks, IInv, [Next]_vars
    PROVE  Change
<1> USE DEF recordVars
<1>1. CASE MultiInit \/ Clear
  BY <1>1 DEF MultiInit, Clear, Change
<1>2. CASE Read
  BY <1>2 DEF Read, Change, SameResults
<1>3. CASE Link
  <2>1. cur.e \in Handle
    BY <1>3, TopStep DEF Link, At, GoodStep
  <2>2. CASE cur.e \in DOMAIN records
    BY <1>3, <2>2 DEF Link, Change, SameResults
  <2>3. CASE cur.e \notin DOMAIN records
    <3>1. Insert(cur.e, FALSE) /\ UNCHANGED messages
      BY <1>3, <2>3 DEF Link
    <3>2. /\ DOMAIN records' = DOMAIN records \cup {cur.e}
          /\ ~records'[cur.e].completed
          /\ \A x \in DOMAIN records : records'[x] = records[x]
      BY <2>3, <3>1 DEF Insert, NewRecord
    <3> QED BY <2>1, <2>3, <3>1, <3>2 DEF Change
  <2> QED BY <2>2, <2>3
<1>4. CASE Unlink
  <2>1. CASE cur.e \notin DOMAIN records
    BY <1>4, <2>1 DEF Unlink, Change, SameResults
  <2>2. CASE cur.e \in DOMAIN records
    <3>1. Erase(cur.e) /\ messages' = WithoutMessage(messages, cur.e) /\ cur.e \in Handle
      BY <1>4, <2>2 DEF Unlink, IInv, TypeOK
    <3>2. /\ DOMAIN records' = DOMAIN records \ {cur.e}
          /\ \A x \in DOMAIN records' : records'[x] = records[x]
      BY <3>1 DEF Erase
    <3> QED BY <2>2, <3>1, <3>2 DEF Change
  <2> QED BY <2>1, <2>2
<1>5. CASE Completed
  <2>1. CASE cur.e \notin Running
    BY <1>5, <2>1 DEF Completed, Change, SameResults
  <2>2. CASE cur.e \in Running
    <3>1. cur.n \in Slot /\ cur.e \in Handle /\ cur.e \in DOMAIN records
      BY <1>5, <2>2, TopStep DEF Completed, At, GoodStep, Running, IInv, TypeOK
    <3>2. /\ records' = [records EXCEPT ![cur.e].completed = TRUE,
                                        ![cur.e].worker = 0,
                                        ![cur.e].socket = 0]
          /\ messages' = Append(messages, [e |-> cur.e, n |-> cur.n])
      BY <1>5, <2>2 DEF Completed
    <3>3. records \in [DOMAIN records -> Record]
      BY DEF IInv, TypeOK
    <3>4. /\ DOMAIN records' = DOMAIN records
          /\ \A x \in DOMAIN records \ {cur.e} : records'[x] = records[x]
      BY <3>2, <3>3
    <3>5. records'[cur.e].completed
      BY <3>1, <3>2, <3>3 DEF Record
    <3> QED BY <2>2, <3>1, <3>2, <3>4, <3>5 DEF Change
  <2> QED BY <2>1, <2>2
<1> QED BY <1>1, <1>2, <1>3, <1>4, <1>5, OtherSame DEF Change

LEMMA MessagesStep ==
    ASSUME IInv, MessagesUnique, Change
    PROVE  MessagesUnique'
<1>1. OneEach(messages, Finished) /\ messages \in Seq(Message)
  BY MessagesDef DEF IInv, TypeOK
<1>2. OneEach(messages', Finished') => MessagesUnique'
  BY DEF MessagesUnique, OneEach, Finished
<1>3. CASE SameResults
  <2>1. Finished' = Finished
    BY <1>3 DEF SameResults, Finished
  <2> QED BY <1>1, <1>2, <1>3, <2>1 DEF SameResults
<1>4. CASE messages' = <<>> /\ records' = NoRecords
  BY <1>2, <1>4 DEF OneEach
<1>5. CASE messages # <<>> /\ messages' = Tail(messages) /\ UNCHANGED records
  <2>1. Finished' = Finished
    BY <1>5 DEF Finished
  <2> QED BY <1>1, <1>2, <1>5, <2>1, MessageTail
<1>6. ASSUME NEW e \in Handle,
             e \notin DOMAIN records,
             DOMAIN records' = DOMAIN records \cup {e},
             ~records'[e].completed,
             \A x \in DOMAIN records : records'[x] = records[x],
             UNCHANGED messages
      PROVE  MessagesUnique'
  <2>1. Finished' = Finished
    BY <1>6 DEF Finished
  <2> QED BY <1>1, <1>2, <1>6, <2>1
<1>7. ASSUME NEW e \in Handle,
             DOMAIN records' = DOMAIN records \ {e},
             \A x \in DOMAIN records' : records'[x] = records[x],
             messages' = WithoutMessage(messages, e)
      PROVE  MessagesUnique'
  <2>1. Finished' = Finished \ {e}
    BY <1>7 DEF Finished
  <2> QED BY <1>1, <1>2, <1>7, <2>1, MessageRemove
<1>8. ASSUME NEW e \in Handle, NEW n \in Slot,
             e \in Running,
             DOMAIN records' = DOMAIN records,
             records'[e].completed,
             \A x \in DOMAIN records \ {e} : records'[x] = records[x],
             messages' = Append(messages, [e |-> e, n |-> n])
      PROVE  MessagesUnique'
  <2>1. Finished' = Finished \cup {e} /\ e \notin Finished
    BY <1>8 DEF Finished, Running
  <2>2. [e |-> e, n |-> n] \in Message /\ [e |-> e, n |-> n].e = e
    BY DEF Message
  <2> QED BY <1>1, <1>2, <1>8, <2>1, <2>2, MessageAppend
<1> QED BY <1>3, <1>4, <1>5, <1>6, <1>7, <1>8 DEF Change

\* Status, by what it depends on.
LEMMA StatusCases ==
    ASSUME NEW e \in Handle
    PROVE  /\ e \notin DOMAIN records <=> Status(e) = "out"
           /\ (e \in DOMAIN records /\ ~records[e].completed) <=> Status(e) = "added"
           /\ (e \in DOMAIN records /\ records[e].completed /\ Told(e)) <=> Status(e) = "done"
           /\ (e \in DOMAIN records /\ records[e].completed /\ ~Told(e)) <=> Status(e) = "told"
BY DEF Status, Told

LEMMA ContractStep ==
    ASSUME IInv, MessagesUnique, Change
    PROVE  [Contract!Next]_([e \in Handle |-> Status(e)])
<1> DEFINE status == [e \in Handle |-> Status(e)]
<1> SUFFICES ASSUME status' # status PROVE Contract!Next
  OBVIOUS
<1>1. OneEach(messages, Finished) /\ messages \in Seq(Message)
  BY MessagesDef DEF IInv, TypeOK
<1>2. CASE SameResults
  <2>1. \A x \in Handle : Status(x)' = Status(x)
    BY <1>2 DEF SameResults, Status
  <2>2. status' = status
    BY <2>1
  <2> QED BY <2>2
<1>3. CASE messages' = <<>> /\ records' = NoRecords
  <2>1. \A x \in Handle : Status(x)' = "out"
    BY <1>3 DEF Status, NoRecords
  <2>2. status' = [e \in Handle |-> "out"]
    BY <2>1
  <2> QED BY <2>2 DEF Contract!Next, Contract!RemoveAll
<1>4. CASE messages # <<>> /\ messages' = Tail(messages) /\ UNCHANGED records
  <2> PICK e : e = Head(messages).e
    OBVIOUS
  <2>1. e \in Finished /\ e \in Handle
    BY <1>1, <1>4, MessageTail, SMTT(30) DEF Finished, IInv, TypeOK
  <2>2. \A x : Told(x)' <=> x # e /\ Told(x)
    <3>1. \A x : (\E i \in DOMAIN Tail(messages) : Tail(messages)[i].e = x)
                  <=> x # e /\ \E i \in DOMAIN messages : messages[i].e = x
      BY <1>1, <1>4, MessageTail
    <3> QED BY <1>4, <3>1 DEF Told
  <2>3. Told(e)
    <3>1. 1 \in DOMAIN messages /\ messages[1] = Head(messages)
      BY <1>1, <1>4, LenProperties, EmptySeq, HeadTailProperties
    <3> QED BY <3>1 DEF Told
  <2>4. Status(e) = "done" /\ Status(e)' = "told"
    <3>1. e \in DOMAIN records /\ records[e].completed
      BY <2>1 DEF Finished
    <3>2. Status(e) = "done"
      BY <3>1, <2>3 DEF Status, Told
    <3>3. ~Told(e)'
      BY <2>2
    <3>4. Status(e)' = "told"
      BY <1>4, <3>1, <3>3 DEF Status, Told
    <3> QED BY <3>2, <3>4
  <2>5. ASSUME NEW x \in Handle, x # e PROVE Status(x)' = Status(x)
    <3>1. Told(x)' <=> Told(x)
      BY <2>2, <2>5
    <3> QED BY <1>4, <3>1 DEF Status, Told
  <2>6. status[e] = "done" /\ status' = [status EXCEPT ![e] = "told"]
    BY <2>1, <2>4, <2>5
  <2>7. Contract!Tell(e)
    BY <2>6 DEF Contract!Tell
  <2> QED BY <2>1, <2>7 DEF Contract!Next
<1>5. ASSUME NEW e \in Handle,
             e \notin DOMAIN records,
             DOMAIN records' = DOMAIN records \cup {e},
             ~records'[e].completed,
             \A x \in DOMAIN records : records'[x] = records[x],
             UNCHANGED messages
      PROVE  Contract!Next
  <2>1. Status(e) = "out" /\ Status(e)' = "added"
    BY <1>5 DEF Status
  <2>2. ASSUME NEW x \in Handle, x # e PROVE Status(x)' = Status(x)
    BY <1>5, <2>2 DEF Status
  <2>3. status[e] = "out" /\ status' = [status EXCEPT ![e] = "added"]
    BY <2>1, <2>2
  <2>4. Contract!Add(e)
    BY <2>3 DEF Contract!Add
  <2> QED BY <2>4 DEF Contract!Next
<1>6. ASSUME NEW e \in Handle,
             e \in DOMAIN records,
             DOMAIN records' = DOMAIN records \ {e},
             \A x \in DOMAIN records' : records'[x] = records[x],
             messages' = WithoutMessage(messages, e)
      PROVE  Contract!Next
  <2>1. Status(e) # "out" /\ Status(e)' = "out"
    BY <1>6 DEF Status
  <2>2. ASSUME NEW x \in Handle, x # e PROVE Told(x)' <=> Told(x)
    <3>1. Names(WithoutMessage(messages, e), x) <=> Names(messages, x)
      BY <1>1, <2>2, MessageRemove
    <3> QED BY <1>6, <3>1 DEF Told, Names
  <2>3. ASSUME NEW x \in Handle, x # e PROVE Status(x)' = Status(x)
    <3>1. Told(x)' <=> Told(x)
      BY <2>2, <2>3
    <3> QED BY <1>6, <2>3, <3>1 DEF Status, Told
  <2>4. status[e] # "out" /\ status' = [status EXCEPT ![e] = "out"]
    BY <2>1, <2>3
  <2>5. Contract!Remove(e)
    BY <2>4 DEF Contract!Remove
  <2> QED BY <2>5 DEF Contract!Next
<1>7. ASSUME NEW e \in Handle, NEW n \in Slot,
             e \in Running,
             DOMAIN records' = DOMAIN records,
             records'[e].completed,
             \A x \in DOMAIN records \ {e} : records'[x] = records[x],
             messages' = Append(messages, [e |-> e, n |-> n])
      PROVE  Contract!Next
  <2>1. e \notin Finished /\ e \in DOMAIN records /\ ~records[e].completed
    BY <1>7 DEF Finished, Running
  <2>2. \A x : Told(x)' <=> x = e \/ Told(x)
    <3>1. [e |-> e, n |-> n] \in Message /\ [e |-> e, n |-> n].e = e
      BY DEF Message
    <3> QED BY <1>1, <1>7, <2>1, <3>1, MessageAppend DEF Told
  <2>3. Status(e) = "added" /\ Status(e)' = "done"
    BY <1>7, <2>1, <2>2 DEF Status, Told
  <2>4. ASSUME NEW x \in Handle, x # e PROVE Status(x)' = Status(x)
    BY <1>7, <2>2, <2>4 DEF Status, Told
  <2>5. status[e] = "added" /\ status' = [status EXCEPT ![e] = "done"]
    BY <2>3, <2>4
  <2>6. Contract!Finish(e)
    BY <2>5 DEF Contract!Finish
  <2> QED BY <2>6 DEF Contract!Next
<1> QED BY <1>2, <1>3, <1>4, <1>5, <1>6, <1>7 DEF Change

-----------------------------------------------------------------------------
(* The theorems.                                                             *)

\* curl_multi_info_read names only handles that are in the multi handle and
\* whose transfer is over, and none twice: neither drain_events inside
\* callbacks nor removal, re-adding or cleanup leaves a stale message behind.
THEOREM MessagesAreOfFinished ==
    ASSUME "push" \notin Callbacks
    PROVE  Spec => []MessagesUnique
<1>1. Init => MessagesUnique
  BY DEF Init, MessagesUnique
<1>2. IInv /\ MessagesUnique /\ [Next]_vars => MessagesUnique'
  BY ChangeStep, MessagesStep
<1> QED BY <1>1, <1>2, Invariant, PTL DEF Spec

\* Every step of the multi handle is a step of its contract, or changes nothing
\* the contract speaks of: a handle is reported once, after its transfer ended
\* and before it is removed.
THEOREM KeepsContract ==
    ASSUME "push" \notin Callbacks
    PROVE  Spec => ContractSafety
<1>1. Init => Contract!Init
  BY DEF Init, Contract!Init, Status, NoRecords
<1>2. IInv /\ MessagesUnique /\ [Next]_vars
      => [Contract!Next]_([e \in Handle |-> Status(e)])
  BY ChangeStep, ContractStep
<1> QED BY <1>1, <1>2, Invariant, MessagesAreOfFinished, PTL
        DEF Spec, ContractSafety, Contract!Safety

-----------------------------------------------------------------------------
(* One call at a time: what holds when the application neither adds nor       *)
(* removes handles from inside a callback and accepts no pushes.  The stack   *)
(* then is what one call has left to do, below the events it is processing.   *)
(* With calls that nest, a handle that waits for its spawn can be removed      *)
(* under it, and an event of its last transfer met again after it was added   *)
(* anew; the facts below would have to follow every such call.                *)

OneCall == "push" \notin Callbacks /\ {"add", "remove"} \cap CallbackCalls = {}

\* What may be above a step of each kind: above the work of a call only events, what
\* they lead to, and callbacks.
Upper == Event \cup {"drain", "join", "poll_remove", "poll_remove_cb", "timer", "timer_cb"}
Above(d) ==
    CASE d \in Event \cup {"drain", "link", "unlink", "clear", "start", "wait", "read"} -> Upper
      [] d = "detach" -> Upper \cup {"unlink", "detach"}
      [] d = "free_multi" -> Upper \cup {"clear", "detach"}
      [] d = "spawn" -> {"spawn", "launch", "poll_in_cb"}
      [] d = "launch" -> {"poll_in_cb"}
      [] d = "join" -> {"join"}
      [] d \in InCallback -> {}
      [] OTHER -> StepName \ {"free", "free_multi"}

InOrder(s) == \A i, j \in DOMAIN s : j < i => s[j].do \in Above(s[i].do)

\* add_handle updates the timer right after it has put the record in.
TimerFollows(s) ==
    \A i \in DOMAIN s : s[i].do = "link" => i < Len(s) /\ s[i + 1].do = "timer"

\* No transfer is started twice.
Starting == {"spawn", "launch"}
StartOnce(s) ==
    \A i, j \in DOMAIN s :
        s[i].do \in Starting /\ s[j].do \in Starting /\ s[i].e = s[j].e => i = j

Arranged(s) == InOrder(s) /\ TimerFollows(s) /\ StartOnce(s)

LEMMA Shifted ==
    ASSUME NEW s \in Seq(GoodStep), NEW t \in Seq(GoodStep), NEW k \in Nat,
           Len(t) = Len(s) - k, \A i \in 1..Len(t) : t[i] = s[i + k], Arranged(s)
    PROVE  Arranged(t) /\ Range(t) \subseteq Range(s)
<1>1. /\ Len(s) \in Nat /\ DOMAIN s = 1..Len(s) /\ Len(t) \in Nat /\ DOMAIN t = 1..Len(t)
      /\ \A i \in 1..Len(t) : i + k \in 1..Len(s)
  BY LenProperties
<1>2. InOrder(t)
  <2> SUFFICES ASSUME NEW i \in 1..Len(t), NEW j \in 1..Len(t), j < i
               PROVE  t[j].do \in Above(t[i].do)
    BY <1>1 DEF InOrder
  <2>1. j + k < i + k
    BY <1>1
  <2> QED BY <1>1, <2>1 DEF Arranged, InOrder
<1>3. TimerFollows(t)
  <2> SUFFICES ASSUME NEW i \in 1..Len(t), t[i].do = "link"
               PROVE  i < Len(t) /\ t[i + 1].do = "timer"
    BY <1>1 DEF TimerFollows
  <2>1. i + k < Len(s) /\ s[i + k + 1].do = "timer"
    BY <1>1 DEF Arranged, TimerFollows
  <2>2. i < Len(t) /\ i + 1 \in 1..Len(t) /\ i + k + 1 = i + 1 + k
    BY <1>1, <2>1
  <2> QED BY <2>1, <2>2
<1>4. StartOnce(t)
  <2> SUFFICES ASSUME NEW i \in 1..Len(t), NEW j \in 1..Len(t),
                      t[i].do \in Starting, t[j].do \in Starting, t[i].e = t[j].e
               PROVE  i = j
    BY <1>1 DEF StartOnce
  <2>1. i + k = j + k
    BY <1>1 DEF Arranged, StartOnce
  <2> QED BY <2>1
<1>5. Range(t) \subseteq Range(s)
  BY <1>1 DEF Range
<1> QED BY <1>2, <1>3, <1>4, <1>5 DEF Arranged

LEMMA ArrangedTail ==
    ASSUME NEW s \in Seq(GoodStep), s # <<>>, Arranged(s)
    PROVE  /\ Arranged(Tail(s))
           /\ Range(s) = {Head(s)} \cup Range(Tail(s))
           /\ \A y \in Range(Tail(s)) : /\ Head(s).do \in Above(y.do)
                                        /\ Head(s).do \in Starting /\ y.do \in Starting =>
                                              y.e # Head(s).e
           /\ Head(s).do = "link" => Tail(s) # <<>> /\ Head(Tail(s)).do = "timer"
<1>1. /\ Len(s) \in Nat /\ Len(s) > 0 /\ DOMAIN s = 1..Len(s)
      /\ Len(Tail(s)) = Len(s) - 1 /\ DOMAIN Tail(s) = 1..(Len(s) - 1)
      /\ \A i \in 1..(Len(s) - 1) : Tail(s)[i] = s[i + 1]
      /\ Head(s) = s[1] /\ Tail(s) \in Seq(GoodStep)
  BY HeadTailProperties, LenProperties, EmptySeq
<1>2. Arranged(Tail(s))
  BY <1>1, Shifted
<1>3. Range(s) = {s[1]} \cup Range(Tail(s))
  <2>1. ASSUME NEW i \in 1..Len(s), i # 1 PROVE i - 1 \in 1..(Len(s) - 1) /\ s[i] = Tail(s)[i - 1]
    BY <1>1, <2>1
  <2>2. \A i \in 1..(Len(s) - 1) : i + 1 \in 1..Len(s)
    BY <1>1
  <2>3. 1 \in 1..Len(s)
    BY <1>1
  <2>4. Range(s) = {s[i] : i \in 1..Len(s)} /\ Range(Tail(s)) = {Tail(s)[i] : i \in 1..(Len(s) - 1)}
    BY <1>1 DEF Range
  <2>5. Range(Tail(s)) \subseteq Range(s)
    BY <1>1, <2>2, <2>4
  <2>6. ASSUME NEW x \in Range(s), x # s[1] PROVE x \in Range(Tail(s))
    BY <2>1, <2>4, <2>6
  <2> QED BY <2>3, <2>4, <2>5, <2>6
<1>4. ASSUME NEW y \in Range(Tail(s))
      PROVE  /\ s[1].do \in Above(y.do)
             /\ s[1].do \in Starting /\ y.do \in Starting => y.e # s[1].e
  <2>1. PICK i \in 1..(Len(s) - 1) : y = Tail(s)[i]
    BY <1>1 DEF Range
  <2>2. i + 1 \in DOMAIN s /\ 1 \in DOMAIN s /\ 1 < i + 1 /\ y = s[i + 1]
    BY <1>1, <2>1
  <2> QED BY <2>2 DEF Arranged, InOrder, StartOnce
<1>5. ASSUME s[1].do = "link" PROVE Tail(s) # <<>> /\ Head(Tail(s)).do = "timer"
  <2>1. 1 \in DOMAIN s
    BY <1>1
  <2>2. 1 < Len(s) /\ s[1 + 1].do = "timer"
    BY <1>5, <2>1 DEF Arranged, TimerFollows
  <2>3. Tail(s)[1] = s[1 + 1] /\ Len(Tail(s)) # 0
    BY <1>1, <2>2
  <2>4. Tail(s) # <<>> /\ Head(Tail(s)) = Tail(s)[1]
    BY <1>1, <2>3, EmptySeq, HeadTailProperties
  <2> QED BY <2>2, <2>3, <2>4
<1> QED BY <1>1, <1>2, <1>3, <1>4, <1>5

\* An early return leaves the end of the stack, from the "return" on.
LEMMA ReturnLeavesEnd ==
    ASSUME NEW s \in Seq(GoodStep), HasReturn(s)
    PROVE  /\ AfterReturn(s) \in Seq(GoodStep)
           /\ \E k \in Nat : /\ Len(AfterReturn(s)) = Len(s) - k
                             /\ \A i \in 1..Len(AfterReturn(s)) : AfterReturn(s)[i] = s[i + k]
           /\ Range(AfterReturn(s)) \subseteq Range(s)
<1> DEFINE First(i) == s[i].do = "return" /\ \A j \in 1..(i - 1) : s[j].do # "return"
           r == CHOOSE i \in DOMAIN s : First(i)
           t == SubSeq(s, r, Len(s))
<1>1. Len(s) \in Nat /\ DOMAIN s = 1..Len(s) /\ \A i \in 1..Len(s) : s[i] \in GoodStep
  BY LenProperties, ElementOfSeq
<1>2. r \in 1..Len(s)
  <2> DEFINE T == {i \in 1..Len(s) : s[i].do = "return"}
  <2>1. PICK x \in T : \A y \in T : x <= y
    <3>1. T \subseteq Nat /\ T # {}
      BY <1>1 DEF HasReturn
    <3> QED BY <3>1, LeastExists
  <2>2. x \in 1..Len(s) /\ First(x)
    BY <1>1, <2>1
  <2> QED BY <1>1, <2>2
<1>3. AfterReturn(s) = t
  BY DEF AfterReturn
<1> HIDE DEF r
<1>4. /\ t \in Seq(GoodStep)
      /\ Len(t) = Len(s) - (r - 1) /\ r - 1 \in Nat
      /\ \A i \in 1..Len(t) : t[i] = s[i + (r - 1)]
  <2>1. \A i \in r..Len(s) : s[i] \in GoodStep
    BY <1>1, <1>2
  <2>2. /\ t \in Seq(GoodStep) /\ Len(t) = Len(s) - r + 1
        /\ \A i \in 1..(Len(s) - r + 1) : t[i] = s[r + i - 1]
    BY <1>1, <1>2, <2>1, SubSeqProperties
  <2>3. \A i \in 1..Len(t) : r + i - 1 = i + (r - 1)
    BY <1>1, <1>2, <2>2
  <2> QED BY <1>1, <1>2, <2>2, <2>3
<1> HIDE DEF t
<1>5. Range(t) \subseteq Range(s)
  <2>1. Len(t) \in Nat /\ DOMAIN t = 1..Len(t) /\ DOMAIN s = 1..Len(s)
    BY <1>4, LenProperties
  <2>2. \A i \in 1..Len(t) : i + (r - 1) \in 1..Len(s)
    BY <1>1, <1>4, <2>1
  <2> QED BY <1>4, <2>1, <2>2 DEF Range
<1> QED BY <1>3, <1>4, <1>5

LEMMA ArrangedReturn ==
    ASSUME NEW s \in Seq(GoodStep), HasReturn(s), Arranged(s)
    PROVE  /\ Arranged(AfterReturn(s)) /\ AfterReturn(s) \in Seq(GoodStep)
           /\ Range(AfterReturn(s)) \subseteq Range(s)
<1> DEFINE t == AfterReturn(s)
<1>1. /\ t \in Seq(GoodStep) /\ Range(t) \subseteq Range(s)
      /\ \E k \in Nat : Len(t) = Len(s) - k /\ \A i \in 1..Len(t) : t[i] = s[i + k]
  BY ReturnLeavesEnd
<1> HIDE DEF t
<1>2. Arranged(t)
  BY <1>1, Shifted
<1> QED BY <1>1, <1>2 DEF t

LEMMA ArrangedConcat ==
    ASSUME NEW p \in Seq(GoodStep), NEW t \in Seq(GoodStep), Arranged(p), Arranged(t),
           \A x \in Range(p), y \in Range(t) : /\ x.do \in Above(y.do)
                                               /\ x.do \in Starting /\ y.do \in Starting =>
                                                     x.e # y.e
    PROVE  Arranged(p \o t) /\ Range(p \o t) = Range(p) \cup Range(t)
<1> DEFINE n == Len(p)
           m == Len(t)
           q == p \o t
<1>1. /\ n \in Nat /\ m \in Nat /\ DOMAIN p = 1..n /\ DOMAIN t = 1..m
      /\ Len(q) = n + m /\ DOMAIN q = 1..(n + m)
      /\ \A i \in 1..n : q[i] = p[i] /\ p[i] \in Range(p)
      /\ \A i \in (n + 1)..(n + m) : i - n \in 1..m /\ q[i] = t[i - n] /\ t[i - n] \in Range(t)
  <2>1. n \in Nat /\ m \in Nat /\ DOMAIN p = 1..n /\ DOMAIN t = 1..m
    BY LenProperties
  <2>2. /\ Len(q) = n + m /\ q \in Seq(GoodStep)
        /\ \A i \in 1..(n + m) : q[i] = IF i <= n THEN p[i] ELSE t[i - n]
    BY ConcatProperties
  <2>3. DOMAIN q = 1..(n + m)
    BY <2>2, LenProperties
  <2>4. \A i \in (n + 1)..(n + m) : i - n \in 1..m /\ ~(i <= n) /\ i \in 1..(n + m)
    BY <2>1
  <2>5. \A i \in 1..n : i <= n /\ i \in 1..(n + m)
    BY <2>1
  <2> QED BY <2>1, <2>2, <2>3, <2>4, <2>5 DEF Range
<1>2. \A i \in 1..(n + m) : i \in 1..n \/ i \in (n + 1)..(n + m)
  BY <1>1
<1> HIDE DEF n, m, q
<1>3. InOrder(q)
  <2> SUFFICES ASSUME NEW i \in 1..(n + m), NEW j \in 1..(n + m), j < i
               PROVE  q[j].do \in Above(q[i].do)
    BY <1>1 DEF InOrder
  <2>1. CASE i \in 1..n
    <3>1. j \in 1..n
      BY <1>1, <2>1
    <3> QED BY <1>1, <2>1, <3>1 DEF Arranged, InOrder
  <2>2. CASE i \in (n + 1)..(n + m) /\ j \in 1..n
    BY <1>1, <2>2
  <2>3. CASE i \in (n + 1)..(n + m) /\ j \in (n + 1)..(n + m)
    <3>1. j - n < i - n
      BY <1>1, <2>3
    <3> QED BY <1>1, <2>3, <3>1 DEF Arranged, InOrder
  <2> QED BY <1>2, <2>1, <2>2, <2>3
<1>4. TimerFollows(q)
  <2> SUFFICES ASSUME NEW i \in 1..(n + m), q[i].do = "link"
               PROVE  i < n + m /\ q[i + 1].do = "timer"
    BY <1>1 DEF TimerFollows
  <2>1. CASE i \in 1..n
    <3>1. i < n /\ p[i + 1].do = "timer"
      BY <1>1, <2>1 DEF Arranged, TimerFollows, n
    <3>2. i + 1 \in 1..n
      BY <1>1, <3>1
    <3> QED BY <1>1, <3>1, <3>2
  <2>2. CASE i \in (n + 1)..(n + m)
    <3>1. i - n < m /\ t[i - n + 1].do = "timer"
      BY <1>1, <2>2 DEF Arranged, TimerFollows, m
    <3>2. i + 1 \in (n + 1)..(n + m) /\ i + 1 - n = i - n + 1
      BY <1>1, <2>2, <3>1
    <3> QED BY <1>1, <3>1, <3>2
  <2> QED BY <1>2, <2>1, <2>2
<1>5. StartOnce(q)
  <2> SUFFICES ASSUME NEW i \in 1..(n + m), NEW j \in 1..(n + m), i <= j,
                      q[i].do \in Starting, q[j].do \in Starting, q[i].e = q[j].e
               PROVE  i = j
    BY <1>1 DEF StartOnce
  <2>1. CASE j \in 1..n
    <3>1. i \in 1..n
      BY <1>1, <2>1
    <3> QED BY <1>1, <2>1, <3>1 DEF Arranged, StartOnce
  <2>2. CASE j \in (n + 1)..(n + m) /\ i \in 1..n
    BY <1>1, <2>2
  <2>3. CASE j \in (n + 1)..(n + m) /\ i \in (n + 1)..(n + m)
    <3>1. \A x, y \in 1..m :
             t[x].do \in Starting /\ t[y].do \in Starting /\ t[x].e = t[y].e => x = y
      BY <1>1 DEF Arranged, StartOnce
    <3>2. /\ i - n \in 1..m /\ j - n \in 1..m
          /\ q[i] = t[i - n] /\ q[j] = t[j - n]
      BY <1>1, <2>3
    <3>3. i - n = j - n
      BY <3>1, <3>2
    <3> QED BY <1>1, <2>3, <3>3
  <2> QED BY <1>2, <2>1, <2>2, <2>3
<1>6. Range(q) = Range(p) \cup Range(t)
  BY RangeConcatenation DEF q
<1> QED BY <1>3, <1>4, <1>5, <1>6 DEF Arranged, q

\* The step on top is replaced by p: what may be above others where it was may be p.
Suits(d, p) == \A c \in StepName : d \in Above(c) => \A x \in Range(p) : x.do \in Above(c)

LEMMA TopReplaced ==
    ASSUME IInv, Arranged(todo), todo # <<>>,
           NEW p \in Seq(GoodStep), Arranged(p), Suits(cur.do, p),
           \A x \in Range(p) : x.do \in Starting =>
               (cur.do \in Starting /\ x.e = cur.e) \/ cur.do = "start"
    PROVE  Arranged(p \o rest) /\ Range(p \o rest) = Range(p) \cup Range(rest)
<1>1. todo \in Seq(GoodStep) /\ rest \in Seq(GoodStep)
  BY HeadTailProperties DEF IInv, StackOK, rest
<1>2. Arranged(rest) /\ \A y \in Range(rest) : /\ cur.do \in Above(y.do)
                                               /\ cur.do \in Starting /\ y.do \in Starting =>
                                                     y.e # cur.e
  BY <1>1, ArrangedTail DEF cur, rest
<1>3. \A y \in Range(rest) : y.do \in StepName
  <2>1. Range(rest) \subseteq GoodStep
    BY <1>1, RangeOfSeq
  <2> QED BY <2>1 DEF GoodStep, Step
<1>4. ASSUME NEW x \in Range(p), NEW y \in Range(rest)
      PROVE  /\ x.do \in Above(y.do)
             /\ x.do \in Starting /\ y.do \in Starting => x.e # y.e
  <2>1. "start" \notin Above("spawn") /\ "start" \notin Above("launch")
    BY DEF Above, Event
  <2> QED BY <1>2, <1>3, <2>1 DEF Suits, Starting
<1> QED BY <1>1, <1>2, <1>4, ArrangedConcat

\* The steps on the stack, without their order.
On == Range(todo)

LEMMA TopOn ==
    ASSUME IInv, Arranged(todo), todo # <<>>
    PROVE  /\ On = {cur} \cup Range(rest) /\ On \subseteq GoodStep
           /\ cur \in GoodStep /\ rest \in Seq(GoodStep) /\ Arranged(rest)
           /\ \A y \in Range(rest) : /\ cur.do \in Above(y.do)
                                     /\ cur.do \in Starting /\ y.do \in Starting => y.e # cur.e
           /\ cur.do = "link" => rest # <<>> /\ Head(rest).do = "timer"
<1>1. todo \in Seq(GoodStep)
  BY DEF IInv, StackOK
<1>2. cur \in GoodStep /\ rest \in Seq(GoodStep) /\ On \subseteq GoodStep
  BY <1>1, HeadTailProperties, RangeOfSeq DEF cur, rest, On
<1> QED BY <1>1, <1>2, ArrangedTail DEF cur, rest, On

LEMMA EmptyArranged == Arranged(<<>>) /\ Range(<<>>) = {}
BY DEF Arranged, InOrder, TimerFollows, StartOnce, Range

\* What may be above the other steps.
LEMMA AboveOthers ==
    ASSUME NEW c \in StepName, c \notin {"detach", "free_multi", "spawn", "launch", "join"},
           c \notin InCallback,
           c \notin Event \cup {"drain", "link", "unlink", "clear", "start", "wait", "read"}
    PROVE  Above(c) = StepName \ {"free", "free_multi"}
BY DEF Above

LEMMA UpperNames == Upper \subseteq StepName \ {"free", "free_multi"}
BY DEF Upper, StepName, Event, InCallback

LEMMA AboveNamed ==
    /\ \A c \in Event \cup {"drain", "link", "unlink", "clear", "start", "wait", "read"} :
          Above(c) = Upper
    /\ Above("detach") = Upper \cup {"unlink", "detach"}
    /\ Above("free_multi") = Upper \cup {"clear", "detach"}
    /\ Above("spawn") = {"spawn", "launch", "poll_in_cb"}
    /\ Above("launch") = {"poll_in_cb"}
    /\ Above("join") = {"join"}
    /\ \A c \in InCallback : Above(c) = {}
BY DEF Above, Event, InCallback

\* The kinds of steps by what may be above them.
LEMMA AboveCases ==
    ASSUME NEW c \in StepName
    PROVE  \/ Above(c) = Upper
           \/ c = "detach" /\ Above(c) = Upper \cup {"unlink", "detach"}
           \/ c = "free_multi" /\ Above(c) = Upper \cup {"clear", "detach"}
           \/ c = "spawn" /\ Above(c) = {"spawn", "launch", "poll_in_cb"}
           \/ c = "launch" /\ Above(c) = {"poll_in_cb"}
           \/ c = "join" /\ Above(c) = {"join"}
           \/ c \in InCallback /\ Above(c) = {}
           \/ Above(c) = StepName \ {"free", "free_multi"}
BY AboveOthers, AboveNamed

LEMMA SuitsUpper ==
    ASSUME NEW d \in Upper \ {"join"}, NEW p, \A x \in Range(p) : x.do \in Upper
    PROVE  Suits(d, p)
<1> SUFFICES ASSUME NEW c \in StepName, d \in Above(c), NEW x \in Range(p)
             PROVE  x.do \in Above(c)
  BY DEF Suits
<1>1. d \notin {"spawn", "launch", "poll_in_cb", "unlink", "detach", "clear"}
  BY DEF Upper, Event
<1> QED BY <1>1, AboveCases, UpperNames

LEMMA SuitsOthers ==
    ASSUME NEW d \in {"link", "start", "wait", "read", "return", "timer_again"}, NEW p,
           \A x \in Range(p) : x.do \in StepName \ {"free", "free_multi"}
    PROVE  Suits(d, p)
<1> SUFFICES ASSUME NEW c \in StepName, d \in Above(c), NEW x \in Range(p)
             PROVE  x.do \in Above(c)
  BY DEF Suits
<1>1. d \notin Upper \cup {"spawn", "launch", "poll_in_cb", "unlink", "detach", "clear", "join"}
  BY DEF Upper, Event
<1> QED BY <1>1, AboveCases

LEMMA SuitsWork ==
    ASSUME NEW p
    PROVE  /\ (\A x \in Range(p) : x.do = "join") => Suits("unlink", p)
           /\ (\A x \in Range(p) : x.do \in {"join", "detach"}) => Suits("clear", p)
           /\ (\A x \in Range(p) : x.do \in {"launch", "poll_in_cb"}) => Suits("spawn", p)
<1>1. {"unlink", "clear", "spawn", "launch", "poll_in_cb"} \cap Upper = {}
      /\ "join" \in Upper /\ {"join", "detach", "launch", "poll_in_cb"} \subseteq StepName \ {"free", "free_multi"}
  BY DEF Upper, Event, StepName, InCallback
<1>2. ASSUME \A x \in Range(p) : x.do = "join" PROVE Suits("unlink", p)
  BY <1>1, <1>2, AboveCases DEF Suits
<1>3. ASSUME \A x \in Range(p) : x.do \in {"join", "detach"} PROVE Suits("clear", p)
  BY <1>1, <1>3, AboveCases DEF Suits
<1>4. ASSUME \A x \in Range(p) : x.do \in {"launch", "poll_in_cb"} PROVE Suits("spawn", p)
  BY <1>1, <1>4, AboveCases DEF Suits
<1> QED BY <1>2, <1>3, <1>4

LEMMA OneArranged ==
    ASSUME NEW a \in GoodStep, a.do # "link"
    PROVE  Arranged(<<a>>) /\ Range(<<a>>) = {a}
BY DEF Arranged, InOrder, TimerFollows, StartOnce, Range

LEMMA TwoArranged ==
    ASSUME NEW a \in GoodStep, NEW b \in GoodStep, a.do # "link", b.do # "link",
           a.do \in Above(b.do), a.do \notin Starting \/ b.do \notin Starting
    PROVE  Arranged(<<a, b>>) /\ Range(<<a, b>>) = {a, b}
BY DEF Arranged, InOrder, TimerFollows, StartOnce, Range

LEMMA ThreeArranged ==
    ASSUME NEW a \in GoodStep, NEW b \in GoodStep, NEW c \in GoodStep,
           a.do # "link", b.do # "link", c.do # "link",
           a.do \in Above(b.do), a.do \in Above(c.do), b.do \in Above(c.do),
           a.do \notin Starting, b.do \notin Starting, c.do \notin Starting
    PROVE  Arranged(<<a, b, c>>) /\ Range(<<a, b, c>>) = {a, b, c}
BY DEF Arranged, InOrder, TimerFollows, StartOnce, Range

\* The calls begin with their steps in order.
LEMMA CallsArranged ==
    ASSUME NEW e \in Handle
    PROVE  /\ Arranged(AddCall(e))
           /\ Range(AddCall(e)) = {Do("drain"), S("link", e, 0), Do("timer"), Do("return")}
           /\ Arranged(RemoveCall(e))
           /\ Range(RemoveCall(e)) = {Do("drain"), S("unlink", e, 0), S("detach", e, 0),
                                      Do("timer"), Do("return")}
<1>1. Above("link") = Upper /\ Above("unlink") = Upper /\ Above("detach") = Upper \cup {"unlink", "detach"}
      /\ Above("timer") = StepName \ {"free", "free_multi"}
      /\ Above("return") = StepName \ {"free", "free_multi"}
  BY AboveNamed, AboveOthers DEF Event, StepName, InCallback
<1>2. "drain" \in Upper /\ {"drain", "link", "unlink", "detach", "timer"} \subseteq StepName \ {"free", "free_multi"}
  BY DEF Upper, StepName
<1>3. Arranged(AddCall(e))
  BY <1>1, <1>2 DEF AddCall, Arranged, InOrder, TimerFollows, StartOnce, Starting, S, Do
<1>4. Arranged(RemoveCall(e))
  BY <1>1, <1>2 DEF RemoveCall, Arranged, InOrder, TimerFollows, StartOnce, Starting, S, Do
<1>5. Range(AddCall(e)) = {Do("drain"), S("link", e, 0), Do("timer"), Do("return")}
  BY DEF AddCall, Range
<1>6. Range(RemoveCall(e)) = {Do("drain"), S("unlink", e, 0), S("detach", e, 0), Do("timer"), Do("return")}
  BY DEF RemoveCall, Range
<1> QED BY <1>3, <1>4, <1>5, <1>6

LEMMA CleanupArranged ==
    ASSUME NEW e \in Handle
    PROVE  /\ Arranged(EasyCleanupCall(e))
           /\ Range(EasyCleanupCall(e)) = {S("free", e, 0)} \cup
                  IF attached[e] THEN Range(RemoveCall(e)) ELSE {}
<1>1. S("free", e, 0) \in GoodStep /\ <<S("free", e, 0)>> \in Seq(GoodStep)
  BY DEF S, GoodStep, PushStep, Step, StepName
<1>2. Arranged(<<S("free", e, 0)>>) /\ Range(<<S("free", e, 0)>>) = {S("free", e, 0)}
  BY <1>1, OneArranged DEF S
<1>3. Above("free") = StepName \ {"free", "free_multi"}
  BY AboveOthers DEF Event, StepName, InCallback
<1>4. \A x \in Range(RemoveCall(e)) : x.do \in StepName \ {"free", "free_multi"} /\ x.do \notin Starting
  BY CallsArranged DEF S, Do, StepName, Starting
<1>5. RemoveCall(e) \in Seq(GoodStep)
  BY CallBodies DEF Body
<1>6. /\ Arranged(RemoveCall(e) \o <<S("free", e, 0)>>)
      /\ Range(RemoveCall(e) \o <<S("free", e, 0)>>) = Range(RemoveCall(e)) \cup {S("free", e, 0)}
  <2> DEFINE t == <<S("free", e, 0)>>
  <2>1. \A y \in Range(t) : y.do = "free"
    BY <1>2 DEF S
  <2>2. t \in Seq(GoodStep) /\ Arranged(t) /\ Range(t) = {S("free", e, 0)}
    BY <1>1, <1>2
  <2> HIDE DEF t
  <2>3. Arranged(RemoveCall(e) \o t) /\ Range(RemoveCall(e) \o t) = Range(RemoveCall(e)) \cup Range(t)
    BY <1>3, <1>4, <1>5, <2>1, <2>2, CallsArranged, ArrangedConcat
  <2> QED BY <2>2, <2>3 DEF t
<1> QED BY <1>2, <1>6 DEF EasyCleanupCall

LEMMA CallsArranged2 ==
    /\ Arranged(PerformCall) /\ Range(PerformCall) = {Do("drain"), Do("start"), Do("return")}
    /\ Arranged(PollCall) /\ Range(PollCall) = {Do("drain"), Do("wait"), Do("return")}
    /\ Arranged(InfoReadCall) /\ Range(InfoReadCall) = {Do("drain"), Do("read"), Do("return")}
    /\ Arranged(FdsetCall) /\ Range(FdsetCall) = {Do("drain"), Do("return")}
    /\ Arranged(MultiCleanupCall)
    /\ Range(MultiCleanupCall) = {Do("drain"), Do("clear"), Do("free_multi")}
<1>1. Above("start") = Upper /\ Above("wait") = Upper /\ Above("read") = Upper
      /\ Above("clear") = Upper /\ Above("free_multi") = Upper \cup {"clear", "detach"}
      /\ Above("return") = StepName \ {"free", "free_multi"}
  BY AboveNamed, AboveOthers DEF Event, StepName, InCallback
<1>2. "drain" \in Upper /\ {"drain", "start", "wait", "read", "clear"} \subseteq StepName \ {"free", "free_multi"}
  BY DEF Upper, StepName
<1>3. \A d \in {"drain", "start", "wait", "read", "return", "clear", "free_multi"} : Do(d) \in GoodStep /\ Do(d).do = d
  BY DEF Do, S, GoodStep, PushStep, Step, StepName
<1>4. ASSUME NEW d \in {"start", "wait", "read"}
      PROVE  /\ Arranged(<<Do("drain"), Do(d), Do("return")>>)
             /\ Range(<<Do("drain"), Do(d), Do("return")>>) = {Do("drain"), Do(d), Do("return")}
  <2>1. /\ "drain" \in Above(d) /\ "drain" \in Above("return") /\ d \in Above("return")
        /\ "drain" \notin Starting /\ d \notin Starting /\ "return" \notin Starting /\ d # "link"
    BY <1>1, <1>2 DEF Starting
  <2>2. Do("drain") \in GoodStep /\ Do(d) \in GoodStep /\ Do("return") \in GoodStep
    BY <1>3
  <2>3. Do("drain").do = "drain" /\ Do(d).do = d /\ Do("return").do = "return"
    BY <1>3
  <2> QED BY <2>1, <2>2, <2>3, ThreeArranged
<1>5. /\ Arranged(<<Do("drain"), Do("return")>>)
      /\ Range(<<Do("drain"), Do("return")>>) = {Do("drain"), Do("return")}
  <2>1. "drain" \in Above("return") /\ "drain" \notin Starting
    BY <1>1, <1>2 DEF Starting
  <2>2. Do("drain") \in GoodStep /\ Do("return") \in GoodStep
        /\ Do("drain").do = "drain" /\ Do("return").do = "return"
    BY <1>3
  <2> QED BY <2>1, <2>2, TwoArranged
<1>6. /\ Arranged(<<Do("drain"), Do("clear"), Do("free_multi")>>)
      /\ Range(<<Do("drain"), Do("clear"), Do("free_multi")>>) =
            {Do("drain"), Do("clear"), Do("free_multi")}
  <2>1. /\ "drain" \in Above("clear") /\ "drain" \in Above("free_multi")
        /\ "clear" \in Above("free_multi")
        /\ "drain" \notin Starting /\ "clear" \notin Starting /\ "free_multi" \notin Starting
    BY <1>1, <1>2 DEF Starting
  <2>2. Do("drain") \in GoodStep /\ Do("clear") \in GoodStep /\ Do("free_multi") \in GoodStep
    BY <1>3
  <2>3. Do("drain").do = "drain" /\ Do("clear").do = "clear" /\ Do("free_multi").do = "free_multi"
    BY <1>3
  <2> QED BY <2>1, <2>2, <2>3, ThreeArranged
<1> QED BY <1>4, <1>5, <1>6 DEF PerformCall, PollCall, InfoReadCall, FdsetCall, MultiCleanupCall

-----------------------------------------------------------------------------
(* What the steps on the stack say of records, handles and workers.           *)

\* The events sent and not yet processed.
Sent == Range(queue) \cup On

\* A handle is attached while it has a record, and then until it is detached.
Attachment ==
    /\ \A e \in DOMAIN records : attached[e]
    /\ \A e \in Handle : attached[e] =>
          /\ e \in alive
          /\ e \in DOMAIN records \/ (S("detach", e, 0) \in On /\ S("unlink", e, 0) \notin On)
    /\ \A x \in On : x.do = "detach" /\ x.e \in DOMAIN records => S("unlink", x.e, 0) \in On
    /\ \A x \in On : x.do = "unlink" => x.e \in Handle /\ x = S("unlink", x.e, 0)
                                          /\ S("detach", x.e, 0) \in On
    /\ \A x, y \in On : x.do = "unlink" /\ y.do = "detach" => x.e = y.e

\* Whoever is being added is the application's, whoever is being freed is nobody's, and
\* leaves the multi handle before.
Ownership ==
    /\ owned \subseteq alive
    /\ \A x \in On : x.do = "link" => x.e \in owned
    /\ \A x \in On : x.do = "free" =>
          /\ x.e \in alive /\ x.e \notin owned
          /\ attached[x.e] => S("unlink", x.e, 0) \in On \/ S("detach", x.e, 0) \in On

\* Every worker is held by its record or is about to be joined.
Held ==
    /\ \A w \in Slot : worker[w].phase \in Active =>
          /\ worker[w].e \in alive
          /\ \/ worker[w].e \in DOMAIN records /\ records[worker[w].e].worker = w
             \/ S("join", worker[w].e, w) \in On
    /\ \A x \in On : x.do = "join" /\ x.n # 0 => x.e \notin Running
    /\ \A x, y \in On : x.do = "join" /\ y.do = "link" => x.e \in DOMAIN records

\* A transfer about to be started has no worker yet.
Unheld ==
    /\ \A x \in On : x.do \in Starting =>
          x.e \in Running /\ records[x.e].started /\ records[x.e].worker = 0
    /\ \A e \in DOMAIN records : ~records[e].started => records[e].worker = 0

\* The event of a transfer that is not over was sent by the worker its record holds, and no
\* event of an earlier transfer is left when a handle is added.
Reported ==
    /\ \A x \in Sent : x.do = "completed" /\ x.e \in Running => records[x.e].worker = x.n
    /\ \A x \in On : x.do = "link" /\ x.e \notin DOMAIN records =>
          \/ Do("drain") \in On
          \/ \A y \in Range(queue) : y.do = "completed" => y.e # x.e

\* Nothing is left of a multi handle that was cleaned up.
Gone ==
    /\ ~multi => DOMAIN records = {} /\ \A x \in On : x.do = "free"
    /\ \A x \in On : x.do = "free_multi" => DOMAIN records = {} \/ Do("clear") \in On

Facts == Attachment /\ Ownership /\ Held /\ Unheld /\ Reported /\ Gone

TimerDue == "timer" \in cbs /\ Unstarted # {} => told = "now" \/ At("timer")

CallInvariant == IInv /\ Arranged(todo) /\ Facts /\ TimerDue

\* A step that neither touches records, handles and workers nor puts work on the
\* stack that does.
LEMMA FactsKept ==
    ASSUME Facts, UNCHANGED <<alive, owned, attached, records, multi, worker>>,
           \A x \in On' : x.do \in {"unlink", "detach", "link", "free", "join", "free_multi"} =>
               x \in On,
           \A x \in On' : x.do \in Starting => \E y \in On : y.do \in Starting /\ y.e = x.e,
           \A x \in On : x.do \in {"unlink", "detach", "clear"} => x \in On',
           \A x \in On : x.do = "join" => x \in On' \/ x.n = 0 \/ Ended(x.n),
           \A x \in Sent' : x.do = "completed" => x \in Sent,
           \/ queue' = <<>>
           \/ /\ Do("drain") \in On => Do("drain") \in On'
              /\ \A y \in Range(queue') : y.do = "completed" => y \in Range(queue),
           multi \/ On' \subseteq On
    PROVE  Facts'
<1>1. Attachment'
  <2>1. \A e : /\ S("unlink", e, 0) \in On <=> S("unlink", e, 0) \in On'
               /\ S("detach", e, 0) \in On <=> S("detach", e, 0) \in On'
    BY DEF S
  <2>2. \A x : x.do \in {"unlink", "detach"} => (x \in On <=> x \in On')
    OBVIOUS
  <2> QED BY <2>1, <2>2 DEF Facts, Attachment
<1>2. Ownership'
  <2>1. \A e : /\ S("unlink", e, 0) \in On => S("unlink", e, 0) \in On'
               /\ S("detach", e, 0) \in On => S("detach", e, 0) \in On'
    BY DEF S
  <2> QED BY <2>1 DEF Facts, Ownership
<1>3. Held'
  <2>1. Running' = Running
    BY DEF Running
  <2>2. ASSUME NEW w \in Slot, worker[w].phase \in Active, S("join", worker[w].e, w) \in On
        PROVE  S("join", worker[w].e, w) \in On'
    <3> DEFINE x == S("join", worker[w].e, w)
    <3>1. x.do = "join" /\ x.n = w /\ w # 0 /\ ~Ended(w)
      BY <2>2 DEF S, Slot, Ended
    <3> QED BY <2>2, <3>1
  <2> QED BY <2>1, <2>2 DEF Facts, Held
<1>4. Unheld'
  <2>1. Running' = Running
    BY DEF Running
  <2> QED BY <2>1 DEF Facts, Unheld
<1>5. Reported'
  <2>1. Running' = Running
    BY DEF Running
  <2>2. Range(<<>>) = {}
    BY EmptyArranged
  <2>3. ASSUME NEW x \in On', x.do = "link", x.e \notin DOMAIN records
        PROVE  \/ Do("drain") \in On'
               \/ \A y \in Range(queue') : y.do = "completed" => y.e # x.e
    <3>1. x \in On
      BY <2>3
    <3> QED BY <2>2, <2>3, <3>1 DEF Facts, Reported
  <2> QED BY <2>1, <2>3 DEF Facts, Reported
<1>6. Gone'
  <2>1. Do("clear") \in On => Do("clear") \in On'
    BY DEF Do, S
  <2> QED BY <2>1 DEF Facts, Gone
<1> QED BY <1>1, <1>2, <1>3, <1>4, <1>5, <1>6 DEF Facts

\* Only free is left to do once the multi handle is gone.
LEMMA TopMulti ==
    ASSUME CallInvariant, todo # <<>>, cur.do # "free"
    PROVE  multi
BY TopOn DEF CallInvariant, Facts, Gone

\* Steps that matter to the facts.
Work == {"unlink", "detach", "link", "free", "join", "free_multi"}

LEMMA ReplaceKeeps ==
    ASSUME CallInvariant, todo # <<>>,
           UNCHANGED <<alive, owned, attached, records, multi, worker>>,
           cur.do \notin {"unlink", "detach", "clear", "free", "join"},
           NEW p \in Seq(GoodStep), Arranged(p), Suits(cur.do, p), todo' = p \o rest,
           \A x \in Range(p) :
               /\ x.do \notin Work
               /\ x.do \in Starting => cur.do \in Starting /\ x.e = cur.e
               /\ x.do = "completed" => x \in Sent,
           \A y \in Range(queue') : y.do = "completed" => y \in Range(queue),
           cur.do = "drain" => queue' = <<>>
    PROVE  Arranged(todo') /\ Facts'
<1>1. Arranged(todo') /\ On' = Range(p) \cup Range(rest) /\ On = {cur} \cup Range(rest)
  BY TopReplaced, TopOn DEF CallInvariant, On
<1>2. \A x \in On' : x.do \in {"unlink", "detach", "link", "free", "join", "free_multi"} => x \in On
  BY <1>1 DEF Work
<1>3. \A x \in On' : x.do \in Starting => \E y \in On : y.do \in Starting /\ y.e = x.e
  BY <1>1
<1>4. \A x \in On : x.do \in {"unlink", "detach", "clear", "join"} => x \in On'
  BY <1>1
<1>5. \A x \in Sent' : x.do = "completed" => x \in Sent
  BY <1>1 DEF Sent
<1>6. \/ queue' = <<>>
      \/ Do("drain") \in On => Do("drain") \in On'
  BY <1>1 DEF Do, S
<1>7. multi
  BY TopMulti
<1> QED BY <1>1, <1>2, <1>3, <1>4, <1>5, <1>6, <1>7, FactsKept DEF CallInvariant

\* The step on top is done and leaves nothing.
LEMMA PopKeeps ==
    ASSUME CallInvariant, todo # <<>>, todo' = rest,
           UNCHANGED <<alive, owned, attached, records, multi, worker, queue>>,
           cur.do \notin {"unlink", "detach", "clear", "free", "drain"},
           cur.do = "join" => cur.n = 0 \/ Ended(cur.n)
    PROVE  Arranged(todo') /\ Facts'
<1>1. Arranged(todo') /\ On' = Range(rest) /\ On = {cur} \cup Range(rest)
  BY TopOn DEF CallInvariant, On
<1>2. \A x \in On : x.do \in {"unlink", "detach", "clear"} => x \in On'
  BY <1>1
<1>3. \A x \in On : x.do = "join" => x \in On' \/ x.n = 0 \/ Ended(x.n)
  BY <1>1
<1>4. \A x \in Sent' : x.do = "completed" => x \in Sent
  BY <1>1 DEF Sent
<1>5. Do("drain") \in On => Do("drain") \in On'
  BY <1>1 DEF Do, S
<1> QED BY <1>1, <1>2, <1>3, <1>4, <1>5, FactsKept DEF CallInvariant

\* The call returns early.
LEMMA ReturnKeeps ==
    ASSUME CallInvariant, todo # <<>>, todo' = AfterReturn(rest), HasReturn(rest),
           UNCHANGED <<alive, owned, attached, records, multi, worker, queue>>,
           cur.do \in {"link", "launch"}
    PROVE  Arranged(todo') /\ Facts'
<1>1. /\ Arranged(todo') /\ On' \subseteq Range(rest) /\ On = {cur} \cup Range(rest)
      /\ \A y \in Range(rest) : cur.do \in Above(y.do) /\ y.do \in StepName
  BY TopOn, ArrangedReturn DEF CallInvariant, On, GoodStep, Step
<1>2. "link" \notin Upper /\ "launch" \notin Upper
  BY DEF Upper, Event
<1>3. \A x \in Range(rest) : x.do \notin {"unlink", "detach", "clear", "join", "drain"}
  BY <1>1, <1>2, AboveNamed DEF Event
<1>4. \A x \in On : x.do \in {"unlink", "detach", "clear", "join", "drain"} => x \in On'
  BY <1>1, <1>3
<1>5. Do("drain") \in On => Do("drain") \in On'
  BY <1>4 DEF Do, S
<1>6. \A x \in Sent' : x.do = "completed" => x \in Sent
  BY <1>1 DEF Sent
<1> QED BY <1>1, <1>4, <1>5, <1>6, FactsKept DEF CallInvariant

LEMMA EventStepsKeep ==
    ASSUME CallInvariant, OneCall, Drain \/ Wait \/ Woken \/ Join \/ Return \/ Pushes \/ Read
    PROVE  Arranged(todo') /\ Facts'
<1> USE DEF handleVars, recordVars, At
<1>1. CASE Drain
  <2>1. queue \in Seq(GoodStep) /\ \A x \in Range(queue) : x \in GoodStep /\ x.do \in Event
    <3>1. queue \in Seq(GoodEvent)
      BY DEF CallInvariant, IInv
    <3>2. queue \in Seq(GoodStep) /\ Range(queue) \subseteq GoodEvent
      BY <3>1, EventsOnTop, RangeOfSeq DEF Body
    <3> QED BY <3>2 DEF GoodEvent
  <2>2. Arranged(queue)
    <3>1. \A i \in DOMAIN queue : queue[i].do \in Event
      BY <2>1 DEF Range
    <3>2. \A c \in Event : Above(c) = Upper /\ c \in Upper /\ c # "link" /\ c \notin Starting
      BY AboveNamed DEF Upper, Event, Starting
    <3> QED BY <3>1, <3>2 DEF Arranged, InOrder, TimerFollows, StartOnce
  <2>3. \A x \in Range(queue) : x.do \in Upper /\ x.do \notin Work /\ x.do \notin Starting /\ x \in Sent
    BY <2>1 DEF Event, Upper, Work, Starting, Sent
  <2>4. Suits("drain", queue)
    BY <2>3, SuitsUpper DEF Upper
  <2>5. queue' = <<>> /\ Range(queue') = {}
    BY <1>1, EmptyArranged DEF Drain
  <2> QED BY <1>1, <2>1, <2>2, <2>3, <2>4, <2>5, ReplaceKeeps DEF Drain
<1>2. CASE Wait
  <2>1. CASE todo' = rest /\ UNCHANGED queue
    BY <1>2, <2>1, PopKeeps DEF Wait
  <2>2. CASE /\ queue # <<>>
             /\ todo' = <<Head(queue), Do("drain")>> \o rest
             /\ queue' = Tail(queue)
    <3> DEFINE h == Head(queue)
               p == <<h, Do("drain")>>
    <3>1. /\ h \in GoodStep /\ h.do \in Event /\ h \in Range(queue)
          /\ Range(queue') \subseteq Range(queue)
      <4>1. queue \in Seq(GoodEvent)
        BY DEF CallInvariant, IInv
      <4>2. h \in GoodEvent /\ h = queue[1] /\ 1 \in DOMAIN queue
        BY <2>2, <4>1, HeadTailProperties, EmptySeq, LenProperties
      <4>3. \A i \in 1..Len(queue') : i + 1 \in DOMAIN queue /\ queue'[i] = queue[i + 1]
        BY <2>2, <4>1, HeadTailProperties, EmptySeq, LenProperties
      <4>4. DOMAIN queue' = 1..Len(queue')
        BY <2>2, <4>1, HeadTailProperties, LenProperties
      <4> QED BY <4>2, <4>3, <4>4 DEF GoodEvent, Range
    <3>2. Do("drain") \in GoodStep /\ Do("drain").do = "drain"
      BY DEF Do, S, GoodStep, PushStep, Step, StepName
    <3>3. h.do \in Above("drain") /\ h.do # "link" /\ h.do \notin Starting /\ h.do \notin Work /\ h.do \in Upper
      BY <3>1, AboveNamed DEF Upper, Event, Starting, Work
    <3>4. "drain" \notin Starting /\ "drain" \notin Work /\ "drain" \in Upper
      BY DEF Starting, Work, Upper
    <3> HIDE DEF h
    <3>5. Arranged(p) /\ Range(p) = {h, Do("drain")} /\ p \in Seq(GoodStep)
      BY <3>1, <3>2, <3>3, <3>4, TwoArranged
    <3> HIDE DEF p
    <3>6. \A x \in Range(p) : x.do \in StepName \ {"free", "free_multi"}
      BY <3>1, <3>2, <3>5, UpperNames, <3>3, <3>4
    <3>7. Suits("wait", p)
      BY <3>6, SuitsOthers
    <3>8. \A x \in Range(p) : x.do \notin Work /\ x.do \notin Starting /\ (x.do = "completed" => x \in Sent)
      BY <3>1, <3>2, <3>3, <3>4, <3>5 DEF Sent
    <3>9. todo' = p \o rest
      BY <2>2 DEF p, h
    <3> QED BY <1>2, <3>1, <3>5, <3>7, <3>8, <3>9, ReplaceKeeps DEF Wait
  <2> QED BY <1>2, <2>1, <2>2 DEF Wait
<1>3. CASE Woken \/ Join \/ Return \/ Read
  BY <1>3, PopKeeps DEF Woken, Join, Return, Read
<1>4. CASE Pushes
  <2>1. "push" \notin cbs
    BY DEF OneCall, CallInvariant, IInv
  <2> QED BY <1>4, <2>1, PopKeeps DEF Pushes
<1> QED BY <1>1, <1>2, <1>3, <1>4

LEMMA TimerKeeps ==
    ASSUME CallInvariant, todo # <<>>, UpdateTimer(rest),
           UNCHANGED <<alive, owned, attached, records, multi, worker, queue>>,
           cur.do \in {"timer", "timer_again"}
    PROVE  Arranged(todo') /\ Facts'
<1>1. CASE todo' = rest
  BY <1>1, PopKeeps
<1>2. CASE todo' = <<Do("timer_cb")>> \o rest
  <2> DEFINE p == <<Do("timer_cb")>>
  <2>1. Do("timer_cb") \in GoodStep /\ Do("timer_cb").do = "timer_cb"
    BY DEF Do, S, GoodStep, PushStep, Step, StepName, InCallback
  <2>2. p \in Seq(GoodStep) /\ Arranged(p) /\ Range(p) = {Do("timer_cb")}
    BY <2>1, OneArranged
  <2> HIDE DEF p
  <2>3. "timer_cb" \in Upper /\ "timer_cb" \in StepName \ {"free", "free_multi"} /\ "timer" \in Upper
    BY DEF Upper, StepName, InCallback
  <2>4. Suits(cur.do, p)
    BY <2>1, <2>2, <2>3, SuitsUpper, SuitsOthers
  <2>5. \A x \in Range(p) : x.do \notin Work /\ x.do \notin Starting /\ x.do # "completed"
    BY <2>1, <2>2 DEF Work, Starting
  <2>6. todo' = p \o rest
    BY <1>2 DEF p
  <2> QED BY <2>2, <2>4, <2>5, <2>6, ReplaceKeeps
<1> QED BY <1>1, <1>2 DEF UpdateTimer

LEMMA CallbackStepsKeep ==
    ASSUME CallInvariant, OneCall,
           \/ Timer \/ TimerAgain \/ PollRemove
           \/ \E ok \in BOOLEAN : CallbackReturn(ok)
    PROVE  Arranged(todo') /\ Facts'
<1> USE DEF handleVars, recordVars, At
<1>1. CASE Timer
  BY <1>1, TimerKeeps DEF Timer
<1>2. CASE TimerAgain
  <2>1. CASE rc = "ok"
    BY <1>2, <2>1, TimerKeeps DEF TimerAgain
  <2>2. CASE rc # "ok"
    BY <1>2, <2>2, PopKeeps DEF TimerAgain
  <2> QED BY <2>1, <2>2
<1>3. CASE PollRemove
  <2>1. CASE MayCallBack("socket")
    <3> DEFINE c == S("poll_remove_cb", cur.e, cur.n)
               p == <<c>>
    <3>1. c \in GoodStep /\ c.do = "poll_remove_cb"
      <4>1. cur \in GoodStep
        BY <1>3, TopOn DEF PollRemove, CallInvariant
      <4> QED BY <4>1 DEF S, GoodStep, PushStep, Step, StepName, InCallback
    <3> HIDE DEF c
    <3>2. p \in Seq(GoodStep) /\ Arranged(p) /\ Range(p) = {c}
      BY <3>1, OneArranged
    <3> HIDE DEF p
    <3>3. "poll_remove_cb" \in Upper /\ "poll_remove" \in Upper
      BY DEF Upper
    <3>4. Suits("poll_remove", p)
      BY <3>1, <3>2, <3>3, SuitsUpper
    <3>5. \A x \in Range(p) : x.do \notin Work /\ x.do \notin Starting /\ x.do # "completed"
      BY <3>1, <3>2 DEF Work, Starting
    <3>6. todo' = p \o rest
      BY <1>3, <2>1 DEF PollRemove, p, c
    <3> QED BY <1>3, <3>2, <3>4, <3>5, <3>6, ReplaceKeeps DEF PollRemove
  <2>2. CASE ~MayCallBack("socket")
    BY <1>3, <2>2, PopKeeps DEF PollRemove
  <2> QED BY <2>1, <2>2
<1>4. ASSUME NEW ok \in BOOLEAN, CallbackReturn(ok)
      PROVE  Arranged(todo') /\ Facts'
  <2>1. todo # <<>> /\ cur.do \in InCallback /\ cur.do # "push_cb"
    BY <1>4, NoPushStep DEF CallbackReturn, AtCallback, OneCall, CallInvariant, PushStep
  <2>2. cur.do \notin {"unlink", "detach", "clear", "free", "drain", "join"}
    BY <2>1 DEF InCallback
  <2> QED BY <1>4, <2>1, <2>2, PopKeeps DEF CallbackReturn
<1> QED BY <1>1, <1>2, <1>3, <1>4

LEMMA SpawnKeeps ==
    ASSUME CallInvariant, OneCall, Spawn
    PROVE  Arranged(todo') /\ Facts'
<1> USE DEF handleVars, recordVars
<1>1. todo # <<>> /\ cur.do = "spawn" /\ cur \in GoodStep
  <2>1. At("spawn")
    BY NoPushStep DEF Spawn, OneCall, CallInvariant, PushStep
  <2> QED BY <2>1, TopOn DEF At, CallInvariant
<1>2. \E n \in Socket \cup {0} :
         \/ todo' = <<S("launch", cur.e, n)>> \o rest
         \/ todo' = <<S("poll_in_cb", cur.e, n), S("launch", cur.e, n)>> \o rest
  <2> DEFINE free == Socket \ OpenSockets
             fd == Least(free)
  <2>1. free # {} => fd \in Socket
    <3>1. free \subseteq Nat
      BY BoundAssumption DEF Socket
    <3> QED BY <3>1, LeastInSet
  <2>2. \/ todo' = <<S("launch", cur.e, 0)>> \o rest
        \/ free # {} /\ todo' = <<S("launch", cur.e, fd)>> \o rest
        \/ free # {} /\ todo' = <<S("poll_in_cb", cur.e, fd), S("launch", cur.e, fd)>> \o rest
    BY <1>1 DEF Spawn, MayCallBack
  <2> HIDE DEF free, fd
  <2> QED BY <2>1, <2>2
<1>3. PICK n \in Socket \cup {0} :
         \/ todo' = <<S("launch", cur.e, n)>> \o rest
         \/ todo' = <<S("poll_in_cb", cur.e, n), S("launch", cur.e, n)>> \o rest
  BY <1>2
<1> DEFINE a == S("poll_in_cb", cur.e, n)
           b == S("launch", cur.e, n)
<1>4. a \in GoodStep /\ b \in GoodStep /\ a.do = "poll_in_cb" /\ b.do = "launch" /\ b.e = cur.e
  <2>1. n \in Nat
    BY BoundAssumption DEF Socket
  <2> QED BY <1>1, <2>1 DEF S, GoodStep, PushStep, Step, StepName, InCallback
<1>5. todo' = <<b>> \o rest \/ todo' = <<a, b>> \o rest
  BY <1>3
<1> HIDE DEF a, b
<1>6. PICK p \in {<<b>>, <<a, b>>} : todo' = p \o rest
  BY <1>5
<1>7. p \in Seq(GoodStep) /\ Arranged(p) /\ Range(p) \subseteq {a, b}
  <2>1. a.do \in Above(b.do)
    BY <1>4, AboveNamed
  <2>2. Arranged(<<b>>) /\ Range(<<b>>) = {b}
    BY <1>4, OneArranged
  <2>3. Arranged(<<a, b>>) /\ Range(<<a, b>>) = {a, b}
    BY <1>4, <2>1, TwoArranged DEF Starting
  <2>4. <<b>> \in Seq(GoodStep) /\ <<a, b>> \in Seq(GoodStep)
    BY <1>4
  <2> QED BY <2>2, <2>3, <2>4
<1>8. Suits("spawn", p)
  BY <1>4, <1>7, SuitsWork
<1>9. \A x \in Range(p) : /\ x.do \notin Work /\ x.do # "completed"
                          /\ x.do \in Starting => cur.do \in Starting /\ x.e = cur.e
  BY <1>1, <1>4, <1>7 DEF Work, Starting
<1> QED BY <1>1, <1>6, <1>7, <1>8, <1>9, ReplaceKeeps DEF Spawn

\* What is not below a step of the call's own work.
LEMMA NotBelow ==
    ASSUME CallInvariant, todo # <<>>, NEW y \in Range(rest)
    PROVE  /\ cur.do \notin Upper => y.do \notin Event \cup {"drain", "link", "unlink", "clear", "start", "wait", "read"}
           /\ cur.do \notin Upper \cup {"unlink", "detach"} => y.do # "detach"
           /\ cur.do \notin {"spawn", "launch", "poll_in_cb"} => y.do \notin Starting
           /\ cur.do # "join" => y.do # "join"
           /\ cur.do \notin Upper \cup {"clear", "detach"} => y.do # "free_multi"
           /\ cur.do \notin {"free", "free_multi"}
<1>1. cur.do \in Above(y.do) /\ y.do \in StepName
  BY TopOn DEF CallInvariant, GoodStep, Step
<1>2. "free" \notin Upper /\ "free_multi" \notin Upper
  BY DEF Upper, Event
<1>3. cur.do \notin {"free", "free_multi"}
  BY <1>1, <1>2, AboveCases
<1> QED BY <1>1, <1>3, AboveNamed DEF Starting

LEMMA CompletedKeeps ==
    ASSUME CallInvariant, Completed
    PROVE  Arranged(todo') /\ Facts'
<1> USE DEF handleVars, recordVars, At
<1>1. todo # <<>> /\ cur.do = "completed" /\ cur \in GoodStep /\ IInv
  BY TopOn DEF Completed, CallInvariant
<1>2. CASE cur.e \notin Running
  BY <1>1, <1>2, PopKeeps DEF Completed
<1>3. CASE cur.e \in Running
  <2> DEFINE e == cur.e
             a == JoinOf(e)
             b == S("poll_remove", e, records[e].socket)
             c == Do("timer")
  <2>1. /\ records' = [records EXCEPT ![e].completed = TRUE, ![e].worker = 0, ![e].socket = 0]
        /\ todo' = <<a, b, c>> \o rest
        /\ UNCHANGED <<handleVars, multi, easies, queue, callbackVars, socketVars, worker, rc>>
    BY <1>3 DEF Completed
  <2>2. e \in DOMAIN records /\ e \in Handle /\ records \in [DOMAIN records -> Record]
    BY <1>1, <1>3 DEF Running, IInv, TypeOK, GoodStep
  <2>3. /\ a \in GoodStep /\ a.do = "join" /\ a.e = e /\ a.n = records[e].worker
        /\ b \in GoodStep /\ b.do = "poll_remove" /\ c \in GoodStep /\ c.do = "timer"
        /\ a = S("join", e, records[e].worker)
    <3>1. records[e].worker \in Nat /\ records[e].socket \in Nat
      BY <2>2, BoundAssumption DEF Record, Slot, Socket
    <3> QED BY <2>2, <3>1 DEF JoinOf, S, Do, GoodStep, PushStep, Step, StepName, InCallback
  <2>4. /\ DOMAIN records' = DOMAIN records
        /\ \A x \in DOMAIN records : x # e => records'[x] = records[x]
        /\ records'[e].completed /\ records'[e].worker = 0 /\ records'[e].started = records[e].started
    BY <2>1, <2>2 DEF Record
  <2>5. Running' = Running \ {e}
    BY <2>4 DEF Running
  <2> HIDE DEF e, a, b, c
  <2>6. /\ <<a, b, c>> \in Seq(GoodStep) /\ Arranged(<<a, b, c>>)
        /\ Range(<<a, b, c>>) = {a, b, c}
    <3>1. {"join", "poll_remove", "timer"} \cap Starting = {}
      BY DEF Starting
    <3>2. a.do \in Above(b.do) /\ a.do \in Above(c.do) /\ b.do \in Above(c.do)
      BY <2>3, AboveOthers DEF Event, StepName, InCallback
    <3> QED BY <2>3, <3>1, <3>2, ThreeArranged
  <2>7. Arranged(todo') /\ On' = {a, b, c} \cup Range(rest)
    <3>1. \A x \in Range(<<a, b, c>>) : x.do \in Upper /\ x.do \notin Starting
      BY <2>3, <2>6 DEF Upper, Starting
    <3>2. Suits("completed", <<a, b, c>>)
      BY <3>1, SuitsUpper DEF Upper, Event
    <3> QED BY <1>1, <2>1, <2>6, <3>1, <3>2, TopReplaced DEF CallInvariant, On
  <2>8. On = {cur} \cup Range(rest)
    BY <1>1, TopOn DEF CallInvariant
  <2>9. /\ \A x \in On' : x.do \in {"unlink", "detach", "link", "free", "free_multi", "completed"} => x \in On
        /\ \A x \in On : x.do # "completed" => x \in On'
        /\ \A x \in On' : x.do \notin Starting
        /\ \A x \in On' : x.do = "join" => x = a
    BY <1>1, <2>3, <2>7, <2>8, NotBelow DEF Starting
  <2>10. multi /\ Facts
    BY <1>1, TopMulti DEF CallInvariant
  <2>11. Attachment'
    <3>1. \A h : /\ S("unlink", h, 0) \in On <=> S("unlink", h, 0) \in On'
                 /\ S("detach", h, 0) \in On <=> S("detach", h, 0) \in On'
      BY <2>9 DEF S
    <3> QED BY <2>1, <2>4, <2>9, <2>10, <3>1 DEF Facts, Attachment
  <2>12. Ownership'
    <3>1. \A h : /\ S("unlink", h, 0) \in On => S("unlink", h, 0) \in On'
                 /\ S("detach", h, 0) \in On => S("detach", h, 0) \in On'
      BY <2>9 DEF S
    <3> QED BY <2>1, <2>9, <2>10, <3>1 DEF Facts, Ownership
  <2>13. Held'
    <3>1. \A h, w : S("join", h, w) \in On => S("join", h, w) \in On'
      BY <2>9 DEF S
    <3>2. a \in On' /\ UNCHANGED <<alive, worker>>
      BY <2>1, <2>7
    <3>3. ASSUME NEW w \in Slot, worker[w].phase \in Active
          PROVE  /\ worker[w].e \in alive
                 /\ \/ worker[w].e \in DOMAIN records' /\ records'[worker[w].e].worker = w
                    \/ S("join", worker[w].e, w) \in On'
      <4>1. /\ worker[w].e \in alive
            /\ \/ worker[w].e \in DOMAIN records /\ records[worker[w].e].worker = w
               \/ S("join", worker[w].e, w) \in On
        BY <2>10, <3>3 DEF Facts, Held
      <4> QED BY <2>3, <2>4, <3>1, <3>2, <4>1
    <3>4. \A x \in On' : x.do = "join" => x.e \notin Running' /\ x.e \in DOMAIN records'
      BY <2>2, <2>3, <2>4, <2>5, <2>9 DEF e
    <3> QED BY <3>2, <3>3, <3>4 DEF Held
  <2>14. Unheld'
    BY <2>4, <2>9, <2>10 DEF Facts, Unheld
  <2>15. Reported'
    <3>1. \A x \in Sent' : x.do = "completed" => x \in Sent
      BY <2>1, <2>9 DEF Sent
    <3>2. Do("drain") \in On => Do("drain") \in On'
      BY <2>9 DEF Do, S
    <3>3. \A x \in Running' : x \in Running /\ records'[x] = records[x]
      BY <2>4, <2>5 DEF Running
    <3> QED BY <2>1, <2>4, <2>9, <2>10, <3>1, <3>2, <3>3 DEF Facts, Reported
  <2>16. Gone'
    <3>1. Do("clear") \in On => Do("clear") \in On'
      BY <2>9 DEF Do, S
    <3> QED BY <2>1, <2>4, <2>9, <2>10, <3>1 DEF Facts, Gone
  <2> QED BY <2>7, <2>11, <2>12, <2>13, <2>14, <2>15, <2>16 DEF Facts
<1> QED BY <1>2, <1>3

LEMMA LinkKeeps ==
    ASSUME CallInvariant, Link
    PROVE  Arranged(todo') /\ Facts'
<1> USE DEF handleVars, recordVars, At
<1>1. /\ todo # <<>> /\ cur.do = "link" /\ cur \in GoodStep /\ cur.e \in Handle
      /\ HasReturn(rest) /\ IInv /\ Facts
  BY TopOn, TopStep DEF Link, CallInvariant, GoodStep, NeedsReturn
<1>2. CASE cur.e \in DOMAIN records
  <2>1. todo' = AfterReturn(rest)
        /\ UNCHANGED <<alive, owned, attached, records, multi, worker, queue>>
    BY <1>2 DEF Link
  <2> QED BY <1>1, <2>1, ReturnKeeps
<1>3. CASE cur.e \notin DOMAIN records
  <2> DEFINE e == cur.e
  <2>1. /\ Insert(e, FALSE) /\ todo' = rest
        /\ UNCHANGED <<alive, owned, paused, multi, messages, queue, worker>>
    BY <1>3 DEF Link
  <2>2. /\ DOMAIN records' = DOMAIN records \cup {e}
        /\ \A x \in DOMAIN records : records'[x] = records[x]
        /\ ~records'[e].started /\ records'[e].worker = 0
        /\ \A x \in Handle : attached'[x] = (x = e \/ attached[x])
        /\ DOMAIN records \subseteq Handle
    BY <1>1, <1>3, <2>1 DEF Insert, NewRecord, IInv, TypeOK
  <2>3. Running' \subseteq Running \cup {e}
    BY <2>2 DEF Running
  <2>4. e \in owned /\ e \in alive
    BY <1>1, TopOn DEF CallInvariant, Facts, Ownership
  <2>5. /\ Arranged(todo') /\ On' = Range(rest) /\ On = {cur} \cup Range(rest)
        /\ \A x \in Range(rest) :
              x.do \notin Event \cup {"drain", "link", "unlink", "clear", "detach", "join", "free_multi"} \cup Starting
    <3>1. "link" \notin Upper
      BY DEF Upper, Event
    <3> QED BY <1>1, <2>1, <3>1, TopOn, NotBelow DEF CallInvariant, On
  <2>6. multi
    BY <1>1, TopMulti
  <2>7. \A x \in On : x.do \notin {"unlink", "detach", "clear", "drain"}
    BY <1>1, <2>5
  <2>8. \A h, w : /\ S("unlink", h, 0) \notin On /\ S("detach", h, 0) \notin On
                  /\ S("join", h, w) \notin On /\ Do("drain") \notin On
    BY <1>1, <2>5, <2>7 DEF S, Do
  <2> HIDE DEF e
  <2>9. Attachment'
    <3>1. \A x \in On' : x.do \notin {"unlink", "detach"}
      BY <2>1, <2>5 DEF On
    <3>2. \A x \in Handle : attached[x] => x \in alive /\ x \in DOMAIN records
      BY <1>1, <2>8 DEF Facts, Attachment
    <3>3. \A x \in DOMAIN records' : attached'[x]
      BY <1>1, <2>2 DEF Facts, Attachment, e
    <3>4. \A x \in Handle : attached'[x] => x \in alive' /\ x \in DOMAIN records'
      BY <2>1, <2>2, <2>4, <3>2
    <3> QED BY <3>1, <3>3, <3>4 DEF Attachment
  <2>10. Ownership'
    <3>1. ASSUME NEW x \in On', x.do = "free" PROVE ~attached'[x.e] /\ x.e \in alive /\ x.e \notin owned
      <4>1. x.e \in alive /\ x.e \notin owned /\ ~attached[x.e]
        BY <1>1, <2>5, <2>8, <3>1 DEF Facts, Ownership
      <4>2. x.e \in Handle /\ x.e # e
        BY <1>1, <2>4, <4>1 DEF IInv, TypeOK
      <4> QED BY <2>2, <4>1, <4>2
    <3> QED BY <1>1, <2>1, <2>5, <3>1 DEF Facts, Ownership
  <2>11. Held'
    BY <1>1, <2>1, <2>2, <2>5, <2>8 DEF Facts, Held
  <2>12. Unheld'
    BY <1>1, <2>2, <2>5 DEF Facts, Unheld
  <2>13. Reported'
    <3>1. \A y \in Range(queue) : y.do = "completed" => y.e # e
      BY <1>1, <1>3, <2>5, <2>8 DEF Facts, Reported, e
    <3>2. \A x \in Sent' : x.do = "completed" => x \in Sent /\ x.e # e
      BY <2>1, <2>5, <3>1 DEF Sent, Event
    <3> QED BY <1>1, <2>2, <2>3, <2>5, <3>2 DEF Facts, Reported, Running
  <2>14. Gone'
    BY <2>1, <2>5, <2>6 DEF Gone
  <2> QED BY <2>5, <2>9, <2>10, <2>11, <2>12, <2>13, <2>14 DEF Facts
<1> QED BY <1>2, <1>3

LEMMA UnlinkKeeps ==
    ASSUME CallInvariant, Unlink
    PROVE  Arranged(todo') /\ Facts'
<1> USE DEF handleVars, recordVars, At
<1> DEFINE e == cur.e
<1>1. /\ todo # <<>> /\ cur.do = "unlink" /\ cur \in GoodStep /\ cur \in On
      /\ HasReturn(rest) /\ IInv /\ Facts /\ rest \in Seq(GoodStep) /\ Arranged(rest)
  BY TopOn, TopStep DEF Unlink, CallInvariant, NeedsReturn
<1>2. /\ On = {cur} \cup Range(rest)
      /\ \A x \in Range(rest) :
            x.do \notin Event \cup {"drain", "link", "unlink", "clear", "join", "free_multi"} \cup Starting
  <2>1. "unlink" \notin Upper
    BY DEF Upper, Event
  <2> QED BY <1>1, <2>1, TopOn, NotBelow DEF CallInvariant
<1>3. UNCHANGED <<alive, owned, attached, multi, queue, worker>> /\ multi
  BY <1>1, TopMulti DEF Unlink
<1>4. e \in Handle /\ cur = S("unlink", e, 0) /\ S("detach", e, 0) \in On
  BY <1>1 DEF Facts, Attachment
<1>5. \A x \in On : x.do = "detach" => x.e = e
  BY <1>1 DEF Facts, Attachment
<1> HIDE DEF e
<1>6. CASE e \notin DOMAIN records
  <2>1. todo' = AfterReturn(rest) /\ UNCHANGED records
    BY <1>6 DEF Unlink, e
  <2>2. Arranged(todo') /\ On' \subseteq Range(rest)
    BY <1>1, <2>1, ArrangedReturn DEF On
  <2>3. ~attached[e]
    BY <1>1, <1>4, <1>6 DEF Facts, Attachment
  <2>4. \A h, w : S("join", h, w) \notin On /\ (S("unlink", h, 0) \in On => h = e)
                  /\ (S("detach", h, 0) \in On => h = e)
    <3>1. \A x \in On : (x.do = "unlink" => x = cur) /\ x.do # "join"
      BY <1>1, <1>2
    <3> QED BY <1>4, <1>5, <3>1 DEF S
  <2>5. Attachment'
    <3>1. \A x \in Handle : attached[x] => x \in alive /\ x \in DOMAIN records
      BY <1>1, <1>4, <2>3, <2>4 DEF Facts, Attachment
    <3> QED BY <1>1, <1>2, <1>3, <1>5, <1>6, <2>1, <2>2, <3>1 DEF Facts, Attachment
  <2>6. Ownership'
    <3>1. \A x \in On' : x.do = "free" => ~attached[x.e] /\ x.e \in alive /\ x.e \notin owned
      BY <1>1, <1>2, <2>2, <2>3, <2>4 DEF Facts, Ownership
    <3> QED BY <1>1, <1>2, <1>3, <2>2, <3>1 DEF Facts, Ownership
  <2>7. Held'
    BY <1>1, <1>2, <1>3, <2>1, <2>2, <2>4 DEF Facts, Held, Running
  <2>8. Unheld'
    BY <1>1, <1>2, <2>1, <2>2 DEF Facts, Unheld, Running
  <2>9. Reported'
    <3>1. \A x \in Sent' : x \in Sent
      BY <1>2, <1>3, <2>2 DEF Sent
    <3> QED BY <1>1, <1>2, <1>3, <2>1, <2>2, <3>1 DEF Facts, Reported, Running
  <2>10. Gone'
    BY <1>2, <1>3, <2>2 DEF Gone
  <2> QED BY <2>2, <2>5, <2>6, <2>7, <2>8, <2>9, <2>10 DEF Facts
<1>7. CASE e \in DOMAIN records
  <2> DEFINE a == JoinOf(e)
  <2>1. todo' = <<a>> \o rest /\ Erase(e)
    BY <1>7 DEF Unlink, e
  <2>2. /\ a \in GoodStep /\ a.do = "join" /\ a.e = e
        /\ a = S("join", e, records[e].worker)
    <3>1. e \in Handle /\ records[e].worker \in Nat
      BY <1>1, <1>7, BoundAssumption DEF IInv, TypeOK, Record, Slot
    <3> QED BY <3>1 DEF JoinOf, S, GoodStep, PushStep, Step, StepName
  <2> HIDE DEF a
  <2>3. /\ DOMAIN records' = DOMAIN records \ {e}
        /\ \A x \in DOMAIN records' : records'[x] = records[x]
    BY <2>1 DEF Erase
  <2>4. Running' = Running \ {e}
    BY <2>3 DEF Running
  <2>5. Arranged(todo') /\ On' = {a} \cup Range(rest)
    <3>1. <<a>> \in Seq(GoodStep) /\ Arranged(<<a>>) /\ Range(<<a>>) = {a}
      BY <2>2, OneArranged
    <3>2. Suits("unlink", <<a>>)
      BY <2>2, <3>1, SuitsWork
    <3>3. \A x \in Range(<<a>>) : x.do \notin Starting
      BY <2>2, <3>1 DEF Starting
    <3> QED BY <1>1, <2>1, <3>1, <3>2, <3>3, TopReplaced DEF CallInvariant, On
  <2>6. /\ \A h : S("unlink", h, 0) \notin On'
        /\ \A h : S("detach", h, 0) \in On => S("detach", h, 0) \in On'
        /\ \A x \in On' : x.do \notin {"unlink", "link", "clear", "drain", "free_multi"} \cup Starting
        /\ \A x \in On' : x.do = "join" => x = a
        /\ \A x \in On' : x.do \in {"detach", "free"} => x \in On
    BY <1>1, <1>2, <2>2, <2>5 DEF S, Starting
  <2>7. Attachment'
    BY <1>1, <1>3, <1>4, <1>5, <2>3, <2>6 DEF Facts, Attachment
  <2>8. Ownership'
    <3>1. ASSUME NEW x \in On', x.do = "free", attached[x.e] PROVE S("detach", x.e, 0) \in On'
      <4>1. S("unlink", x.e, 0) \in On \/ S("detach", x.e, 0) \in On
        BY <1>1, <2>6, <3>1 DEF Facts, Ownership
      <4>2. S("unlink", x.e, 0) \in On => S("detach", x.e, 0) \in On
        BY <1>1 DEF Facts, Attachment, S
      <4> QED BY <2>6, <4>1, <4>2
    <3> QED BY <1>1, <1>3, <2>6, <3>1 DEF Facts, Ownership
  <2>9. Held'
    <3>1. \A h, w : S("join", h, w) \notin On
      BY <1>1, <1>2 DEF S
    <3>2. ASSUME NEW w \in Slot, worker[w].phase \in Active
          PROVE  /\ worker[w].e \in alive
                 /\ \/ worker[w].e \in DOMAIN records' /\ records'[worker[w].e].worker = w
                    \/ S("join", worker[w].e, w) \in On'
      <4>1. worker[w].e \in alive /\ worker[w].e \in DOMAIN records /\ records[worker[w].e].worker = w
        BY <1>1, <3>1, <3>2 DEF Facts, Held
      <4> QED BY <2>2, <2>3, <2>5, <4>1
    <3> QED BY <1>3, <2>2, <2>4, <2>6, <3>2 DEF Held
  <2>10. Unheld'
    BY <1>1, <2>3, <2>6 DEF Facts, Unheld
  <2>11. Reported'
    <3>1. \A x \in Sent' : x.do = "completed" => x \in Sent
      BY <1>2, <1>3, <2>2, <2>5 DEF Sent
    <3>2. \A x \in Running' : x \in Running /\ records'[x] = records[x]
      BY <2>3, <2>4 DEF Running
    <3> QED BY <1>1, <2>6, <3>1, <3>2 DEF Facts, Reported
  <2>12. Gone'
    BY <1>3, <2>6 DEF Gone
  <2> QED BY <2>5, <2>7, <2>8, <2>9, <2>10, <2>11, <2>12 DEF Facts
<1> QED BY <1>6, <1>7

LEMMA DetachKeeps ==
    ASSUME CallInvariant, Detach
    PROVE  Arranged(todo') /\ Facts'
<1> USE DEF handleVars, recordVars, At
<1> DEFINE e == cur.e
<1>1. /\ todo # <<>> /\ cur.do = "detach" /\ cur \in On /\ IInv /\ Facts /\ Arranged(rest)
      /\ todo' = rest /\ On' = Range(rest) /\ On = {cur} \cup Range(rest)
  BY TopOn DEF Detach, CallInvariant, On
<1>2. \A x \in Range(rest) :
          x.do \notin Event \cup {"drain", "link", "unlink", "clear", "join"} \cup Starting
  <2>1. "detach" \notin Upper
    BY DEF Upper, Event
  <2> QED BY <1>1, <2>1, NotBelow
<1>3. /\ UNCHANGED <<alive, owned, records, multi, queue, worker>> /\ multi
      /\ \A x \in Handle : attached'[x] = (x # e /\ attached[x])
  BY <1>1, TopMulti DEF Detach, IInv, TypeOK
<1>4. \A h, w : /\ S("unlink", h, 0) \notin On /\ S("join", h, w) \notin On
                /\ h # e /\ S("detach", h, 0) \in On => S("detach", h, 0) \in On'
                /\ Do("clear") \notin On
  <2>1. \A x \in On : x.do \notin {"unlink", "join", "clear"}
    BY <1>1, <1>2
  <2> QED BY <1>1, <2>1 DEF S, Do
<1>5. e \notin DOMAIN records
  BY <1>1, <1>4 DEF Facts, Attachment
<1> HIDE DEF e
<1>6. DOMAIN records \subseteq Handle
  BY <1>1 DEF IInv, TypeOK
<1>7. \A x \in On' : x \in On /\ x.do \notin {"unlink", "link", "join", "clear"} \cup Starting
  BY <1>1, <1>2
<1>8. Attachment'
  <2>1. \A x \in DOMAIN records : attached'[x]
    BY <1>1, <1>3, <1>5, <1>6 DEF Facts, Attachment
  <2>2. ASSUME NEW x \in Handle, attached'[x]
        PROVE  x \in alive /\ (x \in DOMAIN records \/ S("detach", x, 0) \in On')
    <3>1. attached[x] /\ x # e
      BY <1>3, <2>2
    <3> QED BY <1>1, <1>4, <3>1 DEF Facts, Attachment
  <2>3. \A x \in On' : ~(x.do = "detach" /\ x.e \in DOMAIN records)
    BY <1>1, <1>4, <1>7 DEF Facts, Attachment
  <2>4. \A h : S("unlink", h, 0) \notin On'
    BY <1>4, <1>7
  <2> QED BY <1>3, <1>7, <2>1, <2>2, <2>3, <2>4 DEF Attachment
<1>9. Ownership'
  <2>1. ASSUME NEW x \in On', x.do = "free", attached'[x.e] PROVE S("detach", x.e, 0) \in On'
    <3>1. x.e \in Handle
      BY <1>1, <1>7, <2>1 DEF Facts, Ownership, IInv, TypeOK
    <3>2. attached[x.e] /\ x.e # e
      BY <1>3, <2>1, <3>1
    <3> QED BY <1>1, <1>4, <1>7, <2>1, <3>2 DEF Facts, Ownership
  <2> QED BY <1>1, <1>3, <1>7, <2>1 DEF Facts, Ownership
<1>10. Held'
  <2>1. \A w \in Slot : worker[w].phase \in Active =>
            worker[w].e \in alive /\ worker[w].e \in DOMAIN records /\ records[worker[w].e].worker = w
    BY <1>1, <1>4 DEF Facts, Held
  <2> QED BY <1>3, <1>7, <2>1 DEF Held
<1>11. Unheld'
  BY <1>1, <1>3, <1>7 DEF Facts, Unheld
<1>12. Reported'
  <2>1. \A x \in Sent' : x \in Sent
    BY <1>3, <1>7 DEF Sent
  <2> QED BY <1>1, <1>3, <1>7, <2>1 DEF Facts, Reported, Running
<1>13. Gone'
  BY <1>1, <1>3, <1>4, <1>7 DEF Facts, Gone
<1> QED BY <1>1, <1>8, <1>9, <1>10, <1>11, <1>12, <1>13 DEF Facts

LEMMA FreeKeeps ==
    ASSUME CallInvariant, Free
    PROVE  Arranged(todo') /\ Facts'
<1> USE DEF handleVars, recordVars, At
<1> DEFINE e == cur.e
<1>1. /\ todo # <<>> /\ cur.do = "free" /\ cur \in On /\ IInv /\ Facts /\ Arranged(rest)
      /\ todo' = rest /\ On' = Range(rest) /\ On = {cur} \cup Range(rest)
  BY TopOn DEF Free, CallInvariant, On
<1>2. On' = {} /\ On = {cur}
  BY <1>1, NotBelow
<1>3. \A h, w : /\ S("unlink", h, 0) \notin On /\ S("join", h, w) \notin On
                /\ S("detach", h, 0) \notin On
  BY <1>1, <1>2 DEF S
<1>4. e \in alive /\ e \notin owned /\ ~attached[e] /\ e \notin DOMAIN records /\ e \in Handle
  BY <1>1, <1>3 DEF Facts, Ownership, Attachment, IInv, TypeOK
<1>5. /\ UNCHANGED <<owned, records, multi, queue, worker>> /\ alive' = alive \ {e}
      /\ \A x \in Handle : attached'[x] = (x # e /\ attached[x])
      /\ DOMAIN records \subseteq Handle
  BY <1>1 DEF Free, IInv, TypeOK
<1> HIDE DEF e
<1>6. Attachment'
  BY <1>1, <1>2, <1>3, <1>4, <1>5 DEF Facts, Attachment
<1>7. Ownership'
  BY <1>1, <1>2, <1>4, <1>5 DEF Facts, Ownership
<1>8. Held'
  <2>1. \A w \in Slot : worker[w].phase \in Active =>
            worker[w].e \in alive' /\ worker[w].e \in DOMAIN records /\ records[worker[w].e].worker = w
    BY <1>1, <1>3, <1>4, <1>5 DEF Facts, Held
  <2> QED BY <1>2, <1>5, <2>1 DEF Held
<1>9. Unheld'
  BY <1>1, <1>2, <1>5 DEF Facts, Unheld
<1>10. Reported'
  <2>1. \A x \in Sent' : x \in Sent
    BY <1>2, <1>5 DEF Sent
  <2> QED BY <1>1, <1>2, <1>5, <2>1 DEF Facts, Reported, Running
<1>11. Gone'
  BY <1>1, <1>2, <1>5 DEF Facts, Gone
<1> QED BY <1>1, <1>6, <1>7, <1>8, <1>9, <1>10, <1>11 DEF Facts

LEMMA FreeMultiKeeps ==
    ASSUME CallInvariant, FreeMulti
    PROVE  Arranged(todo') /\ Facts'
<1> USE DEF handleVars, recordVars, At
<1>1. /\ todo # <<>> /\ cur.do = "free_multi" /\ cur \in On /\ IInv /\ Facts /\ Arranged(rest)
      /\ todo' = rest /\ On' = Range(rest) /\ On = {cur} \cup Range(rest)
  BY TopOn DEF FreeMulti, CallInvariant, On
<1>2. On' = {} /\ On = {cur}
  BY <1>1, NotBelow
<1>3. \A h, w : /\ S("unlink", h, 0) \notin On /\ S("join", h, w) \notin On
                /\ S("detach", h, 0) \notin On /\ Do("clear") \notin On
  BY <1>1, <1>2 DEF S, Do
<1>4. DOMAIN records = {}
  BY <1>1, <1>3 DEF Facts, Gone
<1>5. UNCHANGED <<alive, owned, attached, records, worker>> /\ Range(queue') = {}
  BY EmptyArranged DEF FreeMulti
<1>6. Attachment' /\ Ownership' /\ Unheld'
  BY <1>1, <1>2, <1>3, <1>4, <1>5 DEF Facts, Attachment, Ownership, Unheld
<1>7. Held'
  BY <1>1, <1>2, <1>3, <1>4, <1>5 DEF Facts, Held
<1>8. Reported' /\ Gone'
  BY <1>2, <1>4, <1>5 DEF Reported, Gone, Sent
<1> QED BY <1>1, <1>6, <1>7, <1>8 DEF Facts

\* cleanup_handle: a join and a detach for every handle.
LEMMA ClearKeeps ==
    ASSUME CallInvariant, Clear
    PROVE  Arranged(todo') /\ Facts'
<1> USE DEF handleVars, recordVars, At
<1> DEFINE joins == [i \in 1..Len(easies) |-> JoinOf(easies[i])]
           detaches == [i \in 1..Len(easies) |-> S("detach", easies[i], 0)]
           p == joins \o detaches
<1>1. /\ todo # <<>> /\ cur.do = "clear" /\ cur \in On /\ IInv /\ Facts
      /\ On = {cur} \cup Range(rest) /\ multi
  BY TopOn, TopMulti DEF Clear, CallInvariant, On
<1>2. /\ todo' = p \o rest /\ records' = NoRecords
      /\ UNCHANGED <<alive, owned, attached, multi, queue, worker>>
  BY DEF Clear
<1>3. Len(easies) \in Nat /\ DOMAIN easies = 1..Len(easies) /\ DOMAIN records' = {}
  BY <1>1, <1>2, LenProperties DEF IInv, TypeOK, NoRecords
<1>4. ASSUME NEW i \in 1..Len(easies)
      PROVE  /\ JoinOf(easies[i]) \in GoodStep /\ S("detach", easies[i], 0) \in GoodStep
             /\ JoinOf(easies[i]) = S("join", easies[i], records[easies[i]].worker)
  <2>1. easies[i] \in DOMAIN records /\ easies[i] \in Handle
    BY <1>1, <1>3, <1>4 DEF IInv, EasiesUnique, TypeOK
  <2>2. records[easies[i]].worker \in Nat
    BY <1>1, <2>1, BoundAssumption DEF IInv, TypeOK, Record, Slot
  <2> QED BY <2>1, <2>2 DEF JoinOf, S, GoodStep, PushStep, Step, StepName
<1>5. /\ joins \in Seq(GoodStep) /\ Range(joins) = {JoinOf(easies[i]) : i \in 1..Len(easies)}
      /\ detaches \in Seq(GoodStep) /\ Range(detaches) = {S("detach", easies[i], 0) : i \in 1..Len(easies)}
      /\ DOMAIN joins = 1..Len(easies) /\ \A i \in DOMAIN joins : joins[i].do = "join"
      /\ DOMAIN detaches = 1..Len(easies) /\ \A i \in DOMAIN detaches : detaches[i].do = "detach"
  <2>1. /\ DOMAIN joins = 1..Len(easies) /\ \A i \in 1..Len(easies) : joins[i] = JoinOf(easies[i])
        /\ DOMAIN detaches = 1..Len(easies)
        /\ \A i \in 1..Len(easies) : detaches[i] = S("detach", easies[i], 0)
    OBVIOUS
  <2>2. \A i \in 1..Len(easies) : joins[i].do = "join" /\ detaches[i].do = "detach"
    BY <2>1 DEF JoinOf, S
  <2>3. joins \in Seq(GoodStep) /\ detaches \in Seq(GoodStep)
    BY <1>3, <1>4
  <2> HIDE DEF joins, detaches
  <2> QED BY <2>1, <2>2, <2>3 DEF Range
<1>6. Range(joins) = {S("join", h, records[h].worker) : h \in DOMAIN records}
      /\ Range(detaches) = {S("detach", h, 0) : h \in DOMAIN records}
  <2>1. DOMAIN records = {easies[i] : i \in 1..Len(easies)}
    BY <1>1, <1>3 DEF IInv, EasiesUnique
  <2>2. \A i \in 1..Len(easies) : easies[i] \in DOMAIN records
    BY <2>1
  <2>3. \A h \in DOMAIN records : \E i \in 1..Len(easies) : h = easies[i]
    BY <2>1
  <2> HIDE DEF joins, detaches
  <2>4. Range(joins) = {S("join", h, records[h].worker) : h \in DOMAIN records}
    BY <1>5, <2>2, <2>3 DEF JoinOf
  <2>5. Range(detaches) = {S("detach", h, 0) : h \in DOMAIN records}
    BY <1>5, <2>2, <2>3
  <2> QED BY <2>4, <2>5
<1> HIDE DEF joins, detaches
<1>7. Arranged(joins) /\ Arranged(detaches)
  BY <1>5, AboveNamed DEF Arranged, InOrder, TimerFollows, StartOnce, Starting
<1>8. /\ p \in Seq(GoodStep) /\ Arranged(p) /\ Range(p) = Range(joins) \cup Range(detaches)
  <2>1. \A x \in Range(joins), y \in Range(detaches) :
            /\ x.do \in Above(y.do) /\ x.do \notin Starting
    BY <1>6, AboveNamed DEF S, Starting, Upper
  <2> QED BY <1>5, <1>7, <2>1, ArrangedConcat, ConcatProperties
<1> HIDE DEF p
<1>9. \A x \in Range(p) : x.do \in {"join", "detach"}
  BY <1>6, <1>8 DEF S
<1>10. Arranged(todo') /\ On' = Range(p) \cup Range(rest)
  <2>1. Suits("clear", p)
    BY <1>9, SuitsWork
  <2>2. \A x \in Range(p) : x.do \notin Starting
    BY <1>9 DEF Starting
  <2> QED BY <1>1, <1>2, <1>8, <2>1, <2>2, TopReplaced DEF CallInvariant, On
<1>11. \A x \in Range(rest) :
          x.do \notin Event \cup {"drain", "link", "unlink", "clear", "join", "detach"} \cup Starting
  <2>1. "clear" \notin Upper
    BY DEF Upper, Event
  <2> QED BY <1>1, <2>1, NotBelow
<1>12. \A x \in On' : /\ x.do \notin {"link", "unlink"} \cup Starting
                      /\ x.do \in {"free", "completed"} => x \in On
  BY <1>1, <1>9, <1>10, <1>11 DEF Starting
<1>13. \A h, w : /\ S("unlink", h, 0) \notin On' /\ S("unlink", h, 0) \notin On
                 /\ S("detach", h, 0) \notin On /\ S("join", h, w) \notin On
  <2>1. \A x \in On : x.do \notin {"unlink", "detach", "join"}
    BY <1>1, <1>11
  <2> QED BY <1>12, <2>1 DEF S
<1>14. \A h \in DOMAIN records : S("detach", h, 0) \in On' /\ S("join", h, records[h].worker) \in On'
  BY <1>6, <1>8, <1>10
<1>15. Running' = {}
  BY <1>3 DEF Running
<1>16. Attachment'
  BY <1>1, <1>2, <1>3, <1>12, <1>13, <1>14 DEF Facts, Attachment
<1>17. Ownership'
  <2>1. ASSUME NEW x \in On', x.do = "free", attached[x.e] PROVE FALSE
    BY <1>1, <1>12, <1>13, <1>14, <2>1 DEF Facts, Ownership
  <2> QED BY <1>1, <1>2, <1>12, <2>1 DEF Facts, Ownership
<1>18. Held'
  <2>1. \A w \in Slot : worker[w].phase \in Active =>
            worker[w].e \in alive /\ S("join", worker[w].e, w) \in On'
    BY <1>1, <1>12, <1>13, <1>14 DEF Facts, Held
  <2> QED BY <1>2, <1>12, <1>15, <2>1 DEF Held
<1>19. Unheld' /\ Reported' /\ Gone'
  BY <1>1, <1>2, <1>3, <1>12, <1>15 DEF Unheld, Reported, Gone
<1> QED BY <1>10, <1>16, <1>17, <1>18, <1>19 DEF Facts

\* A list of the members of a finite set that is as long as the set names none twice.
LEMMA OrdersOnce ==
    ASSUME NEW H, IsFiniteSet(H), NEW order \in Orders(H)
    PROVE  /\ Cardinality(H) \in Nat
           /\ DOMAIN order = 1..Cardinality(H)
           /\ \A i \in DOMAIN order : order[i] \in H
           /\ \A i, j \in DOMAIN order : order[i] = order[j] => i = j
<1> DEFINE n == Cardinality(H)
           D == 1..n
<1>1. n \in Nat
  BY FS_CardinalityType
<1>2. DOMAIN order = D /\ order \in [D -> H] /\ \A e \in H : \E i \in D : order[i] = e
  BY DEF Orders
<1>3. IsFiniteSet(D) /\ Cardinality(D) = n
  <2>1. /\ IsFiniteSet(D)
        /\ Cardinality(D) = IF 1 > n THEN 0 ELSE n - 1 + 1
    BY <1>1, FS_Interval
  <2> QED BY <1>1, <2>1
<1> HIDE DEF D
<1>4. order \in Surjection(D, H)
  BY <1>2 DEF Surjection
<1>5. order \in Injection(D, H)
  BY <1>3, <1>4, FS_Surjection
<1>6. \A i, j \in D : order[i] = order[j] => i = j
  BY <1>2, <1>5 DEF Injection, IsInjective
<1> QED BY <1>1, <1>2, <1>6 DEF D

LEMMA StartKeeps ==
    ASSUME CallInvariant, Start
    PROVE  Arranged(todo') /\ Facts'
<1> USE DEF handleVars, recordVars, At
<1>1. /\ todo # <<>> /\ cur.do = "start" /\ cur \in On /\ IInv /\ Facts
      /\ On = {cur} \cup Range(rest) /\ multi
  BY TopOn, TopMulti DEF Start, CallInvariant, On
<1>2. PICK order \in Orders(Unstarted) :
          todo' = [i \in DOMAIN order |-> S("spawn", order[i], 0)]
                  \o <<Do("timer"), Do("timer_again")>> \o rest
  BY DEF Start
<1> DEFINE spawns == [i \in DOMAIN order |-> S("spawn", order[i], 0)]
           timers == <<Do("timer"), Do("timer_again")>>
           p == spawns \o timers
<1>3. UNCHANGED <<alive, owned, attached, multi, queue, worker>> /\ todo' = p \o rest
  BY <1>2 DEF Start
<1>4. /\ DOMAIN records' = DOMAIN records
      /\ \A x \in DOMAIN records : /\ records'[x].completed = records[x].completed
                                   /\ records'[x].worker = records[x].worker
                                   /\ records[x].started => records'[x].started
                                   /\ x \in Unstarted => records'[x].started
                                   /\ x \notin Unstarted => records'[x].started = records[x].started
  <2>1. records \in [DOMAIN records -> Record]
    BY <1>1 DEF IInv, TypeOK
  <2>2. records' = [e \in DOMAIN records |->
                      IF e \in Unstarted THEN [records[e] EXCEPT !.started = TRUE]
                      ELSE records[e]]
    BY DEF Start
  <2> QED BY <2>1, <2>2 DEF Record
<1>5. Running' = Running
  BY <1>4 DEF Running
<1>6. Unstarted \subseteq Handle /\ IsFiniteSet(Unstarted)
  <2>1. Unstarted \subseteq Handle
    BY <1>1 DEF Unstarted, IInv, TypeOK
  <2> QED BY <2>1, HandleAssumption, FS_Subset
<1>7. /\ Cardinality(Unstarted) \in Nat
      /\ DOMAIN order = 1..Cardinality(Unstarted)
      /\ \A i \in DOMAIN order : order[i] \in Unstarted
      /\ \A i, j \in DOMAIN order : order[i] = order[j] => i = j
  BY <1>6, OrdersOnce
<1>8. /\ DOMAIN spawns = DOMAIN order
      /\ \A i \in DOMAIN order : /\ spawns[i].do = "spawn" /\ spawns[i].e = order[i]
                                 /\ spawns[i].e \in Unstarted /\ spawns[i] \in GoodStep
  BY <1>6, <1>7 DEF S, GoodStep, PushStep, Step, StepName
<1>9. spawns \in Seq(GoodStep)
  BY <1>7, <1>8
<1>10. timers \in Seq(GoodStep) /\ Arranged(timers) /\ \A x \in Range(timers) : x.do \in {"timer", "timer_again"}
  <2>1. /\ Do("timer") \in GoodStep /\ Do("timer_again") \in GoodStep
        /\ Do("timer").do = "timer" /\ Do("timer_again").do = "timer_again"
    BY DEF Do, S, GoodStep, PushStep, Step, StepName
  <2>2. "timer" \in Above("timer_again")
    BY AboveOthers DEF StepName, Event, InCallback
  <2> QED BY <2>1, <2>2, TwoArranged DEF Starting
<1> HIDE DEF spawns, timers
<1>11. Arranged(spawns) /\ \A x \in Range(spawns) : x.do = "spawn" /\ x.e \in Unstarted
  <2>1. InOrder(spawns)
    BY <1>8, AboveNamed DEF InOrder
  <2>2. TimerFollows(spawns) /\ StartOnce(spawns)
    BY <1>7, <1>8 DEF TimerFollows, StartOnce
  <2> QED BY <1>8, <2>1, <2>2 DEF Arranged, Range
<1>12. p \in Seq(GoodStep) /\ Arranged(p) /\ Range(p) = Range(spawns) \cup Range(timers)
  <2>1. "spawn" \in Above("timer") /\ "spawn" \in Above("timer_again")
    BY AboveOthers DEF StepName, Event, InCallback
  <2>2. \A x \in Range(spawns), y \in Range(timers) :
            x.do \in Above(y.do) /\ y.do \notin Starting
    BY <1>10, <1>11, <2>1 DEF Starting
  <2> QED BY <1>9, <1>10, <1>11, <2>2, ArrangedConcat, ConcatProperties
<1> HIDE DEF p
<1>13. Arranged(todo') /\ On' = Range(spawns) \cup Range(timers) \cup Range(rest)
  <2>1. \A x \in Range(p) : x.do \in StepName \ {"free", "free_multi"}
    BY <1>10, <1>11, <1>12 DEF StepName
  <2>2. Suits("start", p)
    BY <2>1, SuitsOthers
  <2> QED BY <1>1, <1>3, <1>12, <2>2, TopReplaced DEF CallInvariant, On
<1>14. \A x \in Range(rest) :
          x.do \notin Event \cup {"drain", "link", "unlink", "clear", "join", "detach", "free_multi"} \cup Starting
  <2>1. "start" \notin Upper
    BY DEF Upper, Event
  <2> QED BY <1>1, <2>1, NotBelow
<1>15. /\ \A x \in On' : /\ x.do \notin {"link", "unlink", "join", "detach", "free_multi"}
                         /\ x.do \in Starting => x.e \in Unstarted
                         /\ x.do \in {"free", "completed"} => x \in On
       /\ \A x \in On : x.do \notin {"unlink", "join", "detach"}
  BY <1>1, <1>10, <1>11, <1>13, <1>14 DEF Starting
<1>16. \A h, w : /\ S("unlink", h, 0) \notin On /\ S("detach", h, 0) \notin On
                 /\ S("join", h, w) \notin On /\ S("unlink", h, 0) \notin On'
  BY <1>15 DEF S
<1>17. Attachment'
  BY <1>1, <1>3, <1>4, <1>15, <1>16 DEF Facts, Attachment
<1>18. Ownership'
  BY <1>1, <1>3, <1>15, <1>16 DEF Facts, Ownership
<1>19. Held'
  BY <1>1, <1>3, <1>4, <1>15, <1>16 DEF Facts, Held
<1>20. Unheld'
  <2>1. \A x \in On' : x.do \in Starting =>
            x.e \in Running' /\ records'[x.e].started /\ records'[x.e].worker = 0
    BY <1>1, <1>4, <1>5, <1>15 DEF Facts, Unheld, Unstarted, Running
  <2> QED BY <1>1, <1>4, <2>1 DEF Facts, Unheld, Unstarted
<1>21. Reported'
  <2>1. \A x \in Sent' : x.do = "completed" => x \in Sent
    BY <1>3, <1>15 DEF Sent
  <2> QED BY <1>1, <1>4, <1>5, <1>15, <2>1 DEF Facts, Reported, Running
<1>22. Gone'
  BY <1>1, <1>3, <1>15 DEF Gone
<1> QED BY <1>13, <1>17, <1>18, <1>19, <1>20, <1>21, <1>22 DEF Facts

LEMMA LaunchKeeps ==
    ASSUME CallInvariant, Launch
    PROVE  Arranged(todo') /\ Facts'
<1> USE DEF handleVars, recordVars, At
<1>1. /\ todo # <<>> /\ cur.do = "launch" /\ cur \in On /\ IInv /\ Facts /\ HasReturn(rest)
      /\ On = {cur} \cup Range(rest) /\ multi /\ Arranged(rest)
      /\ \A y \in Range(rest) : y.do \in Starting => y.e # cur.e
  BY TopOn, TopMulti, TopStep DEF Launch, CallInvariant, On, NeedsReturn, Starting
<1>2. CASE rc # "ok"
  BY <1>1, <1>2, ReturnKeeps DEF Launch
<1>3. CASE rc = "ok"
  <2> DEFINE e == cur.e
             v == Least(FreeSlots)
  <2>1. /\ StartWorker(e, cur.n) /\ todo' = rest /\ On' = Range(rest)
        /\ UNCHANGED <<alive, owned, attached, multi, queue>>
    BY <1>3 DEF Launch, On
  <2>2. e \in Running /\ records[e].started /\ records[e].worker = 0 /\ e \in DOMAIN records
        /\ e \in alive
    <3>1. cur.do \in Starting
      BY <1>1 DEF Starting
    <3>2. e \in Running /\ records[e].started /\ records[e].worker = 0 /\ e \in DOMAIN records
      BY <1>1, <3>1 DEF Facts, Unheld, Running
    <3> QED BY <1>1, <3>2 DEF Facts, Attachment, IInv, TypeOK
  <2>3. v \in Slot /\ v # 0 /\ worker[v].phase \notin Active
    <3>1. FreeSlots \subseteq Slot /\ Slot \subseteq Nat /\ FreeSlots # {}
      BY <2>1, BoundAssumption DEF FreeSlots, Slot, StartWorker
    <3>2. FreeSlots \subseteq Nat
      BY <3>1
    <3>3. v \in FreeSlots
      BY <3>1, <3>2, LeastInSet
    <3> QED BY <3>3, BoundAssumption DEF FreeSlots, Slot
  <2>4. /\ worker' = [worker EXCEPT ![v] = [e |-> e, phase |-> "spawned"]]
        /\ records' = [records EXCEPT ![e].worker = v, ![e].socket = cur.n]
    BY <2>1, <2>2 DEF StartWorker
  <2> HIDE DEF e, v
  <2>5. /\ DOMAIN records' = DOMAIN records
        /\ \A x \in DOMAIN records : x # e => records'[x] = records[x]
        /\ records'[e].worker = v /\ records'[e].started = records[e].started
        /\ records'[e].completed = records[e].completed
    <3>1. records \in [DOMAIN records -> Record]
      BY <1>1 DEF IInv, TypeOK
    <3> QED BY <2>2, <2>4, <3>1 DEF Record
  <2>6. Running' = Running
    BY <2>2, <2>5 DEF Running
  <2>7. worker'[v].e = e /\ \A x \in Slot : x # v => worker'[x] = worker[x]
    BY <1>1, <2>3, <2>4 DEF IInv, TypeOK
  <2>8. \A x \in Range(rest) :
          /\ x.do \notin Event \cup {"drain", "link", "unlink", "clear", "join", "detach", "free_multi"}
          /\ x.do \in Starting => x.e # e
    <3>1. "launch" \notin Upper
      BY DEF Upper, Event
    <3> QED BY <1>1, <3>1, NotBelow DEF e
  <2>9. \A x \in On : x.do \notin {"unlink", "join", "detach", "completed"}
    BY <1>1, <2>8 DEF Event
  <2>10. \A h, w : /\ S("unlink", h, 0) \notin On /\ S("detach", h, 0) \notin On
                   /\ S("join", h, w) \notin On
    BY <2>9 DEF S
  <2>11. \A x \in On' : /\ x \in On
                        /\ x.do \notin {"unlink", "join", "detach", "link", "free_multi", "completed"}
                        /\ x.do \in Starting => x.e # e
    BY <1>1, <2>1, <2>8 DEF Event
  <2>12. Attachment'
    <3>1. \A x \in Handle : attached[x] => x \in alive /\ x \in DOMAIN records
      BY <1>1, <2>10 DEF Facts, Attachment
    <3> QED BY <1>1, <2>1, <2>5, <2>11, <3>1 DEF Facts, Attachment
  <2>13. Ownership'
    <3>1. \A x \in On' : x.do = "free" => x.e \in alive /\ x.e \notin owned /\ ~attached[x.e]
      BY <1>1, <2>10, <2>11 DEF Facts, Ownership
    <3> QED BY <1>1, <2>1, <2>11, <3>1 DEF Facts, Ownership
  <2>14. Held'
    <3>1. ASSUME NEW w \in Slot, worker'[w].phase \in Active
          PROVE  /\ worker'[w].e \in alive /\ worker'[w].e \in DOMAIN records
                 /\ records'[worker'[w].e].worker = w
      <4>1. CASE w = v
        BY <2>2, <2>5, <2>7, <4>1
      <4>2. CASE w # v
        <5>1. worker[w].e \in alive /\ worker[w].e \in DOMAIN records
              /\ records[worker[w].e].worker = w /\ w # 0
          BY <1>1, <2>7, <2>10, <3>1, <4>2, BoundAssumption DEF Facts, Held, Slot
        <5>2. worker[w].e # e
          BY <2>2, <5>1
        <5> QED BY <2>5, <2>7, <4>2, <5>1, <5>2
      <4> QED BY <4>1, <4>2
    <3> QED BY <2>1, <2>5, <2>11, <3>1 DEF Held
  <2>15. Unheld'
    <3>1. \A x \in On' : x.do \in Starting =>
              x.e \in Running' /\ records'[x.e].started /\ records'[x.e].worker = 0
      BY <1>1, <2>5, <2>6, <2>11 DEF Facts, Unheld, Running
    <3>2. \A x \in DOMAIN records' : ~records'[x].started => records'[x].worker = 0
      BY <1>1, <2>2, <2>5 DEF Facts, Unheld
    <3> QED BY <3>1, <3>2 DEF Unheld
  <2>16. Reported'
    <3>1. ASSUME NEW x \in Sent', x.do = "completed", x.e \in Running
          PROVE  x.e # e /\ records[x.e].worker = x.n
      <4>1. x \in Range(queue) /\ x \in Sent
        BY <2>1, <2>11, <3>1 DEF Sent
      <4>2. x.n \in Slot
        <5>1. Range(queue) \subseteq GoodEvent
          BY <1>1, RangeOfSeq DEF IInv
        <5> QED BY <3>1, <4>1, <5>1 DEF GoodEvent, GoodStep
      <4>3. records[x.e].worker = x.n
        BY <1>1, <3>1, <4>1 DEF Facts, Reported
      <4> QED BY <2>2, <4>2, <4>3, BoundAssumption DEF Slot
    <3> QED BY <2>5, <2>6, <2>11, <3>1 DEF Reported, Running
  <2>17. Gone'
    BY <1>1, <2>1, <2>11 DEF Gone
  <2> QED BY <1>1, <2>1, <2>12, <2>13, <2>14, <2>15, <2>16, <2>17 DEF Facts
<1> QED BY <1>2, <1>3

\* Between calls nothing is on the stack.
LEMMA Idle ==
    ASSUME todo = <<>>
    PROVE  /\ On = {}
           /\ \A h, w : /\ S("unlink", h, 0) \notin On /\ S("detach", h, 0) \notin On
                        /\ S("join", h, w) \notin On /\ Do("clear") \notin On
BY EmptyArranged DEF On

\* A call other than those a callback may make here starts between calls.
LEMMA CallStarts ==
    ASSUME CallInvariant, OneCall, NEW c, NEW steps \in Seq(GoodStep), Call(c, steps),
           c \notin {"easy_pause", "assign", "wakeup"}
    PROVE  /\ todo = <<>> /\ todo' = steps /\ multi
           /\ UNCHANGED <<multi, records, queue, worker>>
<1>1. c \notin CallbackCalls
  BY CallAssumption DEF OneCall
<1>2. todo = <<>>
  BY <1>1 DEF Call, MayCall
<1>3. steps \o <<>> = steps
  BY ConcatEmptySeq
<1> QED BY <1>2, <1>3 DEF Call, MayCall, recordVars

LEMMA CallsKeep ==
    ASSUME CallInvariant, OneCall, Perform \/ Poll \/ InfoRead \/ Fdset
    PROVE  Arranged(todo') /\ Facts'
<1>1. PICK p \in {PerformCall, PollCall, InfoReadCall, FdsetCall} :
          /\ \E c \in {"perform", "poll", "info_read", "fdset"} : Call(c, p)
          /\ UNCHANGED handleVars
  BY DEF Perform, Poll, InfoRead, Fdset
<1>2. p \in Seq(GoodStep)
  BY CallBodies2 DEF Body
<1>3. Arranged(p) /\ \A x \in Range(p) : x.do \notin Work \cup Starting /\ x.do # "completed"
  BY CallsArranged2 DEF Work, Starting, Do, S
<1>4. /\ todo = <<>> /\ todo' = p /\ multi
      /\ UNCHANGED <<alive, owned, attached, multi, records, queue, worker>>
  BY <1>1, <1>2, CallStarts DEF handleVars
<1>5. On = {} /\ On' = Range(p)
  BY <1>4, Idle DEF On
<1> HIDE DEF On, Sent
<1>6. \A x \in Sent' : x.do = "completed" => x \in Sent
  BY <1>3, <1>4, <1>5 DEF Sent
<1> QED BY <1>3, <1>4, <1>5, <1>6, FactsKept DEF CallInvariant, Work

LEMMA AddKeeps ==
    ASSUME CallInvariant, OneCall, NEW e \in Handle, AddHandle(e)
    PROVE  Arranged(todo') /\ Facts'
<1>1. AddCall(e) \in Seq(GoodStep)
  BY CallBodies DEF Body
<1>2. /\ todo = <<>> /\ todo' = AddCall(e) /\ multi /\ e \in owned
      /\ UNCHANGED <<alive, owned, attached, multi, records, queue, worker>>
  BY <1>1, CallStarts DEF AddHandle, handleVars
<1>3. Facts /\ On' = {Do("drain"), S("link", e, 0), Do("timer"), Do("return")}
  BY <1>2, CallsArranged DEF On, CallInvariant
<1>4. /\ \A x \in On' : /\ x.do \notin {"unlink", "detach", "free", "join", "free_multi", "completed"} \cup Starting
                        /\ x.do = "link" => x.e = e
      /\ Do("drain") \in On'
  BY <1>3 DEF S, Do, Starting
<1>5. Attachment'
  BY <1>2, <1>3, <1>4, Idle DEF Facts, Attachment
<1>6. Ownership' /\ Unheld' /\ Gone'
  BY <1>2, <1>3, <1>4 DEF Facts, Ownership, Unheld, Gone
<1>7. Held'
  BY <1>2, <1>3, <1>4, Idle DEF Facts, Held
<1>8. Reported'
  <2>1. \A x \in Sent' : x.do = "completed" => x \in Sent
    BY <1>2, <1>4 DEF Sent
  <2> QED BY <1>2, <1>3, <1>4, <2>1 DEF Facts, Reported, Running
<1> QED BY <1>2, <1>5, <1>6, <1>7, <1>8, CallsArranged DEF Facts

\* The steps of a removal that begins between calls, and the free that may follow.
LEMMA RemovalKeeps ==
    ASSUME CallInvariant, todo = <<>>, NEW e \in Handle, e \in alive,
           On' \ {S("free", e, 0)} \in {{}, Range(RemoveCall(e))},
           S("free", e, 0) \in On' => e \notin owned',
           On' = {S("free", e, 0)} => ~attached[e],
           owned' \subseteq owned,
           Do("drain") \in On' => multi,
           UNCHANGED <<alive, attached, multi, records, queue, worker>>
    PROVE  Facts'
<1> DEFINE u == S("unlink", e, 0)
           d == S("detach", e, 0)
           f == S("free", e, 0)
           R == {Do("drain"), u, d, Do("timer"), Do("return")}
<1>1. On' \ {f} = {} \/ On' \ {f} = R
  BY CallsArranged
<1>2. /\ \A h : S("unlink", h, 0) = u => h = e
      /\ u.do = "unlink" /\ u.e = e /\ d.do = "detach" /\ d.e = e /\ f.do = "free" /\ f.e = e
      /\ \A x \in R : x.do \in {"drain", "unlink", "detach", "timer", "return"}
      /\ \A x \in R : (x.do = "unlink" => x = u) /\ (x.do = "detach" => x = d)
  BY DEF S, Do
<1>3. Facts /\ On = {}
  BY Idle DEF CallInvariant
<1>4. \A x \in On' : /\ x.do \in {"drain", "unlink", "detach", "timer", "return", "free"}
                     /\ x.do = "unlink" => x = u /\ d \in On'
                     /\ x.do = "detach" => x = d /\ u \in On'
                     /\ x.do = "free" => x = f
                     /\ x.do \in {"drain", "unlink", "detach", "timer", "return"} => Do("drain") \in On'
  BY <1>1, <1>2
<1> HIDE DEF R
<1>5. Attachment'
  <2>1. \A x \in Handle : attached[x] => x \in alive /\ x \in DOMAIN records
    BY <1>3 DEF Facts, Attachment
  <2> QED BY <1>2, <1>3, <1>4, <2>1 DEF Facts, Attachment
<1>6. Ownership'
  <2>1. f \in On' /\ attached[e] => u \in On'
    <3>1. CASE On' \ {f} = {}
      BY <3>1
    <3>2. CASE On' \ {f} = R
      BY <1>2, <3>2 DEF R
    <3> QED BY <1>1, <3>1, <3>2
  <2> QED BY <1>2, <1>3, <1>4, <2>1 DEF Facts, Ownership
<1>7. Held'
  BY <1>3, <1>4 DEF Facts, Held
<1>8. Unheld'
  BY <1>3, <1>4 DEF Facts, Unheld, Running, Starting
<1>9. Reported'
  <2>1. \A x \in Sent' : x.do = "completed" => x \in Sent
    BY <1>4 DEF Sent
  <2> QED BY <1>3, <1>4, <2>1 DEF Facts, Reported, Running
<1>10. Gone'
  BY <1>3, <1>4 DEF Facts, Gone
<1> QED BY <1>5, <1>6, <1>7, <1>8, <1>9, <1>10 DEF Facts

LEMMA RemoveKeeps ==
    ASSUME CallInvariant, OneCall, NEW e \in Handle, RemoveHandle(e) \/ EasyCleanup(e)
    PROVE  Arranged(todo') /\ Facts'
<1> DEFINE f == S("free", e, 0)
<1>0. f \notin Range(RemoveCall(e)) /\ Do("drain") # f /\ Range(RemoveCall(e)) # {}
  BY CallsArranged DEF S, Do
<1>3. e \in owned => e \in alive
  BY DEF CallInvariant, Facts, Ownership
<1>1. CASE RemoveHandle(e)
  <2>1. RemoveCall(e) \in Seq(GoodStep)
    BY CallBodies DEF Body
  <2>2. /\ todo = <<>> /\ todo' = RemoveCall(e) /\ multi /\ e \in alive
        /\ UNCHANGED <<alive, owned, attached, multi, records, queue, worker>>
    BY <1>3, <1>1, <2>1, CallStarts DEF RemoveHandle, handleVars
  <2>3. On' = Range(RemoveCall(e))
    BY <2>2 DEF On
  <2>4. Facts'
    BY <1>0, <2>2, <2>3, RemovalKeeps
  <2> QED BY <2>2, <2>4, CallsArranged
<1>2. CASE EasyCleanup(e)
  <2>1. /\ todo = <<>> /\ todo' = EasyCleanupCall(e) /\ e \in alive /\ owned' = owned \ {e}
        /\ UNCHANGED <<alive, attached, multi, records, queue, worker>>
    BY <1>3, <1>2 DEF EasyCleanup, recordVars
  <2>2. On' = {f} \cup IF attached[e] THEN Range(RemoveCall(e)) ELSE {}
    BY <2>1, CleanupArranged DEF On
  <2>3. attached[e] => multi
    BY <2>1, Idle DEF CallInvariant, Facts, Attachment, Gone
  <2>4. CASE attached[e]
    BY <1>0, <2>1, <2>2, <2>3, <2>4, RemovalKeeps, CleanupArranged
  <2>5. CASE ~attached[e]
    BY <1>0, <2>1, <2>2, <2>5, RemovalKeeps, CleanupArranged
  <2> QED BY <2>4, <2>5
<1> QED BY <1>1, <1>2

LEMMA MultiCleanupKeeps ==
    ASSUME CallInvariant, OneCall, MultiCleanup
    PROVE  Arranged(todo') /\ Facts'
<1>1. MultiCleanupCall \in Seq(GoodStep)
  BY CallBodies2 DEF Body
<1>2. /\ todo = <<>> /\ todo' = MultiCleanupCall /\ multi
      /\ UNCHANGED <<alive, owned, attached, multi, records, queue, worker>>
  BY <1>1, CallStarts DEF MultiCleanup, handleVars
<1>3. Facts /\ On = {} /\ On' = {Do("drain"), Do("clear"), Do("free_multi")}
  BY <1>2, CallsArranged2, Idle DEF On, CallInvariant
<1>4. /\ \A x \in On' : x.do \notin {"unlink", "detach", "link", "free", "join", "completed"} \cup Starting
      /\ Do("clear") \in On'
      /\ \A h : S("unlink", h, 0) \notin On'
  BY <1>3 DEF S, Do, Starting
<1>5. Attachment'
  BY <1>2, <1>3, <1>4 DEF Facts, Attachment
<1>6. Ownership' /\ Unheld' /\ Held' /\ Gone'
  BY <1>2, <1>3, <1>4 DEF Facts, Ownership, Unheld, Held, Gone
<1>7. Reported'
  <2>1. \A x \in Sent' : x.do = "completed" => x \in Sent
    BY <1>2, <1>4 DEF Sent
  <2> QED BY <1>2, <1>3, <1>4, <2>1 DEF Facts, Reported, Running
<1> QED BY <1>2, <1>5, <1>6, <1>7, CallsArranged2 DEF Facts

LEMMA RangeAppend ==
    ASSUME NEW T, NEW s \in Seq(T), NEW x \in T
    PROVE  Range(Append(s, x)) = Range(s) \cup {x}
<1> DEFINE t == Append(s, x)
<1>1. /\ Len(s) \in Nat /\ DOMAIN s = 1..Len(s) /\ DOMAIN t = 1..(Len(s) + 1)
      /\ \A i \in 1..Len(s) : t[i] = s[i] /\ i \in 1..(Len(s) + 1)
      /\ t[Len(s) + 1] = x /\ Len(s) + 1 \in 1..(Len(s) + 1)
  BY AppendProperties, LenProperties
<1>2. \A i \in 1..(Len(s) + 1) : i \in 1..Len(s) \/ i = Len(s) + 1
  BY <1>1
<1> HIDE DEF t
<1> QED BY <1>1, <1>2 DEF Range, t

LEMMA QuietCallsKeep ==
    ASSUME CallInvariant,
           \/ MultiInit \/ Wakeup
           \/ \E c \in Callbacks : SetFunction(c)
           \/ \E fd \in Socket : Assign(fd)
           \/ \E e \in Handle : EasyInit(e) \/ EasyPause(e)
    PROVE  Arranged(todo') /\ Facts'
<1> USE DEF handleVars, recordVars
<1>1. todo' = todo
  BY DEF MultiInit, Wakeup, SetFunction, Assign, EasyInit, EasyPause
<1>2. On' = On /\ Facts /\ Arranged(todo') /\ IInv
  BY <1>1 DEF On, CallInvariant
<1>3. CASE MultiInit
  <2>1. /\ todo = <<>> /\ ~multi /\ records' = NoRecords /\ Range(queue') = {}
        /\ UNCHANGED <<alive, owned, attached, worker>>
    BY <1>3, EmptyArranged DEF MultiInit
  <2>2. DOMAIN records' = {} /\ DOMAIN records = {} /\ On' = {} /\ On = {}
    BY <1>2, <2>1, Idle DEF Facts, Gone, NoRecords
  <2>3. Attachment' /\ Ownership' /\ Unheld' /\ Gone'
    BY <1>2, <2>1, <2>2 DEF Facts, Attachment, Ownership, Unheld, Gone
  <2>4. Held' /\ Reported'
    BY <1>2, <2>1, <2>2 DEF Facts, Held, Reported, Sent, Running
  <2> QED BY <1>2, <2>3, <2>4 DEF Facts
<1>4. CASE /\ UNCHANGED <<alive, owned, attached, records, multi, worker>>
           /\ UNCHANGED queue \/ queue' = Append(queue, Do("wakeup"))
  <2>1. Range(queue') \subseteq Range(queue) \cup {Do("wakeup")}
    <3>1. queue \in Seq(Step) /\ Do("wakeup") \in Step
      BY <1>2 DEF IInv, TypeOK, Do, S, Step, StepName, Event
    <3>2. Range(Append(queue, Do("wakeup"))) = Range(queue) \cup {Do("wakeup")}
      BY <3>1, RangeAppend
    <3> QED BY <1>4, <3>2
  <2>2. \A y \in Range(queue') : y.do = "completed" => y \in Range(queue)
    BY <2>1 DEF Do, S
  <2>3. \A x \in Sent' : x.do = "completed" => x \in Sent
    BY <1>2, <2>2 DEF Sent
  <2> QED BY <1>2, <1>4, <2>2, <2>3, FactsKept
<1>5. CASE \E e \in Handle : EasyInit(e)
  <2>1. PICK e \in Handle :
            /\ todo = <<>> /\ e \notin alive /\ alive' = alive \cup {e} /\ owned' = owned \cup {e}
            /\ UNCHANGED <<attached, records, multi, queue, worker>>
    BY <1>5 DEF EasyInit
  <2>2. On = {} /\ On' = {}
    BY <1>2, <2>1, Idle
  <2>3. Attachment' /\ Ownership' /\ Unheld' /\ Gone'
    BY <1>2, <2>1, <2>2 DEF Facts, Attachment, Ownership, Unheld, Gone
  <2>4. Held' /\ Reported'
    BY <1>2, <2>1, <2>2 DEF Facts, Held, Reported, Sent, Running
  <2> QED BY <1>2, <2>3, <2>4 DEF Facts
<1> QED BY <1>3, <1>4, <1>5 DEF Wakeup, SetFunction, Assign, EasyPause

LEMMA WorkersKeep ==
    ASSUME CallInvariant, OneCall, NEW w \in Slot, WorkerStep(w)
    PROVE  Arranged(todo') /\ Facts'
<1> USE DEF handleVars, recordVars
<1>1. /\ UNCHANGED <<alive, owned, attached, records, multi, todo>>
      /\ On' = On /\ Facts /\ Arranged(todo') /\ IInv
  BY DEF WorkerStep, WorkerStart, WorkerWait, WorkerResume, WorkerOffer, WorkerEnd, On,
     CallInvariant
<1>2. ~WorkerOffer(w)
  BY DEF WorkerOffer, OneCall, CallInvariant, IInv
<1>3. \A x \in Slot : worker'[x].phase \in Active =>
          worker[x].phase \in Active /\ worker'[x].e = worker[x].e
  <2>1. \A from, to : from \in Active /\ WorkerGoes(w, from, to) =>
            \A x \in Slot : worker'[x].phase \in Active =>
                worker[x].phase \in Active /\ worker'[x].e = worker[x].e
    BY <1>1 DEF WorkerGoes, IInv, TypeOK
  <2> QED BY <1>2, <2>1 DEF WorkerStep, WorkerStart, WorkerWait, WorkerResume, WorkerEnd, Active
<1>4. \/ UNCHANGED queue
      \/ worker[w].phase \in Active /\ queue' = Append(queue, S("completed", worker[w].e, w))
  BY <1>2 DEF WorkerStep, WorkerStart, WorkerWait, WorkerResume, WorkerEnd, WorkerGoes, Active
<1>5. Attachment' /\ Ownership' /\ Unheld' /\ Gone'
  BY <1>1 DEF Facts, Attachment, Ownership, Unheld, Gone, Running
<1>6. Held'
  BY <1>1, <1>3 DEF Facts, Held, Running
<1>7. Reported'
  <2>1. CASE UNCHANGED queue
    BY <1>1, <2>1 DEF Facts, Reported, Sent, Running
  <2>2. CASE worker[w].phase \in Active /\ queue' = Append(queue, S("completed", worker[w].e, w))
    <3> DEFINE c == S("completed", worker[w].e, w)
    <3>1. c.do = "completed" /\ c.e = worker[w].e /\ c.n = w /\ w # 0
      BY DEF S, Slot
    <3>2. Range(queue') = Range(queue) \cup {c}
      <4>1. queue \in Seq(Step) /\ c \in Step
        BY <1>1, BoundAssumption DEF IInv, TypeOK, S, Step, StepName, Event, Slot
      <4> QED BY <2>2, <4>1, RangeAppend
    <3>3. \/ worker[w].e \in DOMAIN records /\ records[worker[w].e].worker = w
          \/ S("join", worker[w].e, w) \in On
      BY <1>1, <2>2 DEF Facts, Held
    <3> DEFINE j == S("join", worker[w].e, w)
    <3>4. j.do = "join" /\ j.e = worker[w].e /\ j.n = w
      BY DEF S
    <3> HIDE DEF c, j
    <3>5. c.e \in Running => records[c.e].worker = c.n
      BY <1>1, <3>1, <3>3, <3>4 DEF Facts, Held, j
    <3>6. \A x \in On : x.do = "link" /\ x.e \notin DOMAIN records => c.e # x.e
      BY <1>1, <3>1, <3>3, <3>4 DEF Facts, Held, j
    <3>7. Running' = Running /\ Sent' = Sent \cup {c}
      BY <1>1, <3>2 DEF Running, Sent
    <3>8. \A x \in Sent' : x.do = "completed" /\ x.e \in Running => records[x.e].worker = x.n
      BY <1>1, <3>5, <3>7 DEF Facts, Reported
    <3>9. \A x \in On : x.do = "link" /\ x.e \notin DOMAIN records =>
              \/ Do("drain") \in On
              \/ \A y \in Range(queue') : y.do = "completed" => y.e # x.e
      BY <1>1, <3>2, <3>6 DEF Facts, Reported
    <3> QED BY <1>1, <3>7, <3>8, <3>9 DEF Reported
  <2> QED BY <1>4, <2>1, <2>2
<1> QED BY <1>1, <1>5, <1>6, <1>7 DEF Facts

LEMMA StepKeeps ==
    ASSUME CallInvariant, OneCall, [Next]_vars
    PROVE  Arranged(todo') /\ Facts'
<1>1. CASE UNCHANGED vars
  <2>1. /\ UNCHANGED <<alive, owned, attached, records, multi, worker, queue, todo>>
        /\ On' = On /\ Sent' = Sent /\ Running' = Running
    BY <1>1 DEF vars, handleVars, recordVars, On, Sent, Running
  <2> QED BY <2>1 DEF CallInvariant, Facts, Attachment, Ownership, Held, Unheld, Reported, Gone
<1>2. CASE AppCall
  BY <1>2, CallsKeep, AddKeeps, RemoveKeeps, MultiCleanupKeeps, QuietCallsKeep DEF AppCall
<1>3. CASE LibraryStep
  BY <1>3, EventStepsKeep, CompletedKeeps, CallbackStepsKeep, LinkKeeps, UnlinkKeeps,
     DetachKeeps, FreeKeeps, FreeMultiKeeps, ClearKeeps, StartKeeps, SpawnKeeps, LaunchKeeps,
     NoPushStep DEF LibraryStep, OneCall, CallInvariant
<1>4. CASE AppReturn
  BY <1>4, CallbackStepsKeep DEF AppReturn
<1>5. ASSUME NEW w \in Slot, WorkerStep(w) PROVE Arranged(todo') /\ Facts'
  BY <1>5, WorkersKeep
<1> QED BY <1>1, <1>2, <1>3, <1>4, <1>5 DEF Next

\* A timer update is never refused: no callback is in progress below it.
LEMMA TimerUnrefused ==
    ASSUME CallInvariant, todo # <<>>, cur.do \in {"timer", "timer_again"}
    PROVE  ~inCallback
<1>1. SUFFICES ASSUME inCallback PROVE FALSE
  OBVIOUS
<1>2. PICK i \in DOMAIN todo : todo[i].do \in InCallback
  BY <1>1 DEF CallInvariant, IInv, StackOK, OneCallback
<1>3. todo[i] \in On /\ On = {cur} \cup Range(rest)
  BY TopOn DEF On, Range, CallInvariant
<1>4. todo[i] \in Range(rest)
  BY <1>2, <1>3 DEF InCallback
<1>5. cur.do \in Above(todo[i].do)
  BY <1>4, TopOn DEF CallInvariant
<1> QED BY <1>2, <1>5, AboveNamed

\* Steps after which no more transfers wait to be started, and the timer is told what it
\* was.
LEMMA DueKept ==
    ASSUME CallInvariant, ~At("timer"), cbs' = cbs, told' = told, Unstarted' \subseteq Unstarted
    PROVE  TimerDue'
BY DEF CallInvariant, TimerDue, At

LEMMA SameUnstarted ==
    ASSUME UNCHANGED records
    PROVE  Unstarted' = Unstarted
BY DEF Unstarted

LEMMA DueAtUpdate ==
    ASSUME CallInvariant, todo # <<>>, cur.do \in {"timer", "timer_again"}, UpdateTimer(rest),
           UNCHANGED <<records, cbs>>
    PROVE  TimerDue'
<1>1. Unstarted' = Unstarted
  BY SameUnstarted
<1>2. CASE "timer" \notin cbs
  BY <1>2 DEF TimerDue
<1>3. CASE "timer" \in cbs
  <2>1. told' = NativeTimeout
    BY <1>3, TimerUnrefused DEF UpdateTimer, MayCallBack
  <2>2. Unstarted # {} => NativeTimeout = "now"
    BY DEF NativeTimeout
  <2> QED BY <1>1, <2>1, <2>2 DEF TimerDue
<1> QED BY <1>2, <1>3

LEMMA DueAfterRecords ==
    ASSUME CallInvariant, Completed \/ Link \/ Unlink \/ Clear \/ Start \/ Launch
    PROVE  TimerDue'
<1> USE DEF At, callbackVars, recordVars
<1>1. /\ todo # <<>> /\ cur.do # "timer" /\ cbs' = cbs /\ told' = told
      /\ records \in [DOMAIN records -> Record] /\ Facts /\ ~At("timer")
  BY DEF Completed, Link, Unlink, Clear, Start, Launch, CallInvariant, IInv, TypeOK
<1>2. CASE Completed
  <2>1. CASE cur.e \in Running
    <3>1. records' = [records EXCEPT ![cur.e].completed = TRUE, ![cur.e].worker = 0,
                                     ![cur.e].socket = 0]
      BY <1>2, <2>1 DEF Completed
    <3>2. Unstarted' \subseteq Unstarted
      BY <1>1, <3>1 DEF Unstarted, Record
    <3> QED BY <1>1, <3>2, DueKept
  <2>2. CASE cur.e \notin Running
    BY <1>1, <1>2, <2>2, SameUnstarted, DueKept DEF Completed
  <2> QED BY <2>1, <2>2
<1>3. CASE Link
  <2>1. CASE cur.e \in DOMAIN records
    BY <1>1, <1>3, <2>1, SameUnstarted, DueKept DEF Link
  <2>2. CASE cur.e \notin DOMAIN records
    <3>1. todo' = rest
      BY <1>3, <2>2 DEF Link
    <3>2. rest # <<>> /\ Head(rest).do = "timer"
      BY <1>3, TopOn DEF Link, CallInvariant
    <3> QED BY <3>1, <3>2 DEF TimerDue, cur
  <2> QED BY <2>1, <2>2
<1>4. CASE Unlink
  <2>1. \/ UNCHANGED records
        \/ records' = [x \in DOMAIN records \ {cur.e} |-> records[x]]
    BY <1>4 DEF Unlink, Erase
  <2>2. Unstarted' \subseteq Unstarted
    BY <2>1 DEF Unstarted
  <2> QED BY <1>1, <2>2, DueKept
<1>5. CASE Clear
  <2>1. Unstarted' = {}
    BY <1>5 DEF Clear, NoRecords, Unstarted
  <2> QED BY <1>1, <2>1, DueKept
<1>6. CASE Start
  <2>1. Unstarted' \subseteq Unstarted
    BY <1>1, <1>6 DEF Start, Unstarted, Record
  <2> QED BY <1>1, <2>1, DueKept
<1>7. CASE Launch
  <2>1. \/ UNCHANGED records
        \/ \E v, n : records' = [records EXCEPT ![cur.e].worker = v, ![cur.e].socket = n]
    BY <1>7 DEF Launch, StartWorker
  <2>2. ASSUME NEW v, NEW n,
               records' = [records EXCEPT ![cur.e].worker = v, ![cur.e].socket = n]
        PROVE  /\ DOMAIN records' = DOMAIN records
               /\ \A x \in DOMAIN records : /\ records'[x].started = records[x].started
                                            /\ records'[x].completed = records[x].completed
    BY <1>1, <2>2 DEF Record
  <2>3. Unstarted' \subseteq Unstarted
    BY <2>1, <2>2 DEF Unstarted
  <2> QED BY <1>1, <2>3, DueKept
<1> QED BY <1>2, <1>3, <1>4, <1>5, <1>6, <1>7

LEMMA StepDue ==
    ASSUME CallInvariant, OneCall, [Next]_vars
    PROVE  TimerDue'
<1> USE DEF At, callbackVars, recordVars, cur
<1>1. CASE UNCHANGED vars
  BY <1>1, SameUnstarted DEF vars, CallInvariant, TimerDue
<1>2. CASE AppCall
  <2>1. CASE MultiInit
    BY <2>1 DEF MultiInit, TimerDue
  <2>2. ASSUME NEW c \in Callbacks, SetFunction(c) PROVE TimerDue'
    <3>1. Unstarted' = {}
      BY <2>2 DEF SetFunction, Unstarted
    <3> QED BY <3>1 DEF TimerDue
  <2>3. CASE \/ Wakeup \/ \E fd \in Socket : Assign(fd)
             \/ \E e \in Handle : EasyInit(e) \/ EasyPause(e)
    <3>1. UNCHANGED <<records, cbs, told, todo>>
      BY <2>3 DEF Wakeup, Assign, EasyInit, EasyPause
    <3> QED BY <3>1, SameUnstarted DEF CallInvariant, TimerDue
  <2>4. CASE \/ Perform \/ Poll \/ InfoRead \/ Fdset \/ MultiCleanup
             \/ \E e \in Handle : EasyCleanup(e) \/ AddHandle(e) \/ RemoveHandle(e)
    <3>1. UNCHANGED <<records, cbs, told>>
      BY <2>4 DEF Perform, Poll, InfoRead, Fdset, MultiCleanup, EasyCleanup, AddHandle,
         RemoveHandle, Call
    <3>2. todo = <<>> \/ AtCallback
      BY <2>4 DEF Perform, Poll, InfoRead, Fdset, MultiCleanup, EasyCleanup, AddHandle,
         RemoveHandle, Call, MayCall
    <3>3. ~At("timer")
      BY <3>2 DEF AtCallback, InCallback
    <3> QED BY <3>1, <3>3, SameUnstarted, DueKept
  <2> QED BY <1>2, <2>1, <2>2, <2>3, <2>4 DEF AppCall
<1>3. CASE Timer \/ TimerAgain
  <2>1. CASE UpdateTimer(rest)
    BY <1>3, <2>1, DueAtUpdate DEF Timer, TimerAgain
  <2>2. CASE ~UpdateTimer(rest)
    <3>1. ~At("timer") /\ UNCHANGED <<records, cbs, told>>
      BY <1>3, <2>2 DEF Timer, TimerAgain
    <3> QED BY <3>1, SameUnstarted, DueKept
  <2> QED BY <2>1, <2>2
<1>4. CASE Drain \/ Wait \/ Woken \/ Join \/ PollRemove \/ Detach \/ Free \/ FreeMulti \/ Read
           \/ Return \/ Spawn \/ Pushes
  <2>1. ~At("timer") /\ UNCHANGED <<records, cbs, told>>
    BY <1>4 DEF Drain, Wait, Woken, Join, PollRemove, Detach, Free, FreeMulti, Read, Return,
       Spawn, Pushes
  <2> QED BY <2>1, SameUnstarted, DueKept
<1>5. CASE AppReturn
  <2>1. ~At("timer") /\ UNCHANGED <<records, cbs, told>>
    BY <1>5 DEF AppReturn, CallbackReturn, AtCallback, InCallback
  <2> QED BY <2>1, SameUnstarted, DueKept
<1>6. ASSUME NEW w \in Slot, WorkerStep(w) PROVE TimerDue'
  <2>1. UNCHANGED <<records, cbs, told, todo>>
    BY <1>6 DEF WorkerStep, WorkerStart, WorkerWait, WorkerResume, WorkerOffer, WorkerEnd
  <2> QED BY <2>1, SameUnstarted DEF CallInvariant, TimerDue
<1> QED BY <1>1, <1>2, <1>3, <1>4, <1>5, <1>6, DueAfterRecords, NoPushStep
        DEF Next, LibraryStep, OneCall, CallInvariant

LEMMA CallInit == Init => CallInvariant
<1> SUFFICES ASSUME Init PROVE CallInvariant
  OBVIOUS
<1>1. IInv /\ On = {} /\ Range(queue) = {} /\ Arranged(todo)
  BY InitInv, EmptyArranged DEF Init, On
<1>2. DOMAIN records = {}
  BY DEF Init, NoRecords
<1>3. Attachment /\ Ownership /\ Unheld /\ Gone
  BY <1>1, <1>2 DEF Init, Attachment, Ownership, Unheld, Gone
<1>4. Held /\ Reported
  BY <1>1, <1>2 DEF Init, Held, Active, Reported, Sent
<1>5. TimerDue
  BY DEF Init, TimerDue
<1> QED BY <1>1, <1>3, <1>4, <1>5 DEF CallInvariant, Facts

LEMMA CallInvariantKept ==
    ASSUME OneCall
    PROVE  Spec => []CallInvariant
<1>1. CallInvariant /\ [Next]_vars => CallInvariant'
  BY StepInv, StepKeeps, StepDue DEF CallInvariant
<1> QED BY <1>1, CallInit, PTL DEF Spec

-----------------------------------------------------------------------------
\* Between API calls the registry and the multi handle agree on which handles are
\* attached, however workers and calls interleave, and an attached handle is not freed.
THEOREM RegistryAgrees ==
    ASSUME OneCall
    PROVE  Spec => []AttachedHaveRecords
<1>1. CallInvariant => AttachedHaveRecords
  <2> SUFFICES ASSUME CallInvariant, todo = <<>>, NEW e \in Handle
               PROVE  /\ attached[e] <=> e \in DOMAIN records
                      /\ attached[e] => e \in alive
    BY DEF AttachedHaveRecords
  <2> QED BY Idle DEF CallInvariant, Facts, Attachment
<1> QED BY <1>1, CallInvariantKept, PTL

\* A worker thread never outlives its easy handle, and is always held by its record or
\* about to be joined: remove_handle, cleanup_handle and process_event each join it before
\* its handle can be freed.
THEOREM NoOrphanWorkers ==
    ASSUME OneCall
    PROVE  Spec => []WorkersHeld
<1>1. CallInvariant => WorkersHeld
  <2> SUFFICES ASSUME CallInvariant, NEW w \in Slot, worker[w].phase \in Active
               PROVE  /\ worker[w].e \in alive
                      /\ \/ \E e \in DOMAIN records : records[e].worker = w /\ worker[w].e = e
                         \/ \E i \in DOMAIN todo : todo[i].do = "join" /\ todo[i].n = w
    BY DEF WorkersHeld
  <2>1. /\ worker[w].e \in alive
        /\ \/ worker[w].e \in DOMAIN records /\ records[worker[w].e].worker = w
           \/ S("join", worker[w].e, w) \in On
    BY DEF CallInvariant, Facts, Held
  <2>2. S("join", worker[w].e, w) \in On =>
            \E i \in DOMAIN todo : todo[i].do = "join" /\ todo[i].n = w
    BY DEF On, Range, S
  <2> QED BY <2>1, <2>2
<1> QED BY <1>1, CallInvariantKept, PTL

\* A completed transfer is reported with the result of the worker its record held, never
\* with that of an earlier transfer on the same handle.
THEOREM ResultsAreOwn ==
    ASSUME OneCall
    PROVE  Spec => OwnResult
<1>1. ASSUME CallInvariant, [Next]_vars, NEW e \in DOMAIN records \cap DOMAIN records',
             ~records[e].completed, records'[e].completed
      PROVE  cur.n = records[e].worker
  <2> USE DEF recordVars, At
  <2>1. records \in [DOMAIN records -> Record]
    BY <1>1 DEF CallInvariant, IInv, TypeOK
  <2>2. CASE Completed
    <3>1. cur.e \in Running
      BY <1>1, <2>2 DEF Completed
    <3>2. records' = [records EXCEPT ![cur.e].completed = TRUE, ![cur.e].worker = 0,
                                     ![cur.e].socket = 0]
      BY <2>2, <3>1 DEF Completed
    <3>3. cur.e = e
      BY <1>1, <2>1, <3>2 DEF Record
    <3>4. cur \in Sent /\ cur.do = "completed"
      BY <1>1, <2>2, TopOn DEF Completed, Sent, CallInvariant
    <3> QED BY <1>1, <3>1, <3>3, <3>4 DEF CallInvariant, Facts, Reported
  <2>3. CASE SameResults
    BY <1>1, <2>3 DEF SameResults
  <2>4. CASE MultiInit \/ Clear
    BY <1>1, <2>4 DEF MultiInit, Clear, NoRecords
  <2>5. CASE Link
    BY <1>1, <2>5 DEF Link, Insert
  <2>6. CASE Unlink
    BY <1>1, <2>6 DEF Unlink, Erase
  <2>7. CASE Read
    BY <1>1, <2>7 DEF Read
  <2> QED BY <1>1, <2>2, <2>3, <2>4, <2>5, <2>6, <2>7, OtherSame DEF CallInvariant, OneCall
<1>2. CallInvariant /\ [Next]_vars =>
          [\A e \in DOMAIN records \cap DOMAIN records' :
             ~records[e].completed /\ records'[e].completed => cur.n = records[e].worker]_vars
  BY <1>1
<1> QED BY <1>2, CallInvariantKept, PTL DEF Spec, OwnResult

-----------------------------------------------------------------------------
(* The timer and the messages.  A message is queued together with the timer   *)
(* update that announces it; between the two only the worker is joined and    *)
(* the application told to drop its poll socket, and it starts no call there. *)

Announcing(s) ==
    \/ Len(s) > 0 /\ s[1].do = "timer"
    \/ Len(s) > 1 /\ s[1].do \in {"poll_remove", "poll_remove_cb"} /\ s[2].do = "timer"
    \/ Len(s) > 2 /\ s[1].do = "join" /\ s[2].do = "poll_remove" /\ s[3].do = "timer"

MessageDue == "timer" \in cbs /\ messages # <<>> => told = "now" \/ Announcing(todo)

LEMMA AnnouncingTail ==
    ASSUME NEW s \in Seq(GoodStep), Announcing(s), Head(s).do # "timer"
    PROVE  Announcing(Tail(s)) /\ (Head(s).do # "join" => Len(Tail(s)) > 0 /\ Tail(s)[1].do = "timer")
<1>1. /\ Len(s) \in Nat /\ Len(s) > 0 /\ s # <<>> /\ Head(s) = s[1]
  BY LenProperties, EmptySeq, HeadTailProperties DEF Announcing
<1>2. /\ Len(Tail(s)) = Len(s) - 1 /\ \A i \in 1..(Len(s) - 1) : Tail(s)[i] = s[i + 1]
  BY <1>1, HeadTailProperties
<1>3. CASE Len(s) > 1 /\ s[1].do \in {"poll_remove", "poll_remove_cb"} /\ s[2].do = "timer"
  <2>1. Tail(s)[1] = s[2] /\ Len(Tail(s)) > 0
    BY <1>1, <1>2, <1>3
  <2> QED BY <1>1, <1>3, <2>1 DEF Announcing
<1>4. CASE Len(s) > 2 /\ s[1].do = "join" /\ s[2].do = "poll_remove" /\ s[3].do = "timer"
  <2>1. Tail(s)[1] = s[2] /\ Tail(s)[2] = s[3] /\ Len(Tail(s)) > 1
    BY <1>1, <1>2, <1>4
  <2> QED BY <1>1, <1>4, <2>1 DEF Announcing
<1> QED BY <1>1, <1>3, <1>4 DEF Announcing

LEMMA AnnouncingPut ==
    ASSUME NEW p \in Seq(GoodStep), NEW s \in Seq(GoodStep),
           \/ Len(p) = 1 /\ p[1].do = "poll_remove_cb" /\ Len(s) > 0 /\ s[1].do = "timer"
           \/ Len(p) = 3 /\ p[1].do = "join" /\ p[2].do = "poll_remove" /\ p[3].do = "timer"
    PROVE  Announcing(p \o s)
<1>1. /\ Len(p) \in Nat /\ Len(s) \in Nat /\ Len(p \o s) = Len(p) + Len(s)
      /\ \A i \in 1..(Len(p) + Len(s)) : (p \o s)[i] = IF i <= Len(p) THEN p[i] ELSE s[i - Len(p)]
  BY LenProperties, ConcatProperties
<1>2. CASE Len(p) = 1 /\ p[1].do = "poll_remove_cb" /\ Len(s) > 0 /\ s[1].do = "timer"
  <2>1. (p \o s)[1] = p[1] /\ (p \o s)[2] = s[1]
    BY <1>1, <1>2
  <2> QED BY <1>1, <1>2, <2>1 DEF Announcing
<1>3. CASE Len(p) = 3 /\ p[1].do = "join" /\ p[2].do = "poll_remove" /\ p[3].do = "timer"
  <2>1. (p \o s)[1] = p[1] /\ (p \o s)[2] = p[2] /\ (p \o s)[3] = p[3]
    BY <1>1, <1>3
  <2> QED BY <1>1, <1>3, <2>1 DEF Announcing
<1> QED BY <1>2, <1>3

\* A timer update tells of the messages there are.
LEMMA MessageDueAtUpdate ==
    ASSUME CallInvariant, todo # <<>>, cur.do \in {"timer", "timer_again"}, UpdateTimer(rest),
           UNCHANGED <<cbs, messages>>
    PROVE  MessageDue'
<1>1. CASE "timer" \notin cbs
  BY <1>1 DEF MessageDue
<1>2. CASE "timer" \in cbs
  <2>1. told' = NativeTimeout
    BY <1>2, TimerUnrefused DEF UpdateTimer, MayCallBack
  <2> QED BY <2>1 DEF MessageDue, NativeTimeout
<1> QED BY <1>1, <1>2

LEMMA StepMessageDue ==
    ASSUME CallInvariant, MessagesUnique, MessageDue, OneCall, [Next]_vars
    PROVE  MessageDue'
<1> USE DEF callbackVars, recordVars
<1>1. todo \in Seq(GoodStep) /\ (todo # <<>> => rest \in Seq(GoodStep))
  BY HeadTailProperties DEF CallInvariant, IInv, StackOK, rest
<1>2. todo = <<>> => ~Announcing(todo)
  BY EmptySeq DEF Announcing
<1>3. Announcing(todo) => cur.do \in {"timer", "poll_remove", "poll_remove_cb", "join"}
  <2>1. Announcing(todo) => cur = todo[1]
    BY <1>1, <1>2, HeadTailProperties DEF cur
  <2> QED BY <2>1 DEF Announcing
<1>4. CASE UNCHANGED <<todo, cbs, messages, told>>
  BY <1>4 DEF MessageDue
<1>5. CASE UNCHANGED <<cbs, messages, told>> /\ todo' = rest /\ todo # <<>> /\ cur.do # "timer"
  BY <1>1, <1>5, AnnouncingTail DEF MessageDue, cur, rest
<1>6. CASE /\ UNCHANGED <<cbs, told>> /\ (messages' # <<>> => messages # <<>>)
           /\ ~Announcing(todo)
  BY <1>6 DEF MessageDue
<1>7. CASE MultiInit
  BY <1>7 DEF MultiInit, MessageDue
<1>8. ASSUME NEW c \in Callbacks, SetFunction(c) PROVE MessageDue'
  <2>1. messages = <<>>
    <3>1. messages \in Seq(Message) /\ \A i \in DOMAIN messages : messages[i].e \in {}
      BY <1>8 DEF SetFunction, MessagesUnique, CallInvariant, IInv, TypeOK
    <3>2. Len(messages) \in Nat /\ DOMAIN messages = 1..Len(messages)
      BY <3>1, LenProperties
    <3>3. Len(messages) = 0
      <4>1. Len(messages) > 0 => 1 \in DOMAIN messages
        BY <3>2
      <4> QED BY <3>1, <3>2, <4>1
    <3> QED BY <3>1, <3>3, EmptySeq
  <2> QED BY <1>8, <2>1 DEF SetFunction, MessageDue
<1>9. CASE \/ Wakeup \/ \E fd \in Socket : Assign(fd)
           \/ \E e \in Handle : EasyInit(e) \/ EasyPause(e)
  BY <1>4, <1>9 DEF Wakeup, Assign, EasyInit, EasyPause
<1>10. CASE \/ Perform \/ Poll \/ InfoRead \/ Fdset \/ MultiCleanup
            \/ \E e \in Handle : EasyCleanup(e) \/ AddHandle(e) \/ RemoveHandle(e)
  <2>1. UNCHANGED <<cbs, told, messages>>
    BY <1>10 DEF Perform, Poll, InfoRead, Fdset, MultiCleanup, EasyCleanup, AddHandle,
       RemoveHandle, Call
  <2>2. todo = <<>>
    BY <1>10, CallAssumption DEF Perform, Poll, InfoRead, Fdset, MultiCleanup, EasyCleanup,
       AddHandle, RemoveHandle, Call, MayCall, OneCall
  <2> QED BY <1>2, <1>6, <2>1, <2>2
<1>11. CASE Timer \/ TimerAgain
  <2>1. CASE UpdateTimer(rest)
    BY <1>11, <2>1, MessageDueAtUpdate DEF Timer, TimerAgain, At
  <2>2. CASE ~UpdateTimer(rest)
    BY <1>5, <1>11, <2>2 DEF Timer, TimerAgain, At
  <2> QED BY <2>1, <2>2
<1>12. CASE Completed
  <2>1. CASE cur.e \in Running
    <3> DEFINE p == <<JoinOf(cur.e), S("poll_remove", cur.e, records[cur.e].socket), Do("timer")>>
    <3>1. todo' = p \o rest /\ todo # <<>>
      BY <1>12, <2>1 DEF Completed, At
    <3>2. p \in Seq(GoodStep)
      <4>1. /\ cur.e \in Handle /\ records[cur.e].worker \in Nat /\ records[cur.e].socket \in Nat
        BY <2>1, BoundAssumption DEF CallInvariant, IInv, TypeOK, Running, Record, Slot, Socket
      <4> QED BY <4>1 DEF JoinOf, S, Do, GoodStep, PushStep, Step, StepName
    <3>3. /\ Len(p) = 3 /\ p[1].do = "join" /\ p[2].do = "poll_remove" /\ p[3].do = "timer"
      BY DEF JoinOf, S, Do
    <3> HIDE DEF p
    <3>4. Announcing(todo')
      BY <1>1, <3>1, <3>2, <3>3, AnnouncingPut
    <3> QED BY <3>4 DEF MessageDue
  <2>2. CASE cur.e \notin Running
    BY <1>5, <1>12, <2>2 DEF Completed, At
  <2> QED BY <2>1, <2>2
<1>13. CASE PollRemove
  <2>1. CASE todo' = rest
    BY <1>5, <1>13, <2>1 DEF PollRemove, At
  <2>2. CASE todo' = <<S("poll_remove_cb", cur.e, cur.n)>> \o rest
    <3>0. PICK p : p = <<S("poll_remove_cb", cur.e, cur.n)>>
      OBVIOUS
    <3>1. /\ todo # <<>> /\ cur.do = "poll_remove" /\ UNCHANGED <<cbs, told, messages>>
          /\ todo' = p \o rest
      BY <1>13, <2>2, <3>0 DEF PollRemove, At
    <3>2. p \in Seq(GoodStep) /\ Len(p) = 1 /\ p[1].do = "poll_remove_cb"
      <4>1. cur \in GoodStep
        BY <3>1, TopStep DEF CallInvariant
      <4> QED BY <3>0, <4>1 DEF S, GoodStep, PushStep, Step, StepName, InCallback
    <3>3. Announcing(todo) => Announcing(todo')
      BY <1>1, <3>1, <3>2, AnnouncingTail, AnnouncingPut DEF cur, rest
    <3> QED BY <3>1, <3>3 DEF MessageDue
  <2> QED BY <1>13, <2>1, <2>2 DEF PollRemove
<1>14. CASE Woken \/ Join \/ Return \/ Detach \/ Free \/ FreeMulti \/ AppReturn
  BY <1>5, <1>14 DEF Woken, Join, Return, Detach, Free, FreeMulti, AppReturn, CallbackReturn, At,
     AtCallback, InCallback
<1>15. CASE Drain \/ Wait \/ Link \/ Unlink \/ Clear \/ Start \/ Spawn \/ Launch \/ Pushes \/ Read
  <2>1. UNCHANGED <<cbs, told>> /\ ~Announcing(todo)
    BY <1>3, <1>15 DEF Drain, Wait, Link, Unlink, Clear, Start, Spawn, Launch, Pushes, Read, At
  <2>2. messages' # <<>> => messages # <<>>
    <3>1. CASE Unlink
      <4>1. messages = <<>> => WithoutMessage(messages, cur.e) = <<>>
        BY EmptySeq DEF WithoutMessage
      <4> QED BY <3>1, <4>1 DEF Unlink
    <3>2. CASE Drain \/ Wait \/ Link \/ Clear \/ Start \/ Spawn \/ Launch \/ Pushes \/ Read
      BY <3>2 DEF Drain, Wait, Link, Clear, Start, Spawn, Launch, Pushes, Read
    <3> QED BY <1>15, <3>1, <3>2
  <2> QED BY <1>6, <2>1, <2>2
<1>16. ASSUME NEW w \in Slot, WorkerStep(w) PROVE MessageDue'
  BY <1>4, <1>16 DEF WorkerStep, WorkerStart, WorkerWait, WorkerResume, WorkerOffer, WorkerEnd
<1>17. CASE UNCHANGED vars
  BY <1>4, <1>17 DEF vars
<1> QED BY <1>7, <1>8, <1>9, <1>10, <1>11, <1>12, <1>13, <1>14, <1>15, <1>16, <1>17, NoPushStep
        DEF Next, AppCall, LibraryStep, OneCall, CallInvariant

LEMMA MessageDueKept ==
    ASSUME OneCall
    PROVE  Spec => []MessageDue
<1>1. Init => MessageDue
  BY DEF Init, MessageDue
<1>2. CallInvariant /\ MessagesUnique /\ MessageDue /\ [Next]_vars => MessageDue'
  BY StepMessageDue
<1>3. Spec => []MessagesUnique
  BY MessagesAreOfFinished DEF OneCall
<1> QED BY <1>1, <1>2, <1>3, CallInvariantKept, PTL DEF Spec

\* An event-driven application is told to call at once whenever a transfer waits to be
\* started or a message to be read: no drain of events between add_handle and the timer
\* update loses the update, and none is lost between a completed transfer's message and
\* the update that follows it.
THEOREM TimerIsAnnounced ==
    ASSUME OneCall
    PROVE  Spec => []TimerAnnounced
<1>1. CallInvariant /\ MessageDue => TimerAnnounced
  BY EmptySeq DEF CallInvariant, TimerDue, MessageDue, Announcing, TimerAnnounced, At
<1> QED BY <1>1, CallInvariantKept, MessageDueKept, PTL

-----------------------------------------------------------------------------
(* Who frees a handle.  Callbacks may add and remove handles here, and pushes    *)
(* are accepted and denied.                                                     *)

LEMMA RangePut ==
    ASSUME NEW T, NEW s \in Seq(T), NEW U, NEW p \in Seq(U)
    PROVE  Range(p \o s) = Range(p) \cup Range(s)
<1>1. s \in Seq(T \cup U) /\ p \in Seq(T \cup U)
  BY SeqMonotonic
<1> QED BY <1>1, RangeConcatenation

LEMMA RestOn ==
    ASSUME IInv, todo # <<>>
    PROVE  /\ rest \in Seq(GoodStep) /\ todo \in Seq(GoodStep) /\ cur \in GoodStep
           /\ On = {cur} \cup Range(rest) /\ On \subseteq GoodStep
<1>1. todo \in Seq(GoodStep)
  BY DEF IInv, StackOK
<1>2. /\ Len(todo) \in Nat /\ DOMAIN todo = 1..Len(todo) /\ Len(todo) > 0
      /\ rest \in Seq(GoodStep) /\ DOMAIN rest = 1..(Len(todo) - 1) /\ cur = todo[1]
      /\ \A i \in 1..(Len(todo) - 1) : rest[i] = todo[i + 1]
  BY <1>1, HeadTailProperties, LenProperties, EmptySeq DEF rest, cur
<1>3. 1 \in 1..Len(todo) /\ \A i \in 1..(Len(todo) - 1) : i + 1 \in 1..Len(todo)
  BY <1>2
<1>4. \A i \in 1..Len(todo) : i = 1 \/ (i - 1 \in 1..(Len(todo) - 1) /\ rest[i - 1] = todo[i])
  BY <1>2
<1>5. On = {todo[i] : i \in 1..Len(todo)} /\ Range(rest) = {rest[i] : i \in 1..(Len(todo) - 1)}
  BY <1>2 DEF On, Range
<1>6. Range(rest) \subseteq On /\ cur \in On
  BY <1>2, <1>3, <1>5
<1>7. \A x \in On : x = cur \/ x \in Range(rest)
  BY <1>2, <1>4, <1>5
<1>8. On \subseteq GoodStep /\ cur \in GoodStep
  BY <1>1, <1>6, RangeOfSeq DEF On
<1> QED BY <1>1, <1>2, <1>6, <1>7, <1>8

\* The steps that decide what becomes of a handle: it is a pushed one that waits for the
\* application's answer or its worker, or it is about to be freed.
Fate == {"accept", "push_spawn", "push_launch", "free"}

\* What x above y may be.  No handle has two fates; what has been decided is not
\* still to be added or removed below; and nobody adds a handle that is on offer or
\* being freed.
Compatible(x, y) ==
    x.e = y.e => /\ x.do \notin Fate \/ y.do \notin Fate \cup {"link", "unlink"}
                 /\ x.do = "link" => y.do \notin {"accept", "free"}

\* The push callback is asked right before its answer is looked at.
Ordered(s) ==
    /\ \A i, j \in DOMAIN s : i < j => Compatible(s[i], s[j])
    /\ \A i \in DOMAIN s : s[i].do = "push_cb" =>
          i < Len(s) /\ s[i + 1].do = "accept" /\ s[i + 1].e = s[i].e

\* A handle is detached right after it is unlinked, or with all others, when the
\* multi handle has no record of it; R is those it has records of.
Follows(s, i) == i > 1 /\ s[i - 1].do = "unlink" /\ s[i - 1].e = s[i].e
Strict(s) == \A i \in DOMAIN s : s[i].do = "detach" => Follows(s, i)
Detaching(s, R) ==
    \A i \in DOMAIN s : s[i].do = "detach" =>
        \/ Follows(s, i)
        \/ s[i].e \notin R /\ \A j \in 1..(i - 1) : s[j].do \in {"join", "detach"}

LEMMA OrderedEnd ==
    ASSUME NEW s \in Seq(GoodStep), NEW t \in Seq(GoodStep), NEW k \in Nat,
           Len(t) = Len(s) - k, \A i \in 1..Len(t) : t[i] = s[i + k], Ordered(s)
    PROVE  Ordered(t)
<1>1. /\ Len(s) \in Nat /\ DOMAIN s = 1..Len(s) /\ Len(t) \in Nat /\ DOMAIN t = 1..Len(t)
      /\ \A i \in 1..Len(t) : i + k \in 1..Len(s)
  BY LenProperties
<1>2. ASSUME NEW i \in 1..Len(t), NEW j \in 1..Len(t), i < j PROVE Compatible(t[i], t[j])
  <2>1. i + k < j + k
    BY <1>1, <1>2
  <2> QED BY <1>1, <2>1 DEF Ordered
<1>3. ASSUME NEW i \in 1..Len(t), t[i].do = "push_cb"
      PROVE  i < Len(t) /\ t[i + 1].do = "accept" /\ t[i + 1].e = t[i].e
  <2>1. i + k < Len(s) /\ s[i + k + 1].do = "accept" /\ s[i + k + 1].e = s[i + k].e
    BY <1>1, <1>3 DEF Ordered
  <2>2. i < Len(t) /\ i + 1 \in 1..Len(t) /\ i + k + 1 = i + 1 + k
    BY <1>1, <2>1
  <2> QED BY <2>1, <2>2
<1> QED BY <1>1, <1>2, <1>3 DEF Ordered

LEMMA OrderedConcat ==
    ASSUME NEW p \in Seq(GoodStep), NEW t \in Seq(GoodStep), Ordered(p), Ordered(t),
           Strict(p), Strict(t), \A x \in Range(p), y \in Range(t) : Compatible(x, y)
    PROVE  Ordered(p \o t) /\ Strict(p \o t)
<1> DEFINE n == Len(p)
           m == Len(t)
           q == p \o t
<1>1. /\ n \in Nat /\ m \in Nat /\ DOMAIN p = 1..n /\ DOMAIN t = 1..m
      /\ Len(q) = n + m /\ DOMAIN q = 1..(n + m)
      /\ \A i \in 1..n : q[i] = p[i] /\ p[i] \in Range(p)
      /\ \A i \in (n + 1)..(n + m) : i - n \in 1..m /\ q[i] = t[i - n] /\ t[i - n] \in Range(t)
  <2>1. n \in Nat /\ m \in Nat /\ DOMAIN p = 1..n /\ DOMAIN t = 1..m
    BY LenProperties
  <2>2. /\ Len(q) = n + m /\ q \in Seq(GoodStep)
        /\ \A i \in 1..(n + m) : q[i] = IF i <= n THEN p[i] ELSE t[i - n]
    BY ConcatProperties
  <2>3. DOMAIN q = 1..(n + m)
    BY <2>2, LenProperties
  <2>4. \A i \in (n + 1)..(n + m) : i - n \in 1..m /\ ~(i <= n) /\ i \in 1..(n + m)
    BY <2>1
  <2>5. \A i \in 1..n : i <= n /\ i \in 1..(n + m)
    BY <2>1
  <2> QED BY <2>1, <2>2, <2>3, <2>4, <2>5 DEF Range
<1>2. \A i \in 1..(n + m) : i \in 1..n \/ i \in (n + 1)..(n + m)
  BY <1>1
<1> HIDE DEF n, m, q
<1>3. ASSUME NEW i \in 1..(n + m), NEW j \in 1..(n + m), i < j
      PROVE  Compatible(q[i], q[j])
  <2>1. CASE j \in 1..n
    <3>1. i \in 1..n
      BY <1>1, <1>3, <2>1
    <3> QED BY <1>1, <1>3, <2>1, <3>1 DEF Ordered
  <2>2. CASE j \in (n + 1)..(n + m) /\ i \in 1..n
    BY <1>1, <2>2
  <2>3. CASE j \in (n + 1)..(n + m) /\ i \in (n + 1)..(n + m)
    <3>1. \A x, y \in 1..m : x < y => Compatible(t[x], t[y])
      BY <1>1 DEF Ordered
    <3>2. /\ i - n \in 1..m /\ j - n \in 1..m /\ i - n < j - n
          /\ q[i] = t[i - n] /\ q[j] = t[j - n]
      BY <1>1, <1>3, <2>3
    <3> QED BY <3>1, <3>2
  <2> QED BY <1>2, <2>1, <2>2, <2>3
<1>4. ASSUME NEW i \in 1..(n + m), q[i].do = "push_cb"
      PROVE  i < n + m /\ q[i + 1].do = "accept" /\ q[i + 1].e = q[i].e
  <2>1. CASE i \in 1..n
    <3>1. i < n /\ p[i + 1].do = "accept" /\ p[i + 1].e = p[i].e
      BY <1>1, <1>4, <2>1 DEF Ordered, n
    <3>2. i + 1 \in 1..n
      BY <1>1, <3>1
    <3> QED BY <1>1, <2>1, <3>1, <3>2
  <2>2. CASE i \in (n + 1)..(n + m)
    <3>1. i - n < m /\ t[i - n + 1].do = "accept" /\ t[i - n + 1].e = t[i - n].e
      BY <1>1, <1>4, <2>2 DEF Ordered, m
    <3>2. i + 1 \in (n + 1)..(n + m) /\ i + 1 - n = i - n + 1
      BY <1>1, <2>2, <3>1
    <3> QED BY <1>1, <2>2, <3>1, <3>2
  <2> QED BY <1>2, <2>1, <2>2
<1>5. ASSUME NEW i \in 1..(n + m), q[i].do = "detach"
      PROVE  i > 1 /\ q[i - 1].do = "unlink" /\ q[i - 1].e = q[i].e
  <2>1. CASE i \in 1..n
    <3>1. i > 1 /\ p[i - 1].do = "unlink" /\ p[i - 1].e = p[i].e
      BY <1>1, <1>5, <2>1 DEF Strict, Follows
    <3>2. i - 1 \in 1..n
      BY <1>1, <2>1, <3>1
    <3> QED BY <1>1, <2>1, <3>1, <3>2
  <2>2. CASE i \in (n + 1)..(n + m)
    <3>1. i - n > 1 /\ t[i - n - 1].do = "unlink" /\ t[i - n - 1].e = t[i - n].e
      BY <1>1, <1>5, <2>2 DEF Strict, Follows
    <3>2. i - 1 \in (n + 1)..(n + m) /\ i - 1 - n = i - n - 1 /\ i > 1
      BY <1>1, <2>2, <3>1
    <3> QED BY <1>1, <2>2, <3>1, <3>2
  <2> QED BY <1>2, <2>1, <2>2
<1> QED BY <1>1, <1>3, <1>4, <1>5 DEF Ordered, Strict, Follows, q

\* What the order of the stack says of the step on top.
LEMMA OrderedTop ==
    ASSUME NEW s \in Seq(GoodStep), s # <<>>, Ordered(s), NEW R, Detaching(s, R)
    PROVE  /\ Ordered(Tail(s))
           /\ \A y \in Range(Tail(s)) : Compatible(Head(s), y)
           /\ Head(s).do = "push_cb" =>
                 Tail(s) # <<>> /\ Head(Tail(s)).do = "accept" /\ Head(Tail(s)).e = Head(s).e
           /\ Head(s).do = "detach" => Head(s).e \notin R
           /\ Head(s).do # "unlink" => Detaching(Tail(s), R)
           /\ Head(s).do \notin {"join", "detach", "unlink"} => Strict(Tail(s))
           /\ Head(s).do = "unlink" =>
                 \A i \in DOMAIN Tail(s) : Tail(s)[i].do = "detach" =>
                     IF i > 1 THEN Follows(Tail(s), i) ELSE Tail(s)[i].e = Head(s).e
<1> DEFINE t == Tail(s)
           m == Len(s) - 1
<1>1. /\ Len(s) \in Nat /\ Len(s) > 0 /\ DOMAIN s = 1..Len(s) /\ m \in Nat
      /\ Len(t) = m /\ DOMAIN t = 1..m /\ t \in Seq(GoodStep)
      /\ \A i \in 1..m : t[i] = s[i + 1] /\ i + 1 \in 1..Len(s)
      /\ Head(s) = s[1] /\ 1 \in 1..Len(s)
  BY HeadTailProperties, LenProperties, EmptySeq
<1> HIDE DEF t, m
<1>2. Ordered(t)
  <2>1. Len(t) = Len(s) - 1
    BY <1>1 DEF m
  <2> QED BY <1>1, <2>1, OrderedEnd
<1>3. ASSUME NEW y \in Range(t) PROVE Compatible(s[1], y)
  <2>1. PICK i \in 1..m : y = t[i]
    BY <1>1 DEF Range
  <2>2. i + 1 \in DOMAIN s /\ 1 \in DOMAIN s /\ 1 < i + 1 /\ y = s[i + 1]
    BY <1>1, <2>1
  <2> QED BY <2>2 DEF Ordered
<1>4. ASSUME s[1].do = "push_cb"
      PROVE  t # <<>> /\ Head(t).do = "accept" /\ Head(t).e = s[1].e
  <2>1. 1 < Len(s) /\ s[1 + 1].do = "accept" /\ s[1 + 1].e = s[1].e
    BY <1>1, <1>4 DEF Ordered
  <2>2. 1 \in 1..m
    BY <1>1, <2>1 DEF m
  <2>3. t[1] = s[1 + 1] /\ Len(t) # 0
    BY <1>1, <2>2
  <2>4. t # <<>> /\ Head(t) = t[1]
    BY <1>1, <2>3, EmptySeq, HeadTailProperties
  <2> QED BY <2>1, <2>3, <2>4
<1>5. s[1].do = "detach" => s[1].e \notin R
  BY <1>1 DEF Detaching, Follows
<1>6. ASSUME NEW i \in 1..m, t[i].do = "detach"
      PROVE  \/ i > 1 /\ Follows(t, i)
             \/ i = 1 /\ s[1].do = "unlink" /\ t[i].e = s[1].e
             \/ /\ s[1].do \in {"join", "detach"} /\ t[i].e \notin R
                /\ \A j \in 1..(i - 1) : t[j].do \in {"join", "detach"}
  <2>1. /\ i + 1 \in DOMAIN s /\ s[i + 1] = t[i] /\ i + 1 - 1 = i
    BY <1>1
  <2>2. CASE Follows(s, i + 1)
    <3>1. s[i].do = "unlink" /\ s[i].e = t[i].e
      BY <2>1, <2>2 DEF Follows
    <3>2. CASE i = 1
      BY <3>1, <3>2
    <3>3. CASE i # 1
      <4>1. i - 1 \in 1..m /\ i > 1 /\ i - 1 + 1 = i
        BY <1>1, <3>3
      <4>2. t[i - 1] = s[i]
        BY <1>1, <4>1
      <4> QED BY <3>1, <4>1, <4>2 DEF Follows
    <3> QED BY <3>2, <3>3
  <2>3. CASE s[i + 1].e \notin R /\ \A j \in 1..i : s[j].do \in {"join", "detach"}
    <3>1. s[1].do \in {"join", "detach"}
      BY <1>1, <2>3
    <3>2. ASSUME NEW j \in 1..(i - 1) PROVE t[j].do \in {"join", "detach"}
      <4>1. j + 1 \in 1..i /\ j \in 1..m
        BY <1>1
      <4> QED BY <1>1, <2>3, <4>1
    <3> QED BY <2>1, <2>3, <3>1, <3>2
  <2> QED BY <1>6, <2>1, <2>2, <2>3 DEF Detaching
<1>7. s[1].do # "unlink" => Detaching(t, R)
  BY <1>1, <1>6 DEF Detaching
<1>8. s[1].do \notin {"join", "detach", "unlink"} => Strict(t)
  BY <1>1, <1>6 DEF Strict
<1>9. ASSUME s[1].do = "unlink", NEW i \in 1..m, t[i].do = "detach"
      PROVE  IF i > 1 THEN Follows(t, i) ELSE t[i].e = s[1].e
  BY <1>1, <1>6, <1>9
<1> QED BY <1>1, <1>2, <1>3, <1>4, <1>5, <1>7, <1>8, <1>9 DEF t

\* An early return drops no removal.
LEMMA ReturnDropsNoUnlink ==
    ASSUME NEW s \in Seq(GoodStep), HasReturn(s)
    PROVE  /\ AfterReturn(s) # <<>> /\ AfterReturn(s)[1].do = "return"
           /\ \A x \in Range(s) : x.do = "unlink" => x \in Range(AfterReturn(s))
<1> DEFINE First(i) == s[i].do = "return" /\ \A j \in 1..(i - 1) : s[j].do # "return"
           r == CHOOSE i \in DOMAIN s : First(i)
           t == SubSeq(s, r, Len(s))
<1>1. Len(s) \in Nat /\ DOMAIN s = 1..Len(s) /\ \A i \in 1..Len(s) : s[i] \in GoodStep
  BY LenProperties, ElementOfSeq
<1>2. PICK h \in 1..Len(s) : s[h].do = "return" /\ \A k \in 1..h : s[k].do # "unlink"
  BY <1>1 DEF HasReturn, Lasting
<1>3. r \in 1..Len(s) /\ First(r)
  <2> DEFINE T == {i \in 1..Len(s) : s[i].do = "return"}
  <2>1. PICK x \in T : \A y \in T : x <= y
    <3>1. T \subseteq Nat /\ T # {}
      BY <1>1, <1>2
    <3> QED BY <3>1, LeastExists
  <2>2. x \in 1..Len(s) /\ First(x)
    BY <1>1, <2>1
  <2> QED BY <1>1, <2>2
<1>4. AfterReturn(s) = t
  BY DEF AfterReturn
<1>5. r <= h
  BY <1>1, <1>2, <1>3
<1> HIDE DEF r
<1>6. /\ t \in Seq(GoodStep) /\ Len(t) = Len(s) - r + 1 /\ DOMAIN t = 1..(Len(s) - r + 1)
      /\ \A i \in 1..(Len(s) - r + 1) : t[i] = s[i + r - 1]
  <2>1. \A i \in r..Len(s) : s[i] \in GoodStep
    BY <1>1, <1>3
  <2> QED BY <1>1, <1>3, <2>1, SubSeqProperties, LenProperties
<1> HIDE DEF t
<1>7. t # <<>> /\ t[1].do = "return"
  <2>1. 1 \in 1..(Len(s) - r + 1) /\ 1 + r - 1 = r
    BY <1>1, <1>3
  <2>2. t[1] = s[r] /\ Len(t) # 0
    BY <1>1, <1>3, <1>6, <2>1
  <2> QED BY <1>3, <1>6, <2>2, EmptySeq
<1>8. ASSUME NEW x \in Range(s), x.do = "unlink" PROVE x \in Range(t)
  <2>1. PICK i \in 1..Len(s) : x = s[i]
    BY <1>1 DEF Range
  <2>2. i > h
    BY <1>1, <1>2, <1>8, <2>1
  <2>3. i - r + 1 \in 1..(Len(s) - r + 1) /\ (i - r + 1) + r - 1 = i
    BY <1>1, <1>3, <1>5, <2>2
  <2>4. x = t[i - r + 1]
    BY <1>6, <2>1, <2>3
  <2> QED BY <1>6, <2>3, <2>4 DEF Range
<1> QED BY <1>4, <1>7, <1>8

\* What a step on the stack claims of its handle.
Claim(x) ==
    /\ x.do \in Fate \cup {"link", "unlink"} => x.e \in alive
    /\ x.do = "accept" => /\ x.e \notin DOMAIN records /\ ~attached[x.e]
                          /\ x.e \in owned => x = cur /\ rc = "ok"
    /\ x.do = "free" => /\ x.e \notin owned
                        /\ x.e \in DOMAIN records => S("unlink", x.e, 0) \in On
Claims == \A x \in On : Claim(x)

RecordsAttached == \A e \in DOMAIN records : attached[e]

Forgotten ==
    /\ FreedIsForgotten /\ RecordsAttached /\ Claims
    /\ Ordered(todo) /\ Detaching(todo, DOMAIN records)

LEMMA StrictDetaches == \A s, R : Strict(s) => Detaching(s, R)
BY DEF Strict, Detaching

\* The step on top is replaced by p.
LEMMA OrderedPut ==
    ASSUME IInv, Forgotten, todo # <<>>, cur.do \notin {"join", "detach", "unlink"},
           NEW p \in Seq(GoodStep), Ordered(p), Strict(p), todo' = p \o rest,
           \A x \in Range(p), y \in Range(rest) : Compatible(x, y)
    PROVE  /\ Ordered(todo') /\ \A R : Detaching(todo', R)
           /\ On' = Range(p) \cup Range(rest)
<1>1. Strict(rest) /\ Ordered(rest) /\ rest \in Seq(GoodStep)
  BY OrderedTop, RestOn DEF Forgotten, cur, rest
<1>2. Ordered(todo') /\ Strict(todo')
  BY <1>1, OrderedConcat
<1>3. On' = Range(p) \cup Range(rest)
  BY <1>1, RangePut DEF On
<1> QED BY <1>2, <1>3, StrictDetaches

\* The new steps are about no handle's fate.
Plain(p) == \A x \in Range(p) : x.do \notin Fate \cup {"link", "unlink", "detach", "push_cb"}

LEMMA PlainOrdered ==
    ASSUME NEW p \in Seq(GoodStep), Plain(p)
    PROVE  /\ Ordered(p) /\ Strict(p)
           /\ \A x \in Range(p) : \A y : Compatible(x, y)
<1>1. \A i \in DOMAIN p : p[i] \in Range(p)
  BY DEF Range
<1>2. \A x \in Range(p) : \A y : Compatible(x, y)
  BY DEF Plain, Compatible
<1> QED BY <1>1, <1>2 DEF Plain, Ordered, Strict

LEMMA ClaimsKept ==
    ASSUME IInv, Forgotten, todo # <<>>, cur.do \notin {"unlink", "accept"},
           UNCHANGED <<alive, owned, attached>>, DOMAIN records' \subseteq DOMAIN records,
           NEW Q, On' \subseteq Q \cup Range(rest),
           \A x \in Q : x.do \notin Fate \cup {"link", "unlink"},
           \A x \in Range(rest) : x.do = "unlink" => x \in On'
    PROVE  FreedIsForgotten' /\ RecordsAttached' /\ Claims'
<1>1. FreedIsForgotten' /\ RecordsAttached'
  BY DEF Forgotten, FreedIsForgotten, RecordsAttached
<1>2. ASSUME NEW x \in On' PROVE Claim(x)'
  <2>1. CASE x \in Q
    BY <2>1 DEF Claim, Fate
  <2>2. CASE x \in Range(rest)
    <3>1. x \in On /\ Claim(x) /\ On = {cur} \cup Range(rest)
      BY <2>2, RestOn DEF Forgotten, Claims
    <3>2. x.do = "accept" => x.e \notin owned
      BY <3>1 DEF Claim
    <3>3. S("unlink", x.e, 0) \in On => S("unlink", x.e, 0) \in On'
      <4>1. S("unlink", x.e, 0).do = "unlink"
        BY DEF S
      <4> QED BY <3>1, <4>1
    <3> QED BY <3>1, <3>2, <3>3 DEF Claim
  <2> QED BY <1>2, <2>1, <2>2
<1> QED BY <1>1, <1>2 DEF Claims

LEMMA PlainPut ==
    ASSUME IInv, Forgotten, todo # <<>>, cur.do \notin {"join", "detach", "unlink", "accept"},
           UNCHANGED <<alive, owned, attached>>, DOMAIN records' \subseteq DOMAIN records,
           NEW p \in Seq(GoodStep), Plain(p), todo' = p \o rest
    PROVE  Forgotten'
<1>1. /\ Ordered(todo') /\ Detaching(todo', DOMAIN records')
      /\ On' = Range(p) \cup Range(rest)
  BY PlainOrdered, OrderedPut
<1>2. FreedIsForgotten' /\ RecordsAttached' /\ Claims'
  BY <1>1, ClaimsKept DEF Plain
<1> QED BY <1>1, <1>2 DEF Forgotten

LEMMA PlainPop ==
    ASSUME IInv, Forgotten, todo # <<>>, cur.do \notin {"unlink", "accept"},
           UNCHANGED <<alive, owned, attached>>, DOMAIN records' = DOMAIN records, todo' = rest
    PROVE  Forgotten'
<1>1. Ordered(todo') /\ Detaching(todo', DOMAIN records')
  BY OrderedTop, RestOn DEF Forgotten, cur, rest
<1> DEFINE Q == {}
<1>2. On' \subseteq Q \cup Range(rest) /\ \A x \in Range(rest) : x \in On'
  BY DEF On
<1>3. \A x \in Range(rest) : x.do = "unlink" => x \in On'
  BY <1>2
<1>4. DOMAIN records' \subseteq DOMAIN records /\ \A x \in Q : x.do \notin Fate \cup {"link", "unlink"}
  OBVIOUS
<1> HIDE DEF Q
<1>5. FreedIsForgotten' /\ RecordsAttached' /\ Claims'
  BY <1>2, <1>3, <1>4, ClaimsKept
<1> QED BY <1>1, <1>5 DEF Forgotten

LEMMA EarlyForgotten ==
    ASSUME IInv, Forgotten, todo # <<>>, cur.do \in {"link", "unlink", "launch"},
           cur.do = "unlink" => cur.e \notin DOMAIN records,
           UNCHANGED <<alive, owned, attached, records>>, todo' = AfterReturn(rest)
    PROVE  Forgotten'
<1>1. rest \in Seq(GoodStep) /\ HasReturn(rest) /\ On = {cur} \cup Range(rest)
  BY RestOn, TopStep DEF NeedsReturn
<1>2. PICK k \in Nat : /\ Len(todo') = Len(rest) - k
                       /\ \A i \in 1..Len(todo') : todo'[i] = rest[i + k]
  BY <1>1, ReturnLeavesEnd
<1>3. todo' \in Seq(GoodStep) /\ On' \subseteq Range(rest)
  BY <1>1, ReturnLeavesEnd DEF On
<1>4. /\ Ordered(rest)
      /\ \A i \in DOMAIN rest : rest[i].do = "detach" /\ i > 1 => Follows(rest, i)
  <2>1. Ordered(rest)
    BY OrderedTop, RestOn DEF Forgotten, cur, rest
  <2>2. CASE cur.do = "unlink"
    BY <2>1, <2>2, OrderedTop, RestOn DEF Forgotten, cur, rest
  <2>3. CASE cur.do # "unlink"
    <3>1. Strict(rest)
      BY <2>3, OrderedTop, RestOn DEF Forgotten, cur, rest
    <3> QED BY <2>1, <3>1 DEF Strict
  <2> QED BY <2>2, <2>3
<1>5. Ordered(todo')
  BY <1>1, <1>2, <1>3, <1>4, OrderedEnd
<1>6. Strict(todo')
  <2>1. todo' # <<>> /\ todo'[1].do = "return"
    BY <1>1, ReturnDropsNoUnlink
  <2>2. /\ Len(todo') \in Nat /\ DOMAIN todo' = 1..Len(todo')
        /\ Len(rest) \in Nat /\ DOMAIN rest = 1..Len(rest)
    BY <1>1, <1>3, LenProperties
  <2> SUFFICES ASSUME NEW i \in 1..Len(todo'), todo'[i].do = "detach"
               PROVE  i > 1 /\ todo'[i - 1].do = "unlink" /\ todo'[i - 1].e = todo'[i].e
    BY <2>2 DEF Strict, Follows
  <2>3. i > 1
    BY <2>1, <2>2
  <2>4. /\ i + k \in 1..Len(rest) /\ i + k > 1 /\ i - 1 \in 1..Len(todo') /\ i - 1 + k = i + k - 1
    BY <1>2, <2>2, <2>3
  <2>5. todo'[i] = rest[i + k] /\ todo'[i - 1] = rest[i + k - 1]
    BY <1>2, <2>4
  <2>6. Follows(rest, i + k)
    BY <1>4, <2>2, <2>4, <2>5
  <2> QED BY <2>3, <2>5, <2>6 DEF Follows
<1>7. ASSUME NEW x \in On' PROVE Claim(x)'
  <2>1. x \in Range(rest) /\ Claim(x)
    BY <1>1, <1>3, <1>7 DEF Forgotten, Claims
  <2>2. x.do = "accept" => x.e \notin owned
    BY <2>1 DEF Claim
  <2>3. S("unlink", x.e, 0) \in On /\ x.e \in DOMAIN records => S("unlink", x.e, 0) \in On'
    <3>1. S("unlink", x.e, 0).do = "unlink" /\ S("unlink", x.e, 0).e = x.e
      BY DEF S
    <3>2. \A y \in Range(rest) : y.do = "unlink" => y \in On'
      BY <1>1, ReturnDropsNoUnlink DEF On
    <3> QED BY <1>1, <3>1, <3>2
  <2> QED BY <2>1, <2>2, <2>3 DEF Claim
<1> QED BY <1>5, <1>6, <1>7, StrictDetaches DEF Forgotten, FreedIsForgotten, RecordsAttached, Claims

\* One to three plain steps take the place of the one on top.
LEMMA PlainSteps ==
    ASSUME NEW a \in GoodStep, NEW b \in GoodStep, NEW c \in GoodStep,
           {a.do, b.do, c.do} \cap (Fate \cup {"link", "unlink", "detach", "push_cb"}) = {}
    PROVE  /\ <<a>> \in Seq(GoodStep) /\ Plain(<<a>>)
           /\ <<a, b>> \in Seq(GoodStep) /\ Plain(<<a, b>>)
           /\ <<a, b, c>> \in Seq(GoodStep) /\ Plain(<<a, b, c>>)
<1>1. <<a>> \in Seq(GoodStep) /\ <<a, b>> \in Seq(GoodStep) /\ <<a, b, c>> \in Seq(GoodStep)
  OBVIOUS
<1>2. Range(<<a>>) = {a} /\ Range(<<a, b>>) = {a, b} /\ Range(<<a, b, c>>) = {a, b, c}
  BY DEF Range
<1> QED BY <1>1, <1>2 DEF Plain

LEMMA ForgottenEvents ==
    ASSUME IInv, Forgotten, Drain \/ Wait \/ Woken \/ Join \/ Return \/ Pushes \/ Read \/ FreeMulti
    PROVE  Forgotten'
<1> USE DEF handleVars, recordVars, At
<1>1. CASE Drain
  <2>1. queue \in Seq(GoodEvent)
    BY DEF IInv
  <2>2. queue \in Seq(GoodStep) /\ Range(queue) \subseteq GoodEvent
    BY <2>1, EventsOnTop, RangeOfSeq DEF Body
  <2>3. Plain(queue)
    BY <2>2 DEF Plain, GoodEvent, Event, Fate
  <2> QED BY <1>1, <2>2, <2>3, PlainPut DEF Drain
<1>2. CASE Wait
  <2>1. CASE todo' = rest
    BY <1>2, <2>1, PlainPop DEF Wait
  <2>2. CASE queue # <<>> /\ todo' = <<Head(queue), Do("drain")>> \o rest
    <3>1. Head(queue) \in GoodEvent
      BY <2>2, HeadTailProperties DEF IInv
    <3>2. Do("drain") \in GoodStep /\ Do("drain").do = "drain"
      BY DEF Do, S, GoodStep, PushStep, Step, StepName
    <3>3. <<Head(queue), Do("drain")>> \in Seq(GoodStep) /\ Plain(<<Head(queue), Do("drain")>>)
      BY <3>1, <3>2, PlainSteps DEF GoodEvent, Event, Fate
    <3> QED BY <1>2, <2>2, <3>3, PlainPut DEF Wait
  <2> QED BY <1>2, <2>1, <2>2 DEF Wait
<1>3. CASE Woken \/ Join \/ Return \/ Read \/ FreeMulti
  BY <1>3, PlainPop DEF Woken, Join, Return, Read, FreeMulti
<1>4. CASE Pushes
  <2>1. CASE todo' = rest
    BY <1>4, <2>1, PlainPop DEF Pushes
  <2>2. CASE "push" \in cbs /\ todo' = <<S("push", cur.e, cur.n)>> \o rest
    <3>1. cur \in GoodStep /\ "push" \in Callbacks
      BY <1>4, <2>2, TopStep DEF Pushes, IInv
    <3>2. S("push", cur.e, cur.n) \in GoodStep /\ S("push", cur.e, cur.n).do = "push"
      BY <3>1 DEF GoodStep, PushStep, Step, StepName, S
    <3>3. <<S("push", cur.e, cur.n)>> \in Seq(GoodStep) /\ Plain(<<S("push", cur.e, cur.n)>>)
      BY <3>2, PlainSteps DEF Fate
    <3> QED BY <1>4, <2>2, <3>3, PlainPut DEF Pushes
  <2> QED BY <1>4, <2>1, <2>2 DEF Pushes
<1> QED BY <1>1, <1>2, <1>3, <1>4

LEMMA ForgottenTimer ==
    ASSUME IInv, Forgotten, todo # <<>>, cur.do \in {"timer", "timer_again"},
           UNCHANGED <<alive, owned, attached, records>>, UpdateTimer(rest)
    PROVE  Forgotten'
<1>1. CASE todo' = rest
  BY <1>1, PlainPop
<1>2. CASE todo' = <<Do("timer_cb")>> \o rest
  <2>1. Do("timer_cb") \in GoodStep /\ Do("timer_cb").do = "timer_cb"
    BY DEF Do, S, GoodStep, PushStep, Step, StepName, InCallback
  <2>2. <<Do("timer_cb")>> \in Seq(GoodStep) /\ Plain(<<Do("timer_cb")>>)
    BY <2>1, PlainSteps DEF Fate
  <2> QED BY <1>2, <2>2, PlainPut
<1> QED BY <1>1, <1>2 DEF UpdateTimer

LEMMA ForgottenCallbacks ==
    ASSUME IInv, Forgotten, Completed \/ Timer \/ TimerAgain \/ PollRemove
    PROVE  Forgotten'
<1> USE DEF handleVars, recordVars, At
<1>1. CASE Completed
  <2>1. CASE cur.e \notin Running
    BY <1>1, <2>1, PlainPop DEF Completed
  <2>2. CASE cur.e \in Running
    <3> DEFINE a == JoinOf(cur.e)
               b == S("poll_remove", cur.e, records[cur.e].socket)
               c == Do("timer")
    <3>1. cur \in GoodStep /\ cur.e \in DOMAIN records /\ records \in [DOMAIN records -> Record]
          /\ cur.e \in Handle
      BY <1>1, <2>2, RestOn DEF Completed, Running, IInv, TypeOK
    <3>2. /\ a \in GoodStep /\ a.do = "join" /\ b \in GoodStep /\ b.do = "poll_remove"
          /\ c \in GoodStep /\ c.do = "timer"
      <4>1. records[cur.e].worker \in Nat /\ records[cur.e].socket \in Nat
        BY <3>1, BoundAssumption DEF Record, Slot, Socket
      <4> QED BY <3>1, <4>1 DEF JoinOf, S, Do, GoodStep, PushStep, Step, StepName, InCallback
    <3>3. todo' = <<a, b, c>> \o rest /\ DOMAIN records' = DOMAIN records
      BY <1>1, <2>2, <3>1 DEF Completed
    <3> HIDE DEF a, b, c
    <3>4. <<a, b, c>> \in Seq(GoodStep) /\ Plain(<<a, b, c>>)
      BY <3>2, PlainSteps DEF Fate
    <3> QED BY <1>1, <3>3, <3>4, PlainPut DEF Completed
  <2> QED BY <2>1, <2>2
<1>2. CASE Timer
  BY <1>2, ForgottenTimer DEF Timer
<1>3. CASE TimerAgain
  <2>1. UpdateTimer(rest) \/ todo' = rest
    BY <1>3 DEF TimerAgain
  <2> QED BY <1>3, <2>1, ForgottenTimer, PlainPop DEF TimerAgain
<1>4. CASE PollRemove
  <2>1. CASE todo' = rest
    BY <1>4, <2>1, PlainPop DEF PollRemove
  <2>2. CASE todo' = <<S("poll_remove_cb", cur.e, cur.n)>> \o rest
    <3> DEFINE c == S("poll_remove_cb", cur.e, cur.n)
    <3>1. c \in GoodStep /\ c.do = "poll_remove_cb"
      <4>1. cur \in GoodStep
        BY <1>4, RestOn DEF PollRemove
      <4> QED BY <4>1 DEF S, GoodStep, PushStep, Step, StepName, InCallback
    <3> HIDE DEF c
    <3>2. <<c>> \in Seq(GoodStep) /\ Plain(<<c>>)
      BY <3>1, PlainSteps DEF Fate
    <3>3. todo' = <<c>> \o rest
      BY <2>2 DEF c
    <3> QED BY <1>4, <3>2, <3>3, PlainPut DEF PollRemove
  <2> QED BY <1>4, <2>1, <2>2 DEF PollRemove
<1> QED BY <1>1, <1>2, <1>3, <1>4

LEMMA ForgottenStart ==
    ASSUME IInv, Forgotten, Start
    PROVE  Forgotten'
<1>1. /\ todo # <<>> /\ cur.do = "start" /\ UNCHANGED <<alive, owned, attached>>
      /\ DOMAIN records' = DOMAIN records
  BY DEF Start, At, handleVars
<1>2. PICK order \in Orders(Unstarted) :
          todo' = [i \in DOMAIN order |-> S("spawn", order[i], 0)]
                  \o <<Do("timer"), Do("timer_again")>> \o rest
  BY DEF Start
<1> DEFINE spawns == [i \in DOMAIN order |-> S("spawn", order[i], 0)]
           timers == <<Do("timer"), Do("timer_again")>>
           p == spawns \o timers
<1>3. /\ Unstarted \subseteq Handle /\ IsFiniteSet(Unstarted) /\ Cardinality(Unstarted) \in Nat
      /\ DOMAIN order = 1..Cardinality(Unstarted)
      /\ \A i \in DOMAIN order : order[i] \in Handle
  <2>1. Unstarted \subseteq Handle
    BY DEF Unstarted, IInv, TypeOK
  <2>2. IsFiniteSet(Unstarted) /\ Cardinality(Unstarted) \in Nat
    BY <2>1, HandleAssumption, FS_Subset, FS_CardinalityType
  <2> QED BY <1>2, <2>1, <2>2 DEF Orders
<1>4. spawns \in Seq(GoodStep) /\ \A x \in Range(spawns) : x.do = "spawn"
  <2>1. \A i \in DOMAIN order : S("spawn", order[i], 0) \in GoodStep /\ S("spawn", order[i], 0).do = "spawn"
    BY <1>3 DEF S, GoodStep, PushStep, Step, StepName
  <2>2. spawns \in Seq(GoodStep)
    BY <1>3, <2>1
  <2> QED BY <2>1, <2>2 DEF Range
<1>5. timers \in Seq(GoodStep) /\ \A x \in Range(timers) : x.do \in {"timer", "timer_again"}
  BY DEF S, Do, GoodStep, PushStep, Step, StepName, Range
<1>6. todo' = p \o rest
  BY <1>2
<1> HIDE DEF spawns, timers
<1>7. p \in Seq(GoodStep) /\ Plain(p)
  <2>1. p \in Seq(GoodStep) /\ Range(p) = Range(spawns) \cup Range(timers)
    BY <1>4, <1>5, ConcatProperties, RangeConcatenation
  <2> QED BY <1>4, <1>5, <2>1 DEF Plain, Fate
<1> HIDE DEF p
<1> QED BY <1>1, <1>6, <1>7, PlainPut

\* Accepted pushes keep the fate of their handle when they get a poll socket.
LEMMA ForgottenSpawn ==
    ASSUME IInv, Forgotten, Spawn
    PROVE  Forgotten'
<1> USE DEF handleVars, recordVars
<1> DEFINE next == IF cur.do = "spawn" THEN "launch" ELSE "push_launch"
           free == Socket \ OpenSockets
           fd == Least(free)
<1>1. /\ todo # <<>> /\ cur \in GoodStep /\ cur.do \in {"spawn", "push_spawn"} /\ cur.e \in Handle
      /\ UNCHANGED <<alive, owned, attached, records>> /\ rest \in Seq(GoodStep)
      /\ On = {cur} \cup Range(rest)
  BY RestOn DEF Spawn, At, GoodStep
<1>2. free # {} => fd \in Socket
  <2>1. free \subseteq Nat
    BY BoundAssumption DEF Socket
  <2> QED BY <2>1, LeastInSet
<1>3. \E n \in Socket \cup {0} : \/ todo' = <<S(next, cur.e, n)>> \o rest
                                 \/ todo' = <<S("poll_in_cb", cur.e, n), S(next, cur.e, n)>> \o rest
  <2>1. \/ todo' = <<S(next, cur.e, 0)>> \o rest
        \/ free # {} /\ todo' = <<S(next, cur.e, fd)>> \o rest
        \/ free # {} /\ todo' = <<S("poll_in_cb", cur.e, fd), S(next, cur.e, fd)>> \o rest
    BY DEF Spawn, MayCallBack
  <2> HIDE DEF free, fd, next
  <2> QED BY <1>2, <2>1
<1>4. PICK n \in Socket \cup {0} : \/ todo' = <<S(next, cur.e, n)>> \o rest
                                   \/ todo' = <<S("poll_in_cb", cur.e, n), S(next, cur.e, n)>> \o rest
  BY <1>3
<1> DEFINE a == S("poll_in_cb", cur.e, n)
           b == S(next, cur.e, n)
<1>5. /\ a \in GoodStep /\ b \in GoodStep /\ a.do = "poll_in_cb" /\ b.e = cur.e
      /\ b.do = next /\ (cur.do = "spawn" => b.do = "launch")
      /\ (cur.do = "push_spawn" => b.do = "push_launch")
  <2>1. n \in Nat
    BY BoundAssumption DEF Socket
  <2> QED BY <1>1, <2>1 DEF S, GoodStep, PushStep, Step, StepName, InCallback
<1>6. todo' = <<b>> \o rest \/ todo' = <<a, b>> \o rest
  BY <1>4
<1> HIDE DEF a, b, next, free, fd
<1>7. CASE cur.do = "spawn"
  <2>1. <<b>> \in Seq(GoodStep) /\ Plain(<<b>>) /\ <<a, b>> \in Seq(GoodStep) /\ Plain(<<a, b>>)
    BY <1>5, <1>7, PlainSteps DEF Fate
  <2> QED BY <1>1, <1>6, <1>7, <2>1, PlainPut
<1>8. CASE cur.do = "push_spawn"
  <2>1. PICK p \in {<<b>>, <<a, b>>} : todo' = p \o rest
    BY <1>6
  <2>2. p \in Seq(GoodStep) /\ Range(p) \subseteq {a, b}
    <3>1. <<b>> \in Seq(GoodStep) /\ <<a, b>> \in Seq(GoodStep)
      BY <1>5
    <3>2. Range(<<b>>) = {b} /\ Range(<<a, b>>) = {a, b}
      BY DEF Range
    <3> QED BY <2>1, <3>1, <3>2
  <2>3. Ordered(p) /\ Strict(p)
    BY <1>5, <1>8, <2>1 DEF Ordered, Strict, Compatible, Fate
  <2>4. \A x \in {a, b}, y \in Range(rest) : Compatible(x, y)
    <3>1. \A y \in Range(rest) : Compatible(cur, y)
      BY <1>1, OrderedTop, RestOn DEF Forgotten, cur, rest
    <3> QED BY <1>5, <1>8, <3>1 DEF Compatible, Fate
  <2>5. /\ Ordered(todo') /\ Detaching(todo', DOMAIN records')
        /\ On' = Range(p) \cup Range(rest)
    BY <1>1, <1>8, <2>1, <2>2, <2>3, <2>4, OrderedPut
  <2>6. ASSUME NEW x \in On' PROVE Claim(x)'
    <3>1. CASE x \in {a, b}
      <4>1. cur.e \in alive
        BY <1>1, <1>8 DEF Forgotten, Claims, Claim, Fate
      <4> QED BY <1>1, <1>5, <1>8, <3>1, <4>1 DEF Claim, Fate
    <3>2. CASE x \in Range(rest)
      <4>1. Claim(x) /\ \A e : S("unlink", e, 0) \in On => S("unlink", e, 0) \in On'
        BY <1>1, <1>8, <2>5, <3>2 DEF Forgotten, Claims, S
      <4>2. x.do = "accept" => x.e \notin owned
        BY <1>8, <4>1 DEF Claim
      <4> QED BY <1>1, <4>1, <4>2 DEF Claim
    <3> QED BY <2>2, <2>5, <2>6, <3>1, <3>2
  <2> QED BY <1>1, <2>5, <2>6 DEF Forgotten, FreedIsForgotten, RecordsAttached, Claims
<1> QED BY <1>1, <1>7, <1>8

\* What the steps below the one on top claim.
LEMMA RestClaims ==
    ASSUME IInv, Forgotten, todo # <<>>
    PROVE  /\ rest \in Seq(GoodStep) /\ Range(rest) \subseteq GoodStep /\ On = {cur} \cup Range(rest)
           /\ cur \in GoodStep /\ Claim(cur)
           /\ \A x \in Range(rest) : /\ Claim(x) /\ Compatible(cur, x)
                                     /\ x.do = "accept" => x.e \notin owned
<1>1. rest \in Seq(GoodStep) /\ On = {cur} \cup Range(rest) /\ On \subseteq GoodStep /\ cur \in GoodStep
  BY RestOn
<1>2. \A x \in Range(rest) : Compatible(cur, x)
  BY OrderedTop, RestOn DEF Forgotten, cur, rest
<1>3. \A x \in On : Claim(x)
  BY DEF Forgotten, Claims
<1>4. ASSUME NEW x \in Range(rest), x.do = "accept" PROVE x.e \notin owned
  <2>1. Claim(x) /\ Compatible(cur, x)
    BY <1>1, <1>2, <1>3
  <2>2. x.e \in owned => x = cur
    BY <1>4, <2>1 DEF Claim
  <2> QED BY <1>4, <2>1, <2>2 DEF Compatible, Fate
<1> QED BY <1>1, <1>2, <1>3, <1>4

LEMMA ForgottenLaunch ==
    ASSUME IInv, Forgotten, Launch
    PROVE  Forgotten'
<1> USE DEF handleVars, At
<1>1. todo # <<>> /\ cur.do = "launch" /\ UNCHANGED <<alive, owned, attached>>
  BY DEF Launch
<1>2. CASE rc = "ok"
  <2>1. cur.e \in Handle /\ cur.n \in Socket \cup {0}
    BY <1>1, RestOn DEF GoodStep
  <2>2. DOMAIN records' = DOMAIN records /\ todo' = rest
    BY <1>2, <2>1, StartWorkerInv DEF Launch
  <2> QED BY <1>1, <2>2, PlainPop
<1>3. CASE rc # "ok"
  BY <1>1, <1>3, EarlyForgotten DEF Launch
<1> QED BY <1>2, <1>3

LEMMA ForgottenLink ==
    ASSUME IInv, Forgotten, Link
    PROVE  Forgotten'
<1> USE DEF At
<1>1. /\ todo # <<>> /\ cur.do = "link" /\ UNCHANGED <<alive, owned>>
      /\ cur.e \in Handle /\ attached \in [Handle -> BOOLEAN]
  BY RestOn DEF Link, GoodStep, IInv, TypeOK
<1>2. CASE cur.e \in DOMAIN records
  BY <1>1, <1>2, EarlyForgotten DEF Link
<1>3. CASE cur.e \notin DOMAIN records
  <2>1. /\ todo' = rest /\ DOMAIN records' = DOMAIN records \cup {cur.e}
        /\ attached' = [attached EXCEPT ![cur.e] = TRUE]
    BY <1>3 DEF Link, Insert
  <2>2. FreedIsForgotten' /\ RecordsAttached'
    <3>1. cur.e \in alive
      BY <1>1, RestClaims DEF Claim
    <3> QED BY <1>1, <2>1, <3>1 DEF Forgotten, FreedIsForgotten, RecordsAttached, IInv, TypeOK
  <2>3. ASSUME NEW x \in On' PROVE Claim(x)'
    <3>1. /\ x \in Range(rest) /\ Claim(x) /\ x \in GoodStep /\ On = {cur} \cup On'
          /\ x.do \in {"accept", "free"} => x.e # cur.e
          /\ x.do = "accept" => x.e \notin owned
      BY <1>1, <2>1, <2>3, RestClaims DEF On, Compatible
    <3>2. S("unlink", x.e, 0) \in On => S("unlink", x.e, 0) \in On'
      BY <1>1, <3>1 DEF S
    <3>3. x.do = "accept" => attached'[x.e] = attached[x.e]
      BY <1>1, <2>1, <3>1
    <3> QED BY <1>1, <2>1, <3>1, <3>2, <3>3 DEF Claim
  <2>4. Ordered(todo') /\ Strict(todo')
    BY <1>1, <2>1, OrderedTop, RestOn DEF Forgotten, cur, rest
  <2> QED BY <2>2, <2>3, <2>4, StrictDetaches DEF Forgotten, Claims
<1> QED BY <1>2, <1>3

\* Joins and detachings may be put on any stack.
LEMMA QuietOnTop ==
    ASSUME NEW p \in Seq(GoodStep), NEW s \in Seq(GoodStep), Ordered(s),
           \A x \in Range(p) : x.do \in {"join", "detach"}
    PROVE  /\ Ordered(p \o s) /\ DOMAIN (p \o s) = 1..(Len(p) + Len(s))
           /\ Len(p) \in Nat /\ Len(s) \in Nat /\ DOMAIN s = 1..Len(s)
           /\ \A i \in 1..Len(p) : (p \o s)[i] = p[i] /\ p[i] \in Range(p)
           /\ \A i \in (Len(p) + 1)..(Len(p) + Len(s)) :
                 i - Len(p) \in 1..Len(s) /\ (p \o s)[i] = s[i - Len(p)]
<1> DEFINE n == Len(p)
           m == Len(s)
           q == p \o s
<1>1. /\ n \in Nat /\ m \in Nat /\ DOMAIN p = 1..n /\ DOMAIN s = 1..m
      /\ Len(q) = n + m /\ DOMAIN q = 1..(n + m)
      /\ \A i \in 1..n : q[i] = p[i] /\ p[i] \in Range(p)
      /\ \A i \in (n + 1)..(n + m) : i - n \in 1..m /\ q[i] = s[i - n]
  <2>1. n \in Nat /\ m \in Nat /\ DOMAIN p = 1..n /\ DOMAIN s = 1..m
    BY LenProperties
  <2>2. /\ Len(q) = n + m /\ q \in Seq(GoodStep)
        /\ \A i \in 1..(n + m) : q[i] = IF i <= n THEN p[i] ELSE s[i - n]
    BY ConcatProperties
  <2>3. DOMAIN q = 1..(n + m)
    BY <2>2, LenProperties
  <2>4. \A i \in (n + 1)..(n + m) : i - n \in 1..m /\ ~(i <= n) /\ i \in 1..(n + m)
    BY <2>1
  <2>5. \A i \in 1..n : i <= n /\ i \in 1..(n + m)
    BY <2>1
  <2> QED BY <2>1, <2>2, <2>3, <2>4, <2>5 DEF Range
<1>2. \A i \in 1..(n + m) : i \in 1..n \/ i \in (n + 1)..(n + m)
  BY <1>1
<1> HIDE DEF n, m, q
<1>3. \A i \in 1..n : q[i].do \in {"join", "detach"}
  BY <1>1
<1>4. ASSUME NEW i \in 1..(n + m), NEW j \in 1..(n + m), i < j
      PROVE  Compatible(q[i], q[j])
  <2>1. CASE i \in 1..n
    BY <1>3, <2>1 DEF Compatible, Fate
  <2>2. CASE i \in (n + 1)..(n + m)
    <3>1. /\ i - n \in 1..m /\ q[i] = s[i - n] /\ i - n < j - n
          /\ j - n \in 1..m /\ q[j] = s[j - n]
      BY <1>1, <1>2, <1>4, <2>2
    <3> QED BY <1>1, <3>1 DEF Ordered
  <2> QED BY <1>2, <2>1, <2>2
<1>5. ASSUME NEW i \in 1..(n + m), q[i].do = "push_cb"
      PROVE  i < Len(q) /\ q[i + 1].do = "accept" /\ q[i + 1].e = q[i].e
  <2>1. i \in (n + 1)..(n + m)
    BY <1>2, <1>3, <1>5
  <2>2. i - n < m /\ s[i - n + 1].do = "accept" /\ s[i - n + 1].e = s[i - n].e
    BY <1>1, <1>5, <2>1 DEF Ordered, m
  <2>3. i + 1 \in (n + 1)..(n + m) /\ i + 1 - n = i - n + 1
    BY <1>1, <2>1, <2>2
  <2> QED BY <1>1, <2>1, <2>2, <2>3
<1> QED BY <1>1, <1>4, <1>5 DEF Ordered, n, m, q

LEMMA ForgottenUnlink ==
    ASSUME IInv, Forgotten, Unlink
    PROVE  Forgotten'
<1> USE DEF At, handleVars, recordVars
<1>1. /\ todo # <<>> /\ cur.do = "unlink" /\ UNCHANGED <<alive, owned, attached, rc>>
  BY DEF Unlink
<1>2. CASE cur.e \notin DOMAIN records
  BY <1>1, <1>2, EarlyForgotten DEF Unlink
<1>3. CASE cur.e \in DOMAIN records
  <2> DEFINE j == JoinOf(cur.e)
             q == <<j>> \o rest
  <2>1. todo' = q /\ DOMAIN records' = DOMAIN records \ {cur.e}
    BY <1>3 DEF Unlink, Erase
  <2>2. j \in GoodStep /\ j.do = "join"
    <3>1. cur.e \in Handle /\ records[cur.e].worker \in Nat
      BY <1>3, BoundAssumption DEF IInv, TypeOK, Record, Slot
    <3> QED BY <3>1 DEF JoinOf, S, GoodStep, PushStep, Step, StepName
  <2> HIDE DEF j
  <2>3. <<j>> \in Seq(GoodStep) /\ Range(<<j>>) = {j} /\ Len(<<j>>) = 1
    BY <2>2 DEF Range
  <2>4. /\ rest \in Seq(GoodStep) /\ Ordered(rest)
        /\ \A i \in DOMAIN rest : rest[i].do = "detach" =>
              IF i > 1 THEN Follows(rest, i) ELSE rest[i].e = cur.e
    BY <1>1, OrderedTop, RestOn DEF Forgotten, cur, rest
  <2>5. /\ Ordered(q) /\ DOMAIN q = 1..(1 + Len(rest)) /\ Len(rest) \in Nat
        /\ DOMAIN rest = 1..Len(rest) /\ q[1] = j
        /\ \A i \in 2..(1 + Len(rest)) : i - 1 \in 1..Len(rest) /\ q[i] = rest[i - 1]
    <3>1. \A x \in Range(<<j>>) : x.do \in {"join", "detach"}
      BY <2>2, <2>3
    <3>2. 1 \in 1..1 /\ <<j>>[1] = j /\ 1 + 1 = 2
      OBVIOUS
    <3>3. /\ Ordered(q) /\ DOMAIN q = 1..(1 + Len(rest)) /\ Len(rest) \in Nat
          /\ DOMAIN rest = 1..Len(rest) /\ \A i \in 1..1 : q[i] = <<j>>[i]
          /\ \A i \in (1 + 1)..(1 + Len(rest)) : i - 1 \in 1..Len(rest) /\ q[i] = rest[i - 1]
      BY <2>3, <2>4, <3>1, QuietOnTop
    <3> QED BY <3>2, <3>3
  <2>6. On' = {j} \cup Range(rest)
    BY <2>1, <2>3, <2>4, RangePut DEF On
  <2> HIDE DEF q
  <2>7. Detaching(todo', DOMAIN records')
    <3> SUFFICES ASSUME NEW i \in 1..(1 + Len(rest)), q[i].do = "detach"
                 PROVE  \/ Follows(q, i)
                        \/ q[i].e \notin DOMAIN records' /\ \A k \in 1..(i - 1) : q[k].do \in {"join", "detach"}
      BY <2>1, <2>5 DEF Detaching
    <3>1. i \in 2..(1 + Len(rest)) /\ q[i] = rest[i - 1] /\ i - 1 \in 1..Len(rest)
      BY <2>2, <2>5
    <3>2. CASE i - 1 > 1
      <4>1. rest[i - 1 - 1].do = "unlink" /\ rest[i - 1 - 1].e = rest[i - 1].e
        BY <2>4, <2>5, <3>1, <3>2 DEF Follows
      <4>2. i - 1 \in 2..(1 + Len(rest)) /\ i > 1
        BY <2>5, <3>1, <3>2
      <4>3. q[i - 1] = rest[i - 1 - 1]
        BY <2>5, <4>2
      <4> QED BY <3>1, <4>1, <4>2, <4>3 DEF Follows
    <3>3. CASE ~(i - 1 > 1)
      <4>1. i = 2
        BY <2>5, <3>1, <3>3
      <4>2. q[i].e = cur.e
        BY <2>4, <2>5, <3>1, <3>3
      <4>3. \A k \in 1..(i - 1) : k = 1
        BY <4>1
      <4> QED BY <2>1, <2>2, <2>5, <4>2, <4>3
    <3> QED BY <3>2, <3>3
  <2>8. ASSUME NEW x \in On' PROVE Claim(x)'
    <3>1. CASE x = j
      BY <2>2, <3>1 DEF Claim, Fate
    <3>2. CASE x \in Range(rest)
      <4>1. Claim(x) /\ On = {cur} \cup Range(rest) /\ (x.do = "accept" => x.e \notin owned)
        BY <1>1, <3>2, RestClaims
      <4>2. S("unlink", x.e, 0) \in On /\ x.e # cur.e => S("unlink", x.e, 0) \in On'
        <5>1. S("unlink", x.e, 0).e = x.e
          BY DEF S
        <5> QED BY <2>6, <4>1, <5>1
      <4> QED BY <1>1, <2>1, <4>1, <4>2 DEF Claim
    <3> QED BY <2>6, <2>8, <3>1, <3>2
  <2>9. FreedIsForgotten' /\ RecordsAttached'
    BY <1>1, <2>1 DEF Forgotten, FreedIsForgotten, RecordsAttached
  <2> QED BY <2>1, <2>5, <2>7, <2>8, <2>9 DEF Forgotten, Claims
<1> QED BY <1>2, <1>3

LEMMA ForgottenFree ==
    ASSUME IInv, Forgotten, Detach \/ Free
    PROVE  Forgotten'
<1> USE DEF At, recordVars
<1>1. /\ todo # <<>> /\ cur.do \in {"detach", "free"} /\ UNCHANGED <<owned, records>> /\ todo' = rest
      /\ attached' = [attached EXCEPT ![cur.e] = FALSE] /\ attached \in [Handle -> BOOLEAN]
      /\ alive' = IF cur.do = "free" THEN alive \ {cur.e} ELSE alive
  BY DEF Detach, Free, IInv, TypeOK
<1>2. cur.e \notin DOMAIN records
  <2>1. CASE cur.do = "detach"
    BY <1>1, <2>1, OrderedTop, RestOn DEF Forgotten, cur, rest
  <2>2. CASE cur.do = "free"
    <3> DEFINE u == S("unlink", cur.e, 0)
    <3>1. u.do = "unlink" /\ u.e = cur.e
      BY DEF S
    <3> HIDE DEF u
    <3>2. u \notin Range(rest)
      BY <1>1, <2>2, <3>1, RestClaims DEF Compatible, Fate
    <3>3. u \notin On
      BY <1>1, <2>2, <3>1, <3>2, RestClaims
    <3> QED BY <1>1, <2>2, <3>3, RestClaims DEF Claim, u
  <2> QED BY <1>1, <2>1, <2>2
<1>3. FreedIsForgotten' /\ RecordsAttached'
  <2>1. cur.do = "free" => cur.e \notin owned
    BY <1>1, RestClaims DEF Claim
  <2>2. \A e \in Handle : attached'[e] => attached[e] /\ e # cur.e
    BY <1>1
  <2>3. \A e \in DOMAIN records : attached'[e]
    BY <1>1, <1>2 DEF Forgotten, RecordsAttached
  <2> QED BY <1>1, <1>2, <2>1, <2>2, <2>3 DEF Forgotten, FreedIsForgotten, RecordsAttached
<1>4. ASSUME NEW x \in On' PROVE Claim(x)'
  <2>1. /\ x \in Range(rest) /\ Claim(x) /\ Compatible(cur, x) /\ On = {cur} \cup On'
        /\ x.do = "accept" => x.e \notin owned
    BY <1>1, <1>4, RestClaims DEF On
  <2>2. S("unlink", x.e, 0) \in On => S("unlink", x.e, 0) \in On'
    BY <1>1, <2>1 DEF S
  <2>3. ~attached[x.e] => ~attached'[x.e]
    BY <1>1
  <2> QED BY <1>1, <2>1, <2>2, <2>3 DEF Claim, Compatible, Fate
<1>5. Ordered(todo') /\ Detaching(todo', DOMAIN records')
  BY <1>1, OrderedTop, RestOn DEF Forgotten, cur, rest
<1> QED BY <1>3, <1>4, <1>5 DEF Forgotten, Claims

LEMMA ForgottenClear ==
    ASSUME IInv, Forgotten, Clear
    PROVE  Forgotten'
<1> USE DEF At, handleVars
<1> DEFINE joins == [i \in 1..Len(easies) |-> JoinOf(easies[i])]
           detaches == [i \in 1..Len(easies) |-> S("detach", easies[i], 0)]
           p == joins \o detaches
<1>1. /\ todo # <<>> /\ cur.do = "clear" /\ UNCHANGED <<alive, owned, attached>>
      /\ DOMAIN records' = {} /\ todo' = p \o rest
  BY DEF Clear, NoRecords
<1>2. /\ Len(easies) \in Nat /\ DOMAIN easies = 1..Len(easies)
      /\ \A i \in 1..Len(easies) : easies[i] \in Handle /\ records[easies[i]].worker \in Nat
  <2>1. easies \in Seq(Handle) /\ records \in [DOMAIN records -> Record]
    BY DEF IInv, TypeOK
  <2>2. Len(easies) \in Nat /\ DOMAIN easies = 1..Len(easies)
    BY <2>1, LenProperties
  <2>3. \A i \in 1..Len(easies) : easies[i] \in Handle /\ easies[i] \in DOMAIN records
    BY <2>1, <2>2 DEF IInv, EasiesUnique
  <2> QED BY <2>1, <2>2, <2>3, BoundAssumption DEF Record, Slot
<1>3. \A i \in 1..Len(easies) : /\ JoinOf(easies[i]) \in GoodStep /\ JoinOf(easies[i]).do = "join"
                                /\ S("detach", easies[i], 0) \in GoodStep
                                /\ S("detach", easies[i], 0).do = "detach"
  BY <1>2 DEF JoinOf, S, GoodStep, PushStep, Step, StepName
<1>4. joins \in Seq(GoodStep) /\ \A x \in Range(joins) : x.do = "join"
  BY <1>2, <1>3 DEF Range
<1>5. detaches \in Seq(GoodStep) /\ \A x \in Range(detaches) : x.do = "detach"
  BY <1>2, <1>3 DEF Range
<1> HIDE DEF joins, detaches
<1>6. p \in Seq(GoodStep) /\ \A x \in Range(p) : x.do \in {"join", "detach"}
  <2>1. p \in Seq(GoodStep) /\ Range(p) = Range(joins) \cup Range(detaches)
    BY <1>4, <1>5, ConcatProperties, RangeConcatenation
  <2> QED BY <1>4, <1>5, <2>1
<1> HIDE DEF p
<1> DEFINE q == p \o rest
           n == Len(p)
           m == Len(rest)
<1>7. rest \in Seq(GoodStep) /\ Ordered(rest) /\ Strict(rest)
  BY <1>1, OrderedTop, RestOn DEF Forgotten, cur, rest
<1>8. /\ Ordered(q) /\ DOMAIN q = 1..(n + m) /\ n \in Nat /\ m \in Nat /\ DOMAIN rest = 1..m
      /\ \A i \in 1..n : q[i] = p[i] /\ p[i] \in Range(p)
      /\ \A i \in (n + 1)..(n + m) : i - n \in 1..m /\ q[i] = rest[i - n]
  BY <1>6, <1>7, QuietOnTop
<1>9. todo' = q
  BY <1>1
<1>10. On' = Range(p) \cup Range(rest)
  BY <1>6, <1>7, <1>9, RangePut DEF On
<1> HIDE DEF q, n, m
<1>11. Detaching(todo', DOMAIN records')
  <2> SUFFICES ASSUME NEW i \in 1..(n + m), q[i].do = "detach"
               PROVE  Follows(q, i) \/ \A k \in 1..(i - 1) : q[k].do \in {"join", "detach"}
    BY <1>1, <1>8, <1>9 DEF Detaching
  <2>1. CASE i \in 1..n
    <3>1. \A k \in 1..(i - 1) : k \in 1..n
      BY <1>8, <2>1
    <3> QED BY <1>6, <1>8, <3>1
  <2>2. CASE i \notin 1..n
    <3>1. i \in (n + 1)..(n + m)
      BY <1>8, <2>2
    <3>2. /\ i - n \in 1..m /\ q[i] = rest[i - n] /\ i - n > 1
          /\ rest[i - n - 1].do = "unlink" /\ rest[i - n - 1].e = rest[i - n].e
      BY <1>7, <1>8, <3>1 DEF Strict, Follows
    <3>3. i - 1 \in (n + 1)..(n + m) /\ i - 1 - n = i - n - 1 /\ i > 1
      BY <1>8, <3>1, <3>2
    <3>4. q[i - 1] = rest[i - n - 1]
      BY <1>8, <3>3
    <3> QED BY <3>2, <3>3, <3>4 DEF Follows
  <2> QED BY <2>1, <2>2
<1>12. ASSUME NEW x \in On' PROVE Claim(x)'
  <2>1. CASE x \in Range(p)
    BY <1>6, <2>1 DEF Claim, Fate
  <2>2. CASE x \in Range(rest)
    <3>1. Claim(x) /\ (x.do = "accept" => x.e \notin owned)
      BY <1>1, <2>2, RestClaims
    <3> QED BY <1>1, <3>1 DEF Claim
  <2> QED BY <1>10, <1>12, <2>1, <2>2
<1>13. FreedIsForgotten' /\ RecordsAttached'
  BY <1>1 DEF Forgotten, FreedIsForgotten, RecordsAttached
<1> QED BY <1>8, <1>9, <1>11, <1>12, <1>13 DEF Forgotten, Claims

\* The steps p take the place of the one on top; what those below claim is not touched.
LEMMA PutForgotten ==
    ASSUME IInv, Forgotten, todo # <<>>, cur.do \notin {"join", "detach", "unlink"},
           NEW p \in Seq(GoodStep), Ordered(p), Strict(p), todo' = p \o rest,
           \A x \in Range(p), y \in Range(rest) : Compatible(x, y),
           alive \subseteq alive', owned' \subseteq owned, FreedIsForgotten', RecordsAttached',
           NEW e, DOMAIN records' \subseteq DOMAIN records \cup {e},
           \A h : ~attached[h] /\ h # e => ~attached'[h],
           \A y \in Range(rest) : y.do \in {"accept", "free"} => y.e # e,
           \A x \in Range(p) : Claim(x)'
    PROVE  Forgotten'
<1>1. /\ Ordered(todo') /\ Detaching(todo', DOMAIN records')
      /\ On' = Range(p) \cup Range(rest)
  BY OrderedPut
<1>2. ASSUME NEW x \in On' PROVE Claim(x)'
  <2>1. CASE x \in Range(p)
    BY <2>1
  <2>2. CASE x \in Range(rest)
    <3>1. /\ Claim(x) /\ On = {cur} \cup Range(rest)
          /\ x.do = "accept" => x.e \notin owned
      BY <2>2, RestClaims
    <3>2. S("unlink", x.e, 0) \in On => S("unlink", x.e, 0) \in On'
      BY <1>1, <3>1 DEF S
    <3> QED BY <2>2, <3>1, <3>2 DEF Claim
  <2> QED BY <1>1, <1>2, <2>1, <2>2
<1> QED BY <1>1, <1>2 DEF Forgotten, Claims

LEMMA ForgottenPush ==
    ASSUME IInv, Forgotten, Push
    PROVE  Forgotten'
<1> USE DEF At, recordVars
<1>1. /\ todo # <<>> /\ cur.do = "push" /\ UNCHANGED <<owned, attached, records, rc>>
      /\ attached \in [Handle -> BOOLEAN]
  BY DEF Push, IInv, TypeOK
<1>2. CASE todo' = rest /\ UNCHANGED alive
  BY <1>1, <1>2, PlainPop
<1>3. ASSUME cur.n > 0, NEW h \in Handle \ alive, alive' = alive \cup {h},
             todo' = <<S("push_cb", h, 0), S("accept", h, 0), S("push", cur.e, cur.n - 1)>> \o rest
      PROVE  Forgotten'
  <2> DEFINE ask == S("push_cb", h, 0)
             answer == S("accept", h, 0)
             more == S("push", cur.e, cur.n - 1)
             p == <<ask, answer, more>>
  <2>1. /\ ask.do = "push_cb" /\ ask.e = h /\ answer.do = "accept" /\ answer.e = h
        /\ more.do = "push"
    BY DEF S
  <2>2. ask \in GoodStep /\ answer \in GoodStep /\ more \in GoodStep
    <3>1. cur \in GoodStep /\ "push" \in Callbacks
      BY <1>1, RestOn DEF GoodStep, PushStep
    <3> QED BY <1>3, <3>1 DEF S, GoodStep, PushStep, Step, StepName, InCallback
  <2> HIDE DEF ask, answer, more
  <2>3. p \in Seq(GoodStep) /\ Range(p) = {ask, answer, more}
    BY <2>2 DEF Range
  <2>4. Ordered(p) /\ Strict(p)
    BY <2>1 DEF Ordered, Strict, Compatible, Fate
  <2>5. todo' = p \o rest
    BY <1>3 DEF ask, answer, more
  <2>6. ASSUME NEW y \in Range(rest)
        PROVE  /\ \A x \in {ask, answer, more} : Compatible(x, y)
               /\ y.do \in {"accept", "free"} => y.e # h
    <3>1. Claim(y)
      BY <1>1, RestClaims
    <3>2. y.do \in Fate \cup {"link", "unlink"} => y.e # h
      BY <3>1 DEF Claim
    <3> QED BY <2>1, <3>2 DEF Compatible, Fate
  <2>7. /\ h \notin DOMAIN records /\ ~attached[h] /\ h \notin owned
        /\ FreedIsForgotten' /\ RecordsAttached'
    BY <1>1, <1>3 DEF Forgotten, FreedIsForgotten, RecordsAttached
  <2>8. ASSUME NEW x \in {ask, answer, more} PROVE Claim(x)'
    BY <1>1, <1>3, <2>1, <2>7 DEF Claim, Fate
  <2> HIDE DEF p
  <2>9. /\ \A x \in Range(p), y \in Range(rest) : Compatible(x, y)
        /\ \A x \in Range(p) : Claim(x)'
        /\ \A y \in Range(rest) : y.do \in {"accept", "free"} => y.e # h
    BY <2>3, <2>6, <2>8
  <2>10. /\ cur.do \notin {"join", "detach", "unlink"} /\ alive \subseteq alive'
         /\ owned' \subseteq owned /\ DOMAIN records' \subseteq DOMAIN records \cup {h}
         /\ \A g : ~attached[g] /\ g # h => ~attached'[g]
    BY <1>1, <1>3
  <2> QED BY <1>1, <2>3, <2>4, <2>5, <2>7, <2>9, <2>10, PutForgotten
<1> QED BY <1>2, <1>3 DEF Push

\* The handle is freed and nothing else done with it.
LEMMA OnlyFree ==
    ASSUME NEW e \in Handle
    PROVE  LET p == <<S("free", e, 0)>> IN
           /\ p \in Seq(GoodStep) /\ Ordered(p) /\ Strict(p) /\ Range(p) = {S("free", e, 0)}
           /\ S("free", e, 0).do = "free" /\ S("free", e, 0).e = e
<1> DEFINE f == S("free", e, 0)
<1>1. f \in GoodStep /\ f.do = "free" /\ f.e = e
  BY DEF S, GoodStep, PushStep, Step, StepName
<1> HIDE DEF f
<1>2. <<f>> \in Seq(GoodStep) /\ Range(<<f>>) = {f}
  BY <1>1 DEF Range
<1>3. Ordered(<<f>>) /\ Strict(<<f>>)
  BY <1>1 DEF Ordered, Strict
<1> QED BY <1>1, <1>2, <1>3 DEF f

LEMMA ForgottenAccept ==
    ASSUME IInv, Forgotten, Accept
    PROVE  Forgotten'
<1> USE DEF At
<1>1. /\ todo # <<>> /\ cur.do = "accept" /\ UNCHANGED <<alive, owned, rc>>
      /\ cur.e \in Handle /\ attached \in [Handle -> BOOLEAN]
  BY RestOn DEF Accept, GoodStep, IInv, TypeOK
<1>2. /\ cur.e \in alive /\ cur.e \notin DOMAIN records /\ ~attached[cur.e]
      /\ cur.e \in owned => rc = "ok"
  BY <1>1, RestClaims DEF Claim, Fate
<1>3. \A y \in Range(rest) : y.do \in {"accept", "free"} => y.e # cur.e
  BY <1>1, RestClaims DEF Compatible, Fate
<1>4. CASE rc = "ok"
  <2>0. PICK s : s = S("push_spawn", cur.e, 0)
    OBVIOUS
  <2>1. s.do = "push_spawn" /\ s.e = cur.e /\ s \in GoodStep
    <3>1. "push" \in Callbacks
      BY <1>1, RestOn DEF GoodStep, PushStep
    <3> QED BY <1>1, <2>0, <3>1 DEF S, GoodStep, PushStep, Step, StepName
  <2> DEFINE p == <<s>>
  <2>2. /\ todo' = p \o rest /\ DOMAIN records' = DOMAIN records \cup {cur.e}
        /\ attached' = [attached EXCEPT ![cur.e] = TRUE]
    BY <1>4, <2>0 DEF Accept, Insert
  <2>3. p \in Seq(GoodStep) /\ Range(p) = {s}
    BY <2>1 DEF Range
  <2>4. Ordered(p) /\ Strict(p)
    BY <2>1 DEF Ordered, Strict
  <2>5. \A y \in Range(rest) : Compatible(s, y)
    BY <1>1, <2>1, RestClaims DEF Compatible, Fate
  <2>6. FreedIsForgotten' /\ RecordsAttached'
    BY <1>1, <1>2, <2>2 DEF Forgotten, FreedIsForgotten, RecordsAttached, IInv, TypeOK
  <2>7. Claim(s)'
    BY <1>1, <1>2, <2>1 DEF Claim
  <2>8. \A h : ~attached[h] /\ h # cur.e => ~attached'[h]
    BY <2>2
  <2> HIDE DEF p
  <2> QED BY <1>1, <1>3, <2>2, <2>3, <2>4, <2>5, <2>6, <2>7, <2>8, PutForgotten
<1>5. CASE rc # "ok"
  <2>0. PICK f : f = S("free", cur.e, 0)
    OBVIOUS
  <2> DEFINE p == <<f>>
  <2>1. todo' = p \o rest /\ UNCHANGED <<records, attached>>
    BY <1>2, <1>5, <2>0 DEF Accept, EasyCleanupCall
  <2>2. /\ p \in Seq(GoodStep) /\ Ordered(p) /\ Strict(p) /\ Range(p) = {f}
        /\ f.do = "free" /\ f.e = cur.e
    BY <1>1, <2>0, OnlyFree
  <2> HIDE DEF p
  <2>3. \A y \in Range(rest) : Compatible(f, y)
    BY <1>1, <2>2, RestClaims DEF Compatible, Fate
  <2>4. FreedIsForgotten' /\ RecordsAttached'
    BY <1>1, <2>1 DEF Forgotten, FreedIsForgotten, RecordsAttached
  <2>5. Claim(f)'
    BY <1>1, <1>2, <1>5, <2>1, <2>2 DEF Claim
  <2> QED BY <1>1, <1>3, <2>1, <2>2, <2>3, <2>4, <2>5, PutForgotten
<1> QED BY <1>4, <1>5

\* What the cleanup of a handle puts on the stack.
LEMMA CleanupOrdered ==
    ASSUME NEW e \in Handle
    PROVE  LET p == EasyCleanupCall(e) IN
           /\ p \in Seq(GoodStep) /\ Ordered(p) /\ Strict(p)
           /\ \A x \in Range(p) : /\ x.do \in {"drain", "unlink", "detach", "timer", "return", "free"}
                                  /\ x.do \in {"unlink", "free"} => x.e = e
           /\ attached[e] => S("unlink", e, 0) \in Range(p)
<1> DEFINE p == EasyCleanupCall(e)
<1>1. CASE ~attached[e]
  BY <1>1, OnlyFree DEF EasyCleanupCall
<1>2. CASE attached[e]
  <2> DEFINE a == Do("drain")
             b == S("unlink", e, 0)
             c == S("detach", e, 0)
             d == Do("timer")
             g == Do("return")
             f == S("free", e, 0)
             q == <<a, b, c, d, g, f>>
  <2>1. /\ {a, b, c, d, g, f} \subseteq GoodStep
        /\ a.do = "drain" /\ b.do = "unlink" /\ c.do = "detach" /\ d.do = "timer"
        /\ g.do = "return" /\ f.do = "free" /\ b.e = e /\ c.e = e /\ f.e = e
    BY DEF S, Do, GoodStep, PushStep, Step, StepName
  <2>2. p = <<a, b, c, d, g>> \o <<f>>
    BY <1>2 DEF EasyCleanupCall, RemoveCall
  <2> HIDE DEF a, b, c, d, g, f
  <2>3. p = q
    <3> DEFINE s == <<a, b, c, d, g>>
               r == s \o <<f>>
    <3>1. /\ s \in Seq(GoodStep) /\ <<f>> \in Seq(GoodStep) /\ Len(s) = 5 /\ Len(<<f>>) = 1
          /\ q \in Seq(GoodStep) /\ Len(q) = 6
      BY <2>1
    <3>2. /\ r \in Seq(GoodStep) /\ Len(r) = 6
          /\ \A i \in 1..6 : r[i] = IF i <= 5 THEN s[i] ELSE <<f>>[i - 5]
      BY <3>1, ConcatProperties
    <3>3. \A i \in 1..6 : r[i] = q[i]
      <4>1. r[1] = a /\ r[2] = b /\ r[3] = c /\ r[4] = d /\ r[5] = g /\ r[6] = f
        BY <3>2
      <4> QED BY <4>1
    <3> QED BY <2>2, <3>1, <3>2, <3>3, SeqEqual
  <2>4. q \in Seq(GoodStep) /\ Range(q) = {a, b, c, d, g, f}
    BY <2>1 DEF Range
  <2>5. Ordered(q)
    BY <2>1 DEF Ordered, Compatible, Fate
  <2>6. Strict(q)
    BY <2>1 DEF Strict, Follows
  <2>7. \A x \in Range(q) : /\ x.do \in {"drain", "unlink", "detach", "timer", "return", "free"}
                            /\ x.do \in {"unlink", "free"} => x.e = e
    BY <2>1, <2>4
  <2>8. S("unlink", e, 0) \in Range(q)
    BY <2>4 DEF b
  <2> HIDE DEF p, q
  <2>9. /\ p \in Seq(GoodStep) /\ Ordered(p) /\ Strict(p) /\ S("unlink", e, 0) \in Range(p)
        /\ \A x \in Range(p) : /\ x.do \in {"drain", "unlink", "detach", "timer", "return", "free"}
                               /\ x.do \in {"unlink", "free"} => x.e = e
    BY <2>3, <2>4, <2>5, <2>6, <2>7, <2>8
  <2> QED BY <2>9 DEF p
<1> QED BY <1>1, <1>2

LEMMA ForgottenPushLaunch ==
    ASSUME IInv, Forgotten, PushLaunch
    PROVE  Forgotten'
<1> USE DEF At
<1>1. /\ todo # <<>> /\ cur.do = "push_launch" /\ UNCHANGED <<alive, attached>>
      /\ cur.e \in Handle /\ cur.n \in Socket \cup {0}
  BY RestOn DEF PushLaunch, GoodStep
<1>2. CASE rc = "ok"
  <2>1. /\ DOMAIN records' = DOMAIN records /\ UNCHANGED owned
        /\ todo' = <<Do("timer")>> \o rest
    BY <1>1, <1>2, StartWorkerInv DEF PushLaunch
  <2>2. Do("timer") \in GoodStep /\ Do("timer").do = "timer"
    BY DEF Do, S, GoodStep, PushStep, Step, StepName
  <2>3. <<Do("timer")>> \in Seq(GoodStep) /\ Plain(<<Do("timer")>>)
    BY <2>2, PlainSteps DEF Fate
  <2> QED BY <1>1, <2>1, <2>3, PlainPut
<1>3. CASE rc # "ok"
  <2>0. PICK p : p = EasyCleanupCall(cur.e)
    OBVIOUS
  <2>1. /\ DOMAIN records' = DOMAIN records \ {cur.e} /\ owned' = owned \ {cur.e}
        /\ todo' = p \o rest
    BY <1>3, <2>0 DEF PushLaunch, Erase
  <2>2. /\ p \in Seq(GoodStep) /\ Ordered(p) /\ Strict(p)
        /\ \A x \in Range(p) : /\ x.do \in {"drain", "unlink", "detach", "timer", "return", "free"}
                               /\ x.do \in {"unlink", "free"} => x.e = cur.e
    BY <1>1, <2>0, CleanupOrdered
  <2>3. \A y \in Range(rest) : /\ Compatible(cur, y)
                               /\ y.do \in {"accept", "free"} => y.e # cur.e
    BY <1>1, RestClaims DEF Compatible, Fate
  <2>4. \A x \in Range(p), y \in Range(rest) : Compatible(x, y)
    BY <1>1, <2>2, <2>3 DEF Compatible, Fate
  <2>5. FreedIsForgotten' /\ RecordsAttached' /\ cur.e \in alive
    BY <1>1, <2>1, RestClaims DEF Forgotten, FreedIsForgotten, RecordsAttached, Claim, Fate
  <2>6. \A x \in Range(p) : Claim(x)'
    BY <1>1, <2>1, <2>2, <2>5 DEF Claim, Fate
  <2> QED BY <1>1, <2>1, <2>2, <2>3, <2>4, <2>5, <2>6, PutForgotten
<1> QED BY <1>2, <1>3

\* Only the first step below a push callback waits for its answer.
LEMMA ForgottenReturn ==
    ASSUME IInv, Forgotten, NEW ok \in BOOLEAN, CallbackReturn(ok)
    PROVE  Forgotten'
<1> USE DEF AtCallback, recordVars
<1>1. /\ todo # <<>> /\ cur.do \in InCallback /\ UNCHANGED <<alive, attached, records>>
      /\ todo' = rest /\ owned' = IF cur.do = "push_cb" /\ ok THEN owned \cup {cur.e} ELSE owned
      /\ ok => rc' = "ok"
  BY DEF CallbackReturn
<1>2. /\ Ordered(rest) /\ Strict(rest)
      /\ cur.do = "push_cb" => rest # <<>> /\ Head(rest).do = "accept" /\ Head(rest).e = cur.e
  BY <1>1, OrderedTop, RestOn DEF Forgotten, cur, rest, InCallback
<1>3. /\ rest \in Seq(GoodStep) /\ On = {cur} \cup On'
      /\ \A x \in On' : Claim(x) /\ (x.do = "accept" => x.e \notin owned)
  BY <1>1, RestClaims DEF On
<1>4. ASSUME cur.do = "push_cb"
      PROVE  /\ Head(rest) \in On'
             /\ \A x \in On' : x.do \in Fate /\ x.e = cur.e => x = Head(rest)
  <2>1. /\ Len(rest) \in Nat /\ Len(rest) > 0 /\ DOMAIN rest = 1..Len(rest) /\ Head(rest) = rest[1]
    BY <1>2, <1>3, <1>4, HeadTailProperties, LenProperties, EmptySeq
  <2>2. 1 \in 1..Len(rest)
    BY <2>1
  <2>3. ASSUME NEW i \in 1..Len(rest), i # 1 PROVE ~(rest[i].do \in Fate /\ rest[i].e = cur.e)
    <3>1. 1 < i
      BY <2>1, <2>3
    <3> QED BY <1>2, <1>4, <2>1, <2>2, <3>1 DEF Ordered, Compatible, Fate
  <2> QED BY <1>1, <2>1, <2>2, <2>3 DEF On, Range
<1>5. FreedIsForgotten' /\ RecordsAttached'
  <2>1. cur.do = "push_cb" => cur.e \in alive
    BY <1>2, <1>3, <1>4 DEF Claim, Fate
  <2> QED BY <1>1, <2>1 DEF Forgotten, FreedIsForgotten, RecordsAttached
<1>6. ASSUME NEW x \in On' PROVE Claim(x)'
  <2>1. Claim(x) /\ (x.do = "accept" => x.e \notin owned)
    BY <1>3, <1>6
  <2>2. x.do = "accept" /\ x.e \in owned' => x = cur' /\ rc' = "ok"
    <3>1. x.do = "accept" /\ x.e \in owned' => cur.do = "push_cb" /\ ok /\ x.e = cur.e
      BY <1>1, <2>1
    <3>2. cur' = Head(rest)
      BY <1>1 DEF cur
    <3> QED BY <1>1, <1>4, <1>6, <3>1, <3>2 DEF Fate
  <2>3. x.do = "free" => x.e \notin owned'
    <3>1. x.do = "free" => x.e \notin owned
      BY <2>1 DEF Claim
    <3>2. x.do = "free" /\ cur.do = "push_cb" => x.e # cur.e
      BY <1>2, <1>4, <1>6 DEF Fate
    <3> QED BY <1>1, <3>1, <3>2
  <2>4. S("unlink", x.e, 0) \in On => S("unlink", x.e, 0) \in On'
    BY <1>1, <1>3 DEF S, InCallback
  <2> QED BY <1>1, <2>1, <2>2, <2>3, <2>4 DEF Claim
<1> QED BY <1>1, <1>2, <1>5, <1>6, StrictDetaches DEF Forgotten, Claims

\* The application calls the library: between calls, or from inside a callback.
LEMMA CallForgotten ==
    ASSUME IInv, Forgotten, NEW c, NEW p \in Seq(GoodStep), Call(c, p), UNCHANGED handleVars,
           Ordered(p), Strict(p),
           \A x \in Range(p) : /\ x.do \notin Fate
                               /\ x.do \in {"link", "unlink"} => x.e \in owned
    PROVE  Forgotten'
<1>1. /\ todo = <<>> \/ AtCallback
      /\ todo' = p \o todo /\ UNCHANGED <<alive, owned, attached, records, rc>>
  BY DEF Call, MayCall, handleVars, recordVars
<1>2. todo \in Seq(GoodStep)
  BY DEF IInv, StackOK
<1>3. Strict(todo)
  <2>1. CASE todo = <<>>
    BY <2>1 DEF Strict
  <2>2. CASE AtCallback
    <3>1. /\ Len(todo) \in Nat /\ DOMAIN todo = 1..Len(todo) /\ Len(todo) > 0 /\ cur = todo[1]
      BY <1>2, <2>2, HeadTailProperties, LenProperties, EmptySeq DEF AtCallback, cur
    <3>2. todo[1].do \in InCallback
      BY <2>2, <3>1 DEF AtCallback
    <3> SUFFICES ASSUME NEW i \in 1..Len(todo), todo[i].do = "detach" PROVE Follows(todo, i)
      BY <3>1 DEF Strict
    <3>3. 1 \in 1..(i - 1)
      BY <3>1, <3>2 DEF InCallback
    <3> QED BY <3>1, <3>2, <3>3 DEF Forgotten, Detaching, InCallback
  <2> QED BY <1>1, <2>1, <2>2
<1>4. ASSUME NEW y \in On
      PROVE  Claim(y) /\ (y.do \in {"accept", "free"} => y.e \notin owned)
  <2>1. Claim(y)
    BY <1>4 DEF Forgotten, Claims
  <2>2. todo # <<>>
    BY <1>4 DEF On, Range
  <2>3. y.do = "accept" => y # cur
    BY <1>1, <2>2 DEF AtCallback, InCallback
  <2> QED BY <2>1, <2>3 DEF Claim
<1>5. \A x \in Range(p), y \in On : Compatible(x, y)
  BY <1>4 DEF Compatible
<1>6. Ordered(todo') /\ Strict(todo') /\ On' = Range(p) \cup On
  BY <1>1, <1>2, <1>3, <1>5, OrderedConcat, RangePut DEF Forgotten, On
<1>7. FreedIsForgotten' /\ RecordsAttached'
  BY <1>1 DEF Forgotten, FreedIsForgotten, RecordsAttached
<1>8. ASSUME NEW x \in On' PROVE Claim(x)'
  <2>1. CASE x \in Range(p)
    BY <1>1, <2>1 DEF Claim, Fate, Forgotten, FreedIsForgotten
  <2>2. CASE x \in On
    <3>1. Claim(x) /\ (x.do \in {"accept", "free"} => x.e \notin owned)
      BY <1>4, <2>2
    <3> QED BY <1>1, <1>6, <3>1 DEF Claim
  <2> QED BY <1>6, <1>8, <2>1, <2>2
<1> QED BY <1>6, <1>7, <1>8, StrictDetaches DEF Forgotten, Claims

LEMMA ForgottenAddRemove ==
    ASSUME IInv, Forgotten, NEW e \in Handle, AddHandle(e) \/ RemoveHandle(e)
    PROVE  Forgotten'
<1>0. PICK l, u, b, a, t, g : /\ l = S("link", e, 0) /\ u = S("unlink", e, 0) /\ b = S("detach", e, 0)
                              /\ a = Do("drain") /\ t = Do("timer") /\ g = Do("return")
  OBVIOUS
<1>1. /\ {l, u, b, a, t, g} \subseteq GoodStep
      /\ l.do = "link" /\ u.do = "unlink" /\ b.do = "detach" /\ a.do = "drain"
      /\ t.do = "timer" /\ g.do = "return" /\ l.e = e /\ u.e = e /\ b.e = e
  BY <1>0 DEF S, Do, GoodStep, PushStep, Step, StepName
<1>2. CASE AddHandle(e)
  <2> DEFINE p == <<a, l, t, g>>
  <2>1. p \in Seq(GoodStep) /\ Range(p) = {a, l, t, g}
    BY <1>1 DEF Range
  <2>2. Ordered(p) /\ Strict(p)
    BY <1>1 DEF Ordered, Strict, Compatible, Fate
  <2>3. Call("add", p) /\ UNCHANGED handleVars /\ e \in owned
    BY <1>0, <1>2 DEF AddHandle, AddCall
  <2>4. \A x \in Range(p) : x.do \notin Fate /\ (x.do \in {"link", "unlink"} => x.e \in owned)
    BY <1>1, <2>1, <2>3 DEF Fate
  <2> HIDE DEF p
  <2> QED BY <2>1, <2>2, <2>3, <2>4, CallForgotten
<1>3. CASE RemoveHandle(e)
  <2> DEFINE p == <<a, u, b, t, g>>
  <2>1. p \in Seq(GoodStep) /\ Range(p) = {a, u, b, t, g}
    BY <1>1 DEF Range
  <2>2. Ordered(p) /\ Strict(p)
    BY <1>1 DEF Ordered, Strict, Follows, Compatible, Fate
  <2>3. Call("remove", p) /\ UNCHANGED handleVars /\ e \in owned
    BY <1>0, <1>3 DEF RemoveHandle, RemoveCall
  <2>4. \A x \in Range(p) : x.do \notin Fate /\ (x.do \in {"link", "unlink"} => x.e \in owned)
    BY <1>1, <2>1, <2>3 DEF Fate
  <2> HIDE DEF p
  <2> QED BY <2>1, <2>2, <2>3, <2>4, CallForgotten
<1> QED BY <1>2, <1>3

\* What leaves the stack and the handles alone.
LEMMA QuietForgotten ==
    ASSUME Forgotten, UNCHANGED <<todo, alive, owned, attached, rc>>, DOMAIN records' = DOMAIN records
    PROVE  Forgotten'
<1>1. UNCHANGED <<On, cur>>
  BY DEF On, cur
<1>2. \A x \in On : Claim(x)'
  BY <1>1 DEF Claim, Forgotten, Claims
<1> QED BY <1>1, <1>2 DEF Forgotten, FreedIsForgotten, RecordsAttached, Claims

LEMMA ForgottenAppCall ==
    ASSUME IInv, Forgotten, AppCall
    PROVE  Forgotten'
<1> USE DEF handleVars, recordVars
<1>0. todo = <<>> => On = {}
  BY DEF On, Range
<1>1. CASE MultiInit
  <2>1. On' = {} /\ todo' = <<>> /\ UNCHANGED <<alive, owned, attached>> /\ DOMAIN records' = {}
    BY <1>0, <1>1 DEF MultiInit, On, NoRecords
  <2> QED BY <2>1 DEF Forgotten, FreedIsForgotten, RecordsAttached, Claims, Ordered, Detaching
<1>2. CASE Perform \/ Poll \/ InfoRead \/ Fdset \/ MultiCleanup
  <2>1. \E c : \E p \in {PerformCall, PollCall, InfoReadCall, FdsetCall, MultiCleanupCall} :
            Call(c, p) /\ UNCHANGED handleVars
    BY <1>2, Zenon DEF Perform, Poll, InfoRead, Fdset, MultiCleanup
  <2> PICK c : \E p \in {PerformCall, PollCall, InfoReadCall, FdsetCall, MultiCleanupCall} :
            Call(c, p) /\ UNCHANGED handleVars
    BY <2>1
  <2> PICK p \in {PerformCall, PollCall, InfoReadCall, FdsetCall, MultiCleanupCall} :
            Call(c, p) /\ UNCHANGED handleVars
    OBVIOUS
  <2>2. p \in Seq(GoodStep)
    BY CallBodies2 DEF Body
  <2>3. /\ Plain(PerformCall) /\ Plain(PollCall) /\ Plain(InfoReadCall) /\ Plain(FdsetCall)
        /\ Plain(MultiCleanupCall)
    <3> USE DEF Plain, Range, Fate, Do, S
    <3>1. Plain(PerformCall) /\ Plain(PollCall)
      BY DEF PerformCall, PollCall
    <3>2. Plain(InfoReadCall) /\ Plain(FdsetCall)
      BY DEF InfoReadCall, FdsetCall
    <3>3. Plain(MultiCleanupCall)
      BY DEF MultiCleanupCall
    <3> QED BY <3>1, <3>2, <3>3
  <2>4. Plain(p)
    BY <2>3
  <2>6. Ordered(p) /\ Strict(p)
    BY <2>2, <2>4, PlainOrdered
  <2>7. \A x \in Range(p) : x.do \notin Fate \cup {"link", "unlink"}
    BY <2>4 DEF Plain
  <2> QED BY <2>2, <2>6, <2>7, CallForgotten
<1>3. CASE Wakeup \/ \E c \in Callbacks : SetFunction(c)
  BY <1>3, QuietForgotten DEF Wakeup, SetFunction
<1>4. ASSUME NEW e \in Handle, EasyInit(e)
      PROVE  Forgotten'
  <2>1. /\ On' = {} /\ todo' = <<>> /\ UNCHANGED <<attached, records>>
        /\ alive' = alive \cup {e} /\ owned' = owned \cup {e}
    BY <1>0, <1>4 DEF EasyInit, On
  <2> QED BY <2>1 DEF Forgotten, FreedIsForgotten, RecordsAttached, Claims, Ordered, Detaching
<1>5. ASSUME NEW e \in Handle, EasyCleanup(e)
      PROVE  Forgotten'
  <2>0. PICK p : p = EasyCleanupCall(e)
    OBVIOUS
  <2>1. /\ todo = <<>> /\ todo' = p /\ e \in owned /\ owned' = owned \ {e}
        /\ UNCHANGED <<alive, attached, records>>
    BY <1>5, <2>0 DEF EasyCleanup
  <2>2. /\ p \in Seq(GoodStep) /\ Ordered(p) /\ Strict(p) /\ On' = Range(p)
        /\ \A x \in Range(p) : /\ x.do \in {"drain", "unlink", "detach", "timer", "return", "free"}
                               /\ x.do \in {"unlink", "free"} => x.e = e
        /\ attached[e] => S("unlink", e, 0) \in Range(p)
    BY <2>0, <2>1, CleanupOrdered DEF On
  <2>3. FreedIsForgotten' /\ RecordsAttached' /\ e \in alive /\ (e \in DOMAIN records => attached[e])
    BY <2>1 DEF Forgotten, FreedIsForgotten, RecordsAttached
  <2>4. \A x \in On' : Claim(x)'
    BY <2>1, <2>2, <2>3 DEF Claim, Fate
  <2> QED BY <2>1, <2>2, <2>3, <2>4, StrictDetaches DEF Forgotten, Claims
<1>6. ASSUME NEW e \in Handle, EasyPause(e)
      PROVE  Forgotten'
  BY <1>6, QuietForgotten DEF EasyPause
<1>7. ASSUME NEW e \in Handle, AddHandle(e) \/ RemoveHandle(e)
      PROVE  Forgotten'
  BY <1>7, ForgottenAddRemove
<1>8. ASSUME NEW fd \in Socket, Assign(fd)
      PROVE  Forgotten'
  BY <1>8, QuietForgotten DEF Assign
<1> QED BY <1>1, <1>2, <1>3, <1>4, <1>5, <1>6, <1>7, <1>8 DEF AppCall

LEMMA ForgottenStep ==
    ASSUME IInv, Forgotten, [Next]_vars
    PROVE  Forgotten'
<1>1. CASE UNCHANGED vars
  BY <1>1, QuietForgotten DEF vars, handleVars, recordVars
<1>2. CASE AppCall
  BY <1>2, ForgottenAppCall
<1>3. CASE LibraryStep
  BY <1>3, ForgottenEvents, ForgottenCallbacks, ForgottenLink, ForgottenUnlink, ForgottenFree,
     ForgottenClear, ForgottenStart, ForgottenSpawn, ForgottenLaunch, ForgottenPush,
     ForgottenAccept, ForgottenPushLaunch DEF LibraryStep
<1>4. CASE AppReturn
  BY <1>4, ForgottenReturn DEF AppReturn
<1>5. ASSUME NEW w \in Slot, WorkerStep(w) PROVE Forgotten'
  BY <1>5, QuietForgotten
     DEF WorkerStep, WorkerStart, WorkerWait, WorkerResume, WorkerOffer, WorkerEnd, handleVars, recordVars
<1> QED BY <1>1, <1>2, <1>3, <1>4, <1>5 DEF Next

LEMMA ForgottenInit == Init => Forgotten
BY DEF Init, NoRecords, Forgotten, FreedIsForgotten, RecordsAttached, Claims, On, Range, Ordered,
   Detaching

\* A handle that is freed is not owned, has no record and is not attached, so nobody uses
\* it afterwards and a new handle at its address starts with nothing: whatever callbacks
\* add and remove, whatever streams are pushed, and whether a pushed handle is denied, runs,
\* or is accepted and then gets no worker.  (Push, Accept, PushLaunch and
\* EasyCleanup are where the code frees handles.)
THEOREM FreedAreForgotten == Spec => []FreedIsForgotten
<1>1. Forgotten => FreedIsForgotten
  BY DEF Forgotten
<1> QED BY <1>1, Invariant, ForgottenInit, ForgottenStep, PTL DEF Spec
=============================================================================
