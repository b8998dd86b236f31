------------------------- MODULE DistinctSequences -------------------------
(***************************************************************************)
(* Lists without duplicates, such as the free list of the address pool and *)
(* the warm queue: what the list operations of the code do to the elements *)
(* of such a list.                                                         *)
(***************************************************************************)
EXTENDS Integers, Sequences, SequenceTheorems, TLAPS

Push(x, s) == <<x>> \o s

Select(s, m, f) == [i \in 1..m |-> s[f[i]]]

DropNth(s, i) == SubSeq(s, 1, i - 1) \o SubSeq(s, i + 1, Len(s))

Elements(s) == {s[i] : i \in DOMAIN s}

Distinct(s) == \A i, j \in DOMAIN s : s[i] = s[j] => i = j

(* What Head and Tail of a list without duplicates leave of its elements.  *)
LEMMA TailElements ==
  ASSUME NEW S, NEW s \in Seq(S), s # <<>>,
         Distinct(s)
  PROVE  /\ Head(s) \in S /\ Tail(s) \in Seq(S) /\ Distinct(Tail(s))
         /\ Elements(Tail(s)) = Elements(s) \ {Head(s)}
<1>1. /\ Len(s) \in Nat /\ Len(s) > 0 /\ DOMAIN s = 1..Len(s)
      /\ Head(s) = s[1] /\ Tail(s) \in Seq(S) /\ Len(Tail(s)) = Len(s) - 1
      /\ DOMAIN Tail(s) = 1..(Len(s) - 1)
      /\ \A i \in 1..(Len(s) - 1) : Tail(s)[i] = s[i + 1]
  OBVIOUS
<1>2. Distinct(Tail(s))
  BY <1>1 DEF Distinct
<1>3. Elements(Tail(s)) \subseteq Elements(s) \ {Head(s)}
  BY <1>1 DEF Distinct, Elements
<1>4. ASSUME NEW x \in Elements(s) \ {Head(s)}
      PROVE  x \in Elements(Tail(s))
  <2>1. PICK i \in DOMAIN s : x = s[i]
    BY DEF Elements
  <2>2. i - 1 \in DOMAIN Tail(s) /\ Tail(s)[i - 1] = x
    BY <1>1, <2>1
  <2>3. QED
    BY <2>2 DEF Elements
<1>5. QED
  BY <1>1, <1>2, <1>3, <1>4

(* Pushing an element the list does not have.                              *)
LEMMA PushElements ==
  ASSUME NEW S, NEW s \in Seq(S), NEW x \in S, Distinct(s), x \notin Elements(s)
  PROVE  /\ Push(x, s) \in Seq(S) /\ Distinct(Push(x, s))
         /\ Elements(Push(x, s)) = Elements(s) \union {x}
<1> DEFINE t == Push(x, s)
<1>1. /\ t \in Seq(S) /\ Len(t) = Len(s) + 1 /\ Len(s) \in Nat
      /\ DOMAIN t = 1..(Len(s) + 1) /\ DOMAIN s = 1..Len(s)
      /\ t[1] = x
      /\ \A i \in 2..(Len(s) + 1) : t[i] = s[i - 1]
  BY DEF Push
<1> HIDE DEF t
<1> USE DEF Elements, Distinct
<1>2. ASSUME NEW i \in DOMAIN t, NEW j \in DOMAIN t, t[i] = t[j]
      PROVE  i = j
  <2>1. CASE i = 1 /\ j = 1
    BY <2>1
  <2>2. CASE i # 1 /\ j # 1
    <3>1. /\ i - 1 \in DOMAIN s /\ j - 1 \in DOMAIN s
          /\ t[i] = s[i - 1] /\ t[j] = s[j - 1] /\ i \in Int /\ j \in Int
      BY <1>1, <2>2
    <3>2. i - 1 = j - 1
      BY <1>2, <3>1
    <3>3. QED
      BY <3>1, <3>2
  <2>3. CASE i = 1 /\ j # 1
    <3>1. j - 1 \in DOMAIN s /\ t[j] = s[j - 1]
      BY <1>1, <2>3
    <3>2. QED
      BY <1>1, <1>2, <2>3, <3>1
  <2>4. CASE i # 1 /\ j = 1
    <3>1. i - 1 \in DOMAIN s /\ t[i] = s[i - 1]
      BY <1>1, <2>4
    <3>2. QED
      BY <1>1, <1>2, <2>4, <3>1
  <2>5. QED
    BY <2>1, <2>2, <2>3, <2>4
<1>3. ASSUME NEW i \in DOMAIN t
      PROVE  t[i] \in Elements(s) \union {x}
  <2>1. CASE i = 1
    BY <1>1, <2>1
  <2>2. CASE i # 1
    <3>1. i - 1 \in DOMAIN s /\ t[i] = s[i - 1]
      BY <1>1, <2>2
    <3>2. QED
      BY <3>1
  <2>3. QED
    BY <2>1, <2>2
<1>4. ASSUME NEW i \in DOMAIN s
      PROVE  s[i] \in Elements(t)
  <2>1. i + 1 \in DOMAIN t /\ t[i + 1] = s[i]
    BY <1>1
  <2>2. QED
    BY <2>1
<1>5. x \in Elements(t)
  <2>1. 1 \in DOMAIN t
    BY <1>1
  <2>2. QED
    BY <1>1, <2>1
<1>6. Elements(t) = Elements(s) \union {x}
  <2>1. Elements(t) \subseteq Elements(s) \union {x}
    BY <1>3
  <2>2. Elements(s) \subseteq Elements(t)
    BY <1>4
  <2>3. QED
    BY <1>5, <2>1, <2>2
<1>7. QED
  BY <1>1, <1>2, <1>6 DEF t

(* queue ++ [x] for an x that is not in the list.                          *)
LEMMA AppendElements ==
  ASSUME NEW S, NEW s \in Seq(S), NEW x \in S, Distinct(s), x \notin Elements(s)
  PROVE  /\ Append(s, x) \in Seq(S) /\ Distinct(Append(s, x))
         /\ Elements(Append(s, x)) = Elements(s) \union {x}
<1> DEFINE t == Append(s, x)
<1>1. /\ t \in Seq(S) /\ Len(s) \in Nat
      /\ DOMAIN t = 1..(Len(s) + 1) /\ DOMAIN s = 1..Len(s)
      /\ t[Len(s) + 1] = x
      /\ \A i \in DOMAIN s : t[i] = s[i]
  OBVIOUS
<1> HIDE DEF t
<1> USE DEF Elements, Distinct
<1>2. \A i \in DOMAIN t : i \in DOMAIN s \/ i = Len(s) + 1
  BY <1>1
<1>3. Distinct(t)
  BY <1>1, <1>2
<1>4. Elements(t) \subseteq Elements(s) \union {x}
  BY <1>1, <1>2
<1>5. Elements(s) \subseteq Elements(t)
  <2>1. DOMAIN s \subseteq DOMAIN t
    BY <1>1
  <2>2. QED
    BY <1>1, <2>1
<1>6. x \in Elements(t)
  <2>1. Len(s) + 1 \in DOMAIN t
    BY <1>1
  <2>2. QED
    BY <1>1, <2>1
<1>7. Elements(t) = Elements(s) \union {x}
  BY <1>4, <1>5, <1>6
<1>8. QED
  BY <1>1, <1>3, <1>7 DEF t

(* queue -- D, as an increasing selection f of the indices of the list.    *)
LEMMA SelectElements ==
  ASSUME NEW S, NEW s \in Seq(S), NEW D, NEW m \in Nat,
         NEW f \in [1..m -> DOMAIN s], Distinct(s),
         \A i, j \in 1..m : i < j => f[i] < f[j],
         \A i \in DOMAIN s : s[i] \notin D <=> \E k \in 1..m : f[k] = i
  PROVE  /\ Select(s, m, f) \in Seq(S) /\ Distinct(Select(s, m, f))
         /\ \A x : x \in Elements(Select(s, m, f)) <=> x \in Elements(s) /\ x \notin D
<1> DEFINE t == Select(s, m, f)
<1>1. /\ DOMAIN s \subseteq Int /\ DOMAIN t = 1..m
      /\ \A i \in 1..m : t[i] = s[f[i]] /\ f[i] \in DOMAIN s /\ s[f[i]] \in S
  BY DEF Select
<1>2. t \in Seq(S)
  BY <1>1 DEF Select
<1> HIDE DEF t
<1>3. \A i, j \in 1..m : f[i] = f[j] => i = j
  BY <1>1
<1>4. Distinct(t)
  BY <1>1, <1>3 DEF Distinct
<1>5. Elements(t) \subseteq Elements(s) \ D
  <2>1. ASSUME NEW i \in 1..m PROVE t[i] \in Elements(s) \ D
    <3>1. s[f[i]] \notin D
      BY <1>1
    <3>2. QED
      BY <1>1, <3>1 DEF Elements
  <2>2. QED
    BY <1>1, <2>1 DEF Elements
<1>6. Elements(s) \ D \subseteq Elements(t)
  <2>1. ASSUME NEW i \in DOMAIN s, s[i] \notin D PROVE s[i] \in Elements(t)
    <3>1. PICK k \in 1..m : f[k] = i
      BY <2>1
    <3>2. QED
      BY <1>1, <3>1 DEF Elements
  <2>2. QED
    BY <2>1 DEF Elements
<1>7. QED
  BY <1>2, <1>4, <1>5, <1>6 DEF t

(* The list without its i-th element.                                      *)
LEMMA WithoutElements ==
  ASSUME NEW S, NEW s \in Seq(S), NEW i \in DOMAIN s, Distinct(s)
  PROVE  /\ DropNth(s, i) \in Seq(S) /\ Distinct(DropNth(s, i))
         /\ Elements(DropNth(s, i)) = Elements(s) \ {s[i]}
<1> DEFINE t == DropNth(s, i)
<1>1. /\ t \in Seq(S) /\ Len(s) \in Nat /\ i \in 1..Len(s) /\ DOMAIN s = 1..Len(s)
      /\ DOMAIN t = 1..(Len(s) - 1)
      /\ \A j \in 1..(i - 1) : t[j] = s[j]
      /\ \A j \in i..(Len(s) - 1) : t[j] = s[j + 1]
  <2> DEFINE a == SubSeq(s, 1, i - 1)
             b == SubSeq(s, i + 1, Len(s))
  <2>1. /\ Len(s) \in Nat /\ i \in 1..Len(s) /\ DOMAIN s = 1..Len(s)
        /\ a \in Seq(S) /\ Len(a) = i - 1 /\ \A j \in 1..(i - 1) : a[j] = s[j]
    OBVIOUS
  <2>2. /\ b \in Seq(S) /\ Len(b) = Len(s) - i
        /\ \A j \in 1..(Len(s) - i) : b[j] = s[j + i]
    OBVIOUS
  <2> HIDE DEF a, b
  <2>0. /\ a \o b \in Seq(S) /\ Len(a \o b) = Len(a) + Len(b)
        /\ \A j \in 1..(Len(a) + Len(b)) :
             (a \o b)[j] = IF j <= Len(a) THEN a[j] ELSE b[j - Len(a)]
    BY <2>1, <2>2, ConcatProperties
  <2>3. /\ a \o b \in Seq(S) /\ Len(a \o b) = Len(s) - 1
        /\ \A j \in 1..Len(a) : (a \o b)[j] = a[j]
        /\ \A j \in (Len(a) + 1)..(Len(a) + Len(b)) : (a \o b)[j] = b[j - Len(a)]
    BY <2>1, <2>2, <2>0
  <2>4. DOMAIN (a \o b) = 1..(Len(s) - 1)
    BY <2>3
  <2>5. ASSUME NEW j \in i..(Len(s) - 1) PROVE (a \o b)[j] = s[j + 1]
    <3>1. j - (i - 1) \in 1..(Len(s) - i) /\ (a \o b)[j] = b[j - (i - 1)]
      BY <2>1, <2>2, <2>3
    <3>2. QED
      BY <2>1, <2>2, <3>1
  <2>6. QED
    BY <2>1, <2>3, <2>4, <2>5 DEF a, b, DropNth
<1> HIDE DEF t
<1>2. \A j \in DOMAIN t : j \in 1..(i - 1) \/ j \in i..(Len(s) - 1)
  BY <1>1
<1>3. Distinct(t)
  BY <1>1, <1>2 DEF Distinct
<1>4. ASSUME NEW j \in DOMAIN t PROVE t[j] \in Elements(s) \ {s[i]}
  <2>1. CASE j \in 1..(i - 1)
    BY <1>1, <2>1 DEF Elements, Distinct
  <2>2. CASE j \in i..(Len(s) - 1)
    <3>1. j + 1 \in DOMAIN s /\ t[j] = s[j + 1] /\ j + 1 # i
      BY <1>1, <2>2
    <3>2. QED
      BY <3>1 DEF Elements, Distinct
  <2>3. QED
    BY <1>2, <2>1, <2>2
<1>5. ASSUME NEW j \in DOMAIN s, s[j] # s[i] PROVE s[j] \in Elements(t)
  <2>1. CASE j < i
    <3>1. j \in DOMAIN t /\ t[j] = s[j]
      BY <1>1, <2>1
    <3>2. QED
      BY <3>1 DEF Elements
  <2>2. CASE j > i
    <3>1. j - 1 \in DOMAIN t /\ t[j - 1] = s[j]
      BY <1>1, <2>2
    <3>2. QED
      BY <3>1 DEF Elements
  <2>3. QED
    BY <1>1, <1>5, <2>1, <2>2
<1>6. Elements(t) \subseteq Elements(s) \ {s[i]}
  BY <1>4 DEF Elements
<1>7. Elements(s) \ {s[i]} \subseteq Elements(t)
  BY <1>5 DEF Elements
<1>8. QED
  BY <1>1, <1>3, <1>6, <1>7 DEF t
=============================================================================
