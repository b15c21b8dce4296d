--------------------------- MODULE EncryptedProofs --------------------------
(* Theorems about Encrypted and its replay window, for any sizes of the window, the
   packets and the queues, any clocks and any messages of Telegram *)
EXTENDS Encrypted, SequenceTheorems, FunctionTheorems, FiniteSetTheorems, WellFoundedInduction, TLAPS

-----------------------------------------------------------------------------
(* The replay window *)

Ascending(s) == \A i, j \in DOMAIN s : i < j => s[i] < s[j]
GoodWindow(w) ==
    /\ w \in [base : Int, offsets : Seq(0 .. OffsetLimit - 1)]
    /\ Len(w.offsets) <= Capacity /\ Ascending(w.offsets)

LEMMA Window ==
    /\ Capacity \in Nat /\ Capacity > 0 /\ MaxAge \in Nat /\ MaxAge > 0
    /\ OffsetLimit \in Nat /\ OffsetLimit > MaxAge /\ NoId = -1
BY ReplayAssumption DEF NoId

(* A set of naturals has a least element *)
LEMMA Least ==
    ASSUME NEW T, T \subseteq Nat, T # {}
    PROVE  \E x \in T : \A y \in T : x <= y
<1> DEFINE R == OpToRel(<, Nat)
<1>1. IsWellFoundedOn(R, Nat)
  BY NatLessThanWellFounded
<1>2. \A x, y \in Nat : <<y, x>> \in R <=> y < x
  BY DEF OpToRel
<1> HIDE DEF R
<1>3. PICK x \in T : \A y \in T : ~(<<y, x>> \in R)
  BY <1>1, WFMin
<1>4. ASSUME NEW y \in T PROVE x <= y
  <2>1. x \in Nat /\ y \in Nat
    OBVIOUS
  <2>2. ~(y < x)
    BY <1>2, <1>3, <2>1
  <2> QED BY <2>1, <2>2
<1> QED BY <1>4

(* Insertion at an index *)
IsInsertion(t, S, s, k, o) ==
    /\ t \in Seq(S) /\ Len(t) = Len(s) + 1
    /\ \A i \in 1 .. k - 1 : t[i] = s[i]
    /\ t[k] = o
    /\ \A i \in k + 1 .. Len(s) + 1 : t[i] = s[i - 1]

LEMMA InsertAtIs ==
    ASSUME NEW S, NEW s \in Seq(S), NEW o \in S, NEW k \in 1 .. Len(s) + 1
    PROVE  IsInsertion(InsertAt(s, k, o), S, s, k, o)
<1> DEFINE t == InsertAt(s, k, o)
<1>0. PICK n : n = k - 1
  OBVIOUS
<1>1. Len(s) \in Nat /\ n \in Nat /\ n <= Len(s) /\ k = n + 1
  BY <1>0, LenProperties
<1>2. \A i \in 1 .. Len(s) : s[i] \in S
  BY ElementOfSeq
<1>3. PICK a : a = SubSeq(s, 1, n)
  OBVIOUS
<1>4. a \in Seq(S) /\ Len(a) = n /\ \A i \in 1 .. n : a[i] = s[i]
  <2>1. n \in Int /\ 1 \in Int /\ \A i \in 1 .. n : s[i] \in S
    BY <1>1, <1>2
  <2>2. /\ SubSeq(s, 1, n) \in Seq(S) /\ Len(SubSeq(s, 1, n)) = IF 1 <= n THEN n - 1 + 1 ELSE 0
        /\ \A i \in 1 .. n - 1 + 1 : SubSeq(s, 1, n)[i] = s[1 + i - 1]
    BY ONLY <2>1, SubSeqProperties
  <2>3. \A i \in 1 .. n : 1 + i - 1 = i /\ i \in 1 .. n - 1 + 1
    BY <1>1
  <2> QED BY <1>1, <1>3, <2>2, <2>3
<1>5. PICK c : c = SubSeq(s, n + 1, Len(s))
  OBVIOUS
<1>6. c \in Seq(S) /\ Len(c) = Len(s) - n /\ \A i \in 1 .. Len(s) - n : c[i] = s[n + i]
  <2>1. PICK m : m = Len(s)
    OBVIOUS
  <2>2. n + 1 \in Int /\ m \in Int /\ \A i \in n + 1 .. m : s[i] \in S
    BY <1>1, <1>2, <2>1
  <2>3. /\ SubSeq(s, n + 1, m) \in Seq(S)
        /\ Len(SubSeq(s, n + 1, m)) = IF n + 1 <= m THEN m - (n + 1) + 1 ELSE 0
        /\ \A i \in 1 .. m - (n + 1) + 1 : SubSeq(s, n + 1, m)[i] = s[n + 1 + i - 1]
    BY ONLY <2>2, SubSeqProperties
  <2>4. \A i \in 1 .. m - n : n + 1 + i - 1 = n + i /\ i \in 1 .. m - (n + 1) + 1
    BY <1>1, <2>1
  <2>5. c = SubSeq(s, n + 1, m) /\ m \in Nat /\ n <= m
    BY <1>1, <1>5, <2>1
  <2>6. c \in Seq(S) /\ Len(c) = m - n /\ \A i \in 1 .. m - n : c[i] = s[n + i]
    BY ONLY <1>1, <2>3, <2>4, <2>5
  <2> QED BY ONLY <2>1, <2>6
<1>7. PICK z : z = <<o>>
  OBVIOUS
<1>8. z \in Seq(S) /\ Len(z) = 1 /\ z[1] = o
  BY <1>7
<1>9. PICK d : d = a \o z
  OBVIOUS
<1>10. /\ d \in Seq(S) /\ Len(d) = Len(a) + Len(z)
       /\ \A i \in 1 .. Len(a) + Len(z) : d[i] = IF i <= Len(a) THEN a[i] ELSE z[i - Len(a)]
  BY ONLY <1>4, <1>8, <1>9, ConcatProperties
<1>11. /\ d \in Seq(S) /\ Len(d) = n + 1 /\ d[n + 1] = o
       /\ \A i \in 1 .. n : d[i] = s[i]
  <2>1. Len(a) = n /\ Len(z) = 1 /\ n \in Nat
    BY <1>1, <1>4, <1>8
  <2>2. d[n + 1] = z[n + 1 - n] /\ n + 1 - n = 1
    BY ONLY <1>10, <2>1
  <2>3. \A i \in 1 .. n : d[i] = a[i]
    BY ONLY <1>10, <2>1
  <2> QED BY <1>4, <1>8, <1>10, <2>1, <2>2, <2>3
<1>13. t = d \o c
  <2>1. t = SubSeq(s, 1, n) \o <<o>> \o SubSeq(s, k, Len(s))
    BY <1>0, Zenon DEF InsertAt
  <2>2. SubSeq(s, 1, n) = a /\ SubSeq(s, k, Len(s)) = c /\ a \o <<o>> = d
    BY <1>1, <1>3, <1>5, <1>7, <1>9, Zenon
  <2> QED BY <2>1, <2>2, Zenon
<1> HIDE DEF t
<1>14. /\ t \in Seq(S) /\ Len(t) = Len(d) + Len(c)
       /\ \A i \in 1 .. Len(d) + Len(c) : t[i] = IF i <= Len(d) THEN d[i] ELSE c[i - Len(d)]
  BY ONLY <1>6, <1>11, <1>13, ConcatProperties
<1>15. Len(t) = Len(s) + 1 /\ Len(d) = n + 1 /\ Len(c) = Len(s) - n
  BY ONLY <1>1, <1>6, <1>11, <1>14
<1>16. ASSUME NEW i \in 1 .. n + 1 PROVE t[i] = d[i]
  <2>1. i <= Len(d) /\ i \in 1 .. Len(d) + Len(c)
    BY ONLY <1>1, <1>15, i \in 1 .. n + 1
  <2> QED BY ONLY <1>14, <2>1
<1>17. ASSUME NEW i \in n + 2 .. Len(s) + 1 PROVE t[i] = s[i - 1]
  <2>1. /\ ~(i <= Len(d)) /\ i \in 1 .. Len(d) + Len(c) /\ i - Len(d) \in 1 .. Len(s) - n
        /\ n + (i - Len(d)) = i - 1
    BY ONLY <1>1, <1>15, i \in n + 2 .. Len(s) + 1
  <2>2. t[i] = c[i - Len(d)]
    BY ONLY <1>14, <2>1
  <2> QED BY ONLY <1>6, <2>1, <2>2
<1>18. ASSUME NEW i \in 1 .. k - 1 PROVE t[i] = s[i]
  <2>1. i \in 1 .. n /\ i \in 1 .. n + 1
    BY <1>0, <1>1
  <2> QED BY <1>11, <1>16, <2>1
<1>19. t[k] = o
  <2>1. k \in 1 .. n + 1
    BY <1>1
  <2> QED BY <1>1, <1>11, <1>16, <2>1
<1>20. ASSUME NEW i \in k + 1 .. Len(s) + 1 PROVE t[i] = s[i - 1]
  <2>1. i \in n + 2 .. Len(s) + 1
    BY <1>1
  <2> QED BY <1>17, <2>1
<1>21. IsInsertion(t, S, s, k, o)
  BY <1>14, <1>15, <1>18, <1>19, <1>20 DEF IsInsertion
<1> QED BY <1>21 DEF t

(* The loop that pops old offsets stops somewhere *)
LEMMA BelowStops ==
    ASSUME NEW S, S \subseteq Int, NEW s \in Seq(S), NEW b \in Int
    PROVE  LET n == Below(s, b)
           IN  /\ n \in 0 .. Len(s) /\ \A i \in 1 .. n : s[i] < b
               /\ n < Len(s) => s[n + 1] >= b
<1>1. /\ Len(s) \in Nat /\ DOMAIN s = 1 .. Len(s)
      /\ \A i \in 1 .. Len(s) : s[i] \in Int
  BY LenProperties, ElementOfSeq
<1>2. \E n \in 0 .. Len(s) : (\A i \in 1 .. n : s[i] < b) /\ (n < Len(s) => s[n + 1] >= b)
  <2>1. CASE \A i \in 1 .. Len(s) : s[i] < b
    <3>1. Len(s) \in 0 .. Len(s)
      BY <1>1
    <3> QED BY <2>1, <3>1
  <2>2. CASE \E i \in 1 .. Len(s) : s[i] >= b
    <3> DEFINE T == {i \in 1 .. Len(s) : s[i] >= b}
    <3>1. T \subseteq Nat /\ T # {}
      BY <1>1, <2>2
    <3>2. PICK x \in T : \A y \in T : x <= y
      BY <3>1, Least
    <3>3. x \in 1 .. Len(s) /\ s[x] >= b /\ \A i \in 1 .. x - 1 : s[i] < b
      BY <1>1, <3>2
    <3>4. x - 1 \in 0 .. Len(s) /\ x - 1 + 1 = x
      BY <1>1, <3>3
    <3> QED BY <3>3, <3>4
  <2> QED BY <1>1, <2>1, <2>2
<1> QED BY <1>2 DEF Below

(* What binary_search and insert do to the order *)
Joined(t, S, s, o) ==
    /\ t \in Seq(S) /\ Ascending(t) /\ Len(t) \in Len(s) .. Len(s) + 1
    /\ (\A i \in DOMAIN s : s[i] # o) => Len(t) = Len(s) + 1
    /\ \E i \in DOMAIN t : t[i] = o
    /\ \A i \in DOMAIN t : t[i] = o \/ \E j \in DOMAIN s : s[j] = t[i]
    /\ \A j \in DOMAIN s : \E i \in DOMAIN t : t[i] = s[j]

LEMMA InsertedOrder ==
    ASSUME NEW S, S \subseteq Int, NEW s \in Seq(S), Ascending(s), NEW o \in S
    PROVE  Joined(Inserted(s, o), S, s, o)
<1>1. /\ Len(s) \in Nat /\ DOMAIN s = 1 .. Len(s) /\ o \in Int
      /\ \A i \in 1 .. Len(s) : s[i] \in S
  BY LenProperties, ElementOfSeq
<1>2. PICK n : n = Below(s, o)
  OBVIOUS
<1>3. /\ n \in 0 .. Len(s) /\ \A i \in 1 .. n : s[i] < o
      /\ n < Len(s) => s[n + 1] >= o
  BY <1>1, <1>2, BelowStops
<1>4. CASE n < Len(s) /\ s[n + 1] = o
  <2>1. Inserted(s, o) = s
    BY <1>2, <1>4 DEF Inserted
  <2>2. n + 1 \in DOMAIN s
    BY <1>1, <1>3, <1>4
  <2>3. Len(s) \in Len(s) .. Len(s) + 1
    BY <1>1
  <2> QED BY <1>4, <2>1, <2>2, <2>3 DEF Joined
<1>5. CASE ~(n < Len(s) /\ s[n + 1] = o)
  <2>1. PICK t : t = InsertAt(s, n + 1, o)
    OBVIOUS
  <2>2. Inserted(s, o) = t
    BY <1>2, <1>5, <2>1 DEF Inserted
  <2>3. /\ t \in Seq(S) /\ Len(t) = Len(s) + 1
        /\ \A i \in 1 .. n : t[i] = s[i]
        /\ t[n + 1] = o
        /\ \A i \in n + 2 .. Len(s) + 1 : t[i] = s[i - 1]
    <3>1. PICK k : k = n + 1
      OBVIOUS
    <3>2. k \in 1 .. Len(s) + 1
      BY <1>1, <1>3, <3>1
    <3>3. IsInsertion(t, S, s, k, o)
      BY <2>1, <3>1, <3>2, InsertAtIs
    <3>4. k - 1 = n /\ k + 1 = n + 2
      BY <1>1, <1>3, <3>1
    <3> QED BY <3>1, <3>3, <3>4 DEF IsInsertion
  <2>13. Len(t) = Len(s) + 1 /\ DOMAIN t = 1 .. Len(s) + 1
    BY <2>3, LenProperties
  <2>15. \A i \in n + 1 .. Len(s) : s[i] > o
    <3>1. ASSUME NEW i \in n + 1 .. Len(s) PROVE s[i] > o
      <4>0. n + 1 \in 1 .. Len(s) /\ i \in 1 .. Len(s)
        BY <1>1, <1>3
      <4>1. n + 1 \in DOMAIN s /\ i \in DOMAIN s /\ n < Len(s) /\ s[n + 1] \in Int /\ s[i] \in Int
        <5>1. n < Len(s)
          BY <1>1, <1>3, <4>0
        <5>2. s[n + 1] \in Int /\ s[i] \in Int
          BY <1>1, <4>0
        <5> QED BY <1>1, <4>0, <5>1, <5>2
      <4>2. s[n + 1] > o
        BY <1>1, <1>3, <1>5, <4>1
      <4>3. i = n + 1 \/ s[n + 1] < s[i]
        BY <1>3, <4>1 DEF Ascending
      <4> QED BY <1>1, <4>1, <4>2, <4>3
    <3> QED BY <3>1
  <2>16. Ascending(t)
    <3>1. SUFFICES ASSUME NEW i \in 1 .. Len(s) + 1, NEW j \in 1 .. Len(s) + 1, i < j PROVE t[i] < t[j]
      BY <2>13 DEF Ascending
    <3>2. CASE j <= n
      <4>1. i \in 1 .. n /\ j \in 1 .. n /\ i \in DOMAIN s /\ j \in DOMAIN s
        BY <1>1, <1>3, <3>1, <3>2
      <4> QED BY <2>3, <3>1, <4>1 DEF Ascending
    <3>3. CASE j = n + 1
      <4>1. i \in 1 .. n
        BY <1>3, <3>1, <3>3
      <4> QED BY <1>3, <2>3, <3>3, <4>1
    <3>4. CASE j > n + 1
      <4>1. j \in n + 2 .. Len(s) + 1 /\ j - 1 \in n + 1 .. Len(s) /\ j - 1 \in DOMAIN s
        BY <1>1, <1>3, <3>1, <3>4
      <4>2. t[j] = s[j - 1] /\ t[j] > o
        BY <2>3, <2>15, <4>1
      <4>3. CASE i <= n
        <5>1. i \in 1 .. n /\ i \in DOMAIN s /\ i < j - 1
          BY <1>1, <1>3, <3>1, <3>4, <4>3
        <5> QED BY <2>3, <4>1, <4>2, <5>1 DEF Ascending
      <4>4. CASE i = n + 1
        BY <2>3, <4>2, <4>4
      <4>5. CASE i > n + 1
        <5>1. i \in n + 2 .. Len(s) + 1 /\ i - 1 \in DOMAIN s /\ i - 1 < j - 1
          BY <1>1, <1>3, <3>1, <4>5
        <5> QED BY <2>3, <4>1, <4>2, <5>1 DEF Ascending
      <4> QED BY <1>3, <4>3, <4>4, <4>5
    <3> QED BY <1>3, <3>2, <3>3, <3>4
  <2>17. n + 1 \in DOMAIN t /\ t[n + 1] = o
    BY <1>1, <1>3, <2>13, <2>3
  <2>18. ASSUME NEW i \in DOMAIN t PROVE t[i] = o \/ \E j \in DOMAIN s : s[j] = t[i]
    <3>1. CASE i \in 1 .. n
      BY <1>1, <1>3, <2>3, <3>1
    <3>2. CASE i \in n + 2 .. Len(s) + 1
      <4>1. i - 1 \in DOMAIN s
        BY <1>1, <1>3, <3>2
      <4> QED BY <2>3, <3>2, <4>1
    <3> QED BY <1>1, <1>3, <2>13, <2>17, <3>1, <3>2
  <2>19. ASSUME NEW j \in DOMAIN s PROVE \E i \in DOMAIN t : t[i] = s[j]
    <3>1. CASE j \in 1 .. n
      BY <1>1, <1>3, <2>13, <2>3, <3>1
    <3>2. CASE j \in n + 1 .. Len(s)
      <4>1. j + 1 \in n + 2 .. Len(s) + 1 /\ j + 1 - 1 = j /\ j + 1 \in DOMAIN t
        BY <1>1, <1>3, <2>13, <3>2
      <4> QED BY <2>3, <4>1
    <3> QED BY <1>1, <1>3, <3>1, <3>2
  <2>20. Len(t) \in Len(s) .. Len(s) + 1
    BY <1>1, <2>3
  <2> QED BY <2>2, <2>3, <2>16, <2>17, <2>18, <2>19, <2>20 DEF Joined
<1> QED BY <1>4, <1>5

(* Parts of a window *)
LEMMA WindowParts ==
    ASSUME NEW w, GoodWindow(w)
    PROVE  /\ w.base \in Int /\ w.offsets \in Seq(0 .. OffsetLimit - 1)
           /\ Len(w.offsets) \in Nat /\ Len(w.offsets) <= Capacity
           /\ DOMAIN w.offsets = 1 .. Len(w.offsets)
           /\ \A i \in 1 .. Len(w.offsets) : w.offsets[i] \in 0 .. OffsetLimit - 1 /\ IdAt(w, i) \in Int
           /\ \A i, j \in 1 .. Len(w.offsets) : i < j => IdAt(w, i) < IdAt(w, j)
<1>1. w.base \in Int /\ w.offsets \in Seq(0 .. OffsetLimit - 1) /\ Len(w.offsets) <= Capacity
  BY DEF GoodWindow
<1>2. PICK s : s = w.offsets
  OBVIOUS
<1>3. s \in Seq(0 .. OffsetLimit - 1) /\ Ascending(s)
  BY <1>1, <1>2 DEF GoodWindow
<1>4. /\ Len(s) \in Nat /\ DOMAIN s = 1 .. Len(s)
      /\ \A i \in 1 .. Len(s) : s[i] \in 0 .. OffsetLimit - 1
  BY <1>3, LenProperties, ElementOfSeq
<1>5. ASSUME NEW i \in 1 .. Len(s) PROVE s[i] \in Int
  BY <1>4, Window
<1>6. ASSUME NEW i \in 1 .. Len(s), NEW j \in 1 .. Len(s), i < j PROVE s[i] < s[j]
  BY <1>3, <1>4, <1>6 DEF Ascending
<1>7. ASSUME NEW i \in 1 .. Len(s) PROVE IdAt(w, i) = w.base + s[i] /\ IdAt(w, i) \in Int
  BY <1>1, <1>2, <1>5 DEF IdAt
<1>8. ASSUME NEW i \in 1 .. Len(s), NEW j \in 1 .. Len(s), i < j PROVE IdAt(w, i) < IdAt(w, j)
  <2>1. s[i] < s[j] /\ s[i] \in Int /\ s[j] \in Int
    BY <1>5, <1>6, <1>8
  <2> QED BY <1>1, <1>7, <2>1
<1> QED BY <1>1, <1>2, <1>4, <1>7, <1>8

(* An identifier is held when it is at some place *)
LEMMA HoldsIs ==
    ASSUME NEW w, GoodWindow(w), NEW x \in Int
    PROVE  Holds(w, x) <=> \E i \in 1 .. Len(w.offsets) : IdAt(w, i) = x
<1>1. PICK s : s = w.offsets
  OBVIOUS
<1>2. PICK b : b = w.base
  OBVIOUS
<1>3. b \in Int /\ DOMAIN s = 1 .. Len(s) /\ \A i \in 1 .. Len(s) : s[i] \in 0 .. OffsetLimit - 1
  BY <1>1, <1>2, WindowParts
<1>4. OffsetLimit \in Int
  BY Window
<1>5. ASSUME NEW i \in 1 .. Len(s), b + s[i] = x PROVE x - b \in 0 .. OffsetLimit - 1 /\ s[i] = x - b
  BY <1>3, <1>4, <1>5
<1>6. ASSUME NEW i \in 1 .. Len(s), s[i] = x - b PROVE b + s[i] = x
  BY <1>3, <1>6
<1> QED BY <1>1, <1>2, <1>3, <1>5, <1>6 DEF Holds, HasOffset, IdAt

(* m has the offsets from base b of what is left of a window when k identifiers leave *)
Moved(m, w, k, b) ==
    /\ m \in Seq(0 .. OffsetLimit - 1) /\ Len(m) = Len(w.offsets) - k
    /\ \A i \in 1 .. Len(w.offsets) - k : m[i] = IdAt(w, k + i) - b

(* v holds that and the identifier *)
Refilled(v, w, k, id) ==
    /\ GoodWindow(v)
    /\ \A x \in Int : Holds(v, x) <=> x = id \/ \E i \in k + 1 .. Len(w.offsets) : IdAt(w, i) = x
    /\ (\A i \in k + 1 .. Len(w.offsets) : IdAt(w, i) # id) => Len(v.offsets) = Len(w.offsets) - k + 1

LEMMA InsertedMoved ==
    ASSUME NEW w, GoodWindow(w), NEW k \in 0 .. Len(w.offsets), Len(w.offsets) - k < Capacity,
           NEW b \in Int, NEW m, Moved(m, w, k, b), NEW id \in Int, NEW o \in 0 .. OffsetLimit - 1,
           o = id - b
    PROVE  Refilled([base |-> b, offsets |-> Inserted(m, o)], w, k, id)
<1>0. PICK v : v = [base |-> b, offsets |-> Inserted(m, o)]
  OBVIOUS
<1>1. PICK n : n = Len(w.offsets)
  OBVIOUS
<1>2. /\ n \in Nat /\ n <= Capacity /\ k \in Nat /\ k <= n
      /\ \A i \in 1 .. n : IdAt(w, i) \in Int
      /\ \A i, j \in 1 .. n : i < j => IdAt(w, i) < IdAt(w, j)
  BY <1>1, WindowParts
<1>3. PICK S : S = 0 .. OffsetLimit - 1
  OBVIOUS
<1>4. S \subseteq Int
  BY <1>3, Window
<1>5. m \in Seq(S) /\ Len(m) = n - k /\ \A i \in 1 .. n - k : m[i] = IdAt(w, k + i) - b
  BY <1>1, <1>3 DEF Moved
<1>6. DOMAIN m = 1 .. n - k
  BY <1>5, LenProperties
<1>7. ASSUME NEW i \in 1 .. n - k PROVE k + i \in 1 .. n /\ IdAt(w, k + i) \in Int /\ m[i] = IdAt(w, k + i) - b
  <2>1. k + i \in 1 .. n
    BY <1>2
  <2> QED BY <1>2, <1>5, <2>1
<1>8. Ascending(m)
  <2>1. SUFFICES ASSUME NEW i \in 1 .. n - k, NEW j \in 1 .. n - k, i < j PROVE m[i] < m[j]
    BY <1>6 DEF Ascending
  <2>2. k + i < k + j
    BY <1>2, <2>1
  <2>3. IdAt(w, k + i) < IdAt(w, k + j)
    BY <1>2, <1>7, <2>2
  <2> QED BY <1>7, <2>3
<1>10. o \in S /\ o \in Int /\ id = b + o
  BY <1>3, <1>4
<1>11. PICK t : t = Inserted(m, o)
  OBVIOUS
<1>12. /\ t \in Seq(S) /\ Ascending(t) /\ Len(t) \in Len(m) .. Len(m) + 1
       /\ (\A i \in DOMAIN m : m[i] # o) => Len(t) = Len(m) + 1
       /\ \E i \in DOMAIN t : t[i] = o
       /\ \A i \in DOMAIN t : t[i] = o \/ \E j \in DOMAIN m : m[j] = t[i]
       /\ \A j \in DOMAIN m : \E i \in DOMAIN t : t[i] = m[j]
  <2>1. Joined(t, S, m, o)
    BY <1>4, <1>5, <1>8, <1>10, <1>11, InsertedOrder
  <2> QED BY <2>1 DEF Joined
<1>13. v.base = b /\ v.offsets = t
  BY <1>0, <1>11
<1>14. GoodWindow(v)
  <2>1. v \in [base : Int, offsets : Seq(0 .. OffsetLimit - 1)]
    BY <1>0, <1>3, <1>11, <1>12
  <2>2. Len(t) <= Capacity
    BY <1>1, <1>2, <1>5, <1>12, Window
  <2> QED BY <1>12, <1>13, <2>1, <2>2 DEF GoodWindow
<1>15. DOMAIN t = 1 .. Len(t) /\ \A i \in DOMAIN t : t[i] \in Int
  BY <1>4, <1>12, LenProperties, ElementOfSeq
<1>16. ASSUME NEW x \in Int, Holds(v, x)
       PROVE  x = id \/ \E i \in k + 1 .. n : IdAt(w, i) = x
  <2>1. PICK i \in DOMAIN t : b + t[i] = x
    BY <1>13, <1>14, <1>15, <1>16, HoldsIs DEF IdAt
  <2>2. CASE t[i] = o
    BY <1>10, <2>1, <2>2
  <2>3. CASE t[i] # o
    <3>1. PICK j \in 1 .. n - k : m[j] = t[i]
      BY <1>6, <1>12, <2>3
    <3>2. IdAt(w, k + j) = x
      BY <1>7, <1>15, <2>1, <3>1
    <3>3. k + j \in k + 1 .. n
      BY <1>2
    <3> QED BY <3>2, <3>3
  <2> QED BY <2>2, <2>3
<1>17. ASSUME NEW x \in Int, NEW j \in DOMAIN m, b + m[j] = x PROVE Holds(v, x)
  <2>1. PICK i \in DOMAIN t : t[i] = m[j]
    BY <1>12
  <2>2. i \in 1 .. Len(v.offsets)
    BY <1>13, <1>15
  <2>3. IdAt(v, i) = x
    BY <1>13, <1>17, <2>1 DEF IdAt
  <2> QED BY <1>14, <2>2, <2>3, HoldsIs
<1>18. Holds(v, id)
  <2>1. PICK i \in DOMAIN t : t[i] = o
    BY <1>12
  <2>2. IdAt(v, i) = id /\ i \in 1 .. Len(v.offsets)
    BY <1>10, <1>13, <1>15, <2>1 DEF IdAt
  <2> QED BY <1>14, <2>2, HoldsIs
<1>19. ASSUME NEW x \in Int, NEW i \in k + 1 .. n, IdAt(w, i) = x PROVE Holds(v, x)
  <2>1. i - k \in 1 .. n - k /\ k + (i - k) = i
    BY <1>2
  <2>2. PICK j : j = i - k
    OBVIOUS
  <2>3. j \in DOMAIN m /\ m[j] = x - b
    BY <1>6, <1>7, <1>19, <2>1, <2>2
  <2>4. b + m[j] = x
    BY <2>3
  <2> QED BY <1>17, <2>3, <2>4
<1>20. ASSUME \A i \in k + 1 .. n : IdAt(w, i) # id PROVE Len(t) = n - k + 1
  <2>1. ASSUME NEW i \in DOMAIN m PROVE m[i] # o
    <3>1. k + i \in k + 1 .. n /\ m[i] = IdAt(w, k + i) - b /\ IdAt(w, k + i) \in Int
      BY <1>2, <1>6, <1>7, SMTT(30)
    <3>2. IdAt(w, k + i) # id
      BY <1>20, <3>1
    <3> QED BY <1>10, <3>1, <3>2
  <2> QED BY <1>5, <1>12, <2>1
<1>21. \A x \in Int : Holds(v, x) <=> x = id \/ \E i \in k + 1 .. n : IdAt(w, i) = x
  BY <1>16, <1>18, <1>19
<1>22. (\A i \in k + 1 .. n : IdAt(w, i) # id) => Len(t) = n - k + 1
  BY <1>20
<1> QED BY <1>0, <1>1, <1>13, <1>14, <1>21, <1>22 DEF Refilled


(* What a session relies on when an identifier is remembered *)
Recalls(r, w, id) ==
    /\ GoodWindow(r.window) /\ r.evicted \in Int
    /\ \A x \in Int : Holds(w, x) => Holds(r.window, x) \/ x <= r.evicted
    /\ Holds(r.window, id) \/ id <= r.evicted
    /\ \A x \in Int : Holds(r.window, x) => Holds(w, x) \/ x = id
    /\ r.evicted # NoId /\ ~Holds(w, id) =>
         \/ \E y \in Int : (Holds(w, y) \/ y = id) /\ y - r.evicted > MaxAge
         \/ /\ Len(r.window.offsets) = Capacity
            /\ \A y \in Int : Holds(r.window, y) => y > r.evicted

(* Where the part of a window that is too old ends *)
Cut(w, oldest, k) ==
    /\ k \in 0 .. Len(w.offsets) /\ Len(w.offsets) - k < Capacity
    /\ \A i \in k + 1 .. Len(w.offsets) : IdAt(w, i) >= oldest
    /\ k > 0 => IdAt(w, k) < oldest \/ (Len(w.offsets) = Capacity /\ k = 1)

LEMMA LeavingStops ==
    ASSUME NEW w, GoodWindow(w), NEW oldest \in Int
    PROVE  Cut(w, oldest, Leaving(w, oldest))
<1>0. PICK k : k = Leaving(w, oldest)
  OBVIOUS
<1>1. PICK n : n = Len(w.offsets)
  OBVIOUS
<1>2. PICK s : s = w.offsets
  OBVIOUS
<1>3. /\ n \in Nat /\ n <= Capacity /\ w.base \in Int /\ s \in Seq(0 .. OffsetLimit - 1) /\ n = Len(s)
      /\ \A i \in 1 .. n : IdAt(w, i) \in Int /\ s[i] \in 0 .. OffsetLimit - 1
      /\ \A i, j \in 1 .. n : i < j => IdAt(w, i) < IdAt(w, j)
  BY <1>1, <1>2, WindowParts
<1>4. Capacity \in Nat /\ Capacity > 0 /\ OffsetLimit \in Int
  BY Window
<1>5. PICK b : b = oldest - w.base
  OBVIOUS
<1>6. b \in Int /\ 0 .. OffsetLimit - 1 \subseteq Int
  BY <1>3, <1>4, <1>5
<1>7. PICK a : a = Below(s, b)
  OBVIOUS
<1>8. a \in 0 .. n /\ (\A i \in 1 .. a : s[i] < b) /\ (a < n => s[a + 1] >= b)
  BY <1>3, <1>6, <1>7, BelowStops
<1>9. k = IF n - a = Capacity THEN a + 1 ELSE a
  BY <1>0, <1>1, <1>2, <1>5, <1>7 DEF Leaving
<1>10. ASSUME NEW i \in 1 .. n PROVE IdAt(w, i) = w.base + s[i] /\ s[i] \in Int
  BY <1>2, <1>3, <1>4 DEF IdAt
<1>11. ASSUME NEW i \in a + 1 .. n PROVE IdAt(w, i) >= oldest
  <2>1. i \in 1 .. n /\ a + 1 \in 1 .. n /\ a < n
    BY <1>3, <1>8
  <2>2. IdAt(w, a + 1) >= oldest
    BY <1>3, <1>5, <1>8, <1>10, <2>1
  <2>3. i = a + 1 \/ IdAt(w, a + 1) < IdAt(w, i)
    BY <1>3, <1>8, <2>1
  <2> QED BY <1>3, <2>1, <2>2, <2>3
<1>12. ASSUME a > 0 PROVE IdAt(w, a) < oldest
  <2>1. a \in 1 .. a /\ a \in 1 .. n
    BY <1>3, <1>8, <1>12
  <2> QED BY <1>3, <1>5, <1>8, <1>10, <2>1
<1>13. CASE n - a = Capacity
  <2>1. a = 0 /\ n = Capacity /\ k = 1
    BY <1>3, <1>4, <1>8, <1>9, <1>13
  <2>2. \A i \in k + 1 .. n : i \in a + 1 .. n
    BY <1>3, <2>1
  <2>3. k \in 0 .. n /\ n - k < Capacity
    BY <1>3, <1>4, <2>1
  <2> QED BY <1>0, <1>1, <1>11, <2>1, <2>2, <2>3 DEF Cut
<1>14. CASE n - a # Capacity
  <2>1. k = a
    BY <1>9, <1>14
  <2>2. k \in 0 .. n /\ n - k < Capacity
    BY <1>3, <1>4, <1>8, <1>14, <2>1
  <2> QED BY <1>0, <1>1, <1>11, <1>12, <2>1, <2>2 DEF Cut
<1> QED BY <1>13, <1>14

(* What is left of a window, with the same base or another one *)
LEMMA SameBase ==
    ASSUME NEW w, GoodWindow(w), NEW k \in 0 .. Len(w.offsets)
    PROVE  Moved(SubSeq(w.offsets, k + 1, Len(w.offsets)), w, k, w.base)
<1>1. PICK n : n = Len(w.offsets)
  OBVIOUS
<1>2. PICK s : s = w.offsets
  OBVIOUS
<1>3. n \in Nat /\ w.base \in Int /\ k \in Nat /\ k <= n
      /\ \A i \in 1 .. n : s[i] \in 0 .. OffsetLimit - 1
  BY <1>1, <1>2, WindowParts
<1>4. PICK j : j = k + 1
  OBVIOUS
<1>5. j \in Int /\ n \in Int /\ \A i \in j .. n : s[i] \in 0 .. OffsetLimit - 1
  BY <1>3, <1>4
<1>6. PICK q : q = SubSeq(s, j, n)
  OBVIOUS
<1>7. /\ q \in Seq(0 .. OffsetLimit - 1) /\ Len(q) = IF j <= n THEN n - j + 1 ELSE 0
      /\ \A i \in 1 .. n - j + 1 : q[i] = s[j + i - 1]
  BY ONLY <1>5, <1>6, SubSeqProperties
<1>8. Len(q) = n - k
  BY <1>3, <1>4, <1>7
<1>9. ASSUME NEW i \in 1 .. n - k PROVE q[i] = IdAt(w, k + i) - w.base
  <2>1. i \in 1 .. n - j + 1 /\ j + i - 1 = k + i /\ k + i \in 1 .. n
    BY <1>3, <1>4
  <2>2. q[i] = s[k + i] /\ s[k + i] \in Int
    BY <1>3, <1>7, <2>1, Window
  <2> QED BY <1>2, <1>3, <2>2 DEF IdAt
<1> QED BY <1>1, <1>2, <1>4, <1>6, <1>7, <1>8, <1>9 DEF Moved

LEMMA OtherBase ==
    ASSUME NEW w, GoodWindow(w), NEW k \in 0 .. Len(w.offsets), NEW b \in Int, NEW q,
           Moved(q, w, k, w.base),
           \A i \in k + 1 .. Len(w.offsets) : IdAt(w, i) - b \in 0 .. OffsetLimit - 1
    PROVE  Moved(Rebased(q, w.base, b), w, k, b)
<1>1. PICK n : n = Len(w.offsets) - k
  OBVIOUS
<1>2. /\ n \in Nat /\ w.base \in Int /\ k \in Nat
      /\ \A i \in 1 .. n : k + i \in k + 1 .. Len(w.offsets) /\ k + i \in 1 .. Len(w.offsets)
  BY <1>1, WindowParts
<1>3. q \in Seq(0 .. OffsetLimit - 1) /\ Len(q) = n /\ \A i \in 1 .. n : q[i] = IdAt(w, k + i) - w.base
  BY <1>1 DEF Moved
<1>4. DOMAIN q = 1 .. n
  BY <1>3, LenProperties
<1>5. PICK m : m = [i \in 1 .. n |-> w.base + q[i] - b]
  OBVIOUS
<1>6. Rebased(q, w.base, b) = m
  BY <1>4, <1>5 DEF Rebased
<1>7. ASSUME NEW i \in 1 .. n PROVE m[i] = IdAt(w, k + i) - b /\ m[i] \in 0 .. OffsetLimit - 1
  <2>1. IdAt(w, k + i) \in Int
    BY <1>2, WindowParts
  <2>2. m[i] = IdAt(w, k + i) - b
    BY <1>2, <1>3, <1>5, <2>1
  <2> QED BY <1>2, <2>2
<1>8. m \in [1 .. n -> 0 .. OffsetLimit - 1]
  BY <1>5, <1>7
<1>9. m \in Seq(0 .. OffsetLimit - 1)
  BY <1>2, <1>8, SeqDef
<1>10. Len(m) = n
  <2>1. DOMAIN m = 1 .. n /\ DOMAIN m = 1 .. Len(m) /\ Len(m) \in Nat
    BY <1>8, <1>9, LenProperties
  <2> QED BY <1>2, <2>1
<1> QED BY <1>1, <1>6, <1>7, <1>9, <1>10 DEF Moved


(* remember: whatever the window loses, the returned identifier covers, and that is
   old: one more than MaxAge later, or a full window of later ones, has come *)
THEOREM RememberRecalls ==
    ASSUME NEW w, GoodWindow(w), NEW id \in Int
    PROVE  Recalls(Remember(w, id), w, id)
<1>1. PICK n : n = Len(w.offsets)
  OBVIOUS
<1>2. /\ n \in Nat /\ n <= Capacity /\ w.base \in Int
      /\ \A i \in 1 .. n : IdAt(w, i) \in Int
      /\ \A i, j \in 1 .. n : i < j => IdAt(w, i) < IdAt(w, j)
  BY <1>1, WindowParts
<1>3. \A x \in Int : Holds(w, x) <=> \E i \in 1 .. n : IdAt(w, i) = x
  BY <1>1, HoldsIs
<1>4. PICK newest : newest = IF n = 0 THEN id ELSE Bigger(IdAt(w, n), id)
  OBVIOUS
<1>5. /\ newest \in Int /\ newest >= id /\ \A i \in 1 .. n : IdAt(w, i) <= newest
      /\ newest = id \/ Holds(w, newest)
  <2>1. CASE n = 0
    <3>1. 1 .. n = {}
      BY <2>1
    <3> QED BY <1>4, <2>1, <3>1
  <2>2. CASE n # 0
    <3>1. n \in 1 .. n
      BY <1>2, <2>2
    <3>2. IdAt(w, n) \in Int /\ newest = Bigger(IdAt(w, n), id)
      BY <1>2, <1>4, <2>2, <3>1
    <3>3. newest \in Int /\ newest >= id /\ newest >= IdAt(w, n) /\ (newest = id \/ newest = IdAt(w, n))
      BY <3>2 DEF Bigger
    <3>4. ASSUME NEW i \in 1 .. n PROVE IdAt(w, i) <= newest
      <4>1. IdAt(w, i) \in Int /\ (i = n \/ IdAt(w, i) < IdAt(w, n))
        BY <1>2, <3>1
      <4> QED BY <3>2, <3>3, <4>1
    <3>5. newest = id \/ Holds(w, newest)
      BY <1>3, <3>1, <3>3
    <3> QED BY <3>3, <3>4, <3>5
  <2> QED BY <2>1, <2>2
<1>6. PICK oldest : oldest = newest - MaxAge
  OBVIOUS
<1>7. oldest \in Int /\ MaxAge \in Nat /\ OffsetLimit \in Nat /\ OffsetLimit > MaxAge
  BY <1>5, <1>6, Window
<1>8. PICK k : k = Leaving(w, oldest)
  OBVIOUS
<1>9. PICK q : q = SubSeq(w.offsets, k + 1, n)
  OBVIOUS
<1>10. Remember(w, id) =
         IF id < oldest \/ (n = Capacity /\ id < IdAt(w, 1)) THEN [window |-> w, evicted |-> id]
         ELSE [window |-> IF q # <<>> /\ HasOffset(w, id)
                          THEN [base |-> w.base, offsets |-> Inserted(q, id - w.base)]
                          ELSE [base |-> oldest, offsets |-> Inserted(Rebased(q, w.base, oldest), id - oldest)],
               evicted |-> IF k = 0 THEN NoId ELSE IdAt(w, k)]
  BY <1>1, <1>4, <1>6, <1>8, <1>9 DEF Remember
<1>11. CASE id < oldest \/ (n = Capacity /\ id < IdAt(w, 1))
  <2>1. Remember(w, id).window = w /\ Remember(w, id).evicted = id
    BY <1>10, <1>11
  <2>2. \/ \E y \in Int : (Holds(w, y) \/ y = id) /\ y - id > MaxAge
        \/ Len(w.offsets) = Capacity /\ \A y \in Int : Holds(w, y) => y > id
    <3>1. CASE id < oldest
      <4>1. newest - id > MaxAge
        BY <1>5, <1>6, <1>7, <3>1
      <4> QED BY <1>5, <4>1
    <3>2. CASE n = Capacity /\ id < IdAt(w, 1)
      <4>1. ASSUME NEW i \in 1 .. n PROVE IdAt(w, i) > id
        <5>1. 1 \in 1 .. n /\ IdAt(w, 1) \in Int /\ IdAt(w, i) \in Int /\ (i = 1 \/ IdAt(w, 1) < IdAt(w, i))
          BY <1>2
        <5> QED BY <3>2, <5>1
      <4> QED BY <1>1, <1>3, <3>2, <4>1
    <3> QED BY <1>11, <3>1, <3>2
  <2>3. id \in Int /\ id <= id
    OBVIOUS
  <2> QED BY <2>1, <2>2, <2>3 DEF Recalls
<1>12. CASE ~(id < oldest \/ (n = Capacity /\ id < IdAt(w, 1)))
  <2>1. /\ k \in 0 .. n /\ n - k < Capacity
        /\ \A i \in k + 1 .. n : IdAt(w, i) >= oldest
        /\ k > 0 => IdAt(w, k) < oldest \/ (n = Capacity /\ k = 1)
    <3>1. Cut(w, oldest, k)
      BY <1>7, <1>8, LeavingStops
    <3> QED BY <1>1, <3>1 DEF Cut
  <2>2. k \in Nat /\ \A i \in k + 1 .. n : i \in 1 .. n
    BY <1>2, <2>1
  <2>3. PICK v : v = Remember(w, id).window
    OBVIOUS
  <2>4. PICK e : e = Remember(w, id).evicted
    OBVIOUS
  <2>5. /\ e = IF k = 0 THEN NoId ELSE IdAt(w, k)
        /\ v = IF q # <<>> /\ HasOffset(w, id)
               THEN [base |-> w.base, offsets |-> Inserted(q, id - w.base)]
               ELSE [base |-> oldest, offsets |-> Inserted(Rebased(q, w.base, oldest), id - oldest)]
    BY <1>10, <1>12, <2>3, <2>4
  <2>6. Moved(q, w, k, w.base)
    BY <1>1, <1>9, <2>1, SameBase
  <2>7. /\ GoodWindow(v)
        /\ \A x \in Int : Holds(v, x) <=> x = id \/ \E i \in k + 1 .. n : IdAt(w, i) = x
        /\ (\A i \in k + 1 .. n : IdAt(w, i) # id) => Len(v.offsets) = n - k + 1
    <3> SUFFICES Refilled(v, w, k, id)
      BY <1>1 DEF Refilled
    <3>0. k \in 0 .. Len(w.offsets) /\ Len(w.offsets) - k < Capacity
      BY <1>1, <2>1
    <3>1. CASE q # <<>> /\ HasOffset(w, id)
      <4>1. id - w.base \in 0 .. OffsetLimit - 1
        BY <3>1 DEF HasOffset
      <4>2. v = [base |-> w.base, offsets |-> Inserted(q, id - w.base)]
        BY <2>5, <3>1
      <4>3. PICK o : o = id - w.base
        OBVIOUS
      <4>4. o \in 0 .. OffsetLimit - 1 /\ v = [base |-> w.base, offsets |-> Inserted(q, o)]
        BY <4>1, <4>2, <4>3
      <4> QED BY <1>2, <2>6, <3>0, <4>3, <4>4, InsertedMoved
    <3>2. CASE ~(q # <<>> /\ HasOffset(w, id))
      <4>1. ASSUME NEW i \in k + 1 .. n PROVE IdAt(w, i) - oldest \in 0 .. OffsetLimit - 1
        <5>1. IdAt(w, i) \in Int /\ IdAt(w, i) <= newest /\ IdAt(w, i) >= oldest
          BY <1>2, <1>5, <2>1, <2>2
        <5> QED BY <1>5, <1>6, <1>7, <5>1
      <4>2. id - oldest \in 0 .. OffsetLimit - 1
        BY <1>5, <1>6, <1>7, <1>12
      <4>3. PICK m : m = Rebased(q, w.base, oldest)
        OBVIOUS
      <4>4. Moved(m, w, k, oldest)
        BY <1>1, <1>7, <2>1, <2>6, <4>1, <4>3, OtherBase
      <4>5. v = [base |-> oldest, offsets |-> Inserted(m, id - oldest)]
        BY <2>5, <3>2, <4>3
      <4>6. PICK o : o = id - oldest
        OBVIOUS
      <4>7. o \in 0 .. OffsetLimit - 1 /\ v = [base |-> oldest, offsets |-> Inserted(m, o)]
        BY <4>2, <4>5, <4>6
      <4> QED BY <1>7, <3>0, <4>4, <4>6, <4>7, InsertedMoved
    <3> QED BY <3>1, <3>2
  <2>8. e \in Int /\ (k = 0 => e = NoId) /\ (k # 0 => k \in 1 .. n /\ e = IdAt(w, k))
    BY <1>2, <2>1, <2>5, Window
  <2>9. ASSUME NEW x \in Int, Holds(w, x) PROVE Holds(v, x) \/ x <= e
    <3>1. PICK i \in 1 .. n : IdAt(w, i) = x
      BY <1>3, <2>9
    <3>2. CASE i <= k
      <4>1. k \in 1 .. n /\ e = IdAt(w, k) /\ (i = k \/ i < k)
        BY <2>2, <2>8, <3>2
      <4> QED BY <1>2, <3>1, <4>1
    <3>3. CASE i > k
      <4>1. i \in k + 1 .. n
        BY <2>2, <3>3
      <4> QED BY <2>7, <3>1, <4>1
    <3> QED BY <2>2, <3>2, <3>3
  <2>10. Holds(v, id) /\ \A x \in Int : Holds(v, x) => Holds(w, x) \/ x = id
    BY <1>3, <2>2, <2>7
  <2>11. ASSUME e # NoId, ~Holds(w, id)
         PROVE  \/ \E y \in Int : (Holds(w, y) \/ y = id) /\ y - e > MaxAge
                \/ Len(v.offsets) = Capacity /\ \A y \in Int : Holds(v, y) => y > e
    <3>1. k \in 1 .. n /\ e = IdAt(w, k) /\ k > 0
      BY <2>2, <2>8, <2>11
    <3>2. CASE e < oldest
      <4>1. newest - e > MaxAge
        BY <1>5, <1>6, <1>7, <2>8, <3>2
      <4> QED BY <1>5, <4>1
    <3>3. CASE n = Capacity /\ k = 1
      <4>1. \A i \in 1 .. n : IdAt(w, i) # id
        BY <1>3, <2>11
      <4>2. Len(v.offsets) = Capacity
        <5>1. \A i \in k + 1 .. n : IdAt(w, i) # id
          BY <2>2, <4>1
        <5>2. Len(v.offsets) = n - k + 1
          BY <2>7, <5>1
        <5> QED BY <1>2, <3>3, <5>2
      <4>3. id > e
        <5>1. id >= e /\ e # id
          BY <1>12, <2>8, <3>1, <3>3, <4>1
        <5> QED BY <2>8, <5>1
      <4>4. ASSUME NEW y \in Int, Holds(v, y) PROVE y > e
        <5>1. CASE y = id
          BY <4>3, <5>1
        <5>2. CASE y # id
          <6>1. PICK i \in k + 1 .. n : IdAt(w, i) = y
            BY <2>7, <4>4, <5>2
          <6>2. i \in 1 .. n /\ k < i
            BY <2>2
          <6> QED BY <1>2, <3>1, <6>1, <6>2
        <5> QED BY <5>1, <5>2
      <4> QED BY <4>2, <4>4
    <3> QED BY <2>1, <3>1, <3>2, <3>3
  <2> QED BY <2>3, <2>4, <2>7, <2>8, <2>9, <2>10, <2>11 DEF Recalls
<1> QED BY <1>11, <1>12


-----------------------------------------------------------------------------
(* The inductive invariant *)

(* Nothing is framed while a packet is decoded *)
Turns == pending # Quiet => packet = NoPacket

(* A request for salts is made when it may fail once more *)
Prefetch(m) == m.saltRequest # None => m.saltFailures <= 3

(* A packet with a request for salts is closed, and the last identifier is its own *)
HasSalts(messages) == \E i \in DOMAIN messages : messages[i].kind = "salts"
SaltPacket ==
    HasSalts(packet.messages) => Len(packet.messages) = 1 /\ packet.full /\ mtp.saltRequest = mtp.last

(* Telegram's messages have identifiers of their own; what is decoded was sent *)
Issued ==
    /\ \A x \in out : x.id <= server.last
    /\ \A x, y \in out : x.id = y.id => x = y
    /\ \A x \in out : x.kind = "container" => \A i \in DOMAIN x.parts : x.parts[i] \in out
    /\ \A i \in DOMAIN pending.left : pending.left[i] \in out
    /\ \A y \in got.received : \E x \in out : x.id = y

(* What a container has brought so far is new to the window *)
Opened ==
    /\ ~pending.nested => pending.ids = {}
    /\ pending.nested => pending.left \in Seq(Single)
    /\ pending.left # <<>> => pending.floor = mtp.floor
    /\ pending.ids \subseteq got.received
    /\ \A x \in pending.ids : ~Holds(mtp.window, x)

(* An update that was delivered is recognised as long as the session lives *)
Recognised ==
    /\ GoodWindow(mtp.window)
    /\ \A x \in Int : Holds(mtp.window, x) => x \in got.received
    /\ open => \A x \in got.updates : Holds(mtp.window, x) \/ x <= mtp.floor \/ x \in pending.ids
    /\ UpdatesOnce

(* What is not above the floor is old *)
Old(received, x) ==
    \/ Cardinality({y \in received : y > x}) >= Capacity
    \/ \E y \in received : y - x > MaxAge
Aged ==
    /\ IsFiniteSet(got.received)
    /\ mtp.floor > 0 => Old(got.received, mtp.floor)
    /\ \A x \in got.lost : Old(got.received, x)

Inv == /\ TypeOK /\ Turns /\ Prefetch(mtp) /\ SaltPacket /\ SaltRequestAlone /\ Issued
       /\ Opened /\ Recognised /\ Aged /\ AcksKept

-----------------------------------------------------------------------------
(* Operators on a session *)

LEMMA Limits ==
    /\ PerSecond \in Nat /\ PerSecond > 0 /\ Step \in Nat /\ MaxMessages \in Nat /\ MaxMessages > 0
    /\ MaxSize \in Nat /\ MaxSize > 0 /\ MaxAcks \in Nat /\ MaxAcks > 0 /\ AckLimit \in Nat
    /\ SaltPeriod \in Nat /\ SaltPeriod > 0 /\ NumSalts \in Nat /\ Jitter \in Nat /\ UseDelay \in Nat
    /\ Early \in Nat /\ Late \in Nat /\ Start \in Nat /\ Skews \subseteq Int /\ Budgets \subseteq Budget
    /\ None = -1
BY EncryptedAssumption DEF None

(* A division by a positive number *)
LEMMA Quotient ==
    ASSUME NEW a \in Int, NEW b \in Nat, b > 0
    PROVE  /\ a \div b \in Int /\ (a >= 0 => a \div b >= 0)
           /\ a % b \in Nat
OBVIOUS

LEMMA SecondIs ==
    ASSUME NEW a \in Int
    PROVE  Second(a) \in Int /\ (a >= 0 => Second(a) >= 0) /\ a % PerSecond \in Nat
BY Limits, Quotient DEF Second

LEMMA Product ==
    ASSUME NEW a \in Nat, NEW b \in Nat
    PROVE  a * b \in Nat
OBVIOUS

(* Fields of a session *)
LEMMA SessionFields ==
    ASSUME NEW m \in Session
    PROVE  /\ m.offset \in Int /\ m.last \in Nat /\ m.seq \in Nat
           /\ m.salts \in Seq([salt : Nat, since : Int]) /\ m.saltTime \in Seq(Nat)
           /\ m.saltRequest \in Nat \cup {None} /\ m.saltFailures \in 0 .. 4
           /\ m.acks \in Seq(Nat) /\ m.old \in BOOLEAN /\ m.flush \in BOOLEAN /\ m.deferred \in BOOLEAN
           /\ m.floor \in Nat /\ m.window \in [base : Int, offsets : Seq(0 .. OffsetLimit - 1)]
           /\ Len(m.acks) \in Nat /\ Len(m.salts) \in Nat
<1>1. /\ m.offset \in Int /\ m.last \in Nat /\ m.seq \in Nat
      /\ m.salts \in Seq([salt : Nat, since : Int]) /\ m.saltTime \in Seq(Nat)
      /\ m.saltRequest \in Nat \cup {None} /\ m.saltFailures \in 0 .. 4
      /\ m.acks \in Seq(Nat) /\ m.old \in BOOLEAN /\ m.flush \in BOOLEAN /\ m.deferred \in BOOLEAN
      /\ m.floor \in Nat /\ m.window \in [base : Int, offsets : Seq(0 .. OffsetLimit - 1)]
  BY DEF Session, Salts
<1> QED BY <1>1, LenProperties

LEMMA NewMsgIdIs ==
    ASSUME TypeClocks, NEW m \in Session
    PROVE  NewMsgId(m) \in Nat
<1>1. PICK l : l = Local
  OBVIOUS
<1>2. l \in Int
  BY <1>1 DEF TypeClocks, Local
<1>3. PICK d : d = Second(l)
  OBVIOUS
<1>4. PICK s : s = Bigger(d + m.offset, 0)
  OBVIOUS
<1>5. s \in Nat
  <2>1. d \in Int
    BY <1>2, <1>3, SecondIs
  <2>2. m.offset \in Int
    BY SessionFields
  <2> QED BY <1>4, <2>1, <2>2 DEF Bigger
<1>6. PICK p : p = s * PerSecond
  OBVIOUS
<1>7. p \in Nat
  BY <1>5, <1>6, Limits, Product
<1>8. PICK r : r = l % PerSecond
  OBVIOUS
<1>9. r \in Nat
  BY <1>2, <1>8, SecondIs
<1>10. NewMsgId(m) = IF m.last >= p + r THEN m.last + 1 ELSE p + r
  <2>1. PICK f : f = p + r
    OBVIOUS
  <2>2. f = Bigger(Second(Local) + m.offset, 0) * PerSecond + (Local % PerSecond)
    BY <1>1, <1>3, <1>4, <1>6, <1>8, <2>1
  <2>3. NewMsgId(m) = IF m.last >= f THEN m.last + 1 ELSE f
    BY ONLY <2>2 DEF NewMsgId
  <2> QED BY <2>1, <2>3
<1>11. m.last \in Nat
  BY SessionFields
<1> QED BY <1>7, <1>9, <1>10, <1>11


(* A session with a salt, and one that differs from another elsewhere than in the window *)
Sound(m) == m \in Session /\ m.salts # <<>> /\ Prefetch(m)
Kept(n, m) == Sound(n) /\ n.window = m.window /\ n.floor = m.floor

LEMMA AdvancedIs ==
    ASSUME TypeClocks, NEW m, Sound(m), NEW related \in BOOLEAN
    PROVE  LET n == Advanced(m, related)
           IN  /\ Kept(n, m) /\ n.acks = m.acks /\ n.last = NewMsgId(m) /\ n.salts = m.salts
               /\ n.saltRequest = m.saltRequest /\ n.saltFailures = m.saltFailures /\ n.deferred = m.deferred
<1>1. m \in Session /\ m.salts # <<>> /\ Prefetch(m)
  BY DEF Sound
<1>2. PICK l : l = NewMsgId(m)
  OBVIOUS
<1>3. l \in Nat
  BY <1>1, <1>2, NewMsgIdIs
<1>4. PICK q : q = IF related THEN m.seq + 2 ELSE m.seq
  OBVIOUS
<1>5. q \in Nat
  BY <1>1, <1>4, SessionFields
<1>6. PICK n : n = [m EXCEPT !.last = l, !.seq = q]
  OBVIOUS
<1>7. Advanced(m, related) = n
  BY <1>2, <1>4, <1>6 DEF Advanced
<1>8. /\ n \in Session /\ n.acks = m.acks /\ n.last = l /\ n.salts = m.salts /\ n.deferred = m.deferred
      /\ n.saltRequest = m.saltRequest /\ n.saltFailures = m.saltFailures
      /\ n.window = m.window /\ n.floor = m.floor
  BY <1>1, <1>3, <1>5, <1>6 DEF Session
<1>9. Prefetch(n)
  BY <1>1, <1>8 DEF Prefetch
<1> QED BY <1>1, <1>2, <1>7, <1>8, <1>9 DEF Kept, Sound

LEMMA NextSaltIs ==
    ASSUME NEW m, Sound(m)
    PROVE  LET n == NextSalt(m)
           IN  /\ Kept(n, m) /\ n.acks = m.acks /\ n.last = m.last
               /\ n.saltRequest = m.saltRequest /\ n.deferred = m.deferred
<1>1. m \in Session /\ m.salts # <<>> /\ Prefetch(m)
  BY DEF Sound
<1>2. CASE NextSalt(m) = m
  BY <1>1, <1>2 DEF Kept, Sound
<1>3. CASE NextSalt(m) # m
  <2>1. NextSalt(m) = [m EXCEPT !.salts = Tail(m.salts)] /\ Len(m.salts) > 1
    BY <1>3 DEF NextSalt
  <2>2. PICK t : t = Tail(m.salts)
    OBVIOUS
  <2>3. m.salts \in Seq([salt : Nat, since : Int])
    BY <1>1, SessionFields
  <2>4. t \in Seq([salt : Nat, since : Int]) /\ Len(t) = Len(m.salts) - 1
    BY <1>1, <2>2, <2>3, HeadTailProperties
  <2>5. t # <<>>
    BY <2>1, <2>3, <2>4, LenProperties, EmptySeq
  <2>6. PICK n : n = [m EXCEPT !.salts = t]
    OBVIOUS
  <2>7. /\ n \in Session /\ n.acks = m.acks /\ n.last = m.last /\ n.salts = t /\ n.deferred = m.deferred
        /\ n.saltRequest = m.saltRequest /\ n.saltFailures = m.saltFailures
        /\ n.window = m.window /\ n.floor = m.floor
    BY <1>1, <2>4, <2>6 DEF Session, Salts
  <2>8. Prefetch(n)
    BY <1>1, <2>7 DEF Prefetch
  <2>9. NextSalt(m) = n
    BY <2>1, <2>2, <2>6
  <2> QED BY <2>5, <2>7, <2>8, <2>9 DEF Kept, Sound
<1> QED BY <1>2, <1>3

LEMMA QueueAckIs ==
    ASSUME NEW m, Sound(m), NEW id \in Nat
    PROVE  LET n == QueueAck(m, id)
           IN  Kept(n, m) /\ n.acks = Append(m.acks, id) /\ Len(n.acks) = Len(m.acks) + 1
<1>1. m \in Session /\ m.salts # <<>> /\ Prefetch(m)
  BY DEF Sound
<1>2. PICK a : a = Append(m.acks, id)
  OBVIOUS
<1>3. m.acks \in Seq(Nat) /\ m.old \in BOOLEAN
  BY <1>1, SessionFields
<1>4. a \in Seq(Nat) /\ Len(a) = Len(m.acks) + 1
  BY <1>2, <1>3, AppendProperties
<1>5. PICK b \in BOOLEAN : b = (m.old /\ m.acks # <<>>)
  OBVIOUS
<1>6. PICK n : n = [m EXCEPT !.acks = a, !.old = b]
  OBVIOUS
<1>7. /\ n \in Session /\ n.acks = a /\ n.salts = m.salts
      /\ n.saltRequest = m.saltRequest /\ n.saltFailures = m.saltFailures
      /\ n.window = m.window /\ n.floor = m.floor
  BY <1>1, <1>4, <1>6 DEF Session
<1>8. Prefetch(n)
  BY <1>1, <1>7 DEF Prefetch
<1>9. QueueAck(m, id) = n
  BY <1>2, <1>5, <1>6 DEF QueueAck
<1> QED BY <1>1, <1>2, <1>4, <1>7, <1>8, <1>9 DEF Kept, Sound

LEMMA FailSaltRequestIs ==
    ASSUME NEW m, Sound(m), NEW id \in Nat
    PROVE  LET n == FailSaltRequest(m, id)
           IN  Kept(n, m) /\ n.acks = m.acks /\ n.seq = m.seq
<1>1. m \in Session /\ m.salts # <<>> /\ Prefetch(m)
  BY DEF Sound
<1>2. CASE m.saltRequest # id
  <2>1. FailSaltRequest(m, id) = m
    BY <1>2 DEF FailSaltRequest
  <2> QED BY <1>1, <2>1 DEF Kept, Sound
<1>3. CASE m.saltRequest = id
  <2>1. PICK f : f = m.saltFailures + 1
    OBVIOUS
  <2>2. f \in 0 .. 4
    <3>1. m.saltFailures \in 0 .. 4
      BY <1>1, SessionFields
    <3>2. id # None
      BY DEF None
    <3>3. m.saltFailures <= 3
      BY <1>1, <1>3, <3>2 DEF Prefetch
    <3> QED BY <2>1, <3>1, <3>3
  <2>3. PICK n : n = [m EXCEPT !.saltRequest = None, !.saltFailures = f]
    OBVIOUS
  <2>4. /\ n \in Session /\ n.acks = m.acks /\ n.salts = m.salts /\ n.seq = m.seq /\ n.saltRequest = None
        /\ n.window = m.window /\ n.floor = m.floor
    BY <1>1, <2>2, <2>3 DEF Session
  <2>5. FailSaltRequest(m, id) = n
    BY <1>3, <2>1, <2>3 DEF FailSaltRequest
  <2> QED BY <1>1, <2>4, <2>5 DEF Kept, Sound, Prefetch
<1> QED BY <1>2, <1>3


LEMMA CorrectTimeOffsetIs ==
    ASSUME TypeClocks, NEW m, Sound(m), NEW id \in Nat
    PROVE  LET n == CorrectTimeOffset(m, id) IN Kept(n, m) /\ n.acks = m.acks
<1>1. m \in Session /\ m.salts # <<>> /\ Prefetch(m)
  BY DEF Sound
<1>2. PICK o : o = Second(id) - Second(Local)
  OBVIOUS
<1>3. o \in Int
  <2>1. Local \in Int
    BY DEF TypeClocks, Local
  <2> QED BY <1>2, <2>1, SecondIs
<1>4. PICK l : l = IF Second(m.last) > Second(id) + Jitter THEN 0 ELSE m.last
  OBVIOUS
<1>5. l \in Nat
  BY <1>1, <1>4, SessionFields
<1>6. PICK n : n = [m EXCEPT !.offset = o, !.last = l]
  OBVIOUS
<1>7. /\ n \in Session /\ n.acks = m.acks /\ n.salts = m.salts
      /\ n.saltRequest = m.saltRequest /\ n.saltFailures = m.saltFailures
      /\ n.window = m.window /\ n.floor = m.floor
  BY <1>1, <1>3, <1>5, <1>6 DEF Session
<1>8. Prefetch(n)
  BY <1>1, <1>7 DEF Prefetch
<1>9. CorrectTimeOffset(m, id) = n
  BY <1>2, <1>4, <1>6 DEF CorrectTimeOffset
<1> QED BY <1>1, <1>7, <1>8, <1>9 DEF Kept, Sound

LEMMA OnlySaltIs ==
    ASSUME NEW x \in Nat
    PROVE  OnlySalt(x) \in Salts /\ OnlySalt(x) # <<>>
<1>1. PICK e : e = [salt |-> x, since |-> 0]
  OBVIOUS
<1>2. e \in [salt : Nat, since : Int]
  BY <1>1
<1>3. OnlySalt(x) = <<e>>
  BY <1>1 DEF OnlySalt
<1> QED BY <1>2, <1>3 DEF Salts

(* Fields of a message of Telegram *)
LEMMA MessageFields ==
    ASSUME NEW m \in Message
    PROVE  /\ m.id \in Nat /\ m.id > 0
           /\ m.kind \in {"result", "detailed", "bad", "salts"} => m.of \in Nat
           /\ m.kind \in {"bad", "session"} => m.salt \in Nat
           /\ m.kind = "salts" => m.now \in Nat /\ m.salts \in Salts
           /\ m.kind = "container" => m.parts \in Seq(Single)
           /\ m.kind # "container" => m \in Single
<1>1. CASE m \in Single
  BY <1>1 DEF Single, MsgIds
<1>2. CASE m \in [kind : {"container"}, id : MsgIds, parts : Seq(Single)]
  BY <1>2 DEF MsgIds
<1> QED BY <1>1, <1>2 DEF Message

(* What a message does to the session leaves the window alone *)
LEMMA NotifiedIs ==
    ASSUME TypeClocks, NEW m, Sound(m), NEW message \in Message, message.kind = "bad", NEW fresh \in BOOLEAN
    PROVE  LET n == Notified(m, message, fresh) IN Kept(n, m) /\ n.acks = m.acks
<1>1. message.id \in Nat /\ message.of \in Nat /\ message.salt \in Nat
  BY MessageFields
<1>2. PICK f : f = FailSaltRequest(m, message.of)
  OBVIOUS
<1>3. Kept(f, m) /\ f.acks = m.acks
  BY <1>1, <1>2, FailSaltRequestIs
<1>4. f \in Session /\ f.salts # <<>> /\ Prefetch(f) /\ Sound(f) /\ f.window = m.window /\ f.floor = m.floor
  BY <1>3 DEF Kept, Sound
<1>5. PICK n : n = Notified(m, message, fresh)
  OBVIOUS
<1>6. CASE n = f
  BY <1>3, <1>5, <1>6
<1>7. CASE n = [f EXCEPT !.salts = OnlySalt(message.salt), !.saltRequest = None]
  <2>1. PICK o : o = OnlySalt(message.salt)
    OBVIOUS
  <2>2. o \in Salts /\ o # <<>>
    BY <1>1, <2>1, OnlySaltIs
  <2>3. /\ n \in Session /\ n.salts = o /\ n.saltRequest = None /\ n.acks = f.acks
        /\ n.window = f.window /\ n.floor = f.floor
    BY <1>4, <1>7, <2>1, <2>2 DEF Session
  <2> QED BY <1>3, <1>4, <1>5, <2>2, <2>3 DEF Kept, Sound, Prefetch
<1>8. CASE n = CorrectTimeOffset(f, message.id)
  <2>1. Kept(n, f) /\ n.acks = f.acks
    BY <1>1, <1>4, <1>8, CorrectTimeOffsetIs
  <2> QED BY <1>3, <1>4, <1>5, <2>1 DEF Kept
<1>9. ASSUME NEW s \in Nat, n = [f EXCEPT !.seq = s]
      PROVE  Kept(n, m) /\ n.acks = m.acks
  <2>1. /\ n \in Session /\ n.salts = f.salts /\ n.saltRequest = f.saltRequest /\ n.acks = f.acks
        /\ n.window = f.window /\ n.floor = f.floor /\ n.saltFailures = f.saltFailures
    BY <1>4, <1>9 DEF Session
  <2> QED BY <1>3, <1>4, <2>1 DEF Kept, Sound, Prefetch
<1>10. f.seq \in Nat
  BY <1>4, SessionFields
<1>11. f.seq + 64 \in Nat /\ Bigger(f.seq - 16, 0) \in Nat
  BY <1>10 DEF Bigger
<1>12. \/ n = f
       \/ n = [f EXCEPT !.salts = OnlySalt(message.salt), !.saltRequest = None]
       \/ n = CorrectTimeOffset(f, message.id)
       \/ n = [f EXCEPT !.seq = f.seq + 64]
       \/ n = [f EXCEPT !.seq = Bigger(f.seq - 16, 0)]
  BY <1>2, <1>5 DEF Notified
<1> QED BY <1>5, <1>6, <1>7, <1>8, <1>9, <1>11, <1>12

LEMMA SaltedIs ==
    ASSUME TypeClocks, NEW m, Sound(m), NEW message \in Message, message.kind = "salts", NEW fresh \in BOOLEAN
    PROVE  LET n == Salted(m, message, fresh) IN Kept(n, m) /\ n.acks = m.acks
<1>1. message.of \in Nat /\ message.now \in Nat /\ message.salts \in Salts
  BY MessageFields
<1>2. m \in Session /\ m.salts # <<>> /\ Prefetch(m)
  BY DEF Sound
<1>3. PICK f : f = IF m.saltRequest = message.of THEN [m EXCEPT !.saltRequest = None] ELSE m
  OBVIOUS
<1>4. /\ f \in Session /\ f.salts = m.salts /\ f.acks = m.acks /\ f.window = m.window /\ f.floor = m.floor
      /\ f.saltFailures = m.saltFailures /\ f.saltRequest = IF m.saltRequest = message.of THEN None ELSE m.saltRequest
  BY <1>2, <1>3 DEF Session
<1>5. PICK n : n = Salted(m, message, fresh)
  OBVIOUS
<1>6. CASE ~fresh \/ message.salts = <<>>
  <2>1. PICK k : k = IF m.saltRequest = message.of THEN f.saltFailures + 1 ELSE f.saltFailures
    OBVIOUS
  <2>2. n = [f EXCEPT !.saltFailures = k]
    BY <1>3, <1>5, <1>6, <2>1 DEF Salted
  <2>3. message.of # None
    BY <1>1 DEF None
  <2>4. m.saltFailures \in 0 .. 4 /\ (m.saltRequest # None => m.saltFailures <= 3)
    BY <1>2, SessionFields DEF Prefetch
  <2>5. k \in 0 .. 4 /\ (f.saltRequest # None => k <= 3)
    BY <1>4, <2>1, <2>3, <2>4
  <2>6. /\ n \in Session /\ n.salts = f.salts /\ n.acks = f.acks /\ n.window = f.window /\ n.floor = f.floor
        /\ n.saltFailures = k /\ n.saltRequest = f.saltRequest
    BY <1>4, <2>2, <2>5 DEF Session
  <2> QED BY <1>2, <1>4, <1>5, <2>5, <2>6 DEF Kept, Sound, Prefetch
<1>7. CASE ~(~fresh \/ message.salts = <<>>)
  <2>1. PICK t : t = <<message.now, time>>
    OBVIOUS
  <2>2. t \in Seq(Nat)
    BY <1>1, <2>1 DEF TypeClocks
  <2>3. n = [f EXCEPT !.salts = message.salts, !.saltTime = t, !.saltFailures = 0]
    BY <1>3, <1>5, <1>7, <2>1 DEF Salted
  <2>4. /\ n \in Session /\ n.salts = message.salts /\ n.acks = f.acks /\ n.window = f.window
        /\ n.floor = f.floor /\ n.saltFailures = 0
    <3>1. PICK s : s = message.salts
      OBVIOUS
    <3>2. PICK z : z = 0
      OBVIOUS
    <3>3. s \in Salts /\ z \in 0 .. 4 /\ f \in Session
      BY <1>1, <1>4, <3>1, <3>2
    <3>4. n = [f EXCEPT !.salts = s, !.saltTime = t, !.saltFailures = z]
      BY <2>3, <3>1, <3>2
    <3>5. /\ n \in Session /\ n.salts = s /\ n.acks = f.acks /\ n.window = f.window
          /\ n.floor = f.floor /\ n.saltFailures = z
      BY ONLY <2>2, <3>3, <3>4 DEF Session
    <3> QED BY <3>1, <3>2, <3>5
  <2> QED BY <1>4, <1>5, <1>7, <2>4 DEF Kept, Sound, Prefetch
<1> QED BY <1>6, <1>7


(* The session after a message that needs no more room than there is *)
LEMMA HandledIs ==
    ASSUME TypeClocks, NEW m, Sound(m), NEW message \in Message, NEW fresh \in BOOLEAN
    PROVE  LET n == Handled(m, message, fresh)
           IN  /\ Kept(n, m)
               /\ IF message.kind = "detailed" THEN n.acks = Append(m.acks, message.of) ELSE n.acks = m.acks
<1>1. PICK n : n = Handled(m, message, fresh)
  OBVIOUS
<1>2. CASE message.kind = "result"
  <2>1. n = FailSaltRequest(m, message.of) /\ message.of \in Nat
    BY <1>1, <1>2, MessageFields DEF Handled
  <2> QED BY <1>1, <1>2, <2>1, FailSaltRequestIs
<1>3. CASE message.kind = "bad"
  <2>1. n = Notified(m, message, fresh)
    BY <1>1, <1>3 DEF Handled
  <2> QED BY <1>1, <1>3, <2>1, NotifiedIs
<1>4. CASE message.kind = "salts"
  <2>1. n = Salted(m, message, fresh)
    BY <1>1, <1>4 DEF Handled
  <2> QED BY <1>1, <1>4, <2>1, SaltedIs
<1>5. CASE message.kind = "session"
  <2>1. PICK o : o = OnlySalt(message.salt)
    OBVIOUS
  <2>2. n = [m EXCEPT !.salts = o] /\ o \in Salts /\ o # <<>>
    BY <1>1, <1>5, <2>1, MessageFields, OnlySaltIs DEF Handled
  <2>3. m \in Session /\ Prefetch(m)
    BY DEF Sound
  <2>4. /\ n \in Session /\ n.salts = o /\ n.acks = m.acks /\ n.window = m.window /\ n.floor = m.floor
        /\ n.saltFailures = m.saltFailures /\ n.saltRequest = m.saltRequest
    BY <2>2, <2>3 DEF Session
  <2> QED BY <1>1, <1>5, <2>2, <2>3, <2>4 DEF Kept, Sound, Prefetch
<1>6. CASE message.kind = "detailed"
  <2>1. n = QueueAck(m, message.of) /\ message.of \in Nat
    BY <1>1, <1>6, MessageFields DEF Handled
  <2> QED BY <1>1, <1>6, <2>1, QueueAckIs
<1>7. CASE message.kind \notin {"result", "bad", "salts", "session", "detailed"}
  <2>1. n = m
    BY <1>1, <1>7 DEF Handled
  <2> QED BY <1>1, <1>7, <2>1 DEF Kept
<1> QED BY <1>2, <1>3, <1>4, <1>5, <1>6, <1>7

(* Acknowledgements that are queued or were acknowledged in a packet *)
LEMMA AckedIs ==
    ASSUME NEW m, Sound(m), NEW message \in Message
    PROVE  LET n == Acked(m, message)
           IN  /\ Kept(n, m)
               /\ IF NeedsAck(message) THEN n.acks = Append(m.acks, message.id) ELSE n.acks = m.acks
<1>1. CASE NeedsAck(message)
  BY <1>1, MessageFields, QueueAckIs DEF Acked
<1>2. CASE ~NeedsAck(message)
  BY <1>2 DEF Acked, Kept
<1> QED BY <1>1, <1>2

(* An identifier at the end of a sequence *)
LEMMA AppendSet ==
    ASSUME NEW S, NEW s \in Seq(S), NEW x \in S
    PROVE  /\ Append(s, x) \in Seq(S) /\ Len(Append(s, x)) = Len(s) + 1
           /\ x \in ToSet(Append(s, x)) /\ ToSet(s) \subseteq ToSet(Append(s, x))
<1>1. PICK t : t = Append(s, x)
  OBVIOUS
<1>2. /\ t \in Seq(S) /\ Len(t) = Len(s) + 1 /\ t[Len(s) + 1] = x /\ \A i \in 1 .. Len(s) : t[i] = s[i]
  BY <1>1, AppendProperties
<1>3. /\ Len(s) \in Nat /\ DOMAIN s = 1 .. Len(s) /\ DOMAIN t = 1 .. Len(s) + 1
  BY <1>2, LenProperties
<1>4. ToSet(s) = {s[i] : i \in 1 .. Len(s)} /\ ToSet(t) = {t[i] : i \in 1 .. Len(s) + 1}
  BY <1>3 DEF ToSet
<1>5. x \in ToSet(t)
  <2>1. Len(s) + 1 \in 1 .. Len(s) + 1
    BY <1>3
  <2> QED BY <1>2, <1>4, <2>1
<1>6. ASSUME NEW y \in ToSet(s) PROVE y \in ToSet(t)
  <2>1. PICK i \in 1 .. Len(s) : y = s[i]
    BY <1>4
  <2>2. i \in 1 .. Len(s) + 1 /\ t[i] = y
    BY <1>2, <1>3, <2>1
  <2> QED BY <1>4, <2>2
<1> QED BY <1>1, <1>2, <1>5, <1>6

(* What decoding a message does to the session before the window takes note of it *)
Met(m, message, skip, fresh) ==
    IF skip THEN Acked(m, message) ELSE Handled(Acked(m, message), message, fresh)
LEMMA MetIs ==
    ASSUME TypeClocks, Sound(mtp), NEW message \in Message, ~Fails(message), Len(mtp.acks) <= AckLimit,
           NEW skip \in BOOLEAN, NEW fresh \in BOOLEAN
    PROVE  LET n == Met(mtp, message, skip, fresh)
           IN  /\ Kept(n, mtp) /\ Len(n.acks) <= AckLimit /\ ToSet(mtp.acks) \subseteq ToSet(n.acks)
               /\ NeedsAck(message) => message.id \in ToSet(n.acks)
<1>1. PICK a : a = Acked(mtp, message)
  OBVIOUS
<1>2. /\ Kept(a, mtp)
      /\ IF NeedsAck(message) THEN a.acks = Append(mtp.acks, message.id) ELSE a.acks = mtp.acks
  BY <1>1, AckedIs
<1>3. PICK n : n = Met(mtp, message, skip, fresh)
  OBVIOUS
<1>4. n = a \/ n = Handled(a, message, fresh)
  BY <1>1, <1>3 DEF Met
<1>5. /\ Kept(n, a)
      /\ n.acks = a.acks \/ (message.kind = "detailed" /\ n.acks = Append(a.acks, message.of))
  <2>1. CASE n = a
    BY <1>2, <2>1 DEF Kept
  <2>2. CASE n = Handled(a, message, fresh)
    BY <1>2, <2>2, HandledIs DEF Kept
  <2> QED BY <1>4, <2>1, <2>2
<1>6. Kept(n, mtp)
  BY <1>2, <1>5 DEF Kept
<1>7. mtp.acks \in Seq(Nat) /\ Len(mtp.acks) \in Nat /\ AckLimit \in Nat
  BY SessionFields, Limits DEF Sound
<1>8. message.id \in Nat /\ (message.kind = "detailed" => message.of \in Nat)
  BY MessageFields
<1>9. CASE NeedsAck(message)
  <2>1. message.kind # "detailed" /\ Len(mtp.acks) < AckLimit
    BY <1>7, <1>9 DEF NeedsAck, Fails
  <2>2. n.acks = Append(mtp.acks, message.id)
    BY <1>2, <1>5, <1>9, <2>1
  <2> QED BY <1>3, <1>6, <1>7, <1>8, <2>1, <2>2, AppendSet
<1>10. CASE ~NeedsAck(message) /\ message.kind = "detailed"
  <2>1. Len(mtp.acks) < AckLimit
    BY <1>7, <1>10 DEF Fails
  <2>2. n.acks = mtp.acks \/ n.acks = Append(mtp.acks, message.of)
    BY <1>2, <1>5, <1>10
  <2>3. Len(n.acks) <= AckLimit /\ ToSet(mtp.acks) \subseteq ToSet(n.acks)
    <3>1. CASE n.acks = mtp.acks
      BY <3>1
    <3>2. CASE n.acks = Append(mtp.acks, message.of)
      <4>1. message.of \in Nat
        BY <1>8, <1>10
      <4> QED BY <1>7, <2>1, <3>2, <4>1, AppendSet
    <3> QED BY <2>2, <3>1, <3>2
  <2> QED BY <1>3, <1>6, <1>10, <2>3
<1>11. CASE ~NeedsAck(message) /\ message.kind # "detailed"
  <2>1. n.acks = mtp.acks
    BY <1>2, <1>5, <1>11
  <2> QED BY <1>3, <1>6, <1>11, <2>1
<1> QED BY <1>9, <1>10, <1>11


-----------------------------------------------------------------------------
(* Operators on a packet *)

GoodPacket(p) ==
    /\ p \in [messages : Seq(Framable), size : 0 .. MaxSize, full : BOOLEAN]
    /\ Len(p.messages) <= MaxMessages

(* Messages with another one at the end *)
Longer(t, s, message) ==
    /\ t \in Seq(Framable) /\ Len(t) = Len(s) + 1
    /\ HasSalts(t) => HasSalts(s) \/ message.kind = "salts"
    /\ AcksIn(s) \subseteq AcksIn(t)
    /\ message.kind = "ack" => ToSet(message.ids) \subseteq AcksIn(t)

LEMMA AppendIs ==
    ASSUME NEW s \in Seq(Framable), NEW message \in Framable
    PROVE  Longer(Append(s, message), s, message)
<1>1. PICK t : t = Append(s, message)
  OBVIOUS
<1>2. PICK k : k = Len(s) + 1
  OBVIOUS
<1>3. /\ t \in Seq(Framable) /\ Len(t) = k /\ t[k] = message /\ \A i \in 1 .. Len(s) : t[i] = s[i]
  BY <1>1, <1>2, AppendProperties
<1>4. /\ Len(s) \in Nat /\ DOMAIN s = 1 .. Len(s) /\ DOMAIN t = 1 .. k
  BY <1>3, LenProperties
<1>5. ASSUME HasSalts(t) PROVE HasSalts(s) \/ message.kind = "salts"
  <2>1. PICK i \in 1 .. k : t[i].kind = "salts"
    BY <1>4, <1>5 DEF HasSalts
  <2>2. CASE i = k
    BY <1>3, <2>1, <2>2
  <2>3. CASE i # k
    <3>1. i \in 1 .. Len(s)
      BY <1>2, <1>4, <2>3
    <3>2. s[i].kind = "salts"
      BY <1>3, <2>1, <3>1
    <3> QED BY <1>4, <3>1, <3>2 DEF HasSalts
  <2> QED BY <2>2, <2>3
<1>6. ASSUME NEW x \in AcksIn(s) PROVE x \in AcksIn(t)
  <2>1. PICK i \in DOMAIN s : s[i].kind = "ack" /\ x \in ToSet(s[i].ids)
    BY <1>6 DEF AcksIn
  <2>2. i \in 1 .. Len(s) /\ i \in 1 .. k
    BY <1>2, <1>4, <2>1
  <2>3. i \in DOMAIN t /\ t[i] = s[i]
    BY <1>3, <1>4, <2>2
  <2> QED BY <2>1, <2>3 DEF AcksIn
<1>7. ASSUME message.kind = "ack", NEW x \in ToSet(message.ids) PROVE x \in AcksIn(t)
  <2>1. k \in DOMAIN t
    BY <1>2, <1>4
  <2> QED BY <1>3, <1>7, <2>1 DEF AcksIn
<1>8. Len(t) = Len(s) + 1
  BY <1>2, <1>3
<1>9. Longer(t, s, message)
  BY <1>3, <1>5, <1>6, <1>7, <1>8 DEF Longer
<1> QED BY <1>1, <1>9

LEMMA FramedIs ==
    ASSUME NEW p, GoodPacket(p), NEW message \in Framable, NEW length \in Nat, Fits(p, length)
    PROVE  LET q == Framed(p, message, length)
           IN  GoodPacket(q) /\ q.full = p.full /\ Longer(q.messages, p.messages, message)
<1>1. /\ p \in [messages : Seq(Framable), size : 0 .. MaxSize, full : BOOLEAN]
      /\ Len(p.messages) < MaxMessages /\ p.size + 1 + length <= MaxSize
  BY DEF GoodPacket, Fits
<1>2. PICK t : t = Append(p.messages, message)
  OBVIOUS
<1>3. p.messages \in Seq(Framable) /\ Len(p.messages) \in Nat
  BY <1>1, LenProperties
<1>4. Longer(t, p.messages, message)
  BY <1>2, <1>3, AppendIs
<1>5. t \in Seq(Framable) /\ Len(t) = Len(p.messages) + 1
  BY <1>4 DEF Longer
<1>6. PICK z : z = p.size + 1 + length
  OBVIOUS
<1>7. z \in 0 .. MaxSize
  BY <1>1, <1>6, Limits
<1>8. PICK q : q = [p EXCEPT !.messages = t, !.size = z]
  OBVIOUS
<1>9. q \in [messages : Seq(Framable), size : 0 .. MaxSize, full : BOOLEAN] /\ q.messages = t /\ q.full = p.full
  BY <1>1, <1>5, <1>7, <1>8
<1>10. Len(t) <= MaxMessages
  BY <1>1, <1>3, <1>5, Limits
<1>11. Framed(p, message, length) = q
  BY <1>2, <1>6, <1>8 DEF Framed
<1> QED BY <1>4, <1>9, <1>10, <1>11 DEF GoodPacket

LEMMA AckCountIs ==
    ASSUME NEW p, GoodPacket(p), NEW m \in Session, CanAck(p, m)
    PROVE  AckCount(p, m) \in 1 .. Len(m.acks) /\ Fits(p, 1 + AckCount(p, m))
<1>1. PICK room : room = MaxSize - p.size - 2
  OBVIOUS
<1>2. room \in Int
  BY <1>1, Limits DEF GoodPacket
<1>3. PICK l : l = Len(m.acks)
  OBVIOUS
<1>4. l \in Nat
  BY <1>3, SessionFields
<1>5. PICK a : a = IF l < MaxAcks THEN l ELSE MaxAcks
  OBVIOUS
<1>6. AckCount(p, m) = IF a < room THEN a ELSE room
  BY <1>1, <1>3, <1>5 DEF AckCount
<1>7. AckCount(p, m) > 0 /\ Fits(p, 1 + AckCount(p, m))
  BY DEF CanAck
<1> QED BY <1>2, <1>3, <1>4, <1>5, <1>6, <1>7, Limits

(* The two parts of a sequence *)
LEMMA SplitSet ==
    ASSUME NEW S, NEW s \in Seq(S), NEW n \in 1 .. Len(s)
    PROVE  LET a == SubSeq(s, 1, n)
               b == SubSeq(s, n + 1, Len(s))
           IN  /\ a \in Seq(S) /\ b \in Seq(S) /\ Len(b) <= Len(s)
               /\ ToSet(s) \subseteq ToSet(a) \cup ToSet(b)
<1>1. PICK l : l = Len(s)
  OBVIOUS
<1>2. l \in Nat /\ n \in 1 .. l /\ DOMAIN s = 1 .. l /\ \A i \in 1 .. l : s[i] \in S
  BY <1>1, LenProperties, ElementOfSeq
<1>3. PICK a : a = SubSeq(s, 1, n)
  OBVIOUS
<1>4. a \in Seq(S) /\ Len(a) = n /\ \A i \in 1 .. n : a[i] = s[i]
  <2>1. n \in Int /\ 1 \in Int /\ \A i \in 1 .. n : s[i] \in S
    BY <1>2
  <2>2. /\ SubSeq(s, 1, n) \in Seq(S) /\ Len(SubSeq(s, 1, n)) = IF 1 <= n THEN n - 1 + 1 ELSE 0
        /\ \A i \in 1 .. n - 1 + 1 : SubSeq(s, 1, n)[i] = s[1 + i - 1]
    BY ONLY <2>1, SubSeqProperties
  <2>3. \A i \in 1 .. n : 1 + i - 1 = i /\ i \in 1 .. n - 1 + 1
    BY <1>2
  <2> QED BY <1>2, <1>3, <2>2, <2>3
<1>5. PICK c : c = SubSeq(s, n + 1, l)
  OBVIOUS
<1>6. c \in Seq(S) /\ Len(c) = l - n /\ \A i \in 1 .. l - n : c[i] = s[n + i]
  <2>1. n + 1 \in Int /\ l \in Int /\ \A i \in n + 1 .. l : s[i] \in S
    BY <1>2
  <2>2. /\ SubSeq(s, n + 1, l) \in Seq(S)
        /\ Len(SubSeq(s, n + 1, l)) = IF n + 1 <= l THEN l - (n + 1) + 1 ELSE 0
        /\ \A i \in 1 .. l - (n + 1) + 1 : SubSeq(s, n + 1, l)[i] = s[n + 1 + i - 1]
    BY ONLY <2>1, SubSeqProperties
  <2>3. \A i \in 1 .. l - n : n + 1 + i - 1 = n + i /\ i \in 1 .. l - (n + 1) + 1
    BY <1>2
  <2>4. n \in Nat /\ l \in Nat /\ n <= l
    BY <1>2
  <2> QED BY ONLY <1>5, <2>2, <2>3, <2>4
<1>7. DOMAIN a = 1 .. n /\ DOMAIN c = 1 .. l - n
  BY <1>4, <1>6, LenProperties
<1>8. ASSUME NEW x \in ToSet(s) PROVE x \in ToSet(a) \cup ToSet(c)
  <2>1. PICK i \in 1 .. l : x = s[i]
    BY <1>2, <1>8 DEF ToSet
  <2>2. CASE i <= n
    <3>1. i \in 1 .. n
      BY <1>2, <2>2
    <3>2. i \in DOMAIN a /\ a[i] = x
      BY <1>4, <1>7, <2>1, <3>1
    <3> QED BY <3>2 DEF ToSet
  <2>3. CASE ~(i <= n)
    <3>1. PICK j : j = i - n
      OBVIOUS
    <3>2. j \in 1 .. l - n /\ n + j = i
      BY <1>2, <2>3, <3>1
    <3>3. j \in DOMAIN c /\ c[j] = x
      BY <1>6, <1>7, <2>1, <3>2
    <3> QED BY <3>3 DEF ToSet
  <2> QED BY <2>2, <2>3
<1>9. Len(c) <= l
  BY <1>2, <1>6
<1> QED BY <1>1, <1>3, <1>4, <1>5, <1>6, <1>8, <1>9


(* A packet and a session of which nothing was lost: what waited to be acknowledged still
   waits or is acknowledged in the packet *)
Packed(q, n, p, m) ==
    /\ GoodPacket(q) /\ q.full = p.full /\ (HasSalts(q.messages) => HasSalts(p.messages))
    /\ Kept(n, m) /\ Len(n.acks) <= AckLimit
    /\ AcksIn(p.messages) \subseteq AcksIn(q.messages)
    /\ ToSet(m.acks) \subseteq ToSet(n.acks) \cup AcksIn(q.messages)

LEMMA AfterAckIs ==
    ASSUME TypeClocks, NEW p, GoodPacket(p), NEW m, Sound(m), Len(m.acks) <= AckLimit, CanAck(p, m)
    PROVE  Packed(AfterAck(p, m).packet, AfterAck(p, m).mtp, p, m)
<1>1. m \in Session /\ m.acks \in Seq(Nat) /\ Len(m.acks) \in Nat /\ m.old \in BOOLEAN /\ m.flush \in BOOLEAN
  BY SessionFields DEF Sound
<1>2. PICK n : n = AckCount(p, m)
  OBVIOUS
<1>3. n \in 1 .. Len(m.acks) /\ Fits(p, 1 + n)
  BY <1>1, <1>2, AckCountIs
<1>4. PICK a : a = SubSeq(m.acks, 1, n)
  OBVIOUS
<1>5. PICK rest : rest = SubSeq(m.acks, n + 1, Len(m.acks))
  OBVIOUS
<1>6. /\ a \in Seq(Nat) /\ rest \in Seq(Nat) /\ Len(rest) <= Len(m.acks)
      /\ ToSet(m.acks) \subseteq ToSet(a) \cup ToSet(rest)
  BY <1>1, <1>3, <1>4, <1>5, SplitSet
<1>7. PICK message : message = [kind |-> "ack", id |-> NewMsgId(m), ids |-> a]
  OBVIOUS
<1>8. message \in Framable /\ message.kind = "ack" /\ message.ids = a
  <2>1. NewMsgId(m) \in Nat
    BY <1>1, NewMsgIdIs
  <2> QED BY <1>6, <1>7, <2>1 DEF Framable
<1>9. PICK q : q = Framed(p, message, 1 + n)
  OBVIOUS
<1>10. GoodPacket(q) /\ q.full = p.full /\ Longer(q.messages, p.messages, message)
  <2>1. 1 + n \in Nat
    BY <1>1, <1>3
  <2> QED BY <1>3, <1>8, <1>9, <2>1, FramedIs
<1>11. PICK d : d = Advanced(m, FALSE)
  OBVIOUS
<1>12. Kept(d, m) /\ d.acks = m.acks
  BY <1>11, AdvancedIs
<1>13. d \in Session /\ Prefetch(d) /\ d.salts # <<>> /\ d.window = m.window /\ d.floor = m.floor
  BY <1>12 DEF Kept, Sound
<1>14. d.old \in BOOLEAN /\ d.flush \in BOOLEAN
  BY <1>13, SessionFields
<1>15. PICK o \in BOOLEAN : o = (d.old /\ rest # <<>>)
  OBVIOUS
<1>16. PICK f \in BOOLEAN : f = (d.flush /\ rest # <<>>)
  OBVIOUS
<1>17. PICK e : e = [d EXCEPT !.acks = rest, !.old = o, !.flush = f]
  OBVIOUS
<1>18. /\ e \in Session /\ e.acks = rest /\ e.salts = d.salts /\ e.saltRequest = d.saltRequest
       /\ e.saltFailures = d.saltFailures /\ e.window = d.window /\ e.floor = d.floor
  BY <1>6, <1>13, <1>17 DEF Session
<1>19. Kept(e, m)
  BY <1>13, <1>18 DEF Kept, Sound, Prefetch
<1>20. AfterAck(p, m).packet = q /\ AfterAck(p, m).mtp = e
  BY <1>2, <1>4, <1>5, <1>7, <1>9, <1>11, <1>15, <1>16, <1>17 DEF AfterAck
<1>21. Len(e.acks) <= AckLimit
  <2>1. Len(rest) \in Nat
    BY <1>6, LenProperties
  <2> QED BY <1>1, <1>6, <1>18, <2>1, Limits
<1>22. /\ HasSalts(q.messages) => HasSalts(p.messages)
       /\ AcksIn(p.messages) \subseteq AcksIn(q.messages) /\ ToSet(a) \subseteq AcksIn(q.messages)
  BY <1>8, <1>10 DEF Longer
<1>23. ToSet(m.acks) \subseteq ToSet(e.acks) \cup AcksIn(q.messages)
  BY <1>6, <1>18, <1>22
<1>24. Packed(q, e, p, m)
  BY <1>10, <1>19, <1>21, <1>22, <1>23 DEF Packed
<1> QED BY <1>20, <1>24

(* Acknowledgements join a packet or do not *)
LEMMA PackedIs ==
    ASSUME TypeClocks, NEW p, GoodPacket(p), NEW m, Sound(m), Len(m.acks) <= AckLimit,
           NEW joins \in BOOLEAN, joins => CanAck(p, m),
           NEW a, a = IF joins THEN AfterAck(p, m) ELSE [packet |-> p, mtp |-> m]
    PROVE  Packed(a.packet, a.mtp, p, m)
<1>1. CASE joins
  BY <1>1, AfterAckIs
<1>2. CASE ~joins
  <2>1. a.packet = p /\ a.mtp = m
    BY <1>2
  <2> QED BY <2>1 DEF Packed, Kept
<1> QED BY <1>1, <1>2


-----------------------------------------------------------------------------
(* Framing *)

LEMMA InvParts ==
    ASSUME Inv
    PROVE  /\ TypeClocks /\ TypeSession /\ TypeRequest /\ TypePacket /\ TypeWire /\ TypeTelegram
           /\ TypeDecoding /\ Turns /\ Prefetch(mtp) /\ SaltPacket /\ SaltRequestAlone
           /\ Issued /\ Opened /\ Recognised /\ Aged /\ AcksKept
           /\ Sound(mtp) /\ GoodPacket(packet) /\ Len(mtp.acks) <= AckLimit
<1>1. /\ TypeClocks /\ TypeSession /\ TypeRequest /\ TypePacket /\ TypeWire /\ TypeTelegram
      /\ TypeDecoding /\ Turns /\ Prefetch(mtp) /\ SaltPacket /\ SaltRequestAlone
      /\ Issued /\ Opened /\ Recognised /\ Aged /\ AcksKept
  BY DEF Inv, TypeOK
<1>2. Sound(mtp) /\ Len(mtp.acks) <= AckLimit
  BY <1>1 DEF TypeSession, Sound
<1>3. GoodPacket(packet)
  BY <1>1 DEF TypePacket, GoodPacket
<1> QED BY <1>1, <1>2, <1>3

(* What holds of the messages and of the window when neither they nor it change *)
LEMMA Undisturbed ==
    ASSUME Inv, Kept(mtp', mtp), Len(mtp.acks)' <= AckLimit,
           out' = out, server' = server, pending' = pending, got' = got, open' = open
    PROVE  TypeSession' /\ Prefetch(mtp)' /\ TypeTelegram' /\ Issued' /\ Opened' /\ Recognised' /\ Aged'
<1>1. mtp' \in Session /\ mtp'.salts # <<>> /\ Prefetch(mtp') /\ mtp'.window = mtp.window /\ mtp'.floor = mtp.floor
  BY DEF Kept, Sound
<1>2. TypeSession /\ TypeTelegram /\ Issued /\ Opened /\ Recognised /\ Aged
  BY InvParts
<1>3. TypeSession'
  BY <1>1, <1>2 DEF TypeSession
<1>4. Prefetch(mtp)'
  BY <1>1 DEF Prefetch
<1>5. TypeTelegram' /\ Issued'
  BY <1>2 DEF TypeTelegram, Issued
<1>6. Opened'
  BY <1>1, <1>2 DEF Opened
<1>7. Recognised'
  BY <1>1, <1>2 DEF Recognised, UpdatesOnce
<1>8. Aged'
  BY <1>1, <1>2 DEF Aged, Old
<1> QED BY <1>3, <1>4, <1>5, <1>6, <1>7, <1>8

(* A step of framing that loses no acknowledgement *)
Reframes ==
    /\ Kept(mtp', mtp) /\ Len(mtp'.acks) <= AckLimit /\ GoodPacket(packet') /\ SaltPacket'
    /\ ToSet(mtp.acks) \cup AcksIn(packet.messages) \subseteq ToSet(mtp'.acks) \cup AcksIn(packet'.messages)

LEMMA PushSalts ==
    ASSUME Inv, NEW m, m = NextSalt(mtp), WantsSalts(packet, m),
           packet' = [Framed(packet, [kind |-> "salts", id |-> NewMsgId(m)], 1) EXCEPT !.full = TRUE],
           mtp' = [Advanced(m, TRUE) EXCEPT !.saltRequest = NewMsgId(m)]
    PROVE  Reframes
<1>1. TypeClocks /\ Sound(mtp) /\ GoodPacket(packet) /\ Len(mtp.acks) <= AckLimit
  BY InvParts
<1>2. Kept(m, mtp) /\ m.acks = mtp.acks
  BY <1>1, NextSaltIs
<1>3. Sound(m) /\ m.window = mtp.window /\ m.floor = mtp.floor
  BY <1>2 DEF Kept
<1>4. packet.messages = <<>> /\ m.saltFailures <= 3 /\ Fits(packet, 1)
  BY DEF WantsSalts
<1>5. PICK l : l = NewMsgId(m)
  OBVIOUS
<1>6. l \in Nat
  BY <1>1, <1>3, <1>5, NewMsgIdIs DEF Sound
<1>7. PICK d : d = Advanced(m, TRUE)
  OBVIOUS
<1>8. /\ Kept(d, m) /\ d.acks = m.acks /\ d.last = l /\ d.salts = m.salts /\ d.saltFailures = m.saltFailures
  BY <1>1, <1>3, <1>5, <1>7, AdvancedIs
<1>9. d \in Session /\ d.salts # <<>> /\ d.window = m.window /\ d.floor = m.floor
  BY <1>8 DEF Kept, Sound
<1>10. PICK n : n = [d EXCEPT !.saltRequest = l]
  OBVIOUS
<1>11. /\ n \in Session /\ n.acks = d.acks /\ n.last = d.last /\ n.salts = d.salts /\ n.saltRequest = l
       /\ n.saltFailures = d.saltFailures /\ n.window = d.window /\ n.floor = d.floor
  BY <1>6, <1>9, <1>10 DEF Session
<1>12. mtp' = n
  BY <1>5, <1>7, <1>10
<1>13. Kept(n, mtp) /\ n.acks = mtp.acks /\ n.saltRequest = n.last
  BY <1>2, <1>3, <1>4, <1>8, <1>9, <1>11 DEF Kept, Sound, Prefetch
<1>14. PICK message : message = [kind |-> "salts", id |-> l]
  OBVIOUS
<1>15. message \in Framable /\ message.kind = "salts"
  BY <1>6, <1>14 DEF Framable
<1>16. PICK q : q = Framed(packet, message, 1)
  OBVIOUS
<1>17. GoodPacket(q) /\ Longer(q.messages, packet.messages, message)
  BY <1>1, <1>4, <1>15, <1>16, FramedIs
<1>18. packet' = [q EXCEPT !.full = TRUE]
  BY <1>5, <1>14, <1>16
<1>19. GoodPacket(packet') /\ packet'.full = TRUE /\ packet'.messages = q.messages
  BY <1>17, <1>18 DEF GoodPacket
<1>20. Len(q.messages) = 1 /\ AcksIn(packet.messages) \subseteq AcksIn(q.messages)
  <2>1. Len(packet.messages) = 0
    BY <1>4
  <2> QED BY <1>17, <2>1 DEF Longer
<1>21. SaltPacket'
  BY <1>12, <1>13, <1>19, <1>20 DEF SaltPacket
<1> QED BY <1>1, <1>12, <1>13, <1>19, <1>20, <1>21 DEF Reframes

LEMMA PushRequest ==
    ASSUME Inv, NEW m, m = NextSalt(mtp), ~packet.full,
           NEW q, NEW n, Packed(q, n, packet, m), Fits(q, budget.size),
           packet' = Framed(q, [kind |-> "request", id |-> NewMsgId(n)], budget.size),
           mtp' = [Advanced(n, TRUE) EXCEPT !.deferred = FALSE]
    PROVE  Reframes /\ NewMsgId(n) \in Nat
<1>1. TypeClocks /\ Sound(mtp) /\ GoodPacket(packet) /\ SaltPacket
  BY InvParts
<1>2. Kept(m, mtp) /\ m.acks = mtp.acks
  BY <1>1, NextSaltIs
<1>3. /\ GoodPacket(q) /\ (HasSalts(q.messages) => HasSalts(packet.messages))
      /\ Kept(n, m) /\ Len(n.acks) <= AckLimit
      /\ AcksIn(packet.messages) \subseteq AcksIn(q.messages)
      /\ ToSet(m.acks) \subseteq ToSet(n.acks) \cup AcksIn(q.messages)
  BY DEF Packed
<1>4. Sound(n) /\ n.window = mtp.window /\ n.floor = mtp.floor
  BY <1>2, <1>3 DEF Kept
<1>5. PICK l : l = NewMsgId(n)
  OBVIOUS
<1>6. l \in Nat
  BY <1>1, <1>4, <1>5, NewMsgIdIs DEF Sound
<1>7. PICK d : d = Advanced(n, TRUE)
  OBVIOUS
<1>8. /\ Kept(d, n) /\ d.acks = n.acks
  BY <1>1, <1>4, <1>7, AdvancedIs
<1>9. d \in Session /\ d.salts # <<>> /\ Prefetch(d) /\ d.window = n.window /\ d.floor = n.floor
  BY <1>8 DEF Kept, Sound
<1>10. PICK e : e = [d EXCEPT !.deferred = FALSE]
  OBVIOUS
<1>11. /\ e \in Session /\ e.acks = d.acks /\ e.salts = d.salts /\ e.saltRequest = d.saltRequest
       /\ e.saltFailures = d.saltFailures /\ e.window = d.window /\ e.floor = d.floor
  BY <1>9, <1>10 DEF Session
<1>12. mtp' = e
  BY <1>7, <1>10
<1>13. Kept(e, mtp) /\ e.acks = n.acks
  BY <1>4, <1>8, <1>9, <1>11 DEF Kept, Sound, Prefetch
<1>14. PICK message : message = [kind |-> "request", id |-> l]
  OBVIOUS
<1>15. message \in Framable /\ message.kind = "request"
  BY <1>6, <1>14 DEF Framable
<1>16. budget.size \in Nat
  BY <1>1 DEF TypeClocks, Budget
<1>17. packet' = Framed(q, message, budget.size)
  BY <1>5, <1>14
<1>18. GoodPacket(packet') /\ Longer(packet'.messages, q.messages, message)
  BY <1>3, <1>15, <1>16, <1>17, FramedIs
<1>19. ~HasSalts(packet'.messages) /\ AcksIn(q.messages) \subseteq AcksIn(packet'.messages)
  BY <1>1, <1>3, <1>15, <1>18 DEF Longer, SaltPacket
<1>20. SaltPacket'
  BY <1>19 DEF SaltPacket
<1>21. ToSet(mtp.acks) \cup AcksIn(packet.messages) \subseteq ToSet(mtp'.acks) \cup AcksIn(packet'.messages)
  BY <1>2, <1>3, <1>12, <1>13, <1>19
<1> QED BY <1>3, <1>5, <1>6, <1>12, <1>13, <1>18, <1>20, <1>21 DEF Reframes

LEMMA PushRefused ==
    ASSUME Inv, NEW m, m = NextSalt(mtp), ~packet.full,
           NEW q, NEW n, Packed(q, n, packet, m), NEW wrote \in BOOLEAN,
           packet' = [q EXCEPT !.full = TRUE],
           mtp' = [n EXCEPT !.deferred = @ \/ wrote]
    PROVE  Reframes
<1>1. TypeClocks /\ Sound(mtp) /\ SaltPacket
  BY InvParts
<1>2. Kept(m, mtp) /\ m.acks = mtp.acks
  BY <1>1, NextSaltIs
<1>3. /\ GoodPacket(q) /\ (HasSalts(q.messages) => HasSalts(packet.messages))
      /\ Kept(n, m) /\ Len(n.acks) <= AckLimit
      /\ AcksIn(packet.messages) \subseteq AcksIn(q.messages)
      /\ ToSet(m.acks) \subseteq ToSet(n.acks) \cup AcksIn(q.messages)
  BY DEF Packed
<1>4. n \in Session /\ n.salts # <<>> /\ Prefetch(n) /\ n.window = mtp.window /\ n.floor = mtp.floor
  BY <1>2, <1>3 DEF Kept, Sound
<1>5. PICK b \in BOOLEAN : b = (n.deferred \/ wrote)
  OBVIOUS
<1>6. PICK e : e = [n EXCEPT !.deferred = b]
  OBVIOUS
<1>7. mtp' = e
  BY <1>5, <1>6
<1>8. /\ e \in Session /\ e.acks = n.acks /\ e.salts = n.salts /\ e.saltRequest = n.saltRequest
      /\ e.saltFailures = n.saltFailures /\ e.window = n.window /\ e.floor = n.floor
  BY <1>4, <1>6 DEF Session
<1>9. Kept(e, mtp)
  BY <1>4, <1>8 DEF Kept, Sound, Prefetch
<1>10. GoodPacket(packet') /\ packet'.messages = q.messages
  BY <1>3 DEF GoodPacket
<1>11. ~HasSalts(packet'.messages)
  BY <1>1, <1>3, <1>10 DEF SaltPacket
<1>12. SaltPacket'
  BY <1>11 DEF SaltPacket
<1>13. ToSet(mtp.acks) \cup AcksIn(packet.messages) \subseteq ToSet(mtp'.acks) \cup AcksIn(packet'.messages)
  BY <1>2, <1>3, <1>7, <1>8, <1>10
<1> QED BY <1>3, <1>7, <1>8, <1>9, <1>10, <1>12, <1>13 DEF Reframes


LEMMA PushReframes ==
    ASSUME Inv, NEW r \in Requests, Push(r)
    PROVE  /\ Reframes /\ TypeRequest'
           /\ ~Decoding /\ UNCHANGED <<time, skew, wire, out, pending, server, got, acked, open, budget>>
<1>1. TypeClocks /\ Sound(mtp) /\ GoodPacket(packet) /\ Len(mtp.acks) <= AckLimit /\ TypeRequest
  BY InvParts
<1>2. PICK m : m = NextSalt(mtp)
  OBVIOUS
<1>3. Kept(m, mtp) /\ m.acks = mtp.acks /\ Sound(m)
  BY <1>1, <1>2, NextSaltIs DEF Kept
<1>4. PICK wrote \in BOOLEAN : wrote = (~m.deferred /\ AckDue(m) /\ CanAck(packet, m))
  OBVIOUS
<1>5. PICK a : a = IF wrote THEN AfterAck(packet, m) ELSE [packet |-> packet, mtp |-> m]
  OBVIOUS
<1>6. Packed(a.packet, a.mtp, packet, m)
  <2>1. wrote => CanAck(packet, m)
    BY <1>4
  <2> QED BY <1>1, <1>3, <1>5, <2>1, PackedIs
<1>7. /\ ~Decoding /\ ~packet.full
      /\ UNCHANGED <<time, skew, wire, out, pending, server, got, acked, open, budget>>
  BY DEF Push
<1>8. \/ /\ WantsSalts(packet, m)
         /\ packet' = [Framed(packet, [kind |-> "salts", id |-> NewMsgId(m)], 1) EXCEPT !.full = TRUE]
         /\ mtp' = [Advanced(m, TRUE) EXCEPT !.saltRequest = NewMsgId(m)]
         /\ UNCHANGED request
      \/ /\ Fits(a.packet, budget.size)
         /\ packet' = Framed(a.packet, [kind |-> "request", id |-> NewMsgId(a.mtp)], budget.size)
         /\ mtp' = [Advanced(a.mtp, TRUE) EXCEPT !.deferred = FALSE]
         /\ request' = [request EXCEPT ![r] = [where |-> "framed", id |-> NewMsgId(a.mtp), outer |-> None]]
      \/ /\ packet' = [a.packet EXCEPT !.full = TRUE]
         /\ mtp' = [a.mtp EXCEPT !.deferred = @ \/ wrote]
         /\ UNCHANGED request
  BY <1>2, <1>4, <1>5 DEF Push
<1>9. CASE /\ WantsSalts(packet, m)
           /\ packet' = [Framed(packet, [kind |-> "salts", id |-> NewMsgId(m)], 1) EXCEPT !.full = TRUE]
           /\ mtp' = [Advanced(m, TRUE) EXCEPT !.saltRequest = NewMsgId(m)]
           /\ UNCHANGED request
  <2>1. Reframes
    BY <1>2, <1>9, PushSalts
  <2>2. TypeRequest'
    BY <1>1, <1>9 DEF TypeRequest
  <2> QED BY <1>7, <2>1, <2>2
<1>10. CASE /\ Fits(a.packet, budget.size)
            /\ packet' = Framed(a.packet, [kind |-> "request", id |-> NewMsgId(a.mtp)], budget.size)
            /\ mtp' = [Advanced(a.mtp, TRUE) EXCEPT !.deferred = FALSE]
            /\ request' = [request EXCEPT ![r] = [where |-> "framed", id |-> NewMsgId(a.mtp), outer |-> None]]
  <2>1. Reframes /\ NewMsgId(a.mtp) \in Nat
    BY <1>2, <1>6, <1>7, <1>10, PushRequest
  <2>2. PICK e : e = [where |-> "framed", id |-> NewMsgId(a.mtp), outer |-> None]
    OBVIOUS
  <2>3. e \in [where : {"queued", "framed", "sent", "done"}, id : Nat \cup {None}, outer : Nat \cup {None}]
    BY <2>1, <2>2
  <2>4. request' = [request EXCEPT ![r] = e]
    BY <1>10, <2>2
  <2>5. TypeRequest'
    BY <1>1, <2>3, <2>4 DEF TypeRequest
  <2> QED BY <1>7, <2>1, <2>5
<1>11. CASE /\ packet' = [a.packet EXCEPT !.full = TRUE]
            /\ mtp' = [a.mtp EXCEPT !.deferred = @ \/ wrote]
            /\ UNCHANGED request
  <2>1. Reframes
    BY <1>2, <1>6, <1>7, <1>11, PushRefused
  <2>2. TypeRequest'
    BY <1>1, <1>11 DEF TypeRequest
  <2> QED BY <1>7, <2>1, <2>2
<1> QED BY <1>8, <1>9, <1>10, <1>11

LEMMA PushKeeps ==
    ASSUME Inv, NEW r \in Requests, Push(r)
    PROVE  Inv'
<1>1. /\ TypeClocks /\ TypeWire /\ TypeDecoding /\ SaltRequestAlone /\ AcksKept
  BY InvParts
<1>2. /\ Reframes /\ TypeRequest' /\ ~Decoding
      /\ UNCHANGED <<time, skew, wire, out, pending, server, got, acked, open, budget>>
  BY PushReframes
<1>3. /\ Kept(mtp', mtp) /\ Len(mtp'.acks) <= AckLimit /\ GoodPacket(packet') /\ SaltPacket'
      /\ ToSet(mtp.acks) \cup AcksIn(packet.messages) \subseteq ToSet(mtp'.acks) \cup AcksIn(packet'.messages)
  BY <1>2 DEF Reframes
<1>4. TypeSession' /\ Prefetch(mtp)' /\ TypeTelegram' /\ Issued' /\ Opened' /\ Recognised' /\ Aged'
  BY <1>2, <1>3, Undisturbed
<1>5. TypeClocks' /\ TypeWire' /\ TypeDecoding' /\ SaltRequestAlone'
  BY <1>1, <1>2 DEF TypeClocks, TypeWire, TypeDecoding, SaltRequestAlone
<1>6. TypePacket'
  BY <1>3 DEF TypePacket, GoodPacket
<1>7. Turns'
  BY <1>2 DEF Turns, Decoding
<1>8. AcksKept'
  <2>1. out' = out /\ got' = got /\ acked' = acked
    BY <1>2
  <2> QED BY <1>1, <1>3, <2>1 DEF AcksKept, NeedsAck
<1> QED BY <1>2, <1>3, <1>4, <1>5, <1>6, <1>7, <1>8 DEF Inv, TypeOK

(* on_service_timeout and the age of acknowledgements *)
LEMMA TimerKeeps ==
    ASSUME Inv, AcksAge \/ OnServiceTimeout
    PROVE  Inv'
<1>1. /\ TypeClocks /\ TypeRequest /\ TypePacket /\ TypeWire /\ TypeDecoding /\ Turns /\ SaltPacket
      /\ SaltRequestAlone /\ AcksKept /\ Sound(mtp) /\ Len(mtp.acks) <= AckLimit
  BY InvParts
<1>2. UNCHANGED <<time, skew, packet, request, wire, out, pending, server, got, acked, open, budget>>
  BY DEF AcksAge, OnServiceTimeout
<1>3. mtp' = [mtp EXCEPT !.old = TRUE] \/ mtp' = [mtp EXCEPT !.flush = TRUE]
  BY DEF AcksAge, OnServiceTimeout
<1>4. mtp \in Session /\ mtp.salts # <<>> /\ Prefetch(mtp)
  BY <1>1 DEF Sound
<1>5. /\ mtp' \in Session /\ mtp'.acks = mtp.acks /\ mtp'.salts = mtp.salts /\ mtp'.last = mtp.last
      /\ mtp'.saltRequest = mtp.saltRequest /\ mtp'.saltFailures = mtp.saltFailures
      /\ mtp'.window = mtp.window /\ mtp'.floor = mtp.floor
  BY <1>3, <1>4 DEF Session
<1>6. Kept(mtp', mtp)
  BY <1>4, <1>5 DEF Kept, Sound, Prefetch
<1>7. TypeSession' /\ Prefetch(mtp)' /\ TypeTelegram' /\ Issued' /\ Opened' /\ Recognised' /\ Aged'
  BY <1>1, <1>2, <1>5, <1>6, Undisturbed
<1>8. TypeClocks' /\ TypeRequest' /\ TypePacket' /\ TypeWire' /\ TypeDecoding' /\ SaltRequestAlone' /\ Turns'
  BY <1>1, <1>2 DEF TypeClocks, TypeRequest, TypePacket, TypeWire, TypeDecoding, SaltRequestAlone, Turns
<1>9. SaltPacket'
  BY <1>1, <1>2, <1>5 DEF SaltPacket
<1>10. AcksKept'
  BY <1>1, <1>2, <1>5 DEF AcksKept, NeedsAck
<1> QED BY <1>7, <1>8, <1>9, <1>10 DEF Inv, TypeOK


LEMMA AcksInNat ==
    ASSUME NEW s \in Seq(Framable)
    PROVE  AcksIn(s) \subseteq Nat
<1> SUFFICES ASSUME NEW x \in AcksIn(s) PROVE x \in Nat
  OBVIOUS
<1>1. PICK i \in DOMAIN s : s[i].kind = "ack" /\ x \in ToSet(s[i].ids)
  BY DEF AcksIn
<1>2. s[i] \in Framable
  BY <1>1, ElementOfSeq, LenProperties
<1>3. PICK t : t = s[i].ids
  OBVIOUS
<1>4. t \in Seq(Nat)
  BY <1>1, <1>2, <1>3 DEF Framable
<1>5. PICK j \in DOMAIN t : x = t[j]
  BY <1>1, <1>3 DEF ToSet
<1> QED BY <1>4, <1>5, ElementOfSeq, LenProperties

LEMMA CurrentSaltIs ==
    ASSUME NEW m, Sound(m)
    PROVE  CurrentSalt(m) \in Nat
<1>1. PICK s : s = m.salts
  OBVIOUS
<1>2. s \in Seq([salt : Nat, since : Int]) /\ s # <<>>
  BY <1>1, SessionFields DEF Sound
<1>3. 1 \in 1 .. Len(s)
  BY <1>2, LenProperties, EmptySeq
<1>4. s[1] \in [salt : Nat, since : Int]
  BY <1>2, <1>3, ElementOfSeq
<1> QED BY <1>1, <1>4 DEF CurrentSalt

(* What is put on the wire *)
LEMMA FinalizeSeals ==
    ASSUME Inv, Finalize
    PROVE  \E m, messages :
             /\ Kept(m, mtp) /\ Len(m.acks) <= AckLimit
             /\ messages \in Seq(Framable) /\ Len(messages) \in 1 .. MaxMessages
             /\ HasSalts(messages) => Len(messages) = 1
             /\ ToSet(mtp.acks) \cup AcksIn(packet.messages) \subseteq ToSet(m.acks) \cup AcksIn(messages)
             /\ mtp' = m /\ packet' = NoPacket /\ acked' = acked \cup AcksIn(messages)
             /\ wire' = Append(wire, [id |-> m.last, salt |-> CurrentSalt(m), messages |-> messages])
             /\ request' = [r \in Requests |-> IF request[r].where # "framed" THEN request[r]
                                               ELSE [request[r] EXCEPT !.where = "sent", !.outer = m.last]]
<1>1. TypeClocks /\ Sound(mtp) /\ GoodPacket(packet) /\ Len(mtp.acks) <= AckLimit /\ SaltPacket
  BY InvParts
<1>2. PICK joins \in BOOLEAN :
        joins = /\ ~SaltOnly /\ AckDue(mtp)
                /\ mtp.flush \/ packet.messages # <<>> \/ Len(mtp.acks) >= MaxAcks \/ mtp.old
                /\ CanAck(packet, mtp)
  OBVIOUS
<1>3. joins => ~SaltOnly /\ CanAck(packet, mtp)
  BY <1>2
<1>4. PICK a : a = IF joins THEN AfterAck(packet, mtp) ELSE [packet |-> packet, mtp |-> mtp]
  OBVIOUS
<1>5. PICK q : q = a.packet
  OBVIOUS
<1>6. PICK n : n = a.mtp
  OBVIOUS
<1>7. Packed(q, n, packet, mtp)
  BY <1>1, <1>3, <1>4, <1>5, <1>6, PackedIs
<1>8. PICK messages : messages = q.messages
  OBVIOUS
<1>9. PICK m : m = IF Len(messages) > 1 THEN Advanced(n, FALSE) ELSE n
  OBVIOUS
<1>10. /\ GoodPacket(q) /\ (HasSalts(messages) => HasSalts(packet.messages))
       /\ Kept(n, mtp) /\ Len(n.acks) <= AckLimit
       /\ AcksIn(packet.messages) \subseteq AcksIn(messages)
       /\ ToSet(mtp.acks) \subseteq ToSet(n.acks) \cup AcksIn(messages)
  BY <1>7, <1>8 DEF Packed
<1>11. Kept(m, n) /\ m.acks = n.acks
  <2>1. Sound(n)
    BY <1>10 DEF Kept
  <2>2. Kept(n, n)
    BY <2>1 DEF Kept
  <2>3. Kept(Advanced(n, FALSE), n) /\ Advanced(n, FALSE).acks = n.acks
    BY <1>1, <2>1, AdvancedIs
  <2> QED BY <1>9, <2>2, <2>3
<1>12. Kept(m, mtp)
  BY <1>10, <1>11 DEF Kept
<1>13. /\ messages # <<>> /\ mtp' = m /\ packet' = NoPacket /\ acked' = acked \cup AcksIn(messages)
       /\ wire' = Append(wire, [id |-> m.last, salt |-> CurrentSalt(m), messages |-> messages])
       /\ request' = [r \in Requests |-> IF request[r].where # "framed" THEN request[r]
                                         ELSE [request[r] EXCEPT !.where = "sent", !.outer = m.last]]
  BY <1>2, <1>4, <1>5, <1>6, <1>8, <1>9 DEF Finalize
<1>14. messages \in Seq(Framable) /\ Len(messages) <= MaxMessages
  BY <1>8, <1>10 DEF GoodPacket
<1>15. Len(messages) \in 1 .. MaxMessages
  <2>1. messages # <<>>
    BY <1>13
  <2>2. Len(messages) \in Nat /\ Len(messages) # 0
    BY <1>14, <2>1, LenProperties, EmptySeq
  <2> QED BY <1>14, <2>2, Limits
<1>16. HasSalts(messages) => Len(messages) = 1
  <2>1. SUFFICES ASSUME HasSalts(messages) PROVE Len(messages) = 1
    OBVIOUS
  <2>2. Len(packet.messages) = 1 /\ mtp.saltRequest = mtp.last
    BY <1>1, <1>10, <2>1 DEF SaltPacket
  <2>3. ~joins
    BY <1>3, <2>2 DEF SaltOnly
  <2> QED BY <1>4, <1>5, <1>8, <2>2, <2>3
<1>17. ToSet(mtp.acks) \cup AcksIn(packet.messages) \subseteq ToSet(m.acks) \cup AcksIn(messages)
  BY <1>10, <1>11
<1>18. Len(m.acks) <= AckLimit
  BY <1>10, <1>11
<1> QED BY <1>12, <1>13, <1>14, <1>15, <1>16, <1>17, <1>18

LEMMA FinalizeKeeps ==
    ASSUME Inv, Finalize
    PROVE  Inv'
<1>1. /\ TypeClocks /\ TypeRequest /\ TypeWire /\ TypeDecoding /\ SaltRequestAlone /\ AcksKept
  BY InvParts
<1>2. ~Decoding /\ UNCHANGED <<time, skew, out, pending, server, got, open, budget>>
  BY DEF Finalize
<1>3. PICK m, messages :
        /\ Kept(m, mtp) /\ Len(m.acks) <= AckLimit
        /\ messages \in Seq(Framable) /\ Len(messages) \in 1 .. MaxMessages
        /\ HasSalts(messages) => Len(messages) = 1
        /\ ToSet(mtp.acks) \cup AcksIn(packet.messages) \subseteq ToSet(m.acks) \cup AcksIn(messages)
        /\ mtp' = m /\ packet' = NoPacket /\ acked' = acked \cup AcksIn(messages)
        /\ wire' = Append(wire, [id |-> m.last, salt |-> CurrentSalt(m), messages |-> messages])
        /\ request' = [r \in Requests |-> IF request[r].where # "framed" THEN request[r]
                                          ELSE [request[r] EXCEPT !.where = "sent", !.outer = m.last]]
  BY FinalizeSeals
<1>4. TypeSession' /\ Prefetch(mtp)' /\ TypeTelegram' /\ Issued' /\ Opened' /\ Recognised' /\ Aged'
  BY <1>2, <1>3, Undisturbed
<1>5. TypeClocks' /\ Turns'
  BY <1>1, <1>2, <1>3 DEF TypeClocks, Turns
<1>6. m.last \in Nat /\ CurrentSalt(m) \in Nat
  BY <1>3, CurrentSaltIs, SessionFields DEF Kept, Sound
<1>7. TypePacket' /\ SaltPacket'
  <2>1. PICK z : z = <<>>
    OBVIOUS
  <2>2. z \in Seq(Framable) /\ Len(z) = 0 /\ DOMAIN z = {}
    BY <2>1
  <2>3. packet' = [messages |-> z, size |-> 0, full |-> FALSE]
    BY <1>3, <2>1 DEF NoPacket
  <2>4. packet'.messages = z
    BY <2>3
  <2>5. packet' \in [messages : Seq(Framable), size : 0 .. MaxSize, full : BOOLEAN]
    BY <2>2, <2>3, Limits
  <2>6. ~HasSalts(packet'.messages)
    BY <2>2, <2>4 DEF HasSalts
  <2> QED BY <2>2, <2>4, <2>5, <2>6, Limits DEF TypePacket, SaltPacket
<1>8. TypeRequest'
  <2>1. \A r \in Requests :
          request[r] \in [where : {"queued", "framed", "sent", "done"}, id : Nat \cup {None}, outer : Nat \cup {None}]
    BY <1>1 DEF TypeRequest
  <2>2. ASSUME NEW r \in Requests
        PROVE  [request[r] EXCEPT !.where = "sent", !.outer = m.last]
                 \in [where : {"queued", "framed", "sent", "done"}, id : Nat \cup {None}, outer : Nat \cup {None}]
    BY <1>6, <2>1
  <2> QED BY <1>3, <2>1, <2>2 DEF TypeRequest
<1>9. TypeDecoding'
  <2>1. AcksIn(messages) \subseteq Nat
    BY <1>3, AcksInNat
  <2> QED BY <1>1, <1>2, <1>3, <2>1 DEF TypeDecoding
<1>10. TypeWire' /\ SaltRequestAlone'
  <2>1. PICK e : e = [id |-> m.last, salt |-> CurrentSalt(m), messages |-> messages]
    OBVIOUS
  <2>2. e \in [id : Nat, salt : Nat, messages : Seq(Framable)] /\ e.messages = messages
    BY <1>3, <1>6, <2>1
  <2>3. PICK k : k = Len(wire) + 1
    OBVIOUS
  <2>4. wire \in Seq([id : Nat, salt : Nat, messages : Seq(Framable)])
    BY <1>1 DEF TypeWire
  <2>5. wire' = Append(wire, e)
    BY <1>3, <2>1
  <2>6. /\ wire' \in Seq([id : Nat, salt : Nat, messages : Seq(Framable)]) /\ Len(wire') = k
        /\ wire'[k] = e /\ \A i \in 1 .. Len(wire) : wire'[i] = wire[i]
    BY <2>2, <2>3, <2>4, <2>5, AppendProperties
  <2>7. DOMAIN wire' = 1 .. k /\ DOMAIN wire = 1 .. Len(wire) /\ Len(wire) \in Nat
    BY <2>4, <2>6, LenProperties
  <2>8. ASSUME NEW i \in DOMAIN wire'
        PROVE  /\ Len(wire'[i].messages) \in 1 .. MaxMessages
               /\ HasSalts(wire'[i].messages) => Len(wire'[i].messages) = 1
    <3>1. CASE i = k
      BY <1>3, <2>2, <2>6, <3>1
    <3>2. CASE i # k
      <4>1. i \in 1 .. Len(wire)
        BY <2>3, <2>7, <3>2
      <4>2. wire'[i] = wire[i] /\ i \in DOMAIN wire
        BY <2>6, <2>7, <4>1
      <4> QED BY <1>1, <4>2 DEF TypeWire, SaltRequestAlone, HasSalts
    <3> QED BY <3>1, <3>2
  <2>9. TypeWire'
    BY <2>6, <2>8 DEF TypeWire
  <2>10. SaltRequestAlone'
    BY <2>8 DEF SaltRequestAlone, HasSalts
  <2> QED BY <2>9, <2>10
<1>11. AcksKept'
  <2>1. out' = out /\ got' = got
    BY <1>2
  <2> QED BY <1>1, <1>3, <2>1 DEF AcksKept, NeedsAck
<1> QED BY <1>4, <1>5, <1>7, <1>8, <1>9, <1>10, <1>11 DEF Inv, TypeOK


-----------------------------------------------------------------------------
(* The clocks, and Telegram *)

(* The client when nothing of it changes *)
LEMMA ClientStill ==
    ASSUME Inv, mtp' = mtp, packet' = packet, request' = request, pending' = pending, acked' = acked,
           open' = open, got'.received = got.received, got'.updates = got.updates,
           got'.lost = got.lost, got'.again = got.again
    PROVE  /\ TypeSession' /\ TypeRequest' /\ TypePacket' /\ Turns' /\ Prefetch(mtp)' /\ SaltPacket'
           /\ Opened' /\ Recognised' /\ Aged'
<1>1. /\ TypeSession /\ TypeRequest /\ TypePacket /\ Turns /\ Prefetch(mtp) /\ SaltPacket
      /\ Opened /\ Recognised /\ Aged
  BY InvParts
<1>2. TypeSession' /\ TypeRequest' /\ TypePacket' /\ Turns' /\ Prefetch(mtp)' /\ SaltPacket'
  BY <1>1 DEF TypeSession, TypeRequest, TypePacket, Turns, Prefetch, SaltPacket
<1>3. Opened'
  BY <1>1 DEF Opened
<1>4. Recognised'
  BY <1>1 DEF Recognised, UpdatesOnce
<1>5. Aged'
  BY <1>1 DEF Aged, Old
<1> QED BY <1>2, <1>3, <1>4, <1>5

LEMMA ClocksKeep ==
    ASSUME Inv, Tick \/ ClockJump
    PROVE  Inv'
<1>1. TypeClocks /\ TypeWire /\ TypeTelegram /\ TypeDecoding /\ SaltRequestAlone /\ Issued /\ AcksKept
  BY InvParts
<1>2. UNCHANGED <<mtp, packet, request, wire, out, pending, server, acked, open>>
  BY DEF Tick, ClockJump
<1>3. /\ got'.received = got.received /\ got'.updates = got.updates /\ got'.lost = got.lost
      /\ got'.again = got.again
      /\ got' \in [received : SUBSET MsgIds, updates : SUBSET MsgIds, again : BOOLEAN,
                   lost : SUBSET MsgIds, corrected : BOOLEAN]
  BY <1>1 DEF Tick, ClockJump, TypeDecoding
<1>4. TypeClocks'
  <2>1. CASE Tick
    <3>1. budget' = [budget EXCEPT !.ticks = @ - 1] /\ budget.ticks > 0 /\ budget \in Budget
      BY <1>1, <2>1 DEF Tick, TypeClocks
    <3>2. budget.ticks - 1 \in Nat
      BY <3>1 DEF Budget
    <3>3. budget' \in Budget
      BY <3>1, <3>2 DEF Budget
    <3> QED BY <1>1, <2>1, <3>3, Limits DEF Tick, TypeClocks
  <2>2. CASE ClockJump
    <3>1. budget' = [budget EXCEPT !.jumps = @ - 1] /\ budget.jumps > 0 /\ budget \in Budget
      BY <1>1, <2>2 DEF ClockJump, TypeClocks
    <3>2. budget.jumps - 1 \in Nat
      BY <3>1 DEF Budget
    <3>3. budget' \in Budget
      BY <3>1, <3>2 DEF Budget
    <3> QED BY <1>1, <2>2, <3>3, Limits DEF ClockJump, TypeClocks
  <2> QED BY <2>1, <2>2
<1>5. /\ TypeSession' /\ TypeRequest' /\ TypePacket' /\ Turns' /\ Prefetch(mtp)' /\ SaltPacket'
      /\ Opened' /\ Recognised' /\ Aged'
  BY <1>2, <1>3, ClientStill
<1>6. TypeWire' /\ TypeTelegram' /\ SaltRequestAlone'
  BY <1>1, <1>2 DEF TypeWire, TypeTelegram, SaltRequestAlone
<1>7. TypeDecoding'
  BY <1>1, <1>2, <1>3 DEF TypeDecoding
<1>8. Issued'
  BY <1>1, <1>2, <1>3 DEF Issued
<1>9. AcksKept'
  BY <1>1, <1>2, <1>3 DEF AcksKept, NeedsAck
<1> QED BY <1>4, <1>5, <1>6, <1>7, <1>8, <1>9 DEF Inv, TypeOK

LEMMA NextIdIs ==
    ASSUME TypeClocks, TypeTelegram
    PROVE  NextId \in Nat /\ NextId > server.last /\ server.last \in Nat
<1>1. server.last \in Nat /\ time \in Nat
  BY DEF TypeClocks, TypeTelegram
<1> QED BY <1>1 DEF NextId, Bigger

(* Telegram sends messages with identifiers of their own that are higher than all before *)
Fresh(new, last) ==
    /\ new \subseteq Message
    /\ \A x \in new : x.id > server.last /\ x.id <= last
    /\ \A x, y \in new : x.id = y.id => x = y
    /\ \A x \in new : x.kind = "container" => \A i \in DOMAIN x.parts : x.parts[i] \in out

LEMMA TelegramKeeps ==
    ASSUME Inv, NEW new, NEW last \in Nat, Fresh(new, last), last >= server.last,
           out' = out \cup new, server'.last = last, server' \in [last : Nat, known : BOOLEAN],
           budget' \in Budget, TypeWire', SaltRequestAlone',
           UNCHANGED <<time, skew, mtp, packet, request, pending, got, acked, open>>
    PROVE  Inv'
<1>1. TypeClocks /\ TypeTelegram /\ TypeDecoding /\ Issued /\ AcksKept
  BY InvParts
<1>2. /\ TypeSession' /\ TypeRequest' /\ TypePacket' /\ Turns' /\ Prefetch(mtp)' /\ SaltPacket'
      /\ Opened' /\ Recognised' /\ Aged'
  BY ClientStill
<1>3. TypeClocks' /\ TypeDecoding'
  BY <1>1 DEF TypeClocks, TypeDecoding
<1>4. /\ new \subseteq Message
      /\ \A x \in new : x.id > server.last /\ x.id <= last
      /\ \A x, y \in new : x.id = y.id => x = y
      /\ \A x \in new : x.kind = "container" => \A i \in DOMAIN x.parts : x.parts[i] \in out
  BY DEF Fresh
<1>5. TypeTelegram'
  BY <1>1, <1>4 DEF TypeTelegram
<1>6. /\ \A x \in out : x.id <= server.last
      /\ \A x, y \in out : x.id = y.id => x = y
      /\ \A x \in out : x.kind = "container" => \A i \in DOMAIN x.parts : x.parts[i] \in out
      /\ \A i \in DOMAIN pending.left : pending.left[i] \in out
      /\ \A y \in got.received : \E x \in out : x.id = y
  BY <1>1 DEF Issued
<1>7. server.last \in Nat /\ \A x \in out \cup new : x.id \in Nat
  BY <1>1, <1>4, MessageFields DEF TypeTelegram
<1>8. ASSUME NEW x \in out' PROVE x.id <= server'.last
  BY <1>4, <1>6, <1>7
<1>9. ASSUME NEW x \in out', NEW y \in out', x.id = y.id PROVE x = y
  <2>1. ASSUME NEW u \in out, NEW v \in new PROVE u.id < v.id
    BY <1>4, <1>6, <1>7, <2>1
  <2>2. ASSUME NEW u \in out, NEW v \in new PROVE u.id # v.id
    BY <1>7, <2>1
  <2> QED BY <1>4, <1>6, <1>9, <2>2
<1>10. ASSUME NEW x \in out', x.kind = "container", NEW i \in DOMAIN x.parts PROVE x.parts[i] \in out'
  BY <1>4, <1>6, <1>10
<1>11. Issued'
  <2>1. \A i \in DOMAIN pending'.left : pending'.left[i] \in out'
    BY <1>6
  <2>2. \A y \in got'.received : \E x \in out' : x.id = y
    BY <1>6
  <2> QED BY <1>8, <1>9, <1>10, <2>1, <2>2 DEF Issued
<1>12. AcksKept'
  <2>1. ASSUME NEW x \in new PROVE x.id \notin got.received
    <3>1. SUFFICES ASSUME x.id \in got.received PROVE FALSE
      OBVIOUS
    <3>2. PICK u \in out : u.id = x.id
      BY <1>6, <3>1
    <3> QED BY <1>4, <1>6, <1>7, <3>2
  <2>2. ASSUME NEW x \in out', NeedsAck(x), x.id \in got.received
        PROVE  x.id \in ToSet(mtp.acks) \cup AcksIn(packet.messages) \cup acked
    BY <1>1, <2>1, <2>2 DEF AcksKept
  <2> QED BY <2>2 DEF AcksKept, NeedsAck
<1> QED BY <1>2, <1>3, <1>5, <1>11, <1>12 DEF Inv, TypeOK


LEMMA SendsKeeps ==
    ASSUME Inv, NEW message \in Message, message.id = NextId, NEW spent \in Budget,
           message.kind = "container" => \A i \in DOMAIN message.parts : message.parts[i] \in out,
           ServerSends(message, spent)
    PROVE  Inv'
<1>1. TypeClocks /\ TypeTelegram /\ TypeWire /\ SaltRequestAlone
  BY InvParts
<1>2. NextId \in Nat /\ NextId > server.last /\ server.last \in Nat
  BY <1>1, NextIdIs
<1>3. /\ out' = out \cup {message} /\ server' = [server EXCEPT !.last = message.id] /\ budget' = spent
      /\ UNCHANGED <<time, skew, mtp, packet, request, wire, pending, got, acked, open>>
  BY DEF ServerSends
<1>4. PICK last : last = NextId
  OBVIOUS
<1>5. server'.last = last /\ server' \in [last : Nat, known : BOOLEAN]
  BY <1>1, <1>2, <1>3, <1>4 DEF TypeTelegram
<1>6. Fresh({message}, last)
  BY <1>2, <1>4 DEF Fresh
<1>7. TypeWire' /\ SaltRequestAlone'
  BY <1>1, <1>3 DEF TypeWire, SaltRequestAlone
<1>8. last \in Nat /\ last >= server.last /\ budget' \in Budget
  BY <1>2, <1>3, <1>4
<1>9. PICK new : new = {message}
  OBVIOUS
<1>10. out' = out \cup new /\ Fresh(new, last)
  BY <1>3, <1>6, <1>9
<1> QED BY <1>3, <1>5, <1>7, <1>8, <1>10, TelegramKeeps

LEMMA ServerMessagesKeep ==
    ASSUME Inv, ServerUpdate \/ ServerContainer \/ ServerService
    PROVE  Inv'
<1>1. TypeClocks /\ TypeTelegram
  BY InvParts
<1>2. NextId \in MsgIds
  BY <1>1, NextIdIs DEF MsgIds
<1>3. budget \in Budget
  BY <1>1 DEF TypeClocks
<1>4. CASE ServerUpdate
  <2>1. PICK x : x = [kind |-> "update", id |-> NextId]
    OBVIOUS
  <2>2. x \in Message /\ x.id = NextId /\ x.kind = "update"
    BY <1>2, <2>1 DEF Message, Single
  <2>3. PICK s : s = [budget EXCEPT !.updates = @ - 1]
    OBVIOUS
  <2>4. s \in Budget
    <3>1. budget.updates - 1 \in Nat
      BY <1>3, <1>4 DEF ServerUpdate, Budget
    <3> QED BY <1>3, <2>3, <3>1 DEF Budget
  <2>5. ServerSends(x, s)
    BY <1>4, <2>1, <2>3 DEF ServerUpdate
  <2> QED BY <2>2, <2>4, <2>5, SendsKeeps
<1>5. CASE ServerContainer
  <2>1. PICK a \in out, b \in out :
          /\ a.kind # "container" /\ b.kind # "container" /\ budget.containers > 0
          /\ ServerSends([kind |-> "container", id |-> NextId, parts |-> <<a, b>>],
                         [budget EXCEPT !.containers = @ - 1])
    BY <1>5 DEF ServerContainer
  <2>2. a \in Single /\ b \in Single
    BY <1>1, <2>1, MessageFields DEF TypeTelegram
  <2>3. PICK t : t = <<a, b>>
    OBVIOUS
  <2>4. t \in Seq(Single) /\ \A i \in DOMAIN t : t[i] \in out
    BY <2>1, <2>2, <2>3
  <2>5. PICK x : x = [kind |-> "container", id |-> NextId, parts |-> t]
    OBVIOUS
  <2>6. x \in Message /\ x.id = NextId /\ x.parts = t
    BY <1>2, <2>4, <2>5 DEF Message
  <2>7. PICK s : s = [budget EXCEPT !.containers = @ - 1]
    OBVIOUS
  <2>8. s \in Budget
    <3>1. budget.containers - 1 \in Nat
      BY <1>3, <2>1 DEF Budget
    <3> QED BY <1>3, <2>7, <3>1 DEF Budget
  <2>9. ServerSends(x, s)
    BY <2>1, <2>3, <2>5, <2>7
  <2> QED BY <2>4, <2>6, <2>8, <2>9, SendsKeeps
<1>6. CASE ServerService
  <2>1. PICK s : s = [budget EXCEPT !.services = @ - 1]
    OBVIOUS
  <2>2. s \in Budget
    <3>1. budget.services - 1 \in Nat
      BY <1>3, <1>6 DEF ServerService, Budget
    <3> QED BY <1>3, <2>1, <3>1 DEF Budget
  <2>3. \/ \E y \in out : ServerSends([kind |-> "detailed", id |-> NextId, of |-> y.id], s)
        \/ ServerSends([kind |-> "invalid", id |-> NextId], s)
    BY <1>6, <2>1 DEF ServerService
  <2>4. ASSUME NEW y \in out, ServerSends([kind |-> "detailed", id |-> NextId, of |-> y.id], s) PROVE Inv'
    <3>1. PICK x : x = [kind |-> "detailed", id |-> NextId, of |-> y.id]
      OBVIOUS
    <3>2. y.id \in Nat
      BY <1>1, MessageFields DEF TypeTelegram
    <3>3. x \in Message /\ x.id = NextId /\ x.kind = "detailed"
      BY <1>2, <3>1, <3>2 DEF Message, Single
    <3>4. ServerSends(x, s)
      BY <2>4, <3>1
    <3> QED BY <2>2, <3>3, <3>4, SendsKeeps
  <2>5. CASE ServerSends([kind |-> "invalid", id |-> NextId], s)
    <3>1. PICK x : x = [kind |-> "invalid", id |-> NextId]
      OBVIOUS
    <3>2. x \in Message /\ x.id = NextId /\ x.kind = "invalid"
      BY <1>2, <3>1 DEF Message, Single
    <3>3. ServerSends(x, s)
      BY <2>5, <3>1
    <3> QED BY <2>2, <3>2, <3>3, SendsKeeps
  <2> QED BY <2>3, <2>4, <2>5
<1> QED BY <1>4, <1>5, <1>6

LEMMA SaltIs ==
    ASSUME TypeClocks
    PROVE  Salt \in Nat /\ Upcoming \in Salts /\ Second(time) \in Nat
<1>1. time \in Nat
  BY DEF TypeClocks
<1>2. PICK d : d = Second(time)
  OBVIOUS
<1>3. d \in Nat
  BY <1>1, <1>2, SecondIs
<1>4. PICK e : e = d \div SaltPeriod
  OBVIOUS
<1>5. e \in Nat
  BY <1>3, <1>4, Limits, Quotient
<1>6. PICK s : s = Salt
  OBVIOUS
<1>7. s \in Nat /\ s >= 1
  BY <1>2, <1>4, <1>5, <1>6 DEF Salt
<1>8. ASSUME NEW i \in 1 .. NumSalts
      PROVE  [salt |-> s + i - 1, since |-> (s + i - 2) * SaltPeriod] \in [salt : Nat, since : Int]
  <2>1. s + i - 1 \in Nat /\ s + i - 2 \in Int /\ SaltPeriod \in Int
    BY <1>7, Limits
  <2>2. (s + i - 2) * SaltPeriod \in Int
    BY <2>1
  <2> QED BY <2>1, <2>2
<1>9. Upcoming = [i \in 1 .. NumSalts |-> [salt |-> s + i - 1, since |-> (s + i - 2) * SaltPeriod]]
  BY <1>6 DEF Upcoming
<1>10. Upcoming \in [1 .. NumSalts -> [salt : Nat, since : Int]]
  BY <1>8, <1>9
<1>11. Upcoming \in Salts
  <2>1. PICK S : S = [salt : Nat, since : Int]
    OBVIOUS
  <2>2. NumSalts \in Nat /\ Upcoming \in [1 .. NumSalts -> S]
    BY <1>10, <2>1, Limits
  <2>3. Upcoming \in Seq(S)
    BY ONLY <2>2, SeqDef
  <2> QED BY <2>1, <2>3 DEF Salts
<1> QED BY <1>2, <1>3, <1>6, <1>7, <1>11

(* An answer, if any, is one message with the given identifier *)
LEMMA AnswerIs ==
    ASSUME TypeClocks, NEW message \in Framable, NEW id \in MsgIds, NEW whim
    PROVE  /\ \A x \in Answer(message, id, whim) : x \in Message /\ x.id = id /\ x.kind # "container"
           /\ \A x, y \in Answer(message, id, whim) : x = y
<1>1. message.id \in Nat
  BY DEF Framable
<1>2. PICK result : result = [kind |-> "result", id |-> id, of |-> message.id]
  OBVIOUS
<1>3. result \in Message /\ result.id = id /\ result.kind = "result"
  BY <1>1, <1>2 DEF Message, Single
<1>4. PICK s : s = IF whim = "empty" THEN <<>> ELSE Upcoming
  OBVIOUS
<1>5. s \in Salts
  <2>1. <<>> \in Salts
    BY DEF Salts
  <2> QED BY <1>4, <2>1, SaltIs
<1>6. PICK salts : salts = [kind |-> "salts", id |-> id, of |-> message.id, now |-> Second(time), salts |-> s]
  OBVIOUS
<1>7. salts \in Message /\ salts.id = id /\ salts.kind = "salts"
  BY <1>1, <1>5, <1>6, SaltIs DEF Message, Single
<1>8. Answer(message, id, whim) = {} \/ Answer(message, id, whim) = {result} \/ Answer(message, id, whim) = {salts}
  <2>1. CASE message.kind = "request"
    BY <1>2, <2>1 DEF Answer
  <2>2. CASE message.kind = "salts"
    <3>1. Answer(message, id, whim) = {IF whim = "error" THEN result ELSE salts}
      BY <1>2, <1>4, <1>6, <2>2 DEF Answer
    <3> QED BY <3>1
  <2>3. CASE message.kind \notin {"request", "salts"}
    BY <2>3 DEF Answer
  <2> QED BY <2>1, <2>2, <2>3
<1> QED BY <1>3, <1>7, <1>8


(* What Telegram sends when it takes a packet *)
LEMMA AnswersFresh ==
    ASSUME Inv, NEW messages \in Seq(Framable), NEW whim, NEW answers,
           answers = (IF server.known THEN {} ELSE {[kind |-> "session", id |-> NextId, salt |-> Salt]})
                       \cup UNION {Answer(messages[i], NextId + i, whim) : i \in DOMAIN messages}
    PROVE  Fresh(answers, NextId + Len(messages))
<1>1. TypeClocks /\ TypeTelegram
  BY InvParts
<1>2. PICK b : b = NextId
  OBVIOUS
<1>3. b \in Nat /\ b > server.last /\ server.last \in Nat
  BY <1>1, <1>2, NextIdIs
<1>4. PICK n : n = Len(messages)
  OBVIOUS
<1>5. n \in Nat /\ DOMAIN messages = 1 .. n /\ \A i \in 1 .. n : messages[i] \in Framable
  BY <1>4, LenProperties, ElementOfSeq
<1>6. PICK greeting : greeting = [kind |-> "session", id |-> b, salt |-> Salt]
  OBVIOUS
<1>7. greeting \in Message /\ greeting.id = b /\ greeting.kind = "session"
  <2>1. b \in MsgIds /\ Salt \in Nat
    BY <1>1, <1>3, SaltIs DEF MsgIds
  <2> QED BY <1>6, <2>1 DEF Message, Single
<1>8. ASSUME NEW x \in answers
      PROVE  x = greeting \/ \E i \in 1 .. n : x \in Answer(messages[i], b + i, whim)
  BY <1>2, <1>5, <1>6
<1>9. ASSUME NEW i \in 1 .. n
      PROVE  /\ \A x \in Answer(messages[i], b + i, whim) : x \in Message /\ x.id = b + i /\ x.kind # "container"
             /\ \A x, y \in Answer(messages[i], b + i, whim) : x = y
  <2>1. b + i \in MsgIds
    BY <1>3, <1>5 DEF MsgIds
  <2>2. messages[i] \in Framable
    BY <1>5
  <2> QED BY <1>1, <2>1, <2>2, AnswerIs
<1>10. ASSUME NEW x \in answers
       PROVE  x \in Message /\ x.id > server.last /\ x.id <= b + n /\ x.kind # "container"
  <2>1. CASE x = greeting
    BY <1>3, <1>5, <1>7, <2>1
  <2>2. ASSUME NEW i \in 1 .. n, x \in Answer(messages[i], b + i, whim)
        PROVE  x \in Message /\ x.id > server.last /\ x.id <= b + n /\ x.kind # "container"
    <3>1. x \in Message /\ x.id = b + i /\ x.kind # "container"
      BY <1>9, <2>2
    <3> QED BY <1>3, <1>5, <3>1
  <2> QED BY <1>8, <2>1, <2>2
<1>11. ASSUME NEW x \in answers, NEW y \in answers, x.id = y.id PROVE x = y
  <2>1. ASSUME NEW i \in 1 .. n, NEW u \in Answer(messages[i], b + i, whim) PROVE u.id = b + i
    BY <1>9
  <2>2. CASE x = greeting
    <3>1. ASSUME NEW i \in 1 .. n, y \in Answer(messages[i], b + i, whim) PROVE FALSE
      <4>1. y.id = b + i
        BY <2>1, <3>1
      <4>2. x.id = b
        BY <1>7, <2>2
      <4> QED BY <1>3, <1>5, <1>11, <4>1, <4>2
    <3> QED BY <1>8, <2>2, <3>1
  <2>3. ASSUME NEW i \in 1 .. n, x \in Answer(messages[i], b + i, whim) PROVE x = y
    <3>1. x.id = b + i
      BY <2>1, <2>3
    <3>2. CASE y = greeting
      <4>1. y.id = b
        BY <1>7, <3>2
      <4>2. b + i = b
        BY <1>11, <3>1, <4>1
      <4> QED BY <1>3, <1>5, <4>2
    <3>3. ASSUME NEW j \in 1 .. n, y \in Answer(messages[j], b + j, whim) PROVE x = y
      <4>1. y.id = b + j
        BY <2>1, <3>3
      <4>2. b + i = b + j
        BY <1>11, <3>1, <4>1
      <4>3. i = j
        BY <1>3, <1>5, <4>2
      <4> QED BY <1>9, <2>3, <3>3, <4>3
    <3> QED BY <1>8, <3>2, <3>3
  <2> QED BY <1>8, <2>2, <2>3
<1>12. Fresh(answers, b + n)
  BY <1>10, <1>11 DEF Fresh
<1> QED BY <1>2, <1>4, <1>12

LEMMA ServerReceivesKeeps ==
    ASSUME Inv, ServerReceives
    PROVE  Inv'
<1>1. TypeClocks /\ TypeTelegram /\ TypeWire /\ SaltRequestAlone
  BY InvParts
<1>2. /\ wire # <<>> /\ wire' = Tail(wire)
      /\ UNCHANGED <<time, skew, mtp, packet, request, pending, got, acked, open>>
  BY DEF ServerReceives
<1>3. wire \in Seq([id : Nat, salt : Nat, messages : Seq(Framable)])
  BY <1>1 DEF TypeWire
<1>4. PICK p : p = Head(wire)
  OBVIOUS
<1>5. /\ p \in [id : Nat, salt : Nat, messages : Seq(Framable)]
      /\ wire' \in Seq([id : Nat, salt : Nat, messages : Seq(Framable)])
      /\ Len(wire') = Len(wire) - 1 /\ \A i \in 1 .. Len(wire') : wire'[i] = wire[i + 1]
  BY <1>2, <1>3, <1>4, HeadTailProperties
<1>6. TypeWire' /\ SaltRequestAlone'
  <2>1. DOMAIN wire = 1 .. Len(wire) /\ Len(wire) \in Nat /\ DOMAIN wire' = 1 .. Len(wire')
    BY <1>3, <1>5, LenProperties
  <2>2. ASSUME NEW i \in DOMAIN wire' PROVE \E k \in DOMAIN wire : wire'[i] = wire[k]
    <3>1. i + 1 \in DOMAIN wire /\ wire'[i] = wire[i + 1]
      <4>1. i \in 1 .. Len(wire') /\ Len(wire') = Len(wire) - 1
        BY <1>5, <2>1
      <4>2. i + 1 \in 1 .. Len(wire)
        BY <2>1, <4>1
      <4> QED BY <1>5, <2>1, <4>1, <4>2
    <3> QED BY <3>1
  <2>3. TypeWire'
    BY <1>1, <1>5, <2>2 DEF TypeWire
  <2>4. SaltRequestAlone'
    BY <1>1, <2>2 DEF SaltRequestAlone
  <2> QED BY <2>3, <2>4
<1>7. PICK b : b = NextId
  OBVIOUS
<1>8. b \in Nat /\ b > server.last /\ server.last \in Nat
  BY <1>1, <1>7, NextIdIs
<1>9. PICK whim, code, answers :
        /\ whim \in Whims
        /\ code = IF Refusal(p) # 0 THEN Refusal(p)
                  ELSE IF whim = "low" THEN 32 ELSE IF whim = "high" THEN 33 ELSE 0
        /\ answers = (IF server.known THEN {} ELSE {[kind |-> "session", id |-> NextId, salt |-> Salt]})
                       \cup UNION {Answer(p.messages[i], NextId + i, whim) : i \in DOMAIN p.messages}
        /\ out' = out \cup (IF code = 0 THEN answers
                            ELSE {[kind |-> "bad", id |-> NextId, of |-> p.id, code |-> code, salt |-> Salt]})
        /\ server' = [last |-> IF code = 0 THEN NextId + Len(p.messages) ELSE NextId,
                      known |-> server.known \/ code = 0]
        /\ budget' = IF whim = "none" THEN budget ELSE [budget EXCEPT !.whims = @ - 1]
  <2>1. PICK whim \in Whims :
          LET code == IF Refusal(Head(wire)) # 0 THEN Refusal(Head(wire))
                      ELSE IF whim = "low" THEN 32 ELSE IF whim = "high" THEN 33 ELSE 0
              greeting == IF server.known THEN {} ELSE {[kind |-> "session", id |-> NextId, salt |-> Salt]}
              answers == greeting \cup UNION {Answer(Head(wire).messages[i], NextId + i, whim) :
                                              i \in DOMAIN Head(wire).messages}
          IN  /\ out' = out \cup (IF code = 0 THEN answers
                                  ELSE {[kind |-> "bad", id |-> NextId, of |-> Head(wire).id, code |-> code,
                                         salt |-> Salt]})
              /\ server' = [last |-> IF code = 0 THEN NextId + Len(Head(wire).messages) ELSE NextId,
                            known |-> server.known \/ code = 0]
              /\ budget' = IF whim = "none" THEN budget ELSE [budget EXCEPT !.whims = @ - 1]
    BY DEF ServerReceives
  <2>2. PICK code : code = IF Refusal(p) # 0 THEN Refusal(p)
                           ELSE IF whim = "low" THEN 32 ELSE IF whim = "high" THEN 33 ELSE 0
    OBVIOUS
  <2>3. PICK answers : answers = (IF server.known THEN {} ELSE {[kind |-> "session", id |-> NextId, salt |-> Salt]})
                         \cup UNION {Answer(p.messages[i], NextId + i, whim) : i \in DOMAIN p.messages}
    OBVIOUS
  <2>4. /\ out' = out \cup (IF code = 0 THEN answers
                            ELSE {[kind |-> "bad", id |-> NextId, of |-> p.id, code |-> code, salt |-> Salt]})
        /\ server' = [last |-> IF code = 0 THEN NextId + Len(p.messages) ELSE NextId,
                      known |-> server.known \/ code = 0]
        /\ budget' = IF whim = "none" THEN budget ELSE [budget EXCEPT !.whims = @ - 1]
    BY <1>4, <2>1, <2>2, <2>3
  <2> QED BY <2>2, <2>3, <2>4
<1>10. budget' \in Budget
  <2>1. budget \in Budget
    BY <1>1 DEF TypeClocks
  <2>2. CASE whim = "none"
    BY <1>9, <2>1, <2>2
  <2>3. CASE whim # "none"
    <3>1. budget.whims > 0
      BY <1>9, <2>3 DEF Whims
    <3>2. budget.whims - 1 \in Nat
      BY <2>1, <3>1 DEF Budget
    <3> QED BY <1>9, <2>1, <2>3, <3>2 DEF Budget
  <2> QED BY <2>2, <2>3
<1>11. PICK n : n = Len(p.messages)
  OBVIOUS
<1>12. p.messages \in Seq(Framable) /\ n \in Nat
  BY <1>5, <1>11, LenProperties
<1>13. CASE code = 0
  <2>1. PICK last : last = b + n
    OBVIOUS
  <2>2. last \in Nat /\ last >= server.last
    BY <1>8, <1>12, <2>1
  <2>3. Fresh(answers, last)
    BY <1>7, <1>9, <1>11, <1>12, <2>1, AnswersFresh
  <2>4. out' = out \cup answers /\ server' = [last |-> last, known |-> TRUE]
    BY <1>7, <1>9, <1>11, <1>13, <2>1
  <2>5. server'.last = last /\ server' \in [last : Nat, known : BOOLEAN]
    BY <2>2, <2>4
  <2> QED BY <1>2, <1>6, <1>10, <2>2, <2>3, <2>4, <2>5, TelegramKeeps
<1>14. CASE code # 0
  <2>1. PICK x : x = [kind |-> "bad", id |-> b, of |-> p.id, code |-> code, salt |-> Salt]
    OBVIOUS
  <2>2. PICK new : new = {x}
    OBVIOUS
  <2>3. code \in Nat
    BY <1>9 DEF Refusal
  <2>4. x \in Message /\ x.id = b /\ x.kind = "bad"
    <3>1. b \in MsgIds /\ Salt \in Nat /\ p.id \in Nat
      BY <1>1, <1>5, <1>8, SaltIs DEF MsgIds
    <3> QED BY <2>1, <2>3, <3>1 DEF Message, Single
  <2>5. Fresh(new, b)
    BY <1>8, <2>2, <2>4 DEF Fresh
  <2>6. out' = out \cup new /\ server'.last = b
    BY <1>7, <1>9, <1>14, <2>1, <2>2
  <2>7. server' \in [last : Nat, known : BOOLEAN]
    <3>1. server' = [last |-> b, known |-> server.known \/ code = 0]
      BY <1>7, <1>9, <1>14
    <3>2. PICK k \in BOOLEAN : k = (server.known \/ code = 0)
      OBVIOUS
    <3> QED BY <1>8, <3>1, <3>2
  <2>8. b \in Nat /\ b >= server.last
    BY <1>8
  <2> QED BY <1>2, <1>6, <1>10, <2>5, <2>6, <2>7, <2>8, TelegramKeeps
<1> QED BY <1>13, <1>14


-----------------------------------------------------------------------------
(* Age *)

(* What is old stays old, and what is lower is old too *)
LEMMA OldGrows ==
    ASSUME NEW R, NEW T, R \subseteq T, T \subseteq Nat, IsFiniteSet(T), NEW x \in Int, NEW z \in Int, z <= x,
           Old(R, x)
    PROVE  Old(T, z)
<1>1. CASE \E y \in R : y - x > MaxAge
  <2>1. PICK y \in R : y - x > MaxAge
    BY <1>1
  <2>2. y \in Nat /\ y \in T /\ MaxAge \in Nat
    BY <2>1, Window
  <2>3. y - z > MaxAge
    BY <2>1, <2>2
  <2> QED BY <2>2, <2>3 DEF Old
<1>2. CASE Cardinality({y \in R : y > x}) >= Capacity
  <2>1. PICK A : A = {y \in R : y > x}
    OBVIOUS
  <2>2. PICK B : B = {y \in T : y > z}
    OBVIOUS
  <2>3. ASSUME NEW y \in A PROVE y \in B
    <3>1. y \in R /\ y > x
      BY <2>1, <2>3
    <3>2. y \in T /\ y \in Nat
      BY <3>1
    <3>3. y > z
      BY <3>1, <3>2
    <3> QED BY <2>2, <3>2, <3>3
  <2>4. A \in SUBSET B /\ B \in SUBSET T
    BY <2>2, <2>3
  <2>5. IsFiniteSet(B)
    BY <2>4, FS_Subset
  <2>6. IsFiniteSet(A) /\ Cardinality(A) <= Cardinality(B)
    BY <2>4, <2>5, FS_Subset
  <2>7. Cardinality(A) \in Nat /\ Cardinality(B) \in Nat
    BY <2>5, <2>6, FS_CardinalityType
  <2>8. Cardinality(A) >= Capacity
    BY <1>2, <2>1
  <2>9. Cardinality(B) >= Capacity
    BY <2>6, <2>7, <2>8, Window
  <2> QED BY <2>2, <2>9 DEF Old
<1> QED BY <1>1, <1>2 DEF Old

(* A full window of received identifiers *)
LEMMA FullWindow ==
    ASSUME NEW v, GoodWindow(v), Len(v.offsets) = Capacity, NEW R, IsFiniteSet(R),
           NEW e, \A y \in Int : Holds(v, y) => y \in R /\ y > e
    PROVE  Cardinality({y \in R : y > e}) >= Capacity
<1>1. Capacity \in Nat /\ Capacity > 0
  BY Window
<1>2. /\ \A i \in 1 .. Capacity : IdAt(v, i) \in Int
      /\ \A i, j \in 1 .. Capacity : i < j => IdAt(v, i) < IdAt(v, j)
  BY WindowParts
<1>3. PICK T : T = {y \in R : y > e}
  OBVIOUS
<1>4. ASSUME NEW i \in 1 .. Capacity PROVE IdAt(v, i) \in T
  <2>1. IdAt(v, i) \in Int
    BY <1>2
  <2>2. Holds(v, IdAt(v, i))
    BY <2>1, HoldsIs
  <2> QED BY <1>3, <2>1, <2>2
<1>5. PICK f : f = [i \in 1 .. Capacity |-> IdAt(v, i)]
  OBVIOUS
<1>6. f \in [1 .. Capacity -> T]
  BY <1>4, <1>5
<1>7. ASSUME NEW i \in 1 .. Capacity, NEW j \in 1 .. Capacity, f[i] = f[j] PROVE i = j
  <2>1. IdAt(v, i) = IdAt(v, j) /\ IdAt(v, i) \in Int /\ IdAt(v, j) \in Int
    BY <1>2, <1>5, <1>7
  <2>2. ~(i < j) /\ ~(j < i)
    BY <1>2, <2>1
  <2>3. i \in Int /\ j \in Int
    BY <1>1
  <2> QED BY <2>2, <2>3
<1>8. PICK D : D = 1 .. Capacity
  OBVIOUS
<1>9. f \in Injection(D, T)
  <2>1. f \in [D -> T] /\ \A a, b \in D : f[a] = f[b] => a = b
    BY <1>6, <1>7, <1>8
  <2> QED BY ONLY <2>1, Fun_IsInj
<1>10. IsFiniteSet(T)
  <2>1. T \in SUBSET R
    BY <1>3
  <2> QED BY <2>1, FS_Subset
<1>11. Cardinality(D) <= Cardinality(T)
  BY ONLY <1>9, <1>10, FS_Injection
<1>12. Cardinality(D) = Capacity
  <2>1. Cardinality(1 .. Capacity) = IF 1 > Capacity THEN 0 ELSE Capacity - 1 + 1
    BY <1>1, FS_Interval
  <2> QED BY <1>1, <1>8, <2>1
<1>13. Cardinality(T) \in Nat
  BY <1>10, FS_CardinalityType
<1> QED BY <1>1, <1>3, <1>11, <1>12, <1>13

(* An identifier that leaves is old *)
LEMMA EvictedOld ==
    ASSUME NEW w, NEW id \in Int, NEW r, Recalls(r, w, id), r.evicted # NoId, ~Holds(w, id),
           NEW R, IsFiniteSet(R), id \in R, \A x \in Int : Holds(w, x) => x \in R
    PROVE  Old(R, r.evicted)
<1>1. PICK e : e = r.evicted
  OBVIOUS
<1>2. PICK v : v = r.window
  OBVIOUS
<1>3. /\ GoodWindow(v) /\ e \in Int
      /\ \A x \in Int : Holds(v, x) => Holds(w, x) \/ x = id
      /\ \/ \E y \in Int : (Holds(w, y) \/ y = id) /\ y - e > MaxAge
         \/ Len(v.offsets) = Capacity /\ \A y \in Int : Holds(v, y) => y > e
  BY <1>1, <1>2 DEF Recalls
<1>4. CASE \E y \in Int : (Holds(w, y) \/ y = id) /\ y - e > MaxAge
  BY <1>1, <1>4 DEF Old
<1>5. CASE Len(v.offsets) = Capacity /\ \A y \in Int : Holds(v, y) => y > e
  <2>1. \A y \in Int : Holds(v, y) => y \in R /\ y > e
    BY <1>3, <1>5
  <2>2. Cardinality({y \in R : y > e}) >= Capacity
    BY <1>3, <1>5, <2>1, FullWindow
  <2> QED BY <1>1, <2>2 DEF Old
<1> QED BY <1>3, <1>4, <1>5

(* remember_received *)
Records(n, m, id, received) ==
    /\ Sound(n) /\ n.acks = m.acks /\ GoodWindow(n.window) /\ n.floor >= m.floor
    /\ \A x \in Int : Holds(m.window, x) => Holds(n.window, x) \/ x <= n.floor
    /\ Holds(n.window, id) \/ id <= n.floor
    /\ \A x \in Int : Holds(n.window, x) => Holds(m.window, x) \/ x = id
    /\ n.floor > 0 => Old(received, n.floor)

LEMMA RememberedRecords ==
    ASSUME NEW m, Sound(m), m.window = mtp.window, GoodWindow(mtp.window), NEW id \in Int,
           ~Holds(mtp.window, id), NEW R, IsFiniteSet(R), id \in R,
           \A x \in Int : Holds(mtp.window, x) => x \in R,
           m.floor > 0 => Old(R, m.floor)
    PROVE  Records(Remembered(m, id), m, id, R)
<1>1. PICK w : w = mtp.window
  OBVIOUS
<1>2. PICK r : r = Remember(w, id)
  OBVIOUS
<1>3. Recalls(r, w, id)
  BY <1>1, <1>2, RememberRecalls
<1>4. /\ GoodWindow(r.window) /\ r.evicted \in Int
      /\ \A x \in Int : Holds(w, x) => Holds(r.window, x) \/ x <= r.evicted
      /\ Holds(r.window, id) \/ id <= r.evicted
      /\ \A x \in Int : Holds(r.window, x) => Holds(w, x) \/ x = id
  BY <1>3 DEF Recalls
<1>5. m \in Session /\ m.salts # <<>> /\ Prefetch(m)
  BY DEF Sound
<1>6. m.floor \in Nat
  BY <1>5, SessionFields
<1>7. PICK f : f = Bigger(m.floor, r.evicted)
  OBVIOUS
<1>8. f \in Nat /\ f >= m.floor /\ f >= r.evicted /\ (f = m.floor \/ f = r.evicted)
  BY <1>4, <1>6, <1>7 DEF Bigger
<1>9. PICK v : v = r.window
  OBVIOUS
<1>10. PICK n : n = [m EXCEPT !.window = v, !.floor = f]
  OBVIOUS
<1>11. v \in [base : Int, offsets : Seq(0 .. OffsetLimit - 1)]
  BY <1>4, <1>9 DEF GoodWindow
<1>12. /\ n \in Session /\ n.acks = m.acks /\ n.salts = m.salts /\ n.saltRequest = m.saltRequest
       /\ n.saltFailures = m.saltFailures /\ n.window = v /\ n.floor = f
  BY <1>5, <1>8, <1>10, <1>11 DEF Session
<1>13. Sound(n)
  BY <1>5, <1>12 DEF Sound, Prefetch
<1>14. Remembered(m, id) = n
  BY <1>1, <1>2, <1>7, <1>9, <1>10 DEF Remembered
<1>15. ASSUME NEW x \in Int, Holds(w, x) PROVE Holds(v, x) \/ x <= f
  BY <1>4, <1>8, <1>9, <1>15
<1>16. Holds(v, id) \/ id <= f
  BY <1>4, <1>8, <1>9
<1>17. ASSUME f > 0 PROVE Old(R, f)
  <2>1. CASE f = m.floor
    BY <1>17, <2>1
  <2>2. CASE f = r.evicted
    <3>1. r.evicted # NoId
      BY <1>17, <2>2 DEF NoId
    <3>2. Old(R, r.evicted)
      BY <1>1, <1>3, <3>1, EvictedOld
    <3> QED BY <2>2, <3>2
  <2> QED BY <1>8, <2>1, <2>2
<1>18. Records(n, m, id, R)
  BY <1>1, <1>4, <1>8, <1>9, <1>12, <1>13, <1>15, <1>16, <1>17 DEF Records
<1> QED BY <1>14, <1>18


-----------------------------------------------------------------------------
(* Decoding *)

(* The client while a packet is decoded, when the session does not change *)
LEMMA SessionStill ==
    ASSUME Inv, mtp' = mtp, packet' = packet, request' = request, wire' = wire, out' = out,
           server' = server, got' = got, acked' = acked
    PROVE  /\ TypeSession' /\ TypeRequest' /\ TypePacket' /\ TypeWire' /\ TypeTelegram' /\ Prefetch(mtp)'
           /\ SaltPacket' /\ SaltRequestAlone' /\ Aged' /\ AcksKept'
<1>1. /\ TypeSession /\ TypeRequest /\ TypePacket /\ TypeWire /\ TypeTelegram /\ Prefetch(mtp)
      /\ SaltPacket /\ SaltRequestAlone /\ Aged /\ AcksKept
  BY InvParts
<1>2. TypeSession' /\ TypeRequest' /\ TypePacket' /\ TypeWire' /\ TypeTelegram' /\ Prefetch(mtp)' /\ SaltPacket'
  BY <1>1 DEF TypeSession, TypeRequest, TypePacket, TypeWire, TypeTelegram, Prefetch, SaltPacket
<1>3. SaltRequestAlone' /\ Aged'
  BY <1>1 DEF SaltRequestAlone, Aged
<1>4. AcksKept'
  BY <1>1 DEF AcksKept, NeedsAck
<1> QED BY <1>2, <1>3, <1>4

LEMMA QuietIs ==
    /\ Quiet \in [left : Seq(Message), ids : SUBSET MsgIds, nested : BOOLEAN, floor : Nat]
    /\ Quiet.left = <<>> /\ Quiet.ids = {} /\ Quiet.nested = FALSE
<1>1. PICK z : z = <<>>
  OBVIOUS
<1>2. z \in Seq(Message)
  BY <1>1
<1>3. Quiet = [left |-> z, ids |-> {}, nested |-> FALSE, floor |-> 0]
  BY <1>1 DEF Quiet
<1> QED BY <1>1, <1>2, <1>3

LEMMA DeserializeKeeps ==
    ASSUME Inv, NEW message \in out, Deserialize(message)
    PROVE  Inv'
<1>1. TypeClocks /\ TypeSession /\ TypeTelegram /\ TypeDecoding /\ Issued /\ Opened /\ Recognised
  BY InvParts
<1>2. /\ pending = Quiet /\ packet = NoPacket
      /\ pending' = [left |-> <<message>>, ids |-> {}, nested |-> FALSE, floor |-> mtp.floor]
      /\ UNCHANGED <<time, skew, mtp, packet, request, wire, out, server, got, acked, open>>
  BY DEF Deserialize, Idle
<1>3. /\ TypeSession' /\ TypeRequest' /\ TypePacket' /\ TypeWire' /\ TypeTelegram' /\ Prefetch(mtp)'
      /\ SaltPacket' /\ SaltRequestAlone' /\ Aged' /\ AcksKept'
  BY <1>2, SessionStill
<1>4. budget' \in Budget
  <2>1. budget \in Budget
    BY <1>1 DEF TypeClocks
  <2>2. PICK again \in BOOLEAN, overtakes \in BOOLEAN :
          /\ again => budget.resends > 0
          /\ overtakes => budget.reorders > 0
          /\ budget' = [budget EXCEPT !.resends = IF again THEN @ - 1 ELSE @,
                                     !.reorders = IF overtakes THEN @ - 1 ELSE @]
    <3>1. PICK again \in BOOLEAN : again = (message.id \in got.received)
      <4>1. (message.id \in got.received) \in BOOLEAN
        OBVIOUS
      <4> QED BY <4>1, Zenon
    <3>2. PICK overtakes \in BOOLEAN :
            overtakes = (~again /\ \E x \in out : x.id < message.id /\ x.id \notin got.received)
      OBVIOUS
    <3> QED BY <3>1, <3>2 DEF Deserialize
  <2>3. PICK a : a = IF again THEN budget.resends - 1 ELSE budget.resends
    OBVIOUS
  <2>4. PICK b : b = IF overtakes THEN budget.reorders - 1 ELSE budget.reorders
    OBVIOUS
  <2>5. a \in Nat /\ b \in Nat
    BY <2>1, <2>2, <2>3, <2>4 DEF Budget
  <2>6. budget' = [budget EXCEPT !.resends = a, !.reorders = b]
    BY <2>2, <2>3, <2>4
  <2> QED BY <2>1, <2>5, <2>6 DEF Budget
<1>5. TypeClocks'
  BY <1>1, <1>2, <1>4 DEF TypeClocks
<1>6. PICK l : l = <<message>>
  OBVIOUS
<1>7. message \in Message
  BY <1>1 DEF TypeTelegram
<1>8. l \in Seq(Message) /\ \A i \in DOMAIN l : l[i] = message
  BY <1>6, <1>7
<1>9. mtp.floor \in Nat
  BY <1>1, SessionFields DEF TypeSession
<1>10. /\ pending'.left = l /\ pending'.ids = {} /\ pending'.nested = FALSE /\ pending'.floor = mtp.floor
       /\ pending' \in [left : Seq(Message), ids : SUBSET MsgIds, nested : BOOLEAN, floor : Nat]
  BY <1>2, <1>6, <1>8, <1>9
<1>11. TypeDecoding'
  BY <1>1, <1>2, <1>10 DEF TypeDecoding
<1>12. Turns'
  BY <1>2 DEF Turns
<1>13. Issued'
  BY <1>1, <1>2, <1>8, <1>10 DEF Issued
<1>14. Opened'
  BY <1>1, <1>2, <1>10 DEF Opened
<1>15. Recognised'
  BY <1>1, <1>2, QuietIs DEF Recognised, UpdatesOnce
<1> QED BY <1>3, <1>5, <1>11, <1>12, <1>13, <1>14, <1>15 DEF Inv, TypeOK

LEMMA DecodeFailsKeeps ==
    ASSUME Inv, DecodeFails
    PROVE  Inv'
<1>1. TypeClocks /\ TypeDecoding /\ Issued /\ Opened /\ Recognised
  BY InvParts
<1>2. /\ open' = FALSE /\ pending' = Quiet
      /\ UNCHANGED <<time, skew, mtp, packet, request, wire, out, server, got, acked, budget>>
  BY DEF DecodeFails
<1>3. /\ TypeSession' /\ TypeRequest' /\ TypePacket' /\ TypeWire' /\ TypeTelegram' /\ Prefetch(mtp)'
      /\ SaltPacket' /\ SaltRequestAlone' /\ Aged' /\ AcksKept'
  BY <1>2, SessionStill
<1>4. TypeClocks'
  BY <1>1, <1>2 DEF TypeClocks
<1>5. TypeDecoding'
  BY <1>1, <1>2, QuietIs DEF TypeDecoding
<1>6. Turns'
  BY <1>2 DEF Turns
<1>7. pending'.left = <<>> /\ pending'.ids = {} /\ pending'.nested = FALSE
  BY <1>2, QuietIs
<1>8. \A i \in DOMAIN pending'.left : FALSE
  BY <1>7
<1>9. Issued'
  BY <1>1, <1>2, <1>8 DEF Issued
<1>10. Opened'
  BY <1>2, <1>7 DEF Opened
<1>11. Recognised'
  BY <1>1, <1>2 DEF Recognised, UpdatesOnce
<1> QED BY <1>3, <1>4, <1>5, <1>6, <1>9, <1>10, <1>11 DEF Inv, TypeOK

LEMMA RememberNextKeeps ==
    ASSUME Inv, RememberNext
    PROVE  Inv'
<1>1. /\ TypeClocks /\ TypeSession /\ TypeRequest /\ TypePacket /\ TypeWire /\ TypeTelegram /\ TypeDecoding
      /\ Turns /\ SaltPacket /\ SaltRequestAlone /\ Issued /\ Opened /\ Recognised /\ Aged /\ AcksKept /\ Sound(mtp)
  BY InvParts
<1>2. /\ open /\ pending.left = <<>> /\ pending.nested
      /\ UNCHANGED <<time, skew, packet, request, wire, out, server, got, acked, open, budget>>
  BY DEF RememberNext
<1>3. TypeClocks'
  BY <1>1, <1>2 DEF TypeClocks
<1>4. CASE pending.ids = {}
  <2>1. pending' = Quiet /\ mtp' = mtp
    BY <1>4 DEF RememberNext
  <2>2. /\ TypeSession' /\ TypeRequest' /\ TypePacket' /\ TypeWire' /\ TypeTelegram' /\ Prefetch(mtp)'
        /\ SaltPacket' /\ SaltRequestAlone' /\ Aged' /\ AcksKept'
    BY <1>2, <2>1, SessionStill
  <2>3. TypeDecoding'
    BY <1>1, <1>2, <2>1, QuietIs DEF TypeDecoding
  <2>4. Turns'
    BY <2>1 DEF Turns
  <2>5. pending'.left = <<>> /\ pending'.ids = {} /\ pending'.nested = FALSE
    BY <2>1, QuietIs
  <2>6. \A i \in DOMAIN pending'.left : FALSE
    BY <2>5
  <2>7. Issued'
    BY <1>1, <1>2, <2>6 DEF Issued
  <2>8. Opened'
    BY <2>5 DEF Opened
  <2>9. Recognised'
    BY <1>1, <1>2, <1>4, <2>1, <2>5 DEF Recognised, UpdatesOnce
  <2> QED BY <1>3, <2>2, <2>3, <2>4, <2>7, <2>8, <2>9 DEF Inv, TypeOK
<1>5. CASE pending.ids # {}
  <2>1. PICK id : id = CHOOSE x \in pending.ids : \A y \in pending.ids : x <= y
    OBVIOUS
  <2>2. pending.ids \subseteq Nat
    BY <1>1 DEF TypeDecoding, MsgIds
  <2>3. id \in pending.ids
    BY <1>5, <2>1, <2>2, Least
  <2>4. mtp' = Remembered(mtp, id) /\ pending' = [pending EXCEPT !.ids = @ \ {id}]
    BY <1>5, <2>1 DEF RememberNext
  <2>5. /\ pending'.left = pending.left /\ pending'.ids = pending.ids \ {id} /\ pending'.nested = pending.nested
        /\ pending'.floor = pending.floor
        /\ pending' \in [left : Seq(Message), ids : SUBSET MsgIds, nested : BOOLEAN, floor : Nat]
    BY <1>1, <2>4 DEF TypeDecoding
  <2>6. PICK R : R = got.received
    OBVIOUS
  <2>7. PICK w : w = mtp.window
    OBVIOUS
  <2>8. /\ GoodWindow(w) /\ IsFiniteSet(R) /\ id \in R /\ id \in Int /\ ~Holds(w, id)
        /\ \A x \in Int : Holds(w, x) => x \in R
        /\ mtp.floor > 0 => Old(R, mtp.floor)
    BY <1>1, <2>2, <2>3, <2>6, <2>7 DEF Recognised, Aged, Opened
  <2>9. Records(mtp', mtp, id, R)
    BY <1>1, <2>4, <2>7, <2>8, RememberedRecords
  <2>10. /\ Sound(mtp') /\ mtp'.acks = mtp.acks /\ GoodWindow(mtp'.window) /\ mtp'.floor >= mtp.floor
         /\ \A x \in Int : Holds(w, x) => Holds(mtp'.window, x) \/ x <= mtp'.floor
         /\ Holds(mtp'.window, id) \/ id <= mtp'.floor
         /\ \A x \in Int : Holds(mtp'.window, x) => Holds(w, x) \/ x = id
         /\ mtp'.floor > 0 => Old(R, mtp'.floor)
    BY <2>7, <2>9 DEF Records
  <2>11. TypeSession' /\ Prefetch(mtp)'
    BY <1>1, <2>10 DEF TypeSession, Sound, GoodWindow, Prefetch
  <2>12. TypeRequest' /\ TypePacket' /\ TypeWire' /\ TypeTelegram' /\ SaltRequestAlone'
    BY <1>1, <1>2 DEF TypeRequest, TypePacket, TypeWire, TypeTelegram, SaltRequestAlone
  <2>13. TypeDecoding'
    BY <1>1, <1>2, <2>5 DEF TypeDecoding
  <2>14. packet' = NoPacket
    <3>1. pending # Quiet
      BY <1>2, QuietIs
    <3> QED BY <1>1, <1>2, <3>1 DEF Turns
  <2>15. Turns'
    BY <2>14 DEF Turns
  <2>16. SaltPacket'
    <3>1. packet'.messages = <<>>
      BY <2>14 DEF NoPacket
    <3>2. \A i \in DOMAIN packet'.messages : FALSE
      BY <3>1
    <3> QED BY <3>2 DEF SaltPacket, HasSalts
  <2>17. Issued'
    BY <1>1, <1>2, <2>5 DEF Issued
  <2>18. Opened'
    <3>1. ASSUME NEW x \in pending'.ids PROVE ~Holds(mtp'.window, x)
      <4>1. x \in pending.ids /\ x # id /\ x \in Int
        BY <2>2, <2>5
      <4>2. ~Holds(w, x)
        BY <1>1, <2>7, <4>1 DEF Opened
      <4> QED BY <2>10, <4>1, <4>2
    <3> QED BY <1>1, <1>2, <2>5, <3>1 DEF Opened
  <2>19. Recognised'
    <3>1. ASSUME NEW x \in Int, Holds(mtp'.window, x) PROVE x \in got'.received
      BY <1>2, <2>6, <2>8, <2>10, <3>1
    <3>2. ASSUME NEW x \in got.updates
          PROVE  Holds(mtp'.window, x) \/ x <= mtp'.floor \/ x \in pending'.ids
      <4>1. x \in Int /\ mtp.floor \in Int /\ mtp'.floor \in Int
        BY <1>1, <2>10, SessionFields DEF TypeDecoding, MsgIds, Sound
      <4>2. CASE Holds(w, x)
        BY <2>10, <4>1, <4>2
      <4>3. CASE x <= mtp.floor
        BY <2>10, <4>1, <4>3
      <4>4. CASE x \in pending.ids
        BY <2>5, <2>10, <4>4
      <4>5. Holds(w, x) \/ x <= mtp.floor \/ x \in pending.ids
        BY <1>1, <1>2, <2>7 DEF Recognised
      <4> QED BY <4>2, <4>3, <4>4, <4>5
    <3>3. got' = got
      BY <1>2
    <3> QED BY <1>1, <2>10, <3>1, <3>2, <3>3 DEF Recognised, UpdatesOnce
  <2>20. Aged'
    BY <1>1, <1>2, <2>6, <2>10 DEF Aged
  <2>21. AcksKept'
    BY <1>1, <1>2, <2>10 DEF AcksKept, NeedsAck
  <2> QED BY <1>3, <2>11, <2>12, <2>13, <2>15, <2>16, <2>17, <2>18, <2>19, <2>20, <2>21 DEF Inv, TypeOK
<1> QED BY <1>4, <1>5


(* What process_bounded does with a message: whether it skips it, how the session reacts,
   and whether the window is to take note of it *)
Meets(message, late, skip, keep, opens, updates, m) ==
    /\ open /\ pending.left # <<>> /\ message = Head(pending.left) /\ ~Fails(message)
    /\ late = (message.id <= pending.floor)
    /\ skip = (IsReplay(message.id) \/ Suppressed(message, late))
    /\ keep = (~skip /\ ~late)
    /\ opens = (message.kind = "container" /\ ~skip)
    /\ updates = (~skip /\ (message.kind = "update" \/ (message.kind = "result" /\ ~late)))
    /\ m = Met(mtp, message, skip, ~late)
    /\ pending' = IF opens THEN [left |-> message.parts, nested |-> TRUE, floor |-> pending.floor,
                                 ids |-> IF keep THEN {message.id} ELSE {}]
                  ELSE AfterMessage(message, keep)
    /\ mtp' = IF keep /\ ~pending.nested /\ ~opens THEN Remembered(m, message.id) ELSE m
    /\ \/ request' = request
       \/ message.kind = "result" /\ request' = Answered(message.of)
       \/ message.kind = "bad" /\ request' = Rejected(message.of, message.code)
    /\ got' = [got EXCEPT !.received = @ \cup {message.id},
                          !.updates = IF updates THEN @ \cup {message.id} ELSE @,
                          !.corrected = @ \/ (~skip /\ ~late /\ message.kind = "bad" /\ message.code \in {16, 17}),
                          !.again = @ \/ (updates /\ message.id \in got.updates),
                          !.lost = IF Suppressed(message, late) /\ message.id \notin got.received
                                   THEN @ \cup {message.id} ELSE @]
    /\ UNCHANGED <<time, skew, packet, wire, out, server, acked, open, budget>>

LEMMA ProcessMeets ==
    ASSUME Inv, Process
    PROVE  \E message, m : \E late, skip, keep, opens, updates \in BOOLEAN :
             Meets(message, late, skip, keep, opens, updates, m)
<1>1. PICK message : message = Head(pending.left)
  OBVIOUS
<1>2. PICK late \in BOOLEAN : late = (message.id <= pending.floor)
  <2>1. (message.id <= pending.floor) \in BOOLEAN
    OBVIOUS
  <2> QED BY <2>1, Zenon
<1>3. PICK skip \in BOOLEAN : skip = (IsReplay(message.id) \/ Suppressed(message, late))
  OBVIOUS
<1>4. PICK keep \in BOOLEAN : keep = (~skip /\ ~late)
  OBVIOUS
<1>5. PICK opens \in BOOLEAN : opens = (message.kind = "container" /\ ~skip)
  OBVIOUS
<1>6. PICK updates \in BOOLEAN :
        updates = (~skip /\ (message.kind = "update" \/ (message.kind = "result" /\ ~late)))
  OBVIOUS
<1>7. PICK m : m = Met(mtp, message, skip, ~late)
  OBVIOUS
<1>8. m = IF skip THEN Acked(mtp, message) ELSE Handled(Acked(mtp, message), message, ~late)
  BY <1>7 DEF Met
<1>9. /\ open /\ pending.left # <<>> /\ ~Fails(message)
      /\ UNCHANGED <<time, skew, packet, wire, out, server, acked, open, budget>>
  BY <1>1 DEF Process
<1>10. pending' = IF opens THEN [left |-> message.parts, nested |-> TRUE, floor |-> pending.floor,
                                 ids |-> IF keep THEN {message.id} ELSE {}]
                  ELSE AfterMessage(message, keep)
  BY <1>1, <1>2, <1>3, <1>4, <1>5 DEF Process
<1>11. mtp' = IF keep /\ ~pending.nested /\ ~opens THEN Remembered(m, message.id) ELSE m
  BY <1>1, <1>2, <1>3, <1>4, <1>5, <1>8 DEF Process
<1>12. \/ request' = request
       \/ message.kind = "result" /\ request' = Answered(message.of)
       \/ message.kind = "bad" /\ request' = Rejected(message.of, message.code)
  BY <1>1, <1>2, <1>3 DEF Process
<1>13. got' = [got EXCEPT !.received = @ \cup {message.id},
                          !.updates = IF updates THEN @ \cup {message.id} ELSE @,
                          !.corrected = @ \/ (~skip /\ ~late /\ message.kind = "bad" /\ message.code \in {16, 17}),
                          !.again = @ \/ (updates /\ message.id \in got.updates),
                          !.lost = IF Suppressed(message, late) /\ message.id \notin got.received
                                   THEN @ \cup {message.id} ELSE @]
  BY <1>1, <1>2, <1>3, <1>6 DEF Process
<1>14. Meets(message, late, skip, keep, opens, updates, m)
  BY <1>1, <1>2, <1>3, <1>4, <1>5, <1>6, <1>7, <1>9, <1>10, <1>11, <1>12, <1>13 DEF Meets
<1> QED BY <1>14


(* The message comes from Telegram, and the floor is the one the session has *)
LEMMA MeetsMessage ==
    ASSUME Inv, NEW message, NEW m, NEW late \in BOOLEAN, NEW skip \in BOOLEAN, NEW keep \in BOOLEAN,
           NEW opens \in BOOLEAN, NEW updates \in BOOLEAN, Meets(message, late, skip, keep, opens, updates, m)
    PROVE  /\ message \in out /\ message \in Message /\ message.id \in Nat /\ message.id > 0
           /\ pending.floor = mtp.floor /\ mtp.floor \in Nat
           /\ pending.nested => message.kind # "container" /\ Tail(pending.left) \in Seq(Single)
           /\ Tail(pending.left) \in Seq(Message)
           /\ \A i \in DOMAIN Tail(pending.left) : Tail(pending.left)[i] \in out
           /\ ~skip => ~Holds(mtp.window, message.id) /\ message.id \notin pending.ids
           /\ updates => keep /\ ~opens
           /\ packet = NoPacket
<1>1. TypeSession /\ TypeTelegram /\ TypeDecoding /\ Turns /\ Issued /\ Opened
  BY InvParts
<1>2. PICK l : l = pending.left
  OBVIOUS
<1>3. l # <<>> /\ message = Head(l) /\ l \in Seq(Message)
  BY <1>1, <1>2 DEF Meets, TypeDecoding
<1>4. message \in Message /\ Tail(l) \in Seq(Message) /\ Len(Tail(l)) = Len(l) - 1
      /\ \A i \in 1 .. Len(Tail(l)) : Tail(l)[i] = l[i + 1]
  BY <1>3, HeadTailProperties
<1>5. Len(l) \in Nat /\ Len(l) # 0 /\ DOMAIN l = 1 .. Len(l) /\ DOMAIN Tail(l) = 1 .. Len(Tail(l))
  BY <1>3, <1>4, LenProperties, EmptySeq
<1>6. \A i \in DOMAIN l : l[i] \in out
  BY <1>1, <1>2 DEF Issued
<1>7. message \in out
  <2>1. 1 \in DOMAIN l
    BY <1>5
  <2>2. message = l[1]
    BY <1>3
  <2> QED BY <1>6, <2>1, <2>2
<1>8. ASSUME NEW i \in DOMAIN Tail(l) PROVE Tail(l)[i] \in out
  <2>1. i \in 1 .. Len(Tail(l)) /\ Tail(l)[i] = l[i + 1]
    BY <1>4, <1>5
  <2>2. i + 1 \in DOMAIN l
    BY <1>4, <1>5, <2>1
  <2> QED BY <1>6, <2>1, <2>2
<1>9. ASSUME pending.nested PROVE message.kind # "container" /\ Tail(l) \in Seq(Single)
  <2>1. l \in Seq(Single)
    BY <1>1, <1>2, <1>9 DEF Opened
  <2>2. message \in Single /\ Tail(l) \in Seq(Single)
    BY <1>3, <2>1, HeadTailProperties
  <2> QED BY <2>2 DEF Single
<1>10. pending.floor = mtp.floor /\ mtp.floor \in Nat
  BY <1>1, <1>2, <1>3, SessionFields DEF Opened, TypeSession
<1>11. ~skip => ~Holds(mtp.window, message.id) /\ message.id \notin pending.ids /\ ~Suppressed(message, late)
  BY DEF Meets, IsReplay
<1>12. updates => keep /\ ~opens
  <2>1. SUFFICES ASSUME updates PROVE keep /\ ~opens
    OBVIOUS
  <2>2. ~skip /\ (message.kind = "update" \/ (message.kind = "result" /\ ~late))
    BY <2>1 DEF Meets
  <2>3. ~late
    BY <1>11, <2>2 DEF Suppressed
  <2> QED BY <2>2, <2>3 DEF Meets
<1>13. packet = NoPacket
  BY <1>1, <1>2, <1>3, QuietIs DEF Turns
<1>14. message.id \in Nat /\ message.id > 0
  BY <1>4, MessageFields
<1> QED BY <1>2, <1>4, <1>7, <1>8, <1>9, <1>10, <1>11, <1>12, <1>13, <1>14

(* What is left to decode, and what is to be remembered when that is done *)
LeavesPending(message, keep, opens) ==
    /\ pending' \in [left : Seq(Message), ids : SUBSET MsgIds, nested : BOOLEAN, floor : Nat]
    /\ pending'.nested => pending'.left \in Seq(Single) /\ pending'.floor = pending.floor
    /\ pending'.nested = (opens \/ pending.nested)
    /\ ~pending'.nested => pending'.ids = {} /\ pending'.left = <<>>
    /\ \A x \in pending'.ids : x \in pending.ids \/ (x = message.id /\ keep)
    /\ pending.ids \subseteq pending'.ids
    /\ keep /\ pending'.nested => message.id \in pending'.ids
    /\ \A i \in DOMAIN pending'.left : pending'.left[i] \in out

LEMMA MeetsPending ==
    ASSUME Inv, NEW message, NEW m, NEW late \in BOOLEAN, NEW skip \in BOOLEAN, NEW keep \in BOOLEAN,
           NEW opens \in BOOLEAN, NEW updates \in BOOLEAN, Meets(message, late, skip, keep, opens, updates, m)
    PROVE  LeavesPending(message, keep, opens)
<1>1. TypeDecoding /\ Issued /\ Opened
  BY InvParts
<1>2. /\ message \in out /\ message \in Message /\ message.id \in Nat /\ message.id > 0
      /\ pending.nested => message.kind # "container" /\ Tail(pending.left) \in Seq(Single)
      /\ Tail(pending.left) \in Seq(Message)
      /\ \A i \in DOMAIN Tail(pending.left) : Tail(pending.left)[i] \in out
  BY MeetsMessage
<1>3. pending \in [left : Seq(Message), ids : SUBSET MsgIds, nested : BOOLEAN, floor : Nat]
  BY <1>1 DEF TypeDecoding
<1>4. message.id \in MsgIds
  BY <1>2 DEF MsgIds
<1>5. CASE opens
  <2>1. message.kind = "container" /\ ~pending.nested
    BY <1>2, <1>5 DEF Meets
  <2>2. pending.ids = {}
    BY <1>1, <2>1 DEF Opened
  <2>3. PICK p : p = message.parts
    OBVIOUS
  <2>4. p \in Seq(Single) /\ \A i \in DOMAIN p : p[i] \in out
    BY <1>1, <1>2, <2>1, <2>3, MessageFields DEF Issued
  <2>5. p \in Seq(Message)
    <3>1. Single \subseteq Message
      BY DEF Message
    <3> QED BY <2>4, <3>1
  <2>6. PICK s : s = IF keep THEN {message.id} ELSE {}
    OBVIOUS
  <2>7. pending' = [left |-> p, nested |-> TRUE, floor |-> pending.floor, ids |-> s]
    BY <1>5, <2>3, <2>6 DEF Meets
  <2>8. /\ pending'.left = p /\ pending'.nested = TRUE /\ pending'.floor = pending.floor /\ pending'.ids = s
        /\ pending' \in [left : Seq(Message), ids : SUBSET MsgIds, nested : BOOLEAN, floor : Nat]
    BY <1>3, <1>4, <2>5, <2>6, <2>7
  <2> QED BY <1>5, <2>2, <2>4, <2>6, <2>8 DEF LeavesPending
<1>6. CASE ~opens /\ pending.nested
  <2>1. PICK t : t = Tail(pending.left)
    OBVIOUS
  <2>2. PICK s : s = IF keep THEN pending.ids \cup {message.id} ELSE pending.ids
    OBVIOUS
  <2>3. pending' = [pending EXCEPT !.left = t, !.ids = s]
    BY <1>6, <2>1, <2>2 DEF Meets, AfterMessage
  <2>4. t \in Seq(Message) /\ t \in Seq(Single) /\ \A i \in DOMAIN t : t[i] \in out
    BY <1>2, <1>6, <2>1
  <2>5. s \in SUBSET MsgIds
    BY <1>3, <1>4, <2>2
  <2>6. /\ pending'.left = t /\ pending'.nested = pending.nested /\ pending'.floor = pending.floor /\ pending'.ids = s
        /\ pending' \in [left : Seq(Message), ids : SUBSET MsgIds, nested : BOOLEAN, floor : Nat]
    BY <1>3, <2>3, <2>4, <2>5
  <2>7. pending.nested = TRUE
    BY <1>3, <1>6
  <2> QED BY <1>6, <2>2, <2>4, <2>6, <2>7 DEF LeavesPending
<1>7. CASE ~opens /\ ~pending.nested
  <2>1. pending' = Quiet
    BY <1>7 DEF Meets, AfterMessage
  <2>2. /\ pending' \in [left : Seq(Message), ids : SUBSET MsgIds, nested : BOOLEAN, floor : Nat]
        /\ pending'.left = <<>> /\ pending'.ids = {} /\ pending'.nested = FALSE
    BY <2>1, QuietIs
  <2>3. pending.ids = {}
    BY <1>1, <1>7 DEF Opened
  <2>4. \A i \in DOMAIN pending'.left : FALSE
    BY <2>2
  <2>5. pending.nested = FALSE
    BY <1>3, <1>7
  <2> QED BY <1>7, <2>2, <2>3, <2>4, <2>5 DEF LeavesPending
<1> QED BY <1>5, <1>6, <1>7

(* The session and its window *)
LeavesSession(message, keep, opens, R) ==
    /\ Sound(mtp') /\ Len(mtp'.acks) <= AckLimit /\ ToSet(mtp.acks) \subseteq ToSet(mtp'.acks)
    /\ NeedsAck(message) => message.id \in ToSet(mtp'.acks)
    /\ GoodWindow(mtp'.window) /\ mtp'.floor >= mtp.floor
    /\ \A x \in Int : Holds(mtp.window, x) => Holds(mtp'.window, x) \/ x <= mtp'.floor
    /\ \A x \in Int : Holds(mtp'.window, x) => x \in R
    /\ IsFiniteSet(R) /\ (mtp'.floor > 0 => Old(R, mtp'.floor))
    /\ keep /\ ~(opens \/ pending.nested) => Holds(mtp'.window, message.id) \/ message.id <= mtp'.floor
    /\ opens \/ pending.nested => mtp'.window = mtp.window /\ mtp'.floor = mtp.floor

LEMMA MeetsSession ==
    ASSUME Inv, NEW message, NEW m, NEW late \in BOOLEAN, NEW skip \in BOOLEAN, NEW keep \in BOOLEAN,
           NEW opens \in BOOLEAN, NEW updates \in BOOLEAN, Meets(message, late, skip, keep, opens, updates, m)
    PROVE  LeavesSession(message, keep, opens, got.received \cup {message.id})
<1>1. TypeClocks /\ TypeDecoding /\ Recognised /\ Aged /\ Sound(mtp) /\ Len(mtp.acks) <= AckLimit
  BY InvParts
<1>2. /\ message \in Message /\ message.id \in Nat /\ mtp.floor \in Nat
      /\ ~skip => ~Holds(mtp.window, message.id)
  BY MeetsMessage
<1>3. m = Met(mtp, message, skip, ~late) /\ ~Fails(message) /\ (keep => ~skip)
      /\ mtp' = IF keep /\ ~pending.nested /\ ~opens THEN Remembered(m, message.id) ELSE m
  BY DEF Meets
<1>4. PICK fresh \in BOOLEAN : fresh = ~late
  OBVIOUS
<1>5. /\ Kept(m, mtp) /\ Len(m.acks) <= AckLimit /\ ToSet(mtp.acks) \subseteq ToSet(m.acks)
      /\ NeedsAck(message) => message.id \in ToSet(m.acks)
  BY <1>1, <1>2, <1>3, <1>4, MetIs
<1>6. Sound(m) /\ m.window = mtp.window /\ m.floor = mtp.floor
  BY <1>5 DEF Kept
<1>7. PICK R : R = got.received \cup {message.id}
  OBVIOUS
<1>8. got.received \subseteq Nat /\ R \subseteq Nat
  BY <1>1, <1>2, <1>7 DEF TypeDecoding, MsgIds
<1>9. IsFiniteSet(R)
  BY <1>1, <1>7, FS_AddElement DEF Aged
<1>10. ASSUME mtp.floor > 0 PROVE Old(R, mtp.floor)
  <2>1. Old(got.received, mtp.floor)
    BY <1>1, <1>10 DEF Aged
  <2>2. got.received \subseteq R /\ mtp.floor \in Int /\ mtp.floor <= mtp.floor
    BY <1>2, <1>7
  <2> QED BY <1>8, <1>9, <2>1, <2>2, OldGrows
<1>11. GoodWindow(mtp.window) /\ \A x \in Int : Holds(mtp.window, x) => x \in R
  BY <1>1, <1>7 DEF Recognised
<1>12. CASE keep /\ ~pending.nested /\ ~opens
  <2>1. mtp' = Remembered(m, message.id) /\ ~Holds(mtp.window, message.id)
    BY <1>2, <1>3, <1>12
  <2>2. message.id \in R /\ message.id \in Int
    BY <1>2, <1>7
  <2>3. m.floor > 0 => Old(R, m.floor)
    BY <1>6, <1>10
  <2>4. Records(mtp', m, message.id, R)
    BY <1>6, <1>9, <1>11, <2>1, <2>2, <2>3, RememberedRecords
  <2>5. /\ Sound(mtp') /\ mtp'.acks = m.acks /\ GoodWindow(mtp'.window) /\ mtp'.floor >= mtp.floor
        /\ \A x \in Int : Holds(mtp.window, x) => Holds(mtp'.window, x) \/ x <= mtp'.floor
        /\ Holds(mtp'.window, message.id) \/ message.id <= mtp'.floor
        /\ \A x \in Int : Holds(mtp'.window, x) => Holds(mtp.window, x) \/ x = message.id
        /\ mtp'.floor > 0 => Old(R, mtp'.floor)
    BY <1>6, <2>4 DEF Records
  <2>6. \A x \in Int : Holds(mtp'.window, x) => x \in R
    BY <1>11, <2>2, <2>5
  <2>7. LeavesSession(message, keep, opens, R)
    BY <1>5, <1>9, <1>12, <2>5, <2>6 DEF LeavesSession
  <2> QED BY <1>7, <2>7
<1>13. CASE ~(keep /\ ~pending.nested /\ ~opens)
  <2>1. mtp' = m
    BY <1>3, <1>13
  <2>2. Sound(mtp') /\ mtp'.window = mtp.window /\ mtp'.floor = mtp.floor /\ mtp'.acks = m.acks
    BY <1>6, <2>1
  <2>3. mtp'.floor >= mtp.floor
    BY <1>2, <2>2
  <2>4. ~(keep /\ ~(opens \/ pending.nested))
    BY <1>13
  <2>5. LeavesSession(message, keep, opens, R)
    BY <1>5, <1>9, <1>10, <1>11, <2>2, <2>3, <2>4 DEF LeavesSession
  <2> QED BY <1>7, <2>5
<1> QED BY <1>12, <1>13


(* The sender takes answers and rejections *)
LEMMA MeetsRequest ==
    ASSUME Inv, NEW message, NEW m, NEW late \in BOOLEAN, NEW skip \in BOOLEAN, NEW keep \in BOOLEAN,
           NEW opens \in BOOLEAN, NEW updates \in BOOLEAN, Meets(message, late, skip, keep, opens, updates, m)
    PROVE  TypeRequest'
<1>1. TypeRequest
  BY InvParts
<1>2. PICK S : S = [where : {"queued", "framed", "sent", "done"}, id : Nat \cup {None}, outer : Nat \cup {None}]
  OBVIOUS
<1>3. \A r \in Requests : request[r] \in S
  BY <1>1, <1>2 DEF TypeRequest
<1>4. ASSUME NEW r \in Requests, NEW v \in {"queued", "done"} PROVE [request[r] EXCEPT !.where = v] \in S
  BY <1>2, <1>3
<1>5. request' = request \/ request' = Answered(message.of) \/ request' = Rejected(message.of, message.code)
  BY DEF Meets
<1>6. CASE request' = request
  BY <1>1, <1>6 DEF TypeRequest
<1>7. CASE request' = Answered(message.of)
  <2>1. request' \in [Requests -> S]
    BY <1>3, <1>4, <1>7 DEF Answered
  <2> QED BY <1>2, <2>1 DEF TypeRequest
<1>8. CASE request' = Rejected(message.of, message.code)
  <2>1. ASSUME NEW r \in Requests
        PROVE  [request[r] EXCEPT !.where = IF Retryable(message.code) THEN "queued" ELSE "done"] \in S
    <3>1. PICK v : v = IF Retryable(message.code) THEN "queued" ELSE "done"
      OBVIOUS
    <3>2. v \in {"queued", "done"}
      BY <3>1
    <3> QED BY <1>4, <3>1, <3>2
  <2>2. request' \in [Requests -> S]
    BY <1>3, <1>8, <2>1 DEF Rejected
  <2> QED BY <1>2, <2>2 DEF TypeRequest
<1> QED BY <1>5, <1>6, <1>7, <1>8

LEMMA ProcessKeeps ==
    ASSUME Inv, Process
    PROVE  Inv'
<1>1. /\ TypeClocks /\ TypeSession /\ TypePacket /\ TypeWire /\ TypeTelegram /\ TypeDecoding /\ SaltRequestAlone
      /\ Issued /\ Opened /\ Recognised /\ Aged /\ AcksKept
  BY InvParts
<1>2. PICK message, m : \E late, skip, keep, opens, updates \in BOOLEAN :
        Meets(message, late, skip, keep, opens, updates, m)
  BY ProcessMeets
<1>3. PICK late \in BOOLEAN, skip \in BOOLEAN, keep \in BOOLEAN, opens \in BOOLEAN, updates \in BOOLEAN :
        Meets(message, late, skip, keep, opens, updates, m)
  BY <1>2
<1>4. /\ message \in out /\ message \in Message /\ message.id \in Nat /\ message.id > 0
      /\ pending.floor = mtp.floor /\ mtp.floor \in Nat
      /\ ~skip => ~Holds(mtp.window, message.id) /\ message.id \notin pending.ids
      /\ updates => keep /\ ~opens
      /\ packet = NoPacket
  BY <1>3, MeetsMessage
<1>5. /\ pending' \in [left : Seq(Message), ids : SUBSET MsgIds, nested : BOOLEAN, floor : Nat]
      /\ pending'.nested => pending'.left \in Seq(Single) /\ pending'.floor = pending.floor
      /\ pending'.nested = (opens \/ pending.nested)
      /\ ~pending'.nested => pending'.ids = {} /\ pending'.left = <<>>
      /\ \A x \in pending'.ids : x \in pending.ids \/ (x = message.id /\ keep)
      /\ pending.ids \subseteq pending'.ids
      /\ keep /\ pending'.nested => message.id \in pending'.ids
      /\ \A i \in DOMAIN pending'.left : pending'.left[i] \in out
  <2>1. LeavesPending(message, keep, opens)
    BY <1>3, MeetsPending
  <2> QED BY <2>1 DEF LeavesPending
<1>6. PICK R : R = got.received \cup {message.id}
  OBVIOUS
<1>7. /\ Sound(mtp') /\ Len(mtp'.acks) <= AckLimit /\ ToSet(mtp.acks) \subseteq ToSet(mtp'.acks)
      /\ NeedsAck(message) => message.id \in ToSet(mtp'.acks)
      /\ GoodWindow(mtp'.window) /\ mtp'.floor >= mtp.floor
      /\ \A x \in Int : Holds(mtp.window, x) => Holds(mtp'.window, x) \/ x <= mtp'.floor
      /\ \A x \in Int : Holds(mtp'.window, x) => x \in R
      /\ IsFiniteSet(R) /\ (mtp'.floor > 0 => Old(R, mtp'.floor))
      /\ keep /\ ~(opens \/ pending.nested) => Holds(mtp'.window, message.id) \/ message.id <= mtp'.floor
      /\ opens \/ pending.nested => mtp'.window = mtp.window /\ mtp'.floor = mtp.floor
  <2>1. LeavesSession(message, keep, opens, R)
    BY <1>3, <1>6, MeetsSession
  <2> QED BY <2>1 DEF LeavesSession
<1>8. /\ open /\ late = (message.id <= pending.floor) /\ keep = (~skip /\ ~late)
      /\ UNCHANGED <<time, skew, packet, wire, out, server, acked, open, budget>>
  BY <1>3 DEF Meets
<1>9. /\ got'.received = R
      /\ got'.updates = IF updates THEN got.updates \cup {message.id} ELSE got.updates
      /\ got'.again = (got.again \/ (updates /\ message.id \in got.updates))
      /\ got'.lost = IF Suppressed(message, late) /\ message.id \notin got.received
                     THEN got.lost \cup {message.id} ELSE got.lost
      /\ got'.corrected = (got.corrected
                             \/ (~skip /\ ~late /\ message.kind = "bad" /\ message.code \in {16, 17}))
      /\ DOMAIN got' = DOMAIN got
  BY <1>1, <1>3, <1>6 DEF Meets, TypeDecoding
<1>10. message.id \in MsgIds
  BY <1>4 DEF MsgIds
<1>11. TypeClocks' /\ TypePacket' /\ TypeWire' /\ TypeTelegram' /\ SaltRequestAlone'
  BY <1>1, <1>8 DEF TypeClocks, TypePacket, TypeWire, TypeTelegram, SaltRequestAlone
<1>12. TypeSession' /\ Prefetch(mtp)'
  BY <1>7 DEF TypeSession, Sound, GoodWindow, Prefetch
<1>13. TypeRequest'
  BY <1>3, MeetsRequest
<1>14. TypeDecoding'
  <2>1. got \in [received : SUBSET MsgIds, updates : SUBSET MsgIds, again : BOOLEAN,
                 lost : SUBSET MsgIds, corrected : BOOLEAN]
    BY <1>1 DEF TypeDecoding
  <2>2. PICK u : u = IF updates THEN got.updates \cup {message.id} ELSE got.updates
    OBVIOUS
  <2>3. PICK l : l = IF Suppressed(message, late) /\ message.id \notin got.received
                     THEN got.lost \cup {message.id} ELSE got.lost
    OBVIOUS
  <2>4. PICK a \in BOOLEAN : a = (got.again \/ (updates /\ message.id \in got.updates))
    OBVIOUS
  <2>5. PICK c \in BOOLEAN : c = (got.corrected
                             \/ (~skip /\ ~late /\ message.kind = "bad" /\ message.code \in {16, 17}))
    OBVIOUS
  <2>6. R \in SUBSET MsgIds /\ u \in SUBSET MsgIds /\ l \in SUBSET MsgIds
    BY <1>6, <1>10, <2>1, <2>2, <2>3
  <2>7. got' = [got EXCEPT !.received = R, !.updates = u, !.corrected = c, !.again = a, !.lost = l]
    BY <1>3, <1>6, <2>2, <2>3, <2>4, <2>5 DEF Meets
  <2>8. got' \in [received : SUBSET MsgIds, updates : SUBSET MsgIds, again : BOOLEAN,
                  lost : SUBSET MsgIds, corrected : BOOLEAN]
    BY <2>1, <2>6, <2>7
  <2> QED BY <1>1, <1>5, <1>8, <2>8 DEF TypeDecoding
<1>15. Turns'
  BY <1>4, <1>8 DEF Turns
<1>16. SaltPacket'
  <2>1. packet'.messages = <<>>
    BY <1>4, <1>8 DEF NoPacket
  <2>2. \A i \in DOMAIN packet'.messages : FALSE
    BY <2>1
  <2> QED BY <2>2 DEF SaltPacket, HasSalts
<1>17. Issued'
  <2>1. ASSUME NEW y \in got'.received PROVE \E x \in out : x.id = y
    BY <1>1, <1>4, <1>6, <1>9 DEF Issued
  <2> QED BY <1>1, <1>5, <1>8, <2>1 DEF Issued
<1>18. Opened'
  <2>1. ASSUME NEW x \in pending'.ids PROVE x \in got'.received /\ ~Holds(mtp'.window, x)
    <3>1. opens \/ pending.nested
      BY <1>5, <2>1
    <3>2. mtp'.window = mtp.window
      BY <1>7, <3>1
    <3>3. CASE x \in pending.ids
      BY <1>1, <1>6, <1>9, <3>2, <3>3 DEF Opened
    <3>4. CASE x = message.id /\ keep
      BY <1>4, <1>6, <1>8, <1>9, <3>2, <3>4
    <3> QED BY <1>5, <3>3, <3>4
  <2>2. pending'.left # <<>> => pending'.floor = mtp'.floor
    <3>1. SUFFICES ASSUME pending'.left # <<>> PROVE pending'.floor = mtp'.floor
      OBVIOUS
    <3>2. pending'.nested /\ (opens \/ pending.nested)
      BY <1>5, <3>1
    <3> QED BY <1>4, <1>5, <1>7, <3>2
  <2> QED BY <1>5, <2>1, <2>2 DEF Opened
<1>19. mtp'.floor \in Nat
  BY <1>7, SessionFields DEF Sound
<1>20. got.updates \subseteq Nat /\ got.lost \subseteq Nat /\ got.received \subseteq Nat /\ R \subseteq Nat
  BY <1>1, <1>4, <1>6 DEF TypeDecoding, MsgIds
<1>21. ASSUME NEW x \in got.updates
       PROVE  Holds(mtp.window, x) \/ x <= mtp.floor \/ x \in pending.ids
  BY <1>1, <1>8 DEF Recognised
<1>22. Recognised'
  <2>1. ASSUME NEW x \in got'.updates
        PROVE  Holds(mtp'.window, x) \/ x <= mtp'.floor \/ x \in pending'.ids
    <3>1. CASE x \in got.updates
      <4>1. x \in Int
        BY <1>20, <3>1
      <4>2. CASE Holds(mtp.window, x)
        BY <1>7, <4>1, <4>2
      <4>3. CASE x <= mtp.floor
        BY <1>4, <1>7, <1>19, <4>1, <4>3
      <4>4. CASE x \in pending.ids
        BY <1>5, <4>4
      <4> QED BY <1>21, <3>1, <4>2, <4>3, <4>4
    <3>2. CASE x \notin got.updates
      <4>1. x = message.id /\ updates
        BY <1>9, <2>1, <3>2
      <4>2. keep /\ ~opens
        BY <1>4, <4>1
      <4> QED BY <1>5, <1>7, <4>1, <4>2
    <3> QED BY <3>1, <3>2
  <2>2. ~(updates /\ message.id \in got.updates)
    <3>1. SUFFICES ASSUME updates, message.id \in got.updates PROVE FALSE
      OBVIOUS
    <3>2. ~skip /\ ~late
      BY <1>4, <1>8, <3>1
    <3>3. ~Holds(mtp.window, message.id) /\ message.id \notin pending.ids /\ ~(message.id <= mtp.floor)
      BY <1>4, <1>8, <3>2
    <3> QED BY <1>21, <3>1, <3>3
  <2>3. ~got.again
    BY <1>1 DEF Recognised, UpdatesOnce
  <2>4. ~got'.again
    BY <1>9, <2>2, <2>3
  <2>5. \A x \in Int : Holds(mtp'.window, x) => x \in got'.received
    BY <1>7, <1>9
  <2> QED BY <1>7, <2>1, <2>4, <2>5 DEF Recognised, UpdatesOnce
<1>23. Aged'
  <2>1. ASSUME NEW x \in got'.lost PROVE Old(R, x)
    <3>1. CASE x \in got.lost
      <4>1. Old(got.received, x) /\ x \in Int /\ x <= x /\ got.received \subseteq R
        BY <1>1, <1>6, <1>20, <3>1 DEF Aged
      <4> QED BY <1>7, <1>20, <4>1, OldGrows
    <3>2. CASE x \notin got.lost
      <4>1. x = message.id /\ Suppressed(message, late)
        BY <1>9, <2>1, <3>2
      <4>2. late
        BY <4>1 DEF Suppressed
      <4>3. x <= mtp.floor /\ x > 0 /\ x \in Int /\ mtp.floor \in Int
        BY <1>4, <1>8, <4>1, <4>2
      <4>4. mtp.floor > 0
        BY <1>4, <4>3
      <4>5. Old(got.received, mtp.floor) /\ got.received \subseteq R
        BY <1>1, <1>6, <4>4 DEF Aged
      <4> QED BY <1>7, <1>20, <4>3, <4>5, OldGrows
    <3> QED BY <3>1, <3>2
  <2> QED BY <1>7, <1>9, <2>1 DEF Aged
<1>24. AcksKept'
  <2>1. ASSUME NEW x \in out, NeedsAck(x), x.id \in R
        PROVE  x.id \in ToSet(mtp'.acks) \cup AcksIn(packet.messages) \cup acked
    <3>1. CASE x.id \in got.received
      BY <1>1, <1>7, <2>1, <3>1 DEF AcksKept
    <3>2. CASE x.id \notin got.received
      <4>1. x.id = message.id
        BY <1>6, <2>1, <3>2
      <4>2. x = message
        BY <1>1, <1>4, <4>1 DEF Issued
      <4> QED BY <1>7, <2>1, <4>2
    <3> QED BY <3>1, <3>2
  <2>2. out' = out /\ packet' = packet /\ acked' = acked /\ got'.received = R
    BY <1>8, <1>9
  <2> QED BY <2>1, <2>2 DEF AcksKept, NeedsAck
<1> QED BY <1>11, <1>12, <1>13, <1>14, <1>15, <1>16, <1>17, <1>18, <1>22, <1>23, <1>24 DEF Inv, TypeOK


-----------------------------------------------------------------------------
(* The theorems *)

LEMMA InitInv ==
    ASSUME Init
    PROVE  Inv
<1>1. PICK z : z = <<>>
  OBVIOUS
<1>2. /\ z \in Seq(Nat) /\ z \in Seq(Framable) /\ z \in Seq([id : Nat, salt : Nat, messages : Seq(Framable)])
      /\ z \in Seq(0 .. OffsetLimit - 1) /\ Len(z) = 0 /\ DOMAIN z = {}
  BY <1>1
<1>3. budget \in Budget /\ budget.salt \in Nat
  BY Limits DEF Init, Budget
<1>4. TypeClocks
  BY <1>3, Limits DEF Init, TypeClocks
<1>5. PICK o : o = OnlySalt(budget.salt)
  OBVIOUS
<1>6. o \in Salts /\ o # <<>>
  BY <1>3, <1>5, OnlySaltIs
<1>7. PICK w : w = [base |-> 0, offsets |-> z]
  OBVIOUS
<1>8. w = EmptyWindow /\ w.offsets = z /\ w \in [base : Int, offsets : Seq(0 .. OffsetLimit - 1)]
  BY <1>1, <1>2, <1>7 DEF EmptyWindow
<1>9. GoodWindow(w)
  BY <1>2, <1>8, Window DEF GoodWindow, Ascending
<1>10. mtp = [offset |-> 0, last |-> 0, seq |-> 0, salts |-> o, saltTime |-> z,
              saltRequest |-> None, saltFailures |-> 0, acks |-> z, old |-> FALSE, flush |-> FALSE,
              deferred |-> FALSE, window |-> w, floor |-> 0]
  BY <1>1, <1>5, <1>8 DEF Init
<1>11. /\ mtp \in Session /\ mtp.salts = o /\ mtp.acks = z /\ mtp.window = w /\ mtp.floor = 0
       /\ mtp.saltRequest = None
  BY <1>2, <1>6, <1>8, <1>10 DEF Session
<1>12. TypeSession /\ Prefetch(mtp)
  <2>1. Len(mtp.acks) <= AckLimit /\ Len(mtp.window.offsets) <= Capacity
    BY <1>2, <1>8, <1>11, Limits, Window
  <2> QED BY <1>6, <1>11, <2>1 DEF TypeSession, Prefetch
<1>13. TypeRequest
  BY DEF Init, TypeRequest
<1>14. packet = [messages |-> z, size |-> 0, full |-> FALSE] /\ packet.messages = z
  BY <1>1 DEF Init, NoPacket
<1>15. TypePacket
  BY <1>2, <1>14, Limits DEF TypePacket
<1>16. SaltPacket
  BY <1>2, <1>14 DEF SaltPacket, HasSalts
<1>17. wire = z
  BY <1>1 DEF Init
<1>18. TypeWire /\ SaltRequestAlone
  BY <1>2, <1>17 DEF TypeWire, SaltRequestAlone
<1>19. TypeTelegram
  BY DEF Init, TypeTelegram
<1>20. /\ pending = Quiet /\ acked = {} /\ out = {}
       /\ got = [received |-> {}, updates |-> {}, again |-> FALSE, lost |-> {}, corrected |-> FALSE]
  BY DEF Init
<1>21. TypeDecoding
  BY <1>20, QuietIs DEF TypeDecoding
<1>22. Turns
  BY <1>20 DEF Turns
<1>23. /\ pending.ids = {} /\ pending.nested = FALSE /\ pending.left = z
       /\ got.received = {} /\ got.updates = {} /\ got.lost = {} /\ got.again = FALSE
  BY <1>1, <1>20, QuietIs
<1>24. Issued
  BY <1>2, <1>20, <1>23 DEF Issued
<1>25. Opened
  BY <1>1, <1>23 DEF Opened
<1>26. Recognised
  <2>1. \A x \in Int : ~Holds(w, x)
    BY <1>2, <1>8 DEF Holds
  <2> QED BY <1>9, <1>11, <1>23, <2>1 DEF Recognised, UpdatesOnce
<1>27. Aged
  BY <1>11, <1>23, FS_EmptySet DEF Aged
<1>28. AcksKept
  BY <1>20 DEF AcksKept
<1> QED BY <1>4, <1>12, <1>13, <1>15, <1>16, <1>18, <1>19, <1>21, <1>22, <1>24, <1>25, <1>26, <1>27, <1>28
        DEF Inv, TypeOK

LEMMA StutterKeeps ==
    ASSUME Inv, UNCHANGED vars
    PROVE  Inv'
<1>1. /\ TypeClocks /\ TypeSession /\ TypeRequest /\ TypePacket /\ TypeWire /\ TypeTelegram
      /\ TypeDecoding /\ Turns /\ Prefetch(mtp) /\ SaltPacket /\ SaltRequestAlone /\ Issued /\ AcksKept
  BY InvParts
<1>2. UNCHANGED <<time, skew, mtp, packet, request, wire, out, pending, server, got, acked, open, budget>>
  BY DEF vars
<1>3. /\ TypeSession' /\ TypeRequest' /\ TypePacket' /\ Turns' /\ Prefetch(mtp)' /\ SaltPacket'
      /\ Opened' /\ Recognised' /\ Aged'
  BY <1>2, ClientStill
<1>4. TypeClocks' /\ TypeWire' /\ TypeTelegram' /\ TypeDecoding' /\ SaltRequestAlone'
  BY <1>1, <1>2 DEF TypeClocks, TypeWire, TypeTelegram, TypeDecoding, SaltRequestAlone
<1>5. Issued'
  BY <1>1, <1>2 DEF Issued
<1>6. AcksKept'
  BY <1>1, <1>2 DEF AcksKept, NeedsAck
<1> QED BY <1>3, <1>4, <1>5, <1>6 DEF Inv, TypeOK

(* Whatever is framed, decoded, sent or lost, and whatever the clocks do, the invariant of
   the session holds *)
THEOREM SessionInvariance == Spec => []Inv
<1>1. Init => Inv
  BY InitInv
<1>2. ASSUME Inv, [Next]_vars PROVE Inv'
  <2>1. CASE Frame
    BY <1>2, <2>1, FinalizeKeeps, PushKeeps DEF Frame
  <2>2. CASE Decode
    BY <1>2, <2>2, ProcessKeeps, RememberNextKeeps, DecodeFailsKeeps DEF Decode
  <2>3. CASE Deliver
    BY <1>2, <2>3, DeserializeKeeps DEF Deliver
  <2>4. CASE AcksAge \/ OnServiceTimeout
    BY <1>2, <2>4, TimerKeeps
  <2>5. CASE ServerReceives
    BY <1>2, <2>5, ServerReceivesKeeps
  <2>6. CASE ServerUpdate \/ ServerContainer \/ ServerService
    BY <1>2, <2>6, ServerMessagesKeep
  <2>7. CASE Tick \/ ClockJump
    BY <1>2, <2>7, ClocksKeep
  <2>8. CASE UNCHANGED vars
    BY <1>2, <2>8, StutterKeeps
  <2> QED BY <1>2, <2>1, <2>2, <2>3, <2>4, <2>5, <2>6, <2>7, <2>8 DEF Next
<1> QED BY <1>1, <1>2, PTL DEF Spec

(* No update is delivered twice, however often Telegram sends it, alone or in containers,
   and nothing is held back that is not old (process_bounded, remember_received) *)
THEOREM DeliveredOnceCorrect == Spec => []DeliveredOnce
<1>1. ASSUME Inv PROVE DeliveredOnce
  <2>1. Recognised /\ Aged
    BY <1>1, InvParts
  <2> QED BY <2>1 DEF DeliveredOnce, UpdatesOnce, HeldBackOnlyWhenOld, Recognised, Aged, Old
<1> QED BY <1>1, SessionInvariance, PTL

(* What goes on the wire is within the limits of a container, and a request for salts is
   alone in its packet (push, finalize) *)
THEOREM WellFramedCorrect == Spec => []WellFramed
<1>1. ASSUME Inv PROVE WellFramed
  BY <1>1 DEF Inv, WellFramed
<1> QED BY <1>1, SessionInvariance, PTL

(* No identifier that waits to be acknowledged is dropped (queue_ack, serialize_pending_ack) *)
THEOREM AcksKeptCorrect == Spec => []AcksKept
<1>1. ASSUME Inv PROVE AcksKept
  BY <1>1 DEF Inv
<1> QED BY <1>1, SessionInvariance, PTL

=============================================================================
