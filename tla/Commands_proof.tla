--------------------------- MODULE Commands_proof ---------------------------
(***************************************************************************)
(* What a node under remote control tells of itself, for every             *)
(* configuration, every rule that fits into a packet and every value       *)
(* written: that rules and windows survive the way to the wire and back,   *)
(* that the replies are true and a listing whole, and what a write of the  *)
(* configuration does to the commands that come after it.                  *)
(*                                                                         *)
(* The arrays come first (sequences joined, an entry's array laid out,     *)
(* read again), then the state: the table holds only rules that fit, the   *)
(* memory holds what was written, and the answers on their way speak of    *)
(* the table as it is.                                                     *)
(***************************************************************************)
EXTENDS Commands, SequenceTheorems, WellFoundedInduction, TLAPS

(* A set of numbers has a least one, so that induction needs no predicate. *)
LEMMA Least ==
  ASSUME NEW T, T \subseteq Nat, T # {}
  PROVE  \E x \in T : \A y \in T : x <= y
<1>1. PICK x \in T : \A y \in T : ~ (<<y, x>> \in OpToRel(<, Nat))
  BY WFMin, NatLessThanWellFounded, Zenon
<1>2. \A y \in T : ~ (y < x)
  BY <1>1 DEF OpToRel
<1> QED
  BY <1>2

LEMMA Induction ==
  ASSUME NEW S, 0 \in S, \A n \in Nat : n \in S => n + 1 \in S
  PROVE  Nat \subseteq S
<1> DEFINE T == Nat \ S
<1> SUFFICES ASSUME T # {} PROVE FALSE
  OBVIOUS
<1>1. PICK x \in T : \A y \in T : x <= y
  BY Least
<1>2. x # 0 /\ x - 1 \in Nat /\ (x - 1) + 1 = x
  BY <1>1
<1>3. x - 1 \notin T
  BY <1>1, <1>2
<1> QED
  BY <1>1, <1>2, <1>3

(* A list of sequences, joined piece by piece. *)
Joins(s, h, k) == h[0] = << >> /\ \A i \in 1 .. k : h[i] = h[i - 1] \o s[i]

LEMMA JoinExists ==
  ASSUME NEW S, NEW s \in Seq(Seq(S))
  PROVE  \E h \in [0 .. Len(s) -> Seq(S)] : Joins(s, h, Len(s))
<1> DEFINE Has(k) == k <= Len(s) => \E h \in [0 .. k -> Seq(S)] : Joins(s, h, k)
           T == {k \in Nat : Has(k)}
<1>1. Has(0)
  <2> DEFINE h == [i \in 0 .. 0 |-> << >>]
  <2>1. h \in [0 .. 0 -> Seq(S)] /\ h[0] = << >>
    OBVIOUS
  <2> HIDE DEF h
  <2>2. Joins(s, h, 0)
    BY <2>1 DEF Joins
  <2> QED
    BY <2>1, <2>2
<1>2. ASSUME NEW k \in Nat, Has(k) PROVE Has(k + 1)
  <2> SUFFICES ASSUME k + 1 <= Len(s)
               PROVE  \E h \in [0 .. k + 1 -> Seq(S)] : Joins(s, h, k + 1)
    OBVIOUS
  <2>1. PICK h \in [0 .. k -> Seq(S)] : Joins(s, h, k)
    BY <1>2
  <2> DEFINE g == [i \in 0 .. k + 1 |-> IF i <= k THEN h[i] ELSE h[k] \o s[k + 1]]
  <2>2. h[k] \o s[k + 1] \in Seq(S)
    <3>1. h[k] \in Seq(S) /\ s[k + 1] \in Seq(S)
      OBVIOUS
    <3> QED
      BY <3>1
  <2>3. \A i \in 0 .. k : g[i] = h[i]
    OBVIOUS
  <2>4. g[k + 1] = h[k] \o s[k + 1]
    OBVIOUS
  <2>5. g \in [0 .. k + 1 -> Seq(S)]
    BY <2>2
  <2> HIDE DEF g
  <2>6. \A i \in 1 .. k + 1 : i = k + 1 \/ (i \in 1 .. k /\ i - 1 \in 0 .. k /\ i \in 0 .. k)
    OBVIOUS
  <2>7. g[0] = << >>
    BY <2>1, <2>3 DEF Joins
  <2>8. ASSUME NEW i \in 1 .. k + 1 PROVE g[i] = g[i - 1] \o s[i]
    <3>1. CASE i = k + 1
      <4>1. i - 1 = k /\ k \in 0 .. k
        BY <3>1
      <4> QED
        BY <2>3, <2>4, <3>1, <4>1
    <3>2. CASE i \in 1 .. k /\ i - 1 \in 0 .. k /\ i \in 0 .. k
      BY <2>1, <2>3, <3>2 DEF Joins
    <3> QED
      BY <2>6, <3>1, <3>2
  <2>9. Joins(s, g, k + 1)
    BY <2>7, <2>8 DEF Joins
  <2> QED
    BY <2>5, <2>9
<1> HIDE DEF Has
<1>3. \A k \in Nat : k \in T => k + 1 \in T
  BY <1>2
<1>4. Nat \subseteq T
  BY <1>1, <1>3, Induction
<1> QED
  BY <1>4 DEF Has

(* FlattenSeq is the last of the joins. *)
LEMMA FlattenIs ==
  ASSUME NEW S, NEW s \in Seq(Seq(S)), NEW h \in [0 .. Len(s) -> Seq(S)], Joins(s, h, Len(s))
  PROVE  FlattenSeq(s) = h[Len(s)]
<1>1. CASE Len(s) = 0
  BY <1>1 DEF FlattenSeq, Joins
<1>2. CASE Len(s) # 0
  <2> DEFINE n == Len(s)
             Is(g) == g = [i \in 1 .. n |-> IF i = 1 THEN s[i] ELSE g[i - 1] \o s[i]]
             f == [i \in 1 .. n |-> h[i]]
             c == CHOOSE g : Is(g)
  <2>1. n \in Nat /\ n >= 1
    BY <1>2
  <2>2. FlattenSeq(s) = c[n]
    BY <1>2 DEF FlattenSeq
  <2> HIDE DEF n
  <2>3. \A i \in 1 .. n : f[i] = IF i = 1 THEN s[i] ELSE f[i - 1] \o s[i]
    <3> SUFFICES ASSUME NEW i \in 1 .. n
                 PROVE  h[i] = IF i = 1 THEN s[i] ELSE f[i - 1] \o s[i]
      OBVIOUS
    <3>1. h[i] = h[i - 1] \o s[i] /\ s[i] \in Seq(S)
      BY DEF Joins, n
    <3>2. CASE i = 1
      <4>1. h[i - 1] = << >>
        BY <3>2 DEF Joins
      <4>2. << >> \o s[i] = s[i]
        BY <3>1
      <4> QED
        BY <3>1, <3>2, <4>1, <4>2
    <3>3. CASE i # 1
      <4>1. i - 1 \in 1 .. n
        BY <2>1, <3>3
      <4> QED
        BY <3>1, <3>3, <4>1
    <3> QED
      BY <3>2, <3>3
  <2>4. Is(f)
    BY <2>3
  <2>5. Is(c)
    BY <2>4
  <2> DEFINE T == {k \in Nat : k + 1 <= n => c[k + 1] = h[k + 1]}
  <2> HIDE DEF c
  <2>6. \A i \in 1 .. n : c[i] = IF i = 1 THEN s[i] ELSE c[i - 1] \o s[i]
    BY <2>5
  <2>7. \A i \in 1 .. n : h[i] = IF i = 1 THEN s[i] ELSE h[i - 1] \o s[i]
    <3> SUFFICES ASSUME NEW i \in 1 .. n, i # 1 PROVE h[i] = h[i - 1] \o s[i]
      BY <2>1, <2>3
    <3> QED
      BY DEF Joins, n
  <2>8. 0 \in T
    <3>1. 1 \in 1 .. n
      BY <2>1
    <3> QED
      BY <2>6, <2>7, <3>1
  <2>9. ASSUME NEW k \in Nat, k \in T PROVE k + 1 \in T
    <3> DEFINE m == k + 1
    <3> SUFFICES ASSUME m + 1 <= n PROVE c[m + 1] = h[m + 1]
      OBVIOUS
    <3>1. m + 1 \in 1 .. n /\ m + 1 # 1 /\ (m + 1) - 1 = m /\ c[m] = h[m]
      BY <2>1, <2>9
    <3> HIDE DEF m, T
    <3>2. c[m + 1] = c[(m + 1) - 1] \o s[m + 1] /\ h[m + 1] = h[(m + 1) - 1] \o s[m + 1]
      BY <2>6, <2>7, <3>1, Zenon
    <3> QED
      BY <3>1, <3>2, Zenon
  <2>10. Nat \subseteq T
    BY <2>8, <2>9, Induction
  <2>11. c[n] = h[n]
    <3>1. n - 1 \in Nat /\ (n - 1) + 1 = n
      BY <2>1
    <3>2. n - 1 \in T
      BY <2>10, <3>1
    <3> QED
      BY <2>1, <3>1, <3>2
  <2> QED
    BY <2>2, <2>11 DEF n
<1> QED
  BY <1>1, <1>2

LEMMA Joined ==
  ASSUME NEW S, NEW p \in Seq(S), NEW q \in Seq(S)
  PROVE  /\ p \o q \in Seq(S) /\ Len(p \o q) = Len(p) + Len(q)
         /\ \A j \in 1 .. Len(p) : (p \o q)[j] = p[j]
         /\ \A j \in 1 .. Len(q) : (p \o q)[Len(p) + j] = q[j]
  OBVIOUS

LEMMA Pieces ==
  ASSUME NEW S, NEW s \in Seq(Seq(S)), NEW h \in [0 .. Len(s) -> Seq(S)]
  PROVE  /\ \A i \in 0 .. Len(s) : h[i] \in Seq(S)
         /\ \A i \in 1 .. Len(s) : s[i] \in Seq(S)
<1>1. \A T : \A q \in Seq(T) : \A i \in 1 .. Len(q) : q[i] \in T
  OBVIOUS
<1>2. \A i \in 1 .. Len(s) : s[i] \in Seq(S)
  BY <1>1, Zenon
<1> QED
  BY <1>2

(* What has been joined stays where it is. *)
LEMMA JoinKept ==
  ASSUME NEW S, NEW s \in Seq(Seq(S)), NEW h \in [0 .. Len(s) -> Seq(S)], Joins(s, h, Len(s)),
         NEW m \in 0 .. Len(s)
  PROVE  /\ Len(h[m]) <= Len(h[Len(s)])
         /\ \A j \in 1 .. Len(h[m]) : h[Len(s)][j] = h[m][j]
<1> DEFINE n == Len(s)
           Like(k) == Len(h[m]) <= Len(h[k]) /\ \A j \in 1 .. Len(h[m]) : h[k][j] = h[m][j]
           T == {k \in Nat : m + k <= n => Like(m + k)}
<1>1. n \in Nat /\ m \in Nat /\ m <= n /\ Len(h[m]) \in Nat
  OBVIOUS
<1>2. 0 \in T
  BY <1>1
<1>3. ASSUME NEW k \in Nat, k \in T PROVE k + 1 \in T
  <2> SUFFICES ASSUME m + (k + 1) <= n PROVE Like(m + (k + 1))
    OBVIOUS
  <2> DEFINE l == m + k
  <2>1. /\ l \in 0 .. n /\ l + 1 \in 1 .. n /\ (l + 1) - 1 = l /\ m + (k + 1) = l + 1
        /\ Like(l)
    BY <1>1, <1>3
  <2>2. h[l + 1] = h[l] \o s[l + 1]
    BY <2>1 DEF Joins
  <2>3. h[l] \in Seq(S) /\ s[l + 1] \in Seq(S)
    BY <2>1, Pieces, Zenon DEF n
  <2>4. /\ Len(h[l] \o s[l + 1]) = Len(h[l]) + Len(s[l + 1])
        /\ \A j \in 1 .. Len(h[l]) : (h[l] \o s[l + 1])[j] = h[l][j]
    <3> DEFINE p == h[l]
               q == s[l + 1]
    <3> HIDE DEF p, q
    <3>1. p \in Seq(S) /\ q \in Seq(S)
      BY <2>3 DEF p, q
    <3>2. Len(p \o q) = Len(p) + Len(q) /\ \A j \in 1 .. Len(p) : (p \o q)[j] = p[j]
      BY <3>1, Joined
    <3> QED
      BY <3>2 DEF p, q
  <2>5. Len(h[l]) \in Nat /\ Len(s[l + 1]) \in Nat
    BY <2>3
  <2>6. Len(h[l + 1]) = Len(h[l]) + Len(s[l + 1]) /\ Len(h[l + 1]) \in Nat
        /\ \A j \in 1 .. Len(h[l]) : h[l + 1][j] = h[l][j]
    <3>1. /\ Len(h[l + 1]) = Len(h[l]) + Len(s[l + 1])
          /\ \A j \in 1 .. Len(h[l]) : h[l + 1][j] = h[l][j]
      BY <2>2, <2>4, Zenon
    <3>2. \A y, z \in Nat : y + z \in Nat
      OBVIOUS
    <3>3. Len(h[l]) + Len(s[l + 1]) \in Nat
      BY <2>5, <3>2, Zenon
    <3> QED
      BY <3>1, <3>3, Zenon
  <2> HIDE DEF l
  <2>7. Like(l + 1)
    BY <1>1, <2>1, <2>5, <2>6
  <2> QED
    BY <2>1, <2>7
<1> HIDE DEF Like
<1>4. \A k \in Nat : k \in T => k + 1 \in T
  BY <1>3
<1>5. Nat \subseteq T
  BY <1>2, <1>4, Induction
<1>6. n - m \in Nat /\ m + (n - m) = n
  BY <1>1
<1>7. n - m \in T
  BY <1>5, <1>6
<1>8. Like(n)
  BY <1>1, <1>6, <1>7
<1> QED
  BY <1>8 DEF Like, n

(* Where each piece begins. *)
Begins(s, at) ==
  /\ at \in [0 .. Len(s) -> Nat] /\ at[0] = 0 /\ at[Len(s)] = Len(FlattenSeq(s))
  /\ \A m \in 1 .. Len(s) :
       /\ at[m] = at[m - 1] + Len(s[m]) /\ at[m] <= at[Len(s)]
       /\ \A j \in 1 .. Len(s[m]) : FlattenSeq(s)[at[m - 1] + j] = s[m][j]

LEMMA FlattenFacts ==
  ASSUME NEW S, NEW s \in Seq(Seq(S))
  PROVE  FlattenSeq(s) \in Seq(S) /\ \E at : Begins(s, at)
<1>1. PICK h \in [0 .. Len(s) -> Seq(S)] : Joins(s, h, Len(s))
  BY JoinExists
<1> DEFINE n == Len(s)
           at == [m \in 0 .. n |-> Len(h[m])]
<1>2. n \in Nat /\ 0 \in 0 .. n /\ n \in 0 .. n
  OBVIOUS
<1>3. FlattenSeq(s) = h[n]
  BY <1>1, FlattenIs
<1>4. FlattenSeq(s) \in Seq(S)
  BY <1>2, <1>3
<1>5. at \in [0 .. n -> Nat] /\ \A m \in 0 .. n : at[m] = Len(h[m])
  <2>1. \A m \in 0 .. n : Len(h[m]) \in Nat
    OBVIOUS
  <2> QED
    BY <2>1
<1> HIDE DEF at
<1>6. at[0] = 0
  BY <1>1, <1>2, <1>5 DEF Joins
<1>7. at[n] = Len(FlattenSeq(s))
  BY <1>2, <1>3, <1>5
<1>8. ASSUME NEW m \in 1 .. n
      PROVE  /\ at[m] = at[m - 1] + Len(s[m]) /\ at[m] <= at[n]
             /\ \A j \in 1 .. Len(s[m]) : h[n][at[m - 1] + j] = s[m][j]
  <2>1. m \in 0 .. n /\ m - 1 \in 0 .. n
    BY <1>2
  <2>2. h[m] = h[m - 1] \o s[m] /\ h[m - 1] \in Seq(S) /\ s[m] \in Seq(S)
    <3>1. h[m] = h[m - 1] \o s[m]
      BY <1>1 DEF Joins
    <3>2. h[m - 1] \in Seq(S) /\ s[m] \in Seq(S)
      BY <2>1, Pieces, Zenon DEF n
    <3> QED
      BY <3>1, <3>2
  <2>3. /\ Len(h[m]) = Len(h[m - 1]) + Len(s[m])
        /\ \A j \in 1 .. Len(s[m]) : h[m][Len(h[m - 1]) + j] = s[m][j]
    <3> DEFINE p == h[m - 1]
               q == s[m]
    <3>1. /\ Len(p \o q) = Len(p) + Len(q)
          /\ \A j \in 1 .. Len(q) : (p \o q)[Len(p) + j] = q[j]
      <4>1. p \in Seq(S) /\ q \in Seq(S)
        BY <2>2
      <4> HIDE DEF p, q
      <4> QED
        BY <4>1, Joined
    <3> QED
      BY <2>2, <3>1, Zenon
  <2>4. Len(h[m]) <= Len(h[n]) /\ \A j \in 1 .. Len(h[m]) : h[n][j] = h[m][j]
    BY <1>1, <2>1, JoinKept
  <2>5. at[m] = Len(h[m]) /\ at[m - 1] = Len(h[m - 1]) /\ at[n] = Len(h[n])
    BY <1>2, <1>5, <2>1
  <2>6. Len(h[m - 1]) \in Nat /\ Len(s[m]) \in Nat
    BY <2>2
  <2>7. ASSUME NEW j \in 1 .. Len(s[m]) PROVE h[n][at[m - 1] + j] = s[m][j]
    <3>1. Len(h[m - 1]) + j \in 1 .. Len(h[m])
      <4>1. \A x, y \in Nat : \A i \in 1 .. y : x + i \in 1 .. x + y
        OBVIOUS
      <4> QED
        BY <2>3, <2>6, <4>1, Zenon
    <3> QED
      BY <2>3, <2>4, <2>5, <3>1
  <2> QED
    BY <2>3, <2>4, <2>5, <2>7
<1>9. Begins(s, at)
  BY <1>3, <1>5, <1>6, <1>7, <1>8 DEF Begins
<1> QED
  BY <1>4, <1>9

(* Where the bits of a window's first byte end up. *)
HeadByte(o, l, r, s) == o * 32 + l * 8 + r * 2 + s

(* A window's fields are of the sizes that its bits hold. *)
LEMMA FieldSizes ==
  ASSUME NEW w \in Window
  PROVE  /\ w.op \in Operator /\ w.size \in OperandSize
         /\ w.lhs_location \in Location /\ w.rhs_location \in Location
         /\ w.lhs \in Word /\ w.rhs \in Word
         /\ w = [op |-> w.op, size |-> w.size, lhs_location |-> w.lhs_location,
                 rhs_location |-> w.rhs_location, lhs |-> w.lhs, rhs |-> w.rhs]
  BY DEF Window

(* t is p and then q. *)
Glued(p, q, t) ==
  /\ Len(t) = Len(p) + Len(q)
  /\ \A j \in 1 .. Len(p) : t[j] = p[j]
  /\ \A j \in 1 .. Len(q) : t[Len(p) + j] = q[j]

LEMMA Glue == \A S : \A p \in Seq(S) : \A q \in Seq(S) : p \o q \in Seq(S) /\ Glued(p, q, p \o q)
  BY DEF Glued

LEMMA Element == \A T : \A q \in Seq(T) : \A i \in 1 .. Len(q) : q[i] \in T
  OBVIOUS

LEMMA WindowArray ==
  ASSUME NEW w \in Window
  PROVE  ArrayFromWindow(w) \in Seq(Nat) /\ Len(ArrayFromWindow(w)) = 5
<1> DEFINE h == w.op * 32 + w.lhs_location * 8 + w.rhs_location * 2 + w.size
<1>1. ArrayFromWindow(w) =
        <<h, w.lhs \div 256, w.lhs % 256, w.rhs \div 256, w.rhs % 256>>
  BY Zenon DEF ArrayFromWindow
<1>2. \A o, l, r, s \in Nat : o * 32 + l * 8 + r * 2 + s \in Nat
  OBVIOUS
<1>3. h \in Nat
  <2>1. /\ w.op \in Nat /\ w.lhs_location \in Nat /\ w.rhs_location \in Nat /\ w.size \in Nat
    BY FieldSizes DEF Operator, OperandSize, Location
  <2> QED
    BY <1>2, <2>1, Zenon
<1>4. \A v \in Word : v \div 256 \in Nat /\ v % 256 \in Nat
  BY DEF Word
<1>5. /\ w.lhs \div 256 \in Nat /\ w.lhs % 256 \in Nat
      /\ w.rhs \div 256 \in Nat /\ w.rhs % 256 \in Nat
  BY <1>4, FieldSizes, Zenon
<1>6. \A x1, x2, x3, x4, x5 \in Nat :
        <<x1, x2, x3, x4, x5>> \in Seq(Nat) /\ Len(<<x1, x2, x3, x4, x5>>) = 5
  OBVIOUS
<1> DEFINE l1 == w.lhs \div 256
           l2 == w.lhs % 256
           r1 == w.rhs \div 256
           r2 == w.rhs % 256
<1> HIDE DEF h, l1, l2, r1, r2
<1>7. h \in Nat /\ l1 \in Nat /\ l2 \in Nat /\ r1 \in Nat /\ r2 \in Nat
  BY <1>3, <1>5 DEF l1, l2, r1, r2
<1>8. ArrayFromWindow(w) = <<h, l1, l2, r1, r2>>
  BY <1>1 DEF l1, l2, r1, r2
<1> QED
  BY <1>7, <1>8

LEMMA ActionArray ==
  ASSUME NEW a \in Action
  PROVE  /\ ArrayFromAction(a) \in Seq(Nat) /\ Len(ArrayFromAction(a)) = Len(a.bytes) + 2
         /\ ArrayFromAction(a)[1] = Len(a.bytes) + 1 /\ ArrayFromAction(a)[2] = a.type
         /\ \A j \in 1 .. Len(a.bytes) : ArrayFromAction(a)[2 + j] = a.bytes[j]
<1> DEFINE p == <<Len(a.bytes) + 1, a.type>>
           q == a.bytes
<1>1. a.type \in Byte /\ q \in Seq(Byte)
  BY DEF Action
<1>2. q \in Seq(Nat) /\ Len(q) \in Nat /\ a.type \in Nat
  <2>1. Byte \subseteq Nat /\ \A x \in Byte : x \in Nat
    BY DEF Byte
  <2>2. q \in Seq(Nat) /\ Len(q) \in Nat
    <3>1. \A S, T : S \subseteq T => Seq(S) \subseteq Seq(T)
      OBVIOUS
    <3>2. \A x \in Seq(Nat) : Len(x) \in Nat
      OBVIOUS
    <3> QED
      BY <1>1, <2>1, <3>1, <3>2, Zenon
  <2> QED
    BY <1>1, <2>1, <2>2, Zenon
<1>3. p \in Seq(Nat) /\ Len(p) = 2 /\ p[1] = Len(q) + 1 /\ p[2] = a.type
  BY <1>2
<1>4. ArrayFromAction(a) = p \o q
  BY DEF ArrayFromAction
<1> HIDE DEF p, q
<1>5. p \o q \in Seq(Nat) /\ Glued(p, q, p \o q)
  BY <1>2, <1>3, Glue, Zenon
<1>6. /\ p \o q \in Seq(Nat) /\ Len(p \o q) = Len(q) + 2
      /\ (p \o q)[1] = Len(q) + 1 /\ (p \o q)[2] = a.type
      /\ \A j \in 1 .. Len(q) : (p \o q)[2 + j] = q[j]
  BY <1>2, <1>3, <1>5 DEF Glued
<1> QED
  BY <1>4, <1>6 DEF q

Glued4(p, q, r, s, t) ==
  /\ Len(t) = Len(p) + Len(q) + Len(r) + Len(s)
  /\ \A j \in 1 .. Len(p) : t[j] = p[j]
  /\ \A j \in 1 .. Len(q) : t[Len(p) + j] = q[j]
  /\ \A j \in 1 .. Len(r) : t[Len(p) + Len(q) + j] = r[j]
  /\ \A j \in 1 .. Len(s) : t[Len(p) + Len(q) + Len(r) + j] = s[j]

LEMMA Joined4 ==
  ASSUME NEW S, NEW p \in Seq(S), NEW q \in Seq(S), NEW r \in Seq(S), NEW s \in Seq(S),
         NEW t, t = p \o q \o r \o s
  PROVE  t \in Seq(S) /\ Glued4(p, q, r, s, t)
<1> DEFINE u == p \o q
           v == u \o r
<1>1. u \in Seq(S) /\ Glued(p, q, u)
  BY Glue, Zenon
<1> HIDE DEF u
<1>2. v \in Seq(S) /\ Glued(u, r, v)
  BY <1>1, Glue, Zenon
<1>3. t = v \o s
  BY Zenon DEF u, v
<1> HIDE DEF v
<1>4. t \in Seq(S) /\ Glued(v, s, t)
  BY <1>2, <1>3, Glue, Zenon
<1> USE DEF Glued
<1>5. Len(p) \in Nat /\ Len(q) \in Nat /\ Len(r) \in Nat /\ Len(s) \in Nat
  OBVIOUS
<1>6. /\ Len(u) = Len(p) + Len(q) /\ Len(v) = Len(p) + Len(q) + Len(r)
      /\ Len(t) = Len(p) + Len(q) + Len(r) + Len(s)
  BY <1>1, <1>2, <1>4
<1>7. \A j \in 1 .. Len(p) : t[j] = p[j]
  <2>1. \A j \in 1 .. Len(p) : j \in 1 .. Len(u) /\ j \in 1 .. Len(v)
    BY <1>5, <1>6
  <2> QED
    BY <1>1, <1>2, <1>4, <2>1
<1>8. \A j \in 1 .. Len(q) : t[Len(p) + j] = q[j]
  <2>1. \A j \in 1 .. Len(q) : Len(p) + j \in 1 .. Len(u) /\ Len(p) + j \in 1 .. Len(v)
    BY <1>5, <1>6
  <2> QED
    BY <1>1, <1>2, <1>4, <2>1
<1>9. \A j \in 1 .. Len(r) : t[Len(p) + Len(q) + j] = r[j]
  <2>1. \A j \in 1 .. Len(r) : Len(u) + j \in 1 .. Len(v)
    BY <1>2, <1>5, <1>6
  <2> QED
    BY <1>2, <1>4, <1>6, <2>1
<1>10. \A j \in 1 .. Len(s) : t[Len(p) + Len(q) + Len(r) + j] = s[j]
  BY <1>4, <1>6
<1> QED
  BY <1>4, <1>6, <1>7, <1>8, <1>9, <1>10 DEF Glued4

(* The array of an entry: the windows from byte 2 on, the m-th action behind  *)
(* byte at[m - 1], and two bytes behind the last.                            *)
Layout(e, b, at) ==
  /\ at \in [0 .. Len(e.actions) -> Nat] /\ at[0] = 5 * Len(e.windows) + 1
  /\ \A m \in 1 .. Len(e.actions) :
       /\ at[m] = at[m - 1] + Len(e.actions[m].bytes) + 2
       /\ at[m] <= at[Len(e.actions)]
       /\ \A j \in 1 .. Len(e.actions[m].bytes) + 2 :
            b[at[m - 1] + j] = ArrayFromAction(e.actions[m])[j]
  /\ Len(b) = at[Len(e.actions)] + 2
  /\ b[1] = 5 * Len(e.windows)
  /\ \A k \in 1 .. Len(e.windows) : \A j \in 1 .. 5 :
       b[5 * (k - 1) + 1 + j] = ArrayFromWindow(e.windows[k])[j]

LEMMA EntryTypes ==
  ASSUME NEW e \in Entry
  PROVE  /\ e.windows \in Seq(Window) /\ e.actions \in Seq(Action)
         /\ e.ttl \in Word /\ e.count \in Word
         /\ Len(e.windows) \in Nat /\ Len(e.actions) \in Nat
         /\ \A k \in 1 .. Len(e.windows) : e.windows[k] \in Window
         /\ \A m \in 1 .. Len(e.actions) : e.actions[m] \in Action
                                           /\ Len(e.actions[m].bytes) \in Nat
<1>1. e.windows \in Seq(Window) /\ e.actions \in Seq(Action) /\ e.ttl \in Word /\ e.count \in Word
  BY DEF Entry
<1>2. \A k \in 1 .. Len(e.windows) : e.windows[k] \in Window
  BY <1>1, Element, Zenon
<1>3. \A m \in 1 .. Len(e.actions) : e.actions[m] \in Action
  BY <1>1, Element, Zenon
<1>4. \A a \in Action : Len(a.bytes) \in Nat
  BY DEF Action
<1> QED
  BY <1>1, <1>2, <1>3, <1>4

Wins(e) == [k \in DOMAIN e.windows |-> ArrayFromWindow(e.windows[k])]
Acts(e) == [k \in DOMAIN e.actions |-> ArrayFromAction(e.actions[k])]

LEMMA Mapped ==
  ASSUME NEW T, NEW S, NEW s \in Seq(T), NEW f, f = [k \in DOMAIN s |-> f[k]],
         \A k \in DOMAIN s : f[k] \in S
  PROVE  f \in Seq(S) /\ Len(f) = Len(s)
<1>1. DOMAIN s = 1 .. Len(s) /\ Len(s) \in Nat
  OBVIOUS
<1> QED
  BY <1>1

LEMMA WinsFacts ==
  ASSUME NEW e \in Entry
  PROVE  /\ Wins(e) \in Seq(Seq(Nat)) /\ Len(Wins(e)) = Len(e.windows)
         /\ \A k \in 1 .. Len(e.windows) :
              Wins(e)[k] = ArrayFromWindow(e.windows[k]) /\ Len(Wins(e)[k]) = 5
<1> DEFINE s == e.windows
           f == Wins(e)
<1>1. s \in Seq(Window) /\ DOMAIN s = 1 .. Len(s) /\ \A k \in 1 .. Len(s) : s[k] \in Window
  BY EntryTypes
<1>2. f = [k \in DOMAIN s |-> f[k]] /\ \A k \in DOMAIN s : f[k] = ArrayFromWindow(s[k])
  BY DEF Wins
<1>3. \A k \in DOMAIN s : f[k] \in Seq(Nat) /\ Len(f[k]) = 5
  BY <1>1, <1>2, WindowArray
<1> DEFINE S == Seq(Nat)
<1> HIDE DEF s, f, S
<1>4. f \in Seq(S) /\ Len(f) = Len(s)
  <2>1. \A k \in DOMAIN s : f[k] \in S
    BY <1>3 DEF S
  <2> QED
    BY <1>1, <1>2, <2>1, Mapped
<1> QED
  BY <1>1, <1>2, <1>3, <1>4, Zenon DEF s, f, S

LEMMA ActsFacts ==
  ASSUME NEW e \in Entry
  PROVE  /\ Acts(e) \in Seq(Seq(Nat)) /\ Len(Acts(e)) = Len(e.actions)
         /\ \A m \in 1 .. Len(e.actions) :
              /\ Acts(e)[m] = ArrayFromAction(e.actions[m])
              /\ Len(Acts(e)[m]) = Len(e.actions[m].bytes) + 2
<1> DEFINE s == e.actions
           f == Acts(e)
<1>1. s \in Seq(Action) /\ DOMAIN s = 1 .. Len(s) /\ \A k \in 1 .. Len(s) : s[k] \in Action
  BY EntryTypes
<1>2. f = [k \in DOMAIN s |-> f[k]] /\ \A k \in DOMAIN s : f[k] = ArrayFromAction(s[k])
  BY DEF Acts
<1>3. \A k \in DOMAIN s : f[k] \in Seq(Nat) /\ Len(f[k]) = Len(s[k].bytes) + 2
  BY <1>1, <1>2, ActionArray
<1> DEFINE S == Seq(Nat)
<1> HIDE DEF s, f, S
<1>4. f \in Seq(S) /\ Len(f) = Len(s)
  <2>1. \A k \in DOMAIN s : f[k] \in S
    BY <1>3 DEF S
  <2> QED
    BY <1>1, <1>2, <2>1, Mapped
<1> QED
  BY <1>1, <1>2, <1>3, <1>4, Zenon DEF s, f, S

LEMMA Fives ==
  ASSUME NEW n \in Nat, NEW at \in [0 .. n -> Nat], at[0] = 0,
         \A m \in 1 .. n : at[m] = at[m - 1] + 5
  PROVE  \A m \in 0 .. n : at[m] = 5 * m
<1> DEFINE T == {k \in Nat : k <= n => at[k] = 5 * k}
<1>1. 0 \in T
  OBVIOUS
<1>2. ASSUME NEW k \in Nat, k \in T PROVE k + 1 \in T
  <2> SUFFICES ASSUME k + 1 <= n PROVE at[k + 1] = 5 * (k + 1)
    OBVIOUS
  <2>1. k + 1 \in 1 .. n /\ (k + 1) - 1 = k /\ at[k] = 5 * k
    BY <1>2
  <2> QED
    BY <2>1
<1>3. Nat \subseteq T
  BY <1>1, <1>2, Induction
<1> QED
  BY <1>3

LEMMA ArrayLayout ==
  ASSUME NEW e \in Entry
  PROVE  /\ ArrayFromEntry(e) \in Seq(Nat)
         /\ \E at : Layout(e, ArrayFromEntry(e), at)
         /\ ArrayFromEntry(e)[Len(ArrayFromEntry(e)) - 1] = e.ttl % 256
         /\ ArrayFromEntry(e)[Len(ArrayFromEntry(e))] = e.count % 256
         /\ Len(ArrayFromEntry(e)) >= 3
<1> DEFINE p == <<5 * Len(e.windows)>>
           q == FlattenSeq(Wins(e))
           r == FlattenSeq(Acts(e))
           s == <<e.ttl % 256, e.count % 256>>
           b == ArrayFromEntry(e)
           W == Len(e.windows)
           n == Len(e.actions)
<1>1. b = p \o q \o r \o s
  BY DEF ArrayFromEntry, WINDOW_SIZE, Wins, Acts
<1>2. W \in Nat /\ n \in Nat
  BY EntryTypes
<1>3. p \in Seq(Nat) /\ Len(p) = 1 /\ p[1] = 5 * W
  BY <1>2
<1>4. s \in Seq(Nat) /\ Len(s) = 2 /\ s[1] = e.ttl % 256 /\ s[2] = e.count % 256
  <2>1. \A x \in Word : x % 256 \in Nat
    BY DEF Word
  <2>2. e.ttl % 256 \in Nat /\ e.count % 256 \in Nat
    BY <2>1, EntryTypes, Zenon
  <2> QED
    BY <2>2
<1>5. q \in Seq(Nat) /\ \E at : Begins(Wins(e), at)
  BY WinsFacts, FlattenFacts
<1>6. r \in Seq(Nat) /\ \E at : Begins(Acts(e), at)
  BY ActsFacts, FlattenFacts
<1>7. PICK wat : Begins(Wins(e), wat)
  BY <1>5
<1>8. PICK aat : Begins(Acts(e), aat)
  BY <1>6
<1> HIDE DEF W, n
<1>9. /\ wat \in [0 .. W -> Nat] /\ wat[0] = 0 /\ wat[W] = Len(q)
      /\ \A m \in 1 .. W : /\ wat[m] = wat[m - 1] + 5
                           /\ \A j \in 1 .. 5 : q[wat[m - 1] + j] = ArrayFromWindow(e.windows[m])[j]
  <2>1. Len(Wins(e)) = W
    BY WinsFacts DEF W
  <2>2. \A m \in 1 .. W : Wins(e)[m] = ArrayFromWindow(e.windows[m]) /\ Len(Wins(e)[m]) = 5
    BY WinsFacts DEF W
  <2> DEFINE f == Wins(e)
  <2> HIDE DEF f
  <2>3. Begins(f, wat) /\ Len(f) = W /\ FlattenSeq(f) = q
    BY <1>7, <2>1 DEF f
  <2> HIDE DEF q
  <2>4. /\ wat \in [0 .. W -> Nat] /\ wat[0] = 0 /\ wat[W] = Len(q)
        /\ \A m \in 1 .. W :
             /\ wat[m] = wat[m - 1] + Len(f[m])
             /\ \A j \in 1 .. Len(f[m]) : q[wat[m - 1] + j] = f[m][j]
    BY <2>3 DEF Begins
  <2>5. \A m \in 1 .. W : f[m] = ArrayFromWindow(e.windows[m]) /\ Len(f[m]) = 5
    BY <2>2 DEF f
  <2> QED
    BY <2>4, <2>5
<1>10. \A m \in 0 .. W : wat[m] = 5 * m
  BY <1>2, <1>9, Fives
<1>11. /\ Len(q) = 5 * W
       /\ \A m \in 1 .. W : \A j \in 1 .. 5 :
            q[5 * (m - 1) + j] = ArrayFromWindow(e.windows[m])[j]
  <2>1. W \in 0 .. W /\ \A m \in 1 .. W : m - 1 \in 0 .. W
    BY <1>2
  <2> QED
    BY <1>9, <1>10, <2>1
<1>12. /\ aat \in [0 .. n -> Nat] /\ aat[0] = 0 /\ aat[n] = Len(r)
       /\ \A m \in 1 .. n :
            /\ aat[m] = aat[m - 1] + (Len(e.actions[m].bytes) + 2) /\ aat[m] <= aat[n]
            /\ \A j \in 1 .. Len(e.actions[m].bytes) + 2 :
                 r[aat[m - 1] + j] = ArrayFromAction(e.actions[m])[j]
  <2>1. Len(Acts(e)) = n
    BY ActsFacts DEF n
  <2>2. \A m \in 1 .. n : /\ Acts(e)[m] = ArrayFromAction(e.actions[m])
                          /\ Len(Acts(e)[m]) = Len(e.actions[m].bytes) + 2
    BY ActsFacts DEF n
  <2> DEFINE f == Acts(e)
  <2> HIDE DEF f
  <2>3. Begins(f, aat) /\ Len(f) = n /\ FlattenSeq(f) = r
    BY <1>8, <2>1 DEF f
  <2> HIDE DEF r
  <2>4. /\ aat \in [0 .. n -> Nat] /\ aat[0] = 0 /\ aat[n] = Len(r)
        /\ \A m \in 1 .. n :
             /\ aat[m] = aat[m - 1] + Len(f[m]) /\ aat[m] <= aat[n]
             /\ \A j \in 1 .. Len(f[m]) : r[aat[m - 1] + j] = f[m][j]
    BY <2>3 DEF Begins
  <2>5. \A m \in 1 .. n : /\ f[m] = ArrayFromAction(e.actions[m])
                          /\ Len(f[m]) = Len(e.actions[m].bytes) + 2
    BY <2>2 DEF f
  <2> QED
    BY <2>4, <2>5
<1> HIDE DEF p, q, r, s
<1>13. b \in Seq(Nat) /\ Glued4(p, q, r, s, b)
  <2>1. \A S : \A x, y, z, u \in Seq(S) : x \o y \o z \o u \in Seq(S)
                                           /\ Glued4(x, y, z, u, x \o y \o z \o u)
    BY Joined4
  <2>2. p \in Seq(Nat) /\ q \in Seq(Nat) /\ r \in Seq(Nat) /\ s \in Seq(Nat)
    BY <1>3, <1>4, <1>5, <1>6, Zenon
  <2>3. p \o q \o r \o s \in Seq(Nat) /\ Glued4(p, q, r, s, p \o q \o r \o s)
    BY <2>1, <2>2
  <2> QED
    BY <1>1, <2>3, Zenon
<1> USE DEF Glued4
<1> HIDE DEF b
<1> DEFINE at == [m \in 0 .. n |-> 5 * W + 1 + aat[m]]
<1>14. \A m \in 0 .. n : aat[m] \in Nat /\ at[m] = 5 * W + 1 + aat[m]
  BY <1>12
<1>15. at \in [0 .. n -> Nat]
  BY <1>2, <1>14
<1> HIDE DEF at
<1>16. 0 \in 0 .. n /\ n \in 0 .. n /\ \A m \in 1 .. n : m \in 0 .. n /\ m - 1 \in 0 .. n
  BY <1>2
<1>17. at[0] = 5 * W + 1 /\ Len(b) = at[n] + 2 /\ Len(r) \in Nat
  <2>1. at[0] = 5 * W + 1
    BY <1>2, <1>12, <1>14, <1>16
  <2>2. at[n] = 5 * W + 1 + Len(r) /\ Len(r) \in Nat
    BY <1>12, <1>14, <1>16
  <2>3. Len(b) = 1 + 5 * W + Len(r) + 2
    BY <1>3, <1>4, <1>11, <1>13
  <2> QED
    BY <1>2, <2>1, <2>2, <2>3
<1>18. ASSUME NEW m \in 1 .. n
       PROVE  /\ at[m] = at[m - 1] + Len(e.actions[m].bytes) + 2 /\ at[m] <= at[n]
              /\ \A j \in 1 .. Len(e.actions[m].bytes) + 2 :
                   b[at[m - 1] + j] = ArrayFromAction(e.actions[m])[j]
  <2> DEFINE l == Len(e.actions[m].bytes)
  <2>1. l \in Nat
    BY EntryTypes DEF n
  <2>2. aat[m] = aat[m - 1] + (l + 2) /\ aat[m] <= aat[n]
    BY <1>12
  <2>3. /\ aat[m] \in Nat /\ aat[m - 1] \in Nat /\ aat[n] \in Nat
        /\ at[m] = 5 * W + 1 + aat[m] /\ at[m - 1] = 5 * W + 1 + aat[m - 1]
        /\ at[n] = 5 * W + 1 + aat[n]
    BY <1>14, <1>16
  <2> HIDE DEF l
  <2>4. at[m] = at[m - 1] + l + 2 /\ at[m] <= at[n]
    BY <1>2, <2>1, <2>2, <2>3
  <2>5. ASSUME NEW j \in 1 .. l + 2 PROVE b[at[m - 1] + j] = ArrayFromAction(e.actions[m])[j]
    <3>1. r[aat[m - 1] + j] = ArrayFromAction(e.actions[m])[j]
      BY <1>12 DEF l
    <3>2. aat[m - 1] + j \in 1 .. Len(r)
      BY <1>12, <2>1, <2>2, <2>3
    <3>3. b[Len(p) + Len(q) + (aat[m - 1] + j)] = r[aat[m - 1] + j]
      BY <1>13, <3>2
    <3>4. Len(p) + Len(q) + (aat[m - 1] + j) = at[m - 1] + j
      BY <1>2, <1>3, <1>11, <2>1, <2>3
    <3> QED
      BY <3>1, <3>3, <3>4
  <2> QED
    BY <2>4, <2>5 DEF l
<1>19. b[1] = 5 * W
  BY <1>3, <1>13
<1>20. ASSUME NEW k \in 1 .. W, NEW j \in 1 .. 5
       PROVE  b[5 * (k - 1) + 1 + j] = ArrayFromWindow(e.windows[k])[j]
  <2>1. 5 * (k - 1) + j \in 1 .. Len(q)
    BY <1>2, <1>11
  <2>2. b[Len(p) + (5 * (k - 1) + j)] = q[5 * (k - 1) + j]
    BY <1>13, <2>1
  <2>3. Len(p) + (5 * (k - 1) + j) = 5 * (k - 1) + 1 + j
    BY <1>2, <1>3
  <2> QED
    BY <1>11, <2>2, <2>3
<1>21. Layout(e, b, at)
  BY <1>15, <1>17, <1>18, <1>19, <1>20 DEF Layout, n, W
<1>22. b[Len(b) - 1] = s[1] /\ b[Len(b)] = s[2] /\ Len(b) >= 3
  <2>1. 1 \in 1 .. Len(s) /\ 2 \in 1 .. Len(s)
    BY <1>4
  <2>2. b[Len(p) + Len(q) + Len(r) + 1] = s[1] /\ b[Len(p) + Len(q) + Len(r) + 2] = s[2]
    BY <1>13, <2>1
  <2>3. Len(p) + Len(q) + Len(r) + 1 = Len(b) - 1 /\ Len(p) + Len(q) + Len(r) + 2 = Len(b)
        /\ Len(b) >= 3
    BY <1>2, <1>3, <1>4, <1>11, <1>13, <1>17
  <2> QED
    BY <2>2, <2>3
<1> QED
  BY <1>4, <1>13, <1>21, <1>22 DEF b, s

LEMMA HeadBits ==
  ASSUME NEW o \in Operator, NEW l \in Location, NEW r \in Location, NEW s \in OperandSize
  PROVE  /\ HeadByte(o, l, r, s) \div 32 = o
         /\ (HeadByte(o, l, r, s) \div 8) % 4 = l
         /\ (HeadByte(o, l, r, s) \div 2) % 4 = r
         /\ HeadByte(o, l, r, s) % 2 = s
<1>1. HeadByte(o, l, r, s) \div 32 = o
  BY SMT DEF HeadByte, Operator, Location, OperandSize
<1>2. HeadByte(o, l, r, s) \div 8 = 4 * o + l
  BY SMT DEF HeadByte, Operator, Location, OperandSize
<1>3. HeadByte(o, l, r, s) \div 2 = 16 * o + 4 * l + r
  BY SMT DEF HeadByte, Operator, Location, OperandSize
<1>4. (4 * o + l) % 4 = l
  BY SMT DEF Operator, Location
<1>5. (16 * o + 4 * l + r) % 4 = r
  BY SMT DEF Operator, Location
<1>6. HeadByte(o, l, r, s) % 2 = s
  BY SMT DEF HeadByte, Operator, Location, OperandSize
<1> QED
  BY <1>1, <1>2, <1>3, <1>4, <1>5, <1>6

(* An operand is put together from the two bytes it was taken apart into. *)
LEMMA TwoBytes ==
  ASSUME NEW v \in Word
  PROVE  Merge(v \div 256, v % 256) = v
  BY SMTT(60) DEF Merge, Word

(* get_array_from_window and get_window_from_array: every window that the     *)
(* node writes out is read as the same window.                               *)
THEOREM WindowRoundTrip ==
  ASSUME NEW w \in Window
  PROVE  WindowFromArray(ArrayFromWindow(w)) = w
<1> DEFINE h == HeadByte(w.op, w.lhs_location, w.rhs_location, w.size)
<1>1. ArrayFromWindow(w) =
        <<h, w.lhs \div 256, w.lhs % 256, w.rhs \div 256, w.rhs % 256>>
  BY Zenon DEF ArrayFromWindow, HeadByte
<1>2. h \div 32 = w.op /\ (h \div 8) % 4 = w.lhs_location
      /\ (h \div 2) % 4 = w.rhs_location /\ h % 2 = w.size
  BY ONLY FieldSizes, HeadBits
<1>3. /\ Merge(w.lhs \div 256, w.lhs % 256) = w.lhs
      /\ Merge(w.rhs \div 256, w.rhs % 256) = w.rhs
  BY ONLY FieldSizes, TwoBytes
<1> HIDE DEF h
<1>4. \A x1, x2, x3, x4, x5 :
        WindowFromArray(<<x1, x2, x3, x4, x5>>) =
          [op |-> x1 \div 32, size |-> x1 % 2,
           lhs_location |-> (x1 \div 8) % 4, rhs_location |-> (x1 \div 2) % 4,
           lhs |-> Merge(x2, x3), rhs |-> Merge(x4, x5)]
  BY DEF WindowFromArray
<1>5. WindowFromArray(ArrayFromWindow(w)) =
        [op |-> w.op, size |-> w.size, lhs_location |-> w.lhs_location,
         rhs_location |-> w.rhs_location, lhs |-> w.lhs, rhs |-> w.rhs]
  BY <1>1, <1>2, <1>3, <1>4
<1> QED
  BY <1>5, FieldSizes

(* Where a layout ends, and that its windows come before its end. *)
LEMMA LayoutFacts ==
  ASSUME NEW e \in Entry, NEW c, NEW at, Layout(e, c, at)
  PROVE  /\ Len(e.windows) \in Nat /\ Len(e.actions) \in Nat
         /\ \A m \in 0 .. Len(e.actions) : at[m] \in Nat
         /\ at[0] = 5 * Len(e.windows) + 1 /\ at[0] <= at[Len(e.actions)]
         /\ at[Len(e.actions)] \in Nat /\ Len(c) = at[Len(e.actions)] + 2
         /\ c[1] = 5 * Len(e.windows)
         /\ \A k \in 1 .. Len(e.windows) : \A j \in 1 .. 5 :
              c[5 * (k - 1) + 1 + j] = ArrayFromWindow(e.windows[k])[j]
<1> DEFINE n == Len(e.actions)
           W == Len(e.windows)
<1>1. W \in Nat /\ n \in Nat /\ \A m \in 1 .. n : Len(e.actions[m].bytes) \in Nat
  BY EntryTypes
<1>2. /\ \A m \in 0 .. n : at[m] \in Nat
      /\ \A m \in 1 .. n : at[m] = at[m - 1] + Len(e.actions[m].bytes) + 2 /\ at[m] <= at[n]
      /\ Len(c) = at[n] + 2 /\ at[0] = 5 * W + 1 /\ c[1] = 5 * W
      /\ \A k \in 1 .. W : \A j \in 1 .. 5 :
           c[5 * (k - 1) + 1 + j] = ArrayFromWindow(e.windows[k])[j]
  BY DEF Layout
<1> HIDE DEF n, W
<1>3. at[0] <= at[n]
  <2>1. CASE n = 0
    BY <1>2, <2>1
  <2>2. CASE n # 0
    <3>1. 1 \in 1 .. n /\ 1 - 1 = 0 /\ 0 \in 0 .. n /\ 1 \in 0 .. n /\ n \in 0 .. n
      BY <1>1, <2>2
    <3>2. at[1] = at[0] + Len(e.actions[1].bytes) + 2 /\ at[1] <= at[n]
      BY <1>2, <3>1
    <3>3. at[0] \in Nat /\ at[n] \in Nat /\ at[1] \in Nat /\ Len(e.actions[1].bytes) \in Nat
      BY <1>1, <1>2, <3>1
    <3> QED
      BY <3>2, <3>3
  <2> QED
    BY <2>1, <2>2
<1>4. at[n] \in Nat
  BY <1>1, <1>2
<1> QED
  BY <1>1, <1>2, <1>3, <1>4 DEF n, W

(* Only what stands before the last two bytes tells the windows and actions. *)
LEMMA LayoutAgrees ==
  ASSUME NEW e \in Entry, NEW b, NEW c, NEW at, Layout(e, b, at),
         Len(c) = Len(b), \A i \in 1 .. Len(b) - 2 : c[i] = b[i]
  PROVE  Layout(e, c, at)
<1> DEFINE n == Len(e.actions)
           W == Len(e.windows)
<1>1. W \in Nat /\ n \in Nat /\ \A m \in 1 .. n : Len(e.actions[m].bytes) \in Nat
  BY EntryTypes
<1>2. /\ \A m \in 0 .. n : at[m] \in Nat
      /\ \A m \in 1 .. n : at[m] = at[m - 1] + Len(e.actions[m].bytes) + 2 /\ at[m] <= at[n]
      /\ Len(b) = at[n] + 2 /\ at[0] = 5 * W + 1
  BY DEF Layout
<1> HIDE DEF n, W
<1>3. at[0] <= at[n]
  BY LayoutFacts DEF n
<1>4. at[n] \in Nat /\ Len(b) - 2 = at[n]
  BY <1>1, <1>2
<1>5. ASSUME NEW m \in 1 .. n, NEW j \in 1 .. Len(e.actions[m].bytes) + 2
      PROVE  c[at[m - 1] + j] = b[at[m - 1] + j]
  <2>1. m - 1 \in 0 .. n
    BY <1>1
  <2>2. at[m - 1] + j \in 1 .. Len(b) - 2
    <3>1. /\ at[m - 1] \in Nat /\ at[m] \in Nat /\ at[n] \in Nat
          /\ Len(e.actions[m].bytes) \in Nat
          /\ at[m] = at[m - 1] + Len(e.actions[m].bytes) + 2 /\ at[m] <= at[n]
      BY <1>1, <1>2, <1>4, <2>1
    <3>2. \A x, y, z, l \in Nat : x = y + l + 2 /\ x <= z =>
            \A i \in 1 .. l + 2 : y + i \in 1 .. z
      OBVIOUS
    <3>3. at[m - 1] + j \in 1 .. at[n]
      BY <3>1, <3>2, Zenon
    <3> QED
      BY <1>4, <3>3
  <2> QED
    BY <2>2
<1>6. ASSUME NEW k \in 1 .. W, NEW j \in 1 .. 5
      PROVE  c[5 * (k - 1) + 1 + j] = b[5 * (k - 1) + 1 + j]
  <2>1. 5 * (k - 1) + 1 + j \in 1 .. Len(b) - 2
    BY <1>1, <1>2, <1>3, <1>4
  <2> QED
    BY <2>1
<1>7. c[1] = b[1]
  <2>1. 1 \in 1 .. Len(b) - 2
    BY <1>1, <1>2, <1>3, <1>4
  <2> QED
    BY <2>1
<1> QED
  BY <1>5, <1>6, <1>7 DEF Layout, n, W

(* One byte of the actions, read with what comes behind it. *)
RestOf(b, r, i) ==
  IF i <= Len(b) - STATS_SIZE
  THEN [r[i + 1 + b[i]] EXCEPT
          !.actions = <<ActionFromArray(SubSeq(b, i + 1, i + b[i]))>> \o @]
  ELSE [actions |-> << >>, ttl |-> b[i], count |-> b[i + 1]]

(* get_entry_from_array's walk over the actions has a result for every array. *)
LEMMA RestExists ==
  ASSUME NEW c \in Seq(Byte)
  PROVE  \A i \in 1 .. Len(c) + 256 : RestFromArray(c)[i] = RestOf(c, RestFromArray(c), i)
<1> DEFINE N == Len(c) + 256
           Is(f) == f = [i \in 1 .. N |-> RestOf(c, f, i)]
           Till(f, k) == \A i \in 1 .. N : i > N - k => f[i] = RestOf(c, f, i)
           T == {k \in Nat : \E f : f = [i \in 1 .. N |-> f[i]] /\ Till(f, k)}
<1>1. N \in Nat /\ Len(c) \in Nat /\ N = Len(c) + 256
  OBVIOUS
<1> HIDE DEF N
<1>2. 0 \in T
  <2> DEFINE f == [i \in 1 .. N |-> 0]
  <2>1. f = [i \in 1 .. N |-> f[i]] /\ Till(f, 0)
    BY <1>1
  <2> QED
    BY <2>1
<1>3. ASSUME NEW k \in Nat, k \in T PROVE k + 1 \in T
  <2>1. PICK f : f = [i \in 1 .. N |-> f[i]] /\ Till(f, k)
    BY <1>3
  <2> DEFINE g == [i \in 1 .. N |-> IF i = N - k THEN RestOf(c, f, i) ELSE f[i]]
  <2>2. g = [i \in 1 .. N |-> g[i]]
    OBVIOUS
  <2>3. \A i \in 1 .. N : i > N - k => g[i] = f[i]
    BY <1>1
  <2>4. N - k \in 1 .. N => g[N - k] = RestOf(c, f, N - k)
    BY <1>1
  <2> HIDE DEF g
  <2>5. ASSUME NEW i \in 1 .. N, i >= N - k PROVE RestOf(c, g, i) = RestOf(c, f, i)
    <3>1. CASE i <= Len(c) - 2
      <4>1. c[i] \in 0 .. 255
        <5>1. i \in 1 .. Len(c)
          BY <1>1, <3>1
        <5>2. c[i] \in Byte
          BY <5>1, Element, Zenon
        <5> QED
          BY <5>2 DEF Byte
      <4>2. i + 1 + c[i] \in 1 .. N /\ i + 1 + c[i] > N - k
        <5> DEFINE x == c[i]
        <5> HIDE DEF x
        <5>1. x \in 0 .. 255 /\ i \in Nat /\ i >= 1
          BY <4>1 DEF x
        <5>2. i + 1 + x \in 1 .. N /\ i + 1 + x > N - k
          BY <1>1, <2>5, <3>1, <5>1
        <5> QED
          BY <5>2 DEF x
      <4>3. g[i + 1 + c[i]] = f[i + 1 + c[i]]
        BY <2>3, <4>2
      <4> QED
        BY <3>1, <4>3 DEF RestOf, STATS_SIZE
    <3>2. CASE ~ (i <= Len(c) - 2)
      BY <3>2 DEF RestOf, STATS_SIZE
    <3> QED
      BY <3>1, <3>2
  <2>6. ASSUME NEW i \in 1 .. N, i > N - (k + 1) PROVE g[i] = RestOf(c, g, i)
    <3>1. i >= N - k
      BY <1>1, <2>6
    <3>2. CASE i = N - k
      BY <2>4, <2>5, <3>1, <3>2
    <3>3. CASE i # N - k
      <4>1. i > N - k
        BY <1>1, <3>1, <3>3
      <4> QED
        BY <2>1, <2>3, <2>5, <3>1, <4>1
    <3> QED
      BY <3>2, <3>3
  <2>7. Till(g, k + 1)
    BY <2>6
  <2> HIDE DEF Till
  <2>8. k + 1 \in Nat
    OBVIOUS
  <2> QED
    BY <2>2, <2>7, <2>8, Zenon
<1>4. Nat \subseteq T
  <2> HIDE DEF T
  <2> QED
    BY <1>2, <1>3, Induction
<1>5. PICK f : f = [i \in 1 .. N |-> f[i]] /\ Till(f, N)
  BY <1>1, <1>4
<1>6. Is(f)
  <2>1. \A i \in 1 .. N : f[i] = RestOf(c, f, i)
    BY <1>1, <1>5
  <2> QED
    BY <1>5, <2>1
<1>7. RestFromArray(c) = CHOOSE g : Is(g)
  BY DEF RestFromArray, RestOf, N
<1>8. Is(RestFromArray(c))
  BY <1>6, <1>7
<1> QED
  BY <1>8 DEF N

(* t is the part of s from m to n. *)
Part(s, m, n, t) ==
  /\ Len(t) = (n - m) + 1
  /\ \A j \in 1 .. (n - m) + 1 : t[j] = s[(m + j) - 1]

LEMMA PartFacts ==
  \A T : \A s \in Seq(T) : \A m, n \in Nat :
    1 <= m /\ m <= n + 1 /\ n <= Len(s) =>
      SubSeq(s, m, n) \in Seq(T) /\ Part(s, m, n, SubSeq(s, m, n))
  BY DEF Part

(* Two sequences with the same elements are one. *)
LEMMA SameElements ==
  \A T : \A s, t \in Seq(T) :
    Len(s) = Len(t) /\ (\A j \in 1 .. Len(s) : s[j] = t[j]) => s = t
  OBVIOUS

(* What stands where an action does. *)
LEMMA ActionFacts ==
  ASSUME NEW e \in Entry, NEW c, NEW at, Layout(e, c, at),
         NEW m \in 1 .. Len(e.actions)
  PROVE  /\ e.actions[m] \in Action /\ Len(e.actions[m].bytes) \in Nat
         /\ at[m - 1] \in Nat /\ at[m] \in Nat
         /\ at[m] = at[m - 1] + Len(e.actions[m].bytes) + 2
         /\ at[m] <= at[Len(e.actions)]
         /\ c[at[m - 1] + 1] = Len(e.actions[m].bytes) + 1
         /\ c[at[m - 1] + 2] = e.actions[m].type
         /\ \A j \in 1 .. Len(e.actions[m].bytes) :
              c[at[m - 1] + (2 + j)] = e.actions[m].bytes[j]
<1> DEFINE a == e.actions[m]
           l == Len(a.bytes)
           w == ArrayFromAction(a)
<1>1. a \in Action /\ l \in Nat
  BY EntryTypes
<1>2. /\ at[m] = at[m - 1] + l + 2 /\ at[m] <= at[Len(e.actions)]
      /\ \A j \in 1 .. l + 2 : c[at[m - 1] + j] = w[j]
  BY DEF Layout
<1>3. m - 1 \in 0 .. Len(e.actions) /\ m \in 0 .. Len(e.actions)
  BY EntryTypes
<1>4. at[m - 1] \in Nat /\ at[m] \in Nat
  BY <1>3, LayoutFacts
<1>5. w[1] = l + 1 /\ w[2] = a.type /\ \A j \in 1 .. l : w[2 + j] = a.bytes[j]
  BY <1>1, ActionArray
<1> HIDE DEF w, l, a
<1>6. 1 \in 1 .. l + 2 /\ 2 \in 1 .. l + 2 /\ \A j \in 1 .. l : 2 + j \in 1 .. l + 2
  BY <1>1
<1>7. c[at[m - 1] + 1] = l + 1 /\ c[at[m - 1] + 2] = a.type
  BY <1>2, <1>5, <1>6
<1>8. \A j \in 1 .. l : c[at[m - 1] + (2 + j)] = a.bytes[j]
  BY <1>2, <1>5, <1>6
<1> QED
  BY <1>1, <1>2, <1>4, <1>7, <1>8 DEF a, l

LEMMA ActionDecode ==
  ASSUME NEW e \in Entry, NEW c \in Seq(Byte), NEW at, Layout(e, c, at),
         NEW m \in 1 .. Len(e.actions)
  PROVE  LET i == at[m - 1] + 1
         IN  ActionFromArray(SubSeq(c, i + 1, i + c[i])) = e.actions[m]
<1> DEFINE a == e.actions[m]
           l == Len(a.bytes)
           i == at[m - 1] + 1
           s == SubSeq(c, i + 1, i + c[i])
           t == SubSeq(s, 2, Len(s))
<1>1. /\ a \in Action /\ l \in Nat /\ at[m - 1] \in Nat
      /\ at[m] = at[m - 1] + l + 2 /\ at[m] <= at[Len(e.actions)]
      /\ c[i] = l + 1 /\ c[at[m - 1] + 2] = a.type
      /\ \A j \in 1 .. l : c[at[m - 1] + (2 + j)] = a.bytes[j]
  BY ActionFacts
<1>2. Len(c) = at[Len(e.actions)] + 2 /\ at[Len(e.actions)] \in Nat
  BY LayoutFacts
<1>3. a = [type |-> a.type, bytes |-> a.bytes] /\ a.bytes \in Seq(Byte)
  BY <1>1 DEF Action
<1> HIDE DEF a, l
<1>4. s \in Seq(Byte) /\ Len(s) = l + 1
      /\ \A j \in 1 .. l + 1 : s[j] = c[at[m - 1] + (1 + j)]
  <2> DEFINE x == i + 1
             y == i + c[i]
  <2>1. x \in Nat /\ y \in Nat /\ 1 <= x /\ x <= y + 1 /\ y <= Len(c)
    <3>1. x = at[m - 1] + 2 /\ y = at[m - 1] + (l + 2)
      BY <1>1
    <3>2. y = at[m]
      BY <1>1, <3>1
    <3> HIDE DEF x, y
    <3>3. l \in Nat /\ at[m - 1] \in Nat /\ at[Len(e.actions)] \in Nat
          /\ at[m - 1] + l + 2 <= at[Len(e.actions)]
          /\ Len(c) = at[Len(e.actions)] + 2
      BY <1>1, <1>2
    <3>4. \A d, k, n \in Nat : d + k + 2 <= n =>
            /\ d + 2 \in Nat /\ d + (k + 2) \in Nat /\ 1 <= d + 2
            /\ d + 2 <= d + (k + 2) + 1 /\ d + (k + 2) <= n + 2
      OBVIOUS
    <3> DEFINE d == at[m - 1]
               n == at[Len(e.actions)]
    <3> HIDE DEF d, n, x, y
    <3>5. /\ d + 2 \in Nat /\ d + (l + 2) \in Nat /\ 1 <= d + 2
          /\ d + 2 <= d + (l + 2) + 1 /\ d + (l + 2) <= n + 2
      <4>1. d \in Nat /\ l \in Nat /\ n \in Nat /\ d + l + 2 <= n
        BY <3>3 DEF d, n
      <4> QED
        BY ONLY <3>4, <4>1
    <3>6. x = d + 2 /\ y = d + (l + 2) /\ Len(c) = n + 2
      BY <3>1, <3>3 DEF d, n
    <3> QED
      BY ONLY <3>5, <3>6
  <2>2. SubSeq(c, x, y) \in Seq(Byte) /\ Part(c, x, y, SubSeq(c, x, y))
    <3> HIDE DEF x, y
    <3> QED
      BY <2>1, PartFacts, Zenon
  <2>3. (y - x) + 1 = l + 1 /\ \A j \in 1 .. l + 1 : (x + j) - 1 = at[m - 1] + (1 + j)
    <3>1. x = at[m - 1] + 2 /\ y = at[m - 1] + (l + 2)
      BY <1>1
    <3>2. \A d, k \in Nat :
            /\ (d + (k + 2) - (d + 2)) + 1 = k + 1
            /\ \A j \in 1 .. k + 1 : ((d + 2) + j) - 1 = d + (1 + j)
      OBVIOUS
    <3>3. l \in Nat /\ at[m - 1] \in Nat
      BY <1>1
    <3> DEFINE d == at[m - 1]
    <3> HIDE DEF x, y, d
    <3>4. d \in Nat /\ x = d + 2 /\ y = d + (l + 2)
      BY <3>1, <3>3 DEF d
    <3>5. (y - x) + 1 = l + 1 /\ \A j \in 1 .. l + 1 : (x + j) - 1 = d + (1 + j)
      BY ONLY <3>3, <3>4
    <3> QED
      BY <3>5 DEF d
  <2> HIDE DEF x, y
  <2> QED
    BY <2>2, <2>3 DEF Part, x, y
<1> HIDE DEF s, i
<1>5. t \in Seq(Byte) /\ Len(t) = l /\ \A j \in 1 .. l : t[j] = s[1 + j]
  <2>1. 2 \in Nat /\ Len(s) \in Nat /\ 1 <= 2 /\ 2 <= Len(s) + 1 /\ Len(s) <= Len(s)
    BY <1>1, <1>4
  <2>2. t \in Seq(Byte) /\ Part(s, 2, Len(s), t)
    BY <1>4, <2>1, PartFacts, Zenon
  <2>3. (Len(s) - 2) + 1 = l /\ \A j \in 1 .. l : (2 + j) - 1 = 1 + j
    BY <1>1, <1>4
  <2> HIDE DEF t
  <2> QED
    BY <2>2, <2>3 DEF Part
<1> HIDE DEF t
<1>6. s[1] = a.type
  BY <1>1, <1>4
<1>7. t = a.bytes
  <2>1. \A j \in 1 .. l : 1 + j \in 1 .. l + 1 /\ 1 + (1 + j) = 2 + j
    BY <1>1
  <2>2. \A j \in 1 .. l : t[j] = a.bytes[j]
    BY <1>1, <1>4, <1>5, <2>1
  <2>3. Len(a.bytes) = l
    BY DEF l
  <2> QED
    BY <1>3, <1>5, <2>2, <2>3, SameElements, Zenon
<1>8. ActionFromArray(s) = a
  BY <1>3, <1>6, <1>7 DEF ActionFromArray, t
<1> QED
  BY <1>8 DEF s, i, a

LEMMA WindowsDecode ==
  ASSUME NEW e \in Entry, NEW c \in Seq(Byte), NEW at, Layout(e, c, at)
  PROVE  WindowsFromArray(c, c[1]) = e.windows
<1> DEFINE W == Len(e.windows)
           f == WindowsFromArray(c, c[1])
<1>1. /\ W \in Nat /\ c[1] = 5 * W /\ at[0] = 5 * W + 1 /\ at[0] <= at[Len(e.actions)]
      /\ at[Len(e.actions)] \in Nat /\ Len(c) = at[Len(e.actions)] + 2
      /\ \A k \in 1 .. W : \A j \in 1 .. 5 :
           c[5 * (k - 1) + 1 + j] = ArrayFromWindow(e.windows[k])[j]
  BY LayoutFacts
<1>2. e.windows \in Seq(Window) /\ \A k \in 1 .. W : e.windows[k] \in Window
  BY EntryTypes
<1> HIDE DEF W
<1>3. (c[1] + WINDOW_SIZE - 1) \div WINDOW_SIZE = W
  BY <1>1 DEF WINDOW_SIZE
<1>4. f = [k \in 1 .. W |->
             WindowFromArray(SubSeq(c, WINDOW_SIZE * (k - 1) + 2, WINDOW_SIZE * k + 1))]
  BY <1>3, Zenon DEF WindowsFromArray
<1>5. ASSUME NEW k \in 1 .. W
      PROVE  SubSeq(c, WINDOW_SIZE * (k - 1) + 2, WINDOW_SIZE * k + 1)
               = ArrayFromWindow(e.windows[k])
  <2> DEFINE x == 5 * (k - 1) + 2
             y == 5 * k + 1
             s == SubSeq(c, x, y)
             w == ArrayFromWindow(e.windows[k])
  <2>1. x \in Nat /\ y \in Nat /\ 1 <= x /\ x <= y + 1 /\ y <= Len(c)
    BY <1>1
  <2>2. s \in Seq(Byte) /\ Part(c, x, y, s)
    <3> HIDE DEF x, y
    <3> QED
      BY <2>1, PartFacts, Zenon
  <2>3. (y - x) + 1 = 5 /\ \A j \in 1 .. 5 : (x + j) - 1 = 5 * (k - 1) + 1 + j
    BY <1>1
  <2>4. w \in Seq(Nat) /\ Len(w) = 5
    BY <1>2, WindowArray
  <2>5. \A j \in 1 .. 5 : c[5 * (k - 1) + 1 + j] = w[j]
    BY <1>1
  <2> HIDE DEF x, y, w, s
  <2>6. Len(s) = 5 /\ \A j \in 1 .. 5 : s[j] = w[j]
    BY <2>2, <2>3, <2>5 DEF Part
  <2>7. s \in Seq(Nat)
    <3>1. Byte \subseteq Nat
      BY DEF Byte
    <3>2. \A S, T : S \subseteq T => Seq(S) \subseteq Seq(T)
      OBVIOUS
    <3> QED
      BY <2>2, <3>1, <3>2, Zenon
  <2>8. s = w
    BY <2>4, <2>6, <2>7, SameElements, Zenon
  <2> QED
    BY <2>8 DEF s, w, x, y, WINDOW_SIZE
<1>6. \A k \in 1 .. W : f[k] = e.windows[k]
  BY <1>2, <1>4, <1>5, WindowRoundTrip
<1>7. f \in Seq(Window) /\ Len(f) = W
  <2> HIDE DEF f
  <2>1. f = [k \in 1 .. W |-> f[k]]
    BY <1>4
  <2>2. \A k \in 1 .. W : f[k] \in Window
    BY <1>2, <1>6
  <2>3. f \in [1 .. W -> Window]
    BY <2>1, <2>2
  <2>4. \A S : \A n \in Nat : \A g \in [1 .. n -> S] : g \in Seq(S) /\ Len(g) = n
    OBVIOUS
  <2> QED
    BY <1>1, <2>3, <2>4, Zenon
<1> HIDE DEF f
<1>8. f = e.windows
  <2>1. Len(e.windows) = W
    BY DEF W
  <2> QED
    BY <1>2, <1>6, <1>7, <2>1, SameElements, Zenon
<1> QED
  BY <1>8 DEF f

(* What is left of a sequence, from its m-th element on. *)
FromOn(s, m) == <<s[m]>> \o SubSeq(s, m + 1, Len(s)) = SubSeq(s, m, Len(s))

LEMMA FromFirst ==
  ASSUME NEW T, NEW s \in Seq(T), NEW m \in 1 .. Len(s)
  PROVE  FromOn(s, m)
<1> DEFINE n == Len(s)
           p == <<s[m]>>
           q == SubSeq(s, m + 1, n)
           t == SubSeq(s, m, n)
<1>1. n \in Nat /\ m \in Nat /\ 1 <= m /\ m <= n
  OBVIOUS
<1>2. q \in Seq(T) /\ Part(s, m + 1, n, q)
  <2>1. m + 1 \in Nat /\ 1 <= m + 1 /\ m + 1 <= n + 1 /\ n <= Len(s)
    BY <1>1
  <2> HIDE DEF q
  <2> QED
    BY <1>1, <2>1, PartFacts, Zenon DEF q
<1>3. t \in Seq(T) /\ Part(s, m, n, t)
  <2>1. m <= n + 1 /\ n <= Len(s)
    BY <1>1
  <2> QED
    BY <1>1, <2>1, PartFacts, Zenon
<1>4. p \in Seq(T) /\ Len(p) = 1 /\ p[1] = s[m]
  BY Element
<1> HIDE DEF p, q, t, n
<1>5. p \o q \in Seq(T) /\ Glued(p, q, p \o q)
  BY <1>2, <1>4, Glue, Zenon
<1>6. Len(q) = n - m /\ Len(t) = (n - m) + 1 /\ Len(p \o q) = (n - m) + 1
  BY <1>1, <1>2, <1>3, <1>4, <1>5 DEF Part, Glued
<1>7. ASSUME NEW j \in 1 .. (n - m) + 1 PROVE (p \o q)[j] = t[j]
  <2>1. t[j] = s[(m + j) - 1]
    BY <1>3 DEF Part
  <2>2. CASE j = 1
    <3>1. (m + j) - 1 = m /\ 1 \in 1 .. Len(p)
      BY <1>1, <1>4, <2>2
    <3> QED
      BY <1>4, <1>5, <2>1, <2>2, <3>1 DEF Glued
  <2>3. CASE j # 1
    <3>1. j - 1 \in 1 .. n - m /\ 1 + (j - 1) = j /\ (m + 1 + (j - 1)) - 1 = (m + j) - 1
          /\ n - m = (n - (m + 1)) + 1
      BY <1>1, <2>3
    <3>2. (p \o q)[1 + (j - 1)] = q[j - 1]
      BY <1>4, <1>5, <1>6, <3>1 DEF Glued
    <3>3. q[j - 1] = s[(m + 1 + (j - 1)) - 1]
      BY <1>2, <3>1 DEF Part
    <3> QED
      BY <2>1, <3>1, <3>2, <3>3
  <2> QED
    BY <2>2, <2>3
<1>8. p \o q = t
  BY <1>3, <1>5, <1>6, <1>7, SameElements, Zenon
<1> QED
  BY <1>8, Zenon DEF p, q, t, n, FromOn

LEMMA ActionsDecode ==
  ASSUME NEW e \in Entry, NEW c \in Seq(Byte), NEW at, Layout(e, c, at)
  PROVE  RestFromArray(c)[at[0] + 1] =
           [actions |-> e.actions, ttl |-> c[Len(c) - 1], count |-> c[Len(c)]]
<1> DEFINE n == Len(e.actions)
           r == RestFromArray(c)
           x == c[Len(c) - 1]
           y == c[Len(c)]
           Told(m) ==
             r[at[m] + 1] = [actions |-> SubSeq(e.actions, m + 1, n), ttl |-> x, count |-> y]
           T == {k \in Nat : k <= n => Told(n - k)}
<1>1. /\ n \in Nat /\ at[n] \in Nat /\ Len(c) = at[n] + 2
      /\ \A m \in 0 .. n : at[m] \in Nat
  BY LayoutFacts
<1>2. \A i \in 1 .. Len(c) + 256 : r[i] = RestOf(c, r, i)
  BY RestExists
<1>3. e.actions \in Seq(Action)
  BY EntryTypes
<1> HIDE DEF r, n
<1>4. 0 \in T
  <2>1. n - 0 = n
    BY <1>1
  <2>2. at[n] + 1 \in 1 .. Len(c) + 256 /\ ~ (at[n] + 1 <= Len(c) - 2)
        /\ at[n] + 1 = Len(c) - 1 /\ at[n] + 1 + 1 = Len(c)
    <3> DEFINE d == at[n]
               z == Len(c)
    <3>1. d \in Nat /\ z = d + 2
      BY <1>1
    <3> HIDE DEF d, z
    <3>2. d + 1 \in 1 .. z + 256 /\ ~ (d + 1 <= z - 2) /\ d + 1 = z - 1 /\ d + 1 + 1 = z
      BY ONLY <3>1
    <3> QED
      BY <3>2 DEF d, z
  <2>3. r[at[n] + 1] = [actions |-> << >>, ttl |-> c[at[n] + 1], count |-> c[at[n] + 1 + 1]]
    BY <1>2, <2>2 DEF RestOf, STATS_SIZE
  <2>4. SubSeq(e.actions, n + 1, n) = << >>
    BY <1>1, <1>3
  <2>5. Told(n)
    BY <2>2, <2>3, <2>4
  <2> QED
    BY <2>1, <2>5
<1>5. ASSUME NEW k \in Nat, k \in T PROVE k + 1 \in T
  <2> SUFFICES ASSUME k + 1 <= n PROVE Told(n - (k + 1))
    <3>1. k + 1 \in Nat
      OBVIOUS
    <3> HIDE DEF Told
    <3> QED
      BY <3>1, Zenon
  <2> DEFINE m == n - k
             i == at[m - 1] + 1
             a == e.actions[m]
             l == Len(a.bytes)
             rest == SubSeq(e.actions, m + 1, n)
  <2>1. m \in 1 .. n /\ n - (k + 1) = m - 1 /\ Told(m) /\ (m - 1) + 1 = m
    BY <1>1, <1>5
  <2>2. /\ l \in Nat /\ at[m - 1] \in Nat /\ at[m] \in Nat
        /\ at[m] = at[m - 1] + l + 2 /\ at[m] <= at[n] /\ c[i] = l + 1
    <3> HIDE DEF m
    <3>1. m \in 1 .. Len(e.actions)
      BY <2>1 DEF n
    <3>2. /\ Len(e.actions[m].bytes) \in Nat /\ at[m - 1] \in Nat /\ at[m] \in Nat
          /\ at[m] = at[m - 1] + Len(e.actions[m].bytes) + 2
          /\ at[m] <= at[Len(e.actions)]
          /\ c[at[m - 1] + 1] = Len(e.actions[m].bytes) + 1
      BY <3>1, ActionFacts
    <3> QED
      BY <3>2, Zenon DEF n
  <2>3. ActionFromArray(SubSeq(c, i + 1, i + c[i])) = a
    <3> HIDE DEF m
    <3> QED
      BY <2>1, ActionDecode DEF n
  <2>4. <<a>> \o rest = SubSeq(e.actions, m, n)
    <3>1. m \in 1 .. Len(e.actions)
      BY <2>1 DEF n
    <3> HIDE DEF m
    <3>2. FromOn(e.actions, m)
      BY <1>3, <3>1, FromFirst, Zenon
    <3> QED
      BY <3>2, Zenon DEF FromOn, n
  <2> HIDE DEF m, l, a, rest
  <2>5. i \in 1 .. Len(c) + 256 /\ i <= Len(c) - 2 /\ i + 1 + c[i] = at[m] + 1
    <3> DEFINE d == at[m - 1]
               z == at[n]
               u == at[m]
               w == c[i]
    <3>1. d \in Nat /\ z \in Nat /\ l \in Nat /\ u = d + l + 2 /\ u <= z /\ w = l + 1
          /\ Len(c) = z + 2 /\ i = d + 1
      BY <1>1, <2>2
    <3> HIDE DEF d, z, u, i, w
    <3>2. i \in 1 .. Len(c) + 256 /\ i <= Len(c) - 2 /\ i + 1 + w = u + 1
      BY ONLY <3>1
    <3> QED
      BY <3>2 DEF u, w
  <2>6. r[at[m] + 1] = [actions |-> rest, ttl |-> x, count |-> y]
    BY <2>1 DEF rest
  <2> HIDE DEF i, x, y
  <2>7. r[i] = [r[i + 1 + c[i]] EXCEPT
                  !.actions = <<ActionFromArray(SubSeq(c, i + 1, i + c[i]))>> \o @]
    <3>1. r[i] = RestOf(c, r, i)
      BY <1>2, <2>5
    <3> QED
      BY <2>5, <3>1, Zenon DEF RestOf, STATS_SIZE
  <2>8. r[i] = [[actions |-> rest, ttl |-> x, count |-> y] EXCEPT !.actions = <<a>> \o @]
    BY <2>3, <2>5, <2>6, <2>7
  <2>9. r[i] = [actions |-> <<a>> \o rest, ttl |-> x, count |-> y]
    BY <2>8
  <2>10. Told(m - 1)
    BY <2>1, <2>4, <2>9 DEF i
  <2> QED
    BY <2>1, <2>10
<1> HIDE DEF T, Told
<1>6. Nat \subseteq T
  BY <1>4, <1>5, Induction
<1>7. Told(0)
  <2>1. n \in T /\ n - n = 0
    BY <1>1, <1>6
  <2> QED
    BY <1>1, <2>1 DEF T
<1>8. SubSeq(e.actions, 0 + 1, n) = e.actions
  BY <1>3 DEF n
<1> QED
  BY <1>7, <1>8 DEF Told, r

(* An array that is laid out as an entry is read as that entry, with the two *)
(* bytes at the end for its ttl and its count.                               *)
LEMMA Decode ==
  ASSUME NEW e \in Entry, NEW c \in Seq(Byte), NEW at, Layout(e, c, at)
  PROVE  EntryFromArray(c) = [windows |-> e.windows, actions |-> e.actions,
                              ttl |-> c[Len(c) - 1], count |-> c[Len(c)]]
<1> DEFINE rest == RestFromArray(c)[2 + WINDOW_SIZE * Len(e.windows)]
<1>1. WindowsFromArray(c, c[1]) = e.windows
  BY WindowsDecode
<1>2. rest = [actions |-> e.actions, ttl |-> c[Len(c) - 1], count |-> c[Len(c)]]
  <2>1. Len(e.windows) \in Nat /\ at[0] = 5 * Len(e.windows) + 1
    BY LayoutFacts
  <2>2. 2 + WINDOW_SIZE * Len(e.windows) = at[0] + 1
    BY <2>1 DEF WINDOW_SIZE
  <2> QED
    BY <2>2, ActionsDecode
<1>3. EntryFromArray(c) = [windows |-> e.windows, actions |-> rest.actions,
                           ttl |-> rest.ttl, count |-> rest.count]
  BY <1>1, Zenon DEF EntryFromArray
<1> HIDE DEF rest
<1> QED
  BY <1>2, <1>3

(* An entry that fits into a packet, every byte of it a byte. *)
Storable(e) ==
  e \in Entry /\ ArrayFromEntry(e) \in Seq(Byte) /\ Len(ArrayFromEntry(e)) <= MaxPayload

(* get_array_from_entry and get_entry_from_array: every rule that fits into a  *)
(* packet is read back as it is, its ttl and count in a byte each.           *)
THEOREM EntryRoundTrip ==
  ASSUME NEW e, Storable(e)
  PROVE  EntryFromArray(ArrayFromEntry(e)) =
           [windows |-> e.windows, actions |-> e.actions,
            ttl |-> e.ttl % 256, count |-> e.count % 256]
<1> DEFINE b == ArrayFromEntry(e)
           g == EntryFromArray(b)
           t == e.ttl % 256
           k == e.count % 256
<1>1. e \in Entry /\ b \in Seq(Byte)
  BY DEF Storable
<1>2. (\E at : Layout(e, b, at)) /\ b[Len(b) - 1] = t /\ b[Len(b)] = k
  BY <1>1, ArrayLayout
<1>3. g = [windows |-> e.windows, actions |-> e.actions,
           ttl |-> b[Len(b) - 1], count |-> b[Len(b)]]
  BY <1>1, <1>2, Decode
<1> HIDE DEF b, g, t, k
<1>4. g = [windows |-> e.windows, actions |-> e.actions, ttl |-> t, count |-> k]
  BY <1>2, <1>3, Zenon
<1> QED
  BY <1>4, Zenon DEF g, b, t, k

(* What e is written out as before its ttl and count. *)
Before(e) ==
  <<WINDOW_SIZE * Len(e.windows)>> \o FlattenSeq(Wins(e)) \o FlattenSeq(Acts(e))

LEMMA BeforeFacts ==
  ASSUME NEW e \in Entry
  PROVE  /\ Before(e) \in Seq(Nat)
         /\ ArrayFromEntry(e) = Before(e) \o <<e.ttl % 256, e.count % 256>>
<1> DEFINE p == <<WINDOW_SIZE * Len(e.windows)>>
           q == FlattenSeq(Wins(e))
           r == FlattenSeq(Acts(e))
<1>1. p \in Seq(Nat)
  <2>1. WINDOW_SIZE * Len(e.windows) \in Nat
    BY EntryTypes DEF WINDOW_SIZE
  <2> QED
    BY <2>1
<1>2. q \in Seq(Nat)
  BY WinsFacts, FlattenFacts
<1>3. r \in Seq(Nat)
  BY ActsFacts, FlattenFacts
<1>4. ArrayFromEntry(e) = p \o q \o r \o <<e.ttl % 256, e.count % 256>>
  BY Zenon DEF ArrayFromEntry, Wins, Acts
<1>5. Before(e) = p \o q \o r
  BY Zenon DEF Before
<1> HIDE DEF p, q, r
<1>6. p \o q \in Seq(Nat)
  BY <1>1, <1>2, Glue, Zenon
<1>7. p \o q \o r \in Seq(Nat)
  BY <1>3, <1>6, Glue, Zenon
<1> QED
  BY <1>4, <1>5, <1>7, Zenon

(* Two entries with the same windows and actions, written out as long. *)
Same(f, e) == Rule(f) = Rule(e) /\ Len(ArrayFromEntry(f)) = Len(ArrayFromEntry(e))

LEMMA Counted ==
  ASSUME NEW e, Storable(e)
  PROVE  LET g == [e EXCEPT !.count = (e.count + 1) % 65536]
         IN  Storable(g) /\ Same(g, e)
<1> DEFINE g == [e EXCEPT !.count = (e.count + 1) % 65536]
           p == Before(e)
           s == <<e.ttl % 256, e.count % 256>>
           t == <<g.ttl % 256, g.count % 256>>
<1>1. e \in Entry
  BY DEF Storable
<1>2. e.count \in Word /\ e.ttl \in Word
  BY <1>1, EntryTypes
<1>3. (e.count + 1) % 65536 \in Word
  <2> DEFINE M == 65536
  <2>1. M \in Nat /\ M > 0 /\ Word = 0 .. M - 1
    BY DEF Word
  <2>2. e.count + 1 \in Nat
    <3>1. \A v \in Word : v \in Nat
      BY DEF Word
    <3>2. e.count \in Nat
      BY <1>2, <3>1, Zenon
    <3> QED
      BY <3>2
  <2> HIDE DEF M
  <2>3. \A v \in Nat : v % M \in 0 .. M - 1
    BY <2>1
  <2>4. (e.count + 1) % M \in Word
    BY <2>1, <2>2, <2>3
  <2> QED
    BY <2>4 DEF M
<1>4. g \in Entry /\ g.windows = e.windows /\ g.actions = e.actions /\ g.ttl = e.ttl
  BY <1>1, <1>3 DEF Entry
<1> HIDE DEF g
<1>5. Rule(g) = Rule(e)
  BY <1>4 DEF Rule
<1>6. Before(g) = p
  <2>1. Wins(g) = Wins(e) /\ Acts(g) = Acts(e)
    BY <1>4 DEF Wins, Acts
  <2> QED
    BY <1>4, <2>1, Zenon DEF Before
<1>7. /\ p \in Seq(Nat) /\ ArrayFromEntry(e) = p \o s /\ ArrayFromEntry(g) = p \o t
  BY <1>1, <1>4, <1>6, BeforeFacts
<1>8. /\ s \in Seq(Byte) /\ Len(s) = 2 /\ t \in Seq(Byte) /\ Len(t) = 2
  <2>1. \A v \in Word : v % 256 \in Byte
    BY DEF Word, Byte
  <2>3. g.count \in Word /\ g.ttl \in Word
    BY <1>4, EntryTypes
  <2>4. /\ e.ttl % 256 \in Byte /\ e.count % 256 \in Byte
        /\ g.ttl % 256 \in Byte /\ g.count % 256 \in Byte
    BY <1>2, <2>1, <2>3, Zenon
  <2>5. \A x, y \in Byte : <<x, y>> \in Seq(Byte) /\ Len(<<x, y>>) = 2
    OBVIOUS
  <2> QED
    BY <2>4, <2>5, Zenon
<1> HIDE DEF p, s, t
<1>9. \A S : \A x, y \in Seq(S) : Len(x \o y) = Len(x) + Len(y)
  BY Glue, Zenon DEF Glued
<1>10. s \in Seq(Nat) /\ t \in Seq(Nat)
  <2>1. Byte \subseteq Nat
    BY DEF Byte
  <2>2. \A S, T : S \subseteq T => Seq(S) \subseteq Seq(T)
    OBVIOUS
  <2> QED
    BY <1>8, <2>1, <2>2, Zenon
<1>11. p \in Seq(Byte)
  <2>1. p \o s \in Seq(Byte) /\ Glued(p, s, p \o s)
    <3>1. p \o s \in Seq(Byte)
      BY <1>7, Zenon DEF Storable
    <3> QED
      BY <1>7, <1>10, <3>1, Glue, Zenon
  <2>2. Len(p) \in Nat /\ Len(p \o s) = Len(p) + 2 /\ \A j \in 1 .. Len(p) : (p \o s)[j] = p[j]
    BY <1>7, <1>8, <2>1 DEF Glued
  <2>3. \A j \in 1 .. Len(p) : j \in 1 .. Len(p \o s)
    BY <2>2
  <2>4. \A j \in 1 .. Len(p) : p[j] \in Byte
    BY <2>1, <2>2, <2>3, Element, Zenon
  <2> QED
    BY <1>7, <2>4
<1>12. p \o t \in Seq(Byte)
  BY <1>8, <1>11, Glue, Zenon
<1>13. Len(p \o t) = Len(p \o s)
  <2>1. Len(p \o t) = Len(p) + Len(t) /\ Len(p \o s) = Len(p) + Len(s)
    BY <1>8, <1>9, <1>11, Zenon
  <2> QED
    BY <1>8, <2>1, Zenon
<1>14. Storable(g)
  <2>1. Len(ArrayFromEntry(g)) = Len(ArrayFromEntry(e))
    BY <1>7, <1>13
  <2>2. Len(ArrayFromEntry(e)) <= MaxPayload
    BY DEF Storable
  <2> QED
    BY <1>4, <1>7, <1>12, <2>1, <2>2 DEF Storable
<1>15. Len(ArrayFromEntry(g)) = Len(ArrayFromEntry(e))
  BY <1>7, <1>13
<1> QED
  BY <1>5, <1>14, <1>15 DEF g, Same

(* How a reply may travel, and what that may overwrite: the reply itself is no *)
(* longer than the payload, and a short one ends before a request's rssi.    *)
Ways == {"rules", "requests", "relay"}

LEMMA Beyond ==
  ASSUME NEW way \in Ways, NEW n \in Nat, n <= MaxPayload, way = "rules" \/ Short(n)
  PROVE  \A i \in 1 .. n - 2 : i \notin Overwritten[way]
<1>1. Overwritten[way] \subseteq {RssiAt, PartAt}
  BY DEF Overwritten, Ways
<1>2. Overwritten["rules"] = {RssiAt}
  BY DEF Overwritten
<1>3. MaxPayload \in Nat /\ PLD_INDEX \in Nat
  BY PayloadAssumption, CommandsAssumption
<1>4. \A i \in 1 .. n - 2 : i # RssiAt
  BY <1>3 DEF RssiAt
<1>5. CASE way = "rules"
  BY <1>2, <1>4, <1>5
<1>6. CASE Short(n)
  <2>1. PartAt \in Int
    BY <1>3 DEF PartAt, PartInit
  <2>2. \A i \in 1 .. n - 2 : i # PartAt
    BY <1>6, <2>1 DEF Short
  <2> QED
    BY <1>1, <1>4, <2>2
<1> QED
  BY <1>5, <1>6

(* What is received of an entry's array is read as that entry but for the      *)
(* bytes that were overwritten.                                              *)
LEMMA ReadBack ==
  ASSUME NEW e, Storable(e), NEW rssi \in Byte, NEW way \in Ways,
         NEW c, c = Received(ArrayFromEntry(e), way, rssi)
  PROVE  /\ c # << >> /\ Len(c) = Len(ArrayFromEntry(e))
         /\ way = "rules" \/ Short(Len(c)) =>
              /\ Rule(EntryFromArray(c)) = Rule(e)
              /\ Len(c) - 1 \notin Overwritten[way] => EntryFromArray(c).ttl = e.ttl % 256
              /\ Len(c) \notin Overwritten[way] => EntryFromArray(c).count = e.count % 256
<1> DEFINE b == ArrayFromEntry(e)
           L == Len(b)
<1>1. e \in Entry /\ b \in Seq(Byte) /\ L <= MaxPayload
  BY DEF Storable
<1>2. /\ \E at : Layout(e, b, at)
      /\ b[L - 1] = e.ttl % 256 /\ b[L] = e.count % 256 /\ L >= 3
  BY <1>1, ArrayLayout
<1>3. PICK at : Layout(e, b, at)
  BY <1>2
<1>4. L \in Nat /\ MaxPayload \in Nat
  BY <1>1, PayloadAssumption
<1>5. DOMAIN b = 1 .. L
  BY <1>1
<1> HIDE DEF b, L
<1>6. c = [i \in 1 .. L |-> IF i \in Overwritten[way] THEN rssi ELSE b[i]]
  BY <1>5 DEF Received, b
<1>7. c \in Seq(Byte) /\ Len(c) = L
  <2>1. \A i \in 1 .. L : b[i] \in Byte
    BY <1>1, Element, Zenon DEF L
  <2>2. c \in [1 .. L -> Byte]
    BY <1>6, <2>1
  <2>3. \A S : \A n \in Nat : \A g \in [1 .. n -> S] : g \in Seq(S) /\ Len(g) = n
    OBVIOUS
  <2> QED
    BY <1>4, <2>2, <2>3, Zenon
<1>8. \A i \in 1 .. L : i \notin Overwritten[way] => c[i] = b[i]
  BY <1>6
<1>9. c # << >> /\ Len(c) = Len(b)
  BY <1>2, <1>4, <1>7 DEF L
<1> HIDE DEF Layout
<1>10. ASSUME way = "rules" \/ Short(L)
       PROVE  /\ Rule(EntryFromArray(c)) = Rule(e)
              /\ L - 1 \notin Overwritten[way] => EntryFromArray(c).ttl = e.ttl % 256
              /\ L \notin Overwritten[way] => EntryFromArray(c).count = e.count % 256
  <2>1. Layout(e, c, at)
    <3>1. \A i \in 1 .. L - 2 : i \in 1 .. L /\ i \notin Overwritten[way]
      <4>1. \A i \in 1 .. L - 2 : i \notin Overwritten[way]
        BY <1>1, <1>4, <1>10, Beyond
      <4>2. \A i \in 1 .. L - 2 : i \in 1 .. L
        BY <1>4
      <4> QED
        BY <4>1, <4>2
    <3>2. \A i \in 1 .. Len(b) - 2 : c[i] = b[i]
      BY <1>8, <3>1 DEF L
    <3> QED
      BY <1>1, <1>3, <1>7, <1>9, <3>2, LayoutAgrees
  <2>2. EntryFromArray(c) = [windows |-> e.windows, actions |-> e.actions,
                             ttl |-> c[L - 1], count |-> c[L]]
    BY <1>1, <1>7, <2>1, Decode
  <2>3. L - 1 \in 1 .. L /\ L \in 1 .. L
    BY <1>2, <1>4
  <2>4. Rule(EntryFromArray(c)) = Rule(e)
    BY <2>2 DEF Rule
  <2>5. EntryFromArray(c).ttl = c[L - 1] /\ EntryFromArray(c).count = c[L]
    BY <2>2
  <2> QED
    BY <1>2, <1>8, <2>3, <2>4, <2>5, Zenon
<1> QED
  BY <1>7, <1>9, <1>10 DEF b

(* A rule that the code takes for whole can be stored. *)
LEMMA PayloadStorable ==
  ASSUME NEW p \in Payloads
  PROVE  Storable(EntryFromArray(p))
<1>1. Whole(p)
  BY CommandsAssumption
<1> QED
  BY <1>1, Zenon DEF Whole, Storable

(* Bytes swapped twice are as they were. *)
LEMMA FieldRoundTrip ==
  ASSUME NEW v, IsValue(v)
  PROVE  InMemory(InMemory(v)) = v
<1>1. CASE Len(v) = 1
  BY <1>1 DEF InMemory
<1>2. CASE Len(v) = 2
  <2>1. v \in Seq(Byte) /\ InMemory(v) = <<v[2], v[1]>>
    BY <1>2 DEF IsValue, InMemory
  <2>2. \A x, y : Len(<<x, y>>) = 2 /\ <<x, y>>[1] = x /\ <<x, y>>[2] = y
    OBVIOUS
  <2>3. InMemory(InMemory(v)) = <<v[1], v[2]>>
    BY <2>1, <2>2 DEF InMemory
  <2> QED
    BY <1>2, <2>1, <2>3
<1> QED
  BY <1>1, <1>2 DEF IsValue
-----------------------------------------------------------------------------
LEMMA PacketsPositive == NumPackets \in Nat /\ NumPackets > 0
  BY CommandsAssumption

(* What a WRITE carries. *)
LEMMA WriteFacts ==
  ASSUME NEW c \in Commands, c.op = "WRITE"
  PROVE  c.id \in Fields /\ c.value \in Written[c.id]
<1>1. c \in Writes => c.id \in Fields /\ c.value \in Written[c.id]
  <2>1. SUFFICES ASSUME NEW f \in Fields, c \in [op : {"WRITE"}, id : {f}, value : Written[f]]
                 PROVE  c.id = f /\ c.value \in Written[f]
    BY DEF Writes
  <2> QED
    BY <2>1
<1>2. c \notin Reads /\ c \notin Responses /\ c \notin Resets
  BY DEF Reads, Responses, Resets
<1>3. c \notin GetRules
  <2>1. \A S : c \notin [op : {"GET_RULE"}, position : S]
    OBVIOUS
  <2> QED
    BY <2>1 DEF GetRules
<1> QED
  BY <1>1, <1>2, <1>3 DEF Commands

LEMMA PacketFacts ==
  ASSUME NEW p \in Packet
  PROVE  p.cmd \in Commands /\ p.rssi \in Rssi
  BY DEF Packet

(* The bytes of a value go into memory in turn, and stay two bytes or one. *)
LEMMA InMemoryValue ==
  ASSUME NEW v, IsValue(v)
  PROVE  IsValue(InMemory(v)) /\ Len(InMemory(v)) = Len(v)
<1>1. CASE Len(v) = 1
  BY <1>1 DEF IsValue, InMemory
<1>2. CASE Len(v) = 2
  <2>1. v[1] \in Byte /\ v[2] \in Byte
    BY <1>2 DEF IsValue
  <2>2. InMemory(v) = <<v[2], v[1]>>
    BY <1>2 DEF InMemory
  <2>3. \A x, y \in Byte : <<x, y>> \in Seq(Byte) /\ Len(<<x, y>>) = 2
    OBVIOUS
  <2> QED
    BY <1>2, <2>1, <2>2, <2>3 DEF IsValue
<1> QED
  BY <1>1, <1>2 DEF IsValue

(* my_net and my_address, in bytes. *)
LEMMA Sizes ==
  /\ "MY_NET" \in Fields /\ "MY_ADDRESS" \in Fields /\ "MY_NET" # "MY_ADDRESS"
  /\ Len(Boot["MY_NET"]) = 1 /\ Len(Boot["MY_ADDRESS"]) = 2
  /\ Boot["MY_ADDRESS"] = LinkAddress
  BY CommandsAssumption

LEMMA TwoBytesValue ==
  \A x, y \in Byte : /\ IsValue(<<x, y>>) /\ Len(<<x, y>>) = 2
                     /\ IsValue(<<x>>) /\ Len(<<x>>) = 1
<1> SUFFICES ASSUME NEW x \in Byte, NEW y \in Byte
             PROVE  /\ IsValue(<<x, y>>) /\ Len(<<x, y>>) = 2
                    /\ IsValue(<<x>>) /\ Len(<<x>>) = 1
  OBVIOUS
<1>1. <<x, y>> \in Seq(Byte) /\ Len(<<x, y>>) = 2 /\ <<x>> \in Seq(Byte) /\ Len(<<x>>) = 1
  OBVIOUS
<1> QED
  BY <1>1 DEF IsValue

LEMMA ValueBytes ==
  ASSUME NEW v, IsValue(v), Len(v) = 2
  PROVE  v[1] \in Byte /\ v[2] \in Byte /\ v = <<v[1], v[2]>>
<1>1. v \in Seq(Byte)
  BY DEF IsValue
<1> QED
  BY <1>1

(* A WRITE leaves every field with the bytes it had. *)
LEMMA WriteKeepsTypes ==
  ASSUME TypeOK, NEW c \in Commands, Write(c), UNCHANGED target
  PROVE  TypeOK'
<1>1. c.id \in Fields /\ c.value \in Written[c.id]
  BY WriteFacts DEF Write
<1>2. IsValue(c.value) /\ Len(c.value) = Len(Boot[c.id])
  BY <1>1, CommandsAssumption
<1>3. conf' = WriteField(c.id, c.value) /\ UNCHANGED lost
  BY DEF Write
<1>4. DOMAIN conf = Fields
  BY DEF TypeOK
<1>5. DOMAIN conf' = Fields
  BY <1>3, <1>4 DEF WriteField
<1>6. ASSUME NEW f \in Fields
      PROVE  IsValue(conf'[f]) /\ Len(conf'[f]) = Len(Boot[f])
  <2>1. IsValue(conf[f]) /\ Len(conf[f]) = Len(Boot[f])
    BY DEF TypeOK
  <2>2. CASE Misplaced(c.id)
    <3>1. c.id = "MY_ADDRESS" /\ Len(c.value) = 2
      BY <1>2, <2>2, Sizes DEF Misplaced
    <3>2. conf' = [conf EXCEPT !["MY_NET"] = <<c.value[2]>>,
                               !["MY_ADDRESS"] = <<c.value[1], conf["MY_ADDRESS"][2]>>]
      BY <1>3, <2>2, Sizes DEF WriteField
    <3>3. c.value[1] \in Byte /\ c.value[2] \in Byte
      BY <1>2, <3>1, ValueBytes
    <3>4. conf["MY_ADDRESS"][2] \in Byte
      <4>1. IsValue(conf["MY_ADDRESS"]) /\ Len(conf["MY_ADDRESS"]) = 2
        BY Sizes DEF TypeOK
      <4> QED
        BY <4>1, ValueBytes
    <3>5. conf'["MY_NET"] = <<c.value[2]>>
      BY <1>4, <3>2, Sizes
    <3>6. conf'["MY_ADDRESS"] = <<c.value[1], conf["MY_ADDRESS"][2]>>
      BY <1>4, <3>2, Sizes
    <3>7. f # "MY_NET" /\ f # "MY_ADDRESS" => conf'[f] = conf[f]
      BY <1>4, <3>2
    <3> QED
      BY <2>1, <3>3, <3>4, <3>5, <3>6, <3>7, TwoBytesValue, Sizes
  <2>3. CASE ~ Misplaced(c.id)
    <3>1. conf' = [conf EXCEPT ![c.id] = InMemory(c.value)]
      BY <1>3, <2>3 DEF WriteField
    <3>2. CASE f = c.id
      <4>1. conf'[f] = InMemory(c.value)
        BY <1>1, <1>4, <3>1, <3>2
      <4> QED
        BY <1>2, <3>2, <4>1, InMemoryValue
    <3>3. CASE f # c.id
      BY <1>4, <2>1, <3>1, <3>3
    <3> QED
      BY <3>2, <3>3
  <2> QED
    BY <2>2, <2>3
<1>7. lost' \in 0 .. NumPackets /\ target' \in Targets
  BY <1>3 DEF TypeOK
<1>8. Fields' = Fields
  BY DEF Fields
<1> QED
  BY <1>5, <1>6, <1>7 DEF TypeOK, IsValue

(* Boot is a configuration, and frees every block. *)
LEMMA BootTypes ==
  ASSUME TypeOK, conf' = Boot, lost' = 0, UNCHANGED target
  PROVE  TypeOK'
<1>1. \A f \in Fields : IsValue(Boot[f])
  BY CommandsAssumption
<1>2. 0 \in 0 .. NumPackets
  BY PacketsPositive
<1> QED
  BY <1>1, <1>2 DEF TypeOK, Fields, IsValue

LEMMA SameTypes ==
  ASSUME TypeOK, UNCHANGED <<conf, target>>, lost' \in 0 .. NumPackets
  PROVE  TypeOK'
  BY DEF TypeOK, IsValue, Fields

(* What match_packet makes of a reply: it may count a rule, it may lose       *)
(* blocks, and it sends the reply on or does not.                            *)
Sent(m, way, rssi) ==
  IF m.op = "READ" THEN m ELSE [m EXCEPT !.bytes = Received(@, way, rssi), !.way = way]

LEMMA MatchFacts ==
  ASSUME NEW m, NEW n, MatchReply(m, n)
  PROVE  /\ UNCHANGED flowtable \/ \E i \in DOMAIN flowtable : CountRule(i)
         /\ \/ UNCHANGED replies
            \/ \E way \in Ways, rssi \in Rssi : replies' = replies \cup {Sent(m, way, rssi)}
         /\ lost \in 0 .. NumPackets => lost' \in 0 .. NumPackets
<1>1. PICK rssi \in Rssi :
        \/ /\ \E i \in DOMAIN flowtable : CountRule(i)
           /\ \/ \E way \in {"rules", "relay"} : Reply(m, way, rssi) /\ UNCHANGED lost
              \/ Request(m, n, rssi)
        \/ Request(m, n, rssi) /\ UNCHANGED flowtable
  BY DEF MatchReply
<1>2. ASSUME NEW way, Reply(m, way, rssi) PROVE replies' = replies \cup {Sent(m, way, rssi)}
  BY <1>2 DEF Reply, Sent
<1>3. ASSUME Request(m, n, rssi)
      PROVE  /\ UNCHANGED replies \/ replies' = replies \cup {Sent(m, "requests", rssi)}
             /\ lost \in 0 .. NumPackets => lost' \in 0 .. NumPackets
  <2>1. PICK free \in 0 .. NumPackets - lost - 1 :
          \/ Reply(m, "requests", rssi) /\ UNCHANGED lost
          \/ lost' = lost + free /\ UNCHANGED replies
    BY <1>3 DEF Request
  <2>2. ASSUME lost \in 0 .. NumPackets, lost' = lost + free PROVE lost' \in 0 .. NumPackets
    BY <2>2, PacketsPositive
  <2> QED
    BY <1>2, <2>1, <2>2
<1>4. UNCHANGED flowtable \/ \E i \in DOMAIN flowtable : CountRule(i)
  BY <1>1
<1>5. \/ UNCHANGED replies
      \/ \E way \in Ways : replies' = replies \cup {Sent(m, way, rssi)}
  BY <1>1, <1>2, <1>3 DEF Ways
<1>6. lost \in 0 .. NumPackets => lost' \in 0 .. NumPackets
  BY <1>1, <1>3
<1> QED
  BY <1>4, <1>5, <1>6

(* A packet is heard and its command obeyed, or it costs a block at most. *)
LEMMA ReceiveKeepsTypes ==
  ASSUME TypeOK, NEW p \in Packet, Receive(p), UNCHANGED target
  PROVE  TypeOK'
<1>1. CASE Write(p.cmd)
  BY <1>1, PacketFacts, WriteKeepsTypes
<1>2. ASSUME Read(p.cmd) \/ GetRule(p.cmd) PROVE TypeOK'
  <2>1. UNCHANGED conf /\ \E m, n : MatchReply(m, n)
    BY <1>2 DEF Read, GetRule
  <2>2. lost \in 0 .. NumPackets
    BY DEF TypeOK
  <2>3. lost' \in 0 .. NumPackets
    BY <2>1, <2>2, MatchFacts
  <2> QED
    BY <2>1, <2>3, SameTypes
<1>3. CASE HandleResponse(p.cmd)
  BY <1>3, SameTypes DEF HandleResponse, TypeOK
<1>4. CASE Reboot
  BY <1>4, BootTypes DEF Reboot
<1>5. CASE /\ lost' = IF Free /\ Passes(p) THEN lost + 1 ELSE lost
           /\ UNCHANGED conf
  <2>1. lost \in 0 .. NumPackets
    BY DEF TypeOK
  <2>2. lost' \in 0 .. NumPackets
    BY <1>5, <2>1, PacketsPositive DEF Free
  <2> QED
    BY <1>5, <2>2, SameTypes
<1> QED
  BY <1>1, <1>2, <1>3, <1>4, <1>5 DEF Receive

(* The actions that touch neither the configuration nor the pool. *)
LEMMA OthersChangeNothing ==
  /\ StartListing => UNCHANGED <<conf, lost, written>>
  /\ \A r \in replies : TakeReply(r) \/ LoseReply(r) => UNCHANGED <<conf, lost, written>>
  /\ \A i \in DOMAIN flowtable : CountMatch(i) => UNCHANGED <<conf, lost, written>>
  BY DEF StartListing, TakeReply, LoseReply, CountMatch

LEMMA TypesKept == TypeOK /\ [Next]_vars => TypeOK'
<1> SUFFICES ASSUME TypeOK, [Next]_vars PROVE TypeOK'
  OBVIOUS
<1>1. UNCHANGED target
  BY DEF Next, vars
<1>2. CASE \E p \in Packet : Receive(p)
  BY <1>1, <1>2, ReceiveKeepsTypes
<1>3. CASE Restart
  BY <1>1, <1>3, BootTypes DEF Restart, Reboot
<1>4. CASE UNCHANGED <<conf, lost>>
  BY <1>1, <1>4, SameTypes DEF TypeOK
<1> QED
  BY <1>2, <1>3, <1>4, OthersChangeNothing DEF Next, vars

(* Every field keeps its size whatever is written, and blocks are lost but    *)
(* never invented.                                                           *)
THEOREM TypeCorrect == Spec => []TypeOK
<1>1. Init => TypeOK
  <2>1. \A f \in Fields : IsValue(Boot[f])
    BY CommandsAssumption
  <2> QED
    BY <2>1, PacketsPositive DEF Init, TypeOK, Fields
<1> QED
  BY <1>1, TypesKept, PTL DEF Spec
-----------------------------------------------------------------------------
Storables == {e \in Entry : Storable(e)}

(* The table holds nothing that does not fit into a packet. *)
TableOK == flowtable \in Seq(Storables)

LEMMA CommandFacts ==
  ASSUME NEW c \in Commands
  PROVE  /\ c.op = "READ" => c.id \in Fields
         /\ c.op = "GET_RULE" => c.position \in 0 .. NumEntries
         /\ c.op = "RESPONSE" => c.payload \in Payloads
<1>1. c \in Writes => c.op = "WRITE"
  <2>1. SUFFICES ASSUME NEW f \in Fields, c \in [op : {"WRITE"}, id : {f}, value : Written[f]]
                 PROVE  c.op = "WRITE"
    BY DEF Writes
  <2> QED
    BY <2>1
<1>2. c \in Reads => c.op = "READ" /\ c.id \in Fields
  BY DEF Reads
<1>3. c \in GetRules => c.op = "GET_RULE" /\ c.position \in 0 .. NumEntries
  <2>1. \A S : c \in [op : {"GET_RULE"}, position : S] => c.op = "GET_RULE" /\ c.position \in S
    OBVIOUS
  <2> QED
    BY <2>1, Zenon DEF GetRules
<1>4. c \in Responses => c.op = "RESPONSE" /\ c.payload \in Payloads
  BY DEF Responses
<1>5. c \in Resets => c.op = "RESET"
  BY DEF Resets
<1> QED
  BY <1>1, <1>2, <1>3, <1>4, <1>5 DEF Commands

LEMMA Greatest ==
  ASSUME NEW n \in Nat, NEW S, S \subseteq 1 .. n, S # {}
  PROVE  \E i \in S : \A j \in S : j <= i
<1> DEFINE T == {n - i : i \in S}
<1>1. T \subseteq Nat /\ T # {}
  <2>1. \A i \in S : n - i \in Nat
    OBVIOUS
  <2> QED
    BY <2>1, Zenon
<1> HIDE DEF T
<1>2. PICK x \in T : \A y \in T : x <= y
  BY <1>1, Least
<1>3. PICK i \in S : x = n - i
  BY DEF T
<1>4. ASSUME NEW j \in S PROVE j <= i
  <2>1. n - j \in T
    BY DEF T
  <2> QED
    BY <1>2, <1>3, <2>1
<1> QED
  BY <1>4

LEMMA RemoveType ==
  ASSUME NEW S, NEW s \in Seq(S), NEW i \in 1 .. Len(s)
  PROVE  RemoveAt(s, i) \in Seq(S)
<1> DEFINE p == SubSeq(s, 1, i - 1)
           q == SubSeq(s, i + 1, Len(s))
<1>1. Len(s) \in Nat /\ i \in Nat /\ 1 <= i /\ i <= Len(s)
  OBVIOUS
<1>2. p \in Seq(S)
  <2>1. i - 1 \in Nat /\ 1 \in Nat /\ 1 <= 1 /\ 1 <= (i - 1) + 1 /\ i - 1 <= Len(s)
    BY <1>1
  <2> QED
    BY <2>1, PartFacts, Zenon
<1>3. q \in Seq(S)
  <2>1. i + 1 \in Nat /\ 1 <= i + 1 /\ i + 1 <= Len(s) + 1 /\ Len(s) <= Len(s)
    BY <1>1
  <2> QED
    BY <1>1, <2>1, PartFacts, Zenon
<1>4. RemoveAt(s, i) = p \o q
  BY Zenon DEF RemoveAt
<1> HIDE DEF p, q
<1> QED
  BY <1>2, <1>3, <1>4, Glue, Zenon

LEMMA WithoutType ==
  ASSUME NEW S, NEW t \in Seq(S), NEW e
  PROVE  Without(t, e) \in Seq(S)
<1> DEFINE found == {i \in DOMAIN t : SameEntry(e, t[i])}
           last == CHOOSE i \in found : \A j \in found : j <= i
<1>1. found \subseteq 1 .. Len(t) /\ Len(t) \in Nat
  OBVIOUS
<1>2. CASE found = {}
  BY <1>2, Zenon DEF Without
<1>3. CASE found # {}
  <2> HIDE DEF found
  <2>1. last \in found
    <3>1. \E i \in found : \A j \in found : j <= i
      BY <1>1, <1>3, Greatest
    <3> QED
      BY <3>1
  <2>2. last \in 1 .. Len(t)
    BY <1>1, <2>1
  <2>3. Without(t, e) = RemoveAt(t, last)
    BY <1>3, Zenon DEF Without, found
  <2> HIDE DEF last
  <2> QED
    BY <2>2, <2>3, RemoveType
<1> QED
  BY <1>2, <1>3

(* t is s with x at the end. *)
Added(s, x, t) ==
  /\ Len(t) = Len(s) + 1 /\ t[Len(s) + 1] = x
  /\ \A i \in 1 .. Len(s) : t[i] = s[i]

LEMMA Appended ==
  \A S : \A s \in Seq(S) : \A x \in S : Append(s, x) \in Seq(S) /\ Added(s, x, Append(s, x))
  BY DEF Added

LEMMA Changed ==
  ASSUME NEW S, NEW s \in Seq(S), NEW k \in DOMAIN s, NEW x \in S, NEW t, t = [s EXCEPT ![k] = x]
  PROVE  t \in Seq(S) /\ Len(t) = Len(s)
  OBVIOUS

LEMMA TableFacts ==
  ASSUME TableOK
  PROVE  /\ Len(flowtable) \in Nat /\ DOMAIN flowtable = 1 .. Len(flowtable)
         /\ \A i \in DOMAIN flowtable : Storable(flowtable[i]) /\ flowtable[i] \in Entry
<1>1. flowtable \in Seq(Storables)
  BY DEF TableOK
<1>2. Len(flowtable) \in Nat /\ DOMAIN flowtable = 1 .. Len(flowtable)
  BY <1>1
<1>3. \A i \in 1 .. Len(flowtable) : flowtable[i] \in Storables
  BY <1>1, Element, Zenon
<1> HIDE DEF Storable
<1> QED
  BY <1>2, <1>3 DEF Storables

(* add_entry: what comes in is a rule that fits. *)
LEMMA ResponseTable ==
  ASSUME TableOK, NEW c \in Commands, HandleResponse(c)
  PROVE  /\ flowtable' \in Seq(Storables)
         /\ ~ shifted' => /\ ~ shifted /\ Len(flowtable') = Len(flowtable) + 1
                          /\ \A i \in DOMAIN flowtable : flowtable'[i] = flowtable[i]
<1> DEFINE e == EntryFromArray(c.payload)
           room == IF Len(flowtable) < NumEntries THEN flowtable ELSE << >>
           kept == Without(room, e)
<1>1. /\ c.op = "RESPONSE" /\ flowtable' = AddEntry(room, e)
      /\ shifted' = (shifted \/ kept # flowtable)
  BY DEF HandleResponse
<1>2. e \in Storables
  <2>1. c.payload \in Payloads
    BY <1>1, CommandFacts
  <2>2. Storable(e)
    BY <2>1, PayloadStorable
  <2> QED
    BY <2>2 DEF Storables, Storable
<1>3. flowtable' = Append(kept, e)
  BY <1>1, Zenon DEF AddEntry
<1>4. room \in Seq(Storables)
  BY DEF TableOK
<1> HIDE DEF e, room
<1>5. kept \in Seq(Storables)
  BY <1>4, WithoutType
<1> HIDE DEF kept
<1>6. flowtable' \in Seq(Storables)
  BY <1>2, <1>3, <1>5, Appended, Zenon
<1>7. ASSUME ~ shifted' PROVE /\ ~ shifted /\ Len(flowtable') = Len(flowtable) + 1
                              /\ \A i \in DOMAIN flowtable : flowtable'[i] = flowtable[i]
  <2>1. ~ shifted /\ kept = flowtable
    BY <1>1, <1>7
  <2>2. DOMAIN flowtable = 1 .. Len(flowtable)
    BY TableFacts
  <2>3. flowtable' = Append(flowtable, e)
    BY <1>3, <2>1, Zenon
  <2>4. flowtable \in Seq(Storables)
    BY DEF TableOK
  <2>5. Added(flowtable, e, flowtable')
    BY <1>2, <2>3, <2>4, Appended, Zenon
  <2> QED
    BY <2>1, <2>2, <2>5 DEF Added
<1> QED
  BY <1>6, <1>7

(* A match changes the count of one rule. *)
LEMMA CountTable ==
  ASSUME TableOK, NEW i \in DOMAIN flowtable, CountRule(i)
  PROVE  /\ flowtable' \in Seq(Storables) /\ DOMAIN flowtable' = DOMAIN flowtable
         /\ Len(flowtable') = Len(flowtable)
         /\ \A j \in DOMAIN flowtable : Same(flowtable'[j], flowtable[j])
<1> DEFINE g == [flowtable[i] EXCEPT !.count = (flowtable[i].count + 1) % 65536]
<1>1. /\ Len(flowtable) \in Nat /\ DOMAIN flowtable = 1 .. Len(flowtable)
      /\ Storable(flowtable[i])
  BY TableFacts
<1>2. flowtable' = [flowtable EXCEPT ![i] = g]
  BY DEF CountRule
<1>3. Storable(g) /\ Same(g, flowtable[i])
  BY <1>1, Counted
<1>4. g \in Storables
  BY <1>3 DEF Storables, Storable
<1> HIDE DEF g
<1>5. flowtable' \in Seq(Storables) /\ Len(flowtable') = Len(flowtable)
  <2>1. flowtable \in Seq(Storables)
    BY DEF TableOK
  <2> DEFINE S == Storables
             t == flowtable'
  <2>2. flowtable \in Seq(S) /\ g \in S /\ t = [flowtable EXCEPT ![i] = g]
    BY <1>2, <1>4, <2>1
  <2> HIDE DEF S, t
  <2>3. t \in Seq(S) /\ Len(t) = Len(flowtable)
    BY <2>2, Changed
  <2> QED
    BY <2>3 DEF S, t
<1>6. DOMAIN flowtable' = DOMAIN flowtable
  BY <1>2
<1>7. ASSUME NEW j \in DOMAIN flowtable PROVE Same(flowtable'[j], flowtable[j])
  <2>1. CASE j = i
    BY <1>2, <1>3, <2>1
  <2>2. CASE j # i
    BY <1>2, <2>2 DEF Same
  <2> QED
    BY <2>1, <2>2
<1> QED
  BY <1>5, <1>6, <1>7

LEMMA TableKept == TableOK /\ [Next]_vars => TableOK'
<1> SUFFICES ASSUME TableOK, [Next]_vars PROVE TableOK'
  OBVIOUS
<1>1. CASE UNCHANGED flowtable
  BY <1>1 DEF TableOK, Storables, Storable
<1>2. CASE flowtable' = << >>
  <2>1. \A S : << >> \in Seq(S)
    OBVIOUS
  <2> QED
    BY <1>2, <2>1 DEF TableOK
<1>3. ASSUME NEW c \in Commands, HandleResponse(c) PROVE TableOK'
  BY <1>3, ResponseTable DEF TableOK
<1>4. ASSUME NEW i \in DOMAIN flowtable, CountRule(i) PROVE TableOK'
  BY <1>4, CountTable DEF TableOK
<1>5. ASSUME NEW p \in Packet, Receive(p) PROVE TableOK'
  <2>1. p.cmd \in Commands
    BY DEF Packet
  <2>2. \/ UNCHANGED flowtable
        \/ flowtable' = << >>
        \/ HandleResponse(p.cmd)
        \/ \E m, n : MatchReply(m, n)
    BY <1>5 DEF Receive, Read, Write, GetRule, Reboot
  <2> QED
    BY <1>1, <1>2, <1>3, <1>4, <2>1, <2>2, MatchFacts
<1>6. CASE StartListing
  BY <1>1, <1>6 DEF StartListing
<1>7. ASSUME NEW r \in replies, TakeReply(r) \/ LoseReply(r) PROVE TableOK'
  BY <1>1, <1>7 DEF TakeReply, LoseReply
<1>8. CASE Restart
  BY <1>2, <1>8 DEF Restart, Reboot
<1>9. CASE UNCHANGED vars
  BY <1>1, <1>9 DEF vars
<1> QED
  BY <1>4, <1>5, <1>6, <1>7, <1>8, <1>9 DEF Next, CountMatch

THEOREM TableFits == Spec => []TableOK
<1>1. Init => TableOK
  <2>1. \A S : << >> \in Seq(S)
    OBVIOUS
  <2> QED
    BY <2>1 DEF Init, TableOK
<1> QED
  BY <1>1, TableKept, PTL DEF Spec

(* What memory holds of a field that should be read as v. *)
Holds(c, f, v) ==
  IF Misplaced(f) THEN c["MY_ADDRESS"][1] = v[1] /\ c["MY_NET"] = <<v[2]>>
  ELSE c[f] = InMemory(v)

(* What a READ should say is in memory, and where my_address is misplaced its *)
(* second byte is never written.                                             *)
MemoryOK ==
  /\ DOMAIN written = Fields
  /\ \A f \in Fields : written[f] # Unwritten =>
       IsValue(written[f]) /\ Len(written[f]) = Len(Boot[f]) /\ Holds(conf, f, written[f])
  /\ target = "even" => conf["MY_ADDRESS"][2] = LinkAddress[2]

LEMMA BootMemory ==
  ASSUME conf' = Boot, written' = AtBoot
  PROVE  MemoryOK'
<1>1. DOMAIN written' = Fields
  BY DEF AtBoot
<1>2. ASSUME NEW f \in Fields, written'[f] # Unwritten
      PROVE  /\ IsValue(written'[f]) /\ Len(written'[f]) = Len(Boot[f])
             /\ f # "MY_ADDRESS" /\ conf'[f] = InMemory(written'[f])
  <2>1. f # "MY_ADDRESS" /\ written'[f] = InMemory(Boot[f])
    BY <1>2 DEF AtBoot
  <2>2. IsValue(Boot[f])
    BY CommandsAssumption
  <2> QED
    BY <2>1, <2>2, InMemoryValue, FieldRoundTrip
<1>3. conf'["MY_ADDRESS"][2] = LinkAddress[2]
  BY Sizes
<1>4. Fields' = Fields
  BY DEF Fields
<1> QED
  BY <1>1, <1>2, <1>3 DEF MemoryOK, Holds, Misplaced, IsValue, Fields

LEMMA WriteMemory ==
  ASSUME TypeOK, MemoryOK, NEW c \in Commands, Write(c), UNCHANGED target
  PROVE  MemoryOK'
<1> DEFINE v == c.value
<1>1. c.id \in Fields /\ v \in Written[c.id]
  BY WriteFacts DEF Write
<1>2. IsValue(v) /\ Len(v) = Len(Boot[c.id])
  BY <1>1, CommandsAssumption
<1>3. conf' = WriteField(c.id, v) /\ written' = Promised(c.id, v)
  BY DEF Write
<1>4. DOMAIN conf = Fields /\ DOMAIN written' = Fields
  BY <1>3 DEF TypeOK, Promised
<1>5. written'[c.id] = v
  BY <1>1, <1>3 DEF Promised
<1>6. ASSUME NEW f \in Fields, f # c.id, written'[f] # Unwritten
      PROVE  /\ written'[f] = written[f]
             /\ ~ (target = "even" /\ {c.id, f} = {"MY_NET", "MY_ADDRESS"})
  BY <1>3, <1>6 DEF Promised
<1> HIDE DEF v
<1>7. ASSUME NEW f \in Fields, f # c.id, written'[f] # Unwritten PROVE Holds(conf', f, written'[f])
  <2>1. Holds(conf, f, written[f])
    BY <1>6, <1>7 DEF MemoryOK
  <2>2. CASE Misplaced(f)
    <3>1. f = "MY_ADDRESS" /\ target = "even" /\ c.id # "MY_NET" /\ c.id # "MY_ADDRESS"
      BY <1>6, <1>7, <2>2 DEF Misplaced
    <3>2. conf' = [conf EXCEPT ![c.id] = InMemory(v)]
      BY <1>3, <3>1 DEF WriteField, Misplaced
    <3>3. conf'["MY_ADDRESS"] = conf["MY_ADDRESS"] /\ conf'["MY_NET"] = conf["MY_NET"]
      BY <1>4, <3>1, <3>2, Sizes
    <3> QED
      BY <1>6, <1>7, <2>1, <2>2, <3>3 DEF Holds, Misplaced
  <2>3. CASE ~ Misplaced(f)
    <3>1. conf'[f] = conf[f]
      <4>1. CASE Misplaced(c.id)
        <5>1. f # "MY_NET" /\ f # "MY_ADDRESS"
          BY <1>6, <1>7, <4>1 DEF Misplaced
        <5> QED
          BY <1>3, <1>4, <4>1, <5>1 DEF WriteField
      <4>2. CASE ~ Misplaced(c.id)
        BY <1>3, <1>4, <1>7, <4>2 DEF WriteField
      <4> QED
        BY <4>1, <4>2
    <3> QED
      BY <1>6, <1>7, <2>1, <2>3, <3>1 DEF Holds, Misplaced
  <2> QED
    BY <2>2, <2>3
<1>8. Holds(conf', c.id, v)
  <2>1. CASE Misplaced(c.id)
    <3>1. conf' = [conf EXCEPT !["MY_NET"] = <<v[2]>>,
                               !["MY_ADDRESS"] = <<v[1], conf["MY_ADDRESS"][2]>>]
      BY <1>3, <2>1, Sizes DEF WriteField
    <3>2. conf'["MY_NET"] = <<v[2]>> /\ conf'["MY_ADDRESS"][1] = v[1]
      BY <1>4, <3>1, Sizes
    <3> QED
      BY <2>1, <3>2 DEF Holds, Misplaced, v
  <2>2. CASE ~ Misplaced(c.id)
    <3>1. conf'[c.id] = InMemory(v)
      BY <1>1, <1>3, <1>4, <2>2 DEF WriteField
    <3> QED
      BY <2>2, <3>1 DEF Holds, Misplaced, v
  <2> QED
    BY <2>1, <2>2
<1>9. target = "even" => conf'["MY_ADDRESS"][2] = LinkAddress[2]
  <2> SUFFICES ASSUME target = "even" PROVE conf'["MY_ADDRESS"][2] = LinkAddress[2]
    OBVIOUS
  <2>1. conf["MY_ADDRESS"][2] = LinkAddress[2]
    BY DEF MemoryOK
  <2>2. CASE Misplaced(c.id)
    <3>1. conf' = [conf EXCEPT !["MY_NET"] = <<v[2]>>,
                               !["MY_ADDRESS"] = <<v[1], conf["MY_ADDRESS"][2]>>]
      BY <1>3, <2>2, Sizes DEF WriteField
    <3> QED
      BY <1>4, <2>1, <3>1, Sizes
  <2>3. CASE ~ Misplaced(c.id)
    <3>1. c.id # "MY_ADDRESS"
      BY <2>3 DEF Misplaced
    <3> QED
      BY <1>3, <1>4, <2>1, <2>3, <3>1, Sizes DEF WriteField
  <2> QED
    BY <2>2, <2>3
<1>10. ASSUME NEW f \in Fields, written'[f] # Unwritten
       PROVE  /\ IsValue(written'[f]) /\ Len(written'[f]) = Len(Boot[f])
              /\ Holds(conf', f, written'[f])
  <2>1. CASE f = c.id
    BY <1>2, <1>5, <1>8, <2>1 DEF v
  <2>2. CASE f # c.id
    <3>1. written'[f] = written[f] /\ Holds(conf', f, written'[f])
      BY <1>6, <1>7, <1>10, <2>2
    <3> QED
      BY <1>10, <3>1 DEF MemoryOK
  <2> QED
    BY <2>1, <2>2
<1>11. Fields' = Fields
  BY DEF Fields
<1>12. ASSUME NEW f \in Fields
       PROVE  Holds(conf', f, written'[f]) => Holds(conf, f, written[f])'
  BY DEF Holds, Misplaced
<1> QED
  BY <1>4, <1>9, <1>10, <1>11, <1>12 DEF MemoryOK, IsValue

LEMMA MemoryKept == TypeOK /\ MemoryOK /\ [Next]_vars => MemoryOK'
<1> SUFFICES ASSUME TypeOK, MemoryOK, [Next]_vars PROVE MemoryOK'
  OBVIOUS
<1>1. UNCHANGED target
  BY DEF Next, vars
<1>2. CASE UNCHANGED <<conf, written>>
  BY <1>1, <1>2 DEF MemoryOK, Holds, Misplaced, IsValue, Fields
<1>3. CASE Reboot
  BY <1>3, BootMemory DEF Reboot
<1>4. ASSUME NEW p \in Packet, Receive(p) PROVE MemoryOK'
  <2>1. p.cmd \in Commands
    BY DEF Packet
  <2>2. UNCHANGED <<conf, written>> \/ Reboot \/ Write(p.cmd)
    <3>1. \/ Read(p.cmd) \/ Write(p.cmd) \/ GetRule(p.cmd) \/ HandleResponse(p.cmd) \/ Reboot
          \/ UNCHANGED <<conf, written>>
      BY <1>4 DEF Receive
    <3>2. Read(p.cmd) \/ GetRule(p.cmd) \/ HandleResponse(p.cmd) => UNCHANGED <<conf, written>>
      BY DEF Read, GetRule, HandleResponse
    <3> QED
      BY <3>1, <3>2
  <2> QED
    BY <1>1, <1>2, <1>3, <2>1, <2>2, WriteMemory
<1>5. CASE Restart
  BY <1>3, <1>5 DEF Restart
<1>6. CASE UNCHANGED vars
  BY <1>2, <1>6 DEF vars
<1> QED
  BY <1>2, <1>4, <1>5, <1>6, OthersChangeNothing DEF Next

(* What a READ should say of a field is what memory holds of it, on either    *)
(* target.                                                                   *)
THEOREM WrittenIsThere == Spec => []MemoryOK
<1>1. Init => MemoryOK
  <2> SUFFICES ASSUME conf = Boot, written = AtBoot PROVE MemoryOK
    BY DEF Init
  <2>1. DOMAIN written = Fields
    BY DEF AtBoot
  <2>2. ASSUME NEW f \in Fields, written[f] # Unwritten
        PROVE  /\ IsValue(written[f]) /\ Len(written[f]) = Len(Boot[f])
               /\ f # "MY_ADDRESS" /\ conf[f] = InMemory(written[f])
    <3>1. f # "MY_ADDRESS" /\ written[f] = InMemory(Boot[f])
      BY <2>2 DEF AtBoot
    <3>2. IsValue(Boot[f])
      BY CommandsAssumption
    <3> QED
      BY <3>1, <3>2, InMemoryValue, FieldRoundTrip
  <2>3. conf["MY_ADDRESS"][2] = LinkAddress[2]
    BY Sizes
  <2> QED
    BY <2>1, <2>2, <2>3 DEF MemoryOK, Holds, Misplaced
<1> QED
  BY <1>1, MemoryKept, TypeCorrect, PTL DEF Spec

(* A node told an address answers to it swapped, or, where my_address is      *)
(* misplaced, to its first byte alone and in the net of its second, for      *)
(* every address and whatever is written besides.                            *)
THEOREM AnswersSwapped == Spec => []AnswersTo
<1>1. TypeOK /\ MemoryOK => AnswersTo
  <2> DEFINE g == written["MY_ADDRESS"]
  <2> SUFFICES ASSUME TypeOK, MemoryOK, g # Unwritten, NEW p \in Packet, Hears(p)
               PROVE  IF target = "even"
                        THEN p.to = <<g[1], LinkAddress[2]>> /\ p.net = g[2]
                        ELSE p.to = <<g[2], g[1]>>
    BY DEF AnswersTo
  <2>1. p.to = conf["MY_ADDRESS"] /\ p.net = conf["MY_NET"][1]
    BY DEF Hears, Passes, is_my_address
  <2>2. IsValue(g) /\ Len(g) = 2 /\ Holds(conf, "MY_ADDRESS", g)
    BY Sizes DEF MemoryOK
  <2>3. IsValue(conf["MY_ADDRESS"]) /\ Len(conf["MY_ADDRESS"]) = 2
    BY Sizes DEF TypeOK
  <2> HIDE DEF g
  <2>4. CASE target = "even"
    <3>1. conf["MY_ADDRESS"][1] = g[1] /\ conf["MY_NET"] = <<g[2]>>
      BY <2>2, <2>4 DEF Holds, Misplaced
    <3>2. conf["MY_ADDRESS"][2] = LinkAddress[2]
      BY <2>4 DEF MemoryOK
    <3>3. conf["MY_ADDRESS"] = <<g[1], LinkAddress[2]>>
      BY <2>3, <3>1, <3>2, ValueBytes
    <3> QED
      BY <2>1, <2>4, <3>1, <3>3
  <2>5. CASE target # "even"
    BY <2>1, <2>2, <2>5 DEF Holds, Misplaced, InMemory
  <2> QED
    BY <2>4, <2>5
<1> QED
  BY <1>1, TypeCorrect, WrittenIsThere, PTL

(* RepliesTrue, of one reply. *)
ReplyTrue(r) ==
  /\ r.op = "READ" /\ r.id \in Readable /\ r.wrote # Unwritten => r.value = r.wrote
  /\ r.op = "GET_RULE" /\ (r.way = "rules" \/ Short(Len(r.bytes))) =>
       \A i \in DOMAIN r.rule :
         /\ Rule(EntryFromArray(r.bytes)) = Rule(r.rule[i])
         /\ Len(r.bytes) - 1 \notin Overwritten[r.way] =>
              EntryFromArray(r.bytes).ttl = r.rule[i].ttl % 256
         /\ Len(r.bytes) \notin Overwritten[r.way] =>
              EntryFromArray(r.bytes).count = r.rule[i].count % 256

LEMMA OneByOne == RepliesTrue <=> \A r \in replies : ReplyTrue(r)
  BY Zenon DEF RepliesTrue, ReplyTrue

(* A READ may count a rule, and is answered as such. *)
LEMMA ReadKind ==
  ASSUME NEW c \in Commands, Read(c)
  PROVE  /\ UNCHANGED shifted
         /\ UNCHANGED flowtable \/ \E i \in DOMAIN flowtable : CountRule(i)
         /\ \A r \in replies' : r \in replies \/ r.op = "READ"
<1> DEFINE value == IF c.id \in Readable THEN ReadField(c.id) ELSE << >>
           m == [op |-> "READ", id |-> c.id, value |-> value, wrote |-> written[c.id]]
<1>1. MatchReply(m, Len(value)) /\ UNCHANGED shifted
  BY DEF Read
<1>2. m.op = "READ"
  OBVIOUS
<1> HIDE DEF m, value
<1>3. \A way, rssi : Sent(m, way, rssi) = m
  BY <1>2 DEF Sent
<1> QED
  BY <1>1, <1>2, <1>3, MatchFacts

(* A field is read as it was written. *)
LEMMA ReadIsTrue ==
  ASSUME MemoryOK, NEW c \in Commands, Read(c)
  PROVE  \A r \in replies' : r \in replies \/ ReplyTrue(r)
<1> DEFINE value == IF c.id \in Readable THEN ReadField(c.id) ELSE << >>
           r == [op |-> "READ", id |-> c.id, value |-> value, wrote |-> written[c.id]]
<1>1. c.op = "READ" /\ MatchReply(r, Len(value)) /\ UNCHANGED shifted
  BY DEF Read
<1>2. c.id \in Fields
  BY <1>1, CommandFacts
<1>3. r.op = "READ" /\ r.id = c.id /\ r.value = value /\ r.wrote = written[c.id]
  OBVIOUS
<1>4. ASSUME c.id \in Readable, written[c.id] # Unwritten PROVE value = written[c.id]
  <2> DEFINE v == written[c.id]
  <2>1. IsValue(v) /\ Len(v) = Len(Boot[c.id]) /\ Holds(conf, c.id, v)
    BY <1>2, <1>4 DEF MemoryOK
  <2>2. value = ReadField(c.id)
    BY <1>4
  <2> HIDE DEF v, value
  <2>3. CASE Misplaced(c.id)
    <3>1. Len(v) = 2 /\ conf["MY_ADDRESS"][1] = v[1] /\ conf["MY_NET"] = <<v[2]>>
      BY <2>1, <2>3, Sizes DEF Holds, Misplaced
    <3>2. value = <<v[1], v[2]>>
      BY <2>2, <2>3, <3>1 DEF ReadField
    <3> QED
      BY <2>1, <3>1, <3>2, ValueBytes DEF v
  <2>4. CASE ~ Misplaced(c.id)
    <3>1. value = InMemory(InMemory(v))
      BY <2>1, <2>2, <2>4 DEF Holds, ReadField
    <3> QED
      BY <2>1, <3>1, FieldRoundTrip DEF v
  <2> QED
    BY <2>3, <2>4
<1> HIDE DEF r, value
<1>5. r.op = "READ" /\ ReplyTrue(r)
  BY <1>3, <1>4 DEF ReplyTrue
<1>6. \A way, rssi : Sent(r, way, rssi) = r
  BY <1>5 DEF Sent
<1> QED
  BY <1>1, <1>5, <1>6, MatchFacts

(* What GET_RULE sends: nothing for a position past the end, else an array    *)
(* that is read as the rule there but for what was overwritten.              *)
Answer(r, position) ==
  /\ r.op = "GET_RULE" /\ r.position = position
  /\ DOMAIN r.rule = {position + 1} \cap DOMAIN flowtable
  /\ position + 1 \notin DOMAIN flowtable => r.bytes = << >>
  /\ position + 1 \in DOMAIN flowtable =>
       /\ r.bytes # << >> /\ r.rule[position + 1] = flowtable[position + 1]
       /\ Len(r.bytes) = Len(ArrayFromEntry(flowtable[position + 1]))
       /\ r.way = "rules" \/ Short(Len(r.bytes)) =>
            /\ Rule(EntryFromArray(r.bytes)) = Rule(flowtable[position + 1])
            /\ Len(r.bytes) - 1 \notin Overwritten[r.way] =>
                 EntryFromArray(r.bytes).ttl = flowtable[position + 1].ttl % 256
            /\ Len(r.bytes) \notin Overwritten[r.way] =>
                 EntryFromArray(r.bytes).count = flowtable[position + 1].count % 256

LEMMA GetRuleAnswers ==
  ASSUME TableOK, NEW c \in Commands, GetRule(c)
  PROVE  /\ c.position \in Nat /\ UNCHANGED shifted
         /\ UNCHANGED flowtable \/ \E i \in DOMAIN flowtable : CountRule(i)
         /\ \A r \in replies' : r \in replies \/ Answer(r, c.position)
<1> DEFINE k == c.position + 1
           array == ArrayFromEntryId(flowtable, c.position)
           rule == [i \in {k} \cap DOMAIN flowtable |-> flowtable[i]]
           m == [op |-> "GET_RULE", position |-> c.position, bytes |-> array,
                 rule |-> rule, way |-> "rules"]
<1>1. c.op = "GET_RULE" /\ UNCHANGED shifted /\ MatchReply(m, Len(array))
  BY DEF GetRule
<1>2. c.position \in Nat
  <2>1. c.position \in 0 .. NumEntries /\ NumEntries \in Nat
    BY <1>1, CommandFacts, CommandsAssumption
  <2> QED
    BY <2>1
<1>3. ASSUME NEW way \in Ways, NEW rssi \in Rssi PROVE Answer(Sent(m, way, rssi), c.position)
  <2> DEFINE x == Sent(m, way, rssi)
             b == Received(array, way, rssi)
  <2>1. /\ x.op = "GET_RULE" /\ x.position = c.position /\ x.bytes = b /\ x.way = way
        /\ x.rule = rule /\ DOMAIN rule = {k} \cap DOMAIN flowtable
    BY DEF Sent
  <2>2. ASSUME k \notin DOMAIN flowtable PROVE b = << >>
    <3>1. array = << >>
      BY <2>2, Zenon DEF ArrayFromEntryId
    <3>2. \A w, t : Received(<< >>, w, t) = << >>
      BY DEF Received
    <3> QED
      BY <3>1, <3>2, Zenon
  <2>3. ASSUME k \in DOMAIN flowtable
        PROVE  /\ b # << >> /\ rule[k] = flowtable[k]
               /\ Len(b) = Len(ArrayFromEntry(flowtable[k]))
               /\ way = "rules" \/ Short(Len(b)) =>
                    /\ Rule(EntryFromArray(b)) = Rule(flowtable[k])
                    /\ Len(b) - 1 \notin Overwritten[way] =>
                         EntryFromArray(b).ttl = flowtable[k].ttl % 256
                    /\ Len(b) \notin Overwritten[way] =>
                         EntryFromArray(b).count = flowtable[k].count % 256
    <3>1. Storable(flowtable[k])
      BY <2>3, TableFacts
    <3>2. b = Received(ArrayFromEntry(flowtable[k]), way, rssi)
      BY <2>3, Zenon DEF ArrayFromEntryId
    <3>3. rule[k] = flowtable[k]
      BY <2>3
    <3>4. rssi \in Byte
      BY CommandsAssumption
    <3> HIDE DEF b, k, rule
    <3> QED
      BY <3>1, <3>2, <3>3, <3>4, ReadBack
  <2> HIDE DEF x, b, rule
  <2>4. Answer(x, c.position)
    BY <2>1, <2>2, <2>3, Zenon DEF Answer
  <2> QED
    BY <2>4 DEF x
<1> HIDE DEF m, array
<1> QED
  BY <1>1, <1>2, <1>3, MatchFacts

LEMMA AnswerIsTrue ==
  ASSUME NEW r, NEW n, Answer(r, n)
  PROVE  ReplyTrue(r)
<1>1. ASSUME NEW i \in DOMAIN r.rule PROVE i = n + 1 /\ n + 1 \in DOMAIN flowtable
  BY DEF Answer
<1> QED
  BY <1>1 DEF Answer, ReplyTrue

LEMMA RepliesKept ==
  TypeOK /\ TableOK /\ MemoryOK /\ RepliesTrue /\ [Next]_vars => RepliesTrue'
<1> SUFFICES ASSUME TypeOK, TableOK, MemoryOK, RepliesTrue, [Next]_vars PROVE RepliesTrue'
  OBVIOUS
<1>1. CASE replies' \subseteq replies
  BY <1>1, OneByOne DEF RepliesTrue
<1>2. CASE \A r \in replies' : r \in replies \/ ReplyTrue(r)
  <2>1. \A r \in replies' : ReplyTrue(r)
    BY <1>2, OneByOne
  <2> QED
    BY <2>1, Zenon DEF RepliesTrue, ReplyTrue
<1>3. ASSUME NEW p \in Packet, Receive(p) PROVE RepliesTrue'
  <2>1. p.cmd \in Commands
    BY DEF Packet
  <2>2. UNCHANGED replies \/ Read(p.cmd) \/ GetRule(p.cmd)
    BY <1>3 DEF Receive, Write, HandleResponse, Reboot
  <2>3. ASSUME Read(p.cmd) PROVE RepliesTrue'
    BY <1>2, <2>1, <2>3, ReadIsTrue
  <2>4. ASSUME GetRule(p.cmd) PROVE RepliesTrue'
    BY <1>2, <2>1, <2>4, GetRuleAnswers, AnswerIsTrue
  <2> QED
    BY <1>1, <2>2, <2>3, <2>4
<1>4. CASE StartListing
  BY <1>1, <1>4 DEF StartListing
<1>5. ASSUME NEW r \in replies, TakeReply(r) \/ LoseReply(r) PROVE RepliesTrue'
  BY <1>1, <1>5 DEF TakeReply, LoseReply
<1>6. ASSUME NEW i \in DOMAIN flowtable, CountMatch(i) PROVE RepliesTrue'
  BY <1>1, <1>6 DEF CountMatch
<1>7. CASE Restart
  BY <1>1, <1>7 DEF Restart, Reboot
<1>8. CASE UNCHANGED vars
  BY <1>1, <1>8 DEF vars
<1> QED
  BY <1>3, <1>4, <1>5, <1>6, <1>7, <1>8 DEF Next

(* What the node tells of its configuration is true, at boot and later, on    *)
(* either target; what it tells of a rule is true however the reply travels  *)
(* if the rule is short, and for every rule that fits into a packet if it is *)
(* not wrapped in requests.                                                  *)
THEOREM RepliesAreTrue == Spec => []RepliesTrue
<1>1. Init => RepliesTrue
  BY DEF Init, RepliesTrue
<1> QED
  BY <1>1, RepliesKept, TypeCorrect, TableFits, WrittenIsThere, PTL DEF Spec
-----------------------------------------------------------------------------
(* What a listing that reads x at a rule e gets right. *)
ReadAs(x, e) == Short(Len(ArrayFromEntry(e))) => x = Rule(e)

(* What an answer that is on its way says of the table as it is now. *)
Tells(r) ==
  r.op = "GET_RULE" =>
    /\ r.position \in Nat
    /\ r.bytes = << >> => due <= r.position
    /\ r.bytes # << >> =>
         /\ r.position + 1 \in DOMAIN flowtable
         /\ ReadAs(Rule(EntryFromArray(r.bytes)), flowtable[r.position + 1])

IsSequence(q) == \E S : q \in Seq(S)

(* While a listing is followed, it and the answers to it are of the table. *)
ListingOK ==
  ~ shifted =>
    /\ due \in Nat /\ due <= Len(flowtable)
    /\ IsSequence(listed)
    /\ \A i \in DOMAIN listed :
         i \in DOMAIN flowtable /\ ReadAs(listed[i], flowtable[i])
    /\ done => Len(listed) >= due
    /\ \A r \in replies : Tells(r)

(* The table has at least the rules it had. *)
Grown ==
  /\ Len(flowtable') >= Len(flowtable)
  /\ \A i \in DOMAIN flowtable :
       i \in DOMAIN flowtable' /\ Same(flowtable'[i], flowtable[i])

LEMMA SameReads ==
  \A x, e, f : Same(f, e) /\ ReadAs(x, e) => ReadAs(x, f)
  BY DEF Same, ReadAs

LEMMA Sequences ==
  \A q : IsSequence(q) =>
    /\ Len(q) \in Nat /\ DOMAIN q = 1 .. Len(q)
    /\ \A x : IsSequence(Append(q, x)) /\ Added(q, x, Append(q, x))
<1> SUFFICES ASSUME NEW q, NEW S, q \in Seq(S), NEW x
             PROVE  /\ Len(q) \in Nat /\ DOMAIN q = 1 .. Len(q)
                    /\ IsSequence(Append(q, x)) /\ Added(q, x, Append(q, x))
  BY DEF IsSequence
<1> DEFINE T == S \cup {x}
<1>1. q \in Seq(T)
  <2>1. \A A, B : A \subseteq B => Seq(A) \subseteq Seq(B)
    OBVIOUS
  <2>2. S \subseteq T
    OBVIOUS
  <2> QED
    BY <2>1, <2>2, Zenon
<1>2. x \in T
  OBVIOUS
<1> HIDE DEF T
<1>3. Append(q, x) \in Seq(T) /\ Added(q, x, Append(q, x))
  BY <1>1, <1>2, Appended, Zenon
<1>4. Len(q) \in Nat /\ DOMAIN q = 1 .. Len(q)
  OBVIOUS
<1> QED
  BY <1>3, <1>4, Zenon DEF IsSequence

LEMMA ListingCarried ==
  ASSUME TableOK, TableOK', ListingOK,
         ~ shifted' => /\ ~ shifted /\ Grown
                       /\ UNCHANGED <<listed, due>> /\ (done' => done)
                       /\ \A r \in replies' : r \in replies \/ Tells(r)'
  PROVE  ListingOK'
<1> SUFFICES ASSUME ~ shifted'
             PROVE  /\ due' \in Nat /\ due' <= Len(flowtable')
                    /\ IsSequence(listed')
                    /\ \A i \in DOMAIN listed' :
                         i \in DOMAIN flowtable' /\ ReadAs(listed'[i], flowtable'[i])
                    /\ done' => Len(listed') >= due'
                    /\ \A r \in replies' : Tells(r)'
  BY DEF ListingOK
<1>1. /\ ~ shifted /\ Grown /\ listed' = listed /\ due' = due /\ (done' => done)
      /\ \A r \in replies' : r \in replies \/ Tells(r)'
  OBVIOUS
<1>2. /\ due \in Nat /\ due <= Len(flowtable) /\ IsSequence(listed)
      /\ \A i \in DOMAIN listed :
           i \in DOMAIN flowtable /\ ReadAs(listed[i], flowtable[i])
      /\ done => Len(listed) >= due
      /\ \A r \in replies : Tells(r)
  BY <1>1 DEF ListingOK
<1>3. Len(flowtable) \in Nat /\ Len(flowtable') \in Nat
  <2>1. \A S : \A s \in Seq(S) : Len(s) \in Nat
    OBVIOUS
  <2> QED
    BY <2>1, Zenon DEF TableOK
<1>4. due' \in Nat /\ due' <= Len(flowtable')
  BY <1>1, <1>2, <1>3 DEF Grown
<1>5. \A i \in DOMAIN listed' :
        i \in DOMAIN flowtable' /\ ReadAs(listed'[i], flowtable'[i])
  BY <1>1, <1>2, SameReads, Zenon DEF Grown
<1>6. ASSUME NEW r \in replies' PROVE Tells(r)'
  <2>1. CASE r \in replies
    <3>1. Tells(r)
      BY <1>2, <2>1
    <3>2. SUFFICES ASSUME r.op = "GET_RULE"
                   PROVE  /\ r.position \in Nat
                          /\ r.bytes = << >> => due' <= r.position
                          /\ r.bytes # << >> =>
                               /\ r.position + 1 \in DOMAIN flowtable'
                               /\ ReadAs(Rule(EntryFromArray(r.bytes)), flowtable'[r.position + 1])
      BY Zenon DEF Tells, ReadAs, Rule
    <3> QED
      BY <1>1, <3>1, <3>2, SameReads, Zenon DEF Tells, Grown
  <2> QED
    BY <1>1, <2>1
<1> QED
  BY <1>1, <1>2, <1>4, <1>5, <1>6

LEMMA SameGrown == TableOK /\ UNCHANGED flowtable => Grown
<1> SUFFICES ASSUME TableOK, UNCHANGED flowtable PROVE Grown
  OBVIOUS
<1>1. Len(flowtable) \in Nat
  BY TableFacts
<1> QED
  BY <1>1 DEF Grown, Same

LEMMA CountGrown == TableOK /\ (\E i \in DOMAIN flowtable : CountRule(i)) => Grown
<1> SUFFICES ASSUME TableOK, NEW i \in DOMAIN flowtable, CountRule(i) PROVE Grown
  OBVIOUS
<1>1. /\ DOMAIN flowtable' = DOMAIN flowtable /\ Len(flowtable') = Len(flowtable)
      /\ \A j \in DOMAIN flowtable : Same(flowtable'[j], flowtable[j])
  BY CountTable
<1>2. Len(flowtable) \in Nat
  BY TableFacts
<1> QED
  BY <1>1, <1>2 DEF Grown

(* A listing begins when no answer is on its way. *)
LEMMA ListingBegins ==
  ASSUME TableOK, StartListing
  PROVE  ListingOK'
<1>1. /\ \A r \in replies : r.op # "GET_RULE"
      /\ listed' = << >> /\ done' = FALSE /\ due' = Len(flowtable)
      /\ UNCHANGED <<flowtable, replies>>
  BY DEF StartListing
<1>2. Len(flowtable) \in Nat
  BY TableFacts
<1>3. due' \in Nat /\ due' <= Len(flowtable')
  BY <1>1, <1>2
<1>4. IsSequence(listed') /\ DOMAIN listed' = {}
  <2>1. << >> \in Seq({}) /\ DOMAIN << >> = {}
    OBVIOUS
  <2> QED
    BY <1>1, <2>1 DEF IsSequence
<1>5. \A r \in replies' : Tells(r)'
  BY <1>1 DEF Tells
<1> QED
  BY <1>1, <1>3, <1>4, <1>5 DEF ListingOK

(* The controller writes down the answer that is next. *)
LEMMA ListingTakes ==
  ASSUME TableOK, TableOK', ListingOK, NEW r \in replies, TakeReply(r)
  PROVE  ListingOK'
<1>1. /\ replies' \subseteq replies
      /\ UNCHANGED <<flowtable, due, shifted>>
  BY DEF TakeReply
<1>2. Grown
  BY <1>1, SameGrown
<1>3. CASE UNCHANGED listed /\ (done' => done)
  BY <1>1, <1>2, <1>3, ListingCarried
<1>4. CASE ~ (UNCHANGED listed /\ (done' => done))
  <2>1. /\ r.op = "GET_RULE" /\ r.position = Len(listed) /\ ~ done /\ ~ shifted
        /\ IF r.bytes = << >>
           THEN done' = TRUE /\ UNCHANGED listed
           ELSE listed' = Append(listed, Rule(EntryFromArray(r.bytes))) /\ UNCHANGED done
    BY <1>4 DEF TakeReply
  <2>2. /\ due \in Nat /\ due <= Len(flowtable) /\ IsSequence(listed)
        /\ \A i \in DOMAIN listed :
             i \in DOMAIN flowtable /\ ReadAs(listed[i], flowtable[i])
        /\ \A s \in replies : Tells(s)
    BY <2>1 DEF ListingOK
  <2>3. Tells(r)
    BY <2>2
  <2>4. \A s \in replies' : Tells(s)'
    BY <1>1, <2>2 DEF Tells, ReadAs, Rule
  <2>5. due' \in Nat /\ due' <= Len(flowtable')
    BY <1>1, <2>2
  <2>6. CASE r.bytes = << >>
    <3>1. UNCHANGED listed /\ Len(listed) >= due
      <4>1. due <= Len(listed)
        BY <2>1, <2>3, <2>6 DEF Tells
      <4>2. Len(listed) \in Nat
        BY <2>2, Sequences
      <4> QED
        BY <2>1, <2>2, <2>6, <4>1, <4>2
    <3> QED
      BY <1>1, <2>2, <2>4, <2>5, <3>1 DEF ListingOK
  <2>7. CASE r.bytes # << >>
    <3> DEFINE k == Len(listed) + 1
               x == Rule(EntryFromArray(r.bytes))
    <3>1. k \in DOMAIN flowtable /\ ReadAs(x, flowtable[k])
      BY <2>1, <2>3, <2>7 DEF Tells
    <3>2. listed' = Append(listed, x) /\ UNCHANGED done /\ ~ done
      BY <2>1, <2>7
    <3> HIDE DEF x
    <3>3. IsSequence(listed') /\ Added(listed, x, listed')
      BY <2>2, <3>2, Sequences, Zenon
    <3>4. \A i \in DOMAIN flowtable : flowtable'[i] = flowtable[i] /\ i \in DOMAIN flowtable'
      BY <1>1
    <3>5. ASSUME NEW i \in DOMAIN listed'
          PROVE  i \in DOMAIN flowtable' /\ ReadAs(listed'[i], flowtable'[i])
      <4>1. DOMAIN listed' = 1 .. Len(listed) + 1 /\ DOMAIN listed = 1 .. Len(listed)
            /\ Len(listed) \in Nat
        BY <2>2, <3>3, Sequences DEF Added
      <4>2. CASE i = k
        <5>1. listed'[k] = x
          BY <3>3 DEF Added
        <5> QED
          BY <3>1, <3>4, <4>2, <5>1
      <4>3. CASE i # k
        <5>1. i \in DOMAIN listed
          BY <4>1, <4>3
        <5>2. listed'[i] = listed[i]
          BY <3>3, <4>1, <5>1 DEF Added
        <5> QED
          BY <2>2, <3>4, <5>1, <5>2
      <4> QED
        BY <4>2, <4>3
    <3> QED
      BY <2>4, <2>5, <3>2, <3>3, <3>5 DEF ListingOK
  <2> QED
    BY <2>6, <2>7
<1> QED
  BY <1>3, <1>4

(* What a packet does, the listing follows or is given up. *)
LEMMA ListingReceives ==
  ASSUME TableOK, TableOK', ListingOK, NEW p \in Packet, Receive(p)
  PROVE  ListingOK'
<1>1. p.cmd \in Commands
  BY DEF Packet
<1>2. ~ shifted' => UNCHANGED <<listed, due>> /\ (done' => done)
  BY DEF Receive, Abandon
<1>3. ASSUME GetRule(p.cmd), ~ shifted' PROVE ListingOK'
  <2>1. /\ p.cmd.position \in Nat /\ UNCHANGED shifted
        /\ UNCHANGED flowtable \/ \E i \in DOMAIN flowtable : CountRule(i)
        /\ \A r \in replies' : r \in replies \/ Answer(r, p.cmd.position)
    BY <1>1, <1>3, GetRuleAnswers
  <2>2. UNCHANGED shifted /\ Grown
    BY <2>1, SameGrown, CountGrown
  <2>3. due' = due /\ due \in Nat /\ due <= Len(flowtable)
    BY <1>2, <1>3, <2>2 DEF ListingOK
  <2>4. ASSUME NEW r, Answer(r, p.cmd.position) PROVE Tells(r)'
    <3> DEFINE n == p.cmd.position
    <3>1. r.position = n /\ n \in Nat
      BY <2>1, <2>4 DEF Answer
    <3>2. CASE n + 1 \in DOMAIN flowtable
      <4>1. r.bytes # << >> /\ ReadAs(Rule(EntryFromArray(r.bytes)), flowtable[n + 1])
        BY <2>4, <3>2 DEF Answer, ReadAs
      <4>2. /\ n + 1 \in DOMAIN flowtable'
            /\ ReadAs(Rule(EntryFromArray(r.bytes)), flowtable'[n + 1])
        BY <2>2, <3>2, <4>1, SameReads, Zenon DEF Grown
      <4> QED
        BY <3>1, <4>1, <4>2 DEF Tells, ReadAs, Rule
    <3>3. CASE n + 1 \notin DOMAIN flowtable
      <4>1. r.bytes = << >>
        BY <2>4, <3>3 DEF Answer
      <4>2. Len(flowtable) \in Nat /\ DOMAIN flowtable = 1 .. Len(flowtable)
        BY TableFacts
      <4>3. Len(flowtable) <= n
        BY <3>1, <3>3, <4>2
      <4>4. due' <= n
        BY <2>3, <3>1, <4>2, <4>3
      <4> QED
        BY <3>1, <4>1, <4>4 DEF Tells
    <3> QED
      BY <3>2, <3>3
  <2> QED
    BY <1>2, <1>3, <2>1, <2>2, <2>4, ListingCarried
<1>4. ASSUME HandleResponse(p.cmd), ~ shifted' PROVE ListingOK'
  <2>1. /\ ~ shifted /\ Len(flowtable') = Len(flowtable) + 1
        /\ \A i \in DOMAIN flowtable : flowtable'[i] = flowtable[i]
    BY <1>1, <1>4, ResponseTable
  <2>2. UNCHANGED replies
    BY <1>4 DEF HandleResponse
  <2>3. Len(flowtable) \in Nat /\ DOMAIN flowtable = 1 .. Len(flowtable)
    BY TableFacts
  <2>4. DOMAIN flowtable' = 1 .. Len(flowtable')
    <3>1. \A S : \A s \in Seq(S) : DOMAIN s = 1 .. Len(s)
      OBVIOUS
    <3> QED
      BY <3>1, Zenon DEF TableOK
  <2>5. Grown
    BY <2>1, <2>3, <2>4 DEF Grown, Same
  <2> QED
    BY <1>2, <2>1, <2>2, <2>5, ListingCarried
<1>5. ASSUME ~ shifted', UNCHANGED shifted,
             UNCHANGED flowtable \/ \E i \in DOMAIN flowtable : CountRule(i),
             \A r \in replies' : r \in replies \/ r.op = "READ"
      PROVE  ListingOK'
  <2>1. Grown
    BY <1>5, SameGrown, CountGrown
  <2>2. \A r : r.op = "READ" => Tells(r)'
    BY DEF Tells
  <2> QED
    BY <1>2, <1>5, <2>1, <2>2, ListingCarried
<1>6. CASE shifted'
  BY <1>6 DEF ListingOK
<1>7. CASE ~ shifted'
  <2>1. \/ GetRule(p.cmd) \/ HandleResponse(p.cmd) \/ Reboot
        \/ /\ UNCHANGED shifted
           /\ UNCHANGED flowtable \/ \E i \in DOMAIN flowtable : CountRule(i)
           /\ \A r \in replies' : r \in replies \/ r.op = "READ"
    <3>1. \/ Read(p.cmd) \/ Write(p.cmd) \/ GetRule(p.cmd) \/ HandleResponse(p.cmd) \/ Reboot
          \/ UNCHANGED <<flowtable, replies, shifted>>
      BY DEF Receive
    <3>2. ASSUME Read(p.cmd)
          PROVE  /\ UNCHANGED shifted
                 /\ UNCHANGED flowtable \/ \E i \in DOMAIN flowtable : CountRule(i)
                 /\ \A r \in replies' : r \in replies \/ r.op = "READ"
      BY <1>1, <3>2, ReadKind
    <3>3. Write(p.cmd) => UNCHANGED <<flowtable, replies, shifted>>
      BY DEF Write
    <3> QED
      BY <3>1, <3>2, <3>3
  <2>2. ~ Reboot
    BY <1>7 DEF Reboot
  <2> QED
    BY <1>3, <1>4, <1>5, <1>7, <2>1, <2>2
<1> QED
  BY <1>6, <1>7

LEMMA ListingKept == TableOK /\ TableOK' /\ ListingOK /\ [Next]_vars => ListingOK'
<1> SUFFICES ASSUME TableOK, TableOK', ListingOK, [Next]_vars PROVE ListingOK'
  OBVIOUS
<1>1. CASE StartListing
  BY <1>1, ListingBegins
<1>2. ASSUME NEW r \in replies, TakeReply(r) PROVE ListingOK'
  BY <1>2, ListingTakes
<1>3. ASSUME NEW r \in replies, LoseReply(r) PROVE ListingOK'
  <2>1. /\ replies' \subseteq replies
        /\ UNCHANGED <<flowtable, listed, done, due, shifted>>
    BY <1>3 DEF LoseReply
  <2> QED
    BY <2>1, SameGrown, ListingCarried
<1>4. ASSUME NEW p \in Packet, Receive(p) PROVE ListingOK'
  BY <1>4, ListingReceives
<1>5. ASSUME NEW i \in DOMAIN flowtable, CountMatch(i) PROVE ListingOK'
  <2>1. Grown
    BY <1>5, CountGrown DEF CountMatch
  <2>2. UNCHANGED <<replies, listed, done, due, shifted>>
    BY <1>5 DEF CountMatch
  <2> QED
    BY <2>1, <2>2, ListingCarried
<1>6. CASE Restart
  BY <1>6 DEF Restart, Reboot, ListingOK, Rule
<1>7. CASE UNCHANGED vars
  BY <1>7, SameGrown, ListingCarried DEF vars
<1> QED
  BY <1>1, <1>2, <1>3, <1>4, <1>5, <1>6, <1>7 DEF Next

(* A listing by position is whole, however many rules there are and whatever  *)
(* is lost, late or added meanwhile, and of a short rule it has the rule,    *)
(* however its reply travelled.                                              *)
THEOREM ListingsAreWhole == Spec => []ListWhole
<1>1. Init => ListingOK
  <2>1. << >> \in Seq({}) /\ DOMAIN << >> = {} /\ Len(<< >>) = 0
    OBVIOUS
  <2> QED
    BY <2>1 DEF Init, ListingOK, IsSequence
<1>2. ListingOK => ListWhole
  BY DEF ListingOK, ListWhole, ReadAs
<1> QED
  BY <1>1, <1>2, ListingKept, TableFits, PTL DEF Spec
-----------------------------------------------------------------------------
(* rssi_min is a number that a strength compares with. *)
LEMMA MinimumIsByte ==
  ASSUME TypeOK
  PROVE  conf["RSSI_MIN"][1] \in Byte
<1>1. "RSSI_MIN" \in Fields
  BY CommandsAssumption
<1>2. IsValue(conf["RSSI_MIN"])
  BY <1>1 DEF TypeOK
<1> QED
  BY <1>2 DEF IsValue

(* A deaf node has no block, or passes nothing. *)
LEMMA DeafPasses ==
  ASSUME TypeOK, Deaf, NEW p \in Packet
  PROVE  ~ (Free /\ Passes(p))
<1>1. CASE lost = NumPackets
  BY <1>1, PacketsPositive DEF Free
<1>2. CASE \A s \in Rssi : s < conf["RSSI_MIN"][1]
  <2>1. p.rssi \in Rssi /\ p.rssi \in Byte
    BY PacketFacts, CommandsAssumption
  <2>2. p.rssi < conf["RSSI_MIN"][1]
    BY <1>2, <2>1
  <2>3. \A x, y \in Byte : x < y => ~ (x >= y)
    BY DEF Byte
  <2>4. ~ (p.rssi >= conf["RSSI_MIN"][1])
    BY ONLY <2>1, <2>2, <2>3, TypeOK, MinimumIsByte
  <2> QED
    BY <2>4 DEF Passes
<1> QED
  BY <1>1, <1>2 DEF Deaf

LEMMA SameDeaf ==
  ASSUME Deaf, UNCHANGED <<conf, lost>>
  PROVE  Deaf'
  BY DEF Deaf

LEMMA DeafStep ==
  ASSUME TypeOK, Deaf, [Next]_vars
  PROVE  Restart \/ (Deaf' /\ UNCHANGED <<conf, written>>)
<1>1. ASSUME NEW p \in Packet, Receive(p)
      PROVE  UNCHANGED <<conf, lost, written>>
  <2>1. ~ (Free /\ Passes(p))
    BY DeafPasses
  <2>2. ~ (Free /\ Hears(p))
    BY <2>1 DEF Hears
  <2> QED
    BY <1>1, <2>1, <2>2 DEF Receive
<1>2. CASE UNCHANGED <<conf, lost, written>>
  BY <1>2, SameDeaf
<1> QED
  BY <1>1, <1>2, OthersChangeNothing DEF Next, vars

(* Once a write has made the node deaf, whatever packets come and in whatever *)
(* order, it stays deaf with the configuration it has until it is restarted. *)
THEOREM DeafStaysDeaf == Spec => DeafUntilRestart
<1>1. TypeOK /\ TypeOK' /\ [Next]_vars =>
        [Deaf => Restart \/ (Deaf' /\ UNCHANGED <<conf, written>>)]_vars
  BY DeafStep
<1> QED
  BY <1>1, TypeCorrect, PTL DEF Spec, DeafUntilRestart

=============================================================================
