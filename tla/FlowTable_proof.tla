-------------------------- MODULE FlowTable_proof --------------------------
(***************************************************************************)
(* For pools of any size and rules of any shape.  Unless a NULL pointer    *)
(* was written through, the blocks in use are those that the rules of the  *)
(* table hold: the sums, over the table, of their windows, actions and     *)
(* bytes (Holds).  Storing a rule changes each sum by the rule's share     *)
(* (Stored, InstallEffect); the sums are recursive functions, and what is  *)
(* needed of them is proved by induction in the form of least elements.    *)
(* A full pool is why the invariant has to count: create_entry's result    *)
(* need not be checked, as all entries are in the table that is purged.    *)
(***************************************************************************)
EXTENDS FlowTable, SequenceTheorems, WellFoundedInduction, TLAPS
-----------------------------------------------------------------------------
(* Induction over the natural numbers, and the sums. *)

(* A set of numbers has a least one, so that induction needs no predicate.  *)
LEMMA Least ==
  ASSUME NEW T, T \subseteq Nat, T # {}
  PROVE  \E x \in T : \A y \in T : x <= y
<1>1. PICK x \in T : \A y \in T : ~ (<<y, x>> \in OpToRel(<, Nat))
  BY WFMin, NatLessThanWellFounded, Zenon
<1>2. \A y \in T : ~ (y < x)
  BY <1>1 DEF OpToRel
<1> QED
  BY <1>2

LEMMA Induction ==
  ASSUME NEW S, 0 \in S, \A n \in Nat : n \in S => n + 1 \in S
  PROVE  Nat \subseteq S
<1> DEFINE T == Nat \ S
<1> SUFFICES ASSUME T # {} PROVE FALSE
  OBVIOUS
<1>1. PICK x \in T : \A y \in T : x <= y
  BY Least
<1>2. x # 0 /\ x - 1 \in Nat /\ x - 1 + 1 = x
  BY <1>1
<1>3. x - 1 \notin T
  BY <1>1, <1>2
<1> QED
  BY <1>1, <1>2, <1>3

Partial(n, f, k) == f[0] = 0 /\ \A i \in 1 .. k : f[i] = f[i - 1] + n[i]

LEMMA SumsExist ==
  ASSUME NEW n \in Seq(Nat)
  PROVE  \E f \in [0 .. Len(n) -> Nat] : Partial(n, f, Len(n))
<1> DEFINE Has(k) == k <= Len(n) => \E f \in [0 .. k -> Nat] : Partial(n, f, k)
           S == {k \in Nat : Has(k)}
<1>1. Has(0)
  <2> DEFINE f == [i \in 0 .. 0 |-> 0]
  <2>1. f \in [0 .. 0 -> Nat] /\ f[0] = 0
    OBVIOUS
  <2>2. Partial(n, f, 0)
    BY <2>1 DEF Partial
  <2> QED
    BY <2>1, <2>2
<1>2. ASSUME NEW k \in Nat, Has(k) PROVE Has(k + 1)
  <2> SUFFICES ASSUME k + 1 <= Len(n)
               PROVE  \E f \in [0 .. k + 1 -> Nat] : Partial(n, f, k + 1)
    OBVIOUS
  <2>1. PICK f \in [0 .. k -> Nat] : Partial(n, f, k)
    BY <1>2
  <2> DEFINE g == [i \in 0 .. k + 1 |-> IF i <= k THEN f[i] ELSE f[k] + n[k + 1]]
  <2>2. n[k + 1] \in Nat
    OBVIOUS
  <2>3. \A i \in 0 .. k : g[i] = f[i]
    OBVIOUS
  <2>4. g[k + 1] = f[k] + n[k + 1]
    OBVIOUS
  <2>5. g \in [0 .. k + 1 -> Nat]
    BY <2>2
  <2> HIDE DEF g
  <2>6. \A i \in 1 .. k + 1 : i = k + 1 \/ (i \in 1 .. k /\ i - 1 \in 0 .. k /\ i \in 0 .. k)
    OBVIOUS
  <2>7. g[0] = 0
    BY <2>1, <2>3 DEF Partial
  <2>8. ASSUME NEW i \in 1 .. k + 1 PROVE g[i] = g[i - 1] + n[i]
    <3>1. CASE i = k + 1
      <4>1. i - 1 = k /\ k \in 0 .. k
        BY <3>1
      <4> QED
        BY <2>3, <2>4, <3>1, <4>1
    <3>2. CASE i \in 1 .. k /\ i - 1 \in 0 .. k /\ i \in 0 .. k
      BY <2>1, <2>3, <3>2 DEF Partial
    <3> QED
      BY <2>6, <3>1, <3>2
  <2>9. Partial(n, g, k + 1)
    BY <2>7, <2>8 DEF Partial
  <2> QED
    BY <2>5, <2>9
<1> HIDE DEF Has
<1>3. \A k \in Nat : k \in S => k + 1 \in S
  BY <1>2
<1>4. Nat \subseteq S
  BY <1>1, <1>3, Induction
<1> QED
  BY <1>4 DEF Has

LEMMA SumsDef ==
  ASSUME NEW n \in Seq(Nat)
  PROVE  Sums(n) \in [0 .. Len(n) -> Nat] /\ Partial(n, Sums(n), Len(n))
<1> DEFINE Is(g) == g = [i \in 0 .. Len(n) |-> IF i = 0 THEN 0 ELSE g[i - 1] + n[i]]
<1>1. PICK f \in [0 .. Len(n) -> Nat] : Partial(n, f, Len(n))
  BY SumsExist
<1>2. Is(f)
  BY <1>1 DEF Partial
<1>3. Sums(n) = CHOOSE g : Is(g)
  BY DEF Sums
<1>4. Is(Sums(n))
  BY <1>2, <1>3
<1> DEFINE s == Sums(n)
<1>5. Partial(n, s, Len(n))
  <2>1. 0 \in 0 .. Len(n) /\ \A i \in 1 .. Len(n) : i \in 0 .. Len(n) /\ i # 0
    OBVIOUS
  <2> HIDE DEF s
  <2>2. s = [i \in 0 .. Len(n) |-> IF i = 0 THEN 0 ELSE s[i - 1] + n[i]]
    BY <1>4 DEF s
  <2>3. s[0] = 0
    BY <2>1, <2>2
  <2>4. \A i \in 1 .. Len(n) : s[i] = s[i - 1] + n[i]
    BY <2>1, <2>2
  <2> QED
    BY <2>3, <2>4 DEF Partial
<1> DEFINE S == {k \in Nat : k <= Len(n) => s[k] \in Nat}
<1>6. 0 \in S
  BY <1>5 DEF Partial
<1>7. ASSUME NEW k \in Nat, k \in S PROVE k + 1 \in S
  <2> SUFFICES ASSUME k + 1 <= Len(n) PROVE s[k + 1] \in Nat
    OBVIOUS
  <2>1. n[k + 1] \in Nat /\ s[k] \in Nat
    BY <1>7
  <2>2. s[k + 1] = s[k] + n[k + 1]
    BY <1>5 DEF Partial
  <2> QED
    BY <2>1, <2>2
<1>8. Nat \subseteq S
  BY <1>6, <1>7, Induction
<1>9. \A k \in 0 .. Len(n) : s[k] \in Nat
  BY <1>8
<1>10. DOMAIN s = 0 .. Len(n)
  BY <1>4
<1>11. s = [i \in DOMAIN s |-> s[i]]
  BY <1>4
<1> QED
  BY <1>5, <1>9, <1>10, <1>11

LEMMA SumsFacts ==
  ASSUME NEW n \in Seq(Nat)
  PROVE  /\ Sums(n)[0] = 0 /\ Sum(n) \in Nat
         /\ \A i \in 0 .. Len(n) : Sums(n)[i] \in Nat
         /\ \A i \in 1 .. Len(n) : Sums(n)[i] = Sums(n)[i - 1] + n[i]
<1>1. Sums(n) \in [0 .. Len(n) -> Nat] /\ Partial(n, Sums(n), Len(n))
  BY SumsDef
<1>2. Len(n) \in 0 .. Len(n)
  OBVIOUS
<1> QED
  BY <1>1, <1>2 DEF Partial, Sum

(* Sequences that begin alike have the same first sums. *)
LEMMA SumsAgree ==
  ASSUME NEW n \in Seq(Nat), NEW m \in Seq(Nat), NEW k \in Nat, k <= Len(n), k <= Len(m),
         \A i \in 1 .. k : m[i] = n[i]
  PROVE  \A i \in 0 .. k : Sums(m)[i] = Sums(n)[i]
<1> DEFINE S == {i \in Nat : i <= k => Sums(m)[i] = Sums(n)[i]}
<1>1. 0 \in S
  BY SumsFacts
<1>2. ASSUME NEW i \in Nat, i \in S PROVE i + 1 \in S
  <2> SUFFICES ASSUME i + 1 <= k PROVE Sums(m)[i + 1] = Sums(n)[i + 1]
    OBVIOUS
  <2>1. i + 1 \in 1 .. Len(n) /\ i + 1 \in 1 .. Len(m) /\ i + 1 - 1 = i /\ i + 1 \in 1 .. k
    OBVIOUS
  <2>2. Sums(n)[i + 1] = Sums(n)[i] + n[i + 1] /\ Sums(m)[i + 1] = Sums(m)[i] + m[i + 1]
    BY <2>1, SumsFacts
  <2>3. Sums(m)[i] = Sums(n)[i]
    BY <1>2
  <2> QED
    BY <2>1, <2>2, <2>3
<1>3. Nat \subseteq S
  BY <1>1, <1>2, Induction
<1> QED
  BY <1>3

LEMMA SumAppend ==
  ASSUME NEW n \in Seq(Nat), NEW x \in Nat
  PROVE  Sum(Append(n, x)) = Sum(n) + x
<1> DEFINE m == Append(n, x)
<1>1. m \in Seq(Nat) /\ Len(m) = Len(n) + 1 /\ m[Len(n) + 1] = x
  OBVIOUS
<1>2. \A i \in 1 .. Len(n) : m[i] = n[i]
  OBVIOUS
<1> HIDE DEF m
<1>3. Sums(m)[Len(n)] = Sums(n)[Len(n)]
  <2>1. Len(n) \in Nat /\ Len(n) <= Len(n) /\ Len(n) <= Len(m) /\ Len(n) \in 0 .. Len(n)
    BY <1>1
  <2>2. \A i \in 0 .. Len(n) : Sums(m)[i] = Sums(n)[i]
    BY <1>1, <1>2, <2>1, SumsAgree
  <2> QED
    BY <2>1, <2>2
<1>4. Len(n) + 1 \in 1 .. Len(m) /\ Len(n) + 1 - 1 = Len(n)
  BY <1>1
<1>5. Sums(m)[Len(n) + 1] = Sums(m)[Len(n)] + m[Len(n) + 1]
  BY <1>1, <1>4, SumsFacts
<1>6. Sum(m) = Sum(n) + x
  BY <1>1, <1>3, <1>5 DEF Sum
<1> QED
  BY <1>6 DEF m

(* A sequence without its k-th element. *)
LEMMA SumRemoved ==
  ASSUME NEW n \in Seq(Nat), NEW m \in Seq(Nat), NEW k \in 1 .. Len(n), Len(m) = Len(n) - 1,
         \A j \in 1 .. Len(m) : m[j] = n[IF j < k THEN j ELSE j + 1]
  PROVE  Sum(m) = Sum(n) - n[k]
<1>0. /\ \A j \in 1 .. Len(m) : j < k => m[j] = n[j]
      /\ \A j \in 1 .. Len(m) : k <= j => m[j] = n[j + 1]
  <2>1. \A j \in 1 .. Len(m) : k <= j => ~ (j < k)
    OBVIOUS
  <2> QED
    BY <2>1
<1>1. \A i \in 0 .. k - 1 : Sums(m)[i] = Sums(n)[i]
  <2>1. k - 1 \in Nat /\ k - 1 <= Len(m) /\ k - 1 <= Len(n)
    OBVIOUS
  <2>2. \A i \in 1 .. k - 1 : i \in 1 .. Len(m) /\ i < k
    BY <2>1
  <2>3. \A i \in 1 .. k - 1 : m[i] = n[i]
    BY <1>0, <2>2
  <2> QED
    BY <2>1, <2>3, SumsAgree
<1> DEFINE S == {i \in Nat : k <= i /\ i <= Len(n) => Sums(m)[i - 1] = Sums(n)[i] - n[k]}
<1>2. 0 \in S
  OBVIOUS
<1>3. ASSUME NEW i \in Nat, i \in S PROVE i + 1 \in S
  <2> SUFFICES ASSUME k <= i + 1, i + 1 <= Len(n)
               PROVE  Sums(m)[i] = Sums(n)[i + 1] - n[k]
    OBVIOUS
  <2>1. i + 1 \in 1 .. Len(n) /\ i + 1 - 1 = i
    OBVIOUS
  <2>2. Sums(n)[i + 1] = Sums(n)[i] + n[i + 1] /\ Sums(n)[i] \in Nat /\ n[i + 1] \in Nat
    <3>1. i \in 0 .. Len(n) /\ n[i + 1] \in Nat
      BY <2>1
    <3>2. Sums(n)[i] \in Nat
      BY <3>1, SumsFacts
    <3>3. \A j \in 1 .. Len(n) : Sums(n)[j] = Sums(n)[j - 1] + n[j]
      BY SumsFacts
    <3> QED
      BY <2>1, <3>1, <3>2, <3>3
  <2>3. CASE i + 1 = k
    <3>1. Sums(m)[i] = Sums(n)[i]
      BY <1>1, <2>3
    <3> QED
      BY <2>2, <2>3, <3>1
  <2>4. CASE k <= i
    <3>1. i \in 1 .. Len(m) /\ n[k] \in Nat
      BY <2>4
    <3>2. m[i] = n[i + 1]
      BY <1>0, <2>4, <3>1
    <3>3. Sums(m)[i] = Sums(m)[i - 1] + m[i]
      BY <3>1, SumsFacts
    <3>4. Sums(m)[i - 1] = Sums(n)[i] - n[k]
      BY <1>3, <2>4
    <3>5. Sums(m)[i] = (Sums(n)[i] - n[k]) + n[i + 1]
      BY <3>2, <3>3, <3>4
    <3>6. \A a, b, c \in Nat : (a - c) + b = (a + b) - c
      OBVIOUS
    <3>7. (Sums(n)[i] - n[k]) + n[i + 1] = (Sums(n)[i] + n[i + 1]) - n[k]
      BY <2>2, <3>1, <3>6, Zenon
    <3> QED
      BY <2>2, <3>5, <3>7, Zenon
  <2> QED
    BY <2>3, <2>4
<1>4. Nat \subseteq S
  BY <1>2, <1>3, Induction
<1>5. Sums(m)[Len(n) - 1] = Sums(n)[Len(n)] - n[k]
  BY <1>4
<1> QED
  BY <1>5 DEF Sum

LEMMA SumBounded ==
  ASSUME NEW n \in Seq(Nat), NEW p \in Nat, NEW w \in Nat,
         \A i \in 1 .. Len(n) : n[i] * p <= w
  PROVE  Sum(n) * p <= Len(n) * w
<1> DEFINE S == {i \in Nat : i <= Len(n) => Sums(n)[i] * p <= i * w}
<1>1. 0 \in S
  BY SumsFacts
<1>2. ASSUME NEW i \in Nat, i \in S PROVE i + 1 \in S
  <2> SUFFICES ASSUME i + 1 <= Len(n) PROVE Sums(n)[i + 1] * p <= (i + 1) * w
    OBVIOUS
  <2>1. i + 1 \in 1 .. Len(n) /\ i + 1 - 1 = i /\ i \in 0 .. Len(n)
    OBVIOUS
  <2> DEFINE a == Sums(n)[i]
             b == n[i + 1]
  <2>2. Sums(n)[i + 1] = a + b /\ a \in Nat /\ b \in Nat
    BY <2>1, SumsFacts
  <2>3. a * p <= i * w /\ b * p <= w
    BY <1>2, <2>1
  <2> HIDE DEF a, b
  <2>4. (a + b) * p = a * p + b * p /\ (i + 1) * w = i * w + w
    BY <2>2
  <2>5. a * p \in Nat /\ b * p \in Nat /\ i * w \in Nat
    BY <2>2
  <2>6. a * p + b * p <= i * w + w
    BY <2>3, <2>5
  <2> QED
    BY <2>2, <2>4, <2>6
<1>3. Nat \subseteq S
  BY <1>1, <1>2, Induction
<1>4. Sums(n)[Len(n)] * p <= Len(n) * w
  BY <1>3
<1> QED
  BY <1>4 DEF Sum

(* The entries' sum of what c counts in each. *)
InTable(c, es) == Sum([i \in DOMAIN es |-> c[es[i]]])

LEMMA Removed ==
  ASSUME NEW S, NEW s \in Seq(S), NEW i \in 1 .. Len(s)
  PROVE  /\ RemoveAt(s, i) \in Seq(S)
         /\ Len(RemoveAt(s, i)) = Len(s) - 1
         /\ \A j \in 1 .. Len(s) - 1 : RemoveAt(s, i)[j] = s[IF j < i THEN j ELSE j + 1]
<1> DEFINE l == SubSeq(s, 1, i - 1)
           r == SubSeq(s, i + 1, Len(s))
<1>1. l \in Seq(S) /\ Len(l) = i - 1 /\ \A j \in 1 .. i - 1 : l[j] = s[j]
  OBVIOUS
<1>2. r \in Seq(S) /\ Len(r) = Len(s) - i /\ \A j \in 1 .. Len(s) - i : r[j] = s[j + i]
  OBVIOUS
<1> HIDE DEF l, r
<1>3. /\ l \o r \in Seq(S) /\ Len(l \o r) = Len(s) - 1
      /\ \A j \in 1 .. Len(s) - 1 :
            (l \o r)[j] = IF j < i THEN l[j] ELSE r[j - (i - 1)]
  <2>1. /\ Len(l \o r) = Len(l) + Len(r)
        /\ \A j \in 1 .. Len(l) + Len(r) :
              (l \o r)[j] = IF j <= Len(l) THEN l[j] ELSE r[j - Len(l)]
    BY <1>1, <1>2, ConcatProperties
  <2>2. l \o r \in Seq(S) /\ Len(l) + Len(r) = Len(s) - 1
    BY <1>1, <1>2
  <2>3. \A j \in 1 .. Len(s) - 1 : j <= i - 1 <=> j < i
    OBVIOUS
  <2> QED
    BY <1>1, <2>1, <2>2, <2>3
<1>4. ASSUME NEW j \in 1 .. Len(s) - 1
      PROVE  (l \o r)[j] = s[IF j < i THEN j ELSE j + 1]
  <2>1. CASE j < i
    BY <1>1, <1>3, <2>1
  <2>2. CASE ~ (j < i)
    <3>1. j - (i - 1) \in 1 .. Len(s) - i /\ j - (i - 1) + i = j + 1
      BY <2>2
    <3> QED
      BY <1>2, <1>3, <2>2, <3>1
  <2> QED
    BY <2>1, <2>2
<1> QED
  BY <1>3, <1>4 DEF RemoveAt, l, r

LEMMA InTableFacts ==
  ASSUME NEW c \in [Entry -> Nat], NEW s \in Seq(Entry)
  PROVE  /\ InTable(c, s) \in Nat
         /\ s = << >> => InTable(c, s) = 0
         /\ \A e \in Entry : InTable(c, Append(s, e)) = InTable(c, s) + c[e]
         /\ \A k \in DOMAIN s : InTable(c, RemoveAt(s, k)) = InTable(c, s) - c[s[k]]
         /\ \A e \in Entry : InTable(c, <<e>>) = c[e]
<1> DEFINE of(es) == [i \in DOMAIN es |-> c[es[i]]]
<1>1. \A es \in Seq(Entry) : /\ of(es) \in Seq(Nat) /\ Len(of(es)) = Len(es)
                             /\ \A i \in 1 .. Len(es) : of(es)[i] = c[es[i]]
  OBVIOUS
<1>2. \A es : InTable(c, es) = Sum(of(es))
  BY DEF InTable
<1>3. \A e \in Entry : of(Append(s, e)) = Append(of(s), c[e])
  OBVIOUS
<1> HIDE DEF of
<1>4. InTable(c, s) \in Nat
  BY <1>1, <1>2, SumsFacts
<1>5. ASSUME s = << >> PROVE InTable(c, s) = 0
  <2>1. Len(of(s)) = 0 /\ of(s) \in Seq(Nat)
    BY <1>1, <1>5
  <2> QED
    BY <1>2, <2>1, SumsFacts DEF Sum
<1>6. ASSUME NEW e \in Entry PROVE InTable(c, Append(s, e)) = InTable(c, s) + c[e]
  <2>1. of(s) \in Seq(Nat) /\ c[e] \in Nat
    BY <1>1
  <2>2. Sum(Append(of(s), c[e])) = Sum(of(s)) + c[e]
    BY <2>1, SumAppend
  <2> QED
    BY <1>2, <1>3, <2>2, Zenon
<1>7. ASSUME NEW k \in DOMAIN s PROVE InTable(c, RemoveAt(s, k)) = InTable(c, s) - c[s[k]]
  <2> DEFINE t == RemoveAt(s, k)
  <2>1. k \in 1 .. Len(s)
    OBVIOUS
  <2>2. /\ t \in Seq(Entry) /\ Len(t) = Len(s) - 1
        /\ \A j \in 1 .. Len(s) - 1 : t[j] = s[IF j < k THEN j ELSE j + 1]
    BY <2>1, Removed
  <2> HIDE DEF t
  <2>3. /\ of(t) \in Seq(Nat) /\ Len(of(t)) = Len(of(s)) - 1 /\ of(s) \in Seq(Nat)
        /\ k \in 1 .. Len(of(s)) /\ of(s)[k] = c[s[k]]
    BY <1>1, <2>1, <2>2
  <2>4. \A j \in 1 .. Len(of(t)) : of(t)[j] = of(s)[IF j < k THEN j ELSE j + 1]
    <3> SUFFICES ASSUME NEW j \in 1 .. Len(of(t))
                 PROVE  of(t)[j] = of(s)[IF j < k THEN j ELSE j + 1]
      OBVIOUS
    <3> DEFINE up == IF j < k THEN j ELSE j + 1
    <3>1. j \in 1 .. Len(t) /\ j \in 1 .. Len(s) - 1
      BY <1>1, <2>2
    <3>2. up \in 1 .. Len(s)
      BY <2>1, <3>1
    <3>3. t[j] = s[up]
      BY <2>2, <3>1
    <3> HIDE DEF up
    <3>4. of(t)[j] = c[t[j]] /\ of(s)[up] = c[s[up]]
      BY <1>1, <2>2, <3>1, <3>2
    <3>5. of(t)[j] = of(s)[up]
      BY <3>3, <3>4
    <3> QED
      BY <3>5 DEF up
  <2>5. Sum(of(t)) = Sum(of(s)) - of(s)[k]
    BY <2>3, <2>4, SumRemoved
  <2> QED
    BY <1>2, <2>3, <2>5 DEF t
<1>8. ASSUME NEW e \in Entry PROVE InTable(c, <<e>>) = c[e]
  <2> DEFINE n == of(<<e>>)
  <2>1. <<e>> \in Seq(Entry) /\ Len(<<e>>) = 1 /\ <<e>>[1] = e
    OBVIOUS
  <2>2. n \in Seq(Nat) /\ Len(n) = 1 /\ n[1] = c[e]
    <3>1. n \in Seq(Nat) /\ Len(n) = 1 /\ \A i \in 1 .. 1 : n[i] = c[<<e>>[i]]
      BY <1>1, <2>1
    <3>2. 1 \in 1 .. 1
      OBVIOUS
    <3> QED
      BY <2>1, <3>1, <3>2
  <2> HIDE DEF n
  <2>3. Sums(n)[0] = 0 /\ Sums(n)[1] = Sums(n)[1 - 1] + n[1]
    <3>1. 1 \in 1 .. Len(n)
      BY <2>2
    <3> QED
      BY <2>2, <3>1, SumsFacts
  <2>4. n[1] \in Nat
    BY <2>2
  <2>5. Sum(n) = n[1]
    BY <2>2, <2>3, <2>4 DEF Sum
  <2> QED
    BY <1>2, <2>2, <2>5 DEF n
<1> QED
  BY <1>4, <1>5, <1>6, <1>7, <1>8

-----------------------------------------------------------------------------
(* The blocks that entries hold. *)

Pools == [entries : Int, windows : Int, actions : Int, bytes : Int]

(* The blocks that the entries of a table hold. *)
Holds(es) ==
  [entries |-> Len(es), windows |-> WindowsIn(es),
   actions |-> ActionsIn(es), bytes |-> BytesIn(es)]

WinCount == [e \in Entry |-> Len(e.windows)]
ActCount == [e \in Entry |-> Len(e.actions)]
ByteCount == [e \in Entry |-> BytesOf(e)]

LEMMA EntryFacts ==
  ASSUME NEW e \in Entry
  PROVE  /\ e.windows \in Seq(AllWindows) /\ e.actions \in Seq(Action) /\ e.kept \in Seq(Nat)
         /\ Len(e.windows) \in Nat /\ Len(e.actions) \in Nat /\ BytesOf(e) \in Nat
<1>1. e.windows \in Seq(AllWindows) /\ e.actions \in Seq(Action) /\ e.kept \in Seq(Nat)
  BY DEF Entry
<1>2. Sum(e.kept) \in Nat
  BY <1>1, SumsFacts
<1> QED
  BY <1>1, <1>2 DEF BytesOf

LEMMA CountsTyped ==
  WinCount \in [Entry -> Nat] /\ ActCount \in [Entry -> Nat] /\ ByteCount \in [Entry -> Nat]
BY EntryFacts DEF WinCount, ActCount, ByteCount

LEMMA CountsAre ==
  ASSUME NEW es \in Seq(Entry)
  PROVE  /\ WindowsIn(es) = InTable(WinCount, es)
         /\ ActionsIn(es) = InTable(ActCount, es)
         /\ BytesIn(es) = InTable(ByteCount, es)
<1>1. \A i \in DOMAIN es : es[i] \in Entry
  OBVIOUS
<1>2. [i \in DOMAIN es |-> Len(es[i].windows)] = [i \in DOMAIN es |-> WinCount[es[i]]]
  BY <1>1 DEF WinCount
<1>3. [i \in DOMAIN es |-> Len(es[i].actions)] = [i \in DOMAIN es |-> ActCount[es[i]]]
  BY <1>1 DEF ActCount
<1>4. [i \in DOMAIN es |-> BytesOf(es[i])] = [i \in DOMAIN es |-> ByteCount[es[i]]]
  BY <1>1 DEF ByteCount
<1> QED
  BY <1>2, <1>3, <1>4 DEF WindowsIn, ActionsIn, BytesIn, InTable

LEMMA HoldsFacts ==
  ASSUME NEW s \in Seq(Entry)
  PROVE  /\ WindowsIn(s) \in Nat /\ ActionsIn(s) \in Nat /\ BytesIn(s) \in Nat /\ Len(s) \in Nat
         /\ s = << >> => WindowsIn(s) = 0 /\ ActionsIn(s) = 0 /\ BytesIn(s) = 0 /\ Len(s) = 0
         /\ Holds(s) \in Pools
<1>1. WindowsIn(s) \in Nat /\ ActionsIn(s) \in Nat /\ BytesIn(s) \in Nat /\ Len(s) \in Nat
  <2>1. \A c \in [Entry -> Nat] : InTable(c, s) \in Nat
    BY InTableFacts
  <2>2. Len(s) \in Nat
    OBVIOUS
  <2> QED
    BY <2>1, <2>2, CountsTyped, CountsAre
<1>2. s = << >> => WindowsIn(s) = 0 /\ ActionsIn(s) = 0 /\ BytesIn(s) = 0
  BY CountsTyped, CountsAre, InTableFacts
<1>3. s = << >> => Len(s) = 0
  OBVIOUS
<1>4. Holds(s) \in Pools
  BY <1>1 DEF Holds, Pools
<1> QED
  BY <1>1, <1>2, <1>3, <1>4

LEMMA HoldsAppend ==
  ASSUME NEW s \in Seq(Entry), NEW e \in Entry
  PROVE  Holds(Append(s, e)) = Taken(Holds(s), e)
<1> DEFINE t == Append(s, e)
<1>1. t \in Seq(Entry) /\ Len(t) = Len(s) + 1
  OBVIOUS
<1>2. WindowsIn(t) = WindowsIn(s) + Len(e.windows)
  <2>1. InTable(WinCount, t) = InTable(WinCount, s) + WinCount[e]
    BY CountsTyped, InTableFacts
  <2> QED
    BY <1>1, <2>1, CountsAre DEF WinCount
<1>3. ActionsIn(t) = ActionsIn(s) + Len(e.actions)
  <2>1. InTable(ActCount, t) = InTable(ActCount, s) + ActCount[e]
    BY CountsTyped, InTableFacts
  <2> QED
    BY <1>1, <2>1, CountsAre DEF ActCount
<1>4. BytesIn(t) = BytesIn(s) + BytesOf(e)
  <2>1. InTable(ByteCount, t) = InTable(ByteCount, s) + ByteCount[e]
    BY CountsTyped, InTableFacts
  <2> QED
    BY <1>1, <2>1, CountsAre DEF ByteCount
<1> HIDE DEF t
<1>5. Holds(t) = Taken(Holds(s), e)
  BY <1>1, <1>2, <1>3, <1>4 DEF Holds, Taken
<1> QED
  BY <1>5 DEF t

LEMMA OneEntry ==
  ASSUME NEW e \in Entry
  PROVE  /\ WindowsIn(<<e>>) = Len(e.windows) /\ ActionsIn(<<e>>) = Len(e.actions)
         /\ BytesIn(<<e>>) = BytesOf(e) /\ Len(<<e>>) = 1
<1>1. <<e>> \in Seq(Entry) /\ Len(<<e>>) = 1
  OBVIOUS
<1>2. /\ InTable(WinCount, <<e>>) = WinCount[e] /\ InTable(ActCount, <<e>>) = ActCount[e]
      /\ InTable(ByteCount, <<e>>) = ByteCount[e]
  BY <1>1, CountsTyped, InTableFacts
<1>3. WinCount[e] = Len(e.windows) /\ ActCount[e] = Len(e.actions) /\ ByteCount[e] = BytesOf(e)
  BY DEF WinCount, ActCount, ByteCount
<1> QED
  BY <1>1, <1>2, <1>3, CountsAre

(* An entry goes and its blocks come back. *)
LEMMA HoldsRemoved ==
  ASSUME NEW s \in Seq(Entry), NEW k \in DOMAIN s
  PROVE  Holds(RemoveAt(s, k)) = EntriesFree(Holds(s), <<s[k]>>)
<1> DEFINE t == RemoveAt(s, k)
           e == s[k]
<1>1. t \in Seq(Entry) /\ Len(t) = Len(s) - 1 /\ e \in Entry
  <2>1. k \in 1 .. Len(s)
    OBVIOUS
  <2> QED
    BY <2>1, Removed
<1>2. /\ InTable(WinCount, t) = InTable(WinCount, s) - WinCount[e]
      /\ InTable(ActCount, t) = InTable(ActCount, s) - ActCount[e]
      /\ InTable(ByteCount, t) = InTable(ByteCount, s) - ByteCount[e]
  BY CountsTyped, InTableFacts
<1>3. WinCount[e] = Len(e.windows) /\ ActCount[e] = Len(e.actions) /\ ByteCount[e] = BytesOf(e)
  BY <1>1 DEF WinCount, ActCount, ByteCount
<1> HIDE DEF t, e
<1>4. /\ WindowsIn(t) = WindowsIn(s) - Len(e.windows)
      /\ ActionsIn(t) = ActionsIn(s) - Len(e.actions)
      /\ BytesIn(t) = BytesIn(s) - BytesOf(e)
  BY <1>1, <1>2, <1>3, CountsAre
<1>5. Holds(t) = EntriesFree(Holds(s), <<e>>)
  BY <1>1, <1>4, OneEntry DEF Holds, EntriesFree
<1> QED
  BY <1>5 DEF t, e

LEMMA Swapped == \A x, a, b \in Nat : (x + a) - b = (x - b) + a
OBVIOUS

(* The order in which one entry is taken and another freed does not matter. *)
LEMMA TakenFreed ==
  ASSUME NEW s \in Seq(Entry), NEW e \in Entry, NEW d \in Entry
  PROVE  EntriesFree(Taken(Holds(s), e), <<d>>) = Taken(EntriesFree(Holds(s), <<d>>), e)
<1>1. /\ WindowsIn(s) \in Nat /\ ActionsIn(s) \in Nat /\ BytesIn(s) \in Nat /\ Len(s) \in Nat
  BY HoldsFacts
<1>2. /\ Len(e.windows) \in Nat /\ Len(e.actions) \in Nat /\ BytesOf(e) \in Nat
      /\ Len(d.windows) \in Nat /\ Len(d.actions) \in Nat /\ BytesOf(d) \in Nat
  BY EntryFacts
<1>3. /\ WindowsIn(<<d>>) = Len(d.windows) /\ ActionsIn(<<d>>) = Len(d.actions)
      /\ BytesIn(<<d>>) = BytesOf(d) /\ Len(<<d>>) = 1
  BY OneEntry
<1>4. /\ (Len(s) + 1) - 1 = (Len(s) - 1) + 1
      /\ (WindowsIn(s) + Len(e.windows)) - Len(d.windows)
            = (WindowsIn(s) - Len(d.windows)) + Len(e.windows)
      /\ (ActionsIn(s) + Len(e.actions)) - Len(d.actions)
            = (ActionsIn(s) - Len(d.actions)) + Len(e.actions)
      /\ (BytesIn(s) + BytesOf(e)) - BytesOf(d) = (BytesIn(s) - BytesOf(d)) + BytesOf(e)
  <2>1. (Len(s) + 1) - 1 = (Len(s) - 1) + 1
    OBVIOUS
  <2>2. (WindowsIn(s) + Len(e.windows)) - Len(d.windows)
        = (WindowsIn(s) - Len(d.windows)) + Len(e.windows)
    <3> DEFINE x == WindowsIn(s)
               a == Len(e.windows)
               b == Len(d.windows)
    <3>1. x \in Nat /\ a \in Nat /\ b \in Nat
      BY <1>1, <1>2
    <3> HIDE DEF x, a, b
    <3>2. (x + a) - b = (x - b) + a
      BY <3>1
    <3> QED
      BY <3>2 DEF x, a, b
  <2>3. (ActionsIn(s) + Len(e.actions)) - Len(d.actions)
        = (ActionsIn(s) - Len(d.actions)) + Len(e.actions)
    <3> DEFINE x == ActionsIn(s)
               a == Len(e.actions)
               b == Len(d.actions)
    <3>1. x \in Nat /\ a \in Nat /\ b \in Nat
      BY <1>1, <1>2
    <3> HIDE DEF x, a, b
    <3>2. (x + a) - b = (x - b) + a
      BY <3>1
    <3> QED
      BY <3>2 DEF x, a, b
  <2>4. (BytesIn(s) + BytesOf(e)) - BytesOf(d) = (BytesIn(s) - BytesOf(d)) + BytesOf(e)
    BY <1>1, <1>2, Swapped, Zenon
  <2> QED
    BY <2>1, <2>2, <2>3, <2>4
<1>5. /\ Taken(Holds(s), e).entries = Len(s) + 1
      /\ Taken(Holds(s), e).windows = WindowsIn(s) + Len(e.windows)
      /\ Taken(Holds(s), e).actions = ActionsIn(s) + Len(e.actions)
      /\ Taken(Holds(s), e).bytes = BytesIn(s) + BytesOf(e)
  BY DEF Taken, Holds
<1>6. /\ EntriesFree(Holds(s), <<d>>).entries = Len(s) - 1
      /\ EntriesFree(Holds(s), <<d>>).windows = WindowsIn(s) - Len(d.windows)
      /\ EntriesFree(Holds(s), <<d>>).actions = ActionsIn(s) - Len(d.actions)
      /\ EntriesFree(Holds(s), <<d>>).bytes = BytesIn(s) - BytesOf(d)
  BY <1>3 DEF EntriesFree, Holds
<1> QED
  BY <1>3, <1>4, <1>5, <1>6, Zenon DEF EntriesFree, Taken

(* A purge frees everything. *)
LEMMA AllFreed ==
  ASSUME NEW s \in Seq(Entry)
  PROVE  EntriesFree(Holds(s), s) = Holds(<< >>)
<1>1. WindowsIn(s) \in Nat /\ ActionsIn(s) \in Nat /\ BytesIn(s) \in Nat /\ Len(s) \in Nat
  BY HoldsFacts
<1>2. << >> \in Seq(Entry)
  OBVIOUS
<1>3. /\ WindowsIn(<< >>) = 0 /\ ActionsIn(<< >>) = 0 /\ BytesIn(<< >>) = 0 /\ Len(<< >>) = 0
  BY <1>2, HoldsFacts
<1> QED
  BY <1>1, <1>3 DEF EntriesFree, Holds

(* The bytes an entry gets are no more than are free, and all it wants if    *)
(* there are enough.                                                         *)
LEMMA KeptFacts ==
  ASSUME NEW acts \in Seq(Action), NEW free \in Nat
  PROVE  /\ Kept(acts, free) \in Seq(Nat)
         /\ Sum(Kept(acts, free)) <= free
         /\ Sum(Wanted(acts)) <= free => Kept(acts, free) = Wanted(acts)
<1> DEFINE n == Wanted(acts)
           want == Sums(n)
           got(i) == IF want[i] < free THEN want[i] ELSE free
           k == Kept(acts, free)
<1>1. n \in Seq(Nat) /\ Len(n) = Len(acts) /\ DOMAIN acts = 1 .. Len(acts) /\ Len(acts) \in Nat
  <2>1. ASSUME NEW act \in Action PROVE act.len \in Nat
    <3>1. act.len \in 0 .. 255
      BY DEF Action
    <3>2. \A x \in 0 .. 255 : x \in Nat
      OBVIOUS
    <3> QED
      BY <3>1, <3>2, Zenon
  <2>2. \A i \in DOMAIN acts : acts[i] \in Action
    OBVIOUS
  <2> QED
    BY <2>1, <2>2 DEF Wanted
<1> HIDE DEF n
<1>2. /\ want[0] = 0 /\ \A i \in 0 .. Len(acts) : want[i] \in Nat
      /\ \A i \in 1 .. Len(acts) : want[i] = want[i - 1] + n[i]
  BY <1>1, SumsFacts
<1>3. k = [i \in 1 .. Len(acts) |-> got(i) - got(i - 1)]
  BY <1>1 DEF Kept, n
<1> HIDE DEF want
<1>4. ASSUME NEW i \in 1 .. Len(acts)
      PROVE  /\ got(i) \in Nat /\ got(i - 1) \in Nat /\ got(i - 1) <= got(i) /\ got(i) <= free
             /\ want[i] <= free => got(i) - got(i - 1) = n[i]
  <2>1. /\ i \in 0 .. Len(acts) /\ i - 1 \in 0 .. Len(acts) /\ n[i] \in Nat
    BY <1>1
  <2>2. want[i] \in Nat /\ want[i - 1] \in Nat /\ want[i] = want[i - 1] + n[i]
    BY <1>2, <2>1
  <2> QED
    BY <2>1, <2>2
<1>5. got(0) = 0
  BY <1>2
<1> HIDE DEF got, k
<1>6. k \in Seq(Nat) /\ Len(k) = Len(acts) /\ \A i \in 1 .. Len(acts) : k[i] = got(i) - got(i - 1)
  BY <1>1, <1>3, <1>4
<1>7. \A i \in Nat : i <= Len(acts) => Sums(k)[i] = got(i)
  <2> DEFINE S == {i \in Nat : i <= Len(acts) => Sums(k)[i] = got(i)}
  <2>1. 0 \in S
    BY <1>5, <1>6, SumsFacts
  <2>2. ASSUME NEW i \in Nat, i \in S PROVE i + 1 \in S
    <3> SUFFICES ASSUME i + 1 <= Len(acts) PROVE Sums(k)[i + 1] = got(i + 1)
      OBVIOUS
    <3>1. i + 1 \in 1 .. Len(acts) /\ i + 1 \in 1 .. Len(k) /\ i + 1 - 1 = i
      BY <1>1, <1>6
    <3>2. Sums(k)[i + 1] = Sums(k)[i] + k[i + 1]
      <4>1. \A j \in 1 .. Len(k) : Sums(k)[j] = Sums(k)[j - 1] + k[j]
        BY <1>6, SumsFacts
      <4> QED
        BY <3>1, <4>1
    <3>3. Sums(k)[i] = got(i)
      BY <2>2, <1>1
    <3>4. k[i + 1] = got(i + 1) - got(i) /\ got(i + 1) \in Nat /\ got(i) \in Nat
      <4>1. k[i + 1] = got(i + 1) - got(i + 1 - 1)
        BY <1>6, <3>1
      <4>2. got(i + 1) \in Nat /\ got(i + 1 - 1) \in Nat
        BY <1>4, <3>1
      <4> QED
        BY <3>1, <4>1, <4>2
    <3> QED
      BY <3>2, <3>3, <3>4
  <2>3. Nat \subseteq S
    BY <2>1, <2>2, Induction
  <2> QED
    BY <2>3
<1>8. Sum(k) <= free
  <2>1. Sum(k) = got(Len(acts))
    BY <1>1, <1>6, <1>7 DEF Sum
  <2>2. CASE Len(acts) = 0
    BY <1>5, <2>1, <2>2
  <2>3. CASE Len(acts) # 0
    <3>1. Len(acts) \in 1 .. Len(acts)
      BY <1>1, <2>3
    <3> QED
      BY <1>4, <2>1, <3>1
  <2> QED
    BY <2>2, <2>3
<1>9. ASSUME Sum(n) <= free PROVE k = n
  <2>1. want[Len(acts)] <= free
    BY <1>1, <1>9 DEF Sum, want
  <2>2. \A i \in 1 .. Len(acts) : want[i] <= want[Len(acts)]
    <3> DEFINE S == {j \in Nat : j < Len(acts) => want[Len(acts) - j] <= want[Len(acts)]}
    <3>1. 0 \in S
      <4>1. Len(acts) - 0 = Len(acts) /\ Len(acts) \in 0 .. Len(acts)
        BY <1>1
      <4>2. want[Len(acts)] \in Nat
        BY <1>2, <4>1
      <4> QED
        BY <4>1, <4>2
    <3>2. ASSUME NEW j \in Nat, j \in S PROVE j + 1 \in S
      <4> SUFFICES ASSUME j + 1 < Len(acts)
                   PROVE  want[Len(acts) - (j + 1)] <= want[Len(acts)]
        OBVIOUS
      <4> DEFINE i == Len(acts) - j
      <4>1. /\ i \in 1 .. Len(acts) /\ i - 1 = Len(acts) - (j + 1)
            /\ i - 1 \in 0 .. Len(acts) /\ i \in 0 .. Len(acts) /\ Len(acts) \in 0 .. Len(acts)
        BY <1>1
      <4>2. want[i] <= want[Len(acts)]
        BY <3>2, <1>1
      <4> HIDE DEF i
      <4>3. n[i] \in Nat
        BY <1>1, <4>1
      <4>4. /\ want[i] = want[i - 1] + n[i]
            /\ want[i] \in Nat /\ want[i - 1] \in Nat /\ want[Len(acts)] \in Nat
        BY <1>2, <4>1
      <4>5. want[i - 1] <= want[Len(acts)]
        BY <4>2, <4>3, <4>4
      <4> QED
        BY <4>1, <4>5
    <3>3. Nat \subseteq S
      BY <3>1, <3>2, Induction
    <3> SUFFICES ASSUME NEW i \in 1 .. Len(acts) PROVE want[i] <= want[Len(acts)]
      OBVIOUS
    <3>4. Len(acts) - i \in S /\ Len(acts) - i < Len(acts) /\ Len(acts) - (Len(acts) - i) = i
      BY <1>1, <3>3
    <3> QED
      BY <3>4
  <2>3. \A i \in 1 .. Len(acts) : want[i] <= free
    <3>1. \A i \in 1 .. Len(acts) : want[i] \in Nat
      <4>1. \A i \in 1 .. Len(acts) : i \in 0 .. Len(acts)
        OBVIOUS
      <4> QED
        BY <1>2, <4>1
    <3>2. want[Len(acts)] \in Nat
      <4>1. Len(acts) \in 0 .. Len(acts)
        BY <1>1
      <4> QED
        BY <1>2, <4>1
    <3> QED
      BY <2>1, <2>2, <3>1, <3>2
  <2>4. \A i \in 1 .. Len(acts) : k[i] = n[i]
    BY <1>4, <1>6, <2>3
  <2> QED
    BY <1>1, <1>6, <2>4
<1> QED
  BY <1>6, <1>8, <1>9 DEF k, n

-----------------------------------------------------------------------------
(* One rule is stored. *)

Unique(s) == \A i, j \in DOMAIN s : s[i].windows = s[j].windows => i = j

(* What storing e makes of the list s: e is at the end, the others with       *)
(* other windows are before it, in their old order.                          *)
Stored(s, t, e) ==
  /\ t # << >> /\ t[Len(t)] = e
  /\ \A j \in 1 .. Len(t) - 1 : \E i \in DOMAIN s : t[j] = s[i] /\ s[i].windows # e.windows
  /\ \A i, j \in 1 .. Len(t) - 1 :
       i < j => \E k, l \in DOMAIN s : k < l /\ t[i] = s[k] /\ t[j] = s[l]
  /\ \A i \in DOMAIN s :
       s[i].windows # e.windows => \E j \in 1 .. Len(t) - 1 : t[j] = s[i]

LEMMA AppendStored ==
  ASSUME NEW s \in Seq(Entry), NEW e \in Entry, \A i \in DOMAIN s : s[i].windows # e.windows
  PROVE  Stored(s, Append(s, e), e)
<1> DEFINE t == Append(s, e)
<1>1. /\ t \in Seq(Entry) /\ Len(t) = Len(s) + 1 /\ t[Len(t)] = e /\ Len(s) \in Nat
      /\ DOMAIN s = 1 .. Len(s)
  OBVIOUS
<1>2. \A j \in 1 .. Len(s) : t[j] = s[j]
  OBVIOUS
<1> HIDE DEF t
<1>3. t # << >>
  <2>1. t = << >> => Len(t) = 0
    OBVIOUS
  <2> QED
    BY <1>1, <2>1
<1>4. Len(t) - 1 = Len(s)
  BY <1>1
<1> QED
  BY <1>1, <1>2, <1>3, <1>4 DEF Stored, t

LEMMA ReplaceStored ==
  ASSUME NEW s \in Seq(Entry), NEW e \in Entry, Unique(s),
         NEW k \in DOMAIN s, s[k].windows = e.windows
  PROVE  Stored(s, Append(RemoveAt(s, k), e), e)
<1> DEFINE r == RemoveAt(s, k)
           t == Append(r, e)
           up(j) == IF j < k THEN j ELSE j + 1
<1>1. k \in 1 .. Len(s) /\ DOMAIN s = 1 .. Len(s) /\ Len(s) \in Nat
  OBVIOUS
<1>2. /\ r \in Seq(Entry) /\ Len(r) = Len(s) - 1
      /\ \A j \in 1 .. Len(s) - 1 : r[j] = s[up(j)]
  BY <1>1, Removed
<1> HIDE DEF r
<1>3. t \in Seq(Entry) /\ Len(t) = Len(s) /\ t[Len(t)] = e /\ \A j \in 1 .. Len(s) - 1 : t[j] = r[j]
  <2>1. t \in Seq(Entry) /\ Len(t) = Len(r) + 1 /\ t[Len(r) + 1] = e
    BY <1>2
  <2>2. \A j \in 1 .. Len(r) : t[j] = r[j]
    BY <1>2
  <2> HIDE DEF t
  <2>3. Len(r) + 1 = Len(s)
    BY <1>1, <1>2
  <2> QED
    BY <1>2, <2>1, <2>2, <2>3
<1> HIDE DEF t
<1>4. t # << >>
  <2>1. t = << >> => Len(t) = 0
    OBVIOUS
  <2> QED
    BY <1>1, <1>3, <2>1
<1>5. \A j \in 1 .. Len(s) - 1 : up(j) \in DOMAIN s /\ up(j) # k /\ t[j] = s[up(j)]
  <2>1. \A j \in 1 .. Len(s) - 1 : up(j) \in DOMAIN s /\ up(j) # k
    BY <1>1
  <2>2. \A j \in 1 .. Len(s) - 1 : t[j] = s[up(j)]
    BY <1>2, <1>3
  <2> QED
    BY <2>1, <2>2
<1>6. \A i, j \in 1 .. Len(s) - 1 : i < j => up(i) < up(j)
  BY <1>1
<1>7. \A i \in DOMAIN s : i # k => \E j \in 1 .. Len(s) - 1 : up(j) = i
  <2> SUFFICES ASSUME NEW i \in DOMAIN s, i # k PROVE \E j \in 1 .. Len(s) - 1 : up(j) = i
    OBVIOUS
  <2>1. CASE i < k
    BY <1>1, <2>1
  <2>2. CASE i > k
    <3>1. i - 1 \in 1 .. Len(s) - 1 /\ up(i - 1) = i
      BY <1>1, <2>2
    <3> QED
      BY <3>1
  <2> QED
    BY <1>1, <2>1, <2>2
<1> HIDE DEF up
<1>8. \A i \in DOMAIN s : s[i].windows # e.windows <=> i # k
  BY DEF Unique
<1>9. \A j \in 1 .. Len(t) - 1 : \E i \in DOMAIN s : t[j] = s[i] /\ s[i].windows # e.windows
  BY <1>3, <1>5, <1>8
<1>10. \A i, j \in 1 .. Len(t) - 1 :
         i < j => \E l, m \in DOMAIN s : l < m /\ t[i] = s[l] /\ t[j] = s[m]
  BY <1>3, <1>5, <1>6
<1>11. \A i \in DOMAIN s : s[i].windows # e.windows => \E j \in 1 .. Len(t) - 1 : t[j] = s[i]
  BY <1>3, <1>5, <1>7, <1>8
<1> QED
  BY <1>3, <1>4, <1>9, <1>10, <1>11 DEF Stored, t, r

LEMMA StoredUnique ==
  ASSUME NEW s \in Seq(Entry), NEW t \in Seq(Entry), NEW e, Unique(s), Stored(s, t, e)
  PROVE  Unique(t)
<1>1. DOMAIN t = 1 .. Len(t) /\ Len(t) \in Nat
  OBVIOUS
<1>2. \A j \in 1 .. Len(t) - 1 : t[j].windows # t[Len(t)].windows
  BY DEF Stored
<1>3. ASSUME NEW i \in 1 .. Len(t) - 1, NEW j \in 1 .. Len(t) - 1, i < j
      PROVE  t[i].windows # t[j].windows
  <2>1. PICK k \in DOMAIN s, l \in DOMAIN s : k < l /\ t[i] = s[k] /\ t[j] = s[l]
    BY <1>3 DEF Stored
  <2>2. k # l
    BY <2>1
  <2> QED
    BY <2>1, <2>2 DEF Unique
<1>4. \A j \in DOMAIN t : j = Len(t) \/ j \in 1 .. Len(t) - 1
  BY <1>1
<1>5. \A i, j \in DOMAIN t : i < j => t[i].windows # t[j].windows
  BY <1>1, <1>2, <1>3, <1>4
<1>6. \A i, j \in DOMAIN t : i = j \/ i < j \/ j < i
  BY <1>1
<1> QED
  BY <1>5, <1>6 DEF Unique

Made(t) == [table |-> t, used |-> Holds(t), faulted |-> FALSE]

(* add_entry, with the blocks of the new entry already taken. *)
LEMMA AddEntryEffect ==
  ASSUME NEW s \in Seq(Entry), NEW e \in Entry, Unique(s)
  PROVE  \E t \in Seq(Entry) :
           /\ AddEntry([table |-> s, used |-> Taken(Holds(s), e), faulted |-> FALSE], e) = Made(t)
           /\ Stored(s, t, e) /\ Len(t) <= Len(s) + 1
           /\ BytesIn(t) <= BytesIn(s) + BytesOf(e)
<1> DEFINE f == [table |-> s, used |-> Taken(Holds(s), e), faulted |-> FALSE]
           found == {i \in DOMAIN f.table : Same(f.table[i], e)}
           found2 == {i \in DOMAIN f.table : Same(e, f.table[i])}
           last == CHOOSE i \in found2 : \A j \in found2 : j <= i
<1>1. f.table = s /\ f.used = Taken(Holds(s), e) /\ f.faulted = FALSE
  OBVIOUS
<1>2. BytesIn(s) \in Nat /\ BytesOf(e) \in Nat /\ Len(s) \in Nat
  BY HoldsFacts, EntryFacts
<1>3. CASE found2 = {}
  <2> DEFINE t == Append(s, e)
  <2>1. AddEntry(f, e) = [table |-> t, used |-> Taken(Holds(s), e), faulted |-> FALSE]
    BY <1>3 DEF AddEntry
  <2>2. \A i \in DOMAIN s : s[i].windows # e.windows
    BY <1>3 DEF Same
  <2>3. t \in Seq(Entry) /\ Len(t) = Len(s) + 1
    OBVIOUS
  <2>4. Stored(s, t, e)
    BY <2>2, AppendStored
  <2>5. Taken(Holds(s), e) = Holds(t)
    BY HoldsAppend
  <2>6. BytesIn(t) = BytesIn(s) + BytesOf(e)
    <3>1. Holds(t).bytes = Taken(Holds(s), e).bytes
      BY <2>5
    <3> QED
      BY <3>1 DEF Holds, Taken
  <2> HIDE DEF t
  <2>7. AddEntry(f, e) = Made(t)
    BY <2>1, <2>5 DEF Made
  <2> HIDE DEF f
  <2>8. Len(t) <= Len(s) + 1 /\ BytesIn(t) <= BytesIn(s) + BytesOf(e)
    BY <1>2, <2>3, <2>6
  <2> QED
    BY <2>3, <2>4, <2>7, <2>8 DEF f
<1>4. CASE found2 # {}
  <2>1. PICK k \in DOMAIN s : Same(e, s[k])
    BY <1>4
  <2>2. s[k].windows = e.windows /\ \A i \in DOMAIN s : Same(e, s[i]) => i = k
    BY <2>1 DEF Same, Unique
  <2>3. found2 = {k}
    BY <2>1, <2>2
  <2>4. k <= k
    OBVIOUS
  <2>5. last = k
    BY <2>3, <2>4
  <2> DEFINE r == RemoveAt(s, k)
             t == Append(r, e)
  <2>6. AddEntry(f, e) = [table |-> t, used |-> EntriesFree(Taken(Holds(s), e), <<s[k]>>),
                          faulted |-> FALSE]
    BY <1>4, <2>5 DEF AddEntry
  <2>7. r \in Seq(Entry) /\ Len(r) = Len(s) - 1 /\ s[k] \in Entry
    <3>1. k \in 1 .. Len(s)
      OBVIOUS
    <3> QED
      BY <3>1, Removed
  <2>8. Stored(s, t, e)
    BY <2>2, ReplaceStored
  <2>9. Holds(r) = EntriesFree(Holds(s), <<s[k]>>)
    BY HoldsRemoved
  <2> HIDE DEF r
  <2>10. Holds(t) = Taken(Holds(r), e)
    BY <2>7, HoldsAppend
  <2>11. EntriesFree(Taken(Holds(s), e), <<s[k]>>) = Holds(t)
    BY <2>7, <2>9, <2>10, TakenFreed
  <2>12. t \in Seq(Entry) /\ Len(t) = Len(s)
    BY <1>2, <2>7
  <2>13. BytesIn(t) <= BytesIn(s) + BytesOf(e)
    <3>1. BytesIn(<<s[k]>>) = BytesOf(s[k]) /\ BytesOf(s[k]) \in Nat
      BY <2>7, OneEntry, EntryFacts
    <3>2. BytesIn(t) = (BytesIn(s) + BytesOf(e)) - BytesOf(s[k])
      <4>1. Holds(t).bytes = EntriesFree(Taken(Holds(s), e), <<s[k]>>).bytes
        BY <2>11
      <4> QED
        BY <3>1, <4>1 DEF Holds, Taken, EntriesFree
    <3> QED
      BY <1>2, <3>1, <3>2
  <2> HIDE DEF t
  <2>14. AddEntry(f, e) = Made(t)
    BY <2>6, <2>11 DEF Made
  <2> HIDE DEF f
  <2>15. Len(t) <= Len(s) + 1
    BY <1>2, <2>12
  <2> QED
    BY <2>8, <2>12, <2>13, <2>14, <2>15 DEF f
<1> QED
  BY <1>3, <1>4

(* What every operation on the table keeps. *)
Good(f) ==
  /\ f = [table |-> f.table, used |-> f.used, faulted |-> f.faulted]
  /\ f.table \in Seq(Entry) /\ f.used \in Pools /\ f.faulted \in BOOLEAN
  /\ Unique(f.table)
  /\ ~ f.faulted => /\ f.used = Holds(f.table)
                    /\ Len(f.table) <= NumEntries /\ BytesIn(f.table) <= NumBytes

(* The table once a full pool has been emptied. *)
Room(f) == IF f.used.entries < NumEntries THEN f.table ELSE << >>

LEMMA MakeRoomEffect ==
  ASSUME NEW f, Good(f)
  PROVE  /\ MakeRoom(f).table = Room(f) /\ MakeRoom(f).faulted = f.faulted
         /\ Good(MakeRoom(f)) /\ Room(f) \in Seq(Entry) /\ Unique(Room(f))
         /\ ~ f.faulted => /\ MakeRoom(f) = Made(Room(f))
                           /\ Len(Room(f)) < NumEntries /\ BytesIn(Room(f)) <= NumBytes
<1>1. CASE f.used.entries < NumEntries
  <2>1. MakeRoom(f) = f /\ Room(f) = f.table
    BY <1>1 DEF MakeRoom, Room
  <2>2. ~ f.faulted => f = Made(f.table) /\ Len(f.table) < NumEntries
    BY <1>1 DEF Good, Made, Holds
  <2> QED
    BY <2>1, <2>2 DEF Good
<1>2. CASE ~ (f.used.entries < NumEntries)
  <2>1. MakeRoom(f) = PurgeFlowtable(f) /\ Room(f) = << >>
    BY <1>2 DEF MakeRoom, Room
  <2>2. PurgeFlowtable(f)
          = [table |-> << >>, used |-> EntriesFree(f.used, f.table), faulted |-> f.faulted]
    BY DEF PurgeFlowtable
  <2>3. EntriesFree(f.used, f.table) \in Pools
    <3>1. /\ WindowsIn(f.table) \in Nat /\ ActionsIn(f.table) \in Nat
          /\ BytesIn(f.table) \in Nat /\ Len(f.table) \in Nat
      BY HoldsFacts DEF Good
    <3>2. f.used \in Pools
      BY DEF Good
    <3> QED
      BY <3>1, <3>2 DEF EntriesFree, Pools
  <2>4. ~ f.faulted => EntriesFree(f.used, f.table) = Holds(<< >>)
    BY AllFreed DEF Good
  <2>5. << >> \in Seq(Entry) /\ Unique(<< >>)
    BY DEF Unique
  <2>6. Len(<< >>) = 0 /\ BytesIn(<< >>) = 0
    BY <2>5, HoldsFacts
  <2>7. Good(PurgeFlowtable(f))
    BY <2>2, <2>3, <2>4, <2>5, <2>6, TableAssumption DEF Good
  <2>8. ~ f.faulted => PurgeFlowtable(f) = Made(<< >>)
    <3>1. ~ f.faulted => f.faulted = FALSE
      BY DEF Good
    <3> QED
      BY <2>2, <2>4, <3>1 DEF Made
  <2> QED
    BY <2>1, <2>2, <2>5, <2>6, <2>7, <2>8, TableAssumption
<1> QED
  BY <1>1, <1>2

LEMMA EntryOfTyped ==
  ASSUME NEW s \in Seq(Entry), BytesIn(s) <= NumBytes, NEW r \in Rule
  PROVE  LET e == EntryOf(Holds(s), r)
         IN  /\ e \in Entry /\ e.windows = r.windows /\ e.actions = r.actions
             /\ BytesIn(s) + BytesOf(e) <= NumBytes
             /\ e.kept = Kept(r.actions, NumBytes - BytesIn(s))
<1> DEFINE free == NumBytes - BytesIn(s)
           e == EntryOf(Holds(s), r)
<1>1. r.windows \in Seq(AllWindows) /\ r.actions \in Seq(Action)
  BY DEF Rule
<1>2. free \in Nat /\ BytesIn(s) \in Nat /\ NumBytes \in Nat
  BY HoldsFacts, TableAssumption
<1>3. e = [windows |-> r.windows, actions |-> r.actions, kept |-> Kept(r.actions, free)]
  BY DEF EntryOf, Holds
<1> HIDE DEF e
<1>4. Kept(r.actions, free) \in Seq(Nat) /\ Sum(Kept(r.actions, free)) <= free
  BY <1>1, <1>2, KeptFacts
<1>5. Sum(Kept(r.actions, free)) \in Nat
  BY <1>4, SumsFacts
<1>6. e \in Entry /\ e.windows = r.windows /\ e.actions = r.actions
      /\ e.kept = Kept(r.actions, free)
  BY <1>1, <1>3, <1>4 DEF Entry
<1>7. BytesIn(s) + BytesOf(e) <= NumBytes
  BY <1>2, <1>4, <1>5, <1>6 DEF BytesOf
<1> QED
  BY <1>6, <1>7 DEF e

(* Storing a rule either runs into an empty pool or puts it into the table. *)
Failed(f, g) == g.faulted /\ g.table = Room(f)

Succeeded(f, r, g) ==
  /\ ~ f.faulted /\ ~ Faults(Holds(Room(f)), r)
  /\ \E t \in Seq(Entry) : /\ g = Made(t) /\ Len(t) <= Len(Room(f)) + 1
                           /\ Stored(Room(f), t, EntryOf(Holds(Room(f)), r))

LEMMA Retaken ==
  ASSUME NEW s, NEW m, NEW v, m = Made(s)
  PROVE  [m EXCEPT !.used = v] = [table |-> s, used |-> v, faulted |-> FALSE]
<1> DEFINE b == FALSE
<1>1. m = [table |-> s, used |-> Holds(s), faulted |-> b]
  BY DEF Made
<1> HIDE DEF b
<1>2. [m EXCEPT !.used = v] = [table |-> s, used |-> v, faulted |-> b]
  BY <1>1
<1> QED
  BY <1>2 DEF b

LEMMA InstallEffect ==
  ASSUME NEW f, Good(f), NEW r \in Rule
  PROVE  /\ Good(Install(f, r))
         /\ Failed(f, Install(f, r)) \/ Succeeded(f, r, Install(f, r))
         /\ ~ f.faulted /\ ~ Faults(Holds(Room(f)), r) => ~ Install(f, r).faulted
<1> DEFINE m == MakeRoom(f)
           s == Room(f)
           e == EntryOf(m.used, r)
           g == Install(f, r)
<1>1. /\ m.table = s /\ m.faulted = f.faulted /\ Good(m) /\ s \in Seq(Entry) /\ Unique(s)
      /\ ~ f.faulted => m = Made(s) /\ Len(s) < NumEntries /\ BytesIn(s) <= NumBytes
  BY MakeRoomEffect
<1>2. ~ f.faulted => m.used = Holds(s)
  BY <1>1 DEF Made
<1> HIDE DEF m, s
<1>3. CASE f.faulted \/ Faults(m.used, r)
  <2>1. g = [m EXCEPT !.faulted = TRUE]
    BY <1>3 DEF Install, m
  <2>2. Good(g) /\ g.faulted /\ g.table = s
    BY <1>1, <2>1 DEF Good
  <2>3. f.faulted \/ Faults(Holds(s), r)
    BY <1>2, <1>3
  <2> QED
    BY <2>2, <2>3 DEF Failed, s
<1>4. CASE ~ (f.faulted \/ Faults(m.used, r))
  <2>1. /\ ~ f.faulted /\ m = Made(s) /\ m.used = Holds(s)
        /\ Len(s) < NumEntries /\ BytesIn(s) <= NumBytes
    BY <1>1, <1>2, <1>4
  <2>2. g = AddEntry([m EXCEPT !.used = Taken(@, e)], e)
    BY <1>4 DEF Install, m
  <2>3. [m EXCEPT !.used = Taken(@, e)]
          = [table |-> s, used |-> Taken(Holds(s), e), faulted |-> FALSE]
    <3> HIDE DEF e
    <3> QED
      BY <2>1, Retaken
  <2>4. /\ e = EntryOf(Holds(s), r) /\ e \in Entry /\ BytesIn(s) + BytesOf(e) <= NumBytes
    BY <1>1, <2>1, EntryOfTyped
  <2> HIDE DEF e
  <2>5. PICK t \in Seq(Entry) : /\ g = Made(t) /\ Stored(s, t, e) /\ Len(t) <= Len(s) + 1
                                /\ BytesIn(t) <= BytesIn(s) + BytesOf(e)
    BY <1>1, <2>2, <2>3, <2>4, AddEntryEffect
  <2>6. Succeeded(f, r, g)
    BY <1>4, <2>1, <2>4, <2>5 DEF Succeeded, s
  <2>7. Unique(t)
    BY <1>1, <2>5, StoredUnique
  <2>8. Len(t) <= NumEntries /\ BytesIn(t) <= NumBytes
    <3>1. BytesIn(t) \in Nat /\ BytesIn(s) \in Nat /\ BytesOf(e) \in Nat /\ NumBytes \in Nat
      BY <1>1, <2>4, HoldsFacts, EntryFacts, TableAssumption
    <3>2. Len(t) \in Nat /\ Len(s) \in Nat /\ NumEntries \in Nat
      BY <1>1, TableAssumption
    <3> QED
      BY <2>1, <2>4, <2>5, <3>1, <3>2
  <2>9. Holds(t) \in Pools
    BY HoldsFacts
  <2>10. Good(Made(t))
    BY <2>7, <2>8, <2>9 DEF Good, Made
  <2>11. ~ g.faulted
    BY <2>5 DEF Made
  <2> QED
    BY <2>5, <2>6, <2>10, <2>11
<1> QED
  BY <1>3, <1>4

-----------------------------------------------------------------------------
(* Rules of a modest size. *)

(* Rules within an entry's share, stored whole. *)
Whole(f) ==
  /\ ~ f.faulted
  /\ \A i \in DOMAIN f.table :
       Modest(f.table[i]) /\ f.table[i].kept = Wanted(f.table[i].actions)

LEMMA Product == \A a, b, c \in Nat : a <= b => a * c <= b * c /\ c * a <= c * b
<1> SUFFICES ASSUME NEW a \in Nat, NEW b \in Nat, NEW c \in Nat, a <= b
             PROVE  a * c <= b * c /\ c * a <= c * b
  OBVIOUS
<1>1. PICK d \in Nat : b = a + d
  <2>1. b - a \in Nat /\ b = a + (b - a)
    OBVIOUS
  <2> QED
    BY <2>1
<1>2. b * c = a * c + d * c /\ c * b = c * a + c * d
  BY <1>1
<1>3. d * c \in Nat /\ c * d \in Nat /\ a * c \in Nat /\ c * a \in Nat
  OBVIOUS
<1> QED
  BY <1>2, <1>3

(* Fewer than n times a share, and one share more, is no more than the whole. *)
LEMMA Fits ==
  ASSUME NEW a \in Nat, NEW l \in Nat, NEW n \in Nat, NEW w \in Nat, NEW k \in Nat,
         k < n, a * n <= k * w, l * n <= w
  PROVE  a + l <= w
<1> SUFFICES ASSUME w + 1 <= a + l PROVE FALSE
  OBVIOUS
<1>1. (w + 1) * n <= (a + l) * n
  BY Product
<1>2. (a + l) * n = a * n + l * n /\ (w + 1) * n = w * n + n /\ (k + 1) * w = k * w + w
  OBVIOUS
<1>3. (k + 1) * w <= n * w
  <2>1. k + 1 \in Nat /\ k + 1 <= n
    OBVIOUS
  <2> QED
    BY <2>1, Product
<1>4. n * w = w * n
  OBVIOUS
<1>5. a * n \in Nat /\ l * n \in Nat /\ k * w \in Nat /\ w * n \in Nat
  OBVIOUS
<1> QED
  BY <1>1, <1>2, <1>3, <1>4, <1>5

LEMMA ModestFacts ==
  ASSUME NEW r, r.windows \in Seq(AllWindows), r.actions \in Seq(Action), Modest(r)
  PROVE  /\ Len(r.windows) \in Nat /\ Len(r.actions) \in Nat /\ Sum(Wanted(r.actions)) \in Nat
         /\ Len(r.windows) * NumEntries <= NumWindows
         /\ Len(r.actions) * NumEntries <= NumActions
         /\ Sum(Wanted(r.actions)) * NumEntries <= NumBytes
<1>1. Sum(Wanted(r.actions)) \in Nat
  <2>1. Wanted(r.actions) \in Seq(Nat)
    <3>1. \A act \in Action : act.len \in 0 .. 255
      BY DEF Action
    <3>2. \A x \in 0 .. 255 : x \in Nat
      OBVIOUS
    <3>3. \A i \in DOMAIN r.actions : r.actions[i] \in Action
      OBVIOUS
    <3>4. \A i \in DOMAIN r.actions : r.actions[i].len \in Nat
      BY <3>1, <3>2, <3>3, Zenon
    <3> QED
      BY <3>4 DEF Wanted
  <2> QED
    BY <2>1, SumsFacts
<1> QED
  BY <1>1 DEF Modest

(* A table of such rules leaves the next one its share. *)
LEMMA WholeFits ==
  ASSUME NEW s \in Seq(Entry), Len(s) < NumEntries,
         \A i \in DOMAIN s : Modest(s[i]) /\ s[i].kept = Wanted(s[i].actions),
         NEW r \in Rule, Modest(r)
  PROVE  ~ Faults(Holds(s), r) /\ BytesIn(s) + Sum(Wanted(r.actions)) <= NumBytes
<1> DEFINE ws == [i \in DOMAIN s |-> Len(s[i].windows)]
           as == [i \in DOMAIN s |-> Len(s[i].actions)]
           bs == [i \in DOMAIN s |-> BytesOf(s[i])]
<1>1. /\ Len(s) \in Nat /\ NumEntries \in Nat
      /\ NumWindows \in Nat /\ NumActions \in Nat /\ NumBytes \in Nat
  BY TableAssumption
<1>2. ASSUME NEW i \in DOMAIN s
      PROVE  /\ Len(s[i].windows) \in Nat /\ Len(s[i].windows) * NumEntries <= NumWindows
             /\ Len(s[i].actions) \in Nat /\ Len(s[i].actions) * NumEntries <= NumActions
             /\ BytesOf(s[i]) \in Nat /\ BytesOf(s[i]) * NumEntries <= NumBytes
  <2>1. s[i] \in Entry
    OBVIOUS
  <2>2. s[i].windows \in Seq(AllWindows) /\ s[i].actions \in Seq(Action)
    BY <2>1, EntryFacts
  <2>3. BytesOf(s[i]) = Sum(Wanted(s[i].actions))
    BY DEF BytesOf
  <2> QED
    BY <2>2, <2>3, ModestFacts
<1>3. /\ ws \in Seq(Nat) /\ Len(ws) = Len(s)
      /\ \A i \in 1 .. Len(s) : ws[i] * NumEntries <= NumWindows
      /\ as \in Seq(Nat) /\ Len(as) = Len(s)
      /\ \A i \in 1 .. Len(s) : as[i] * NumEntries <= NumActions
      /\ bs \in Seq(Nat) /\ Len(bs) = Len(s)
      /\ \A i \in 1 .. Len(s) : bs[i] * NumEntries <= NumBytes
  <2>1. /\ ws \in Seq(Nat) /\ Len(ws) = Len(s)
        /\ \A i \in 1 .. Len(s) : ws[i] * NumEntries <= NumWindows
    BY <1>2
  <2>2. /\ as \in Seq(Nat) /\ Len(as) = Len(s)
        /\ \A i \in 1 .. Len(s) : as[i] * NumEntries <= NumActions
    BY <1>2
  <2>3. /\ bs \in Seq(Nat) /\ Len(bs) = Len(s)
        /\ \A i \in 1 .. Len(s) : bs[i] * NumEntries <= NumBytes
    BY <1>2
  <2> QED
    BY <2>1, <2>2, <2>3
<1>4. WindowsIn(s) = Sum(ws) /\ ActionsIn(s) = Sum(as) /\ BytesIn(s) = Sum(bs)
  BY DEF WindowsIn, ActionsIn, BytesIn
<1> HIDE DEF ws, as, bs
<1>5. /\ Sum(ws) * NumEntries <= Len(s) * NumWindows
      /\ Sum(as) * NumEntries <= Len(s) * NumActions
      /\ Sum(bs) * NumEntries <= Len(s) * NumBytes
  BY <1>1, <1>3, SumBounded
<1>6. Sum(ws) \in Nat /\ Sum(as) \in Nat /\ Sum(bs) \in Nat
  BY <1>3, SumsFacts
<1>7. r.windows \in Seq(AllWindows) /\ r.actions \in Seq(Action)
  BY DEF Rule
<1>8. /\ Len(r.windows) \in Nat /\ Len(r.actions) \in Nat /\ Sum(Wanted(r.actions)) \in Nat
      /\ Len(r.windows) * NumEntries <= NumWindows
      /\ Len(r.actions) * NumEntries <= NumActions
      /\ Sum(Wanted(r.actions)) * NumEntries <= NumBytes
  BY <1>7, ModestFacts
<1>9. Sum(ws) + Len(r.windows) <= NumWindows
  BY <1>1, <1>5, <1>6, <1>8, Fits
<1>10. Sum(as) + Len(r.actions) <= NumActions
  BY <1>1, <1>5, <1>6, <1>8, Fits
<1>11. Sum(bs) + Sum(Wanted(r.actions)) <= NumBytes
  BY <1>1, <1>5, <1>6, <1>8, Fits
<1>12. ~ Faults(Holds(s), r)
  <2>1. Holds(s).windows = Sum(ws) /\ Holds(s).actions = Sum(as)
    BY <1>4 DEF Holds
  <2>2. ~ (Sum(ws) + Len(r.windows) > NumWindows) /\ ~ (Sum(as) + Len(r.actions) > NumActions)
    <3>1. \A x, y, w \in Nat : x + y <= w => ~ (x + y > w)
      OBVIOUS
    <3> QED
      BY <1>1, <1>6, <1>8, <1>9, <1>10, <3>1, Zenon
  <2> QED
    BY <2>1, <2>2 DEF Faults
<1> QED
  BY <1>4, <1>11, <1>12

LEMMA InstallWhole ==
  ASSUME NEW f, Good(f), Whole(f), NEW r \in Rule, Modest(r)
  PROVE  Whole(Install(f, r))
<1> DEFINE s == Room(f)
           g == Install(f, r)
           e == EntryOf(Holds(s), r)
<1>1. /\ s \in Seq(Entry) /\ Len(s) < NumEntries /\ BytesIn(s) <= NumBytes
  BY MakeRoomEffect DEF Whole
<1>2. \A i \in DOMAIN s : Modest(s[i]) /\ s[i].kept = Wanted(s[i].actions)
  BY DEF Whole, Room
<1> HIDE DEF s
<1>3. ~ Faults(Holds(s), r) /\ BytesIn(s) + Sum(Wanted(r.actions)) <= NumBytes
  BY <1>1, <1>2, WholeFits
<1>4. ~ g.faulted
  BY <1>3, InstallEffect DEF Whole, s
<1>5. PICK t \in Seq(Entry) : g = Made(t) /\ Stored(s, t, e)
  BY <1>4, InstallEffect DEF Failed, Succeeded, s
<1>6. /\ e.windows = r.windows /\ e.actions = r.actions
      /\ e.kept = Kept(r.actions, NumBytes - BytesIn(s))
  BY <1>1, EntryOfTyped
<1>7. e.kept = Wanted(e.actions)
  <2>1. r.actions \in Seq(Action) /\ r.windows \in Seq(AllWindows)
    BY DEF Rule
  <2>2. NumBytes - BytesIn(s) \in Nat /\ Sum(Wanted(r.actions)) <= NumBytes - BytesIn(s)
    <3>1. BytesIn(s) \in Nat /\ NumBytes \in Nat /\ Sum(Wanted(r.actions)) \in Nat
      BY <1>1, <2>1, HoldsFacts, ModestFacts, TableAssumption
    <3> QED
      BY <1>1, <1>3, <3>1
  <2> QED
    BY <1>6, <2>1, <2>2, KeptFacts
<1>8. Modest(e)
  BY <1>6 DEF Modest
<1> HIDE DEF e, g
<1>9. \A j \in DOMAIN t : Modest(t[j]) /\ t[j].kept = Wanted(t[j].actions)
  <2> SUFFICES ASSUME NEW j \in DOMAIN t PROVE Modest(t[j]) /\ t[j].kept = Wanted(t[j].actions)
    OBVIOUS
  <2>1. CASE j = Len(t)
    BY <1>5, <1>7, <1>8, <2>1 DEF Stored
  <2>2. CASE j # Len(t)
    <3>1. j \in 1 .. Len(t) - 1
      BY <2>2
    <3>2. PICK i \in DOMAIN s : t[j] = s[i]
      BY <1>5, <3>1 DEF Stored
    <3> QED
      BY <1>2, <3>2
  <2> QED
    BY <2>1, <2>2
<1> QED
  BY <1>4, <1>5, <1>9 DEF Whole, Made, g

(* The rules of packets. *)
LEMMA ResponseTyped ==
  ASSUME NEW p \in Responses
  PROVE  RuleOf(p) \in Rule
<1>1. p \in Response
  BY TableAssumption
<1>2. p.windows \in Seq(Windows) /\ p.actions \in Seq([arg : Addresses, size : 0 .. 255])
  BY <1>1 DEF Response
<1>3. p.windows \in Seq(AllWindows)
  BY <1>2 DEF AllWindows
<1>4. \A x \in [arg : Addresses, size : 0 .. 255] :
        [arg |-> x.arg, len |-> (x.size - 1) % 256] \in Action
  <2> SUFFICES ASSUME NEW x \in [arg : Addresses, size : 0 .. 255]
               PROVE  (x.size - 1) % 256 \in 0 .. 255 /\ x.arg \in Addresses
    BY DEF Action
  <2>1. x.size \in 0 .. 255 /\ x.arg \in Addresses
    OBVIOUS
  <2>2. \A n \in 0 .. 255 : (n - 1) % 256 \in 0 .. 255
    OBVIOUS
  <2> QED
    BY <2>1, <2>2, Zenon
<1>5. \A i \in DOMAIN p.actions : p.actions[i] \in [arg : Addresses, size : 0 .. 255]
  <2> DEFINE T == [arg : Addresses, size : 0 .. 255]
  <2> HIDE DEF T
  <2>1. \A q \in Seq(T) : \A i \in DOMAIN q : q[i] \in T
    OBVIOUS
  <2>2. p.actions \in Seq(T)
    BY <1>2 DEF T
  <2>3. \A i \in DOMAIN p.actions : p.actions[i] \in T
    BY <2>1, <2>2
  <2> QED
    BY <2>3 DEF T
<1> DEFINE acts == [i \in DOMAIN p.actions |->
                      [arg |-> p.actions[i].arg, len |-> (p.actions[i].size - 1) % 256]]
<1>6. acts \in Seq(Action)
  <2>1. DOMAIN p.actions = 1 .. Len(p.actions) /\ Len(p.actions) \in Nat
    BY <1>2
  <2>2. \A i \in DOMAIN p.actions : acts[i] \in Action
    BY <1>4, <1>5
  <2> HIDE DEF acts
  <2>3. acts = [i \in 1 .. Len(p.actions) |-> acts[i]]
    BY <2>1 DEF acts
  <2> QED
    BY <2>1, <2>2, <2>3
<1> HIDE DEF acts
<1>7. RuleOf(p) = [windows |-> p.windows, actions |-> acts]
  BY DEF RuleOf, acts
<1> QED
  BY <1>3, <1>6, <1>7 DEF Rule

LEMMA TowardsFacts ==
  ASSUME NEW dst \in Addresses, NEW nxh \in Addresses, NEW extra \in Extras
  PROVE  /\ Towards(dst, nxh, extra) \in Rule
         /\ Towards(dst, nxh, extra).windows # << >>
         /\ Towards(dst, nxh, extra).windows[1] = Dst(dst)
         /\ Len(Towards(dst, nxh, extra).windows) = 1 + Len(extra)
         /\ Len(Towards(dst, nxh, extra).actions) = 1
         /\ Wanted(Towards(dst, nxh, extra).actions) = [i \in {1} |-> 2]
<1> DEFINE ws == <<Dst(dst)>> \o extra
           as == <<[arg |-> nxh, len |-> 2]>>
<1>1. extra \in Seq(AllWindows) /\ <<Dst(dst)>> \in Seq(AllWindows) /\ Dst(dst) \in AllWindows
  BY TableAssumption DEF AllWindows
<1>2. ws \in Seq(AllWindows) /\ Len(ws) = 1 + Len(extra) /\ ws[1] = Dst(dst)
  BY <1>1, ConcatProperties
<1>3. ws # << >>
  <2>1. ws = << >> => Len(ws) = 0
    OBVIOUS
  <2>2. Len(extra) \in Nat
    BY <1>1
  <2> HIDE DEF ws
  <2> QED
    BY <1>2, <2>1, <2>2
<1>4. [arg |-> nxh, len |-> 2] \in Action
  BY DEF Action
<1>5. as \in Seq(Action) /\ Len(as) = 1 /\ DOMAIN as = {1} /\ as[1].len = 2
  BY <1>4
<1>6. Wanted(as) = [i \in {1} |-> 2]
  BY <1>5 DEF Wanted
<1> HIDE DEF ws, as
<1>7. Towards(dst, nxh, extra) = [windows |-> ws, actions |-> as]
  BY DEF Towards, ws, as
<1> DEFINE r == Towards(dst, nxh, extra)
<1>8. r.windows = ws /\ r.actions = as
  BY <1>7
<1>9. r \in Rule
  <2>1. [windows |-> ws, actions |-> as] \in Rule
    BY <1>2, <1>5 DEF Rule
  <2> QED
    BY <1>7, <2>1, Zenon
<1> HIDE DEF r
<1>10. r.windows # << >> /\ r.windows[1] = Dst(dst) /\ Len(r.windows) = 1 + Len(extra)
  BY <1>2, <1>3, <1>8
<1>11. Len(r.actions) = 1 /\ Wanted(r.actions) = [i \in {1} |-> 2]
  BY <1>5, <1>6, <1>8
<1> QED
  BY <1>9, <1>10, <1>11 DEF r

-----------------------------------------------------------------------------
(* The invariant. *)

Inv == Good(Now) /\ careful \in BOOLEAN /\ (careful => Whole(Now))

LEMMA NowFacts ==
  /\ Now.table = table /\ Now.used = used /\ Now.faulted = faulted
  /\ Now = [table |-> Now.table, used |-> Now.used, faulted |-> Now.faulted]
BY DEF Now

LEMMA EmptyGood ==
  ASSUME NEW f, f = [table |-> << >>, faulted |-> FALSE,
                     used |-> [entries |-> 0, windows |-> 0, actions |-> 0, bytes |-> 0]]
  PROVE  Good(f) /\ Whole(f)
<1>1. << >> \in Seq(Entry) /\ Unique(<< >>)
  BY DEF Unique
<1>2. /\ WindowsIn(<< >>) = 0 /\ ActionsIn(<< >>) = 0 /\ BytesIn(<< >>) = 0 /\ Len(<< >>) = 0
      /\ Holds(<< >>) \in Pools
  BY <1>1, HoldsFacts
<1>3. f.used = Holds(<< >>) /\ f.table = << >> /\ ~ f.faulted
  BY <1>2 DEF Holds
<1>4. f = [table |-> f.table, used |-> f.used, faulted |-> f.faulted]
  OBVIOUS
<1>5. f.faulted \in BOOLEAN
  OBVIOUS
<1>6. Good(f)
  BY <1>1, <1>2, <1>3, <1>4, <1>5, TableAssumption DEF Good
<1>7. \A i \in DOMAIN f.table : FALSE
  BY <1>3
<1> QED
  BY <1>3, <1>6, <1>7 DEF Whole

LEMMA InvInit == Init => Inv
<1> SUFFICES ASSUME Init PROVE Inv
  OBVIOUS
<1>1. Now = [table |-> << >>, faulted |-> FALSE,
             used |-> [entries |-> 0, windows |-> 0, actions |-> 0, bytes |-> 0]]
  BY DEF Init, Now
<1>2. Good(Now) /\ Whole(Now)
  BY <1>1, EmptyGood
<1> QED
  BY <1>2 DEF Inv, Init

LEMMA BecomesInv ==
  ASSUME NEW f, Becomes(f), Good(f), careful \in BOOLEAN, careful => Whole(f)
  PROVE  Inv' /\ table' = f.table /\ faulted' = f.faulted
<1>1. Now' = f
  BY DEF Now, Becomes, Good
<1>2. careful' = careful
  BY DEF Becomes
<1>3. Good(Now)' <=> Good(f)
  BY <1>1 DEF Good, Unique
<1>4. Whole(Now)' <=> Whole(f)
  BY <1>1 DEF Whole, Modest
<1> QED
  BY <1>2, <1>3, <1>4 DEF Inv, Becomes

(* The tables between the two rules of an OPEN_PATH. *)
Half(path, i, extra) == IF i > 1 THEN Install(Now, Back(path, i, extra)) ELSE Now

Full(path, i, extra) ==
  IF i < Len(path) THEN Install(Half(path, i, extra), Forth(path, i, extra))
  ELSE Half(path, i, extra)

LEMMA PathFacts ==
  ASSUME NEW path \in Paths, NEW extra \in Extras, NEW i \in 1 .. Len(path)
  PROVE  /\ Len(path) \in Nat /\ Len(path) >= 1
         /\ path[1] \in Addresses /\ path[Len(path)] \in Addresses
         /\ i > 1 => path[i - 1] \in Addresses
         /\ i < Len(path) => path[i + 1] \in Addresses
<1>1. path \in Seq(Addresses) /\ path # << >>
  BY TableAssumption
<1>2. Len(path) \in Nat /\ Len(path) >= 1
  BY <1>1
<1>3. \A j \in 1 .. Len(path) : path[j] \in Addresses
  BY <1>1
<1> QED
  BY <1>2, <1>3

LEMMA PathRules ==
  ASSUME NEW path \in Paths, NEW extra \in Extras, NEW i \in 1 .. Len(path)
  PROVE  /\ i > 1 => Back(path, i, extra) \in Rule
         /\ i < Len(path) => Forth(path, i, extra) \in Rule
BY PathFacts, TowardsFacts DEF Back, Forth

LEMMA HalfGood ==
  ASSUME Good(Now), NEW path \in Paths, NEW extra \in Extras, NEW i \in 1 .. Len(path)
  PROVE  Good(Half(path, i, extra)) /\ Good(Full(path, i, extra))
<1>1. Good(Half(path, i, extra))
  <2>1. CASE i > 1
    BY <2>1, PathRules, InstallEffect DEF Half
  <2>2. CASE ~ (i > 1)
    BY <2>2 DEF Half
  <2> QED
    BY <2>1, <2>2
<1>2. CASE i < Len(path)
  BY <1>1, <1>2, PathRules, InstallEffect DEF Full
<1>3. CASE ~ (i < Len(path))
  BY <1>1, <1>3 DEF Full
<1> QED
  BY <1>1, <1>2, <1>3

(* All rules of one path and one list of windows are as large. *)
LEMMA SameShare ==
  ASSUME NEW a \in Addresses, NEW b \in Addresses, NEW c \in Addresses, NEW d \in Addresses,
         NEW extra \in Extras, Modest(Towards(a, b, extra))
  PROVE  Modest(Towards(c, d, extra))
BY TowardsFacts DEF Modest

LEMMA FullWhole ==
  ASSUME Good(Now), Whole(Now), NEW path \in Paths, NEW extra \in Extras,
         NEW i \in 1 .. Len(path), Modest(Towards(path[1], path[1], extra))
  PROVE  Whole(Full(path, i, extra))
<1>1. Whole(Half(path, i, extra)) /\ Good(Half(path, i, extra))
  <2>1. CASE i > 1
    <3>1. Modest(Back(path, i, extra))
      BY <2>1, PathFacts, SameShare DEF Back
    <3> QED
      BY <2>1, <3>1, PathRules, InstallWhole, HalfGood DEF Half
  <2>2. CASE ~ (i > 1)
    BY <2>2 DEF Half
  <2> QED
    BY <2>1, <2>2
<1>2. CASE i < Len(path)
  <2>1. Modest(Forth(path, i, extra))
    BY <1>2, PathFacts, SameShare DEF Forth
  <2> QED
    BY <1>1, <1>2, <2>1, PathRules, InstallWhole DEF Full
<1>3. CASE ~ (i < Len(path))
  BY <1>1, <1>3 DEF Full
<1> QED
  BY <1>2, <1>3

LEMMA OpenPathIs ==
  ASSUME NEW path, NEW extra, NEW i
  PROVE  OpenPath(path, i, extra) <=> Becomes(Full(path, i, extra))
BY DEF OpenPath, Full, Half

LEMMA InvNext == Inv /\ [Next]_vars => Inv'
<1> SUFFICES ASSUME Inv, [Next]_vars PROVE Inv'
  OBVIOUS
<1>1. CASE HandleResponse
  <2>1. PICK p \in Responses : /\ careful => Modest(RuleOf(p))
                               /\ Becomes(Install(Now, RuleOf(p)))
    BY <1>1 DEF HandleResponse
  <2>2. Good(Install(Now, RuleOf(p)))
    BY ResponseTyped, InstallEffect DEF Inv
  <2>3. careful => Whole(Install(Now, RuleOf(p)))
    BY <2>1, ResponseTyped, InstallWhole DEF Inv
  <2> QED
    BY <2>1, <2>2, <2>3, BecomesInv DEF Inv
<1>2. CASE HandleOpenPath
  <2>1. PICK path \in Paths, extra \in Extras :
          /\ careful => Modest(Towards(path[1], path[1], extra))
          /\ \E i \in 1 .. Len(path) : OpenPath(path, i, extra)
    BY <1>2 DEF HandleOpenPath
  <2>2. PICK i \in 1 .. Len(path) : OpenPath(path, i, extra)
    BY <2>1
  <2>3. Becomes(Full(path, i, extra))
    BY <2>2, OpenPathIs
  <2>4. Good(Full(path, i, extra))
    BY HalfGood DEF Inv
  <2>5. careful => Whole(Full(path, i, extra))
    BY <2>1, FullWhole DEF Inv
  <2> QED
    BY <2>3, <2>4, <2>5, BecomesInv DEF Inv
<1>3. CASE Reboot
  <2> DEFINE f == [table |-> << >>, faulted |-> FALSE,
                   used |-> [entries |-> 0, windows |-> 0, actions |-> 0, bytes |-> 0]]
  <2>1. Becomes(f)
    BY <1>3 DEF Reboot, Becomes
  <2>2. Good(f) /\ Whole(f)
    BY EmptyGood
  <2> HIDE DEF f
  <2> QED
    BY <2>1, <2>2, BecomesInv DEF Inv
<1>4. CASE UNCHANGED vars
  <2>1. Now' = Now /\ careful' = careful
    BY <1>4 DEF vars, Now
  <2>2. (Good(Now)' <=> Good(Now)) /\ (Whole(Now)' <=> Whole(Now))
    BY <2>1 DEF Good, Unique, Whole, Modest
  <2> QED
    BY <2>1, <2>2 DEF Inv
<1> QED
  BY <1>1, <1>2, <1>3, <1>4 DEF Next

LEMMA Invariance == Spec => []Inv
BY InvInit, InvNext, PTL DEF Spec

(* Every variable keeps its type: in particular what is stored are rules.   *)
THEOREM TypeCorrect == Spec => []TypeOK
<1>1. Inv => TypeOK
  BY DEF Inv, Good, Now, TypeOK, Pools
<1> QED
  BY <1>1, Invariance, PTL

(* No two rules of the table ever have the same windows.                    *)
THEOREM RulesUnique == Spec => []NoDuplicates
<1>1. Inv => NoDuplicates
  BY DEF Inv, Good, Unique, Now, NoDuplicates
<1> QED
  BY <1>1, Invariance, PTL

(* Every allocated entry is in the table and the table never overflows.     *)
THEOREM EntriesCounted == Spec => []EntriesExact
<1>1. Inv => EntriesExact
  BY DEF Inv, Good, Now, Holds, EntriesExact
<1> QED
  BY <1>1, Invariance, PTL

(* No block of any pool is lost and none is in two rules, for pools and      *)
(* rules of any size: what is allocated is what the table holds.             *)
THEOREM PoolsCounted == Spec => []PoolsExact
<1>1. Inv => PoolsExact
  BY DEF Inv, Good, Now, Holds, PoolsExact
<1> QED
  BY <1>1, Invariance, PTL

(* A controller that keeps to an entry's share of the pools never makes a    *)
(* node write through NULL, and all its rules have all their bytes.          *)
THEOREM SharesSuffice == Spec => []RulesWhole
<1>1. Inv => RulesWhole
  <2> SUFFICES ASSUME Inv, careful
               PROVE  /\ ~ faulted
                      /\ \A i \in DOMAIN table : \A a \in DOMAIN table[i].actions :
                            table[i].kept[a] = table[i].actions[a].len
    BY DEF RulesWhole
  <2>1. ~ faulted /\ \A i \in DOMAIN table : table[i].kept = Wanted(table[i].actions)
    BY DEF Inv, Whole, Now
  <2> QED
    BY <2>1 DEF Wanted
<1> QED
  BY <1>1, Invariance, PTL

-----------------------------------------------------------------------------
(* What a step does to the table. *)

LEMMA InstallPicked ==
  ASSUME NEW f, Good(f), NEW r \in Rule, ~ Install(f, r).faulted
  PROVE  /\ ~ f.faulted
         /\ \E t \in Seq(Entry) : \E e \in Entry :
              /\ Install(f, r) = Made(t) /\ Len(t) <= Len(Room(f)) + 1
              /\ Stored(Room(f), t, e)
              /\ e.windows = r.windows /\ e.actions = r.actions
<1> DEFINE s == Room(f)
           e == EntryOf(Holds(s), r)
<1>1. Succeeded(f, r, Install(f, r))
  BY InstallEffect DEF Failed
<1>2. ~ f.faulted
  BY <1>1 DEF Succeeded
<1>3. PICK t \in Seq(Entry) : /\ Install(f, r) = Made(t) /\ Len(t) <= Len(s) + 1
                              /\ Stored(s, t, e)
  BY <1>1 DEF Succeeded
<1>4. s \in Seq(Entry) /\ BytesIn(s) <= NumBytes
  BY <1>2, MakeRoomEffect
<1> HIDE DEF s
<1>5. e \in Entry /\ e.windows = r.windows /\ e.actions = r.actions
  BY <1>4, EntryOfTyped
<1> HIDE DEF e
<1> QED
  BY <1>2, <1>3, <1>5 DEF s

LEMMA StoredLast ==
  ASSUME NEW t \in Seq(Entry), NEW s, NEW e, Stored(s, t, e)
  PROVE  Len(t) \in DOMAIN t /\ t[Len(t)] = e /\ Len(t) \in Nat /\ DOMAIN t = 1 .. Len(t)
<1>1. t # << >> /\ t[Len(t)] = e
  BY DEF Stored
<1>2. Len(t) \in Nat /\ DOMAIN t = 1 .. Len(t) /\ Len(t) >= 1
  BY <1>1
<1> QED
  BY <1>1, <1>2

LEMMA PathStep ==
  ASSUME Inv, NumEntries >= 2,
         NEW path \in Paths, NEW extra \in Extras, NEW i \in 2 .. Len(path) - 1,
         path[1] # path[Len(path)], OpenPath(path, i, extra), ~ faulted'
  PROVE  /\ Knows(table', Forth(path, i, extra))
         /\ Len(table) # NumEntries - 1 => Knows(table', Back(path, i, extra))
<1> DEFINE b == Back(path, i, extra)
           r == Forth(path, i, extra)
           f == Half(path, i, extra)
           g == Full(path, i, extra)
<1>1. path \in Seq(Addresses)
  BY TableAssumption
<1>2. i \in 1 .. Len(path) /\ i > 1 /\ i < Len(path) /\ Len(path) \in Nat
  BY <1>1
<1>3. f = Install(Now, b) /\ g = Install(f, r)
  BY <1>2 DEF Half, Full
<1>4. Good(Now) /\ Good(f) /\ b \in Rule /\ r \in Rule
  BY <1>2, HalfGood, PathRules DEF Inv
<1>5. table' = g.table /\ ~ g.faulted
  BY OpenPathIs DEF Becomes
<1>6. b.windows # r.windows
  <2>1. b.windows[1] = Dst(path[1]) /\ r.windows[1] = Dst(path[Len(path)])
    BY <1>2, PathFacts, TowardsFacts DEF Back, Forth
  <2>2. Dst(path[1]) # Dst(path[Len(path)])
    BY DEF Dst
  <2> QED
    BY <2>1, <2>2
<1> HIDE DEF b, r, f, g
<1>7. /\ ~ f.faulted
      /\ \E t \in Seq(Entry) : \E e \in Entry :
           /\ g = Made(t) /\ Len(t) <= Len(Room(f)) + 1
           /\ Stored(Room(f), t, e)
           /\ e.windows = r.windows /\ e.actions = r.actions
  BY <1>3, <1>4, <1>5, InstallPicked
<1>8. PICK u \in Seq(Entry), re \in Entry :
        /\ g = Made(u) /\ Stored(Room(f), u, re)
        /\ re.windows = r.windows /\ re.actions = r.actions
  BY <1>7
<1>9. /\ ~ faulted
      /\ \E t \in Seq(Entry) : \E e \in Entry :
           /\ f = Made(t) /\ Len(t) <= Len(Room(Now)) + 1
           /\ Stored(Room(Now), t, e)
           /\ e.windows = b.windows /\ e.actions = b.actions
  BY <1>3, <1>4, <1>7, InstallPicked, NowFacts
<1>10. PICK t \in Seq(Entry), be \in Entry :
         /\ f = Made(t) /\ Len(t) <= Len(Room(Now)) + 1
         /\ Stored(Room(Now), t, be)
         /\ be.windows = b.windows /\ be.actions = b.actions
  BY <1>9
<1>11. table' = u
  BY <1>5, <1>8 DEF Made
<1>12. Knows(table', r)
  BY <1>8, <1>11, StoredLast DEF Knows
<1>13. ASSUME Len(table) # NumEntries - 1 PROVE Knows(table', b)
  <2>1. used.entries = Len(table) /\ Len(table) <= NumEntries /\ table \in Seq(Entry)
    BY <1>4, <1>9, NowFacts DEF Good, Holds
  <2>2. Len(table) \in Nat /\ NumEntries \in Nat
    BY <2>1, TableAssumption
  <2>3. Len(t) \in Nat /\ Len(Room(Now)) + 1 < NumEntries
    <3>1. CASE Len(table) < NumEntries
      <4>1. Room(Now) = table
        BY <2>1, <3>1, NowFacts DEF Room
      <4> QED
        BY <1>13, <2>2, <3>1, <4>1
    <3>2. CASE ~ (Len(table) < NumEntries)
      <4>1. Room(Now) = << >>
        BY <2>1, <3>2, NowFacts DEF Room
      <4>2. Len(<< >>) = 0
        OBVIOUS
      <4> QED
        BY <2>2, <4>1, <4>2
    <3> QED
      BY <3>1, <3>2
  <2>4. Len(t) < NumEntries
    <3>1. Len(Room(Now)) \in Nat
      <4>1. Room(Now) \in Seq(Entry)
        BY <1>4, MakeRoomEffect
      <4> QED
        BY <4>1
    <3> QED
      BY <1>10, <2>2, <2>3, <3>1
  <2>5. Room(f) = t
    BY <1>10, <2>4 DEF Room, Made, Holds
  <2>6. Len(t) \in DOMAIN t /\ t[Len(t)] = be
    BY <1>10, StoredLast
  <2>7. \A k \in DOMAIN t : t[k].windows # re.windows => \E j \in 1 .. Len(u) - 1 : u[j] = t[k]
    BY <1>8, <2>5 DEF Stored
  <2>8. \E j \in 1 .. Len(u) - 1 : u[j] = be
    BY <1>6, <1>8, <1>10, <2>6, <2>7
  <2>9. PICK j \in 1 .. Len(u) - 1 : u[j] = be
    BY <2>8
  <2>10. j \in DOMAIN u
    <3>1. DOMAIN u = 1 .. Len(u) /\ Len(u) \in Nat
      OBVIOUS
    <3> QED
      BY <3>1
  <2> QED
    BY <1>10, <1>11, <2>9, <2>10 DEF Knows
<1> QED
  BY <1>12, <1>13 DEF b, r

(* A node inside a path knows both its directions after an OPEN_PATH, as     *)
(* long as the path does not end where it begins and a table holds two rules. *)
THEOREM PathsAreLearnt ==
  /\ NumEntries >= 2
  /\ \A path \in Paths : Len(path) >= 3 => path[1] # path[Len(path)]
  => (Spec => PathLearnt)
<1> SUFFICES ASSUME NumEntries >= 2,
                    \A path \in Paths : Len(path) >= 3 => path[1] # path[Len(path)]
             PROVE  Spec => PathLearnt
  OBVIOUS
<1>1. Inv /\ [Next]_vars =>
        [\A path \in Paths, extra \in Extras : \A i \in 2 .. Len(path) - 1 :
           OpenPath(path, i, extra) /\ ~ faulted' =>
             /\ Knows(table', Forth(path, i, extra))
             /\ Len(table) # NumEntries - 1 => Knows(table', Back(path, i, extra))]_vars
  <2> SUFFICES ASSUME Inv, NEW path \in Paths, NEW extra \in Extras,
                      NEW i \in 2 .. Len(path) - 1, OpenPath(path, i, extra), ~ faulted'
               PROVE  /\ Knows(table', Forth(path, i, extra))
                      /\ Len(table) # NumEntries - 1 => Knows(table', Back(path, i, extra))
    OBVIOUS
  <2>1. path \in Seq(Addresses)
    BY TableAssumption
  <2>2. Len(path) >= 3
    BY <2>1
  <2> QED
    BY <2>2, PathStep
<1> QED
  BY <1>1, Invariance, PTL DEF Spec, PathLearnt

LEMMA StoredOrder ==
  ASSUME NEW s, NEW t \in Seq(Entry), NEW e, Stored(s, t, e), NEW x, NEW y, Precedes(t, y, x)
  PROVE  x = e.windows \/ Precedes(s, y, x)
<1>1. Len(t) \in Nat /\ DOMAIN t = 1 .. Len(t) /\ t[Len(t)] = e
  BY StoredLast
<1>2. PICK i \in DOMAIN t, j \in DOMAIN t : i < j /\ t[i].windows = y /\ t[j].windows = x
  BY DEF Precedes
<1>3. CASE j = Len(t)
  BY <1>1, <1>2, <1>3
<1>4. CASE j # Len(t)
  <2>1. i \in 1 .. Len(t) - 1 /\ j \in 1 .. Len(t) - 1
    BY <1>1, <1>2, <1>4
  <2>2. PICK k \in DOMAIN s, l \in DOMAIN s : k < l /\ t[i] = s[k] /\ t[j] = s[l]
    BY <1>2, <2>1 DEF Stored
  <2> QED
    BY <1>2, <2>2 DEF Precedes
<1> QED
  BY <1>3, <1>4

LEMMA NotBack ==
  ASSUME NEW s \in Seq(Entry), Unique(s), NEW i \in DOMAIN s, NEW j \in DOMAIN s, i < j
  PROVE  ~ Precedes(s, s[j].windows, s[i].windows)
<1> SUFFICES ASSUME NEW k \in DOMAIN s, NEW l \in DOMAIN s, k < l,
                    s[k].windows = s[j].windows, s[l].windows = s[i].windows
             PROVE  FALSE
  BY DEF Precedes
<1>1. k = j /\ l = i
  BY DEF Unique
<1>2. i \in Nat /\ j \in Nat
  OBVIOUS
<1> QED
  BY <1>1, <1>2

LEMMA NoneFirst == ASSUME NEW x, NEW y PROVE ~ Precedes(<< >>, x, y)
<1>1. DOMAIN << >> = {}
  OBVIOUS
<1> QED
  BY <1>1 DEF Precedes

LEMMA RoomOrder ==
  ASSUME NEW f, NEW x, NEW y, Precedes(Room(f), y, x)
  PROVE  Room(f) = f.table
BY NoneFirst DEF Room

Ends(t, x) == Len(t) \in DOMAIN t /\ t[Len(t)].windows = x

LEMMA InstallOrder ==
  ASSUME NEW f, Good(f), NEW r \in Rule, NEW x, NEW y, Precedes(Install(f, r).table, y, x)
  PROVE  \/ Precedes(f.table, y, x)
         \/ x = r.windows /\ Ends(Install(f, r).table, x)
<1> DEFINE g == Install(f, r)
<1> HIDE DEF g
<1>1. CASE g.faulted
  <2>1. g.table = Room(f)
    BY <1>1, InstallEffect DEF Failed, Succeeded, Made, g
  <2> QED
    BY <2>1, RoomOrder DEF g
<1>2. CASE ~ g.faulted
  <2>1. PICK t \in Seq(Entry), e \in Entry :
          g = Made(t) /\ Stored(Room(f), t, e) /\ e.windows = r.windows
    BY <1>2, InstallPicked DEF g
  <2>2. g.table = t
    BY <2>1 DEF Made
  <2>3. Precedes(t, y, x)
    BY <2>2 DEF g
  <2>4. x = e.windows \/ Precedes(Room(f), y, x)
    BY <2>1, <2>3, StoredOrder
  <2>5. Len(t) \in DOMAIN t /\ t[Len(t)] = e
    BY <2>1, StoredLast
  <2> QED
    BY <2>1, <2>2, <2>4, <2>5, RoomOrder DEF g, Ends
<1> QED
  BY <1>1, <1>2

NearEnd(t, x, r) ==
  \E k \in DOMAIN t :
    /\ t[k].windows = x
    /\ k = Len(t) \/ (k = Len(t) - 1 /\ t[k + 1].windows = r.windows)

(* The rule that was last is last or, with the new one behind it, last but   *)
(* one.                                                                      *)
LEMMA LastStays ==
  ASSUME NEW f, Good(f), NEW r \in Rule, NEW x, NEW y,
         Ends(f.table, x), Precedes(Install(f, r).table, y, x)
  PROVE  NearEnd(Install(f, r).table, x, r)
<1> DEFINE g == Install(f, r)
<1> HIDE DEF g
<1>1. CASE g.faulted
  <2>1. g.table = Room(f)
    BY <1>1, InstallEffect DEF Failed, Succeeded, Made, g
  <2>2. g.table = f.table
    BY <2>1, RoomOrder DEF g
  <2> QED
    BY <2>2 DEF g, Ends, NearEnd
<1>2. CASE ~ g.faulted
  <2>1. PICK t \in Seq(Entry), e \in Entry :
          g = Made(t) /\ Stored(Room(f), t, e) /\ e.windows = r.windows
    BY <1>2, InstallPicked DEF g
  <2>2. g.table = t
    BY <2>1 DEF Made
  <2>3. PICK i \in DOMAIN t, j \in DOMAIN t : i < j /\ t[i].windows = y /\ t[j].windows = x
    BY <2>2 DEF g, Precedes
  <2>4. Len(t) \in DOMAIN t /\ t[Len(t)] = e /\ Len(t) \in Nat /\ DOMAIN t = 1 .. Len(t)
    BY <2>1, StoredLast
  <2>5. CASE j = Len(t)
    BY <2>2, <2>3, <2>5 DEF g, NearEnd
  <2>6. CASE j # Len(t)
    <3>1. j \in 1 .. Len(t) - 1 /\ i \in 1 .. Len(t) - 1 /\ Len(t) - 1 \in 1 .. Len(t) - 1
      BY <2>3, <2>4, <2>6
    <3>2. j = Len(t) - 1
      <4> SUFFICES ASSUME j < Len(t) - 1 PROVE FALSE
        BY <2>4, <3>1
      <4>1. PICK k \in DOMAIN Room(f), l \in DOMAIN Room(f) :
              k < l /\ t[j] = Room(f)[k] /\ t[Len(t) - 1] = Room(f)[l]
        BY <2>1, <3>1 DEF Stored
      <4>2. Room(f) = f.table
        <5>1. DOMAIN << >> = {}
          OBVIOUS
        <5> QED
          BY <4>1, <5>1 DEF Room
      <4>3. f.table \in Seq(Entry) /\ Unique(f.table)
        BY DEF Good
      <4>4. k = Len(f.table)
        BY <2>3, <4>1, <4>2, <4>3 DEF Unique, Ends
      <4>5. l \in 1 .. Len(f.table) /\ Len(f.table) \in Nat
        BY <4>1, <4>2, <4>3
      <4> QED
        BY <4>1, <4>4, <4>5
    <3>3. j + 1 = Len(t)
      BY <2>4, <3>2
    <3> QED
      BY <2>1, <2>2, <2>3, <2>4, <3>2, <3>3 DEF g, NearEnd
  <2> QED
    BY <2>5, <2>6
<1> QED
  BY <1>1, <1>2

LEMMA OrderStep ==
  ASSUME Inv, [Next]_vars, NEW i \in DOMAIN table, NEW j \in DOMAIN table, i < j,
         NEW x, NEW y, x = table[i].windows, y = table[j].windows, Precedes(table', y, x)
  PROVE  AtEnd(table', x)
<1>1. Good(Now) /\ Now.table = table /\ table \in Seq(Entry)
  BY NowFacts DEF Inv, Good
<1>2. ~ Precedes(table, y, x)
  BY <1>1, NotBack DEF Good
<1>3. CASE HandleResponse
  <2>1. PICK p \in Responses : Becomes(Install(Now, RuleOf(p)))
    BY <1>3 DEF HandleResponse
  <2>2. table' = Install(Now, RuleOf(p)).table
    BY <2>1 DEF Becomes
  <2>3. RuleOf(p) \in Rule
    BY ResponseTyped
  <2> DEFINE r == RuleOf(p)
  <2> HIDE DEF r
  <2>4. Precedes(Install(Now, r).table, y, x) /\ r \in Rule
    BY <2>2, <2>3 DEF r
  <2>5. Ends(Install(Now, r).table, x)
    BY <1>1, <1>2, <2>4, InstallOrder
  <2> QED
    BY <2>2, <2>5 DEF AtEnd, Ends, r
<1>4. CASE HandleOpenPath
  <2>1. PICK path \in Paths, extra \in Extras :
          \E n \in 1 .. Len(path) : OpenPath(path, n, extra)
    BY <1>4 DEF HandleOpenPath
  <2>2. PICK n \in 1 .. Len(path) : OpenPath(path, n, extra)
    BY <2>1
  <2> DEFINE h == Half(path, n, extra)
             g == Full(path, n, extra)
             b == Back(path, n, extra)
             r == Forth(path, n, extra)
  <2>3. table' = g.table
    BY <2>2, OpenPathIs DEF Becomes
  <2>4. Good(h) /\ Good(g) /\ (n > 1 => b \in Rule) /\ (n < Len(path) => r \in Rule)
    BY <1>1, HalfGood, PathRules
  <2>5. /\ n > 1 => h = Install(Now, b)
        /\ ~ (n > 1) => h = Now
        /\ n < Len(path) => g = Install(h, r)
        /\ ~ (n < Len(path)) => g = h
    BY DEF Half, Full
  <2>6. /\ n > 1 => b.windows # << >> /\ \E dst \in Addresses : b.windows[1] = Dst(dst)
        /\ n < Len(path) => r.windows # << >> /\ \E dst \in Addresses : r.windows[1] = Dst(dst)
    BY PathFacts, TowardsFacts DEF Back, Forth
  <2> HIDE DEF h, g, b, r
  <2>7. ASSUME Precedes(h.table, y, x)
        PROVE  n > 1 /\ x = b.windows /\ Ends(h.table, x)
    <3>1. n > 1
      BY <1>1, <1>2, <2>5, <2>7
    <3> QED
      BY <1>1, <1>2, <2>4, <2>5, <2>7, <3>1, InstallOrder
  <2>8. CASE ~ (n < Len(path))
    BY <2>3, <2>5, <2>7, <2>8 DEF AtEnd, Ends
  <2>9. CASE n < Len(path)
    <3>1. CASE ~ Precedes(h.table, y, x)
      <4>1. Ends(table', x)
        BY <2>3, <2>4, <2>5, <2>9, <3>1, InstallOrder
      <4> QED
        BY <4>1 DEF AtEnd, Ends
    <3>2. CASE Precedes(h.table, y, x)
      <4>1. NearEnd(table', x, r)
        BY <2>3, <2>4, <2>5, <2>7, <2>9, <3>2, LastStays
      <4> QED
        BY <2>6, <2>7, <2>9, <3>2, <4>1 DEF NearEnd, AtEnd, OfPath
    <3> QED
      BY <3>1, <3>2
  <2> QED
    BY <2>8, <2>9
<1>5. CASE Reboot
  BY <1>5, NoneFirst DEF Reboot
<1>6. CASE UNCHANGED vars
  BY <1>2, <1>6 DEF vars
<1> QED
  BY <1>3, <1>4, <1>5, <1>6 DEF Next

(* Which of two rules a packet tries first never changes, whatever is        *)
(* stored, replaced and purged, except for a rule that was sent again.       *)
THEOREM OrderIsKept == Spec => OrderKept
<1>1. Inv /\ [Next]_vars =>
        [\A i, j \in DOMAIN table :
           LET x == table[i].windows
               y == table[j].windows
           IN  i < j /\ Precedes(table', y, x) => AtEnd(table', x)]_vars
  BY OrderStep
<1> QED
  BY <1>1, Invariance, PTL DEF Spec, OrderKept
=============================================================================
