--------------------------- MODULE OpenPath_proof ---------------------------
(***************************************************************************)
(* What OpenPath promises for every network, every set of paths and any    *)
(* number of packets: rules never lead in a circle, and the ways back to   *)
(* the sink have no holes.                                                 *)
(*                                                                         *)
(* The first needs the rules alone: each leads to a node that is nearer to *)
(* its destination, because each path does (PathAssumption).  The second   *)
(* needs the packets too: one that starts at the sink and stands at its    *)
(* i-th node has left a rule for the sink at the node before.              *)
(***************************************************************************)
EXTENDS OpenPath, WellFoundedInduction, TLAPS

(* Every rule leads nearer to its destination. *)
Nearer(n, t) ==
  /\ DOMAIN t \subseteq Nodes
  /\ \A d \in DOMAIN t : t[d] \in Nodes /\ Cost[d][t[d]] < Cost[d][n]

RulesNearer == DOMAIN rules = Nodes /\ \A n \in Nodes : Nearer(n, rules[n])

Knows(n) == Sink \in DOMAIN rules[n]

(* A packet that comes from the sink is at the sink, or behind a node that    *)
(* knows the sink.                                                           *)
Behind(o) ==
  \/ o.at = Sink
  \/ \E i \in 2 .. Len(o.path) : o.at = o.path[i] /\ (i = 2 \/ Knows(o.path[i - 1]))

Holes == \A n \in Nodes : Knows(n) => rules[n][Sink] = Sink \/ Knows(rules[n][Sink])

Inv ==
  /\ TypeOK
  /\ RulesNearer
  /\ ~ forgot => Holes /\ \A o \in opens : o.path[1] = Sink => Behind(o)

-----------------------------------------------------------------------------
(* Paths. *)

LEMMA PathFacts ==
  ASSUME NEW path \in Paths
  PROVE  /\ path \in Seq(Nodes) /\ Len(path) \in Nat /\ Len(path) >= 1
         /\ \A i \in 1 .. Len(path) : path[i] \in Nodes
         /\ Last(path) \in Nodes
         /\ Descends(path)
BY PathAssumption DEF Last

LEMMA PositionFact ==
  ASSUME NEW path, NEW n, Listed(n, path)
  PROVE  Position(n, path) \in 1 .. Len(path) /\ path[Position(n, path)] = n
BY DEF Listed, Position

(* The first node of a path comes first, and only there. *)
LEMMA FirstOnce ==
  ASSUME NEW path \in Paths, path[1] = Sink, NEW i \in 1 .. Len(path), path[i] = Sink
  PROVE  i = 1
BY SinkFirst, PathFacts

LEMMA CostFact == \A d, n \in Nodes : Cost[d][n] \in Nat
BY PathAssumption

(* A set of naturals that is not empty has a least element. *)
LEMMA Least ==
  ASSUME NEW T, T \subseteq Nat, T # {}
  PROVE  \E x \in T : \A y \in T : x <= y
<1>1. PICK x \in T : \A y \in T : ~ (<<y, x>> \in OpToRel(<, Nat))
  BY NatLessThanWellFounded, WFMin
<1>2. \A y \in T : ~ (y < x)
  BY <1>1 DEF OpToRel
<1> QED
  BY <1>2

(* Numbers that grow from each place to the next grow from each to any later. *)
LEMMA Growing ==
  ASSUME NEW n \in Nat, NEW c, \A x \in 1 .. n : c[x] \in Nat,
         \A x \in 2 .. n : c[x - 1] < c[x],
         NEW i \in 1 .. n, NEW j \in 1 .. n, i < j
  PROVE  c[i] < c[j]
<1> DEFINE T == {k \in 1 .. n : i < k /\ ~ (c[i] < c[k])}
<1>1. SUFFICES ASSUME T # {} PROVE FALSE
  OBVIOUS
<1>2. PICK k \in T : \A y \in T : k <= y
  <2>1. T \subseteq Nat
    OBVIOUS
  <2> HIDE DEF T
  <2> QED
    BY <1>1, <2>1, Least
<1>3. k \in 2 .. n /\ k - 1 \in 1 .. n /\ k - 1 < k
  BY <1>2
<1>4. k - 1 \notin T
  BY <1>2, <1>3
<1>5. c[k - 1] < c[k]
  BY <1>3
<1>6. k - 1 = i \/ c[i] < c[k - 1]
  BY <1>2, <1>3, <1>4
<1>7. c[k] \in Nat /\ c[k - 1] \in Nat /\ c[i] \in Nat /\ ~ (c[i] < c[k])
  BY <1>2, <1>3
<1> QED
  BY <1>5, <1>6, <1>7

(* A path passes no node twice. *)
LEMMA PathDistinct ==
  ASSUME NEW path \in Paths, NEW i \in 1 .. Len(path), NEW j \in 1 .. Len(path),
         path[i] = path[j]
  PROVE  i = j
<1> DEFINE c == [x \in 1 .. Len(path) |-> Cost[path[1]][path[x]]]
<1>1. Len(path) \in Nat /\ 1 \in 1 .. Len(path) /\ i \in Int /\ j \in Int
  BY PathFacts
<1>2. \A x \in 1 .. Len(path) : c[x] \in Nat
  BY <1>1, PathFacts, CostFact
<1>3. \A x \in 2 .. Len(path) : x \in 1 .. Len(path) /\ x - 1 \in 1 .. Len(path)
  BY <1>1
<1>4. \A x \in 2 .. Len(path) : c[x - 1] < c[x]
  BY <1>3, PathFacts DEF Descends
<1>5. c[i] = c[j]
  OBVIOUS
<1> HIDE DEF c
<1>6. ~ (i < j)
  <2>1. i < j => c[i] < c[j]
    BY <1>1, <1>2, <1>4, Growing
  <2> QED
    BY <1>2, <1>5, <2>1
<1>7. ~ (j < i)
  <2>1. j < i => c[j] < c[i]
    BY <1>1, <1>2, <1>4, Growing
  <2> QED
    BY <1>2, <1>5, <2>1
<1> QED
  BY <1>1, <1>6, <1>7

-----------------------------------------------------------------------------
(* Storing a rule. *)

LEMMA InstallFacts ==
  ASSUME NEW t, NEW d, NEW m
  PROVE  LET u == Install(t, d, m)
         IN  /\ d \in DOMAIN u /\ u[d] = m
             /\ DOMAIN u \subseteq DOMAIN t \cup {d}
             /\ \A x \in DOMAIN u : x # d => u[x] = t[x]
BY DEF Install

LEMMA InstallNearer ==
  ASSUME NEW n \in Nodes, NEW t, Nearer(n, t), NEW d \in Nodes, NEW m \in Nodes,
         Cost[d][m] < Cost[d][n]
  PROVE  Nearer(n, Install(t, d, m))
<1> DEFINE u == Install(t, d, m)
<1>1. /\ d \in DOMAIN u /\ u[d] = m
      /\ DOMAIN u \subseteq DOMAIN t \cup {d}
      /\ \A x \in DOMAIN u : x # d => u[x] = t[x]
  BY InstallFacts
<1> HIDE DEF u
<1>2. DOMAIN u \subseteq Nodes
  BY <1>1 DEF Nearer
<1>3. ASSUME NEW x \in DOMAIN u PROVE u[x] \in Nodes /\ Cost[x][u[x]] < Cost[x][n]
  BY <1>1 DEF Nearer
<1> QED
  BY <1>2, <1>3 DEF Nearer, u

(* What the two rules a node learns do to its table. *)
LEMMA LearnFacts ==
  ASSUME NEW path \in Paths, NEW i \in 1 .. Len(path), NEW s, Nearer(path[i], s)
  PROVE  LET t == Back(s, path, i)
             u == Forth(t, path, i)
         IN  /\ Nearer(path[i], t) /\ Nearer(path[i], u)
             /\ i > 1 => path[1] \in DOMAIN t /\ t[path[1]] = path[i - 1]
<1> DEFINE t == Back(s, path, i)
           u == Forth(t, path, i)
<1>1. path[i] \in Nodes /\ path[1] \in Nodes /\ Last(path) \in Nodes
  BY PathFacts
<1>2. Nearer(path[i], t) /\ (i > 1 => path[1] \in DOMAIN t /\ t[path[1]] = path[i - 1])
  <2>1. CASE i > 1
    <3>1. i \in 2 .. Len(path) /\ i - 1 \in 1 .. Len(path)
      BY <2>1, PathFacts
    <3>2. path[i - 1] \in Nodes /\ Cost[path[1]][path[i - 1]] < Cost[path[1]][path[i]]
      BY <3>1, PathFacts DEF Descends
    <3>3. t = Install(s, path[1], path[i - 1])
      BY <2>1 DEF Back
    <3>4. Nearer(path[i], Install(s, path[1], path[i - 1]))
      BY <1>1, <3>2, InstallNearer
    <3>5. /\ path[1] \in DOMAIN Install(s, path[1], path[i - 1])
          /\ Install(s, path[1], path[i - 1])[path[1]] = path[i - 1]
      BY InstallFacts
    <3> QED
      BY <3>3, <3>4, <3>5
  <2>2. CASE ~ (i > 1)
    BY <2>2 DEF Back
  <2> QED
    BY <2>1, <2>2
<1> HIDE DEF t
<1>3. Nearer(path[i], u)
  <2>1. CASE i < Len(path)
    <3>1. i + 1 \in 2 .. Len(path) /\ i + 1 \in 1 .. Len(path) /\ (i + 1) - 1 = i
      BY <2>1, PathFacts
    <3>2. path[i + 1] \in Nodes /\ Cost[Last(path)][path[i + 1]] < Cost[Last(path)][path[i]]
      BY <3>1, PathFacts DEF Descends
    <3>3. u = Install(t, Last(path), path[i + 1])
      BY <2>1 DEF Forth
    <3> QED
      BY <1>1, <1>2, <3>2, <3>3, InstallNearer
  <2>2. CASE ~ (i < Len(path))
    BY <1>2, <2>2 DEF Forth
  <2> QED
    BY <2>1, <2>2
<1> QED
  BY <1>2, <1>3 DEF t

(* The rule for the sink, of a path that starts there. *)
LEMMA SinkRule ==
  ASSUME NEW path \in Paths, NEW i \in 1 .. Len(path), NEW s
  PROVE  LET t == Back(s, path, i)
             u == Forth(t, path, i)
         IN  /\ Sink \in DOMAIN u =>
                  \/ Sink \in DOMAIN s /\ u[Sink] = s[Sink]
                  \/ path[1] = Sink /\ i > 1 /\ u[Sink] = path[i - 1]
             /\ path[1] = Sink /\ i > 1 /\ ~ Purged(t, u) => Sink \in DOMAIN u
<1> DEFINE t == Back(s, path, i)
           u == Forth(t, path, i)
<1>1. Sink \in DOMAIN t =>
        \/ Sink \in DOMAIN s /\ t[Sink] = s[Sink]
        \/ path[1] = Sink /\ i > 1 /\ t[Sink] = path[i - 1]
  BY InstallFacts DEF Back
<1>2. path[1] = Sink /\ i > 1 => Sink \in DOMAIN t
  BY InstallFacts DEF Back
<1>3. i < Len(path) => Last(path) # Sink
  BY SinkFirst, PathFacts DEF Last
<1> HIDE DEF t
<1>4. Sink \in DOMAIN u => Sink \in DOMAIN t /\ u[Sink] = t[Sink]
  BY <1>3, InstallFacts DEF Forth
<1>5. ~ Purged(t, u) => DOMAIN t \subseteq DOMAIN u
  BY DEF Purged
<1> HIDE DEF u
<1> QED
  BY <1>1, <1>2, <1>4, <1>5 DEF t, u

-----------------------------------------------------------------------------
(* The invariant. *)

LEMMA InitInv == Init => Inv
<1> SUFFICES ASSUME Init PROVE Inv
  OBVIOUS
<1>1. DOMAIN NoRules = {}
  BY DEF NoRules
<1>2. /\ DOMAIN rules = Nodes /\ \A n \in Nodes : DOMAIN rules[n] = {}
      /\ opens = {} /\ data = NoData /\ forgot = FALSE
  BY <1>1 DEF Init
<1> QED
  BY <1>2 DEF Inv, TypeOK, RulesNearer, Nearer, Holes, Knows

LEMMA MatchType ==
  ASSUME Inv, NEW n \in Nodes, NEW d \in Nodes, Match(n, d)
  PROVE  data' \in [dst : Nodes, at : Nodes] \cup {NoData}
BY DEF Match, Inv, TypeOK

(* Steps that leave the rules alone. *)
LEMMA QuietInv ==
  ASSUME Inv, UNCHANGED <<rules, forgot>>,
         opens' \subseteq [path : Paths, dst : Nodes, at : Nodes],
         data' \in [dst : Nodes, at : Nodes] \cup {NoData},
         \A o \in opens' \ opens : o.path[1] = Sink => o.at = Sink
  PROVE  Inv'
<1>1. TypeOK'
  BY DEF Inv, TypeOK
<1>2. RulesNearer'
  BY DEF Inv, RulesNearer, Nearer
<1>3. ~ forgot' => Holes' /\ \A o \in opens' : o.path[1] = Sink => Behind(o)'
  BY DEF Inv, Holes, Behind, Knows
<1> QED
  BY <1>1, <1>2, <1>3 DEF Inv

LEMMA SendOpenPathInv == ASSUME Inv, NEW path \in Paths, SendOpenPath(path) PROVE Inv'
<1> DEFINE o == [path |-> path, dst |-> path[1], at |-> Sink]
<1>1. o \in [path : Paths, dst : Nodes, at : Nodes] /\ o.at = Sink
  BY PathFacts, PathAssumption
<1>2. opens' = opens \cup {o} /\ UNCHANGED <<rules, data, forgot>>
  BY DEF SendOpenPath
<1> HIDE DEF o
<1> QED
  BY <1>1, <1>2, QuietInv DEF Inv, TypeOK

LEMMA LearnPathInv == ASSUME Inv, NEW o \in opens, LearnPath(o) PROVE Inv'
<1> DEFINE path == o.path
           i == Position(o.at, path)
           s == rules[o.at]
           t == Back(s, path, i)
           u == Forth(t, path, i)
           next == [path |-> path, dst |-> path[i + 1], at |-> path[i + 1]]
<1>1. o = [path |-> path, dst |-> o.dst, at |-> o.at] /\ path \in Paths /\ o.at \in Nodes
  BY DEF Inv, TypeOK
<1>2. i \in 1 .. Len(path) /\ path[i] = o.at
  BY PositionFact DEF LearnPath
<1>3. /\ rules' = [rules EXCEPT ![o.at] = u]
      /\ forgot' = (forgot \/ Purged(s, t) \/ Purged(t, u))
      /\ opens' = (opens \ {o}) \cup IF i < Len(path) THEN {next} ELSE {}
      /\ data' = data
  BY DEF LearnPath
<1>4. Nearer(o.at, s) /\ DOMAIN rules = Nodes
  BY <1>1 DEF Inv, RulesNearer
<1>5. Nearer(path[i], u)
  BY <1>1, <1>2, <1>4, LearnFacts
<1>6. /\ Sink \in DOMAIN u =>
           \/ Sink \in DOMAIN s /\ u[Sink] = s[Sink]
           \/ path[1] = Sink /\ i > 1 /\ u[Sink] = path[i - 1]
      /\ path[1] = Sink /\ i > 1 /\ ~ Purged(t, u) => Sink \in DOMAIN u
  BY <1>1, <1>2, SinkRule
<1>7. forgot \in BOOLEAN /\ forgot' \in BOOLEAN
  BY <1>3 DEF Inv, TypeOK, Purged
<1>8. ~ forgot' => ~ forgot /\ DOMAIN s \subseteq DOMAIN u /\ ~ Purged(t, u)
  BY <1>3, <1>7 DEF Purged
<1>9. i < Len(path) => next \in [path : Paths, dst : Nodes, at : Nodes]
  <2>1. i < Len(path) => i + 1 \in 1 .. Len(path)
    BY <1>1, <1>2, PathFacts
  <2> QED
    BY <1>1, <2>1, PathFacts
<1>10. i < Len(path) => next.path = path /\ next.at = path[i + 1]
  OBVIOUS
<1> HIDE DEF i, s, t, u, next
<1>11. DOMAIN rules' = Nodes /\ \A n \in Nodes : rules'[n] = IF n = o.at THEN u ELSE rules[n]
  BY <1>1, <1>3, <1>4
<1>12. RulesNearer'
  BY <1>2, <1>5, <1>11 DEF Inv, RulesNearer, Nearer
<1>13. TypeOK'
  <2>1. opens' \subseteq [path : Paths, dst : Nodes, at : Nodes]
    BY <1>3, <1>9 DEF Inv, TypeOK
  <2>2. \A n \in Nodes : /\ DOMAIN rules'[n] \subseteq Nodes
                         /\ \A d \in DOMAIN rules'[n] : rules'[n][d] \in Nodes
    BY <1>12 DEF RulesNearer, Nearer
  <2> QED
    BY <1>3, <1>7, <1>11, <2>1, <2>2 DEF Inv, TypeOK
<1>14. ASSUME ~ forgot'
       PROVE  Holes' /\ \A p \in opens' : p.path[1] = Sink => Behind(p)'
  <2>1. ~ forgot /\ DOMAIN s \subseteq DOMAIN u /\ ~ Purged(t, u)
    BY <1>8, <1>14
  <2>2. \A n \in Nodes : Knows(n) => Knows(n)'
    BY <1>11, <2>1 DEF Knows, s
  <2>3. Holes /\ \A p \in opens : p.path[1] = Sink => Behind(p)
    BY <2>1 DEF Inv
  <2>4. ASSUME path[1] = Sink, i > 1
        PROVE  path[i - 1] \in Nodes /\ (path[i - 1] = Sink \/ Knows(path[i - 1]))
    <3>1. Behind(o)
      BY <2>3, <2>4
    <3>2. o.at # Sink
      BY <1>1, <1>2, <2>4, FirstOnce
    <3>3. PICK j \in 2 .. Len(path) : o.at = path[j] /\ (j = 2 \/ Knows(path[j - 1]))
      BY <3>1, <3>2 DEF Behind
    <3>4. j \in 1 .. Len(path) /\ i \in 2 .. Len(path) /\ Len(path) \in Nat
      BY <1>1, <1>2, <2>4, PathFacts
    <3>5. j = i
      BY <1>1, <1>2, <3>3, <3>4, PathDistinct
    <3>6. i - 1 \in 1 .. Len(path) /\ (i = 2 => i - 1 = 1)
      BY <3>4
    <3>7. path[i - 1] \in Nodes
      BY <1>1, <3>6, PathFacts
    <3> QED
      BY <2>4, <3>3, <3>5, <3>6, <3>7
  <2>5. ASSUME NEW n \in Nodes, Knows(n)'
        PROVE  rules'[n][Sink] = Sink \/ Sink \in DOMAIN rules'[rules'[n][Sink]]
    <3>1. CASE n # o.at
      <4>1. Knows(n) /\ rules'[n] = rules[n] /\ rules[n][Sink] \in Nodes
        BY <1>11, <2>5, <3>1 DEF Knows, Inv, TypeOK
      <4> QED
        BY <2>2, <2>3, <4>1 DEF Holes, Knows
    <3>2. CASE n = o.at
      <4>1. rules'[n] = u /\ Sink \in DOMAIN u
        BY <1>11, <2>5, <3>2 DEF Knows
      <4>2. CASE Sink \in DOMAIN s /\ u[Sink] = s[Sink]
        <5>1. Knows(n) /\ rules[n][Sink] \in Nodes /\ rules'[n][Sink] = rules[n][Sink]
          BY <3>2, <4>1, <4>2 DEF Knows, Inv, TypeOK, s
        <5> QED
          BY <2>2, <2>3, <5>1 DEF Holes, Knows
      <4>3. CASE path[1] = Sink /\ i > 1 /\ u[Sink] = path[i - 1]
        BY <2>2, <2>4, <4>1, <4>3 DEF Knows
      <4> QED
        BY <1>6, <4>1, <4>2, <4>3
    <3> QED
      BY <3>1, <3>2
  <2>6. ASSUME NEW p \in opens', p.path[1] = Sink
        PROVE  Behind(p)'
    <3>1. CASE p \in opens
      <4>1. Behind(p) /\ p.path \in Paths
        BY <2>3, <2>6, <3>1 DEF Inv, TypeOK
      <4>2. \A j \in 2 .. Len(p.path) : p.path[j - 1] \in Nodes
        BY <4>1, PathFacts
      <4> QED
        BY <2>2, <4>1, <4>2 DEF Behind
    <3>2. CASE p \notin opens
      <4>1. i < Len(path) /\ p = next
        BY <1>3, <2>6, <3>2
      <4>2. p.path = path /\ p.at = path[i + 1] /\ path[1] = Sink
        BY <1>10, <2>6, <4>1
      <4>3. i + 1 \in 2 .. Len(path) /\ (i + 1) - 1 = i /\ (i = 1 => i + 1 = 2) /\ (i = 1 \/ i > 1)
        BY <1>1, <1>2, <4>1, PathFacts
      <4>4. i > 1 => Knows(path[i])'
        BY <1>1, <1>2, <1>6, <1>11, <2>1, <4>2 DEF Knows
      <4>5. p.at = p.path[i + 1] /\ i + 1 \in 2 .. Len(p.path)
            /\ (i + 1 = 2 \/ Knows(p.path[(i + 1) - 1])')
        BY <4>2, <4>3, <4>4
      <4> QED
        BY <4>5 DEF Behind
    <3> QED
      BY <3>1, <3>2
  <2> QED
    BY <2>5, <2>6 DEF Holes, Knows
<1> QED
  BY <1>12, <1>13, <1>14 DEF Inv

LEMMA PassOpenPathInv == ASSUME Inv, NEW o \in opens, PassOpenPath(o) PROVE Inv'
<1> DEFINE m == rules[o.at][o.dst]
           p == [o EXCEPT !.at = m]
<1>1. o = [path |-> o.path, dst |-> o.dst, at |-> o.at] /\ o.path \in Paths
      /\ o.at \in Nodes /\ o.dst \in Nodes
  BY DEF Inv, TypeOK
<1>2. /\ opens' = (opens \ {o}) \cup IF o.dst \in DOMAIN rules[o.at] THEN {p} ELSE {}
      /\ UNCHANGED <<rules, data, forgot>>
      /\ ~ Listed(o.at, o.path)
  BY DEF PassOpenPath
<1>3. o.dst \in DOMAIN rules[o.at] => m \in Nodes
  BY <1>1 DEF Inv, TypeOK
<1>4. p = [path |-> o.path, dst |-> o.dst, at |-> m]
  BY <1>1
<1>5. CASE forgot \/ o.path[1] # Sink
  <2>1. TypeOK'
    BY <1>1, <1>2, <1>3, <1>4 DEF Inv, TypeOK
  <2>2. RulesNearer'
    BY <1>2 DEF Inv, RulesNearer, Nearer
  <2>3. ~ forgot' => Holes' /\ \A q \in opens' : q.path[1] = Sink => Behind(q)'
    <3> SUFFICES ASSUME ~ forgot'
                 PROVE  Holes' /\ \A q \in opens' : q.path[1] = Sink => Behind(q)'
      OBVIOUS
    <3>1. ~ forgot /\ o.path[1] # Sink
      BY <1>2, <1>5
    <3>2. Holes'
      BY <1>2, <3>1 DEF Inv, Holes, Knows
    <3>3. p.path[1] # Sink
      BY <1>4, <3>1
    <3>4. ASSUME NEW q \in opens, q.path[1] = Sink PROVE Behind(q)'
      BY <1>2, <3>1, <3>4 DEF Inv, Behind, Knows
    <3> HIDE DEF p
    <3> QED
      BY <1>2, <3>2, <3>3, <3>4
  <2> QED
    BY <2>1, <2>2, <2>3 DEF Inv
<1>6. CASE ~ (forgot \/ o.path[1] # Sink)
  <2>1. Behind(o) /\ o.path[1] = Sink
    BY <1>6 DEF Inv
  <2>2. Listed(o.at, o.path)
    <3>1. Len(o.path) \in Nat /\ Len(o.path) >= 1
      BY <1>1, PathFacts
    <3>2. 1 \in 1 .. Len(o.path) /\ \A j \in 2 .. Len(o.path) : j \in 1 .. Len(o.path)
      BY <3>1
    <3> QED
      BY <2>1, <3>2 DEF Behind, Listed
  <2> QED
    BY <1>2, <2>2
<1> QED
  BY <1>5, <1>6

LEMMA RebootInv == ASSUME Inv, NEW n \in Nodes, Reboot(n) PROVE Inv'
<1>1. /\ rules' = [rules EXCEPT ![n] = NoRules]
      /\ opens' \subseteq opens
      /\ data' \in {NoData, data}
      /\ forgot' = (forgot \/ DOMAIN rules[n] # {})
  BY DEF Reboot
<1>2. DOMAIN NoRules = {} /\ DOMAIN rules = Nodes /\ forgot \in BOOLEAN
  BY DEF NoRules, Inv, RulesNearer, TypeOK
<1> HIDE DEF NoRules
<1>3. \A m \in Nodes : rules'[m] = IF m = n THEN NoRules ELSE rules[m]
  BY <1>1, <1>2
<1>4. DOMAIN rules' = Nodes
  BY <1>1, <1>2
<1>5. RulesNearer'
  BY <1>2, <1>3, <1>4 DEF Inv, RulesNearer, Nearer
<1>6. TypeOK'
  <2>1. \A m \in Nodes : /\ DOMAIN rules'[m] \subseteq Nodes
                         /\ \A d \in DOMAIN rules'[m] : rules'[m][d] \in Nodes
    BY <1>5 DEF RulesNearer, Nearer
  <2> QED
    BY <1>1, <1>2, <1>4, <2>1 DEF Inv, TypeOK
<1>7. ASSUME ~ forgot'
      PROVE  Holes' /\ \A o \in opens' : o.path[1] = Sink => Behind(o)'
  <2>1. ~ forgot /\ DOMAIN rules[n] = {}
    BY <1>1, <1>2, <1>7
  <2>2. \A m \in Nodes : Knows(m) => m # n
    BY <2>1 DEF Knows
  <2>3. \A m \in Nodes : (Knows(m) <=> Knows(m)') /\ (Knows(m) => rules'[m] = rules[m])
    BY <1>2, <1>3, <2>2 DEF Knows
  <2>4. Holes'
    BY <2>1, <2>3 DEF Inv, TypeOK, Holes, Knows
  <2>5. ASSUME NEW o \in opens', o.path[1] = Sink PROVE Behind(o)'
    <3>1. Behind(o) /\ o.path \in Paths
      BY <1>1, <2>1, <2>5 DEF Inv, TypeOK
    <3>2. \A j \in 2 .. Len(o.path) : o.path[j - 1] \in Nodes
      BY <3>1, PathFacts
    <3> QED
      BY <2>3, <3>1, <3>2 DEF Behind
  <2> QED
    BY <2>4, <2>5
<1> QED
  BY <1>5, <1>6, <1>7 DEF Inv

LEMMA NextInv == Inv /\ [Next]_vars => Inv'
<1> SUFFICES ASSUME Inv, [Next]_vars PROVE Inv'
  OBVIOUS
<1> USE DEF Inv, TypeOK
<1>1. CASE \E path \in Paths : SendOpenPath(path)
  BY <1>1, SendOpenPathInv
<1>2. CASE \E o \in opens : LearnPath(o) \/ PassOpenPath(o) \/ LoseOpenPath(o)
  <2>1. PICK o \in opens : LearnPath(o) \/ PassOpenPath(o) \/ LoseOpenPath(o)
    BY <1>2
  <2>2. CASE LoseOpenPath(o)
    BY <2>2, QuietInv DEF LoseOpenPath
  <2> QED
    BY <2>1, <2>2, LearnPathInv, PassOpenPathInv
<1>3. CASE \E n, d \in Nodes : SendData(n, d)
  <2>1. PICK n, d \in Nodes : SendData(n, d)
    BY <1>3
  <2>2. data' \in [dst : Nodes, at : Nodes] \cup {NoData}
    BY <2>1, MatchType DEF SendData
  <2> QED
    BY <2>1, <2>2, QuietInv DEF SendData
<1>4. CASE HandleData
  <2>1. data' \in [dst : Nodes, at : Nodes] \cup {NoData}
    BY <1>4, MatchType DEF HandleData
  <2> QED
    BY <1>4, <2>1, QuietInv DEF HandleData
<1>5. CASE LoseData
  BY <1>5, QuietInv DEF LoseData
<1>6. CASE \E n \in Nodes : Reboot(n)
  BY <1>6, RebootInv
<1>7. CASE UNCHANGED vars
  BY <1>7, QuietInv DEF vars
<1> QED
  BY <1>1, <1>2, <1>3, <1>4, <1>5, <1>6, <1>7 DEF Next

LEMMA Invariant == Spec => []Inv
BY InitInv, NextInv, PTL DEF Spec

(* Rules lead from node to node, and packets are on paths the controller knows. *)
THEOREM TypeCorrect == Spec => []TypeOK
<1>1. Inv => TypeOK
  BY DEF Inv
<1> QED
  BY <1>1, Invariant, PTL

(* Whatever paths overlap and in whatever order they are learnt, replaced,   *)
(* purged or lost: no group of nodes keeps a packet for a destination among  *)
(* itself, because the one of the group that is nearest to it does not.      *)
THEOREM LoopFree == Spec => []NoLoop
<1>1. Inv => NoLoop
  <2> SUFFICES ASSUME Inv, NEW d \in Nodes, NEW group \in SUBSET Nodes, group # {}
               PROVE  \E n \in group : d \notin DOMAIN rules[n] \/ rules[n][d] \notin group
    BY DEF NoLoop
  <2> DEFINE T == {Cost[d][n] : n \in group}
  <2>1. T \subseteq Nat /\ T # {}
    BY CostFact
  <2>2. PICK x \in T : \A y \in T : x <= y
    <3> HIDE DEF T
    <3> QED
      BY <2>1, Least
  <2>3. PICK n \in group : Cost[d][n] = x
    BY <2>2
  <2>4. \A m \in group : Cost[d][n] <= Cost[d][m] /\ Cost[d][m] \in Nat /\ Cost[d][n] \in Nat
    BY <2>1, <2>2, <2>3
  <2>5. d \in DOMAIN rules[n] => Cost[d][rules[n][d]] < Cost[d][n]
    BY DEF Inv, RulesNearer, Nearer
  <2> QED
    BY <2>4, <2>5
<1> QED
  BY <1>1, Invariant, PTL

(* As long as no node has lost rules, a way back to the sink has no holes,    *)
(* however many paths are half learnt.                                       *)
THEOREM WayBack == Spec => []WayToSink
<1>1. Inv => WayToSink
  BY DEF Inv, Holes, Knows, WayToSink
<1> QED
  BY <1>1, Invariant, PTL
=============================================================================
