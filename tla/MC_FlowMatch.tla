---------------------------- MODULE MC_FlowMatch ----------------------------
(***************************************************************************)
(* Flow tables for FlowMatch: rules of every action type, on packets of    *)
(* ten bytes and a status register of two.                                 *)
(***************************************************************************)
EXTENDS FlowMatch

Const(v) == [loc |-> "CONST", at |-> v]
Pkt(i)   == [loc |-> "PACKET", at |-> i]
Reg(i)   == [loc |-> "STATUS", at |-> i]
Null     == [loc |-> "NULL_LOC", at |-> 0]

W(op, size, l, r) == [op |-> op, size |-> size, lhs |-> l, rhs |-> r]
Is(cell, v) == W("EQUAL", 1, cell, Const(v))
Any == W("EQUAL", 1, Null, Null)

Set(op, l, r, res) == [type |-> "SET_", op |-> op, lhs |-> l, rhs |-> r, res |-> res]
Put(cell, v) == Set("ADD", Const(v), Null, cell)
Act(t) == [type |-> t]
To(t, a) == [type |-> t, nxh |-> <<0, a>>]
Rule(ws, as) == [windows |-> ws, actions |-> as]

TYP == Pkt(6)
LEN == Pkt(1)

(* A rule classifies the packet in a register and looks it up again; the last *)
(* compares two bytes of which the packet has one at most.                   *)
Classify == <<
  Rule(<<Is(Reg(0), 0), W("NOT_EQUAL", 2, Pkt(2), Const(258))>>, <<Put(Reg(0), 1), Act("MATCH")>>),
  Rule(<<Is(Reg(0), 1), Is(TYP, 0)>>, <<Put(Reg(0), 0), To("FORWARD_U", 7)>>),
  Rule(<<W("GREATER", 2, Pkt(9), Const(0))>>, <<Act("FUNCTION"), Act("ASK")>>)>>

(* Two rules that hand the packet to each other, by its type. *)
Chain == <<
  Rule(<<Is(TYP, 0)>>, <<Set("XOR", Pkt(9), Const(3), Pkt(9)), Put(TYP, 9), Act("MATCH")>>),
  Rule(<<Is(TYP, 9), Is(Pkt(0), 1)>>, <<Set("OR", Pkt(9), Const(4), Pkt(9)), Put(Pkt(0), 2), Act("MATCH")>>),
  Rule(<<Is(Pkt(0), 2), W("LESS_OR_EQUAL", 1, Pkt(9), Const(4))>>, <<To("FORWARD_B", 5)>>)>>

(* A register counts packets; one in two is dropped. *)
Counter == <<
  Rule(<<Any, Is(Reg(1), 0)>>, <<Set("ADD", Reg(1), Const(1), Reg(1)), To("FORWARD_U", 4)>>),
  Rule(<<W("GREATER_OR_EQUAL", 2, Reg(0), Const(1))>>, <<Set("SUB", Reg(1), Const(1), Reg(1)), Act("DROP")>>)>>

(* A MATCH that undoes its match by making the packet empty. *)
Emptied == <<
  Rule(<<Is(LEN, 10)>>, <<Put(LEN, 0), Act("MATCH")>>),
  Rule(<<W("LESS", 1, Pkt(200), Const(9))>>, <<Act("DROP")>>),
  Rule(<<W("EQUAL", 2, Pkt(65535), Const(65535))>>, <<Act("ASK")>>)>>

(* A MATCH that divides, until the type is none of its own: not settled. *)
Halving == <<
  Rule(<<W("GREATER", 1, TYP, Const(0))>>, <<Set("DIV", TYP, Const(2), TYP), Act("MATCH")>>),
  Rule(<<Is(TYP, 0)>>, <<Set("MUL", Pkt(9), Const(200), Pkt(9)), Set("AND", Pkt(9), Const(15), Pkt(9)),
                         Set("MOD", Const(7), Pkt(9), Reg(0)), To("FORWARD_U", 1)>>)>>

(* A MATCH that undoes nothing, and rules no handler should be given: no      *)
(* window, no action that takes the packet, two that do, a write outside.    *)
Selfish == <<Rule(<<Any>>, <<Act("MATCH")>>)>>
Careless == <<
  Rule(<< >>, <<Act("DROP")>>),
  Rule(<<Is(TYP, 0)>>, <<Act("FUNCTION")>>),
  Rule(<<Is(TYP, 2)>>, <<Act("MATCH"), Act("DROP")>>),
  Rule(<<Is(TYP, 9), Is(LEN, 10)>>, <<Put(LEN, 200), Act("MATCH")>>),
  Rule(<<Is(LEN, 200), Is(Pkt(60), 1)>>, <<Act("ASK"), Put(Pkt(60), 1)>>)>>

AllTables == {<< >>, Classify, Chain, Counter, Emptied, Halving, Selfish, Careless}

Header(net, len, typ) == [i \in Cells |->
  CASE i = 0 -> net [] i = 1 -> len [] i = 3 -> 1 [] i = 6 -> typ [] i = 7 -> 100 [] OTHER -> 0]

AllPackets == {Header(n, k, t) : n \in {1, 2}, k \in {2, 10}, t \in {0, 2, 9}}
=============================================================================
