-------------------------- MODULE AgentSocketProofs --------------------------
(***************************************************************************)
(* Proofs about the agents' WebSockets (AgentSocket), for any names, any   *)
(* number of connections and any number of messages: the registry holds    *)
(* the newest connection of a name or none, forgets one before its handler *)
(* ends, and no message is delivered twice or out of order.                *)
(***************************************************************************)
EXTENDS AgentSocket, TLAPS

TypeOK ==
    /\ slot \in [Names -> Conns \cup {None}]
    /\ name \in [Conns -> Names \cup {None}]
    /\ reader \in [Conns -> {"new", "reading", "ending", "ended"}]
    /\ writer \in [Conns -> BOOLEAN]
    /\ chan \in [Conns -> Seq(Nat)]
    /\ peer \in [Conns -> {"up", "gone"}]
    /\ pushed \in Seq(Names)
    /\ got \in [Conns -> Seq(Nat)]
    /\ newest \in [Names -> Conns \cup {None}]

\* A connection in the registry was opened under that name, and its handler has
\* not yet passed its unregister.
SlotIsOwn ==
    \A n \in Names : slot[n] # None =>
        /\ name[slot[n]] = n
        /\ reader[slot[n]] \in {"reading", "ending"}

SlotInv == TypeOK /\ ReplacedForGood /\ SlotIsOwn

\* Messages are numbered as they are pushed, so what is in a sequence of their
\* numbers is in order when the numbers ascend.
Ascending(s) == \A i, j \in 1..Len(s) : i < j => s[i] < s[j]

\* All of one sequence comes before all of another.
Before(s, t) == \A i \in 1..Len(s), j \in 1..Len(t) : s[i] < t[j]

Disjoint(s, t) == \A i \in 1..Len(s), j \in 1..Len(t) : s[i] # t[j]

\* Numbers of messages that were pushed for a name.
PushedFor(p, s, n) == \A i \in 1..Len(s) : s[i] \in 1..Len(p) /\ p[s[i]] = n

\* What one connection has delivered and has yet to deliver.
OwnInOrder(c) ==
    /\ reader[c] = "new" => chan[c] = <<>> /\ got[c] = <<>>
    /\ Ascending(got[c]) /\ Ascending(chan[c]) /\ Before(got[c], chan[c])
    /\ PushedFor(pushed, got[c], name[c]) /\ PushedFor(pushed, chan[c], name[c])

\* No message is with two connections.
Apart(c, d) == Disjoint(got[c], got[d]) /\ Disjoint(got[c], chan[d]) /\ Disjoint(chan[c], chan[d])

OrderInv ==
    /\ \A c \in Conns : OwnInOrder(c)
    /\ \A c, d \in Conns : c # d => Apart(c, d)

----------------------------------------------------------------------------

\* A sequence of numbers with one more at its end.
LEMMA AppendShape ==
    ASSUME NEW s \in Seq(Nat), NEW k \in Nat
    PROVE  /\ Append(s, k) \in Seq(Nat) /\ Len(s) \in Nat /\ Len(Append(s, k)) = Len(s) + 1
           /\ Append(s, k)[Len(s) + 1] = k
           /\ \A i \in 1..Len(s) : Append(s, k)[i] = s[i] /\ s[i] \in Nat
  OBVIOUS

\* One more, above all others.
LEMMA AppendAbove ==
    ASSUME NEW s \in Seq(Nat), NEW k \in Nat, \A i \in 1..Len(s) : s[i] < k, Ascending(s)
    PROVE  Ascending(Append(s, k))
  BY AppendShape DEF Ascending

\* One more, above all of another sequence, that comes before all of this one.
LEMMA AppendAfter ==
    ASSUME NEW s \in Seq(Nat), NEW t \in Seq(Nat), NEW k \in Nat, Before(s, t),
           \A i \in 1..Len(s) : s[i] < k
    PROVE  Before(s, Append(t, k))
<1> DEFINE u == Append(t, k)
<1>1. \A j \in 1..Len(u) : (j \in 1..Len(t) /\ u[j] = t[j]) \/ u[j] = k
  BY AppendShape
<1> HIDE DEF u
<1>2. Before(s, u)
  BY <1>1 DEF Before
<1>3. QED
  BY <1>2 DEF u

\* One more that the other sequence does not have.
LEMMA AppendDisjoint ==
    ASSUME NEW s \in Seq(Nat), NEW t \in Seq(Nat), NEW k \in Nat, Disjoint(s, t),
           \A i \in 1..Len(s) : s[i] # k
    PROVE  Disjoint(s, Append(t, k))
<1> DEFINE u == Append(t, k)
<1>1. \A j \in 1..Len(u) : (j \in 1..Len(t) /\ u[j] = t[j]) \/ u[j] = k
  BY AppendShape
<1> HIDE DEF u
<1>2. Disjoint(s, u)
  BY <1>1 DEF Disjoint
<1>3. QED
  BY <1>2 DEF u

\* One more that was pushed for the same name.
LEMMA AppendPushed ==
    ASSUME NEW s \in Seq(Nat), NEW k \in Nat, NEW p, NEW n, PushedFor(p, s, n),
           k \in 1..Len(p), p[k] = n
    PROVE  PushedFor(p, Append(s, k), n)
  BY AppendShape DEF PushedFor

LEMMA DisjointSymmetric == ASSUME NEW s, NEW t, Disjoint(s, t) PROVE Disjoint(t, s)
  BY DEF Disjoint

\* A sequence of numbers without its first.
LEMMA TailShape ==
    ASSUME NEW s \in Seq(Nat), s # <<>>
    PROVE  /\ Tail(s) \in Seq(Nat) /\ Head(s) \in Nat /\ Len(s) \in Nat /\ Len(s) >= 1
           /\ Head(s) = s[1] /\ Len(Tail(s)) = Len(s) - 1
           /\ \A i \in 1..Len(Tail(s)) : Tail(s)[i] = s[i + 1] /\ i + 1 \in 1..Len(s)
  OBVIOUS

\* What holds of all of a sequence holds without its first.
LEMMA TailKeeps ==
    ASSUME NEW s \in Seq(Nat), s # <<>>, NEW t, NEW p, NEW n
    PROVE  /\ Ascending(s) => Ascending(Tail(s)) /\ \A i \in 1..Len(Tail(s)) : Head(s) < Tail(s)[i]
           /\ Before(t, s) => Before(t, Tail(s)) /\ \A i \in 1..Len(t) : t[i] < Head(s)
           /\ Disjoint(t, s) => Disjoint(t, Tail(s)) /\ \A i \in 1..Len(t) : t[i] # Head(s)
           /\ PushedFor(p, s, n) => PushedFor(p, Tail(s), n) /\ Head(s) \in 1..Len(p) /\ p[Head(s)] = n
<1>1. 1 \in 1..Len(s)
  BY TailShape
<1>2. QED
  BY <1>1, TailShape DEF Ascending, Before, Disjoint, PushedFor

LEMMA SocketInit == Init => SlotInv /\ OrderInv
<1> SUFFICES ASSUME Init PROVE SlotInv /\ OrderInv
  OBVIOUS
<1>1. SlotInv
  BY SocketAssumption DEF Init, SlotInv, TypeOK, ReplacedForGood, SlotIsOwn
<1>2. OrderInv
  BY DEF Init, OrderInv, OwnInOrder, Apart, Ascending, Before, Disjoint, PushedFor
<1>3. QED
  BY <1>1, <1>2

\* The registry and the state of the tasks, one step.
LEMMA SlotStep == SlotInv /\ [Next]_vars => SlotInv'
<1> SUFFICES ASSUME SlotInv, [Next]_vars PROVE SlotInv'
  OBVIOUS
<1> USE SocketAssumption DEF SlotInv, TypeOK, ReplacedForGood, SlotIsOwn
<1>1. CASE \E n \in Names : Push(n)
  <2>1. PICK n \in Names : Push(n)
    BY <1>1
  <2>2. chan' \in [Conns -> Seq(Nat)] /\ pushed' \in Seq(Names)
    BY <2>1 DEF Push
  <2>3. QED
    BY <2>1, <2>2 DEF Push
<1>2. CASE \E n \in Names, c \in Conns : Open(c, n)
  BY <1>2 DEF Open, Registered
<1>3. CASE \E c \in Conns : Leave(c)
  BY <1>3 DEF Leave
<1>4. CASE \E c \in Conns : Write(c)
  <2>1. PICK c \in Conns : Write(c)
    BY <1>4
  <2>2. chan' \in [Conns -> Seq(Nat)] /\ got' \in [Conns -> Seq(Nat)]
    BY <2>1, TailShape, AppendShape DEF Write, Rest
  <2>3. QED
    BY <2>1, <2>2 DEF Write
<1>5. CASE \E c \in Conns : WriteFails(c)
  BY <1>5 DEF WriteFails
<1>6. CASE \E c \in Conns : ReadEnds(c) \/ ReadFails(c)
  <2>1. PICK c \in Conns : Abort(c) /\ (peer' = peer \/ peer' = [peer EXCEPT ![c] = "gone"])
    BY <1>6 DEF ReadEnds, ReadFails
  <2>2. QED
    BY <2>1 DEF Abort
<1>7. CASE \E c \in Conns : Unregister(c)
  <2>1. PICK c \in Conns : Unregister(c)
    BY <1>7
  <2>2. /\ reader' = [reader EXCEPT ![c] = "ended"]
        /\ slot' = [slot EXCEPT ![name[c]] = None]
        /\ UNCHANGED <<name, writer, chan, peer, pushed, got, newest>>
    BY <2>1 DEF Unregister, Unregistered
  <2>3. \A n \in Names : slot'[n] = None \/ (slot'[n] = slot[n] /\ n # name[c])
    BY <2>2
  <2>4. \A n \in Names : slot[n] = c => n = name[c]
    BY SocketAssumption
  <2>5. ReplacedForGood' /\ TypeOK'
    BY <2>2, <2>3
  <2>6. SlotIsOwn'
    BY <2>2, <2>3, <2>4
  <2>7. QED
    BY <2>5, <2>6
<1>8. CASE UNCHANGED vars
  BY <1>8 DEF vars
<1>9. QED
  BY <1>1, <1>2, <1>3, <1>4, <1>5, <1>6, <1>7, <1>8 DEF Next, Handle

\* A message pushed goes behind all others, and to one connection only.
LEMMA PushKeepsOrder ==
    ASSUME SlotInv, OrderInv, NEW n \in Names, Push(n)
    PROVE  OrderInv'
<1> DEFINE k == Len(pushed) + 1
<1>1. /\ k \in Nat /\ pushed' \in Seq(Names) /\ k \in 1..Len(pushed') /\ pushed'[k] = n
      /\ \A i \in 1..Len(pushed) : pushed'[i] = pushed[i] /\ i \in 1..Len(pushed') /\ i < k
      /\ UNCHANGED <<slot, name, reader, writer, peer, got, newest>>
  BY DEF Push, SlotInv, TypeOK
<1>2. \A c \in Conns : chan'[c] = chan[c] \/ (c = slot[n] /\ chan'[c] = Append(chan[c], k))
  BY DEF Push
<1>3. \A c \in Conns : chan[c] \in Seq(Nat) /\ got[c] \in Seq(Nat)
  BY DEF SlotInv, TypeOK
<1>4. \A c \in Conns : 
         /\ \A i \in 1..Len(chan[c]) : chan[c][i] < k /\ chan[c][i] # k
         /\ \A i \in 1..Len(got[c]) : got[c][i] < k /\ got[c][i] # k
  BY <1>1 DEF OrderInv, OwnInOrder, PushedFor
<1>5. \A s, m : PushedFor(pushed, s, m) => PushedFor(pushed', s, m)
  BY <1>1 DEF PushedFor
<1> HIDE DEF k
<1>6. ASSUME NEW c \in Conns PROVE OwnInOrder(c)'
  <2>1. OwnInOrder(c)
    BY DEF OrderInv
  <2>2. c = slot[n] => name[c] = n /\ reader[c] # "new"
    BY SocketAssumption DEF SlotInv, SlotIsOwn
  <2>3. CASE chan'[c] = chan[c]
    BY <1>1, <1>5, <2>1, <2>3 DEF OwnInOrder, PushedFor, Before, Ascending
  <2>4. CASE c = slot[n] /\ chan'[c] = Append(chan[c], k)
    <3>1. Ascending(chan'[c]) /\ Before(got[c], chan'[c])
      <4>1. Ascending(chan[c]) /\ Before(got[c], chan[c])
        BY <2>1 DEF OwnInOrder
      <4>2. Ascending(Append(chan[c], k))
        BY <1>1, <1>3, <1>4, <4>1, AppendAbove
      <4>3. Before(got[c], Append(chan[c], k))
        BY <1>1, <1>3, <1>4, <4>1, AppendAfter
      <4>4. QED
        BY <2>4, <4>2, <4>3
    <3>2. PushedFor(pushed', chan'[c], n) /\ PushedFor(pushed', got[c], n)
      <4>1. PushedFor(pushed, chan[c], n) /\ PushedFor(pushed, got[c], n)
        BY <2>1, <2>2, <2>4 DEF OwnInOrder
      <4>2. PushedFor(pushed', chan[c], n) /\ PushedFor(pushed', got[c], n)
        BY <1>5, <4>1
      <4>3. PushedFor(pushed', Append(chan[c], k), n)
        BY <1>1, <1>3, <4>2, AppendPushed
      <4>4. QED
        BY <2>4, <4>2, <4>3
    <3>3. got'[c] = got[c] /\ name'[c] = n /\ reader'[c] # "new" /\ Ascending(got[c])
      BY <1>1, <2>1, <2>2, <2>4 DEF OwnInOrder
    <3>4. QED
      BY <3>1, <3>2, <3>3 DEF OwnInOrder, Ascending, Before, PushedFor
  <2>5. QED
    BY <1>2, <2>3, <2>4
<1>7. ASSUME NEW c \in Conns, NEW d \in Conns, c # d PROVE Apart(c, d)'
  <2>1. Apart(c, d)
    BY <1>7 DEF OrderInv
  <2>2. CASE chan'[c] = chan[c] /\ chan'[d] = chan[d]
    BY <1>1, <2>1, <2>2 DEF Apart, Disjoint
  <2>3. CASE chan'[c] = Append(chan[c], k) /\ chan'[d] = chan[d]
    BY <1>1, <1>3, <1>4, <2>1, <2>3 DEF Apart, Disjoint
  <2>4. CASE chan'[c] = chan[c] /\ chan'[d] = Append(chan[d], k)
    <3>1. Disjoint(got[c], chan'[d]) /\ Disjoint(chan[c], chan'[d])
      BY <1>1, <1>3, <1>4, <2>1, <2>4, AppendDisjoint DEF Apart
    <3>2. /\ got'[c] = got[c] /\ got'[d] = got[d]
          /\ Disjoint(got[c], got[d]) /\ Disjoint(got[c], chan'[d]) /\ Disjoint(chan[c], chan'[d])
      BY <1>1, <2>1, <3>1 DEF Apart
    <3>3. QED
      BY <2>4, <3>2 DEF Apart, Disjoint
  <2>5. QED
    BY <1>2, <1>7, <2>2, <2>3, <2>4
<1>8. QED
  BY <1>6, <1>7 DEF OrderInv

\* The head of a channel goes to the end of what was delivered, or is lost.
LEMMA WriteKeepsOrder ==
    ASSUME SlotInv, OrderInv, NEW c \in Conns, Write(c)
    PROVE  OrderInv'
<1> DEFINE h == Head(chan[c])
           rest == Tail(chan[c])
<1>1. /\ chan[c] # <<>> /\ chan'[c] = rest
      /\ got'[c] = got[c] \/ got'[c] = Append(got[c], h)
      /\ \A d \in Conns : d # c => chan'[d] = chan[d] /\ got'[d] = got[d]
      /\ UNCHANGED <<slot, name, reader, writer, peer, pushed, newest>>
  BY DEF Write, Rest, SlotInv, TypeOK
<1>2. \A d \in Conns : chan[d] \in Seq(Nat) /\ got[d] \in Seq(Nat)
  BY DEF SlotInv, TypeOK
<1>3. rest \in Seq(Nat) /\ h \in Nat
  BY <1>1, <1>2, TailShape
<1>4. OwnInOrder(c) /\ reader[c] # "new"
  BY <1>1 DEF OrderInv, OwnInOrder
<1>5. /\ Ascending(rest) /\ Before(got[c], rest) /\ PushedFor(pushed, rest, name[c])
      /\ \A i \in 1..Len(rest) : h < rest[i]
      /\ \A i \in 1..Len(got[c]) : got[c][i] < h
      /\ h \in 1..Len(pushed) /\ pushed[h] = name[c]
  BY <1>1, <1>2, <1>4, TailKeeps DEF OwnInOrder
<1> HIDE DEF h, rest
<1>6. OwnInOrder(c)'
  <2>1. CASE got'[c] = got[c]
    BY <1>1, <1>4, <1>5, <2>1 DEF OwnInOrder, Ascending, Before, PushedFor
  <2>2. CASE got'[c] = Append(got[c], h)
    <3>1. Ascending(got'[c]) /\ PushedFor(pushed, got'[c], name[c])
      BY <1>2, <1>3, <1>4, <1>5, <2>2, AppendAbove, AppendPushed DEF OwnInOrder
    <3>2. Before(got'[c], rest)
      BY <1>2, <1>3, <1>5, <2>2, AppendShape DEF Before
    <3>3. QED
      BY <1>1, <1>4, <1>5, <3>1, <3>2 DEF OwnInOrder, Ascending, Before, PushedFor
  <2>3. QED
    BY <1>1, <2>1, <2>2
<1>7. ASSUME NEW d \in Conns, d # c PROVE OwnInOrder(d)'
  <2>1. /\ OwnInOrder(d)
        /\ chan'[d] = chan[d] /\ got'[d] = got[d] /\ UNCHANGED <<name, reader, pushed>>
    BY <1>1, <1>7 DEF OrderInv
  <2>2. QED
    BY <2>1 DEF OwnInOrder, Ascending, Before, PushedFor
<1>8. ASSUME NEW d \in Conns, d # c
      PROVE  /\ Disjoint(got[d], got'[c]) /\ Disjoint(got[d], rest)
             /\ Disjoint(got'[c], chan[d]) /\ Disjoint(chan[d], rest)
  <2>1. Apart(c, d) /\ Apart(d, c)
    BY <1>8 DEF OrderInv
  <2>2. /\ Disjoint(got[d], rest) /\ Disjoint(chan[d], rest)
        /\ \A i \in 1..Len(got[d]) : got[d][i] # h
        /\ \A i \in 1..Len(chan[d]) : chan[d][i] # h
    BY <1>1, <1>2, <2>1, TailKeeps DEF Apart, h, rest
  <2>3. CASE got'[c] = got[c]
    BY <2>1, <2>2, <2>3 DEF Apart
  <2>4. CASE got'[c] = Append(got[c], h)
    <3>1. Disjoint(chan[d], got[c])
      BY <2>1, DisjointSymmetric DEF Apart
    <3>2. Disjoint(got[d], got'[c]) /\ Disjoint(chan[d], got'[c])
      BY <1>2, <1>3, <2>1, <2>2, <2>4, <3>1, AppendDisjoint DEF Apart
    <3>3. QED
      BY <2>2, <3>2, DisjointSymmetric
  <2>5. QED
    BY <1>1, <2>3, <2>4
<1>9. ASSUME NEW d \in Conns, NEW e \in Conns, d # e PROVE Apart(d, e)'
  <2>1. CASE d # c /\ e # c
    <3>1. Apart(d, e) /\ chan'[d] = chan[d] /\ got'[d] = got[d] /\ chan'[e] = chan[e] /\ got'[e] = got[e]
      BY <1>1, <1>9, <2>1 DEF OrderInv
    <3>2. QED
      BY <3>1 DEF Apart, Disjoint
  <2>2. CASE d = c
    <3>1. Disjoint(got'[d], got'[e]) /\ Disjoint(got'[d], chan'[e]) /\ Disjoint(chan'[d], chan'[e])
      BY <1>1, <1>8, <1>9, <2>2, DisjointSymmetric
    <3>2. QED
      BY <3>1 DEF Apart, Disjoint
  <2>3. CASE e = c
    <3>1. Disjoint(got'[d], got'[e]) /\ Disjoint(got'[d], chan'[e]) /\ Disjoint(chan'[d], chan'[e])
      BY <1>1, <1>8, <1>9, <2>3, DisjointSymmetric
    <3>2. QED
      BY <3>1 DEF Apart, Disjoint
  <2>4. QED
    BY <2>1, <2>2, <2>3
<1>10. QED
  BY <1>6, <1>7, <1>9 DEF OrderInv

\* A channel that is dropped leaves the others, and what was delivered, alone.
LEMMA DropKeepsOrder ==
    ASSUME SlotInv, OrderInv, NEW c \in Conns, chan' = [chan EXCEPT ![c] = <<>>],
           UNCHANGED <<name, got, pushed>>,
           \A d \in Conns : reader'[d] = "new" => reader[d] = "new"
    PROVE  OrderInv'
<1>1. \A d \in Conns : chan'[d] = chan[d] \/ chan'[d] = <<>>
  BY DEF SlotInv, TypeOK
<1>2. ASSUME NEW d \in Conns PROVE OwnInOrder(d)'
  BY <1>1 DEF OrderInv, OwnInOrder, Ascending, Before, PushedFor
<1>3. ASSUME NEW d \in Conns, NEW e \in Conns, d # e PROVE Apart(d, e)'
  BY <1>1, <1>3 DEF OrderInv, Apart, Disjoint
<1>4. QED
  BY <1>2, <1>3 DEF OrderInv

\* Steps that touch no message.
LEMMA OrderFrame ==
    ASSUME OrderInv, UNCHANGED <<name, chan, got, pushed>>,
           \A d \in Conns : reader'[d] = "new" => reader[d] = "new"
    PROVE  OrderInv'
  BY DEF OrderInv, OwnInOrder, Apart, Ascending, Before, Disjoint, PushedFor

LEMMA OrderStep == SlotInv /\ OrderInv /\ [Next]_vars => OrderInv'
<1> SUFFICES ASSUME SlotInv, OrderInv, [Next]_vars PROVE OrderInv'
  OBVIOUS
<1>1. CASE \E n \in Names : Push(n)
  BY <1>1, PushKeepsOrder
<1>2. CASE \E n \in Names, c \in Conns : Open(c, n)
  <2>1. PICK n \in Names, c \in Conns : Open(c, n)
    BY <1>2
  <2>2. /\ UNCHANGED <<chan, got, pushed>> /\ chan[c] = <<>> /\ got[c] = <<>>
        /\ \A d \in Conns : d # c => name'[d] = name[d] /\ reader'[d] = reader[d]
        /\ reader'[c] # "new"
    BY <2>1 DEF Open, OrderInv, OwnInOrder, SlotInv, TypeOK
  <2>3. ASSUME NEW d \in Conns PROVE OwnInOrder(d)'
    <3>1. CASE d = c
      BY <2>2, <3>1 DEF OwnInOrder, Ascending, Before, PushedFor
    <3>2. CASE d # c
      <4>1. OwnInOrder(d) /\ name'[d] = name[d] /\ reader'[d] = reader[d] /\ UNCHANGED <<chan, got, pushed>>
        BY <2>2, <3>2 DEF OrderInv
      <4>2. QED
        BY <4>1 DEF OwnInOrder, Ascending, Before, PushedFor
    <3>3. QED
      BY <3>1, <3>2
  <2>4. QED
    BY <2>2, <2>3 DEF OrderInv, Apart, Disjoint
<1>3. CASE \E c \in Conns : Leave(c)
  BY <1>3, OrderFrame DEF Leave
<1>4. CASE \E c \in Conns : Write(c)
  BY <1>4, WriteKeepsOrder
<1>5. CASE \E c \in Conns : WriteFails(c)
  <2>1. PICK c \in Conns : WriteFails(c)
    BY <1>5
  <2>2. QED
    BY <2>1, DropKeepsOrder DEF WriteFails
<1>6. CASE \E c \in Conns : ReadEnds(c) \/ ReadFails(c)
  <2>1. PICK c \in Conns : Abort(c)
    BY <1>6 DEF ReadEnds, ReadFails
  <2>2. \A d \in Conns : reader'[d] = "new" => reader[d] = "new"
    BY <2>1 DEF Abort, SlotInv, TypeOK
  <2>3. QED
    BY <2>1, <2>2, DropKeepsOrder DEF Abort
<1>7. CASE \E c \in Conns : Unregister(c)
  BY <1>7, OrderFrame DEF Unregister, SlotInv, TypeOK
<1>8. CASE UNCHANGED vars
  BY <1>8, OrderFrame DEF vars
<1>9. QED
  BY <1>1, <1>2, <1>3, <1>4, <1>5, <1>6, <1>7, <1>8 DEF Next, Handle

----------------------------------------------------------------------------

\* The two invariants, in every order in which connections open, are replaced
\* and end.
THEOREM SocketInvariant == Spec => [](SlotInv /\ OrderInv)
<1>1. SlotInv /\ OrderInv /\ [Next]_vars => (SlotInv /\ OrderInv)'
  BY SlotStep, OrderStep
<1>2. QED
  BY SocketInit, <1>1, PTL DEF Spec

\* The registry holds the sender of the newest connection of a name, or none: a
\* replaced one never comes back (WsRegistry::register, unregister).
THEOREM NewestOrNone == Spec => []ReplacedForGood
  BY SocketInvariant, PTL DEF SlotInv

\* No ended handler's sender is left in the registry, although unregister takes
\* out whatever is under the name (handle_socket's end).
THEOREM NoneEnded == Spec => []EndedIsForgotten
<1>1. SlotInv => EndedIsForgotten
  BY DEF SlotInv, SlotIsOwn, EndedIsForgotten
<1>2. QED
  BY SocketInvariant, <1>1, PTL

\* However many connections an agent goes through, it gets a message at most
\* once, only its own, and each connection in the order pushed (ws.rs, push).
THEOREM DeliveredInOrder == Spec => []InOrderOnce
<1>1. SlotInv /\ OrderInv => InOrderOnce
  <2> SUFFICES ASSUME SlotInv, OrderInv PROVE InOrderOnce
    OBVIOUS
  <2>1. \A c \in Conns : DOMAIN got[c] = 1..Len(got[c])
    BY DEF SlotInv, TypeOK
  <2>2. \A c \in Conns : \A i, j \in DOMAIN got[c] : i < j => got[c][i] < got[c][j]
    BY <2>1 DEF OrderInv, OwnInOrder, Ascending
  <2>3. \A c, d \in Conns : \A i \in DOMAIN got[c], j \in DOMAIN got[d] :
            got[c][i] = got[d][j] => c = d
    BY <2>1 DEF OrderInv, Apart, Disjoint
  <2>4. \A c \in Conns : \A i \in DOMAIN got[c] : pushed[got[c][i]] = name[c]
    BY <2>1 DEF OrderInv, OwnInOrder, PushedFor
  <2>5. QED
    BY <2>2, <2>3, <2>4 DEF InOrderOnce
<1>2. QED
  BY SocketInvariant, <1>1, PTL
=============================================================================
