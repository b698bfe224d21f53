--------------------------- MODULE BroadcastProofs --------------------------
(***************************************************************************)
(* A flooded message reaches each application at most once: proof for      *)
(* every set of nodes and of messages.                                     *)
(***************************************************************************)
EXTENDS Broadcast, TLAPS

(* What AtMostOnce rests on.  A message that has not been posted is        *)
(* nowhere; while a copy is under way its origin has its id on record; and *)
(* a node that has emitted it has the id on record too.                    *)
OneFlood(m) ==
  /\ ~ Posted(m) => \A n \in Nodes : copies[m][n] = 0 /\ delivered[n][m] = 0
  /\ Posted(m) =>
       /\ delivered[packet[m].origin][m] = 0
       /\ (\E n \in Nodes : copies[m][n] > 0) => m \in seen[packet[m].origin]
  /\ \A n \in Nodes : delivered[n][m] > 0 => delivered[n][m] = 1 /\ m \in seen[n]

FloodInv == \A m \in Messages : OneFlood(m)

(* A packet is told from Unposted by its kind.                             *)
LEMMA PacketIsPosted ==
  ASSUME NEW p \in Packets
  PROVE  p # Unposted /\ p.origin \in Nodes
BY DEF Packets, Unposted

(* Initially no message has been posted.                                   *)
LEMMA FloodInit == Init => TypeOK /\ FloodInv
BY DEF Init, TypeOK, FloodInv, OneFlood, Posted, Unposted

(* Every step keeps the types: no copy is taken from a socket that carries *)
(* none.                                                                   *)
LEMMA TypeStep == TypeOK /\ [Next]_vars => TypeOK'
<1> SUFFICES ASSUME TypeOK, [Next]_vars PROVE TypeOK'
  OBVIOUS
<1> USE MaxCopiesAssumption DEF TypeOK
<1>1. ASSUME NEW n \in Nodes, NEW m \in Messages, NEW to \in Nodes,
             NEW kind \in {"broadcast", "direct"}, Post(n, m, kind, to)
      PROVE  TypeOK'
  <2>1. [origin |-> n, kind |-> kind, to |-> to] \in Packets
    BY DEF Packets
  <2>2. \A fanout \in Fanouts : fanout \in [Nodes -> Nat]
    BY DEF Fanouts
  <2>3. packet' \in [Messages -> Packets \cup {Unposted}]
    BY <1>1, <2>1 DEF Post
  <2>4. copies' \in [Messages -> [Nodes -> Nat]]
    BY <1>1, <2>2 DEF Post
  <2>5. seen' \in [Nodes -> SUBSET Messages]
    BY <1>1 DEF Post, Recorded
  <2> QED BY <1>1, <2>3, <2>4, <2>5 DEF Post
<1>2. ASSUME NEW n \in Nodes, NEW m \in Messages, ReceiveSeen(n, m)
      PROVE  TypeOK'
  BY <1>2 DEF ReceiveSeen
<1>3. ASSUME NEW n \in Nodes, NEW m \in Messages, ReceiveNew(n, m)
      PROVE  TypeOK'
  <2>1. PICK fanout \in Fanouts : Forwarded(n, m, fanout)
    BY <1>3 DEF ReceiveNew, Noted
  <2>2. [p \in Nodes |-> fanout[p] + copies[m][p] - (IF p = n THEN 1 ELSE 0)]
          \in [Nodes -> Nat]
    BY <1>3 DEF ReceiveNew, Noted, Fanouts
  <2>3. copies' \in [Messages -> [Nodes -> Nat]]
    BY <2>1, <2>2 DEF Forwarded
  <2>4. delivered' \in [Nodes -> [Messages -> 0 .. 2]]
    BY <1>3 DEF ReceiveNew, Noted, Saturated
  <2> QED BY <1>3, <2>3, <2>4 DEF ReceiveNew, Noted
<1>4. ASSUME NEW n \in Nodes, NEW m \in Messages, LoseCopy(n, m)
      PROVE  TypeOK'
  BY <1>4 DEF LoseCopy
<1>5. CASE UNCHANGED vars
  BY <1>5 DEF vars
<1> QED BY <1>1, <1>2, <1>3, <1>4, <1>5 DEF Next

(* Every step keeps the record ahead of the copies.                        *)
LEMMA FloodStep == TypeOK /\ FloodInv /\ [Next]_vars => FloodInv'
<1> SUFFICES ASSUME TypeOK, FloodInv, [Next]_vars, NEW k \in Messages
             PROVE  OneFlood(k)'
  BY DEF FloodInv
<1> USE MaxCopiesAssumption DEF TypeOK
<1>0. OneFlood(k)
  BY DEF FloodInv
<1>1. ASSUME NEW n \in Nodes, NEW m \in Messages, NEW to \in Nodes,
             NEW kind \in {"broadcast", "direct"}, Post(n, m, kind, to)
      PROVE  OneFlood(k)'
  <2> DEFINE p == [origin |-> n, kind |-> kind, to |-> to]
  <2>1. p \in Packets /\ p # Unposted /\ p.origin = n
    BY DEF Packets, Unposted
  <2>2. CASE k = m
    <3>1. Posted(k)' /\ packet'[k].origin = n
      BY <1>1, <2>1, <2>2 DEF Post, Posted
    <3>2. \A q \in Nodes : delivered'[q][k] = 0
      BY <1>0, <1>1, <2>2 DEF Post, OneFlood
    <3>3. (\E q \in Nodes : copies'[k][q] > 0) => k \in seen'[n]
      <4>1. PICK fanout \in Fanouts :
              Recorded(n, m, fanout) /\ copies' = [copies EXCEPT ![m] = fanout]
        BY <1>1 DEF Post
      <4>2. copies'[k] = fanout
        BY <4>1, <2>2
      <4> QED BY <4>1, <4>2, <2>2 DEF Recorded, Fanouts
    <3> QED BY <3>1, <3>2, <3>3 DEF OneFlood
  <2>3. CASE k # m
    <3>1. packet'[k] = packet[k] /\ copies'[k] = copies[k] /\ delivered' = delivered
      BY <1>1, <2>3 DEF Post
    <3>2. \A q \in Nodes : k \in seen[q] => k \in seen'[q]
      <4>1. seen' = seen \/ seen' = [seen EXCEPT ![n] = @ \cup {m}]
        BY <1>1 DEF Post, Recorded
      <4> QED BY <4>1
    <3>3. Posted(k) => packet[k].origin \in Nodes
      BY PacketIsPosted DEF Posted
    <3> QED BY <1>0, <3>1, <3>2, <3>3 DEF OneFlood, Posted
  <2> QED BY <2>2, <2>3
<1>2. ASSUME NEW n \in Nodes, NEW m \in Messages,
             ReceiveSeen(n, m) \/ LoseCopy(n, m)
      PROVE  OneFlood(k)'
  <2>1. UNCHANGED <<packet, seen, delivered>>
    BY <1>2 DEF ReceiveSeen, LoseCopy
  <2>2. copies[m][n] > 0 /\ copies' = [copies EXCEPT ![m][n] = @ - 1]
    BY <1>2 DEF ReceiveSeen, LoseCopy
  <2>3. \A q \in Nodes :
          \/ copies'[k][q] = copies[k][q]
          \/ copies[k][q] > 0 /\ copies'[k][q] = copies[k][q] - 1
    BY <2>2
  <2> QED BY <1>0, <2>1, <2>3 DEF OneFlood, Posted
<1>3. ASSUME NEW n \in Nodes, NEW m \in Messages, ReceiveNew(n, m)
      PROVE  OneFlood(k)'
  <2>1. packet' = packet /\ \A q \in Nodes : k \in seen[q] => k \in seen'[q]
    BY <1>3 DEF ReceiveNew, Noted
  <2>2. CASE k = m
    <3>1. copies[k][n] > 0 /\ k \notin seen[n] /\ k \in seen'[n]
      BY <1>3, <2>2 DEF ReceiveNew, Noted
    <3>2. Posted(k) /\ packet[k].origin \in Nodes /\ k \in seen[packet[k].origin]
      BY <1>0, <3>1, PacketIsPosted DEF OneFlood, Posted
    <3>3. packet[k].origin # n /\ delivered[n][k] = 0
      BY <1>0, <3>1, <3>2 DEF OneFlood
    <3>4. delivered' = [delivered EXCEPT ![n][k] = 1]
      BY <1>3, <2>2, <3>3 DEF ReceiveNew, Noted, Saturated
    <3>5. delivered'[packet[k].origin][k] = 0
      BY <1>0, <3>2, <3>3, <3>4 DEF OneFlood
    <3>6. \A q \in Nodes : delivered'[q][k] > 0 =>
                             delivered'[q][k] = 1 /\ k \in seen'[q]
      BY <1>0, <2>1, <3>1, <3>4 DEF OneFlood
    <3> QED BY <2>1, <3>2, <3>5, <3>6 DEF OneFlood, Posted
  <2>3. CASE k # m
    <3>1. copies'[k] = copies[k] /\ \A q \in Nodes : delivered'[q][k] = delivered[q][k]
      BY <1>3, <2>3 DEF ReceiveNew, Noted, Forwarded
    <3>2. Posted(k) => packet[k].origin \in Nodes
      BY PacketIsPosted DEF Posted
    <3> QED BY <1>0, <2>1, <3>1, <3>2 DEF OneFlood, Posted
  <2> QED BY <2>2, <2>3
<1>4. CASE UNCHANGED vars
  BY <1>0, <1>4 DEF vars, OneFlood, Posted
<1> QED BY <1>1, <1>2, <1>3, <1>4 DEF Next

(* TypeOK holds: in particular no count of copies on a socket goes below   *)
(* zero.                                                                   *)
THEOREM BroadcastTypeCorrect == Spec => []TypeOK
<1>1. Init => TypeOK
  BY FloodInit
<1> QED BY <1>1, TypeStep, PTL DEF Spec

(* AtMostOnce for every network: whatever the neighbours, the loops and    *)
(* the losses, the record of seen ids alone keeps an application from      *)
(* being handed a message twice, and its origin from getting it back.      *)
THEOREM EmittedAtMostOnce == Spec => []AtMostOnce
<1>1. TypeOK /\ FloodInv => AtMostOnce
  BY DEF TypeOK, FloodInv, OneFlood, AtMostOnce
<1> QED BY <1>1, FloodInit, TypeStep, FloodStep, PTL DEF Spec

=============================================================================
