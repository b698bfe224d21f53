-------------------------- MODULE ConnectionsProofs -------------------------
(***************************************************************************)
(* connections keep no dead socket: proof for any number of nodes, links   *)
(* and failures.                                                           *)
(***************************************************************************)
EXTENDS Connections, TLAPS

(* The ends of a link, told apart by their sides.                          *)
LEMMA EndFacts ==
  /\ NoEnd \notin Ends
  /\ \A l \in Links :
       /\ l.from \in Ids /\ l.to \in Ids
       /\ OutEnd(l) \in Ends /\ OutEnd(l).side = "out" /\ OutEnd(l).link = l
       /\ InEnd(l) \in Ends /\ InEnd(l).side = "in" /\ InEnd(l).link = l
  /\ \A e \in Ends : e.link \in Links /\ e.side \in {"out", "in"} /\ Owner(e) \in Ids
BY DEF Links, Ends, OutEnd, InEnd, NoEnd, Owner

(* A node's link to itself.                                                *)
LEMMA SelfFacts ==
  ASSUME NEW n \in Ids
  PROVE  /\ SelfLink(n) \in Links
         /\ SelfLink(n).from = n /\ SelfLink(n).to = n
BY BoundsAssumption DEF SelfLink, Links

(* The initial state, in which every node is connected to itself only.     *)
LEMMA ConnectionsInit == Init => TypeOK /\ EntriesLive
<1> SUFFICES ASSUME Init PROVE TypeOK /\ EntriesLive
  OBVIOUS
<1>1. conn \in [Ids -> [Ids -> Ends \cup {NoEnd}]]
  BY EndFacts, SelfFacts DEF Init, OnlySelf
<1>2. TypeOK
  BY <1>1, BootstrapAssumption, BoundsAssumption DEF Init, TypeOK
<1>3. EntriesLive
  <2> SUFFICES ASSUME NEW n \in Ids, NEW p \in Ids, conn[n][p] # NoEnd
               PROVE  /\ Owner(conn[n][p]) = n
                      /\ conn[n][p].link.to = p
                      /\ State(conn[n][p]) \in {"open", "lost"}
    BY DEF EntriesLive
  <2>1. p = n /\ conn[n][p] = OutEnd(SelfLink(n))
    BY DEF Init, OnlySelf
  <2>2. outEnd[SelfLink(n)] = "open"
    BY SelfFacts DEF Init
  <2> QED BY <2>1, <2>2, EndFacts, SelfFacts DEF Owner, State
<1> QED BY <1>2, <1>3

(* Every step keeps the types.                                             *)
LEMMA ConnectionsTypeStep == TypeOK /\ [Next]_vars => TypeOK'
<1> SUFFICES ASSUME TypeOK, [Next]_vars PROVE TypeOK'
  OBVIOUS
<1> USE DEF TypeOK
<1>1. ASSUME NEW p \in Ids, NEW from \in Ids, HandleMessage(p, from) PROVE TypeOK'
  BY <1>1 DEF HandleMessage, linkVars
<1>2. ASSUME NEW n \in Ids, Refresh(n) PROVE TypeOK'
  BY <1>2 DEF Refresh, nodeVars
<1>3. ASSUME NEW l \in Links, Accept(l) PROVE TypeOK'
  <2>1. conn' \in [Ids -> [Ids -> Ends \cup {NoEnd}]]
    BY <1>3, EndFacts DEF Accept, Filed, Owner
  <2> QED BY <1>3, <2>1 DEF Accept, HandshakeSent
<1>4. ASSUME NEW l \in Links, Open(l) PROVE TypeOK'
  <2>1. conn' \in [Ids -> [Ids -> Ends \cup {NoEnd}]]
    BY <1>4, EndFacts DEF Open, Filed, Owner
  <2>2. nbrs' \in [Ids -> SUBSET Ids]
    BY <1>4, EndFacts DEF Open
  <2> QED BY <1>4, <2>1, <2>2 DEF Open
<1>5. ASSUME NEW l \in Links, ReceiveHandshake(l) PROVE TypeOK'
  <2>1. nbrs' \in [Ids -> SUBSET Ids]
    BY <1>5, EndFacts DEF ReceiveHandshake, Neighboured
  <2> QED BY <1>5, <2>1 DEF ReceiveHandshake, Neighboured
<1>6. ASSUME NEW e \in Ends, Close(e) PROVE TypeOK'
  <2>1. e.link \in Links /\ e.link.to \in Ids /\ Owner(e) \in Ids
    BY EndFacts
  <2>2. conn' \in [Ids -> [Ids -> Ends \cup {NoEnd}]]
    BY <1>6, <2>1 DEF Close, Unfiled
  <2>3. nbrs' \in [Ids -> SUBSET Ids] /\ table' \in [Ids -> SUBSET Ids]
    BY <1>6, <2>1 DEF Close, Forgotten
  <2>4. /\ outEnd' \in [Links -> {"none", "connecting", "open", "lost"}]
        /\ inEnd' \in [Links -> {"none", "open", "lost"}]
        /\ shakes' \in SUBSET Links
    BY <1>6, <2>1 DEF Close
  <2> QED BY <1>6, <2>2, <2>3, <2>4 DEF Close
<1>7. ASSUME NEW l \in Links, Break(l) PROVE TypeOK'
  BY <1>7, BoundsAssumption DEF Break, Fault, AfterLoss, nodeVars
<1>8. ASSUME NEW n \in Ids, Restart(n) PROVE TypeOK'
  <2>1. conn' \in [Ids -> [Ids -> Ends \cup {NoEnd}]]
    BY <1>8, EndFacts, SelfFacts DEF Restart, OnlySelf
  <2>2. /\ outEnd' \in [Links -> {"none", "connecting", "open", "lost"}]
        /\ inEnd' \in [Links -> {"none", "open", "lost"}]
    BY <1>8 DEF Restart, AfterLoss
  <2> QED BY <1>8, <2>1, <2>2, BootstrapAssumption, BoundsAssumption DEF Restart, Fault
<1>9. CASE UNCHANGED vars
  BY <1>9 DEF vars, linkVars, nodeVars
<1> QED BY <1>1, <1>2, <1>3, <1>4, <1>5, <1>6, <1>7, <1>8, <1>9, EndFacts
        DEF Next, LinkStep

(* What a step must leave of an entry of connections.                      *)
Good(n, p) ==
  conn[n][p] # NoEnd =>
    /\ Owner(conn[n][p]) = n
    /\ conn[n][p].link.to = p
    /\ State(conn[n][p]) \in {"open", "lost"}

(* An entry stays good if it is the same and its end is not gone.          *)
LEMMA SameEntry ==
  ASSUME TypeOK, NEW n \in Ids, NEW p \in Ids, Good(n, p),
         conn'[n][p] = conn[n][p],
         conn[n][p] # NoEnd => State(conn[n][p])' \in {"open", "lost"}
  PROVE  Good(n, p)'
BY DEF Good, Owner

(* An end just filed is good.                                              *)
LEMMA FiledEntry ==
  ASSUME TypeOK, EntriesLive, NEW e \in Ends, Filed(e), State(e)' = "open",
         \A f \in Ends : f # e => State(f)' = State(f)
  PROVE  \A n, p \in Ids : Good(n, p)'
<1> SUFFICES ASSUME NEW n \in Ids, NEW p \in Ids PROVE Good(n, p)'
  OBVIOUS
<1>1. Good(n, p)
  BY DEF EntriesLive, Good
<1>2. Owner(e) \in Ids /\ e.link.to \in Ids
  BY EndFacts
<1>3. CASE n = Owner(e) /\ p = e.link.to
  <2>1. conn'[n][p] = e
    BY <1>2, <1>3 DEF Filed, TypeOK
  <2> QED BY <1>3, <2>1 DEF Good, Owner, State
<1>4. CASE ~ (n = Owner(e) /\ p = e.link.to)
  <2>1. conn'[n][p] = conn[n][p]
    BY <1>2, <1>4 DEF Filed, TypeOK
  <2>2. conn[n][p] # NoEnd => conn[n][p] \in Ends
    BY DEF TypeOK
  <2>3. conn[n][p] # e \/ conn[n][p] = NoEnd
    BY <1>1, <1>4 DEF Good
  <2>4. conn[n][p] # NoEnd => State(conn[n][p])' = State(conn[n][p])
    BY <2>1, <2>2, <2>3
  <2> QED BY <1>1, <2>1, <2>4, SameEntry DEF Good
<1> QED BY <1>3, <1>4

(* Every step keeps the entries live.                                      *)
LEMMA EntriesStep == TypeOK /\ EntriesLive /\ [Next]_vars => EntriesLive'
<1> SUFFICES ASSUME TypeOK, EntriesLive, [Next]_vars,
                    NEW n \in Ids, NEW p \in Ids
             PROVE  Good(n, p)'
  BY DEF EntriesLive, Good
<1>0. Good(n, p) /\ (conn[n][p] # NoEnd => conn[n][p] \in Ends)
  BY DEF EntriesLive, Good, TypeOK
<1> DEFINE c == conn[n][p]
<1>1. ASSUME NEW m \in Ids, NEW q \in Ids, HandleMessage(m, q) PROVE Good(n, p)'
  BY <1>0, <1>1 DEF HandleMessage, linkVars, Good, Owner, State
<1>2. ASSUME NEW m \in Ids, Refresh(m) PROVE Good(n, p)'
  <2>1. conn' = conn /\ inEnd' = inEnd
    BY <1>2 DEF Refresh, nodeVars
  <2>2. \A l \in Links : outEnd[l] # "none" => outEnd'[l] = outEnd[l]
    BY <1>2 DEF Refresh, FreeLinks, Free, TypeOK
  <2> QED BY <1>0, <2>1, <2>2, EndFacts DEF Good, Owner, State
<1>3. ASSUME NEW l \in Links, Accept(l) PROVE Good(n, p)'
  <2>1. State(InEnd(l))' = "open"
    BY <1>3, EndFacts DEF Accept, State, TypeOK
  <2>2. \A f \in Ends : f # InEnd(l) => State(f)' = State(f)
    <3> SUFFICES ASSUME NEW f \in Ends, f # InEnd(l) PROVE State(f)' = State(f)
      OBVIOUS
    <3>1. f.side = "in" => f.link # l
      BY DEF Ends, InEnd
    <3> QED BY <1>3, <3>1, EndFacts DEF Accept, State, TypeOK
  <2> QED BY <1>3, <2>1, <2>2, EndFacts, FiledEntry DEF Accept
<1>4. ASSUME NEW l \in Links, Open(l) PROVE Good(n, p)'
  <2>1. State(OutEnd(l))' = "open"
    BY <1>4, EndFacts DEF Open, State, TypeOK
  <2>2. \A f \in Ends : f # OutEnd(l) => State(f)' = State(f)
    <3> SUFFICES ASSUME NEW f \in Ends, f # OutEnd(l) PROVE State(f)' = State(f)
      OBVIOUS
    <3>1. f.side = "out" => f.link # l
      BY DEF Ends, OutEnd
    <3> QED BY <1>4, <3>1, EndFacts DEF Open, State, TypeOK
  <2> QED BY <1>4, <2>1, <2>2, EndFacts, FiledEntry DEF Open
<1>5. ASSUME NEW l \in Links, ReceiveHandshake(l) PROVE Good(n, p)'
  BY <1>0, <1>5 DEF ReceiveHandshake, Neighboured, Good, Owner, State
<1>6. ASSUME NEW e \in Ends, Close(e) PROVE Good(n, p)'
  <2>1. e.link \in Links /\ e.link.to \in Ids /\ Owner(e) \in Ids
    BY EndFacts
  <2>2. CASE n = Owner(e) /\ p = e.link.to
    <3>1. conn'[n][p] = NoEnd
      BY <1>6, <2>1, <2>2 DEF Close, Unfiled, TypeOK
    <3> QED BY <3>1 DEF Good
  <2>3. CASE ~ (n = Owner(e) /\ p = e.link.to)
    <3>1. conn'[n][p] = c
      BY <1>6, <2>1, <2>3 DEF Close, Unfiled, TypeOK
    <3>2. c # NoEnd => c # e
      BY <1>0, <2>3 DEF Good
    <3>3. ASSUME NEW f \in Ends, f # e
          PROVE  IF f.side = "out" THEN outEnd'[f.link] = outEnd[f.link]
                                   ELSE inEnd'[f.link] = inEnd[f.link]
      <4>1. f.side # e.side \/ f.link # e.link
        BY <3>3 DEF Ends
      <4> QED BY <1>6, <2>1, <4>1, EndFacts DEF Close, Unfiled, TypeOK
    <3>4. c # NoEnd => State(conn[n][p])' \in {"open", "lost"}
      BY <1>0, <3>1, <3>2, <3>3 DEF State, Good
    <3> QED BY <1>0, <3>1, <3>4, SameEntry
  <2> QED BY <2>2, <2>3
<1>7. ASSUME NEW l \in Links, Break(l) PROVE Good(n, p)'
  <2>1. conn' = conn
    BY <1>7 DEF Break, nodeVars
  <2>2. \A k \in Links :
          /\ outEnd[k] \in {"open", "lost"} => outEnd'[k] \in {"open", "lost"}
          /\ inEnd[k] \in {"open", "lost"} => inEnd'[k] \in {"open", "lost"}
    BY <1>7 DEF Break, AfterLoss, TypeOK
  <2> QED BY <1>0, <2>1, <2>2, EndFacts DEF Good, Owner, State
<1>8. ASSUME NEW m \in Ids, Restart(m) PROVE Good(n, p)'
  <2>1. CASE n = m
    <3>1. conn'[n][p] = IF p = n THEN OutEnd(SelfLink(n)) ELSE NoEnd
      BY <1>8, <2>1 DEF Restart, OnlySelf, TypeOK
    <3>2. outEnd'[SelfLink(n)] = "open"
      BY <1>8, <2>1, SelfFacts DEF Restart
    <3> QED BY <3>1, <3>2, EndFacts, SelfFacts DEF Good, Owner, State
  <2>2. CASE n # m
    <3>1. conn'[n][p] = c
      BY <1>8, <2>2 DEF Restart, TypeOK
    <3>2. ASSUME c # NoEnd PROVE State(conn[n][p])' \in {"open", "lost"}
      <4>1. c \in Ends /\ c.link \in Links /\ Owner(c) # m
        BY <1>0, <2>2, <3>2, EndFacts DEF Good
      <4>2. c.link # SelfLink(m) \/ c.side = "in"
        BY <4>1, SelfFacts DEF Owner
      <4>3. State(c) \in {"open", "lost"}
        BY <1>0, <3>2 DEF Good
      <4>4. CASE c.side = "out"
        <5>1. c.link.from # m /\ c.link # SelfLink(m)
          BY <4>1, <4>2, <4>4 DEF Owner
        <5>2. outEnd'[c.link] \in {"open", "lost"}
          BY <1>8, <4>1, <4>3, <4>4, <5>1 DEF Restart, AfterLoss, State
        <5> QED BY <3>1, <4>4, <5>2 DEF State
      <4>5. CASE c.side = "in"
        <5>1. c.link.to # m /\ c.link # SelfLink(m)
          BY <4>1, <4>5, SelfFacts DEF Owner
        <5>2. inEnd'[c.link] \in {"open", "lost"}
          BY <1>8, <4>1, <4>3, <4>5, <5>1 DEF Restart, AfterLoss, State
        <5> QED BY <3>1, <4>5, <5>2 DEF State
      <4> QED BY <4>1, <4>4, <4>5, EndFacts
    <3> QED BY <1>0, <3>1, <3>2, SameEntry
  <2> QED BY <2>1, <2>2
<1>9. CASE UNCHANGED vars
  BY <1>0, <1>9 DEF vars, linkVars, nodeVars, Good, Owner, State
<1> QED BY <1>1, <1>2, <1>3, <1>4, <1>5, <1>6, <1>7, <1>8, <1>9, EndFacts
        DEF Next, LinkStep

(* TypeOK holds for any number of nodes, links and failures.               *)
THEOREM ConnectionsTypeCorrect == Spec => []TypeOK
<1>1. Init => TypeOK
  BY ConnectionsInit
<1> QED BY <1>1, ConnectionsTypeStep, PTL DEF Spec

(* EntriesLive for any number of nodes, links and failures: although a     *)
(* close event deletes whatever socket is filed under the id, connections  *)
(* never keep a socket whose own close event has passed, nor one that      *)
(* leads elsewhere than its id says.                                       *)
THEOREM NoDeadSocket == Spec => []EntriesLive
BY ConnectionsInit, ConnectionsTypeStep, EntriesStep, PTL DEF Spec

=============================================================================
