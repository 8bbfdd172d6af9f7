-------------------------- MODULE SchedulingProofs --------------------------
(***************************************************************************)
(* The metadata of a cell and its raft group have the same members, for    *)
(* any number of stores and replicas and any delay of the driver's         *)
(* answers.                                                                *)
(*                                                                         *)
(* A change is under way from the answer that carries it until it is       *)
(* applied: it is proposed, or the leader has still to propose it.  Adding *)
(* a peer always keeps the members agreed; removing one could take another *)
(* peer's metadata away, when the store has got a new peer since.  It has  *)
(* not, because of the order of what is under way for one store:           *)
(*   - an addition to a store is made by an operator whose view of the     *)
(*     cell had no peer there, and a removal only answers a report that    *)
(*     has the peer;                                                       *)
(*   - while the store has a peer no addition follows a removal, while it  *)
(*     has none no removal follows an addition.                            *)
(***************************************************************************)
EXTENDS Scheduling, SequenceTheorems, FiniteSetTheorems, TLAPS

Peers == [store : CellStores, id : Nat]
Changes == [type : {"add", "remove", "transfer"}, peer : Peers]
Elements(u) == {u[k] : k \in 1..Len(u)}

\* A change of type t to store s; one of type t1 before one of type t2 among the changes u.
Is(c, t, s) == c.type = t /\ c.peer.store = s
HasBefore(u, t1, t2, s) ==
  \E j, k \in 1..Len(u) : j < k /\ Is(u[j], t1, s) /\ Is(u[k], t2, s)

\* The changes under way, and their order.
Pipe == Elements(proposed) \cup Elements(admin)
UnderWay(t, s) == \E c \in Pipe : Is(c, t, s)
Before(t1, t2, s) ==
  \/ \E c \in Elements(proposed), d \in Elements(admin) : Is(c, t1, s) /\ Is(d, t2, s)
  \/ HasBefore(admin, t1, t2, s)

Empty(s) == s \notin StoresOf(cellPeers)
Only(p) == \A q \in cellPeers : q.store = p.store => q = p

\* Nothing that is under way removes the peer of a store that a view has not.
SeesPeers(peers) ==
  \A s \in CellStores \ StoresOf(peers) : UnderWay("remove", s) => Empty(s)

ReportPeers == IF report = <<>> THEN {} ELSE report[1].peers

\* The peers that anybody knows.
Known ==
  cellPeers \cup pd.peers \cup {c.peer : c \in Pipe} \cup {c.peer : c \in Elements(op.changes)}
    \cup ReportPeers

\* An operator: one change, or an addition and a removal.
OpType(o) ==
  /\ o \in [changes : Seq(Changes), timed : BOOLEAN]
  /\ \/ o.changes = <<>> /\ o = NoOp
     \/ \E c \in Changes : o.changes = <<c>>
     \/ \E c, d \in Changes : o.changes = <<c, d>> /\ d.type = "remove"

SchedTypes ==
  /\ cellPeers \subseteq Peers /\ pd.peers \subseteq Peers /\ upStores \subseteq CellStores
  /\ proposed = <<>> \/ \E c \in Changes : proposed = <<c>>
  /\ admin \in Seq(Changes)
  /\ \/ report = <<>>
     \/ \E r : report = <<r>> /\ r.peers \subseteq Peers /\ r.down \subseteq r.peers
  /\ OpType(op)
  /\ nextPeerId \in Nat

\* An id is of one peer.
IdsInv ==
  /\ \A p \in Known : p.id < nextPeerId
  /\ \A p, q \in Known : p.id = q.id => p = q

OrderInv ==
  /\ \A p, q \in cellPeers : p.store = q.store => p = q
  /\ \A c \in Pipe : c.type = "remove" => Only(c.peer)
  /\ \A s \in CellStores : Empty(s) => ~Before("add", "remove", s)
  /\ \A s \in CellStores : ~Empty(s) => ~Before("remove", "add", s)

ViewsInv ==
  /\ SeesPeers(pd.peers)
  /\ \A c \in Elements(op.changes) :
       c.type = "add" => (UnderWay("remove", c.peer.store) => Empty(c.peer.store))
  /\ report # <<>> => SeesPeers(ReportPeers)
  /\ \A p \in ReportPeers :
       /\ Only(p) /\ ~Before("remove", "add", p.store)
       /\ Empty(p.store) => ~UnderWay("add", p.store)

SchedInv == SchedTypes /\ IdsInv /\ OrderInv /\ ViewsInv /\ MembersAgree

-----------------------------------------------------------------------------
(* Changes in a row *)

\* The elements of the empty sequence, of one and of two elements.
LEMMA FewElements ==
  /\ Elements(<<>>) = {}
  /\ \A c : Elements(<<c>>) = {c}
  /\ \A c, d : Elements(<<c, d>>) = {c, d}
<1>1. ASSUME NEW c PROVE Elements(<<c>>) = {c}
  BY DEF Elements
<1>2. ASSUME NEW c, NEW d PROVE Elements(<<c, d>>) = {c, d}
  <2>1. Len(<<c, d>>) = 2 /\ <<c, d>>[1] = c /\ <<c, d>>[2] = d /\ 1..2 = {1, 2}
    OBVIOUS
  <2> QED
    BY <2>1 DEF Elements
<1> QED
  BY <1>1, <1>2 DEF Elements

\* What is left when the first change is taken.
LEMMA TailOrder ==
  ASSUME NEW u \in Seq(Changes), u # <<>>
  PROVE  /\ Tail(u) \in Seq(Changes) /\ Head(u) \in Elements(u) /\ Head(u) \in Changes
         /\ Elements(Tail(u)) \subseteq Elements(u)
         /\ \A t1, t2, s : HasBefore(Tail(u), t1, t2, s) => HasBefore(u, t1, t2, s)
         /\ \A t1, t2, s : \A d \in Elements(Tail(u)) :
              Is(Head(u), t1, s) /\ Is(d, t2, s) => HasBefore(u, t1, t2, s)
<1>1. /\ Tail(u) \in Seq(Changes) /\ Head(u) = u[1] /\ Len(Tail(u)) = Len(u) - 1
      /\ \A k \in 1..Len(Tail(u)) : Tail(u)[k] = u[k + 1]
  BY HeadTailProperties
<1>2. Len(u) \in Nat /\ Len(u) # 0
  BY EmptySeq
<1>3. \A k \in 1..Len(Tail(u)) : k + 1 \in 1..Len(u) /\ 1 < k + 1
  BY <1>1, <1>2
<1>4. 1 \in 1..Len(u) /\ u[1] \in Changes
  BY <1>2, ElementOfSeq
<1>5. Elements(Tail(u)) \subseteq Elements(u) /\ Head(u) \in Elements(u)
  BY <1>1, <1>3, <1>4 DEF Elements
<1>6. ASSUME NEW t1, NEW t2, NEW s, HasBefore(Tail(u), t1, t2, s) PROVE HasBefore(u, t1, t2, s)
  <2>1. PICK j, k \in 1..Len(Tail(u)) : j < k /\ Is(Tail(u)[j], t1, s) /\ Is(Tail(u)[k], t2, s)
    BY <1>6 DEF HasBefore
  <2>2. j + 1 < k + 1 /\ j + 1 \in 1..Len(u) /\ k + 1 \in 1..Len(u)
    BY <1>3, <2>1
  <2> QED
    BY <1>1, <2>1, <2>2 DEF HasBefore
<1>7. ASSUME NEW t1, NEW t2, NEW s, NEW d \in Elements(Tail(u)), Is(Head(u), t1, s), Is(d, t2, s)
      PROVE  HasBefore(u, t1, t2, s)
  <2>1. PICK k \in 1..Len(Tail(u)) : d = Tail(u)[k]
    BY DEF Elements
  <2> QED
    BY <1>1, <1>3, <1>4, <1>7, <2>1 DEF HasBefore
<1> QED
  BY <1>1, <1>4, <1>5, <1>6, <1>7

\* A change is put at the end.
LEMMA AppendOrder ==
  ASSUME NEW u \in Seq(Changes), NEW c \in Changes
  PROVE  /\ Append(u, c) \in Seq(Changes) /\ Elements(Append(u, c)) = Elements(u) \cup {c}
         /\ \A t1, t2, s : HasBefore(Append(u, c), t1, t2, s) =>
              HasBefore(u, t1, t2, s) \/ (Is(c, t2, s) /\ \E d \in Elements(u) : Is(d, t1, s))
<1> DEFINE v == Append(u, c)
<1>1. /\ v \in Seq(Changes) /\ Len(v) = Len(u) + 1 /\ Len(u) \in Nat
      /\ \A k \in 1..Len(u) : v[k] = u[k]
      /\ v[Len(u) + 1] = c
  BY AppendProperties, LenProperties
<1> HIDE DEF v
<1>2. \A k \in 1..Len(v) : k \in 1..Len(u) \/ k = Len(u) + 1
  BY <1>1
<1>3. Len(u) + 1 \in 1..Len(v) /\ \A k \in 1..Len(u) : k \in 1..Len(v)
  BY <1>1
<1>4. Elements(v) = Elements(u) \cup {c}
  <2>1. \A e \in Elements(v) : e \in Elements(u) \cup {c}
    BY <1>1, <1>2 DEF Elements
  <2>2. \A e \in Elements(u) \cup {c} : e \in Elements(v)
    BY <1>1, <1>3 DEF Elements
  <2> QED
    BY <2>1, <2>2
<1>5. ASSUME NEW t1, NEW t2, NEW s, HasBefore(v, t1, t2, s)
      PROVE  HasBefore(u, t1, t2, s) \/ (Is(c, t2, s) /\ \E d \in Elements(u) : Is(d, t1, s))
  <2>1. PICK j, k \in 1..Len(v) : j < k /\ Is(v[j], t1, s) /\ Is(v[k], t2, s)
    BY <1>5 DEF HasBefore
  <2>2. j \in 1..Len(u)
    BY <1>1, <2>1
  <2>3. v[j] = u[j] /\ u[j] \in Elements(u)
    BY <1>1, <2>2 DEF Elements
  <2>4. CASE k \in 1..Len(u)
    BY <1>1, <2>1, <2>2, <2>3, <2>4 DEF HasBefore
  <2>5. CASE k = Len(u) + 1
    BY <1>1, <2>1, <2>3, <2>5
  <2> QED
    BY <1>2, <2>4, <2>5
<1> QED
  BY <1>1, <1>4, <1>5 DEF v

-----------------------------------------------------------------------------
(* The cell *)

\* The first replicas, and nothing under way.
LEMMA SchedInitInv == SchedInit => SchedInv
<1> SUFFICES ASSUME SchedInit PROVE SchedInv
  OBVIOUS
<1>1. LimitReplicas \in Nat /\ \A s \in 1..LimitReplicas : s \in CellStores /\ s \in Nat
  <2>1. LimitReplicas \in 1..Cardinality(CellStores) /\ CellStores = 1..Cardinality(CellStores)
    BY ReplicasAssumption
  <2>2. Cardinality(CellStores) \in Nat
    BY ReplicasAssumption, FS_CardinalityType
  <2> QED
    BY <2>1, <2>2
<1>2. /\ FirstPeers \subseteq Peers
      /\ \A p \in FirstPeers : p.id \in 1..LimitReplicas /\ p = Peer(p.id, p.id) /\ p.store = p.id
  BY <1>1 DEF FirstPeers, Peers, Peer
<1>3. /\ cellPeers = FirstPeers /\ pd.peers = FirstPeers /\ proposed = <<>> /\ admin = <<>>
      /\ report = <<>> /\ op = NoOp /\ op.changes = <<>> /\ nextPeerId = LimitReplicas + 1
      /\ upStores = CellStores /\ voters = Ids(FirstPeers)
  BY DEF SchedInit, NoOp
<1>4. Pipe = {} /\ Known = FirstPeers
  BY <1>3, FewElements DEF Pipe, Known, ReportPeers
<1>5. SchedTypes
  <2>1. OpType(NoOp)
    BY DEF OpType, NoOp
  <2> QED
    BY <1>1, <1>2, <1>3, <2>1 DEF SchedTypes
<1>6. IdsInv
  BY <1>1, <1>2, <1>3, <1>4 DEF IdsInv
<1>7. \A t1, t2, s : ~Before(t1, t2, s)
  BY <1>3, FewElements DEF Before, HasBefore
<1>8. OrderInv
  BY <1>2, <1>3, <1>4, <1>7 DEF OrderInv
<1>9. ViewsInv
  BY <1>3, <1>4, FewElements DEF ViewsInv, SeesPeers, UnderWay, ReportPeers
<1> QED
  BY <1>3, <1>5, <1>6, <1>8, <1>9 DEF SchedInv, MembersAgree

\* Fewer changes are under way, in the same order.
Fewer ==
  /\ Pipe' \subseteq Pipe
  /\ \A t1, t2, s : Before(t1, t2, s)' => Before(t1, t2, s)

\* Nothing but the changes under way is other than before.
LEMMA FewerKeeps ==
  ASSUME SchedInv, Fewer, SchedTypes',
         UNCHANGED <<cellPeers, voters, pd, op, report, nextPeerId>>
  PROVE  SchedInv'
<1>1. \A t, s : UnderWay(t, s)' => UnderWay(t, s)
  BY DEF Fewer, UnderWay
<1>2. \A s : Empty(s)' <=> Empty(s)
  BY DEF Empty
<1>3. \A p : Only(p)' <=> Only(p)
  BY DEF Only
<1>4. IdsInv'
  <2>1. Known' \subseteq Known
    BY DEF Known, ReportPeers, Fewer
  <2> QED
    BY <2>1 DEF SchedInv, IdsInv
<1>5. OrderInv'
  BY <1>2, <1>3 DEF SchedInv, OrderInv, Fewer
<1>6. ViewsInv'
  BY <1>1, <1>2, <1>3 DEF SchedInv, ViewsInv, SeesPeers, Fewer, ReportPeers
<1> QED
  BY <1>4, <1>5, <1>6 DEF SchedInv, MembersAgree

\* The leader proposes the next change, or drops it.
LEMMA ProposeInv == SchedInv /\ Propose => SchedInv'
<1> SUFFICES ASSUME SchedInv, Propose PROVE SchedInv'
  OBVIOUS
<1>1. /\ admin \in Seq(Changes) /\ admin # <<>>
      /\ proposed = <<>> \/ \E c \in Changes : proposed = <<c>>
  BY DEF Propose, SchedInv, SchedTypes
<1>2. /\ Tail(admin) \in Seq(Changes) /\ Head(admin) \in Elements(admin) /\ Head(admin) \in Changes
      /\ Elements(Tail(admin)) \subseteq Elements(admin)
      /\ \A t1, t2, s : HasBefore(Tail(admin), t1, t2, s) => HasBefore(admin, t1, t2, s)
      /\ \A t1, t2, s : \A d \in Elements(Tail(admin)) :
           Is(Head(admin), t1, s) /\ Is(d, t2, s) => HasBefore(admin, t1, t2, s)
  BY <1>1, TailOrder
<1>3. \/ proposed' = proposed /\ admin' \in {<<>>, Tail(admin)}
      \/ proposed = <<>> /\ proposed' = <<Head(admin)>> /\ admin' = Tail(admin)
  BY DEF Propose
<1>4. SchedTypes'
  <2>1. admin' \in Seq(Changes) /\ (proposed' = <<>> \/ \E c \in Changes : proposed' = <<c>>)
    <3>1. CASE proposed' = proposed /\ admin' \in {<<>>, Tail(admin)}
      <4>1. <<>> \in Seq(Changes)
        OBVIOUS
      <4> QED
        BY <1>1, <1>2, <3>1, <4>1, Zenon
    <3>2. CASE proposed' = <<Head(admin)>> /\ admin' = Tail(admin)
      BY <1>2, <3>2
    <3> QED
      BY <1>3, <3>1, <3>2
  <2> QED
    BY <2>1 DEF Propose, SchedInv, SchedTypes
<1>5. Fewer
  <2>1. CASE proposed' = proposed /\ admin' = <<>>
    BY <2>1, FewElements DEF Fewer, Pipe, Before, HasBefore
  <2>2. CASE proposed' = proposed /\ admin' = Tail(admin)
    BY <1>2, <2>2 DEF Fewer, Pipe, Before
  <2>3. CASE proposed = <<>> /\ proposed' = <<Head(admin)>> /\ admin' = Tail(admin)
    <3>1. Elements(proposed') = {Head(admin)} /\ Elements(proposed) = {}
      BY <2>3, FewElements
    <3> QED
      BY <1>2, <2>3, <3>1 DEF Fewer, Pipe, Before
  <2> QED
    BY <1>3, <2>1, <2>2, <2>3
<1> QED
  BY <1>4, <1>5, FewerKeeps DEF Propose

\* Another leader has nothing to propose, and what was proposed may be lost.
LEMMA NewLeaderInv == SchedInv /\ NewLeader => SchedInv'
<1> SUFFICES ASSUME SchedInv, NewLeader PROVE SchedInv'
  OBVIOUS
<1>1. SchedTypes'
  BY DEF NewLeader, SchedInv, SchedTypes
<1>2. Fewer
  <2>1. CASE proposed' = proposed
    BY <2>1, FewElements DEF NewLeader, Fewer, Pipe, Before, HasBefore
  <2>2. CASE proposed' = <<>>
    BY <2>2, FewElements DEF NewLeader, Fewer, Pipe, Before, HasBefore
  <2> QED
    BY <2>1, <2>2 DEF NewLeader
<1> QED
  BY <1>1, <1>2, FewerKeeps DEF NewLeader

\* Steps that leave the changes, the views and the peers alone.
LEMMA OtherStepsInv ==
  ASSUME SchedInv, CatchUp \/ FallBehind \/ RestartReplica \/ StoreDies \/ StoreOffline
  PROVE  SchedInv'
<1>1. /\ UNCHANGED <<cellPeers, voters, pd, op, report, nextPeerId>> /\ UNCHANGED <<proposed, admin>>
      /\ upStores' \subseteq upStores
  BY DEF CatchUp, FallBehind, RestartReplica, StoreDies, StoreOffline, cellVars, SchedInv, SchedTypes
<1>2. SchedTypes'
  BY <1>1 DEF SchedInv, SchedTypes
<1>3. Fewer
  BY <1>1 DEF Fewer, Pipe, Before
<1> QED
  BY <1>1, <1>2, <1>3, FewerKeeps

\* The leader reports the peers as they are.
LEMMA SendHeartbeatInv == SchedInv /\ SendHeartbeat => SchedInv'
<1> SUFFICES ASSUME SchedInv, SendHeartbeat PROVE SchedInv'
  OBVIOUS
<1>1. /\ UNCHANGED <<cellPeers, voters, pd, op, nextPeerId, proposed, admin, upStores>>
      /\ report = <<>>
  BY DEF SendHeartbeat, cellVars
<1>2. PICK r : report' = <<r>> /\ r.peers = cellPeers /\ r.down \subseteq cellPeers
  <2> DEFINE r == [peers |-> cellPeers, ver |-> ver[cellLeader], leader |-> cellLeader,
                   pending |-> voters \ caught, down |-> {p \in cellPeers : p.store \in dead}]
  <2>1. report' = <<r>> /\ r.peers = cellPeers /\ r.down \subseteq cellPeers
    BY DEF SendHeartbeat
  <2> QED
    BY <2>1
<1>3. report' # <<>> /\ ReportPeers' = cellPeers
  BY <1>2 DEF ReportPeers
<1>4. SchedTypes'
  BY <1>1, <1>2 DEF SchedInv, SchedTypes
<1>5. IdsInv'
  <2>1. Known' \subseteq Known
    BY <1>1, <1>3 DEF Known, Pipe
  <2> QED
    BY <1>1, <2>1 DEF SchedInv, IdsInv
<1>6. OrderInv'
  BY <1>1 DEF SchedInv, OrderInv, Pipe, Only, Empty, Before
<1>7. /\ \A t, s : UnderWay(t, s)' <=> UnderWay(t, s)
      /\ \A s : Empty(s)' <=> Empty(s)
      /\ \A p : Only(p)' <=> Only(p)
      /\ \A t1, t2, s : Before(t1, t2, s)' <=> Before(t1, t2, s)
  BY <1>1 DEF UnderWay, Pipe, Empty, Only, Before
<1>8. SeesPeers(cellPeers)
  BY DEF SeesPeers, Empty
<1>9. \A p \in cellPeers : ~Empty(p.store) /\ Only(p) /\ ~Before("remove", "add", p.store)
  BY DEF SchedInv, SchedTypes, Peers, OrderInv, Only, Empty, StoresOf
<1>10. ViewsInv'
  BY <1>1, <1>3, <1>7, <1>8, <1>9 DEF SchedInv, ViewsInv, SeesPeers
<1> QED
  BY <1>1, <1>4, <1>5, <1>6, <1>10 DEF SchedInv, MembersAgree

\* A change is applied: it leaves the ones after it.
LEMMA Applied ==
  ASSUME SchedInv, ApplyChange
  PROVE  /\ Head(proposed) \in Pipe /\ Head(proposed) \in Changes
         /\ Pipe' = Elements(admin) /\ Fewer
         /\ \A t1, t2, s : \A d \in Pipe' :
              Is(Head(proposed), t1, s) /\ Is(d, t2, s) => Before(t1, t2, s)
         /\ UNCHANGED <<pd, op, report, nextPeerId, admin, upStores>> /\ proposed' = <<>>
<1>1. PICK c \in Changes : proposed = <<c>>
  BY DEF ApplyChange, SchedInv, SchedTypes
<1>2. Elements(proposed) = {c} /\ Head(proposed) = c
  BY <1>1, FewElements
<1>3. UNCHANGED <<pd, op, report, nextPeerId, admin, upStores>> /\ proposed' = <<>>
  BY DEF ApplyChange
<1>4. Pipe' = Elements(admin) /\ Pipe = {c} \cup Elements(admin)
  BY <1>2, <1>3, FewElements DEF Pipe
<1>5. Fewer
  BY <1>3, <1>4, FewElements DEF Fewer, Before
<1> QED
  BY <1>2, <1>3, <1>4, <1>5 DEF Before

\* doExecChangePeer adds a peer to a store that has none.
LEMMA AddedInv ==
  ASSUME SchedInv, ApplyChange, NEW c, c = Head(proposed), c.type = "add", ~Exists(c),
         NEW z, z = c.peer.store
  PROVE  SchedInv'
<1>1. /\ c \in Pipe /\ c \in Changes /\ c.type = "add" /\ Fewer /\ Pipe' \subseteq Pipe
      /\ \A d \in Pipe' : Is(c, "add", z) /\ Is(d, "remove", z) => Before("add", "remove", z)
      /\ UNCHANGED <<pd, op, report, nextPeerId, admin, upStores>> /\ proposed' = <<>>
  BY Applied DEF Fewer
<1>2. cellPeers' = cellPeers \cup {c.peer} /\ voters' = voters \cup {c.peer.id}
  BY DEF ApplyChange
<1>3. Empty(z) /\ z \in CellStores /\ c.peer \in Peers /\ c.peer.store = z
  BY <1>1 DEF Exists, Empty, Changes, Peers
<1>4. ~UnderWay("remove", z)' /\ UnderWay("add", z)
  BY <1>1, <1>3 DEF UnderWay, Is, SchedInv, OrderInv
<1>5. \A s : Empty(s)' <=> Empty(s) /\ s # z
  BY <1>2, <1>3 DEF Empty, StoresOf
<1>6. \A p : p.store # z => (Only(p)' <=> Only(p))
  BY <1>2, <1>3 DEF Only
<1>7. \A t, s : UnderWay(t, s)' => UnderWay(t, s)
  BY <1>1 DEF UnderWay
<1>8. SchedTypes'
  BY <1>1, <1>2, <1>3 DEF SchedInv, SchedTypes
<1>9. IdsInv'
  <2>1. Known' \subseteq Known
    BY <1>1, <1>2 DEF Known, ReportPeers
  <2> QED
    BY <1>1, <2>1 DEF SchedInv, IdsInv
<1>10. OrderInv'
  <2>1. \A p, q \in cellPeers' : p.store = q.store => p = q
    BY <1>2, <1>3 DEF SchedInv, OrderInv, Empty, StoresOf
  <2>2. \A d \in Pipe' : d.type = "remove" => Only(d.peer)'
    BY <1>1, <1>4, <1>6 DEF SchedInv, OrderInv, UnderWay, Is
  <2>3. \A s \in CellStores : Empty(s)' => ~Before("add", "remove", s)'
    BY <1>1, <1>5 DEF SchedInv, OrderInv, Fewer
  <2>4. ~Before("remove", "add", z)'
    BY <1>4 DEF Before, UnderWay, Pipe, HasBefore, Elements
  <2>5. \A s \in CellStores : ~Empty(s)' => ~Before("remove", "add", s)'
    BY <1>1, <1>5, <2>4 DEF SchedInv, OrderInv, Fewer
  <2> QED
    BY <2>1, <2>2, <2>3, <2>5 DEF OrderInv
<1>11. ViewsInv'
  <2>1. ReportPeers' = ReportPeers /\ \A p \in ReportPeers : p.store # z
    BY <1>1, <1>3, <1>4 DEF ReportPeers, SchedInv, ViewsInv
  <2>2. SeesPeers(pd.peers)' /\ (report' # <<>> => SeesPeers(ReportPeers)')
    BY <1>1, <1>4, <1>5, <1>7, <2>1 DEF SchedInv, ViewsInv, SeesPeers
  <2>3. \A d \in Elements(op.changes)' :
          d.type = "add" => (UnderWay("remove", d.peer.store)' => Empty(d.peer.store)')
    BY <1>1, <1>4, <1>5, <1>7 DEF SchedInv, ViewsInv
  <2>4. \A p \in ReportPeers' : /\ Only(p)' /\ ~Before("remove", "add", p.store)'
                                /\ Empty(p.store)' => ~UnderWay("add", p.store)'
    BY <1>1, <1>5, <1>6, <1>7, <2>1 DEF SchedInv, ViewsInv, Fewer
  <2> QED
    BY <2>2, <2>3, <2>4 DEF ViewsInv
<1>12. MembersAgree'
  BY <1>2 DEF SchedInv, MembersAgree, Ids
<1> QED
  BY <1>8, <1>9, <1>10, <1>11, <1>12 DEF SchedInv

\* doExecChangePeer removes the peer it finds on the store: it is the peer of the change.
LEMMA RemovedInv ==
  ASSUME SchedInv, ApplyChange, NEW c, c = Head(proposed), c.type = "remove", Exists(c),
         NEW z, z = c.peer.store
  PROVE  SchedInv'
<1>1. /\ c \in Pipe /\ c \in Changes /\ c.type = "remove" /\ Fewer /\ Pipe' \subseteq Pipe
      /\ \A d \in Pipe' : Is(c, "remove", z) /\ Is(d, "add", z) => Before("remove", "add", z)
      /\ UNCHANGED <<pd, op, report, nextPeerId, admin, upStores>> /\ proposed' = <<>>
  BY Applied DEF Fewer
<1>2. cellPeers' = {p \in cellPeers : p.store # z} /\ voters' = voters \ {c.peer.id}
  BY DEF ApplyChange
<1>3. ~Empty(z) /\ z \in CellStores /\ c.peer.store = z
  BY <1>1 DEF Exists, Empty, Changes, Peers
<1>4. c.peer \in cellPeers /\ cellPeers' = cellPeers \ {c.peer}
  BY <1>1, <1>2, <1>3 DEF SchedInv, OrderInv, Only, Empty, StoresOf
<1>5. ~UnderWay("add", z)'
  BY <1>1, <1>3 DEF UnderWay, Is, SchedInv, OrderInv
<1>6. \A s : Empty(s)' <=> Empty(s) \/ s = z
  BY <1>2 DEF Empty, StoresOf
<1>7. \A p : Only(p) => Only(p)'
  BY <1>2 DEF Only
<1>8. \A t, s : UnderWay(t, s)' => UnderWay(t, s)
  BY <1>1 DEF UnderWay
<1>9. SchedTypes'
  BY <1>1, <1>2 DEF SchedInv, SchedTypes
<1>10. IdsInv'
  <2>1. Known' \subseteq Known
    BY <1>1, <1>2 DEF Known, ReportPeers
  <2> QED
    BY <1>1, <2>1 DEF SchedInv, IdsInv
<1>11. OrderInv'
  <2>1. ~Before("add", "remove", z)'
    BY <1>5 DEF Before, UnderWay, Pipe, HasBefore, Elements
  <2> QED
    BY <1>1, <1>2, <1>6, <1>7, <2>1 DEF SchedInv, OrderInv, Fewer
<1>12. ViewsInv'
  <2>1. ReportPeers' = ReportPeers
    BY <1>1 DEF ReportPeers
  <2>2. SeesPeers(pd.peers)' /\ (report' # <<>> => SeesPeers(ReportPeers)')
    BY <1>1, <1>6, <1>8, <2>1 DEF SchedInv, ViewsInv, SeesPeers
  <2>3. \A d \in Elements(op.changes)' :
          d.type = "add" => (UnderWay("remove", d.peer.store)' => Empty(d.peer.store)')
    BY <1>1, <1>6, <1>8 DEF SchedInv, ViewsInv
  <2>4. \A p \in ReportPeers' : /\ Only(p)' /\ ~Before("remove", "add", p.store)'
                                /\ Empty(p.store)' => ~UnderWay("add", p.store)'
    BY <1>1, <1>5, <1>6, <1>7, <1>8, <2>1 DEF SchedInv, ViewsInv, Fewer
  <2> QED
    BY <2>2, <2>3, <2>4 DEF ViewsInv
<1>13. MembersAgree'
  <2>1. \A p \in cellPeers : p.id = c.peer.id => p = c.peer
    BY <1>4 DEF SchedInv, IdsInv, Known
  <2> QED
    BY <1>2, <1>4, <2>1 DEF SchedInv, MembersAgree, Ids
<1> QED
  BY <1>9, <1>10, <1>11, <1>12, <1>13 DEF SchedInv

\* A change is applied, or finds its work done.
LEMMA ApplyChangeInv == SchedInv /\ ApplyChange => SchedInv'
<1> SUFFICES ASSUME SchedInv, ApplyChange PROVE SchedInv'
  OBVIOUS
<1> PICK c : c = Head(proposed)
  OBVIOUS
<1> PICK z : z = c.peer.store
  OBVIOUS
<1>1. CASE c.type = "add" /\ ~Exists(c)
  BY <1>1, AddedInv
<1>2. CASE c.type = "remove" /\ Exists(c)
  BY <1>2, RemovedInv
<1>3. CASE ~(c.type = "add" /\ ~Exists(c)) /\ ~(c.type = "remove" /\ Exists(c))
  <2>1. UNCHANGED <<cellPeers, voters>>
    BY <1>3 DEF ApplyChange
  <2>2. Fewer /\ UNCHANGED <<pd, op, report, nextPeerId, admin, upStores>> /\ proposed' = <<>>
    BY Applied
  <2>3. SchedTypes'
    BY <2>1, <2>2 DEF SchedInv, SchedTypes
  <2> QED
    BY <2>1, <2>2, <2>3, FewerKeeps
<1> QED
  BY <1>1, <1>2, <1>3

-----------------------------------------------------------------------------
(* The driver *)

\* The smallest of one position, or of two.
LEMMA MinOfFew == Min({1}) = 1 /\ Min({2}) = 2 /\ Min({1, 2}) = 1
<1>1. Min({1}) = 1
  BY DEF Min
<1>2. Min({2}) = 2
  BY DEF Min
<1>3. Min({1, 2}) = 1
  <2>1. 1 \in {1, 2} /\ \A y \in {1, 2} : 1 =< y
    OBVIOUS
  <2>2. \A x \in {1, 2} : (\A y \in {1, 2} : x =< y) => x = 1
    OBVIOUS
  <2> QED
    BY <2>1, <2>2 DEF Min
<1> QED
  BY <1>1, <1>2, <1>3

\* What SubSeq leaves of one change, or of two.
LEMMA SubSeqOfFew ==
  ASSUME NEW c \in Changes, NEW d \in Changes
  PROVE  /\ SubSeq(<<c>>, 1, 1) = <<c>>
         /\ SubSeq(<<c, d>>, 1, 2) = <<c, d>> /\ SubSeq(<<c, d>>, 2, 2) = <<d>>
<1>1. /\ <<c>> \in Seq(Changes) /\ Len(<<c>>) = 1 /\ <<c>>[1] = c
      /\ <<d>> \in Seq(Changes) /\ Len(<<d>>) = 1 /\ <<d>>[1] = d
      /\ <<c, d>> \in Seq(Changes) /\ Len(<<c, d>>) = 2 /\ <<c, d>>[1] = c /\ <<c, d>>[2] = d
  OBVIOUS
<1> DEFINE u == <<c>>
           v == <<d>>
           w == <<c, d>>
<1> HIDE DEF u, v, w
<1>2. u \in Seq(Changes) /\ Len(u) = 1 /\ v \in Seq(Changes) /\ Len(v) = 1 /\ v[1] = d
  BY <1>1 DEF u, v
<1>3. w \in Seq(Changes) /\ Len(w) = 2 /\ w[1] = c /\ w[2] = d
  BY <1>1 DEF w
<1>4. SubSeq(u, 1, 1) = u
  <2>1. \A i \in 1..1 : u[i] \in Changes
    BY <1>2, ElementOfSeq
  <2>2. SubSeq(u, 1, 1) \in Seq(Changes) /\ Len(SubSeq(u, 1, 1)) = 1 /\ SubSeq(u, 1, 1)[1] = u[1]
    BY <1>2, <2>1
  <2> QED
    BY <1>2, <2>2, SeqEqual
<1>5. SubSeq(w, 1, 2) = w
  <2>1. \A i \in 1..2 : w[i] \in Changes
    BY <1>3, ElementOfSeq
  <2>2. /\ SubSeq(w, 1, 2) \in Seq(Changes) /\ Len(SubSeq(w, 1, 2)) = 2
        /\ \A i \in 1..2 : SubSeq(w, 1, 2)[i] = w[i]
    BY <1>3, <2>1
  <2> QED
    BY <1>3, <2>2, SeqEqual
<1>6. SubSeq(w, 2, 2) = v
  <2>1. \A i \in 2..2 : w[i] \in Changes
    BY <1>3
  <2>2. SubSeq(w, 2, 2) \in Seq(Changes) /\ Len(SubSeq(w, 2, 2)) = 1 /\ SubSeq(w, 2, 2)[1] = w[2]
    BY <1>3, <2>1
  <2> QED
    BY <1>2, <1>3, <2>2, SeqEqual
<1> QED
  BY <1>4, <1>5, <1>6 DEF u, v, w

\* aggregationOperator.Do goes on with an unfinished change: all of the operator, or its
\* second change.
LEMMA RestOfOperator ==
  ASSUME NEW o, OpType(o), NEW cell, Rest(o.changes, cell) # <<>>
  PROVE  /\ Unfinished(Rest(o.changes, cell)[1], cell)
         /\ \/ Rest(o.changes, cell) = o.changes
            \/ \E c, d \in Changes :
                 o.changes = <<c, d>> /\ d.type = "remove" /\ Rest(o.changes, cell) = <<d>>
<1> DEFINE open == {k \in DOMAIN o.changes : Unfinished(o.changes[k], cell)}
<1>1. open # {} /\ Rest(o.changes, cell) = SubSeq(o.changes, Min(open), Len(o.changes))
  BY Zenon DEF Rest
<1>2. CASE o.changes = <<>>
  BY <1>1, <1>2
<1>3. ASSUME NEW c \in Changes, o.changes = <<c>>
      PROVE  Unfinished(Rest(o.changes, cell)[1], cell) /\ Rest(o.changes, cell) = o.changes
  <2>1. DOMAIN o.changes = {1} /\ Len(o.changes) = 1
    BY <1>3
  <2>2. open = {1} /\ Unfinished(o.changes[1], cell)
    BY <1>1, <2>1
  <2>3. SubSeq(<<c>>, 1, 1) = <<c>>
    BY SubSeqOfFew, Zenon
  <2> QED
    BY <1>1, <1>3, <2>1, <2>2, <2>3, MinOfFew, Zenon
<1>4. ASSUME NEW c \in Changes, NEW d \in Changes, o.changes = <<c, d>>
      PROVE  /\ Unfinished(Rest(o.changes, cell)[1], cell)
             /\ Rest(o.changes, cell) \in {o.changes, <<d>>}
  <2>1. DOMAIN o.changes = {1, 2} /\ Len(o.changes) = 2
    BY <1>4
  <2>2. SubSeq(<<c, d>>, 1, 2) = <<c, d>> /\ SubSeq(<<c, d>>, 2, 2) = <<d>>
    BY SubSeqOfFew, Zenon
  <2>3. CASE 1 \in open
    <3>1. open = {1} \/ open = {1, 2}
      BY <2>1, <2>3
    <3>2. Min(open) = 1
      BY <3>1, MinOfFew, Zenon
    <3>3. Rest(o.changes, cell) = o.changes
      BY <1>1, <1>4, <2>1, <2>2, <3>2
    <3> QED
      BY <2>3, <3>3
  <2>4. CASE 1 \notin open
    <3>1. open = {2}
      BY <1>1, <2>1, <2>4
    <3>2. Min(open) = 2 /\ Unfinished(o.changes[2], cell)
      BY <3>1, MinOfFew, Zenon
    <3>3. Rest(o.changes, cell) = <<d>>
      BY <1>1, <1>4, <2>1, <2>2, <3>2, Zenon
    <3>4. o.changes[2] = d /\ <<d>>[1] = d
      BY <1>4
    <3> QED
      BY <3>2, <3>3, <3>4
  <2> QED
    BY <2>3, <2>4
<1> QED
  BY <1>2, <1>3, <1>4 DEF OpType

\* A new operator removes peers its view has, and adds at most one: a new one, to a store
\* where its view has none.
IsOp(o) == \E ch : \E t \in BOOLEAN : o = [changes |-> ch, timed |-> t]
Made(o, peers) ==
  \/ o = NoOp
  \/ \E p \in peers : o.changes = <<Change1("remove", p)>> \/ o.changes = <<Change1("transfer", p)>>
  \/ \E s \in CellStores \ StoresOf(peers) :
       \/ o.changes = <<AddPeer(s)>>
       \/ \E p \in peers : o.changes = <<AddPeer(s), Change1("remove", p)>>

LEMMA CheckMakes ==
  ASSUME SchedTypes, NEW cell, cell.peers \subseteq Peers, cell.down \subseteq cell.peers,
         NEW o \in Check(cell)
  PROVE  Made(o, cell.peers) /\ IsOp(o)
<1>1. \A s \in Best(cell.peers) : s \in CellStores \ StoresOf(cell.peers)
  BY DEF Best, SchedTypes
<1> DEFINE Removal(p) == [changes |-> <<Change1("remove", p)>>, timed |-> FALSE]
           Both(s, p) == [changes |-> <<AddPeer(s), Change1("remove", p)>>, timed |-> TRUE]
           Single(s) == [changes |-> <<AddPeer(s)>>, timed |-> TRUE]
<1>2. \/ \E p \in cell.peers : o = Removal(p)
      \/ \E s \in Best(cell.peers), p \in cell.peers : o = Both(s, p)
      \/ \E s \in Best(cell.peers) : o = Single(s)
  BY DEF Check
<1>3. ASSUME NEW p \in cell.peers, o = Removal(p)
      PROVE  Made(o, cell.peers) /\ IsOp(o)
  BY <1>3, Zenon DEF Made, IsOp
<1>4. ASSUME NEW s \in Best(cell.peers), NEW p \in cell.peers, o = Both(s, p)
      PROVE  Made(o, cell.peers) /\ IsOp(o)
  BY <1>1, <1>4, Zenon DEF Made, IsOp
<1>5. ASSUME NEW s \in Best(cell.peers), o = Single(s)
      PROVE  Made(o, cell.peers) /\ IsOp(o)
  BY <1>1, <1>5, Zenon DEF Made, IsOp
<1> QED
  BY <1>2, <1>3, <1>4, <1>5

\* What a new operator consists of.
LEMMA MadeChanges ==
  ASSUME SchedTypes, NEW peers \in SUBSET Peers, NEW o, Made(o, peers),
         IsOp(o)
  PROVE  /\ OpType(o)
         /\ \A c \in Elements(o.changes) :
              \/ c.type # "add" /\ c.peer \in peers
              \/ /\ c.type = "add" /\ c.peer.id = nextPeerId
                 /\ c.peer.store \in CellStores \ StoresOf(peers)
         /\ \A c, d \in Elements(o.changes) : c.type = "add" /\ d.type = "add" => c = d
<1> USE DEF Change1
<1>1. \A p \in peers : Change1("remove", p) \in Changes /\ Change1("transfer", p) \in Changes
  BY DEF Changes
<1>2. \A s \in CellStores : /\ AddPeer(s) \in Changes /\ AddPeer(s).type = "add"
                            /\ AddPeer(s).peer.id = nextPeerId /\ AddPeer(s).peer.store = s
  BY DEF AddPeer, Peer, Changes, Peers, SchedTypes
<1>3. o.changes \in Seq(Changes) => o \in [changes : Seq(Changes), timed : BOOLEAN]
  <2>1. PICK ch : \E t \in BOOLEAN : o = [changes |-> ch, timed |-> t]
    BY Zenon DEF IsOp
  <2>2. PICK t \in BOOLEAN : o = [changes |-> ch, timed |-> t]
    BY <2>1
  <2>3. o.changes = ch
    BY <2>2
  <2> QED
    BY <2>2, <2>3
<1>4. CASE o = NoOp
  <2>1. o.changes = <<>> /\ Elements(o.changes) = {}
    BY <1>4, FewElements DEF NoOp
  <2>2. OpType(o)
    BY <1>4, <2>1 DEF OpType, NoOp
  <2> QED
    BY <2>1, <2>2
<1>5. ASSUME NEW c \in Changes, o.changes = <<c>>, c.type # "add" /\ c.peer \in peers
      PROVE  OpType(o) /\ Elements(o.changes) = {c}
  <2>1. o.changes \in Seq(Changes)
    BY <1>5
  <2> QED
    BY <1>3, <1>5, <2>1, FewElements DEF OpType
<1>6. ASSUME NEW s \in CellStores, o.changes = <<AddPeer(s)>>
      PROVE  OpType(o) /\ Elements(o.changes) = {AddPeer(s)}
  <2>1. AddPeer(s) \in Changes
    BY <1>2
  <2>2. o.changes \in Seq(Changes)
    BY <1>6, <2>1
  <2> QED
    BY <1>3, <1>6, <2>1, <2>2, FewElements DEF OpType
<1>7. ASSUME NEW s \in CellStores, NEW p \in peers,
             o.changes = <<AddPeer(s), Change1("remove", p)>>
      PROVE  OpType(o) /\ Elements(o.changes) = {AddPeer(s), Change1("remove", p)}
  <2> DEFINE d == Change1("remove", p)
  <2>1. AddPeer(s) \in Changes /\ d \in Changes /\ d.type = "remove"
    BY <1>1, <1>2, Zenon
  <2>2. o.changes = <<AddPeer(s), d>>
    BY <1>7
  <2> HIDE DEF d
  <2>3. o.changes \in Seq(Changes)
    BY <2>1, <2>2
  <2>4. OpType(o)
    BY <1>3, <2>1, <2>2, <2>3 DEF OpType
  <2> QED
    BY <2>2, <2>4, FewElements DEF d
<1>8. ASSUME NEW p \in peers, o.changes = <<Change1("remove", p)>> \/ o.changes = <<Change1("transfer", p)>>
      PROVE  OpType(o) /\ \A c \in Elements(o.changes) : c.type # "add" /\ c.peer \in peers
  <2>1. CASE o.changes = <<Change1("remove", p)>>
    <3>1. PICK c \in Changes : c = Change1("remove", p)
      BY <1>1, Zenon
    <3> QED
      BY <1>5, <2>1, <3>1
  <2>2. CASE o.changes = <<Change1("transfer", p)>>
    <3>1. PICK c \in Changes : c = Change1("transfer", p)
      BY <1>1, Zenon
    <3> QED
      BY <1>5, <2>2, <3>1
  <2> QED
    BY <1>8, <2>1, <2>2
<1> DEFINE Good == \A c \in Elements(o.changes) :
                     \/ c.type # "add" /\ c.peer \in peers
                     \/ /\ c.type = "add" /\ c.peer.id = nextPeerId
                        /\ c.peer.store \in CellStores \ StoresOf(peers)
           One == \A c, d \in Elements(o.changes) : c.type = "add" /\ d.type = "add" => c = d
<1>9. ASSUME NEW s \in CellStores \ StoresOf(peers), o.changes = <<AddPeer(s)>>
      PROVE  OpType(o) /\ Good /\ One
  BY <1>2, <1>6, <1>9
<1>10. ASSUME NEW s \in CellStores \ StoresOf(peers), NEW p \in peers,
              o.changes = <<AddPeer(s), Change1("remove", p)>>
       PROVE  OpType(o) /\ Good /\ One
  <2>1. OpType(o) /\ Elements(o.changes) = {AddPeer(s), Change1("remove", p)}
    BY <1>7, <1>10
  <2>2. Change1("remove", p).type # "add" /\ Change1("remove", p).peer = p
    OBVIOUS
  <2> QED
    BY <1>2, <2>1, <2>2
<1>11. ASSUME NEW p \in peers,
              o.changes = <<Change1("remove", p)>> \/ o.changes = <<Change1("transfer", p)>>
       PROVE  OpType(o) /\ Good /\ One
  BY <1>8, <1>11
<1> HIDE DEF Good, One
<1>12. OpType(o) /\ Good /\ One
  <2>1. CASE o = NoOp
    BY <1>4, <2>1 DEF Good, One
  <2> QED
    BY <1>9, <1>10, <1>11, <2>1, Zenon DEF Made
<1> QED
  BY <1>12 DEF Good, One

\* The driver's operator changes: it goes on with what it had, or another is made from a view.
OpStep(view) ==
  \/ Elements(op'.changes) \subseteq Elements(op.changes) /\ nextPeerId' = nextPeerId
  \/ /\ Made(op', view) /\ IsOp(op')
     /\ nextPeerId' \in {nextPeerId, nextPeerId + 1}
     /\ (\E c \in Elements(op'.changes) : c.type = "add") => nextPeerId' = nextPeerId + 1

\* A new peer has an id nobody knows.
LEMMA OpStepIds ==
  ASSUME SchedTypes, IdsInv, NEW view \in SUBSET Peers, OpStep(view), view \subseteq Known,
         Known' \subseteq Known \cup {c.peer : c \in Elements(op'.changes)}
  PROVE  IdsInv' /\ nextPeerId' \in Nat
<1>1. nextPeerId \in Nat /\ \A p \in Known : p.id < nextPeerId
  BY DEF SchedTypes, IdsInv
<1>2. \A p \in Known : p \in Peers
  <2>1. ASSUME NEW c \in Elements(admin) PROVE c.peer \in Peers
    <3>1. PICK k \in 1..Len(admin) : c = admin[k]
      BY DEF Elements
    <3>2. c \in Changes
      BY <3>1, ElementOfSeq DEF SchedTypes
    <3> QED
      BY <3>2 DEF Changes
  <2>2. \A c \in Elements(proposed) : c.peer \in Peers
    BY FewElements DEF SchedTypes, Changes
  <2>3. ASSUME NEW c \in Elements(op.changes) PROVE c.peer \in Peers
    <3>1. PICK k \in 1..Len(op.changes) : c = op.changes[k]
      BY DEF Elements
    <3>2. c \in Changes
      BY <3>1, ElementOfSeq DEF SchedTypes, OpType
    <3> QED
      BY <3>2 DEF Changes
  <2>4. ReportPeers \subseteq Peers
    BY DEF SchedTypes, ReportPeers
  <2> QED
    BY <2>1, <2>2, <2>3, <2>4 DEF Known, Pipe, SchedTypes
<1>3. CASE Elements(op'.changes) \subseteq Elements(op.changes) /\ nextPeerId' = nextPeerId
  <2>1. Known' \subseteq Known
    BY <1>3 DEF Known
  <2> QED
    BY <1>1, <1>3, <2>1 DEF IdsInv
<1>4. CASE /\ Made(op', view) /\ IsOp(op')
           /\ nextPeerId' \in {nextPeerId, nextPeerId + 1}
           /\ (\E c \in Elements(op'.changes) : c.type = "add") => nextPeerId' = nextPeerId + 1
  <2>1. PICK o : o = op'
    OBVIOUS
  <2>2. /\ \A c \in Elements(o.changes) :
              c.peer \in view \/ (c.type = "add" /\ c.peer.id = nextPeerId)
        /\ \A c, d \in Elements(o.changes) : c.type = "add" /\ d.type = "add" => c = d
    BY <1>4, <2>1, MadeChanges, Zenon
  <2>3. \A p \in Known' : \/ p \in Known
                          \/ \E c \in Elements(o.changes) : c.type = "add" /\ c.peer.id = nextPeerId /\ p = c.peer
    BY <2>1, <2>2
  <2>4. \A p \in Known' : p.id < nextPeerId'
    BY <1>1, <1>2, <1>4, <2>1, <2>3 DEF Peers
  <2>5. \A p, q \in Known' : p.id = q.id => p = q
    <3>1. \A p \in Known : p.id # nextPeerId
      BY <1>1, <1>2 DEF Peers
    <3> QED
      BY <2>2, <2>3, <3>1 DEF IdsInv
  <2> QED
    BY <1>1, <1>4, <2>4, <2>5 DEF IdsInv
<1> QED
  BY <1>3, <1>4 DEF OpStep

\* An operator adds no peer where one is about to be removed.
LEMMA OpStepViews ==
  ASSUME SchedTypes, ViewsInv, NEW view \in SUBSET Peers, OpStep(view), SeesPeers(view),
         NEW c \in Elements(op'.changes), c.type = "add", UnderWay("remove", c.peer.store)
  PROVE  Empty(c.peer.store)
<1>1. CASE Elements(op'.changes) \subseteq Elements(op.changes)
  BY <1>1 DEF ViewsInv
<1>2. CASE Made(op', view) /\ IsOp(op')
  <2>1. PICK o : o = op'
    OBVIOUS
  <2>2. c.peer.store \in CellStores \ StoresOf(view)
    BY <1>2, <2>1, MadeChanges
  <2> QED
    BY <2>2 DEF SeesPeers
<1> QED
  BY <1>1, <1>2 DEF OpStep

\* dispatch goes on with the operator, or makes one from the report.
LEMMA DispatchStep ==
  ASSUME SchedTypes, NEW cell, cell.peers \subseteq Peers, cell.down \subseteq cell.peers,
         NEW timeout, Dispatch(cell, timeout)
  PROVE  /\ OpStep(cell.peers) /\ OpType(op')
         /\ op'.changes # <<>> /\ op'.changes[1].type = "remove" => op'.changes[1].peer \in cell.peers
<1> DEFINE rest == IF timeout THEN <<>> ELSE Rest(op.changes, cell)
           new  == IF Check(cell) = {} THEN {NoOp} ELSE Check(cell)
           Adds(o) == {c \in {o.changes[k] : k \in DOMAIN o.changes} : c.type = "add"}
<1>1. CASE rest # <<>>
  <2>1. /\ rest = Rest(op.changes, cell) /\ op' = [op EXCEPT !.changes = rest]
        /\ nextPeerId' = nextPeerId
    BY <1>1 DEF Dispatch
  <2>2. OpType(op) /\ op \in [changes : Seq(Changes), timed : BOOLEAN]
    BY DEF SchedTypes, OpType
  <2>3. /\ Unfinished(rest[1], cell)
        /\ \/ rest = op.changes
           \/ \E c, d \in Changes : op.changes = <<c, d>> /\ d.type = "remove" /\ rest = <<d>>
    BY <1>1, <2>1, <2>2, RestOfOperator, ZenonT(40)
  <2> HIDE DEF rest
  <2>4. op'.changes = rest
    BY <2>1, <2>2
  <2>5. rest[1].type = "remove" => rest[1].peer \in cell.peers
    BY <2>3 DEF Unfinished
  <2>6. CASE rest = op.changes
    <3>1. op' = op
      BY <2>1, <2>2, <2>6
    <3> QED
      BY <2>1, <2>2, <2>4, <2>5, <2>6, <3>1 DEF OpStep
  <2>7. ASSUME NEW c \in Changes, NEW d \in Changes, op.changes = <<c, d>>, d.type = "remove",
               rest = <<d>>
        PROVE  OpType(op') /\ Elements(op'.changes) \subseteq Elements(op.changes)
    <3>1. rest \in Seq(Changes)
      BY <2>7
    <3>2. op' \in [changes : Seq(Changes), timed : BOOLEAN]
      BY <2>1, <2>2, <3>1
    <3>3. OpType(op')
      BY <2>4, <2>7, <3>2 DEF OpType
    <3> QED
      BY <2>4, <2>7, <3>3, FewElements
  <2> QED
    BY <2>1, <2>3, <2>4, <2>5, <2>6, <2>7 DEF OpStep
<1>2. CASE rest = <<>>
  <2>1. PICK o \in new : op' = o /\ nextPeerId' = nextPeerId + Cardinality(Adds(o))
    BY <1>2 DEF Dispatch
  <2>2. Made(o, cell.peers) /\ IsOp(o)
    <3>1. CASE o = NoOp
      BY <3>1, Zenon DEF Made, IsOp, NoOp
    <3>2. CASE o \in Check(cell)
      BY <3>2, CheckMakes
    <3> QED
      BY <2>1, <3>1, <3>2
  <2> HIDE DEF new, rest
  <2> cell.peers \in SUBSET Peers
    OBVIOUS
  <2>3. /\ OpType(o)
        /\ \A c \in Elements(o.changes) :
             \/ c.type # "add" /\ c.peer \in cell.peers
             \/ c.type = "add" /\ c.peer.id = nextPeerId
        /\ \A c, d \in Elements(o.changes) : c.type = "add" /\ d.type = "add" => c = d
    BY <2>2, MadeChanges, ZenonT(40)
  <2>4. Adds(o) = {c \in Elements(o.changes) : c.type = "add"}
    BY <2>3, LenProperties DEF OpType, Elements
  <2> HIDE DEF Adds
  <2>5. Adds(o) = {} \/ \E c : Adds(o) = {c}
    BY <2>3, <2>4, SMTT(30)
  <2>6. /\ Cardinality(Adds(o)) \in {0, 1}
        /\ Adds(o) # {} => Cardinality(Adds(o)) = 1
    BY <2>5, FS_EmptySet, FS_Singleton, Zenon
  <2>7. nextPeerId \in Nat
    BY DEF SchedTypes
  <2>8. OpStep(cell.peers)
    BY <2>1, <2>2, <2>4, <2>6, <2>7 DEF OpStep
  <2>9. o.changes # <<>> => o.changes[1] \in Elements(o.changes)
    BY <2>3, EmptySeq, LenProperties DEF OpType, Elements
  <2> QED
    BY <2>1, <2>3, <2>8, <2>9
<1> QED
  BY <1>1, <1>2

\* A change is sent: it keeps the order, as the operator knows the cell by the report.
LEMMA SentOrder ==
  ASSUME SchedInv, NEW c \in Changes, admin' = Append(admin, c), UNCHANGED <<proposed, cellPeers>>,
         c.type = "add" => (UnderWay("remove", c.peer.store) => Empty(c.peer.store)),
         c.type = "remove" => c.peer \in ReportPeers
  PROVE  OrderInv' /\ Pipe' = Pipe \cup {c} /\ admin' \in Seq(Changes)
<1>1. /\ admin' \in Seq(Changes) /\ Elements(admin') = Elements(admin) \cup {c}
      /\ \A t1, t2, s : HasBefore(admin', t1, t2, s) =>
           HasBefore(admin, t1, t2, s) \/ (Is(c, t2, s) /\ \E d \in Elements(admin) : Is(d, t1, s))
  BY AppendOrder DEF SchedInv, SchedTypes
<1>2. Pipe' = Pipe \cup {c}
  BY <1>1 DEF Pipe
<1>3. \A t1, t2, s : Before(t1, t2, s)' => Before(t1, t2, s) \/ (Is(c, t2, s) /\ UnderWay(t1, s))
  BY <1>1 DEF Before, UnderWay, Pipe
<1>4. (\A s : Empty(s)' <=> Empty(s)) /\ \A p : Only(p)' <=> Only(p)
  BY DEF Empty, Only
<1>5. c.type = "remove" =>
        Only(c.peer) /\ (Empty(c.peer.store) => ~UnderWay("add", c.peer.store))
  BY DEF SchedInv, ViewsInv
<1>6. \A d \in Pipe' : d.type = "remove" => Only(d.peer)'
  BY <1>2, <1>4, <1>5 DEF SchedInv, OrderInv
<1>7. ASSUME NEW s \in CellStores, Empty(s)' PROVE ~Before("add", "remove", s)'
  BY <1>3, <1>4, <1>5, <1>7 DEF SchedInv, OrderInv, Is
<1>8. ASSUME NEW s \in CellStores, ~Empty(s)' PROVE ~Before("remove", "add", s)'
  BY <1>3, <1>4, <1>8 DEF SchedInv, OrderInv, Is
<1>9. \A p, q \in cellPeers' : p.store = q.store => p = q
  BY DEF SchedInv, OrderInv
<1>10. OrderInv'
  BY <1>6, <1>7, <1>8, <1>9 DEF OrderInv
<1> QED
  BY <1>1, <1>2, <1>10

\* A stale report is dropped.
LEMMA DroppedInv ==
  ASSUME SchedInv, report' = <<>>, SchedTypes',
         UNCHANGED <<cellPeers, voters, pd, op, nextPeerId, proposed, admin>>
  PROVE  SchedInv'
<1>1. ReportPeers' = {}
  BY DEF ReportPeers
<1>2. IdsInv'
  <2>1. Known' \subseteq Known
    BY <1>1 DEF Known, Pipe
  <2> QED
    BY <2>1 DEF SchedInv, IdsInv
<1>3. OrderInv'
  BY DEF SchedInv, OrderInv, Pipe, Only, Empty, Before
<1>4. ViewsInv'
  BY <1>1 DEF SchedInv, ViewsInv, SeesPeers, UnderWay, Pipe, Empty
<1> QED
  BY <1>2, <1>3, <1>4 DEF SchedInv, MembersAgree

\* The driver handles a report: dispatch, and the answer to the leader.
LEMMA HandleHeartbeatInv ==
  ASSUME SchedInv, NEW timeout \in BOOLEAN, HandleHeartbeat(timeout)
  PROVE  SchedInv'
<1>1. PICK cell : report = <<cell>> /\ cell.peers \subseteq Peers /\ cell.down \subseteq cell.peers
  BY DEF HandleHeartbeat, SchedInv, SchedTypes
<1>2. report # <<>> /\ report[1] = cell /\ ReportPeers = cell.peers
  BY <1>1 DEF ReportPeers
<1>3. UNCHANGED <<cellPeers, voters, proposed, upStores>> /\ report' = <<>>
  BY DEF HandleHeartbeat, cellVars
<1>4. ReportPeers' = {}
  BY <1>3 DEF ReportPeers
<1>5. CASE Stale(cell)
  <2>1. UNCHANGED <<pd, op, nextPeerId, admin>>
    BY <1>2, <1>5 DEF HandleHeartbeat
  <2>2. SchedTypes'
    BY <1>3, <2>1 DEF SchedInv, SchedTypes
  <2> QED
    BY <1>3, <2>1, <2>2, DroppedInv
<1>6. CASE ~Stale(cell)
  <2>1. /\ pd' = [peers |-> cell.peers, ver |-> cell.ver]
        /\ Dispatch(cell, timeout)
        /\ admin' = IF op' # NoOp /\ ToSend(op'.changes[1], cell) /\ cell.leader = cellLeader
                    THEN Append(admin, op'.changes[1]) ELSE admin
    BY <1>2, <1>6 DEF HandleHeartbeat
  <2>2. /\ OpStep(cell.peers) /\ OpType(op')
        /\ op'.changes # <<>> /\ op'.changes[1].type = "remove" => op'.changes[1].peer \in cell.peers
    BY <1>1, <2>1, DispatchStep DEF SchedInv
  <2>3. pd'.peers = cell.peers /\ SeesPeers(cell.peers)
    BY <1>2, <2>1 DEF SchedInv, ViewsInv
  <2>4. PICK c : c = op'.changes[1]
    OBVIOUS
  <2>5. ASSUME op' # NoOp PROVE c \in Changes /\ c \in Elements(op'.changes)
    <3>1. op'.changes \in Seq(Changes) /\ op'.changes # <<>>
      BY <2>2, <2>5, SMTT(30) DEF OpType
    <3>2. Len(op'.changes) \in Nat \ {0}
      BY <3>1, EmptySeq
    <3> QED
      BY <2>4, <3>1, <3>2, ElementOfSeq DEF Elements
  <2>6. \A d \in Elements(op'.changes) :
          d.type = "add" => (UnderWay("remove", d.peer.store) => Empty(d.peer.store))
    BY <1>1, <2>2, <2>3, OpStepViews DEF SchedInv
  <2>7. \A s : Empty(s)' <=> Empty(s)
    BY <1>3 DEF Empty
  <2>8. CASE admin' = admin
    <3>1. Pipe' = Pipe
      BY <1>3, <2>8 DEF Pipe
    <3>2. Known' \subseteq Known \cup {d.peer : d \in Elements(op'.changes)}
      BY <1>2, <1>3, <1>4, <2>3, <3>1 DEF Known
    <3>3. IdsInv' /\ nextPeerId' \in Nat
      BY <1>1, <1>2, <2>2, <3>2, OpStepIds DEF SchedInv, Known
    <3>4. OrderInv'
      BY <1>3, <2>8 DEF SchedInv, OrderInv, Pipe, Only, Empty, Before
    <3>5. SchedTypes'
      BY <1>1, <1>3, <2>2, <2>3, <2>8, <3>3, Zenon DEF SchedInv, SchedTypes
    <3>6. \A t, s : UnderWay(t, s)' <=> UnderWay(t, s)
      BY <3>1 DEF UnderWay
    <3>7. ViewsInv'
      BY <1>3, <1>4, <2>3, <2>6, <2>7, <3>6 DEF ViewsInv, SeesPeers
    <3> QED
      BY <1>3, <3>3, <3>4, <3>5, <3>7 DEF SchedInv, MembersAgree
  <2>9. CASE op' # NoOp /\ admin' = Append(admin, op'.changes[1])
    <3>1. c \in Changes /\ c \in Elements(op'.changes) /\ op'.changes # <<>>
      BY <2>2, <2>5, <2>9 DEF OpType
    <3>2. c.type = "remove" => c.peer \in ReportPeers
      BY <1>2, <2>2, <2>4, <3>1
    <3>3. OrderInv' /\ Pipe' = Pipe \cup {c} /\ admin' \in Seq(Changes)
      BY <1>3, <2>4, <2>6, <2>9, <3>1, <3>2, SentOrder
    <3>4. Known' \subseteq Known \cup {d.peer : d \in Elements(op'.changes)}
      BY <1>2, <1>3, <1>4, <2>3, <3>1, <3>3 DEF Known
    <3>5. IdsInv' /\ nextPeerId' \in Nat
      BY <1>1, <1>2, <2>2, <3>4, OpStepIds DEF SchedInv, Known
    <3>6. SchedTypes'
      BY <1>1, <1>3, <2>2, <2>3, <3>3, <3>5 DEF SchedInv, SchedTypes
    <3>7. \A s : UnderWay("remove", s)' <=> UnderWay("remove", s) \/ Is(c, "remove", s)
      BY <3>3 DEF UnderWay
    <3>8. SeesPeers(pd.peers)'
      BY <1>2, <2>3, <2>7, <3>2, <3>7 DEF SeesPeers, StoresOf, Is
    <3>9. c.type = "remove" => \A d \in Elements(op'.changes) : d.type # "add"
      <4>1. CASE \E d \in Changes : op'.changes = <<d>>
        BY <2>4, <4>1, FewElements
      <4>2. ASSUME NEW d \in Changes, NEW e \in Changes, op'.changes = <<d, e>>, e.type = "remove"
            PROVE  c = d /\ Elements(op'.changes) = {d, e}
        BY <2>4, <4>2, FewElements
      <4> QED
        BY <2>2, <3>1, <4>1, <4>2 DEF OpType
    <3>10. \A d \in Elements(op'.changes) :
             d.type = "add" => (UnderWay("remove", d.peer.store)' => Empty(d.peer.store)')
      BY <2>6, <2>7, <3>7, <3>9 DEF Is
    <3>11. ViewsInv'
      BY <1>3, <1>4, <3>8, <3>10 DEF ViewsInv
    <3> QED
      BY <1>3, <3>3, <3>5, <3>6, <3>11 DEF SchedInv, MembersAgree
  <2> QED
    BY <2>1, <2>8, <2>9
<1> QED
  BY <1>5, <1>6

\* An operator of a scheduler, made from the driver's cell; or a driver that has none.
LEMMA NewOperatorInv ==
  ASSUME SchedInv, BalanceCell \/ BalanceLeader \/ NewDriver
  PROVE  SchedInv'
<1>1. UNCHANGED <<cellPeers, voters, proposed, admin, report, pd, upStores>>
  BY DEF BalanceCell, BalanceLeader, NewDriver, cellVars
<1>2. pd.peers \in SUBSET Peers /\ nextPeerId \in Nat
  BY DEF SchedInv, SchedTypes
<1>3. OpStep(pd.peers) /\ OpType(op')
  <2>1. CASE BalanceCell
    <3>1. PICK s \in Best(pd.peers), p \in pd.peers :
            op' = [changes |-> <<AddPeer(s), Change1("remove", p)>>, timed |-> TRUE]
      BY <2>1, Zenon DEF BalanceCell
    <3>2. s \in CellStores \ StoresOf(pd.peers)
      BY DEF Best, SchedInv, SchedTypes
    <3>3. op'.changes = <<AddPeer(s), Change1("remove", p)>> /\ IsOp(op')
      BY <3>1, Zenon DEF IsOp
    <3>4. Made(op', pd.peers)
      BY <3>2, <3>3 DEF Made
    <3>5. nextPeerId' = nextPeerId + 1
      BY <2>1 DEF BalanceCell
    <3>6. PICK o : o = op'
      OBVIOUS
    <3>7. OpType(o)
      BY <1>2, <3>3, <3>4, <3>6, MadeChanges, Zenon DEF SchedInv
    <3> QED
      BY <3>3, <3>4, <3>5, <3>6, <3>7 DEF OpStep
  <2>2. CASE BalanceLeader
    <3>1. PICK p \in pd.peers : op' = [changes |-> <<Change1("transfer", p)>>, timed |-> TRUE]
      BY <2>2, Zenon DEF BalanceLeader
    <3>2. op'.changes = <<Change1("transfer", p)>> /\ IsOp(op')
      BY <3>1, Zenon DEF IsOp
    <3>3. Made(op', pd.peers)
      BY <3>2 DEF Made
    <3>4. nextPeerId' = nextPeerId
      BY <2>2 DEF BalanceLeader
    <3>5. PICK o : o = op'
      OBVIOUS
    <3>6. OpType(o)
      BY <1>2, <3>2, <3>3, <3>5, MadeChanges, Zenon DEF SchedInv
    <3>7. \A c \in Elements(op'.changes) : c.type # "add"
      BY <3>2, FewElements DEF Change1
    <3> QED
      BY <3>2, <3>3, <3>4, <3>5, <3>6, <3>7, Zenon DEF OpStep
  <2>3. CASE NewDriver
    <3>1. op' = NoOp /\ nextPeerId' = nextPeerId
      BY <2>3 DEF NewDriver
    <3>2. op'.changes = <<>> /\ OpType(op')
      BY <3>1 DEF NoOp, OpType
    <3> QED
      BY <3>1, <3>2, FewElements DEF OpStep
  <2> QED
    BY <2>1, <2>2, <2>3
<1>4. Pipe' = Pipe /\ ReportPeers' = ReportPeers
  BY <1>1 DEF Pipe, ReportPeers
<1>5. IdsInv' /\ nextPeerId' \in Nat
  <2>1. Known' \subseteq Known \cup {d.peer : d \in Elements(op'.changes)}
    BY <1>1, <1>4 DEF Known
  <2> QED
    BY <1>2, <1>3, <2>1, OpStepIds DEF SchedInv, Known
<1>6. SchedTypes'
  BY <1>1, <1>3, <1>5 DEF SchedInv, SchedTypes
<1>7. OrderInv'
  BY <1>1 DEF SchedInv, OrderInv, Pipe, Only, Empty, Before
<1>8. /\ \A t, s : UnderWay(t, s)' <=> UnderWay(t, s)
      /\ \A s : Empty(s)' <=> Empty(s)
      /\ \A p : Only(p)' <=> Only(p)
      /\ \A t1, t2, s : Before(t1, t2, s)' <=> Before(t1, t2, s)
  BY <1>1 DEF UnderWay, Pipe, Empty, Only, Before
<1>9. SeesPeers(pd.peers)
  BY DEF SchedInv, ViewsInv
<1>10. \A c \in Elements(op'.changes) :
         c.type = "add" => (UnderWay("remove", c.peer.store) => Empty(c.peer.store))
  BY <1>2, <1>3, <1>9, OpStepViews DEF SchedInv
<1>11. ViewsInv'
  BY <1>1, <1>4, <1>8, <1>10 DEF SchedInv, ViewsInv, SeesPeers
<1> QED
  BY <1>1, <1>5, <1>6, <1>7, <1>11 DEF SchedInv, MembersAgree

\* Every step keeps the invariant.
LEMMA SchedNextInv == SchedInv /\ [SchedNext]_schedVars => SchedInv'
<1> SUFFICES ASSUME SchedInv, [SchedNext]_schedVars PROVE SchedInv'
  OBVIOUS
<1>1. CASE SchedNext
  BY <1>1, SendHeartbeatInv, HandleHeartbeatInv, ProposeInv, ApplyChangeInv, NewLeaderInv,
     NewOperatorInv, OtherStepsInv DEF SchedNext
<1>2. CASE UNCHANGED schedVars
  <2>1. UNCHANGED <<cellPeers, voters, pd, op, report, nextPeerId, proposed, admin, upStores>>
    BY <1>2 DEF schedVars, cellVars
  <2>2. SchedTypes'
    BY <2>1 DEF SchedInv, SchedTypes
  <2>3. Fewer
    BY <2>1 DEF Fewer, Pipe, Before
  <2> QED
    BY <2>1, <2>2, <2>3, FewerKeeps
<1> QED
  BY <1>1, <1>2

\* The peers of a cell's metadata are the members of its raft group, however the driver's
\* answers are delayed, lost with a leader or overtaken, operators time out and drivers
\* change: doExecChangePeer looks a peer up by its store, and it is the one that raft
\* removes by its id.
THEOREM CellMembersAgree == SchedSpec => []MembersAgree
<1>1. SchedInit => SchedInv
  BY SchedInitInv
<1>2. SchedInv /\ [SchedNext]_schedVars => SchedInv'
  BY SchedNextInv
<1>3. SchedInv => MembersAgree
  BY DEF SchedInv
<1> QED
  BY <1>1, <1>2, <1>3, PTL DEF SchedSpec
=============================================================================
