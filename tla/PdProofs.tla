------------------------------ MODULE PdProofs ------------------------------
(***************************************************************************)
(* Proofs about the placement driver: for any set of servers and any batch *)
(* size the types of PdLeader hold and no id is handed out twice; and for  *)
(* any nodes, any number of first cells, of crashes and of changes of the  *)
(* driver's leader, the nodes that start a new cluster (Bootstrap) never   *)
(* hold two first cells of one part of the key space.                      *)
(***************************************************************************)
EXTENDS PdLeader, Bootstrap, FiniteSetTheorems, TLAPS

(***************************************************************************)
(* The servers and their ids.                                              *)
(***************************************************************************)
\* A server's window lies below the id key.
Windows == \A s \in Servers : base[s] <= end[s] /\ end[s] <= idKey

\* Two servers never hold the same reserved id.
Disjoint ==
  \A s, t \in Servers :
     s # t => base[s] = end[s] \/ base[t] = end[t] \/ end[s] <= base[t] \/ end[t] <= base[s]

\* What was handed out is reserved in etcd and in nobody's window any more.
Spent ==
  \A a \in issued : a[1] <= idKey /\ \A s \in Servers : a[1] <= base[s] \/ a[1] > end[s]

\* IdsUnique alone is not inductive: a new id must be known to be unspent.
IndInv == TypeOK /\ IsFiniteSet(issued) /\ Windows /\ Disjoint /\ Spent /\ IdsUnique

-----------------------------------------------------------------------------

\* Handing out an id keeps issued a finite set of pairs of numbers.
LEMMA IssueType ==
  ASSUME NEW id \in Nat, issued \subseteq Nat \X Nat, IsFiniteSet(issued), Issue(id)
  PROVE  issued' \subseteq Nat \X Nat /\ IsFiniteSet(issued')
<1>1. Cardinality(issued) \in Nat
  BY FS_CardinalityType
<1>2. IsFiniteSet(issued \cup {<<id, Cardinality(issued)>>})
  BY FS_AddElement
<1> QED
  BY <1>1, <1>2 DEF Issue

\* An empty etcd and servers that just started satisfy the inductive invariant.
LEMMA InitInd == Init => IndInv
<1> SUFFICES ASSUME Init PROVE IndInv
  OBVIOUS
<1>1. IsFiniteSet(issued)
  BY FS_EmptySet DEF Init
<1>2. TypeOK
  BY DEF Init, TypeOK, Loop
<1>3. Windows /\ Disjoint /\ Spent /\ IdsUnique
  BY DEF Init, Windows, Disjoint, Spent, IdsUnique
<1> QED
  BY <1>1, <1>2, <1>3 DEF IndInv

\* A step that leaves the allocator alone keeps everything but the loop's types.
LEMMA AllocUnchanged ==
  ASSUME IndInv, UNCHANGED allocVars, TypeOK'
  PROVE  IndInv'
BY DEF IndInv, allocVars, Windows, Disjoint, Spent, IdsUnique

\* An etcd update that reserves a batch for nobody keeps the invariant.
LEMMA ReserveOnly ==
  ASSUME IndInv, TypeOK', idKey' >= idKey, UNCHANGED <<base, end, issued>>
  PROVE  IndInv'
BY DEF IndInv, TypeOK, Windows, Disjoint, Spent, IdsUnique

\* A fresh id: handing out one that is not spent keeps the ids unique.
LEMMA IssueUnique ==
  ASSUME NEW id, IdsUnique, Issue(id), \A a \in issued : a[1] # id
  PROVE  IdsUnique'
BY DEF IdsUnique, Issue

\* The leader loop never touches the allocator.
LEMMA LoopInd ==
  ASSUME IndInv, NEW s \in Servers, LeaderLoop(s)
  PROVE  IndInv'
<1> USE ServersAssumption DEF IndInv, TypeOK, Loop
<1>1. UNCHANGED allocVars
  BY DEF LeaderLoop, GetCurrentLeader, ResignLeader, WatchLeader, CampaignLeader,
         enableLeader, disableLeader
<1>2. CASE GetCurrentLeader(s)
  <2>1. TypeOK'
    BY <1>2 DEF GetCurrentLeader, AfterRemoveWatchers, allocVars
  <2> QED BY <1>1, <2>1, AllocUnchanged
<1>3. CASE ResignLeader(s)
  <2>1. TypeOK'
    BY <1>3 DEF ResignLeader, NotifyDelete, allocVars
  <2> QED BY <1>1, <2>1, AllocUnchanged
<1>4. CASE WatchLeader(s)
  <2>1. TypeOK'
    BY <1>4 DEF WatchLeader, allocVars
  <2> QED BY <1>1, <2>1, AllocUnchanged
<1>5. CASE CampaignLeader(s)
  <2>1. TypeOK'
    BY <1>5 DEF CampaignLeader, Fault, allocVars
  <2> QED BY <1>1, <2>1, AllocUnchanged
<1>6. CASE enableLeader(s)
  <2>1. watchers' \in [Servers -> BOOLEAN]
    BY <1>6, Zenon DEF enableLeader
  <2>2. TypeOK'
    BY <1>6, <2>1 DEF enableLeader, allocVars
  <2> QED BY <1>1, <2>2, AllocUnchanged
<1>7. CASE disableLeader(s)
  <2>1. TypeOK'
    BY <1>7 DEF disableLeader, Fault, allocVars
  <2> QED BY <1>1, <2>1, AllocUnchanged
<1> QED
  BY <1>2, <1>3, <1>4, <1>5, <1>6, <1>7 DEF LeaderLoop

\* An expired lease takes the leader key and nothing else.
LEMMA ExpireInd == ASSUME IndInv, ExpireLease PROVE IndInv'
<1>1. UNCHANGED allocVars
  BY DEF ExpireLease
<1>2. TypeOK'
  BY ServersAssumption DEF IndInv, TypeOK, Loop, ExpireLease, NotifyDelete, Fault, allocVars
<1> QED
  BY <1>1, <1>2, AllocUnchanged

\* A crash forgets a window: its ids are lost, not handed out again.
LEMMA CrashInd == ASSUME IndInv, NEW s \in Servers, Crash(s) PROVE IndInv'
<1> USE ServersAssumption DEF IndInv, Crash, etcd
<1>1. TypeOK'
  BY DEF TypeOK, Loop, Fault
<1>2. \A t \in Servers : /\ t # s => base'[t] = base[t] /\ end'[t] = end[t]
                         /\ t = s => base'[t] = 0 /\ end'[t] = 0
  BY DEF TypeOK
<1>3. Windows' /\ Disjoint'
  BY <1>2 DEF TypeOK, Windows, Disjoint
<1>4. Spent'
  <2> SUFFICES ASSUME NEW a \in issued, NEW t \in Servers
               PROVE  a[1] <= idKey /\ (a[1] <= base'[t] \/ a[1] > end'[t])
    BY DEF Spent
  <2>1. a[1] \in Nat
    BY DEF TypeOK
  <2> QED BY <1>2, <2>1 DEF Spent
<1> QED
  BY <1>1, <1>3, <1>4 DEF IdsUnique

\* The next id of a window is in no other window and was never handed out.
LEMMA NewIdInd == ASSUME IndInv, NEW s \in Servers, newID(s) PROVE IndInv'
<1> DEFINE id == base[s] + 1
<1> USE DEF IndInv
<1>1. /\ base[s] \in Nat /\ end[s] \in Nat /\ idKey \in Nat
      /\ id \in Nat /\ id <= end[s] /\ end[s] <= idKey /\ Issue(id)
  BY DEF newID, Windows, TypeOK
<1>2. /\ \A t \in Servers : t # s => base'[t] = base[t]
      /\ base'[s] = id /\ end' = end /\ idKey' = idKey
  BY DEF newID, TypeOK
<1>3. issued' \subseteq Nat \X Nat /\ IsFiniteSet(issued')
  BY <1>1, IssueType DEF TypeOK
<1>4. TypeOK'
  BY <1>1, <1>3 DEF newID, TypeOK, loopVars
<1>5. \A a \in issued : a[1] # id
  BY <1>1 DEF Spent, TypeOK
<1>6. Windows' /\ Disjoint'
  BY <1>1, <1>2 DEF TypeOK, Windows, Disjoint, newID
<1>7. Spent'
  <2> SUFFICES ASSUME NEW a \in issued', NEW t \in Servers
               PROVE  a[1] <= idKey' /\ (a[1] <= base'[t] \/ a[1] > end'[t])
    BY DEF Spent
  <2>1. a[1] \in Nat /\ base[t] \in Nat /\ end[t] \in Nat
    BY <1>3 DEF TypeOK
  <2>2. CASE a \in issued
    BY <1>1, <1>2, <2>1, <2>2 DEF Spent
  <2>3. CASE a[1] = id
    BY <1>1, <1>2, <2>1, <2>3 DEF Disjoint, newID
  <2> QED
    BY <1>1, <2>2, <2>3 DEF Issue
<1>8. IdsUnique'
  BY <1>1, <1>5, IssueUnique
<1> QED
  BY <1>3, <1>4, <1>6, <1>7, <1>8

\* Reading the id key reserves nothing.
LEMMA GetIdInd == ASSUME IndInv, NEW s \in Servers, GetID(s) PROVE IndInv'
<1>1. TypeOK'
  BY DEF IndInv, TypeOK, GetID, loopVars
<1> QED
  BY <1>1, ReserveOnly DEF GetID, IndInv, TypeOK

\* A reservation succeeds only when the key still holds what was read: the new
\* window starts above everything reserved before.
LEMMA UpdateIdInd == ASSUME IndInv, NEW s \in Servers, UpdateID(s) PROVE IndInv'
<1> DEFINE id == idKey + 1
<1> USE BatchAssumption DEF IndInv
<1>1. seen[s] = idKey /\ idKey \in Nat /\ idKey' = idKey + Batch /\ idKey' \in Nat
      /\ id \in Nat /\ id <= idKey' /\ Issue(id)
  BY DEF UpdateID, leaderTxn, TypeOK
<1>2. /\ \A t \in Servers : t # s => base'[t] = base[t] /\ end'[t] = end[t]
      /\ base'[s] = id /\ end'[s] = idKey'
  BY <1>1 DEF UpdateID, TypeOK
<1>3. issued' \subseteq Nat \X Nat /\ IsFiniteSet(issued')
  BY <1>1, IssueType DEF TypeOK
<1>4. TypeOK'
  BY <1>1, <1>3 DEF UpdateID, TypeOK, loopVars
<1>5. \A a \in issued : a[1] \in Nat /\ a[1] <= idKey /\ a[1] # id
  BY <1>1 DEF Spent, TypeOK
<1>6. \A t \in Servers : /\ base[t] \in Nat /\ end[t] \in Nat
                         /\ base[t] <= end[t] /\ end[t] <= idKey
  BY DEF Windows, TypeOK
<1>7. Windows'
  BY <1>1, <1>2, <1>6 DEF Windows
<1>8. Disjoint'
  BY <1>1, <1>2, <1>6 DEF Disjoint
<1>9. Spent'
  <2> SUFFICES ASSUME NEW a \in issued', NEW t \in Servers
               PROVE  a[1] <= idKey' /\ (a[1] <= base'[t] \/ a[1] > end'[t])
    BY DEF Spent
  <2>1. CASE a \in issued
    BY <1>1, <1>2, <1>5, <1>6, <2>1 DEF Spent
  <2>2. CASE a[1] = id
    BY <1>1, <1>2, <1>6, <2>2
  <2> QED
    BY <1>1, <2>1, <2>2 DEF Issue
<1>10. IdsUnique'
  BY <1>1, <1>5, IssueUnique
<1> QED
  BY <1>3, <1>4, <1>7, <1>8, <1>9, <1>10

\* A failed update reserves a batch for nobody, or nothing.
LEMMA UpdateIdFailsInd == ASSUME IndInv, NEW s \in Servers, UpdateIDFails(s) PROVE IndInv'
<1>1. idKey' \in Nat /\ idKey' >= idKey
  BY BatchAssumption DEF IndInv, TypeOK, UpdateIDFails, leaderTxn, Fault
<1>2. TypeOK'
  BY <1>1 DEF IndInv, TypeOK, UpdateIDFails, Fault, loopVars
<1> QED
  BY <1>1, <1>2, ReserveOnly DEF UpdateIDFails

\* Every step keeps the inductive invariant.
LEMMA NextInd == IndInv /\ [Next]_vars => IndInv'
<1> SUFFICES ASSUME IndInv, [Next]_vars PROVE IndInv'
  OBVIOUS
<1>1. CASE ExpireLease
  BY <1>1, ExpireInd
<1>2. ASSUME NEW s \in Servers, LeaderLoop(s) \/ Crash(s) \/ Alloc(s) PROVE IndInv'
  BY <1>2, LoopInd, CrashInd, NewIdInd, GetIdInd, UpdateIdInd, UpdateIdFailsInd DEF Alloc
<1>3. CASE UNCHANGED vars
  BY <1>3 DEF vars, IndInv, TypeOK, Windows, Disjoint, Spent, IdsUnique
<1> QED
  BY <1>1, <1>2, <1>3 DEF Next

\* PdLeader is type correct for any servers, batch size and faults.
THEOREM TypeCorrect == Spec => []TypeOK
<1>1. IndInv => TypeOK
  BY DEF IndInv
<1> QED
  BY <1>1, InitInd, NextInd, PTL DEF Spec

\* No id is ever handed out twice by the PD servers together: idAllocator's windows
\* are reserved by a compare-and-swap on the id key and stay disjoint, whoever
\* leads, whatever answers are lost and whoever restarts.
THEOREM IdsAreUnique == Spec => []IdsUnique
<1>1. IndInv => IdsUnique
  BY DEF IndInv
<1> QED
  BY <1>1, InitInd, NextInd, PTL DEF Spec

(***************************************************************************)
(* The start of a new cluster.                                             *)
(*                                                                         *)
(* FirstCellsDisjoint is not inductive: what keeps a second round of       *)
(* createCell from a disk that has cells is that a disk with cells has an  *)
(* identity, and that a node reaches createCell only through the write of  *)
(* the identity.                                                           *)
(***************************************************************************)
Steps == {"check", "ident", "cells", "cluster", "load", "start", "put", "serving",
          "fatal", "down"}

Cells == [id : Nat, store : Nat, part : Nat]

\* The types the proof needs; `made` and `disk` hold cells.
BootTypes ==
  /\ step \in [Nodes -> Steps]
  /\ ident \in [Nodes -> Nat]
  /\ disk \in [Nodes -> SUBSET Cells]
  /\ made \in [Nodes -> SUBSET Cells]
  /\ lastId \in Nat

\* While a node makes its cells, its disk holds those of this Start and no
\* other, numbered without a gap.
CellsNumbered(n) ==
  /\ disk[n] = made[n]
  /\ Cardinality(made[n]) < InitCellCount
  /\ \A c \in made[n] : c.part \in 1..Cardinality(made[n])

\* The inductive invariant, for one node.
BootInd(n) ==
  /\ IsFiniteSet(made[n])
  /\ ident[n] = 0 => disk[n] = {} /\ step[n] \in {"check", "ident", "fatal", "down"}
  /\ step[n] \in {"check", "ident"} => made[n] = {}
  /\ step[n] = "cells" => CellsNumbered(n)
  /\ \A c, d \in disk[n] : c.part = d.part => c = d

BootInv == BootTypes /\ \A n \in Nodes : BootInd(n)

-----------------------------------------------------------------------------
\* A new cluster starts with empty disks and no identity.
LEMMA BootInitInv == BootInit => BootInv
<1> SUFFICES ASSUME BootInit PROVE BootInv
  OBVIOUS
<1>1. BootTypes
  BY DEF BootInit, BootTypes, Steps
<1>2. ASSUME NEW n \in Nodes PROVE BootInd(n)
  BY FS_EmptySet DEF BootInit, BootInd
<1> QED
  BY <1>1, <1>2 DEF BootInv

\* A step of one node leaves the disk, the identity and the place of the others.
LEMMA OthersKeep ==
  ASSUME BootInv, NEW n \in Nodes, NEW m \in Nodes, m # n,
         step'[m] = step[m], ident'[m] = ident[m], disk'[m] = disk[m], made'[m] = made[m]
  PROVE  BootInd(m)'
<1>1. BootInd(m)
  BY DEF BootInv
<1> QED
  BY <1>1 DEF BootInd, CellsNumbered

\* bootstrapStore writes an identity only to an empty disk, and the loop of
\* createCell begins with nothing made.
LEMMA BootstrapStoreInv ==
  ASSUME BootInv, NEW n \in Nodes, BootstrapStore(n)
  PROVE  BootInv'
<1>1. BootTypes /\ BootInd(n)
  BY DEF BootInv
<1>2. BootTypes'
  BY <1>1 DEF BootTypes, BootstrapStore, Goes, AfterIdent, Steps
<1>3. BootInd(n)'
  <2>1. made[n] = {} /\ disk[n] = {} /\ made' = made /\ disk' = disk
    BY <1>1 DEF BootstrapStore, BootInd
  <2>2. ident'[n] = lastId + 1 /\ step'[n] \in {"start", "cells"}
    BY <1>1, <2>1 DEF BootTypes, BootstrapStore, Goes, AfterIdent
  <2>3. Cardinality(made[n]) = 0
    BY <2>1, FS_EmptySet
  <2>4. lastId + 1 # 0
    BY <1>1 DEF BootTypes
  <2> QED
    <3>1. IsFiniteSet(made'[n]) /\ made'[n] = {} /\ disk'[n] = {} /\ ident'[n] # 0
      BY <2>1, <2>2, <2>4, FS_EmptySet
    <3>2. CellsNumbered(n)'
      BY <2>1, <2>3, BootAssumption DEF CellsNumbered
    <3> QED
      BY <2>2, <3>1, <3>2 DEF BootInd
<1>4. ASSUME NEW m \in Nodes, m # n PROVE BootInd(m)'
  BY <1>1, <1>4, OthersKeep DEF BootTypes, BootstrapStore, Goes
<1> QED
  BY <1>2, <1>3, <1>4 DEF BootInv

\* createCell adds a cell of the next part, the only one of that part.
LEMMA CreateCellInv ==
  ASSUME BootInv, NEW n \in Nodes, CreateCell(n)
  PROVE  BootInv'
<1>1. BootTypes /\ BootInd(n)
  BY DEF BootInv
<1>2. step[n] = "cells" /\ ident[n] # 0 /\ CellsNumbered(n) /\ IsFiniteSet(made[n])
  BY <1>1 DEF CreateCell, BootInd
<1> DEFINE part == Cardinality(made[n]) + 1
           cell == [id |-> lastId + 1, store |-> ident[n], part |-> part]
<1>3. Cardinality(made[n]) \in Nat /\ part \in Nat
  BY <1>2, FS_CardinalityType
<1>4. /\ made' = [made EXCEPT ![n] = made[n] \cup {cell}]
      /\ disk' = [disk EXCEPT ![n] = disk[n] \cup {cell}]
      /\ step' = [step EXCEPT ![n] = IF part = InitCellCount THEN "cluster" ELSE "cells"]
      /\ lastId' = lastId + 2
      /\ UNCHANGED ident
  BY DEF CreateCell, Goes
<1>5. cell \in Cells /\ cell.part = part
  BY <1>1, <1>3 DEF BootTypes, Cells
<1> HIDE DEF part, cell
<1>6. BootTypes'
  BY <1>1, <1>4, <1>5 DEF BootTypes, Steps
<1>7. /\ made'[n] = made[n] \cup {cell} /\ disk'[n] = made[n] \cup {cell}
      /\ step'[n] = IF part = InitCellCount THEN "cluster" ELSE "cells"
      /\ ident'[n] # 0
  BY <1>1, <1>2, <1>4 DEF BootTypes, CellsNumbered
<1>8. cell \notin made[n]
  BY <1>2, <1>3, <1>5 DEF CellsNumbered, part
<1>9. IsFiniteSet(made'[n]) /\ Cardinality(made'[n]) = part
  <2>1. /\ IsFiniteSet(made[n] \cup {cell})
        /\ Cardinality(made[n] \cup {cell}) = Cardinality(made[n]) + 1
    BY <1>2, <1>8, FS_AddElement
  <2> QED
    BY <1>7, <2>1 DEF part
<1>10. \A c \in made'[n] : c.part \in 1..part
  BY <1>2, <1>3, <1>5, <1>7 DEF CellsNumbered, part
<1>11. \A c, d \in disk'[n] : c.part = d.part => c = d
  <2>1. \A c \in made[n] : c.part # part
    BY <1>2, <1>3 DEF CellsNumbered, part
  <2>2. \A c, d \in made[n] : c.part = d.part => c = d
    BY <1>1, <1>2 DEF BootInd, CellsNumbered
  <2> QED
    BY <2>1, <2>2, <1>5, <1>7
<1>12. step'[n] = "cells" => CellsNumbered(n)'
  <2>1. part # InitCellCount => part < InitCellCount
    BY <1>2, <1>3, BootAssumption DEF CellsNumbered, part
  <2> QED
    BY <2>1, <1>7, <1>9, <1>10 DEF CellsNumbered
<1>13. BootInd(n)'
  BY <1>7, <1>9, <1>11, <1>12 DEF BootInd
<1>14. ASSUME NEW m \in Nodes, m # n PROVE BootInd(m)'
  BY <1>1, <1>4, <1>14, OthersKeep DEF BootTypes
<1> QED
  BY <1>6, <1>13, <1>14 DEF BootInv

\* Every other step of Start moves the node on with its disk as it was.
LEMMA MovesOnInv ==
  ASSUME BootInv, NEW n \in Nodes,
         \/ CheckClusterBootstrapped(n) \/ KnownStore(n) \/ DoBootstrap(n) \/ StartCluster(n)
         \/ StartStore(n) \/ PutStore(n) \/ NodeEnds(n)
  PROVE  BootInv'
<1>1. BootTypes /\ BootInd(n)
  BY DEF BootInv
<1>2. /\ UNCHANGED <<ident, disk, made, lastId>>
      /\ \E s \in Steps \ {"cells"} :
           /\ step' = [step EXCEPT ![n] = s]
           /\ ident[n] = 0 => s \in {"check", "ident", "fatal", "down"}
           /\ s \in {"check", "ident"} => step[n] \in {"check", "ident"}
  BY <1>1 DEF CheckClusterBootstrapped, KnownStore, DoBootstrap, StartCluster, StartStore,
              PutStore, NodeEnds, Goes, Steps, BootInd
<1>3. BootTypes'
  BY <1>1, <1>2 DEF BootTypes
<1>4. BootInd(n)'
  BY <1>1, <1>2 DEF BootTypes, BootInd
<1>5. ASSUME NEW m \in Nodes, m # n PROVE BootInd(m)'
  BY <1>1, <1>2, <1>5, OthersKeep DEF BootTypes
<1> QED
  BY <1>3, <1>4, <1>5 DEF BootInv

\* A restart forgets what this Start has made and keeps the disk.
LEMMA NodeRestartsInv ==
  ASSUME BootInv, NEW n \in Nodes, NodeRestarts(n)
  PROVE  BootInv'
<1>1. BootTypes /\ BootInd(n)
  BY DEF BootInv
<1>2. BootTypes'
  BY <1>1 DEF BootTypes, NodeRestarts, Goes, Steps
<1>3. BootInd(n)'
  BY <1>1, FS_EmptySet DEF BootTypes, NodeRestarts, Goes, BootInd
<1>4. ASSUME NEW m \in Nodes, m # n PROVE BootInd(m)'
  BY <1>1, <1>4, OthersKeep DEF BootTypes, NodeRestarts, Goes
<1> QED
  BY <1>2, <1>3, <1>4 DEF BootInv

\* A step that leaves the nodes alone preserves the invariant.
LEMMA NodesKeep ==
  ASSUME BootInv, UNCHANGED <<step, ident, disk, made, lastId>>
  PROVE  BootInv'
BY DEF BootInv, BootTypes, BootInd, CellsNumbered

\* No store ever holds two first cells of one part of the key space, for any
\* nodes, any number of first cells and any number of crashes (Start,
\* bootstrapStore, createCell).
THEOREM FirstCellsAreDisjoint == BootSpec => []FirstCellsDisjoint
<1>1. BootInv /\ [BootNext]_bootVars => BootInv'
  <2> SUFFICES ASSUME BootInv, [BootNext]_bootVars PROVE BootInv'
    OBVIOUS
  <2>1. ASSUME NEW n \in Nodes, StartSteps(n) PROVE BootInv'
    BY <2>1, BootstrapStoreInv, CreateCellInv, MovesOnInv DEF StartSteps
  <2>2. ASSUME NEW n \in Nodes, NodeEnds(n) PROVE BootInv'
    BY <2>2, MovesOnInv
  <2>3. ASSUME NEW n \in Nodes, NodeRestarts(n) PROVE BootInv'
    BY <2>3, NodeRestartsInv
  <2>4. CASE ChangeLeader
    BY <2>4, NodesKeep DEF ChangeLeader
  <2>5. CASE EnableLeader
    BY <2>5, NodesKeep DEF EnableLeader
  <2>6. CASE UNCHANGED bootVars
    BY <2>6, NodesKeep DEF bootVars
  <2> QED
    BY <2>1, <2>2, <2>3, <2>4, <2>5, <2>6 DEF BootNext
<1>2. BootInv => FirstCellsDisjoint
  BY DEF BootInv, BootInd, FirstCellsDisjoint
<1> QED
  BY BootInitInv, <1>1, <1>2, PTL DEF BootSpec
=============================================================================
