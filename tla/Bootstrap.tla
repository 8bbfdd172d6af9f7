------------------------------ MODULE Bootstrap -----------------------------
(***************************************************************************)
(* The start of the nodes of a new cluster: each asks the driver whether   *)
(* the cluster is bootstrapped, gives its store an identity, and, if the   *)
(* cluster is not, writes the first cells to its own disk and offers them  *)
(* to the driver.  Nodes start at the same time, crash between any two     *)
(* steps and are started again; the driver changes its leader.             *)
(*                                                                         *)
(* A cell is a record of its id, the store that holds its only peer and    *)
(* the part of the key space it covers: bootstrapCells cuts the key space  *)
(* in InitCellCount parts.                                                 *)
(***************************************************************************)
EXTENDS Integers, FiniteSets

CONSTANTS
  Nodes,            \* the nodes that are started
  InitCellCount,    \* the first cells the driver asks for
  MaxBootEvents     \* bound on crashes, lost answers and changes of PD's leader

ASSUME BootAssumption == InitCellCount \in Nat \ {0} /\ MaxBootEvents \in Nat

VARIABLES
  step,          \* where each node is in Start
  bootstrapped,  \* each node: the answer of checkClusterBootstrapped
  ident,         \* each disk: the StoreIdent's id, 0 if there is none
  disk,          \* each disk: the cells saved by createCell
  made,          \* each node: the cells this Start has made
  recorded,      \* etcd: the set of first cells, empty until the cluster's key exists
  registered,    \* etcd: the stores put by putStore or by the bootstrap
  running,       \* the leading PD server: the cluster is loaded
  lastId,        \* the last id the driver allocated
  bootEvents     \* crashes, lost answers and changes of leader so far

bootVars == <<step, bootstrapped, ident, disk, made, recorded, registered, running,
              lastId, bootEvents>>

Parts == 1..InitCellCount

Goes(n, s) == step' = [step EXCEPT ![n] = s]

BootInit ==
  /\ step = [n \in Nodes |-> "check"]
  /\ bootstrapped = [n \in Nodes |-> FALSE]
  /\ ident = [n \in Nodes |-> 0]
  /\ disk = [n \in Nodes |-> {}]
  /\ made = [n \in Nodes |-> {}]
  /\ recorded = {} /\ registered = {} /\ running = FALSE
  /\ lastId = 0 /\ bootEvents = 0

-----------------------------------------------------------------------------
\* checkClusterBootstrapped: the leading driver answers with its running flag.
CheckClusterBootstrapped(n) ==
  /\ step[n] = "check"
  /\ bootstrapped' = [bootstrapped EXCEPT ![n] = running]
  /\ Goes(n, "ident")
  /\ UNCHANGED <<ident, disk, made, recorded, registered, running, lastId, bootEvents>>

AfterIdent(n) == IF bootstrapped[n] THEN "start" ELSE "cells"

\* checkStore and the case of a store that has an identity: it is fatal if the
\* cluster is not bootstrapped.
KnownStore_Continues(n) ==
  /\ step[n] = "ident" /\ ident[n] # 0
  /\ Goes(n, AfterIdent(n))
  /\ UNCHANGED <<bootstrapped, ident, disk, made, recorded, registered, running, lastId, bootEvents>>
KnownStore(n) ==
  /\ step[n] = "ident" /\ ident[n] # 0
  /\ Goes(n, IF bootstrapped[n] THEN "start" ELSE "fatal")
  /\ UNCHANGED <<bootstrapped, ident, disk, made, recorded, registered, running, lastId, bootEvents>>

\* bootstrapStore: an id is allocated, the engine must be empty and the
\* identity is written.  A crash before the write wastes the id.
BootstrapStore(n) ==
  /\ step[n] = "ident" /\ ident[n] = 0
  /\ lastId' = lastId + 1
  /\ IF disk[n] # {}
     THEN Goes(n, "fatal") /\ UNCHANGED ident
     ELSE ident' = [ident EXCEPT ![n] = lastId + 1] /\ Goes(n, AfterIdent(n))
  /\ UNCHANGED <<bootstrapped, disk, made, recorded, registered, running, bootEvents>>

\* createCell: two ids are allocated and the cell is saved on the node's disk.
CreateCell(n) ==
  /\ step[n] = "cells"
  /\ LET part == Cardinality(made[n]) + 1
         cell == [id |-> lastId + 1, store |-> ident[n], part |-> part]
     IN /\ made' = [made EXCEPT ![n] = @ \cup {cell}]
        /\ disk' = [disk EXCEPT ![n] = @ \cup {cell}]
        /\ Goes(n, IF part = InitCellCount THEN "cluster" ELSE "cells")
  /\ lastId' = lastId + 2
  /\ UNCHANGED <<bootstrapped, ident, recorded, registered, running, bootEvents>>

\* PD's bootstrapCluster up to doBootstrap: nothing more if the cluster runs,
\* otherwise one transaction that succeeds for the first only.
DoBootstrap(n) ==
  /\ step[n] = "cluster"
  /\ IF ~running /\ recorded = {}
     THEN recorded' = made[n] /\ registered' = registered \cup {ident[n]}
     ELSE UNCHANGED <<recorded, registered>>
  /\ Goes(n, IF running THEN "start" ELSE "load")
  /\ UNCHANGED <<bootstrapped, ident, disk, made, running, lastId, bootEvents>>

\* cluster.start at the end of bootstrapCluster, whoever won; the node takes
\* AlreadyBootstrapped as success.
StartCluster_WinnerOnly(n) ==
  /\ step[n] = "load"
  /\ running' = (running \/ recorded = made[n])
  /\ Goes(n, "start")
  /\ UNCHANGED <<bootstrapped, ident, disk, made, recorded, registered, lastId, bootEvents>>
StartCluster(n) ==
  /\ step[n] = "load"
  /\ running' = (recorded # {})
  /\ Goes(n, "start")
  /\ UNCHANGED <<bootstrapped, ident, disk, made, recorded, registered, lastId, bootEvents>>

\* startStore: the store serves every cell on its disk; putStore follows.
StartStore(n) ==
  /\ step[n] = "start"
  /\ Goes(n, "put")
  /\ UNCHANGED <<bootstrapped, ident, disk, made, recorded, registered, running, lastId, bootEvents>>

\* putStore: refused, and then fatal, while the cluster is not loaded.
PutStore(n) ==
  /\ step[n] = "put"
  /\ IF running
     THEN registered' = registered \cup {ident[n]} /\ Goes(n, "serving")
     ELSE Goes(n, "fatal") /\ UNCHANGED registered
  /\ UNCHANGED <<bootstrapped, ident, disk, made, recorded, running, lastId, bootEvents>>

-----------------------------------------------------------------------------
BootEvent == bootEvents < MaxBootEvents /\ bootEvents' = bootEvents + 1

\* The process ends; so does a node that loses the answer of an RPC.
NodeEnds(n) ==
  /\ BootEvent
  /\ step[n] \notin {"fatal", "down"}
  /\ Goes(n, "down")
  /\ UNCHANGED <<bootstrapped, ident, disk, made, recorded, registered, running, lastId>>

\* The node is started again on the same disk.
NodeRestarts(n) ==
  /\ step[n] \in {"fatal", "down"}
  /\ Goes(n, "check")
  /\ made' = [made EXCEPT ![n] = {}]
  /\ UNCHANGED <<bootstrapped, ident, disk, recorded, registered, running, lastId, bootEvents>>

\* Another PD server leads: enableLeader answers requests before it has loaded
\* the cluster.
ChangeLeader ==
  /\ BootEvent
  /\ running' = FALSE
  /\ UNCHANGED <<step, bootstrapped, ident, disk, made, recorded, registered, lastId>>

EnableLeader ==
  /\ ~running /\ recorded # {}
  /\ running' = TRUE
  /\ UNCHANGED <<step, bootstrapped, ident, disk, made, recorded, registered, lastId, bootEvents>>

\* The goroutine of Start, with the handlers it calls.
StartSteps(n) ==
  \/ CheckClusterBootstrapped(n) \/ KnownStore(n) \/ BootstrapStore(n) \/ CreateCell(n)
  \/ DoBootstrap(n) \/ StartCluster(n) \/ StartStore(n) \/ PutStore(n)

BootNext ==
  \/ \E n \in Nodes : StartSteps(n) \/ NodeEnds(n) \/ NodeRestarts(n)
  \/ ChangeLeader \/ EnableLeader

BootFairness == \A n \in Nodes : WF_bootVars(StartSteps(n))

BootSpec == BootInit /\ [][BootNext]_bootVars /\ BootFairness

-----------------------------------------------------------------------------
\* No store ever holds two first cells of one part of the key space, however
\* often its node was stopped between the identity, the cells and the answer
\* of the driver and started again (Start's test that a store with an identity
\* needs a bootstrapped cluster).
FirstCellsDisjoint ==
  \A n \in Nodes : \A c, d \in disk[n] : c.part = d.part => c = d

\* Nodes started at the same time all come up, whoever bootstraps the cluster,
\* as long as no process ends and the driver keeps its leader (bootstrapCluster
\* of the driver loads the cluster also for a node that came second).
NodesStart ==
  [](bootEvents = 0) => <>(\A n \in Nodes : step[n] = "serving")

\* A store serves no first cell but those the driver recorded: the comment in
\* bootstrapCluster says that one node succeeds and that the others delete
\* their local cells.
OnlyRecordedServed ==
  \A n \in Nodes : step[n] = "serving" => disk[n] \subseteq recorded
=============================================================================
