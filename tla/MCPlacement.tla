----------------------------- MODULE MCPlacement ----------------------------
(***************************************************************************)
(* Instances of PdLeader, Scheduling and Bootstrap.  A behaviour is one of *)
(* the driver servers, of a cell under one leading driver, or of the nodes *)
(* of a new cluster: the parts that are not there stay in a final state.   *)
(***************************************************************************)
EXTENDS PdLeader, Scheduling, Bootstrap

ElectedFirst == CHOOSE s \in Servers : TRUE

\* One server leads, no fault and no id is left.
NoElection ==
  /\ leaderKey = ElectedFirst /\ idKey = MaxId
  /\ pc = [s \in Servers |-> IF s = ElectedFirst THEN "lead" ELSE "watching"]
  /\ isLeader = [s \in Servers |-> s = ElectedFirst]
  /\ watchers = [s \in Servers |-> FALSE]
  /\ base = [s \in Servers |-> 0] /\ end = [s \in Servers |-> 0]
  /\ seen = [s \in Servers |-> None]
  /\ issued = {} /\ faults = MaxFaults

\* No store is left.
NoCell ==
  /\ steady = FALSE
  /\ cellPeers = FirstPeers /\ voters = Ids(FirstPeers) /\ caught = voters /\ cellLeader = 1
  /\ ver = [i \in 1..MaxPeerId |-> 0] /\ memVer = ver
  /\ proposed = <<>> /\ admin = <<>> /\ report = <<>>
  /\ pd = [peers |-> FirstPeers, ver |-> 0] /\ op = NoOp
  /\ nextPeerId = MaxPeerId + 1
  /\ upStores = CellStores /\ dead = CellStores /\ events = MaxEvents

\* No node is started.
NoNode ==
  /\ step = [n \in Nodes |-> "serving"] /\ bootstrapped = [n \in Nodes |-> TRUE]
  /\ ident = [n \in Nodes |-> 1] /\ disk = [n \in Nodes |-> {}] /\ made = disk
  /\ recorded = {} /\ registered = {1} /\ running = TRUE
  /\ lastId = 1 /\ bootEvents = MaxBootEvents

PlacementInit ==
  \/ Init /\ NoCell /\ NoNode
  \/ NoElection /\ SchedInit /\ NoNode
  \/ NoElection /\ NoCell /\ BootInit

PlacementNext ==
  \/ Next /\ UNCHANGED <<schedVars, bootVars>>
  \/ SchedNext /\ UNCHANGED <<vars, bootVars>>
  \/ BootNext /\ UNCHANGED <<vars, schedVars>>

PlacementSpec ==
  /\ PlacementInit /\ [][PlacementNext]_<<vars, schedVars, bootVars>>
  /\ Fairness /\ SchedFairness /\ BootFairness
=============================================================================
