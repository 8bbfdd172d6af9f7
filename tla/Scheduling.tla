----------------------------- MODULE Scheduling -----------------------------
(***************************************************************************)
(* How the placement driver moves the replicas of a cell.  The leader of   *)
(* the cell reports it in heartbeats (raftstore/peer.go), the driver keeps *)
(* at most one operator per cell (pdserver/coordinator.go, operator*.go),  *)
(* made by the replica checker (replication.go) or a balancer, and answers *)
(* a heartbeat with the operator's next change; the leader proposes it     *)
(* (peer_raft.go) and all replicas apply it (raft_apply_cmd.go).           *)
(* Heartbeats and answers are delayed, the driver restarts, operators time *)
(* out, leaders change, stores go offline or die.                          *)
(* A peer is [store, id]; a change is [type, peer].                        *)
(***************************************************************************)
EXTENDS Integers, Sequences, FiniteSets, FiniteSetsExt

CONSTANTS CellStores,     \* the stores of the cluster, numbers
          LimitReplicas,  \* Cfg.LimitReplicas
          MaxPeerId,      \* bound on allocated peer ids
          MaxConfVer,     \* bound on ConfVer while a stuck operator is sent again
          MaxAnswers,     \* bound on the driver's answers the leader has still to propose
          MaxEvents       \* bound on failures and balancing

ASSUME ReplicasAssumption ==
  /\ IsFiniteSet(CellStores) /\ CellStores = 1..Cardinality(CellStores)
  /\ LimitReplicas \in 1..Cardinality(CellStores) /\ MaxPeerId \in Nat
  /\ MaxConfVer \in Nat /\ MaxAnswers \in Nat \ {0} /\ MaxEvents \in Nat

VARIABLES steady,         \* no replica has restarted behind its delegate's ConfVer
          cellPeers,      \* Cell.Peers
          voters,         \* the ids raft has as members
          caught,         \* ids that need no snapshot
          cellLeader,     \* the leader's id
          ver, memVer,    \* per id: ConfVer of the replica, and of its apply delegate
          proposed,       \* the change proposed and not applied yet, <<>> or <<change>>
          admin,          \* changes the leader has still to propose
          report,         \* the heartbeat under way, <<>> or <<CellInfo>>
          pd,             \* the driver's cell: [peers, ver]
          op,             \* the operator's changes still to be done, and whether it may time out
          nextPeerId,
          upStores, dead, \* stores that are up in the driver's books; the dead one, if any
          events

cellVars == <<cellPeers, voters, caught, cellLeader, ver, memVer, proposed>>
schedVars == <<steady, cellVars, admin, report, pd, op, nextPeerId, upStores, dead, events>>

NoOp == [changes |-> <<>>, timed |-> FALSE]
Peer(s, id) == [store |-> s, id |-> id]
Change1(type, peer) == [type |-> type, peer |-> peer]
Ids(peers) == {p.id : p \in peers}
StoresOf(peers) == {p.store : p \in peers}
FirstPeers == {Peer(s, s) : s \in 1..LimitReplicas}

SchedInit ==
  /\ steady = TRUE
  /\ cellPeers = FirstPeers /\ voters = Ids(FirstPeers) /\ caught = voters /\ cellLeader = 1
  /\ ver = [i \in 1..MaxPeerId |-> IF i \in voters THEN 1 ELSE 0] /\ memVer = ver
  /\ proposed = <<>> /\ admin = <<>> /\ report = <<>>
  /\ pd = [peers |-> FirstPeers, ver |-> 1] /\ op = NoOp
  /\ nextPeerId = LimitReplicas + 1
  /\ upStores = CellStores /\ dead = {} /\ events = 0

Happens == events < MaxEvents /\ events' = events + 1

Alive == {p.id : p \in {q \in cellPeers : q.store \notin dead}}

\* checkConfChange, with countHealthyNode.
Safe(c, healthy) ==
  LET n == Cardinality(voters)
      total == IF c.type = "add" /\ c.peer.id \notin voters THEN n + 1
               ELSE IF c.type = "remove" /\ c.peer.id \in voters THEN n - 1 ELSE n
  IN  \/ n = 1
      \/ c.type = "remove" /\ c.peer.id \notin voters
      \/ Cardinality(healthy) >= total \div 2 + 1

\* findPeer looks for the store.
Exists_Id(c) == c.peer \in cellPeers
Exists(c) == c.peer.store \in StoresOf(cellPeers)

-----------------------------------------------------------------------------
(* The driver. *)

\* Do of the single operators: is the change still to be done, has it to be sent.
Unfinished(c, cell) ==
  CASE c.type = "add"      -> c.peer.id \in cell.pending \/ c.peer \notin cell.peers
    [] c.type = "remove"   -> c.peer \in cell.peers
    [] c.type = "transfer" -> cell.leader # c.peer.id
ToSend(c, cell) == ~(c.type = "add" /\ c.peer.id \in cell.pending)

\* aggregationOperator.Do drops the finished changes before the first unfinished one.
Rest(changes, cell) ==
  LET open == {k \in DOMAIN changes : Unfinished(changes[k], cell)}
  IN  IF open = {} THEN <<>> ELSE SubSeq(changes, Min(open), Len(changes))

\* selectBestPeer: some store that is up and has no peer of the cell.  The driver knows
\* of a store that died, by its missing heartbeats.
Best(peers) == {s \in upStores \ (dead \cup StoresOf(peers)) : nextPeerId <= MaxPeerId}

AddPeer(s) == Change1("add", Peer(s, nextPeerId))

\* checkOfflinePeer finds a store for the offline peers; else Check goes on.
Replaces_Gone(cell) == ~(StoresOf(cell.peers) \subseteq upStores)
Replaces(cell) == ~(StoresOf(cell.peers) \subseteq upStores) /\ Best(cell.peers) # {}

\* replicaChecker.Check, the operators it may return.  Without location labels every
\* store has the same score and checkBestReplacement finds nothing better.
Check(cell) ==
  LET offline == {p \in cell.peers : p.store \notin upStores}
      n == Cardinality(cell.peers)
      Timed(changes) == [changes |-> changes, timed |-> TRUE]
      Removal(p) == [changes |-> <<Change1("remove", p)>>, timed |-> FALSE]
  IN  IF cell.down # {} THEN {Removal(p) : p \in cell.down}
      ELSE IF Replaces(cell)
      THEN {Timed(<<AddPeer(s), Change1("remove", p)>>) : s \in Best(cell.peers), p \in offline}
      ELSE IF n < LimitReplicas THEN {Timed(<<AddPeer(s)>>) : s \in Best(cell.peers)}
      ELSE IF n > LimitReplicas THEN {Removal(p) : p \in cell.peers}
      ELSE {}

\* dispatch: go on with the operator there is, else with one of the checker.
Dispatch(cell, timeout) ==
  LET rest == IF timeout THEN <<>> ELSE Rest(op.changes, cell)
      new  == IF Check(cell) = {} THEN {NoOp} ELSE Check(cell)
  IN  IF rest # <<>> THEN op' = [op EXCEPT !.changes = rest] /\ UNCHANGED nextPeerId
      ELSE \E o \in new :
             /\ op' = o
             /\ nextPeerId' = nextPeerId + Cardinality({c \in {o.changes[k] : k \in DOMAIN o.changes} :
                                                         c.type = "add"})

\* The operator's next change gets nowhere as the dead store, or a peer that another
\* operator added to the same store, is in its way.
Stuck ==
  op.timed /\ LET c == op.changes[1] IN
    CASE c.type = "transfer" -> c.peer.id \notin voters \cap Alive \/ ~(voters \subseteq caught \cup Alive)
      [] c.type = "add"      -> \/ c.peer.store \in dead \/ (Exists(c) /\ c.peer \notin cellPeers)
                                \/ ~Safe(c, caught \cup (voters \cap Alive))
      [] c.type = "remove"   -> ~Safe(c, caught \cup (voters \cap Alive))

Stale(cell) == cell.ver < pd.ver

\* doCellHeartbeat: handleCellHeartbeat, then dispatch; the answer goes to the leader
\* that asked.  An operator may have timed out: as an event when it could go on.
HandleHeartbeat(timeout) ==
  /\ report # <<>> /\ Len(admin) < MaxAnswers
  /\ report' = <<>>
  /\ timeout => op.timed
  /\ ~timeout /\ Stuck => memVer[cellLeader] < MaxConfVer
  /\ IF timeout /\ ~Stuck THEN Happens ELSE UNCHANGED events
  /\ LET cell == report[1] IN
     IF Stale(cell)
     THEN ~timeout /\ UNCHANGED <<pd, op, nextPeerId, admin>>
     ELSE /\ pd' = [peers |-> cell.peers, ver |-> cell.ver]
          /\ Dispatch(cell, timeout)
          /\ admin' = IF op' # NoOp /\ ToSend(op'.changes[1], cell) /\ cell.leader = cellLeader
                      THEN Append(admin, op'.changes[1]) ELSE admin
  /\ UNCHANGED <<steady, cellVars, upStores, dead>>

\* The schedulers' operators, made from the driver's cell when it has none:
\* balanceCellScheduler moves a replica, balanceLeaderScheduler the leadership.
BalanceCell ==
  /\ op = NoOp /\ Cardinality(pd.peers) = LimitReplicas /\ Happens
  /\ \E s \in Best(pd.peers), p \in pd.peers :
       op' = [changes |-> <<AddPeer(s), Change1("remove", p)>>, timed |-> TRUE]
  /\ nextPeerId' = nextPeerId + 1
  /\ UNCHANGED <<steady, cellVars, admin, report, pd, upStores, dead>>

BalanceLeader ==
  /\ op = NoOp /\ Happens
  /\ \E p \in pd.peers : op' = [changes |-> <<Change1("transfer", p)>>, timed |-> TRUE]
  /\ UNCHANGED <<steady, cellVars, admin, report, pd, nextPeerId, upStores, dead>>

\* Another driver leads: the cell is loaded, operators are not.
NewDriver ==
  /\ op # NoOp /\ Happens
  /\ op' = NoOp
  /\ UNCHANGED <<steady, cellVars, admin, report, pd, nextPeerId, upStores, dead>>

-----------------------------------------------------------------------------
(* The cell. *)

\* doHeartbeat, as the leader sends it.
SendHeartbeat ==
  /\ report = <<>> /\ cellLeader \in Alive
  /\ report' = <<[peers |-> cellPeers, ver |-> ver[cellLeader], leader |-> cellLeader,
                  pending |-> voters \ caught,
                  down |-> {p \in cellPeers : p.store \in dead}]>>
  /\ UNCHANGED <<steady, cellVars, admin, pd, op, nextPeerId, upStores, dead, events>>

\* proposeConfChange and proposeTransferLeader: raft drops a change while one is pending,
\* and nobody leads instead who lags or while someone needs a snapshot.
Propose ==
  /\ admin # <<>> /\ cellLeader \in Alive
  /\ LET c == Head(admin) IN
     IF c.type = "transfer"
     THEN /\ IF c.peer.id \in voters \cap Alive /\ caught = voters
             THEN cellLeader' = c.peer.id /\ admin' = <<>>
             ELSE UNCHANGED cellLeader /\ admin' = Tail(admin)
          /\ UNCHANGED proposed
     ELSE /\ proposed' = IF proposed = <<>> /\ Safe(c, caught) THEN <<c>> ELSE proposed
          /\ admin' = Tail(admin)
          /\ UNCHANGED cellLeader
  /\ UNCHANGED <<steady, cellPeers, voters, caught, ver, memVer, report, pd, op, nextPeerId,
                 upStores, dead, events>>

\* doExecChangePeer on every replica, and ApplyConfChange: a change that finds its work
\* done counts ConfVer up in the delegate only.  A new member starts from a snapshot.
ApplyChange ==
  /\ proposed # <<>> /\ 2 * Cardinality(Alive) > Cardinality(voters)
  /\ LET c == Head(proposed)
         up == [i \in 1..MaxPeerId |-> IF i \in voters THEN memVer[i] + 1 ELSE memVer[i]]
         start == [i \in 1..MaxPeerId |-> IF i = c.peer.id THEN up[cellLeader] ELSE up[i]]
     IN  IF c.type = "add" /\ ~Exists(c)
         THEN /\ cellPeers' = cellPeers \cup {c.peer} /\ voters' = voters \cup {c.peer.id}
              /\ ver' = start /\ memVer' = start
              /\ UNCHANGED <<caught, cellLeader>>
         ELSE IF c.type = "remove" /\ Exists(c)
         THEN /\ cellPeers' = {p \in cellPeers : p.store # c.peer.store}
              /\ voters' = voters \ {c.peer.id} /\ caught' = caught \ {c.peer.id}
              /\ ver' = [up EXCEPT ![c.peer.id] = 0] /\ memVer' = ver'
              /\ UNCHANGED cellLeader
         ELSE memVer' = up /\ UNCHANGED <<cellPeers, voters, caught, cellLeader, ver>>
  /\ proposed' = <<>>
  /\ UNCHANGED <<steady, admin, report, pd, op, nextPeerId, upStores, dead, events>>

\* Another replica leads: what was proposed may be lost, what was to be proposed is.
NewLeader ==
  /\ cellLeader \notin Alive \/ Happens
  /\ cellLeader \notin Alive => events' = events
  /\ 2 * Cardinality(Alive) > Cardinality(voters)
  /\ \E i \in (voters \cap caught \cap Alive) \ {cellLeader} : cellLeader' = i
  /\ admin' = <<>> /\ proposed' \in {proposed, <<>>}
  /\ UNCHANGED <<steady, cellPeers, voters, caught, ver, memVer, report, pd, op, nextPeerId,
                 upStores, dead>>

\* A follower falls behind what the leader still has in its log, or gets a snapshot: what
\* the leader has compacted is committed.
FallBehind ==
  /\ 2 * (Cardinality(caught) - 1) > Cardinality(voters)
  /\ \E i \in caught \ {cellLeader} : caught' = caught \ {i}
  /\ Happens
  /\ UNCHANGED <<steady, cellPeers, voters, cellLeader, ver, memVer, proposed, admin, report, pd,
                 op, nextPeerId, upStores, dead>>

CatchUp ==
  /\ cellLeader \in Alive
  /\ \E i \in (voters \cap Alive) \ caught : caught' = caught \cup {i}
  /\ UNCHANGED <<steady, cellPeers, voters, cellLeader, ver, memVer, proposed, admin, report, pd,
                 op, nextPeerId, upStores, dead, events>>

\* A store restarts: the delegate is made anew from what was written.
RestartReplica ==
  /\ steady' = FALSE /\ Happens
  /\ \E i \in voters : memVer[i] # ver[i] /\ memVer' = [memVer EXCEPT ![i] = ver[i]]
  /\ UNCHANGED <<cellPeers, voters, caught, cellLeader, ver, proposed, admin, report, pd,
                 op, nextPeerId, upStores, dead>>

\* One store at most dies or is taken offline, the others can hold all replicas; raft
\* survives it.
StoreDies ==
  /\ dead = {} /\ upStores = CellStores /\ Happens
  /\ \E s \in CellStores :
       /\ 2 * Cardinality(caught \ {p.id : p \in {q \in cellPeers : q.store = s}}) > Cardinality(voters)
       /\ dead' = {s}
  /\ UNCHANGED <<steady, cellVars, admin, report, pd, op, nextPeerId, upStores>>

StoreOffline ==
  /\ dead = {} /\ upStores = CellStores /\ Happens
  /\ \E s \in CellStores : upStores' = upStores \ {s}
  /\ UNCHANGED <<steady, cellVars, admin, report, pd, op, nextPeerId, dead>>

SchedNext ==
  \/ SendHeartbeat \/ (\E timeout \in BOOLEAN : HandleHeartbeat(timeout))
  \/ Propose \/ ApplyChange \/ CatchUp \/ NewLeader
  \/ BalanceCell \/ BalanceLeader \/ NewDriver \/ FallBehind \/ RestartReplica \/ StoreDies \/ StoreOffline

\* Heartbeats go on, raft replicates and elects a leader in place of a dead one; an
\* operator that stays is found timed out by some heartbeat after maxOperatorWaitTime.
SchedFairness ==
  /\ WF_schedVars(SendHeartbeat) /\ WF_schedVars(Propose)
  /\ WF_schedVars(\E timeout \in BOOLEAN : HandleHeartbeat(timeout))
  /\ SF_schedVars(Stuck /\ HandleHeartbeat(TRUE))
  /\ WF_schedVars(ApplyChange) /\ WF_schedVars(CatchUp)
  /\ WF_schedVars(cellLeader \notin Alive /\ NewLeader)

SchedSpec == SchedInit /\ [][SchedNext]_schedVars /\ SchedFairness

-----------------------------------------------------------------------------
\* The peers of the cell's metadata, which routing, heartbeats and the driver go by, are
\* the members of its raft group: doExecChangePeer looks peers up by their store and raft
\* changes them by their id.
MembersAgree == Ids(cellPeers) = voters

\* After the failures the cell gets all its replicas, on stores that are up: no operator
\* stays for ever, and no lost, late or repeated answer leaves a replica too many or too
\* few.  Not so when a store restarts between a change that found its work done and the
\* next one: its ConfVer stays behind and the driver takes its heartbeats for stale.
Healed ==
  []steady => <>[](/\ Cardinality(cellPeers) = LimitReplicas
                   /\ StoresOf(cellPeers) \subseteq upStores \ dead)

=============================================================================
