----------------------------- MODULE StoreCells -----------------------------
(***************************************************************************)
(* The replicas of one store over its life (pkg/raftstore): created by     *)
(* bootstrap, by a message from another member or by a split, caught up by *)
(* log entries or by a snapshot, destroyed by a configuration change or by *)
(* a garbage-collection message, and found again on disk after a crash.    *)
(* What the store shares between its goroutines is here: the replicas map, *)
(* the apply delegates, the key-range tree, the queues of the apply        *)
(* workers and of the snapshot worker; and what it keeps on disk.          *)
(*                                                                         *)
(* The rest of the cluster is the history of each cell: the sequence of    *)
(* its versions, one per committed entry that changes the cell.  A message *)
(* was sent by a member at some version; messages are delayed, lost,       *)
(* repeated and reordered, so one from any version may arrive at any time. *)
(* Cell 2 is split off cell 1.  One data engine holds every cell.          *)
(***************************************************************************)
EXTENDS Integers, Sequences, FiniteSets, SequencesExt

CONSTANTS Scenarios,      \* what the members commit: [member, left, right]
          MaxCrashes,     \* bound on the crashes that no log.Fatalf caused
          MaxJobs         \* bound on the jobs a worker holds when a message adds one

ASSUME MaxCrashes \in Nat /\ MaxJobs \in Nat \ {0}

VARIABLES hist,           \* the versions of each cell, committed by its members
          state,          \* disk: CellLocalState of each cell, [state, cell]
          apply,          \* disk: RaftApplyState.AppliedIndex, 0 when absent
          commit,         \* disk: HardState.Commit of RaftLocalState, 0 when absent
          files,          \* disk: the received snapshots of each cell
          data,           \* disk: the keys whose data the data engine has
          up,             \* whether the process runs
          replicas,       \* Store.replicatesMap
          delegates,      \* Store.delegates
          tree,           \* Store.keyRanges
          queue,          \* the apply worker of each cell
          snapq,          \* the snapshot worker
          results,        \* PeerReplicate.applyResults
          gone,           \* the peers this process removed by configuration change
          fault,          \* "none", or the last log.Fatalf
          resplit,        \* whether a split wrote over a cell that was on disk
          crashes

diskVars == <<state, apply, commit, files, data>>
memVars  == <<replicas, delegates, tree, queue, snapq, results, gone>>
vars     == <<hist, diskVars, memVars, up, fault, resplit, crashes>>

Cells == {1, 2}
Keys  == {1, 2}           \* cell 1 starts as [1, 3); a split cuts it at 2

None == [state |-> "None", cell |-> 0]      \* nothing in the map, or on disk
NoSnap == 0

KeysOf(cell) == cell.start .. cell.end - 1
Cell(c, n) == hist[c][n]
Latest(c) == hist[c][Len(hist[c])]

\* A version of a cell: its epoch, its range, the id of this store's peer (0: not a
\* member), and the entry that made it.  The id of a peer is the version that
\* added it: like those the placement driver allocates, it only grows.
Changed(cell, by, n) ==
  CASE by = "add"    -> [cell EXCEPT !.conf = @ + 1, !.by = by, !.peer = n]
    [] by = "remove" -> [cell EXCEPT !.conf = @ + 1, !.by = by, !.peer = 0]
    [] by = "other"  -> [cell EXCEPT !.conf = @ + 1, !.by = by]
    [] by = "split"  -> [cell EXCEPT !.ver = @ + 1, !.by = by, !.end = 2]

\* The versions that a sequence of entries makes of a first one.
Versions(first, entries) ==
  LET v[n \in 1 .. Len(entries) + 1] ==
        IF n = 1 THEN first ELSE Changed(v[n - 1], entries[n - 1], n)
  IN  v

First(p) == [conf |-> 1, ver |-> 1, start |-> 1, end |-> 3, peer |-> p, by |-> "boot"]

\* The cell that the split at version n of cell 1 makes.
Right(v, n) == [v[n] EXCEPT !.start = 2, !.end = v[n - 1].end, !.by = "boot",
                            !.peer = IF @ = 0 THEN 0 ELSE 1]

\* s.left and s.right are the entries of cell 1 and of cell 2; s.member says whether
\* this store has cell 1 from the start.
History(s) ==
  LET v == Versions(First(IF s.member THEN 1 ELSE 0), s.left)
      n == SelectInSeq(s.left, LAMBDA by : by = "split")
  IN  <<v, IF n = 0 THEN <<>> ELSE Versions(Right(v, n + 1), s.right)>>

Init ==
  /\ \E s \in Scenarios :
       /\ hist = History(s)
       /\ state = <<IF s.member THEN [state |-> "Normal", cell |-> 1] ELSE None, None>>
       /\ apply = <<hist[1][1].peer, 0>>
       /\ commit = apply
       /\ data = IF s.member THEN Keys ELSE {}
  /\ files = [c \in Cells |-> {}]
  /\ up = FALSE /\ fault = "none" /\ resplit = FALSE /\ crashes = 0
  /\ replicas = [c \in Cells |-> None] /\ delegates = [c \in Cells |-> None]
  /\ queue = [c \in Cells |-> <<>>] /\ results = [c \in Cells |-> <<>>]
  /\ tree = {} /\ snapq = <<>> /\ gone = [c \in Cells |-> {}]

-----------------------------------------------------------------------------
(* The process: log.Fatalf, a crash, the start. *)

\* Everything in memory is lost; `why` is "none" for a crash.
Exit(why) ==
  /\ up' = FALSE /\ fault' = why
  /\ replicas' = [c \in Cells |-> None] /\ delegates' = [c \in Cells |-> None]
  /\ queue' = [c \in Cells |-> <<>>] /\ results' = [c \in Cells |-> <<>>]
  /\ tree' = {} /\ snapq' = <<>> /\ gone' = [c \in Cells |-> {}]

Crash ==
  /\ up /\ crashes < MaxCrashes
  /\ Exit("none")
  /\ crashes' = crashes + 1
  /\ UNCHANGED <<hist, diskVars, resplit>>

(* The key-range tree (util/cell_tree.go). *)

\* The item at or before `key` that contains it: a set of at most one item.
Find(t, key) ==
  {e \in t : /\ e.start <= key /\ key < e.end
             /\ \A f \in t : f.start <= key => f.start <= e.start}

Update_NoFind(t, e) ==
  {f \in t : ~(e.start <= f.start /\ f.start < e.end)} \cup {e}

Update(t, e) ==
  LET from == IF Find(t, e.start) = {} THEN e.start
              ELSE (CHOOSE f \in Find(t, e.start) : TRUE).start
  IN  {f \in t : ~(from <= f.start /\ f.start < e.end)} \cup {e}

Item(c, n) == [id |-> c, start |-> Cell(c, n).start, end |-> Cell(c, n).end]

\* Whether Remove finds the item; what it leaves.
Removes(t, e) == \E f \in Find(t, e.start) : f.id = e.id
Removed(t, e) == t \ Find(t, e.start)

\* createPeerReplicate: the peer of a cell that is on disk.  Without an apply state
\* newPeerStorage starts at raftInitLogIndex, version 1.
OnDisk(c, n, s) ==
  LET applied == Max({apply[c], 1}) IN
  [state |-> "Peer", peer |-> Cell(c, n).peer, cell |-> n, applied |-> applied,
   commit |-> Max({commit[c], applied}), ready |-> applied, snap |-> NoSnap,
   job |-> IF s = "Applying" THEN "pending" ELSE "none"]

Registration(pr) == [do |-> "register", peer |-> pr.peer, cell |-> pr.cell,
                     applied |-> pr.applied]
SnapJob  == [do |-> "snap", step |-> "delete"]
Started(pr) == (IF pr.job = "pending" THEN <<SnapJob>> ELSE <<>>) \o <<Registration(pr)>>

\* cleanup: of the data, what the ranges of the tree cover.
Covered(t) == UNION {e.start .. e.end - 1 : e \in t}

\* startCells: cells in the order of their ids, tombstones forgotten.
Restart ==
  /\ ~up
  /\ LET kept == {c \in Cells : state[c].state \in {"Normal", "Applying"}}
         pr(c) == OnDisk(c, state[c].cell, state[c].state)
         t1 == IF 1 \in kept THEN {Item(1, state[1].cell)} ELSE {}
         t2 == IF 2 \in kept THEN Update(t1, Item(2, state[2].cell)) ELSE t1
     IN  /\ replicas' = [c \in Cells |-> IF c \in kept THEN pr(c) ELSE None]
         /\ queue' = [c \in Cells |-> IF c \in kept THEN Started(pr(c)) ELSE <<>>]
         /\ tree' = t2
         /\ data' = data \cap Covered(t2)
         /\ state' = [c \in Cells |-> IF c \in kept THEN state[c] ELSE None]
         /\ apply' = [c \in Cells |-> IF c \in kept THEN apply[c] ELSE 0]
         /\ commit' = [c \in Cells |-> IF c \in kept THEN commit[c] ELSE 0]
  /\ up' = TRUE
  /\ UNCHANGED <<hist, files, delegates, snapq, results, gone, fault, resplit, crashes>>

-----------------------------------------------------------------------------
(* Destroying a replica (store.go, peer.go). *)

Applying(pr) == pr.job \in {"pending", "cancelling", "running"}

\* destroyPeer, not async: the replica's cell is version n; q, d and g are the queues,
\* delegates and ghost the caller leaves.  A tombstone replaces the metadata, and the
\* data goes when the snapshot worker gets to it.
DestroyPeer(c, n, q, d, g) ==
  LET pr == replicas[c] IN
  \/ /\ pr = None
     /\ Exit("destroy cell not exist")
     /\ UNCHANGED <<state, apply, commit>>
  \/ /\ pr # None /\ Applying(pr)
     /\ Exit("destroy cell is apply for snapshot")
     /\ UNCHANGED <<state, apply, commit>>
  \/ /\ pr # None /\ ~Applying(pr)
     /\ state' = [state EXCEPT ![c] = [state |-> "Tombstone", cell |-> n]]
     /\ apply' = [apply EXCEPT ![c] = 0] /\ commit' = [commit EXCEPT ![c] = 0]
     /\ IF Removes(tree, Item(c, n))
        THEN /\ tree' = Removed(tree, Item(c, n))
             /\ replicas' = [replicas EXCEPT ![c] = None]
             /\ results' = [results EXCEPT ![c] = <<>>]
             /\ snapq' = Append(snapq, KeysOf(Cell(c, n)))
             /\ queue' = q /\ delegates' = d /\ gone' = g
             /\ UNCHANGED <<up, fault>>
        ELSE Exit("remove key range failed")

DestroyJob == [do |-> "destroy"]
AskDestroy(c) ==
  /\ Len(queue[c]) < MaxJobs
  /\ queue' = [queue EXCEPT ![c] = Append(@, DestroyJob)]
  /\ UNCHANGED <<hist, diskVars, replicas, delegates, tree, snapq, results, gone, up,
                 fault, resplit, crashes>>

\* clearData's job.
SnapWorker ==
  /\ up /\ snapq # <<>>
  /\ data' = data \ Head(snapq)
  /\ snapq' = Tail(snapq)
  /\ UNCHANGED <<hist, state, apply, commit, files, replicas, delegates, tree, queue,
                 results, gone, up, fault, resplit, crashes>>

-----------------------------------------------------------------------------
(* Messages from the other members (store.go, store_check.go). *)

EpochStale(a, b) == a.ver < b.ver \/ a.conf < b.conf

\* isMsgStale, for a message of version v to a cell with no replica here.
StaleForTombstone_NoConf(c, v) ==
  /\ state[c].state = "Tombstone"
  /\ Cell(c, v).ver < Cell(c, state[c].cell).ver

StaleForTombstone(c, v) ==
  /\ state[c].state = "Tombstone"
  /\ LET dead == Cell(c, state[c].cell) IN
     EpochStale(Cell(c, v), dead) \/ Cell(c, v).conf = dead.conf

\* tryToCreatePeerReplicate, no replica: a vote request, or a heartbeat with commit 0.
CreateReplica(c, v) ==
  /\ up /\ replicas[c] = None /\ Cell(c, v).peer # 0 /\ Len(snapq) < MaxJobs
  /\ state[c].state \in {"None", "Tombstone"} /\ ~StaleForTombstone(c, v)
  /\ Find(tree, Cell(c, v).start) = {}
  /\ replicas' = [replicas EXCEPT ![c] =
       [state |-> "Peer", peer |-> Cell(c, v).peer, cell |-> v, applied |-> 0,
        commit |-> commit[c], ready |-> 0, snap |-> NoSnap, job |-> "none"]]
  /\ tree' = Update(tree, Item(c, v))
  /\ UNCHANGED <<hist, diskVars, delegates, queue, snapq, results, gone, up, fault,
                 resplit, crashes>>

\* tryToCreatePeerReplicate, a replica older than the peer the message is for.
ReplaceReplica(c, v) ==
  /\ up /\ replicas[c] # None /\ replicas[c].peer < Cell(c, v).peer
  /\ \/ /\ ~Applying(replicas[c])
        /\ AskDestroy(c)
     \/ /\ replicas[c].job = "pending"      \* cancelApplyingSnapJob
        /\ replicas' = [replicas EXCEPT ![c].job = "cancelling"]
        /\ UNCHANGED <<hist, diskVars, delegates, tree, queue, snapq, results, gone, up,
                       fault, resplit, crashes>>

GCMessage_VerOnly(c, v) ==
  /\ up /\ replicas[c] # None /\ Cell(c, v).peer = 0
  /\ Cell(c, replicas[c].cell).ver < Cell(c, v).ver
  /\ AskDestroy(c)

\* handleGCPeerMsg: a member at version v, which does not have this store.
GCMessage(c, v) ==
  /\ up /\ replicas[c] # None /\ Cell(c, v).peer = 0
  /\ EpochStale(Cell(c, replicas[c].cell), Cell(c, v))
  /\ AskDestroy(c)

\* A step of the raft node: entries up to version v, known to be committed.
StepAppend(c, v) ==
  /\ up /\ replicas[c] # None /\ replicas[c].peer = Cell(c, v).peer
  /\ replicas[c].commit \in 1 .. v - 1 /\ replicas[c].snap = NoSnap
  /\ replicas' = [replicas EXCEPT ![c].commit = v]
  /\ UNCHANGED <<hist, diskVars, delegates, tree, queue, snapq, results, gone, up, fault,
                 resplit, crashes>>

\* A removed peer may also learn of the entry that removes it.
StepRemove(c) ==
  /\ up /\ replicas[c] # None /\ replicas[c].snap = NoSnap
  /\ LET v == replicas[c].commit + 1 IN
     /\ replicas[c].commit # 0 /\ v \in DOMAIN hist[c]
     /\ Cell(c, v).by = "remove" /\ Cell(c, v - 1).peer = replicas[c].peer
     /\ replicas' = [replicas EXCEPT ![c].commit = v]
  /\ UNCHANGED <<hist, diskVars, delegates, tree, queue, snapq, results, gone, up, fault,
                 resplit, crashes>>

\* A snapshot of version v, and its file.
StepSnapshot(c, v) ==
  /\ up /\ replicas[c] # None /\ replicas[c].peer = Cell(c, v).peer
  /\ v > replicas[c].commit /\ v > replicas[c].snap
  /\ replicas' = [replicas EXCEPT ![c].snap = v]
  /\ files' = [files EXCEPT ![c] = @ \cup {v}]
  /\ UNCHANGED <<hist, state, apply, commit, data, delegates, tree, queue, snapq, results,
                 gone, up, fault, resplit, crashes>>

-----------------------------------------------------------------------------
(* The event loop of a replica (peer_raft.go, raft_handle_do.go). *)

\* handleReady with a snapshot; then updateKeyRange.
ReadySnapshot(c) ==
  /\ up /\ replicas[c] # None /\ ~Applying(replicas[c])
  /\ LET pr  == replicas[c]
         v   == pr.snap
         new == [pr EXCEPT !.cell = v, !.applied = v, !.commit = v, !.ready = v,
                           !.snap = NoSnap, !.job = "pending"]
     IN  /\ v # NoSnap /\ pr.applied = commit[c]
         /\ state' = [state EXCEPT ![c] = [state |-> "Applying", cell |-> v]]
         /\ apply' = [apply EXCEPT ![c] = v] /\ commit' = [commit EXCEPT ![c] = v]
         /\ IF Removes(tree, Item(c, pr.cell))
            THEN /\ tree' = Update(Removed(tree, Item(c, pr.cell)), Item(c, v))
                 /\ replicas' = [replicas EXCEPT ![c] = new]
                 /\ queue' = [queue EXCEPT ![c] = @ \o Started(new)]
                 /\ UNCHANGED <<up, delegates, snapq, results, gone, fault>>
            ELSE Exit("cell not exist")
  /\ UNCHANGED <<hist, files, data, resplit, crashes>>

\* handleReady with committed entries.
ReadyEntries(c) ==
  /\ up /\ replicas[c] # None /\ ~Applying(replicas[c])
  /\ LET pr == replicas[c] IN
     /\ pr.snap = NoSnap /\ pr.ready < pr.commit
     /\ commit' = [commit EXCEPT ![c] = pr.commit]
     /\ replicas' = [replicas EXCEPT ![c].ready = pr.commit, ![c].job = "none"]
     /\ queue' = [queue EXCEPT ![c] = Append(@,
          [do |-> "apply", from |-> pr.ready + 1, to |-> pr.commit, step |-> "exec"])]
  /\ UNCHANGED <<hist, state, apply, files, data, delegates, tree, snapq, results, gone, up,
                 fault, resplit, crashes>>

\* doApplySplit, for the left cell's version n.
ApplySplit(n) ==
  LET right == OnDisk(2, 1, "Normal") IN
  IF replicas[2] # None
  THEN Exit("duplicated cell for split") /\ UNCHANGED <<state, apply, commit>>
  ELSE /\ replicas' = <<[replicas[1] EXCEPT !.cell = n, !.applied = n], right>>
       /\ tree' = Update(Update(tree, Item(1, n)), Item(2, 1))
       /\ queue' = [queue EXCEPT ![2] = Append(@, Registration(right))]
       /\ results' = [results EXCEPT ![1] = Tail(@)]
       /\ UNCHANGED <<state, apply, commit, delegates, snapq, gone, up, fault>>

\* handleApplyResult: doPostApply, then doPostApplyResult.
PollApply(c) ==
  /\ up /\ results[c] # <<>> /\ replicas[c] # None
  /\ LET n    == Head(results[c])
         pr   == replicas[c]
         dead == Cell(c, n - 1).peer
     IN  CASE Applying(pr) ->
                Exit("should not applying snapshot") /\ UNCHANGED <<state, apply, commit>>
           [] ~Applying(pr) /\ Cell(c, n).by = "remove" /\ dead # pr.peer ->
                Exit("trying to remove unknown peer") /\ UNCHANGED <<state, apply, commit>>
           [] ~Applying(pr) /\ Cell(c, n).by = "remove" /\ dead = pr.peer ->
                DestroyPeer(c, n, queue, delegates, [gone EXCEPT ![c] = @ \cup {dead}])
           [] ~Applying(pr) /\ Cell(c, n).by = "split" -> ApplySplit(n)
           [] OTHER ->
                /\ replicas' = [replicas EXCEPT ![c].cell = n, ![c].applied = n]
                /\ results' = [results EXCEPT ![c] = Tail(@)]
                /\ UNCHANGED <<state, apply, commit, delegates, tree, queue, snapq, gone, up,
                               fault>>
  /\ UNCHANGED <<hist, files, data, resplit, crashes>>

-----------------------------------------------------------------------------
(* The apply worker of a cell (peer_job.go, raft_apply.go, raft_apply_cmd.go). *)

Done(c) == [queue EXCEPT ![c] = Tail(@)]
Doing(c, what) == up /\ queue[c] # <<>> /\ Head(queue[c]).do = what

\* doRegistrationJob
Register(c) ==
  /\ Doing(c, "register")
  /\ LET j == Head(queue[c]) IN
     IF delegates[c] # None /\ delegates[c].peer # j.peer
     THEN Exit("delegate peer id not match")
     ELSE /\ delegates' = [delegates EXCEPT ![c] =
               [state |-> "Delegate", peer |-> j.peer, applied |-> j.applied]]
          /\ queue' = Done(c)
          /\ UNCHANGED <<replicas, tree, snapq, results, gone, up, fault>>
  /\ UNCHANGED <<hist, diskVars, resplit, crashes>>

Destroy_KeepsDelegate(c) ==
  /\ Doing(c, "destroy")
  /\ DestroyPeer(c, replicas[c].cell, Done(c), delegates, gone)
  /\ UNCHANGED <<hist, files, data, resplit, crashes>>

\* doDestroy
Destroy(c) ==
  /\ Doing(c, "destroy")
  /\ DestroyPeer(c, replicas[c].cell, Done(c), [delegates EXCEPT ![c] = None], gone)
  /\ UNCHANGED <<hist, files, data, resplit, crashes>>

\* doApplyingSnapshotJob, in the steps a crash can come between.
SnapDelete(c) ==
  /\ Doing(c, "snap") /\ Head(queue[c]).step = "delete"
  /\ IF replicas[c].job = "cancelling"
     THEN /\ replicas' = [replicas EXCEPT ![c].job = "complete"]
          /\ queue' = Done(c)
          /\ UNCHANGED data
     ELSE /\ replicas' = [replicas EXCEPT ![c].job = "running"]
          /\ queue' = [queue EXCEPT ![c][1].step = "apply"]
          /\ data' = data \ KeysOf(Cell(c, state[c].cell))
  /\ UNCHANGED <<hist, state, apply, commit, files, delegates, tree, snapq, results, gone,
                 up, fault, resplit, crashes>>

\* snapshotManager.Apply, which removes the file; without the file the job fails.
SnapApply(c) ==
  /\ Doing(c, "snap") /\ Head(queue[c]).step = "apply"
  /\ LET v == replicas[c].cell IN
     IF v \in files[c]
     THEN /\ data' = data \cup KeysOf(Cell(c, v))
          /\ files' = [files EXCEPT ![c] = @ \ {v}]
          /\ queue' = [queue EXCEPT ![c][1].step = "normal"]
          /\ UNCHANGED replicas
     ELSE /\ queue' = Done(c)
          /\ replicas' = [replicas EXCEPT ![c].job = "complete"]
          /\ UNCHANGED <<data, files>>
  /\ UNCHANGED <<hist, state, apply, commit, delegates, tree, snapq, results, gone, up,
                 fault, resplit, crashes>>

SnapNormal(c) ==
  /\ Doing(c, "snap") /\ Head(queue[c]).step = "normal"
  /\ state' = [state EXCEPT ![c] = [state |-> "Normal", cell |-> replicas[c].cell]]
  /\ replicas' = [replicas EXCEPT ![c].job = "complete"]
  /\ queue' = Done(c)
  /\ UNCHANGED <<hist, apply, commit, files, data, delegates, tree, snapq, results, gone, up,
                 fault, resplit, crashes>>

\* doExecSplit writes the new cell on its own, before doApplyRaftCMD writes the old one.
SplitRight_Both(c) ==
  /\ Doing(c, "apply") /\ delegates[c] # None
  /\ LET j == Head(queue[c]) IN
     /\ delegates[c].applied + 1 = j.from /\ Cell(c, j.from).by = "split"
     /\ j.step = "exec"
     /\ state' = << [state |-> "Normal", cell |-> j.from], [state |-> "Normal", cell |-> 1] >>
  /\ apply' = [apply EXCEPT ![2] = 1] /\ commit' = [commit EXCEPT ![2] = 1]
  /\ queue' = [queue EXCEPT ![c][1].step = "left"]
  /\ resplit' = (resplit \/ state[2] # None)
  /\ UNCHANGED <<hist, files, data, replicas, delegates, tree, snapq, results, gone, up,
                 fault, crashes>>

SplitRight(c) ==
  /\ Doing(c, "apply") /\ delegates[c] # None
  /\ LET j == Head(queue[c]) IN
     /\ delegates[c].applied + 1 = j.from /\ Cell(c, j.from).by = "split"
     /\ j.step = "exec"
  /\ state' = [state EXCEPT ![2] = [state |-> "Normal", cell |-> 1]]
  /\ apply' = [apply EXCEPT ![2] = 1] /\ commit' = [commit EXCEPT ![2] = 1]
  /\ queue' = [queue EXCEPT ![c][1].step = "left"]
  /\ resplit' = (resplit \/ state[2] # None)
  /\ UNCHANGED <<hist, files, data, replicas, delegates, tree, snapq, results, gone, up,
                 fault, crashes>>

\* applyCommittedEntries, one entry: its writes, then its result to the event loop.
ApplyEntry(c) ==
  /\ Doing(c, "apply")
  /\ LET j    == Head(queue[c])
         d    == delegates[c]
         n    == j.from
         dies == Cell(c, n).by = "remove" /\ Cell(c, n - 1).peer = d.peer
     IN  CASE d = None ->
                queue' = Done(c) /\ UNCHANGED <<state, apply, commit, replicas, delegates, tree,
                                                snapq, results, gone, up, fault>>
           [] d # None /\ d.applied + 1 # n ->
                Exit("index not match") /\ UNCHANGED <<state, apply, commit>>
           [] d # None /\ d.applied + 1 = n ->
                /\ Cell(c, n).by = "split" => j.step = "left"
                /\ state' = [state EXCEPT ![c] =
                     [state |-> IF dies THEN "Tombstone" ELSE "Normal", cell |-> n]]
                /\ apply' = IF dies THEN apply ELSE [apply EXCEPT ![c] = n]
                /\ delegates' = [delegates EXCEPT ![c] =
                     IF dies THEN None ELSE [d EXCEPT !.applied = n]]
                /\ queue' = IF dies \/ n = j.to THEN Done(c)
                            ELSE [queue EXCEPT ![c][1].from = n + 1, ![c][1].step = "exec"]
                /\ results' = IF replicas[c] = None THEN results
                              ELSE [results EXCEPT ![c] = Append(@, n)]
                /\ UNCHANGED <<commit, replicas, tree, snapq, gone, up, fault>>
  /\ UNCHANGED <<hist, files, data, resplit, crashes>>

-----------------------------------------------------------------------------
FromMember(c, v) ==
  \/ CreateReplica(c, v) \/ ReplaceReplica(c, v) \/ GCMessage(c, v)
  \/ StepAppend(c, v) \/ StepSnapshot(c, v)

Loop(c) == ReadySnapshot(c) \/ ReadyEntries(c) \/ PollApply(c)
Worker(c) ==
  \/ Register(c) \/ Destroy(c) \/ SnapDelete(c) \/ SnapApply(c) \/ SnapNormal(c)
  \/ SplitRight(c) \/ ApplyEntry(c)

Next ==
  \/ \E c \in Cells : StepRemove(c) \/ Loop(c) \/ Worker(c)
  \/ \E c \in Cells : \E v \in DOMAIN hist[c] : FromMember(c, v)
  \/ SnapWorker \/ Crash \/ Restart

\* A removed peer that has a log campaigns at every election timeout, and a member
\* that gets the vote request answers that it is to go.
ToldToGo(c) ==
  /\ replicas[c] # None /\ replicas[c].applied # 0 /\ replicas[c].snap = NoSnap
  /\ \E v \in DOMAIN hist[c] : GCMessage(c, v)

Fairness ==
  /\ WF_vars(Restart)
  /\ \A c \in Cells : WF_vars(Loop(c)) /\ WF_vars(Worker(c)) /\ WF_vars(ToldToGo(c))

Spec == Init /\ [][Next]_vars /\ Fairness

-----------------------------------------------------------------------------
(* Properties *)

\* The items of the key-range tree do not overlap, and each is the range of a replica
\* the store has, as that replica knows it: the tree routes a key to one cell, and
\* checkSnapshot may use the replica of an item without asking whether there is one.
RoutesToOne ==
  /\ \A e, f \in tree : e # f => (e.start .. e.end - 1) \cap (f.start .. f.end - 1) = {}
  /\ \A e \in tree : replicas[e.id] # None /\ e = Item(e.id, replicas[e.id].cell)

\* The metadata on disk is of one moment, wherever a crash falls: the cell of the local
\* state is the version the applied index stands for, and no more is applied than is
\* committed (doApplyRaftCMD and handleRaftReadyAppend write them in one batch).  A
\* split that is applied again after a crash is the exception.
DiskAgrees ==
  \A c \in Cells : ~resplit /\ state[c].state \in {"Normal", "Applying"} =>
    state[c].cell = apply[c] /\ apply[c] <= commit[c]

\* While the process runs, no delayed message brings back a peer that this store removed
\* by applying the configuration change (isMsgStale and the tombstone's epoch).
StaysRemoved ==
  [][\A c \in Cells : \A v \in DOMAIN hist[c] :
       CreateReplica(c, v) => Cell(c, v).peer \notin gone[c]]_vars

\* Of the assertions on these paths, those on the delegate of a cell, on the order of
\* its entries, on results that come during a snapshot and on an unknown peer hold, but
\* for a split that is applied again after a crash.
ApplyAssertions ==
  ~resplit => fault \notin {"delegate peer id not match", "index not match",
                "should not applying snapshot", "trying to remove unknown peer"}

\* A replica with a log that its cell no longer has is destroyed (onRaftMessage's case b),
\* also when the store restarts in between.
LeavesCell ==
  \A c \in Cells :
    (hist[c] # <<>> /\ Latest(c).peer = 0) ~>
      (replicas[c] = None \/ replicas[c].applied = 0)

\* The data engine has the data of every replica that is past its snapshot: what a store
\* deletes is data that no cell of it has (cleanup, clearData).
DataKept ==
  up => \A c \in Cells :
          replicas[c] # None /\ replicas[c].applied # 0 /\ ~Applying(replicas[c])
            => KeysOf(Cell(c, replicas[c].cell)) \subseteq data

=============================================================================
