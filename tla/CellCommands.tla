------------------------------ MODULE CellCommands ------------------------------
(***************************************************************************)
(* The life of a client command on one replica (a PeerReplicate) of a      *)
(* cell: it is queued, put in a raft command, proposed or registered as a  *)
(* read-index read by the event loop, kept as a pending command by the     *)
(* apply delegate, applied by the apply worker, and answered.              *)
(*                                                                         *)
(* Three parties move independently: the event loop of the replica         *)
(* (readyToServeRaft), the apply worker that owns the delegate, and the    *)
(* raft library together with the other replicas of the group.  The raft   *)
(* library is third-party code and is reduced to what the replica can see  *)
(* of it: terms, its log, the entries the group has chosen, and confirmed  *)
(* reads.                                                                  *)
(***************************************************************************)
EXTENDS Naturals, Sequences, FiniteSets, FiniteSetsExt

CONSTANTS
  Writes, Reads,     \* requests that clients send through this replica
  Splits,            \* Split admin requests (at most one)
  ConfChanges,       \* ChangePeer admin requests
  RightKeys,         \* requests whose key leaves the cell when it splits
  Slots,             \* addresses of cmd objects
  Nil,               \* no command
  ReusePool,         \* does cmdPool hand released cmds out again
  BatchSize,         \* BatchSizeProposal
  MaxTerm,           \* bound on the number of elections
  MaxForeign,        \* bound on the entries proposed through other replicas
  ForeignTypes,      \* types of those entries, among "normal" and "conf"
  MaxSnapshots,      \* bound on the snapshots this replica receives
  Removable          \* may a ChangePeer remove this very replica

Req == Writes \cup Reads \cup Splits \cup ConfChanges
Clients == Writes \cup Reads

ASSUME RequestsAssumption ==
  /\ Writes \cap Reads = {} /\ (Splits \cup ConfChanges) \cap Clients = {}
  /\ Splits \cap ConfChanges = {} /\ RightKeys \subseteq Clients
  /\ Cardinality(Splits) <= 1
ASSUME BoundsAssumption ==
  /\ BatchSize \in Nat \ {0} /\ MaxTerm \in Nat /\ MaxForeign \in Nat
  /\ MaxSnapshots \in Nat /\ ForeignTypes \subseteq {"normal", "conf"}
  /\ Nil \notin Slots /\ ReusePool \in BOOLEAN /\ Removable \in BOOLEAN

VARIABLES
  raft,     \* this replica's RawNode
  group,    \* what the raft group has decided, and its latest leader
  loop,     \* the state the event loop owns
  worker,   \* the apply worker's queue and the apply delegate
  cmds,     \* the cmd objects; a released one has no requests and term 0
  used,     \* cmd objects that cmdPool will not hand out again
  answers,  \* what each request was answered, in order
  reads,    \* per read: the acknowledged prefix when sent, the prefix it saw
  fault     \* "none", or the panic / Fatalf that ended the process

vars == <<raft, group, loop, worker, cmds, used, answers, reads, fault>>

Kinds == {"ok", "stale", "epoch", "notleader", "error", "removed", "nomatch"}
Cmd == [reqs : Seq(Req), term : Nat, ver : Nat]
NoCmd == [reqs |-> <<>>, term |-> 0, ver |-> 0]
Entry == [type : {"empty", "normal", "conf"}, term : Nat, reqs : Seq(Req), ver : Nat]
EmptyEntry(t) == [type |-> "empty", term |-> t, reqs |-> <<>>, ver |-> 0]
Upto(s, k) == SubSeq(s, 1, IF k < Len(s) THEN k ELSE Len(s))
From(s, k) == SubSeq(s, k, Len(s))

Init ==
  /\ raft = [term |-> 0, role |-> "follower", log |-> <<>>, commit |-> 0,
             soft |-> "follower", pendingConf |-> FALSE,
             readOnly |-> <<>>, readStates |-> <<>>, snap |-> 0, sent |-> 0]
  /\ group = [maxTerm |-> 0, lead |-> "none", rest |-> <<>>, chosen |-> <<>>,
              foreign |-> 0, snapshots |-> 0]
  /\ loop = [requests |-> <<>>, pendingReads |-> <<>>, readyCnt |-> 0,
             appliedIndex |-> 0, appliedIndexTerm |-> 0, lastReadyIndex |-> 0,
             ver |-> 0, results |-> <<>>, applyingSnap |-> FALSE,
             disposed |-> FALSE, exited |-> FALSE]
  /\ worker = [jobs |-> <<>>, alive |-> TRUE, pendingCMDs |-> <<>>,
               pendingChangePeerCMD |-> Nil, applied |-> 0, appliedIndexTerm |-> 0,
               ver |-> 0, pendingRemove |-> FALSE, clearing |-> FALSE, cleared |-> FALSE]
  /\ cmds = [s \in Slots |-> NoCmd]
  /\ used = {}
  /\ answers = [r \in Req |-> <<>>]
  /\ reads = [r \in Reads |-> [acked |-> 0, saw |-> 0]]
  /\ fault = "none"

(***************************************************************************)
(* Answering.  cmd.resp calls the callback once per request of the command *)
(* and returns the object to cmdPool, which clears it.                     *)
(***************************************************************************)
Holds(s, r) == r \in Range(cmds[s].reqs)

\* the answers of an operation that responds to the cmd objects in q, in this
\* order; how gives each one its answer.  resp frees the object, so responding
\* to one that is already free dereferences a nil req
respAll(q, how, bad) ==
  /\ answers' = [r \in Req |->
                   IF \E s \in Range(q) : Holds(s, r)
                   THEN Append(answers[r], how[CHOOSE s \in Range(q) : Holds(s, r)])
                   ELSE answers[r]]
  /\ cmds' = [s \in Slots |-> IF s \in Range(q) THEN NoCmd ELSE cmds[s]]
  /\ fault' = IF \/ \E i \in DOMAIN q : cmds[q[i]].reqs = <<>>
                 \/ \E i, j \in DOMAIN q : i # j /\ q[i] = q[j]
              THEN "nil" ELSE bad

resp(q, kind) == respAll(q, [s \in Range(q) |-> kind], "none")

\* acquireCmd: a fresh object, or one that was released
Free(s) == cmds[s] = NoCmd /\ s \notin used

Alive == fault = "none" /\ ~loop.exited
\* the loop takes raft messages and ticks only while its queue is open
Stepping == Alive /\ ~loop.disposed

(***************************************************************************)
(* Third-party code: the raft library and the other replicas.              *)
(* group.chosen is what a majority has accepted, group.rest the log of the *)
(* latest leader that is another replica.  raft.sent is the prefix of the  *)
(* log that other replicas may hold: a leader sends its log in handleReady.*)
(***************************************************************************)
Extends(s) == Upto(s, Len(group.chosen)) = group.chosen

\* raft.reset: leaving a role or a term forgets unconfirmed reads
Reset(role, term) ==
  [raft EXCEPT !.role = role, !.term = term, !.readOnly = <<>>, !.pendingConf = FALSE]

\* an election is won only after the votes went through a Ready
BecomeLeader ==
  /\ Stepping /\ raft.role = "follower" /\ raft.soft = "follower"
  /\ raft.snap = 0 /\ ~loop.applyingSnap
  /\ group.maxTerm < MaxTerm /\ Extends(raft.log)
  /\ raft' = [Reset("leader", group.maxTerm + 1) EXCEPT
                !.log = Append(@, EmptyEntry(group.maxTerm + 1)),
                !.pendingConf = \E i \in raft.commit + 1 .. Len(raft.log) :
                                  raft.log[i].type = "conf"]
  /\ group' = [group EXCEPT !.maxTerm = @ + 1, !.lead = "me"]
  /\ UNCHANGED <<loop, worker, cmds, used, answers, reads, fault>>

\* another replica wins, with a log that holds everything chosen
OtherBecomesLeader ==
  /\ fault = "none" /\ group.maxTerm < MaxTerm
  /\ \E base \in {Upto(raft.log, k) : k \in 0..raft.sent}
                 \cup {Upto(group.rest, k) : k \in 0..Len(group.rest)} :
       /\ Extends(base)
       /\ group' = [group EXCEPT !.maxTerm = @ + 1, !.lead = "rest",
                                 !.rest = Append(base, EmptyEntry(group.maxTerm + 1))]
  /\ UNCHANGED <<raft, loop, worker, cmds, used, answers, reads, fault>>

\* a leader that lost its quorum (at the same term), or any replica that meets a
\* higher term, becomes a follower
BecomeFollower ==
  /\ Stepping
  /\ \/ raft.role = "leader" /\ group.maxTerm < MaxTerm /\ raft' = Reset("follower", raft.term)
     \/ raft.term < group.maxTerm /\ raft' = Reset("follower", group.maxTerm)
  /\ group' = [group EXCEPT !.lead = IF @ = "me" THEN "none" ELSE @]
  /\ UNCHANGED <<loop, worker, cmds, used, answers, reads, fault>>

OtherProposes(type) ==
  /\ fault = "none" /\ group.lead = "rest" /\ group.foreign < MaxForeign
  /\ type = "conf" => \A i \in Len(group.chosen) + 1 .. Len(group.rest) :
                        group.rest[i].type # "conf"
  /\ group' = [group EXCEPT !.foreign = @ + 1,
                 !.rest = Append(@, [type |-> type, term |-> group.maxTerm,
                                     reqs |-> <<>>, ver |-> 1])]
  /\ UNCHANGED <<raft, loop, worker, cmds, used, answers, reads, fault>>

\* MsgApp: a follower's log is overwritten by the leader's
AppendFromLeader(k) ==
  /\ Stepping /\ raft.role = "follower" /\ raft.term = group.maxTerm /\ group.lead = "rest"
  /\ raft.snap = 0 /\ ~loop.applyingSnap
  /\ k \in 1..Len(group.rest) /\ Upto(raft.log, k) # Upto(group.rest, k)
  /\ raft' = [raft EXCEPT !.log = Upto(group.rest, k), !.sent = k]
  /\ UNCHANGED <<group, loop, worker, cmds, used, answers, reads, fault>>

\* a majority holds the latest leader's log up to an entry of its own term
Choose(k) ==
  LET log == IF group.lead = "me" THEN raft.log ELSE group.rest
  IN /\ fault = "none" /\ group.lead # "none"
     /\ group.lead = "me" => k <= raft.sent
     /\ k \in Len(group.chosen) + 1 .. Len(log) /\ log[k].term = group.maxTerm
     /\ group' = [group EXCEPT !.chosen = Upto(log, k)]
     /\ UNCHANGED <<raft, loop, worker, cmds, used, answers, reads, fault>>

\* a follower is told the commit index by the leader of its term
CommitTo(k) ==
  /\ Stepping
  /\ k \in raft.commit + 1 .. Min({Len(raft.log), Len(group.chosen)})
  /\ Upto(raft.log, k) = Upto(group.chosen, k)
  /\ IF raft.role = "leader" THEN raft.log[k].term = raft.term
     ELSE group.lead = "rest" /\ raft.term = group.maxTerm
  /\ raft' = [raft EXCEPT !.commit = k]
  /\ UNCHANGED <<group, loop, worker, cmds, used, answers, reads, fault>>

\* a round of heartbeats confirms the oldest k reads
ConfirmReads(k) ==
  /\ Stepping /\ raft.role = "leader" /\ group.lead = "me"
  /\ k \in 1..Len(raft.readOnly)
  /\ raft' = [raft EXCEPT !.readStates = @ \o Upto(raft.readOnly, k),
                          !.readOnly = SubSeq(@, k + 1, Len(@))]
  /\ UNCHANGED <<group, loop, worker, cmds, used, answers, reads, fault>>

\* MsgSnap for a follower whose log ends before, or diverges from, the leader's
RestoreSnapshot(k) ==
  /\ Stepping /\ raft.role = "follower" /\ raft.term = group.maxTerm /\ group.lead = "rest"
  /\ raft.snap = 0 /\ ~loop.applyingSnap /\ group.snapshots < MaxSnapshots
  /\ k \in raft.commit + 1 .. Len(group.chosen)
  /\ Upto(raft.log, k) # Upto(group.chosen, k)
  /\ raft' = [raft EXCEPT !.log = Upto(group.chosen, k), !.sent = k,
                          !.commit = k, !.snap = k]
  /\ group' = [group EXCEPT !.snapshots = @ + 1]
  /\ UNCHANGED <<loop, worker, cmds, used, answers, reads, fault>>

(***************************************************************************)
(* Requests arrive.  A client's is routed by keyRanges; admin requests     *)
(* come from PD's answers and from the split check.                        *)
(***************************************************************************)
TypeOf(r) == IF r \in Writes THEN "write" ELSE IF r \in Reads THEN "read" ELSE "admin"

Sent(r) == answers[r] # <<>> \/ r \in Range(loop.requests) \/ \E s \in Slots : Holds(s, r)

\* the longest chosen prefix that ends in a write its client may know to be done:
\* one of another replica, or one this replica acknowledged
AckedPrefix ==
  Max({0} \cup {i \in DOMAIN group.chosen :
                  LET e == group.chosen[i]
                  IN e.type = "normal" /\ (\/ e.reqs = <<>>
                                           \/ \E r \in Range(e.reqs) : answers[r] = <<"ok">>)})

OnProxyReq(r) ==
  /\ fault = "none" /\ ~Sent(r)
  /\ r \in RightKeys => loop.ver = 0
  /\ reads' = IF r \in Reads THEN [reads EXCEPT ![r].acked = AckedPrefix] ELSE reads
  /\ \/ /\ ~loop.exited
        /\ loop' = [loop EXCEPT !.requests = Append(@, r)]
        /\ UNCHANGED <<answers, fault>>
     \/ /\ loop.disposed /\ (loop.exited \/ r \in Clients)
        /\ answers' = [answers EXCEPT ![r] = Append(@, "nomatch")]
        /\ fault' = IF r \in Clients THEN "none" ELSE "nil"
        /\ UNCHANGED loop
  /\ UNCHANGED <<raft, group, worker, cmds, used>>

(***************************************************************************)
(* The event loop: handleRequest.                                          *)
(***************************************************************************)
\* proposeBatch.push: the first n queued requests form one command
Batchable(n) ==
  /\ n \in 1..Len(loop.requests) /\ n <= BatchSize
  /\ \A i \in 1..n : TypeOf(loop.requests[i]) = TypeOf(loop.requests[1])
  /\ n > 1 => TypeOf(loop.requests[1]) # "admin"

\* the epoch is the cell's when the command is built, not when it was routed
NewCmd(n) == [reqs |-> Upto(loop.requests, n), term |-> raft.term, ver |-> loop.ver]

\* the raft library appends a proposal; a second ChangePeer while one is pending
\* becomes an empty entry, which the proposer cannot tell from success
Propose(c, conf) ==
  LET e == [type |-> IF conf THEN "conf" ELSE "normal", term |-> raft.term,
            reqs |-> c.reqs, ver |-> c.ver]
  IN raft' = [raft EXCEPT !.log = Append(@, IF conf /\ raft.pendingConf
                                            THEN EmptyEntry(raft.term) ELSE e),
                          !.pendingConf = @ \/ conf]

\* the raft library takes a read once an entry of the leader's term is committed
ReadIndex == raft.role = "leader" /\ raft.commit > 0 /\ raft.log[raft.commit].term = raft.term

\* proposeNormal and proposeConfChange accepted by raft, then startProposeJob
proposeEntry(c, s) ==
  LET conf == c.reqs[1] \in ConfChanges
  IN /\ c.reqs[1] \notin Reads /\ raft.role = "leader"
     /\ Propose(c, conf)
     /\ cmds' = [cmds EXCEPT ![s] = c]
     /\ worker' = [worker EXCEPT !.jobs = Append(@, [type |-> "propose", cmd |-> s, conf |-> conf])]
     /\ loop' = [loop EXCEPT !.requests = From(@, Len(c.reqs) + 1)]
     /\ UNCHANGED <<answers, fault>>

execReadIndex(c, s) ==
  /\ c.reqs[1] \in Reads /\ ReadIndex
  /\ raft' = [raft EXCEPT !.readOnly = Append(@, c.reqs)]
  /\ cmds' = [cmds EXCEPT ![s] = c]
  /\ loop' = [loop EXCEPT !.requests = From(@, Len(c.reqs) + 1), !.pendingReads = Append(@, s)]
  /\ UNCHANGED <<worker, answers, fault>>

\* not the leader, dropped by raft, entry too large, conf change refused: the
\* command is answered and its object freed at once
respError(c, kind) ==
  /\ IF c.reqs[1] \in Reads THEN kind = "notleader" /\ ~ReadIndex
     ELSE kind = "notleader" \/ raft.role = "leader" \/ c.reqs[1] \in ConfChanges
  /\ answers' = [r \in Req |-> IF r \in Range(c.reqs) THEN Append(answers[r], kind) ELSE answers[r]]
  /\ loop' = [loop EXCEPT !.requests = From(@, Len(c.reqs) + 1)]
  /\ UNCHANGED <<raft, worker, cmds, fault>>

handleRequest(n, s) ==
  /\ Alive /\ Batchable(n) /\ Free(s)
  /\ \/ proposeEntry(NewCmd(n), s)
     \/ execReadIndex(NewCmd(n), s)
     \/ \E kind \in {"notleader", "error"} : respError(NewCmd(n), kind)
  /\ used' = IF ReusePool THEN used ELSE used \cup {s}
  /\ UNCHANGED <<group, reads>>

(***************************************************************************)
(* The event loop: handleReady.                                            *)
(***************************************************************************)
HasReady == raft.snap > 0 \/ raft.soft # raft.role \/ raft.commit > loop.lastReadyIndex
            \/ raft.readStates # <<>> \/ (raft.role = "leader" /\ raft.sent < Len(raft.log))

AlwaysReadyToRead(appliedIndexTerm) == TRUE
readyToHandleRead(appliedIndexTerm) == appliedIndexTerm = raft.term

\* the data a read sees: what the apply worker has written so far
Seen == IF worker.cleared THEN 0 ELSE worker.applied

\* doExecReadCmd for the cmd objects in S
ExecReads(S) ==
  reads' = [r \in Reads |-> IF \E s \in S : Holds(s, r) THEN [reads[r] EXCEPT !.saw = Seen]
                            ELSE reads[r]]

NoStepDown == FALSE
\* rd.SoftState says that this replica is no longer leader
StepDown == raft.soft # raft.role /\ raft.role = "follower"

\* n reads are executed, and on losing leadership the others are stale
doApplyReads(n) ==
  LET done == Range(Upto(loop.pendingReads, n))
  IN /\ ExecReads(done)
     /\ respAll(IF StepDown THEN loop.pendingReads ELSE Upto(loop.pendingReads, n),
                [s \in Range(loop.pendingReads) |-> IF s \in done THEN "ok" ELSE "stale"],
                IF \E i \in 1..n : \/ i > Len(loop.pendingReads)
                                   \/ cmds[loop.pendingReads[i]].reqs # raft.readStates[i]
                THEN "uuid" ELSE "none")

CellVer(k) == IF \E i \in 1..k : Range(group.chosen[i].reqs) \cap Splits # {} THEN 1 ELSE 0

ReadyJobsOverlap ==
  IF raft.commit <= loop.lastReadyIndex THEN <<>>
  ELSE <<[type |-> "apply", next |-> loop.lastReadyIndex, upto |-> raft.commit]>>

\* the jobs a Ready adds for the apply worker
ReadyJobs ==
  IF raft.snap > 0
  THEN <<[type |-> "snap"],
         [type |-> "register", applied |-> raft.snap, term |-> loop.appliedIndexTerm,
          ver |-> CellVer(raft.snap)]>>
  ELSE IF raft.commit > loop.lastReadyIndex
       THEN <<[type |-> "apply", next |-> loop.lastReadyIndex + 1, upto |-> raft.commit]>>
       ELSE <<>>

NoWaitApply == TRUE
\* a snapshot waits until everything handed to the worker is applied
isApplyComplete == loop.appliedIndex = loop.lastReadyIndex

\* handleReady returns early
ReadyWaits == loop.applyingSnap \/ (raft.snap > 0 /\ ~isApplyComplete)

handleReady ==
  LET n == IF readyToHandleRead(loop.appliedIndexTerm) THEN Len(raft.readStates) ELSE 0
      later == Len(raft.readStates) - n
  IN /\ Alive /\ HasReady /\ ~ReadyWaits
     /\ doApplyReads(n)
     /\ worker' = [worker EXCEPT !.jobs = @ \o ReadyJobs]
     /\ loop' = [loop EXCEPT
          !.lastReadyIndex = raft.commit,
          !.appliedIndex = IF raft.snap > 0 THEN raft.snap ELSE @,
          !.applyingSnap = raft.snap > 0,
          !.ver = IF raft.snap > 0 THEN CellVer(raft.snap) ELSE @,
          !.pendingReads = IF StepDown THEN <<>> ELSE From(@, n + 1),
          !.readyCnt = IF StepDown THEN 0 ELSE @ + later]
     /\ raft' = [raft EXCEPT !.snap = 0, !.soft = raft.role, !.readStates = <<>>,
                             !.sent = IF raft.role = "leader" THEN Len(raft.log) ELSE @]
     /\ UNCHANGED <<group, used>>

(***************************************************************************)
(* The event loop: handleApplyResult, one result at a time, and its exit.  *)
(***************************************************************************)
AllReads(res) == Len(loop.pendingReads)
\* doPostApply: how many reads were confirmed before their term was applied
ReadyReads(res) == IF readyToHandleRead(res.term) THEN loop.readyCnt ELSE 0

\* a result that removes this replica runs destroyPeer: the loop is told to stop
\* and the snap worker is told to delete the data
handleApplyResult ==
  LET res == loop.results[1]
      n == ReadyReads(res)
      q == Upto(loop.pendingReads, n)
  IN /\ Alive /\ loop.results # <<>>
     /\ ExecReads(Range(q))
     /\ respAll(q, [s \in Range(q) |-> "ok"],
                IF loop.applyingSnap THEN "applying" ELSE IF Len(q) < n THEN "nil" ELSE "none")
     /\ loop' = [loop EXCEPT
          !.results = Tail(@), !.appliedIndex = res.index, !.appliedIndexTerm = res.term,
          !.pendingReads = From(@, n + 1), !.readyCnt = @ - n,
          !.ver = IF res.split THEN @ + 1 ELSE @,
          !.disposed = @ \/ res.removed]
     /\ raft' = [raft EXCEPT !.pendingConf = @ /\ ~res.conf]
     /\ worker' = [worker EXCEPT !.clearing = @ \/ res.removed]
     /\ UNCHANGED <<group, used>>

\* the events queue is disposed and the last round is over: what is still queued is
\* refused; an admin request has no Request to give back to the pool
loopExit ==
  /\ Alive /\ loop.disposed /\ (HasReady => ReadyWaits)
  /\ answers' = [r \in Req |-> IF r \in Range(loop.requests) THEN Append(answers[r], "nomatch")
                               ELSE answers[r]]
  /\ fault' = IF Range(loop.requests) \subseteq Clients THEN "none" ELSE "nil"
  /\ loop' = [loop EXCEPT !.exited = TRUE, !.requests = <<>>, !.results = <<>>]
  /\ UNCHANGED <<raft, group, worker, cmds, used, reads>>

(***************************************************************************)
(* The apply worker runs the jobs of the cell one after the other.         *)
(***************************************************************************)
JobIs(type) == fault = "none" /\ worker.jobs # <<>> /\ Head(worker.jobs).type = type

PendingChangeUnchecked ==
  IF worker.pendingChangePeerCMD = Nil THEN <<>> ELSE <<worker.pendingChangePeerCMD>>

\* the pending ChangePeer, unless its object has been freed since
PendingChange ==
  LET s == worker.pendingChangePeerCMD
  IN IF s = Nil THEN <<>> ELSE IF cmds[s].reqs = <<>> THEN <<>> ELSE <<s>>

doPropose ==
  LET job == Head(worker.jobs)
  IN /\ JobIs("propose")
     /\ IF ~worker.alive THEN resp(<<job.cmd>>, "removed")
        ELSE resp(IF job.conf THEN PendingChange ELSE <<>>, "stale")
     /\ worker' = [worker EXCEPT
          !.jobs = Tail(@),
          !.pendingCMDs = IF worker.alive /\ ~job.conf THEN Append(@, job.cmd) ELSE @,
          !.pendingChangePeerCMD = IF worker.alive /\ job.conf THEN job.cmd ELSE @]
     /\ UNCHANGED <<raft, group, loop, used, reads>>

\* popPendingCMD: how many pending commands are not newer than the entry's term
Poppable(term) ==
  LET p == worker.pendingCMDs
  IN Max({n \in 0..Len(p) : \A i \in 1..n : cmds[p[i]].term <= term})

OwnTermToo(e) == e.term
\* an empty entry makes the commands of earlier terms stale
StaleTerm(e) == e.term - 1

FindAnyCB(e) == IF Poppable(e.term) > 0 THEN 1 ELSE 0
\* findCB on pendingCMDs: the position of the entry's own command, or 0
FindCB(e) ==
  LET p == worker.pendingCMDs
      hits == {i \in 1..Poppable(e.term) : cmds[p[i]].reqs = e.reqs}
  IN IF e.reqs = <<>> \/ hits = {} THEN 0 ELSE Min(hits)

AnyEpoch(e) == TRUE
checkEpoch(e) == e.ver >= worker.ver

\* advancing the delegate over e and reporting it to the event loop
Applied(e, result) ==
  LET job == Head(worker.jobs)
      i == worker.applied + 1
      t == IF e.type = "empty" THEN e.term ELSE worker.appliedIndexTerm
      removed == result = "removed"
      split == result = "ok" /\ Range(e.reqs) \cap Splits # {}
  IN /\ worker' = [worker EXCEPT
          !.jobs = IF i = job.upto /\ ~removed THEN Tail(@) ELSE [@ EXCEPT ![1].next = i + 1],
          !.applied = i, !.appliedIndexTerm = t,
          !.ver = IF split THEN @ + 1 ELSE @,
          !.pendingCMDs = IF e.type = "conf" THEN @
                          ELSE From(@, 1 + IF FindCB(e) > 0 THEN FindCB(e)
                                           ELSE Poppable(IF e.type = "empty" THEN StaleTerm(e)
                                                         ELSE e.term)),
          !.pendingRemove = removed]
     /\ loop' = IF loop.disposed THEN loop
                ELSE [loop EXCEPT !.results = Append(@,
                        [index |-> i, term |-> t, split |-> split,
                         conf |-> e.type = "conf", removed |-> removed])]

\* the next committed entry, when its index is the one the delegate expects
NextEntry == group.chosen[worker.applied + 1]
CanApply == JobIs("apply") /\ worker.alive /\ ~worker.pendingRemove
BadIndex == IF Head(worker.jobs).next = worker.applied + 1 THEN "none" ELSE "index"

applyEmptyEntry ==
  LET e == NextEntry
      q == Upto(worker.pendingCMDs, Poppable(StaleTerm(e)))
  IN /\ CanApply /\ e.type = "empty"
     /\ respAll(q, [s \in Range(q) |-> "stale"], BadIndex)
     /\ Applied(e, "ok")
     /\ UNCHANGED <<raft, group, used, reads>>

\* doApplyRaftCMD for a redis or Split command
applyNormalEntry ==
  LET e == NextEntry
      hit == FindCB(e)
      q == Upto(worker.pendingCMDs, IF hit > 0 THEN hit ELSE Poppable(e.term))
      result == IF checkEpoch(e) THEN "ok" ELSE "epoch"
  IN /\ CanApply /\ e.type = "normal"
     /\ respAll(q, [s \in Range(q) |-> IF hit > 0 /\ s = q[Len(q)] THEN result ELSE "stale"],
                BadIndex)
     /\ Applied(e, result)
     /\ UNCHANGED <<raft, group, used, reads>>

\* applyConfChange: the membership is not modelled here, so a ChangePeer may be
\* done, rejected for its epoch, a no-op without response, or remove this replica
ConfResults == {"ok", "epoch", "noop"} \cup (IF Removable THEN {"removed"} ELSE {})

applyConfEntry(result) ==
  LET e == NextEntry
      q == PendingChange
      mine == q # <<>> /\ e.reqs # <<>> /\ cmds[q[1]].reqs = e.reqs
  IN /\ CanApply /\ e.type = "conf"
     /\ respAll(IF mine /\ result = "noop" THEN <<>> ELSE q,
                [s \in Range(q) |-> IF ~mine THEN "stale"
                                    ELSE IF result = "epoch" THEN "epoch" ELSE "ok"],
                BadIndex)
     /\ Applied(e, result)
     /\ UNCHANGED <<raft, group, used, reads>>

ForgetDelegate ==
  /\ JobIs("apply") /\ worker.pendingRemove /\ worker.alive
  /\ worker' = [worker EXCEPT !.jobs = Tail(@), !.alive = FALSE]
  /\ UNCHANGED <<raft, group, loop, cmds, used, answers, reads, fault>>

\* after the entry that removes this replica: the rest of the job is skipped and
\* the delegate is destroyed
destroyDelegate ==
  /\ JobIs("apply") /\ worker.pendingRemove /\ worker.alive
  /\ resp(worker.pendingCMDs \o PendingChange, "removed")
  /\ worker' = [worker EXCEPT !.jobs = Tail(@), !.alive = FALSE, !.pendingCMDs = <<>>,
                              !.pendingChangePeerCMD = Nil]
  /\ UNCHANGED <<raft, group, loop, used, reads>>

\* a job for a delegate that is gone fails
missingDelegate ==
  /\ JobIs("apply") /\ ~worker.alive
  /\ worker' = [worker EXCEPT !.jobs = Tail(@)]
  /\ UNCHANGED <<raft, group, loop, cmds, used, answers, reads, fault>>

\* the snap worker deletes the data of the destroyed cell
clearData ==
  /\ fault = "none" /\ worker.clearing
  /\ worker' = [worker EXCEPT !.clearing = FALSE, !.cleared = TRUE]
  /\ UNCHANGED <<raft, group, loop, cmds, used, answers, reads, fault>>

doApplyingSnapshotJob ==
  /\ JobIs("snap")
  /\ worker' = [worker EXCEPT !.jobs = Tail(@)]
  /\ loop' = [loop EXCEPT !.applyingSnap = FALSE]
  /\ UNCHANGED <<raft, group, cmds, used, answers, reads, fault>>

\* a new delegate replaces the old one, if any, whose pending commands are all
\* stale; clearAllCommandsAsStale does not look whether the ChangePeer was freed
doRegistrationJob ==
  LET job == Head(worker.jobs)
      s == worker.pendingChangePeerCMD
  IN /\ JobIs("register")
     /\ resp(worker.pendingCMDs \o (IF s = Nil THEN <<>> ELSE <<s>>), "stale")
     /\ worker' = [worker EXCEPT
          !.jobs = Tail(@), !.pendingCMDs = <<>>, !.pendingChangePeerCMD = Nil,
          !.alive = TRUE, !.pendingRemove = FALSE,
          !.applied = job.applied, !.appliedIndexTerm = job.term, !.ver = job.ver]
     /\ UNCHANGED <<raft, group, loop, used, reads>>

(***************************************************************************)
(* The specification.                                                      *)
(***************************************************************************)
Raft ==
  \/ BecomeLeader \/ OtherBecomesLeader \/ BecomeFollower
  \/ \E type \in ForeignTypes : OtherProposes(type)
  \/ \E k \in 1..Len(group.rest) : AppendFromLeader(k)
  \/ \E k \in 1..(Len(group.rest) + Len(raft.log)) : Choose(k)
  \/ \E k \in 1..Len(group.chosen) : CommitTo(k) \/ RestoreSnapshot(k)
  \/ \E k \in 1..Len(raft.readOnly) : ConfirmReads(k)

EventLoop ==
  \/ \E n \in 1..Len(loop.requests), s \in Slots : handleRequest(n, s)
  \/ handleReady \/ handleApplyResult \/ loopExit

ApplyWorker ==
  \/ doPropose \/ applyEmptyEntry \/ applyNormalEntry
  \/ \E result \in ConfResults : applyConfEntry(result)
  \/ destroyDelegate \/ missingDelegate \/ doApplyingSnapshotJob \/ doRegistrationJob

Next == (\E r \in Req : OnProxyReq(r)) \/ Raft \/ EventLoop \/ ApplyWorker \/ clearData

Spec == Init /\ [][Next]_vars

\* The event loop polls its queues forever and the apply worker drains its jobs.
\* Of raft: once elections stop, messages keep flowing and a majority answers.
Fairness ==
  /\ WF_vars(\E n \in 1..Len(loop.requests), s \in Slots : handleRequest(n, s))
  /\ WF_vars(handleReady) /\ WF_vars(handleApplyResult) /\ WF_vars(loopExit)
  /\ WF_vars(ApplyWorker)
  /\ WF_vars(group.lead = "none" /\ (BecomeLeader \/ OtherBecomesLeader))
  /\ WF_vars(raft.term < group.maxTerm /\ BecomeFollower)
  /\ WF_vars(AppendFromLeader(Len(group.rest)))
  /\ WF_vars(\E k \in {Len(group.rest), Len(raft.log)} : Choose(k))
  /\ WF_vars(CommitTo(Len(group.chosen)))
  /\ WF_vars(ConfirmReads(Len(raft.readOnly)))

FairSpec == Spec /\ Fairness

(***************************************************************************)
(* Properties.                                                             *)
(***************************************************************************)
Fate(r) == {i \in DOMAIN group.chosen : r \in Range(group.chosen[i].reqs)}

Job == [type : {"propose"}, cmd : Slots, conf : BOOLEAN]
       \cup [type : {"apply"}, next : Nat, upto : Nat]
       \cup [type : {"register"}, applied : Nat, term : Nat, ver : Nat]
       \cup [type : {"snap"}]
Result == [index : Nat, term : Nat, split : BOOLEAN, conf : BOOLEAN, removed : BOOLEAN]
Role == {"leader", "follower"}

RaftState == [term : Nat, role : Role, log : Seq(Entry), commit : Nat, soft : Role,
              pendingConf : BOOLEAN, readOnly : Seq(Seq(Req)), readStates : Seq(Seq(Req)),
              snap : Nat, sent : Nat]
GroupState == [maxTerm : Nat, lead : {"none", "me", "rest"}, rest : Seq(Entry),
               chosen : Seq(Entry), foreign : Nat, snapshots : Nat]
LoopState == [requests : Seq(Req), pendingReads : Seq(Slots), readyCnt : Nat,
              appliedIndex : Nat, appliedIndexTerm : Nat, lastReadyIndex : Nat, ver : Nat,
              results : Seq(Result), applyingSnap : BOOLEAN, disposed : BOOLEAN,
              exited : BOOLEAN]
WorkerState == [jobs : Seq(Job), alive : BOOLEAN, pendingCMDs : Seq(Slots),
                pendingChangePeerCMD : Slots \cup {Nil}, applied : Nat,
                appliedIndexTerm : Nat, ver : Nat, pendingRemove : BOOLEAN,
                clearing : BOOLEAN, cleared : BOOLEAN]

\* Every variable keeps the shape that the types of pkg/raftstore give it.
TypeOK ==
  /\ raft \in RaftState /\ group \in GroupState /\ loop \in LoopState /\ worker \in WorkerState
  /\ cmds \in [Slots -> Cmd] /\ used \subseteq Slots
  /\ answers \in [Req -> Seq(Kinds)]
  /\ reads \in [Reads -> [acked : Nat, saw : Nat]]
  /\ fault \in {"none", "nil", "uuid", "applying", "index"}

\* A write answered StaleCommand is retried by the proxy, so it must not have been,
\* and must never be, chosen by the group: popPendingCMD's term comparison and
\* findCB's order must agree with the log.
StaleNeverChosen ==
  \A r \in Writes : "stale" \in Range(answers[r]) => Fate(r) = {}

\* A write is acknowledged only when its entry is chosen and already applied here.
AckedIsApplied ==
  \A r \in Writes : "ok" \in Range(answers[r]) =>
     \E i \in Fate(r) : i <= worker.applied \/ worker.cleared

\* A read that is answered sees every write acknowledged before it was sent:
\* ReadIndex with readyToHandleRead's appliedIndexTerm = term is linearizable.
ReadsSeeAckedWrites ==
  \A r \in Reads : "ok" \in Range(answers[r]) => reads[r].saw >= reads[r].acked

\* The delegate's check that the entries it is given are contiguous never fails:
\* the event loop's lastReadyIndex and the worker's applied index stay in step over
\* snapshots, registrations and jobs in flight.
AppliedInOrder == fault # "index"

\* None of the panics and Fatalfs of the handlers happens: a freed command is
\* never used, ReadStates match pendingReads, applied entries are contiguous and
\* no result arrives while a snapshot is being applied.
NoFault == fault = "none"

\* A write built for the cell before the split and chosen after it is refused by
\* checkEpoch, never applied.
EpochRefused ==
  \A r \in Writes : \A i \in Fate(r) :
     (i <= worker.applied /\ group.chosen[i].ver < CellVer(i)) =>
        Range(answers[r]) \subseteq {"epoch", "removed"}

\* Requests are answered: no pending command or read is forgotten.
EveryRequestAnswered ==
  \A r \in Clients : Sent(r) ~> answers[r] # <<>>

\* Writes are answered even when the replica is removed meanwhile: applyDelegate's
\* destroy, doPropose without delegate and the loop's exit leave none behind.
EveryWriteAnswered ==
  \A r \in Writes : Sent(r) ~> answers[r] # <<>>

\* The cell only applies writes to keys of its range: a write for the right half
\* that is chosen after the split must be refused by checkEpoch.
OwnKeysOnly ==
  \A r \in Writes \cap RightKeys : "ok" \in Range(answers[r]) =>
     \A i \in Fate(r) : CellVer(i) = 0
====
