----------------------- MODULE CellCommandsPoolProofs -----------------------
(***************************************************************************)
(* Every step of CellCommands keeps the cmd objects apart, and so a write  *)
(* is acknowledged only when its entry is chosen and applied, for any      *)
(* workload, number of elections and of snapshots.                         *)
(***************************************************************************)
EXTENDS CellCommandsPoolInvariant

-----------------------------------------------------------------------------
\* Acknowledged writes.

\* A step acknowledges a write only if its entry is chosen and applied by then.
NewOks ==
  \A r \in Writes : "ok" \in Range(answers'[r]) =>
     \/ "ok" \in Range(answers[r])
     \/ \E i \in Fate(r) : i <= worker'.applied

\* An acknowledged write stays applied: chosen entries stay, and the applied index grows.
LEMMA AckStep ==
  ASSUME IndInv, IndInv', AckedIsApplied, NewOks, Begins(group.chosen, group'.chosen),
         worker.applied <= worker'.applied, worker.cleared => worker'.cleared
  PROVE  AckedIsApplied'
<1>1. /\ group.chosen \in Seq(Entry) /\ group'.chosen \in Seq(Entry) /\ Len(group.chosen) \in Nat
      /\ Len(group'.chosen) \in Nat
      /\ worker.applied \in Nat /\ worker'.applied \in Nat
  BY WorkerFields, GroupFields DEF IndInv, TypeOK
<1>2. DOMAIN group.chosen = 1..Len(group.chosen) /\ DOMAIN group'.chosen = 1..Len(group'.chosen)
  BY <1>1
<1>3. \A i \in DOMAIN group.chosen : i \in DOMAIN group'.chosen /\ group'.chosen[i] = group.chosen[i]
                                     /\ i \in Nat
  BY <1>1, <1>2 DEF Begins
<1>4. \A r : \A i \in Fate(r) : i \in Fate(r)' /\ i \in Nat
  BY <1>3 DEF Fate
<1>5. ASSUME NEW r \in Writes, "ok" \in Range(answers'[r])
      PROVE  \E i \in Fate(r)' : i <= worker'.applied \/ worker'.cleared
  <2>1. CASE "ok" \in Range(answers[r])
    <3>1. PICK i \in Fate(r) : i <= worker.applied \/ worker.cleared
      BY <2>1 DEF AckedIsApplied
    <3> QED BY <1>1, <1>4, <3>1
  <2>2. CASE \E i \in Fate(r) : i <= worker'.applied
    BY <1>4, <2>2
  <2> QED BY <1>5, <2>1, <2>2 DEF NewOks
<1> QED
  BY <1>5 DEF AckedIsApplied

\* The answers that respAll gives.
LEMMA RespAnswers ==
  ASSUME TypeOK, NEW q \in Seq(Slots), NEW how, NEW bad, respAll(q, how, bad), NEW r \in Req, NEW k,
         k \in Range(answers'[r])
  PROVE  k \in Range(answers[r]) \/ \E s \in Range(q) : Holds(s, r) /\ how[s] = k
<1>1. answers[r] \in Seq(Kinds) /\ Len(answers[r]) \in Nat
  BY LenProperties DEF TypeOK
<1>2. CASE ~ \E s \in Range(q) : Holds(s, r)
  <2>1. answers'[r] = answers[r]
    BY <1>2 DEF respAll
  <2> QED BY <2>1
<1>3. CASE \E s \in Range(q) : Holds(s, r)
  <2>1. PICK s \in Range(q) : Holds(s, r) /\ answers'[r] = Append(answers[r], how[s])
    <3> DEFINE s == CHOOSE x \in Range(q) : Holds(x, r)
    <3>1. s \in Range(q) /\ Holds(s, r)
      BY <1>3
    <3>2. answers'[r] = Append(answers[r], how[s])
      BY <1>3 DEF respAll
    <3> QED BY <3>1, <3>2, Zenon
  <2>2. k \in Range(answers[r]) \/ k = how[s]
    <3> DEFINE a == Append(answers[r], how[s])
    <3>1. DOMAIN a = 1..(Len(answers[r]) + 1)
      BY <1>1
    <3>2. \A i \in DOMAIN a : a[i] = how[s] \/ (i \in DOMAIN answers[r] /\ a[i] = answers[r][i])
      BY <1>1
    <3> HIDE DEF a
    <3>3. k \in Range(a)
      BY <2>1 DEF a
    <3> QED BY <3>2, <3>3 DEF Range
  <2> QED BY <2>1, <2>2
<1> QED
  BY <1>2, <1>3

\* One kind of answer that is not "ok".
LEMMA RespNoOk ==
  ASSUME TypeOK, NEW q \in Seq(Slots), NEW kind, resp(q, kind), kind # "ok"
  PROVE  NewOks
<1>1. \A s \in Range(q) : [x \in Range(q) |-> kind][s] # "ok"
  OBVIOUS
<1>2. \A r \in Writes : r \in Req
  BY DEF Req
<1> DEFINE how == [x \in Range(q) |-> kind]
<1>3. respAll(q, how, "none")
  BY DEF resp
<1> HIDE DEF how
<1>4. \A r \in Writes : "ok" \in Range(answers'[r]) => "ok" \in Range(answers[r])
  BY <1>1, <1>2, <1>3, RespAnswers DEF how
<1> QED
  BY <1>4 DEF NewOks

\* The cmd objects that respAll frees.
LEMMA RespFrees ==
  ASSUME NEW q, NEW how, NEW bad, respAll(q, how, bad)
  PROVE  \A s \in Slots : cmds'[s] = IF s \in Range(q) THEN NoCmd ELSE cmds[s]
BY DEF respAll

\* One kind of answer for all of them.
LEMMA RespFreesAll ==
  ASSUME NEW q, NEW kind, resp(q, kind)
  PROVE  \A s \in Slots : cmds'[s] = IF s \in Range(q) THEN NoCmd ELSE cmds[s]
BY RespFrees DEF resp

-----------------------------------------------------------------------------
\* The steps of the apply worker.

\* The ChangePeer that PendingChange finds has not been freed.
LEMMA ChangeFound ==
  ASSUME TypeOK, PoolInv
  PROVE  /\ PendingChange \in Seq(Slots) /\ Distinct(PendingChange)
         /\ Range(PendingChange) \subseteq {worker.pendingChangePeerCMD} \ {Nil}
         /\ \A s \in Range(PendingChange) : ChangeCmd(s)
<1> DEFINE p == worker.pendingChangePeerCMD
<1>1. CASE PendingChange = <<>>
  BY <1>1, PendingChangeType, RangeSmall
<1>2. CASE p # Nil /\ cmds[p].reqs # <<>> /\ PendingChange = <<p>>
  <2>1. ChangeCmd(p)
    <3>1. cmds[p] # NoCmd
      BY <1>2 DEF NoCmd
    <3> QED BY <1>2, <3>1, Zenon DEF PoolInv, ChangeHeld
  <2>2. Range(PendingChange) = {p} /\ Distinct(PendingChange)
    BY <1>2, RangeSmall DEF Distinct
  <2> QED BY <1>2, <2>1, <2>2, PendingChangeType
<1> QED
  BY <1>1, <1>2 DEF PendingChange

\* Applying an empty entry frees the commands of earlier terms.
LEMMA applyEmptyEntryAck ==
  ASSUME NoReuse, AckInv, applyEmptyEntry
  PROVE  PoolInv' /\ NewOks
<1> DEFINE e == NextEntry
           q == Upto(worker.pendingCMDs, Poppable(StaleTerm(e)))
           how == [s \in Range(q) |-> "stale"]
<1>1. /\ IndInv /\ TypeOK /\ PoolInv /\ LogInv /\ worker.pendingCMDs \in Seq(Slots)
      /\ Len(worker.pendingCMDs) \in Nat
  BY WorkerFields DEF AckInv, IndInv, TypeOK
<1>2. CanApply /\ e.type = "empty" /\ respAll(q, how, BadIndex) /\ Applied(e, "ok") /\ used' = used
  BY DEF applyEmptyEntry
<1>3. e.reqs = <<>>
  BY <1>1, <1>2, EntryReady DEF LogInv, Plain, NextEntry
<1>4. q = Upto(worker.pendingCMDs, Popped(e))
  <2>1. FindCB(e) = 0
    BY <1>3 DEF FindCB
  <2> QED BY <1>2, <2>1 DEF Popped
<1>5. q \in Seq(Slots)
  <2>1. Poppable(StaleTerm(e)) \in Nat
    BY <1>1, PoppableType
  <2> QED BY <1>1, <2>1, UptoProps
<1>6. \A s \in Range(q) : how[s] # "ok"
  OBVIOUS
<1> HIDE DEF q, how
<1>7. \A s \in Slots : cmds'[s] = IF s \in Range(q) THEN NoCmd ELSE cmds[s]
  BY <1>2, RespFrees
<1>8. PoolInv'
  BY <1>1, <1>2, <1>4, <1>7, AppliedPool
<1>9. NewOks
  <2>1. ASSUME NEW r \in Writes, "ok" \in Range(answers'[r]) PROVE "ok" \in Range(answers[r])
    <3>1. r \in Req
      BY DEF Req
    <3> QED BY <1>1, <1>2, <1>5, <1>6, <2>1, <3>1, RespAnswers, SMTT(30)
  <2> QED BY <2>1 DEF NewOks
<1> QED
  BY <1>8, <1>9

\* Applying a write frees what findCB pops, and acknowledges the entry's own command.
LEMMA applyNormalEntryAck ==
  ASSUME NoReuse, AckInv, applyNormalEntry
  PROVE  PoolInv' /\ NewOks
<1> DEFINE e == NextEntry
           hit == FindCB(e)
           q == Upto(worker.pendingCMDs, IF hit > 0 THEN hit ELSE Poppable(e.term))
           result == IF checkEpoch(e) THEN "ok" ELSE "epoch"
           how == [s \in Range(q) |-> IF hit > 0 /\ s = q[Len(q)] THEN result ELSE "stale"]
<1>1. /\ IndInv /\ TypeOK /\ PoolInv /\ LogInv /\ worker.pendingCMDs \in Seq(Slots)
      /\ Len(worker.pendingCMDs) \in Nat /\ worker.applied \in Nat
  BY WorkerFields DEF AckInv, IndInv, TypeOK
<1>2. CanApply /\ e.type = "normal" /\ respAll(q, how, BadIndex) /\ Applied(e, result) /\ used' = used
      /\ group' = group
  BY DEF applyNormalEntry
<1>4. q = Upto(worker.pendingCMDs, Popped(e))
  BY <1>2 DEF Popped
<1>5. hit \in 0..Len(worker.pendingCMDs) /\ Popped(e) \in Nat
  BY <1>1, FindCBType, PoppedType
<1>6. q \in Seq(Slots)
  BY <1>1, <1>4, <1>5, UptoProps
<1>7. hit > 0 => q[Len(q)] = worker.pendingCMDs[hit] /\ cmds[worker.pendingCMDs[hit]].reqs = e.reqs
  <2> SUFFICES ASSUME hit > 0
               PROVE  q[Len(q)] = worker.pendingCMDs[hit] /\ cmds[worker.pendingCMDs[hit]].reqs = e.reqs
    OBVIOUS
  <2>1. Len(q) = hit /\ hit \in 1..Len(q) /\ q[hit] = worker.pendingCMDs[hit]
    <3>1. hit \in Nat /\ hit <= Len(worker.pendingCMDs)
      BY <1>1, <1>5
    <3> HIDE DEF hit
    <3>2. Len(Upto(worker.pendingCMDs, hit)) = hit
      BY <1>1, <3>1, UptoProps
    <3> QED BY <1>1, <3>1, <3>2, UptoProps
  <2>2. cmds[worker.pendingCMDs[hit]].reqs = e.reqs
    <3> DEFINE hits == {i \in 1..Poppable(e.term) : cmds[worker.pendingCMDs[i]].reqs = e.reqs}
    <3>1. hit = Min(hits) /\ hits # {}
      BY DEF FindCB
    <3>2. hits \in SUBSET Nat
      BY <1>1, PoppableType
    <3> HIDE DEF hit
    <3>3. hit \in hits
      BY <3>1, <3>2, MinNat, Zenon
    <3> QED BY <3>3
  <2> QED BY <2>1, <2>2
<1>8. \A s \in Range(q) : how[s] = "ok" => hit > 0 /\ s = q[Len(q)]
  OBVIOUS
<1> HIDE DEF q, how, hit, result
<1>9. \A s \in Slots : cmds'[s] = IF s \in Range(q) THEN NoCmd ELSE cmds[s]
  BY <1>2, RespFrees
<1>10. PoolInv'
  BY <1>1, <1>2, <1>4, <1>9, AppliedPool
<1>11. worker.applied + 1 \in DOMAIN group.chosen /\ worker'.applied = worker.applied + 1
       /\ e = group.chosen[worker.applied + 1]
  <2>1. group.chosen \in Seq(Entry)
    BY <1>1, GroupFields DEF TypeOK
  <2> QED BY <1>1, <1>2, <2>1, EntryReady, AppliedFields DEF NextEntry
<1>12. NewOks
  <2>1. ASSUME NEW r \in Writes, "ok" \in Range(answers'[r]), "ok" \notin Range(answers[r])
        PROVE  \E i \in Fate(r) : i <= worker'.applied
    <3>1. r \in Req
      BY DEF Req
    <3>2. PICK s \in Range(q) : Holds(s, r) /\ how[s] = "ok"
      BY <1>1, <1>2, <1>6, <2>1, <3>1, RespAnswers, SMTT(30)
    <3>3. r \in Range(e.reqs)
      BY <1>7, <1>8, <3>2 DEF Holds
    <3>4. worker.applied + 1 \in Fate(r)
      BY <1>11, <3>3 DEF Fate
    <3> QED BY <1>1, <1>11, <3>4
  <2> QED BY <2>1 DEF NewOks
<1> QED
  BY <1>10, <1>12

\* Applying a ChangePeer frees the pending one, which holds no write.
LEMMA applyConfEntryAck ==
  ASSUME NoReuse, AckInv, NEW result \in ConfResults, applyConfEntry(result)
  PROVE  PoolInv' /\ NewOks
<1> DEFINE p == PendingChange
           mine == p # <<>> /\ NextEntry.reqs # <<>> /\ cmds[p[1]].reqs = NextEntry.reqs
           q == IF mine /\ result = "noop" THEN <<>> ELSE p
           how == [s \in Range(p) |-> IF ~mine THEN "stale"
                                      ELSE IF result = "epoch" THEN "epoch" ELSE "ok"]
<1>1. IndInv /\ TypeOK /\ PoolInv /\ LogInv
  BY DEF AckInv, IndInv
<1>2. CanApply /\ NextEntry.type = "conf" /\ respAll(q, how, BadIndex) /\ Applied(NextEntry, result)
      /\ used' = used
  BY DEF applyConfEntry
<1>3. q \in Seq(Slots) /\ Range(q) \subseteq Range(p)
  <2>1. <<>> \in Seq(Slots) /\ Range(<<>>) = {}
    BY RangeSmall
  <2> QED BY <1>1, <2>1, PendingChangeType, Zenon
<1> HIDE DEF q, how
<1>4. Range(q) \subseteq {worker.pendingChangePeerCMD} \ {Nil} /\ \A s \in Range(q) : ChangeCmd(s)
  BY <1>1, <1>3, ChangeFound
<1>5. \A s \in Slots : cmds'[s] = IF s \in Range(q) THEN NoCmd ELSE cmds[s]
  BY <1>2, RespFrees
<1>6. PoolInv'
  BY <1>1, <1>2, <1>4, <1>5, AppliedPool
<1>7. NewOks
  <2>1. ASSUME NEW r \in Writes, "ok" \in Range(answers'[r]) PROVE "ok" \in Range(answers[r])
    <3>1. r \in Req /\ r \notin ConfChanges
      BY RequestsAssumption DEF Req, Clients
    <3>2. \A s \in Range(q) : ~Holds(s, r)
      BY <1>4, <3>1 DEF Holds, ChangeCmd
    <3> QED BY <1>1, <1>2, <1>3, <2>1, <3>1, <3>2, RespAnswers
  <2> QED BY <2>1 DEF NewOks
<1> QED
  BY <1>6, <1>7

\* A new proposal moves to pendingCMDs or to pendingChangePeerCMD, whose former
\* object is freed, or is answered when the delegate is gone.
LEMMA doProposeAck ==
  ASSUME NoReuse, AckInv, doPropose
  PROVE  PoolInv' /\ NewOks
<1> DEFINE jobs == worker.jobs
           p == worker.pendingChangePeerCMD
<1>1. /\ TypeOK /\ PoolInv /\ worker \in WorkerState /\ loop' = loop /\ used' = used
      /\ loop.pendingReads \in Seq(Slots) /\ worker.pendingCMDs \in Seq(Slots)
      /\ p \in Slots \cup {Nil}
  BY WorkerFields, LoopFields DEF AckInv, IndInv, TypeOK, doPropose
<1>2. PICK job \in Job : /\ jobs \in Seq(Job) /\ jobs # <<>> /\ job = jobs[1] /\ Head(jobs) = job
                         /\ job.type = "propose" /\ job.cmd \in Slots /\ job.conf \in BOOLEAN
  <2>1. IndInv /\ jobs # <<>> /\ Head(jobs).type = "propose"
    BY DEF AckInv, doPropose, JobIs
  <2> QED BY <2>1, HeadJob, JobFields
<1>3. /\ worker'.jobs = Tail(jobs)
      /\ worker'.pendingCMDs = IF worker.alive /\ ~job.conf THEN Append(worker.pendingCMDs, job.cmd)
                               ELSE worker.pendingCMDs
      /\ worker'.pendingChangePeerCMD = IF worker.alive /\ job.conf THEN job.cmd ELSE p
  BY <1>1, <1>2 DEF doPropose, WorkerState
<1>4. /\ DistinctJobs(Tail(jobs)) /\ \A c : JobCmds(Tail(jobs), c) \subseteq JobCmds(jobs, c)
      /\ job.cmd \in JobCmds(jobs, job.conf) /\ \A c : job.cmd \notin JobCmds(Tail(jobs), c)
  BY <1>1, <1>2, JobsTail DEF PoolInv
<1>5. /\ Distinct(loop.pendingReads) /\ Distinct(worker.pendingCMDs)
      /\ job.cmd \notin Range(loop.pendingReads) /\ job.cmd \notin Range(worker.pendingCMDs)
      /\ \A c \in BOOLEAN : Range(worker.pendingCMDs) \cap JobCmds(Tail(jobs), c) = {}
  <2>1. WriteCmd(job.cmd) \/ ChangeCmd(job.cmd)
    BY <1>1, <1>2, <1>4, Zenon DEF PoolInv
  <2>2. job.cmd \notin Range(loop.pendingReads)
    BY <1>1, <1>2, <2>1, KindsApart DEF PoolInv
  <2>3. \A c \in BOOLEAN : Range(worker.pendingCMDs) \cap JobCmds(jobs, c) = {}
    BY <1>1, Zenon DEF PoolInv
  <2> QED BY <1>1, <1>2, <1>4, <2>2, <2>3, SMTT(30) DEF PoolInv
<1>6. CASE ~worker.alive
  <2>1. resp(<<job.cmd>>, "removed")
    BY <1>2, <1>6 DEF doPropose
  <2>2. <<job.cmd>> \in Seq(Slots) /\ Range(<<job.cmd>>) = {job.cmd}
    BY <1>2, RangeSmall
  <2>0. PICK Q \in SUBSET Slots : Q = {job.cmd}
    BY <1>2, Zenon
  <2>3. \A s \in Slots : cmds'[s] = IF s \in Q THEN NoCmd ELSE cmds[s]
    BY <2>0, <2>1, <2>2, RespFreesAll
  <2>4. worker'.pendingCMDs = worker.pendingCMDs
        /\ worker'.pendingChangePeerCMD = p /\ p \in {Nil, p}
    BY <1>3, <1>6
  <2>5. /\ Range(loop.pendingReads) \subseteq Range(loop.pendingReads) \ Q
        /\ Range(worker.pendingCMDs) \subseteq
             (Range(worker.pendingCMDs) \cup JobCmds(jobs, FALSE)) \ Q
        /\ \A c \in BOOLEAN : JobCmds(Tail(jobs), c) \subseteq JobCmds(jobs, c) \ Q
    BY <1>4, <1>5, <2>0, Zenon
  <2>6. PoolInv'
    BY <1>1, <1>3, <1>4, <1>5, <2>3, <2>4, <2>5, PoolStep, Zenon
  <2> QED BY <1>1, <2>1, <2>2, <2>6, RespNoOk, Zenon
<1>7. CASE worker.alive /\ ~job.conf
  <2>1. resp(<<>>, "stale")
    BY <1>2, <1>7 DEF doPropose
  <2>2. <<>> \in Seq(Slots) /\ Range(<<>>) = {}
    BY RangeSmall
  <2>0. PICK Q \in SUBSET Slots : Q = {}
    BY Zenon
  <2>3. \A s \in Slots : cmds'[s] = IF s \in Q THEN NoCmd ELSE cmds[s]
    BY <2>0, <2>1, <2>2, RespFreesAll
  <2>4. PICK pc : pc = Append(worker.pendingCMDs, job.cmd)
    BY Zenon
  <2>5. Distinct(pc) /\ Range(pc) = Range(worker.pendingCMDs) \cup {job.cmd}
    BY <1>1, <1>2, <1>5, <2>4, DistinctAppend
  <2>6. worker'.pendingCMDs = pc /\ worker'.pendingChangePeerCMD = p /\ p \in {Nil, p}
        /\ worker'.jobs = Tail(jobs) /\ loop'.pendingReads = loop.pendingReads
    BY <1>1, <1>3, <1>7, <2>4
  <2>7. job.conf = FALSE
    BY <1>2, <1>7
  <2>8. /\ Range(pc) \subseteq (Range(worker.pendingCMDs) \cup JobCmds(jobs, FALSE)) \ Q
        /\ Range(loop.pendingReads) \subseteq Range(loop.pendingReads) \ Q
        /\ \A c \in BOOLEAN : Range(pc) \cap JobCmds(Tail(jobs), c) = {}
        /\ \A c \in BOOLEAN : JobCmds(Tail(jobs), c) \subseteq JobCmds(jobs, c) \ Q
    BY <1>4, <1>5, <2>0, <2>5, <2>7, Zenon
  <2>9. PoolInv'
    <3>1. TypeOK /\ PoolInv /\ used' = used /\ DistinctJobs(Tail(jobs)) /\ Distinct(loop.pendingReads)
          /\ Distinct(pc)
      BY <1>1, <1>4, <1>5, <2>5
    <3> HIDE DEF p, jobs
    <3>2. PICK p2, jobs2, pr : p2 = p /\ jobs2 = Tail(jobs) /\ pr = loop.pendingReads
      BY Zenon
    <3> QED BY <2>3, <2>6, <2>8, <3>1, <3>2, PoolStep, Zenon DEF p, jobs
  <2> QED BY <1>1, <2>1, <2>2, <2>9, RespNoOk, Zenon
<1>8. CASE worker.alive /\ job.conf
  <2>1. resp(PendingChange, "stale")
    BY <1>2, <1>8 DEF doPropose
  <2> DEFINE Q == Range(PendingChange)
  <2>2. PendingChange \in Seq(Slots) /\ Q \subseteq {p} \ {Nil}
    BY <1>1, ChangeFound
  <2>3. \A s \in Slots : cmds'[s] = IF s \in Q THEN NoCmd ELSE cmds[s]
    BY <2>1, RespFreesAll
  <2>4. /\ Range(loop.pendingReads) \cap Q = {} /\ Range(worker.pendingCMDs) \cap Q = {}
        /\ JobCmds(jobs, TRUE) \cap Q = {} /\ JobCmds(jobs, FALSE) \cap Q = {}
    BY <1>1, <2>2, Zenon DEF PoolInv, ChangeHeld
  <2>5. PICK Q2 \in SUBSET Slots : Q2 = Q
    BY <1>1, <2>2
  <2> HIDE DEF Q
  <2>6. /\ Range(loop.pendingReads) \subseteq Range(loop.pendingReads) \ Q2
        /\ Range(worker.pendingCMDs) \subseteq
             (Range(worker.pendingCMDs) \cup JobCmds(jobs, FALSE)) \ Q2
        /\ \A c \in BOOLEAN : JobCmds(Tail(jobs), c) \subseteq JobCmds(jobs, c) \ Q2
        /\ job.cmd \in JobCmds(jobs, TRUE) \ Q2
    BY <1>4, <1>8, <1>2, <2>4, <2>5, Zenon
  <2>7. worker'.pendingCMDs = worker.pendingCMDs /\ worker'.pendingChangePeerCMD = job.cmd
    BY <1>3, <1>8
  <2>8. PoolInv'
    BY <1>1, <1>3, <1>4, <1>5, <2>3, <2>5, <2>6, <2>7, PoolStep, Zenon
  <2> QED BY <1>1, <2>1, <2>2, <2>8, RespNoOk, SMTT(30)
<1> QED
  BY <1>2, <1>6, <1>7, <1>8

\* A step that acquires and frees nothing, and adds no propose job.
LEMMA PoolFrame ==
  ASSUME NoReuse, TypeOK, PoolInv, used' = used, cmds' = cmds,
         loop'.pendingReads = loop.pendingReads, worker'.pendingCMDs = worker.pendingCMDs,
         worker'.pendingChangePeerCMD = worker.pendingChangePeerCMD,
         DistinctJobs(worker'.jobs), \A c : JobCmds(worker'.jobs, c) \subseteq JobCmds(worker.jobs, c)
  PROVE  PoolInv'
<1>1. PICK jobs : jobs = worker'.jobs
  OBVIOUS
<1>2. PICK Q \in SUBSET Slots : Q = {}
  BY Zenon
<1>3. PICK p, pc, pr : p = worker.pendingChangePeerCMD /\ pc = worker.pendingCMDs /\ pr = loop.pendingReads
  OBVIOUS
<1>4. /\ Range(pr) \subseteq Range(loop.pendingReads) \ Q
      /\ Range(pc) \subseteq (Range(worker.pendingCMDs) \cup JobCmds(worker.jobs, FALSE)) \ Q
      /\ \A c \in BOOLEAN : JobCmds(jobs, c) \subseteq JobCmds(worker.jobs, c) \ Q
      /\ \A s \in Slots : cmds'[s] = IF s \in Q THEN NoCmd ELSE cmds[s]
      /\ p \in {Nil, worker.pendingChangePeerCMD}
  BY <1>1, <1>2, <1>3, Zenon
<1>5. /\ Distinct(pr) /\ Distinct(pc)
      /\ \A c \in BOOLEAN : Range(pc) \cap JobCmds(jobs, c) = {}
  BY <1>1, <1>3, Zenon DEF PoolInv
<1>6. loop'.pendingReads = pr /\ worker'.pendingCMDs = pc /\ worker'.pendingChangePeerCMD = p
      /\ worker'.jobs = jobs /\ DistinctJobs(jobs)
  BY <1>1, <1>3
<1> QED
  BY <1>4, <1>5, <1>6, PoolStep, Zenon

\* A delegate that is destroyed or replaced frees all that it holds.
LEMMA DelegateGone ==
  ASSUME NoReuse, TypeOK, PoolInv, used' = used, worker.jobs \in Seq(Job), worker.jobs # <<>>,
         NEW q, Range(q) \subseteq Range(worker.pendingCMDs) \cup ({worker.pendingChangePeerCMD} \ {Nil}),
         \A s \in Slots : cmds'[s] = IF s \in Range(q) THEN NoCmd ELSE cmds[s],
         loop'.pendingReads = loop.pendingReads, worker'.pendingCMDs = <<>>,
         worker'.pendingChangePeerCMD = Nil, worker'.jobs = Tail(worker.jobs)
  PROVE  PoolInv'
<1> DEFINE Q == Range(q)
<1>1. /\ Range(loop.pendingReads) \subseteq Slots /\ Range(worker.pendingCMDs) \subseteq Slots
      /\ worker.pendingChangePeerCMD \in Slots \cup {Nil}
  BY WorkerFields, LoopFields, RangeIn DEF TypeOK
<1>2. Q \in SUBSET Slots
  BY <1>1
<1>3. /\ DistinctJobs(Tail(worker.jobs))
      /\ \A c : JobCmds(Tail(worker.jobs), c) \subseteq JobCmds(worker.jobs, c)
  BY JobsTail DEF PoolInv
<1>4. \A c \in BOOLEAN : JobCmds(worker.jobs, c) \cap Q = {}
  BY Zenon DEF PoolInv, ChangeHeld
<1>5. Range(loop.pendingReads) \cap Q = {}
  <2>1. \A s \in Range(loop.pendingReads) : s \notin Range(worker.pendingCMDs)
    BY <1>1, KindsApart DEF PoolInv
  <2> QED BY <2>1, Zenon DEF PoolInv, ChangeHeld
<1> HIDE DEF Q
<1>6. PICK p, pc, pr, jobs : p = Nil /\ pc = <<>> /\ pr = loop.pendingReads /\ jobs = Tail(worker.jobs)
  BY Zenon
<1>7. Range(pc) = {} /\ Distinct(pc) /\ Distinct(pr)
  BY <1>6, RangeSmall DEF PoolInv
<1>8. /\ Range(pr) \subseteq Range(loop.pendingReads) \ Q
      /\ Range(pc) \subseteq (Range(worker.pendingCMDs) \cup JobCmds(worker.jobs, FALSE)) \ Q
      /\ \A c \in BOOLEAN : JobCmds(jobs, c) \subseteq JobCmds(worker.jobs, c) \ Q
      /\ \A c \in BOOLEAN : Range(pc) \cap JobCmds(jobs, c) = {}
      /\ p \in {Nil, worker.pendingChangePeerCMD} /\ DistinctJobs(jobs)
  BY <1>3, <1>4, <1>5, <1>6, <1>7, Zenon
<1>9. loop'.pendingReads = pr /\ worker'.pendingCMDs = pc /\ worker'.pendingChangePeerCMD = p
      /\ worker'.jobs = jobs /\ \A s \in Slots : cmds'[s] = IF s \in Q THEN NoCmd ELSE cmds[s]
  BY <1>6 DEF Q
<1> QED
  BY <1>2, <1>7, <1>8, <1>9, PoolStep, Zenon

\* Destroying the delegate answers what it holds with "removed".
LEMMA destroyDelegateAck ==
  ASSUME NoReuse, AckInv, destroyDelegate
  PROVE  PoolInv' /\ NewOks
<1>1. /\ TypeOK /\ PoolInv /\ worker \in WorkerState /\ worker.pendingCMDs \in Seq(Slots)
      /\ worker.jobs \in Seq(Job) /\ worker.jobs # <<>>
  BY WorkerFields DEF AckInv, IndInv, TypeOK, destroyDelegate, JobIs
<1> DEFINE q == worker.pendingCMDs \o PendingChange
<1>2. /\ resp(q, "removed") /\ used' = used /\ loop' = loop /\ worker'.pendingCMDs = <<>>
      /\ worker'.pendingChangePeerCMD = Nil /\ worker'.jobs = Tail(worker.jobs)
  BY <1>1 DEF destroyDelegate, WorkerState
<1>3. /\ q \in Seq(Slots)
      /\ Range(q) \subseteq Range(worker.pendingCMDs) \cup ({worker.pendingChangePeerCMD} \ {Nil})
  BY <1>1, ChangeFound, RangeConcat
<1> HIDE DEF q
<1>4. PoolInv'
  BY <1>1, <1>2, <1>3, RespFreesAll, DelegateGone
<1> QED
  BY <1>1, <1>2, <1>3, <1>4, RespNoOk

\* Replacing the delegate answers what the old one holds with StaleCommand.
LEMMA doRegistrationJobAck ==
  ASSUME NoReuse, AckInv, doRegistrationJob
  PROVE  PoolInv' /\ NewOks
<1> DEFINE p == worker.pendingChangePeerCMD
<1>1. /\ TypeOK /\ PoolInv /\ worker \in WorkerState /\ worker.pendingCMDs \in Seq(Slots)
      /\ worker.jobs \in Seq(Job) /\ worker.jobs # <<>> /\ p \in Slots \cup {Nil}
  BY WorkerFields DEF AckInv, IndInv, TypeOK, doRegistrationJob, JobIs
<1>2. PICK c : c = IF p = Nil THEN <<>> ELSE <<p>>
  BY Zenon
<1>3. c \in Seq(Slots) /\ Range(c) \subseteq {p} \ {Nil}
  <2>1. CASE p = Nil
    BY <1>2, <2>1, RangeSmall
  <2>2. CASE p # Nil
    <3>1. c = <<p>> /\ p \in Slots
      BY <1>1, <1>2, <2>2
    <3> QED BY <2>2, <3>1, RangeSmall
  <2> QED BY <2>1, <2>2
<1> DEFINE q == worker.pendingCMDs \o c
<1>4. /\ resp(q, "stale") /\ used' = used /\ loop' = loop /\ worker'.pendingCMDs = <<>>
      /\ worker'.pendingChangePeerCMD = Nil /\ worker'.jobs = Tail(worker.jobs)
  BY <1>1, <1>2 DEF doRegistrationJob, WorkerState
<1>5. q \in Seq(Slots) /\ Range(q) \subseteq Range(worker.pendingCMDs) \cup ({p} \ {Nil})
  BY <1>1, <1>3, RangeConcat
<1> HIDE DEF q
<1>6. PoolInv'
  BY <1>1, <1>4, <1>5, RespFreesAll, DelegateGone
<1> QED
  BY <1>1, <1>4, <1>5, <1>6, RespNoOk, SMTT(30)

\* A job without a delegate, and a finished snapshot, leave the pool alone.
LEMMA JobTakenAck ==
  ASSUME NoReuse, AckInv, missingDelegate \/ doApplyingSnapshotJob
  PROVE  PoolInv' /\ NewOks
<1>1. /\ TypeOK /\ PoolInv /\ worker \in WorkerState /\ loop \in LoopState
      /\ worker.jobs \in Seq(Job) /\ worker.jobs # <<>>
  BY WorkerFields DEF AckInv, IndInv, TypeOK, missingDelegate, doApplyingSnapshotJob, JobIs
<1>2. /\ used' = used /\ cmds' = cmds /\ answers' = answers
      /\ loop'.pendingReads = loop.pendingReads /\ worker'.pendingCMDs = worker.pendingCMDs
      /\ worker'.pendingChangePeerCMD = worker.pendingChangePeerCMD
      /\ worker'.jobs = Tail(worker.jobs)
  BY <1>1, SMTT(30) DEF missingDelegate, doApplyingSnapshotJob, WorkerState, LoopState
<1>3. PoolInv'
  <2>1. DistinctJobs(worker'.jobs) /\ \A c : JobCmds(worker'.jobs, c) \subseteq JobCmds(worker.jobs, c)
    BY <1>1, <1>2, JobsTail DEF PoolInv
  <2> QED BY <1>1, <1>2, <2>1, PoolFrame
<1> QED
  BY <1>2, <1>3 DEF NewOks

-----------------------------------------------------------------------------
\* The steps of the event loop.

\* An object that cmdPool hands out is held nowhere.
LEMMA FreeUnheld ==
  ASSUME TypeOK, PoolInv, NEW s \in Slots, Free(s)
  PROVE  /\ s \notin Range(loop.pendingReads) /\ s \notin Range(worker.pendingCMDs)
         /\ \A c \in BOOLEAN : s \notin JobCmds(worker.jobs, c)
         /\ s # worker.pendingChangePeerCMD
<1>1. cmds[s].reqs = <<>> /\ s \notin used /\ s # Nil
  BY BoundsAssumption DEF Free, NoCmd
<1>2. ~ReadCmd(s) /\ ~WriteCmd(s) /\ ~ChangeCmd(s)
  BY <1>1 DEF ReadCmd, WriteCmd, ChangeCmd
<1> QED
  BY <1>1, <1>2, Zenon DEF PoolInv, ChangeHeld

\* A step that puts the command c in the free object s and hands it to pendingReads
\* or to a propose job, or that does not keep it.
LEMMA Acquire ==
  ASSUME NoReuse, TypeOK, PoolInv, NEW s \in Slots, Free(s), NEW c, NEW conf \in BOOLEAN,
         used \subseteq used', s \in used' \/ c = NoCmd \/ ReusePool,
         \A x \in Slots : cmds'[x] = IF x = s THEN c ELSE cmds[x],
         worker'.pendingCMDs = worker.pendingCMDs,
         worker'.pendingChangePeerCMD = worker.pendingChangePeerCMD,
         NEW pr, loop'.pendingReads = pr, Distinct(pr),
         \/ Range(pr) = Range(loop.pendingReads)
         \/ /\ Range(pr) = Range(loop.pendingReads) \cup {s}
            /\ c.reqs # <<>> /\ Range(c.reqs) \subseteq Reads,
         NEW jobs, worker'.jobs = jobs, DistinctJobs(jobs),
         \/ \A f \in BOOLEAN : JobCmds(jobs, f) \subseteq JobCmds(worker.jobs, f)
         \/ /\ \A f \in BOOLEAN : JobCmds(jobs, f) \subseteq
                                    JobCmds(worker.jobs, f) \cup {x \in {s} : f = conf}
            /\ c.reqs # <<>> /\ Range(c.reqs) \cap Reads = {}
            /\ conf => Range(c.reqs) \subseteq ConfChanges
  PROVE  PoolInv'
<1> DEFINE p == worker.pendingChangePeerCMD
<1>1. /\ Range(loop.pendingReads) \subseteq Slots /\ Range(worker.pendingCMDs) \subseteq Slots
      /\ p \in Slots \cup {Nil} /\ worker.jobs \in Seq(Job)
  BY WorkerFields, LoopFields, RangeIn DEF TypeOK
<1>2. \A f \in BOOLEAN : JobCmds(worker.jobs, f) \subseteq Slots
  <2>1. ASSUME NEW i \in Proposing(worker.jobs) PROVE worker.jobs[i].cmd \in Slots
    <3>1. worker.jobs[i] \in Job /\ worker.jobs[i].type = "propose"
      BY <1>1, ElementOfSeq DEF Proposing
    <3> QED BY <3>1, JobFields
  <2> QED BY <2>1 DEF JobCmds
<1>3. /\ s \notin Range(loop.pendingReads) /\ s \notin Range(worker.pendingCMDs)
      /\ (\A f \in BOOLEAN : s \notin JobCmds(worker.jobs, f)) /\ s # p
  BY FreeUnheld
<1>4. \A x \in Slots : x # s => cmds'[x] = cmds[x]
  OBVIOUS
<1>5. \A x \in Range(pr) : ReadCmd(x)'
  <2>1. \A x \in Range(loop.pendingReads) : ReadCmd(x)'
    BY <1>1, <1>3, <1>4 DEF PoolInv, ReadCmd
  <2>2. c.reqs # <<>> /\ Range(c.reqs) \subseteq Reads => ReadCmd(s)'
    BY DEF ReadCmd
  <2> QED BY <2>1, <2>2
<1>6. \A x \in Range(worker.pendingCMDs) : WriteCmd(x)'
  BY <1>1, <1>3, <1>4, Zenon DEF PoolInv, WriteCmd
<1>7. \A x \in JobCmds(jobs, TRUE) : ChangeCmd(x)'
  <2>1. \A x \in JobCmds(worker.jobs, TRUE) : ChangeCmd(x)'
    BY <1>2, <1>3, <1>4, Zenon DEF PoolInv, ChangeCmd
  <2>2. c.reqs # <<>> /\ Range(c.reqs) \subseteq ConfChanges => ChangeCmd(s)'
    BY DEF ChangeCmd
  <2> QED BY <2>1, <2>2, Zenon
<1>8. \A x \in JobCmds(jobs, FALSE) : WriteCmd(x)'
  <2>1. \A x \in JobCmds(worker.jobs, FALSE) : WriteCmd(x)'
    BY <1>2, <1>3, <1>4, Zenon DEF PoolInv, WriteCmd
  <2>2. c.reqs # <<>> /\ Range(c.reqs) \cap Reads = {} => WriteCmd(s)'
    BY DEF WriteCmd
  <2> QED BY <2>1, <2>2, Zenon
<1>9. /\ JobCmds(jobs, TRUE) \cap JobCmds(jobs, FALSE) = {}
      /\ Range(worker.pendingCMDs) \cap (JobCmds(jobs, TRUE) \cup JobCmds(jobs, FALSE)) = {}
  <2>1. /\ JobCmds(worker.jobs, TRUE) \cap JobCmds(worker.jobs, FALSE) = {}
        /\ \A f \in BOOLEAN : Range(worker.pendingCMDs) \cap JobCmds(worker.jobs, f) = {}
    BY Zenon DEF PoolInv
  <2>2. \A f \in BOOLEAN : \A x \in JobCmds(jobs, f) : x \in JobCmds(worker.jobs, f) \/ (x = s /\ f = conf)
    OBVIOUS
  <2>3. ASSUME NEW x \in JobCmds(jobs, TRUE), x \in JobCmds(jobs, FALSE) PROVE FALSE
    <3>1. /\ x \in JobCmds(worker.jobs, TRUE) \/ (x = s /\ conf = TRUE)
          /\ x \in JobCmds(worker.jobs, FALSE) \/ (x = s /\ conf = FALSE)
      BY <2>2, <2>3, Zenon
    <3>2. s \notin JobCmds(worker.jobs, TRUE) /\ s \notin JobCmds(worker.jobs, FALSE)
      BY <1>3, Zenon
    <3> QED BY <2>1, <3>1, <3>2, Zenon
  <2>4. ASSUME NEW x \in Range(worker.pendingCMDs), NEW f \in BOOLEAN, x \in JobCmds(jobs, f) PROVE FALSE
    BY <1>3, <2>1, <2>2, <2>4
  <2> QED BY <2>3, <2>4, Zenon
<1>10. \A x \in Slots : x \in used' \/ cmds'[x] = NoCmd \/ ReusePool
  BY DEF PoolInv
<1>11. ASSUME p # Nil
       PROVE  /\ p \notin Range(worker.pendingCMDs) /\ p \notin Range(pr)
              /\ p \notin JobCmds(jobs, TRUE) /\ p \notin JobCmds(jobs, FALSE)
              /\ ChangeCmd(p)' \/ (cmds'[p] = NoCmd /\ ~ReusePool /\ p \in used')
  <2>1. p \in Slots /\ cmds'[p] = cmds[p]
    BY <1>1, <1>3, <1>4, <1>11
  <2>2. /\ p \notin Range(worker.pendingCMDs) /\ p \notin Range(loop.pendingReads)
        /\ p \notin JobCmds(worker.jobs, TRUE) /\ p \notin JobCmds(worker.jobs, FALSE)
        /\ ChangeCmd(p) \/ (cmds[p] = NoCmd /\ ~ReusePool /\ p \in used)
    BY <1>11, Zenon DEF PoolInv, ChangeHeld
  <2>3. ChangeCmd(p) => ChangeCmd(p)'
    BY <2>1 DEF ChangeCmd
  <2> QED BY <1>3, <2>1, <2>2, <2>3, Zenon
<1>12. Distinct(worker.pendingCMDs)
  BY DEF PoolInv
<1> QED
  BY <1>5, <1>6, <1>7, <1>8, <1>9, <1>10, <1>11, <1>12, Zenon DEF PoolInv, ChangeHeld

\* One more answer that is not "ok".
LEMMA NoOkAppended ==
  ASSUME NEW a \in Seq(Kinds), NEW k, k # "ok", "ok" \in Range(Append(a, k))
  PROVE  "ok" \in Range(a)
<1>1. /\ Len(a) \in Nat /\ Len(Append(a, k)) = Len(a) + 1 /\ DOMAIN a = 1..Len(a)
      /\ (\A i \in 1..Len(a) : Append(a, k)[i] = a[i]) /\ Append(a, k)[Len(a) + 1] = k
      /\ DOMAIN Append(a, k) = 1..(Len(a) + 1)
  BY LenProperties
<1>2. \A i \in 1..(Len(a) + 1) : i \in 1..Len(a) \/ i = Len(a) + 1
  BY <1>1
<1>3. PICK i \in 1..(Len(a) + 1) : Append(a, k)[i] = "ok"
  BY <1>1 DEF Range
<1> QED
  BY <1>1, <1>2, <1>3 DEF Range

\* Requests that are refused are not acknowledged.
LEMMA RefusedNoOk ==
  ASSUME TypeOK, NEW k, k # "ok",
         \A r \in Req : answers'[r] = answers[r] \/ answers'[r] = Append(answers[r], k)
  PROVE  NewOks
<1>1. ASSUME NEW r \in Writes, "ok" \in Range(answers'[r]) PROVE "ok" \in Range(answers[r])
  <2>1. r \in Req /\ answers[r] \in Seq(Kinds)
    BY DEF TypeOK, Req
  <2>2. CASE answers'[r] = answers[r]
    BY <1>1, <2>2
  <2>3. CASE answers'[r] = Append(answers[r], k)
    BY <1>1, <2>1, <2>3, NoOkAppended
  <2> QED BY <2>1, <2>2, <2>3
<1> QED
  BY <1>1 DEF NewOks

\* A batch is proposed, registered as a read, or refused.
LEMMA handleRequestAck ==
  ASSUME NoReuse, AckInv, NEW n \in 1..Len(loop.requests), NEW s \in Slots, handleRequest(n, s)
  PROVE  PoolInv' /\ NewOks
<1>1. PICK c : c = NewCmd(n)
  OBVIOUS
<1>2. /\ TypeOK /\ PoolInv /\ worker \in WorkerState /\ loop \in LoopState /\ cmds \in [Slots -> Cmd]
      /\ worker.jobs \in Seq(Job) /\ loop.pendingReads \in Seq(Slots) /\ Free(s)
      /\ Distinct(loop.pendingReads) /\ DistinctJobs(worker.jobs)
  BY WorkerFields, LoopFields, Zenon DEF AckInv, IndInv, TypeOK, handleRequest, PoolInv
<1>3. /\ c.reqs # <<>> /\ Range(c.reqs) \subseteq Req
      /\ c.reqs[1] \in Reads => Range(c.reqs) \subseteq Reads
      /\ c.reqs[1] \notin Reads => Range(c.reqs) \cap Reads = {}
      /\ c.reqs[1] \in ConfChanges => Range(c.reqs) \subseteq ConfChanges
  BY <1>1, <1>2, NewCmdKinds, Zenon DEF handleRequest
<1>4. used \subseteq used' /\ (s \in used' \/ ReusePool)
  BY DEF handleRequest
<1>5. /\ s \notin Range(loop.pendingReads)
      /\ \A f \in BOOLEAN : s \notin JobCmds(worker.jobs, f)
  BY <1>2, FreeUnheld, Zenon
<1>6. CASE proposeEntry(c, s)
  <2>1. PICK conf \in BOOLEAN : conf = (c.reqs[1] \in ConfChanges)
    <3>1. (c.reqs[1] \in ConfChanges) \in BOOLEAN
      OBVIOUS
    <3> QED BY <3>1, Zenon
  <2>2. PICK j : j = [type |-> "propose", cmd |-> s, conf |-> conf]
    BY Zenon
  <2>3. j \in Job /\ j.type = "propose" /\ j.cmd = s /\ j.conf = conf
    BY <2>2 DEF Job
  <2>4. PICK jobs : jobs = Append(worker.jobs, j)
    BY Zenon
  <2>5. /\ worker'.jobs = jobs /\ worker'.pendingCMDs = worker.pendingCMDs
        /\ worker'.pendingChangePeerCMD = worker.pendingChangePeerCMD
        /\ loop'.pendingReads = loop.pendingReads /\ answers' = answers
        /\ \A x \in Slots : cmds'[x] = IF x = s THEN c ELSE cmds[x]
    BY <1>2, <1>6, <2>1, <2>2, <2>4, SMTT(30) DEF proposeEntry, WorkerState, LoopState
  <2>6. DistinctJobs(jobs) /\ \A f : JobCmds(jobs, f) \subseteq
                                JobCmds(worker.jobs, f) \cup {x \in {j.cmd} : j.type = "propose" /\ j.conf = f}
    BY <1>2, <1>5, <2>3, <2>4, JobsAppend
  <2>7. \A f \in BOOLEAN : JobCmds(jobs, f) \subseteq JobCmds(worker.jobs, f) \cup {x \in {s} : f = conf}
    BY <2>3, <2>6
  <2>8. c.reqs # <<>> /\ Range(c.reqs) \cap Reads = {} /\ (conf => Range(c.reqs) \subseteq ConfChanges)
    BY <1>3, <1>6, <2>1, Zenon DEF proposeEntry
  <2>9. PoolInv'
    BY <1>2, <1>4, <2>5, <2>6, <2>7, <2>8, Acquire, SMTT(30)
  <2> QED BY <2>5, <2>9 DEF NewOks
<1>7. CASE execReadIndex(c, s)
  <2>1. PICK pr : pr = Append(loop.pendingReads, s)
    BY Zenon
  <2>2. Distinct(pr) /\ Range(pr) = Range(loop.pendingReads) \cup {s}
    BY <1>2, <1>5, <2>1, DistinctAppend
  <2>3. /\ loop'.pendingReads = pr /\ worker' = worker /\ answers' = answers
        /\ \A x \in Slots : cmds'[x] = IF x = s THEN c ELSE cmds[x]
    BY <1>2, <1>7, <2>1 DEF execReadIndex, LoopState
  <2>4. c.reqs # <<>> /\ Range(c.reqs) \subseteq Reads
    BY <1>3, <1>7 DEF execReadIndex
  <2>5. PICK jobs, conf : jobs = worker.jobs /\ conf = FALSE
    BY Zenon
  <2>6. /\ conf \in BOOLEAN /\ worker'.jobs = jobs /\ DistinctJobs(jobs)
        /\ worker'.pendingCMDs = worker.pendingCMDs
        /\ worker'.pendingChangePeerCMD = worker.pendingChangePeerCMD
        /\ \A f \in BOOLEAN : JobCmds(jobs, f) \subseteq JobCmds(worker.jobs, f)
    BY <1>2, <2>3, <2>5, Zenon
  <2>7. PoolInv'
    BY <1>2, <1>4, <2>2, <2>3, <2>4, <2>6, Acquire, Zenon
  <2> QED BY <2>3, <2>7 DEF NewOks
<1>8. ASSUME NEW kind \in {"notleader", "error"}, respError(c, kind)
      PROVE  PoolInv' /\ NewOks
  <2>1. /\ loop'.pendingReads = loop.pendingReads /\ worker' = worker /\ cmds' = cmds
        /\ \A r \in Req : answers'[r] = answers[r] \/ answers'[r] = Append(answers[r], kind)
    BY <1>2, <1>8 DEF respError, LoopState
  <2>2. \A x \in Slots : cmds'[x] = IF x = s THEN NoCmd ELSE cmds[x]
    BY <1>2, <2>1 DEF Free
  <2>3. PICK pr, jobs, conf, d : pr = loop.pendingReads /\ jobs = worker.jobs /\ conf = FALSE /\ d = NoCmd
    BY Zenon
  <2>4. /\ conf \in BOOLEAN /\ worker'.jobs = jobs /\ DistinctJobs(jobs)
        /\ worker'.pendingCMDs = worker.pendingCMDs
        /\ worker'.pendingChangePeerCMD = worker.pendingChangePeerCMD
        /\ \A f \in BOOLEAN : JobCmds(jobs, f) \subseteq JobCmds(worker.jobs, f)
        /\ loop'.pendingReads = pr /\ Distinct(pr) /\ Range(pr) = Range(loop.pendingReads)
        /\ \A x \in Slots : cmds'[x] = IF x = s THEN d ELSE cmds[x]
    BY <1>2, <2>1, <2>2, <2>3, Zenon
  <2>5. PoolInv'
    BY <1>2, <1>4, <2>4, Acquire, Zenon
  <2> QED BY <1>2, <1>8, <2>1, <2>5, RefusedNoOk, Zenon
<1> QED
  BY <1>1, <1>6, <1>7, <1>8 DEF handleRequest

\* A queue of jobs followed by some that propose nothing.
LEMMA JobsConcat ==
  ASSUME NEW jobs \in Seq(Job), NEW t \in Seq(Job), DistinctJobs(jobs), Proposing(t) = {}
  PROVE  DistinctJobs(jobs \o t) /\ \A c : JobCmds(jobs \o t, c) \subseteq JobCmds(jobs, c)
<1> DEFINE new == jobs \o t
<1>1. /\ Len(new) = Len(jobs) + Len(t) /\ Len(jobs) \in Nat /\ Len(t) \in Nat
      /\ \A i \in 1..Len(new) : new[i] = IF i <= Len(jobs) THEN jobs[i] ELSE t[i - Len(jobs)]
  BY ConcatProperties, LenProperties
<1> HIDE DEF new
<1>2. PICK h : \A i \in Nat : h[i] = i
  <2>1. \A i \in Nat : [k \in Nat |-> k][i] = i
    OBVIOUS
  <2> QED BY <2>1, Zenon
<1>3. ASSUME NEW i \in Proposing(new)
      PROVE  h[i] = i /\ h[i] \in Proposing(jobs) /\ new[i] = jobs[h[i]]
  <2>1. i \in 1..Len(new) /\ new[i].type = "propose" /\ i \in Nat
    BY <1>1 DEF Proposing
  <2>2. i <= Len(jobs)
    <3> SUFFICES ASSUME ~(i <= Len(jobs)) PROVE FALSE
      OBVIOUS
    <3>1. i - Len(jobs) \in 1..Len(t) /\ new[i] = t[i - Len(jobs)]
      BY <1>1, <2>1
    <3> QED BY <2>1, <3>1 DEF Proposing
  <2> QED BY <1>1, <1>2, <2>1, <2>2 DEF Proposing
<1>4. \A i, k \in Proposing(new) : h[i] = h[k] => i = k
  BY <1>3
<1>5. DistinctJobs(new) /\ \A c : JobCmds(new, c) \subseteq JobCmds(jobs, c)
  BY <1>3, <1>4, JobsSub, Zenon
<1> QED
  BY <1>5 DEF new

\* Answering reads frees their objects and acknowledges no write.
LEMMA ReadsAnswered ==
  ASSUME NoReuse, TypeOK, PoolInv, used' = used, NEW q \in Seq(Slots), NEW how, NEW bad,
         respAll(q, how, bad), Range(q) \subseteq Range(loop.pendingReads),
         NEW pr, loop'.pendingReads = pr, Distinct(pr),
         Range(pr) \subseteq Range(loop.pendingReads) \ Range(q),
         worker'.pendingCMDs = worker.pendingCMDs,
         worker'.pendingChangePeerCMD = worker.pendingChangePeerCMD,
         DistinctJobs(worker'.jobs), \A c : JobCmds(worker'.jobs, c) \subseteq JobCmds(worker.jobs, c)
  PROVE  PoolInv' /\ NewOks
<1> DEFINE Q == Range(q)
<1>1. /\ Range(loop.pendingReads) \subseteq Slots /\ Range(worker.pendingCMDs) \subseteq Slots
      /\ Q \in SUBSET Slots
  BY WorkerFields, LoopFields, RangeIn DEF TypeOK
<1>2. \A s \in Q : ReadCmd(s) /\ s \in Slots
  BY <1>1 DEF PoolInv
<1>3. \A s \in Slots : cmds'[s] = IF s \in Q THEN NoCmd ELSE cmds[s]
  BY RespFrees, Zenon
<1>4. NewOks
  <2>1. ASSUME NEW r \in Writes, "ok" \in Range(answers'[r]) PROVE "ok" \in Range(answers[r])
    <3>1. r \in Req /\ r \notin Reads
      BY RequestsAssumption DEF Req
    <3>2. \A s \in Q : ~Holds(s, r)
      BY <1>2, <3>1 DEF ReadCmd, Holds
    <3> QED BY <2>1, <3>1, <3>2, RespAnswers
  <2> QED BY <2>1 DEF NewOks
<1>5. /\ Range(worker.pendingCMDs) \cap Q = {}
      /\ JobCmds(worker.jobs, TRUE) \cap Q = {} /\ JobCmds(worker.jobs, FALSE) \cap Q = {}
  BY <1>2, KindsApart, Zenon DEF PoolInv
<1> HIDE DEF Q
<1>6. PICK p, pc, jobs : p = worker.pendingChangePeerCMD /\ pc = worker.pendingCMDs /\ jobs = worker'.jobs
  BY Zenon
<1>7. /\ Range(pr) \subseteq Range(loop.pendingReads) \ Q
      /\ Range(pc) \subseteq (Range(worker.pendingCMDs) \cup JobCmds(worker.jobs, FALSE)) \ Q
      /\ \A c \in BOOLEAN : JobCmds(jobs, c) \subseteq JobCmds(worker.jobs, c) \ Q
      /\ p \in {Nil, worker.pendingChangePeerCMD} /\ DistinctJobs(jobs)
  BY <1>5, <1>6, Zenon DEF Q
<1>8. Distinct(pc) /\ \A c \in BOOLEAN : Range(pc) \cap JobCmds(jobs, c) = {}
  BY <1>6, Zenon DEF PoolInv
<1>9. worker'.pendingCMDs = pc /\ worker'.pendingChangePeerCMD = p /\ worker'.jobs = jobs
  BY <1>6, Zenon
<1>10. TypeOK /\ PoolInv /\ used' = used /\ loop'.pendingReads = pr /\ Distinct(pr)
  OBVIOUS
<1>11. PoolInv'
  <2>1. PICK R \in SUBSET Slots : R = Q
    BY <1>1, Zenon
  <2>2. /\ Range(pr) \subseteq Range(loop.pendingReads) \ R
        /\ Range(pc) \subseteq (Range(worker.pendingCMDs) \cup JobCmds(worker.jobs, FALSE)) \ R
        /\ \A c \in BOOLEAN : JobCmds(jobs, c) \subseteq JobCmds(worker.jobs, c) \ R
        /\ \A s \in Slots : cmds'[s] = IF s \in R THEN NoCmd ELSE cmds[s]
    BY <1>3, <1>7, <2>1, Zenon
  <2> QED BY <1>7, <1>8, <1>9, <1>10, <2>2, PoolStep, ZenonT(60)
<1> QED
  BY <1>4, <1>11

\* A Ready answers the confirmed reads, or on losing leadership all of them.
LEMMA handleReadyAck ==
  ASSUME NoReuse, AckInv, handleReady
  PROVE  PoolInv' /\ NewOks
<1>1. /\ TypeOK /\ PoolInv /\ worker \in WorkerState /\ loop \in LoopState
      /\ loop.pendingReads \in Seq(Slots) /\ worker.jobs \in Seq(Job) /\ Len(raft.readStates) \in Nat
      /\ Distinct(loop.pendingReads) /\ DistinctJobs(worker.jobs)
  BY WorkerFields, LoopFields, RaftFields, Zenon DEF AckInv, IndInv, TypeOK, PoolInv
<1>2. PICK n \in Nat : n = IF readyToHandleRead(loop.appliedIndexTerm) THEN Len(raft.readStates) ELSE 0
  BY <1>1
<1>3. PICK q, pr : /\ q = IF StepDown THEN loop.pendingReads ELSE Upto(loop.pendingReads, n)
                   /\ pr = IF StepDown THEN <<>> ELSE From(loop.pendingReads, n + 1)
  BY Zenon
<1>4. \E how, bad : respAll(q, how, bad)
  BY <1>2, <1>3 DEF handleReady, doApplyReads
<1>5. /\ used' = used /\ loop'.pendingReads = pr /\ worker'.jobs = worker.jobs \o ReadyJobs
      /\ worker'.pendingCMDs = worker.pendingCMDs
      /\ worker'.pendingChangePeerCMD = worker.pendingChangePeerCMD
  BY <1>1, <1>2, <1>3, SMTT(30) DEF handleReady, WorkerState, LoopState
<1>6. /\ q \in Seq(Slots) /\ Range(q) \subseteq Range(loop.pendingReads) /\ Distinct(pr)
      /\ Range(pr) \subseteq Range(loop.pendingReads) \ Range(q)
  <2>1. CASE StepDown
    <3>1. q = loop.pendingReads /\ pr = <<>>
      BY <1>3, <2>1
    <3> QED BY <1>1, <3>1, RangeSmall
  <2>2. CASE ~StepDown
    <3>1. q = Upto(loop.pendingReads, n) /\ pr = From(loop.pendingReads, n + 1)
      BY <1>3, <2>2
    <3> QED BY <1>1, <3>1, DistinctFrom, UptoProps, Zenon
  <2> QED BY <2>1, <2>2
<1>7. DistinctJobs(worker'.jobs) /\ \A c : JobCmds(worker'.jobs, c) \subseteq JobCmds(worker.jobs, c)
  BY <1>1, <1>5, ReadyProposesNothing, JobsConcat
<1> QED
  BY <1>1, <1>4, <1>5, <1>6, <1>7, ReadsAnswered, SMTT(30)

\* A result answers the reads that waited for the new term to be applied.
LEMMA handleApplyResultAck ==
  ASSUME NoReuse, AckInv, handleApplyResult
  PROVE  PoolInv' /\ NewOks
<1>1. /\ TypeOK /\ PoolInv /\ worker \in WorkerState /\ loop \in LoopState
      /\ loop.pendingReads \in Seq(Slots) /\ loop.readyCnt \in Nat
      /\ Distinct(loop.pendingReads) /\ DistinctJobs(worker.jobs)
  BY LoopFields, Zenon DEF AckInv, IndInv, TypeOK, PoolInv
<1>2. PICK n \in Nat : n = ReadyReads(loop.results[1])
  BY <1>1 DEF ReadyReads
<1>3. PICK q, pr : q = Upto(loop.pendingReads, n) /\ pr = From(loop.pendingReads, n + 1)
  OBVIOUS
<1>4. \E how, bad : respAll(q, how, bad)
  BY <1>2, <1>3 DEF handleApplyResult
<1>5. /\ used' = used /\ loop'.pendingReads = pr /\ worker'.jobs = worker.jobs
      /\ worker'.pendingCMDs = worker.pendingCMDs
      /\ worker'.pendingChangePeerCMD = worker.pendingChangePeerCMD
  BY <1>1, <1>2, <1>3 DEF handleApplyResult, WorkerState, LoopState
<1>6. /\ q \in Seq(Slots) /\ Range(q) \subseteq Range(loop.pendingReads) /\ Distinct(pr)
      /\ Range(pr) \subseteq Range(loop.pendingReads) \ Range(q)
  BY <1>1, <1>3, DistinctFrom, UptoProps, Zenon
<1> QED
  BY <1>1, <1>4, <1>5, <1>6, ReadsAnswered, SMTT(30)

\* The other steps leave the pool alone, and refuse requests if they answer any.
LEMMA OtherAck ==
  ASSUME NoReuse, AckInv,
         (\E r \in Req : OnProxyReq(r)) \/ Raft \/ loopExit \/ clearData \/ UNCHANGED vars
  PROVE  PoolInv' /\ NewOks
<1>1. /\ TypeOK /\ PoolInv /\ worker \in WorkerState /\ loop \in LoopState
      /\ DistinctJobs(worker.jobs) /\ answers \in [Req -> Seq(Kinds)]
  BY Zenon DEF AckInv, IndInv, TypeOK, PoolInv
<1>2. ASSUME used' = used, cmds' = cmds, loop'.pendingReads = loop.pendingReads,
             worker'.pendingCMDs = worker.pendingCMDs, worker'.jobs = worker.jobs,
             worker'.pendingChangePeerCMD = worker.pendingChangePeerCMD
      PROVE  PoolInv'
  BY <1>1, <1>2, PoolFrame
<1>3. ASSUME answers' = answers PROVE NewOks
  BY <1>3 DEF NewOks
<1>4. ASSUME NEW r \in Req, OnProxyReq(r) PROVE PoolInv' /\ NewOks
  <2>1. /\ used' = used /\ cmds' = cmds /\ worker' = worker /\ loop'.pendingReads = loop.pendingReads
    BY <1>1, <1>4 DEF OnProxyReq, LoopState
  <2>2. \A x \in Req : answers'[x] = answers[x] \/ answers'[x] = Append(answers[x], "nomatch")
    BY <1>1, <1>4 DEF OnProxyReq
  <2>3. NewOks
    BY <1>1, <2>2, RefusedNoOk, Zenon
  <2> QED BY <1>2, <2>1, <2>3
<1>5. CASE loopExit
  <2>1. /\ used' = used /\ cmds' = cmds /\ worker' = worker /\ loop'.pendingReads = loop.pendingReads
    BY <1>1, <1>5 DEF loopExit, LoopState
  <2>2. \A x \in Req : answers'[x] = answers[x] \/ answers'[x] = Append(answers[x], "nomatch")
    BY <1>5 DEF loopExit
  <2>3. NewOks
    BY <1>1, <2>2, RefusedNoOk, Zenon
  <2> QED BY <1>2, <2>1, <2>3
<1>6. CASE clearData
  <2>1. /\ used' = used /\ cmds' = cmds /\ loop' = loop /\ answers' = answers
        /\ worker'.pendingCMDs = worker.pendingCMDs /\ worker'.jobs = worker.jobs
        /\ worker'.pendingChangePeerCMD = worker.pendingChangePeerCMD
    BY <1>1, <1>6 DEF clearData, WorkerState
  <2> QED BY <1>2, <1>3, <2>1
<1>7. CASE Raft
  <2>1. used' = used /\ cmds' = cmds /\ loop' = loop /\ answers' = answers /\ worker' = worker
    BY <1>7, Zenon DEF Raft, BecomeLeader, OtherBecomesLeader, BecomeFollower, OtherProposes,
                AppendFromLeader, Choose, CommitTo, RestoreSnapshot, ConfirmReads
  <2> QED BY <1>2, <1>3, <2>1
<1>8. CASE UNCHANGED vars
  <2>1. used' = used /\ cmds' = cmds /\ loop' = loop /\ answers' = answers /\ worker' = worker
    BY <1>8 DEF vars
  <2> QED BY <1>2, <1>3, <2>1
<1> QED
  BY <1>4, <1>5, <1>6, <1>7, <1>8

-----------------------------------------------------------------------------
\* The result.

\* Initially nothing is held, chosen or answered.
LEMMA InitAck == Init => AckInv
<1> SUFFICES ASSUME Init PROVE AckInv
  OBVIOUS
<1>1. IndInv
  BY InitInd
<1>2. LogInv
  <2>1. raft.log = <<>> /\ group.rest = <<>> /\ group.chosen = <<>> /\ group.lead = "none"
    BY Zenon DEF Init
  <2>2. Plain(<<>>)
    BY DEF Plain
  <2> QED BY <2>1, <2>2 DEF LogInv
<1>3. PoolInv
  <2>1. /\ loop.pendingReads = <<>> /\ worker.pendingCMDs = <<>> /\ worker.jobs = <<>>
        /\ worker.pendingChangePeerCMD = Nil /\ \A s \in Slots : cmds[s] = NoCmd
    BY Zenon DEF Init
  <2>2. DistinctJobs(<<>>) /\ JobCmds(<<>>, TRUE) = {} /\ JobCmds(<<>>, FALSE) = {}
    BY DEF DistinctJobs, JobCmds, Proposing
  <2> QED BY <2>1, <2>2, RangeSmall, Zenon DEF PoolInv, ChangeHeld
<1>4. AckedIsApplied
  <2>1. \A r \in Writes : answers[r] = <<>>
    BY Zenon DEF Init, Req
  <2> QED BY <2>1, RangeSmall DEF AckedIsApplied
<1> QED
  BY <1>1, <1>2, <1>3, <1>4 DEF AckInv

\* Every step preserves the invariant.
LEMMA NextAck == NoReuse /\ AckInv /\ [Next]_vars => AckInv'
<1> SUFFICES ASSUME NoReuse, AckInv, [Next]_vars PROVE AckInv'
  OBVIOUS
<1>1. IndInv /\ LogInv /\ AckedIsApplied
  BY DEF AckInv
<1>2. IndInv'
  BY <1>1, NextInd
<1>3. LogInv' /\ Begins(group.chosen, group'.chosen)
  BY <1>1, LogStep
<1>4. PoolInv' /\ NewOks
  <2>1. CASE EventLoop
    BY <2>1, handleRequestAck, handleReadyAck, handleApplyResultAck, OtherAck, SMTT(30) DEF EventLoop
  <2>2. CASE ApplyWorker
    BY <2>2, doProposeAck, applyEmptyEntryAck, applyNormalEntryAck, applyConfEntryAck,
       destroyDelegateAck, JobTakenAck, doRegistrationJobAck DEF ApplyWorker
  <2> QED BY <2>1, <2>2, OtherAck DEF Next
<1>5. AckedIsApplied'
  BY <1>1, <1>2, <1>3, <1>4, AppliedGrows, AckStep, SMTT(30)
<1> QED
  BY <1>2, <1>3, <1>4, <1>5 DEF AckInv

\* A write is acknowledged only when its entry is chosen and already applied here,
\* through any elections, snapshots, splits and removals: the delegate's findCB gives
\* the answer of an entry to the command that proposed it, and resp is never called
\* on an object that has meanwhile been handed to another command.
THEOREM WritesAckedWhenApplied == NoReuse => (Spec => []AckedIsApplied)
<1>1. Init => AckInv
  BY InitAck
<1>2. NoReuse /\ AckInv /\ [Next]_vars => AckInv'
  BY NextAck
<1>3. AckInv => AckedIsApplied
  BY DEF AckInv
<1> SUFFICES ASSUME NoReuse PROVE Spec => []AckedIsApplied
  OBVIOUS
<1>4. AckInv /\ [Next]_vars => AckInv'
  BY <1>2
<1> QED
  BY <1>1, <1>3, <1>4, PTL DEF Spec
=============================================================================
