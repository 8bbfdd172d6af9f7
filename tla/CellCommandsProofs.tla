------------------------- MODULE CellCommandsProofs -------------------------
(***************************************************************************)
(* The steps of the apply worker keep the inductive invariant of           *)
(* CellCommands, and the theorems: for any workload, number of elections   *)
(* and of snapshots the types are kept and committed entries are applied   *)
(* in order.                                                               *)
(***************************************************************************)
EXTENDS CellCommandsInvariant

-----------------------------------------------------------------------------
\* The steps of the apply worker.

\* What is known when the worker takes the first job of its queue.
LEMMA HeadJob ==
  ASSUME IndInv, worker.jobs # <<>>
  PROVE  /\ worker.jobs \in Seq(Job) /\ Head(worker.jobs) = worker.jobs[1]
         /\ worker.jobs[1] \in Job /\ Tail(worker.jobs) \in Seq(Job)
         /\ \E pos \in [0..Len(worker.jobs) -> 0..Len(group.chosen)] :
               /\ Leads(pos, worker.jobs, loop.lastReadyIndex)
               /\ pos[0] \in Nat /\ pos[1] \in Nat /\ pos[1] <= Len(group.chosen)
               /\ worker.applied <= pos[0] /\ (worker.alive => worker.applied = pos[0])
               /\ Moves(worker.jobs[1], TRUE, pos[0], pos[1])
<1>1. worker.jobs \in Seq(Job) /\ Len(group.chosen) \in Nat
  BY WorkerFields, GroupFields DEF IndInv, TypeOK
<1>2. Head(worker.jobs) = worker.jobs[1] /\ worker.jobs[1] \in Job /\ Tail(worker.jobs) \in Seq(Job)
      /\ Len(worker.jobs) \in Nat \ {0}
  BY <1>1
<1>3. PICK pos \in [0..Len(worker.jobs) -> 0..Len(group.chosen)] :
        Leads(pos, worker.jobs, loop.lastReadyIndex)
  BY DEF IndInv, Contiguous, Queue
<1>4. 0 \in 0..Len(worker.jobs) /\ 1 \in 0..Len(worker.jobs) /\ 1 \in 1..Len(worker.jobs)
  BY <1>2
<1>5. pos[0] \in 0..Len(group.chosen) /\ pos[1] \in 0..Len(group.chosen)
  BY <1>4
<1>6. Moves(worker.jobs[1], 1 = 1, pos[1 - 1], pos[1])
  BY <1>3, <1>4 DEF Leads
<1>7. Moves(worker.jobs[1], TRUE, pos[0], pos[1])
  BY <1>6 DEF Moves
<1>8. worker.applied <= pos[0] /\ (worker.alive => worker.applied = pos[0])
  BY <1>3 DEF Leads
<1>9. pos[0] \in Nat /\ pos[1] \in Nat /\ pos[1] <= Len(group.chosen)
  BY <1>1, <1>5
<1> QED
  BY <1>1, <1>2, <1>3, <1>7, <1>8, <1>9, Zenon

\* The fields of a queued job, by type of job.
LEMMA JobFields ==
  ASSUME NEW j \in Job
  PROVE  /\ j.type = "propose" => j.cmd \in Slots /\ j.conf \in BOOLEAN
         /\ j.type = "apply" => j \in [type : {"apply"}, next : Nat, upto : Nat]
         /\ j.type = "register" => j.applied \in Nat /\ j.term \in Nat /\ j.ver \in Nat
BY DEF Job

\* An apply job with its next entry moved on is still a job.
LEMMA AdvanceJob ==
  ASSUME NEW j \in [type : {"apply"}, next : Nat, upto : Nat], NEW n \in Nat
  PROVE  /\ [j EXCEPT !.next = n] \in Job /\ [j EXCEPT !.next = n].type = "apply"
         /\ [j EXCEPT !.next = n].next = n /\ [j EXCEPT !.next = n].upto = j.upto
<1>1. [j EXCEPT !.next = n] \in [type : {"apply"}, next : Nat, upto : Nat]
  OBVIOUS
<1>2. /\ [j EXCEPT !.next = n].type = "apply"
      /\ [j EXCEPT !.next = n].next = n /\ [j EXCEPT !.next = n].upto = j.upto
  OBVIOUS
<1> QED
  BY <1>1, <1>2, Zenon DEF Job

\* The pending conf change of the delegate stays nil or a cmd object.
LEMMA PendingChangeType ==
  ASSUME TypeOK
  PROVE  PendingChange \in Seq(Slots)
<1>1. worker.pendingChangePeerCMD \in Slots \cup {Nil}
  BY WorkerFields DEF TypeOK
<1> QED
  BY <1>1 DEF PendingChange

\* A step of the worker that ends the job in progress and leaves raft and the
\* loop's lastReadyIndex alone.
LEMMA JobDone ==
  ASSUME IndInv, worker.jobs # <<>>, TypeOK', fault' # "index", raft' = raft, group' = group,
         loop'.lastReadyIndex = loop.lastReadyIndex, worker'.jobs = Tail(worker.jobs),
         NEW pos \in [0..Len(worker.jobs) -> 0..Len(group.chosen)],
         Leads(pos, worker.jobs, loop.lastReadyIndex),
         worker'.applied <= pos[1], worker'.alive => worker'.applied = pos[1]
  PROVE  IndInv'
<1>1. Contiguous'
  BY HeadJob, TailContiguous
<1>2. Indices'
  BY DEF IndInv, Indices
<1> QED
  BY <1>1, <1>2 DEF IndInv, AppliedInOrder

\* Registering a pending command with the delegate finishes the propose job.
LEMMA doProposeInd ==
  ASSUME IndInv, doPropose
  PROVE  IndInv'
<1> DEFINE job == worker.jobs[1]
<1>1. TypeOK /\ worker \in WorkerState /\ worker.applied \in Nat /\ worker.pendingCMDs \in Seq(Slots)
      /\ worker.pendingChangePeerCMD \in Slots \cup {Nil} /\ worker.alive \in BOOLEAN
  BY WorkerFields DEF IndInv, TypeOK
<1>2. worker.jobs # <<>> /\ Head(worker.jobs).type = "propose"
  BY DEF doPropose, JobIs
<1>3. PICK pos \in [0..Len(worker.jobs) -> 0..Len(group.chosen)] :
               /\ Leads(pos, worker.jobs, loop.lastReadyIndex)
               /\ pos[0] \in Nat /\ pos[1] \in Nat
               /\ worker.applied <= pos[0] /\ (worker.alive => worker.applied = pos[0])
               /\ Moves(worker.jobs[1], TRUE, pos[0], pos[1])
  BY <1>2, HeadJob, Zenon
<1>4. Head(worker.jobs) = job /\ job \in Job /\ Tail(worker.jobs) \in Seq(Job)
  BY <1>2, HeadJob
<1>5. job.cmd \in Slots /\ pos[1] = pos[0]
  BY <1>2, <1>3, <1>4, JobFields DEF Moves
<1>6. answers' \in [Req -> Seq(Kinds)] /\ cmds' \in [Slots -> Cmd] /\ fault' \in {"nil", "none"}
  <2>1. PendingChange \in Seq(Slots) /\ <<>> \in Seq(Slots) /\ <<job.cmd>> \in Seq(Slots)
        /\ "removed" \in Kinds /\ "stale" \in Kinds
    BY <1>1, <1>5, PendingChangeType DEF Kinds
  <2>2. (IF job.conf THEN PendingChange ELSE <<>>) \in Seq(Slots)
    BY <2>1, Zenon
  <2>3. IF ~worker.alive THEN resp(<<job.cmd>>, "removed")
        ELSE resp(IF job.conf THEN PendingChange ELSE <<>>, "stale")
    BY <1>4 DEF doPropose
  <2>4. CASE worker.alive
    BY <1>1, <2>1, <2>2, <2>3, <2>4, RespType, Zenon
  <2>5. CASE ~worker.alive
    BY <1>1, <2>1, <2>3, <2>5, RespType, Zenon
  <2> QED BY <2>4, <2>5
<1>7. PICK p \in Seq(Slots), c \in Slots \cup {Nil} :
        worker' = [worker EXCEPT !.jobs = Tail(worker.jobs), !.pendingCMDs = p,
                                 !.pendingChangePeerCMD = c]
  <2> DEFINE p1 == IF worker.alive /\ ~job.conf THEN Append(worker.pendingCMDs, job.cmd)
                   ELSE worker.pendingCMDs
             c1 == IF worker.alive /\ job.conf THEN job.cmd ELSE worker.pendingChangePeerCMD
  <2>1. p1 \in Seq(Slots) /\ c1 \in Slots \cup {Nil}
    BY <1>1, <1>5, AppendProperties
  <2>2. worker' = [worker EXCEPT !.jobs = Tail(worker.jobs), !.pendingCMDs = p1,
                                 !.pendingChangePeerCMD = c1]
    BY <1>4 DEF doPropose
  <2> HIDE DEF p1, c1
  <2> QED BY <2>1, <2>2, Zenon
<1>8. worker' \in WorkerState
  BY <1>1, <1>4, <1>7, Zenon DEF WorkerState
<1>9. worker'.jobs = Tail(worker.jobs) /\ worker'.applied = worker.applied
      /\ worker'.alive = worker.alive
  BY <1>1, <1>7 DEF WorkerState
<1>10. raft' = raft /\ group' = group /\ loop' = loop /\ used' = used /\ reads' = reads
  BY DEF doPropose
<1>11. TypeOK'
  BY <1>1, <1>6, <1>8, <1>10 DEF TypeOK
<1>12. worker'.applied <= pos[1] /\ (worker'.alive => worker'.applied = pos[1])
  BY <1>3, <1>5, <1>9
<1> QED
  BY <1>2, <1>3, <1>6, <1>9, <1>10, <1>11, <1>12, JobDone

\* The indices popPendingCMD may pop lie in the pending commands.
LEMMA PoppableType ==
  ASSUME TypeOK, NEW term
  PROVE  Poppable(term) \in 0..Len(worker.pendingCMDs)
<1> DEFINE p == worker.pendingCMDs
           S == {n \in 0..Len(p) : \A i \in 1..n : cmds[p[i]].term <= term}
<1>1. Len(p) \in Nat
  BY WorkerFields DEF TypeOK
<1>2. 0 \in S
  BY <1>1
<1>3. S \in SUBSET (0..Len(p)) /\ S # {}
  BY <1>2, Zenon
<1>4. Max(S) \in S
  BY <1>1, <1>3, MaxNat, Zenon
<1> QED
  BY <1>3, <1>4, Zenon DEF Poppable

\* findCB returns a cmd object or none, and the ones it passed over.
LEMMA FindCBType ==
  ASSUME TypeOK, NEW e
  PROVE  FindCB(e) \in 0..Len(worker.pendingCMDs)
<1> DEFINE p == worker.pendingCMDs
           hits == {i \in 1..Poppable(e.term) : cmds[p[i]].reqs = e.reqs}
<1>1. Len(p) \in Nat /\ Poppable(e.term) \in 0..Len(p)
  BY WorkerFields, PoppableType DEF TypeOK
<1>2. 1..Poppable(e.term) \subseteq 0..Len(p) /\ 0..Len(p) \subseteq Nat /\ 0 \in 0..Len(p)
  BY <1>1
<1>3. hits \in SUBSET Nat /\ hits \subseteq 0..Len(p)
  BY <1>2, Zenon
<1>4. hits # {} => Min(hits) \in hits
  BY <1>3, MinNat, Zenon
<1> QED
  BY <1>2, <1>3, <1>4, Zenon DEF FindCB

\* The worker only finds entries that are chosen, and the one its delegate expects.
LEMMA EntryReady ==
  ASSUME IndInv, CanApply
  PROVE  /\ worker.applied + 1 \in 1..Len(group.chosen) /\ NextEntry \in Entry
         /\ BadIndex = "none"
<1>1. worker.jobs # <<>> /\ Head(worker.jobs).type = "apply" /\ worker.alive /\ ~worker.pendingRemove
  BY DEF CanApply, JobIs
<1>2. worker.applied \in Nat /\ group.chosen \in Seq(Entry) /\ Len(group.chosen) \in Nat
  BY WorkerFields, GroupFields DEF IndInv, TypeOK
<1>3. PICK pos \in [0..Len(worker.jobs) -> 0..Len(group.chosen)] :
               /\ pos[0] \in Nat /\ pos[1] \in Nat /\ pos[1] <= Len(group.chosen)
               /\ worker.alive => worker.applied = pos[0]
               /\ Moves(worker.jobs[1], TRUE, pos[0], pos[1])
  BY <1>1, HeadJob, Zenon
<1>4. Head(worker.jobs) = worker.jobs[1]
  BY <1>1, HeadJob
<1>5. Head(worker.jobs).next = worker.applied + 1 /\ worker.applied + 1 <= Len(group.chosen)
  BY <1>1, <1>2, <1>3, <1>4 DEF Moves
<1>6. BadIndex = "none"
  BY <1>5 DEF BadIndex
<1>7. worker.applied + 1 \in 1..Len(group.chosen)
  BY <1>2, <1>5
<1> QED
  BY <1>2, <1>6, <1>7, ElementOfSeq DEF NextEntry

\* One applied entry: the applied index moves to the entry's index, the job to the
\* next entry, and the result is queued for the event loop.
LEMMA AppliedInd ==
  ASSUME IndInv, CanApply, NEW result, Applied(NextEntry, result),
         answers' \in [Req -> Seq(Kinds)], cmds' \in [Slots -> Cmd], fault' \in {"nil", "none"},
         raft' = raft, group' = group, used' = used, reads' = reads
  PROVE  IndInv'
<1> DEFINE e == NextEntry
           job == worker.jobs[1]
           i == worker.applied + 1
           t == IF e.type = "empty" THEN e.term ELSE worker.appliedIndexTerm
           removed == result = "removed"
           split == result = "ok" /\ Range(e.reqs) \cap Splits # {}
           step == [job EXCEPT !.next = i + 1]
           jobs == IF i = job.upto /\ ~removed THEN Tail(worker.jobs) ELSE [worker.jobs EXCEPT ![1] = step]
           v == IF split THEN worker.ver + 1 ELSE worker.ver
           k == 1 + (IF FindCB(e) > 0 THEN FindCB(e)
                     ELSE Poppable(IF e.type = "empty" THEN StaleTerm(e) ELSE e.term))
           p == IF e.type = "conf" THEN worker.pendingCMDs ELSE From(worker.pendingCMDs, k)
           report == [index |-> i, term |-> t, split |-> split,
                      conf |-> e.type = "conf", removed |-> removed]
<1>1. /\ TypeOK /\ worker \in WorkerState /\ loop \in LoopState /\ group \in GroupState
      /\ worker.applied \in Nat /\ worker.ver \in Nat
      /\ worker.appliedIndexTerm \in Nat /\ worker.pendingCMDs \in Seq(Slots)
      /\ loop.results \in Seq(Result) /\ Len(worker.pendingCMDs) \in Nat
  BY WorkerFields, LoopFields DEF IndInv, TypeOK
<1>2. worker.jobs # <<>> /\ Head(worker.jobs).type = "apply" /\ worker.alive /\ ~worker.pendingRemove
  BY DEF CanApply, JobIs
<1>3. PICK pos \in [0..Len(worker.jobs) -> 0..Len(group.chosen)] :
               /\ Leads(pos, worker.jobs, loop.lastReadyIndex)
               /\ pos[0] \in Nat /\ pos[1] \in Nat
               /\ worker.alive => worker.applied = pos[0]
               /\ Moves(worker.jobs[1], TRUE, pos[0], pos[1])
  BY <1>2, HeadJob, Zenon
<1>4. Head(worker.jobs) = job /\ job \in Job /\ Tail(worker.jobs) \in Seq(Job) /\ worker.jobs \in Seq(Job)
  BY <1>2, HeadJob
<1>5. /\ job \in [type : {"apply"}, next : Nat, upto : Nat] /\ job.upto = pos[1]
      /\ i = pos[0] + 1 /\ i <= pos[1] /\ i \in Nat
  BY <1>1, <1>2, <1>3, <1>4, JobFields DEF Moves
<1>6. step \in Job /\ step.type = "apply" /\ step.next = pos[0] + 2 /\ step.upto = pos[1]
  <2>1. i + 1 \in Nat /\ i + 1 = pos[0] + 2
    BY <1>3, <1>5
  <2> HIDE DEF job, i
  <2> QED BY <1>5, <2>1, AdvanceJob
<1>7. e \in Entry /\ e.term \in Nat
  BY EntryReady DEF Entry
<1>8. t \in Nat /\ v \in Nat /\ removed \in BOOLEAN /\ split \in BOOLEAN /\ (e.type = "conf") \in BOOLEAN
  BY <1>1, <1>7
<1>9. p \in Seq(Slots)
  <2>1. FindCB(e) \in Nat /\ \A term : Poppable(term) \in Nat
    BY <1>1, FindCBType, PoppableType
  <2>2. k \in Nat \ {0}
    BY <2>1
  <2>3. From(worker.pendingCMDs, k) \in Seq(Slots)
    BY <1>1, <2>2, FromProps
  <2> HIDE DEF k
  <2> QED BY <1>1, <2>3, Zenon
<1>10. jobs \in Seq(Job)
  <2>1. 1 \in 1..Len(worker.jobs)
    BY <1>2, <1>4
  <2>2. [worker.jobs EXCEPT ![1] = step] \in Seq(Job)
    BY <1>4, <1>6, <2>1, ExceptSeq
  <2> HIDE DEF step
  <2> QED BY <1>4, <2>2
<1>11. report \in Result
  BY <1>5, <1>8 DEF Result
<1>12. /\ worker' = [worker EXCEPT !.jobs = jobs, !.applied = i, !.appliedIndexTerm = t, !.ver = v,
                                   !.pendingCMDs = p, !.pendingRemove = removed]
       /\ loop' = IF loop.disposed THEN loop
                  ELSE [loop EXCEPT !.results = Append(loop.results, report)]
  BY <1>4 DEF Applied
<1> HIDE DEF e, job, i, t, removed, split, step, v, p, report
<1>13. worker' \in WorkerState
  <2> HIDE DEF jobs
  <2> QED BY <1>1, <1>5, <1>8, <1>9, <1>10, <1>12, Zenon DEF WorkerState
<1>14. worker'.jobs = jobs /\ worker'.applied = i /\ worker'.alive = worker.alive
       /\ worker'.pendingRemove = removed
  <2> HIDE DEF jobs
  <2> QED BY <1>1, <1>12 DEF WorkerState
<1>15. loop' \in LoopState
  <2>1. Append(loop.results, report) \in Seq(Result)
    BY <1>1, <1>11, AppendProperties
  <2> QED BY <1>1, <1>12, <2>1, Zenon DEF LoopState
<1>16. loop'.lastReadyIndex = loop.lastReadyIndex
  BY <1>1, <1>12 DEF LoopState
<1>17. TypeOK'
  BY <1>1, <1>13, <1>15 DEF TypeOK
<1>18. CASE i = job.upto /\ ~removed
  <2>1. worker'.jobs = Tail(worker.jobs) /\ worker'.applied = pos[1]
    BY <1>5, <1>14, <1>18
  <2> QED BY <1>2, <1>3, <1>16, <1>17, <2>1, JobDone
<1>19. CASE ~(i = job.upto /\ ~removed)
  <2>1. worker'.jobs = [worker.jobs EXCEPT ![1] = step] /\ worker'.applied = pos[0] + 1
        /\ (worker'.pendingRemove \/ pos[0] + 2 <= pos[1]) /\ pos[0] < pos[1]
    BY <1>3, <1>5, <1>14, <1>19
  <2>2. Contiguous'
    BY <1>2, <1>3, <1>4, <1>6, <1>16, <2>1, StepContiguous, Zenon
  <2>3. Indices'
    BY <1>16 DEF IndInv, Indices
  <2> QED BY <1>17, <2>2, <2>3 DEF IndInv, AppliedInOrder
<1> QED
  BY <1>18, <1>19

\* Applying the empty entry of a new leader keeps the invariant.
LEMMA applyEmptyEntryInd ==
  ASSUME IndInv, applyEmptyEntry
  PROVE  IndInv'
<1> DEFINE q == Upto(worker.pendingCMDs, Poppable(StaleTerm(NextEntry)))
           how == [s \in Range(q) |-> "stale"]
<1>1. TypeOK /\ worker.pendingCMDs \in Seq(Slots) /\ Len(worker.pendingCMDs) \in Nat
  BY WorkerFields DEF IndInv, TypeOK
<1>2. Poppable(StaleTerm(NextEntry)) \in Nat
  BY <1>1, PoppableType
<1>3. q \in Seq(Slots)
  BY <1>1, <1>2, UptoProps
<1>4. CanApply /\ respAll(q, how, BadIndex) /\ Applied(NextEntry, "ok")
      /\ UNCHANGED <<raft, group, used, reads>>
  BY DEF applyEmptyEntry
<1>5. BadIndex = "none" /\ "none" \in Faults
  BY <1>4, EntryReady DEF Faults
<1>6. \A s \in Range(q) : how[s] \in Kinds
  BY DEF Kinds
<1> HIDE DEF q, how
<1>7. answers' \in [Req -> Seq(Kinds)] /\ cmds' \in [Slots -> Cmd] /\ fault' \in {"nil", "none"}
  BY <1>1, <1>3, <1>4, <1>5, <1>6, RespAllType
<1> QED
  BY <1>4, <1>7, AppliedInd

\* Applying a normal entry keeps the invariant.
LEMMA applyNormalEntryInd ==
  ASSUME IndInv, applyNormalEntry
  PROVE  IndInv'
<1> DEFINE hit == FindCB(NextEntry)
           k == IF hit > 0 THEN hit ELSE Poppable(NextEntry.term)
           q == Upto(worker.pendingCMDs, k)
           result == IF checkEpoch(NextEntry) THEN "ok" ELSE "epoch"
           how == [s \in Range(q) |-> IF hit > 0 /\ s = q[Len(q)] THEN result ELSE "stale"]
<1>1. TypeOK /\ worker.pendingCMDs \in Seq(Slots) /\ Len(worker.pendingCMDs) \in Nat
  BY WorkerFields DEF IndInv, TypeOK
<1>2. k \in Nat
  <2>1. hit \in Nat /\ Poppable(NextEntry.term) \in Nat
    BY <1>1, FindCBType, PoppableType
  <2> QED BY <2>1
<1>3. q \in Seq(Slots)
  <2> HIDE DEF k
  <2> QED BY <1>1, <1>2, UptoProps
<1>4. CanApply /\ respAll(q, how, BadIndex) /\ Applied(NextEntry, result)
      /\ UNCHANGED <<raft, group, used, reads>>
  BY DEF applyNormalEntry
<1>5. BadIndex = "none" /\ "none" \in Faults
  BY <1>4, EntryReady DEF Faults
<1>6. \A s \in Range(q) : how[s] \in Kinds
  BY DEF Kinds
<1> HIDE DEF q, how, result
<1>7. answers' \in [Req -> Seq(Kinds)] /\ cmds' \in [Slots -> Cmd] /\ fault' \in {"nil", "none"}
  BY <1>1, <1>3, <1>4, <1>5, <1>6, RespAllType
<1> QED
  BY <1>4, <1>7, AppliedInd

\* Applying a conf change entry keeps the invariant.
LEMMA applyConfEntryInd ==
  ASSUME IndInv, NEW result \in ConfResults, applyConfEntry(result)
  PROVE  IndInv'
<1> DEFINE p == PendingChange
           mine == p # <<>> /\ NextEntry.reqs # <<>> /\ cmds[p[1]].reqs = NextEntry.reqs
           q == IF mine /\ result = "noop" THEN <<>> ELSE p
           how == [s \in Range(p) |-> IF ~mine THEN "stale"
                                      ELSE IF result = "epoch" THEN "epoch" ELSE "ok"]
<1>1. TypeOK /\ p \in Seq(Slots)
  BY PendingChangeType DEF IndInv
<1>2. q \in Seq(Slots) /\ Range(q) \subseteq Range(p)
  <2>1. <<>> \in Seq(Slots) /\ Range(<<>>) = {}
    BY DEF Range
  <2> QED BY <1>1, <2>1, Zenon
<1>3. CanApply /\ respAll(q, how, BadIndex) /\ Applied(NextEntry, result)
      /\ UNCHANGED <<raft, group, used, reads>>
  BY DEF applyConfEntry
<1>4. BadIndex = "none" /\ "none" \in Faults
  BY <1>3, EntryReady DEF Faults
<1>5. \A s \in Range(p) : how[s] \in Kinds
  BY DEF Kinds
<1>6. \A s \in Range(q) : how[s] \in Kinds
  BY <1>2, <1>5, Zenon
<1> HIDE DEF q, how
<1>7. answers' \in [Req -> Seq(Kinds)] /\ cmds' \in [Slots -> Cmd] /\ fault' \in {"nil", "none"}
  BY <1>1, <1>2, <1>3, <1>4, <1>6, RespAllType
<1> QED
  BY <1>3, <1>7, AppliedInd

\* The destroyed delegate answers its pending commands and applies nothing more.
LEMMA destroyDelegateInd ==
  ASSUME IndInv, destroyDelegate
  PROVE  IndInv'
<1> DEFINE q == worker.pendingCMDs \o PendingChange
<1>1. TypeOK /\ worker \in WorkerState /\ worker.applied \in Nat /\ worker.pendingCMDs \in Seq(Slots)
  BY WorkerFields DEF IndInv, TypeOK
<1>2. worker.jobs # <<>>
  BY DEF destroyDelegate, JobIs
<1>3. PICK pos \in [0..Len(worker.jobs) -> 0..Len(group.chosen)] :
               /\ Leads(pos, worker.jobs, loop.lastReadyIndex)
               /\ pos[0] \in Nat /\ pos[1] \in Nat /\ worker.applied <= pos[0]
               /\ Moves(worker.jobs[1], TRUE, pos[0], pos[1])
  BY <1>2, HeadJob, Zenon
<1>4. q \in Seq(Slots) /\ "removed" \in Kinds /\ resp(q, "removed")
  BY <1>1, PendingChangeType, ConcatProperties DEF Kinds, destroyDelegate
<1>5. answers' \in [Req -> Seq(Kinds)] /\ cmds' \in [Slots -> Cmd] /\ fault' \in {"nil", "none"}
  BY <1>1, <1>4, RespType, Zenon
<1>6. worker' = [worker EXCEPT !.jobs = Tail(worker.jobs), !.alive = FALSE, !.pendingCMDs = <<>>,
                               !.pendingChangePeerCMD = Nil]
      /\ UNCHANGED <<raft, group, loop, used, reads>>
  BY DEF destroyDelegate
<1>7. Tail(worker.jobs) \in Seq(Job) /\ <<>> \in Seq(Slots) /\ Nil \in Slots \cup {Nil}
  BY <1>2, HeadJob
<1>8. worker' \in WorkerState
  BY <1>1, <1>6, <1>7, Zenon DEF WorkerState
<1>9. worker'.jobs = Tail(worker.jobs) /\ worker'.applied = worker.applied /\ worker'.alive = FALSE
  BY <1>1, <1>6 DEF WorkerState
<1>10. TypeOK'
  BY <1>1, <1>5, <1>6, <1>8 DEF TypeOK
<1>11. worker'.applied <= pos[1]
  BY <1>1, <1>3, <1>9 DEF Moves
<1> QED
  BY <1>2, <1>3, <1>5, <1>6, <1>9, <1>10, <1>11, JobDone

\* A job that finds no delegate is skipped and applies nothing.
LEMMA missingDelegateInd ==
  ASSUME IndInv, missingDelegate
  PROVE  IndInv'
<1>1. TypeOK /\ worker \in WorkerState /\ worker.applied \in Nat
  BY WorkerFields DEF IndInv, TypeOK
<1>2. worker.jobs # <<>> /\ fault = "none" /\ ~worker.alive
  BY DEF missingDelegate, JobIs
<1>3. PICK pos \in [0..Len(worker.jobs) -> 0..Len(group.chosen)] :
               /\ Leads(pos, worker.jobs, loop.lastReadyIndex)
               /\ pos[0] \in Nat /\ pos[1] \in Nat /\ worker.applied <= pos[0]
               /\ Moves(worker.jobs[1], TRUE, pos[0], pos[1])
  BY <1>2, HeadJob, Zenon
<1>4. worker' = [worker EXCEPT !.jobs = Tail(worker.jobs)]
      /\ UNCHANGED <<raft, group, loop, cmds, used, answers, reads, fault>>
  BY DEF missingDelegate
<1>5. Tail(worker.jobs) \in Seq(Job)
  BY <1>2, HeadJob
<1>6. worker' \in WorkerState
  BY <1>1, <1>4, <1>5, Zenon DEF WorkerState
<1>7. worker'.jobs = Tail(worker.jobs) /\ worker'.applied = worker.applied
      /\ worker'.alive = worker.alive
  BY <1>1, <1>4 DEF WorkerState
<1>8. TypeOK'
  BY <1>1, <1>4, <1>6 DEF TypeOK
<1>9. worker'.applied <= pos[1]
  BY <1>1, <1>3, <1>7 DEF Moves
<1> QED
  BY <1>2, <1>3, <1>4, <1>7, <1>8, <1>9, JobDone

\* Applying a snapshot leaves the delegate to the registration that follows.
LEMMA doApplyingSnapshotJobInd ==
  ASSUME IndInv, doApplyingSnapshotJob
  PROVE  IndInv'
<1>1. TypeOK /\ worker \in WorkerState /\ worker.applied \in Nat /\ loop \in LoopState
  BY WorkerFields DEF IndInv, TypeOK
<1>2. worker.jobs # <<>> /\ fault = "none" /\ Head(worker.jobs).type = "snap"
  BY DEF doApplyingSnapshotJob, JobIs
<1>3. PICK pos \in [0..Len(worker.jobs) -> 0..Len(group.chosen)] :
               /\ Leads(pos, worker.jobs, loop.lastReadyIndex)
               /\ pos[0] \in Nat /\ pos[1] \in Nat
               /\ worker.applied <= pos[0] /\ (worker.alive => worker.applied = pos[0])
               /\ Moves(worker.jobs[1], TRUE, pos[0], pos[1])
  BY <1>2, HeadJob, Zenon
<1>4. worker' = [worker EXCEPT !.jobs = Tail(worker.jobs)]
      /\ loop' = [loop EXCEPT !.applyingSnap = FALSE]
      /\ UNCHANGED <<raft, group, cmds, used, answers, reads, fault>>
  BY DEF doApplyingSnapshotJob
<1>5. Tail(worker.jobs) \in Seq(Job) /\ Head(worker.jobs) = worker.jobs[1]
  BY <1>2, HeadJob
<1>6. worker' \in WorkerState
  BY <1>1, <1>4, <1>5, Zenon DEF WorkerState
<1>7. worker'.jobs = Tail(worker.jobs) /\ worker'.applied = worker.applied
      /\ worker'.alive = worker.alive
  BY <1>1, <1>4 DEF WorkerState
<1>8. loop' \in LoopState
  BY <1>1, <1>4, Zenon DEF LoopState
<1>9. loop'.lastReadyIndex = loop.lastReadyIndex
  BY <1>1, <1>4 DEF LoopState
<1>10. TypeOK'
  BY <1>1, <1>4, <1>6, <1>8 DEF TypeOK
<1>11. worker'.applied <= pos[1] /\ (worker'.alive => worker'.applied = pos[1])
  BY <1>2, <1>3, <1>5, <1>7 DEF Moves
<1> QED
  BY <1>2, <1>3, <1>4, <1>7, <1>9, <1>10, <1>11, JobDone

\* The registration of a new delegate moves the applied index to the snapshot's.
LEMMA doRegistrationJobInd ==
  ASSUME IndInv, doRegistrationJob
  PROVE  IndInv'
<1> DEFINE job == worker.jobs[1]
           c == worker.pendingChangePeerCMD
           q == worker.pendingCMDs \o (IF c = Nil THEN <<>> ELSE <<c>>)
<1>1. TypeOK /\ worker \in WorkerState /\ worker.pendingCMDs \in Seq(Slots) /\ c \in Slots \cup {Nil}
  BY WorkerFields DEF IndInv, TypeOK
<1>2. worker.jobs # <<>> /\ Head(worker.jobs).type = "register"
  BY DEF doRegistrationJob, JobIs
<1>3. PICK pos \in [0..Len(worker.jobs) -> 0..Len(group.chosen)] :
               /\ Leads(pos, worker.jobs, loop.lastReadyIndex)
               /\ pos[0] \in Nat /\ pos[1] \in Nat
               /\ Moves(worker.jobs[1], TRUE, pos[0], pos[1])
  BY <1>2, HeadJob, Zenon
<1>4. Tail(worker.jobs) \in Seq(Job) /\ Head(worker.jobs) = job /\ job \in Job
  BY <1>2, HeadJob
<1>5. job.applied = pos[1] /\ job.applied \in Nat /\ job.term \in Nat /\ job.ver \in Nat
  BY <1>2, <1>3, <1>4, JobFields DEF Moves
<1>6. q \in Seq(Slots) /\ "stale" \in Kinds /\ resp(q, "stale")
  <2>1. (IF c = Nil THEN <<>> ELSE <<c>>) \in Seq(Slots)
    BY <1>1
  <2>2. q \in Seq(Slots)
    BY <1>1, <2>1, ConcatProperties
  <2> QED BY <2>2 DEF Kinds, doRegistrationJob
<1> HIDE DEF q
<1>7. answers' \in [Req -> Seq(Kinds)] /\ cmds' \in [Slots -> Cmd] /\ fault' \in {"nil", "none"}
  BY <1>1, <1>6, RespType, Zenon
<1>8. worker' = [worker EXCEPT
          !.jobs = Tail(worker.jobs), !.pendingCMDs = <<>>, !.pendingChangePeerCMD = Nil,
          !.alive = TRUE, !.pendingRemove = FALSE,
          !.applied = job.applied, !.appliedIndexTerm = job.term, !.ver = job.ver]
      /\ UNCHANGED <<raft, group, loop, used, reads>>
  BY <1>4 DEF doRegistrationJob
<1> HIDE DEF job
<1>9. <<>> \in Seq(Slots) /\ Nil \in Slots \cup {Nil}
  OBVIOUS
<1>10. worker' \in WorkerState
  BY <1>1, <1>4, <1>5, <1>8, <1>9, Zenon DEF WorkerState
<1>11. worker'.jobs = Tail(worker.jobs) /\ worker'.applied = job.applied
  BY <1>1, <1>8 DEF WorkerState
<1>12. TypeOK'
  BY <1>1, <1>7, <1>8, <1>10 DEF TypeOK
<1>13. worker'.applied <= pos[1] /\ worker'.applied = pos[1]
  BY <1>3, <1>5, <1>11
<1> QED
  BY <1>2, <1>3, <1>7, <1>8, <1>11, <1>12, <1>13, JobDone

-----------------------------------------------------------------------------
\* The theorems.

\* Every step keeps the inductive invariant.
LEMMA NextInd == IndInv /\ [Next]_vars => IndInv'
<1> SUFFICES ASSUME IndInv, [Next]_vars PROVE IndInv'
  OBVIOUS
<1>1. CASE \E r \in Req : OnProxyReq(r)
  BY <1>1, OnProxyReqInd
<1>2. CASE Raft
  BY <1>2, RaftInd
<1>3. CASE EventLoop
  BY <1>3, handleRequestInd, handleReadyInd, handleApplyResultInd, loopExitInd DEF EventLoop
<1>4. CASE ApplyWorker
  BY <1>4, doProposeInd, applyEmptyEntryInd, applyNormalEntryInd, applyConfEntryInd,
     destroyDelegateInd, missingDelegateInd, doApplyingSnapshotJobInd, doRegistrationJobInd
     DEF ApplyWorker
<1>5. CASE clearData
  BY <1>5, clearDataInd
<1>6. CASE UNCHANGED vars
  <2>1. Indices' /\ TypeOK' /\ AppliedInOrder'
    BY <1>6 DEF IndInv, Indices, TypeOK, AppliedInOrder, vars
  <2>2. group' = group /\ raft' = raft /\ loop' = loop /\ worker' = worker
    BY <1>6 DEF vars
  <2> QED BY <2>1, <2>2, SameQueue DEF AppliedInOrder
<1> QED
  BY <1>1, <1>2, <1>3, <1>4, <1>5, <1>6 DEF Next

\* Whatever the workload, the elections, the snapshots and the removals, the state of
\* the replica keeps its type.
THEOREM TypeCorrect == Spec => []TypeOK
<1>1. IndInv => TypeOK
  BY DEF IndInv
<1> QED
  BY <1>1, InitInd, NextInd, PTL DEF Spec

\* The contiguity check of the delegate's applyCommittedEntries never fails: no
\* entry is handed to it twice and none is skipped.
THEOREM EntriesAppliedInOrder == Spec => []AppliedInOrder
<1>1. IndInv => AppliedInOrder
  BY DEF IndInv
<1> QED
  BY <1>1, InitInd, NextInd, PTL DEF Spec
=============================================================================
