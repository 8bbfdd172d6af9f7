---------------------- MODULE CellCommandsPoolInvariant -----------------------
(***************************************************************************)
(* Who holds which cmd object.  The inductive invariant behind the results *)
(* about answers: a cmd object that waits in pendingReads, in a propose    *)
(* job or in pendingCMDs is held there alone and has not been freed, and   *)
(* the latest leader's log holds all that is chosen.  The facts about the  *)
(* queues of cmd objects, about the logs, and about applying an entry.     *)
(*                                                                         *)
(* The delegate never clears pendingChangePeerCMD, which so may point to a *)
(* freed object.  Once cmdPool has handed that object out again the next   *)
(* ChangePeer answers another command through it.  The results about the   *)
(* pool therefore assume that there are no ChangePeer commands, or that    *)
(* freed objects are not handed out again.                                 *)
(***************************************************************************)
EXTENDS CellCommandsProofs

\* Freed cmd objects are not reached through a pendingChangePeerCMD that is gone.
NoReuse == ~ReusePool \/ ConfChanges = {}

\* The requests that become normal entries.
Logged == Writes \cup Splits

-----------------------------------------------------------------------------
\* The inductive invariant.

Distinct(q) == \A i, j \in 1..Len(q) : q[i] = q[j] => i = j

\* The propose jobs of the queue, and the commands they carry.
Proposing(jobs) == {i \in 1..Len(jobs) : jobs[i].type = "propose"}
DistinctJobs(jobs) == \A i, j \in Proposing(jobs) : jobs[i].cmd = jobs[j].cmd => i = j
JobCmds(jobs, conf) == {jobs[i].cmd : i \in {k \in Proposing(jobs) : jobs[k].conf = conf}}

\* What a cmd object in use may hold.
ReadCmd(s) == cmds[s].reqs # <<>> /\ Range(cmds[s].reqs) \subseteq Reads
WriteCmd(s) == cmds[s].reqs # <<>> /\ Range(cmds[s].reqs) \cap Reads = {}
ChangeCmd(s) == cmds[s].reqs # <<>> /\ Range(cmds[s].reqs) \subseteq ConfChanges

\* A pendingChangePeerCMD is held there alone, or was freed for good.
ChangeHeld(s) ==
  s # Nil => /\ s \notin Range(worker.pendingCMDs) /\ s \notin Range(loop.pendingReads)
             /\ s \notin JobCmds(worker.jobs, TRUE) /\ s \notin JobCmds(worker.jobs, FALSE)
             /\ ChangeCmd(s) \/ (cmds[s] = NoCmd /\ ~ReusePool /\ s \in used)

PoolInv ==
  /\ Distinct(loop.pendingReads) /\ \A s \in Range(loop.pendingReads) : ReadCmd(s)
  /\ Distinct(worker.pendingCMDs) /\ \A s \in Range(worker.pendingCMDs) : WriteCmd(s)
  /\ DistinctJobs(worker.jobs) /\ JobCmds(worker.jobs, TRUE) \cap JobCmds(worker.jobs, FALSE) = {}
  /\ \A s \in JobCmds(worker.jobs, TRUE) : ChangeCmd(s)
  /\ \A s \in JobCmds(worker.jobs, FALSE) : WriteCmd(s)
  /\ Range(worker.pendingCMDs) \cap (JobCmds(worker.jobs, TRUE) \cup JobCmds(worker.jobs, FALSE)) = {}
  /\ \A s \in Slots : s \in used \/ cmds[s] = NoCmd \/ ReusePool
  /\ ChangeHeld(worker.pendingChangePeerCMD)

\* The latest leader holds everything that is chosen, and an empty entry has no command.
Begins(s, t) == Len(s) <= Len(t) /\ \A i \in 1..Len(s) : t[i] = s[i]
Plain(log) == \A i \in 1..Len(log) : log[i].type = "empty" => log[i].reqs = <<>>
LogInv ==
  /\ group.lead = "me" => Begins(group.chosen, raft.log)
  /\ group.lead = "rest" => Begins(group.chosen, group.rest)
  /\ Plain(raft.log) /\ Plain(group.rest) /\ Plain(group.chosen)

\* AckedIsApplied alone is not inductive: a read is answered "ok" too, so an object
\* in pendingReads must be known to hold reads, and what is chosen must stay chosen.
AckInv == IndInv /\ LogInv /\ PoolInv /\ AckedIsApplied

-----------------------------------------------------------------------------
\* The queues of cmd objects.

\* What follows the first n objects of a queue, and those first n.
LEMMA DistinctFrom ==
  ASSUME NEW S, NEW q \in Seq(S), Distinct(q), NEW n \in Nat
  PROVE  /\ Distinct(From(q, n + 1)) /\ Distinct(Upto(q, n))
         /\ Range(From(q, n + 1)) \subseteq Range(q) /\ Range(Upto(q, n)) \subseteq Range(q)
         /\ Range(From(q, n + 1)) \cap Range(Upto(q, n)) = {}
<1>0. Len(q) \in Nat /\ n + 1 \in Nat \ {0}
  BY LenProperties
<1> DEFINE f == From(q, n + 1)
           u == Upto(q, n)
<1>1. /\ f \in Seq(S) /\ Len(f) = (IF n + 1 <= Len(q) THEN Len(q) - n ELSE 0)
      /\ \A i \in 1..Len(f) : f[i] = q[n + i]
  <2>1. /\ f \in Seq(S) /\ Len(f) = (IF n + 1 <= Len(q) THEN Len(q) - (n + 1) + 1 ELSE 0)
        /\ \A i \in 1..Len(f) : f[i] = q[(n + 1) + i - 1]
    BY <1>0, FromProps
  <2>2. \A i \in 1..Len(f) : (n + 1) + i - 1 = n + i
    BY <1>0, <2>1
  <2> QED BY <1>0, <2>1, <2>2
<1>2. /\ u \in Seq(S) /\ Len(u) = (IF n < Len(q) THEN n ELSE Len(q))
      /\ \A i \in 1..Len(u) : u[i] = q[i]
  BY UptoProps
<1> HIDE DEF f, u
<1>3. Distinct(f)
  <2> SUFFICES ASSUME NEW i \in 1..Len(f), NEW j \in 1..Len(f), f[i] = f[j] PROVE i = j
    BY DEF Distinct
  <2>1. n + i \in 1..Len(q) /\ n + j \in 1..Len(q)
    BY <1>0, <1>1
  <2>2. q[n + i] = q[n + j]
    BY <1>1
  <2>3. n + i = n + j
    BY <2>1, <2>2 DEF Distinct
  <2> QED BY <2>3, <1>1, <1>0
<1>4. Distinct(u)
  <2>1. \A i \in 1..Len(u) : i \in 1..Len(q)
    BY <1>0, <1>2
  <2> QED BY <1>2, <2>1 DEF Distinct
<1>5. Range(f) \subseteq Range(q) /\ Range(u) \subseteq Range(q)
  BY <1>0, RangeFrom, RangeUpto DEF f, u
<1>6. Range(f) \cap Range(u) = {}
  <2> SUFFICES ASSUME NEW x \in Range(f), x \in Range(u) PROVE FALSE
    OBVIOUS
  <2>1. PICK i \in 1..Len(f) : x = f[i]
    BY <1>1, RangeIn, Zenon
  <2>2. PICK j \in 1..Len(u) : x = u[j]
    BY <1>2, RangeIn
  <2>3. n + i \in 1..Len(q) /\ j \in 1..Len(q) /\ n + i # j
    BY <1>0, <1>1, <1>2
  <2>4. q[n + i] = q[j]
    BY <1>1, <1>2, <2>1, <2>2, Zenon
  <2> QED BY <2>3, <2>4 DEF Distinct
<1> QED
  BY <1>3, <1>4, <1>5, <1>6 DEF f, u

\* The elements of an empty and of a one-element queue.
LEMMA RangeSmall ==
  /\ Range(<<>>) = {} /\ Distinct(<<>>)
  /\ \A x : Range(<<x>>) = {x}
BY DEF Range, Distinct

\* The objects of two queues one after the other.
LEMMA RangeConcat ==
  ASSUME NEW S, NEW s \in Seq(S), NEW t \in Seq(S)
  PROVE  s \o t \in Seq(S) /\ Range(s \o t) \subseteq Range(s) \cup Range(t)
<1> DEFINE c == s \o t
<1>1. /\ c \in Seq(S) /\ Len(c) = Len(s) + Len(t) /\ Len(s) \in Nat /\ Len(t) \in Nat
      /\ \A i \in 1..Len(c) : c[i] = IF i <= Len(s) THEN s[i] ELSE t[i - Len(s)]
  BY ConcatProperties, LenProperties
<1> HIDE DEF c
<1>2. ASSUME NEW x \in Range(c) PROVE x \in Range(s) \cup Range(t)
  <2>1. PICK i \in 1..Len(c) : x = c[i]
    BY <1>1, RangeIn, Zenon
  <2>2. CASE i <= Len(s)
    <3>1. i \in 1..Len(s)
      BY <1>1, <2>1, <2>2
    <3> QED BY <1>1, <2>1, <2>2, <3>1, RangeIn
  <2>3. CASE ~(i <= Len(s))
    <3>1. i - Len(s) \in 1..Len(t)
      BY <1>1, <2>1, <2>3
    <3> QED BY <1>1, <2>1, <2>3, <3>1, RangeIn
  <2> QED BY <2>2, <2>3
<1> QED
  BY <1>1, <1>2 DEF c

\* A queue with one more object at its end.
LEMMA DistinctAppend ==
  ASSUME NEW S, NEW q \in Seq(S), Distinct(q), NEW s \in S, s \notin Range(q)
  PROVE  Distinct(Append(q, s)) /\ Range(Append(q, s)) = Range(q) \cup {s}
<1> DEFINE n == Len(q)
           a == Append(q, s)
<1>1. n \in Nat /\ a \in Seq(S) /\ Len(a) = n + 1 /\ (\A i \in 1..n : a[i] = q[i]) /\ a[n + 1] = s
  BY AppendProperties, LenProperties
<1>2. \A i \in 1..n : q[i] \in Range(q)
  BY RangeIn
<1>3. \A i \in 1..(n + 1) : i \in 1..n \/ i = n + 1
  BY <1>1
<1> HIDE DEF a
<1>4. Distinct(a)
  BY <1>1, <1>2, <1>3 DEF Distinct
<1>5. Range(a) \subseteq Range(q) \cup {s}
  <2>1. \A x \in Range(a) : \E i \in 1..(n + 1) : x = a[i]
    BY <1>1, RangeIn
  <2> QED BY <1>1, <1>2, <1>3, <2>1
<1>6. Range(q) \subseteq Range(a) /\ s \in Range(a)
  <2>1. \A i \in 1..(n + 1) : a[i] \in Range(a)
    BY <1>1, RangeIn
  <2>2. \A i \in 1..n : i \in 1..(n + 1) /\ n + 1 \in 1..(n + 1)
    BY <1>1
  <2>3. n + 1 \in 1..(n + 1)
    BY <1>1
  <2>4. \A x \in Range(q) : \E i \in 1..n : x = q[i]
    BY RangeIn
  <2> QED BY <1>1, <2>1, <2>2, <2>3, <2>4
<1> QED
  BY <1>4, <1>5, <1>6 DEF a

\* A queue of jobs each of whose propose jobs was in the old queue.
LEMMA JobsSub ==
  ASSUME NEW old, NEW new, NEW h, DistinctJobs(old),
         \A i \in Proposing(new) : h[i] \in Proposing(old) /\ new[i] = old[h[i]],
         \A i, j \in Proposing(new) : h[i] = h[j] => i = j
  PROVE  DistinctJobs(new) /\ \A c : JobCmds(new, c) \subseteq JobCmds(old, c)
<1>1. DistinctJobs(new)
  BY DEF DistinctJobs
<1>2. ASSUME NEW c, NEW s \in JobCmds(new, c) PROVE s \in JobCmds(old, c)
  <2>1. PICK i \in Proposing(new) : new[i].conf = c /\ s = new[i].cmd
    BY DEF JobCmds
  <2>2. h[i] \in Proposing(old) /\ old[h[i]].conf = c /\ s = old[h[i]].cmd
    BY <2>1
  <2> QED BY <2>2 DEF JobCmds
<1> QED
  BY <1>1, <1>2

\* The worker took the first job: its command is in no other job.
LEMMA JobsTail ==
  ASSUME NEW jobs \in Seq(Job), jobs # <<>>, DistinctJobs(jobs)
  PROVE  /\ DistinctJobs(Tail(jobs)) /\ \A c : JobCmds(Tail(jobs), c) \subseteq JobCmds(jobs, c)
         /\ jobs[1].type = "propose" => /\ jobs[1].cmd \in JobCmds(jobs, jobs[1].conf)
                                        /\ \A c : jobs[1].cmd \notin JobCmds(Tail(jobs), c)
<1> DEFINE n == Len(jobs)
           new == Tail(jobs)
<1>1. n \in Nat \ {0} /\ Len(new) = n - 1 /\ \A i \in 1..(n - 1) : new[i] = jobs[i + 1]
  BY HeadTailProperties, EmptySeq, LenProperties
<1> HIDE DEF new
<1>2. PICK h : \A i \in Nat : h[i] = i + 1
  <2>1. \A i \in Nat : [k \in Nat |-> k + 1][i] = i + 1
    OBVIOUS
  <2> QED BY <2>1, Zenon
<1>3. ASSUME NEW i \in Proposing(new)
      PROVE  i \in Nat /\ i # 0 /\ h[i] = i + 1 /\ h[i] \in Proposing(jobs) /\ new[i] = jobs[h[i]]
  <2>1. i \in 1..(n - 1) /\ new[i].type = "propose"
    BY <1>1 DEF Proposing
  <2>2. i + 1 \in 1..n /\ i \in Nat /\ i # 0
    BY <1>1, <2>1
  <2> QED BY <1>1, <1>2, <2>1, <2>2, Zenon DEF Proposing
<1>4. DistinctJobs(new) /\ \A c : JobCmds(new, c) \subseteq JobCmds(jobs, c)
  <2>1. \A i, j \in Proposing(new) : h[i] = h[j] => i = j
    BY <1>3
  <2> QED BY <1>3, <2>1, JobsSub, Zenon
<1>5. ASSUME jobs[1].type = "propose"
      PROVE  /\ jobs[1].cmd \in JobCmds(jobs, jobs[1].conf)
             /\ \A c : jobs[1].cmd \notin JobCmds(new, c)
  <2>1. 1 \in Proposing(jobs)
    BY <1>1, <1>5 DEF Proposing
  <2>2. jobs[1].cmd \in JobCmds(jobs, jobs[1].conf)
    BY <2>1 DEF JobCmds
  <2>3. ASSUME NEW c, jobs[1].cmd \in JobCmds(new, c) PROVE FALSE
    <3>1. PICK i \in Proposing(new) : jobs[1].cmd = new[i].cmd
      BY <2>3 DEF JobCmds
    <3>2. h[i] \in Proposing(jobs) /\ jobs[h[i]].cmd = jobs[1].cmd /\ h[i] # 1
      BY <1>3, <3>1
    <3> QED BY <2>1, <3>2 DEF DistinctJobs
  <2> QED BY <2>2, <2>3
<1> QED
  BY <1>4, <1>5 DEF new

\* A new job at the end of the queue.
LEMMA JobsAppend ==
  ASSUME NEW jobs \in Seq(Job), NEW j \in Job, DistinctJobs(jobs),
         j.type = "propose" => \A c \in BOOLEAN : j.cmd \notin JobCmds(jobs, c)
  PROVE  /\ DistinctJobs(Append(jobs, j))
         /\ \A c : JobCmds(Append(jobs, j), c) \subseteq
                     JobCmds(jobs, c) \cup {x \in {j.cmd} : j.type = "propose" /\ j.conf = c}
<1> DEFINE n == Len(jobs)
           new == Append(jobs, j)
<1>1. n \in Nat /\ Len(new) = n + 1 /\ (\A i \in 1..n : new[i] = jobs[i]) /\ new[n + 1] = j
  BY AppendProperties, LenProperties
<1> HIDE DEF new
<1>2. ASSUME NEW i \in Proposing(new)
      PROVE  \/ i \in Proposing(jobs) /\ new[i] = jobs[i] /\ i # n + 1
             \/ i = n + 1 /\ new[i] = j /\ j.type = "propose"
  <2>1. i \in 1..(n + 1) /\ new[i].type = "propose"
    BY <1>1 DEF Proposing
  <2>2. i \in 1..n \/ i = n + 1
    BY <1>1, <2>1
  <2> QED BY <1>1, <2>1, <2>2 DEF Proposing
<1>3. \A i \in Proposing(jobs) : jobs[i].cmd \in JobCmds(jobs, jobs[i].conf) /\ jobs[i].conf \in BOOLEAN
  <2>1. ASSUME NEW i \in Proposing(jobs) PROVE jobs[i].conf \in BOOLEAN
    <3>1. jobs[i] \in Job /\ jobs[i].type = "propose"
      BY ElementOfSeq DEF Proposing
    <3> QED BY <3>1, JobFields
  <2> QED BY <2>1 DEF JobCmds
<1>4. ASSUME NEW i \in Proposing(new), NEW k \in Proposing(new), new[i].cmd = new[k].cmd
      PROVE  i = k
  <2>1. CASE i = n + 1 /\ k # n + 1
    BY <1>2, <1>3, <1>4, <2>1
  <2>2. CASE k = n + 1 /\ i # n + 1
    BY <1>2, <1>3, <1>4, <2>2, Zenon
  <2>3. CASE i # n + 1 /\ k # n + 1
    BY <1>2, <1>4, <2>3 DEF DistinctJobs
  <2> QED BY <2>1, <2>2, <2>3
<1>5. ASSUME NEW c, NEW s \in JobCmds(new, c)
      PROVE  s \in JobCmds(jobs, c) \cup {x \in {j.cmd} : j.type = "propose" /\ j.conf = c}
  <2>1. PICK i \in Proposing(new) : new[i].conf = c /\ s = new[i].cmd
    BY <1>5 DEF JobCmds
  <2> QED BY <1>2, <2>1 DEF JobCmds
<1> QED
  BY <1>4, <1>5, Zenon DEF DistinctJobs, new

\* The apply job in progress moves on to its next entry.
LEMMA JobsNext ==
  ASSUME NEW jobs \in Seq(Job), jobs # <<>>, DistinctJobs(jobs), NEW j, j.type = "apply"
  PROVE  /\ DistinctJobs([jobs EXCEPT ![1] = j])
         /\ \A c : JobCmds([jobs EXCEPT ![1] = j], c) \subseteq JobCmds(jobs, c)
<1> DEFINE n == Len(jobs)
           new == [jobs EXCEPT ![1] = j]
<1>1. n \in Nat /\ n # 0 /\ DOMAIN jobs = 1..n
  BY EmptySeq, LenProperties
<1>2. Len(new) = n /\ new[1] = j /\ \A i \in 1..n : i # 1 => new[i] = jobs[i]
  BY <1>1
<1> HIDE DEF new
<1>3. PICK h : \A i \in Nat : h[i] = i
  <2>1. \A i \in Nat : [k \in Nat |-> k][i] = i
    OBVIOUS
  <2> QED BY <2>1, Zenon
<1>4. ASSUME NEW i \in Proposing(new)
      PROVE  h[i] = i /\ h[i] \in Proposing(jobs) /\ new[i] = jobs[h[i]]
  <2>1. i \in 1..n /\ new[i].type = "propose" /\ i \in Nat
    BY <1>1, <1>2 DEF Proposing
  <2>2. i # 1
    BY <1>2, <2>1
  <2> QED BY <1>2, <1>3, <2>1, <2>2 DEF Proposing
<1>5. \A i, k \in Proposing(new) : h[i] = h[k] => i = k
  BY <1>4
<1>6. DistinctJobs(new) /\ \A c : JobCmds(new, c) \subseteq JobCmds(jobs, c)
  BY <1>4, <1>5, JobsSub, Zenon
<1> QED
  BY <1>6, Zenon DEF new

\* No command is a read and something else, and a ChangePeer is not recycled.
LEMMA KindsApart ==
  ASSUME NoReuse, TypeOK, NEW s \in Slots
  PROVE  /\ ~(ReadCmd(s) /\ WriteCmd(s)) /\ ~(ReadCmd(s) /\ ChangeCmd(s))
         /\ ChangeCmd(s) => WriteCmd(s) /\ ~ReusePool
<1>1. cmds[s].reqs \in Seq(Req)
  BY DEF TypeOK, Cmd
<1>2. cmds[s].reqs # <<>> => cmds[s].reqs[1] \in Range(cmds[s].reqs)
  <2>1. cmds[s].reqs # <<>> => 1 \in 1..Len(cmds[s].reqs)
    BY <1>1, EmptySeq, LenProperties
  <2> QED BY <1>1, <2>1, RangeIn
<1>3. Reads \cap ConfChanges = {}
  BY RequestsAssumption DEF Clients
<1> QED
  BY <1>2, <1>3 DEF ReadCmd, WriteCmd, ChangeCmd, NoReuse

\* A step that acquires no cmd object and frees those in Q keeps the pool: what is
\* still held was held before, and the commands of finished propose jobs went to
\* pendingCMDs or to pendingChangePeerCMD.
LEMMA PoolStep ==
  ASSUME NoReuse, TypeOK, PoolInv, NEW Q \in SUBSET Slots, used' = used,
         \A s \in Slots : cmds'[s] = IF s \in Q THEN NoCmd ELSE cmds[s],
         NEW pr, loop'.pendingReads = pr, Distinct(pr), Range(pr) \subseteq Range(loop.pendingReads) \ Q,
         NEW pc, worker'.pendingCMDs = pc, Distinct(pc),
         Range(pc) \subseteq (Range(worker.pendingCMDs) \cup JobCmds(worker.jobs, FALSE)) \ Q,
         NEW jobs, worker'.jobs = jobs, DistinctJobs(jobs),
         \A c \in BOOLEAN : JobCmds(jobs, c) \subseteq JobCmds(worker.jobs, c) \ Q,
         \A c \in BOOLEAN : Range(pc) \cap JobCmds(jobs, c) = {},
         NEW p, worker'.pendingChangePeerCMD = p,
         \/ p \in {Nil, worker.pendingChangePeerCMD}
         \/ /\ p \in JobCmds(worker.jobs, TRUE) \ Q
            /\ \A c \in BOOLEAN : p \notin JobCmds(jobs, c)
  PROVE  PoolInv'
<1>1. /\ Range(loop.pendingReads) \subseteq Slots /\ Range(worker.pendingCMDs) \subseteq Slots
      /\ worker.pendingChangePeerCMD \in Slots \cup {Nil} /\ worker.jobs \in Seq(Job)
  BY WorkerFields, LoopFields, RangeIn DEF TypeOK
<1>2. \A c \in BOOLEAN : JobCmds(worker.jobs, c) \subseteq Slots
  <2>1. ASSUME NEW i \in Proposing(worker.jobs) PROVE worker.jobs[i].cmd \in Slots
    <3>1. worker.jobs[i] \in Job /\ worker.jobs[i].type = "propose"
      BY <1>1, ElementOfSeq DEF Proposing
    <3> QED BY <3>1, JobFields
  <2> QED BY <2>1 DEF JobCmds
<1>3. \A s \in Slots : s \notin Q => /\ ReadCmd(s) => ReadCmd(s)'
                                     /\ WriteCmd(s) => WriteCmd(s)'
                                     /\ ChangeCmd(s) => ChangeCmd(s)'
  BY DEF ReadCmd, WriteCmd, ChangeCmd
<1>4. \A s \in Range(pr) : ReadCmd(s)'
  BY <1>1, <1>3 DEF PoolInv
<1>5. \A s \in Range(pc) : WriteCmd(s)'
  BY <1>1, <1>2, <1>3, Zenon DEF PoolInv
<1>6. /\ \A s \in JobCmds(jobs, TRUE) : ChangeCmd(s)'
      /\ \A s \in JobCmds(jobs, FALSE) : WriteCmd(s)'
      /\ JobCmds(jobs, TRUE) \cap JobCmds(jobs, FALSE) = {}
  BY <1>1, <1>2, <1>3, Zenon DEF PoolInv
<1>7. \A s \in Slots : s \in used' \/ cmds'[s] = NoCmd \/ ReusePool
  BY DEF PoolInv
<1>8. ChangeHeld(p)'
  <2>1. CASE p = Nil
    BY <2>1 DEF ChangeHeld
  <2>2. CASE p # Nil /\ p = worker.pendingChangePeerCMD
    <3>1. /\ p \notin Range(worker.pendingCMDs) /\ p \notin Range(loop.pendingReads)
          /\ p \notin JobCmds(worker.jobs, TRUE) /\ p \notin JobCmds(worker.jobs, FALSE)
          /\ ChangeCmd(p) \/ (cmds[p] = NoCmd /\ ~ReusePool /\ p \in used)
      BY <2>2, Zenon DEF PoolInv, ChangeHeld
    <3>2. p \notin Range(pc) /\ p \notin Range(pr) /\ p \notin JobCmds(jobs, TRUE)
          /\ p \notin JobCmds(jobs, FALSE)
      BY <3>1, Zenon
    <3>3. ChangeCmd(p)' \/ (cmds'[p] = NoCmd /\ ~ReusePool /\ p \in used')
      <4>1. p \in Slots
        BY <1>1, <2>2
      <4>2. CASE p \in Q
        <5>1. cmds'[p] = NoCmd
          BY <4>1, <4>2
        <5>2. cmds[p] # NoCmd => p \in used \/ ReusePool
          BY <4>1 DEF PoolInv
        <5>3. ChangeCmd(p) => cmds[p] # NoCmd
          BY DEF ChangeCmd, NoCmd
        <5>4. ChangeCmd(p) => ~ReusePool
          BY <4>1, KindsApart
        <5> QED BY <3>1, <5>1, <5>2, <5>3, <5>4
      <4>3. CASE p \notin Q
        BY <1>3, <3>1, <4>1, <4>3
      <4> QED BY <4>2, <4>3
    <3> QED BY <3>2, <3>3, Zenon DEF ChangeHeld
  <2>3. CASE p \in JobCmds(worker.jobs, TRUE) \ Q /\ \A c \in BOOLEAN : p \notin JobCmds(jobs, c)
    <3>1. p \in Slots /\ p \notin Q
      BY <1>2, <2>3, Zenon
    <3>2. ChangeCmd(p)
      BY <2>3, Zenon DEF PoolInv
    <3>3. ChangeCmd(p)'
      BY <1>3, <3>1, <3>2
    <3>4. p \notin Range(pc)
      BY <2>3, Zenon DEF PoolInv
    <3>5. p \notin Range(pr)
      BY <3>1, <3>2, KindsApart DEF PoolInv
    <3> QED BY <2>3, <3>3, <3>4, <3>5, Zenon DEF ChangeHeld
  <2> QED BY <2>1, <2>2, <2>3, Zenon
<1> QED
  BY <1>4, <1>5, <1>6, <1>7, <1>8, Zenon DEF PoolInv

-----------------------------------------------------------------------------
\* The logs.

\* A prefix of a log that is long enough still begins with s.
LEMMA BeginsUpto ==
  ASSUME NEW s \in Seq(Entry), NEW t \in Seq(Entry), NEW k \in Nat, Begins(s, t), Len(s) <= k
  PROVE  Begins(s, Upto(t, k))
<1>1. Len(s) \in Nat /\ Len(t) \in Nat
  BY LenProperties
<1>2. \A i \in 1..Len(s) : i \in 1..Len(Upto(t, k))
  BY <1>1, UptoProps DEF Begins
<1> QED
  BY <1>1, <1>2, UptoProps DEF Begins

\* A log begins with its own prefix.
LEMMA UptoBegins ==
  ASSUME NEW t \in Seq(Entry), NEW k \in Nat
  PROVE  Begins(Upto(t, k), t)
<1>1. Len(t) \in Nat
  BY LenProperties
<1> QED
  BY <1>1, UptoProps DEF Begins

\* A longer log still begins with s.
LEMMA BeginsAppend ==
  ASSUME NEW s \in Seq(Entry), NEW t \in Seq(Entry), NEW e \in Entry, Begins(s, t)
  PROVE  Begins(s, Append(t, e))
<1>1. Len(s) \in Nat /\ Len(t) \in Nat
  BY LenProperties
<1>2. \A i \in 1..Len(s) : i \in 1..Len(t)
  BY <1>1 DEF Begins
<1> QED
  BY <1>1, <1>2, AppendProperties DEF Begins

\* What the model's guards say of a log.
LEMMA ExtendsBegins ==
  ASSUME group.chosen \in Seq(Entry), NEW s \in Seq(Entry), Extends(s)
  PROVE  Begins(group.chosen, s)
<1>1. Len(group.chosen) \in Nat /\ Len(s) \in Nat /\ Upto(s, Len(group.chosen)) = group.chosen
  BY LenProperties DEF Extends
<1> QED
  BY <1>1, UptoProps DEF Begins

\* Prefixes and appended entries keep empty entries empty.
LEMMA PlainUpto ==
  ASSUME NEW t \in Seq(Entry), NEW k \in Nat, Plain(t)
  PROVE  Plain(Upto(t, k))
<1>1. Len(t) \in Nat
  BY LenProperties
<1>2. \A i \in 1..Len(Upto(t, k)) : i \in 1..Len(t)
  BY <1>1, UptoProps
<1> QED
  BY <1>2, UptoProps DEF Plain

\* So do proposals and the empty entries of new leaders.
LEMMA PlainAppend ==
  ASSUME NEW t \in Seq(Entry), NEW e \in Entry, Plain(t), e.type = "empty" => e.reqs = <<>>
  PROVE  Plain(Append(t, e))
<1>1. Len(t) \in Nat
  BY LenProperties
<1>2. \A i \in 1..Len(Append(t, e)) : i \in 1..Len(t) \/ i = Len(t) + 1
  BY <1>1, AppendProperties
<1> QED
  BY <1>1, <1>2, AppendProperties DEF Plain

\* The empty entry of a new leader.
LEMMA EmptyEntryPlain ==
  ASSUME NEW t \in Nat
  PROVE  EmptyEntry(t) \in Entry /\ EmptyEntry(t).type = "empty" /\ EmptyEntry(t).reqs = <<>>
         /\ EmptyEntry(t).term = t
BY EntryTypes DEF EmptyEntry

\* A batch holds requests of one kind, and a ChangePeer is alone in its command.
LEMMA NewCmdKinds ==
  ASSUME TypeOK, NEW n, Batchable(n)
  PROVE  LET c == NewCmd(n)
         IN /\ c.reqs # <<>> /\ Range(c.reqs) \subseteq Req
            /\ c.reqs[1] \in Reads => Range(c.reqs) \subseteq Reads
            /\ c.reqs[1] \notin Reads => Range(c.reqs) \cap Reads = {}
            /\ c.reqs[1] \in ConfChanges => Range(c.reqs) \subseteq ConfChanges
            /\ c.reqs[1] \notin Reads \cup ConfChanges => Range(c.reqs) \subseteq Logged
<1> DEFINE q == loop.requests
           u == Upto(q, n)
<1>1. q \in Seq(Req) /\ Len(q) \in Nat /\ n \in Nat /\ n >= 1 /\ n <= Len(q)
  BY LoopFields DEF TypeOK, Batchable
<1>2. u \in Seq(Req) /\ Len(u) = n /\ (\A i \in 1..n : u[i] = q[i]) /\ 1 \in 1..n
  BY <1>1, UptoProps
<1>3. NewCmd(n).reqs = u
  BY DEF NewCmd
<1>4. /\ \A i \in 1..n : TypeOf(u[i]) = TypeOf(u[1])
      /\ n > 1 => TypeOf(u[1]) # "admin"
  BY <1>2 DEF Batchable
<1> HIDE DEF u
<1>5. u # <<>> /\ \A x \in Range(u) : x \in Req /\ \E i \in 1..n : x = u[i]
  BY <1>1, <1>2, RangeIn
<1>6. \A r \in Req : /\ TypeOf(r) = "read" <=> r \in Reads
                     /\ TypeOf(r) = "write" <=> r \in Writes
                     /\ TypeOf(r) = "admin" <=> r \in Splits \cup ConfChanges
  BY RequestsAssumption DEF TypeOf, Clients, Req
<1>7. u[1] \in Req
  BY <1>2
<1>8. ASSUME TypeOf(u[1]) = "admin", NEW x \in Range(u) PROVE x = u[1]
  <2>1. ~(n > 1)
    BY <1>4, <1>8
  <2>2. n = 1
    BY <1>1, <2>1
  <2>3. \A i \in 1..n : i = 1
    BY <2>2
  <2> QED BY <1>5, <1>8, <2>3
<1>9. \A x \in Range(u) : x \in Req /\ TypeOf(x) = TypeOf(u[1])
  BY <1>4, <1>5
<1>10. u[1] \in ConfChanges => Range(u) \subseteq ConfChanges
  BY <1>6, <1>7, <1>8
<1>11. ASSUME u[1] \notin Reads \cup ConfChanges PROVE Range(u) \subseteq Logged
  <2>1. CASE u[1] \in Writes
    BY <1>6, <1>7, <1>9, <2>1 DEF Logged
  <2>2. CASE u[1] \in Splits
    BY <1>6, <1>7, <1>8, <2>2 DEF Logged
  <2> QED BY <1>7, <1>11, <2>1, <2>2 DEF Req
<1> QED
  BY <1>3, <1>5, <1>6, <1>7, <1>9, <1>10, <1>11

\* A Ready proposes nothing.
LEMMA ReadyProposesNothing ==
  ASSUME TypeOK
  PROVE  /\ ReadyJobs \in Seq(Job) /\ Proposing(ReadyJobs) = {}
         /\ \A j \in Range(ReadyJobs) :
              /\ j.type = "register" => j.term = loop.appliedIndexTerm /\ raft.snap > 0
              /\ j.type = "apply" => j.next = loop.lastReadyIndex + 1 /\ ~(raft.snap > 0)
<1>1. /\ loop.lastReadyIndex \in Nat /\ raft.snap \in Nat /\ raft.commit \in Nat
      /\ loop.appliedIndexTerm \in Nat
  BY RaftFields, LoopFields DEF TypeOK
<1>2. CASE raft.snap > 0
  <2>1. PICK v \in Nat : v = CellVer(raft.snap)
    BY DEF CellVer
  <2>2. PICK a, b : /\ a = [type |-> "snap"]
                    /\ b = [type |-> "register", applied |-> raft.snap, term |-> loop.appliedIndexTerm,
                            ver |-> v]
    BY Zenon
  <2>3. /\ a \in Job /\ b \in Job /\ a.type = "snap" /\ b.type = "register"
        /\ b.term = loop.appliedIndexTerm
    BY <1>1, <2>2 DEF Job
  <2>4. ReadyJobs = <<a, b>>
    BY <1>2, <2>1, <2>2 DEF ReadyJobs
  <2>5. <<a, b>> \in Seq(Job) /\ Proposing(<<a, b>>) = {} /\ Range(<<a, b>>) = {a, b}
    BY <2>3 DEF Proposing, Range
  <2> QED BY <1>2, <2>3, <2>4, <2>5
<1>3. CASE ~(raft.snap > 0) /\ raft.commit > loop.lastReadyIndex
  <2>1. PICK a : a = [type |-> "apply", next |-> loop.lastReadyIndex + 1, upto |-> raft.commit]
    BY Zenon
  <2>2. a \in Job /\ a.type = "apply" /\ a.next = loop.lastReadyIndex + 1
    BY <1>1, <2>1 DEF Job
  <2>3. ReadyJobs = <<a>>
    BY <1>3, <2>1 DEF ReadyJobs
  <2>4. <<a>> \in Seq(Job) /\ Proposing(<<a>>) = {} /\ Range(<<a>>) = {a}
    BY <2>2 DEF Proposing, Range
  <2> QED BY <1>3, <2>2, <2>3, <2>4
<1>4. CASE ~(raft.snap > 0) /\ ~(raft.commit > loop.lastReadyIndex)
  <2>1. ReadyJobs = <<>>
    BY <1>4 DEF ReadyJobs
  <2>2. <<>> \in Seq(Job) /\ Proposing(<<>>) = {} /\ Range(<<>>) = {}
    BY DEF Proposing, Range
  <2> QED BY <2>1, <2>2
<1> QED
  BY <1>2, <1>3, <1>4

\* Only a proposal changes this replica's log outside the raft library.
LEMMA ProposedEntry ==
  ASSUME IndInv, NEW c \in Cmd, NEW s, proposeEntry(c, s)
  PROVE  \E e \in Entry : /\ raft'.log = Append(raft.log, e) /\ raft'.term = raft.term
                          /\ e.type = "empty" => e.reqs = <<>>
                          /\ e.type # "empty" => e.reqs = c.reqs
                          /\ e.type = "normal" => c.reqs[1] \notin Reads \cup ConfChanges
                          /\ e.term = raft.term /\ raft.role = "leader" /\ raft'.sent = raft.sent
                          /\ raft'.snap = raft.snap
                          /\ raft'.role = raft.role /\ raft'.soft = raft.soft
                          /\ raft'.commit = raft.commit
                          /\ raft'.readOnly = raft.readOnly /\ raft'.readStates = raft.readStates
<1> DEFINE conf == c.reqs[1] \in ConfChanges
           e0 == [type |-> IF conf THEN "conf" ELSE "normal", term |-> raft.term,
                  reqs |-> c.reqs, ver |-> c.ver]
           e1 == IF conf /\ raft.pendingConf THEN EmptyEntry(raft.term) ELSE e0
           b1 == raft.pendingConf \/ conf
<1>1. raft \in RaftState /\ raft.term \in Nat /\ c.reqs \in Seq(Req) /\ c.ver \in Nat
      /\ (IF conf THEN "conf" ELSE "normal") \in {"empty", "normal", "conf"}
  BY RaftFields DEF IndInv, TypeOK, Cmd
<1>2. /\ e0 \in Entry /\ e0.type # "empty" /\ e0.term = raft.term /\ e0.reqs = c.reqs
      /\ e0.type = "normal" => ~conf
  BY <1>1, EntryTypes
<1>3. /\ e1 \in Entry /\ (e1.type = "empty" => e1.reqs = <<>>) /\ e1.term = raft.term
      /\ (e1.type # "empty" => e1.reqs = c.reqs) /\ (e1.type = "normal" => ~conf)
  BY <1>1, <1>2, EmptyEntryPlain
<1>4. raft' = [raft EXCEPT !.log = Append(raft.log, e1), !.pendingConf = b1] /\ raft.role = "leader"
      /\ c.reqs[1] \notin Reads
  BY DEF proposeEntry, Propose
<1> HIDE DEF e1, b1
<1>5. /\ raft'.log = Append(raft.log, e1) /\ raft'.term = raft.term /\ raft'.role = raft.role
      /\ raft'.soft = raft.soft /\ raft'.commit = raft.commit
      /\ raft'.readOnly = raft.readOnly /\ raft'.readStates = raft.readStates
      /\ raft'.sent = raft.sent /\ raft'.snap = raft.snap
  BY <1>1, <1>4 DEF RaftState
<1> QED
  BY <1>3, <1>4, <1>5

\* The handlers of this replica change its log only by a proposal of its leader, and
\* leave the group alone.
LEMMA OwnStepsLog ==
  ASSUME IndInv, (\E r \in Req : OnProxyReq(r)) \/ EventLoop \/ ApplyWorker \/ clearData \/ UNCHANGED vars
  PROVE  /\ group' = group
         /\ \/ raft'.log = raft.log
            \/ \E e \in Entry : raft'.log = Append(raft.log, e) /\ (e.type = "empty" => e.reqs = <<>>)
<1>1. raft \in RaftState
  BY DEF IndInv, TypeOK
<1>2. CASE \E r \in Req : OnProxyReq(r)
  BY <1>2 DEF OnProxyReq
<1>3. CASE EventLoop
  <2>2. ASSUME NEW n \in 1..Len(loop.requests), NEW s \in Slots, handleRequest(n, s)
        PROVE  /\ group' = group
               /\ \/ raft'.log = raft.log
                  \/ \E e \in Entry : raft'.log = Append(raft.log, e) /\ (e.type = "empty" => e.reqs = <<>>)
    <3>1. NewCmd(n) \in Cmd /\ group' = group
      BY <2>2, NewCmdType DEF IndInv, handleRequest
    <3>2. CASE proposeEntry(NewCmd(n), s)
      BY <3>1, <3>2, ProposedEntry
    <3>3. CASE execReadIndex(NewCmd(n), s)
      BY <1>1, <3>1, <3>3 DEF execReadIndex, RaftState
    <3>4. CASE \E kind \in {"notleader", "error"} : respError(NewCmd(n), kind)
      BY <3>1, <3>4 DEF respError
    <3> QED BY <2>2, <3>2, <3>3, <3>4 DEF handleRequest
  <2>3. CASE handleReady
    BY <1>1, <2>3 DEF handleReady, RaftState
  <2>4. CASE handleApplyResult
    BY <1>1, <2>4 DEF handleApplyResult, RaftState
  <2>5. CASE loopExit
    BY <2>5 DEF loopExit
  <2> QED BY <1>3, <2>2, <2>3, <2>4, <2>5 DEF EventLoop
<1>4. CASE ApplyWorker
  BY <1>4 DEF ApplyWorker, doPropose, applyEmptyEntry, applyNormalEntry, applyConfEntry,
     destroyDelegate, missingDelegate, doApplyingSnapshotJob, doRegistrationJob
<1>5. CASE clearData \/ UNCHANGED vars
  BY <1>5 DEF clearData, vars
<1> QED
  BY <1>2, <1>3, <1>4, <1>5

\* What is chosen stays chosen, and the latest leader holds it.
LEMMA LogStep ==
  ASSUME IndInv, LogInv, [Next]_vars
  PROVE  LogInv' /\ Begins(group.chosen, group'.chosen)
<1>1. /\ raft.log \in Seq(Entry) /\ group.rest \in Seq(Entry) /\ group.chosen \in Seq(Entry)
      /\ Len(raft.log) \in Nat /\ Len(group.rest) \in Nat /\ Len(group.chosen) \in Nat
      /\ group.maxTerm \in Nat /\ raft \in RaftState /\ group \in GroupState
      /\ raft.sent \in Nat /\ group.lead \in {"none", "me", "rest"}
  BY RaftFields, GroupFields DEF IndInv, TypeOK
<1>2. Begins(group.chosen, group.chosen)
  BY <1>1 DEF Begins
<1>3. CASE (\E r \in Req : OnProxyReq(r)) \/ EventLoop \/ ApplyWorker \/ clearData \/ UNCHANGED vars
  <2>1. CASE group' = group /\ raft'.log = raft.log
    BY <1>2, <2>1 DEF LogInv
  <2>2. CASE /\ group' = group
             /\ \E e \in Entry : raft'.log = Append(raft.log, e) /\ (e.type = "empty" => e.reqs = <<>>)
    <3>1. PICK e \in Entry : raft'.log = Append(raft.log, e) /\ (e.type = "empty" => e.reqs = <<>>)
      BY <2>2
    <3>2. Plain(raft'.log)
      BY <1>1, <3>1, PlainAppend DEF LogInv
    <3>3. group.lead = "me" => Begins(group.chosen, raft'.log)
      BY <1>1, <3>1, BeginsAppend DEF LogInv
    <3> QED BY <1>2, <2>2, <3>2, <3>3 DEF LogInv
  <2> QED BY <1>3, <2>1, <2>2, OwnStepsLog
<1>4. CASE BecomeLeader
  <2> DEFINE e == EmptyEntry(group.maxTerm + 1)
  <2>1. e \in Entry /\ e.type = "empty" /\ e.reqs = <<>>
    BY <1>1, EmptyEntryPlain
  <2>2. raft'.log = Append(raft.log, e) /\ group'.rest = group.rest /\ group'.chosen = group.chosen
        /\ group'.lead = "me" /\ Extends(raft.log)
    BY <1>1, <1>4 DEF BecomeLeader, Reset, RaftState, GroupState
  <2> HIDE DEF e
  <2>3. Plain(raft'.log)
    BY <1>1, <2>1, <2>2, PlainAppend DEF LogInv
  <2>4. Begins(group.chosen, raft'.log)
    BY <1>1, <2>1, <2>2, BeginsAppend, ExtendsBegins
  <2> QED BY <1>2, <2>2, <2>3, <2>4 DEF LogInv
<1>5. CASE OtherBecomesLeader
  <2> DEFINE e == EmptyEntry(group.maxTerm + 1)
  <2>1. e \in Entry /\ e.type = "empty" /\ e.reqs = <<>>
    BY <1>1, EmptyEntryPlain
  <2>2. PICK base \in {Upto(raft.log, k) : k \in 0..raft.sent}
                      \cup {Upto(group.rest, k) : k \in 0..Len(group.rest)} :
           Extends(base)
           /\ group' = [group EXCEPT !.maxTerm = @ + 1, !.lead = "rest", !.rest = Append(base, e)]
    BY <1>5, Zenon DEF OtherBecomesLeader
  <2>3. base \in Seq(Entry) /\ Plain(base)
    <3>1. ASSUME NEW k \in 0..raft.sent PROVE Upto(raft.log, k) \in Seq(Entry) /\ Plain(Upto(raft.log, k))
      <4>1. k \in Nat
        BY <1>1
      <4> QED BY <1>1, <4>1, UptoProps, PlainUpto, Zenon DEF LogInv
    <3>2. ASSUME NEW k \in 0..Len(group.rest) PROVE Upto(group.rest, k) \in Seq(Entry) /\ Plain(Upto(group.rest, k))
      <4>1. k \in Nat
        BY <1>1
      <4> QED BY <1>1, <4>1, UptoProps, PlainUpto, Zenon DEF LogInv
    <3> QED BY <3>1, <3>2
  <2> HIDE DEF e
  <2>4. group'.rest = Append(base, e) /\ group'.chosen = group.chosen /\ group'.lead = "rest"
        /\ raft' = raft
    BY <1>1, <1>5, <2>2, Zenon DEF GroupState, OtherBecomesLeader
  <2>5. Plain(group'.rest) /\ Begins(group.chosen, group'.rest)
    BY <1>1, <2>1, <2>2, <2>3, <2>4, PlainAppend, BeginsAppend, ExtendsBegins
  <2> QED BY <1>2, <2>4, <2>5 DEF LogInv
<1>6. CASE BecomeFollower
  <2>1. raft'.log = raft.log
    BY <1>1, <1>6, Zenon DEF BecomeFollower, Reset, RaftState
  <2>2. /\ group'.rest = group.rest /\ group'.chosen = group.chosen
        /\ group'.lead = IF group.lead = "me" THEN "none" ELSE group.lead
    BY <1>1, <1>6 DEF BecomeFollower, GroupState
  <2> QED BY <1>2, <2>1, <2>2 DEF LogInv
<1>7. ASSUME NEW type \in ForeignTypes, OtherProposes(type)
      PROVE  LogInv' /\ Begins(group.chosen, group'.chosen)
  <2> DEFINE e == [type |-> type, term |-> group.maxTerm, reqs |-> <<>>, ver |-> 1]
  <2>1. type \in {"empty", "normal", "conf"} /\ <<>> \in Seq(Req)
    BY BoundsAssumption
  <2>2. e \in Entry /\ e.reqs = <<>>
    BY <1>1, <2>1, EntryTypes, Zenon
  <2>3. group' = [group EXCEPT !.foreign = @ + 1, !.rest = Append(group.rest, e)] /\ raft' = raft
    BY <1>7 DEF OtherProposes
  <2> HIDE DEF e
  <2>4. group'.rest = Append(group.rest, e) /\ group'.chosen = group.chosen /\ group'.lead = group.lead
    BY <1>1, <2>3 DEF GroupState
  <2>5. Plain(group'.rest) /\ (group.lead = "rest" => Begins(group.chosen, group'.rest))
    BY <1>1, <2>2, <2>4, PlainAppend, BeginsAppend DEF LogInv
  <2> QED BY <1>2, <2>3, <2>4, <2>5 DEF LogInv
<1>8. ASSUME NEW k \in 1..Len(group.rest), AppendFromLeader(k)
      PROVE  LogInv' /\ Begins(group.chosen, group'.chosen)
  <2>1. raft'.log = Upto(group.rest, k) /\ group' = group /\ group.lead = "rest" /\ k \in Nat
    BY <1>1, <1>8 DEF AppendFromLeader, RaftState
  <2>2. Plain(raft'.log)
    BY <1>1, <2>1, PlainUpto DEF LogInv
  <2> QED BY <1>2, <2>1, <2>2 DEF LogInv
<1>9. ASSUME NEW k \in 1..(Len(group.rest) + Len(raft.log)), Choose(k)
      PROVE  LogInv' /\ Begins(group.chosen, group'.chosen)
  <2>1. PICK log \in {raft.log, group.rest} :
          /\ group.lead = "me" => log = raft.log
          /\ group.lead = "rest" => log = group.rest
          /\ Plain(log) /\ Begins(group.chosen, log) /\ k \in Len(group.chosen) + 1 .. Len(log)
          /\ group' = [group EXCEPT !.chosen = Upto(log, k)] /\ raft' = raft
    BY <1>1, <1>9, Zenon DEF Choose, LogInv
  <2>2. k \in Nat /\ Len(group.chosen) <= k /\ log \in Seq(Entry)
    BY <1>1, <2>1
  <2>3. group'.chosen = Upto(log, k) /\ group'.rest = group.rest /\ group'.lead = group.lead
    BY <1>1, <2>1 DEF GroupState
  <2>4. Plain(group'.chosen) /\ Begins(group.chosen, group'.chosen) /\ Begins(group'.chosen, log)
    BY <1>1, <2>1, <2>2, <2>3, PlainUpto, BeginsUpto, UptoBegins
  <2> QED BY <2>1, <2>3, <2>4 DEF LogInv
<1>10. ASSUME NEW k \in 1..Len(group.chosen), CommitTo(k) \/ RestoreSnapshot(k)
       PROVE  LogInv' /\ Begins(group.chosen, group'.chosen)
  <2>1. CASE CommitTo(k)
    <3>1. raft'.log = raft.log /\ group' = group
      BY <1>1, <2>1 DEF CommitTo, RaftState
    <3> QED BY <1>2, <3>1 DEF LogInv
  <2>2. CASE RestoreSnapshot(k)
    <3>1. raft'.log = Upto(group.chosen, k) /\ group.lead = "rest" /\ k \in Nat
      BY <1>1, <2>2 DEF RestoreSnapshot, RaftState
    <3>2. group'.rest = group.rest /\ group'.chosen = group.chosen /\ group'.lead = group.lead
      BY <1>1, <2>2 DEF RestoreSnapshot, GroupState
    <3>3. Plain(raft'.log)
      BY <1>1, <3>1, PlainUpto DEF LogInv
    <3> QED BY <1>2, <3>1, <3>2, <3>3 DEF LogInv
  <2> QED BY <1>10, <2>1, <2>2
<1>11. ASSUME NEW k \in 1..Len(raft.readOnly), ConfirmReads(k)
       PROVE  LogInv' /\ Begins(group.chosen, group'.chosen)
  <2>1. raft'.log = raft.log /\ group' = group
    BY <1>1, <1>11 DEF ConfirmReads, RaftState
  <2> QED BY <1>2, <2>1 DEF LogInv
<1> QED
  BY <1>3, <1>4, <1>5, <1>6, <1>7, <1>8, <1>9, <1>10, <1>11, Zenon DEF Next, Raft

-----------------------------------------------------------------------------
\* The apply worker and the pool.

\* How many pending commands an entry that is no ChangePeer takes off the queue.
Popped(e) ==
  IF FindCB(e) > 0 THEN FindCB(e)
  ELSE Poppable(IF e.type = "empty" THEN StaleTerm(e) ELSE e.term)

\* The fields that applying an entry changes, one by one.
LEMMA AppliedFields ==
  ASSUME IndInv, CanApply, NEW result, Applied(NextEntry, result)
  PROVE  /\ worker'.applied = worker.applied + 1 /\ worker'.alive = worker.alive
         /\ worker'.appliedIndexTerm = IF NextEntry.type = "empty" THEN NextEntry.term
                                       ELSE worker.appliedIndexTerm
         /\ worker'.pendingChangePeerCMD = worker.pendingChangePeerCMD
         /\ worker'.cleared = worker.cleared
         /\ worker'.pendingCMDs = IF NextEntry.type = "conf" THEN worker.pendingCMDs
                                  ELSE From(worker.pendingCMDs, Popped(NextEntry) + 1)
         /\ \/ worker'.jobs = Tail(worker.jobs)
            \/ \E j \in Job : /\ worker'.jobs = [worker.jobs EXCEPT ![1] = j] /\ j.type = "apply"
                              /\ j.next = worker.applied + 2 /\ j.upto = worker.jobs[1].upto
         /\ \/ loop' = loop
            \/ \E res \in Result : /\ loop' = [loop EXCEPT !.results = Append(loop.results, res)]
                                   /\ res.index = worker'.applied /\ res.term = worker'.appliedIndexTerm
<1> DEFINE e == NextEntry
           job == worker.jobs[1]
           i == worker.applied + 1
           t == IF e.type = "empty" THEN e.term ELSE worker.appliedIndexTerm
           removed == result = "removed"
           split == result = "ok" /\ Range(e.reqs) \cap Splits # {}
           step == [job EXCEPT !.next = i + 1]
           jobs == IF i = job.upto /\ ~removed THEN Tail(worker.jobs) ELSE [worker.jobs EXCEPT ![1] = step]
           v == IF split THEN worker.ver + 1 ELSE worker.ver
           k == 1 + (IF FindCB(e) > 0 THEN FindCB(e)
                     ELSE Poppable(IF e.type = "empty" THEN StaleTerm(e) ELSE e.term))
           p == IF e.type = "conf" THEN worker.pendingCMDs ELSE From(worker.pendingCMDs, k)
           report == [index |-> i, term |-> t, split |-> split,
                      conf |-> e.type = "conf", removed |-> removed]
<1>1. /\ TypeOK /\ worker \in WorkerState /\ loop \in LoopState
      /\ worker.applied \in Nat /\ worker.appliedIndexTerm \in Nat
  BY WorkerFields DEF IndInv, TypeOK
<1>2. worker.jobs # <<>> /\ Head(worker.jobs).type = "apply"
  BY DEF CanApply, JobIs
<1>3. Head(worker.jobs) = job /\ job \in Job
  BY <1>2, HeadJob
<1>4. step \in Job /\ step.type = "apply" /\ step.next = worker.applied + 2 /\ step.upto = job.upto
  <2>1. i + 1 \in Nat /\ i + 1 = worker.applied + 2 /\ job \in [type : {"apply"}, next : Nat, upto : Nat]
    BY <1>1, <1>2, <1>3, JobFields
  <2> HIDE DEF job, i
  <2> QED BY <2>1, AdvanceJob
<1>5. /\ worker' = [worker EXCEPT !.jobs = jobs, !.applied = i, !.appliedIndexTerm = t, !.ver = v,
                                  !.pendingCMDs = p, !.pendingRemove = removed]
      /\ loop' = IF loop.disposed THEN loop
                 ELSE [loop EXCEPT !.results = Append(loop.results, report)]
  BY <1>3 DEF Applied
<1>6. report \in Result /\ report.index = i /\ report.term = t
  <2>1. e \in Entry /\ e.term \in Nat
    BY EntryReady DEF Entry
  <2>2. t \in Nat /\ i \in Nat /\ removed \in BOOLEAN /\ split \in BOOLEAN /\ (e.type = "conf") \in BOOLEAN
    BY <1>1, <2>1
  <2> QED BY <2>2 DEF Result
<1>7. p = IF e.type = "conf" THEN worker.pendingCMDs ELSE From(worker.pendingCMDs, Popped(e) + 1)
  <2>1. FindCB(e) \in Nat /\ \A term : Poppable(term) \in Nat
    <3>1. Len(worker.pendingCMDs) \in Nat
      BY <1>1, WorkerFields
    <3> QED BY <1>1, <3>1, FindCBType, PoppableType
  <2>2. k = Popped(e) + 1
    BY <2>1 DEF Popped
  <2> QED BY <2>2
<1> HIDE DEF p, report, t, v, removed, step, split
<1>8. /\ worker'.jobs = jobs /\ worker'.applied = i /\ worker'.appliedIndexTerm = t
      /\ worker'.pendingCMDs = p /\ worker'.alive = worker.alive /\ worker'.cleared = worker.cleared
      /\ worker'.pendingChangePeerCMD = worker.pendingChangePeerCMD
  <2> HIDE DEF jobs, i
  <2> QED BY <1>1, <1>5 DEF WorkerState
<1>9. jobs = Tail(worker.jobs) \/ jobs = [worker.jobs EXCEPT ![1] = step]
  OBVIOUS
<1>10. loop' = loop \/ loop' = [loop EXCEPT !.results = Append(loop.results, report)]
  BY <1>5
<1>11. t = IF e.type = "empty" THEN e.term ELSE worker.appliedIndexTerm
  BY DEF t
<1> HIDE DEF jobs
<1>12. \/ worker'.jobs = Tail(worker.jobs)
       \/ \E j \in Job : /\ worker'.jobs = [worker.jobs EXCEPT ![1] = j] /\ j.type = "apply"
                         /\ j.next = worker.applied + 2 /\ j.upto = worker.jobs[1].upto
  BY <1>4, <1>8, <1>9
<1>13. \/ loop' = loop
       \/ \E res \in Result : /\ loop' = [loop EXCEPT !.results = Append(loop.results, res)]
                              /\ res.index = worker'.applied /\ res.term = worker'.appliedIndexTerm
  BY <1>6, <1>8, <1>10
<1> QED
  BY <1>7, <1>8, <1>11, <1>12, <1>13

\* How many commands are popped.
LEMMA PoppedType ==
  ASSUME TypeOK, NEW e
  PROVE  Popped(e) \in Nat
<1>1. Len(worker.pendingCMDs) \in Nat
  BY WorkerFields DEF TypeOK
<1>2. FindCB(e) \in Nat /\ \A term : Poppable(term) \in Nat
  BY <1>1, FindCBType, PoppableType
<1> QED
  BY <1>2 DEF Popped

\* The apply job in progress is finished or moves on: no propose job is touched.
LEMMA AppliedJobs ==
  ASSUME IndInv, PoolInv, CanApply, NEW result, Applied(NextEntry, result)
  PROVE  /\ DistinctJobs(worker'.jobs)
         /\ \A c : JobCmds(worker'.jobs, c) \subseteq JobCmds(worker.jobs, c)
<1>1. worker.jobs # <<>>
  BY DEF CanApply, JobIs
<1>2. worker.jobs \in Seq(Job) /\ DistinctJobs(worker.jobs)
  BY <1>1, HeadJob DEF PoolInv
<1>3. CASE worker'.jobs = Tail(worker.jobs)
  BY <1>1, <1>2, <1>3, JobsTail
<1>4. CASE \E j \in Job : worker'.jobs = [worker.jobs EXCEPT ![1] = j] /\ j.type = "apply"
  BY <1>1, <1>2, <1>4, JobsNext
<1> QED
  BY <1>3, <1>4, AppliedFields

\* An applied entry frees the commands it pops, or the pending ChangePeer.
LEMMA AppliedPool ==
  ASSUME NoReuse, IndInv, PoolInv, CanApply, NEW result, Applied(NextEntry, result), used' = used,
         NEW q, \A s \in Slots : cmds'[s] = IF s \in Range(q) THEN NoCmd ELSE cmds[s],
         \/ NextEntry.type # "conf" /\ q = Upto(worker.pendingCMDs, Popped(NextEntry))
         \/ NextEntry.type = "conf" /\ Range(q) \subseteq {worker.pendingChangePeerCMD} \ {Nil}
  PROVE  PoolInv'
<1> DEFINE p == worker.pendingChangePeerCMD
           pc == worker'.pendingCMDs
<1>1. /\ TypeOK /\ worker.pendingCMDs \in Seq(Slots) /\ Range(worker.pendingCMDs) \subseteq Slots
      /\ loop \in LoopState /\ p \in Slots \cup {Nil} /\ Range(loop.pendingReads) \subseteq Slots
  BY WorkerFields, LoopFields, RangeIn DEF IndInv, TypeOK
<1>2. /\ DistinctJobs(worker'.jobs) /\ worker'.pendingChangePeerCMD = p
      /\ \A c : JobCmds(worker'.jobs, c) \subseteq JobCmds(worker.jobs, c)
      /\ worker'.pendingCMDs = IF NextEntry.type = "conf" THEN worker.pendingCMDs
                               ELSE From(worker.pendingCMDs, Popped(NextEntry) + 1)
  BY AppliedFields, AppliedJobs
<1>3. loop'.pendingReads = loop.pendingReads
  <2>1. CASE loop' = loop
    BY <2>1
  <2>2. CASE \E res \in Result : loop' = [loop EXCEPT !.results = Append(loop.results, res)]
    BY <1>1, <2>2 DEF LoopState
  <2> QED BY <2>1, <2>2, AppliedFields
<1>4. Range(q) \in SUBSET Slots /\ Distinct(pc) /\ Range(pc) \subseteq Range(worker.pendingCMDs) \ Range(q)
  <2>1. CASE NextEntry.type # "conf"
    <3>1. Popped(NextEntry) \in Nat /\ Distinct(worker.pendingCMDs)
      BY <1>1, PoppedType DEF PoolInv
    <3>2. pc = From(worker.pendingCMDs, Popped(NextEntry) + 1)
          /\ q = Upto(worker.pendingCMDs, Popped(NextEntry))
      BY <1>2, <2>1
    <3> QED BY <1>1, <3>1, <3>2, DistinctFrom
  <2>2. CASE NextEntry.type = "conf"
    <3>1. pc = worker.pendingCMDs
      BY <1>2, <2>2
    <3>2. Range(q) \subseteq {p} \ {Nil}
      BY <2>2
    <3>3. p # Nil => p \notin Range(worker.pendingCMDs)
      BY Zenon DEF PoolInv, ChangeHeld
    <3> QED BY <1>1, <3>1, <3>2, <3>3, Zenon DEF PoolInv
  <2> QED BY <2>1, <2>2
<1>5. /\ Range(loop.pendingReads) \cap Range(q) = {}
      /\ \A c \in BOOLEAN : JobCmds(worker.jobs, c) \cap Range(q) = {}
  <2>1. CASE NextEntry.type # "conf"
    <3>1. Range(q) \subseteq Range(worker.pendingCMDs)
      BY <1>1, <2>1, PoppedType, RangeUpto
    <3>2. \A s \in Range(q) : WriteCmd(s) /\ s \in Slots
      BY <1>1, <3>1, Zenon DEF PoolInv
    <3>3. Range(loop.pendingReads) \cap Range(q) = {}
      BY <1>1, <3>2, KindsApart, Zenon DEF PoolInv
    <3> QED BY <3>1, <3>3, Zenon DEF PoolInv
  <2>2. CASE NextEntry.type = "conf"
    BY <2>2, Zenon DEF PoolInv, ChangeHeld
  <2> QED BY <2>1, <2>2
<1>6. Distinct(loop.pendingReads)
  BY DEF PoolInv
<1>7. \A c \in BOOLEAN : Range(pc) \cap JobCmds(worker'.jobs, c) = {}
  BY <1>2, <1>4, Zenon DEF PoolInv
<1> HIDE DEF pc
<1>8. PICK pc2, jobs2 : pc2 = worker'.pendingCMDs /\ jobs2 = worker'.jobs
  OBVIOUS
<1> QED
  BY <1>1, <1>2, <1>3, <1>4, <1>5, <1>6, <1>7, <1>8, PoolStep, Zenon DEF pc

\* The delegate never moves back, not even over a snapshot.
LEMMA AppliedGrows ==
  ASSUME IndInv, [Next]_vars
  PROVE  worker.applied <= worker'.applied /\ (worker.cleared => worker'.cleared)
<1>1. worker \in WorkerState /\ worker.applied \in Nat
  BY WorkerFields DEF IndInv, TypeOK
<1>2. ASSUME CanApply, NEW result, Applied(NextEntry, result)
      PROVE  worker.applied <= worker'.applied /\ (worker.cleared => worker'.cleared)
  BY <1>1, <1>2, AppliedFields
<1>3. CASE doRegistrationJob
  <2>1. worker.jobs # <<>> /\ Head(worker.jobs).type = "register"
    BY <1>3 DEF doRegistrationJob, JobIs
  <2>2. PICK pos : /\ pos[0] \in Nat /\ pos[1] \in Nat /\ worker.applied <= pos[0]
                   /\ Moves(worker.jobs[1], TRUE, pos[0], pos[1]) /\ Head(worker.jobs) = worker.jobs[1]
    BY <2>1, HeadJob, Zenon
  <2>3. worker'.applied = worker.jobs[1].applied /\ worker'.cleared = worker.cleared
    BY <1>1, <1>3, <2>2 DEF doRegistrationJob, WorkerState
  <2>4. worker.applied <= worker.jobs[1].applied
    BY <1>1, <2>1, <2>2 DEF Moves
  <2> QED BY <2>3, <2>4
<1>4. ASSUME worker'.applied = worker.applied, worker'.cleared = worker.cleared \/ worker'.cleared = TRUE
      PROVE  worker.applied <= worker'.applied /\ (worker.cleared => worker'.cleared)
  BY <1>1, <1>4
<1>5. CASE doPropose \/ destroyDelegate \/ missingDelegate \/ doApplyingSnapshotJob \/ clearData
  <2>1. worker'.applied = worker.applied /\ (worker'.cleared = worker.cleared \/ worker'.cleared = TRUE)
    BY <1>1, <1>5, Zenon DEF doPropose, destroyDelegate, missingDelegate, doApplyingSnapshotJob,
                      clearData, WorkerState
  <2> QED BY <1>4, <2>1, Zenon
<1>6. CASE EventLoop
  <2>1. worker'.applied = worker.applied /\ worker'.cleared = worker.cleared
    BY <1>1, <1>6, Zenon DEF EventLoop, handleRequest, proposeEntry, execReadIndex, respError,
                      handleReady, handleApplyResult, loopExit, WorkerState
  <2> QED BY <1>4, <2>1
<1>7. CASE (\E r \in Req : OnProxyReq(r)) \/ Raft \/ UNCHANGED vars
  <2>1. worker' = worker
    BY <1>7, Zenon DEF OnProxyReq, vars, Raft, BecomeLeader, OtherBecomesLeader, BecomeFollower,
                OtherProposes, AppendFromLeader, Choose, CommitTo, RestoreSnapshot, ConfirmReads
  <2> QED BY <1>4, <2>1
<1>8. CASE applyEmptyEntry \/ applyNormalEntry \/ \E result \in ConfResults : applyConfEntry(result)
  BY <1>2, <1>8 DEF applyEmptyEntry, applyNormalEntry, applyConfEntry
<1> QED
  BY <1>3, <1>5, <1>6, <1>7, <1>8 DEF Next, ApplyWorker
====
